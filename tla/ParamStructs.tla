---------------------------- MODULE ParamStructs ----------------------------
(***************************************************************************)
(* The parameter structures of core/types.py.  Each class takes a handle,  *)
(* which from_ir passes by name, or fields, which become the operands of a *)
(* ConstructOp.  A declared field has the range its documentation states,  *)
(* a field of the constructor that of the operand it becomes; operands of  *)
(* 32 bits and more hold every value that is tried.                        *)
(***************************************************************************)
EXTENDS Signatures

Handle == One("handle", "IRHandle")
Struct(decl, lead) == Fn(<<decl, Handle>>, lead \o D(<<"handle">>, {}, "None"))

\* Fields that are declared as they are implemented: their names, type and
\* default, the documented range, the range of the operands.
Field(ns, t, d, doc, op) == [i \in DOMAIN ns |-> [n |-> ns[i], t |-> t, d |-> d, r |-> doc, op |-> op]]
Declared(fields) == [i \in DOMAIN fields |-> [n |-> fields[i].n, t |-> fields[i].t, d |-> fields[i].d, r |-> fields[i].r]]
Operand(fields)  == [i \in DOMAIN fields |-> [n |-> fields[i].n, t |-> {}, d |-> fields[i].d, r |-> fields[i].op]]
Fields(fields)   == Struct(Declared(fields), Operand(fields))

U8(ns, d)         == Field(ns, IntT, d, Width, UInt8)
U16(ns, d)        == Field(ns, IntT, d, Width, UInt16)
U8In(ns, d, doc)  == Field(ns, IntT, d, doc, UInt8)
U16In(ns, d, doc) == Field(ns, IntT, d, doc, UInt16)
I16In(ns, d, doc) == Field(ns, IntT, d, doc, Int16)
Wide(ns, d)       == Field(ns, IntT, d, Width, Width)
Flags(ns)         == Field(ns, BoolT, "False", Width, Width)
Enum(n, class, d) == Field(<<n>>, {class}, d, Width, Width)

(* Strides of vector instructions *)
BinaryRepeatParams == [BinaryRepeatParams |-> Fields(
  U8(<<"dst_blk_stride", "src0_blk_stride", "src1_blk_stride">>, "1")
  \o U8(<<"dst_rep_stride", "src0_rep_stride", "src1_rep_stride">>, "8"))]
Strides            == Fields(U16(<<"dst_blk_stride">>, "1") \o U16(<<"dst_rep_stride">>, "8"))
BrcbRepeatParams   == [BrcbRepeatParams |-> Strides]
GatherRepeatParams == [GatherRepeatParams |-> Strides]
CopyRepeatParams   == [CopyRepeatParams |->
  Fields(U16(<<"dst_stride", "src_stride", "dst_repeat_size", "src_repeat_size">>, "0"))]
GatherMaskParams   == [GatherMaskParams |->
  Fields(U8(<<"src0_block_stride">>, "1") \o U16(<<"repeat_times">>, "1") \o U16(<<"src0_repeat_stride">>, "0")
         \o U8(<<"src1_repeat_stride">>, "0"))]

Copied == <<"block_len", "src_stride", "dst_stride">>
\* Declared with the fields of DataCopyParams.
UnaryRepeatParams  == [UnaryRepeatParams |-> Struct(
  Declared(Wide(<<"block_count">>, "1") \o Wide(Copied, "0")),
  Operand(U16(<<"dst_blk_stride", "src_blk_stride">>, "1") \o U8(<<"dst_rep_stride", "src_rep_stride">>, "8")))]

(* Copies *)
DataCopyParams == [DataCopyParams |-> Fields(U16(<<"block_count">>, "1") \o U16(Copied, "0"))]
DataCopyEnhancedParams == [DataCopyEnhancedParams |-> Fields(
  Enum("block_mode", "BlockMode", "BLOCK_MODE_NORMAL") \o Enum("deq_scale", "DeqScale", "DEQ_NONE")
  \o Wide(<<"deq_value_in">>, "0") \o U8(<<"sid_store_mode_in">>, "0") \o Flags(<<"is_relu_in">>)
  \o Enum("pad_mode_in", "pad_t", "PAD_NONE") \o Wide(<<"pad_value_in">>, "0"))]
Padding == Flags(<<"is_pad">>) \o U16(<<"left_padding", "right_padding">>, "0")
DataCopyPadExtParams == [DataCopyPadExtParams |-> Fields(
  Enum("dtype", "DataType", Required) \o Padding \o Wide(<<"padding_value">>, "0"))]
DataCopyPadParams == [DataCopyPadParams |-> Fields(Padding \o Wide(<<"padding_value">>, "0"))]
DataCopyExtParams == [DataCopyExtParams |-> Fields(
  U16(<<"block_count">>, "1") \o Wide(Copied \o <<"rsv">>, "0"))]
Nd2NzParams == [Nd2NzParams |-> Fields(U16(
  <<"nd_num", "n_value", "d_value", "src_nd_matrix_stride", "src_d_value", "dst_nz_c0_stride",
    "dst_nz_n_stride", "dst_nz_matrix_stride">>, Required))]
Nz2NdParamsFull == [Nz2NdParamsFull |-> Fields(U16(
  <<"nd_num", "n_value", "d_value", "src_nd_matrix_stride", "src_n_stride", "dst_d_stride",
    "dst_nd_matrix_stride">>, Required))]
DataCopyCO12DstParams == [DataCopyCO12DstParams |-> Fields(
  Wide(<<"n_size", "m_size", "dst_stride", "src_stride">>, Required) \o Enum("quant_pre", "QuantModes", "NoQuant")
  \o U8(<<"relu_pre">>, "0") \o Flags(<<"channel_split", "nz2nd_en">>))]
\* The range is that of the form with all parameters.
InitConstValueParams == [InitConstValueParams |-> Fields(
  U16In(<<"repeat_times", "block_num", "dst_gap">>, "0", <<0, 32767>>) \o Wide(<<"init_value">>, "0"))]
SliceInfo == [SliceInfo |-> Fields(
  Wide(<<"start_index">>, "0") \o Wide(<<"end_index">>, "None") \o Wide(<<"stride">>, "0")
  \o Wide(<<"burst_len">>, "None") \o Wide(<<"shape_value">>, "0"))]

(* Shapes *)
\* data_format None is turned into ND.
ShapeInfo ==
  LET original == D(<<"original_shape">>, {"Array"}, "None")
  IN  [ShapeInfo |-> Fn(<<<<>>, One("shape", "Array") \o original \o D(<<"data_format">>, {"DataFormat"}, "ND"), Handle>>,
                        D(<<"shape">>, {}, "None") \o original \o D(<<"data_format">>, {}, "ND")
                        \o D(<<"handle">>, {}, "None"))]
ShapeMethods == Each({"ShapeInfo.shape", "ShapeInfo.original_shape"}, Same(P(<<"dim">>, IntT))) @@
  ("get_shape_size" :> Same(One("shape_info", "ShapeInfo"))) @@
  ("SliceInfo.__getitem__" :> Same(P(<<"slices">>, {"int", "slice"})))
TransDataTo5HDParams == [TransDataTo5HDParams |-> Fields(
  Flags(<<"dst_high_half", "src_high_half">>) \o U8(<<"repeat_times">>, "1")
  \o U16(<<"dst_rep_stride", "src_rep_stride">>, "0"))]
TransposeParamsExt == [TransposeParamsExt |-> Fields(
  U16(<<"n_size", "c_size", "h_size", "w_size">>, "0") \o Enum("transpose_type", "TransposeType", "TRANSPOSE_ND2ND_B16"))]

(* Matrices *)
Sizes  == Field(<<"m", "n", "k">>, IntT, "0", <<0, 4095>>, UInt16)
Sparse == <<"en_ssparse", "en_winograd_a", "en_winograd_b">>
\* A structure with nothing in it, unless one of the two groups is complete.
MmadParams ==
  LET group(needs, without) == [needs |-> needs, without |-> without, uses |-> needs \cup {"m", "n", "k"}]
      optional(ns) == D(ns, {}, "None")
      old  == {"is_bias", "fm_offset", "en_ssparse", "en_winograd_a", "en_winograd_b"}
      new  == {"unit_flag", "cmatrix_source", "cmatrix_init_val"}
  IN  [MmadParams |-> [Fn(
    <<<<>>, Declared(Sizes \o Flags(<<"is_bias">>) \o Wide(<<"fm_offset">>, "0") \o Flags(Sparse)),
      Declared(Sizes \o Wide(<<"unit_flag">>, "0") \o Flags(<<"cmatrix_source">>)) \o D(<<"cmatrix_init_val">>, BoolT, "True"),
      Handle>>,
    Operand(Sizes) \o optional(<<"is_bias", "fm_offset">> \o Sparse \o <<"unit_flag", "cmatrix_source", "cmatrix_init_val">>)
    \o D(<<"handle">>, {}, "None"))
    EXCEPT !.groups = {group(old, new), group(new, {"is_bias"}), [needs |-> {"handle"}, without |-> {}, uses |-> {"handle"}]}]]

Image == U16In(<<"horiz_size", "vert_size">>, "2", <<2, 4095>>) \o U16In(<<"horiz_start_pos", "vert_start_pos">>, "0", <<0, 4095>>)
         \o U16In(<<"src_horiz_size">>, "2", <<2, 4095>>)
         \o U16In(<<"top_pad_size", "bot_pad_size", "left_pad_size", "right_pad_size">>, "0", <<0, 32>>)
\* sid is declared only.
LoadImageToLocalParams == [LoadImageToLocalParams |-> Struct(Declared(Image \o U16(<<"sid">>, "0")), Operand(Image))]

Word16 == <<0, 65535>>
Byte   == <<0, 255>>
Some8  == <<1, 255>>
LoadData2DParams == [LoadData2DParams |-> Fields(
  U16In(<<"start_index">>, "0", Word16) \o U8In(<<"repeat_times">>, "1", Some8) \o U16In(<<"src_stride">>, "0", Word16)
  \o U16(<<"sid">>, "0") \o U16In(<<"dst_gap">>, "0", Word16) \o Flags(<<"if_transpose">>) \o U8(<<"addr_mode">>, "0"))]
LoadData2DParamsV2 == [LoadData2DParamsV2 |-> Fields(
  Field(<<"m_start_position", "k_start_position">>, IntT, "0", Word16, Width) \o U16In(<<"m_step", "k_step">>, "0", Word16)
  \o Wide(<<"src_stride">>, "0") \o U16In(<<"dst_stride">>, "0", Word16) \o Flags(<<"if_transpose">>)
  \o U8In(<<"sid">>, "0", Byte))]

Pads == Field(<<"pad_list">>, {"tuple", "list"}, "(0, 0, 0, 0)", Byte, UInt8) \o U16In(<<"l1_h", "l1_w">>, "1", <<1, 32767>>)
Kernel == U8In(<<"stride_w", "stride_h">>, "1", <<1, 63>>)
          \o U8In(<<"filter_w", "filter_h", "dilation_filter_w", "dilation_filter_h">>, "1", Some8)
LoadData3DParamsV1 == [LoadData3DParamsV1 |-> Fields(
  Pads \o U16In(<<"c1_index">>, "0", <<0, 4095>>) \o U8In(<<"fetch_filter_w", "fetch_filter_h">>, "0", <<0, 254>>)
  \o I16In(<<"left_top_w", "left_top_h">>, "0", <<-255, 32767>>) \o Kernel \o U8In(<<"jump_stride">>, "1", <<1, 127>>)
  \o U8In(<<"repeat_mode">>, "0", <<0, 1>>) \o U8In(<<"repeat_time">>, "1", Some8) \o U8In(<<"c_size">>, "0", <<0, 1>>)
  \o U16(<<"pad_value">>, "0"))]
LoadData3DParamsV2 == [LoadData3DParamsV2 |-> Fields(
  Pads \o U8(<<"channel_size">>, "1") \o U16In(<<"k_extension", "m_extension">>, "1", <<1, 65535>>)
  \o U16In(<<"k_start_pt", "m_start_pt">>, "0", Word16) \o Kernel \o Flags(<<"en_transpose">>) \o U16(<<"pad_value">>, "0")
  \o Flags(<<"filter_size_w", "filter_size_h", "f_matrix_ctrl">>))]
LoadData3DParamsV2Pro == [LoadData3DParamsV2Pro |-> Fields(
  U16In(<<"channel_size">>, "0", Word16) \o Flags(<<"en_transpose", "en_small_k", "filter_size_w", "filter_size_h", "f_matrix_ctrl">>)
  \o Wide(<<"ext_config">>, "0") \o Wide(<<"filter_config">>, "0x10101010101"))]
Fractal(repeats, gaps) == Fields(
  U16In(<<"start_index">>, "0", Word16) \o U8In(<<"repeat_times">>, repeats, Byte) \o U16In(gaps, "0", Word16)
  \o U8(<<"addr_mode">>, "0"))
LoadData2dTransposeParams   == [LoadData2dTransposeParams |-> Fractal("1", <<"src_stride", "dst_gap", "dst_frac_gap">>)]
LoadData2dTransposeParamsV2 ==
  [LoadData2dTransposeParamsV2 |-> Fractal("0", <<"src_stride", "dst_gap", "dst_frac_gap", "src_frac_gap">>)]
\* Slip: the stride is given the width of the other two.
LoadDataRepeatParamNarrow == [LoadDataRepeatParam |-> Fields(
  U8In(<<"repeat_time">>, "1", Byte) \o U8In(<<"repeat_stride">>, "0", Word16) \o U8In(<<"repeat_mode">>, "0", <<0, 1>>))]
LoadDataRepeatParam == [LoadDataRepeatParam |-> Fields(
  U8In(<<"repeat_time">>, "1", Byte) \o U16In(<<"repeat_stride">>, "0", Word16) \o U8In(<<"repeat_mode">>, "0", <<0, 1>>))]

(* Sorting, quantisation, checks *)
MrgSort4Info == [MrgSort4Info |-> Fields(
  Field(<<"element_lengths">>, ListT, Required, Width, Width) \o Flags(<<"if_exhausted_suspension">>)
  \o U16(<<"valid_bit">>, "15") \o U16(<<"repeat_times">>, "1"))]
FixpipeConfig == NoArguments({"FixpipeConfig.cfg_nz", "FixpipeConfig.cfg_row_major"}) @@
  [FixpipeConfig |-> Fields(Enum("layout", "CO2Layout", Required))]
FixpipeParamsV220 == [FixpipeParamsV220 |-> Fields(
  U16(<<"n_size", "m_size", "src_stride">>, Required) \o Wide(<<"dst_stride">>, Required) \o Enum("quant_pre", "QuantModes", "NoQuant")
  \o Wide(<<"deq_scalar">>, "0") \o U16(<<"nd_num">>, "1") \o U16(<<"src_nd_stride", "dst_nd_stride">>, "0")
  \o Flags(<<"relu_en">>) \o U8(<<"unit_flag">>, "0") \o Flags(<<"is_channel_split">>))]
VdeqInfo == [VdeqInfo |-> LET f == <<"scale", "offset", "sign_mode">> IN Struct(P(f, ListT), D(f, {}, "None"))]
CheckLocalMemoryIAParam == [CheckLocalMemoryIAParam |-> Fields(
  U8(<<"enable_bit">>, "0") \o Wide(<<"start_addr", "end_addr">>, "0")
  \o Flags(<<"is_scalar_read", "is_scalar_write", "is_vector_read", "is_vector_write", "is_mte_read", "is_mte_write",
             "is_enable">>))]

StructsApi == BinaryRepeatParams @@ BrcbRepeatParams @@ GatherRepeatParams @@ CopyRepeatParams @@ GatherMaskParams
  @@ UnaryRepeatParams @@ DataCopyParams @@ DataCopyEnhancedParams @@ DataCopyPadExtParams @@ DataCopyPadParams
  @@ DataCopyExtParams @@ Nd2NzParams @@ Nz2NdParamsFull @@ DataCopyCO12DstParams @@ InitConstValueParams @@ SliceInfo
  @@ ShapeInfo @@ ShapeMethods @@ TransDataTo5HDParams @@ TransposeParamsExt @@ MmadParams @@ LoadImageToLocalParams
  @@ LoadData2DParams @@ LoadData2DParamsV2 @@ LoadData3DParamsV1 @@ LoadData3DParamsV2 @@ LoadData3DParamsV2Pro
  @@ LoadData2dTransposeParams @@ LoadData2dTransposeParamsV2 @@ LoadDataRepeatParam @@ MrgSort4Info @@ FixpipeConfig
  @@ FixpipeParamsV220 @@ VdeqInfo @@ CheckLocalMemoryIAParam
=============================================================================
