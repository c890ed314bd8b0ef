------------------------------ MODULE ApiBasic ------------------------------
(***************************************************************************)
(* The rest of language/basic: data movement (data_copy.py, fixpipe.py),   *)
(* the matrix unit (mm.py), sorting (proposal.py), synchronisation, caches, *)
(* masks, atomics, debugging, scalars and tensor lists.                    *)
(***************************************************************************)
EXTENDS Signatures

\* ds: the pairs of tensors a form is declared for.
LG == P(<<"dst">>, LocalT) \o P(<<"src">>, GlobalT)
LL == P(<<"dst", "src">>, LocalT)
GL == P(<<"dst">>, GlobalT) \o P(<<"src">>, LocalT)
DstSrc == L(<<"dst", "src">>)
AnyOf(ds, sig) == [i \in DOMAIN ds |-> ds[i] \o sig]

(* data_copy.py *)
CopyParams == One("repeat_params", "CopyRepeatParams")
Copy == [copy |-> Fn(
  <<LL \o P(<<"mask">>, IntT) \o P(<<"repeat_time">>, IntT) \o CopyParams,
    LL \o P(<<"mask">>, ListT) \o P(<<"repeat_time">>, IntT) \o CopyParams>>,
  DstSrc \o L(<<"mask">>) \o InR(<<"repeat_time">>, {}, Required, UInt8) \o L(<<"repeat_params">>)
    \o D(<<"is_set_mask">>, {}, "True"))]
Slices(i) == P(<<"slice_list1", "slice_list2">>, ListT) \o P(<<"dim_value">>, i)
Enhanced  == One("enhanced_params", "DataCopyEnhancedParams")
DataCopy == [data_copy |-> Dispatched(
  AnyOf(<<LG, LL, GL>>, P(<<"count">>, IntT))
    \o AnyOf(<<LG, LL, GL>>, One("repeat_params", "DataCopyParams"))
    \o AnyOf(<<LG, LL, GL>>, One("intri_params", "DataCopyParams") \o Enhanced)
    \o AnyOf(<<GL, LG>>, Slices(IntT))
    \o AnyOf(<<LG, LL>>, One("intri_params", "Nd2NzParams"))
    \o AnyOf(<<GL>>, One("intri_params", "Nz2NdParamsFull"))
    \o AnyOf(<<GL, LL>>, One("intri_params", "DataCopyCO12DstParams")),
  DstSrc,
  <<One("repeat_params", "DataCopyParams"), P(<<"count">>, RIntT),
    One("repeat_params", "DataCopyParams") \o Enhanced, Slices(RIntT),
    One("intri_params", "Nd2NzParams"), One("intri_params", "Nz2NdParamsFull"),
    One("intri_params", "DataCopyCO12DstParams")>>)]
PadForms(copy, pad) == LET c == One("data_copy_params", copy) IN
  <<c \o One("pad_params", pad), c, c \o One("nd2nz_params", "Nd2NzParams")>>
PadDecl(f) == <<LG \o f[1], GL \o f[2], LL \o f[3]>>
Ext   == PadForms("DataCopyExtParams", "DataCopyPadExtParams")
Plain == PadForms("DataCopyParams", "DataCopyPadParams")
DataCopyPad == [data_copy_pad |-> Dispatched(PadDecl(Ext) \o PadDecl(Plain), DstSrc, Ext \o Plain)]
LoadImage == [load_image_to_local |-> Same(P(<<"dst">>, LocalT) \o One("load_data_params", "LoadImageToLocalParams")),
              set_pad_value |-> Same(P(<<"padding_value">>, NumT)
                                     \o D(<<"pos">>, {"TPosition", "None"}, "TPosition.MAX"))]

(* mm.py *)
InitConst == [init_const_value |-> Same(P(<<"dst">>, LocalT) \o One("init_const_value_params", "InitConstValueParams"))]
Params(class) == One("params", class)
LoadData == [load_data |-> Dispatched(
  AnyOf(<<LL, LG>>, Params("LoadData2DParams")) \o AnyOf(<<LL, LG>>, Params("LoadData2DParamsV2"))
    \o <<LL \o Params("LoadData3DParamsV1"), LL \o Params("LoadData3DParamsV2"), LL \o Params("LoadData3DParamsV2Pro")>>,
  DstSrc,
  <<Params("LoadData2DParams"), Params("LoadData2DParamsV2"), Params("LoadData3DParamsV1"),
    Params("LoadData3DParamsV2"), Params("LoadData3DParamsV2Pro")>>)]
LoadOther ==
  [load_data_with_sparse |-> Same(P(<<"dst", "src", "idx">>, LocalT) \o One("load_data_params", "LoadData2DParams")),
   load_data_with_transpose |-> Dispatched(
     <<LL \o Params("LoadData2dTransposeParams"), LL \o Params("LoadData2dTransposeParamsV2")>>, DstSrc,
     <<Params("LoadData2dTransposeParams"), Params("LoadData2dTransposeParamsV2")>>)]
Mats == <<"dst", "fm", "filter">>
Mmad ==
  [mmad |-> Dispatched(
     <<P(Mats, LocalT) \o Params("MmadParams"), P(Append(Mats, "bias"), LocalT) \o Params("MmadParams")>>, L(Mats),
     <<Params("MmadParams"), P(<<"bias">>, LocalT) \o Params("MmadParams")>>),
   mmad_with_sparse |-> Same(P(Mats, LocalT) \o One("mmad_params", "MmadParams"))]
SetLoadData ==
  [set_load_data_boundary |-> Same(P(<<"boundary">>, IntT)),
   set_load_data_padding_value |-> Same(P(<<"pad_value">>, IntT)),
   set_load_data_repeat |-> Same(One("param", "LoadDataRepeatParam"))]

(* fixpipe.py *)
FixpipeRest == Params("FixpipeParamsV220") \o D(<<"config">>, {"FixpipeConfig"}, "FixpipeConfig.cfg_row_major")
Workspace   == P(<<"cbuf_workspace">>, LocalT)
Fixpipe ==
  [fixpipe |-> Dispatched(<<GL \o FixpipeRest, GL \o Workspace \o FixpipeRest>>, DstSrc,
                          <<FixpipeRest, Workspace \o FixpipeRest>>),
   set_fix_pipe_pre_quant_flag |-> Same(P(<<"config">>, IntT))]

(* proposal.py *)
Merge(i, b) == P(<<"element_count_list", "sorted_num">>, ListT) \o P(<<"valid_bit">>, i)
               \o InR(<<"repeat_time">>, i, Required, <<1, 255>>) \o D(<<"is_exhausted_suspension">>, b, "False")
SrcList == P(<<"dst">>, LocalT) \o One("sort_list", "MrgSortSrcList")
MrgSort == NoArguments({"get_mrg_sort_result"}) @@
  [mrg_sort |-> Dispatched(
     <<SrcList \o Merge(IntT, BoolT), SrcList \o Params("MrgSort4Info")>>, L(<<"dst", "sort_list">>),
     <<Merge(RIntT, RBoolT), Params("MrgSort4Info")>>),
   mrg_sort4 |-> Same(P(<<"dst">>, LocalT) \o One("src", "MrgSortSrcList") \o Params("MrgSort4Info")),
   get_sort_len |-> Same(P(<<"elem_count">>, RIntT)), get_sort_offset |-> Same(P(<<"elem_offset">>, RIntT))]
Times(r) == InR(<<"repeat_time">>, IntT, Required, r)
Modes    == InR(<<"mode_number">>, IntT, Required, <<0, 5>>)
Proposal ==
  Each({"proposal_concat", "proposal_extract"}, Same(LL \o Times(UInt8) \o Modes)) @@
  [rp_sort16 |-> Same(LL \o Times(Width)), sort32 |-> Same(P(<<"dst", "src0", "src1">>, LocalT) \o Times(Width)),
   sort |-> LET ts == <<"dst", "concat", "index", "tmp">> IN
            Fn(<<P(ts, LocalT) \o Times(Width)>>, L(Append(ts, "repeat_time")) \o D(<<"is_full_sort">>, {}, "False"))]

(* block_sync.py, determine_compute_sync.py, cache.py *)
Flags == Each({"set_flag", "wait_flag"}, Same(One("event", "HardEvent") \o D(<<"event_id">>, IntT, "0")))
         @@ [data_sync_barrier |-> Same(One("arg0", "MemDsbT")), pipe_barrier |-> Same(One("pipe", "PipeID"))]
Spaces  == P(<<"gm_workspace">>, GlobalT) \o P(<<"ub_workspace">>, LocalT)
AivOnly == D(<<"is_aiv_only">>, BoolT, "True")
BlockFlags == Each({"ib_set", "ib_wait"}, Same(Spaces \o P(<<"block_idx", "event_id">>, IntT) \o AivOnly))
              @@ Each({"notify_next_block", "wait_pre_block"}, Same(Spaces))
SyncAll == [sync_all |-> Fn(<<AivOnly, Spaces \o D(<<"used_cores">>, IntT, "0") \o AivOnly>>,
  D(<<"gm_workspace", "ub_workspace">>, {}, "None") \o D(<<"used_cores">>, {}, "0") \o AivOnly)]
CrossCore == Each({"cross_core_set_flag", "cross_core_wait_flag"},
  Same(InR(<<"flag_id">>, IntT, Required, <<0, 10>>) \o P(<<"mode_id">>, IntT) \o One("pipe", "PipeID")))
\* The function's own parameters stand in another order than the declared ones;
\* it hands them to the dispatcher in the declared order, which checks them.
Cache == NoArguments({"get_icache_preload_status"}) @@
  [data_cache_clean_and_invalid |->
     LET line == One("entire_type", "CacheLine")  dst == P(<<"dst">>, GlobalT) IN
     Dispatched(<<line \o One("dcci_dst", "DcciDst") \o dst, line \o dst>>, <<>>,
                <<line \o dst \o D(<<"dcci_dst">>, {"DcciDst"}, "None")>>),
   icache_preload |-> Same(P(<<"pre_fetch_len">>, IntT))]

(* common.py, set_atomic.py, sys_var.py *)
Common == NoArguments({"ascend_is_aic", "ascend_is_aiv", "get_sys_workspace", "reset_mask", "set_mask_count",
                       "set_mask_norm", "init_soc_state", "get_store_atomic_config"}) @@
  Each({"set_hf32_mode"}, Same(P(<<"hf32_mode">>, BoolT))) @@
  [data_cache_preload |-> Same(P(<<"src">>, GlobalT) \o P(<<"cache_offset">>, IntT)),
   get_hccl_context |-> Same(P(<<"index">>, IntT)),
   pop_stack_buffer |-> Same(One("dtype", "DataType") \o D(<<"position">>, {"TPosition"}, "TPosition.VECCALC")),
   set_hf32_trans_mode |-> Same(P(<<"trans_mode">>, BoolT)),
   set_hccl_context |-> Same(P(<<"index">>, IntT) \o One("context", "GlobalAddress"))]
Aipp(srcs) == P(srcs, GlobalT) \o One("input_format", "AippInputFormat") \o One("config", "AippParams")
SetAipp == [set_aipp_functions |-> LET forms == <<Aipp(<<"src0">>), Aipp(<<"src0", "src1">>)>> IN
              Dispatched(forms, <<>>, <<forms[2], forms[1]>>)]
Masked(kw) == kw \o One("dtype", "DataType") \o One("mode", "MaskMode")
SetMasks ==
  [set_mm_layout_transform |-> Same(P(<<"mm_layout_mode">>, BoolT)),
   set_sys_workspace |-> Same(One("workspace", "GlobalAddress")),
   set_vector_mask |-> Dispatched(
     <<P(<<"length">>, IntT) \o Masked(<<>>), P(<<"mask_high", "mask_low">>, IntT) \o Masked(<<>>)>>, <<>>,
     <<P(<<"length">>, RIntT) \o Masked(Star), P(<<"mask_high", "mask_low">>, RIntT) \o Masked(Star)>>),
   set_store_atomic_config |-> Same(One("atomic_type", "AtomicDtype") \o One("atomic_op", "AtomicOp")),
   check_local_memory_ia |-> Same(One("check_params", "CheckLocalMemoryIAParam"))]
SetAtomic == NoArguments({"set_atomic_none"}) @@
  Each({"set_atomic_add", "set_atomic_max", "set_atomic_min", "set_atomic_type"}, Fn(<<<<>>>>, L(<<"dtype">>)))
SysVar == [get_arch_version |-> Same(P(<<"core_version">>, IntT))] @@
  NoArguments({"get_block_idx", "get_block_num", "get_data_block_size_in_bytes", "get_program_counter",
               "get_sub_block_idx", "get_system_cycle", "get_task_ratio", "trap", "get_sub_block_num"})

(* dump_tensor.py, scalar.py *)
Dump(t) == P(<<"tensor">>, t) \o P(<<"desc", "dump_size">>, IntT) \o D(<<"shape_info">>, {"ShapeInfo", "None"}, "None")
AccPoint(t) == P(<<"tensor">>, t) \o P(<<"index", "count_off", "dump_size">>, IntT)
DumpTensor ==
  [dump_tensor |-> [Same(Dump(LocalT)) EXCEPT !.decl = <<Dump(GlobalT), Dump(LocalT)>>],
   print_time_stamp |-> Same(P(<<"desc_id">>, IntT)),
   dump_acc_chk_point |-> [Same(AccPoint(LocalT)) EXCEPT !.decl = <<AccPoint(LocalT), AccPoint(GlobalT)>>]]
  @@ NoArguments({"metrics_prof_start", "metrics_prof_stop"})
Scalar ==
  Each({"scalar_get_sff_value", "scalar_get_count_of_value"}, Same(P(<<"value_in", "count_value">>, IntT))) @@
  Each({"scalar_count_leading_zero", "count_bits_cnt_same_as_sign_bit"}, Same(P(<<"value_in">>, IntT))) @@
  [scalar_cast |-> Same(P(<<"value_in">>, FloatT) \o One("dtype", "DataType") \o One("round_mode", "RoundMode"))]

(* list_tensor.py: the constructors read keywords only.                    *)
Sizes   == D(<<"length", "shape_size">>, IntT, "4294967295")
Ignored == Dropped(<<"args[0]", "args[1]", "args[2]">>, {}, "none")
TensorDesc == NoArguments({"TensorDesc.get_dim", "TensorDesc.get_index", "TensorDesc.get_data_ptr", "TensorDesc.get_data_obj"}) @@
  ("TensorDesc" :> LET dtype == D(<<"dtype">>, {"DataType"}, "KT.float32") IN
     Fn(<<dtype, One("handle", "IRHandle") \o dtype>>, Ignored \o Star \o D(<<"handle">>, {}, "none") \o dtype)) @@
  ("TensorDesc.set_shape_addr" :> Same(P(<<"shape_ptr">>, IntT)))
ListTensorDesc == NoArguments({"ListTensorDesc.get_size"}) @@
  ("ListTensorDesc" :> LET data == One("data", "GlobalAddress") IN
     Dispatched(<<<<>>, data \o Sizes, One("handle", "IRHandle")>>, Ignored,
                <<<<>>, data \o P(<<"length", "shape_size">>, IntT), One("handle", "IRHandle")>>)) @@
  ("ListTensorDesc.init" :> Same(One("data", "GlobalAddress") \o Sizes)) @@
  ("ListTensorDesc.get_desc" :> Same(One("desc", "TensorDesc") \o P(<<"index">>, IntT))) @@
  ("ListTensorDesc.get_data_ptr" :> Same(P(<<"index">>, IntT) \o One("dtype", "DataType")))

BasicApi ==
  Copy @@ DataCopy @@ DataCopyPad @@ LoadImage @@ InitConst @@ LoadData @@ LoadOther @@ Mmad @@
  SetLoadData @@ Fixpipe @@ MrgSort @@ Proposal @@ Flags @@ BlockFlags @@ SyncAll @@ CrossCore @@
  Cache @@ Common @@ SetAipp @@ SetMasks @@ SetAtomic @@ SysVar @@ DumpTensor @@ Scalar @@
  TensorDesc @@ ListTensorDesc
=============================================================================
