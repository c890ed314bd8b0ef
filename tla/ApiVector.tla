----------------------------- MODULE ApiVector -----------------------------
(***************************************************************************)
(* The vector instructions (language/basic/vec_*.py): for each function    *)
(* the @overload signatures its users see and those it registers.          *)
(*                                                                         *)
(* Most have three forms: a mask that counts the leading elements, a mask  *)
(* that lists bits, and a count of elements in all.  A parameter is given  *)
(* a range where the documentation states one (declared) and where the     *)
(* operand is narrower than 16 bits (registered).                          *)
(***************************************************************************)
EXTENDS Signatures

SetMask == D(<<"is_set_mask">>, BoolT, "True")
Unary   == {"UnaryRepeatParams"}
Binary  == {"BinaryRepeatParams"}

\* The two declared forms with a mask, after pre and before post; and what
\* is registered for them.
Mask(pre, post)  == <<pre \o P(<<"mask">>, IntT) \o post, pre \o P(<<"mask">>, ListT) \o post>>
RMask(pre, post) == <<pre \o P(<<"mask">>, RIntT) \o post, pre \o P(<<"mask">>, ListT) \o post>>

Repeat(params)  == P(<<"repeat_times">>, IntT) \o P(<<"repeat_params">>, params)
RRepeat(params) == InR(<<"repeat_times">>, RIntT, Required, Int8) \o P(<<"repeat_params">>, params)
Count  == P(<<"count">>, IntT)
RCount == P(<<"count">>, RIntT)

\* count is with or without is_set_mask; so is what is registered for it.
Forms(pre, params, count)  == Mask(pre, Repeat(params) \o SetMask) \o <<pre \o count>>
RForms(params, count)      == RMask(<<>>, RRepeat(params) \o SetMask) \o <<count>>

Dst2 == <<"dst", "src0", "src1">>
Dst1 == <<"dst", "src">>

(* basic/utils.py op_impl: is_set_mask stops there in the form with count. *)
BinaryFn == Dispatched(Forms(P(Dst2, LocalT), Binary, Count \o SetMask), L(Dst2),
              RForms(Binary, RCount \o Dropped(<<"is_set_mask">>, BoolT, "True")))
UnaryFn  == Dispatched(Forms(P(Dst1, LocalT), Unary, Count), L(Dst1), RForms(Unary, RCount))

ScalarPre   == P(Dst1, LocalT) \o P(<<"scalar">>, NumT)
ScalarLead  == L(Dst1 \o <<"scalar">>)
ScalarFn    == Dispatched(Forms(ScalarPre, Unary, Count \o SetMask), ScalarLead,
                          RForms(Unary, RCount \o SetMask))
TernaryFn   == Dispatched(Forms(ScalarPre, Unary, Count), ScalarLead, RForms(Unary, RCount))

AddSub == Each({"add", "add_deq_relu", "add_relu"}, BinaryFn)
BitDiv == Each({"bitwise_and", "bitwise_or", "div"}, BinaryFn)
Fused  == Each({"fused_mul_add", "fused_mul_add_relu"}, BinaryFn)
MaxMul == Each({"max", "min", "mul", "mul_add_dst"}, BinaryFn)
Sub    == Each({"sub", "sub_relu"}, BinaryFn)
ReluCast == Each({"add_relu_cast", "sub_relu_cast"},
                 [BinaryFn EXCEPT !.decl = Forms(P(Dst2, LocalT), Binary, Count)])

AbsNot   == Each({"abs", "exp", "ln", "bitwise_not"}, UnaryFn)
RecipSqrt == Each({"reciprocal", "relu", "rsqrt", "sqrt"}, UnaryFn)
Scalar   == Each({"adds", "leaky_relu", "maxs", "mins", "muls"}, ScalarFn)
\* Slip: is_set_mask stops in the form with count, as it does in op_impl.
ShiftDropsMask == Each({"shift_left", "shift_right"}, Dispatched(Forms(ScalarPre, Unary, Count \o SetMask), ScalarLead,
  RForms(Unary, RCount \o Dropped(<<"is_set_mask">>, BoolT, "True"))))
Shift == Each({"shift_left", "shift_right"}, ScalarFn)
Axpy     == Each({"axpy"}, TernaryFn)

MulCast == Each({"mul_cast"}, Dispatched(
  Mask(P(Dst2, LocalT), Repeat(Binary)) \o <<P(Dst2, LocalT) \o Count>>, L(Dst2),
  RMask(<<>>, RRepeat(Binary)) \o <<RCount>>))

BilinearRest == <<"h_repeat", "repeat_mode", "dst_blk_stride", "v_r_offset", "v_repeat">>
Bilinear == Each({"bilinear_interpolation"}, LET src == <<"dst", "src0", "src0_offset", "src1">> IN
  Fn(Mask(P(src, LocalT), P(<<"h_repeat">>, IntT) \o P(<<"repeat_mode">>, BoolT)
                      \o P(SubSeq(BilinearRest, 3, 5), IntT) \o P(<<"shared_tmp_buffer">>, LocalT)),
     L(src \o <<"mask">> \o BilinearRest \o <<"shared_tmp_buffer">>)))

(* Conversions (vec_vconv.py). *)
CastPre == P(Dst1, LocalT) \o P(<<"round_mode">>, {"RoundMode"})
CastRepeat == InR(<<"repeat_times">>, IntT, Required, UInt8)
Cast == Each({"cast"}, Dispatched(
  Mask(CastPre, CastRepeat \o P(<<"repeat_params">>, Unary) \o SetMask) \o <<CastPre \o Count>>,
  L(Dst1 \o <<"round_mode">>), RForms(Unary, RCount)))
Deq == D(<<"is_vec_deq", "half_block">>, BoolT, "True")
CastDeq == Each({"cast_deq"}, Dispatched(
  Mask(P(Dst1, LocalT), Repeat(Unary) \o SetMask \o Deq) \o <<P(Dst1, LocalT) \o Count \o Deq>>,
  L(Dst1), RForms(Unary, RCount)))
DeqScale(f, i, b) == <<P(<<"scale">>, f), P(<<"scale">>, f) \o P(<<"offset">>, i) \o P(<<"sign_mode">>, b),
                       P(<<"vdeq">>, LocalT) \o P(<<"vdeq_info">>, {"VdeqInfo"})>>
SetDeqScale == Each({"set_deq_scale"}, Dispatched(
  DeqScale(FloatT, IntT, BoolT), <<>>, LET r == DeqScale(RFloatT, RIntT, RBoolT) IN <<r[3], r[1], r[2]>>))

(* Reductions (vec_reduce.py). *)
Strides == <<"dst_rep_stride", "src_blk_stride", "src_rep_stride">>
Times(t, r) == InR(<<"repeat_time">>, t, Required, r)
BlockReduce == Each({"block_reduce_sum", "block_reduce_max", "block_reduce_min"}, Dispatched(
  Mask(P(Dst1, LocalT) \o P(<<"repeat">>, IntT), P(Strides, IntT)), L(Dst1),
  RMask(P(<<"repeat">>, RIntT), P(Strides, RIntT))))
\* Slip: registered without is_set_mask, as whole_reduce_max is.
PairReduceNoMask == Each({"pair_reduce_sum"}, Dispatched(
  Mask(P(Dst1, LocalT) \o Times(IntT, UInt8), P(Strides, IntT) \o SetMask), L(Dst1),
  RMask(Times(RIntT, Width), P(Strides, RIntT))))
PairReduce == Each({"pair_reduce_sum"}, Dispatched(
  Mask(P(Dst1, LocalT) \o Times(IntT, UInt8), P(Strides, IntT) \o SetMask), L(Dst1),
  RMask(Times(RIntT, Width), P(Strides, RIntT) \o SetMask)))
RepeatReduceRest == <<"dst_blk_stride", "src_blk_stride", "dst_rep_stride", "src_rep_stride">>
RepeatReduce == Each({"repeat_reduce_sum"}, Fn(
  <<P(Dst1, LocalT) \o Times(IntT, UInt8) \o P(<<"mask">>, IntT) \o P(RepeatReduceRest, IntT) \o SetMask>>,
  L(Dst1 \o <<"repeat_time", "mask">> \o RepeatReduceRest) \o SetMask))
WholeRest(i, r) == Times(i, r) \o P(Strides, i)
Order(none) == D(<<"order">>, {"ReduceOrder"} \cup none, "ReduceOrder.ORDER_VALUE_INDEX")
\* whole_reduce_max and _min have no is_set_mask to hand on.
WholeReduceMax == Each({"whole_reduce_max", "whole_reduce_min"}, Dispatched(
  Mask(P(Dst1, LocalT), WholeRest(IntT, UInt8) \o Order(NoneT) \o SetMask), L(Dst1),
  RMask(<<>>, WholeRest(RIntT, Width) \o Order({}))))
WholeReduceSum == Each({"whole_reduce_sum"}, Dispatched(
  Mask(P(Dst1, LocalT), WholeRest(IntT, UInt8) \o SetMask), L(Dst1),
  RMask(<<>>, WholeRest(RIntT, Width) \o SetMask)))
ReducePre  == Dst1 \o <<"shared_tmp_buffer">>
ReduceRest(i, r) == InR(<<"repeat_time", "src_rep_stride">>, i, Required, r)
CalIndex == D(<<"cal_index">>, BoolT, "False")
ReduceFn(opt) == Dispatched(
  Mask(P(ReducePre, LocalT), ReduceRest(IntT, Width) \o opt) \o <<P(ReducePre, LocalT) \o Count \o opt>>, L(ReducePre),
  RMask(<<>>, ReduceRest(RIntT, UInt8) \o opt) \o <<RCount \o opt>>)
ReduceMax == Each({"reduce_max", "reduce_min"}, ReduceFn(CalIndex))
ReduceSum == Each({"reduce_sum"}, ReduceFn(<<>>))

(* Comparison and selection (vec_cmpsel.py): is_set_mask is declared and   *)
(* the registered signatures do not have it.                               *)
CmpDst  == P(Dst2, LocalT) \o P(<<"cmp_mode">>, {"CMPMODE"})
CmpReg  == SubSeq(CmpDst, 2, 4)
CmpRest == P(<<"repeat_params">>, Binary)
Compare == Each({"compare"}, Dispatched(
  <<CmpDst \o Count>> \o Mask(CmpDst, Repeat(Binary) \o SetMask) \o Mask(CmpReg, CmpRest \o SetMask),
  <<>>, RMask(CmpDst, RRepeat(Binary)) \o <<CmpDst \o RCount>> \o RMask(CmpReg, CmpRest)))
CmpScalar == P(<<"dst", "src0">>, LocalT) \o P(<<"src1_scalar">>, NumT) \o P(<<"cmp_mode">>, {"CMPMODE"})
CompareScalar == Each({"compare_scalar"}, Dispatched(
  <<CmpScalar \o Count>> \o Mask(CmpScalar, Repeat(Unary) \o SetMask),
  L(<<"dst", "src0", "src1_scalar", "cmp_mode">>), RMask(<<>>, RRepeat(Unary)) \o <<RCount>>))
CmpMask == [get_cmp_mask |-> Fn(<<P(<<"dst">>, LocalT)>>, L(<<"dst">>)),
            set_cmp_mask |-> Fn(<<P(<<"src">>, LocalT)>>, L(<<"src">>))]

\* dst is a parameter; the next two are taken from args, so they have no names.
\* The order of what is registered is not kept: no call fits two of them.
SelPre(src1)  == P(<<"dst", "sel_mask", "src0">>, LocalT) \o P(<<"src1">>, src1) \o P(<<"sel_mode">>, {"SelMode"})
SelDecl(src1) == <<SelPre(src1) \o Count>> \o Mask(SelPre(src1), Repeat(Binary) \o SetMask)
SelSrc(src1)  == P(<<"src1">>, src1) \o P(<<"sel_mode">>, {"SelMode"})
SelReg(src1)  == <<SelSrc(src1) \o RCount>> \o RMask(SelSrc(src1), RRepeat(Binary))
Select == Each({"select"}, Dispatched(
  SelDecl(FloatT) \o SelDecl(LocalT)
    \o <<P(<<"dst", "sel_mask", "src0">>, LocalT) \o Repeat(Binary),
         P(Dst2, LocalT) \o Repeat(Binary) \o P(<<"sel_mode">>, {"SelMode"})>>,
  L(<<"dst", "args[0]", "args[1]">>),
  <<Star \o RRepeat(Binary) \o P(<<"sel_mode">>, {"SelMode"})>>
    \o SelReg(RFloatT) \o SelReg(LocalT) \o <<RRepeat(Binary)>>))

(* vec_duplicate.py, vec_gather.py, vec_scatter.py, vec_gather_mask.py     *)
DupStrides == <<"repeat_times", "dst_block_stride", "dst_repeat_stride">>
Duplicate == Each({"duplicate"}, LET pre == P(<<"dst">>, LocalT) \o P(<<"scalar">>, NumT) IN Dispatched(
  <<pre \o Count>> \o Mask(pre, P(DupStrides, IntT) \o SetMask), L(<<"dst", "scalar">>),
  RMask(<<>>, InR(DupStrides, RIntT, Required, Int8) \o SetMask)
    \o <<RCount \o Dropped(<<"is_set_mask">>, BoolT, "True")>>))

Gatherb == [gatherb |-> LET ns == <<"dst", "src0", "offset", "repeat_times", "repeat_params">> IN Fn(
  <<P(SubSeq(ns, 1, 3), LocalT) \o P(<<ns[4]>>, IntT) \o P(<<ns[5]>>, {"GatherRepeatParams"})>>,
  L(SubSeq(ns, 1, 3)) \o InR(<<ns[4]>>, {}, Required, UInt8) \o L(<<ns[5]>>))]
OffsetFn(tensors, base, stride) == Dispatched(
  LET pre == P(tensors, LocalT) \o P(<<base>>, IntT) IN
  Mask(pre, P(<<"repeat_times", stride>>, IntT)) \o <<pre \o Count>>, L(Append(tensors, base)),
  RMask(<<>>, InR(<<"repeat_times">>, RIntT, Required, UInt8) \o P(<<stride>>, RIntT)) \o <<RCount>>)
Gather  == [gather |-> OffsetFn(<<"dst", "src", "src_offset">>, "src_base", "dst_rep_stride")]
Scatter == [scatter |-> OffsetFn(<<"dst", "src", "dst_offset">>, "dst_base", "src_rep_stride")]

MaskRest(b, i) == P(<<"reduce_mode">>, b) \o P(<<"mask">>, i) \o P(<<"params">>, {"GatherMaskParams"})
                  \o D(<<"gather_mask_mode">>, {"GatherMaskMode"}, "GatherMaskMode.DEFAULT")
Pattern == InR(<<"src1_pattern">>, IntT, Required, <<1, 7>>)
GatherMask == [gather_mask |-> Dispatched(
  LET pre == P(<<"dst", "src0">>, LocalT) IN
  <<pre \o P(<<"src1_pattern">>, LocalT) \o MaskRest(BoolT, IntT), pre \o Pattern \o MaskRest(BoolT, IntT)>>,
  L(<<"dst", "src0">>),
  <<P(<<"src1_pattern">>, LocalT) \o MaskRest(RBoolT, RIntT),
    InR(<<"src1_pattern">>, RIntT, Required, UInt8) \o MaskRest(RBoolT, RIntT)>>)]
Brcb == [brcb |-> Fn(
  <<P(<<"dst", "src0">>, LocalT) \o P(<<"repeat_times">>, IntT) \o P(<<"repeat_params">>, {"BrcbRepeatParams"})>>,
  L(<<"dst", "src0">>) \o InR(<<"repeat_times">>, {}, Required, UInt8) \o L(<<"repeat_params">>))]

(* vec_transpose.py: without further arguments no overload is looked for.  *)
Ext == P(<<"shared_tmp_buffer">>, LocalT) \o P(<<"params">>, {"TransposeParamsExt"})
Transpose == [transpose |-> Dispatched(<<P(Dst1, LocalT), P(Dst1, LocalT) \o Ext>>, L(Dst1), <<<<>>, Ext>>)]
To5hdParams == P(<<"params">>, {"TransDataTo5HDParams"})
TransDataTo5hd == [trans_data_to_5hd |-> Dispatched(
  <<P(<<"dst_list", "src_list">>, ListT) \o To5hdParams, P(Dst1, LocalT) \o To5hdParams>>,
  L(<<"dst_or_list", "src_or_list", "params">>), <<<<>>>>)]

VectorApi ==
  AddSub @@ BitDiv @@ Fused @@ MaxMul @@ Sub @@ ReluCast @@ AbsNot @@ RecipSqrt @@ Scalar @@
  Shift @@ Axpy @@ MulCast @@ Bilinear @@ Cast @@ CastDeq @@ SetDeqScale @@ BlockReduce @@
  PairReduce @@ RepeatReduce @@ WholeReduceMax @@ WholeReduceSum @@ ReduceMax @@ ReduceSum @@
  Compare @@ CompareScalar @@ CmpMask @@ Select @@ Duplicate @@ Gatherb @@ Gather @@ Scatter @@
  GatherMask @@ Brcb @@ Transpose @@ TransDataTo5hd
=============================================================================
