------------------------------- MODULE ApiAdv -------------------------------
(***************************************************************************)
(* The high-level interfaces of language/adv: mathematics, activation,     *)
(* sorting, and the Matmul object with its configuration.                  *)
(***************************************************************************)
EXTENDS Signatures

OrNone(t) == t \cup {"None"}
Buffer == D(<<"temp_buffer">>, OrNone(LocalT), "None")
Reuse  == D(<<"is_reuse_source">>, BoolT, "False")
CountO == D(<<"count">>, OrNone(IntT), "None")

(* math.py *)
MathFn == Same(P(<<"dst", "src">>, LocalT) \o CountO \o Buffer \o Reuse)
Math1 == Each({"adv.acos", "adv.acosh", "adv.asin", "adv.asinh", "adv.atan", "adv.atanh",
               "adv.ceil", "adv.cos", "adv.cosh", "adv.digamma"}, MathFn)
Math2 == Each({"adv.erf", "adv.erfc", "adv.floor", "adv.frac", "adv.lgamma", "adv.log", "adv.round"}, MathFn)
Math3 == Each({"adv.sign", "adv.sin", "adv.sinh", "adv.tan", "adv.tanh", "adv.trunc"}, MathFn)
Power == Each({"adv.power", "adv.xor"}, Same(P(<<"dst", "src0", "src1">>, LocalT) \o CountO \o Buffer \o Reuse))
Exp   == ("adv.exp" :> Same(P(<<"dst", "src">>, LocalT) \o P(<<"count", "taylor_expand_level">>, IntT) \o Buffer \o Reuse))
Axpy  == ("adv.axpy" :> Same(P(<<"dst", "src">>, LocalT) \o P(<<"scalar">>, NumT) \o CountO \o Buffer \o Reuse))

(* activation.py, normalization.py, quantization.py, sort.py *)
Softmax == [softmax |-> Same(P(<<"dst", "sum", "max", "src">>, LocalT) \o One("tiling", "SoftmaxTiling") \o Buffer
                             \o D(<<"reuse_source", "basic_block", "data_format_nz">>, BoolT, "False"))]
Rmsnorm == [rmsnorm |-> Same(P(<<"dst", "src", "gamma">>, LocalT) \o P(<<"epsilon">>, NumT) \o One("tiling", "RmsNormTiling")
                             \o Buffer \o D(<<"basic_block">>, BoolT, "False"))]
Quant == [quant |-> Same(P(<<"dst", "src">>, LocalT) \o P(<<"scale", "offset">>, FloatT) \o CountO \o Buffer
                         \o D(<<"reuse_source">>, BoolT, "False") \o D(<<"config">>, {"QuantConfig", "None"}, "None"))]
Sort == [concat  |-> Same(P(<<"dst", "src", "tmp">>, LocalT) \o P(<<"repeat_time">>, IntT)),
         extract |-> Same(P(<<"dst_value", "dst_index", "src">>, LocalT) \o P(<<"repeat_time">>, IntT))]

(* matmul.py: the constructor.  matmul_policy is read by nothing.          *)
Handle == One("handle", "IRHandle")
Mats == <<"a", "b", "c">>
Construct ==
  [Matmul |-> LET opt == D(<<"bias">>, {"MatmulType", "None"}, "None")
                         \o D(<<"matmul_config">>, {"MatmulConfig", "None"}, "None") IN
     Fn(<<P(Mats, {"MatmulType"}) \o opt \o D(<<"matmul_policy">>, {"MatmulPolicy"}, "0"), Handle>>,
        D(Mats, {}, "None") \o opt \o Dropped(<<"matmul_policy">>, {}, "0") \o D(<<"handle">>, {}, "None")),
   MatrixOffset |-> LET ns == <<"offset", "row", "col", "height", "width">> IN
     Fn(<<P(ns, IntT), Handle>>, D(Append(ns, "handle"), {}, "None"))]
RegisterMatmul == [register_matmul |-> Same(One("pipe", "TPipe") \o One("workspace", "GlobalAddress")
                     \o One("matmul", "Matmul") \o D(<<"tiling">>, {"TCubeTiling", "None"}, "None"))]

(* Results of a multiplication.  A registered default is in its overload.  *)
Atomic(i)     == D(<<"en_atomic">>, i, "0")
Sequential(b) == D(<<"en_sequential_write">>, b, "False")
Sync(b)       == D(<<"sync">>, b, "True")
Tensor        == P(<<"tensor">>, TensorT)
GetTensor(i, b) == <<Tensor \o Atomic(i) \o Sequential(b) \o Sync(b) \o D(<<"optional_tensor">>, OrNone(TensorT), "None"),
                     Atomic(i) \o Sequential(b) \o Sync(b)>>
GetTensorC == ("Matmul.get_tensor_c" :> Dispatched(GetTensor(IntT, BoolT), <<>>, GetTensor(RIntT, RBoolT)))
Unset(ns) == D(ns, {"bool", "None"}, "None")
Iterate ==
  ("Matmul.iterate" :> Same(D(<<"en_partial_sum">>, BoolT, "False") \o Sync(BoolT)
                            \o D(<<"local_c_matrix">>, OrNone(TensorT), "None"))) @@
  ("Matmul.iterate_all" :> Same(Tensor \o Atomic(IntT) \o Sync(BoolT)
                                \o Unset(<<"en_sequential_write", "wait_iterate_all", "fake_msg">>)))

BatchStrides == <<"matrix_stride_a", "matrix_stride_b", "matrix_stride_c">>
Batch(i)     == P(<<"batch_a", "batch_b">>, i)
SeqWrite(b)  == P(<<"en_sequential_write">>, b)
\* The registered defaults of en_partial_sum and en_atomic are not the declared
\* ones; the second form has no sync; and what it builds leaves the tensor out.
IterateBatch == ("Matmul.iterate_batch" :> Dispatched(
  <<Tensor \o Batch(IntT) \o SeqWrite(BoolT) \o D(BatchStrides, IntT, "0")
      \o D(<<"en_partial_sum">>, BoolT, "False") \o Atomic(IntT) \o Sync(BoolT) \o Unset(<<"wait_iterate_batch">>),
    Tensor \o P(<<"en_partial_sum">>, BoolT) \o P(<<"en_atomic">>, IntT) \o SeqWrite(BoolT)
      \o D(BatchStrides, IntT, "0") \o Sync(BoolT)>>,
  <<>>,
  <<Tensor \o Batch(RIntT) \o SeqWrite(RBoolT) \o D(BatchStrides, RIntT, "0")
      \o D(<<"en_partial_sum">>, OrNone(RBoolT), "None") \o D(<<"en_atomic">>, OrNone(RIntT), "None")
      \o Sync(RBoolT) \o D(<<"wait_iterate_batch">>, OrNone(RBoolT), "None"),
    Dropped(<<"tensor">>, TensorT, Required) \o P(<<"en_partial_sum">>, RBoolT) \o P(<<"en_atomic">>, RIntT)
      \o SeqWrite(RBoolT) \o D(BatchStrides, RIntT, "0")>>))
BatchC(i, b) == LET rest == Batch(i) \o Sequential(b) \o Sync(b) IN <<rest, P(<<"tensor">>, LocalT) \o rest>>
GetBatchC == ("Matmul.get_batch_tensor_c" :> Dispatched(BatchC(IntT, BoolT), <<>>, BatchC(RIntT, RBoolT)))

SetTensor(i, b) == <<P(<<"scalar">>, i), Tensor \o D(<<"transpose">>, b, "False")>>
SetTensors == Each({"Matmul.set_tensor_a", "Matmul.set_tensor_b"},
                   Dispatched(SetTensor(IntT, BoolT), <<>>, SetTensor(RIntT, RBoolT)))

(* The remaining methods have the declared parameters, or declare nothing. *)
Inputs == NoArguments({"Matmul.end", "Matmul.wait_iterate_all", "Matmul.wait_iterate_batch", "Matmul.disable_bias"}) @@
  ("Matmul.init" :> Same(One("tiling", "TCubeTiling"))) @@ ("Matmul.set_bias" :> Same(Tensor)) @@
  ("Matmul.set_self_define_data" :> Same(P(<<"data_ptr">>, RIntT \cup {"GlobalAddress"}))) @@
  ("Matmul.set_sparse_index" :> Same(P(<<"index_global">>, GlobalT))) @@
  ("Matmul.set_user_def_info" :> Same(One("tiling_ptr", "GlobalAddress"))) @@
  ("Matmul.iterate_n_batch" :> Same(P(<<"batch_loop">>, RIntT) \o Batch(RIntT) \o SeqWrite(RBoolT)
     \o D(BatchStrides, RIntT, "0") \o Sync(RBoolT) \o D(<<"wait_iterate_batch">>, RBoolT, "False")))
Shapes == NoArguments({"Matmul.wait_get_tensor_c", "Matmul.get_offset_c"}) @@
  ("Matmul.set_hf32" :> Same(D(<<"enable_hf32">>, RBoolT, "False") \o D(<<"trans_mode">>, RIntT, "0"))) @@
  ("Matmul.set_tail" :> Same(D(<<"tail_m", "tail_n", "tail_k">>, RIntT, "-1"))) @@
  ("Matmul.set_batch_num" :> Same(Batch(RIntT))) @@
  ("Matmul.set_workspace" :> Same(P(<<"addr">>, GlobalT \cup {"GlobalAddress"}) \o D(<<"size">>, OrNone(RIntT), "None"))) @@
  ("Matmul.async_get_tensor_c" :> Same(P(<<"c">>, LocalT))) @@
  ("Matmul.set_quant_scalar" :> Same(P(<<"quant_scalar">>, IntT))) @@
  ("Matmul.set_quant_vector" :> Same(P(<<"quant_vector">>, GlobalT))) @@
  ("Matmul.set_org_shape" :> Same(P(<<"org_m", "org_n", "org_ka">>, IntT) \o D(<<"org_kb", "org_kc">>, OrNone(IntT), "None"))) @@
  ("Matmul.set_single_shape" :> Same(P(<<"single_m", "single_n", "single_k">>, IntT)))

(* Configurations *)
Flag(ns, d) == D(ns, OrNone(BoolT), d)
BatchMode   == D(<<"bmm_mode">>, {"BatchMode", "None"}, "BatchMode.BATCH_LESS_THAN_L1")
Basic       == P(<<"basic_m", "basic_n", "basic_k">>, IntT)
Limits      == Flag(<<"intrinsics_limit", "batch_loop">>, "False")
Configs ==
  [get_basic_config |-> Same(Basic \o Limits \o BatchMode),
   get_ib_share_norm_config |-> Same(Limits \o Flag(<<"is_vec_nd2_nz">>, "False") \o BatchMode
                                     \o Flag(<<"is_double_cache">>, "False") \o Flag(<<"en_unit_flag">>, "True"))]
\* l1_size is declared second and implemented last, bias_type optional and required.
ApiTiling == [get_matmul_api_tiling |-> LET ts == <<"a_type", "b_type", "c_type">> IN
  Fn(<<One("mm_cfg", "MatmulConfig") \o P(<<"l1_size">>, IntT) \o P(ts, {"MatmulType"})
         \o D(<<"bias_type">>, {"MatmulType", "None"}, "None")>>,
     L(<<"mm_cfg">> \o ts \o <<"bias_type">>) \o D(<<"l1_size">>, {}, "None"))]
MdlFlags == <<"is_vec_nd2_nz", "is_per_tensor", "has_anti_quant_offset">>
\* Slip: a default that is not the declared one.
MdlConfigNoReuse == [get_mdl_config |-> LET sig == Limits \o D(<<"do_mte2_preload">>, OrNone(IntT), "0")
  \o Flag(MdlFlags \o <<"en_unit_flag">>, "False") \o Flag(<<"is_msg_reuse", "enable_ub_reuse">>, "True")
  IN Fn(<<sig>>, [i \in DOMAIN sig |-> [sig[i] EXCEPT !.d = "False"]])]
MdlConfig == [get_mdl_config |-> Same(Limits \o D(<<"do_mte2_preload">>, OrNone(IntT), "0")
  \o Flag(MdlFlags \o <<"en_unit_flag">>, "False") \o Flag(<<"is_msg_reuse", "enable_ub_reuse">>, "True")
  \o Flag(<<"enable_l1_cache_ub", "enable_mix_dual_master", "enable_kdim_reorder_load">>, "False"))]
\* It looks for its arguments among the tuple and the dict that hold them.
MmConfig == [get_mm_config |-> LET ns == <<"shape_params", "quant_params", "batch_params", "func_params", "config_mode">> IN
  Fn(<<[i \in 1 .. 5 |-> D(<<ns[i]>>, {ns[i]}, "none")[1]]>>, Dropped(ns, {}, "none"))]
NormalConfig ==
  [get_normal_config |-> Same(Limits \o Flag(<<"is_vec_nd2_nz">>, "False") \o BatchMode \o Flag(<<"is_msg_reuse">>, "True")
     \o D(<<"iterate_order">>, {"IterateOrder", "None"}, "IterateOrder.ORDER_M")
     \o D(<<"schedule_type">>, {"ScheduleType", "None"}, "ScheduleType.INNER_PRODUCT") \o Flag(<<"en_unit_flag">>, "True")),
   get_special_basic_config |-> Same(Basic \o P(<<"single_core_m", "single_core_n", "single_core_k", "step_m", "step_n">>, IntT)
     \o Limits \o BatchMode),
   get_special_mdl_config |-> Same(Limits \o D(<<"do_mte2_pre_load">>, OrNone(IntT), "0") \o Flag(MdlFlags, "False"))]

(* types.py *)
ParamClasses ==
  [QuantConfig |-> LET s == D(<<"calc_count", "offset_count", "scale_count", "work_local_size">>, IntT, "0") IN
                   Fn(<<s, Handle>>, s \o D(<<"handle">>, {}, "None")),
   MatmulShapeParams |-> Same(D(<<"single_core_m", "single_core_n", "single_core_k", "basic_m", "basic_n", "basic_k">>, IntT, "0")),
   MatmulQuantParams |-> Same(D(<<"is_per_tensor", "has_anti_quant_offset">>, BoolT, "False")),
   MatmulBatchParams |-> Same(D(<<"is_b_batch">>, BoolT, "False") \o D(<<"batch_mode">>, {"BatchMode"}, "1")
                              \o D(<<"is_bias_batch">>, BoolT, "False"))]

Functions == Math1 @@ Math2 @@ Math3 @@ Power @@ Exp @@ Axpy @@ Softmax @@ Rmsnorm @@ Quant @@ Sort
AdvApi == Functions @@ Construct @@ RegisterMatmul @@ GetTensorC @@ Iterate @@ IterateBatch @@ GetBatchC @@ SetTensors
          @@ Inputs @@ Shapes @@ Configs @@ ApiTiling @@ MdlConfig @@ MmConfig @@ NormalConfig @@ ParamClasses
=============================================================================
