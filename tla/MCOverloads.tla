----------------------------- MODULE MCOverloads -----------------------------
(* Overloads over the whole kernel-side API, and the forms that deviate.   *)
EXTENDS Overloads

Vector  == INSTANCE ApiVector
Basic   == INSTANCE ApiBasic
Adv     == INSTANCE ApiAdv
Objects == INSTANCE ApiObjects
Structs == INSTANCE ParamStructs

AllApi == Vector!VectorApi @@ Basic!BasicApi @@ Adv!AdvApi @@ Objects!ObjectsApi @@ Structs!StructsApi

\* Forms that are refused in some style of call, or altogether.
RefusedForms ==
  ({"compare"} \X (2 .. 5)) \cup ({"compare_scalar"} \X {2, 3}) \cup ({"select"} \X (1 .. 8))
  \cup ({"whole_reduce_max", "whole_reduce_min"} \X {1, 2}) \cup ({"cast_deq"} \X (1 .. 3)) \cup ({"data_copy"} \X (7 .. 9))
  \cup ({"set_vector_mask", "trans_data_to_5hd", "array"} \X {1, 2}) \cup ({"LocalTensor"} \X {1, 3, 4})
  \cup ({"set_atomic_add", "set_atomic_max", "set_atomic_min", "set_atomic_type"} \X {1})
  \cup ({"TPipe.init_buffer", "TBufPool.init_buffer"} \X {1, 2})
  \cup ({"data_cache_clean_and_invalid", "get_matmul_api_tiling", "UnaryRepeatParams", "LoadImageToLocalParams"} \X {1})
  \cup ({"DataCopyCO12DstParams", "DataCopyPadExtParams", "FixpipeConfig", "FixpipeParamsV220", "ListTensorDesc",
         "MrgSort4Info", "MrgSortSrcList", "Nd2NzParams", "Nz2NdParamsFull", "Matmul.iterate_batch"} \X {2})
\* Forms whose values arrive elsewhere, and whose defaults are others.
MisboundForms == {<<"sync_all", 1>>, <<"TensorDesc", 1>>, <<"TBuf.get", 1>>, <<"MrgSortSrcList.from_ir", 1>>, <<"MmadParams", 3>>,
                  <<"Matmul.iterate_batch", 2>>, <<"get_matmul_api_tiling", 1>>}
DefaultsForms == {<<"TQue", 1>>, <<"MmadParams", 2>>, <<"MmadParams", 3>>, <<"Matmul.iterate_batch", 1>>,
                  <<"Matmul.iterate_batch", 2>>, <<"get_matmul_api_tiling", 1>>, <<"MrgSortSrcList.from_ir", 1>>}
\* Forms that leave out what they are given, and the one that is too narrow.
IgnoringForms ==
  ({"add", "add_deq_relu", "add_relu", "bitwise_and", "bitwise_or", "div", "fused_mul_add", "fused_mul_add_relu", "max",
    "min", "mul", "mul_add_dst", "sub", "sub_relu", "MmadParams"} \X {3})
  \cup ({"MmadParams", "ListTensorDesc", "Matmul.iterate_batch"} \X {2})
  \cup ({"Matmul", "TQueBind", "TensorDesc", "get_mm_config"} \X {1})
NarrowForms == {"cast"} \X {1, 2}

==============================================================================
