----------------------------- MODULE ApiObjects -----------------------------
(***************************************************************************)
(* Tensors (core/tensor.py), queues, buffers and the pipe (fwk/tpipe.py),  *)
(* arrays, the local allocator and ranges: constructors and methods.       *)
(***************************************************************************)
EXTENDS Signatures

OrNone(t) == t \cup {"None"}
Handle == One("handle", "IRHandle")
HandleO == D(<<"handle">>, {}, "None")
Dtype == One("dtype", "DataType")
Offset(i) == P(<<"offset">>, i)
\* A constructor of a handle, which from_ir gives by name, or of the parameters of sig.
Ctor(sig) == Fn(<<sig, Handle>>, sig \o HandleO)

(* core/tensor.py: GlobalTensor *)
GlobalTensor ==
  NoArguments({"GlobalTensor.get_shape_info", "GlobalTensor.get_size"}) @@
  ("GlobalTensor" :> Fn(<<<<>>, Handle>>, HandleO)) @@
  ("GlobalTensor.get_phy_addr" :> Fn(<<<<>>, Offset(IntT)>>, D(<<"offset">>, {}, "0"))) @@
  ("GlobalTensor.get_value" :> Same(Offset(IntT)))
Info == One("shape_info", "ShapeInfo")
Address == D(<<"buffer">>, {"GlobalAddress", "None"}, "None")
Size    == D(<<"buffer_size">>, OrNone(IntT), "None")
GlobalBuffers ==
  ("GlobalTensor.set_global_buffer" :> Fn(<<Address, Address \o Size>>, Address \o Size)) @@
  ("GlobalTensor.set_l2_cache_hint" :> Same(D(<<"mode">>, {"CacheMode"}, "CacheMode.CACHE_MODE_NORMAL")
                                            \o D(<<"rw_mode">>, {"CacheRwMode"}, "CacheRwMode.RW"))) @@
  ("GlobalTensor.set_shape_info" :> Same(Info)) @@
  ("GlobalTensor.set_value" :> Same(Offset(IntT) \o P(<<"value">>, NumT)))

(* LocalTensor: what is declared optional is registered without a default. *)
Pos(d) == InR(<<"pos">>, {"TPosition", "None"}, d, Width)
LocalTensorCtor == [LocalTensor |-> Dispatched(
  <<<<>>, Dtype, Dtype \o P(<<"addr">>, IntT),
    Dtype \o Pos("TPosition.VECIN") \o D(<<"addr", "tile_size">>, IntT, "0"),
    Handle \o Dtype \o P(<<"shape">>, {"TensorShape"})>>,
  <<>>,
  <<P(<<"handle">>, {"IRHandle", "None"}) \o Dtype \o P(<<"shape">>, {"TensorShape", "None"}),
    Dtype \o Pos(Required) \o P(<<"addr", "tile_size">>, RIntT), Dtype>>)]
LocalGetters ==
  NoArguments({"LocalTensor.get_length", "LocalTensor.get_position", "LocalTensor.get_shape_info",
               "LocalTensor.get_size", "LocalTensor.get_user_tag"}) @@
  ("LocalTensor.get_phy_addr" :> Fn(<<<<>>, Offset(IntT)>>, D(<<"offset">>, {}, "0"))) @@
  ("LocalTensor.get_value" :> Same(P(<<"index">>, IntT)))
LocalSetters ==
  Each({"LocalTensor.print", "LocalTensor.set_buffer_len"}, Same(P(<<"data_len">>, IntT))) @@
  ("LocalTensor.reinterpret_cast" :> Same(Dtype)) @@ ("LocalTensor.set_shape_info" :> Same(Info)) @@
  ("LocalTensor.set_addr_with_offset" :> Same(P(<<"src">>, LocalT) \o Offset(IntT))) @@
  ("LocalTensor.set_size" :> Same(D(<<"size">>, IntT, "0"))) @@
  ("LocalTensor.set_user_tag" :> Same(D(<<"tag">>, IntT, "0"))) @@
  ("LocalTensor.set_value" :> Same(P(<<"index">>, IntT) \o P(<<"value">>, NumT))) @@
  ("LocalTensor.to_file" :> Same(One("file_name", "str")))
AutoAndLists ==
  [LocalTensorAuto |-> LET sig == Dtype \o P(<<"shape">>, {"TensorShape"}) IN
                       Dispatched(<<Handle \o sig, sig>>, <<>>, <<Handle \o sig, sig>>),
   MrgSortSrcList |-> LET sig == Dtype \o P(<<"src1", "src2">>, LocalT) \o D(<<"src3", "src4">>, LocalT, "None") IN
                      Fn(<<sig, Handle>>, sig \o HandleO)]
\* MrgSortSrcList.from_ir calls the constructor by position.
NoneArgs == P(<<"dtype", "src1", "src2", "src3">>, {"None"})
FromIr == ("MrgSortSrcList.from_ir" :> Fn(<<NoneArgs \o One("ir_handle", "IRHandle")>>,
             L(<<"dtype", "src1", "src2">>) \o D(<<"src3", "src4">>, {}, "None") \o D(<<"ir_handle">>, {}, "None")))

(* fwk/tpipe.py: queues.  mask is read by nothing.                         *)
Positions == D(<<"src", "dst">>, {"TPosition", "None"}, "TPosition.VECIN")
TQueBind == NoArguments({"TQueBind.free_all_event", "TQueBind.get_tensor_count_in_que", "TQueBind.has_idle_buffer",
                         "TQueBind.has_tensor_in_que", "TQueBind.vacant_in_que"}) @@
  [TQueBind |-> Fn(<<Positions \o D(<<"depth", "mask">>, IntT, "0"), Handle>>,
                   Positions \o D(<<"depth">>, {}, "0") \o Dropped(<<"mask">>, {}, "0") \o HandleO)]
UserPos == P(<<"src_user_pos", "dst_user_pos">>, {"TPosition"})
TensorP == P(<<"tensor">>, LocalT)
QueueMoves ==
  ("TQueBind.alloc_tensor" :> Dispatched(<<Dtype, TensorP>>, <<>>, <<Dtype, TensorP>>)) @@
  ("TQueBind.deque" :> Dispatched(<<Dtype, TensorP, Dtype \o UserPos>>, <<>>, <<Dtype, TensorP, Dtype \o UserPos>>)) @@
  ("TQueBind.enque" :> Dispatched(<<TensorP, TensorP \o UserPos>>, <<>>, <<TensorP, TensorP \o UserPos>>)) @@
  ("TQueBind.free_tensor" :> Same(TensorP))
BufHandles ==
  ("TQueBind.init_buf_handle" :> Same(One("buf_pool", "TBufPool") \o P(<<"index">>, RIntT) \o One("buf_handle", "TBufHandle")
                                      \o One("cur_pool_addr", "TBufHandle") \o P(<<"len">>, RIntT))) @@
  ("TQueBind.init_start_buf_handle" :> Same(One("start_buf_handle", "TBufHandle") \o P(<<"num", "len">>, RIntT)))
TQue == [TQue |-> LET pos == Pos("TPosition.VECIN") IN
  Fn(<<D(<<"pos">>, {"TPosition"}, "TPosition.VECIN") \o D(<<"depth">>, IntT, "1"), Handle>>,
     pos \o D(<<"depth">>, {}, "None") \o Dropped(<<"mask">>, {}, "0") \o HandleO)]

(* Buffers and pools *)
Shape == D(<<"shape">>, {"TensorShape", "None"}, "None")
TBuf ==
  [TBuf |-> Fn(<<One("pos", "TPosition"), Handle>>, Pos("None") \o HandleO)] @@
  ("TBuf.get" :> Fn(<<Dtype \o Shape, Dtype \o D(<<"len">>, IntT, "None") \o Shape>>,
                    Dtype \o D(<<"len">>, {}, "None") \o Shape)) @@
  ("TBuf.get_with_offset" :> Same(P(<<"size", "buf_offset">>, IntT) \o Dtype))
Queue(i, d)  == One("que", "TQue") \o InR(<<"num", "len">>, i, d, Width)
Buf(n, i, d) == One("buf", "TBuf") \o InR(<<n>>, i, d, Width)
InitPool == Same(One("buf_pool", "TBufPool") \o D(<<"len">>, IntT, "0") \o D(<<"share_buf">>, {"TBufPool"}, "None"))
\* Both init_buffer declare defaults that are not registered.
InitBuffer(n) == Dispatched(<<Queue(IntT, "0"), Buf("num", IntT, "0")>>, <<>>,
                            <<Queue(RIntT, Required), Buf(n, RIntT, Required)>>)
TBufPool == NoArguments({"TBufPool.reset"}) @@
  [TBufPool |-> Fn(<<Pos(Required) \o P(<<"buf_id_size">>, IntT), Handle>>,
                   Pos("None") \o D(<<"buf_id_size">>, {}, "4") \o HandleO)] @@
  ("TBufPool.init_buf_pool" :> InitPool) @@ ("TBufPool.init_buffer" :> InitBuffer("len"))

(* The pipe *)
Event == D(<<"event">>, {"HardEvent"}, "HardEvent.V_S")
TPipe == NoArguments({"TPipe.destroy", "TPipe.init", "TPipe.reset"}) @@
  [TPipe |-> Fn(<<<<>>, Handle>>, HandleO)] @@
  Each({"TPipe.alloc_event_id", "TPipe.fetch_event_id"}, Same(Event)) @@
  ("TPipe.get_base_addr" :> Same(D(<<"logic_pos">>, {"TPosition", "None"}, "None")))
PipeBuffers ==
  ("TPipe.init_buf_pool" :> InitPool) @@ ("TPipe.init_buffer" :> InitBuffer("num")) @@
  ("TPipe.release_event_id" :> Same(P(<<"id">>, IntT) \o Event))

(* core/array.py, core/memory_allocator.py, core/range.py, core/ops.py     *)
Fill == D(<<"fill_value">>, OrNone(NumT), "None")
Array == [array |-> Fn(<<Dtype \o P(<<"length">>, IntT) \o Fill, Dtype \o P(<<"values">>, ListT)>>,
                       Dtype \o L(<<"length_or_values">>) \o Fill)]
Hard == D(<<"hard">>, {"Hardware"}, "Hardware.UB")
Allocator == NoArguments({"LocalMemAllocator.get_cur_addr"}) @@
  [LocalMemAllocator |-> Dispatched(<<Hard>>, <<>>, <<Hard>>)] @@
  ("LocalMemAllocator.alloc" :> LET pre == One("pos", "TPosition") \o One("data_type", "DataType") IN
     Fn(<<pre \o P(<<"tile_size">>, {"ConstExpr"}), pre \o P(<<"tile_size">>, IntT)>>, L(<<"pos", "data_type", "tile_size">>)))
Ops == [number |-> Same(P(<<"value">>, NumT) \o Dtype),
        inline |-> Same(One("code", "str") \o D(<<"args">>, {"tuple", "None"}, "None")
                        \o D(<<"before_function">>, BoolT, "False"))]

ObjectsApi == GlobalTensor @@ GlobalBuffers @@ LocalTensorCtor @@ LocalGetters @@ LocalSetters @@ AutoAndLists @@ FromIr
              @@ TQueBind @@ QueueMoves @@ BufHandles @@ TQue @@ TBuf @@ TBufPool @@ TPipe @@ PipeBuffers
              @@ Array @@ Allocator @@ Ops
=============================================================================
