--------------------------- MODULE MCSyncPipeline ---------------------------
(* Instances of SyncPipeline for TLC. *)
EXTENDS SyncPipeline
CONSTANTS t1, t2, t3

Inserted(auto, own, n) == [auto |-> auto, own |-> own, ops |-> n, insert |-> TRUE]
Manual(n) == [auto |-> {}, own |-> {t1, t2}, ops |-> n, insert |-> FALSE]

\* Two tensors that hand values to one another, one that is used often, one of
\* a queue the author handles; and the author alone with two queues.
Mixed == {Inserted({t1, t2}, {}, 3), Inserted({t2}, {}, 4), Inserted({t2}, {t3}, 3), Inserted({}, {t3}, 4), Manual(4)}
=============================================================================
