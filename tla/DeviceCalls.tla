----------------------------- MODULE DeviceCalls -----------------------------
(***************************************************************************)
(* How the functions of one kernel come into one IR module:                *)
(* FunctionVisitor of python/asc/codegen/function_visitor.py, its calls of *)
(* other JIT functions, the regions it opens, its return statements, and   *)
(* the one insertion point all visitors share.                             *)
(*                                                                         *)
(* A visitor walks over one function.  A call of a function the module has *)
(* not yet starts a visitor for it, in the middle of the caller; its       *)
(* result types go to a dictionary that visitors share by reference.  What *)
(* the statements of a function are is left open: a step is any statement  *)
(* the visitor could meet next.                                            *)
(***************************************************************************)
EXTENDS Naturals, FiniteSets, SequencesExt

CONSTANTS
  Kernel,     \* the function that is compiled
  Functions,  \* the other JIT functions it may call
  Specs,      \* what a call gives: types of operands, values of constexprs
  Types,      \* types of returned values
  NoValue,    \* a function that returns nothing
  Masks,      \* mask lists that select may be given
  MaxBlocks,  \* bound on the blocks of the module
  MaxOps      \* bound on its operations

ASSUME SpecAssumption == Specs # {}

VARIABLES
  funcs,      \* the FuncOps of the module, in the order of creation
  blocks,     \* the blocks: the function each one is in, the block around it
  ops,        \* operations in the order they were created
  insertion,  \* the block the builder adds to
  visitors,   \* the visitors at work, the innermost last
  dicts,      \* the dictionaries called visited_return_types
  masks,      \* builder._select_mask_list_cache: the blocks of the constants
  status      \* how code generation ended, or "running"

vars == <<funcs, blocks, ops, insertion, visitors, dicts, masks, status>>

Me == Last(visitors)
HasFunction(g) == \E i \in DOMAIN funcs : funcs[i].name = g
Beginning == Len(funcs) + 1

\* VisitorState, and what the caller keeps while the visitor is at work.
Visitor(fn, spec, dict, saved, entry) ==
  [fn |-> fn, spec |-> spec, dict |-> dict, saved |-> saved, entry |-> entry,
   allowed |-> TRUE, discard |-> FALSE, rets |-> NoValue, open |-> <<>>]

\* The block the statement under work stands in.
Innermost(v) == IF v.open = <<>> THEN v.entry ELSE Last(v.open).block

Init ==
  /\ funcs = <<[name |-> Kernel, spec |-> CHOOSE s \in Specs : TRUE, rets |-> NoValue]>>
  /\ blocks = <<[fn |-> 1, around |-> 0]>>
  /\ ops = <<>>
  /\ insertion = 1
  /\ visitors = <<Visitor(Kernel, CHOOSE s \in Specs : TRUE, 1, 0, 1)>>
  /\ dicts = <<<<>>>>
  /\ masks = <<>>
  /\ status = "running"

Visiting == status = "running" /\ ~Me.discard
Change(v) == visitors' = Front(visitors) \o <<v>>
Create(op) == Len(ops) < MaxOps /\ ops' = Append(ops, op)
End(how) ==
  /\ status' = how
  /\ UNCHANGED <<funcs, blocks, ops, insertion, visitors, dicts, masks>>

-----------------------------------------------------------------------------
(* Regions: visit_region as the branches and loops use it.                 *)

\* Slip: a region does not forbid to return.
OpenRegionAllowing ==
  /\ Visiting
  /\ Len(blocks) < MaxBlocks
  /\ blocks' = Append(blocks, [fn |-> blocks[insertion].fn, around |-> insertion])
  /\ insertion' = Len(blocks) + 1
  /\ Change([Me EXCEPT !.open = Append(@, [block |-> Len(blocks) + 1, saved |-> insertion, allowed |-> Me.allowed])])
  /\ UNCHANGED <<funcs, ops, dicts, masks, status>>

OpenRegion ==
  /\ Visiting
  /\ Len(blocks) < MaxBlocks
  /\ blocks' = Append(blocks, [fn |-> blocks[insertion].fn, around |-> insertion])
  /\ insertion' = Len(blocks) + 1
  /\ Change([Me EXCEPT !.allowed = FALSE,
                       !.open = Append(@, [block |-> Len(blocks) + 1, saved |-> insertion, allowed |-> Me.allowed])])
  /\ UNCHANGED <<funcs, ops, dicts, masks, status>>

CloseRegion ==
  /\ status = "running" /\ Me.open # <<>>
  /\ insertion' = Last(Me.open).saved
  /\ Change([Me EXCEPT !.allowed = Last(Me.open).allowed, !.open = Front(@)])
  /\ UNCHANGED <<funcs, blocks, ops, dicts, masks, status>>

-----------------------------------------------------------------------------
(* Calls and returns.                                                      *)

CallOp(at, g, spec, rets) ==
  [op |-> "call", at |-> at, fn |-> g, spec |-> spec, rets |-> rets]

\* Slip: a function is looked for among the known return types.
KnownByDict(g) == g \in DOMAIN dicts[Me.dict]

Known(g) == HasFunction(g)

CallKnown(g, s) ==
  /\ Visiting
  /\ Known(g) /\ g \in DOMAIN dicts[Me.dict]
  /\ Create(CallOp(insertion, g, s, dicts[Me.dict][g]))
  /\ UNCHANGED <<funcs, blocks, insertion, visitors, dicts, masks, status>>

\* The dictionary lookup raises.  Two causes: the function is still being
\* generated, or its types were put into another dictionary.
CallUnrecorded(g) ==
  /\ Visiting
  /\ Known(g) /\ g \notin DOMAIN dicts[Me.dict]
  /\ End(IF \E i \in DOMAIN visitors : visitors[i].fn = g THEN "recursive" ELSE "no return types")

\* FunctionVisitor.__init__ takes the caller's dictionary unless it is empty,
\* for an empty dictionary counts as none.
DictOfCallee == IF dicts[Me.dict] = <<>> THEN Append(dicts, <<>>) ELSE dicts
DictIndex == IF dicts[Me.dict] = <<>> THEN Len(dicts) + 1 ELSE Me.dict

CallNew(g, s) ==
  /\ Visiting
  /\ ~Known(g)
  /\ Len(blocks) < MaxBlocks /\ Len(ops) < MaxOps
  /\ funcs' = Append(funcs, [name |-> g, spec |-> s, rets |-> NoValue])
  /\ blocks' = Append(blocks, [fn |-> Beginning, around |-> 0])
  /\ dicts' = DictOfCallee
  /\ visitors' = Append(visitors, Visitor(g, s, DictIndex, insertion, Len(blocks) + 1))
  /\ insertion' = Len(blocks) + 1
  /\ UNCHANGED <<ops, masks, status>>

Return(r) ==
  /\ Visiting
  /\ IF ~Me.allowed \/ (r # NoValue /\ Len(visitors) = 1) THEN End("unsupported")
     ELSE /\ Change([Me EXCEPT !.discard = TRUE, !.rets = r])
          /\ IF r = NoValue THEN ops' = ops ELSE Create([op |-> "return", at |-> insertion])
          /\ UNCHANGED <<funcs, blocks, insertion, dicts, masks, status>>

\* The visitor that called, with the callee's return types.
Caller == visitors[Len(visitors) - 1]

\* Slip: the types recorded are those of the caller's own returns.
ReturnTypesOfCaller == Caller.rets

ReturnTypes == Me.rets

\* Slip: the caller's insertion point is not restored.
ResumeAtNot == insertion

\* Slip: the insertion point restored is the one the caller itself began with.
ResumeAtOuter == Caller.saved

ResumeAt == Me.saved

\* The body is done: the function's type, back to the caller, which records the
\* types and creates the call.  (The func.ReturnOp that ends a body without one
\* is left out: its visitor is done and creates nothing behind it.)
EndFunction ==
  /\ status = "running"
  /\ Len(visitors) > 1 /\ Me.open = <<>>
  /\ Create(CallOp(ResumeAt, Me.fn, Me.spec, ReturnTypes))
  /\ funcs' = [funcs EXCEPT ![blocks[Me.entry].fn].rets = Me.rets]
  /\ dicts' = [dicts EXCEPT ![Caller.dict] = [g \in DOMAIN @ \cup {Me.fn} |-> IF g = Me.fn THEN ReturnTypes ELSE @[g]]]
  /\ insertion' = ResumeAt
  /\ visitors' = Front(visitors)
  /\ UNCHANGED <<blocks, masks, status>>

EndKernel ==
  /\ status = "running"
  /\ Len(visitors) = 1 /\ Me.open = <<>>
  /\ End("done")

-----------------------------------------------------------------------------
(* select with a mask list keeps the constants of the list on the builder  *)
(* and uses them again for an equal list.                                  *)

SelectOp(at, from) == [op |-> "select", at |-> at, from |-> from]

SelectFirst(m) ==
  /\ Visiting
  /\ m \notin DOMAIN masks
  /\ masks' = [k \in DOMAIN masks \cup {m} |-> IF k = m THEN insertion ELSE masks[k]]
  /\ Create(SelectOp(insertion, insertion))
  /\ UNCHANGED <<funcs, blocks, insertion, visitors, dicts, status>>

SelectAgain(m) ==
  /\ Visiting
  /\ m \in DOMAIN masks
  /\ Create(SelectOp(insertion, masks[m]))
  /\ UNCHANGED <<funcs, blocks, insertion, visitors, dicts, masks, status>>

Next ==
  \/ OpenRegion \/ CloseRegion \/ EndFunction \/ EndKernel
  \/ \E g \in Functions \cup {Kernel} :
       CallUnrecorded(g) \/ \E s \in Specs : CallKnown(g, s) \/ CallNew(g, s)
  \/ \E r \in Types \cup {NoValue} : Return(r)
  \/ \E m \in Masks : SelectFirst(m) \/ SelectAgain(m)

Spec == Init /\ [][Next]_vars

-----------------------------------------------------------------------------
(* What is checked.                                                        *)

\* The variables have their types.
TypeOK ==
  /\ funcs \in Seq([name : Functions \cup {Kernel}, spec : Specs, rets : Types \cup {NoValue}])
  /\ blocks \in Seq([fn : DOMAIN funcs, around : 0 .. Len(blocks)])
  /\ insertion \in DOMAIN blocks
  /\ visitors # <<>> /\ \A i \in DOMAIN visitors : visitors[i].dict \in DOMAIN dicts
  /\ DOMAIN masks \subseteq Masks
  /\ status \in {"running", "done", "unsupported", "recursive", "no return types"}

\* Visitors begin, end and open regions inside one another, and there is one
\* builder: what a visitor creates goes where its statement stands.
InsertionFollows == status = "running" => insertion = Innermost(Me)

\* A function is put into the module once, however many calls it has and from
\* wherever; two operations of one name make the module invalid.
GeneratedOnce ==
  \A i, j \in DOMAIN funcs : funcs[i].name = funcs[j].name => i = j

\* A return ends the entry block of its function and is the last operation in
\* it: none in a branch or a loop, none after another.
ReturnsLast ==
  \A i \in DOMAIN ops : ops[i].op = "return" =>
    /\ blocks[ops[i].at].around = 0
    /\ \A j \in DOMAIN ops : j > i => ops[j].at # ops[i].at

\* The module is one the verifier accepts: every function in it once, every
\* return last.
ModuleWellFormed == TypeOK /\ GeneratedOnce /\ ReturnsLast

\* Every call has the result types its callee has got: the callee's type is
\* set after its body, the call is created from a record made elsewhere.
ResultsAsDeclared ==
  \A i \in DOMAIN ops : ops[i].op = "call" =>
    \A j \in DOMAIN funcs : funcs[j].name = ops[i].fn => ops[i].rets = funcs[j].rets

\* A call of a device function that was generated finds its return types
\* (recursion aside).
ReturnTypesKnown == status # "no return types"

\* A call reaches code that was generated for the constants it gives.
CalledAsGenerated ==
  \A i \in DOMAIN ops : ops[i].op = "call" =>
    \E j \in DOMAIN funcs : funcs[j].name = ops[i].fn /\ funcs[j].spec = ops[i].spec

\* A mask is a value that can be seen where it is used: it was defined in the
\* same block or in a block around it.
MaskVisible ==
  LET Enclosing[b \in 0 .. Len(blocks)] == IF b = 0 THEN {} ELSE {b} \cup Enclosing[blocks[b].around]
  IN  \A i \in DOMAIN ops : ops[i].op = "select" => ops[i].from \in Enclosing[ops[i].at]
=============================================================================
