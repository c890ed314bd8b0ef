------------------------------- MODULE Codegen -------------------------------
(***************************************************************************)
(* How the body of a JIT function becomes IR: FunctionVisitor of           *)
(* python/asc/codegen/function_visitor.py over NameScope of name_scope.py  *)
(* and PlainValue of language/core/ir_value.py.                            *)
(*                                                                         *)
(* Names are bound to Python integers, known while the code is generated,  *)
(* or to handles of IR values.  Names that a block binds again are carried *)
(* out of it as results of the scf operation; compute_inout finds them.    *)
(* A step visits one statement, runs the IR it gave on the values so far   *)
(* and, as the reference, the statement itself.                            *)
(***************************************************************************)
EXTENDS Integers, SequencesExt

CONSTANTS
  Statements,   \* the statements a function may be made of
  Inputs,       \* the functions from the names of arguments to their values
  MaxLength,    \* bound on the number of statements
  MaxTrips,     \* bound on the iterations of a loop; more are taken for endless
  Lost          \* the outcome of an endless loop

\* Expressions
Const(k) == [e |-> "const", k |-> k]
Name(x) == [e |-> "name", x |-> x]
Add(a, b) == [e |-> "add", a |-> a, b |-> b]
Lt(a, b) == [e |-> "lt", a |-> a, b |-> b]
IfExp(c, a, b) == [e |-> "ifexp", c |-> c, a |-> a, b |-> b]

\* Statements
Assign(x, e) == [s |-> "assign", xs |-> <<x>>, es |-> <<e>>]
Assign2(x, y, a, b) == [s |-> "assign", xs |-> <<x, y>>, es |-> <<a, b>>]
If(c, body, orelse) == [s |-> "if", c |-> c, body |-> body, orelse |-> orelse]
For(x, stop, body) == [s |-> "for", x |-> x, stop |-> stop, body |-> body]
StaticFor(x, stop, body) == [s |-> "static", x |-> x, stop |-> stop, body |-> body]
While(c, body) == [s |-> "while", c |-> c, body |-> body]

\* Addition and comparison stand for all operators of their kinds.
Plus(a, b) == a + b
Less(a, b) == IF a < b THEN 1 ELSE 0
Apply(op, a, b) == IF op = "add" THEN Plus(a, b) ELSE Less(a, b)

-----------------------------------------------------------------------------
(* IR.  An operation has operands "in", results "out" and blocks; a block  *)
(* has arguments, operations, and the operands of its terminator.          *)

Block(args, ops, yields) == [args |-> args, ops |-> ops, yields |-> yields]
Op(op, in, out, k, blocks) == [op |-> op, in |-> in, out |-> out, k |-> k, blocks |-> blocks]

\* What the verifier of the pass manager asks: operands are defined before.
RECURSIVE Verified(_, _), DefinedAfter(_, _)
DefinedAfter(ops, defined) ==
  defined \cup UNION {ToSet(ops[i].out) : i \in DOMAIN ops}
Verified(ops, defined) ==
  \A i \in DOMAIN ops :
    LET before == DefinedAfter(SubSeq(ops, 1, i - 1), defined)
    IN  /\ ToSet(ops[i].in) \subseteq before
        /\ \A j \in DOMAIN ops[i].blocks :
             LET b == ops[i].blocks[j]
                 inside == before \cup ToSet(b.args)
             IN  /\ Verified(b.ops, inside)
                 /\ ToSet(b.yields) \subseteq DefinedAfter(b.ops, inside)

Bind(env, hs, vs) ==
  [h \in DOMAIN env \cup ToSet(hs) |->
     IF h \in ToSet(hs) THEN vs[CHOOSE i \in DOMAIN hs : hs[i] = h] ELSE env[h]]
Values(env, hs) == [i \in DOMAIN hs |-> env[hs[i]]]

RECURSIVE Run(_, _), RunFor(_, _, _, _), RunWhile(_, _, _, _)
RunFor(op, env, i, carried) ==
  IF i >= env[op.in[1]] THEN carried
  ELSE LET b == op.blocks[1]
           e == Run(b.ops, Bind(env, b.args, <<i>> \o carried))
       IN  IF e = Lost THEN Lost ELSE RunFor(op, env, i + 1, Values(e, b.yields))
RunWhile(op, env, i, carried) ==
  LET before == op.blocks[1]
      after == op.blocks[2]
      e == Run(before.ops, Bind(env, before.args, carried))
  IN  IF e[before.yields[1]] = 0 THEN carried
      ELSE IF i = MaxTrips THEN Lost
      ELSE LET f == Run(after.ops, Bind(env, after.args, carried))
           IN  IF f = Lost THEN Lost ELSE RunWhile(op, env, i + 1, Values(f, after.yields))
Run(ops, env) ==
  IF ops = <<>> \/ env = Lost THEN env
  ELSE LET op == Head(ops)
           chosen == op.blocks[IF env[op.in[1]] # 0 THEN 1 ELSE 2]
           inner == Run(chosen.ops, env)
           results == CASE op.op = "const" -> <<op.k>>
                        [] op.op \in {"add", "lt"} -> <<Apply(op.op, env[op.in[1]], env[op.in[2]])>>
                        [] op.op = "if" -> IF inner = Lost THEN Lost ELSE Values(inner, chosen.yields)
                        [] op.op = "for" -> RunFor(op, env, 0, Values(env, Tail(op.in)))
                        [] op.op = "while" -> RunWhile(op, env, 0, Values(env, op.in))
       IN  IF results = Lost THEN Lost ELSE Run(Tail(ops), Bind(env, op.out, results))

-----------------------------------------------------------------------------
(* The visitor.  Its state: the scope's names, those defined and those     *)
(* bound again in it, the operations of the block at the insertion point,  *)
(* and the number of handles so far.                                       *)

Py(k) == [py |-> TRUE, v |-> k]
Ir(h) == [py |-> FALSE, v |-> h]

Emit(st, op, in, k, blocks, results) ==
  [st EXCEPT !.ops = Append(@, Op(op, in, [i \in 1..results |-> st.next + i], k, blocks)),
             !.next = @ + results]
Unsupported(st) == [st EXCEPT !.status = "unsupported"]

\* materialize_ir_value: a Python value becomes a constant where it is used.
Materialize(st, v) ==
  IF v.py THEN [v |-> Ir(st.next + 1), st |-> Emit(st, "const", <<>>, v.v, <<>>, 1)]
  ELSE [v |-> v, st |-> st]
AddHandle(a, m) == [hs |-> Append(a.hs, m.v.v), st |-> m.st]
MaterializeAll(st, vs) ==
  FoldLeft(LAMBDA a, v : AddHandle(a, Materialize(a.st, v)), [hs |-> <<>>, st |-> st], vs)

\* NameScope.save
Save(st, x, v) ==
  [st EXCEPT !.vars = [y \in DOMAIN @ \cup {x} |-> IF y = x THEN v ELSE @[y]],
             !.defined = IF x \in DOMAIN st.vars THEN @ ELSE @ \cup {x},
             !.redefined = IF x \in DOMAIN st.vars /\ x \notin st.defined THEN @ \cup {x} ELSE @]
SaveAll(st, xs, vs) ==
  FoldLeftDomain(LAMBDA s, i : Save(s, xs[i], vs[i]), st, xs)

\* visit_region with an empty block, and back to the outer scope.
Inside(st) == [st EXCEPT !.defined = {}, !.redefined = {}, !.ops = <<>>]
Outside(st, inner) ==
  [st EXCEPT !.next = inner.next, !.status = inner.status]

\* apply_binary_method, apply_binary_op, apply_compare_op
EmitBinary(op, m) == [v |-> Ir(m.st.next + 1), st |-> Emit(m.st, op, m.hs, 0, <<>>, 1)]
ApplyMethod(st, op, a, b) ==
  IF a.py /\ b.py THEN [v |-> Py(Apply(op, a.v, b.v)), st |-> st]
  ELSE EmitBinary(op, MaterializeAll(st, <<a, b>>))

\* Expressions are evaluated one after the other, each from where the last
\* one left the visitor.
RECURSIVE Eval(_, _)
AddValue(a, r) == [vs |-> Append(a.vs, r.v), st |-> r.st]
EvalAll(es, st) == FoldLeft(LAMBDA a, e : AddValue(a, Eval(e, a.st)), [vs |-> <<>>, st |-> st], es)
AsHandle(r) == Materialize(r.st, r.v)

\* visit_BinOp, visit_Compare
ApplyTo(op, r) == ApplyMethod(r.st, op, r.vs[1], r.vs[2])
EvalBinary(e, st) == ApplyTo(e.e, EvalAll(<<e.a, e.b>>, st))

\* visit_IfExp: the condition may be a constant too.
IfExpJoin(c, a, b) ==
  LET blocks == <<Block(<<>>, a.st.ops, <<a.v.v>>), Block(<<>>, b.st.ops, <<b.v.v>>)>>
  IN  [v |-> Ir(b.st.next + 1), st |-> Emit(Outside(c.st, b.st), "if", <<c.v.v>>, 0, blocks, 1)]
IfExpElse(e, c, a) == IfExpJoin(c, a, AsHandle(Eval(e.b, Inside(Outside(c.st, a.st)))))
IfExpThen(e, c) == IfExpElse(e, c, AsHandle(Eval(e.a, Inside(c.st))))
EvalIfExp(e, st) == IfExpThen(e, AsHandle(Eval(e.c, st)))

Eval(e, st) ==
  CASE e.e = "const" -> [v |-> Py(e.k), st |-> st]
    [] e.e = "name" -> IF e.x \in DOMAIN st.vars THEN [v |-> st.vars[e.x], st |-> st]
                       ELSE [v |-> Py(0), st |-> Unsupported(st)]
    [] e.e \in {"add", "lt"} -> EvalBinary(e, st)
    [] e.e = "ifexp" -> EvalIfExp(e, st)

\* Slip: blocks inside the block are forgotten.
ReplaceUsesHere(ops, h, arg) ==
  LET sub(hs) == [i \in DOMAIN hs |-> IF hs[i] = h THEN arg ELSE hs[i]]
  IN  [i \in DOMAIN ops |-> [ops[i] EXCEPT !.in = sub(@)]]

\* replace_uses_in_block
RECURSIVE ReplaceUses(_, _, _)
ReplaceUses(ops, h, arg) ==
  LET sub(hs) == [i \in DOMAIN hs |-> IF hs[i] = h THEN arg ELSE hs[i]]
  IN  [i \in DOMAIN ops |->
         [ops[i] EXCEPT !.in = sub(@),
                        !.blocks = [j \in DOMAIN @ |->
                           [@[j] EXCEPT !.ops = ReplaceUses(@, h, arg), !.yields = sub(@)]]]]

RECURSIVE Visit(_, _)
VisitAll(stmts, st) == FoldLeft(LAMBDA s, stmt : Visit(stmt, s), st, stmts)

\* compute_inout: a block for stmts and, for the names it binds again, their
\* handles before it (inits), inside it (carried, the block's arguments) and
\* at its end (yields).  The arguments follow those for the names of ind.
BlockStart(st, ind) ==
  SaveAll([Inside(st) EXCEPT !.next = @ + Len(ind)], ind, [i \in DOMAIN ind |-> Ir(st.next + i)])
BlockEnd(st, b, inits, yields) ==
  LET changed == \E x \in ToSet(b.names) : st.vars[x].py # b.end.vars[x].py
  IN  [names |-> b.names, inits |-> inits.hs, yields |-> yields.hs,
       block |-> Block(b.args, yields.st.ops, yields.hs),
       st |-> Outside(st, IF changed THEN Unsupported(yields.st) ELSE yields.st)]
BlockYields(st, b, inits) ==
  LET carried == [i \in DOMAIN b.names |-> inits.st.next + i]
      ops == FoldLeftDomain(LAMBDA a, i : ReplaceUses(a, inits.hs[i], carried[i]), inits.st.ops, b.names)
      replaced == IF b.makeArgs THEN [inits.st EXCEPT !.next = @ + Len(b.names), !.ops = ops] ELSE inits.st
      args == IF b.makeArgs THEN b.args \o carried ELSE b.args
  IN  BlockEnd(st, [b EXCEPT !.args = args], inits,
               MaterializeAll(replaced, [i \in DOMAIN b.names |-> b.end.vars[b.names[i]]]))
BlockInits(st, b) ==
  BlockYields(st, b, MaterializeAll(b.end, [i \in DOMAIN b.names |-> st.vars[b.names[i]]]))
BlockOf(ind, makeArgs, st, end) ==
  [makeArgs |-> makeArgs, end |-> end, names |-> SetToSeq(end.redefined), args |-> [i \in DOMAIN ind |-> st.next + i]]
ComputeInOut(stmts, st, ind, makeArgs) ==
  BlockInits(st, BlockOf(ind, makeArgs, st, VisitAll(stmts, BlockStart(st, ind))))

\* Slip: the results are taken to begin one later.
ResultsLate(st, names) == SaveAll(st, names, [i \in DOMAIN names |-> Ir(st.next - Len(names) + i + 1)])

Results(st, names) == SaveAll(st, names, [i \in DOMAIN names |-> Ir(st.next - Len(names) + i)])

\* Slip: the other's, after it.
SelectYields(names, main, fallback) ==
  LET at(b, x) == b.yields[CHOOSE i \in DOMAIN b.names : b.names[i] = x]
  IN  [i \in DOMAIN names |-> IF names[i] \in ToSet(main.names) THEN at(main, names[i])
                              ELSE at(fallback, names[i])]

\* The handles of a branch: its own, or the other's before the branch.
Select(names, main, fallback) ==
  LET at(b, hs, x) == hs[CHOOSE i \in DOMAIN b.names : b.names[i] = x]
  IN  [i \in DOMAIN names |-> IF names[i] \in ToSet(main.names) THEN at(main, main.yields, names[i])
                              ELSE at(fallback, fallback.inits, names[i])]

IfJoin(c, t, e) ==
  LET names == SetToSeq(ToSet(t.names) \cup ToSet(e.names))
      blocks == <<Block(<<>>, t.block.ops, Select(names, t, e)),
                  Block(<<>>, e.block.ops, Select(names, e, t))>>
  IN  Results(Emit(e.st, "if", <<c.v.v>>, 0, blocks, Len(names)), names)
IfElse(s, c, t) == IfJoin(c, t, ComputeInOut(s.orelse, t.st, <<>>, FALSE))
IfThen(s, c) ==
  IF c.v.py THEN VisitAll(IF c.v.v # 0 THEN s.body ELSE s.orelse, c.st)
  ELSE IfElse(s, c, ComputeInOut(s.body, c.st, <<>>, FALSE))
VisitIf(s, st) == IfThen(s, Eval(s.c, st))

ForJoin(stop, b) ==
  Results(Emit(b.st, "for", <<stop.v.v>> \o b.inits, 0, <<b.block>>, Len(b.names)), b.names)
ForBody(s, stop) == ForJoin(stop, ComputeInOut(s.body, stop.st, <<s.x>>, TRUE))
VisitFor(s, st) == ForBody(s, AsHandle(Eval(s.stop, st)))

\* The condition is visited in the outer scope, after the body.
WhileJoin(b, c) ==
  LET args == [i \in DOMAIN b.names |-> c.st.next + i]
      out == [Outside(b.st, c.st) EXCEPT !.next = @ + Len(args)]
      blocks == <<Block(args, c.st.ops, <<c.v.v>>), b.block>>
  IN  Results(Emit(out, "while", b.inits, 0, blocks, Len(b.names)), b.names)
WhileCondition(s, b) == WhileJoin(b, AsHandle(Eval(s.c, Inside(b.st))))
VisitWhile(s, st) == WhileCondition(s, ComputeInOut(s.body, st, <<>>, TRUE))

Assigned(xs, r) == SaveAll(r.st, xs, r.vs)
VisitAssign(s, st) == Assigned(s.xs, EvalAll(s.es, st))

Visit(s, st) ==
  CASE st.status # "ok" -> st
    [] s.s = "assign" -> VisitAssign(s, st)
    [] s.s = "if" -> VisitIf(s, st)
    [] s.s = "for" -> VisitFor(s, st)
    [] s.s = "while" -> VisitWhile(s, st)
    [] s.s = "static" ->
         FoldLeftDomain(LAMBDA a, i : VisitAll(s.body, Save(a, s.x, Py(i - 1))), st,
                        [i \in 1..s.stop |-> i])

-----------------------------------------------------------------------------
(* The reference: what Python makes of a statement. *)

RECURSIVE EvalPython(_, _), Exec(_, _), ExecFor(_, _, _), ExecWhile(_, _, _)
EvalPython(e, at) ==
  CASE e.e = "const" -> e.k
    [] e.e = "name" -> at[e.x]
    [] e.e \in {"add", "lt"} -> Apply(e.e, EvalPython(e.a, at), EvalPython(e.b, at))
    [] e.e = "ifexp" -> EvalPython(IF EvalPython(e.c, at) # 0 THEN e.a ELSE e.b, at)
ExecAll(stmts, at) == FoldLeft(LAMBDA a, s : Exec(s, a), at, stmts)
ExecFor(s, n, at) ==
  FoldLeftDomain(LAMBDA a, i : IF a = Lost THEN Lost ELSE ExecAll(s.body, Bind(a, <<s.x>>, <<i - 1>>)),
                 at, [i \in 1..n |-> i])
ExecWhile(s, i, at) ==
  CASE at = Lost -> Lost
    [] at # Lost /\ EvalPython(s.c, at) = 0 -> at
    [] OTHER -> IF i = MaxTrips THEN Lost ELSE ExecWhile(s, i + 1, ExecAll(s.body, at))
Exec(s, at) ==
  CASE at = Lost -> Lost
    [] s.s = "assign" -> Bind(at, s.xs, [i \in DOMAIN s.es |-> EvalPython(s.es[i], at)])
    [] s.s = "if" -> ExecAll(IF EvalPython(s.c, at) # 0 THEN s.body ELSE s.orelse, at)
    [] s.s = "for" -> ExecFor(s, EvalPython(s.stop, at), at)
    [] s.s = "static" -> ExecFor(s, s.stop, at)
    [] s.s = "while" -> ExecWhile(s, 0, at)

-----------------------------------------------------------------------------
VARIABLES
  scope,    \* the names of the function: NameScope.local_vars
  status,   \* "ok"; or the visitor raised ("unsupported"); or the verifier did ("invalid")
  env,      \* the values of the handles, in a run with the inputs
  python,   \* the values of the names, in Python
  length    \* the statements so far

vars == <<scope, status, env, python, length>>

Fresh(names, n) ==
  [vars |-> names, defined |-> DOMAIN names, redefined |-> {}, ops |-> <<>>, next |-> n, status |-> "ok"]

\* visit_FunctionDef: the arguments are handles.
Init ==
  /\ python \in Inputs
  /\ LET xs == SetToSeq(DOMAIN python)
     IN  /\ scope = SaveAll(Fresh(<<>>, 0), xs, [i \in DOMAIN xs |-> Ir(i)]).vars
         /\ env = Bind(<<>>, [i \in DOMAIN xs |-> i], [i \in DOMAIN xs |-> python[xs[i]]])
  /\ status = "ok" /\ length = 0

Verify(s, st, verified) ==
  /\ status' = IF st.status = "ok" /\ ~verified THEN "invalid" ELSE st.status
  /\ scope' = IF verified THEN st.vars ELSE scope
  /\ python' = IF verified THEN Exec(s, python) ELSE python
  /\ python' # Lost
  /\ env' = IF verified THEN Run(st.ops, env) ELSE env
Visited(s, st) == Verify(s, st, st.status = "ok" /\ Verified(st.ops, DOMAIN env))
Statement(s) ==
  /\ status = "ok" /\ length < MaxLength
  /\ Visited(s, Visit(s, Fresh(scope, Max(DOMAIN env \cup {0}))))
  /\ length' = length + 1

Next == \E s \in Statements : Statement(s)

Spec == Init /\ [][Next]_vars

-----------------------------------------------------------------------------
(* Properties *)

TypeOK ==
  /\ status \in {"ok", "unsupported", "invalid"} /\ length \in 0..MaxLength
  /\ env # Lost => \A x \in DOMAIN scope : scope[x].py \/ scope[x].v \in DOMAIN env

\* After each statement every name has the value it has in Python, when the
\* generated IR is run: in loops and branches as well, however they nest
\* (compute_inout, visit_For, visit_If; docs/python_syntax_support.md).
SameValues ==
  status = "ok" =>
    /\ env # Lost
    /\ \A x \in DOMAIN scope :
         x \in DOMAIN python /\ python[x] = IF scope[x].py THEN scope[x].v ELSE env[scope[x].v]

\* What the visitor lets pass, the verifier of the pass manager accepts: no
\* value is used where it is not defined (visit_region, mat_ir_values).
VerifierAccepts == status # "invalid"

\* The names that are handles have values, and the module is valid.
WellFormed == TypeOK /\ VerifierAccepts

=============================================================================
