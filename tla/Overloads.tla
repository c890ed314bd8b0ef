----------------------------- MODULE Overloads -----------------------------
(***************************************************************************)
(* How a call of the kernel-side API reaches the operation it builds.      *)
(*                                                                         *)
(* A function of asc.language is declared to its users by @overload        *)
(* signatures, and implemented by one Python function.  That function      *)
(* binds the parameters it names (here its lead) as Python does and hands  *)
(* the rest to an OverloadDispatcher (core/utils.py), which tries the      *)
(* signatures registered with it one after the other.  Nothing compares    *)
(* what is declared with what is registered but a call.                    *)
(*                                                                         *)
(* A value records the declared parameter it was given for, so that one    *)
(* that arrives under another parameter can be told.  The signatures are   *)
(* in the modules Api*, as constants; this module knows none of them.      *)
(***************************************************************************)
EXTENDS Signatures

CONSTANTS
  Api,      \* name of a function -> [decl, lead, rest, overloads, groups]
  Refused,  \* declared forms that are known to deviate, as <<function, form>>: turned away,
  Misbound, \*   with values under other parameters,
  Defaults, \*   with other defaults,
  Ignoring, \*   with values that are dropped,
  Narrow    \*   with operands narrower than the documented range

VARIABLES
  call,    \* the call being made, or NoCall
  at,      \* the registered overload the dispatcher looks at; 0: none
  bound,   \* the values bound to Slots, in their order
  status   \* "idle", "entered", "trying", "bound", "emitted", "refused", "overflow"

vars == <<call, at, bound, status>>

------------------------------- (* Calls *) ---------------------------------
NoCall == [api |-> "none", form |-> 0, fn |-> Entry(<<>>, <<>>, FALSE, <<>>), args |-> <<>>, kw |-> {}]

Form == <<call.api, call.form>>
Decl == call.fn.decl[call.form]
Lead == call.fn.lead
Table == call.fn.overloads

\* What the call gives to the lead, and what is left for the dispatcher.
Least(a, b)  == IF a < b THEN a ELSE b
LeadArgs     == SubSeq(call.args, 1, Least(Len(call.args), Len(Lead)))
RestArgs     == SubSeq(call.args, Len(Lead) + 1, Len(call.args))
LeadKw       == {k \in call.kw : \E i \in DOMAIN Lead : Lead[i].n = k.p}
RestKw       == call.kw \ LeadKw
Matches(o)   == LET sig == Table[o] IN Binds(sig, RestArgs, RestKw) /\ Typed(sig, RestArgs, RestKw)
\* Slip: the defaults are not filled in.
RestBoundGiven(o) == RestArgs
RestBound(o) == Bound(Table[o], RestArgs, RestKw)

\* The parameters that are bound so far, in the order of their values.
Slots == IF at = 0 THEN Lead ELSE Lead \o Table[at]

GivenValues == {call.args[i] : i \in DOMAIN call.args} \cup call.kw

-----------------------------------------------------------------------------
Init == call = NoCall /\ at = 0 /\ bound = <<>> /\ status = "idle"

\* How a call is written: the parameters up to the n-th by position, those
\* omitted not at all, and the others by name.  One parameter, the odd one,
\* may take any kind of its type.
Optional(sig)  == {i \in DOMAIN sig : sig[i].d # Required}
Omissions(sig) == {{}, Optional(sig)} \cup {{i} : i \in Optional(sig)}
Splits(sig)    == {n \in 0 .. Len(sig) : \A i \in 1 .. n : sig[i].n # "handle"}
Styles(sig) ==
  {s \in [n : Splits(sig), omitted : Omissions(sig), odd : {0}] : \A i \in s.omitted : i > s.n}
  \cup [n : Splits(sig) \cap {0, Len(sig)}, omitted : {{}}, odd : DOMAIN sig]

(* A user's call of a declared form, with all values at one end of their   *)
(* ranges.  A handle is given by name: from_ir does.                       *)
CallForm(a, fn, f, sig) ==
  \E s \in Styles(sig), e \in {1, 2} :
  \E kind \in (IF s.odd = 0 THEN {"usual"} ELSE sig[s.odd].t) :
    LET value(i) == Given(sig[i].n,
                          IF i = s.odd THEN kind ELSE CHOOSE k \in sig[i].t : TRUE,
                          IF sig[i].r = Width THEN 0 ELSE sig[i].r[e])
    IN call' = [api |-> a, form |-> f, fn |-> fn,
                args |-> [i \in 1 .. s.n |-> value(i)],
                kw |-> {value(i) : i \in (s.n + 1 .. Len(sig)) \ s.omitted}]
CallOf(a, fn) == \E f \in DOMAIN fn.decl : CallForm(a, fn, f, fn.decl[f])
Call ==
  /\ status = "idle"
  /\ \E a \in DOMAIN Api : CallOf(a, Api[a])
  /\ status' = "entered"
  /\ UNCHANGED <<at, bound>>

\* Python binds the lead; what is left needs *args and **kwargs.
Enter ==
  /\ status = "entered"
  /\ IF /\ Binds(Lead, LeadArgs, LeadKw)
        /\ call.fn.rest \/ (RestArgs = <<>> /\ RestKw = {})
     THEN /\ bound' = Bound(Lead, LeadArgs, LeadKw)
          /\ status' = IF call.fn.rest THEN "trying" ELSE "bound"
          /\ at' = IF call.fn.rest THEN 1 ELSE 0
     ELSE status' = "refused" /\ UNCHANGED <<at, bound>>
  /\ UNCHANGED call

(* One turn of the loop of OverloadDispatcher.__call__. *)
Try ==
  /\ status = "trying"
  /\ IF at > Len(Table) THEN status' = "refused" /\ at' = 0 /\ UNCHANGED bound
     ELSE IF Matches(at) THEN status' = "bound" /\ bound' = bound \o RestBound(at) /\ UNCHANGED at
     ELSE at' = at + 1 /\ UNCHANGED <<status, bound>>
  /\ UNCHANGED call

\* The implementation makes constants of the values and builds the operation:
\* the builder refuses a number its operand cannot hold.
Operands ==
  LET slots   == Slots
      notNone == {slots[i].n : i \in {i \in DOMAIN bound : bound[i].t # "None"}}
      groups  == call.fn.groups
      applies == {g \in groups : g.needs \subseteq notNone /\ g.without \cap notNone = {}}
  IN  {i \in DOMAIN bound : /\ slots[i].r # NoOperand
                            /\ groups = {} \/ \E g \in applies : slots[i].n \in g.uses}
Fits == \A i \in Operands : Slots[i].r[1] <= bound[i].v /\ bound[i].v <= Slots[i].r[2]
Build ==
  /\ status = "bound"
  /\ status' = IF Fits THEN "emitted" ELSE "overflow"
  /\ UNCHANGED <<call, at, bound>>

Return ==
  /\ status \in {"emitted", "refused", "overflow"}
  /\ call' = NoCall /\ at' = 0 /\ bound' = <<>> /\ status' = "idle"

Next == Call \/ Enter \/ Try \/ Build \/ Return
Spec == Init /\ [][Next]_vars
-----------------------------------------------------------------------------
(* The dispatcher never looks past its table by more than the step that    *)
(* ends it, and what is bound fills the slots exactly.                     *)
TypeOK ==
  /\ status \in {"idle", "entered", "trying", "bound", "emitted", "refused", "overflow"}
  /\ at \in 0 .. (IF call = NoCall THEN 0 ELSE Len(Table) + 1)
  /\ status = "trying" => Len(bound) = Len(Lead)
  /\ status \in {"bound", "emitted", "overflow"} => Len(bound) = Len(Slots)

(* A call that some @overload declares is never turned away, whichever of  *)
(* its arguments are named (core/utils.py:47).                             *)
DeclaredCallAccepted == status = "refused" => Form \in Refused

(* Every value given ends up under the parameter it was given for: under   *)
(* the same name, where the implementation has that name.                  *)
GivenWhereMeant ==
  status = "bound" /\ Form \notin Misbound =>
    LET slots == Slots IN
    \A v \in GivenValues : \E i \in DOMAIN bound :
       /\ bound[i] = v
       /\ slots[i].n = v.p \/ \A j \in DOMAIN slots : slots[j].n # v.p

(* A parameter that is left out has the default that is declared for it.   *)
DefaultAsDeclared ==
  status = "bound" /\ Form \notin Defaults =>
    LET slots == Slots IN
    \A i \in DOMAIN bound : bound[i].p = "default" =>
      \A j \in DOMAIN Decl : slots[i].n = Decl[j].n => bound[i].t = Decl[j].d

(* A call fills the slots exactly, each with what was given or declared.   *)
ValuesArrive == TypeOK /\ GivenWhereMeant /\ DefaultAsDeclared

(* What a call gives is not dropped on the way to the operation.           *)
NothingIgnored ==
  status = "emitted" /\ Form \notin Ignoring => GivenValues \subseteq {bound[i] : i \in Operands}

(* A value within the documented range never fails to fit its operand.     *)
DocumentedRangeFits == status = "overflow" => Form \in Narrow
=============================================================================
