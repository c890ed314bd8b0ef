----------------------------- MODULE Signatures -----------------------------
(***************************************************************************)
(* Parameters, signatures and what it means to bind a call to one: Python's *)
(* binding of arguments and OverloadDispatcher.match_overload              *)
(* (core/utils.py).  The tables of the kernel-side API are written in this *)
(* notation.                                                               *)
(*                                                                         *)
(* A type is the set of the kinds of value it admits; a signature is a     *)
(* sequence of parameters.                                                 *)
(***************************************************************************)
EXTENDS Integers, Sequences, TLC

Required  == "required"           \* in the place of a default
Width     == <<-(2^30), 2^30>>    \* wide enough for every value that is tried
NoOperand == <<>>                 \* bound, and used for nothing
Int8 == <<-128, 127>>
UInt8  == <<0, 255>>
Int16 == <<-32768, 32767>>
UInt16 == <<0, 65535>>

\* Parameters ns of type t: required, optional with default d, and with the
\* range r of their values (documented, or what the operand can hold).
InR(ns, t, d, r) == [i \in DOMAIN ns |-> [n |-> ns[i], t |-> t, d |-> d, r |-> r]]
P(ns, t)         == InR(ns, t, Required, Width)
D(ns, t, d)      == InR(ns, t, d, Width)
Dropped(ns, t, d) == InR(ns, t, d, NoOperand)
L(ns)            == P(ns, {})     \* Python does not look at the types of these

Star             == D(<<"*">>, {}, "*")   \* what follows is given by name only

\* A function that binds lead, and one that leaves the rest to a dispatcher.
\* groups is empty, or says which parameters are used: those of a group
\* whose needs have values other than None, and those of without have not.
Entry(decl, lead, rest, overloads) ==
  [decl |-> decl, lead |-> lead, rest |-> rest, overloads |-> overloads, groups |-> {}]
Fn(decl, lead)                    == Entry(decl, lead, FALSE, <<>>)
Dispatched(decl, lead, overloads) == Entry(decl, lead, TRUE, overloads)
Each(fns, api) == [f \in fns |-> api]
One(name, class) == P(<<name>>, {class})
\* Declared as sig and implemented by a function with the same parameters.
Same(sig) == Fn(<<sig>>, [i \in DOMAIN sig |-> [sig[i] EXCEPT !.t = {}, !.r = Width]])
NoArguments(fns) == Each(fns, Fn(<<<<>>>>, <<>>))

\* The types of the API.  A runtime number is a Python number or an IR value.
IntT   == {"int"}
RIntT   == {"int", "PlainValue"}
BoolT  == {"bool"}
RBoolT  == {"bool", "PlainValue"}
FloatT == {"float"}
RFloatT == {"float", "PlainValue"}
NumT   == IntT \cup FloatT
RNumT == NumT \cup {"bool", "PlainValue"}
ListT  == {"list"}
NoneT == {"None"}
LocalT    == {"LocalTensor"}
GlobalT == {"GlobalTensor"}
TensorT == LocalT \cup GlobalT

(* isinstance: bool is a subclass of int. *)
Accepts(t, kind) == kind \in t \/ (kind = "bool" /\ "int" \in t)

Given(p, kind, v) == [p |-> p, t |-> kind, v |-> v]
DefaultOf(q)      == [p |-> "default", t |-> q.d, v |-> 0]

\* Positional args fill sig from the left, keywords kw by name, defaults the rest.
Binds(sig, args, kw) ==
  /\ Len(args) <= Len(sig)
  /\ \A i \in DOMAIN args : sig[i].n # "*"
  /\ \A k \in kw : \E i \in Len(args) + 1 .. Len(sig) : sig[i].n = k.p
  /\ \A i \in Len(args) + 1 .. Len(sig) :
        sig[i].d # Required \/ \E k \in kw : k.p = sig[i].n

\* What match_overload asks besides: the type of every value that is given.
Typed(sig, args, kw) ==
  /\ \A i \in DOMAIN args : Accepts(sig[i].t, args[i].t)
  /\ \A k \in kw : \A i \in DOMAIN sig : sig[i].n = k.p => Accepts(sig[i].t, k.t)

Named(kw, q) == {k \in kw : k.p = q.n}
\* Slip: the defaults are put over what was given by name.
BoundDefaultsLast(sig, args, kw) ==
  [i \in DOMAIN sig |->
     IF i \in DOMAIN args THEN args[i]
     ELSE IF sig[i].d # Required THEN DefaultOf(sig[i])
     ELSE CHOOSE k \in Named(kw, sig[i]) : TRUE]
Bound(sig, args, kw) ==
  [i \in DOMAIN sig |->
     IF i \in DOMAIN args THEN args[i]
     ELSE IF Named(kw, sig[i]) # {} THEN CHOOSE k \in Named(kw, sig[i]) : TRUE
     ELSE DefaultOf(sig[i])]
=============================================================================
