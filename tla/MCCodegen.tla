------------------------------ MODULE MCCodegen ------------------------------
(* The statements of which small functions are made. *)
EXTENDS Codegen

x == Name("x")
y == Name("y")
i == Name("i")
One == Const(1)
Two == Const(2)

AllInputs == {[x |-> 0, y |-> 0], [x |-> 0, y |-> 2], [x |-> 2, y |-> 1], [x |-> 1, y |-> 3]}

\* Values computed anew, in loops and branches, one inside the other.
Sums == {Assign("x", Add(x, One)), Assign("x", Add(x, y)), Assign("y", Add(x, Two)),
         Assign("y", IfExp(Lt(x, Two), Add(x, y), One)), Assign("z", Add(y, One))}
InnerFor == For("i", Const(2), <<Assign("x", Add(x, Name("i"))), Assign("y", Add(y, One))>>)
InnerIf == If(Lt(x, Two), <<Assign("x", Add(x, One))>>, <<Assign("y", Add(y, x))>>)
Bodies == {<<a>> : a \in Sums} \cup {<<a, b>> : a, b \in Sums} \cup {<<InnerIf>>, <<InnerFor>>, <<InnerIf, InnerFor>>}
Branches ==
  {If(Lt(x, y), b, <<Assign("y", Add(y, One))>>) : b \in Bodies}
  \cup {If(Lt(y, Two), b, <<>>) : b \in Bodies}
  \cup {If(Lt(y, x), <<Assign("x", y)>>, <<Assign2("x", "y", y, x)>>), If(One, <<Assign("y", Add(x, One))>>, <<>>)}
Loops ==
  {For("i", y, b) : b \in Bodies} \cup {For("i", Const(2), b) : b \in Bodies}
  \cup {StaticFor("k", 2, <<Assign("x", Add(x, Name("k")))>>),
        For("x", Const(2), <<Assign("y", Add(x, y))>>),
        While(Lt(x, Const(0)), <<Assign("x", Add(x, One))>>)}
FreshStatements == Sums \cup Branches \cup Loops

\* A counting loop, as in the list of supported syntax.
WhileStatements == {While(Lt(x, y), <<Assign("x", Add(x, One))>>)}

\* A loop that hands one name's value to another.
CopyStatements == {For("i", Two, <<Assign2("x", "y", y, Add(x, y))>>)}

\* A branch that changes a name which was a constant.
ConstantStatements == {Assign("z", Const(0)), If(Lt(x, y), <<Assign("z", One)>>, <<>>)}

=============================================================================
