------------------------------ MODULE MCInputs ------------------------------
(* An instance of Inputs: graphs of three values and two cells, with every *)
(* way to share a cell and to close a cycle through it.  Arrays are trees: *)
(* a value holds only values after it inline.                              *)
EXTENDS Inputs, FiniteSets, TLC

CONSTANTS v1, v2, v3, c1, c2

MCValue == {v1, v2, v3}
MCCell  == {c1, c2}
Rank    == v1 :> 1 @@ v2 :> 2 @@ v3 :> 3
After(v) == {w \in MCValue : Rank[w] > Rank[v]}

Plain == [kind |-> "Other", parts |-> <<>>, cells |-> <<>>]
Number(signed, bits, value) ==
  Plain @@ [int |-> [signed |-> signed, bits |-> bits, value |-> value]]
OfInt(n)  == [n EXCEPT !.kind = "Int"]
Leaf == {Plain,
         [Plain EXCEPT !.kind = "Field"] @@ [field |-> "ours"],
         [Plain EXCEPT !.kind = "Field"] @@ [field |-> "theirs"]}
        \cup {OfInt(Number(s, b, n)) : s \in BOOLEAN, b \in {0, 1}, n \in {0, 1}}
Holding(v) ==
  {[Plain EXCEPT !.kind = "Array", !.parts = <<p, q>>] : p \in After(v), q \in After(v)}
  \cup {[Plain EXCEPT !.kind = "FmtStr", !.parts = <<p>>] : p \in After(v)}
  \cup {[Plain EXCEPT !.kind = "Tuple", !.cells = <<c1, c2>>]}
  \cup {[Plain EXCEPT !.kind = "Ref", !.cells = <<c>>] : c \in MCCell}

MCNode == {v1 :> a @@ v2 :> b @@ v3 :> c :
             a \in Holding(v1), b \in Leaf \cup Holding(v2), c \in Leaf \cup Holding(v3)}
MCContent == [MCCell -> MCValue]
MCInput ==
  [args : {<<v1>>, <<v1, v2>>}, node : MCNode, content : MCContent, borrowed : {{}, {c2}}]
=============================================================================
