----------------------------- MODULE MCRetention -----------------------------
EXTENDS Retention, TLC
CONSTANTS f1, f2, sb, s1, pol, new, h1, w1, w2, k1, k2

\* Two flights, the second flown by the member of the holds, and a SimBrief
\* dispatch this member generated for the first.
Kept == f1 :> "flights" @@ f2 :> "flights" @@ sb :> "simbrief"
About == f1 :> Null @@ f2 :> s1 @@ sb :> s1
Hanging == f1 :> Null @@ f2 :> Null @@ sb :> f1
InOrder == <<"flights", "logs">>

Symmetry == Permutations(Workers)
=============================================================================
