----------------------------- MODULE MCDisplacement -----------------------------
EXTENDS Displacement, TLC
CONSTANTS w1, m1, m2, m3, m4
Ephemeral == w1 :> "ephemeral"
OneBig == 1 :> 2 @@ 2 :> 1 @@ 3 :> 1
EveryKind == m1 :> "reservation" @@ m2 :> "displacement" @@ m3 :> "displacement" @@ m4 :> "operator"
Claims == m1 :> "staging" @@ m2 :> "staging" @@ m3 :> "ephemeral" @@ m4 :> "ephemeral"
Singles == {{m} : m \in Movers}
Needs == m1 :> 2 @@ m2 :> 2 @@ m3 :> 2 @@ m4 :> 0
================================================================================
