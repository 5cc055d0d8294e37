--------------------------- MODULE MCSessionPool ---------------------------
EXTENDS SessionPool, TLC

Symmetry == Permutations(Users) \cup Permutations(Conns)

\* Survivors names exactly one sequence, the one a filter computes.
ASSUME SurvivorsAssumption ==
  \A n \in 0..3 : \A s \in [1..n -> 1..3] : \A ok \in SUBSET (1..3) :
    Survivors(s, ok) = {SelectSeq(s, LAMBDA c : c \in ok)}
=============================================================================
