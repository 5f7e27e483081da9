------------------------- MODULE MCSessionAffinity -------------------------
(* One conversation: its first turn and the later ones.                    *)
EXTENDS SessionAffinity, TLC

CONSTANTS a1, a2, first, second, p1, p2
MCFallback == [k \in Keys |-> IF k = first THEN NoKey ELSE first]

Symmetry == Permutations({a1, a2}) \cup Permutations({p1, p2})
=============================================================================
