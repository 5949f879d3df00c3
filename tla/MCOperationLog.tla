--------------------------- MODULE MCOperationLog ---------------------------
(* A ledger of two owners that fills up: every entry takes one unit, a     *)
(* response identity takes two.                                            *)
EXTENDS OperationLog, TLC

CONSTANTS o1, o2, i1, i2, i3, s1, s2, r1

MCSettleId == <<s1, s2>>

MCBytes == [k \in Kinds |-> IF k = "identity" THEN 2 ELSE 1]

Symmetry == Permutations(Owners) \cup Permutations(Ids)
=============================================================================
