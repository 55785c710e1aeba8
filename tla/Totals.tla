------------------------------- MODULE Totals -------------------------------
(***************************************************************************)
(* The sum of the values of an integer function, obtained by counting: a   *)
(* value n > 0 is n units, a value -n is n units on the other side.  No    *)
(* recursion is needed, so that facts about sums follow from facts about   *)
(* cardinalities (Totals_proofs).                                          *)
(***************************************************************************)
EXTENDS Integers, FiniteSets

Units(f) == UNION {{x} \X (1 .. f[x]) : x \in DOMAIN f}

Negated(f) == [x \in DOMAIN f |-> -f[x]]

Total(f) == Cardinality(Units(f)) - Cardinality(Units(Negated(f)))
=============================================================================
