------------------------------ MODULE MCServer ------------------------------
(***************************************************************************)
(* The requests of an instance are alike.  SYMMETRY uses that for safety;  *)
(* where liveness is checked too, an action constraint does: it is enough  *)
(* that the requests carry their payloads in order, since every behaviour  *)
(* is one of these with the requests renamed.                              *)
(***************************************************************************)
EXTENDS Server, Sequences, TLC

Symmetry == Permutations(Request)

LOCAL Numbering ==
    CHOOSE number \in [Request -> 1 .. Cardinality(Request)] :
        \A q, r \in Request : number[q] = number[r] => q = r

\* payloads is a sequence of all the payloads, each once.
CarryInOrder(payloads) ==
    LET Delivered == {r \in Request : \E i \in DOMAIN payloads : payloads[i] = ev'[r]}
        Place(r) == CHOOSE i \in DOMAIN payloads : payloads[i] = ev'[r]
    IN  \A q, r \in Delivered : Numbering[q] < Numbering[r] => Place(q) <= Place(r)
=============================================================================
