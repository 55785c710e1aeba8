---------------------------- MODULE Int32_proofs ----------------------------
(***************************************************************************)
(* Facts about Int32 for every width.                                      *)
(***************************************************************************)
EXTENDS Int32, TLAPS

\* int32(x) fits the width, whatever x is.
LEMMA Int32InRange == \A x \in Int : Int32(x) \in INT
  <1> SUFFICES ASSUME NEW x \in Int PROVE Int32(x) \in INT
    OBVIOUS
  <1> DEFINE n == 2 * HalfRange
             m == (x + HalfRange) % n
  <1>1. n \in Nat \ {0}
    BY HalfRangeAssumption
  <1>2. m \in 0 .. n - 1
    <2> HIDE DEF n
    <2> QED BY <1>1, HalfRangeAssumption
  <1> QED BY <1>1, <1>2, HalfRangeAssumption DEF Int32, INT

\* Zero, the default of the INTEGER columns, fits.
LEMMA ZeroInRange == 0 \in INT
  BY HalfRangeAssumption DEF INT
=============================================================================
