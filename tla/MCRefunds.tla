------------------------------ MODULE MCRefunds ------------------------------
(* Small instances of Refunds for TLC. *)
EXTENDS Refunds, TLC

CONSTANTS a1, a2, a3, d1, w1, w2, k1

\* Whatever the key, every amount; or a part with a key and all of it without.
AnyAmount == [k \in Keys \cup {None} |-> 1 .. Paid]
PartWithKey == [k \in Keys \cup {None} |-> IF k = None THEN {Paid} ELSE {1}]

\* Rows and workers are interchangeable.
RefundSymmetry == Permutations(Attempts) \cup Permutations(Workers)
===============================================================================
