---------------------------- MODULE MCPhoneSignIn ----------------------------
(* Small instances of PhoneSignIn for TLC. *)
EXTENDS PhoneSignIn, TLC

CONSTANTS c1, c2, c3, v1, v2, v3, f1, p1

\* Customers from before phone sign-in who typed the number.
NoneOrOne == {<< >>, << p1 >>}
Nobody == {<< >>}
Two == {<< p1, p1 >>}

\* The requests of a kind are interchangeable.
SignInSymmetry == Permutations(Asks) \cup Permutations(Checks)
==============================================================================
