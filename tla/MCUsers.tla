------------------------------ MODULE MCUsers ------------------------------
(* Small instances of Users for TLC. *)
EXTENDS Users, TLC

CONSTANTS u1, u2, n1, n2, n3, n4, basket, h1, h2

TwoUsers == {u1, u2}
FourNames == {n1, n2, n3, n4}
OneSport == {basket}
TwoHttpCalls == {h1, h2}

UserSymmetry == Permutations(TwoUsers) \cup Permutations(FourNames)
                  \cup Permutations(TwoHttpCalls)
=============================================================================
