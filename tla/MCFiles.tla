------------------------------ MODULE MCFiles ------------------------------
(* Small instances of Files for TLC. *)
EXTENDS Files

CONSTANTS f1, f2, h1, alice

TwoFiles == {f1, f2}
OneHttpCall == {h1}
OneUser == {alice}
=============================================================================
