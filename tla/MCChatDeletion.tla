--------------------------- MODULE MCChatDeletion ---------------------------
(* A small instance of ChatDeletion for TLC. *)
EXTENDS ChatDeletion

CONSTANTS m1, m2, m3

ThreeMessages == {m1, m2, m3}
=============================================================================
