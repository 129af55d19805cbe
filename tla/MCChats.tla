------------------------------ MODULE MCChats ------------------------------
(* A small instance of Chats for TLC. *)
EXTENDS Chats

CONSTANTS m1, m2, m3, h1

ThreeMessages == {m1, m2, m3}
OneHttpCall == {h1}
=============================================================================
