------------------------------ MODULE FileLife ------------------------------
(***************************************************************************)
(* What UploadService promises of a file, whoever calls it: the object     *)
(* comes first, then the document, and only then is the file of use; the   *)
(* document goes first, then the object, and nothing comes back.  "File    *)
(* deleted" is answered with the last of these steps or not at all.        *)
(* Files implements this with calls that overlap, fail and are cut short.  *)
(***************************************************************************)
EXTENDS Naturals

CONSTANT Files

VARIABLES
  life,      \* per file: how far it is
  confirmed  \* per file: how often its deletion was confirmed

Init ==
  /\ life = [f \in Files |-> "none"]
  /\ confirmed = [f \in Files |-> 0]

Moves(f, from, to) == life[f] = from /\ life' = [life EXCEPT ![f] = to]

\* The object is put, the document created, the document deleted.
Arrives(f) == Moves(f, "none", "arriving") /\ UNCHANGED confirmed
BecomesWhole(f) == Moves(f, "arriving", "whole") /\ UNCHANGED confirmed
Leaves(f) == Moves(f, "whole", "leaving") /\ UNCHANGED confirmed

\* The object is deleted; whoever does it may fail to say so.
Goes(f) ==
  /\ Moves(f, "leaving", "gone")
  /\ confirmed' \in {confirmed, [confirmed EXCEPT ![f] = @ + 1]}

Next == \E f \in Files : Arrives(f) \/ BecomesWhole(f) \/ Leaves(f) \/ Goes(f)

Spec == Init /\ [][Next]_<<life, confirmed>>
=============================================================================
