------------------------------ MODULE Mailbox ------------------------------
(***************************************************************************)
(* What the delivery of chat messages promises a chatter.  A notification  *)
(* the service has decided on is shown, missed or waits.  One that waits   *)
(* is given up only once it was shown or missed; it is decided on once,    *)
(* and comes back only because Kafka has handed a record over again.       *)
(* Delivery implements this with the registry, Kafka and the queue.        *)
(***************************************************************************)
EXTENDS Naturals

VARIABLES
  promised,  \* notifications decided on
  waiting,   \* those on their way or queued
  shown,     \* those written to an open socket
  missed,    \* those sent to no open socket, or lost with an emit
  again      \* those a record of which has come again

notes == <<promised, waiting, shown, missed>>

Init ==
  /\ promised = {} /\ waiting = {} /\ shown = {} /\ missed = {}
  /\ again = {}

Grow == shown \subseteq shown' /\ missed \subseteq missed'

\* What was decided on before stays as it is, and comes again no more than it did.
Untouched ==
  LET once == promised \ again
  IN  /\ once \cap waiting' \subseteq waiting
      /\ once \cap shown' \subseteq shown
      /\ once \cap missed' \subseteq missed
      /\ promised \cap again' = again

\* Each new notification is dealt with; an earlier one is repeated only if a record
\* of it has come again.
Decide ==
  /\ promised' = promised \cup waiting' \cup shown' \cup missed'
  /\ waiting \subseteq waiting' /\ Grow
  /\ Untouched

\* The notifications of a user who connects are shown or missed, and stay.
Attempt ==
  /\ Grow /\ shown' \cup missed' \subseteq promised
  /\ UNCHANGED <<promised, waiting, again>>

\* Notifications no longer wait.
Leave ==
  /\ waiting' \subseteq waiting /\ waiting \ waiting' \subseteq shown \cup missed
  /\ UNCHANGED <<promised, shown, missed, again>>

\* What waits may be lost on its way, and some may wait again.
Disturb ==
  /\ missed \subseteq missed' /\ missed' \subseteq missed \cup waiting
  /\ waiting \ waiting' \subseteq missed'
  /\ again \subseteq again' /\ waiting' \subseteq waiting \cup again'
  /\ again' \subseteq promised
  /\ UNCHANGED <<promised, shown>>

Next == Decide \/ Attempt \/ Leave \/ Disturb

Spec == Init /\ [][Next]_<<notes, again>>
=============================================================================
