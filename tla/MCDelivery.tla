----------------------------- MODULE MCDelivery -----------------------------
(* Small instances of Delivery for TLC. *)
EXTENDS Delivery, TLC

CONSTANTS alice, bob, s1, s2, chat, user, m1, m2, m3

Bob == {bob}
AliceAndBob == {alice, bob}
OneSocket == {s1}
TwoSockets == {s1, s2}
ChatOnly == {chat}
ChatAndUser == {chat, user}
OneMessage == {m1}
TwoMessages == {m1, m2}
ThreeMessages == {m1, m2, m3}

\* The histories of Presence: no action and no property of Delivery reads them.
WithoutHistory == <<readyState, owner, stage, usersOnline, deliveryVars>>

MessageSymmetry == Permutations(ThreeMessages)
SocketAndMessageSymmetry == Permutations(TwoSockets) \cup Permutations(TwoMessages)

=============================================================================
