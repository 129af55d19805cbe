----------------------------- MODULE MCPresence -----------------------------
(* Small instances of Presence for TLC. *)
EXTENDS Presence, TLC

CONSTANTS alice, bob, s1, s2, s3, chat, user, upload

Alice == {alice}
AliceAndBob == {alice, bob}
TwoSockets == {s1, s2}
ThreeSockets == {s1, s2, s3}
ChatAndUser == {chat, user}
AllGateways == {chat, user, upload}

SocketSymmetry == Permutations(ThreeSockets) \cup Permutations(AliceAndBob)
=============================================================================
