----------------------------- MODULE MCContents -----------------------------
(* Small instances of Contents for TLC. *)
EXTENDS Contents, TLC

CONSTANTS f1, f2, h1, h2, m1, m2

OneFile == {f1}
TwoFiles == {f1, f2}
OneHttpCall == {h1}
TwoHttpCalls == {h1, h2}
OneMessage == {m1}
TwoMessages == {m1, m2}

ContentsSymmetry ==
  Permutations(TwoFiles) \cup Permutations(TwoHttpCalls) \cup Permutations(TwoMessages)

\* The histories of Files that no action and no property of Contents reads.
WithoutHistory ==
  <<docs, objects, call, kafka, purged, cut, lost, faults, crashes, chatVars, abandoned>>
=============================================================================
