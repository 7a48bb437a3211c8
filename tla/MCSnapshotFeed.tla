--------------------------- MODULE MCSnapshotFeed ---------------------------
(* Instances of SnapshotFeed for TLC.                                      *)
EXTENDS SnapshotFeed, TLC

CONSTANTS c1, c2, c3

TwoClients == {c1, c2}
ThreeClients == {c1, c2, c3}

\* Handlers are interchangeable; used by the run without liveness only.
ClientSymmetry == Permutations(ThreeClients)

=============================================================================
