--------------------------- MODULE MCSnapshotGraph ---------------------------
(***************************************************************************)
(* Instances of SnapshotGraph for TLC.                                     *)
(***************************************************************************)
EXTENDS SnapshotGraph, TLC

\* Every capture comes from one native session.
OneSession == [s \in Snapshot |-> "native"]

\* No capture holds another's events.
NoPrefix == {}

\* Three captures of one growing conversation, each holding the ones before it.
Captures == 1 .. 3
EarlierCaptures == {1, 2}
Growing == {x \in Captures \X Captures : x[1] > x[2]}

\* Snapshots without marks are interchangeable.
SnapshotSymmetry == Permutations(Snapshot)

\* So are the sessions.
SessionSymmetry == Permutations(Session)

============================================================================
