-------------------------- MODULE MCPendingActivity --------------------------
(***************************************************************************)
(* An instance of PendingActivity for TLC.                                 *)
(***************************************************************************)
EXTENDS PendingActivity

\* Every capture comes from one native session.
OneSession == [s \in Snapshot |-> "native"]

\* No capture holds another's events.
NoPrefix == {}

============================================================================
