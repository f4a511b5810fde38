--------------------------- MODULE PendingActivity ---------------------------
(***************************************************************************)
(* The activity time of a pending pointer.  ReplacePending refuses an      *)
(* upload that is older than the stored pointer, but compares with the     *)
(* stored pointer only, and a replacement without an activity time (an old *)
(* client, or a client clock more than five seconds ahead) stores none.    *)
(***************************************************************************)
EXTENDS SnapshotGraph

VARIABLE newest  \* history: the newest activity accepted for the live pointer

Newer(old, activity) == IF activity # NoActivity /\ activity > old THEN activity ELSE old

\* The history starts over when the pointer is resolved.
Observe ==
    newest' = [p \in Session |-> IF pending'[p].target = NoSnapshot THEN 0
                                 ELSE Newer(newest[p], pending'[p].activity)]

ObservedSpec ==
    /\ Init /\ newest = [p \in Session |-> 0]
    /\ [][Next /\ Observe]_<<vars, newest>>

\* "A late upload of an older observed transcript must not rewind a live
\* pointer": the activity of a live pointer is never older than one accepted
\* for it before (ReplacePending).
PointerNotRewound ==
    \A p \in Session : pending[p].activity # NoActivity => pending[p].activity >= newest[p]

============================================================================
