---------------------------- MODULE SnapshotGraph ----------------------------
(***************************************************************************)
(* The shared context graph of one repository on the server: immutable     *)
(* snapshots with natural parents, the graft overlay, the branch and tag   *)
(* refs, the lifecycle tags of archived branches, and the pending pointers *)
(* of live captures, with the collection of superseded hook captures.      *)
(*                                                                         *)
(* Every command runs inside PostgresStore.WithinRepository, which holds   *)
(* the repository's graph lock from its first read to its commit, so every *)
(* command is one action.  What is concurrent is the clients: a request    *)
(* carries whatever its sender observed earlier (an expected target, an    *)
(* expected graft sequence, a target that was on the server), and the      *)
(* actions take any such value.  A request the code refuses rolls back and *)
(* is a stuttering step.                                                   *)
(***************************************************************************)
EXTENDS Naturals, FiniteSets

CONSTANTS
    Snapshot,       \* snapshot identities (the hash of the document)
    NoSnapshot,     \* the empty hash
    Branch,         \* branch names
    DefaultBranch,  \* the repository's default branch
    Tag,            \* ordinary tag names
    Session,        \* session identities of pending pointers
    Activity,       \* activity times a client may report
    NoActivity,     \* a pointer without an activity time
    HookCapture,    \* snapshots published with a hook label
    SessionOf,      \* the native session a snapshot was captured from
    Supersedes,     \* <<new, old>>: new holds the complete event prefix of old
    MaxGraftSeq,    \* domain.MaxGraftSeq
    Annotated,      \* bound: snapshots that may be marked or promoted
    MaxBatch,       \* bound: snapshots published by one commit
    MaxRecorded     \* bound: distinct targets of recorded lifecycle events

ASSUME IdentityAssumption ==
    /\ NoSnapshot \notin Snapshot
    /\ DefaultBranch \in Branch
    /\ HookCapture \subseteq Snapshot
    /\ Annotated \subseteq Snapshot

ASSUME ActivityAssumption == Activity \subseteq Nat /\ NoActivity \notin Activity

\* Holding another document's event prefix is transitive.
ASSUME PrefixAssumption ==
    /\ Supersedes \subseteq Snapshot \X Snapshot
    /\ \A x, y, z \in Snapshot :
          <<x, y>> \in Supersedes /\ <<y, z>> \in Supersedes => <<x, z>> \in Supersedes

ASSUME SequenceAssumption == MaxGraftSeq \in Nat

VARIABLES
    snapshots,  \* the stored snapshots
    parents,    \* natural parents, fixed by the publisher
    grafts,     \* overlay parents, owned by the server
    graftSeq,   \* version of each snapshot's overlay
    refs,       \* branch refs
    tags,       \* ordinary tag refs
    lifecycle,  \* targets of the branch lifecycle tags
    archived,   \* branches whose latest lifecycle event is an archive
    protect,    \* the ProtectDefault setting
    pending,    \* pending pointers
    memory,     \* snapshots with an attached memory digest
    archives,   \* snapshots named by a session archive record
    promoted,   \* hook captures whose label became a commit message
    captured    \* history: every snapshot ever stored

graph == <<snapshots, parents, grafts, graftSeq>>
roots == <<refs, tags, lifecycle, archived>>
marks == <<memory, archives, promoted>>
vars == <<graph, roots, protect, pending, marks, captured>>

Target == Snapshot \cup {NoSnapshot}
Pending == [target : Target, activity : Activity \cup {NoActivity}, dismissed : BOOLEAN]
NoPending == [target |-> NoSnapshot, activity |-> NoActivity, dismissed |-> FALSE]

TypeOK ==
    /\ snapshots \subseteq Snapshot
    /\ parents \in [Snapshot -> SUBSET Snapshot]
    /\ grafts \in [Snapshot -> SUBSET Snapshot]
    /\ graftSeq \in [Snapshot -> 0 .. MaxGraftSeq]
    /\ refs \in [Branch -> Target]
    /\ tags \in [Tag -> Target]
    /\ lifecycle \subseteq Snapshot
    /\ archived \subseteq Branch
    /\ protect \in BOOLEAN
    /\ pending \in [Session -> Pending]
    /\ memory \subseteq Snapshot
    /\ archives \subseteq Snapshot
    /\ promoted \subseteq Snapshot
    /\ captured \subseteq Snapshot

Init ==
    /\ snapshots = {}
    /\ parents = [s \in Snapshot |-> {}]
    /\ grafts = [s \in Snapshot |-> {}]
    /\ graftSeq = [s \in Snapshot |-> 0]
    /\ refs = [b \in Branch |-> NoSnapshot]
    /\ tags = [g \in Tag |-> NoSnapshot]
    /\ lifecycle = {}
    /\ archived = {}
    /\ protect \in BOOLEAN
    /\ pending = [p \in Session |-> NoPending]
    /\ memory = {}
    /\ archives = {}
    /\ promoted = {}
    /\ captured = {}

----------------------------------------------------------------------------
(***************************************************************************)
(* Reachability.  The code walks the graph with a stack and a seen set;    *)
(* what the walk collects is the least set that holds the roots and, with  *)
(* a snapshot, its parents.                                                *)
(***************************************************************************)

ReachabilityParents(p, g) == [s \in Snapshot |-> p[s] \cup g[s]]

Edges == ReachabilityParents(parents, grafts)

\* The sets a walk from R cannot leave.
ClosedSets(edge, R) ==
    {S \in SUBSET Snapshot : R \subseteq S /\ \A s \in S : edge[s] \subseteq S}

Ancestors(edge, R) ==
    LET closed == ClosedSets(edge, R)
    IN  {y \in Snapshot : \A S \in closed : y \in S}

\* Repeatedly removing the snapshots without a parent left removes them all:
\* no set of snapshots is without a member whose parents are all outside it.
Acyclic(edge) ==
    \A S \in (SUBSET Snapshot) \ {{}} : {s \in S : edge[s] \cap S = {}} # {}

Present(t) == IF t = NoSnapshot THEN {} ELSE {t}

BranchTargets(r) == UNION {Present(r[b]) : b \in Branch}
TagTargets == UNION {Present(tags[g]) : g \in Tag}

\* Roots of the shared timeline.
SharedRoots(r, l) == BranchTargets(r) \cup l

Shared == Ancestors(Edges, SharedRoots(refs, lifecycle))

----------------------------------------------------------------------------
(***************************************************************************)
(* Publishing objects.                                                     *)
(***************************************************************************)

Published(old, p) == [s \in Snapshot |-> IF s \in DOMAIN p THEN p[s] ELSE old[s]]

\* Every parent is stored or in the batch, and the result has no cycle.
ValidateSnapshotGraphUpdate(p) ==
    /\ \A s \in DOMAIN p : p[s] \subseteq snapshots \cup DOMAIN p
    /\ Acyclic(ReachabilityParents(Published(parents, p), grafts))

\* Commit of a batch of new snapshots with their natural parents.
Commit(p) ==
    /\ ValidateSnapshotGraphUpdate(p)
    /\ snapshots' = snapshots \cup DOMAIN p
    /\ parents' = Published(parents, p)
    /\ captured' = captured \cup DOMAIN p
    /\ UNCHANGED <<grafts, graftSeq, roots, protect, pending, marks>>

SequenceLeft(s) == graftSeq[s] < MaxGraftSeq

\* Mutant: only a snapshot that is its own parent counts as a cycle.
NoSelfParent(g) == \A s \in Snapshot : s \notin g[s]

EnsureNoReachabilityCycle(g) == Acyclic(ReachabilityParents(parents, g))

\* A delayed client event that adds overlay parents to a snapshot.  It applies
\* once, at the sequence its sender observed.  A repetition is acknowledged.
GraftSnapshotParents(s, add, expected) ==
    LET fresh == add \ (parents[s] \cup grafts[s] \cup {s})
        grown == [grafts EXCEPT ![s] = @ \cup fresh]
    IN  /\ s \in snapshots
        /\ add # {} /\ add \subseteq snapshots \ {s}
        /\ graftSeq[s] = expected
        /\ SequenceLeft(s)
        /\ fresh # {} => EnsureNoReachabilityCycle(grown)
        /\ grafts' = grown
        /\ graftSeq' = [graftSeq EXCEPT ![s] = @ + 1]
        /\ UNCHANGED <<snapshots, parents, roots, protect, pending, marks, captured>>

----------------------------------------------------------------------------
(***************************************************************************)
(* Moving refs.                                                            *)
(***************************************************************************)

IsAncestor(a, d) == a \in Ancestors(Edges, {d})

ClassifyRefMove(old, next) ==
    IF old = NoSnapshot THEN "fast-forward"
    ELSE IF old = next THEN "up-to-date"
    ELSE IF IsAncestor(old, next) THEN "fast-forward"
    ELSE IF IsAncestor(next, old) THEN "behind"
    ELSE "diverged"

\* Mutant: pointers whose target is itself a ref target, not an ancestor of one.
ReconciledAtTip(edge, r, l) ==
    [p \in Session |-> IF pending[p].target \in SharedRoots(r, l)
                       THEN NoPending ELSE pending[p]]

\* The pending pointers left after those into the shared timeline are resolved.
ReconcileSharedPendingPointers(edge, r, l) ==
    [p \in Session |-> IF pending[p].target \in Ancestors(edge, SharedRoots(r, l))
                       THEN NoPending ELSE pending[p]]

\* The caller's observation still holds, or its move is already applied.
Observed(current, t, expected) == expected = NoSnapshot \/ current \in {expected, t}

\* Mutant: a missing ref may be created whatever its lifecycle.
BranchAlwaysOpen(b) == TRUE

\* CompareAndSwapRef refuses to recreate a branch whose latest event archives it.
BranchOpen(b) == refs[b] = NoSnapshot => b \notin archived

\* The target moves (under the overlay g), and the pending pointers are reconciled in the same transaction.
MoveBranch(b, t, g) ==
    /\ refs' = [refs EXCEPT ![b] = t]
    /\ pending' = ReconcileSharedPendingPointers(ReachabilityParents(parents, g), refs', lifecycle)

\* UpdateRef of a branch that already has the requested target.
RefUpToDate(b) ==
    /\ refs[b] # NoSnapshot
    /\ pending' = ReconcileSharedPendingPointers(Edges, refs, lifecycle)
    /\ UNCHANGED <<graph, roots, protect, marks, captured>>

\* UpdateRef of a branch without force.
FastForward(b, t, expected) ==
    /\ t \in snapshots
    /\ Observed(refs[b], t, expected)
    /\ ClassifyRefMove(refs[b], t) = "fast-forward"
    /\ BranchOpen(b)
    /\ MoveBranch(b, t, grafts)
    /\ UNCHANGED <<graph, tags, lifecycle, archived, protect, marks, captured>>

ForceAllowed(b) == ~(protect /\ b = DefaultBranch)

\* UpdateRef of a branch with force: no ancestry check, the same observation check.
ForceRef(b, t, expected) ==
    /\ t \in snapshots
    /\ Observed(refs[b], t, expected)
    /\ ForceAllowed(b)
    /\ refs[b] # t
    /\ BranchOpen(b)
    /\ MoveBranch(b, t, grafts)
    /\ UNCHANGED <<graph, tags, lifecycle, archived, protect, marks, captured>>

\* The incoming snapshots whose natural history starts there or enters shared history.
AppendBoundary(old, next) ==
    LET shared == Ancestors(Edges, {old})
        incoming == Ancestors(Edges, {next})
    IN  {s \in incoming \ shared : parents[s] = {} \/ parents[s] \cap shared # {}}

AppendedGrafts(old, B) ==
    [s \in Snapshot |-> IF s \in B THEN (grafts[s] \cup {old}) \ (parents[s] \cup {s})
                                   ELSE grafts[s]]

\* UpdateRef of a diverged branch with append: the incoming segment is grafted
\* onto the current tip and the branch moves to its head.
AppendRef(b, t, expected) ==
    LET boundary == AppendBoundary(refs[b], t)
    IN  /\ t \in snapshots
        /\ Observed(refs[b], t, expected)
        /\ ClassifyRefMove(refs[b], t) = "diverged"
        /\ boundary # {}
        /\ \A s \in boundary : SequenceLeft(s)
        /\ EnsureNoReachabilityCycle(AppendedGrafts(refs[b], boundary))
        /\ grafts' = AppendedGrafts(refs[b], boundary)
        /\ graftSeq' = [s \in Snapshot |-> IF s \in boundary THEN graftSeq[s] + 1 ELSE graftSeq[s]]
        /\ MoveBranch(b, t, AppendedGrafts(refs[b], boundary))
        /\ UNCHANGED <<snapshots, parents, tags, lifecycle, archived, protect, marks, captured>>

\* Fork: a new branch at a stored snapshot.  Pending pointers are left alone.
Fork(b, t) ==
    /\ t \in snapshots
    /\ refs[b] = NoSnapshot
    /\ BranchOpen(b)
    /\ refs' = [refs EXCEPT ![b] = t]
    /\ UNCHANGED <<graph, tags, lifecycle, archived, protect, pending, marks, captured>>

\* UpdateRef of a tag: created once, moved only by force.
UpdateTag(g, t, expected, force) ==
    /\ t \in snapshots
    /\ Observed(tags[g], t, expected)
    /\ force \/ tags[g] = NoSnapshot
    /\ tags' = [tags EXCEPT ![g] = t]
    /\ UNCHANGED <<graph, refs, lifecycle, archived, protect, pending, marks, captured>>

----------------------------------------------------------------------------
(***************************************************************************)
(* Branch lifecycle events, which are immutable tags.  Whether an event is *)
(* the newest of its branch depends on its generation, which this module   *)
(* leaves open.                                                            *)
(***************************************************************************)

LifecycleRecorded(targets) ==
    /\ Cardinality(lifecycle \cup targets) <= MaxRecorded
    /\ lifecycle' = lifecycle \cup targets
    /\ pending' = ReconcileSharedPendingPointers(Edges, refs', lifecycle')
    /\ UNCHANGED <<graph, tags, protect, marks, captured>>

\* An event older than the newest of its branch is recorded and changes nothing else.
RecordStaleEvent(b, t) ==
    /\ t \in snapshots
    /\ UNCHANGED <<refs, archived>>
    /\ LifecycleRecorded({t})

\* The newest event reopens the branch name.
ActivateBranch(b, t) ==
    /\ t \in snapshots
    /\ archived' = archived \ {b}
    /\ UNCHANGED refs
    /\ LifecycleRecorded({t})

\* Mutant: the event archives whatever the branch has become.
ArchivesAnything(b, t) == TRUE

\* The archive hides only the exact target it observed.
Archives(b, t) == refs[b] \in {NoSnapshot, t}

\* The newest event archives the branch, or, when the branch has moved since
\* the client looked, is answered by an active event for the current target.
ArchiveBranch(b, t) ==
    /\ t \in snapshots
    /\ ~(protect /\ b = DefaultBranch)
    /\ \/ /\ Archives(b, t)
          /\ refs' = [refs EXCEPT ![b] = NoSnapshot]
          /\ archived' = archived \cup {b}
          /\ LifecycleRecorded({t})
       \/ /\ ~Archives(b, t)
          /\ UNCHANGED <<refs, archived>>
          /\ LifecycleRecorded({t, refs[b]})

UpdateProtection(on) ==
    /\ protect' = on
    /\ UNCHANGED <<graph, roots, pending, marks, captured>>

----------------------------------------------------------------------------
(***************************************************************************)
(* Pending pointers and the collection of superseded hook captures.        *)
(***************************************************************************)

AllRoots == SharedRoots(refs, lifecycle) \cup TagTargets

\* Mutant: only ref and pending targets are kept, not the parents of a snapshot.
CollectableIfNotTarget(old, new, pd) ==
    /\ old \in (snapshots \cap HookCapture) \ promoted
    /\ new # old
    /\ \A a \in archives : SessionOf[a] # SessionOf[old]
    /\ old \notin memory \cup AllRoots
    /\ \A p \in Session : pd[p].target # old
    /\ <<new, old>> \in Supersedes

\* Mutant: replacing the pointer is taken as proof that the capture is superseded.
CollectableOnReplace(old, new, pd) ==
    /\ old \in (snapshots \cap HookCapture) \ promoted
    /\ new # old
    /\ \A a \in archives : SessionOf[a] # SessionOf[old]
    /\ old \notin memory
    /\ SessionOf[new] = SessionOf[old]
    /\ \A s \in snapshots : old \notin Edges[s]
    /\ old \notin Ancestors(Edges, AllRoots)
    /\ \A p \in Session : pd[p].target # old

\* Mutant: the pending pointers of other sessions are not consulted.
CollectableIfUnpinned(old, new, pd) ==
    /\ old \in (snapshots \cap HookCapture) \ promoted
    /\ new # old
    /\ \A a \in archives : SessionOf[a] # SessionOf[old]
    /\ old \notin memory
    /\ SessionOf[new] = SessionOf[old]
    /\ \A s \in snapshots : old \notin Edges[s]
    /\ old \notin Ancestors(Edges, AllRoots)
    /\ <<new, old>> \in Supersedes

\* gcHookLeaf: an unreferenced hook capture that its verified successor contains.
Collectable(old, new, pd) ==
    /\ old \in (snapshots \cap HookCapture) \ promoted
    /\ new # old
    /\ \A a \in archives : SessionOf[a] # SessionOf[old]
    /\ old \notin memory
    /\ SessionOf[new] = SessionOf[old]
    /\ \A s \in snapshots : old \notin Edges[s]
    /\ old \notin Ancestors(Edges, AllRoots)
    /\ \A p \in Session : pd[p].target # old
    /\ <<new, old>> \in Supersedes

DeleteSnapshot(old) ==
    /\ snapshots' = snapshots \ {old}
    /\ parents' = [parents EXCEPT ![old] = {}]
    /\ grafts' = [grafts EXCEPT ![old] = {}]
    /\ graftSeq' = [graftSeq EXCEPT ![old] = 0]

\* A late upload of an older observation does not replace a newer one.
NotOlder(current, activity) ==
    current.activity # NoActivity /\ activity # NoActivity => activity >= current.activity

\* ReplacePending keeps a dismissal.
Replaced(current, t, activity, hidden) ==
    [target |-> t, activity |-> activity, dismissed |-> current.dismissed \/ hidden]

PutPending(p, t, activity, hidden) ==
    LET old == pending[p].target
    IN  /\ t \in snapshots
        /\ NotOlder(pending[p], activity)
        /\ pending' = [pending EXCEPT ![p] = Replaced(@, t, activity, hidden)]
        /\ \/ Collectable(old, t, pending') /\ DeleteSnapshot(old)
           \/ ~Collectable(old, t, pending') /\ UNCHANGED graph
        /\ UNCHANGED <<roots, protect, marks, captured>>

\* DeletePending, and CompareAndDeletePending by a client that observed the
\* current target.  Neither names a successor, so nothing is collected.
DeletePending(p) ==
    /\ pending' = [pending EXCEPT ![p] = NoPending]
    /\ UNCHANGED <<graph, roots, protect, marks, captured>>

SetPendingDismissed(p, on) ==
    /\ pending[p].target # NoSnapshot
    /\ pending' = [pending EXCEPT ![p] = [target |-> @.target, activity |-> @.activity, dismissed |-> on]]
    /\ UNCHANGED <<graph, roots, protect, marks, captured>>

PutMemoryDigest(s) ==
    /\ s \in snapshots
    /\ memory' = memory \cup {s}
    /\ UNCHANGED <<graph, roots, protect, pending, archives, promoted, captured>>

SetSessionArchived(s, on) ==
    /\ s \in snapshots
    /\ IF on THEN /\ \A a \in archives : SessionOf[a] # SessionOf[s]
                  /\ archives' = archives \cup {s}
             ELSE archives' = {a \in archives : SessionOf[a] # SessionOf[s]}
    /\ UNCHANGED <<graph, roots, protect, pending, memory, promoted, captured>>

\* A hook label becomes a commit message, once and one way.
UpdateSnapshotMessage(s) ==
    /\ s \in snapshots \cap HookCapture
    /\ promoted' = promoted \cup {s}
    /\ UNCHANGED <<graph, roots, protect, pending, memory, archives, captured>>

----------------------------------------------------------------------------
CommitObjects ==
    \E new \in SUBSET (Snapshot \ snapshots) :
        /\ new # {} /\ Cardinality(new) <= MaxBatch
        /\ \E p \in [new -> SUBSET Snapshot] : Commit(p)

GraftParents ==
    \E s \in Snapshot, add \in SUBSET Snapshot, expected \in 0 .. MaxGraftSeq :
        GraftSnapshotParents(s, add, expected)

UpdateRef ==
    \E b \in Branch : \/ RefUpToDate(b)
                      \/ \E t \in Snapshot, expected \in Target :
                            \/ FastForward(b, t, expected)
                            \/ ForceRef(b, t, expected)
                            \/ AppendRef(b, t, expected)

TagRef ==
    \E g \in Tag, t \in Snapshot, expected \in Target, force \in BOOLEAN :
        UpdateTag(g, t, expected, force)

BranchLifecycle ==
    \E b \in Branch, t \in Snapshot :
        Fork(b, t) \/ RecordStaleEvent(b, t) \/ ActivateBranch(b, t) \/ ArchiveBranch(b, t)

PendingPointers ==
    \E p \in Session : \/ \E t \in Snapshot, a \in Activity \cup {NoActivity}, hidden \in BOOLEAN :
                             PutPending(p, t, a, hidden)
                       \/ DeletePending(p)
                       \/ \E on \in BOOLEAN : SetPendingDismissed(p, on)

Annotations ==
    \E s \in Annotated : \/ PutMemoryDigest(s)
                          \/ \E on \in BOOLEAN : SetSessionArchived(s, on)
                          \/ UpdateSnapshotMessage(s)

Next ==
    \/ CommitObjects
    \/ GraftParents
    \/ UpdateRef
    \/ TagRef
    \/ BranchLifecycle
    \/ \E on \in BOOLEAN : UpdateProtection(on)
    \/ PendingPointers
    \/ Annotations

Spec == Init /\ [][Next]_vars

----------------------------------------------------------------------------
(***************************************************************************)
(* Properties.                                                             *)
(***************************************************************************)

\* Every parent of a stored snapshot is stored: no commit, graft, append or
\* collection of a hook capture leaves an edge to a snapshot that is gone.
NoDanglingParent == \A s \in snapshots : Edges[s] \subseteq snapshots

\* Natural and overlay parents together never form a cycle, whatever order
\* commits, grafts, appends and collections come in.
AcyclicHistory == Acyclic(Edges)

\* Every ref, lifecycle tag, pending pointer, memory digest, archive record and
\* promoted message belongs to a stored snapshot: gcHookLeaf deletes nothing
\* that is still named.
PointersResolve ==
    /\ AllRoots \subseteq snapshots
    /\ \A p \in Session : pending[p].target \in snapshots \cup {NoSnapshot}
    /\ memory \cup archives \cup promoted \subseteq snapshots

\* No captured event is lost: a snapshot that was ever stored is still stored,
\* or a stored one holds its complete event prefix, however many collections
\* the pointer went through and in whatever order uploads arrived.
CapturesKept ==
    \A c \in captured : c \in snapshots \/ \E s \in snapshots : <<s, c>> \in Supersedes

\* A branch whose latest lifecycle event is an archive has no ref.
ArchivedIsGone == \A b \in archived : refs[b] = NoSnapshot

Forced == \E b \in Branch, t \in Snapshot, expected \in Target : ForceRef(b, t, expected)

\* Nothing leaves the shared timeline except by a forced move of a branch:
\* appends, archives, reopened branches, grafts and collections of captures
\* keep every snapshot that was reachable from a branch or lifecycle tag.
SharedHistoryKept == [][Shared \subseteq Shared' \/ Forced]_vars

\* While the default branch is protected, whatever any client does, its tip
\* stays in its history and the branch keeps a tip.
ProtectedTipKept ==
    [][protect /\ refs[DefaultBranch] # NoSnapshot =>
          /\ refs'[DefaultBranch] # NoSnapshot
          /\ refs[DefaultBranch] \in Ancestors(Edges', {refs'[DefaultBranch]})]_vars

\* When a branch moves or is archived, the same transaction resolves every
\* pending pointer into the shared timeline, through natural and graft parents.
SharedPendingResolved ==
    [][(\E b \in Branch : refs[b] # NoSnapshot /\ refs'[b] # refs[b])
          => \A p \in Session : pending'[p].target \notin Shared']_vars

============================================================================
