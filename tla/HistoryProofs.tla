---------------------------- MODULE HistoryProofs ----------------------------
(***************************************************************************)
(* Proofs about the history a repository keeps: the snapshot graph with its *)
(* branches, tags and captures (SnapshotGraph), and the jobs that carry the *)
(* merge of a pull request over to it (PRPromotion).                       *)
(***************************************************************************)
EXTENDS SnapshotGraph, PRPromotion, FiniteSetTheorems, TLAPS

-----------------------------------------------------------------------------
(***************************************************************************)
(* Proofs about SnapshotGraph for every set of snapshots, branches, tags   *)
(* and sessions.  No bound and no finiteness of the graph is used.         *)
(***************************************************************************)


EdgeMap == [Snapshot -> SUBSET Snapshot]

----------------------------------------------------------------------------
(***************************************************************************)
(* Reachability.                                                           *)
(***************************************************************************)

\* A walk collects the roots it starts from.
LEMMA RootsReached ==
    ASSUME NEW edge, NEW R \in SUBSET Snapshot
    PROVE  R \subseteq Ancestors(edge, R) /\ Ancestors(edge, R) \subseteq Snapshot
  BY Zenon DEF Ancestors, ClosedSets

\* A walk goes on to the parents of everything it collects.
LEMMA ParentsReached ==
    ASSUME NEW edge \in EdgeMap, NEW R, NEW s \in Ancestors(edge, R)
    PROVE  edge[s] \subseteq Ancestors(edge, R)
  BY Zenon DEF Ancestors, ClosedSets, EdgeMap

\* A walk never leaves a set that holds its roots and is closed under parents.
LEMMA ClosedContains ==
    ASSUME NEW edge, NEW R, NEW S \in SUBSET Snapshot,
           R \subseteq S, \A s \in S : edge[s] \subseteq S
    PROVE  Ancestors(edge, R) \subseteq S
  BY Zenon DEF Ancestors, ClosedSets

\* More edges and roots that reach the old ones: nothing falls out of reach.
LEMMA ReachGrows ==
    ASSUME NEW edge \in EdgeMap, NEW more \in EdgeMap,
           \A s \in Snapshot : edge[s] \subseteq more[s],
           NEW R, NEW Q \in SUBSET Snapshot, R \subseteq Ancestors(more, Q)
    PROVE  Ancestors(edge, R) \subseteq Ancestors(more, Q)
  <1>1. Ancestors(more, Q) \in SUBSET Snapshot
    BY RootsReached, Zenon
  <1>2. \A s \in Ancestors(more, Q) : edge[s] \subseteq Ancestors(more, Q)
    BY <1>1, ParentsReached, Zenon
  <1> QED BY <1>1, <1>2, ClosedContains, Zenon

\* Dropping the edges of a snapshot the walk never meets changes nothing.
LEMMA UnreachedIrrelevant ==
    ASSUME NEW edge \in EdgeMap, NEW less \in EdgeMap, NEW old \in Snapshot,
           \A s \in Snapshot : less[s] \subseteq edge[s],
           \A s \in Snapshot \ {old} : less[s] = edge[s],
           NEW R \in SUBSET Snapshot, old \notin Ancestors(edge, R)
    PROVE  Ancestors(edge, R) \subseteq Ancestors(less, R)
  <1>1. Ancestors(less, R) \in SUBSET Snapshot /\ R \subseteq Ancestors(less, R)
    BY RootsReached, Zenon
  <1>2. R \subseteq Ancestors(edge, R)
    BY RootsReached, Zenon
  <1>3. Ancestors(less, R) \subseteq Ancestors(edge, R)
    BY <1>2, ReachGrows, Zenon
  <1>4. \A s \in Ancestors(less, R) : edge[s] \subseteq Ancestors(less, R)
    <2> TAKE s \in Ancestors(less, R)
    <2>1. less[s] \subseteq Ancestors(less, R)
      BY ParentsReached, Zenon
    <2> QED BY <1>1, <1>3, <2>1, Zenon
  <1> QED BY <1>1, <1>4, ClosedContains, Zenon

\* Without a cycle every set has a member with all its parents outside it.
LEMMA MinimalMember ==
    ASSUME NEW edge, Acyclic(edge), NEW S \in (SUBSET Snapshot) \ {{}}
    PROVE  \E s \in S : edge[s] \cap S = {}
  BY Zenon DEF Acyclic

\* Fewer edges have no more cycles.
LEMMA FewerEdgesAcyclic ==
    ASSUME NEW edge \in EdgeMap, NEW less \in EdgeMap, Acyclic(edge),
           \A s \in Snapshot : less[s] \subseteq edge[s]
    PROVE  Acyclic(less)
  <1> SUFFICES ASSUME NEW S \in (SUBSET Snapshot) \ {{}}
               PROVE  \E s \in S : less[s] \cap S = {}
    BY Zenon DEF Acyclic
  <1>1. PICK s \in S : edge[s] \cap S = {}
    BY MinimalMember, Zenon
  <1> QED BY <1>1, Zenon

\* Present lists a target unless it is the empty hash.
LEMMA BranchTargetsHold ==
    ASSUME NEW r \in [Branch -> Target], NEW x \in Snapshot
    PROVE  x \in BranchTargets(r) <=> \E b \in Branch : r[b] = x
  BY IdentityAssumption, Zenon DEF BranchTargets, Present, Target

\* The targets of branch refs are snapshots.
LEMMA TargetsAreSnapshots ==
    ASSUME NEW r \in [Branch -> Target], NEW l \in SUBSET Snapshot
    PROVE  SharedRoots(r, l) \in SUBSET Snapshot
  BY Zenon DEF SharedRoots, BranchTargets, Present, Target

\* The reachability parents of a snapshot are snapshots.
LEMMA EdgesTyped ==
    ASSUME NEW p \in EdgeMap, NEW g \in EdgeMap
    PROVE  ReachabilityParents(p, g) \in EdgeMap
  BY Zenon DEF ReachabilityParents, EdgeMap

----------------------------------------------------------------------------
(***************************************************************************)
(* The inductive invariant: the checked invariants, and that a snapshot    *)
(* that is not stored (not yet published, or collected) has no edges.      *)
(***************************************************************************)

UnstoredHasNoEdges == \A s \in Snapshot \ snapshots : parents[s] = {} /\ grafts[s] = {}

IInv ==
    /\ TypeOK
    /\ UnstoredHasNoEdges
    /\ NoDanglingParent
    /\ AcyclicHistory
    /\ PointersResolve
    /\ CapturesKept
    /\ ArchivedIsGone

\* Natural and overlay parents are edge maps.
LEMMA GraphTyped ==
    ASSUME TypeOK
    PROVE  parents \in EdgeMap /\ grafts \in EdgeMap /\ Edges \in EdgeMap
  BY EdgesTyped, Zenon DEF TypeOK, EdgeMap, Edges

\* Everything reachable from stored snapshots is stored.
LEMMA ReachedIsStored ==
    ASSUME IInv, NEW R \in SUBSET snapshots
    PROVE  Ancestors(Edges, R) \subseteq snapshots
  BY ClosedContains, Zenon DEF IInv, TypeOK, NoDanglingParent

\* The segment that AppendRef grafts hangs together below the incoming head:
\* from the head, the new edges lead to the branch's previous tip.
LEMMA AppendReachesTip ==
    ASSUME IInv, NEW old \in Snapshot, NEW next \in Snapshot,
           ~IsAncestor(next, old),
           NEW more \in EdgeMap,
           \A s \in Snapshot : Edges[s] \subseteq more[s],
           \A s \in AppendBoundary(old, next) : old \in more[s]
    PROVE  old \in Ancestors(more, {next})
  <1> DEFINE shared == Ancestors(Edges, {old})
             incoming == Ancestors(Edges, {next})
  <1>1. Edges \in EdgeMap /\ Acyclic(Edges)
    BY GraphTyped, Zenon DEF IInv, AcyclicHistory
  <1>2. old \in shared /\ next \in incoming /\ next \notin shared
        /\ shared \subseteq Snapshot /\ incoming \subseteq Snapshot
    <2>1. {old} \in SUBSET Snapshot /\ {next} \in SUBSET Snapshot
      BY Zenon
    <2>2. {old} \subseteq shared /\ shared \subseteq Snapshot
      BY <2>1, RootsReached, Zenon
    <2>3. {next} \subseteq incoming /\ incoming \subseteq Snapshot
      BY <2>1, RootsReached, Zenon
    <2> QED BY <2>2, <2>3, Zenon DEF IsAncestor
  <1>3. \A s \in shared : Edges[s] \subseteq shared
    BY <1>1, ParentsReached, Zenon
  <1>4. \A s \in incoming : Edges[s] \subseteq incoming
    BY <1>1, ParentsReached, Zenon
  <1>5. \A s \in Snapshot : Edges[s] = parents[s] \cup grafts[s]
    BY Zenon DEF Edges, ReachabilityParents
  <1>6. AppendBoundary(old, next)
          = {s \in incoming \ shared : parents[s] = {} \/ parents[s] \cap shared # {}}
    BY Zenon DEF AppendBoundary
  <1> HIDE DEF shared, incoming
  <1> SUFFICES ASSUME NEW S \in ClosedSets(more, {next}), old \notin S
               PROVE  FALSE
    BY Zenon DEF Ancestors
  <1>7. S \subseteq Snapshot /\ next \in S /\ \A s \in S : more[s] \subseteq S
    BY Zenon DEF ClosedSets
  <1> DEFINE T == S \cap (incoming \ shared)
  <1>8. PICK s \in T : Edges[s] \cap T = {}
    <2>1. T \in (SUBSET Snapshot) \ {{}}
      BY <1>2, <1>7, Zenon
    <2> HIDE DEF T
    <2> QED BY <1>1, <2>1, MinimalMember, Zenon
  <1>9. s \notin AppendBoundary(old, next)
    BY <1>7, Zenon
  <1>10. PICK q \in parents[s] : q \notin shared
    BY <1>2, <1>6, <1>8, <1>9, Zenon
  <1>11. q \in Edges[s] /\ q \in incoming /\ q \in S
    BY <1>2, <1>4, <1>5, <1>7, <1>8, <1>10, Zenon
  <1> QED BY <1>8, <1>10, <1>11, Zenon

----------------------------------------------------------------------------
(***************************************************************************)
(* What one step may do, and facts every action's proof uses.              *)
(***************************************************************************)

SharedStep == Shared \subseteq Shared' \/ Forced

TipStep ==
    protect /\ refs[DefaultBranch] # NoSnapshot =>
        /\ refs'[DefaultBranch] # NoSnapshot
        /\ refs[DefaultBranch] \in Ancestors(Edges', {refs'[DefaultBranch]})

ResolvedStep ==
    (\E b \in Branch : refs[b] # NoSnapshot /\ refs'[b] # refs[b])
        => \A p \in Session : pending'[p].target \notin Shared'

StepOK == IInv' /\ SharedStep /\ TipStep /\ ResolvedStep

\* The default branch did not move.
LEMMA TipStays ==
    ASSUME IInv, refs'[DefaultBranch] = refs[DefaultBranch]
    PROVE  TipStep
  <1> SUFFICES ASSUME refs[DefaultBranch] # NoSnapshot
               PROVE  refs[DefaultBranch] \in Ancestors(Edges', {refs[DefaultBranch]})
    BY Zenon DEF TipStep
  <1>1. {refs[DefaultBranch]} \in SUBSET Snapshot
    BY IdentityAssumption, Zenon DEF IInv, TypeOK, Target
  <1> QED BY <1>1, RootsReached, Zenon

\* Edges only grow and every old root is still reached.
LEMMA SharedGrows ==
    ASSUME IInv, TypeOK', \A s \in Snapshot : Edges[s] \subseteq Edges'[s],
           SharedRoots(refs, lifecycle) \subseteq Ancestors(Edges', SharedRoots(refs', lifecycle'))
    PROVE  SharedStep
  <1>1. Edges \in EdgeMap
    BY GraphTyped, Zenon DEF IInv
  <1>2. Edges' \in EdgeMap
    BY EdgesTyped, Zenon DEF TypeOK, EdgeMap, Edges
  <1>3. SharedRoots(refs', lifecycle') \in SUBSET Snapshot
    BY TargetsAreSnapshots, Zenon DEF TypeOK
  <1>4. Ancestors(Edges, SharedRoots(refs, lifecycle))
          \subseteq Ancestors(Edges', SharedRoots(refs', lifecycle'))
    BY <1>1, <1>2, <1>3, ReachGrows, Zenon
  <1> QED BY <1>4, Zenon DEF SharedStep, Shared

\* A step that keeps the roots and the old edges keeps the shared timeline.
LEMMA SharedKept ==
    ASSUME IInv, TypeOK', \A s \in Snapshot : Edges[s] \subseteq Edges'[s],
           SharedRoots(refs, lifecycle) \subseteq SharedRoots(refs', lifecycle')
    PROVE  SharedStep
  <1>1. SharedRoots(refs', lifecycle') \in SUBSET Snapshot
    BY TargetsAreSnapshots, Zenon DEF TypeOK
  <1>2. SharedRoots(refs', lifecycle') \subseteq Ancestors(Edges', SharedRoots(refs', lifecycle'))
    BY <1>1, RootsReached, Zenon
  <1> QED BY <1>2, SharedGrows, Zenon

\* Reconciling only ever clears pointers.
LEMMA Reconciled ==
    ASSUME TypeOK, NEW edge, NEW r, NEW l
    PROVE  LET pd == ReconcileSharedPendingPointers(edge, r, l)
           IN  /\ pd \in [Session -> Pending]
               /\ \A p \in Session : pd[p].target \in {NoSnapshot, pending[p].target}
  BY Zenon DEF ReconcileSharedPendingPointers, TypeOK, Pending, NoPending, Target

\* ... and clears every pointer into the shared timeline.
LEMMA ReconciledAll ==
    ASSUME NEW edge, NEW r, NEW l, NEW p \in Session
    PROVE  ReconcileSharedPendingPointers(edge, r, l)[p].target
              \notin Ancestors(edge, SharedRoots(r, l))
  BY IdentityAssumption, Zenon DEF ReconcileSharedPendingPointers, NoPending, Ancestors

\* A step that leaves the graph, the branches and their lifecycle alone.
LEMMA GraphUntouched ==
    ASSUME IInv, TypeOK', PointersResolve', UNCHANGED <<graph, refs, lifecycle, archived, captured>>
    PROVE  StepOK
  <1>1. Edges' = Edges
    BY Zenon DEF Edges, ReachabilityParents, graph
  <1>2. IInv'
    BY <1>1, Zenon DEF IInv, UnstoredHasNoEdges, NoDanglingParent, AcyclicHistory, CapturesKept,
                ArchivedIsGone, graph
  <1>3. SharedStep
    BY <1>1, Zenon DEF SharedStep, Shared
  <1>4. TipStep
    BY TipStays, Zenon
  <1> QED BY <1>2, <1>3, <1>4, Zenon DEF StepOK, ResolvedStep

----------------------------------------------------------------------------
(***************************************************************************)
(* One lemma per action.                                                   *)
(***************************************************************************)

\* UpdateProtection touches no ref.
LEMMA ProtectionStep ==
    ASSUME IInv, NEW on \in BOOLEAN, UpdateProtection(on)
    PROVE  StepOK
  <1>1. TypeOK'
    BY Zenon DEF UpdateProtection, IInv, TypeOK, graph, roots, marks
  <1>2. PointersResolve'
    BY Zenon DEF UpdateProtection, IInv, PointersResolve, AllRoots, SharedRoots, BranchTargets,
           TagTargets, graph, roots, marks
  <1> QED BY <1>1, <1>2, GraphUntouched, Zenon DEF UpdateProtection, roots

\* UpdateTag points a tag at a stored snapshot.
LEMMA TagStep ==
    ASSUME IInv, NEW g \in Tag, NEW t \in Snapshot, NEW expected, NEW force,
           UpdateTag(g, t, expected, force)
    PROVE  StepOK
  <1>1. TypeOK'
    BY Zenon DEF UpdateTag, IInv, TypeOK, Target, graph, marks
  <1>2. TagTargets' \subseteq snapshots
    <2>1. TagTargets \subseteq snapshots
      BY Zenon DEF IInv, PointersResolve, AllRoots
    <2> SUFFICES ASSUME NEW k \in Tag, NEW x \in Present(tags'[k])
                 PROVE  x \in snapshots
      BY Zenon DEF TagTargets
    <2>2. tags' = [tags EXCEPT ![g] = t] /\ t \in snapshots
      BY Zenon DEF UpdateTag
    <2>3. CASE k = g
      BY <2>2, <2>3, Zenon DEF IInv, TypeOK, Present
    <2>4. CASE k # g
      <3>1. x \in Present(tags[k])
        BY <2>2, <2>4, Zenon DEF IInv, TypeOK
      <3> QED BY <2>1, <3>1, Zenon DEF TagTargets
    <2> QED BY <2>3, <2>4, Zenon
  <1>3. PointersResolve'
    BY <1>2, Zenon DEF UpdateTag, IInv, PointersResolve, AllRoots, SharedRoots, BranchTargets, graph, marks
  <1> QED BY <1>1, <1>3, GraphUntouched, Zenon DEF UpdateTag, graph

\* The marks: a memory digest, an archive record, a promoted message.
LEMMA AnnotationStep ==
    ASSUME IInv, NEW s \in Snapshot,
           \/ PutMemoryDigest(s)
           \/ \E on \in BOOLEAN : SetSessionArchived(s, on)
           \/ UpdateSnapshotMessage(s)
    PROVE  StepOK
  <1>1. /\ UNCHANGED <<graph, roots, protect, pending, captured>>
        /\ memory' \cup archives' \cup promoted' \subseteq memory \cup archives \cup promoted \cup {s}
        /\ s \in snapshots
    BY Zenon DEF PutMemoryDigest, SetSessionArchived, UpdateSnapshotMessage
  <1>2. TypeOK'
    BY <1>1, Zenon DEF IInv, TypeOK, graph, roots
  <1>3. PointersResolve'
    BY <1>1 DEF IInv, PointersResolve, AllRoots, SharedRoots, BranchTargets, TagTargets, graph, roots
  <1> QED BY <1>1, <1>2, <1>3, GraphUntouched, Zenon DEF roots

\* A step that only clears pointers or keeps their targets.
LEMMA PointersCleared ==
    ASSUME IInv, UNCHANGED <<graph, roots, protect, marks, captured>>,
           pending' \in [Session -> Pending],
           \A p \in Session : pending'[p].target \in {NoSnapshot, pending[p].target}
    PROVE  StepOK
  <1>1. TypeOK'
    BY Zenon DEF IInv, TypeOK, graph, roots, marks
  <1>2. PointersResolve'
    BY DEF IInv, PointersResolve, AllRoots, SharedRoots, BranchTargets, TagTargets, graph, roots, marks
  <1> QED BY <1>1, <1>2, GraphUntouched, Zenon DEF roots

\* RefUpToDate resolves pending pointers and moves nothing.
LEMMA UpToDateStep ==
    ASSUME IInv, NEW b \in Branch, RefUpToDate(b)
    PROVE  StepOK
  <1>1. /\ pending' \in [Session -> Pending]
        /\ \A p \in Session : pending'[p].target \in {NoSnapshot, pending[p].target}
    BY Reconciled, Zenon DEF RefUpToDate, IInv
  <1> QED BY <1>1, PointersCleared, Zenon DEF RefUpToDate

\* DeletePending forgets a pointer.
LEMMA DeletePendingStep ==
    ASSUME IInv, NEW p \in Session, DeletePending(p)
    PROVE  StepOK
  <1>1. /\ pending' \in [Session -> Pending]
        /\ \A q \in Session : pending'[q].target \in {NoSnapshot, pending[q].target}
    BY Zenon DEF DeletePending, IInv, TypeOK, NoPending, Pending, Target
  <1> QED BY <1>1, PointersCleared, Zenon DEF DeletePending

\* SetPendingDismissed keeps the target of the pointer.
LEMMA DismissStep ==
    ASSUME IInv, NEW p \in Session, NEW on \in BOOLEAN, SetPendingDismissed(p, on)
    PROVE  StepOK
  <1>1. /\ pending' \in [Session -> Pending]
        /\ \A q \in Session : pending'[q].target \in {NoSnapshot, pending[q].target}
    BY Zenon DEF SetPendingDismissed, IInv, TypeOK, Pending, Target
  <1> QED BY <1>1, PointersCleared, Zenon DEF SetPendingDismissed

\* Steps that add snapshots and edges, and leave every pointer where it is.
LEMMA GraphGrows ==
    ASSUME IInv, TypeOK', UNCHANGED <<roots, pending, marks>>,
           snapshots \subseteq snapshots', captured' \subseteq captured \cup snapshots',
           UnstoredHasNoEdges', NoDanglingParent', AcyclicHistory',
           \A s \in Snapshot : Edges[s] \subseteq Edges'[s]
    PROVE  StepOK
  <1>1. PointersResolve'
    BY Zenon DEF IInv, PointersResolve, AllRoots, SharedRoots, BranchTargets, TagTargets, roots, marks
  <1>2. CapturesKept' /\ ArchivedIsGone'
    BY Zenon DEF IInv, CapturesKept, ArchivedIsGone, roots
  <1>3. SharedStep
    <2>1. SharedRoots(refs, lifecycle) = SharedRoots(refs', lifecycle')
      BY Zenon DEF roots
    <2> QED BY <2>1, SharedKept, Zenon
  <1>4. TipStep
    BY TipStays, Zenon DEF roots
  <1> QED BY <1>1, <1>2, <1>3, <1>4, Zenon DEF StepOK, IInv, ResolvedStep, roots

\* Commit adds snapshots whose parents are stored, closing no cycle.
LEMMA CommitStep ==
    ASSUME IInv, NEW new \in SUBSET (Snapshot \ snapshots),
           NEW p \in [new -> SUBSET Snapshot], Commit(p)
    PROVE  StepOK
  <1>1. /\ snapshots' = snapshots \cup new /\ captured' = captured \cup new
        /\ parents' = Published(parents, p) /\ grafts' = grafts
        /\ \A s \in new : p[s] \subseteq snapshots \cup new
        /\ Acyclic(ReachabilityParents(Published(parents, p), grafts))
    BY Zenon DEF Commit, ValidateSnapshotGraphUpdate
  <1>2. parents' = [s \in Snapshot |-> IF s \in new THEN p[s] ELSE parents[s]]
    BY <1>1, Zenon DEF Published
  <1>3. TypeOK'
    BY <1>1, <1>2, Zenon DEF Commit, IInv, TypeOK, roots, marks
  <1>4. \A s \in Snapshot : Edges'[s] = parents'[s] \cup grafts[s] /\ Edges[s] = parents[s] \cup grafts[s]
    BY <1>1, Zenon DEF Edges, ReachabilityParents
  <1>5. \A s \in new : parents[s] = {} /\ grafts[s] = {}
    BY Zenon DEF IInv, UnstoredHasNoEdges
  <1>6. \A s \in Snapshot : Edges[s] \subseteq Edges'[s]
    BY <1>2, <1>4, <1>5, Zenon
  <1>7. UnstoredHasNoEdges'
    BY <1>1, <1>2, Zenon DEF IInv, UnstoredHasNoEdges
  <1>8. NoDanglingParent'
    BY <1>1, <1>2, <1>4, <1>5 DEF IInv, NoDanglingParent, TypeOK
  <1>9. AcyclicHistory'
    BY <1>1, Zenon DEF AcyclicHistory, Edges
  <1> QED BY <1>1, <1>3, <1>6, <1>7, <1>8, <1>9, GraphGrows, Zenon DEF Commit

\* GraftSnapshotParents adds edges between stored snapshots, closing no cycle.
LEMMA GraftStep ==
    ASSUME IInv, NEW s \in Snapshot, NEW add \in SUBSET Snapshot, NEW expected,
           GraftSnapshotParents(s, add, expected)
    PROVE  StepOK
  <1> DEFINE fresh == add \ (parents[s] \cup grafts[s] \cup {s})
  <1>1. /\ s \in snapshots /\ fresh \subseteq snapshots
        /\ grafts' = [grafts EXCEPT ![s] = @ \cup fresh]
        /\ graftSeq' = [graftSeq EXCEPT ![s] = @ + 1] /\ graftSeq[s] < MaxGraftSeq
        /\ fresh # {} => Acyclic(ReachabilityParents(parents, grafts'))
        /\ UNCHANGED <<snapshots, parents, roots, protect, pending, marks, captured>>
    BY Zenon DEF GraftSnapshotParents, SequenceLeft, EnsureNoReachabilityCycle
  <1> HIDE DEF fresh
  <1>2. TypeOK'
    <2>1. graftSeq' \in [Snapshot -> 0 .. MaxGraftSeq]
      BY <1>1, SequenceAssumption DEF IInv, TypeOK
    <2>2. grafts' \in [Snapshot -> SUBSET Snapshot]
      BY <1>1, Zenon DEF IInv, TypeOK
    <2> QED BY <1>1, <2>1, <2>2, Zenon DEF IInv, TypeOK, roots, marks
  <1>3. \A x \in Snapshot : Edges'[x] = parents[x] \cup grafts'[x] /\ Edges[x] = parents[x] \cup grafts[x]
    BY <1>1, Zenon DEF Edges, ReachabilityParents
  <1>4. \A x \in Snapshot : grafts'[x] = IF x = s THEN grafts[s] \cup fresh ELSE grafts[x]
    BY <1>1, Zenon DEF IInv, TypeOK
  <1>5. UnstoredHasNoEdges'
    BY <1>1, <1>4, Zenon DEF IInv, UnstoredHasNoEdges
  <1>6. NoDanglingParent'
    BY <1>1, <1>3, <1>4 DEF IInv, NoDanglingParent, TypeOK
  <1>7. AcyclicHistory'
    <2>1. CASE fresh # {}
      BY <1>1, <2>1, Zenon DEF AcyclicHistory, Edges
    <2>2. CASE fresh = {}
      <3>1. grafts' = grafts
        BY <1>1, <2>2, Zenon DEF IInv, TypeOK
      <3> QED BY <1>1, <3>1, Zenon DEF IInv, AcyclicHistory, Edges, ReachabilityParents
    <2> QED BY <2>1, <2>2, Zenon
  <1> QED BY <1>1, <1>2, <1>3, <1>4, <1>5, <1>6, <1>7, GraphGrows

\* A branch that moves to a target with its old tip in its history.
LEMMA MoveKeepsHistory ==
    ASSUME IInv, TypeOK', NEW b \in Branch, NEW t \in Snapshot,
           refs' = [refs EXCEPT ![b] = t], lifecycle' = lifecycle,
           \A s \in Snapshot : Edges[s] \subseteq Edges'[s],
           refs[b] = NoSnapshot \/ refs[b] \in Ancestors(Edges', {t})
    PROVE  SharedStep /\ TipStep
  <1> DEFINE R == SharedRoots(refs, lifecycle)
             Q == SharedRoots(refs', lifecycle')
  <1>1. R \in SUBSET Snapshot /\ Q \in SUBSET Snapshot
    BY TargetsAreSnapshots, Zenon DEF IInv, TypeOK
  <1>2. Q \subseteq Ancestors(Edges', Q)
    BY <1>1, RootsReached, Zenon
  <1>3. \A x \in R : x \in Q \/ x = refs[b]
    <2> SUFFICES ASSUME NEW x \in R, x \notin lifecycle, x # refs[b]
                 PROVE  x \in Q
      BY Zenon DEF SharedRoots
    <2>1. x \in Snapshot /\ x \in BranchTargets(refs)
      BY <1>1, Zenon DEF SharedRoots
    <2>2. PICK c \in Branch : refs[c] = x
      BY <2>1, BranchTargetsHold, Zenon DEF IInv, TypeOK
    <2>3. refs'[c] = x
      BY <2>2, Zenon DEF IInv, TypeOK
    <2>4. x \in BranchTargets(refs')
      BY <2>1, <2>3, BranchTargetsHold, Zenon DEF TypeOK
    <2> QED BY <2>4, Zenon DEF SharedRoots
  <1>4. t \in Q
    <2>1. refs'[b] = t
      BY Zenon DEF IInv, TypeOK
    <2>2. t \in BranchTargets(refs')
      BY <2>1, BranchTargetsHold, Zenon DEF TypeOK
    <2> QED BY <2>2, Zenon DEF SharedRoots
  <1>5. Ancestors(Edges', {t}) \subseteq Ancestors(Edges', Q)
    <2>1. Edges' \in EdgeMap
      BY EdgesTyped, Zenon DEF TypeOK, EdgeMap, Edges
    <2>2. {t} \subseteq Ancestors(Edges', Q)
      BY <1>2, <1>4, Zenon
    <2> HIDE DEF Q
    <2> QED BY <1>1, <2>1, <2>2, ReachGrows, Zenon
  <1>6. SharedStep
    <2>1. NoSnapshot \notin R
      BY <1>1, IdentityAssumption, Zenon
    <2>2. R \subseteq Ancestors(Edges', Q)
      BY <1>2, <1>3, <1>5, <2>1, Zenon
    <2> QED BY <2>2, SharedGrows, Zenon
  <1>7. TipStep
    <2>1. CASE b = DefaultBranch
      <3>1. refs'[b] = t /\ t # NoSnapshot
        BY IdentityAssumption, Zenon DEF IInv, TypeOK
      <3> QED BY <2>1, <3>1, Zenon DEF TipStep
    <2>2. CASE b # DefaultBranch
      <3>1. refs'[DefaultBranch] = refs[DefaultBranch]
        BY <2>2, IdentityAssumption, Zenon DEF IInv, TypeOK
      <3> QED BY <3>1, TipStays, Zenon
    <2> QED BY <2>1, <2>2, Zenon
  <1> QED BY <1>6, <1>7, Zenon

\* MoveBranch keeps the invariant and resolves the pointers it publishes.
LEMMA BranchMoves ==
    ASSUME IInv, NEW b \in Branch, NEW t \in snapshots, NEW g \in EdgeMap,
           MoveBranch(b, t, g), grafts' = g, graftSeq' \in [Snapshot -> 0 .. MaxGraftSeq],
           UNCHANGED <<snapshots, parents, tags, lifecycle, archived, protect, marks, captured>>,
           UnstoredHasNoEdges', NoDanglingParent', AcyclicHistory', b \notin archived
    PROVE  IInv' /\ ResolvedStep
  <1>1. /\ refs' = [refs EXCEPT ![b] = t]
        /\ pending' = ReconcileSharedPendingPointers(Edges', refs', lifecycle')
    BY Zenon DEF MoveBranch, Edges
  <1>2. /\ pending' \in [Session -> Pending]
        /\ \A p \in Session : pending'[p].target \in {NoSnapshot, pending[p].target}
    <2>1. TypeOK
      BY Zenon DEF IInv
    <2> QED BY <1>1, <2>1, Reconciled, Zenon
  <1>3. TypeOK'
    BY <1>1, <1>2, Zenon DEF IInv, TypeOK, EdgeMap, Target, marks
  <1>4. BranchTargets(refs') \subseteq snapshots
    <2> SUFFICES ASSUME NEW x \in BranchTargets(refs') PROVE x \in snapshots
      BY Zenon
    <2>1. x \in Snapshot
      BY <1>3, TargetsAreSnapshots, Zenon DEF SharedRoots, TypeOK
    <2>2. PICK c \in Branch : refs'[c] = x
      BY <1>3, <2>1, BranchTargetsHold, Zenon DEF TypeOK
    <2>3. x = t \/ refs[c] = x
      BY <1>1, <2>2, Zenon DEF IInv, TypeOK
    <2>4. ASSUME refs[c] = x PROVE x \in BranchTargets(refs)
      BY <2>1, <2>4, BranchTargetsHold, Zenon DEF IInv, TypeOK
    <2> QED BY <2>3, <2>4, Zenon DEF IInv, PointersResolve, AllRoots, SharedRoots
  <1>5. PointersResolve'
    BY <1>2, <1>4, Zenon DEF IInv, PointersResolve, AllRoots, SharedRoots, TagTargets, marks
  <1>6. CapturesKept' /\ ArchivedIsGone'
    BY <1>1, Zenon DEF IInv, TypeOK, CapturesKept, ArchivedIsGone
  <1>7. ResolvedStep
    BY <1>1, ReconciledAll, Zenon DEF ResolvedStep, Shared
  <1> QED BY <1>3, <1>5, <1>6, <1>7, Zenon DEF IInv

\* A move that leaves the graph alone.
LEMMA PlainMove ==
    ASSUME IInv, NEW b \in Branch, NEW t \in snapshots, MoveBranch(b, t, grafts), BranchOpen(b),
           UNCHANGED <<graph, tags, lifecycle, archived, protect, marks, captured>>
    PROVE  IInv' /\ ResolvedStep /\ Edges' = Edges
  <1>1. Edges' = Edges
    BY Zenon DEF Edges, ReachabilityParents, graph
  <1>2. UnstoredHasNoEdges' /\ NoDanglingParent' /\ AcyclicHistory'
    BY <1>1, Zenon DEF IInv, UnstoredHasNoEdges, NoDanglingParent, AcyclicHistory, graph
  <1>3. b \notin archived
    BY Zenon DEF BranchOpen, IInv, ArchivedIsGone
  <1>4. grafts \in EdgeMap /\ grafts' = grafts /\ graftSeq' \in [Snapshot -> 0 .. MaxGraftSeq]
    BY Zenon DEF IInv, TypeOK, EdgeMap, graph
  <1>5. UNCHANGED <<snapshots, parents, tags, lifecycle, archived, protect, marks, captured>>
    BY Zenon DEF graph
  <1>6. IInv' /\ ResolvedStep
    BY <1>2, <1>3, <1>4, <1>5, BranchMoves, Zenon
  <1> QED BY <1>1, <1>6, Zenon

\* FastForward moves a branch to a descendant of its tip.
LEMMA FastForwardStep ==
    ASSUME IInv, NEW b \in Branch, NEW t \in Snapshot, NEW expected, FastForward(b, t, expected)
    PROVE  StepOK
  <1>1. t \in snapshots /\ MoveBranch(b, t, grafts) /\ BranchOpen(b)
        /\ UNCHANGED <<graph, tags, lifecycle, archived, protect, marks, captured>>
    BY Zenon DEF FastForward
  <1>2. IInv' /\ ResolvedStep /\ Edges' = Edges
    BY <1>1, PlainMove, Zenon
  <1>3. refs[b] = NoSnapshot \/ refs[b] \in Ancestors(Edges, {t})
    BY Zenon DEF FastForward, ClassifyRefMove, IsAncestor
  <1>4. TypeOK' /\ refs' = [refs EXCEPT ![b] = t] /\ lifecycle' = lifecycle
    BY <1>1, <1>2, Zenon DEF MoveBranch, IInv
  <1>5. SharedStep /\ TipStep
    BY <1>2, <1>3, <1>4, MoveKeepsHistory, Zenon
  <1> QED BY <1>2, <1>5, Zenon DEF StepOK

\* ForceRef moves a branch anywhere, but not the protected one.
LEMMA ForceStep ==
    ASSUME IInv, NEW b \in Branch, NEW t \in Snapshot, NEW expected \in Target, ForceRef(b, t, expected)
    PROVE  StepOK
  <1>1. t \in snapshots /\ MoveBranch(b, t, grafts) /\ BranchOpen(b) /\ ForceAllowed(b)
        /\ UNCHANGED <<graph, tags, lifecycle, archived, protect, marks, captured>>
    BY Zenon DEF ForceRef
  <1>2. IInv' /\ ResolvedStep
    BY <1>1, PlainMove, Zenon
  <1>3. SharedStep
    BY Zenon DEF SharedStep, Forced
  <1>4. TipStep
    <2>1. CASE b = DefaultBranch
      BY <1>1, <2>1, Zenon DEF ForceAllowed, TipStep
    <2>2. CASE b # DefaultBranch
      <3>1. refs'[DefaultBranch] = refs[DefaultBranch]
        BY <1>1, <2>2, IdentityAssumption, Zenon DEF IInv, TypeOK, MoveBranch
      <3> QED BY <3>1, TipStays, Zenon
    <2> QED BY <2>1, <2>2, Zenon
  <1> QED BY <1>2, <1>3, <1>4, Zenon DEF StepOK

\* AppendRef grafts the boundary of the incoming segment onto the old tip, which
\* the new tip therefore still reaches.
LEMMA AppendStep ==
    ASSUME IInv, NEW b \in Branch, NEW t \in Snapshot, NEW expected, AppendRef(b, t, expected)
    PROVE  StepOK
  <1> DEFINE B == AppendBoundary(refs[b], t)
             g == AppendedGrafts(refs[b], B)
  <1>1. /\ t \in snapshots /\ ClassifyRefMove(refs[b], t) = "diverged"
        /\ \A s \in B : graftSeq[s] < MaxGraftSeq
        /\ Acyclic(ReachabilityParents(parents, g))
        /\ grafts' = g /\ MoveBranch(b, t, g)
        /\ graftSeq' = [s \in Snapshot |-> IF s \in B THEN graftSeq[s] + 1 ELSE graftSeq[s]]
        /\ UNCHANGED <<snapshots, parents, tags, lifecycle, archived, protect, marks, captured>>
    BY Zenon DEF AppendRef, SequenceLeft, EnsureNoReachabilityCycle
  <1>2. refs[b] # NoSnapshot /\ ~IsAncestor(t, refs[b])
    BY <1>1, Zenon DEF ClassifyRefMove
  <1>3. refs[b] \in snapshots /\ refs[b] \in Snapshot
    <2>1. refs[b] \in Snapshot
      BY <1>2, Zenon DEF IInv, TypeOK, Target
    <2>2. refs[b] \in BranchTargets(refs)
      BY <2>1, BranchTargetsHold, Zenon DEF IInv, TypeOK
    <2> QED BY <2>1, <2>2, Zenon DEF IInv, PointersResolve, AllRoots, SharedRoots
  <1>4. B \subseteq snapshots /\ B \cap Ancestors(Edges, {refs[b]}) = {}
    <2>1. Ancestors(Edges, {t}) \subseteq snapshots
      BY <1>1, ReachedIsStored, Zenon
    <2> QED BY <2>1, Zenon DEF AppendBoundary
  <1>5. refs[b] \notin B
    BY <1>3, <1>4, RootsReached, Zenon
  <1>6. \A s \in Snapshot : g[s] = IF s \in B THEN (grafts[s] \cup {refs[b]}) \ (parents[s] \cup {s})
                                    ELSE grafts[s]
    BY Zenon DEF AppendedGrafts
  <1>7. g \in EdgeMap
    BY <1>3, Zenon DEF AppendedGrafts, IInv, TypeOK, EdgeMap
  <1> HIDE DEF B, g
  <1>8. graftSeq' \in [Snapshot -> 0 .. MaxGraftSeq]
    <2>1. graftSeq \in [Snapshot -> 0 .. MaxGraftSeq]
      BY Zenon DEF IInv, TypeOK
    <2>2. \A s \in Snapshot : (IF s \in B THEN graftSeq[s] + 1 ELSE graftSeq[s]) \in 0 .. MaxGraftSeq
      BY <1>1, <2>1, SequenceAssumption
    <2> QED BY <1>1, <2>2, Zenon
  <1>9. \A s \in Snapshot : Edges'[s] = parents[s] \cup g[s] /\ Edges[s] = parents[s] \cup grafts[s]
    BY <1>1, Zenon DEF Edges, ReachabilityParents
  <1>10. \A s \in Snapshot : s \notin Edges[s]
    <2> TAKE s \in Snapshot
    <2>1. {s} \in (SUBSET Snapshot) \ {{}}
      BY Zenon
    <2>2. PICK x \in {s} : Edges[x] \cap {s} = {}
      BY <2>1, MinimalMember, Zenon DEF IInv, AcyclicHistory
    <2> QED BY <2>2, Zenon
  <1>11. \A s \in Snapshot : Edges[s] \subseteq Edges'[s]
    BY <1>6, <1>9, <1>10, Zenon
  <1>12. \A s \in B : refs[b] \in Edges'[s]
    BY <1>4, <1>5, <1>6, <1>9, Zenon DEF IInv, TypeOK
  <1>13. UnstoredHasNoEdges'
    BY <1>1, <1>4, <1>6, Zenon DEF IInv, UnstoredHasNoEdges
  <1>14. NoDanglingParent'
    <2>1. \A s \in Snapshot : Edges'[s] \subseteq Edges[s] \cup {refs[b]}
      BY <1>6, <1>9, Zenon
    <2>2. snapshots \subseteq Snapshot /\ \A s \in snapshots : Edges[s] \subseteq snapshots
      BY Zenon DEF IInv, TypeOK, NoDanglingParent
    <2> QED BY <1>1, <1>3, <2>1, <2>2, Zenon DEF NoDanglingParent
  <1>15. AcyclicHistory'
    BY <1>1, Zenon DEF AcyclicHistory, Edges
  <1>16. b \notin archived
    BY <1>2, Zenon DEF IInv, ArchivedIsGone
  <1>17. IInv' /\ ResolvedStep
    BY <1>1, <1>7, <1>8, <1>13, <1>14, <1>15, <1>16, BranchMoves, Zenon
  <1>18. refs[b] \in Ancestors(Edges', {t})
    <2>1. Edges' \in EdgeMap
      BY <1>17, EdgesTyped, Zenon DEF IInv, TypeOK, EdgeMap, Edges
    <2> QED BY <1>2, <1>3, <1>11, <1>12, <2>1, AppendReachesTip, Zenon DEF B
  <1>19. SharedStep /\ TipStep
    BY <1>1, <1>11, <1>17, <1>18, MoveKeepsHistory, Zenon DEF MoveBranch, IInv
  <1> QED BY <1>17, <1>19, Zenon DEF StepOK

\* Fork adds a branch at a stored snapshot.
LEMMA ForkStep ==
    ASSUME IInv, NEW b \in Branch, NEW t \in Snapshot, Fork(b, t)
    PROVE  StepOK
  <1>1. /\ t \in snapshots /\ refs[b] = NoSnapshot /\ b \notin archived
        /\ refs' = [refs EXCEPT ![b] = t]
        /\ UNCHANGED <<graph, tags, lifecycle, archived, protect, pending, marks, captured>>
    BY Zenon DEF Fork, BranchOpen
  <1>2. TypeOK'
    BY <1>1, Zenon DEF IInv, TypeOK, Target, graph, marks
  <1>3. Edges' = Edges
    BY <1>1, Zenon DEF Edges, ReachabilityParents, graph
  <1>4. BranchTargets(refs') \subseteq BranchTargets(refs) \cup {t}
    <2> SUFFICES ASSUME NEW c \in Branch
                 PROVE  Present(refs'[c]) \subseteq Present(refs[c]) \cup {t}
      BY Zenon DEF BranchTargets
    <2> QED BY <1>1, Zenon DEF IInv, TypeOK, Present
  <1>5. PointersResolve'
    <2>1. AllRoots' \subseteq AllRoots \cup {t}
      BY <1>1, <1>4, Zenon DEF AllRoots, SharedRoots, TagTargets
    <2> QED BY <1>1, <2>1, Zenon DEF IInv, PointersResolve, graph, marks
  <1>6. UnstoredHasNoEdges' /\ NoDanglingParent' /\ AcyclicHistory' /\ CapturesKept' /\ ArchivedIsGone'
    BY <1>1, <1>3, Zenon DEF IInv, UnstoredHasNoEdges, NoDanglingParent, AcyclicHistory, CapturesKept,
                      ArchivedIsGone, TypeOK, graph
  <1>7. SharedStep /\ TipStep
    BY <1>1, <1>2, <1>3, MoveKeepsHistory, Zenon
  <1>8. ResolvedStep
    BY <1>1, Zenon DEF ResolvedStep, IInv, TypeOK
  <1> QED BY <1>2, <1>5, <1>6, <1>7, <1>8, Zenon DEF StepOK, IInv

\* A lifecycle event that keeps every branch, or archives one whose target it records.
LEMMA LifecycleStep ==
    ASSUME IInv, NEW T \in SUBSET snapshots, LifecycleRecorded(T),
           refs' \in [Branch -> Target], archived' \in SUBSET Branch,
           \A b \in Branch : refs'[b] = refs[b] \/ (refs'[b] = NoSnapshot /\ refs[b] \in T \cup {NoSnapshot}),
           ArchivedIsGone', protect => refs'[DefaultBranch] = refs[DefaultBranch]
    PROVE  StepOK
  <1>1. /\ lifecycle' = lifecycle \cup T
        /\ pending' = ReconcileSharedPendingPointers(Edges, refs', lifecycle')
        /\ UNCHANGED <<graph, tags, protect, marks, captured>>
    BY Zenon DEF LifecycleRecorded
  <1>2. /\ pending' \in [Session -> Pending]
        /\ \A p \in Session : pending'[p].target \in {NoSnapshot, pending[p].target}
    <2>1. TypeOK
      BY Zenon DEF IInv
    <2> QED BY <1>1, <2>1, Reconciled, Zenon
  <1>3. TypeOK'
    BY <1>1, <1>2, Zenon DEF IInv, TypeOK, graph, marks
  <1>4. Edges' = Edges
    BY <1>1, Zenon DEF Edges, ReachabilityParents, graph
  <1>5. BranchTargets(refs') \subseteq BranchTargets(refs)
    <2> SUFFICES ASSUME NEW b \in Branch
                 PROVE  Present(refs'[b]) \subseteq Present(refs[b])
      BY DEF BranchTargets
    <2> QED BY Zenon DEF Present
  <1>6. BranchTargets(refs) \subseteq BranchTargets(refs') \cup T
    <2> SUFFICES ASSUME NEW b \in Branch
                 PROVE  Present(refs[b]) \subseteq Present(refs'[b]) \cup T
      BY Zenon DEF BranchTargets
    <2> QED BY Zenon DEF Present
  <1>7. PointersResolve'
    <2>1. AllRoots' \subseteq AllRoots \cup T
      BY <1>1, <1>5, Zenon DEF AllRoots, SharedRoots, TagTargets
    <2>2. AllRoots' \subseteq snapshots'
      BY <1>1, <2>1, Zenon DEF IInv, PointersResolve, graph
    <2> QED BY <1>1, <1>2, <2>2, Zenon DEF IInv, PointersResolve, graph, marks
  <1>8. UnstoredHasNoEdges' /\ NoDanglingParent' /\ AcyclicHistory' /\ CapturesKept'
    BY <1>1, <1>4, Zenon DEF IInv, UnstoredHasNoEdges, NoDanglingParent, AcyclicHistory, CapturesKept, graph
  <1>9. SharedStep
    <2>1. SharedRoots(refs, lifecycle) \subseteq SharedRoots(refs', lifecycle')
      BY <1>1, <1>6, Zenon DEF SharedRoots
    <2> QED BY <1>3, <1>4, <2>1, SharedKept, Zenon
  <1>10. TipStep
    <2>1. CASE protect
      BY <2>1, TipStays, Zenon
    <2>2. CASE ~protect
      BY <2>2, Zenon DEF TipStep
    <2> QED BY <2>1, <2>2, Zenon
  <1>11. ResolvedStep
    BY <1>1, <1>4, ReconciledAll, Zenon DEF ResolvedStep, Shared
  <1> QED BY <1>3, <1>7, <1>8, <1>9, <1>10, <1>11, Zenon DEF StepOK, IInv

\* RecordStaleEvent and ActivateBranch add a root and move no branch.
LEMMA EventStep ==
    ASSUME IInv, NEW b \in Branch, NEW t \in Snapshot,
           RecordStaleEvent(b, t) \/ ActivateBranch(b, t)
    PROVE  StepOK
  <1>1. /\ {t} \in SUBSET snapshots /\ LifecycleRecorded({t})
        /\ refs' = refs /\ archived' \subseteq archived
    BY Zenon DEF RecordStaleEvent, ActivateBranch
  <1>2. refs' \in [Branch -> Target] /\ archived' \in SUBSET Branch /\ ArchivedIsGone'
    BY <1>1, Zenon DEF IInv, TypeOK, ArchivedIsGone
  <1> QED BY <1>1, <1>2, LifecycleStep, Zenon

\* ArchiveBranch removes a ref only when its tag keeps the very same target.
LEMMA ArchiveStep ==
    ASSUME IInv, NEW b \in Branch, NEW t \in Snapshot, ArchiveBranch(b, t)
    PROVE  StepOK
  <1>1. t \in snapshots /\ ~(protect /\ b = DefaultBranch)
    BY Zenon DEF ArchiveBranch
  <1>2. CASE /\ Archives(b, t) /\ LifecycleRecorded({t})
             /\ refs' = [refs EXCEPT ![b] = NoSnapshot] /\ archived' = archived \cup {b}
    <2>1. refs' \in [Branch -> Target] /\ archived' \in SUBSET Branch /\ ArchivedIsGone'
      BY <1>2, Zenon DEF IInv, TypeOK, Target, ArchivedIsGone
    <2>2. \A c \in Branch : refs'[c] = refs[c] \/ (refs'[c] = NoSnapshot /\ refs[c] \in {t} \cup {NoSnapshot})
      BY <1>2, Zenon DEF Archives, IInv, TypeOK
    <2>3. protect => refs'[DefaultBranch] = refs[DefaultBranch]
      BY <1>1, <1>2, IdentityAssumption, Zenon DEF IInv, TypeOK
    <2>4. {t} \in SUBSET snapshots
      BY <1>1, Zenon
    <2> QED BY <1>2, <2>1, <2>2, <2>3, <2>4, LifecycleStep, Zenon
  <1>3. CASE /\ ~Archives(b, t) /\ LifecycleRecorded({t, refs[b]})
             /\ UNCHANGED <<refs, archived>>
    <2>1. refs[b] \in snapshots
      <3>1. refs[b] \in Snapshot
        BY <1>3, Zenon DEF Archives, IInv, TypeOK, Target
      <3>2. refs[b] \in BranchTargets(refs)
        BY <3>1, BranchTargetsHold, Zenon DEF IInv, TypeOK
      <3> QED BY <3>2, Zenon DEF IInv, PointersResolve, AllRoots, SharedRoots
    <2>2. {t, refs[b]} \in SUBSET snapshots
      BY <1>1, <2>1, Zenon
    <2>3. refs' \in [Branch -> Target] /\ archived' \in SUBSET Branch /\ ArchivedIsGone'
      BY <1>3, Zenon DEF IInv, TypeOK, ArchivedIsGone
    <2> QED BY <1>3, <2>2, <2>3, LifecycleStep, Zenon
  <1> QED BY <1>2, <1>3, Zenon DEF ArchiveBranch

\* Collecting a hook capture that nothing names and the successor contains.
LEMMA CollectStep ==
    ASSUME IInv, NEW p \in Session, NEW t \in snapshots, NEW old \in Snapshot,
           pending' \in [Session -> Pending],
           \A q \in Session : pending'[q].target \in {t, pending[q].target},
           Collectable(old, t, pending'), DeleteSnapshot(old),
           UNCHANGED <<roots, protect, marks, captured>>
    PROVE  StepOK
  <1>1. /\ snapshots' = snapshots \ {old}
        /\ parents' = [parents EXCEPT ![old] = {}] /\ grafts' = [grafts EXCEPT ![old] = {}]
        /\ graftSeq' = [graftSeq EXCEPT ![old] = 0]
    BY Zenon DEF DeleteSnapshot
  <1>2. TypeOK'
    <2>1. /\ snapshots' \subseteq Snapshot
          /\ parents' \in [Snapshot -> SUBSET Snapshot] /\ grafts' \in [Snapshot -> SUBSET Snapshot]
      BY <1>1, Zenon DEF IInv, TypeOK
    <2>2. graftSeq' \in [Snapshot -> 0 .. MaxGraftSeq]
      <3>1. 0 \in 0 .. MaxGraftSeq /\ graftSeq \in [Snapshot -> 0 .. MaxGraftSeq]
        BY SequenceAssumption DEF IInv, TypeOK
      <3> QED BY <1>1, <3>1, Zenon
    <2> QED BY <2>1, <2>2, Zenon DEF IInv, TypeOK, roots, marks
  <1>3. \A s \in Snapshot : Edges'[s] = IF s = old THEN {} ELSE Edges[s]
    BY <1>1, Zenon DEF Edges, ReachabilityParents, IInv, TypeOK
  <1>4. \A s \in snapshots : old \notin Edges[s]
    BY Zenon DEF Collectable
  <1>5. Edges \in EdgeMap /\ Edges' \in EdgeMap
    BY <1>2, GraphTyped, EdgesTyped, Zenon DEF IInv, TypeOK, EdgeMap, Edges
  <1>6. AllRoots \in SUBSET Snapshot /\ AllRoots' = AllRoots /\ old \notin AllRoots
    <2>1. AllRoots \in SUBSET Snapshot
      BY Zenon DEF IInv, PointersResolve, TypeOK
    <2>2. old \notin Ancestors(Edges, AllRoots)
      BY Zenon DEF Collectable
    <2>3. AllRoots' = AllRoots
      BY Zenon DEF AllRoots, SharedRoots, BranchTargets, TagTargets, roots
    <2>4. old \notin AllRoots
      BY <2>1, <2>2, RootsReached, Zenon
    <2> QED BY <2>1, <2>3, <2>4, Zenon
  <1>7. UnstoredHasNoEdges' /\ NoDanglingParent'
    <2>1. UnstoredHasNoEdges'
      BY <1>1, Zenon DEF IInv, UnstoredHasNoEdges, TypeOK
    <2>2. NoDanglingParent'
      BY <1>1, <1>3, <1>4, Zenon DEF IInv, NoDanglingParent, TypeOK
    <2> QED BY <2>1, <2>2, Zenon
  <1>8. AcyclicHistory'
    BY <1>3, <1>5, FewerEdgesAcyclic, Zenon DEF IInv, AcyclicHistory
  <1>9. PointersResolve'
    <2>1. \A q \in Session : pending'[q].target # old
      BY Zenon DEF Collectable
    <2>2. old \notin memory \cup archives \cup promoted
      BY Zenon DEF Collectable
    <2> QED BY <1>1, <1>6, <2>1, <2>2, Zenon DEF IInv, PointersResolve, marks
  <1>10. CapturesKept'
    <2> SUFFICES ASSUME NEW c \in captured, c \notin snapshots'
                 PROVE  \E s \in snapshots' : <<s, c>> \in Supersedes
      BY Zenon DEF CapturesKept
    <2>1. t \in snapshots' /\ <<t, old>> \in Supersedes /\ t \in Snapshot /\ c \in Snapshot
      BY <1>1, Zenon DEF Collectable, IInv, TypeOK
    <2>2. CASE c = old
      BY <2>1, <2>2, Zenon
    <2>3. CASE c # old
      <3>1. PICK s \in snapshots : <<s, c>> \in Supersedes
        BY <1>1, <2>3, Zenon DEF IInv, CapturesKept
      <3>2. s = old => <<t, c>> \in Supersedes
        BY <2>1, <3>1, PrefixAssumption, Zenon
      <3> QED BY <1>1, <2>1, <3>1, <3>2, Zenon
    <2> QED BY <2>2, <2>3, Zenon
  <1>11. ArchivedIsGone'
    BY Zenon DEF IInv, ArchivedIsGone, roots
  <1>12. SharedStep
    <2> DEFINE R == SharedRoots(refs, lifecycle)
    <2>1. R \in SUBSET Snapshot
      BY TargetsAreSnapshots, Zenon DEF IInv, TypeOK
    <2>2. old \notin Ancestors(Edges, R)
      <3>1. R \subseteq Ancestors(Edges, AllRoots)
        BY <1>6, RootsReached, Zenon DEF AllRoots
      <3>2. Ancestors(Edges, R) \subseteq Ancestors(Edges, AllRoots)
        BY <1>5, <1>6, <3>1, ReachGrows, Zenon
      <3> QED BY <3>2, Zenon DEF Collectable
    <2>3. Ancestors(Edges, R) \subseteq Ancestors(Edges', R)
      <3> HIDE DEF R
      <3> QED BY <1>3, <1>5, <2>1, <2>2, UnreachedIrrelevant, Zenon
    <2> QED BY <2>3, Zenon DEF SharedStep, Shared, roots
  <1>13. TipStep
    BY TipStays, Zenon DEF roots
  <1> QED BY <1>2, <1>7, <1>8, <1>9, <1>10, <1>11, <1>12, <1>13, Zenon DEF StepOK, IInv, ResolvedStep, roots

\* PutPending collects a capture only when nothing names or reaches it and its
\* successor holds its events.
LEMMA PutPendingStep ==
    ASSUME IInv, NEW p \in Session, NEW t \in Snapshot, NEW a \in Activity \cup {NoActivity},
           NEW hidden \in BOOLEAN, PutPending(p, t, a, hidden)
    PROVE  StepOK
  <1> DEFINE old == pending[p].target
  <1>1. /\ t \in snapshots
        /\ pending' = [pending EXCEPT ![p] = Replaced(pending[p], t, a, hidden)]
        /\ UNCHANGED <<roots, protect, marks, captured>>
    BY Zenon DEF PutPending
  <1>2. /\ pending' \in [Session -> Pending]
        /\ \A q \in Session : pending'[q].target \in {t, pending[q].target}
    BY <1>1, Zenon DEF IInv, TypeOK, Replaced, Pending, Target
  <1>3. CASE Collectable(old, t, pending') /\ DeleteSnapshot(old)
    <2>1. old \in Snapshot
      BY <1>3, Zenon DEF Collectable, IInv, TypeOK
    <2> HIDE DEF old
    <2> QED BY <1>1, <1>2, <1>3, <2>1, CollectStep, Zenon
  <1>4. CASE UNCHANGED graph
    <2>1. TypeOK'
      BY <1>1, <1>2, <1>4, Zenon DEF IInv, TypeOK, graph, roots, marks
    <2>2. AllRoots' = AllRoots
      BY <1>1, Zenon DEF AllRoots, SharedRoots, BranchTargets, TagTargets, roots
    <2>3. PointersResolve'
      BY <1>1, <1>2, <1>4, <2>2, Zenon DEF IInv, PointersResolve, graph, marks
    <2> QED BY <1>1, <1>4, <2>1, <2>3, GraphUntouched, Zenon DEF roots
  <1> QED BY <1>3, <1>4, Zenon DEF PutPending

----------------------------------------------------------------------------
(***************************************************************************)
(* The theorems.                                                           *)
(***************************************************************************)

\* The initial states satisfy the invariant.
LEMMA InitOK == Init => IInv
  <1> SUFFICES ASSUME Init PROVE IInv
    BY Zenon
  <1>1. TypeOK
    <2>1. graftSeq \in [Snapshot -> 0 .. MaxGraftSeq]
      BY SequenceAssumption DEF Init
    <2>2. pending \in [Session -> Pending]
      BY Zenon DEF Init, NoPending, Pending, Target
    <2> QED BY <2>1, <2>2, Zenon DEF Init, TypeOK, Target
  <1>2. AllRoots = {}
    BY Zenon DEF Init, AllRoots, SharedRoots, BranchTargets, TagTargets, Present
  <1>3. \A s \in Snapshot : Edges[s] = {}
    BY Zenon DEF Init, Edges, ReachabilityParents
  <1>4. AcyclicHistory
    BY <1>3, Zenon DEF AcyclicHistory, Acyclic
  <1>5. PointersResolve
    BY <1>2, Zenon DEF Init, PointersResolve, NoPending
  <1> QED BY <1>1, <1>3, <1>4, <1>5, Zenon
          DEF IInv, Init, UnstoredHasNoEdges, NoDanglingParent, CapturesKept, ArchivedIsGone

\* Every step keeps the invariant and satisfies the three step properties.
LEMMA NextOK == IInv /\ Next => StepOK
  <1> SUFFICES ASSUME IInv, Next PROVE StepOK
    BY Zenon
  <1>1. CASE CommitObjects
    BY <1>1, CommitStep, Zenon DEF CommitObjects
  <1>2. CASE GraftParents
    BY <1>2, GraftStep, Zenon DEF GraftParents
  <1>3. CASE UpdateRef
    BY <1>3, UpToDateStep, FastForwardStep, ForceStep, AppendStep, Zenon DEF UpdateRef
  <1>4. CASE TagRef
    BY <1>4, TagStep, Zenon DEF TagRef
  <1>5. CASE BranchLifecycle
    BY <1>5, ForkStep, EventStep, ArchiveStep, Zenon DEF BranchLifecycle
  <1>6. CASE \E on \in BOOLEAN : UpdateProtection(on)
    BY <1>6, ProtectionStep, Zenon
  <1>7. CASE PendingPointers
    BY <1>7, PutPendingStep, DeletePendingStep, DismissStep, Zenon DEF PendingPointers
  <1>8. CASE Annotations
    BY <1>8, AnnotationStep, IdentityAssumption, Zenon DEF Annotations
  <1> QED BY <1>1, <1>2, <1>3, <1>4, <1>5, <1>6, <1>7, <1>8, Zenon DEF Next

\* A stuttering step keeps the invariant.
LEMMA StutterOK == IInv /\ UNCHANGED vars => IInv'
  <1> SUFFICES ASSUME IInv, UNCHANGED vars PROVE IInv'
    BY Zenon
  <1>1. TypeOK'
    BY Zenon DEF IInv, TypeOK, vars, graph, roots, marks
  <1>2. PointersResolve'
    BY DEF IInv, PointersResolve, AllRoots, SharedRoots, BranchTargets, TagTargets, vars, graph, roots, marks
  <1>3. StepOK
    BY <1>1, <1>2, GraphUntouched, Zenon DEF vars, roots
  <1> QED BY <1>3, Zenon DEF StepOK

\* The inductive invariant holds in every reachable state.
THEOREM Invariance == Spec => []IInv
  BY InitOK, NextOK, StutterOK, PTL DEF Spec, StepOK

\* Every variable keeps its type; a graft sequence never passes MaxGraftSeq.
THEOREM TypeCorrect == Spec => []TypeOK
  BY Invariance, PTL DEF IInv

\* No stored snapshot has a missing parent, natural or overlay, whatever is
\* collected, grafted or appended.
THEOREM GraphIntact == Spec => []NoDanglingParent
  BY Invariance, PTL DEF IInv

\* Natural and overlay parents together form no cycle, so every walk of the
\* code over ancestors ends.
THEOREM HistoryAcyclic == Spec => []AcyclicHistory
  BY Invariance, PTL DEF IInv

\* Refs, tags, pending pointers and marks never name a deleted snapshot.
THEOREM NothingDangles == Spec => []PointersResolve
  BY Invariance, PTL DEF IInv

\* Collecting superseded hook captures loses no captured event.
THEOREM CapturesSafe == Spec => []CapturesKept
  BY Invariance, PTL DEF IInv

\* An archived branch name stays without a ref until it is reopened.
THEOREM ArchivesHold == Spec => []ArchivedIsGone
  BY Invariance, PTL DEF IInv

\* Only a forced move takes anything out of the shared timeline.
THEOREM SharedHistorySafe == Spec => SharedHistoryKept
  <1>1. IInv /\ [Next]_vars => [SharedStep]_vars
    BY NextOK, Zenon DEF StepOK
  <1> QED BY <1>1, Invariance, PTL DEF Spec, SharedHistoryKept, SharedStep

\* A protected default branch keeps its tip in its history.
THEOREM ProtectionHolds == Spec => ProtectedTipKept
  <1>1. IInv /\ [Next]_vars => [TipStep]_vars
    BY NextOK, Zenon DEF StepOK
  <1> QED BY <1>1, Invariance, PTL DEF Spec, ProtectedTipKept, TipStep

\* Moving or archiving a branch resolves the pending pointers it publishes.
THEOREM PublishedPointersResolved == Spec => SharedPendingResolved
  <1>1. IInv /\ [Next]_vars => [ResolvedStep]_vars
    BY NextOK, Zenon DEF StepOK
  <1> QED BY <1>1, Invariance, PTL DEF Spec, SharedPendingResolved, ResolvedStep

-----------------------------------------------------------------------------
(***************************************************************************)
(* Proofs about PRPromotion, for every set of jobs, workers and callers    *)
(* and all limits.                                                         *)
(*                                                                         *)
(* None of the properties is inductive.  SoleHolder is what makes the      *)
(* version a fence: a running job's version is held by one process only,   *)
(* because every way into the running state gives the row a version that   *)
(* only the claiming process has read.  Recorded ties the effects to the   *)
(* state of the row, and Busy says what a process that works on a job      *)
(* knows of it.                                                            *)
(***************************************************************************)


Why == {"source", "ordering", "permanent", "temporary"}

Busy ==
    \A p \in Process :
        /\ proc[p].pc \in {"selected", "claimed", "run", "failed", "apply"} => proc[p].job \in Job
        /\ proc[p].pc = "failed" => proc[p].why \in Why

\* The transaction lock, without the cardinality.
Writing == writer = {} \/ \E p \in Process : writer = {p}

\* One running job, in a form the provers can use.
Alone == \A j, k \in Job : row[j].state = "running" /\ row[k].state = "running" => j = k

SoleHolder ==
    \A j \in Job : row[j].state = "running" =>
        \A p, q \in Process : j \in held[p] /\ j \in held[q] => p = q

Recorded == \A j \in Job : effects[j] = IF row[j].state = "completed" THEN 1 ELSE 0

PromotionInv == PromotionTypeOK /\ Busy /\ Writing /\ Alone /\ SoleHolder /\ Recorded

-----------------------------------------------------------------------------
(* Rows and processes.                                                     *)

\* What a row satisfies by itself.
Sound(r) ==
    /\ r \in Row
    /\ r.leased => r.state = "running"
    /\ r.state = "retrying" => r.attempts < RetryLimit

Process0 == [pc : {"idle", "poll", "selected", "claimed", "run", "failed", "apply"},
             job : Job \cup {0}, wakes : SUBSET Job, left : 0..Batch,
             why : {"none"} \cup Why]

\* The numbers the limits are.
LEMMA Numbers ==
    /\ Batch \in Nat /\ Batch > 0
    /\ RetryLimit \in Nat /\ RetryLimit > 0 /\ SourceAttempts \in Nat
    /\ MaxRetries \in Nat /\ MaxFaults \in Nat
  BY LimitAssumption

\* A retry and a wake leave a sound row.
LEMMA FreshSound == Sound(Fresh) /\ Fresh.state = "waiting"
  BY Numbers DEF Sound, Fresh, Row, Queue

\* A claim leaves a sound row.
LEMMA RunningSound ==
    ASSUME NEW r \in Row
    PROVE  Sound(Running(r)) /\ Running(r).state = "running" /\ Running(r).leased
  <1>. DEFINE n == IF r.attempts < RetryLimit THEN r.attempts + 1 ELSE r.attempts
  <1>1. n \in 0..RetryLimit
    BY Numbers DEF Row
  <1>2. Running(r) = [r EXCEPT !.state = "running", !.leased = TRUE, !.attempts = n]
    BY Zenon DEF Running, Row
  <1>. HIDE DEF n
  <1>. QED  BY <1>1, <1>2, Zenon DEF Sound, Row, Queue

\* The end of a contribution leaves a sound row.
LEMMA CompletedSound ==
    ASSUME NEW r \in Row
    PROVE  LET c == [r EXCEPT !.state = "completed", !.leased = FALSE]
           IN  Sound(c) /\ c.state = "completed"
  BY Numbers, Zenon DEF Sound, Row, Queue

\* A recorded failure leaves a sound row that is not running.
LEMMA DeferredSound ==
    ASSUME NEW r \in Row, NEW why \in Why
    PROVE  /\ Sound(Deferred(r, why))
           /\ Deferred(r, why).state \in {"waiting", "retrying", "sourceless", "attention"}
  <1>1. CASE why = "ordering"
    BY <1>1, Numbers, Zenon DEF Sound, Deferred, Row, Queue
  <1>2. CASE why = "source"
    BY <1>2, Numbers, Zenon DEF Sound, Deferred, Row, Queue
  <1>3. CASE why = "temporary"
    <2>1. r.attempts \in 0..RetryLimit
      BY Zenon DEF Row
    <2>2. CASE r.attempts >= RetryLimit
      BY <1>3, <2>2, Zenon DEF Sound, Deferred, Row, Queue
    <2>3. CASE r.attempts < RetryLimit
      BY <1>3, <2>1, <2>3, Numbers, Zenon DEF Sound, Deferred, Row, Queue
    <2>. QED  BY <2>1, <2>2, <2>3, Numbers
  <1>4. CASE why = "permanent"
    BY <1>4, Numbers, Zenon DEF Sound, Deferred, Row, Queue
  <1>. QED  BY <1>1, <1>2, <1>3, <1>4, Zenon DEF Why

\* The passing of time leaves a sound row.
LEMMA TimeSound ==
    ASSUME NEW r, Sound(r)
    PROVE  /\ Sound([r EXCEPT !.due = TRUE]) /\ [r EXCEPT !.due = TRUE].state = r.state
           /\ Sound([r EXCEPT !.leased = FALSE]) /\ [r EXCEPT !.leased = FALSE].state = r.state
  BY Zenon DEF Sound, Row

\* The type invariant, by rows and processes.
LEMMA TypeParts ==
    PromotionTypeOK <=>
        /\ row \in [Job -> Row] /\ \A j \in Job : Sound(row[j])
        /\ published \subseteq Job /\ ordered \subseteq Job
        /\ proc \in [Process -> Process0]
        /\ held \in [Process -> SUBSET Job]
        /\ writer \subseteq Process /\ Cardinality(writer) <= 1
        /\ effects \in [Job -> Nat]
        /\ retries \in 0..MaxRetries /\ faults \in 0..MaxFaults
  <1>1. {"none", "source", "ordering", "permanent", "temporary"} = {"none"} \cup Why
    BY Zenon DEF Why
  <1>. QED  BY <1>1, Zenon DEF PromotionTypeOK, Sound, Process0

-----------------------------------------------------------------------------
(* Types.                                                                  *)

\* The readers of a version are given jobs.
LEMMA VersionTyped ==
    ASSUME held \in [Process -> SUBSET Job], NEW js \in SUBSET Job, NEW ps
    PROVE  NewVersion(js, ps) \in [Process -> SUBSET Job]
  BY Zenon DEF NewVersion

\* The records a process is given.
LEMMA ProcessTyped ==
    ASSUME NEW x \in Process0
    PROVE  /\ Idle \in Process0
           /\ \A ws \in SUBSET Job, n \in 0..Batch :
                [Idle EXCEPT !.pc = "poll", !.wakes = ws, !.left = n] \in Process0
           /\ \A n \in 0..Batch : [Idle EXCEPT !.pc = "poll", !.left = n] \in Process0
           /\ \A j \in Job, n \in 0..Batch :
                [Idle EXCEPT !.pc = "selected", !.job = j, !.left = n] \in Process0
           /\ \A j \in Job : [Idle EXCEPT !.pc = "apply", !.job = j] \in Process0
           /\ \A w \in Why : [x EXCEPT !.pc = "failed", !.why = w] \in Process0
           /\ \A j \in Job : [x EXCEPT !.wakes = @ \ {j}] \in Process0
           /\ [x EXCEPT !.pc = "claimed"] \in Process0
           /\ [x EXCEPT !.pc = "run"] \in Process0
  <1>1. 0 \in 0..Batch
    BY Numbers
  <1>2. \A ws \in SUBSET Job, n \in 0..Batch :
          [Idle EXCEPT !.pc = "poll", !.wakes = ws, !.left = n] \in Process0
    BY <1>1, Zenon DEF Process0, Idle
  <1>3. Idle \in Process0
    BY <1>1, Zenon DEF Process0, Idle
  <1>4. \A n \in 0..Batch : [Idle EXCEPT !.pc = "poll", !.left = n] \in Process0
    BY Zenon DEF Process0, Idle
  <1>5. \A j \in Job, n \in 0..Batch :
          [Idle EXCEPT !.pc = "selected", !.job = j, !.left = n] \in Process0
    BY Zenon DEF Process0, Idle
  <1>6. \A j \in Job : [Idle EXCEPT !.pc = "apply", !.job = j] \in Process0
    BY <1>1, Zenon DEF Process0, Idle
  <1>7. \A w \in Why : [x EXCEPT !.pc = "failed", !.why = w] \in Process0
    BY Zenon DEF Process0
  <1>8. \A j \in Job : [x EXCEPT !.wakes = @ \ {j}] \in Process0
    BY Zenon DEF Process0
  <1>9. [x EXCEPT !.pc = "claimed"] \in Process0 /\ [x EXCEPT !.pc = "run"] \in Process0
    BY Zenon DEF Process0
  <1>. QED  BY <1>2, <1>3, <1>4, <1>5, <1>6, <1>7, <1>8, <1>9, Zenon

\* A process that ends a run, or whose run failed, goes on with the same batch.
LEMMA FinishedTyped ==
    ASSUME proc \in [Process -> Process0], NEW p \in Process
    PROVE  Finished(p) \in Process0 /\ \A w \in Why : FailedBy(p, w) \in Process0
  <1>1. proc[p] \in Process0 /\ proc[p].left \in 0..Batch
    BY Zenon DEF Process0
  <1>. QED  BY <1>1, ProcessTyped, Zenon DEF Finished, FailedBy

\* No writer and one writer are at most one.
LEMMA OneWriter ==
    ASSUME Writing
    PROVE  writer \subseteq Process /\ Cardinality(writer) <= 1
  <1>1. CASE writer = {}
    BY <1>1, FS_EmptySet
  <1>2. ASSUME NEW p \in Process, writer = {p} PROVE writer \subseteq Process /\ Cardinality(writer) <= 1
    <2>1. Cardinality({p}) = 1
      BY FS_Singleton, Zenon
    <2>. QED  BY <1>2, <2>1
  <1>. QED  BY <1>1, <1>2, Zenon DEF Writing

-----------------------------------------------------------------------------
(* What a step does to a job.                                              *)

Keeps(j) ==
    /\ row'[j].state = row[j].state /\ effects'[j] = effects[j]
    /\ row[j].state = "running" => \A p \in Process : j \in held'[p] => j \in held[p]

Resets(j) ==
    /\ row[j].state # "completed" /\ ~row[j].leased
    /\ row'[j].state = "waiting" /\ effects'[j] = effects[j]

Claims(p, j) ==
    /\ row[j].state # "completed" /\ ~row[j].leased
    /\ row'[j].state = "running" /\ effects'[j] = effects[j]
    /\ \A k \in Job \ {j} : row'[k].state # "running"
    /\ \A q \in Process : j \in held'[q] => q = p

Defers(p, j) ==
    /\ Owns(p, j) /\ proc[p].pc = "failed" /\ proc'[p].pc = "poll"
    /\ row'[j].state \notin {"running", "completed"} /\ effects'[j] = effects[j]

Completes(j) ==
    /\ row[j].state # "completed"
    /\ row'[j].state = "completed" /\ effects'[j] = effects[j] + 1
    /\ \/ ~row[j].leased
       \/ \E p \in Process : /\ Owns(p, j) /\ proc[p].pc = "run"
                             /\ proc'[p].pc \in {"poll", "failed"}

Moves ==
    /\ row' \in [Job -> Row] /\ effects' \in [Job -> Nat]
    /\ \A j \in Job : /\ Sound(row'[j])
                      /\ \/ Keeps(j) \/ Resets(j) \/ Completes(j)
                         \/ \E p \in Process : Claims(p, j) \/ Defers(p, j)

\* A step that leaves the rows alone, and gives a process no version of a
\* running job.
LEMMA StillMoves ==
    ASSUME PromotionTypeOK, UNCHANGED <<row, effects>>,
           \A p \in Process, j \in Job :
             row[j].state = "running" /\ j \in held'[p] => j \in held[p]
    PROVE  Moves
  BY TypeParts, Zenon DEF Moves, Keeps

\* Some jobs are reset, the others are left alone.
LEMMA ResetMoves ==
    ASSUME PromotionTypeOK, NEW js \in SUBSET Job, UNCHANGED effects,
           \A j \in js : row[j].state # "completed" /\ ~row[j].leased,
           row' = [j \in Job |-> IF j \in js THEN Fresh ELSE row[j]],
           \A p \in Process : held'[p] \subseteq held[p]
    PROVE  Moves
  <1>1. /\ row \in [Job -> Row] /\ effects \in [Job -> Nat]
        /\ \A j \in Job : Sound(row[j])
    BY TypeParts, Zenon
  <1>2. Fresh \in Row
    BY FreshSound, Zenon DEF Sound
  <1>3. row' \in [Job -> Row]
    BY <1>1, <1>2, Zenon
  <1>4. ASSUME NEW j \in Job
        PROVE  Sound(row'[j]) /\ (Keeps(j) \/ Resets(j))
    <2>1. CASE j \in js
      BY <2>1, FreshSound, Zenon DEF Resets
    <2>2. CASE j \notin js
      BY <2>2, <1>1, Zenon DEF Keeps
    <2>. QED  BY <2>1, <2>2, Zenon
  <1>. QED  BY <1>1, <1>3, <1>4, Zenon DEF Moves

\* A job that is first submitted.
LEMMA SubmitMoves ==
    ASSUME PromotionTypeOK, NEW j \in Job, Submit(j)
    PROVE  Moves
  <1>1. row \in [Job -> Row] /\ Sound(row[j])
    BY TypeParts, Zenon
  <1>2. row[j].state # "completed" /\ ~row[j].leased
    BY <1>1, Zenon DEF Sound, Submit
  <1>3. row' = [k \in Job |-> IF k \in {j} THEN Fresh ELSE row[k]]
    BY <1>1, Zenon DEF Submit
  <1>4. UNCHANGED effects /\ \A p \in Process : held'[p] \subseteq held[p]
    BY Zenon DEF Submit
  <1>5. {j} \in SUBSET Job /\ \A k \in {j} : row[k].state # "completed" /\ ~row[k].leased
    BY <1>2, Zenon
  <1>. QED  BY <1>3, <1>4, <1>5, ResetMoves, Zenon

\* A retried job.
LEMMA RetryMoves ==
    ASSUME PromotionTypeOK, NEW j \in Job, Retry(j)
    PROVE  Moves
  <1>1. row \in [Job -> Row]
    BY TypeParts, Zenon
  <1>2. row[j].state # "completed" /\ ~row[j].leased
    BY Zenon DEF Retry
  <1>3. row' = [k \in Job |-> IF k \in {j} THEN Fresh ELSE row[k]]
    BY <1>1, Zenon DEF Retry
  <1>4. UNCHANGED effects /\ \A p \in Process : held'[p] \subseteq held[p]
    BY Zenon DEF Retry, NewVersion
  <1>5. {j} \in SUBSET Job /\ \A k \in {j} : row[k].state # "completed" /\ ~row[k].leased
    BY <1>2, Zenon
  <1>. QED  BY <1>3, <1>4, <1>5, ResetMoves, Zenon

\* The jobs a publication wakes.
LEMMA PublishMoves ==
    ASSUME PromotionTypeOK, NEW j \in Job, Publish(j)
    PROVE  Moves
  <1>. DEFINE woken == {k \in published' : row[k].state = "sourceless"}
  <1>1. published' \subseteq Job /\ \A k \in Job : Sound(row[k])
    BY TypeParts, Zenon DEF Publish
  <1>2. \A k \in woken : row[k].state # "completed" /\ ~row[k].leased
    BY <1>1, Zenon DEF Sound
  <1>3. /\ row' = [k \in Job |-> IF k \in woken THEN Fresh ELSE row[k]]
        /\ held' = NewVersion(woken, {}) /\ UNCHANGED effects
    BY Zenon DEF Publish
  <1>4. \A p \in Process : held'[p] \subseteq held[p]
    BY <1>3, Zenon DEF NewVersion
  <1>5. woken \in SUBSET Job
    BY <1>1, Zenon
  <1>. HIDE DEF woken
  <1>. QED  BY <1>2, <1>3, <1>4, <1>5, ResetMoves, Zenon

\* A job the worker wakes.
LEMMA WakeMoves ==
    ASSUME PromotionTypeOK, NEW p \in Process, NEW j \in Job, Wake(p, j)
    PROVE  Moves
  <1>1. row \in [Job -> Row] /\ Sound(row[j])
    BY TypeParts, Zenon
  <1>2. CASE j \in held[p] /\ row[j].state = "sourceless"
    <2>1. row[j].state # "completed" /\ ~row[j].leased
      BY <1>1, <1>2, Zenon DEF Sound
    <2>2. row' = [k \in Job |-> IF k \in {j} THEN Fresh ELSE row[k]]
      BY <1>1, <1>2, Zenon DEF Wake
    <2>3. UNCHANGED effects /\ \A q \in Process : held'[q] \subseteq held[q]
      BY <1>2, Zenon DEF Wake, NewVersion
    <2>4. {j} \in SUBSET Job /\ \A k \in {j} : row[k].state # "completed" /\ ~row[k].leased
      BY <2>1, Zenon
    <2>. QED  BY <2>2, <2>3, <2>4, ResetMoves, Zenon
  <1>3. CASE ~(j \in held[p] /\ row[j].state = "sourceless")
    BY <1>3, StillMoves, Zenon DEF Wake
  <1>. QED  BY <1>2, <1>3, Zenon

\* Time passes for a job.
LEMMA TimeMoves ==
    ASSUME PromotionTypeOK, NEW j \in Job, FallDue(j) \/ Expire(j)
    PROVE  Moves
  <1>1. /\ row \in [Job -> Row] /\ effects \in [Job -> Nat]
        /\ \A k \in Job : Sound(row[k])
    BY TypeParts, Zenon
  <1>2. PICK r \in Row : Sound(r) /\ r.state = row[j].state /\ row' = [row EXCEPT ![j] = r]
    <2>1. CASE FallDue(j)
      <3>1. row' = [row EXCEPT ![j] = [row[j] EXCEPT !.due = TRUE]]
        BY <2>1, <1>1, Zenon DEF FallDue
      <3>. QED  BY <3>1, <1>1, TimeSound, Zenon DEF Sound
    <2>2. CASE Expire(j)
      <3>1. row' = [row EXCEPT ![j] = [row[j] EXCEPT !.leased = FALSE]]
        BY <2>2, <1>1, Zenon DEF Expire
      <3>. QED  BY <3>1, <1>1, TimeSound, Zenon DEF Sound
    <2>. QED  BY <2>1, <2>2, Zenon
  <1>3. row' \in [Job -> Row] /\ \A k \in Job : Sound(row'[k]) /\ row'[k].state = row[k].state
    BY <1>1, <1>2, Zenon
  <1>4. UNCHANGED <<effects, held>>
    BY Zenon DEF FallDue, Expire
  <1>. QED  BY <1>1, <1>3, <1>4, Zenon DEF Moves, Keeps

\* A claimed job.
LEMMA ClaimMoves ==
    ASSUME PromotionTypeOK, NEW p \in Process, NEW j \in Job, Claim(p, j)
    PROVE  Moves
  <1>1. /\ row \in [Job -> Row] /\ effects \in [Job -> Nat]
        /\ \A k \in Job : Sound(row[k])
    BY TypeParts, Zenon
  <1>2. /\ row' = [row EXCEPT ![j] = Running(row[j])]
        /\ held' = NewVersion({j}, {p}) /\ UNCHANGED effects
        /\ row[j].state \in Queue /\ ~row[j].leased
        /\ \A k \in Job \ {j} : row[k].state # "running"
    BY <1>1, Zenon DEF Claim, Claimable
  <1>3. Running(row[j]) \in Row /\ Sound(Running(row[j])) /\ Running(row[j]).state = "running"
    BY <1>1, RunningSound, Zenon DEF Sound
  <1>4. row' \in [Job -> Row] /\ \A k \in Job : Sound(row'[k])
    BY <1>1, <1>2, <1>3, Zenon
  <1>5. Claims(p, j)
    BY <1>1, <1>2, <1>3, Zenon DEF Claims, Queue, NewVersion
  <1>6. \A k \in Job \ {j} : Keeps(k)
    BY <1>1, <1>2, Zenon DEF Keeps
  <1>. QED  BY <1>1, <1>2, <1>4, <1>5, <1>6, Zenon DEF Moves

\* A job that fails.
LEMMA FinishMoves ==
    ASSUME PromotionTypeOK, Busy, NEW p \in Process, Finish(p)
    PROVE  Moves
  <1>. DEFINE j == proc[p].job
  <1>1. /\ row \in [Job -> Row] /\ effects \in [Job -> Nat] /\ proc \in [Process -> Process0]
        /\ \A k \in Job : Sound(row[k])
    BY TypeParts, Zenon
  <1>2. j \in Job /\ proc[p].why \in Why /\ proc[p].pc = "failed"
    BY Zenon DEF Busy, Finish
  <1>3. UNCHANGED <<effects, held>> /\ proc'[p].pc = "poll"
    BY <1>1, Zenon DEF Finish, Finished, Idle
  <1>4. CASE Owns(p, j)
    <2>1. row' = [row EXCEPT ![j] = Deferred(row[j], proc[p].why)]
      BY <1>1, <1>2, <1>4, Zenon DEF Finish
    <2>2. PICK r \in Row : /\ Sound(r) /\ row' = [row EXCEPT ![j] = r]
                           /\ r.state \notin {"running", "completed"}
      BY <1>1, <1>2, <2>1, DeferredSound, Zenon DEF Sound
    <2>3. row' \in [Job -> Row] /\ \A k \in Job : Sound(row'[k])
      BY <1>1, <2>2, Zenon
    <2>4. Defers(p, j)
      BY <1>1, <1>2, <1>3, <1>4, <2>2, Zenon DEF Defers
    <2>5. \A k \in Job \ {j} : Keeps(k)
      BY <1>1, <1>3, <2>2, Zenon DEF Keeps
    <2>. QED  BY <1>1, <1>3, <2>3, <2>4, <2>5, Zenon DEF Moves
  <1>5. CASE ~Owns(p, j)
    BY <1>3, <1>5, StillMoves, Zenon DEF Finish
  <1>. QED  BY <1>4, <1>5, Zenon

\* A job that is carried out and completed.
LEMMA CompleteMoves ==
    ASSUME PromotionTypeOK, Busy, NEW p \in Process, Complete(p)
    PROVE  Moves
  <1>. DEFINE j == proc[p].job
  <1>1. /\ row \in [Job -> Row] /\ effects \in [Job -> Nat] /\ proc \in [Process -> Process0]
        /\ \A k \in Job : Sound(row[k])
    BY TypeParts, Zenon
  <1>2. j \in Job /\ proc[p].pc = "run" /\ Owns(p, j) /\ UNCHANGED held
    BY Zenon DEF Busy, Complete
  <1>3. proc'[p].pc \in {"poll", "failed"}
    BY <1>1, Zenon DEF Complete, Finished, FailedBy, Idle, Process0
  <1>4. /\ row' = [row EXCEPT ![j] = [row[j] EXCEPT !.state = "completed", !.leased = FALSE]]
        /\ effects' = [effects EXCEPT ![j] = effects[j] + 1]
    BY <1>1, <1>2, Zenon DEF Complete
  <1>5. PICK r \in Row : Sound(r) /\ row' = [row EXCEPT ![j] = r] /\ r.state = "completed"
    BY <1>1, <1>2, <1>4, CompletedSound, Zenon DEF Sound
  <1>6. row' \in [Job -> Row] /\ effects' \in [Job -> Nat] /\ \A k \in Job : Sound(row'[k])
    BY <1>1, <1>2, <1>4, <1>5
  <1>7. Completes(j)
    BY <1>1, <1>2, <1>3, <1>4, <1>5, Zenon DEF Completes, Owns
  <1>8. \A k \in Job \ {j} : Keeps(k)
    BY <1>1, <1>2, <1>4, <1>5, Zenon DEF Keeps
  <1>. QED  BY <1>6, <1>7, <1>8, Zenon DEF Moves

\* A job whose contributions a checkpoint applies.
LEMMA ApplyMoves ==
    ASSUME PromotionTypeOK, Busy, NEW p \in Process, ApplyCommit(p)
    PROVE  Moves
  <1>. DEFINE j == proc[p].job
              reset == IF row[j].state = "completed" THEN row ELSE [row EXCEPT ![j] = Fresh]
              done == ~row[j].leased /\ Claimable(reset, j)
  <1>1. /\ row \in [Job -> Row] /\ effects \in [Job -> Nat]
        /\ \A k \in Job : Sound(row[k])
    BY TypeParts, Zenon
  <1>2. j \in Job
    BY Zenon DEF Busy, ApplyCommit
  <1>3. CASE done
    <2>1. row[j].state # "completed" /\ ~row[j].leased
      BY <1>2, <1>3, Zenon DEF Claimable, Queue
    <2>2. reset = [row EXCEPT ![j] = Fresh] /\ reset[j] = Fresh
      BY <1>1, <1>2, <2>1, Zenon
    <2>3. /\ row' = [reset EXCEPT ![j] = [Running(reset[j]) EXCEPT !.state = "completed", !.leased = FALSE]]
          /\ held' = NewVersion({j}, {})
          /\ effects' = [effects EXCEPT ![j] = effects[j] + 1]
      BY <1>1, <1>2, <1>3, <2>2, Zenon DEF ApplyCommit
    <2>4. Running(Fresh) \in Row
      BY FreshSound, RunningSound, Zenon DEF Sound
    <2>5. PICK r \in Row : Sound(r) /\ row' = [row EXCEPT ![j] = r] /\ r.state = "completed"
      BY <1>1, <1>2, <2>2, <2>3, <2>4, CompletedSound, Zenon DEF Sound
    <2>6. row' \in [Job -> Row] /\ effects' \in [Job -> Nat] /\ \A k \in Job : Sound(row'[k])
      BY <1>1, <1>2, <2>3, <2>5
    <2>7. Completes(j)
      BY <1>1, <1>2, <2>1, <2>3, <2>5 DEF Completes
    <2>8. \A k \in Job \ {j} : Keeps(k)
      BY <1>1, <1>2, <2>3, <2>5, Zenon DEF Keeps, NewVersion
    <2>. QED  BY <2>6, <2>7, <2>8, Zenon DEF Moves
  <1>4. CASE ~done
    BY <1>4, StillMoves, Zenon DEF ApplyCommit
  <1>. QED  BY <1>3, <1>4, Zenon

\* The jobs a worker reads to wake them are not running.
LEMMA PollMoves ==
    ASSUME PromotionTypeOK, NEW p \in Process, Poll(p)
    PROVE  Moves
  <1>1. held \in [Process -> SUBSET Job]
    BY TypeParts, Zenon
  <1>2. \A q \in Process, j \in Job :
          row[j].state = "running" /\ j \in held'[q] => j \in held[q]
    BY <1>1, Zenon DEF Poll
  <1>. QED  BY <1>2, StillMoves, Zenon DEF Poll

\* Every step moves jobs in one of these ways.
LEMMA StepMoves ==
    ASSUME PromotionTypeOK, Busy, PromotionNext
    PROVE  Moves
  <1>1. ASSUME NEW j \in Job, Order(j)
        PROVE  Moves
    BY <1>1, StillMoves, Zenon DEF Order
  <1>2. ASSUME NEW j \in Job, Submit(j) \/ Publish(j) \/ Retry(j) \/ FallDue(j) \/ Expire(j)
        PROVE  Moves
    BY <1>2, SubmitMoves, PublishMoves, RetryMoves, TimeMoves, Zenon
  <1>3. ASSUME NEW p \in Process,
               \/ Deliver(p) \/ PollEnds(p) \/ ClaimMissed(p) \/ Begin(p) \/ Aborted(p) \/ Stop(p)
               \/ \E j \in Job : Select(p, j) \/ ApplyRead(p, j)
               \/ \E why \in Why : RunFails(p, why)
        PROVE  Moves
    <2>1. UNCHANGED <<row, effects, held>>
      BY <1>3, Zenon DEF Deliver, PollEnds, ClaimMissed, Begin, Aborted, Stop, Select, ApplyRead, RunFails
    <2>. QED  BY <2>1, StillMoves, Zenon
  <1>4. ASSUME NEW p \in Process, Poll(p) \/ Complete(p) \/ Finish(p) \/ ApplyCommit(p)
        PROVE  Moves
    BY <1>4, PollMoves, CompleteMoves, FinishMoves, ApplyMoves, Zenon
  <1>5. ASSUME NEW p \in Process, NEW j \in Job, Wake(p, j) \/ Claim(p, j)
        PROVE  Moves
    BY <1>5, WakeMoves, ClaimMoves, Zenon
  <1>. QED  BY <1>1, <1>2, <1>3, <1>4, <1>5, Zenon DEF PromotionNext, Why

-----------------------------------------------------------------------------
(* What a step does to the processes and the rest of the state.            *)

\* What Busy says of one process.
Working(x) ==
    /\ x \in Process0
    /\ x.pc \in {"selected", "claimed", "run", "failed", "apply"} => x.job \in Job
    /\ x.pc = "failed" => x.why \in Why

\* One process goes on.
LEMMA ProcessGoesOn ==
    ASSUME PromotionTypeOK, Busy, NEW p \in Process, NEW x, Working(x),
           proc' = [proc EXCEPT ![p] = x]
    PROVE  proc' \in [Process -> Process0] /\ Busy'
  <1>1. proc \in [Process -> Process0]
    BY TypeParts, Zenon
  <1>. QED  BY <1>1, Zenon DEF Busy, Working

\* What each process does keeps it at work.
LEMMA ProcessStep ==
    ASSUME PromotionTypeOK, Busy, NEW p \in Process,
           \/ Poll(p) \/ Deliver(p) \/ PollEnds(p) \/ ClaimMissed(p)
           \/ Begin(p) \/ Complete(p) \/ Aborted(p) \/ Finish(p) \/ Stop(p) \/ ApplyCommit(p)
           \/ \E j \in Job : Wake(p, j) \/ Select(p, j) \/ Claim(p, j) \/ ApplyRead(p, j)
           \/ \E why \in Why : RunFails(p, why)
    PROVE  \E x : Working(x) /\ proc' = [proc EXCEPT ![p] = x]
  <1>. USE DEF Working
  <1>1. /\ proc \in [Process -> Process0] /\ published \subseteq Job
        /\ proc[p] \in Process0 /\ proc[p].left \in 0..Batch
        /\ 0 \in 0..Batch /\ 1 \in 0..Batch /\ Batch \in 0..Batch
    BY TypeParts, Numbers DEF Process0
  <1>2. CASE Poll(p)
    <2>. DEFINE waiting == {j \in published : row[j].state = "sourceless"}
                x == [Idle EXCEPT !.pc = "poll", !.wakes = waiting, !.left = Batch]
    <2>1. x \in Process0
      BY <1>1, ProcessTyped, Zenon
    <2>2. x.pc = "poll"
      BY Zenon DEF Idle
    <2>3. proc' = [proc EXCEPT ![p] = x]
      BY <1>2, Zenon DEF Poll
    <2>. QED  BY <2>1, <2>2, <2>3, Zenon
  <1>3. CASE Deliver(p)
    <2>. DEFINE x == [Idle EXCEPT !.pc = "poll", !.left = 1]
    <2>1. x \in Process0
      BY <1>1, ProcessTyped, Zenon
    <2>2. x.pc = "poll"
      BY Zenon DEF Idle
    <2>3. proc' = [proc EXCEPT ![p] = x]
      BY <1>3, Zenon DEF Deliver
    <2>. QED  BY <2>1, <2>2, <2>3, Zenon
  <1>4. CASE PollEnds(p) \/ ClaimMissed(p) \/ Stop(p) \/ ApplyCommit(p)
    <2>1. proc' = [proc EXCEPT ![p] = Idle]
      BY <1>4, Zenon DEF PollEnds, ClaimMissed, Stop, ApplyCommit
    <2>2. Idle \in Process0 /\ Idle.pc = "idle"
      BY <1>1, ProcessTyped, Zenon DEF Idle
    <2>. QED  BY <2>1, <2>2, Zenon
  <1>5. CASE Begin(p)
    <2>1. proc[p].job \in Job
      BY <1>5, Zenon DEF Begin, Busy
    <2>2. \/ proc' = [proc EXCEPT ![p] = [proc[p] EXCEPT !.pc = "run"]]
          \/ proc' = [proc EXCEPT ![p] = FailedBy(p, "temporary")]
      BY <1>5, <1>1, Zenon DEF Begin
    <2>3. Working([proc[p] EXCEPT !.pc = "run"])
      BY <1>1, <2>1, Zenon DEF Process0
    <2>4. Working(FailedBy(p, "temporary"))
      BY <1>1, <2>1, Zenon DEF Process0, FailedBy, Why
    <2>. QED  BY <2>2, <2>3, <2>4, Zenon
  <1>6. CASE Complete(p)
    <2>1. proc[p].job \in Job
      BY <1>6, Zenon DEF Complete, Busy
    <2>2. \/ proc' = [proc EXCEPT ![p] = Finished(p)]
          \/ proc' = [proc EXCEPT ![p] = FailedBy(p, "temporary")]
      BY <1>6, <1>1, Zenon DEF Complete
    <2>3. Working(Finished(p))
      BY <1>1, FinishedTyped, Zenon DEF Finished, Idle
    <2>4. Working(FailedBy(p, "temporary"))
      BY <1>1, <2>1, Zenon DEF Process0, FailedBy, Why
    <2>. QED  BY <2>2, <2>3, <2>4, Zenon
  <1>7. CASE Aborted(p)
    <2>1. proc[p].job \in Job
      BY <1>7, Zenon DEF Aborted, Busy
    <2>2. proc' = [proc EXCEPT ![p] = [proc[p] EXCEPT !.pc = "claimed"]]
      BY <1>7, <1>1, Zenon DEF Aborted
    <2>3. Working([proc[p] EXCEPT !.pc = "claimed"])
      BY <1>1, <2>1, Zenon DEF Process0
    <2>. QED  BY <2>2, <2>3, Zenon
  <1>8. CASE Finish(p)
    <2>1. proc' = [proc EXCEPT ![p] = Finished(p)]
      BY <1>8, Zenon DEF Finish
    <2>2. Working(Finished(p))
      BY <1>1, FinishedTyped, Zenon DEF Finished, Idle
    <2>. QED  BY <2>1, <2>2, Zenon
  <1>9. ASSUME NEW j \in Job, Wake(p, j)
        PROVE  \E x : Working(x) /\ proc' = [proc EXCEPT ![p] = x]
    <2>1. proc' = [proc EXCEPT ![p] = [proc[p] EXCEPT !.wakes = proc[p].wakes \ {j}]]
      BY <1>9, <1>1, Zenon DEF Wake
    <2>. DEFINE x == [proc[p] EXCEPT !.wakes = proc[p].wakes \ {j}]
    <2>2. x \in Process0
      BY <1>1, ProcessTyped, Zenon
    <2>3. x.pc = "poll"
      BY <1>9, <1>1, Zenon DEF Process0, Wake
    <2>. QED  BY <2>1, <2>2, <2>3, Zenon
  <1>10. ASSUME NEW j \in Job, Select(p, j)
         PROVE  \E x : Working(x) /\ proc' = [proc EXCEPT ![p] = x]
    <2>. DEFINE n == proc[p].left - 1
                x == [Idle EXCEPT !.pc = "selected", !.job = j, !.left = n]
    <2>1. n \in 0..Batch
      <3>1. proc[p].left > 0 /\ proc[p].left \in 0..Batch
        BY <1>10, <1>1, Zenon DEF Select
      <3>2. \A m \in 0..Batch : m > 0 => m - 1 \in 0..Batch
        BY Numbers
      <3>. QED  BY <3>1, <3>2, Zenon
    <2>2. proc' = [proc EXCEPT ![p] = x]
      BY <1>10, Zenon DEF Select
    <2>. HIDE DEF n
    <2>3. x \in Process0
      BY <1>1, <2>1, ProcessTyped, Zenon
    <2>4. x.pc = "selected" /\ x.job = j
      BY Zenon DEF Idle
    <2>. QED  BY <2>2, <2>3, <2>4, Zenon
  <1>11. ASSUME NEW j \in Job, Claim(p, j)
         PROVE  \E x : Working(x) /\ proc' = [proc EXCEPT ![p] = x]
    <2>1. proc' = [proc EXCEPT ![p] = [proc[p] EXCEPT !.pc = "claimed"]] /\ proc[p].job = j
      BY <1>11, <1>1, Zenon DEF Claim
    <2>2. Working([proc[p] EXCEPT !.pc = "claimed"])
      BY <1>1, <2>1, Zenon DEF Process0
    <2>. QED  BY <2>1, <2>2, Zenon
  <1>12. ASSUME NEW j \in Job, ApplyRead(p, j)
         PROVE  \E x : Working(x) /\ proc' = [proc EXCEPT ![p] = x]
    <2>. DEFINE x == [Idle EXCEPT !.pc = "apply", !.job = j]
    <2>1. proc' = [proc EXCEPT ![p] = x]
      BY <1>12, Zenon DEF ApplyRead
    <2>2. x \in Process0
      BY <1>1, ProcessTyped, Zenon
    <2>3. x.pc = "apply" /\ x.job = j
      BY Zenon DEF Idle
    <2>. QED  BY <2>1, <2>2, <2>3, Zenon
  <1>13. ASSUME NEW why \in Why, RunFails(p, why)
         PROVE  \E x : Working(x) /\ proc' = [proc EXCEPT ![p] = x]
    <2>1. proc[p].job \in Job /\ proc' = [proc EXCEPT ![p] = FailedBy(p, why)]
      BY <1>13, Zenon DEF RunFails, Busy
    <2>2. Working(FailedBy(p, why))
      BY <1>1, <2>1, Zenon DEF Process0, FailedBy
    <2>. QED  BY <2>1, <2>2, Zenon
  <1>. HIDE DEF Working
  <1>. QED  BY <1>2, <1>3, <1>4, <1>5, <1>6, <1>7, <1>8, <1>9, <1>10, <1>11, <1>12, <1>13, Zenon

\* The processes stay at work.
LEMMA BusyStep ==
    ASSUME PromotionTypeOK, Busy, PromotionNext
    PROVE  proc' \in [Process -> Process0] /\ Busy'
  <1>1. ASSUME NEW j \in Job,
               Submit(j) \/ Publish(j) \/ Order(j) \/ Retry(j) \/ FallDue(j) \/ Expire(j)
        PROVE  proc' \in [Process -> Process0] /\ Busy'
    <2>1. UNCHANGED proc
      BY <1>1, Zenon DEF Submit, Publish, Order, Retry, FallDue, Expire
    <2>. QED  BY <2>1, TypeParts, Zenon DEF Busy
  <1>2. ASSUME NEW p \in Process,
           \/ Poll(p) \/ Deliver(p) \/ PollEnds(p) \/ ClaimMissed(p)
           \/ Begin(p) \/ Complete(p) \/ Aborted(p) \/ Finish(p) \/ Stop(p) \/ ApplyCommit(p)
           \/ \E j \in Job : Wake(p, j) \/ Select(p, j) \/ Claim(p, j) \/ ApplyRead(p, j)
           \/ \E why \in Why : RunFails(p, why)
        PROVE  proc' \in [Process -> Process0] /\ Busy'
    BY <1>2, ProcessStep, ProcessGoesOn, Zenon
  <1>. QED  BY <1>1, <1>2, Zenon DEF PromotionNext, Why

\* A transaction begins when there is no other.
LEMMA WritingStep ==
    ASSUME Writing, PromotionNext
    PROVE  Writing'
  <1>1. ASSUME NEW p \in Process, Stop(p)
        PROVE  Writing'
    BY <1>1, Zenon DEF Writing, Stop
  <1>2. ASSUME NEW p \in Process, Begin(p) \/ \E j \in Job : ApplyRead(p, j)
        PROVE  Writing'
    BY <1>2, Zenon DEF Writing, Begin, ApplyRead
  <1>3. ASSUME NEW p \in Process,
               Complete(p) \/ Aborted(p) \/ ApplyCommit(p) \/ \E why \in Why : RunFails(p, why)
        PROVE  Writing'
    BY <1>3, Zenon DEF Writing, Complete, Aborted, ApplyCommit, RunFails
  <1>4. ASSUME NEW p \in Process,
               \/ Poll(p) \/ Deliver(p) \/ PollEnds(p) \/ ClaimMissed(p) \/ Finish(p)
               \/ \E j \in Job : Wake(p, j) \/ Select(p, j) \/ Claim(p, j)
        PROVE  Writing'
    BY <1>4, Zenon DEF Writing, Poll, Deliver, PollEnds, ClaimMissed, Finish, Wake, Select, Claim
  <1>5. ASSUME NEW j \in Job,
               Submit(j) \/ Publish(j) \/ Order(j) \/ Retry(j) \/ FallDue(j) \/ Expire(j)
        PROVE  Writing'
    BY <1>5, Zenon DEF Writing, Submit, Publish, Order, Retry, FallDue, Expire
  <1>. QED  BY <1>1, <1>2, <1>3, <1>4, <1>5, Zenon DEF PromotionNext, Why

\* The evidence, the versions and the counters keep their types.
LEMMA RestTyped ==
    ASSUME PromotionTypeOK, Busy, PromotionNext
    PROVE  /\ published' \subseteq Job /\ ordered' \subseteq Job
           /\ held' \in [Process -> SUBSET Job]
           /\ retries' \in 0..MaxRetries /\ faults' \in 0..MaxFaults
  <1>. DEFINE Rest == /\ published' \subseteq Job /\ ordered' \subseteq Job
                      /\ held' \in [Process -> SUBSET Job]
                      /\ retries' \in 0..MaxRetries /\ faults' \in 0..MaxFaults
  <1>1. /\ published \subseteq Job /\ ordered \subseteq Job
        /\ held \in [Process -> SUBSET Job]
        /\ retries \in 0..MaxRetries /\ faults \in 0..MaxFaults
    BY TypeParts, Zenon
  <1>2. ASSUME NEW j \in Job, Publish(j)
        PROVE  Rest
    <2>. DEFINE woken == {k \in published' : row[k].state = "sourceless"}
    <2>1. published' \subseteq Job /\ UNCHANGED <<ordered, retries, faults>>
      BY <1>1, <1>2, Zenon DEF Publish
    <2>2. woken \in SUBSET Job /\ held' = NewVersion(woken, {})
      BY <1>2, <2>1, Zenon DEF Publish
    <2>. HIDE DEF woken
    <2>3. held' \in [Process -> SUBSET Job]
      BY <1>1, <2>2, VersionTyped, Zenon
    <2>. QED  BY <1>1, <2>1, <2>3, Zenon
  <1>3. ASSUME NEW j \in Job, Retry(j)
        PROVE  Rest
    <2>1. held' \in [Process -> SUBSET Job]
      BY <1>1, <1>3, VersionTyped, Zenon DEF Retry
    <2>2. retries' \in 0..MaxRetries
      BY <1>1, <1>3, Numbers DEF Retry
    <2>. QED  BY <1>1, <1>3, <2>1, <2>2, Zenon DEF Retry
  <1>4. ASSUME NEW j \in Job, Submit(j) \/ Order(j) \/ FallDue(j) \/ Expire(j)
        PROVE  Rest
    BY <1>1, <1>4, Zenon DEF Submit, Order, FallDue, Expire
  <1>5. ASSUME NEW p \in Process, Poll(p)
        PROVE  Rest
    BY <1>1, <1>5, Zenon DEF Poll
  <1>6. ASSUME NEW p \in Process, NEW j \in Job, Wake(p, j) \/ Claim(p, j)
        PROVE  Rest
    <2>1. held' \in [Process -> SUBSET Job]
      <3>1. {j} \in SUBSET Job
        OBVIOUS
      <3>2. held' = held \/ held' = NewVersion({j}, {}) \/ held' = NewVersion({j}, {p})
        BY <1>6, Zenon DEF Wake, Claim
      <3>3. held \in [Process -> SUBSET Job]
        BY <1>1, Zenon
      <3>4. \A ps : NewVersion({j}, ps) \in [Process -> SUBSET Job]
        BY <3>1, <3>3, VersionTyped, Zenon
      <3>. QED  BY <3>2, <3>3, <3>4, Zenon
    <2>. QED  BY <1>1, <1>6, <2>1, Zenon DEF Wake, Claim
  <1>7. ASSUME NEW p \in Process, ApplyCommit(p)
        PROVE  Rest
    <2>1. {proc[p].job} \in SUBSET Job
      BY <1>7, Zenon DEF Busy, ApplyCommit
    <2>2. held' \in [Process -> SUBSET Job]
      BY <1>1, <1>7, <2>1, VersionTyped, Zenon DEF ApplyCommit
    <2>. QED  BY <1>1, <1>7, <2>2, Zenon DEF ApplyCommit
  <1>8. ASSUME NEW p \in Process, Complete(p) \/ Aborted(p) \/ Stop(p)
        PROVE  Rest
    <2>1. faults' \in 0..MaxFaults
      BY <1>1, <1>8, Numbers DEF Complete, Aborted, Stop, Spend
    <2>. QED  BY <1>1, <1>8, <2>1, Zenon DEF Complete, Aborted, Stop
  <1>9. ASSUME NEW p \in Process,
               \/ Deliver(p) \/ PollEnds(p) \/ ClaimMissed(p) \/ Begin(p) \/ Finish(p)
               \/ \E j \in Job : Select(p, j) \/ ApplyRead(p, j)
               \/ \E why \in Why : RunFails(p, why)
        PROVE  Rest
    BY <1>1, <1>9, Zenon DEF Deliver, PollEnds, ClaimMissed, Begin, Finish, Select, ApplyRead, RunFails
  <1>. HIDE DEF Rest
  <1>10. Rest
    BY <1>2, <1>3, <1>4, <1>5, <1>6, <1>7, <1>8, <1>9, Zenon DEF PromotionNext, Why
  <1>. QED  BY <1>10, Zenon DEF Rest

-----------------------------------------------------------------------------
(* The invariant.                                                          *)

\* The invariant holds initially.
LEMMA InitInvariant == PromotionInit => PromotionInv
  <1>. SUFFICES ASSUME PromotionInit PROVE PromotionInv
    BY Zenon
  <1>1. \A j \in Job : row[j].state = "none" /\ Sound(row[j]) /\ row[j] \in Row
    BY Numbers DEF PromotionInit, Sound, Row, Queue
  <1>2. row \in [Job -> Row] /\ effects \in [Job -> Nat] /\ held \in [Process -> SUBSET Job]
    BY <1>1, Zenon DEF PromotionInit
  <1>3. Idle \in Process0 /\ Idle.pc = "idle"
    BY Numbers DEF Idle, Process0
  <1>4. proc \in [Process -> Process0] /\ Busy
    BY <1>3, Zenon DEF PromotionInit, Busy
  <1>5. Writing /\ published \subseteq Job /\ ordered \subseteq Job
    BY Zenon DEF PromotionInit, Writing
  <1>6. retries \in 0..MaxRetries /\ faults \in 0..MaxFaults
    BY Numbers DEF PromotionInit
  <1>7. PromotionTypeOK
    BY <1>1, <1>2, <1>4, <1>5, <1>6, OneWriter, TypeParts, Zenon
  <1>8. Alone /\ SoleHolder /\ Recorded
    BY <1>1, Zenon DEF PromotionInit, Alone, SoleHolder, Recorded
  <1>. QED  BY <1>4, <1>5, <1>7, <1>8, Zenon DEF PromotionInv

\* What the moves of the jobs mean for the three facts about them.
LEMMA MovesKeep ==
    ASSUME PromotionInv, Moves
    PROVE  Alone' /\ SoleHolder' /\ Recorded'
  <1>1. /\ row \in [Job -> Row] /\ effects \in [Job -> Nat]
        /\ Alone /\ SoleHolder /\ Recorded
    BY TypeParts, Zenon DEF PromotionInv
  <1>2. ASSUME NEW j \in Job, row'[j].state = "running"
        PROVE  \/ row[j].state = "running" /\ Keeps(j)
               \/ \E p \in Process : Claims(p, j)
    BY <1>2, Zenon DEF Moves, Keeps, Resets, Completes, Defers
  <1>3. Alone'
    <2>. SUFFICES ASSUME NEW j \in Job, NEW k \in Job,
                         row'[j].state = "running", row'[k].state = "running"
                  PROVE  j = k
      BY Zenon DEF Alone
    <2>1. CASE row[j].state = "running" /\ row[k].state = "running"
      BY <1>1, <2>1, Zenon DEF Alone
    <2>2. CASE \E p \in Process : Claims(p, j) \/ Claims(p, k)
      BY <2>2, Zenon DEF Claims
    <2>. QED  BY <1>2, <2>1, <2>2, Zenon
  <1>4. SoleHolder'
    <2>. SUFFICES ASSUME NEW j \in Job, row'[j].state = "running",
                         NEW p \in Process, NEW q \in Process, j \in held'[p], j \in held'[q]
                  PROVE  p = q
      BY Zenon DEF SoleHolder
    <2>1. CASE row[j].state = "running" /\ Keeps(j)
      BY <1>1, <2>1, Zenon DEF Keeps, SoleHolder
    <2>2. CASE \E r \in Process : Claims(r, j)
      BY <2>2, Zenon DEF Claims
    <2>. QED  BY <1>2, <2>1, <2>2, Zenon
  <1>5. Recorded'
    <2>. SUFFICES ASSUME NEW j \in Job
                  PROVE  effects'[j] = IF row'[j].state = "completed" THEN 1 ELSE 0
      BY Zenon DEF Recorded
    <2>1. effects[j] = IF row[j].state = "completed" THEN 1 ELSE 0
      BY <1>1, Zenon DEF Recorded
    <2>2. CASE Keeps(j)
      BY <2>1, <2>2, Zenon DEF Keeps
    <2>3. CASE Resets(j)
      BY <2>1, <2>3, Zenon DEF Resets
    <2>4. CASE Completes(j)
      BY <2>1, <2>4 DEF Completes
    <2>5. CASE \E p \in Process : Claims(p, j)
      BY <2>1, <2>5, Zenon DEF Claims
    <2>6. CASE \E p \in Process : Defers(p, j)
      BY <2>1, <2>6, Zenon DEF Defers, Owns
    <2>. QED  BY <2>2, <2>3, <2>4, <2>5, <2>6, Zenon DEF Moves
  <1>. QED  BY <1>3, <1>4, <1>5, Zenon

\* Every step keeps the invariant.
LEMMA StepInvariant ==
    ASSUME PromotionInv, [PromotionNext]_promotionVars
    PROVE  PromotionInv'
  <1>1. CASE PromotionNext
    <2>. USE <1>1
    <2>1. PromotionTypeOK /\ Busy /\ Writing
      BY Zenon DEF PromotionInv
    <2>2. Moves /\ Alone' /\ SoleHolder' /\ Recorded'
      BY <2>1, StepMoves, MovesKeep, Zenon
    <2>3. proc' \in [Process -> Process0] /\ Busy' /\ Writing'
      BY <2>1, BusyStep, WritingStep, Zenon
    <2>4. (writer \subseteq Process /\ Cardinality(writer) <= 1)'
      BY <2>3, OneWriter, PTL
    <2>5. PromotionTypeOK'
      <3>1. row' \in [Job -> Row] /\ effects' \in [Job -> Nat] /\ \A j \in Job : Sound(row'[j])
        BY <2>2, Zenon DEF Moves
      <3>2. (/\ row \in [Job -> Row] /\ \A j \in Job : Sound(row[j])
             /\ published \subseteq Job /\ ordered \subseteq Job
             /\ proc \in [Process -> Process0]
             /\ held \in [Process -> SUBSET Job]
             /\ writer \subseteq Process /\ Cardinality(writer) <= 1
             /\ effects \in [Job -> Nat]
             /\ retries \in 0..MaxRetries /\ faults \in 0..MaxFaults)'
        BY <2>1, <2>3, <2>4, <3>1, RestTyped, Zenon
      <3>. QED  BY <3>2, TypeParts, PTL
    <2>. QED  BY <2>2, <2>3, <2>5, Zenon DEF PromotionInv
  <1>2. CASE UNCHANGED promotionVars
    BY <1>2, Zenon DEF promotionVars, PromotionInv, PromotionTypeOK, Busy, Writing, Alone, SoleHolder, Recorded
  <1>. QED  BY <1>1, <1>2, Zenon

\* The invariant of the promotion jobs.
THEOREM PromotionInvariance == PromotionSpec => []PromotionInv
  <1>1. PromotionInv /\ [PromotionNext]_promotionVars => PromotionInv'
    BY StepInvariant, Zenon
  <1>. QED  BY InitInvariant, <1>1, PTL DEF PromotionSpec

\* Every state is of its type, a lease belongs to a running job, at most one
\* process is in a transaction of the repository, and a job that has used up its
\* attempts is not put back in the queue by its run.
THEOREM PromotionTypeCorrect == PromotionSpec => []PromotionTypeOK
  BY PromotionInvariance, PTL DEF PromotionInv

\* For any number of workers and callers, at most one job of the repository is
\* running, whatever becomes claimable between the two looks of a claim.
THEOREM AtMostOneRunning == PromotionSpec => []OneRunning
  <1>1. PromotionInv => OneRunning
    <2>. SUFFICES ASSUME PromotionInv PROVE OneRunning
      BY Zenon
    <2>. DEFINE R == {j \in Job : row[j].state = "running"}
    <2>1. CASE R = {}
      BY <2>1, FS_EmptySet DEF OneRunning
    <2>2. CASE R # {}
      <3>1. PICK j \in Job : R = {j}
        BY <2>2 DEF PromotionInv, Alone
      <3>2. Cardinality({j}) = 1
        BY FS_Singleton, Zenon
      <3>3. Cardinality(R) = 1
        BY <3>1, <3>2, Zenon
      <3>. QED  BY <3>3 DEF OneRunning
    <2>. QED  BY <2>1, <2>2, Zenon
  <1>. QED  BY PromotionInvariance, <1>1, PTL

\* No job is carried out twice, by workers, synchronous deliveries and
\* checkpoints together, with lost answers, aborted transactions and any number
\* of requested retries.
THEOREM JobsAppliedOnce == PromotionSpec => []AppliedOnce
  <1>1. PromotionInv => AppliedOnce
    BY DEF PromotionInv, Recorded, AppliedOnce
  <1>. QED  BY PromotionInvariance, <1>1, PTL

\* As long as the lease of a claim lives, only the process that holds the claim
\* moves its job.
THEOREM ClaimsKept == PromotionSpec => ClaimKept
  <1>. DEFINE Kept ==
         \A p \in Process, j \in Job :
           /\ proc[p].pc \in {"claimed", "run", "failed"} /\ proc[p].job = j
           /\ Owns(p, j) /\ row[j].leased
           /\ row'[j].state # row[j].state
           => proc'[p].pc # proc[p].pc
  <1>1. ASSUME PromotionInv, PromotionNext
        PROVE  Kept
    <2>. SUFFICES ASSUME NEW p \in Process, NEW j \in Job,
                         Owns(p, j), row[j].leased, row'[j].state # row[j].state
                  PROVE  proc'[p].pc # proc[p].pc
      BY Zenon
    <2>1. Moves
      BY <1>1, StepMoves, Zenon DEF PromotionInv
    <2>2. \/ \E q \in Process : Defers(q, j)
          \/ \E q \in Process : Owns(q, j) /\ proc[q].pc = "run" /\ proc'[q].pc \in {"poll", "failed"}
      BY <2>1, Zenon DEF Moves, Keeps, Resets, Claims, Completes
    <2>3. PICK q \in Process : Owns(q, j) /\ proc'[q].pc # proc[q].pc
      BY <2>2, Zenon DEF Defers
    <2>4. p = q
      BY <1>1, <2>3, Zenon DEF PromotionInv, SoleHolder, Owns
    <2>. QED  BY <2>3, <2>4, Zenon
  <1>2. PromotionInv /\ [PromotionNext]_promotionVars => [Kept]_promotionVars
    BY <1>1, Zenon
  <1>. QED  BY PromotionInvariance, <1>2, PTL DEF PromotionSpec, ClaimKept

=============================================================================
