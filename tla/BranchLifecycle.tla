-------------------------- MODULE BranchLifecycle --------------------------
(***************************************************************************)
(* The life of one context branch in a repository of the legacy context    *)
(* protocol, replicated between the server (PostgresStore) and the file    *)
(* stores of the CLIs.  A replica holds a grow-only set of immutable       *)
(* lifecycle events, a mutable branch pointer and a HEAD; the events hide  *)
(* a pointer that an archive observed.  Replicas meet only when a CLI      *)
(* pushes its refs in one batch or pulls the server's list of refs, and a  *)
(* CLI process may die between two of its file writes.                     *)
(***************************************************************************)
EXTENDS Integers, Sequences, FiniteSets

CONSTANTS
    Client,      \* the CLIs
    Server,      \* the server's store
    Commit,      \* snapshots: positive numbers, ordered like their hashes
    Parent,      \* the parent of a snapshot, None for a root
    Root,        \* the snapshot every replica starts from
    MaxOps,      \* bound on archive and create commands and protection changes
    MaxSyncs,    \* bound on pushes and pulls running at once
    MaxCrashes   \* bound on CLI processes dying between two writes

None == 0
Symbolic == -1
Replica == Client \cup {Server}

ASSUME CommitAssumption ==
    /\ Commit \subseteq Nat \ {0}
    /\ Root \in Commit
    /\ Parent \in [Commit -> Commit \cup {None}]
    /\ Server \notin Client

ASSUME BoundAssumption == {MaxOps, MaxSyncs, MaxCrashes} \subseteq Nat

VARIABLES
    store,    \* per replica: lifecycle events, branch pointer and HEAD
    git,      \* per client: its Git repository has the branch
    made,     \* the snapshots that exist
    push,     \* per client: the running push
    pull,     \* per client: the running pull
    ops,      \* archive and create commands and changes of the protection so far
    crashes,  \* processes that died so far
    protect   \* the server protects the branch, its default one

vars == <<store, git, made, push, pull, ops, crashes, protect>>

----------------------------------------------------------------------------
(* Ancestry and the order of lifecycle events.                             *)

\* The snapshots reached from a snapshot over the parents.
Ancestors ==
    [s \in Commit |->
        {t \in Commit : \A C \in SUBSET Commit :
            (s \in C /\ \A u \in C : Parent[u] \in C \cup {None}) => t \in C}]

Holds(s, t) == t \in Ancestors[s]

Event(gen, state, target) == [gen |-> gen, state |-> state, target |-> target]

\* branchLifecycleLater: the generation decides, then active over archived,
\* then the target's hash.
Later(e, f) ==
    \/ e.gen > f.gen
    \/ e.gen = f.gen /\ e.state # f.state /\ e.state = "active"
    \/ e.gen = f.gen /\ e.state = f.state /\ e.target > f.target

Latest(log) == CHOOSE e \in log : \A f \in log \ {e} : Later(e, f)

Archived(log) == log # {} /\ Latest(log).state = "archived"

NextGeneration(log) == IF log = {} THEN 1 ELSE Latest(log).gen + 1

\* The push order of lifecycle refs: by name, which starts with the generation.
Before(e, f) ==
    \/ e.gen < f.gen
    \/ e.gen = f.gen /\ e.state # f.state /\ e.state = "active"
    \/ e.gen = f.gen /\ e.state = f.state /\ e.target < f.target

----------------------------------------------------------------------------
(* What a reader of a replica sees.                                        *)

\* An archive hides only the exact target it observed.
Hidden(st) == Archived(st.log) /\ st.ref = Latest(st.log).target

Visible(st) == IF Hidden(st) THEN None ELSE st.ref

ShownHead(st) ==
    IF st.head = Symbolic /\ Archived(st.log)
         /\ st.ref \in {None, Latest(st.log).target}
    THEN Latest(st.log).target
    ELSE st.head

----------------------------------------------------------------------------
(* The store's operations, as the sequence of states its writes leave.     *)

\* The state an operation leaves that is not interrupted.
Result(steps) == steps[Len(steps)]

Activate(st, t) ==
    [st EXCEPT !.log = @ \cup {Event(NextGeneration(st.log), "active", t)}]

Detach(st, t) == IF st.head = Symbolic THEN [st EXCEPT !.head = t] ELSE st

\* Mutant: the pointer is removed before HEAD is detached from it.
RemoveRefEarly(st) ==
    LET gone == [st EXCEPT !.ref = None]
    IN  <<gone, Detach(gone, st.ref)>>

\* HEAD is detached at the archived snapshot before the pointer is removed.
RemoveRef(st) ==
    LET free == Detach(st, st.ref)
    IN  <<free, [free EXCEPT !.ref = None]>>

\* The projection of a latest event that archives: a missing branch leaves
\* HEAD detached, an equal one is removed unless a live Git branch owns it,
\* any other pointer is kept by a newer active event.
Settle(st, preserve) ==
    CASE st.ref = None -> <<Detach(st, Latest(st.log).target)>>
      [] st.ref = Latest(st.log).target /\ ~preserve -> RemoveRef(st)
      [] OTHER -> <<Activate(st, st.ref)>>

ApplyBranchLifecycleRef(st, e, preserve) ==
    LET known == [st EXCEPT !.log = @ \cup {e}]
    IN  IF e.state = "archived" /\ Latest(known.log) = e
        THEN <<known>> \o Settle(known, preserve)
        ELSE <<known>>

\* Mutant: an interrupted transition is left as the dead process left it.
ReconcileNothing(st) == <<st>>

Reconcile(st) == IF Archived(st.log) THEN Settle(st, FALSE) ELSE <<st>>

\* Mutant: the pointer is removed before the archive is recorded.
ArchiveLate(st) ==
    LET e == Event(NextGeneration(st.log), "archived", st.ref)
        gone == RemoveRef(st)
    IN  CASE st.ref = None -> <<Detach(st, Latest(st.log).target)>>
          [] st.ref # None /\ Hidden(st) -> RemoveRef(st)
          [] OTHER -> gone \o <<[Result(gone) EXCEPT !.log = @ \cup {e}]>>

ArchiveBranchRef(st) ==
    LET e == Event(NextGeneration(st.log), "archived", st.ref)
        noted == [st EXCEPT !.log = @ \cup {e}]
    IN  CASE st.ref = None -> <<Detach(st, Latest(st.log).target)>>
          [] st.ref # None /\ Hidden(st) -> RemoveRef(st)
          [] OTHER -> <<noted>> \o RemoveRef(noted)

CreateBranchRef(st, t) ==
    LET active == Activate(st, t) IN <<active, [active EXCEPT !.ref = t]>>

\* A pointer that escaped its archive is made active before it moves.
PutRef(st, t) ==
    LET active == Activate(st, st.ref)
    IN  IF Archived(st.log)
        THEN <<active, [active EXCEPT !.ref = t]>>
        ELSE <<[st EXCEPT !.ref = t]>>

----------------------------------------------------------------------------
(* The server's side of a push and the CLI's side of a pull: the set of    *)
(* the states they may lead to, empty when the request is refused.         *)

\* CompareAndSwapRef after the classification of the move.
UpdateRef(st, t) ==
    LET cur == Visible(st)
    IN  IF cur = t THEN {st}
        ELSE IF cur # None /\ ~Holds(t, cur) THEN {}
        ELSE IF Archived(st.log) /\ cur = None THEN {}
        ELSE {Result(PutRef(st, t))}

\* The last event of a batch.
LastNamed(events) == CHOOSE e \in events : \A f \in events \ {e} : Before(f, e)

\* The lifecycle events of a batch are applied in the order of their names.
ApplyEvents(st, events) ==
    LET noted[S \in SUBSET events] ==
          IF S = {} THEN st
          ELSE Result(ApplyBranchLifecycleRef(noted[S \ {LastNamed(S)}], LastNamed(S), FALSE))
    IN  noted[events]

\* A protected branch is not archived by a push.
Forbidden(events) == protect /\ \E e \in events : e.state = "archived"

\* UpdateRefs: lifecycle events, then the branch, in one transaction.
UpdateRefs(st, events, branch) ==
    LET noted == ApplyEvents(st, events)
    IN  IF Forbidden(events) THEN {}
        ELSE IF branch = None THEN {noted}
        ELSE UpdateRef(noted, branch)

\* Pull adopts the server's branch when that is a fast-forward or when the
\* branch is absent here and not archived here.
AdoptRef(st, t) ==
    LET cur == Visible(st)
    IN  IF \/ t = None
           \/ cur = None /\ Archived(st.log)
           \/ cur # None /\ ~Holds(t, cur)
        THEN {}
        ELSE {[st EXCEPT !.ref = t]}

----------------------------------------------------------------------------
(* Initial state: everybody has the branch, which was created before       *)
(* lifecycle events were recorded.                                         *)

IdlePush == [pc |-> "idle", events |-> {}, branch |-> None]

IdlePull ==
    [pc |-> "idle", todo |-> {}, branch |-> None, live |-> TRUE]

Init ==
    /\ store = [r \in Replica |->
                  [log |-> {},
                   ref |-> Root,
                   head |-> Symbolic]]
    /\ git = [c \in Client |-> TRUE]
    /\ made = {Root}
    /\ push = [c \in Client |-> IdlePush]
    /\ pull = [c \in Client |-> IdlePull]
    /\ ops = 0
    /\ crashes = 0
    /\ protect \in BOOLEAN

\* A process of client c makes the first k writes of an operation; it died
\* when writes are left.
Writes(c, steps, k) ==
    /\ k \in 1..Len(steps)
    /\ k < Len(steps) => crashes < MaxCrashes
    /\ store' = [store EXCEPT ![c] = steps[k]]
    /\ crashes' = IF k < Len(steps) THEN crashes + 1 ELSE crashes

Done(steps, k) == k = Len(steps)

----------------------------------------------------------------------------
(* Commands of a user.                                                     *)

\* The user creates or deletes the Git branch.
GitBranch(c) ==
    /\ git' = [git EXCEPT ![c] = ~@]
    /\ UNCHANGED <<store, made, push, pull, ops, crashes, protect>>

\* Save: a new snapshot of the conversation on the checked-out branch moves
\* the existing pointer and selects the branch.
Save(c, s, k) ==
    LET st == store[c]
        steps == PutRef(st, s)
        saved == Append(steps, [Result(steps) EXCEPT !.head = Symbolic])
    IN  /\ git[c]
        /\ s \notin made
        /\ Visible(st) # None
        /\ Parent[s] = Visible(st)
        /\ Writes(c, saved, k)
        /\ made' = made \cup {s}
        /\ UNCHANGED <<git, push, pull, ops, protect>>

\* Checkout of a branch that is there.
Checkout(c) ==
    /\ git[c]
    /\ Visible(store[c]) # None
    /\ store' = [store EXCEPT ![c].head = Symbolic]
    /\ UNCHANGED <<git, made, push, pull, ops, crashes, protect>>

\* Checkout of an archived name, or of a new branch at snapshot s.
Create(c, s, k) ==
    LET steps == CreateBranchRef(store[c], s)
        selected == Append(steps, [Result(steps) EXCEPT !.head = Symbolic])
    IN  /\ ops < MaxOps
        /\ s \in made
        /\ Visible(store[c]) = None
        /\ Writes(c, selected, k)
        /\ ops' = ops + 1
        /\ UNCHANGED <<git, made, push, pull, protect>>

\* The deletion hook, or the command, archives after the Git branch is gone.
Archive(c, k) ==
    /\ ops < MaxOps
    /\ ~git[c]
    /\ store[c].ref # None \/ Archived(store[c].log)
    /\ Writes(c, ArchiveBranchRef(store[c]), k)
    /\ ops' = ops + 1
    /\ UNCHANGED <<git, made, push, pull, protect>>

\* The server's own HEAD selects the branch, which must be there.
SelectHead ==
    /\ Visible(store[Server]) # None
    /\ store' = [store EXCEPT ![Server].head = Symbolic]
    /\ UNCHANGED <<git, made, push, pull, ops, crashes, protect>>

\* The owner protects the default branch, lifts the protection, or makes
\* another branch the default.
UpdateConfig ==
    /\ ops < MaxOps
    /\ protect' = ~protect
    /\ ops' = ops + 1
    /\ UNCHANGED <<store, git, made, push, pull, crashes>>

Syncs ==
    Cardinality({c \in Client : push[c].pc # "idle"})
      + Cardinality({c \in Client : pull[c].pc # "idle"})

----------------------------------------------------------------------------
(* Push.                                                                   *)

\* Push first completes the transitions a dead process left behind.
StartPush(c, k) ==
    LET steps == Reconcile(store[c])
    IN  /\ push[c].pc = "idle"
        /\ Syncs < MaxSyncs
        /\ Writes(c, steps, k)
        /\ push' = [push EXCEPT ![c].pc = IF Done(steps, k) THEN "read" ELSE "idle"]
        /\ UNCHANGED <<git, made, pull, ops, protect>>

\* It reads the local refs ...
PushRead(c) ==
    /\ push[c].pc = "read"
    /\ push' = [push EXCEPT ![c] =
                  [pc |-> "compare", events |-> store[c].log,
                   branch |-> Visible(store[c])]]
    /\ UNCHANGED <<store, git, made, pull, ops, crashes, protect>>

\* ... drops those the server has, or keeps all when it cannot list them ...
PushCompare(c) ==
    /\ push[c].pc = "compare"
    /\ \/ push' = [push EXCEPT ![c] =
                     [pc |-> "send", events |-> @.events \ store[Server].log,
                      branch |-> IF @.branch = Visible(store[Server])
                                 THEN None ELSE @.branch]]
       \/ push' = [push EXCEPT ![c].pc = "send"]
    /\ UNCHANGED <<store, git, made, pull, ops, crashes, protect>>

\* ... and sends the rest as one batch, which the server applies or refuses.
PushSend(c) ==
    /\ push[c].pc = "send"
    /\ LET after == UpdateRefs(store[Server], push[c].events, push[c].branch)
       IN  \/ \E st \in after : store' = [store EXCEPT ![Server] = st]
           \/ after = {} /\ store' = store
    /\ push' = [push EXCEPT ![c] = IdlePush]
    /\ UNCHANGED <<git, made, pull, ops, crashes, protect>>

PushStops(c) ==
    /\ push[c].pc # "idle"
    /\ push' = [push EXCEPT ![c] = IdlePush]
    /\ UNCHANGED <<store, git, made, pull, ops, crashes, protect>>

----------------------------------------------------------------------------
(* Pull.                                                                   *)

\* Pull reads the server's refs ...
PullRead(c) ==
    /\ pull[c].pc = "idle"
    /\ Syncs < MaxSyncs
    /\ LET st == store[Server]
       IN  pull' = [pull EXCEPT ![c] =
                      [pc |-> IF Archived(st.log) THEN "inventory" ELSE "apply",
                       todo |-> st.log,
                       branch |-> Visible(st), live |-> TRUE]]
    /\ UNCHANGED <<store, git, made, push, ops, crashes, protect>>

\* ... and, when they archive a branch, the local Git branches.
PullInventory(c) ==
    /\ pull[c].pc = "inventory"
    /\ pull' = [pull EXCEPT ![c].pc = "apply", ![c].live = git[c]]
    /\ UNCHANGED <<store, git, made, push, ops, crashes, protect>>

\* It applies the lifecycle events, in the order of the list ...
PullApply(c, e, k) ==
    LET steps == ApplyBranchLifecycleRef(store[c], e, pull[c].live)
    IN  /\ pull[c].pc = "apply"
        /\ e \in pull[c].todo
        /\ Writes(c, steps, k)
        /\ pull' = [pull EXCEPT ![c] =
                      IF Done(steps, k) THEN [pull[c] EXCEPT !.todo = @ \ {e}]
                      ELSE IdlePull]
        /\ UNCHANGED <<git, made, push, ops, protect>>

\* ... and then adopts the branch or keeps its own.
PullRef(c) ==
    /\ pull[c].pc = "apply"
    /\ pull[c].todo = {}
    /\ LET after == AdoptRef(store[c], pull[c].branch)
       IN  \/ \E st \in after : store' = [store EXCEPT ![c] = st]
           \/ after = {} /\ store' = store
    /\ pull' = [pull EXCEPT ![c] = IdlePull]
    /\ UNCHANGED <<git, made, push, ops, crashes, protect>>

PullStops(c) ==
    /\ pull[c].pc # "idle"
    /\ pull' = [pull EXCEPT ![c] = IdlePull]
    /\ UNCHANGED <<store, git, made, push, ops, crashes, protect>>

Next ==
    \/ \E c \in Client :
         \/ GitBranch(c) \/ Checkout(c)
         \/ \E k \in 1..3 :
              \/ \E s \in Commit : Save(c, s, k) \/ Create(c, s, k)
              \/ Archive(c, k) \/ StartPush(c, k)
              \/ \E e \in pull[c].todo : PullApply(c, e, k)
         \/ PushRead(c) \/ PushCompare(c) \/ PushSend(c) \/ PushStops(c)
         \/ PullRead(c) \/ PullInventory(c) \/ PullRef(c) \/ PullStops(c)
    \/ SelectHead \/ UpdateConfig

Spec == Init /\ [][Next]_vars

----------------------------------------------------------------------------
(* Properties.                                                             *)

Events == [gen : Nat \ {0}, state : {"active", "archived"}, target : Commit]

StoreType == [log : SUBSET Events, ref : Commit \cup {None},
              head : Commit \cup {Symbolic}]

\* Every replica's events name snapshots that exist and carry a generation no
\* larger than the archives that were asked for allow: a compensation answers
\* one archive and nothing answers a compensation (ApplyBranchLifecycleRef,
\* ReconcileBranchLifecycleRefs, PutRef).
TypeOK ==
    /\ DOMAIN store = Replica
    /\ \A r \in Replica :
         /\ store[r] \in StoreType
         /\ \A e \in store[r].log : e.target \in made /\ e.gen <= 2 * ops
         /\ store[r].ref \in made \cup {None}
    /\ git \in [Client -> BOOLEAN]
    /\ made \subseteq Commit
    /\ \A c \in Client :
         /\ push[c].pc \in {"idle", "read", "compare", "send"}
         /\ pull[c].pc \in {"idle", "inventory", "apply"}
    /\ ops \in 0..MaxOps
    /\ crashes \in 0..MaxCrashes
    /\ protect \in BOOLEAN

\* "manifests never contain a dangling symbolic ref" (the comment of
\* ProjectBranchLifecycleRefs): a HEAD shown as symbolic names a branch that
\* is shown, whatever writes a crash left out and whatever events arrived
\* since.
HeadResolves ==
    \A r \in Replica :
        ShownHead(store[r]) = Symbolic => Visible(store[r]) # None

Reach(st) ==
    UNION {Ancestors[t] : t \in ({st.ref} \ {None})
                                  \cup {e.target : e \in st.log}}

\* No step of any replica, a crash between two writes included, makes a
\* snapshot unreachable from its branch pointer and its lifecycle roots
\* ("all snapshots, conversations, compact memory, and graph ancestry remain
\* reachable", docs/CLI.md).
NothingLost ==
    [][\A r \in Replica : Reach(store[r]) \subseteq Reach(store'[r])]_vars

\* Client c knows every event of the server, and neither a complete push nor
\* adopting the server's branch would change anything.
Synced(c) ==
    LET st == store[c]
        sv == store[Server]
        sent == IF Visible(st) = Visible(sv) THEN None ELSE Visible(st)
    IN  /\ push[c].pc = "idle" /\ pull[c].pc = "idle"
        /\ Result(Reconcile(st)) = st
        /\ UpdateRefs(sv, st.log \ sv.log, sent) \subseteq {sv}
        /\ sv.log \subseteq st.log
        /\ AdoptRef(st, Visible(sv)) \subseteq {st}

Diverged(st, sv) ==
    /\ Visible(st) # None /\ Visible(sv) # None
    /\ ~Holds(Visible(st), Visible(sv))
    /\ ~Holds(Visible(sv), Visible(st))

\* Where synchronisation comes to rest, client and server show the same
\* branch, or the two have diverged, or the client has archived the protected
\* default branch, and its push says so: no pointer stays "visible locally yet
\* [is] rejected forever by an already-archived peer" (the comment before
\* ReconcileBranchLifecycleRefs in Push).
RestMeansAgreed ==
    \A c \in Client :
        Synced(c) => \/ Visible(store[c]) = Visible(store[Server])
                     \/ Diverged(store[c], store[Server])
                     \/ Forbidden(store[c].log \ store[Server].log)

============================================================================
