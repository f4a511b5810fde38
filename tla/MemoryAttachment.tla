-------------------------- MODULE MemoryAttachment --------------------------
(***************************************************************************)
(* The memory attached to one snapshot, replicated between the server and  *)
(* the file stores of the CLIs.  A memory digest is immutable and names    *)
(* the digest it succeeded (PreviousMemoryHash), so a digest is modelled   *)
(* by its whole causal chain, a sequence of bodies: its parent is the      *)
(* front of the sequence and an ancestor is a prefix.  Each replica stores *)
(* digests and one pointer to the newest, moved by compare-and-swap.       *)
(*                                                                         *)
(* A CLI memorizes, pushes and pulls in processes that interleave and may  *)
(* die.  The server stores a pushed digest and moves its pointer in two    *)
(* transactions, and may collect a snapshot that has no memory yet.        *)
(***************************************************************************)
EXTENDS Integers, FiniteSets, SequencesExt

CONSTANTS
    Client,      \* the CLIs
    Server,      \* the server's store
    Author,      \* the CLI that captured the snapshot
    Body,        \* what a digest can say
    Absent,      \* the replica does not have the snapshot
    Nobody,      \* the client of a request nobody waits for
    MaxDepth,    \* bound on the length of a chain
    MaxReplans,  \* maxMemoryPushReplans
    MaxSyncs,    \* bound on pushes and pulls running at once
    MaxFaults    \* bound on processes that die or give up

Replica == Client \cup {Server}
None == << >>
Chain == BoundedSeq(Body, MaxDepth)
Digest == Chain \ {None}

ASSUME ReplicaAssumption ==
    /\ Author \in Client
    /\ Server \notin Client
    /\ Nobody \notin Client
    /\ Absent \notin Chain

ASSUME BoundAssumption == {MaxDepth, MaxReplans, MaxSyncs, MaxFaults} \subseteq Nat

VARIABLES
    att,     \* per replica: the attached chain, None, or Absent
    obj,     \* per replica: the stored digests
    mem,     \* per client: the digest a running memorize is to attach
    push,    \* per client: the running push
    pull,    \* per client: the running pull
    reqs,    \* the attachment requests the server is working on
    faults   \* processes that died or gave up so far

vars == <<att, obj, mem, push, pull, reqs, faults>>

----------------------------------------------------------------------------
(* Chains.                                                                 *)

\* The digest and its causal ancestors.
Ancestry(d) == {SubSeq(d, 1, n) : n \in 1..Len(d)}

Comparable(d, e) == IsPrefix(d, e) \/ IsPrefix(e, d)

\* The memory hash a reader of the replica sees.
Memory(r) == IF att[r] = Absent THEN None ELSE att[r]

\* The digests a client can load: its own first, the server's otherwise.
Loadable(c) == obj[c] \cup obj[Server]

----------------------------------------------------------------------------
(* Attaching, on either store.                                             *)

\* Mutant: a stale writer moves the pointer as well.
CompareAndSwapBlindly(r, expected, next) ==
    CASE att[r] = Absent -> "missing"
      [] OTHER -> "ok"

\* The outcome of moving a replica's pointer.
CompareAndSwapSnapshotMemory(r, expected, next) ==
    CASE att[r] = Absent -> "missing"
      [] att[r] \in {expected, next} -> "ok"
      [] OTHER -> "conflict"

Attached(r, outcome, next) ==
    IF outcome = "ok" THEN [att EXCEPT ![r] = next] ELSE att

----------------------------------------------------------------------------
(* Memorize: store a successor of the digest read, then move the pointer.  *)

\* The same content again leaves the attachment alone.
Memorize(c, b) ==
    /\ mem[c] = None
    /\ att[c] # Absent
    /\ Len(att[c]) < MaxDepth
    /\ att[c] # None => Last(att[c]) # b /\ att[c] \in obj[c]
    /\ mem' = [mem EXCEPT ![c] = Append(att[c], b)]
    /\ obj' = [obj EXCEPT ![c] = @ \cup {Append(att[c], b)}]
    /\ UNCHANGED <<att, push, pull, reqs, faults>>

MemorizeAttach(c) ==
    /\ mem[c] # None
    /\ LET next == mem[c]
       IN  att' = Attached(c, CompareAndSwapSnapshotMemory(c, Front(next), next), next)
    /\ mem' = [mem EXCEPT ![c] = None]
    /\ UNCHANGED <<obj, push, pull, reqs, faults>>

MemorizeStops(c) ==
    /\ mem[c] # None
    /\ faults < MaxFaults
    /\ faults' = faults + 1
    /\ mem' = [mem EXCEPT ![c] = None]
    /\ UNCHANGED <<att, obj, push, pull, reqs>>

----------------------------------------------------------------------------
(* Push: select the local chain, read the server's catalog, send the       *)
(* digests the server lacks, oldest first.                                 *)

Syncs ==
    Cardinality({c \in Client : push[c].stage # "idle"})
      + Cardinality({c \in Client : pull[c].stage # "idle"})

NoPush == [stage |-> "idle", plan |-> None, listed |-> TRUE,
           at |-> 0, replans |-> 0, restored |-> FALSE]

\* The push has nothing more to do once every digest of its plan is sent.
Send(p, n) ==
    IF n > Len(p.plan) THEN [p EXCEPT !.stage = "done", !.at = 0]
    ELSE [p EXCEPT !.stage = "send", !.at = n]

\* memoryPushStart: the first digest to send to a server known to have d.
StartFrom(p, d) ==
    IF IsPrefix(d, p.plan) THEN Send(p, Len(d) + 1) ELSE [p EXCEPT !.stage = "reread"]

\* Without a catalog the newest digest is sent first.
Begin(p, known) == IF p.listed THEN StartFrom(p, known) ELSE Send(p, Len(p.plan))

\* The plan is the local chain, every digest of which must be at hand
\* (localMemoryPushPlan).  The catalog lists the server's pointers; a
\* repository without any has no catalog at all.  A pointer outside the plan
\* is examined before anything is published.  Nothing but this push uses the
\* local pointer between the two reads, so they are one step.
PushSelect(c) ==
    /\ push[c].stage = "idle"
    /\ Syncs < MaxSyncs
    /\ Memory(c) # None
    /\ Ancestry(att[c]) \subseteq obj[c]
    /\ \E listed \in BOOLEAN :
          /\ Memory(Server) # None => listed
          /\ LET p == [NoPush EXCEPT !.plan = att[c], !.listed = listed]
                 known == Memory(Server)
             IN  push' = [push EXCEPT ![c] =
                            CASE known = p.plan -> [p EXCEPT !.stage = "done"]
                              [] ~IsPrefix(known, p.plan) ->
                                   [p EXCEPT !.stage = "preflight"]
                              [] att[Server] = Absent -> [p EXCEPT !.stage = "objects"]
                              [] OTHER -> Begin(p, known)]
    /\ UNCHANGED <<att, obj, mem, pull, reqs, faults>>

\* The snapshot the server lacks, and so without memory in the catalog, is
\* uploaded before its memory.
PushObjects(c) ==
    /\ push[c].stage = "objects"
    /\ att' = [att EXCEPT ![Server] = Memory(Server)]
    /\ push' = [push EXCEPT ![c] = Begin(push[c], None)]
    /\ UNCHANGED <<obj, mem, pull, reqs, faults>>

\* Mutant: any pointer outside the plan is taken for a fork.
ReadMemoryPushStartStrictly(c) ==
    IF IsPrefix(Memory(Server), push[c].plan) THEN Send(push[c], Len(Memory(Server)) + 1)
    ELSE [push[c] EXCEPT !.stage = "diverged"]

\* readMemoryPushStart: where the plan continues the server's pointer; a
\* server that is ahead needs nothing, any other pointer is a fork.
ReadMemoryPushStart(c) ==
    LET p == push[c]
        current == Memory(Server)
    IN  CASE IsPrefix(current, p.plan) -> Send(p, Len(current) + 1)
          [] IsPrefix(p.plan, current) -> [p EXCEPT !.stage = "done", !.at = 0]
          [] OTHER -> [p EXCEPT !.stage = "diverged", !.at = 0]

\* Before any publication: only being ahead or a fork decides; otherwise the
\* push goes on with the catalog it has.
Preflight(c) ==
    /\ push[c].stage = "preflight"
    /\ Ancestry(Memory(Server)) \subseteq Loadable(c)
    /\ LET read == ReadMemoryPushStart(c)
       IN  push' = [push EXCEPT ![c] =
                      IF read.stage = "send" THEN [@ EXCEPT !.stage = "reread"] ELSE read]
    /\ UNCHANGED <<att, obj, mem, pull, reqs, faults>>

Reread(c) ==
    /\ push[c].stage = "reread"
    /\ Ancestry(Memory(Server)) \subseteq Loadable(c)
    /\ push' = [push EXCEPT ![c] = ReadMemoryPushStart(c)]
    /\ UNCHANGED <<att, obj, mem, pull, reqs, faults>>

SendMemory(c) ==
    /\ push[c].stage = "send"
    /\ reqs' = reqs \cup
          {[client |-> c, digest |-> SubSeq(push[c].plan, 1, push[c].at), stored |-> FALSE]}
    /\ push' = [push EXCEPT ![c].stage = "wait"]
    /\ UNCHANGED <<att, obj, mem, pull, faults>>

\* A conflict: without a catalog the pointer is read for the first time; the
\* replans are bounded.
Contended(p) ==
    IF ~p.listed THEN [p EXCEPT !.stage = "reread", !.listed = TRUE]
    ELSE IF p.replans >= MaxReplans THEN [p EXCEPT !.stage = "contention"]
    ELSE [p EXCEPT !.stage = "reread", !.replans = @ + 1]

\* What the push makes of the server's answer.
Answered(p, answer) ==
    IF answer = "ok" THEN Send(p, p.at + 1)
    ELSE IF answer = "conflict" THEN Contended(p)
    ELSE [p EXCEPT !.stage = IF p.restored THEN "failed" ELSE "restore"]

Answer(q, answer) ==
    IF q.client = Nobody THEN push
    ELSE [push EXCEPT ![q.client] = Answered(@, answer)]

\* putMemoryDigest, up to the end of its first transaction.
StoreMemory(q) ==
    /\ q \in reqs /\ ~q.stored
    /\ att[Server] # Absent
    /\ Len(q.digest) > 1 => Front(q.digest) \in obj[Server]
    /\ obj' = [obj EXCEPT ![Server] = @ \cup {q.digest}]
    /\ reqs' = (reqs \ {q}) \cup {[q EXCEPT !.stored = TRUE]}
    /\ UNCHANGED <<att, mem, push, pull, faults>>

\* The snapshot, or the digest's parent, is not there.
StoreRefused(q) ==
    /\ q \in reqs /\ ~q.stored
    /\ \/ att[Server] = Absent
       \/ Len(q.digest) > 1 /\ Front(q.digest) \notin obj[Server]
    /\ reqs' = reqs \ {q}
    /\ push' = Answer(q, "missing")
    /\ UNCHANGED <<att, obj, mem, pull, faults>>

\* Its second transaction and the answer.
AttachMemory(q) ==
    /\ q \in reqs /\ q.stored
    /\ LET outcome == CompareAndSwapSnapshotMemory(Server, Front(q.digest), q.digest)
       IN  /\ att' = Attached(Server, outcome, q.digest)
           /\ push' = Answer(q, outcome)
    /\ reqs' = reqs \ {q}
    /\ UNCHANGED <<obj, mem, pull, faults>>

\* restoreMemoryArchive: one transaction recreates the snapshot and attaches
\* the root digest, then the push goes on from there.
RestoreMemoryArchive(c) ==
    /\ push[c].stage = "restore"
    /\ LET root == SubSeq(push[c].plan, 1, 1)
           p == [push[c] EXCEPT !.restored = TRUE, !.listed = TRUE, !.replans = 0]
       IN  IF Memory(Server) \in {None, root}
           THEN /\ att' = [att EXCEPT ![Server] = root]
                /\ obj' = [obj EXCEPT ![Server] = @ \cup {root}]
                /\ push' = [push EXCEPT ![c] = StartFrom(p, root)]
           ELSE /\ push' = [push EXCEPT ![c] = [p EXCEPT !.stage = "failed"]]
                /\ UNCHANGED <<att, obj>>
    /\ UNCHANGED <<mem, pull, reqs, faults>>

PushEnds(c) ==
    /\ push[c].stage \in {"done", "diverged", "contention", "failed"}
    /\ push' = [push EXCEPT ![c] = NoPush]
    /\ UNCHANGED <<att, obj, mem, pull, reqs, faults>>

\* The push dies or gives up; its request may still be served, or never.
PushStops(c) ==
    /\ push[c].stage # "idle"
    /\ faults < MaxFaults
    /\ faults' = faults + 1
    /\ push' = [push EXCEPT ![c] = NoPush]
    /\ reqs' = {IF q.client = c THEN [q EXCEPT !.client = Nobody] ELSE q : q \in reqs}
    /\ UNCHANGED <<att, obj, mem, pull>>

----------------------------------------------------------------------------
(* Pull: read the server's pointer, compare it with the local one, store   *)
(* the missing digests, move the pointer.                                  *)

NoPull == [stage |-> "idle", remote |-> None, local |-> None, staged |-> {}]

PullRead(c) ==
    /\ pull[c].stage = "idle"
    /\ Syncs < MaxSyncs
    /\ att[Server] # Absent
    /\ pull' = [pull EXCEPT ![c] = [NoPull EXCEPT !.stage = "compare", !.remote = att[Server]]]
    /\ UNCHANGED <<att, obj, mem, push, reqs, faults>>

\* Mutant: only the newest digest is fetched.
NeededTip(c, remote) == IF remote = None THEN {} ELSE {remote}

\* The digests an adoption walks: down to the local pointer, or all of them.
Needed(c, remote) ==
    IF Memory(c) # None /\ IsPrefix(Memory(c), remote) /\ Memory(c) # remote
    THEN Ancestry(remote) \ Ancestry(Memory(c))
    ELSE Ancestry(remote)

\* A local pointer that the server's one precedes stays; unrelated ones are
\* a conflict and end the pull.
PullCompare(c) ==
    /\ pull[c].stage = "compare"
    /\ LET remote == pull[c].remote
       IN  /\ Needed(c, remote) \subseteq Loadable(c)
           /\ pull' = [pull EXCEPT ![c] =
                IF Comparable(Memory(c), remote)
                THEN [@ EXCEPT !.stage = "store", !.local = att[c],
                               !.staged = Needed(c, remote) \ obj[c]]
                ELSE NoPull]
    /\ UNCHANGED <<att, obj, mem, push, reqs, faults>>

\* An unscoped pull asks for the snapshot's current memory: one that moved
\* since the listing does not hash to the listed value.
PullMoved(c) ==
    /\ pull[c].stage = "compare"
    /\ pull[c].remote \notin obj[c] \cup {None}
    /\ att[Server] # pull[c].remote
    /\ pull' = [pull EXCEPT ![c] = NoPull]
    /\ UNCHANGED <<att, obj, mem, push, reqs, faults>>

\* One staged digest after another, in no particular order.
PullStore(c) ==
    /\ pull[c].stage = "store"
    /\ \E d \in pull[c].staged :
          /\ obj' = [obj EXCEPT ![c] = @ \cup {d}]
          /\ pull' = [pull EXCEPT ![c].staged = @ \ {d}]
    /\ UNCHANGED <<att, mem, push, reqs, faults>>

\* A snapshot new to the client is stored with its memory unless another
\* process attached one meanwhile; a known one is moved by compare-and-swap.
PullAttach(c) ==
    /\ pull[c].stage = "store"
    /\ pull[c].staged = {}
    /\ LET l == pull[c]
       IN  IF l.local # Absent /\ ~IsPrefix(l.remote, l.local)
           THEN att' = Attached(c, CompareAndSwapSnapshotMemory(c, l.local, l.remote), l.remote)
           ELSE att' = [att EXCEPT ![c] = IF Memory(c) = None THEN l.remote ELSE @]
    /\ pull' = [pull EXCEPT ![c] = NoPull]
    /\ UNCHANGED <<obj, mem, push, reqs, faults>>

PullStops(c) ==
    /\ pull[c].stage # "idle"
    /\ faults < MaxFaults
    /\ faults' = faults + 1
    /\ pull' = [pull EXCEPT ![c] = NoPull]
    /\ UNCHANGED <<att, obj, mem, push, reqs>>

----------------------------------------------------------------------------
(* Collection of a hook capture; only one without memory qualifies.        *)

Collect ==
    /\ att[Server] = None
    /\ att' = [att EXCEPT ![Server] = Absent]
    /\ UNCHANGED <<obj, mem, push, pull, reqs, faults>>

----------------------------------------------------------------------------

Init ==
    /\ att = [r \in Replica |-> IF r = Author THEN None ELSE Absent]
    /\ obj = [r \in Replica |-> {}]
    /\ mem = [c \in Client |-> None]
    /\ push = [c \in Client |-> NoPush]
    /\ pull = [c \in Client |-> NoPull]
    /\ reqs = {}
    /\ faults = 0

PushStep(c) ==
    \/ PushSelect(c) \/ Preflight(c) \/ PushObjects(c)
    \/ Reread(c) \/ SendMemory(c) \/ RestoreMemoryArchive(c) \/ PushEnds(c)

PullStep(c) ==
    \/ PullRead(c) \/ PullCompare(c) \/ PullMoved(c) \/ PullStore(c) \/ PullAttach(c)

Serve(q) == StoreMemory(q) \/ StoreRefused(q) \/ AttachMemory(q)

Next ==
    \/ \E c \in Client :
          \/ \E b \in Body : Memorize(c, b)
          \/ MemorizeAttach(c) \/ MemorizeStops(c)
          \/ PushStep(c) \/ PushStops(c)
          \/ PullStep(c) \/ PullStops(c)
    \/ \E q \in reqs : Serve(q)
    \/ Collect

Spec == Init /\ [][Next]_vars

----------------------------------------------------------------------------
(* Properties.                                                             *)

PushStages == {"idle", "preflight", "objects", "send", "wait",
               "reread", "restore", "done", "diverged", "contention", "failed"}

Requests == [client : Client \cup {Nobody}, digest : Digest, stored : BOOLEAN]

Pushes == [stage : PushStages, plan : Chain, listed : BOOLEAN, at : 0..MaxDepth,
           replans : 0..MaxReplans, restored : BOOLEAN]

Pulls == [stage : {"idle", "compare", "store"}, remote : Chain,
          local : Chain \cup {Absent}, staged : SUBSET Digest]

\* The values of the state; a push never replans more often than it may, and
\* waits exactly while its request is being served.
TypeOK ==
    /\ att \in [Replica -> Chain \cup {Absent}]
    /\ obj \in [Replica -> SUBSET Digest]
    /\ mem \in [Client -> Chain]
    /\ push \in [Client -> Pushes]
    /\ pull \in [Client -> Pulls]
    /\ reqs \subseteq Requests
    /\ faults \in 0..MaxFaults
    /\ \A c \in Client :
          push[c].stage = "wait" <=> \E q \in reqs : q.client = c

\* A pointer is usable offline: on every replica, at every moment, the whole
\* causal chain of the attached memory is stored, whatever died half way
\* through a push, a pull or a memorize.
ChainComplete ==
    \A r \in Replica : Ancestry(Memory(r)) \subseteq obj[r]

\* A pointer only moves to a causal successor: no retry, late request, stale
\* pull or recovery rewinds a replica or switches it to another branch of
\* memory, and a snapshot with memory is never collected.
OnlyAdvances ==
    [][\A r \in Replica :
         /\ IsPrefix(Memory(r), Memory(r)')
         /\ att'[r] = Absent => Memory(r) = None]_vars

\* A push that reports success has published: the server's chain contains
\* everything the push selected.
DoneMeansPublished ==
    \A c \in Client :
        push[c].stage = "done" => IsPrefix(push[c].plan, Memory(Server))

\* "Only a verified causal fork is a sync conflict; ordinary concurrent
\* progress is not": a push that reports divergence met a real fork, and one
\* that gave up for contention was overtaken that many times.
ForkIsReal ==
    \A c \in Client :
        /\ push[c].stage = "diverged" => ~Comparable(push[c].plan, Memory(Server))
        /\ push[c].replans <= Len(Memory(Server))
        /\ push[c].stage = "contention" => MaxReplans < Len(Memory(Server))

=============================================================================
