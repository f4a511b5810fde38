----------------------------- MODULE GraftQueue -----------------------------
(***************************************************************************)
(* The graft queue of a clone and the graft registers it replicates.       *)
(*                                                                         *)
(* Every snapshot has a register on the server and in the clone: a set of  *)
(* graft parents and a sequence number.  "cxt save" adds a graft parent to *)
(* the clone's register and queues an event for the server; "cxt push"     *)
(* sends the queued events in order with the sequence number the clone     *)
(* had; "cxt pull" adopts the server's registers; another client's push    *)
(* and a join change the server's.  The queue file is changed under a file *)
(* lock that pull does not take and that no network call is made under.    *)
(* The objects of a push are uploaded before its events, so a snapshot is  *)
(* on the server whenever an event names it.                               *)
(***************************************************************************)
EXTENDS Naturals, Sequences, FiniteSets, Functions

CONSTANTS
    Snapshot,    \* snapshots with a graft register
    Node,        \* what may be grafted: the snapshots and older heads
    Saver,       \* processes running cxt save
    Flusher,     \* processes running the ordinary cxt push
    Planner,     \* processes running cxt push of a selected publication
    Nobody,      \* the holder of a free lock
    NoRegister,  \* no register was fetched
    InitialQueue, \* the queues an older version of the program may have left
    MaxGraftSeq, \* the last sequence number
    MaxSaves, MaxOthers, MaxFaults  \* bounds on saves, foreign writes, faults

ASSUME NodeAssumption == Snapshot \subseteq Node /\ IsFiniteSet(Node)

ASSUME ProcessAssumption ==
    /\ Saver \cap (Flusher \cup Planner) = {} /\ Flusher \cap Planner = {}
    /\ Nobody \notin Saver \cup Flusher \cup Planner

ASSUME BoundAssumption == {MaxGraftSeq, MaxSaves, MaxOthers, MaxFaults} \subseteq Nat

Register == [edges : SUBSET Node, seq : 0..MaxGraftSeq]

ASSUME RegisterAssumption == NoRegister \notin Register

\* domain.GraftQueueEvent.  A legacy event comes from the queue format that
\* had no sequence numbers.
GraftQueueEvent ==
    [snapshot : Snapshot, parents : SUBSET Node, expected : 0..MaxGraftSeq, legacy : BOOLEAN]

\* The older format was a list of parents per snapshot.
ASSUME InitialAssumption ==
    \A q \in InitialQueue :
        /\ q \in Seq(GraftQueueEvent)
        /\ \A i \in DOMAIN q : q[i].legacy /\ q[i].expected = 0 /\ q[i].snapshot \notin q[i].parents

Process == Saver \cup Flusher \cup Planner

VARIABLES
    remote,    \* the server's registers
    local,     \* the clone's registers
    queue,     \* .cxt/grafts.json
    lock,      \* the holder of the queue's file lock
    pc,        \* where each process is
    job,       \* what a save grafts: snapshot, parent and the register it read
    todo,      \* the events a push still has to send
    reply,     \* the server's answer to the event at the head of todo
    fetched,   \* the register fetched after a conflict
    plan,      \* the registers and the snapshots a publication has frozen
    seen,      \* the registers a pull has fetched and not yet applied
    late,      \* requests whose answer the client no longer waits for
    ever,      \* history: the edges each server register has held
    accepted,  \* history: the events the server has answered with success
    refused,   \* history: the events dropped with a reported conflict
    saves, others, faults

replicas == <<remote, local>>
history == <<ever, accepted, refused>>
bounds == <<saves, others, faults>>
pushing == <<todo, reply, fetched>>
vars == <<replicas, queue, lock, pc, job, pushing, plan, seen, late, history, bounds>>

Empty == [edges |-> {}, seq |-> 0]
NoJob == [snapshot |-> Nobody, parent |-> Nobody, base |-> Empty]
NoPlan == [selected |-> {}, frozen |-> [s \in Snapshot |-> Empty]]

\* The types of the state.  No register of either side ever passes the last
\* sequence number, whatever save, push, pull or another clone wrote last.
TypeOK ==
    /\ remote \in [Snapshot -> Register] /\ local \in [Snapshot -> Register]
    /\ queue \in Seq(GraftQueueEvent)
    /\ lock \in Process \cup {Nobody}
    /\ pc \in [Process -> {"idle", "enqueue", "put", "move", "send", "get", "settle", "drop",
                           "head", "ack", "check", "publish"}]
    /\ job \in [Saver -> [snapshot : Snapshot, parent : Node, base : Register] \cup {NoJob}]
    /\ todo \in [Flusher \cup Planner -> Seq(GraftQueueEvent)]
    /\ reply \in [Flusher -> {"ok", "conflict"}]
    /\ fetched \in [Flusher -> Register \cup {NoRegister}]
    /\ plan \in [Planner -> [selected : SUBSET Snapshot, frozen : [Snapshot -> Register]]]
    /\ seen \in [Snapshot -> Register \cup {NoRegister}]
    /\ late \subseteq GraftQueueEvent
    /\ ever \in [Snapshot -> SUBSET Node]
    /\ accepted \subseteq GraftQueueEvent /\ refused \subseteq GraftQueueEvent
    /\ saves \in 0..MaxSaves /\ others \in 0..MaxOthers /\ faults \in 0..MaxFaults

\* An older version added the edge to the clone's register without advancing
\* its sequence number.
Init ==
    /\ queue \in InitialQueue
    /\ remote = [s \in Snapshot |-> Empty]
    /\ local = [s \in Snapshot |->
          [edges |-> UNION {queue[i].parents : i \in {j \in DOMAIN queue : queue[j].snapshot = s}},
           seq |-> 0]]
    /\ lock = Nobody
    /\ pc = [p \in Process |-> "idle"]
    /\ job = [v \in Saver |-> NoJob]
    /\ todo = [p \in Flusher \cup Planner |-> <<>>]
    /\ reply = [p \in Flusher |-> "ok"]
    /\ fetched = [p \in Flusher |-> NoRegister]
    /\ plan = [p \in Planner |-> NoPlan]
    /\ seen = [s \in Snapshot |-> NoRegister]
    /\ late = {}
    /\ ever = [s \in Snapshot |-> {}] /\ accepted = {} /\ refused = {}
    /\ saves = 0 /\ others = 0 /\ faults = 0

-----------------------------------------------------------------------------
(* Registers.                                                              *)

\* The nodes reached from n over the graft parents of r.
Reach(r, n) ==
    {m \in Node : \A C \in SUBSET Node :
        (n \in C /\ \A s \in C \cap Snapshot : r[s].edges \subseteq C) => m \in C}

Advanced(r, add) == [edges |-> r.edges \cup add, seq |-> r.seq + 1]

\* addGraftParents with an expected sequence number: the answer and the
\* register it leaves.  A repeated event is confirmed at the next number only.
Serve(r, e) ==
    LET reg == r[e.snapshot]
        new == e.parents \ (reg.edges \cup {e.snapshot})
        confirmed == new = {} /\ reg.seq = e.expected + 1
        fits == /\ reg.seq = e.expected /\ reg.seq < MaxGraftSeq
                /\ \A p \in new : e.snapshot \notin Reach(r, p)
    IN IF confirmed THEN [ok |-> TRUE, reg |-> reg]
       ELSE IF fits THEN [ok |-> TRUE, reg |-> Advanced(reg, new)]
       ELSE [ok |-> FALSE, reg |-> reg]

\* putSnapshotLocked: a higher number replaces the register, a lower one is
\* ignored, equal numbers take the incoming set, and sets without a number
\* are united.
Merge(old, new) ==
    IF new.seq > old.seq THEN new
    ELSE IF new.seq < old.seq THEN old
    ELSE IF new.seq = 0 THEN [old EXCEPT !.edges = @ \cup new.edges]
    ELSE new

\* Mutant: a conflict is settled by the ordinary merge.
ReconcileByMerge(old, authoritative) == Merge(old, authoritative)

\* reconcileGraftStateLocked: the server's register, even when it is behind.
Reconcile(old, authoritative) == authoritative

Queued(e) == \E i \in DOMAIN queue : queue[i] = e

QueuedFor(s) == {queue[i] : i \in {j \in DOMAIN queue : queue[j].snapshot = s}}

\* The events of q that are about the snapshots S, in their order.
Select(q, S) ==
    LET Upto[i \in 0..Len(q)] ==
            IF i = 0 THEN <<>>
            ELSE IF q[i].snapshot \in S THEN Append(Upto[i - 1], q[i]) ELSE Upto[i - 1]
    IN Upto[Len(q)]

\* The server answers e and its history is recorded.
Served(e) ==
    LET a == Serve(remote, e)
    IN /\ remote' = [remote EXCEPT ![e.snapshot] = a.reg]
       /\ ever' = [ever EXCEPT ![e.snapshot] = @ \cup a.reg.edges]
       /\ accepted' = IF a.ok THEN accepted \cup {e} ELSE accepted

-----------------------------------------------------------------------------
(* cxt save.                                                               *)

Go(p, where) == pc' = [pc EXCEPT ![p] = where]

SequenceLeft(s) == local[s].seq < MaxGraftSeq

\* Save of head s on a branch whose tip is p: neither reaches the other, so the
\* tip becomes a graft parent.  graftLocalAndQueue takes the lock and reads the
\* queue and the register; a legacy event of the snapshot stops it.
StartGraft(v, s, p) ==
    /\ pc[v] = "idle" /\ lock = Nobody /\ saves < MaxSaves
    /\ s \notin Reach(local, p) /\ p \notin Reach(local, s)
    /\ \A e \in QueuedFor(s) : ~e.legacy
    /\ SequenceLeft(s)
    /\ lock' = v
    /\ job' = [job EXCEPT ![v] = [snapshot |-> s, parent |-> p, base |-> local[s]]]
    /\ saves' = saves + 1
    /\ Go(v, "enqueue")
    /\ UNCHANGED <<replicas, queue, pushing, plan, seen, late, history, others, faults>>

JobEvent(j) == [snapshot |-> j.snapshot, parents |-> {j.parent}, expected |-> j.base.seq,
                legacy |-> FALSE]

\* Mutant: events of one version are taken for the same event.
EnqueueByVersion(v) ==
    /\ pc[v] = "enqueue"
    /\ LET e == JobEvent(job[v])
       IN queue' = IF \E q \in QueuedFor(e.snapshot) : q.expected = e.expected
                   THEN queue ELSE Append(queue, e)
    /\ Go(v, "put")
    /\ UNCHANGED <<replicas, lock, job, pushing, plan, seen, late, history, bounds>>

\* appendGraftQueueEvent and Store: the event is durable before the edge is.
Enqueue(v) ==
    /\ pc[v] = "enqueue"
    /\ LET e == JobEvent(job[v])
       IN /\ queue' = IF Queued(e) THEN queue ELSE Append(queue, e)
          /\ refused' = refused \ {e}
    /\ Go(v, "put")
    /\ UNCHANGED <<replicas, lock, job, pushing, plan, seen, late, ever, accepted, bounds>>

\* PutSnapshot of the register that was read, with the edge.
PutGraft(v) ==
    /\ pc[v] = "put"
    /\ LET j == job[v]
       IN local' = [local EXCEPT ![j.snapshot] = Merge(@, Advanced(j.base, {j.parent}))]
    /\ lock' = Nobody
    /\ Go(v, "move")
    /\ UNCHANGED <<remote, queue, job, pushing, plan, seen, late, history, bounds>>

\* The branch moves from the tip to the new head.
MoveRef(v) ==
    /\ pc[v] = "move"
    /\ job' = [job EXCEPT ![v] = NoJob]
    /\ Go(v, "idle")
    /\ UNCHANGED <<replicas, queue, lock, pushing, plan, seen, late, history, bounds>>

\* The process dies, or a write fails and the save is abandoned.
SaveStops(v) ==
    /\ pc[v] # "idle" /\ faults < MaxFaults
    /\ faults' = faults + 1
    /\ lock' = IF lock = v THEN Nobody ELSE lock
    /\ job' = [job EXCEPT ![v] = NoJob]
    /\ Go(v, "idle")
    /\ UNCHANGED <<replicas, queue, pushing, plan, seen, late, history, saves, others>>

-----------------------------------------------------------------------------
(* cxt push: flushGrafts.                                                  *)

EndFlush(f) ==
    /\ todo' = [todo EXCEPT ![f] = <<>>]
    /\ reply' = [reply EXCEPT ![f] = "ok"]
    /\ fetched' = [fetched EXCEPT ![f] = NoRegister]
    /\ Go(f, "idle")

\* On to the next event of the list that was loaded.
NextEvent(f) ==
    /\ todo' = [todo EXCEPT ![f] = Tail(@)]
    /\ reply' = [reply EXCEPT ![f] = "ok"]
    /\ fetched' = [fetched EXCEPT ![f] = NoRegister]
    /\ Go(f, IF Len(todo[f]) = 1 THEN "idle" ELSE "send")

\* The queue is loaded under the lock.
StartFlush(f) ==
    /\ pc[f] = "idle" /\ lock = Nobody /\ queue # <<>>
    /\ todo' = [todo EXCEPT ![f] = queue]
    /\ Go(f, "send")
    /\ UNCHANGED <<replicas, queue, lock, job, reply, fetched, plan, seen, late, history, bounds>>

\* GraftSnapshotParents: success goes on to the queue, a conflict and a legacy
\* event fetch the register first.
Send(f) ==
    /\ pc[f] = "send"
    /\ LET e == Head(todo[f])
           ok == Serve(remote, e).ok
       IN /\ Served(e)
          /\ reply' = [reply EXCEPT ![f] = IF ok THEN "ok" ELSE "conflict"]
          /\ Go(f, IF ok /\ ~e.legacy THEN "settle" ELSE "get")
    /\ UNCHANGED <<local, queue, lock, job, todo, fetched, plan, seen, late, refused, bounds>>

\* Any other error ends the flush; the request may still arrive.
SendFails(f) ==
    /\ pc[f] = "send" /\ faults < MaxFaults
    /\ faults' = faults + 1
    /\ late' = late \cup {Head(todo[f])}
    /\ EndFlush(f)
    /\ UNCHANGED <<replicas, queue, lock, job, plan, seen, history, saves, others>>

\* GetSnapshotRemote.
FetchRegister(f) ==
    /\ pc[f] = "get"
    /\ fetched' = [fetched EXCEPT ![f] = remote[Head(todo[f]).snapshot]]
    /\ Go(f, "settle")
    /\ UNCHANGED <<replicas, queue, lock, job, todo, reply, plan, seen, late, history, bounds>>

\* Mutant: the head is removed without being compared.
SettleByPosition(f) ==
    /\ pc[f] = "settle" /\ lock = Nobody
    /\ queue' = IF queue = <<>> THEN queue ELSE Tail(queue)
    /\ NextEvent(f)
    /\ UNCHANGED <<replicas, lock, job, plan, seen, late, history, bounds>>

\* Under the lock: an event another push has settled is skipped, one that is no
\* longer first ends the flush, a fetched register is adopted, and a success
\* leaves the queue.
Settle(f) ==
    /\ pc[f] = "settle" /\ lock = Nobody
    /\ LET e == Head(todo[f])
       IN \/ /\ ~Queued(e)
             /\ NextEvent(f)
             /\ UNCHANGED <<local, queue, lock>>
          \/ /\ Queued(e) /\ queue[1] # e
             /\ EndFlush(f)
             /\ UNCHANGED <<local, queue, lock>>
          \/ /\ Queued(e) /\ queue[1] = e /\ fetched[f] # NoRegister
             /\ local' = [local EXCEPT ![e.snapshot] = Reconcile(@, fetched[f])]
             /\ lock' = f
             /\ Go(f, "drop")
             /\ UNCHANGED <<queue, pushing>>
          \/ /\ Queued(e) /\ queue[1] = e /\ fetched[f] = NoRegister
             /\ queue' = Tail(queue)
             /\ NextEvent(f)
             /\ UNCHANGED <<local, lock>>
    /\ UNCHANGED <<remote, job, plan, seen, late, history, bounds>>

\* Mutant: a conflict leaves the queue alone.
KeptAll(e) == queue

\* What a conflict leaves in the queue: everything built on the same snapshot
\* is removed.
Kept(e) == Select(queue, Snapshot \ {e.snapshot})

\* The queue is stored after the register: a conflict ends the flush with an
\* error, a legacy success goes on.
Drop(f) ==
    /\ pc[f] = "drop"
    /\ lock' = Nobody
    /\ LET e == Head(todo[f])
       IN IF reply[f] = "conflict"
          THEN /\ queue' = Kept(e)
               /\ refused' = refused \cup (Range(queue) \ Range(Kept(e)))
               /\ EndFlush(f)
          ELSE /\ queue' = Tail(queue)
               /\ NextEvent(f)
               /\ UNCHANGED refused
    /\ UNCHANGED <<replicas, job, plan, seen, late, ever, accepted, bounds>>

\* The process dies, or a read or a write fails.
FlushStops(f) ==
    /\ pc[f] # "idle" /\ faults < MaxFaults
    /\ faults' = faults + 1
    /\ lock' = IF lock = f THEN Nobody ELSE lock
    /\ EndFlush(f)
    /\ UNCHANGED <<replicas, queue, job, plan, seen, late, history, saves, others>>

-----------------------------------------------------------------------------
(* cxt push of a selected publication.                                     *)

EndPlan(p) ==
    /\ todo' = [todo EXCEPT ![p] = <<>>]
    /\ plan' = [plan EXCEPT ![p] = NoPlan]
    /\ Go(p, "idle")

\* The events of the selected snapshots.
Prefix(selected) == Select(queue, selected)

\* publicationGraftPrefix: no selected event lies behind an excluded one, none is
\* a legacy event, and the frozen registers already hold their edges.
Plannable(selected) ==
    \A i \in DOMAIN queue :
        LET e == queue[i]
        IN e.snapshot \in selected =>
              /\ \A j \in 1..i : queue[j].snapshot \in selected
              /\ ~e.legacy /\ e.expected < local[e.snapshot].seq
              /\ e.parents \subseteq local[e.snapshot].edges

\* The queue and the registers are frozen under the lock; what is selected
\* contains what it depends on.
StartPlan(p, selected) ==
    /\ pc[p] = "idle" /\ lock = Nobody
    /\ \A s \in selected : local[s].edges \cap Snapshot \subseteq selected
    /\ Plannable(selected)
    /\ plan' = [plan EXCEPT ![p] = [selected |-> selected, frozen |-> local]]
    /\ todo' = [todo EXCEPT ![p] = Prefix(selected)]
    /\ Go(p, "check")
    /\ UNCHANGED <<replicas, queue, lock, job, reply, fetched, seen, late, history, bounds>>

\* executePublicationGrafts checks that the planned event is the head.
CheckHead(p) ==
    /\ pc[p] = "head" /\ lock = Nobody
    /\ IF queue # <<>> /\ queue[1] = Head(todo[p])
       THEN Go(p, "send") /\ UNCHANGED <<todo, plan>>
       ELSE EndPlan(p)
    /\ UNCHANGED <<replicas, queue, lock, job, reply, fetched, seen, late, history, bounds>>

\* Mutant: a conflict is taken for an event that is already settled.
SendPlannedOn(p) ==
    /\ pc[p] = "send"
    /\ Served(Head(todo[p]))
    /\ Go(p, "ack")
    /\ UNCHANGED <<local, queue, lock, job, pushing, plan, seen, late, refused, bounds>>

\* A conflict leaves the event in the queue and ends the publication.
SendPlanned(p) ==
    /\ pc[p] = "send"
    /\ LET e == Head(todo[p])
       IN /\ Served(e)
          /\ IF Serve(remote, e).ok THEN Go(p, "ack") /\ UNCHANGED <<todo, plan>>
             ELSE EndPlan(p)
    /\ UNCHANGED <<local, queue, lock, job, reply, fetched, seen, late, refused, bounds>>

\* Any other error ends the publication; the request may still arrive.
SendPlannedFails(p) ==
    /\ pc[p] = "send" /\ faults < MaxFaults
    /\ faults' = faults + 1
    /\ late' = late \cup {Head(todo[p])}
    /\ EndPlan(p)
    /\ UNCHANGED <<replicas, queue, lock, job, reply, fetched, seen, history, saves, others>>

\* The head is compared again: its disappearance never counts as its delivery.
AckPlanned(p) ==
    /\ pc[p] = "ack" /\ lock = Nobody
    /\ IF queue # <<>> /\ queue[1] = Head(todo[p])
       THEN /\ queue' = Tail(queue)
            /\ todo' = [todo EXCEPT ![p] = Tail(@)]
            /\ Go(p, IF Len(todo[p]) = 1 THEN "check" ELSE "head")
            /\ UNCHANGED plan
       ELSE EndPlan(p) /\ UNCHANGED queue
    /\ UNCHANGED <<replicas, lock, job, reply, fetched, seen, late, history, bounds>>

\* checkPublicationState, before the first event is sent and after the last: the
\* events still to be sent are the first of the queue, no other event of a
\* selected snapshot is queued, and the selected registers are the frozen ones.
CheckPublicationState(p) ==
    /\ pc[p] = "check" /\ lock = Nobody
    /\ IF /\ \A i \in DOMAIN todo[p] : i \in DOMAIN queue /\ queue[i] = todo[p][i]
          /\ Prefix(plan[p].selected) = todo[p]
          /\ \A s \in plan[p].selected : local[s] = plan[p].frozen[s]
       THEN Go(p, IF todo[p] = <<>> THEN "publish" ELSE "head") /\ UNCHANGED <<todo, plan>>
       ELSE EndPlan(p)
    /\ UNCHANGED <<replicas, queue, lock, job, reply, fetched, seen, late, history, bounds>>

\* The refs of the frozen graph are pushed.
Publish(p) ==
    /\ pc[p] = "publish"
    /\ EndPlan(p)
    /\ UNCHANGED <<replicas, queue, lock, job, reply, fetched, seen, late, history, bounds>>

\* The process dies, or a read or a write fails.
PlanStops(p) ==
    /\ pc[p] # "idle" /\ faults < MaxFaults
    /\ faults' = faults + 1
    /\ EndPlan(p)
    /\ UNCHANGED <<replicas, queue, lock, job, reply, fetched, seen, late, history, saves, others>>

-----------------------------------------------------------------------------
(* cxt pull, the network and the other writers of the server's registers.  *)

PullRead(s) ==
    /\ seen[s] = NoRegister
    /\ seen' = [seen EXCEPT ![s] = remote[s]]
    /\ UNCHANGED <<replicas, queue, lock, pc, job, pushing, plan, late, history, bounds>>

\* PutSnapshot of the fetched snapshot, without the queue's lock.
PullApply(s) ==
    /\ seen[s] # NoRegister
    /\ local' = [local EXCEPT ![s] = Merge(@, seen[s])]
    /\ seen' = [seen EXCEPT ![s] = NoRegister]
    /\ UNCHANGED <<remote, queue, lock, pc, job, pushing, plan, late, history, bounds>>

\* A request nobody waits for arrives.
ArriveLate(e) ==
    /\ e \in late
    /\ late' = late \ {e}
    /\ Served(e)
    /\ UNCHANGED <<local, queue, lock, pc, job, pushing, plan, seen, refused, bounds>>

LoseLate(e) ==
    /\ e \in late
    /\ late' = late \ {e}
    /\ UNCHANGED <<replicas, queue, lock, pc, job, pushing, plan, seen, history, bounds>>

\* The server's register of s becomes the set E at the next number.
Foreign(s, E) ==
    /\ others < MaxOthers /\ remote[s].seq < MaxGraftSeq
    /\ others' = others + 1
    /\ remote' = [remote EXCEPT ![s] = [edges |-> E, seq |-> @.seq + 1]]
    /\ ever' = [ever EXCEPT ![s] = @ \cup E]
    /\ UNCHANGED <<local, queue, lock, pc, job, pushing, plan, seen, late, accepted, refused,
                   saves, faults>>

\* AddGraftParents for another client's push: one parent, or several from a
\* legacy queue.
OtherGraft(s, P) ==
    /\ P # {} /\ P \cap remote[s].edges = {} /\ \A p \in P : s \notin Reach(remote, p)
    /\ Foreign(s, remote[s].edges \cup P)

\* SetGraftParents of a join: edges are removed.
JoinGraft(s, E) ==
    /\ E \subseteq remote[s].edges /\ E # remote[s].edges
    /\ Foreign(s, E)

-----------------------------------------------------------------------------
Save(v) ==
    \/ \E s \in Snapshot, p \in Node : StartGraft(v, s, p)
    \/ Enqueue(v) \/ PutGraft(v) \/ MoveRef(v) \/ SaveStops(v)

Flush(f) ==
    \/ StartFlush(f) \/ Send(f) \/ SendFails(f) \/ FetchRegister(f)
    \/ Settle(f) \/ Drop(f) \/ FlushStops(f)

PublishSelected(p) ==
    \/ \E selected \in SUBSET Snapshot : StartPlan(p, selected)
    \/ CheckHead(p) \/ SendPlanned(p) \/ SendPlannedFails(p) \/ AckPlanned(p)
    \/ CheckPublicationState(p) \/ Publish(p) \/ PlanStops(p)

Pull == \E s \in Snapshot : PullRead(s) \/ PullApply(s)

Network == \E e \in late : ArriveLate(e) \/ LoseLate(e)

OtherWriters ==
    \E s \in Snapshot, E \in SUBSET Node : OtherGraft(s, E) \/ JoinGraft(s, E)

Next ==
    \/ \E v \in Saver : Save(v)
    \/ \E f \in Flusher : Flush(f)
    \/ \E p \in Planner : PublishSelected(p)
    \/ Pull \/ Network \/ OtherWriters

Spec == Init /\ [][Next]_vars

\* A process that holds the lock goes on, pushes are retried until the queue is
\* empty, and pulls are repeated.
FairSpec ==
    /\ Spec
    /\ WF_vars(\E v \in Saver : Enqueue(v) \/ PutGraft(v) \/ MoveRef(v))
    /\ \A f \in Flusher : SF_vars(StartFlush(f) \/ Send(f) \/ FetchRegister(f) \/ Settle(f) \/ Drop(f))
    /\ \A s \in Snapshot : WF_vars(PullRead(s) \/ PullApply(s))

-----------------------------------------------------------------------------
(* Properties.                                                             *)

\* "It avoids creating a state where there is an edge locally but no remote
\* event": an edge of the clone is still queued for the server or has been in
\* the server's register (graftLocalAndQueueChecked, flushGrafts).
EdgeHasEvent ==
    \A s \in Snapshot : \A p \in local[s].edges :
        p \in ever[s] \/ \E e \in QueuedFor(s) : p \in e.parents

\* When nothing is queued for a snapshot, a pull makes the clone's register the
\* server's: the clone is never ahead of the server, and holds no edge without a
\* number that the server does not have (addGraftParents, putSnapshotLocked,
\* ReconcileGraftState).
DrainedMeansShared ==
    \A s \in Snapshot : QueuedFor(s) = {} => Merge(local[s], remote[s]) = remote[s]

\* "preventing the tail of concurrent Save operations from being overwritten":
\* an event leaves the queue only after the server has accepted it or together
\* with a conflict that the push reports (flushGrafts, executePublicationGrafts).
NothingDropped ==
    [][Range(queue) \ Range(queue') \subseteq accepted' \cup refused']_vars

\* A publication pushes its refs only when the server has held every edge of
\* the frozen graph the refs rely on (executePublicationGrafts,
\* checkPublicationState).
PublishedGraphIsShared ==
    \A p \in Planner : pc[p] = "publish" =>
        \A s \in plan[p].selected : plan[p].frozen[s].edges \subseteq ever[s]

\* The queue drains and the clone ends with the server's registers, whatever
\* requests were lost, repeated or refused on the way (flushGrafts, pull).
Converges == <>[](queue = <<>> /\ local = remote)

============================================================================
