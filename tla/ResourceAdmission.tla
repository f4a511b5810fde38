-------------------------- MODULE ResourceAdmission --------------------------
(***************************************************************************)
(* Admission of heavy work inside one server process: the gate that hands  *)
(* out two active slots, of which one may do bulk work; its two bounded    *)
(* queues; the permits, which may be upgraded, park their bulk slot in     *)
(* favour of a queued caller and take it back; and the process governor    *)
(* that can be put over the gate and taken off again.                      *)
(*                                                                         *)
(* One action is one critical section under gate.mu, or one call to the    *)
(* governor's permit, which runs with no lock of the gate held.  A permit  *)
(* is used by one goroutine, except that it may be released while that     *)
(* goroutine waits parked.  Waits end by a grant, by the caller's          *)
(* cancellation or by the one second timer, whichever comes first.         *)
(***************************************************************************)
EXTENDS Naturals, Sequences, FiniteSets, Functions

CONSTANTS
    Request,            \* concurrent callers
    NoRequest,          \* no permit retained
    ActiveLimit,        \* active slots of an ungoverned process
    QueueLimit,         \* resourceQueueLimit, per class
    GovernedActive,     \* ProcessAdmissionLimits.Active of the governor
    GovernedQueue,      \* ProcessAdmissionLimits.Queue, over both classes
    MaxConfigurations   \* bound: governors put in place in a behaviour

ASSUME RequestAssumption == NoRequest \notin Request /\ IsFiniteSet(Request)

ASSUME LimitAssumption ==
    /\ ActiveLimit \in Nat \ {0} /\ GovernedActive \in 1 .. ActiveLimit
    /\ QueueLimit \in Nat \ {0} /\ GovernedQueue \in Nat \ {0}
    /\ MaxConfigurations \in Nat

VARIABLES
    gate,           \* the resourceAdmission record
    configuration,  \* the governor in place, 0 if none
    configured,     \* governors put in place so far
    restoring,      \* the governor in place is to be taken off
    pc,             \* what each caller does next
    class,          \* the class of its permit
    seen,           \* the governor its acquisition observed
    remote          \* what its permit holds of the governor

governor == <<configuration, configured, restoring>>
vars == <<gate, governor, pc, class, seen, remote>>

Class == {"interactive", "bulk"}

\* An upgraded permit is bulk, but not owned by the job that may park it.
PermitClass == Class \cup {"upgraded"}

Live == {"admitted", "working", "upgrading", "downgrading", "parking", "staying", "surrendering",
         "parked", "resuming", "abandoning", "reparking", "resigning", "releasing", "leaving"}

Step == {"idle", "observed", "queued"} \cup Live

Gate == [active : Nat, bulk : Nat, waiters : [Class -> Seq(Request)],
         granted : SUBSET Request, parked : SUBSET Request, retained : Request \cup {NoRequest}]

TypeOK ==
    /\ gate \in Gate
    /\ configuration \in 0 .. MaxConfigurations
    /\ configured \in 0 .. MaxConfigurations
    /\ restoring \in BOOLEAN
    /\ pc \in [Request -> Step]
    /\ class \in [Request -> PermitClass]
    /\ seen \in [Request -> 0 .. MaxConfigurations]
    /\ remote \in [Request -> {"none", "active", "bulk"}]

EmptyGate == [active |-> 0, bulk |-> 0, waiters |-> [c \in Class |-> <<>>],
              granted |-> {}, parked |-> {}, retained |-> NoRequest]

Init ==
    /\ gate = EmptyGate
    /\ configuration = 0 /\ configured = 0 /\ restoring = FALSE
    /\ pc = [r \in Request |-> "idle"]
    /\ class = [r \in Request |-> "interactive"]
    /\ seen = [r \in Request |-> 0]
    /\ remote = [r \in Request |-> "none"]

-----------------------------------------------------------------------------
(* The gate. *)

ActiveCapacity == IF configuration = 0 THEN ActiveLimit ELSE GovernedActive
QueueCapacity == IF configuration = 0 THEN QueueLimit ELSE GovernedQueue

Queued(g) == Len(g.waiters["interactive"]) + Len(g.waiters["bulk"])

\* An ungoverned queue is bounded per class, a governed one over both.
QueueFull(c) == (IF configuration = 0 THEN Len(gate.waiters[c]) ELSE Queued(gate)) >= QueueCapacity

IdleGate(g) == g.active = 0 /\ g.bulk = 0 /\ g.retained = NoRequest /\ Queued(g) = 0

\* Mutant: the newest caller goes first.
EnqueueFront(g, c, r) == [g EXCEPT !.waiters[c] = <<r>> \o @]

Enqueue(g, c, r) == [g EXCEPT !.waiters[c] = Append(@, r)]

\* The queue without r; a caller has at most one waiter.
Without(q, r) ==
    IF r \notin Range(q) THEN q
    ELSE LET at == CHOOSE i \in 1 .. Len(q) : q[i] = r
         IN  [i \in 1 .. Len(q) - 1 |-> IF i < at THEN q[i] ELSE q[i + 1]]

RemoveWaiter(g, c, r) == [g EXCEPT !.waiters[c] = Without(@, r)]

\* A waiter of a live permit asks for its bulk slot back; it has an active slot.
Resumes(r) == pc[r] \in Live

\* The bulk waiter to grant, if any: the head, when the bulk slot is free and
\* the head has an active slot or can get one.
NextBulk(g) ==
    {r \in Request : /\ g.bulk = 0
                     /\ g.waiters["bulk"] # <<>> /\ r = Head(g.waiters["bulk"])
                     /\ Resumes(r) \/ g.active < ActiveCapacity}

\* Mutant: the last slot is kept for bulk work.
InteractiveReserved(active, line) ==
    IF active + 1 >= ActiveCapacity \/ line = <<>> THEN 0 ELSE 1

\* How many of the waiters in line get one of the slots left.
NextInteractive(active, line) ==
    IF active >= ActiveCapacity THEN 0
    ELSE IF Len(line) <= ActiveCapacity - active THEN Len(line) ELSE ActiveCapacity - active

\* dispatch: the bulk head first, then interactive heads while slots are free.
Dispatch(g) ==
    LET first == NextBulk(g)
        active == g.active + Cardinality({r \in first : ~Resumes(r)})
        line == g.waiters["interactive"]
        n == NextInteractive(active, line)
    IN  [active |-> active + n,
         bulk |-> g.bulk + Cardinality(first),
         waiters |-> [c \in Class |->
                        IF c = "interactive" THEN SubSeq(line, n + 1, Len(line))
                        ELSE IF first = {} THEN g.waiters[c] ELSE Tail(g.waiters[c])],
         granted |-> g.granted \cup first \cup {line[i] : i \in 1 .. n},
         parked |-> g.parked \ first,
         retained |-> IF {r \in first : Resumes(r)} = {} THEN g.retained ELSE NoRequest]

\* Mutant: the callers that leave do not take the governor off.
RestoreNever(g) == UNCHANGED <<configured, configuration, restoring>>

\* restoreProcessAdmission: a governor to be taken off goes once the gate is idle.
RestoreProcessAdmission(g) ==
    /\ UNCHANGED configured
    /\ IF restoring /\ IdleGate(g)
       THEN configuration' = 0 /\ restoring' = FALSE
       ELSE UNCHANGED <<configuration, restoring>>

-----------------------------------------------------------------------------
(* Acquiring a permit. *)

Goto(r, step) == pc' = [pc EXCEPT ![r] = step]

\* The caller returns, and nothing is left of its waiter or permit.
Gone(r) == /\ Goto(r, "idle")
           /\ class' = [class EXCEPT ![r] = "interactive"]
           /\ seen' = [seen EXCEPT ![r] = 0]

IsBulk(c) == c # "interactive"

\* Mutant: a bulk waiter that was granted too late gives only its active slot back.
ReturnedActive(g, r) == [g EXCEPT !.active = @ - 1, !.granted = @ \ {r}]

\* The slots r was granted, given back.
Returned(g, r) ==
    [g EXCEPT !.active = @ - 1, !.bulk = IF IsBulk(class[r]) THEN @ - 1 ELSE @,
              !.granted = @ \ {r}]

\* The caller reads which governor is in place, if it is not being taken off.
Observe(r, c) ==
    /\ pc[r] = "idle"
    /\ ~restoring
    /\ Goto(r, "observed")
    /\ class' = [class EXCEPT ![r] = c]
    /\ seen' = [seen EXCEPT ![r] = configuration]
    /\ UNCHANGED <<gate, governor, remote>>

\* The governor the caller observed has changed meanwhile, or the queue is full.
Refused(r) ==
    \/ configuration # seen[r]
    \/ restoring
    \/ configuration = 0 /\ QueueFull(class[r])

\* Only a governed caller still has to ask the governor.
Admitted(r) == IF seen[r] = 0 THEN "working" ELSE "admitted"

\* The caller joins its queue and the gate dispatches; a caller who is not
\* granted leaves again at once when it would not wait or the queue overflows.
Enter(r, wait) ==
    LET g == Dispatch(Enqueue(gate, class[r], r))
        overflow == configuration # 0 /\ Queued(g) > QueueCapacity
    IN  /\ pc[r] = "observed"
        /\ \/ Refused(r) /\ Gone(r) /\ UNCHANGED gate
           \/ /\ ~Refused(r) /\ r \in g.granted
              /\ gate' = [g EXCEPT !.granted = @ \ {r}]
              /\ Goto(r, Admitted(r)) /\ UNCHANGED <<class, seen>>
           \/ /\ ~Refused(r) /\ r \notin g.granted
              /\ overflow \/ ~wait
              /\ gate' = RemoveWaiter(g, class[r], r)
              /\ Gone(r)
           \/ /\ ~Refused(r) /\ r \notin g.granted
              /\ ~overflow /\ wait
              /\ gate' = g
              /\ Goto(r, "queued") /\ UNCHANGED <<class, seen>>
        /\ UNCHANGED <<governor, remote>>

\* A waiting caller notices its grant.
Proceed(r) ==
    /\ pc[r] = "queued" /\ r \in gate.granted
    /\ gate' = [gate EXCEPT !.granted = @ \ {r}]
    /\ Goto(r, Admitted(r))
    /\ UNCHANGED <<governor, class, seen, remote>>

\* A waiting caller is cancelled or times out, perhaps after it was granted.
GiveUp(r) ==
    /\ pc[r] = "queued"
    /\ gate' = Dispatch(IF r \in gate.granted THEN Returned(gate, r)
                        ELSE RemoveWaiter(gate, class[r], r))
    /\ RestoreProcessAdmission(gate')
    /\ Gone(r)
    /\ UNCHANGED remote

\* What a fresh permit of the governor holds.
Share(r) == IF IsBulk(class[r]) THEN "bulk" ELSE "active"

\* The governor grants, or refuses; a grant that comes too late is given back.
AcquireRemote(r) ==
    /\ pc[r] = "admitted"
    /\ \/ remote' = [remote EXCEPT ![r] = Share(r)] /\ Goto(r, "working")
       \/ /\ \E held \in {"none", Share(r)} : remote' = [remote EXCEPT ![r] = held]
          /\ Goto(r, "releasing")
    /\ UNCHANGED <<gate, governor, class, seen>>

-----------------------------------------------------------------------------
(* Releasing a permit: what it holds of the governor first, then its slots. *)

ReleaseRemote(r) ==
    /\ pc[r] \in {"working", "parked", "releasing"}
    /\ remote' = [remote EXCEPT ![r] = "none"]
    /\ Goto(r, "leaving")
    /\ UNCHANGED <<gate, governor, class, seen>>

\* The slots of r, given back: a parked permit has no bulk slot, and a waiter
\* that asks for it back is withdrawn.
Vacated(g, r) ==
    LET h == IF r \in g.granted THEN g ELSE RemoveWaiter(g, "bulk", r)
    IN  [active |-> h.active - 1,
         bulk |-> IF IsBulk(class[r]) /\ r \notin h.parked THEN h.bulk - 1 ELSE h.bulk,
         waiters |-> h.waiters,
         granted |-> h.granted \ {r},
         parked |-> h.parked \ {r},
         retained |-> IF h.retained = r THEN NoRequest ELSE h.retained]

Release(r) ==
    /\ pc[r] = "leaving"
    /\ gate' = Dispatch(Vacated(gate, r))
    /\ RestoreProcessAdmission(gate')
    /\ Gone(r)
    /\ UNCHANGED remote

-----------------------------------------------------------------------------
(* Using a permit for bulk work: the nested acquisition upgrades it. *)

\* The upgrade takes the bulk slot only when it is free and nobody queues for it.
CanUpgrade(r) == class[r] = "interactive" /\ gate.bulk = 0 /\ gate.waiters["bulk"] = <<>>

Upgrade(r) ==
    /\ pc[r] = "working"
    /\ CanUpgrade(r)
    /\ class' = [class EXCEPT ![r] = "upgraded"]
    /\ gate' = [gate EXCEPT !.bulk = @ + 1]
    /\ Goto(r, "upgrading")
    /\ UNCHANGED <<governor, seen, remote>>

\* The remote permits that may be left when its bulk share was given up: the
\* permit without the share, or none when giving it up failed.
Abandoned(held) == IF held = "none" THEN {"none"} ELSE {"active", "none"}

UpgradeRemote(r) ==
    /\ pc[r] = "upgrading"
    /\ \/ /\ remote' = [remote EXCEPT ![r] = IF @ = "none" THEN "none" ELSE "bulk"]
          /\ Goto(r, "working")
       \/ /\ \E held \in Abandoned(remote[r]) : remote' = [remote EXCEPT ![r] = held]
          /\ Goto(r, "downgrading")
    /\ UNCHANGED <<gate, governor, class, seen>>

\* Mutant: the slot of a failed upgrade is returned without a dispatch.
DowngradeSilently(r) ==
    /\ pc[r] = "downgrading"
    /\ class' = [class EXCEPT ![r] = "interactive"]
    /\ gate' = [gate EXCEPT !.bulk = @ - 1]
    /\ Goto(r, "working")
    /\ UNCHANGED <<governor, seen, remote>>

\* The upgrade failed: the local slot goes back.
Downgrade(r) ==
    /\ pc[r] = "downgrading"
    /\ class' = [class EXCEPT ![r] = "interactive"]
    /\ gate' = Dispatch([gate EXCEPT !.bulk = @ - 1])
    /\ Goto(r, "working")
    /\ UNCHANGED <<governor, seen, remote>>

-----------------------------------------------------------------------------
(* Parking: a prepared job lets a queued bulk caller go first. *)

CanYield(r) ==
    /\ ActiveCapacity >= 2
    /\ class[r] = "bulk" /\ r \notin gate.parked
    /\ gate.retained = NoRequest
    /\ gate.waiters["bulk"] # <<>> /\ ~QueueFull("bulk")

\* The permit queues for its own bulk slot before it gives it up.
Yield(r) ==
    /\ pc[r] = "working"
    /\ CanYield(r)
    /\ gate' = Enqueue(gate, "bulk", r)
    /\ Goto(r, "parking")
    /\ UNCHANGED <<governor, class, seen, remote>>

\* What a remote permit keeps when it is parked.
Parked(held) == IF held = "none" THEN "none" ELSE "active"

\* The governor's share is parked, or parking it fails, perhaps half way.
ParkRemote(r) ==
    /\ pc[r] = "parking"
    /\ \/ remote' = [remote EXCEPT ![r] = Parked(@)] /\ Goto(r, "surrendering")
       \/ /\ \E held \in {remote[r], Parked(remote[r])} : remote' = [remote EXCEPT ![r] = held]
          /\ Goto(r, "staying")
    /\ UNCHANGED <<gate, governor, class, seen>>

\* Parking failed: the permit keeps its slot and leaves the queue.
Stay(r) ==
    /\ pc[r] = "staying"
    /\ gate' = RemoveWaiter(gate, "bulk", r)
    /\ Goto(r, "working")
    /\ UNCHANGED <<governor, class, seen, remote>>

\* The permit without its bulk slot; its active slot is retained for it.
Surrendered(g, r) ==
    [g EXCEPT !.bulk = @ - 1, !.parked = @ \cup {r}, !.retained = r, !.granted = @ \ {r}]

Surrender(r) ==
    /\ pc[r] = "surrendering"
    /\ gate' = Dispatch(Surrendered(gate, r))
    /\ Goto(r, "parked")
    /\ UNCHANGED <<governor, class, seen, remote>>

\* The parked permit is granted its slot, or its wait ends first, or both.
Wake(r) ==
    /\ pc[r] = "parked"
    /\ \/ r \in gate.granted /\ UNCHANGED gate /\ Goto(r, "resuming")
       \/ r \in gate.granted /\ UNCHANGED gate /\ Goto(r, "abandoning")
       \/ r \notin gate.granted /\ gate' = RemoveWaiter(gate, "bulk", r) /\ Goto(r, "resigning")
    /\ UNCHANGED <<governor, class, seen, remote>>

\* The governor's share is taken back, or not, or too late.
ResumeRemote(r) ==
    /\ pc[r] = "resuming"
    /\ \/ /\ remote' = [remote EXCEPT ![r] = IF @ = "none" THEN "none" ELSE "bulk"]
          /\ gate' = [gate EXCEPT !.granted = @ \ {r}]
          /\ Goto(r, "working")
       \/ /\ \E held \in {remote[r], IF remote[r] = "none" THEN "none" ELSE "bulk"} :
                remote' = [remote EXCEPT ![r] = held]
          /\ UNCHANGED gate
          /\ Goto(r, "abandoning")
    /\ UNCHANGED <<governor, class, seen>>

\* Mutant: a resume that came too late keeps its share of the governor.
AbandonNothing(r) ==
    /\ pc[r] = "abandoning"
    /\ Goto(r, "reparking")
    /\ UNCHANGED <<gate, governor, class, seen, remote>>

\* A resume that failed or came too late gives its share back before its slot.
AbandonRemote(r) ==
    /\ pc[r] = "abandoning"
    /\ \E held \in Abandoned(remote[r]) : remote' = [remote EXCEPT ![r] = held]
    /\ Goto(r, "reparking")
    /\ UNCHANGED <<gate, governor, class, seen>>

\* The grant came to nothing: the permit parks again until it is released.
Repark(r) ==
    /\ pc[r] = "reparking"
    /\ gate' = Dispatch(Surrendered(gate, r))
    /\ Goto(r, "working")
    /\ UNCHANGED <<governor, class, seen, remote>>

\* The wait ended without a grant: the permit stays parked until it is released.
Resign(r) ==
    /\ pc[r] = "resigning"
    /\ gate' = Dispatch(RemoveWaiter(gate, "bulk", r))
    /\ Goto(r, "working")
    /\ UNCHANGED <<governor, class, seen, remote>>

-----------------------------------------------------------------------------
(* The governor. *)

ConfigureProcessAdmission ==
    /\ configured < MaxConfigurations
    /\ configuration = 0 /\ IdleGate(gate)
    /\ configuration' = configured + 1
    /\ configured' = configured + 1
    /\ UNCHANGED <<gate, restoring, pc, class, seen, remote>>

\* The function ConfigureProcessAdmission returned is called, perhaps again.
TakeOff ==
    /\ configuration # 0
    /\ UNCHANGED <<gate, configured, pc, class, seen, remote>>
    /\ IF IdleGate(gate) THEN configuration' = 0 /\ restoring' = FALSE
                         ELSE restoring' = TRUE /\ UNCHANGED configuration

-----------------------------------------------------------------------------
\* What a caller does without being asked, once it has observed the gate.
Advance(r) ==
    \/ \E wait \in BOOLEAN : Enter(r, wait)
    \/ Proceed(r)
    \/ AcquireRemote(r)
    \/ Release(r)
    \/ UpgradeRemote(r)
    \/ Downgrade(r)
    \/ ParkRemote(r)
    \/ Stay(r)
    \/ Surrender(r)
    \/ ResumeRemote(r)
    \/ AbandonRemote(r)
    \/ Repark(r)
    \/ Resign(r)

Next ==
    \/ \E r \in Request :
          \/ \E c \in Class : Observe(r, c)
          \/ GiveUp(r)
          \/ ReleaseRemote(r)
          \/ Upgrade(r)
          \/ Yield(r)
          \/ Wake(r)
          \/ Advance(r)
    \/ ConfigureProcessAdmission
    \/ TakeOff

Spec == Init /\ [][Next]_vars

\* The work done under a permit ends, however often it parks on the way.
Finish(r) == pc[r] # "parked" /\ ReleaseRemote(r)

\* A parked permit notices its grant.
Noticed(r) == r \in gate.granted /\ Wake(r)

\* Callers run and their work ends.  No caller has to give up, to be cancelled
\* or to time out.
Fairness == \A r \in Request : /\ WF_vars(Advance(r))
                               /\ WF_vars(Noticed(r))
                               /\ SF_vars(Finish(r))

FairSpec == Spec /\ Fairness

-----------------------------------------------------------------------------
(* Properties. *)

\* Callers that have an active slot, and those that have the bulk slot too.
Holders == {r \in Request : pc[r] \in Live \/ r \in gate.granted}
BulkHolders == {r \in Holders \ gate.parked : IsBulk(class[r])}

\* The counters the gate decides by are the number of callers that hold its
\* slots, through grants that nobody collected, upgrades that fail, permits
\* released while they are parked and permits that resume too late.
CountersExact == gate.active = Cardinality(Holders) /\ gate.bulk = Cardinality(BulkHolders)

\* Never more work than the limits of the governor in place allow, and never
\* two bulk jobs, although a parked permit resumes without asking for a slot.
WithinCapacity == gate.active <= ActiveCapacity /\ gate.bulk <= 1

\* The active slot of a parked permit is retained for it, and for one at a time.
OneParked == gate.parked = {gate.retained} \ {NoRequest}

\* No wakeup is lost: whenever gate.mu is free there is nobody dispatch would
\* grant, although several critical sections change the queues or the slots
\* without calling it.
NothingGrantable == Dispatch(gate) = gate

\* The process asks the governor for its bulk share only under its own bulk
\* slot, and hands that slot on only when the share is given back.
RemoteInsideLocal == \A r \in Request : remote[r] = "bulk" => r \in BulkHolders

\* Nobody waits or works under a governor that is not in place.
OneRegime ==
    \A r \in Request : pc[r] \in Live \cup {"queued"} => seen[r] = configuration

\* A governor to be taken off stays only while somebody still uses the gate.
RestoringMeansBusy == restoring => ~IdleGate(gate)

\* "At most one of the two active slots can be bulk, leaving the other available
\* for interactive requests": nobody waits for interactive work while every
\* active slot is held for bulk work.
InteractiveSlotLeft ==
    ActiveCapacity >= 2 /\ gate.waiters["interactive"] # <<>>
        => {r \in Holders : ~IsBulk(class[r])} # {}

Before(q, r, s) == \E i, j \in 1 .. Len(q) : i < j /\ q[i] = r /\ q[j] = s

\* Who gets a slot of class c in this step, by a grant or by an upgrade.
Served(c) == IF c = "bulk" THEN BulkHolders' \ BulkHolders
             ELSE {s \in Holders' \ Holders : class'[s] = c}

\* First come, first served: while a caller stays queued nobody who came later,
\* or who never queued, gets a slot of its class or a place before it.
NoOvertaking ==
    [][\A c \in Class : \A r \in Range(gate.waiters[c]) : \A s \in Request \ {r} :
          r \in Range(gate'.waiters[c]) /\ ~Before(gate.waiters[c], s, r)
             => s \notin Served(c) /\ ~Before(gate'.waiters[c], s, r)]_vars

\* With two active slots so is an interactive one: no stream of bulk work, of
\* upgrades or of permits that park keeps both slots forever.
InteractiveServed ==
    \A r \in Request :
        r \in Range(gate.waiters["interactive"]) /\ ActiveCapacity >= 2
            ~> r \notin Range(gate.waiters["interactive"])

\* A governor to be taken off is taken off in the end.
Restored == restoring ~> ~restoring
=============================================================================
