------------------------- MODULE NotificationOutbox --------------------------
(***************************************************************************)
(* The repository webhook outbox: rows of notification_outbox, the workers *)
(* that claim and deliver them, the settings of the repository they belong *)
(* to and the maintainer's manual retry.                                   *)
(*                                                                         *)
(* Every store operation is one PostgreSQL transaction and so one action;  *)
(* a worker takes one step per call it makes, with no lock held between    *)
(* two steps.  Time is kept as the ticks left until a deadline: the code's *)
(* lease_until > clock_timestamp() is lease > 0 here, and                  *)
(* next_attempt <= clock_timestamp() is wait = 0.                          *)
(***************************************************************************)
EXTENDS Naturals

CONSTANTS
    Job,            \* identities of notification rows
    Worker,         \* concurrent delivery workers, over all API processes
    Url,            \* webhook destinations
    HttpUrl,        \* those with an http(s) scheme and a host
    NoUrl,          \* the empty webhook setting
    NoClaim,        \* a worker that holds no delivery
    MaxAttempts,    \* notificationMaxAttempts
    Lease,          \* notificationLease, in ticks
    Backoff,        \* exponential backoff before the next attempt, in ticks
    RetryAfter,     \* waits a receiver may ask for, in ticks
    DelayCap,       \* the 24 hour cap on a retry delay, in ticks
    MaxRetries,     \* bound: manual retries in a behaviour
    MaxFaults       \* bound: crashes, store errors and stalls in a behaviour

ASSUME UrlAssumption == /\ HttpUrl \subseteq Url
                        /\ NoUrl \notin Url

ASSUME ClaimAssumption ==
    NoClaim \notin [job : Job, version : Nat, attempts : Nat \ {0}, destination : Url]

ASSUME TimingAssumption == /\ MaxAttempts \in Nat \ {0}
                           /\ Lease \in Nat \ {0}
                           /\ DelayCap \in Nat
                           /\ RetryAfter \subseteq Nat
                           /\ Backoff \in [1 .. MaxAttempts -> Nat]

ASSUME BoundAssumption == MaxRetries \in Nat /\ MaxFaults \in Nat

VARIABLES
    outbox,      \* the rows
    repository,  \* the settings of the repository the rows belong to
    pc,          \* what each worker does next
    claim,       \* the delivery each worker holds, as it read it
    outcome,     \* what each worker is about to record
    sent,        \* history: requests handed to the network
    accepted,    \* history: the claims whose request the receiver accepted
    retries,     \* manual retries so far
    faults       \* faults so far

vars == <<outbox, repository, pc, claim, outcome, sent, accepted, retries, faults>>
workers == <<pc, claim, outcome>>
history == <<sent, accepted>>
bounds == <<retries, faults>>

Settled == {"delivered", "attention"}
RowState == {"absent", "pending", "running", "retrying"} \cup Settled
Row == [state : RowState, destination : Url \cup {NoUrl}, version : Nat,
        attempts : Nat, wait : Nat, lease : Nat]
Claim == [job : Job, version : Nat, attempts : Nat \ {0}, destination : Url]
Outcome == [state : {"retrying"} \cup Settled, wait : Nat]

NoOutcome == [state |-> "attention", wait |-> 0]

TypeOK ==
    /\ outbox \in [Job -> Row]
    /\ \A j \in Job : outbox[j].state # "absent" => outbox[j].destination \in Url
    /\ repository \in [webhook : Url \cup {NoUrl}, archived : BOOLEAN]
    /\ pc \in [Worker -> {"idle", "claimed", "configured", "prepared", "validated", "finish"}]
    /\ claim \in [Worker -> Claim \cup {NoClaim}]
    /\ \A w \in Worker : claim[w] = NoClaim <=> pc[w] = "idle"
    /\ outcome \in [Worker -> Outcome]
    /\ sent \in SUBSET Claim
    /\ accepted \in SUBSET Claim
    /\ retries \in Nat
    /\ faults \in Nat

Init ==
    /\ outbox = [j \in Job |-> [state |-> "absent", destination |-> NoUrl, version |-> 0,
                                attempts |-> 0, wait |-> 0, lease |-> 0]]
    /\ repository \in [webhook : Url, archived : {FALSE}]
    /\ pc = [w \in Worker |-> "idle"]
    /\ claim = [w \in Worker |-> NoClaim]
    /\ outcome = [w \in Worker |-> NoOutcome]
    /\ sent = {}
    /\ accepted = {}
    /\ retries = 0
    /\ faults = 0

-----------------------------------------------------------------------------
(* Producers and operators. *)

ActiveWebhook == repository.webhook # NoUrl /\ ~repository.archived

\* A repository event is enqueued in the transaction of the change it reports;
\* without an active webhook nothing is enqueued.
EnqueueNotification(j) ==
    /\ ActiveWebhook
    /\ outbox[j].state = "absent"
    /\ outbox' = [outbox EXCEPT ![j] = [state |-> "pending", destination |-> repository.webhook,
                                        version |-> 0, attempts |-> 0, wait |-> 0, lease |-> 0]]
    /\ UNCHANGED <<repository, workers, history, bounds>>

\* An owner points the webhook elsewhere, clears it, archives or restores.
UpdateRepositorySettings ==
    /\ repository' \in [webhook : Url \cup {NoUrl}, archived : BOOLEAN]
    /\ repository' # repository
    /\ UNCHANGED <<outbox, workers, history, bounds>>

\* Mutant: a manual retry may interrupt a live lease.
ReplayableUnderLease(row) == row.state \notin {"absent", "delivered"}

\* A delivered row and one under a live lease refuse a manual retry.
Replayable(row) == /\ row.state \notin {"absent", "delivered"}
                   /\ ~(row.state = "running" /\ row.lease > 0)

\* The row as a manual retry leaves it: due at once, with a fresh attempt count
\* and the webhook configured now.
Retried(row) ==
    [state |-> "pending", destination |-> repository.webhook, version |-> row.version + 1,
     attempts |-> 0, wait |-> 0, lease |-> 0]

RetryNotification(j) ==
    /\ retries < MaxRetries
    /\ ActiveWebhook
    /\ Replayable(outbox[j])
    /\ outbox' = [outbox EXCEPT ![j] = Retried(outbox[j])]
    /\ retries' = retries + 1
    /\ UNCHANGED <<repository, workers, history, faults>>

-----------------------------------------------------------------------------
(* A worker's pass over one delivery. *)

\* Mutant: a row left running by a dead worker is not picked up again.
ClaimableWhenDue(row) == row.state \in {"pending", "retrying"} /\ row.wait = 0

\* Due, or abandoned by a worker whose lease ran out.
Claimable(row) == \/ row.state \in {"pending", "retrying"} /\ row.wait = 0
                  \/ row.state = "running" /\ row.lease = 0

\* Mutant: a claim does not raise the version.
ClaimedSameVersion(row) ==
    [row EXCEPT !.state = "running", !.attempts = row.attempts + 1, !.lease = Lease]

\* The row as a claim leaves it.
Claimed(row) ==
    [state |-> "running", destination |-> row.destination, version |-> row.version + 1,
     attempts |-> row.attempts + 1, wait |-> row.wait, lease |-> Lease]

\* What the claiming worker takes away of the row.
ClaimOf(j, row) == [job |-> j, version |-> row.version, attempts |-> row.attempts,
                    destination |-> row.destination]

ClaimNotification(w, j) ==
    /\ pc[w] = "idle"
    /\ Claimable(outbox[j])
    /\ outbox' = [outbox EXCEPT ![j] = Claimed(outbox[j])]
    /\ claim' = [claim EXCEPT ![w] = ClaimOf(j, Claimed(outbox[j]))]
    /\ pc' = [pc EXCEPT ![w] = "claimed"]
    /\ UNCHANGED <<repository, outcome, history, bounds>>

\* The worker goes on to record state s, the row being due again after d ticks.
Decide(w, s, d) == /\ pc' = [pc EXCEPT ![w] = "finish"]
                   /\ outcome' = [outcome EXCEPT ![w] = [state |-> s, wait |-> d]]

AtLeast(a, b) == IF a < b THEN b ELSE a
AtMost(a, b) == IF a > b THEN b ELSE a

\* The retry closure: give up at the attempt limit, otherwise back off for at
\* least as long as the receiver asked, up to the cap.
Retry(w, after) ==
    IF claim[w].attempts >= MaxAttempts
    THEN Decide(w, "attention", 0)
    ELSE Decide(w, "retrying", AtMost(AtLeast(Backoff[claim[w].attempts], after), DelayCap))

Proceed(w, step) == pc' = [pc EXCEPT ![w] = step] /\ UNCHANGED outcome

\* The checks before anything is sent: attempts left, the repository readable,
\* its webhook active and still the one this row was enqueued for.
Deliverable(w) == /\ ActiveWebhook
                  /\ repository.webhook = claim[w].destination
                  /\ claim[w].destination \in HttpUrl

\* Mutant: a row whose earlier passes all crashed is sent however often.
AttemptsUnlimited(w) == TRUE

AttemptsLeft(w) == claim[w].attempts <= MaxAttempts

CheckConfiguration(w) ==
    /\ pc[w] = "claimed"
    /\ \/ /\ ~AttemptsLeft(w) \/ ~Deliverable(w)
          /\ Decide(w, "attention", 0)
       \/ AttemptsLeft(w) /\ Retry(w, 0)
       \/ /\ AttemptsLeft(w)
          /\ Deliverable(w)
          /\ Proceed(w, "configured")
    /\ UNCHANGED <<outbox, repository, claim, history, bounds>>

\* Building the request may fail for good, or for now.
Prepare(w) ==
    /\ pc[w] = "configured"
    /\ Decide(w, "attention", 0) \/ Retry(w, 0) \/ Proceed(w, "prepared")
    /\ UNCHANGED <<outbox, repository, claim, history, bounds>>

\* Mutant: attempts, not the version, identify a claim.
HoldsAttempt(w) ==
    LET row == outbox[claim[w].job] IN
    /\ row.attempts = claim[w].attempts
    /\ row.state = "running"
    /\ row.lease > 0

\* The row is still the one this worker claimed, under a live lease.  The times,
\* reason and status the code also compares are written only together with the
\* version or with the state.
HoldsClaim(w) ==
    LET row == outbox[claim[w].job] IN
    /\ row.version = claim[w].version
    /\ row.attempts = claim[w].attempts
    /\ row.state = "running"
    /\ row.lease > 0

\* The last check before the request leaves.  A refusal returns an error without
\* recording anything: the row stays running until its lease runs out.
ValidateNotificationDelivery(w) ==
    /\ pc[w] = "prepared"
    /\ \/ /\ HoldsClaim(w)
          /\ outbox[claim[w].job].destination = claim[w].destination
          /\ ActiveWebhook
          /\ repository.webhook = claim[w].destination
          /\ Proceed(w, "validated")
          /\ UNCHANGED claim
       \/ /\ \/ ~HoldsClaim(w)
             \/ outbox[claim[w].job].destination # claim[w].destination
             \/ ~ActiveWebhook
             \/ repository.webhook # claim[w].destination
          /\ Proceed(w, "idle")
          /\ claim' = [claim EXCEPT ![w] = NoClaim]
    /\ UNCHANGED <<outbox, repository, history, bounds>>

\* The request leaves.  The receiver accepts it (2xx), asks for a retry (408,
\* 425, 429, 5xx) or rejects it; or the transport fails, before or after the
\* receiver saw the request.
Send(w) ==
    /\ pc[w] = "validated"
    /\ sent' = sent \cup {claim[w]}
    /\ \/ /\ accepted' = accepted \cup {claim[w]}
          /\ Decide(w, "delivered", 0)
       \/ /\ accepted' \in {accepted, accepted \cup {claim[w]}}
          /\ Retry(w, 0)
       \/ /\ UNCHANGED accepted
          /\ \E after \in RetryAfter : Retry(w, after)
       \/ /\ UNCHANGED accepted
          /\ Decide(w, "attention", 0)
    /\ UNCHANGED <<outbox, repository, claim, bounds>>

\* The row as a finished pass leaves it.
Finished(row, o) ==
    [state |-> o.state, destination |-> row.destination, version |-> row.version,
     attempts |-> row.attempts, wait |-> o.wait, lease |-> 0]

\* The outcome is recorded only while the claim is current and its lease live;
\* otherwise the transaction reports a conflict and changes nothing.
FinishNotification(w) ==
    /\ pc[w] = "finish"
    /\ \/ /\ HoldsClaim(w)
          /\ outbox' = [outbox EXCEPT ![claim[w].job] = Finished(outbox[claim[w].job], outcome[w])]
       \/ ~HoldsClaim(w) /\ UNCHANGED outbox
    /\ pc' = [pc EXCEPT ![w] = "idle"]
    /\ claim' = [claim EXCEPT ![w] = NoClaim]
    /\ outcome' = [outcome EXCEPT ![w] = NoOutcome]
    /\ UNCHANGED <<repository, history, bounds>>

-----------------------------------------------------------------------------
(* The environment. *)

\* A worker's process dies, or a store call of its pass returns an error: either
\* way the pass ends with nothing recorded.
Abandon(w) ==
    /\ pc[w] # "idle"
    /\ faults < MaxFaults
    /\ faults' = faults + 1
    /\ pc' = [pc EXCEPT ![w] = "idle"]
    /\ claim' = [claim EXCEPT ![w] = NoClaim]
    /\ outcome' = [outcome EXCEPT ![w] = NoOutcome]
    /\ UNCHANGED <<outbox, repository, history, retries>>

\* A live worker would lose its lease in the next tick.
Stalled(j) == /\ outbox[j].lease = 1
              /\ \E w \in Worker : pc[w] # "idle" /\ claim[w].job = j /\ HoldsClaim(w)

TimeLeft == \E j \in Job : outbox[j].wait > 0 \/ outbox[j].lease > 0

Down(n) == IF n > 0 THEN n - 1 ELSE 0

Aged(row) ==
    [state |-> row.state, destination |-> row.destination, version |-> row.version,
     attempts |-> row.attempts, wait |-> Down(row.wait), lease |-> Down(row.lease)]

\* Time passes.  A pass takes seconds and the lease two minutes, so outliving a
\* lease is a fault of the environment and counted as one.
Tick ==
    /\ TimeLeft
    /\ IF \E j \in Job : Stalled(j)
       THEN faults < MaxFaults /\ faults' = faults + 1
       ELSE UNCHANGED faults
    /\ outbox' = [j \in Job |-> Aged(outbox[j])]
    /\ UNCHANGED <<repository, workers, history, retries>>

Step(w) == \/ CheckConfiguration(w)
           \/ Prepare(w)
           \/ ValidateNotificationDelivery(w)
           \/ Send(w)
           \/ FinishNotification(w)

Next ==
    \/ \E j \in Job : EnqueueNotification(j) \/ RetryNotification(j)
    \/ UpdateRepositorySettings
    \/ \E w \in Worker, j \in Job : ClaimNotification(w, j)
    \/ \E w \in Worker : Step(w) \/ Abandon(w)
    \/ Tick

Spec == Init /\ [][Next]_vars

\* A running server keeps its worker loop going and the clock advances; nothing
\* obliges a receiver to answer well, an owner to act or a fault to happen.
Fairness == /\ WF_vars(Tick)
            /\ \A w \in Worker : WF_vars(Step(w))
            /\ WF_vars(\E w \in Worker, j \in Job : ClaimNotification(w, j))

FairSpec == Spec /\ Fairness

-----------------------------------------------------------------------------
(* Properties. *)

InFlight(w) == pc[w] # "idle"

\* Two passes in flight over one row never hold the same version of it, so the
\* version the finishing update compares identifies a single worker, whatever
\* crashes, stalls, reclaims and manual retries came before.
OneOwnerPerVersion ==
    \A v, w \in Worker :
        v # w /\ InFlight(v) /\ InFlight(w) /\ claim[v].job = claim[w].job
            => claim[v].version # claim[w].version

\* A pass whose version is still the row's sees the row it claimed: nobody has
\* settled, reset or redirected the row under it without raising the version.
CurrentVersionMeansUnchanged ==
    \A w \in Worker :
        InFlight(w) /\ outbox[claim[w].job].version = claim[w].version
            => /\ outbox[claim[w].job].state = "running"
               /\ outbox[claim[w].job].attempts = claim[w].attempts
               /\ outbox[claim[w].job].destination = claim[w].destination

\* A row says delivered only if the receiver accepted the request of the very
\* claim that settled it; an acknowledgement of an earlier claim, or of one made
\* before a manual retry, never settles the row.
DeliveredWasAccepted ==
    \A j \in Job : outbox[j].state = "delivered" =>
        \E c \in accepted : c.job = j /\ c.version = outbox[j].version

\* No request leaves beyond the attempt limit, although crashed passes keep
\* raising the attempt count past it.
AttemptBudget == \A c \in sent : c.attempts <= MaxAttempts

\* Two workers are over one row at the same time only after some worker stalled
\* past its lease or failed: the lease alone keeps passes apart otherwise, also
\* across manual retries and changes of the settings.
OverlapNeedsFault ==
    (\E v, w \in Worker : v # w /\ InFlight(v) /\ InFlight(w) /\ claim[v].job = claim[w].job)
        => faults > 0

\* A claim sends at most one request: the request a step hands to the network is
\* always the first of its claim.
ClaimSendsOnce ==
    [][\A w \in Worker : pc[w] = "validated" /\ pc'[w] = "finish" => claim[w] \notin sent]_vars

\* A delivered row stays as it was settled: no late finish, reclaim or manual retry.
DeliveredIsFinal ==
    [][\A j \in Job : outbox[j].state = "delivered" =>
          outbox'[j].state = "delivered" /\ outbox'[j].version = outbox[j].version]_vars

\* The outbox keeps the at-least-once contract, eventual settlement included.
PhaseOf(row) == IF row.state \in {"absent", "delivered", "attention"} THEN row.state ELSE "open"

Contract == INSTANCE DurableDelivery
    WITH Item <- Job,
         phase <- [j \in Job |-> PhaseOf(outbox[j])],
         accepted <- {c.job : c \in accepted}

DeliversAtLeastOnce == Contract!Spec

-----------------------------------------------------------------------------
(* The inductive invariant behind the safety properties. *)

Unsent == {"claimed", "configured", "prepared", "validated"}

\* No claim is ahead of its row.
ClaimsNotAhead ==
    \A w \in Worker : InFlight(w) =>
        /\ outbox[claim[w].job].state # "absent"
        /\ claim[w].version <= outbox[claim[w].job].version

\* Nor is any request that was ever sent.
RequestsNotAhead ==
    \A c \in sent : outbox[c.job].state # "absent" /\ c.version <= outbox[c.job].version

\* A pass that has not reached its send has not sent.
NotSentYet == \A w \in Worker : pc[w] \in Unsent => claim[w] \notin sent

\* A pass beyond the first check is within the attempt limit.
WithinLimit ==
    \A w \in Worker :
        pc[w] \in {"configured", "prepared", "validated"} => claim[w].attempts <= MaxAttempts

\* A pass about to record a delivery has the receiver's acceptance.
DeliveryIsBacked ==
    \A w \in Worker : pc[w] = "finish" /\ outcome[w].state = "delivered" => claim[w] \in accepted

\* Until something fails every pass holds its row's lease.
LeaseHeldWithoutFault == faults = 0 => \A w \in Worker : InFlight(w) => HoldsClaim(w)

IInv == /\ TypeOK
        /\ ClaimsNotAhead
        /\ RequestsNotAhead
        /\ OneOwnerPerVersion
        /\ CurrentVersionMeansUnchanged
        /\ NotSentYet
        /\ WithinLimit
        /\ DeliveryIsBacked
        /\ DeliveredWasAccepted
        /\ AttemptBudget
        /\ LeaseHeldWithoutFault
=============================================================================
