---------------------------- MODULE PRPromotion ----------------------------
(***************************************************************************)
(* The promotion jobs of one repository: the contexts of merged pull       *)
(* requests are carried to their base branch by durable jobs.              *)
(*                                                                         *)
(* A worker wakes the jobs whose source has been published, claims a job   *)
(* under a lease, promotes and completes it in one repository transaction, *)
(* and writes a failure in a transaction of its own.  Requests deliver     *)
(* synchronously through the same claim, retry a job, publish a source and *)
(* apply verified contributions.                                           *)
(*                                                                         *)
(* Every claim, retry and wake gives the row a version it never had, and   *)
(* versions are compared for equality only.  The module therefore keeps,   *)
(* for each process, the jobs whose version it still holds.  Due times and *)
(* leases are kept as whether they have passed.                            *)
(***************************************************************************)
EXTENDS Integers, FiniteSets

CONSTANTS
    Job,            \* the jobs, numbered in the order (created_at, id)
    Worker,         \* promotion workers, over all server processes
    Caller,         \* requests that run a job or apply its contributions
    Batch,          \* eight, the jobs of one tick
    SourceAttempts, \* eight, attempts before an unpublished source needs attention
    RetryLimit,     \* twenty, attempts before a failure needs attention
    MaxRetries,     \* bound on requested retries
    MaxFaults       \* bound on stops, aborts and lost answers

ASSUME JobAssumption == Job \subseteq Nat /\ Worker \cap Caller = {}

ASSUME LimitAssumption ==
    /\ Batch \in Nat \ {0}
    /\ {MaxRetries, MaxFaults} \subseteq Nat
    /\ SourceAttempts \in 1..RetryLimit /\ RetryLimit \in Nat

VARIABLES
    row,       \* the job rows
    published, \* jobs whose source publication is in the history
    ordered,   \* jobs whose merge can be ordered against the base
    proc,      \* what each process is doing
    held,      \* the jobs of which a process has the current version
    writer,    \* processes in a transaction of the repository: at most one
    effects,   \* how often each job has been carried out
    retries,
    faults

promotionVars == <<row, published, ordered, proc, held, writer, effects, retries, faults>>

Process == Worker \cup Caller

Queue == {"waiting", "retrying", "running"}

\* Attention with reason source_finalization_required is "sourceless".
Row == [state : {"none", "completed", "attention", "sourceless"} \cup Queue,
        due : BOOLEAN, leased : BOOLEAN, attempts : 0..RetryLimit]

Idle == [pc |-> "idle", job |-> 0, wakes |-> {}, left |-> 0, why |-> "none"]

\* The types of the state.  A lease belongs to a running job, at most one process
\* is in a transaction of the repository, and a job whose retries are used up is
\* never put back in the queue by its run.
PromotionTypeOK ==
    /\ row \in [Job -> Row]
    /\ published \subseteq Job /\ ordered \subseteq Job
    /\ proc \in [Process -> [pc : {"idle", "poll", "selected", "claimed", "run", "failed", "apply"},
                             job : Job \cup {0}, wakes : SUBSET Job, left : 0..Batch,
                             why : {"none", "source", "ordering", "permanent", "temporary"}]]
    /\ held \in [Process -> SUBSET Job]
    /\ writer \subseteq Process /\ Cardinality(writer) <= 1
    /\ effects \in [Job -> Nat]
    /\ retries \in 0..MaxRetries /\ faults \in 0..MaxFaults
    /\ \A j \in Job : /\ row[j].leased => row[j].state = "running"
                      /\ row[j].state = "retrying" => row[j].attempts < RetryLimit

PromotionInit ==
    /\ row = [j \in Job |-> [state |-> "none", due |-> FALSE, leased |-> FALSE, attempts |-> 0]]
    /\ published = {} /\ ordered = {}
    /\ proc = [p \in Process |-> Idle]
    /\ held = [p \in Process |-> {}]
    /\ writer = {}
    /\ effects = [j \in Job |-> 0]
    /\ retries = 0 /\ faults = 0

-----------------------------------------------------------------------------
(* The row, its version and its lock.                                      *)

\* The row gets a new version, which only the given processes have read.
NewVersion(js, readers) ==
    [p \in Process |-> IF p \in readers THEN held[p] \cup js ELSE held[p] \ js]

\* No other transaction has locked the row: a claim between its two looks, the
\* transaction of a run.
Unlocked(j, p) ==
    \A q \in Process \ {p} : ~(proc[q].job = j /\ proc[q].pc \in {"selected", "run"})

\* Reset by a retry or a wake.
Fresh == [state |-> "waiting", due |-> TRUE, leased |-> FALSE, attempts |-> 0]

\* Mutant: the state is not compared.
OwnsByVersion(p, j) == j \in held[p]

\* The job is running under the claim of p.
Owns(p, j) == j \in held[p] /\ row[j].state = "running"

\* claimPRJobSQL, without the row lock.
Claimable(r, j) ==
    /\ r[j].state \in Queue /\ r[j].due
    /\ ~r[j].leased
    /\ \A o \in Job \ {j} : r[o].state # "running"
    /\ \/ r[j].state = "running"
       \/ \A o \in Job : o < j => ~(r[o].state \in Queue /\ r[o].due)

\* What a claim makes of the row.
Running(r) ==
    [r EXCEPT !.state = "running", !.leased = TRUE,
              !.attempts = IF @ < RetryLimit THEN @ + 1 ELSE @]

Spend == faults < MaxFaults /\ faults' = faults + 1

-----------------------------------------------------------------------------
(* Requests and time.                                                      *)

\* EnqueuePRJob.  A second delivery finds the row and changes nothing.
Submit(j) ==
    /\ writer = {}
    /\ row[j].state = "none"
    /\ row' = [row EXCEPT ![j] = Fresh]
    /\ UNCHANGED <<published, ordered, proc, held, writer, effects, retries, faults>>

\* A publish event is recorded; the same transaction wakes the jobs of the
\* repository that wait for it.
Publish(j) ==
    /\ writer = {}
    /\ j \notin published
    /\ published' = published \cup {j}
    /\ LET woken == {k \in published' : row[k].state = "sourceless"}
       IN  /\ row' = [k \in Job |-> IF k \in woken THEN Fresh ELSE row[k]]
           /\ held' = NewVersion(woken, {})
    /\ UNCHANGED <<ordered, proc, writer, effects, retries, faults>>

\* The scan of the Git history lets the merge be ordered.
Order(j) ==
    /\ j \notin ordered
    /\ ordered' = ordered \cup {j}
    /\ UNCHANGED <<row, published, proc, held, writer, effects, retries, faults>>

\* RetryPRJob leaves completed and already reset jobs alone, and refuses a
\* running one under lease.
Retry(j) ==
    /\ retries < MaxRetries
    /\ writer = {} /\ \A p \in Process : Unlocked(j, p)
    /\ row[j].state \notin {"none", "completed"} /\ row[j] # Fresh
    /\ ~row[j].leased
    /\ row' = [row EXCEPT ![j] = Fresh]
    /\ held' = NewVersion({j}, {})
    /\ retries' = retries + 1
    /\ UNCHANGED <<published, ordered, proc, writer, effects, faults>>

FallDue(j) ==
    /\ row[j].state \in Queue /\ ~row[j].due
    /\ row' = [row EXCEPT ![j].due = TRUE]
    /\ UNCHANGED <<published, ordered, proc, held, writer, effects, retries, faults>>

Expire(j) ==
    /\ row[j].leased
    /\ row' = [row EXCEPT ![j].leased = FALSE]
    /\ UNCHANGED <<published, ordered, proc, held, writer, effects, retries, faults>>

-----------------------------------------------------------------------------
(* A tick of the worker: wake, then claim and run up to Batch jobs.        *)

\* WakePRSourceJobs first reads the jobs it may wake.
Poll(p) ==
    /\ p \in Worker /\ proc[p].pc = "idle"
    /\ LET waiting == {j \in published : row[j].state = "sourceless"}
       IN  /\ proc' = [proc EXCEPT ![p] = [Idle EXCEPT !.pc = "poll", !.wakes = waiting, !.left = Batch]]
           /\ held' = [held EXCEPT ![p] = waiting]
    /\ UNCHANGED <<row, published, ordered, writer, effects, retries, faults>>

\* Mutant: the row is written without comparing what was read.
WakeBlindly(p, j) ==
    /\ proc[p].pc = "poll" /\ j \in proc[p].wakes
    /\ writer = {} /\ Unlocked(j, p)
    /\ row' = [row EXCEPT ![j] = Fresh]
    /\ held' = NewVersion({j}, {})
    /\ proc' = [proc EXCEPT ![p].wakes = @ \ {j}]
    /\ UNCHANGED <<published, ordered, writer, effects, retries, faults>>

\* Each of them is then written in a repository transaction of its own, unless
\* its version, state or reason has changed.
Wake(p, j) ==
    /\ proc[p].pc = "poll" /\ j \in proc[p].wakes
    /\ writer = {} /\ Unlocked(j, p)
    /\ IF j \in held[p] /\ row[j].state = "sourceless"
       THEN /\ row' = [row EXCEPT ![j] = Fresh]
            /\ held' = NewVersion({j}, {})
       ELSE UNCHANGED <<row, held>>
    /\ proc' = [proc EXCEPT ![p].wakes = @ \ {j}]
    /\ UNCHANGED <<published, ordered, writer, effects, retries, faults>>

\* DeliverPRPromotion claims and runs one job and wakes none.
Deliver(p) ==
    /\ p \in Caller /\ proc[p].pc = "idle"
    /\ proc' = [proc EXCEPT ![p] = [Idle EXCEPT !.pc = "poll", !.left = 1]]
    /\ UNCHANGED <<row, published, ordered, held, writer, effects, retries, faults>>

\* The first look of ClaimPRJob locks the row.
Select(p, j) ==
    /\ proc[p].pc = "poll" /\ proc[p].wakes = {} /\ proc[p].left > 0
    /\ Claimable(row, j) /\ Unlocked(j, p)
    /\ proc' = [proc EXCEPT ![p] = [Idle EXCEPT !.pc = "selected", !.job = j, !.left = proc[p].left - 1]]
    /\ UNCHANGED <<row, published, ordered, held, writer, effects, retries, faults>>

\* Nothing to claim, or the tick has run its jobs.
PollEnds(p) ==
    /\ proc[p].pc = "poll" /\ proc[p].wakes = {}
    /\ proc[p].left = 0 \/ \A j \in Job : ~(Claimable(row, j) /\ Unlocked(j, p))
    /\ proc' = [proc EXCEPT ![p] = Idle]
    /\ UNCHANGED <<row, published, ordered, held, writer, effects, retries, faults>>

\* Mutant: the claim takes what the first look found.
ClaimSelected(p, j) ==
    /\ proc[p].pc = "selected" /\ proc[p].job = j
    /\ row' = [row EXCEPT ![j] = Running(@)]
    /\ held' = NewVersion({j}, {p})
    /\ proc' = [proc EXCEPT ![p].pc = "claimed"]
    /\ UNCHANGED <<published, ordered, writer, effects, retries, faults>>

\* The second look, under the claim lock of the repository.
Claim(p, j) ==
    /\ proc[p].pc = "selected" /\ proc[p].job = j
    /\ Claimable(row, j)
    /\ row' = [row EXCEPT ![j] = Running(@)]
    /\ held' = NewVersion({j}, {p})
    /\ proc' = [proc EXCEPT ![p].pc = "claimed"]
    /\ UNCHANGED <<published, ordered, writer, effects, retries, faults>>

\* The second look found no job, or another claim has the lock.
ClaimMissed(p) ==
    /\ proc[p].pc = "selected"
    /\ \/ ~Claimable(row, proc[p].job)
       \/ \E q \in Process \ {p} : proc[q].pc = "selected"
    /\ proc' = [proc EXCEPT ![p] = Idle]
    /\ UNCHANGED <<row, published, ordered, held, writer, effects, retries, faults>>

-----------------------------------------------------------------------------
(* runPRJob.                                                               *)

\* The next job of the tick.
Finished(p) == [Idle EXCEPT !.pc = "poll", !.left = proc[p].left]

FailedBy(p, why) == [proc[p] EXCEPT !.pc = "failed", !.why = why]

\* FencePRJob: the transaction goes on only under a live claim.
Begin(p) ==
    /\ proc[p].pc = "claimed"
    /\ writer = {} /\ Unlocked(proc[p].job, p)
    /\ IF Owns(p, proc[p].job) /\ row[proc[p].job].leased
       THEN /\ proc' = [proc EXCEPT ![p].pc = "run"]
            /\ writer' = {p}
       ELSE /\ proc' = [proc EXCEPT ![p] = FailedBy(p, "temporary")]
            /\ UNCHANGED writer
    /\ UNCHANGED <<row, published, ordered, held, effects, retries, faults>>

\* The promotion and FinishPRJob commit together.  The answer to the commit may
\* be lost.
Complete(p) ==
    LET j == proc[p].job IN
    /\ proc[p].pc = "run"
    /\ j \in published \cap ordered
    /\ Owns(p, j)
    /\ row' = [row EXCEPT ![j].state = "completed", ![j].leased = FALSE]
    /\ effects' = [effects EXCEPT ![j] = @ + 1]
    /\ writer' = {}
    /\ \/ proc' = [proc EXCEPT ![p] = Finished(p)] /\ UNCHANGED faults
       \/ proc' = [proc EXCEPT ![p] = FailedBy(p, "temporary")] /\ Spend
    /\ UNCHANGED <<published, ordered, held, retries>>

\* The transaction is rolled back.  The source is looked for before the order.
RunFails(p, why) ==
    LET j == proc[p].job IN
    /\ proc[p].pc = "run"
    /\ \/ why = "source" /\ j \notin published
       \/ why = "ordering" /\ j \in published \ ordered
       \/ why \in {"permanent", "temporary"}
    /\ proc' = [proc EXCEPT ![p] = FailedBy(p, why)]
    /\ writer' = {}
    /\ UNCHANGED <<row, published, ordered, held, effects, retries, faults>>

\* A serialization failure: the transaction is tried again from its start.
Aborted(p) ==
    /\ proc[p].pc = "run"
    /\ Spend
    /\ proc' = [proc EXCEPT ![p].pc = "claimed"]
    /\ writer' = {}
    /\ UNCHANGED <<row, published, ordered, held, effects, retries>>

\* The state a failure leaves the job in.
Deferred(r, why) ==
    [r EXCEPT !.due = FALSE, !.leased = FALSE, !.state =
        CASE why = "ordering" -> "waiting"
          [] why = "source" -> IF r.attempts >= SourceAttempts THEN "sourceless" ELSE "waiting"
          [] why = "temporary" -> IF r.attempts >= RetryLimit THEN "attention" ELSE "retrying"
          [] why = "permanent" -> "attention"]

\* FinishPRJob after a failure, outside of the repository transaction.
Finish(p) ==
    LET j == proc[p].job IN
    /\ proc[p].pc = "failed"
    /\ Unlocked(j, p)
    /\ row' = IF Owns(p, j) THEN [row EXCEPT ![j] = Deferred(@, proc[p].why)] ELSE row
    /\ proc' = [proc EXCEPT ![p] = Finished(p)]
    /\ UNCHANGED <<published, ordered, held, writer, effects, retries, faults>>

\* The process stops, or an error ends its tick; its transaction is rolled back.
Stop(p) ==
    /\ proc[p].pc # "idle"
    /\ Spend
    /\ proc' = [proc EXCEPT ![p] = Idle]
    /\ writer' = writer \ {p}
    /\ UNCHANGED <<row, published, ordered, held, effects, retries>>

-----------------------------------------------------------------------------
(* applyPreparedPRContributions, in the transaction of a checkpoint.       *)

\* A job that is completed, running or needs other attention is left alone.
ApplyRead(p, j) ==
    /\ p \in Caller /\ proc[p].pc = "idle"
    /\ writer = {}
    /\ row[j].state \in {"waiting", "retrying", "sourceless"}
    /\ proc' = [proc EXCEPT ![p] = [Idle EXCEPT !.pc = "apply", !.job = j]]
    /\ writer' = {p}
    /\ UNCHANGED <<row, published, ordered, held, effects, retries, faults>>

\* RetryPRJob, ClaimPRJob and FinishPRJob.  Claims do not wait for the
\* repository, so the job may have moved; then the checkpoint is rolled back.
ApplyCommit(p) ==
    LET j == proc[p].job
        reset == IF row[j].state = "completed" THEN row ELSE [row EXCEPT ![j] = Fresh]
        done == ~row[j].leased /\ Claimable(reset, j)
    IN  /\ proc[p].pc = "apply" /\ Unlocked(j, p)
        /\ IF done
           THEN /\ row' = [reset EXCEPT ![j] = [Running(@) EXCEPT !.state = "completed", !.leased = FALSE]]
                /\ held' = NewVersion({j}, {})
                /\ effects' = [effects EXCEPT ![j] = @ + 1]
           ELSE UNCHANGED <<row, held, effects>>
        /\ proc' = [proc EXCEPT ![p] = Idle]
        /\ writer' = {}
        /\ UNCHANGED <<published, ordered, retries, faults>>

-----------------------------------------------------------------------------

PromotionNext ==
    \/ \E j \in Job : \/ Submit(j) \/ Publish(j) \/ Order(j) \/ Retry(j)
                      \/ FallDue(j) \/ Expire(j)
    \/ \E p \in Process :
         \/ Poll(p) \/ Deliver(p) \/ PollEnds(p) \/ ClaimMissed(p)
         \/ Begin(p) \/ Complete(p) \/ Aborted(p) \/ Finish(p) \/ Stop(p) \/ ApplyCommit(p)
         \/ \E j \in Job : Wake(p, j) \/ Select(p, j) \/ Claim(p, j) \/ ApplyRead(p, j)
         \/ \E why \in {"source", "ordering", "permanent", "temporary"} : RunFails(p, why)

PromotionSpec == PromotionInit /\ [][PromotionNext]_promotionVars

-----------------------------------------------------------------------------

\* At most one job of a repository is running, although a retry or a wake can
\* make an older job claimable between the two looks of a claim ("Locking just
\* the selected job cannot fence that race").
OneRunning == Cardinality({j \in Job : row[j].state = "running"}) <= 1

\* A job is carried out once: by a worker, a synchronous delivery or a
\* checkpoint, whatever is retried, and whether or not the answer to the commit
\* that completed it arrives.
AppliedOnce == \A j \in Job : effects[j] <= 1

\* A process with the current claim of a job and a live lease is the only one
\* that moves the job ("A concurrent retry/claim/finish must never be replaced by
\* this wake").
ClaimKept ==
    [][\A p \in Process, j \in Job :
         /\ proc[p].pc \in {"claimed", "run", "failed"} /\ proc[p].job = j
         /\ Owns(p, j) /\ row[j].leased
         /\ row'[j].state # row[j].state
         => proc'[p].pc # proc[p].pc]_promotionVars

=============================================================================
