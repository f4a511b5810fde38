# Verification of CXTHub in TLA+

CXTHub keeps the conversations that coding agents have about a repository as a
graph of immutable snapshots, shared by everybody who works on the repository.
This directory holds TLA+ modules for the parts of the server and of the CLI where
several clients, workers, goroutines or replicas meet, TLC runs that check them on small
instances, and TLAPS proofs of the most important properties for every instance.

Paths below are relative to `src/`; `store/` stands for
`backend/internal/adapters/store/`, `app/` for `backend/internal/app/`, and
`cli/` for `cli/internal/`.

## 1. The system

Production runs a web client, two services (`cxtd`, the API with all background
workers, and `cxt-mcp`) and one PostgreSQL database. The CLI's `.cxt` directory is
a local replica and an outbox; the server's database is authoritative. The file
system store is for development and tests.

| Part | State | Operations | What makes it hard |
|---|---|---|---|
| Snapshot graph and refs | snapshots, natural parents, graft overlay with sequence numbers, branch, tag, HEAD and session refs, protection setting | commit, graft, fast-forward, force, append, fork, tag, batches, join | requests rest on stale observations; grafts arrive late and in any order |
| Branch lifecycle | archive and activation events as immutable tags, with generations | archive, reopen, late event | an archive races a push; a delayed push recreates a branch |
| Pending pointers and collection | one pointer per live session, captures with hook labels, memory digests, session archives | replace, resolve, delete, dismiss, collect, promote | collection must not delete what anything needs; late uploads |
| Webhook outbox | rows with state, version, attempts, lease; repository settings | enqueue, claim, check, send, finish, manual retry | crashes, stalls past the lease, settings that change meanwhile |
| Resource admission of a process | active and bulk slots, two queues, parked permits, governor | acquire, upgrade, park, resume, release, configure, restore | grants race timeouts; lost wakeups; starvation |
| Process admission across processes | advisory locks per role | acquire, upgrade, park, resume, release | a connection is lost with its locks |
| Invitation email | invitations, one outbox row each | create, accept, revoke, renew, claim, send, record | the provider forgets an idempotency key after a day |
| Pull request promotion | one job per merged pull request | enqueue, wake, claim, promote, defer, retry | an expired worker meets its successor; publication races the worker |
| Other job queues: document finalization, range index, display, Git and GitHub workers | rows with state, attempts, lease | claim, renew, finish, retry | fencing of expired workers, crash between effect and record |
| Spool budget | reservations shared by all processes | reserve, release, expire | leaked and doubled reservations |
| Replication between CLIs and server | graft registers and their queue, branch pointers with lifecycle events and HEAD, memory chains, messages and their queue | save, create, archive, memorize, push, pull | crash between two files; pushes and pulls that cross; late and lost requests |
| CLI journals, working position | journals, lock files | record, recover | crash between two files |
| Context protocol 1 | event log, branch identities | record, project, upgrade | projections of an incomplete log |
| Catalog and change stream | revision counters | page, compare, notify | pages of different revisions |
| Effective memory | prepared results | prepare, read | none of its own: a projection of the attached memories |
| Graph and context queries, canonical encoding, chunks, native capture, rendering | none, or content-addressed bytes | pure functions | size, not interleaving |
| Identity, access, OAuth, secrets | accounts, grants, ciphertext | administration | authorization, which is not treated here |

The parts meet in few places. Every graph command runs in one repository
transaction; that transaction also resolves pending pointers, enqueues webhook
rows and advances the repository revision. Workers take their work from
PostgreSQL rows under leases. Document jobs run under a permit of the process's
admission gate, which in turn asks the governor shared by all processes. A CLI
carries four kinds of mutable data, each with a merge rule of its own: graft
registers, branches, memories and messages.

What must hold, in the words of a maintainer: nobody's history disappears
unless somebody forced a branch; the graph never gets a cycle or a hole; no
captured conversation is lost to a cleanup; an archived branch stays archived;
the protected default branch keeps its history; every event is delivered or
somebody is told, and a late worker never overwrites a newer one's result; slots
are neither leaked nor handed out twice, and whoever waits is served; replicas
that go on synchronising agree in the end, or show that they differ.

`PROJECT.json` lists all parts with their status, every definition with the lines
it models, and the hazards with the properties that cover them.

## 2. Modules

| Module | Models |
|---|---|
| `DurableDelivery` | the contract of an outbox, without workers, leases or clocks |
| `NotificationOutbox` | the webhook outbox; states that it implements the contract |
| `SnapshotGraph` | graph, refs, lifecycle events, pending pointers, collection |
| `PendingActivity` | adds the newest activity accepted for a pointer, as history |
| `ResourceAdmission` | the gate of one process, its permits and its governor |
| `ResourceGateProofs` | its inductive invariant; lemmas about queues and their order, about dispatch and the other critical sections |
| `ResourceAdmissionProofs` | lemmas about its actions, and its theorems |
| `ProcessAdmission` | the governor: advisory locks of the sessions of several processes |
| `ProcessAdmissionProofs` | its theorems |
| `InvitationEmail` | invitations and their mail outbox; implements the contract `DurableDelivery` |
| `DeliveryProofs` | theorems about the two outboxes, `NotificationOutbox` and `InvitationEmail` |
| `PRPromotion` | the promotion jobs of a repository, their worker and callers |
| `HistoryProofs` | theorems about `SnapshotGraph` and about `PRPromotion` |
| `GraftQueue` | the graft registers of a clone and of the server, and the queue between them |
| `GraftQueueProofs` | its theorems |
| `BranchLifecycle` | one branch on the server and in the CLIs: events, pointer, HEAD |
| `BranchLifecycleProofs` | its theorems |
| `MemoryAttachment` | the memory of one snapshot on the server and in the CLIs |
| `MemoryAttachmentProofs` | its theorems |
| `MC*` | instances for TLC: values of function constants, symmetry sets |

`DeliveryProofs` and `HistoryProofs` each extend two specifications, so the specification of
`InvitationEmail` is called `MailSpec`, its initial states `MailInit` and so on, and that of
`PRPromotion` `PromotionSpec`.

A definition whose comment starts with "Mutant:" is no part of a specification. It
is the definition that follows it with a plausible slip, and is used to confirm
that a property can fail.

### NotificationOutbox

A row of `notification_outbox` is a record; `repository` holds the settings a
delivery depends on; `pc`, `claim` and `outcome` are the local variables of the workers of
all API processes. Each store operation (`store/postgres_notification.go`) is one
transaction and one action: `EnqueueNotification`, `ClaimNotification`,
`ValidateNotificationDelivery`, `FinishNotification`, `RetryNotification`. The
worker's pass (`app/notificationworker/worker.go`) has a step for each call
it makes, and anything may happen between two steps. `Send` has every outcome the
receiver and the transport can produce, including a request that was accepted
although the transport reports a failure. A crash, and a store call that returns
an error, both end the pass with nothing recorded (`Abandon`).

Time is the number of ticks left until a deadline. A pass takes seconds and a
lease two minutes, so a worker that outlives its lease is a fault of the
environment: it is possible, but counted, which lets `OverlapNeedsFault` say that the
lease alone keeps passes apart. Left out: the policy that may hold a row
back from a worker that cannot read its documents, message texts, HTTP details.

### SnapshotGraph

One repository under context protocol 0. `parents` are natural parents, `grafts` the
server's overlay, `graftSeq` its version per snapshot. `WithinRepository` holds the
graph lock from the first read to the commit, so a command is one action, with everything
it does: a move of a branch includes the resolution of the pending pointers it
publishes (`reconcileSharedPendingPointers`), a replaced pointer includes the
collection of the capture it replaced (`gcHookLeaf`). Concurrency is in the
requests: the expected target, the expected sequence and the target itself are
arbitrary values, as they are for a request that was under way while others were
served. A refused request rolls back and is a stuttering step.

Walks with a stack and a seen set are modelled by what they collect, the least
set that holds the roots and with a snapshot its parents (`Ancestors`);
the cycle check, which repeatedly removes snapshots without parents, by its result
(`Acyclic`). That a capture's events are a prefix of another's is a constant relation
(`Supersedes`), assumed transitive. `captured` is history.

Left out: join, batches of ref updates, HEAD and session refs, renaming the default
branch, the history events of protocol 1, the retry of a transaction that
failed to serialize, and lifecycle generations: an event may be the newest of its branch or not.
Two details differ without effect. `CompareAndSwapRef` can make a branch active again whose pointer is
not the archived one (`store/postgres_store.go:878-901`); `ArchivedIsGone` shows that no such pointer exists. A
graft that names the snapshot itself is refused here, where the code skips that parent and takes the others:
the same as a request without it.

### ResourceAdmission

`gate` is the record under `gate.mu` (`app/resource_admission.go`); `pc`, `class`,
`seen` and `remote` belong to the callers' permits. An action is one
critical section, or one call to the governor's permit, which is made without the
lock. `Dispatch` is the loop of `dispatch` in closed form: at most one bulk grant, then
interactive grants while slots are left. The governor grants, refuses, fails or
grants too late, at its own choice. A permit may be released while its goroutine
waits parked. Left out: the lengths of timeouts, and the heap and
spool limits by which a job decides whether to park; both are free choices.

### ProcessAdmission

`store/postgres_process_admission.go`: a controller per process, with a control
session that holds the role's lock, a bulk session opened on demand, a heartbeat and the
permits. An action is one critical section, one channel operation or one SQL
statement; in particular `inspect` compares its observation with the record (`FindLost`) and
calls `fail` in two critical sections, and the lock may be dropped and taken again on another
session in between. `AlarmIsTrue` therefore speaks of the session that was observed, not of the one
on record when the controller stops. The database is the set of live sessions and their locks: a session may end
at any moment, and one the client has closed may live on for a while and even
be granted the lock it waits for (`GrantLate`). `Plan` says which operations a caller
tries. `ResourceAdmission` takes the answers of this governor as free choices, so
every answer of `ProcessAdmission` is one that `ResourceAdmission` has been checked against.
Two observations: an unlock that fails stops the whole controller,
which is the safe side; and since `context.AfterFunc` runs asynchronously, whether
a permit may be granted is decided by `Ready` alone.

### InvitationEmail

`app/collaboration_invite.go`, `app/invitation_email_execution.go` and
`store/postgres_invitation_email.go`. Creating, renewing and withdrawing are identity
transactions and one action each; `ClaimMail` and `Finish` are the worker's two
transactions, and between them the provider's request arrives, is refused, times out or
arrives late. The provider keeps a key for `Retention`. The store takes the mail that has been due
longest; the model takes any due one, and its fairness per mail rests on that order. One
assumption is about the environment: a claimed mail is sent within `Stall` or
never, and `Window + Stall <= Retention` (the code has 23 hours of 24).

### PRPromotion

`app/pr_jobs.go`, `app/pr_promotion_worker.go`, `store/postgres_store_pr_job.go` and the
requests that deliver, retry or apply contributions (`app/pr_contribution_apply.go`).
Versions are compared for equality only, so the model keeps for each process
the jobs whose version it still holds. The promotion and the job's completion are one
repository transaction, which may abort and run again (`app/repository_work.go:110`).
Observations: because `FinishPRJob` compares the version in the very transaction that
promotes, an expired worker's promotion is rolled back with it; with a batch of
one an older job that is deferred again and again would hold up all others, the code's eight are
enough. Left out: the completion of a job whose contribution was applied before and is found in the
history (`promoteHistoricalPRContribution`), which writes nothing to a branch; the clocks of several servers, evidence of merge order that disappears again, and
what a promotion writes to the branch. A delivery of a completed job promotes again, which
receipts make idempotent; it is not counted as an effect.

### GraftQueue

`cli/app/save_session.go`, `cli/app/sync_repo.go`, `cli/app/sync_publication_*.go` and the queue
file of `cli/adapters/storage/sync_outbox.go`. A register is a set of graft parents with a sequence
number. Saves, ordinary pushes and pushes of a selected publication are processes
whose steps lie between lock, file write and network call; a pull takes no lock. Other clients and
joins write the server's register. `InitialQueue` is a queue an older version left. An observation: the
server confirms an event whose edges it already holds at the next number, so another client that
adds two parents at once (a legacy queue does) can leave the clone with the server's number and fewer edges.
A pull takes the server's set at an equal number, which is why `DrainedMeansShared` speaks of the
merge and not of equality. Left out: a save decides that it needs a graft (`reachable`)
before it takes the lock, and under the lock looks again only whether the parent is already there; here the whole
decision is made in the step that takes the lock, so a pull that makes one of the two reach the other in between is
not covered. Left out too: `reconcileAppendedPath`, which after an appending push takes over registers
from the server without the lock. It writes what a pull writes, by the same `ReconcileGraftState`, and
a pull without the lock is modelled.

### BranchLifecycle

One branch under context protocol 0. A replica has a grow-only set of lifecycle
events, a pointer and a HEAD (`domain/branch_lifecycle.go`, the CLI's `file_store.go`, the
server's `postgres_store.go`). A command of the CLI is a sequence of file writes
(`ArchiveBranchRef`, `CreateBranchRef`, `ApplyBranchLifecycleRef`, `Reconcile` give the stores after each), of
which a prefix survives a crash. A push reads, compares with the server's list and
sends one batch, which the server applies in one transaction; a pull reads, lists the Git branches, applies
events one by one and then the branch. Observations: a pull re-applies the latest archive
and so repairs a compensation that was interrupted; one refused ref rolls back the whole
batch. `protect` says that the branch is the server's default branch and protected; the owner may change that
at any time (`UpdateConfig`), and while it holds a batch with an archive in it is refused (`Forbidden`). A client
that archived such a branch and the server then stay apart, which `RestMeansAgreed` names as one of
the ways to come to rest. A push that cannot list the server's refs sends all of its own.
Left out: rename, forced and appending pushes, several worktrees with HEADs of their own, the
recovery of an archive for a remote branch that escaped it, exhausted generations, and
`cxt repair --ref --apply`, by which the user sets a pointer to the server's on purpose, whatever it held: `NothingLost`
does not speak of it. A save and a checkout are modelled by the sequence of
file writes that the code uses without a working position; the journalled commits it uses with
one (`CommitWorkingSnapshotIfCurrent`, `CommitCheckout`) are left out.

### MemoryAttachment

A digest names its predecessor, so it is modelled by its whole chain, a sequence:
ancestors are prefixes. `cli/app/sync_memory.go` is modelled call by call:
catalog, preflight, the oldest missing digest first, replans after a lost race, and the recovery that
publishes a collected snapshot with its first memory in one transaction
(`app/memory_publication.go`). The server stores and attaches in two transactions. A request
outlives its client, except the recovery's, which is one step with its answer. A clone runs one memorize
at a time; a second terminal would meet the same comparison of the pointer that a pull between
two memorizes meets. Selecting the local chain and reading the catalog are one
step, as are reading and storing in `Memorize`. Left out: fetch-only pulls, the attachment without
a predecessor check, the journal and position check of `CommitWorkingMemory`, which refuses more,
and `cxt repair --snapshot --apply`, which sets a clone's pointer to the server's on purpose and is
not covered by `OnlyAdvances`. An observation: memorize puts no limit on the length of a chain,
push and pull stop at 1024.

## 3. Runs

| Run | Instance | Checks |
|---|---|---|
| `notification_outbox` | 1 row, 2 workers, 2 destinations, 2 attempts, 1 manual retry, 1 fault | the version fence, the attempt limit, the lease, and the delivery contract with its liveness |
| `snapshot_branches` | 3 snapshots, 2 branches, 1 graft per snapshot, lifecycle events with 2 targets, 1 pending pointer | cycles, archived branches, shared history, resolution of pointers |
| `snapshot_captures` | 3 captures of one growing conversation, 2 pointers, a tag, batches of 2 | collection: holes, dangling names, lost events |
| `admission` | 3 callers, 2 slots, a governor that comes and goes | exact counters, lost wakeups, order of service, interactive callers are served, the governor is taken off |
| `process_handoff` | 2 processes of one role, one caller each, 1 bulk session each, 1 fault | exclusive bulk work, handing over a role, no false alarm |
| `graft_queue` | 1 snapshot with 2 possible parents, a save that runs twice, an ordinary push, a planned publication, 1 foreign write, 1 fault | edges and their events, what a drained queue means, publication, convergence |
| `email_delivery` | 2 invitations to one address, 1 worker, 2 attempts | mailed once, the contract, revocation, every mail settles |
| `promotion` | 2 jobs, 1 worker, 1 caller, batches of 1, 1 fault | one job at a time, applied once, claims are respected |
| `lifecycle` | 2 CLIs, 2 snapshots, 2 commands or changes of the protection, 1 push or pull each, 1 crash | HEAD resolves, nothing is lost, rest means agreement |
| `memory` | 2 CLIs, 2 bodies, chains of up to 3, 1 replan, 2 synchronisations each, 1 fault | complete chains, pointers only advance, success and fork are reported truly |
| `pending_activity` | 2 snapshots, 1 pointer, 2 times | finding 1 |
| `admission_slots` | 3 callers, 2 slots, no governor | finding 2 |

Why these bounds reach the interesting cases:

- *Outbox.* Rows do not interact, so one row suffices. Two workers are one
  late and one current owner. Two attempts separate the first, the last and, after
  a crash, one beyond the limit. One fault lets a lease run out under a live worker;
  one manual retry sets the attempts back while an old pass is still about.
- *Graph.* Three snapshots hold a fork and an append that joins its two lines; a cycle
  through a graft needs two snapshots, and one that no graft closes alone a second graft. Two
  branches suffice for one to move while the other is archived. Three captures are
  the fewest in which a successor is itself superseded, and two pointers the fewest of
  which one pins what the other lets go.
- *Admission.* Three callers: one serves, one is parked, one waits. A governor that is
  put on and taken off while callers are between two critical sections meets each of them.
- *Processes.* The successor starts while its predecessor drains; the one fault is a
  lost session, a dead process or a late grant, at every moment of the handover.
- *Graft queue.* A save, a push and a publication are the three kinds of process that
  change the queue; one foreign write makes any of them conflict; a second save meets the event of the first.
- *Email.* The two invitations are the withdrawn one and its successor, or the renewed one. One
  worker suffices for an attempt to outlive its lease, because a late request arrives without
  its worker. The theorems hold for any number of workers.
- *Promotion.* The second job is the one that must not run beside the first; the caller
  delivers, retries and publishes while the worker holds a claim.
- *Branches, memory.* Two CLIs and the server are the fewest replicas of which two
  differ from the third. A branch has a parent and a child: ahead, behind or equal. Chains of three
  with two bodies fork at each depth. A change of the protection counts as a command, so that an archive may
be sent before or after it, or be refused throughout.

Where a run is too small for a half of what its property says, the theorem carries it: that a claim
sends only once (`SendsOnce`), graft parents that are never collected (`GraphIntact`), two
permits of one process that contend for bulk work (`BulkWorkExclusive`), and a mail worker that
meets its successor (`MailImplementsContract`, `OutcomesKept`).

`MaxRetries`, `MaxFaults`, `MaxBatch`, `MaxRecorded`, `MaxOps`, `MaxSyncs`, `MaxCrashes`, `MaxSaves`,
`MaxOthers`, `MaxSessions`, `Annotated` and `MaxConfigurations` bound the runs and are no part of
the program. `MaxGraftSeq`, `MaxAttempts`, `MaxMailAttempts` and `MaxReplans` are limits of the program, made
small. Three runs switch off the deadlock check: in `process_handoff` all processes may
have ended, in `graft_queue` and `email_delivery` all work may be done and all bounds used up.

### Fairness

`NotificationOutbox!Fairness`: the clock advances, a worker goes on with its pass, and
the worker loop, which polls for ever, claims something when something can be
claimed. Nobody has to answer well, change a setting or retry. A receiver that never
answers is covered by the send's timeout, one of the outcomes of `Send`.

`ResourceAdmission!Fairness`: goroutines run (weak fairness of a caller's own steps
and of a parked permit that was granted), and work under a permit ends. The last is strong
fairness, because a job may park and resume before it ends, so that its release is not
continuously enabled; that jobs end is an assumption about the work, not about the gate. No caller is assumed to time out or
to give up: service must not depend on it. `InteractiveServed` is stated for two
active slots. With one slot the code always prefers bulk work, and a stream of
bulk callers may keep an interactive one waiting until its one second runs out.

`InvitationEmail!MailFairSpec`: the clock advances, a worker that lives goes on, and a due mail is claimed
in the end, because the store hands out the mail that has been due longest.

`GraftQueue!FairSpec`: a command that was started goes on, the server answers, and pushes and
pulls are repeated; the user's saves and other clients' writes are not assumed.

## 4. Findings

1. `pending_activity`: `store/postgres_store.go:1919` says "A late upload of an
   older observed transcript must not rewind a live pointer." The comparison is with the
   stored pointer only, and a replacement without an activity time (an old client, or a
   client clock more than five seconds ahead) stores none. The next upload is then accepted
   whatever its age: activity 2, none, 1.
2. `admission_slots`: `docs/DOCUMENT_RANGE_READS.md:446-447` says "At most one of the
   two active slots can be bulk, leaving the other available for interactive
   requests." A parked bulk permit keeps its active slot while the next bulk caller is
   granted the other, so an interactive caller waits. A test of the repository
   (`TestPreparedRootYieldRetainsActiveSlotAndServesFIFO`) expects the retained slot, so it is the
   sentence that is too strong. `InteractiveServed` holds all the same.

## 5. Proofs

TLAPS checks every theorem for all values of the constants that meet the named
assumptions of the module (`UrlAssumption`, `IdentityAssumption` and so on), which TLC also
evaluates in the runs.

**DeliveryProofs: the webhook outbox.** `Invariance` is `Spec => []IInv`. The checked invariants
are not inductive by themselves. `OneOwnerPerVersion` needs that no claim is ahead of
its row's version (`ClaimsNotAhead`), for then a new claim's version is new. That a
request is its claim's first needs the same of everything ever sent
(`RequestsNotAhead`) and that a pass before its send has not sent (`NotSentYet`).
`DeliveredWasAccepted` needs that a pass about to record a delivery has the
acceptance (`DeliveryIsBacked`), `AttemptBudget` that the first check was passed
(`WithinLimit`), and `OverlapNeedsFault` that without a fault every pass holds its
lease (`LeaseHeldWithoutFault`). From these follow `VersionFence`, `DeliveryBacked`,
`BudgetKept`, `LeaseSeparates`, the action properties `SendsOnce` and `DeliveredForGood`,
and `ImplementsContract`: every step is a step of `DurableDelivery` or leaves its
variables alone, so the safety part of the contract is implemented.

**HistoryProofs: the snapshot graph.** No finiteness is assumed. `Ancestors` is handled by four facts: a
walk holds its roots, is closed under parents, stays in every closed set that holds its roots
and grows with edges and roots. The inductive invariant is the conjunction of the checked
ones with one addition, that a snapshot which is not stored has no edges
(`UnstoredHasNoEdges`): without it a collected identity that is published again could
bring back old edges. Each action has a lemma. The longest is the append: if a walk
from the new tip missed the old one, an earliest snapshot it meets outside the shared
history (there is one, the graph being acyclic) would lie on the boundary and so have the
old tip as its graft parent. Hence the old tip is an ancestor of the new one. `SharedHistorySafe` and `ProtectionHolds` follow from it.
Theorems: `Invariance`, `TypeCorrect`, `GraphIntact`, `HistoryAcyclic`, `NothingDangles`, `CapturesSafe`,
`ArchivesHold`, `SharedHistorySafe`, `ProtectionHolds`, `PublishedPointersResolved`.

**ResourceGateProofs, ResourceAdmissionProofs.** The callers are assumed finite, for the counters are compared
with the number of callers that hold slots; the limits are arbitrary. `CountersExact` is not
inductive: a caller that stood in a queue twice, or waited and was granted at once, would be
counted wrongly later. The invariant therefore fixes for each step of a caller where the gate
has it (`CallerOK`: nowhere, in one line, or granted), that no line holds anybody twice
(`LinesOK`), and that while a permit is about to park or has just been granted its slot again
nobody is parked (`ParkingOK`). The parts are stated of a gate rather than of `gate`, because a
critical section first changes the gate and then dispatches: `VacateOK`, `ReturnOK`,
`SurrenderOK`, `JoinOK` and `LeaveOK` take the gate through the first half, `DispatchOK`
through the second, and the counters follow from what happens to one caller (`OneCaller`).
`Quiet` says in terms of the queues that nobody can be granted; `DispatchOK` establishes it and
`NoLostWakeup` derives `NothingGrantable` from it. `NoOvertaking` is about two gates: `Handed(g, h, x)`
says that from gate g to gate h nobody but x got in front of a waiter (`Ordered`) and whoever was
granted a slot, or got a parked one back, stood before all who still wait (`Precedes`). It holds of
joining, leaving and both rounds of dispatch, and composes, so that each action only has to account
for its own caller x (`TurnKept`). Theorems: `Invariance`, `TypeCorrect`,
`CountersRight`, `CapacityKept`, `ParkingExclusive`, `NoLostWakeup`, `SharesNested`, `RegimeKept`,
`RestoreNotForgotten`, `FirstComeFirstServed`.

**DeliveryProofs: the mail outbox.** For any sets of invitations and workers and all delays with
`Window + Stall <= Retention`. `MailedOnce` needs that the provider still holds the key of whatever was
sent as long as an attempt may begin (`KeyFresh`) and that a request under way arrives before the key
is forgotten (`RequestsInTime`); the contract needs that a worker about to record an acceptance has
one (`Earned`). Theorems: `MailInvariance`, `MailTypeCorrect`, `MailedAtMostOnce`, `OutcomesKept`,
`RevocationSuppresses`, `OneActive`, and `MailImplementsContract`, the refinement of the safety part of
`DurableDelivery`.

**HistoryProofs: promotion.** For all sets of jobs, workers and callers and all limits. `SoleHolder` makes the
version a fence: a running job's version is held by one process, because every way into the
running state gives the row a version that only the claiming process has read. `Recorded` ties the
effects to the row's state. Theorems: `PromotionInvariance`, `PromotionTypeCorrect`, `AtMostOneRunning`,
`JobsAppliedOnce`, `ClaimsKept`.

**ProcessAdmissionProofs.** For all sets of processes, callers and roles, every assignment of bulk
locks to roles and all bounds. `BulkExclusive` follows from `Locked`: a session a permit has, or
was just granted the lock on, owns the lock while the server runs it. That needs `Holding`: only the
caller with the process's token opens, locks or drops a bulk session. `AlarmIsTrue` needs `Registered`
(the session on the controller's record is the token holder's) and `Watching` (an inspection whose
epoch is current read what is on record, and if it missed the lock the session is lost: a publish or
a drop in between makes it stale) when the observation is compared, and `Judged` from there to
`fail`: sessions are numbered, so the one that was found lost never comes back, whatever is on record by then. `RoleExclusive` needs `Started`: a control session keeps the lock of its role, and
a process whose permits are in use has not ended. Theorems: `Invariance`, `TypeCorrect`,
`BulkWorkExclusive`, `RoleHandedOver`, `AlarmsTrue`.

**MemoryAttachmentProofs.** For all sets of clients and bodies and all bounds on chains, replans and
faults. The lemmas on chains (`Cut`, `FrontCut`, `AncestryPrefixes`, `ForksStay`) are about prefixes
of sequences. `ChainComplete` needs `Stocked` (the server stores a digest after its parent, and a
memorize has its digest's ancestors), `Pulling` (what a pull is to attach is stored or staged) and
`Serving` (a request marked stored has its digest on the server). What a push reports needs `Pushing`:
where a push with a catalog sends, the server already has everything before, and each replan it counts
was an advance of the server, which the pointer never undoes. Theorems: `Invariance`, `TypeCorrect`,
`ChainsComplete`, `PointersAdvance`, `SuccessIsPublished`, `ConflictIsReal`.

**GraftQueueProofs.** For all sets of snapshots, nodes and processes and all bounds. `EdgeHasEvent` and
`DrainedMeansShared` are not inductive: an event that leaves the queue must leave nothing unexplained.
`Accounted` says of each register that its edges have been on the server or are queued, that it is ahead
of the server's number only by the expected number of a queued event, and that an edge without a number
has its legacy event. `Server` says that the server went past the number an accepted event expected and
has held its parents, so that an accepted event may leave (`AccountSettled`), and that whatever a push or a pull
has fetched is a version of the server's register (`Known`), so that adopting it needs no event at all.
`FlusherOK` and `PlannerOK` say what a process knows of the event it is about to remove, `SaverOK` that a save has
its event queued before its edge. The processes that do not take a step are treated once
(`OthersKept`): the lock protects what they rely on, except from a pull, which can only replace a version
of the server's register by another. `Select` is a recursive function; what it returns (`Selected`) is proved from the
least position at which it would be wrong. Theorems: `Invariance`, `TypeCorrect`, `EdgesAnnounced`, `DrainedIsShared`,
`PublicationShared`, `NothingLeavesUnreported`.

**BranchLifecycleProofs.** For all sets of clients, all sets of snapshots with any parents and all
bounds. `HeadResolves` is not inductive: an archive is several writes, and a crash may leave any prefix
of them. `LifecycleInv` says of each store, after every single write, that a stored symbolic HEAD has
its pointer (`Sound`), that events and pointer name snapshots that exist, and that generations are bounded by
the commands so far, which keeps them within their type; of the server, whose operations are
transactions, it also says that an archive that is the latest event has removed the pointer (`Settled`); and of a push or a
pull under way that what it carries is of this kind (`SyncsOK`). Each file-store operation has a lemma about the sequence
of stores it goes through, and a crash is a prefix of it (`Written`). A batch is a recursive function on sets of
events, of which only what every application keeps is needed (`ApplyEventsOK`). `NothingLost` follows from `Keeps`: the old pointer is
a target of an event, or the new pointer's history holds its history. `RestMeansAgreed` is proved by what
the server would answer to a push of the client. If it took the pointer, it has it already, for nothing
would change. If it refused because the branch is archived, that archive is the client's latest event too
(`SameArchive`: what a batch adds of itself is active), and reconciling would have removed the client's
pointer. If it refused because it protects the branch, the batch holds an archive, which is the third way to
rest. If it refused because its own pointer is no ancestor, the client would adopt that one, or
the two have diverged. Theorems: `LifecycleInvariance`, `LifecycleTypeCorrect`, `HeadNeverDangles`, `NothingIsLost`, `RestIsAgreement`.

**Only model-checked.** The fairness part of `DeliversAtLeastOnce`, and `InteractiveServed`,
`Restored`, `MailSettles` and `Converges`: liveness is beyond the prover. Every
safety invariant and every action property of a passing run is proved as well.

## 6. Not modelled, and the plan

Parsing, encoding, chunking and rendering are data conversions on large inputs
without interleaving; authorization and account administration are left out on
purpose; HTTP, MCP and process start-up map onto operations of other parts.
`PROJECT.json` gives the reason for each part. What is still to come:

1. `SessionJoin`, extending `SnapshotGraph`: plan, revalidation under the lock, session refs.
2. The queue of promoted messages, beside `GraftQueue`.
3. Document finalization, range index and display jobs against a contract for leased jobs.
4. The CLI's branch and capture journals and checkout transition, with crashes.
5. Spool budget, secrets register, catalog pages, and the composition of a ref move with the
   webhook row it enqueues.
