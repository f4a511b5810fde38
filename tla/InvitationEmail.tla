-------------------------- MODULE InvitationEmail --------------------------
(***************************************************************************)
(* Collaboration invitations and the outbox that mails them.               *)
(*                                                                         *)
(* Creating or renewing an invitation queues its mail in the same identity *)
(* transaction.  A worker claims a due mail in one transaction, calls the  *)
(* mail provider outside of any, and records the outcome in a second       *)
(* transaction that is fenced by the attempt number.  The provider keeps   *)
(* the idempotency key of a request for a limited time only.               *)
(*                                                                         *)
(* Time is a tick that ages everything at once, so the module keeps ages   *)
(* and countdowns instead of the timestamps of the code.  Identity         *)
(* transactions are exclusive, so each is one step.  All invitations are   *)
(* to one address by one issuer.                                           *)
(***************************************************************************)
EXTENDS Integers, FiniteSets

CONSTANTS
    Invite,          \* invitation identities
    Mailer,          \* mail workers, over all server processes
    NoInvite,        \* no invitation
    Lifetime,        \* how long an invitation can be accepted
    MailLease,       \* two minutes
    SendTime,        \* ten seconds, the limit of one provider request
    Window,          \* 23 hours, the time in which attempts may begin
    MaxMailAttempts, \* twelve
    MailBackoff(_),  \* the delay after an attempt
    MailRetryAfter,  \* the delays the provider may ask for
    Stall,           \* a claimed mail is sent within this time or never
    Retention        \* 24 hours, how long the provider keeps a key

ASSUME IdentityAssumption == NoInvite \notin Invite

ASSUME DelayAssumption ==
    /\ {Lifetime, MailLease, SendTime, Window, MaxMailAttempts, Stall, Retention} \subseteq Nat
    /\ MailRetryAfter \subseteq Nat
    /\ \A n \in 1..MaxMailAttempts : MailBackoff(n) \in Nat
    /\ Stall < Window

\* "inside Resend's 24-hour deduplication window".
ASSUME RetentionAssumption == Window + Stall <= Retention

VARIABLES
    invite,   \* status of each invitation and the time it is valid for
    allowed,  \* whether the issuer may invite
    mail,     \* the outbox: state, attempts, time to the next attempt, age of the first
    job,      \* what each worker is doing
    floating, \* requests the worker has given up that may still arrive
    key,      \* the age of the provider's idempotency key; Retention: none
    mailed    \* the mails the provider has sent for each invitation

mailVars == <<invite, allowed, mail, job, floating, key, mailed>>

Unsettled == {"queued", "retrying", "sending"}
MailSettled == {"accepted", "attention", "cancelled"}

Idle == [pc |-> "idle", invite |-> NoInvite, attempts |-> 0, age |-> 0, since |-> 0]

MailJob ==
    [pc : {"claimed", "ok", "retry", "reject"}, invite : Invite, attempts : 1..MaxMailAttempts,
     age : 0..Window, since : 0..Window]

\* A row of the outbox.
InvitationMail ==
    [state : {"none"} \cup Unsettled \cup MailSettled, attempts : 0..MaxMailAttempts, wait : Nat,
     age : 0..Window]

\* A request the worker no longer waits for.
Request == [invite : Invite, age : 0..Window, since : 0..Stall]

\* The types of the state.  No attempt beyond the limit is ever claimed, and no
\* request is under way or on the network for longer than its timeout allows.
MailTypeOK ==
    /\ invite \in [Invite -> [status : {"none", "pending", "accepted", "revoked"}, left : 0..Lifetime]]
    /\ allowed \in BOOLEAN
    /\ mail \in [Invite -> InvitationMail]
    /\ job \in [Mailer -> MailJob \cup {Idle}]
    /\ floating \subseteq Request
    /\ key \in [Invite -> 0..Retention]
    /\ mailed \in [Invite -> Nat]

MailInit ==
    /\ invite = [i \in Invite |-> [status |-> "none", left |-> 0]]
    /\ allowed = TRUE
    /\ mail = [i \in Invite |-> [state |-> "none", attempts |-> 0, wait |-> 0, age |-> 0]]
    /\ job = [w \in Mailer |-> Idle]
    /\ floating = {}
    /\ key = [i \in Invite |-> Retention]
    /\ mailed = [i \in Invite |-> 0]

Least(m, n) == IF m <= n THEN m ELSE n
Most(m, n) == IF m <= n THEN n ELSE m

-----------------------------------------------------------------------------
(* Invitations.                                                            *)

Active(i) == invite[i].status = "pending" /\ invite[i].left > 0

\* The time left of a decided invitation is never looked at.
Decided(status) == [status |-> status, left |-> 0]

Fresh == [status |-> "pending", left |-> Lifetime]
Queued == [state |-> "queued", attempts |-> 0, wait |-> 0, age |-> 0]

\* CreateCollaborationInvitation, with enqueueInvitationEmail.
Create(i) ==
    /\ allowed
    /\ \A o \in Invite : ~Active(o)
    /\ invite[i].status = "none"
    /\ invite' = [invite EXCEPT ![i] = Fresh]
    /\ mail' = [mail EXCEPT ![i] = Queued]
    /\ UNCHANGED <<allowed, job, floating, key, mailed>>

\* ActOnCollaborationInvitation "accept".
Accept(i) ==
    /\ Active(i) /\ allowed
    /\ invite' = [invite EXCEPT ![i] = Decided("accepted")]
    /\ UNCHANGED <<allowed, mail, job, floating, key, mailed>>

\* "decline" and "revoke".  The queued mail is left to the worker.
Withdraw(i) ==
    /\ invite[i].status = "pending"
    /\ invite' = [invite EXCEPT ![i] = Decided("revoked")]
    /\ UNCHANGED <<allowed, mail, job, floating, key, mailed>>

\* "resend": the old invitation, expired or not, is revoked, and a new one with
\* a new identity is created.
Resend(i, j) ==
    /\ allowed
    /\ invite[i].status = "pending" /\ invite[j].status = "none"
    /\ \A o \in Invite \ {i} : ~Active(o)
    /\ invite' = [invite EXCEPT ![i] = Decided("revoked"), ![j] = Fresh]
    /\ mail' = [mail EXCEPT ![j] = Queued]
    /\ UNCHANGED <<allowed, job, floating, key, mailed>>

\* The issuer is demoted or promoted.
ChangeAuthority ==
    /\ allowed' = ~allowed
    /\ UNCHANGED <<invite, mail, job, floating, key, mailed>>

-----------------------------------------------------------------------------
(* The worker.                                                             *)

\* Mutant: a mail that is being sent is left to its worker.
ReadyUnclaimed(i) == mail[i].state \in {"queued", "retrying"} /\ mail[i].wait = 0

\* Domain Ready, and the condition of NextInvitationEmail.
Ready(i) == mail[i].state \in Unsettled /\ mail[i].wait = 0

Cancels(i) == ~Active(i) \/ ~allowed

\* Mutant: the window closes too late.
WindowOverLate(i) == mail[i].attempts > 0 /\ mail[i].age > Window

WindowOver(i) == mail[i].attempts > 0 /\ mail[i].age >= Window

Exhausted(i) == mail[i].attempts >= MaxMailAttempts

\* The next attempt and the window of a settled mail are never looked at.
Settle(m, state) == [m EXCEPT !.state = state, !.wait = 0, !.age = 0]

\* The record of an attempt that begins: the first one starts the window.
Begin(i) ==
    [state |-> "sending", attempts |-> mail[i].attempts + 1, wait |-> MailLease,
     age |-> IF mail[i].attempts = 0 THEN 0 ELSE mail[i].age]

\* Mutant: the invitation is not looked at again.
ClaimMailUnchecked(w, i) ==
    /\ job[w] = Idle /\ Ready(i)
    /\ IF WindowOver(i) \/ Exhausted(i)
       THEN /\ mail' = [mail EXCEPT ![i] = Settle(@, "attention")]
            /\ UNCHANGED job
       ELSE /\ mail' = [mail EXCEPT ![i] = Begin(i)]
            /\ job' = [job EXCEPT ![w] = [pc |-> "claimed", invite |-> i, attempts |-> Begin(i).attempts,
                                          age |-> Begin(i).age, since |-> 0]]
    /\ UNCHANGED <<invite, allowed, floating, key, mailed>>

\* claimInvitationEmail: an inactive invitation or a demoted issuer cancels the
\* mail, an expired window or the last attempt needs attention, anything else
\* begins an attempt.  A "sending" mail whose lease is over is claimed again.
ClaimMail(w, i) ==
    /\ job[w] = Idle /\ Ready(i)
    /\ \/ /\ Cancels(i)
          /\ mail' = [mail EXCEPT ![i] = Settle(@, "cancelled")]
          /\ UNCHANGED job
       \/ /\ ~Cancels(i) /\ (WindowOver(i) \/ Exhausted(i))
          /\ mail' = [mail EXCEPT ![i] = Settle(@, "attention")]
          /\ UNCHANGED job
       \/ /\ ~Cancels(i) /\ ~WindowOver(i) /\ ~Exhausted(i)
          /\ mail' = [mail EXCEPT ![i] = Begin(i)]
          /\ job' = [job EXCEPT ![w] = [pc |-> "claimed", invite |-> i, attempts |-> Begin(i).attempts,
                                        age |-> Begin(i).age, since |-> 0]]
    /\ UNCHANGED <<invite, allowed, floating, key, mailed>>

\* The provider: a request whose key it still keeps is answered from the first
\* one, any other is mailed.
Provide(i) ==
    IF key[i] < Retention THEN UNCHANGED <<key, mailed>>
    ELSE /\ key' = [key EXCEPT ![i] = 0]
         /\ mailed' = [mailed EXCEPT ![i] = @ + 1]

Sending(w) == job[w].pc = "claimed" /\ job[w].since <= Stall

Answer(w, outcome) == job' = [job EXCEPT ![w].pc = outcome]

\* The provider has the request; the answer arrives or is lost.
SendArrives(w) ==
    /\ Sending(w)
    /\ Provide(job[w].invite)
    /\ Answer(w, "ok") \/ Answer(w, "retry")
    /\ UNCHANGED <<invite, allowed, mail, floating>>

\* The provider refuses the request, for now or for good.
SendRefused(w) ==
    /\ Sending(w)
    /\ Answer(w, "retry") \/ Answer(w, "reject")
    /\ UNCHANGED <<invite, allowed, mail, floating, key, mailed>>

\* The worker gives up a request that is still on its way.
SendTimesOut(w) ==
    /\ Sending(w)
    /\ Answer(w, "retry")
    /\ floating' = floating \cup {[invite |-> job[w].invite, age |-> job[w].age, since |-> job[w].since]}
    /\ UNCHANGED <<invite, allowed, mail, key, mailed>>

ArriveLate(r) ==
    /\ r \in floating
    /\ floating' = floating \ {r}
    /\ Provide(r.invite)
    /\ UNCHANGED <<invite, allowed, mail, job>>

LoseLate(r) ==
    /\ r \in floating
    /\ floating' = floating \ {r}
    /\ UNCHANGED <<invite, allowed, mail, job, key, mailed>>

\* The fence of ProcessInvitationEmail.
Current(w) ==
    /\ mail[job[w].invite].state = "sending"
    /\ mail[job[w].invite].attempts = job[w].attempts

\* Mutant: only a refusal counts as a failure.
MailOutcomeOptimistic(w, asked) ==
    Settle(mail[job[w].invite], IF job[w].pc = "reject" THEN "attention" ELSE "accepted")

\* What ProcessInvitationEmail records: a retryable failure waits for the
\* longer of the backoff and what the provider asked for, counted from the
\* claim, unless that is past the window or there is no attempt left.
MailOutcome(w, asked) ==
    LET j == job[w]
        m == mail[j.invite]
        delay == SendTime + Most(MailBackoff(j.attempts), asked)
    IN IF j.pc = "ok" THEN Settle(m, "accepted")
       ELSE IF j.pc = "reject" \/ j.attempts >= MaxMailAttempts \/ j.age + delay >= Window
            THEN Settle(m, "attention")
       ELSE [m EXCEPT !.state = "retrying", !.wait = Most(0, delay - j.since)]

\* The second transaction of ProcessInvitationEmail.
Finish(w) ==
    /\ job[w].pc \in {"ok", "retry", "reject"}
    /\ \/ /\ Current(w)
          /\ \E asked \in MailRetryAfter : mail' = [mail EXCEPT ![job[w].invite] = MailOutcome(w, asked)]
       \/ ~Current(w) /\ UNCHANGED mail
    /\ job' = [job EXCEPT ![w] = Idle]
    /\ UNCHANGED <<invite, allowed, floating, key, mailed>>

\* The process dies, or its second transaction fails.
Crash(w) ==
    /\ job[w] # Idle
    /\ job' = [job EXCEPT ![w] = Idle]
    /\ UNCHANGED <<invite, allowed, mail, floating, key, mailed>>

\* One tick of the database clock.
MailTick ==
    /\ invite' = [i \in Invite |-> [invite[i] EXCEPT !.left = Most(0, @ - 1)]]
    /\ mail' = [i \in Invite |-> IF mail[i].state \in Unsettled
                   THEN [mail[i] EXCEPT !.wait = Most(0, @ - 1), !.age = Least(Window, @ + 1)]
                   ELSE mail[i]]
    /\ job' = [w \in Mailer |-> IF job[w] = Idle THEN Idle
                                ELSE [job[w] EXCEPT !.since = Least(Window, @ + 1)]]
    /\ floating' = {[r EXCEPT !.since = @ + 1] : r \in {q \in floating : q.since < Stall}}
    /\ key' = [i \in Invite |-> Least(Retention, key[i] + 1)]
    /\ UNCHANGED <<allowed, mailed>>

-----------------------------------------------------------------------------
Invitations ==
    \/ \E i \in Invite : Create(i) \/ Accept(i) \/ Withdraw(i)
    \/ \E i, j \in Invite : Resend(i, j)
    \/ ChangeAuthority

Work(w) ==
    \/ \E i \in Invite : ClaimMail(w, i)
    \/ SendArrives(w) \/ SendRefused(w) \/ SendTimesOut(w) \/ Finish(w) \/ Crash(w)

MailNext ==
    \/ Invitations
    \/ \E w \in Mailer : Work(w)
    \/ \E r \in floating : ArriveLate(r) \/ LoseLate(r)
    \/ MailTick

MailSpec == MailInit /\ [][MailNext]_mailVars

\* Time passes; a due mail is claimed, because the workers poll and take the one
\* that is due for longest; a worker does not stay in one attempt, because the
\* request is limited to ten seconds, or it dies.
MailFairSpec ==
    /\ MailSpec
    /\ WF_mailVars(MailTick)
    /\ \A i \in Invite : WF_mailVars(\E w \in Mailer : ClaimMail(w, i))
    /\ \A w \in Mailer :
          WF_mailVars(SendArrives(w) \/ SendRefused(w) \/ SendTimesOut(w) \/ Finish(w) \/ Crash(w))

-----------------------------------------------------------------------------
(* Properties.                                                             *)

\* A request for i may still reach the provider.
MailInFlight(i) ==
    \/ \E w \in Mailer : job[w].invite = i /\ job[w].pc = "claimed"
    \/ \E r \in floating : r.invite = i

\* An invitation is mailed at most once, whatever workers die, stall or lose the
\* provider's answer: "none begin at or after 23 hours from the first claim,
\* inside Resend's 24-hour deduplication window" (claimInvitationEmail).
MailedOnce == \A i \in Invite : mailed[i] <= 1

\* What the outbox says of a mail, in the words of the contract.
MailPhaseOf(i) ==
    IF mail[i].state = "none" THEN "absent"
    ELSE IF mail[i].state \in Unsettled THEN "open"
    ELSE IF mail[i].state = "accepted" THEN "delivered"
    ELSE "attention"

MailContract ==
    INSTANCE DurableDelivery WITH
        Item <- Invite,
        phase <- [i \in Invite |-> MailPhaseOf(i)],
        accepted <- {i \in Invite : mailed[i] > 0}

\* The mail outbox keeps the promises of a durable outbox: a mail recorded as
\* accepted has reached the provider, nothing is mailed before it is queued, and
\* no outcome is taken back (claimInvitationEmail, ProcessInvitationEmail).
ImplementsDelivery == MailContract!Safety

\* "attempt fencing prevent old workers from overwriting newer outcomes": a
\* settled mail stays as it is (ProcessInvitationEmail).
OutcomeKept ==
    [][\A i \in Invite : mail[i].state \in MailSettled => mail'[i] = mail[i]]_mailVars

\* "Revocation before claiming suppresses delivery": once an invitation cannot
\* be accepted any more and no request for it is under way, none is sent
\* (claimInvitationEmail).
RevokedIsNotMailed ==
    [][\A i \in Invite :
          (invite[i].status # "none" /\ ~Active(i) /\ ~MailInFlight(i))
              => mailed'[i] = mailed[i] /\ ~MailInFlight(i)']_mailVars

\* "must not create a second active invitation": one address has at most one
\* invitation that can be accepted (Create and "resend").
OneActiveInvitation == \A i, j \in Invite : Active(i) /\ Active(j) => i = j

\* Every queued mail is settled, even if every worker dies in every attempt
\* (claimInvitationEmail, RunInvitationEmailWorker).
MailSettles == \A i \in Invite : mail[i].state = "queued" ~> mail[i].state \in MailSettled

============================================================================
