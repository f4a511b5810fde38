--------------------------- MODULE DeliveryProofs ---------------------------
(***************************************************************************)
(* Proofs about the two outboxes of the server: the one that delivers      *)
(* notifications to webhooks (NotificationOutbox) and the one that mails   *)
(* invitations (InvitationEmail).  Both implement DurableDelivery.         *)
(***************************************************************************)
EXTENDS NotificationOutbox, InvitationEmail, TLAPS

-----------------------------------------------------------------------------
(***************************************************************************)
(* Safety of the webhook outbox for every number of rows, workers and      *)
(* destinations, every attempt limit, lease and backoff, and any number of *)
(* manual retries and faults.                                              *)
(***************************************************************************)


\* A worker in flight holds a well-formed claim.
LEMMA HeldClaim ==
    ASSUME TypeOK, NEW w \in Worker, pc[w] # "idle"
    PROVE  claim[w] \in Claim
  BY Zenon DEF TypeOK

\* The row, version and attempts a worker in flight carries.
LEMMA HeldFields ==
    ASSUME TypeOK, NEW w \in Worker, pc[w] # "idle"
    PROVE  claim[w].job \in Job /\ claim[w].version \in Nat /\ claim[w].attempts \in Nat
  BY HeldClaim, Zenon DEF Claim

\* So are the requests that were sent.
LEMMA SentFields ==
    ASSUME TypeOK, NEW c \in sent
    PROVE  c.job \in Job /\ c.version \in Nat
  BY Zenon DEF TypeOK, Claim

\* Time changes the deadlines of a row and nothing else.
LEMMA AgedFields ==
    ASSUME NEW row \in Row
    PROVE  /\ Aged(row) \in Row
           /\ Aged(row).state = row.state
           /\ Aged(row).version = row.version
           /\ Aged(row).attempts = row.attempts
           /\ Aged(row).destination = row.destination
           /\ row.lease > 1 => Aged(row).lease > 0
<1>1. \A n \in Nat : Down(n) \in Nat /\ (n > 1 => Down(n) > 0)
  BY DEF Down
<1>2. row.wait \in Nat /\ row.lease \in Nat
  BY Zenon DEF Row
<1>3. Down(row.wait) \in Nat /\ Down(row.lease) \in Nat /\ (row.lease > 1 => Down(row.lease) > 0)
  BY <1>1, <1>2, Zenon
<1> HIDE DEF Down
<1> QED BY <1>3, Zenon DEF Aged, Row

\* Every decision is a well-formed outcome and leads to the finishing step.
LEMMA DecideType ==
    ASSUME TypeOK, NEW w \in Worker, NEW s \in {"retrying"} \cup Settled, NEW d \in Nat,
           Decide(w, s, d)
    PROVE  /\ outcome' \in [Worker -> Outcome]
           /\ pc' \in [Worker -> {"idle", "claimed", "configured", "prepared", "validated", "finish"}]
           /\ pc'[w] = "finish" /\ outcome'[w].state = s
           /\ \A v \in Worker \ {w} : pc'[v] = pc[v] /\ outcome'[v] = outcome[v]
  BY Zenon DEF TypeOK, Decide, Outcome

\* A retry decision never claims a delivery.
LEMMA RetryType ==
    ASSUME TypeOK, NEW w \in Worker, pc[w] # "idle", NEW after \in Nat, Retry(w, after)
    PROVE  \E s \in {"retrying", "attention"}, d \in Nat : Decide(w, s, d)
<1>1. claim[w] \in Claim
  BY HeldClaim, Zenon
<1>2. CASE claim[w].attempts >= MaxAttempts
  BY <1>2, Zenon DEF Retry
<1>3. CASE ~(claim[w].attempts >= MaxAttempts)
  <2> DEFINE d == AtMost(AtLeast(Backoff[claim[w].attempts], after), DelayCap)
  <2>1. claim[w].attempts \in 1 .. MaxAttempts
    BY <1>1, <1>3, TimingAssumption DEF Claim
  <2>2. d \in Nat
    BY <2>1, TimingAssumption, Zenon DEF AtMost, AtLeast
  <2> QED BY <1>3, <2>2, Zenon DEF Retry
<1> QED BY <1>2, <1>3, Zenon

\* Claims and manual retries leave well-formed rows.
LEMMA ClaimedType ==
    ASSUME NEW row \in Row
    PROVE  Claimed(row) \in Row
  BY TimingAssumption DEF Row, RowState, Claimed

\* A manual retry leaves a well-typed row when a webhook is configured.
LEMMA RetriedType ==
    ASSUME NEW row \in Row, repository.webhook \in Url
    PROVE  Retried(row) \in Row /\ Retried(row).destination \in Url
  BY DEF Row, RowState, Retried

\* The inductive invariant holds initially.
LEMMA InitIInv == Init => IInv
<1> SUFFICES ASSUME Init PROVE IInv
  BY Zenon
<1>1. TypeOK
  BY Zenon DEF Init, TypeOK, Row, RowState, Settled, Claim, Outcome, NoOutcome
<1> QED BY <1>1, Zenon DEF Init, IInv, ClaimsNotAhead, RequestsNotAhead, OneOwnerPerVersion,
        CurrentVersionMeansUnchanged, NotSentYet, Unsent, WithinLimit, DeliveryIsBacked,
        DeliveredWasAccepted, AttemptBudget, LeaseHeldWithoutFault, InFlight

-----------------------------------------------------------------------------
(* One lemma per action.  Actions of producers and operators first. *)

\* EnqueueNotification: no claim or request refers to a row that is not there yet.
LEMMA EnqueueIInv ==
    ASSUME IInv, NEW j \in Job, EnqueueNotification(j)
    PROVE  IInv'
<1> USE DEF IInv, EnqueueNotification, workers, history, bounds
<1>1. TypeOK'
  BY Zenon DEF TypeOK, Row, RowState, Settled, ActiveWebhook
<1>2. ClaimsNotAhead' /\ CurrentVersionMeansUnchanged'
  BY HeldClaim DEF ClaimsNotAhead, CurrentVersionMeansUnchanged, InFlight, TypeOK, Claim
<1>3. RequestsNotAhead'
  BY Zenon DEF RequestsNotAhead, TypeOK, Claim
<1>4. DeliveredWasAccepted'
  BY DEF DeliveredWasAccepted, TypeOK
<1>5. LeaseHeldWithoutFault'
  BY HeldClaim, Zenon DEF LeaseHeldWithoutFault, InFlight, HoldsClaim, ClaimsNotAhead, TypeOK, Claim
<1> QED BY <1>1, <1>2, <1>3, <1>4, <1>5, Zenon DEF OneOwnerPerVersion, NotSentYet, WithinLimit,
        DeliveryIsBacked, AttemptBudget, InFlight

\* A change of the settings touches no row and no worker.
LEMMA SettingsIInv ==
    ASSUME IInv, UpdateRepositorySettings
    PROVE  IInv'
  BY DEF IInv, UpdateRepositorySettings, workers, history, bounds, TypeOK, ClaimsNotAhead,
        RequestsNotAhead, OneOwnerPerVersion, CurrentVersionMeansUnchanged, NotSentYet,
        WithinLimit, DeliveryIsBacked, DeliveredWasAccepted, AttemptBudget,
        LeaseHeldWithoutFault, InFlight, HoldsClaim

\* RetryNotification raises the version, so every older claim stops being current;
\* a row under a live lease, the only kind a fault-free claim holds, is refused.
LEMMA RetryIInv ==
    ASSUME IInv, NEW j \in Job, RetryNotification(j)
    PROVE  IInv'
<1> USE DEF IInv, RetryNotification, workers, history
<1>1. outbox[j] \in Row /\ Retried(outbox[j]) \in Row /\ Retried(outbox[j]).destination \in Url
  <2>1. outbox[j] \in Row /\ repository.webhook \in Url
    BY Zenon DEF TypeOK, ActiveWebhook
  <2> QED BY <2>1, RetriedType, Zenon
<1>2. /\ Retried(outbox[j]).version = outbox[j].version + 1
      /\ Retried(outbox[j]).state = "pending"
      /\ outbox[j].version \in Nat
  BY <1>1, Zenon DEF Retried, Row
<1>3. /\ outbox' \in [Job -> Row]
      /\ outbox'[j] = Retried(outbox[j])
      /\ \A k \in Job \ {j} : outbox'[k] = outbox[k]
  BY <1>1, Zenon DEF TypeOK
<1>4. TypeOK'
  BY <1>1, <1>3 DEF TypeOK
<1>5. ClaimsNotAhead' /\ CurrentVersionMeansUnchanged'
  BY <1>2, <1>3, HeldClaim DEF ClaimsNotAhead, CurrentVersionMeansUnchanged, InFlight, Claim
<1>6. RequestsNotAhead'
  BY <1>2, <1>3 DEF RequestsNotAhead, TypeOK, Claim
<1>7. DeliveredWasAccepted'
  BY <1>2, <1>3, Zenon DEF DeliveredWasAccepted
<1>8. LeaseHeldWithoutFault'
  BY <1>3, HeldClaim, Zenon DEF LeaseHeldWithoutFault, InFlight, HoldsClaim, Claim, Replayable
<1> QED BY <1>4, <1>5, <1>6, <1>7, <1>8, Zenon DEF OneOwnerPerVersion, NotSentYet, WithinLimit,
        DeliveryIsBacked, AttemptBudget, InFlight

-----------------------------------------------------------------------------
(* The steps of a worker's pass. *)

\* ClaimNotification raises the version past every claim and request of the row,
\* and takes a row that no fault-free claim holds.
LEMMA ClaimIInv ==
    ASSUME IInv, NEW w \in Worker, NEW j \in Job, ClaimNotification(w, j)
    PROVE  IInv'
<1> USE DEF IInv
<1>0. /\ pc[w] = "idle" /\ Claimable(outbox[j])
      /\ outbox' = [outbox EXCEPT ![j] = Claimed(outbox[j])]
      /\ claim' = [claim EXCEPT ![w] = ClaimOf(j, Claimed(outbox[j]))]
      /\ pc' = [pc EXCEPT ![w] = "claimed"]
      /\ UNCHANGED <<repository, outcome, sent, accepted, retries, faults>>
  BY Zenon DEF ClaimNotification, history, bounds
<1> DEFINE row == Claimed(outbox[j])
<1>1. outbox[j] \in Row /\ row \in Row /\ outbox[j].version \in Nat /\ outbox[j].attempts \in Nat
  <2>1. outbox[j] \in Row
    BY Zenon DEF TypeOK
  <2> QED BY <2>1, ClaimedType, Zenon DEF Row
<1>2. /\ row.version = outbox[j].version + 1
      /\ row.attempts = outbox[j].attempts + 1
      /\ row.state = "running"
      /\ row.lease = Lease
      /\ row.destination = outbox[j].destination
      /\ outbox[j].destination \in Url
  BY <1>0, <1>1, Zenon DEF Claimed, Row, TypeOK, Claimable
<1>3. /\ outbox' \in [Job -> Row]
      /\ outbox'[j] = row
      /\ \A k \in Job \ {j} : outbox'[k] = outbox[k]
  BY <1>0, <1>1, Zenon DEF TypeOK
<1>4. /\ ClaimOf(j, row) \in Claim
      /\ ClaimOf(j, row).job = j
      /\ ClaimOf(j, row).version = row.version
      /\ ClaimOf(j, row).attempts = row.attempts
      /\ ClaimOf(j, row).destination = row.destination
  BY <1>1, <1>2 DEF ClaimOf, Claim
<1> HIDE DEF row
<1>5. /\ claim'[w] = ClaimOf(j, row) /\ pc'[w] = "claimed"
      /\ \A v \in Worker \ {w} : claim'[v] = claim[v] /\ pc'[v] = pc[v]
  BY <1>0, Zenon DEF TypeOK, row
<1>6. TypeOK'
  BY <1>0, <1>2, <1>3, <1>4, <1>5, ClaimAssumption DEF TypeOK, Claim, row
<1>7. ClaimsNotAhead' /\ CurrentVersionMeansUnchanged'
  <2> SUFFICES ASSUME NEW v \in Worker, pc'[v] # "idle"
               PROVE  /\ outbox'[claim'[v].job].state # "absent"
                      /\ claim'[v].version <= outbox'[claim'[v].job].version
                      /\ outbox'[claim'[v].job].version = claim'[v].version
                            => /\ outbox'[claim'[v].job].state = "running"
                               /\ outbox'[claim'[v].job].attempts = claim'[v].attempts
                               /\ outbox'[claim'[v].job].destination = claim'[v].destination
    BY Zenon DEF ClaimsNotAhead, CurrentVersionMeansUnchanged, InFlight
  <2>1. CASE v = w
    BY <1>1, <1>2, <1>3, <1>4, <1>5, <2>1
  <2>2. CASE v # w
    <3>1. claim'[v] = claim[v] /\ pc[v] # "idle" /\ claim[v].job \in Job /\ claim[v].version \in Nat
      BY <1>5, <2>2, HeldFields, Zenon
    <3>2. CASE claim[v].job = j
      BY <1>1, <1>2, <1>3, <3>1, <3>2 DEF ClaimsNotAhead, InFlight
    <3>3. CASE claim[v].job # j
      <4>1. outbox'[claim'[v].job] = outbox[claim[v].job]
        BY <1>3, <3>1, <3>3, Zenon
      <4> QED BY <3>1, <4>1, Zenon DEF ClaimsNotAhead, CurrentVersionMeansUnchanged, InFlight
    <3> QED BY <3>2, <3>3, Zenon
  <2> QED BY <2>1, <2>2, Zenon
<1>8. OneOwnerPerVersion'
  BY <1>0, <1>1, <1>2, <1>3, <1>4, <1>5, HeldClaim DEF ClaimsNotAhead, OneOwnerPerVersion, InFlight, Claim
<1>9. RequestsNotAhead' /\ NotSentYet'
  BY <1>0, <1>1, <1>2, <1>3, <1>4, <1>5 DEF RequestsNotAhead, NotSentYet, Unsent, TypeOK, Claim
<1>10. DeliveredWasAccepted'
  BY <1>0, <1>2, <1>3, Zenon DEF DeliveredWasAccepted
<1>11. LeaseHeldWithoutFault'
  <2> SUFFICES ASSUME faults' = 0, NEW v \in Worker, pc'[v] # "idle"
               PROVE  HoldsClaim(v)'
    BY Zenon DEF LeaseHeldWithoutFault, InFlight
  <2>1. CASE v = w
    BY <1>1, <1>2, <1>3, <1>4, <1>5, <2>1, TimingAssumption DEF HoldsClaim
  <2>2. CASE v # w
    <3>1. claim'[v] = claim[v] /\ pc[v] # "idle" /\ claim[v].job \in Job
      BY <1>5, <2>2, HeldFields, Zenon
    <3>2. HoldsClaim(v)
      BY <1>0, <3>1, Zenon DEF LeaseHeldWithoutFault, InFlight
    <3>3. claim[v].job # j
      BY <1>0, <3>2 DEF HoldsClaim, Claimable
    <3>4. outbox'[claim'[v].job] = outbox[claim[v].job]
      BY <1>3, <3>1, <3>3, Zenon
    <3> QED BY <3>1, <3>2, <3>4, Zenon DEF HoldsClaim
  <2> QED BY <2>1, <2>2, Zenon
<1> QED BY <1>0, <1>5, <1>6, <1>7, <1>8, <1>9, <1>10, <1>11 DEF WithinLimit, DeliveryIsBacked, AttemptBudget

\* A step that only decides an outcome other than a delivery, or moves a worker
\* forward within the attempt limit, disturbs none of the rows.
LEMMA DecideIInv ==
    ASSUME IInv, NEW w \in Worker, InFlight(w),
           NEW s \in {"retrying", "attention"}, NEW d \in Nat, Decide(w, s, d),
           UNCHANGED <<outbox, claim, sent, accepted, retries, faults>>,
           repository' = repository
    PROVE  IInv'
<1> USE DEF IInv, InFlight
<1>1. /\ outcome' \in [Worker -> Outcome]
      /\ pc' \in [Worker -> {"idle", "claimed", "configured", "prepared", "validated", "finish"}]
      /\ pc'[w] = "finish" /\ outcome'[w].state = s
      /\ \A v \in Worker \ {w} : pc'[v] = pc[v] /\ outcome'[v] = outcome[v]
  BY DecideType, Zenon DEF Settled
<1>2. TypeOK'
  BY <1>1, Zenon DEF TypeOK
<1>3. ClaimsNotAhead' /\ CurrentVersionMeansUnchanged'
  BY <1>1 DEF ClaimsNotAhead, CurrentVersionMeansUnchanged
<1>4. OneOwnerPerVersion'
  BY <1>1 DEF OneOwnerPerVersion
<1>5. NotSentYet' /\ WithinLimit' /\ DeliveryIsBacked'
  BY <1>1, Zenon DEF NotSentYet, WithinLimit, DeliveryIsBacked, Unsent
<1>6. LeaseHeldWithoutFault'
  BY <1>1, Zenon DEF LeaseHeldWithoutFault, HoldsClaim
<1> QED BY <1>2, <1>3, <1>4, <1>5, <1>6, Zenon DEF RequestsNotAhead, DeliveredWasAccepted, AttemptBudget

\* A worker that goes on within its pass keeps the invariant.
LEMMA ProceedIInv ==
    ASSUME IInv, NEW w \in Worker, InFlight(w), pc[w] \in Unsent,
           NEW step \in {"configured", "prepared", "validated"}, Proceed(w, step),
           claim[w].attempts <= MaxAttempts,
           UNCHANGED <<outbox, claim, sent, accepted, retries, faults>>,
           repository' = repository
    PROVE  IInv'
<1> USE DEF IInv, InFlight
<1>1. /\ pc' \in [Worker -> {"idle", "claimed", "configured", "prepared", "validated", "finish"}]
      /\ pc'[w] = step /\ outcome' = outcome
      /\ \A v \in Worker \ {w} : pc'[v] = pc[v]
  BY Zenon DEF Proceed, TypeOK
<1>2. TypeOK'
  BY <1>1, Zenon DEF TypeOK
<1>3. ClaimsNotAhead' /\ CurrentVersionMeansUnchanged'
  BY <1>1 DEF ClaimsNotAhead, CurrentVersionMeansUnchanged
<1>4. OneOwnerPerVersion'
  BY <1>1 DEF OneOwnerPerVersion
<1>5. NotSentYet' /\ WithinLimit' /\ DeliveryIsBacked'
  BY <1>1, Zenon DEF NotSentYet, WithinLimit, DeliveryIsBacked, Unsent
<1>6. LeaseHeldWithoutFault'
  BY <1>1, Zenon DEF LeaseHeldWithoutFault, HoldsClaim
<1> QED BY <1>2, <1>3, <1>4, <1>5, <1>6, Zenon DEF RequestsNotAhead, DeliveredWasAccepted, AttemptBudget

\* CheckConfiguration lets a pass go on only within the attempt limit.
LEMMA CheckIInv ==
    ASSUME IInv, NEW w \in Worker, CheckConfiguration(w)
    PROVE  IInv'
<1> USE DEF CheckConfiguration, history, bounds, InFlight
<1>1. CASE Decide(w, "attention", 0)
  BY <1>1, DecideIInv, Zenon
<1>2. CASE Retry(w, 0)
  BY <1>2, RetryType, DecideIInv, Zenon DEF IInv
<1>3. CASE AttemptsLeft(w) /\ Proceed(w, "configured")
  BY <1>3, ProceedIInv, Zenon DEF AttemptsLeft, Unsent
<1> QED BY <1>1, <1>2, <1>3, Zenon

\* Prepare goes on or decides, with nothing sent.
LEMMA PrepareIInv ==
    ASSUME IInv, NEW w \in Worker, Prepare(w)
    PROVE  IInv'
<1> USE DEF Prepare, history, bounds, InFlight
<1>1. CASE Decide(w, "attention", 0)
  BY <1>1, DecideIInv, Zenon
<1>2. CASE Retry(w, 0)
  BY <1>2, RetryType, DecideIInv, Zenon DEF IInv
<1>3. CASE Proceed(w, "prepared")
  BY <1>3, ProceedIInv, Zenon DEF IInv, WithinLimit, Unsent
<1> QED BY <1>1, <1>2, <1>3, Zenon

\* A pass that ends leaves the other passes as they were.
LEMMA ReleaseIInv ==
    ASSUME IInv, NEW w \in Worker,
           pc' = [pc EXCEPT ![w] = "idle"], claim' = [claim EXCEPT ![w] = NoClaim],
           outcome' \in {outcome, [outcome EXCEPT ![w] = NoOutcome]},
           UNCHANGED <<outbox, sent, accepted, retries>>, faults' \in Nat, faults' >= faults,
           repository' = repository
    PROVE  IInv'
<1> USE DEF IInv, InFlight
<1>1. /\ pc' \in [Worker -> {"idle", "claimed", "configured", "prepared", "validated", "finish"}]
      /\ claim' \in [Worker -> Claim \cup {NoClaim}]
      /\ outcome' \in [Worker -> Outcome]
      /\ pc'[w] = "idle" /\ claim'[w] = NoClaim
      /\ \A v \in Worker \ {w} : pc'[v] = pc[v] /\ claim'[v] = claim[v] /\ outcome'[v] = outcome[v]
  BY DEF TypeOK, Outcome, NoOutcome, Settled
<1>2. TypeOK'
  BY <1>1, Zenon DEF TypeOK
<1>3. ClaimsNotAhead' /\ CurrentVersionMeansUnchanged'
  BY <1>1 DEF ClaimsNotAhead, CurrentVersionMeansUnchanged
<1>4. OneOwnerPerVersion'
  BY <1>1 DEF OneOwnerPerVersion
<1>5. NotSentYet' /\ WithinLimit' /\ DeliveryIsBacked'
  BY <1>1, Zenon DEF NotSentYet, WithinLimit, DeliveryIsBacked, Unsent
<1>6. LeaseHeldWithoutFault'
  BY <1>1 DEF LeaseHeldWithoutFault, HoldsClaim, TypeOK
<1> QED BY <1>2, <1>3, <1>4, <1>5, <1>6, Zenon DEF RequestsNotAhead, DeliveredWasAccepted, AttemptBudget

\* ValidateNotificationDelivery goes on or ends the pass with nothing recorded.
LEMMA ValidateIInv ==
    ASSUME IInv, NEW w \in Worker, ValidateNotificationDelivery(w)
    PROVE  IInv'
<1> USE DEF ValidateNotificationDelivery, history, bounds, InFlight
<1>1. CASE Proceed(w, "validated") /\ UNCHANGED claim
  BY <1>1, ProceedIInv, Zenon DEF IInv, WithinLimit, Unsent
<1>2. CASE Proceed(w, "idle") /\ claim' = [claim EXCEPT ![w] = NoClaim]
  <2>1. faults' \in Nat /\ faults' >= faults
    BY DEF IInv, TypeOK
  <2> QED BY <1>2, <2>1, ReleaseIInv, Zenon DEF Proceed
<1> QED BY <1>1, <1>2, Zenon

\* Send records the request of a claim that had sent none, and decides to record
\* a delivery only with the acceptance in hand.
LEMMA SendIInv ==
    ASSUME IInv, NEW w \in Worker, Send(w)
    PROVE  IInv'
<1> USE DEF IInv, InFlight, Send, bounds
<1>1. claim[w] \in Claim
  BY HeldClaim, Zenon
<1>2. PICK s \in {"retrying"} \cup Settled, d \in Nat :
        Decide(w, s, d) /\ (s = "delivered" => claim[w] \in accepted')
  BY RetryType, TimingAssumption, Zenon DEF Settled
<1>3. /\ outcome' \in [Worker -> Outcome]
      /\ pc' \in [Worker -> {"idle", "claimed", "configured", "prepared", "validated", "finish"}]
      /\ pc'[w] = "finish" /\ outcome'[w].state = s
      /\ \A v \in Worker \ {w} : pc'[v] = pc[v] /\ outcome'[v] = outcome[v]
  BY <1>2, DecideType, Zenon
<1>4. accepted \subseteq accepted' /\ accepted' \subseteq accepted \cup {claim[w]}
  BY Zenon
<1>5. TypeOK'
  BY <1>1, <1>3, <1>4, Zenon DEF TypeOK
<1>6. ClaimsNotAhead' /\ CurrentVersionMeansUnchanged'
  BY <1>3, Zenon DEF ClaimsNotAhead, CurrentVersionMeansUnchanged
<1>7. RequestsNotAhead'
  BY Zenon DEF RequestsNotAhead, ClaimsNotAhead
<1>8. OneOwnerPerVersion'
  BY <1>3, Zenon DEF OneOwnerPerVersion
<1>9. NotSentYet'
  BY <1>3, Zenon DEF NotSentYet, Unsent, OneOwnerPerVersion
<1>10. WithinLimit' /\ AttemptBudget'
  BY <1>3, Zenon DEF WithinLimit, AttemptBudget
<1>11. DeliveryIsBacked' /\ DeliveredWasAccepted'
  BY <1>2, <1>3, <1>4, Zenon DEF DeliveryIsBacked, DeliveredWasAccepted
<1>12. LeaseHeldWithoutFault'
  BY <1>3, Zenon DEF LeaseHeldWithoutFault, HoldsClaim
<1> QED BY <1>5, <1>6, <1>7, <1>8, <1>9, <1>10, <1>11, <1>12, Zenon

\* A finishing pass that lost its claim just ends.  One that still holds it writes
\* its outcome; every other pass over the row has an older version.
LEMMA FinishIInv ==
    ASSUME IInv, NEW w \in Worker, FinishNotification(w)
    PROVE  IInv'
<1> USE DEF IInv, InFlight
<1>0. /\ pc[w] = "finish"
      /\ pc' = [pc EXCEPT ![w] = "idle"]
      /\ claim' = [claim EXCEPT ![w] = NoClaim]
      /\ outcome' = [outcome EXCEPT ![w] = NoOutcome]
      /\ UNCHANGED <<repository, sent, accepted, retries, faults>>
  BY Zenon DEF FinishNotification, history, bounds
<1>1. CASE UNCHANGED outbox
  <2>1. faults' \in Nat /\ faults' >= faults
    BY <1>0 DEF TypeOK
  <2> QED BY <1>0, <1>1, <2>1, ReleaseIInv, Zenon
<1>2. CASE /\ HoldsClaim(w)
           /\ outbox' = [outbox EXCEPT ![claim[w].job] = Finished(outbox[claim[w].job], outcome[w])]
  <2> DEFINE j == claim[w].job
             row == Finished(outbox[j], outcome[w])
  <2>1. claim[w] \in Claim /\ j \in Job /\ outbox[j] \in Row /\ outcome[w] \in Outcome
    BY <1>0, HeldClaim, Zenon DEF TypeOK, Claim
  <2>2. /\ row \in Row
        /\ row.version = outbox[j].version
        /\ row.state = outcome[w].state
        /\ row.destination = outbox[j].destination
        /\ row.state # "absent"
    BY <2>1, Zenon DEF Finished, Row, RowState, Outcome, Settled
  <2>3. /\ outbox' \in [Job -> Row]
        /\ outbox'[j] = row
        /\ \A k \in Job \ {j} : outbox'[k] = outbox[k]
    BY <1>2, <2>1, <2>2, Zenon DEF TypeOK
  <2>4. /\ outbox[j].version = claim[w].version
        /\ outbox[j].state = "running"
    BY <1>2, Zenon DEF HoldsClaim
  <2> HIDE DEF j, row
  <2>5. /\ pc' \in [Worker -> {"idle", "claimed", "configured", "prepared", "validated", "finish"}]
        /\ claim' \in [Worker -> Claim \cup {NoClaim}]
        /\ outcome' \in [Worker -> Outcome]
        /\ pc'[w] = "idle" /\ claim'[w] = NoClaim
        /\ \A v \in Worker \ {w} : pc'[v] = pc[v] /\ claim'[v] = claim[v] /\ outcome'[v] = outcome[v]
    BY <1>0, Zenon DEF TypeOK, Outcome, NoOutcome, Settled
  <2>6. TypeOK'
    <3>1. \A k \in Job : outbox'[k].state # "absent" => outbox'[k].destination \in Url
      BY <2>1, <2>2, <2>3, <2>4, Zenon DEF TypeOK
    <3>2. \A v \in Worker : claim'[v] = NoClaim <=> pc'[v] = "idle"
      BY <2>5, Zenon DEF TypeOK
    <3> QED BY <1>0, <2>3, <2>5, <3>1, <3>2, Zenon DEF TypeOK
  <2>7. \A v \in Worker \ {w} : pc[v] # "idle" /\ claim[v].job = j => claim[v].version # outbox[j].version
    BY <1>0, <2>4, Zenon DEF OneOwnerPerVersion, j
  <2>8. ClaimsNotAhead' /\ CurrentVersionMeansUnchanged'
    <3> SUFFICES ASSUME NEW v \in Worker, pc'[v] # "idle"
                 PROVE  /\ outbox'[claim'[v].job].state # "absent"
                        /\ claim'[v].version <= outbox'[claim'[v].job].version
                        /\ outbox'[claim'[v].job].version = claim'[v].version
                              => /\ outbox'[claim'[v].job].state = "running"
                                 /\ outbox'[claim'[v].job].attempts = claim'[v].attempts
                                 /\ outbox'[claim'[v].job].destination = claim'[v].destination
      BY Zenon DEF ClaimsNotAhead, CurrentVersionMeansUnchanged
    <3>1. v # w /\ claim'[v] = claim[v] /\ pc[v] # "idle" /\ claim[v].job \in Job
      BY <2>5, HeldFields, Zenon
    <3>2. CASE claim[v].job = j
      <4>1. claim[v].version <= outbox[j].version /\ claim[v].version # outbox[j].version
        BY <2>7, <3>1, <3>2, Zenon DEF ClaimsNotAhead
      <4> QED BY <2>2, <2>3, <3>1, <3>2, <4>1, Zenon
    <3>3. CASE claim[v].job # j
      <4>1. outbox'[claim'[v].job] = outbox[claim[v].job]
        BY <2>3, <3>1, <3>3, Zenon
      <4> QED BY <3>1, <4>1, Zenon DEF ClaimsNotAhead, CurrentVersionMeansUnchanged
    <3> QED BY <3>2, <3>3, Zenon
  <2>9. RequestsNotAhead'
    BY <1>0, <2>2, <2>3, SentFields, Zenon DEF RequestsNotAhead
  <2>10. OneOwnerPerVersion'
    BY <2>5 DEF OneOwnerPerVersion
  <2>11. NotSentYet' /\ WithinLimit' /\ DeliveryIsBacked'
    BY <1>0, <2>5, Zenon DEF NotSentYet, WithinLimit, DeliveryIsBacked, Unsent
  <2>12. DeliveredWasAccepted'
    <3>1. row.state = "delivered" => claim[w] \in accepted
      BY <1>0, <2>2, Zenon DEF DeliveryIsBacked
    <3>2. claim[w].job = j /\ claim[w].version = row.version
      BY <2>2, <2>4, Zenon DEF j
    <3> SUFFICES ASSUME NEW k \in Job, outbox'[k].state = "delivered"
                 PROVE  \E c \in accepted : c.job = k /\ c.version = outbox'[k].version
      BY <1>0, Zenon DEF DeliveredWasAccepted
    <3>3. CASE k = j
      BY <2>3, <3>1, <3>2, <3>3, Zenon
    <3>4. CASE k # j
      <4>1. outbox'[k] = outbox[k]
        BY <2>3, <3>4, Zenon
      <4> QED BY <1>0, <4>1 DEF DeliveredWasAccepted
    <3> QED BY <3>3, <3>4, Zenon
  <2>13. LeaseHeldWithoutFault'
    <3> SUFFICES ASSUME faults' = 0, NEW v \in Worker, pc'[v] # "idle"
                 PROVE  HoldsClaim(v)'
      BY Zenon DEF LeaseHeldWithoutFault
    <3>1. v # w /\ claim'[v] = claim[v] /\ pc[v] # "idle" /\ claim[v].job \in Job
      BY <2>5, HeldFields, Zenon
    <3>2. HoldsClaim(v)
      BY <1>0, <3>1, Zenon DEF LeaseHeldWithoutFault
    <3>3. claim[v].job # j
      BY <2>7, <3>1, <3>2, Zenon DEF HoldsClaim
    <3>4. outbox'[claim'[v].job] = outbox[claim[v].job]
      BY <2>3, <3>1, <3>3, Zenon
    <3> QED BY <3>1, <3>2, <3>4, Zenon DEF HoldsClaim
  <2> QED BY <2>6, <2>8, <2>9, <2>10, <2>11, <2>12, <2>13, <1>0, Zenon DEF AttemptBudget
<1> QED BY <1>1, <1>2, Zenon DEF FinishNotification

-----------------------------------------------------------------------------
(* The environment. *)

\* A pass that dies leaves the row as it is and counts as a fault.
LEMMA AbandonIInv ==
    ASSUME IInv, NEW w \in Worker, Abandon(w)
    PROVE  IInv'
<1>1. faults' \in Nat /\ faults' >= faults
  BY DEF IInv, TypeOK, Abandon
<1> QED BY <1>1, ReleaseIInv, Zenon DEF Abandon, history

\* Time moves the deadlines only; a live lease that runs out counts as a fault.
LEMMA TickIInv ==
    ASSUME IInv, Tick
    PROVE  IInv'
<1>1. /\ outbox' = [j \in Job |-> Aged(outbox[j])]
      /\ UNCHANGED <<repository, pc, claim, outcome, sent, accepted, retries>>
      /\ TypeOK
  BY Zenon DEF Tick, workers, history, IInv
<1>2. \A j \in Job : outbox[j] \in Row
  BY <1>1, Zenon DEF TypeOK
<1>3. \A j \in Job : /\ outbox'[j] \in Row
                     /\ outbox'[j].state = outbox[j].state
                     /\ outbox'[j].version = outbox[j].version
                     /\ outbox'[j].attempts = outbox[j].attempts
                     /\ outbox'[j].destination = outbox[j].destination
                     /\ outbox[j].lease > 1 => outbox'[j].lease > 0
  BY <1>1, <1>2, AgedFields, Zenon
<1>4. outbox' \in [Job -> Row]
  BY <1>1, <1>3, Zenon
<1>5. TypeOK'
  <2>1. faults' \in Nat
    BY <1>1 DEF Tick, TypeOK
  <2> QED BY <1>1, <1>3, <1>4, <2>1, Zenon DEF TypeOK
<1>6. ClaimsNotAhead'
  BY <1>1, <1>3, HeldFields, Zenon DEF IInv, ClaimsNotAhead, InFlight
<1>7. CurrentVersionMeansUnchanged'
  <2> SUFFICES ASSUME NEW w \in Worker, pc[w] # "idle",
                      outbox'[claim[w].job].version = claim[w].version
               PROVE  /\ outbox'[claim[w].job].state = "running"
                      /\ outbox'[claim[w].job].attempts = claim[w].attempts
                      /\ outbox'[claim[w].job].destination = claim[w].destination
    BY <1>1, Zenon DEF CurrentVersionMeansUnchanged, InFlight
  <2>1. claim[w].job \in Job
    BY <1>1, HeldFields, Zenon
  <2> QED BY <1>3, <2>1 DEF IInv, CurrentVersionMeansUnchanged, InFlight
<1>8. RequestsNotAhead'
  BY <1>1, <1>3, SentFields, Zenon DEF IInv, RequestsNotAhead
<1>9. DeliveredWasAccepted'
  BY <1>1, <1>3 DEF IInv, DeliveredWasAccepted
<1>10. LeaseHeldWithoutFault'
  <2> SUFFICES ASSUME faults' = 0, NEW w \in Worker, pc[w] # "idle"
               PROVE  HoldsClaim(w)'
    BY <1>1, Zenon DEF LeaseHeldWithoutFault, InFlight
  <2>1. faults = 0 /\ ~\E j \in Job : Stalled(j)
    BY <1>1 DEF Tick, TypeOK
  <2>2. claim[w].job \in Job /\ HoldsClaim(w)
    BY <1>1, <2>1, HeldFields, Zenon DEF IInv, LeaseHeldWithoutFault, InFlight
  <2>3. outbox[claim[w].job].lease > 1
    <3>1. outbox[claim[w].job].lease \in Nat /\ outbox[claim[w].job].lease > 0
      BY <1>2, <2>2, Zenon DEF Row, HoldsClaim
    <3>2. outbox[claim[w].job].lease # 1
      BY <2>1, <2>2, Zenon DEF Stalled
    <3> QED BY <3>1, <3>2
  <2> QED BY <1>1, <1>3, <2>2, <2>3, Zenon DEF HoldsClaim
<1>11. /\ OneOwnerPerVersion' /\ NotSentYet' /\ WithinLimit'
       /\ DeliveryIsBacked' /\ AttemptBudget'
  BY <1>1, Zenon DEF IInv, OneOwnerPerVersion, NotSentYet, WithinLimit, DeliveryIsBacked,
              AttemptBudget, InFlight
<1> QED BY <1>5, <1>6, <1>7, <1>8, <1>9, <1>10, <1>11, Zenon DEF IInv

-----------------------------------------------------------------------------
(* The results. *)

\* A stuttering step keeps the invariant.
LEMMA StutterIInv == IInv /\ UNCHANGED vars => IInv'
<1> SUFFICES ASSUME IInv, UNCHANGED vars
             PROVE  IInv'
  BY Zenon
<1> USE DEF vars, IInv
<1>1. TypeOK'
  BY Zenon DEF TypeOK
<1>2. ClaimsNotAhead' /\ RequestsNotAhead'
  BY Zenon DEF ClaimsNotAhead, RequestsNotAhead, InFlight
<1>3. OneOwnerPerVersion' /\ CurrentVersionMeansUnchanged'
  BY Zenon DEF OneOwnerPerVersion, CurrentVersionMeansUnchanged, InFlight
<1>4. NotSentYet' /\ WithinLimit' /\ DeliveryIsBacked'
  BY Zenon DEF NotSentYet, WithinLimit, DeliveryIsBacked
<1>5. DeliveredWasAccepted' /\ AttemptBudget'
  BY Zenon DEF DeliveredWasAccepted, AttemptBudget
<1>6. LeaseHeldWithoutFault'
  BY Zenon DEF LeaseHeldWithoutFault, InFlight, HoldsClaim
<1> QED BY <1>1, <1>2, <1>3, <1>4, <1>5, <1>6, Zenon

\* Every step keeps the invariant.
LEMMA NextIInv == IInv /\ [Next]_vars => IInv'
  BY Zenon, EnqueueIInv, SettingsIInv, RetryIInv, ClaimIInv, CheckIInv, PrepareIInv, ValidateIInv,
     SendIInv, FinishIInv, AbandonIInv, TickIInv, StutterIInv DEF Next, Step

\* The inductive invariant holds throughout every behaviour of the outbox.
THEOREM Invariance == Spec => []IInv
  BY InitIInv, NextIInv, PTL DEF Spec

\* Every variable keeps its type, whatever order the passes of the workers take.
THEOREM TypeCorrect == Spec => []TypeOK
<1>1. IInv => TypeOK
  BY Zenon DEF IInv
<1> QED BY <1>1, Invariance, PTL

\* A version identifies one pass: no two workers hold a claim of one row at the
\* same version, so the guard on the version in FinishNotification is enough.
THEOREM VersionFence == Spec => []OneOwnerPerVersion
<1>1. IInv => OneOwnerPerVersion
  BY Zenon DEF IInv
<1> QED BY <1>1, Invariance, PTL

\* A pass whose version is still current sees the row it claimed, so what it
\* validated is what it settles.
THEOREM VersionFresh == Spec => []CurrentVersionMeansUnchanged
<1>1. IInv => CurrentVersionMeansUnchanged
  BY Zenon DEF IInv
<1> QED BY <1>1, Invariance, PTL

\* A row is recorded as delivered only after the receiver accepted the request of
\* the claim that recorded it.
THEOREM DeliveryBacked == Spec => []DeliveredWasAccepted
<1>1. IInv => DeliveredWasAccepted
  BY Zenon DEF IInv
<1> QED BY <1>1, Invariance, PTL

\* No request is ever sent beyond the attempt limit.
THEOREM BudgetKept == Spec => []AttemptBudget
<1>1. IInv => AttemptBudget
  BY Zenon DEF IInv
<1> QED BY <1>1, Invariance, PTL

\* Passes overlap on a row only after a fault.
THEOREM LeaseSeparates == Spec => []OverlapNeedsFault
<1>1. IInv => OverlapNeedsFault
  <2> SUFFICES ASSUME IInv, NEW v \in Worker, NEW w \in Worker, v # w, InFlight(v), InFlight(w),
                      claim[v].job = claim[w].job, ~(faults > 0)
               PROVE  FALSE
    BY Zenon DEF OverlapNeedsFault
  <2>1. faults = 0
    BY DEF IInv, TypeOK
  <2>2. HoldsClaim(v) /\ HoldsClaim(w)
    BY <2>1, Zenon DEF IInv, LeaseHeldWithoutFault
  <2> QED BY <2>2, Zenon DEF IInv, OneOwnerPerVersion, HoldsClaim
<1> QED BY <1>1, Invariance, PTL

\* Each claim hands at most one request to the network.
THEOREM SendsOnce == Spec => ClaimSendsOnce
<1>1. IInv => [\A w \in Worker : pc[w] = "validated" /\ pc'[w] = "finish" => claim[w] \notin sent]_vars
  BY Zenon DEF IInv, NotSentYet, Unsent
<1> QED BY <1>1, Invariance, PTL DEF ClaimSendsOnce

\* What a step does to a row that is already delivered: nothing but let time pass.
LEMMA DeliveredStep ==
    ASSUME IInv, [Next]_vars, NEW j \in Job, outbox[j].state = "delivered"
    PROVE  outbox'[j].state = "delivered" /\ outbox'[j].version = outbox[j].version
<1> USE DEF IInv
<1>1. ASSUME NEW k \in Job, EnqueueNotification(k) \/ RetryNotification(k)
      PROVE  outbox'[j] = outbox[j]
  BY <1>1, Zenon DEF EnqueueNotification, RetryNotification, Replayable, TypeOK
<1>2. ASSUME NEW w \in Worker, NEW k \in Job, ClaimNotification(w, k)
      PROVE  outbox'[j] = outbox[j]
  BY <1>2, Zenon DEF ClaimNotification, Claimable, TypeOK
<1>3. ASSUME NEW w \in Worker, FinishNotification(w)
      PROVE  outbox'[j] = outbox[j]
  BY <1>3, HeldClaim, Zenon DEF FinishNotification, HoldsClaim, TypeOK, Claim
<1>4. ASSUME NEW w \in Worker, \/ CheckConfiguration(w) \/ Prepare(w) \/ Send(w)
                               \/ ValidateNotificationDelivery(w) \/ Abandon(w)
      PROVE  outbox' = outbox
  BY <1>4, Zenon DEF CheckConfiguration, Prepare, Send, ValidateNotificationDelivery, Abandon
<1>5. CASE Tick
  BY <1>5, Zenon DEF Tick, Aged
<1>6. CASE UpdateRepositorySettings \/ UNCHANGED vars
  BY <1>6, Zenon DEF UpdateRepositorySettings, vars
<1> QED BY <1>1, <1>2, <1>3, <1>4, <1>5, <1>6, Zenon DEF Next, Step

\* Once delivered, a row is never claimed, finished or retried again.
THEOREM DeliveredForGood == Spec => DeliveredIsFinal
<1>1. IInv /\ [Next]_vars => [\A j \in Job : outbox[j].state = "delivered" =>
            outbox'[j].state = "delivered" /\ outbox'[j].version = outbox[j].version]_vars
  BY DeliveredStep, Zenon
<1> QED BY <1>1, Invariance, PTL DEF Spec, DeliveredIsFinal

-----------------------------------------------------------------------------
(* The outbox implements the safety part of the at-least-once contract. *)

\* The initial states of the outbox are initial states of the contract.
LEMMA ContractInit == Init => Contract!Init
<1> SUFFICES ASSUME Init
             PROVE  Contract!Init
  BY Zenon
<1>1. \A j \in Job : PhaseOf(outbox[j]) = "absent"
  BY Zenon DEF Init, PhaseOf
<1>2. {c.job : c \in accepted} = {}
  BY Zenon DEF Init
<1> HIDE DEF PhaseOf
<1> QED BY <1>1, <1>2, Zenon DEF Contract!Init

\* A step that changes neither the phase of a row nor what was accepted is a
\* stuttering step of the contract.
LEMMA ContractStutter ==
    ASSUME IInv, \A j \in Job : PhaseOf(outbox'[j]) = PhaseOf(outbox[j]), UNCHANGED accepted
    PROVE  UNCHANGED Contract!vars
  BY Zenon DEF Contract!vars

\* A step that moves one row from one phase to another.
LEMMA ContractMove ==
    ASSUME IInv, NEW j \in Job, NEW row,
           outbox' = [outbox EXCEPT ![j] = row], UNCHANGED accepted
    PROVE  Contract!Move(j, PhaseOf(outbox[j]), PhaseOf(row))
<1> DEFINE f == [k \in Job |-> PhaseOf(outbox[k])]
<1>1. outbox \in [Job -> Row]
  BY Zenon DEF IInv, TypeOK
<1>2. outbox'[j] = row /\ \A k \in Job \ {j} : outbox'[k] = outbox[k]
  BY <1>1, Zenon
<1>3. [k \in Job |-> PhaseOf(outbox'[k])] = [f EXCEPT ![j] = PhaseOf(row)]
  <2>1. \A k \in Job : PhaseOf(outbox'[k]) = IF k = j THEN PhaseOf(row) ELSE f[k]
    BY <1>2
  <2>2. [f EXCEPT ![j] = PhaseOf(row)] = [k \in Job |-> IF k = j THEN PhaseOf(row) ELSE f[k]]
    BY Zenon
  <2> HIDE DEF f
  <2> QED BY <2>1, <2>2, Zenon
<1> QED BY <1>3, Zenon DEF Contract!Move

\* Every step of the outbox is a step of the contract or leaves it alone.
LEMMA ContractStep ==
    ASSUME IInv, [Next]_vars
    PROVE  [Contract!Next]_(Contract!vars)
<1> USE DEF IInv
<1>1. ASSUME NEW j \in Job, EnqueueNotification(j)
      PROVE  Contract!Next
  <2>1. PhaseOf(outbox[j]) = "absent"
    BY <1>1, Zenon DEF EnqueueNotification, PhaseOf
  <2> DEFINE row == [state |-> "pending", destination |-> repository.webhook,
                     version |-> 0, attempts |-> 0, wait |-> 0, lease |-> 0]
  <2>2. PhaseOf(row) = "open"
    BY Zenon DEF PhaseOf
  <2> HIDE DEF row
  <2>3. outbox' = [outbox EXCEPT ![j] = row] /\ UNCHANGED accepted
    BY <1>1, Zenon DEF EnqueueNotification, history, row
  <2> QED BY <2>1, <2>2, <2>3, ContractMove, Zenon DEF Contract!Next, Contract!Publish
<1>2. ASSUME NEW j \in Job, RetryNotification(j)
      PROVE  Contract!Next \/ UNCHANGED Contract!vars
  <2>1. outbox' = [outbox EXCEPT ![j] = Retried(outbox[j])] /\ UNCHANGED accepted
    BY <1>2, Zenon DEF RetryNotification, history
  <2>2. PhaseOf(Retried(outbox[j])) = "open"
    BY Zenon DEF PhaseOf, Retried
  <2>3. CASE outbox[j].state = "attention"
    BY <2>1, <2>2, <2>3, ContractMove, Zenon DEF PhaseOf, Contract!Next, Contract!Reopen
  <2>4. CASE outbox[j].state # "attention"
    <3>1. PhaseOf(outbox[j]) = "open"
      BY <1>2, <2>4, Zenon DEF RetryNotification, Replayable, PhaseOf
    <3>2. \A k \in Job : PhaseOf(outbox'[k]) = PhaseOf(outbox[k])
      BY <2>1, <2>2, <3>1, Zenon DEF TypeOK
    <3> QED BY <2>1, <3>2, ContractStutter, Zenon
  <2> QED BY <2>3, <2>4, Zenon
<1>3. ASSUME NEW w \in Worker, NEW j \in Job, ClaimNotification(w, j)
      PROVE  UNCHANGED Contract!vars
  <2>1. PhaseOf(outbox[j]) = "open" /\ PhaseOf(Claimed(outbox[j])) = "open"
    BY <1>3, Zenon DEF ClaimNotification, Claimable, Claimed, PhaseOf
  <2>2. \A k \in Job : PhaseOf(outbox'[k]) = PhaseOf(outbox[k])
    BY <1>3, <2>1, Zenon DEF ClaimNotification, TypeOK
  <2> QED BY <1>3, <2>2, ContractStutter, Zenon DEF ClaimNotification, history
<1>4. ASSUME NEW w \in Worker, Send(w)
      PROVE  Contract!Next \/ UNCHANGED Contract!vars
  <2>1. claim[w] \in Claim /\ claim[w].job \in Job /\ outbox[claim[w].job].state # "absent"
    BY <1>4, HeldClaim, Zenon DEF Send, ClaimsNotAhead, InFlight, Claim
  <2>2. outbox' = outbox /\ accepted' \in {accepted, accepted \cup {claim[w]}}
    BY <1>4, Zenon DEF Send
  <2>3. CASE accepted' = accepted
    BY <2>2, <2>3, ContractStutter, Zenon
  <2>4. CASE accepted' = accepted \cup {claim[w]}
    <3>1. {c.job : c \in accepted'} = {c.job : c \in accepted} \cup {claim[w].job}
      BY <2>4, Zenon
    <3>2. PhaseOf(outbox[claim[w].job]) # "absent"
      BY <2>1, Zenon DEF PhaseOf
    <3> DEFINE j == claim[w].job
    <3>3. j \in Job /\ Contract!Accept(j)
      BY <2>1, <2>2, <3>1, <3>2, Zenon DEF Contract!Accept
    <3> HIDE DEF j
    <3>4. Contract!Next
      BY <3>3, Zenon DEF Contract!Next, Contract!Accept
    <3> QED BY <3>4, Zenon
  <2> QED BY <2>2, <2>3, <2>4, Zenon
<1>5. ASSUME NEW w \in Worker, FinishNotification(w)
      PROVE  Contract!Next \/ UNCHANGED Contract!vars
  <2> DEFINE j == claim[w].job
             row == Finished(outbox[j], outcome[w])
  <2>1. CASE UNCHANGED outbox
    BY <1>5, <2>1, ContractStutter, Zenon DEF FinishNotification, history
  <2>2. CASE HoldsClaim(w) /\ outbox' = [outbox EXCEPT ![j] = row]
    <3>1. j \in Job /\ outcome[w] \in Outcome /\ pc[w] = "finish" /\ UNCHANGED accepted
      BY <1>5, HeldClaim, Zenon DEF FinishNotification, Claim, TypeOK, history
    <3>2. PhaseOf(outbox[j]) = "open"
      BY <2>2, Zenon DEF HoldsClaim, PhaseOf
    <3>3. CASE outcome[w].state = "delivered"
      <4>1. PhaseOf(row) = "delivered" /\ j \in {c.job : c \in accepted}
        BY <3>1, <3>3, Zenon DEF PhaseOf, Finished, DeliveryIsBacked
      <4> HIDE DEF row
      <4> QED BY <2>2, <3>1, <3>2, <4>1, ContractMove, Zenon
              DEF Contract!Next, Contract!Settle, Contract!Deliver
    <3>4. CASE outcome[w].state = "attention"
      <4>1. PhaseOf(row) = "attention"
        BY <3>4, Zenon DEF PhaseOf, Finished
      <4> HIDE DEF row
      <4> QED BY <2>2, <3>1, <3>2, <4>1, ContractMove, Zenon
              DEF Contract!Next, Contract!Settle, Contract!GiveUp
    <3>5. CASE outcome[w].state = "retrying"
      <4>1. PhaseOf(row) = "open"
        BY <3>5, Zenon DEF PhaseOf, Finished
      <4>2. \A k \in Job : PhaseOf(outbox'[k]) = PhaseOf(outbox[k])
        BY <2>2, <3>1, <3>2, <4>1, Zenon DEF TypeOK
      <4> QED BY <3>1, <4>2, ContractStutter, Zenon
    <3> QED BY <3>1, <3>3, <3>4, <3>5, Zenon DEF Outcome, Settled
  <2> QED BY <1>5, <2>1, <2>2, Zenon DEF FinishNotification
<1>6. ASSUME NEW w \in Worker, \/ CheckConfiguration(w) \/ Prepare(w)
                               \/ ValidateNotificationDelivery(w) \/ Abandon(w)
      PROVE  UNCHANGED Contract!vars
  BY <1>6, ContractStutter, Zenon DEF CheckConfiguration, Prepare, ValidateNotificationDelivery, Abandon, history
<1>7. CASE Tick
  <2>1. \A k \in Job : PhaseOf(outbox'[k]) = PhaseOf(outbox[k])
    BY <1>7, Zenon DEF Tick, Aged, PhaseOf
  <2> QED BY <1>7, <2>1, ContractStutter, Zenon DEF Tick, history
<1>8. CASE UpdateRepositorySettings \/ UNCHANGED vars
  BY <1>8, ContractStutter, Zenon DEF UpdateRepositorySettings, vars, history
<1> QED BY <1>1, <1>2, <1>3, <1>4, <1>5, <1>6, <1>7, <1>8, Zenon DEF Next, Step

\* Every behaviour of the outbox is, row by row, one the contract allows.
THEOREM ImplementsContract == Spec => Contract!Safety
  BY ContractInit, ContractStep, Invariance, PTL DEF Spec, Contract!Safety

-----------------------------------------------------------------------------
(***************************************************************************)
(* Proofs about InvitationEmail, for every set of invitations and workers  *)
(* and all delays that satisfy the assumptions of that module.             *)
(*                                                                         *)
(* That an invitation is mailed once is not inductive.  What makes it true *)
(* is a race between two ages: the provider's key must not be older than   *)
(* the window in which attempts begin plus the time a request may take.    *)
(* KeyFresh says that while attempts may begin the key is no older than    *)
(* the first attempt, InTime that a request under way carries the age it   *)
(* was claimed at.                                                         *)
(***************************************************************************)


\* A request for i that was claimed when the first attempt had the given age
\* and has been under way since.
InTime(i, age, since) ==
    /\ age < Window /\ since <= Stall
    /\ mail[i].attempts > 0
    /\ mailed[i] > 0 => key[i] <= age + since

Once == \A i \in Invite : mailed[i] <= 1 /\ (mailed[i] = 0 => key[i] = Retention)

Begun ==
    \A i \in Invite :
        /\ invite[i].status = "none" => mail[i].state = "none"
        /\ mail[i].state = "none" => mail[i].attempts = 0
        /\ mail[i].attempts = 0 => mailed[i] = 0

KeyFresh ==
    \A i \in Invite :
        mail[i].state \in Unsettled /\ mail[i].age < Window /\ mailed[i] > 0
            => key[i] <= mail[i].age

RequestsInTime ==
    /\ \A w \in Mailer : Sending(w) => InTime(job[w].invite, job[w].age, job[w].since)
    /\ \A r \in floating : InTime(r.invite, r.age, r.since)

Earned == \A w \in Mailer : job[w].pc = "ok" => mailed[job[w].invite] > 0

MailInv == MailTypeOK /\ Once /\ Begun /\ KeyFresh /\ RequestsInTime /\ Earned

-----------------------------------------------------------------------------
(* Types.                                                                  *)

\* A worker that is doing something works for an invitation.
LEMMA JobTyped ==
    ASSUME MailTypeOK, NEW w \in Mailer, job[w].pc # "idle"
    PROVE  job[w] \in MailJob
  BY DEF MailTypeOK, Idle, MailJob

\* The two bounds lie between their arguments.
LEMMA Bounds ==
    ASSUME NEW m \in Int, NEW n \in Int
    PROVE  /\ Least(m, n) \in Int /\ Least(m, n) <= m /\ Least(m, n) <= n
           /\ Least(m, n) = m \/ Least(m, n) = n
           /\ Most(m, n) \in Int /\ Most(m, n) >= m /\ Most(m, n) >= n
           /\ Most(m, n) = m \/ Most(m, n) = n
  BY DEF Least, Most

\* The constants are numbers, in the order the assumptions demand.
LEMMA Numbers ==
    /\ Lifetime \in Nat /\ MailLease \in Nat /\ SendTime \in Nat /\ Window \in Nat
    /\ MaxMailAttempts \in Nat /\ Stall \in Nat /\ Retention \in Nat
    /\ Stall < Window /\ Window + Stall <= Retention
  BY DelayAssumption, RetentionAssumption, Zenon

\* The types of the initial state.
LEMMA TypeInit == MailInit => MailTypeOK
  BY Numbers DEF MailInit, MailTypeOK, InvitationMail, Unsettled

\* What the provider does keeps the types of its variables.
LEMMA ProvideTyped ==
    ASSUME MailTypeOK, NEW i \in Invite, Provide(i)
    PROVE  key' \in [Invite -> 0..Retention] /\ mailed' \in [Invite -> Nat]
  BY Numbers DEF MailTypeOK, Provide

\* A recorded outcome is a row of the outbox.
LEMMA OutcomeTyped ==
    ASSUME MailTypeOK, NEW w \in Mailer, job[w].pc # "idle", NEW asked \in MailRetryAfter
    PROVE  MailOutcome(w, asked) \in InvitationMail
<1> DEFINE j == job[w]
           m == mail[j.invite]
           delay == SendTime + Most(MailBackoff(j.attempts), asked)
<1>1. j \in MailJob /\ j.invite \in Invite /\ j.attempts \in 1..MaxMailAttempts /\ j.since \in Nat
  BY JobTyped, Numbers DEF MailJob
<1>2. m \in InvitationMail
  BY <1>1, Zenon DEF MailTypeOK
<1>3. Most(MailBackoff(j.attempts), asked) \in Nat
  <2>1. MailBackoff(j.attempts) \in Nat /\ asked \in Nat
    BY <1>1, DelayAssumption, Zenon
  <2> QED BY <2>1, Zenon DEF Most
<1>4. delay \in Nat
  BY <1>3, Numbers
<1>5. Most(0, delay - j.since) \in Nat
  BY <1>1, <1>4 DEF Most
<1>6. \A st \in Unsettled \cup MailSettled : \A k \in Nat :
        [m EXCEPT !.state = st, !.wait = k] \in InvitationMail
  BY <1>2, Zenon DEF InvitationMail
<1>7. MailOutcome(w, asked) \in {Settle(m, "accepted"), Settle(m, "attention"),
                             [m EXCEPT !.state = "retrying", !.wait = Most(0, delay - j.since)]}
  BY Zenon DEF MailOutcome
<1>8. Settle(m, "accepted") \in InvitationMail /\ Settle(m, "attention") \in InvitationMail
  <2>1. 0 \in 0..Window
    BY Numbers
  <2> QED BY <1>2, <2>1, Zenon DEF Settle, InvitationMail, MailSettled
<1>9. [m EXCEPT !.state = "retrying", !.wait = Most(0, delay - j.since)] \in InvitationMail
  BY <1>5, <1>6, Zenon DEF Unsettled
<1> QED BY <1>7, <1>8, <1>9, Zenon

\* Every step keeps the types.
LEMMA TypeStep == MailTypeOK /\ [MailNext]_mailVars => MailTypeOK'
<1> SUFFICES ASSUME MailTypeOK, [MailNext]_mailVars PROVE MailTypeOK'
  BY Zenon
<1> USE Numbers
<1>1. ASSUME NEW i \in Invite, Create(i) PROVE MailTypeOK'
  BY <1>1 DEF Create, MailTypeOK, Fresh, Queued, InvitationMail, Unsettled
<1>2. ASSUME NEW i \in Invite, Accept(i) \/ Withdraw(i) PROVE MailTypeOK'
  BY <1>2 DEF Accept, Withdraw, MailTypeOK, Decided
<1>3. ASSUME NEW i \in Invite, NEW j \in Invite, Resend(i, j) PROVE MailTypeOK'
  BY <1>3 DEF Resend, MailTypeOK, Fresh, Decided, Queued, InvitationMail, Unsettled
<1>4. CASE ChangeAuthority
  BY <1>4, Zenon DEF ChangeAuthority, MailTypeOK
<1>5. ASSUME NEW w \in Mailer, NEW i \in Invite, ClaimMail(w, i) PROVE MailTypeOK'
  <2>1. mail[i] \in InvitationMail
    BY Zenon DEF MailTypeOK
  <2>2. \A st \in MailSettled : Settle(mail[i], st) \in InvitationMail
    <3>1. 0 \in 0..Window
      OBVIOUS
    <3> QED BY <2>1, <3>1, Zenon DEF Settle, InvitationMail
  <2>3. ~Exhausted(i) => /\ Begin(i) \in InvitationMail
                         /\ [pc |-> "claimed", invite |-> i, attempts |-> Begin(i).attempts,
                             age |-> Begin(i).age, since |-> 0] \in MailJob
    BY <2>1 DEF Exhausted, Begin, InvitationMail, MailJob, Unsettled
  <2>4. mail' \in [Invite -> InvitationMail] /\ job' \in [Mailer -> MailJob \cup {Idle}]
    BY <1>5, <2>2, <2>3, Zenon DEF ClaimMail, MailTypeOK, MailSettled
  <2> QED BY <1>5, <2>4, Zenon DEF ClaimMail, MailTypeOK
<1>6. ASSUME NEW w \in Mailer, SendArrives(w) PROVE MailTypeOK'
  <2>1. job[w] \in MailJob /\ job[w].invite \in Invite
    BY <1>6, JobTyped, Zenon DEF SendArrives, Sending, MailJob
  <2>2. key' \in [Invite -> 0..Retention] /\ mailed' \in [Invite -> Nat]
    BY <1>6, <2>1, ProvideTyped, Zenon DEF SendArrives
  <2>3. job' \in [Mailer -> MailJob \cup {Idle}]
    BY <1>6, <2>1 DEF SendArrives, Answer, MailJob, MailTypeOK
  <2> QED BY <1>6, <2>2, <2>3, Zenon DEF SendArrives, MailTypeOK
<1>7. ASSUME NEW w \in Mailer, SendRefused(w) PROVE MailTypeOK'
  <2>1. job[w] \in MailJob
    BY <1>7, JobTyped, Zenon DEF SendRefused, Sending
  <2> QED BY <1>7, <2>1 DEF SendRefused, Answer, MailJob, MailTypeOK
<1>8. ASSUME NEW w \in Mailer, SendTimesOut(w) PROVE MailTypeOK'
  <2>1. job[w] \in MailJob /\ job[w].since <= Stall
    BY <1>8, JobTyped, Zenon DEF SendTimesOut, Sending
  <2>2. [invite |-> job[w].invite, age |-> job[w].age, since |-> job[w].since] \in Request
    BY <2>1 DEF MailJob, Request
  <2>3. job' \in [Mailer -> MailJob \cup {Idle}]
    BY <1>8, <2>1, Zenon DEF SendTimesOut, Answer, MailJob, MailTypeOK
  <2> QED BY <1>8, <2>2, <2>3, Zenon DEF SendTimesOut, MailTypeOK
<1>9. ASSUME NEW r \in floating, ArriveLate(r) PROVE MailTypeOK'
  <2>1. r.invite \in Invite
    BY Zenon DEF MailTypeOK, Request
  <2> QED BY <1>9, <2>1, ProvideTyped, Zenon DEF ArriveLate, MailTypeOK
<1>10. ASSUME NEW r \in floating, LoseLate(r) PROVE MailTypeOK'
  BY <1>10, Zenon DEF LoseLate, MailTypeOK
<1>11. ASSUME NEW w \in Mailer, Finish(w) PROVE MailTypeOK'
  <2>1. job[w] \in MailJob /\ job[w].pc # "idle" /\ job[w].invite \in Invite
    BY <1>11, JobTyped, Zenon DEF Finish, MailJob
  <2>2. mail' \in [Invite -> InvitationMail]
    BY <1>11, <2>1, OutcomeTyped DEF Finish, MailTypeOK
  <2> QED BY <1>11, <2>2, Zenon DEF Finish, MailTypeOK
<1>12. ASSUME NEW w \in Mailer, Crash(w) PROVE MailTypeOK'
  BY <1>12, Zenon DEF Crash, MailTypeOK
<1>13. CASE MailTick
  <2>1. invite' \in [Invite -> [status : {"none", "pending", "accepted", "revoked"}, left : 0..Lifetime]]
    <3>1. ASSUME NEW i \in Invite
          PROVE  [invite[i] EXCEPT !.left = Most(0, @ - 1)]
                     \in [status : {"none", "pending", "accepted", "revoked"}, left : 0..Lifetime]
      <4>1. invite[i] \in [status : {"none", "pending", "accepted", "revoked"}, left : 0..Lifetime]
        BY Zenon DEF MailTypeOK
      <4>2. Most(0, invite[i].left - 1) \in 0..Lifetime
        BY <4>1 DEF Most
      <4> QED BY <4>1, <4>2, Zenon
    <3> QED BY <1>13, <3>1, Zenon DEF MailTick
  <2>2. mail' \in [Invite -> InvitationMail]
    <3>1. ASSUME NEW i \in Invite
          PROVE  [mail[i] EXCEPT !.wait = Most(0, @ - 1), !.age = Least(Window, @ + 1)] \in InvitationMail
      <4>1. mail[i] \in InvitationMail
        BY Zenon DEF MailTypeOK
      <4>2. Most(0, mail[i].wait - 1) \in Nat /\ Least(Window, mail[i].age + 1) \in 0..Window
        BY <4>1 DEF Most, Least, InvitationMail
      <4> QED BY <4>1, <4>2, Zenon DEF InvitationMail
    <3>2. \A i \in Invite : mail[i] \in InvitationMail
      BY Zenon DEF MailTypeOK
    <3> QED BY <1>13, <3>1, <3>2, Zenon DEF MailTick
  <2>3. job' \in [Mailer -> MailJob \cup {Idle}]
    <3>1. ASSUME NEW w \in Mailer, job[w] # Idle
          PROVE  [job[w] EXCEPT !.since = Least(Window, @ + 1)] \in MailJob
      <4>1. job[w] \in MailJob
        BY <3>1, Zenon DEF MailTypeOK
      <4>2. Least(Window, job[w].since + 1) \in 0..Window
        BY <4>1 DEF Least, MailJob
      <4> QED BY <4>1, <4>2, Zenon DEF MailJob
    <3> QED BY <1>13, <3>1, Zenon DEF MailTick
  <2>4. floating' \subseteq Request
    <3>1. ASSUME NEW r \in floating, r.since < Stall
          PROVE  [r EXCEPT !.since = @ + 1] \in Request
      <4>1. r \in Request
        BY Zenon DEF MailTypeOK
      <4> QED BY <3>1, <4>1 DEF Request
    <3> QED BY <1>13, <3>1, Zenon DEF MailTick
  <2>5. key' \in [Invite -> 0..Retention]
    <3>1. ASSUME NEW i \in Invite PROVE Least(Retention, key[i] + 1) \in 0..Retention
      <4>1. key[i] \in 0..Retention
        BY Zenon DEF MailTypeOK
      <4> QED BY <4>1 DEF Least
    <3> QED BY <1>13, <3>1, Zenon DEF MailTick
  <2> QED BY <1>13, <2>1, <2>2, <2>3, <2>4, <2>5, Zenon DEF MailTick, MailTypeOK
<1>14. CASE UNCHANGED mailVars
  BY <1>14, Zenon DEF mailVars, MailTypeOK
<1> QED
  BY <1>1, <1>2, <1>3, <1>4, <1>5, <1>6, <1>7, <1>8, <1>9, <1>10, <1>11, <1>12, <1>13, <1>14, Zenon
     DEF MailNext, Invitations, Work

-----------------------------------------------------------------------------
(* The inductive invariant.                                                *)

\* What a request in time does at the provider: the invitation is mailed unless
\* it was before, and no bound on the age of a key is lost.
Provided(i) ==
    /\ Once'
    /\ mailed'[i] > 0
    /\ \A j \in Invite : mailed[j] > 0 => mailed'[j] > 0
    /\ \A j \in Invite \ {i} : mailed'[j] = mailed[j]
    /\ \A j \in Invite : \A n \in Nat :
          (mailed[j] > 0 => key[j] <= n) => (mailed'[j] > 0 => key'[j] <= n)

\* A request in time never meets a forgotten key of its invitation.
LEMMA ProvideOnce ==
    ASSUME MailTypeOK, Once, NEW i \in Invite, NEW age \in Nat, NEW since \in Nat,
           InTime(i, age, since), Provide(i)
    PROVE  Provided(i)
<1>1. \A j \in Invite : key[j] \in Nat /\ key[j] <= Retention /\ mailed[j] \in Nat
  BY Numbers DEF MailTypeOK
<1>2. CASE key[i] < Retention
  <2>1. key' = key /\ mailed' = mailed
    BY <1>2, Zenon DEF Provide
  <2>2. mailed[i] > 0
    BY <1>1, <1>2, Numbers DEF Once
  <2> QED BY <2>1, <2>2, Zenon DEF Provided, Once
<1>3. CASE ~(key[i] < Retention)
  <2>1. mailed[i] = 0
    BY <1>1, <1>3, Numbers DEF InTime
  <2>2. key' = [key EXCEPT ![i] = 0] /\ mailed' = [mailed EXCEPT ![i] = 1]
    BY <1>3, <2>1 DEF Provide
  <2>3. \A j \in Invite : /\ key'[j] = IF j = i THEN 0 ELSE key[j]
                          /\ mailed'[j] = IF j = i THEN 1 ELSE mailed[j]
    BY <2>2, Zenon DEF MailTypeOK
  <2> QED BY <1>1, <2>1, <2>3 DEF Provided, Once
<1> QED BY <1>2, <1>3, Zenon

\* A request of a worker or on the network is in time, and typed.
LEMMA SendingInTime ==
    ASSUME MailInv, NEW w \in Mailer, Sending(w)
    PROVE  /\ job[w] \in MailJob /\ job[w].invite \in Invite
           /\ job[w].age \in Nat /\ job[w].since \in Nat
           /\ InTime(job[w].invite, job[w].age, job[w].since)
<1>1. job[w] \in MailJob
  BY JobTyped, Zenon DEF MailInv, Sending
<1> QED BY <1>1, Numbers DEF MailInv, RequestsInTime, MailJob

\* See SendingInTime.
LEMMA FloatingInTime ==
    ASSUME MailInv, NEW r \in floating
    PROVE  /\ r \in Request /\ r.invite \in Invite /\ r.age \in Nat /\ r.since \in Nat
           /\ InTime(r.invite, r.age, r.since)
<1>1. r \in Request
  BY Zenon DEF MailInv, MailTypeOK
<1> QED BY <1>1, Numbers DEF MailInv, RequestsInTime, Request

\* What the provider does disturbs no other part of the invariant.
LEMMA ProvidedKeeps ==
    ASSUME MailInv, NEW i \in Invite, mail[i].attempts > 0, Provided(i), UNCHANGED <<invite, mail>>
    PROVE  /\ Begun' /\ KeyFresh'
           /\ \A j \in Invite : \A age, since \in Nat : InTime(j, age, since) => InTime(j, age, since)'
<1>1. \A j \in Invite : mail[j].age \in Nat /\ mail[j].attempts \in Nat
  BY Numbers DEF MailInv, MailTypeOK, InvitationMail
<1>2. Begun'
  <2>1. \A j \in Invite : mail[j].attempts = 0 => mailed'[j] = 0
    BY <1>1 DEF MailInv, Begun, Provided
  <2> QED BY <2>1, Zenon DEF MailInv, Begun
<1>3. KeyFresh'
  BY <1>1, Zenon DEF MailInv, KeyFresh, Provided
<1>4. ASSUME NEW j \in Invite, NEW age \in Nat, NEW since \in Nat, InTime(j, age, since)
      PROVE  InTime(j, age, since)'
  <2>1. age + since \in Nat
    OBVIOUS
  <2> QED BY <1>4, <2>1, Zenon DEF InTime, Provided
<1> QED BY <1>2, <1>3, <1>4, Zenon

\* A step that changes neither requests nor what the provider has, and begins
\* no attempt, keeps every request in time.
LEMMA RequestsKept ==
    ASSUME MailInv, UNCHANGED <<floating, key, mailed>>,
           \A w \in Mailer : job'[w] = job[w] \/ ~Sending(w)',
           \A i \in Invite : mail[i].attempts > 0 => mail'[i].attempts = mail[i].attempts
    PROVE  RequestsInTime'
<1>1. ASSUME NEW w \in Mailer, Sending(w)'
      PROVE  InTime(job[w].invite, job[w].age, job[w].since)' /\ job'[w] = job[w]
  <2>1. job'[w] = job[w] /\ Sending(w)
    BY <1>1, Zenon DEF Sending
  <2>2. job[w].invite \in Invite /\ InTime(job[w].invite, job[w].age, job[w].since)
    BY <2>1, SendingInTime, Zenon
  <2> QED BY <2>1, <2>2, Zenon DEF InTime
<1>2. ASSUME NEW r \in floating'
      PROVE  InTime(r.invite, r.age, r.since)'
  <2>1. r.invite \in Invite /\ InTime(r.invite, r.age, r.since)
    BY <1>2, FloatingInTime, Zenon
  <2> QED BY <2>1, Zenon DEF InTime
<1> QED BY <1>1, <1>2, Zenon DEF RequestsInTime

\* The invariant holds initially.
LEMMA IInvInit == MailInit => MailInv
<1> SUFFICES ASSUME MailInit PROVE MailInv
  BY Zenon
<1>1. MailTypeOK
  BY TypeInit, Zenon
<1>2. \A w \in Mailer : job[w].pc = "idle"
  BY Zenon DEF MailInit, Idle
<1>3. Once /\ Begun /\ KeyFresh
  BY DEF MailInit, Once, Begun, KeyFresh
<1>4. RequestsInTime /\ Earned
  BY <1>2, Zenon DEF MailInit, RequestsInTime, Earned, Sending
<1> QED BY <1>1, <1>3, <1>4, Zenon DEF MailInv

\* Queueing the mail of a new invitation keeps the invariant.
LEMMA QueueStep ==
    ASSUME MailInv, MailTypeOK', NEW i \in Invite, invite[i].status = "none", invite'[i].status # "none",
           \A o \in Invite \ {i} : invite[o].status = "none" <=> invite'[o].status = "none",
           mail' = [mail EXCEPT ![i] = Queued], UNCHANGED <<job, floating, key, mailed>>
    PROVE  MailInv'
<1>1. mail[i].attempts = 0 /\ mailed[i] = 0
  BY Zenon DEF MailInv, Begun
<1>2. \A o \in Invite : mail'[o] = IF o = i THEN Queued ELSE mail[o]
  BY Zenon DEF MailInv, MailTypeOK
<1>3. Once' /\ Earned'
  BY Zenon DEF MailInv, Once, Earned
<1>4. Begun'
  BY <1>1, <1>2 DEF MailInv, Begun, Queued
<1>5. KeyFresh'
  BY <1>1, <1>2 DEF MailInv, KeyFresh
<1>6. RequestsInTime'
  BY <1>1, <1>2, RequestsKept
<1> QED BY <1>3, <1>4, <1>5, <1>6, Zenon DEF MailInv

\* A step that only changes the state of invitations keeps the invariant.
LEMMA InvitationStep ==
    ASSUME MailInv, MailTypeOK', UNCHANGED <<mail, job, floating, key, mailed>>,
           \A o \in Invite : invite'[o].status = "none" => invite[o].status = "none"
    PROVE  MailInv'
<1>1. Once' /\ Earned' /\ Begun' /\ KeyFresh'
  BY Zenon DEF MailInv, Once, Earned, Begun, KeyFresh
<1>2. RequestsInTime'
  BY RequestsKept, Zenon
<1> QED BY <1>1, <1>2, Zenon DEF MailInv

\* A new state or time of a mail that has been begun keeps the invariant.
LEMMA MailStep ==
    ASSUME MailInv, MailTypeOK', NEW i \in Invite, mail[i].state # "none",
           NEW row, row.state # "none", row.attempts = mail[i].attempts,
           row.state \in Unsettled => mail[i].state \in Unsettled /\ row.age = mail[i].age,
           mail' = [mail EXCEPT ![i] = row], UNCHANGED <<invite, floating, key, mailed>>,
           \A w \in Mailer : job'[w] = job[w] \/ job'[w] = Idle
    PROVE  MailInv'
<1>1. \A o \in Invite : mail'[o] = IF o = i THEN row ELSE mail[o]
  BY Zenon DEF MailInv, MailTypeOK
<1>2. Once' /\ Begun'
  BY <1>1 DEF MailInv, Once, Begun
<1>3. KeyFresh'
  BY <1>1, Zenon DEF MailInv, KeyFresh
<1>4. \A w \in Mailer : job'[w] # job[w] => job'[w].pc = "idle"
  BY DEF Idle
<1>5. Earned'
  BY <1>4, Zenon DEF MailInv, Earned
<1>6. RequestsInTime'
  BY <1>1, <1>4, RequestsKept, Zenon DEF Sending
<1> QED BY <1>2, <1>3, <1>5, <1>6, Zenon DEF MailInv

\* A claim keeps the invariant: an attempt begins inside the window only, at the
\* age that bounds the key.
LEMMA ClaimStep ==
    ASSUME MailInv, MailTypeOK', NEW w \in Mailer, NEW i \in Invite, ClaimMail(w, i)
    PROVE  MailInv'
<1>1. mail[i].state \in Unsettled /\ mail[i].state # "none" /\ mail[i].age \in Nat
      /\ mail[i].attempts \in Nat
  BY Numbers DEF ClaimMail, Ready, Unsettled, MailInv, MailTypeOK, InvitationMail
<1>2. ASSUME NEW st \in MailSettled, mail' = [mail EXCEPT ![i] = Settle(@, st)], UNCHANGED job
      PROVE  MailInv'
  <2>1. mail[i] \in InvitationMail
    BY Zenon DEF MailInv, MailTypeOK
  <2>2. Settle(mail[i], st).state = st /\ Settle(mail[i], st).attempts = mail[i].attempts
    BY <2>1, Zenon DEF Settle, InvitationMail
  <2>3. st # "none" /\ st \notin Unsettled
    BY Zenon DEF MailSettled, Unsettled
  <2>4. mail' = [mail EXCEPT ![i] = Settle(mail[i], st)] /\ UNCHANGED <<invite, floating, key, mailed>>
    BY <1>2, Zenon DEF ClaimMail
  <2> QED BY <1>1, <1>2, <2>2, <2>3, <2>4, MailStep, Zenon
<1>3. CASE /\ ~WindowOver(i) /\ mail' = [mail EXCEPT ![i] = Begin(i)]
           /\ job' = [job EXCEPT ![w] = [pc |-> "claimed", invite |-> i, attempts |-> Begin(i).attempts,
                                         age |-> Begin(i).age, since |-> 0]]
  <2> DEFINE new == [pc |-> "claimed", invite |-> i, attempts |-> Begin(i).attempts,
                     age |-> Begin(i).age, since |-> 0]
  <2>1. \A o \in Invite : mail'[o] = IF o = i THEN Begin(i) ELSE mail[o]
    BY <1>3, Zenon DEF MailInv, MailTypeOK
  <2>2. \A v \in Mailer : job'[v] = IF v = w THEN new ELSE job[v]
    BY <1>3, Zenon DEF MailInv, MailTypeOK
  <2>3. UNCHANGED <<invite, floating, key, mailed>>
    BY Zenon DEF ClaimMail
  <2>4. /\ Begin(i).state = "sending" /\ Begin(i).attempts = mail[i].attempts + 1
        /\ Begin(i).age = IF mail[i].attempts = 0 THEN 0 ELSE mail[i].age
    BY Zenon DEF Begin
  <2>5. Begin(i).age \in Nat /\ Begin(i).age < Window /\ (mailed[i] > 0 => key[i] <= Begin(i).age)
    BY <1>1, <1>3, <2>4, Numbers DEF MailInv, WindowOver, KeyFresh, Begun
  <2>6. Once' /\ Begun'
    BY <1>1, <2>1, <2>3, <2>4 DEF MailInv, Once, Begun
  <2>7. KeyFresh'
    BY <2>1, <2>3, <2>5, Zenon DEF MailInv, KeyFresh
  <2>8. Earned'
    <3>1. new.pc # "ok"
      BY DEF new
    <3>. HIDE DEF new
    <3>2. Earned
      BY Zenon DEF MailInv
    <3> QED BY <2>2, <2>3, <3>1, <3>2, Zenon DEF Earned
  <2>9. ASSUME NEW j \in Invite, NEW age \in Nat, NEW since \in Nat, InTime(j, age, since)
        PROVE  InTime(j, age, since)'
    BY <1>1, <2>1, <2>3, <2>4, <2>9 DEF InTime
  <2>10. ASSUME NEW v \in Mailer, Sending(v)'
         PROVE  InTime(job[v].invite, job[v].age, job[v].since)'
    <3>1. CASE v = w
      <4>1. job'[v].invite = i /\ job'[v].age = Begin(i).age /\ job'[v].since = 0
        BY <2>2, <3>1
      <4>2. mail'[i].attempts > 0 /\ (mailed'[i] > 0 => key'[i] <= Begin(i).age + 0)
        BY <1>1, <2>1, <2>3, <2>4, <2>5 DEF MailInv, MailTypeOK
      <4> QED BY <2>5, <4>1, <4>2, Numbers DEF InTime
    <3>2. CASE v # w
      <4>1. job'[v] = job[v] /\ Sending(v)
        BY <2>2, <2>10, <3>2, Zenon DEF Sending
      <4>2. InTime(job[v].invite, job[v].age, job[v].since) /\ job[v].invite \in Invite
            /\ job[v].age \in Nat /\ job[v].since \in Nat
        BY <4>1, SendingInTime, Zenon
      <4> QED BY <1>1, <2>1, <2>3, <2>4, <4>1, <4>2 DEF InTime
    <3> QED BY <3>1, <3>2, Zenon
  <2>11. ASSUME NEW r \in floating' PROVE InTime(r.invite, r.age, r.since)'
    BY <2>3, <2>9, FloatingInTime, Zenon
  <2>12. RequestsInTime'
    BY <2>10, <2>11, Zenon DEF RequestsInTime
  <2> QED BY <2>6, <2>7, <2>8, <2>12, Zenon DEF MailInv
<1> QED BY <1>2, <1>3, Zenon DEF ClaimMail, MailSettled

\* A request that reaches the provider keeps the invariant.
LEMMA ArrivalStep ==
    ASSUME MailInv, MailTypeOK', NEW i \in Invite, NEW age \in Nat, NEW since \in Nat,
           InTime(i, age, since), Provide(i), UNCHANGED <<invite, mail>>, floating' \subseteq floating,
           \A w \in Mailer : \/ job'[w] = job[w]
                             \/ /\ job'[w].pc # "claimed" /\ job'[w].invite = job[w].invite
                                /\ job'[w].invite = i
    PROVE  MailInv'
<1>1. Provided(i)
  BY ProvideOnce, Zenon DEF MailInv
<1>2. mail[i].attempts > 0
  BY Zenon DEF InTime
<1>3. /\ Begun' /\ KeyFresh'
      /\ \A j \in Invite : \A a, s \in Nat : InTime(j, a, s) => InTime(j, a, s)'
  BY <1>1, <1>2, ProvidedKeeps, Zenon
<1>4. Once'
  BY <1>1, Zenon DEF Provided
<1>5. ASSUME NEW w \in Mailer, job'[w].pc = "ok" PROVE mailed'[job'[w].invite] > 0
  <2>1. CASE job'[w] = job[w]
    <3>1. job[w] \in MailJob /\ mailed[job[w].invite] > 0
      BY <1>5, <2>1, JobTyped, Zenon DEF MailInv, Earned
    <3>2. job[w].invite \in Invite
      BY <3>1, Zenon DEF MailJob
    <3> QED BY <1>1, <2>1, <3>1, <3>2, Zenon DEF Provided
  <2>2. CASE job'[w].invite = i
    BY <1>1, <2>2, Zenon DEF Provided
  <2> QED BY <2>1, <2>2, Zenon
<1>6. Earned'
  BY <1>5, Zenon DEF Earned
<1>7. ASSUME NEW w \in Mailer, Sending(w)'
      PROVE  InTime(job[w].invite, job[w].age, job[w].since)'
  <2>1. job'[w] = job[w] /\ Sending(w)
    BY <1>7, Zenon DEF Sending
  <2>2. InTime(job[w].invite, job[w].age, job[w].since) /\ job[w].invite \in Invite
        /\ job[w].age \in Nat /\ job[w].since \in Nat
    BY <2>1, SendingInTime, Zenon
  <2>3. \A j \in Invite : \A a, s \in Nat : InTime(j, a, s) =>
           /\ a < Window /\ s <= Stall /\ mail'[j].attempts > 0
           /\ mailed'[j] > 0 => key'[j] <= a + s
    BY <1>3, Zenon DEF InTime
  <2> QED BY <2>1, <2>2, <2>3, Zenon DEF InTime
<1>8. ASSUME NEW r \in floating' PROVE InTime(r.invite, r.age, r.since)'
  BY <1>3, <1>8, FloatingInTime, Zenon
<1>9. RequestsInTime'
  BY <1>7, <1>8, Zenon DEF RequestsInTime
<1> QED BY <1>3, <1>4, <1>6, <1>9, Zenon DEF MailInv

\* The worker's answer without an arrival, and a request that is given up.
LEMMA AnswerStep ==
    ASSUME MailInv, MailTypeOK', UNCHANGED <<invite, mail, key, mailed>>,
           \A w \in Mailer : job'[w] = job[w] \/ job'[w].pc \notin {"claimed", "ok"},
           \A r \in floating' : \/ r \in floating
                                \/ \E w \in Mailer : /\ Sending(w) /\ r.invite = job[w].invite
                                                     /\ r.age = job[w].age /\ r.since = job[w].since
    PROVE  MailInv'
<1>1. Once' /\ Begun' /\ KeyFresh' /\ Earned'
  BY Zenon DEF MailInv, Once, Begun, KeyFresh, Earned
<1>2. ASSUME NEW w \in Mailer, Sending(w)'
      PROVE  InTime(job[w].invite, job[w].age, job[w].since)'
  <2>1. job'[w] = job[w] /\ Sending(w)
    BY <1>2, Zenon DEF Sending
  <2> QED BY <2>1, SendingInTime, Zenon DEF InTime
<1>3. ASSUME NEW r \in floating' PROVE InTime(r.invite, r.age, r.since)'
  <2>1. InTime(r.invite, r.age, r.since)
    BY <1>3, FloatingInTime, SendingInTime, Zenon DEF InTime
  <2> QED BY <2>1, Zenon DEF InTime
<1>4. RequestsInTime'
  BY <1>2, <1>3, Zenon DEF RequestsInTime
<1> QED BY <1>1, <1>4, Zenon DEF MailInv

\* A tick ages keys, mails and requests alike.
LEMMA TickStep ==
    ASSUME MailInv, MailTypeOK', MailTick
    PROVE  MailInv'
<1>1. mailed' = mailed /\ \A i \in Invite : key'[i] = Least(Retention, key[i] + 1)
  BY Zenon DEF MailTick
<1>2. \A i \in Invite : key[i] \in Nat /\ key'[i] \in Nat /\ key'[i] <= key[i] + 1
                        /\ (key[i] = Retention => key'[i] = Retention)
  BY <1>1, Numbers DEF Least, MailInv, MailTypeOK
<1>3. ASSUME NEW i \in Invite
      PROVE  /\ mail'[i].state = mail[i].state /\ mail'[i].attempts = mail[i].attempts
             /\ mail[i].state \in Unsettled => mail'[i].age = Least(Window, mail[i].age + 1)
             /\ invite'[i].status = invite[i].status
  <2>1. mail[i] \in InvitationMail /\ invite[i] \in
            [status : {"none", "pending", "accepted", "revoked"}, left : 0..Lifetime]
    BY Zenon DEF MailInv, MailTypeOK
  <2> QED BY <2>1, Zenon DEF MailTick, InvitationMail
<1>4. Once'
  BY <1>1, <1>2, Zenon DEF MailInv, Once
<1>5. Begun'
  BY <1>1, <1>3, Zenon DEF MailInv, Begun
<1>6. KeyFresh'
  <2>1. \A i \in Invite : mail[i].age \in Nat
    BY Numbers DEF MailInv, MailTypeOK, InvitationMail
  <2> QED BY <1>1, <1>2, <1>3, <2>1, Numbers DEF MailInv, KeyFresh, Least
<1>7. ASSUME NEW w \in Mailer, job[w] # Idle
      PROVE  /\ job'[w].pc = job[w].pc /\ job'[w].invite = job[w].invite
             /\ job'[w].age = job[w].age /\ job'[w].since = Least(Window, job[w].since + 1)
             /\ job[w] \in MailJob
  <2>1. job[w] \in MailJob
    BY <1>7, Zenon DEF MailInv, MailTypeOK
  <2> QED BY <1>7, <2>1, Zenon DEF MailTick, MailJob
<1>8. \A w \in Mailer : job[w] = Idle => job'[w].pc = "idle"
  BY Zenon DEF MailTick, Idle
<1>9. Earned'
  BY <1>1, <1>7, <1>8, Zenon DEF MailInv, Earned
<1>10. ASSUME NEW w \in Mailer, Sending(w)'
       PROVE  InTime(job[w].invite, job[w].age, job[w].since)'
  <2>1. job[w] # Idle /\ job[w].pc = "claimed" /\ job[w].since \in Nat
    BY <1>7, <1>8, <1>10, Numbers DEF Sending, MailJob
  <2>2. job'[w].since = job[w].since + 1 /\ job'[w].since <= Stall
    BY <1>7, <1>10, <2>1, Numbers DEF Sending, Least
  <2>3. Sending(w)
    BY <2>1, <2>2, Numbers DEF Sending
  <2>4. InTime(job[w].invite, job[w].age, job[w].since) /\ job[w].invite \in Invite /\ job[w].age \in Nat
    BY <2>3, SendingInTime, Zenon
  <2>5. LET i == job[w].invite
        IN  /\ job[w].age < Window /\ mail[i].attempts > 0 /\ mail'[i].attempts = mail[i].attempts
            /\ mailed'[i] = mailed[i] /\ key'[i] = Least(Retention, key[i] + 1) /\ key[i] \in Nat
            /\ mailed[i] > 0 => key[i] <= job[w].age + job[w].since
    BY <1>1, <1>2, <1>3, <2>4, Zenon DEF InTime
  <2>6. \A k, a, s \in Nat : k <= a + s => Least(Retention, k + 1) <= a + (s + 1)
    BY Numbers DEF Least
  <2>7. job'[w].invite = job[w].invite /\ job'[w].age = job[w].age
    BY <1>7, <2>1, Zenon
  <2> QED BY <2>1, <2>2, <2>4, <2>5, <2>6, <2>7, Zenon DEF InTime
<1>11. ASSUME NEW r \in floating' PROVE InTime(r.invite, r.age, r.since)'
  <2>1. PICK q \in floating : q.since < Stall /\ r = [q EXCEPT !.since = @ + 1]
    BY <1>11, Zenon DEF MailTick
  <2>2. /\ q \in Request /\ q.invite \in Invite /\ q.age \in Nat /\ q.since \in Nat
        /\ InTime(q.invite, q.age, q.since)
    BY FloatingInTime, Zenon
  <2>3. r.invite = q.invite /\ r.age = q.age /\ r.since = q.since + 1
    BY <2>1, <2>2, Zenon DEF Request
  <2> QED BY <1>1, <1>2, <1>3, <2>1, <2>2, <2>3, Numbers DEF InTime
<1>12. RequestsInTime'
  BY <1>10, <1>11, Zenon DEF RequestsInTime
<1> QED BY <1>4, <1>5, <1>6, <1>9, <1>12, Zenon DEF MailInv

\* Every step keeps the invariant.
LEMMA IInvStep == MailInv /\ [MailNext]_mailVars => MailInv'
<1> SUFFICES ASSUME MailInv, [MailNext]_mailVars PROVE MailInv'
  BY Zenon
<1>0. MailTypeOK /\ MailTypeOK'
  BY TypeStep, Zenon DEF MailInv
<1>1. ASSUME NEW i \in Invite, Create(i) PROVE MailInv'
  <2>1. \A o \in Invite : invite'[o] = IF o = i THEN Fresh ELSE invite[o]
    BY <1>0, <1>1, Zenon DEF Create, MailTypeOK
  <2>2. invite'[i].status # "none"
    BY <2>1 DEF Fresh
  <2> QED BY <1>0, <1>1, <2>1, <2>2, QueueStep, Zenon DEF Create
<1>2. ASSUME NEW i \in Invite, Accept(i) \/ Withdraw(i) PROVE MailInv'
  <2>1. \A o \in Invite : invite'[o].status = "none" => invite[o].status = "none"
    BY <1>0, <1>2 DEF Accept, Withdraw, MailTypeOK, Decided
  <2> QED BY <1>0, <1>2, <2>1, InvitationStep, Zenon DEF Accept, Withdraw
<1>3. ASSUME NEW i \in Invite, NEW j \in Invite, Resend(i, j) PROVE MailInv'
  <2>1. i # j
    BY <1>3, Zenon DEF Resend
  <2>2. invite'[i].status = "revoked" /\ invite'[j] = Fresh
        /\ \A o \in Invite \ {i, j} : invite'[o] = invite[o]
    BY <1>0, <1>3, <2>1, Zenon DEF Resend, MailTypeOK, Decided
  <2>3. \A o \in Invite \ {j} : invite[o].status = "none" <=> invite'[o].status = "none"
    BY <1>3, <2>2, Zenon DEF Resend
  <2>4. invite'[j].status # "none"
    BY <2>2 DEF Fresh
  <2>5. /\ invite[j].status = "none" /\ mail' = [mail EXCEPT ![j] = Queued]
        /\ UNCHANGED <<job, floating, key, mailed>>
    BY <1>3, Zenon DEF Resend
  <2> QED BY <1>0, <2>3, <2>4, <2>5, QueueStep, Zenon
<1>4. CASE ChangeAuthority
  BY <1>0, <1>4, InvitationStep, Zenon DEF ChangeAuthority
<1>5. ASSUME NEW w \in Mailer, NEW i \in Invite, ClaimMail(w, i) PROVE MailInv'
  BY <1>0, <1>5, ClaimStep, Zenon
<1>6. ASSUME NEW w \in Mailer, SendArrives(w) PROVE MailInv'
  <2>1. /\ job[w] \in MailJob /\ job[w].invite \in Invite
        /\ job[w].age \in Nat /\ job[w].since \in Nat
        /\ InTime(job[w].invite, job[w].age, job[w].since)
    BY <1>6, SendingInTime, Zenon DEF SendArrives
  <2>2. \A v \in Mailer : \/ job'[v] = job[v]
                          \/ /\ job'[v].pc # "claimed" /\ job'[v].invite = job[v].invite
                             /\ job'[v].invite = job[w].invite
    BY <1>0, <1>6, <2>1 DEF SendArrives, Answer, MailTypeOK, MailJob
  <2> QED BY <1>0, <1>6, <2>1, <2>2, ArrivalStep, Zenon DEF SendArrives
<1>7. ASSUME NEW w \in Mailer, SendRefused(w) PROVE MailInv'
  <2>1. \A v \in Mailer : job'[v] = job[v] \/ job'[v].pc \notin {"claimed", "ok"}
    BY <1>0, <1>7, SendingInTime DEF SendRefused, Answer, MailTypeOK, MailJob
  <2> QED BY <1>0, <1>7, <2>1, AnswerStep, Zenon DEF SendRefused
<1>8. ASSUME NEW w \in Mailer, SendTimesOut(w) PROVE MailInv'
  <2>1. \A v \in Mailer : job'[v] = job[v] \/ job'[v].pc \notin {"claimed", "ok"}
    BY <1>0, <1>8, SendingInTime, Zenon DEF SendTimesOut, Answer, MailTypeOK, MailJob
  <2>2. \A r \in floating' : \/ r \in floating
                             \/ \E v \in Mailer : /\ Sending(v) /\ r.invite = job[v].invite
                                                  /\ r.age = job[v].age /\ r.since = job[v].since
    BY <1>8 DEF SendTimesOut
  <2> QED BY <1>0, <1>8, <2>1, <2>2, AnswerStep, Zenon DEF SendTimesOut
<1>9. ASSUME NEW r \in floating, ArriveLate(r) PROVE MailInv'
  BY <1>0, <1>9, FloatingInTime, ArrivalStep, Zenon DEF ArriveLate
<1>10. ASSUME NEW r \in floating, LoseLate(r) PROVE MailInv'
  BY <1>0, <1>10, AnswerStep, Zenon DEF LoseLate
<1>11. ASSUME NEW w \in Mailer, Finish(w) PROVE MailInv'
  <2>1. \A v \in Mailer : job'[v] = job[v] \/ job'[v] = Idle
    BY <1>0, <1>11, Zenon DEF Finish, MailTypeOK
  <2>2. job[w] \in MailJob /\ job[w].invite \in Invite /\ job[w].pc # "idle"
    BY <1>0, <1>11, JobTyped, Zenon DEF Finish, MailJob
  <2>3. CASE Current(w) /\ \E asked \in MailRetryAfter :
                              mail' = [mail EXCEPT ![job[w].invite] = MailOutcome(w, asked)]
    <3> DEFINE i == job[w].invite
    <3>1. PICK asked \in MailRetryAfter : mail' = [mail EXCEPT ![i] = MailOutcome(w, asked)]
      BY <2>3, Zenon
    <3>2. mail[i].state = "sending" /\ mail[i] \in InvitationMail
      BY <1>0, <2>2, <2>3, Zenon DEF Current, MailTypeOK
    <3>3. /\ MailOutcome(w, asked).state \in {"accepted", "attention", "retrying"}
          /\ MailOutcome(w, asked).attempts = mail[i].attempts
          /\ MailOutcome(w, asked).state = "retrying" => MailOutcome(w, asked).age = mail[i].age
      <4>1. \E k : MailOutcome(w, asked) \in {Settle(mail[i], "accepted"), Settle(mail[i], "attention"),
                                         [mail[i] EXCEPT !.state = "retrying", !.wait = k]}
        BY Zenon DEF MailOutcome
      <4> QED BY <3>2, <4>1, Zenon DEF Settle, InvitationMail
    <3>4. /\ MailOutcome(w, asked).state # "none" /\ mail[i].state \in Unsettled /\ mail[i].state # "none"
          /\ MailOutcome(w, asked).state \in Unsettled => MailOutcome(w, asked).age = mail[i].age
      BY <3>2, <3>3, Zenon DEF Unsettled
    <3>5. UNCHANGED <<invite, floating, key, mailed>>
      BY <1>11, Zenon DEF Finish
    <3> QED BY <1>0, <2>1, <2>2, <3>1, <3>3, <3>4, <3>5, MailStep, Zenon
  <2>4. CASE UNCHANGED mail
    <3>1. \A v \in Mailer : job'[v] = job[v] \/ job'[v].pc \notin {"claimed", "ok"}
      BY <2>1 DEF Idle
    <3> QED BY <1>0, <1>11, <2>4, <3>1, AnswerStep, Zenon DEF Finish
  <2> QED BY <1>11, <2>3, <2>4, Zenon DEF Finish
<1>12. ASSUME NEW w \in Mailer, Crash(w) PROVE MailInv'
  <2>1. \A v \in Mailer : job'[v] = job[v] \/ job'[v].pc \notin {"claimed", "ok"}
    BY <1>0, <1>12, Zenon DEF Crash, MailTypeOK, Idle
  <2> QED BY <1>0, <1>12, <2>1, AnswerStep, Zenon DEF Crash
<1>13. CASE MailTick
  BY <1>0, <1>13, TickStep, Zenon
<1>14. CASE UNCHANGED mailVars
  BY <1>0, <1>14, InvitationStep, Zenon DEF mailVars
<1> QED
  BY <1>1, <1>2, <1>3, <1>4, <1>5, <1>6, <1>7, <1>8, <1>9, <1>10, <1>11, <1>12, <1>13, <1>14, Zenon
     DEF MailNext, Invitations, Work

\* The inductive invariant holds in every reachable state.
THEOREM MailInvariance == MailSpec => []MailInv
  BY IInvInit, IInvStep, PTL DEF MailSpec

\* The types of the state; in particular no attempt beyond the limit begins.
THEOREM MailTypeCorrect == MailSpec => []MailTypeOK
<1>1. MailInv => MailTypeOK
  BY Zenon DEF MailInv
<1> QED BY <1>1, MailInvariance, PTL

\* No invitation is mailed twice, for any number of workers and any delays with
\* Window + Stall <= Retention (claimInvitationEmail).
THEOREM MailedAtMostOnce == MailSpec => []MailedOnce
<1>1. MailInv => MailedOnce
  BY Zenon DEF MailInv, Once, MailedOnce
<1> QED BY <1>1, MailInvariance, PTL

\* A settled mail never changes again (ProcessInvitationEmail's fence).
THEOREM OutcomesKept == MailSpec => OutcomeKept
<1>1. ASSUME MailInv, [MailNext]_mailVars, NEW i \in Invite, mail[i].state \in MailSettled
      PROVE  mail'[i] = mail[i]
  <2>1. /\ mail[i].state # "none" /\ mail[i].state \notin Unsettled /\ mail[i].state # "sending"
        /\ invite[i].status # "none"
    BY <1>1, Zenon DEF MailSettled, Unsettled, MailInv, Begun
  <2>2. mail \in [Invite -> InvitationMail] /\ job \in [Mailer -> MailJob \cup {Idle}]
    BY <1>1, Zenon DEF MailInv, MailTypeOK
  <2>3. ASSUME NEW j \in Invite, mail' = [mail EXCEPT ![j] = Queued], invite[j].status = "none"
        PROVE  mail'[i] = mail[i]
    BY <2>1, <2>2, <2>3, Zenon
  <2>4. ASSUME NEW w \in Mailer, NEW j \in Invite, ClaimMail(w, j) PROVE mail'[i] = mail[i]
    BY <2>1, <2>2, <2>4, Zenon DEF ClaimMail, Ready
  <2>5. ASSUME NEW w \in Mailer, Finish(w) PROVE mail'[i] = mail[i]
    BY <2>1, <2>2, <2>5, Zenon DEF Finish, Current
  <2>6. CASE MailTick
    BY <2>1, <2>6, Zenon DEF MailTick
  <2> QED
    BY <1>1, <2>3, <2>4, <2>5, <2>6, Zenon
       DEF MailNext, Invitations, Work, Create, Accept, Withdraw, Resend, ChangeAuthority, SendArrives,
           SendRefused, SendTimesOut, Crash, ArriveLate, LoseLate, mailVars
<1>2. MailInv /\ [MailNext]_mailVars => [\A i \in Invite : mail[i].state \in MailSettled => mail'[i] = mail[i]]_mailVars
  BY <1>1, Zenon
<1> QED BY <1>2, MailInvariance, PTL DEF MailSpec, OutcomeKept

\* An invitation that can no longer be accepted and has no request under way is
\* never mailed (claimInvitationEmail).
THEOREM RevocationSuppresses == MailSpec => RevokedIsNotMailed
<1>1. ASSUME MailInv, [MailNext]_mailVars, NEW i \in Invite, ~Active(i), ~MailInFlight(i)
      PROVE  mailed'[i] = mailed[i] /\ ~MailInFlight(i)'
  <2>1. job \in [Mailer -> MailJob \cup {Idle}] /\ floating \subseteq Request /\ mailed \in [Invite -> Nat]
    BY <1>1, Zenon DEF MailInv, MailTypeOK
  <2>2. /\ \A w \in Mailer : ~(job[w].invite = i /\ job[w].pc = "claimed")
        /\ \A r \in floating : r.invite # i
    BY <1>1, Zenon DEF MailInFlight
  <2>3. ASSUME NEW j \in Invite, j # i, Provide(j) PROVE mailed'[i] = mailed[i]
    BY <2>1, <2>3, Zenon DEF Provide
  <2>4. ASSUME NEW w \in Mailer, SendArrives(w) PROVE mailed'[i] = mailed[i] /\ ~MailInFlight(i)'
    <3>1. job[w].invite \in Invite /\ job[w].invite # i
      BY <1>1, <2>2, <2>4, SendingInTime, Zenon DEF SendArrives, Sending
    <3>2. \A v \in Mailer : ~(job'[v].invite = i /\ job'[v].pc = "claimed")
      BY <1>1, <2>1, <2>2, <2>4, <3>1, SendingInTime DEF SendArrives, Answer, MailJob
    <3> QED BY <2>2, <2>3, <2>4, <3>1, <3>2, Zenon DEF SendArrives, MailInFlight
  <2>5. ASSUME NEW r \in floating, ArriveLate(r) PROVE mailed'[i] = mailed[i] /\ ~MailInFlight(i)'
    <3>1. r.invite \in Invite /\ r.invite # i
      BY <2>1, <2>2, Zenon DEF Request
    <3> QED BY <2>2, <2>3, <2>5, <3>1, Zenon DEF ArriveLate, MailInFlight
  <2>6. ASSUME NEW w \in Mailer, NEW j \in Invite, ClaimMail(w, j) PROVE mailed'[i] = mailed[i] /\ ~MailInFlight(i)'
    <3>1. CASE UNCHANGED job
      BY <2>2, <2>6, <3>1, Zenon DEF ClaimMail, MailInFlight
    <3>2. CASE ~Cancels(j) /\ job' = [job EXCEPT ![w] = [pc |-> "claimed", invite |-> j,
                 attempts |-> Begin(j).attempts, age |-> Begin(j).age, since |-> 0]]
      <4>1. j # i
        BY <1>1, <3>2, Zenon DEF Cancels
      <4>2. \A v \in Mailer : ~(job'[v].invite = i /\ job'[v].pc = "claimed")
        BY <2>1, <2>2, <3>2, <4>1, Zenon
      <4> QED BY <2>2, <2>6, <4>2, Zenon DEF ClaimMail, MailInFlight
    <3> QED BY <2>6, <3>1, <3>2, Zenon DEF ClaimMail
  <2>7. ASSUME NEW w \in Mailer, SendTimesOut(w) PROVE mailed'[i] = mailed[i] /\ ~MailInFlight(i)'
    <3>1. job[w].invite # i
      BY <2>2, <2>7, Zenon DEF SendTimesOut, Sending
    <3>2. \A v \in Mailer : ~(job'[v].invite = i /\ job'[v].pc = "claimed")
      BY <2>1, <2>2, <2>7, <3>1 DEF SendTimesOut, Answer
    <3>3. \A r \in floating' : r.invite # i
      BY <2>2, <2>7, <3>1 DEF SendTimesOut
    <3> QED BY <2>7, <3>2, <3>3, Zenon DEF SendTimesOut, MailInFlight
  <2>8. ASSUME NEW w \in Mailer, SendRefused(w) \/ Finish(w) \/ Crash(w)
        PROVE  mailed'[i] = mailed[i] /\ ~MailInFlight(i)'
    <3>1. CASE SendRefused(w)
      <4>1. job[w].invite # i /\ job[w] \in MailJob
        BY <1>1, <2>2, <3>1, SendingInTime, Zenon DEF SendRefused, Sending
      <4>2. \A v \in Mailer : ~(job'[v].invite = i /\ job'[v].pc = "claimed")
        BY <2>1, <2>2, <3>1, <4>1, Zenon DEF SendRefused, Answer, MailJob
      <4> QED BY <2>2, <3>1, <4>2, Zenon DEF SendRefused, MailInFlight
    <3>2. CASE Finish(w) \/ Crash(w)
      <4>1. \A v \in Mailer : ~(job'[v].invite = i /\ job'[v].pc = "claimed")
        BY <2>1, <2>2, <3>2 DEF Finish, Crash, Idle
      <4> QED BY <2>2, <3>2, <4>1, Zenon DEF Finish, Crash, MailInFlight
    <3> QED BY <2>8, <3>1, <3>2, Zenon
  <2>9. CASE MailTick
    <3>1. \A v \in Mailer : ~(job'[v].invite = i /\ job'[v].pc = "claimed")
      <4>1. \A v \in Mailer : job'[v].invite = job[v].invite /\ job'[v].pc = job[v].pc
        BY <2>1, <2>9, Zenon DEF MailTick, MailJob
      <4> QED BY <2>2, <4>1, Zenon
    <3>2. ASSUME NEW r \in floating' PROVE r.invite # i
      <4>1. PICK q \in floating : r = [q EXCEPT !.since = @ + 1]
        BY <2>9, Zenon DEF MailTick
      <4> QED BY <2>1, <2>2, <4>1, Zenon DEF Request
    <3> QED BY <2>9, <3>1, <3>2, Zenon DEF MailTick, MailInFlight
  <2> QED
    BY <1>1, <2>2, <2>4, <2>5, <2>6, <2>7, <2>8, <2>9, Zenon
       DEF MailNext, Invitations, Work, Create, Accept, Withdraw, Resend, ChangeAuthority, LoseLate,
           MailInFlight, mailVars
<1>2. MailInv /\ [MailNext]_mailVars =>
        [\A i \in Invite : (invite[i].status # "none" /\ ~Active(i) /\ ~MailInFlight(i))
            => mailed'[i] = mailed[i] /\ ~MailInFlight(i)']_mailVars
  BY <1>1, Zenon
<1> QED BY <1>2, MailInvariance, PTL DEF MailSpec, RevokedIsNotMailed

\* At most one invitation of an address can be accepted at any time (Create and
\* "resend").
THEOREM OneActive == MailSpec => []OneActiveInvitation
<1>1. MailInit => OneActiveInvitation
  BY DEF MailInit, OneActiveInvitation, Active
<1>2. ASSUME MailInv, OneActiveInvitation, [MailNext]_mailVars
      PROVE  OneActiveInvitation'
  <2>1. \A i \in Invite : invite[i] \in [status : {"none", "pending", "accepted", "revoked"},
                                         left : 0..Lifetime]
    BY <1>2, Zenon DEF MailInv, MailTypeOK
  <2>2. ASSUME NEW n \in Invite, \A o \in Invite \ {n} : ~Active(o)' PROVE OneActiveInvitation'
    BY <2>2, Zenon DEF OneActiveInvitation
  <2>3. ASSUME \A o \in Invite : Active(o)' => Active(o) PROVE OneActiveInvitation'
    BY <1>2, <2>3, Zenon DEF OneActiveInvitation
  <2>4. ASSUME NEW i \in Invite, Create(i) PROVE OneActiveInvitation'
    <3>1. \A o \in Invite \ {i} : ~Active(o)'
      BY <1>2, <2>4, Zenon DEF Create, Active, MailInv, MailTypeOK
    <3> QED BY <2>2, <3>1, Zenon
  <2>5. ASSUME NEW i \in Invite, NEW j \in Invite, Resend(i, j) PROVE OneActiveInvitation'
    <3>1. \A o \in Invite \ {j} : ~Active(o)'
      BY <1>2, <2>5, Zenon DEF Resend, Active, MailInv, MailTypeOK, Decided
    <3> QED BY <2>2, <3>1, Zenon
  <2>6. ASSUME NEW i \in Invite, Accept(i) \/ Withdraw(i) PROVE OneActiveInvitation'
    <3>1. \A o \in Invite : Active(o)' => Active(o)
      BY <1>2, <2>6 DEF Accept, Withdraw, Active, MailInv, MailTypeOK, Decided
    <3> QED BY <2>3, <3>1, Zenon
  <2>7. CASE MailTick
    <3>1. ASSUME NEW o \in Invite, Active(o)' PROVE Active(o)
      <4>1. invite'[o].status = invite[o].status /\ invite'[o].left = Most(0, invite[o].left - 1)
        BY <2>1, <2>7, Zenon DEF MailTick
      <4> QED BY <2>1, <3>1, <4>1, Numbers DEF Active, Most
    <3> QED BY <2>3, <3>1, Zenon
  <2>8. CASE UNCHANGED invite
    BY <1>2, <2>8, Zenon DEF OneActiveInvitation, Active
  <2> QED
    BY <1>2, <2>4, <2>5, <2>6, <2>7, <2>8, Zenon
       DEF MailNext, Invitations, Work, ChangeAuthority, ClaimMail, SendArrives, SendRefused, SendTimesOut,
           Finish, Crash, ArriveLate, LoseLate, mailVars
<1> QED BY <1>1, <1>2, MailInvariance, PTL DEF MailSpec

-----------------------------------------------------------------------------
(* The contract of a durable outbox.                                       *)

\* The initial state is one of the contract.
LEMMA MailContractInit == MailInit => MailContract!Init
<1> SUFFICES ASSUME MailInit PROVE MailContract!Init
  BY Zenon
<1>1. [i \in Invite |-> MailPhaseOf(i)] = [i \in Invite |-> "absent"]
  BY Zenon DEF MailInit, MailPhaseOf
<1>2. {i \in Invite : mailed[i] > 0} = {}
  BY DEF MailInit
<1> QED BY <1>1, <1>2, Zenon DEF MailContract!Init

\* A step that leaves every phase and every count alone is a stutter.
LEMMA MailContractStutter ==
    ASSUME UNCHANGED mailed, \A i \in Invite : MailPhaseOf(i)' = MailPhaseOf(i)
    PROVE  UNCHANGED MailContract!vars
<1>1. [i \in Invite |-> MailPhaseOf(i)]' = [i \in Invite |-> MailPhaseOf(i)]
  BY Zenon
<1> QED BY <1>1, Zenon DEF MailContract!vars

\* A new row for one mail moves one item of the contract.
LEMMA MailContractMove ==
    ASSUME NEW i \in Invite, UNCHANGED mailed, \A o \in Invite \ {i} : mail'[o] = mail[o]
    PROVE  MailContract!Move(i, MailPhaseOf(i), MailPhaseOf(i)')
<1> DEFINE ph == [o \in Invite |-> MailPhaseOf(o)]
<1>1. \A o \in Invite \ {i} : MailPhaseOf(o)' = MailPhaseOf(o)
  BY Zenon DEF MailPhaseOf
<1>2. ph' = [o \in Invite |-> MailPhaseOf(o)']
  BY Zenon
<1>3. ph' = [ph EXCEPT ![i] = MailPhaseOf(i)']
  BY <1>1, <1>2, Zenon
<1>4. ph[i] = MailPhaseOf(i)
  BY Zenon
<1> QED BY <1>3, <1>4, Zenon DEF MailContract!Move

\* A mail that reaches the provider is an item that is accepted.
LEMMA ContractAccept ==
    ASSUME MailInv, NEW i \in Invite, mail[i].attempts > 0, Provided(i), UNCHANGED mail
    PROVE  MailContract!Next
<1>1. mail[i].state # "none"
  BY DEF MailInv, Begun
<1>2. [o \in Invite |-> MailPhaseOf(o)][i] # "absent"
  BY <1>1, Zenon DEF MailPhaseOf
<1>3. [o \in Invite |-> MailPhaseOf(o)]' = [o \in Invite |-> MailPhaseOf(o)]
  BY Zenon DEF MailPhaseOf
<1>4. {o \in Invite : mailed[o] > 0}' = {o \in Invite : mailed[o] > 0} \cup {i}
  BY Zenon DEF Provided
<1>5. MailContract!Accept(i)
  BY <1>2, <1>3, <1>4, Zenon DEF MailContract!Accept
<1> QED BY <1>5, Zenon DEF MailContract!Next

\* Every step is a step of the contract or leaves it alone.
LEMMA MailContractStep == MailInv /\ [MailNext]_mailVars => [MailContract!Next]_(MailContract!vars)
<1> SUFFICES ASSUME MailInv, [MailNext]_mailVars PROVE MailContract!Next \/ UNCHANGED MailContract!vars
  BY Zenon
<1>0. mail \in [Invite -> InvitationMail] /\ job \in [Mailer -> MailJob \cup {Idle}]
  BY Zenon DEF MailInv, MailTypeOK
<1>1. ASSUME NEW i \in Invite, invite[i].status = "none", mail' = [mail EXCEPT ![i] = Queued],
             UNCHANGED mailed
      PROVE  MailContract!Next
  <2>1. MailPhaseOf(i) = "absent"
    BY <1>1, Zenon DEF MailInv, Begun, MailPhaseOf
  <2>2. MailPhaseOf(i)' = "open"
    BY <1>0, <1>1, Zenon DEF MailPhaseOf, Queued, Unsettled
  <2>3. \A o \in Invite \ {i} : mail'[o] = mail[o]
    BY <1>0, <1>1, Zenon
  <2> QED BY <1>1, <2>1, <2>2, <2>3, MailContractMove, Zenon DEF MailContract!Next, MailContract!Publish
<1>2. ASSUME NEW i \in Invite, NEW row, mail[i].state \in Unsettled, mail' = [mail EXCEPT ![i] = row],
             row.state \in Unsettled \cup MailSettled, UNCHANGED mailed, row.state = "accepted" => mailed[i] > 0
      PROVE  MailContract!Next \/ UNCHANGED MailContract!vars
  <2>1. mail'[i] = row /\ \A o \in Invite \ {i} : mail'[o] = mail[o]
    BY <1>0, <1>2, Zenon
  <2>2. MailPhaseOf(i) = "open"
    BY <1>2, Zenon DEF MailPhaseOf, Unsettled
  <2>3. MailContract!Move(i, MailPhaseOf(i), MailPhaseOf(i)')
    BY <1>2, <2>1, MailContractMove, Zenon
  <2>4. CASE row.state \in Unsettled
    <3>1. MailPhaseOf(i)' = "open"
      BY <2>1, <2>4, Zenon DEF MailPhaseOf, Unsettled
    <3>2. \A o \in Invite : MailPhaseOf(o)' = MailPhaseOf(o)
      BY <2>1, <2>2, <3>1, Zenon DEF MailPhaseOf
    <3> QED BY <1>2, <3>2, MailContractStutter, Zenon
  <2>5. CASE row.state = "accepted"
    <3>1. MailPhaseOf(i)' = "delivered"
      BY <2>1, <2>5, Zenon DEF MailPhaseOf, Unsettled
    <3>2. i \in {o \in Invite : mailed[o] > 0}
      BY <1>2, <2>5, Zenon
    <3> QED BY <2>2, <2>3, <3>1, <3>2, Zenon DEF MailContract!Next, MailContract!Settle, MailContract!Deliver
  <2>6. CASE row.state \in {"attention", "cancelled"}
    <3>1. MailPhaseOf(i)' = "attention"
      BY <2>1, <2>6, Zenon DEF MailPhaseOf, Unsettled
    <3> QED BY <2>2, <2>3, <3>1, Zenon DEF MailContract!Next, MailContract!Settle, MailContract!GiveUp
  <2> QED BY <1>2, <2>4, <2>5, <2>6, Zenon DEF MailSettled
<1>3. ASSUME NEW w \in Mailer, NEW i \in Invite, ClaimMail(w, i)
      PROVE  MailContract!Next \/ UNCHANGED MailContract!vars
  <2>1. mail[i].state \in Unsettled /\ mail[i] \in InvitationMail
    BY <1>0, <1>3, Zenon DEF ClaimMail, Ready
  <2>2. \A st \in MailSettled : Settle(mail[i], st).state = st
    BY <2>1, Zenon DEF Settle, InvitationMail
  <2>3. Begin(i).state = "sending"
    BY Zenon DEF Begin
  <2>4. PICK row : mail' = [mail EXCEPT ![i] = row] /\ row.state \in {"cancelled", "attention", "sending"}
    BY <1>3, <2>2, <2>3, Zenon DEF ClaimMail, MailSettled
  <2>5. row.state \in Unsettled \cup MailSettled /\ row.state # "accepted" /\ UNCHANGED mailed
    BY <1>3, <2>4, Zenon DEF ClaimMail, Unsettled, MailSettled
  <2> QED BY <1>2, <2>1, <2>4, <2>5, Zenon
<1>4. ASSUME NEW w \in Mailer, SendArrives(w) PROVE MailContract!Next
  <2>1. /\ job[w].invite \in Invite /\ job[w].age \in Nat /\ job[w].since \in Nat
        /\ InTime(job[w].invite, job[w].age, job[w].since)
    BY <1>4, SendingInTime, Zenon DEF SendArrives
  <2>2. Provided(job[w].invite)
    BY <1>4, <2>1, ProvideOnce, Zenon DEF SendArrives, MailInv
  <2> QED BY <1>4, <2>1, <2>2, ContractAccept, Zenon DEF SendArrives, InTime
<1>5. ASSUME NEW r \in floating, ArriveLate(r) PROVE MailContract!Next
  <2>1. /\ r.invite \in Invite /\ r.age \in Nat /\ r.since \in Nat /\ InTime(r.invite, r.age, r.since)
    BY FloatingInTime, Zenon
  <2>2. Provided(r.invite)
    BY <1>5, <2>1, ProvideOnce, Zenon DEF ArriveLate, MailInv
  <2> QED BY <1>5, <2>1, <2>2, ContractAccept, Zenon DEF ArriveLate, InTime
<1>6. ASSUME NEW w \in Mailer, Finish(w) PROVE MailContract!Next \/ UNCHANGED MailContract!vars
  <2>1. job[w] \in MailJob /\ job[w].invite \in Invite
    BY <1>6, JobTyped, Zenon DEF Finish, MailJob, MailInv
  <2>2. CASE UNCHANGED mail
    <3>1. \A i \in Invite : MailPhaseOf(i)' = MailPhaseOf(i)
      BY <2>2, Zenon DEF MailPhaseOf
    <3> QED BY <1>6, <3>1, MailContractStutter, Zenon DEF Finish
  <2>3. ASSUME Current(w), NEW asked \in MailRetryAfter,
               mail' = [mail EXCEPT ![job[w].invite] = MailOutcome(w, asked)]
        PROVE  MailContract!Next \/ UNCHANGED MailContract!vars
    <3> DEFINE i == job[w].invite
    <3>1. mail[i] \in InvitationMail /\ mail[i].state \in Unsettled
      BY <1>0, <2>1, <2>3, Zenon DEF Current, Unsettled
    <3>2. \E k : MailOutcome(w, asked) \in {Settle(mail[i], "attention"),
                                        [mail[i] EXCEPT !.state = "retrying", !.wait = k]}
          \/ (job[w].pc = "ok" /\ MailOutcome(w, asked) = Settle(mail[i], "accepted"))
      BY Zenon DEF MailOutcome
    <3>3. /\ MailOutcome(w, asked).state \in {"attention", "retrying", "accepted"}
          /\ MailOutcome(w, asked).state = "accepted" => job[w].pc = "ok"
      BY <3>1, <3>2, Zenon DEF Settle, InvitationMail
    <3>4. MailOutcome(w, asked).state = "accepted" => mailed[i] > 0
      BY <3>3, Zenon DEF MailInv, Earned
    <3>5. UNCHANGED mailed
      BY <1>6, Zenon DEF Finish
    <3>6. MailOutcome(w, asked).state \in Unsettled \cup MailSettled
      BY <3>3, Zenon DEF Unsettled, MailSettled
    <3> HIDE DEF i
    <3> QED BY <1>2, <2>1, <2>3, <3>1, <3>4, <3>5, <3>6, Zenon DEF i
  <2> QED BY <1>6, <2>2, <2>3, Zenon DEF Finish
<1>7. CASE MailTick
  <2>1. \A i \in Invite : mail'[i].state = mail[i].state
    BY <1>0, <1>7, Zenon DEF MailTick, InvitationMail
  <2>2. \A i \in Invite : MailPhaseOf(i)' = MailPhaseOf(i)
    BY <2>1, Zenon DEF MailPhaseOf
  <2> QED BY <1>7, <2>2, MailContractStutter, Zenon DEF MailTick
<1>8. CASE UNCHANGED <<mail, mailed>>
  <2>1. \A i \in Invite : MailPhaseOf(i)' = MailPhaseOf(i)
    BY <1>8, Zenon DEF MailPhaseOf
  <2> QED BY <1>8, <2>1, MailContractStutter, Zenon
<1> QED
  BY <1>1, <1>3, <1>4, <1>5, <1>6, <1>7, <1>8, Zenon
     DEF MailNext, Invitations, Work, Create, Accept, Withdraw, Resend, ChangeAuthority, SendRefused,
         SendTimesOut, Crash, LoseLate, mailVars

\* The mail outbox implements the contract of a durable outbox.
THEOREM MailImplementsContract == MailSpec => ImplementsDelivery
  BY MailContractInit, MailContractStep, MailInvariance, PTL DEF MailSpec, ImplementsDelivery, MailContract!Safety

=============================================================================
