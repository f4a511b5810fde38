----------------------- MODULE ResourceAdmissionProofs -----------------------
(***************************************************************************)
(* Proofs about ResourceAdmission for every number of callers, all limits  *)
(* and any number of governors.                                            *)
(***************************************************************************)
EXTENDS ResourceGateProofs

----------------------------------------------------------------------------
(***************************************************************************)
(* The invariant is inductive: one lemma per action, or per group of them. *)
(***************************************************************************)

Remotes == [Request -> {"none", "active", "bulk"}]

\* What the provers need of the invariant everywhere.
LEMMA Facts ==
    ASSUME IInv
    PROVE  /\ pc \in Steps /\ class \in Classes /\ remote \in Remotes
           /\ gate \in Gate /\ LinesOK(gate) /\ ParkingOK(gate, pc) /\ GateOK(gate, pc, class)
           /\ \A r \in Request : CallerOK(gate, r, pc[r], class[r])
           /\ gate.active <= ActiveCapacity /\ ActiveCapacity \in Nat /\ Fits(gate) /\ Quiet(gate, pc)
           /\ "bulk" \in Class /\ "interactive" \in Class
  BY LimitAssumption DEF IInv, TypeOK, Steps, Classes, Remotes, Fits, ActiveCapacity, Class, GateOK

\* A step of a permit, or of a waiting caller that gets one.
LEMMA StepIInv ==
    ASSUME IInv, NEW r \in Request, pc[r] \in Live \cup {"queued"}, pc'[r] \in Live,
           pc' \in Steps, class' \in Classes, remote' \in Remotes, UNCHANGED <<governor, seen>>,
           OthersSame(pc, pc', class, class', r), \A s \in Request \ {r} : remote'[s] = remote[s],
           GateOK(gate', pc', class'), Fits(gate'), Quiet(gate', pc'),
           gate'.parked \subseteq gate.parked \cup {r},
           remote'[r] = "bulk" =>
               /\ pc'[r] \in {"working", "releasing", "parking", "staying", "abandoning"}
               /\ class'[r] # "interactive" /\ r \notin gate'.parked
    PROVE  IInv'
  <1>1. GateOK(gate, pc, class)'
    BY Zenon
  <1>2. ActiveCapacity' = ActiveCapacity
    BY Zenon DEF ActiveCapacity, governor
  <1>3. Fits(gate)' /\ Quiet(gate, pc)'
    BY <1>2, Zenon DEF Fits, Quiet
  <1>4. TypeOK'
    BY Zenon DEF IInv, TypeOK, GateOK, Steps, Classes, Remotes, governor
  <1>5. OneRegime'
    BY Zenon DEF IInv, OneRegime, OthersSame, governor
  <1>6. RemoteOK'
    BY Zenon DEF IInv, RemoteOK, OthersSame
  <1>7. RestoringMeansBusy'
    <2>1. Held(gate', pc', r)
      BY Zenon DEF Held
    <2>2. gate'.active >= 1
      BY <2>1, Counters, Zenon
    <2>3. gate'.active # 0
      BY <2>2, Counters
    <2> QED BY <2>3, Zenon DEF RestoringMeansBusy, IdleGate
  <1> QED BY <1>1, <1>3, <1>4, <1>5, <1>6, <1>7, Zenon DEF IInv

\* Counting something in and out again leaves a counter as it was.
LEMMA AddAndTake == \A n, k \in Nat : n = n + k - k
  OBVIOUS

\* A permit goes on without the gate: calls to the governor, and the wake-up.
LEMMA PermitStep ==
    ASSUME IInv, NEW r \in Request, pc[r] \in Live, NEW step \in Live, Goto(r, step),
           UNCHANGED <<gate, governor, class, seen>>,
           NEW held \in {"none", "active", "bulk"}, remote' = [remote EXCEPT ![r] = held],
           CallerOK(gate, r, step, class[r]),
           r \in gate.granted \/ step = "surrendering" => Yielding(gate, pc, r), step # "parking",
           held = "bulk" => /\ step \in {"working", "releasing", "parking", "staying", "abandoning"}
                            /\ class[r] # "interactive" /\ r \notin gate.parked
    PROVE  IInv'
  <1>1. /\ pc \in Steps /\ class \in Classes /\ remote \in Remotes /\ GateOK(gate, pc, class)
        /\ gate \in Gate /\ LinesOK(gate) /\ ParkingOK(gate, pc) /\ Fits(gate) /\ Quiet(gate, pc)
    BY Facts, Zenon
  <1>2. /\ pc' \in Steps /\ pc'[r] = step /\ class' = class /\ gate' = gate
        /\ remote' \in Remotes /\ remote'[r] = held /\ \A s \in Request \ {r} : remote'[s] = remote[s]
        /\ OthersSame(pc, pc', class, class', r)
    BY <1>1, Zenon DEF Goto, Steps, Step, Remotes, OthersSame
  <1>3. \A s \in Request \ {r} : Unmoved(gate, pc, class, gate', pc', class', s)
    BY <1>2, Zenon DEF Unmoved, OthersSame
  <1>4. ParkingOK(gate', pc')
    <2>1. \A s \in Request : Yielding(gate', pc', s) => Yielding(gate, pc, s)
      BY <1>2, Zenon DEF Yielding, OthersSame
    <2> QED BY <1>1, <1>2, <2>1, Zenon DEF ParkingOK
  <1>5. /\ Held(gate', pc', r) /\ Held(gate, pc, r)
        /\ HasBulk(gate', pc', class', r) <=> HasBulk(gate, pc, class, r)
    BY <1>2, Zenon DEF Held, HasBulk
  <1>6. gate.active \in Nat /\ gate.bulk \in {0, 1}
    BY <1>1, Counters, Zenon
  <1>7. /\ gate'.active = gate.active + One(Held(gate', pc', r)) - One(Held(gate, pc, r))
        /\ gate'.bulk = gate.bulk + One(HasBulk(gate', pc', class', r)) - One(HasBulk(gate, pc, class, r))
        /\ gate'.bulk <= 1
    <2>1. One(Held(gate', pc', r)) = 1 /\ One(Held(gate, pc, r)) = 1
      BY <1>5, Zenon DEF One
    <2>2. One(HasBulk(gate', pc', class', r)) = One(HasBulk(gate, pc, class, r))
      BY <1>5, Zenon DEF One
    <2>3. One(HasBulk(gate, pc, class, r)) \in Nat
      BY Zenon DEF One
    <2>4. gate.bulk \in Nat /\ gate.bulk <= 1 /\ 1 \in Nat
      BY <1>6
    <2>5. gate.active = gate.active + 1 - 1
      BY <1>6, <2>4, AddAndTake, Zenon
    <2>6. gate'.active = gate.active + One(Held(gate', pc', r)) - One(Held(gate, pc, r))
      BY <1>2, <2>1, <2>5, Zenon
    <2>7. gate.bulk = gate.bulk + One(HasBulk(gate, pc, class, r)) - One(HasBulk(gate, pc, class, r))
      BY <2>3, <2>4, AddAndTake, Zenon
    <2>8. gate'.bulk = gate.bulk + One(HasBulk(gate', pc', class', r)) - One(HasBulk(gate, pc, class, r))
      BY <1>2, <2>2, <2>7, Zenon
    <2> QED BY <1>2, <2>4, <2>6, <2>8, Zenon
  <1>8. CallerOK(gate', r, pc'[r], class'[r])
    BY <1>2, Zenon
  <1>9. gate' \in Gate /\ LinesOK(gate') /\ class' \in Classes
    BY <1>1, <1>2, Zenon
  <1>10. GateOK(gate', pc', class')
    BY <1>1, <1>2, <1>3, <1>4, <1>7, <1>8, <1>9, OneCaller, Zenon
  <1>11. Quiet(gate', pc')
    <2>1. gate.waiters["bulk"] # <<>> => Head(gate.waiters["bulk"]) \in Request
      BY <1>1 DEF Gate, Class
    <2> QED BY <1>1, <1>2, <2>1, Zenon DEF Quiet, OthersSame
  <1> QED BY <1>1, <1>2, <1>9, <1>10, <1>11, StepIInv, Zenon

\* The governor is asked for a permit, an upgrade, to park or to resume, or is
\* given back what a permit holds of it.
LEMMA RemoteSteps ==
    ASSUME IInv, NEW r \in Request,
           AcquireRemote(r) \/ ReleaseRemote(r) \/ UpgradeRemote(r) \/ ParkRemote(r) \/ AbandonRemote(r)
    PROVE  IInv'
  <1>1. /\ CallerOK(gate, r, pc[r], class[r]) /\ class[r] \in PermitClass
        /\ remote[r] \in {"none", "active", "bulk"}
    BY Facts, Zenon DEF Classes, Remotes
  <1>2. remote[r] = "bulk" =>
            /\ pc[r] \in {"working", "releasing", "parking", "staying", "abandoning"}
            /\ class[r] # "interactive" /\ r \notin gate.parked
    BY Zenon DEF IInv, RemoteOK
  <1>3. CASE AcquireRemote(r)
    <2>1. PICK step \in {"working", "releasing"}, held \in {"none", Share(r)} :
              Goto(r, step) /\ remote' = [remote EXCEPT ![r] = held]
      BY <1>3, Zenon DEF AcquireRemote
    <2>2. pc[r] = "admitted" /\ UNCHANGED <<gate, governor, class, seen>>
      BY <1>3, Zenon DEF AcquireRemote
    <2>3. class[r] \in Class /\ Nowhere(gate, r) /\ r \notin gate.parked
      BY <1>1, <2>2, Zenon DEF CallerOK
    <2>4. CallerOK(gate, r, step, class[r]) /\ r \notin gate.granted
      BY <2>3, Zenon DEF CallerOK, Nowhere
    <2>5. held \in {"none", "active", "bulk"} /\ (held = "bulk" => class[r] # "interactive")
      BY Zenon DEF Share, IsBulk
    <2>6. pc[r] \in Live /\ step \in Live /\ step # "surrendering" /\ step # "parking"
      BY <2>2, Zenon DEF Live
    <2> QED BY <2>1, <2>2, <2>3, <2>4, <2>5, <2>6, PermitStep, Zenon
  <1>4. CASE ReleaseRemote(r)
    <2>1. /\ pc[r] \in {"working", "parked", "releasing"} /\ Goto(r, "leaving")
          /\ remote' = [remote EXCEPT ![r] = "none"] /\ UNCHANGED <<gate, governor, class, seen>>
      BY <1>4, Zenon DEF ReleaseRemote
    <2>2. CallerOK(gate, r, "leaving", class[r])
      BY <1>1, <2>1, Zenon DEF CallerOK
    <2>3. r \in gate.granted => Yielding(gate, pc, r)
      BY <2>1, Zenon DEF Yielding
    <2>4. pc[r] \in Live /\ "leaving" \in Live
      BY <2>1, Zenon DEF Live
    <2> QED BY <2>1, <2>2, <2>3, <2>4, PermitStep, Zenon
  <1>5. CASE UpgradeRemote(r)
    <2>1. pc[r] = "upgrading" /\ UNCHANGED <<gate, governor, class, seen>>
      BY <1>5, Zenon DEF UpgradeRemote
    <2>2. class[r] = "upgraded" /\ Nowhere(gate, r) /\ r \notin gate.parked
      BY <1>1, <2>1, Zenon DEF CallerOK
    <2>3. PICK step \in {"working", "downgrading"}, held \in {"none", "active", "bulk"} :
              /\ Goto(r, step) /\ remote' = [remote EXCEPT ![r] = held]
              /\ step = "downgrading" => held # "bulk"
      BY <1>5, Zenon DEF UpgradeRemote, Abandoned
    <2>4. CallerOK(gate, r, step, class[r]) /\ r \notin gate.granted
      BY <2>2, Zenon DEF CallerOK, Nowhere
    <2>5. pc[r] \in Live /\ step \in Live /\ step # "surrendering" /\ step # "parking"
      BY <2>1, Zenon DEF Live
    <2> QED BY <2>1, <2>2, <2>3, <2>4, <2>5, PermitStep, Zenon
  <1>6. CASE ParkRemote(r)
    <2>1. pc[r] = "parking" /\ UNCHANGED <<gate, governor, class, seen>>
      BY <1>6, Zenon DEF ParkRemote
    <2>2. class[r] = "bulk" /\ Waits(gate, "bulk", r) /\ r \notin gate.parked
      BY <1>1, <2>1, Zenon DEF CallerOK
    <2>3. PICK step \in {"surrendering", "staying"}, held \in {"none", "active", "bulk"} :
              /\ Goto(r, step) /\ remote' = [remote EXCEPT ![r] = held]
              /\ step = "surrendering" => held # "bulk"
      BY <1>1, <1>6, Zenon DEF ParkRemote, Parked
    <2>4. CallerOK(gate, r, step, class[r]) /\ Yielding(gate, pc, r)
      BY <2>1, <2>2, Zenon DEF CallerOK, Yielding
    <2>5. pc[r] \in Live /\ step \in Live /\ step # "parking"
      BY <2>1, Zenon DEF Live
    <2> QED BY <2>1, <2>2, <2>3, <2>4, <2>5, PermitStep, Zenon
  <1>7. CASE AbandonRemote(r)
    <2>1. pc[r] = "abandoning" /\ UNCHANGED <<gate, governor, class, seen>> /\ Goto(r, "reparking")
      BY <1>7, Zenon DEF AbandonRemote
    <2>2. PICK held \in {"none", "active"} : remote' = [remote EXCEPT ![r] = held]
      BY <1>7, Zenon DEF AbandonRemote, Abandoned
    <2>3. CallerOK(gate, r, "reparking", class[r]) /\ Yielding(gate, pc, r)
      BY <1>1, <2>1, Zenon DEF CallerOK, Yielding, Notified
    <2>4. pc[r] \in Live /\ "reparking" \in Live
      BY <2>1, Zenon DEF Live
    <2> QED BY <2>1, <2>2, <2>3, <2>4, PermitStep, Zenon
  <1> QED BY <1>3, <1>4, <1>5, <1>6, <1>7, Zenon

\* A grant is noticed.
LEMMA CollectOK ==
    ASSUME NEW g, NEW p \in Steps, NEW k \in Classes, GateOK(g, p, k), Quiet(g, p),
           NEW q \in Steps, NEW r \in Request, OthersSame(p, q, k, k, r), r \in g.granted,
           \/ p[r] = "queued" /\ q[r] \in {"admitted", "working"}
           \/ p[r] = "resuming" /\ q[r] = "working"
    PROVE  LET h == [g EXCEPT !.granted = @ \ {r}]
           IN  /\ GateOK(h, q, k) /\ Quiet(h, q) /\ h.active = g.active
               /\ h.parked = g.parked /\ r \notin h.parked
  <1> DEFINE h == [g EXCEPT !.granted = @ \ {r}]
  <1>1. g \in Gate /\ LinesOK(g) /\ ParkingOK(g, p) /\ CallerOK(g, r, p[r], k[r])
    BY Zenon DEF GateOK
  <1>2. /\ h.active = g.active /\ h.bulk = g.bulk /\ h.waiters = g.waiters
        /\ h.granted = g.granted \ {r} /\ h.parked = g.parked /\ h.retained = g.retained
        /\ h \in Gate
    BY <1>1, Zenon DEF Gate
  <1> HIDE DEF h
  <1>3. \A c \in Class : Waiting(h, c) = Waiting(g, c)
    BY <1>2, Zenon DEF Waiting
  <1>4. Notified(g, r) /\ r \notin g.parked /\ k[r] \in Class
    BY <1>1, Zenon DEF CallerOK, Waits, Class
  <1>5. Nowhere(h, r)
    BY <1>2, <1>3, <1>4, Zenon DEF Nowhere, Notified, Class
  <1>6. CallerOK(h, r, q[r], k[r])
    BY <1>2, <1>4, <1>5, Zenon DEF CallerOK
  <1>7. \A s \in Request \ {r} : Unmoved(g, p, k, h, q, k, s)
    BY <1>2, <1>3, Zenon DEF Unmoved, OthersSame
  <1>8. ParkingOK(h, q)
    <2>1. ~Yielding(h, q, r)
      BY <1>2, Zenon DEF Yielding
    <2>2. \A s \in Request \ {r} : Yielding(h, q, s) => Yielding(g, p, s)
      BY <1>2, Zenon DEF Yielding, OthersSame
    <2> QED BY <1>1, <1>2, <2>1, <2>2, Zenon DEF ParkingOK
  <1>9. Held(h, q, r) /\ Held(g, p, r) /\ (HasBulk(h, q, k, r) <=> HasBulk(g, p, k, r))
    BY <1>2, Zenon DEF Held, HasBulk, Live
  <1>10. g.active \in Nat /\ g.bulk \in {0, 1}
    BY Counters, Zenon
  <1>11. /\ h.active = g.active + One(Held(h, q, r)) - One(Held(g, p, r))
         /\ h.bulk = g.bulk + One(HasBulk(h, q, k, r)) - One(HasBulk(g, p, k, r))
         /\ h.bulk <= 1
    BY <1>2, <1>9, <1>10 DEF One
  <1>12. LinesOK(h)
    BY <1>1, <1>2, Zenon DEF LinesOK
  <1>13. GateOK(h, q, k)
    BY <1>2, <1>6, <1>7, <1>8, <1>11, <1>12, OneCaller, Zenon
  <1>14. Quiet(h, q)
    <2>1. g.waiters["bulk"] # <<>> => Head(g.waiters["bulk"]) \in Waiting(g, "bulk") /\ Head(g.waiters["bulk"]) \in Request
      BY <1>1, HeadTaken, Zenon DEF Gate, LinesOK, Class, Waiting
    <2>2. r \notin Waiting(g, "bulk")
      BY <1>4, Zenon DEF Notified
    <2>3. g.waiters["bulk"] # <<>> => q[Head(g.waiters["bulk"])] = p[Head(g.waiters["bulk"])]
      BY <2>1, <2>2, Zenon DEF OthersSame
    <2> QED BY <1>2, <2>3, Zenon DEF Quiet
  <1> QED BY <1>2, <1>4, <1>13, <1>14, Zenon DEF h

\* A waiting caller notices its grant.
LEMMA ProceedIInv ==
    ASSUME IInv, NEW r \in Request, Proceed(r)
    PROVE  IInv'
  <1>1. /\ pc[r] = "queued" /\ r \in gate.granted /\ gate' = [gate EXCEPT !.granted = @ \ {r}]
        /\ Goto(r, Admitted(r)) /\ UNCHANGED <<governor, class, seen, remote>>
    BY Zenon DEF Proceed
  <1>2. /\ pc \in Steps /\ class \in Classes /\ remote \in Remotes /\ GateOK(gate, pc, class)
        /\ Quiet(gate, pc) /\ Fits(gate)
    BY Facts, Zenon
  <1>3. /\ pc' \in Steps /\ pc'[r] \in {"admitted", "working"} /\ OthersSame(pc, pc', class, class', r)
    BY <1>1, <1>2, Zenon DEF Goto, Steps, Step, Live, OthersSame, Admitted
  <1>4. /\ GateOK(gate', pc', class') /\ Quiet(gate', pc') /\ gate'.active = gate.active /\ gate'.parked = gate.parked
    BY <1>1, <1>2, <1>3, CollectOK
  <1>5. Fits(gate')
    BY <1>2, <1>4, Zenon DEF Fits
  <1>6. remote[r] # "bulk"
    BY <1>1, Zenon DEF IInv, RemoteOK
  <1>7. pc[r] \in Live \cup {"queued"} /\ pc'[r] \in Live
    BY <1>1, <1>3, Zenon DEF Live
  <1>8. class' = class /\ remote' = remote /\ UNCHANGED <<governor, seen>>
    BY <1>1, Zenon
  <1> QED BY <1>2, <1>3, <1>4, <1>5, <1>6, <1>7, <1>8, StepIInv, Zenon

\* The share of the governor is taken back, or not.
LEMMA ResumeRemoteIInv ==
    ASSUME IInv, NEW r \in Request, ResumeRemote(r)
    PROVE  IInv'
  <1>1. pc[r] = "resuming" /\ UNCHANGED <<governor, class, seen>>
    BY Zenon DEF ResumeRemote
  <1>2. /\ pc \in Steps /\ class \in Classes /\ remote \in Remotes /\ GateOK(gate, pc, class)
        /\ Quiet(gate, pc) /\ Fits(gate) /\ CallerOK(gate, r, pc[r], class[r])
    BY Facts, Zenon
  <1>3. class[r] = "bulk" /\ Notified(gate, r) /\ r \notin gate.parked /\ r \in gate.granted
    BY <1>1, <1>2, Zenon DEF CallerOK, Notified
  <1>4. CASE /\ remote' = [remote EXCEPT ![r] = IF @ = "none" THEN "none" ELSE "bulk"]
             /\ gate' = [gate EXCEPT !.granted = @ \ {r}]
             /\ Goto(r, "working")
    <2>1. /\ pc' \in Steps /\ pc'[r] = "working" /\ OthersSame(pc, pc', class, class', r)
          /\ remote' \in Remotes /\ \A s \in Request \ {r} : remote'[s] = remote[s]
      BY <1>1, <1>2, <1>4, Zenon DEF Goto, Steps, Step, Live, OthersSame, Remotes
    <2>2. /\ GateOK(gate', pc', class') /\ Quiet(gate', pc') /\ gate'.active = gate.active
          /\ gate'.parked = gate.parked
      BY <1>1, <1>2, <1>3, <1>4, <2>1, CollectOK
    <2>3. Fits(gate')
      BY <1>2, <2>2, Zenon DEF Fits
    <2>4. pc[r] \in Live \cup {"queued"} /\ pc'[r] \in Live
      BY <1>1, <2>1, Zenon DEF Live
    <2>5. class' = class /\ UNCHANGED <<governor, seen>>
      BY <1>1, Zenon
    <2> QED BY <1>2, <1>3, <2>1, <2>2, <2>3, <2>4, <2>5, StepIInv, Zenon
  <1>5. CASE /\ \E held \in {remote[r], IF remote[r] = "none" THEN "none" ELSE "bulk"} :
                   remote' = [remote EXCEPT ![r] = held]
             /\ UNCHANGED gate /\ Goto(r, "abandoning")
    <2>1. PICK held \in {"none", "active", "bulk"} : remote' = [remote EXCEPT ![r] = held]
      BY <1>2, <1>5, Zenon DEF Remotes
    <2>2. CallerOK(gate, r, "abandoning", class[r]) /\ Yielding(gate, pc, r)
      BY <1>1, <1>3, Zenon DEF CallerOK, Yielding
    <2>3. pc[r] \in Live /\ "abandoning" \in Live
      BY <1>1, Zenon DEF Live
    <2>4. UNCHANGED <<gate, governor, class, seen>>
      BY <1>1, <1>5, Zenon
    <2> QED BY <1>3, <1>5, <2>1, <2>2, <2>3, <2>4, PermitStep, Zenon
  <1> QED BY <1>4, <1>5, Zenon DEF ResumeRemote

\* The nested acquisition takes the free bulk slot.
LEMMA UpgradeIInv ==
    ASSUME IInv, NEW r \in Request, Upgrade(r)
    PROVE  IInv'
  <1>1. /\ pc[r] = "working" /\ class[r] = "interactive" /\ gate.bulk = 0
        /\ class' = [class EXCEPT ![r] = "upgraded"] /\ gate' = [gate EXCEPT !.bulk = @ + 1]
        /\ Goto(r, "upgrading") /\ UNCHANGED <<governor, seen, remote>>
    BY Zenon DEF Upgrade, CanUpgrade
  <1>2. /\ pc \in Steps /\ class \in Classes /\ remote \in Remotes /\ GateOK(gate, pc, class) /\ gate \in Gate
        /\ LinesOK(gate) /\ ParkingOK(gate, pc) /\ Quiet(gate, pc) /\ Fits(gate) /\ CallerOK(gate, r, pc[r], class[r])
    BY Facts, Zenon
  <1>3. Nowhere(gate, r) /\ r \notin gate.parked
    BY <1>1, <1>2, Zenon DEF CallerOK
  <1>4. /\ gate'.active = gate.active /\ gate'.bulk = 1 /\ gate'.waiters = gate.waiters
        /\ gate'.granted = gate.granted /\ gate'.parked = gate.parked /\ gate'.retained = gate.retained
        /\ gate' \in Gate
    <2>1. gate' = [gate EXCEPT !.bulk = 1]
      BY <1>1
    <2> QED BY <1>2, <2>1, BulkSet, Zenon
  <1>5. /\ pc' \in Steps /\ pc'[r] = "upgrading" /\ class' \in Classes /\ class'[r] = "upgraded"
        /\ OthersSame(pc, pc', class, class', r)
    BY <1>1, <1>2, Zenon DEF Goto, Steps, Step, Live, Classes, PermitClass, OthersSame
  <1>6. \A c \in Class : Waiting(gate', c) = Waiting(gate, c)
    BY <1>4, Zenon DEF Waiting
  <1>7. CallerOK(gate', r, pc'[r], class'[r])
    BY <1>3, <1>4, <1>5, <1>6, Zenon DEF CallerOK, Nowhere, Class
  <1>8. \A s \in Request \ {r} : Unmoved(gate, pc, class, gate', pc', class', s)
    BY <1>4, <1>5, <1>6, Zenon DEF Unmoved, OthersSame
  <1>9. ParkingOK(gate', pc')
    <2>1. \A s \in Request : Yielding(gate', pc', s) => Yielding(gate, pc, s)
      BY <1>3, <1>4, <1>5, Zenon DEF Yielding, OthersSame, Nowhere
    <2> QED BY <1>2, <1>4, <2>1, Zenon DEF ParkingOK
  <1>10. /\ Held(gate', pc', r) /\ Held(gate, pc, r)
         /\ HasBulk(gate', pc', class', r) /\ ~HasBulk(gate, pc, class, r)
    BY <1>1, <1>3, <1>4, <1>5, Zenon DEF Held, HasBulk, Live
  <1>11. gate.active \in Nat
    BY <1>2, Counters, Zenon
  <1>12. /\ gate'.active = gate.active + One(Held(gate', pc', r)) - One(Held(gate, pc, r))
         /\ gate'.bulk = gate.bulk + One(HasBulk(gate', pc', class', r)) - One(HasBulk(gate, pc, class, r))
         /\ gate'.bulk <= 1
    BY <1>1, <1>4, <1>10, <1>11 DEF One
  <1>13. LinesOK(gate')
    BY <1>2, <1>4, Zenon DEF LinesOK
  <1>14. GateOK(gate', pc', class')
    BY <1>2, <1>4, <1>5, <1>7, <1>8, <1>9, <1>12, <1>13, OneCaller, Zenon
  <1>15. Quiet(gate', pc') /\ Fits(gate')
    <2>1. gate'.bulk # 0
      BY <1>4
    <2>2. Quiet(gate', pc')
      BY <1>2, <1>4, <2>1, Zenon DEF Quiet
    <2> QED BY <1>2, <1>4, <2>2, Zenon DEF Fits
  <1>16. pc[r] \in Live \cup {"queued"} /\ pc'[r] \in Live
    BY <1>1, <1>5, Zenon DEF Live
  <1>17. remote' = remote /\ remote[r] # "bulk" /\ UNCHANGED <<governor, seen>>
    BY <1>1, Zenon DEF IInv, RemoteOK
  <1> QED BY <1>2, <1>4, <1>5, <1>14, <1>15, <1>16, <1>17, StepIInv, Zenon

\* A step of a permit that ends with a dispatch of the gate h.
LEMMA DispatchStep ==
    ASSUME IInv, NEW r \in Request, NEW h, gate' = Dispatch(h), pc[r] \in Live, NEW step \in Live, Goto(r, step),
           class' \in Classes, OthersSame(pc, pc', class, class', r), UNCHANGED <<governor, seen, remote>>,
           GateOK(h, pc', class'), Fits(h), h.parked \subseteq gate.parked \cup {r},
           remote[r] # "bulk"
    PROVE  IInv'
  <1>1. pc \in Steps /\ remote \in Remotes
    BY Facts, Zenon
  <1>2. pc' \in Steps /\ pc'[r] = step /\ \A s \in Request \ {r} : pc'[s] = pc[s]
    BY <1>1, Zenon DEF Goto, Steps, Step
  <1>3. Waiting(h, "bulk") \subseteq Request
    <2>1. h.waiters["bulk"] \in Seq(Request)
      BY Zenon DEF GateOK, Gate, Class
    <2> QED BY <2>1, Members DEF Waiting
  <1>4. \A s \in Waiting(h, "bulk") : Resumes(s) <=> pc'[s] \in Live
    BY <1>2, <1>3, Zenon DEF Resumes
  <1>5. GateOK(gate', pc', class') /\ Fits(gate') /\ Quiet(gate', pc') /\ gate'.parked \subseteq h.parked
    BY <1>2, <1>4, DispatchOK, Zenon
  <1>6. remote' = remote /\ UNCHANGED <<governor, seen>>
    BY Zenon
  <1> QED BY <1>1, <1>2, <1>5, <1>6, StepIInv, Zenon

\* A failed upgrade gives the bulk slot back.
LEMMA DowngradeIInv ==
    ASSUME IInv, NEW r \in Request, Downgrade(r)
    PROVE  IInv'
  <1> DEFINE h == [gate EXCEPT !.bulk = @ - 1]
  <1>1. /\ pc[r] = "downgrading" /\ class' = [class EXCEPT ![r] = "interactive"] /\ gate' = Dispatch(h)
        /\ Goto(r, "working") /\ UNCHANGED <<governor, seen, remote>>
    BY Zenon DEF Downgrade
  <1>2. /\ pc \in Steps /\ class \in Classes /\ remote \in Remotes /\ GateOK(gate, pc, class) /\ gate \in Gate
        /\ LinesOK(gate) /\ ParkingOK(gate, pc) /\ Fits(gate) /\ CallerOK(gate, r, pc[r], class[r])
    BY Facts, Zenon
  <1>3. class[r] = "upgraded" /\ Nowhere(gate, r) /\ r \notin gate.parked
    BY <1>1, <1>2, Zenon DEF CallerOK
  <1>4. Held(gate, pc, r) /\ HasBulk(gate, pc, class, r)
    BY <1>1, <1>3, Zenon DEF Held, HasBulk, Live
  <1>5. gate.active \in Nat /\ gate.bulk = 1
    BY <1>2, <1>4, Counters, Zenon
  <1>6. /\ h.active = gate.active /\ h.bulk = 0 /\ h.waiters = gate.waiters
        /\ h.granted = gate.granted /\ h.parked = gate.parked /\ h.retained = gate.retained
        /\ h \in Gate
    <2>1. h = [gate EXCEPT !.bulk = 0]
      BY <1>5
    <2> HIDE DEF h
    <2> QED BY <1>2, <2>1, BulkSet, Zenon
  <1> HIDE DEF h
  <1>7. /\ pc' \in Steps /\ pc'[r] = "working" /\ class' \in Classes /\ class'[r] = "interactive"
        /\ OthersSame(pc, pc', class, class', r)
    BY <1>1, <1>2, Zenon DEF Goto, Steps, Step, Live, Classes, PermitClass, Class, OthersSame
  <1>8. \A c \in Class : Waiting(h, c) = Waiting(gate, c)
    BY <1>6, Zenon DEF Waiting
  <1>9. CallerOK(h, r, pc'[r], class'[r])
    BY <1>3, <1>6, <1>7, <1>8, Zenon DEF CallerOK, Nowhere, Class
  <1>10. \A s \in Request \ {r} : Unmoved(gate, pc, class, h, pc', class', s)
    BY <1>6, <1>7, <1>8, Zenon DEF Unmoved, OthersSame
  <1>11. ParkingOK(h, pc')
    <2>1. \A s \in Request : Yielding(h, pc', s) => Yielding(gate, pc, s)
      BY <1>3, <1>6, <1>7, Zenon DEF Yielding, OthersSame, Nowhere
    <2> QED BY <1>2, <1>6, <2>1, Zenon DEF ParkingOK
  <1>12. Held(h, pc', r) /\ ~HasBulk(h, pc', class', r)
    BY <1>7, Zenon DEF Held, HasBulk, Live
  <1>13. /\ h.active = gate.active + One(Held(h, pc', r)) - One(Held(gate, pc, r))
         /\ h.bulk = gate.bulk + One(HasBulk(h, pc', class', r)) - One(HasBulk(gate, pc, class, r))
         /\ h.bulk <= 1
    BY <1>4, <1>5, <1>6, <1>12 DEF One
  <1>14. LinesOK(h)
    BY <1>2, <1>6, Zenon DEF LinesOK
  <1>15. GateOK(h, pc', class')
    BY <1>2, <1>6, <1>7, <1>9, <1>10, <1>11, <1>13, <1>14, OneCaller, Zenon
  <1>16. Fits(h)
    BY <1>2, <1>6, Zenon DEF Fits
  <1>17. pc[r] \in Live /\ "working" \in Live /\ remote[r] # "bulk"
    BY <1>1, Zenon DEF Live, IInv, RemoteOK
  <1> QED BY <1>1, <1>6, <1>7, <1>15, <1>16, <1>17, DispatchStep, Zenon

\* A permit queues for its own bulk slot.
LEMMA YieldIInv ==
    ASSUME IInv, NEW r \in Request, Yield(r)
    PROVE  IInv'
  <1>1. /\ pc[r] = "working" /\ class[r] = "bulk" /\ r \notin gate.parked /\ gate.retained = NoRequest
        /\ gate' = Enqueue(gate, "bulk", r) /\ Goto(r, "parking") /\ UNCHANGED <<governor, class, seen, remote>>
    BY Zenon DEF Yield, CanYield
  <1>2. /\ pc \in Steps /\ class \in Classes /\ remote \in Remotes /\ GateOK(gate, pc, class) /\ gate \in Gate
        /\ LinesOK(gate) /\ Fits(gate) /\ Quiet(gate, pc) /\ CallerOK(gate, r, pc[r], class[r])
        /\ "bulk" \in Class
    BY Facts, Zenon
  <1>3. Nowhere(gate, r)
    BY <1>1, <1>2, Zenon DEF CallerOK
  <1>4. /\ pc' \in Steps /\ pc'[r] = "parking" /\ class' = class /\ OthersSame(pc, pc', class, class', r)
        /\ pc[r] \in Live /\ pc'[r] \in Live
    BY <1>1, <1>2, Zenon DEF Goto, Steps, Step, Live, OthersSame
  <1>5. GateOK(gate', pc', class')
    BY <1>1, <1>2, <1>3, <1>4, JoinOK, Zenon
  <1>6. /\ gate'.active = gate.active /\ gate'.bulk = gate.bulk /\ gate'.parked = gate.parked
        /\ gate'.waiters["interactive"] = gate.waiters["interactive"]
    <2>1. r \notin Waiting(gate, "bulk") /\ "interactive" \in Class \ {"bulk"}
      BY <1>3, Zenon DEF Nowhere, Class
    <2>2. Joins(gate, gate', "bulk", r)
      BY <1>1, <1>2, <2>1, EnqueueFields, Zenon
    <2> QED BY <2>1, <2>2, Zenon DEF Joins
  <1>7. gate.bulk = 1
    <2>1. HasBulk(gate, pc, class, r)
      BY <1>1, <1>4, Zenon DEF HasBulk, Held
    <2> QED BY <1>2, <2>1, Counters, Zenon
  <1>8. Fits(gate') /\ Quiet(gate', pc')
    BY <1>2, <1>6, <1>7 DEF Fits, Quiet
  <1>9. UNCHANGED <<governor, seen>> /\ remote' = remote
    BY <1>1, Zenon
  <1> QED BY <1>1, <1>2, <1>4, <1>5, <1>6, <1>8, <1>9, StepIInv, Zenon

\* Parking failed, or the wait of a parked permit ended: its waiter is withdrawn.
LEMMA WithdrawIInv ==
    ASSUME IInv, NEW r \in Request, gate' = RemoveWaiter(gate, "bulk", r),
           UNCHANGED <<governor, class, seen, remote>>,
           \/ pc[r] = "staying" /\ Goto(r, "working")
           \/ pc[r] = "parked" /\ r \notin gate.granted /\ Goto(r, "resigning")
    PROVE  IInv'
  <1>1. /\ pc \in Steps /\ class \in Classes /\ remote \in Remotes /\ GateOK(gate, pc, class) /\ gate \in Gate
        /\ LinesOK(gate) /\ Fits(gate) /\ Quiet(gate, pc) /\ CallerOK(gate, r, pc[r], class[r])
        /\ "bulk" \in Class
    BY Facts, Zenon
  <1>2. /\ class[r] = "bulk" /\ Waits(gate, "bulk", r)
        /\ pc[r] = "parked" => r \in gate.parked
        /\ pc[r] = "staying" => r \notin gate.parked
    BY <1>1, Zenon DEF CallerOK, Comes, Notified
  <1>3. /\ pc' \in Steps /\ class' = class /\ OthersSame(pc, pc', class, class', r)
        /\ pc[r] \in Live /\ pc'[r] \in Live
        /\ pc'[r] = IF pc[r] = "staying" THEN "working" ELSE "resigning"
    BY <1>1, Zenon DEF Goto, Steps, Step, Live, OthersSame
  <1>4. r \notin gate.granted /\ \A d \in Class \ {"bulk"} : r \notin Waiting(gate, d)
    BY <1>2, Zenon DEF Waits
  <1>5. GateOK(gate', pc', class')
    BY <1>1, <1>2, <1>3, <1>4, LeaveOK, Zenon
  <1>6. /\ gate'.active = gate.active /\ gate'.bulk = gate.bulk /\ gate'.parked = gate.parked
        /\ gate'.waiters["interactive"] = gate.waiters["interactive"]
        /\ gate'.waiters["bulk"] = Without(gate.waiters["bulk"], r)
    <2>1. "interactive" \in Class \ {"bulk"}
      BY Zenon DEF Class
    <2>2. Leaves(gate, gate', "bulk", r)
      BY <1>1, RemoveFields, Zenon
    <2> QED BY <2>1, <2>2, Zenon DEF Leaves
  <1>7. Quiet(gate', pc')
    <2> DEFINE q == gate.waiters["bulk"]
    <2>1. q \in Seq(Request) /\ Distinct(q)
      BY <1>1, Zenon DEF Gate, LinesOK
    <2>2. CASE gate.bulk # 0
      BY <1>1, <1>6, <2>2, Zenon DEF Quiet
    <2>3. CASE gate.bulk = 0
      <3>1. q # <<>>
        BY <1>2, <2>1, Members, Zenon DEF Waits, Waiting
      <3>2. pc[Head(q)] \notin Live /\ gate.active >= ActiveCapacity /\ Head(q) \in Request
        BY <1>1, <2>1, <2>3, <3>1, HeadTaken, Zenon DEF Quiet
      <3>3. Head(q) # r
        BY <1>3, <3>2, Zenon
      <3>4. Without(q, r) # <<>> /\ Head(Without(q, r)) = Head(q)
        BY <2>1, <3>1, <3>3, Left, Zenon
      <3>5. pc'[Head(q)] = pc[Head(q)]
        BY <1>3, <3>2, <3>3, Zenon DEF OthersSame
      <3> QED BY <1>6, <3>2, <3>4, <3>5, Zenon DEF Quiet
    <2> QED BY <2>2, <2>3, Zenon
  <1>8. Fits(gate')
    BY <1>1, <1>6, Zenon DEF Fits
  <1>9. UNCHANGED <<governor, seen>> /\ remote' = remote
    BY Zenon
  <1>10. remote[r] = "bulk" => pc[r] = "staying"
    BY Zenon DEF IInv, RemoteOK
  <1> QED BY <1>1, <1>2, <1>3, <1>5, <1>6, <1>7, <1>8, <1>9, <1>10, StepIInv, Zenon

\* The parked permit is granted its slot, or its wait ends first.
LEMMA WakeIInv ==
    ASSUME IInv, NEW r \in Request, Wake(r)
    PROVE  IInv'
  <1>1. pc[r] = "parked" /\ UNCHANGED <<governor, class, seen, remote>>
    BY Zenon DEF Wake
  <1>2. CASE r \notin gate.granted /\ gate' = RemoveWaiter(gate, "bulk", r) /\ Goto(r, "resigning")
    BY <1>1, <1>2, WithdrawIInv, Zenon
  <1>3. CASE r \in gate.granted /\ UNCHANGED gate /\ (Goto(r, "resuming") \/ Goto(r, "abandoning"))
    <2>1. PICK step \in {"resuming", "abandoning"} : Goto(r, step)
      BY <1>3, Zenon
    <2>2. CallerOK(gate, r, pc[r], class[r]) /\ remote \in Remotes
      BY Facts, Zenon
    <2>3. CallerOK(gate, r, step, class[r]) /\ Yielding(gate, pc, r)
      BY <1>1, <1>3, <2>2, Zenon DEF CallerOK, Comes, Waits, Yielding
    <2>4. pc[r] \in Live /\ step \in Live /\ step # "parking" /\ step # "surrendering"
      BY <1>1, Zenon DEF Live
    <2>5. remote[r] # "bulk" /\ remote[r] \in {"none", "active", "bulk"} /\ remote' = [remote EXCEPT ![r] = remote[r]]
      BY <1>1, <2>2, Zenon DEF IInv, RemoteOK, Remotes
    <2>6. UNCHANGED <<gate, governor, class, seen>>
      BY <1>1, <1>3, Zenon
    <2> QED BY <2>1, <2>3, <2>4, <2>5, <2>6, PermitStep, Zenon
  <1> QED BY <1>2, <1>3, Zenon DEF Wake

\* The bulk slot is parked, for the first time or again.
LEMMA SurrenderIInv ==
    ASSUME IInv, NEW r \in Request, Surrender(r) \/ Repark(r)
    PROVE  IInv'
  <1>1. PICK step \in {"parked", "working"} :
            /\ \/ pc[r] = "surrendering" /\ step = "parked"
               \/ pc[r] = "reparking" /\ step = "working"
            /\ gate' = Dispatch(Surrendered(gate, r)) /\ Goto(r, step)
            /\ UNCHANGED <<governor, class, seen, remote>>
    BY Zenon DEF Surrender, Repark
  <1>2. pc \in Steps /\ class \in Classes
    BY Facts, Zenon
  <1>3. /\ pc' \in Steps /\ pc'[r] = step /\ class' = class /\ OthersSame(pc, pc', class, class, r)
        /\ pc[r] \in Live /\ step \in Live
    BY <1>1, <1>2, Zenon DEF Goto, Steps, Step, Live, OthersSame
  <1>4. /\ GateOK(Surrendered(gate, r), pc', class') /\ Fits(Surrendered(gate, r))
        /\ Surrendered(gate, r).parked \subseteq gate.parked \cup {r}
    BY <1>1, <1>3, SurrenderOK, Zenon
  <1>5. remote[r] # "bulk"
    BY <1>1, Zenon DEF IInv, RemoteOK
  <1>6. class' \in Classes /\ OthersSame(pc, pc', class, class', r) /\ UNCHANGED <<governor, seen, remote>>
    BY <1>1, <1>2, <1>3, Zenon
  <1> QED BY <1>1, <1>3, <1>4, <1>5, <1>6, DispatchStep, Zenon

\* The wait ended without a grant.
LEMMA ResignIInv ==
    ASSUME IInv, NEW r \in Request, Resign(r)
    PROVE  IInv'
  <1> DEFINE h == RemoveWaiter(gate, "bulk", r)
  <1>1. /\ pc[r] = "resigning" /\ gate' = Dispatch(h) /\ Goto(r, "working")
        /\ UNCHANGED <<governor, class, seen, remote>>
    BY Zenon DEF Resign
  <1>2. /\ pc \in Steps /\ class \in Classes /\ GateOK(gate, pc, class) /\ gate \in Gate
        /\ LinesOK(gate) /\ Fits(gate) /\ CallerOK(gate, r, pc[r], class[r]) /\ "bulk" \in Class
    BY Facts, Zenon
  <1>3. class[r] = "bulk" /\ r \notin gate.granted /\ \A d \in Class \ {"bulk"} : r \notin Waiting(gate, d)
    BY <1>1, <1>2, Zenon DEF CallerOK, Nowhere, Class
  <1>4. /\ pc' \in Steps /\ pc'[r] = "working" /\ class' = class /\ OthersSame(pc, pc', class, class', r)
        /\ pc[r] \in Live /\ "working" \in Live
    BY <1>1, <1>2, Zenon DEF Goto, Steps, Step, Live, OthersSame
  <1>5. GateOK(h, pc', class')
    BY <1>2, <1>3, <1>4, LeaveOK, Zenon
  <1>6. h.active = gate.active /\ h.parked = gate.parked
    <2>1. Leaves(gate, h, "bulk", r)
      BY <1>2, RemoveFields, Zenon
    <2> HIDE DEF h
    <2> QED BY <2>1, Zenon DEF Leaves
  <1>7. Fits(h)
    BY <1>2, <1>6, Zenon DEF Fits
  <1>8. remote[r] # "bulk"
    BY <1>1, Zenon DEF IInv, RemoteOK
  <1>9. class' \in Classes /\ UNCHANGED <<governor, seen, remote>>
    BY <1>1, <1>2, <1>4, Zenon
  <1> HIDE DEF h
  <1> QED BY <1>1, <1>4, <1>5, <1>6, <1>7, <1>8, <1>9, DispatchStep, Zenon

----------------------------------------------------------------------------
(***************************************************************************)
(* Callers that enter or leave the gate, governors, and the theorems.      *)
(***************************************************************************)

\* A step of a caller that has no slot yet.
LEMMA CallerStep ==
    ASSUME IInv, NEW r \in Request, pc[r] \in {"idle", "observed"},
           pc' \in Steps, class' \in Classes, seen' \in [Request -> 0 .. MaxConfigurations],
           UNCHANGED <<governor, remote>>, OthersSame(pc, pc', class, class', r),
           \A s \in Request \ {r} : seen'[s] = seen[s],
           pc'[r] \in Live \cup {"queued"} => seen'[r] = configuration,
           GateOK(gate', pc', class'), Fits(gate'), Quiet(gate', pc'),
           gate'.parked \subseteq gate.parked, restoring => gate' = gate
    PROVE  IInv'
  <1>1. GateOK(gate, pc, class)'
    BY Zenon
  <1>2. ActiveCapacity' = ActiveCapacity
    BY Zenon DEF ActiveCapacity, governor
  <1>3. Fits(gate)' /\ Quiet(gate, pc)'
    BY <1>2, Zenon DEF Fits, Quiet
  <1>4. TypeOK'
    BY Zenon DEF IInv, TypeOK, GateOK, Steps, Classes, governor
  <1>5. OneRegime'
    BY Zenon DEF IInv, OneRegime, OthersSame, governor
  <1>6. RemoteOK'
    BY Zenon DEF IInv, RemoteOK, OthersSame
  <1>7. RestoringMeansBusy'
    BY Zenon DEF IInv, RestoringMeansBusy, governor, IdleGate, Queued
  <1> QED BY <1>1, <1>3, <1>4, <1>5, <1>6, <1>7, Zenon DEF IInv

\* A caller outside the gate stays outside.
LEMMA OutsideOK ==
    ASSUME IInv, NEW r \in Request, pc[r] \in {"idle", "observed"},
           NEW q \in Steps, NEW l \in Classes, OthersSame(pc, q, class, l, r),
           q[r] \in {"idle", "observed"}, q[r] = "observed" => l[r] \in Class
    PROVE  GateOK(gate, q, l) /\ Quiet(gate, q)
  <1>1. /\ pc \in Steps /\ class \in Classes /\ GateOK(gate, pc, class) /\ gate \in Gate
        /\ LinesOK(gate) /\ ParkingOK(gate, pc) /\ Quiet(gate, pc) /\ CallerOK(gate, r, pc[r], class[r])
    BY Facts, Zenon
  <1>2. Nowhere(gate, r) /\ r \notin gate.parked
    BY <1>1, Zenon DEF CallerOK
  <1>3. CallerOK(gate, r, q[r], l[r])
    BY <1>2, Zenon DEF CallerOK
  <1>4. \A s \in Request \ {r} : Unmoved(gate, pc, class, gate, q, l, s)
    BY Zenon DEF Unmoved, OthersSame
  <1>5. ParkingOK(gate, q)
    <2>1. \A s \in Request : Yielding(gate, q, s) => Yielding(gate, pc, s)
      BY <1>2, Zenon DEF Yielding, OthersSame, Nowhere
    <2> QED BY <1>1, <2>1, Zenon DEF ParkingOK
  <1>6. ~Held(gate, q, r) /\ ~Held(gate, pc, r) /\ ~HasBulk(gate, q, l, r) /\ ~HasBulk(gate, pc, class, r)
    BY <1>2, Zenon DEF Held, HasBulk, Live, Nowhere
  <1>7. gate.active \in Nat /\ gate.bulk \in {0, 1}
    BY <1>1, Counters, Zenon
  <1>8. /\ gate.active = gate.active + One(Held(gate, q, r)) - One(Held(gate, pc, r))
        /\ gate.bulk = gate.bulk + One(HasBulk(gate, q, l, r)) - One(HasBulk(gate, pc, class, r))
        /\ gate.bulk <= 1
    BY <1>6, <1>7 DEF One
  <1>9. GateOK(gate, q, l)
    BY <1>1, <1>3, <1>4, <1>5, <1>8, OneCaller, Zenon
  <1>10. Quiet(gate, q)
    <2>1. gate.waiters["bulk"] # <<>> =>
              Head(gate.waiters["bulk"]) \in Request /\ Head(gate.waiters["bulk"]) \in Waiting(gate, "bulk")
      BY <1>1, HeadTaken, Zenon DEF Gate, LinesOK, Class, Waiting
    <2>2. gate.waiters["bulk"] # <<>> => q[Head(gate.waiters["bulk"])] = pc[Head(gate.waiters["bulk"])]
      BY <1>2, <2>1, Zenon DEF OthersSame, Nowhere
    <2> QED BY <1>1, <2>2, Zenon DEF Quiet
  <1> QED BY <1>9, <1>10, Zenon

\* The caller reads the governor in place.
LEMMA ObserveIInv ==
    ASSUME IInv, NEW r \in Request, NEW c \in Class, Observe(r, c)
    PROVE  IInv'
  <1>1. /\ pc[r] = "idle" /\ Goto(r, "observed") /\ class' = [class EXCEPT ![r] = c]
        /\ seen' = [seen EXCEPT ![r] = configuration] /\ UNCHANGED <<gate, governor, remote>>
    BY Zenon DEF Observe
  <1>2. /\ pc \in Steps /\ class \in Classes /\ Fits(gate)
        /\ configuration \in 0 .. MaxConfigurations /\ seen \in [Request -> 0 .. MaxConfigurations]
    BY Facts, Zenon DEF IInv, TypeOK
  <1>3. /\ pc' \in Steps /\ pc'[r] = "observed" /\ class' \in Classes /\ class'[r] = c
        /\ OthersSame(pc, pc', class, class', r)
    BY <1>1, <1>2, Zenon DEF Goto, Steps, Step, Classes, PermitClass, OthersSame
  <1>4. /\ seen' \in [Request -> 0 .. MaxConfigurations] /\ \A s \in Request \ {r} : seen'[s] = seen[s]
    BY <1>1, <1>2, Zenon
  <1>5. gate' = gate /\ GateOK(gate', pc', class') /\ Quiet(gate', pc') /\ Fits(gate')
    BY <1>1, <1>2, <1>3, OutsideOK, Zenon
  <1>6. pc'[r] \notin Live \cup {"queued"}
    BY <1>3, Zenon DEF Live
  <1> QED BY <1>1, <1>3, <1>4, <1>5, <1>6, CallerStep, Zenon

\* The caller joins its queue and is granted, refused or left waiting.
LEMMA EnterIInv ==
    ASSUME IInv, NEW r \in Request, NEW wait \in BOOLEAN, Enter(r, wait)
    PROVE  IInv'
  <1> DEFINE c == class[r]
             e == Enqueue(gate, c, r)
             g == Dispatch(e)
             p == [pc EXCEPT ![r] = "queued"]
  <1>1. pc[r] = "observed" /\ UNCHANGED <<governor, remote>>
    BY Zenon DEF Enter
  <1>2. /\ pc \in Steps /\ class \in Classes /\ GateOK(gate, pc, class) /\ gate \in Gate /\ LinesOK(gate)
        /\ Fits(gate) /\ Quiet(gate, pc) /\ CallerOK(gate, r, pc[r], class[r])
        /\ seen \in [Request -> 0 .. MaxConfigurations]
    BY Facts, Zenon DEF IInv, TypeOK
  <1>3. c \in Class /\ Nowhere(gate, r) /\ r \notin gate.parked /\ r \notin Waiting(gate, c)
    BY <1>1, <1>2, Zenon DEF CallerOK, Nowhere, Class
  <1>4. ASSUME Gone(r)
        PROVE  /\ pc' \in Steps /\ pc'[r] = "idle" /\ class' \in Classes
               /\ seen' \in [Request -> 0 .. MaxConfigurations] /\ \A s \in Request \ {r} : seen'[s] = seen[s]
               /\ OthersSame(pc, pc', class, class', r) /\ pc'[r] \notin Live \cup {"queued"}
    BY <1>2, <1>4, LimitAssumption
       DEF Gone, Goto, Steps, Step, Live, Classes, PermitClass, Class, OthersSame
  <1>5. CASE Refused(r) /\ Gone(r) /\ UNCHANGED gate
    <2>1. gate' = gate /\ GateOK(gate', pc', class') /\ Quiet(gate', pc') /\ Fits(gate')
      BY <1>1, <1>2, <1>4, <1>5, OutsideOK, Zenon
    <2> QED BY <1>1, <1>4, <1>5, <2>1, CallerStep, Zenon
  <1>6. CASE ~Refused(r)
    <2>1. configuration = seen[r] /\ ~restoring
      BY <1>6, Zenon DEF Refused
    <2>2. p \in Steps /\ p[r] = "queued" /\ OthersSame(pc, p, class, class, r)
      BY <1>2, Zenon DEF Steps, Step, OthersSame
    <2> HIDE DEF p
    <2>3. pc[r] \notin Live
      BY <1>1, Zenon DEF Live
    <2>4. GateOK(e, p, class)
      BY <1>2, <1>3, <2>2, <2>3, JoinOK, Zenon
    <2>5. /\ e.active = gate.active /\ e.parked = gate.parked
          /\ e.waiters[c] = Append(gate.waiters[c], r)
      <3>1. Joins(gate, e, c, r)
        BY <1>2, <1>3, EnqueueFields, Zenon
      <3> HIDE DEF e
      <3> QED BY <3>1, Zenon DEF Joins
    <2> HIDE DEF e
    <2>6. Waiting(e, "bulk") \subseteq Request
      <3>1. e.waiters["bulk"] \in Seq(Request)
        BY <2>4, Zenon DEF GateOK, Gate, Class
      <3> QED BY <3>1, Members DEF Waiting
    <2>7. \A s \in Waiting(e, "bulk") : Resumes(s) <=> p[s] \in Live
      BY <1>1, <2>2, <2>6, Zenon DEF Resumes, OthersSame, Live
    <2>8. Fits(e)
      BY <1>2, <2>5, Zenon DEF Fits
    <2>9. /\ GateOK(g, p, class) /\ Fits(g) /\ Quiet(g, p) /\ g.parked \subseteq gate.parked
          /\ g.bulk # 0 \/ g.waiters["bulk"] = e.waiters["bulk"]
      BY <1>2, <2>2, <2>4, <2>5, <2>7, <2>8, DispatchOK, Zenon
    <2> HIDE DEF g
    <2>10. CASE /\ r \in g.granted /\ gate' = [g EXCEPT !.granted = @ \ {r}]
                /\ Goto(r, Admitted(r)) /\ UNCHANGED <<class, seen>>
      <3>1. /\ pc' \in Steps /\ pc'[r] \in {"admitted", "working"} /\ OthersSame(pc, pc', class, class', r)
            /\ OthersSame(p, pc', class, class, r)
        BY <1>2, <2>2, <2>10, Zenon DEF Goto, Steps, Step, Live, OthersSame, Admitted
      <3>2. /\ GateOK(gate', pc', class') /\ Quiet(gate', pc') /\ gate'.active = g.active /\ gate'.parked = g.parked
        BY <1>2, <2>2, <2>9, <2>10, <3>1, CollectOK
      <3>3. Fits(gate')
        BY <2>9, <3>2, Zenon DEF Fits
      <3>4. class' \in Classes /\ seen' = seen
        BY <1>2, <2>10, Zenon
      <3> QED BY <1>1, <1>2, <2>1, <2>9, <3>1, <3>2, <3>3, <3>4, CallerStep, Zenon
    <2>11. CASE /\ r \notin g.granted /\ gate' = g /\ Goto(r, "queued") /\ UNCHANGED <<class, seen>>
      <3>1. pc' = p /\ class' = class /\ seen' = seen
        BY <2>11, Zenon DEF Goto, p
      <3> QED BY <1>1, <1>2, <2>1, <2>2, <2>9, <2>11, <3>1, CallerStep, Zenon
    <2>12. CASE /\ r \notin g.granted /\ gate' = RemoveWaiter(g, c, r) /\ Gone(r)
      <3>1. g \in Gate /\ LinesOK(g) /\ CallerOK(g, r, p[r], class[r])
        BY <2>9, Zenon DEF GateOK
      <3>2. Waits(g, c, r) /\ r \notin g.parked
        BY <2>2, <2>12, <3>1, Zenon DEF CallerOK, Notified
      <3>3. /\ pc' \in Steps /\ class' \in Classes /\ pc'[r] = "idle" /\ OthersSame(p, pc', class, class', r)
        BY <1>4, <2>2, <2>12, Zenon DEF OthersSame
      <3>4. p[r] \notin Live /\ \A d \in Class \ {c} : r \notin Waiting(g, d)
        BY <2>2, <3>2, Zenon DEF Live, Waits
      <3>5. GateOK(gate', pc', class')
        BY <1>2, <1>3, <2>2, <2>9, <2>12, <3>2, <3>3, <3>4, LeaveOK, Zenon
      <3>6. /\ gate'.active = g.active /\ gate'.bulk = g.bulk /\ gate'.parked = g.parked
            /\ gate'.waiters[c] = Without(g.waiters[c], r)
            /\ \A d \in Class \ {c} : gate'.waiters[d] = g.waiters[d]
        <4>1. Leaves(g, gate', c, r)
          BY <1>3, <2>12, <3>1, RemoveFields, Zenon
        <4> QED BY <4>1, Zenon DEF Leaves
      <3>7. Fits(gate')
        BY <2>9, <3>6, Zenon DEF Fits
      <3>8. gate'.waiters["interactive"] = <<>> \/ gate'.active >= ActiveCapacity
        <4>1. CASE g.waiters["interactive"] # <<>>
          BY <2>9, <3>6, <4>1, Zenon DEF Quiet
        <4>2. CASE g.waiters["interactive"] = <<>>
          <5>1. c # "interactive"
            BY <3>1, <3>2, <4>2, Members, Zenon DEF Waits, Waiting, Gate, Class
          <5> QED BY <3>6, <4>2, <5>1, Zenon DEF Class
        <4> QED BY <4>1, <4>2, Zenon
      <3>9. \/ gate'.waiters["bulk"] = <<>> \/ gate'.bulk # 0
            \/ pc'[Head(gate'.waiters["bulk"])] \notin Live /\ gate'.active >= ActiveCapacity
        <4> DEFINE line == g.waiters["bulk"]
        <4>1. line \in Seq(Request) /\ Distinct(line) /\ gate.waiters["bulk"] \in Seq(Request)
          BY <1>2, <3>1, Zenon DEF Gate, LinesOK, Class
        <4>2. CASE g.bulk # 0
          BY <3>6, <4>2, Zenon
        <4>3. CASE line = <<>>
          <5>1. c # "bulk"
            BY <3>2, <4>1, <4>3, Members, Zenon DEF Waits, Waiting
          <5> QED BY <3>6, <4>3, <5>1, Zenon DEF Class
        <4>4. CASE g.bulk = 0 /\ line # <<>>
          <5>1. p[Head(line)] \notin Live /\ g.active >= ActiveCapacity /\ Head(line) \in Request
            BY <2>9, <4>1, <4>4, HeadTaken, Zenon DEF Quiet
          <5>2. pc'[Head(line)] \notin Live
            BY <3>3, <5>1, Zenon DEF OthersSame, Live
          <5>3. CASE c # "bulk"
            BY <3>6, <5>1, <5>2, <5>3, Zenon DEF Class
          <5>4. CASE c = "bulk"
            <6>1. line = Append(gate.waiters["bulk"], r) /\ gate'.waiters["bulk"] = Without(line, r)
              BY <2>5, <2>9, <3>6, <4>4, <5>4, Zenon
            <6>2. CASE gate.waiters["bulk"] = <<>>
              <7>1. Without(line, r) \in Seq(Request) /\ Range(Without(line, r)) = Range(line) \ {r}
                BY <4>1, Left, Zenon
              <7>2. line = <<r>>
                BY <6>1, <6>2
              <7>3. Range(line) = {r}
                <8>1. Range(line) = {line[i] : i \in 1 .. Len(line)}
                  BY <4>1, Members, Zenon
                <8> QED BY <7>2, <8>1
              <7> QED BY <6>1, <7>1, <7>3, Members, Zenon
            <6>3. CASE gate.waiters["bulk"] # <<>>
              <7>1. Head(line) = Head(gate.waiters["bulk"])
                BY <4>1, <6>1, <6>3
              <7>2. Head(gate.waiters["bulk"]) \in Waiting(gate, "bulk")
                BY <1>2, <4>1, <6>3, HeadTaken, Zenon DEF LinesOK, Class, Waiting
              <7>3. Head(line) # r
                BY <1>3, <5>4, <7>1, <7>2, Zenon
              <7>4. Head(Without(line, r)) = Head(line)
                BY <4>1, <4>4, <7>3, Left, Zenon
              <7> QED BY <3>6, <5>1, <5>2, <6>1, <7>4, Zenon
            <6> QED BY <6>2, <6>3, Zenon
          <5> QED BY <5>3, <5>4, Zenon
        <4> QED BY <4>2, <4>3, <4>4, Zenon
      <3>10. Quiet(gate', pc')
        BY <3>8, <3>9, Zenon DEF Quiet
      <3> QED BY <1>1, <1>4, <2>1, <2>9, <2>12, <3>5, <3>6, <3>7, <3>10, CallerStep, Zenon
    <2> QED BY <1>6, <2>10, <2>11, <2>12, Zenon DEF Enter, g, e
  <1> QED BY <1>5, <1>6, Zenon DEF Enter

\* An idle gate has neither waiters nor permits.
LEMMA IdleMeansNobody ==
    ASSUME NEW g, NEW p \in Steps, NEW k \in Classes, GateOK(g, p, k), IdleGate(g)
    PROVE  /\ g.active = 0 /\ g.waiters["interactive"] = <<>> /\ g.waiters["bulk"] = <<>>
           /\ \A r \in Request : p[r] \notin Live \cup {"queued"}
  <1>1. g.waiters["interactive"] \in Seq(Request) /\ g.waiters["bulk"] \in Seq(Request)
    BY Zenon DEF GateOK, Gate, Class
  <1>2. Len(g.waiters["interactive"]) = 0 /\ Len(g.waiters["bulk"]) = 0
    <2>1. Len(g.waiters["interactive"]) \in Nat /\ Len(g.waiters["bulk"]) \in Nat
      BY <1>1, Members, Zenon
    <2>2. Len(g.waiters["interactive"]) + Len(g.waiters["bulk"]) = 0
      BY Zenon DEF IdleGate, Queued
    <2> QED BY <2>1, <2>2, ZeroSum, Zenon
  <1>3. g.waiters["interactive"] = <<>> /\ g.waiters["bulk"] = <<>>
    BY <1>1, <1>2, Lengths, Zenon
  <1>4. Waiting(g, "interactive") = {} /\ Waiting(g, "bulk") = {}
    BY <1>1, <1>3, Members, Zenon DEF Waiting
  <1>5. \A r \in Request : ~Held(g, p, r)
    BY Counters, Zenon DEF IdleGate
  <1>6. \A r \in Request : p[r] # "queued"
    <2> SUFFICES ASSUME NEW r \in Request, p[r] = "queued"
                 PROVE  FALSE
      BY Zenon
    <2>1. CallerOK(g, r, p[r], k[r])
      BY Zenon DEF GateOK
    <2>2. r \in Waiting(g, "interactive") \/ r \in Waiting(g, "bulk") \/ r \in g.granted
      BY <2>1, Zenon DEF CallerOK, Waits, Notified, Class
    <2> QED BY <1>4, <1>5, <2>2, Zenon DEF Held
  <1> QED BY <1>3, <1>5, <1>6, Zenon DEF IdleGate, Held

\* A caller leaves the gate h, which dispatches and takes the governor off when
\* it was asked to and nobody is left.
LEMMA GoneStep ==
    ASSUME IInv, NEW r \in Request, NEW h, gate' = Dispatch(h), Gone(r), RestoreProcessAdmission(gate'),
           UNCHANGED remote, remote[r] # "bulk",
           GateOK(h, pc', class'), Fits(h), h.parked \subseteq gate.parked
    PROVE  IInv'
  <1>1. /\ pc \in Steps /\ class \in Classes /\ seen \in [Request -> 0 .. MaxConfigurations]
        /\ configuration \in 0 .. MaxConfigurations /\ configured \in 0 .. MaxConfigurations /\ restoring \in BOOLEAN
    BY Facts, Zenon DEF IInv, TypeOK
  <1>2. /\ pc' \in Steps /\ pc'[r] = "idle" /\ class' \in Classes
        /\ seen' \in [Request -> 0 .. MaxConfigurations] /\ \A s \in Request \ {r} : seen'[s] = seen[s]
        /\ OthersSame(pc, pc', class, class', r)
    <2>1. "idle" \in Step /\ "interactive" \in PermitClass /\ 0 \in 0 .. MaxConfigurations
      BY LimitAssumption DEF Step, PermitClass, Class
    <2>2. /\ pc' = [pc EXCEPT ![r] = "idle"] /\ class' = [class EXCEPT ![r] = "interactive"]
          /\ seen' = [seen EXCEPT ![r] = 0]
      BY Zenon DEF Gone, Goto
    <2>3. pc' \in Steps /\ class' \in Classes /\ seen' \in [Request -> 0 .. MaxConfigurations]
      BY <1>1, <2>1, <2>2, Zenon DEF Steps, Classes
    <2>4. pc'[r] = "idle" /\ \A s \in Request \ {r} : seen'[s] = seen[s]
      BY <1>1, <2>2, Zenon DEF Steps
    <2>5. OthersSame(pc, pc', class, class', r)
      BY <1>1, <2>2, Zenon DEF Steps, Classes, OthersSame
    <2> QED BY <2>3, <2>4, <2>5, Zenon
  <1>3. Waiting(h, "bulk") \subseteq Request \ {r}
    <2>1. h.waiters["bulk"] \in Seq(Request) /\ CallerOK(h, r, pc'[r], class'[r])
      BY Zenon DEF GateOK, Gate, Class
    <2>2. r \notin Waiting(h, "bulk")
      BY <1>2, <2>1, Zenon DEF CallerOK, Nowhere
    <2> QED BY <2>1, <2>2, Members, SMTT(30) DEF Waiting
  <1>4. \A s \in Waiting(h, "bulk") : Resumes(s) <=> pc'[s] \in Live
    BY <1>2, <1>3, Zenon DEF Resumes, OthersSame
  <1>5. GateOK(gate', pc', class') /\ Fits(gate') /\ Quiet(gate', pc') /\ gate'.parked \subseteq gate.parked
    BY <1>2, <1>4, DispatchOK, Zenon
  <1>6. /\ configured' = configured
        /\ \/ restoring /\ IdleGate(gate') /\ configuration' = 0 /\ restoring' = FALSE
           \/ /\ ~(restoring /\ IdleGate(gate'))
              /\ configuration' = configuration /\ restoring' = restoring
    BY Zenon DEF RestoreProcessAdmission
  <1>7. GateOK(gate, pc, class)'
    BY <1>5, Zenon
  <1>8. TypeOK'
    <2>1. gate' \in Gate /\ remote' \in [Request -> {"none", "active", "bulk"}]
      BY <1>5, Zenon DEF GateOK, IInv, TypeOK
    <2>2. configuration' \in 0 .. MaxConfigurations
      BY <1>1, <1>6, LimitAssumption
    <2>3. restoring' \in BOOLEAN
      BY <1>1, <1>6, Zenon
    <2> QED BY <1>1, <1>2, <1>6, <2>1, <2>2, <2>3, Zenon DEF TypeOK, Steps, Classes
  <1>9. RemoteOK'
    BY <1>2, <1>5, Zenon DEF IInv, RemoteOK, OthersSame
  <1>10. RestoringMeansBusy'
    BY <1>6, Zenon DEF RestoringMeansBusy, IdleGate, Queued
  <1>11. CASE configuration' = configuration
    <2>1. ActiveCapacity' = ActiveCapacity
      BY <1>11, Zenon DEF ActiveCapacity
    <2>2. Fits(gate)' /\ Quiet(gate, pc)'
      BY <1>5, <2>1, Zenon DEF Fits, Quiet
    <2>3. OneRegime'
      BY <1>2, <1>11, Zenon DEF IInv, OneRegime, OthersSame, Live
    <2> QED BY <1>7, <1>8, <1>9, <1>10, <2>2, <2>3, Zenon DEF IInv
  <1>12. CASE IdleGate(gate')
    <2>1. /\ gate'.active = 0 /\ gate'.waiters["interactive"] = <<>> /\ gate'.waiters["bulk"] = <<>>
          /\ \A s \in Request : pc'[s] \notin Live \cup {"queued"}
      BY <1>2, <1>5, <1>12, IdleMeansNobody, Zenon
    <2>2. ActiveCapacity' \in Nat
      BY LimitAssumption DEF ActiveCapacity
    <2>3. Fits(gate)' /\ Quiet(gate, pc)'
      BY <2>1, <2>2 DEF Fits, Quiet
    <2>4. OneRegime'
      BY <2>1, Zenon DEF OneRegime
    <2> QED BY <1>7, <1>8, <1>9, <1>10, <2>3, <2>4, Zenon DEF IInv
  <1> QED BY <1>6, <1>11, <1>12, Zenon

\* A waiting caller is cancelled or times out.
LEMMA GiveUpIInv ==
    ASSUME IInv, NEW r \in Request, GiveUp(r)
    PROVE  IInv'
  <1> DEFINE h == IF r \in gate.granted THEN Returned(gate, r) ELSE RemoveWaiter(gate, class[r], r)
  <1>1. /\ pc[r] = "queued" /\ gate' = Dispatch(h) /\ RestoreProcessAdmission(gate') /\ Gone(r)
        /\ UNCHANGED remote
    BY Zenon DEF GiveUp
  <1>2. /\ pc \in Steps /\ class \in Classes /\ GateOK(gate, pc, class) /\ gate \in Gate
        /\ LinesOK(gate) /\ Fits(gate) /\ CallerOK(gate, r, pc[r], class[r])
    BY Facts, Zenon
  <1>3. /\ pc' \in Steps /\ pc'[r] = "idle" /\ class' \in Classes /\ OthersSame(pc, pc', class, class', r)
    BY <1>1, <1>2, Zenon DEF Gone, Goto, Steps, Step, Classes, PermitClass, Class, OthersSame
  <1>4. remote[r] # "bulk"
    BY <1>1, Zenon DEF IInv, RemoteOK
  <1>5. GateOK(h, pc', class') /\ Fits(h) /\ h.parked = gate.parked
    <2>1. CASE r \in gate.granted
      BY <1>1, <1>3, <2>1, ReturnOK, Zenon
    <2>2. CASE r \notin gate.granted
      <3>1. class[r] \in Class /\ r \notin gate.parked /\ Waits(gate, class[r], r) /\ pc[r] \notin Live
        BY <1>1, <1>2, <2>2, Zenon DEF CallerOK, Notified, Live
      <3>2. \A d \in Class \ {class[r]} : r \notin Waiting(gate, d)
        BY <3>1, Zenon DEF Waits
      <3>3. h = RemoveWaiter(gate, class[r], r)
        BY <2>2, Zenon
      <3>4. GateOK(h, pc', class')
        BY <1>2, <1>3, <2>2, <3>1, <3>2, <3>3, LeaveOK, Zenon
      <3>5. h.active = gate.active /\ h.parked = gate.parked
        <4>1. Leaves(gate, h, class[r], r)
          BY <1>2, <3>1, <3>3, RemoveFields, Zenon
        <4> HIDE DEF h
        <4> QED BY <4>1, Zenon DEF Leaves
      <3> QED BY <1>2, <3>4, <3>5, Zenon DEF Fits
    <2> QED BY <2>1, <2>2, Zenon
  <1> HIDE DEF h
  <1> QED BY <1>1, <1>4, <1>5, GoneStep, Zenon

\* A released permit gives its slots back.
LEMMA ReleaseIInv ==
    ASSUME IInv, NEW r \in Request, Release(r)
    PROVE  IInv'
  <1>1. /\ pc[r] = "leaving" /\ gate' = Dispatch(Vacated(gate, r)) /\ RestoreProcessAdmission(gate') /\ Gone(r)
        /\ UNCHANGED remote
    BY Zenon DEF Release
  <1>2. pc \in Steps /\ class \in Classes
    BY Facts, Zenon
  <1>3. /\ pc' \in Steps /\ pc'[r] = "idle" /\ class' \in Classes /\ OthersSame(pc, pc', class, class', r)
    BY <1>1, <1>2, Zenon DEF Gone, Goto, Steps, Step, Classes, PermitClass, Class, OthersSame
  <1>4. remote[r] # "bulk"
    BY <1>1, Zenon DEF IInv, RemoteOK
  <1>5. /\ GateOK(Vacated(gate, r), pc', class') /\ Fits(Vacated(gate, r))
        /\ Vacated(gate, r).parked \subseteq gate.parked
    BY <1>1, <1>3, VacateOK, Zenon
  <1> QED BY <1>1, <1>4, <1>5, GoneStep, Zenon

\* A governor is put in place or taken off, or is to be taken off.
LEMMA GovernorIInv ==
    ASSUME IInv, ConfigureProcessAdmission \/ TakeOff
    PROVE  IInv'
  <1>1. UNCHANGED <<gate, pc, class, seen, remote>>
    BY Zenon DEF ConfigureProcessAdmission, TakeOff
  <1>2. GateOK(gate, pc, class) /\ pc \in Steps /\ class \in Classes
    BY Facts, Zenon
  <1>3. GateOK(gate, pc, class)'
    BY <1>1, <1>2, Zenon
  <1>4. /\ configuration' \in 0 .. MaxConfigurations /\ configured' \in 0 .. MaxConfigurations
        /\ restoring' \in BOOLEAN
        /\ IdleGate(gate) \/ configuration' = configuration
        /\ IdleGate(gate) => restoring' = FALSE
    <2>1. /\ configuration \in 0 .. MaxConfigurations /\ configured \in 0 .. MaxConfigurations
          /\ restoring \in BOOLEAN /\ (restoring => ~IdleGate(gate))
      BY Zenon DEF IInv, TypeOK, RestoringMeansBusy
    <2>2. CASE ConfigureProcessAdmission
      BY <2>1, <2>2, LimitAssumption DEF ConfigureProcessAdmission
    <2>3. CASE TakeOff
      <3>1. /\ configured' = configured
            /\ IF IdleGate(gate) THEN configuration' = 0 /\ restoring' = FALSE
                                 ELSE restoring' = TRUE /\ configuration' = configuration
        BY <2>3, Zenon DEF TakeOff
      <3>2. 0 \in 0 .. MaxConfigurations
        BY LimitAssumption
      <3>3. CASE IdleGate(gate)
        BY <2>1, <3>1, <3>2, <3>3, Zenon
      <3>4. CASE ~IdleGate(gate)
        BY <2>1, <3>1, <3>4, Zenon
      <3> QED BY <3>3, <3>4, Zenon
    <2> QED BY <2>2, <2>3, Zenon
  <1>5. TypeOK'
    BY <1>1, <1>4, Zenon DEF IInv, TypeOK
  <1>6. RemoteOK' /\ RestoringMeansBusy'
    BY <1>1, <1>4, Zenon DEF IInv, RemoteOK, RestoringMeansBusy, IdleGate, Queued
  <1>7. CASE configuration' = configuration
    <2>1. ActiveCapacity' = ActiveCapacity
      BY <1>7, Zenon DEF ActiveCapacity
    <2>2. Fits(gate)' /\ Quiet(gate, pc)' /\ OneRegime'
      BY <1>1, <1>7, <2>1, Zenon DEF IInv, Fits, Quiet, OneRegime
    <2> QED BY <1>3, <1>5, <1>6, <2>2, Zenon DEF IInv
  <1>8. CASE IdleGate(gate)
    <2>1. /\ gate.active = 0 /\ gate.waiters["interactive"] = <<>> /\ gate.waiters["bulk"] = <<>>
          /\ \A s \in Request : pc[s] \notin Live \cup {"queued"}
      BY <1>2, <1>8, IdleMeansNobody, Zenon
    <2>2. ActiveCapacity' \in Nat
      BY LimitAssumption DEF ActiveCapacity
    <2>3. Fits(gate)' /\ Quiet(gate, pc)' /\ OneRegime'
      BY <1>1, <2>1, <2>2 DEF Fits, Quiet, OneRegime
    <2> QED BY <1>3, <1>5, <1>6, <2>3, Zenon DEF IInv
  <1> QED BY <1>4, <1>7, <1>8, Zenon

\* The empty gate.
LEMMA InitIInv ==
    ASSUME Init
    PROVE  IInv
  <1>1. /\ gate = EmptyGate /\ configuration = 0 /\ configured = 0 /\ restoring = FALSE
        /\ \A r \in Request : pc[r] = "idle" /\ class[r] = "interactive" /\ seen[r] = 0 /\ remote[r] = "none"
    BY Zenon DEF Init
  <1>2. /\ gate.active = 0 /\ gate.bulk = 0 /\ gate.granted = {} /\ gate.parked = {}
        /\ gate.retained = NoRequest /\ gate.waiters["interactive"] = <<>> /\ gate.waiters["bulk"] = <<>>
        /\ gate \in Gate
    BY <1>1 DEF EmptyGate, Gate, Class
  <1>3. TypeOK
    <2>1. 0 \in 0 .. MaxConfigurations
      BY LimitAssumption
    <2>2. pc \in [Request -> Step] /\ class \in [Request -> PermitClass]
      BY Zenon DEF Init, Step, PermitClass, Class
    <2>3. seen \in [Request -> 0 .. MaxConfigurations] /\ remote \in [Request -> {"none", "active", "bulk"}]
      BY <2>1, Zenon DEF Init
    <2> QED BY <1>1, <1>2, <2>1, <2>2, <2>3, Zenon DEF TypeOK
  <1>4. Waiting(gate, "interactive") = {} /\ Waiting(gate, "bulk") = {}
    <2>1. <<>> \in Seq(Request)
      OBVIOUS
    <2>2. Range(<<>>) = {}
      BY <2>1, Members, Zenon
    <2> QED BY <1>2, <2>2, Zenon DEF Waiting
  <1>5. LinesOK(gate)
    BY <1>2 DEF LinesOK, Class, Distinct
  <1>6. \A r \in Request : CallerOK(gate, r, pc[r], class[r])
    BY <1>1, <1>2, <1>4, Zenon DEF CallerOK, Nowhere
  <1>7. Slots(gate, pc) = {} /\ BulkSlots(gate, pc, class) = {}
    BY <1>1, <1>2, Zenon DEF Slots, BulkSlots, HasBulk, Held, Live
  <1>8. Counted(gate, pc, class)
    BY <1>2, <1>7, FS_EmptySet DEF Counted
  <1>9. ParkingOK(gate, pc)
    BY <1>2, Zenon DEF ParkingOK
  <1>10. GateOK(gate, pc, class)
    BY <1>2, <1>5, <1>6, <1>8, <1>9, Zenon DEF GateOK
  <1>11. ActiveCapacity \in Nat
    BY LimitAssumption DEF ActiveCapacity
  <1>12. Fits(gate) /\ Quiet(gate, pc)
    BY <1>2, <1>11 DEF Fits, Quiet
  <1>13. OneRegime /\ RemoteOK /\ RestoringMeansBusy
    BY <1>1, Zenon DEF OneRegime, RemoteOK, RestoringMeansBusy
  <1> QED BY <1>3, <1>10, <1>12, <1>13, Zenon DEF IInv

\* A step that changes nothing.
LEMMA StutterIInv ==
    ASSUME IInv, UNCHANGED vars
    PROVE  IInv'
  <1>1. /\ gate' = gate /\ pc' = pc /\ class' = class /\ seen' = seen /\ remote' = remote
        /\ configuration' = configuration /\ configured' = configured /\ restoring' = restoring
    BY Zenon DEF vars, governor
  <1>2. GateOK(gate, pc, class)'
    BY <1>1, Zenon DEF IInv
  <1>3. Fits(gate)' /\ Quiet(gate, pc)'
    BY <1>1, Zenon DEF IInv, Fits, Quiet, ActiveCapacity
  <1>4. TypeOK' /\ OneRegime' /\ RemoteOK' /\ RestoringMeansBusy'
    BY <1>1, Zenon DEF IInv, TypeOK, OneRegime, RemoteOK, RestoringMeansBusy, IdleGate, Queued
  <1> QED BY <1>2, <1>3, <1>4, Zenon DEF IInv

\* The gate, the permits and the governor keep the inductive invariant through
\* every interleaving of the critical sections of resource_admission.go.
THEOREM Invariance == Spec => []IInv
  <1>1. Init => IInv
    BY InitIInv, Zenon
  <1>2. IInv /\ [Next]_vars => IInv'
    <2> SUFFICES ASSUME IInv, [Next]_vars
                 PROVE  IInv'
      BY Zenon
    <2>1. ASSUME NEW r \in Request,
                 \/ \E c \in Class : Observe(r, c)
                 \/ GiveUp(r) \/ ReleaseRemote(r) \/ Upgrade(r) \/ Yield(r) \/ Wake(r)
          PROVE  IInv'
      BY <2>1, ObserveIInv, GiveUpIInv, RemoteSteps, UpgradeIInv, YieldIInv, WakeIInv, Zenon
    <2>2. ASSUME NEW r \in Request, Advance(r)
          PROVE  IInv'
      <3>1. CASE \E wait \in BOOLEAN : Enter(r, wait)
        BY <3>1, EnterIInv, Zenon
      <3>2. CASE AcquireRemote(r) \/ UpgradeRemote(r) \/ ParkRemote(r) \/ AbandonRemote(r)
        BY <3>2, RemoteSteps, Zenon
      <3>3. CASE Proceed(r) \/ Release(r) \/ Downgrade(r) \/ ResumeRemote(r)
        BY <3>3, ProceedIInv, ReleaseIInv, DowngradeIInv, ResumeRemoteIInv, Zenon
      <3>4. CASE Stay(r)
        BY <3>4, WithdrawIInv, Zenon DEF Stay
      <3>5. CASE Surrender(r) \/ Repark(r) \/ Resign(r)
        BY <3>5, SurrenderIInv, ResignIInv, Zenon
      <3> QED BY <2>2, <3>1, <3>2, <3>3, <3>4, <3>5, Zenon DEF Advance
    <2>3. CASE ConfigureProcessAdmission \/ TakeOff
      BY <2>3, GovernorIInv, Zenon
    <2>4. CASE UNCHANGED vars
      BY <2>4, StutterIInv, Zenon
    <2> QED BY <2>1, <2>2, <2>3, <2>4, Zenon DEF Next
  <1> QED BY <1>1, <1>2, PTL DEF Spec

\* Every variable keeps its type.
THEOREM TypeCorrect == Spec => []TypeOK
  <1>1. IInv => TypeOK
    BY Zenon DEF IInv
  <1> QED BY <1>1, Invariance, PTL

\* The counters dispatch decides by are the number of callers that hold slots.
THEOREM CountersRight == Spec => []CountersExact
  <1>1. IInv => CountersExact
    <2> SUFFICES ASSUME IInv
                 PROVE  CountersExact
      BY Zenon
    <2>1. Holders = Slots(gate, pc) /\ BulkHolders = BulkSlots(gate, pc, class)
      BY Zenon DEF Holders, BulkHolders, Slots, BulkSlots, HasBulk, Held, IsBulk
    <2> QED BY <2>1, Zenon DEF IInv, GateOK, Counted, CountersExact
  <1> QED BY <1>1, Invariance, PTL

\* Never more active work than the governor in place allows, and never two bulk
\* jobs, for any number of callers and any limits.
THEOREM CapacityKept == Spec => []WithinCapacity
  <1>1. IInv => WithinCapacity
    BY Zenon DEF IInv, GateOK, Counted, Fits, WithinCapacity
  <1> QED BY <1>1, Invariance, PTL

\* One permit at most has its active slot retained while it is parked.
THEOREM ParkingExclusive == Spec => []OneParked
  <1>1. IInv => OneParked
    BY Zenon DEF IInv, GateOK, ParkingOK, OneParked
  <1> QED BY <1>1, Invariance, PTL

\* No wakeup is lost: a dispatch between two critical sections grants nothing.
THEOREM NoLostWakeup == Spec => []NothingGrantable
  <1>1. IInv => NothingGrantable
    <2> SUFFICES ASSUME IInv
                 PROVE  Dispatch(gate) = gate
      BY Zenon DEF NothingGrantable
    <2> DEFINE line == gate.waiters["interactive"]
    <2>1. /\ gate \in Gate /\ Quiet(gate, pc) /\ line \in Seq(Request) /\ gate.active \in Nat
          /\ gate.waiters \in [Class -> Seq(Request)]
      BY Facts, Zenon DEF Gate, Class
    <2>2. ActiveCapacity \in Nat
      BY Facts, Zenon
    <2>3. Dispatch(gate) = InteractiveTaken(gate, NextInteractive(gate.active, line))
      <3>1. ASSUME NEW r \in Request, gate.bulk = 0, gate.waiters["bulk"] # <<>>,
                   r = Head(gate.waiters["bulk"]), Resumes(r) \/ gate.active < ActiveCapacity
            PROVE  FALSE
        BY <2>1, <2>2, <3>1 DEF Quiet, Resumes
      <3> QED BY <2>1, <3>1, DispatchRounds, Zenon
    <2>4. NextInteractive(gate.active, line) = 0
      <3>1. CASE gate.active >= ActiveCapacity
        BY <3>1, Zenon DEF NextInteractive
      <3>2. CASE line = <<>> /\ ~(gate.active >= ActiveCapacity)
        <4>1. Len(line) = 0 /\ Len(line) <= ActiveCapacity - gate.active
          BY <2>1, <2>2, <3>2
        <4> QED BY <3>2, <4>1, Zenon DEF NextInteractive
      <3> QED BY <2>1, <3>1, <3>2, Zenon DEF Quiet
    <2>5. SubSeq(line, 0 + 1, Len(line)) = line
      BY <2>1
    <2>6. [c \in Class |-> IF c = "interactive" THEN line ELSE gate.waiters[c]] = gate.waiters
      BY <2>1, Zenon
    <2>7. gate.granted \cup {line[i] : i \in 1 .. 0} = gate.granted /\ gate.active + 0 = gate.active
      BY <2>1
    <2>8. InteractiveTaken(gate, 0) = [active |-> gate.active, bulk |-> gate.bulk, waiters |-> gate.waiters,
                                       granted |-> gate.granted, parked |-> gate.parked, retained |-> gate.retained]
      BY <2>5, <2>6, <2>7, Zenon DEF InteractiveTaken
    <2>9. gate = [active |-> gate.active, bulk |-> gate.bulk, waiters |-> gate.waiters,
                  granted |-> gate.granted, parked |-> gate.parked, retained |-> gate.retained]
      BY <2>1, Zenon DEF Gate
    <2> QED BY <2>3, <2>4, <2>8, <2>9, Zenon
  <1> QED BY <1>1, Invariance, PTL

\* The governor's bulk share is held only under the local bulk slot.
THEOREM SharesNested == Spec => []RemoteInsideLocal
  <1>1. IInv => RemoteInsideLocal
    <2>1. {"working", "releasing", "parking", "staying", "abandoning"} \subseteq Live
      BY Zenon DEF Live
    <2> QED BY <2>1, Zenon DEF IInv, RemoteOK, RemoteInsideLocal, BulkHolders, Holders, IsBulk
  <1> QED BY <1>1, Invariance, PTL

\* Callers that queue and permits in use belong to the governor in place.
THEOREM RegimeKept == Spec => []OneRegime
  <1>1. IInv => OneRegime
    BY Zenon DEF IInv
  <1> QED BY <1>1, Invariance, PTL

\* A governor that is to be taken off stays only while the gate is in use.
THEOREM RestoreNotForgotten == Spec => []RestoringMeansBusy
  <1>1. IInv => RestoringMeansBusy
    BY Zenon DEF IInv
  <1> QED BY <1>1, Invariance, PTL

----------------------------------------------------------------------------
(***************************************************************************)
(* First come, first served: one lemma per action, or per group of them.   *)
(***************************************************************************)

\* First come, first served, in one step.
InTurn ==
    \A c \in Class : \A r \in Range(gate.waiters[c]) : \A s \in Request \ {r} :
        r \in Range(gate'.waiters[c]) /\ ~Before(gate.waiters[c], s, r)
           => s \notin Served(c) /\ ~Before(gate'.waiters[c], s, r)

\* A caller that takes no slot in the step.
Unserved(x) ==
    \/ pc'[x] \notin Live /\ x \notin gate'.granted
    \/ x \in Holders /\ class'[x] = "interactive"
    \/ x \in Holders /\ class'[x] = class[x] /\ (x \in gate'.parked \/ x \notin gate.parked)

\* A step of one caller that gets no slot, or gets it when nobody who waited before still does.
LEMMA TurnKept ==
    ASSUME IInv, NEW x \in Request, OthersSame(pc, pc', class, class', x), Handed(gate, gate', x),
           \/ Unserved(x)
           \/ \A c \in Class : x \in Served(c) => Precedes(gate.waiters[c], gate'.waiters[c], x)
    PROVE  InTurn
  <1>0. /\ gate \in Gate /\ pc \in Steps /\ class \in Classes /\ \A r \in Request : CallerOK(gate, r, pc[r], class[r])
        /\ Class = {"interactive", "bulk"} /\ Lined(gate)
    BY Facts, Zenon DEF Class, Lined, Gate
  <1>1. ASSUME NEW s \in Request, s # x, s \notin Holders, s \in Holders'
        PROVE  class'[s] = class[s] /\ class[s] \in Class /\ Precedes(gate.waiters[class[s]], gate'.waiters[class[s]], s)
    <2>1. pc'[s] = pc[s] /\ class'[s] = class[s] /\ pc[s] \notin Live /\ s \notin gate.granted /\ s \in gate'.granted
      BY <1>1, Zenon DEF OthersSame, Holders
    <2>2. PICK c \in Class : s \in Waiting(gate, c) /\ Precedes(gate.waiters[c], gate'.waiters[c], s)
      BY <1>1, <2>1, Zenon DEF Handed
    <2>3. pc[s] \in {"idle", "observed", "queued"}
      BY <1>0, <2>1, Zenon DEF Steps, Step
    <2>4. c = class[s]
      BY <1>0, <2>1, <2>2, <2>3, Zenon DEF CallerOK, Nowhere, Waits, Notified
    <2> QED BY <2>1, <2>2, <2>4, Zenon
  <1>2. ASSUME NEW s \in Request, s # x, s \in Holders, s \in BulkHolders', s \notin BulkHolders
        PROVE  Precedes(gate.waiters["bulk"], gate'.waiters["bulk"], s)
    <2>1. class'[s] = class[s]
      BY <1>2, Zenon DEF OthersSame
    <2>2. s \in gate.parked /\ s \notin gate'.parked
      BY <1>2, <2>1, Zenon DEF BulkHolders
    <2> QED BY <1>2, <2>2, Zenon DEF Handed
  <1>3. ASSUME NEW c \in Class, Unserved(x) PROVE x \notin Served(c)
    <2>1. CASE pc'[x] \notin Live /\ x \notin gate'.granted
      BY <2>1, Zenon DEF Served, BulkHolders, Holders
    <2>2. CASE x \in Holders /\ class'[x] = "interactive"
      BY <2>2, Zenon DEF Served, BulkHolders, Holders, IsBulk
    <2>3. CASE x \in Holders /\ class'[x] = class[x] /\ (x \in gate'.parked \/ x \notin gate.parked)
      BY <2>3, Zenon DEF Served, BulkHolders, Holders
    <2> QED BY <1>3, <2>1, <2>2, <2>3, Zenon DEF Unserved
  <1>4. ASSUME NEW c \in Class, NEW s \in Request, s \in Served(c)
        PROVE  Precedes(gate.waiters[c], gate'.waiters[c], s)
    <2>1. CASE s = x
      BY <1>3, <1>4, <2>1, Zenon
    <2>2. CASE s # x /\ c = "interactive"
      <3>1. s \in Holders' /\ s \notin Holders /\ class'[s] = "interactive"
        BY <1>4, <2>2, Zenon DEF Served
      <3> QED BY <1>1, <2>2, <3>1, Zenon
    <2>3. CASE s # x /\ c = "bulk"
      <3>1. s \in BulkHolders' /\ s \notin BulkHolders
        BY <1>4, <2>3, Zenon DEF Served
      <3>2. s \in Holders' /\ class'[s] # "interactive"
        BY <3>1, Zenon DEF BulkHolders, IsBulk
      <3>3. CASE s \in Holders
        BY <1>2, <2>3, <3>1, <3>3, Zenon
      <3>4. CASE s \notin Holders
        <4>1. class'[s] = class[s] /\ class[s] \in Class /\ Precedes(gate.waiters[class[s]], gate'.waiters[class[s]], s)
          BY <1>1, <2>3, <3>2, <3>4, Zenon
        <4>2. class[s] = "bulk"
          BY <1>0, <3>2, <4>1, Zenon
        <4> QED BY <2>3, <4>1, <4>2, Zenon
      <3> QED BY <3>3, <3>4, Zenon
    <2> QED BY <1>0, <2>1, <2>2, <2>3, Zenon
  <1>5. ASSUME NEW c \in Class, NEW r \in Range(gate.waiters[c]), NEW s \in Request \ {r}, r \in Range(gate'.waiters[c]),
               ~Before(gate.waiters[c], s, r)
        PROVE  s \notin Served(c) /\ ~Before(gate'.waiters[c], s, r)
    <2>1. r \in Request
      BY <1>0, Members DEF Lined
    <2>2. s \notin Served(c)
      BY <1>4, <1>5, <2>1, Zenon DEF Precedes
    <2>3. ~Before(gate'.waiters[c], s, r)
      BY <1>5, <2>1, Zenon DEF Handed, Ordered
    <2> QED BY <2>2, <2>3, Zenon
  <1> QED BY <1>5, Zenon DEF InTurn

\* A step of one caller that leaves the lines alone and takes no slot.
LEMMA TurnSame ==
    ASSUME IInv, NEW x \in Request, OthersSame(pc, pc', class, class', x), Unserved(x),
           gate'.waiters = gate.waiters, gate'.granted \subseteq gate.granted, gate.parked \subseteq gate'.parked
    PROVE  InTurn
  <1>1. Lined(gate)
    BY Facts, Zenon DEF Lined, Gate
  <1>2. Handed(gate, gate', x)
    BY <1>1, HandedSame, Zenon
  <1> QED BY <1>2, TurnKept, Zenon

\* A step of one caller that dispatches gate e, in which the caller has moved.
LEMMA TurnDispatched ==
    ASSUME IInv, NEW x \in Request, OthersSame(pc, pc', class, class', x),
           NEW e \in Gate, LinesOK(e), Handed(gate, e, x), gate' = Dispatch(e),
           \/ Unserved(x)
           \/ \A c \in Class : x \in Served(c) => Precedes(gate.waiters[c], gate'.waiters[c], x)
    PROVE  InTurn
  <1>1. Lined(gate) /\ Lined(e)
    BY Facts, Zenon DEF Lined, Gate
  <1>2. Handed(e, gate', x) /\ Lined(gate') /\ \A d \in Class : Waiting(gate', d) \subseteq Waiting(e, d)
    BY HandedDispatch, Zenon
  <1>3. Handed(gate, gate', x)
    BY <1>1, <1>2, HandedComposed, Zenon
  <1> QED BY <1>3, TurnKept, Zenon

\* The gate a caller that enters dispatches, and the gate it leaves behind.
LEMMA EnteredGate ==
    ASSUME IInv, NEW r \in Request, pc[r] = "observed"
    PROVE  LET e == Enqueue(gate, class[r], r)
           IN  /\ class[r] \in Class /\ Nowhere(gate, r) /\ r \notin gate.parked
               /\ Joins(gate, e, class[r], r) /\ Dispatch(e) \in Gate /\ LinesOK(Dispatch(e))
  <1> DEFINE e == Enqueue(gate, class[r], r)
             p == [pc EXCEPT ![r] = "queued"]
  <1>1. /\ pc \in Steps /\ class \in Classes /\ GateOK(gate, pc, class) /\ gate \in Gate /\ LinesOK(gate)
        /\ Fits(gate) /\ CallerOK(gate, r, pc[r], class[r])
    BY Facts, Zenon
  <1>2. class[r] \in Class /\ Nowhere(gate, r) /\ r \notin gate.parked /\ r \notin Waiting(gate, class[r])
    BY <1>1, Zenon DEF CallerOK, Nowhere, Class
  <1>3. p \in Steps /\ p[r] = "queued" /\ OthersSame(pc, p, class, class, r) /\ pc[r] \notin Live
    BY <1>1, Zenon DEF Steps, Step, OthersSame, Live
  <1> HIDE DEF p
  <1>4. GateOK(e, p, class)
    BY <1>1, <1>2, <1>3, JoinOK, Zenon
  <1>5. Joins(gate, e, class[r], r)
    BY <1>1, <1>2, EnqueueFields, Zenon
  <1> HIDE DEF e
  <1>6. Waiting(e, "bulk") \subseteq Request
    <2>1. e.waiters["bulk"] \in Seq(Request)
      BY <1>4, Zenon DEF GateOK, Gate, Class
    <2> QED BY <2>1, Members DEF Waiting
  <1>7. \A s \in Waiting(e, "bulk") : Resumes(s) <=> p[s] \in Live
    BY <1>3, <1>6, Zenon DEF Resumes, OthersSame, Live
  <1>8. Fits(e)
    BY <1>1, <1>5, Zenon DEF Fits, Joins
  <1>9. GateOK(Dispatch(e), p, class)
    BY <1>1, <1>3, <1>4, <1>7, <1>8, DispatchOK, Zenon
  <1> QED BY <1>2, <1>5, <1>9, Zenon DEF GateOK, e

\* Nobody overtakes a waiter by entering.
LEMMA EnterInTurn ==
    ASSUME IInv, NEW r \in Request, NEW wait \in BOOLEAN, Enter(r, wait)
    PROVE  InTurn
  <1> DEFINE c == class[r]
             e == Enqueue(gate, c, r)
             g == Dispatch(e)
  <1>1. pc[r] = "observed" /\ pc \in Steps /\ class \in Classes /\ Lined(gate)
    BY Facts, Zenon DEF Enter, Lined, Gate
  <1>2. c \in Class /\ Nowhere(gate, r) /\ r \notin gate.parked /\ Joins(gate, e, c, r) /\ g \in Gate /\ LinesOK(g)
    BY <1>1, EnteredGate, Zenon
  <1>3. r \notin Waiting(gate, c) /\ r \notin gate.granted
    BY <1>2, Zenon DEF Nowhere, Class
  <1>4. ASSUME Gone(r) PROVE pc'[r] \notin Live /\ OthersSame(pc, pc', class, class', r)
    BY <1>1, <1>4, Zenon DEF Gone, Goto, Steps, Classes, Live, OthersSame
  <1>5. CASE Refused(r) /\ Gone(r) /\ UNCHANGED gate
    <2>1. Unserved(r)
      BY <1>3, <1>4, <1>5, Zenon DEF Unserved
    <2> QED BY <1>4, <1>5, <2>1, TurnSame, Zenon
  <1> HIDE DEF e
  <1>6. /\ e \in Gate /\ LinesOK(e) /\ e.granted = gate.granted
        /\ Waiting(e, c) = Waiting(gate, c) \cup {r} /\ \A d \in Class \ {c} : Waiting(e, d) = Waiting(gate, d)
    BY <1>2, Zenon DEF Joins
  <1>7. Handed(gate, e, r) /\ Lined(e)
    BY <1>1, <1>2, <1>3, HandedJoin, Zenon
  <1>8. /\ Handed(e, g, r) /\ Handed(e, g, NoRequest) /\ Lined(g)
        /\ \A d \in Class : Waiting(g, d) \subseteq Waiting(e, d)
    BY <1>6, HandedDispatch, Zenon
  <1> HIDE DEF g
  <1>9. Handed(gate, g, r)
    BY <1>1, <1>7, <1>8, HandedComposed, Zenon
  <1>10. CASE /\ r \in g.granted /\ gate' = [g EXCEPT !.granted = @ \ {r}]
              /\ Goto(r, Admitted(r)) /\ UNCHANGED <<class, seen>>
    <2>1. OthersSame(pc, pc', class, class', r) /\ class' = class
      BY <1>1, <1>10, Zenon DEF Goto, Steps, OthersSame
    <2>2. gate'.waiters = g.waiters /\ gate'.granted = g.granted \ {r} /\ gate'.parked = g.parked
      BY <1>2, <1>10, Zenon DEF Gate
    <2>3. Handed(g, gate', r) /\ Lined(gate') /\ \A d \in Class : Waiting(gate', d) \subseteq Waiting(g, d)
      BY <1>8, <2>2, HandedSame, Zenon DEF Waiting
    <2>4. Handed(gate, gate', r)
      BY <1>1, <1>8, <1>9, <2>3, HandedComposed, Zenon
    <2>5. PICK d \in Class : r \in Waiting(e, d) /\ Precedes(e.waiters[d], g.waiters[d], r)
      <3>1. r \in Request \ {NoRequest} /\ r \notin e.granted
        BY <1>3, <1>6, RequestAssumption, Zenon
      <3> QED BY <1>8, <1>10, <3>1, Zenon DEF Handed
    <2>6. d = c
      BY <1>2, <1>6, <2>5, Zenon DEF Nowhere, Class
    <2>7. Precedes(gate.waiters[c], g.waiters[c], r)
      <3> DEFINE q == gate.waiters[c]
                 v == e.waiters[c]
                 w == g.waiters[c]
      <3>1. q \in Seq(Request) /\ v \in Seq(Request) /\ w \in Seq(Request) /\ Ordered(q, v) /\ Ordered(v, w)
            /\ Range(w) \subseteq Range(v) /\ Precedes(v, w, r)
        BY <1>1, <1>2, <1>7, <1>8, <2>5, <2>6, Zenon DEF Lined, Handed, Waiting
      <3> HIDE DEF q, v, w
      <3>2. Precedes(q, w, r)
        BY <3>1, OrderComposed, Zenon
      <3> QED BY <3>2, Zenon DEF q, w
    <2>8. ASSUME NEW b \in Class, r \in Served(b) PROVE b = c
      BY <1>2, <2>1, <2>8, Zenon DEF Served, BulkHolders, IsBulk, Class
    <2> QED BY <2>1, <2>2, <2>4, <2>7, <2>8, TurnKept, Zenon
  <1>11. CASE /\ r \notin g.granted /\ gate' = g /\ Goto(r, "queued") /\ UNCHANGED <<class, seen>>
    <2>1. OthersSame(pc, pc', class, class', r) /\ pc'[r] = "queued"
      BY <1>1, <1>11, Zenon DEF Goto, Steps, OthersSame
    <2>2. Unserved(r)
      BY <1>11, <2>1, Zenon DEF Unserved, Live
    <2> QED BY <1>9, <1>11, <2>1, <2>2, TurnKept, Zenon
  <1>12. CASE /\ r \notin g.granted /\ gate' = RemoveWaiter(g, c, r) /\ Gone(r)
    <2>1. Leaves(g, gate', c, r)
      BY <1>2, <1>12, RemoveFields, Zenon
    <2>2. Handed(g, gate', r) /\ Lined(gate') /\ \A d \in Class : Waiting(gate', d) \subseteq Waiting(g, d)
      BY <1>2, <1>8, <2>1, HandedLeave, Zenon
    <2>3. Handed(gate, gate', r)
      BY <1>1, <1>8, <1>9, <2>2, HandedComposed, Zenon
    <2>4. gate'.granted = g.granted
      BY <2>1, Zenon DEF Leaves
    <2>5. Unserved(r)
      BY <1>4, <1>12, <2>4, Zenon DEF Unserved
    <2> QED BY <1>4, <1>12, <2>3, <2>5, TurnKept, Zenon
  <1> QED BY <1>5, <1>10, <1>11, <1>12, Zenon DEF Enter, g, e

\* A caller that goes has not been granted anything.
LEMMA GoneUnserved ==
    ASSUME IInv', NEW x \in Request, pc'[x] = "idle"
    PROVE  Unserved(x)
  <1>1. GateOK(gate', pc', class')
    BY Zenon DEF IInv
  <1>2. CallerOK(gate', x, pc'[x], class'[x])
    BY <1>1, Zenon DEF GateOK
  <1>3. x \notin gate'.granted /\ pc'[x] \notin Live
    BY <1>2, Zenon DEF CallerOK, Nowhere, Live
  <1> QED BY <1>3, Zenon DEF Unserved

\* Nobody is served by a step that leaves the gate to the governor or the caller.
LEMMA OutsideInTurn ==
    ASSUME IInv, NEW x \in Request,
           \/ \E c \in Class : Observe(x, c)
           \/ Proceed(x) \/ AcquireRemote(x) \/ ReleaseRemote(x) \/ UpgradeRemote(x)
           \/ ParkRemote(x) \/ ResumeRemote(x) \/ AbandonRemote(x)
    PROVE  InTurn
  <1>1. /\ pc \in Steps /\ class \in Classes /\ gate \in Gate /\ CallerOK(gate, x, pc[x], class[x])
        /\ x \in Request
    BY Facts, Zenon
  <1>2. CASE \E c \in Class : Observe(x, c)
    <2>1. PICK c \in Class : Observe(x, c)
      BY <1>2, Zenon
    <2>2. /\ pc[x] = "idle" /\ gate' = gate /\ pc'[x] = "observed" /\ OthersSame(pc, pc', class, class', x)
      BY <1>1, <2>1, Zenon DEF Observe, Goto, Steps, Classes, OthersSame
    <2>3. Unserved(x)
      BY <1>1, <2>2, Zenon DEF Unserved, CallerOK, Nowhere, Live
    <2> QED BY <2>2, <2>3, TurnSame, Zenon
  <1>3. ASSUME NEW step, Goto(x, step), UNCHANGED class, x \in Holders,
               gate' = gate \/ gate' = [gate EXCEPT !.granted = @ \ {x}]
        PROVE  InTurn
    <2>1. OthersSame(pc, pc', class, class', x) /\ class'[x] = class[x]
      BY <1>1, <1>3, Zenon DEF Goto, Steps, OthersSame
    <2>2. gate'.waiters = gate.waiters /\ gate'.granted \subseteq gate.granted /\ gate'.parked = gate.parked
      BY <1>1, <1>3, Zenon DEF Gate
    <2>3. Unserved(x)
      BY <1>3, <2>1, <2>2, Zenon DEF Unserved
    <2> QED BY <2>1, <2>2, <2>3, TurnSame, Zenon
  <1>4. CASE Proceed(x)
    BY <1>3, <1>4, Zenon DEF Proceed, Holders
  <1>5. CASE AcquireRemote(x) \/ ReleaseRemote(x) \/ UpgradeRemote(x) \/ ParkRemote(x) \/ AbandonRemote(x)
    <2>1. x \in Holders
      BY <1>5, Zenon DEF AcquireRemote, ReleaseRemote, UpgradeRemote, ParkRemote, AbandonRemote, Holders, Live
    <2>2. UNCHANGED <<gate, class>> /\ \E step \in Step : Goto(x, step)
      BY <1>5, Zenon DEF AcquireRemote, ReleaseRemote, UpgradeRemote, ParkRemote, AbandonRemote, Step, Live
    <2> QED BY <1>3, <2>1, <2>2, Zenon
  <1>6. CASE ResumeRemote(x)
    <2>1. x \in Holders
      BY <1>6, Zenon DEF ResumeRemote, Holders, Live
    <2> QED BY <1>3, <1>6, <2>1, Zenon DEF ResumeRemote
  <1> QED BY <1>2, <1>4, <1>5, <1>6, Zenon

\* Nobody is served by a step that only joins or leaves the bulk line.
LEMMA LineInTurn ==
    ASSUME IInv, NEW x \in Request, Yield(x) \/ Stay(x) \/ Wake(x)
    PROVE  InTurn
  <1>1. /\ pc \in Steps /\ class \in Classes /\ gate \in Gate /\ LinesOK(gate) /\ CallerOK(gate, x, pc[x], class[x])
        /\ "bulk" \in Class /\ Lined(gate)
    BY Facts, Zenon DEF Lined, Gate
  <1>2. x \in Holders /\ class' = class /\ OthersSame(pc, pc', class, class', x)
    <2>1. x \in Holders /\ class' = class
      BY Zenon DEF Yield, Stay, Wake, Holders, Live
    <2>2. \E step \in Step : Goto(x, step)
      BY Zenon DEF Yield, Stay, Wake, Step, Live
    <2> QED BY <1>1, <2>1, <2>2, Zenon DEF Goto, Steps, OthersSame
  <1>3. ASSUME Handed(gate, gate', x), gate'.parked = gate.parked PROVE InTurn
    <2>1. Unserved(x)
      BY <1>2, <1>3, Zenon DEF Unserved
    <2> QED BY <1>2, <1>3, <2>1, TurnKept, Zenon
  <1>4. CASE Yield(x)
    <2>1. x \notin Waiting(gate, "bulk") /\ gate' = Enqueue(gate, "bulk", x)
      BY <1>1, <1>4, Zenon DEF Yield, CallerOK, Nowhere
    <2>2. Joins(gate, gate', "bulk", x)
      BY <1>1, <2>1, EnqueueFields, Zenon
    <2>3. Handed(gate, gate', x) /\ gate'.parked = gate.parked
      BY <1>1, <2>1, <2>2, HandedJoin, Zenon DEF Joins
    <2> QED BY <1>3, <2>3, Zenon
  <1>5. CASE gate' = RemoveWaiter(gate, "bulk", x)
    <2>1. Leaves(gate, gate', "bulk", x)
      BY <1>1, <1>5, RemoveFields, Zenon
    <2>2. Handed(gate, gate', x) /\ gate'.parked = gate.parked
      BY <1>1, <2>1, HandedLeave, Zenon DEF Leaves
    <2> QED BY <1>3, <2>2, Zenon
  <1>6. CASE gate' = gate
    <2>1. Handed(gate, gate', x) /\ gate'.parked = gate.parked
      BY <1>1, <1>6, HandedSame, Zenon
    <2> QED BY <1>3, <2>1, Zenon
  <1> QED BY <1>4, <1>5, <1>6, Zenon DEF Stay, Wake

\* A permit is upgraded only when nobody waits for the bulk slot.
LEMMA UpgradeInTurn ==
    ASSUME IInv, NEW x \in Request, Upgrade(x)
    PROVE  InTurn
  <1>1. /\ pc \in Steps /\ class \in Classes /\ gate \in Gate /\ Lined(gate)
    BY Facts, Zenon DEF Lined, Gate
  <1>2. /\ pc[x] = "working" /\ gate.waiters["bulk"] = <<>> /\ class' = [class EXCEPT ![x] = "upgraded"]
        /\ gate' = [gate EXCEPT !.bulk = @ + 1] /\ Goto(x, "upgrading")
    BY Zenon DEF Upgrade, CanUpgrade
  <1>3. x \in Holders /\ OthersSame(pc, pc', class, class', x)
    BY <1>1, <1>2, Zenon DEF Goto, Steps, Classes, OthersSame, Holders, Live
  <1>4. gate'.waiters = gate.waiters /\ gate'.granted = gate.granted /\ gate'.parked = gate.parked
    BY <1>1, <1>2, Zenon DEF Gate
  <1>5. Handed(gate, gate', x)
    BY <1>1, <1>4, HandedSame, Zenon
  <1>6. ASSUME NEW c \in Class, x \in Served(c) PROVE Precedes(gate.waiters[c], gate'.waiters[c], x)
    <2>1. c = "bulk"
      BY <1>3, <1>6, Zenon DEF Served
    <2>2. Range(<<>>) = {}
      <3>1. <<>> \in Seq(Request)
        OBVIOUS
      <3> QED BY <3>1, Members, Zenon
    <2> QED BY <1>2, <2>1, <2>2, Zenon DEF Precedes
  <1> QED BY <1>3, <1>5, <1>6, TurnKept, Zenon

\* A failed upgrade hands the bulk slot to the line.
LEMMA DowngradeInTurn ==
    ASSUME IInv, NEW x \in Request, Downgrade(x)
    PROVE  InTurn
  <1> DEFINE h == [gate EXCEPT !.bulk = @ - 1]
  <1>1. /\ pc \in Steps /\ class \in Classes /\ gate \in Gate /\ LinesOK(gate) /\ Lined(gate)
        /\ GateOK(gate, pc, class) /\ CallerOK(gate, x, pc[x], class[x])
    BY Facts, Zenon DEF Lined, Gate
  <1>2. /\ pc[x] = "downgrading" /\ class' = [class EXCEPT ![x] = "interactive"]
        /\ gate' = Dispatch(h) /\ Goto(x, "working")
    BY Zenon DEF Downgrade
  <1>3. x \in Holders /\ class'[x] = "interactive" /\ OthersSame(pc, pc', class, class', x)
    BY <1>1, <1>2, Zenon DEF Goto, Steps, Classes, OthersSame, Holders, Live
  <1>4. gate.bulk = 1
    <2>1. HasBulk(gate, pc, class, x)
      BY <1>1, <1>2, Zenon DEF CallerOK, HasBulk, Held, Live
    <2> QED BY <1>1, <2>1, Counters, Zenon
  <1>5. h.waiters = gate.waiters /\ h.granted = gate.granted /\ h.parked = gate.parked /\ h \in Gate
    <2>1. h = [gate EXCEPT !.bulk = 0]
      BY <1>4
    <2> HIDE DEF h
    <2> QED BY <1>1, <2>1, BulkSet, Zenon
  <1> HIDE DEF h
  <1>6. LinesOK(h) /\ Handed(gate, h, x)
    BY <1>1, <1>5, HandedSame, Zenon DEF LinesOK
  <1>7. Unserved(x)
    BY <1>3, Zenon DEF Unserved
  <1> QED BY <1>2, <1>3, <1>5, <1>6, <1>7, TurnDispatched, Zenon

\* A permit that parks its bulk slot hands it to the line.
LEMMA SurrenderInTurn ==
    ASSUME IInv, NEW x \in Request, Surrender(x) \/ Repark(x)
    PROVE  InTurn
  <1> DEFINE h == Surrendered(gate, x)
  <1>1. /\ pc \in Steps /\ class \in Classes /\ gate \in Gate /\ Lined(gate) /\ CallerOK(gate, x, pc[x], class[x])
    BY Facts, Zenon DEF Lined, Gate
  <1>2. PICK step \in {"parked", "working"} :
            /\ \/ pc[x] = "surrendering" /\ step = "parked"
               \/ pc[x] = "reparking" /\ step = "working"
            /\ gate' = Dispatch(h) /\ Goto(x, step) /\ UNCHANGED class
    BY Zenon DEF Surrender, Repark
  <1>3. /\ pc' \in Steps /\ pc'[x] = step /\ class' = class /\ OthersSame(pc, pc', class, class, x)
        /\ x \in Holders /\ x \notin gate.parked
    BY <1>1, <1>2, Zenon DEF Goto, Steps, Step, Live, OthersSame, Holders, CallerOK
  <1>4. GateOK(h, pc', class)
    BY <1>2, <1>3, SurrenderOK, Zenon
  <1>5. h.waiters = gate.waiters /\ h.granted = gate.granted \ {x} /\ h.parked = gate.parked \cup {x}
    BY <1>1, Zenon DEF Surrendered, Gate
  <1> HIDE DEF h
  <1>6. h \in Gate /\ LinesOK(h) /\ Handed(gate, h, x)
    BY <1>1, <1>4, <1>5, HandedSame, Zenon DEF GateOK
  <1>7. Unserved(x)
    BY <1>3, Zenon DEF Unserved
  <1> QED BY <1>2, <1>3, <1>6, <1>7, TurnDispatched, Zenon

\* A parked permit that stops waiting for its slot leaves the line as it was.
LEMMA ResignInTurn ==
    ASSUME IInv, NEW x \in Request, Resign(x)
    PROVE  InTurn
  <1> DEFINE h == RemoveWaiter(gate, "bulk", x)
  <1>1. /\ pc \in Steps /\ class \in Classes /\ gate \in Gate /\ LinesOK(gate) /\ Lined(gate)
        /\ CallerOK(gate, x, pc[x], class[x]) /\ "bulk" \in Class
    BY Facts, Zenon DEF Lined, Gate
  <1>2. pc[x] = "resigning" /\ gate' = Dispatch(h) /\ Goto(x, "working") /\ UNCHANGED class
    BY Zenon DEF Resign
  <1>3. /\ class' = class /\ OthersSame(pc, pc', class, class', x) /\ x \in Holders /\ x \in gate.parked
    BY <1>1, <1>2, Zenon DEF Goto, Steps, Live, OthersSame, Holders, CallerOK
  <1>4. Leaves(gate, h, "bulk", x)
    BY <1>1, RemoveFields, Zenon
  <1> HIDE DEF h
  <1>5. h \in Gate /\ LinesOK(h) /\ h.parked = gate.parked
    BY <1>4, Zenon DEF Leaves
  <1>6. Handed(gate, h, x) /\ Lined(h)
    BY <1>1, <1>4, HandedLeave, Zenon
  <1>7. /\ Handed(h, gate', NoRequest) /\ Lined(gate') /\ \A d \in Class : Waiting(gate', d) \subseteq Waiting(h, d)
    BY <1>2, <1>5, HandedDispatch, Zenon
  <1>8. CASE x \in gate'.parked
    BY <1>2, <1>3, <1>5, <1>6, <1>8, TurnDispatched, Zenon DEF Unserved
  <1>9. CASE Precedes(h.waiters["bulk"], gate'.waiters["bulk"], x)
    <2> DEFINE q == gate.waiters["bulk"]
               v == h.waiters["bulk"]
               w == gate'.waiters["bulk"]
    <2>1. q \in Seq(Request) /\ v \in Seq(Request) /\ w \in Seq(Request) /\ Ordered(q, v) /\ Ordered(v, w)
          /\ Range(w) \subseteq Range(v) /\ Precedes(v, w, x)
      BY <1>1, <1>6, <1>7, <1>9, Zenon DEF Lined, Handed, Waiting
    <2> HIDE DEF q, v, w
    <2>2. Precedes(q, w, x)
      BY <2>1, OrderComposed, Zenon
    <2>3. ASSUME NEW c \in Class, x \in Served(c) PROVE c = "bulk"
      BY <1>3, <2>3, Zenon DEF Served
    <2>4. \A c \in Class : x \in Served(c) => Precedes(gate.waiters[c], gate'.waiters[c], x)
      BY <2>2, <2>3, Zenon DEF q, w
    <2> QED BY <1>2, <1>3, <1>5, <1>6, <2>4, TurnDispatched, Zenon
  <1>10. x \in Request \ {NoRequest}
    BY RequestAssumption, Zenon
  <1> QED BY <1>3, <1>5, <1>7, <1>8, <1>9, <1>10, Zenon DEF Handed

\* A caller that gives up hands what it was granted to the lines.
LEMMA GiveUpInTurn ==
    ASSUME IInv, NEW x \in Request, GiveUp(x)
    PROVE  InTurn
  <1> DEFINE h == IF x \in gate.granted THEN Returned(gate, x) ELSE RemoveWaiter(gate, class[x], x)
  <1>1. /\ pc \in Steps /\ class \in Classes /\ gate \in Gate /\ LinesOK(gate) /\ Lined(gate)
        /\ CallerOK(gate, x, pc[x], class[x])
    BY Facts, Zenon DEF Lined, Gate
  <1>2. pc[x] = "queued" /\ gate' = Dispatch(h) /\ Gone(x)
    BY Zenon DEF GiveUp
  <1>3. /\ pc' \in Steps /\ pc'[x] = "idle" /\ class' \in Classes /\ OthersSame(pc, pc', class, class', x)
    BY <1>1, <1>2, Zenon DEF Gone, Goto, Steps, Step, Classes, PermitClass, Class, OthersSame
  <1>4. h \in Gate /\ LinesOK(h) /\ Handed(gate, h, x)
    <2>1. CASE x \in gate.granted
      <3>1. h = Returned(gate, x)
        BY <2>1, Zenon
      <3>2. GateOK(h, pc', class')
        BY <1>2, <1>3, <2>1, <3>1, ReturnOK, Zenon
      <3>3. h.waiters = gate.waiters /\ h.granted = gate.granted \ {x} /\ h.parked = gate.parked
        BY <1>1, <3>1, Zenon DEF Returned, Gate
      <3> HIDE DEF h
      <3> QED BY <1>1, <3>2, <3>3, HandedSame, Zenon DEF GateOK
    <2>2. CASE x \notin gate.granted
      <3>1. class[x] \in Class
        BY <1>1, <1>2, Zenon DEF CallerOK
      <3>2. Leaves(gate, h, class[x], x)
        BY <1>1, <2>2, <3>1, RemoveFields, Zenon
      <3> HIDE DEF h
      <3> QED BY <1>1, <3>1, <3>2, HandedLeave, Zenon DEF Leaves
    <2> QED BY <2>1, <2>2, Zenon
  <1> HIDE DEF h
  <1>5. Unserved(x)
    BY <1>3, GiveUpIInv, GoneUnserved, Zenon
  <1> QED BY <1>2, <1>3, <1>4, <1>5, TurnDispatched, Zenon

\* A released permit hands its slots to the lines.
LEMMA ReleaseInTurn ==
    ASSUME IInv, NEW x \in Request, Release(x)
    PROVE  InTurn
  <1> DEFINE e == IF x \in gate.granted THEN gate ELSE RemoveWaiter(gate, "bulk", x)
             h == Vacated(gate, x)
  <1>1. /\ pc \in Steps /\ class \in Classes /\ gate \in Gate /\ LinesOK(gate) /\ Lined(gate) /\ "bulk" \in Class
    BY Facts, Zenon DEF Lined, Gate
  <1>2. pc[x] = "leaving" /\ gate' = Dispatch(h) /\ Gone(x)
    BY Zenon DEF Release
  <1>3. /\ pc' \in Steps /\ pc'[x] = "idle" /\ class' \in Classes /\ OthersSame(pc, pc', class, class', x)
    BY <1>1, <1>2, Zenon DEF Gone, Goto, Steps, Step, Classes, PermitClass, Class, OthersSame
  <1>4. GateOK(h, pc', class')
    BY <1>2, <1>3, VacateOK, Zenon
  <1>5. Handed(gate, e, x) /\ Lined(e)
    <2>1. CASE x \in gate.granted
      BY <1>1, <2>1, HandedSame, Zenon
    <2>2. CASE x \notin gate.granted
      <3>1. Leaves(gate, e, "bulk", x)
        BY <1>1, <2>2, RemoveFields, Zenon
      <3> HIDE DEF e
      <3> QED BY <1>1, <3>1, HandedLeave, Zenon
    <2> QED BY <2>1, <2>2, Zenon
  <1>6. h.waiters = e.waiters /\ h.granted = e.granted \ {x} /\ h.parked = e.parked \ {x}
    BY Zenon DEF Vacated
  <1> HIDE DEF e, h
  <1>7. Handed(e, h, x) /\ Lined(h) /\ \A c \in Class : Waiting(h, c) \subseteq Waiting(e, c)
    BY <1>5, <1>6, HandedSame, Zenon DEF Waiting
  <1>8. h \in Gate /\ LinesOK(h) /\ Handed(gate, h, x)
    BY <1>1, <1>4, <1>5, <1>7, HandedComposed, Zenon DEF GateOK
  <1>9. Unserved(x)
    BY <1>3, ReleaseIInv, GoneUnserved, Zenon
  <1> QED BY <1>2, <1>3, <1>8, <1>9, TurnDispatched, Zenon

\* Putting a governor in place or taking it off serves nobody.
LEMMA GovernorInTurn ==
    ASSUME IInv, UNCHANGED <<gate, pc, class>>
    PROVE  InTurn
  <1>1. \A c \in Class : Served(c) = {}
    BY Zenon DEF Served, BulkHolders, Holders
  <1> QED BY <1>1, Zenon DEF InTurn

\* Waiters of a class are served in the order in which they queued, for any
\* number of callers and any limits: dispatch takes the front of a line, and no
\* join, withdrawal, upgrade or parked permit lets a later caller go first.
THEOREM FirstComeFirstServed == Spec => NoOvertaking
  <1>1. IInv /\ [Next]_vars => [InTurn]_vars
    <2> SUFFICES ASSUME IInv, Next
                 PROVE  InTurn
      BY Zenon
    <2>1. ASSUME NEW r \in Request,
                 \/ \E c \in Class : Observe(r, c)
                 \/ GiveUp(r) \/ ReleaseRemote(r) \/ Upgrade(r) \/ Yield(r) \/ Wake(r)
          PROVE  InTurn
      BY <2>1, OutsideInTurn, GiveUpInTurn, UpgradeInTurn, LineInTurn, Zenon
    <2>2. ASSUME NEW r \in Request, Advance(r)
          PROVE  InTurn
      <3>1. CASE \E wait \in BOOLEAN : Enter(r, wait)
        BY <3>1, EnterInTurn, Zenon
      <3>2. CASE AcquireRemote(r) \/ UpgradeRemote(r) \/ ParkRemote(r) \/ AbandonRemote(r) \/ Proceed(r) \/ ResumeRemote(r)
        BY <3>2, OutsideInTurn, Zenon
      <3>3. CASE Release(r) \/ Downgrade(r) \/ Stay(r)
        BY <3>3, ReleaseInTurn, DowngradeInTurn, LineInTurn, Zenon
      <3>4. CASE Surrender(r) \/ Repark(r) \/ Resign(r)
        BY <3>4, SurrenderInTurn, ResignInTurn, Zenon
      <3> QED BY <2>2, <3>1, <3>2, <3>3, <3>4, Zenon DEF Advance
    <2>3. CASE ConfigureProcessAdmission \/ TakeOff
      BY <2>3, GovernorInTurn, Zenon DEF ConfigureProcessAdmission, TakeOff
    <2> QED BY <2>1, <2>2, <2>3, Zenon DEF Next
  <1> QED BY <1>1, Invariance, PTL DEF Spec, NoOvertaking, InTurn

=============================================================================
