----------------------- MODULE ProcessAdmissionProofs -----------------------
(***************************************************************************)
(* Proofs about ProcessAdmission for all processes, rosters, callers and   *)
(* bounds.                                                                 *)
(*                                                                         *)
(* None of the properties is inductive.  BulkExclusive rests on Locked: a  *)
(* session that is on record with a permit, or was just granted the lock,  *)
(* owns the lock for as long as the server runs it.  That in turn needs    *)
(* the token (Holding): one caller of a process at a time uses the bulk    *)
(* session.  AlarmIsTrue needs that the session on record with the         *)
(* controller is the token holder's (Registered), that what an inspection  *)
(* read is current while nothing says otherwise (Watching), and that a     *)
(* session once found lost is never opened again (Judged).                 *)
(* RoleExclusive needs that a process with permits in use has not ended    *)
(* and that a control session keeps the lock of its role (Started).        *)
(***************************************************************************)
EXTENDS ProcessAdmission, TLAPS

\* The steps in which a caller has the token and no bulk session yet, and the
\* ones in which it may have one.
Obtaining == {"connect", "lock", "locked"}
Using == {"inspect", "inspecting", "decide", "drop", "unlock", "working"}

\* Whose the bulk session of a process is.
Holding ==
    \A x \in Permit :
        /\ held[x] # 0 => pc[x] \in Using /\ token[Home[x]] = x
        /\ pc[x] \in Obtaining => held[x] = 0 /\ token[Home[x]] = x
        /\ pc[x] \in {"drop", "unlock"} => held[x] # 0
        /\ pc[x] = "working" /\ parked[x] => held[x] = 0

\* A session that was granted the lock has it until the server ends the session.
Locked ==
    \A x \in Permit :
        /\ held[x] # 0 /\ <<Home[x], held[x]>> \in sessions
              => bulkOwner[KeyOf(Home[x])] = <<Home[x], held[x]>>
        /\ pc[x] = "locked" /\ Current(Home[x]) \in sessions
              => bulkOwner[KeyOf(Home[x])] = Current(Home[x])

\* The session on record is the one of the permit with the token.
Registered ==
    \A p \in Process : pid[p] # 0 =>
        /\ token[p] \in Permit /\ Home[token[p]] = p
        /\ held[token[p]] = pid[p] /\ pc[token[p]] # "unlock"

\* What an inspection read stands as long as its epoch is current, and if the
\* lock was not found then, its session is lost.
Watching ==
    \A i \in Process \cup Permit : probe[i].step # "idle" /\ probe[i].fresh =>
        /\ probe[i].pid = pid[At(i)]
        /\ probe[i].step = "answered" => pid[At(i)] # 0 /\ <<At(i), pid[At(i)]>> \notin sessions

\* The session an inspection has found lost was opened, and stays lost.
Judged ==
    /\ \A p \in Process : pid[p] <= serial[p]
    /\ \A i \in Process \cup Permit : probe[i].step = "lost" =>
          /\ probe[i].pid # 0 /\ probe[i].pid <= serial[At(i)]
          /\ <<At(i), probe[i].pid>> \notin sessions

\* A permit is used in a process that has not ended, readiness is that of a
\* running controller, and a control session holds the lock of its role.
Started ==
    /\ \A p \in Process : ready[p] => phase[p] = "running"
    /\ \A x \in Permit : pc[x] # "idle" => phase[Home[x]] \in {"running", "closing"}
    /\ \A p \in control : roleOwner[RoleOf[p]] = p

IInv == TypeOK /\ Holding /\ Locked /\ Registered /\ Watching /\ Judged /\ Started

-----------------------------------------------------------------------------
(* Types. *)

\* An update of one value.
LEMMA Update ==
    ASSUME NEW S, NEW V, NEW f \in [S -> V], NEW x \in S, NEW v \in V
    PROVE  [f EXCEPT ![x] = v] \in [S -> V]
  BY Zenon

\* The callers' steps end with one of these.
LEMMA ReturnTyped ==
    ASSUME TypeOK, NEW x \in Permit, Return(x)
    PROVE  /\ pc' \in [Permit -> Step]
           /\ goal' \in [Permit -> {"acquire", "upgrade", "resume", "park", "release"}]
           /\ slot' \in [Permit -> BOOLEAN] /\ wanted' \in [Permit -> BOOLEAN]
           /\ parked' \in [Permit -> BOOLEAN]
  <1> DEFINE over == goal[x] \in {"acquire", "release"}
  <1>1. slot' = [slot EXCEPT ![x] = slot[x] /\ ~over]
    BY Zenon DEF Return
  <1>2. wanted' = [wanted EXCEPT ![x] = wanted[x] /\ ~over]
    BY Zenon DEF Return
  <1>3. parked' = [parked EXCEPT ![x] = (parked[x] \/ goal[x] = "park") /\ ~over]
    BY Zenon DEF Return
  <1>4. pc' \in [Permit -> Step] /\ goal' \in [Permit -> {"acquire", "upgrade", "resume", "park", "release"}]
    BY Zenon DEF TypeOK, Return, Goto, Step
  <1>5. (slot[x] /\ ~over) \in BOOLEAN /\ (wanted[x] /\ ~over) \in BOOLEAN
        /\ ((parked[x] \/ goal[x] = "park") /\ ~over) \in BOOLEAN
    BY Zenon
  <1> HIDE DEF over
  <1>6. slot \in [Permit -> BOOLEAN] /\ wanted \in [Permit -> BOOLEAN] /\ parked \in [Permit -> BOOLEAN]
    BY Zenon DEF TypeOK
  <1>7. slot' \in [Permit -> BOOLEAN]
    BY <1>1, <1>5, <1>6, Update, Zenon
  <1>8. wanted' \in [Permit -> BOOLEAN]
    BY <1>2, <1>5, <1>6, Update, Zenon
  <1>9. parked' \in [Permit -> BOOLEAN]
    BY <1>3, <1>5, <1>6, Update, Zenon
  <1> QED BY <1>4, <1>7, <1>8, <1>9, Zenon

\* So does a refusal.
LEMMA RefuseTyped ==
    ASSUME TypeOK, NEW x \in Permit, Refuse(x)
    PROVE  /\ pc' \in [Permit -> Step]
           /\ goal' \in [Permit -> {"acquire", "upgrade", "resume", "park", "release"}]
           /\ slot' \in [Permit -> BOOLEAN] /\ wanted' \in [Permit -> BOOLEAN]
           /\ parked' \in [Permit -> BOOLEAN]
  <1>1. CASE held[x] # 0
    BY <1>1 DEF TypeOK, Refuse, Goto, Step
  <1>2. CASE held[x] = 0
    BY <1>2, ReturnTyped, Zenon DEF Refuse
  <1> QED BY <1>1, <1>2, Zenon

\* What an inspection does to the controller.
LEMMA ConcludeTyped ==
    ASSUME TypeOK, NEW p \in Process, NEW why \in {"bulk", "other"}, NEW r \in BOOLEAN,
           Fail(p, why) \/ SetReady(p, r) \/ UNCHANGED controller
    PROVE  /\ phase' \in [Process -> {"down", "opening", "running", "closing", "closed"}]
           /\ ready' \in [Process -> BOOLEAN]
           /\ err' \in [Process -> {"none", "bulk", "other"}]
  BY Zenon DEF TypeOK, Fail, SetReady, controller

\* An inspection is made where it is, or where its caller is.
LEMMA AtHome ==
    ASSUME NEW i \in Process \cup Permit
    PROVE  At(i) \in Process /\ (i \in Permit => At(i) = Home[i])
  BY PlacementAssumption, OwnerAssumption, Zenon DEF At

\* The locks that are left are those of sessions that are left.
LEMMA LocksLeft ==
    ASSUME TypeOK, NEW s \in Session
    PROVE  LocksWithout(s) \in [Keys -> (sessions \ {s}) \cup {Nobody}]
  BY Zenon DEF TypeOK, LocksWithout

\* A role has a bulk lock.
LEMMA KeyTyped ==
    ASSUME NEW p \in Process
    PROVE  RoleOf[p] \in Role /\ KeyOf(p) \in Keys
  BY PlacementAssumption, Zenon DEF KeyOf, Keys

\* The server's own steps keep the types.
LEMMA ServerTyped ==
    ASSUME TypeOK, ServerStep
    PROVE  TypeOK'
  <1>1. ASSUME NEW s \in Session, LoseSession(s) \/ ReapSession(s) PROVE TypeOK'
    <2>1. bulkOwner' \in [Keys -> sessions' \cup {Nobody}]
      BY <1>1, LocksLeft, Zenon DEF LoseSession, ReapSession, SessionEnds
    <2>2. sessions' \subseteq Session /\ late' \subseteq sessions'
      BY <1>1, Zenon DEF LoseSession, ReapSession, SessionEnds, TypeOK
    <2>3. faults' \in 0 .. MaxFaults
      BY <1>1, BoundAssumption DEF LoseSession, ReapSession, TypeOK
    <2> QED BY <1>1, <2>1, <2>2, <2>3 DEF LoseSession, ReapSession, SessionEnds, TypeOK, controller, pool, permit
  <1>2. ASSUME NEW s \in Session, GrantLate(s) PROVE TypeOK'
    <2>1. KeyOf(s[1]) \in Keys /\ s \in sessions
      BY <1>2, KeyTyped, Zenon DEF GrantLate, TypeOK, Session
    <2>2. bulkOwner' \in [Keys -> sessions' \cup {Nobody}]
      BY <1>2, <2>1, Zenon DEF GrantLate, TypeOK
    <2> QED BY <1>2, <2>2, Zenon DEF GrantLate, TypeOK, controller, pool, permit
  <1>3. ASSUME NEW p \in Process, LoseControl(p) \/ ReapControl(p) PROVE TypeOK'
    <2>1. faults' \in 0 .. MaxFaults
      BY <1>3, BoundAssumption DEF LoseControl, ReapControl, TypeOK
    <2> QED BY <1>3, <2>1, Zenon DEF LoseControl, ReapControl, ControlEnds, TypeOK, controller, pool, permit
  <1> QED BY <1>1, <1>2, <1>3, Zenon DEF ServerStep

\* An inspection that begins.
LEMMA ProbeBegins ==
    ASSUME TypeOK, NEW i \in Process \cup Permit, NEW x \in Process \cup Permit, NEW n \in 0 .. MaxSessions,
           probe' = [probe EXCEPT ![i] = [NoInspection EXCEPT
                        !.step = "read", !.fresh = TRUE, !.caller = x, !.pid = n]]
    PROVE  probe' \in [Process \cup Permit -> Inspection]
  BY Zenon DEF TypeOK, Inspection, NoInspection

\* One that is answered.
LEMMA ProbeAnswered ==
    ASSUME TypeOK, NEW i \in Process \cup Permit, NEW owned \in BOOLEAN,
           NEW answer \in {"error", "unowned", "incomplete", "complete"}, Answer(i, answer, owned)
    PROVE  probe' \in [Process \cup Permit -> Inspection]
  <1>1. probe[i] \in Inspection /\ 0 \in 0 .. MaxSessions
    BY BoundAssumption DEF TypeOK
  <1>2. (probe[i].fresh /\ ~owned) \in BOOLEAN
    BY Zenon
  <1> DEFINE new == [probe[i] EXCEPT !.step = "answered", !.answer = answer, !.bulkOwned = owned,
                        !.pid = IF owned THEN 0 ELSE probe[i].pid, !.fresh = probe[i].fresh /\ ~owned]
  <1>3. new \in Inspection
    BY <1>1, <1>2, Zenon DEF Inspection
  <1>4. probe' = [probe EXCEPT ![i] = new]
    BY Zenon DEF Answer
  <1> QED BY <1>3, <1>4, Update, Zenon DEF TypeOK

\* One that ends.
LEMMA ProbeEnds ==
    ASSUME TypeOK, NEW i \in Process \cup Permit, probe' = [probe EXCEPT ![i] = NoInspection]
    PROVE  probe' \in [Process \cup Permit -> Inspection]
  BY BoundAssumption DEF TypeOK, Inspection, NoInspection

\* What a step of the controller's epoch leaves of the inspections.
LEMMA EpochTyped ==
    ASSUME TypeOK, NEW p \in Process, NextEpoch(p)
    PROVE  probe' \in [Process \cup Permit -> Inspection]
  <1>1. ASSUME NEW i \in Process \cup Permit PROVE [probe[i] EXCEPT !.fresh = FALSE] \in Inspection
    <2>1. probe[i] \in Inspection
      BY Zenon DEF TypeOK
    <2> QED BY <2>1, Zenon DEF Inspection
  <1> QED BY <1>1, Zenon DEF TypeOK, NextEpoch

\* The controller's steps keep the types.
LEMMA ControlTyped ==
    ASSUME TypeOK, NEW p \in Process, ControlStep(p)
    PROVE  TypeOK'
  <1>0. 0 \in 0 .. MaxSessions
    BY BoundAssumption
  <1>1. CASE Open(p)
    <2>1. probe' \in [Process \cup Permit -> Inspection]
      BY <1>0, <1>1, Zenon DEF Open, TypeOK, Inspection, NoInspection
    <2> QED BY <1>1, <2>1, KeyTyped, Zenon DEF Open, TypeOK, pool, permit
  <1>2. CASE Opened(p)
    <2>1. probe' \in [Process \cup Permit -> Inspection]
      BY <1>2, ProbeEnds, Zenon DEF Opened
    <2> QED BY <1>2, <2>1, Zenon DEF Opened, TypeOK, server, pool, permit
  <1>3. CASE Heartbeat(p)
    <2>1. probe' \in [Process \cup Permit -> Inspection]
      BY <1>3, ProbeBegins, Zenon DEF Heartbeat, TypeOK
    <2> QED BY <1>3, <2>1, Zenon DEF Heartbeat, TypeOK, controller, server, pool, permit
  <1>4. CASE Beat(p)
    <2>1. probe' \in [Process \cup Permit -> Inspection]
      BY <1>4, ProbeEnds, Zenon DEF Beat
    <2>2. At(p) = p
      BY Zenon DEF At
    <2>3. UNCHANGED controller \/ (\E why \in {"bulk", "other"} : Fail(p, why)) \/ (\E r \in BOOLEAN : SetReady(p, r))
      BY <1>4, <2>2, Zenon DEF Beat, Conclude
    <2>4. /\ phase' \in [Process -> {"down", "opening", "running", "closing", "closed"}]
          /\ ready' \in [Process -> BOOLEAN]
          /\ err' \in [Process -> {"none", "bulk", "other"}]
      BY <2>3, ConcludeTyped, Zenon
    <2> QED BY <1>4, <2>1, <2>4, Zenon DEF Beat, TypeOK, server, pool, permit
  <1>5. CASE Close(p)
    <2>1. /\ phase' \in [Process -> {"down", "opening", "running", "closing", "closed"}]
          /\ ready' \in [Process -> BOOLEAN]
          /\ err' \in [Process -> {"none", "bulk", "other"}]
      BY <1>5, ConcludeTyped, Zenon DEF Close
    <2> QED BY <1>5, <2>1, Zenon DEF Close, TypeOK, server, pool, permit
  <1>6. CASE Drain(p)
    BY <1>6, Zenon DEF Drain, ControlEnds, TypeOK, server, permit
  <1>7. CASE Crash(p)
    <2>1. /\ phase' \in [Process -> {"down", "opening", "running", "closing", "closed"}]
          /\ ready' \in [Process -> BOOLEAN] /\ pooled' \in [Process -> BOOLEAN]
          /\ late' \subseteq sessions /\ faults' \in 0 .. MaxFaults
          /\ pid' \in [Process -> 0 .. MaxSessions] /\ token' \in [Process -> Permit \cup {Nobody}]
      BY <1>0, <1>7, BoundAssumption DEF Crash, TypeOK
    <2>2. pc' \in [Permit -> Step] /\ held' \in [Permit -> 0 .. MaxSessions]
          /\ goal' \in [Permit -> {"acquire", "upgrade", "resume", "park", "release"}]
      BY <1>0, <1>7, Zenon DEF Crash, TypeOK, Step
    <2>3. \A x \in Permit : (slot[x] /\ Home[x] # p) \in BOOLEAN
            /\ (wanted[x] /\ Home[x] # p) \in BOOLEAN /\ (parked[x] /\ Home[x] # p) \in BOOLEAN
      BY Zenon
    <2>4. slot' \in [Permit -> BOOLEAN] /\ wanted' \in [Permit -> BOOLEAN] /\ parked' \in [Permit -> BOOLEAN]
      BY <1>7, <2>3, Zenon DEF Crash
    <2>5. NoInspection \in Inspection
      BY <1>0, Zenon DEF NoInspection, Inspection
    <2>6. probe' \in [Process \cup Permit -> Inspection]
      BY <1>7, <2>5, Zenon DEF Crash, TypeOK
    <2> QED BY <1>7, <2>1, <2>2, <2>4, <2>6, Zenon DEF Crash, TypeOK
  <1> QED BY <1>1, <1>2, <1>3, <1>4, <1>5, <1>6, <1>7, Zenon DEF ControlStep

\* So do the inspections.
LEMMA QueryTyped ==
    ASSUME TypeOK, NEW i \in Process \cup Permit, Query(i)
    PROVE  TypeOK'
  <1>1. \E answer \in {"error", "unowned", "incomplete", "complete"}, owned \in BOOLEAN : Answer(i, answer, owned)
    BY Zenon DEF Query
  <1>2. probe' \in [Process \cup Permit -> Inspection]
    BY <1>1, ProbeAnswered, Zenon
  <1>3. faults' \in 0 .. MaxFaults
    <2>1. faults' = faults \/ (faults < MaxFaults /\ faults' = faults + 1)
      BY Zenon DEF Query
    <2> QED BY <2>1, BoundAssumption DEF TypeOK
  <1> QED BY <1>2, <1>3, Zenon DEF Query, TypeOK, controller, server, pool, permit

\* And the inspection that finds its session lost.
LEMMA FindLostTyped ==
    ASSUME TypeOK, NEW i \in Process \cup Permit, FindLost(i)
    PROVE  TypeOK'
  <1>1. probe[i] \in Inspection
    BY Zenon DEF TypeOK
  <1>2. [probe[i] EXCEPT !.step = "lost", !.fresh = FALSE] \in Inspection
    BY <1>1, Zenon DEF Inspection
  <1>3. probe' = [probe EXCEPT ![i] = [probe[i] EXCEPT !.step = "lost", !.fresh = FALSE]]
    BY <1>1, Zenon DEF FindLost, TypeOK
  <1>4. probe' \in [Process \cup Permit -> Inspection]
    BY <1>2, <1>3, Update, Zenon DEF TypeOK
  <1> QED BY <1>4, Zenon DEF FindLost, TypeOK, controller, server, pool, permit

\* The steps that take, use up and give back the bulk session keep the types.
LEMMA BulkTyped ==
    ASSUME TypeOK, NEW x \in Permit, BulkStep(x)
    PROVE  TypeOK'
  <1> DEFINE p == Home[x]
  <1>0. p \in Process /\ KeyOf(p) \in Keys /\ 0 \in 0 .. MaxSessions /\ serial[p] \in 0 .. MaxSessions
    BY BoundAssumption, PlacementAssumption, KeyTyped DEF TypeOK
  <1>1. CASE TakeToken(x)
    BY <1>0, <1>1, Zenon DEF TakeToken, Goto, Step, TypeOK, controller, server, pool
  <1>2. CASE Connect(x)
    <2>1. CASE pooled[p] /\ Current(p) \in sessions
      BY <1>2, <2>1, Zenon DEF Connect, Goto, Step, TypeOK, controller, server, pool
    <2>2. CASE ~(pooled[p] /\ Current(p) \in sessions)
      <3>1. serial[p] + 1 \in 1 .. MaxSessions /\ <<p, serial[p] + 1>> \in Session
        BY <1>0, <1>2, <2>2, BoundAssumption DEF Connect, Session
      <3>2. serial[p] + 1 \in 0 .. MaxSessions
        BY <3>1
      <3>3. serial' \in [Process -> 0 .. MaxSessions] /\ pooled' \in [Process -> BOOLEAN]
        BY <1>0, <1>2, <2>2, <3>2, Zenon DEF Connect, TypeOK
      <3>4. sessions \subseteq sessions' /\ sessions' \subseteq Session /\ late' = late /\ bulkOwner' = bulkOwner
        BY <1>2, <2>2, <3>1 DEF Connect, TypeOK
      <3>5. bulkOwner' \in [Keys -> sessions' \cup {Nobody}] /\ late' \subseteq sessions'
        BY <3>4, Zenon DEF TypeOK
      <3>6. pc' \in [Permit -> Step]
        BY <1>2, Zenon DEF Connect, Goto, Step, TypeOK
      <3> QED BY <1>2, <2>2, <3>3, <3>4, <3>5, <3>6, Zenon DEF Connect, TypeOK, controller
    <2> QED BY <2>1, <2>2, Zenon
  <1>3. CASE Lock(x)
    BY <1>0, <1>3, Zenon DEF Lock, Goto, Step, TypeOK, controller, pool
  <1>4. CASE Publish(x)
    <2>1. probe' \in [Process \cup Permit -> Inspection]
      BY <1>0, <1>4, EpochTyped, Zenon DEF Publish
    <2> QED BY <1>0, <1>4, <2>1, Zenon DEF Publish, Goto, Step, TypeOK, controller, server, pool
  <1>5. CASE AbandonBulk(x)
    <2>1. pooled' \in [Process -> BOOLEAN] /\ late' \subseteq sessions
      BY <1>0, <1>5, Zenon DEF AbandonBulk, TypeOK
    <2>2. token' \in [Process -> Permit \cup {Nobody}]
      BY <1>0, <1>5, Zenon DEF AbandonBulk, TypeOK
    <2>3. Return(x)
      BY <1>5, Zenon DEF AbandonBulk
    <2> QED BY <1>5, <2>1, <2>2, <2>3, ReturnTyped, Zenon DEF AbandonBulk, TypeOK, controller
  <1>6. CASE Drop(x)
    <2>1. probe' \in [Process \cup Permit -> Inspection]
      BY <1>0, <1>6, EpochTyped, Zenon DEF Drop
    <2> QED BY <1>0, <1>6, <2>1, Zenon DEF Drop, Goto, Step, TypeOK, controller, server, pool
  <1>7. CASE Unlock(x)
    <2>1. pooled' \in [Process -> BOOLEAN] /\ token' \in [Process -> Permit \cup {Nobody}]
          /\ held' \in [Permit -> 0 .. MaxSessions]
      BY <1>0, <1>7, Zenon DEF Unlock, TypeOK
    <2>2. bulkOwner' \in {bulkOwner, LocksWithout(<<p, held[x]>>)}
      BY <1>7, Zenon DEF Unlock
    <2>3. bulkOwner' \in [Keys -> sessions \cup {Nobody}]
      BY <2>2, Zenon DEF LocksWithout, TypeOK
    <2>4. /\ phase' \in [Process -> {"down", "opening", "running", "closing", "closed"}]
          /\ ready' \in [Process -> BOOLEAN]
          /\ err' \in [Process -> {"none", "bulk", "other"}]
      BY <1>0, <1>7, ConcludeTyped, Zenon DEF Unlock
    <2>5. Return(x)
      BY <1>7, Zenon DEF Unlock
    <2> QED BY <1>7, <2>1, <2>3, <2>4, <2>5, ReturnTyped, Zenon DEF Unlock, TypeOK
  <1> QED BY <1>1, <1>2, <1>3, <1>4, <1>5, <1>6, <1>7, Zenon DEF BulkStep

\* And the other steps of a permit.
LEMMA PermitTyped ==
    ASSUME TypeOK, NEW x \in Permit, PermitStep(x)
    PROVE  TypeOK'
  <1> DEFINE p == Home[x]
  <1>0. p \in Process
    BY PlacementAssumption, Zenon
  <1>1. ASSUME NEW bulk \in BOOLEAN, Acquire(x, bulk) PROVE TypeOK'
    BY <1>1, Zenon DEF Acquire, Goto, Step, TypeOK, controller, server, pool
  <1>2. CASE TakeActive(x)
    <2>1. slot' \in [Permit -> BOOLEAN] /\ pc' \in [Permit -> Step]
      BY <1>2, Zenon DEF TakeActive, Goto, Step, TypeOK
    <2> QED BY <1>2, <2>1, Zenon DEF TakeActive, TypeOK, controller, server, pool
  <1>3. CASE InspectGrant(x)
    <2>1. probe' \in [Process \cup Permit -> Inspection]
      BY <1>0, <1>3, ProbeBegins, Zenon DEF InspectGrant, TypeOK
    <2> QED BY <1>3, <2>1, Zenon DEF InspectGrant, Goto, Step, TypeOK, controller, server, pool
  <1>4. ASSUME NEW i \in {x, p}, Inspected(i, x) PROVE TypeOK'
    <2>1. i \in Process \cup Permit /\ At(i) \in Process
      BY <1>0, <1>4, AtHome, Zenon
    <2>2. probe' \in [Process \cup Permit -> Inspection]
      BY <1>4, <2>1, ProbeEnds, Zenon DEF Inspected
    <2>3. UNCHANGED controller \/ (\E why \in {"bulk", "other"} : Fail(At(i), why)) \/ (\E r \in BOOLEAN : SetReady(At(i), r))
      BY <1>4, Zenon DEF Inspected, Conclude
    <2>4. /\ phase' \in [Process -> {"down", "opening", "running", "closing", "closed"}]
          /\ ready' \in [Process -> BOOLEAN]
          /\ err' \in [Process -> {"none", "bulk", "other"}]
      BY <2>1, <2>3, ConcludeTyped, Zenon
    <2>5. /\ pc' \in [Permit -> Step]
          /\ goal' \in [Permit -> {"acquire", "upgrade", "resume", "park", "release"}]
          /\ slot' \in [Permit -> BOOLEAN] /\ wanted' \in [Permit -> BOOLEAN]
          /\ parked' \in [Permit -> BOOLEAN]
      <3>1. CASE UNCHANGED <<pc, goal, slot, wanted, parked>>
        BY <3>1, Zenon DEF TypeOK
      <3>2. CASE Goto(x, "decide") /\ UNCHANGED <<goal, slot, wanted, parked>>
        BY <3>2, Zenon DEF TypeOK, Goto, Step
      <3>3. CASE Refuse(x)
        BY <3>3, RefuseTyped, Zenon
      <3> QED BY <1>4, <3>1, <3>2, <3>3, Zenon DEF Inspected
    <2> QED BY <1>4, <2>2, <2>4, <2>5, Zenon DEF Inspected, TypeOK, server, pool
  <1>5. CASE Grant(x)
    <2>1. (wanted[x] \/ goal[x] = "upgrade") \in BOOLEAN
      BY Zenon
    <2>2. wanted' \in [Permit -> BOOLEAN]
      BY <1>5, <2>1, Update, Zenon DEF Grant, TypeOK
    <2>3. pc' \in [Permit -> Step] /\ parked' \in [Permit -> BOOLEAN]
          /\ goal' \in [Permit -> {"acquire", "upgrade", "resume", "park", "release"}]
      BY <1>5, Zenon DEF Grant, Goto, Step, TypeOK
    <2> QED BY <1>5, <2>2, <2>3, Zenon DEF Grant, TypeOK, controller, server, pool
  <1>6. CASE Abandon(x)
    <2>1. pooled' \in [Process -> BOOLEAN] /\ probe' \in [Process \cup Permit -> Inspection]
      BY <1>0, <1>6, ProbeEnds, Zenon DEF Abandon, TypeOK
    <2>2. Refuse(x)
      BY <1>6, Zenon DEF Abandon
    <2> QED BY <1>6, <2>1, <2>2, RefuseTyped, Zenon DEF Abandon, TypeOK, controller, server
  <1>7. CASE Upgrade(x)
    BY <1>7, Zenon DEF Upgrade, Goto, Step, TypeOK, controller, server, pool
  <1>8. CASE Park(x)
    BY <1>8, Zenon DEF Park, Goto, Step, TypeOK, controller, server, pool
  <1>9. CASE Resume(x)
    BY <1>9, Zenon DEF Resume, Goto, Step, TypeOK, controller, server, pool
  <1>10. CASE Release(x)
    <2>1. CASE held[x] # 0
      BY <1>10, <2>1 DEF Release, Goto, Step, TypeOK, controller, server, pool
    <2>2. CASE held[x] = 0
      BY <1>10, <2>2, Zenon DEF Release, Goto, Step, TypeOK, controller, server, pool
    <2> QED BY <2>1, <2>2, Zenon
  <1> QED BY <1>1, <1>2, <1>3, <1>4, <1>5, <1>6, <1>7, <1>8, <1>9, <1>10, Zenon DEF PermitStep

-----------------------------------------------------------------------------
(* The token and the lock. *)

\* A caller that returns is idle or works on, and only works on with what it had.
LEMMA ReturnStep ==
    ASSUME TypeOK, NEW x \in Permit, Return(x)
    PROVE  /\ pc'[x] \in {"idle", "working"}
           /\ \A y \in Permit \ {x} : pc'[y] = pc[y] /\ parked'[y] = parked[y]
  BY Zenon DEF TypeOK, Return, Goto

\* So is a caller that is refused, unless it has to give a session back first.
LEMMA RefuseStep ==
    ASSUME TypeOK, NEW x \in Permit, Refuse(x)
    PROVE  /\ held[x] # 0 => pc'[x] = "drop" /\ parked'[x] = parked[x]
           /\ held[x] = 0 => pc'[x] \in {"idle", "working"}
           /\ \A y \in Permit \ {x} : pc'[y] = pc[y] /\ parked'[y] = parked[y]
  <1>1. CASE held[x] # 0
    BY <1>1, Zenon DEF TypeOK, Refuse, Goto
  <1>2. CASE held[x] = 0
    BY <1>2, ReturnStep, Zenon DEF Refuse
  <1> QED BY <1>1, <1>2, Zenon

\* The token, the session on record and the sessions of the permits are touched
\* by bulk steps and by the death of a process only.
LEMMA OthersLeaveSessions ==
    ASSUME \/ ServerStep
           \/ \E p \in Process : ControlStep(p) /\ ~Crash(p)
           \/ \E i \in Process \cup Permit : Query(i) \/ FindLost(i)
           \/ UNCHANGED vars
    PROVE  UNCHANGED <<pid, token, permit, pooled, serial>> \/ \E p \in Process : Drain(p)
  BY Zenon DEF ServerStep, LoseSession, ReapSession, GrantLate, LoseControl, ReapControl, ControlStep, Open,
         Opened, Heartbeat, Beat, Close, Query, FindLost, vars, pool

\* One caller's steps leave the others alone.
LEMMA OthersSame ==
    ASSUME TypeOK, NEW x \in Permit, BulkStep(x) \/ PermitStep(x)
    PROVE  \A y \in Permit \ {x} : pc'[y] = pc[y] /\ parked'[y] = parked[y] /\ held'[y] = held[y]
  <1>1. CASE TakeToken(x) \/ Connect(x) \/ Lock(x) \/ Publish(x) \/ Drop(x)
    BY <1>1, Zenon DEF TypeOK, TakeToken, Connect, Lock, Publish, Drop, Goto
  <1>2. CASE AbandonBulk(x) \/ Unlock(x)
    BY <1>2, ReturnStep, Zenon DEF TypeOK, AbandonBulk, Unlock
  <1>3. ASSUME NEW bulk, Acquire(x, bulk) PROVE \A y \in Permit \ {x} : pc'[y] = pc[y] /\ parked'[y] = parked[y] /\ held'[y] = held[y]
    BY <1>3, Zenon DEF TypeOK, Acquire, Goto
  <1>4. CASE TakeActive(x) \/ InspectGrant(x) \/ Grant(x) \/ Upgrade(x) \/ Park(x) \/ Resume(x) \/ Release(x)
    BY <1>4 DEF TypeOK, TakeActive, InspectGrant, Grant, Upgrade, Park, Resume, Release, Goto
  <1>5. ASSUME NEW i, Inspected(i, x) PROVE \A y \in Permit \ {x} : pc'[y] = pc[y] /\ parked'[y] = parked[y] /\ held'[y] = held[y]
    BY <1>5, RefuseStep DEF TypeOK, Inspected, Goto
  <1>6. CASE Abandon(x)
    BY <1>6, RefuseStep, Zenon DEF TypeOK, Abandon
  <1> QED BY <1>1, <1>2, <1>3, <1>4, <1>5, <1>6, Zenon DEF BulkStep, PermitStep

\* What a process knows of x's bulk session.
HoldingAt(x) ==
    /\ held[x] # 0 => pc[x] \in Using /\ token[Home[x]] = x
    /\ pc[x] \in Obtaining => held[x] = 0 /\ token[Home[x]] = x
    /\ pc[x] \in {"drop", "unlock"} => held[x] # 0
    /\ pc[x] = "working" /\ parked[x] => held[x] = 0

\* A caller takes the token when nobody has it and gives it back when it has it.
LEMMA TokenStep ==
    ASSUME IInv, NEW x \in Permit, BulkStep(x) \/ PermitStep(x)
    PROVE  /\ \A p \in Process \ {Home[x]} : token'[p] = token[p]
           /\ \/ token' = token
              \/ token[Home[x]] = Nobody /\ pc[x] = "token"
              \/ token[Home[x]] = x /\ (AbandonBulk(x) \/ Unlock(x))
  <1>0. Home[x] \in Process /\ token \in [Process -> Permit \cup {Nobody}] /\ HoldingAt(x)
    BY PlacementAssumption, Zenon DEF IInv, TypeOK, Holding, HoldingAt
  <1>1. CASE TakeToken(x)
    BY <1>0, <1>1, Zenon DEF TakeToken
  <1>2. CASE AbandonBulk(x)
    BY <1>0, <1>2, Zenon DEF AbandonBulk, HoldingAt, Obtaining
  <1>3. CASE Unlock(x)
    BY <1>0, <1>3, Zenon DEF Unlock, HoldingAt
  <1>4. CASE Connect(x) \/ Lock(x) \/ Publish(x) \/ Drop(x)
    BY <1>4, Zenon DEF Connect, Lock, Publish, Drop
  <1>5. CASE PermitStep(x)
    BY <1>5, Zenon DEF PermitStep, Acquire, TakeActive, InspectGrant, Inspected, Grant, Abandon, Upgrade, Park, Resume, Release
  <1> QED BY <1>1, <1>2, <1>3, <1>4, <1>5, Zenon DEF BulkStep

\* The caller's own part.
LEMMA HoldingOwn ==
    ASSUME IInv, NEW x \in Permit, BulkStep(x) \/ PermitStep(x)
    PROVE  HoldingAt(x)'
  <1>0. /\ Home[x] \in Process /\ token \in [Process -> Permit \cup {Nobody}] /\ HoldingAt(x) /\ TypeOK
        /\ pc \in [Permit -> Step] /\ held \in [Permit -> 0 .. MaxSessions] /\ parked \in [Permit -> BOOLEAN]
    BY PlacementAssumption, Zenon DEF IInv, TypeOK, Holding, HoldingAt
  <1>1. CASE TakeToken(x) \/ Connect(x) \/ Lock(x)
    BY <1>0, <1>1, Zenon DEF TakeToken, Connect, Lock, Goto, HoldingAt, Using, Obtaining
  <1>2. CASE Publish(x) \/ Drop(x)
    BY <1>0, <1>2, Zenon DEF Publish, Drop, Goto, HoldingAt, Using, Obtaining
  <1>3. CASE AbandonBulk(x) \/ Unlock(x)
    <2>1. held'[x] = 0
      BY <1>0, <1>3, Zenon DEF AbandonBulk, Unlock, HoldingAt, Obtaining
    <2>2. pc'[x] \in {"idle", "working"}
      BY <1>0, <1>3, ReturnStep, Zenon DEF AbandonBulk, Unlock
    <2> QED BY <2>1, <2>2, Zenon DEF HoldingAt, Obtaining
  <1>4. ASSUME NEW bulk, Acquire(x, bulk) PROVE HoldingAt(x)'
    BY <1>0, <1>4, Zenon DEF Acquire, Goto, HoldingAt, Using, Obtaining
  <1>5. CASE TakeActive(x) \/ InspectGrant(x) \/ Grant(x)
    BY <1>0, <1>5, Zenon DEF TakeActive, InspectGrant, Grant, Goto, HoldingAt, Using, Obtaining
  <1>6. CASE Refuse(x) /\ UNCHANGED <<held, token>>
    BY <1>0, <1>6, RefuseStep, Zenon DEF HoldingAt, Using, Obtaining
  <1>7. ASSUME NEW i, Inspected(i, x) PROVE HoldingAt(x)'
    <2>1. CASE UNCHANGED <<pc, goal, slot, wanted, parked>>
      BY <1>0, <1>7, <2>1, Zenon DEF Inspected, HoldingAt
    <2>2. CASE pc[x] = "inspecting" /\ Goto(x, "decide") /\ UNCHANGED <<goal, slot, wanted, parked>>
      BY <1>0, <1>7, <2>2, Zenon DEF Inspected, Goto, HoldingAt, Using, Obtaining
    <2> QED BY <1>6, <1>7, <2>1, <2>2, Zenon DEF Inspected
  <1>8. CASE Abandon(x)
    BY <1>6, <1>8, Zenon DEF Abandon
  <1>9. CASE Upgrade(x) \/ Park(x) \/ Resume(x) \/ Release(x)
    BY <1>0, <1>9, Zenon DEF Upgrade, Park, Resume, Release, Goto, HoldingAt, Using, Obtaining
  <1> QED BY <1>1, <1>2, <1>3, <1>4, <1>5, <1>7, <1>8, <1>9, Zenon DEF BulkStep, PermitStep

\* The token is one caller's at a time.
LEMMA HoldingStep ==
    ASSUME IInv, Next
    PROVE  Holding'
  <1>0. /\ token \in [Process -> Permit \cup {Nobody}] /\ TypeOK /\ \A x \in Permit : HoldingAt(x) /\ Home[x] \in Process
        /\ Nobody \notin Permit
    BY PlacementAssumption, OwnerAssumption, Zenon DEF IInv, TypeOK, Holding, HoldingAt
  <1>1. SUFFICES ASSUME NEW y \in Permit PROVE HoldingAt(y)'
    BY Zenon DEF Holding, HoldingAt
  <1>2. CASE UNCHANGED <<pid, token, permit>>
    BY <1>0, <1>2, Zenon DEF HoldingAt, permit
  <1>3. ASSUME NEW p \in Process, Crash(p) PROVE HoldingAt(y)'
    <2>1. CASE Home[y] = p
      BY <1>3, <2>1, Zenon DEF Crash, HoldingAt, Obtaining
    <2>2. CASE Home[y] # p
      <3>1. held'[y] = held[y] /\ pc'[y] = pc[y] /\ token'[Home[y]] = token[Home[y]] /\ (parked'[y] => parked[y])
        BY <1>0, <1>3, <2>2, Zenon DEF Crash
      <3> QED BY <1>0, <3>1, Zenon DEF HoldingAt
    <2> QED BY <2>1, <2>2, Zenon
  <1>4. ASSUME NEW x \in Permit, BulkStep(x) \/ PermitStep(x) PROVE HoldingAt(y)'
    <2>1. CASE y = x
      BY <1>4, <2>1, HoldingOwn, Zenon
    <2>2. CASE y # x
      <3>1. held'[y] = held[y] /\ pc'[y] = pc[y] /\ parked'[y] = parked[y]
        BY <1>0, <1>4, <2>2, OthersSame, Zenon
      <3>2. token[Home[y]] = y => token'[Home[y]] = y
        BY <1>0, <1>4, <2>2, TokenStep
      <3> QED BY <1>0, <3>1, <3>2, Zenon DEF HoldingAt
    <2> QED BY <2>1, <2>2, Zenon
  <1>5. ASSUME NEW p \in Process, Drain(p) PROVE UNCHANGED <<pid, token, permit>>
    BY <1>5, Zenon DEF Drain
  <1> QED BY <1>2, <1>3, <1>4, <1>5, OthersLeaveSessions, Zenon DEF Next, ControlStep

\* The lock of x's session, once it has been granted.
LockedAt(x) ==
    /\ held[x] # 0 /\ <<Home[x], held[x]>> \in sessions
          => bulkOwner[KeyOf(Home[x])] = <<Home[x], held[x]>>
    /\ pc[x] = "locked" /\ Current(Home[x]) \in sessions
          => bulkOwner[KeyOf(Home[x])] = Current(Home[x])

\* A step in which no lock, session or serial changes and nobody gets to the
\* locked step or another session.
LEMMA LockedFrame ==
    ASSUME IInv, NEW y \in Permit, UNCHANGED <<sessions, bulkOwner, serial>>,
           held'[y] \in {0, held[y]}, pc'[y] = "locked" => pc[y] = "locked"
    PROVE  LockedAt(y)'
  BY Zenon DEF IInv, Locked, LockedAt, Current

\* A bulk session is not the owner of nothing.
LEMMA SessionIsSomebody ==
    ASSUME TypeOK
    PROVE  Nobody \notin sessions
  BY OwnerAssumption DEF TypeOK, Session

\* The server keeps the locks of the sessions it runs.
LEMMA LockedServer ==
    ASSUME IInv, ServerStep, NEW y \in Permit
    PROVE  LockedAt(y)'
  <1>0. /\ Home[y] \in Process /\ KeyOf(Home[y]) \in Keys /\ bulkOwner \in [Keys -> sessions \cup {Nobody}]
        /\ LockedAt(y) /\ TypeOK
    BY PlacementAssumption, KeyTyped, Zenon DEF IInv, TypeOK, Locked, LockedAt
  <1>1. ASSUME NEW s \in Session, LoseSession(s) \/ ReapSession(s) PROVE LockedAt(y)'
    <2>1. sessions' = sessions \ {s} /\ bulkOwner' = LocksWithout(s) /\ UNCHANGED <<held, pc, serial>>
      BY <1>1, Zenon DEF LoseSession, ReapSession, SessionEnds, pool, permit
    <2>2. bulkOwner[KeyOf(Home[y])] # s => bulkOwner'[KeyOf(Home[y])] = bulkOwner[KeyOf(Home[y])]
      BY <1>0, <2>1, Zenon DEF LocksWithout
    <2> QED BY <1>0, <2>1, <2>2, Zenon DEF LockedAt, Current
  <1>2. ASSUME NEW s \in Session, GrantLate(s) PROVE LockedAt(y)'
    <2>1. /\ bulkOwner[KeyOf(s[1])] = Nobody /\ bulkOwner' = [bulkOwner EXCEPT ![KeyOf(s[1])] = s]
          /\ UNCHANGED <<sessions, held, pc, serial>>
      BY <1>2, Zenon DEF GrantLate, pool, permit
    <2>2. bulkOwner[KeyOf(Home[y])] # Nobody => bulkOwner'[KeyOf(Home[y])] = bulkOwner[KeyOf(Home[y])]
      BY <1>0, <2>1, Zenon
    <2> QED BY <1>0, <2>1, <2>2, SessionIsSomebody, Zenon DEF LockedAt, Current
  <1>3. ASSUME NEW p \in Process, LoseControl(p) \/ ReapControl(p) PROVE LockedAt(y)'
    BY <1>3, LockedFrame, Zenon DEF LoseControl, ReapControl, ControlEnds, pool, permit
  <1> QED BY <1>1, <1>2, <1>3, Zenon DEF ServerStep

\* A caller that takes the bulk session, and one that gives it back.
LEMMA LockedBulk ==
    ASSUME IInv, NEW x \in Permit, BulkStep(x), NEW y \in Permit
    PROVE  LockedAt(y)'
  <1> DEFINE p == Home[x]
  <1>0. /\ p \in Process /\ Home[y] \in Process /\ KeyOf(p) \in Keys /\ KeyOf(Home[y]) \in Keys
        /\ LockedAt(y) /\ LockedAt(x) /\ HoldingAt(x) /\ HoldingAt(y) /\ TypeOK
    BY PlacementAssumption, KeyTyped, Zenon DEF IInv, Locked, LockedAt, Holding, HoldingAt
  <1>1. /\ bulkOwner \in [Keys -> sessions \cup {Nobody}] /\ held \in [Permit -> 0 .. MaxSessions]
        /\ pc \in [Permit -> Step] /\ serial \in [Process -> 0 .. MaxSessions]
    BY <1>0, Zenon DEF TypeOK
  <1>2. y # x => pc'[y] = pc[y] /\ held'[y] = held[y]
    BY <1>0, OthersSame, Zenon
  <1>3. CASE TakeToken(x) \/ Drop(x)
    BY <1>1, <1>2, <1>3, LockedFrame, Zenon DEF TakeToken, Drop, Goto, server, pool
  <1>4. CASE AbandonBulk(x)
    <2>1. pc'[x] # "locked" /\ held' = held /\ UNCHANGED <<sessions, bulkOwner, serial>>
      BY <1>0, <1>4, ReturnStep, Zenon DEF AbandonBulk
    <2> QED BY <1>2, <2>1, LockedFrame, Zenon
  <1>5. CASE Connect(x)
    <2>0. pc[x] = "connect" /\ pc'[x] = "lock" /\ held' = held /\ bulkOwner' = bulkOwner /\ held[x] = 0 /\ token[p] = x
      BY <1>0, <1>1, <1>5, Zenon DEF Connect, Goto, HoldingAt, Obtaining, server
    <2>1. CASE UNCHANGED <<server, pool>>
      BY <1>2, <2>0, <2>1, LockedFrame, Zenon DEF server, pool
    <2>2. CASE serial' = [serial EXCEPT ![p] = serial[p] + 1] /\ sessions' = sessions \cup {<<p, serial[p] + 1>>}
      <3>1. CASE Home[y] = p
        <4>1. held'[y] = 0 /\ pc'[y] # "locked"
          BY <1>0, <1>2, <2>0, <3>1, Zenon DEF HoldingAt, Obtaining
        <4> QED BY <4>1, Zenon DEF LockedAt
      <3>2. CASE Home[y] # p
        <4>1. y # x /\ Current(Home[y])' = Current(Home[y]) /\ Current(Home[y]) # <<p, serial[p] + 1>>
              /\ <<Home[y], held[y]>> # <<p, serial[p] + 1>>
          BY <1>0, <1>1, <2>2, <3>2, Zenon DEF Current
        <4> QED BY <1>0, <1>2, <2>0, <2>2, <4>1, Zenon DEF LockedAt
      <3> QED BY <3>1, <3>2, Zenon
    <2> QED BY <1>5, <2>1, <2>2, Zenon DEF Connect
  <1>6. CASE Lock(x)
    <2>0. /\ held' = held /\ held[x] = 0 /\ UNCHANGED <<sessions, serial>> /\ bulkOwner[KeyOf(p)] = Nobody
          /\ bulkOwner' = [bulkOwner EXCEPT ![KeyOf(p)] = Current(p)]
      BY <1>0, <1>6, Zenon DEF Lock, HoldingAt, Obtaining, pool
    <2>1. CASE y = x
      BY <1>0, <1>1, <2>0, <2>1, Zenon DEF LockedAt, Current
    <2>2. CASE y # x
      <3>1. bulkOwner[KeyOf(Home[y])] # Nobody => bulkOwner'[KeyOf(Home[y])] = bulkOwner[KeyOf(Home[y])]
        BY <1>0, <1>1, <2>0, Zenon
      <3> QED BY <1>0, <1>2, <2>0, <2>2, <3>1, SessionIsSomebody, Zenon DEF LockedAt, Current
    <2> QED BY <2>1, <2>2, Zenon
  <1>7. CASE Publish(x)
    <2>0. /\ held'[x] = serial[p] /\ pc[x] = "locked" /\ pc'[x] = "inspect" /\ UNCHANGED <<sessions, serial, bulkOwner>>
      BY <1>0, <1>1, <1>7, Zenon DEF Publish, Goto, server, pool
    <2>1. CASE y = x
      BY <1>0, <2>0, <2>1, Zenon DEF LockedAt, Current
    <2>2. CASE y # x
      BY <1>0, <1>2, <2>0, <2>2, Zenon DEF LockedAt, Current
    <2> QED BY <2>1, <2>2, Zenon
  <1>8. CASE Unlock(x)
    <2>0. /\ held'[x] = 0 /\ held[x] # 0 /\ pc'[x] # "locked" /\ UNCHANGED <<sessions, serial>> /\ token[p] = x
          /\ bulkOwner' \in {bulkOwner, LocksWithout(<<p, held[x]>>)}
      BY <1>0, <1>1, <1>8, ReturnStep, Zenon DEF Unlock, HoldingAt
    <2>1. CASE y = x
      BY <2>0, <2>1, Zenon DEF LockedAt
    <2>2. CASE y # x
      <3>1. Home[y] = p => held[y] = 0 /\ pc[y] # "locked"
        BY <1>0, <2>0, <2>2, Zenon DEF HoldingAt, Obtaining
      <3>2. bulkOwner[KeyOf(Home[y])] # <<p, held[x]>> => bulkOwner'[KeyOf(Home[y])] = bulkOwner[KeyOf(Home[y])]
        BY <1>0, <2>0, Zenon DEF LocksWithout
      <3>3. CASE Home[y] = p
        BY <1>2, <2>2, <3>1, <3>3, Zenon DEF LockedAt
      <3>4. CASE Home[y] # p
        <4>1. <<Home[y], held[y]>> # <<p, held[x]>> /\ Current(Home[y]) # <<p, held[x]>>
          BY <3>4, Zenon DEF Current
        <4> QED BY <1>0, <1>2, <2>0, <2>2, <3>2, <4>1, Zenon DEF LockedAt, Current
      <3> QED BY <3>3, <3>4, Zenon
    <2> QED BY <2>1, <2>2, Zenon
  <1> QED BY <1>3, <1>4, <1>5, <1>6, <1>7, <1>8, Zenon DEF BulkStep

\* A caller reaches the locked step by the grant of the lock only.
LEMMA LockedPermit ==
    ASSUME IInv, NEW x \in Permit, PermitStep(x), NEW y \in Permit
    PROVE  LockedAt(y)'
  <1>0. TypeOK /\ pc \in [Permit -> Step]
    BY Zenon DEF IInv, TypeOK
  <1>1. y # x => pc'[y] = pc[y]
    BY <1>0, OthersSame, Zenon
  <1>2. UNCHANGED <<sessions, bulkOwner, serial, held>>
    BY Zenon DEF PermitStep, Acquire, TakeActive, InspectGrant, Inspected, Grant, Abandon, Upgrade, Park, Resume, Release, server, pool
  <1>3. pc'[x] = "locked" => pc[x] = "locked"
    <2>1. ASSUME NEW bulk, Acquire(x, bulk) PROVE pc'[x] # "locked"
      BY <1>0, <2>1, Zenon DEF Acquire, Goto
    <2>2. CASE TakeActive(x) \/ InspectGrant(x) \/ Grant(x) \/ Upgrade(x) \/ Resume(x) \/ Release(x)
      BY <1>0, <2>2, Zenon DEF TakeActive, InspectGrant, Grant, Upgrade, Resume, Release, Goto
    <2>3. CASE Park(x)
      BY <1>0, <2>3, Zenon DEF Park, Goto
    <2>4. ASSUME NEW i, Inspected(i, x) PROVE pc'[x] = "locked" => pc[x] = "locked"
      BY <1>0, <2>4, RefuseStep, Zenon DEF Inspected, Goto
    <2>5. CASE Abandon(x)
      BY <1>0, <2>5, RefuseStep, Zenon DEF Abandon
    <2> QED BY <2>1, <2>2, <2>3, <2>4, <2>5, Zenon DEF PermitStep
  <1> QED BY <1>1, <1>2, <1>3, LockedFrame, Zenon

\* The lock stays with the session it was granted to.
LEMMA LockedStep ==
    ASSUME IInv, Next
    PROVE  Locked'
  <1>1. SUFFICES ASSUME NEW y \in Permit PROVE LockedAt(y)'
    BY Zenon DEF Locked, LockedAt
  <1>2. ASSUME NEW p \in Process, Crash(p) PROVE LockedAt(y)'
    <2>1. held'[y] \in {0, held[y]} /\ (pc'[y] = "locked" => pc[y] = "locked")
      BY <1>2, Zenon DEF Crash
    <2> QED BY <1>2, <2>1, LockedFrame, Zenon DEF Crash
  <1>3. ASSUME NEW p \in Process, ControlStep(p), ~Crash(p) PROVE LockedAt(y)'
    <2>1. UNCHANGED <<sessions, bulkOwner, serial, held, pc>>
      BY <1>3, Zenon DEF ControlStep, Open, Opened, Heartbeat, Beat, Close, Drain, ControlEnds, server, pool, permit
    <2> QED BY <2>1, LockedFrame, Zenon
  <1>4. ASSUME NEW i, Query(i) \/ FindLost(i) PROVE LockedAt(y)'
    BY <1>4, LockedFrame, Zenon DEF Query, FindLost, server, pool, permit
  <1> QED BY <1>2, <1>3, <1>4, LockedServer, LockedBulk, LockedPermit, Zenon DEF Next

-----------------------------------------------------------------------------
(* The session on record, and the inspections. *)

RegisteredAt(p) ==
    pid[p] # 0 => /\ token[p] \in Permit /\ Home[token[p]] = p
                  /\ held[token[p]] = pid[p] /\ pc[token[p]] # "unlock"

\* The session on record is published and taken back by the holder of the token.
LEMMA RegisteredStep ==
    ASSUME IInv, Next
    PROVE  Registered'
  <1>0. /\ TypeOK /\ token \in [Process -> Permit \cup {Nobody}] /\ pid \in [Process -> 0 .. MaxSessions]
        /\ held \in [Permit -> 0 .. MaxSessions] /\ pc \in [Permit -> Step] /\ Nobody \notin Permit
        /\ \A x \in Permit : HoldingAt(x) /\ Home[x] \in Process
        /\ \A p \in Process : RegisteredAt(p)
    BY PlacementAssumption, OwnerAssumption DEF IInv, TypeOK, Holding, HoldingAt, Registered, RegisteredAt
  <1>1. SUFFICES ASSUME NEW q \in Process PROVE RegisteredAt(q)'
    BY Zenon DEF Registered, RegisteredAt
  <1>2. CASE UNCHANGED <<pid, token, permit>>
    BY <1>0, <1>2, Zenon DEF RegisteredAt, permit
  <1>3. ASSUME NEW p \in Process, Crash(p) PROVE RegisteredAt(q)'
    <2>1. CASE q = p
      BY <1>0, <1>3, <2>1, Zenon DEF Crash, RegisteredAt
    <2>2. CASE q # p
      BY <1>0, <1>3, <2>2, Zenon DEF Crash, RegisteredAt
    <2> QED BY <2>1, <2>2, Zenon
  <1>4. ASSUME NEW x \in Permit, BulkStep(x) \/ PermitStep(x) PROVE RegisteredAt(q)'
    <2>0. /\ \A y \in Permit \ {x} : pc'[y] = pc[y] /\ held'[y] = held[y]
          /\ \A p \in Process \ {Home[x]} : token'[p] = token[p]
      BY <1>0, <1>4, OthersSame, TokenStep, Zenon
    <2>1. CASE TakeToken(x)
      BY <1>0, <2>0, <2>1 DEF TakeToken, Goto, RegisteredAt
    <2>2. CASE Connect(x) \/ Lock(x)
      BY <1>0, <2>2 DEF Connect, Lock, Goto, RegisteredAt
    <2>3. CASE Publish(x)
      <3>1. pc[x] = "locked" /\ token' = token /\ token[Home[x]] = x
        BY <1>0, <2>3, Zenon DEF Publish, HoldingAt, Obtaining
      <3>2. /\ pid' = [pid EXCEPT ![Home[x]] = serial[Home[x]]]
            /\ held' = [held EXCEPT ![x] = serial[Home[x]]]
            /\ pc' = [pc EXCEPT ![x] = "inspect"]
        BY <2>3, Zenon DEF Publish, Goto
      <3>3. CASE q = Home[x]
        BY <1>0, <3>1, <3>2, <3>3, Zenon DEF RegisteredAt
      <3>4. CASE q # Home[x]
        <4>1. pid'[q] = pid[q] /\ token'[q] = token[q] /\ (token[q] \in Permit /\ Home[token[q]] = q => token[q] # x)
          BY <1>0, <3>1, <3>2, <3>4, Zenon
        <4>2. \A y \in Permit \ {x} : held'[y] = held[y] /\ pc'[y] = pc[y]
          BY <1>0, <3>2, Zenon
        <4> QED BY <1>0, <4>1, <4>2 DEF RegisteredAt
      <3> QED BY <3>3, <3>4, Zenon
    <2>4. CASE AbandonBulk(x)
      <3>1. token[Home[x]] = x /\ held[x] = 0 /\ pid' = pid /\ held' = held
        BY <1>0, <2>4, Zenon DEF AbandonBulk, HoldingAt, Obtaining
      <3> QED BY <1>0, <2>0, <3>1 DEF RegisteredAt
    <2>5. CASE Drop(x)
      BY <1>0, <2>5, Zenon DEF Drop, Goto, RegisteredAt
    <2>6. CASE Unlock(x)
      <3>1. token[Home[x]] = x /\ pc[x] = "unlock" /\ pid' = pid
        BY <1>0, <2>6, Zenon DEF Unlock, HoldingAt
      <3> QED BY <1>0, <2>0, <3>1 DEF RegisteredAt
    <2>7. CASE PermitStep(x)
      <3>1. UNCHANGED <<pid, token, held>>
        BY <2>7, Zenon DEF PermitStep, Acquire, TakeActive, InspectGrant, Inspected, Grant, Abandon, Upgrade, Park, Resume, Release
      <3>2. pc'[x] = "unlock" => pc[x] = "unlock"
        <4>1. ASSUME NEW bulk, Acquire(x, bulk) PROVE pc'[x] # "unlock"
          BY <1>0, <4>1, Zenon DEF Acquire, Goto
        <4>2. CASE TakeActive(x) \/ InspectGrant(x) \/ Grant(x) \/ Upgrade(x) \/ Resume(x) \/ Release(x)
          BY <1>0, <4>2, Zenon DEF TakeActive, InspectGrant, Grant, Upgrade, Resume, Release, Goto
        <4>3. CASE Park(x)
          BY <1>0, <4>3, Zenon DEF Park, Goto
        <4>4. ASSUME NEW i, Inspected(i, x) PROVE pc'[x] = "unlock" => pc[x] = "unlock"
          BY <1>0, <4>4, RefuseStep, Zenon DEF Inspected, Goto
        <4>5. CASE Abandon(x)
          BY <1>0, <4>5, RefuseStep, Zenon DEF Abandon
        <4> QED BY <2>7, <4>1, <4>2, <4>3, <4>4, <4>5, Zenon DEF PermitStep
      <3> QED BY <1>0, <2>0, <3>1, <3>2, Zenon DEF RegisteredAt
    <2> QED BY <1>4, <2>1, <2>2, <2>3, <2>4, <2>5, <2>6, <2>7, Zenon DEF BulkStep
  <1>5. ASSUME NEW p \in Process, Drain(p) PROVE UNCHANGED <<pid, token, permit>>
    BY <1>5, Zenon DEF Drain
  <1> QED BY <1>2, <1>3, <1>4, <1>5, OthersLeaveSessions, Zenon DEF Next, ControlStep

WatchingAt(i) ==
    probe[i].step # "idle" /\ probe[i].fresh =>
        /\ probe[i].pid = pid[At(i)]
        /\ probe[i].step = "answered" => pid[At(i)] # 0 /\ <<At(i), pid[At(i)]>> \notin sessions

\* A step that leaves the inspection and the session on record alone, and opens
\* no session in a process that has one on record.
LEMMA WatchingFrame ==
    ASSUME IInv, NEW i \in Process \cup Permit,
           probe'[i] = probe[i] \/ probe'[i].step = "idle" \/ probe'[i].fresh = FALSE,
           pid'[At(i)] = pid[At(i)] \/ probe'[i].fresh = FALSE,
           pid[At(i)] # 0 /\ <<At(i), pid[At(i)]>> \in sessions' => <<At(i), pid[At(i)]>> \in sessions
    PROVE  WatchingAt(i)'
  <1>1. At(i)' = At(i) /\ WatchingAt(i)
    BY Zenon DEF IInv, Watching, WatchingAt, At
  <1> QED BY <1>1 DEF WatchingAt

\* An answer without the lock, if it is about the current epoch, is the loss of
\* the session.
LEMMA WatchingQuery ==
    ASSUME IInv, NEW j \in Process \cup Permit, Query(j), NEW i \in Process \cup Permit
    PROVE  WatchingAt(i)'
  <1> DEFINE p == At(j)
             owned == probe[j].pid = 0 \/ bulkOwner[KeyOf(p)] = <<p, probe[j].pid>>
  <1>0. probe \in [Process \cup Permit -> Inspection] /\ TypeOK
    BY Zenon DEF IInv, TypeOK
  <1>1. UNCHANGED <<pid, sessions>>
    BY Zenon DEF Query, server
  <1>2. CASE i # j
    <2>1. probe'[i] = probe[i]
      BY <1>0, <1>2, Zenon DEF Query, Answer
    <2> QED BY <1>1, <2>1, WatchingFrame, Zenon
  <1>3. CASE i = j
    <2>1. \E answer \in {"error", "unowned", "incomplete", "complete"} : Answer(j, answer, TRUE) \/ Answer(j, answer, owned)
      BY Zenon DEF Query
    <2>2. PICK b \in BOOLEAN : /\ b \in {TRUE, owned}
                               /\ \E answer \in {"error", "unowned", "incomplete", "complete"} : Answer(j, answer, b)
      BY <2>1, Zenon
    <2>3. probe'[j].pid = (IF b THEN 0 ELSE probe[j].pid)
      BY <1>0, <2>2, Zenon DEF Answer, Inspection
    <2>4. probe'[j].fresh = (probe[j].fresh /\ ~b)
      BY <1>0, <2>2 DEF Answer, Inspection
    <2>5. CASE b
      <3>1. probe'[j].fresh = FALSE
        BY <2>4, <2>5, Zenon
      <3> QED BY <1>1, <1>3, <3>1, WatchingFrame, Zenon
    <2>6. CASE ~b
      <3>1. ~owned /\ probe'[j].pid = probe[j].pid /\ (probe'[j].fresh => probe[j].fresh)
        BY <2>2, <2>3, <2>4, <2>6, Zenon
      <3>2. probe[j].step = "read"
        BY Zenon DEF Query
      <3>3. probe[j].fresh => probe[j].pid = pid[p]
        BY <3>2, Zenon DEF IInv, Watching
      <3>4. p \in Process
        BY AtHome, Zenon
      <3>5. probe[j].fresh => <<p, pid[p]>> \notin sessions
        BY <3>1, <3>3, <3>4 DEF IInv, Registered, Locked
      <3>6. At(j)' = At(j)
        BY Zenon DEF At
      <3> QED BY <1>1, <1>3, <3>1, <3>3, <3>5, <3>6, Zenon DEF WatchingAt
    <2> QED BY <2>5, <2>6, Zenon
  <1> QED BY <1>2, <1>3, Zenon

\* An inspection that begins has read what is on record.
LEMMA WatchingBegins ==
    ASSUME IInv, NEW j \in Process \cup Permit, NEW x,
           probe' = [probe EXCEPT ![j] = [NoInspection EXCEPT
                        !.step = "read", !.fresh = TRUE, !.caller = x, !.pid = pid[At(j)]]],
           UNCHANGED <<pid, sessions>>, NEW i \in Process \cup Permit
    PROVE  WatchingAt(i)'
  <1>0. probe \in [Process \cup Permit -> Inspection]
    BY Zenon DEF IInv, TypeOK
  <1>1. CASE i # j
    BY <1>0, <1>1, WatchingFrame, Zenon
  <1>2. CASE i = j
    <2>1. probe'[j].step = "read" /\ probe'[j].pid = pid[At(j)] /\ At(j)' = At(j)
      BY <1>0, Zenon DEF NoInspection, At
    <2> QED BY <1>2, <2>1, Zenon DEF WatchingAt
  <1> QED BY <1>1, <1>2, Zenon

\* One that ends knows nothing.
LEMMA WatchingEnds ==
    ASSUME IInv, NEW j \in Process \cup Permit, probe' = [probe EXCEPT ![j] = NoInspection],
           UNCHANGED <<pid, sessions>>, NEW i \in Process \cup Permit
    PROVE  WatchingAt(i)'
  <1>1. probe'[i] = probe[i] \/ probe'[i].step = "idle"
    BY Zenon DEF IInv, TypeOK, NoInspection
  <1> QED BY <1>1, WatchingFrame, Zenon

\* A process that is down has no session on record.
LEMMA DownHasNone ==
    ASSUME IInv, NEW p \in Process, phase[p] \notin {"running", "closing"}
    PROVE  pid[p] = 0
  BY Zenon DEF IInv, Registered, Holding, Started, Using

\* The controller's own steps.
LEMMA WatchingControl ==
    ASSUME IInv, NEW p \in Process, ControlStep(p), NEW i \in Process \cup Permit
    PROVE  WatchingAt(i)'
  <1>0. probe \in [Process \cup Permit -> Inspection] /\ pid \in [Process -> 0 .. MaxSessions]
    BY Zenon DEF IInv, TypeOK
  <1>1. CASE Open(p)
    <2>1. pid[p] = 0 /\ At(p) = p
      BY <1>1, DownHasNone, Zenon DEF Open, At
    <2>2. CASE i # p
      <3>1. probe'[i] = probe[i] /\ UNCHANGED <<pid, sessions>>
        BY <1>0, <1>1, <2>2, Zenon DEF Open
      <3> QED BY <3>1, WatchingFrame, Zenon
    <2>3. CASE i = p
      <3>1. probe'[p].step = "read" /\ probe'[p].pid = 0 /\ At(p)' = At(p) /\ UNCHANGED pid
        BY <1>0, <1>1, Zenon DEF Open, NoInspection, At
      <3> QED BY <2>1, <2>3, <3>1, Zenon DEF WatchingAt
    <2> QED BY <2>2, <2>3, Zenon
  <1>2. CASE Heartbeat(p)
    <2>1. At(p) = p
      BY Zenon DEF At
    <2> QED BY <1>2, <2>1, WatchingBegins, Zenon DEF Heartbeat, server
  <1>3. CASE Opened(p) \/ Beat(p)
    BY <1>3, WatchingEnds, Zenon DEF Opened, Beat, server
  <1>4. CASE Close(p) \/ Drain(p)
    <2>1. UNCHANGED <<probe, pid, sessions>>
      BY <1>4, Zenon DEF Close, Drain, ControlEnds, server
    <2> QED BY <2>1, WatchingFrame, Zenon
  <1>5. CASE Crash(p)
    <2>1. probe'[i] = (IF At(i) = p THEN NoInspection ELSE probe[i]) /\ sessions' = sessions
      BY <1>5, Zenon DEF Crash
    <2>2. At(i) # p => pid'[At(i)] = pid[At(i)]
      BY <1>0, <1>5, AtHome, Zenon DEF Crash
    <2>3. NoInspection.step = "idle" /\ NoInspection.fresh = FALSE
      BY Zenon DEF NoInspection
    <2> QED BY <2>1, <2>2, <2>3, WatchingFrame, Zenon
  <1> QED BY <1>1, <1>2, <1>3, <1>4, <1>5, Zenon DEF ControlStep

\* The permits' steps: a new epoch makes the inspections of the process stale.
LEMMA WatchingBulk ==
    ASSUME IInv, NEW x \in Permit, BulkStep(x), NEW i \in Process \cup Permit
    PROVE  WatchingAt(i)'
  <1> DEFINE p == Home[x]
  <1>0. /\ probe \in [Process \cup Permit -> Inspection] /\ pid \in [Process -> 0 .. MaxSessions]
        /\ p \in Process /\ At(i) \in Process
    BY PlacementAssumption, AtHome, Zenon DEF IInv, TypeOK
  <1>1. CASE TakeToken(x) \/ AbandonBulk(x) \/ Lock(x) \/ Unlock(x)
    <2>1. UNCHANGED <<probe, pid, sessions>>
      BY <1>1, Zenon DEF TakeToken, AbandonBulk, Lock, Unlock, server
    <2> QED BY <2>1, WatchingFrame, Zenon
  <1>2. CASE Connect(x)
    <2>1. UNCHANGED <<probe, pid>> /\ (sessions' = sessions \/ sessions' = sessions \cup {<<p, serial[p] + 1>>})
      BY <1>2, Zenon DEF Connect, server
    <2>2. pid[p] = 0
      BY <1>0, <1>2 DEF Connect, IInv, Holding, Registered, Obtaining
    <2>3. pid[At(i)] # 0 => <<At(i), pid[At(i)]>> # <<p, serial[p] + 1>>
      BY <2>2, Zenon
    <2> QED BY <2>1, <2>3, WatchingFrame, Zenon
  <1>3. CASE Publish(x) \/ Drop(x)
    <2>1. NextEpoch(p) /\ sessions' = sessions /\ \A q \in Process \ {p} : pid'[q] = pid[q]
      BY <1>0, <1>3, Zenon DEF Publish, Drop, server
    <2>2. CASE At(i) = p
      <3>1. probe'[i].fresh = FALSE
        BY <1>0, <2>1, <2>2, Zenon DEF NextEpoch, Inspection
      <3> QED BY <2>1, <3>1, WatchingFrame, Zenon
    <2>3. CASE At(i) # p
      <3>1. probe'[i] = probe[i] /\ pid'[At(i)] = pid[At(i)]
        BY <1>0, <2>1, <2>3, Zenon DEF NextEpoch
      <3> QED BY <2>1, <3>1, WatchingFrame, Zenon
    <2> QED BY <2>2, <2>3, Zenon
  <1> QED BY <1>1, <1>2, <1>3, Zenon DEF BulkStep

\* An inspection a caller asks for reads what is on record; the others forget.
LEMMA WatchingPermit ==
    ASSUME IInv, NEW x \in Permit, PermitStep(x), NEW i \in Process \cup Permit
    PROVE  WatchingAt(i)'
  <1>0. /\ Home[x] \in Process /\ At(x) = Home[x] /\ At(Home[x]) = Home[x]
    BY PlacementAssumption, AtHome, Zenon DEF At
  <1>1. UNCHANGED <<pid, sessions>>
    BY Zenon DEF PermitStep, Acquire, TakeActive, InspectGrant, Inspected, Grant, Abandon, Upgrade, Park, Resume, Release, server
  <1>2. CASE UNCHANGED probe
    BY <1>1, <1>2, WatchingFrame, Zenon
  <1>3. CASE InspectGrant(x)
    <2> DEFINE j == IF held[x] # 0 THEN x ELSE Home[x]
    <2>1. j \in Process \cup Permit /\ At(j) = Home[x]
      BY <1>0, Zenon
    <2>2. probe' = [probe EXCEPT ![j] = [NoInspection EXCEPT
                        !.step = "read", !.fresh = TRUE, !.caller = x, !.pid = pid[At(j)]]]
      BY <1>3, <2>1, Zenon DEF InspectGrant
    <2> HIDE DEF j
    <2> QED BY <1>1, <2>1, <2>2, WatchingBegins, Zenon
  <1>4. ASSUME NEW j \in {x, Home[x]}, Inspected(j, x) PROVE WatchingAt(i)'
    BY <1>0, <1>1, <1>4, WatchingEnds, Zenon DEF Inspected
  <1>5. CASE Abandon(x)
    BY <1>1, <1>2, <1>5, WatchingEnds, Zenon DEF Abandon
  <1>6. UNCHANGED probe \/ InspectGrant(x) \/ (\E j \in {x, Home[x]} : Inspected(j, x)) \/ Abandon(x)
    BY Zenon DEF PermitStep, Acquire, TakeActive, Grant, Upgrade, Park, Resume, Release
  <1> QED BY <1>2, <1>3, <1>4, <1>5, <1>6, Zenon

\* Finding a session lost changes one inspection, which keeps what it read.
LEMMA FoundLost ==
    ASSUME IInv, NEW j \in Process \cup Permit, FindLost(j), NEW i \in Process \cup Permit
    PROVE  /\ i # j => probe'[i] = probe[i]
           /\ i = j => probe'[i].fresh = FALSE /\ probe'[i].pid = probe[i].pid
  <1>1. probe \in [Process \cup Permit -> Inspection]
    BY Zenon DEF IInv, TypeOK
  <1> QED BY <1>1, Zenon DEF FindLost, Inspection

\* What the inspections know.
LEMMA WatchingStep ==
    ASSUME IInv, Next
    PROVE  Watching'
  <1>1. SUFFICES ASSUME NEW i \in Process \cup Permit PROVE WatchingAt(i)'
    BY Zenon DEF Watching, WatchingAt
  <1>2. CASE ServerStep
    <2>1. UNCHANGED <<probe, pid>> /\ sessions' \subseteq sessions
      BY <1>2, Zenon DEF ServerStep, LoseSession, ReapSession, GrantLate, LoseControl, ReapControl, SessionEnds, ControlEnds
    <2> QED BY <2>1, WatchingFrame, Zenon
  <1>3. ASSUME NEW j \in Process \cup Permit, FindLost(j) PROVE WatchingAt(i)'
    <2>1. probe'[i] = probe[i] \/ probe'[i].fresh = FALSE
      BY <1>3, FoundLost, Zenon
    <2>2. UNCHANGED <<pid, sessions>>
      BY <1>3, Zenon DEF FindLost, server
    <2> QED BY <2>1, <2>2, WatchingFrame, Zenon
  <1> QED BY <1>2, <1>3, WatchingControl, WatchingQuery, WatchingBulk, WatchingPermit, Zenon DEF Next

JudgedAt(i) ==
    probe[i].step = "lost" =>
        /\ probe[i].pid # 0 /\ probe[i].pid <= serial[At(i)]
        /\ <<At(i), probe[i].pid>> \notin sessions

\* A step that finds no session lost and opens none.
LEMMA JudgedFrame ==
    ASSUME IInv, NEW i \in Process \cup Permit, UNCHANGED serial, sessions' \subseteq sessions,
           \/ probe'[i].step # "lost"
           \/ probe'[i].step = probe[i].step /\ probe'[i].pid = probe[i].pid
    PROVE  JudgedAt(i)'
  BY Zenon DEF IInv, Judged, JudgedAt, At

\* Serials only grow, so that a session that is opened is a new one.
LEMMA JudgedConnect ==
    ASSUME IInv, NEW x \in Permit, Connect(x)
    PROVE  Judged'
  <1> DEFINE p == Home[x]
  <1>0. /\ pid \in [Process -> 0 .. MaxSessions] /\ serial \in [Process -> 0 .. MaxSessions] /\ p \in Process
        /\ \A q \in Process : pid[q] <= serial[q]
        /\ \A i \in Process \cup Permit : JudgedAt(i) /\ probe[i].pid \in 0 .. MaxSessions /\ At(i) \in Process
    BY PlacementAssumption, AtHome, Zenon DEF IInv, TypeOK, Inspection, Judged, JudgedAt
  <1>1. UNCHANGED <<pid, probe>>
    BY Zenon DEF Connect
  <1>2. CASE UNCHANGED <<serial, sessions>>
    BY <1>0, <1>1, <1>2, Zenon DEF Judged, JudgedAt, At
  <1>3. CASE serial' = [serial EXCEPT ![p] = serial[p] + 1] /\ sessions' = sessions \cup {<<p, serial[p] + 1>>}
    <2>1. \A q \in Process : serial[q] <= serial'[q]
      BY <1>0, <1>3, BoundAssumption
    <2>2. \A q \in Process : \A n \in 0 .. MaxSessions : n <= serial[q] => n <= serial'[q]
      BY <1>0, <1>3, BoundAssumption
    <2>3. \A n \in 0 .. MaxSessions : n <= serial[p] => n # serial[p] + 1
      BY <1>0, BoundAssumption
    <2>4. \A q \in Process : pid'[q] <= serial'[q]
      BY <1>0, <1>1, <2>2, Zenon
    <2>5. ASSUME NEW i \in Process \cup Permit PROVE JudgedAt(i)'
      <3>1. probe[i].pid <= serial[At(i)] => <<At(i), probe[i].pid>> # <<p, serial[p] + 1>>
        BY <1>0, <2>3, Zenon
      <3>2. At(i)' = At(i) /\ probe' = probe
        BY <1>1, Zenon DEF At
      <3> QED BY <1>0, <1>3, <2>2, <3>1, <3>2, Zenon DEF JudgedAt
    <2> QED BY <2>4, <2>5, Zenon DEF Judged, JudgedAt
  <1> QED BY <1>2, <1>3, Zenon DEF Connect, server, pool

\* A session is found lost when it is on record and the server does not run it.
LEMMA JudgedFound ==
    ASSUME IInv, NEW j \in Process \cup Permit, FindLost(j), NEW i \in Process \cup Permit
    PROVE  JudgedAt(i)'
  <1>0. UNCHANGED <<serial, sessions>> /\ At(i)' = At(i) /\ At(i) \in Process
    BY AtHome, Zenon DEF FindLost, server, pool, At
  <1>1. CASE i # j
    BY <1>0, <1>1, FoundLost, JudgedFrame, Zenon
  <1>2. CASE i = j
    <2>1. probe[i].pid = pid[At(i)] /\ pid[At(i)] # 0 /\ <<At(i), pid[At(i)]>> \notin sessions
      BY <1>2, Zenon DEF IInv, Watching, FindLost, BulkLost
    <2>2. pid[At(i)] <= serial[At(i)]
      BY <1>0, Zenon DEF IInv, Judged
    <2>3. probe'[i].pid = probe[i].pid
      BY <1>2, FoundLost, Zenon
    <2> QED BY <1>0, <2>1, <2>2, <2>3, Zenon DEF JudgedAt
  <1> QED BY <1>1, <1>2, Zenon

\* The other steps leave what was found alone.
LEMMA JudgedStep ==
    ASSUME IInv, Next
    PROVE  Judged'
  <1>0. /\ pid \in [Process -> 0 .. MaxSessions] /\ serial \in [Process -> 0 .. MaxSessions]
        /\ probe \in [Process \cup Permit -> Inspection] /\ \A q \in Process : pid[q] <= serial[q]
    BY Zenon DEF IInv, TypeOK, Judged
  <1>1. \A q \in Process : 0 <= serial[q] /\ serial[q] <= serial[q]
    BY <1>0, BoundAssumption
  <1>2. NoInspection.step = "idle"
    BY Zenon DEF NoInspection
  <1>3. ASSUME UNCHANGED <<pid, serial>>, \A i \in Process \cup Permit : JudgedAt(i)' PROVE Judged'
    BY <1>0, <1>3, Zenon DEF Judged, JudgedAt
  <1>4. CASE ServerStep
    <2>1. UNCHANGED <<probe, pid, serial>> /\ sessions' \subseteq sessions
      BY <1>4, Zenon DEF ServerStep, LoseSession, ReapSession, GrantLate, LoseControl, ReapControl, SessionEnds, ControlEnds, pool
    <2> QED BY <1>3, <2>1, JudgedFrame, Zenon
  <1>5. ASSUME NEW j \in Process \cup Permit, Query(j) PROVE Judged'
    <2>1. UNCHANGED <<pid, serial, sessions>>
      BY <1>5, Zenon DEF Query, server, pool
    <2>2. PICK answer, owned : Answer(j, answer, owned)
      BY <1>5, Zenon DEF Query
    <2> DEFINE new == [probe[j] EXCEPT !.step = "answered", !.answer = answer, !.bulkOwned = owned,
                           !.pid = IF owned THEN 0 ELSE probe[j].pid, !.fresh = probe[j].fresh /\ ~owned]
    <2>4. probe' = [probe EXCEPT ![j] = new]
      BY <2>2, Zenon DEF Answer
    <2>5. new.step # "lost"
      BY <1>0 DEF Inspection
    <2> HIDE DEF new
    <2>3. ASSUME NEW i \in Process \cup Permit PROVE probe'[i] = probe[i] \/ probe'[i].step # "lost"
      <3>1. CASE i = j
        BY <1>0, <2>4, <2>5, <3>1, Zenon
      <3>2. CASE i # j
        BY <1>0, <2>4, <3>2, Zenon
      <3> QED BY <3>1, <3>2, Zenon
    <2> QED BY <1>3, <2>1, <2>3, JudgedFrame, Zenon
  <1>6. ASSUME NEW j \in Process \cup Permit, FindLost(j) PROVE Judged'
    <2>1. UNCHANGED <<pid, serial>>
      BY <1>6, Zenon DEF FindLost, pool
    <2> QED BY <1>3, <1>6, <2>1, JudgedFound, Zenon
  <1>7. ASSUME NEW p \in Process, ControlStep(p), ~Crash(p) PROVE Judged'
    <2>1. UNCHANGED <<pid, serial, sessions>>
      BY <1>7, Zenon DEF ControlStep, Open, Opened, Heartbeat, Beat, Close, Drain, ControlEnds, server, pool
    <2>2. ASSUME NEW i \in Process \cup Permit PROVE probe'[i] = probe[i] \/ probe'[i].step # "lost"
      <3>1. CASE Open(p) \/ Heartbeat(p)
        BY <1>0, <2>2, <3>1, Zenon DEF Open, Heartbeat, NoInspection
      <3>2. CASE Opened(p) \/ Beat(p)
        BY <1>0, <1>2, <2>2, <3>2, Zenon DEF Opened, Beat
      <3>3. CASE Close(p) \/ Drain(p)
        BY <3>3, Zenon DEF Close, Drain
      <3> QED BY <1>7, <3>1, <3>2, <3>3, Zenon DEF ControlStep
    <2> QED BY <1>3, <2>1, <2>2, JudgedFrame, Zenon
  <1>8. ASSUME NEW p \in Process, Crash(p) PROVE Judged'
    <2>1. UNCHANGED <<serial, sessions>> /\ \A q \in Process : pid'[q] \in {0, pid[q]}
      BY <1>0, <1>8, Zenon DEF Crash
    <2>2. \A q \in Process : pid'[q] <= serial'[q]
      BY <1>0, <1>1, <2>1, Zenon
    <2>3. ASSUME NEW i \in Process \cup Permit PROVE JudgedAt(i)'
      <3>1. probe'[i] \in {NoInspection, probe[i]}
        BY <1>8, Zenon DEF Crash
      <3> QED BY <1>2, <2>1, <3>1, JudgedFrame, Zenon
    <2> QED BY <2>2, <2>3, Zenon DEF Judged, JudgedAt
  <1>9. ASSUME NEW x \in Permit, PermitStep(x) PROVE Judged'
    <2>1. UNCHANGED <<pid, serial, sessions>>
      BY <1>9, Zenon DEF PermitStep, Acquire, TakeActive, InspectGrant, Inspected, Grant, Abandon, Upgrade, Park, Resume, Release, server, pool
    <2>2. ASSUME NEW i \in Process \cup Permit PROVE probe'[i] = probe[i] \/ probe'[i].step # "lost"
      <3>1. CASE InspectGrant(x)
        BY <1>0, <2>2, <3>1, Zenon DEF InspectGrant, NoInspection
      <3>2. ASSUME NEW j, probe' = [probe EXCEPT ![j] = NoInspection] PROVE probe'[i] = probe[i] \/ probe'[i].step # "lost"
        BY <1>0, <1>2, <2>2, <3>2, Zenon
      <3>3. UNCHANGED probe \/ InspectGrant(x) \/ \E j : probe' = [probe EXCEPT ![j] = NoInspection]
        BY <1>9, Zenon DEF PermitStep, Acquire, TakeActive, Inspected, Grant, Abandon, Upgrade, Park, Resume, Release
      <3> QED BY <3>1, <3>2, <3>3, Zenon
    <2> QED BY <1>3, <2>1, <2>2, JudgedFrame, Zenon
  <1>10. ASSUME NEW x \in Permit, BulkStep(x) PROVE Judged'
    <2>0. Home[x] \in Process
      BY PlacementAssumption, Zenon
    <2>1. CASE TakeToken(x) \/ AbandonBulk(x) \/ Lock(x) \/ Unlock(x)
      <3>1. UNCHANGED <<probe, pid, serial, sessions>>
        BY <2>1, Zenon DEF TakeToken, AbandonBulk, Lock, Unlock, server, pool
      <3> QED BY <1>3, <3>1, JudgedFrame, Zenon
    <2>2. CASE Publish(x) \/ Drop(x)
      <3>1. UNCHANGED <<serial, sessions>> /\ NextEpoch(Home[x])
        BY <2>2, Zenon DEF Publish, Drop, server, pool
      <3>2. \A q \in Process : pid'[q] \in {0, serial[q], pid[q]}
        BY <1>0, <2>0, <2>2, Zenon DEF Publish, Drop
      <3>3. \A q \in Process : pid'[q] <= serial'[q]
        BY <1>0, <1>1, <3>1, <3>2, Zenon
      <3>4. ASSUME NEW i \in Process \cup Permit PROVE probe'[i].step = probe[i].step /\ probe'[i].pid = probe[i].pid
        BY <1>0, <3>1, <3>4, Zenon DEF NextEpoch, Inspection
      <3> QED BY <3>1, <3>3, <3>4, JudgedFrame, Zenon DEF Judged, JudgedAt
    <2> QED BY <1>10, <2>1, <2>2, JudgedConnect, Zenon DEF BulkStep
  <1> QED BY <1>4, <1>5, <1>6, <1>7, <1>8, <1>9, <1>10, Zenon DEF Next

-----------------------------------------------------------------------------
(* Readiness, the life of the process, and the roles. *)

\* Only a running controller is ready after the step, and the step does not end
\* the process.
Kept(q) ==
    /\ ready'[q] => phase'[q] = "running"
    /\ phase[q] \in {"running", "closing"} => phase'[q] \in {"running", "closing"}

\* The two ways an operation changes its controller.
LEMMA FailKeeps ==
    ASSUME IInv, NEW p \in Process, NEW why, Fail(p, why), NEW q \in Process
    PROVE  Kept(q)
  <1>0. /\ phase \in [Process -> {"down", "opening", "running", "closing", "closed"}]
        /\ ready \in [Process -> BOOLEAN] /\ (ready[q] => phase[q] = "running")
    BY Zenon DEF IInv, TypeOK, Started
  <1>1. CASE phase' = phase /\ ready' = ready
    BY <1>0, <1>1, Zenon DEF Kept
  <1>2. CASE phase' = [phase EXCEPT ![p] = "closing"] /\ ready' = [ready EXCEPT ![p] = FALSE]
    <2>1. CASE q = p
      BY <1>0, <1>2, <2>1, Zenon DEF Kept
    <2>2. CASE q # p
      BY <1>0, <1>2, <2>2, Zenon DEF Kept
    <2> QED BY <2>1, <2>2, Zenon
  <1> QED BY <1>1, <1>2, Zenon DEF Fail, controller

\* setReady leaves a controller that is closing unready.
LEMMA SetReadyKeeps ==
    ASSUME IInv, NEW p \in Process, NEW r \in BOOLEAN, SetReady(p, r), NEW q \in Process
    PROVE  Kept(q)
  <1>0. ready \in [Process -> BOOLEAN] /\ (ready[q] => phase[q] = "running") /\ phase' = phase
    BY Zenon DEF IInv, TypeOK, Started, SetReady
  <1>1. CASE q = p
    <2>1. (r /\ phase[p] = "running") \in BOOLEAN
      BY Zenon
    <2>2. ready'[p] = (r /\ phase[p] = "running")
      BY <1>0, <2>1, Update, Zenon DEF SetReady
    <2> QED BY <1>0, <1>1, <2>2, Zenon DEF Kept
  <1>2. CASE q # p
    <2>1. ready'[q] = ready[q]
      BY <1>0, <1>2, Zenon DEF SetReady
    <2> QED BY <1>0, <2>1, Zenon DEF Kept
  <1> QED BY <1>1, <1>2, Zenon

\* An inspection that concludes.
LEMMA ConcludeKeeps ==
    ASSUME IInv, NEW i \in Process \cup Permit, Conclude(i), NEW q \in Process
    PROVE  Kept(q)
  <1>0. At(i) \in Process /\ (probe[i].answer = "complete") \in BOOLEAN
    BY AtHome, Zenon
  <1>1. CASE UNCHANGED controller
    BY <1>1, Zenon DEF IInv, Started, Kept, controller
  <1>2. \/ UNCHANGED controller \/ Fail(At(i), "other") \/ Fail(At(i), "bulk")
        \/ SetReady(At(i), probe[i].answer = "complete")
    BY Zenon DEF Conclude
  <1> QED BY <1>0, <1>1, <1>2, FailKeeps, SetReadyKeeps, Zenon

\* Every step but the end of a process.
LEMMA NextKeeps ==
    ASSUME IInv, Next, NEW q \in Process, \A p \in Process : ~Drain(p) /\ ~Crash(p)
    PROVE  Kept(q)
  <1>0. /\ phase \in [Process -> {"down", "opening", "running", "closing", "closed"}]
        /\ ready \in [Process -> BOOLEAN] /\ \A p \in Process : ready[p] => phase[p] = "running"
    BY Zenon DEF IInv, TypeOK, Started
  <1>1. CASE UNCHANGED controller
    BY <1>0, <1>1, Zenon DEF Kept, controller
  <1>2. ASSUME NEW p \in Process, Open(p) PROVE Kept(q)
    BY <1>0, <1>2, Zenon DEF Open, Kept
  <1>3. ASSUME NEW p \in Process, Opened(p) PROVE Kept(q)
    BY <1>0, <1>3, Zenon DEF Opened, Kept
  <1>4. ASSUME NEW p \in Process, Heartbeat(p) PROVE UNCHANGED controller
    BY <1>4, Zenon DEF Heartbeat
  <1>5. ASSUME NEW p \in Process, Beat(p) \/ Close(p) PROVE Kept(q)
    BY <1>5, FailKeeps, ConcludeKeeps, Zenon DEF Beat, Close
  <1>6. ASSUME NEW i, Query(i) \/ FindLost(i) PROVE UNCHANGED controller
    BY <1>6, Zenon DEF Query, FindLost
  <1>7. ASSUME NEW x \in Permit, BulkStep(x) PROVE Kept(q)
    <2>1. UNCHANGED controller \/ Fail(Home[x], "other")
      BY <1>7, Zenon DEF BulkStep, TakeToken, Connect, Lock, Publish, AbandonBulk, Drop, Unlock, controller
    <2> QED BY <1>1, <2>1, FailKeeps, PlacementAssumption, Zenon
  <1>8. ASSUME NEW x \in Permit, PermitStep(x) PROVE Kept(q)
    <2>1. UNCHANGED controller \/ \E i \in {x, Home[x]} : Conclude(i)
      BY <1>8, Zenon DEF PermitStep, Acquire, TakeActive, InspectGrant, Inspected, Grant, Abandon, Upgrade, Park, Resume, Release
    <2> QED BY <1>1, <2>1, ConcludeKeeps, PlacementAssumption, Zenon
  <1>9. ServerStep => UNCHANGED controller
    BY Zenon DEF ServerStep, LoseSession, LoseControl, GrantLate, ReapSession, ReapControl
  <1> QED BY <1>1, <1>2, <1>3, <1>4, <1>5, <1>6, <1>7, <1>8, <1>9, Zenon DEF Next, ControlStep

\* A caller starts an operation in a process that is ready.
LEMMA StartsReady ==
    ASSUME IInv, NEW y \in Permit, BulkStep(y) \/ PermitStep(y), NEW x \in Permit, pc'[x] # "idle"
    PROVE  pc[x] # "idle" \/ ready[Home[x]]
  <1>0. TypeOK
    BY Zenon DEF IInv
  <1>1. CASE x # y
    BY <1>0, <1>1, OthersSame, Zenon
  <1>2. CASE x = y
    BY <1>2, Zenon DEF BulkStep, TakeToken, Connect, Lock, Publish, AbandonBulk, Drop, Unlock, PermitStep,
                Acquire, TakeActive, InspectGrant, Inspected, Grant, Abandon, Upgrade, Park, Resume, Release
  <1> QED BY <1>1, <1>2, Zenon

\* The lock of a role is taken by its control session and goes with it.
LEMMA RolesStep ==
    ASSUME IInv, Next, NEW q \in control'
    PROVE  roleOwner'[RoleOf[q]] = q
  <1>0. /\ roleOwner \in [Role -> Process \cup {Nobody}] /\ RoleOf \in [Process -> Role]
        /\ control \subseteq Process /\ \A p \in control : roleOwner[RoleOf[p]] = p
        /\ Nobody \notin Process
    BY PlacementAssumption, OwnerAssumption, Zenon DEF IInv, TypeOK, Started
  <1>1. CASE UNCHANGED <<control, roleOwner>>
    BY <1>0, <1>1, Zenon
  <1>2. ASSUME NEW p \in Process, ControlEnds(p) PROVE roleOwner'[RoleOf[q]] = q
    BY <1>0, <1>2, Zenon DEF ControlEnds
  <1>3. ASSUME NEW p \in Process, Open(p) PROVE roleOwner'[RoleOf[q]] = q
    BY <1>0, <1>3, Zenon DEF Open
  <1>4. ASSUME NEW p \in Process, ControlStep(p), ~Open(p) PROVE UNCHANGED <<control, roleOwner>> \/ ControlEnds(p)
    BY <1>4, Zenon DEF ControlStep, Opened, Heartbeat, Beat, Close, Drain, Crash, server
  <1>5. ASSUME ServerStep PROVE UNCHANGED <<control, roleOwner>> \/ \E p \in Process : ControlEnds(p)
    BY <1>5, Zenon DEF ServerStep, LoseSession, LoseControl, GrantLate, ReapSession, ReapControl, SessionEnds
  <1>6. ASSUME NEW x \in Permit, BulkStep(x) \/ PermitStep(x) PROVE UNCHANGED <<control, roleOwner>>
    BY <1>6, Zenon DEF BulkStep, TakeToken, Connect, Lock, Publish, AbandonBulk, Drop, Unlock, PermitStep,
                Acquire, TakeActive, InspectGrant, Inspected, Grant, Abandon, Upgrade, Park, Resume, Release, server
  <1>7. ASSUME NEW i, Query(i) \/ FindLost(i) PROVE UNCHANGED <<control, roleOwner>>
    BY <1>7, Zenon DEF Query, FindLost, server
  <1> QED BY <1>1, <1>2, <1>3, <1>4, <1>5, <1>6, <1>7, Zenon DEF Next

\* A process ends when none of its permits is in use.
LEMMA StartedStep ==
    ASSUME IInv, Next
    PROVE  Started'
  <1>0. /\ phase \in [Process -> {"down", "opening", "running", "closing", "closed"}]
        /\ ready \in [Process -> BOOLEAN] /\ \A p \in Process : ready[p] => phase[p] = "running"
        /\ \A x \in Permit : Home[x] \in Process /\ (pc[x] # "idle" => phase[Home[x]] \in {"running", "closing"})
    BY PlacementAssumption DEF IInv, TypeOK, Started
  <1>1. ASSUME NEW p \in Process, Drain(p) \/ Crash(p)
        PROVE  /\ \A q \in Process : ready'[q] => phase'[q] = "running"
               /\ \A x \in Permit : pc'[x] # "idle" => phase'[Home[x]] \in {"running", "closing"}
    BY <1>0, <1>1 DEF Drain, Crash, CallersOf, permit
  <1>2. ASSUME \A p \in Process : ~Drain(p) /\ ~Crash(p)
        PROVE  /\ \A q \in Process : ready'[q] => phase'[q] = "running"
               /\ \A x \in Permit : pc'[x] # "idle" => phase'[Home[x]] \in {"running", "closing"}
    <2>1. \A q \in Process : Kept(q)
      BY <1>2, NextKeeps, Zenon
    <2>2. ASSUME NEW x \in Permit, pc'[x] # "idle" PROVE pc[x] # "idle" \/ ready[Home[x]]
      <3>1. CASE \E y \in Permit : BulkStep(y) \/ PermitStep(y)
        BY <2>2, <3>1, StartsReady, Zenon
      <3>2. CASE UNCHANGED permit
        BY <2>2, <3>2, Zenon DEF permit
      <3>3. (\E y \in Permit : BulkStep(y) \/ PermitStep(y)) \/ UNCHANGED permit
        BY <1>2, Zenon DEF Next, ServerStep, LoseSession, LoseControl, GrantLate, ReapSession, ReapControl, ControlStep,
                    Open, Opened, Heartbeat, Beat, Close, Query, FindLost
      <3> QED BY <3>1, <3>2, <3>3, Zenon
    <2> QED BY <1>0, <2>1, <2>2, Zenon DEF Kept
  <1> QED BY <1>1, <1>2, RolesStep, Zenon DEF Started

-----------------------------------------------------------------------------
(* The theorems. *)

\* Every process down and no session open.
LEMMA InitHolds ==
    ASSUME Init
    PROVE  IInv
  <1>1. NoInspection \in Inspection /\ NoInspection.step = "idle"
    BY BoundAssumption DEF NoInspection, Inspection
  <1>2. TypeOK
    BY <1>1, BoundAssumption DEF Init, TypeOK, Step
  <1>3. Holding /\ Locked /\ Registered /\ Started
    BY PlacementAssumption, Zenon DEF Init, Holding, Locked, Registered, Started, Obtaining
  <1>4. Watching
    BY <1>1, Zenon DEF Init, Watching
  <1>5. Judged
    <2>1. \A p \in Process : pid[p] <= serial[p]
      BY DEF Init
    <2>2. \A i \in Process \cup Permit : probe[i].step # "lost"
      BY <1>1, Zenon DEF Init
    <2> QED BY <2>1, <2>2, Zenon DEF Judged
  <1> QED BY <1>2, <1>3, <1>4, <1>5, Zenon DEF IInv

\* A step that changes nothing.
LEMMA StutterHolds ==
    ASSUME IInv, UNCHANGED vars
    PROVE  IInv'
  <1>1. /\ UNCHANGED <<phase, ready, err, control, roleOwner, sessions, late, bulkOwner>>
        /\ UNCHANGED <<serial, pooled, pid, token, pc, goal, slot, wanted, held, parked, probe, faults>>
    BY Zenon DEF vars, controller, server, pool, permit
  <1>2. TypeOK' /\ Holding' /\ Registered' /\ Started'
    BY <1>1, Zenon DEF IInv, TypeOK, Holding, Registered, Started
  <1>3. Locked' /\ Watching' /\ Judged'
    BY <1>1, Zenon DEF IInv, Locked, Current, Watching, Judged, At
  <1> QED BY <1>2, <1>3, Zenon DEF IInv

\* In every behaviour of processes, permits, heartbeats and server, whatever
\* fails: the bulk session of a process is the token holder's and has the lock
\* while it lives, the controller looks for that session, its inspections know
\* what they read, and permits are in use only where the role is not given up.
THEOREM Invariance == Spec => []IInv
  <1>1. Init => IInv
    BY InitHolds, Zenon
  <1>2. IInv /\ [Next]_vars => IInv'
    <2>1. ASSUME IInv, Next PROVE TypeOK'
      BY <2>1, ServerTyped, ControlTyped, QueryTyped, FindLostTyped, BulkTyped, PermitTyped, Zenon DEF Next, IInv
    <2>2. ASSUME IInv, Next PROVE IInv'
      BY <2>1, <2>2, HoldingStep, LockedStep, RegisteredStep, WatchingStep, JudgedStep, StartedStep, Zenon DEF IInv
    <2> QED BY <2>2, StutterHolds, Zenon
  <1> QED BY <1>1, <1>2, PTL DEF Spec

\* The state keeps its types: a lock is held by a session the server runs or by
\* nobody, and a session on record is one of those the process may open.
THEOREM TypeCorrect == Spec => []TypeOK
  <1>1. IInv => TypeOK
    BY Zenon DEF IInv
  <1> QED BY <1>1, Invariance, PTL

\* Two permits whose roles share a bulk lock never do bulk work together while
\* the sessions of both live, for every placement of roles, keys and callers.
THEOREM BulkWorkExclusive == Spec => []BulkExclusive
  <1>1. ASSUME IInv PROVE BulkExclusive
    <2>1. SUFFICES ASSUME NEW x \in Permit, NEW y \in Permit, x # y, DoesBulk(x), DoesBulk(y),
                          KeyOf(Home[x]) = KeyOf(Home[y]), ~Lost(x), ~Lost(y)
                   PROVE  FALSE
      BY Zenon DEF BulkExclusive
    <2>2. <<Home[x], held[x]>> = <<Home[y], held[y]>>
      BY <1>1, <2>1, Zenon DEF IInv, Locked, DoesBulk, Lost
    <2>3. token[Home[x]] = x /\ token[Home[y]] = y
      BY <1>1, <2>1, Zenon DEF IInv, Holding, DoesBulk
    <2> QED BY <2>1, <2>2, <2>3, Zenon
  <1> QED BY <1>1, Invariance, PTL

\* Two processes of one role have permits in use together only while one of
\* them has lost its control session and not stopped.
THEOREM RoleHandedOver == Spec => []RoleExclusive
  <1>1. ASSUME IInv PROVE RoleExclusive
    BY <1>1 DEF IInv, Started, RoleExclusive
  <1> QED BY <1>1, Invariance, PTL

\* The inspection that stops its controller for a lost session.
Alarms(i, p) ==
    /\ At(i) = p /\ probe[i].step # "idle" /\ probe'[i].step = "idle"
    /\ probe[i].pid # 0 /\ <<p, probe[i].pid>> \notin sessions

\* An inspection concludes that a session is lost when it has found that.
LEMMA ConcludeTrue ==
    ASSUME IInv, NEW i \in Process \cup Permit, Conclude(i), probe' = [probe EXCEPT ![i] = NoInspection],
           NEW p \in Process, err'[p] = "bulk", err[p] # "bulk"
    PROVE  Alarms(i, p)
  <1>0. /\ probe \in [Process \cup Permit -> Inspection] /\ At(i) \in Process
        /\ err \in [Process -> {"none", "bulk", "other"}] /\ JudgedAt(i)
    BY AtHome, Zenon DEF IInv, TypeOK, Judged, JudgedAt
  <1>1. probe[i].step = "lost" /\ p = At(i)
    BY <1>0, Zenon DEF Conclude, Fail, SetReady, controller
  <1>2. probe'[i].step = "idle"
    BY <1>0, Zenon DEF NoInspection
  <1> QED BY <1>0, <1>1, <1>2, Zenon DEF Alarms, JudgedAt

\* A controller is stopped for a lost bulk session only by an inspection whose
\* session is lost for good, however drops, new grants, the inspection's
\* comparison and its failing the controller interleave.
THEOREM AlarmsTrue == Spec => AlarmIsTrue
  <1> DEFINE A == \A p \in Process : (err'[p] = "bulk" /\ err[p] # "bulk") =>
                      \E i \in Process \cup Permit : Alarms(i, p)
  <1>1. ASSUME IInv, Next PROVE A
    <2>0. err \in [Process -> {"none", "bulk", "other"}]
      BY <1>1, Zenon DEF IInv, TypeOK
    <2>1. ASSUME NEW i \in Process \cup Permit, Conclude(i), probe' = [probe EXCEPT ![i] = NoInspection] PROVE A
      BY <1>1, <2>1, ConcludeTrue, Zenon
    <2>2. ASSUME NEW p \in Process, Fail(p, "other") PROVE A
      BY <2>0, <2>2, Zenon DEF Fail, controller
    <2>3. CASE UNCHANGED err
      BY <2>3, Zenon
    <2>4. ASSUME NEW p \in Process, ControlStep(p) PROVE A
      <3>1. UNCHANGED err \/ Fail(p, "other") \/ (Conclude(p) /\ probe' = [probe EXCEPT ![p] = NoInspection])
        BY <2>4, Zenon DEF ControlStep, Open, Opened, Heartbeat, Beat, Close, Drain, Crash, controller
      <3> QED BY <2>1, <2>2, <2>3, <3>1, Zenon
    <2>5. ASSUME NEW x \in Permit, BulkStep(x) PROVE A
      <3>1. UNCHANGED err \/ Fail(Home[x], "other")
        BY <2>5, Zenon DEF BulkStep, TakeToken, Connect, Lock, Publish, AbandonBulk, Drop, Unlock, controller
      <3> QED BY <2>2, <2>3, <3>1, PlacementAssumption, Zenon
    <2>6. ASSUME NEW x \in Permit, PermitStep(x) PROVE A
      <3>1. UNCHANGED err \/ \E i \in {x, Home[x]} : Conclude(i) /\ probe' = [probe EXCEPT ![i] = NoInspection]
        BY <2>6, Zenon DEF PermitStep, Acquire, TakeActive, InspectGrant, Inspected, Grant, Abandon, Upgrade, Park, Resume, Release, controller
      <3> QED BY <2>1, <2>3, <3>1, PlacementAssumption, Zenon
    <2>7. ServerStep \/ (\E i \in Process \cup Permit : Query(i) \/ FindLost(i)) => UNCHANGED err
      BY Zenon DEF ServerStep, LoseSession, LoseControl, GrantLate, ReapSession, ReapControl, Query, FindLost, controller
    <2> QED BY <1>1, <2>3, <2>4, <2>5, <2>6, <2>7, Zenon DEF Next
  <1>2. IInv /\ [Next]_vars => [A]_vars
    BY <1>1, Zenon
  <1> QED BY <1>2, Invariance, PTL DEF Spec, AlarmIsTrue, Alarms

=============================================================================
