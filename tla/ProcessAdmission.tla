--------------------------- MODULE ProcessAdmission ---------------------------
(***************************************************************************)
(* Admission of heavy work across the server processes, by advisory locks  *)
(* of PostgreSQL sessions.  A process registers its role with a lock its   *)
(* control session holds; it grants permits while the whole roster of      *)
(* roles is registered; a bulk permit also holds the bulk lock its role    *)
(* shares with others, on a second session.  A heartbeat asks the database *)
(* whether the locks are still there.                                      *)
(*                                                                         *)
(* One action is one critical section under controller.mu, one operation   *)
(* on a channel of the controller, or one statement of a session.  The     *)
(* caller's context, which may end during any wait, is the alternative     *)
(* Abandon.  The server is the set of sessions it still runs and the locks *)
(* they hold: a session may end at any moment, and one the client has      *)
(* closed may live on for a while, holding or even awaiting its lock.      *)
(***************************************************************************)
EXTENDS Naturals, FiniteSets

CONSTANTS
    Process,        \* incarnations of server processes
    Role,           \* the roster
    RoleOf,         \* the role a process is started with
    BulkKey,        \* the bulk lock of a role
    ActiveSlots,    \* capacity of a role's active channel
    Permit,         \* concurrent callers of all processes
    Home,           \* the process a caller runs in
    Plan,           \* what the work of a caller may ask of its permit
    Nobody,         \* no owner
    MaxSessions,    \* bound: bulk sessions a process opens
    MaxFaults       \* bound: sessions, processes and heartbeats that fail

ASSUME OwnerAssumption ==
    Process \cap Permit = {} /\ Nobody \notin Process \cup Permit \cup (Process \X Nat)

ASSUME PlacementAssumption ==
    /\ RoleOf \in [Process -> Role] /\ Home \in [Permit -> Process]
    /\ Plan \in [Permit -> SUBSET {"interactive", "bulk", "upgrade", "park"}]
    /\ ActiveSlots \in [Role -> Nat \ {0}] /\ DOMAIN BulkKey = Role

ASSUME BoundAssumption == MaxSessions \in Nat /\ MaxFaults \in Nat

VARIABLES
    phase,      \* life of each process
    ready,      \* controller.ready
    err,        \* controller.err: a lost bulk session, or another reason
    control,    \* processes whose control session the server still runs
    roleOwner,  \* the process whose control session holds the role's lock
    sessions,   \* bulk sessions the server runs
    late,       \* closed sessions whose lock request the server still queues
    bulkOwner,  \* the session that holds each bulk lock
    serial,     \* the last bulk session the process opened
    pooled,     \* that session is still open for the process
    pid,        \* controller.bulkPID, 0 if none
    token,      \* the permit that filled controller.bulk
    pc,         \* what each caller does next
    goal,       \* the operation of the permit that is under way
    slot,       \* permit.active
    wanted,     \* permit.bulkWanted
    held,       \* the session of permit.bulkConn, 0 if nil
    parked,     \* permit.parked
    probe,      \* inspections: one on each control session, one of each caller
    faults      \* failures so far

controller == <<phase, ready, err>>
server == <<control, roleOwner, sessions, late, bulkOwner>>
pool == <<serial, pooled>>
permit == <<pc, goal, slot, wanted, held, parked>>
vars == <<controller, server, pool, pid, token, permit, probe, faults>>

Session == Process \X (1 .. MaxSessions)
Keys == {BulkKey[r] : r \in Role}
KeyOf(p) == BulkKey[RoleOf[p]]
Current(p) == <<p, serial[p]>>

Step == {"idle", "admit", "token", "connect", "lock", "locked", "inspect", "inspecting",
         "decide", "drop", "unlock", "working"}

\* An inspection: what it read of the controller, whether that still stands,
\* for whom it asks, and what the database answered.
Inspection == [step : {"idle", "read", "answered", "lost"}, pid : 0 .. MaxSessions, fresh : BOOLEAN,
               caller : Process \cup Permit \cup {Nobody},
               answer : {"error", "unowned", "incomplete", "complete"}, bulkOwned : BOOLEAN]

NoInspection == [step |-> "idle", pid |-> 0, fresh |-> FALSE, caller |-> Nobody,
                 answer |-> "error", bulkOwned |-> TRUE]

\* The values of the state.  A session the controller has on record was opened:
\* its serial is within the sessions a process opens, and the holder of a bulk
\* lock is a session the server runs.
TypeOK ==
    /\ phase \in [Process -> {"down", "opening", "running", "closing", "closed"}]
    /\ ready \in [Process -> BOOLEAN]
    /\ err \in [Process -> {"none", "bulk", "other"}]
    /\ control \subseteq Process
    /\ roleOwner \in [Role -> Process \cup {Nobody}]
    /\ sessions \subseteq Session /\ late \subseteq sessions
    /\ bulkOwner \in [Keys -> sessions \cup {Nobody}]
    /\ serial \in [Process -> 0 .. MaxSessions] /\ pooled \in [Process -> BOOLEAN]
    /\ pid \in [Process -> 0 .. MaxSessions]
    /\ token \in [Process -> Permit \cup {Nobody}]
    /\ pc \in [Permit -> Step]
    /\ goal \in [Permit -> {"acquire", "upgrade", "resume", "park", "release"}]
    /\ slot \in [Permit -> BOOLEAN] /\ wanted \in [Permit -> BOOLEAN]
    /\ held \in [Permit -> 0 .. MaxSessions]
    /\ parked \in [Permit -> BOOLEAN]
    /\ probe \in [Process \cup Permit -> Inspection]
    /\ faults \in 0 .. MaxFaults

Init ==
    /\ phase = [p \in Process |-> "down"] /\ ready = [p \in Process |-> FALSE]
    /\ err = [p \in Process |-> "none"]
    /\ control = {} /\ roleOwner = [r \in Role |-> Nobody]
    /\ sessions = {} /\ late = {} /\ bulkOwner = [k \in Keys |-> Nobody]
    /\ serial = [p \in Process |-> 0] /\ pooled = [p \in Process |-> FALSE]
    /\ pid = [p \in Process |-> 0] /\ token = [p \in Process |-> Nobody]
    /\ pc = [x \in Permit |-> "idle"] /\ goal = [x \in Permit |-> "acquire"]
    /\ slot = [x \in Permit |-> FALSE] /\ wanted = [x \in Permit |-> FALSE]
    /\ held = [x \in Permit |-> 0] /\ parked = [x \in Permit |-> FALSE]
    /\ probe = [i \in Process \cup Permit |-> NoInspection]
    /\ faults = 0

-----------------------------------------------------------------------------
(* The server. *)

\* The locks once session s is gone, or has given its lock up.
LocksWithout(s) == [k \in Keys |-> IF bulkOwner[k] = s THEN Nobody ELSE bulkOwner[k]]

SessionEnds(s) ==
    /\ sessions' = sessions \ {s} /\ late' = late \ {s}
    /\ bulkOwner' = LocksWithout(s)
    /\ UNCHANGED <<control, roleOwner>>

ControlEnds(p) ==
    /\ control' = control \ {p}
    /\ roleOwner' = [r \in Role |-> IF roleOwner[r] = p THEN Nobody ELSE roleOwner[r]]
    /\ UNCHANGED <<sessions, late, bulkOwner>>

\* A bulk session dies under its process.
LoseSession(s) ==
    /\ s \in sessions /\ faults < MaxFaults
    /\ faults' = faults + 1
    /\ SessionEnds(s)
    /\ UNCHANGED <<controller, pool, pid, token, permit, probe>>

\* A control session dies under its process.
LoseControl(p) ==
    /\ p \in control /\ faults < MaxFaults
    /\ faults' = faults + 1
    /\ ControlEnds(p)
    /\ UNCHANGED <<controller, pool, pid, token, permit, probe>>

\* Sessions that no process has open any more.
Abandoned(s) == s \in sessions /\ ~(pooled[s[1]] /\ serial[s[1]] = s[2])

\* The server grants the lock to a request whose client has gone.
GrantLate(s) ==
    /\ s \in late
    /\ bulkOwner[KeyOf(s[1])] = Nobody
    /\ bulkOwner' = [bulkOwner EXCEPT ![KeyOf(s[1])] = s]
    /\ late' = late \ {s}
    /\ UNCHANGED <<controller, control, roleOwner, sessions, pool, pid, token, permit, probe, faults>>

\* The server notices that the client of an idle session has gone.
ReapSession(s) ==
    /\ Abandoned(s) /\ s \notin late
    /\ SessionEnds(s)
    /\ UNCHANGED <<controller, pool, pid, token, permit, probe, faults>>

ReapControl(p) ==
    /\ p \in control /\ phase[p] \in {"down", "closed"}
    /\ ControlEnds(p)
    /\ UNCHANGED <<controller, pool, pid, token, permit, probe, faults>>

-----------------------------------------------------------------------------
(* The controller. *)

CallersOf(p) == {x \in Permit : Home[x] = p}

\* fail: only the first reason is kept.
Fail(p, why) ==
    IF phase[p] \in {"opening", "running"}
    THEN /\ phase' = [phase EXCEPT ![p] = "closing"]
         /\ err' = [err EXCEPT ![p] = why]
         /\ ready' = [ready EXCEPT ![p] = FALSE]
    ELSE UNCHANGED controller

\* setReady: a controller that is closing stays unready.
SetReady(p, r) ==
    /\ ready' = [ready EXCEPT ![p] = r /\ phase[p] = "running"]
    /\ UNCHANGED <<phase, err>>

\* OpenProcessAdmission: the control session takes the lock of the role, and a
\* first inspection starts.  A role that is taken leaves the process down.
Open(p) ==
    /\ phase[p] = "down" /\ p \notin control
    /\ roleOwner[RoleOf[p]] = Nobody
    /\ phase' = [phase EXCEPT ![p] = "opening"]
    /\ control' = control \cup {p}
    /\ roleOwner' = [roleOwner EXCEPT ![RoleOf[p]] = p]
    /\ probe' = [probe EXCEPT ![p] = [NoInspection EXCEPT !.step = "read", !.fresh = TRUE, !.caller = p]]
    /\ UNCHANGED <<ready, err, sessions, late, bulkOwner, pool, pid, token, permit, faults>>

\* refresh on behalf of the heartbeat: one user of the control session at a time.
Heartbeat(p) ==
    /\ phase[p] = "running" /\ probe[p].step = "idle"
    /\ probe' = [probe EXCEPT ![p] = [NoInspection EXCEPT
                    !.step = "read", !.fresh = TRUE, !.caller = p, !.pid = pid[p]]]
    /\ UNCHANGED <<controller, server, pool, pid, token, permit, faults>>

\* The inspection's process and whether the session it asks on still runs.
At(i) == IF i \in Process THEN i ELSE Home[i]
Reachable(i) == IF i \in Process THEN i \in control ELSE <<Home[i], held[i]>> \in sessions

\* The inspection has its answer; what it read only matters for a lost lock.
Answer(i, answer, bulkOwned) ==
    LET read == probe[i]
    IN  probe' = [probe EXCEPT ![i] = [read EXCEPT
            !.step = "answered", !.answer = answer, !.bulkOwned = bulkOwned,
            !.pid = IF bulkOwned THEN 0 ELSE read.pid, !.fresh = read.fresh /\ ~bulkOwned]]

\* The query of inspect: an error on a session the server ended; or the role's
\* lock is gone; or whether the bulk lock is held and the roster is complete.
\* A timeout is an error too, and the roster does not count as complete while a
\* session of another kind is connected.
Query(i) ==
    LET p == At(i)
        bulkOwned == probe[i].pid = 0 \/ bulkOwner[KeyOf(p)] = <<p, probe[i].pid>>
        complete == \A r \in Role : roleOwner[r] # Nobody
    IN  /\ probe[i].step = "read"
        /\ \/ /\ UNCHANGED faults
              /\ CASE ~Reachable(i) -> Answer(i, "error", TRUE)
                   [] Reachable(i) /\ roleOwner[RoleOf[p]] # p -> Answer(i, "unowned", TRUE)
                   [] OTHER -> Answer(i, IF complete THEN "complete" ELSE "incomplete", bulkOwned)
           \/ /\ Reachable(i) /\ roleOwner[RoleOf[p]] = p /\ faults < MaxFaults
              /\ faults' = faults + 1
              /\ Answer(i, "error", TRUE) \/ Answer(i, "incomplete", bulkOwned)
        /\ UNCHANGED <<controller, server, pool, pid, token, permit>>

\* Mutant: the epoch is not compared.
BulkLostByPid(i) == ~probe[i].bulkOwned /\ pid[At(i)] = probe[i].pid

\* The bulk lock the controller had when the inspection began is not held, and
\* the controller has neither given it up nor taken it anew since.
BulkLost(i) == ~probe[i].bulkOwned /\ probe[i].fresh

\* inspect finds the bulk session lost.  It leaves the critical section before
\* fail enters its own: the permit may drop or replace the session in between.
FindLost(i) ==
    /\ probe[i].step = "answered" /\ BulkLost(i)
    /\ probe' = [probe EXCEPT ![i].step = "lost", ![i].fresh = FALSE]
    /\ UNCHANGED <<controller, server, pool, pid, token, permit, faults>>

\* Whether inspect returns without an error.
Passed(i) ==
    /\ probe[i].step = "answered" /\ ~BulkLost(i)
    /\ probe[i].answer \in {"incomplete", "complete"}

\* What inspect does to the controller in the end.
Conclude(i) ==
    \/ probe[i].step = "lost" /\ Fail(At(i), "bulk")
    \/ probe[i].step = "answered" /\ probe[i].answer = "error" /\ UNCHANGED controller
    \/ probe[i].step = "answered" /\ probe[i].answer = "unowned" /\ Fail(At(i), "other")
    \/ Passed(i) /\ SetReady(At(i), probe[i].answer = "complete")

\* The inspection of the opening process ends: the controller starts, or the
\* control session is discarded.
Opened(p) ==
    /\ phase[p] = "opening" /\ probe[p].step = "answered"
    /\ probe' = [probe EXCEPT ![p] = NoInspection]
    /\ \/ /\ Passed(p)
          /\ phase' = [phase EXCEPT ![p] = "running"]
          /\ ready' = [ready EXCEPT ![p] = probe[p].answer = "complete"]
       \/ /\ phase' = [phase EXCEPT ![p] = "closed"]
          /\ UNCHANGED ready
    /\ UNCHANGED <<err, server, pool, pid, token, permit, faults>>

\* The heartbeat's inspection ends; an error of it stops the controller.
Beat(p) ==
    /\ probe[p].step \in {"answered", "lost"} /\ probe[p].caller = p
    /\ phase[p] \in {"running", "closing"}
    /\ IF probe[p].answer = "error" THEN Fail(p, "other") ELSE Conclude(p)
    /\ probe' = [probe EXCEPT ![p] = NoInspection]
    /\ UNCHANGED <<server, pool, pid, token, permit, faults>>

\* Close, or the end of the process's own context.
Close(p) ==
    /\ phase[p] = "running"
    /\ Fail(p, "other")
    /\ UNCHANGED <<server, pool, pid, token, permit, probe, faults>>

\* Mutant: the role is given up while permits are in use.
DrainEarly(p) ==
    /\ phase[p] = "closing" /\ probe[p].step = "idle"
    /\ phase' = [phase EXCEPT ![p] = "closed"]
    /\ pooled' = [pooled EXCEPT ![p] = FALSE]
    /\ ControlEnds(p)
    /\ UNCHANGED <<ready, err, serial, pid, token, permit, probe, faults>>

\* drain: once heartbeat, permits and queries are done the role is unlocked and
\* the pool closed.  A failed unlock leaves the control session to the server.
Drain(p) ==
    /\ phase[p] = "closing" /\ probe[p].step = "idle"
    /\ \A x \in CallersOf(p) : pc[x] = "idle"
    /\ phase' = [phase EXCEPT ![p] = "closed"]
    /\ pooled' = [pooled EXCEPT ![p] = FALSE]
    /\ ControlEnds(p) \/ (p \in control /\ UNCHANGED server)
    /\ UNCHANGED <<ready, err, serial, pid, token, permit, probe, faults>>

\* The process dies; its sessions stay until the server notices.
Crash(p) ==
    /\ phase[p] \in {"opening", "running", "closing"} /\ faults < MaxFaults
    /\ faults' = faults + 1
    /\ phase' = [phase EXCEPT ![p] = "closed"]
    /\ ready' = [ready EXCEPT ![p] = FALSE]
    /\ pooled' = [pooled EXCEPT ![p] = FALSE]
    /\ late' = late \cup {s \in sessions : \E x \in CallersOf(p) :
                            pc[x] = "lock" /\ token[p] = x /\ pooled[p] /\ s = Current(p)}
    /\ pid' = [pid EXCEPT ![p] = 0]
    /\ token' = [token EXCEPT ![p] = Nobody]
    /\ pc' = [x \in Permit |-> IF Home[x] = p THEN "idle" ELSE pc[x]]
    /\ goal' = [x \in Permit |-> IF Home[x] = p THEN "acquire" ELSE goal[x]]
    /\ slot' = [x \in Permit |-> slot[x] /\ Home[x] # p]
    /\ wanted' = [x \in Permit |-> wanted[x] /\ Home[x] # p]
    /\ held' = [x \in Permit |-> IF Home[x] = p THEN 0 ELSE held[x]]
    /\ parked' = [x \in Permit |-> parked[x] /\ Home[x] # p]
    /\ probe' = [i \in Process \cup Permit |-> IF At(i) = p THEN NoInspection ELSE probe[i]]
    /\ UNCHANGED <<err, control, roleOwner, sessions, bulkOwner, serial>>

-----------------------------------------------------------------------------
(* The permits. *)

Goto(x, step) == pc' = [pc EXCEPT ![x] = step]

\* The operation under way returns: the permit is gone, parked, or as it was.
Return(x) ==
    LET over == goal[x] \in {"acquire", "release"}
    IN  /\ Goto(x, IF over THEN "idle" ELSE "working")
        /\ goal' = [goal EXCEPT ![x] = "acquire"]
        /\ slot' = [slot EXCEPT ![x] = @ /\ ~over]
        /\ wanted' = [wanted EXCEPT ![x] = @ /\ ~over]
        /\ parked' = [parked EXCEPT ![x] = (@ \/ goal[x] = "park") /\ ~over]

\* Acquire: refused unless the roster is ready.
Acquire(x, bulk) ==
    /\ (IF bulk THEN "bulk" ELSE "interactive") \in Plan[x]
    /\ pc[x] = "idle" /\ ready[Home[x]]
    /\ Goto(x, "admit")
    /\ goal' = [goal EXCEPT ![x] = "acquire"]
    /\ wanted' = [wanted EXCEPT ![x] = bulk]
    /\ UNCHANGED <<controller, server, pool, pid, token, slot, held, parked, probe, faults>>

\* activate: one of the active slots of the process.
TakeActive(x) ==
    /\ pc[x] = "admit"
    /\ Cardinality({y \in CallersOf(Home[x]) : slot[y]}) < ActiveSlots[RoleOf[Home[x]]]
    /\ slot' = [slot EXCEPT ![x] = TRUE]
    /\ Goto(x, IF wanted[x] THEN "token" ELSE "inspect")
    /\ UNCHANGED <<controller, server, pool, pid, token, goal, wanted, held, parked, probe, faults>>

\* takeBulk: the process has one user of its bulk session.
TakeToken(x) ==
    /\ pc[x] = "token" /\ token[Home[x]] = Nobody
    /\ token' = [token EXCEPT ![Home[x]] = x]
    /\ Goto(x, "connect")
    /\ UNCHANGED <<controller, server, pool, pid, goal, slot, wanted, held, parked, probe, faults>>

\* The pooled session, if it still answers, or a new one.
Connect(x) ==
    LET p == Home[x]
    IN  /\ pc[x] = "connect"
        /\ IF pooled[p] /\ Current(p) \in sessions
           THEN UNCHANGED <<server, pool>>
           ELSE /\ serial[p] < MaxSessions
                /\ serial' = [serial EXCEPT ![p] = @ + 1]
                /\ pooled' = [pooled EXCEPT ![p] = TRUE]
                /\ sessions' = sessions \cup {<<p, serial[p] + 1>>}
                /\ UNCHANGED <<control, roleOwner, late, bulkOwner>>
        /\ Goto(x, "lock")
        /\ UNCHANGED <<controller, pid, token, goal, slot, wanted, held, parked, probe, faults>>

\* The server grants the bulk lock, at once or after a wait.
Lock(x) ==
    LET p == Home[x]
    IN  /\ pc[x] = "lock" /\ Current(p) \in sessions
        /\ bulkOwner[KeyOf(p)] = Nobody
        /\ bulkOwner' = [bulkOwner EXCEPT ![KeyOf(p)] = Current(p)]
        /\ Goto(x, "locked")
        /\ UNCHANGED <<controller, control, roleOwner, sessions, late, pool, pid, token,
                       goal, slot, wanted, held, parked, probe, faults>>

\* The inspections of p under way no longer see the current epoch.
NextEpoch(p) ==
    probe' = [i \in Process \cup Permit |-> IF At(i) = p THEN [probe[i] EXCEPT !.fresh = FALSE] ELSE probe[i]]

\* The granted session becomes the one the heartbeat looks for.
Publish(x) ==
    LET p == Home[x]
    IN  /\ pc[x] = "locked"
        /\ held' = [held EXCEPT ![x] = serial[p]]
        /\ pid' = [pid EXCEPT ![p] = serial[p]]
        /\ NextEpoch(p)
        /\ Goto(x, "inspect")
        /\ UNCHANGED <<controller, server, pool, token, goal, slot, wanted, parked, faults>>

\* takeBulk gives up.  A session that was asked for the lock is discarded, and
\* may get the lock later; one that was refused it goes back to the pool.
AbandonBulk(x) ==
    LET p == Home[x]
    IN  /\ pc[x] \in {"connect", "lock", "locked"}
        /\ \/ /\ pc[x] = "connect" \/ (pc[x] = "lock" /\ bulkOwner[KeyOf(p)] # Nobody)
              /\ UNCHANGED <<pooled, late>>
           \/ /\ pooled' = [pooled EXCEPT ![p] = FALSE]
              /\ \/ UNCHANGED late
                 \/ /\ pc[x] = "lock" /\ Current(p) \in sessions
                    /\ late' = late \cup {Current(p)}
        /\ token' = [token EXCEPT ![p] = Nobody]
        /\ Return(x)
        /\ UNCHANGED <<controller, control, roleOwner, sessions, bulkOwner, serial, pid, held, probe, faults>>

\* inspectGrant of a bulk permit asks on its own session, any other one on the
\* control session, whose result may come when the caller has left.
InspectGrant(x) ==
    LET i == IF held[x] # 0 THEN x ELSE Home[x]
    IN  /\ pc[x] = "inspect" /\ probe[i].step = "idle"
        /\ held[x] # 0 \/ phase[Home[x]] = "running"
        /\ probe' = [probe EXCEPT ![i] = [NoInspection EXCEPT
                        !.step = "read", !.fresh = TRUE, !.caller = x, !.pid = pid[Home[x]]]]
        /\ Goto(x, "inspecting")
        /\ UNCHANGED <<controller, server, pool, pid, token, goal, slot, wanted, held, parked, faults>>

\* The operation fails: a permit with the bulk lock drops it first.
Refuse(x) == IF held[x] # 0 THEN Goto(x, "drop") /\ UNCHANGED <<goal, slot, wanted, parked>>
             ELSE Return(x)

\* The inspection i of caller x ends.
Inspected(i, x) ==
    /\ probe[i].caller = x
    /\ Conclude(i)
    /\ IF pc[x] # "inspecting" THEN UNCHANGED <<pc, goal, slot, wanted, parked>>
       ELSE IF Passed(i) THEN Goto(x, "decide") /\ UNCHANGED <<goal, slot, wanted, parked>>
       ELSE Refuse(x)
    /\ probe' = [probe EXCEPT ![i] = NoInspection]
    /\ UNCHANGED <<server, pool, pid, token, held, faults>>

\* The grant, if the controller is ready at that moment.
Grant(x) ==
    /\ pc[x] = "decide" /\ ready[Home[x]]
    /\ Goto(x, "working")
    /\ wanted' = [wanted EXCEPT ![x] = @ \/ goal[x] = "upgrade"]
    /\ parked' = [parked EXCEPT ![x] = FALSE]
    /\ goal' = [goal EXCEPT ![x] = "acquire"]
    /\ UNCHANGED <<controller, server, pool, pid, token, slot, held, probe, faults>>

\* The caller's context ends, or that of the controller, while it waits for a
\* channel or for the inspection, or it finds the controller unready.  A query
\* cut short costs the session it was asked on; an inspection on the permit's
\* own session that has its answer is carried through.
Abandon(x) ==
    /\ pc[x] \in {"admit", "token", "inspect", "inspecting", "decide"}
    /\ ~(held[x] # 0 /\ probe[x].step = "lost")
    /\ Refuse(x)
    /\ IF pc[x] = "inspecting" /\ held[x] # 0
       THEN /\ pooled' = [pooled EXCEPT ![Home[x]] = FALSE]
            /\ probe' = [probe EXCEPT ![x] = NoInspection]
       ELSE UNCHANGED <<pooled, probe>>
    /\ UNCHANGED <<controller, server, serial, pid, token, held, faults>>

\* dropBulk, first half: the heartbeat no longer looks for the session.
Drop(x) ==
    /\ pc[x] = "drop"
    /\ pid' = [pid EXCEPT ![Home[x]] = 0]
    /\ NextEpoch(Home[x])
    /\ Goto(x, "unlock")
    /\ UNCHANGED <<controller, server, pool, token, goal, slot, wanted, held, parked, faults>>

\* Mutant: the permit keeps the session it has unlocked.
UnlockOnly(x) ==
    LET p == Home[x]
        s == <<p, held[x]>>
    IN  /\ pc[x] = "unlock"
        /\ pooled[p] /\ s \in sessions
        /\ bulkOwner' = LocksWithout(s)
        /\ token' = [token EXCEPT ![p] = Nobody]
        /\ Return(x)
        /\ UNCHANGED <<controller, control, roleOwner, sessions, late, pool, pid, held, probe, faults>>

\* Second half: the lock is given up and the session returned, or the session
\* is discarded, which stops the controller; then the token goes back.
Unlock(x) ==
    LET p == Home[x]
        s == <<p, held[x]>>
    IN  /\ pc[x] = "unlock"
        /\ \/ /\ pooled[p] /\ s \in sessions
              /\ bulkOwner' = LocksWithout(s)
              /\ UNCHANGED <<controller, pooled>>
           \/ /\ bulkOwner' \in {bulkOwner, LocksWithout(s)}
              /\ pooled' = [pooled EXCEPT ![p] = FALSE]
              /\ Fail(p, "other")
        /\ held' = [held EXCEPT ![x] = 0]
        /\ token' = [token EXCEPT ![p] = Nobody]
        /\ Return(x)
        /\ UNCHANGED <<control, roleOwner, sessions, late, serial, pid, probe, faults>>

\* Upgrade of a permit that is not parked.
Upgrade(x) ==
    /\ "upgrade" \in Plan[x]
    /\ pc[x] = "working" /\ ~parked[x] /\ ready[Home[x]]
    /\ goal' = [goal EXCEPT ![x] = "upgrade"]
    /\ Goto(x, IF held[x] = 0 THEN "token" ELSE "inspect")
    /\ UNCHANGED <<controller, server, pool, pid, token, slot, wanted, held, parked, probe, faults>>

\* Park keeps the active slot.
Park(x) ==
    /\ "park" \in Plan[x]
    /\ pc[x] = "working" /\ ~parked[x]
    /\ IF held[x] = 0
       THEN parked' = [parked EXCEPT ![x] = TRUE] /\ UNCHANGED <<pc, goal>>
       ELSE Goto(x, "drop") /\ goal' = [goal EXCEPT ![x] = "park"] /\ UNCHANGED parked
    /\ UNCHANGED <<controller, server, pool, pid, token, slot, wanted, held, probe, faults>>

Resume(x) ==
    /\ pc[x] = "working" /\ parked[x] /\ ready[Home[x]]
    /\ goal' = [goal EXCEPT ![x] = "resume"]
    /\ Goto(x, IF wanted[x] THEN "token" ELSE "inspect")
    /\ UNCHANGED <<controller, server, pool, pid, token, slot, wanted, held, parked, probe, faults>>

\* Release: the bulk lock first, then the slot.
Release(x) ==
    /\ pc[x] = "working"
    /\ IF held[x] # 0
       THEN /\ Goto(x, "drop") /\ goal' = [goal EXCEPT ![x] = "release"]
            /\ UNCHANGED <<slot, wanted, parked>>
       ELSE /\ Goto(x, "idle")
            /\ slot' = [slot EXCEPT ![x] = FALSE]
            /\ wanted' = [wanted EXCEPT ![x] = FALSE]
            /\ parked' = [parked EXCEPT ![x] = FALSE]
            /\ UNCHANGED goal
    /\ UNCHANGED <<controller, server, pool, pid, token, held, probe, faults>>

-----------------------------------------------------------------------------
ControlStep(p) == Open(p) \/ Opened(p) \/ Heartbeat(p) \/ Beat(p) \/ Close(p) \/ Drain(p) \/ Crash(p)

BulkStep(x) == TakeToken(x) \/ Connect(x) \/ Lock(x) \/ Publish(x) \/ AbandonBulk(x) \/ Drop(x) \/ Unlock(x)

PermitStep(x) ==
    \/ \E bulk \in BOOLEAN : Acquire(x, bulk)
    \/ TakeActive(x) \/ InspectGrant(x)
    \/ \E i \in {x, Home[x]} : Inspected(i, x)
    \/ Grant(x) \/ Abandon(x)
    \/ Upgrade(x) \/ Park(x) \/ Resume(x) \/ Release(x)

ServerStep ==
    \/ \E s \in Session : LoseSession(s) \/ GrantLate(s) \/ ReapSession(s)
    \/ \E p \in Process : LoseControl(p) \/ ReapControl(p)

Next ==
    \/ ServerStep
    \/ \E p \in Process : ControlStep(p)
    \/ \E i \in Process \cup Permit : Query(i) \/ FindLost(i)
    \/ \E x \in Permit : BulkStep(x) \/ PermitStep(x)

Spec == Init /\ [][Next]_vars

-----------------------------------------------------------------------------
(* Properties. *)

\* The permit may do bulk work.
DoesBulk(x) == pc[x] = "working" /\ held[x] # 0

Lost(x) == <<Home[x], held[x]>> \notin sessions

\* Two permits whose roles share a bulk lock do bulk work at the same time
\* only while the database session of one of them is lost: takeBulk, whatever
\* waits, refusals and late grants happen in it, never passes without the lock.
BulkExclusive ==
    \A x, y \in Permit :
        (x # y /\ DoesBulk(x) /\ DoesBulk(y) /\ KeyOf(Home[x]) = KeyOf(Home[y])) => Lost(x) \/ Lost(y)

\* Two processes of one role have permits in use at the same time only while
\* one of them has lost its control session and not yet stopped: drain keeps
\* the role until the last permit is released.
RoleExclusive ==
    \A x, y \in Permit :
        (/\ Home[x] # Home[y] /\ RoleOf[Home[x]] = RoleOf[Home[y]]
         /\ pc[x] # "idle" /\ pc[y] # "idle")
        => \E p \in {Home[x], Home[y]} : p \notin control /\ phase[p] # "closed"

\* A controller that is stopped for a lost bulk session is stopped by an
\* inspection whose session is lost for good, although the lock may have been
\* dropped and taken again while the inspection ran, and even between the
\* comparison of inspect and fail.
AlarmIsTrue ==
    [][\A p \in Process : (err'[p] = "bulk" /\ err[p] # "bulk") =>
          \E i \in Process \cup Permit :
              /\ At(i) = p /\ probe[i].step # "idle" /\ probe'[i].step = "idle"
              /\ probe[i].pid # 0 /\ <<p, probe[i].pid>> \notin sessions]_vars

=============================================================================
