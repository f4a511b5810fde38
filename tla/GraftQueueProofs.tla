-------------------------- MODULE GraftQueueProofs --------------------------
(***************************************************************************)
(* What holds of the graft queue for every number of snapshots, processes, *)
(* saves, foreign writes and faults: edges and events stay together, a     *)
(* drained register can be pulled up to date, nothing is dropped           *)
(* unreported, and a publication pushes its refs over shared edges.        *)
(***************************************************************************)
EXTENDS GraftQueue, WellFoundedInduction, TLAPS

\* The events of the program: none names its own snapshot.
Proper == {e \in GraftQueueEvent : e.snapshot \notin e.parents}

\* A version of the server's register of s, the current one or an older one.
Known(reg, s) ==
    /\ reg.edges \subseteq ever[s]
    /\ reg.seq <= remote[s].seq
    /\ reg.seq = 0 => reg.edges = {}

\* What the messages are.
Messages ==
    /\ queue \in Seq(Proper)
    /\ todo \in [Flusher \cup Planner -> Seq(Proper)]
    /\ late \subseteq Proper
    /\ accepted \subseteq Proper

\* The server's history explains its registers, what a pull has read and what
\* an accepted event was accepted for.
Server ==
    /\ \A s \in Snapshot : Known(remote[s], s)
    /\ \A s \in Snapshot : seen[s] # NoRegister => Known(seen[s], s)
    /\ \A e \in accepted : e.parents \subseteq ever[e.snapshot] /\ e.expected < remote[e.snapshot].seq

\* A graft parent of s that the server has held or that is queued for it.
Covered(s, p) == p \in ever[s] \/ \E e \in Range(queue) : e.snapshot = s /\ p \in e.parents

\* A save holds the lock from the moment it reads the register to the moment it
\* stores it, and its event is queued before the edge is stored.
SaverOK(v) ==
    LET j == job[v]
    IN /\ pc[v] \in {"idle", "enqueue", "put", "move"}
       /\ pc[v] \in {"enqueue", "put"} =>
             /\ lock = v
             /\ j \in [snapshot : Snapshot, parent : Node, base : Register]
             /\ j.parent # j.snapshot /\ j.base.seq < MaxGraftSeq
             /\ \A p \in j.base.edges : Covered(j.snapshot, p)
       /\ pc[v] = "put" => JobEvent(j) \in Range(queue)

\* What a push knows of the event at the head of its list.  It holds the lock
\* between the register and the queue: there the event is still the first one
\* and the clone's register is a version of the server's.
FlusherOK(f) ==
    LET e == Head(todo[f])
    IN /\ pc[f] \in {"idle", "send", "get", "settle", "drop"}
       /\ pc[f] # "idle" => todo[f] # <<>>
       /\ pc[f] \in {"idle", "send", "get"} => fetched[f] = NoRegister
       /\ pc[f] \in {"get", "settle", "drop"} /\ reply[f] = "ok" => e \in accepted
       /\ pc[f] = "settle" /\ fetched[f] = NoRegister => reply[f] = "ok" /\ ~e.legacy
       /\ pc[f] = "settle" /\ fetched[f] # NoRegister =>
             Known(fetched[f], e.snapshot) /\ (reply[f] = "ok" => fetched[f].seq > 0)
       /\ pc[f] = "drop" =>
             /\ lock = f
             /\ queue # <<>> /\ queue[1] = e
             /\ Known(local[e.snapshot], e.snapshot)
             /\ reply[f] = "ok" => local[e.snapshot].seq > 0

\* A publication sends no legacy event, and what it acknowledges was accepted.
PlannerOK(p) ==
    /\ pc[p] \in {"idle", "head", "send", "ack", "check", "publish"}
    /\ pc[p] \in {"head", "send", "ack"} => todo[p] # <<>>
    /\ \A e \in Range(todo[p]) : ~e.legacy
    /\ pc[p] = "ack" => Head(todo[p]) \in accepted
    /\ pc[p] = "publish" =>
          \A s \in plan[p].selected : plan[p].frozen[s].edges \subseteq ever[s]

\* The clone is ahead of the server only by queued events, and an edge without
\* a number has its legacy event.
Accounted(s) ==
    /\ \A p \in local[s].edges : Covered(s, p)
    /\ \/ local[s].seq <= remote[s].seq
       \/ \E e \in Range(queue) : e.snapshot = s /\ local[s].seq <= e.expected + 1
    /\ local[s].seq = 0 /\ local[s].edges # {} => \E e \in Range(queue) : e.snapshot = s /\ e.legacy

\* The inductive invariant.
IInv ==
    /\ TypeOK /\ Messages /\ Server
    /\ \A v \in Saver : SaverOK(v)
    /\ \A f \in Flusher : FlusherOK(f)
    /\ \A p \in Planner : PlannerOK(p)
    /\ \A s \in Snapshot : Accounted(s)

-----------------------------------------------------------------------------
(* The operators.                                                          *)

\* A nonempty set of natural numbers has a least one.
LEMMA LeastNatural ==
    ASSUME NEW T \in SUBSET Nat, T # {}
    PROVE  \E n \in T : \A m \in T : n <= m
  <1> DEFINE R == OpToRel(<, Nat)
  <1>1. IsWellFoundedOn(R, Nat)
    BY NatLessThanWellFounded, Zenon
  <1>2. \A i, j \in Nat : i < j => <<i, j>> \in R
    BY Zenon DEF OpToRel
  <1> HIDE DEF R
  <1>3. PICK n \in T : \A m \in T : ~(<<m, n>> \in R)
    BY <1>1, WFMin, Zenon
  <1>4. \A m \in T : m \in Nat /\ n \in Nat /\ ~(m < n)
    BY <1>2, <1>3, Zenon
  <1>5. \A m \in T : n <= m
    BY <1>4
  <1> QED
    BY <1>5, Zenon

\* The elements of a sequence, of its tail and of a longer one.
LEMMA Elements ==
    ASSUME NEW S, NEW q \in Seq(S)
    PROVE  /\ Range(q) \subseteq S
           /\ \A e \in S : Append(q, e) \in Seq(S) /\ Range(Append(q, e)) = Range(q) \cup {e}
           /\ q # <<>> => /\ Tail(q) \in Seq(S) /\ Head(q) \in S /\ Head(q) = q[1] /\ q[1] \in Range(q)
                          /\ Range(q) = Range(Tail(q)) \cup {q[1]}
  <1>1. Range(q) \subseteq S
    BY DEF Range
  <1>2. ASSUME NEW e \in S
        PROVE  Append(q, e) \in Seq(S) /\ Range(Append(q, e)) = Range(q) \cup {e}
    <2>1. /\ Append(q, e) \in Seq(S) /\ Len(Append(q, e)) = Len(q) + 1 /\ Len(q) \in Nat
          /\ \A i \in 1..Len(q) : Append(q, e)[i] = q[i]
          /\ Append(q, e)[Len(q) + 1] = e
      OBVIOUS
    <2>2. DOMAIN q = 1..Len(q) /\ DOMAIN Append(q, e) = 1..(Len(q) + 1)
      BY <2>1
    <2>3. 1..(Len(q) + 1) = (1..Len(q)) \cup {Len(q) + 1}
      BY <2>1
    <2> QED
      BY <2>1, <2>2, <2>3 DEF Range
  <1>3. ASSUME q # <<>>
        PROVE  /\ Tail(q) \in Seq(S) /\ Head(q) \in S /\ Head(q) = q[1] /\ q[1] \in Range(q)
               /\ Range(q) = Range(Tail(q)) \cup {q[1]}
    <2>1. /\ Tail(q) \in Seq(S) /\ Len(Tail(q)) = Len(q) - 1 /\ Len(q) \in Nat /\ Len(q) > 0
          /\ \A i \in 1..(Len(q) - 1) : Tail(q)[i] = q[i + 1]
          /\ Head(q) \in S /\ Head(q) = q[1]
      BY <1>3
    <2>2. DOMAIN q = 1..Len(q) /\ DOMAIN Tail(q) = 1..(Len(q) - 1)
      BY <2>1
    <2>3. \A i \in 1..Len(q) : i = 1 \/ (i - 1 \in 1..(Len(q) - 1) /\ q[i] = Tail(q)[i - 1])
      BY <2>1
    <2>4. \A i \in 1..(Len(q) - 1) : i + 1 \in 1..Len(q)
      BY <2>1
    <2>5. ASSUME NEW e \in Range(q)
          PROVE  e \in Range(Tail(q)) \cup {q[1]}
      <3>1. PICK i \in 1..Len(q) : e = q[i]
        BY <2>2, <2>5, Zenon DEF Range
      <3> QED
        BY <2>2, <2>3, <3>1, Zenon DEF Range
    <2>6. ASSUME NEW e \in Range(Tail(q))
          PROVE  e \in Range(q)
      <3>1. PICK i \in 1..(Len(q) - 1) : e = Tail(q)[i]
        BY <2>2, <2>6, Zenon DEF Range
      <3>2. e = q[i + 1] /\ i + 1 \in DOMAIN q
        BY <2>1, <2>2, <2>4, <3>1, Zenon
      <3> QED
        BY <3>2, Zenon DEF Range
    <2>7. q[1] \in Range(q)
      BY <2>1, <2>2 DEF Range
    <2> QED
      BY <2>1, <2>5, <2>6, <2>7, Zenon
  <1> QED
    BY <1>1, <1>2, <1>3, Zenon

\* A longer sequence has a tail.
LEMMA TailLeft ==
    ASSUME NEW S, NEW q \in Seq(S), q # <<>>, Len(q) # 1
    PROVE  Tail(q) # <<>>
  <1>1. Len(Tail(q)) = Len(q) - 1 /\ Len(q) \in Nat
    OBVIOUS
  <1>2. Len(<<>>) = 0
    BY Zenon
  <1>3. ASSUME Tail(q) = <<>>
        PROVE  Len(Tail(q)) = 0
    BY <1>2, <1>3, Zenon
  <1> QED
    BY <1>1, <1>3

\* Select keeps the events of the snapshots S and only those.
LEMMA Selected ==
    ASSUME NEW E, NEW q \in Seq(E), NEW S
    PROVE  /\ Select(q, S) \in Seq(E)
           /\ Range(Select(q, S)) = {e \in Range(q) : e.snapshot \in S}
  <1> DEFINE N == Len(q)
             Taken(s, i) == IF q[i].snapshot \in S THEN Append(s, q[i]) ELSE s
             Upto(n, G) == [i \in 0..n |-> IF i = 0 THEN <<>> ELSE Taken(G[i - 1], i)]
             First(n) == {q[i] : i \in {j \in 1..n : q[j].snapshot \in S}}
  <1>1. N \in Nat /\ DOMAIN q = 1..N /\ \A i \in 1..N : q[i] \in E
    OBVIOUS
  <1> HIDE DEF N
  <1>2. \A n \in 0..N : \E G : G = Upto(n, G)
    <2> DEFINE Defined(n) == \E G : G = Upto(n, G)
               T == {n \in 0..N : ~Defined(n)}
    <2>0. Defined(0)
      <3>1. [i \in 0..0 |-> <<>>] = Upto(0, [i \in 0..0 |-> <<>>])
        OBVIOUS
      <3> QED
        BY <3>1, Zenon
    <2> HIDE DEF Defined
    <2> SUFFICES ASSUME T # {} PROVE FALSE
      BY Zenon DEF Defined
    <2>1. T \in SUBSET Nat
      BY <1>1
    <2>2. PICK n \in T : \A m \in T : n <= m
      <3> HIDE DEF T
      <3> QED
        BY <2>1, LeastNatural, Zenon
    <2>3. n # 0
      BY <2>0, <2>2, Zenon
    <2>4. n \in 0..N /\ n - 1 \in 0..N /\ n - 1 \in Nat /\ Defined(n - 1)
      <3>1. n \in 0..N /\ n - 1 \in 0..N /\ n - 1 \in Nat /\ ~(n <= n - 1)
        BY <1>1, <2>2, <2>3
      <3> QED
        BY <2>2, <3>1, Zenon
    <2>5. PICK G : G = Upto(n - 1, G)
      BY <2>4, Zenon DEF Defined
    <2> DEFINE H == [i \in 0..n |-> IF i = n THEN Taken(G[n - 1], n) ELSE G[i]]
    <2> HIDE DEF Taken
    <2>6. ASSUME NEW i \in 0..n
          PROVE  H[i] = Upto(n, H)[i]
      <3>1. CASE i = n
        BY <2>3, <2>4, <3>1
      <3>2. CASE i # n
        <4>1. i \in 0..(n - 1) /\ H[i] = G[i]
          BY <2>4, <3>2
        <4>2. G[i] = IF i = 0 THEN <<>> ELSE Taken(G[i - 1], i)
          BY <2>5, <4>1, Zenon
        <4>3. i # 0 => i - 1 \in 0..n /\ i - 1 # n /\ H[i - 1] = G[i - 1]
          BY <2>4, <4>1
        <4> QED
          BY <4>1, <4>2, <4>3, Zenon
      <3> QED
        BY <3>1, <3>2, Zenon
    <2>7. H = Upto(n, H)
      BY <2>6, Zenon
    <2>8. Defined(n)
      BY <2>7, Zenon DEF Defined
    <2> QED
      BY <2>8, <2>2, Zenon
  <1> DEFINE G == CHOOSE F : F = Upto(N, F)
  <1>3. G = Upto(N, G)
    <2>1. N \in 0..N
      BY <1>1
    <2>2. \E F : F = Upto(N, F)
      BY <1>2, <2>1, Zenon
    <2> HIDE DEF Upto
    <2> QED
      BY <2>2, Zenon
  <1>4. Select(q, S) = G[N]
    BY Zenon DEF Select, N
  <1> HIDE DEF G, Taken
  <1>5. /\ G[0] = <<>>
        /\ \A i \in 1..N : i - 1 \in 0..N /\ G[i] = Taken(G[i - 1], i)
    BY <1>1, <1>3
  <1>6. ASSUME NEW n \in 1..N, G[n - 1] \in Seq(E), Range(G[n - 1]) = First(n - 1)
        PROVE  G[n] \in Seq(E) /\ Range(G[n]) = First(n)
    <2>1. 1..n = (1..(n - 1)) \cup {n}
      BY <1>1
    <2>2. First(n) = First(n - 1) \cup (IF q[n].snapshot \in S THEN {q[n]} ELSE {})
      BY <2>1, Zenon
    <2> HIDE DEF First
    <2>3. q[n] \in E
      BY <1>1, Zenon
    <2>4. Append(G[n - 1], q[n]) \in Seq(E) /\ Range(Append(G[n - 1], q[n])) = Range(G[n - 1]) \cup {q[n]}
      BY <1>6, <2>3, Elements
    <2> QED
      BY <1>5, <1>6, <2>2, <2>4, Zenon DEF Taken
  <1>7. <<>> \in Seq(E) /\ Range(<<>>) = First(0)
    BY DEF Range
  <1>8. \A n \in 0..N : G[n] \in Seq(E) /\ Range(G[n]) = First(n)
    <2> DEFINE Right(n) == G[n] \in Seq(E) /\ Range(G[n]) = First(n)
               T == {n \in 0..N : ~Right(n)}
    <2> HIDE DEF Right
    <2> SUFFICES ASSUME T # {} PROVE FALSE
      BY Zenon DEF Right
    <2>1. T \in SUBSET Nat
      BY <1>1
    <2>2. PICK n \in T : \A m \in T : n <= m
      <3> HIDE DEF T
      <3> QED
        BY <2>1, LeastNatural, Zenon
    <2>3. n # 0
      BY <1>5, <1>7, <2>2, Zenon DEF Right
    <2>4. n \in 1..N /\ n - 1 \in 0..N /\ ~(n <= n - 1)
      BY <1>1, <2>2, <2>3
    <2>5. Right(n - 1)
      BY <2>2, <2>4, Zenon
    <2> HIDE DEF First
    <2>6. Right(n)
      BY <1>6, <2>4, <2>5, Zenon DEF Right
    <2> QED
      BY <2>2, <2>6, Zenon
  <1>9. First(N) = {e \in Range(q) : e.snapshot \in S}
    BY <1>1, Zenon DEF Range
  <1> HIDE DEF First
  <1>10. N \in 0..N
    BY <1>1
  <1> QED
    BY <1>4, <1>8, <1>9, <1>10, Zenon

\* Every node reaches itself.
LEMMA SelfReached == \A r : \A n \in Node : n \in Reach(r, n)
  BY Zenon DEF Reach

\* The queued events of a snapshot.
LEMMA QueuedForDef == \A s : QueuedFor(s) = {e \in Range(queue) : e.snapshot = s}
  BY Zenon DEF QueuedFor, Range

\* An event is queued when the log lists it.
LEMMA QueuedDef == \A e : Queued(e) <=> e \in Range(queue)
  BY Zenon DEF Queued, Range

\* Sequence numbers and counters.
LEMMA Numbers ==
    /\ \A n \in Nat : n <= n /\ n <= n + 1 /\ n + 1 \in Nat /\ n + 1 # 0
    /\ \A i, j, k \in Nat : (i <= j /\ j <= k => i <= k) /\ (i < j /\ j <= k => i < k)
    /\ \A m \in Nat : 0 \in 0..m /\ \A n \in 0..m : n < m => n + 1 \in 0..m
  OBVIOUS

\* The parts of registers, events and jobs.
LEMMA Fields ==
    /\ \A r \in Register : r.seq \in Nat /\ r # NoRegister
    /\ \A e \in Proper : e.expected \in Nat /\ e.snapshot \in Snapshot
    /\ \A s \in Snapshot, p \in Node, b \in Register :
          LET j == [snapshot |-> s, parent |-> p, base |-> b]
          IN  /\ j \in [snapshot : Snapshot, parent : Node, base : Register]
              /\ j.snapshot = s /\ j.parent = p /\ j.base = b
  <1>1. \A r \in Register : r.seq \in Nat
    BY BoundAssumption DEF Register
  <1>2. \A e \in Proper : e.expected \in Nat /\ e.snapshot \in Snapshot
    BY BoundAssumption DEF Proper, GraftQueueEvent
  <1> QED
    BY <1>1, <1>2, RegisterAssumption, Zenon

\* The merge of two registers is one of them, or their union without a number.
LEMMA MergeDef ==
    ASSUME NEW old \in Register, NEW new \in Register
    PROVE  /\ Merge(old, new) \in Register
           /\ Merge(old, new).edges \subseteq old.edges \cup new.edges
           /\ old.seq <= Merge(old, new).seq /\ new.seq <= Merge(old, new).seq
           /\ \/ Merge(old, new) = old
              \/ Merge(old, new) = new
              \/ /\ old.seq = 0 /\ new.seq = 0
                 /\ Merge(old, new) = [edges |-> old.edges \cup new.edges, seq |-> 0]
  BY BoundAssumption DEF Merge, Register

\* What the server's answer says of the register it leaves.
LEMMA ServeDef ==
    ASSUME NEW r \in [Snapshot -> Register], NEW e \in Proper
    PROVE  LET a == Serve(r, e)
           IN /\ a.ok \in BOOLEAN /\ a.reg \in Register
              /\ r[e.snapshot].seq <= a.reg.seq
              /\ a.reg = r[e.snapshot] \/ a.reg.seq > 0
              /\ a.ok => e.parents \subseteq a.reg.edges /\ e.expected < a.reg.seq
  <1> DEFINE reg == r[e.snapshot]
             new == e.parents \ (reg.edges \cup {e.snapshot})
  <1>1. /\ reg \in Register /\ reg.edges \subseteq Node /\ reg.seq \in 0..MaxGraftSeq
        /\ e.parents \subseteq Node /\ e.expected \in Nat /\ e.snapshot \notin e.parents
    BY BoundAssumption DEF Proper, GraftQueueEvent, Register
  <1>2. e.parents \subseteq reg.edges \cup new /\ new \subseteq Node
    BY <1>1, Zenon
  <1>3. reg.seq < MaxGraftSeq => /\ Advanced(reg, new) \in Register
                                 /\ Advanced(reg, new).edges = reg.edges \cup new
                                 /\ Advanced(reg, new).seq = reg.seq + 1
    BY <1>1, <1>2, BoundAssumption DEF Advanced, Register
  <1>4. \/ Serve(r, e) = [ok |-> TRUE, reg |-> reg] /\ new = {} /\ reg.seq = e.expected + 1
        \/ /\ Serve(r, e) = [ok |-> TRUE, reg |-> Advanced(reg, new)]
           /\ reg.seq = e.expected /\ reg.seq < MaxGraftSeq
        \/ Serve(r, e) = [ok |-> FALSE, reg |-> reg]
    BY Zenon DEF Serve
  <1> HIDE DEF new, reg
  <1>5. CASE Serve(r, e) = [ok |-> TRUE, reg |-> reg] /\ new = {} /\ reg.seq = e.expected + 1
    BY <1>1, <1>2, <1>5, BoundAssumption DEF reg
  <1>6. CASE /\ Serve(r, e) = [ok |-> TRUE, reg |-> Advanced(reg, new)]
             /\ reg.seq = e.expected /\ reg.seq < MaxGraftSeq
    BY <1>1, <1>2, <1>3, <1>6, BoundAssumption DEF reg
  <1>7. CASE Serve(r, e) = [ok |-> FALSE, reg |-> reg]
    BY <1>1, <1>7, BoundAssumption DEF reg
  <1> QED
    BY <1>4, <1>5, <1>6, <1>7, Zenon

-----------------------------------------------------------------------------
(* What a step leaves alone.                                               *)

\* The server only adds to its history and never goes back in its numbers.
Grows == \A s \in Snapshot : ever[s] \subseteq ever'[s] /\ remote[s].seq <= remote'[s].seq

\* A step of the process me: the others stay where they are, and the lock
\* protects the queue and the registers from everyone but pulls.
StepOf(me) ==
    /\ \A p \in Process \ {me} : pc'[p] = pc[p]
    /\ \A p \in (Flusher \cup Planner) \ {me} : todo'[p] = todo[p]
    /\ \A f \in Flusher \ {me} : reply'[f] = reply[f] /\ fetched'[f] = fetched[f]
    /\ \A p \in Planner \ {me} : plan'[p] = plan[p]
    /\ \A v \in Saver \ {me} : job'[v] = job[v]
    /\ lock' = lock \/ lock \in {Nobody, me}
    /\ \/ lock \in {Nobody, me}
       \/ /\ queue' = queue
          /\ \/ local' = local
             \/ \A s \in Snapshot : Known(local[s], s) =>
                   Known(local[s], s)' /\ local[s].seq <= local'[s].seq
    /\ Grows /\ accepted \subseteq accepted'

\* A version of the server's register stays one.
LEMMA KnownKept ==
    ASSUME TypeOK, TypeOK', Grows, NEW s \in Snapshot
    PROVE  /\ local'[s] = local[s] /\ Known(local[s], s) => Known(local[s], s)'
           /\ seen'[s] = seen[s] /\ seen[s] # NoRegister /\ Known(seen[s], s) => Known(seen[s], s)'
           /\ \A f \in Flusher : fetched'[f] = fetched[f] /\ fetched[f] # NoRegister /\ Known(fetched[f], s)
                                    => Known(fetched[f], s)'
  <1>1. /\ remote[s].seq \in Nat /\ remote'[s].seq \in Nat /\ remote[s].seq <= remote'[s].seq
        /\ ever[s] \subseteq ever'[s]
    <2>1. remote[s] \in Register /\ remote'[s] \in Register
      BY Zenon DEF TypeOK
    <2> QED BY <2>1, Fields, Zenon DEF Grows
  <1>2. \A reg \in Register : reg.seq \in Nat /\ (reg.seq <= remote[s].seq => reg.seq <= remote'[s].seq)
    BY <1>1, BoundAssumption DEF Register
  <1>3. local[s] \in Register /\ seen[s] \in Register \cup {NoRegister}
    BY Zenon DEF TypeOK
  <1>4. \A f \in Flusher : fetched[f] \in Register \cup {NoRegister}
    BY Zenon DEF TypeOK
  <1> QED
    BY <1>1, <1>2, <1>3, <1>4, Zenon DEF Known

\* The processes that do not take the step keep what they know.
LEMMA OthersKept ==
    ASSUME IInv, TypeOK', NEW me, StepOf(me)
    PROVE  /\ \A v \in Saver \ {me} : SaverOK(v)'
           /\ \A f \in Flusher \ {me} : FlusherOK(f)'
           /\ \A p \in Planner \ {me} : PlannerOK(p)'
  <1> USE DEF Process
  <1>1. ASSUME NEW v \in Saver \ {me}
        PROVE  SaverOK(v)'
    <2>1. SaverOK(v) /\ pc'[v] = pc[v] /\ job'[v] = job[v] /\ v # Nobody
      BY <1>1, ProcessAssumption, Zenon DEF IInv, StepOf
    <2>2. CASE pc[v] \in {"enqueue", "put"}
      <3>1. lock = v /\ lock' = v /\ queue' = queue
        BY <2>1, <2>2, Zenon DEF SaverOK, StepOf
      <3>2. job[v].snapshot \in Snapshot
        BY <2>1, <2>2, Zenon DEF SaverOK
      <3>3. \A p : Covered(job[v].snapshot, p) => Covered(job[v].snapshot, p)'
        BY <2>1, <3>1, <3>2, Zenon DEF Covered, StepOf, Grows
      <3>4. JobEvent(job[v])' = JobEvent(job[v]) /\ Range(queue)' = Range(queue)
        BY <2>1, <3>1, Zenon DEF JobEvent
      <3> QED
        BY <2>1, <2>2, <3>1, <3>3, <3>4, Zenon DEF SaverOK
    <2>3. CASE pc[v] \notin {"enqueue", "put"}
      BY <2>1, <2>3, Zenon DEF SaverOK
    <2> QED
      BY <2>2, <2>3, Zenon
  <1>2. ASSUME NEW f \in Flusher \ {me}
        PROVE  FlusherOK(f)'
    <2> DEFINE s == Head(todo[f]).snapshot
    <2>1. /\ FlusherOK(f) /\ pc'[f] = pc[f] /\ todo'[f] = todo[f] /\ reply'[f] = reply[f]
          /\ fetched'[f] = fetched[f] /\ f # Nobody /\ accepted \subseteq accepted'
      BY <1>2, ProcessAssumption, Zenon DEF IInv, StepOf
    <2>2. CASE pc[f] # "idle"
      <3>1. todo[f] \in Seq(Proper) /\ todo[f] # <<>>
        BY <2>1, <2>2, Zenon DEF FlusherOK, IInv, Messages
      <3>2. s \in Snapshot
        <4>1. Head(todo[f]) \in Proper
          BY <3>1, Elements, Zenon
        <4> QED
          BY <4>1, Zenon DEF Proper, GraftQueueEvent
      <3> HIDE DEF s
      <3>3. fetched[f] # NoRegister /\ Known(fetched[f], s) => Known(fetched[f], s)'
        BY <2>1, <3>2, KnownKept, Zenon DEF IInv, StepOf, s
      <3>4. CASE pc[f] # "drop"
        BY <2>1, <3>3, <3>4, Zenon DEF FlusherOK, s
      <3>5. CASE pc[f] = "drop"
        <4>1. lock = f /\ lock' = f /\ queue' = queue
          BY <2>1, <3>5, Zenon DEF FlusherOK, StepOf
        <4>2. Known(local[s], s)
          BY <2>1, <3>5, Zenon DEF FlusherOK, s
        <4>3. local[s] \in Register /\ local'[s] \in Register
          BY <3>2, Zenon DEF IInv, TypeOK
        <4>4. /\ local[s].seq \in Nat /\ local'[s].seq \in Nat
          BY <4>3, BoundAssumption DEF Register
        <4>5. CASE local' = local
          <5>1. Known(local[s], s)'
            BY <3>2, <4>2, <4>5, KnownKept, Zenon DEF IInv, StepOf, s
          <5> QED
            BY <2>1, <3>5, <4>1, <4>5, <5>1, Zenon DEF FlusherOK, s
        <4>6. CASE local' # local
          <5>1. Known(local[s], s)' /\ local[s].seq <= local'[s].seq
            BY <2>1, <3>2, <4>1, <4>2, <4>6, Zenon DEF StepOf, s
          <5>2. local[s].seq > 0 => local'[s].seq > 0
            BY <4>4, <5>1
          <5> QED
            BY <2>1, <3>5, <4>1, <5>1, <5>2, Zenon DEF FlusherOK, s
        <4> QED
          BY <4>5, <4>6, Zenon
      <3> QED
        BY <3>4, <3>5, Zenon
    <2>3. CASE pc[f] = "idle"
      BY <2>1, <2>3, Zenon DEF FlusherOK
    <2> QED
      BY <2>2, <2>3, Zenon
  <1>3. ASSUME NEW p \in Planner \ {me}
        PROVE  PlannerOK(p)'
    <2>1. /\ PlannerOK(p) /\ pc'[p] = pc[p] /\ todo'[p] = todo[p] /\ plan'[p] = plan[p]
          /\ accepted \subseteq accepted' /\ Grows
      BY <1>3, Zenon DEF IInv, StepOf
    <2>2. plan[p].selected \subseteq Snapshot
      BY Zenon DEF IInv, TypeOK
    <2> QED
      BY <2>1, <2>2, Zenon DEF PlannerOK, Grows
  <1> QED
    BY <1>1, <1>2, <1>3, Zenon

\* The server grows when it answers an event, and what it accepts it holds.
LEMMA ServedKeeps ==
    ASSUME IInv, NEW e \in Proper, Served(e), seen' = seen
    PROVE  /\ remote' \in [Snapshot -> Register] /\ ever' \in [Snapshot -> SUBSET Node]
           /\ accepted' \subseteq Proper
           /\ Grows /\ accepted \subseteq accepted' /\ Server'
           /\ Serve(remote, e).ok => e \in accepted'
  <1> DEFINE a == Serve(remote, e)
             t == e.snapshot
  <1>1. /\ remote \in [Snapshot -> Register] /\ ever \in [Snapshot -> SUBSET Node]
        /\ seen \in [Snapshot -> Register \cup {NoRegister}] /\ accepted \subseteq Proper
    BY Zenon DEF IInv, TypeOK, Messages
  <1>2. t \in Snapshot /\ \A d \in Proper : d.snapshot \in Snapshot /\ d.expected \in Nat
    BY BoundAssumption DEF Proper, GraftQueueEvent
  <1>3. /\ a.ok \in BOOLEAN /\ a.reg \in Register
        /\ remote[t].seq <= a.reg.seq
        /\ a.reg = remote[t] \/ a.reg.seq > 0
        /\ a.ok => e.parents \subseteq a.reg.edges /\ e.expected < a.reg.seq
    BY <1>1, ServeDef, Zenon
  <1>4. /\ remote' = [remote EXCEPT ![t] = a.reg]
        /\ ever' = [ever EXCEPT ![t] = @ \cup a.reg.edges]
        /\ accepted' = IF a.ok THEN accepted \cup {e} ELSE accepted
    BY Zenon DEF Served
  <1> HIDE DEF a, t
  <1>5. \A reg \in Register : reg.seq \in Nat /\ reg.edges \subseteq Node
    BY BoundAssumption DEF Register
  <1>6. remote' \in [Snapshot -> Register] /\ ever' \in [Snapshot -> SUBSET Node]
    BY <1>1, <1>2, <1>3, <1>4, <1>5, Zenon
  <1>7. accepted' \subseteq Proper /\ accepted \subseteq accepted' /\ (a.ok => e \in accepted')
    BY <1>1, <1>4, Zenon
  <1>8. \A s \in Snapshot : /\ remote'[s] = IF s = t THEN a.reg ELSE remote[s]
                            /\ ever'[s] = IF s = t THEN ever[s] \cup a.reg.edges ELSE ever[s]
                            /\ remote[s].seq \in Nat
    BY <1>1, <1>2, <1>4, <1>5, Zenon
  <1>9. Grows
    <2>1. ASSUME NEW s \in Snapshot
          PROVE  ever[s] \subseteq ever'[s] /\ remote[s].seq <= remote'[s].seq
      <3>1. CASE s = t
        BY <1>3, <1>8, <3>1, Zenon
      <3>2. CASE s # t
        <4>1. remote'[s] = remote[s] /\ ever'[s] = ever[s] /\ remote[s].seq \in Nat
          BY <1>8, <3>2, Zenon
        <4> QED
          BY <4>1
      <3> QED
        BY <3>1, <3>2, Zenon
    <2> QED
      BY <2>1, Zenon DEF Grows
  <1>10. \A s \in Snapshot : Known(remote[s], s) /\ (seen[s] # NoRegister => Known(seen[s], s))
    BY Zenon DEF IInv, Server
  <1>11. ASSUME NEW s \in Snapshot
         PROVE  Known(remote[s], s)'
    <2>1. CASE s = t
      <3>1. remote'[s] = a.reg /\ ever'[s] = ever[s] \cup a.reg.edges /\ a.reg.seq \in Nat
        BY <1>3, <1>5, <1>8, <2>1, Zenon
      <3>2. a.reg.seq = 0 => a.reg.edges = {}
        BY <1>3, <1>10, <2>1, <3>1 DEF Known
      <3> QED
        BY <3>1, <3>2 DEF Known
    <2>2. CASE s # t
      <3>1. remote'[s] = remote[s] /\ ever'[s] = ever[s]
        BY <1>8, <2>2, Zenon
      <3> QED
        BY <1>10, <3>1, Zenon DEF Known
    <2> QED
      BY <2>1, <2>2, Zenon
  <1>12. ASSUME NEW s \in Snapshot, seen[s] # NoRegister
         PROVE  Known(seen[s], s)'
    <2>1. seen[s] \in Register /\ seen'[s] = seen[s] /\ remote'[s] \in Register
      BY <1>1, <1>6, <1>12, Zenon
    <2>2. seen[s].seq \in Nat /\ remote[s].seq \in Nat /\ remote'[s].seq \in Nat
      BY <1>5, <1>8, <2>1, Zenon
    <2> QED
      BY <1>9, <1>10, <1>12, <2>1, <2>2 DEF Known, Grows
  <1>13. ASSUME NEW d \in accepted'
         PROVE  d.parents \subseteq ever'[d.snapshot] /\ d.expected < remote'[d.snapshot].seq
    <2>1. d.snapshot \in Snapshot /\ d.expected \in Nat
      BY <1>2, <1>7, Zenon
    <2>2. CASE d \in accepted
      <3>1. /\ d.parents \subseteq ever[d.snapshot] /\ d.expected < remote[d.snapshot].seq
        BY <2>2, Zenon DEF IInv, Server
      <3>2. remote[d.snapshot].seq \in Nat /\ remote'[d.snapshot].seq \in Nat
        BY <1>3, <1>5, <1>8, <2>1, Zenon
      <3> QED
        BY <1>9, <2>1, <3>1, <3>2 DEF Grows
    <2>3. CASE d = e /\ a.ok
      BY <1>2, <1>3, <1>8, <2>3, Zenon DEF t
    <2> QED
      BY <1>4, <2>2, <2>3, Zenon
  <1> QED
    BY <1>6, <1>7, <1>9, <1>11, <1>12, <1>13, Zenon DEF Server, a

\* The server's part of the invariant when nothing of it changes.
LEMMA ServerKept ==
    ASSUME IInv, UNCHANGED <<remote, ever, accepted, seen>>
    PROVE  /\ Grows /\ accepted \subseteq accepted' /\ Server'
           /\ remote' \in [Snapshot -> Register] /\ ever' \in [Snapshot -> SUBSET Node]
           /\ accepted' \subseteq Proper
  <1>1. \A s \in Snapshot : remote[s].seq \in Nat
    BY BoundAssumption DEF IInv, TypeOK, Register
  <1>2. Grows
    BY <1>1 DEF Grows
  <1>3. Server'
    BY Zenon DEF IInv, Server, Known
  <1> QED
    BY <1>2, <1>3, Zenon DEF IInv, TypeOK, Messages

\* An accounted register stays accounted while no event of it leaves the queue.
LEMMA AccountKept ==
    ASSUME IInv, remote' \in [Snapshot -> Register], Grows, NEW s \in Snapshot, local'[s] = local[s],
           \A e \in Range(queue) : e.snapshot = s => e \in Range(queue')
    PROVE  Accounted(s)'
  <1>1. /\ local[s].seq \in Nat /\ remote[s].seq \in Nat /\ remote'[s].seq \in Nat
    BY BoundAssumption DEF IInv, TypeOK, Register
  <1>2. Accounted(s)
    BY Zenon DEF IInv
  <1>3. \A p : Covered(s, p) => Covered(s, p)'
    BY Zenon DEF Covered, Grows
  <1>4. local[s].seq <= remote[s].seq => local'[s].seq <= remote'[s].seq
    BY <1>1 DEF Grows
  <1>5. /\ \A p \in local'[s].edges : Covered(s, p)'
        /\ local'[s].seq = 0 /\ local'[s].edges # {} => \E e \in Range(queue') : e.snapshot = s /\ e.legacy
    BY <1>2, <1>3, Zenon DEF Accounted
  <1>6. \/ local'[s].seq <= remote'[s].seq
        \/ \E e \in Range(queue') : e.snapshot = s /\ local'[s].seq <= e.expected + 1
    BY <1>2, <1>4, Zenon DEF Accounted
  <1> QED
    BY <1>5, <1>6, Zenon DEF Accounted

\* An accepted event that is not a legacy one, or whose register has a number,
\* may leave the queue.
LEMMA AccountSettled ==
    ASSUME IInv, UNCHANGED <<local, remote, ever>>, NEW d \in accepted, NEW s \in Snapshot,
           Range(queue) \subseteq Range(queue') \cup {d},
           d.legacy => local[d.snapshot].seq > 0
    PROVE  Accounted(s)'
  <1>1. local[s].seq \in Nat /\ remote[s].seq \in Nat /\ d.expected \in Nat /\ d.snapshot \in Snapshot
    BY BoundAssumption DEF IInv, TypeOK, Register, Messages, Proper, GraftQueueEvent
  <1>2. Accounted(s)
    BY Zenon DEF IInv
  <1>3. d.parents \subseteq ever[d.snapshot] /\ d.expected < remote[d.snapshot].seq
    BY Zenon DEF IInv, Server
  <1>4. \A p : Covered(s, p) => Covered(s, p)'
    BY <1>3, Zenon DEF Covered
  <1>5. \A p \in local'[s].edges : Covered(s, p)'
    BY <1>2, <1>4, Zenon DEF Accounted
  <1>6. d.snapshot = s /\ local[s].seq <= d.expected + 1 => local[s].seq <= remote[s].seq
    BY <1>1, <1>3
  <1>7. \/ local'[s].seq <= remote'[s].seq
        \/ \E e \in Range(queue') : e.snapshot = s /\ local'[s].seq <= e.expected + 1
    BY <1>2, <1>6, Zenon DEF Accounted
  <1>8. ASSUME local[s].seq = 0, local[s].edges # {}
        PROVE  \E e \in Range(queue') : e.snapshot = s /\ e.legacy
    <2>1. PICK e \in Range(queue) : e.snapshot = s /\ e.legacy
      BY <1>2, <1>8, Zenon DEF Accounted
    <2>2. e # d
      BY <1>1, <1>8, <2>1
    <2> QED
      BY <2>1, <2>2, Zenon
  <1> QED
    BY <1>5, <1>7, <1>8, Zenon DEF Accounted

\* A step is right when the process that takes it, the server and the clone's
\* registers are: the other processes are not disturbed.
LEMMA OneStep ==
    ASSUME IInv, TypeOK', Messages', Server', NEW me, StepOf(me),
           me \in Saver => SaverOK(me)',
           me \in Flusher => FlusherOK(me)',
           me \in Planner => PlannerOK(me)',
           \A s \in Snapshot : Accounted(s)'
    PROVE  IInv'
  <1>1. /\ \A v \in Saver \ {me} : SaverOK(v)'
        /\ \A f \in Flusher \ {me} : FlusherOK(f)'
        /\ \A p \in Planner \ {me} : PlannerOK(p)'
    BY OthersKept, Zenon
  <1>2. \A v \in Saver : SaverOK(v)'
    BY <1>1, Zenon
  <1>3. \A f \in Flusher : FlusherOK(f)'
    BY <1>1, Zenon
  <1>4. \A p \in Planner : PlannerOK(p)'
    BY <1>1, Zenon
  <1> QED
    BY <1>2, <1>3, <1>4, Zenon DEF IInv

\* The three kinds of process.
LEMMA Kinds ==
    /\ \A v \in Saver : v \notin Flusher /\ v \notin Planner /\ v \in Process /\ v # Nobody
    /\ \A f \in Flusher : f \notin Saver /\ f \notin Planner /\ f \in Process /\ f # Nobody
    /\ \A p \in Planner : p \notin Saver /\ p \notin Flusher /\ p \in Process /\ p # Nobody
    /\ Nobody \notin Saver /\ Nobody \notin Flusher /\ Nobody \notin Planner
  BY ProcessAssumption, Zenon DEF Process

\* Where a process can be.
Places == {"idle", "enqueue", "put", "move", "send", "get", "settle", "drop",
           "head", "ack", "check", "publish"}

-----------------------------------------------------------------------------
(* The steps of a save.                                                    *)

\* The messages of the program have the type of messages.
LEMMA ProperTypes ==
    /\ \A q \in Seq(Proper) : q \in Seq(GraftQueueEvent)
    /\ \A T \in SUBSET Proper : T \subseteq GraftQueueEvent
  BY DEF Proper

\* A save takes the lock and reads the register.
LEMMA StartGraftKeeps ==
    ASSUME IInv, NEW v \in Saver, NEW s \in Snapshot, NEW p \in Node, StartGraft(v, s, p)
    PROVE  IInv'
  <1>1. /\ pc[v] = "idle" /\ lock = Nobody /\ saves < MaxSaves /\ SequenceLeft(s)
        /\ p \notin Reach(local, s)
        /\ lock' = v /\ job' = [job EXCEPT ![v] = [snapshot |-> s, parent |-> p, base |-> local[s]]]
        /\ saves' = saves + 1 /\ pc' = [pc EXCEPT ![v] = "enqueue"]
        /\ UNCHANGED <<replicas, queue, pushing, plan, seen, late, history, others, faults>>
    BY Zenon DEF StartGraft, Go
  <1>2. UNCHANGED <<remote, local, queue, todo, reply, fetched, plan, seen, late, ever, accepted, refused,
                    others, faults>>
    BY <1>1, Zenon DEF replicas, pushing, history
  <1>3. p # s
    BY <1>1, NodeAssumption, SelfReached, Zenon
  <1>4. local[s] \in Register /\ local[s].seq < MaxGraftSeq
    BY <1>1, Zenon DEF IInv, TypeOK, SequenceLeft
  <1>5. TypeOK'
    <2>1. job' \in [Saver -> [snapshot : Snapshot, parent : Node, base : Register] \cup {NoJob}]
      BY <1>1, <1>4, Zenon DEF IInv, TypeOK
    <2>2. saves' \in 0..MaxSaves
      BY <1>1, BoundAssumption DEF IInv, TypeOK
    <2>3. pc' \in [Process -> {"idle", "enqueue", "put", "move", "send", "get", "settle", "drop",
                               "head", "ack", "check", "publish"}]
          /\ lock' \in Process \cup {Nobody}
      BY <1>1, Zenon DEF IInv, TypeOK, Process
    <2> QED
      BY <1>2, <2>1, <2>2, <2>3, Zenon DEF IInv, TypeOK
  <1>6. Messages'
    BY <1>2, Zenon DEF IInv, Messages
  <1>7. Server' /\ Grows /\ accepted \subseteq accepted' /\ remote' \in [Snapshot -> Register]
    BY <1>2, ServerKept, Zenon
  <1>8. StepOf(v)
    BY <1>1, <1>2, <1>7, Zenon DEF StepOf, IInv, TypeOK
  <1>9. SaverOK(v)'
    <2>1. job'[v] = [snapshot |-> s, parent |-> p, base |-> local[s]] /\ pc'[v] = "enqueue"
      BY <1>1, Zenon DEF IInv, TypeOK, Process
    <2>2. \A q \in local[s].edges : Covered(s, q)'
      BY <1>2, Zenon DEF IInv, Accounted, Covered
    <2> QED
      BY <1>1, <1>3, <1>4, <2>1, <2>2, Fields DEF SaverOK
  <1>10. \A t \in Snapshot : Accounted(t)'
    BY <1>2, <1>7, AccountKept, Zenon
  <1> QED
    BY <1>5, <1>6, <1>7, <1>8, <1>9, <1>10, OneStep, Kinds, Zenon

\* The event joins the queue.
LEMMA EnqueueKeeps ==
    ASSUME IInv, NEW v \in Saver, Enqueue(v)
    PROVE  IInv'
  <1> DEFINE e == JobEvent(job[v])
  <1>1. /\ pc[v] = "enqueue" /\ pc' = [pc EXCEPT ![v] = "put"]
        /\ queue' = IF Queued(e) THEN queue ELSE Append(queue, e)
        /\ refused' = refused \ {e}
        /\ UNCHANGED <<remote, local, lock, job, todo, reply, fetched, plan, seen, late, ever, accepted,
                       saves, others, faults>>
    BY Zenon DEF Enqueue, Go, replicas, pushing, bounds
  <1>2. /\ SaverOK(v) /\ lock = v /\ job[v] \in [snapshot : Snapshot, parent : Node, base : Register]
        /\ job[v].parent # job[v].snapshot
        /\ \A p \in job[v].base.edges : Covered(job[v].snapshot, p)
    BY <1>1, Zenon DEF IInv, SaverOK
  <1>3. e \in Proper
    BY <1>2, Zenon DEF JobEvent, Proper, GraftQueueEvent, Register
  <1> HIDE DEF e
  <1>4. queue \in Seq(Proper)
    BY Zenon DEF IInv, Messages
  <1>5. queue' \in Seq(Proper) /\ Range(queue') = Range(queue) \cup {e}
    BY <1>1, <1>3, <1>4, Elements, QueuedDef
  <1>6. TypeOK'
    <2>1. pc' \in [Process -> Places]
      BY <1>1, Zenon DEF IInv, TypeOK, Places
    <2>2. queue' \in Seq(GraftQueueEvent) /\ refused' \subseteq GraftQueueEvent
      BY <1>1, <1>5, ProperTypes, Zenon DEF IInv, TypeOK
    <2> QED
      BY <1>1, <2>1, <2>2, Zenon DEF IInv, TypeOK, Places
  <1>7. Messages'
    BY <1>1, <1>5, Zenon DEF IInv, Messages
  <1>8. Server' /\ Grows /\ accepted \subseteq accepted' /\ remote' \in [Snapshot -> Register]
    BY <1>1, ServerKept, Zenon
  <1>9. StepOf(v)
    BY <1>1, <1>2, <1>8, Zenon DEF StepOf, IInv, TypeOK
  <1>10. SaverOK(v)'
    <2>1. pc'[v] = "put" /\ job'[v] = job[v]
      BY <1>1, Kinds, Zenon DEF IInv, TypeOK
    <2>2. \A p \in job[v].base.edges : Covered(job[v].snapshot, p)'
      BY <1>1, <1>2, <1>5, Zenon DEF Covered
    <2>3. JobEvent(job'[v]) \in Range(queue')
      BY <1>5, <2>1, Zenon DEF e
    <2> QED
      BY <1>1, <1>2, <2>1, <2>2, <2>3, Zenon DEF SaverOK
  <1>11. \A t \in Snapshot : Accounted(t)'
    BY <1>1, <1>5, <1>8, AccountKept, Zenon
  <1> QED
    BY <1>6, <1>7, <1>8, <1>9, <1>10, <1>11, OneStep, Kinds, Zenon

\* The edge is stored: the event that accounts for it is queued.
LEMMA PutGraftKeeps ==
    ASSUME IInv, NEW v \in Saver, PutGraft(v)
    PROVE  IInv'
  <1> DEFINE j == job[v]
             t == j.snapshot
             new == Advanced(j.base, {j.parent})
  <1>1. /\ pc[v] = "put" /\ pc' = [pc EXCEPT ![v] = "move"] /\ lock' = Nobody
        /\ local' = [local EXCEPT ![t] = Merge(@, new)]
        /\ UNCHANGED <<remote, queue, job, todo, reply, fetched, plan, seen, late, ever, accepted, refused,
                       saves, others, faults>>
    BY Zenon DEF PutGraft, Go, pushing, history, bounds
  <1>2. /\ lock = v /\ j \in [snapshot : Snapshot, parent : Node, base : Register]
        /\ j.parent # t /\ j.base.seq < MaxGraftSeq
        /\ \A p \in j.base.edges : Covered(t, p)
        /\ JobEvent(j) \in Range(queue)
    BY <1>1, Zenon DEF IInv, SaverOK
  <1>3. /\ t \in Snapshot /\ new \in Register /\ new.seq = j.base.seq + 1 /\ j.base.seq \in Nat
        /\ new.edges = j.base.edges \cup {j.parent} /\ local[t] \in Register
    BY <1>2, BoundAssumption DEF IInv, TypeOK, Register, Advanced
  <1>4. JobEvent(j).snapshot = t /\ JobEvent(j).parents = {j.parent} /\ JobEvent(j).expected = j.base.seq
    BY Zenon DEF JobEvent
  <1> HIDE DEF j, t, new
  <1>5. /\ Merge(local[t], new) \in Register
        /\ new.seq <= Merge(local[t], new).seq
        /\ Merge(local[t], new) = local[t] \/ Merge(local[t], new) = new
    BY <1>3, MergeDef
  <1>6. local' \in [Snapshot -> Register] /\ local'[t] = Merge(local[t], new)
        /\ \A s \in Snapshot \ {t} : local'[s] = local[s]
    BY <1>1, <1>3, <1>5, Zenon DEF IInv, TypeOK
  <1>7. TypeOK'
    <2>1. pc' \in [Process -> Places] /\ lock' \in Process \cup {Nobody}
      BY <1>1, Zenon DEF IInv, TypeOK, Places
    <2> QED
      BY <1>1, <1>6, <2>1, Zenon DEF IInv, TypeOK, Places
  <1>8. Messages'
    BY <1>1, Zenon DEF IInv, Messages
  <1>9. Server' /\ Grows /\ accepted \subseteq accepted' /\ remote' \in [Snapshot -> Register]
    BY <1>1, ServerKept, Zenon
  <1>10. StepOf(v)
    BY <1>1, <1>2, <1>9, Zenon DEF StepOf, IInv, TypeOK
  <1>11. SaverOK(v)'
    <2>1. pc'[v] = "move"
      BY <1>1, Kinds, Zenon DEF IInv, TypeOK
    <2> QED
      BY <2>1, Zenon DEF SaverOK
  <1>12. ASSUME NEW s \in Snapshot
         PROVE  Accounted(s)'
    <2>1. CASE local'[s] = local[s]
      BY <1>1, <1>9, <2>1, AccountKept, Zenon
    <2>2. CASE s = t /\ local'[t] = new
      <3>1. ASSUME NEW p \in new.edges
            PROVE  Covered(s, p)'
        <4>1. CASE p = j.parent
          <5>1. p \in JobEvent(j).parents /\ JobEvent(j) \in Range(queue')
            BY <1>1, <1>2, <1>4, <4>1, Zenon
          <5> QED
            BY <1>4, <2>2, <5>1, Zenon DEF Covered
        <4>2. CASE p \in j.base.edges
          <5>1. Covered(s, p)
            BY <1>2, <2>2, <4>2, Zenon
          <5> QED
            BY <1>1, <5>1, Zenon DEF Covered
        <4> QED
          BY <1>3, <4>1, <4>2, Zenon
      <3>2. new.seq # 0 /\ new.seq <= JobEvent(j).expected + 1
        BY <1>3, <1>4
      <3>3. JobEvent(j) \in Range(queue') /\ JobEvent(j).snapshot = s
        BY <1>1, <1>2, <1>4, <2>2, Zenon
      <3>4. local'[s] = new /\ \A p \in new.edges : Covered(s, p)'
        BY <2>2, <3>1, Zenon
      <3> QED
        BY <3>2, <3>3, <3>4, Zenon DEF Accounted
    <2> QED
      BY <1>5, <1>6, <2>1, <2>2, Zenon
  <1> QED
    BY <1>7, <1>8, <1>9, <1>10, <1>11, <1>12, OneStep, Kinds, Zenon

\* The end of a save, and its death anywhere.
LEMMA SaveEndsKeeps ==
    ASSUME IInv, NEW v \in Saver, MoveRef(v) \/ SaveStops(v)
    PROVE  IInv'
  <1>1. /\ pc' = [pc EXCEPT ![v] = "idle"] /\ job' = [job EXCEPT ![v] = NoJob]
        /\ lock' = lock \/ (lock = v /\ lock' = Nobody)
        /\ faults' = faults \/ (faults < MaxFaults /\ faults' = faults + 1)
        /\ UNCHANGED <<remote, local, queue, todo, reply, fetched, plan, seen, late, ever, accepted, refused,
                       saves, others>>
    BY Zenon DEF MoveRef, SaveStops, Go, replicas, pushing, history, bounds
  <1>2. TypeOK'
    <2>1. pc' \in [Process -> Places] /\ lock' \in Process \cup {Nobody}
      BY <1>1, Zenon DEF IInv, TypeOK, Places
    <2>2. job' \in [Saver -> [snapshot : Snapshot, parent : Node, base : Register] \cup {NoJob}]
      BY <1>1, Zenon DEF IInv, TypeOK
    <2>3. faults' \in 0..MaxFaults
      BY <1>1, Numbers, BoundAssumption DEF IInv, TypeOK
    <2> QED
      BY <1>1, <2>1, <2>2, <2>3, Zenon DEF IInv, TypeOK, Places
  <1>3. Messages'
    BY <1>1, Zenon DEF IInv, Messages
  <1>4. Server' /\ Grows /\ accepted \subseteq accepted' /\ remote' \in [Snapshot -> Register]
    BY <1>1, ServerKept, Zenon
  <1>5. StepOf(v)
    BY <1>1, <1>4, Zenon DEF StepOf, IInv, TypeOK
  <1>6. SaverOK(v)'
    <2>1. pc'[v] = "idle"
      BY <1>1, Kinds, Zenon DEF IInv, TypeOK
    <2> QED
      BY <2>1, Zenon DEF SaverOK
  <1>7. \A s \in Snapshot : Accounted(s)'
    BY <1>1, <1>4, AccountKept, Zenon
  <1> QED
    BY <1>2, <1>3, <1>4, <1>5, <1>6, <1>7, OneStep, Kinds, Zenon

-----------------------------------------------------------------------------
(* The steps of an ordinary push.                                          *)

\* The types of what a push carries, and where it is next.
FlushTyped ==
    /\ todo' \in [Flusher \cup Planner -> Seq(Proper)]
    /\ reply' \in [Flusher -> {"ok", "conflict"}]
    /\ fetched' \in [Flusher -> Register \cup {NoRegister}]
    /\ pc' \in [Process -> Places]

\* Only the push f moves.
FlushAlone(f) ==
    /\ \A p \in Process \ {f} : pc'[p] = pc[p]
    /\ \A p \in (Flusher \cup Planner) \ {f} : todo'[p] = todo[p]
    /\ \A g \in Flusher \ {f} : reply'[g] = reply[g] /\ fetched'[g] = fetched[g]

\* A push that ends, or goes on to its next event, knows nothing yet.
LEMMA FlushMoves ==
    ASSUME IInv, NEW f \in Flusher, EndFlush(f) \/ (NextEvent(f) /\ todo[f] # <<>>)
    PROVE  FlushTyped /\ FlushAlone(f) /\ FlusherOK(f)'
  <1>1. /\ todo \in [Flusher \cup Planner -> Seq(Proper)] /\ reply \in [Flusher -> {"ok", "conflict"}]
        /\ fetched \in [Flusher -> Register \cup {NoRegister}] /\ pc \in [Process -> Places]
        /\ f \in Process
    BY Kinds, Zenon DEF IInv, TypeOK, Messages, Places
  <1>2. CASE EndFlush(f)
    <2>1. /\ todo' = [todo EXCEPT ![f] = <<>>] /\ reply' = [reply EXCEPT ![f] = "ok"]
          /\ fetched' = [fetched EXCEPT ![f] = NoRegister] /\ pc' = [pc EXCEPT ![f] = "idle"]
      BY <1>2, Zenon DEF EndFlush, Go
    <2>2. FlushTyped
      BY <1>1, <2>1 DEF FlushTyped, Places
    <2>3. FlushAlone(f)
      BY <1>1, <2>1, Zenon DEF FlushAlone
    <2>4. pc'[f] = "idle" /\ fetched'[f] = NoRegister
      BY <1>1, <2>1, Zenon
    <2> QED
      BY <2>2, <2>3, <2>4, Zenon DEF FlusherOK
  <1>3. CASE NextEvent(f) /\ todo[f] # <<>>
    <2>1. /\ todo' = [todo EXCEPT ![f] = Tail(todo[f])] /\ reply' = [reply EXCEPT ![f] = "ok"]
          /\ fetched' = [fetched EXCEPT ![f] = NoRegister]
          /\ pc' = [pc EXCEPT ![f] = IF Len(todo[f]) = 1 THEN "idle" ELSE "send"]
      BY <1>3, Zenon DEF NextEvent, Go
    <2>2. todo[f] \in Seq(Proper) /\ Tail(todo[f]) \in Seq(Proper)
      BY <1>1, <1>3, Elements, Zenon
    <2>3. FlushTyped
      BY <1>1, <2>1, <2>2, Zenon DEF FlushTyped, Places
    <2>4. FlushAlone(f)
      BY <1>1, <2>1, Zenon DEF FlushAlone
    <2>5. /\ pc'[f] = IF Len(todo[f]) = 1 THEN "idle" ELSE "send"
          /\ fetched'[f] = NoRegister /\ todo'[f] = Tail(todo[f])
      BY <1>1, <2>1, Zenon
    <2>6. Len(todo[f]) # 1 => Tail(todo[f]) # <<>>
      BY <1>3, <2>2, TailLeft, Zenon
    <2> QED
      BY <2>3, <2>4, <2>5, <2>6, Zenon DEF FlusherOK
  <1> QED
    BY <1>2, <1>3, Zenon

\* The steps of a push that touch neither the server, the clone nor the queue.
LEMMA FlushQuietKeeps ==
    ASSUME IInv, NEW f \in Flusher, FlushTyped, FlushAlone(f), FlusherOK(f)',
           lock' = lock \/ (lock = f /\ lock' = Nobody),
           faults' = faults \/ (faults < MaxFaults /\ faults' = faults + 1),
           late' \subseteq Proper,
           UNCHANGED <<remote, local, queue, job, plan, seen, ever, accepted, refused, saves, others>>
    PROVE  IInv'
  <1>1. Messages'
    BY Zenon DEF IInv, Messages, FlushTyped
  <1>2. TypeOK'
    <2>1. lock' \in Process \cup {Nobody} /\ faults' \in 0..MaxFaults
      BY Numbers, BoundAssumption DEF IInv, TypeOK
    <2>2. todo' \in [Flusher \cup Planner -> Seq(GraftQueueEvent)] /\ late' \subseteq GraftQueueEvent
      BY ProperTypes, Zenon DEF FlushTyped
    <2> QED
      BY <2>1, <2>2, Zenon DEF IInv, TypeOK, FlushTyped, Places
  <1>3. Server' /\ Grows /\ accepted \subseteq accepted' /\ remote' \in [Snapshot -> Register]
    BY ServerKept, Zenon
  <1>4. StepOf(f)
    BY <1>3, Zenon DEF StepOf, FlushAlone
  <1>5. \A s \in Snapshot : Accounted(s)'
    BY <1>3, AccountKept, Zenon
  <1> QED
    BY <1>1, <1>2, <1>3, <1>4, <1>5, OneStep, Kinds, Zenon

\* The event at the head of what a push or a publication has to send.
LEMMA HeadOfTodo ==
    ASSUME IInv, NEW p \in Flusher \cup Planner, todo[p] # <<>>
    PROVE  /\ Head(todo[p]) \in Proper /\ Head(todo[p]).snapshot \in Snapshot
           /\ Head(todo[p]) \in Range(todo[p])
  <1>1. todo[p] \in Seq(Proper)
    BY Zenon DEF IInv, Messages
  <1>2. Head(todo[p]) \in Proper /\ Head(todo[p]) \in Range(todo[p])
    BY <1>1, Elements
  <1> QED
    BY <1>2, Zenon DEF Proper, GraftQueueEvent

\* A push loads the queue, fails, dies, or fetches the register.
LEMMA FlushReadsKeeps ==
    ASSUME IInv, NEW f \in Flusher,
           StartFlush(f) \/ SendFails(f) \/ FlushStops(f) \/ FetchRegister(f)
    PROVE  IInv'
  <1>0. /\ todo \in [Flusher \cup Planner -> Seq(Proper)] /\ reply \in [Flusher -> {"ok", "conflict"}]
        /\ fetched \in [Flusher -> Register \cup {NoRegister}] /\ pc \in [Process -> Places]
        /\ f \in Process /\ FlusherOK(f) /\ late \subseteq Proper
    BY Kinds, Zenon DEF IInv, TypeOK, Messages, Places
  <1>1. CASE StartFlush(f)
    <2>1. /\ pc[f] = "idle" /\ lock = Nobody /\ queue # <<>>
          /\ todo' = [todo EXCEPT ![f] = queue] /\ pc' = [pc EXCEPT ![f] = "send"]
          /\ UNCHANGED <<remote, local, queue, lock, job, reply, fetched, plan, seen, late, ever, accepted,
                         refused, saves, others, faults>>
      BY <1>1, Zenon DEF StartFlush, Go, replicas, history, bounds
    <2>2. queue \in Seq(Proper)
      BY Zenon DEF IInv, Messages
    <2>3. FlushTyped /\ FlushAlone(f)
      BY <1>0, <2>1, <2>2, Zenon DEF FlushTyped, FlushAlone, Places
    <2>4. pc'[f] = "send" /\ todo'[f] = queue /\ fetched'[f] = NoRegister
      BY <1>0, <2>1, Zenon DEF FlusherOK
    <2>5. FlusherOK(f)'
      BY <2>1, <2>4, Zenon DEF FlusherOK
    <2> QED
      BY <1>0, <2>1, <2>3, <2>5, FlushQuietKeeps, Zenon
  <1>2. CASE SendFails(f)
    <2>1. /\ pc[f] = "send" /\ faults < MaxFaults /\ faults' = faults + 1
          /\ late' = late \cup {Head(todo[f])} /\ EndFlush(f)
          /\ UNCHANGED <<remote, local, queue, lock, job, plan, seen, ever, accepted, refused, saves, others>>
      BY <1>2, Zenon DEF SendFails, replicas, history
    <2>2. todo[f] # <<>>
      BY <1>0, <2>1, Zenon DEF FlusherOK
    <2>3. late' \subseteq Proper
      BY <1>0, <2>1, <2>2, HeadOfTodo, Zenon
    <2> QED
      BY <2>1, <2>3, FlushMoves, FlushQuietKeeps, Zenon
  <1>3. CASE FlushStops(f)
    <2>1. /\ faults < MaxFaults /\ faults' = faults + 1
          /\ lock' = IF lock = f THEN Nobody ELSE lock
          /\ EndFlush(f)
          /\ UNCHANGED <<remote, local, queue, job, plan, seen, late, ever, accepted, refused, saves, others>>
      BY <1>3, Zenon DEF FlushStops, replicas, history
    <2> QED
      BY <1>0, <2>1, FlushMoves, FlushQuietKeeps, Zenon
  <1>4. CASE FetchRegister(f)
    <2> DEFINE e == Head(todo[f])
    <2>1. /\ pc[f] = "get" /\ fetched' = [fetched EXCEPT ![f] = remote[e.snapshot]]
          /\ pc' = [pc EXCEPT ![f] = "settle"]
          /\ UNCHANGED <<remote, local, queue, lock, job, todo, reply, plan, seen, late, ever, accepted,
                         refused, saves, others, faults>>
      BY <1>4, Zenon DEF FetchRegister, Go, replicas, history, bounds
    <2>2. todo[f] # <<>> /\ (reply[f] = "ok" => e \in accepted)
      BY <1>0, <2>1, Zenon DEF FlusherOK
    <2>3. e \in Proper /\ e.snapshot \in Snapshot
      BY <2>2, HeadOfTodo, Zenon
    <2> HIDE DEF e
    <2>4. remote[e.snapshot] \in Register /\ remote[e.snapshot] # NoRegister /\ remote[e.snapshot].seq \in Nat
          /\ e.expected \in Nat
      <3>1. remote[e.snapshot] \in Register
        BY <2>3, Zenon DEF IInv, TypeOK
      <3> QED
        BY <2>3, <3>1, Fields, Zenon
    <2>5. FlushTyped /\ FlushAlone(f)
      BY <1>0, <2>1, <2>4, Zenon DEF FlushTyped, FlushAlone, Places
    <2>6. /\ pc'[f] = "settle" /\ todo'[f] = todo[f] /\ fetched'[f] = remote[e.snapshot]
          /\ reply'[f] = reply[f]
      BY <1>0, <2>1, Zenon
    <2>7. Known(remote[e.snapshot], e.snapshot)
      BY <2>3, Zenon DEF IInv, Server
    <2>8. ASSUME reply[f] = "ok"
          PROVE  remote[e.snapshot].seq > 0
      <3>1. e.expected < remote[e.snapshot].seq
        BY <2>2, <2>8, Zenon DEF IInv, Server
      <3> QED
        BY <2>4, <3>1
    <2>9. FlusherOK(f)'
      <3>1. Head(todo'[f]) = e
        BY <2>6, Zenon DEF e
      <3> QED
        BY <2>1, <2>2, <2>4, <2>6, <2>7, <2>8, <3>1, Zenon DEF FlusherOK, Known
    <2> QED
      BY <1>0, <2>1, <2>5, <2>9, FlushQuietKeeps, Zenon
  <1> QED
    BY <1>1, <1>2, <1>3, <1>4, Zenon

\* A step of a push under the lock, or at the server.
LEMMA FlushActsKeeps ==
    ASSUME IInv, NEW f \in Flusher, FlushTyped, FlushAlone(f), FlusherOK(f)',
           lock \in {Nobody, f} \/ (UNCHANGED <<queue, local, lock>>), lock' \in {Nobody, f} \/ lock' = lock,
           queue' \in Seq(Proper), refused' \subseteq GraftQueueEvent,
           local' \in [Snapshot -> Register],
           remote' \in [Snapshot -> Register], ever' \in [Snapshot -> SUBSET Node], accepted' \subseteq Proper,
           Server', Grows, accepted \subseteq accepted', \A s \in Snapshot : Accounted(s)',
           UNCHANGED <<job, plan, seen, late, saves, others, faults>>
    PROVE  IInv'
  <1>1. Messages'
    BY Zenon DEF IInv, Messages, FlushTyped
  <1>2. TypeOK'
    <2>1. lock' \in Process \cup {Nobody}
      BY Kinds, Zenon DEF IInv, TypeOK
    <2>2. /\ todo' \in [Flusher \cup Planner -> Seq(GraftQueueEvent)] /\ accepted' \subseteq GraftQueueEvent
          /\ queue' \in Seq(GraftQueueEvent)
      BY ProperTypes, Zenon DEF FlushTyped
    <2> QED
      BY <2>1, <2>2, Zenon DEF IInv, TypeOK, FlushTyped, Places
  <1>3. StepOf(f)
    BY Zenon DEF StepOf, FlushAlone
  <1> QED
    BY <1>1, <1>2, <1>3, OneStep, Kinds, Zenon

\* The server answers the event at the head of the list.
LEMMA SendKeeps ==
    ASSUME IInv, NEW f \in Flusher, Send(f)
    PROVE  IInv'
  <1> DEFINE e == Head(todo[f])
             ok == Serve(remote, e).ok
  <1>0. /\ todo \in [Flusher \cup Planner -> Seq(Proper)] /\ reply \in [Flusher -> {"ok", "conflict"}]
        /\ fetched \in [Flusher -> Register \cup {NoRegister}] /\ pc \in [Process -> Places]
        /\ f \in Process /\ FlusherOK(f)
    BY Kinds, Zenon DEF IInv, TypeOK, Messages, Places
  <1>1. /\ pc[f] = "send" /\ Served(e)
        /\ reply' = [reply EXCEPT ![f] = IF ok THEN "ok" ELSE "conflict"]
        /\ pc' = [pc EXCEPT ![f] = IF ok /\ ~e.legacy THEN "settle" ELSE "get"]
        /\ UNCHANGED <<local, queue, lock, job, todo, fetched, plan, seen, late, refused, saves, others, faults>>
    BY Zenon DEF Send, Go, bounds
  <1>2. todo[f] # <<>> /\ fetched[f] = NoRegister
    BY <1>0, <1>1, Zenon DEF FlusherOK
  <1>3. e \in Proper
    BY <1>2, HeadOfTodo, Zenon
  <1>4. /\ remote' \in [Snapshot -> Register] /\ ever' \in [Snapshot -> SUBSET Node]
        /\ accepted' \subseteq Proper
        /\ Grows /\ accepted \subseteq accepted' /\ Server'
        /\ ok => e \in accepted'
    BY <1>1, <1>3, ServedKeeps, Zenon
  <1> HIDE DEF ok, e
  <1>5. FlushTyped /\ FlushAlone(f)
    BY <1>0, <1>1, Zenon DEF FlushTyped, FlushAlone, Places
  <1>6. /\ pc'[f] = IF ok /\ ~e.legacy THEN "settle" ELSE "get"
        /\ reply'[f] = IF ok THEN "ok" ELSE "conflict"
        /\ todo'[f] = todo[f] /\ fetched'[f] = NoRegister
    BY <1>0, <1>1, <1>2, Zenon
  <1>7. FlusherOK(f)'
    <2>1. Head(todo'[f]) = e
      BY <1>6, Zenon DEF e
    <2> QED
      BY <1>2, <1>4, <1>6, <2>1, Zenon DEF FlusherOK
  <1>8. \A s \in Snapshot : Accounted(s)'
    BY <1>1, <1>4, AccountKept, Zenon
  <1>9. queue' \in Seq(Proper) /\ refused' \subseteq GraftQueueEvent /\ local' \in [Snapshot -> Register]
    BY <1>1, Zenon DEF IInv, Messages, TypeOK
  <1> QED
    BY <1>1, <1>4, <1>5, <1>7, <1>8, <1>9, FlushActsKeeps, Zenon

\* What leaves with the first event of the queue.
LEMMA HeadOfQueue ==
    ASSUME IInv, queue # <<>>
    PROVE  /\ Tail(queue) \in Seq(Proper)
           /\ Range(queue) = Range(Tail(queue)) \cup {queue[1]}
  <1>1. queue \in Seq(Proper)
    BY Zenon DEF IInv, Messages
  <1> QED
    BY <1>1, Elements, Zenon

\* Under the lock a push compares the queue with what it sent.
LEMMA SettleKeeps ==
    ASSUME IInv, NEW f \in Flusher, Settle(f)
    PROVE  IInv'
  <1> DEFINE e == Head(todo[f])
  <1>0. /\ todo \in [Flusher \cup Planner -> Seq(Proper)] /\ reply \in [Flusher -> {"ok", "conflict"}]
        /\ fetched \in [Flusher -> Register \cup {NoRegister}] /\ pc \in [Process -> Places]
        /\ f \in Process /\ FlusherOK(f) /\ late \subseteq Proper /\ queue \in Seq(Proper)
        /\ refused \subseteq GraftQueueEvent /\ local \in [Snapshot -> Register]
    BY Kinds, Zenon DEF IInv, TypeOK, Messages, Places
  <1>1. /\ pc[f] = "settle" /\ lock = Nobody
        /\ UNCHANGED <<remote, job, plan, seen, late, ever, accepted, refused, saves, others, faults>>
    BY Zenon DEF Settle, history, bounds
  <1>2. \/ (NextEvent(f) \/ EndFlush(f)) /\ UNCHANGED <<local, queue, lock>>
        \/ /\ Queued(e) /\ queue[1] = e /\ fetched[f] # NoRegister
           /\ local' = [local EXCEPT ![e.snapshot] = fetched[f]]
           /\ lock' = f /\ pc' = [pc EXCEPT ![f] = "drop"]
           /\ UNCHANGED <<queue, todo, reply, fetched>>
        \/ /\ Queued(e) /\ queue[1] = e /\ fetched[f] = NoRegister
           /\ queue' = Tail(queue) /\ NextEvent(f) /\ UNCHANGED <<local, lock>>
    BY Zenon DEF Settle, Reconcile, Go, pushing
  <1>3. todo[f] # <<>>
    BY <1>0, <1>1, Zenon DEF FlusherOK
  <1>4. e \in Proper /\ e.snapshot \in Snapshot
    BY <1>3, HeadOfTodo, Zenon
  <1>5. Queued(e) => queue # <<>>
    BY <1>0 DEF Queued
  <1>6. Server' /\ Grows /\ accepted \subseteq accepted' /\ remote' \in [Snapshot -> Register]
        /\ ever' \in [Snapshot -> SUBSET Node] /\ accepted' \subseteq Proper
    BY <1>1, ServerKept, Zenon
  <1> HIDE DEF e
  <1>7. CASE (NextEvent(f) \/ EndFlush(f)) /\ UNCHANGED <<local, queue, lock>>
    BY <1>0, <1>1, <1>3, <1>7, FlushMoves, FlushQuietKeeps, Zenon
  <1>8. CASE /\ Queued(e) /\ queue[1] = e /\ fetched[f] # NoRegister
             /\ local' = [local EXCEPT ![e.snapshot] = fetched[f]]
             /\ lock' = f /\ pc' = [pc EXCEPT ![f] = "drop"]
             /\ UNCHANGED <<queue, todo, reply, fetched>>
    <2>1. FlushTyped /\ FlushAlone(f)
      BY <1>0, <1>8, Zenon DEF FlushTyped, FlushAlone, Places
    <2>2. /\ Known(fetched[f], e.snapshot) /\ (reply[f] = "ok" => fetched[f].seq > 0)
          /\ (reply[f] = "ok" => e \in accepted)
      BY <1>0, <1>1, <1>8, Zenon DEF FlusherOK, e
    <2>3. pc'[f] = "drop" /\ local'[e.snapshot] = fetched[f] /\ todo'[f] = todo[f] /\ reply'[f] = reply[f]
          /\ local' \in [Snapshot -> Register]
          /\ \A s \in Snapshot \ {e.snapshot} : local'[s] = local[s]
      BY <1>0, <1>4, <1>8, Zenon
    <2>4. Head(todo'[f]) = e
      BY <2>3, Zenon DEF e
    <2>5. FlusherOK(f)'
      BY <1>1, <1>3, <1>5, <1>8, <2>2, <2>3, <2>4, Zenon DEF FlusherOK, Known
    <2>6. ASSUME NEW s \in Snapshot
          PROVE  Accounted(s)'
      <3>1. CASE s = e.snapshot
        <4>1. Known(local[s], s)'
          BY <1>1, <2>2, <2>3, <3>1, Zenon DEF Known
        <4> QED
          BY <4>1, Zenon DEF Known, Accounted, Covered
      <3>2. CASE s # e.snapshot
        BY <1>6, <1>8, <2>3, <3>2, AccountKept, Zenon
      <3> QED
        BY <3>1, <3>2, Zenon
    <2> QED
      BY <1>0, <1>1, <1>6, <1>8, <2>1, <2>3, <2>5, <2>6, FlushActsKeeps, Zenon
  <1>9. CASE /\ Queued(e) /\ queue[1] = e /\ fetched[f] = NoRegister
             /\ queue' = Tail(queue) /\ NextEvent(f) /\ UNCHANGED <<local, lock>>
    <2>1. e \in accepted /\ ~e.legacy
      BY <1>0, <1>1, <1>9, Zenon DEF FlusherOK, e
    <2>2. queue' \in Seq(Proper) /\ Range(queue) \subseteq Range(queue') \cup {e}
      BY <1>5, <1>9, HeadOfQueue, Zenon
    <2>3. \A s \in Snapshot : Accounted(s)'
      BY <1>1, <1>9, <2>1, <2>2, AccountSettled, Zenon
    <2> QED
      BY <1>0, <1>1, <1>3, <1>6, <1>9, <2>2, <2>3, FlushMoves, FlushActsKeeps, Zenon
  <1> QED
    BY <1>2, <1>7, <1>8, <1>9, Zenon

\* The queue is stored: with a conflict every event of the snapshot leaves.
LEMMA DropKeeps ==
    ASSUME IInv, NEW f \in Flusher, Drop(f)
    PROVE  IInv'
  <1> DEFINE e == Head(todo[f])
  <1>0. FlusherOK(f) /\ queue \in Seq(Proper) /\ refused \subseteq GraftQueueEvent
        /\ local \in [Snapshot -> Register]
    BY Zenon DEF IInv, Messages, TypeOK
  <1>1. /\ pc[f] = "drop" /\ lock' = Nobody
        /\ UNCHANGED <<remote, local, job, plan, seen, late, ever, accepted, saves, others, faults>>
    BY Zenon DEF Drop, replicas, bounds
  <1>2. \/ /\ reply[f] = "conflict" /\ queue' = Kept(e)
           /\ refused' = refused \cup (Range(queue) \ Range(Kept(e))) /\ EndFlush(f)
        \/ /\ reply[f] # "conflict" /\ queue' = Tail(queue) /\ NextEvent(f) /\ UNCHANGED refused
    BY Zenon DEF Drop
  <1>3. /\ todo[f] # <<>> /\ lock = f /\ queue # <<>> /\ queue[1] = e
        /\ Known(local[e.snapshot], e.snapshot)
        /\ reply[f] = "ok" => e \in accepted /\ local[e.snapshot].seq > 0
    BY <1>0, <1>1, Zenon DEF FlusherOK
  <1>4. e \in Proper /\ e.snapshot \in Snapshot
    BY <1>3, HeadOfTodo, Zenon
  <1>5. Server' /\ Grows /\ accepted \subseteq accepted' /\ remote' \in [Snapshot -> Register]
        /\ ever' \in [Snapshot -> SUBSET Node] /\ accepted' \subseteq Proper
    BY <1>1, ServerKept, Zenon
  <1>6. reply[f] \in {"ok", "conflict"}
    BY Zenon DEF IInv, TypeOK
  <1> HIDE DEF e
  <1>7. CASE /\ reply[f] = "conflict" /\ queue' = Kept(e)
             /\ refused' = refused \cup (Range(queue) \ Range(Kept(e))) /\ EndFlush(f)
    <2>1. /\ queue' \in Seq(Proper)
          /\ Range(queue') = {d \in Range(queue) : d.snapshot \in Snapshot \ {e.snapshot}}
      BY <1>0, <1>7, Selected, Zenon DEF Kept
    <2>2. Range(queue) \subseteq Proper
      BY <1>0, Elements, Zenon
    <2>3. refused' \subseteq GraftQueueEvent
      BY <1>0, <1>7, <2>2, Zenon DEF Proper
    <2>4. \A d \in Range(queue) : d.snapshot \in Snapshot
      BY <2>2, Zenon DEF Proper, GraftQueueEvent
    <2>5. ASSUME NEW s \in Snapshot
          PROVE  Accounted(s)'
      <3>1. CASE s = e.snapshot
        <4>1. Known(local[s], s)'
          BY <1>1, <1>3, <3>1, Zenon DEF Known
        <4> QED
          BY <4>1, Zenon DEF Known, Accounted, Covered
      <3>2. CASE s # e.snapshot
        <4>1. \A d \in Range(queue) : d.snapshot = s => d \in Range(queue')
          BY <2>1, <2>4, <3>2, Zenon
        <4> QED
          BY <1>1, <1>5, <4>1, AccountKept, Zenon
      <3> QED
        BY <3>1, <3>2, Zenon
    <2> QED
      BY <1>0, <1>1, <1>3, <1>5, <1>7, <2>1, <2>3, <2>5, FlushMoves, FlushActsKeeps, Zenon
  <1>8. CASE /\ reply[f] # "conflict" /\ queue' = Tail(queue) /\ NextEvent(f) /\ UNCHANGED refused
    <2>1. queue' \in Seq(Proper) /\ Range(queue) \subseteq Range(queue') \cup {e}
      BY <1>3, <1>8, HeadOfQueue, Zenon
    <2>2. \A s \in Snapshot : Accounted(s)'
      BY <1>1, <1>3, <1>6, <1>8, <2>1, AccountSettled, Zenon
    <2> QED
      BY <1>0, <1>1, <1>3, <1>5, <1>8, <2>1, <2>2, FlushMoves, FlushActsKeeps, Zenon
  <1> QED
    BY <1>2, <1>7, <1>8, Zenon

-----------------------------------------------------------------------------
(* The steps of a publication.                                             *)

\* Only the publication p moves, and what it carries has its types.
PlanMoves(p) ==
    /\ todo' \in [Flusher \cup Planner -> Seq(Proper)]
    /\ plan' \in [Planner -> [selected : SUBSET Snapshot, frozen : [Snapshot -> Register]]]
    /\ pc' \in [Process -> Places]
    /\ \A q \in Process \ {p} : pc'[q] = pc[q]
    /\ \A q \in (Flusher \cup Planner) \ {p} : todo'[q] = todo[q]
    /\ \A q \in Planner \ {p} : plan'[q] = plan[q]

\* A publication that ends has nothing to send.
LEMMA EndPlanMoves ==
    ASSUME IInv, NEW p \in Planner, EndPlan(p)
    PROVE  PlanMoves(p) /\ PlannerOK(p)'
  <1>1. /\ todo' = [todo EXCEPT ![p] = <<>>] /\ plan' = [plan EXCEPT ![p] = NoPlan]
        /\ pc' = [pc EXCEPT ![p] = "idle"]
    BY Zenon DEF EndPlan, Go
  <1>2. /\ todo \in [Flusher \cup Planner -> Seq(Proper)] /\ pc \in [Process -> Places] /\ p \in Process
        /\ plan \in [Planner -> [selected : SUBSET Snapshot, frozen : [Snapshot -> Register]]]
    BY Kinds, Zenon DEF IInv, TypeOK, Messages, Places
  <1>3. NoPlan \in [selected : SUBSET Snapshot, frozen : [Snapshot -> Register]]
    BY BoundAssumption DEF NoPlan, Empty, Register
  <1>4. PlanMoves(p)
    BY <1>1, <1>2, <1>3 DEF PlanMoves, Places
  <1>5. pc'[p] = "idle" /\ todo'[p] = <<>>
    BY <1>1, <1>2, Zenon
  <1>6. Range(<<>>) = {}
    BY DEF Range
  <1> QED
    BY <1>4, <1>5, <1>6, Zenon DEF PlannerOK

\* A step of a publication: it changes the queue only when the lock is free, and
\* neither the clone's registers nor the lock.
LEMMA PlanActsKeeps ==
    ASSUME IInv, NEW p \in Planner, PlanMoves(p), PlannerOK(p)',
           lock = Nobody \/ queue' = queue, queue' \in Seq(Proper), late' \subseteq Proper,
           faults' = faults \/ (faults < MaxFaults /\ faults' = faults + 1),
           remote' \in [Snapshot -> Register], ever' \in [Snapshot -> SUBSET Node], accepted' \subseteq Proper,
           Server', Grows, accepted \subseteq accepted', \A s \in Snapshot : Accounted(s)',
           UNCHANGED <<local, lock, job, reply, fetched, seen, refused, saves, others>>
    PROVE  IInv'
  <1>1. Messages'
    BY Zenon DEF IInv, Messages, PlanMoves
  <1>2. TypeOK'
    <2>1. faults' \in 0..MaxFaults
      BY Numbers, BoundAssumption DEF IInv, TypeOK
    <2>2. /\ todo' \in [Flusher \cup Planner -> Seq(GraftQueueEvent)] /\ accepted' \subseteq GraftQueueEvent
          /\ queue' \in Seq(GraftQueueEvent) /\ late' \subseteq GraftQueueEvent
      BY ProperTypes, Zenon DEF PlanMoves
    <2> QED
      BY <2>1, <2>2, Zenon DEF IInv, TypeOK, PlanMoves, Places
  <1>3. StepOf(p)
    BY Zenon DEF StepOf, PlanMoves
  <1> QED
    BY <1>1, <1>2, <1>3, OneStep, Kinds, Zenon

\* The steps of a publication that touch neither the server nor the queue.
LEMMA PlanQuietKeeps ==
    ASSUME IInv, NEW p \in Planner, PlanMoves(p), PlannerOK(p)', late' \subseteq Proper,
           faults' = faults \/ (faults < MaxFaults /\ faults' = faults + 1),
           UNCHANGED <<remote, ever, accepted, queue, local, lock, job, reply, fetched, seen, refused, saves,
                       others>>
    PROVE  IInv'
  <1>1. Server' /\ Grows /\ accepted \subseteq accepted' /\ remote' \in [Snapshot -> Register]
        /\ ever' \in [Snapshot -> SUBSET Node] /\ accepted' \subseteq Proper
    BY ServerKept, Zenon
  <1>2. \A s \in Snapshot : Accounted(s)'
    BY <1>1, AccountKept, Zenon
  <1>3. queue' \in Seq(Proper)
    BY Zenon DEF IInv, Messages
  <1> QED
    BY <1>1, <1>2, <1>3, PlanActsKeeps, Zenon

\* The events of the selection and the registers are frozen.
LEMMA StartPlanKeeps ==
    ASSUME IInv, NEW p \in Planner, NEW selected \in SUBSET Snapshot, StartPlan(p, selected)
    PROVE  IInv'
  <1>1. /\ Plannable(selected) /\ pc' = [pc EXCEPT ![p] = "check"]
        /\ plan' = [plan EXCEPT ![p] = [selected |-> selected, frozen |-> local]]
        /\ todo' = [todo EXCEPT ![p] = Prefix(selected)]
        /\ UNCHANGED <<remote, local, queue, lock, job, reply, fetched, seen, late, ever, accepted, refused,
                       saves, others, faults>>
    BY Zenon DEF StartPlan, Go, replicas, history, bounds
  <1>2. /\ todo \in [Flusher \cup Planner -> Seq(Proper)] /\ pc \in [Process -> Places] /\ p \in Process
        /\ plan \in [Planner -> [selected : SUBSET Snapshot, frozen : [Snapshot -> Register]]]
        /\ queue \in Seq(Proper) /\ local \in [Snapshot -> Register] /\ late \subseteq Proper
    BY Kinds, Zenon DEF IInv, TypeOK, Messages, Places
  <1>3. Prefix(selected) \in Seq(Proper)
    BY <1>2, Selected, Zenon DEF Prefix
  <1>4. PlanMoves(p)
    BY <1>1, <1>2, <1>3, Zenon DEF PlanMoves, Places
  <1>5. pc'[p] = "check" /\ todo'[p] = Prefix(selected)
    BY <1>1, <1>2, Zenon
  <1>6. \A e \in Range(Prefix(selected)) : ~e.legacy
    <2>1. Range(Prefix(selected)) = {e \in Range(queue) : e.snapshot \in selected}
      BY <1>2, Selected, Zenon DEF Prefix
    <2>2. \A e \in Range(queue) : e.snapshot \in selected => ~e.legacy
      BY <1>1, Zenon DEF Plannable, Range
    <2> QED
      BY <2>1, <2>2, Zenon
  <1>7. PlannerOK(p)'
    BY <1>5, <1>6, Zenon DEF PlannerOK
  <1> QED
    BY <1>1, <1>2, <1>4, <1>7, PlanQuietKeeps, Zenon

\* A publication compares the queue with its plan, fails, dies or pushes its refs.
LEMMA PlanChecksKeeps ==
    ASSUME IInv, NEW p \in Planner,
           CheckHead(p) \/ SendPlannedFails(p) \/ CheckPublicationState(p) \/ Publish(p) \/ PlanStops(p)
    PROVE  IInv'
  <1>0. /\ todo \in [Flusher \cup Planner -> Seq(Proper)] /\ pc \in [Process -> Places] /\ p \in Process
        /\ plan \in [Planner -> [selected : SUBSET Snapshot, frozen : [Snapshot -> Register]]]
        /\ PlannerOK(p) /\ late \subseteq Proper /\ queue \in Seq(Proper)
    BY Kinds, Zenon DEF IInv, TypeOK, Messages, Places
  <1>1. CASE CheckHead(p)
    <2>1. /\ pc[p] = "head"
          /\ (pc' = [pc EXCEPT ![p] = "send"] /\ UNCHANGED <<todo, plan>>) \/ EndPlan(p)
          /\ UNCHANGED <<remote, local, queue, lock, job, reply, fetched, seen, late, ever, accepted, refused,
                         saves, others, faults>>
      BY <1>1, Zenon DEF CheckHead, Go, replicas, history, bounds
    <2>2. CASE pc' = [pc EXCEPT ![p] = "send"] /\ UNCHANGED <<todo, plan>>
      <3>1. PlanMoves(p) /\ pc'[p] = "send" /\ todo'[p] = todo[p]
        BY <1>0, <2>2, Zenon DEF PlanMoves, Places
      <3>2. PlannerOK(p)'
        BY <1>0, <2>1, <3>1, Zenon DEF PlannerOK
      <3> QED
        BY <1>0, <2>1, <3>1, <3>2, PlanQuietKeeps, Zenon
    <2>3. CASE EndPlan(p)
      BY <1>0, <2>1, <2>3, EndPlanMoves, PlanQuietKeeps, Zenon
    <2> QED
      BY <2>1, <2>2, <2>3, Zenon
  <1>2. CASE SendPlannedFails(p)
    <2>1. /\ pc[p] = "send" /\ faults < MaxFaults /\ faults' = faults + 1
          /\ late' = late \cup {Head(todo[p])} /\ EndPlan(p)
          /\ UNCHANGED <<remote, local, queue, lock, job, reply, fetched, seen, ever, accepted, refused,
                         saves, others>>
      BY <1>2, Zenon DEF SendPlannedFails, replicas, history
    <2>2. todo[p] # <<>>
      BY <1>0, <2>1, Zenon DEF PlannerOK
    <2>3. late' \subseteq Proper
      BY <1>0, <2>1, <2>2, HeadOfTodo, Zenon
    <2> QED
      BY <2>1, <2>3, EndPlanMoves, PlanQuietKeeps, Zenon
  <1>3. CASE CheckPublicationState(p)
    <2>1. /\ pc[p] = "check"
          /\ \/ /\ Prefix(plan[p].selected) = todo[p]
                /\ \A s \in plan[p].selected : local[s] = plan[p].frozen[s]
                /\ pc' = [pc EXCEPT ![p] = IF todo[p] = <<>> THEN "publish" ELSE "head"]
                /\ UNCHANGED <<todo, plan>>
             \/ EndPlan(p)
          /\ UNCHANGED <<remote, local, queue, lock, job, reply, fetched, seen, late, ever, accepted, refused,
                         saves, others, faults>>
      BY <1>3, Zenon DEF CheckPublicationState, Go, replicas, history, bounds
    <2>2. CASE /\ Prefix(plan[p].selected) = todo[p]
               /\ \A s \in plan[p].selected : local[s] = plan[p].frozen[s]
               /\ pc' = [pc EXCEPT ![p] = IF todo[p] = <<>> THEN "publish" ELSE "head"]
               /\ UNCHANGED <<todo, plan>>
      <3>1. PlanMoves(p)
        BY <1>0, <2>2, Zenon DEF PlanMoves, Places
      <3>2. pc'[p] = (IF todo[p] = <<>> THEN "publish" ELSE "head") /\ todo'[p] = todo[p] /\ plan'[p] = plan[p]
        BY <1>0, <2>2, Zenon
      <3>3. ASSUME todo[p] = <<>>, NEW s \in plan[p].selected
            PROVE  plan[p].frozen[s].edges \subseteq ever[s]
        <4>1. Range(todo[p]) = {e \in Range(queue) : e.snapshot \in plan[p].selected}
          <5>1. queue \in Seq(Proper) /\ todo[p] = Select(queue, plan[p].selected)
            BY <2>2, Zenon DEF Prefix, IInv, Messages
          <5> QED
            BY <5>1, Selected
        <4>2. Range(<<>>) = {}
          BY DEF Range
        <4>3. Range(todo[p]) = {}
          BY <3>3, <4>2, Zenon
        <4>4. \A e \in Range(queue) : e.snapshot # s
          BY <3>3, <4>1, <4>3, Zenon
        <4>5. s \in Snapshot
          BY <1>0, <3>3, Zenon
        <4>6. \A q \in local[s].edges : q \in ever[s]
          BY <4>4, <4>5, Zenon DEF IInv, Accounted, Covered
        <4> QED
          BY <2>2, <3>3, <4>6, Zenon
      <3>4. PlannerOK(p)'
        BY <1>0, <2>1, <3>2, <3>3, Zenon DEF PlannerOK
      <3> QED
        BY <1>0, <2>1, <3>1, <3>4, PlanQuietKeeps, Zenon
    <2>3. CASE EndPlan(p)
      BY <1>0, <2>1, <2>3, EndPlanMoves, PlanQuietKeeps, Zenon
    <2> QED
      BY <2>1, <2>2, <2>3, Zenon
  <1>4. CASE Publish(p) \/ PlanStops(p)
    <2>1. /\ EndPlan(p)
          /\ faults' = faults \/ (faults < MaxFaults /\ faults' = faults + 1)
          /\ UNCHANGED <<remote, local, queue, lock, job, reply, fetched, seen, late, ever, accepted, refused,
                         saves, others>>
      BY <1>4, Zenon DEF Publish, PlanStops, replicas, history, bounds
    <2> QED
      BY <1>0, <2>1, EndPlanMoves, PlanQuietKeeps, Zenon
  <1> QED
    BY <1>1, <1>2, <1>3, <1>4, Zenon

\* A planned event is sent; a conflict ends the publication.
LEMMA SendPlannedKeeps ==
    ASSUME IInv, NEW p \in Planner, SendPlanned(p)
    PROVE  IInv'
  <1> DEFINE e == Head(todo[p])
             ok == Serve(remote, e).ok
  <1>0. /\ todo \in [Flusher \cup Planner -> Seq(Proper)] /\ pc \in [Process -> Places] /\ p \in Process
        /\ plan \in [Planner -> [selected : SUBSET Snapshot, frozen : [Snapshot -> Register]]]
        /\ PlannerOK(p) /\ late \subseteq Proper /\ queue \in Seq(Proper)
    BY Kinds, Zenon DEF IInv, TypeOK, Messages, Places
  <1>1. /\ pc[p] = "send" /\ Served(e)
        /\ (ok /\ pc' = [pc EXCEPT ![p] = "ack"] /\ UNCHANGED <<todo, plan>>) \/ EndPlan(p)
        /\ UNCHANGED <<local, queue, lock, job, reply, fetched, seen, late, refused, saves, others, faults>>
    BY Zenon DEF SendPlanned, Go, bounds
  <1>2. todo[p] # <<>>
    BY <1>0, <1>1, Zenon DEF PlannerOK
  <1>3. e \in Proper
    BY <1>2, HeadOfTodo, Zenon
  <1>4. /\ remote' \in [Snapshot -> Register] /\ ever' \in [Snapshot -> SUBSET Node]
        /\ accepted' \subseteq Proper
        /\ Grows /\ accepted \subseteq accepted' /\ Server'
        /\ ok => e \in accepted'
    BY <1>1, <1>3, ServedKeeps, Zenon
  <1> HIDE DEF ok, e
  <1>5. \A s \in Snapshot : Accounted(s)'
    BY <1>1, <1>4, AccountKept, Zenon
  <1>6. CASE ok /\ pc' = [pc EXCEPT ![p] = "ack"] /\ UNCHANGED <<todo, plan>>
    <2>1. PlanMoves(p) /\ pc'[p] = "ack" /\ todo'[p] = todo[p]
      BY <1>0, <1>6, Zenon DEF PlanMoves, Places
    <2>2. Head(todo'[p]) = e
      BY <2>1, Zenon DEF e
    <2>3. PlannerOK(p)'
      BY <1>0, <1>2, <1>4, <1>6, <2>1, <2>2, Zenon DEF PlannerOK
    <2> QED
      BY <1>0, <1>1, <1>4, <1>5, <2>1, <2>3, PlanActsKeeps, Zenon
  <1>7. CASE EndPlan(p)
    BY <1>0, <1>1, <1>4, <1>5, <1>7, EndPlanMoves, PlanActsKeeps, Zenon
  <1> QED
    BY <1>1, <1>6, <1>7, Zenon

\* An accepted planned event leaves the queue.
LEMMA AckPlannedKeeps ==
    ASSUME IInv, NEW p \in Planner, AckPlanned(p)
    PROVE  IInv'
  <1> DEFINE e == Head(todo[p])
  <1>0. /\ todo \in [Flusher \cup Planner -> Seq(Proper)] /\ pc \in [Process -> Places] /\ p \in Process
        /\ plan \in [Planner -> [selected : SUBSET Snapshot, frozen : [Snapshot -> Register]]]
        /\ PlannerOK(p) /\ late \subseteq Proper /\ queue \in Seq(Proper)
    BY Kinds, Zenon DEF IInv, TypeOK, Messages, Places
  <1>1. /\ pc[p] = "ack" /\ lock = Nobody
        /\ \/ /\ queue # <<>> /\ queue[1] = e /\ queue' = Tail(queue)
              /\ todo' = [todo EXCEPT ![p] = Tail(todo[p])]
              /\ pc' = [pc EXCEPT ![p] = IF Len(todo[p]) = 1 THEN "check" ELSE "head"]
              /\ UNCHANGED plan
           \/ EndPlan(p) /\ UNCHANGED queue
        /\ UNCHANGED <<remote, local, lock, job, reply, fetched, seen, late, ever, accepted, refused,
                       saves, others, faults>>
    BY Zenon DEF AckPlanned, Go, replicas, history, bounds
  <1>2. todo[p] # <<>> /\ e \in accepted /\ \A d \in Range(todo[p]) : ~d.legacy
    BY <1>0, <1>1, Zenon DEF PlannerOK
  <1>3. e \in Proper /\ ~e.legacy
    BY <1>2, HeadOfTodo, Zenon
  <1> HIDE DEF e
  <1>4. CASE EndPlan(p) /\ UNCHANGED queue
    BY <1>0, <1>1, <1>4, EndPlanMoves, PlanQuietKeeps, Zenon
  <1>5. CASE /\ queue # <<>> /\ queue[1] = e /\ queue' = Tail(queue)
             /\ todo' = [todo EXCEPT ![p] = Tail(todo[p])]
             /\ pc' = [pc EXCEPT ![p] = IF Len(todo[p]) = 1 THEN "check" ELSE "head"]
             /\ UNCHANGED plan
    <2>1. queue' \in Seq(Proper) /\ Range(queue) \subseteq Range(queue') \cup {e}
      BY <1>5, HeadOfQueue, Zenon
    <2>2. todo[p] \in Seq(Proper) /\ Tail(todo[p]) \in Seq(Proper) /\ Range(Tail(todo[p])) \subseteq Range(todo[p])
      BY <1>0, <1>2, Elements
    <2>3. PlanMoves(p)
      BY <1>0, <1>5, <2>2, Zenon DEF PlanMoves, Places
    <2>4. pc'[p] = (IF Len(todo[p]) = 1 THEN "check" ELSE "head") /\ todo'[p] = Tail(todo[p])
      BY <1>0, <1>5, Zenon
    <2>5. Len(todo[p]) # 1 => Tail(todo[p]) # <<>>
      BY <1>2, <2>2, TailLeft, Zenon
    <2>6. PlannerOK(p)'
      BY <1>2, <2>2, <2>4, <2>5, Zenon DEF PlannerOK
    <2>7. Server' /\ Grows /\ accepted \subseteq accepted' /\ remote' \in [Snapshot -> Register]
          /\ ever' \in [Snapshot -> SUBSET Node] /\ accepted' \subseteq Proper
      BY <1>1, ServerKept, Zenon
    <2>8. \A s \in Snapshot : Accounted(s)'
      BY <1>1, <1>2, <1>3, <2>1, AccountSettled, Zenon
    <2> QED
      BY <1>0, <1>1, <2>1, <2>3, <2>6, <2>7, <2>8, PlanActsKeeps, Zenon
  <1> QED
    BY <1>1, <1>4, <1>5, Zenon

-----------------------------------------------------------------------------
(* Pulls, the network and the other writers.                               *)

\* A step that no process takes.
LEMMA OutsideKeeps ==
    ASSUME IInv, UNCHANGED <<queue, lock, pc, job, todo, reply, fetched, plan, refused, saves, faults>>,
           others' \in 0..MaxOthers, late' \subseteq Proper,
           seen' \in [Snapshot -> Register \cup {NoRegister}], local' \in [Snapshot -> Register],
           remote' \in [Snapshot -> Register], ever' \in [Snapshot -> SUBSET Node], accepted' \subseteq Proper,
           Server', Grows, accepted \subseteq accepted', \A s \in Snapshot : Accounted(s)',
           \/ local' = local
           \/ \A s \in Snapshot : Known(local[s], s) => Known(local[s], s)' /\ local[s].seq <= local'[s].seq
    PROVE  IInv'
  <1>1. Messages'
    BY Zenon DEF IInv, Messages
  <1>2. TypeOK'
    <2>1. accepted' \subseteq GraftQueueEvent /\ late' \subseteq GraftQueueEvent
      BY ProperTypes, Zenon
    <2> QED
      BY <2>1, Zenon DEF IInv, TypeOK
  <1>3. StepOf(Nobody)
    BY Zenon DEF StepOf
  <1> QED
    BY <1>1, <1>2, <1>3, OneStep, Kinds, Zenon

\* A pull reads the server's register.
LEMMA PullReadKeeps ==
    ASSUME IInv, NEW s \in Snapshot, PullRead(s)
    PROVE  IInv'
  <1>1. /\ seen' = [seen EXCEPT ![s] = remote[s]]
        /\ UNCHANGED <<remote, local, queue, lock, pc, job, todo, reply, fetched, plan, late, ever, accepted,
                       refused, saves, others, faults>>
    BY Zenon DEF PullRead, replicas, pushing, history, bounds
  <1>2. /\ seen \in [Snapshot -> Register \cup {NoRegister}] /\ remote \in [Snapshot -> Register]
        /\ late \subseteq Proper /\ local \in [Snapshot -> Register] /\ ever \in [Snapshot -> SUBSET Node]
        /\ accepted \subseteq Proper /\ others \in 0..MaxOthers
    BY Zenon DEF IInv, TypeOK, Messages
  <1>3. \A t \in Snapshot : seen'[t] = IF t = s THEN remote[s] ELSE seen[t]
    BY <1>1, <1>2, Zenon
  <1>4. Server'
    <2>1. \A t \in Snapshot : Known(remote[t], t) /\ (seen[t] # NoRegister => Known(seen[t], t))
      BY Zenon DEF IInv, Server
    <2>2. \A t \in Snapshot : Known(remote[t], t)' /\ (seen'[t] # NoRegister => Known(seen[t], t)')
      BY <1>1, <1>3, <2>1, Zenon DEF Known
    <2> QED
      BY <1>1, <2>2, Zenon DEF IInv, Server
  <1>5. Grows
    <2>1. \A t \in Snapshot : remote[t].seq \in Nat
      BY <1>2, Fields, Zenon
    <2> QED
      BY <1>1, <2>1, Numbers, Zenon DEF Grows
  <1>6. \A t \in Snapshot : Accounted(t)'
    BY <1>1, <1>2, <1>5, AccountKept, Zenon
  <1>7. seen' \in [Snapshot -> Register \cup {NoRegister}]
    BY <1>1, <1>2, Zenon
  <1> QED
    BY <1>1, <1>2, <1>4, <1>5, <1>6, <1>7, OutsideKeeps, Zenon

\* A pull merges what it has read, without the lock of the queue.
LEMMA PullApplyKeeps ==
    ASSUME IInv, NEW s \in Snapshot, PullApply(s)
    PROVE  IInv'
  <1> DEFINE m == Merge(local[s], seen[s])
  <1>1. /\ seen[s] # NoRegister
        /\ local' = [local EXCEPT ![s] = m] /\ seen' = [seen EXCEPT ![s] = NoRegister]
        /\ UNCHANGED <<remote, queue, lock, pc, job, todo, reply, fetched, plan, late, ever, accepted,
                       refused, saves, others, faults>>
    BY Zenon DEF PullApply, pushing, history, bounds
  <1>2. /\ seen \in [Snapshot -> Register \cup {NoRegister}] /\ remote \in [Snapshot -> Register]
        /\ late \subseteq Proper /\ local \in [Snapshot -> Register] /\ ever \in [Snapshot -> SUBSET Node]
        /\ accepted \subseteq Proper /\ others \in 0..MaxOthers
    BY Zenon DEF IInv, TypeOK, Messages
  <1>3. seen[s] \in Register /\ local[s] \in Register /\ Known(seen[s], s)
    BY <1>1, <1>2, Zenon DEF IInv, Server
  <1>4. /\ m \in Register /\ local[s].seq <= m.seq
        /\ m.edges \subseteq local[s].edges \cup seen[s].edges
        /\ \/ m = local[s]
           \/ m = seen[s]
           \/ /\ local[s].seq = 0 /\ seen[s].seq = 0
              /\ m = [edges |-> local[s].edges \cup seen[s].edges, seq |-> 0]
    BY <1>3, MergeDef, Zenon
  <1>5. m = local[s] \/ m = seen[s]
    <2>1. seen[s].seq = 0 => seen[s].edges = {}
      BY <1>3, Zenon DEF Known
    <2>2. local[s] = [edges |-> local[s].edges, seq |-> local[s].seq]
      BY <1>3, Zenon DEF Register
    <2> QED
      BY <1>4, <2>1, <2>2, Zenon
  <1> HIDE DEF m
  <1>6. /\ local' \in [Snapshot -> Register]
        /\ \A t \in Snapshot : local'[t] = IF t = s THEN m ELSE local[t]
        /\ seen' \in [Snapshot -> Register \cup {NoRegister}]
        /\ \A t \in Snapshot : seen'[t] = IF t = s THEN NoRegister ELSE seen[t]
    BY <1>1, <1>2, <1>4, Zenon
  <1>7. Server'
    BY <1>1, <1>6, Zenon DEF IInv, Server, Known
  <1>8. Grows
    <2>1. \A t \in Snapshot : remote[t].seq \in Nat
      BY <1>2, Fields, Zenon
    <2> QED
      BY <1>1, <2>1, Numbers, Zenon DEF Grows
  <1>9. ASSUME NEW t \in Snapshot
        PROVE  Accounted(t)'
    <2>1. CASE local'[t] = local[t]
      BY <1>1, <1>2, <1>8, <2>1, AccountKept, Zenon
    <2>2. CASE t = s /\ m = seen[s]
      <3>1. Known(local[t], t)'
        BY <1>1, <1>3, <1>6, <2>2, Zenon DEF Known
      <3> QED
        BY <3>1, Zenon DEF Known, Accounted, Covered
    <2> QED
      BY <1>5, <1>6, <2>1, <2>2, Zenon
  <1>10. ASSUME NEW t \in Snapshot, Known(local[t], t)
         PROVE  Known(local[t], t)' /\ local[t].seq <= local'[t].seq
    <2>1. local[t].seq \in Nat
      BY <1>2, BoundAssumption DEF Register
    <2>2. CASE local'[t] = local[t]
      BY <1>1, <1>10, <2>1, <2>2, Numbers, Zenon DEF Known
    <2>3. CASE t = s /\ m = seen[s]
      BY <1>1, <1>3, <1>4, <1>6, <2>3, Zenon DEF Known
    <2> QED
      BY <1>5, <1>6, <2>2, <2>3, Zenon
  <1> QED
    BY <1>1, <1>2, <1>6, <1>7, <1>8, <1>9, <1>10, OutsideKeeps, Zenon

\* A request nobody waits for arrives or is lost.
LEMMA NetworkKeeps ==
    ASSUME IInv, NEW e \in late, ArriveLate(e) \/ LoseLate(e)
    PROVE  IInv'
  <1>1. /\ seen \in [Snapshot -> Register \cup {NoRegister}] /\ remote \in [Snapshot -> Register]
        /\ late \subseteq Proper /\ local \in [Snapshot -> Register] /\ others \in 0..MaxOthers
    BY Zenon DEF IInv, TypeOK, Messages
  <1>2. CASE ArriveLate(e)
    <2>1. /\ late' = late \ {e} /\ Served(e)
          /\ UNCHANGED <<local, queue, lock, pc, job, todo, reply, fetched, plan, seen, refused, saves, others,
                         faults>>
      BY <1>2, Zenon DEF ArriveLate, pushing, bounds
    <2>2. e \in Proper
      BY <1>1, Zenon
    <2>3. /\ remote' \in [Snapshot -> Register] /\ ever' \in [Snapshot -> SUBSET Node]
          /\ accepted' \subseteq Proper /\ Grows /\ accepted \subseteq accepted' /\ Server'
      BY <2>1, <2>2, ServedKeeps, Zenon
    <2>4. \A s \in Snapshot : Accounted(s)'
      BY <2>1, <2>3, AccountKept, Zenon
    <2> QED
      BY <1>1, <2>1, <2>3, <2>4, OutsideKeeps, Zenon
  <1>3. CASE LoseLate(e)
    <2>1. /\ late' = late \ {e}
          /\ UNCHANGED <<remote, local, queue, lock, pc, job, todo, reply, fetched, plan, seen, ever, accepted,
                         refused, saves, others, faults>>
      BY <1>3, Zenon DEF LoseLate, replicas, pushing, history, bounds
    <2>2. Server' /\ Grows /\ accepted \subseteq accepted' /\ remote' \in [Snapshot -> Register]
          /\ ever' \in [Snapshot -> SUBSET Node] /\ accepted' \subseteq Proper
      BY <2>1, ServerKept, Zenon
    <2>3. \A s \in Snapshot : Accounted(s)'
      BY <2>1, <2>2, AccountKept, Zenon
    <2> QED
      BY <1>1, <2>1, <2>2, <2>3, OutsideKeeps, Zenon
  <1> QED
    BY <1>2, <1>3, Zenon

\* Another client or a join writes the server's register.
LEMMA ForeignKeeps ==
    ASSUME IInv, NEW s \in Snapshot, NEW E \in SUBSET Node, Foreign(s, E)
    PROVE  IInv'
  <1>1. /\ others < MaxOthers /\ remote[s].seq < MaxGraftSeq /\ others' = others + 1
        /\ remote' = [remote EXCEPT ![s] = [edges |-> E, seq |-> remote[s].seq + 1]]
        /\ ever' = [ever EXCEPT ![s] = ever[s] \cup E]
        /\ UNCHANGED <<local, queue, lock, pc, job, todo, reply, fetched, plan, seen, late, accepted, refused,
                       saves, faults>>
    BY Zenon DEF Foreign, pushing
  <1>2. /\ seen \in [Snapshot -> Register \cup {NoRegister}] /\ remote \in [Snapshot -> Register]
        /\ late \subseteq Proper /\ local \in [Snapshot -> Register] /\ ever \in [Snapshot -> SUBSET Node]
        /\ accepted \subseteq Proper /\ others \in 0..MaxOthers
    BY Zenon DEF IInv, TypeOK, Messages
  <1> DEFINE reg == [edges |-> E, seq |-> remote[s].seq + 1]
  <1>3. \A t \in Snapshot : remote[t].seq \in Nat /\ remote[t] \in Register
    BY <1>2, BoundAssumption DEF Register
  <1>4. reg \in Register /\ reg.seq = remote[s].seq + 1 /\ reg.edges = E
    BY <1>1, <1>3, BoundAssumption DEF Register
  <1> HIDE DEF reg
  <1>5. /\ remote' \in [Snapshot -> Register] /\ ever' \in [Snapshot -> SUBSET Node]
        /\ \A t \in Snapshot : /\ remote'[t] = IF t = s THEN reg ELSE remote[t]
                               /\ ever'[t] = IF t = s THEN ever[s] \cup E ELSE ever[t]
    BY <1>1, <1>2, <1>4, Zenon DEF reg
  <1>6. Grows
    <2>1. ASSUME NEW t \in Snapshot
          PROVE  ever[t] \subseteq ever'[t] /\ remote[t].seq <= remote'[t].seq
      <3>1. CASE t = s
        <4>1. remote'[t].seq = remote[t].seq + 1 /\ ever'[t] = ever[t] \cup E /\ remote[t].seq \in Nat
          BY <1>3, <1>4, <1>5, <3>1, Zenon
        <4> QED
          BY <4>1, Numbers, Zenon
      <3>2. CASE t # s
        <4>1. remote'[t] = remote[t] /\ ever'[t] = ever[t] /\ remote[t].seq \in Nat
          BY <1>3, <1>5, <3>2, Zenon
        <4> QED
          BY <4>1, Numbers, Zenon
      <3> QED
        BY <3>1, <3>2, Zenon
    <2> QED
      BY <2>1, Zenon DEF Grows
  <1>7. Server'
    <2>1. ASSUME NEW t \in Snapshot
          PROVE  Known(remote[t], t)'
      <3>1. CASE t = s
        <4>1. remote'[t].edges = E /\ remote'[t].seq = remote[s].seq + 1 /\ E \subseteq ever'[t]
          BY <1>4, <1>5, <3>1, Zenon
        <4>2. remote'[t].seq \in Nat /\ remote'[t].seq # 0
          BY <1>3, <4>1
        <4> QED
          BY <4>1, <4>2 DEF Known
      <3>2. CASE t # s
        BY <1>5, <3>2, Zenon DEF IInv, Server, Known
      <3> QED
        BY <3>1, <3>2, Zenon
    <2>2. ASSUME NEW t \in Snapshot, seen'[t] # NoRegister
          PROVE  Known(seen[t], t)'
      <3>1. seen[t] \in Register /\ Known(seen[t], t) /\ seen'[t] = seen[t] /\ remote'[t] \in Register
        BY <1>1, <1>2, <1>5, <2>2, Zenon DEF IInv, Server
      <3>2. seen[t].seq \in Nat /\ remote[t].seq \in Nat /\ remote'[t].seq \in Nat
        BY <1>3, <3>1, Fields, Zenon
      <3> QED
        BY <1>6, <3>1, <3>2, Numbers DEF Known, Grows
    <2>3. ASSUME NEW e \in accepted
          PROVE  e.parents \subseteq ever'[e.snapshot] /\ e.expected < remote'[e.snapshot].seq
      <3>1. e.snapshot \in Snapshot /\ e.expected \in Nat
        BY <1>2, BoundAssumption DEF Proper, GraftQueueEvent
      <3>2. e.parents \subseteq ever[e.snapshot] /\ e.expected < remote[e.snapshot].seq
        BY Zenon DEF IInv, Server
      <3>3. remote[e.snapshot].seq \in Nat /\ remote'[e.snapshot].seq \in Nat
        BY <1>3, <1>5, <3>1, BoundAssumption DEF Register
      <3> QED
        BY <1>6, <3>1, <3>2, <3>3, Numbers DEF Grows
    <2> QED
      BY <1>1, <2>1, <2>2, <2>3, Zenon DEF Server
  <1>8. \A t \in Snapshot : Accounted(t)'
    BY <1>1, <1>5, <1>6, AccountKept, Zenon
  <1>9. others' \in 0..MaxOthers
    BY <1>1, <1>2, BoundAssumption
  <1> QED
    BY <1>1, <1>2, <1>5, <1>6, <1>7, <1>8, <1>9, OutsideKeeps, Zenon

-----------------------------------------------------------------------------
(* The theorems.                                                           *)

\* The invariant holds before the first step: the edges an older version left
\* without a number have their legacy events.
LEMMA InitHolds == Init => IInv
  <1> SUFFICES ASSUME Init PROVE IInv
    BY Zenon
  <1>1. /\ queue \in InitialQueue /\ remote = [s \in Snapshot |-> Empty] /\ lock = Nobody
        /\ pc = [p \in Process |-> "idle"] /\ job = [v \in Saver |-> NoJob]
        /\ todo = [p \in Flusher \cup Planner |-> <<>>] /\ reply = [p \in Flusher |-> "ok"]
        /\ fetched = [p \in Flusher |-> NoRegister] /\ plan = [p \in Planner |-> NoPlan]
        /\ seen = [s \in Snapshot |-> NoRegister] /\ late = {}
        /\ ever = [s \in Snapshot |-> {}] /\ accepted = {} /\ refused = {}
        /\ saves = 0 /\ others = 0 /\ faults = 0
    BY Zenon DEF Init
  <1> DEFINE Old(s) == UNION {queue[i].parents : i \in {j \in DOMAIN queue : queue[j].snapshot = s}}
  <1>2. local = [s \in Snapshot |-> [edges |-> Old(s), seq |-> 0]]
    BY Zenon DEF Init
  <1>3. /\ queue \in Seq(GraftQueueEvent)
        /\ \A i \in DOMAIN queue : queue[i].legacy /\ queue[i].expected = 0 /\ queue[i].snapshot \notin queue[i].parents
    BY <1>1, InitialAssumption, Zenon
  <1>4. queue \in Seq(Proper)
    <2>1. \A i \in 1..Len(queue) : queue[i] \in Proper
      BY <1>3 DEF Proper
    <2> QED
      BY <1>3, <2>1
  <1>5. ASSUME NEW s \in Snapshot, NEW p \in Old(s)
        PROVE  p \in Node
    <2>1. PICK i \in DOMAIN queue : p \in queue[i].parents
      BY <1>5, Zenon
    <2>2. queue[i] \in GraftQueueEvent
      BY <1>3
    <2> QED
      BY <2>1, <2>2, Zenon DEF GraftQueueEvent
  <1>6. \A s \in Snapshot : \A p \in Old(s) : \E e \in Range(queue) : e.snapshot = s /\ p \in e.parents /\ e.legacy
    BY <1>3, Zenon DEF Range
  <1> HIDE DEF Old
  <1>7. Empty \in Register /\ NoPlan \in [selected : SUBSET Snapshot, frozen : [Snapshot -> Register]]
    BY BoundAssumption DEF Empty, Register, NoPlan
  <1>8. local \in [Snapshot -> Register]
    BY <1>2, <1>5, BoundAssumption DEF Register
  <1>9. TypeOK
    <2>1. /\ remote \in [Snapshot -> Register] /\ seen \in [Snapshot -> Register \cup {NoRegister}]
          /\ ever \in [Snapshot -> SUBSET Node] /\ lock \in Process \cup {Nobody}
          /\ fetched \in [Flusher -> Register \cup {NoRegister}] /\ reply \in [Flusher -> {"ok", "conflict"}]
          /\ plan \in [Planner -> [selected : SUBSET Snapshot, frozen : [Snapshot -> Register]]]
          /\ job \in [Saver -> [snapshot : Snapshot, parent : Node, base : Register] \cup {NoJob}]
      BY <1>1, <1>7, Zenon
    <2>2. todo \in [Flusher \cup Planner -> Seq(GraftQueueEvent)]
      BY <1>1
    <2>3. pc \in [Process -> {"idle", "enqueue", "put", "move", "send", "get", "settle", "drop",
                              "head", "ack", "check", "publish"}]
      BY <1>1, Zenon
    <2>4. late \subseteq GraftQueueEvent /\ accepted \subseteq GraftQueueEvent /\ refused \subseteq GraftQueueEvent
      BY <1>1, Zenon
    <2>5. saves \in 0..MaxSaves /\ others \in 0..MaxOthers /\ faults \in 0..MaxFaults
      BY <1>1, Numbers, BoundAssumption, Zenon
    <2> QED
      BY <1>3, <1>8, <2>1, <2>2, <2>3, <2>4, <2>5, Zenon DEF TypeOK
  <1>10. Messages
    BY <1>1, <1>4 DEF Messages
  <1>11. Server
    <2>1. Empty.edges = {} /\ Empty.seq = 0 /\ 0 <= 0
      BY DEF Empty
    <2>2. \A s \in Snapshot : remote[s] = Empty /\ seen[s] = NoRegister /\ ever[s] = {}
      BY <1>1, Zenon
    <2> QED
      BY <1>1, <2>1, <2>2, Zenon DEF Server, Known
  <1>12. \A v \in Saver : SaverOK(v)
    BY <1>1, Kinds, Zenon DEF SaverOK
  <1>13. \A f \in Flusher : FlusherOK(f)
    BY <1>1, Kinds, Zenon DEF FlusherOK
  <1>14. ASSUME NEW p \in Planner
         PROVE  PlannerOK(p)
    <2>1. pc[p] = "idle" /\ todo[p] = <<>>
      BY <1>1, Kinds, Zenon
    <2>2. Range(<<>>) = {}
      BY DEF Range
    <2> QED
      BY <2>1, <2>2, Zenon DEF PlannerOK
  <1>15. ASSUME NEW s \in Snapshot
         PROVE  Accounted(s)
    <2>1. local[s].edges = Old(s) /\ local[s].seq = 0 /\ remote[s].seq = 0
      BY <1>1, <1>2, Zenon DEF Empty
    <2> QED
      BY <1>6, <2>1 DEF Accounted, Covered
  <1> QED
    BY <1>9, <1>10, <1>11, <1>12, <1>13, <1>14, <1>15, Zenon DEF IInv

\* Every step of every process keeps the invariant.
LEMMA NextKeeps == IInv /\ [Next]_vars => IInv'
  <1> SUFFICES ASSUME IInv, [Next]_vars PROVE IInv'
    BY Zenon
  <1>1. ASSUME NEW v \in Saver, Save(v)
        PROVE  IInv'
    BY <1>1, StartGraftKeeps, EnqueueKeeps, PutGraftKeeps, SaveEndsKeeps, Zenon DEF Save
  <1>2. ASSUME NEW f \in Flusher, Flush(f)
        PROVE  IInv'
    BY <1>2, FlushReadsKeeps, SendKeeps, SettleKeeps, DropKeeps, Zenon DEF Flush
  <1>3. ASSUME NEW p \in Planner, PublishSelected(p)
        PROVE  IInv'
    BY <1>3, StartPlanKeeps, PlanChecksKeeps, SendPlannedKeeps, AckPlannedKeeps, Zenon DEF PublishSelected
  <1>4. ASSUME Pull
        PROVE  IInv'
    BY <1>4, PullReadKeeps, PullApplyKeeps, Zenon DEF Pull
  <1>5. ASSUME Network
        PROVE  IInv'
    BY <1>5, NetworkKeeps, Zenon DEF Network
  <1>6. ASSUME NEW s \in Snapshot, NEW E \in SUBSET Node, OtherGraft(s, E) \/ JoinGraft(s, E)
        PROVE  IInv'
    <2>1. CASE OtherGraft(s, E)
      <3>1. remote[s].edges \cup E \in SUBSET Node
        BY Zenon DEF IInv, TypeOK, Register
      <3>2. Foreign(s, remote[s].edges \cup E)
        BY <2>1, Zenon DEF OtherGraft
      <3> QED
        BY <3>1, <3>2, ForeignKeeps, Zenon
    <2>2. CASE JoinGraft(s, E)
      BY <2>2, ForeignKeeps, Zenon DEF JoinGraft
    <2> QED
      BY <1>6, <2>1, <2>2, Zenon
  <1>7. CASE UNCHANGED vars
    <2>1. UNCHANGED <<remote, local, queue, lock, pc, job, todo, reply, fetched, plan, seen, late, ever,
                      accepted, refused, saves, others, faults>>
      BY <1>7, Zenon DEF vars, replicas, pushing, history, bounds
    <2>2. Server' /\ Grows /\ accepted \subseteq accepted' /\ remote' \in [Snapshot -> Register]
          /\ ever' \in [Snapshot -> SUBSET Node] /\ accepted' \subseteq Proper
      BY <2>1, ServerKept, Zenon
    <2>3. \A s \in Snapshot : Accounted(s)'
      BY <2>1, <2>2, AccountKept, Zenon
    <2>4. /\ seen \in [Snapshot -> Register \cup {NoRegister}] /\ late \subseteq Proper
          /\ local \in [Snapshot -> Register] /\ others \in 0..MaxOthers
      BY Zenon DEF IInv, TypeOK, Messages
    <2> QED
      BY <2>1, <2>2, <2>3, <2>4, OutsideKeeps, Zenon
  <1> QED
    BY <1>1, <1>2, <1>3, <1>4, <1>5, <1>6, <1>7, Zenon DEF Next, OtherWriters

\* The invariant holds in every state.
THEOREM Invariance == Spec => []IInv
  BY InitHolds, NextKeeps, PTL DEF Spec

\* No register of the server or of the clone ever passes the last sequence
\* number, and every message has its type (addGraftParents, putSnapshotLocked).
THEOREM TypeCorrect == Spec => []TypeOK
  <1>1. IInv => TypeOK
    BY Zenon DEF IInv
  <1> QED
    BY <1>1, Invariance, PTL

\* An edge of the clone is queued for the server or has been in its register,
\* whatever died between the event and the edge (graftLocalAndQueueChecked,
\* flushGrafts).
THEOREM EdgesAnnounced == Spec => []EdgeHasEvent
  <1>1. IInv => EdgeHasEvent
    BY QueuedForDef, Zenon DEF IInv, Accounted, Covered, EdgeHasEvent
  <1> QED
    BY <1>1, Invariance, PTL

\* A pull makes a register with nothing queued the server's, however pushes,
\* conflicts, late requests and pulls have crossed (addGraftParents,
\* putSnapshotLocked, ReconcileGraftState).
THEOREM DrainedIsShared == Spec => []DrainedMeansShared
  <1>1. ASSUME IInv, NEW s \in Snapshot, QueuedFor(s) = {}
        PROVE  Merge(local[s], remote[s]) = remote[s]
    <2>1. local[s] \in Register /\ remote[s] \in Register
      BY <1>1, Zenon DEF IInv, TypeOK
    <2>2. \A e \in Range(queue) : e.snapshot # s
      BY <1>1, QueuedForDef, Zenon
    <2>3. /\ local[s].seq <= remote[s].seq
          /\ local[s].seq = 0 => local[s].edges = {}
          /\ remote[s].seq = 0 => remote[s].edges = {}
      BY <1>1, <2>2 DEF IInv, Accounted, Server, Known
    <2>4. local[s].seq \in Nat /\ remote[s].seq \in Nat
      BY <2>1, BoundAssumption DEF Register
    <2>5. CASE remote[s].seq # 0 \/ local[s].seq # 0
      BY <2>3, <2>4, <2>5 DEF Merge
    <2>6. CASE remote[s].seq = 0 /\ local[s].seq = 0
      <3>1. local[s] = [edges |-> {}, seq |-> 0] /\ remote[s] = [edges |-> {}, seq |-> 0]
        BY <2>1, <2>3, <2>6, Zenon DEF Register
      <3> QED
        BY <3>1, Zenon DEF Merge
    <2> QED
      BY <2>5, <2>6, Zenon
  <1>2. IInv => DrainedMeansShared
    BY <1>1, Zenon DEF DrainedMeansShared
  <1> QED
    BY <1>2, Invariance, PTL

\* A publication pushes its refs only over edges the server has held
\* (executePublicationGrafts, checkPublicationState).
THEOREM PublicationShared == Spec => []PublishedGraphIsShared
  <1>1. IInv => PublishedGraphIsShared
    BY Zenon DEF IInv, PlannerOK, PublishedGraphIsShared
  <1> QED
    BY <1>1, Invariance, PTL

\* An event leaves the queue only when the server has accepted it or with a
\* reported conflict (flushGrafts, executePublicationGrafts).
THEOREM NothingLeavesUnreported == Spec => NothingDropped
  <1> DEFINE Reported == Range(queue) \ Range(queue') \subseteq accepted' \cup refused'
  <1>1. ASSUME IInv, [Next]_vars
        PROVE  Reported
    <2>1. CASE Range(queue) \subseteq Range(queue')
      BY <2>1, Zenon
    <2>2. ASSUME NEW v \in Saver, Save(v)
          PROVE  Reported
      <3>1. CASE Enqueue(v)
        <4>1. queue' = queue \/ queue' = Append(queue, JobEvent(job[v]))
          BY <3>1, Zenon DEF Enqueue
        <4>2. job[v] \in [snapshot : Snapshot, parent : Node, base : Register]
              /\ job[v].parent # job[v].snapshot
          BY <1>1, <3>1, Zenon DEF IInv, SaverOK, Enqueue
        <4>3. JobEvent(job[v]) \in Proper /\ queue \in Seq(Proper)
          BY <1>1, <4>2, Zenon DEF JobEvent, Proper, GraftQueueEvent, Register, IInv, Messages
        <4>4. Range(queue) \subseteq Range(Append(queue, JobEvent(job[v])))
          BY <4>3, Elements
        <4> QED
          BY <2>1, <4>1, <4>4, Zenon
      <3>2. CASE ~Enqueue(v)
        <4>1. queue' = queue
          BY <2>2, <3>2, Zenon DEF Save, StartGraft, PutGraft, MoveRef, SaveStops
        <4> QED
          BY <2>1, <4>1, Zenon
      <3> QED
        BY <3>1, <3>2, Zenon
    <2>3. ASSUME NEW f \in Flusher, Flush(f)
          PROVE  Reported
      <3> DEFINE e == Head(todo[f])
      <3>0. FlusherOK(f)
        BY <1>1, Zenon DEF IInv
      <3>1. CASE Settle(f)
        <4>1. \/ queue' = queue
              \/ /\ Queued(e) /\ queue[1] = e /\ fetched[f] = NoRegister /\ queue' = Tail(queue)
                 /\ pc[f] = "settle"
          BY <3>1, Zenon DEF Settle
        <4>2. accepted' = accepted
          BY <3>1, Zenon DEF Settle, history
        <4>3. CASE Queued(e) /\ queue[1] = e /\ fetched[f] = NoRegister /\ queue' = Tail(queue) /\ pc[f] = "settle"
          <5>1. e \in accepted
            BY <3>0, <4>3, Zenon DEF FlusherOK
          <5>2. queue # <<>>
            BY <4>3 DEF Queued
          <5> HIDE DEF e
          <5> QED
            BY <1>1, <4>2, <4>3, <5>1, <5>2, HeadOfQueue, Zenon
        <4> QED
          BY <2>1, <4>1, <4>3, Zenon
      <3>2. CASE Drop(f)
        <4>1. \/ queue' = Kept(e) /\ refused' = refused \cup (Range(queue) \ Range(Kept(e)))
              \/ reply[f] # "conflict" /\ queue' = Tail(queue)
          BY <3>2, Zenon DEF Drop
        <4>2. accepted' = accepted /\ pc[f] = "drop"
          BY <3>2, Zenon DEF Drop
        <4>3. queue # <<>> /\ queue[1] = e /\ (reply[f] # "conflict" => e \in accepted)
          BY <1>1, <3>0, <4>2, Zenon DEF FlusherOK, IInv, TypeOK
        <4> HIDE DEF e
        <4>4. CASE queue' = Kept(e) /\ refused' = refused \cup (Range(queue) \ Range(Kept(e)))
          BY <4>4, Zenon
        <4>5. CASE reply[f] # "conflict" /\ queue' = Tail(queue)
          BY <1>1, <4>2, <4>3, <4>5, HeadOfQueue, Zenon
        <4> QED
          BY <4>1, <4>4, <4>5, Zenon
      <3>3. CASE ~Settle(f) /\ ~Drop(f)
        <4>1. queue' = queue
          BY <2>3, <3>3, Zenon DEF Flush, StartFlush, Send, SendFails, FetchRegister, FlushStops
        <4> QED
          BY <2>1, <4>1, Zenon
      <3> QED
        BY <3>1, <3>2, <3>3, Zenon
    <2>4. ASSUME NEW p \in Planner, PublishSelected(p)
          PROVE  Reported
      <3>1. CASE AckPlanned(p)
        <4>1. /\ \/ queue' = queue
                 \/ queue # <<>> /\ queue[1] = Head(todo[p]) /\ queue' = Tail(queue)
              /\ accepted' = accepted /\ pc[p] = "ack"
          BY <3>1, Zenon DEF AckPlanned, history
        <4>2. Head(todo[p]) \in accepted
          BY <1>1, <4>1, Zenon DEF IInv, PlannerOK
        <4> QED
          BY <1>1, <2>1, <4>1, <4>2, HeadOfQueue, Zenon
      <3>2. CASE ~AckPlanned(p)
        <4>1. queue' = queue
          BY <2>4, <3>2, Zenon DEF PublishSelected, StartPlan, CheckHead, SendPlanned, SendPlannedFails,
                            CheckPublicationState, Publish, PlanStops
        <4> QED
          BY <2>1, <4>1, Zenon
      <3> QED
        BY <3>1, <3>2, Zenon
    <2>5. CASE Pull \/ Network \/ OtherWriters \/ UNCHANGED vars
      <3>1. queue' = queue
        BY <2>5, Zenon DEF Pull, PullRead, PullApply, Network, ArriveLate, LoseLate, OtherWriters, OtherGraft,
                    JoinGraft, Foreign, vars
      <3> QED
        BY <2>1, <3>1, Zenon
    <2> QED
      BY <1>1, <2>2, <2>3, <2>4, <2>5, Zenon DEF Next
  <1>2. IInv /\ [Next]_vars => [Reported]_vars
    BY <1>1, Zenon
  <1> HIDE DEF Reported
  <1>3. Spec => [][Reported]_vars
    BY <1>2, Invariance, PTL DEF Spec
  <1> QED
    BY <1>3, Zenon DEF NothingDropped, Reported

=============================================================================
