------------------------- MODULE ResourceGateProofs -------------------------
(***************************************************************************)
(* The inductive invariant of ResourceAdmission; what the queues of a gate *)
(* hold; that dispatch keeps the gate right and leaves nobody grantable;   *)
(* what the other critical sections do to the gate: joining and leaving a  *)
(* line, returning, vacating and parking a slot; and the order in which    *)
(* they let the callers of a line have their slots.                        *)
(***************************************************************************)
EXTENDS ResourceAdmission, FiniteSetTheorems, TLAPS

----------------------------------------------------------------------------
(***************************************************************************)
(* Queues without repetitions.                                             *)
(***************************************************************************)

Distinct(q) == \A i, j \in 1 .. Len(q) : q[i] = q[j] => i = j

\* The length of a queue.
LEMMA Lengths ==
    ASSUME NEW q \in Seq(Request)
    PROVE  /\ Len(q) \in Nat
           /\ \A i \in 1 .. Len(q) : q[i] \in Request
           /\ q = <<>> <=> Len(q) = 0
  <1>1. Len(q) \in Nat /\ \A i \in 1 .. Len(q) : q[i] \in Request
    OBVIOUS
  <1>2. Len(<<>>) = 0
    BY Zenon
  <1>3. q = <<>> => Len(q) = 0
    BY <1>2, Zenon
  <1>4. Len(q) = 0 => q = <<>>
    OBVIOUS
  <1> QED BY <1>1, <1>3, <1>4, Zenon

\* The members of a queue, by position.
LEMMA Members ==
    ASSUME NEW q \in Seq(Request)
    PROVE  /\ Len(q) \in Nat
           /\ Range(q) = {q[i] : i \in 1 .. Len(q)}
           /\ \A i \in 1 .. Len(q) : q[i] \in Request
           /\ Range(q) = {} <=> q = <<>>
  <1>1. Len(q) \in Nat /\ \A i \in 1 .. Len(q) : q[i] \in Request
    BY Lengths, Zenon
  <1>2. Range(q) = {q[i] : i \in 1 .. Len(q)}
    BY DEF Range
  <1>3. q # <<>> => Len(q) \in Nat \ {0}
    BY Lengths, Zenon
  <1>4. q = <<>> => Len(q) = 0
    BY Lengths, Zenon
  <1>5. Len(q) \in Nat \ {0} => q[1] \in Range(q)
    BY <1>2
  <1>6. Len(q) = 0 => Range(q) = {}
    BY <1>2
  <1> QED BY <1>1, <1>2, <1>3, <1>4, <1>5, <1>6, Zenon

\* A queue that someone new joins.
LEMMA Joined ==
    ASSUME NEW q \in Seq(Request), Distinct(q), NEW r \in Request, r \notin Range(q)
    PROVE  /\ Append(q, r) \in Seq(Request) /\ Distinct(Append(q, r))
           /\ Range(Append(q, r)) = Range(q) \cup {r}
  <1> DEFINE a == Append(q, r)
  <1>1. /\ a \in Seq(Request) /\ Len(a) = Len(q) + 1
        /\ \A i \in 1 .. Len(q) : a[i] = q[i]
        /\ a[Len(q) + 1] = r
    OBVIOUS
  <1>2. Len(q) \in Nat /\ Range(q) = {q[i] : i \in 1 .. Len(q)}
    BY Members, Zenon
  <1>3. Range(a) = {a[i] : i \in 1 .. Len(a)}
    BY <1>1, Members, Zenon
  <1> HIDE DEF a
  <1>4. \A i \in 1 .. Len(a) : i \in 1 .. Len(q) \/ i = Len(q) + 1
    BY <1>1, <1>2
  <1>5. Range(a) = Range(q) \cup {r}
    BY <1>1, <1>2, <1>3, <1>4
  <1>6. Distinct(a)
    BY <1>1, <1>2, <1>4 DEF Distinct
  <1> QED BY <1>1, <1>5, <1>6, Zenon DEF a

\* A queue that someone leaves.
LEMMA Left ==
    ASSUME NEW q \in Seq(Request), Distinct(q), NEW r
    PROVE  /\ Without(q, r) \in Seq(Request) /\ Distinct(Without(q, r))
           /\ Range(Without(q, r)) = Range(q) \ {r}
           /\ q # <<>> /\ Head(q) # r => Without(q, r) # <<>> /\ Head(Without(q, r)) = Head(q)
  <1>1. CASE r \notin Range(q)
    BY <1>1, Zenon DEF Without
  <1>2. CASE r \in Range(q)
    <2> DEFINE at == CHOOSE i \in 1 .. Len(q) : q[i] = r
               w == [i \in 1 .. Len(q) - 1 |-> IF i < at THEN q[i] ELSE q[i + 1]]
    <2>1. Len(q) \in Nat /\ Range(q) = {q[i] : i \in 1 .. Len(q)} /\ \A i \in 1 .. Len(q) : q[i] \in Request
      BY Members, Zenon
    <2>2. at \in 1 .. Len(q) /\ q[at] = r
      BY <1>2, <2>1, Zenon
    <2>3. Without(q, r) = w
      BY <1>2, Zenon DEF Without
    <2> HIDE DEF at
    <2>4. Len(q) - 1 \in Nat
      BY <2>1, <2>2
    <2>5. \A i \in 1 .. Len(q) - 1 : w[i] \in Request
      BY <2>1, <2>2
    <2>6. w \in Seq(Request) /\ Len(w) = Len(q) - 1
      <3>1. w \in [1 .. Len(q) - 1 -> Request]
        BY <2>1, <2>2
      <3> QED BY <2>4, <3>1
    <2>7. \A i \in 1 .. Len(q) - 1 : w[i] = IF i < at THEN q[i] ELSE q[i + 1]
      BY Zenon
    <2>8. Range(w) = {w[i] : i \in 1 .. Len(q) - 1}
      BY <2>6, Members, Zenon
    <2> HIDE DEF w
    <2>9. Distinct(w)
      BY <2>1, <2>2, <2>6, <2>7 DEF Distinct
    <2>10. Range(w) \subseteq Range(q) \ {r}
      <3> SUFFICES ASSUME NEW i \in 1 .. Len(q) - 1
                   PROVE  w[i] \in Range(q) /\ w[i] # r
        BY <2>8, Zenon
      <3>1. PICK j \in 1 .. Len(q) : j # at /\ w[i] = q[j]
        <4>1. CASE i < at
          BY <2>1, <2>2, <2>7, <4>1
        <4>2. CASE ~(i < at)
          BY <2>1, <2>2, <2>7, <4>2
        <4> QED BY <4>1, <4>2, Zenon
      <3> QED BY <2>1, <2>2, <3>1, Zenon DEF Distinct
    <2>11. Range(q) \ {r} \subseteq Range(w)
      <3> SUFFICES ASSUME NEW j \in 1 .. Len(q), q[j] # r
                   PROVE  q[j] \in Range(w)
        BY <2>1, Zenon
      <3>1. CASE j < at
        BY <2>1, <2>2, <2>7, <2>8, <3>1
      <3>2. CASE j > at
        <4>1. j - 1 \in 1 .. Len(q) - 1 /\ ~(j - 1 < at) /\ (j - 1) + 1 = j
          BY <2>1, <2>2, <3>2
        <4>2. w[j - 1] = q[j]
          BY <2>7, <4>1, Zenon
        <4> QED BY <2>8, <4>1, <4>2, Zenon
      <3> QED BY <2>1, <2>2, <3>1, <3>2
    <2>12. q # <<>> /\ Head(q) # r => w # <<>> /\ Head(w) = Head(q)
      <3> SUFFICES ASSUME q # <<>>, Head(q) # r
                   PROVE  w # <<>> /\ Head(w) = Head(q)
        BY Zenon
      <3>1. Head(q) = q[1]
        OBVIOUS
      <3>2. at > 1
        BY <2>1, <2>2, <3>1
      <3>3. Len(w) > 0 /\ w[1] = q[1]
        BY <2>1, <2>2, <2>6, <2>7, <3>2
      <3>4. w # <<>>
        BY <2>6, <3>3, Lengths
      <3> QED BY <2>6, <3>1, <3>3, <3>4
    <2> QED BY <2>3, <2>6, <2>9, <2>10, <2>11, <2>12, Zenon
  <1> QED BY <1>1, <1>2, Zenon

\* A queue whose head is taken.
LEMMA HeadTaken ==
    ASSUME NEW q \in Seq(Request), Distinct(q), q # <<>>
    PROVE  /\ Head(q) \in Range(q) /\ Head(q) \in Request
           /\ Tail(q) \in Seq(Request) /\ Distinct(Tail(q))
           /\ Range(Tail(q)) = Range(q) \ {Head(q)}
  <1> DEFINE t == Tail(q)
  <1>1. /\ Head(q) \in Request /\ t \in Seq(Request) /\ Len(t) = Len(q) - 1
        /\ \A i \in 1 .. Len(t) : t[i] = q[i + 1]
    OBVIOUS
  <1>2. Len(q) \in Nat \ {0} /\ Range(q) = {q[i] : i \in 1 .. Len(q)}
    BY Members, Lengths, Zenon
  <1>3. Range(t) = {t[i] : i \in 1 .. Len(t)}
    BY <1>1, Members, Zenon
  <1>4. Head(q) = q[1]
    OBVIOUS
  <1> HIDE DEF t
  <1>5. Distinct(t)
    BY <1>1, <1>2 DEF Distinct
  <1>6. Range(t) \subseteq Range(q) \ {q[1]}
    BY <1>1, <1>2, <1>3 DEF Distinct
  <1>7. Range(q) \ {q[1]} \subseteq Range(t)
    <2> SUFFICES ASSUME NEW j \in 1 .. Len(q), j # 1
                 PROVE  q[j] \in Range(t)
      BY <1>2, Zenon
    <2>1. j - 1 \in 1 .. Len(t) /\ (j - 1) + 1 = j
      BY <1>1, <1>2
    <2>2. t[j - 1] = q[j]
      BY <1>1, <2>1, Zenon
    <2> QED BY <1>3, <2>1, <2>2, Zenon
  <1>8. q[1] \in Range(q)
    BY <1>2
  <1> QED BY <1>1, <1>4, <1>5, <1>6, <1>7, <1>8, Zenon DEF t

\* A queue whose first n members are taken.
LEMMA FrontTaken ==
    ASSUME NEW q \in Seq(Request), Distinct(q), NEW n \in 0 .. Len(q)
    PROVE  LET front == {q[i] : i \in 1 .. n}
               rest == SubSeq(q, n + 1, Len(q))
           IN  /\ rest \in Seq(Request) /\ Distinct(rest)
               /\ Range(rest) = Range(q) \ front
               /\ front \subseteq Range(q) /\ IsFiniteSet(front) /\ Cardinality(front) = n
               /\ n = Len(q) => rest = <<>>
  <1> DEFINE front == {q[i] : i \in 1 .. n}
             rest == SubSeq(q, n + 1, Len(q))
  <1>1. Len(q) \in Nat /\ Range(q) = {q[i] : i \in 1 .. Len(q)} /\ \A i \in 1 .. Len(q) : q[i] \in Request
    BY Members, Zenon
  <1>2. /\ rest \in Seq(Request)
        /\ Len(rest) = IF n + 1 <= Len(q) THEN Len(q) - (n + 1) + 1 ELSE 0
        /\ \A i \in 1 .. Len(q) - (n + 1) + 1 : rest[i] = q[(n + 1) + i - 1]
    <2>1. n + 1 \in Int /\ Len(q) \in Int /\ \A i \in n + 1 .. Len(q) : q[i] \in Request
      BY <1>1
    <2> QED BY <1>1, <2>1
  <1>3. Range(rest) = {rest[i] : i \in 1 .. Len(rest)}
    BY <1>2, Members, Zenon
  <1> HIDE DEF rest
  <1>4. Len(rest) = Len(q) - n /\ \A i \in 1 .. Len(q) - n : rest[i] = q[n + i]
    <2>1. Len(rest) = Len(q) - n
      BY <1>1, <1>2
    <2>2. \A i \in 1 .. Len(q) - n : i \in 1 .. Len(q) - (n + 1) + 1 /\ (n + 1) + i - 1 = n + i
      BY <1>1
    <2> QED BY <1>2, <2>1, <2>2, Zenon
  <1>5. Distinct(rest)
    <2> SUFFICES ASSUME NEW i \in 1 .. Len(rest), NEW j \in 1 .. Len(rest), rest[i] = rest[j]
                 PROVE  i = j
      BY Zenon DEF Distinct
    <2>1. n + i \in 1 .. Len(q) /\ n + j \in 1 .. Len(q)
      BY <1>1, <1>4
    <2>2. q[n + i] = q[n + j]
      BY <1>1, <1>4, Zenon
    <2>3. n + i = n + j
      BY <2>1, <2>2, Zenon DEF Distinct
    <2> QED BY <1>1, <2>3
  <1>6. Range(rest) = Range(q) \ front
    <2>1. Range(rest) \subseteq Range(q) \ front
      <3> SUFFICES ASSUME NEW i \in 1 .. Len(rest)
                   PROVE  rest[i] \in Range(q) \ front
        BY <1>3, Zenon
      <3>1. n + i \in 1 .. Len(q) /\ rest[i] = q[n + i]
        BY <1>1, <1>4
      <3>2. ASSUME NEW j \in 1 .. n, q[j] = q[n + i]
            PROVE  FALSE
        <4>1. j \in 1 .. Len(q) /\ j # n + i
          BY <1>1, <1>4
        <4> QED BY <3>1, <3>2, <4>1, Zenon DEF Distinct
      <3> QED BY <1>1, <3>1, <3>2, Zenon
    <2>2. Range(q) \ front \subseteq Range(rest)
      <3> SUFFICES ASSUME NEW j \in 1 .. Len(q), j \notin 1 .. n
                   PROVE  q[j] \in Range(rest)
        BY <1>1, Zenon
      <3>1. j - n \in 1 .. Len(q) - n /\ n + (j - n) = j
        BY <1>1
      <3>2. rest[j - n] = q[j]
        BY <1>4, <3>1, Zenon
      <3> QED BY <1>3, <1>4, <3>1, <3>2, Zenon
    <2> QED BY <2>1, <2>2, Zenon
  <1>7. front \subseteq Range(q)
    BY <1>1
  <1>8. IsFiniteSet(front) /\ Cardinality(front) = n
    <2> DEFINE f == [i \in 1 .. n |-> q[i]]
    <2>1. IsFiniteSet(1 .. n) /\ Cardinality(1 .. n) = n
      BY <1>1, FS_Interval
    <2>2. f \in Bijection(1 .. n, front)
      BY <1>1 DEF Distinct, Bijection, Injection, Surjection, IsInjective
    <2>3. ExistsBijection(1 .. n, front)
      BY <2>2, Zenon DEF ExistsBijection
    <2> HIDE DEF front
    <2> QED BY <2>1, <2>3, FS_Bijection, Zenon
  <1>9. n = Len(q) => rest = <<>>
    BY <1>1, <1>2, <1>4, Lengths
  <1> QED BY <1>2, <1>5, <1>6, <1>7, <1>8, <1>9, Zenon DEF rest

----------------------------------------------------------------------------
(***************************************************************************)
(* The inductive invariant.  Its parts are operators of a gate g, of the   *)
(* steps p and of the classes k of the callers, because a critical section *)
(* passes through gates that no other caller sees.                         *)
(***************************************************************************)

Steps == [Request -> Step]
Classes == [Request -> PermitClass]

Waiting(g, c) == Range(g.waiters[c])

Nowhere(g, r) ==
    r \notin Waiting(g, "interactive") /\ r \notin Waiting(g, "bulk") /\ r \notin g.granted

Waits(g, c, r) ==
    r \in Waiting(g, c) /\ r \notin g.granted /\ \A d \in Class \ {c} : r \notin Waiting(g, d)

Notified(g, r) ==
    r \in g.granted /\ r \notin Waiting(g, "interactive") /\ r \notin Waiting(g, "bulk")

\* A permit whose bulk slot is parked queues for it, or has been granted it.
Comes(g, r) == \/ Notified(g, r) /\ r \notin g.parked
               \/ Waits(g, "bulk", r) /\ r \in g.parked

\* Where a caller of class c stands in the gate, by its step.
CallerOK(g, r, step, c) ==
    /\ step \in {"idle", "observed"} => Nowhere(g, r) /\ r \notin g.parked
    /\ step = "observed" => c \in Class
    /\ step = "queued" => c \in Class /\ r \notin g.parked /\ (Waits(g, c, r) \/ Notified(g, r))
    /\ step \in {"admitted", "releasing"} => c \in Class /\ Nowhere(g, r) /\ r \notin g.parked
    /\ step = "working" => Nowhere(g, r) /\ (r \in g.parked => c = "bulk")
    /\ step \in {"upgrading", "downgrading"} => c = "upgraded" /\ Nowhere(g, r) /\ r \notin g.parked
    /\ step \in {"parking", "staying", "surrendering"} => c = "bulk" /\ Waits(g, "bulk", r) /\ r \notin g.parked
    /\ step = "parked" => c = "bulk" /\ Comes(g, r)
    /\ step \in {"resuming", "abandoning", "reparking"} => c = "bulk" /\ Notified(g, r) /\ r \notin g.parked
    /\ step = "resigning" => c = "bulk" /\ Nowhere(g, r) /\ r \in g.parked
    /\ step = "leaving" => \/ Nowhere(g, r) /\ (r \in g.parked => c = "bulk")
                           \/ c = "bulk" /\ Comes(g, r)

Held(g, p, r) == p[r] \in Live \/ r \in g.granted
HasBulk(g, p, k, r) == Held(g, p, r) /\ r \notin g.parked /\ k[r] # "interactive"

Slots(g, p) == {r \in Request : Held(g, p, r)}
BulkSlots(g, p, k) == {r \in Request : HasBulk(g, p, k, r)}

Counted(g, p, k) ==
    g.active = Cardinality(Slots(g, p)) /\ g.bulk = Cardinality(BulkSlots(g, p, k)) /\ g.bulk <= 1

\* Permits that are about to park or that just got their slot back.
Yielding(g, p, r) == p[r] \in {"parking", "surrendering"} \/ (r \in g.granted /\ p[r] # "queued")

\* One permit is parked at most, and none while another yields.
ParkingOK(g, p) ==
    /\ g.parked = {g.retained} \ {NoRequest}
    /\ \A r \in Request : Yielding(g, p, r) => g.parked = {}

LinesOK(g) == \A c \in Class : Distinct(g.waiters[c])

GateOK(g, p, k) ==
    /\ g \in Gate
    /\ LinesOK(g)
    /\ \A r \in Request : CallerOK(g, r, p[r], k[r])
    /\ Counted(g, p, k)
    /\ ParkingOK(g, p)

Fits(g) == g.active <= ActiveCapacity

\* Nobody is grantable.
Quiet(g, p) ==
    /\ \/ g.waiters["bulk"] = <<>> \/ g.bulk # 0
       \/ p[Head(g.waiters["bulk"])] \notin Live /\ g.active >= ActiveCapacity
    /\ g.waiters["interactive"] = <<>> \/ g.active >= ActiveCapacity

\* What a permit holds of the governor it holds under its local bulk slot.
RemoteOK ==
    \A r \in Request : remote[r] = "bulk" =>
        /\ pc[r] \in {"working", "releasing", "parking", "staying", "abandoning"}
        /\ class[r] # "interactive" /\ r \notin gate.parked

IInv ==
    /\ TypeOK
    /\ GateOK(gate, pc, class)
    /\ Fits(gate)
    /\ Quiet(gate, pc)
    /\ OneRegime
    /\ RemoteOK
    /\ RestoringMeansBusy

----------------------------------------------------------------------------
(***************************************************************************)
(* What one caller changes, and what dispatch changes.                     *)
(***************************************************************************)

One(b) == IF b THEN 1 ELSE 0

\* Two sets of callers that differ in r at most.
LEMMA CountChange ==
    ASSUME NEW S \in SUBSET Request, NEW T \in SUBSET Request, NEW r \in Request,
           \A s \in Request \ {r} : s \in S <=> s \in T
    PROVE  /\ IsFiniteSet(S) /\ IsFiniteSet(T) /\ Cardinality(S) \in Nat /\ Cardinality(T) \in Nat
           /\ Cardinality(T) = Cardinality(S) + One(r \in T) - One(r \in S)
  <1>1. IsFiniteSet(S) /\ IsFiniteSet(T)
    BY RequestAssumption, FS_Subset, Zenon
  <1>2. Cardinality(S) \in Nat /\ Cardinality(T) \in Nat
    BY <1>1, FS_CardinalityType, Zenon
  <1>3. S \ {r} = T \ {r}
    BY Zenon
  <1>4. Cardinality(S \ {r}) = IF r \in S THEN Cardinality(S) - 1 ELSE Cardinality(S)
    BY <1>1, FS_RemoveElement, Zenon
  <1>5. Cardinality(T \ {r}) = IF r \in T THEN Cardinality(T) - 1 ELSE Cardinality(T)
    BY <1>1, FS_RemoveElement, Zenon
  <1> QED BY <1>1, <1>2, <1>3, <1>4, <1>5 DEF One

\* s stands in h as it stands in g.
Unmoved(g, p, k, h, q, l, s) ==
    /\ q[s] = p[s] /\ l[s] = k[s]
    /\ s \in h.granted <=> s \in g.granted
    /\ s \in h.parked <=> s \in g.parked
    /\ \A c \in Class : s \in Waiting(h, c) <=> s \in Waiting(g, c)

\* One caller moves and the counters follow it.
LEMMA OneCaller ==
    ASSUME NEW g, NEW p \in Steps, NEW k \in Classes, GateOK(g, p, k),
           NEW h \in Gate, NEW q \in Steps, NEW l \in Classes, LinesOK(h), ParkingOK(h, q),
           NEW r \in Request, CallerOK(h, r, q[r], l[r]),
           \A s \in Request \ {r} : Unmoved(g, p, k, h, q, l, s),
           h.active = g.active + One(Held(h, q, r)) - One(Held(g, p, r)),
           h.bulk = g.bulk + One(HasBulk(h, q, l, r)) - One(HasBulk(g, p, k, r)),
           h.bulk <= 1
    PROVE  GateOK(h, q, l)
  <1>1. \A s \in Request : CallerOK(h, s, q[s], l[s])
    <2> SUFFICES ASSUME NEW s \in Request \ {r}
                 PROVE  CallerOK(h, s, q[s], l[s])
      BY Zenon
    <2>1. CallerOK(g, s, p[s], k[s]) /\ Unmoved(g, p, k, h, q, l, s)
      BY Zenon DEF GateOK
    <2>2. /\ Nowhere(h, s) <=> Nowhere(g, s)
          /\ Notified(h, s) <=> Notified(g, s)
          /\ \A c \in Class : Waits(h, c, s) <=> Waits(g, c, s)
      BY <2>1, Zenon DEF Unmoved, Nowhere, Notified, Waits, Class
    <2>3. Comes(h, s) <=> Comes(g, s)
      BY <2>1, <2>2, Zenon DEF Unmoved, Comes, Class
    <2>4. q[s] = p[s] /\ l[s] = k[s] /\ (s \in h.parked <=> s \in g.parked) /\ "bulk" \in Class
      BY <2>1, Zenon DEF Unmoved, Class
    <2> QED BY <2>1, <2>2, <2>3, <2>4, Zenon DEF CallerOK
  <1>2. Counted(h, q, l)
    <2>1. /\ g.active = Cardinality(Slots(g, p)) /\ g.bulk = Cardinality(BulkSlots(g, p, k))
      BY Zenon DEF GateOK, Counted
    <2>2. Cardinality(Slots(h, q))
             = Cardinality(Slots(g, p)) + One(r \in Slots(h, q)) - One(r \in Slots(g, p))
      <3>1. Slots(h, q) \in SUBSET Request /\ Slots(g, p) \in SUBSET Request
        BY Zenon DEF Slots
      <3>2. \A s \in Request \ {r} : s \in Slots(g, p) <=> s \in Slots(h, q)
        BY Zenon DEF Slots, Held, Unmoved
      <3> QED BY <3>1, <3>2, CountChange, Zenon
    <2>3. Cardinality(BulkSlots(h, q, l))
             = Cardinality(BulkSlots(g, p, k)) + One(r \in BulkSlots(h, q, l)) - One(r \in BulkSlots(g, p, k))
      <3>1. BulkSlots(h, q, l) \in SUBSET Request /\ BulkSlots(g, p, k) \in SUBSET Request
        BY Zenon DEF BulkSlots
      <3>2. \A s \in Request \ {r} : s \in BulkSlots(g, p, k) <=> s \in BulkSlots(h, q, l)
        BY Zenon DEF BulkSlots, HasBulk, Held, Unmoved
      <3> QED BY <3>1, <3>2, CountChange, Zenon
    <2>4. /\ r \in Slots(h, q) <=> Held(h, q, r)
          /\ r \in Slots(g, p) <=> Held(g, p, r)
          /\ r \in BulkSlots(h, q, l) <=> HasBulk(h, q, l, r)
          /\ r \in BulkSlots(g, p, k) <=> HasBulk(g, p, k, r)
      BY Zenon DEF Slots, BulkSlots
    <2> QED BY <2>1, <2>2, <2>3, <2>4, Zenon DEF Counted, One
  <1> QED BY <1>1, <1>2, Zenon DEF GateOK

\* Counters read as sets: a caller with a slot, nobody with a bulk slot, and
\* never two of them.
LEMMA Counters ==
    ASSUME NEW g, NEW p \in Steps, NEW k \in Classes, GateOK(g, p, k)
    PROVE  /\ g.active \in Nat /\ g.bulk \in {0, 1}
           /\ \A r \in Request : Held(g, p, r) => g.active >= 1
           /\ \A r \in Request : HasBulk(g, p, k, r) => g.bulk = 1
           /\ \A r, s \in Request : HasBulk(g, p, k, r) /\ HasBulk(g, p, k, s) => r = s
           /\ g.active = 0 => \A r \in Request : ~Held(g, p, r)
  <1> DEFINE S == Slots(g, p)
             T == BulkSlots(g, p, k)
  <1>1. g.active = Cardinality(S) /\ g.bulk = Cardinality(T) /\ g.bulk <= 1 /\ g.active \in Nat /\ g.bulk \in Nat
    BY Zenon DEF GateOK, Counted, Gate
  <1>2. S \in SUBSET Request /\ T \in SUBSET Request
    BY Zenon DEF Slots, BulkSlots
  <1>3. \A r \in Request : (r \in S <=> Held(g, p, r)) /\ (r \in T <=> HasBulk(g, p, k, r))
    BY Zenon DEF Slots, BulkSlots
  <1> HIDE DEF S, T
  <1>4. IsFiniteSet(S) /\ IsFiniteSet(T)
    BY <1>2, RequestAssumption, FS_Subset, Zenon
  <1>5. (Cardinality(S) = 0 <=> S = {}) /\ (Cardinality(T) = 0 <=> T = {})
    BY <1>4, FS_EmptySet, Zenon
  <1>6. Cardinality(T) = 1 => \E x : T = {x}
    BY <1>4, FS_Singleton, Zenon
  <1>7. g.active \in Nat /\ g.bulk \in {0, 1}
    BY <1>1
  <1>8. \A r \in Request : r \in S => g.active >= 1
    BY <1>1, <1>5
  <1>9. \A r \in Request : r \in T => g.bulk = 1
    BY <1>1, <1>5
  <1>10. \A r, s \in Request : r \in T /\ s \in T => r = s
    BY <1>1, <1>6, <1>9, Zenon
  <1> QED BY <1>1, <1>3, <1>5, <1>7, <1>8, <1>9, <1>10, Zenon

\* The two rounds of dispatch.
BulkTaken(g, r) ==
    [active |-> IF Resumes(r) THEN g.active ELSE g.active + 1,
     bulk |-> g.bulk + 1,
     waiters |-> [c \in Class |-> IF c = "interactive" THEN g.waiters[c] ELSE Tail(g.waiters[c])],
     granted |-> g.granted \cup {r},
     parked |-> g.parked \ {r},
     retained |-> IF Resumes(r) THEN NoRequest ELSE g.retained]

InteractiveTaken(g, n) ==
    LET line == g.waiters["interactive"]
    IN  [active |-> g.active + n,
         bulk |-> g.bulk,
         waiters |-> [c \in Class |-> IF c = "interactive" THEN SubSeq(line, n + 1, Len(line))
                                      ELSE g.waiters[c]],
         granted |-> g.granted \cup {line[i] : i \in 1 .. n},
         parked |-> g.parked,
         retained |-> g.retained]

\* The head of the bulk line is granted the free bulk slot.
LEMMA BulkTakenOK ==
    ASSUME NEW g, NEW p \in Steps, NEW k \in Classes, GateOK(g, p, k),
           g.bulk = 0, g.waiters["bulk"] # <<>>,
           NEW r \in Request, r = Head(g.waiters["bulk"]), Resumes(r) <=> p[r] \in Live
    PROVE  GateOK(BulkTaken(g, r), p, k)
  <1> DEFINE h == BulkTaken(g, r)
             q == g.waiters["bulk"]
  <1>1. /\ g \in Gate /\ LinesOK(g) /\ CallerOK(g, r, p[r], k[r]) /\ ParkingOK(g, p)
        /\ "bulk" \in Class /\ "interactive" \in Class
    BY Zenon DEF GateOK, Class
  <1>2. q \in Seq(Request) /\ Distinct(q) /\ g.waiters["interactive"] \in Seq(Request)
        /\ g.active \in Nat /\ g.granted \in SUBSET Request /\ g.parked \in SUBSET Request
    BY <1>1, Zenon DEF Gate, LinesOK
  <1>3. /\ r \in Range(q) /\ Tail(q) \in Seq(Request) /\ Distinct(Tail(q))
        /\ Range(Tail(q)) = Range(q) \ {r}
    BY <1>2, HeadTaken, Zenon
  <1>4. /\ h.active = IF Resumes(r) THEN g.active ELSE g.active + 1
        /\ h.bulk = 1
        /\ h.waiters["interactive"] = g.waiters["interactive"] /\ h.waiters["bulk"] = Tail(q)
        /\ h.granted = g.granted \cup {r}
        /\ h.parked = g.parked \ {r}
        /\ h.retained = IF Resumes(r) THEN NoRequest ELSE g.retained
    BY DEF BulkTaken, Class
  <1>5. h \in Gate
    BY <1>1, <1>2, <1>3 DEF BulkTaken, Gate, Class
  <1> HIDE DEF h, q
  <1>6. r \in Waiting(g, "bulk")
    BY <1>3, Zenon DEF Waiting, q
  <1>7. /\ Waits(g, "bulk", r) /\ k[r] = "bulk"
        /\ \/ p[r] = "queued" /\ r \notin g.parked
           \/ p[r] \in {"parking", "staying", "surrendering"} /\ r \notin g.parked
           \/ p[r] \in {"parked", "leaving"} /\ r \in g.parked
    BY <1>1, <1>6, Zenon DEF CallerOK, Nowhere, Notified, Waits, Comes, Class, Steps, Step, Live
  <1>8. r \notin g.granted /\ r \notin Waiting(g, "interactive")
    BY <1>7, Zenon DEF Waits, Class
  <1>9. ~HasBulk(g, p, k, r)
    BY Counters
  <1>10. /\ Resumes(r) => p[r] \in {"parked", "leaving"} /\ r \in g.parked
         /\ ~Resumes(r) => p[r] = "queued" /\ r \notin g.parked
    BY <1>7, <1>9, Zenon DEF HasBulk, Held, Live
  <1>11. LinesOK(h)
    BY <1>1, <1>3, <1>4, Zenon DEF LinesOK, Class
  <1>12. \A s \in Request \ {r} : Unmoved(g, p, k, h, p, k, s)
    BY <1>3, <1>4, Zenon DEF Unmoved, Waiting, Class, q
  <1>13. Notified(h, r) /\ r \notin h.parked
    BY <1>3, <1>4, <1>8, Zenon DEF Notified, Waiting
  <1>14. CallerOK(h, r, p[r], k[r])
    BY <1>7, <1>10, <1>13, Zenon DEF CallerOK, Comes, Class, Live
  <1>15. ParkingOK(h, p)
    <2>1. CASE Resumes(r)
      BY <1>1, <1>4, <1>10, <2>1, Zenon DEF ParkingOK
    <2>2. CASE ~Resumes(r)
      <3>1. h.parked = g.parked /\ h.retained = g.retained /\ p[r] = "queued"
        BY <1>4, <1>10, <2>2, Zenon
      <3>2. \A s \in Request : Yielding(h, p, s) => Yielding(g, p, s)
        BY <1>4, <3>1, Zenon DEF Yielding
      <3> QED BY <1>1, <3>1, <3>2, Zenon DEF ParkingOK
    <2> QED BY <2>1, <2>2, Zenon
  <1>16. /\ Held(h, p, r) /\ HasBulk(h, p, k, r)
         /\ Held(g, p, r) <=> Resumes(r)
    BY <1>4, <1>7, <1>8, <1>13, Zenon DEF Held, HasBulk
  <1>17. /\ h.active = g.active + One(Held(h, p, r)) - One(Held(g, p, r))
         /\ h.bulk = g.bulk + One(HasBulk(h, p, k, r)) - One(HasBulk(g, p, k, r))
    BY <1>2, <1>4, <1>9, <1>16 DEF One
  <1>18. h.bulk <= 1
    BY <1>4
  <1> QED BY <1>5, <1>11, <1>12, <1>14, <1>15, <1>17, <1>18, OneCaller, Zenon DEF h

\* The first n of the interactive line are granted an active slot each.
LEMMA InteractiveTakenOK ==
    ASSUME NEW g, NEW p \in Steps, NEW k \in Classes, GateOK(g, p, k),
           NEW n \in 0 .. Len(g.waiters["interactive"])
    PROVE  GateOK(InteractiveTaken(g, n), p, k)
  <1> DEFINE h == InteractiveTaken(g, n)
             q == g.waiters["interactive"]
             front == {q[i] : i \in 1 .. n}
             rest == SubSeq(q, n + 1, Len(q))
  <1>1. /\ g \in Gate /\ LinesOK(g) /\ Counted(g, p, k) /\ ParkingOK(g, p)
        /\ "bulk" \in Class /\ "interactive" \in Class
    BY Zenon DEF GateOK, Class
  <1>2. q \in Seq(Request) /\ Distinct(q) /\ g.active \in Nat /\ n \in Nat
    BY <1>1, Members DEF Gate, LinesOK
  <1>3. /\ rest \in Seq(Request) /\ Distinct(rest) /\ Range(rest) = Range(q) \ front
        /\ front \subseteq Range(q) /\ IsFiniteSet(front) /\ Cardinality(front) = n
    BY <1>2, FrontTaken, Zenon
  <1>4. front \subseteq Request
    BY <1>2, <1>3, Members
  <1>5. /\ h.active = g.active + n /\ h.bulk = g.bulk
        /\ h.waiters["interactive"] = rest /\ h.waiters["bulk"] = g.waiters["bulk"]
        /\ h.granted = g.granted \cup front
        /\ h.parked = g.parked /\ h.retained = g.retained
    BY Zenon DEF InteractiveTaken, Class
  <1>6. h \in Gate
    <2>1. [c \in Class |-> IF c = "interactive" THEN rest ELSE g.waiters[c]] \in [Class -> Seq(Request)]
      BY <1>1, <1>3, Zenon DEF Gate, Class
    <2> DEFINE lines == [c \in Class |-> IF c = "interactive" THEN rest ELSE g.waiters[c]]
    <2>2. h = [active |-> g.active + n, bulk |-> g.bulk, waiters |-> lines,
               granted |-> g.granted \cup front, parked |-> g.parked, retained |-> g.retained]
      BY Zenon DEF InteractiveTaken
    <2>3. /\ g.bulk \in Nat /\ g.granted \in SUBSET Request /\ g.parked \in SUBSET Request
          /\ g.retained \in Request \cup {NoRequest}
      BY <1>1, Zenon DEF Gate
    <2>4. g.active + n \in Nat /\ g.granted \cup front \in SUBSET Request
      BY <1>2, <1>4, <2>3
    <2> HIDE DEF h, front, lines
    <2> QED BY <2>1, <2>2, <2>3, <2>4, Zenon DEF Gate, lines
  <1>7. front \subseteq Waiting(g, "interactive")
    BY <1>3, Zenon DEF Waiting
  <1>8. Waiting(h, "interactive") = Waiting(g, "interactive") \ front /\ Waiting(h, "bulk") = Waiting(g, "bulk")
    BY <1>3, <1>5, Zenon DEF Waiting
  <1> HIDE DEF h, front, rest, q
  <1>9. \A s \in front : /\ p[s] = "queued" /\ k[s] = "interactive" /\ s \notin g.granted
                         /\ s \notin Waiting(g, "bulk") /\ s \notin g.parked
    <2> SUFFICES ASSUME NEW s \in front
                 PROVE  /\ p[s] = "queued" /\ k[s] = "interactive" /\ s \notin g.granted
                        /\ s \notin Waiting(g, "bulk") /\ s \notin g.parked
      BY Zenon
    <2>1. CallerOK(g, s, p[s], k[s]) /\ s \in Waiting(g, "interactive") /\ p[s] \in Step
      BY <1>4, <1>7, Zenon DEF GateOK, Steps
    <2> QED BY <2>1, Zenon DEF CallerOK, Nowhere, Notified, Waits, Comes, Class, Step, Live
  <1>10. LinesOK(h)
    BY <1>1, <1>3, <1>5, Zenon DEF LinesOK, Class
  <1>11. \A s \in Request : CallerOK(h, s, p[s], k[s])
    <2> SUFFICES ASSUME NEW s \in Request
                 PROVE  CallerOK(h, s, p[s], k[s])
      BY Zenon
    <2>1. CASE s \in front
      <3>1. Notified(h, s) /\ p[s] = "queued" /\ k[s] \in Class /\ s \notin h.parked
        BY <1>1, <1>5, <1>8, <1>9, <2>1, Zenon DEF Notified
      <3> QED BY <3>1, Zenon DEF CallerOK
    <2>2. CASE s \notin front
      <3>1. CallerOK(g, s, p[s], k[s])
        BY Zenon DEF GateOK
      <3>2. /\ Nowhere(h, s) <=> Nowhere(g, s)
            /\ Notified(h, s) <=> Notified(g, s)
            /\ \A c \in Class : Waits(h, c, s) <=> Waits(g, c, s)
            /\ s \in h.parked <=> s \in g.parked
        BY <1>5, <1>8, <2>2, Zenon DEF Nowhere, Notified, Waits, Class
      <3>3. Comes(h, s) <=> Comes(g, s)
        BY <1>1, <3>2, Zenon DEF Comes
      <3> QED BY <1>1, <3>1, <3>2, <3>3, Zenon DEF CallerOK
    <2> QED BY <2>1, <2>2, Zenon
  <1>12. Slots(h, p) = Slots(g, p) \cup front /\ Slots(g, p) \cap front = {}
    BY <1>4, <1>5, <1>9, Zenon DEF Slots, Held, Live
  <1>13. BulkSlots(h, p, k) = BulkSlots(g, p, k)
    BY <1>5, <1>9, Zenon DEF BulkSlots, HasBulk, Held
  <1>14. Cardinality(Slots(h, p)) = Cardinality(Slots(g, p)) + n
    <2>1. IsFiniteSet(Slots(g, p))
      BY RequestAssumption, FS_Subset, Zenon DEF Slots
    <2>2. Cardinality(Slots(g, p)) \in Nat
      BY <2>1, FS_CardinalityType, Zenon
    <2>3. Cardinality(Slots(g, p) \cup front)
             = Cardinality(Slots(g, p)) + Cardinality(front) - Cardinality(Slots(g, p) \cap front)
      BY <1>3, <2>1, FS_Union, Zenon
    <2>4. Cardinality(Slots(g, p) \cap front) = 0
      BY <1>12, FS_EmptySet, Zenon
    <2> QED BY <1>2, <1>3, <1>12, <2>2, <2>3, <2>4
  <1>15. Counted(h, p, k)
    BY <1>1, <1>5, <1>13, <1>14, Zenon DEF Counted
  <1>16. ParkingOK(h, p)
    <2>1. \A s \in Request : Yielding(h, p, s) => Yielding(g, p, s)
      BY <1>5, <1>9, Zenon DEF Yielding
    <2> QED BY <1>1, <1>5, <2>1, Zenon DEF ParkingOK
  <1> QED BY <1>6, <1>10, <1>11, <1>15, <1>16, Zenon DEF GateOK, h

\* Dispatch is those two rounds, the first only when the bulk head is grantable.
LEMMA DispatchRounds ==
    ASSUME NEW g \in Gate
    PROVE  LET line == g.waiters["interactive"]
           IN  \/ /\ g.waiters["bulk"] = <<>> \/ g.bulk # 0
                     \/ (~Resumes(Head(g.waiters["bulk"])) /\ g.active >= ActiveCapacity)
                  /\ Dispatch(g) = InteractiveTaken(g, NextInteractive(g.active, line))
               \/ \E r \in Request :
                     /\ g.bulk = 0 /\ g.waiters["bulk"] # <<>> /\ r = Head(g.waiters["bulk"])
                     /\ Resumes(r) \/ g.active < ActiveCapacity
                     /\ Dispatch(g) = InteractiveTaken(BulkTaken(g, r),
                                                       NextInteractive(BulkTaken(g, r).active, line))
  <1> DEFINE line == g.waiters["interactive"]
             q == g.waiters["bulk"]
             first == NextBulk(g)
  <1>1. /\ q \in Seq(Request) /\ line \in Seq(Request) /\ g.active \in Nat /\ g.bulk \in Nat
        /\ ActiveCapacity \in Nat /\ "bulk" \in Class /\ "interactive" \in Class
    BY LimitAssumption DEF Gate, Class, ActiveCapacity
  <1>2. q # <<>> => Head(q) \in Request
    BY <1>1
  <1>3. CASE q = <<>> \/ g.bulk # 0 \/ (~Resumes(Head(q)) /\ g.active >= ActiveCapacity)
    <2>1. first = {} /\ {r \in first : ~Resumes(r)} = {} /\ {r \in first : Resumes(r)} = {}
      BY <1>1, <1>3 DEF NextBulk
    <2>2. Cardinality({}) = 0
      BY FS_EmptySet, Zenon
    <2>3. /\ g.active + Cardinality({r \in first : ~Resumes(r)}) = g.active
          /\ g.bulk + Cardinality(first) = g.bulk
          /\ g.parked \ first = g.parked
      BY <1>1, <2>1, <2>2
    <2> HIDE DEF first
    <2>4. Dispatch(g) = InteractiveTaken(g, NextInteractive(g.active, line))
      BY <2>1, <2>3, Zenon DEF Dispatch, InteractiveTaken, first
    <2> QED BY <1>3, <2>4, Zenon
  <1>4. CASE ~(q = <<>> \/ g.bulk # 0 \/ (~Resumes(Head(q)) /\ g.active >= ActiveCapacity))
    <2> DEFINE r == Head(q)
    <2>1. r \in Request /\ g.bulk = 0 /\ q # <<>> /\ (Resumes(r) \/ g.active < ActiveCapacity)
      BY <1>1, <1>2, <1>4
    <2>2. first = {r}
      BY <2>1, Zenon DEF NextBulk
    <2> HIDE DEF r, first
    <2>3. Cardinality({}) = 0 /\ Cardinality({r}) = 1
      BY FS_EmptySet, FS_Singleton, Zenon
    <2>4. /\ Resumes(r) => {s \in first : ~Resumes(s)} = {} /\ {s \in first : Resumes(s)} = {r}
          /\ ~Resumes(r) => {s \in first : ~Resumes(s)} = {r} /\ {s \in first : Resumes(s)} = {}
      BY <2>2, Zenon
    <2>5. /\ g.active + Cardinality({s \in first : ~Resumes(s)}) = BulkTaken(g, r).active
          /\ g.bulk + Cardinality(first) = BulkTaken(g, r).bulk
      <3>1. Cardinality({s \in first : ~Resumes(s)}) = IF Resumes(r) THEN 0 ELSE 1
        BY <2>3, <2>4, Zenon
      <3>2. Cardinality(first) = 1
        BY <2>2, <2>3, Zenon
      <3> QED BY <1>1, <3>1, <3>2 DEF BulkTaken
    <2>9. /\ (IF {s \in first : Resumes(s)} = {} THEN g.retained ELSE NoRequest) = BulkTaken(g, r).retained
          /\ g.parked \ first = BulkTaken(g, r).parked
          /\ g.granted \cup first = BulkTaken(g, r).granted
      BY <2>2, <2>4, Zenon DEF BulkTaken
    <2>6. /\ BulkTaken(g, r).waiters["interactive"] = line
          /\ BulkTaken(g, r).waiters["bulk"] = Tail(q)
      BY Zenon DEF BulkTaken, Class
    <2>7. first # {}
      BY <2>2, Zenon
    <2>8. Dispatch(g) = InteractiveTaken(BulkTaken(g, r), NextInteractive(BulkTaken(g, r).active, line))
      BY <2>5, <2>6, <2>7, <2>9, Zenon DEF Dispatch, InteractiveTaken, first, Class
    <2> QED BY <2>1, <2>8, Zenon DEF r
  <1> QED BY <1>3, <1>4, Zenon

\* How many interactive waiters get a slot, and that afterwards no slot is left
\* or nobody in line.
LEMMA NextInteractiveOK ==
    ASSUME NEW g \in Gate, LinesOK(g)
    PROVE  LET line == g.waiters["interactive"]
               n == NextInteractive(g.active, line)
           IN  /\ n \in 0 .. Len(line)
               /\ g.active <= ActiveCapacity => g.active + n <= ActiveCapacity
               /\ \/ InteractiveTaken(g, n).waiters["interactive"] = <<>>
                  \/ g.active + n >= ActiveCapacity
  <1> DEFINE line == g.waiters["interactive"]
             n == NextInteractive(g.active, line)
  <1>1. line \in Seq(Request) /\ Distinct(line) /\ g.active \in Nat /\ ActiveCapacity \in Nat
    BY LimitAssumption DEF Gate, LinesOK, Class, ActiveCapacity
  <1>2. Len(line) \in Nat
    BY <1>1
  <1>3. /\ n \in 0 .. Len(line)
        /\ g.active <= ActiveCapacity => g.active + n <= ActiveCapacity
        /\ n = Len(line) \/ g.active + n >= ActiveCapacity
    BY <1>1, <1>2 DEF NextInteractive
  <1> HIDE DEF n
  <1>4. n = Len(line) => SubSeq(line, n + 1, Len(line)) = <<>>
    BY <1>1, <1>3, FrontTaken, Zenon
  <1>5. InteractiveTaken(g, n).waiters["interactive"] = SubSeq(line, n + 1, Len(line))
    BY Zenon DEF InteractiveTaken, Class
  <1> QED BY <1>3, <1>4, <1>5, Zenon DEF n

\* Dispatch keeps the invariant, within the capacity, and leaves nobody that
\* could be granted.
LEMMA DispatchOK ==
    ASSUME NEW g, NEW p \in Steps, NEW k \in Classes, GateOK(g, p, k), Fits(g),
           \A r \in Waiting(g, "bulk") : Resumes(r) <=> p[r] \in Live
    PROVE  /\ GateOK(Dispatch(g), p, k) /\ Fits(Dispatch(g)) /\ Quiet(Dispatch(g), p)
           /\ Dispatch(g).parked \subseteq g.parked
           /\ Dispatch(g).bulk # 0 \/ Dispatch(g).waiters["bulk"] = g.waiters["bulk"]
  <1> DEFINE line == g.waiters["interactive"]
             q == g.waiters["bulk"]
  <1>1. g \in Gate /\ LinesOK(g) /\ g.active \in Nat /\ g.bulk \in Nat /\ g.active <= ActiveCapacity
        /\ ActiveCapacity \in Nat /\ q \in Seq(Request) /\ Distinct(q)
    <2>1. g \in Gate /\ LinesOK(g)
      BY Zenon DEF GateOK
    <2>2. ActiveCapacity \in Nat /\ g.active <= ActiveCapacity
      BY LimitAssumption DEF Fits, ActiveCapacity
    <2>3. g.active \in Nat /\ g.bulk \in Nat /\ q \in Seq(Request)
      BY <2>1, Zenon DEF Gate, Class
    <2>4. Distinct(q)
      BY <2>1, Zenon DEF LinesOK, Class
    <2> QED BY <2>1, <2>2, <2>3, <2>4, Zenon
  <1>2. q # <<>> => Head(q) \in Waiting(g, "bulk") /\ Head(q) \in Request
    BY <1>1, HeadTaken, Zenon DEF Waiting
  <1>3. CASE /\ q = <<>> \/ g.bulk # 0 \/ (~Resumes(Head(q)) /\ g.active >= ActiveCapacity)
             /\ Dispatch(g) = InteractiveTaken(g, NextInteractive(g.active, line))
    <2> DEFINE n == NextInteractive(g.active, line)
               d == InteractiveTaken(g, n)
    <2>1. /\ n \in 0 .. Len(line) /\ g.active + n <= ActiveCapacity
          /\ d.waiters["interactive"] = <<>> \/ g.active + n >= ActiveCapacity
      BY <1>1, NextInteractiveOK, Zenon
    <2> HIDE DEF n
    <2>2. GateOK(d, p, k)
      BY <2>1, InteractiveTakenOK, Zenon
    <2>3. /\ d.active = g.active + n /\ d.bulk = g.bulk /\ d.waiters["bulk"] = q /\ d.parked = g.parked
      BY Zenon DEF InteractiveTaken, Class
    <2> HIDE DEF d
    <2>4. n \in Nat
      BY <2>1
    <2>5. Quiet(d, p)
      BY <1>1, <1>2, <1>3, <2>1, <2>3, <2>4 DEF Quiet
    <2> QED BY <1>3, <2>1, <2>2, <2>3, <2>5, Zenon DEF Fits, d, n
  <1>4. ASSUME NEW r \in Request, g.bulk = 0, q # <<>>, r = Head(q),
               Resumes(r) \/ g.active < ActiveCapacity,
               Dispatch(g) = InteractiveTaken(BulkTaken(g, r), NextInteractive(BulkTaken(g, r).active, line))
        PROVE  /\ GateOK(Dispatch(g), p, k) /\ Fits(Dispatch(g)) /\ Quiet(Dispatch(g), p)
               /\ Dispatch(g).parked \subseteq g.parked
               /\ Dispatch(g).bulk # 0
    <2> DEFINE h == BulkTaken(g, r)
               n == NextInteractive(h.active, line)
               d == InteractiveTaken(h, n)
    <2>0. g.bulk = 0 /\ (Resumes(r) \/ g.active < ActiveCapacity)
      BY <1>4, Zenon
    <2>1. GateOK(h, p, k)
      BY <1>2, <1>4, BulkTakenOK, Zenon
    <2>2. h \in Gate /\ LinesOK(h)
      BY <2>1, Zenon DEF GateOK
    <2>3. /\ h.active = IF Resumes(r) THEN g.active ELSE g.active + 1
          /\ h.bulk = 1 /\ h.waiters["interactive"] = line /\ h.parked \subseteq g.parked
      BY <2>0 DEF BulkTaken, Class
    <2> HIDE DEF h
    <2>4. h.active <= ActiveCapacity
      <3>1. g.active \in Nat /\ ActiveCapacity \in Nat /\ g.active <= ActiveCapacity
        BY <1>1, Zenon
      <3> QED BY <2>0, <2>3, <3>1
    <2>5. /\ n \in 0 .. Len(line) /\ h.active + n <= ActiveCapacity
          /\ d.waiters["interactive"] = <<>> \/ h.active + n >= ActiveCapacity
      BY <2>2, <2>3, <2>4, NextInteractiveOK, Zenon
    <2> HIDE DEF n
    <2>6. GateOK(d, p, k)
      BY <2>1, <2>3, <2>5, InteractiveTakenOK, Zenon
    <2>7. /\ d.active = h.active + n /\ d.bulk = 1 /\ d.parked = h.parked
      BY <2>3, Zenon DEF InteractiveTaken
    <2> HIDE DEF d
    <2>8. Quiet(d, p)
      BY <2>5, <2>7 DEF Quiet
    <2>9. Dispatch(g) = d
      BY <1>4, Zenon DEF d, n, h
    <2>10. Fits(d) /\ d.parked \subseteq g.parked /\ d.bulk # 0
      BY <2>3, <2>5, <2>7 DEF Fits
    <2> QED BY <2>6, <2>8, <2>9, <2>10, Zenon
  <1> QED BY <1>1, <1>3, <1>4, DispatchRounds, Zenon

----------------------------------------------------------------------------
(***************************************************************************)
(* What the other critical sections do to the gate.                        *)
(***************************************************************************)

\* Only r's step and class differ.
OthersSame(p, q, k, l, r) == \A s \in Request \ {r} : q[s] = p[s] /\ l[s] = k[s]

\* A gate with another bulk counter.
LEMMA BulkSet ==
    ASSUME NEW g \in Gate, NEW b \in Nat
    PROVE  LET h == [g EXCEPT !.bulk = b]
           IN  /\ h \in Gate
               /\ h.active = g.active /\ h.bulk = b /\ h.waiters = g.waiters
               /\ h.granted = g.granted /\ h.parked = g.parked /\ h.retained = g.retained
  BY Zenon DEF Gate

\* A sum of two naturals that is zero.
LEMMA ZeroSum ==
    ASSUME NEW a \in Nat, NEW b \in Nat, a + b = 0
    PROVE  a = 0 /\ b = 0
  OBVIOUS

\* A permit that yields still has the bulk slot.
LEMMA YieldingHasBulk ==
    ASSUME NEW g, NEW p \in Steps, NEW k \in Classes, GateOK(g, p, k),
           NEW r \in Request, Yielding(g, p, r)
    PROVE  HasBulk(g, p, k, r)
  <1>1. CallerOK(g, r, p[r], k[r]) /\ p[r] \in Step
    BY Zenon DEF GateOK, Steps
  <1>2. p[r] \in {"parking", "surrendering", "parked", "resuming", "abandoning", "reparking", "leaving"}
        /\ k[r] = "bulk" /\ r \notin g.parked
    BY <1>1, Zenon DEF CallerOK, Yielding, Nowhere, Notified, Waits, Comes, Step, Live
  <1> QED BY <1>2, Zenon DEF HasBulk, Held, Live

\* Gate h is gate g after caller r has joined the end of line c.
Joins(g, h, c, r) ==
    /\ h \in Gate /\ LinesOK(h)
    /\ h.active = g.active /\ h.bulk = g.bulk /\ h.granted = g.granted
    /\ h.parked = g.parked /\ h.retained = g.retained
    /\ h.waiters[c] = Append(g.waiters[c], r)
    /\ \A d \in Class \ {c} : h.waiters[d] = g.waiters[d] /\ Waiting(h, d) = Waiting(g, d)
    /\ Waiting(h, c) = Waiting(g, c) \cup {r}

\* Gate h is gate g after caller r has left line c.
Leaves(g, h, c, r) ==
    /\ h \in Gate /\ LinesOK(h)
    /\ h.active = g.active /\ h.bulk = g.bulk /\ h.granted = g.granted
    /\ h.parked = g.parked /\ h.retained = g.retained
    /\ h.waiters[c] = Without(g.waiters[c], r)
    /\ \A d \in Class \ {c} : h.waiters[d] = g.waiters[d] /\ Waiting(h, d) = Waiting(g, d)
    /\ Waiting(h, c) = Waiting(g, c) \ {r}

\* A gate that r joins in line c.
LEMMA EnqueueFields ==
    ASSUME NEW g \in Gate, LinesOK(g), NEW c \in Class, NEW r \in Request, r \notin Waiting(g, c)
    PROVE  Joins(g, Enqueue(g, c, r), c, r)
  <1> DEFINE h == Enqueue(g, c, r)
  <1>1. g.waiters[c] \in Seq(Request) /\ Distinct(g.waiters[c]) /\ g.waiters \in [Class -> Seq(Request)]
    BY Zenon DEF Gate, LinesOK
  <1>2. /\ Append(g.waiters[c], r) \in Seq(Request) /\ Distinct(Append(g.waiters[c], r))
        /\ Range(Append(g.waiters[c], r)) = Range(g.waiters[c]) \cup {r}
    BY <1>1, Joined, Zenon DEF Waiting
  <1>3. /\ h.active = g.active /\ h.bulk = g.bulk /\ h.granted = g.granted
        /\ h.parked = g.parked /\ h.retained = g.retained
        /\ h.waiters = [g.waiters EXCEPT ![c] = Append(g.waiters[c], r)]
        /\ h \in Gate
    BY <1>1, <1>2, Zenon DEF Enqueue, Gate
  <1> HIDE DEF h
  <1>4. h.waiters[c] = Append(g.waiters[c], r) /\ \A d \in Class \ {c} : h.waiters[d] = g.waiters[d]
    BY <1>1, <1>3, Zenon
  <1>5. LinesOK(h)
    BY <1>2, <1>4, Zenon DEF LinesOK
  <1>6. Joins(g, h, c, r)
    BY <1>2, <1>3, <1>4, <1>5, Zenon DEF Joins, Waiting
  <1> QED BY <1>6, Zenon DEF h

\* A gate whose line c r leaves.
LEMMA RemoveFields ==
    ASSUME NEW g \in Gate, LinesOK(g), NEW c \in Class, NEW r \in Request
    PROVE  Leaves(g, RemoveWaiter(g, c, r), c, r)
  <1> DEFINE h == RemoveWaiter(g, c, r)
  <1>1. g.waiters[c] \in Seq(Request) /\ Distinct(g.waiters[c]) /\ g.waiters \in [Class -> Seq(Request)]
    BY Zenon DEF Gate, LinesOK
  <1>2. /\ Without(g.waiters[c], r) \in Seq(Request) /\ Distinct(Without(g.waiters[c], r))
        /\ Range(Without(g.waiters[c], r)) = Range(g.waiters[c]) \ {r}
    BY <1>1, Left, Zenon
  <1>3. /\ h.active = g.active /\ h.bulk = g.bulk /\ h.granted = g.granted
        /\ h.parked = g.parked /\ h.retained = g.retained
        /\ h.waiters = [g.waiters EXCEPT ![c] = Without(g.waiters[c], r)]
        /\ h \in Gate
    BY <1>1, <1>2, Zenon DEF RemoveWaiter, Gate
  <1> HIDE DEF h
  <1>4. h.waiters[c] = Without(g.waiters[c], r) /\ \A d \in Class \ {c} : h.waiters[d] = g.waiters[d]
    BY <1>1, <1>3, Zenon
  <1>5. LinesOK(h)
    BY <1>2, <1>4, Zenon DEF LinesOK
  <1>6. Leaves(g, h, c, r)
    BY <1>2, <1>3, <1>4, <1>5, Zenon DEF Leaves, Waiting
  <1> QED BY <1>6, Zenon DEF h

\* A caller that queues for a slot, or a permit for its own bulk slot.
LEMMA JoinOK ==
    ASSUME NEW g, NEW p \in Steps, NEW k \in Classes, GateOK(g, p, k),
           NEW q \in Steps, NEW c \in Class, NEW r \in Request, OthersSame(p, q, k, k, r),
           Nowhere(g, r), r \notin g.parked, k[r] = c,
           \/ p[r] \notin Live /\ q[r] = "queued"
           \/ p[r] \in Live /\ q[r] = "parking" /\ c = "bulk" /\ g.retained = NoRequest
    PROVE  GateOK(Enqueue(g, c, r), q, k)
  <1> DEFINE h == Enqueue(g, c, r)
  <1>1. g \in Gate /\ LinesOK(g) /\ ParkingOK(g, p) /\ r \notin Waiting(g, c) /\ r \notin g.granted
        /\ \A d \in Class : r \notin Waiting(g, d)
    BY Zenon DEF GateOK, Nowhere, Class
  <1>0. Joins(g, h, c, r)
    BY <1>1, EnqueueFields, Zenon
  <1> HIDE DEF h
  <1>2. /\ h \in Gate /\ LinesOK(h)
        /\ h.active = g.active /\ h.bulk = g.bulk /\ h.granted = g.granted
        /\ h.parked = g.parked /\ h.retained = g.retained
        /\ \A d \in Class \ {c} : Waiting(h, d) = Waiting(g, d)
        /\ Waiting(h, c) = Waiting(g, c) \cup {r}
    BY <1>0, Zenon DEF Joins
  <1>3. Waits(h, c, r)
    BY <1>1, <1>2, Zenon DEF Waits
  <1>4. CallerOK(h, r, q[r], k[r])
    BY <1>2, <1>3, Zenon DEF CallerOK
  <1>5. \A s \in Request \ {r} : Unmoved(g, p, k, h, q, k, s)
    BY <1>2, Zenon DEF Unmoved, OthersSame
  <1>6. ParkingOK(h, q)
    <2>1. q[r] = "parking" => g.parked = {}
      BY <1>1, Zenon DEF ParkingOK
    <2>2. \A s \in Request \ {r} : Yielding(h, q, s) => Yielding(g, p, s)
      BY <1>2, Zenon DEF Yielding, OthersSame
    <2> QED BY <1>1, <1>2, <2>1, <2>2, Zenon DEF ParkingOK, Yielding
  <1>7. (Held(h, q, r) <=> Held(g, p, r)) /\ (HasBulk(h, q, k, r) <=> HasBulk(g, p, k, r))
    BY <1>1, <1>2, Zenon DEF Held, HasBulk, Live
  <1>8. /\ g.active \in Nat /\ g.bulk \in {0, 1}
    BY Counters, Zenon
  <1>9. /\ h.active = g.active + One(Held(h, q, r)) - One(Held(g, p, r))
        /\ h.bulk = g.bulk + One(HasBulk(h, q, k, r)) - One(HasBulk(g, p, k, r))
        /\ h.bulk <= 1
    BY <1>2, <1>7, <1>8, SMTT(30) DEF One
  <1> QED BY <1>2, <1>4, <1>5, <1>6, <1>9, OneCaller, Zenon DEF h

\* A waiter withdrawn without its slots.
LEMMA LeaveOK ==
    ASSUME NEW g, NEW p \in Steps, NEW k \in Classes, GateOK(g, p, k),
           NEW q \in Steps, NEW l \in Classes, NEW c \in Class, NEW r \in Request,
           OthersSame(p, q, k, l, r),
           r \notin g.granted, \A d \in Class \ {c} : r \notin Waiting(g, d),
           \/ p[r] \notin Live /\ q[r] = "idle" /\ r \notin g.parked
           \/ p[r] \in Live /\ q[r] = "working" /\ l[r] = k[r] /\ k[r] = "bulk"
           \/ p[r] \in Live /\ q[r] = "resigning" /\ l[r] = k[r] /\ k[r] = "bulk" /\ r \in g.parked
    PROVE  GateOK(RemoveWaiter(g, c, r), q, l)
  <1> DEFINE h == RemoveWaiter(g, c, r)
  <1>1. g \in Gate /\ LinesOK(g) /\ ParkingOK(g, p)
    BY Zenon DEF GateOK
  <1>0. Leaves(g, h, c, r)
    BY <1>1, RemoveFields, Zenon
  <1> HIDE DEF h
  <1>2. /\ h \in Gate /\ LinesOK(h)
        /\ h.active = g.active /\ h.bulk = g.bulk /\ h.granted = g.granted
        /\ h.parked = g.parked /\ h.retained = g.retained
        /\ \A d \in Class \ {c} : Waiting(h, d) = Waiting(g, d)
        /\ Waiting(h, c) = Waiting(g, c) \ {r}
    BY <1>0, Zenon DEF Leaves
  <1>3. Nowhere(h, r)
    BY <1>2, Zenon DEF Nowhere, Class
  <1>4. CallerOK(h, r, q[r], l[r])
    BY <1>2, <1>3, Zenon DEF CallerOK
  <1>5. \A s \in Request \ {r} : Unmoved(g, p, k, h, q, l, s)
    BY <1>2, Zenon DEF Unmoved, OthersSame
  <1>6. ParkingOK(h, q)
    <2>1. ~Yielding(h, q, r)
      BY <1>2, Zenon DEF Yielding
    <2>2. \A s \in Request \ {r} : Yielding(h, q, s) => Yielding(g, p, s)
      BY <1>2, Zenon DEF Yielding, OthersSame
    <2> QED BY <1>1, <1>2, <2>1, <2>2, Zenon DEF ParkingOK
  <1>7. (Held(h, q, r) <=> Held(g, p, r)) /\ (HasBulk(h, q, l, r) <=> HasBulk(g, p, k, r))
    BY <1>2, Zenon DEF Held, HasBulk, Live
  <1>8. /\ g.active \in Nat /\ g.bulk \in {0, 1}
    BY Counters, Zenon
  <1>9. /\ h.active = g.active + One(Held(h, q, r)) - One(Held(g, p, r))
        /\ h.bulk = g.bulk + One(HasBulk(h, q, l, r)) - One(HasBulk(g, p, k, r))
        /\ h.bulk <= 1
    BY <1>2, <1>7, <1>8, SMTT(30) DEF One
  <1> QED BY <1>2, <1>4, <1>5, <1>6, <1>9, OneCaller, Zenon DEF h

\* A grant that nobody collected is given back.
LEMMA ReturnOK ==
    ASSUME IInv, NEW r \in Request, pc[r] = "queued", r \in gate.granted,
           NEW q \in Steps, NEW l \in Classes, OthersSame(pc, q, class, l, r), q[r] = "idle"
    PROVE  GateOK(Returned(gate, r), q, l) /\ Fits(Returned(gate, r))
           /\ Waiting(Returned(gate, r), "bulk") = Waiting(gate, "bulk")
           /\ Returned(gate, r).parked = gate.parked
  <1> DEFINE h == Returned(gate, r)
  <1>1. GateOK(gate, pc, class) /\ pc \in Steps /\ class \in Classes /\ gate.active <= ActiveCapacity
        /\ ActiveCapacity \in Nat
    BY LimitAssumption DEF IInv, TypeOK, Steps, Classes, Fits, ActiveCapacity
  <1>2. gate \in Gate /\ LinesOK(gate) /\ ParkingOK(gate, pc) /\ CallerOK(gate, r, pc[r], class[r])
    BY <1>1, Zenon DEF GateOK
  <1>3. class[r] \in Class /\ r \notin gate.parked /\ Notified(gate, r)
    BY <1>2, Zenon DEF CallerOK, Waits
  <1>4. Held(gate, pc, r) /\ (HasBulk(gate, pc, class, r) <=> IsBulk(class[r]))
    BY <1>3, Zenon DEF Held, HasBulk, IsBulk
  <1>5. /\ gate.active \in Nat /\ gate.active >= 1 /\ gate.bulk \in {0, 1}
        /\ IsBulk(class[r]) => gate.bulk = 1
    BY <1>1, <1>4, Counters, Zenon
  <1>6. /\ h.active = gate.active - 1
        /\ h.bulk = IF IsBulk(class[r]) THEN gate.bulk - 1 ELSE gate.bulk
        /\ h.waiters = gate.waiters /\ h.granted = gate.granted \ {r}
        /\ h.parked = gate.parked /\ h.retained = gate.retained
        /\ h \in Gate
    <2> DEFINE a == gate.active - 1
               b == IF IsBulk(class[r]) THEN gate.bulk - 1 ELSE gate.bulk
               G == gate.granted \ {r}
    <2>1. a \in Nat /\ b \in Nat /\ G \in SUBSET Request
      BY <1>2, <1>5 DEF Gate
    <2>2. h = [gate EXCEPT !.active = a, !.bulk = b, !.granted = G]
      BY Zenon DEF Returned
    <2> HIDE DEF h, a, b, G
    <2>3. /\ h \in Gate /\ h.active = a /\ h.bulk = b /\ h.waiters = gate.waiters
          /\ h.granted = G /\ h.parked = gate.parked /\ h.retained = gate.retained
      BY <1>2, <2>1, <2>2, Zenon DEF Gate
    <2> QED BY <2>3, Zenon DEF a, b, G
  <1> HIDE DEF h
  <1>7. \A c \in Class : Waiting(h, c) = Waiting(gate, c)
    BY <1>6, Zenon DEF Waiting
  <1>8. LinesOK(h)
    BY <1>2, <1>6, Zenon DEF LinesOK
  <1>9. CallerOK(h, r, q[r], l[r])
    BY <1>3, <1>6, <1>7, Zenon DEF CallerOK, Nowhere, Notified, Class
  <1>10. \A s \in Request \ {r} : Unmoved(gate, pc, class, h, q, l, s)
    BY <1>6, <1>7, Zenon DEF Unmoved, OthersSame
  <1>11. ParkingOK(h, q)
    <2>1. ~Yielding(h, q, r)
      BY <1>6, Zenon DEF Yielding
    <2>2. \A s \in Request \ {r} : Yielding(h, q, s) => Yielding(gate, pc, s)
      BY <1>6, Zenon DEF Yielding, OthersSame
    <2> QED BY <1>2, <1>6, <2>1, <2>2, Zenon DEF ParkingOK
  <1>12. ~Held(h, q, r) /\ ~HasBulk(h, q, l, r)
    BY <1>6, Zenon DEF Held, HasBulk, Live
  <1>13. /\ h.active = gate.active + One(Held(h, q, r)) - One(Held(gate, pc, r))
         /\ h.bulk = gate.bulk + One(HasBulk(h, q, l, r)) - One(HasBulk(gate, pc, class, r))
         /\ h.bulk <= 1
    BY <1>4, <1>5, <1>6, <1>12 DEF One
  <1>14. GateOK(h, q, l)
    BY <1>1, <1>6, <1>8, <1>9, <1>10, <1>11, <1>13, OneCaller, Zenon
  <1>15. Fits(h)
    BY <1>1, <1>5, <1>6, SMTT(30) DEF Fits
  <1> QED BY <1>6, <1>7, <1>14, <1>15, Zenon DEF h, Class

\* The slots of a released permit are given back.
LEMMA VacateOK ==
    ASSUME IInv, NEW r \in Request, pc[r] = "leaving",
           NEW q \in Steps, NEW l \in Classes, OthersSame(pc, q, class, l, r), q[r] = "idle"
    PROVE  GateOK(Vacated(gate, r), q, l) /\ Fits(Vacated(gate, r))
           /\ Waiting(Vacated(gate, r), "bulk") = Waiting(gate, "bulk") \ {r}
           /\ Vacated(gate, r).parked \subseteq gate.parked
  <1> DEFINE g == IF r \in gate.granted THEN gate ELSE RemoveWaiter(gate, "bulk", r)
             h == Vacated(gate, r)
  <1>0. h = [active |-> g.active - 1,
             bulk |-> IF IsBulk(class[r]) /\ r \notin g.parked THEN g.bulk - 1 ELSE g.bulk,
             waiters |-> g.waiters, granted |-> g.granted \ {r}, parked |-> g.parked \ {r},
             retained |-> IF g.retained = r THEN NoRequest ELSE g.retained]
    BY Zenon DEF Vacated
  <1> HIDE DEF h
  <1>1. GateOK(gate, pc, class) /\ pc \in Steps /\ class \in Classes /\ gate.active <= ActiveCapacity
        /\ ActiveCapacity \in Nat /\ "bulk" \in Class
    BY LimitAssumption DEF IInv, TypeOK, Steps, Classes, Fits, ActiveCapacity, Class
  <1>2. gate \in Gate /\ LinesOK(gate) /\ ParkingOK(gate, pc) /\ CallerOK(gate, r, pc[r], class[r])
    BY <1>1, Zenon DEF GateOK
  <1>3. /\ r \notin Waiting(gate, "interactive")
        /\ r \in gate.granted => r \notin Waiting(gate, "bulk")
    BY <1>2, Zenon DEF CallerOK, Nowhere, Notified, Waits, Comes, Class
  <1>4. /\ g \in Gate /\ LinesOK(g)
        /\ g.active = gate.active /\ g.bulk = gate.bulk /\ g.granted = gate.granted
        /\ g.parked = gate.parked /\ g.retained = gate.retained
        /\ Waiting(g, "interactive") = Waiting(gate, "interactive")
        /\ Waiting(g, "bulk") = Waiting(gate, "bulk") \ {r}
    <2>1. CASE r \in gate.granted
      BY <1>2, <1>3, <2>1, Zenon
    <2>2. CASE r \notin gate.granted
      <3>1. Leaves(gate, RemoveWaiter(gate, "bulk", r), "bulk", r)
        BY <1>1, <1>2, RemoveFields, Zenon
      <3>2. g = RemoveWaiter(gate, "bulk", r) /\ "interactive" \in Class \ {"bulk"}
        BY <2>2, Zenon DEF Class
      <3> HIDE DEF g
      <3>3. Leaves(gate, g, "bulk", r)
        BY <3>1, <3>2, Zenon
      <3> QED BY <3>2, <3>3, Zenon DEF Leaves
    <2> QED BY <2>1, <2>2, Zenon
  <1> HIDE DEF g
  <1>5. Held(gate, pc, r) /\ (HasBulk(gate, pc, class, r) <=> IsBulk(class[r]) /\ r \notin gate.parked)
    BY Zenon DEF Held, HasBulk, IsBulk, Live
  <1>6. /\ gate.active \in Nat /\ gate.active >= 1 /\ gate.bulk \in {0, 1}
        /\ IsBulk(class[r]) /\ r \notin gate.parked => gate.bulk = 1
    BY <1>1, <1>5, Counters, Zenon
  <1>7. /\ h.active = g.active - 1
        /\ h.bulk = IF IsBulk(class[r]) /\ r \notin g.parked THEN g.bulk - 1 ELSE g.bulk
        /\ h.waiters = g.waiters /\ h.granted = g.granted \ {r} /\ h.parked = g.parked \ {r}
        /\ h.retained = IF g.retained = r THEN NoRequest ELSE g.retained
    BY <1>0, Zenon
  <1>8. h \in Gate
    <2>1. g.active - 1 \in Nat /\ (IF IsBulk(class[r]) /\ r \notin g.parked THEN g.bulk - 1 ELSE g.bulk) \in Nat
      BY <1>4, <1>6, SMTT(30)
    <2>2. g.waiters \in [Class -> Seq(Request)] /\ g.granted \in SUBSET Request /\ g.parked \in SUBSET Request
          /\ g.retained \in Request \cup {NoRequest}
      BY <1>4, Zenon DEF Gate
    <2> QED BY <1>0, <2>1, <2>2, Zenon DEF Gate
  <1>9. \A c \in Class : Waiting(h, c) = Waiting(g, c)
    BY <1>7, Zenon DEF Waiting
  <1>10. LinesOK(h)
    BY <1>4, <1>7, Zenon DEF LinesOK
  <1>11. CallerOK(h, r, q[r], l[r])
    BY <1>3, <1>4, <1>7, <1>9, Zenon DEF CallerOK, Nowhere, Class
  <1>12. \A s \in Request \ {r} : Unmoved(gate, pc, class, h, q, l, s)
    BY <1>4, <1>7, <1>9, Zenon DEF Unmoved, OthersSame, Class
  <1>13. ParkingOK(h, q)
    <2>1. ~Yielding(h, q, r)
      BY <1>7, Zenon DEF Yielding
    <2>2. \A s \in Request \ {r} : Yielding(h, q, s) => Yielding(gate, pc, s)
      BY <1>4, <1>7, Zenon DEF Yielding, OthersSame
    <2>3. h.parked = {h.retained} \ {NoRequest}
      BY <1>2, <1>4, <1>7, RequestAssumption, Zenon DEF ParkingOK
    <2> QED BY <1>2, <1>4, <1>7, <2>1, <2>2, <2>3, Zenon DEF ParkingOK
  <1>14. ~Held(h, q, r) /\ ~HasBulk(h, q, l, r)
    BY <1>7, Zenon DEF Held, HasBulk, Live
  <1>15. /\ h.active = gate.active + One(Held(h, q, r)) - One(Held(gate, pc, r))
         /\ h.bulk = gate.bulk + One(HasBulk(h, q, l, r)) - One(HasBulk(gate, pc, class, r))
         /\ h.bulk <= 1
    BY <1>4, <1>5, <1>6, <1>7, <1>14, SMTT(30) DEF One
  <1>16. GateOK(h, q, l)
    BY <1>1, <1>8, <1>10, <1>11, <1>12, <1>13, <1>15, OneCaller, Zenon
  <1>17. Fits(h)
    <2>1. h.active = gate.active - 1
      BY <1>4, <1>7, Zenon
    <2> QED BY <1>1, <1>6, <2>1 DEF Fits
  <1> QED BY <1>1, <1>4, <1>7, <1>9, <1>16, <1>17, Zenon DEF h, g

\* A permit parks its bulk slot; nobody else is parked or has one.
LEMMA SurrenderOK ==
    ASSUME IInv, NEW r \in Request, NEW q \in Steps, OthersSame(pc, q, class, class, r),
           \/ pc[r] = "surrendering" /\ q[r] = "parked"
           \/ pc[r] = "reparking" /\ q[r] = "working"
    PROVE  GateOK(Surrendered(gate, r), q, class) /\ Fits(Surrendered(gate, r))
           /\ Waiting(Surrendered(gate, r), "bulk") = Waiting(gate, "bulk")
           /\ Surrendered(gate, r).parked = gate.parked \cup {r}
  <1> DEFINE h == Surrendered(gate, r)
  <1>1. GateOK(gate, pc, class) /\ pc \in Steps /\ class \in Classes /\ gate.active <= ActiveCapacity
    BY Zenon DEF IInv, TypeOK, Steps, Classes, Fits
  <1>2. gate \in Gate /\ LinesOK(gate) /\ ParkingOK(gate, pc) /\ CallerOK(gate, r, pc[r], class[r])
    BY <1>1, Zenon DEF GateOK
  <1>3. /\ class[r] = "bulk" /\ r \notin gate.parked
        /\ pc[r] = "surrendering" => Waits(gate, "bulk", r)
        /\ pc[r] = "reparking" => Notified(gate, r)
    BY <1>2, Zenon DEF CallerOK
  <1>4. Yielding(gate, pc, r)
    BY <1>3, Zenon DEF Yielding, Notified
  <1>5. gate.parked = {}
    BY <1>2, <1>4, Zenon DEF ParkingOK
  <1>6. Held(gate, pc, r) /\ HasBulk(gate, pc, class, r)
    BY <1>3, Zenon DEF Held, HasBulk, Live
  <1>7. gate.active \in Nat /\ gate.bulk = 1
    BY <1>1, <1>6, Counters, Zenon
  <1>8. /\ h.active = gate.active /\ h.bulk = 0 /\ h.waiters = gate.waiters
        /\ h.granted = gate.granted \ {r} /\ h.parked = gate.parked \cup {r} /\ h.retained = r
        /\ h \in Gate
    <2> DEFINE b == gate.bulk - 1
               G == gate.granted \ {r}
               P == gate.parked \cup {r}
    <2>1. b = 0 /\ b \in Nat /\ G \in SUBSET Request /\ P \in SUBSET Request
      BY <1>2, <1>7 DEF Gate
    <2>2. h = [gate EXCEPT !.bulk = b, !.parked = P, !.retained = r, !.granted = G]
      BY Zenon DEF Surrendered
    <2> HIDE DEF h, b, G, P
    <2>3. /\ h \in Gate /\ h.active = gate.active /\ h.bulk = b /\ h.waiters = gate.waiters
          /\ h.granted = G /\ h.parked = P /\ h.retained = r
      BY <1>2, <2>1, <2>2, Zenon DEF Gate
    <2> QED BY <2>1, <2>3, Zenon DEF G, P
  <1> HIDE DEF h
  <1>9. \A c \in Class : Waiting(h, c) = Waiting(gate, c)
    BY <1>8, Zenon DEF Waiting
  <1>10. LinesOK(h)
    BY <1>2, <1>8, Zenon DEF LinesOK
  <1>11. CallerOK(h, r, q[r], class[r])
    <2>1. CASE pc[r] = "surrendering"
      <3>1. Waits(h, "bulk", r) /\ r \in h.parked
        BY <1>3, <1>8, <1>9, <2>1, Zenon DEF Waits, Class
      <3> QED BY <1>3, <2>1, <3>1, Zenon DEF CallerOK, Comes
    <2>2. CASE pc[r] = "reparking"
      <3>1. Nowhere(h, r)
        BY <1>3, <1>8, <1>9, <2>2, Zenon DEF Notified, Nowhere, Class
      <3> QED BY <1>3, <2>2, <3>1, Zenon DEF CallerOK
    <2> QED BY <2>1, <2>2, Zenon
  <1>12. \A s \in Request \ {r} : Unmoved(gate, pc, class, h, q, class, s)
    BY <1>8, <1>9, Zenon DEF Unmoved, OthersSame
  <1>13. ParkingOK(h, q)
    <2>1. ~Yielding(h, q, r)
      BY <1>8, Zenon DEF Yielding
    <2>2. \A s \in Request \ {r} : Yielding(h, q, s) => Yielding(gate, pc, s)
      BY <1>8, Zenon DEF Yielding, OthersSame
    <2>3. \A s \in Request \ {r} : ~Yielding(gate, pc, s)
      BY <1>1, <1>6, YieldingHasBulk, Counters, Zenon
    <2> QED BY <1>5, <1>8, <2>1, <2>2, <2>3, RequestAssumption, Zenon DEF ParkingOK
  <1>14. Held(h, q, r) /\ ~HasBulk(h, q, class, r)
    BY <1>8, Zenon DEF Held, HasBulk, Live
  <1>15. /\ h.active = gate.active + One(Held(h, q, r)) - One(Held(gate, pc, r))
         /\ h.bulk = gate.bulk + One(HasBulk(h, q, class, r)) - One(HasBulk(gate, pc, class, r))
         /\ h.bulk <= 1
    BY <1>6, <1>7, <1>8, <1>14 DEF One
  <1>16. GateOK(h, q, class)
    BY <1>1, <1>8, <1>10, <1>11, <1>12, <1>13, <1>15, OneCaller, Zenon
  <1>17. Fits(h)
    BY <1>1, <1>8, Zenon DEF Fits
  <1> QED BY <1>8, <1>9, <1>16, <1>17, Zenon DEF h, Class

----------------------------------------------------------------------------
(***************************************************************************)
(* Who is handed a slot, and before whom: the order of the lines.          *)
(***************************************************************************)

\* Queue w has nobody before a member of q who was not before it in q.
Ordered(q, w) ==
    \A r, s \in Request : r \in Range(q) /\ Before(w, s, r) => Before(q, s, r)

\* In queue q caller s comes before all who are left of it in w.
Precedes(q, w, s) ==
    \A r \in Request : r \in Range(q) /\ r \in Range(w) /\ r # s => Before(q, s, r)

\* Whoever is before somebody is in the queue, and so is the other.
LEMMA BeforeMembers ==
    ASSUME NEW q \in Seq(Request), NEW r, NEW s, Before(q, s, r)
    PROVE  r \in Range(q) /\ s \in Range(q)
  BY Members, Zenon DEF Before

\* A queue and itself.
LEMMA OrderKept ==
    ASSUME NEW q \in Seq(Request)
    PROVE  Ordered(q, q)
  BY Zenon DEF Ordered

\* Two changes of a queue, the second of which lets nobody in.
LEMMA OrderComposed ==
    ASSUME NEW q \in Seq(Request), NEW v \in Seq(Request), NEW w \in Seq(Request),
           Ordered(q, v), Ordered(v, w), Range(w) \subseteq Range(v)
    PROVE  /\ Ordered(q, w)
           /\ \A s \in Request : Precedes(v, w, s) => Precedes(q, w, s)
           /\ \A s \in Request : Precedes(q, v, s) => Precedes(q, w, s)
  <1>1. ASSUME NEW r \in Request, NEW s \in Request, r \in Range(q), Before(w, s, r) PROVE Before(q, s, r)
    <2>1. r \in Range(v)
      BY <1>1, BeforeMembers, Zenon
    <2> QED BY <1>1, <2>1, Zenon DEF Ordered
  <1>2. ASSUME NEW s \in Request, Precedes(v, w, s) PROVE Precedes(q, w, s)
    BY <1>2, Zenon DEF Precedes, Ordered
  <1>3. ASSUME NEW s \in Request, Precedes(q, v, s) PROVE Precedes(q, w, s)
    BY <1>3, Zenon DEF Precedes
  <1> QED BY <1>1, <1>2, <1>3, Zenon DEF Ordered

\* A newcomer goes last.
LEMMA OrderJoined ==
    ASSUME NEW q \in Seq(Request), NEW x \in Request, x \notin Range(q)
    PROVE  Ordered(q, Append(q, x))
  <1> DEFINE a == Append(q, x)
  <1>1. Len(a) = Len(q) + 1 /\ (\A i \in 1 .. Len(q) : a[i] = q[i]) /\ a[Len(q) + 1] = x /\ Len(q) \in Nat
    BY Lengths
  <1> HIDE DEF a
  <1>2. ASSUME NEW r \in Request, NEW s \in Request, r \in Range(q), Before(a, s, r) PROVE Before(q, s, r)
    <2>1. PICK i \in 1 .. Len(a), j \in 1 .. Len(a) : i < j /\ a[i] = s /\ a[j] = r
      BY <1>2, Zenon DEF Before
    <2>2. j # Len(q) + 1
      BY <1>1, <1>2, <2>1, Zenon
    <2>3. i \in 1 .. Len(q) /\ j \in 1 .. Len(q)
      BY <1>1, <2>1, <2>2
    <2> QED BY <1>1, <2>1, <2>3, Zenon DEF Before
  <1> QED BY <1>2, Zenon DEF Ordered, a

\* Those who stay keep their order when somebody leaves.
LEMMA OrderLeft ==
    ASSUME NEW q \in Seq(Request), NEW x
    PROVE  Ordered(q, Without(q, x))
  <1>1. CASE x \notin Range(q)
    BY <1>1, OrderKept, Zenon DEF Without
  <1>2. CASE x \in Range(q)
    <2> DEFINE at == CHOOSE i \in 1 .. Len(q) : q[i] = x
               w == [i \in 1 .. Len(q) - 1 |-> IF i < at THEN q[i] ELSE q[i + 1]]
    <2>1. Len(q) \in Nat /\ Range(q) = {q[i] : i \in 1 .. Len(q)} /\ \A i \in 1 .. Len(q) : q[i] \in Request
      BY Members, Zenon
    <2>2. at \in 1 .. Len(q)
      BY <1>2, <2>1, Zenon
    <2>3. Without(q, x) = w
      BY <1>2, Zenon DEF Without
    <2> HIDE DEF at
    <2>4. Len(q) - 1 \in Nat
      BY <2>1, <2>2
    <2>5. \A i \in 1 .. Len(q) - 1 : w[i] \in Request
      BY <2>1, <2>2
    <2>6. w \in Seq(Request) /\ Len(w) = Len(q) - 1
      BY <2>4, <2>5
    <2>7. \A i \in 1 .. Len(q) - 1 : w[i] = IF i < at THEN q[i] ELSE q[i + 1]
      BY Zenon
    <2> HIDE DEF w
    <2>8. ASSUME NEW r \in Request, NEW s \in Request, Before(w, s, r) PROVE Before(q, s, r)
      <3>1. PICK i \in 1 .. Len(w), j \in 1 .. Len(w) : i < j /\ w[i] = s /\ w[j] = r
        BY <2>8, Zenon DEF Before
      <3> DEFINE m == IF i < at THEN i ELSE i + 1
                 n == IF j < at THEN j ELSE j + 1
      <3>2. m \in 1 .. Len(q) /\ n \in 1 .. Len(q) /\ m < n
        BY <2>1, <2>2, <2>6, <3>1
      <3>3. q[m] = s /\ q[n] = r
        BY <2>6, <2>7, <3>1, Zenon
      <3> HIDE DEF m, n
      <3> QED BY <3>2, <3>3, Zenon DEF Before
    <2> QED BY <2>3, <2>8, Zenon DEF Ordered
  <1> QED BY <1>1, <1>2, Zenon

\* The first in line goes, ahead of all who are left.
LEMMA OrderHead ==
    ASSUME NEW q \in Seq(Request), q # <<>>
    PROVE  Ordered(q, Tail(q)) /\ Precedes(q, Tail(q), Head(q)) /\ Range(Tail(q)) \subseteq Range(q) /\ Tail(q) \in Seq(Request)
  <1> DEFINE t == Tail(q)
  <1>1. t \in Seq(Request) /\ Len(t) = Len(q) - 1 /\ Len(q) \in Nat \ {0} /\ \A i \in 1 .. Len(t) : t[i] = q[i + 1]
    BY Lengths
  <1>2. Head(q) = q[1]
    BY <1>1
  <1> HIDE DEF t
  <1>3. Range(t) = {t[i] : i \in 1 .. Len(t)} /\ Range(q) = {q[i] : i \in 1 .. Len(q)}
    BY <1>1, Members, Zenon
  <1>4. \A i \in 1 .. Len(t) : i + 1 \in 1 .. Len(q) /\ 1 < i + 1 /\ 1 \in 1 .. Len(q)
    BY <1>1
  <1>5. Range(t) \subseteq Range(q)
    BY <1>1, <1>3, <1>4, Zenon
  <1>6. ASSUME NEW r \in Request, NEW s \in Request, Before(t, s, r) PROVE Before(q, s, r)
    <2>1. PICK i \in 1 .. Len(t), j \in 1 .. Len(t) : i < j /\ t[i] = s /\ t[j] = r
      BY <1>6, Zenon DEF Before
    <2>2. i + 1 \in 1 .. Len(q) /\ j + 1 \in 1 .. Len(q) /\ i + 1 < j + 1 /\ q[i + 1] = s /\ q[j + 1] = r
      BY <1>1, <1>4, <2>1
    <2> QED BY <2>2, Zenon DEF Before
  <1>7. ASSUME NEW r \in Range(t) PROVE Before(q, Head(q), r)
    <2>1. PICK j \in 1 .. Len(t) : t[j] = r
      BY <1>3, Zenon
    <2>2. q[j + 1] = r
      BY <1>1, <2>1, Zenon
    <2> QED BY <1>2, <1>4, <2>1, <2>2, Zenon DEF Before
  <1> QED BY <1>1, <1>5, <1>6, <1>7, Zenon DEF Ordered, Precedes, t

\* The front of a line goes, ahead of all who are left.
LEMMA OrderFront ==
    ASSUME NEW q \in Seq(Request), NEW n \in 0 .. Len(q)
    PROVE  LET rest == SubSeq(q, n + 1, Len(q))
           IN  /\ Ordered(q, rest) /\ Range(rest) \subseteq Range(q) /\ rest \in Seq(Request)
               /\ \A i \in 1 .. n : Precedes(q, rest, q[i]) /\ q[i] \in Range(q)
  <1> DEFINE t == SubSeq(q, n + 1, Len(q))
  <1>0. Len(q) \in Nat /\ n \in Nat /\ n <= Len(q)
    BY Lengths
  <1>1. t \in Seq(Request) /\ Len(t) = Len(q) - n /\ \A i \in 1 .. Len(q) - n : t[i] = q[i + n]
    BY <1>0
  <1> HIDE DEF t
  <1>3. Range(t) = {t[i] : i \in 1 .. Len(t)} /\ Range(q) = {q[i] : i \in 1 .. Len(q)}
    BY <1>1, Members, Zenon
  <1>4. \A i \in 1 .. Len(t) : i + n \in 1 .. Len(q) /\ n < i + n /\ t[i] = q[i + n]
    BY <1>0, <1>1
  <1>5. Range(t) \subseteq Range(q)
    BY <1>3, <1>4, Zenon
  <1>6. ASSUME NEW r \in Request, NEW s \in Request, Before(t, s, r) PROVE Before(q, s, r)
    <2>1. PICK i \in 1 .. Len(t), j \in 1 .. Len(t) : i < j /\ t[i] = s /\ t[j] = r
      BY <1>6, Zenon DEF Before
    <2>2. i + n \in 1 .. Len(q) /\ j + n \in 1 .. Len(q) /\ i + n < j + n /\ q[i + n] = s /\ q[j + n] = r
      BY <1>0, <1>1, <1>4, <2>1
    <2> QED BY <2>2, Zenon DEF Before
  <1>7. ASSUME NEW i \in 1 .. n, NEW r \in Range(t) PROVE Before(q, q[i], r)
    <2>1. PICK j \in 1 .. Len(t) : t[j] = r
      BY <1>3, Zenon
    <2>2. q[j + n] = r /\ j + n \in 1 .. Len(q) /\ i \in 1 .. Len(q) /\ i < j + n
      BY <1>0, <1>1, <1>4, <2>1
    <2> QED BY <2>2, Zenon DEF Before
  <1>8. \A i \in 1 .. n : q[i] \in Range(q)
    BY <1>0, <1>3
  <1> QED BY <1>1, <1>5, <1>6, <1>7, <1>8, Zenon DEF Ordered, Precedes, t

\* What a change from gate g to gate h may do to the callers other than x: who
\* is granted a slot, or its bulk slot again, was in line before all who stay.
Handed(g, h, x) ==
    /\ \A c \in Class : Ordered(g.waiters[c], h.waiters[c]) /\ Waiting(h, c) \subseteq Waiting(g, c) \cup {x}
    /\ \A s \in Request \ {x} : s \in h.granted =>
          s \in g.granted \/ \E c \in Class : s \in Waiting(g, c) /\ Precedes(g.waiters[c], h.waiters[c], s)
    /\ \A s \in Request \ {x} : s \in g.parked =>
          s \in h.parked \/ Precedes(g.waiters["bulk"], h.waiters["bulk"], s)

Lined(g) == \A c \in Class : g.waiters[c] \in Seq(Request)

\* Two changes, the second of which lets nobody into a line.
LEMMA HandedComposed ==
    ASSUME NEW g, NEW e, NEW h, NEW x, Lined(g), Lined(e), Lined(h),
           Handed(g, e, x), Handed(e, h, x), \A c \in Class : Waiting(h, c) \subseteq Waiting(e, c)
    PROVE  Handed(g, h, x)
  <1>0. "bulk" \in Class
    BY Zenon DEF Class
  <1>1. ASSUME NEW c \in Class
        PROVE  /\ Ordered(g.waiters[c], h.waiters[c])
               /\ \A s \in Request : Precedes(e.waiters[c], h.waiters[c], s) => Precedes(g.waiters[c], h.waiters[c], s)
               /\ \A s \in Request : Precedes(g.waiters[c], e.waiters[c], s) => Precedes(g.waiters[c], h.waiters[c], s)
    <2> DEFINE q == g.waiters[c]
               v == e.waiters[c]
               w == h.waiters[c]
    <2>1. q \in Seq(Request) /\ v \in Seq(Request) /\ w \in Seq(Request) /\ Ordered(q, v) /\ Ordered(v, w)
          /\ Range(w) \subseteq Range(v)
      BY Zenon DEF Lined, Handed, Waiting
    <2> HIDE DEF q, v, w
    <2>2. /\ Ordered(q, w)
          /\ \A s \in Request : Precedes(v, w, s) => Precedes(q, w, s)
          /\ \A s \in Request : Precedes(q, v, s) => Precedes(q, w, s)
      BY <2>1, OrderComposed, Zenon
    <2> QED BY <2>2, Zenon DEF q, v, w
  <1>2. \A c \in Class : Waiting(h, c) \subseteq Waiting(g, c) \cup {x}
    BY Zenon DEF Handed
  <1>3. ASSUME NEW s \in Request \ {x}, s \in h.granted, s \notin g.granted
        PROVE  \E c \in Class : s \in Waiting(g, c) /\ Precedes(g.waiters[c], h.waiters[c], s)
    <2>1. CASE s \in e.granted
      BY <1>1, <1>3, <2>1, Zenon DEF Handed
    <2>2. CASE s \notin e.granted
      <3>1. PICK c \in Class : s \in Waiting(e, c) /\ Precedes(e.waiters[c], h.waiters[c], s)
        BY <1>3, <2>2, Zenon DEF Handed
      <3>2. s \in Waiting(g, c)
        BY <1>3, <3>1, Zenon DEF Handed
      <3> QED BY <1>1, <1>3, <3>1, <3>2, Zenon
    <2> QED BY <2>1, <2>2, Zenon
  <1>4. ASSUME NEW s \in Request \ {x}, s \in g.parked, s \notin h.parked
        PROVE  Precedes(g.waiters["bulk"], h.waiters["bulk"], s)
    BY <1>0, <1>1, <1>4, Zenon DEF Handed
  <1> QED BY <1>1, <1>2, <1>3, <1>4, Zenon DEF Handed

\* A change that leaves the lines alone.
LEMMA HandedSame ==
    ASSUME NEW g, NEW h, NEW x, Lined(g), h.waiters = g.waiters,
           \A s \in Request \ {x} : (s \in h.granted => s \in g.granted) /\ (s \in g.parked => s \in h.parked)
    PROVE  Handed(g, h, x) /\ Lined(h)
  <1>1. \A c \in Class : Ordered(g.waiters[c], h.waiters[c]) /\ Waiting(h, c) \subseteq Waiting(g, c) \cup {x}
    BY OrderKept, Zenon DEF Lined, Waiting
  <1> QED BY <1>1, Zenon DEF Handed, Lined

\* Caller x joins a line.
LEMMA HandedJoin ==
    ASSUME NEW g, NEW h, NEW x \in Request, NEW c \in Class, Lined(g), x \notin Waiting(g, c), Joins(g, h, c, x)
    PROVE  Handed(g, h, x) /\ Lined(h)
  <1>1. ASSUME NEW d \in Class
        PROVE  Ordered(g.waiters[d], h.waiters[d]) /\ Waiting(h, d) \subseteq Waiting(g, d) \cup {x} /\ h.waiters[d] \in Seq(Request)
    <2>1. CASE d = c
      <3>1. g.waiters[c] \in Seq(Request) /\ x \notin Range(g.waiters[c])
        BY Zenon DEF Lined, Waiting
      <3>2. Ordered(g.waiters[c], Append(g.waiters[c], x))
        BY <3>1, OrderJoined, Zenon
      <3>3. h.waiters[c] = Append(g.waiters[c], x) /\ h.waiters[c] \in Seq(Request)
        BY Zenon DEF Joins, Gate
      <3> QED BY <2>1, <3>2, <3>3, Zenon DEF Joins
    <2>2. CASE d # c
      BY <2>2, OrderKept, Zenon DEF Lined, Joins
    <2> QED BY <2>1, <2>2, Zenon
  <1> QED BY <1>1, Zenon DEF Handed, Lined, Joins

\* Caller x leaves a line.
LEMMA HandedLeave ==
    ASSUME NEW g, NEW h, NEW x \in Request, NEW c \in Class, Lined(g), Leaves(g, h, c, x)
    PROVE  Handed(g, h, x) /\ Lined(h) /\ \A d \in Class : Waiting(h, d) \subseteq Waiting(g, d)
  <1>1. ASSUME NEW d \in Class
        PROVE  Ordered(g.waiters[d], h.waiters[d]) /\ Waiting(h, d) \subseteq Waiting(g, d)
    <2>1. CASE d = c
      BY <2>1, OrderLeft, Zenon DEF Lined, Waiting, Leaves
    <2>2. CASE d # c
      BY <2>2, OrderKept, Zenon DEF Lined, Leaves
    <2> QED BY <2>1, <2>2, Zenon
  <1>2. Lined(h)
    BY Zenon DEF Lined, Leaves, Gate
  <1> QED BY <1>1, <1>2, Zenon DEF Handed, Leaves

\* The first round of dispatch.
LEMMA HandedBulk ==
    ASSUME NEW g, NEW r \in Request, Lined(g), g.waiters["bulk"] # <<>>, r = Head(g.waiters["bulk"]), NEW x
    PROVE  LET h == BulkTaken(g, r)
           IN  Handed(g, h, x) /\ Lined(h) /\ \A d \in Class : Waiting(h, d) \subseteq Waiting(g, d)
  <1> DEFINE h == BulkTaken(g, r)
             q == g.waiters["bulk"]
  <1>0. Class = {"interactive", "bulk"} /\ q \in Seq(Request)
    BY Zenon DEF Class, Lined
  <1>1. /\ h.waiters["interactive"] = g.waiters["interactive"] /\ h.waiters["bulk"] = Tail(q)
        /\ h.granted = g.granted \cup {r} /\ h.parked = g.parked \ {r}
    BY Zenon DEF BulkTaken, Class
  <1>2. Ordered(q, Tail(q)) /\ Precedes(q, Tail(q), r) /\ Range(Tail(q)) \subseteq Range(q) /\ Tail(q) \in Seq(Request)
    BY <1>0, OrderHead, Zenon
  <1>3. Ordered(g.waiters["interactive"], h.waiters["interactive"])
    BY <1>0, <1>1, OrderKept, Zenon DEF Lined
  <1>4. r \in Waiting(g, "bulk")
    BY <1>0, Members, Lengths DEF Waiting
  <1> HIDE DEF h
  <1>5. Lined(h)
    BY <1>0, <1>1, <1>2, Zenon DEF Lined
  <1>6. \A d \in Class : Waiting(h, d) \subseteq Waiting(g, d) /\ Ordered(g.waiters[d], h.waiters[d])
    BY <1>0, <1>1, <1>2, <1>3, Zenon DEF Waiting
  <1>7. Handed(g, h, x)
    BY <1>0, <1>1, <1>2, <1>4, <1>6, Zenon DEF Handed
  <1> QED BY <1>5, <1>6, <1>7, Zenon DEF h

\* The second round of dispatch.
LEMMA HandedInteractive ==
    ASSUME NEW g, Lined(g), NEW n \in 0 .. Len(g.waiters["interactive"]), NEW x
    PROVE  LET h == InteractiveTaken(g, n)
           IN  Handed(g, h, x) /\ Lined(h) /\ \A d \in Class : Waiting(h, d) \subseteq Waiting(g, d)
  <1> DEFINE h == InteractiveTaken(g, n)
             q == g.waiters["interactive"]
             t == SubSeq(q, n + 1, Len(q))
  <1>0. Class = {"interactive", "bulk"} /\ q \in Seq(Request)
    BY Zenon DEF Class, Lined
  <1>1. /\ h.waiters["interactive"] = t /\ h.waiters["bulk"] = g.waiters["bulk"]
        /\ h.granted = g.granted \cup {q[i] : i \in 1 .. n} /\ h.parked = g.parked
    BY Zenon DEF InteractiveTaken, Class
  <1>2. /\ Ordered(q, t) /\ Range(t) \subseteq Range(q) /\ t \in Seq(Request)
        /\ \A i \in 1 .. n : Precedes(q, t, q[i]) /\ q[i] \in Range(q)
    BY <1>0, OrderFront, Zenon
  <1>3. Ordered(g.waiters["bulk"], h.waiters["bulk"])
    BY <1>0, <1>1, OrderKept, Zenon DEF Lined
  <1> HIDE DEF h, t
  <1>5. Lined(h)
    BY <1>0, <1>1, <1>2, Zenon DEF Lined
  <1>6. \A d \in Class : Waiting(h, d) \subseteq Waiting(g, d) /\ Ordered(g.waiters[d], h.waiters[d])
    BY <1>0, <1>1, <1>2, <1>3, Zenon DEF Waiting
  <1>7. ASSUME NEW s \in h.granted, s \notin g.granted
        PROVE  s \in Waiting(g, "interactive") /\ Precedes(g.waiters["interactive"], h.waiters["interactive"], s)
    BY <1>1, <1>2, <1>7, Zenon DEF Waiting
  <1>8. Handed(g, h, x)
    BY <1>0, <1>1, <1>6, <1>7, Zenon DEF Handed
  <1> QED BY <1>5, <1>6, <1>8, Zenon DEF h

\* Dispatch serves each line from its front.
LEMMA HandedDispatch ==
    ASSUME NEW g \in Gate, LinesOK(g), NEW x
    PROVE  LET h == Dispatch(g)
           IN  Handed(g, h, x) /\ Lined(h) /\ \A d \in Class : Waiting(h, d) \subseteq Waiting(g, d)
  <1> DEFINE line == g.waiters["interactive"]
             Good(e, h) == Handed(e, h, x) /\ Lined(h) /\ \A d \in Class : Waiting(h, d) \subseteq Waiting(e, d)
  <1>0. Lined(g) /\ "interactive" \in Class /\ line \in Seq(Request) /\ g.active \in Nat
    BY Zenon DEF Gate, Lined, Class
  <1>1. \A a \in Nat : NextInteractive(a, line) \in 0 .. Len(line)
    <2>1. Len(line) \in Nat /\ ActiveCapacity \in Nat
      BY <1>0, Lengths, LimitAssumption DEF ActiveCapacity
    <2> QED BY <2>1 DEF NextInteractive
  <1>2. CASE Dispatch(g) = InteractiveTaken(g, NextInteractive(g.active, line))
    BY <1>0, <1>1, <1>2, HandedInteractive, Zenon
  <1>3. ASSUME NEW r \in Request, g.waiters["bulk"] # <<>>, r = Head(g.waiters["bulk"]),
               Dispatch(g) = InteractiveTaken(BulkTaken(g, r), NextInteractive(BulkTaken(g, r).active, line))
        PROVE  Good(g, Dispatch(g))
    <2> DEFINE e == BulkTaken(g, r)
    <2>1. Good(g, e)
      BY <1>0, <1>3, HandedBulk, Zenon
    <2>2. e.waiters["interactive"] = line /\ e.active \in Nat
      BY <1>0 DEF BulkTaken, Class
    <2>3. NextInteractive(e.active, line) \in 0 .. Len(line)
      BY <1>1, <2>2, Zenon
    <2> DEFINE n == NextInteractive(e.active, line)
    <2> HIDE DEF e, n
    <2>4. n \in 0 .. Len(e.waiters["interactive"])
      BY <2>2, <2>3, Zenon DEF n
    <2>5. Good(e, InteractiveTaken(e, n))
      BY <2>1, <2>4, HandedInteractive, Zenon
    <2>6. Dispatch(g) = InteractiveTaken(e, n)
      BY <1>3, Zenon DEF e, n
    <2> QED BY <1>0, <2>1, <2>5, <2>6, HandedComposed, Zenon
  <1> QED BY <1>2, <1>3, DispatchRounds, Zenon

=============================================================================
