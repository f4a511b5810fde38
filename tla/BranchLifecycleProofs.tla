----------------------- MODULE BranchLifecycleProofs -----------------------
(***************************************************************************)
(* Proofs about BranchLifecycle, for every set of clients, every set of    *)
(* snapshots with any parents, and all bounds on commands, pushes, pulls   *)
(* and crashes.                                                            *)
(*                                                                         *)
(* That HEAD resolves and that replicas at rest agree are not inductive.   *)
(* LifecycleInv says of every store that its events and its pointer name   *)
(* snapshots that exist, that its events are finitely many and their       *)
(* generations those the commands so far allow, that a symbolic HEAD has   *)
(* its pointer, and that the server has no pointer of an archived branch;  *)
(* and of every push or pull under way that the events and the pointer it  *)
(* carries are such events and pointers.                                   *)
(***************************************************************************)
EXTENDS BranchLifecycle, FiniteSetTheorems, TLAPS

\* The events that can exist: they name snapshots of M, and n commands allow
\* generations up to 2n, of which the last belongs to no archive.
EventsOf(M, n) ==
    {e \in Events : /\ e.target \in M /\ e.gen <= 2 * n
                    /\ e.state = "archived" => e.gen < 2 * n}

\* What the operations keep of a store: a symbolic HEAD has its pointer.
Sound(st, M, n) ==
    /\ st \in StoreType
    /\ st.log \subseteq EventsOf(M, n) /\ IsFiniteSet(st.log)
    /\ st.ref \in M \cup {None}
    /\ st.head = Symbolic => st.ref # None

\* The targets of the events.
Targets(log) == {e.target : e \in log}

\* No event is forgotten, and the pointer is kept, recorded or moved forward.
Keeps(st, new) ==
    /\ st.log \subseteq new.log
    /\ \/ st.ref \in Targets(new.log) \cup {None}
       \/ new.ref \in Commit /\ Ancestors[st.ref] \subseteq Ancestors[new.ref]

\* An archive that is the latest event has removed the pointer.
Settled(st) == Archived(st.log) => st.ref = None

\* The replicas' stores, of which the server's is always settled.
StoresOK(s, M, n) ==
    /\ s \in [Replica -> StoreType]
    /\ \A r \in Replica : Sound(s[r], M, n)
    /\ Settled(s[Server])

\* The running pushes and pulls carry events and pointers of the replicas.
SyncsOK(pu, pl, M, n) ==
    /\ pu \in [Client -> [pc : {"idle", "read", "compare", "send"},
                          events : SUBSET Events, branch : Commit \cup {None}]]
    /\ pl \in [Client -> [pc : {"idle", "inventory", "apply"}, todo : SUBSET Events,
                          branch : Commit \cup {None}, live : BOOLEAN]]
    /\ \A c \in Client :
         /\ pu[c].events \subseteq EventsOf(M, n) /\ pl[c].todo \subseteq EventsOf(M, n)
         /\ IsFiniteSet(pu[c].events)
         /\ pu[c].branch \in M \cup {None} /\ pl[c].branch \in M \cup {None}

\* The inductive invariant.
LifecycleInv ==
    /\ StoresOK(store, made, ops)
    /\ SyncsOK(push, pull, made, ops)
    /\ git \in [Client -> BOOLEAN]
    /\ made \subseteq Commit
    /\ ops \in 0..MaxOps
    /\ crashes \in 0..MaxCrashes

\* What every step keeps of every replica.
Grows == \A r \in Replica : Keeps(store[r], store'[r])

----------------------------------------------------------------------------
(* Orders.                                                                 *)

\* A nonempty set of natural numbers has a least one.
LEMMA LeastNatural ==
    ASSUME NEW T \in SUBSET Nat, T # {}
    PROVE  \E n \in T : \A m \in T : n <= m
  <1> DEFINE R == OpToRel(<, Nat)
  <1>1. IsWellFoundedOn(R, Nat)
    BY NatLessThanWellFounded, Zenon
  <1>2. \A i, j \in Nat : i < j => <<i, j>> \in R
    BY Zenon DEF OpToRel
  <1> HIDE DEF R
  <1>3. PICK n \in T : \A m \in T : ~(<<m, n>> \in R)
    BY <1>1, WFMin, Zenon
  <1>4. \A m \in T : m \in Nat /\ n \in Nat /\ ~(m < n)
    BY <1>2, <1>3, Zenon
  <1>5. \A m \in T : n <= m
    BY <1>4
  <1> QED
    BY <1>5, Zenon

\* A finite nonempty set has a greatest element in a total order R.
LEMMA Greatest ==
    ASSUME NEW E, NEW R,
           \A x, y \in E : x # y => <<x, y>> \in R \/ <<y, x>> \in R,
           \A x, y, z \in E : <<x, y>> \in R /\ <<y, z>> \in R => <<x, z>> \in R,
           NEW S \in SUBSET E, S # {}, IsFiniteSet(S)
    PROVE  \E x \in S : \A y \in S \ {x} : <<x, y>> \in R
  <1> DEFINE Has(U) == \E x \in U : \A y \in U \ {x} : <<x, y>> \in R
             T == {n \in Nat : \E U \in SUBSET E : IsFiniteSet(U) /\ U # {} /\ ~Has(U) /\ Cardinality(U) = n}
  <1>1. ASSUME NEW U \in SUBSET E, NEW z \in E, Has(U)
        PROVE  Has(U \cup {z})
    <2>1. PICK x \in U : \A y \in U \ {x} : <<x, y>> \in R
      BY <1>1, Zenon
    <2>2. x \in E
      BY Zenon
    <2>3. CASE z = x \/ <<x, z>> \in R
      BY <2>1, <2>3, Zenon
    <2>4. CASE z # x /\ <<z, x>> \in R
      <3>1. \A y \in U : <<z, y>> \in R
        BY <2>1, <2>2, <2>4, Zenon
      <3> QED BY <3>1, Zenon
    <2> QED BY <2>2, <2>3, <2>4
  <1>2. ASSUME NEW z PROVE Has({z})
    BY Zenon
  <1> HIDE DEF Has
  <1>3. SUFFICES ASSUME ~Has(S) PROVE FALSE
    BY Zenon DEF Has
  <1>4. Cardinality(S) \in T
    BY <1>3, FS_CardinalityType, Zenon
  <1>5. PICK n \in T : \A m \in T : n <= m
    <2>1. T \in SUBSET Nat /\ T # {}
      BY <1>4, Zenon
    <2> HIDE DEF T
    <2> QED BY <2>1, LeastNatural, Zenon
  <1>6. PICK U \in SUBSET E : IsFiniteSet(U) /\ U # {} /\ ~Has(U) /\ Cardinality(U) = n
    BY <1>5, Zenon
  <1>7. PICK z \in U : TRUE
    BY <1>6, Zenon
  <1> DEFINE V == U \ {z}
  <1>8. IsFiniteSet(V) /\ Cardinality(V) = n - 1 /\ n \in Nat /\ V \in SUBSET E /\ V \cup {z} = U /\ z \in E
    BY <1>5, <1>6, <1>7, FS_RemoveElement
  <1>9. V # {}
    <2>1. ASSUME V = {} PROVE U = {z}
      BY <1>8, <2>1, Zenon
    <2> QED BY <1>2, <1>6, <2>1, Zenon
  <1>10. n - 1 \in Nat
    BY <1>8, FS_CardinalityType, Zenon
  <1> HIDE DEF V
  <1>11. n - 1 \notin T
    BY <1>5, <1>8, <1>10
  <1>12. Has(V)
    BY <1>8, <1>9, <1>10, <1>11, Zenon
  <1> QED BY <1>1, <1>6, <1>8, <1>12, Zenon

\* branchLifecycleLater and the order of names are total orders.
LEMMA Orders ==
    /\ \A e, f \in Events : e # f => Later(e, f) \/ Later(f, e)
    /\ \A e, f, g \in Events : Later(e, f) /\ Later(f, g) => Later(e, g)
    /\ \A e, f \in Events : ~(Later(e, f) /\ Later(f, e))
    /\ \A e, f \in Events : e # f => Before(e, f) \/ Before(f, e)
    /\ \A e, f, g \in Events : Before(e, f) /\ Before(f, g) => Before(e, g)
  <1>1. \A e \in Events : e.gen \in Nat /\ e.target \in Nat /\ e.state \in {"active", "archived"}
    BY CommitAssumption, Zenon DEF Events
  <1>2. \A e, f \in Events : e.gen = f.gen /\ e.state = f.state /\ e.target = f.target => e = f
    BY DEF Events
  <1>3. \A e, f \in Events : e # f => Later(e, f) \/ Later(f, e)
    BY <1>1, <1>2 DEF Later
  <1>4. \A e, f, g \in Events : Later(e, f) /\ Later(f, g) => Later(e, g)
    BY <1>1 DEF Later
  <1>5. \A e, f \in Events : ~(Later(e, f) /\ Later(f, e))
    BY <1>1 DEF Later
  <1>6. \A e, f \in Events : e # f => Before(e, f) \/ Before(f, e)
    BY <1>1, <1>2 DEF Before
  <1>7. \A e, f, g \in Events : Before(e, f) /\ Before(f, g) => Before(e, g)
    BY <1>1 DEF Before
  <1> QED BY <1>3, <1>4, <1>5, <1>6, <1>7, Zenon

\* A finite log that is not empty has one latest event.
LEMMA LatestEvent ==
    ASSUME NEW log \in SUBSET Events, IsFiniteSet(log), log # {}
    PROVE  /\ Latest(log) \in log
           /\ \A f \in log \ {Latest(log)} : Later(Latest(log), f)
           /\ \A e \in log : (\A f \in log \ {e} : Later(e, f)) => e = Latest(log)
  <1> DEFINE R == {p \in Events \X Events : Later(p[1], p[2])}
  <1>1. \A e, f \in Events : <<e, f>> \in R <=> Later(e, f)
    BY Zenon
  <1> HIDE DEF R
  <1>2. \E e \in log : \A f \in log \ {e} : <<e, f>> \in R
    <2>1. \A x, y \in Events : x # y => <<x, y>> \in R \/ <<y, x>> \in R
      BY <1>1, Orders, Zenon
    <2>2. \A x, y, z \in Events : <<x, y>> \in R /\ <<y, z>> \in R => <<x, z>> \in R
      BY <1>1, Orders, Zenon
    <2> QED BY <2>1, <2>2, Greatest, Zenon
  <1>3. \E e \in log : \A f \in log \ {e} : Later(e, f)
    BY <1>1, <1>2, Zenon
  <1>4. Latest(log) \in log /\ \A f \in log \ {Latest(log)} : Later(Latest(log), f)
    BY <1>3, Zenon DEF Latest
  <1>5. ASSUME NEW e \in log, \A f \in log \ {e} : Later(e, f)
        PROVE  e = Latest(log)
    <2> SUFFICES ASSUME e # Latest(log) PROVE FALSE
      BY Zenon
    <2>1. Latest(log) \in log \ {e} /\ e \in log \ {Latest(log)}
      BY <1>4, Zenon
    <2>2. Later(e, Latest(log)) /\ Later(Latest(log), e)
      BY <1>4, <1>5, <2>1, Zenon
    <2>3. e \in Events /\ Latest(log) \in Events
      BY <1>4, Zenon
    <2> QED BY <2>2, <2>3, Orders, Zenon
  <1> QED BY <1>4, <1>5, Zenon

\* A batch that is not empty has a last event.
LEMMA LastEvent ==
    ASSUME NEW S \in SUBSET Events, IsFiniteSet(S), S # {}
    PROVE  LastNamed(S) \in S
  <1> DEFINE R == {p \in Events \X Events : Before(p[2], p[1])}
  <1>1. \A e, f \in Events : <<e, f>> \in R <=> Before(f, e)
    BY Zenon
  <1> HIDE DEF R
  <1>2. \E e \in S : \A f \in S \ {e} : <<e, f>> \in R
    <2>1. \A x, y \in Events : x # y => <<x, y>> \in R \/ <<y, x>> \in R
      BY <1>1, Orders, Zenon
    <2>2. \A x, y, z \in Events : <<x, y>> \in R /\ <<y, z>> \in R => <<x, z>> \in R
      BY <1>1, Orders, Zenon
    <2> QED BY <2>1, <2>2, Greatest, Zenon
  <1>3. \E e \in S : \A f \in S \ {e} : Before(f, e)
    BY <1>1, <1>2, Zenon
  <1> QED BY <1>3, Zenon DEF LastNamed

\* The next generation is above every other, whatever event it is given to.
LEMMA NextEvent ==
    ASSUME NEW log \in SUBSET Events, IsFiniteSet(log), NEW state \in {"active", "archived"}, NEW t \in Commit
    PROVE  LET e == Event(NextGeneration(log), state, t)
           IN  /\ e \in Events /\ e \notin log /\ Latest(log \cup {e}) = e
               /\ \A f \in log : f.gen < e.gen
  <1> DEFINE g == NextGeneration(log)
             e == Event(g, state, t)
  <1>1. g \in Nat \ {0} /\ \A f \in log : f.gen < g
    <2>1. CASE log = {}
      BY <2>1 DEF NextGeneration
    <2>2. CASE log # {}
      <3>1. /\ Latest(log) \in Events /\ Latest(log) \in log /\ g = Latest(log).gen + 1
            /\ \A f \in log \ {Latest(log)} : Later(Latest(log), f)
        BY <2>2, LatestEvent, Zenon DEF NextGeneration
      <3>2. \A f \in Events : f.gen \in Nat
        BY Zenon DEF Events
      <3>3. ASSUME NEW f \in log PROVE f.gen < g
        <4>1. f = Latest(log) \/ f.gen <= Latest(log).gen
          BY <3>1, <3>2 DEF Later
        <4> QED BY <3>1, <3>2, <4>1
      <3> QED BY <3>1, <3>2, <3>3
    <2> QED BY <2>1, <2>2, Zenon
  <1> HIDE DEF g
  <1>2. e \in Events /\ e.gen = g
    BY <1>1, Zenon DEF Event, Events
  <1>3. \A f \in log : f.gen < e.gen /\ Later(e, f)
    BY <1>1, <1>2, Zenon DEF Later, Events
  <1>4. e \notin log
    <2>1. e.gen \in Nat /\ ~(e.gen < e.gen)
      BY <1>1, <1>2
    <2> QED BY <1>3, <2>1, Zenon
  <1>5. /\ log \cup {e} \in SUBSET Events /\ IsFiniteSet(log \cup {e}) /\ log \cup {e} # {}
        /\ \A f \in (log \cup {e}) \ {e} : Later(e, f)
    BY <1>2, <1>3, FS_AddElement, Zenon
  <1> HIDE DEF e
  <1>6. Latest(log \cup {e}) = e
    BY <1>5, LatestEvent, Zenon
  <1> QED BY <1>2, <1>3, <1>4, <1>6, Zenon DEF g, e
----------------------------------------------------------------------------
(* Snapshots and their ancestors.                                          *)

\* A snapshot is neither a missing pointer nor a symbolic HEAD.
LEMMA Marks == None \notin Commit /\ Symbolic \notin Commit /\ Symbolic # None /\ Server \in Replica
  BY CommitAssumption DEF None, Symbolic, Replica

\* Ancestry is reflexive and transitive and follows the parents.
LEMMA Ancestry ==
    /\ \A s \in Commit : s \in Ancestors[s]
    /\ \A s, t \in Commit : Holds(s, t) => Ancestors[t] \subseteq Ancestors[s]
    /\ \A s \in Commit : Parent[s] # None => Parent[s] \in Commit /\ Holds(s, Parent[s])
  <1> DEFINE Closed(C) == \A u \in C : Parent[u] \in C \cup {None}
  <1>1. \A s, t \in Commit : t \in Ancestors[s] <=> \A C \in SUBSET Commit : s \in C /\ Closed(C) => t \in C
    BY Zenon DEF Ancestors
  <1>2. \A s \in Commit : Ancestors[s] \subseteq Commit
    BY Zenon DEF Ancestors
  <1>3. \A s \in Commit : Parent[s] \in Commit \cup {None}
    BY CommitAssumption, Zenon
  <1>4. \A s \in Commit : s \in Ancestors[s]
    BY <1>1, Zenon
  <1>5. ASSUME NEW s \in Commit, NEW t \in Commit, Holds(s, t), NEW u \in Ancestors[t]
        PROVE  u \in Ancestors[s]
    <2>1. \A C \in SUBSET Commit : s \in C /\ Closed(C) => t \in C
      BY <1>1, <1>5, Zenon DEF Holds
    <2>2. u \in Commit
      BY <1>2, Zenon
    <2>3. \A C \in SUBSET Commit : t \in C /\ Closed(C) => u \in C
      BY <1>1, <1>5, <2>2, Zenon
    <2> QED BY <1>1, <2>1, <2>2, <2>3, Zenon
  <1>6. ASSUME NEW s \in Commit, Parent[s] # None
        PROVE  Parent[s] \in Commit /\ Holds(s, Parent[s])
    <2>1. Parent[s] \in Commit
      BY <1>3, <1>6, Zenon
    <2>2. \A C \in SUBSET Commit : s \in C /\ Closed(C) => Parent[s] \in C
      BY <1>6, Zenon
    <2> QED BY <1>1, <2>1, <2>2, Zenon DEF Holds
  <1> QED BY <1>4, <1>5, <1>6, Zenon DEF Holds

\* What keeps events and pointer keeps every snapshot reachable.
LEMMA KeepsReach ==
    ASSUME NEW st \in StoreType, NEW new \in StoreType, Keeps(st, new)
    PROVE  Reach(st) \subseteq Reach(new)
  <1> DEFINE Roots(x) == ({x.ref} \ {None}) \cup Targets(x.log)
  <1>1. \A x : Reach(x) = UNION {Ancestors[t] : t \in Roots(x)}
    BY Zenon DEF Reach, Targets
  <1>2. Targets(st.log) \subseteq Targets(new.log)
    BY Zenon DEF Keeps, Targets
  <1>3. ASSUME NEW t \in Roots(st)
        PROVE  \E u \in Roots(new) : Ancestors[t] \subseteq Ancestors[u]
    <2>1. CASE t \in Targets(new.log)
      BY <2>1, Zenon
    <2>2. CASE t = st.ref /\ t # None /\ t \notin Targets(new.log)
      <3>1. new.ref \in Commit /\ Ancestors[st.ref] \subseteq Ancestors[new.ref]
        BY <2>2, Zenon DEF Keeps
      <3>2. new.ref \in Roots(new)
        BY <3>1, Marks, Zenon
      <3> QED BY <2>2, <3>1, <3>2, Zenon
    <2> QED BY <1>2, <2>1, <2>2, Zenon
  <1> HIDE DEF Roots
  <1> QED BY <1>1, <1>3

----------------------------------------------------------------------------
(* What single writes do to a store.                                       *)

\* More snapshots and commands allow more events.
LEMMA MoreEvents ==
    ASSUME NEW M \in SUBSET Commit, NEW N \in SUBSET Commit, M \subseteq N, NEW m \in Nat, NEW n \in Nat, m <= n
    PROVE  /\ EventsOf(M, m) \subseteq EventsOf(N, n)
           /\ \A st : Sound(st, M, m) => Sound(st, N, n)
  <1>1. EventsOf(M, m) \subseteq EventsOf(N, n)
    BY DEF EventsOf, Events
  <1> QED BY <1>1, Zenon DEF Sound

\* An event is recorded.
LEMMA Recorded ==
    ASSUME NEW M \in SUBSET Commit, NEW n \in Nat, NEW st, Sound(st, M, n), NEW e \in EventsOf(M, n)
    PROVE  LET new == [st EXCEPT !.log = @ \cup {e}]
           IN  /\ Sound(new, M, n) /\ Keeps(st, new)
               /\ new.log = st.log \cup {e} /\ new.ref = st.ref /\ new.head = st.head
  <1> DEFINE new == [st EXCEPT !.log = @ \cup {e}]
  <1>1. st \in StoreType /\ st.log \subseteq EventsOf(M, n) /\ IsFiniteSet(st.log) /\ e \in Events
    BY Zenon DEF Sound, EventsOf
  <1>2. /\ new \in StoreType /\ new.log = st.log \cup {e} /\ new.ref = st.ref /\ new.head = st.head
    BY <1>1, Zenon DEF StoreType
  <1>3. IsFiniteSet(st.log \cup {e})
    BY <1>1, FS_AddElement, Zenon
  <1> HIDE DEF new
  <1>4. Sound(new, M, n)
    BY <1>1, <1>2, <1>3, Zenon DEF Sound
  <1>5. Keeps(st, new)
    BY <1>1, <1>2, Zenon DEF Keeps, StoreType
  <1> QED BY <1>2, <1>4, <1>5, Zenon DEF new

\* The pointer moves to t, or is removed when HEAD does not depend on it.
LEMMA Pointed ==
    ASSUME NEW M \in SUBSET Commit, NEW n \in Nat, NEW st, Sound(st, M, n),
           NEW t \in M \cup {None}, t = None => st.head # Symbolic
    PROVE  LET new == [st EXCEPT !.ref = t]
           IN  /\ Sound(new, M, n)
               /\ new.log = st.log /\ new.ref = t /\ new.head = st.head
               /\ st.ref \in Targets(st.log) \cup {None} => Keeps(st, new)
               /\ t # None /\ st.ref # None /\ Holds(t, st.ref) => Keeps(st, new)
  <1> DEFINE new == [st EXCEPT !.ref = t]
  <1>1. st \in StoreType /\ st.ref \in Commit \cup {None}
    BY Zenon DEF Sound, StoreType
  <1>2. /\ new \in StoreType /\ new.log = st.log /\ new.ref = t /\ new.head = st.head
    BY <1>1, Zenon DEF StoreType
  <1> HIDE DEF new
  <1>3. Sound(new, M, n)
    BY <1>2, Zenon DEF Sound
  <1>4. st.ref \in Targets(st.log) \cup {None} => Keeps(st, new)
    BY <1>2, Zenon DEF Keeps
  <1>5. t # None /\ st.ref # None /\ Holds(t, st.ref) => Keeps(st, new)
    BY <1>1, <1>2, Ancestry, Zenon DEF Keeps
  <1> QED BY <1>2, <1>3, <1>4, <1>5, Zenon DEF new

\* HEAD is detached at t.
LEMMA Detached ==
    ASSUME NEW M \in SUBSET Commit, NEW n \in Nat, NEW st, Sound(st, M, n), NEW t \in Commit
    PROVE  LET new == Detach(st, t)
           IN  /\ Sound(new, M, n) /\ Keeps(st, new)
               /\ new.log = st.log /\ new.ref = st.ref /\ new.head # Symbolic
  <1> DEFINE new == Detach(st, t)
  <1>1. st \in StoreType /\ st.ref \in Commit \cup {None}
    BY Zenon DEF Sound, StoreType
  <1>2. new \in StoreType /\ new.log = st.log /\ new.ref = st.ref /\ new.head # Symbolic
    BY <1>1, Marks, Zenon DEF StoreType, Detach
  <1> HIDE DEF new
  <1>3. Sound(new, M, n)
    BY <1>2, Zenon DEF Sound
  <1>4. Keeps(st, new)
    BY <1>1, <1>2, Zenon DEF Keeps
  <1> QED BY <1>2, <1>3, <1>4, Zenon DEF new

\* HEAD selects the branch.
LEMMA Selected ==
    ASSUME NEW M \in SUBSET Commit, NEW n \in Nat, NEW st, Sound(st, M, n), st.ref # None
    PROVE  LET new == [st EXCEPT !.head = Symbolic]
           IN  Sound(new, M, n) /\ new.log = st.log /\ new.ref = st.ref /\ Keeps(st, new)
  <1> DEFINE new == [st EXCEPT !.head = Symbolic]
  <1>1. st \in StoreType /\ st.ref \in Commit \cup {None}
    BY Zenon DEF Sound, StoreType
  <1>2. new \in StoreType /\ new.log = st.log /\ new.ref = st.ref
    BY <1>1, Zenon DEF StoreType
  <1> HIDE DEF new
  <1>3. Sound(new, M, n)
    BY <1>2, Zenon DEF Sound
  <1>4. Keeps(st, new)
    BY <1>1, <1>2, Zenon DEF Keeps
  <1> QED BY <1>2, <1>3, <1>4, Zenon DEF new
----------------------------------------------------------------------------
(* What the operations do to a store.                                      *)

\* Every write of an operation leaves a sound store that keeps what st holds.
Leaves(steps, st, M, n) ==
    /\ steps \in Seq(StoreType) /\ Len(steps) \in Nat \ {0}
    /\ \A k \in 1..Len(steps) : Sound(steps[k], M, n) /\ Keeps(st, steps[k])

\* The events D are applied: what else appears is active, and a pointer that
\* disappears is the target of an event.
Applied(st, new, D) ==
    /\ st.log \cup D \subseteq new.log
    /\ \A e \in new.log \ (st.log \cup D) : e.state = "active"
    /\ new.ref = st.ref \/ (new.ref = None /\ st.ref \in Targets(new.log))

\* Operations of one write and of two.
LEMMA OneWrite ==
    ASSUME NEW st, NEW M, NEW n, NEW a, Sound(a, M, n) /\ Keeps(st, a)
    PROVE  Leaves(<<a>>, st, M, n) /\ Result(<<a>>) = a
  <1>1. a \in StoreType
    BY Zenon DEF Sound
  <1>2. <<a>> \in Seq(StoreType) /\ Len(<<a>>) = 1 /\ <<a>>[1] = a
    BY <1>1
  <1> QED BY <1>2 DEF Leaves, Result

\* Two writes.
LEMMA TwoWrites ==
    ASSUME NEW st, NEW M, NEW n, NEW a, NEW b, Sound(a, M, n) /\ Keeps(st, a), Sound(b, M, n) /\ Keeps(st, b)
    PROVE  Leaves(<<a, b>>, st, M, n) /\ Result(<<a, b>>) = b
  <1>1. a \in StoreType /\ b \in StoreType
    BY Zenon DEF Sound
  <1>2. <<a, b>> \in Seq(StoreType) /\ Len(<<a, b>>) = 2 /\ <<a, b>>[1] = a /\ <<a, b>>[2] = b
    BY <1>1
  <1> QED BY <1>2 DEF Leaves, Result

\* The elements of a concatenation.
LEMMA Concatenated ==
    ASSUME NEW S, NEW s \in Seq(S), NEW q \in Seq(S)
    PROVE  /\ s \o q \in Seq(S) /\ Len(s \o q) = Len(s) + Len(q)
           /\ \A k \in 1..(Len(s) + Len(q)) : (s \o q)[k] = IF k <= Len(s) THEN s[k] ELSE q[k - Len(s)]
  OBVIOUS

\* A write before the others, or after them.
LEMMA OneMore ==
    ASSUME NEW st, NEW M, NEW n, NEW a, Sound(a, M, n) /\ Keeps(st, a), NEW q, Leaves(q, st, M, n)
    PROVE  /\ Leaves(<<a>> \o q, st, M, n) /\ Result(<<a>> \o q) = Result(q)
           /\ Leaves(Append(q, a), st, M, n) /\ Result(Append(q, a)) = a
  <1>1. a \in StoreType /\ q \in Seq(StoreType) /\ Len(q) \in Nat \ {0}
    BY Zenon DEF Sound, Leaves
  <1> DEFINE S == StoreType
  <1> HIDE DEF S
  <1>2. ASSUME NEW s \in Seq(S), s = <<a>>
        PROVE  /\ s \o q \in Seq(S) /\ Len(s \o q) = 1 + Len(q) /\ (s \o q)[1] = a
               /\ \A k \in 2..(1 + Len(q)) : (s \o q)[k] = q[k - 1]
    <2>1. q \in Seq(S) /\ Len(s) = 1 /\ s[1] = a
      BY <1>1, <1>2, Zenon DEF S
    <2>2. /\ s \o q \in Seq(S) /\ Len(s \o q) = Len(s) + Len(q)
          /\ \A k \in 1..(Len(s) + Len(q)) : (s \o q)[k] = IF k <= Len(s) THEN s[k] ELSE q[k - Len(s)]
      BY <2>1, Concatenated, Zenon
    <2>3. 1 \in 1..(1 + Len(q)) /\ \A k \in 2..(1 + Len(q)) : k \in 1..(1 + Len(q)) /\ ~(k <= 1)
      BY <1>1
    <2> QED BY <1>1, <2>1, <2>2, <2>3
  <1>3. <<a>> \in Seq(S)
    BY <1>1 DEF S
  <1>4. /\ Append(q, a) \in Seq(S) /\ Len(Append(q, a)) = Len(q) + 1 /\ Append(q, a)[Len(q) + 1] = a
        /\ \A k \in 1..Len(q) : Append(q, a)[k] = q[k]
    BY <1>1 DEF S
  <1> DEFINE p == <<a>> \o q
             z == Append(q, a)
  <1>5. /\ p \in Seq(S) /\ Len(p) = 1 + Len(q) /\ p[1] = a
        /\ \A k \in 2..(1 + Len(q)) : p[k] = q[k - 1]
    BY <1>2, <1>3, Zenon
  <1> HIDE DEF p, z
  <1>6. Leaves(p, st, M, n) /\ Result(p) = Result(q)
    <2>1. \A k \in 2..(1 + Len(q)) : k - 1 \in 1..Len(q)
      BY <1>1
    <2>2. \A k \in 1..(1 + Len(q)) : k = 1 \/ k \in 2..(1 + Len(q))
      BY <1>1
    <2>3. \A k \in 1..Len(p) : Sound(p[k], M, n) /\ Keeps(st, p[k])
      BY <1>5, <2>1, <2>2, Zenon DEF Leaves
    <2>4. Result(p) = Result(q)
      <3>1. 1 + Len(q) \in 2..(1 + Len(q)) /\ (1 + Len(q)) - 1 = Len(q)
        BY <1>1
      <3> QED BY <1>5, <3>1, Zenon DEF Result
    <2>5. Len(p) \in Nat \ {0}
      BY <1>1, <1>5
    <2> QED BY <1>5, <2>3, <2>4, <2>5, Zenon DEF Leaves, S
  <1>7. Leaves(z, st, M, n) /\ Result(z) = a
    <2>1. /\ z \in Seq(S) /\ Len(z) = Len(q) + 1 /\ z[Len(q) + 1] = a
          /\ \A k \in 1..Len(q) : z[k] = q[k]
      BY <1>4, Zenon DEF z
    <2>2. \A k \in 1..(Len(q) + 1) : k = Len(q) + 1 \/ k \in 1..Len(q)
      BY <1>1
    <2>3. \A k \in 1..Len(z) : Sound(z[k], M, n) /\ Keeps(st, z[k])
      BY <2>1, <2>2, Zenon DEF Leaves
    <2>4. Len(z) \in Nat \ {0}
      BY <1>1, <2>1
    <2> QED BY <2>1, <2>3, <2>4, Zenon DEF Leaves, Result, S
  <1> QED BY <1>6, <1>7, Zenon DEF p, z

\* The pointer of a recorded snapshot is removed.
LEMMA RemoveRefOK ==
    ASSUME NEW M \in SUBSET Commit, NEW n \in Nat, NEW st, Sound(st, M, n), st.ref \in Targets(st.log)
    PROVE  /\ Leaves(RemoveRef(st), st, M, n)
           /\ Result(RemoveRef(st)).log = st.log /\ Result(RemoveRef(st)).ref = None
  <1> DEFINE a == Detach(st, st.ref)
             b == [a EXCEPT !.ref = None]
  <1>1. RemoveRef(st) = <<a, b>>
    BY Zenon DEF RemoveRef
  <1>2. st.ref \in Commit
    BY Zenon DEF Sound, EventsOf, Targets
  <1>3. Sound(a, M, n) /\ Keeps(st, a) /\ a.log = st.log /\ a.ref = st.ref /\ a.head # Symbolic
    BY <1>2, Detached, Zenon
  <1> HIDE DEF a
  <1>4. Sound(b, M, n) /\ b.log = a.log /\ b.ref = None
    BY <1>3, Pointed
  <1> HIDE DEF b
  <1>5. Keeps(st, b)
    BY <1>3, <1>4, Zenon DEF Keeps
  <1>6. Leaves(<<a, b>>, st, M, n) /\ Result(<<a, b>>) = b
    BY <1>3, <1>4, <1>5, TwoWrites
  <1> QED BY <1>1, <1>3, <1>4, <1>6, Zenon

\* A newer active event is recorded: n commands answer for it when it follows
\* an archive or belongs to a command of its own.
LEMMA ActivateOK ==
    ASSUME NEW M \in SUBSET Commit, NEW m \in Nat, NEW n \in Nat, m <= n, NEW st, Sound(st, M, m), NEW t \in M,
           m < n \/ Archived(st.log)
    PROVE  LET new == Activate(st, t)
           IN  /\ Sound(new, M, n) /\ Keeps(st, new) /\ ~Archived(new.log)
               /\ new.ref = st.ref /\ new.head = st.head /\ new.log # st.log
               /\ t \in Targets(new.log) /\ Applied(st, new, {})
  <1> DEFINE e == Event(NextGeneration(st.log), "active", t)
             new == [st EXCEPT !.log = @ \cup {e}]
  <1>1. /\ st \in StoreType /\ st.log \in SUBSET Events /\ IsFiniteSet(st.log) /\ t \in Commit
        /\ st.log \subseteq EventsOf(M, m)
    BY Zenon DEF Sound, EventsOf
  <1>2. e \in Events /\ e \notin st.log /\ Latest(st.log \cup {e}) = e
    BY <1>1, NextEvent, Zenon
  <1>3. e.state = "active" /\ e.target = t /\ e.gen = NextGeneration(st.log)
    BY Zenon DEF Event
  <1> HIDE DEF e
  <1>4. e.gen <= 2 * n
    <2>1. CASE st.log = {}
      <3>1. ~Archived(st.log)
        BY <2>1, Zenon DEF Archived
      <3> QED BY <1>3, <2>1, <3>1 DEF NextGeneration
    <2>2. CASE st.log # {}
      <3>1. Latest(st.log) \in EventsOf(M, m) /\ e.gen = Latest(st.log).gen + 1
        BY <1>1, <1>3, <2>2, LatestEvent, Zenon DEF NextGeneration
      <3>2. Latest(st.log).gen \in Nat /\ Latest(st.log).gen <= 2 * m
        BY <3>1, Zenon DEF EventsOf, Events
      <3>3. Archived(st.log) => Latest(st.log).gen < 2 * m
        BY <3>1, Zenon DEF EventsOf, Archived
      <3> QED BY <3>1, <3>2, <3>3
    <2> QED BY <2>1, <2>2, Zenon
  <1>5. e \in EventsOf(M, n)
    BY <1>2, <1>3, <1>4, Zenon DEF EventsOf
  <1>6. Sound(st, M, n)
    BY MoreEvents, Zenon
  <1>7. Sound(new, M, n) /\ Keeps(st, new) /\ new.log = st.log \cup {e} /\ new.ref = st.ref /\ new.head = st.head
    BY <1>5, <1>6, Recorded
  <1>8. Activate(st, t) = new
    BY Zenon DEF Activate, e
  <1> HIDE DEF new
  <1>9. ~Archived(new.log)
    BY <1>2, <1>3, <1>7, Zenon DEF Archived
  <1>10. new.log # st.log /\ t \in Targets(new.log) /\ Applied(st, new, {})
    BY <1>2, <1>3, <1>7, Zenon DEF Targets, Applied
  <1> QED BY <1>7, <1>8, <1>9, <1>10, Zenon

\* The projection of an archive settles the store.
LEMMA SettleOK ==
    ASSUME NEW M \in SUBSET Commit, NEW n \in Nat, NEW st, Sound(st, M, n), Archived(st.log), NEW preserve \in BOOLEAN
    PROVE  /\ Leaves(Settle(st, preserve), st, M, n)
           /\ Settled(Result(Settle(st, preserve)))
           /\ Applied(st, Result(Settle(st, preserve)), {})
           /\ st.ref # None => Result(Settle(st, preserve)) # st \/ preserve
  <1> DEFINE t == Latest(st.log).target
  <1>1. /\ st.log \in SUBSET Events /\ IsFiniteSet(st.log) /\ st.ref \in M \cup {None}
        /\ st.log \subseteq EventsOf(M, n) /\ st.log # {} /\ st \in StoreType
    BY Zenon DEF Sound, EventsOf, Archived
  <1>2. Latest(st.log) \in st.log
    BY <1>1, LatestEvent, Zenon
  <1>3. t \in M /\ t \in Commit /\ t \in Targets(st.log)
    BY <1>1, <1>2, Zenon DEF EventsOf, Targets
  <1> HIDE DEF t
  <1>4. CASE st.ref = None
    <2>1. Settle(st, preserve) = <<Detach(st, t)>>
      BY <1>3, <1>4, Marks, Zenon DEF Settle, t
    <2>2. /\ Sound(Detach(st, t), M, n) /\ Keeps(st, Detach(st, t))
          /\ Detach(st, t).log = st.log /\ Detach(st, t).ref = st.ref
      BY <1>3, Detached, Zenon
    <2>3. Leaves(<<Detach(st, t)>>, st, M, n) /\ Result(<<Detach(st, t)>>) = Detach(st, t)
      BY <2>2, OneWrite, Zenon
    <2>4. Settled(Detach(st, t)) /\ Applied(st, Detach(st, t), {})
      BY <1>4, <2>2, Zenon DEF Settled, Applied
    <2> QED BY <1>4, <2>1, <2>3, <2>4, Zenon
  <1>5. CASE st.ref # None /\ st.ref = t /\ ~preserve
    <2> DEFINE b == Result(RemoveRef(st))
    <2>1. Settle(st, preserve) = RemoveRef(st)
      BY <1>5, Zenon DEF Settle, t
    <2>2. Leaves(RemoveRef(st), st, M, n) /\ b.log = st.log /\ b.ref = None
      BY <1>3, <1>5, RemoveRefOK, Zenon
    <2> HIDE DEF b
    <2>3. Settled(b) /\ Applied(st, b, {})
      BY <1>3, <1>5, <2>2, Zenon DEF Settled, Applied
    <2>4. b # st
      BY <1>5, <2>2, Zenon
    <2> QED BY <2>1, <2>2, <2>3, <2>4, Zenon DEF b
  <1>6. CASE st.ref # None /\ ~(st.ref = t /\ ~preserve)
    <2> DEFINE a == Activate(st, st.ref)
    <2>1. Settle(st, preserve) = <<a>>
      BY <1>6, Zenon DEF Settle, t
    <2>2. n <= n /\ st.ref \in M
      BY <1>1, <1>6
    <2>3. Sound(a, M, n) /\ Keeps(st, a) /\ ~Archived(a.log) /\ a.log # st.log /\ Applied(st, a, {})
      BY <2>2, ActivateOK
    <2> HIDE DEF a
    <2>4. Leaves(<<a>>, st, M, n) /\ Result(<<a>>) = a
      BY <2>3, OneWrite, Zenon
    <2> QED BY <2>1, <2>3, <2>4, Zenon DEF Settled
  <1> QED BY <1>4, <1>5, <1>6, Zenon

\* A store keeps what it holds, and what a longer log kept with its pointer.
LEMMA Kept ==
    /\ \A st \in StoreType : Keeps(st, st)
    /\ \A st, a, b : Keeps(a, b) /\ a.ref = st.ref /\ st.log \subseteq a.log => Keeps(st, b)
  BY Zenon DEF Keeps, StoreType

\* An event arrives: it is recorded, and an archive that is the latest settles.
LEMMA ApplyOK ==
    ASSUME NEW M \in SUBSET Commit, NEW n \in Nat, NEW st, Sound(st, M, n), NEW e \in EventsOf(M, n),
           NEW preserve \in BOOLEAN
    PROVE  /\ Leaves(ApplyBranchLifecycleRef(st, e, preserve), st, M, n)
           /\ Applied(st, Result(ApplyBranchLifecycleRef(st, e, preserve)), {e})
           /\ Settled(st) => Settled(Result(ApplyBranchLifecycleRef(st, e, preserve)))
  <1> DEFINE known == [st EXCEPT !.log = @ \cup {e}]
             steps == ApplyBranchLifecycleRef(st, e, preserve)
  <1>1. /\ Sound(known, M, n) /\ Keeps(st, known)
        /\ known.log = st.log \cup {e} /\ known.ref = st.ref
    BY Recorded
  <1>2. steps = IF e.state = "archived" /\ Latest(known.log) = e THEN <<known>> \o Settle(known, preserve) ELSE <<known>>
    BY Zenon DEF ApplyBranchLifecycleRef
  <1>3. st.log \in SUBSET Events /\ known.log \in SUBSET Events /\ IsFiniteSet(known.log) /\ IsFiniteSet(st.log)
    BY <1>1, Zenon DEF Sound, EventsOf
  <1> HIDE DEF known, steps
  <1>4. CASE e.state = "archived" /\ Latest(known.log) = e
    <2> DEFINE q == Settle(known, preserve)
    <2>1. Archived(known.log)
      BY <1>1, <1>4, Zenon DEF Archived
    <2>2. Leaves(q, known, M, n) /\ Settled(Result(q)) /\ Applied(known, Result(q), {})
      BY <1>1, <2>1, SettleOK, Zenon
    <2> HIDE DEF q
    <2>3. Leaves(q, st, M, n)
      BY <1>1, <2>2, Kept, Zenon DEF Leaves
    <2>4. Leaves(<<known>> \o q, st, M, n) /\ Result(<<known>> \o q) = Result(q)
      BY <1>1, <2>3, OneMore
    <2>5. Applied(st, Result(q), {e})
      BY <1>1, <2>2, Zenon DEF Applied
    <2>6. steps = <<known>> \o q
      BY <1>2, <1>4, Zenon DEF q
    <2> QED BY <2>2, <2>4, <2>5, <2>6, Zenon DEF steps
  <1>5. CASE ~(e.state = "archived" /\ Latest(known.log) = e)
    <2>1. steps = <<known>>
      BY <1>2, <1>5, Zenon
    <2>2. Leaves(<<known>>, st, M, n) /\ Result(<<known>>) = known
      BY <1>1, OneWrite, Zenon
    <2>3. Applied(st, known, {e})
      BY <1>1, Zenon DEF Applied
    <2>4. ASSUME Settled(st) PROVE Settled(known)
      <3> SUFFICES ASSUME Archived(known.log) PROVE known.ref = None
        BY Zenon DEF Settled
      <3> DEFINE l == Latest(known.log)
      <3>1. l \in known.log /\ l.state = "archived" /\ \A f \in known.log \ {l} : Later(l, f)
        BY <1>3, LatestEvent, Zenon DEF Archived
      <3>2. l \in st.log
        BY <1>1, <1>5, <3>1, Zenon
      <3> HIDE DEF l
      <3>3. l = Latest(st.log)
        BY <1>1, <1>3, <3>1, <3>2, LatestEvent, Zenon
      <3>4. Archived(st.log)
        BY <3>1, <3>2, <3>3, Zenon DEF Archived
      <3> QED BY <1>1, <2>4, <3>4, Zenon DEF Settled
    <2> QED BY <2>1, <2>2, <2>3, <2>4, Zenon DEF steps
  <1> QED BY <1>4, <1>5, Zenon

\* Reconciliation completes what a dead process left, and only that.
LEMMA ReconcileOK ==
    ASSUME NEW M \in SUBSET Commit, NEW n \in Nat, NEW st, Sound(st, M, n)
    PROVE  /\ Leaves(Reconcile(st), st, M, n)
           /\ Result(Reconcile(st)) = st => Settled(st)
  <1>1. CASE Archived(st.log)
    <2>1. Reconcile(st) = Settle(st, FALSE)
      BY <1>1, Zenon DEF Reconcile
    <2>2. Leaves(Settle(st, FALSE), st, M, n) /\ (st.ref # None => Result(Settle(st, FALSE)) # st)
      BY <1>1, SettleOK, Zenon
    <2> QED BY <2>1, <2>2, Zenon DEF Settled
  <1>2. CASE ~Archived(st.log)
    <2>1. Reconcile(st) = <<st>> /\ Keeps(st, st)
      BY <1>2, Kept, Zenon DEF Reconcile, Sound
    <2>2. Leaves(<<st>>, st, M, n)
      BY <2>1, OneWrite, Zenon
    <2> QED BY <1>2, <2>1, <2>2, Zenon DEF Settled
  <1> QED BY <1>1, <1>2, Zenon

\* A branch that is hidden or gone, or whose pointer is in place.
LEMMA Seen ==
    ASSUME NEW M \in SUBSET Commit, NEW n \in Nat, NEW st, Sound(st, M, n)
    PROVE  /\ Visible(st) \in {st.ref, None}
           /\ Visible(st) = None => st.ref \in Targets(st.log) \cup {None}
           /\ Archived(st.log) => Latest(st.log).target \in Targets(st.log) /\ Latest(st.log).target \in M
  <1>1. st.log \in SUBSET Events /\ IsFiniteSet(st.log) /\ st.log \subseteq EventsOf(M, n)
    BY Zenon DEF Sound, EventsOf
  <1>2. ASSUME Archived(st.log) PROVE Latest(st.log).target \in Targets(st.log) /\ Latest(st.log).target \in M
    <2>1. Latest(st.log) \in st.log
      BY <1>1, <1>2, LatestEvent, Zenon DEF Archived
    <2> QED BY <1>1, <2>1, Zenon DEF Targets, EventsOf
  <1> QED BY <1>2, Zenon DEF Visible, Hidden

\* A branch is archived by a command of its own.
LEMMA ArchiveOK ==
    ASSUME NEW M \in SUBSET Commit, NEW n \in Nat, NEW st, Sound(st, M, n), st.ref # None \/ Archived(st.log)
    PROVE  Leaves(ArchiveBranchRef(st), st, M, n + 1)
  <1>0. PICK m \in Nat : m = n + 1 /\ n <= m
    OBVIOUS
  <1> SUFFICES Leaves(ArchiveBranchRef(st), st, M, m)
    BY <1>0, Zenon
  <1>4. Sound(st, M, m)
    BY <1>0, MoreEvents, Zenon
  <1>1. CASE st.ref = None
    <2> DEFINE a == Detach(st, Latest(st.log).target)
    <2>1. ArchiveBranchRef(st) = <<a>>
      BY <1>1, Zenon DEF ArchiveBranchRef
    <2>2. Latest(st.log).target \in Commit
      BY <1>1, Seen, Zenon
    <2>3. Sound(a, M, m) /\ Keeps(st, a)
      BY <1>4, <2>2, Detached, Zenon
    <2> HIDE DEF a
    <2> QED BY <2>1, <2>3, OneWrite, Zenon
  <1>2. CASE st.ref # None /\ Hidden(st)
    <2>1. ArchiveBranchRef(st) = RemoveRef(st)
      BY <1>2, Zenon DEF ArchiveBranchRef
    <2>2. st.ref \in Targets(st.log)
      BY <1>2, Seen, Zenon DEF Hidden
    <2> QED BY <1>4, <2>1, <2>2, RemoveRefOK, Zenon
  <1>3. CASE st.ref # None /\ ~Hidden(st)
    <2> DEFINE e == Event(NextGeneration(st.log), "archived", st.ref)
               noted == [st EXCEPT !.log = @ \cup {e}]
    <2>1. ArchiveBranchRef(st) = <<noted>> \o RemoveRef(noted)
      BY <1>3, Zenon DEF ArchiveBranchRef
    <2>2. /\ st.log \in SUBSET Events /\ IsFiniteSet(st.log) /\ st.log \subseteq EventsOf(M, n)
          /\ st.ref \in M /\ st.ref \in Commit
      BY <1>3, Zenon DEF Sound, EventsOf
    <2>3. e \in Events
      BY <2>2, NextEvent, Zenon
    <2>4. e.state = "archived" /\ e.target = st.ref /\ e.gen = NextGeneration(st.log)
      BY Zenon DEF Event
    <2> HIDE DEF e
    <2>5. e.gen < 2 * m
      <3>1. CASE st.log = {}
        BY <1>0, <2>4, <3>1 DEF NextGeneration
      <3>2. CASE st.log # {}
        <4>1. Latest(st.log) \in EventsOf(M, n) /\ e.gen = Latest(st.log).gen + 1
          BY <2>2, <2>4, <3>2, LatestEvent DEF NextGeneration
        <4>2. Latest(st.log).gen \in Nat /\ Latest(st.log).gen <= 2 * n
          BY <4>1, Zenon DEF EventsOf, Events
        <4> QED BY <1>0, <4>1, <4>2
      <3> QED BY <3>1, <3>2, Zenon
    <2>6. e \in EventsOf(M, m)
      BY <2>2, <2>3, <2>4, <2>5 DEF EventsOf, Events
    <2>7. Sound(noted, M, m) /\ Keeps(st, noted) /\ noted.log = st.log \cup {e} /\ noted.ref = st.ref
      BY <1>4, <2>6, Recorded
    <2> HIDE DEF noted
    <2>8. noted.ref \in Targets(noted.log)
      BY <2>4, <2>7, Zenon DEF Targets
    <2>9. Leaves(RemoveRef(noted), noted, M, m)
      BY <2>7, <2>8, RemoveRefOK, Zenon
    <2>10. Leaves(RemoveRef(noted), st, M, m)
      BY <2>7, <2>9, Kept, Zenon DEF Leaves
    <2> QED BY <2>1, <2>7, <2>10, OneMore
  <1> QED BY <1>1, <1>2, <1>3, Zenon

\* A branch that no reader sees is created, and selected, by a command.
LEMMA CreateOK ==
    ASSUME NEW M \in SUBSET Commit, NEW n \in Nat, NEW st, Sound(st, M, n), NEW t \in M, Visible(st) = None
    PROVE  LET steps == CreateBranchRef(st, t)
           IN  Leaves(Append(steps, [Result(steps) EXCEPT !.head = Symbolic]), st, M, n + 1)
  <1>0. PICK m \in Nat : m = n + 1 /\ n <= m /\ n < m
    OBVIOUS
  <1> DEFINE a == Activate(st, t)
             b == [a EXCEPT !.ref = t]
             c == [b EXCEPT !.head = Symbolic]
  <1>1. CreateBranchRef(st, t) = <<a, b>>
    BY Zenon DEF CreateBranchRef
  <1>2. Sound(a, M, m) /\ Keeps(st, a) /\ a.ref = st.ref /\ Applied(st, a, {})
    BY <1>0, ActivateOK
  <1>3. st.ref \in Targets(st.log) \cup {None} /\ t # None /\ t \in Commit
    BY Seen, Marks, Zenon
  <1>4. Targets(st.log) \subseteq Targets(a.log)
    BY <1>2, Zenon DEF Targets, Applied
  <1> HIDE DEF a
  <1>5. Sound(b, M, m) /\ Keeps(a, b) /\ b.ref = t
    BY <1>2, <1>3, <1>4, Pointed
  <1>6. Keeps(st, b)
    BY <1>2, <1>5, Kept, Zenon DEF Applied
  <1> HIDE DEF b
  <1>7. Sound(c, M, m) /\ Keeps(b, c) /\ c.log = b.log /\ c.ref = b.ref
    BY <1>3, <1>5, Selected, Zenon
  <1> HIDE DEF c
  <1>8. Keeps(st, c)
    BY <1>6, <1>7, Zenon DEF Keeps
  <1>9. Leaves(<<a, b>>, st, M, m) /\ Result(<<a, b>>) = b
    BY <1>2, <1>5, <1>6, TwoWrites
  <1>10. Leaves(Append(<<a, b>>, c), st, M, m)
    BY <1>7, <1>8, <1>9, OneMore, Zenon
  <1> QED BY <1>0, <1>1, <1>9, <1>10, Zenon DEF c

\* A pointer that is seen moves forward, or appears where none was archived.
LEMMA PutRefOK ==
    ASSUME NEW M \in SUBSET Commit, NEW n \in Nat, NEW st, Sound(st, M, n), NEW t \in M,
           Archived(st.log) => st.ref # None, st.ref # None => Holds(t, st.ref)
    PROVE  LET steps == PutRef(st, t)
           IN  /\ Leaves(steps, st, M, n)
               /\ Result(steps).ref = t /\ st.log \subseteq Result(steps).log /\ ~Archived(Result(steps).log)
  <1>0. st.ref \in M \cup {None} /\ t \in Commit /\ t # None /\ n <= n
    BY Marks DEF Sound
  <1>1. CASE Archived(st.log)
    <2> DEFINE a == Activate(st, st.ref)
               b == [a EXCEPT !.ref = t]
    <2>1. PutRef(st, t) = <<a, b>>
      BY <1>1, Zenon DEF PutRef
    <2>2. /\ Sound(a, M, n) /\ Keeps(st, a) /\ ~Archived(a.log) /\ a.ref = st.ref
          /\ st.ref \in Targets(a.log) /\ Applied(st, a, {})
      BY <1>0, <1>1, ActivateOK
    <2> HIDE DEF a
    <2>3. Sound(b, M, n) /\ Keeps(a, b) /\ b.ref = t /\ b.log = a.log
      BY <1>0, <2>2, Pointed
    <2>4. Keeps(st, b)
      BY <2>2, <2>3, Kept, Zenon DEF Applied
    <2> HIDE DEF b
    <2>5. Leaves(<<a, b>>, st, M, n) /\ Result(<<a, b>>) = b
      BY <2>2, <2>3, <2>4, TwoWrites
    <2> QED BY <2>1, <2>2, <2>3, <2>5, Zenon DEF Applied
  <1>2. CASE ~Archived(st.log)
    <2> DEFINE b == [st EXCEPT !.ref = t]
    <2>1. PutRef(st, t) = <<b>>
      BY <1>2, Zenon DEF PutRef
    <2>2. Sound(b, M, n) /\ Keeps(st, b) /\ b.ref = t /\ b.log = st.log
      BY <1>0, Pointed
    <2> HIDE DEF b
    <2>3. Leaves(<<b>>, st, M, n) /\ Result(<<b>>) = b
      BY <2>2, OneWrite, Zenon
    <2> QED BY <1>2, <2>1, <2>2, <2>3, Zenon
  <1> QED BY <1>1, <1>2, Zenon

\* The server moves a branch forward or refuses; it never reopens an archive.
LEMMA UpdateRefOK ==
    ASSUME NEW M \in SUBSET Commit, NEW n \in Nat, NEW st, Sound(st, M, n), NEW t \in M,
           NEW new \in UpdateRef(st, t)
    PROVE  /\ Sound(new, M, n) /\ Keeps(st, new) /\ st.log \subseteq new.log
           /\ Settled(st) => Settled(new)
           /\ Visible(st) # t => new.ref = t
  <1>1. CASE Visible(st) = t
    <2>1. new = st
      BY <1>1, Zenon DEF UpdateRef
    <2> QED BY <1>1, <2>1, Kept, Zenon DEF Sound
  <1>2. CASE Visible(st) # t
    <2>1. /\ new = Result(PutRef(st, t))
          /\ Visible(st) # None => Holds(t, Visible(st))
          /\ Archived(st.log) => Visible(st) # None
      BY <1>2, Zenon DEF UpdateRef
    <2>2. Archived(st.log) => st.ref # None
      BY <2>1, Seen, Zenon
    <2>3. st.ref # None => Holds(t, st.ref)
      BY <2>1, Zenon DEF Visible, Hidden
    <2>4. /\ Leaves(PutRef(st, t), st, M, n) /\ new.ref = t /\ st.log \subseteq new.log /\ ~Archived(new.log)
      BY <2>1, <2>2, <2>3, PutRefOK
    <2>5. Sound(new, M, n) /\ Keeps(st, new)
      BY <2>1, <2>4 DEF Leaves, Result
    <2> QED BY <2>4, <2>5, Zenon DEF Settled
  <1> QED BY <1>1, <1>2, Zenon

\* A pull adopts the server's branch or keeps its own.
LEMMA AdoptRefOK ==
    ASSUME NEW M \in SUBSET Commit, NEW n \in Nat, NEW st, Sound(st, M, n), NEW t \in M \cup {None},
           NEW new \in AdoptRef(st, t)
    PROVE  Sound(new, M, n) /\ Keeps(st, new) /\ new.ref = t /\ new.log = st.log /\ t # None
  <1>1. /\ new = [st EXCEPT !.ref = t] /\ t # None
        /\ Visible(st) # None => Holds(t, Visible(st))
        /\ Archived(st.log) => Visible(st) # None
    BY Zenon DEF AdoptRef
  <1>2. st.ref # None => Holds(t, st.ref) \/ st.ref \in Targets(st.log)
    BY <1>1, Seen, Zenon
  <1> QED BY <1>1, <1>2, Pointed
----------------------------------------------------------------------------
(* A batch of events.                                                      *)

\* Applying keeps a store, and one event more is applied after the others.
LEMMA AppliedKeeps ==
    /\ \A st \in StoreType : \A new, D : Applied(st, new, D) => Keeps(st, new)
    /\ \A st : Applied(st, st, {})
    /\ \A st, a, b, D, x : Applied(st, a, D) /\ Applied(a, b, {x}) => Applied(st, b, D \cup {x})
  <1>1. ASSUME NEW st \in StoreType, NEW new, NEW D, Applied(st, new, D) PROVE Keeps(st, new)
    BY <1>1, Zenon DEF Applied, Keeps, StoreType
  <1>2. ASSUME NEW st PROVE Applied(st, st, {})
    BY Zenon DEF Applied
  <1>3. ASSUME NEW st, NEW a, NEW b, NEW D, NEW x, Applied(st, a, D), Applied(a, b, {x})
        PROVE  Applied(st, b, D \cup {x})
    <2>1. Targets(a.log) \subseteq Targets(b.log)
      BY <1>3, Zenon DEF Applied, Targets
    <2> QED BY <1>3, <2>1, Zenon DEF Applied
  <1> QED BY <1>1, <1>2, <1>3, Zenon

\* A batch is recorded whole, its archives settle in order, and what else is
\* recorded is active: a pointer that goes is the target of an event.
LEMMA ApplyEventsOK ==
    ASSUME NEW M \in SUBSET Commit, NEW n \in Nat, NEW st, Sound(st, M, n),
           NEW D \in SUBSET EventsOf(M, n), IsFiniteSet(D)
    PROVE  LET new == ApplyEvents(st, D)
           IN  /\ Sound(new, M, n) /\ Keeps(st, new) /\ Applied(st, new, D)
               /\ Settled(st) => Settled(new)
  <1> DEFINE N == Cardinality(D)
             Size(S) == Cardinality(S)
             Rest(S) == S \ {LastNamed(S)}
             After(v, S) == Result(ApplyBranchLifecycleRef(v, LastNamed(S), FALSE))
             Body(G, P) == [S \in P |-> IF S = {} THEN st ELSE After(G[Rest(S)], S)]
             Upto(k) == {S \in SUBSET D : Size(S) <= k}
  <1>1. ASSUME NEW S \in SUBSET D
        PROVE  /\ Size(S) \in Nat /\ N \in Nat /\ Size(S) <= N
               /\ S # {} => /\ LastNamed(S) \in S /\ LastNamed(S) \in EventsOf(M, n)
                            /\ Rest(S) \in SUBSET D /\ Size(Rest(S)) = Size(S) - 1 /\ Size(S) # 0
                            /\ Rest(S) \cup {LastNamed(S)} = S
    <2>1. IsFiniteSet(S) /\ Size(S) <= N
      BY FS_Subset, Zenon
    <2>2. Size(S) \in Nat /\ N \in Nat
      BY <2>1, FS_CardinalityType, Zenon
    <2>3. S \in SUBSET Events
      BY Zenon DEF EventsOf
    <2>4. ASSUME S # {}
          PROVE  LastNamed(S) \in S /\ Size(Rest(S)) = Size(S) - 1 /\ Size(Rest(S)) \in Nat
      <3>1. LastNamed(S) \in S
        BY <2>1, <2>3, <2>4, LastEvent, Zenon
      <3>2. IsFiniteSet(Rest(S)) /\ Size(Rest(S)) = Size(S) - 1
        BY <2>1, <3>1, FS_RemoveElement, Zenon
      <3> QED BY <3>1, <3>2, FS_CardinalityType, Zenon
    <2> HIDE DEF Size, N
    <2> QED BY <2>1, <2>2, <2>4
  <1>2. Upto(N) = SUBSET D /\ N \in Nat
    BY <1>1, Zenon
  <1>3. \A S \in SUBSET D : Size(S) = 0 => S = {}
    BY <1>1, Zenon
  <1> HIDE DEF Size, N, After
  <1>4. \A k \in 0..N : \E G : G = Body(G, Upto(k))
    <2> DEFINE Defined(k) == \E G : G = Body(G, Upto(k))
               T == {k \in 0..N : ~Defined(k)}
    <2>0. Defined(0)
      <3>1. \A S \in Upto(0) : S = {}
        <4>1. ASSUME NEW S \in Upto(0) PROVE S = {}
          <5>1. S \in SUBSET D /\ Size(S) <= 0
            BY Zenon
          <5>2. Size(S) \in Nat
            BY <1>1, <5>1, Zenon
          <5>3. Size(S) = 0
            BY <5>1, <5>2
          <5> QED BY <1>3, <5>1, <5>3, Zenon
        <4> QED BY <4>1, Zenon
      <3>2. [S \in Upto(0) |-> st] = Body([S \in Upto(0) |-> st], Upto(0))
        BY <3>1, Zenon
      <3> QED BY <3>2, Zenon
    <2> SUFFICES ASSUME T # {} PROVE FALSE
      BY Zenon
    <2> HIDE DEF Defined
    <2>1. T \in SUBSET Nat
      BY <1>2
    <2>2. PICK k \in T : \A m \in T : k <= m
      <3> HIDE DEF T
      <3> QED BY <2>1, LeastNatural, Zenon
    <2>3. k # 0
      BY <2>0, <2>2, Zenon
    <2>4. PICK j \in 0..N : k = j + 1 /\ ~(k <= j)
      <3>1. k - 1 \in 0..N /\ k = (k - 1) + 1 /\ ~(k <= k - 1)
        BY <1>2, <2>2, <2>3
      <3> QED BY <3>1, Zenon
    <2>5. PICK G : G = Body(G, Upto(j))
      BY <2>2, <2>4, Zenon DEF Defined
    <2> DEFINE H == [S \in Upto(k) |-> IF S = {} THEN st ELSE After(G[Rest(S)], S)]
    <2>6. ASSUME NEW S \in Upto(k), S # {}
          PROVE  Rest(S) \in Upto(j) /\ Rest(S) \in Upto(k)
      <3>1. S \in SUBSET D /\ Size(S) <= k /\ j \in Nat
        BY <1>2
      <3>2. Rest(S) \in SUBSET D /\ Size(Rest(S)) = Size(S) - 1 /\ Size(S) \in Nat
        BY <1>1, <2>6, <3>1, Zenon
      <3> HIDE DEF Rest
      <3> QED BY <2>4, <3>1, <3>2
    <2> HIDE DEF Rest
    <2>7. ASSUME NEW S \in Upto(j) PROVE S \in Upto(k) /\ H[S] = G[S]
      <3>1. S \in Upto(k)
        BY <1>1, <1>2, <2>4, <2>7
      <3>2. H[S] = IF S = {} THEN st ELSE After(G[Rest(S)], S)
        BY <3>1, Zenon
      <3>3. G[S] = IF S = {} THEN st ELSE After(G[Rest(S)], S)
        BY <2>5, <2>7, Zenon
      <3> QED BY <3>1, <3>2, <3>3, Zenon
    <2> HIDE DEF Upto
    <2>8. ASSUME NEW S \in Upto(k) PROVE H[S] = IF S = {} THEN st ELSE After(H[Rest(S)], S)
      BY <2>6, <2>7, Zenon
    <2>9. H = Body(H, Upto(k))
      <3>1. Body(H, Upto(k)) = [S \in Upto(k) |-> H[S]]
        BY <2>8, Zenon
      <3> QED BY <3>1, Zenon
    <2>10. Defined(k)
      BY <2>9, Zenon DEF Defined
    <2> QED BY <2>2, <2>10, Zenon
  <1> DEFINE G == CHOOSE F : F = Body(F, SUBSET D)
  <1>5. G = Body(G, SUBSET D)
    <2>1. \E F : F = Body(F, SUBSET D)
      <3>1. N \in 0..N
        BY <1>2
      <3> HIDE DEF Body, Upto
      <3> QED BY <1>2, <1>4, <3>1, Zenon
    <2> HIDE DEF Body
    <2> QED BY <2>1, Zenon
  <1>6. ApplyEvents(st, D) = G[D]
    BY Zenon DEF ApplyEvents, After
  <1> HIDE DEF G
  <1>7. /\ G[{}] = st
        /\ \A S \in SUBSET D : S # {} => G[S] = After(G[Rest(S)], S)
    <2>1. \A S \in SUBSET D : G[S] = IF S = {} THEN st ELSE After(G[Rest(S)], S)
      BY <1>5, Zenon
    <2> HIDE DEF Rest
    <2> QED BY <2>1, Zenon
  <1> DEFINE Right(S) == /\ Sound(G[S], M, n) /\ Applied(st, G[S], S)
                         /\ Settled(st) => Settled(G[S])
  <1>8. Right({})
    BY <1>7, AppliedKeeps, Zenon
  <1>9. ASSUME NEW S \in SUBSET D, S # {}, Right(Rest(S)) PROVE Right(S)
    <2> DEFINE a == G[Rest(S)]
               x == LastNamed(S)
               steps == ApplyBranchLifecycleRef(a, x, FALSE)
    <2>1. x \in EventsOf(M, n) /\ Rest(S) \cup {x} = S /\ FALSE \in BOOLEAN
      BY <1>1, <1>9, Zenon
    <2>2. G[S] = Result(steps)
      BY <1>7, <1>9, Zenon DEF After
    <2>3. Sound(a, M, n) /\ Applied(st, a, Rest(S)) /\ (Settled(st) => Settled(a))
      BY <1>9, Zenon
    <2> HIDE DEF a, x, Right, Rest
    <2>4. Leaves(steps, a, M, n) /\ Applied(a, Result(steps), {x}) /\ (Settled(a) => Settled(Result(steps)))
      BY <2>1, <2>3, ApplyOK, Zenon
    <2> HIDE DEF steps
    <2>5. Sound(Result(steps), M, n)
      BY <2>4 DEF Leaves, Result
    <2>6. Applied(st, Result(steps), S)
      <3>1. Applied(st, Result(steps), Rest(S) \cup {x})
        BY <2>3, <2>4, AppliedKeeps, Zenon
      <3> QED BY <2>1, <3>1, Zenon
    <2> QED BY <2>2, <2>3, <2>4, <2>5, <2>6, Zenon DEF Right
  <1>10. Right(D)
    <2> DEFINE T == {k \in Nat : \E S \in SUBSET D : Size(S) = k /\ ~Right(S)}
    <2> HIDE DEF Right
    <2> SUFFICES ASSUME ~Right(D) PROVE FALSE
      BY Zenon
    <2>1. T \in SUBSET Nat /\ T # {}
      BY <1>1, Zenon
    <2>2. PICK k \in T : \A m \in T : k <= m
      <3> HIDE DEF T
      <3> QED BY <2>1, LeastNatural, Zenon
    <2>3. PICK S \in SUBSET D : Size(S) = k /\ ~Right(S) /\ k \in Nat
      BY <2>2, Zenon
    <2>4. S # {}
      BY <1>8, <2>3, Zenon
    <2>5. Rest(S) \in SUBSET D /\ Size(Rest(S)) = k - 1 /\ k - 1 \in Nat /\ ~(k <= k - 1)
      BY <1>1, <2>3, <2>4
    <2> HIDE DEF Rest
    <2>6. Right(Rest(S))
      BY <2>2, <2>5, Zenon
    <2> QED BY <1>9, <2>3, <2>4, <2>6, Zenon
  <1>11. Keeps(st, G[D])
    BY <1>10, AppliedKeeps, Zenon DEF Sound
  <1> QED BY <1>6, <1>10, <1>11, Zenon
----------------------------------------------------------------------------
(* What the parts of a step keep.                                          *)

\* One replica's store is replaced.
LEMMA StoreWritten ==
    ASSUME NEW M \in SUBSET Commit, NEW N \in SUBSET Commit, M \subseteq N, NEW m \in Nat, NEW n \in Nat, m <= n,
           NEW s, StoresOK(s, M, m), NEW r \in Replica, NEW new,
           Sound(new, N, n), Keeps(s[r], new), r = Server => Settled(new)
    PROVE  LET t == [s EXCEPT ![r] = new]
           IN  StoresOK(t, N, n) /\ \A q \in Replica : Keeps(s[q], t[q])
  <1> DEFINE t == [s EXCEPT ![r] = new]
  <1>1. s \in [Replica -> StoreType] /\ new \in StoreType /\ Server \in Replica
    BY Marks, Zenon DEF StoresOK, Sound
  <1>2. t \in [Replica -> StoreType] /\ \A q \in Replica : t[q] = IF q = r THEN new ELSE s[q]
    BY <1>1, Zenon
  <1> HIDE DEF t
  <1>3. \A q \in Replica : Sound(s[q], N, n)
    BY MoreEvents, Zenon DEF StoresOK
  <1>4. \A q \in Replica : Keeps(s[q], t[q])
    BY <1>1, <1>2, Kept, Zenon
  <1>5. \A q \in Replica : Sound(t[q], N, n)
    BY <1>2, <1>3, Zenon
  <1>6. Settled(t[Server])
    BY <1>1, <1>2, Zenon DEF StoresOK
  <1> QED BY <1>2, <1>4, <1>5, <1>6, Zenon DEF StoresOK, t

\* No replica's store is replaced.
LEMMA StoresStay ==
    ASSUME NEW M \in SUBSET Commit, NEW N \in SUBSET Commit, M \subseteq N, NEW m \in Nat, NEW n \in Nat, m <= n
    PROVE  /\ \A s : StoresOK(s, M, m) => StoresOK(s, N, n) /\ \A q \in Replica : Keeps(s[q], s[q])
           /\ \A pu, pl : SyncsOK(pu, pl, M, m) => SyncsOK(pu, pl, N, n)
  <1>1. EventsOf(M, m) \subseteq EventsOf(N, n) /\ \A st : Sound(st, M, m) => Sound(st, N, n)
    BY MoreEvents, Zenon
  <1>2. ASSUME NEW s, StoresOK(s, M, m)
        PROVE  StoresOK(s, N, n) /\ \A q \in Replica : Keeps(s[q], s[q])
    BY <1>1, <1>2, Kept, Zenon DEF StoresOK
  <1>3. ASSUME NEW pu, NEW pl, SyncsOK(pu, pl, M, m) PROVE SyncsOK(pu, pl, N, n)
    BY <1>1, <1>3, Zenon DEF SyncsOK
  <1> QED BY <1>2, <1>3, Zenon

\* A client's process makes some writes of an operation.
LEMMA Written ==
    ASSUME LifecycleInv, NEW c \in Client, NEW N \in SUBSET Commit, made \subseteq N, NEW n \in Nat, ops <= n,
           NEW steps, Leaves(steps, store[c], N, n), NEW k, Writes(c, steps, k)
    PROVE  /\ StoresOK(store', N, n) /\ Grows
           /\ crashes' \in 0..MaxCrashes
           /\ store'[Server] = store[Server]
  <1>1. /\ k \in 1..Len(steps) /\ store' = [store EXCEPT ![c] = steps[k]]
        /\ crashes' = IF k < Len(steps) THEN crashes + 1 ELSE crashes
        /\ k < Len(steps) => crashes < MaxCrashes
    BY Zenon DEF Writes
  <1>2. Sound(steps[k], N, n) /\ Keeps(store[c], steps[k])
    BY <1>1, Zenon DEF Leaves
  <1>3. c \in Replica /\ c # Server /\ Server \in Replica
    BY CommitAssumption, Zenon DEF Replica
  <1>4. StoresOK(store, made, ops) /\ made \in SUBSET Commit /\ ops \in Nat
    BY BoundAssumption DEF LifecycleInv
  <1>5. StoresOK(store', N, n) /\ Grows
    BY <1>1, <1>2, <1>3, <1>4, StoreWritten, Zenon DEF Grows
  <1>6. crashes' \in 0..MaxCrashes
    BY <1>1, BoundAssumption DEF LifecycleInv
  <1>7. store'[Server] = store[Server]
    BY <1>1, <1>3, <1>4, Zenon DEF StoresOK
  <1> QED BY <1>5, <1>6, <1>7, Zenon

\* A store and what it shows, under the invariant.
LEMMA Replicas ==
    ASSUME LifecycleInv
    PROVE  /\ made \in SUBSET Commit /\ ops \in Nat /\ Server \in Replica /\ Client \subseteq Replica
           /\ \A r \in Replica : /\ Sound(store[r], made, ops) /\ store[r].log \subseteq EventsOf(made, ops)
                                 /\ IsFiniteSet(store[r].log) /\ Visible(store[r]) \in made \cup {None}
  <1>1. made \in SUBSET Commit /\ ops \in Nat /\ Server \in Replica /\ Client \subseteq Replica
    BY BoundAssumption DEF LifecycleInv, Replica
  <1>2. \A r \in Replica : Sound(store[r], made, ops)
    BY Zenon DEF LifecycleInv, StoresOK
  <1>3. \A r \in Replica : Visible(store[r]) \in {store[r].ref, None}
    BY <1>1, <1>2, Seen, Zenon
  <1> QED BY <1>1, <1>2, <1>3, Zenon DEF Sound

----------------------------------------------------------------------------
(* Commands.                                                               *)

\* Git and HEAD of a branch that is there.
LEMMA SelectStep ==
    ASSUME LifecycleInv, (\E c \in Client : GitBranch(c) \/ Checkout(c)) \/ SelectHead
    PROVE  LifecycleInv' /\ Grows
  <1>1. CASE \E c \in Client : GitBranch(c)
    <2>1. PICK c \in Client : git' = [git EXCEPT ![c] = ~@] /\ UNCHANGED <<store, made, push, pull, ops, crashes>>
      BY <1>1, Zenon DEF GitBranch
    <2>2. git' \in [Client -> BOOLEAN]
      BY <2>1, Zenon DEF LifecycleInv
    <2>3. Grows
      BY <2>1, Kept, Zenon DEF Grows, LifecycleInv, StoresOK
    <2> QED BY <2>1, <2>2, <2>3, Zenon DEF LifecycleInv
  <1>2. ASSUME NEW r \in Replica, Visible(store[r]) # None, store' = [store EXCEPT ![r].head = Symbolic],
               UNCHANGED <<git, made, push, pull, ops, crashes>>
        PROVE  LifecycleInv' /\ Grows
    <2> DEFINE new == [store[r] EXCEPT !.head = Symbolic]
    <2>1. made \in SUBSET Commit /\ ops \in Nat /\ ops <= ops /\ Sound(store[r], made, ops)
      BY Replicas
    <2>2. store[r].ref # None
      BY <1>2, <2>1, Seen, Zenon
    <2>3. Sound(new, made, ops) /\ Keeps(store[r], new) /\ new.log = store[r].log /\ new.ref = store[r].ref
      BY <2>1, <2>2, Selected
    <2>4. store' = [store EXCEPT ![r] = new]
      BY <1>2, Zenon
    <2> HIDE DEF new
    <2>5. r = Server => Settled(new)
      BY <2>3, Zenon DEF LifecycleInv, StoresOK, Settled
    <2>6. StoresOK(store', made, ops) /\ Grows
      BY <2>1, <2>3, <2>4, <2>5, StoreWritten, Zenon DEF LifecycleInv, Grows
    <2> QED BY <1>2, <2>6, Zenon DEF LifecycleInv
  <1>3. CASE \E c \in Client : Checkout(c)
    BY <1>2, <1>3, Replicas, Zenon DEF Checkout
  <1>4. CASE SelectHead
    BY <1>2, <1>4, Replicas, Zenon DEF SelectHead
  <1> QED BY <1>1, <1>3, <1>4, Zenon

\* A save moves the pointer forward.
LEMMA SaveStep ==
    ASSUME LifecycleInv, NEW c \in Client, NEW s \in Commit, NEW k \in 1..3, Save(c, s, k)
    PROVE  LifecycleInv' /\ Grows
  <1> DEFINE st == store[c]
             steps == PutRef(st, s)
             last == [Result(steps) EXCEPT !.head = Symbolic]
             N == made \cup {s}
  <1>1. /\ Visible(st) # None /\ Parent[s] = Visible(st) /\ Writes(c, Append(steps, last), k)
        /\ made' = N /\ UNCHANGED <<git, push, pull, ops>>
    BY Zenon DEF Save
  <1>2. /\ made \in SUBSET Commit /\ N \in SUBSET Commit /\ made \subseteq N /\ s \in N
        /\ ops \in Nat /\ ops <= ops /\ Sound(st, made, ops)
    BY Replicas
  <1> HIDE DEF N
  <1>3. Sound(st, N, ops)
    BY <1>2, MoreEvents, Zenon
  <1>4. st.ref = Visible(st)
    BY <1>1, <1>3, <1>2, Seen, Zenon
  <1>5. Holds(s, st.ref) /\ st.ref # None
    BY <1>1, <1>4, Ancestry, Zenon
  <1> HIDE DEF st
  <1>6. Leaves(steps, st, N, ops) /\ Result(steps).ref = s
    BY <1>2, <1>3, <1>5, PutRefOK
  <1> HIDE DEF steps
  <1>7. Sound(Result(steps), N, ops) /\ Keeps(st, Result(steps)) /\ s # None
    BY <1>6, Marks DEF Leaves, Result
  <1>8. Sound(last, N, ops) /\ last.log = Result(steps).log /\ last.ref = Result(steps).ref
    BY <1>2, <1>6, <1>7, Selected, Zenon
  <1>9. Keeps(st, last)
    BY <1>7, <1>8, Zenon DEF Keeps
  <1> HIDE DEF last
  <1>10. Leaves(Append(steps, last), st, N, ops)
    BY <1>6, <1>8, <1>9, OneMore, Zenon
  <1>11. StoresOK(store', N, ops) /\ Grows /\ crashes' \in 0..MaxCrashes
    BY <1>1, <1>2, <1>10, Written, Zenon DEF st
  <1>12. SyncsOK(push, pull, N, ops)
    BY <1>2, StoresStay, Zenon DEF LifecycleInv
  <1> QED BY <1>1, <1>2, <1>11, <1>12, Zenon DEF LifecycleInv

\* A command that counts: the stores are rewritten under one command more.
LEMMA Commanded ==
    ASSUME LifecycleInv, NEW c \in Client, NEW k, NEW steps, Leaves(steps, store[c], made, ops + 1),
           Writes(c, steps, k), ops < MaxOps, ops' = ops + 1, UNCHANGED <<git, made, push, pull>>
    PROVE  LifecycleInv' /\ Grows
  <1>0. PICK n \in Nat : n = ops + 1 /\ ops <= n /\ n \in 0..MaxOps
    BY BoundAssumption DEF LifecycleInv
  <1>1. made \in SUBSET Commit /\ ops \in Nat /\ made \subseteq made
    BY Replicas, Zenon
  <1>2. StoresOK(store', made, n) /\ Grows /\ crashes' \in 0..MaxCrashes
    BY <1>0, <1>1, Written, Zenon
  <1>3. SyncsOK(push, pull, made, n)
    BY <1>0, <1>1, StoresStay, Zenon DEF LifecycleInv
  <1> QED BY <1>0, <1>2, <1>3, Zenon DEF LifecycleInv

\* The commands that create and archive.
LEMMA CommandStep ==
    ASSUME LifecycleInv, NEW c \in Client, NEW k \in 1..3,
           (\E s \in Commit : Create(c, s, k)) \/ Archive(c, k)
    PROVE  LifecycleInv' /\ Grows
  <1>1. made \in SUBSET Commit /\ ops \in Nat /\ Sound(store[c], made, ops)
    BY Replicas, Zenon
  <1>2. ASSUME NEW s \in Commit, Create(c, s, k) PROVE LifecycleInv' /\ Grows
    <2> DEFINE steps == CreateBranchRef(store[c], s)
               all == Append(steps, [Result(steps) EXCEPT !.head = Symbolic])
    <2>1. /\ ops < MaxOps /\ s \in made /\ Visible(store[c]) = None /\ Writes(c, all, k)
          /\ ops' = ops + 1 /\ UNCHANGED <<git, made, push, pull>>
      BY <1>2, Zenon DEF Create
    <2>2. Leaves(all, store[c], made, ops + 1)
      BY <1>1, <2>1, CreateOK, Zenon
    <2> HIDE DEF all
    <2> QED BY <2>1, <2>2, Commanded, Zenon
  <1>3. CASE Archive(c, k)
    <2>1. /\ ops < MaxOps
          /\ Writes(c, ArchiveBranchRef(store[c]), k)
          /\ ops' = ops + 1 /\ UNCHANGED <<git, made, push, pull>>
      BY <1>3, Zenon DEF Archive
    <2>2. store[c].ref # None \/ Archived(store[c].log)
      BY <1>3, Zenon DEF Archive
    <2>3. Leaves(ArchiveBranchRef(store[c]), store[c], made, ops + 1)
      BY <1>1, <2>2, ArchiveOK, Zenon
    <2> QED BY <2>1, <2>3, Commanded, Zenon
  <1> QED BY <1>2, <1>3, Zenon
----------------------------------------------------------------------------
(* Push and pull.                                                          *)

\* The record of one client's push or pull is replaced.
LEMMA SyncWritten ==
    ASSUME NEW pu, NEW pl, NEW M, NEW n, SyncsOK(pu, pl, M, n), NEW c \in Client
    PROVE  /\ \A x \in [pc : {"idle", "read", "compare", "send"},
                        events : SUBSET Events, branch : Commit \cup {None}] :
                /\ x.events \subseteq EventsOf(M, n) /\ IsFiniteSet(x.events) /\ x.branch \in M \cup {None}
                => SyncsOK([pu EXCEPT ![c] = x], pl, M, n)
           /\ \A x \in [pc : {"idle", "inventory", "apply"}, todo : SUBSET Events,
                        branch : Commit \cup {None}, live : BOOLEAN] :
                /\ x.todo \subseteq EventsOf(M, n) /\ x.branch \in M \cup {None}
                => SyncsOK(pu, [pl EXCEPT ![c] = x], M, n)
  BY Zenon DEF SyncsOK

\* A push or a pull that ends leaves nothing.
LEMMA Idle ==
    ASSUME NEW pu, NEW pl, NEW M, NEW n, SyncsOK(pu, pl, M, n), NEW c \in Client
    PROVE  SyncsOK([pu EXCEPT ![c] = IdlePush], pl, M, n) /\ SyncsOK(pu, [pl EXCEPT ![c] = IdlePull], M, n)
  <1>1. /\ IdlePush \in [pc : {"idle", "read", "compare", "send"},
                         events : SUBSET Events, branch : Commit \cup {None}]
        /\ IdlePush.events \subseteq EventsOf(M, n) /\ IdlePush.events = {} /\ IdlePush.branch \in M \cup {None}
    BY Zenon DEF IdlePush
  <1>2. /\ IdlePull \in [pc : {"idle", "inventory", "apply"}, todo : SUBSET Events,
                         branch : Commit \cup {None}, live : BOOLEAN]
        /\ IdlePull.todo \subseteq EventsOf(M, n) /\ IdlePull.branch \in M \cup {None}
    BY Zenon DEF IdlePull
  <1>3. IsFiniteSet(IdlePush.events)
    BY <1>1, FS_EmptySet, Zenon
  <1> QED BY <1>1, <1>2, <1>3, SyncWritten, Zenon

\* A push reconciles the local store first.
LEMMA StartPushStep ==
    ASSUME LifecycleInv, NEW c \in Client, NEW k \in 1..3, StartPush(c, k)
    PROVE  LifecycleInv' /\ Grows
  <1> DEFINE steps == Reconcile(store[c])
             x == [push[c] EXCEPT !.pc = IF Done(steps, k) THEN "read" ELSE "idle"]
  <1>1. /\ Writes(c, steps, k) /\ UNCHANGED <<git, made, pull, ops>>
        /\ push' = [push EXCEPT ![c].pc = IF Done(steps, k) THEN "read" ELSE "idle"]
    BY Zenon DEF StartPush
  <1>2. made \in SUBSET Commit /\ ops \in Nat /\ ops <= ops /\ made \subseteq made /\ Sound(store[c], made, ops)
    BY Replicas
  <1>3. Leaves(steps, store[c], made, ops)
    BY <1>2, ReconcileOK, Zenon
  <1>4. StoresOK(store', made, ops) /\ Grows /\ crashes' \in 0..MaxCrashes
    BY <1>1, <1>2, <1>3, Written, Zenon
  <1>5. SyncsOK(push, pull, made, ops)
    BY Zenon DEF LifecycleInv
  <1> HIDE DEF steps
  <1>6. push' = [push EXCEPT ![c] = x]
    BY <1>1, Zenon
  <1>7. /\ x \in [pc : {"idle", "read", "compare", "send"},
                  events : SUBSET Events, branch : Commit \cup {None}]
        /\ x.events = push[c].events /\ x.branch = push[c].branch
    BY <1>5, Zenon DEF SyncsOK
  <1> HIDE DEF x
  <1>8. SyncsOK(push', pull, made, ops)
    <2>1. x.events \subseteq EventsOf(made, ops) /\ IsFiniteSet(x.events) /\ x.branch \in made \cup {None}
      BY <1>5, <1>7, Zenon DEF SyncsOK
    <2> QED BY <1>5, <1>6, <1>7, <2>1, SyncWritten, Zenon
  <1> QED BY <1>1, <1>4, <1>8, Zenon DEF LifecycleInv

\* A push reads, compares and stops without writing.
LEMMA PushStep ==
    ASSUME LifecycleInv, NEW c \in Client, PushRead(c) \/ PushCompare(c) \/ PushStops(c)
    PROVE  LifecycleInv' /\ Grows
  <1> DEFINE T == [pc : {"idle", "read", "compare", "send"}, events : SUBSET Events, branch : Commit \cup {None}]
  <1>1. SyncsOK(push, pull, made, ops) /\ c \in Replica /\ Server \in Replica
    BY Replicas, Zenon DEF LifecycleInv
  <1>2. UNCHANGED <<store, git, made, pull, ops, crashes>>
    BY Zenon DEF PushRead, PushCompare, PushStops
  <1>3. EventsOf(made, ops) \subseteq Events /\ made \subseteq Commit
    BY Zenon DEF EventsOf, LifecycleInv
  <1>4. SyncsOK(push', pull, made, ops)
    <2>1. CASE PushRead(c)
      <3> DEFINE x == [pc |-> "compare", events |-> store[c].log, branch |-> Visible(store[c])]
      <3>1. push' = [push EXCEPT ![c] = x]
        BY <2>1, Zenon DEF PushRead
      <3>2. /\ store[c].log \subseteq EventsOf(made, ops) /\ IsFiniteSet(store[c].log)
            /\ Visible(store[c]) \in made \cup {None}
        BY <1>1, Replicas, Zenon
      <3>3. x \in T /\ x.events = store[c].log /\ x.branch = Visible(store[c])
        BY <1>3, <3>2, Zenon
      <3> HIDE DEF x
      <3> QED BY <1>1, <3>1, <3>2, <3>3, SyncWritten, Zenon
    <2> DEFINE b == IF push[c].branch = Visible(store[Server]) THEN None ELSE push[c].branch
               d == push[c].events \ store[Server].log
               x == [pc |-> "send", events |-> d, branch |-> b]
               y == [push[c] EXCEPT !.pc = "send"]
    <2>2. CASE push' = [push EXCEPT ![c] = x]
      <3>1. push' = [push EXCEPT ![c] = x]
        BY <2>2, Zenon
      <3>2. /\ push[c].events \subseteq EventsOf(made, ops) /\ IsFiniteSet(push[c].events)
            /\ push[c].branch \in made \cup {None}
        BY <1>1, Zenon DEF SyncsOK
      <3>3. d \subseteq EventsOf(made, ops) /\ b \in made \cup {None}
        BY <3>2, Zenon
      <3>4. IsFiniteSet(d)
        BY <3>2, FS_Subset, Zenon
      <3> HIDE DEF d, b
      <3>5. x \in T /\ x.events = d /\ x.branch = b
        BY <1>3, <3>3, Zenon
      <3> HIDE DEF x
      <3> QED BY <1>1, <3>1, <3>3, <3>4, <3>5, SyncWritten, Zenon
    <2>3. CASE push' = [push EXCEPT ![c] = y]
      <3>1. push[c] \in T
        BY <1>1, Zenon DEF SyncsOK
      <3>2. y \in T /\ y.events = push[c].events /\ y.branch = push[c].branch
        BY <3>1
      <3>3. /\ push[c].events \subseteq EventsOf(made, ops) /\ IsFiniteSet(push[c].events)
            /\ push[c].branch \in made \cup {None}
        BY <1>1, Zenon DEF SyncsOK
      <3> HIDE DEF y
      <3> QED BY <1>1, <2>3, <3>2, <3>3, SyncWritten, Zenon
    <2>4. CASE PushStops(c)
      BY <1>1, <2>4, Idle, Zenon DEF PushStops
    <2>5. PushCompare(c) => push' = [push EXCEPT ![c] = x] \/ push' = [push EXCEPT ![c] = y]
      BY Zenon DEF PushCompare
    <2> HIDE DEF x, y
    <2> QED BY <2>1, <2>2, <2>3, <2>4, <2>5, Zenon
  <1>5. Grows
    BY <1>2, Kept, Zenon DEF Grows, LifecycleInv, StoresOK
  <1> QED BY <1>2, <1>4, <1>5, Zenon DEF LifecycleInv

\* The server applies a batch or refuses it.
LEMMA PushSendStep ==
    ASSUME LifecycleInv, NEW c \in Client, PushSend(c)
    PROVE  LifecycleInv' /\ Grows
  <1> DEFINE sv == store[Server]
             noted == ApplyEvents(sv, push[c].events)
             b == push[c].branch
  <1>1. SyncsOK(push, pull, made, ops) /\ StoresOK(store, made, ops)
    BY Zenon DEF LifecycleInv
  <1>2. /\ push' = [push EXCEPT ![c] = IdlePush] /\ UNCHANGED <<git, made, pull, ops, crashes>>
        /\ \/ \E new \in UpdateRefs(sv, push[c].events, b) : store' = [store EXCEPT ![Server] = new]
           \/ store' = store
    BY Zenon DEF PushSend
  <1>3. SyncsOK(push', pull, made, ops)
    BY <1>1, <1>2, Idle, Zenon
  <1>4. /\ made \in SUBSET Commit /\ ops \in Nat /\ ops <= ops /\ made \subseteq made /\ Server \in Replica
        /\ Sound(sv, made, ops) /\ Settled(sv)
    BY Replicas DEF LifecycleInv, StoresOK
  <1>5. push[c].events \in SUBSET EventsOf(made, ops) /\ IsFiniteSet(push[c].events) /\ b \in made \cup {None}
    BY <1>1, Zenon DEF SyncsOK
  <1>6. StoresOK(store', made, ops) /\ Grows
    <2>1. CASE store' = store
      BY <1>1, <2>1, Kept, Zenon DEF Grows, StoresOK
    <2>2. ASSUME NEW new \in UpdateRefs(sv, push[c].events, b), store' = [store EXCEPT ![Server] = new]
          PROVE  StoresOK(store', made, ops) /\ Grows
      <3>1. Sound(noted, made, ops) /\ Keeps(sv, noted) /\ Applied(sv, noted, push[c].events) /\ Settled(noted)
        BY <1>4, <1>5, ApplyEventsOK, Zenon
      <3>2. new \in IF b = None THEN {noted} ELSE UpdateRef(noted, b)
        <4>1. CASE Forbidden(push[c].events)
          BY <2>2, <4>1, Zenon DEF UpdateRefs
        <4>2. CASE ~Forbidden(push[c].events)
          BY <2>2, <4>2, Zenon DEF UpdateRefs
        <4> QED BY <4>1, <4>2, Zenon
      <3> HIDE DEF noted, b, sv
      <3>3. CASE b = None
        BY <1>1, <1>4, <2>2, <3>1, <3>2, <3>3, StoreWritten, Zenon DEF Grows, sv
      <3>4. CASE b # None
        <4>1. b \in made /\ new \in UpdateRef(noted, b)
          BY <1>5, <3>2, <3>4, Zenon
        <4>2. Sound(new, made, ops) /\ Keeps(noted, new) /\ Settled(new) /\ noted.log \subseteq new.log
          BY <1>4, <3>1, <4>1, UpdateRefOK, Zenon
        <4>3. Keeps(sv, new)
          <5>1. CASE noted.ref = sv.ref
            BY <3>1, <4>2, <5>1, Kept, Zenon DEF Applied
          <5>2. CASE sv.ref \in Targets(noted.log)
            <6>1. sv.ref \in Targets(new.log)
              BY <4>2, <5>2, Zenon DEF Targets
            <6> QED BY <3>1, <4>2, <6>1, Zenon DEF Keeps
          <5> QED BY <3>1, <5>1, <5>2, Zenon DEF Applied
        <4> QED BY <1>1, <1>4, <2>2, <4>2, <4>3, StoreWritten, Zenon DEF Grows, sv
      <3> QED BY <3>3, <3>4, Zenon
    <2> QED BY <1>2, <2>1, <2>2, Zenon
  <1> QED BY <1>2, <1>3, <1>6, Zenon DEF LifecycleInv
\* A pull reads the server and the Git branches, and stops, without writing.
LEMMA PullStep ==
    ASSUME LifecycleInv, NEW c \in Client, PullRead(c) \/ PullInventory(c) \/ PullStops(c)
    PROVE  LifecycleInv' /\ Grows
  <1> DEFINE T == [pc : {"idle", "inventory", "apply"}, todo : SUBSET Events,
                   branch : Commit \cup {None}, live : BOOLEAN]
  <1>1. SyncsOK(push, pull, made, ops) /\ c \in Replica /\ Server \in Replica
    BY Replicas, Zenon DEF LifecycleInv
  <1>2. UNCHANGED <<store, git, made, push, ops, crashes>>
    BY Zenon DEF PullRead, PullInventory, PullStops
  <1>3. EventsOf(made, ops) \subseteq Events /\ made \subseteq Commit
    BY Zenon DEF EventsOf, LifecycleInv
  <1>4. SyncsOK(push, pull', made, ops)
    <2>1. CASE PullRead(c)
      <3> DEFINE sv == store[Server]
                 x == [pc |-> IF Archived(sv.log) THEN "inventory" ELSE "apply",
                       todo |-> sv.log, branch |-> Visible(sv), live |-> TRUE]
      <3>1. pull' = [pull EXCEPT ![c] = x]
        BY <2>1, Zenon DEF PullRead
      <3>2. sv.log \subseteq EventsOf(made, ops) /\ Visible(sv) \in made \cup {None}
        BY <1>1, Replicas, Zenon
      <3> HIDE DEF sv
      <3>3. x \in T /\ x.todo = sv.log /\ x.branch = Visible(sv)
        BY <1>3, <3>2, Zenon
      <3> HIDE DEF x
      <3> QED BY <1>1, <3>1, <3>2, <3>3, SyncWritten, Zenon
    <2>2. CASE PullInventory(c)
      <3> DEFINE x == [pull[c] EXCEPT !.pc = "apply", !.live = git[c]]
      <3>1. pull[c] \in T /\ git[c] \in BOOLEAN
        BY <1>1, Zenon DEF SyncsOK, LifecycleInv
      <3>2. pull' = [pull EXCEPT ![c] = x]
        BY <1>1, <2>2, Zenon DEF PullInventory, SyncsOK
      <3>3. x \in T /\ x.todo = pull[c].todo /\ x.branch = pull[c].branch
        BY <3>1, Zenon
      <3> HIDE DEF x
      <3>4. x.todo \subseteq EventsOf(made, ops) /\ x.branch \in made \cup {None}
        BY <1>1, <3>3, Zenon DEF SyncsOK
      <3> QED BY <1>1, <3>2, <3>3, <3>4, SyncWritten, Zenon
    <2>3. CASE PullStops(c)
      BY <1>1, <2>3, Idle, Zenon DEF PullStops
    <2> QED BY <2>1, <2>2, <2>3, Zenon
  <1>5. Grows
    BY <1>2, Kept, Zenon DEF Grows, LifecycleInv, StoresOK
  <1> QED BY <1>2, <1>4, <1>5, Zenon DEF LifecycleInv

\* A pull applies an event of the server.
LEMMA PullApplyStep ==
    ASSUME LifecycleInv, NEW c \in Client, NEW k \in 1..3, NEW e \in pull[c].todo, PullApply(c, e, k)
    PROVE  LifecycleInv' /\ Grows
  <1> DEFINE steps == ApplyBranchLifecycleRef(store[c], e, pull[c].live)
             x == [pull[c] EXCEPT !.todo = @ \ {e}]
             T == [pc : {"idle", "inventory", "apply"}, todo : SUBSET Events,
                   branch : Commit \cup {None}, live : BOOLEAN]
  <1>1. /\ Writes(c, steps, k) /\ UNCHANGED <<git, made, push, ops>>
        /\ pull' = [pull EXCEPT ![c] = IF Done(steps, k) THEN x ELSE IdlePull]
    BY Zenon DEF PullApply
  <1>2. made \in SUBSET Commit /\ ops \in Nat /\ ops <= ops /\ made \subseteq made /\ Sound(store[c], made, ops)
    BY Replicas
  <1>3. SyncsOK(push, pull, made, ops)
    BY Zenon DEF LifecycleInv
  <1>4. /\ pull[c] \in T /\ pull[c].live \in BOOLEAN /\ e \in EventsOf(made, ops)
        /\ pull[c].todo \subseteq EventsOf(made, ops) /\ pull[c].branch \in made \cup {None}
    BY <1>3, Zenon DEF SyncsOK
  <1>5. Leaves(steps, store[c], made, ops)
    BY <1>2, <1>4, ApplyOK, Zenon
  <1>6. StoresOK(store', made, ops) /\ Grows /\ crashes' \in 0..MaxCrashes
    BY <1>1, <1>2, <1>5, Written, Zenon
  <1> HIDE DEF steps
  <1>7. x \in T /\ x.todo \subseteq EventsOf(made, ops) /\ x.branch \in made \cup {None}
    BY <1>4, Zenon
  <1> HIDE DEF x
  <1>8. SyncsOK(push, pull', made, ops)
    <2>1. SyncsOK(push, [pull EXCEPT ![c] = x], made, ops)
      BY <1>3, <1>7, SyncWritten, Zenon
    <2>2. SyncsOK(push, [pull EXCEPT ![c] = IdlePull], made, ops)
      BY <1>3, Idle, Zenon
    <2> QED BY <1>1, <2>1, <2>2, Zenon
  <1> QED BY <1>1, <1>6, <1>8, Zenon DEF LifecycleInv

\* A pull adopts the server's branch or keeps its own.
LEMMA PullRefStep ==
    ASSUME LifecycleInv, NEW c \in Client, PullRef(c)
    PROVE  LifecycleInv' /\ Grows
  <1>1. SyncsOK(push, pull, made, ops) /\ StoresOK(store, made, ops)
    BY Zenon DEF LifecycleInv
  <1>2. /\ pull' = [pull EXCEPT ![c] = IdlePull] /\ UNCHANGED <<git, made, push, ops, crashes>>
        /\ \/ \E new \in AdoptRef(store[c], pull[c].branch) : store' = [store EXCEPT ![c] = new]
           \/ store' = store
    BY Zenon DEF PullRef
  <1>3. SyncsOK(push, pull', made, ops)
    BY <1>1, <1>2, Idle, Zenon
  <1>4. /\ made \in SUBSET Commit /\ ops \in Nat /\ ops <= ops /\ made \subseteq made
        /\ c \in Replica /\ c # Server /\ Sound(store[c], made, ops) /\ pull[c].branch \in made \cup {None}
    BY <1>1, Replicas, CommitAssumption DEF SyncsOK
  <1>5. StoresOK(store', made, ops) /\ Grows
    <2>1. CASE store' = store
      BY <1>1, <2>1, Kept, Zenon DEF Grows, StoresOK
    <2>2. ASSUME NEW new \in AdoptRef(store[c], pull[c].branch), store' = [store EXCEPT ![c] = new]
          PROVE  StoresOK(store', made, ops) /\ Grows
      <3>1. Sound(new, made, ops) /\ Keeps(store[c], new)
        BY <1>4, <2>2, AdoptRefOK, Zenon
      <3> QED BY <1>1, <1>4, <2>2, <3>1, StoreWritten, Zenon DEF Grows
    <2> QED BY <1>2, <2>1, <2>2, Zenon
  <1> QED BY <1>2, <1>3, <1>5, Zenon DEF LifecycleInv

----------------------------------------------------------------------------
(* The theorems.                                                           *)

\* The initial state: the branch is there and nothing was recorded.
LEMMA LifecycleInitially == Init => LifecycleInv
  <1> SUFFICES ASSUME Init PROVE LifecycleInv
    BY Zenon
  <1> DEFINE st == [log |-> {}, ref |-> Root, head |-> Symbolic]
  <1>1. /\ store = [r \in Replica |-> st] /\ git = [c \in Client |-> TRUE] /\ made = {Root}
        /\ push = [c \in Client |-> IdlePush] /\ pull = [c \in Client |-> IdlePull]
        /\ ops = 0 /\ crashes = 0
    BY Zenon DEF Init
  <1>2. Root \in Commit /\ Root # None
    BY CommitAssumption, Marks, Zenon
  <1>3. st \in StoreType /\ st.log = {} /\ st.ref = Root
    BY <1>2, Zenon DEF StoreType
  <1> HIDE DEF st
  <1>4. Sound(st, made, ops) /\ Settled(st)
    BY <1>1, <1>2, <1>3, FS_EmptySet, Zenon DEF Sound, Settled, Archived
  <1>5. StoresOK(store, made, ops)
    BY <1>1, <1>3, <1>4, Marks, Zenon DEF StoresOK
  <1>6. SyncsOK(push, pull, made, ops)
    BY <1>1, FS_EmptySet, Zenon DEF SyncsOK, IdlePush, IdlePull
  <1> QED BY <1>1, <1>2, <1>5, <1>6, BoundAssumption DEF LifecycleInv

\* A change of the protection counts as a command and leaves the stores alone.
LEMMA ConfigStep ==
    ASSUME LifecycleInv, UpdateConfig
    PROVE  LifecycleInv' /\ Grows
  <1>0. ops < MaxOps /\ ops' = ops + 1 /\ UNCHANGED <<git, store, made, push, pull, crashes>>
    BY Zenon DEF UpdateConfig
  <1>1. PICK n \in Nat : n = ops + 1 /\ ops <= n /\ n \in 0..MaxOps
    BY <1>0, BoundAssumption DEF LifecycleInv
  <1>2. made \in SUBSET Commit /\ ops \in Nat /\ made \subseteq made
    BY Replicas, Zenon
  <1>3. StoresOK(store, made, n) /\ SyncsOK(push, pull, made, n)
    BY <1>1, <1>2, StoresStay, Zenon DEF LifecycleInv
  <1>4. Grows
    BY <1>0, Kept, Zenon DEF Grows, LifecycleInv, StoresOK
  <1> QED BY <1>0, <1>1, <1>3, <1>4, Zenon DEF LifecycleInv

\* Every step keeps the invariant and what the replicas hold.
LEMMA LifecycleStep ==
    ASSUME LifecycleInv, [Next]_vars
    PROVE  LifecycleInv' /\ Grows
  <1>1. CASE UNCHANGED vars
    <2>1. Grows
      BY <1>1, Kept, Zenon DEF vars, Grows, LifecycleInv, StoresOK
    <2> QED BY <1>1, <2>1, Zenon DEF vars, LifecycleInv
  <1>2. CASE SelectHead
    BY <1>2, SelectStep, Zenon
  <1>3. ASSUME NEW c \in Client,
               \/ GitBranch(c) \/ Checkout(c)
               \/ PushRead(c) \/ PushCompare(c) \/ PushSend(c) \/ PushStops(c)
               \/ PullRead(c) \/ PullInventory(c) \/ PullRef(c) \/ PullStops(c)
        PROVE  LifecycleInv' /\ Grows
    BY <1>3, SelectStep, PushStep, PushSendStep, PullStep, PullRefStep, Zenon
  <1>4. ASSUME NEW c \in Client, NEW k \in 1..3,
               \/ \E s \in Commit : Save(c, s, k) \/ Create(c, s, k)
               \/ Archive(c, k) \/ StartPush(c, k)
               \/ \E e \in pull[c].todo : PullApply(c, e, k)
        PROVE  LifecycleInv' /\ Grows
    BY <1>4, SaveStep, CommandStep, StartPushStep, PullApplyStep, Zenon
  <1>5. CASE UpdateConfig
    BY <1>5, ConfigStep, Zenon
  <1> QED BY <1>1, <1>2, <1>3, <1>4, <1>5, Zenon DEF Next

\* LifecycleInv is an inductive invariant of the specification.
THEOREM LifecycleInvariance == Spec => []LifecycleInv
  <1>1. LifecycleInv /\ [Next]_vars => LifecycleInv'
    BY LifecycleStep, Zenon
  <1> QED BY LifecycleInitially, <1>1, PTL DEF Spec

\* Types, and the generations: a compensation answers one archive and nothing
\* answers a compensation, so the commands bound what every replica records.
THEOREM LifecycleTypeCorrect == Spec => []TypeOK
  <1>1. LifecycleInv /\ protect \in BOOLEAN => TypeOK
    <2> SUFFICES ASSUME LifecycleInv, protect \in BOOLEAN PROVE TypeOK
      BY Zenon
    <2>1. /\ DOMAIN store = Replica
          /\ \A r \in Replica : /\ store[r] \in StoreType /\ store[r].ref \in made \cup {None}
                                /\ \A e \in store[r].log : e.target \in made /\ e.gen <= 2 * ops
      BY Zenon DEF LifecycleInv, StoresOK, Sound, EventsOf
    <2>2. \A c \in Client : /\ push[c].pc \in {"idle", "read", "compare", "send"}
                            /\ pull[c].pc \in {"idle", "inventory", "apply"}
      BY Zenon DEF LifecycleInv, SyncsOK
    <2> QED BY <2>1, <2>2, Zenon DEF TypeOK, LifecycleInv
  <1> DEFINE P == protect \in BOOLEAN
  <1>2. Init => P
    BY Zenon DEF Init
  <1>3. P /\ [Next]_vars => P'
    <2>1. [Next]_vars => protect' = protect \/ protect' = ~protect
      BY Zenon DEF Next, vars, GitBranch, Save, Checkout, Create, Archive, SelectHead, UpdateConfig, StartPush,
                   PushRead, PushCompare, PushSend, PushStops, PullRead, PullInventory, PullApply, PullRef, PullStops
    <2> QED BY <2>1, Zenon
  <1>4. LifecycleInv /\ P => TypeOK
    BY <1>1, Zenon
  <1> HIDE DEF P
  <1> QED BY LifecycleInvariance, <1>2, <1>3, <1>4, PTL DEF Spec

\* A HEAD shown as symbolic names a branch that is shown, at every replica:
\* RemoveRef detaches HEAD before it removes the pointer, and a pointer that an
\* event hides takes the HEAD that names it along (ProjectBranchLifecycleRefs).
THEOREM HeadNeverDangles == Spec => []HeadResolves
  <1>1. LifecycleInv => HeadResolves
    <2> SUFFICES ASSUME LifecycleInv, NEW r \in Replica, ShownHead(store[r]) = Symbolic
                 PROVE  Visible(store[r]) # None
      BY Zenon DEF HeadResolves
    <2> DEFINE st == store[r]
    <2>1. /\ made \in SUBSET Commit /\ ops \in Nat /\ Sound(st, made, ops)
      BY Replicas, Zenon
    <2>2. Archived(st.log) => Latest(st.log).target \in Commit
      BY <2>1, Seen, Zenon
    <2>3. st.head = Symbolic /\ ~(Archived(st.log) /\ st.ref \in {None, Latest(st.log).target})
      BY <2>2, Marks, Zenon DEF ShownHead
    <2>4. st.ref # None
      BY <2>1, <2>3, Zenon DEF Sound
    <2> QED BY <2>3, <2>4, Zenon DEF Visible, Hidden
  <1> QED BY LifecycleInvariance, <1>1, PTL

\* No step of any replica, complete or cut short by a crash, makes a snapshot
\* unreachable from its pointer and its events.
THEOREM NothingIsLost == Spec => NothingLost
  <1>1. LifecycleInv /\ [Next]_vars => [\A r \in Replica : Reach(store[r]) \subseteq Reach(store'[r])]_vars
    <2> SUFFICES ASSUME LifecycleInv, [Next]_vars, NEW r \in Replica
                 PROVE  Reach(store[r]) \subseteq Reach(store'[r])
      BY Zenon
    <2>1. LifecycleInv' /\ Keeps(store[r], store'[r])
      BY LifecycleStep, Zenon DEF Grows
    <2>2. store[r] \in StoreType /\ store'[r] \in StoreType
      BY <2>1, Zenon DEF LifecycleInv, StoresOK
    <2> QED BY <2>1, <2>2, KeepsReach, Zenon
  <1> QED BY LifecycleInvariance, <1>1, PTL DEF Spec, NothingLost

\* Two logs agree on an archive: what the longer one adds is active.
LEMMA SameArchive ==
    ASSUME NEW log \in SUBSET Events, NEW more \in SUBSET Events, IsFiniteSet(log), IsFiniteSet(more), log \subseteq more,
           \A e \in more \ log : e.state = "active", Archived(more)
    PROVE  Archived(log)
  <1> DEFINE l == Latest(more)
  <1>1. l \in more /\ l.state = "archived" /\ \A f \in more \ {l} : Later(l, f)
    BY LatestEvent, Zenon DEF Archived
  <1> HIDE DEF l
  <1>2. l \in log
    BY <1>1, Zenon
  <1>3. l = Latest(log)
    BY <1>1, <1>2, LatestEvent, Zenon
  <1> QED BY <1>1, <1>2, <1>3, Zenon DEF Archived

\* The server's pointer is where an accepted move puts it.
LEMMA Moved ==
    ASSUME NEW M \in SUBSET Commit, NEW n \in Nat, NEW st, Sound(st, M, n)
    PROVE  \A t \in M : \A x \in UpdateRef(st, t) : Visible(st) # t => x.ref = t
  <1> SUFFICES ASSUME NEW t \in M, NEW x \in UpdateRef(st, t), Visible(st) # t PROVE x.ref = t
    OBVIOUS
  <1> QED BY UpdateRefOK

\* Where neither a push nor a pull would change anything, client and server
\* show the same branch, or have diverged, or the server protects the branch and
\* the client holds an archive of it the server does not: an archive that only
\* one side settled would still be exchanged, and any other refusal of the server
\* has its reason in an event the client has, or in a pointer that is not an
\* ancestor.
THEOREM RestIsAgreement == Spec => []RestMeansAgreed
  <1>1. ASSUME LifecycleInv, NEW c \in Client, Synced(c)
        PROVE  \/ Visible(store[c]) = Visible(store[Server]) \/ Diverged(store[c], store[Server])
               \/ Forbidden(store[c].log \ store[Server].log)
    <2> DEFINE st == store[c]
               sv == store[Server]
               D == st.log \ sv.log
               R == ApplyEvents(sv, D)
    <2>1. /\ made \in SUBSET Commit /\ ops \in Nat
          /\ Sound(st, made, ops) /\ Sound(sv, made, ops) /\ Settled(sv)
          /\ Visible(st) \in made \cup {None}
      BY <1>1, Replicas, Zenon DEF LifecycleInv, StoresOK
    <2>2. Result(Reconcile(st)) = st /\ sv.log \subseteq st.log /\ AdoptRef(st, Visible(sv)) \subseteq {st}
      BY <1>1, Zenon DEF Synced
    <2>3. Visible(st) # Visible(sv) => UpdateRefs(sv, D, Visible(st)) \subseteq {sv}
      BY <1>1, Zenon DEF Synced
    <2>4. Settled(st)
      BY <2>1, <2>2, ReconcileOK, Zenon
    <2> HIDE DEF st, sv
    <2>5. D \in SUBSET EventsOf(made, ops) /\ IsFiniteSet(D) /\ sv.log \cup D = st.log
      <3>1. IsFiniteSet(st.log) /\ st.log \subseteq EventsOf(made, ops)
        BY <2>1, Zenon DEF Sound
      <3>2. IsFiniteSet(D)
        BY <3>1, FS_Subset, Zenon
      <3> QED BY <2>2, <3>1, <3>2, Zenon
    <2>6. Sound(R, made, ops) /\ Applied(sv, R, D) /\ Settled(R)
      BY <2>1, <2>5, ApplyEventsOK, Zenon
    <2> HIDE DEF D, R
    <2>7. Visible(sv) = sv.ref /\ Visible(st) = st.ref /\ Visible(R) = R.ref
      <3>1. \A x : Settled(x) => Visible(x) \in {x.ref, None} /\ (Visible(x) # x.ref => Archived(x.log) /\ x.ref = None)
        BY Zenon DEF Settled, Visible, Hidden
      <3> QED BY <2>1, <2>4, <2>6, <3>1, Zenon
    <2> SUFFICES ASSUME Visible(st) # Visible(sv), ~Diverged(st, sv), ~Forbidden(D) PROVE FALSE
      BY Zenon DEF st, sv, D
    <2>8. UpdateRefs(sv, D, st.ref) \subseteq {sv}
      BY <2>3, <2>7, Zenon
    <2>9. CASE st.ref = None
      <3>1. UpdateRefs(sv, D, st.ref) = {R}
        BY <2>9, Zenon DEF UpdateRefs, R
      <3>2. R = sv
        BY <2>8, <3>1, Zenon
      <3>3. sv.log = st.log
        BY <2>5, <2>6, <3>2, Zenon DEF Applied
      <3>4. sv.ref # None /\ ~Archived(st.log)
        BY <2>1, <2>7, <2>9, <3>3, Zenon DEF Settled
      <3>5. AdoptRef(st, sv.ref) = {[st EXCEPT !.ref = sv.ref]}
        BY <2>7, <2>9, <3>4, Zenon DEF AdoptRef
      <3>6. [st EXCEPT !.ref = sv.ref] = st
        BY <2>2, <2>7, <3>5, Zenon
      <3>7. [st EXCEPT !.ref = sv.ref].ref = sv.ref
        BY <2>1, Zenon DEF Sound, StoreType
      <3> QED BY <2>7, <2>9, <3>4, <3>6, <3>7, Zenon
    <2>10. CASE st.ref # None
      <3>1. UpdateRef(R, st.ref) \subseteq {sv}
        BY <2>8, <2>10, Zenon DEF UpdateRefs, R
      <3>2. st.ref \in made
        BY <2>1, <2>7, <2>10, Zenon
      <3>3. R.ref = sv.ref \/ (R.ref = None /\ sv.ref \in Targets(R.log))
        BY <2>6, Zenon DEF Applied
      <3>4. ASSUME NEW new \in UpdateRef(R, st.ref) PROVE FALSE
        <4>1. new = sv
          BY <3>1, <3>4, Zenon
        <4>2. R.ref # st.ref => new.ref = st.ref
          <5>1. Visible(R) # st.ref => new.ref = st.ref
            <6>1. \A t \in made : \A x \in UpdateRef(R, t) : Visible(R) # t => x.ref = t
              <7>1. made \in SUBSET Commit /\ ops \in Nat /\ Sound(R, made, ops)
                BY <2>1, <2>6, Zenon
              <7> QED BY <7>1, Moved, Zenon
            <6> QED BY <3>2, <3>4, <6>1, Zenon
          <5> QED BY <2>7, <5>1, Zenon
        <4>3. R.ref = st.ref
          BY <2>7, <4>1, <4>2, Zenon
        <4>4. UpdateRef(R, st.ref) = {R}
          BY <2>7, <4>3, Zenon DEF UpdateRef
        <4>5. R = sv
          BY <3>1, <4>4, Zenon
        <4> QED BY <2>7, <4>3, <4>5, Zenon
      <3>5. \/ R.ref # None /\ ~Holds(st.ref, R.ref)
            \/ Archived(R.log) /\ R.ref = None
        BY <2>7, <3>4, Zenon DEF UpdateRef
      <3>6. CASE Archived(R.log) /\ R.ref = None
        <4>1. /\ R.log \in SUBSET Events /\ st.log \in SUBSET Events /\ IsFiniteSet(R.log) /\ IsFiniteSet(st.log)
          BY <2>1, <2>6, Zenon DEF Sound, EventsOf
        <4>2. st.log \subseteq R.log /\ \A e \in R.log \ st.log : e.state = "active"
          BY <2>5, <2>6, Zenon DEF Applied
        <4>3. Archived(st.log)
          BY <3>6, <4>1, <4>2, SameArchive, Zenon
        <4> QED BY <2>4, <2>10, <4>3, Zenon DEF Settled
      <3>7. CASE R.ref # None /\ ~Holds(st.ref, R.ref)
        <4>1. R.ref = sv.ref
          BY <3>3, <3>7, Zenon
        <4>2. Holds(sv.ref, st.ref)
          BY <2>7, <2>10, <3>7, <4>1, Zenon DEF Diverged
        <4>3. AdoptRef(st, sv.ref) = {[st EXCEPT !.ref = sv.ref]}
          BY <2>7, <2>10, <3>7, <4>1, <4>2, Zenon DEF AdoptRef
        <4>4. [st EXCEPT !.ref = sv.ref] = st
          BY <2>2, <2>7, <4>3, Zenon
        <4>5. [st EXCEPT !.ref = sv.ref].ref = sv.ref
          BY <2>1, Zenon DEF Sound, StoreType
        <4> QED BY <2>7, <4>4, <4>5, Zenon
      <3> QED BY <3>5, <3>6, <3>7, Zenon
    <2> QED BY <2>9, <2>10, Zenon
  <1>2. LifecycleInv => RestMeansAgreed
    BY <1>1, Zenon DEF RestMeansAgreed
  <1> QED BY LifecycleInvariance, <1>2, PTL

============================================================================
