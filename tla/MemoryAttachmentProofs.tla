----------------------- MODULE MemoryAttachmentProofs -----------------------
(***************************************************************************)
(* Proofs about MemoryAttachment for all clients, bodies and bounds.       *)
(*                                                                         *)
(* The properties are not inductive by themselves.  A pointer keeps its    *)
(* chain because every process that is about to move it has stored the     *)
(* chain before: a pull has the digests or has them staged, a memorize has *)
(* its digest's ancestors, a request marked stored has its digest on a     *)
(* server that stores parents first.  What a push reports is true because  *)
(* the server's chain contains all that the push has been told is there,   *)
(* and only grows.                                                         *)
(***************************************************************************)
EXTENDS MemoryAttachment, TLAPS

\* What a push knows of the server's memory m: where it sends, the server has
\* everything before; what it reports holds of m; and every replan it counts
\* was an advance of the server.
PushOK(p, m) ==
    /\ p.stage # "idle" => p.plan # None
    /\ p.stage \in {"send", "wait"} =>
          /\ p.at \in 1 .. Len(p.plan)
          /\ p.listed => IsPrefix(SubSeq(p.plan, 1, p.at - 1), m) /\ p.replans <= p.at - 1
    /\ ~p.listed \/ p.stage = "objects" => p.replans = 0
    /\ p.stage = "done" => IsPrefix(p.plan, m)
    /\ p.stage = "diverged" => ~Comparable(p.plan, m)
    /\ p.replans <= Len(m)
    /\ p.stage = "contention" => MaxReplans < Len(m)

Pushing == \A c \in Client : PushOK(push[c], Memory(Server))

\* A request is the one its push waits for, and a push has one at most.
Serving ==
    \A q \in reqs :
        /\ q.stored => q.digest \in obj[Server]
        /\ q.client # Nobody =>
              /\ q.digest = SubSeq(push[q.client].plan, 1, push[q.client].at)
              /\ \A r \in reqs : r.client = q.client => r = q

\* What a pull is to attach is stored or staged, and is related to the local
\* pointer the pull has seen.
PullOK(l, stored) ==
    l.stage = "store" =>
        /\ Ancestry(l.remote) \subseteq stored \cup l.staged
        /\ Comparable(IF l.local = Absent THEN None ELSE l.local, l.remote)

Pulling == \A c \in Client : PullOK(pull[c], obj[c])

\* The server stores a digest after its ancestors, and so does a memorize.
Stocked ==
    /\ \A d \in obj[Server] : Ancestry(d) \subseteq obj[Server]
    /\ \A c \in Client : Ancestry(mem[c]) \subseteq obj[c]

IInv == TypeOK /\ Pushing /\ Serving /\ Pulling /\ Stocked /\ ChainComplete

-----------------------------------------------------------------------------
(* Chains. *)

\* Chains are the sequences within the bound.
LEMMA ChainSeq ==
    /\ Chain \subseteq Seq(Body)
    /\ \A d \in Seq(Body) : Len(d) <= MaxDepth => d \in Chain
    /\ \A d \in Chain : Len(d) \in 0 .. MaxDepth
    /\ None \in Chain /\ Len(None) = 0
    /\ \A d \in Digest : d \in Chain /\ Len(d) \in 1 .. MaxDepth
  <1>0. MaxDepth \in Nat
    BY BoundAssumption, Zenon
  <1>1. ASSUME NEW d \in Chain PROVE d \in Seq(Body) /\ Len(d) \in 0 .. MaxDepth
    <2>1. PICK m \in 0 .. MaxDepth : d \in [1 .. m -> Body]
      BY <1>1, Zenon DEF Chain, BoundedSeq, SeqOf
    <2>2. d \in Seq(Body) /\ Len(d) = m
      BY <1>0, <2>1
    <2> QED BY <2>1, <2>2, Zenon
  <1>2. ASSUME NEW d \in Seq(Body), Len(d) <= MaxDepth PROVE d \in Chain
    <2>1. Len(d) \in 0 .. MaxDepth /\ d \in [1 .. Len(d) -> Body]
      BY <1>0, <1>2
    <2> QED BY <2>1, Zenon DEF Chain, BoundedSeq, SeqOf
  <1>3. None \in Chain /\ Len(None) = 0
    <2>1. << >> \in Seq(Body) /\ Len(<< >>) = 0
      OBVIOUS
    <2>2. Len(<< >>) <= MaxDepth
      BY <1>0, <2>1
    <2> QED BY <1>2, <2>1, <2>2, Zenon DEF None
  <1>4. ASSUME NEW d \in Digest PROVE d \in Chain /\ Len(d) \in 1 .. MaxDepth
    <2>1. d \in Chain /\ d # << >>
      BY <1>4, Zenon DEF Digest, None
    <2>2. d \in Seq(Body) /\ Len(d) \in 0 .. MaxDepth
      BY <1>1, <2>1, Zenon
    <2>3. Len(d) # 0
      BY <2>1, <2>2
    <2> QED BY <1>0, <2>1, <2>2, <2>3
  <1> QED BY <1>1, <1>2, <1>3, <1>4, Zenon

\* A prefix, point by point.
LEMMA PrefixPoints ==
    ASSUME NEW s \in Seq(Body), NEW t \in Seq(Body)
    PROVE  IsPrefix(s, t) <=> Len(s) <= Len(t) /\ \A i \in 1 .. Len(s) : s[i] = t[i]
  <1>0. Len(s) \in Nat /\ Len(t) \in Nat
    OBVIOUS
  <1>1. SubSeq(s, 1, Len(s)) = s
    BY <1>0
  <1>2. ASSUME Len(s) <= Len(t)
        PROVE  (s = SubSeq(t, 1, Len(s))) <=> \A i \in 1 .. Len(s) : s[i] = t[i]
    <2>1. /\ SubSeq(t, 1, Len(s)) \in Seq(Body) /\ Len(SubSeq(t, 1, Len(s))) = Len(s)
          /\ \A i \in 1 .. Len(s) : SubSeq(t, 1, Len(s))[i] = t[i]
      BY <1>0, <1>2
    <2> QED BY <2>1
  <1> QED BY <1>1, <1>2, Zenon DEF IsPrefix

\* Prefixes order the chains.
LEMMA PrefixOrder ==
    ASSUME NEW s \in Chain, NEW t \in Chain
    PROVE  /\ IsPrefix(s, s) /\ IsPrefix(None, s)
           /\ IsPrefix(s, t) => Len(s) <= Len(t) /\ (Len(s) = Len(t) => s = t)
           /\ IsPrefix(s, None) => s = None
           /\ \A u \in Chain : IsPrefix(s, t) /\ IsPrefix(t, u) => IsPrefix(s, u)
           /\ \A u \in Chain : IsPrefix(s, u) /\ IsPrefix(t, u) => Comparable(s, t)
  <1>0. s \in Seq(Body) /\ t \in Seq(Body) /\ None \in Seq(Body) /\ Len(None) = 0 /\ Len(s) \in Nat /\ Len(t) \in Nat
    BY ChainSeq
  <1>1. IsPrefix(s, s) /\ IsPrefix(None, s)
    <2>1. IsPrefix(s, s) <=> Len(s) <= Len(s) /\ \A i \in 1 .. Len(s) : s[i] = s[i]
      BY <1>0, PrefixPoints, Zenon
    <2>2. IsPrefix(None, s) <=> Len(None) <= Len(s) /\ \A i \in 1 .. Len(None) : None[i] = s[i]
      BY <1>0, PrefixPoints, Zenon
    <2> QED BY <1>0, <2>1, <2>2
  <1>2. ASSUME IsPrefix(s, t) PROVE Len(s) <= Len(t) /\ (Len(s) = Len(t) => s = t)
    <2>1. Len(s) <= Len(t) /\ \A i \in 1 .. Len(s) : s[i] = t[i]
      BY <1>0, <1>2, PrefixPoints, Zenon
    <2> QED BY <1>0, <2>1
  <1>3. ASSUME IsPrefix(s, None) PROVE s = None
    <2>1. Len(s) <= 0 /\ \A i \in 1 .. Len(s) : s[i] = None[i]
      BY <1>0, <1>3, PrefixPoints, Zenon
    <2> QED BY <1>0, <2>1
  <1>4. ASSUME NEW u \in Chain
        PROVE  /\ IsPrefix(s, t) /\ IsPrefix(t, u) => IsPrefix(s, u)
               /\ IsPrefix(s, u) /\ IsPrefix(t, u) => Comparable(s, t)
    <2>1. u \in Seq(Body) /\ Len(u) \in Nat
      BY ChainSeq
    <2> QED BY <1>0, <2>1, PrefixPoints DEF Comparable
  <1> QED BY <1>1, <1>2, <1>3, <1>4, Zenon

\* The first n digests of a chain.
LEMMA Cut ==
    ASSUME NEW d \in Chain, NEW n \in 0 .. Len(d)
    PROVE  /\ SubSeq(d, 1, n) \in Chain /\ Len(SubSeq(d, 1, n)) = n
           /\ IsPrefix(SubSeq(d, 1, n), d)
           /\ \A e \in Chain : IsPrefix(e, d) /\ Len(e) <= n => IsPrefix(e, SubSeq(d, 1, n))
           /\ \A e \in Chain : IsPrefix(e, d) /\ Len(e) = n => e = SubSeq(d, 1, n)
  <1> DEFINE c == SubSeq(d, 1, n)
  <1>0. d \in Seq(Body) /\ Len(d) \in 0 .. MaxDepth /\ MaxDepth \in Nat
    BY ChainSeq, BoundAssumption, Zenon
  <1>1. c \in Seq(Body) /\ Len(c) = n /\ \A i \in 1 .. n : c[i] = d[i]
    BY <1>0
  <1> HIDE DEF c
  <1>2. c \in Chain
    <2>1. Len(c) <= MaxDepth
      BY <1>0, <1>1
    <2> QED BY <1>1, <2>1, ChainSeq, Zenon
  <1>3. IsPrefix(c, d)
    BY <1>0, <1>1, PrefixPoints
  <1>4. ASSUME NEW e \in Chain, IsPrefix(e, d), Len(e) <= n PROVE IsPrefix(e, c)
    <2>1. e \in Seq(Body) /\ Len(e) \in Nat
      BY ChainSeq
    <2> QED BY <1>0, <1>1, <1>4, <2>1, PrefixPoints
  <1>5. ASSUME NEW e \in Chain, IsPrefix(e, d), Len(e) = n PROVE e = c
    BY <1>1, <1>2, <1>4, <1>5, PrefixOrder
  <1> QED BY <1>1, <1>2, <1>3, <1>4, <1>5, Zenon DEF c

\* The ancestry of a digest: its prefixes.
LEMMA AncestryPrefixes ==
    ASSUME NEW d \in Chain
    PROVE  \A e : e \in Ancestry(d) <=> e \in Digest /\ IsPrefix(e, d)
  <1>0. Len(d) \in Nat
    BY ChainSeq, BoundAssumption
  <1>1. ASSUME NEW e \in Ancestry(d) PROVE e \in Digest /\ IsPrefix(e, d)
    <2>1. PICK n \in 1 .. Len(d) : e = SubSeq(d, 1, n)
      BY <1>1, Zenon DEF Ancestry
    <2>2. e \in Chain /\ Len(e) = n /\ IsPrefix(e, d)
      BY <1>0, <2>1, Cut
    <2> QED BY <2>1, <2>2, ChainSeq DEF Digest
  <1>2. ASSUME NEW e \in Digest, IsPrefix(e, d) PROVE e \in Ancestry(d)
    <2>1. e \in Chain /\ Len(e) \in 1 .. Len(d)
      BY <1>0, <1>2, ChainSeq, PrefixOrder
    <2>2. e = SubSeq(d, 1, Len(e))
      BY <1>0, <1>2, <2>1, Cut
    <2> QED BY <2>1, <2>2, Zenon DEF Ancestry
  <1> QED BY <1>1, <1>2, Zenon

\* A digest and its parent.
LEMMA FrontCut ==
    ASSUME NEW d \in Digest
    PROVE  /\ Front(d) \in Chain /\ Len(Front(d)) = Len(d) - 1 /\ IsPrefix(Front(d), d)
           /\ \A e \in Ancestry(d) : e = d \/ e \in Ancestry(Front(d))
           /\ d \in Ancestry(d)
  <1>0. d \in Chain /\ Len(d) \in 1 .. MaxDepth /\ MaxDepth \in Nat
    BY ChainSeq, BoundAssumption, Zenon
  <1>1. Len(d) - 1 \in 0 .. Len(d) /\ Len(d) \in 0 .. Len(d) /\ Front(d) = SubSeq(d, 1, Len(d) - 1)
    BY <1>0 DEF Front
  <1>2. Front(d) \in Chain /\ Len(Front(d)) = Len(d) - 1 /\ IsPrefix(Front(d), d)
    <2> DEFINE n == Len(d) - 1
    <2>1. n \in 0 .. Len(d)
      BY <1>1, Zenon
    <2> HIDE DEF n
    <2>2. SubSeq(d, 1, n) \in Chain /\ Len(SubSeq(d, 1, n)) = n /\ IsPrefix(SubSeq(d, 1, n), d)
      BY <1>0, <2>1, Cut, Zenon
    <2> QED BY <1>1, <2>2, Zenon DEF n
  <1>3. ASSUME NEW e \in Ancestry(d), e # d PROVE e \in Ancestry(Front(d))
    <2>1. e \in Digest /\ e \in Chain /\ IsPrefix(e, d)
      BY <1>0, <1>3, AncestryPrefixes, ChainSeq, Zenon
    <2>2. Len(e) <= Len(d) /\ Len(e) # Len(d) /\ Len(e) \in Nat
      BY <1>0, <1>3, <2>1, PrefixOrder, ChainSeq
    <2>3. Len(e) <= Len(d) - 1
      BY <1>0, <2>2
    <2>4. IsPrefix(e, Front(d))
      BY <1>0, <1>1, <2>1, <2>3, Cut
    <2> QED BY <1>2, <2>1, <2>4, AncestryPrefixes, Zenon
  <1>4. d \in Ancestry(d)
    BY <1>0, PrefixOrder, AncestryPrefixes, Zenon
  <1> QED BY <1>2, <1>3, <1>4, Zenon

\* A successor of a chain.
LEMMA Grow ==
    ASSUME NEW d \in Chain, NEW b \in Body, Len(d) < MaxDepth
    PROVE  Append(d, b) \in Digest /\ Front(Append(d, b)) = d
  <1>0. d \in Seq(Body) /\ Len(d) \in Nat /\ MaxDepth \in Nat
    BY ChainSeq, BoundAssumption
  <1>1. /\ Append(d, b) \in Seq(Body) /\ Len(Append(d, b)) = Len(d) + 1
        /\ \A i \in 1 .. Len(d) : Append(d, b)[i] = d[i]
    BY <1>0
  <1> DEFINE e == Append(d, b)
  <1>2. e \in Seq(Body) /\ Len(e) = Len(d) + 1 /\ \A i \in 1 .. Len(d) : e[i] = d[i]
    BY <1>1, Zenon
  <1> HIDE DEF e
  <1>3. e \in Chain /\ e # None
    BY <1>0, <1>2, ChainSeq
  <1>4. e \in Digest
    BY <1>3, Zenon DEF Digest
  <1>5. IsPrefix(d, e)
    BY <1>0, <1>2, PrefixPoints
  <1>6. Front(e) \in Chain /\ Front(e) = SubSeq(e, 1, Len(d)) /\ Len(d) \in 0 .. Len(e)
    BY <1>0, <1>2, <1>4, FrontCut DEF Front
  <1>7. Front(e) = d
    BY <1>3, <1>5, <1>6, Cut, Zenon
  <1> QED BY <1>4, <1>7, Zenon DEF e

\* A longer chain has more ancestors.
LEMMA AncestryGrows ==
    ASSUME NEW d \in Chain, NEW e \in Chain, IsPrefix(d, e)
    PROVE  Ancestry(d) \subseteq Ancestry(e)
  <1>1. ASSUME NEW x \in Ancestry(d) PROVE x \in Ancestry(e)
    <2>1. x \in Digest /\ x \in Chain /\ IsPrefix(x, d)
      BY AncestryPrefixes, ChainSeq, Zenon
    <2> QED BY <2>1, AncestryPrefixes, PrefixOrder, Zenon
  <1> QED BY <1>1, Zenon

\* What is unrelated stays unrelated.
LEMMA ForksStay ==
    ASSUME NEW d \in Chain, NEW m \in Chain, NEW n \in Chain, IsPrefix(m, n), ~Comparable(d, m)
    PROVE  ~Comparable(d, n)
  BY PrefixOrder, Zenon DEF Comparable

-----------------------------------------------------------------------------
(* The push. *)

\* The server's progress leaves what a push knows true.
LEMMA PushAdvances ==
    ASSUME NEW p \in Pushes, NEW m \in Chain, NEW n \in Chain, PushOK(p, m), IsPrefix(m, n)
    PROVE  PushOK(p, n)
  <1>0. /\ p.plan \in Chain /\ Len(p.plan) \in Nat /\ Len(m) \in Nat /\ Len(n) \in Nat /\ Len(m) <= Len(n)
        /\ p.replans \in Nat /\ MaxReplans \in Nat
    BY ChainSeq, PrefixOrder, BoundAssumption DEF Pushes
  <1>1. ASSUME p.stage \in {"send", "wait"}, p.listed PROVE IsPrefix(SubSeq(p.plan, 1, p.at - 1), n)
    <2>1. p.at - 1 \in 0 .. Len(p.plan) /\ IsPrefix(SubSeq(p.plan, 1, p.at - 1), m)
      BY <1>0, <1>1 DEF PushOK
    <2>2. SubSeq(p.plan, 1, p.at - 1) \in Chain
      BY <1>0, <2>1, Cut, Zenon
    <2> QED BY <2>1, <2>2, PrefixOrder, Zenon
  <1>2. p.stage = "done" => IsPrefix(p.plan, n)
    BY <1>0, PrefixOrder, Zenon DEF PushOK
  <1>3. p.stage = "diverged" => ~Comparable(p.plan, n)
    BY <1>0, ForksStay, Zenon DEF PushOK
  <1>4. p.replans <= Len(n) /\ (p.stage = "contention" => MaxReplans < Len(n))
    BY <1>0 DEF PushOK
  <1> QED BY <1>1, <1>2, <1>3, <1>4, Zenon DEF PushOK

\* A push that goes on from its digest n.
LEMMA SendOK ==
    ASSUME NEW p \in Pushes, NEW m \in Chain, p.plan # None, NEW n \in 1 .. Len(p.plan) + 1,
           ~p.listed => p.replans = 0,
           p.listed \/ n > Len(p.plan) => IsPrefix(SubSeq(p.plan, 1, n - 1), m), p.replans <= n - 1,
           p.replans <= Len(m)
    PROVE  PushOK(Send(p, n), m) /\ Send(p, n) \in Pushes
  <1>0. /\ p.plan \in Chain /\ Len(p.plan) \in 0 .. MaxDepth /\ MaxDepth \in Nat /\ n \in Int
        /\ SubSeq(p.plan, 1, Len(p.plan)) = p.plan
    BY ChainSeq, BoundAssumption DEF Pushes
  <1>1. CASE n > Len(p.plan)
    <2>1. Send(p, n) = [p EXCEPT !.stage = "done", !.at = 0] /\ n - 1 = Len(p.plan)
      BY <1>0, <1>1 DEF Send
    <2>2. IsPrefix(p.plan, m)
      BY <1>0, <1>1, <2>1, Zenon
    <2>3. Send(p, n) \in Pushes
      <3>1. 0 \in 0 .. MaxDepth
        BY <1>0
      <3>2. [p EXCEPT !.stage = "done", !.at = 0] \in Pushes
        BY <3>1, Zenon DEF Pushes, PushStages
      <3> QED BY <2>1, <3>2, Zenon
    <2>4. PushOK([p EXCEPT !.stage = "done", !.at = 0], m)
      BY <2>2, Zenon DEF PushOK, Pushes
    <2> QED BY <2>1, <2>3, <2>4, Zenon
  <1>2. CASE ~(n > Len(p.plan))
    <2>1. Send(p, n) = [p EXCEPT !.stage = "send", !.at = n] /\ n \in 1 .. Len(p.plan) /\ n \in 0 .. MaxDepth
      BY <1>0, <1>2 DEF Send
    <2> QED BY <1>0, <2>1, Zenon DEF PushOK, Pushes, PushStages
  <1> QED BY <1>1, <1>2, Zenon

\* A push that goes on from what the server is known to have.
LEMMA StartFromOK ==
    ASSUME NEW p \in Pushes, NEW m \in Chain, p.plan # None, ~p.listed => p.replans = 0,
           NEW d \in Chain, IsPrefix(d, m), p.replans <= Len(d)
    PROVE  PushOK(StartFrom(p, d), m) /\ StartFrom(p, d) \in Pushes
  <1>0. /\ p.plan \in Chain /\ Len(p.plan) \in Nat /\ Len(d) \in Nat /\ Len(m) \in Nat /\ Len(d) <= Len(m)
        /\ p.replans \in Nat
    BY ChainSeq, PrefixOrder, BoundAssumption DEF Pushes
  <1>1. CASE IsPrefix(d, p.plan)
    <2>1. Len(d) <= Len(p.plan)
      BY <1>0, <1>1, PrefixOrder, Zenon
    <2>2. Len(d) \in 0 .. Len(p.plan)
      BY <1>0, <2>1
    <2>3. SubSeq(p.plan, 1, Len(d)) = d
      BY <1>0, <1>1, <2>2, Cut, Zenon
    <2> DEFINE n == Len(d) + 1
    <2>4. n \in 1 .. Len(p.plan) + 1 /\ n - 1 = Len(d)
      BY <1>0, <2>1
    <2> HIDE DEF n
    <2>5. IsPrefix(SubSeq(p.plan, 1, n - 1), m) /\ p.replans <= n - 1 /\ p.replans <= Len(m)
      <3>1. SubSeq(p.plan, 1, n - 1) = d
        BY <2>3, <2>4, Zenon
      <3>2. p.replans <= n - 1
        BY <2>4, Zenon
      <3>3. p.replans <= Len(m)
        BY <1>0
      <3> QED BY <3>1, <3>2, <3>3, Zenon
    <2>6. PushOK(Send(p, n), m) /\ Send(p, n) \in Pushes
      BY <2>4, <2>5, SendOK, Zenon
    <2> QED BY <1>1, <2>6, Zenon DEF StartFrom, n
  <1>2. CASE ~IsPrefix(d, p.plan)
    <2>1. StartFrom(p, d) = [p EXCEPT !.stage = "reread"] /\ p.replans <= Len(m)
      BY <1>0, <1>2 DEF StartFrom
    <2>2. [p EXCEPT !.stage = "reread"] \in Pushes
      BY Zenon DEF Pushes, PushStages
    <2>3. PushOK([p EXCEPT !.stage = "reread"], m)
      BY <2>1, Zenon DEF PushOK, Pushes
    <2> QED BY <2>1, <2>2, <2>3, Zenon
  <1> QED BY <1>1, <1>2, Zenon

\* A push that begins, with a catalog or without.
LEMMA BeginOK ==
    ASSUME NEW p \in Pushes, NEW m \in Chain, p.plan # None, p.replans = 0,
           NEW d \in Chain, IsPrefix(d, m)
    PROVE  PushOK(Begin(p, d), m) /\ Begin(p, d) \in Pushes
  <1>0. p.plan \in Digest /\ Len(p.plan) \in Nat \ {0} /\ Len(d) \in Nat /\ Len(m) \in Nat
    BY ChainSeq, BoundAssumption DEF Pushes, Digest
  <1>1. CASE p.listed
    <2>1. PushOK(StartFrom(p, d), m) /\ StartFrom(p, d) \in Pushes
      BY <1>0, <1>1, StartFromOK
    <2> QED BY <1>1, <2>1, Zenon DEF Begin
  <1>2. CASE ~p.listed
    <2> DEFINE n == Len(p.plan)
    <2>1. n \in 1 .. Len(p.plan) + 1 /\ ~(n > Len(p.plan)) /\ p.replans <= n - 1 /\ p.replans <= Len(m)
      BY <1>0
    <2> HIDE DEF n
    <2>2. PushOK(Send(p, n), m) /\ Send(p, n) \in Pushes
      BY <1>2, <2>1, SendOK, Zenon
    <2> QED BY <1>2, <2>2, Zenon DEF Begin, n
  <1> QED BY <1>1, <1>2, Zenon

\* A push that compares its plan with the server's pointer.
LEMMA ReadOK ==
    ASSUME NEW c \in Client, push[c] \in Pushes, Memory(Server) \in Chain,
           PushOK(push[c], Memory(Server)), push[c].stage # "idle"
    PROVE  PushOK(ReadMemoryPushStart(c), Memory(Server)) /\ ReadMemoryPushStart(c) \in Pushes
  <1> DEFINE p == push[c]
             m == Memory(Server)
  <1>0. /\ p \in Pushes /\ m \in Chain /\ p.plan \in Chain /\ p.plan # None /\ p.replans <= Len(m)
        /\ (~p.listed => p.replans = 0)
    BY Zenon DEF PushOK, Pushes
  <1>1. ReadMemoryPushStart(c) = CASE IsPrefix(m, p.plan) -> Send(p, Len(m) + 1)
                                   [] IsPrefix(p.plan, m) -> [p EXCEPT !.stage = "done", !.at = 0]
                                   [] OTHER -> [p EXCEPT !.stage = "diverged", !.at = 0]
    BY Zenon DEF ReadMemoryPushStart
  <1>2. 0 \in 0 .. MaxDepth
    BY BoundAssumption
  <1> HIDE DEF p, m
  <1>3. [p EXCEPT !.stage = "done", !.at = 0] \in Pushes /\ [p EXCEPT !.stage = "diverged", !.at = 0] \in Pushes
    BY <1>0, <1>2, Zenon DEF Pushes, PushStages
  <1>4. CASE IsPrefix(m, p.plan) /\ IsPrefix(p.plan, m)
    <2>0. m = p.plan /\ Len(m) \in Nat
      BY <1>0, <1>4, PrefixOrder, ChainSeq
    <2>1. Send(p, Len(m) + 1) = [p EXCEPT !.stage = "done", !.at = 0]
      BY <2>0 DEF Send
    <2>2. ReadMemoryPushStart(c) = [p EXCEPT !.stage = "done", !.at = 0]
      BY <1>1, <1>4, <2>1, Zenon
    <2>3. PushOK([p EXCEPT !.stage = "done", !.at = 0], m)
      BY <1>0, <1>4, Zenon DEF PushOK, Pushes
    <2> QED BY <1>3, <2>2, <2>3, Zenon DEF m
  <1>5. CASE IsPrefix(m, p.plan) /\ ~IsPrefix(p.plan, m)
    <2>1. ReadMemoryPushStart(c) = Send(p, Len(m) + 1)
      BY <1>1, <1>5, Zenon
    <2>2. StartFrom(p, m) = Send(p, Len(m) + 1)
      BY <1>5, Zenon DEF StartFrom
    <2>3. PushOK(StartFrom(p, m), m) /\ StartFrom(p, m) \in Pushes
      BY <1>0, StartFromOK, PrefixOrder, Zenon
    <2> QED BY <2>1, <2>2, <2>3, Zenon DEF m
  <1>6. CASE ~IsPrefix(m, p.plan) /\ IsPrefix(p.plan, m)
    <2>1. ReadMemoryPushStart(c) = [p EXCEPT !.stage = "done", !.at = 0]
      BY <1>1, <1>6, Zenon
    <2>2. PushOK([p EXCEPT !.stage = "done", !.at = 0], m)
      BY <1>0, <1>6, Zenon DEF PushOK, Pushes
    <2> QED BY <1>3, <2>1, <2>2, Zenon DEF m
  <1>7. CASE ~IsPrefix(m, p.plan) /\ ~IsPrefix(p.plan, m)
    <2>1. ReadMemoryPushStart(c) = [p EXCEPT !.stage = "diverged", !.at = 0]
      BY <1>1, <1>7, Zenon
    <2>2. PushOK([p EXCEPT !.stage = "diverged", !.at = 0], m)
      BY <1>0, <1>7, Zenon DEF PushOK, Pushes, Comparable
    <2> QED BY <1>3, <2>1, <2>2, Zenon DEF m
  <1> QED BY <1>4, <1>5, <1>6, <1>7, Zenon

\* The server took the digest the push waited for.
LEMMA AnsweredTaken ==
    ASSUME NEW p \in Pushes, NEW m \in Chain, PushOK(p, m), p.stage = "wait",
           NEW d, d = SubSeq(p.plan, 1, p.at)
    PROVE  PushOK(Answered(p, "ok"), d) /\ Answered(p, "ok") \in Pushes
  <1>0. /\ p.plan \in Chain /\ p.plan # None /\ Len(p.plan) \in Nat /\ p.at \in 1 .. Len(p.plan)
        /\ (p.listed => p.replans <= p.at - 1) /\ (~p.listed => p.replans = 0) /\ p.replans \in Nat
    BY ChainSeq, BoundAssumption DEF PushOK, Pushes
  <1>1. p.at \in 0 .. Len(p.plan)
    BY <1>0
  <1>2. d \in Chain /\ Len(d) = p.at
    BY <1>0, <1>1, Cut, Zenon
  <1>3. p.replans <= p.at
    <2>1. CASE p.listed
      BY <1>0, <2>1
    <2>2. CASE ~p.listed
      BY <1>0, <2>2
    <2> QED BY <2>1, <2>2, Zenon
  <1> DEFINE n == p.at + 1
  <1>4. n \in 1 .. Len(p.plan) + 1 /\ n - 1 = p.at
    BY <1>0
  <1> HIDE DEF n
  <1>5. p.replans <= n - 1 /\ p.replans <= Len(d)
    BY <1>2, <1>3, <1>4, Zenon
  <1>6. IsPrefix(SubSeq(p.plan, 1, n - 1), d)
    <2>1. SubSeq(p.plan, 1, n - 1) = d
      BY <1>4, Zenon
    <2> QED BY <1>2, <2>1, PrefixOrder, Zenon
  <1>7. PushOK(Send(p, n), d) /\ Send(p, n) \in Pushes
    BY <1>0, <1>2, <1>4, <1>5, <1>6, SendOK, Zenon
  <1>8. Answered(p, "ok") = Send(p, n)
    BY Zenon DEF Answered, n
  <1> QED BY <1>7, <1>8, Zenon

\* The server's pointer was neither the digest's parent nor the digest.
LEMMA AnsweredConflict ==
    ASSUME NEW p \in Pushes, NEW m \in Chain, PushOK(p, m), p.stage = "wait",
           NEW d, d = SubSeq(p.plan, 1, p.at), m # Front(d)
    PROVE  PushOK(Contended(p), m) /\ Contended(p) \in Pushes
  <1>0. /\ p.plan \in Chain /\ p.plan # None /\ Len(p.plan) \in Nat /\ p.at \in 1 .. Len(p.plan)
        /\ (p.listed => p.replans <= p.at - 1 /\ IsPrefix(SubSeq(p.plan, 1, p.at - 1), m))
        /\ (~p.listed => p.replans = 0) /\ p.replans \in 0 .. MaxReplans /\ Len(m) \in Nat
        /\ p.replans <= Len(m) /\ MaxReplans \in Nat
    BY ChainSeq, BoundAssumption DEF PushOK, Pushes
  <1>1. CASE ~p.listed
    <2>1. Contended(p) = [p EXCEPT !.stage = "reread", !.listed = TRUE]
      BY <1>1, Zenon DEF Contended
    <2>2. [p EXCEPT !.stage = "reread", !.listed = TRUE] \in Pushes
      BY Zenon DEF Pushes, PushStages
    <2>3. PushOK([p EXCEPT !.stage = "reread", !.listed = TRUE], m)
      BY <1>0, Zenon DEF PushOK, Pushes
    <2> QED BY <2>1, <2>2, <2>3, Zenon
  <1>2. CASE p.listed
    <2>0. p.at \in 0 .. Len(p.plan) /\ p.at - 1 \in 0 .. Len(p.plan)
      BY <1>0
    <2> DEFINE k == p.at - 1
    <2>1. SubSeq(p.plan, 1, k) \in Chain /\ Len(SubSeq(p.plan, 1, k)) = k
      <3>1. k \in 0 .. Len(p.plan)
        BY <2>0, Zenon
      <3> HIDE DEF k
      <3> QED BY <1>0, <3>1, Cut, Zenon
    <2>2. Front(d) = SubSeq(p.plan, 1, k)
      <3>1. Len(d) = p.at /\ d \in Chain /\ IsPrefix(d, p.plan)
        BY <1>0, <2>0, Cut, Zenon
      <3>2. d \in Digest
        BY <1>0, <3>1, ChainSeq DEF Digest
      <3>3. Front(d) \in Chain /\ Len(Front(d)) = k /\ IsPrefix(Front(d), d)
        BY <3>1, <3>2, FrontCut, Zenon
      <3>4. IsPrefix(Front(d), p.plan)
        BY <1>0, <3>1, <3>3, PrefixOrder
      <3>5. k \in 0 .. Len(p.plan)
        BY <2>0, Zenon
      <3> HIDE DEF k
      <3> QED BY <1>0, <3>3, <3>4, <3>5, Cut, Zenon
    <2>3. k <= Len(m) /\ k # Len(m)
      <3>1. IsPrefix(SubSeq(p.plan, 1, k), m) /\ SubSeq(p.plan, 1, k) # m
        BY <1>0, <1>2, <2>2, Zenon
      <3> DEFINE e == SubSeq(p.plan, 1, k)
      <3>2. e \in Chain /\ Len(e) = k /\ IsPrefix(e, m) /\ e # m
        BY <2>1, <3>1, Zenon
      <3> HIDE DEF e
      <3>3. Len(e) <= Len(m) /\ (Len(e) = Len(m) => e = m)
        BY <3>2, PrefixOrder, Zenon
      <3> QED BY <3>2, <3>3, Zenon
    <2>4. p.replans + 1 <= Len(m) /\ p.replans < Len(m)
      BY <1>0, <1>2, <2>3
    <2>5. CASE p.replans >= MaxReplans
      <3>1. Contended(p) = [p EXCEPT !.stage = "contention"] /\ MaxReplans < Len(m)
        <4>1. MaxReplans < Len(m)
          BY <1>0, <2>4, <2>5
        <4>2. Contended(p) = [p EXCEPT !.stage = "contention"]
          BY <1>2, <2>5, Zenon DEF Contended
        <4> QED BY <4>1, <4>2, Zenon
      <3>2. [p EXCEPT !.stage = "contention"] \in Pushes
        BY Zenon DEF Pushes, PushStages
      <3>3. PushOK([p EXCEPT !.stage = "contention"], m)
        BY <1>0, <1>2, <3>1, Zenon DEF PushOK, Pushes
      <3> QED BY <3>1, <3>2, <3>3, Zenon
    <2>6. CASE ~(p.replans >= MaxReplans)
      <3>1. Contended(p) = [p EXCEPT !.stage = "reread", !.replans = p.replans + 1]
        BY <1>2, <2>6, Zenon DEF Contended
      <3>2. [p EXCEPT !.stage = "reread", !.replans = p.replans + 1] \in Pushes
        <4>1. p.replans + 1 \in 0 .. MaxReplans
          BY <1>0, <2>6
        <4> QED BY <4>1, Zenon DEF Pushes, PushStages
      <3>3. PushOK([p EXCEPT !.stage = "reread", !.replans = p.replans + 1], m)
        BY <1>0, <1>2, <2>4, Zenon DEF PushOK, Pushes
      <3> QED BY <3>1, <3>2, <3>3, Zenon
    <2> QED BY <2>5, <2>6, Zenon
  <1> QED BY <1>1, <1>2, Zenon

\* The snapshot or the digest's parent was not there.
LEMMA AnsweredMissing ==
    ASSUME NEW p \in Pushes, NEW m \in Chain, PushOK(p, m), p.stage = "wait"
    PROVE  PushOK(Answered(p, "missing"), m) /\ Answered(p, "missing") \in Pushes
  <1>1. [p EXCEPT !.stage = "failed"] \in Pushes /\ [p EXCEPT !.stage = "restore"] \in Pushes
    BY Zenon DEF Pushes, PushStages
  <1>2. PushOK([p EXCEPT !.stage = "failed"], m) /\ PushOK([p EXCEPT !.stage = "restore"], m)
    BY Zenon DEF PushOK, Pushes
  <1>3. Answered(p, "missing") \in {[p EXCEPT !.stage = "failed"], [p EXCEPT !.stage = "restore"]}
    BY Zenon DEF Answered
  <1> QED BY <1>1, <1>2, <1>3, Zenon

-----------------------------------------------------------------------------
(* The pointers. *)

\* The memory a reader sees is a chain.
LEMMA MemoryChain ==
    ASSUME TypeOK, NEW r \in Replica
    PROVE  Memory(r) \in Chain /\ (att[r] # Absent => Memory(r) = att[r]) /\ (Memory(r) # None => att[r] = Memory(r))
  BY ChainSeq, Zenon DEF TypeOK, Memory

\* What a step may do to a pointer.
Moved(r) ==
    /\ IsPrefix(Memory(r), Memory(r)')
    /\ att'[r] = Absent => Memory(r) = None

\* A step that moves one pointer forward.
LEMMA MoveOne ==
    ASSUME TypeOK, NEW r \in Replica, NEW n \in Chain, att' = [att EXCEPT ![r] = n], IsPrefix(Memory(r), n)
    PROVE  att' \in [Replica -> Chain \cup {Absent}] /\ \A s \in Replica : Moved(s)
  <1>0. att \in [Replica -> Chain \cup {Absent}] /\ Absent \notin Chain
    BY ReplicaAssumption, Zenon DEF TypeOK
  <1>1. att' \in [Replica -> Chain \cup {Absent}]
    BY <1>0, Zenon
  <1>2. ASSUME NEW s \in Replica PROVE Moved(s)
    <2>1. CASE s = r
      <3>1. att'[s] = n /\ Memory(s)' = n /\ att'[s] # Absent
        BY <1>0, <2>1, Zenon DEF Memory
      <3> QED BY <2>1, <3>1, Zenon DEF Moved
    <2>2. CASE s # r
      <3>1. att'[s] = att[s] /\ Memory(s)' = Memory(s)
        BY <1>0, <2>2, Zenon DEF Memory
      <3>2. IsPrefix(Memory(s), Memory(s))
        BY MemoryChain, PrefixOrder, Zenon
      <3>3. att[s] = Absent => Memory(s) = None
        BY Zenon DEF Memory
      <3> QED BY <3>1, <3>2, <3>3, Zenon DEF Moved
    <2> QED BY <2>1, <2>2, Zenon
  <1> QED BY <1>1, <1>2, Zenon

\* A step that moves none.
LEMMA MoveNone ==
    ASSUME TypeOK, att' = att
    PROVE  att' \in [Replica -> Chain \cup {Absent}] /\ \A s \in Replica : Moved(s)
  <1>1. ASSUME NEW s \in Replica PROVE Moved(s)
    <2>1. IsPrefix(Memory(s), Memory(s)) /\ Memory(s)' = Memory(s)
      BY MemoryChain, PrefixOrder, Zenon DEF Memory
    <2> QED BY <2>1, Zenon DEF Moved, Memory
  <1> QED BY <1>1, Zenon DEF TypeOK

\* A compare-and-swap moves the pointer on from what was expected.
LEMMA MoveSwapped ==
    ASSUME TypeOK, NEW r \in Replica, NEW n \in Chain, NEW e \in Chain, IsPrefix(e, n),
           att' = Attached(r, CompareAndSwapSnapshotMemory(r, e, n), n)
    PROVE  att' \in [Replica -> Chain \cup {Absent}] /\ \A s \in Replica : Moved(s)
  <1>1. CASE CompareAndSwapSnapshotMemory(r, e, n) = "ok"
    <2>1. att[r] # Absent /\ att[r] \in {e, n}
      BY <1>1, ReplicaAssumption, Zenon DEF CompareAndSwapSnapshotMemory
    <2>2. att' = [att EXCEPT ![r] = n]
      BY <1>1, Zenon DEF Attached
    <2>3. IsPrefix(Memory(r), n)
      BY <2>1, MemoryChain, PrefixOrder, Zenon
    <2> QED BY <2>2, <2>3, MoveOne, Zenon
  <1>2. CASE CompareAndSwapSnapshotMemory(r, e, n) # "ok"
    BY <1>2, MoveNone, Zenon DEF Attached
  <1> QED BY <1>1, <1>2, Zenon

\* Every pointer keeps its type and moves forward only.
LEMMA AttStep ==
    ASSUME IInv, Next
    PROVE  att' \in [Replica -> Chain \cup {Absent}] /\ \A s \in Replica : Moved(s)
  <1> DEFINE Goal == att' \in [Replica -> Chain \cup {Absent}] /\ \A s \in Replica : Moved(s)
  <1>0. TypeOK /\ Server \in Replica /\ Client \subseteq Replica
    BY Zenon DEF IInv, Replica
  <1>1. CASE att' = att
    BY <1>0, <1>1, MoveNone, Zenon
  <1>2. ASSUME NEW c \in Client, MemorizeAttach(c) PROVE Goal
    <2>1. mem[c] \in Digest
      BY <1>0, <1>2, Zenon DEF MemorizeAttach, TypeOK, Digest
    <2>2. Front(mem[c]) \in Chain /\ IsPrefix(Front(mem[c]), mem[c]) /\ mem[c] \in Chain
      BY <2>1, FrontCut, ChainSeq, Zenon
    <2>3. att' = Attached(c, CompareAndSwapSnapshotMemory(c, Front(mem[c]), mem[c]), mem[c])
      BY <1>2, Zenon DEF MemorizeAttach
    <2> QED BY <1>0, <2>2, <2>3, MoveSwapped, Zenon
  <1>3. ASSUME NEW c \in Client, PushObjects(c) PROVE Goal
    <2>1. Memory(Server) \in Chain /\ IsPrefix(Memory(Server), Memory(Server)) /\ att' = [att EXCEPT ![Server] = Memory(Server)]
      BY <1>0, <1>3, MemoryChain, PrefixOrder, Zenon DEF PushObjects
    <2> QED BY <1>0, <2>1, MoveOne, Zenon
  <1>4. ASSUME NEW q \in reqs, AttachMemory(q) PROVE Goal
    <2>1. q.digest \in Digest
      BY <1>0, Zenon DEF TypeOK, Requests
    <2>2. Front(q.digest) \in Chain /\ IsPrefix(Front(q.digest), q.digest) /\ q.digest \in Chain
      BY <2>1, FrontCut, ChainSeq, Zenon
    <2>3. att' = Attached(Server, CompareAndSwapSnapshotMemory(Server, Front(q.digest), q.digest), q.digest)
      BY <1>4, Zenon DEF AttachMemory
    <2> QED BY <1>0, <2>2, <2>3, MoveSwapped, Zenon
  <1>5. ASSUME NEW c \in Client, RestoreMemoryArchive(c), att' # att PROVE Goal
    <2> DEFINE root == SubSeq(push[c].plan, 1, 1)
    <2>1. push[c].plan \in Digest
      BY <1>0, <1>5, Zenon DEF RestoreMemoryArchive, TypeOK, Pushes, IInv, Pushing, PushOK, Digest
    <2>2. push[c].plan \in Chain /\ 1 \in 0 .. Len(push[c].plan)
      BY <2>1, ChainSeq, BoundAssumption
    <2>3. root \in Chain
      BY <2>2, Cut, Zenon
    <2>4. att' = [att EXCEPT ![Server] = root] /\ Memory(Server) \in {None, root}
      BY <1>5, Zenon DEF RestoreMemoryArchive
    <2> HIDE DEF root
    <2>5. IsPrefix(Memory(Server), root)
      BY <2>3, <2>4, PrefixOrder, Zenon
    <2> QED BY <1>0, <2>3, <2>4, <2>5, MoveOne, Zenon
  <1>6. ASSUME NEW c \in Client, PullAttach(c) PROVE Goal
    <2> DEFINE l == pull[c]
    <2>0. /\ l.stage = "store" /\ l.remote \in Chain /\ l.local \in Chain \cup {Absent}
          /\ PullOK(l, obj[c])
      BY <1>0, <1>6, Zenon DEF PullAttach, TypeOK, Pulls, IInv, Pulling
    <2>1. CASE l.local # Absent /\ ~IsPrefix(l.remote, l.local)
      <3>1. att' = Attached(c, CompareAndSwapSnapshotMemory(c, l.local, l.remote), l.remote)
        BY <1>6, <2>1, Zenon DEF PullAttach
      <3>2. l.local \in Chain /\ IsPrefix(l.local, l.remote)
        BY <2>0, <2>1, Zenon DEF PullOK, Comparable
      <3> QED BY <1>0, <2>0, <3>1, <3>2, MoveSwapped, Zenon
    <2>2. CASE ~(l.local # Absent /\ ~IsPrefix(l.remote, l.local))
      <3>1. att' = [att EXCEPT ![c] = IF Memory(c) = None THEN l.remote ELSE att[c]]
        BY <1>6, <2>2, Zenon DEF PullAttach
      <3>2. CASE Memory(c) = None
        <4>1. IsPrefix(Memory(c), l.remote)
          BY <2>0, <3>2, PrefixOrder, Zenon
        <4> QED BY <1>0, <2>0, <3>1, <3>2, <4>1, MoveOne, Zenon
      <3>3. CASE Memory(c) # None
        <4>1. att' = att
          BY <1>0, <3>1, <3>3, Zenon DEF TypeOK
        <4> QED BY <1>1, <4>1, Zenon
      <3> QED BY <3>2, <3>3, Zenon
    <2> QED BY <2>1, <2>2, Zenon
  <1>7. CASE Collect
    <2>1. att' = [att EXCEPT ![Server] = Absent] /\ att[Server] = None /\ att \in [Replica -> Chain \cup {Absent}]
      BY <1>0, <1>7, Zenon DEF Collect, TypeOK
    <2>2. ASSUME NEW s \in Replica PROVE Moved(s)
      <3>1. CASE s = Server
        <4>1. Memory(s) = None /\ Memory(s)' = None
          BY <1>0, <2>1, <3>1, Zenon DEF Memory
        <4>2. IsPrefix(None, None)
          BY PrefixOrder, ChainSeq, Zenon
        <4> QED BY <4>1, <4>2, Zenon DEF Moved
      <3>2. CASE s # Server
        <4>1. att'[s] = att[s] /\ Memory(s)' = Memory(s)
          BY <1>0, <2>1, <3>2, Zenon DEF Memory
        <4>2. IsPrefix(Memory(s), Memory(s))
          BY <1>0, MemoryChain, PrefixOrder, Zenon
        <4> QED BY <4>1, <4>2, Zenon DEF Moved, Memory
      <3> QED BY <3>1, <3>2, Zenon
    <2> QED BY <1>0, <2>1, <2>2, Zenon
  <1>8. ASSUME NEW c \in Client, NEW b \in Body, Memorize(c, b) PROVE att' = att
    BY <1>8, Zenon DEF Memorize
  <1>9. ASSUME NEW c \in Client,
               \/ MemorizeStops(c) \/ PushSelect(c) \/ Preflight(c) \/ Reread(c) \/ SendMemory(c) \/ PushEnds(c)
               \/ PushStops(c) \/ PullRead(c) \/ PullCompare(c) \/ PullMoved(c) \/ PullStore(c) \/ PullStops(c)
        PROVE  att' = att
    BY <1>9, Zenon DEF MemorizeStops, PushSelect, Preflight, Reread, SendMemory, PushEnds, PushStops, PullRead, PullCompare,
                PullMoved, PullStore, PullStops
  <1>10. ASSUME NEW q \in reqs, StoreMemory(q) \/ StoreRefused(q) PROVE att' = att
    BY <1>10, Zenon DEF StoreMemory, StoreRefused
  <1> QED BY <1>1, <1>2, <1>3, <1>4, <1>5, <1>6, <1>7, <1>8, <1>9, <1>10, Zenon DEF Next, PushStep, PullStep, Serve

-----------------------------------------------------------------------------
(* The stores. *)

\* What a step may do to the stores: they grow, and the server's has the
\* ancestors of all it has.
Stores ==
    /\ obj' \in [Replica -> SUBSET Digest]
    /\ \A r \in Replica : obj[r] \subseteq obj'[r]
    /\ \A d \in obj'[Server] : Ancestry(d) \subseteq obj'[Server]

\* Storing one digest, on the server after its ancestors.
LEMMA StoreOne ==
    ASSUME IInv, NEW r \in Replica, NEW d \in Digest, obj' = [obj EXCEPT ![r] = @ \cup {d}],
           r = Server => \A e \in Ancestry(d) : e = d \/ e \in obj[Server]
    PROVE  Stores /\ d \in obj'[r]
  <1>0. obj \in [Replica -> SUBSET Digest] /\ Server \in Replica /\ \A x \in obj[Server] : Ancestry(x) \subseteq obj[Server]
    BY Zenon DEF IInv, TypeOK, Replica, Stocked
  <1>1. obj'[r] = obj[r] \cup {d} /\ \A s \in Replica : s # r => obj'[s] = obj[s]
    BY <1>0, Zenon
  <1>2. obj' \in [Replica -> SUBSET Digest]
    BY <1>0, Zenon
  <1>3. \A s \in Replica : obj[s] \subseteq obj'[s]
    BY <1>1, Zenon
  <1>4. ASSUME NEW x \in obj'[Server], NEW e \in Ancestry(x) PROVE e \in obj'[Server]
    <2>1. CASE x \in obj[Server]
      BY <1>0, <1>3, <1>4, <2>1, Zenon
    <2>2. CASE x \notin obj[Server]
      <3>1. r = Server /\ x = d
        BY <1>0, <1>1, <1>4, <2>2, Zenon
      <3> QED BY <1>1, <1>4, <3>1, Zenon
    <2> QED BY <2>1, <2>2, Zenon
  <1> QED BY <1>1, <1>2, <1>3, <1>4, Zenon DEF Stores

\* A digest with its parent on the server has its ancestors there.
LEMMA ParentStored ==
    ASSUME IInv, NEW d \in Digest, Len(d) > 1 => Front(d) \in obj[Server]
    PROVE  \A e \in Ancestry(d) : e = d \/ e \in obj[Server]
  <1>1. ASSUME NEW e \in Ancestry(d), e # d PROVE e \in obj[Server]
    <2>1. e \in Ancestry(Front(d)) /\ Front(d) \in Chain /\ Len(Front(d)) = Len(d) - 1 /\ Len(d) \in Nat
      BY <1>1, FrontCut, ChainSeq, BoundAssumption
    <2>2. e \in Digest /\ e \in Chain /\ IsPrefix(e, Front(d))
      BY <2>1, AncestryPrefixes, ChainSeq, Zenon
    <2>3. Len(e) <= Len(d) - 1 /\ Len(e) >= 1 /\ Len(e) \in Nat
      BY <2>1, <2>2, PrefixOrder, ChainSeq, BoundAssumption
    <2>4. Front(d) \in obj[Server]
      BY <2>1, <2>3
    <2> QED BY <2>1, <2>4, Zenon DEF IInv, Stocked
  <1> QED BY <1>1, Zenon

\* The stores only grow, the server's oldest first.
LEMMA ObjStep ==
    ASSUME IInv, Next
    PROVE  Stores
  <1>0. TypeOK /\ Server \in Replica /\ Client \subseteq Replica /\ Server \notin Client
    BY ReplicaAssumption, Zenon DEF IInv, Replica
  <1>1. CASE obj' = obj
    BY <1>0, <1>1, Zenon DEF IInv, TypeOK, Stocked, Stores
  <1>2. ASSUME NEW c \in Client, NEW b \in Body, Memorize(c, b) PROVE Stores
    <2>1. att[c] \in Chain /\ Len(att[c]) < MaxDepth /\ obj' = [obj EXCEPT ![c] = @ \cup {Append(att[c], b)}]
      BY <1>0, <1>2, Zenon DEF Memorize, TypeOK
    <2>2. Append(att[c], b) \in Digest
      BY <2>1, Grow, Zenon
    <2> QED BY <1>0, <2>1, <2>2, StoreOne, Zenon
  <1>3. ASSUME NEW q \in reqs, StoreMemory(q) PROVE Stores
    <2>1. /\ q.digest \in Digest /\ obj' = [obj EXCEPT ![Server] = @ \cup {q.digest}]
          /\ Len(q.digest) > 1 => Front(q.digest) \in obj[Server]
      BY <1>0, <1>3, Zenon DEF StoreMemory, TypeOK, Requests
    <2>2. \A e \in Ancestry(q.digest) : e = q.digest \/ e \in obj[Server]
      BY <2>1, ParentStored, Zenon
    <2> QED BY <1>0, <2>1, <2>2, StoreOne, Zenon
  <1>4. ASSUME NEW c \in Client, RestoreMemoryArchive(c), obj' # obj PROVE Stores
    <2> DEFINE root == SubSeq(push[c].plan, 1, 1)
    <2>1. push[c].plan \in Digest
      BY <1>0, <1>4, Zenon DEF RestoreMemoryArchive, TypeOK, Pushes, IInv, Pushing, PushOK, Digest
    <2>2. push[c].plan \in Chain /\ 1 \in 0 .. Len(push[c].plan)
      BY <2>1, ChainSeq, BoundAssumption
    <2>3. root \in Chain /\ Len(root) = 1
      BY <2>2, Cut, Zenon
    <2>4. obj' = [obj EXCEPT ![Server] = @ \cup {root}]
      BY <1>4, Zenon DEF RestoreMemoryArchive
    <2> HIDE DEF root
    <2>5. root # None /\ ~(Len(root) > 1)
      <3>1. Len(None) = 0
        BY ChainSeq, Zenon
      <3>2. root # None
        BY <2>3, <3>1
      <3> QED BY <2>3, <3>2
    <2>6. root \in Digest
      BY <2>3, <2>5, Zenon DEF Digest
    <2>7. \A e \in Ancestry(root) : e = root \/ e \in obj[Server]
      BY <2>5, <2>6, ParentStored, Zenon
    <2> QED BY <1>0, <2>4, <2>6, <2>7, StoreOne, Zenon
  <1>5. ASSUME NEW c \in Client, PullStore(c) PROVE Stores
    <2>1. PICK d \in pull[c].staged : obj' = [obj EXCEPT ![c] = @ \cup {d}]
      BY <1>5, Zenon DEF PullStore
    <2>2. d \in Digest
      BY <1>0, <2>1, Zenon DEF TypeOK, Pulls
    <2> QED BY <1>0, <2>1, <2>2, StoreOne, Zenon
  <1>6. ASSUME NEW c \in Client,
               \/ MemorizeAttach(c) \/ MemorizeStops(c) \/ PushSelect(c) \/ Preflight(c) \/ PushObjects(c) \/ Reread(c)
               \/ SendMemory(c) \/ PushEnds(c) \/ PushStops(c) \/ PullRead(c) \/ PullCompare(c) \/ PullMoved(c)
               \/ PullAttach(c) \/ PullStops(c)
        PROVE  obj' = obj
    BY <1>6, Zenon DEF MemorizeAttach, MemorizeStops, PushSelect, Preflight, PushObjects, Reread, SendMemory, PushEnds, PushStops,
                PullRead, PullCompare, PullMoved, PullAttach, PullStops
  <1>7. ASSUME NEW q \in reqs, StoreRefused(q) \/ AttachMemory(q) PROVE obj' = obj
    BY <1>7, Zenon DEF StoreRefused, AttachMemory
  <1>8. CASE Collect
    BY <1>1, <1>8, Zenon DEF Collect
  <1> QED BY <1>1, <1>2, <1>3, <1>4, <1>5, <1>6, <1>7, <1>8, Zenon DEF Next, PushStep, PullStep, Serve

\* A pointer that stays, or moves to a chain that is stored, has its chain.
LEMMA ChainMoves ==
    ASSUME IInv, Stores, NEW r \in Replica, NEW n \in Chain,
           att' = att \/ (att' = [att EXCEPT ![r] = n] /\ Ancestry(n) \subseteq obj'[r])
    PROVE  ChainComplete'
  <1>0. att \in [Replica -> Chain \cup {Absent}] /\ Absent \notin Chain
    BY ReplicaAssumption, Zenon DEF IInv, TypeOK
  <1>1. ASSUME NEW s \in Replica, att'[s] = att[s] PROVE Ancestry(Memory(s)') \subseteq obj'[s]
    <2>1. Memory(s)' = Memory(s)
      BY <1>1, Zenon DEF Memory
    <2>2. Ancestry(Memory(s)) \subseteq obj[s] /\ obj[s] \subseteq obj'[s]
      BY Zenon DEF IInv, ChainComplete, Stores
    <2> QED BY <2>1, <2>2, Zenon
  <1>2. ASSUME att' = [att EXCEPT ![r] = n], Ancestry(n) \subseteq obj'[r] PROVE Ancestry(Memory(r)') \subseteq obj'[r]
    <2>1. Memory(r)' = n
      BY <1>0, <1>2, Zenon DEF Memory
    <2> QED BY <1>2, <2>1, Zenon
  <1>3. \A s \in Replica : att'[s] = att[s] \/ (s = r /\ att' = [att EXCEPT ![r] = n] /\ Ancestry(n) \subseteq obj'[r])
    BY <1>0, Zenon
  <1>4. ASSUME NEW s \in Replica PROVE Ancestry(Memory(s)') \subseteq obj'[s]
    BY <1>1, <1>2, <1>3, Zenon
  <1> QED BY <1>4, Zenon DEF ChainComplete

\* No step leaves a replica with a pointer into a chain it does not have.
LEMMA ChainStep ==
    ASSUME IInv, Next, Stores
    PROVE  ChainComplete'
  <1>0. TypeOK /\ Server \in Replica /\ Client \subseteq Replica /\ None \in Chain
    BY ChainSeq, Zenon DEF IInv, Replica
  <1>1. CASE att' = att
    BY <1>0, <1>1, ChainMoves, Zenon
  <1>2. ASSUME NEW c \in Client, MemorizeAttach(c) PROVE ChainComplete'
    <2>1. mem[c] \in Chain /\ Ancestry(mem[c]) \subseteq obj'[c]
      BY <1>0, Zenon DEF IInv, TypeOK, Stocked, Stores
    <2>2. att' = att \/ att' = [att EXCEPT ![c] = mem[c]]
      BY <1>2, Zenon DEF MemorizeAttach, Attached
    <2> QED BY <1>0, <2>1, <2>2, ChainMoves, Zenon
  <1>3. ASSUME NEW c \in Client, PushObjects(c) PROVE ChainComplete'
    <2>1. Memory(Server) \in Chain /\ att' = [att EXCEPT ![Server] = Memory(Server)]
      BY <1>0, <1>3, MemoryChain, Zenon DEF PushObjects
    <2>2. Ancestry(Memory(Server)) \subseteq obj'[Server]
      BY <1>0, Zenon DEF IInv, ChainComplete, Stores
    <2> QED BY <1>0, <2>1, <2>2, ChainMoves, Zenon
  <1>4. ASSUME NEW q \in reqs, AttachMemory(q) PROVE ChainComplete'
    <2>1. q.digest \in Chain /\ q.digest \in obj[Server]
      BY <1>0, <1>4, ChainSeq, Zenon DEF AttachMemory, IInv, TypeOK, Requests, Serving
    <2>2. Ancestry(q.digest) \subseteq obj'[Server]
      BY <1>0, <2>1, Zenon DEF IInv, Stocked, Stores
    <2>3. att' = att \/ att' = [att EXCEPT ![Server] = q.digest]
      BY <1>4, Zenon DEF AttachMemory, Attached
    <2> QED BY <1>0, <2>1, <2>2, <2>3, ChainMoves, Zenon
  <1>5. ASSUME NEW c \in Client, RestoreMemoryArchive(c), att' # att PROVE ChainComplete'
    <2> DEFINE root == SubSeq(push[c].plan, 1, 1)
    <2>1. push[c].plan \in Digest
      BY <1>0, <1>5, Zenon DEF RestoreMemoryArchive, TypeOK, Pushes, IInv, Pushing, PushOK, Digest
    <2>2. push[c].plan \in Chain /\ 1 \in 0 .. Len(push[c].plan)
      BY <2>1, ChainSeq, BoundAssumption
    <2>3. root \in Chain
      BY <2>2, Cut, Zenon
    <2>4. att' = [att EXCEPT ![Server] = root] /\ obj' = [obj EXCEPT ![Server] = @ \cup {root}]
      BY <1>5, Zenon DEF RestoreMemoryArchive
    <2> HIDE DEF root
    <2>5. root \in obj'[Server]
      BY <1>0, <2>4, Zenon DEF TypeOK
    <2>6. Ancestry(root) \subseteq obj'[Server]
      BY <2>5, Zenon DEF Stores
    <2> QED BY <1>0, <2>3, <2>4, <2>6, ChainMoves, Zenon
  <1>6. ASSUME NEW c \in Client, PullAttach(c) PROVE ChainComplete'
    <2>1. pull[c].remote \in Chain
      BY <1>0, Zenon DEF TypeOK, Pulls
    <2>2. Ancestry(pull[c].remote) \subseteq obj[c]
      BY <1>6, Zenon DEF PullAttach, IInv, Pulling, PullOK
    <2>3. Ancestry(pull[c].remote) \subseteq obj'[c]
      BY <1>0, <2>2, Zenon DEF Stores
    <2>4. att' = att \/ att' = [att EXCEPT ![c] = pull[c].remote] \/ att' = [att EXCEPT ![c] = att[c]]
      BY <1>6, Zenon DEF PullAttach, Attached
    <2>5. [att EXCEPT ![c] = att[c]] = att
      BY <1>0, Zenon DEF TypeOK
    <2> QED BY <1>0, <2>1, <2>3, <2>4, <2>5, ChainMoves, Zenon
  <1>7. CASE Collect
    <2>1. att' = [att EXCEPT ![Server] = Absent] /\ att[Server] = None /\ att \in [Replica -> Chain \cup {Absent}]
      BY <1>0, <1>7, Zenon DEF Collect, TypeOK
    <2>2. ASSUME NEW s \in Replica PROVE Ancestry(Memory(s)') \subseteq obj'[s]
      <3>1. Memory(s)' = Memory(s)
        BY <1>0, <2>1, Zenon DEF Memory
      <3>2. Ancestry(Memory(s)) \subseteq obj[s] /\ obj[s] \subseteq obj'[s]
        BY Zenon DEF IInv, ChainComplete, Stores
      <3> QED BY <3>1, <3>2, Zenon
    <2> QED BY <2>2, Zenon DEF ChainComplete
  <1>8. ASSUME NEW c \in Client, NEW b \in Body, Memorize(c, b) PROVE att' = att
    BY <1>8, Zenon DEF Memorize
  <1>9. ASSUME NEW c \in Client,
               \/ MemorizeStops(c) \/ PushSelect(c) \/ Preflight(c) \/ Reread(c) \/ SendMemory(c) \/ PushEnds(c)
               \/ PushStops(c) \/ PullRead(c) \/ PullCompare(c) \/ PullMoved(c) \/ PullStore(c) \/ PullStops(c)
        PROVE  att' = att
    BY <1>9, Zenon DEF MemorizeStops, PushSelect, Preflight, Reread, SendMemory, PushEnds, PushStops, PullRead, PullCompare,
                PullMoved, PullStore, PullStops
  <1>10. ASSUME NEW q \in reqs, StoreMemory(q) \/ StoreRefused(q) PROVE att' = att
    BY <1>10, Zenon DEF StoreMemory, StoreRefused
  <1> QED BY <1>1, <1>2, <1>3, <1>4, <1>5, <1>6, <1>7, <1>8, <1>9, <1>10, Zenon DEF Next, PushStep, PullStep, Serve

\* The digest a memorize is to attach stays at hand with its ancestors.
LEMMA MemStep ==
    ASSUME IInv, Next, Stores
    PROVE  /\ mem' \in [Client -> Chain] /\ faults' \in 0 .. MaxFaults
           /\ \A c \in Client : Ancestry(mem'[c]) \subseteq obj'[c]
  <1> DEFINE Kept == \A c \in Client : Ancestry(mem'[c]) \subseteq obj'[c]
             Counted == faults' \in 0 .. MaxFaults
  <1>0. /\ TypeOK /\ Client \subseteq Replica /\ None \in Chain /\ Ancestry(None) = {} /\ MaxFaults \in Nat
        /\ mem \in [Client -> Chain] /\ faults \in 0 .. MaxFaults
        /\ \A c \in Client : Ancestry(mem[c]) \subseteq obj'[c]
    BY ChainSeq, BoundAssumption DEF IInv, TypeOK, Replica, Stocked, Stores, Ancestry
  <1>1. ASSUME mem' = mem PROVE mem' \in [Client -> Chain] /\ Kept
    BY <1>0, <1>1, Zenon
  <1>2. ASSUME NEW c \in Client, NEW d \in Chain, mem' = [mem EXCEPT ![c] = d], Ancestry(d) \subseteq obj'[c]
        PROVE  mem' \in [Client -> Chain] /\ Kept
    <2>1. mem' \in [Client -> Chain] /\ \A e \in Client : mem'[e] = IF e = c THEN d ELSE mem[e]
      BY <1>0, <1>2, Zenon
    <2> QED BY <1>0, <1>2, <2>1, Zenon
  <1> HIDE DEF Kept
  <1>3. ASSUME faults' = faults \/ (faults < MaxFaults /\ faults' = faults + 1) PROVE Counted
    BY <1>0, <1>3
  <1> HIDE DEF Counted
  <1>4. ASSUME NEW c \in Client, NEW b \in Body, Memorize(c, b) PROVE mem' \in [Client -> Chain] /\ Kept /\ Counted
    <2> DEFINE d == Append(att[c], b)
    <2>1. att[c] \in Chain /\ Len(att[c]) < MaxDepth /\ c \in Replica /\ Memory(c) = att[c]
      BY <1>0, <1>4, Zenon DEF Memorize, TypeOK, Memory
    <2>2. d \in Digest /\ Front(d) = att[c] /\ d \in Chain
      BY <2>1, Grow, ChainSeq, Zenon
    <2>3. obj' = [obj EXCEPT ![c] = @ \cup {d}] /\ mem' = [mem EXCEPT ![c] = d] /\ faults' = faults
      BY <1>4, Zenon DEF Memorize
    <2> HIDE DEF d
    <2>4. d \in obj'[c] /\ Ancestry(att[c]) \subseteq obj'[c]
      BY <1>0, <2>1, <2>3, Zenon DEF IInv, TypeOK, ChainComplete
    <2>5. Ancestry(d) \subseteq obj'[c]
      BY <2>2, <2>4, FrontCut, Zenon
    <2> QED BY <1>2, <1>3, <2>2, <2>3, <2>5, Zenon
  <1>5. ASSUME NEW c \in Client, MemorizeAttach(c) \/ MemorizeStops(c) PROVE mem' \in [Client -> Chain] /\ Kept /\ Counted
    <2>1. mem' = [mem EXCEPT ![c] = None] /\ (faults' = faults \/ (faults < MaxFaults /\ faults' = faults + 1))
      BY <1>5, Zenon DEF MemorizeAttach, MemorizeStops
    <2>2. Ancestry(None) \subseteq obj'[c]
      BY <1>0, Zenon
    <2> QED BY <1>0, <1>2, <1>3, <2>1, <2>2, Zenon
  <1>6. ASSUME NEW c \in Client, PushStep(c) \/ PushStops(c) \/ PullStep(c) \/ PullStops(c)
        PROVE  mem' = mem /\ (faults' = faults \/ (faults < MaxFaults /\ faults' = faults + 1))
    BY <1>6, Zenon DEF PushStep, PullStep, PushSelect, Preflight, PushObjects, Reread, SendMemory, RestoreMemoryArchive,
                PushEnds, PushStops, PullRead, PullCompare, PullMoved, PullStore, PullAttach, PullStops
  <1>7. ASSUME NEW q \in reqs, Serve(q) PROVE mem' = mem /\ faults' = faults
    BY <1>7, Zenon DEF Serve, StoreMemory, StoreRefused, AttachMemory
  <1>8. ASSUME Collect PROVE mem' = mem /\ faults' = faults
    BY <1>8, Zenon DEF Collect
  <1>9. mem' \in [Client -> Chain] /\ Kept /\ Counted
    BY <1>1, <1>3, <1>4, <1>5, <1>6, <1>7, <1>8, Zenon DEF Next
  <1> QED BY <1>9, Zenon DEF Kept, Counted

-----------------------------------------------------------------------------
(* The pull. *)

\* A step of at most one pull, which leaves it with what it needs.
LEMMA PullMoves ==
    ASSUME IInv, Stores, NEW c \in Client, NEW l \in Pulls, PullOK(l, obj'[c]),
           pull' = pull \/ pull' = [pull EXCEPT ![c] = l]
    PROVE  pull' \in [Client -> Pulls] /\ Pulling'
  <1>0. pull \in [Client -> Pulls] /\ Client \subseteq Replica
    BY Zenon DEF IInv, TypeOK, Replica
  <1>1. ASSUME NEW e \in Client PROVE PullOK(pull[e], obj'[e])
    BY <1>0, Zenon DEF IInv, Pulling, PullOK, Stores
  <1>2. pull' \in [Client -> Pulls] /\ \A e \in Client : pull'[e] = pull[e] \/ (e = c /\ pull'[e] = l)
    BY <1>0, Zenon
  <1>3. ASSUME NEW e \in Client PROVE PullOK(pull'[e], obj'[e])
    BY <1>1, <1>2, Zenon
  <1> QED BY <1>2, <1>3, Zenon DEF Pulling

\* The empty pull.
LEMMA PullRests == NoPull \in Pulls /\ \A s : PullOK(NoPull, s)
  <1>1. None \in Chain
    BY ChainSeq, Zenon
  <1>2. NoPull \in Pulls
    BY <1>1, Zenon DEF NoPull, Pulls
  <1> QED BY <1>2, Zenon DEF NoPull, PullOK

\* What a pull needs and does not have is staged.
LEMMA NeededCovers ==
    ASSUME IInv, NEW c \in Client, NEW n \in Chain
    PROVE  Ancestry(n) \subseteq obj[c] \cup (Needed(c, n) \ obj[c]) /\ Needed(c, n) \subseteq Digest
  <1>1. Ancestry(n) \subseteq Digest
    BY AncestryPrefixes, Zenon
  <1>2. Needed(c, n) \in {Ancestry(n) \ Ancestry(Memory(c)), Ancestry(n)}
    BY Zenon DEF Needed
  <1>3. Ancestry(Memory(c)) \subseteq obj[c]
    BY Zenon DEF IInv, ChainComplete, Replica
  <1> QED BY <1>1, <1>2, <1>3, Zenon

\* Pulls keep their type and their claim on what they attach.
LEMMA PullsStep ==
    ASSUME IInv, Next, Stores
    PROVE  pull' \in [Client -> Pulls] /\ Pulling'
  <1> DEFINE Goal == pull' \in [Client -> Pulls] /\ Pulling'
  <1>0. TypeOK /\ Server \in Replica /\ Client \subseteq Replica /\ pull \in [Client -> Pulls]
    BY Zenon DEF IInv, Replica, TypeOK
  <1>1. ASSUME NEW c \in Client, pull' = pull \/ pull' = [pull EXCEPT ![c] = NoPull] PROVE Goal
    BY <1>1, PullMoves, PullRests, Zenon
  <1>2. ASSUME NEW c \in Client, PullRead(c) PROVE Goal
    <2> DEFINE l == [NoPull EXCEPT !.stage = "compare", !.remote = att[Server]]
    <2>1. att[Server] \in Chain /\ pull' = [pull EXCEPT ![c] = l]
      BY <1>0, <1>2, Zenon DEF PullRead, TypeOK
    <2>2. l \in Pulls /\ PullOK(l, obj'[c])
      BY <2>1, PullRests, Zenon DEF Pulls, PullOK, NoPull
    <2> HIDE DEF l
    <2> QED BY <2>1, <2>2, PullMoves, Zenon
  <1>3. ASSUME NEW c \in Client, PullCompare(c) PROVE Goal
    <2> DEFINE n == pull[c].remote
               l == [pull[c] EXCEPT !.stage = "store", !.local = att[c], !.staged = Needed(c, n) \ obj[c]]
    <2>1. pull' = [pull EXCEPT ![c] = IF Comparable(Memory(c), n) THEN l ELSE NoPull] /\ obj' = obj
      BY <1>3, Zenon DEF PullCompare
    <2>2. CASE Comparable(Memory(c), n)
      <3>1. n \in Chain /\ pull[c] \in Pulls /\ att[c] \in Chain \cup {Absent}
        BY <1>0, Zenon DEF TypeOK, Pulls
      <3>2. Ancestry(n) \subseteq obj[c] \cup (Needed(c, n) \ obj[c]) /\ Needed(c, n) \ obj[c] \in SUBSET Digest
        BY <3>1, NeededCovers, Zenon
      <3>3. l \in Pulls
        BY <3>1, <3>2, Zenon DEF Pulls
      <3>4. l.remote = n /\ l.local = att[c] /\ l.staged = Needed(c, n) \ obj[c]
        BY <3>1, Zenon DEF Pulls
      <3>5. PullOK(l, obj'[c])
        BY <2>1, <2>2, <3>2, <3>4, Zenon DEF PullOK, Memory
      <3>6. pull' = [pull EXCEPT ![c] = l]
        BY <2>1, <2>2, Zenon
      <3> HIDE DEF l
      <3> QED BY <3>3, <3>5, <3>6, PullMoves, Zenon
    <2>3. CASE ~Comparable(Memory(c), n)
      BY <1>1, <2>1, <2>3, Zenon
    <2> QED BY <2>2, <2>3, Zenon
  <1>4. ASSUME NEW c \in Client, PullStore(c) PROVE Goal
    <2>1. PICK d \in pull[c].staged : obj' = [obj EXCEPT ![c] = @ \cup {d}] /\ pull' = [pull EXCEPT ![c].staged = @ \ {d}]
      BY <1>4, Zenon DEF PullStore
    <2> DEFINE l == [pull[c] EXCEPT !.staged = pull[c].staged \ {d}]
    <2>2. pull' = [pull EXCEPT ![c] = l] /\ obj'[c] = obj[c] \cup {d} /\ pull[c] \in Pulls
      BY <1>0, <2>1, Zenon DEF TypeOK
    <2>3. l \in Pulls /\ l.remote = pull[c].remote /\ l.local = pull[c].local /\ l.stage = pull[c].stage
          /\ l.staged = pull[c].staged \ {d}
      BY <2>2, Zenon DEF Pulls
    <2>4. PullOK(l, obj'[c])
      BY <2>2, <2>3, Zenon DEF IInv, Pulling, PullOK
    <2> HIDE DEF l
    <2> QED BY <2>2, <2>3, <2>4, PullMoves, Zenon
  <1>5. ASSUME NEW c \in Client, PullMoved(c) \/ PullAttach(c) \/ PullStops(c) PROVE Goal
    BY <1>1, <1>5, Zenon DEF PullMoved, PullAttach, PullStops
  <1>6. ASSUME NEW c \in Client,
               (\E b \in Body : Memorize(c, b)) \/ MemorizeAttach(c) \/ MemorizeStops(c) \/ PushStep(c) \/ PushStops(c)
        PROVE  pull' = pull
    BY <1>6, Zenon DEF Memorize, MemorizeAttach, MemorizeStops, PushStep, PushSelect, Preflight, PushObjects, Reread, SendMemory,
                RestoreMemoryArchive, PushEnds, PushStops
  <1>7. ASSUME NEW q \in reqs, Serve(q) PROVE pull' = pull
    BY <1>7, Zenon DEF Serve, StoreMemory, StoreRefused, AttachMemory
  <1>8. ASSUME Collect PROVE pull' = pull
    BY <1>8, Zenon DEF Collect
  <1>9. ASSUME pull' = pull PROVE Goal
    BY <1>1, <1>9, ReplicaAssumption, Zenon
  <1> HIDE DEF Goal
  <1>10. Goal
    BY <1>2, <1>3, <1>4, <1>5, <1>6, <1>7, <1>8, <1>9, Zenon DEF Next, PullStep
  <1> QED BY <1>10, Zenon DEF Goal

-----------------------------------------------------------------------------
(* The pushes and their requests. *)

\* A push waits exactly while its request is being served.
Waiting == \A c \in Client : push[c].stage = "wait" <=> \E q \in reqs : q.client = c

\* What a step must leave of the pushes, and of the requests.
Pushed == push' \in [Client -> Pushes] /\ Pushing'
Requested == reqs' \subseteq Requests /\ Waiting' /\ Serving'

\* What a step does to the server's pointer.
Advanced == Memory(Server)' \in Chain /\ IsPrefix(Memory(Server), Memory(Server)')

\* A step of at most one push, while the server stays or advances.
LEMMA PushMoves ==
    ASSUME IInv, Advanced, NEW c \in Client, NEW p \in Pushes, PushOK(p, Memory(Server)'),
           push' = push \/ push' = [push EXCEPT ![c] = p]
    PROVE  Pushed
  <1>0. push \in [Client -> Pushes] /\ Memory(Server) \in Chain
    BY MemoryChain, Zenon DEF IInv, TypeOK, Replica
  <1>1. ASSUME NEW e \in Client PROVE PushOK(push[e], Memory(Server)')
    <2>1. PushOK(push[e], Memory(Server)) /\ push[e] \in Pushes
      BY <1>0, Zenon DEF IInv, Pushing
    <2> QED BY <1>0, <2>1, PushAdvances, Zenon DEF Advanced
  <1>2. push' \in [Client -> Pushes] /\ \A e \in Client : push'[e] = push[e] \/ (e = c /\ push'[e] = p)
    BY <1>0, Zenon
  <1>3. ASSUME NEW e \in Client PROVE PushOK(push'[e], Memory(Server)')
    BY <1>1, <1>2, Zenon
  <1> QED BY <1>2, <1>3, Zenon DEF Pushed, Pushing

\* Pushes that do not wait may move: the requests are theirs no more than before.
LEMMA RequestsStay ==
    ASSUME IInv, Stores, reqs' = reqs, NEW c \in Client, NEW p \in Pushes,
           push' = push \/ (push' = [push EXCEPT ![c] = p] /\ push[c].stage # "wait" /\ p.stage # "wait")
    PROVE  Requested
  <1>0. push \in [Client -> Pushes] /\ reqs \subseteq Requests /\ Waiting /\ Serving /\ Server \in Replica
    BY Zenon DEF IInv, TypeOK, Waiting, Replica
  <1>1. \A e \in Client : push'[e] = push[e] \/ (push[e].stage # "wait" /\ push'[e].stage # "wait")
    BY <1>0, Zenon
  <1>2. Waiting'
    BY <1>0, <1>1, Zenon DEF Waiting
  <1>3. ASSUME NEW q \in reqs, q.client # Nobody PROVE q.client \in Client /\ push'[q.client] = push[q.client]
    BY <1>0, <1>1, <1>3, Zenon DEF Waiting, Requests
  <1>4. \A q \in reqs : q.stored => q.digest \in obj'[Server]
    BY <1>0, Zenon DEF Serving, Stores
  <1>5. Serving'
    BY <1>0, <1>3, <1>4, Zenon DEF Serving
  <1> QED BY <1>0, <1>2, <1>5, Zenon DEF Requested

\* A request that is answered: its push, if there is one, stops waiting.
LEMMA RequestEnds ==
    ASSUME IInv, Stores, NEW q \in reqs, reqs' = reqs \ {q},
           q.client = Nobody => push' = push,
           q.client # Nobody =>
              \E p \in Pushes : push' = [push EXCEPT ![q.client] = p] /\ p.stage # "wait"
    PROVE  Requested
  <1>0. push \in [Client -> Pushes] /\ reqs \subseteq Requests /\ Waiting /\ Serving /\ Server \in Replica /\ Nobody \notin Client
    BY ReplicaAssumption, Zenon DEF IInv, TypeOK, Waiting, Replica
  <1>1. q.client \in Client \cup {Nobody}
    BY <1>0, Zenon DEF Requests
  <1>2. /\ \A e \in Client : e # q.client => push'[e] = push[e]
        /\ q.client # Nobody => push'[q.client].stage # "wait"
    BY <1>0, <1>1, Zenon
  <1>3. \A r \in reqs' : r \in reqs /\ r # q /\ (r.client # Nobody => r.client # q.client)
    BY <1>0, Zenon DEF Serving
  <1>4. Waiting'
    <2>1. ASSUME NEW e \in Client, e # q.client PROVE (\E r \in reqs' : r.client = e) <=> (\E r \in reqs : r.client = e)
      BY <2>1, Zenon
    <2>2. ASSUME NEW e \in Client, e = q.client PROVE ~ \E r \in reqs' : r.client = e
      BY <1>0, <1>3, <2>2, Zenon
    <2>3. ASSUME NEW e \in Client PROVE push'[e].stage = "wait" <=> \E r \in reqs' : r.client = e
      <3>1. CASE e = q.client
        BY <1>0, <1>2, <2>2, <3>1, Zenon
      <3>2. CASE e # q.client
        BY <1>0, <1>2, <2>1, <3>2, Zenon DEF Waiting
      <3> QED BY <3>1, <3>2, Zenon
    <2> QED BY <2>3, Zenon DEF Waiting
  <1>5. ASSUME NEW r \in reqs', r.client # Nobody PROVE r.client \in Client /\ push'[r.client] = push[r.client]
    BY <1>0, <1>2, <1>3, <1>5, Zenon DEF Requests
  <1>6. \A r \in reqs' : r.stored => r.digest \in obj'[Server]
    BY <1>0, <1>3, Zenon DEF Serving, Stores
  <1>7. Serving'
    BY <1>0, <1>3, <1>5, <1>6, Zenon DEF Serving
  <1> QED BY <1>0, <1>4, <1>7, Zenon DEF Requested

\* A push that sends starts to wait for one request.
LEMMA RequestStarts ==
    ASSUME IInv, NEW c \in Client, SendMemory(c)
    PROVE  Requested
  <1> DEFINE p == push[c]
             q == [client |-> c, digest |-> SubSeq(p.plan, 1, p.at), stored |-> FALSE]
  <1>0. /\ push \in [Client -> Pushes] /\ reqs \subseteq Requests /\ Waiting /\ Serving /\ Nobody \notin Client
        /\ p \in Pushes /\ p.stage = "send" /\ p.plan \in Chain /\ p.at \in 1 .. Len(p.plan)
    BY ReplicaAssumption, Zenon DEF IInv, TypeOK, Waiting, Pushing, PushOK, SendMemory, Pushes
  <1>1. SubSeq(p.plan, 1, p.at) \in Digest
    <2> DEFINE d == SubSeq(p.plan, 1, p.at)
    <2>1. p.at \in 0 .. Len(p.plan) /\ p.at # 0
      BY <1>0, ChainSeq
    <2>2. d \in Chain /\ Len(d) = p.at
      BY <1>0, <2>1, Cut, Zenon
    <2> HIDE DEF d
    <2>3. d \in Digest
      BY <2>1, <2>2, ChainSeq, Zenon DEF Digest
    <2> QED BY <2>3, Zenon DEF d
  <1>2. reqs' = reqs \cup {q} /\ push' = [push EXCEPT ![c].stage = "wait"] /\ obj' = obj
    BY Zenon DEF SendMemory
  <1>3. /\ \A e \in Client : e # c => push'[e] = push[e]
        /\ push'[c].stage = "wait" /\ push'[c].plan = p.plan /\ push'[c].at = p.at
    BY <1>0, <1>2, Zenon DEF Pushes
  <1>4. \A r \in reqs : r.client # c
    BY <1>0, Zenon DEF Waiting
  <1>5. q.client = c /\ q.digest = SubSeq(p.plan, 1, p.at) /\ ~q.stored /\ q \in Requests
    BY <1>1, Zenon DEF Requests
  <1> HIDE DEF q, p
  <1>6. Waiting'
    BY <1>0, <1>2, <1>3, <1>5 DEF Waiting
  <1>7. ASSUME NEW r \in reqs' PROVE r = q \/ (r \in reqs /\ r.client # c /\ (r.client # Nobody => push'[r.client] = push[r.client]))
    BY <1>0, <1>2, <1>3, <1>4, Zenon DEF Requests
  <1>8. Serving'
    BY <1>0, <1>2, <1>3, <1>5, <1>7 DEF Serving
  <1> QED BY <1>0, <1>2, <1>5, <1>6, <1>8, Zenon DEF Requested

\* A stored request stays the one its push waits for.
LEMMA RequestStored ==
    ASSUME IInv, Stores, NEW q \in reqs, StoreMemory(q)
    PROVE  Requested
  <1> DEFINE s == [q EXCEPT !.stored = TRUE]
  <1>0. /\ push \in [Client -> Pushes] /\ reqs \subseteq Requests /\ Waiting /\ Serving /\ Server \in Replica
        /\ obj \in [Replica -> SUBSET Digest]
    BY Zenon DEF IInv, TypeOK, Waiting, Replica
  <1>1. reqs' = (reqs \ {q}) \cup {s} /\ push' = push /\ obj' = [obj EXCEPT ![Server] = @ \cup {q.digest}]
    BY Zenon DEF StoreMemory
  <1>2. s \in Requests /\ s.client = q.client /\ s.digest = q.digest
    BY <1>0, Zenon DEF Requests
  <1> HIDE DEF s
  <1>3. q.digest \in obj'[Server]
    BY <1>0, <1>1, Zenon
  <1>4. Waiting'
    <2>1. ASSUME NEW e \in Client PROVE (\E r \in reqs' : r.client = e) <=> (\E r \in reqs : r.client = e)
      BY <1>1, <1>2, Zenon
    <2> QED BY <1>0, <1>1, <2>1, Zenon DEF Waiting
  <1>5. ASSUME NEW r \in reqs' PROVE r = s \/ (r \in reqs /\ r # q)
    BY <1>1, Zenon
  <1>6. \A r \in reqs' : r.stored => r.digest \in obj'[Server]
    BY <1>0, <1>2, <1>3, <1>5, Zenon DEF Serving, Stores
  <1>7. ASSUME NEW r \in reqs', r.client # Nobody
        PROVE  /\ r.digest = SubSeq(push[r.client].plan, 1, push[r.client].at)
               /\ \A x \in reqs' : x.client = r.client => x = r
    BY <1>0, <1>2, <1>5, <1>7, Zenon DEF Serving
  <1>8. Serving'
    BY <1>1, <1>6, <1>7, Zenon DEF Serving
  <1> QED BY <1>0, <1>1, <1>2, <1>4, <1>8, Zenon DEF Requested

\* A push that dies leaves its request with nobody.
LEMMA RequestOrphaned ==
    ASSUME IInv, NEW c \in Client, PushStops(c)
    PROVE  Requested
  <1> DEFINE Orphan(q) == IF q.client = c THEN [q EXCEPT !.client = Nobody] ELSE q
  <1>0. push \in [Client -> Pushes] /\ reqs \subseteq Requests /\ Waiting /\ Serving /\ Nobody \notin Client
    BY ReplicaAssumption, Zenon DEF IInv, TypeOK, Waiting
  <1>1. reqs' = {Orphan(q) : q \in reqs} /\ push' = [push EXCEPT ![c] = NoPush] /\ obj' = obj
    BY Zenon DEF PushStops
  <1>2. /\ \A e \in Client : e # c => push'[e] = push[e]
        /\ push'[c].stage # "wait"
    BY <1>0, <1>1, Zenon DEF NoPush
  <1>3. ASSUME NEW q \in reqs
        PROVE  /\ Orphan(q) \in Requests /\ Orphan(q).digest = q.digest /\ Orphan(q).stored = q.stored
               /\ Orphan(q).client = IF q.client = c THEN Nobody ELSE q.client
               /\ q.client # c => Orphan(q) = q
    BY <1>0, Zenon DEF Requests
  <1> HIDE DEF Orphan
  <1>4. reqs' \subseteq Requests
    BY <1>1, <1>3, Zenon
  <1>5. ASSUME NEW r \in reqs', r.client # Nobody
        PROVE  r \in reqs /\ r.client # c /\ r.client \in Client
    <2>1. PICK q \in reqs : r = Orphan(q)
      BY <1>1, Zenon
    <2> QED BY <1>0, <1>3, <1>5, <2>1, Zenon DEF Requests
  <1>6. ASSUME NEW q \in reqs, q.client # c PROVE q \in reqs'
    BY <1>1, <1>3, <1>6, Zenon
  <1>7. ASSUME NEW e \in Client PROVE push'[e].stage = "wait" <=> \E r \in reqs' : r.client = e
    BY <1>0, <1>2, <1>5, <1>6, Zenon DEF Waiting
  <1>8. ASSUME NEW r \in reqs', r.stored PROVE r.digest \in obj'[Server]
    <2>1. PICK q \in reqs : r = Orphan(q)
      BY <1>1, Zenon
    <2> QED BY <1>0, <1>1, <1>3, <1>8, <2>1, Zenon DEF Serving
  <1>9. ASSUME NEW r \in reqs', r.client # Nobody
        PROVE  /\ r.digest = SubSeq(push'[r.client].plan, 1, push'[r.client].at)
               /\ \A x \in reqs' : x.client = r.client => x = r
    BY <1>0, <1>2, <1>5, <1>9, Zenon DEF Serving
  <1>10. Serving'
    BY <1>8, <1>9, Zenon DEF Serving
  <1>11. Waiting'
    BY <1>7, Zenon DEF Waiting
  <1> QED BY <1>4, <1>10, <1>11, Zenon DEF Requested

\* The steps of a push other than sending leave it in another stage.
LEMMA NotWaiting ==
    ASSUME NEW p \in Pushes
    PROVE  /\ \A n : Send(p, n).stage # "wait"
           /\ \A d : StartFrom(p, d).stage # "wait" /\ Begin(p, d).stage # "wait"
           /\ \A a : Answered(p, a).stage # "wait"
  <1>1. \A x \in PushStages : [p EXCEPT !.stage = x].stage = x
    BY Zenon DEF Pushes
  <1>2. \A n : Send(p, n).stage # "wait"
    BY Zenon DEF Send, Pushes
  <1>3. \A d : StartFrom(p, d).stage # "wait"
    BY <1>1, <1>2, Zenon DEF StartFrom, PushStages
  <1>4. \A d : Begin(p, d).stage # "wait"
    BY <1>2, <1>3, Zenon DEF Begin
  <1>5. Contended(p).stage # "wait"
    BY Zenon DEF Contended, Pushes
  <1>6. [p EXCEPT !.stage = IF p.restored THEN "failed" ELSE "restore"].stage # "wait"
    BY Zenon DEF Pushes
  <1>7. \A a : Answered(p, a).stage # "wait"
    BY <1>2, <1>5, <1>6, Zenon DEF Answered
  <1> QED BY <1>2, <1>3, <1>4, <1>7, Zenon

\* The empty push.
LEMMA PushRests == NoPush \in Pushes /\ NoPush.stage # "wait" /\ \A m \in Chain : PushOK(NoPush, m)
  <1>1. None \in Chain /\ 0 \in 0 .. MaxDepth /\ 0 \in 0 .. MaxReplans /\ \A m \in Chain : 0 <= Len(m)
    BY ChainSeq, BoundAssumption
  <1>2. NoPush \in Pushes
    BY <1>1, Zenon DEF NoPush, Pushes, PushStages
  <1>3. ASSUME NEW m \in Chain PROVE PushOK(NoPush, m)
    BY <1>1, Zenon DEF NoPush, PushOK
  <1> QED BY <1>2, <1>3, Zenon DEF NoPush

\* A push that moves without its request, whatever the step does to the server.
LEMMA PushTurns ==
    ASSUME IInv, Stores, Advanced, NEW c \in Client, NEW p \in Pushes, PushOK(p, Memory(Server)'),
           push' = [push EXCEPT ![c] = p], push[c].stage # "wait", p.stage # "wait", reqs' = reqs
    PROVE  Pushed /\ Requested
  BY PushMoves, RequestsStay, Zenon

\* Nothing happens to the pushes.
LEMMA PushesStay ==
    ASSUME IInv, Stores, Advanced, push' = push, reqs' = reqs
    PROVE  Pushed /\ Requested
  <1>1. Author \in Client /\ NoPush \in Pushes /\ PushOK(NoPush, Memory(Server)')
    BY ReplicaAssumption, PushRests, Zenon DEF Advanced
  <1> QED BY <1>1, PushMoves, RequestsStay, Zenon

\* A push begins from the server's pointer.
LEMMA SelectTurns ==
    ASSUME IInv, Stores, Advanced, NEW c \in Client, PushSelect(c)
    PROVE  Pushed /\ Requested
  <1> DEFINE m == Memory(Server)
  <1>0. /\ TypeOK /\ m \in Chain /\ Memory(Server)' = m /\ reqs' = reqs /\ push[c].stage # "wait"
        /\ Len(m) \in Nat /\ IsPrefix(m, m)
    BY MemoryChain, ChainSeq, PrefixOrder DEF IInv, PushSelect, Memory, Replica
  <1>1. att[c] \in Chain /\ att[c] # None
    BY <1>0, MemoryChain, Zenon DEF PushSelect, Memory, TypeOK, Replica
  <1>2. PICK listed \in BOOLEAN :
          LET p == [NoPush EXCEPT !.plan = att[c], !.listed = listed]
          IN  push' = [push EXCEPT ![c] = CASE m = p.plan -> [p EXCEPT !.stage = "done"]
                                            [] ~IsPrefix(m, p.plan) -> [p EXCEPT !.stage = "preflight"]
                                            [] att[Server] = Absent -> [p EXCEPT !.stage = "objects"]
                                            [] OTHER -> Begin(p, m)]
    BY Zenon DEF PushSelect
  <1> DEFINE p == [NoPush EXCEPT !.plan = att[c], !.listed = listed]
  <1>3. p \in Pushes
    BY <1>1, PushRests, Zenon DEF Pushes
  <1>4. p.plan = att[c] /\ p.replans = 0 /\ p.stage = "idle"
    BY Zenon DEF NoPush
  <1> DEFINE v == CASE m = p.plan -> [p EXCEPT !.stage = "done"]
                    [] ~IsPrefix(m, p.plan) -> [p EXCEPT !.stage = "preflight"]
                    [] att[Server] = Absent -> [p EXCEPT !.stage = "objects"]
                    [] OTHER -> Begin(p, m)
  <1>5. push' = [push EXCEPT ![c] = v]
    BY <1>2, Zenon
  <1> HIDE DEF p, m
  <1>6. \/ m = p.plan /\ v = [p EXCEPT !.stage = "done"]
        \/ v = [p EXCEPT !.stage = "preflight"]
        \/ v = [p EXCEPT !.stage = "objects"]
        \/ v = Begin(p, m)
    <2>1. CASE m = p.plan
      BY <1>0, <2>1
    <2>2. CASE ~IsPrefix(m, p.plan)
      BY <1>0, <2>2
    <2>3. CASE att[Server] = Absent /\ IsPrefix(m, p.plan) /\ m # p.plan
      BY <2>3, Zenon
    <2>4. CASE att[Server] # Absent /\ IsPrefix(m, p.plan) /\ m # p.plan
      BY <2>4, Zenon
    <2> QED BY <2>1, <2>2, <2>3, <2>4, Zenon
  <1> HIDE DEF v
  <1>7. ASSUME NEW x \in {"done", "preflight", "objects"}, push' = [push EXCEPT ![c] = [p EXCEPT !.stage = x]],
               x = "done" => m = p.plan
        PROVE  Pushed /\ Requested
    <2> DEFINE r == [p EXCEPT !.stage = x]
    <2>1. x \in PushStages
      BY Zenon DEF PushStages
    <2>2. r \in Pushes
      BY <1>3, <2>1, Zenon DEF Pushes
    <2>3. r.stage = x /\ r.plan = p.plan /\ r.replans = 0
      BY <1>3, <1>4, Zenon DEF Pushes
    <2> HIDE DEF r
    <2>4. PushOK(r, m)
      BY <1>0, <1>1, <1>4, <1>7, <2>3 DEF PushOK
    <2> QED BY <1>0, <1>7, <2>2, <2>3, <2>4, PushTurns, Zenon DEF r
  <1>8. ASSUME push' = [push EXCEPT ![c] = Begin(p, m)] PROVE Pushed /\ Requested
    <2>1. PushOK(Begin(p, m), m) /\ Begin(p, m) \in Pushes
      BY <1>0, <1>1, <1>3, <1>4, BeginOK, Zenon
    <2>2. Begin(p, m).stage # "wait"
      BY <1>3, NotWaiting, Zenon
    <2> QED BY <1>0, <1>8, <2>1, <2>2, PushTurns, Zenon
  <1> QED BY <1>5, <1>6, <1>7, <1>8, Zenon

\* A push that reads the server's pointer again, before or after it sends.
LEMMA ReadTurns ==
    ASSUME IInv, Stores, Advanced, NEW c \in Client, Preflight(c) \/ Reread(c)
    PROVE  Pushed /\ Requested
  <1> DEFINE m == Memory(Server)
             p == push[c]
             read == ReadMemoryPushStart(c)
             again == [p EXCEPT !.stage = "reread"]
  <1>0. /\ TypeOK /\ m \in Chain /\ Memory(Server)' = m /\ reqs' = reqs /\ p \in Pushes /\ PushOK(p, m)
        /\ p.stage \in {"preflight", "reread"}
    BY MemoryChain, Zenon DEF IInv, Preflight, Reread, Memory, Replica, TypeOK, Pushing
  <1>1. PushOK(read, m) /\ read \in Pushes
    BY <1>0, ReadOK, Zenon
  <1>2. read.stage # "wait"
    <2>1. \A n : Send(p, n).stage # "wait"
      BY <1>0, NotWaiting, Zenon
    <2>2. [p EXCEPT !.stage = "done", !.at = 0].stage # "wait" /\ [p EXCEPT !.stage = "diverged", !.at = 0].stage # "wait"
      BY <1>0, Zenon DEF Pushes
    <2> QED BY <2>1, <2>2, Zenon DEF ReadMemoryPushStart
  <1>3. again \in Pushes
    BY <1>0, Zenon DEF Pushes, PushStages
  <1>4. PushOK(again, m) /\ again.stage # "wait"
    BY <1>0, Zenon DEF PushOK, Pushes
  <1>5. push' = [push EXCEPT ![c] = read] \/ push' = [push EXCEPT ![c] = again]
    BY Zenon DEF Preflight, Reread
  <1> HIDE DEF read, again
  <1> QED BY <1>0, <1>1, <1>2, <1>3, <1>4, <1>5, PushTurns, Zenon

\* The upload of a snapshot without memory, then its memory.
LEMMA ObjectsTurns ==
    ASSUME IInv, Stores, Advanced, NEW c \in Client, PushObjects(c)
    PROVE  Pushed /\ Requested
  <1> DEFINE m == Memory(Server)
             p == push[c]
  <1>0. /\ TypeOK /\ m \in Chain /\ reqs' = reqs /\ p \in Pushes /\ PushOK(p, m) /\ p.stage = "objects"
        /\ push' = [push EXCEPT ![c] = Begin(p, None)] /\ None \in Chain /\ IsPrefix(None, m)
    BY MemoryChain, ChainSeq, PrefixOrder, Zenon DEF IInv, PushObjects, Replica, TypeOK, Pushing
  <1>1. Memory(Server)' = m
    <2>1. att' = [att EXCEPT ![Server] = m] /\ att \in [Replica -> Chain \cup {Absent}] /\ Server \in Replica
      BY <1>0, Zenon DEF PushObjects, TypeOK, Replica
    <2>2. att'[Server] = m /\ m # Absent
      BY <1>0, <2>1, ReplicaAssumption, Zenon
    <2> QED BY <2>2, Zenon DEF Memory
  <1>2. PushOK(Begin(p, None), m) /\ Begin(p, None) \in Pushes
    <2>1. p.plan # None /\ p.replans = 0
      BY <1>0, Zenon DEF PushOK
    <2> QED BY <1>0, <2>1, BeginOK, Zenon
  <1>3. Begin(p, None).stage # "wait"
    BY <1>0, NotWaiting, Zenon
  <1> QED BY <1>0, <1>1, <1>2, <1>3, PushTurns, Zenon

\* A restored archive leaves the root digest on the server, and the push after it.
LEMMA RestoreTurns ==
    ASSUME IInv, Stores, Advanced, NEW c \in Client, RestoreMemoryArchive(c)
    PROVE  Pushed /\ Requested
  <1> DEFINE m == Memory(Server)
             root == SubSeq(push[c].plan, 1, 1)
             p == [push[c] EXCEPT !.restored = TRUE, !.listed = TRUE, !.replans = 0]
  <1>0. /\ TypeOK /\ m \in Chain /\ reqs' = reqs /\ push[c] \in Pushes /\ push[c].stage = "restore"
        /\ push[c].plan \in Chain /\ push[c].plan # None /\ 0 \in 0 .. MaxReplans
    BY MemoryChain, BoundAssumption DEF IInv, RestoreMemoryArchive, Replica, TypeOK, Pushing, PushOK, Pushes
  <1>1. p \in Pushes
    BY <1>0, Zenon DEF Pushes
  <1>2. p.plan = push[c].plan /\ p.listed /\ p.replans = 0
    BY <1>0, Zenon DEF Pushes
  <1>3. root \in Chain
    <2>1. push[c].plan \in Digest
      BY <1>0, Zenon DEF Digest
    <2>2. 1 \in 0 .. Len(push[c].plan)
      BY <2>1, ChainSeq, BoundAssumption
    <2> QED BY <1>0, <2>2, Cut, Zenon
  <1>4. CASE m \in {None, root}
    <2>1. att' = [att EXCEPT ![Server] = root] /\ push' = [push EXCEPT ![c] = StartFrom(p, root)]
      BY <1>4, Zenon DEF RestoreMemoryArchive
    <2> HIDE DEF root, p
    <2>2. Memory(Server)' = root
      <3>1. att'[Server] = root /\ root # Absent
        BY <1>0, <1>3, <2>1, ReplicaAssumption, Zenon DEF TypeOK, Replica
      <3> QED BY <3>1, Zenon DEF Memory
    <2>3. IsPrefix(root, root) /\ Len(root) \in Nat
      BY <1>3, PrefixOrder, ChainSeq
    <2>4. PushOK(StartFrom(p, root), root) /\ StartFrom(p, root) \in Pushes
      BY <1>0, <1>1, <1>2, <1>3, <2>3, StartFromOK
    <2>5. StartFrom(p, root).stage # "wait"
      BY <1>1, NotWaiting, Zenon
    <2> QED BY <1>0, <2>1, <2>2, <2>4, <2>5, PushTurns, Zenon
  <1>5. CASE m \notin {None, root}
    <2> DEFINE f == [p EXCEPT !.stage = "failed"]
    <2>1. att' = att /\ push' = [push EXCEPT ![c] = f]
      BY <1>5, Zenon DEF RestoreMemoryArchive
    <2> HIDE DEF p
    <2>2. f \in Pushes
      BY <1>1, Zenon DEF Pushes, PushStages
    <2>3. f.stage = "failed" /\ f.plan = push[c].plan /\ f.replans = 0 /\ f.listed
      BY <1>1, <1>2, Zenon DEF Pushes
    <2>4. PushOK(f, m)
      BY <1>0, <2>3, ChainSeq DEF PushOK
    <2>5. Memory(Server)' = m
      BY <2>1, Zenon DEF Memory
    <2> HIDE DEF f
    <2> QED BY <1>0, <2>1, <2>2, <2>3, <2>4, <2>5, PushTurns, Zenon
  <1> QED BY <1>4, <1>5, Zenon

\* The answer to a request reaches the push that waits for it.
LEMMA AnswerTurns ==
    ASSUME IInv, Stores, Advanced, NEW q \in reqs, reqs' = reqs \ {q}, NEW a, push' = Answer(q, a),
           ASSUME NEW c \in Client, c = q.client, push[c] \in Pushes, PushOK(push[c], Memory(Server)),
                  push[c].stage = "wait", q.digest = SubSeq(push[c].plan, 1, push[c].at)
           PROVE  PushOK(Answered(push[c], a), Memory(Server)') /\ Answered(push[c], a) \in Pushes
    PROVE  Pushed /\ Requested
  <1>0. push \in [Client -> Pushes] /\ reqs \subseteq Requests /\ Waiting /\ Serving /\ Pushing
    BY Zenon DEF IInv, TypeOK, Waiting
  <1>1. CASE q.client = Nobody
    <2>1. push' = push
      BY <1>1, Zenon DEF Answer
    <2>2. Author \in Client /\ NoPush \in Pushes /\ PushOK(NoPush, Memory(Server)')
      BY ReplicaAssumption, PushRests, Zenon DEF Advanced
    <2> QED BY <1>1, <2>1, <2>2, PushMoves, RequestEnds, Zenon
  <1>2. CASE q.client # Nobody
    <2> DEFINE c == q.client
               p == Answered(push[c], a)
    <2>1. c \in Client /\ push[c] \in Pushes /\ push[c].stage = "wait"
      BY <1>0, <1>2, Zenon DEF Requests, Waiting
    <2>2. PushOK(push[c], Memory(Server)) /\ q.digest = SubSeq(push[c].plan, 1, push[c].at)
      BY <1>0, <1>2, <2>1, Zenon DEF Pushing, Serving
    <2>3. PushOK(p, Memory(Server)') /\ p \in Pushes
      BY <2>1, <2>2, Zenon
    <2>4. p.stage # "wait"
      BY <2>1, NotWaiting, Zenon
    <2>5. push' = [push EXCEPT ![c] = p]
      BY <1>2, Zenon DEF Answer
    <2> HIDE DEF p
    <2> QED BY <1>2, <2>1, <2>3, <2>4, <2>5, PushMoves, RequestEnds, Zenon
  <1> QED BY <1>1, <1>2, Zenon

\* The answer of the compare-and-swap.
LEMMA AttachTurns ==
    ASSUME IInv, Stores, Advanced, NEW q \in reqs, AttachMemory(q)
    PROVE  Pushed /\ Requested
  <1> DEFINE m == Memory(Server)
             d == q.digest
             outcome == CompareAndSwapSnapshotMemory(Server, Front(d), d)
  <1>0. TypeOK /\ m \in Chain /\ d \in Digest /\ d \in Chain /\ Server \in Replica /\ Front(d) \in Chain /\ Absent \notin Chain
    BY MemoryChain, ChainSeq, FrontCut, ReplicaAssumption, Zenon DEF IInv, TypeOK, Requests, Replica
  <1>1. reqs' = reqs \ {q} /\ push' = Answer(q, outcome) /\ att' = Attached(Server, outcome, d)
    BY Zenon DEF AttachMemory
  <1>2. \/ outcome = "missing"
        \/ outcome = "ok"
        \/ outcome = "conflict" /\ att[Server] # Absent /\ att[Server] # Front(d)
    BY DEF CompareAndSwapSnapshotMemory
  <1> HIDE DEF outcome
  <1>3. outcome = "ok" => Memory(Server)' = d
    <2>1. ASSUME outcome = "ok" PROVE Memory(Server)' = d
      <3>1. att'[Server] = d /\ d # Absent
        BY <1>0, <1>1, <2>1, Zenon DEF Attached, TypeOK
      <3> QED BY <3>1, Zenon DEF Memory
    <2> QED BY <2>1, Zenon
  <1>4. outcome # "ok" => Memory(Server)' = m
    BY <1>1, Zenon DEF Attached, Memory
  <1>5. ASSUME NEW c \in Client, c = q.client, push[c] \in Pushes, PushOK(push[c], m),
               push[c].stage = "wait", d = SubSeq(push[c].plan, 1, push[c].at)
        PROVE  PushOK(Answered(push[c], outcome), Memory(Server)') /\ Answered(push[c], outcome) \in Pushes
    <2>1. CASE outcome = "ok"
      BY <1>0, <1>3, <1>5, <2>1, AnsweredTaken, Zenon
    <2>2. CASE outcome = "missing"
      BY <1>0, <1>4, <1>5, <2>2, AnsweredMissing, Zenon
    <2>3. CASE outcome = "conflict" /\ att[Server] # Absent /\ att[Server] # Front(d)
      <3>1. m # Front(d)
        BY <2>3, Zenon DEF Memory
      <3>2. PushOK(Contended(push[c]), m) /\ Contended(push[c]) \in Pushes
        BY <1>0, <1>5, <3>1, AnsweredConflict, Zenon
      <3>3. Answered(push[c], "conflict") = Contended(push[c])
        BY Zenon DEF Answered
      <3> QED BY <1>4, <2>3, <3>2, <3>3, Zenon
    <2> QED BY <1>2, <2>1, <2>2, <2>3, Zenon
  <1> QED BY <1>1, <1>5, AnswerTurns, Zenon

\* Pushes and requests keep their types, what they know, and each other.
LEMMA PushesStep ==
    ASSUME IInv, Next, Stores, Advanced
    PROVE  Pushed /\ Requested
  <1>1. CASE push' = push /\ reqs' = reqs
    BY <1>1, PushesStay, Zenon
  <1>2. ASSUME NEW c \in Client, SendMemory(c) PROVE Pushed /\ Requested
    <2> DEFINE p == [push[c] EXCEPT !.stage = "wait"]
    <2>1. push[c] \in Pushes /\ PushOK(push[c], Memory(Server)) /\ push[c].stage = "send" /\ Memory(Server) \in Chain
      BY <1>2, MemoryChain, Zenon DEF IInv, TypeOK, Pushing, SendMemory, Replica
    <2>2. p \in Pushes
      BY <2>1, Zenon DEF Pushes, PushStages
    <2>3. PushOK(p, Memory(Server))
      BY <2>1, Zenon DEF PushOK, Pushes
    <2>4. push' = [push EXCEPT ![c] = p] /\ att' = att
      BY <1>2, Zenon DEF SendMemory
    <2>5. Memory(Server)' = Memory(Server)
      BY <2>4, Zenon DEF Memory
    <2> HIDE DEF p
    <2> QED BY <1>2, <2>2, <2>3, <2>4, <2>5, PushMoves, RequestStarts, Zenon
  <1>3. ASSUME NEW q \in reqs, StoreMemory(q) PROVE Pushed /\ Requested
    <2>1. Author \in Client /\ NoPush \in Pushes /\ PushOK(NoPush, Memory(Server)') /\ push' = push
      BY <1>3, ReplicaAssumption, PushRests, Zenon DEF Advanced, StoreMemory
    <2> QED BY <1>3, <2>1, PushMoves, RequestStored, Zenon
  <1>4. ASSUME NEW q \in reqs, StoreRefused(q) PROVE Pushed /\ Requested
    <2>1. reqs' = reqs \ {q} /\ push' = Answer(q, "missing") /\ Memory(Server)' = Memory(Server) /\ Memory(Server) \in Chain
      BY <1>4, MemoryChain, Zenon DEF StoreRefused, Memory, IInv, Replica
    <2> QED BY <2>1, AnsweredMissing, AnswerTurns, Zenon
  <1>5. ASSUME NEW c \in Client, PushEnds(c) PROVE Pushed /\ Requested
    <2>1. push' = [push EXCEPT ![c] = NoPush] /\ push[c].stage # "wait" /\ reqs' = reqs
      BY <1>5, Zenon DEF PushEnds
    <2> QED BY <2>1, PushRests, PushTurns, Zenon DEF Advanced
  <1>6. ASSUME NEW c \in Client, PushStops(c) PROVE Pushed /\ Requested
    <2>1. push' = [push EXCEPT ![c] = NoPush] /\ NoPush \in Pushes /\ PushOK(NoPush, Memory(Server)')
      BY <1>6, PushRests, Zenon DEF PushStops, Advanced
    <2> QED BY <1>6, <2>1, PushMoves, RequestOrphaned, Zenon
  <1>7. ASSUME NEW c \in Client,
               \/ \E b \in Body : Memorize(c, b)
               \/ MemorizeAttach(c) \/ MemorizeStops(c) \/ PullStep(c) \/ PullStops(c)
        PROVE  push' = push /\ reqs' = reqs
    BY <1>7, Zenon DEF Memorize, MemorizeAttach, MemorizeStops, PullStep, PullRead, PullCompare, PullMoved, PullStore, PullAttach,
                PullStops
  <1>8. CASE Collect
    BY <1>1, <1>8, Zenon DEF Collect
  <1>9. ASSUME NEW c \in Client, PushStep(c) PROVE Pushed /\ Requested
    BY <1>2, <1>5, <1>9, SelectTurns, ReadTurns, ObjectsTurns, RestoreTurns, Zenon DEF PushStep
  <1>10. ASSUME NEW q \in reqs, Serve(q) PROVE Pushed /\ Requested
    BY <1>3, <1>4, <1>10, AttachTurns, Zenon DEF Serve
  <1> QED BY <1>1, <1>6, <1>7, <1>8, <1>9, <1>10, Zenon DEF Next

-----------------------------------------------------------------------------
(* The theorems. *)

\* The author alone has the snapshot, and nobody has memory.
LEMMA InitOK == Init => IInv
  <1> SUFFICES ASSUME Init PROVE IInv
    BY Zenon
  <1>0. /\ None \in Chain /\ Len(None) = 0 /\ Ancestry(None) = {} /\ 0 \in 0 .. MaxFaults /\ Absent \notin Chain
        /\ Server \in Replica /\ Client \subseteq Replica /\ Nobody \notin Client
    BY ChainSeq, BoundAssumption, ReplicaAssumption DEF Ancestry, Replica
  <1>1. att \in [Replica -> Chain \cup {Absent}] /\ obj \in [Replica -> SUBSET Digest] /\ mem \in [Client -> Chain]
    BY <1>0, Zenon DEF Init
  <1>2. push \in [Client -> Pushes] /\ pull \in [Client -> Pulls] /\ reqs \subseteq Requests /\ faults \in 0 .. MaxFaults
    BY <1>0, PushRests, PullRests, Zenon DEF Init
  <1>3. \A c \in Client : push[c].stage = "wait" <=> \E q \in reqs : q.client = c
    BY PushRests, Zenon DEF Init
  <1>4. \A r \in Replica : Memory(r) = None
    BY <1>0, Zenon DEF Init, Memory
  <1>5. Pushing
    BY <1>0, <1>4, PushRests, Zenon DEF Pushing, Init
  <1>6. Serving
    BY Zenon DEF Serving, Init
  <1>7. Pulling
    BY PullRests, Zenon DEF Pulling, Init
  <1>8. Stocked
    BY <1>0, Zenon DEF Stocked, Init
  <1>9. ChainComplete
    BY <1>0, <1>4, Zenon DEF ChainComplete
  <1>10. TypeOK
    BY <1>1, <1>2, <1>3, Zenon DEF TypeOK
  <1> QED BY <1>5, <1>6, <1>7, <1>8, <1>9, <1>10, Zenon DEF IInv

\* Every step keeps the invariant and moves the pointers forward only.
LEMMA StepOK ==
    ASSUME IInv, Next
    PROVE  IInv' /\ \A r \in Replica : Moved(r)
  <1>1. Stores
    BY ObjStep, Zenon
  <1>2. att' \in [Replica -> Chain \cup {Absent}] /\ \A r \in Replica : Moved(r)
    BY AttStep, Zenon
  <1>3. Advanced
    <2>1. Server \in Replica /\ att'[Server] \in Chain \cup {Absent} /\ None \in Chain
      BY <1>2, ChainSeq, Zenon DEF Replica
    <2>2. Memory(Server)' \in Chain
      BY <2>1, Zenon DEF Memory
    <2> QED BY <1>2, <2>1, <2>2, Zenon DEF Advanced, Moved
  <1>4. ChainComplete'
    BY <1>1, ChainStep, Zenon
  <1>5. mem' \in [Client -> Chain] /\ faults' \in 0 .. MaxFaults /\ \A c \in Client : Ancestry(mem'[c]) \subseteq obj'[c]
    BY <1>1, MemStep, Zenon
  <1>6. pull' \in [Client -> Pulls] /\ Pulling'
    BY <1>1, PullsStep, Zenon
  <1>7. Pushed /\ Requested
    BY <1>1, <1>3, PushesStep, Zenon
  <1>8. TypeOK'
    BY <1>1, <1>2, <1>5, <1>6, <1>7, Zenon DEF TypeOK, Stores, Pushed, Requested, Waiting
  <1>9. Stocked'
    BY <1>1, <1>5, Zenon DEF Stocked, Stores
  <1>10. Pushing' /\ Serving'
    BY <1>7, Zenon DEF Pushed, Requested
  <1> QED BY <1>2, <1>4, <1>6, <1>8, <1>9, <1>10, Zenon DEF IInv

\* Nothing changes when nothing happens.
LEMMA Stutter == IInv /\ UNCHANGED vars => IInv'
  <1> SUFFICES ASSUME IInv, UNCHANGED vars PROVE IInv'
    BY Zenon
  <1>0. att' = att /\ obj' = obj /\ mem' = mem /\ push' = push /\ pull' = pull /\ reqs' = reqs /\ faults' = faults
    BY Zenon DEF vars
  <1>1. Memory(Server)' = Memory(Server) /\ \A r \in Replica : Memory(r)' = Memory(r)
    BY <1>0, Zenon DEF Memory
  <1>2. TypeOK'
    BY <1>0, Zenon DEF IInv, TypeOK
  <1>3. Pushing'
    BY <1>0, <1>1, Zenon DEF IInv, Pushing
  <1>4. Serving' /\ Pulling' /\ Stocked'
    BY <1>0, Zenon DEF IInv, Serving, Pulling, Stocked
  <1>5. ChainComplete'
    BY <1>0, <1>1, Zenon DEF IInv, ChainComplete
  <1> QED BY <1>2, <1>3, <1>4, <1>5, Zenon DEF IInv

\* The inductive invariant holds in every state of the replicated memory.
THEOREM Invariance == Spec => []IInv
  <1>1. IInv /\ [Next]_vars => IInv'
    BY StepOK, Stutter, Zenon
  <1> QED BY <1>1, InitOK, PTL DEF Spec

\* The state keeps its type, a push replans within the limit, and it waits
\* exactly while its request is being served.
THEOREM TypeCorrect == Spec => []TypeOK
  <1>1. IInv => TypeOK
    BY Zenon DEF IInv
  <1> QED BY <1>1, Invariance, PTL

\* Whatever dies half way, an attached memory has its whole chain stored next
\* to it (SaveMemoryDigest before CompareAndSwapSnapshotMemory on every path).
THEOREM ChainsComplete == Spec => []ChainComplete
  <1>1. IInv => ChainComplete
    BY Zenon DEF IInv
  <1> QED BY <1>1, Invariance, PTL

\* No replica's memory pointer ever rewinds or changes branch, and a snapshot
\* with memory is never collected.
THEOREM PointersAdvance == Spec => OnlyAdvances
  <1>1. IInv /\ [Next]_vars =>
            [\A r \in Replica :
               /\ IsPrefix(Memory(r), Memory(r)')
               /\ att'[r] = Absent => Memory(r) = None]_vars
    BY StepOK, Zenon DEF Moved
  <1> QED BY <1>1, Invariance, PTL DEF Spec, OnlyAdvances

\* A push that reports success has published everything it selected.
THEOREM SuccessIsPublished == Spec => []DoneMeansPublished
  <1>1. IInv => DoneMeansPublished
    BY Zenon DEF IInv, Pushing, PushOK, DoneMeansPublished
  <1> QED BY <1>1, Invariance, PTL

\* A push reports divergence only at a real fork, and contention only after
\* the server advanced more often than the push may replan.
THEOREM ConflictIsReal == Spec => []ForkIsReal
  <1>1. IInv => ForkIsReal
    BY Zenon DEF IInv, Pushing, PushOK, ForkIsReal
  <1> QED BY <1>1, Invariance, PTL

=============================================================================
