-------------------------- MODULE VodLists_proofs --------------------------
(***************************************************************************)
(* The linked lists of the VOD server are sequences of nodes, whatever the *)
(* requests and however many clients and nodes there are: the invariant    *)
(* names the sequence of every context, and every request is shown to make *)
(* of it the sequence that the pages expect.  Vod_proofs makes theorems of *)
(* it.                                                                     *)
(***************************************************************************)
EXTENDS VodLists, DataLemmas, FiniteSetTheorems, TLAPS

(* The node at place i of a sequence, Null beyond its end.                 *)
At(s, i) == IF i \in 1 .. Len(s) THEN s[i] ELSE Null

In(s, n) == \E i \in 1 .. Len(s) : s[i] = n

Distinct(s) == \A i, j \in 1 .. Len(s) : s[i] = s[j] => i = j

(* From hdr on, the heap nx leads through the nodes of s and no others.    *)
Chain(nx, hdr, s) ==
    /\ hdr = At(s, 1)
    /\ \A i \in 1 .. Len(s) : nx[s[i]] = At(s, i + 1)

(* The list of context k is the sequence p[k]: the contexts cl share no    *)
(* node, and the nodes of U are all in some list.                          *)
Lists(cl, nx, U, p) ==
    /\ p \in [DOMAIN cl -> Seq(Nodes)]
    /\ \A k \in DOMAIN cl : Chain(nx, cl[k].playlist, p[k]) /\ Distinct(p[k])
    /\ \A k, j \in DOMAIN cl : \A n : In(p[k], n) /\ In(p[j], n) => k = j
    /\ \A n : n \in U <=> \E k \in DOMAIN cl : In(p[k], n)

Ctx == [ip : Clients, playlist : Nodes \cup {Null},
        nextaction : Commands \cup {0}]

(* Contexts that have all been asked for, each by a client of its own.     *)
Told(cl) ==
    /\ cl \in Seq(Ctx)
    /\ \A k, j \in DOMAIN cl : cl[k].ip = cl[j].ip => k = j

Heap ==
    /\ Used \subseteq Nodes /\ DOMAIN nxt = Used
    /\ \A n \in Used : data[n] \in Clips
    /\ listcount = Cardinality(Used) /\ down \in BOOLEAN

ListsInv ==
    /\ ctxs = <<NewCtx(NoIp)>> \/ Told(ctxs)
    /\ Heap
    /\ \E p : Lists(ctxs, nxt, Used, p)

(* The clips of the nodes of s.                                            *)
Content(dat, s) == [i \in 1 .. Len(s) |-> dat[s[i]]]

(* A sequence with n put last, and with the place k moved to the front.    *)
Put(s, n) == Append(s, n)

ToFront(s, k) == <<s[k]>> \o RemoveAt(s, k)

(* The clip of node n is v.                                                *)
Holds(dat, n, v) == dat[n] = v

(* The clips of the nodes of s are all in T.                               *)
Fills(dat, s, T) == Content(dat, s) \in [1 .. Len(s) -> T]

(* The queue and the pending command of the client c.                      *)
Own(cl, c) == {k \in DOMAIN cl : cl[k].ip = c}

Mine(cl, c) == CHOOSE k \in Own(cl, c) : TRUE

QueueIn(cl, dat, p, c) ==
    IF Own(cl, c) = {} THEN <<>> ELSE Content(dat, p[Mine(cl, c)])

PendingIn(cl, c) ==
    IF Own(cl, c) = {} THEN 0 ELSE cl[Mine(cl, c)].nextaction

(* x is the context in which a request of c is served, q the lists then:   *)
(* what the clients see is what they saw before it was looked for.         *)
AtWork(x, c, q) ==
    /\ x = [list |-> x.list, at |-> x.at]
    /\ Told(x.list) /\ x.at \in DOMAIN x.list /\ x.list[x.at].ip = c
    /\ x.list[x.at].nextaction = PendingOf(c)
    /\ Lists(x.list, nxt, Used, q)
    /\ Content(data, q[x.at]) = QueueOf(c)
    /\ \A d \in Clients : /\ QueueIn(x.list, data, q, d) = QueueOf(d)
                         /\ PendingIn(x.list, d) = PendingOf(d)

(* A step that leaves the heap in order, gives c the queue and the pending *)
(* command named, and leaves those of the others.                          *)
Moves(c, queue, pending) ==
    /\ Told(ctxs')
    /\ \E q : /\ Lists(ctxs', nxt', Used', q)
             /\ \A d \in Clients :
                   QueueIn(ctxs', data', q, d) =
                      IF d = c THEN queue ELSE QueueOf(d)
    /\ \A d \in Clients :
          PendingIn(ctxs', d) = IF d = c THEN pending ELSE PendingOf(d)

(* The nodes of the list old are exchanged for those of s, each one of old *)
(* or free, and all others are left alone.                                 *)
Exchanged(old, s) ==
    /\ \A n : In(s, n) => In(old, n) \/ n \notin Used
    /\ \A n \in Used : ~In(old, n) => nxt'[n] = nxt[n] /\ data'[n] = data[n]
    /\ \A n : n \in Used' <=> In(s, n) \/ (n \in Used /\ ~In(old, n))

(* In the heap nx the node before node k of s leads past it.               *)
PassesBy(nx, s, k) ==
    \A i \in 1 .. Len(s) : i # k =>
        nx[s[i]] = IF i + 1 = k THEN At(s, k + 1) ELSE nxt[s[i]]

(* The nodes of s, but for node k, keep their clips.                       *)
SameBut(dat, dat2, s, k) ==
    \A i \in 1 .. Len(s) : i # k => dat2[s[i]] = dat[s[i]]

-----------------------------------------------------------------------------
(* The recursive definition of NodeAt follows the chain: the place in the  *)
(* sequence is a solution of it, and the least index at which another      *)
(* solution differed would have one below it that does.                    *)
LEMMA NodeAtChain ==
    ASSUME NEW s \in Seq(Nodes), NEW hdr, Chain(nxt, hdr, s), NEW i \in Nat
    PROVE  NodeAt(hdr, i) = At(s, i + 1)
<1> DEFINE good == [j \in 0 .. i |-> At(s, j + 1)]
           Solves(f) == f = [j \in 0 .. i |->
                               IF j = 0 THEN hdr ELSE Step(f[j - 1])]
<1>1. Len(s) \in Nat /\ \A j \in 1 .. Len(s) : s[j] \in Nodes
  BY LenProperties, ElementOfSeq
<1>2. \A j \in 0 .. i : j # 0 => Step(At(s, j)) = At(s, j + 1)
  <2> SUFFICES ASSUME NEW j \in 1 .. i
               PROVE  Step(At(s, j)) = At(s, j + 1)
    OBVIOUS
  <2>1. CASE j \in 1 .. Len(s)
    <3>1. At(s, j) = s[j] /\ s[j] # Null
      BY <2>1, <1>1 DEF At, Nodes, Null
    <3>2. nxt[s[j]] = At(s, j + 1)
      BY <2>1 DEF Chain
    <3> QED BY <3>1, <3>2 DEF Step
  <2>2. CASE j \notin 1 .. Len(s)
    <3>1. j + 1 \notin 1 .. Len(s)
      BY <2>2, <1>1
    <3> QED BY <3>1, <2>2 DEF At, Step
  <2> QED BY <2>1, <2>2
<1>3. Solves(good)
  <2>1. ASSUME NEW j \in 0 .. i
        PROVE  At(s, j + 1) = IF j = 0 THEN hdr ELSE Step(good[j - 1])
    <3>1. CASE j = 0
      BY <3>1 DEF Chain
    <3>2. CASE j # 0
      <4>1. j - 1 \in 0 .. i /\ (j - 1) + 1 = j
        BY <3>2
      <4>2. good[j - 1] = At(s, j)
        BY <4>1
      <4> HIDE DEF good
      <4> QED BY <4>2, <3>2, <1>2
    <3> QED BY <3>1, <3>2
  <2> QED BY <2>1
<1> DEFINE at == CHOOSE f : Solves(f)
<1>4. NodeAt(hdr, i) = at[i]
  BY DEF NodeAt
<1>5. Solves(at)
  <2> HIDE DEF Solves, good
  <2> QED BY <1>3
<1> HIDE DEF at
<1>6. \A j \in 0 .. i : at[j] = IF j = 0 THEN hdr ELSE Step(at[j - 1])
  BY <1>5
<1> DEFINE wrong == {j \in 0 .. i : at[j] # At(s, j + 1)}
<1>7. wrong = {}
  <2> SUFFICES ASSUME wrong # {} PROVE FALSE
    OBVIOUS
  <2>1. wrong \subseteq Nat
    OBVIOUS
  <2>2. PICK j \in wrong : \A m \in wrong : j <= m
    <3> HIDE DEF wrong
    <3> QED BY <2>1, HasLeast
  <2>3. j # 0
    BY <2>2, <1>6 DEF Chain
  <2>4. j - 1 \in 0 .. i /\ (j - 1) + 1 = j /\ ~(j <= j - 1)
    BY <2>3
  <2>5. at[j - 1] = At(s, j)
    BY <2>2, <2>4
  <2> QED BY <2>2, <2>3, <2>5, <1>2, <1>6
<1> QED BY <1>4, <1>7

(* A sequence of distinct nodes is no longer than the heap.                *)
LEMMA ChainFits ==
    ASSUME NEW s \in Seq(Nodes), Distinct(s), MaxNodesAssumption
    PROVE  Len(s) \in 0 .. MaxNodes
<1>1. MaxNodes \in Nat
  BY DEF MaxNodesAssumption
<1>2. s \in [1 .. Len(s) -> Nodes] /\ Len(s) \in Nat
  BY LenProperties
<1>3. s \in Injection(1 .. Len(s), Nodes)
  BY <1>2 DEF Distinct, Injection, IsInjective
<1>4. IsFiniteSet(Nodes) /\ Cardinality(Nodes) = MaxNodes
  <2>1. /\ IsFiniteSet(1 .. MaxNodes)
        /\ Cardinality(1 .. MaxNodes) = IF 1 > MaxNodes THEN 0
                                        ELSE MaxNodes - 1 + 1
    BY <1>1, FS_Interval
  <2> QED BY <2>1, <1>1 DEF Nodes
<1>5. Cardinality(1 .. Len(s)) = Len(s)
  <2>1. Cardinality(1 .. Len(s)) = IF 1 > Len(s) THEN 0 ELSE Len(s) - 1 + 1
    BY <1>2, FS_Interval
  <2> QED BY <2>1, <1>2
<1>6. Cardinality(1 .. Len(s)) <= Cardinality(Nodes)
  BY <1>3, <1>4, FS_Injection
<1> QED BY <1>1, <1>2, <1>4, <1>5, <1>6

(* What can be reached from the first node of a chain are its nodes, and   *)
(* the end of it is the last.                                              *)
LEMMA ReachChain ==
    ASSUME NEW s \in Seq(Nodes), NEW hdr, Chain(nxt, hdr, s), Distinct(s),
           MaxNodesAssumption
    PROVE  /\ \A n : n \in Reach(hdr) <=> In(s, n)
           /\ Cardinality(Reach(hdr)) = Len(s)
           /\ s # <<>> => EndOf(hdr) = s[Len(s)]
<1>1. MaxNodes \in Nat /\ Len(s) \in 0 .. MaxNodes
  BY ChainFits DEF MaxNodesAssumption
<1>2. \A i \in 0 .. MaxNodes : NodeAt(hdr, i) = At(s, i + 1)
  BY <1>1, NodeAtChain
<1>3. \A i \in 1 .. Len(s) : s[i] \in Nodes /\ s[i] # Null
  BY ElementOfSeq DEF Nodes, Null
<1>4. Reach(hdr) = {At(s, i + 1) : i \in 0 .. MaxNodes} \ {Null}
  BY <1>2 DEF Reach
<1>5. \A n : n \in Reach(hdr) => In(s, n)
  BY <1>4 DEF At, In
<1>6. ASSUME NEW i \in 1 .. Len(s) PROVE s[i] \in Reach(hdr)
  <2>1. i - 1 \in 0 .. MaxNodes /\ (i - 1) + 1 = i
    BY <1>1
  <2>2. At(s, (i - 1) + 1) = s[i]
    BY <2>1 DEF At
  <2> QED BY <2>1, <2>2, <1>3, <1>4
<1>7. \A n : n \in Reach(hdr) <=> In(s, n)
  BY <1>5, <1>6 DEF In
<1>8. Cardinality(Reach(hdr)) = Len(s)
  <2>1. s \in [1 .. Len(s) -> Reach(hdr)]
    BY <1>6, LenProperties
  <2>2. s \in Injection(1 .. Len(s), Reach(hdr))
    BY <2>1 DEF Distinct, Injection, IsInjective
  <2>3. s \in Surjection(1 .. Len(s), Reach(hdr))
    BY <2>1, <1>7 DEF In, Surjection
  <2>4. ExistsBijection(1 .. Len(s), Reach(hdr))
    BY <2>2, <2>3 DEF ExistsBijection, Bijection
  <2> QED BY <2>4, <1>1, FS_CountingElements
<1>9. ASSUME s # <<>> PROVE EndOf(hdr) = s[Len(s)]
  <2>1. Len(s) \in 1 .. Len(s)
    BY <1>1, <1>9, EmptySeq
  <2>2. nxt[s[Len(s)]] = Null
    <3>1. Len(s) + 1 \notin 1 .. Len(s)
      BY <1>1
    <3> QED BY <3>1, <2>1 DEF Chain, At
  <2>3. \A i \in 1 .. Len(s) : nxt[s[i]] = Null => i = Len(s)
    <3> SUFFICES ASSUME NEW i \in 1 .. Len(s), i # Len(s)
                 PROVE  nxt[s[i]] # Null
      OBVIOUS
    <3>1. i + 1 \in 1 .. Len(s)
      BY <1>1
    <3> QED BY <3>1, <1>3 DEF Chain, At
  <2>4. s[Len(s)] \in Reach(hdr)
    BY <2>1, <1>6
  <2>5. \A n \in Reach(hdr) : nxt[n] = Null => n = s[Len(s)]
    BY <1>7, <2>3 DEF In
  <2> QED BY <2>2, <2>4, <2>5 DEF EndOf
<1> QED BY <1>7, <1>8, <1>9

(* The clips of a list, as the code reads them off.                        *)
LEMMA QueueIsIn ==
    ASSUME NEW p, Lists(ctxs, nxt, Used, p), MaxNodesAssumption, NEW c
    PROVE  /\ QueueOf(c) = QueueIn(ctxs, data, p, c)
           /\ PendingOf(c) = PendingIn(ctxs, c)
<1>1. OwnCtx(c) = Own(ctxs, c)
  BY DEF OwnCtx, Own
<1>2. ASSUME NEW k \in DOMAIN ctxs
      PROVE  ListOf(ctxs[k].playlist) = Content(data, p[k])
  <2>1. /\ p[k] \in Seq(Nodes) /\ Distinct(p[k])
        /\ Chain(nxt, ctxs[k].playlist, p[k])
    BY DEF Lists
  <2> DEFINE s == p[k]
             hdr == ctxs[k].playlist
  <2>2. s \in Seq(Nodes) /\ Distinct(s) /\ Chain(nxt, hdr, s)
    BY <2>1
  <2> HIDE DEF s, hdr
  <2>3. Cardinality(Reach(hdr)) = Len(s) /\ Len(s) \in Nat
    BY <2>2, ReachChain, LenProperties
  <2>4. ASSUME NEW i \in 1 .. Len(s) PROVE NodeAt(hdr, i - 1) = s[i]
    <3>1. i - 1 \in Nat /\ (i - 1) + 1 = i
      BY <2>3
    <3>2. NodeAt(hdr, i - 1) = At(s, (i - 1) + 1)
      BY <3>1, <2>2, NodeAtChain
    <3> QED BY <3>1, <3>2 DEF At
  <2>5. ListOf(hdr) = Content(data, s)
    BY <2>3, <2>4 DEF ListOf, Content
  <2> QED BY <2>5 DEF s, hdr
<1>3. Own(ctxs, c) # {} => Mine(ctxs, c) \in DOMAIN ctxs
  BY DEF Own, Mine
<1>4. /\ QueueOf(c) = IF Own(ctxs, c) = {} THEN <<>>
                     ELSE ListOf(ctxs[Mine(ctxs, c)].playlist)
      /\ PendingOf(c) = IF Own(ctxs, c) = {} THEN 0
                       ELSE ctxs[Mine(ctxs, c)].nextaction
  BY <1>1 DEF QueueOf, PendingOf, Mine
<1> QED BY <1>2, <1>3, <1>4 DEF QueueIn, PendingIn

(* The list of one context is replaced by s, made of its own nodes and of  *)
(* nodes that were free.                                                   *)
LEMMA ReplaceList ==
    ASSUME NEW cl, NEW nx, NEW U, NEW p, Lists(cl, nx, U, p),
           NEW k \in DOMAIN cl, NEW s \in Seq(Nodes), Distinct(s),
           NEW cl2, NEW nx2, NEW U2, DOMAIN cl2 = DOMAIN cl,
           \A j \in DOMAIN cl : j # k => cl2[j].playlist = cl[j].playlist,
           Chain(nx2, cl2[k].playlist, s),
           \A n : In(s, n) => In(p[k], n) \/ n \notin U,
           \A n \in U : ~In(p[k], n) => nx2[n] = nx[n],
           \A n : n \in U2 <=> In(s, n) \/ (n \in U /\ ~In(p[k], n))
    PROVE  Lists(cl2, nx2, U2, [p EXCEPT ![k] = s])
<1> DEFINE q == [p EXCEPT ![k] = s]
<1>1. /\ q \in [DOMAIN cl2 -> Seq(Nodes)]
      /\ q[k] = s /\ \A j \in DOMAIN cl : j # k => q[j] = p[j]
  BY DEF Lists
<1> HIDE DEF q
<1>2. \A j \in DOMAIN cl : \A n : In(p[j], n) => n \in U
  BY DEF Lists
<1>3. \A j \in DOMAIN cl : \A n : j # k /\ In(p[j], n) => ~In(p[k], n) /\ ~In(s, n)
  BY <1>2 DEF Lists
<1>4. ASSUME NEW j \in DOMAIN cl
      PROVE  Chain(nx2, cl2[j].playlist, q[j]) /\ Distinct(q[j])
  <2>1. CASE j = k
    BY <2>1, <1>1
  <2>2. CASE j # k
    <3>1. Chain(nx, cl[j].playlist, p[j]) /\ Distinct(p[j]) /\ q[j] = p[j]
      BY <2>2, <1>1 DEF Lists
    <3>2. \A i \in 1 .. Len(p[j]) : In(p[j], p[j][i])
      BY DEF In
    <3>3. \A i \in 1 .. Len(p[j]) : nx2[p[j][i]] = nx[p[j][i]]
      BY <3>2, <2>2, <1>2, <1>3
    <3>4. cl2[j].playlist = cl[j].playlist
      BY <2>2
    <3> QED BY <3>1, <3>3, <3>4 DEF Chain
  <2> QED BY <2>1, <2>2
<1>5. \A i, j \in DOMAIN cl : \A n : In(q[i], n) /\ In(q[j], n) => i = j
  <2> SUFFICES ASSUME NEW i \in DOMAIN cl, NEW j \in DOMAIN cl, NEW n,
                      In(q[i], n), In(q[j], n), i # j
               PROVE  FALSE
    OBVIOUS
  <2>1. CASE i = k
    <3>1. In(s, n) /\ In(p[j], n)
      BY <2>1, <1>1
    <3> QED BY <3>1, <2>1, <1>3
  <2>2. CASE j = k
    <3>1. In(s, n) /\ In(p[i], n)
      BY <2>2, <1>1
    <3> QED BY <3>1, <2>2, <1>3
  <2>3. CASE i # k /\ j # k
    <3>1. In(p[i], n) /\ In(p[j], n)
      BY <2>3, <1>1
    <3> QED BY <3>1 DEF Lists
  <2> QED BY <2>1, <2>2, <2>3
<1>6. ASSUME NEW n PROVE n \in U2 <=> \E j \in DOMAIN cl : In(q[j], n)
  <2>1. ASSUME NEW j \in DOMAIN cl, In(q[j], n) PROVE n \in U2
    <3>1. CASE j = k
      BY <3>1, <2>1, <1>1
    <3>2. CASE j # k
      <4>1. In(p[j], n)
        BY <3>2, <2>1, <1>1
      <4> QED BY <4>1, <3>2, <1>2, <1>3
    <3> QED BY <3>1, <3>2
  <2>2. ASSUME n \in U2 PROVE \E j \in DOMAIN cl : In(q[j], n)
    <3>1. CASE In(s, n)
      BY <3>1, <1>1
    <3>2. CASE n \in U /\ ~In(p[k], n)
      <4>1. PICK j \in DOMAIN cl : In(p[j], n)
        BY <3>2 DEF Lists
      <4>2. j # k
        BY <4>1, <3>2
      <4> QED BY <4>1, <4>2, <1>1
    <3> QED BY <3>1, <3>2, <2>2
  <2> QED BY <2>1, <2>2
<1> QED BY <1>1, <1>4, <1>5, <1>6 DEF Lists, q

(* A client has one context at most.                                       *)
LEMMA OwnIs ==
    ASSUME NEW cl, Told(cl), NEW k \in DOMAIN cl, NEW c, cl[k].ip = c
    PROVE  Own(cl, c) = {k} /\ Mine(cl, c) = k
<1>1. Own(cl, c) = {k}
  BY DEF Own, Told
<1> QED BY <1>1 DEF Mine

(* GetVodContext, no client has been served: the static context is c's.    *)
LEMMA FirstContext ==
    ASSUME ctxs = <<NewCtx(NoIp)>>, NoIpAssumption, MaxNodesAssumption,
           NEW c \in Clients, NEW p, Lists(ctxs, nxt, Used, p)
    PROVE  AtWork(Context(c), c, p)
<1>1. DOMAIN ctxs = {1} /\ ctxs[1] = NewCtx(NoIp)
  OBVIOUS
<1>2. ctxs[1].ip = NoIp /\ ctxs[1].playlist = Null /\ ctxs[1].nextaction = 0
  BY <1>1 DEF NewCtx
<1> DEFINE own == {k \in DOMAIN ctxs : ctxs[k].ip \in {c, NoIp}}
           list == [ctxs EXCEPT ![1].ip = c]
           x == Context(c)
<1>3. own = {1}
  BY <1>1, <1>2
<1>4. (CHOOSE j \in own : \A i \in own : j <= i) = 1
  <2> HIDE DEF own
  <2>1. 1 \in own /\ \A i \in own : 1 <= i
    BY <1>3
  <2> QED BY <1>3, <2>1
<1>5. x = [list |-> list, at |-> 1]
  BY <1>3, <1>4 DEF Context
<1> HIDE DEF x, own
<1>6. DOMAIN list = {1} /\ list[1] = NewCtx(c)
  <2>1. [NewCtx(NoIp) EXCEPT !.ip = c] = NewCtx(c)
    BY DEF NewCtx
  <2> QED BY <1>1, <2>1
<1>7. NewCtx(c) \in Ctx
  BY DEF NewCtx, Ctx
<1>8. list \in Seq(Ctx)
  <2>1. list = <<NewCtx(c)>>
    <3>1. list = [ctxs EXCEPT ![1] = NewCtx(c)]
      <4>1. [NewCtx(NoIp) EXCEPT !.ip = c] = NewCtx(c)
        BY DEF NewCtx
      <4> QED BY <1>1, <4>1
    <3> HIDE DEF list
    <3> QED BY <3>1
  <2> HIDE DEF list
  <2> QED BY <2>1, <1>7
<1> HIDE DEF list
<1>9. /\ list[1].ip = c /\ list[1].playlist = Null /\ list[1].nextaction = 0
  BY <1>6 DEF NewCtx
<1>10. Told(list)
  BY <1>6, <1>8 DEF Told
<1>11. Lists(list, nxt, Used, p)
  BY <1>1, <1>2, <1>6, <1>9 DEF Lists
<1>12. p[1] = <<>>
  <2>1. p[1] \in Seq(Nodes) /\ At(p[1], 1) = Null
    BY <1>1, <1>2 DEF Lists, Chain
  <2>2. Len(p[1]) \in Nat /\ \A i \in 1 .. Len(p[1]) : p[1][i] # Null
    BY <2>1, LenProperties, ElementOfSeq DEF Nodes, Null
  <2>3. ~(1 \in 1 .. Len(p[1]))
    BY <2>1, <2>2 DEF At
  <2>4. Len(p[1]) = 0
    BY <2>2, <2>3
  <2> QED BY <2>1, <2>4, EmptySeq
<1>13. \A dat : Content(dat, p[1]) = <<>>
  <2>1. \A dat : Content(dat, <<>>) = <<>>
    BY DEF Content
  <2> QED BY <2>1, <1>12
<1>14. \A d \in Clients : Own(ctxs, d) = {}
  BY <1>1, <1>2 DEF Own, NoIpAssumption
<1>15. \A d \in Clients : QueueOf(d) = <<>> /\ PendingOf(d) = 0
  BY <1>14, QueueIsIn DEF QueueIn, PendingIn
<1>16. ASSUME NEW d \in Clients
       PROVE  QueueIn(list, data, p, d) = <<>> /\ PendingIn(list, d) = 0
  <2>1. CASE Own(list, d) = {}
    BY <2>1 DEF QueueIn, PendingIn
  <2>2. CASE Own(list, d) # {}
    <3>1. Mine(list, d) = 1
      BY <2>2, <1>6 DEF Own, Mine
    <3> QED BY <3>1, <2>2, <1>9, <1>13 DEF QueueIn, PendingIn
  <2> QED BY <2>1, <2>2
<1> QED BY <1>5, <1>6, <1>9, <1>10, <1>11, <1>13, <1>15, <1>16 DEF AtWork, x

(* GetVodContext, c was served before.                                     *)
LEMMA OldContext ==
    ASSUME Told(ctxs), NoIpAssumption, MaxNodesAssumption, NEW c \in Clients,
           NEW p, Lists(ctxs, nxt, Used, p), NEW k \in DOMAIN ctxs, ctxs[k].ip = c
    PROVE  AtWork(Context(c), c, p)
<1> DEFINE own == {j \in DOMAIN ctxs : ctxs[j].ip \in {c, NoIp}}
           x == Context(c)
<1>1. ctxs \in Seq(Ctx) /\ DOMAIN ctxs = 1 .. Len(ctxs)
  BY LenProperties DEF Told
<1>2. \A j \in DOMAIN ctxs : ctxs[j] \in Ctx /\ ctxs[j].ip \in Clients
  <2>1. \A j \in DOMAIN ctxs : ctxs[j] \in Ctx
    BY <1>1, ElementOfSeq
  <2> QED BY <2>1 DEF Ctx
<1>3. own = {k}
  BY <1>2 DEF Told, NoIpAssumption
<1>4. (CHOOSE j \in own : \A i \in own : j <= i) = k
  <2> HIDE DEF own
  <2>1. k \in own /\ \A i \in own : k <= i
    BY <1>1, <1>3
  <2> QED BY <1>3, <2>1
<1>5. [ctxs EXCEPT ![k].ip = c] = ctxs
  <2>1. [ctxs[k] EXCEPT !.ip = c] = ctxs[k]
    BY <1>2 DEF Ctx
  <2> QED BY <2>1, <1>1
<1>6. x = [list |-> ctxs, at |-> k]
  <2> DEFINE place == CHOOSE j \in own : \A i \in own : j <= i
  <2>1. own # {}
    BY <1>3
  <2>2. x = [list |-> [ctxs EXCEPT ![place].ip = c], at |-> place]
    BY <2>1 DEF Context
  <2>3. place = k
    BY <1>4
  <2> HIDE DEF place, x, own
  <2> QED BY <2>2, <2>3, <1>5
<1> HIDE DEF x, own
<1>7. Own(ctxs, c) = {k} /\ Mine(ctxs, c) = k
  BY OwnIs
<1>8. \A d : /\ QueueOf(d) = QueueIn(ctxs, data, p, d)
             /\ PendingOf(d) = PendingIn(ctxs, d)
  BY QueueIsIn
<1>9. /\ QueueIn(ctxs, data, p, c) = Content(data, p[k])
      /\ PendingIn(ctxs, c) = ctxs[k].nextaction
  BY <1>7 DEF QueueIn, PendingIn
<1> QED BY <1>6, <1>8, <1>9 DEF AtWork, x

(* GetVodContext makes a context for c.                                    *)
LEMMA NewContext ==
    ASSUME Told(ctxs), NoIpAssumption, MaxNodesAssumption, NEW c \in Clients,
           NEW p, Lists(ctxs, nxt, Used, p), \A k \in DOMAIN ctxs : ctxs[k].ip # c
    PROVE  \E q : AtWork(Context(c), c, q)
<1> DEFINE n == Len(ctxs)
           own == {j \in DOMAIN ctxs : ctxs[j].ip \in {c, NoIp}}
           list == Append(ctxs, NewCtx(c))
           q == [k \in 1 .. n + 1 |-> IF k = n + 1 THEN <<>> ELSE p[k]]
           x == Context(c)
<1>1. ctxs \in Seq(Ctx) /\ DOMAIN ctxs = 1 .. n /\ n \in Nat
  BY LenProperties DEF Told
<1>2. \A j \in DOMAIN ctxs : ctxs[j] \in Ctx /\ ctxs[j].ip \in Clients
  <2>1. \A j \in DOMAIN ctxs : ctxs[j] \in Ctx
    BY <1>1, ElementOfSeq
  <2> QED BY <2>1 DEF Ctx
<1>3. own = {}
  BY <1>2 DEF NoIpAssumption
<1>4. x = [list |-> list, at |-> n + 1]
  BY <1>3 DEF Context
<1> HIDE DEF x, own
<1>5. NewCtx(c) \in Ctx
  BY DEF NewCtx, Ctx
<1>6. /\ list \in Seq(Ctx) /\ DOMAIN list = 1 .. n + 1
      /\ list[n + 1] = NewCtx(c) /\ \A j \in 1 .. n : list[j] = ctxs[j]
  <2>1. /\ list \in Seq(Ctx) /\ Len(list) = n + 1
        /\ list[n + 1] = NewCtx(c) /\ \A j \in 1 .. n : list[j] = ctxs[j]
    BY <1>1, <1>5, AppendProperties
  <2> HIDE DEF list
  <2> QED BY <2>1, LenProperties
<1> HIDE DEF list
<1>7. /\ list[n + 1].ip = c /\ list[n + 1].playlist = Null
      /\ list[n + 1].nextaction = 0
  BY <1>6 DEF NewCtx
<1>8. \A j \in 1 .. n + 1 : j = n + 1 \/ j \in 1 .. n
  BY <1>1
<1>9. Told(list)
  <2>1. \A j \in 1 .. n : list[j].ip # c
    BY <1>1, <1>6
  <2> QED BY <2>1, <1>1, <1>6, <1>7, <1>8 DEF Told
<1>10. /\ q[n + 1] = <<>> /\ \A j \in 1 .. n : q[j] = p[j]
       /\ DOMAIN q = 1 .. n + 1
  BY <1>1
<1>11. <<>> \in Seq(Nodes) /\ Len(<<>>) = 0
  BY EmptySeq
<1>12. q \in [1 .. n + 1 -> Seq(Nodes)]
  BY <1>1, <1>8, <1>11 DEF Lists
<1> HIDE DEF q, n
<1>13. (\A m : ~In(<<>>, m)) /\ Distinct(<<>>) /\ Chain(nxt, Null, <<>>)
  BY <1>11 DEF In, Distinct, Chain, At
<1>14. Lists(list, nxt, Used, q)
  <2>1. ASSUME NEW k \in DOMAIN list
        PROVE  Chain(nxt, list[k].playlist, q[k]) /\ Distinct(q[k])
    <3>1. CASE k = n + 1
      BY <3>1, <1>7, <1>10, <1>13
    <3>2. CASE k \in 1 .. n
      BY <3>2, <1>1, <1>6, <1>10 DEF Lists
    <3> QED BY <3>1, <3>2, <1>6, <1>8
  <2>2. \A k \in DOMAIN list : \A m : In(q[k], m) => k \in 1 .. n /\ In(p[k], m)
    BY <1>6, <1>8, <1>10, <1>13
  <2>3. \A k, j \in DOMAIN list : \A m : In(q[k], m) /\ In(q[j], m) => k = j
    BY <2>2, <1>1 DEF Lists
  <2>4. ASSUME NEW m PROVE m \in Used <=> \E k \in DOMAIN list : In(q[k], m)
    <3>1. m \in Used <=> \E k \in 1 .. n : In(p[k], m)
      BY <1>1 DEF Lists
    <3>2. \A k \in 1 .. n : k \in DOMAIN list
      BY <1>1, <1>6
    <3> QED BY <3>1, <3>2, <2>2, <1>10
  <2> QED BY <2>1, <2>3, <2>4, <1>6, <1>12 DEF Lists
<1>15. \A d : /\ QueueOf(d) = QueueIn(ctxs, data, p, d)
              /\ PendingOf(d) = PendingIn(ctxs, d)
  BY QueueIsIn
<1>16. Content(data, <<>>) = <<>>
  BY DEF Content
<1>17. Own(list, c) = {n + 1} /\ Mine(list, c) = n + 1
  <2>1. n + 1 \in DOMAIN list
    BY <1>1, <1>6
  <2> QED BY <2>1, <1>7, <1>9, OwnIs
<1>18. Own(ctxs, c) = {}
  BY DEF Own
<1>19. QueueOf(c) = <<>> /\ PendingOf(c) = 0
  BY <1>15, <1>18 DEF QueueIn, PendingIn
<1>20. QueueIn(list, data, q, c) = <<>> /\ PendingIn(list, c) = 0
  BY <1>7, <1>10, <1>16, <1>17 DEF QueueIn, PendingIn
<1>21. ASSUME NEW d \in Clients, d # c
       PROVE  /\ QueueIn(list, data, q, d) = QueueOf(d)
              /\ PendingIn(list, d) = PendingOf(d)
  <2>1. Own(list, d) = Own(ctxs, d) /\ Own(ctxs, d) \subseteq 1 .. n
    BY <1>21, <1>1, <1>6, <1>7, <1>8 DEF Own
  <2>2. CASE Own(ctxs, d) = {}
    BY <2>1, <2>2, <1>15 DEF QueueIn, PendingIn
  <2>3. CASE Own(ctxs, d) # {}
    <3> DEFINE k == Mine(ctxs, d)
    <3>1. k \in 1 .. n /\ Mine(list, d) = k
      BY <2>1, <2>3 DEF Mine
    <3>2. q[k] = p[k] /\ list[k] = ctxs[k]
      BY <3>1, <1>6, <1>10
    <3>3. /\ QueueIn(ctxs, data, p, d) = Content(data, p[k])
          /\ PendingIn(ctxs, d) = ctxs[k].nextaction
      BY <2>3 DEF QueueIn, PendingIn
    <3>4. /\ QueueIn(list, data, q, d) = Content(data, q[k])
          /\ PendingIn(list, d) = list[k].nextaction
      BY <2>1, <2>3, <3>1 DEF QueueIn, PendingIn
    <3> HIDE DEF k
    <3> QED BY <3>2, <3>3, <3>4, <1>15
  <2> QED BY <2>2, <2>3
<1>22. AtWork(x, c, q)
  <2>1. \A d \in Clients : /\ QueueIn(list, data, q, d) = QueueOf(d)
                         /\ PendingIn(list, d) = PendingOf(d)
    BY <1>19, <1>20, <1>21
  <2>2. x.list = list /\ x.at = n + 1 /\ x = [list |-> list, at |-> n + 1]
    BY <1>4
  <2>3. n + 1 \in DOMAIN list
    BY <1>1, <1>6
  <2>4. Content(data, q[n + 1]) = QueueOf(c)
    BY <1>10, <1>16, <1>19
  <2>5. list[n + 1].nextaction = PendingOf(c)
    BY <1>7, <1>19
  <2> QED BY <2>1, <2>2, <2>3, <2>4, <2>5, <1>7, <1>9, <1>14 DEF AtWork
<1> QED BY <1>22 DEF x

(* Whoever it is: GetVodContext gives c a context of its own.              *)
LEMMA ContextWorks ==
    ASSUME ListsInv, NoIpAssumption, MaxNodesAssumption, NEW c \in Clients
    PROVE  \E q : AtWork(Context(c), c, q)
<1>1. PICK p : Lists(ctxs, nxt, Used, p)
  BY DEF ListsInv
<1>2. CASE ctxs = <<NewCtx(NoIp)>>
  BY <1>1, <1>2, FirstContext
<1>3. CASE Told(ctxs) /\ \E k \in DOMAIN ctxs : ctxs[k].ip = c
  BY <1>1, <1>3, OldContext
<1>4. CASE Told(ctxs) /\ ~\E k \in DOMAIN ctxs : ctxs[k].ip = c
  BY <1>1, <1>4, NewContext
<1> QED BY <1>2, <1>3, <1>4 DEF ListsInv

(* What a request does at its context, with the list s in place of the one *)
(* there and the command a: the invariant's lists are kept, and nobody     *)
(* else notices.                                                           *)
LEMMA ListMoves ==
    ASSUME NEW x, NEW c \in Clients, NEW q, AtWork(x, c, q),
           NEW a \in Commands \cup {0},
           NEW s \in Seq(Nodes), Distinct(s),
           ctxs' = [x.list EXCEPT ![x.at] =
                       [ip |-> c, playlist |-> At(s, 1), nextaction |-> a]],
           Chain(nxt', At(s, 1), s),
           Exchanged(q[x.at], s)
    PROVE  Moves(c, Content(data', s), a)
<1> DEFINE cl  == x.list
           k   == x.at
           new == [ip |-> c, playlist |-> At(s, 1), nextaction |-> a]
           r   == [q EXCEPT ![k] = s]
<1>1. /\ Told(cl) /\ k \in DOMAIN cl /\ cl[k].ip = c
      /\ Lists(cl, nxt, Used, q)
      /\ \A d \in Clients : /\ QueueIn(cl, data, q, d) = QueueOf(d)
                           /\ PendingIn(cl, d) = PendingOf(d)
  BY DEF AtWork
<1> HIDE DEF cl, k
<1>2. cl \in Seq(Ctx) /\ DOMAIN cl = 1 .. Len(cl)
  BY <1>1, LenProperties DEF Told
<1>3. new \in Ctx
  <2>1. At(s, 1) \in Nodes \cup {Null}
    BY ElementOfSeq DEF At
  <2> QED BY <2>1 DEF Ctx
<1>4. new.ip = c /\ new.playlist = At(s, 1) /\ new.nextaction = a
  OBVIOUS
<1>5. /\ ctxs' \in Seq(Ctx) /\ DOMAIN ctxs' = DOMAIN cl
      /\ \A j \in DOMAIN cl : ctxs'[j] = IF j = k THEN new ELSE cl[j]
  <2>1. ctxs' = [cl EXCEPT ![k] = new]
    BY DEF cl, k
  <2> HIDE DEF new
  <2>2. /\ [cl EXCEPT ![k] = new] \in Seq(Ctx)
        /\ Len([cl EXCEPT ![k] = new]) = Len(cl)
        /\ \A j \in 1 .. Len(cl) :
              [cl EXCEPT ![k] = new][j] = IF j = k THEN new ELSE cl[j]
    BY <1>1, <1>2, <1>3, ExceptSeq
  <2> QED BY <2>1, <2>2, <1>2, LenProperties
<1> HIDE DEF new
<1>6. \A j \in DOMAIN cl : ctxs'[j].ip = cl[j].ip
  BY <1>1, <1>4, <1>5
<1>7. Told(ctxs')
  BY <1>1, <1>5, <1>6 DEF Told
<1>8. Lists(ctxs', nxt', Used', r)
  <2>1. \A j \in DOMAIN cl : j # k => ctxs'[j].playlist = cl[j].playlist
    BY <1>5
  <2>2. Chain(nxt', ctxs'[k].playlist, s)
    BY <1>1, <1>4, <1>5
  <2>3. /\ \A n : In(s, n) => In(q[k], n) \/ n \notin Used
        /\ \A n \in Used : ~In(q[k], n) => nxt'[n] = nxt[n]
        /\ \A n : n \in Used' <=> In(s, n) \/ (n \in Used /\ ~In(q[k], n))
    BY DEF k, Exchanged
  <2>4. Lists(cl, nxt, Used, q) /\ k \in DOMAIN cl /\ DOMAIN ctxs' = DOMAIN cl
    BY <1>1, <1>5
  <2>5. \A cl2, nx2, U2 :
           /\ DOMAIN cl2 = DOMAIN cl
           /\ \A j \in DOMAIN cl : j # k => cl2[j].playlist = cl[j].playlist
           /\ Chain(nx2, cl2[k].playlist, s)
           /\ \A n \in Used : ~In(q[k], n) => nx2[n] = nxt[n]
           /\ \A n : n \in U2 <=> In(s, n) \/ (n \in Used /\ ~In(q[k], n))
           => Lists(cl2, nx2, U2, [q EXCEPT ![k] = s])
    BY <2>3, <2>4, ReplaceList
  <2> QED BY <2>1, <2>2, <2>3, <2>4, <2>5
<1>9. /\ r[k] = s
      /\ \A j \in DOMAIN cl : j # k => r[j] = q[j]
  BY <1>1 DEF Lists
<1> HIDE DEF r
<1>10. \A d : Own(ctxs', d) = Own(cl, d) /\ Mine(ctxs', d) = Mine(cl, d)
  <2>1. \A d : Own(ctxs', d) = Own(cl, d)
    BY <1>5, <1>6 DEF Own
  <2> QED BY <2>1 DEF Mine
<1>11. Own(cl, c) = {k} /\ Mine(cl, c) = k
  BY <1>1, OwnIs
<1>12. /\ QueueIn(ctxs', data', r, c) = Content(data', s)
       /\ PendingIn(ctxs', c) = a
  <2>1. Own(ctxs', c) # {} /\ Mine(ctxs', c) = k
    BY <1>10, <1>11
  <2>2. ctxs'[k].nextaction = a
    BY <1>1, <1>4, <1>5
  <2> QED BY <2>1, <2>2, <1>9 DEF QueueIn, PendingIn
<1>13. ASSUME NEW j \in DOMAIN cl, j # k
       PROVE  Content(data', r[j]) = Content(data, q[j])
  <2>1. \A n : In(q[j], n) => n \in Used /\ ~In(q[k], n)
    BY <1>1, <1>13 DEF Lists
  <2>2. \A i \in 1 .. Len(q[j]) : In(q[j], q[j][i])
    BY DEF In
  <2>3. \A n \in Used : ~In(q[k], n) => data'[n] = data[n]
    BY DEF k, Exchanged
  <2>4. \A i \in 1 .. Len(q[j]) : data'[q[j][i]] = data[q[j][i]]
    BY <2>1, <2>2, <2>3
  <2> QED BY <2>4, <1>9, <1>13 DEF Content
<1>14. ASSUME NEW d \in Clients, d # c
       PROVE  /\ QueueIn(ctxs', data', r, d) = QueueOf(d)
              /\ PendingIn(ctxs', d) = PendingOf(d)
  <2>1. CASE Own(cl, d) = {}
    BY <2>1, <1>1, <1>10 DEF QueueIn, PendingIn
  <2>2. CASE Own(cl, d) # {}
    <3> DEFINE j == Mine(cl, d)
    <3>1. j \in DOMAIN cl /\ j # k /\ Mine(ctxs', d) = j
      <4>1. j \in Own(cl, d)
        BY <2>2 DEF Mine
      <4> QED BY <4>1, <1>1, <1>10, <1>14 DEF Own
    <3>2. Content(data', r[j]) = Content(data, q[j]) /\ ctxs'[j] = cl[j]
      BY <3>1, <1>5, <1>13
    <3>3. /\ QueueIn(cl, data, q, d) = Content(data, q[j])
          /\ PendingIn(cl, d) = cl[j].nextaction
      BY <2>2 DEF QueueIn, PendingIn
    <3>4. /\ QueueIn(ctxs', data', r, d) = Content(data', r[j])
          /\ PendingIn(ctxs', d) = ctxs'[j].nextaction
      BY <2>2, <3>1, <1>10 DEF QueueIn, PendingIn
    <3> HIDE DEF j
    <3> QED BY <3>2, <3>3, <3>4, <1>1
  <2> QED BY <2>1, <2>2
<1> QED BY <1>7, <1>8, <1>12, <1>14 DEF Moves

-----------------------------------------------------------------------------
(* The clips of a list are a sequence as long as it.                       *)
LEMMA ContentIs ==
    ASSUME NEW T, NEW s \in Seq(Nodes), NEW dat,
           Fills(dat, s, T)
    PROVE  /\ Content(dat, s) \in Seq(T)
           /\ Len(Content(dat, s)) = Len(s)
           /\ \A i \in 1 .. Len(s) : Content(dat, s)[i] = dat[s[i]]
<1>1. Len(s) \in Nat
  BY LenProperties
<1>3. Content(dat, s) \in Seq(T)
  BY <1>1, SeqDef DEF Fills
<1>4. /\ DOMAIN Content(dat, s) = 1 .. Len(s)
      /\ \A i \in 1 .. Len(s) : Content(dat, s)[i] = dat[s[i]]
  BY DEF Content
<1> DEFINE t == Content(dat, s)
<1>5. Len(t) \in Nat /\ DOMAIN t = 1 .. Len(t)
  <2> HIDE DEF t
  <2>1. t \in Seq(T)
    BY <1>3 DEF t
  <2> QED BY <2>1, LenProperties
<1>6. Len(t) = Len(s)
  BY <1>1, <1>4, <1>5
<1> QED BY <1>3, <1>4, <1>6

(* Without a node its clip is gone, and no other.                          *)
LEMMA ContentRemove ==
    ASSUME NEW T, NEW s \in Seq(Nodes), NEW dat, NEW dat2, NEW k \in 1 .. Len(s),
           Fills(dat, s, T), SameBut(dat, dat2, s, k)
    PROVE  Content(dat2, RemoveAt(s, k)) = RemoveAt(Content(dat, s), k)
<1> DEFINE r == RemoveAt(s, k)
           t == Content(dat, s)
           n == Len(s)
<1>1. n \in Nat /\ k \in 1 .. n
  BY LenProperties
<1>2. /\ r \in Seq(Nodes) /\ Len(r) = n - 1
      /\ \A i \in 1 .. n - 1 : r[i] = IF i < k THEN s[i] ELSE s[i + 1]
  BY RemoveAtProperties
<1>3. /\ t \in Seq(T) /\ Len(t) = n /\ \A i \in 1 .. n : t[i] = dat[s[i]]
  BY ContentIs
<1>0. /\ \A i \in 1 .. n : dat[s[i]] \in T
      /\ \A i \in 1 .. n : i # k => dat2[s[i]] = dat[s[i]]
  BY DEF Fills, Content, SameBut
<1> HIDE DEF r, t
<1>4. /\ RemoveAt(t, k) \in Seq(T) /\ Len(RemoveAt(t, k)) = n - 1
      /\ \A i \in 1 .. n - 1 :
            RemoveAt(t, k)[i] = IF i < k THEN t[i] ELSE t[i + 1]
  <2>1. k \in 1 .. Len(t)
    BY <1>1, <1>3
  <2>2. /\ RemoveAt(t, k) \in Seq(T) /\ Len(RemoveAt(t, k)) = Len(t) - 1
        /\ \A i \in 1 .. Len(t) - 1 :
              RemoveAt(t, k)[i] = IF i < k THEN t[i] ELSE t[i + 1]
    BY <2>1, <1>3, RemoveAtProperties
  <2> QED BY <2>2, <1>3
<1>5. ASSUME NEW i \in 1 .. n - 1
      PROVE  dat2[r[i]] = RemoveAt(t, k)[i] /\ dat2[r[i]] \in T
  <2>1. CASE i < k
    <3>1. i \in 1 .. n /\ i # k
      BY <2>1, <1>1
    <3> QED BY <3>1, <2>1, <1>0, <1>2, <1>3, <1>4
  <2>2. CASE ~(i < k)
    <3>1. i + 1 \in 1 .. n /\ i + 1 # k
      BY <2>2, <1>1
    <3> QED BY <3>1, <2>2, <1>0, <1>2, <1>3, <1>4
  <2> QED BY <2>1, <2>2
<1>6. /\ Content(dat2, r) \in Seq(T) /\ Len(Content(dat2, r)) = n - 1
      /\ \A i \in 1 .. n - 1 : Content(dat2, r)[i] = dat2[r[i]]
  <2>1. Fills(dat2, r, T)
    BY <1>2, <1>5 DEF Content, Fills
  <2>2. /\ Content(dat2, r) \in Seq(T) /\ Len(Content(dat2, r)) = Len(r)
        /\ \A i \in 1 .. Len(r) : Content(dat2, r)[i] = dat2[r[i]]
    <3>1. r \in Seq(Nodes)
      BY <1>2
    <3> QED BY <2>1, <3>1, ContentIs
  <2> QED BY <2>2, <1>2
<1>7. Content(dat2, r) = RemoveAt(t, k)
  BY <1>4, <1>5, <1>6, SeqEqual
<1> QED BY <1>7 DEF r, t

(* A node at the end brings its clip to the end.                           *)
LEMMA ContentAppend ==
    ASSUME NEW T, NEW s \in Seq(Nodes), NEW dat, NEW dat2, NEW n \in Nodes,
           NEW v \in T, Holds(dat2, n, v), Fills(dat, s, T), SameBut(dat, dat2, s, 0)
    PROVE  Content(dat2, Put(s, n)) = Put(Content(dat, s), v)
<1> DEFINE r == Append(s, n)
           t == Content(dat, s)
           u == Append(t, v)
           m == Len(s)
<1>1. m \in Nat
  BY LenProperties
<1>2. /\ r \in Seq(Nodes) /\ Len(r) = m + 1 /\ r[m + 1] = n
      /\ \A i \in 1 .. m : r[i] = s[i]
  BY AppendProperties
<1>3. /\ t \in Seq(T) /\ Len(t) = m /\ \A i \in 1 .. m : t[i] = dat[s[i]]
  BY ContentIs
<1>0. /\ \A i \in 1 .. m : dat[s[i]] \in T
      /\ \A i \in 1 .. m : dat2[s[i]] = dat[s[i]]
      /\ dat2[n] = v
  BY DEF Fills, Content, SameBut, Holds
<1> HIDE DEF r, t
<1>4. /\ u \in Seq(T) /\ Len(u) = m + 1 /\ u[m + 1] = v
      /\ \A i \in 1 .. m : u[i] = t[i]
  <2>1. /\ u \in Seq(T) /\ Len(u) = Len(t) + 1 /\ u[Len(t) + 1] = v
        /\ \A i \in 1 .. Len(t) : u[i] = t[i]
    BY <1>0, <1>3, AppendProperties
  <2> HIDE DEF u
  <2> QED BY <2>1, <1>3
<1> HIDE DEF u
<1>5. ASSUME NEW i \in 1 .. m + 1
      PROVE  dat2[r[i]] = u[i] /\ dat2[r[i]] \in T
  <2>1. CASE i \in 1 .. m
    BY <2>1, <1>0, <1>2, <1>3, <1>4
  <2>2. CASE i = m + 1
    BY <2>2, <1>0, <1>2, <1>4
  <2> QED BY <2>1, <2>2, <1>1
<1>6. /\ Content(dat2, r) \in Seq(T) /\ Len(Content(dat2, r)) = m + 1
      /\ \A i \in 1 .. m + 1 : Content(dat2, r)[i] = dat2[r[i]]
  <2>1. Fills(dat2, r, T)
    BY <1>2, <1>5 DEF Content, Fills
  <2>2. /\ Content(dat2, r) \in Seq(T) /\ Len(Content(dat2, r)) = Len(r)
        /\ \A i \in 1 .. Len(r) : Content(dat2, r)[i] = dat2[r[i]]
    <3>1. r \in Seq(Nodes)
      BY <1>2
    <3> QED BY <2>1, <3>1, ContentIs
  <2> QED BY <2>2, <1>2
<1>7. Content(dat2, r) = u
  BY <1>4, <1>5, <1>6, SeqEqual
<1> QED BY <1>7 DEF r, t, u, Put

(* A node moved to the front takes its clip there.                         *)
LEMMA ContentMoveFirst ==
    ASSUME NEW T, NEW s \in Seq(Nodes), NEW dat, NEW k \in 1 .. Len(s),
           Fills(dat, s, T)
    PROVE  Content(dat, ToFront(s, k)) = ToFront(Content(dat, s), k)
<1> DEFINE r == <<s[k]>> \o RemoveAt(s, k)
           t == Content(dat, s)
           u == <<t[k]>> \o RemoveAt(t, k)
           n == Len(s)
<1>1. n \in Nat /\ k \in 1 .. n
  BY LenProperties
<1>2. /\ r \in Seq(Nodes) /\ Len(r) = n
      /\ \A i \in 1 .. n : r[i] = IF i = 1 THEN s[k]
                                 ELSE IF i <= k THEN s[i - 1] ELSE s[i]
  BY MoveFirstProperties
<1>3. /\ t \in Seq(T) /\ Len(t) = n /\ \A i \in 1 .. n : t[i] = dat[s[i]]
  BY ContentIs
<1>0. \A i \in 1 .. n : dat[s[i]] \in T
  BY DEF Fills, Content
<1> HIDE DEF r, t
<1>4. /\ u \in Seq(T) /\ Len(u) = n
      /\ \A i \in 1 .. n : u[i] = IF i = 1 THEN t[k]
                                 ELSE IF i <= k THEN t[i - 1] ELSE t[i]
  <2>1. k \in 1 .. Len(t)
    BY <1>1, <1>3
  <2>2. /\ u \in Seq(T) /\ Len(u) = Len(t)
        /\ \A i \in 1 .. Len(t) : u[i] = IF i = 1 THEN t[k]
                                   ELSE IF i <= k THEN t[i - 1] ELSE t[i]
    BY <2>1, <1>3, MoveFirstProperties
  <2> HIDE DEF u
  <2> QED BY <2>2, <1>3
<1> HIDE DEF u
<1>5. ASSUME NEW i \in 1 .. n PROVE dat[r[i]] = u[i] /\ dat[r[i]] \in T
  <2>1. CASE i = 1
    BY <2>1, <1>0, <1>1, <1>2, <1>3, <1>4
  <2>2. CASE i # 1 /\ i <= k
    <3>1. i - 1 \in 1 .. n
      BY <2>2, <1>1
    <3> QED BY <3>1, <2>2, <1>0, <1>2, <1>3, <1>4
  <2>3. CASE i # 1 /\ ~(i <= k)
    BY <2>3, <1>0, <1>2, <1>3, <1>4
  <2> QED BY <2>1, <2>2, <2>3
<1>6. /\ Content(dat, r) \in Seq(T) /\ Len(Content(dat, r)) = n
      /\ \A i \in 1 .. n : Content(dat, r)[i] = dat[r[i]]
  <2>1. Fills(dat, r, T)
    BY <1>2, <1>5 DEF Content, Fills
  <2>2. /\ Content(dat, r) \in Seq(T) /\ Len(Content(dat, r)) = Len(r)
        /\ \A i \in 1 .. Len(r) : Content(dat, r)[i] = dat[r[i]]
    <3>1. r \in Seq(Nodes)
      BY <1>2
    <3> QED BY <2>1, <3>1, ContentIs
  <2> QED BY <2>2, <1>2
<1>7. Content(dat, r) = u
  BY <1>4, <1>5, <1>6, SeqEqual
<1> QED BY <1>7 DEF r, t, u, ToFront

-----------------------------------------------------------------------------
(* The list of a context at work.                                          *)
LEMMA AtWorkFacts ==
    ASSUME Heap, NEW c \in Clients, NEW x, NEW q, AtWork(x, c, q),
           NEW s, s = q[x.at]
    PROVE  /\ s \in Seq(Nodes) /\ Distinct(s)
           /\ Chain(nxt, Hdr(x), s) /\ Hdr(x) = At(s, 1)
           /\ \A i \in 1 .. Len(s) : s[i] \in Used /\ s[i] \in Nodes
           /\ PendingOf(c) \in Commands \cup {0}
           /\ QueueOf(c) = Content(data, s) /\ Fills(data, s, Clips)
<1> DEFINE k == x.at
           cl == x.list
<1>1. /\ Told(cl) /\ k \in DOMAIN cl /\ cl[k].ip = c
      /\ cl[k].nextaction = PendingOf(c) /\ Content(data, q[k]) = QueueOf(c)
      /\ Lists(cl, nxt, Used, q) /\ Hdr(x) = cl[k].playlist /\ s = q[k]
  BY DEF AtWork, Hdr
<1> HIDE DEF k, cl
<1>2. cl[k] \in Ctx
  <2>1. cl \in Seq(Ctx) /\ DOMAIN cl = 1 .. Len(cl)
    BY <1>1, LenProperties DEF Told
  <2> QED BY <2>1, <1>1, ElementOfSeq
<1>3. PendingOf(c) \in Commands \cup {0}
  BY <1>1, <1>2 DEF Ctx
<1>4. /\ s \in Seq(Nodes) /\ Distinct(s)
      /\ Chain(nxt, Hdr(x), s) /\ Hdr(x) = At(s, 1)
  BY <1>1 DEF Lists, Chain
<1>5. \A i \in 1 .. Len(s) : s[i] \in Used /\ s[i] \in Nodes
  <2>1. \A i \in 1 .. Len(s) : In(s, s[i])
    BY DEF In
  <2>2. \A n : In(s, n) => n \in Used
    BY <1>1 DEF Lists
  <2> QED BY <2>1, <2>2 DEF Heap
<1>6. Fills(data, s, Clips)
  BY <1>5 DEF Fills, Content, Heap
<1> QED BY <1>1, <1>3, <1>4, <1>5, <1>6

(* What the list functions make of the context x of c, as one record.     *)
Edits(x, c, s) ==
    /\ x.list = [x.list EXCEPT ![x.at] =
          [ip |-> c, playlist |-> At(s, 1), nextaction |-> PendingOf(c)]]
    /\ \A h : [x.list EXCEPT ![x.at].playlist = h] = [x.list EXCEPT ![x.at] =
          [ip |-> c, playlist |-> h, nextaction |-> PendingOf(c)]]
    /\ \A a : [x.list EXCEPT ![x.at].nextaction = a] = [x.list EXCEPT ![x.at] =
          [ip |-> c, playlist |-> At(s, 1), nextaction |-> a]]
    /\ \A h, a :
          [[x.list EXCEPT ![x.at].nextaction = a] EXCEPT ![x.at].playlist = h]
             = [x.list EXCEPT ![x.at] =
                  [ip |-> c, playlist |-> h, nextaction |-> a]]

(* A context has three fields, and one of them is set at a time.           *)
LEMMA AtWorkContext ==
    ASSUME Heap, NEW c \in Clients, NEW x, NEW q, AtWork(x, c, q)
    PROVE  Edits(x, c, q[x.at])
<1> DEFINE s == q[x.at]
<1> SUFFICES ASSUME NEW h, NEW a
             PROVE
           /\ x.list = [x.list EXCEPT ![x.at] =
                  [ip |-> c, playlist |-> At(s, 1), nextaction |-> PendingOf(c)]]
           /\ [x.list EXCEPT ![x.at].playlist = h] = [x.list EXCEPT ![x.at] =
                  [ip |-> c, playlist |-> h, nextaction |-> PendingOf(c)]]
           /\ [x.list EXCEPT ![x.at].nextaction = a] = [x.list EXCEPT ![x.at] =
                  [ip |-> c, playlist |-> At(s, 1), nextaction |-> a]]
           /\ [[x.list EXCEPT ![x.at].nextaction = a] EXCEPT ![x.at].playlist = h]
                 = [x.list EXCEPT ![x.at] =
                      [ip |-> c, playlist |-> h, nextaction |-> a]]
  BY DEF Edits
<1>0. /\ Hdr(x) = At(s, 1)
  BY AtWorkFacts
<1> HIDE DEF s
<1> DEFINE k == x.at
           cl == x.list
           r == cl[k]
<1>1. /\ k \in DOMAIN cl /\ cl \in Seq(Ctx) /\ DOMAIN cl = 1 .. Len(cl)
      /\ r.ip = c /\ r.nextaction = PendingOf(c) /\ r.playlist = At(s, 1)
  <2>1. Told(cl) /\ k \in DOMAIN cl /\ r.ip = c /\ r.nextaction = PendingOf(c)
    BY DEF AtWork
  <2>2. r.playlist = At(s, 1)
    BY <1>0 DEF Hdr
  <2> QED BY <2>1, <2>2, LenProperties DEF Told
<1>2. r \in Ctx
  BY <1>1, ElementOfSeq
<1>3. /\ r = [ip |-> c, playlist |-> At(s, 1), nextaction |-> PendingOf(c)]
      /\ [r EXCEPT !.playlist = h]
            = [ip |-> c, playlist |-> h, nextaction |-> PendingOf(c)]
      /\ [r EXCEPT !.nextaction = a]
            = [ip |-> c, playlist |-> At(s, 1), nextaction |-> a]
      /\ [[r EXCEPT !.nextaction = a] EXCEPT !.playlist = h]
            = [ip |-> c, playlist |-> h, nextaction |-> a]
  <2> HIDE DEF r
  <2>1. r = [ip |-> r.ip, playlist |-> r.playlist, nextaction |-> r.nextaction]
    BY <1>2 DEF Ctx
  <2>2. r = [ip |-> c, playlist |-> At(s, 1), nextaction |-> PendingOf(c)]
    BY <1>1, <2>1
  <2>3. [r EXCEPT !.playlist = h]
           = [ip |-> c, playlist |-> h, nextaction |-> PendingOf(c)]
    BY <2>2
  <2>4. [r EXCEPT !.nextaction = a]
           = [ip |-> c, playlist |-> At(s, 1), nextaction |-> a]
    BY <2>2
  <2>5. [[r EXCEPT !.nextaction = a] EXCEPT !.playlist = h]
            = [ip |-> c, playlist |-> h, nextaction |-> a]
    <3> DEFINE t == [r EXCEPT !.nextaction = a]
    <3>1. t = [ip |-> c, playlist |-> At(s, 1), nextaction |-> a]
      BY <2>4
    <3> HIDE DEF t
    <3>2. [t EXCEPT !.playlist = h]
            = [ip |-> c, playlist |-> h, nextaction |-> a]
      BY <3>1
    <3> QED BY <3>2 DEF t
  <2> QED BY <2>2, <2>3, <2>4, <2>5
<1>4. /\ cl = [cl EXCEPT ![k] = r]
      /\ [cl EXCEPT ![k].playlist = h] = [cl EXCEPT ![k] = [r EXCEPT !.playlist = h]]
      /\ [cl EXCEPT ![k].nextaction = a]
            = [cl EXCEPT ![k] = [r EXCEPT !.nextaction = a]]
  <2> HIDE DEF k, cl
  <2> QED BY <1>1
<1>5. [[cl EXCEPT ![k].nextaction = a] EXCEPT ![k].playlist = h]
         = [cl EXCEPT ![k] = [[r EXCEPT !.nextaction = a] EXCEPT !.playlist = h]]
  <2> HIDE DEF k, cl
  <2> QED BY <1>1
<1> HIDE DEF r
<1>6. /\ cl = [cl EXCEPT ![k] =
                  [ip |-> c, playlist |-> At(s, 1), nextaction |-> PendingOf(c)]]
      /\ [cl EXCEPT ![k].playlist = h] = [cl EXCEPT ![k] =
                  [ip |-> c, playlist |-> h, nextaction |-> PendingOf(c)]]
      /\ [cl EXCEPT ![k].nextaction = a] = [cl EXCEPT ![k] =
                  [ip |-> c, playlist |-> At(s, 1), nextaction |-> a]]
  <2> HIDE DEF k, cl
  <2> QED BY <1>3, <1>4
<1>7. [[cl EXCEPT ![k].nextaction = a] EXCEPT ![k].playlist = h]
         = [cl EXCEPT ![k] = [ip |-> c, playlist |-> h, nextaction |-> a]]
  <2> HIDE DEF k, cl
  <2> QED BY <1>3, <1>5
<1> QED BY <1>6, <1>7

(* The heap is finite.                                                     *)
LEMMA UsedIsFinite ==
    ASSUME Heap, MaxNodesAssumption
    PROVE  IsFiniteSet(Used) /\ Cardinality(Used) \in Nat
<1>1. IsFiniteSet(Nodes)
  BY FS_Interval DEF Nodes, MaxNodesAssumption
<1>2. IsFiniteSet(Used)
  BY <1>1, FS_Subset DEF Heap
<1> QED BY <1>2, FS_CardinalityType

(* Nothing happens to the list.                                            *)
LEMMA AloneMoves ==
    ASSUME Heap, NEW c \in Clients, NEW x, NEW q, AtWork(x, c, q),
           NEW a \in Commands \cup {0},
           ctxs' = [x.list EXCEPT ![x.at] =
                      [ip |-> c, playlist |-> At(q[x.at], 1), nextaction |-> a]],
           UNCHANGED <<data, nxt, listcount>>, down' \in BOOLEAN
    PROVE  Heap' /\ Moves(c, QueueOf(c), a)
<1> DEFINE s == q[x.at]
<1>1. /\ s \in Seq(Nodes) /\ Distinct(s) /\ Chain(nxt, At(s, 1), s)
      /\ \A i \in 1 .. Len(s) : s[i] \in Used
  <2>1. /\ s \in Seq(Nodes) /\ Distinct(s)
        /\ Chain(nxt, Hdr(x), s) /\ Hdr(x) = At(s, 1)
        /\ \A i \in 1 .. Len(s) : s[i] \in Used
        /\ QueueOf(c) = Content(data, s)
    BY AtWorkFacts
  <2> QED BY <2>1
<1>2. nxt' = nxt /\ data' = data /\ Used' = Used /\ listcount' = listcount
  BY DEF Used
<1>3. Heap'
  BY <1>2 DEF Heap
<1>4. QueueOf(c) = Content(data, s)
  BY AtWorkFacts
<1>5. \A n : In(s, n) => n \in Used
  BY <1>1 DEF In
<1>6. Moves(c, Content(data', s), a)
  <2>1. ctxs' = [x.list EXCEPT ![x.at] =
                   [ip |-> c, playlist |-> At(s, 1), nextaction |-> a]]
    OBVIOUS
  <2>2. Chain(nxt', At(s, 1), s)
    BY <1>1, <1>2
  <2>3. Exchanged(q[x.at], s)
    BY <1>2, <1>5 DEF Exchanged
  <2> HIDE DEF s
  <2> QED BY <1>1, <2>1, <2>2, <2>3, ListMoves
<1> QED BY <1>2, <1>3, <1>4, <1>6

(* Without node k, the node before it leads to the one behind it.          *)
LEMMA RemoveChain ==
    ASSUME NEW s \in Seq(Nodes), Distinct(s), NEW hdr, Chain(nxt, hdr, s),
           NEW k \in 1 .. Len(s), NEW nx, PassesBy(nx, s, k)
    PROVE  LET t == RemoveAt(s, k)
           IN  /\ t \in Seq(Nodes) /\ Distinct(t) /\ Chain(nx, At(t, 1), t)
               /\ At(t, 1) = IF k = 1 THEN At(s, 2) ELSE At(s, 1)
               /\ \A m : In(t, m) <=> In(s, m) /\ m # s[k]
<1> DEFINE n == Len(s)
           t == RemoveAt(s, k)
<1>1. n \in Nat /\ k \in 1 .. n
  BY LenProperties
<1>2. /\ t \in Seq(Nodes) /\ Len(t) = n - 1
      /\ \A i \in 1 .. n - 1 : t[i] = IF i < k THEN s[i] ELSE s[i + 1]
  BY RemoveAtProperties
<1> HIDE DEF t
<1>3. \A i \in Nat \ {0} : At(t, i) = IF i < k THEN At(s, i) ELSE At(s, i + 1)
  <2> SUFFICES ASSUME NEW i \in Nat \ {0}
               PROVE  At(t, i) = IF i < k THEN At(s, i) ELSE At(s, i + 1)
    OBVIOUS
  <2>1. CASE i < k
    <3>1. i \in 1 .. n - 1 /\ i \in 1 .. n
      BY <2>1, <1>1
    <3> QED BY <3>1, <2>1, <1>2 DEF At
  <2>2. CASE ~(i < k) /\ i <= n - 1
    <3>1. i \in 1 .. n - 1 /\ i + 1 \in 1 .. n
      BY <2>2, <1>1
    <3> QED BY <3>1, <2>2, <1>2 DEF At
  <2>3. CASE ~(i < k) /\ ~(i <= n - 1)
    <3>1. i \notin 1 .. n - 1 /\ i + 1 \notin 1 .. n
      BY <2>3, <1>1
    <3> QED BY <3>1, <2>3, <1>2 DEF At
  <2> QED BY <2>1, <2>2, <2>3
<1>4. At(t, 1) = IF k = 1 THEN At(s, 2) ELSE At(s, 1)
  BY <1>1, <1>3
<1>5. Distinct(t)
  <2> SUFFICES ASSUME NEW i \in 1 .. n - 1, NEW j \in 1 .. n - 1, t[i] = t[j]
               PROVE  i = j
    BY <1>2 DEF Distinct
  <2> DEFINE u == IF i < k THEN i ELSE i + 1
             v == IF j < k THEN j ELSE j + 1
  <2>1. u \in 1 .. n /\ v \in 1 .. n /\ (u = v => i = j)
    BY <1>1
  <2>2. t[i] = s[u] /\ t[j] = s[v]
    BY <1>2
  <2> HIDE DEF u, v
  <2> QED BY <2>1, <2>2 DEF Distinct
<1>6. ASSUME NEW m PROVE In(t, m) <=> In(s, m) /\ m # s[k]
  <2>1. ASSUME NEW i \in 1 .. n - 1, t[i] = m PROVE In(s, m) /\ m # s[k]
    <3> DEFINE u == IF i < k THEN i ELSE i + 1
    <3>1. u \in 1 .. n /\ u # k
      BY <1>1
    <3>2. t[i] = s[u]
      BY <1>2
    <3> HIDE DEF u
    <3> QED BY <3>1, <3>2, <2>1, <1>1 DEF In, Distinct
  <2>2. ASSUME NEW i \in 1 .. n, s[i] = m, m # s[k] PROVE In(t, m)
    <3>1. CASE i < k
      <4>1. i \in 1 .. n - 1
        BY <3>1, <1>1
      <4> QED BY <4>1, <3>1, <2>2, <1>2 DEF In
    <3>2. CASE ~(i < k)
      <4>1. i # k
        BY <2>2
      <4>2. i - 1 \in 1 .. n - 1 /\ ~(i - 1 < k) /\ (i - 1) + 1 = i
        BY <4>1, <3>2, <1>1
      <4>3. t[i - 1] = s[i]
        BY <4>2, <1>2
      <4> QED BY <4>2, <4>3, <2>2, <1>2 DEF In
    <3> QED BY <3>1, <3>2
  <2> QED BY <2>1, <2>2, <1>2 DEF In
<1>7. ASSUME NEW i \in 1 .. n - 1 PROVE nx[t[i]] = At(t, i + 1)
  <2>0. i + 1 \in Nat \ {0}
    OBVIOUS
  <2>1. CASE i + 1 < k
    <3>1. i \in 1 .. n /\ i # k /\ i + 1 # k /\ i < k
      BY <2>1, <1>1
    <3>2. t[i] = s[i] /\ nx[s[i]] = nxt[s[i]]
      BY <3>1, <1>2 DEF PassesBy
    <3>3. nxt[s[i]] = At(s, i + 1)
      BY <3>1 DEF Chain
    <3> QED BY <3>2, <3>3, <2>0, <2>1, <1>3
  <2>2. CASE i + 1 = k
    <3>1. i \in 1 .. n /\ i # k /\ i < k
      BY <2>2, <1>1
    <3>2. t[i] = s[i] /\ nx[s[i]] = At(s, k + 1)
      BY <3>1, <2>2, <1>2 DEF PassesBy
    <3> QED BY <3>2, <2>0, <2>2, <1>1, <1>3
  <2>3. CASE i + 1 > k
    <3>1. i + 1 \in 1 .. n /\ i + 1 # k /\ (i + 1) + 1 # k /\ ~(i < k)
      BY <2>3, <1>1
    <3>2. t[i] = s[i + 1] /\ nx[s[i + 1]] = nxt[s[i + 1]]
      BY <3>1, <1>2 DEF PassesBy
    <3>3. nxt[s[i + 1]] = At(s, (i + 1) + 1)
      BY <3>1 DEF Chain
    <3>4. At(t, i + 1) = At(s, (i + 1) + 1)
      BY <2>0, <2>3, <1>1, <1>3
    <3> QED BY <3>2, <3>3, <3>4
  <2> QED BY <2>1, <2>2, <2>3, <1>1
<1>8. Chain(nx, At(t, 1), t)
  BY <1>2, <1>7 DEF Chain
<1> QED BY <1>2, <1>4, <1>5, <1>6, <1>8 DEF t

(* Node k of s, the list of the context x of c, is freed: the head of the  *)
(* list moves on if it is the first, else the one before passes it by.     *)
Removed(x, c, s, k, a) ==
    /\ ctxs' = [x.list EXCEPT ![x.at] =
          [ip |-> c, playlist |-> IF k = 1 THEN At(s, 2) ELSE At(s, 1),
           nextaction |-> a]]
    /\ data' = Without(data, s[k]) /\ DOMAIN nxt' = Used \ {s[k]}
    /\ \A m \in Used \ {s[k]} :
          nxt'[m] = IF k # 1 /\ m = s[k - 1] THEN At(s, k + 1) ELSE nxt[m]
    /\ listcount' = listcount - 1 /\ down' \in BOOLEAN

(* An entry is removed from the list, and freed: the first one by moving   *)
(* the head of the list, another by passing it by.                         *)
LEMMA RemoveMoves ==
    ASSUME Heap, MaxNodesAssumption,
           NEW c \in Clients, NEW x, NEW q, AtWork(x, c, q),
           NEW s, s = q[x.at], NEW k \in 1 .. Len(s),
           NEW a \in Commands \cup {0},
           Removed(x, c, s, k, a)
    PROVE  Heap' /\ Moves(c, RemoveAt(QueueOf(c), k), a)
<1> DEFINE t == RemoveAt(s, k)
           nx == nxt'
<1>0. /\ ctxs' = [x.list EXCEPT ![x.at] =
            [ip |-> c, playlist |-> IF k = 1 THEN At(s, 2) ELSE At(s, 1),
             nextaction |-> a]]
      /\ data' = Without(data, s[k]) /\ DOMAIN nxt' = Used \ {s[k]}
      /\ \A m \in Used \ {s[k]} :
            nxt'[m] = IF k # 1 /\ m = s[k - 1] THEN At(s, k + 1) ELSE nxt[m]
      /\ listcount' = listcount - 1 /\ down' \in BOOLEAN
  BY DEF Removed
<1>1. /\ s \in Seq(Nodes) /\ Distinct(s)
      /\ Chain(nxt, Hdr(x), s) /\ Hdr(x) = At(s, 1)
      /\ \A i \in 1 .. Len(s) : s[i] \in Used /\ s[i] \in Nodes
      /\ QueueOf(c) = Content(data, s) /\ Fills(data, s, Clips)
  BY AtWorkFacts
<1>2. Len(s) \in Nat
  BY <1>1, LenProperties
<1>3. /\ Used' = Used \ {s[k]}
      /\ \A m \in Used \ {s[k]} : data'[m] = data[m]
  BY <1>0 DEF Used, Without
<1>4. \A i \in 1 .. Len(s) : i # k =>
         /\ s[i] \in Used \ {s[k]}
         /\ nx[s[i]] = IF i + 1 = k THEN At(s, k + 1) ELSE nxt[s[i]]
  <2> SUFFICES ASSUME NEW i \in 1 .. Len(s), i # k
               PROVE  /\ s[i] \in Used \ {s[k]}
                      /\ nx[s[i]] = IF i + 1 = k THEN At(s, k + 1)
                                    ELSE nxt[s[i]]
    OBVIOUS
  <2>1. s[i] \in Used \ {s[k]}
    BY <1>1 DEF Distinct
  <2>2. nx[s[i]] = IF k # 1 /\ s[i] = s[k - 1] THEN At(s, k + 1) ELSE nxt[s[i]]
    BY <2>1, <1>0
  <2>3. (k # 1 /\ s[i] = s[k - 1]) <=> i + 1 = k
    <3>1. CASE k = 1
      BY <3>1, <1>2
    <3>2. CASE k # 1
      <4>1. k - 1 \in 1 .. Len(s)
        BY <3>2, <1>2
      <4>2. s[i] = s[k - 1] <=> i = k - 1
        BY <4>1, <1>1 DEF Distinct
      <4> QED BY <4>2, <3>2, <1>2
    <3> QED BY <3>1, <3>2
  <2> QED BY <2>1, <2>2, <2>3
<1>5. /\ t \in Seq(Nodes) /\ Distinct(t) /\ Chain(nx, At(t, 1), t)
      /\ At(t, 1) = IF k = 1 THEN At(s, 2) ELSE At(s, 1)
      /\ \A m : In(t, m) <=> In(s, m) /\ m # s[k]
  <2>1. PassesBy(nx, s, k)
    BY <1>4 DEF PassesBy
  <2>2. s \in Seq(Nodes) /\ Distinct(s) /\ Chain(nxt, Hdr(x), s)
    BY <1>1
  <2> HIDE DEF nx
  <2> QED BY <2>1, <2>2, RemoveChain
<1>6. Content(data', t) = RemoveAt(QueueOf(c), k)
  <2>1. s \in Seq(Nodes) /\ Fills(data, s, Clips)
    BY <1>1
  <2>2. SameBut(data, data', s, k)
    BY <1>3, <1>4 DEF SameBut
  <2>3. Content(data', t) = RemoveAt(Content(data, s), k)
    BY <2>1, <2>2, ContentRemove
  <2> QED BY <2>3, <1>1
<1> HIDE DEF t
<1>7. In(s, s[k]) /\ \A m : In(s, m) => m \in Used
  BY <1>1 DEF In
<1>8. Moves(c, Content(data', t), a)
  <2>1. ctxs' = [x.list EXCEPT ![x.at] =
                   [ip |-> c, playlist |-> At(t, 1), nextaction |-> a]]
    BY <1>0, <1>5
  <2>2. \A m : In(t, m) => In(q[x.at], m) \/ m \notin Used
    BY <1>5
  <2>3. \A m \in Used : ~In(q[x.at], m) =>
           nxt'[m] = nxt[m] /\ data'[m] = data[m]
    <3> SUFFICES ASSUME NEW m \in Used, ~In(s, m)
                 PROVE  nxt'[m] = nxt[m] /\ data'[m] = data[m]
      OBVIOUS
    <3>1. m # s[k] /\ (k # 1 => m # s[k - 1])
      <4>1. k # 1 => k - 1 \in 1 .. Len(s)
        BY <1>2
      <4> QED BY <4>1 DEF In
    <3> QED BY <3>1, <1>0, <1>3
  <2>4. \A m : m \in Used' <=> In(t, m) \/ (m \in Used /\ ~In(q[x.at], m))
    BY <1>3, <1>5, <1>7
  <2>5. t \in Seq(Nodes) /\ Distinct(t) /\ Chain(nxt', At(t, 1), t)
    BY <1>5
  <2>6. Exchanged(q[x.at], t)
    BY <2>2, <2>3, <2>4 DEF Exchanged
  <2> QED BY <2>1, <2>5, <2>6, ListMoves
<1>9. Heap'
  <2>1. Used' \subseteq Nodes /\ DOMAIN nxt' = Used'
    BY <1>0, <1>3 DEF Heap
  <2>2. \A m \in Used' : data'[m] \in Clips
    BY <1>0, <1>3 DEF Heap
  <2>3. listcount' = Cardinality(Used')
    <3>1. Cardinality(Used \ {s[k]}) = Cardinality(Used) - 1
      BY <1>1, UsedIsFinite, FS_RemoveElement
    <3> QED BY <3>1, <1>0, <1>3 DEF Heap
  <2> QED BY <2>1, <2>2, <2>3, <1>0 DEF Heap
<1> QED BY <1>6, <1>8, <1>9

(* A node that was free is put behind the last of the list.                *)
LEMMA AppendChain ==
    ASSUME NEW s \in Seq(Nodes), Distinct(s), NEW hdr, Chain(nxt, hdr, s),
           NEW n \in Nodes, ~In(s, n), NEW nx, nx[n] = Null,
           \A i \in 1 .. Len(s) : nx[s[i]] = IF i = Len(s) THEN n ELSE nxt[s[i]]
    PROVE  LET t == Append(s, n)
           IN  /\ t \in Seq(Nodes) /\ Distinct(t) /\ Chain(nx, At(t, 1), t)
               /\ At(t, 1) = IF s = <<>> THEN n ELSE At(s, 1)
               /\ \A m : In(t, m) <=> In(s, m) \/ m = n
<1> DEFINE k == Len(s)
           t == Append(s, n)
<1>1. k \in Nat
  BY LenProperties
<1>2. /\ t \in Seq(Nodes) /\ Len(t) = k + 1 /\ t[k + 1] = n
      /\ \A i \in 1 .. k : t[i] = s[i]
  BY AppendProperties
<1>3. \A i \in 1 .. k + 1 : i = k + 1 \/ i \in 1 .. k
  BY <1>1
<1> HIDE DEF t
<1>4. ASSUME NEW m PROVE In(t, m) <=> In(s, m) \/ m = n
  <2>1. k + 1 \in 1 .. k + 1 /\ \A i \in 1 .. k : i \in 1 .. k + 1
    BY <1>1
  <2> QED BY <2>1, <1>2, <1>3 DEF In
<1>5. Distinct(t)
  <2> SUFFICES ASSUME NEW i \in 1 .. k + 1, NEW j \in 1 .. k + 1, t[i] = t[j]
               PROVE  i = j
    BY <1>2 DEF Distinct
  <2>1. CASE i \in 1 .. k /\ j \in 1 .. k
    BY <2>1, <1>2 DEF Distinct
  <2>2. CASE i = k + 1 /\ j \in 1 .. k
    BY <2>2, <1>2 DEF In
  <2>3. CASE i \in 1 .. k /\ j = k + 1
    BY <2>3, <1>2 DEF In
  <2> QED BY <2>1, <2>2, <2>3, <1>3
<1>6. At(t, 1) = IF s = <<>> THEN n ELSE At(s, 1)
  <2>1. CASE k = 0
    <3>1. s = <<>>
      BY <2>1, EmptySeq
    <3> QED BY <3>1, <2>1, <1>2 DEF At
  <2>2. CASE k # 0
    <3>1. s # <<>>
      BY <2>2, EmptySeq
    <3>2. 1 \in 1 .. k /\ 1 \in 1 .. k + 1
      BY <2>2, <1>1
    <3> QED BY <3>1, <3>2, <1>2 DEF At
  <2> QED BY <2>1, <2>2
<1>7. ASSUME NEW i \in 1 .. k + 1 PROVE nx[t[i]] = At(t, i + 1)
  <2>1. CASE i = k + 1
    <3>1. i + 1 \notin 1 .. k + 1
      BY <2>1, <1>1
    <3> QED BY <3>1, <2>1, <1>2 DEF At
  <2>2. CASE i \in 1 .. k /\ i = k
    <3>1. i + 1 \in 1 .. k + 1
      BY <2>2, <1>1
    <3> QED BY <3>1, <2>2, <1>2 DEF At
  <2>3. CASE i \in 1 .. k /\ i # k
    <3>1. i + 1 \in 1 .. k + 1 /\ i + 1 \in 1 .. k
      BY <2>3, <1>1
    <3>2. nx[t[i]] = nxt[s[i]]
      BY <2>3, <1>2
    <3>3. nxt[s[i]] = At(s, i + 1)
      BY <2>3 DEF Chain
    <3> QED BY <3>1, <3>2, <3>3, <1>2 DEF At
  <2> QED BY <2>1, <2>2, <2>3, <1>3
<1>8. Chain(nx, At(t, 1), t)
  BY <1>2, <1>7 DEF Chain
<1> QED BY <1>2, <1>4, <1>5, <1>6, <1>8 DEF t

(* plAddEntry: the clip comes last, whether or not the list was empty.     *)
LEMMA AddMoves ==
    ASSUME Heap, MaxNodesAssumption,
           NEW c \in Clients, NEW x, NEW q, AtWork(x, c, q),
           NEW clip \in Clips, Used # Nodes, AddEntry(x, clip), down' \in BOOLEAN
    PROVE  Heap' /\ Moves(c, Put(QueueOf(c), clip), PendingOf(c))
<1> DEFINE s == q[x.at]
           n == Fresh
           t == Put(s, n)
           nx == nxt'
<1>1. /\ s \in Seq(Nodes) /\ Distinct(s)
      /\ Chain(nxt, Hdr(x), s) /\ Hdr(x) = At(s, 1)
      /\ \A i \in 1 .. Len(s) : s[i] \in Used /\ s[i] \in Nodes
      /\ QueueOf(c) = Content(data, s) /\ Fills(data, s, Clips)
      /\ PendingOf(c) \in Commands \cup {0}
  BY AtWorkFacts
<1>2. n \in Nodes /\ n \notin Used
  <2>0. MaxNodes \in Nat /\ Used \subseteq Nodes
    BY DEF Heap, MaxNodesAssumption
  <2>1. Nodes \ Used # {}
    BY <2>0
  <2>3. Nodes \ Used \subseteq Nat
    BY <2>0 DEF Nodes
  <2>2. \E i \in Nodes \ Used : \A j \in Nodes \ Used : i <= j
    BY <2>1, <2>3, HasLeast
  <2> QED BY <2>2 DEF Fresh
<1>3. Len(s) \in Nat /\ (s = <<>> <=> Len(s) = 0)
  BY <1>1, LenProperties, EmptySeq
<1>4. (Hdr(x) = Null) <=> (s = <<>>)
  <2>1. CASE Len(s) = 0
    BY <2>1, <1>1, <1>3 DEF At
  <2>2. CASE Len(s) # 0
    <3>1. 1 \in 1 .. Len(s)
      BY <2>2, <1>3
    <3>2. At(s, 1) = s[1] /\ s[1] # Null
      BY <3>1, <1>1 DEF At, Nodes, Null
    <3> QED BY <3>2, <2>2, <1>1, <1>3
  <2> QED BY <2>1, <2>2
<1>5. s # <<>> => EndOf(Hdr(x)) = s[Len(s)]
  <2>1. s \in Seq(Nodes) /\ Distinct(s) /\ Chain(nxt, Hdr(x), s)
    BY <1>1
  <2> HIDE DEF s
  <2> QED BY <2>1, ReachChain
<1> HIDE DEF n, s
<1>6. /\ data' = [m \in Used \cup {n} |-> IF m = n THEN clip ELSE data[m]]
      /\ nxt' = [m \in Used \cup {n} |->
                    IF m = n THEN Null
                    ELSE IF Hdr(x) # Null /\ m = EndOf(Hdr(x)) THEN n
                    ELSE nxt[m]]
      /\ ctxs' = [x.list EXCEPT ![x.at].playlist =
                     IF Hdr(x) = Null THEN n ELSE Hdr(x)]
      /\ listcount' = listcount + 1
  BY DEF AddEntry, SetHdr, n
<1>7. /\ Used' = Used \cup {n} /\ DOMAIN nxt' = Used \cup {n}
      /\ data'[n] = clip /\ nxt'[n] = Null
      /\ \A m \in Used : data'[m] = data[m]
  BY <1>2, <1>6 DEF Used
<1>8. ASSUME NEW i \in 1 .. Len(s)
      PROVE  nx[s[i]] = IF i = Len(s) THEN n ELSE nxt[s[i]]
  <2>1. s[i] \in Used /\ s[i] # n
    BY <1>1, <1>2
  <2>2. s # <<>> /\ Hdr(x) # Null /\ Len(s) \in 1 .. Len(s)
    BY <1>3, <1>4
  <2>3. s[i] = EndOf(Hdr(x)) <=> i = Len(s)
    BY <2>2, <1>1, <1>5 DEF Distinct
  <2> QED BY <2>1, <2>2, <2>3, <1>6
<1>9. ~In(s, n) /\ \A m : In(s, m) => m \in Used
  BY <1>1, <1>2 DEF In
<1>10. /\ t \in Seq(Nodes) /\ Distinct(t) /\ Chain(nx, At(t, 1), t)
       /\ At(t, 1) = IF s = <<>> THEN n ELSE At(s, 1)
       /\ \A m : In(t, m) <=> In(s, m) \/ m = n
  <2>1. s \in Seq(Nodes) /\ Distinct(s) /\ Chain(nxt, Hdr(x), s)
    BY <1>1
  <2>2. nx[n] = Null
    BY <1>7
  <2> HIDE DEF nx
  <2> QED BY <2>1, <2>2, <1>2, <1>8, <1>9, AppendChain DEF Put
<1>11. Content(data', t) = Put(QueueOf(c), clip)
  <2>1. SameBut(data, data', s, 0)
    BY <1>1, <1>7 DEF SameBut
  <2>2. Holds(data', n, clip)
    BY <1>7 DEF Holds
  <2>3. s \in Seq(Nodes) /\ Fills(data, s, Clips)
    BY <1>1
  <2>4. n \in Nodes
    BY <1>2
  <2>6. Content(data', t) = Put(Content(data, s), clip)
    <3> HIDE DEF nx
    <3> QED BY <2>1, <2>2, <2>3, <2>4, ContentAppend
  <2> QED BY <2>6, <1>1, <1>7
<1> HIDE DEF t
<1>12. Moves(c, Content(data', t), PendingOf(c))
  <2>1. ctxs' = [x.list EXCEPT ![x.at] =
           [ip |-> c, playlist |-> At(t, 1), nextaction |-> PendingOf(c)]]
    <3>1. ctxs' = [x.list EXCEPT ![x.at].playlist = At(t, 1)]
      BY <1>1, <1>4, <1>6, <1>10
    <3>2. Edits(x, c, s)
      BY AtWorkContext DEF s
    <3> QED BY <3>1, <3>2 DEF Edits
  <2>2. \A m \in Used : ~In(s, m) => nxt'[m] = nxt[m]
    <3> SUFFICES ASSUME NEW m \in Used, ~In(s, m) PROVE nxt'[m] = nxt[m]
      OBVIOUS
    <3>1. m # n
      BY <1>2
    <3>2. Hdr(x) # Null => m # EndOf(Hdr(x))
      <4>1. Hdr(x) # Null => Len(s) \in 1 .. Len(s) /\ EndOf(Hdr(x)) = s[Len(s)]
        BY <1>3, <1>4, <1>5
      <4> QED BY <4>1 DEF In
    <3> QED BY <3>1, <3>2, <1>6
  <2>3. Exchanged(s, t)
    BY <2>2, <1>2, <1>7, <1>9, <1>10 DEF Exchanged
  <2>4. t \in Seq(Nodes) /\ Distinct(t) /\ Chain(nxt', At(t, 1), t)
    BY <1>10
  <2>5. Exchanged(q[x.at], t)
    BY <2>3 DEF s
  <2> QED BY <2>1, <2>4, <2>5, <1>1, ListMoves
<1>13. Heap'
  <2>1. Used' \subseteq Nodes /\ DOMAIN nxt' = Used'
    BY <1>2, <1>7 DEF Heap
  <2>2. \A m \in Used' : data'[m] \in Clips
    BY <1>7 DEF Heap
  <2>3. listcount' = Cardinality(Used')
    <3>1. Cardinality(Used \cup {n}) = Cardinality(Used) + 1
      BY <1>2, UsedIsFinite, FS_AddElement
    <3> QED BY <3>1, <1>6, <1>7 DEF Heap
  <2> QED BY <2>1, <2>2, <2>3 DEF Heap
<1> QED BY <1>11, <1>12, <1>13

(* Node k leads to the first one, and the node before it to the one        *)
(* behind it.                                                              *)
Turned(nx, s, k) ==
    \A i \in 1 .. Len(s) :
        nx[s[i]] = IF i = k THEN s[1]
                   ELSE IF i + 1 = k THEN At(s, k + 1) ELSE nxt[s[i]]

(* With node k turned so, the list begins with it and has lost no other.   *)
LEMMA PinChain ==
    ASSUME NEW s \in Seq(Nodes), Distinct(s), NEW hdr, Chain(nxt, hdr, s),
           NEW k \in 1 .. Len(s), k # 1, NEW nx, Turned(nx, s, k)
    PROVE  LET t == ToFront(s, k)
           IN  /\ t \in Seq(Nodes) /\ Distinct(t) /\ Chain(nx, At(t, 1), t)
               /\ At(t, 1) = s[k] /\ \A m : In(t, m) <=> In(s, m)
<1> DEFINE n == Len(s)
           t == ToFront(s, k)
<1>1. n \in Nat /\ k \in 2 .. n /\ k \in Nat
  BY LenProperties
<1>2. /\ t \in Seq(Nodes) /\ Len(t) = n
      /\ \A i \in 1 .. n : t[i] = IF i = 1 THEN s[k]
                                 ELSE IF i <= k THEN s[i - 1] ELSE s[i]
  BY MoveFirstProperties DEF ToFront
<1> HIDE DEF t
<1>3. At(t, 1) = s[k]
  BY <1>1, <1>2 DEF At
<1>4. ASSUME NEW i \in 1 .. n, NEW j \in 1 .. n, t[i] = t[j]
      PROVE  i = j
  <2> DEFINE u == IF i = 1 THEN k ELSE IF i <= k THEN i - 1 ELSE i
             v == IF j = 1 THEN k ELSE IF j <= k THEN j - 1 ELSE j
  <2>1. u \in 1 .. n /\ v \in 1 .. n /\ (u = v => i = j)
    BY <1>1
  <2>2. t[i] = s[u] /\ t[j] = s[v]
    BY <1>2
  <2> HIDE DEF u, v
  <2> QED BY <2>1, <2>2, <1>4 DEF Distinct
<1>5. Distinct(t)
  BY <1>2, <1>4 DEF Distinct
<1>6. ASSUME NEW m PROVE In(t, m) <=> In(s, m)
  <2>1. ASSUME NEW i \in 1 .. n, t[i] = m PROVE In(s, m)
    <3> DEFINE u == IF i = 1 THEN k ELSE IF i <= k THEN i - 1 ELSE i
    <3>1. u \in 1 .. n
      BY <1>1
    <3>2. t[i] = s[u]
      BY <1>2
    <3> HIDE DEF u
    <3> QED BY <3>1, <3>2, <2>1 DEF In
  <2>2. ASSUME NEW i \in 1 .. n, s[i] = m PROVE In(t, m)
    <3> DEFINE u == IF i = k THEN 1 ELSE IF i < k THEN i + 1 ELSE i
    <3>1. u \in 1 .. n
      BY <1>1
    <3>2. t[u] = s[i]
      <4>1. CASE i = k
        BY <4>1, <1>1, <1>2
      <4>2. CASE i < k
        <5>1. i + 1 \in 1 .. n /\ i + 1 # 1 /\ i + 1 <= k /\ (i + 1) - 1 = i
          BY <4>2, <1>1
        <5>2. u = i + 1
          BY <4>2
        <5> HIDE DEF u
        <5> QED BY <5>1, <5>2, <1>2
      <4>3. CASE i > k
        <5>1. u = i /\ i # 1 /\ ~(i <= k)
          BY <4>3, <1>1
        <5> HIDE DEF u
        <5> QED BY <5>1, <1>2
      <4> QED BY <4>1, <4>2, <4>3, <1>1
    <3> HIDE DEF u
    <3> QED BY <3>1, <3>2, <2>2, <1>2 DEF In
  <2> QED BY <2>1, <2>2, <1>2 DEF In
<1>7. ASSUME NEW i \in 1 .. n PROVE nx[t[i]] = At(t, i + 1)
  <2>1. CASE i = 1
    <3>1. 2 \in 1 .. n /\ 2 # 1 /\ 2 <= k /\ 2 - 1 = 1
      BY <1>1
    <3>2. At(t, 2) = s[1]
      BY <3>1, <1>2 DEF At
    <3>3. nx[s[k]] = s[1] /\ t[1] = s[k] /\ i + 1 = 2
      BY <2>1, <3>1, <1>2 DEF Turned
    <3> QED BY <2>1, <3>2, <3>3
  <2>2. CASE i # 1 /\ i < k
    <3>1. /\ i - 1 \in 1 .. n /\ i - 1 # k /\ (i - 1) + 1 # k /\ (i - 1) + 1 = i
          /\ i + 1 \in 1 .. n /\ i + 1 # 1 /\ i + 1 <= k /\ (i + 1) - 1 = i
          /\ i <= k
      BY <2>2, <1>1
    <3>2. t[i] = s[i - 1] /\ nx[s[i - 1]] = nxt[s[i - 1]]
      BY <3>1, <2>2, <1>2 DEF Turned
    <3>3. nxt[s[i - 1]] = s[i]
      BY <3>1 DEF Chain, At
    <3>4. At(t, i + 1) = s[i]
      BY <3>1, <1>2 DEF At
    <3> QED BY <3>2, <3>3, <3>4
  <2>3. CASE i = k
    <3>1. k - 1 \in 1 .. n /\ k - 1 # k /\ (k - 1) + 1 = k /\ k # 1 /\ k <= k
      BY <1>1
    <3>2. t[k] = s[k - 1] /\ nx[s[k - 1]] = At(s, k + 1)
      BY <3>1, <1>2 DEF Turned
    <3>3. At(t, k + 1) = At(s, k + 1)
      <4>1. k + 1 # 1 /\ ~(k + 1 <= k)
        BY <1>1
      <4> QED BY <4>1, <1>2 DEF At
    <3> QED BY <2>3, <3>2, <3>3
  <2>4. CASE i > k
    <3>1. i # 1 /\ ~(i <= k) /\ i # k /\ i + 1 # k /\ i + 1 # 1 /\ ~(i + 1 <= k)
      BY <2>4, <1>1
    <3>2. t[i] = s[i] /\ nx[s[i]] = nxt[s[i]]
      BY <3>1, <1>2 DEF Turned
    <3>3. nxt[s[i]] = At(s, i + 1)
      BY DEF Chain
    <3>4. At(t, i + 1) = At(s, i + 1)
      BY <3>1, <1>2 DEF At
    <3> QED BY <3>2, <3>3, <3>4
  <2> QED BY <2>1, <2>2, <2>3, <2>4, <1>1
<1>8. Chain(nx, At(t, 1), t)
  BY <1>2, <1>7 DEF Chain
<1> QED BY <1>2, <1>3, <1>5, <1>6, <1>8 DEF t

(* plPinEntryByIndex: the entry is moved to the front.                     *)
LEMMA PinMoves ==
    ASSUME Heap, MaxNodesAssumption,
           NEW c \in Clients, NEW x, NEW q, AtWork(x, c, q),
           NEW s, s = q[x.at], NEW k \in 1 .. Len(s), k # 1,
           ctxs' = [x.list EXCEPT ![x.at] =
              [ip |-> c, playlist |-> s[k], nextaction |-> PendingOf(c)]],
           nxt' = [nxt EXCEPT ![s[k - 1]] = nxt[s[k]], ![s[k]] = s[1]],
           data' = data, listcount' = listcount, down' \in BOOLEAN
    PROVE  Heap' /\ Moves(c, ToFront(QueueOf(c), k), PendingOf(c))
<1> DEFINE t == ToFront(s, k)
           nx == nxt'
<1>1. /\ s \in Seq(Nodes) /\ Distinct(s)
      /\ Chain(nxt, Hdr(x), s) /\ Hdr(x) = At(s, 1)
      /\ \A i \in 1 .. Len(s) : s[i] \in Used /\ s[i] \in Nodes
      /\ QueueOf(c) = Content(data, s) /\ Fills(data, s, Clips)
      /\ PendingOf(c) \in Commands \cup {0}
  BY AtWorkFacts
<1>2. Len(s) \in Nat /\ k - 1 \in 1 .. Len(s) /\ 1 \in 1 .. Len(s) /\ k - 1 # k
  BY <1>1, LenProperties
<1>3. Used' = Used /\ DOMAIN nxt = Used /\ DOMAIN nxt' = Used
  BY DEF Used, Heap
<1>4. /\ nx[s[k]] = s[1]
      /\ \A m \in Used \ {s[k]} :
            nx[m] = IF m = s[k - 1] THEN nxt[s[k]] ELSE nxt[m]
  BY <1>1, <1>3
<1> HIDE DEF nx
<1>5. Turned(nx, s, k)
  <2>1. ASSUME NEW i \in 1 .. Len(s), i # k
        PROVE  nx[s[i]] = IF i + 1 = k THEN At(s, k + 1) ELSE nxt[s[i]]
    <3>1. s[i] \in Used \ {s[k]} /\ (s[i] = s[k - 1] <=> i = k - 1)
      BY <2>1, <1>1, <1>2 DEF Distinct
    <3>2. nxt[s[k]] = At(s, k + 1)
      BY <1>1 DEF Chain
    <3>3. i = k - 1 <=> i + 1 = k
      BY <1>2
    <3> QED BY <3>1, <3>2, <3>3, <1>4
  <2> QED BY <2>1, <1>4 DEF Turned
<1>6. /\ t \in Seq(Nodes) /\ Distinct(t) /\ Chain(nx, At(t, 1), t)
      /\ At(t, 1) = s[k] /\ \A m : In(t, m) <=> In(s, m)
  <2>1. s \in Seq(Nodes) /\ Distinct(s) /\ Chain(nxt, Hdr(x), s)
    BY <1>1
  <2> QED BY <2>1, <1>5, PinChain
<1>7. Content(data, t) = ToFront(QueueOf(c), k)
  <2>1. s \in Seq(Nodes) /\ Fills(data, s, Clips)
    BY <1>1
  <2>2. Content(data, t) = ToFront(Content(data, s), k)
    BY <2>1, ContentMoveFirst
  <2> QED BY <2>2, <1>1
<1> HIDE DEF t
<1>8. \A m : In(s, m) => m \in Used
  BY <1>1 DEF In
<1>9. Moves(c, Content(data', t), PendingOf(c))
  <2>1. ctxs' = [x.list EXCEPT ![x.at] =
           [ip |-> c, playlist |-> At(t, 1), nextaction |-> PendingOf(c)]]
    BY <1>6
  <2>2. \A m \in Used : ~In(s, m) => nxt'[m] = nxt[m]
    <3> SUFFICES ASSUME NEW m \in Used, ~In(s, m) PROVE nxt'[m] = nxt[m]
      OBVIOUS
    <3>1. m # s[k] /\ m # s[k - 1]
      BY <1>2 DEF In
    <3> QED BY <3>1, <1>4 DEF nx
  <2>3. Exchanged(q[x.at], t)
    BY <2>2, <1>3, <1>6, <1>8 DEF Exchanged
  <2>4. t \in Seq(Nodes) /\ Distinct(t) /\ Chain(nxt', At(t, 1), t)
    BY <1>6 DEF nx
  <2> QED BY <2>1, <2>3, <2>4, <1>1, ListMoves
<1>10. Heap'
  BY <1>3 DEF Heap
<1> QED BY <1>7, <1>9, <1>10

-----------------------------------------------------------------------------
(* The requests, each at the context that GetVodContext finds for it.      *)

(* The queue of c is as long as the list of nodes it stands for.           *)
LEMMA QueueIsClips ==
    ASSUME Heap, NEW c \in Clients, NEW x, NEW q, AtWork(x, c, q)
    PROVE  /\ QueueOf(c) \in Seq(Clips) /\ Len(QueueOf(c)) = Len(q[x.at])
           /\ \A i \in 1 .. Len(q[x.at]) : QueueOf(c)[i] = data[q[x.at][i]]
           /\ Len(q[x.at]) \in Nat
           /\ QueueOf(c) = <<>> <=> q[x.at] = <<>>
<1> DEFINE s == q[x.at]
<1>1. /\ s \in Seq(Nodes) /\ QueueOf(c) = Content(data, s)
      /\ Fills(data, s, Clips)
  BY AtWorkFacts
<1> HIDE DEF s
<1>2. /\ Content(data, s) \in Seq(Clips) /\ Len(Content(data, s)) = Len(s)
      /\ \A i \in 1 .. Len(s) : Content(data, s)[i] = data[s[i]]
  BY <1>1, ContentIs
<1>3. Len(s) \in Nat
  BY <1>1, LenProperties
<1>4. QueueOf(c) \in Seq(Clips) /\ Len(QueueOf(c)) = Len(s)
  BY <1>1, <1>2
<1>5. QueueOf(c) = <<>> <=> s = <<>>
  BY <1>1, <1>4, EmptySeq
<1>6. \A i \in 1 .. Len(s) : QueueOf(c)[i] = data[s[i]]
  BY <1>1, <1>2
<1> QED BY <1>3, <1>4, <1>5, <1>6 DEF s

(* The head of a list is null when, and only when, the queue is empty.     *)
LEMMA EmptyIsNull ==
    ASSUME Heap, NEW c \in Clients, NEW x, NEW q, AtWork(x, c, q)
    PROVE  /\ Hdr(x) = Null <=> QueueOf(c) = <<>>
           /\ QueueOf(c) # <<>> => 1 \in 1 .. Len(q[x.at]) /\ Hdr(x) = q[x.at][1]
<1> DEFINE s == q[x.at]
<1>1. /\ \A i \in 1 .. Len(s) : s[i] \in Nodes
      /\ Hdr(x) = At(s, 1) /\ s \in Seq(Nodes)
  BY AtWorkFacts
<1>2. QueueOf(c) = <<>> <=> s = <<>>
  BY QueueIsClips
<1> HIDE DEF s
<1>3. Len(s) \in Nat /\ (s = <<>> <=> Len(s) = 0)
  BY <1>1, LenProperties, EmptySeq
<1>4. CASE Len(s) = 0
  BY <1>4, <1>1, <1>2, <1>3 DEF At
<1>5. CASE Len(s) # 0
  <2>1. 1 \in 1 .. Len(s)
    BY <1>5, <1>3
  <2>2. Hdr(x) = s[1] /\ s[1] # Null
    BY <2>1, <1>1 DEF At, Nodes, Null
  <2> QED BY <2>1, <2>2, <1>2, <1>3, <1>5 DEF s
<1> QED BY <1>4, <1>5 DEF s

(* A request that only has its context looked for.                         *)
LEMMA StayMoves ==
    ASSUME Heap, NEW c \in Clients, NEW x, NEW q, AtWork(x, c, q),
           Alone(x), down' \in BOOLEAN
    PROVE  Heap' /\ Moves(c, QueueOf(c), PendingOf(c))
<1>1. Edits(x, c, q[x.at])
  BY AtWorkContext
<1>2. ctxs' = [x.list EXCEPT ![x.at] =
         [ip |-> c, playlist |-> At(q[x.at], 1), nextaction |-> PendingOf(c)]]
  BY <1>1 DEF Edits, Alone
<1>3. UNCHANGED <<data, nxt, listcount>>
  BY DEF Alone
<1>4. PendingOf(c) \in Commands \cup {0}
  BY AtWorkFacts
<1> QED BY <1>2, <1>3, <1>4, AloneMoves

(* The context x of c with the command a.                                  *)
LEMMA Commanded ==
    ASSUME Heap, NEW c \in Clients, NEW x, NEW q, AtWork(x, c, q), NEW a
    PROVE  LET y == [x EXCEPT !.list[x.at].nextaction = a]
           IN  /\ y.list = [x.list EXCEPT ![x.at].nextaction = a]
               /\ y.at = x.at /\ Hdr(y) = Hdr(x)
<1> DEFINE y == [x EXCEPT !.list[x.at].nextaction = a]
           cl == x.list
           k == x.at
<1>1. /\ x = [list |-> cl, at |-> k] /\ Hdr(x) = At(q[k], 1)
      /\ Edits(x, c, q[k]) /\ k \in DOMAIN cl
  <2>1. x = [list |-> cl, at |-> k] /\ k \in DOMAIN cl
    BY DEF AtWork
  <2>2. Hdr(x) = At(q[x.at], 1)
    BY AtWorkFacts
  <2>3. Edits(x, c, q[x.at])
    BY AtWorkContext
  <2> QED BY <2>1, <2>2, <2>3
<1>2. y = [list |-> [cl EXCEPT ![k].nextaction = a], at |-> k]
  <2> HIDE DEF cl, k
  <2> QED BY <1>1
<1>3. [cl EXCEPT ![k].nextaction = a][k].playlist = At(q[k], 1)
  <2> DEFINE r == [ip |-> c, playlist |-> At(q[k], 1), nextaction |-> a]
  <2>1. [cl EXCEPT ![k].nextaction = a] = [cl EXCEPT ![k] = r]
    BY <1>1 DEF Edits
  <2>2. r.playlist = At(q[k], 1)
    OBVIOUS
  <2> HIDE DEF r, cl, k
  <2>3. [cl EXCEPT ![k] = r][k] = r
    BY <1>1
  <2> QED BY <2>1, <2>2, <2>3
<1>4. y.list = [cl EXCEPT ![k].nextaction = a] /\ y.at = k
  BY <1>2
<1>5. Hdr(y) = Hdr(x)
  <2> HIDE DEF y, cl, k
  <2> QED BY <1>1, <1>3, <1>4 DEF Hdr
<1> QED BY <1>4, <1>5

(* The first entry is taken out of the list.                               *)
LEMMA TakeMoves ==
    ASSUME Heap, MaxNodesAssumption,
           NEW c \in Clients, NEW x, NEW q, AtWork(x, c, q),
           QueueOf(c) # <<>>, NEW a \in Commands \cup {0},
           ctxs' = [x.list EXCEPT ![x.at] =
              [ip |-> c, playlist |-> nxt[Hdr(x)], nextaction |-> a]],
           data' = Without(data, Hdr(x)), nxt' = Without(nxt, Hdr(x)),
           listcount' = listcount - 1, down' \in BOOLEAN
    PROVE  Heap' /\ Moves(c, RemoveAt(QueueOf(c), 1), a)
<1> DEFINE s == q[x.at]
<1>1. 1 \in 1 .. Len(s) /\ Hdr(x) = s[1]
  BY EmptyIsNull
<1>2. nxt[Hdr(x)] = At(s, 2)
  <2>1. Chain(nxt, Hdr(x), s)
    BY AtWorkFacts
  <2>2. nxt[s[1]] = At(s, 1 + 1)
    BY <2>1, <1>1 DEF Chain
  <2> QED BY <2>2, <1>1
<1>3. ctxs' = [x.list EXCEPT ![x.at] =
         [ip |-> c, playlist |-> At(s, 2), nextaction |-> a]]
  BY <1>2
<1>4. /\ DOMAIN nxt' = Used \ {s[1]}
      /\ \A m \in Used \ {s[1]} : nxt'[m] = nxt[m]
  BY <1>1 DEF Without, Heap
<1>5. data' = Without(data, s[1])
  BY <1>1
<1>6. s = q[x.at]
  OBVIOUS
<1>7. Removed(x, c, s, 1, a)
  BY <1>3, <1>4, <1>5 DEF Removed
<1> HIDE DEF s
<1> QED BY <1>1, <1>6, <1>7, RemoveMoves

(* No action: the queues stay as they are.                                 *)
LEMMA ListOutcome ==
    ASSUME ListsInv, NoIpAssumption, MaxNodesAssumption, NEW c \in Clients,
           List(c)
    PROVE  Heap' /\ Moves(c, QueueOf(c), PendingOf(c))
<1>1. PICK q : AtWork(Context(c), c, q)
  BY ContextWorks
<1>2. Alone(Context(c)) /\ down' \in BOOLEAN /\ Heap
  BY DEF List, ListsInv, Heap
<1> QED BY <1>1, <1>2, StayMoves

(* Play: the player gets the first clip, which leaves the queue, and the   *)
(* pending command is void.                                                *)
LEMMA PlayOutcome ==
    ASSUME ListsInv, NoIpAssumption, MaxNodesAssumption, NEW c \in Clients,
           Play(c)
    PROVE  /\ Heap'
           /\ QueueOf(c) = <<>> => /\ Moves(c, QueueOf(c), 0)
                                   /\ Answered(c, NoIp)
           /\ QueueOf(c) # <<>> => /\ Moves(c, RemoveAt(QueueOf(c), 1), 0)
                                   /\ Answered(c, QueueOf(c)[1])
           /\ QueueOf(c) \in Seq(Clips)
<1> DEFINE x == Context(c)
           y == [x EXCEPT !.list[x.at].nextaction = 0]
<1>1. PICK q : AtWork(x, c, q)
  BY ContextWorks
<1>2. /\ Heap /\ down' \in BOOLEAN
      /\ IF Hdr(x) = Null THEN Alone(y) /\ Answered(c, NoIp)
         ELSE TakeFirst(y) /\ Answered(c, data[Hdr(x)])
  BY DEF Play, ListsInv, Heap
<1> HIDE DEF x
<1> DEFINE s == q[x.at]
<1>3. /\ y.list = [x.list EXCEPT ![x.at].nextaction = 0]
      /\ y.at = x.at /\ Hdr(y) = Hdr(x)
  BY <1>1, <1>2, Commanded
<1> HIDE DEF y
<1>4. Edits(x, c, s)
  BY <1>1, <1>2, AtWorkContext
<1>5. /\ Hdr(x) = Null <=> QueueOf(c) = <<>>
      /\ QueueOf(c) # <<>> => 1 \in 1 .. Len(s) /\ Hdr(x) = s[1]
  BY <1>1, <1>2, EmptyIsNull
<1>6. QueueOf(c) \in Seq(Clips) /\ \A i \in 1 .. Len(s) : QueueOf(c)[i] = data[s[i]]
  BY <1>1, <1>2, QueueIsClips
<1>7. ASSUME QueueOf(c) = <<>>
      PROVE  Heap' /\ Moves(c, QueueOf(c), 0) /\ Answered(c, NoIp)
  <2>1. ctxs' = y.list /\ UNCHANGED <<data, nxt, listcount>> /\ Answered(c, NoIp)
    BY <1>2, <1>5, <1>7 DEF Alone
  <2>2. ctxs' = [x.list EXCEPT ![x.at] =
           [ip |-> c, playlist |-> At(s, 1), nextaction |-> 0]]
    BY <2>1, <1>3, <1>4 DEF Edits
  <2>3. Heap' /\ Moves(c, QueueOf(c), 0)
    BY <2>1, <2>2, <1>1, <1>2, AloneMoves
  <2> QED BY <2>1, <2>3
<1>8. ASSUME QueueOf(c) # <<>>
      PROVE  /\ Heap' /\ Moves(c, RemoveAt(QueueOf(c), 1), 0)
             /\ Answered(c, QueueOf(c)[1])
  <2>1. /\ ctxs' = [y.list EXCEPT ![y.at].playlist = nxt[Hdr(x)]]
        /\ data' = Without(data, Hdr(x)) /\ nxt' = Without(nxt, Hdr(x))
        /\ listcount' = listcount - 1 /\ Answered(c, data[Hdr(x)])
    BY <1>2, <1>3, <1>5, <1>8 DEF TakeFirst, SetHdr
  <2>2. ctxs' = [x.list EXCEPT ![x.at] =
           [ip |-> c, playlist |-> nxt[Hdr(x)], nextaction |-> 0]]
    <3>1. ctxs' = [[x.list EXCEPT ![x.at].nextaction = 0]
                      EXCEPT ![x.at].playlist = nxt[Hdr(x)]]
      BY <2>1, <1>3
    <3> QED BY <3>1, <1>4 DEF Edits
  <2>3. data[Hdr(x)] = QueueOf(c)[1]
    BY <1>5, <1>6, <1>8
  <2>4. Heap' /\ Moves(c, RemoveAt(QueueOf(c), 1), 0)
    BY <2>1, <2>2, <1>1, <1>2, <1>8, TakeMoves
  <2> QED BY <2>1, <2>3, <2>4
<1> QED BY <1>6, <1>7, <1>8

(* Add: the clip comes last in the queue.                                  *)
LEMMA AddOutcome ==
    ASSUME ListsInv, NoIpAssumption, MaxNodesAssumption, NEW c \in Clients,
           NEW clip \in Clips, Add(c, clip)
    PROVE  Heap' /\ Moves(c, Put(QueueOf(c), clip), PendingOf(c))
<1>1. PICK q : AtWork(Context(c), c, q)
  BY ContextWorks
<1>2. Used # Nodes /\ AddEntry(Context(c), clip) /\ down' \in BOOLEAN /\ Heap
  BY DEF Add, ListsInv, Heap
<1> QED BY <1>1, <1>2, AddMoves

(* Control: the pending command is the one named.                          *)
LEMMA ControlOutcome ==
    ASSUME ListsInv, NoIpAssumption, MaxNodesAssumption, NEW c \in Clients,
           NEW a \in Commands \cup {0}, Control(c, a)
    PROVE  Heap' /\ Moves(c, QueueOf(c), a)
<1> DEFINE x == Context(c)
           y == [x EXCEPT !.list[x.at].nextaction = a]
<1>1. PICK q : AtWork(x, c, q)
  BY ContextWorks
<1>2. Heap /\ down' \in BOOLEAN /\ Alone(y)
  BY DEF Control, ListsInv, Heap
<1> HIDE DEF x
<1>3. y.list = [x.list EXCEPT ![x.at].nextaction = a]
  BY <1>1, <1>2, Commanded
<1> HIDE DEF y
<1>4. Edits(x, c, q[x.at])
  BY <1>1, <1>2, AtWorkContext
<1>5. ctxs' = y.list /\ UNCHANGED <<data, nxt, listcount>>
  BY <1>2 DEF Alone
<1>6. ctxs' = [x.list EXCEPT ![x.at] =
         [ip |-> c, playlist |-> At(q[x.at], 1), nextaction |-> a]]
  BY <1>3, <1>4, <1>5 DEF Edits
<1> QED BY <1>1, <1>2, <1>5, <1>6, AloneMoves

(* From hdr the index i leads to entry i + 1 of s, the one before it to     *)
(* that before, and beyond the end nowhere.                                *)
Leads(hdr, s, i) ==
    /\ NodeAt(hdr, i) # Null <=> i + 1 \in 1 .. Len(s)
    /\ i + 1 \in 1 .. Len(s) => NodeAt(hdr, i) = s[i + 1]
    /\ i # 0 /\ i + 1 \in 1 .. Len(s) => NodeAt(hdr, i - 1) = s[(i + 1) - 1]

(* So do the indices of the pages in the list of a context.                *)
LEMMA IndexLeads ==
    ASSUME Heap, NEW c \in Clients, NEW x, NEW q, AtWork(x, c, q), NEW i \in Nat
    PROVE  Leads(Hdr(x), q[x.at], i)
<1> DEFINE s == q[x.at]
<1>1. /\ s \in Seq(Nodes) /\ Chain(nxt, Hdr(x), s)
      /\ \A j \in 1 .. Len(s) : s[j] \in Nodes
  BY AtWorkFacts
<1> HIDE DEF s
<1>2. \A j \in Nat : NodeAt(Hdr(x), j) = At(s, j + 1)
  BY <1>1, NodeAtChain
<1>3. Len(s) \in Nat
  BY <1>1, LenProperties
<1>4. NodeAt(Hdr(x), i) # Null <=> i + 1 \in 1 .. Len(s)
  BY <1>1, <1>2 DEF At, Nodes, Null
<1>5. i + 1 \in 1 .. Len(s) => NodeAt(Hdr(x), i) = s[i + 1]
  BY <1>2 DEF At
<1>6. ASSUME i # 0, i + 1 \in 1 .. Len(s)
      PROVE  NodeAt(Hdr(x), i - 1) = s[(i + 1) - 1]
  <2>1. /\ i - 1 \in Nat /\ (i - 1) + 1 = i /\ i \in 1 .. Len(s)
        /\ (i + 1) - 1 = i
    BY <1>3, <1>6
  <2>2. NodeAt(Hdr(x), i - 1) = At(s, (i - 1) + 1)
    BY <2>1, <1>2
  <2> QED BY <2>1, <2>2 DEF At
<1> QED BY <1>4, <1>5, <1>6 DEF Leads, s

(* Pin: the entry comes first, unless there is none at this index.         *)
LEMMA PinOutcome ==
    ASSUME ListsInv, NoIpAssumption, MaxNodesAssumption, NEW c \in Clients,
           NEW i \in 0 .. MaxNodes, Pin(c, i)
    PROVE  /\ Heap'
           /\ \/ Moves(c, QueueOf(c), PendingOf(c))
              \/ \E k \in 1 .. Len(QueueOf(c)) :
                    Moves(c, ToFront(QueueOf(c), k), PendingOf(c))
<1> DEFINE x == Context(c)
           k == i + 1
<1>1. PICK q : AtWork(x, c, q)
  BY ContextWorks
<1>2. Heap /\ down' \in BOOLEAN /\ PinEntry(x, i)
  BY DEF Pin, ListsInv, Heap
<1> HIDE DEF x
<1> DEFINE s == q[x.at]
<1>3. /\ NodeAt(Hdr(x), i) # Null <=> k \in 1 .. Len(s)
      /\ k \in 1 .. Len(s) => NodeAt(Hdr(x), i) = s[k]
      /\ i # 0 /\ k \in 1 .. Len(s) => NodeAt(Hdr(x), i - 1) = s[k - 1]
  <2>1. i \in Nat
    BY DEF MaxNodesAssumption
  <2>2. Leads(Hdr(x), s, i)
    BY <2>1, <1>1, <1>2, IndexLeads
  <2> HIDE DEF s
  <2> QED BY <2>2 DEF Leads
<1>4. CASE NodeAt(Hdr(x), i) = Null \/ i = 0
  <2>1. Alone(x)
    BY <1>2, <1>4 DEF PinEntry
  <2> QED BY <2>1, <1>1, <1>2, StayMoves
<1>5. CASE NodeAt(Hdr(x), i) # Null /\ i # 0
  <2>1. k \in 1 .. Len(s) /\ k # 1
    BY <1>3, <1>5
  <2>2. /\ nxt' = [nxt EXCEPT ![s[k - 1]] = nxt[s[k]], ![s[k]] = Hdr(x)]
        /\ ctxs' = [x.list EXCEPT ![x.at].playlist = s[k]]
        /\ data' = data /\ listcount' = listcount
    BY <2>1, <1>2, <1>3, <1>5 DEF PinEntry, SetHdr
  <2>3. Hdr(x) = s[1] /\ Len(QueueOf(c)) = Len(s)
    <3>1. QueueOf(c) # <<>> => Hdr(x) = s[1]
      BY <1>1, <1>2, EmptyIsNull
    <3>2. Len(QueueOf(c)) = Len(s) /\ (QueueOf(c) = <<>> <=> s = <<>>)
      BY <1>1, <1>2, QueueIsClips
    <3>3. s # <<>>
      BY <2>1, EmptySeq
    <3> QED BY <3>1, <3>2, <3>3
  <2>4. Edits(x, c, s)
    BY <1>1, <1>2, AtWorkContext
  <2>5. s = q[x.at]
    OBVIOUS
  <2> HIDE DEF s, k
  <2>6. ctxs' = [x.list EXCEPT ![x.at] =
           [ip |-> c, playlist |-> s[k], nextaction |-> PendingOf(c)]]
    BY <2>2, <2>4 DEF Edits
  <2>7. nxt' = [nxt EXCEPT ![s[k - 1]] = nxt[s[k]], ![s[k]] = s[1]]
    BY <2>2, <2>3
  <2>8. Heap' /\ Moves(c, ToFront(QueueOf(c), k), PendingOf(c))
    BY <2>1, <2>2, <2>5, <2>6, <2>7, <1>1, <1>2, PinMoves
  <2> QED BY <2>1, <2>3, <2>8
<1> QED BY <1>4, <1>5

(* Del: the entry is gone, unless there is none at this index.             *)
LEMMA DelOutcome ==
    ASSUME ListsInv, NoIpAssumption, MaxNodesAssumption, NEW c \in Clients,
           NEW i \in 0 .. MaxNodes, Del(c, i)
    PROVE  /\ Heap'
           /\ \/ Moves(c, QueueOf(c), PendingOf(c))
              \/ \E k \in 1 .. Len(QueueOf(c)) :
                    Moves(c, RemoveAt(QueueOf(c), k), PendingOf(c))
<1> DEFINE x == Context(c)
           k == i + 1
<1>1. PICK q : AtWork(x, c, q)
  BY ContextWorks
<1>2. Heap /\ down' \in BOOLEAN /\ DelEntry(x, i)
  BY DEF Del, ListsInv
<1> HIDE DEF x
<1> DEFINE s == q[x.at]
<1>3. /\ NodeAt(Hdr(x), i) # Null <=> k \in 1 .. Len(s)
      /\ k \in 1 .. Len(s) => NodeAt(Hdr(x), i) = s[k]
      /\ i # 0 /\ k \in 1 .. Len(s) => NodeAt(Hdr(x), i - 1) = s[k - 1]
  <2>1. i \in Nat
    BY DEF MaxNodesAssumption
  <2>2. Leads(Hdr(x), s, i)
    BY <2>1, <1>1, <1>2, IndexLeads
  <2> HIDE DEF s
  <2> QED BY <2>2 DEF Leads
<1>4. Edits(x, c, s) /\ PendingOf(c) \in Commands \cup {0}
  BY <1>1, <1>2, AtWorkContext, AtWorkFacts
<1>5. Len(QueueOf(c)) = Len(s) /\ (QueueOf(c) = <<>> <=> s = <<>>)
  BY <1>1, <1>2, QueueIsClips
<1>6. CASE NodeAt(Hdr(x), i) = Null
  <2>1. Alone(x)
    BY <1>2, <1>6 DEF DelEntry
  <2> QED BY <2>1, <1>1, <1>2, StayMoves
<1>7. CASE NodeAt(Hdr(x), i) # Null /\ i = 0
  <2>1. TakeFirst(x)
    BY <1>2, <1>7 DEF DelEntry
  <2>2. 1 \in 1 .. Len(QueueOf(c)) /\ QueueOf(c) # <<>>
    <3>1. 1 \in 1 .. Len(s)
      BY <1>3, <1>7
    <3>2. s # <<>>
      BY <3>1, EmptySeq
    <3> QED BY <3>1, <3>2, <1>5
  <2>3. /\ ctxs' = [x.list EXCEPT ![x.at].playlist = nxt[Hdr(x)]]
        /\ data' = Without(data, Hdr(x)) /\ nxt' = Without(nxt, Hdr(x))
        /\ listcount' = listcount - 1
    BY <2>1 DEF TakeFirst, SetHdr
  <2>4. ctxs' = [x.list EXCEPT ![x.at] =
           [ip |-> c, playlist |-> nxt[Hdr(x)], nextaction |-> PendingOf(c)]]
    BY <2>3, <1>4 DEF Edits
  <2>5. Heap' /\ Moves(c, RemoveAt(QueueOf(c), 1), PendingOf(c))
    BY <2>2, <2>3, <2>4, <1>1, <1>2, <1>4, TakeMoves
  <2> QED BY <2>2, <2>5
<1>8. CASE NodeAt(Hdr(x), i) # Null /\ i # 0
  <2>1. k \in 1 .. Len(s) /\ k # 1
    BY <1>3, <1>8
  <2>2. /\ ctxs' = x.list /\ data' = Without(data, s[k])
        /\ nxt' = Without([nxt EXCEPT ![s[k - 1]] = nxt[s[k]]], s[k])
        /\ listcount' = listcount - 1
    BY <2>1, <1>2, <1>3, <1>8 DEF DelEntry
  <2>3. s = q[x.at]
    OBVIOUS
  <2>4. nxt[s[k]] = At(s, k + 1)
    <3>1. Chain(nxt, Hdr(x), s)
      BY <1>1, <1>2, AtWorkFacts
    <3> QED BY <3>1, <2>1 DEF Chain
  <2> HIDE DEF s, k
  <2>5. ctxs' = [x.list EXCEPT ![x.at] =
           [ip |-> c, playlist |-> At(s, 1), nextaction |-> PendingOf(c)]]
    BY <2>2, <1>4 DEF Edits
  <2>6. ctxs' = [x.list EXCEPT ![x.at] =
           [ip |-> c, playlist |-> IF k = 1 THEN At(s, 2) ELSE At(s, 1),
            nextaction |-> PendingOf(c)]]
    BY <2>1, <2>5
  <2>7. /\ DOMAIN nxt' = Used \ {s[k]}
        /\ \A m \in Used \ {s[k]} : nxt'[m] =
              IF k # 1 /\ m = s[k - 1] THEN At(s, k + 1) ELSE nxt[m]
    BY <2>1, <2>2, <2>4, <1>2 DEF Without, Heap
  <2>8. Removed(x, c, s, k, PendingOf(c))
    BY <2>2, <2>6, <2>7, <1>2 DEF Removed
  <2>9. Heap' /\ Moves(c, RemoveAt(QueueOf(c), k), PendingOf(c))
    BY <2>1, <2>3, <2>8, <1>1, <1>2, <1>4, RemoveMoves
  <2> QED BY <2>1, <2>9, <1>5
<1> QED BY <1>6, <1>7, <1>8

-----------------------------------------------------------------------------
(* The invariant.                                                          *)

(* It holds of the one context that no client has asked for yet.           *)
LEMMA ListInitInv ==
    ASSUME ListInit
    PROVE  ListsInv
<1> DEFINE p == [k \in {1} |-> <<>>]
<1>1. /\ ctxs = <<NewCtx(NoIp)>> /\ DOMAIN ctxs = {1} /\ ctxs[1] = NewCtx(NoIp)
      /\ Used = {} /\ DOMAIN nxt = {} /\ listcount = 0 /\ down = FALSE
  BY DEF ListInit, Used
<1>2. ctxs[1].playlist = Null
  BY <1>1 DEF NewCtx
<1>3. /\ <<>> \in Seq(Nodes) /\ Distinct(<<>>) /\ Chain(nxt, Null, <<>>)
      /\ \A n : ~In(<<>>, n)
  <2>1. <<>> \in Seq(Nodes) /\ Len(<<>>) = 0
    BY EmptySeq
  <2> QED BY <2>1 DEF In, Distinct, Chain, At
<1>4. p \in [{1} -> Seq(Nodes)] /\ p[1] = <<>>
  BY <1>3
<1> HIDE DEF p
<1>5. Lists(ctxs, nxt, Used, p)
  <2>1. \A k \in DOMAIN ctxs : Chain(nxt, ctxs[k].playlist, p[k]) /\ Distinct(p[k])
    BY <1>1, <1>2, <1>3, <1>4
  <2>2. \A k \in DOMAIN ctxs : \A n : ~In(p[k], n)
    BY <1>1, <1>3, <1>4
  <2> QED BY <2>1, <2>2, <1>1, <1>4 DEF Lists
<1>6. Heap
  <2>1. Cardinality({}) = 0
    BY FS_EmptySet
  <2> QED BY <2>1, <1>1 DEF Heap
<1> QED BY <1>1, <1>5, <1>6 DEF ListsInv

(* A step that moves the queues keeps it.                                  *)
LEMMA MovesKeep ==
    ASSUME Heap', NEW c, NEW queue, NEW pending, Moves(c, queue, pending)
    PROVE  ListsInv'
<1>1. Told(ctxs') /\ \E p : Lists(ctxs', nxt', Used', p)
  BY DEF Moves
<1> QED BY <1>1 DEF ListsInv

(* Every request does.                                                     *)
LEMMA RequestKeeps ==
    ASSUME ListsInv, NoIpAssumption, MaxNodesAssumption, NEW c \in Clients,
           Request(c)
    PROVE  ListsInv'
<1>1. CASE List(c)
  BY <1>1, ListOutcome, MovesKeep
<1>2. CASE Play(c)
  BY <1>2, PlayOutcome, MovesKeep
<1>3. ASSUME NEW clip \in Clips, Add(c, clip) PROVE ListsInv'
  BY <1>3, AddOutcome, MovesKeep
<1>4. ASSUME NEW i \in 0 .. MaxNodes, Pin(c, i) PROVE ListsInv'
  BY <1>4, PinOutcome, MovesKeep
<1>5. ASSUME NEW i \in 0 .. MaxNodes, Del(c, i) PROVE ListsInv'
  BY <1>5, DelOutcome, MovesKeep
<1>6. ASSUME NEW a \in Commands \cup {0}, Control(c, a) PROVE ListsInv'
  BY <1>6, ControlOutcome, MovesKeep
<1> QED BY <1>1, <1>2, <1>3, <1>4, <1>5, <1>6 DEF Request

(* So does a step that leaves the lists alone.                             *)
LEMMA ListsUnchanged ==
    ASSUME ListsInv, UNCHANGED listVars
    PROVE  ListsInv'
<1>1. /\ ctxs' = ctxs /\ nxt' = nxt /\ data' = data /\ Used' = Used
      /\ listcount' = listcount /\ down' = down
  BY DEF listVars, Used
<1>2. Heap'
  BY <1>1 DEF ListsInv, Heap
<1>3. \E p : Lists(ctxs', nxt', Used', p)
  BY <1>1 DEF ListsInv
<1>4. ctxs' = <<NewCtx(NoIp)>> \/ Told(ctxs')
  BY <1>1 DEF ListsInv
<1> QED BY <1>2, <1>3, <1>4 DEF ListsInv

(* It says that every entry is in one list, once.                          *)
LEMMA ListsInvAccounts ==
    ASSUME ListsInv, MaxNodesAssumption
    PROVE  EntriesAccounted
<1>1. PICK p : Lists(ctxs, nxt, Used, p)
  BY DEF ListsInv
<1>2. ASSUME NEW k \in DOMAIN ctxs
      PROVE  /\ \A n : n \in Reach(ctxs[k].playlist) <=> In(p[k], n)
             /\ NodeAt(ctxs[k].playlist, MaxNodes) = Null
  <2> DEFINE s == p[k]
             hdr == ctxs[k].playlist
  <2>1. s \in Seq(Nodes) /\ Distinct(s) /\ Chain(nxt, hdr, s)
    BY <1>1 DEF Lists
  <2> HIDE DEF s, hdr
  <2>2. \A n : n \in Reach(hdr) <=> In(s, n)
    BY <2>1, ReachChain
  <2>3. MaxNodes \in Nat /\ MaxNodes + 1 \notin 1 .. Len(s)
    BY <2>1, ChainFits DEF MaxNodesAssumption
  <2>4. NodeAt(hdr, MaxNodes) = At(s, MaxNodes + 1)
    BY <2>1, <2>3, NodeAtChain
  <2>5. NodeAt(hdr, MaxNodes) = Null
    BY <2>3, <2>4 DEF At
  <2> QED BY <2>2, <2>5 DEF s, hdr
<1>3. \A n : n \in Used <=> \E k \in DOMAIN ctxs : In(p[k], n)
  BY <1>1 DEF Lists
<1>4. Used = UNION {Reach(hdr) : hdr \in Heads}
  <2>1. ASSUME NEW n \in Used
        PROVE  n \in UNION {Reach(hdr) : hdr \in Heads}
    <3>1. PICK k \in DOMAIN ctxs : In(p[k], n)
      BY <1>3
    <3>2. n \in Reach(ctxs[k].playlist) /\ ctxs[k].playlist \in Heads
      BY <3>1, <1>2 DEF Heads
    <3> QED BY <3>2
  <2>2. ASSUME NEW hdr \in Heads, NEW n \in Reach(hdr) PROVE n \in Used
    <3>1. PICK k \in DOMAIN ctxs : hdr = ctxs[k].playlist
      BY DEF Heads
    <3>2. In(p[k], n)
      BY <3>1, <1>2, <2>2
    <3> QED BY <3>2, <1>3
  <2> QED BY <2>1, <2>2
<1>5. \A k, j \in DOMAIN ctxs :
         k # j => Reach(ctxs[k].playlist) \cap Reach(ctxs[j].playlist) = {}
  <2>1. \A k, j \in DOMAIN ctxs : \A n : In(p[k], n) /\ In(p[j], n) => k = j
    BY <1>1 DEF Lists
  <2> QED BY <2>1, <1>2
<1>6. \A hdr \in Heads : NodeAt(hdr, MaxNodes) = Null
  BY <1>2 DEF Heads
<1>7. listcount = Cardinality(Used)
  BY DEF ListsInv, Heap
<1> QED BY <1>4, <1>5, <1>6, <1>7 DEF EntriesAccounted

(* And that every variable has its type.                                   *)
LEMMA ListsInvType ==
    ASSUME ListsInv, MaxNodesAssumption
    PROVE  /\ \A k \in DOMAIN ctxs :
                 /\ ctxs[k].ip \in Clients \cup {NoIp}
                 /\ ctxs[k].playlist \in Used \cup {Null}
                 /\ ctxs[k].nextaction \in Commands \cup {0}
           /\ Used \subseteq Nodes /\ DOMAIN nxt = Used
           /\ \A n \in Used : data[n] \in Clips /\ nxt[n] \in Used \cup {Null}
           /\ listcount \in Nat /\ down \in BOOLEAN
<1>1. PICK p : Lists(ctxs, nxt, Used, p)
  BY DEF ListsInv
<1>2. \A k \in DOMAIN ctxs : \A i : At(p[k], i) \in Used \cup {Null}
  <2>1. \A k \in DOMAIN ctxs : \A n : In(p[k], n) => n \in Used
    BY <1>1 DEF Lists
  <2> QED BY <2>1 DEF At, In
<1>3. ASSUME NEW k \in DOMAIN ctxs
      PROVE  /\ ctxs[k].ip \in Clients \cup {NoIp}
             /\ ctxs[k].playlist \in Used \cup {Null}
             /\ ctxs[k].nextaction \in Commands \cup {0}
  <2>1. ctxs[k].playlist \in Used \cup {Null}
    BY <1>1, <1>2 DEF Lists, Chain
  <2>2. CASE ctxs = <<NewCtx(NoIp)>>
    <3>1. ctxs[k] = NewCtx(NoIp)
      BY <2>2
    <3> QED BY <3>1, <2>1 DEF NewCtx
  <2>3. CASE Told(ctxs)
    <3>1. ctxs[k] \in Ctx
      BY <2>3, LenProperties, ElementOfSeq DEF Told
    <3> QED BY <3>1, <2>1 DEF Ctx
  <2> QED BY <2>2, <2>3 DEF ListsInv
<1>4. ASSUME NEW n \in Used
      PROVE  data[n] \in Clips /\ nxt[n] \in Used \cup {Null}
  <2>1. PICK k \in DOMAIN ctxs : In(p[k], n)
    BY <1>1 DEF Lists
  <2>2. PICK i \in 1 .. Len(p[k]) : p[k][i] = n
    BY <2>1 DEF In
  <2>3. nxt[n] = At(p[k], i + 1)
    BY <1>1, <2>2 DEF Lists, Chain
  <2> QED BY <2>3, <1>2 DEF ListsInv, Heap
<1>5. Used \subseteq Nodes /\ DOMAIN nxt = Used /\ down \in BOOLEAN
  BY DEF ListsInv, Heap
<1>6. listcount \in Nat
  BY UsedIsFinite DEF ListsInv, Heap
<1> QED BY <1>3, <1>4, <1>5, <1>6

(* The lists that the invariant names are those the clients see.           *)
QueuesAreIn ==
    \A p, c : Lists(ctxs, nxt, Used, p) =>
        /\ QueueOf(c) = QueueIn(ctxs, data, p, c)
        /\ PendingOf(c) = PendingIn(ctxs, c)

(* A step that moves the queues, as its clients see it.                    *)
LEMMA MovesSeen ==
    ASSUME QueuesAreIn', NEW c \in Clients, NEW queue, NEW pending,
           Moves(c, queue, pending)
    PROVE  \A d \in Clients :
              /\ QueueOf(d)' = IF d = c THEN queue ELSE QueueOf(d)
              /\ PendingOf(d)' = IF d = c THEN pending ELSE PendingOf(d)
<1>1. PICK q : /\ Lists(ctxs', nxt', Used', q)
              /\ \A d \in Clients :
                    QueueIn(ctxs', data', q, d) =
                       IF d = c THEN queue ELSE QueueOf(d)
  BY DEF Moves
<1>2. \A d \in Clients :
         PendingIn(ctxs', d) = IF d = c THEN pending ELSE PendingOf(d)
  BY DEF Moves
<1>3. \A d : /\ QueueOf(d)' = QueueIn(ctxs', data', q, d)
             /\ PendingOf(d)' = PendingIn(ctxs', d)
  BY <1>1 DEF QueuesAreIn
<1> QED BY <1>1, <1>2, <1>3

(* What the clients see are sequences of clips.                            *)
LEMMA QueueIsSeq ==
    ASSUME ListsInv, NoIpAssumption, MaxNodesAssumption, NEW c \in Clients
    PROVE  QueueOf(c) \in Seq(Clips)
<1>1. PICK q : AtWork(Context(c), c, q)
  BY ContextWorks
<1> QED BY <1>1, QueueIsClips DEF ListsInv

=============================================================================
