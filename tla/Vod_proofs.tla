----------------------------- MODULE Vod_proofs -----------------------------
(***************************************************************************)
(* Theorems about the VOD server, for any files, any number of clients and *)
(* any number of entries: its catalogue can be searched and its categories *)
(* are right, its linked lists lose, share and leak no entry, and what the *)
(* clients see of them are queues.  The inductive invariants are those of  *)
(* VodCatalog_proofs and VodLists_proofs.                                  *)
(***************************************************************************)
EXTENDS Vod, VodCatalog_proofs, VodLists_proofs

Inv == CatInv /\ ListsInv

(* Both parts hold initially, and no step disturbs either.                 *)
LEMMA InvHolds == Spec => []Inv
<1>1. Init => Inv
  BY CatInitInv, ListInitInv, NamesAssumption DEF Init, Inv
<1>2. Inv /\ [Next]_vars => Inv'
  <2> SUFFICES ASSUME Inv, [Next]_vars PROVE Inv'
    OBVIOUS
  <2>1. CatInv /\ ListsInv
    BY DEF Inv
  <2>2. CASE Scan
    <3>1. PICK f \in Files : AddClip(f) /\ UNCHANGED listVars
      BY <2>2 DEF Scan
    <3>2. CatInv'
      BY <2>1, <3>1, AddClipKeeps, NamesAssumption, TitleRangeAssumption
    <3>3. ListsInv'
      BY <2>1, <3>1, ListsUnchanged
    <3> QED BY <3>2, <3>3 DEF Inv
  <2>3. CASE Serve
    <3>1. PICK c \in Clients : Request(c) /\ UNCHANGED catVars
      BY <2>3 DEF Serve
    <3>2. CatInv'
      BY <2>1, <3>1, CatUnchanged
    <3>3. ListsInv'
      BY <2>1, <3>1, RequestKeeps, NoIpAssumption, MaxNodesAssumption
    <3> QED BY <3>2, <3>3 DEF Inv
  <2>4. CASE UNCHANGED vars
    <3>1. UNCHANGED catVars /\ UNCHANGED listVars
      BY <2>4 DEF vars
    <3>2. CatInv'
      BY <2>1, <3>1, CatUnchanged
    <3>3. ListsInv'
      BY <2>1, <3>1, ListsUnchanged
    <3> QED BY <3>2, <3>3 DEF Inv
  <2> QED BY <2>2, <2>3, <2>4 DEF Next
<1> QED BY <1>1, <1>2, PTL DEF Spec

(* Every variable has its type.                                            *)
THEOREM TypeCorrect == Spec => []TypeOK
<1>1. Inv => TypeOK
  <2> SUFFICES ASSUME Inv PROVE TypeOK
    OBVIOUS
  <2>1. CatInv /\ ListsInv
    BY DEF Inv
  <2>2. /\ \A k \in DOMAIN cats :
             /\ cats[k].count \in Nat /\ cats[k].hash \in Nat
             /\ ToSet(cats[k].clips) \subseteq Files
        /\ Added \subseteq Files /\ \A f \in Added : hash[f] \in hashmap
    BY <2>1, CatInvType
  <2>3. /\ \A k \in DOMAIN ctxs :
             /\ ctxs[k].ip \in Clients \cup {NoIp}
             /\ ctxs[k].playlist \in Used \cup {Null}
             /\ ctxs[k].nextaction \in Commands \cup {0}
        /\ Used \subseteq Nodes /\ DOMAIN nxt = Used
        /\ \A n \in Used : data[n] \in Clips /\ nxt[n] \in Used \cup {Null}
        /\ listcount \in Nat /\ down \in BOOLEAN
    BY <2>1, ListsInvType, MaxNodesAssumption
  <2> QED BY <2>2, <2>3 DEF TypeOK
<1> QED BY <1>1, InvHolds, PTL

(* A clip is found again by the number that was given to it, and no other  *)
(* clip with it: GetClipByHash returns what AddClip stored, however names  *)
(* collide.                                                                *)
THEOREM Findable == Spec => []FindableById
<1>1. Inv => FindableById
  BY CatInvFindable DEF Inv
<1> QED BY <1>1, InvHolds, PTL

(* Every clip is in one category: FindCategory and AddClip keep each list  *)
(* in order of title, and the count of a category the length of its list.  *)
THEOREM CategoriesCorrect == Spec => []CategoriesAreSound
<1>1. Inv => CategoriesAreSound
  BY CatInvSound DEF Inv
<1> QED BY <1>1, InvHolds, PTL

(* Every entry that plAddEntry allocates is in one list, once, until it is *)
(* freed: the linked lists of the clients lose, share and leak none, and   *)
(* listcount is right.                                                     *)
THEOREM EntriesCorrect == Spec => []EntriesAccounted
<1>1. Inv => EntriesAccounted
  BY ListsInvAccounts, MaxNodesAssumption DEF Inv
<1> QED BY <1>1, InvHolds, PTL

-----------------------------------------------------------------------------
(* The queues and the pending commands, as the refinement maps them.       *)
Queue == [c \in Clients |-> QueueOf(c)]

Pending == [c \in Clients |-> PendingOf(c)]

(* A step that moves the queues changes those of one client.               *)
LEMMA MovesQueue ==
    ASSUME QueuesAreIn', NEW c \in Clients, NEW queue, NEW pending,
           Moves(c, queue, pending)
    PROVE  /\ Queue' = [Queue EXCEPT ![c] = queue]
           /\ Pending' = [Pending EXCEPT ![c] = pending]
           /\ queue = QueueOf(c) => Queue' = Queue
           /\ pending = PendingOf(c) => Pending' = Pending
<1>1. \A d \in Clients :
         /\ QueueOf(d)' = IF d = c THEN queue ELSE QueueOf(d)
         /\ PendingOf(d)' = IF d = c THEN pending ELSE PendingOf(d)
  BY MovesSeen
<1> QED BY <1>1 DEF Queue, Pending

(* A step that leaves the lists alone changes nothing that clients see.    *)
LEMMA QueuesUnchanged ==
    ASSUME ListsInv, QueuesAreIn, QueuesAreIn', UNCHANGED listVars
    PROVE  Queue' = Queue /\ Pending' = Pending
<1>1. PICK p : Lists(ctxs, nxt, Used, p)
  BY DEF ListsInv
<1>2. ctxs' = ctxs /\ nxt' = nxt /\ data' = data /\ Used' = Used
  BY DEF listVars, Used
<1>3. Lists(ctxs', nxt', Used', p)
  BY <1>1, <1>2
<1>4. \A c : /\ QueueOf(c) = QueueIn(ctxs, data, p, c)
             /\ PendingOf(c) = PendingIn(ctxs, c)
  BY <1>1 DEF QueuesAreIn
<1>5. \A c : /\ QueueOf(c)' = QueueIn(ctxs', data', p, c)
             /\ PendingOf(c)' = PendingIn(ctxs', c)
  BY <1>3 DEF QueuesAreIn
<1>6. \A c : QueueOf(c)' = QueueOf(c) /\ PendingOf(c)' = PendingOf(c)
  BY <1>2, <1>4, <1>5
<1> QED BY <1>6 DEF Queue, Pending

(* The lists start as empty queues without a pending command.              *)
LEMMA QueuesStart == Init => Queues!Init
<1> SUFFICES ASSUME Init PROVE Queues!Init
  OBVIOUS
<1>1. /\ DOMAIN ctxs = {1} /\ ctxs[1].ip = NoIp /\ down = FALSE
      /\ served = [client |-> NoIp, clip |-> NoIp]
  BY DEF Init, ListInit, NewCtx
<1>2. \A c \in Clients : OwnCtx(c) = {}
  BY <1>1, NoIpAssumption DEF OwnCtx
<1>3. \A c \in Clients : QueueOf(c) = <<>> /\ PendingOf(c) = 0
  BY <1>2 DEF QueueOf, PendingOf
<1> QED BY <1>1, <1>3 DEF Queues!Init, Queues!None, NoIp

(* What a request does is what module VodQueues says of it: a request that *)
(* only shows the list is a look at it, and so is one to pin an entry that *)
(* is not there.                                                           *)
LEMMA RequestIsStep ==
    ASSUME Inv, QueuesAreIn', Serve
    PROVE  Queues!Next
<1>1. PICK c \in Clients : Request(c)
  BY DEF Serve
<1>2. ListsInv /\ ~down
  BY DEF Inv, Serve, Ready
<1>3. NoIpAssumption /\ MaxNodesAssumption
  BY NoIpAssumption, MaxNodesAssumption
<1>4. Queue[c] = QueueOf(c) /\ Pending[c] = PendingOf(c)
  BY DEF Queue, Pending
<1>5. ASSUME Moves(c, QueueOf(c), PendingOf(c))
      PROVE  Queue' = Queue /\ Pending' = Pending
  BY <1>5, MovesQueue
<1>0. \A s, k : Queues!RemoveAt(s, k) = RemoveAt(s, k)
  BY DEF Queues!RemoveAt, RemoveAt
<1> DEFINE Goal ==
       \/ Queues!Look(c) \/ Queues!Play(c)
       \/ \E a \in Commands \cup {0} : Queues!Command(c, a)
       \/ \E x \in Clips : Queues!Add(c, x)
       \/ \E i \in DOMAIN Queue[c] : Queues!Pin(c, i)
       \/ \E i \in 0 .. Len(Queue[c]) : Queues!Del(c, i)
<1>6. ASSUME Queue' = Queue, Pending' = Pending, Answered(c, NoIp), down' = down
      PROVE  Goal
  <2>1. Queues!Look(c)
    BY <1>6 DEF Queues!Look, Queues!Answered, Queues!None, Answered, NoIp,
                Queue, Pending
  <2> QED BY <2>1
<1>7. ASSUME List(c) PROVE Goal
  <2>1. Answered(c, NoIp) /\ down' = down
    BY <1>7 DEF List
  <2>2. Moves(c, QueueOf(c), PendingOf(c))
    BY <1>1, <1>2, <1>3, <1>7, ListOutcome
  <2> QED BY <2>1, <2>2, <1>5, <1>6
<1>8. ASSUME Play(c) PROVE Goal
  <2>1. down' = down
    BY <1>8 DEF Play
  <2>2. /\ QueueOf(c) = <<>> => Moves(c, QueueOf(c), 0) /\ Answered(c, NoIp)
        /\ QueueOf(c) # <<>> => /\ Moves(c, RemoveAt(QueueOf(c), 1), 0)
                                /\ Answered(c, QueueOf(c)[1])
        /\ QueueOf(c) \in Seq(Clips)
    BY <1>2, <1>3, <1>8, PlayOutcome
  <2> DEFINE rest == IF QueueOf(c) = <<>> THEN QueueOf(c) ELSE Tail(QueueOf(c))
             clip == IF QueueOf(c) = <<>> THEN NoIp ELSE Head(QueueOf(c))
  <2>3. Queue' = [Queue EXCEPT ![c] = rest] /\ Pending' = [Pending EXCEPT ![c] = 0]
    <3>1. CASE QueueOf(c) = <<>>
      <4>1. Moves(c, QueueOf(c), 0) /\ rest = QueueOf(c)
        BY <3>1, <2>2
      <4> HIDE DEF rest
      <4> QED BY <4>1, MovesQueue
    <3>2. CASE QueueOf(c) # <<>>
      <4>1. RemoveAt(QueueOf(c), 1) = Tail(QueueOf(c))
        BY <3>2, <2>2, RemoveFirstIsTail
      <4>2. Moves(c, RemoveAt(QueueOf(c), 1), 0) /\ rest = RemoveAt(QueueOf(c), 1)
        BY <4>1, <3>2, <2>2
      <4> HIDE DEF rest
      <4> QED BY <4>2, MovesQueue
    <3> QED BY <3>1, <3>2
  <2>4. Answered(c, clip)
    <3>1. QueueOf(c) # <<>> => Head(QueueOf(c)) = QueueOf(c)[1]
      BY <2>2
    <3> QED BY <3>1, <2>2
  <2>5. Queues!Play(c)
    BY <2>1, <2>3, <2>4, <1>4 DEF Queues!Play, Queues!Answered, Queues!None,
       Answered, NoIp, Queue, Pending
  <2> QED BY <2>5
<1>9. ASSUME NEW clip \in Clips, Add(c, clip) PROVE Goal
  <2>1. Moves(c, Put(QueueOf(c), clip), PendingOf(c))
    BY <1>2, <1>3, <1>9, AddOutcome
  <2>2. /\ Queue' = [Queue EXCEPT ![c] = Put(QueueOf(c), clip)]
        /\ Pending' = Pending
    BY <2>1, MovesQueue
  <2>3. Answered(c, NoIp) /\ down' = down
    BY <1>9 DEF Add
  <2>4. Queues!Add(c, clip)
    BY <2>2, <2>3, <1>4 DEF Queues!Add, Queues!Answered, Queues!None,
       Answered, NoIp, Queue, Pending, Put
  <2> QED BY <2>4
<1>10. ASSUME NEW i \in 0 .. MaxNodes, Pin(c, i) PROVE Goal
  <2>1. Answered(c, NoIp) /\ down' = down
    BY <1>10 DEF Pin
  <2>2. \/ Moves(c, QueueOf(c), PendingOf(c))
        \/ \E k \in 1 .. Len(QueueOf(c)) :
              Moves(c, ToFront(QueueOf(c), k), PendingOf(c))
    BY <1>2, <1>3, <1>10, PinOutcome
  <2>3. ASSUME NEW k \in 1 .. Len(QueueOf(c)),
               Moves(c, ToFront(QueueOf(c), k), PendingOf(c))
        PROVE  Goal
    <3>1. /\ Queue' = [Queue EXCEPT ![c] = ToFront(QueueOf(c), k)]
          /\ Pending' = Pending
      BY <2>3, MovesQueue
    <3>2. k \in DOMAIN Queue[c]
      <4>1. QueueOf(c) \in Seq(Clips)
        BY <1>2, <1>3, QueueIsSeq
      <4> QED BY <4>1, <1>4, LenProperties
    <3>3. Queues!Pin(c, k)
      BY <3>1, <2>1, <1>4, <1>0 DEF Queues!Pin, Queues!Answered, Queues!None,
         Answered, NoIp, Queue, Pending, ToFront
    <3> QED BY <3>2, <3>3
  <2> QED BY <2>1, <2>2, <2>3, <1>5, <1>6
<1>11. ASSUME NEW i \in 0 .. MaxNodes, Del(c, i) PROVE Goal
  <2>1. Answered(c, NoIp) /\ down' \in BOOLEAN
    BY <1>11 DEF Del
  <2>2. \/ Moves(c, QueueOf(c), PendingOf(c))
        \/ \E k \in 1 .. Len(QueueOf(c)) :
              Moves(c, RemoveAt(QueueOf(c), k), PendingOf(c))
    BY <1>2, <1>3, <1>11, DelOutcome
  <2>3. QueueOf(c) \in Seq(Clips)
    BY <1>2, <1>3, QueueIsSeq
  <2>4. Len(QueueOf(c)) \in Nat /\ DOMAIN QueueOf(c) = 1 .. Len(QueueOf(c))
    BY <2>3, LenProperties
  <2>5. ASSUME Moves(c, QueueOf(c), PendingOf(c)) PROVE Goal
    <3>1. Queue' = Queue /\ Pending' = Pending
      BY <2>5, <1>5
    <3>2. 0 \notin DOMAIN QueueOf(c) /\ 0 \in 0 .. Len(Queue[c])
      BY <2>4, <1>4
    <3>3. Queues!Del(c, 0)
      BY <3>1, <3>2, <2>1, <1>4, <1>0 DEF Queues!Del, Queues!Answered, Queues!None,
         Answered, NoIp, Queue, Pending
    <3> QED BY <3>2, <3>3
  <2>6. ASSUME NEW k \in 1 .. Len(QueueOf(c)),
               Moves(c, RemoveAt(QueueOf(c), k), PendingOf(c))
        PROVE  Goal
    <3>1. /\ Queue' = [Queue EXCEPT ![c] = RemoveAt(QueueOf(c), k)]
          /\ Pending' = Pending
      BY <2>6, MovesQueue
    <3>2. k \in DOMAIN QueueOf(c) /\ k \in 0 .. Len(Queue[c])
      BY <2>4, <1>4
    <3>3. Queues!Del(c, k)
      BY <3>1, <3>2, <2>1, <1>4, <1>0 DEF Queues!Del, Queues!Answered, Queues!None,
         Answered, NoIp, Queue, Pending
    <3> QED BY <3>2, <3>3
  <2> QED BY <2>2, <2>5, <2>6
<1>12. ASSUME NEW a \in Commands \cup {0}, Control(c, a) PROVE Goal
  <2>1. Moves(c, QueueOf(c), a)
    BY <1>2, <1>3, <1>12, ControlOutcome
  <2>2. Queue' = Queue /\ Pending' = [Pending EXCEPT ![c] = a]
    BY <2>1, MovesQueue
  <2>3. Answered(c, NoIp) /\ down' = down
    BY <1>12 DEF Control
  <2>4. Queues!Command(c, a)
    BY <2>2, <2>3, <1>4 DEF Queues!Command, Queues!Answered, Queues!None,
       Answered, NoIp, Queue, Pending
  <2> QED BY <2>4
<1>13. Goal
  <2> HIDE DEF Goal
  <2> QED BY <1>1, <1>7, <1>8, <1>9, <1>10, <1>11, <1>12 DEF Request
<1> QED BY <1>2, <1>13 DEF Queues!Next, Queue

(* The VOD server keeps the promise of module VodQueues: whatever contexts *)
(* GetVodContext makes and however the entries are threaded through the    *)
(* heap, every client has a queue of its own, from which its player is     *)
(* given each clip in order and once.                                      *)
THEOREM Implementation == Spec => ImplementsQueues
<1>1. Init => Queues!Init
  BY QueuesStart
<1>2. QueuesAreIn
  BY QueueIsIn, MaxNodesAssumption DEF QueuesAreIn
<1>3. /\ Inv /\ QueuesAreIn /\ QueuesAreIn' /\ [Next]_vars
      => [Queues!Next]_(Queues!queueVars)
  <2> SUFFICES ASSUME Inv, QueuesAreIn, QueuesAreIn', [Next]_vars
               PROVE  [Queues!Next]_(Queues!queueVars)
    OBVIOUS
  <2>1. ASSUME UNCHANGED listVars PROVE UNCHANGED Queues!queueVars
    <3>1. Queue' = Queue /\ Pending' = Pending
      BY <2>1, QueuesUnchanged DEF Inv
    <3>2. served' = served /\ down' = down
      BY <2>1 DEF listVars
    <3> QED BY <3>1, <3>2 DEF Queues!queueVars, Queue, Pending
  <2>2. CASE Scan
    BY <2>1, <2>2 DEF Scan
  <2>3. CASE Serve
    BY <2>3, RequestIsStep
  <2>4. CASE UNCHANGED vars
    BY <2>1, <2>4 DEF vars
  <2> QED BY <2>2, <2>3, <2>4 DEF Next
<1> QED BY <1>1, <1>2, <1>3, InvHolds, PTL DEF Spec, ImplementsQueues, Queues!Spec

=============================================================================
