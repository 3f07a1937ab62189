-------------------------- MODULE HttpServer_proofs --------------------------
(* Theorems about HttpServer, for any number of structures, descriptors    *)
(* and requests.                                                           *)
EXTENDS HttpServer, FiniteSetTheorems, TLAPS

-----------------------------------------------------------------------------
(* The inductive invariant.                                                *)

Working == {"read", "dispatch", "file", "start", "write", "close"}

(* What holds of the fields of a structure at every moment.                *)
ObjectsExact(c) ==
    /\ c.live["mp"]      = IF c.pxMP # "none" THEN 1 ELSE 0
    /\ c.live["payload"] = IF c.payload THEN 1 ELSE 0
    /\ c.live["path"]    = IF c.path THEN 1 ELSE 0

SessionExact(c) ==
    /\ c.live["ptr"] = IF c.ptr THEN 1 ELSE 0
    /\ c.phase # "none" =>
         /\ c.toFree <=> c.ptr
         /\ c.live["stream"] = IF "stream" \in c.source /\ c.handler THEN 1 ELSE 0

Shape(c) ==
    /\ c.pxMP = "none" => c.up = Null
    /\ c.socket = Null => /\ c.fd = Null
                          /\ c.pxMP = "none" /\ ~c.payload /\ ~c.path
    /\ c.socket = Null /\ c.phase # "none" => ~c.ptr /\ c.live["stream"] = 0
    /\ c.phase = "none" => c.source = {} /\ ~c.toFree
    /\ c.phase = "receiving" =>
         /\ c.fd = Null /\ ~c.ptr /\ ~c.handler /\ ~c.data
         /\ c.source \subseteq {"redirect"}
    /\ c.fd # Null => c.fd # c.socket
    /\ c.up # Null => c.up # c.socket /\ c.up # c.fd

ConnInv(c) == ObjectsExact(c) /\ SessionExact(c) /\ Shape(c)

(* What moreover holds of a connection between two calls.                  *)
Settled(c) ==
    /\ c.phase = "receiving" /\ c.socket # Null =>
         /\ c.source = {}
         /\ ~c.path => /\ c.pxMP = "none" /\ ~c.payload
                       /\ ~c.close /\ ~c.post /\ ~c.hdr
         /\ c.path => c.hdr \/ (c.post /\ c.pxMP = "boundary")
    /\ c.phase = "sending" /\ c.socket # Null /\ c.data
       /\ c.source \cap {"redirect", "raw", "stream"} = {} => c.fd # Null

(* What holds of the connection the loop works on, at each label.          *)
Stage(label, c) ==
    /\ label # "close" => c.socket # Null
    /\ label \in {"read", "dispatch"} => c.phase = "receiving"
    /\ label \in {"file", "start", "write"} => c.phase = "sending"
    /\ label = "file" => /\ ~c.ptr /\ ~c.data
                         /\ c.source \cap {"raw", "stream"} = {}
    /\ label = "start" => c.source \cap {"raw", "stream", "redirect"} # {}
    /\ label = "close" => c.phase # "none"
    /\ label \in {"read", "write"} => Settled(c)

(* Where the thread is, what is still to be visited, what is allocated.    *)
Position ==
    /\ pc \in Working <=> cur # Null
    /\ pc \in {"top", "accept", "stopped"} => todo = {}
    /\ pc = "cleanup" => todo = list
    /\ pc = "stopped" => list = {}
    /\ list = {s \in Structs : mem[s] = "allocated"}
    /\ todo \subseteq list
    /\ cur # Null => cur \in list
    /\ orphan # Null => pc \in {"cleanup", "stopped"}

(* A structure that is not allocated has no connection.                    *)
Unlisted(s) ==
    /\ conn[s].socket = Null
    /\ mem[s] = "never" => /\ conn[s].phase = "none" /\ ~conn[s].ptr
                           /\ conn[s].live["stream"] = 0

ConnsInv ==
    \A s \in Structs :
        /\ ConnInv(conn[s])
        /\ s # cur => Settled(conn[s])
        /\ s = cur => Stage(pc, conn[s])
        /\ s \notin list => Unlisted(s)

IndInv ==
    /\ TypeOK /\ Position /\ ConnsInv
    /\ DescriptorsOwned /\ ClientCountExact

-----------------------------------------------------------------------------
(* _mwCloseSocket.                                                         *)

(* _mwCloseSocket frees only objects the connection has allocated.         *)
LEMMA FreesBound ==
    ASSUME NEW c \in Conn, ConnInv(c)
    PROVE  /\ Frees(c) \subseteq Kinds
           /\ \A k \in Frees(c) : c.live[k] >= 1
  BY DEF Frees, Conn, Kinds, ConnInv, ObjectsExact, SessionExact, Shape

(* What it releases leaves fields of the right type.                       *)
LEMMA ReleasedType ==
    ASSUME NEW c \in Conn, ConnInv(c)
    PROVE  Released(c) \in Conn
<1>1. [k \in Kinds |-> IF k \in Frees(c) THEN c.live[k] - 1 ELSE c.live[k]]
        \in [Kinds -> Nat]
  BY FreesBound DEF Conn
<1> DEFINE h  == c.handler /\ "stream" \notin c.source
           p  == c.ptr /\ ~c.toFree
           f  == c.toFree /\ ~c.ptr
           u  == IF c.pxMP = "none" THEN c.up ELSE Null
           l  == [k \in Kinds |-> IF k \in Frees(c) THEN c.live[k] - 1
                                                  ELSE c.live[k]]
<1>2. h \in BOOLEAN /\ p \in BOOLEAN /\ f \in BOOLEAN
  OBVIOUS
<1>3. u \in Descs \cup {Null}
  BY DEF Conn
<1> HIDE DEF h, p, f, u, l
<1>4. [c EXCEPT !.fd = Null, !.up = u, !.pxMP = "none", !.payload = FALSE,
                !.path = FALSE, !.handler = h, !.ptr = p, !.toFree = f,
                !.live = l] \in Conn
  BY ZenonT(40), <1>1, <1>2, <1>3 DEF Conn, l
<1> QED
  BY <1>4 DEF Released, h, p, f, u, l

(* The fields once everything of a request has been released.              *)
LEMMA ReleasedFields ==
    ASSUME NEW c \in Conn, ConnInv(c)
    PROVE  LET r == Released(c)
           IN  /\ r.socket = c.socket /\ r.fd = Null /\ r.up = Null
               /\ r.phase = c.phase /\ r.close = c.close
               /\ r.source = c.source /\ r.reqs = c.reqs
               /\ r.data = c.data
               /\ r.pxMP = "none" /\ ~r.payload /\ ~r.path
               /\ r.handler = (c.handler /\ "stream" \notin c.source)
               /\ r.ptr = (c.ptr /\ ~c.toFree)
               /\ r.toFree = (c.toFree /\ ~c.ptr)
               /\ r.live = [k \in Kinds |-> IF k \in Frees(c)
                                            THEN c.live[k] - 1 ELSE c.live[k]]
  BY DEF Released, Conn, ConnInv, Shape

(* Outside an expiry it frees every object the connection holds.           *)
LEMMA ReleasedObjects ==
    ASSUME NEW c \in Conn, ConnInv(c), c.phase # "none"
    PROVE  Released(c).live = [k \in Kinds |-> 0]
<1>1. \A k \in Kinds : IF k \in Frees(c) THEN c.live[k] = 1 ELSE c.live[k] = 0
  BY DEF Frees, Conn, Kinds, ConnInv, ObjectsExact, SessionExact
<1> QED
  BY <1>1, ReleasedFields

(* _mwInitSocketData makes a structure that is fit for a request.          *)
LEMMA FreshConn ==
    ASSUME NEW d \in Descs \cup {Null}, NEW n \in 0 .. MaxConnRequests
    PROVE  LET c == InitSocketData(d, n, [k \in Kinds |-> 0])
           IN  c \in Conn /\ ConnInv(c) /\ Settled(c) /\ Refs(c) = {d} \ {Null}
  BY DEF InitSocketData, Conn, ConnInv, ObjectsExact, SessionExact, Shape,
         Settled, Refs, Kinds, Sources

(* A closed connection refers to nothing but, if kept alive, its socket.   *)
LEMMA ClosedConn ==
    ASSUME NEW c \in Conn, ConnInv(c), c.phase = "none" => c.close
    PROVE  /\ Closed(c) \in Conn /\ ConnInv(Closed(c)) /\ Settled(Closed(c))
           /\ Refs(Closed(c)) = Refs(c) \ ClosedDescs(c)
           /\ ClosedDescs(c) \subseteq Refs(c) \cup {Null}
           /\ Closed(c).socket = IF KeepsAlive(c) THEN c.socket ELSE Null
           /\ Closed(c).phase = IF KeepsAlive(c) THEN "receiving" ELSE c.phase
<1>1. CASE KeepsAlive(c)
  <2>1. Closed(c) = InitSocketData(c.socket, c.reqs + 1, [k \in Kinds |-> 0])
    BY <1>1, ReleasedObjects DEF Closed, KeepsAlive
  <2>2. c.reqs + 1 \in 0 .. MaxConnRequests /\ c.socket \in Descs \cup {Null}
    BY <1>1, LimitAssumption DEF KeepsAlive, Conn
  <2>3. \/ ClosedDescs(c) = {c.fd, c.up}
        \/ ClosedDescs(c) = {c.fd} /\ c.up = Null
    BY <1>1 DEF ClosedDescs, ConnInv, Shape
  <2>4. Refs(c) \ ClosedDescs(c) = {c.socket} \ {Null}
    BY <2>3 DEF Refs, ConnInv, Shape
  <2>5. ClosedDescs(c) \subseteq Refs(c) \cup {Null}
    BY <2>3 DEF Refs
  <2>6. Closed(c).socket = c.socket /\ Closed(c).phase = "receiving"
    BY <2>1 DEF InitSocketData
  <2> QED
    BY <1>1, <2>1, <2>2, <2>4, <2>5, <2>6, FreshConn
<1>2. CASE ~KeepsAlive(c)
  <2> DEFINE r == Released(c)
             x == Closed(c)
  <2>1. r \in Conn
    BY ReleasedType
  <2>2. x = [r EXCEPT !.reqs = IF c.socket = Null THEN r.reqs ELSE 0,
                      !.socket = Null]
    BY <1>2 DEF Closed
  <2>3. x \in Conn
    <3> DEFINE n == IF c.socket = Null THEN r.reqs ELSE 0
    <3>1. n \in 0 .. MaxConnRequests
      BY <2>1, LimitAssumption DEF Conn
    <3> HIDE DEF n, r
    <3>2. [r EXCEPT !.reqs = n, !.socket = Null] \in Conn
      BY ZenonT(40), <2>1, <3>1 DEF Conn
    <3> QED
      BY <2>2, <3>2 DEF n
  <2>4. /\ x.socket = Null /\ x.fd = r.fd /\ x.up = r.up
        /\ x.phase = r.phase /\ x.source = r.source /\ x.toFree = r.toFree
        /\ x.handler = r.handler /\ x.ptr = r.ptr /\ x.pxMP = r.pxMP
        /\ x.payload = r.payload /\ x.path = r.path
        /\ x.live = r.live /\ x.data = r.data
    BY <2>1, <2>2 DEF Conn
  <2> HIDE DEF x, r
  <2>5. /\ x.socket = Null /\ x.fd = Null /\ x.up = Null
        /\ x.phase = c.phase /\ x.source = c.source /\ x.pxMP = "none"
        /\ ~x.payload /\ ~x.path /\ x.data = c.data
        /\ x.handler = (c.handler /\ "stream" \notin c.source)
        /\ x.ptr = (c.ptr /\ ~c.toFree)
        /\ x.toFree = (c.toFree /\ ~c.ptr)
        /\ x.live = [k \in Kinds |-> IF k \in Frees(c)
                                     THEN c.live[k] - 1 ELSE c.live[k]]
    BY <2>4, ReleasedFields DEF r
  <2>6. ObjectsExact(x)
    BY <2>5 DEF ObjectsExact, ConnInv, Frees, Kinds
  <2>7. SessionExact(x) /\ Shape(x)
    <3>1. CASE c.phase = "none"
      <4>1. c.source = {} /\ ~c.toFree
        BY <3>1 DEF ConnInv, Shape
      <4>2. "ptr" \notin Frees(c) /\ "stream" \notin Frees(c)
        BY <4>1 DEF Frees
      <4> QED
        BY <2>5, <3>1, <4>1, <4>2 DEF SessionExact, Shape, ConnInv, Kinds
    <3>2. CASE c.phase # "none"
      <4>1. x.live = [k \in Kinds |-> 0]
        BY <3>2, <2>4, ReleasedObjects DEF r
      <4>2. ~x.ptr /\ ~x.toFree
        BY <2>5, <3>2 DEF ConnInv, SessionExact
      <4> QED
        BY <2>5, <3>2, <4>1, <4>2 DEF SessionExact, Shape, ConnInv, Kinds
    <3> QED
      BY <3>1, <3>2
  <2>8. Settled(x)
    BY <2>5 DEF Settled
  <2>9. \/ ClosedDescs(c) = {c.fd, c.up, c.socket}
        \/ ClosedDescs(c) = {c.fd, c.socket} /\ c.up = Null
    BY <1>2 DEF ClosedDescs, ConnInv, Shape
  <2>10. /\ Refs(x) = Refs(c) \ ClosedDescs(c)
         /\ ClosedDescs(c) \subseteq Refs(c) \cup {Null}
    BY <2>5, <2>9 DEF Refs
  <2> QED
    BY <1>2, <2>3, <2>5, <2>6, <2>7, <2>8, <2>10 DEF x, ConnInv
<1> QED
  BY <1>1, <1>2

(* The fields close, post, hdr and reqs are free.                          *)
LEMMA SameFields ==
    ASSUME NEW a \in Conn, NEW c \in Conn,
           \A f \in {"socket", "fd", "up", "phase", "source", "toFree",
                     "handler", "ptr", "pxMP", "payload", "path", "data",
                     "live"} : c[f] = a[f]
    PROVE  /\ Refs(c) = Refs(a)
           /\ ConnInv(a) => ConnInv(c)
  BY DEF ConnInv, ObjectsExact, SessionExact, Shape, Refs

-----------------------------------------------------------------------------
(* What one changed structure does to the invariants over all of them.     *)

(* Descriptors given up by one structure are closed, new ones were unused. *)
LEMMA DescriptorsStep ==
    ASSUME TypeOK, DescriptorsOwned,
           NEW s \in Structs, NEW c \in Conn, ConnInv(c),
           conn' = [conn EXCEPT ![s] = c],
           Refs(c) \subseteq Refs(conn[s]) \cup (Descs \ open),
           open' = (open \ (Refs(conn[s]) \ Refs(c))) \cup Refs(c),
           orphan' = orphan
    PROVE  DescriptorsOwned'
<1>1. /\ conn'[s] = c
      /\ \A t \in Structs \ {s} : conn'[t] = conn[t]
  BY DEF TypeOK
<1>2. /\ Refs(conn'[s]) = Refs(c)
      /\ \A t \in Structs \ {s} : Refs(conn'[t]) = Refs(conn[t])
  BY <1>1
<1> DEFINE R(t) == Refs(conn[t])
           Rn(t) == Refs(conn'[t])
<1>3. open = (UNION {R(t) : t \in Structs}) \cup ({orphan} \ {Null})
  BY DEF DescriptorsOwned
<1>4. \A t \in Structs \ {s} : R(t) \cap R(s) = {} /\ R(t) \subseteq open
  BY <1>3 DEF DescriptorsOwned
<1>5. \A t, v \in Structs : t # v => Rn(t) \cap Rn(v) = {}
  <2> SUFFICES ASSUME NEW t \in Structs, NEW v \in Structs, t # v
               PROVE  Rn(t) \cap Rn(v) = {}
    OBVIOUS
  <2>1. CASE t = s
    BY <1>2, <1>4, <2>1
  <2>2. CASE v = s
    BY <1>2, <1>4, <2>2
  <2>3. CASE t # s /\ v # s
    BY <1>2, <2>3 DEF DescriptorsOwned
  <2> QED
    BY <2>1, <2>2, <2>3
<1>6. orphan # Null => orphan \in open /\ orphan \notin R(s)
  BY <1>3 DEF DescriptorsOwned
<1>7. Null \notin Refs(c) /\ Null \notin R(s)
  BY DEF Refs
<1>8. orphan \notin Refs(c)
  BY <1>6, <1>7
<1>9. \A t \in Structs : orphan' \notin Rn(t)
  BY <1>2, <1>8 DEF DescriptorsOwned
<1>10. open' = (UNION {Rn(t) : t \in Structs}) \cup ({orphan'} \ {Null})
  <2>1. UNION {R(t) : t \in Structs}
          = R(s) \cup UNION {R(t) : t \in Structs \ {s}}
    OBVIOUS
  <2>2. UNION {Rn(t) : t \in Structs}
          = Refs(c) \cup UNION {R(t) : t \in Structs \ {s}}
    BY <1>2
  <2>3. (UNION {R(t) : t \in Structs \ {s}}) \cap R(s) = {}
    BY <1>4
  <2> HIDE DEF R, Rn
  <2> QED
    BY <1>3, <1>6, <1>7, <1>8, <2>1, <2>2, <2>3 DEF R
<1>11. \A t \in Structs :
         /\ conn'[t].fd # Null => conn'[t].fd # conn'[t].socket
         /\ conn'[t].up # Null =>
              conn'[t].up \notin {conn'[t].socket, conn'[t].fd}
  BY <1>1 DEF DescriptorsOwned, ConnInv, Shape
<1> QED
  BY <1>5, <1>9, <1>10, <1>11 DEF DescriptorsOwned

(* The count follows the one socket that is opened or closed.              *)
LEMMA CountStep ==
    ASSUME TypeOK, ClientCountExact,
           NEW s \in Structs, NEW c \in Conn,
           conn' = [conn EXCEPT ![s] = c],
           clientCount' =
             IF conn[s].socket # Null /\ c.socket = Null THEN clientCount - 1
             ELSE IF conn[s].socket = Null /\ c.socket # Null
             THEN clientCount + 1 ELSE clientCount
    PROVE  ClientCountExact' /\ clientCount' \in Nat
<1>1. /\ conn'[s] = c
      /\ \A t \in Structs \ {s} : conn'[t] = conn[t]
  BY DEF TypeOK
<1>2. IsFiniteSet(Connected)
  BY FiniteAssumption, FS_Subset DEF Connected
<1>3. clientCount \in Nat /\ clientCount = Cardinality(Connected)
  BY DEF TypeOK, ClientCountExact
<1>4. CASE conn[s].socket # Null /\ c.socket = Null
  <2>1. s \in Connected /\ Connected' = Connected \ {s}
    BY <1>1, <1>4 DEF Connected
  <2>2. Cardinality(Connected') = Cardinality(Connected) - 1
    BY <1>2, <2>1, FS_RemoveElement
  <2>3. Cardinality(Connected') \in Nat
    BY <1>2, <2>1, FS_RemoveElement, FS_CardinalityType
  <2> QED
    BY <1>3, <1>4, <2>2, <2>3 DEF ClientCountExact
<1>5. CASE conn[s].socket = Null /\ c.socket # Null
  <2>1. s \notin Connected /\ Connected' = Connected \cup {s}
    BY <1>1, <1>5 DEF Connected
  <2>2. Cardinality(Connected') = Cardinality(Connected) + 1
    BY <1>2, <2>1, FS_AddElement
  <2> QED
    BY <1>3, <1>5, <2>2 DEF ClientCountExact
<1>6. CASE (conn[s].socket = Null) <=> (c.socket = Null)
  <2>1. Connected' = Connected
    BY <1>1, <1>6 DEF Connected
  <2> QED
    BY <1>3, <1>6, <2>1 DEF ClientCountExact
<1> QED
  BY <1>4, <1>5, <1>6

(* A step that changes the fields of one listed structure s, the thread    *)
(* being at s or between two structures, to fields c that fit the label it *)
(* goes to, preserves everything.                                          *)
LEMMA LocalStep ==
    ASSUME IndInv,
           NEW s \in list, NEW c \in Conn, ConnInv(c),
           cur \in {s, Null}, pc # "cleanup",
           conn' = [conn EXCEPT ![s] = c],
           c.socket \in {conn[s].socket, Null},
           Refs(c) \subseteq Refs(conn[s]) \cup (Descs \ open),
           open' = (open \ (Refs(conn[s]) \ Refs(c))) \cup Refs(c),
           clientCount' = IF conn[s].socket # Null /\ c.socket = Null
                          THEN clientCount - 1 ELSE clientCount,
           UNCHANGED <<list, mem, orphan, stalled, kill>>,
           expired' \subseteq Structs,
           todo' \subseteq todo,
           \/ cur' = s /\ pc' \in Working /\ Stage(pc', c)
           \/ cur' = Null /\ pc' \in {"sweep", "process"} /\ Settled(c)
    PROVE  IndInv'
<1> USE DEF IndInv
<1>1. s \in Structs /\ s # Null
  BY NullAssumption DEF TypeOK
<1>2. DescriptorsOwned'
  BY <1>1, DescriptorsStep
<1>3. ClientCountExact' /\ clientCount' \in Nat
  BY <1>1, CountStep
<1>4. open' \subseteq Descs
  BY DEF TypeOK, Refs, Conn
<1>5. TypeOK'
  BY <1>1, <1>3, <1>4 DEF TypeOK, Working
<1>6. /\ conn'[s] = c
      /\ \A t \in Structs \ {s} : conn'[t] = conn[t]
  BY <1>1 DEF TypeOK
<1>7. Position'
  BY <1>1 DEF Position, Working
<1>8. ConnsInv'
  <2> SUFFICES ASSUME NEW t \in Structs
               PROVE  /\ ConnInv(conn'[t])
                      /\ t # cur' => Settled(conn'[t])
                      /\ t = cur' => Stage(pc', conn'[t])
                      /\ t \notin list' => Unlisted(t)'
    BY DEF ConnsInv
  <2>1. CASE t = s
    BY <1>1, <1>6, <2>1
  <2>2. CASE t # s
    <3>1. t # cur /\ t # cur' /\ conn'[t] = conn[t]
      BY <1>6, <2>2, NullAssumption
    <3>2. t \notin list' => Unlisted(t)'
      BY <3>1 DEF ConnsInv, Unlisted
    <3> QED
      BY <3>1, <3>2 DEF ConnsInv
  <2> QED
    BY <2>1, <2>2
<1> QED
  BY <1>2, <1>3, <1>5, <1>7, <1>8

(* The same for _mwCloseSocket, called with fields c that have the         *)
(* descriptors of s.                                                       *)
LEMMA CloseStep ==
    ASSUME IndInv,
           NEW s \in list, NEW c \in Conn, ConnInv(c),
           cur \in {s, Null}, pc # "cleanup",
           c.phase = "none" => c.close,
           c.socket = conn[s].socket, Refs(c) = Refs(conn[s]),
           CloseSocket(s, c),
           UNCHANGED <<list, mem, orphan, stalled, kill>>,
           todo' \subseteq todo,
           \/ /\ cur' = s /\ pc' = "close"
              /\ c.phase # "none"
           \/ cur' = Null /\ pc' \in {"sweep", "process"}
    PROVE  IndInv'
<1>1. s \in Structs /\ expired \subseteq Structs /\ open \subseteq Descs
  BY DEF IndInv, TypeOK
<1> DEFINE x == Closed(c)
<1>2. /\ x \in Conn /\ ConnInv(x) /\ Settled(x)
      /\ Refs(x) = Refs(c) \ ClosedDescs(c)
      /\ ClosedDescs(c) \subseteq Refs(c) \cup {Null}
      /\ x.socket = IF KeepsAlive(c) THEN c.socket ELSE Null
      /\ x.phase = IF KeepsAlive(c) THEN "receiving" ELSE c.phase
  BY ClosedConn
<1>3. /\ conn' = [conn EXCEPT ![s] = x]
      /\ open' = open \ ClosedDescs(c)
      /\ clientCount' = IF conn[s].socket # Null /\ x.socket = Null
                        THEN clientCount - 1 ELSE clientCount
      /\ expired' \subseteq Structs
  BY <1>1, <1>2 DEF CloseSocket
<1> HIDE DEF x
<1>4. Refs(conn[s]) \subseteq open
  BY <1>1 DEF IndInv, DescriptorsOwned
<1>5. Null \notin open
  BY <1>1, NullAssumption
<1>6. open' = (open \ (Refs(conn[s]) \ Refs(x))) \cup Refs(x)
  BY <1>2, <1>3, <1>4, <1>5
<1>7. \/ cur' = s /\ pc' \in Working /\ Stage(pc', x)
      \/ cur' = Null /\ pc' \in {"sweep", "process"} /\ Settled(x)
  BY <1>2 DEF Stage, Working
<1> QED
  BY <1>2, <1>3, <1>6, <1>7, LocalStep

(* A step that changes no structure needs to keep the position consistent. *)
LEMMA MoveStep ==
    ASSUME IndInv, Position',
           UNCHANGED <<list, mem, conn, open, orphan, clientCount>>,
           pc' \in Working \cup {"top", "sweep", "process", "accept",
                                 "cleanup", "stopped"},
           expired' \subseteq Structs, stalled' \subseteq Structs,
           kill' \in BOOLEAN,
           cur # Null /\ cur' # cur => Settled(conn[cur]),
           cur' # Null => Stage(pc', conn[cur'])
    PROVE  IndInv'
<1> USE DEF IndInv
<1>1. list \subseteq Structs
  BY DEF TypeOK
<1>2. TypeOK'
  BY <1>1 DEF TypeOK, Working, Position
<1>3. DescriptorsOwned'
  BY DEF DescriptorsOwned
<1>4. ClientCountExact'
  BY DEF ClientCountExact, Connected
<1>5. ConnsInv'
  <2> SUFFICES ASSUME NEW t \in Structs
               PROVE  /\ ConnInv(conn[t])
                      /\ t # cur' => Settled(conn[t])
                      /\ t = cur' => Stage(pc', conn[t])
                      /\ t \notin list => Unlisted(t)'
    BY DEF ConnsInv
  <2>1. t \notin list => Unlisted(t)'
    BY DEF ConnsInv, Unlisted
  <2>2. t # Null
    BY NullAssumption
  <2> QED
    BY <2>1, <2>2 DEF ConnsInv
<1> QED
  BY <1>2, <1>3, <1>4, <1>5

-----------------------------------------------------------------------------
(* The initial state, and the passes of mwHttpLoop.                        *)

(* Before the first connection nothing is open or allocated.               *)
LEMMA InitInv == Init => IndInv
<1> SUFFICES ASSUME Init PROVE IndInv
  OBVIOUS
<1> DEFINE c == [InitSocketData(Null, 0, [k \in Kinds |-> 0])
                   EXCEPT !.phase = "none"]
<1>1. /\ c \in Conn /\ ConnInv(c) /\ Settled(c) /\ Refs(c) = {}
      /\ c.socket = Null /\ c.fd = Null /\ c.up = Null /\ c.phase = "none"
      /\ ~c.ptr /\ c.live["stream"] = 0
  <2>2. /\ c \in Conn /\ c.socket = Null /\ c.fd = Null /\ c.up = Null
        /\ c.phase = "none" /\ c.source = {} /\ ~c.toFree /\ ~c.ptr
        /\ c.pxMP = "none" /\ ~c.payload /\ ~c.path
        /\ c.live = [k \in Kinds |-> 0]
    <3> DEFINE i == InitSocketData(Null, 0, [k \in Kinds |-> 0])
    <3>1. i \in Conn
      BY FreshConn, LimitAssumption
    <3>2. /\ i.socket = Null /\ i.fd = Null /\ i.up = Null
          /\ i.source = {} /\ ~i.toFree /\ ~i.ptr
          /\ i.pxMP = "none" /\ ~i.payload /\ ~i.path
          /\ i.live = [k \in Kinds |-> 0]
      BY DEF InitSocketData
    <3> HIDE DEF i
    <3>3. c = [i EXCEPT !.phase = "none"]
      BY DEF i
    <3> QED
      BY <3>1, <3>2, <3>3 DEF Conn
  <2> HIDE DEF c
  <2> QED
    BY <2>2 DEF ConnInv, ObjectsExact, SessionExact, Shape, Settled, Refs,
                Kinds
<1>2. \A s \in Structs : conn[s] = c
  BY DEF Init
<1> HIDE DEF c
<1>3. TypeOK
  BY <1>1, <1>2 DEF TypeOK, Init
<1>4. Position
  BY DEF Position, Init, Working
<1>5. ConnsInv
  BY <1>1, <1>2, NullAssumption DEF ConnsInv, Unlisted, Init
<1>6. DescriptorsOwned
  BY <1>1, <1>2 DEF DescriptorsOwned, Init
<1>7. ClientCountExact
  <2>1. Connected = {}
    BY <1>1, <1>2 DEF Connected
  <2> QED
    BY <2>1, FS_EmptySet DEF ClientCountExact, Init
<1> QED
  BY <1>3, <1>4, <1>5, <1>6, <1>7 DEF IndInv

(* The expiration sweep: an expired connection is closed in passing.       *)
LEMMA SweepInv ==
    ASSUME IndInv, NEW s \in Structs, SweepKeep(s) \/ SweepExpire(s)
    PROVE  IndInv'
<1>1. pc = "sweep" /\ s \in todo /\ s \in list /\ cur = Null
  BY DEF SweepKeep, SweepExpire, At, IndInv, Position, Working
<1>2. CASE SweepKeep(s)
  <2>1. Position'
    BY <1>1, <1>2 DEF SweepKeep, IndInv, Position, Working
  <2> QED
    BY <1>1, <1>2, <2>1, MoveStep DEF SweepKeep, IndInv, TypeOK
<1>3. CASE SweepExpire(s)
  <2> DEFINE c == [conn[s] EXCEPT !.close = TRUE, !.phase = "none",
                                  !.source = {}, !.toFree = FALSE,
                                  !.post = FALSE]
  <2>1. conn[s] \in Conn /\ ConnInv(conn[s])
    BY DEF IndInv, TypeOK, ConnsInv
  <2>2. /\ c \in Conn
        /\ c.close /\ c.socket = conn[s].socket /\ Refs(c) = Refs(conn[s])
    BY <2>1 DEF Conn, Refs
  <2>3. /\ c.phase = "none" /\ c.source = {} /\ ~c.toFree
        /\ \A f \in {"socket", "fd", "up", "ptr", "pxMP", "payload", "path",
                     "live"} : c[f] = conn[s][f]
    BY <2>1 DEF Conn
  <2>5. CloseSocket(s, c)
    BY <1>3 DEF SweepExpire
  <2> HIDE DEF c
  <2>6. ConnInv(c)
    BY <2>1, <2>3 DEF ConnInv, ObjectsExact, SessionExact, Shape
  <2>4. UNCHANGED <<pc, cur, list, mem, orphan, stalled, kill>> /\ todo' \subseteq todo
    BY <1>3 DEF SweepExpire
  <2> QED
    BY <1>1, <2>2, <2>4, <2>5, <2>6, CloseStep
<1> QED
  BY <1>2, <1>3

(* The thread moves between passes and picks a ready connection.           *)
LEMMA MovesInv ==
    ASSUME IndInv,
           \/ LoopHead \/ SelectReady \/ SelectError \/ ProcessDone
           \/ AcceptNone \/ Stop
           \/ \E s \in Structs : NotReady(s) \/ Ready(s)
    PROVE  IndInv'
<1> USE DEF IndInv
<1>1. /\ UNCHANGED <<list, mem, conn, open, orphan, clientCount, expired,
                     stalled>>
      /\ kill' \in BOOLEAN
  BY DEF TypeOK, LoopHead, SelectReady, SelectError, ProcessDone, AcceptNone,
         Stop, NotReady, Ready
<1>2. cur = Null
  BY DEF Position, Working, LoopHead, SelectReady, SelectError, ProcessDone,
         AcceptNone, Stop, NotReady, Ready, At
<1>3. CASE \/ LoopHead \/ SelectReady \/ SelectError \/ ProcessDone
           \/ AcceptNone \/ Stop \/ \E s \in Structs : NotReady(s)
  <2>1. Position' /\ cur' = Null
        /\ pc' \in {"top", "sweep", "process", "accept", "cleanup", "stopped"}
    BY <1>1, <1>2, <1>3
       DEF Position, Working, LoopHead, SelectReady, SelectError, ProcessDone,
           AcceptNone, Stop, NotReady, At, Goto
  <2> QED
    BY <1>1, <1>2, <2>1, MoveStep DEF TypeOK
<1>4. ASSUME NEW s \in Structs, Ready(s) PROVE IndInv'
  <2>1. /\ cur' = s /\ pc' \in {"read", "write"}
        /\ Stage(pc', conn[s])
    BY <1>2, <1>4, NullAssumption DEF Ready, Stage, ConnsInv
  <2>2. Position'
    BY <1>1, <1>4, <2>1, NullAssumption DEF Position, Working, Ready, At
  <2> QED
    BY <1>1, <1>2, <2>1, <2>2, MoveStep DEF TypeOK, Working
<1> QED
  BY <1>3, <1>4

(* Freeing closed structures leaves no reference to them.                  *)
LEMMA SelectTimeoutInv == ASSUME IndInv, SelectTimeout PROVE IndInv'
<1> USE DEF IndInv
<1> DEFINE dead == {s \in list : conn[s].socket = Null}
<1>1. /\ pc = "sweep" /\ todo = {} /\ cur = Null /\ list \subseteq Structs
      /\ list' = list \ dead
      /\ mem' = [s \in Structs |-> IF s \in dead THEN "freed" ELSE mem[s]]
      /\ pc' = "top"
      /\ UNCHANGED <<cur, todo, conn, open, orphan, clientCount, expired,
                     stalled, kill>>
  BY DEF SelectTimeout, At, Position, Working, TypeOK
<1>2. TypeOK'
  BY <1>1 DEF TypeOK
<1>3. Position'
  <2>1. \A s \in Structs : mem'[s] = IF s \in dead THEN "freed" ELSE mem[s]
    BY <1>1
  <2>2. list' = {s \in Structs : mem'[s] = "allocated"}
    BY <1>1, <2>1 DEF Position
  <2> QED
    BY <1>1, <2>2 DEF Position, Working
<1>4. ConnsInv'
  <2> SUFFICES ASSUME NEW t \in Structs
               PROVE  /\ ConnInv(conn[t])
                      /\ t # cur => Settled(conn[t])
                      /\ t = cur => Stage(pc', conn[t])
                      /\ t \notin list' => Unlisted(t)'
    BY <1>1 DEF ConnsInv
  <2>1. t # cur
    BY <1>1, NullAssumption
  <2>2. CASE t \in dead
    BY <1>1, <2>1, <2>2 DEF ConnsInv, Unlisted
  <2>3. CASE t \notin dead
    BY <1>1, <2>1, <2>3 DEF ConnsInv, Unlisted
  <2> QED
    BY <2>2, <2>3
<1>5. DescriptorsOwned' /\ ClientCountExact'
  BY <1>1 DEF DescriptorsOwned, ClientCountExact, Connected
<1> QED
  BY <1>2, <1>3, <1>4, <1>5

(* The caller closes, a second time on some paths, what a call gave up.    *)
LEMMA CallerClosesInv == ASSUME IndInv, CallerCloses PROVE IndInv'
<1>1. /\ pc = "close" /\ cur \in list /\ cur \in Structs
      /\ pc' = "process" /\ cur' = Null
      /\ UNCHANGED <<todo, list, mem, orphan, stalled, kill>>
      /\ CloseSocket(cur, conn[cur])
  BY DEF CallerCloses, At, IndInv, Position, Working, TypeOK
<1>2. conn[cur] \in Conn /\ ConnInv(conn[cur]) /\ conn[cur].phase # "none"
  BY <1>1 DEF IndInv, TypeOK, ConnsInv, Stage
<1> QED
  BY <1>1, <1>2, CloseStep

(* A new connection gets a socket of its own.                              *)
LEMMA AcceptInv ==
    ASSUME IndInv, NEW s \in Structs, NEW d \in Descs, Accept(s, d)
    PROVE  IndInv'
<1> USE DEF IndInv
<1> DEFINE c == InitSocketData(d, 0, [k \in Kinds |-> 0])
<1>1. /\ pc = "accept" /\ cur = Null /\ todo = {} /\ orphan = Null
      /\ mem[s] = "never" /\ s \notin list /\ d \notin open /\ d # Null
      /\ mem' = [mem EXCEPT ![s] = "allocated"]
      /\ list' = list \cup {s} /\ conn' = [conn EXCEPT ![s] = c]
      /\ open' = open \cup {d} /\ clientCount' = clientCount + 1
      /\ pc' = "top"
      /\ UNCHANGED <<cur, todo, orphan, expired, stalled, kill>>
  BY NullAssumption DEF Accept, At, Goto, Position, Working
<1>2. c \in Conn /\ ConnInv(c) /\ Settled(c) /\ Refs(c) = {d} /\ c.socket = d
  BY <1>1, FreshConn, LimitAssumption DEF InitSocketData
<1> HIDE DEF c
<1>3. conn[s].socket = Null /\ Refs(conn[s]) = {}
  BY <1>1 DEF ConnsInv, Unlisted, ConnInv, Shape, Refs
<1>4. DescriptorsOwned'
  BY <1>1, <1>2, <1>3, DescriptorsStep
<1>5. ClientCountExact' /\ clientCount' \in Nat
  BY <1>1, <1>2, <1>3, CountStep
<1>6. TypeOK'
  BY <1>1, <1>2, <1>5 DEF TypeOK
<1>7. Position'
  <2>1. \A t \in Structs : mem'[t] = IF t = s THEN "allocated" ELSE mem[t]
    BY <1>1 DEF TypeOK
  <2> QED
    BY <1>1, <2>1 DEF Position, Working
<1>8. ConnsInv'
  <2> SUFFICES ASSUME NEW t \in Structs
               PROVE  /\ ConnInv(conn'[t]) /\ Settled(conn'[t]) /\ t # cur'
                      /\ t \notin list' => Unlisted(t)'
    BY DEF ConnsInv
  <2>1. t # cur /\ t # cur'
    BY <1>1, NullAssumption
  <2>2. CASE t = s
    BY <1>1, <1>2, <2>1, <2>2 DEF TypeOK
  <2>3. CASE t # s
    BY <1>1, <2>1, <2>3 DEF ConnsInv, Unlisted, TypeOK
  <2> QED
    BY <2>2, <2>3
<1> QED
  BY <1>4, <1>5, <1>6, <1>7, <1>8

(* When malloc fails the accepted socket is the only one lost.             *)
LEMMA AcceptNoMemoryInv ==
    ASSUME IndInv, NEW d \in Descs, AcceptNoMemory(d)
    PROVE  IndInv'
<1> USE DEF IndInv
<1>1. /\ pc = "accept" /\ cur = Null /\ orphan = Null
      /\ d \notin open /\ d # Null
      /\ open' = open \cup {d} /\ orphan' = d
      /\ pc' = "cleanup" /\ todo' = list
      /\ UNCHANGED <<cur, list, mem, conn, clientCount, expired, stalled,
                     kill>>
  BY NullAssumption DEF AcceptNoMemory, At, Position, Working
<1>2. TypeOK' /\ Position'
  BY <1>1 DEF TypeOK, Position, Working
<1>3. ConnsInv'
  BY <1>1, NullAssumption DEF ConnsInv, Unlisted
<1>4. \A s \in Structs : Refs(conn[s]) \subseteq open
  BY DEF DescriptorsOwned
<1>5. DescriptorsOwned'
  BY <1>1, <1>4 DEF DescriptorsOwned
<1>6. ClientCountExact'
  BY <1>1 DEF ClientCountExact, Connected
<1> QED
  BY <1>2, <1>3, <1>5, <1>6

(* The final clean-up closes and frees one structure after the other.      *)
LEMMA CleanupInv ==
    ASSUME IndInv, NEW s \in Structs, Cleanup(s)
    PROVE  IndInv'
<1> USE DEF IndInv
<1> DEFINE c == [conn[s] EXCEPT !.close = TRUE]
           x == Closed(c)
<1>1. /\ pc = "cleanup" /\ cur = Null /\ s \in list /\ todo = list
      /\ CloseSocket(s, c)
      /\ mem' = [mem EXCEPT ![s] = "freed"]
      /\ todo' = todo \ {s} /\ list' = list \ {s}
      /\ UNCHANGED <<pc, cur, orphan, stalled, kill>>
  BY DEF Cleanup, At, Position, Working
<1>2. conn[s] \in Conn /\ ConnInv(conn[s])
  BY DEF TypeOK, ConnsInv
<1>3. /\ c \in Conn /\ ConnInv(c) /\ c.close /\ c.socket = conn[s].socket
      /\ Refs(c) = Refs(conn[s])
  <2>1. c \in Conn /\ c.close /\ c.socket = conn[s].socket
    BY ZenonT(40), <1>2 DEF Conn
  <2>2. \A f \in {"socket", "fd", "up", "phase", "source", "toFree",
                  "handler", "ptr", "pxMP", "payload", "path", "data",
                  "live"} : c[f] = conn[s][f]
    BY <1>2 DEF Conn
  <2> HIDE DEF c
  <2> QED
    BY <1>2, <2>1, <2>2, SameFields
<1> HIDE DEF c
<1>4. /\ x \in Conn /\ ConnInv(x) /\ Settled(x)
      /\ Refs(x) = Refs(c) \ ClosedDescs(c)
      /\ ClosedDescs(c) \subseteq Refs(c) \cup {Null}
      /\ x.socket = Null
  BY <1>3, ClosedConn DEF KeepsAlive
<1>5. /\ conn' = [conn EXCEPT ![s] = x]
      /\ open' = open \ ClosedDescs(c)
      /\ clientCount' = IF conn[s].socket # Null
                        THEN clientCount - 1 ELSE clientCount
      /\ expired' = expired
  BY <1>1, <1>3 DEF CloseSocket, KeepsAlive
<1> HIDE DEF x
<1>6. open' = (open \ (Refs(conn[s]) \ Refs(x))) \cup Refs(x)
  <2>1. Refs(conn[s]) \subseteq open
    BY DEF DescriptorsOwned
  <2>2. Null \notin open
    BY NullAssumption DEF TypeOK
  <2> QED
    BY <1>3, <1>4, <1>5, <2>1, <2>2
<1>7. DescriptorsOwned'
  BY <1>1, <1>3, <1>4, <1>5, <1>6, DescriptorsStep
<1>8. ClientCountExact' /\ clientCount' \in Nat
  BY <1>4, <1>5, CountStep
<1>9. TypeOK'
  BY <1>1, <1>4, <1>5, <1>8 DEF TypeOK
<1>10. Position'
  <2>1. \A t \in Structs : mem'[t] = IF t = s THEN "freed" ELSE mem[t]
    BY <1>1 DEF TypeOK
  <2> QED
    BY <1>1, <2>1 DEF Position, Working
<1>11. ConnsInv'
  <2> SUFFICES ASSUME NEW t \in Structs
               PROVE  /\ ConnInv(conn'[t]) /\ Settled(conn'[t]) /\ t # cur'
                      /\ t \notin list' => Unlisted(t)'
    BY DEF ConnsInv
  <2>1. t # cur /\ t # cur'
    BY <1>1, NullAssumption
  <2>2. CASE t = s
    BY <1>1, <1>4, <1>5, <2>1, <2>2 DEF TypeOK, Unlisted
  <2>3. CASE t # s
    BY <1>1, <1>5, <2>1, <2>3 DEF ConnsInv, Unlisted, TypeOK
  <2> QED
    BY <2>2, <2>3
<1> QED
  BY <1>7, <1>8, <1>9, <1>10, <1>11

-----------------------------------------------------------------------------
(* _mwProcessReadSocket.                                                   *)

(* The structure being worked on is connected and linked.                  *)
LEMMA AtWork ==
    ASSUME IndInv, pc \in Working
    PROVE  /\ cur \in list /\ cur \in Structs
           /\ Me \in Conn /\ ConnInv(Me) /\ Stage(pc, Me)
           /\ orphan = Null
           /\ open \subseteq Descs /\ Null \notin open /\ Refs(Me) \subseteq open
           /\ expired \subseteq Structs
<1>1. /\ cur \in list /\ cur \in Structs /\ orphan = Null
      /\ open \subseteq Descs /\ expired \subseteq Structs
  BY DEF IndInv, Position, Working, TypeOK
<1>2. Me \in Conn /\ ConnInv(Me) /\ Stage(pc, Me)
  BY <1>1 DEF IndInv, TypeOK, ConnsInv, Me
<1>3. Null \notin open /\ Refs(Me) \subseteq open
  BY <1>1, NullAssumption DEF IndInv, DescriptorsOwned, Me
<1> QED
  BY <1>1, <1>2, <1>3

(* LocalStep for fields with the descriptors the structure had.            *)
LEMMA SetStep ==
    ASSUME IndInv, pc \in Working,
           NEW c \in Conn, ConnInv(c), Set(c),
           c.socket = Me.socket, Refs(c) = Refs(Me),
           UNCHANGED <<list, mem, open, orphan, clientCount, stalled, kill>>,
           expired' \subseteq Structs, todo' = todo,
           \/ cur' = cur /\ pc' \in Working /\ Stage(pc', c)
           \/ cur' = Null /\ pc' = "process" /\ Settled(c)
    PROVE  IndInv'
<1>1. cur \in list /\ pc # "cleanup" /\ Refs(Me) \subseteq open
  BY AtWork DEF Working
<1>2. clientCount' = IF Me.socket # Null /\ c.socket = Null
                     THEN clientCount - 1 ELSE clientCount
  OBVIOUS
<1>3. open' = (open \ (Refs(Me) \ Refs(c))) \cup Refs(c)
  BY <1>1
<1> QED
  BY <1>1, <1>2, <1>3, LocalStep DEF Set, Me

(* LocalStep after the upload callback replaced the upload file.           *)
LEMMA UploadStep ==
    ASSUME IndInv, pc = "read", Me.fd = Null,
           NEW u \in Descs \cup {Null}, UploadFile(Me, u),
           NEW c \in Conn, ConnInv(Me) => ConnInv([c EXCEPT !.up = Null]),
           c.pxMP # "none", c.fd = Null, c.up = u, c.socket = Me.socket,
           Set(c),
           UNCHANGED <<list, mem, orphan, clientCount, stalled, kill>>,
           expired' \subseteq Structs, todo' = todo,
           \/ cur' = cur /\ pc' \in Working /\ Stage(pc', c)
           \/ cur' = Null /\ pc' = "process" /\ Settled(c)
    PROVE  IndInv'
<1>1. /\ cur \in list /\ pc # "cleanup" /\ Refs(Me) \subseteq open
      /\ ConnInv(Me) /\ Null \notin open /\ Me.socket # Null
  BY AtWork DEF Working, Stage
<1>2. u # Null => u # Me.socket
  BY <1>1 DEF UploadFile, Refs, ConnInv, Shape
<1>3. ConnInv(c)
  <2> DEFINE n == [c EXCEPT !.up = Null]
  <2>1. \A f \in {"socket", "fd", "phase", "source", "toFree", "handler",
                  "ptr", "pxMP", "payload", "path", "data", "live"} :
             n[f] = c[f]
    BY DEF Conn
  <2>2. ConnInv(n)
    BY <1>1
  <2> HIDE DEF n
  <2> QED
    BY <1>2, <2>1, <2>2 DEF ConnInv, ObjectsExact, SessionExact, Shape
<1>4. Refs(Me) = {Me.socket, Me.up} \ {Null} /\ Refs(c) = {Me.socket, u} \ {Null}
  BY DEF Refs
<1>5. /\ u \in {Null, Me.up} \cup (Descs \ open)
      /\ open' = (open \ {Me.up}) \cup ({u} \ {Null})
  BY DEF UploadFile
<1>6. Me.socket \in open /\ Me.socket # Me.up
  BY <1>1, <1>4 DEF ConnInv, Shape
<1>7. Refs(c) \subseteq Refs(Me) \cup (Descs \ open)
  BY <1>4, <1>5, <1>6
<1>8. open' = (open \ (Refs(Me) \ Refs(c))) \cup Refs(c)
  BY <1>1, <1>2, <1>4, <1>5, <1>6
<1>9. clientCount' = IF Me.socket # Null /\ c.socket = Null
                     THEN clientCount - 1 ELSE clientCount
  OBVIOUS
<1> QED
  BY <1>1, <1>3, <1>7, <1>8, <1>9, LocalStep DEF Set, Me

(* Every outcome of _mwProcessMultipartPost.                               *)
LEMMA MultipartInv ==
    ASSUME IndInv, pc = "read", Me.fd = Null,
           NEW c \in Conn, ConnInv(Me) => ConnInv([c EXCEPT !.up = Null]),
           c.pxMP = "boundary", c.fd = Null, c.up = Me.up,
           c.socket = Me.socket, c.path, c.post, c.phase = "receiving",
           c.source = {}, MultipartPost(c),
           UNCHANGED <<list, mem, orphan, clientCount, stalled, kill>>
    PROVE  IndInv'
<1>1. cur \in list /\ cur # Null /\ expired \subseteq Structs /\ Me.socket # Null
  BY AtWork, NullAssumption DEF Working, Stage
<1>2. PICK u \in Descs \cup {Null} :
        /\ UploadFile(c, u)
        /\ \/ /\ Set([c EXCEPT !.up = u, !.close = TRUE])
              /\ Goto("close") /\ UNCHANGED expired
           \/ /\ Set([c EXCEPT !.up = u])
              /\ Touch
           \/ /\ \E b \in {c.close, TRUE} :
                   Set([c EXCEPT !.up = u, !.close = b])
              /\ Goto("dispatch") /\ UNCHANGED expired
  BY DEF MultipartPost
<1>3. UploadFile(Me, u)
  BY <1>2 DEF UploadFile
<1>4. c.close \in BOOLEAN
  BY DEF Conn
<1>5. PICK b \in BOOLEAN :
        /\ Set([c EXCEPT !.up = u, !.close = b])
        /\ expired' \subseteq Structs /\ todo' = todo
        /\ \/ cur' = cur /\ pc' \in {"close", "dispatch"}
           \/ cur' = Null /\ pc' = "process"
  <2>1. CASE Set([c EXCEPT !.up = u]) /\ Touch
    <3>1. [c EXCEPT !.up = u] = [c EXCEPT !.up = u, !.close = c.close]
      BY DEF Conn
    <3> QED
      BY <1>1, <1>4, <2>1, <3>1 DEF Touch
  <2>2. CASE ~(Set([c EXCEPT !.up = u]) /\ Touch)
    BY <1>1, <1>2, <1>4, <2>2 DEF Goto
  <2> QED
    BY <2>1, <2>2
<1> DEFINE r == [c EXCEPT !.up = u, !.close = b]
<1>6. /\ r \in Conn /\ r.up = u
      /\ \A f \in {"socket", "fd", "phase", "source", "toFree", "handler",
                  "ptr", "pxMP", "payload", "path", "post", "data", "live"} :
             r[f] = c[f]
  BY ZenonT(40) DEF Conn
<1>7. Set(r)
  BY <1>5
<1> HIDE DEF r
<1>8. ConnInv(Me) => ConnInv([r EXCEPT !.up = Null])
  <2> DEFINE n == [c EXCEPT !.up = Null]
             m == [r EXCEPT !.up = Null]
  <2>1. /\ n \in Conn /\ m \in Conn
        /\ \A f \in {"socket", "fd", "up", "phase", "source", "toFree",
                     "handler", "ptr", "pxMP", "payload", "path", "data",
                     "live"} : m[f] = n[f]
    BY <1>6 DEF Conn
  <2> HIDE DEF n, m
  <2>2. ConnInv(n) => ConnInv(m)
    BY <2>1, SameFields
  <2> QED
    BY <2>2 DEF n, m
<1>9. \/ cur' = cur /\ pc' \in Working /\ Stage(pc', r)
      \/ cur' = Null /\ pc' = "process" /\ Settled(r)
  BY <1>1, <1>5, <1>6 DEF Stage, Settled, Working
<1> QED
  BY <1>3, <1>5, <1>6, <1>7, <1>8, <1>9, UploadStep

(* What a connection that has just become readable holds.                  *)
LEMMA AtRead ==
    ASSUME IndInv, pc = "read"
    PROVE  /\ Me.socket # Null /\ Me.fd = Null /\ Me.phase = "receiving"
           /\ Me.source = {} /\ ~Me.ptr /\ ~Me.handler /\ ~Me.toFree /\ ~Me.data
           /\ ~Me.path => /\ Me.pxMP = "none" /\ ~Me.payload /\ Me.up = Null
                          /\ ~Me.close /\ ~Me.post /\ ~Me.hdr
           /\ Me.path => Me.hdr \/ InMultipart
           /\ Settled(Me) /\ Refs(Me) = {Me.socket, Me.up} \ {Null}
<1>1. Me \in Conn /\ ConnInv(Me) /\ Stage("read", Me)
  BY AtWork DEF Working
<1>2. Me.phase = "receiving" /\ Me.socket # Null /\ Settled(Me)
  BY <1>1 DEF Stage
<1>3. /\ Me.fd = Null /\ ~Me.ptr /\ ~Me.handler /\ ~Me.toFree /\ ~Me.data
      /\ Me.pxMP = "none" => Me.up = Null
  BY <1>1, <1>2 DEF ConnInv, Shape, SessionExact
<1> QED
  BY <1>2, <1>3 DEF Settled, InMultipart, Refs

(* The fields after _mwParseHttpHeader.                                    *)
ParsedFields(c, post, mp) ==
    /\ c \in Conn /\ ConnInv(c)
    /\ c.post = post /\ c.pxMP = mp
    /\ c.path /\ c.hdr /\ ~c.payload
    /\ c.source = {} /\ c.phase = "receiving"
    /\ c.socket = Me.socket /\ c.fd = Null /\ c.up = Null
    /\ ~c.ptr /\ ~c.handler /\ ~c.toFree /\ ~c.data
    /\ Me.up = Null /\ Refs(c) = Refs(Me)

(* What parsing a header changes in the fields.                            *)
LEMMA ParsedConn ==
    ASSUME IndInv, pc = "read", ~Me.hdr, ~InMultipart,
           NEW post \in BOOLEAN, NEW close \in BOOLEAN,
           NEW mp \in {"none", "boundary", "upload"}
    PROVE  ParsedFields(Parsed(post, mp, close), post, mp)
<1>1. Me \in Conn /\ ConnInv(Me)
  BY AtWork DEF Working
<1>2. /\ ~Me.path /\ Me.pxMP = "none" /\ ~Me.payload /\ Me.up = Null
      /\ Me.socket # Null /\ Me.fd = Null /\ Me.phase = "receiving"
      /\ Me.source = {} /\ ~Me.ptr /\ ~Me.handler /\ ~Me.toFree /\ ~Me.data
  BY AtRead
<1> DEFINE l == [k \in Kinds |-> IF k = "path" \/ (k = "mp" /\ mp # "none")
                                 THEN Me.live[k] + 1 ELSE Me.live[k]]
           c == [Me EXCEPT !.post = post, !.pxMP = mp, !.close = close,
                           !.path = TRUE, !.hdr = TRUE, !.live = l]
<1>3. l \in [Kinds -> Nat]
  BY <1>1 DEF Conn
<1>4. /\ l["mp"] = IF mp # "none" THEN 1 ELSE 0
      /\ l["payload"] = 0 /\ l["path"] = 1 /\ l["ptr"] = 0 /\ l["stream"] = 0
  BY <1>1, <1>2 DEF ConnInv, ObjectsExact, SessionExact, Kinds
<1>5. c = Parsed(post, mp, close)
  BY DEF Parsed
<1> HIDE DEF l
<1>6. /\ c \in Conn /\ c.live = l
      /\ c.post = post /\ c.pxMP = mp /\ c.close = close
      /\ c.path /\ c.hdr
      /\ \A f \in {"socket", "fd", "up", "phase", "source", "toFree",
                   "handler", "ptr", "payload", "data"} : c[f] = Me[f]
  <2>1. c \in Conn
    BY ZenonT(40), <1>1, <1>3 DEF Conn
  <2>2. /\ c.live = l /\ c.post = post /\ c.pxMP = mp /\ c.close = close
        /\ c.path /\ c.hdr
    BY <1>1 DEF Conn
  <2>3. \A f \in {"socket", "fd", "up", "phase", "source", "toFree",
                  "handler", "ptr", "payload", "data"} : c[f] = Me[f]
    BY ZenonT(40), <1>1 DEF Conn
  <2> QED
    BY <2>1, <2>2, <2>3
<1> HIDE DEF c
<1>7. ConnInv(c)
  <2>1. ObjectsExact(c)
    BY <1>2, <1>4, <1>6 DEF ObjectsExact
  <2>2. SessionExact(c)
    BY <1>2, <1>4, <1>6 DEF SessionExact
  <2>3. Shape(c)
    BY <1>1, <1>2, <1>6 DEF ConnInv, Shape
  <2> QED
    BY <2>1, <2>2, <2>3 DEF ConnInv
<1>8. Refs(c) = Refs(Me)
  BY <1>6 DEF Refs
<1> QED
  BY <1>2, <1>5, <1>6, <1>7, <1>8 DEF ParsedFields

(* Every path through _mwProcessReadSocket.                                *)
LEMMA ReadInv == ASSUME IndInv, Read PROVE IndInv'
<1>1. /\ pc = "read" /\ pc \in Working
      /\ UNCHANGED <<list, mem, orphan, stalled, kill>>
  BY DEF Read, ReadMultipart, ReadClosed, ReadMore, ReadRejected, ReadGet,
         ReadPost, ReadPostMultipart, ReadPostUpload, ReadBody, At, Working
<1>2. /\ cur \in list /\ cur \in Structs /\ cur # Null
      /\ Me \in Conn /\ ConnInv(Me) /\ expired \subseteq Structs
      /\ open \subseteq Descs /\ Null \notin open /\ Refs(Me) \subseteq open
  BY <1>1, AtWork, NullAssumption
<1>3. ASSUME ReadMultipart PROVE IndInv'
  <2>1. [Me EXCEPT !.up = Null] \in Conn
    BY <1>2 DEF Conn
  <2>2. ConnInv([Me EXCEPT !.up = Null])
    <3> DEFINE n == [Me EXCEPT !.up = Null]
    <3>1. n.up = Null /\ \A f \in {"socket", "fd", "phase", "source", "toFree",
                  "handler", "ptr", "pxMP", "payload", "path", "data",
                  "live"} : n[f] = Me[f]
      BY <1>2 DEF Conn
    <3> HIDE DEF n
    <3>2. ConnInv(n)
      BY <1>2, <3>1 DEF ConnInv, ObjectsExact, SessionExact, Shape
    <3> QED
      BY <3>2 DEF n
  <2>3. InMultipart /\ Me.path
    BY <1>1, <1>3, AtRead DEF ReadMultipart, InMultipart
  <2>4. MultipartPost(Me) /\ clientCount' = clientCount
    BY <1>3 DEF ReadMultipart
  <2> QED
    BY <1>1, <1>2, <2>2, <2>3, <2>4, AtRead, MultipartInv DEF InMultipart
<1>4. ASSUME ReadClosed PROVE IndInv'
  <2> DEFINE last == Me.post /\ Me.pxMP # "none"
             c == [Me EXCEPT !.close = TRUE, !.up = IF last THEN Null ELSE @]
             x == Closed(c)
  <2>1. /\ conn' = [conn EXCEPT ![cur] = x]
        /\ open' = open \ (ClosedDescs(c) \cup (IF last THEN {Me.up} ELSE {}))
        /\ clientCount' = clientCount - 1
        /\ IF last THEN Touch ELSE Goto("close") /\ UNCHANGED expired
    BY <1>4 DEF ReadClosed
  <2>2. /\ c \in Conn /\ c.close /\ c.up \in {Me.up, Null}
        /\ ~last => c.up = Me.up
        /\ last => c.up = Null
        /\ \A f \in {"socket", "fd", "phase", "source", "toFree", "handler",
                     "ptr", "pxMP", "payload", "path", "data", "live"} :
             c[f] = Me[f]
    BY ZenonT(40), <1>2 DEF Conn
  <2> HIDE DEF c
  <2>3. ConnInv(c)
    BY <1>2, <2>2 DEF ConnInv, ObjectsExact, SessionExact, Shape
  <2>4. c.phase = "receiving" /\ c.socket = Me.socket /\ Me.socket # Null
        /\ Refs(Me) = {Me.socket, Me.up} \ {Null} /\ c.fd = Null
    BY <1>1, <2>2, AtRead
  <2>5. /\ x \in Conn /\ ConnInv(x) /\ Settled(x)
        /\ Refs(x) = Refs(c) \ ClosedDescs(c)
        /\ ClosedDescs(c) \subseteq Refs(c) \cup {Null}
        /\ x.socket = Null /\ x.phase = "receiving"
    BY <2>2, <2>3, <2>4, ClosedConn DEF KeepsAlive
  <2> HIDE DEF x
  <2>6. x.fd = Null /\ x.up = Null /\ Refs(x) = {}
    BY <2>5 DEF ConnInv, Shape, Refs
  <2>7. Refs(c) = {Me.socket, c.up} \ {Null}
    BY <2>4 DEF Refs
  <2>8. open' = open \ Refs(Me)
    BY <1>2, <2>1, <2>2, <2>4, <2>5, <2>6, <2>7
  <2>9. \/ cur' = cur /\ pc' \in Working /\ Stage(pc', x)
        \/ cur' = Null /\ pc' \in {"sweep", "process"} /\ Settled(x)
    BY <2>1, <2>5 DEF Touch, Goto, Stage, Working
  <2>10. expired' \subseteq Structs /\ todo' = todo
    BY <1>2, <2>1 DEF Touch, Goto
  <2>11. clientCount' = IF conn[cur].socket # Null /\ x.socket = Null
                        THEN clientCount - 1 ELSE clientCount
    BY <2>1, <2>4, <2>5 DEF Me
  <2> QED
    BY <1>1, <1>2, <2>1, <2>5, <2>6, <2>8, <2>9, <2>10, <2>11, LocalStep DEF Me
<1>5. ASSUME ReadMore \/ ReadBody PROVE IndInv'
  <2>1. /\ UNCHANGED <<conn, open, clientCount, todo>>
        /\ \/ cur' = Null /\ pc' = "process"
           \/ cur' = cur /\ pc' = "dispatch"
        /\ expired' \subseteq Structs
    BY <1>2, <1>5 DEF ReadMore, ReadBody, Touch, Goto
  <2>2. Position'
    BY <1>1, <1>2, <2>1 DEF IndInv, Position, Working
  <2>3. Settled(Me) /\ Stage("dispatch", Me)
    BY <1>1, AtRead DEF Stage
  <2> QED
    BY <1>1, <1>2, <2>1, <2>2, <2>3, MoveStep DEF Me, Working, IndInv, TypeOK
<1>6. ASSUME ReadRejected PROVE IndInv'
  <2>1. PICK mp \in ParsedMP, post \in BOOLEAN :
          Set([Me EXCEPT !.close = TRUE, !.pxMP = mp, !.post = post,
                         !.live = IF mp = "none" THEN @ ELSE Acquire(Me, "mp")])
    BY <1>6 DEF ReadRejected
  <2>2. /\ cur' = cur /\ todo' = todo /\ pc' = "close" /\ expired' = expired
        /\ open' = open /\ clientCount' = clientCount
        /\ ~Me.hdr /\ ~InMultipart
    BY <1>6 DEF ReadRejected, Goto
  <2>3. /\ ~Me.path /\ Me.pxMP = "none" /\ ~Me.payload /\ Me.up = Null
        /\ Me.socket # Null /\ Me.fd = Null /\ Me.phase = "receiving"
        /\ Me.source = {} /\ ~Me.ptr /\ ~Me.handler /\ ~Me.toFree /\ ~Me.data
    BY <1>1, <2>2, AtRead
  <2>4. mp \in {"none", "boundary", "upload"}
    BY DEF ParsedMP
  <2> DEFINE l == IF mp = "none" THEN Me.live ELSE Acquire(Me, "mp")
             c == [Me EXCEPT !.close = TRUE, !.pxMP = mp, !.post = post,
                             !.live = l]
  <2>5. /\ l \in [Kinds -> Nat]
        /\ l["mp"] = IF mp # "none" THEN 1 ELSE 0
        /\ l["payload"] = 0 /\ l["path"] = 0 /\ l["ptr"] = 0 /\ l["stream"] = 0
    BY <1>2, <2>3 DEF Acquire, Conn, ConnInv, ObjectsExact, SessionExact, Kinds
  <2>6. Set(c)
    BY <2>1
  <2> HIDE DEF l
  <2>7. /\ c \in Conn /\ c.live = l /\ c.pxMP = mp
        /\ \A f \in {"socket", "fd", "up", "phase", "source", "toFree",
                     "handler", "ptr", "payload", "path", "data"} :
             c[f] = Me[f]
    <3>1. c \in Conn
      BY ZenonT(40), <1>2, <2>4, <2>5 DEF Conn
    <3>2. c.live = l /\ c.pxMP = mp
      BY <1>2 DEF Conn
    <3>3. \A f \in {"socket", "fd", "up", "phase", "source", "toFree",
                    "handler", "ptr", "payload", "path", "data"} :
             c[f] = Me[f]
      BY ZenonT(40), <1>2 DEF Conn
    <3> QED
      BY <3>1, <3>2, <3>3
  <2> HIDE DEF c
  <2>8. ConnInv(c)
    BY <2>3, <2>5, <2>7 DEF ConnInv, ObjectsExact, SessionExact, Shape
  <2>9. Refs(c) = Refs(Me) /\ Stage("close", c)
    BY <2>3, <2>7 DEF Refs, Stage
  <2> QED
    BY <1>1, <1>2, <2>2, <2>6, <2>7, <2>8, <2>9, SetStep DEF Working
<1>7. ASSUME ReadGet PROVE IndInv'
  <2>1. PICK mp \in ParsedMP, close \in BOOLEAN : Set(Parsed(FALSE, mp, close))
    BY <1>7 DEF ReadGet
  <2> DEFINE c == Parsed(FALSE, mp, close)
  <2>2. /\ todo' = todo /\ expired' \subseteq Structs
        /\ \/ cur' = cur /\ pc' = "dispatch"
           \/ cur' = Null /\ pc' = "process"
        /\ open' = open /\ clientCount' = clientCount
        /\ ~Me.hdr /\ ~InMultipart
    BY <1>2, <1>7 DEF ReadGet, Goto, Touch
  <2>3. mp \in {"none", "boundary", "upload"}
    BY DEF ParsedMP
  <2>4. /\ c \in Conn /\ ConnInv(c) /\ c.path /\ c.hdr /\ c.source = {}
        /\ c.phase = "receiving" /\ c.socket = Me.socket /\ Refs(c) = Refs(Me)
    <3>1. ParsedFields(c, FALSE, mp)
      BY <1>1, <2>2, <2>3, ParsedConn
    <3> HIDE DEF c
    <3> QED
      BY <3>1 DEF ParsedFields
  <2>5. Me.socket # Null
    BY <1>1, AtRead
  <2> HIDE DEF c
  <2>6. Settled(c) /\ Stage("dispatch", c)
    BY <2>4, <2>5 DEF Settled, Stage
  <2> QED
    BY <1>1, <1>2, <2>1, <2>2, <2>4, <2>6, SetStep DEF Working, c
<1>8. ASSUME ReadPost PROVE IndInv'
  <2>1. PICK close \in BOOLEAN :
          LET c == Parsed(TRUE, "none", close)
          IN  Set([c EXCEPT !.payload = TRUE,
                            !.live = IF c.payload THEN @
                                     ELSE Acquire(c, "payload")])
    BY <1>8 DEF ReadPost
  <2>2. /\ cur' = cur /\ todo' = todo /\ pc' = "dispatch" /\ expired' = expired
        /\ open' = open /\ clientCount' = clientCount
        /\ ~Me.hdr /\ ~InMultipart
    BY <1>8 DEF ReadPost, Goto
  <2> DEFINE c == Parsed(TRUE, "none", close)
             l == Acquire(c, "payload")
             r == [c EXCEPT !.payload = TRUE, !.live = l]
  <2>3. /\ c \in Conn /\ ConnInv(c) /\ c.path /\ c.hdr /\ c.source = {}
        /\ c.phase = "receiving" /\ c.socket = Me.socket /\ Refs(c) = Refs(Me)
        /\ ~c.payload /\ c.fd = Null /\ ~c.toFree /\ ~c.ptr
    <3>1. ParsedFields(c, TRUE, "none")
      BY <1>1, <2>2, ParsedConn
    <3> HIDE DEF c
    <3> QED
      BY <3>1 DEF ParsedFields
  <2>4. Set(r)
    <3> HIDE DEF c
    <3> QED
      BY <2>1, <2>3 DEF c
  <2> HIDE DEF c
  <2>5. /\ l \in [Kinds -> Nat] /\ l["payload"] = 1
        /\ \A k \in Kinds \ {"payload"} : l[k] = c.live[k]
    BY <2>3 DEF Acquire, Conn, ConnInv, ObjectsExact, Kinds
  <2> HIDE DEF l
  <2>6. /\ r \in Conn /\ r.live = l /\ r.payload
        /\ \A f \in {"socket", "fd", "up", "phase", "source", "toFree",
                     "handler", "ptr", "pxMP", "path", "data"} : r[f] = c[f]
    BY ZenonT(40), <2>3, <2>5 DEF Conn
  <2> HIDE DEF r
  <2>7. Me.socket # Null
    BY <1>1, AtRead
  <2>8. ConnInv(r) /\ Refs(r) = Refs(Me)
    BY <2>3, <2>5, <2>6, <2>7
       DEF ConnInv, ObjectsExact, SessionExact, Shape, Refs, Kinds
  <2>9. Stage("dispatch", r)
    BY <2>3, <2>6, <2>7 DEF Stage
  <2> QED
    BY <1>1, <1>2, <2>2, <2>3, <2>4, <2>6, <2>8, <2>9, SetStep DEF Working
<1>9. ASSUME ReadPostMultipart PROVE IndInv'
  <2>1. PICK close \in BOOLEAN :
          MultipartPost([Parsed(TRUE, "boundary", close) EXCEPT !.hdr = FALSE])
    BY <1>9 DEF ReadPostMultipart
  <2>2. ~Me.hdr /\ ~InMultipart /\ clientCount' = clientCount
    BY <1>9 DEF ReadPostMultipart
  <2> DEFINE c == Parsed(TRUE, "boundary", close)
             r == [c EXCEPT !.hdr = FALSE]
             n == [r EXCEPT !.up = Null]
  <2>3. /\ c \in Conn /\ ConnInv(c) /\ c.path /\ c.post /\ c.source = {}
        /\ c.pxMP = "boundary" /\ c.up = Null /\ Me.up = Null
        /\ c.phase = "receiving" /\ c.socket = Me.socket /\ c.fd = Null
    <3>1. ParsedFields(c, TRUE, "boundary")
      BY <1>1, <2>2, ParsedConn
    <3> HIDE DEF c
    <3> QED
      BY <3>1 DEF ParsedFields
  <2>4. MultipartPost(r)
    BY <2>1
  <2> HIDE DEF c
  <2>5. /\ r \in Conn /\ n \in Conn /\ r.post
        /\ \A f \in {"socket", "fd", "up", "phase", "source", "toFree",
                     "handler", "ptr", "pxMP", "payload", "path", "data",
                     "live"} : r[f] = c[f] /\ n[f] = c[f]
    BY ZenonT(40), <2>3 DEF Conn
  <2> HIDE DEF n
  <2>6. ConnInv(n)
    BY <2>3, <2>5, SameFields
  <2>7. ConnInv([r EXCEPT !.up = Null])
    BY <2>6 DEF n
  <2> HIDE DEF r
  <2> QED
    BY <1>1, <2>2, <2>3, <2>4, <2>5, <2>7, AtRead, MultipartInv
<1>10. ASSUME ReadPostUpload PROVE IndInv'
  <2>1. PICK close \in BOOLEAN, u \in Descs \cup {Null} :
          LET c == Parsed(TRUE, "upload", close)
          IN  UploadFile(c, u) /\ Set([c EXCEPT !.up = u])
    BY <1>10 DEF ReadPostUpload
  <2>2. /\ cur' = Null /\ todo' = todo /\ pc' = "process"
        /\ expired' \subseteq Structs /\ clientCount' = clientCount
        /\ ~Me.hdr /\ ~InMultipart
    BY <1>2, <1>10 DEF ReadPostUpload, Touch
  <2> DEFINE c == Parsed(TRUE, "upload", close)
             r == [c EXCEPT !.up = u]
             n == [r EXCEPT !.up = Null]
  <2>3. /\ c \in Conn /\ ConnInv(c) /\ c.path /\ c.hdr /\ c.source = {}
        /\ c.pxMP = "upload" /\ c.up = Null /\ Me.up = Null
        /\ c.phase = "receiving" /\ c.socket = Me.socket /\ c.fd = Null
    <3>1. ParsedFields(c, TRUE, "upload")
      BY <1>1, <2>2, ParsedConn
    <3> HIDE DEF c
    <3> QED
      BY <3>1 DEF ParsedFields
  <2>4. UploadFile(c, u) /\ Set(r)
    BY <2>1
  <2> HIDE DEF c
  <2>5. UploadFile(Me, u)
    BY <2>3, <2>4 DEF UploadFile
  <2>6. /\ r \in Conn /\ n \in Conn /\ r.hdr /\ r.up = u
        /\ \A f \in {"socket", "fd", "phase", "source", "toFree",
                     "handler", "ptr", "pxMP", "payload", "path", "data",
                     "live"} : r[f] = c[f] /\ n[f] = c[f]
        /\ n.up = c.up
    BY ZenonT(40), <2>3 DEF Conn
  <2> HIDE DEF n
  <2>7. ConnInv(n)
    BY <2>3, <2>6, SameFields
  <2>8. ConnInv([r EXCEPT !.up = Null])
    BY <2>7 DEF n
  <2> HIDE DEF r
  <2>9. Settled(r) /\ Me.fd = Null
    BY <1>1, <2>3, <2>6, AtRead DEF Settled
  <2> QED
    BY <1>1, <2>2, <2>3, <2>4, <2>5, <2>6, <2>8, <2>9, UploadStep
<1> QED
  BY <1>3, <1>4, <1>5, <1>6, <1>7, <1>8, <1>9, <1>10 DEF Read

-----------------------------------------------------------------------------
(* From a complete request to its response.                                *)

(* A file is opened for the structure the loop works on.                   *)
LEMMA OpenStep ==
    ASSUME IndInv, pc \in Working, Me.fd = Null, Me.socket # Null,
           NEW d \in Descs \ open, NEW c \in Conn,
           NEW b \in Conn, ConnInv(b), b.phase = "sending",
           b.socket = Me.socket, b.fd = Null, b.up = Me.up,
           c = [b EXCEPT !.fd = d], Set(c), open' = open \cup {d},
           UNCHANGED <<list, mem, orphan, clientCount, stalled, kill>>,
           expired' \subseteq Structs, todo' = todo,
           \/ cur' = cur /\ pc' \in Working /\ Stage(pc', c)
           \/ cur' = Null /\ pc' = "process" /\ Settled(c)
    PROVE  IndInv'
<1>1. /\ cur \in list /\ pc # "cleanup" /\ Refs(Me) \subseteq open /\ ConnInv(Me)
  BY AtWork DEF Working
<1>2. d # Null
  BY NullAssumption
<1>3. /\ c.fd = d
      /\ \A f \in {"socket", "up", "phase", "source", "toFree", "handler",
                   "ptr", "pxMP", "payload", "path", "data", "live"} :
           c[f] = b[f]
  BY DEF Conn
<1>4. Refs(Me) = {Me.socket, Me.up} \ {Null}
  BY DEF Refs
<1>5. Refs(c) = Refs(Me) \cup {d}
  BY <1>2, <1>3, <1>4 DEF Refs
<1>6. d # Me.socket /\ d # Me.up
  BY <1>1, <1>2, <1>4
<1>7. ConnInv(c)
  <2>1. ObjectsExact(c)
    BY <1>3 DEF ConnInv, ObjectsExact
  <2>2. SessionExact(c)
    BY <1>3 DEF ConnInv, SessionExact
  <2>3. Shape(c)
    BY <1>2, <1>3, <1>6 DEF ConnInv, Shape
  <2> QED
    BY <2>1, <2>2, <2>3 DEF ConnInv
<1>8. clientCount' = IF Me.socket # Null /\ c.socket = Null
                     THEN clientCount - 1 ELSE clientCount
  BY <1>3
<1>9. open' = (open \ (Refs(Me) \ Refs(c))) \cup Refs(c)
  BY <1>1, <1>5
<1> QED
  BY <1>1, <1>3, <1>5, <1>7, <1>8, <1>9, LocalStep DEF Set, Me

(* The fields once a response has been chosen.                             *)
SendingFields(c, src) ==
    /\ c \in Conn /\ ConnInv(c) /\ c.phase = "sending"
    /\ c.source = Me.source \cup src
    /\ c.socket = Me.socket /\ c.fd = Null /\ c.up = Me.up
    /\ ~c.ptr /\ ~c.handler /\ ~c.toFree /\ ~c.data
    /\ Refs(c) = Refs(Me)

(* A connection turned to sending still owns what it did.                  *)
LEMMA SendingConn ==
    ASSUME IndInv, pc = "dispatch", NEW src \in SUBSET Sources
    PROVE  /\ SendingFields(Sending(Me, src), src)
           /\ Me.socket # Null /\ Me.fd = Null /\ Me.phase = "receiving"
           /\ Me.source \subseteq {"redirect"}
<1>1. Me \in Conn /\ ConnInv(Me) /\ Stage("dispatch", Me)
  BY AtWork DEF Working
<1>2. /\ Me.socket # Null /\ Me.fd = Null /\ Me.phase = "receiving"
      /\ Me.source \subseteq {"redirect"}
      /\ ~Me.ptr /\ ~Me.handler /\ ~Me.toFree /\ ~Me.data
  BY <1>1 DEF Stage, ConnInv, Shape, SessionExact
<1> DEFINE c == [Me EXCEPT !.phase = "sending", !.source = @ \cup src]
<1>3. c = Sending(Me, src)
  BY DEF Sending
<1>4. /\ c \in Conn /\ c.phase = "sending" /\ c.source = Me.source \cup src
      /\ \A f \in {"socket", "fd", "up", "toFree", "handler", "ptr", "pxMP",
                   "payload", "path", "data", "live"} : c[f] = Me[f]
  BY ZenonT(40), <1>1 DEF Conn
<1> HIDE DEF c
<1>5. ConnInv(c)
  <2>1. ObjectsExact(c)
    BY <1>1, <1>4 DEF ConnInv, ObjectsExact
  <2>2. SessionExact(c)
    BY <1>1, <1>2, <1>4 DEF ConnInv, SessionExact
  <2>3. Shape(c)
    BY <1>1, <1>2, <1>4 DEF ConnInv, Shape
  <2> QED
    BY <2>1, <2>2, <2>3 DEF ConnInv
<1>6. Refs(c) = Refs(Me)
  BY <1>4 DEF Refs
<1> QED
  BY <1>2, <1>3, <1>4, <1>5, <1>6 DEF SendingFields

(* Every outcome of authentication and of the URL handlers.                *)
LEMMA DispatchInv ==
    ASSUME IndInv,
           \/ Unauthorized \/ HandlerRedirects \/ HandlerNone \/ HandlerRaw
           \/ HandlerStream \/ HandlerFile
    PROVE  IndInv'
<1>1. /\ pc = "dispatch" /\ pc \in Working
      /\ UNCHANGED <<list, mem, orphan, stalled, kill>>
  BY DEF Unauthorized, HandlerRedirects, HandlerNone, HandlerRaw,
         HandlerStream, HandlerFile, At, Working
<1>2. /\ cur \in list /\ cur \in Structs /\ cur # Null
      /\ Me \in Conn /\ ConnInv(Me) /\ expired \subseteq Structs
      /\ open \subseteq Descs /\ Null \notin open /\ Refs(Me) \subseteq open
  BY <1>1, AtWork, NullAssumption
<1>3. /\ Me.socket # Null /\ Me.fd = Null /\ Me.phase = "receiving"
      /\ Me.source \subseteq {"redirect"}
  BY <1>1, SendingConn
<1>4. ~Me.ptr /\ ~Me.toFree /\ ~Me.handler /\ ~Me.data
  BY <1>2, <1>3 DEF ConnInv, Shape, SessionExact
<1>5. ASSUME Unauthorized PROVE IndInv'
  <2> DEFINE c == [Me EXCEPT !.close = TRUE]
             x == Closed(c)
  <2>1. /\ conn' = [conn EXCEPT ![cur] = x]
        /\ open' = open \ ClosedDescs(c)
        /\ clientCount' = clientCount - 1
        /\ cur' = Null /\ pc' = "process" /\ todo' = todo
        /\ expired' \subseteq Structs
    BY <1>2, <1>5 DEF Unauthorized, Touch
  <2>2. /\ c \in Conn /\ c.close
        /\ \A f \in {"socket", "fd", "up", "phase", "source", "toFree",
                     "handler", "ptr", "pxMP", "payload", "path", "data",
                     "live"} : c[f] = Me[f]
    BY ZenonT(40), <1>2 DEF Conn
  <2> HIDE DEF c
  <2>3. ConnInv(c) /\ Refs(c) = Refs(Me) /\ c.phase = "receiving"
    BY <1>2, <1>3, <2>2, SameFields
  <2>4. /\ x \in Conn /\ ConnInv(x) /\ Settled(x)
        /\ Refs(x) = Refs(c) \ ClosedDescs(c)
        /\ ClosedDescs(c) \subseteq Refs(c) \cup {Null}
        /\ x.socket = Null
    BY <2>2, <2>3, ClosedConn DEF KeepsAlive
  <2> HIDE DEF x
  <2>5. open' = (open \ (Refs(Me) \ Refs(x))) \cup Refs(x)
        /\ Refs(x) \subseteq Refs(Me)
    BY <1>2, <2>1, <2>3, <2>4
  <2>6. clientCount' = IF Me.socket # Null /\ x.socket = Null
                       THEN clientCount - 1 ELSE clientCount
    BY <1>3, <2>1, <2>4
  <2> QED
    BY <1>1, <1>2, <2>1, <2>4, <2>5, <2>6, LocalStep DEF Me
<1>6. ASSUME HandlerRedirects PROVE IndInv'
  <2> DEFINE c == [Me EXCEPT !.source = {"redirect"}, !.close = TRUE]
  <2>1. /\ Set(c) /\ cur' = cur /\ todo' = todo /\ pc' = "dispatch"
        /\ UNCHANGED <<open, clientCount, expired>>
    BY <1>6 DEF HandlerRedirects, Goto
  <2>2. /\ c \in Conn /\ c.source = {"redirect"}
        /\ \A f \in {"socket", "fd", "up", "phase", "toFree", "handler", "ptr",
                     "pxMP", "payload", "path", "data", "live"} : c[f] = Me[f]
    BY ZenonT(40), <1>2 DEF Conn, Sources
  <2> HIDE DEF c
  <2>3. ConnInv(c)
    BY <1>2, <1>3, <2>2 DEF ConnInv, ObjectsExact, SessionExact, Shape
  <2>4. Refs(c) = Refs(Me) /\ Stage("dispatch", c)
    BY <1>3, <2>2 DEF Refs, Stage
  <2> QED
    BY <1>1, <1>2, <2>1, <2>2, <2>3, <2>4, SetStep
<1>7. ASSUME HandlerNone PROVE IndInv'
  <2>1. /\ cur' = cur /\ todo' = todo
        /\ UNCHANGED <<open, clientCount, expired>>
    BY <1>7 DEF HandlerNone, Goto
  <2>2. ASSUME Set(Sending(Me, {"file"})), pc' = "file" PROVE IndInv'
    <3> DEFINE c == Sending(Me, {"file"})
    <3>1. SendingFields(c, {"file"})
      BY <1>1, SendingConn DEF Sources
    <3> HIDE DEF c
    <3>2. Stage("file", c)
      BY <1>3, <3>1 DEF SendingFields, Stage
    <3> QED
      BY <1>1, <1>2, <2>1, <2>2, <3>1, <3>2, SetStep
         DEF c, SendingFields, Working
  <2>3. ASSUME "redirect" \in Me.source, Set(Sending(Me, {})), pc' = "start"
        PROVE IndInv'
    <3> DEFINE c == Sending(Me, {})
    <3>1. SendingFields(c, {})
      BY <1>1, SendingConn
    <3> HIDE DEF c
    <3>2. Stage("start", c)
      BY <1>3, <2>3, <3>1 DEF SendingFields, Stage
    <3> QED
      BY <1>1, <1>2, <2>1, <2>3, <3>1, <3>2, SetStep
         DEF c, SendingFields, Working
  <2> QED
    BY <1>7, <2>2, <2>3 DEF HandlerNone, Goto
<1>8. ASSUME HandlerRaw PROVE IndInv'
  <2> DEFINE b == Sending(Me, {"raw"})
  <2>1. PICK toFree \in BOOLEAN, data \in BOOLEAN :
          Set([b EXCEPT !.handler = TRUE, !.data = data, !.toFree = toFree,
                        !.ptr = toFree,
                        !.live = IF toFree THEN Acquire(Me, "ptr") ELSE @])
    BY <1>8 DEF HandlerRaw
  <2>2. /\ cur' = cur /\ todo' = todo /\ pc' = "start"
        /\ UNCHANGED <<open, clientCount, expired>>
    BY <1>8 DEF HandlerRaw, Goto
  <2>3. SendingFields(b, {"raw"}) /\ b.live = Me.live
    BY <1>1, <1>2, SendingConn DEF Sources, Sending, Conn
  <2> HIDE DEF b
  <2>4. b \in Conn
    BY <2>3 DEF SendingFields
  <2> DEFINE l == IF toFree THEN Acquire(Me, "ptr") ELSE b.live
             c == [b EXCEPT !.handler = TRUE, !.data = data, !.toFree = toFree,
                            !.ptr = toFree, !.live = l]
  <2>5. /\ l \in [Kinds -> Nat] /\ l["ptr"] = IF toFree THEN 1 ELSE 0
        /\ \A k \in Kinds \ {"ptr"} : l[k] = b.live[k]
    BY <1>2, <1>4, <2>3 DEF Acquire, Conn, ConnInv, SessionExact, Kinds
  <2>6. Set(c)
    BY <2>1
  <2> HIDE DEF l
  <2>7. /\ c \in Conn /\ c.live = l /\ c.toFree = toFree /\ c.ptr = toFree
        /\ c.handler
        /\ \A f \in {"socket", "fd", "up", "phase", "source", "pxMP",
                     "payload", "path"} : c[f] = b[f]
    <3>1. c \in Conn
      BY ZenonT(40), <2>4, <2>5 DEF Conn
    <3>2. c.live = l /\ c.toFree = toFree /\ c.ptr = toFree /\ c.handler
      BY <2>4 DEF Conn
    <3>3. \A f \in {"socket", "fd", "up", "phase", "source", "pxMP",
                    "payload", "path"} : c[f] = b[f]
      BY ZenonT(40), <2>4 DEF Conn
    <3> QED
      BY <3>1, <3>2, <3>3
  <2> HIDE DEF c
  <2>8. /\ ConnInv(b) /\ b.phase = "sending" /\ b.socket = Me.socket
        /\ b.source = Me.source \cup {"raw"} /\ Refs(b) = Refs(Me) /\ ~b.handler
    BY <2>3 DEF SendingFields
  <2>9. ConnInv(c)
    <3>1. ObjectsExact(c)
      BY <2>5, <2>7, <2>8 DEF ConnInv, ObjectsExact, Kinds
    <3>2. SessionExact(c)
      BY <1>3, <2>5, <2>7, <2>8 DEF ConnInv, SessionExact, Kinds
    <3>3. Shape(c)
      BY <1>3, <2>7, <2>8 DEF ConnInv, Shape
    <3> QED
      BY <3>1, <3>2, <3>3 DEF ConnInv
  <2>10. Refs(c) = Refs(Me) /\ Stage("start", c)
    BY <1>3, <2>7, <2>8 DEF Refs, Stage
  <2> QED
    BY <1>1, <1>2, <2>2, <2>6, <2>7, <2>8, <2>9, <2>10, SetStep DEF Working
<1>9. ASSUME HandlerStream PROVE IndInv'
  <2> DEFINE b == Sending(Me, {"stream"})
             l == [k \in Kinds |-> IF k \in {"ptr", "stream"}
                                   THEN b.live[k] + 1 ELSE b.live[k]]
             c == [b EXCEPT !.handler = TRUE, !.data = FALSE, !.toFree = TRUE,
                            !.ptr = TRUE, !.live = l]
  <2>1. /\ Set(c) /\ cur' = cur /\ todo' = todo /\ pc' = "start"
        /\ UNCHANGED <<open, clientCount, expired>>
    BY <1>9 DEF HandlerStream, Goto
  <2>2. SendingFields(b, {"stream"})
    BY <1>1, SendingConn DEF Sources
  <2> HIDE DEF b
  <2>3. /\ b \in Conn /\ ConnInv(b) /\ b.phase = "sending"
        /\ b.socket = Me.socket /\ ~b.handler /\ ~b.ptr
        /\ b.source = Me.source \cup {"stream"} /\ Refs(b) = Refs(Me)
    BY <2>2 DEF SendingFields
  <2>4. /\ l \in [Kinds -> Nat] /\ l["ptr"] = 1 /\ l["stream"] = 1
        /\ \A k \in Kinds \ {"ptr", "stream"} : l[k] = b.live[k]
    BY <2>3 DEF Conn, ConnInv, SessionExact, Kinds
  <2> HIDE DEF l
  <2>5. /\ c \in Conn /\ c.live = l /\ c.toFree /\ c.ptr /\ c.handler
        /\ \A f \in {"socket", "fd", "up", "phase", "source", "pxMP",
                     "payload", "path"} : c[f] = b[f]
    BY ZenonT(40), <2>3, <2>4 DEF Conn
  <2> HIDE DEF c
  <2>6. ConnInv(c)
    <3>1. ObjectsExact(c)
      BY <2>3, <2>4, <2>5 DEF ConnInv, ObjectsExact, Kinds
    <3>2. SessionExact(c)
      BY <2>3, <2>4, <2>5 DEF SessionExact
    <3>3. Shape(c)
      BY <1>3, <2>3, <2>5 DEF ConnInv, Shape
    <3> QED
      BY <3>1, <3>2, <3>3 DEF ConnInv
  <2>7. Refs(c) = Refs(Me) /\ Stage("start", c)
    BY <1>3, <2>3, <2>5 DEF Refs, Stage
  <2> QED
    BY <1>1, <1>2, <2>1, <2>3, <2>5, <2>6, <2>7, SetStep DEF Working
<1>10. ASSUME HandlerFile PROVE IndInv'
  <2> DEFINE b == Sending(Me, {"file"})
             c == [b EXCEPT !.handler = TRUE]
  <2>1. /\ cur' = cur /\ todo' = todo /\ pc' = "file"
        /\ UNCHANGED <<clientCount, expired>>
        /\ \/ Set(c) /\ open' = open
           \/ \E d \in Descs \ open :
                /\ Set([b EXCEPT !.handler = TRUE, !.fd = d])
                /\ open' = open \cup {d}
    BY <1>10 DEF HandlerFile, Goto
  <2>2. SendingFields(b, {"file"})
    BY <1>1, SendingConn DEF Sources
  <2> HIDE DEF b
  <2>3. /\ b \in Conn /\ ConnInv(b) /\ b.phase = "sending" /\ b.fd = Null
        /\ b.socket = Me.socket /\ b.up = Me.up /\ ~b.ptr /\ ~b.data
        /\ b.source = Me.source \cup {"file"} /\ Refs(b) = Refs(Me)
    BY <2>2 DEF SendingFields
  <2>4. /\ c \in Conn
        /\ \A f \in {"socket", "fd", "up", "phase", "source", "toFree", "ptr",
                     "pxMP", "payload", "path", "data", "live"} : c[f] = b[f]
    BY ZenonT(40), <2>3 DEF Conn
  <2>5. \A d \in Descs : [b EXCEPT !.handler = TRUE, !.fd = d]
                           = [c EXCEPT !.fd = d]
    BY <2>3 DEF Conn
  <2> HIDE DEF c
  <2>6. ConnInv(c)
    <3>1. ObjectsExact(c)
      BY <2>3, <2>4 DEF ConnInv, ObjectsExact
    <3>2. SessionExact(c)
      BY <1>3, <2>3, <2>4 DEF ConnInv, SessionExact
    <3>3. Shape(c)
      BY <1>3, <2>3, <2>4 DEF ConnInv, Shape
    <3> QED
      BY <3>1, <3>2, <3>3 DEF ConnInv
  <2>7. Refs(c) = Refs(Me) /\ Stage("file", c)
    BY <1>3, <2>3, <2>4 DEF Refs, Stage
  <2>8. CASE Set(c) /\ open' = open
    BY <1>1, <1>2, <2>1, <2>3, <2>4, <2>6, <2>7, <2>8, SetStep DEF Working
  <2>9. ASSUME NEW d \in Descs \ open, Set([c EXCEPT !.fd = d]),
               open' = open \cup {d}
        PROVE  IndInv'
    <3> DEFINE r == [c EXCEPT !.fd = d]
    <3>1. /\ r \in Conn
          /\ \A f \in {"socket", "phase", "source", "ptr", "data"} : r[f] = c[f]
      BY <2>4 DEF Conn
    <3>2. r = [c EXCEPT !.fd = d]
      OBVIOUS
    <3> HIDE DEF r
    <3>3. Stage("file", r)
      BY <2>7, <3>1 DEF Stage
    <3> QED
      BY <1>1, <1>2, <1>3, <2>1, <2>3, <2>4, <2>6, <2>9, <3>1, <3>2, <3>3,
         OpenStep DEF Working
  <2> QED
    BY <2>1, <2>5, <2>8, <2>9
<1> QED
  BY <1>5, <1>6, <1>7, <1>8, <1>9, <1>10

(* Every way a response starts.                                            *)
LEMMA StartInv ==
    ASSUME IndInv,
           StartFileMissing \/ StartFileOpened \/ StartDirectory \/ StartResponse
    PROVE  IndInv'
<1>1. /\ pc \in {"file", "start"} /\ pc \in Working
      /\ UNCHANGED <<list, mem, orphan, clientCount, stalled, kill>>
  BY DEF StartFileMissing, StartFileOpened, StartDirectory, StartResponse, At,
         Working
<1>2. /\ cur \in list /\ cur \in Structs /\ cur # Null
      /\ Me \in Conn /\ ConnInv(Me) /\ Stage(pc, Me)
      /\ expired \subseteq Structs
  BY <1>1, AtWork, NullAssumption
<1>3. Me.socket # Null /\ Me.phase = "sending"
  BY <1>1, <1>2 DEF Stage
<1>4. ASSUME StartFileMissing \/ StartResponse PROVE IndInv'
  <2>1. /\ UNCHANGED <<conn, open, todo>> /\ expired' \subseteq Structs
        /\ \/ cur' = Null /\ pc' = "process" /\ pc = "start"
           \/ cur' = cur /\ pc' = "close"
    BY <1>2, <1>4 DEF StartFileMissing, StartResponse, Touch, Goto, At
  <2>2. Position'
    BY <1>1, <1>2, <2>1 DEF IndInv, Position, Working
  <2>3. Stage("close", Me) /\ (pc = "start" => Settled(Me))
    BY <1>2, <1>3 DEF Stage, Settled
  <2> QED
    BY <1>1, <1>2, <2>1, <2>2, <2>3, MoveStep DEF Me, Working, IndInv, TypeOK
<1>5. ASSUME StartFileOpened PROVE IndInv'
  <2> DEFINE b == [Me EXCEPT !.data = TRUE]
  <2>1. /\ cur' = Null /\ todo' = todo /\ pc' = "process"
        /\ expired' \subseteq Structs
        /\ \/ Me.fd # Null /\ Set(b) /\ open' = open
           \/ Me.fd = Null
              /\ \E d \in Descs \ open :
                   /\ Set([Me EXCEPT !.data = TRUE, !.fd = d])
                   /\ open' = open \cup {d}
    BY <1>2, <1>5 DEF StartFileOpened, Touch
  <2>2. /\ b \in Conn
        /\ \A f \in {"socket", "fd", "up", "phase", "source", "toFree",
                     "handler", "ptr", "pxMP", "payload", "path", "live"} :
             b[f] = Me[f]
    BY ZenonT(40), <1>2 DEF Conn
  <2>3. \A d \in Descs : [Me EXCEPT !.data = TRUE, !.fd = d]
                           = [b EXCEPT !.fd = d]
    BY <1>2 DEF Conn
  <2> HIDE DEF b
  <2>4. ConnInv(b)
    <3>1. ObjectsExact(b)
      BY <1>2, <2>2 DEF ConnInv, ObjectsExact
    <3>2. SessionExact(b)
      BY <1>2, <2>2 DEF ConnInv, SessionExact
    <3>3. Shape(b)
      BY <1>2, <1>3, <2>2 DEF ConnInv, Shape
    <3> QED
      BY <3>1, <3>2, <3>3 DEF ConnInv
  <2>5. Refs(b) = Refs(Me)
    BY <2>2 DEF Refs
  <2>6. ASSUME Me.fd # Null, Set(b), open' = open PROVE IndInv'
    <3>1. Settled(b)
      BY <1>3, <2>2, <2>6 DEF Settled
    <3> QED
      BY <1>1, <1>2, <2>1, <2>2, <2>4, <2>5, <2>6, <3>1, SetStep
  <2>7. ASSUME Me.fd = Null, NEW d \in Descs \ open, Set([b EXCEPT !.fd = d]),
               open' = open \cup {d}
        PROVE  IndInv'
    <3> DEFINE r == [b EXCEPT !.fd = d]
    <3>1. r \in Conn /\ r.fd = d /\ r.phase = b.phase
      BY <2>2 DEF Conn
    <3>2. r = [b EXCEPT !.fd = d]
      OBVIOUS
    <3> HIDE DEF r
    <3>3. Settled(r)
      BY <1>3, <2>2, <3>1, NullAssumption DEF Settled
    <3> QED
      BY <1>1, <1>2, <1>3, <2>1, <2>2, <2>4, <2>7, <3>1, <3>2, <3>3, OpenStep
  <2> QED
    BY <2>1, <2>3, <2>6, <2>7
<1>6. ASSUME StartDirectory PROVE IndInv'
  <2>1. /\ cur' = cur /\ todo' = todo /\ pc' = "start" /\ pc = "file"
        /\ UNCHANGED <<open, expired>>
    BY <1>6 DEF StartDirectory, Goto, At
  <2>2. ~Me.ptr /\ ~Me.toFree /\ Me.source \cap {"raw", "stream"} = {}
    BY <1>2, <1>3, <2>1 DEF Stage, ConnInv, SessionExact
  <2>3. ASSUME NEW data \in BOOLEAN,
               Set([Me EXCEPT !.source = @ \cup {"raw"}, !.close = TRUE,
                              !.data = data])
        PROVE  IndInv'
    <3> DEFINE c == [Me EXCEPT !.source = @ \cup {"raw"}, !.close = TRUE,
                               !.data = data]
    <3>1. /\ c \in Conn /\ c.source = Me.source \cup {"raw"}
          /\ \A f \in {"socket", "fd", "up", "phase", "toFree", "handler",
                       "ptr", "pxMP", "payload", "path", "live"} : c[f] = Me[f]
      BY ZenonT(40), <1>2 DEF Conn, Sources
    <3>2. Set(c)
      BY <2>3
    <3> HIDE DEF c
    <3>3. ConnInv(c)
      <4>1. ObjectsExact(c)
        BY <1>2, <3>1 DEF ConnInv, ObjectsExact
      <4>2. SessionExact(c)
        BY <1>2, <2>2, <3>1 DEF ConnInv, SessionExact
      <4>3. Shape(c)
        BY <1>2, <1>3, <3>1 DEF ConnInv, Shape
      <4> QED
        BY <4>1, <4>2, <4>3 DEF ConnInv
    <3>4. Refs(c) = Refs(Me) /\ Stage("start", c)
      BY <1>3, <3>1 DEF Refs, Stage
    <3> QED
      BY <1>1, <1>2, <2>1, <3>1, <3>2, <3>3, <3>4, SetStep DEF Working
  <2>4. ASSUME NEW long \in BOOLEAN,
               Set([Me EXCEPT !.source = @ \cup {"raw"}, !.data = TRUE,
                              !.toFree = long, !.ptr = long,
                              !.live = IF long THEN Acquire(Me, "ptr") ELSE @])
        PROVE  IndInv'
    <3> DEFINE l == IF long THEN Acquire(Me, "ptr") ELSE Me.live
               c == [Me EXCEPT !.source = @ \cup {"raw"}, !.data = TRUE,
                               !.toFree = long, !.ptr = long, !.live = l]
    <3>1. /\ l \in [Kinds -> Nat] /\ l["ptr"] = IF long THEN 1 ELSE 0
          /\ \A k \in Kinds \ {"ptr"} : l[k] = Me.live[k]
      BY <1>2, <2>2 DEF Acquire, Conn, ConnInv, SessionExact, Kinds
    <3>2. Set(c)
      BY <2>4
    <3> HIDE DEF l
    <3>3. /\ c \in Conn /\ c.source = Me.source \cup {"raw"}
          /\ c.live = l /\ c.toFree = long /\ c.ptr = long
          /\ \A f \in {"socket", "fd", "up", "phase", "handler", "pxMP",
                       "payload", "path"} : c[f] = Me[f]
      BY ZenonT(40), <1>2, <3>1 DEF Conn, Sources
    <3> HIDE DEF c
    <3>4. ConnInv(c)
      <4>1. ObjectsExact(c)
        BY <1>2, <3>1, <3>3 DEF ConnInv, ObjectsExact, Kinds
      <4>2. SessionExact(c)
        BY <1>2, <1>3, <2>2, <3>1, <3>3 DEF ConnInv, SessionExact, Kinds
      <4>3. Shape(c)
        BY <1>2, <1>3, <3>3 DEF ConnInv, Shape
      <4> QED
        BY <4>1, <4>2, <4>3 DEF ConnInv
    <3>5. Refs(c) = Refs(Me) /\ Stage("start", c)
      BY <1>3, <3>3 DEF Refs, Stage
    <3> QED
      BY <1>1, <1>2, <2>1, <3>2, <3>3, <3>4, <3>5, SetStep DEF Working
  <2> QED
    BY <1>6, <2>3, <2>4 DEF StartDirectory, RedirectDirectory, ListDirectory
<1> QED
  BY <1>4, <1>5, <1>6

-----------------------------------------------------------------------------
(* _mwProcessWriteSocket, and the steps of others.                         *)

(* Every path through _mwProcessWriteSocket.                               *)
LEMMA WriteInv == ASSUME IndInv, Write PROVE IndInv'
<1>1. /\ pc = "write" /\ pc \in Working
      /\ UNCHANGED <<list, mem, orphan, stalled, kill>>
  BY DEF Write, WriteDone, WriteRawError, WriteRaw, WriteStreamEnd,
         WriteFileError, WriteFile, WriteFileDone, At, Working
<1>2. /\ cur \in list /\ cur \in Structs /\ cur # Null
      /\ Me \in Conn /\ ConnInv(Me) /\ Stage("write", Me)
      /\ open \subseteq Descs /\ Null \notin open /\ Refs(Me) \subseteq open
      /\ expired \subseteq Structs
  BY <1>1, AtWork, NullAssumption
<1>3. Me.socket # Null /\ Me.phase = "sending" /\ Settled(Me)
  BY <1>2 DEF Stage
<1>4. ASSUME WriteDone PROVE IndInv'
  <2>1. /\ UNCHANGED <<conn, open, todo, clientCount>>
        /\ expired' \subseteq Structs
        /\ cur' = cur /\ pc' = "close"
    BY <1>2, <1>4 DEF WriteDone, Goto
  <2>2. Position'
    BY <1>1, <1>2, <2>1 DEF IndInv, Position, Working
  <2>3. Stage("close", Me)
    BY <1>3 DEF Stage
  <2> QED
    BY <1>1, <1>2, <1>3, <2>1, <2>2, <2>3, MoveStep
       DEF Me, Working, IndInv, TypeOK
<1>5. ASSUME WriteRawError PROVE IndInv'
  <2> DEFINE c == [Me EXCEPT !.close = TRUE]
  <2>1. /\ CloseSocket(cur, c) /\ cur' = cur /\ todo' = todo /\ pc' = "close"
    BY <1>5 DEF WriteRawError, Goto
  <2>2. /\ c \in Conn
        /\ \A f \in {"socket", "fd", "up", "phase", "source", "toFree",
                     "handler", "ptr", "pxMP", "payload", "path", "data",
                     "live"} : c[f] = Me[f]
    BY ZenonT(40), <1>2 DEF Conn
  <2> HIDE DEF c
  <2>3. ConnInv(c) /\ Refs(c) = Refs(Me)
    BY <1>2, <2>2, SameFields
  <2> QED
    BY <1>1, <1>2, <1>3, <2>1, <2>2, <2>3, CloseStep DEF Me
<1>6. ASSUME WriteRaw \/ WriteFile PROVE IndInv'
  <2>1. PICK more \in BOOLEAN : Set([Me EXCEPT !.data = more])
    BY <1>6 DEF WriteRaw, WriteFile
  <2>2. /\ cur' = Null /\ todo' = todo /\ pc' = "process"
        /\ open' = open /\ clientCount' = clientCount
        /\ expired' \subseteq Structs /\ (IsRaw(Me) \/ Me.fd # Null)
    BY <1>2, <1>3, <1>6 DEF WriteRaw, WriteFile, Touch, Settled, Unfinished,
                            IsRaw
  <2> DEFINE c == [Me EXCEPT !.data = more]
  <2>3. /\ c \in Conn
        /\ \A f \in {"socket", "fd", "up", "phase", "source", "toFree",
                     "handler", "ptr", "pxMP", "payload", "path", "live"} :
             c[f] = Me[f]
    BY <1>2 DEF Conn
  <2>4. Set(c)
    BY <2>1
  <2> HIDE DEF c
  <2>5. ConnInv(c)
    <3>1. ObjectsExact(c)
      BY <1>2, <2>3 DEF ConnInv, ObjectsExact
    <3>2. SessionExact(c)
      BY <1>2, <2>3 DEF ConnInv, SessionExact
    <3>3. Shape(c)
      BY <1>2, <1>3, <2>3 DEF ConnInv, Shape
    <3> QED
      BY <3>1, <3>2, <3>3 DEF ConnInv
  <2>6. Refs(c) = Refs(Me) /\ Settled(c)
    BY <1>3, <2>2, <2>3 DEF Refs, Settled, IsRaw
  <2> QED
    BY <1>1, <1>2, <2>2, <2>3, <2>4, <2>5, <2>6, SetStep
<1>7. ASSUME WriteStreamEnd PROVE IndInv'
  <2> DEFINE c == [Me EXCEPT !.close = TRUE]
  <2>1. /\ Set(c) /\ cur' = cur /\ todo' = todo /\ pc' = "close"
        /\ UNCHANGED <<open, clientCount, expired>>
    BY <1>7 DEF WriteStreamEnd, Goto
  <2>2. /\ c \in Conn
        /\ \A f \in {"socket", "fd", "up", "phase", "source", "toFree",
                     "handler", "ptr", "pxMP", "payload", "path", "data",
                     "live"} : c[f] = Me[f]
    BY ZenonT(40), <1>2 DEF Conn
  <2> HIDE DEF c
  <2>3. ConnInv(c) /\ Refs(c) = Refs(Me) /\ Stage("close", c)
    BY <1>2, <1>3, <2>2, SameFields DEF Stage
  <2> QED
    BY <1>1, <1>2, <2>1, <2>2, <2>3, SetStep DEF Working
<1>8. ASSUME WriteFileError \/ WriteFileDone PROVE IndInv'
  <2>1. PICK b \in BOOLEAN, d \in BOOLEAN :
          Set([Me EXCEPT !.close = b, !.data = d, !.fd = Null])
    <3>1. CASE WriteFileError
      <4>1. [Me EXCEPT !.close = TRUE, !.fd = Null]
              = [Me EXCEPT !.close = TRUE, !.data = Me.data, !.fd = Null]
        BY <1>2 DEF Conn
      <4>2. Me.data \in BOOLEAN
        BY <1>2 DEF Conn
      <4> QED
        BY <3>1, <4>1, <4>2 DEF WriteFileError
    <3>2. CASE WriteFileDone
      <4>1. [Me EXCEPT !.data = FALSE, !.fd = Null]
              = [Me EXCEPT !.close = Me.close, !.data = FALSE, !.fd = Null]
        BY <1>2 DEF Conn
      <4>2. Me.close \in BOOLEAN
        BY <1>2 DEF Conn
      <4> QED
        BY <3>2, <4>1, <4>2 DEF WriteFileDone
    <3> QED
      BY <1>8, <3>1, <3>2
  <2>2. /\ cur' = cur /\ todo' = todo /\ pc' = "close"
        /\ open' = open \ {Me.fd} /\ UNCHANGED <<clientCount, expired>>
    BY <1>8 DEF WriteFileError, WriteFileDone, Goto
  <2> DEFINE c == [Me EXCEPT !.close = b, !.data = d, !.fd = Null]
  <2>3. /\ c \in Conn /\ c.fd = Null
        /\ \A f \in {"socket", "up", "phase", "source", "toFree", "handler",
                     "ptr", "pxMP", "payload", "path", "live"} : c[f] = Me[f]
    <3>1. c \in Conn /\ c.fd = Null
      BY ZenonT(40), <1>2 DEF Conn
    <3>2. \A f \in {"socket", "up", "phase", "source", "toFree", "handler",
                    "ptr", "pxMP", "payload", "path", "live"} : c[f] = Me[f]
      BY ZenonT(40), <1>2 DEF Conn
    <3> QED
      BY <3>1, <3>2
  <2>4. Set(c)
    BY <2>1
  <2> HIDE DEF c
  <2>5. ConnInv(c)
    <3>1. ObjectsExact(c)
      BY <1>2, <2>3 DEF ConnInv, ObjectsExact
    <3>2. SessionExact(c)
      BY <1>2, <2>3 DEF ConnInv, SessionExact
    <3>3. Shape(c)
      BY <1>2, <1>3, <2>3 DEF ConnInv, Shape
    <3> QED
      BY <3>1, <3>2, <3>3 DEF ConnInv
  <2>6. Refs(c) = Refs(Me) \ {Me.fd} /\ Stage("close", c)
    BY <1>2, <1>3, <2>3 DEF Refs, Stage, ConnInv, Shape
  <2>7. open' = (open \ (Refs(Me) \ Refs(c))) \cup Refs(c)
    BY <1>2, <2>2, <2>6 DEF Refs
  <2>8. clientCount' = IF Me.socket # Null /\ c.socket = Null
                       THEN clientCount - 1 ELSE clientCount
    BY <2>2, <2>3
  <2> QED
    BY <1>1, <1>2, <2>2, <2>3, <2>4, <2>5, <2>6, <2>7, <2>8, LocalStep
       DEF Set, Me, Working
<1> QED
  BY <1>4, <1>5, <1>6, <1>7, <1>8 DEF Write

(* The clock, a silent peer and the request to stop change no connection.  *)
LEMMA EnvironmentInv == ASSUME IndInv, Environment PROVE IndInv'
<1> USE DEF IndInv
<1>1. /\ UNCHANGED <<pc, cur, todo, list, mem, conn, open, orphan,
                     clientCount>>
      /\ expired' \subseteq Structs /\ stalled' \subseteq Structs
      /\ kill' \in BOOLEAN
      /\ cur = Null
  BY DEF Environment, Kill, TimePasses, PeerStalls, loopVars, listVars, At,
         TypeOK, Position, Working
<1>2. Position'
  BY <1>1 DEF Position
<1> QED
  BY <1>1, <1>2, MoveStep DEF TypeOK, Working

(* The strengthened invariant holds in every reachable state.              *)
THEOREM Invariance == Spec => []IndInv
<1>1. Init => IndInv
  BY InitInv
<1>2. IndInv /\ [Next]_vars => IndInv'
  <2> SUFFICES ASSUME IndInv, [Next]_vars PROVE IndInv'
    OBVIOUS
  <2>1. CASE Pass
    BY <2>1, SweepInv, MovesInv, SelectTimeoutInv, CallerClosesInv, AcceptInv,
       AcceptNoMemoryInv, CleanupInv DEF Pass
  <2>2. CASE Read
    BY <2>2, ReadInv
  <2>3. CASE Respond
    BY <2>3, DispatchInv, StartInv DEF Respond
  <2>4. CASE Write
    BY <2>4, WriteInv
  <2>5. CASE Environment
    BY <2>5, EnvironmentInv
  <2>6. CASE UNCHANGED vars
    BY <2>6 DEF vars, IndInv, TypeOK, Position, ConnsInv, Unlisted,
                DescriptorsOwned, ClientCountExact, Connected
  <2> QED
    BY <2>1, <2>2, <2>3, <2>4, <2>5, <2>6 DEF Next, LoopThread, Stopped
<1> QED
  BY <1>1, <1>2, PTL DEF Spec

-----------------------------------------------------------------------------
(* What the inductive invariant implies.                                   *)

(* Every variable keeps its type.                                          *)
THEOREM TypeCorrect == Spec => []TypeOK
<1>1. IndInv => TypeOK
  BY DEF IndInv
<1> QED
  BY <1>1, Invariance, PTL

(* The client count is the number of open connections.                     *)
THEOREM CountCorrect == Spec => []ClientCountExact
<1>1. IndInv => ClientCountExact
  BY DEF IndInv
<1> QED
  BY <1>1, Invariance, PTL

(* No descriptor is leaked, closed twice or shared.                        *)
THEOREM DescriptorsCorrect == Spec => []DescriptorsOwned
<1>1. IndInv => DescriptorsOwned
  BY DEF IndInv
<1> QED
  BY <1>1, Invariance, PTL

(* The objects of a request are allocated once and freed once.             *)
THEOREM ObjectsCorrect == Spec => []ObjectsOwned
<1>1. IndInv => ObjectsOwned
  <2> SUFFICES ASSUME IndInv, NEW s \in Structs
               PROVE  /\ \A k \in {"mp", "payload", "path"} :
                           conn[s].live[k] = IF k \in Holds(conn[s])
                                             THEN 1 ELSE 0
                      /\ conn[s].socket = Null => Holds(conn[s]) = {}
                      /\ mem[s] = "freed" => conn[s].socket = Null
    BY DEF ObjectsOwned
  <2>1. ObjectsExact(conn[s]) /\ Shape(conn[s])
    BY DEF IndInv, ConnsInv, ConnInv
  <2>2. mem[s] = "freed" => Unlisted(s)
    BY DEF IndInv, ConnsInv, Position
  <2> QED
    BY <2>1, <2>2 DEF ObjectsExact, Shape, Holds, Unlisted
<1> QED
  BY <1>1, Invariance, PTL

(* Only an expiry loses a buffer or leaves a stream handler untold.        *)
THEOREM ClosesCorrect == Spec => []OnlyExpiryLeaks
<1>1. IndInv => OnlyExpiryLeaks
  BY DEF IndInv, ConnsInv, ConnInv, Shape, SessionExact, OnlyExpiryLeaks
<1> QED
  BY <1>1, Invariance, PTL

(* The loop never visits a structure it has unlinked or freed.             *)
THEOREM PassCorrect == Spec => []PassIsSafe
<1>1. IndInv => PassIsSafe
  BY DEF IndInv, Position, PassIsSafe
<1> QED
  BY <1>1, Invariance, PTL

(* Nothing of a request is left for the next one on the connection.        *)
THEOREM RequestsCorrect == Spec => []FreshRequestIsClean
<1>1. IndInv => FreshRequestIsClean
  <2> SUFFICES ASSUME IndInv, NEW s \in Structs \ {cur},
                      conn[s].phase = "receiving", conn[s].socket # Null,
                      ~conn[s].path
               PROVE  /\ conn[s].fd = Null /\ conn[s].up = Null
                      /\ conn[s].pxMP = "none" /\ conn[s].source = {}
                      /\ ~conn[s].close /\ ~conn[s].toFree /\ ~conn[s].post
                      /\ \A k \in Kinds : conn[s].live[k] = 0
    BY DEF FreshRequestIsClean
  <2>1. /\ ObjectsExact(conn[s]) /\ SessionExact(conn[s])
        /\ Shape(conn[s]) /\ Settled(conn[s])
    BY DEF IndInv, ConnsInv, ConnInv
  <2> QED
    BY <2>1 DEF ObjectsExact, SessionExact, Shape, Settled, Kinds
<1> QED
  BY <1>1, Invariance, PTL

(* A file is only read and closed while it is open.                        *)
THEOREM FileReadsCorrect == Spec => []FileReadIsOpen
<1>1. IndInv => FileReadIsOpen
  <2> SUFFICES ASSUME IndInv, pc = "write", Unfinished, ~IsRaw(Me)
               PROVE  Me.fd \in open
    BY DEF FileReadIsOpen
  <2>1. cur \in Structs
    BY DEF IndInv, TypeOK, Position, Working
  <2>2. Stage("write", Me)
    BY <2>1 DEF IndInv, ConnsInv, Me
  <2>3. /\ Me.socket # Null /\ Me.phase = "sending" /\ Me.data
        /\ Me.source \cap {"redirect", "raw", "stream"} = {}
    BY <2>2 DEF Stage, Unfinished, IsRaw
  <2>4. Me.fd # Null
    BY <2>2, <2>3 DEF Stage, Settled
  <2> QED
    BY <2>1, <2>4 DEF IndInv, DescriptorsOwned, Refs, Me
<1> QED
  BY <1>1, Invariance, PTL

(* Once the loop has returned nothing it acquired is left.                 *)
THEOREM StopCorrect == Spec => []NothingOpenAfterStop
<1>1. IndInv => NothingOpenAfterStop
  <2> SUFFICES ASSUME IndInv, pc = "stopped"
               PROVE  /\ Connected = {} /\ open \subseteq {orphan}
                      /\ \A s \in Structs : mem[s] # "allocated"
    BY DEF NothingOpenAfterStop
  <2>1. list = {} /\ \A s \in Structs : mem[s] # "allocated"
    BY DEF IndInv, Position
  <2>2. \A s \in Structs : Refs(conn[s]) = {} /\ conn[s].socket = Null
    BY <2>1 DEF IndInv, ConnsInv, ConnInv, Shape, Unlisted, Refs
  <2> QED
    BY <2>1, <2>2 DEF IndInv, DescriptorsOwned, Connected
<1> QED
  BY <1>1, Invariance, PTL

-----------------------------------------------------------------------------
(* HttpServer implements Connections.                                      *)

(* Whatever the fields, a close keeps the socket or clears it.             *)
LEMMA ClosedSocket ==
    ASSUME NEW c, "socket" \in DOMAIN c
    PROVE  Closed(c).socket \in {c.socket, Null}
<1> DEFINE r == Released(c)
<1>1. "socket" \in DOMAIN r /\ r.socket = c.socket
  BY DEF Released, Conn
<1> HIDE DEF r
<1>2. [r EXCEPT !.reqs = IF c.socket = Null THEN @ ELSE 0,
                !.socket = Null].socket = Null
  BY <1>1
<1> QED
  BY <1>2 DEF Closed, InitSocketData, r

(* Changing the fields of one listed structure, its socket kept or         *)
(* cleared, is a move in the life of its connection, or none.              *)
LEMMA LifeStep ==
    ASSUME IndInv, NEW s \in list, mem' = mem,
           NEW c, conn' = [conn EXCEPT ![s] = c],
           c.socket \in {conn[s].socket, Null}
    PROVE  [Promise!Next]_Life
<1>1. s \in Structs /\ mem[s] = "allocated" /\ conn'[s] = c
      /\ \A t \in Structs \ {s} : conn'[t] = conn[t]
  BY DEF IndInv, TypeOK, Position
<1> DEFINE v == IF c.socket = Null THEN "closed"
                ELSE IF c.phase = "sending" THEN "answering" ELSE "waiting"
<1>2. Life' = [Life EXCEPT ![s] = v]
  <2>1. \A t \in Structs \ {s} : Life'[t] = Life[t]
    BY <1>1 DEF Life
  <2>2. Life'[s] = v
    BY <1>1 DEF Life
  <2>3. Life = [t \in Structs |-> Life[t]]
        /\ Life' = [t \in Structs |-> Life'[t]]
    BY DEF Life
  <2> HIDE DEF v
  <2> QED
    BY <2>1, <2>2, <2>3
<1>3. Life[s] = IF conn[s].socket = Null THEN "closed"
                ELSE IF conn[s].phase = "sending" THEN "answering"
                ELSE "waiting"
  BY <1>1 DEF Life
<1>4. v = Life[s] => Life' = Life
  BY <1>2 DEF Life
<1>5. CASE v # Life[s]
  <2>1. \/ Life[s] = "waiting" /\ v = "answering"
        \/ Life[s] = "answering" /\ v = "waiting"
        \/ Life[s] \in {"waiting", "answering"} /\ v = "closed"
    BY <1>3, <1>5
  <2> HIDE DEF v
  <2> QED
    BY <1>1, <1>2, <2>1 DEF Promise!Next, Promise!Move
<1> QED
  BY <1>4, <1>5

(* Steps of the thread at the structure cur: each leaves the fields of the *)
(* others alone, and keeps the socket of cur or closes it.                 *)
LEMMA WorkStep ==
    ASSUME IndInv, Read \/ Respond \/ Write \/ CallerCloses
    PROVE  [Promise!Next]_Life
<1>1. cur \in list /\ Me \in Conn /\ mem' = mem
  <2>1. pc \in Working /\ mem' = mem
    BY DEF Read, Respond, Write, CallerCloses, Working, At,
           ReadMultipart, ReadClosed, ReadMore, ReadRejected, ReadGet,
           ReadPost, ReadPostMultipart, ReadPostUpload, ReadBody,
           Unauthorized, HandlerRedirects, HandlerNone, HandlerRaw,
           HandlerStream, HandlerFile, StartFileMissing, StartFileOpened,
           StartDirectory, StartResponse,
           WriteDone, WriteRawError, WriteRaw, WriteStreamEnd,
           WriteFileError, WriteFile, WriteFileDone
  <2> QED
    BY <2>1 DEF IndInv, Position, TypeOK, Me
<1>2. ASSUME NEW c, c.socket = Me.socket, Set(c)
      PROVE  [Promise!Next]_Life
  BY <1>1, <1>2, LifeStep DEF Set, Me
<1>3. ASSUME NEW c, "socket" \in DOMAIN c, c.socket = Me.socket,
             conn' = [conn EXCEPT ![cur] = Closed(c)]
      PROVE  [Promise!Next]_Life
  BY <1>1, <1>3, ClosedSocket, LifeStep DEF Me
<1>4. conn' = conn => Life' = Life
  BY <1>1 DEF Life
<1>5. DOMAIN Me = {"socket", "fd", "up", "phase", "close", "source", "toFree",
                   "handler", "ptr", "pxMP", "payload", "path", "post",
                   "hdr", "data", "reqs", "live"}
  BY <1>1 DEF Conn
<1>6. CASE \/ ReadMore \/ ReadBody \/ StartFileMissing \/ StartResponse
           \/ WriteDone
  BY <1>4, <1>6 DEF ReadMore, ReadBody, StartFileMissing, StartResponse,
                    WriteDone
<1>7. CASE CallerCloses
  BY <1>3, <1>5, <1>7 DEF CallerCloses, CloseSocket, Me
<1>8. CASE ReadClosed
  <2> DEFINE c == [Me EXCEPT !.close = TRUE,
                             !.up = IF Me.post /\ Me.pxMP # "none"
                                    THEN Null ELSE @]
  <2>1. "socket" \in DOMAIN c /\ c.socket = Me.socket
    BY <1>5
  <2>2. conn' = [conn EXCEPT ![cur] = Closed(c)]
    BY <1>8 DEF ReadClosed
  <2> HIDE DEF c
  <2> QED
    BY <1>3, <2>1, <2>2
<1>9. CASE Unauthorized \/ WriteRawError
  <2> DEFINE c == [Me EXCEPT !.close = TRUE]
  <2>1. "socket" \in DOMAIN c /\ c.socket = Me.socket
    BY <1>5
  <2>2. conn' = [conn EXCEPT ![cur] = Closed(c)]
    BY <1>9 DEF Unauthorized, WriteRawError, CloseSocket
  <2> HIDE DEF c
  <2> QED
    BY <1>3, <2>1, <2>2
<1>10. ASSUME NEW c, c.socket = Me.socket, DOMAIN c = DOMAIN Me,
              MultipartPost(c)
       PROVE  [Promise!Next]_Life
  <2>1. PICK u \in Descs \cup {Null}, b \in {c.close, TRUE} :
          \/ Set([c EXCEPT !.up = u, !.close = b])
          \/ Set([c EXCEPT !.up = u])
    BY <1>10 DEF MultipartPost
  <2>2. /\ [c EXCEPT !.up = u, !.close = b].socket = Me.socket
        /\ [c EXCEPT !.up = u].socket = Me.socket
    BY <1>5, <1>10
  <2> QED
    BY <1>2, <2>1, <2>2
<1>11. CASE ReadMultipart
  BY <1>10, <1>11 DEF ReadMultipart
<1>12. ASSUME NEW post, NEW mp, NEW close
       PROVE  /\ Parsed(post, mp, close).socket = Me.socket
              /\ DOMAIN Parsed(post, mp, close) = DOMAIN Me
  BY <1>5 DEF Parsed
<1>13. CASE ReadGet
  BY <1>2, <1>12, <1>13 DEF ReadGet
<1>14. CASE ReadPostMultipart
  <2>1. PICK close \in BOOLEAN :
          MultipartPost([Parsed(TRUE, "boundary", close) EXCEPT !.hdr = FALSE])
    BY <1>14 DEF ReadPostMultipart
  <2> DEFINE p == Parsed(TRUE, "boundary", close)
  <2>2. p.socket = Me.socket /\ DOMAIN p = DOMAIN Me
    BY <1>12
  <2> HIDE DEF p
  <2>3. /\ [p EXCEPT !.hdr = FALSE].socket = Me.socket
        /\ DOMAIN [p EXCEPT !.hdr = FALSE] = DOMAIN Me
    BY <1>5, <2>2
  <2> QED
    BY <1>10, <2>1, <2>3 DEF p
<1>15. CASE ReadPost \/ ReadPostUpload
  <2>1. PICK mp, close, x, u :
          /\ mp \in {"none", "upload"} /\ close \in BOOLEAN
          /\ LET c == Parsed(TRUE, mp, close)
             IN  \/ Set([c EXCEPT !.payload = TRUE, !.live = x])
                 \/ Set([c EXCEPT !.up = u])
    BY <1>15 DEF ReadPost, ReadPostUpload
  <2> DEFINE p == Parsed(TRUE, mp, close)
  <2>2. p.socket = Me.socket /\ DOMAIN p = DOMAIN Me
    BY <1>12, <2>1
  <2> HIDE DEF p
  <2>3. /\ [p EXCEPT !.payload = TRUE, !.live = x].socket = Me.socket
        /\ [p EXCEPT !.up = u].socket = Me.socket
    BY <1>5, <2>2
  <2> QED
    BY <1>2, <2>1, <2>3 DEF p
<1>16. CASE ReadRejected
  <2>1. PICK mp, post, x :
          Set([Me EXCEPT !.close = TRUE, !.pxMP = mp, !.post = post,
                         !.live = x])
    BY <1>16 DEF ReadRejected
  <2>2. [Me EXCEPT !.close = TRUE, !.pxMP = mp, !.post = post,
                   !.live = x].socket = Me.socket
    BY <1>5
  <2> QED
    BY <1>2, <2>1, <2>2
<1> DEFINE S(src) == Sending(Me, src)
<1>17. \A src : S(src).socket = Me.socket /\ DOMAIN S(src) = DOMAIN Me
  BY <1>5 DEF Sending
<1> HIDE DEF S
<1>18. CASE HandlerRedirects \/ HandlerNone \/ StartFileOpened
            \/ StartDirectory
  <2>1. CASE HandlerRedirects
    BY <1>2, <1>5, <2>1 DEF HandlerRedirects
  <2>2. CASE HandlerNone
    BY <1>2, <1>17, <2>2 DEF HandlerNone, S
  <2>3. CASE StartFileOpened
    BY <1>2, <1>5, <2>3 DEF StartFileOpened
  <2>4. CASE StartDirectory
    BY <1>2, <1>5, <2>4 DEF StartDirectory, RedirectDirectory, ListDirectory
  <2> QED
    BY <1>18, <2>1, <2>2, <2>3, <2>4
<1>19. CASE HandlerRaw \/ HandlerStream \/ HandlerFile
  <2>1. PICK src, data, toFree, ptr, x, d :
          LET c == S(src)
          IN  \/ Set([c EXCEPT !.handler = TRUE, !.data = data,
                               !.toFree = toFree, !.ptr = ptr, !.live = x])
              \/ Set([c EXCEPT !.handler = TRUE])
              \/ Set([c EXCEPT !.handler = TRUE, !.fd = d])
    BY <1>19 DEF HandlerRaw, HandlerStream, HandlerFile, S
  <2> DEFINE c == S(src)
  <2>2. /\ [c EXCEPT !.handler = TRUE, !.data = data, !.toFree = toFree,
                     !.ptr = ptr, !.live = x].socket = Me.socket
        /\ [c EXCEPT !.handler = TRUE].socket = Me.socket
        /\ [c EXCEPT !.handler = TRUE, !.fd = d].socket = Me.socket
    BY <1>5, <1>17
  <2> QED
    BY <1>2, <2>1, <2>2
<1>20. CASE \/ WriteRaw \/ WriteStreamEnd
            \/ WriteFileError \/ WriteFile \/ WriteFileDone
  <2>1. CASE WriteRaw \/ WriteFile
    BY <1>2, <1>5, <2>1 DEF WriteRaw, WriteFile
  <2>2. CASE WriteStreamEnd
    BY <1>2, <1>5, <2>2 DEF WriteStreamEnd
  <2>3. CASE WriteFileError
    BY <1>2, <1>5, <2>3 DEF WriteFileError
  <2>4. CASE WriteFileDone
    BY <1>2, <1>5, <2>4 DEF WriteFileDone
  <2> QED
    BY <1>20, <2>1, <2>2, <2>3, <2>4
<1> QED
  BY <1>6, <1>7, <1>8, <1>9, <1>11, <1>13, <1>14, <1>15, <1>16, <1>18, <1>19,
     <1>20 DEF Read, Respond, Write

(* Steps of the passes of mwHttpLoop.                                      *)
LEMMA PassStep ==
    ASSUME IndInv, Pass, ~CallerCloses
    PROVE  [Promise!Next]_Life
<1>1. CASE mem' = mem /\ conn' = conn
  BY <1>1 DEF Life
<1>2. ASSUME NEW s \in Structs, SweepExpire(s)
      PROVE  [Promise!Next]_Life
  <2> DEFINE c == [conn[s] EXCEPT !.close = TRUE, !.phase = "none",
                                  !.source = {}, !.toFree = FALSE,
                                  !.post = FALSE]
  <2>1. s \in list /\ conn[s] \in Conn /\ mem' = mem
    BY <1>2 DEF SweepExpire, IndInv, Position, TypeOK
  <2>2. "socket" \in DOMAIN c /\ c.socket = conn[s].socket
    BY <2>1 DEF Conn
  <2>3. conn' = [conn EXCEPT ![s] = Closed(c)]
    BY <1>2 DEF SweepExpire, CloseSocket
  <2> HIDE DEF c
  <2> QED
    BY <2>1, <2>2, <2>3, ClosedSocket, LifeStep
<1>3. ASSUME NEW s \in Structs, NEW d \in Descs, Accept(s, d)
      PROVE  [Promise!Next]_Life
  <2>1. /\ mem[s] = "never" /\ mem' = [mem EXCEPT ![s] = "allocated"]
        /\ conn' = [conn EXCEPT ![s] =
                      InitSocketData(d, 0, [k \in Kinds |-> 0])]
        /\ mem \in [Structs -> {"never", "allocated", "freed"}]
        /\ conn \in [Structs -> Conn] /\ d # Null
    BY <1>3, NullAssumption DEF Accept, IndInv, TypeOK
  <2>2. \A t \in Structs :
          Life'[t] = IF t = s THEN "waiting" ELSE Life[t]
    BY <2>1 DEF Life, InitSocketData
  <2>3. Life' = [Life EXCEPT ![s] = "waiting"] /\ Life[s] = "none"
    BY <2>1, <2>2 DEF Life
  <2> QED
    BY <2>3 DEF Promise!Next, Promise!Move
<1>4. ASSUME NEW s \in Structs, Cleanup(s)
      PROVE  [Promise!Next]_Life
  <2>1. /\ mem[s] = "allocated" /\ mem' = [mem EXCEPT ![s] = "freed"]
        /\ \A t \in Structs \ {s} : conn'[t] = conn[t]
        /\ mem \in [Structs -> {"never", "allocated", "freed"}]
    BY <1>4 DEF Cleanup, CloseSocket, IndInv, Position, TypeOK
  <2>2. \A t \in Structs :
          Life'[t] = IF t = s THEN "released" ELSE Life[t]
    BY <2>1 DEF Life
  <2>3. Life' = [Life EXCEPT ![s] = "released"]
        /\ Life[s] \in {"waiting", "answering", "closed"}
    BY <2>1, <2>2 DEF Life
  <2> QED
    BY <2>3 DEF Promise!Next, Promise!Move
<1>5. CASE SelectTimeout
  <2> DEFINE dead == {s \in list : conn[s].socket = Null}
  <2>1. /\ dead \subseteq Structs /\ \A s \in dead : Life[s] = "closed"
        /\ mem' = [s \in Structs |-> IF s \in dead THEN "freed" ELSE mem[s]]
        /\ conn' = conn
    BY <1>5 DEF SelectTimeout, IndInv, Position, TypeOK, Life
  <2> HIDE DEF dead
  <2>2. Life' = [s \in Structs |-> IF s \in dead THEN "released"
                                                 ELSE Life[s]]
    BY <2>1 DEF Life
  <2> QED
    BY <2>1, <2>2 DEF Promise!Next, Promise!Release
<1> QED
  BY <1>1, <1>2, <1>3, <1>4, <1>5
     DEF Pass, LoopHead, SelectReady, SelectError, ProcessDone, AcceptNone,
         Stop, SweepKeep, NotReady, Ready, AcceptNoMemory

(* Every behaviour of the event loop is one the promise allows: a          *)
(* connection opens once, alternates between waiting and answering, closes *)
(* once and is released once.                                              *)
THEOREM Implementation == Spec => ImplementsConnections
<1>1. Init => Promise!Init
  BY DEF Init, Life, Promise!Init
<1>2. IndInv /\ [Next]_vars => [Promise!Next]_Life
  <2> SUFFICES ASSUME IndInv, [Next]_vars PROVE [Promise!Next]_Life
    OBVIOUS
  <2>1. CASE Read \/ Respond \/ Write \/ CallerCloses
    BY <2>1, WorkStep
  <2>2. CASE Pass /\ ~CallerCloses
    BY <2>2, PassStep
  <2>3. CASE Environment \/ Stopped \/ UNCHANGED vars
    BY <2>3 DEF Environment, Kill, TimePasses, PeerStalls, Stopped, vars,
                loopVars, listVars, Life
  <2> QED
    BY <2>1, <2>2, <2>3 DEF Next, LoopThread
<1> QED
  BY <1>1, <1>2, Invariance, PTL DEF Spec, ImplementsConnections, Promise!Spec

=============================================================================
