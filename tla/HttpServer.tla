----------------------------- MODULE HttpServer -----------------------------
(***************************************************************************)
(* The event loop of MiniWeb, httpd/http.c: one thread that accepts        *)
(* connections, polls them with select(), parses requests, starts and      *)
(* continues responses, keeps connections alive, expires idle ones and     *)
(* releases everything when it is told to stop.                            *)
(*                                                                         *)
(* A connection is a heap structure (HttpSocket) that owns kernel          *)
(* descriptors (its socket, the file it sends, the file an upload is       *)
(* written to) and heap objects.  The module models every path on which    *)
(* such an object is acquired, handed over or released.  Request bytes,    *)
(* header text and response bytes are abstracted to nondeterministic       *)
(* choices over the outcomes the code distinguishes.                       *)
(*                                                                         *)
(* The loop thread's position is pc; each C function that changes state is *)
(* an action of its own and cur is the structure it was called for.        *)
(***************************************************************************)
EXTENDS Naturals, FiniteSets

CONSTANTS
    Structs,          (* the HttpSocket structures malloc() may ever return *)
    Descs,            (* kernel descriptors a process can have open         *)
    MaxConnRequests,  (* MAX_CONN_REQUESTS, httpapi.h                       *)
    MayStall,         (* connections whose peer may stop reacting           *)
    Methods,          (* the kinds of request the clients send              *)
    Handlers,         (* what the handlers in pxUrlHandler may return       *)
    Null              (* no descriptor / no structure                       *)

ASSUME NullAssumption == Null \notin Structs \cup Descs
ASSUME FiniteAssumption == IsFiniteSet(Structs)
ASSUME LimitAssumption == MaxConnRequests \in Nat
ASSUME InputAssumption ==
    /\ Methods \subseteq {"get", "post", "multipart", "upload"}
    /\ Handlers \subseteq {"redirect", "raw", "stream", "file", "fd"}

VARIABLES
    pc,           (* where the loop thread is                               *)
    cur,          (* the structure it is working on, Null between two       *)
    todo,         (* structures this pass over the list has not visited     *)
    list,         (* structures linked from phsSocketHead                   *)
    mem,          (* what malloc/free made of each structure                *)
    conn,         (* the fields of each structure                           *)
    open,         (* open kernel descriptors, the listening socket excepted *)
    orphan,       (* the socket accepted when malloc failed, else Null      *)
    clientCount,  (* hp->stats.clientCount                                  *)
    expired,      (* structures whose tmExpirationTime has passed           *)
    stalled,      (* structures whose peer has stopped reacting             *)
    kill          (* hp->bKillWebserver                                     *)

loopVars == <<pc, cur, todo>>
listVars == <<list, mem>>
vars == <<pc, cur, todo, list, mem, conn, open, orphan, clientCount,
          expired, stalled, kill>>

(* Heap objects a connection owns: the multipart structure, the payload of *)
(* a POST, the request path, the buffer kept in ptr (FLAG_TO_FREE), and    *)
(* the session a stream handler holds until it is told of the close.       *)
Kinds == {"mp", "payload", "path", "ptr", "stream"}

(* The FLAG_DATA_* bits.  FLAG_DATA_FD always comes with FLAG_DATA_FILE.   *)
Sources == {"raw", "stream", "file", "redirect"}

Conn == [ socket  : Descs \cup {Null},
          fd      : Descs \cup {Null},
          up      : Descs \cup {Null},    \* the upload file, pxCallBackData
          phase   : {"none", "receiving", "sending"},
          close   : BOOLEAN,              \* FLAG_CONN_CLOSE
          source  : SUBSET Sources,
          toFree  : BOOLEAN,              \* FLAG_TO_FREE
          handler : BOOLEAN,
          ptr     : BOOLEAN,
          pxMP    : {"none", "boundary", "upload"},
          payload : BOOLEAN,
          path    : BOOLEAN,
          post    : BOOLEAN,              \* FLAG_REQUEST_POST
          hdr     : BOOLEAN,              \* headerSize # 0
          data    : BOOLEAN,              \* dataLength > 0 while sending
          reqs    : 0 .. MaxConnRequests, \* iRequestCount
          live    : [Kinds -> Nat] ]      \* objects allocated, not yet freed

(* _mwInitSocketData: a structure ready for its next request.              *)
InitSocketData(socket, reqs, live) ==
    [ socket |-> socket, fd |-> Null, up |-> Null, phase |-> "receiving",
      close |-> FALSE, source |-> {}, toFree |-> FALSE, handler |-> FALSE,
      ptr |-> FALSE, pxMP |-> "none", payload |-> FALSE, path |-> FALSE,
      post |-> FALSE, hdr |-> FALSE, data |-> FALSE, reqs |-> reqs,
      live |-> live ]

Acquire(c, k) == [c.live EXCEPT ![k] = @ + 1]

-----------------------------------------------------------------------------
(* _mwCloseSocket, in two halves: what it releases, and whether it then    *)
(* keeps the connection alive or hangs up.                                 *)

(* Mutant: one request more than the limit allows.                         *)
KeepsAliveOneMore(c) == ~c.close /\ c.reqs <= MaxConnRequests

KeepsAlive(c) == ~c.close /\ c.reqs < MaxConnRequests

(* Mutant: the payload of a POST is forgotten.                             *)
FreesNoPayload(c) ==
    {k \in Kinds :
        \/ k = "mp"      /\ c.pxMP # "none"
        \/ k = "path"    /\ c.path
        \/ k = "stream"  /\ "stream" \in c.source /\ c.handler
        \/ k = "ptr"     /\ c.toFree /\ c.ptr}

(* Mutant: the stream handler is not told when the peer ends the stream.   *)
FreesUntoldOnClose(c) ==
    {k \in Kinds :
        \/ k = "mp"      /\ c.pxMP # "none"
        \/ k = "payload" /\ c.payload
        \/ k = "path"    /\ c.path
        \/ k = "stream"  /\ "stream" \in c.source /\ c.handler /\ ~c.close
        \/ k = "ptr"     /\ c.toFree /\ c.ptr}

(* Which objects it frees.  The stream handler is told of the close and    *)
(* ptr is freed only if the flags still say so.                            *)
Frees(c) ==
    {k \in Kinds :
        \/ k = "mp"      /\ c.pxMP # "none"
        \/ k = "payload" /\ c.payload
        \/ k = "path"    /\ c.path
        \/ k = "stream"  /\ "stream" \in c.source /\ c.handler
        \/ k = "ptr"     /\ c.toFree /\ c.ptr}

Released(c) ==
    [c EXCEPT !.fd      = Null,
              !.up      = IF c.pxMP = "none" THEN @ ELSE Null,
              !.pxMP    = "none",
              !.payload = FALSE,
              !.path    = FALSE,
              !.handler = @ /\ "stream" \notin c.source,
              !.ptr     = @ /\ ~c.toFree,
              !.toFree  = @ /\ ~c.ptr,
              !.live    = [k \in Kinds |->
                              IF k \in Frees(c) THEN @[k] - 1 ELSE @[k]]]

(* Mutant: the next request starts with the flags of the last.             *)
ClosedKeepsFlags(c) ==
    IF KeepsAlive(c)
    THEN [Released(c) EXCEPT !.phase = "receiving", !.reqs = @ + 1]
    ELSE [Released(c) EXCEPT !.reqs   = IF c.socket = Null THEN @ ELSE 0,
                             !.socket = Null]

Closed(c) ==
    IF KeepsAlive(c)
    THEN InitSocketData(c.socket, c.reqs + 1, Released(c).live)
    ELSE [Released(c) EXCEPT !.reqs   = IF c.socket = Null THEN @ ELSE 0,
                             !.socket = Null]

(* Mutant: the file being sent stays open.                                 *)
ClosedDescsNoFile(c) ==
    (IF c.pxMP = "none" THEN {} ELSE {c.up})
      \cup (IF KeepsAlive(c) THEN {} ELSE {c.socket})

ClosedDescs(c) ==
    {c.fd} \cup (IF c.pxMP = "none" THEN {} ELSE {c.up})
           \cup (IF KeepsAlive(c) THEN {} ELSE {c.socket})

(* Mutant: a connection closed twice is counted twice.                     *)
CloseSocketCountsTwice(s, c) ==
    /\ conn' = [conn EXCEPT ![s] = Closed(c)]
    /\ open' = open \ ClosedDescs(c)
    /\ clientCount' = IF ~KeepsAlive(c) THEN clientCount - 1 ELSE clientCount
    /\ expired' = IF KeepsAlive(c) THEN expired \ {s} ELSE expired

(* The call, for structure s whose fields the caller has set to c.         *)
CloseSocket(s, c) ==
    /\ conn' = [conn EXCEPT ![s] = Closed(c)]
    /\ open' = open \ ClosedDescs(c)
    /\ clientCount' = IF ~KeepsAlive(c) /\ c.socket # Null
                      THEN clientCount - 1 ELSE clientCount
    /\ expired' = IF KeepsAlive(c) THEN expired \ {s} ELSE expired

Init ==
    /\ pc = "top" /\ cur = Null /\ todo = {} /\ list = {}
    /\ mem = [s \in Structs |-> "never"]
    /\ conn = [s \in Structs |->
                 [InitSocketData(Null, 0, [k \in Kinds |-> 0])
                    EXCEPT !.phase = "none"]]
    /\ open = {} /\ orphan = Null /\ clientCount = 0
    /\ expired = {} /\ stalled = {} /\ kill = FALSE

-----------------------------------------------------------------------------
(* The passes of mwHttpLoop.                                               *)

At(label) == pc = label
Goto(label) == pc' = label /\ UNCHANGED <<cur, todo>>

(* Mutant: only a failing select() looks at bKillWebserver.                *)
LoopHeadIgnoresKill ==
    /\ At("top")
    /\ pc' = "sweep" /\ todo' = list
    /\ UNCHANGED <<cur, list, mem, conn, open, orphan, clientCount, expired,
                   stalled, kill>>

(* while (!hp->bKillWebserver): one more iteration, or the final clean-up. *)
LoopHead ==
    /\ At("top")
    /\ pc' = IF kill THEN "cleanup" ELSE "sweep"
    /\ todo' = list
    /\ UNCHANGED <<cur, list, mem, conn, open, orphan, clientCount, expired,
                   stalled, kill>>

(* A closed or unexpired connection is left to select().                   *)
SweepKeep(s) ==
    /\ At("sweep") /\ s \in todo
    /\ conn[s].socket = Null \/ s \notin expired
    /\ todo' = todo \ {s}
    /\ UNCHANGED <<pc, cur, list, mem, conn, open, orphan, clientCount,
                   expired, stalled, kill>>

(* Mutant: a connection that is being answered is given more time.         *)
SweepExpireSpares(s) ==
    /\ At("sweep") /\ s \in todo
    /\ conn[s].socket # Null /\ s \in expired
    /\ todo' = todo \ {s}
    /\ IF conn[s].phase = "sending"
       THEN expired' = expired \ {s} /\ UNCHANGED <<conn, open, clientCount>>
       ELSE CloseSocket(s, [conn[s] EXCEPT !.close = TRUE, !.phase = "none",
                                           !.source = {}, !.toFree = FALSE,
                                           !.post = FALSE])
    /\ UNCHANGED <<pc, cur, list, mem, orphan, stalled, kill>>

(* An expired one is closed.  flags = FLAG_CONN_CLOSE is an assignment:    *)
(* every other flag of the connection is lost before _mwCloseSocket runs.  *)
SweepExpire(s) ==
    /\ At("sweep") /\ s \in todo
    /\ conn[s].socket # Null /\ s \in expired
    /\ todo' = todo \ {s}
    /\ CloseSocket(s, [conn[s] EXCEPT !.close = TRUE, !.phase = "none",
                                      !.source = {}, !.toFree = FALSE,
                                      !.post = FALSE])
    /\ UNCHANGED <<pc, cur, list, mem, orphan, stalled, kill>>

(* select() > 0.                                                           *)
SelectReady ==
    /\ At("sweep") /\ todo = {}
    /\ pc' = "process" /\ todo' = list
    /\ UNCHANGED <<cur, list, mem, conn, open, orphan, clientCount, expired,
                   stalled, kill>>

(* select() < 0: retried, unless the server is being shut down.            *)
SelectError ==
    /\ At("sweep") /\ todo = {}
    /\ pc' = IF kill THEN "cleanup" ELSE "top"
    /\ todo' = IF kill THEN list ELSE {}
    /\ UNCHANGED <<cur, list, mem, conn, open, orphan, clientCount, expired,
                   stalled, kill>>

(* Mutant: closed structures are freed and left in the list.               *)
SelectTimeoutNoUnlink ==
    /\ At("sweep") /\ todo = {}
    /\ mem' = [s \in Structs |->
                 IF s \in list /\ conn[s].socket = Null
                 THEN "freed" ELSE mem[s]]
    /\ pc' = "top"
    /\ UNCHANGED <<cur, todo, list, conn, open, orphan, clientCount, expired,
                   stalled, kill>>

(* select() = 0: structures of closed connections are unlinked and freed.  *)
SelectTimeout ==
    /\ At("sweep") /\ todo = {}
    /\ LET dead == {s \in list : conn[s].socket = Null}
       IN  /\ list' = list \ dead
           /\ mem' = [s \in Structs |->
                        IF s \in dead THEN "freed" ELSE mem[s]]
    /\ pc' = "top"
    /\ UNCHANGED <<cur, todo, conn, open, orphan, clientCount, expired,
                   stalled, kill>>

(* One connection of the pass over the readable and writable sockets.      *)
NotReady(s) ==
    /\ At("process") /\ s \in todo
    /\ todo' = todo \ {s}
    /\ UNCHANGED <<pc, cur, list, mem, conn, open, orphan, clientCount,
                   expired, stalled, kill>>

Ready(s) ==
    /\ At("process") /\ s \in todo
    /\ conn[s].socket # Null /\ s \notin stalled
    /\ \/ conn[s].phase = "receiving" /\ pc' = "read"
       \/ conn[s].phase = "sending"   /\ pc' = "write"
    /\ cur' = s /\ todo' = todo \ {s}
    /\ UNCHANGED <<list, mem, conn, open, orphan, clientCount, expired,
                   stalled, kill>>

ProcessDone ==
    /\ At("process") /\ todo = {}
    /\ Goto("accept")
    /\ UNCHANGED <<list, mem, conn, open, orphan, clientCount, expired,
                   stalled, kill>>

(* The processing function returned 0: the expiration timer is reset.      *)
Touch ==
    /\ pc' = "process" /\ cur' = Null
    /\ expired' = expired \ {cur}
    /\ UNCHANGED todo

(* It returned anything else: the caller closes the connection.            *)
CallerCloses ==
    /\ At("close")
    /\ CloseSocket(cur, conn[cur])
    /\ pc' = "process" /\ cur' = Null
    /\ UNCHANGED <<todo, list, mem, orphan, stalled, kill>>

(* _mwAcceptSocket and the rest of the accept branch.  clientCount above   *)
(* maxClients delays the loop and rejects nothing.                         *)
AcceptNone ==
    /\ At("accept")
    /\ Goto("top")
    /\ UNCHANGED <<list, mem, conn, open, orphan, clientCount, expired,
                   stalled, kill>>

(* Mutant: the structure of a closed connection is used again.             *)
AcceptReuses(s, d) ==
    /\ At("accept") /\ d \notin open
    /\ mem[s] = "never" \/ (s \in list /\ conn[s].socket = Null)
    /\ mem' = [mem EXCEPT ![s] = "allocated"]
    /\ list' = list \cup {s}
    /\ conn' = [conn EXCEPT ![s] =
                  InitSocketData(d, 0, [k \in Kinds |-> 0])]
    /\ open' = open \cup {d}
    /\ clientCount' = clientCount + 1
    /\ Goto("top")
    /\ UNCHANGED <<orphan, expired, stalled, kill>>

Accept(s, d) ==
    /\ At("accept") /\ mem[s] = "never" /\ d \notin open
    /\ mem' = [mem EXCEPT ![s] = "allocated"]
    /\ list' = list \cup {s}
    /\ conn' = [conn EXCEPT ![s] =
                  InitSocketData(d, 0, [k \in Kinds |-> 0])]
    /\ open' = open \cup {d}
    /\ clientCount' = clientCount + 1
    /\ Goto("top")
    /\ UNCHANGED <<orphan, expired, stalled, kill>>

(* malloc() fails after accept() succeeded: the loop breaks.               *)
AcceptNoMemory(d) ==
    /\ At("accept") /\ d \notin open
    /\ open' = open \cup {d} /\ orphan' = d
    /\ pc' = "cleanup" /\ todo' = list
    /\ UNCHANGED <<cur, list, mem, conn, clientCount, expired, stalled, kill>>

(* Mutant: the clean-up does not ask for the connection to be closed.      *)
CleanupKeepsAlive(s) ==
    /\ At("cleanup") /\ s \in todo
    /\ CloseSocket(s, conn[s])
    /\ mem' = [mem EXCEPT ![s] = "freed"]
    /\ todo' = todo \ {s} /\ list' = list \ {s}
    /\ UNCHANGED <<pc, cur, orphan, stalled, kill>>

(* After the loop: every listed connection is closed and freed.            *)
Cleanup(s) ==
    /\ At("cleanup") /\ s \in todo
    /\ CloseSocket(s, [conn[s] EXCEPT !.close = TRUE])
    /\ mem' = [mem EXCEPT ![s] = "freed"]
    /\ todo' = todo \ {s} /\ list' = list \ {s}
    /\ UNCHANGED <<pc, cur, orphan, stalled, kill>>

Stop ==
    /\ At("cleanup") /\ todo = {}
    /\ kill' = FALSE
    /\ Goto("stopped")
    /\ UNCHANGED <<list, mem, conn, open, orphan, clientCount, expired,
                   stalled>>

-----------------------------------------------------------------------------
(* _mwProcessReadSocket, for the structure cur.                            *)

Set(c) == conn' = [conn EXCEPT ![cur] = c]

Me == conn[cur]

(* A later chunk of a multipart POST goes to _mwProcessMultipartPost.      *)
InMultipart == Me.post /\ Me.pxMP = "boundary"

(* What file an upload callback leaves open: none, the same, or a new one. *)
UploadFile(c, u) ==
    /\ u \in {Null, c.up} \cup (Descs \ open)
    /\ open' = (open \ {c.up}) \cup ({u} \ {Null})

(* _mwProcessMultipartPost for fields c: a receive error or an oversized   *)
(* variable closes, an incomplete body waits, a complete one (or a peer    *)
(* that hangs up) is dispatched; an empty path makes _mwNotifyPostVars     *)
(* redirect, which sets FLAG_CONN_CLOSE.                                   *)
MultipartPost(c) ==
    \E u \in Descs \cup {Null} :
        /\ UploadFile(c, u)
        /\ \/ /\ Set([c EXCEPT !.up = u, !.close = TRUE])
              /\ Goto("close") /\ UNCHANGED expired
           \/ /\ Set([c EXCEPT !.up = u])
              /\ Touch
           \/ /\ \E b \in {c.close, TRUE} :
                   Set([c EXCEPT !.up = u, !.close = b])
              /\ Goto("dispatch") /\ UNCHANGED expired

ReadMultipart ==
    /\ At("read") /\ InMultipart
    /\ MultipartPost(Me)
    /\ UNCHANGED <<list, mem, orphan, clientCount, stalled, kill>>

(* recv() <= 0.  A direct upload commits its last chunk, which opens the   *)
(* file if need be and closes it; the function closes the connection and   *)
(* returns 0, or closes it and returns -1 so that the caller closes again. *)
ReadClosed ==
    /\ At("read") /\ ~InMultipart
    /\ LET last == Me.post /\ Me.pxMP # "none"
           c    == [Me EXCEPT !.close = TRUE,
                              !.up = IF last THEN Null ELSE @]
       IN  /\ conn' = [conn EXCEPT ![cur] = Closed(c)]
           /\ open' = open \ (ClosedDescs(c) \cup
                               (IF last THEN {Me.up} ELSE {}))
           /\ clientCount' = clientCount - 1
           /\ IF last THEN Touch ELSE Goto("close") /\ UNCHANGED expired
    /\ UNCHANGED <<list, mem, orphan, stalled, kill>>

(* The header, or the body the header announced, is not complete yet.      *)
ReadMore ==
    /\ At("read") /\ ~InMultipart
    /\ Touch
    /\ UNCHANGED <<list, mem, conn, open, orphan, clientCount, stalled, kill>>

(* The multipart structure the Content-Type field of a header asks for;    *)
(* _mwParseHttpHeader looks at it whatever the method is.                  *)
ParsedMP == {"none"} \cup (IF "multipart" \in Methods THEN {"boundary"} ELSE {})
                     \cup (IF "upload" \in Methods THEN {"upload"} ELSE {})

(* An unsupported method, a header without a version or an overlong path.  *)
(* The last is found after the header, and so pxMP, has been parsed.       *)
ReadRejected ==
    /\ At("read") /\ ~Me.hdr /\ ~InMultipart
    /\ \E mp \in ParsedMP, post \in {FALSE, Methods # {"get"}} :
         Set([Me EXCEPT !.close = TRUE, !.pxMP = mp, !.post = post,
                        !.live = IF mp = "none" THEN @
                                 ELSE Acquire(Me, "mp")])
    /\ Goto("close")
    /\ UNCHANGED <<list, mem, open, orphan, clientCount, expired, stalled,
                   kill>>

(* The fields once _mwParseHttpHeader is done and the path is kept.        *)
Parsed(post, mp, close) ==
    [Me EXCEPT !.post = post, !.pxMP = mp, !.close = close, !.path = TRUE,
               !.hdr = TRUE,
               !.live = [k \in Kinds |->
                           IF k = "path" \/ (k = "mp" /\ mp # "none")
                           THEN @[k] + 1 ELSE @[k]]]

(* A complete header of a GET, or of any method but POST.                  *)
ReadGet ==
    /\ At("read") /\ ~Me.hdr /\ ~InMultipart
    /\ "get" \in Methods
    /\ \E mp \in ParsedMP, close \in BOOLEAN : Set(Parsed(FALSE, mp, close))
    /\ \/ Goto("dispatch") /\ UNCHANGED expired
       \/ Touch
    /\ UNCHANGED <<list, mem, open, orphan, clientCount, stalled, kill>>

(* A POST without multipart structure: its payload is copied and the       *)
(* request is dispatched.                                                  *)
ReadPost ==
    /\ At("read") /\ ~Me.hdr /\ ~InMultipart
    /\ "post" \in Methods
    /\ \E close \in BOOLEAN :
         LET c == Parsed(TRUE, "none", close)
         IN  Set([c EXCEPT !.payload = TRUE,
                           !.live = IF c.payload THEN @
                                    ELSE Acquire(c, "payload")])
    /\ Goto("dispatch")
    /\ UNCHANGED <<list, mem, open, orphan, clientCount, expired, stalled,
                   kill>>

(* A multipart POST: the header is dropped from the buffer, headerSize is  *)
(* reset and the body is processed.                                        *)
ReadPostMultipart ==
    /\ At("read") /\ ~Me.hdr /\ ~InMultipart
    /\ "multipart" \in Methods
    /\ \E close \in BOOLEAN :
         MultipartPost([Parsed(TRUE, "boundary", close) EXCEPT !.hdr = FALSE])
    /\ UNCHANGED <<list, mem, orphan, clientCount, stalled, kill>>

(* A POST with a file name in Content-Type: the first chunk is committed.  *)
ReadPostUpload ==
    /\ At("read") /\ ~Me.hdr /\ ~InMultipart
    /\ "upload" \in Methods
    /\ \E close \in BOOLEAN, u \in Descs \cup {Null} :
         LET c == Parsed(TRUE, "upload", close)
         IN  UploadFile(c, u) /\ Set([c EXCEPT !.up = u])
    /\ Touch
    /\ UNCHANGED <<list, mem, orphan, clientCount, stalled, kill>>

(* The rest of the body of a GET has arrived.                              *)
ReadBody ==
    /\ At("read") /\ Me.hdr /\ ~Me.post
    /\ Goto("dispatch")
    /\ UNCHANGED <<list, mem, conn, open, orphan, clientCount, expired,
                   stalled, kill>>

-----------------------------------------------------------------------------
(* From a complete request to the start of its response (label done).      *)

(* _mwSend401AuthorizationRequired closes; the caller returns 0.           *)
Unauthorized ==
    /\ At("dispatch") /\ Me.source = {}
    /\ LET c == [Me EXCEPT !.close = TRUE]
       IN  /\ conn' = [conn EXCEPT ![cur] = Closed(c)]
           /\ open' = open \ ClosedDescs(c)
           /\ clientCount' = clientCount - 1
    /\ Touch
    /\ UNCHANGED <<list, mem, orphan, stalled, kill>>

(* _mwCheckUrlHandlers: a redirecting handler does not end the search.     *)
HandlerRedirects ==
    /\ At("dispatch") /\ Me.source = {} /\ "redirect" \in Handlers
    /\ Set([Me EXCEPT !.source = {"redirect"}, !.close = TRUE])
    /\ Goto("dispatch")
    /\ UNCHANGED <<list, mem, open, orphan, clientCount, expired, stalled,
                   kill>>

Sending(c, src) ==
    [c EXCEPT !.phase = "sending", !.source = @ \cup src]

(* No (further) handler: a file, or after a redirect possibly nothing.     *)
HandlerNone ==
    /\ At("dispatch")
    /\ \/ Set(Sending(Me, {"file"})) /\ Goto("file")
       \/ "redirect" \in Me.source /\ Set(Sending(Me, {})) /\ Goto("start")
    /\ UNCHANGED <<list, mem, open, orphan, clientCount, expired, stalled,
                   kill>>

(* FLAG_DATA_RAW, with or without a buffer the server has to free.         *)
HandlerRaw ==
    /\ At("dispatch") /\ "raw" \in Handlers
    /\ \E toFree \in BOOLEAN, data \in BOOLEAN :
         Set([Sending(Me, {"raw"}) EXCEPT
                !.handler = TRUE, !.data = data, !.toFree = toFree,
                !.ptr = toFree,
                !.live = IF toFree THEN Acquire(Me, "ptr") ELSE @])
    /\ Goto("start")
    /\ UNCHANGED <<list, mem, open, orphan, clientCount, expired, stalled,
                   kill>>

(* FLAG_DATA_STREAM | FLAG_TO_FREE: the handler keeps its state in ptr.    *)
HandlerStream ==
    /\ At("dispatch") /\ "stream" \in Handlers
    /\ Set([Sending(Me, {"stream"}) EXCEPT
              !.handler = TRUE, !.data = FALSE, !.toFree = TRUE, !.ptr = TRUE,
              !.live = [k \in Kinds |-> IF k \in {"ptr", "stream"}
                                        THEN @[k] + 1 ELSE @[k]]])
    /\ Goto("start")
    /\ UNCHANGED <<list, mem, open, orphan, clientCount, expired, stalled,
                   kill>>

(* FLAG_DATA_FILE, or FLAG_DATA_FD with a file the handler has opened.     *)
HandlerFile ==
    /\ At("dispatch")
    /\ \/ /\ Handlers \cap {"file", "fd"} # {}
          /\ Set([Sending(Me, {"file"}) EXCEPT !.handler = TRUE])
          /\ UNCHANGED open
       \/ /\ "fd" \in Handlers
          /\ \E d \in Descs \ open :
               /\ Set([Sending(Me, {"file"}) EXCEPT !.handler = TRUE, !.fd = d])
               /\ open' = open \cup {d}
    /\ Goto("file")
    /\ UNCHANGED <<list, mem, orphan, clientCount, expired, stalled, kill>>

(* _mwStartSendFile: nothing found (the 404 page is sent, -1 returned), a  *)
(* file that was opened here or by the handler, or a directory that is     *)
(* redirected (dataLength is still that of the request) or listed as raw   *)
(* data, in a buffer to free if it is long.                                *)
StartFileMissing ==
    /\ At("file") /\ Me.fd = Null
    /\ Goto("close")
    /\ UNCHANGED <<list, mem, conn, open, orphan, clientCount, expired,
                   stalled, kill>>

StartFileOpened ==
    /\ At("file")
    /\ \/ /\ Me.fd # Null
          /\ Set([Me EXCEPT !.data = TRUE])
          /\ UNCHANGED open
       \/ /\ Me.fd = Null
          /\ \E d \in Descs \ open :
               /\ Set([Me EXCEPT !.data = TRUE, !.fd = d])
               /\ open' = open \cup {d}
    /\ Touch
    /\ UNCHANGED <<list, mem, orphan, clientCount, stalled, kill>>

RedirectDirectory ==
    \E data \in BOOLEAN :
        Set([Me EXCEPT !.source = @ \cup {"raw"}, !.close = TRUE,
                       !.data = data])

ListDirectory ==
    \E long \in BOOLEAN :
        Set([Me EXCEPT !.source = @ \cup {"raw"}, !.data = TRUE,
                       !.toFree = long, !.ptr = long,
                       !.live = IF long THEN Acquire(Me, "ptr") ELSE @])

StartDirectory ==
    /\ At("file") /\ Me.fd = Null
    /\ RedirectDirectory \/ ListDirectory
    /\ Goto("start")
    /\ UNCHANGED <<list, mem, open, orphan, clientCount, expired, stalled,
                   kill>>

(* _mwStartSendRawData sends the header or fails; a bare redirect has been *)
(* sent already.                                                           *)
StartResponse ==
    /\ At("start")
    /\ \/ Touch
       \/ Me.source # {"redirect"} /\ Goto("close") /\ UNCHANGED expired
    /\ UNCHANGED <<list, mem, conn, open, orphan, clientCount, stalled, kill>>

-----------------------------------------------------------------------------
(* _mwProcessWriteSocket.                                                  *)

IsRaw(c) == c.source \cap {"raw", "stream"} # {}

(* A redirect, or a response whose data has all been sent.                 *)
WriteDone ==
    /\ At("write")
    /\ "redirect" \in Me.source \/ (~Me.data /\ "stream" \notin Me.source)
    /\ Goto("close")
    /\ UNCHANGED <<list, mem, conn, open, orphan, clientCount, expired,
                   stalled, kill>>

Unfinished ==
    "redirect" \notin Me.source /\ (Me.data \/ "stream" \in Me.source)

(* _mwSendRawDataChunk: send() fails; closed here and by the caller.       *)
WriteRawError ==
    /\ At("write") /\ Unfinished /\ IsRaw(Me) /\ Me.data
    /\ CloseSocket(cur, [Me EXCEPT !.close = TRUE])
    /\ Goto("close")
    /\ UNCHANGED <<list, mem, orphan, stalled, kill>>

(* Some or all of the buffered data is sent, or the stream handler         *)
(* delivers the next piece, which may be empty.                            *)
WriteRaw ==
    /\ At("write") /\ Unfinished /\ IsRaw(Me)
    /\ \E more \in BOOLEAN : Set([Me EXCEPT !.data = more])
    /\ Touch
    /\ UNCHANGED <<list, mem, open, orphan, clientCount, stalled, kill>>

(* The stream handler returns 0: end of the stream.                        *)
WriteStreamEnd ==
    /\ At("write") /\ Unfinished /\ "stream" \in Me.source /\ ~Me.data
    /\ Set([Me EXCEPT !.close = TRUE])
    /\ Goto("close")
    /\ UNCHANGED <<list, mem, open, orphan, clientCount, expired, stalled,
                   kill>>

(* _mwSendFileChunk: send() fails; the file is closed here.                *)
WriteFileError ==
    /\ At("write") /\ Unfinished /\ ~IsRaw(Me)
    /\ Set([Me EXCEPT !.close = TRUE, !.fd = Null])
    /\ open' = open \ {Me.fd}
    /\ Goto("close")
    /\ UNCHANGED <<list, mem, orphan, clientCount, expired, stalled, kill>>

(* Part of the data is sent, or the next part is read or padded, or will   *)
(* have to be read again with nothing left to send until then.             *)
WriteFile ==
    /\ At("write") /\ Unfinished /\ ~IsRaw(Me)
    /\ \E more \in BOOLEAN : Set([Me EXCEPT !.data = more])
    /\ Touch
    /\ UNCHANGED <<list, mem, open, orphan, clientCount, stalled, kill>>

(* Mutant: the end of the file is not reported to the caller.              *)
WriteFileDoneUnseen ==
    /\ At("write") /\ Unfinished /\ ~IsRaw(Me)
    /\ Set([Me EXCEPT !.fd = Null])
    /\ open' = open \ {Me.fd}
    /\ Touch
    /\ UNCHANGED <<list, mem, orphan, clientCount, stalled, kill>>

(* The whole file is sent: it is closed and 1 returned.                    *)
WriteFileDone ==
    /\ At("write") /\ Unfinished /\ ~IsRaw(Me)
    /\ Set([Me EXCEPT !.data = FALSE, !.fd = Null])
    /\ open' = open \ {Me.fd}
    /\ Goto("close")
    /\ UNCHANGED <<list, mem, orphan, clientCount, expired, stalled, kill>>

-----------------------------------------------------------------------------
(* Steps of others.                                                        *)

(* mwServerShutdown, or a signal handler, asks the loop to stop, at the    *)
(* latest when the loop next reads bKillWebserver.                         *)
Kill ==
    /\ ~kill /\ (At("top") \/ (At("sweep") /\ todo = {}))
    /\ kill' = TRUE
    /\ UNCHANGED <<loopVars, listVars, conn, open, orphan, clientCount,
                   expired, stalled>>

(* The clock passes tmExpirationTime of s; it is read at the loop's head.  *)
TimePasses(s) ==
    /\ At("top") /\ s \in list \ expired /\ conn[s].socket # Null
    /\ expired' = expired \cup {s}
    /\ UNCHANGED <<loopVars, listVars, conn, open, orphan, clientCount,
                   stalled, kill>>

(* From now on select() never reports s: its peer is gone without a FIN.   *)
PeerStalls(s) ==
    /\ At("top") /\ s \in (list \cap MayStall) \ stalled
    /\ conn[s].socket # Null
    /\ stalled' = stalled \cup {s}
    /\ UNCHANGED <<loopVars, listVars, conn, open, orphan, clientCount,
                   expired, kill>>

Read ==
    \/ ReadMultipart \/ ReadClosed \/ ReadMore \/ ReadRejected
    \/ ReadGet \/ ReadPost \/ ReadPostMultipart \/ ReadPostUpload \/ ReadBody

Respond ==
    \/ Unauthorized \/ HandlerRedirects \/ HandlerNone \/ HandlerRaw
    \/ HandlerStream \/ HandlerFile
    \/ StartFileMissing \/ StartFileOpened \/ StartDirectory \/ StartResponse

Write ==
    \/ WriteDone \/ WriteRawError \/ WriteRaw \/ WriteStreamEnd
    \/ WriteFileError \/ WriteFile \/ WriteFileDone

Pass ==
    \/ LoopHead \/ SelectReady \/ SelectError \/ SelectTimeout
    \/ ProcessDone \/ CallerCloses \/ AcceptNone \/ Stop
    \/ \E s \in Structs : \/ SweepKeep(s) \/ SweepExpire(s)
                          \/ NotReady(s) \/ Ready(s) \/ Cleanup(s)
    \/ \E d \in Descs : \/ AcceptNoMemory(d)
                        \/ \E s \in Structs : Accept(s, d)

LoopThread == Pass \/ Read \/ Respond \/ Write

Environment ==
    \/ Kill
    \/ \E s \in Structs : TimePasses(s) \/ PeerStalls(s)

(* Once the loop has returned nothing more happens.                        *)
Stopped == At("stopped") /\ UNCHANGED vars

Next == LoopThread \/ Environment \/ Stopped

Spec == Init /\ [][Next]_vars

(* The thread keeps running, and the clock keeps advancing: it is looked   *)
(* at once per iteration, and the expiration time of a connection that no  *)
(* longer reacts is not put off, so that at some iteration it has passed.  *)
FairSpec ==
    /\ Spec
    /\ WF_vars(LoopThread)
    /\ \A s \in Structs : SF_vars(s \in stalled /\ TimePasses(s))

-----------------------------------------------------------------------------
(* Properties.                                                             *)

(* Every variable has its type.                                            *)
TypeOK ==
    /\ pc \in {"top", "sweep", "process", "read", "dispatch", "file",
               "start", "write", "close", "accept", "cleanup", "stopped"}
    /\ cur \in Structs \cup {Null}
    /\ todo \subseteq Structs /\ list \subseteq Structs
    /\ mem \in [Structs -> {"never", "allocated", "freed"}]
    /\ conn \in [Structs -> Conn]
    /\ open \subseteq Descs /\ orphan \in Descs \cup {Null}
    /\ clientCount \in Nat
    /\ expired \subseteq Structs /\ stalled \subseteq Structs
    /\ kill \in BOOLEAN

Connected == {s \in Structs : conn[s].socket # Null}

(* The client count the server reports and compares with maxClients is the *)
(* number of connections that are open, whichever of the many paths        *)
(* through _mwCloseSocket (twice for one connection on some) closed the    *)
(* others.                                                                 *)
ClientCountExact == clientCount = Cardinality(Connected)

Refs(c) == {c.socket, c.fd, c.up} \ {Null}

(* No descriptor is leaked, closed twice or shared: the open descriptors   *)
(* are exactly those some structure refers to (and the one socket that is  *)
(* lost when malloc fails), and no two references are to the same one.     *)
DescriptorsOwned ==
    /\ open = (UNION {Refs(conn[s]) : s \in Structs}) \cup ({orphan} \ {Null})
    /\ \A s, t \in Structs : s # t => Refs(conn[s]) \cap Refs(conn[t]) = {}
    /\ \A s \in Structs :
         /\ orphan \notin Refs(conn[s])
         /\ conn[s].fd # Null => conn[s].fd # conn[s].socket
         /\ conn[s].up # Null => conn[s].up \notin {conn[s].socket, conn[s].fd}

Holds(c) ==
    {k \in {"mp", "payload", "path"} :
        \/ k = "mp"      /\ c.pxMP # "none"
        \/ k = "payload" /\ c.payload
        \/ k = "path"    /\ c.path}

(* The multipart structure, the payload and the path of a request are      *)
(* allocated once and freed once: as many are allocated as the structure   *)
(* refers to, and a structure that is closed or freed refers to none.      *)
ObjectsOwned ==
    \A s \in Structs :
        /\ \A k \in {"mp", "payload", "path"} :
             conn[s].live[k] = IF k \in Holds(conn[s]) THEN 1 ELSE 0
        /\ conn[s].socket = Null => Holds(conn[s]) = {}
        /\ mem[s] = "freed" => conn[s].socket = Null

(* A buffer or a stream session that outlives its connection was lost in   *)
(* an expiry: every other path that closes a connection tells the stream   *)
(* handler and frees ptr, exactly once.                                    *)
OnlyExpiryLeaks ==
    \A s \in Structs :
        conn[s].socket = Null /\ conn[s].phase # "none" =>
            conn[s].live["ptr"] = 0 /\ conn[s].live["stream"] = 0

(* The pass over the list saves the next pointer before it works on a      *)
(* connection; whatever it then does, the structures still to be visited   *)
(* stay linked and allocated, and so is the one being worked on.           *)
PassIsSafe ==
    /\ todo \subseteq list
    /\ \A s \in list : mem[s] = "allocated"
    /\ cur # Null => mem[cur] = "allocated"

(* A kept-alive connection waiting for its next request carries nothing of *)
(* the previous one: no file, no upload, no buffer, no flag.               *)
FreshRequestIsClean ==
    \A s \in Structs \ {cur} :
        conn[s].phase = "receiving" /\ conn[s].socket # Null
        /\ ~conn[s].path =>
            /\ conn[s].fd = Null /\ conn[s].up = Null
            /\ conn[s].pxMP = "none" /\ conn[s].source = {}
            /\ ~conn[s].close /\ ~conn[s].toFree /\ ~conn[s].post
            /\ \A k \in Kinds : conn[s].live[k] = 0

(* _mwSendFileChunk reads and closes fd only while it is open: 0, what a   *)
(* closed file leaves in fd, is a valid descriptor for read().             *)
FileReadIsOpen ==
    pc = "write" /\ Unfinished /\ ~IsRaw(Me) => Me.fd \in open

(* After the loop has returned no connection it ever accepted is open and  *)
(* no structure is allocated; only a socket accepted without memory is.    *)
NothingOpenAfterStop ==
    pc = "stopped" =>
        /\ Connected = {} /\ open \subseteq {orphan}
        /\ \A s \in Structs : mem[s] # "allocated"

(* A connection whose peer has silently gone away is closed in the end,    *)
(* whatever it was doing: waiting, sending a file, feeding a stream.       *)
StalledConnectionClosed ==
    \A s \in Structs :
        s \in stalled /\ s \in list ~> conn[s].socket = Null

(* A server that is told to stop stops.                                    *)
ShutdownCompletes == kill ~> pc = "stopped"

(* What a connection looks like from outside, and the promise about it     *)
(* (module Connections) that the event loop keeps.                         *)
Life ==
    [s \in Structs |->
        IF mem[s] = "never" THEN "none"
        ELSE IF mem[s] = "freed" THEN "released"
        ELSE IF conn[s].socket = Null THEN "closed"
        ELSE IF conn[s].phase = "sending" THEN "answering"
        ELSE "waiting"]

Promise == INSTANCE Connections WITH life <- Life

ImplementsConnections == Promise!Spec

(* Violated (see README): when a connection is gone its stream handler     *)
(* has been told so with a null buffer ("indicate connection closed").     *)
StreamToldOfClose ==
    \A s \in Structs :
        mem[s] = "freed" => conn[s].live["stream"] = 0

=============================================================================
