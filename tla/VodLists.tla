------------------------------ MODULE VodLists ------------------------------
(***************************************************************************)
(* The play lists of the VOD server, uhVod in httpd/httpvod.c: a list of   *)
(* contexts, one per client address, each with a linked list of entries.   *)
(* The entries are nodes of the heap; node 0 is the null pointer.          *)
(*                                                                         *)
(* The server handles one request at a time.  The pages ask to pin and to  *)
(* remove entries by an index, 0 or more, which may be out of date.        *)
(***************************************************************************)
EXTENDS Naturals, Sequences, FiniteSets

CONSTANTS
    Clients,     (* the addresses requests come from                        *)
    Clips,       (* what can be added                                       *)
    Commands,    (* what a page may ask a player to do, none of them 0      *)
    MaxNodes     (* bound: entries in all the lists                         *)

ASSUME MaxNodesAssumption == MaxNodes \in Nat \ {0}

VARIABLES
    ctxs,        (* the contexts: ip, playlist, nextaction                  *)
    data, nxt,   (* PL_ENTRY::data and PL_ENTRY::next of the nodes in use   *)
    listcount,   (* the number of entries, as the code counts them          *)
    served,      (* history: the last request, and the clip it was given    *)
    down         (* free() of something that was not allocated: a crash     *)

listVars == <<ctxs, data, nxt, listcount, served, down>>

NoIp == "none"

ASSUME NoIpAssumption == NoIp \notin Clients

Answered(c, clip) == served' = [client |-> c, clip |-> clip]

Null == 0

Nodes == 1 .. MaxNodes

NewCtx(ip) == [ip |-> ip, playlist |-> Null, nextaction |-> 0]

(* vodctx is static and zero: there is always a first context.             *)
ListInit ==
    /\ ctxs = <<NewCtx(NoIp)>>
    /\ data = [n \in {} |-> 0] /\ nxt = [n \in {} |-> Null]
    /\ listcount = 0 /\ down = FALSE
    /\ served = [client |-> NoIp, clip |-> NoIp]

(* malloc and free.                                                        *)
Used == DOMAIN data

Fresh == CHOOSE n \in Nodes \ Used : \A m \in Nodes \ Used : n <= m

Without(f, n) == [m \in DOMAIN f \ {n} |-> f[m]]

(* Mutant: the first context is everybody's.                               *)
ContextShared(c) ==
    IF ctxs[1].ip = NoIp
    THEN [list |-> [ctxs EXCEPT ![1].ip = c], at |-> 1]
    ELSE [list |-> ctxs, at |-> 1]

(* GetVodContext, which every request calls: the contexts, and the place   *)
(* of the client's among them.                                             *)
Context(c) ==
    LET own == {k \in DOMAIN ctxs : ctxs[k].ip \in {c, NoIp}}
    IN  IF own = {}
        THEN [list |-> Append(ctxs, NewCtx(c)), at |-> Len(ctxs) + 1]
        ELSE LET k == CHOOSE j \in own : \A i \in own : j <= i
             IN  [list |-> [ctxs EXCEPT ![k].ip = c], at |-> k]

Step(n) == IF n = Null THEN Null ELSE nxt[n]

(* The node reached from hdr after i steps, Null beyond the end.           *)
NodeAt(hdr, i) ==
    LET at[j \in 0 .. i] == IF j = 0 THEN hdr ELSE Step(at[j - 1])
    IN  at[i]

Reach(hdr) == {NodeAt(hdr, i) : i \in 0 .. MaxNodes} \ {Null}

EndOf(hdr) == CHOOSE n \in Reach(hdr) : nxt[n] = Null

(* The clips of a list.                                                    *)
ListOf(hdr) == [i \in 1 .. Cardinality(Reach(hdr)) |-> data[NodeAt(hdr, i - 1)]]

-----------------------------------------------------------------------------
(* The list functions, each with the context the request is for.           *)

SetHdr(x, hdr) == ctxs' = [x.list EXCEPT ![x.at].playlist = hdr]

Hdr(x) == x.list[x.at].playlist

Alone(x) == ctxs' = x.list /\ UNCHANGED <<data, nxt, listcount>>

(* plAddEntry.                                                             *)
AddEntry(x, clip) ==
    LET n == Fresh
    IN  /\ data' = [m \in Used \cup {n} |-> IF m = n THEN clip ELSE data[m]]
        /\ nxt' = [m \in Used \cup {n} |->
                      IF m = n THEN Null
                      ELSE IF Hdr(x) # Null /\ m = EndOf(Hdr(x)) THEN n
                      ELSE nxt[m]]
        /\ SetHdr(x, IF Hdr(x) = Null THEN n ELSE Hdr(x))
        /\ listcount' = listcount + 1

(* Mutant: the list still begins with the entry that is freed.             *)
TakeFirstKeepsHead(x) ==
    LET ptr == Hdr(x)
    IN  /\ ctxs' = x.list
        /\ data' = Without(data, ptr) /\ nxt' = Without(nxt, ptr)
        /\ listcount' = listcount - 1

(* plGetEntry, and the deletion of the first entry by its index.           *)
TakeFirst(x) ==
    LET ptr == Hdr(x)
    IN  /\ SetHdr(x, nxt[ptr])
        /\ data' = Without(data, ptr) /\ nxt' = Without(nxt, ptr)
        /\ listcount' = listcount - 1

(* plDelEntryByIndex.                                                      *)
DelEntry(x, index) ==
    LET ptr  == NodeAt(Hdr(x), index)
        prev == NodeAt(Hdr(x), index - 1)
    IN  IF ptr = Null THEN Alone(x)
        ELSE IF index = 0 THEN TakeFirst(x)
        ELSE /\ ctxs' = x.list
             /\ data' = Without(data, ptr)
             /\ nxt' = Without([nxt EXCEPT ![prev] = nxt[ptr]], ptr)
             /\ listcount' = listcount - 1

(* Mutant: the entry before the pinned one still leads to it.              *)
PinEntryKeepsPrev(x, index) ==
    LET ptr == NodeAt(Hdr(x), index)
    IN  IF ptr = Null \/ index = 0 THEN Alone(x)
        ELSE /\ nxt' = [nxt EXCEPT ![ptr] = Hdr(x)]
             /\ SetHdr(x, ptr)
             /\ UNCHANGED <<data, listcount>>

(* plPinEntryByIndex.                                                      *)
PinEntry(x, index) ==
    LET ptr  == NodeAt(Hdr(x), index)
        prev == NodeAt(Hdr(x), index - 1)
    IN  IF ptr = Null \/ index = 0 THEN Alone(x)
        ELSE /\ nxt' = [nxt EXCEPT ![prev] = nxt[ptr], ![ptr] = Hdr(x)]
             /\ SetHdr(x, ptr)
             /\ UNCHANGED <<data, listcount>>

-----------------------------------------------------------------------------
(* The requests, uhVod.                                                    *)

(* No action: the list is shown.  A request to add that names no stream    *)
(* is answered with an error, and does as little.                          *)
List(c) == Alone(Context(c)) /\ Answered(c, NoIp) /\ UNCHANGED down

Add(c, clip) ==
    /\ Used # Nodes
    /\ AddEntry(Context(c), clip) /\ Answered(c, NoIp) /\ UNCHANGED down

Pin(c, index) ==
    PinEntry(Context(c), index) /\ Answered(c, NoIp) /\ UNCHANGED down

(* Whatever was deleted, the code then frees its own string constant,      *)
(* which may or may not take the server down.                              *)
Del(c, index) ==
    /\ DelEntry(Context(c), index) /\ Answered(c, NoIp)
    /\ down' \in BOOLEAN

(* The player is given vodloop when the list is empty.                     *)
Play(c) ==
    LET x == Context(c)
        y == [x EXCEPT !.list[x.at].nextaction = 0]
    IN  /\ IF Hdr(x) = Null THEN Alone(y) /\ Answered(c, NoIp)
           ELSE TakeFirst(y) /\ Answered(c, data[Hdr(x)])
        /\ UNCHANGED down

(* A page leaves a command, or the player asks for it and so takes it.     *)
Control(c, arg) ==
    LET x == Context(c)
    IN  /\ Alone([x EXCEPT !.list[x.at].nextaction = arg])
        /\ Answered(c, NoIp) /\ UNCHANGED down

Request(c) ==
    \/ List(c) \/ Play(c)
    \/ \E clip \in Clips : Add(c, clip)
    \/ \E i \in 0 .. MaxNodes : Pin(c, i) \/ Del(c, i)
    \/ \E arg \in Commands \cup {0} : Control(c, arg)

-----------------------------------------------------------------------------
(* Properties.                                                             *)

Heads == {ctxs[k].playlist : k \in DOMAIN ctxs}

(* Every entry that is allocated is in one list, once: none is lost, none  *)
(* is in the list of two clients, no list runs in a circle, and the count  *)
(* of entries is right.                                                    *)
EntriesAccounted ==
    /\ Used = UNION {Reach(hdr) : hdr \in Heads}
    /\ \A k, j \in DOMAIN ctxs :
          k # j => Reach(ctxs[k].playlist) \cap Reach(ctxs[j].playlist) = {}
    /\ \A hdr \in Heads : NodeAt(hdr, MaxNodes) = Null
    /\ listcount = Cardinality(Used)

(* The lists as their clients see them; see module VodQueues.              *)
OwnCtx(c) == {k \in DOMAIN ctxs : ctxs[k].ip = c}

QueueOf(c) ==
    IF OwnCtx(c) = {} THEN <<>>
    ELSE ListOf(ctxs[CHOOSE k \in OwnCtx(c) : TRUE].playlist)

PendingOf(c) ==
    IF OwnCtx(c) = {} THEN 0
    ELSE ctxs[CHOOSE k \in OwnCtx(c) : TRUE].nextaction

=============================================================================
