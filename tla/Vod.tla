-------------------------------- MODULE Vod --------------------------------
(***************************************************************************)
(* The VOD server, httpd/httpvod.c: it builds its catalogue when the event *)
(* handler is told MW_INIT, and from then on serves lists of the clips in  *)
(* it.  An entry of a list names a clip.                                   *)
(***************************************************************************)
EXTENDS VodCatalog, VodLists

vars == <<catVars, listVars>>

Init == CatInit /\ ListInit

(* The order of the files is that of the directory, which may be any.      *)
Scan == \E f \in Files : AddClip(f) /\ UNCHANGED listVars

Ready == Added = Files /\ ~down

Serve ==
    /\ Ready /\ UNCHANGED catVars
    /\ \E c \in Clients : Request(c)

(* The server runs until it is stopped or has crashed.                     *)
Next == Scan \/ Serve

Spec == Init /\ [][Next]_vars

-----------------------------------------------------------------------------
(* Every client has the queue and the pending command that module          *)
(* VodQueues promises it, although contexts are made on demand and the     *)
(* lists are threaded through one heap: the player gets the clips in order *)
(* and each once, and no request of one client touches another's list.     *)
Queues == INSTANCE VodQueues WITH
    queue   <- [c \in Clients |-> QueueOf(c)],
    pending <- [c \in Clients |-> PendingOf(c)],
    up      <- ~down

ImplementsQueues == Queues!Spec

(* Every variable has its type.                                            *)
TypeOK ==
    /\ \A k \in DOMAIN cats :
          /\ cats[k].count \in Nat /\ cats[k].hash \in Nat
          /\ ToSet(cats[k].clips) \subseteq Files
    /\ Added \subseteq Files /\ \A f \in Added : hash[f] \in hashmap
    /\ \A k \in DOMAIN ctxs :
          /\ ctxs[k].ip \in Clients \cup {NoIp}
          /\ ctxs[k].playlist \in Used \cup {Null}
          /\ ctxs[k].nextaction \in Commands \cup {0}
    /\ Used \subseteq Nodes /\ DOMAIN nxt = Used
    /\ \A n \in Used : data[n] \in Clips /\ nxt[n] \in Used \cup {Null}
    /\ listcount \in Nat /\ down \in BOOLEAN

=============================================================================
