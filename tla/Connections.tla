----------------------------- MODULE Connections -----------------------------
(***************************************************************************)
(* What a server promises about its connections, without saying how: each  *)
(* is opened once, alternates between waiting for a request and answering  *)
(* it, is closed once and released once, and never comes back.  HttpServer *)
(* implements it.                                                          *)
(***************************************************************************)
CONSTANT Structs

VARIABLE life      (* the life of each connection *)

Stages == {"none", "waiting", "answering", "closed", "released"}

Move(s, from, to) ==
    /\ life[s] \in from
    /\ life' = [life EXCEPT ![s] = to]

(* Some closed connections are released together.                          *)
Release(S) ==
    /\ \A s \in S : life[s] = "closed"
    /\ life' = [s \in Structs |-> IF s \in S THEN "released" ELSE life[s]]

Init == life = [s \in Structs |-> "none"]

Next ==
    \/ \E s \in Structs :
         \/ Move(s, {"none"}, "waiting")
         \/ Move(s, {"waiting"}, "answering")
         \/ Move(s, {"answering"}, "waiting")
         \/ Move(s, {"waiting", "answering"}, "closed")
         \* the final clean-up closes and releases in one go
         \/ Move(s, {"waiting", "answering", "closed"}, "released")
    \/ \E S \in SUBSET Structs : Release(S)

Spec == Init /\ [][Next]_life

=============================================================================
