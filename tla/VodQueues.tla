------------------------------ MODULE VodQueues ------------------------------
(***************************************************************************)
(* What the play lists of the VOD server promise: every client, told apart *)
(* by its address, has a first-in first-out queue of clips in which it may *)
(* move one to the front or remove one, and one pending command for its    *)
(* player.  What one client does leaves every other alone.                 *)
(***************************************************************************)
EXTENDS Naturals, Sequences, SequencesExt

CONSTANTS Clients, Clips, Commands

VARIABLES
    queue,     (* [Clients -> Seq(Clips)]                                   *)
    pending,   (* [Clients -> Commands \cup {0}]: 0 is no command           *)
    served,    (* the last request: whose it was, and the clip it was given *)
    up         (* the server has not crashed                                *)

queueVars == <<queue, pending, served, up>>

None == "none"

Answered(c, x) == served' = [client |-> c, clip |-> x]

Init ==
    /\ queue = [c \in Clients |-> <<>>]
    /\ pending = [c \in Clients |-> 0] /\ up = TRUE
    /\ served = [client |-> None, clip |-> None]

Add(c, x) ==
    /\ Answered(c, None) /\ UNCHANGED <<pending, up>>
    /\ queue' = [queue EXCEPT ![c] = Append(@, x)]

Pin(c, i) ==
    /\ Answered(c, None) /\ UNCHANGED <<pending, up>>
    /\ queue' = [queue EXCEPT ![c] = <<@[i]>> \o RemoveAt(@, i)]

(* Removing may take the server down with it, even if nothing is removed.  *)
Del(c, i) ==
    /\ Answered(c, None) /\ UNCHANGED pending
    /\ up' \in BOOLEAN
    /\ queue' = [queue EXCEPT ![c] = IF i \in DOMAIN @ THEN RemoveAt(@, i) ELSE @]

(* The player takes its next clip, and a command it has not yet seen is    *)
(* void.                                                                   *)
Play(c) ==
    /\ Answered(c, IF queue[c] = <<>> THEN None ELSE Head(queue[c]))
    /\ pending' = [pending EXCEPT ![c] = 0]
    /\ UNCHANGED up
    /\ queue' = [queue EXCEPT ![c] = IF @ = <<>> THEN @ ELSE Tail(@)]

Command(c, a) ==
    /\ Answered(c, None) /\ UNCHANGED <<queue, up>>
    /\ pending' = [pending EXCEPT ![c] = a]

Look(c) == Answered(c, None) /\ UNCHANGED <<queue, pending, up>>

Next ==
    /\ up
    /\ \E c \in Clients :
          \/ Look(c) \/ Play(c)
          \/ \E a \in Commands \cup {0} : Command(c, a)
          \/ \E x \in Clips : Add(c, x)
          \/ \E i \in DOMAIN queue[c] : Pin(c, i)
          \/ \E i \in 0 .. Len(queue[c]) : Del(c, i)

Spec == Init /\ [][Next]_queueVars

=============================================================================
