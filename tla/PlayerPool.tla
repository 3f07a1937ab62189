----------------------------- MODULE PlayerPool -----------------------------
(***************************************************************************)
(* The players of the plug-in, plugin/Xulplayer.cpp: a fixed array of      *)
(* slots, each with a CMPlayer (an MPlayer process) and a video window,    *)
(* and the slot the script's calls go to.                                  *)
(*                                                                         *)
(* CMPlayer is a library that is not in the repository: its state machine  *)
(* is the external part of this module (Started, Fails, Stops, Ends).  The *)
(* module has no Next of its own; Playback composes it with the script.    *)
(***************************************************************************)
EXTENDS Integers

CONSTANT MaxPlayers                 (* m_maxPlayerNum                      *)

ASSUME MaxPlayersAssumption == MaxPlayers \in Nat \ {0}

VARIABLES
    made,     (* slots whose CMPlayer has been created                      *)
    wnd,      (* m_hWndVideo: whether a slot has a window                   *)
    st,       (* CMPlayer::state of each slot                               *)
    active,   (* m_activePlayerId                                           *)
    multi,    (* m_bMultiMode, set by the script before it plays anything   *)
    leaked    (* history: a window was dropped without being destroyed      *)

poolVars == <<made, wnd, st, active, multi, leaked>>

Slots == 0 .. MaxPlayers - 1

Busy == {"entry", "playing", "paused"}

States == Busy \cup {"idle", "stopping"}

PoolInit ==
    /\ made = {} /\ wnd = [i \in Slots |-> FALSE]
    /\ st = [i \in Slots |-> "idle"]
    /\ active = -1 /\ multi \in BOOLEAN /\ leaked = FALSE

PoolType ==
    /\ made \subseteq Slots /\ wnd \in [Slots -> BOOLEAN]
    /\ st \in [Slots -> States] /\ active \in Slots \cup {-1}
    /\ multi \in BOOLEAN /\ leaked \in BOOLEAN

(* Mutant: a slot is taken for free once its player is idle.               *)
FreeIfIdle == {i \in Slots : st[i] = "idle"}

Free == {i \in Slots : ~wnd[i]}

(* method_get_info for slot i: nothing is answered without a player.       *)
Info(i) == IF i \in made THEN st[i] ELSE "none"

(* Mutant: the first slot is taken if none is free.                        *)
TargetFirst ==
    IF ~multi \/ Free = {} THEN 0
    ELSE CHOOSE i \in Free : \A j \in Free : i <= j

(* The slot method_play plays in: createPlayer takes the first slot that   *)
(* has no window, or slot 0 unless in multi mode; if no slot is free it    *)
(* fails, which method_play ignores: it goes on with the active player.    *)
Target ==
    IF ~multi THEN 0
    ELSE IF Free = {} THEN active
    ELSE CHOOSE i \in Free : \A j \in Free : i <= j

(* method_play, with or without a video window; s is what became of the    *)
(* player when Play() returned.  A window in the slot is overwritten if a  *)
(* new one is wanted, and destroyed if none is.                            *)
Play(win, s) ==
    LET i       == Target
        created == ~multi \/ Free # {}
    IN  /\ made' = made \cup {i}
        /\ wnd' = [wnd EXCEPT ![i] = IF created THEN win ELSE @]
        /\ leaked' = (leaked \/ (created /\ win /\ wnd[i]))
        /\ active' = i
        /\ st' = [st EXCEPT ![i] = s]
        /\ UNCHANGED multi

(* Mutant: slot 0 is not looked at.                                        *)
ActiveAfterButFirst(id) ==
    LET lower == {i \in Slots : i < id /\ i > 0 /\ wnd[i]}
    IN  IF wnd[id] /\ active = id /\ lower # {}
        THEN CHOOSE i \in lower : \A j \in lower : j <= i
        ELSE active

(* The active slot once the window of slot id is destroyed: the next lower *)
(* slot with a window, if the window belonged to the active slot.          *)
ActiveAfter(id) ==
    LET lower == {i \in Slots : i < id /\ wnd[i]}
    IN  IF wnd[id] /\ active = id /\ lower # {}
        THEN CHOOSE i \in lower : \A j \in lower : j <= i
        ELSE active

(* The player of slot i reports PLAYER_STOPPING: PlayerEventHandler calls  *)
(* destroyPlayerWindow.                                                    *)
Stops(i) ==
    /\ st[i] \in Busy
    /\ st' = [st EXCEPT ![i] = "stopping"]
    /\ wnd' = [wnd EXCEPT ![i] = FALSE]
    /\ active' = ActiveAfter(i)
    /\ UNCHANGED <<made, multi, leaked>>

SetState(i, from, to) ==
    /\ st[i] \in from
    /\ st' = [st EXCEPT ![i] = to]
    /\ UNCHANGED <<made, wnd, active, multi, leaked>>

Started(i) == SetState(i, {"entry"}, "playing")
Fails(i)   == SetState(i, {"entry"}, "idle")
Ends(i)    == SetState(i, {"stopping"}, "idle")

(* method_stop: Stop() ends the player, at once or a little later (Stops). *)
(* method_pause toggles.  Without a player the call throws.                *)
HasActive == active \in made

StopActive == Stops(active) \/ UNCHANGED poolVars

PauseActive ==
    \/ SetState(active, {"playing"}, "paused")
    \/ SetState(active, {"paused"}, "playing")
    \/ st[active] \notin {"playing", "paused"} /\ UNCHANGED poolVars

(* setActiveId, if i is a slot at all.                                     *)
SetActive(i) ==
    /\ active' = IF i \in Slots THEN i ELSE active
    /\ UNCHANGED <<made, wnd, st, multi, leaked>>

(* A click on a video window makes its slot the active one.                *)
Click(i) == i \in Slots /\ wnd[i] /\ SetActive(i)

PlayerStep ==
    \E i \in Slots : Started(i) \/ Fails(i) \/ Stops(i) \/ Ends(i)

=============================================================================
