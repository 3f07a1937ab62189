------------------------------ MODULE Playback ------------------------------
(***************************************************************************)
(* Playback control, js/player.js and js/gui.js, over the players of       *)
(* module PlayerPool.                                                      *)
(*                                                                         *)
(* The user interface learns what the plug-in plays by polling: play()     *)
(* calls playLoop(), which reads the state of the active player and sets   *)
(* a timer that calls it again for as long as something plays; when        *)
(* nothing does it calls the stop callback, which moves the playlist on.   *)
(* The JavaScript thread runs one handler to its end, but the players and  *)
(* the video windows change state while it does: pc is where it has such   *)
(* a call behind it.  What the playlist (module Playlists) offers next is  *)
(* any file or none.  Flash movies and the TV pages are left out.          *)
(***************************************************************************)
EXTENDS PlayerPool

CONSTANT MaxTimers                  (* bound: timers pending at a time     *)

ASSUME MaxTimersAssumption == MaxTimers \in Nat

VARIABLES
    pc,        (* "idle"; in play(), "look": before it asks for the state   *)
               (* of the player, "loop": before its playLoop(); "replay":   *)
               (* between stop and startPlay                                *)
    mState,    (* m_playerState, what the UI believes                       *)
    playNext,  (* m_bPlayNext                                               *)
    timers,    (* playLoop timers pending; m_timerId is the last of them    *)
    dual,      (* dualmode                                                  *)
    stopped    (* history: the user pressed stop and has played nothing yet *)

uiVars == <<pc, mState, playNext, timers, dual, stopped>>
vars == <<poolVars, uiVars>>

Init ==
    /\ PoolInit
    /\ pc = "idle" /\ mState = "idle" /\ playNext = FALSE /\ timers = 0
    /\ dual \in BOOLEAN /\ stopped = FALSE

(* What startPlay may be given: a file for the player, a picture or local  *)
(* page, something else the player has no part in (an address, a disc that *)
(* is being transcoded), or nothing: the list has no current file.         *)
Types == {"file", "page", "other", "none"}

-----------------------------------------------------------------------------
(* The JavaScript functions.  believed is m_playerState so far, t is the   *)
(* number of timers pending.                                               *)

(* startPlay, with multiVideoMode set, so that it stops nothing first, and *)
(* for a file CPlayer.play up to the return of the plug-in's play().       *)
StartPlay(type, believed) ==
    /\ stopped' = (stopped /\ type = "none")
    /\ playNext' = IF type = "none" THEN playNext ELSE type # "page"
    /\ IF type = "file"
       THEN \E win \in BOOLEAN, s \in {"playing", "entry", "idle"} :
               Play(win, s) /\ pc' = "look"
       ELSE pc' = "idle" /\ UNCHANGED poolVars
    /\ mState' = believed

(* The rest of CPlayer.play: it gives up on a player that does not play    *)
(* yet, or no longer.                                                      *)
Look ==
    /\ pc = "look"
    /\ mState' = Info(active)
    /\ pc' = IF mState' = "playing" THEN "loop" ELSE "idle"
    /\ UNCHANGED <<poolVars, playNext, timers, dual, stopped>>

Polled(s) ==
    /\ mState' = s /\ pc' = "idle"
    /\ UNCHANGED <<poolVars, playNext, stopped>>

(* updatePlayerState, called because nothing plays: the next file.         *)
AutoNext == playNext /\ ~dual

(* playLoop when the state is s: it polls again later, or else lets the    *)
(* stop callback move on; left is the number of timers then.               *)
Loop(s, again, t, left) ==
    /\ IF again
       THEN Polled(s) /\ timers' = t + 1
       ELSE /\ timers' = left
            /\ IF AutoNext
               THEN \E type \in Types : StartPlay(type, s)
               ELSE Polled(s)
    /\ UNCHANGED dual

Over == {"stopping", "idle"}

(* Mutants: the state of the last poll decides; the first player is polled *)
(* whichever is the active one; the timer that has fired is cleared again. *)
PlayLoopStale(t) == Loop(Info(active), mState \notin Over, t, t)

PlayLoopFirst(t) == Loop(Info(0), Info(0) \notin Over, t, t)

PlayLoopClears(t) == Loop(Info(active), Info(active) \notin Over, t, t - 1)

(* It polls again unless the active player has stopped.  A state that the  *)
(* plug-in does not know ("none", a slot without a player) is no stop.     *)
PlayLoop(t) == Loop(Info(active), Info(active) \notin Over, t, t)

(* The call at the end of play(), and those of the timers.                 *)
FirstLoop == pc = "loop" /\ PlayLoop(timers)

TimerFires == pc = "idle" /\ timers > 0 /\ PlayLoop(timers - 1)

(* applyPlayerOptions, after mp.stop(): the file is played again.          *)
Replay ==
    /\ pc = "replay" /\ timers < MaxTimers
    /\ StartPlay("file", mState)
    /\ UNCHANGED <<timers, dual>>

-----------------------------------------------------------------------------
(* What the user does.                                                     *)

(* A file is chosen: a double click, play_cmd, next_cmd, prev_cmd, ...     *)
Choose(type) ==
    /\ pc = "idle" /\ timers < MaxTimers
    /\ StartPlay(type, mState)
    /\ UNCHANGED <<timers, dual>>

(* pause_cmd, and play_cmd when something plays; it throws if there is no  *)
(* active player.                                                          *)
PauseCmd ==
    /\ pc = "idle" /\ HasActive /\ PauseActive
    /\ UNCHANGED uiVars

(* Mutant: stop_cmd leaves auto-next as it is.                             *)
StopCmdKeepsNext ==
    /\ pc = "idle" /\ stopped' = TRUE
    /\ IF HasActive THEN StopActive ELSE UNCHANGED poolVars
    /\ UNCHANGED <<pc, mState, playNext, timers, dual>>

(* stop_cmd: auto-next is switched off before the call that may throw.     *)
StopCmd ==
    /\ pc = "idle" /\ stopped' = TRUE /\ playNext' = FALSE
    /\ IF HasActive THEN StopActive ELSE UNCHANGED poolVars
    /\ UNCHANGED <<pc, mState, timers, dual>>

(* applyPlayerOptions stops what plays and starts it again.                *)
ApplyOptions ==
    /\ pc = "idle" /\ mState = "playing" /\ timers < MaxTimers
    /\ HasActive /\ StopActive
    /\ pc' = "replay"
    /\ UNCHANGED <<mState, playNext, timers, dual, stopped>>

(* setActivePlayer.                                                        *)
SetActivePlayer(i) ==
    /\ SetActive(i)
    /\ mState' = IF mState = "playing" THEN Info(active') ELSE mState

(* switchPlayer and syncReplay, in dual mode: there is no auto-next then.  *)
SwitchPlayer(i) ==
    /\ pc = "idle" /\ dual /\ SetActivePlayer(i)
    /\ UNCHANGED <<pc, playNext, timers, dual, stopped>>

(* toggleDualMode: leaving it makes player 0 active, and then throws: the  *)
(* plug-in has no method exitDualMode.                                     *)
ToggleDual ==
    /\ pc = "idle" /\ dual' = ~dual
    /\ IF dual THEN SetActivePlayer(0) ELSE UNCHANGED <<poolVars, mState>>
    /\ UNCHANGED <<pc, playNext, timers, stopped>>

-----------------------------------------------------------------------------
Script == Look \/ FirstLoop \/ TimerFires \/ Replay

User ==
    \/ \E type \in Types : Choose(type)
    \/ PauseCmd \/ StopCmd \/ ApplyOptions \/ ToggleDual
    \/ \E i \in {0, 1} : SwitchPlayer(i)

(* The players' threads and the window procedure run beside the script.    *)
Plugin == (PlayerStep \/ \E i \in Slots : Click(i)) /\ UNCHANGED uiVars

Next == Script \/ User \/ Plugin

(* The call that is under way goes on; a timer that is set fires.          *)
Fairness ==
    /\ WF_vars(Look) /\ WF_vars(FirstLoop)
    /\ WF_vars(Replay) /\ WF_vars(TimerFires)

Spec == Init /\ [][Next]_vars /\ Fairness

-----------------------------------------------------------------------------
(* Properties.                                                             *)

(* Every variable has its type.                                            *)
TypeOK ==
    /\ PoolType
    /\ pc \in {"idle", "look", "loop", "replay"}
    /\ mState \in States \cup {"none"} /\ playNext \in BOOLEAN
    /\ timers \in Nat /\ dual \in BOOLEAN /\ stopped \in BOOLEAN

(* As long as the user interface shows that something plays, somebody is   *)
(* going to look again: the end of a file cannot be missed, whatever is    *)
(* played, paused, stopped and switched in between.  It does not hold of   *)
(* "paused": play() may find the active player gone and a paused one       *)
(* active in its place, and it starts to poll only for one that plays.     *)
PlayingIsWatched == mState = "playing" => timers > 0 \/ pc # "idle"

(* After the user pressed stop no timer starts a file, however many of     *)
(* them are pending and whatever the players do.                           *)
StopSticks == [][stopped /\ (FirstLoop \/ TimerFires) => stopped']_vars

(* Auto-next never takes a slot away from a video that still plays in its  *)
(* window, in dual mode, in multi-video mode and with every slot in use.   *)
NextSparesVideos ==
    [][FirstLoop \/ TimerFires =>
         \A i \in Slots : wnd[i] /\ st[i] \in Busy =>
                              wnd'[i] /\ st'[i] = st[i]]_vars

(* In multi-video mode no window is dropped while it exists, however many  *)
(* files are played, with or without a window and with every slot taken.   *)
NoWindowLost == multi => ~leaked

(* When the video the user controls closes and one in a lower slot is      *)
(* still there, the controls act on a video again.                         *)
ControlMovesDown ==
    [][\A i \in Slots :
          i = active /\ wnd[i] /\ ~wnd'[i] /\ st'[i] = "stopping"
            /\ (\E j \in Slots : j < i /\ wnd[j])
          => active' \in Slots /\ wnd'[active']]_vars

(* The user interface does not go on for ever taking something for playing *)
(* that no longer plays.                                                   *)
EndIsNoticed == []<>(mState = "playing" => Info(active) = "playing")

=============================================================================
