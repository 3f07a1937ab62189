-------------------------- MODULE Playback_proofs --------------------------
(* Theorems about Playback, for any number of players and timers.          *)
EXTENDS Playback, DataLemmas, TLAPS

-----------------------------------------------------------------------------
(* Which slot is played in, and which is active when a window closes.      *)

(* The slot that is played in.                                             *)
LEMMA TargetIsFree ==
    ASSUME multi, Free # {}
    PROVE  Target \in Free
<1>1. Free \subseteq Nat
  BY MaxPlayersAssumption DEF Free, Slots
<1>2. \E x \in Free : \A y \in Free : x <= y
  BY <1>1, HasLeast
<1> QED BY <1>2 DEF Target

LEMMA TargetIsSlot ==
    ASSUME PoolType, multi /\ Free = {} => active \in Slots
    PROVE  Target \in Slots
<1>1. 0 \in Slots
  BY MaxPlayersAssumption DEF Slots
<1>2. CASE ~multi
  BY <1>1, <1>2 DEF Target
<1>3. CASE multi /\ Free = {}
  BY <1>3 DEF Target
<1>4. CASE multi /\ Free # {}
  BY <1>4, TargetIsFree DEF Free
<1> QED BY <1>2, <1>3, <1>4

(* The slot that becomes active when the window of slot id closes.         *)
LEMMA ActiveMovesDown ==
    ASSUME NEW id \in Slots, active = id, wnd[id],
           \E j \in Slots : j < id /\ wnd[j]
    PROVE  ActiveAfter(id) \in Slots /\ ActiveAfter(id) < id /\ wnd[ActiveAfter(id)]
<1> DEFINE lower == {i \in Slots : i < id /\ wnd[i]}
<1>1. id \in Nat /\ lower \subseteq 0 .. id /\ lower # {}
  BY MaxPlayersAssumption DEF Slots
<1>2. \E x \in lower : \A y \in lower : y <= x
  <2> HIDE DEF lower
  <2> QED BY <1>1, HasGreatest
<1>3. ActiveAfter(id) = CHOOSE i \in lower : \A j \in lower : j <= i
  BY <1>1 DEF ActiveAfter
<1>4. (CHOOSE i \in lower : \A j \in lower : j <= i) \in lower
  <2> HIDE DEF lower
  <2> QED BY <1>2
<1> QED BY <1>3, <1>4

LEMMA ActiveAfterType ==
    ASSUME NEW id \in Slots, PoolType
    PROVE  /\ ActiveAfter(id) \in Slots \cup {-1}
           /\ active # -1 => ActiveAfter(id) # -1
<1>1. CASE active = id /\ wnd[id] /\ \E j \in Slots : j < id /\ wnd[j]
  <2>1. ActiveAfter(id) \in Slots
    BY <1>1, ActiveMovesDown
  <2> QED BY <2>1, MaxPlayersAssumption DEF Slots
<1>2. CASE ~(active = id /\ wnd[id] /\ \E j \in Slots : j < id /\ wnd[j])
  <2>1. ActiveAfter(id) = active
    BY <1>2 DEF ActiveAfter
  <2> QED BY <2>1 DEF PoolType
<1> QED BY <1>1, <1>2

-----------------------------------------------------------------------------
(* The inductive invariant.                                                *)

(* Only players that exist have windows, there is an active one as soon as *)
(* there is any, and without multi-video mode there is only the first.     *)
PoolInv ==
    /\ PoolType
    /\ \A i \in Slots : wnd[i] => i \in made
    /\ active = -1 => made = {}
    /\ ~multi => made \subseteq {0}

StopInv == stopped => ~playNext

IInv == TypeOK /\ PoolInv /\ PlayingIsWatched /\ StopInv /\ NoWindowLost

-----------------------------------------------------------------------------
(* The plug-in's operations keep PoolInv.                                  *)

LEMMA PlayKeeps ==
    ASSUME PoolInv, NoWindowLost, NEW win \in BOOLEAN,
           NEW s \in {"playing", "entry", "idle"}, Play(win, s)
    PROVE  PoolInv' /\ NoWindowLost'
<1> DEFINE i == Target
<1>1. 0 \in Slots /\ -1 \notin Slots
  BY MaxPlayersAssumption DEF Slots
<1>2. multi /\ Free = {} => active \in Slots
  BY <1>1 DEF Free, PoolInv, PoolType
<1>3. i \in Slots
  BY <1>2, TargetIsSlot DEF PoolInv
<1>4. ~multi => i = 0
  BY DEF Target
<1> HIDE DEF i
<1>5. /\ made' = made \cup {i} /\ active' = i /\ multi' = multi
      /\ st' = [st EXCEPT ![i] = s]
      /\ wnd' = [wnd EXCEPT ![i] = IF ~multi \/ Free # {} THEN win ELSE @]
      /\ leaked' = (leaked \/ ((~multi \/ Free # {}) /\ win /\ wnd[i]))
  BY DEF Play, i
<1>6. PoolType'
  <2>1. st' \in [Slots -> States] /\ wnd' \in [Slots -> BOOLEAN]
    BY <1>3, <1>5 DEF PoolInv, PoolType, States, Busy
  <2> QED BY <1>3, <1>5, <2>1 DEF PoolInv, PoolType
<1>7. \A j \in Slots : wnd'[j] => j \in made'
  BY <1>3, <1>5 DEF PoolInv, PoolType
<1>8. PoolInv'
  BY <1>1, <1>3, <1>4, <1>5, <1>6, <1>7 DEF PoolInv
<1>9. multi /\ Free # {} => ~wnd[i]
  BY TargetIsFree DEF Free, i
<1> QED BY <1>5, <1>8, <1>9 DEF NoWindowLost

LEMMA StopsKeeps ==
    ASSUME PoolInv, NEW i \in Slots, Stops(i)
    PROVE  PoolInv' /\ leaked' = leaked /\ multi' = multi
<1>1. active' \in Slots \cup {-1} /\ (active # -1 => active' # -1)
  BY ActiveAfterType DEF Stops, PoolInv
<1>2. PoolType'
  BY <1>1 DEF Stops, PoolInv, PoolType, States
<1> QED BY <1>1, <1>2 DEF Stops, PoolInv, PoolType

LEMMA SetStateKeeps ==
    ASSUME PoolInv, NEW i \in Slots, NEW from, NEW to \in States,
           SetState(i, from, to)
    PROVE  PoolInv' /\ leaked' = leaked /\ multi' = multi
BY DEF SetState, PoolInv, PoolType

LEMMA SetActiveKeeps ==
    ASSUME PoolInv, NEW i, SetActive(i)
    PROVE  PoolInv' /\ leaked' = leaked /\ multi' = multi
<1>1. -1 \notin Slots
  BY MaxPlayersAssumption DEF Slots
<1> QED BY <1>1 DEF SetActive, PoolInv, PoolType

LEMMA PoolUnchanged ==
    ASSUME PoolInv, UNCHANGED poolVars
    PROVE  PoolInv' /\ leaked' = leaked /\ multi' = multi
BY DEF poolVars, PoolInv, PoolType

(* What the script makes the active player do, and what the players do.    *)
LEMMA StopActiveKeeps ==
    ASSUME PoolInv, HasActive, StopActive
    PROVE  PoolInv' /\ leaked' = leaked /\ multi' = multi
<1>1. active \in Slots
  BY DEF HasActive, PoolInv, PoolType
<1> QED BY <1>1, StopsKeeps, PoolUnchanged DEF StopActive

LEMMA PauseActiveKeeps ==
    ASSUME PoolInv, HasActive, PauseActive
    PROVE  PoolInv' /\ leaked' = leaked /\ multi' = multi
<1>1. active \in Slots
  BY DEF HasActive, PoolInv, PoolType
<1>2. {"playing", "paused"} \subseteq States
  BY DEF States, Busy
<1> QED BY <1>1, <1>2, SetStateKeeps, PoolUnchanged DEF PauseActive

LEMMA PluginKeeps ==
    ASSUME PoolInv, Plugin
    PROVE  PoolInv' /\ leaked' = leaked /\ multi' = multi
<1>1. {"playing", "idle"} \subseteq States
  BY DEF States, Busy
<1>2. CASE PlayerStep
  BY <1>1, <1>2, SetStateKeeps, StopsKeeps DEF PlayerStep, Started, Fails, Ends
<1>3. CASE \E i \in Slots : Click(i)
  BY <1>3, SetActiveKeeps DEF Click
<1> QED BY <1>2, <1>3 DEF Plugin

LEMMA InfoType ==
    ASSUME PoolInv, NEW i
    PROVE  Info(i) \in States \cup {"none"}
BY DEF Info, PoolInv, PoolType

-----------------------------------------------------------------------------
(* The script's functions.                                                 *)

(* startPlay leaves the pool and what is shown as they should be; the rest *)
(* of play() follows for a file; and auto-next is switched on only for     *)
(* something that is then played.                                          *)
LEMMA StartPlayKeeps ==
    ASSUME TypeOK, PoolInv, NoWindowLost, StopInv, NEW type \in Types,
           NEW believed \in States \cup {"none"}, StartPlay(type, believed)
    PROVE  /\ PoolInv' /\ NoWindowLost' /\ StopInv'
           /\ pc' = IF type = "file" THEN "look" ELSE "idle"
           /\ mState' = believed /\ playNext' \in BOOLEAN /\ stopped' \in BOOLEAN
<1>1. StopInv' /\ playNext' \in BOOLEAN /\ stopped' \in BOOLEAN
  BY DEF StartPlay, StopInv, TypeOK
<1>2. CASE type = "file"
  <2>1. PICK win \in BOOLEAN, s \in {"playing", "entry", "idle"} :
            Play(win, s) /\ pc' = "look"
    BY <1>2 DEF StartPlay
  <2>2. PoolInv' /\ NoWindowLost'
    BY <2>1, PlayKeeps
  <2> QED BY <1>1, <1>2, <2>1, <2>2 DEF StartPlay
<1>3. CASE type # "file"
  <2>1. mState' = believed /\ pc' = "idle" /\ UNCHANGED poolVars
    BY <1>3 DEF StartPlay
  <2>2. PoolInv' /\ leaked' = leaked /\ multi' = multi
    BY <2>1, PoolUnchanged
  <2> QED BY <1>1, <1>3, <2>1, <2>2 DEF NoWindowLost
<1> QED BY <1>2, <1>3

LEMMA PlayLoopKeeps ==
    ASSUME IInv, NEW t \in Nat, PlayLoop(t)
    PROVE  IInv'
<1> DEFINE s == Info(active)
<1>1. s \in States \cup {"none"}
  BY InfoType DEF IInv
<1> HIDE DEF s
<1>2. Loop(s, s \notin Over, t, t)
  BY DEF PlayLoop, s
<1>3. CASE Polled(s) /\ timers' = IF s \notin Over THEN t + 1 ELSE t
  <2>1. PoolInv' /\ leaked' = leaked /\ multi' = multi
    BY <1>3, PoolUnchanged DEF Polled, IInv
  <2>2. mState' = s /\ pc' = "idle" /\ dual' = dual /\ UNCHANGED <<playNext, stopped>>
    BY <1>2, <1>3 DEF Polled, Loop
  <2>3. TypeOK'
    BY <1>1, <1>3, <2>1, <2>2 DEF IInv, TypeOK, PoolInv
  <2>4. PlayingIsWatched'
    BY <1>3, <2>2 DEF PlayingIsWatched, Over
  <2> QED BY <2>1, <2>2, <2>3, <2>4 DEF IInv, StopInv, NoWindowLost
<1>4. CASE /\ s \in Over /\ timers' = t /\ dual' = dual
           /\ \E type \in Types : StartPlay(type, s)
  <2>1. PICK type \in Types : StartPlay(type, s)
    BY <1>4
  <2>2. /\ PoolInv' /\ NoWindowLost' /\ StopInv'
        /\ pc' \in {"look", "idle"} /\ mState' = s
        /\ playNext' \in BOOLEAN /\ stopped' \in BOOLEAN
    BY <1>1, <2>1, StartPlayKeeps DEF IInv
  <2>3. TypeOK'
    BY <1>1, <1>4, <2>2 DEF IInv, TypeOK, PoolInv
  <2>4. PlayingIsWatched'
    BY <1>4, <2>2 DEF PlayingIsWatched, Over
  <2> QED BY <2>2, <2>3, <2>4 DEF IInv
<1> QED BY <1>2, <1>3, <1>4 DEF Loop

(* A file that is chosen, or played again.                                 *)
LEMMA ChosenKeeps ==
    ASSUME IInv, NEW type \in Types, StartPlay(type, mState),
           UNCHANGED <<timers, dual>>, pc = "idle" \/ type = "file"
    PROVE  IInv'
<1>1. mState \in States \cup {"none"}
  BY DEF IInv, TypeOK
<1>2. /\ PoolInv' /\ NoWindowLost' /\ StopInv'
      /\ pc' = IF type = "file" THEN "look" ELSE "idle"
      /\ mState' = mState /\ playNext' \in BOOLEAN /\ stopped' \in BOOLEAN
  BY <1>1, StartPlayKeeps DEF IInv
<1>3. TypeOK'
  BY <1>1, <1>2 DEF IInv, TypeOK, PoolInv
<1>4. PlayingIsWatched'
  BY <1>2 DEF PlayingIsWatched, IInv
<1> QED BY <1>2, <1>3, <1>4 DEF IInv

(* play() shows that something plays only if it goes on to playLoop().     *)
LEMMA LookKeeps ==
    ASSUME IInv, Look
    PROVE  IInv'
<1>1. PoolInv' /\ leaked' = leaked /\ multi' = multi
  BY PoolUnchanged DEF Look, IInv
<1>2. Info(active) \in States \cup {"none"}
  BY InfoType DEF IInv
<1>3. TypeOK'
  BY <1>1, <1>2 DEF Look, IInv, TypeOK, PoolInv
<1>4. PlayingIsWatched'
  BY DEF Look, PlayingIsWatched
<1> QED BY <1>1, <1>3, <1>4 DEF Look, IInv, StopInv, NoWindowLost

LEMMA SetActivePlayerKeeps ==
    ASSUME IInv, NEW i, SetActivePlayer(i),
           UNCHANGED <<pc, playNext, timers, stopped>>, dual' \in BOOLEAN
    PROVE  IInv'
<1>1. PoolInv' /\ leaked' = leaked /\ multi' = multi
  BY SetActiveKeeps DEF SetActivePlayer, IInv
<1>2. Info(active') \in States \cup {"none"}
  BY InfoType DEF IInv
<1>3. TypeOK'
  BY <1>1, <1>2 DEF SetActivePlayer, IInv, TypeOK, PoolInv
<1>4. PlayingIsWatched'
  BY DEF SetActivePlayer, IInv, PlayingIsWatched
<1> QED BY <1>1, <1>3, <1>4 DEF IInv, StopInv, NoWindowLost

(* A step that leaves the script's variables alone, but for pc.            *)
LEMMA PoolStepKeeps ==
    ASSUME IInv, PoolInv', leaked' = leaked, multi' = multi,
           UNCHANGED <<mState, timers, dual>>,
           pc' \in {pc, "replay"}, stopped' \in BOOLEAN, playNext' \in BOOLEAN,
           stopped' => ~playNext'
    PROVE  IInv'
<1>1. TypeOK'
  BY DEF IInv, TypeOK, PoolInv
<1>2. PlayingIsWatched'
  BY DEF IInv, PlayingIsWatched
<1> QED BY <1>1, <1>2 DEF IInv, StopInv, NoWindowLost

-----------------------------------------------------------------------------
(* The invariant.                                                          *)

LEMMA InitIInv == Init => IInv
<1> SUFFICES ASSUME Init PROVE IInv
  OBVIOUS
<1>1. "idle" \in States
  BY DEF States
<1>2. PoolType
  BY <1>1 DEF Init, PoolInit, PoolType
<1>3. PoolInv
  BY <1>2 DEF Init, PoolInit, PoolInv
<1>4. TypeOK
  BY <1>1, <1>2 DEF Init, TypeOK
<1> QED BY <1>3, <1>4 DEF Init, PoolInit, IInv, PlayingIsWatched, StopInv, NoWindowLost

LEMMA NextIInv == IInv /\ [Next]_vars => IInv'
<1> SUFFICES ASSUME IInv, [Next]_vars PROVE IInv'
  OBVIOUS
<1>1. CASE FirstLoop
  BY <1>1, PlayLoopKeeps DEF FirstLoop, IInv, TypeOK
<1>2. CASE TimerFires
  <2>1. timers - 1 \in Nat
    BY <1>2 DEF TimerFires, IInv, TypeOK
  <2> QED BY <1>2, <2>1, PlayLoopKeeps DEF TimerFires
<1>3. CASE Replay
  <2>1. "file" \in Types
    BY DEF Types
  <2> QED BY <1>3, <2>1, ChosenKeeps DEF Replay
<1>4. ASSUME NEW type \in Types, Choose(type) PROVE IInv'
  BY <1>4, ChosenKeeps DEF Choose
<1>5. CASE PauseCmd
  <2>1. PoolInv' /\ leaked' = leaked /\ multi' = multi
    BY <1>5, PauseActiveKeeps DEF PauseCmd, IInv
  <2> QED BY <1>5, <2>1, PoolStepKeeps DEF PauseCmd, uiVars, IInv, TypeOK, StopInv
<1>6. CASE StopCmd
  <2>1. PoolInv' /\ leaked' = leaked /\ multi' = multi
    BY <1>6, StopActiveKeeps, PoolUnchanged DEF StopCmd, IInv
  <2> QED BY <1>6, <2>1, PoolStepKeeps DEF StopCmd
<1>7. CASE ApplyOptions
  <2>1. PoolInv' /\ leaked' = leaked /\ multi' = multi
    BY <1>7, StopActiveKeeps DEF ApplyOptions, IInv
  <2> QED BY <1>7, <2>1, PoolStepKeeps DEF ApplyOptions, IInv, TypeOK, StopInv
<1>8. CASE ToggleDual
  <2>1. CASE dual
    BY <1>8, <2>1, SetActivePlayerKeeps DEF ToggleDual
  <2>2. CASE ~dual
    <3>1. PoolInv' /\ leaked' = leaked /\ multi' = multi
      BY <1>8, <2>2, PoolUnchanged DEF ToggleDual, IInv
    <3>2. TypeOK'
      BY <1>8, <2>2, <3>1 DEF ToggleDual, IInv, TypeOK, PoolInv
    <3> QED BY <1>8, <2>2, <3>1, <3>2
            DEF ToggleDual, IInv, PlayingIsWatched, StopInv, NoWindowLost
  <2> QED BY <2>1, <2>2
<1>9. ASSUME NEW i \in {0, 1}, SwitchPlayer(i) PROVE IInv'
  BY <1>9, SetActivePlayerKeeps DEF SwitchPlayer, IInv, TypeOK
<1>10. CASE Plugin
  <2>1. PoolInv' /\ leaked' = leaked /\ multi' = multi
    BY <1>10, PluginKeeps DEF IInv
  <2> QED BY <1>10, <2>1, PoolStepKeeps DEF Plugin, uiVars, IInv, TypeOK, StopInv
<1>11. CASE UNCHANGED vars
  <2>1. PoolInv' /\ leaked' = leaked /\ multi' = multi
    BY <1>11, PoolUnchanged DEF vars, IInv
  <2> QED BY <1>11, <2>1, PoolStepKeeps DEF vars, uiVars, IInv, TypeOK, StopInv
<1>12. CASE Look
  BY <1>12, LookKeeps
<1> QED BY <1>1, <1>2, <1>3, <1>4, <1>5, <1>6, <1>7, <1>8, <1>9, <1>10, <1>11, <1>12
        DEF Next, Script, User

(* The strengthened invariant holds at every moment.                       *)
THEOREM Invariance == Spec => []IInv
<1>1. Init => IInv
  BY InitIInv
<1>2. IInv /\ [Next]_vars => IInv'
  BY NextIInv
<1> QED BY <1>1, <1>2, PTL DEF Spec

(* Every variable has its type, and no count of timers goes below zero.    *)
THEOREM TypeCorrect == Spec => []TypeOK
<1>1. IInv => TypeOK
  BY DEF IInv
<1> QED BY <1>1, Invariance, PTL

(* As long as the user interface shows that something plays, playLoop is   *)
(* going to look again.                                                    *)
THEOREM Watched == Spec => []PlayingIsWatched
<1>1. IInv => PlayingIsWatched
  BY DEF IInv
<1> QED BY <1>1, Invariance, PTL

(* createPlayer in multi-video mode never overwrites the window of a slot, *)
(* however many slots there are.                                           *)
THEOREM WindowsKept == Spec => []NoWindowLost
<1>1. IInv => NoWindowLost
  BY DEF IInv
<1> QED BY <1>1, Invariance, PTL

-----------------------------------------------------------------------------
(* What a step may not do.                                                 *)

LEMMA StopSticksStep ==
    IInv /\ [Next]_vars => [stopped /\ (FirstLoop \/ TimerFires) => stopped']_vars
<1> SUFFICES ASSUME IInv, stopped, FirstLoop \/ TimerFires PROVE stopped'
  OBVIOUS
<1>1. PICK t : PlayLoop(t)
  BY DEF FirstLoop, TimerFires
<1>2. ~AutoNext
  BY DEF AutoNext, IInv, StopInv
<1> QED BY <1>1, <1>2 DEF PlayLoop, Loop, Polled

(* No timer starts a file once the user has pressed stop.                  *)
THEOREM StopHolds == Spec => StopSticks
<1>1. IInv /\ [Next]_vars => [stopped /\ (FirstLoop \/ TimerFires) => stopped']_vars
  BY StopSticksStep
<1> QED BY <1>1, Invariance, PTL DEF Spec, StopSticks

(* The slot auto-next plays in has no window, or its player has stopped.   *)
LEMMA NextTakesIdleSlot ==
    ASSUME IInv, Info(active) \in Over
    PROVE  /\ Target \in Slots
           /\ ~wnd[Target] \/ st[Target] \notin Busy
<1>1. "none" \notin Over /\ Over \cap Busy = {}
  BY DEF Over, Busy
<1>2. active \in made /\ st[active] \notin Busy
  BY <1>1 DEF Info
<1>3. active \in Slots
  BY <1>2 DEF IInv, PoolInv, PoolType
<1>4. Target \in Slots
  BY <1>3, TargetIsSlot DEF IInv, PoolInv
<1>5. CASE ~multi
  BY <1>2, <1>4, <1>5 DEF Target, IInv, PoolInv
<1>6. CASE multi /\ Free = {}
  BY <1>2, <1>4, <1>6 DEF Target
<1>7. CASE multi /\ Free # {}
  BY <1>7, TargetIsFree DEF Free
<1> QED BY <1>4, <1>5, <1>6, <1>7

Spares ==
    FirstLoop \/ TimerFires =>
        \A i \in Slots : wnd[i] /\ st[i] \in Busy => wnd'[i] /\ st'[i] = st[i]

LEMMA SparesStep == IInv /\ [Next]_vars => [Spares]_vars
<1> SUFFICES ASSUME IInv, FirstLoop \/ TimerFires,
                    NEW i \in Slots, wnd[i], st[i] \in Busy
             PROVE  wnd'[i] /\ st'[i] = st[i]
  BY DEF Spares
<1>1. PICK t : PlayLoop(t)
  BY DEF FirstLoop, TimerFires
<1>2. CASE UNCHANGED poolVars
  BY <1>2 DEF poolVars
<1>3. CASE \E win \in BOOLEAN, s \in {"playing", "entry", "idle"} : Play(win, s)
  <2>1. CASE Info(active) \notin Over
    BY <1>1, <2>1 DEF PlayLoop, Loop, Polled, poolVars
  <2>2. CASE Info(active) \in Over
    <3> DEFINE k == Target
    <3>1. k \in Slots /\ k # i
      BY <2>2, NextTakesIdleSlot
    <3> HIDE DEF k
    <3>2. PICK win \in BOOLEAN, s \in {"playing", "entry", "idle"} :
              /\ wnd' = [wnd EXCEPT ![k] = IF ~multi \/ Free # {} THEN win ELSE @]
              /\ st' = [st EXCEPT ![k] = s]
      BY <1>3 DEF Play, k
    <3> QED BY <3>1, <3>2 DEF IInv, PoolInv, PoolType
  <2> QED BY <2>1, <2>2
<1> QED BY <1>1, <1>2, <1>3 DEF PlayLoop, Loop, Polled, StartPlay

(* Auto-next takes no slot from a video that still plays, for any number   *)
(* of slots and with all of them in use.                                   *)
THEOREM VideosSpared == Spec => NextSparesVideos
<1>1. IInv /\ [Next]_vars => [Spares]_vars
  BY SparesStep
<1>2. Spec => [][Spares]_vars
  BY <1>1, Invariance, PTL DEF Spec
<1> QED BY <1>2 DEF NextSparesVideos, Spares

MovesDown ==
    \A i \in Slots :
        i = active /\ wnd[i] /\ ~wnd'[i] /\ st'[i] = "stopping"
          /\ (\E j \in Slots : j < i /\ wnd[j])
        => active' \in Slots /\ wnd'[active']

LEMMA StopsMovesDown ==
    ASSUME PoolInv, NEW k \in Slots, Stops(k)
    PROVE  MovesDown
<1> SUFFICES ASSUME NEW i \in Slots, i = active, wnd[i], ~wnd'[i],
                    \E j \in Slots : j < i /\ wnd[j]
             PROVE  active' \in Slots /\ wnd'[active']
  BY DEF MovesDown
<1>1. k = i
  BY DEF Stops, PoolInv, PoolType
<1>2. /\ ActiveAfter(i) \in Slots /\ ActiveAfter(i) < i
      /\ wnd[ActiveAfter(i)]
  BY ActiveMovesDown
<1>3. ActiveAfter(i) # i
  BY <1>2, MaxPlayersAssumption DEF Slots
<1> QED BY <1>1, <1>2, <1>3 DEF Stops, PoolInv, PoolType

LEMMA PlayNotStopping ==
    ASSUME PoolInv, NEW win, NEW s \in {"playing", "entry", "idle"}, Play(win, s)
    PROVE  \A i \in Slots : wnd[i] /\ ~wnd'[i] => st'[i] # "stopping"
<1> DEFINE k == Target
<1> HIDE DEF k
<1>1. /\ wnd' = [wnd EXCEPT ![k] = IF ~multi \/ Free # {} THEN win ELSE @]
      /\ st' = [st EXCEPT ![k] = s]
  BY DEF Play, k
<1> QED BY <1>1 DEF PoolInv, PoolType

LEMMA MovesDownStep == IInv /\ [Next]_vars => [MovesDown]_vars
<1> SUFFICES ASSUME IInv, Next PROVE MovesDown
  BY DEF IInv
<1>1. PoolInv
  BY DEF IInv
<1>2. CASE wnd' = wnd
  BY <1>2 DEF MovesDown
<1>3. CASE \E win \in BOOLEAN, s \in {"playing", "entry", "idle"} : Play(win, s)
  BY <1>1, <1>3, PlayNotStopping DEF MovesDown
<1>4. CASE \E k \in Slots : Stops(k)
  BY <1>1, <1>4, StopsMovesDown
<1> DEFINE Cause ==
      \/ wnd' = wnd
      \/ \E k \in Slots : Stops(k)
      \/ \E win \in BOOLEAN, s \in {"playing", "entry", "idle"} : Play(win, s)
<1>5. Cause
  <2>1. ASSUME NEW type, NEW b, StartPlay(type, b) PROVE Cause
    BY <2>1 DEF StartPlay, poolVars
  <2>2. ASSUME NEW t, PlayLoop(t) PROVE Cause
    BY <2>1, <2>2 DEF PlayLoop, Loop, Polled, poolVars
  <2>3. ASSUME HasActive, StopActive PROVE Cause
    BY <1>1, <2>3 DEF StopActive, HasActive, PoolInv, PoolType, poolVars
  <2>4. CASE Script
    BY <2>1, <2>2, <2>4 DEF Script, Look, FirstLoop, TimerFires, Replay, poolVars
  <2>5. CASE User
    BY <2>1, <2>3, <2>5 DEF User, Choose, PauseCmd, PauseActive, SetState, StopCmd,
       ApplyOptions, ToggleDual, SwitchPlayer, SetActivePlayer, SetActive, poolVars
  <2>6. CASE Plugin
    BY <2>6 DEF Plugin, PlayerStep, Started, Fails, Ends, SetState, Click, SetActive
  <2> QED BY <2>4, <2>5, <2>6 DEF Next
<1> QED BY <1>2, <1>3, <1>4, <1>5

(* When the video the user controls closes and a lower slot still shows    *)
(* one, the controls act on a video again, for any number of slots.        *)
THEOREM ControlKept == Spec => ControlMovesDown
<1>1. IInv /\ [Next]_vars => [MovesDown]_vars
  BY MovesDownStep
<1>2. Spec => [][MovesDown]_vars
  BY <1>1, Invariance, PTL DEF Spec
<1> QED BY <1>2 DEF ControlMovesDown, MovesDown

=============================================================================
