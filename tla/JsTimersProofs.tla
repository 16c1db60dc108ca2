--------------------------- MODULE JsTimersProofs ---------------------------
(***************************************************************************)
(* Proofs about JsTimersHistory, for every MaxTimers and every set of      *)
(* delays: type correctness, and the four promises to a script.            *)
(*                                                                         *)
(* IInv is the inductive invariant.  Beside the types it says why each     *)
(* promise holds: a cleared id and a timeout that returned are out of the  *)
(* map for good, because ids are never reused; the time since the last     *)
(* call and the time left until the next one add up to at least the delay; *)
(* and every queued microtask is for a key not yet visited in this pass.   *)
(***************************************************************************)
EXTENDS JsTimersHistory, TLAPS

Outcomes == {"none", "returned", "threw"}

HTypeOK ==
  /\ TypeOK
  /\ since \in [TimerIds -> Nat]
  /\ outcome \in [TimerIds -> Outcomes]
  /\ cleared \subseteq 1..(nextTimerId - 1)
  /\ unvisited \subseteq TimerIds

\* Nothing happened yet to an id that was not handed out.
FreshIds == \A id \in TimerIds : id >= nextTimerId => outcome[id] = "none"

ClearedGone == cleared \cap live = {}

ReturnedGone ==
  \A id \in TimerIds :
    ~timer[id].repeat /\ outcome[id] = "returned" => id \notin live

\* A timer without a delay is never due, so it is never called.
NaNNeverDue ==
  /\ \A id \in TimerIds : timer[id].delay = NaN => timer[id].due = NaN
  /\ running # NoTimer => timer[running].delay # NaN

\* The time left, counted from the last call, makes up the delay.
WaitsOut(id, left) ==
  timer[id].delay # NaN => left # NaN /\ since[id] + left >= timer[id].delay

Spaced ==
  /\ \A id \in TimerIds :
       timer[id].repeat /\ outcome[id] = "returned" /\ running # id
         => WaitsOut(id, timer[id].due)
  /\ running # NoTimer => WaitsOut(running, nextDue)

JobsUnvisited == jobs \subseteq unvisited

IInv ==
  /\ HTypeOK
  /\ FreshIds
  /\ ClearedGone
  /\ ReturnedGone
  /\ NaNNeverDue
  /\ Spaced
  /\ JobsUnvisited

-----------------------------------------------------------------------------
(***************************************************************************)
(* Types.                                                                  *)
(***************************************************************************)

\* A due time is a number of milliseconds or NaN, and stays one as time
\* passes: the arithmetic of setTimer and fire, which keeps NaN.
LEMMA TimeLeftType ==
  \A delay \in Delays \cup {0} : TimeLeft(delay) \in TimeLefts
  BY DelaysAssumption, NaNAssumption DEF TimeLeft, TimeLefts

\* The passing of a millisecond keeps a due time a due time.
LEMMA SoonerType == \A due \in TimeLefts : Sooner(due) \in TimeLefts
  BY NaNAssumption DEF Sooner, TimeLefts

\* Every step keeps the types.
LEMMA HTypeStep == HTypeOK /\ [HNext]_hvars => HTypeOK'
<1> SUFFICES ASSUME HTypeOK, [HNext]_hvars PROVE HTypeOK'
  OBVIOUS
<1> USE MaxTimersAssumption DEF HTypeOK, TypeOK, TimerIds, NoTimer, Outcomes
<1>1. ASSUME NEW delay \in Delays, NEW repeat \in BOOLEAN,
             HSetTimer(delay, repeat)
      PROVE  HTypeOK'
  <2>1. [delay |-> delay, due |-> TimeLeft(delay), repeat |-> repeat] \in Timer
    BY TimeLeftType DEF Timer
  <2>2. timer' \in [TimerIds -> Timer]
    BY <1>1, <2>1 DEF HSetTimer, SetTimer
  <2>3. /\ nextTimerId' \in 1..(MaxTimers + 1)
        /\ live' \subseteq 1..(nextTimerId' - 1)
    BY <1>1 DEF HSetTimer, SetTimer
  <2>4. nextTimerId \in Int /\ nextTimerId' = nextTimerId + 1
    BY <1>1 DEF HSetTimer, SetTimer
  <2>5. UNCHANGED <<jobs, running, nextDue, since, outcome, cleared, unvisited>>
    BY <1>1 DEF HSetTimer, SetTimer, history
  <2>6. 1..(nextTimerId - 1) \subseteq 1..(nextTimerId' - 1)
    BY <2>4
  <2>7. running' \in {NoTimer} \cup 1..(nextTimerId' - 1)
    BY <2>5, <2>6
  <2>8. /\ jobs' \subseteq 1..(nextTimerId' - 1)
        /\ cleared' \subseteq 1..(nextTimerId' - 1)
    BY <2>5, <2>6
  <2>9. /\ nextDue' \in TimeLefts
        /\ since' \in [TimerIds -> Nat]
        /\ outcome' \in [TimerIds -> Outcomes]
        /\ unvisited' \subseteq TimerIds
    BY <2>5
  <2> QED BY <2>2, <2>3, <2>7, <2>8, <2>9
<1>2. ASSUME NEW id \in TimerIds, HClearTimer(id) PROVE HTypeOK'
  BY <1>2 DEF HClearTimer, ClearTimer
<1>3. CASE HGlobalTimerCallback
  BY <1>3 DEF HGlobalTimerCallback, GlobalTimerCallback
<1>4. ASSUME NEW id \in TimerIds, HFireSkip(id) PROVE HTypeOK'
  BY <1>4 DEF HFireSkip, FireSkip, history
<1>5. ASSUME NEW id \in TimerIds, HFireCall(id) PROVE HTypeOK'
  <2>1. timer[id].delay \in Delays \cup {0}
    BY DEF Timer
  <2>2. nextDue' \in TimeLefts
    BY <1>5, <2>1, TimeLeftType DEF HFireCall, FireCall, DueAgain
  <2> QED BY <1>5, <2>2 DEF HFireCall, FireCall, NextJob
<1>6. CASE HReturn
  <2>1. timer \in [TimerIds -> Timer] /\ nextDue \in TimeLefts
    OBVIOUS
  <2>2. \A id \in TimerIds : [timer[id] EXCEPT !.due = nextDue] \in Timer
    BY <2>1 DEF Timer
  <2>3. \/ timer' = timer
        \/ timer' = [timer EXCEPT
                       ![running] = [timer[running] EXCEPT !.due = nextDue]]
    BY <1>6 DEF HReturn, IntervalReturn, TimeoutReturn
  <2>4. timer' \in [TimerIds -> Timer]
    BY <2>1, <2>2, <2>3
  <2> QED BY <1>6, <2>4 DEF HReturn, IntervalReturn, TimeoutReturn
<1>7. CASE HThrow
  BY <1>7 DEF HThrow, CallbackThrow
<1>8. CASE HAge
  <2>1. ASSUME NEW id \in TimerIds
        PROVE  [timer[id] EXCEPT !.due = Sooner(timer[id].due)] \in Timer
    BY SoonerType DEF Timer
  <2>2. timer' \in [TimerIds -> Timer]
    BY <1>8, <2>1 DEF HAge, Age
  <2>3. nextDue' \in TimeLefts
    BY <1>8, SoonerType DEF HAge, Age
  <2>4. since' \in [TimerIds -> Nat]
    BY <1>8 DEF HAge
  <2> QED BY <1>8, <2>2, <2>3, <2>4 DEF HAge, Age
<1>9. CASE UNCHANGED hvars
  BY <1>9 DEF hvars
<1> QED BY <1>1, <1>2, <1>3, <1>4, <1>5, <1>6, <1>7, <1>8, <1>9 DEF HNext

\* The empty map that isolate.js starts with has the types.
LEMMA HTypeInit == HInit => HTypeOK
  BY MaxTimersAssumption
  DEF HInit, Init, HTypeOK, TypeOK, TimerIds, NoTimer, Outcomes, Timer,
      TimeLefts, FirstTimerId

\* The history variables are typed too.
LEMMA HTypeCorrect == HSpec => []HTypeOK
  BY HTypeInit, HTypeStep, PTL DEF HSpec

\* Type correctness, for every number of timers and every set of delays.
THEOREM TypeCorrect == HSpec => []TypeOK
<1>1. HTypeOK => TypeOK
  BY DEF HTypeOK
<1> QED BY <1>1, HTypeCorrect, PTL

-----------------------------------------------------------------------------
(***************************************************************************)
(* The map: what left it stays out.                                        *)
(***************************************************************************)

\* The outcome of a call is written only for the timer that was running.
LEMMA FreshStep == HTypeOK /\ FreshIds /\ [HNext]_hvars => FreshIds'
<1> SUFFICES ASSUME HTypeOK, FreshIds, [HNext]_hvars PROVE FreshIds'
  OBVIOUS
<1> USE DEF FreshIds, HTypeOK, TypeOK, TimerIds, NoTimer
<1>1. ASSUME NEW delay \in Delays, NEW repeat \in BOOLEAN,
             HSetTimer(delay, repeat)
      PROVE  FreshIds'
  <2>1. nextTimerId \in Int /\ nextTimerId' = nextTimerId + 1
    BY <1>1, MaxTimersAssumption DEF HSetTimer, SetTimer
  <2>2. UNCHANGED outcome
    BY <1>1 DEF HSetTimer, history
  <2> QED BY <2>1, <2>2
<1>2. CASE HReturn
  <2>1. running < nextTimerId /\ UNCHANGED nextTimerId
    BY <1>2, MaxTimersAssumption DEF HReturn, IntervalReturn, TimeoutReturn
  <2>2. outcome' = [outcome EXCEPT ![running] = "returned"]
    BY <1>2 DEF HReturn
  <2> QED BY <2>1, <2>2
<1>3. CASE HThrow
  <2>1. running < nextTimerId /\ UNCHANGED nextTimerId
    BY <1>3, MaxTimersAssumption DEF HThrow, CallbackThrow
  <2>2. outcome' = [outcome EXCEPT ![running] = "threw"]
    BY <1>3 DEF HThrow
  <2> QED BY <2>1, <2>2
<1>4. ASSUME UNCHANGED <<nextTimerId, outcome>> PROVE FreshIds'
  BY <1>4
<1>5. ASSUME NEW id \in TimerIds, HClearTimer(id) \/ HFireSkip(id) \/ HFireCall(id)
      PROVE  UNCHANGED <<nextTimerId, outcome>>
  BY <1>5 DEF HClearTimer, ClearTimer, HFireSkip, FireSkip, HFireCall,
              FireCall, history
<1>6. HGlobalTimerCallback \/ HAge \/ UNCHANGED hvars
        => UNCHANGED <<nextTimerId, outcome>>
  BY DEF HGlobalTimerCallback, GlobalTimerCallback, HAge, Age, hvars
<1> QED BY <1>1, <1>2, <1>3, <1>4, <1>5, <1>6 DEF HNext

\* A key is added only under a fresh id, and no fresh id was ever cleared.
LEMMA ClearedGoneStep ==
  HTypeOK /\ ClearedGone /\ [HNext]_hvars => ClearedGone'
<1> SUFFICES ASSUME HTypeOK, ClearedGone, [HNext]_hvars PROVE ClearedGone'
  OBVIOUS
<1> USE DEF ClearedGone
<1>1. ASSUME NEW delay \in Delays, NEW repeat \in BOOLEAN,
             HSetTimer(delay, repeat)
      PROVE  ClearedGone'
  <2>1. nextTimerId \notin cleared
    BY MaxTimersAssumption DEF HTypeOK, TypeOK
  <2>2. live' = live \cup {nextTimerId} /\ UNCHANGED cleared
    BY <1>1 DEF HSetTimer, SetTimer, history
  <2> QED BY <2>1, <2>2
<1>2. ASSUME NEW id \in TimerIds, HClearTimer(id) PROVE ClearedGone'
  BY <1>2 DEF HClearTimer, ClearTimer
<1>3. ASSUME NEW id \in TimerIds, HFireSkip(id) \/ HFireCall(id)
      PROVE  ClearedGone'
  BY <1>3 DEF HFireSkip, FireSkip, HFireCall, FireCall, history
<1>4. CASE HReturn
  BY <1>4 DEF HReturn, IntervalReturn, TimeoutReturn
<1>5. CASE HGlobalTimerCallback \/ HThrow \/ HAge \/ UNCHANGED hvars
  BY <1>5 DEF HGlobalTimerCallback, GlobalTimerCallback, HThrow, CallbackThrow,
              HAge, Age, hvars
<1> QED BY <1>1, <1>2, <1>3, <1>4, <1>5 DEF HNext

\* A timeout is deleted in the step its call returns in; an id that is handed
\* out afterwards has no outcome yet.
LEMMA ReturnedGoneStep ==
  HTypeOK /\ FreshIds /\ ReturnedGone /\ [HNext]_hvars => ReturnedGone'
<1> SUFFICES ASSUME HTypeOK, FreshIds, ReturnedGone, [HNext]_hvars
             PROVE  ReturnedGone'
  OBVIOUS
<1> USE DEF ReturnedGone, HTypeOK, TypeOK
<1>1. ASSUME NEW delay \in Delays, NEW repeat \in BOOLEAN,
             HSetTimer(delay, repeat)
      PROVE  ReturnedGone'
  <2>1. outcome[nextTimerId] = "none" /\ nextTimerId \in TimerIds
    BY <1>1, MaxTimersAssumption DEF FreshIds, HSetTimer, SetTimer, TimerIds
  <2>2. \A id \in TimerIds : id # nextTimerId => timer'[id] = timer[id]
    BY <1>1 DEF HSetTimer, SetTimer
  <2>3. live' = live \cup {nextTimerId} /\ UNCHANGED outcome
    BY <1>1 DEF HSetTimer, SetTimer, history
  <2> QED BY <2>1, <2>2, <2>3
<1>2. ASSUME NEW id \in TimerIds, HClearTimer(id) PROVE ReturnedGone'
  BY <1>2 DEF HClearTimer, ClearTimer
<1>3. ASSUME NEW id \in TimerIds, HFireSkip(id) \/ HFireCall(id)
      PROVE  ReturnedGone'
  BY <1>3 DEF HFireSkip, FireSkip, HFireCall, FireCall, history
<1>4. CASE HReturn
  <2>1. outcome' = [outcome EXCEPT ![running] = "returned"]
    BY <1>4 DEF HReturn
  <2>2. CASE IntervalReturn
    <3>1. \A id \in TimerIds : timer'[id].repeat = timer[id].repeat
      BY <2>2 DEF IntervalReturn, Timer
    <3>2. timer[running].repeat /\ UNCHANGED live
      BY <2>2 DEF IntervalReturn
    <3> QED BY <2>1, <3>1, <3>2
  <2>3. CASE TimeoutReturn
    BY <2>1, <2>3 DEF TimeoutReturn
  <2> QED BY <1>4, <2>2, <2>3 DEF HReturn
<1>5. CASE HThrow
  BY <1>5 DEF HThrow, CallbackThrow
<1>6. CASE HAge
  <2>1. \A id \in TimerIds : timer'[id].repeat = timer[id].repeat
    BY <1>6 DEF HAge, Age, Timer
  <2> QED BY <1>6, <2>1 DEF HAge, Age
<1>7. CASE HGlobalTimerCallback \/ UNCHANGED hvars
  BY <1>7 DEF HGlobalTimerCallback, GlobalTimerCallback, hvars
<1> QED BY <1>1, <1>2, <1>3, <1>4, <1>5, <1>6, <1>7 DEF HNext

-----------------------------------------------------------------------------
(***************************************************************************)
(* The due times.                                                          *)
(***************************************************************************)

\* NaN stays NaN, through setTimer's addition and as time passes, and is never
\* due.
LEMMA NaNStep == HTypeOK /\ NaNNeverDue /\ [HNext]_hvars => NaNNeverDue'
<1> SUFFICES ASSUME HTypeOK, NaNNeverDue, [HNext]_hvars PROVE NaNNeverDue'
  OBVIOUS
<1> USE NaNAssumption DEF NaNNeverDue, HTypeOK, TypeOK
<1>1. ASSUME NEW delay \in Delays, NEW repeat \in BOOLEAN,
             HSetTimer(delay, repeat)
      PROVE  NaNNeverDue'
  <2>1. nextTimerId \in TimerIds /\ running' = running /\ running # nextTimerId
    BY <1>1, MaxTimersAssumption DEF HSetTimer, SetTimer, NoTimer, TimerIds
  <2>2. timer'[nextTimerId].delay = delay /\ timer'[nextTimerId].due = TimeLeft(delay)
    BY <1>1, <2>1 DEF HSetTimer, SetTimer
  <2>3. \A id \in TimerIds : id # nextTimerId => timer'[id] = timer[id]
    BY <1>1 DEF HSetTimer, SetTimer
  <2>4. running # NoTimer => running \in TimerIds
    BY MaxTimersAssumption DEF TimerIds, NoTimer
  <2>5. \A id \in TimerIds : timer'[id].delay = NaN => timer'[id].due = NaN
    BY <2>2, <2>3 DEF TimeLeft
  <2>6. running' # NoTimer => timer'[running'].delay # NaN
    BY <2>1, <2>3, <2>4
  <2> QED BY <2>5, <2>6
<1>2. ASSUME NEW id \in TimerIds, HClearTimer(id) \/ HFireSkip(id)
      PROVE  NaNNeverDue'
  BY <1>2 DEF HClearTimer, ClearTimer, HFireSkip, FireSkip, history
<1>3. ASSUME NEW id \in TimerIds, HFireCall(id) PROVE NaNNeverDue'
  <2>1. timer[id].due = 0 /\ 0 # NaN
    BY <1>3 DEF HFireCall, FireCall, MustCall, IsDue
  <2>2. running' = id /\ UNCHANGED timer
    BY <1>3 DEF HFireCall, FireCall
  <2> QED BY <2>1, <2>2
<1>4. CASE HReturn
  <2>1. running # NoTimer /\ running' = NoTimer
    BY <1>4 DEF HReturn, IntervalReturn, TimeoutReturn
  <2>2. \A id \in TimerIds :
          /\ timer'[id].delay = timer[id].delay
          /\ timer[id].delay = NaN => timer'[id].due = timer[id].due
    <3>1. CASE IntervalReturn
      BY <3>1 DEF IntervalReturn, Timer
    <3>2. CASE TimeoutReturn
      BY <3>2 DEF TimeoutReturn
    <3> QED BY <1>4, <3>1, <3>2 DEF HReturn
  <2> QED BY <2>1, <2>2
<1>5. CASE HAge
  <2>1. \A id \in TimerIds : /\ timer'[id].delay = timer[id].delay
                            /\ timer'[id].due = Sooner(timer[id].due)
    BY <1>5 DEF HAge, Age, Timer
  <2>2. UNCHANGED running
    BY <1>5 DEF HAge, Age
  <2>3. running # NoTimer => running \in TimerIds
    BY MaxTimersAssumption DEF TimerIds, NoTimer
  <2> QED BY <2>1, <2>2, <2>3 DEF Sooner
<1>6. CASE HGlobalTimerCallback \/ UNCHANGED hvars
  BY <1>6 DEF HGlobalTimerCallback, GlobalTimerCallback, hvars
<1>7. CASE HThrow
  BY <1>7 DEF HThrow, CallbackThrow
<1> QED BY <1>1, <1>2, <1>3, <1>4, <1>5, <1>6, <1>7 DEF HNext

\* A millisecond moves from what is left of the delay to what has passed.
LEMMA WaitsOutAge ==
  ASSUME NEW delay \in Int \cup {NaN}, NEW left \in TimeLefts,
         NEW passed \in Nat,
         delay # NaN => left # NaN /\ passed + left >= delay
  PROVE  delay # NaN =>
           /\ Sooner(left) # NaN
           /\ (IF passed < delay THEN passed + 1 ELSE passed) + Sooner(left)
                >= delay
  <1>1. CASE delay = NaN
    BY <1>1
  <1>2. CASE delay # NaN
    <2>1. left \in Nat /\ delay \in Int /\ passed + left >= delay
      BY <1>2 DEF TimeLefts
    <2>2. Sooner(left) = IF left = 0 THEN 0 ELSE left - 1
      BY <1>2 DEF Sooner
    <2> QED BY <2>1, <2>2, NaNAssumption
  <1> QED BY <1>1, <1>2

\* A call that begins puts the whole delay ahead of the next one.
LEMMA WaitsOutCall ==
  ASSUME NEW delay \in Int \cup {NaN}
  PROVE  delay # NaN => TimeLeft(delay) # NaN /\ TimeLeft(delay) >= delay
  BY NaNAssumption DEF TimeLeft

\* Every step keeps the sum of the time passed and the time left: fire computes
\* the next due time before it calls, and stores it after the call returned.
LEMMA SpacedStep ==
  HTypeOK /\ FreshIds /\ Spaced /\ [HNext]_hvars => Spaced'
<1> SUFFICES ASSUME HTypeOK, FreshIds, Spaced, [HNext]_hvars PROVE Spaced'
  OBVIOUS
<1> USE DEF HTypeOK, TypeOK
<1>0. running # NoTimer => running \in TimerIds /\ running < nextTimerId
  BY MaxTimersAssumption DEF TimerIds, NoTimer
<1>a. \A id \in TimerIds : timer[id].delay \in Int \cup {NaN}
  <2>1. \A id \in TimerIds : timer[id].delay \in Delays \cup {0}
    BY DEF Timer
  <2>2. Delays \cup {0} \subseteq Int \cup {NaN}
    BY DelaysAssumption
  <2> QED BY <2>1, <2>2, Zenon
<1>1. ASSUME NEW delay \in Delays, NEW repeat \in BOOLEAN,
             HSetTimer(delay, repeat)
      PROVE  Spaced'
  <2>1. nextTimerId \in TimerIds /\ outcome[nextTimerId] = "none"
    BY <1>1, MaxTimersAssumption DEF HSetTimer, SetTimer, FreshIds, TimerIds
  <2>2. \A id \in TimerIds : id # nextTimerId => timer'[id] = timer[id]
    BY <1>1 DEF HSetTimer, SetTimer
  <2>3. UNCHANGED <<running, nextDue, since, outcome>>
    BY <1>1 DEF HSetTimer, SetTimer, history
  <2>4. running # NoTimer => running # nextTimerId
    BY <1>0, MaxTimersAssumption
  <2>5. \A id \in TimerIds :
          timer'[id].repeat /\ outcome'[id] = "returned" /\ running' # id
            => WaitsOut(id, timer[id].due)' 
    BY <2>1, <2>2, <2>3 DEF Spaced, WaitsOut
  <2>6. running' # NoTimer => WaitsOut(running, nextDue)'
    BY <1>0, <2>2, <2>3, <2>4 DEF Spaced, WaitsOut
  <2> QED BY <2>5, <2>6 DEF Spaced
<1>2. CASE UNCHANGED <<timer, running, nextDue, since, outcome>>
  BY <1>2 DEF Spaced, WaitsOut
<1>3. ASSUME NEW id \in TimerIds, HClearTimer(id) \/ HFireSkip(id)
      PROVE  UNCHANGED <<timer, running, nextDue, since, outcome>>
  BY <1>3 DEF HClearTimer, ClearTimer, HFireSkip, FireSkip, history
<1>4. HGlobalTimerCallback \/ UNCHANGED hvars
        => UNCHANGED <<timer, running, nextDue, since, outcome>>
  BY DEF HGlobalTimerCallback, GlobalTimerCallback, hvars
<1>5. ASSUME NEW id \in TimerIds, HFireCall(id) PROVE Spaced'
  <2>1. /\ running = NoTimer
        /\ running' = id
        /\ nextDue' = TimeLeft(timer[id].delay)
        /\ since' = [since EXCEPT ![id] = 0]
        /\ UNCHANGED <<timer, outcome>>
    BY <1>5 DEF HFireCall, FireCall, NextJob, DueAgain
  <2>2. \A other \in TimerIds :
          timer'[other].repeat /\ outcome'[other] = "returned" /\ running' # other
            => WaitsOut(other, timer[other].due)'
    BY <2>1 DEF Spaced, WaitsOut, TimerIds, NoTimer
  <2>3. timer[id].delay # NaN
          => TimeLeft(timer[id].delay) # NaN
             /\ TimeLeft(timer[id].delay) >= timer[id].delay
    BY <1>a, WaitsOutCall
  <2>4. since'[running'] = 0 /\ TimeLeft(timer[id].delay) \in TimeLefts
    BY <2>1, TimeLeftType DEF Timer
  <2>5. WaitsOut(running, nextDue)'
    BY <2>1, <2>3, <2>4 DEF WaitsOut, TimeLefts
  <2> QED BY <2>2, <2>5 DEF Spaced
<1>6. CASE HReturn
  <2>1. /\ running \in TimerIds
        /\ running' = NoTimer
        /\ outcome' = [outcome EXCEPT ![running] = "returned"]
        /\ UNCHANGED since
    BY <1>0, <1>6 DEF HReturn, IntervalReturn, TimeoutReturn
  <2>2. CASE IntervalReturn
    <3>1. /\ timer'[running].due = nextDue
          /\ timer'[running].delay = timer[running].delay
          /\ \A id \in TimerIds : id # running => timer'[id] = timer[id]
      BY <2>1, <2>2 DEF IntervalReturn, Timer
    <3>2. ASSUME NEW id \in TimerIds, timer'[id].repeat, outcome'[id] = "returned"
          PROVE  WaitsOut(id, timer[id].due)'
      <4>1. CASE id = running
        <5>1. WaitsOut(running, nextDue)
          BY <2>1 DEF Spaced, TimerIds, NoTimer
        <5> QED BY <2>1, <3>1, <4>1, <5>1 DEF WaitsOut
      <4>2. CASE id # running
        <5>1. WaitsOut(id, timer[id].due)
          BY <2>1, <3>1, <3>2, <4>2 DEF Spaced
        <5> QED BY <2>1, <3>1, <4>2, <5>1 DEF WaitsOut
      <4> QED BY <4>1, <4>2
    <3> QED BY <2>1, <3>2 DEF Spaced
  <2>3. CASE TimeoutReturn
    <3>1. ~timer[running].repeat /\ UNCHANGED timer
      BY <2>3 DEF TimeoutReturn
    <3>2. ASSUME NEW id \in TimerIds, timer'[id].repeat, outcome'[id] = "returned"
          PROVE  WaitsOut(id, timer[id].due)'
      <4>1. WaitsOut(id, timer[id].due)
        BY <2>1, <3>1, <3>2 DEF Spaced
      <4> QED BY <2>1, <3>1, <4>1 DEF WaitsOut
    <3> QED BY <2>1, <3>2 DEF Spaced
  <2> QED BY <1>6, <2>2, <2>3 DEF HReturn
<1>7. CASE HThrow
  <2>1. /\ running \in TimerIds
        /\ running' = NoTimer
        /\ outcome' = [outcome EXCEPT ![running] = "threw"]
        /\ UNCHANGED <<since, timer>>
    BY <1>0, <1>7 DEF HThrow, CallbackThrow
  <2> QED BY <2>1 DEF Spaced, WaitsOut
<1>8. CASE HAge
  <2>1. /\ \A id \in TimerIds :
             /\ timer'[id].delay = timer[id].delay
             /\ timer'[id].repeat = timer[id].repeat
             /\ timer'[id].due = Sooner(timer[id].due)
             /\ timer[id].due \in TimeLefts
        /\ nextDue' = Sooner(nextDue)
        /\ UNCHANGED <<running, outcome>>
    BY <1>8 DEF HAge, Age, Timer
  <2>2. ASSUME NEW id \in TimerIds, NEW left \in TimeLefts, WaitsOut(id, left)
        PROVE  timer[id].delay # NaN =>
                 Sooner(left) # NaN /\ since'[id] + Sooner(left) >= timer[id].delay
    <3>1. since[id] \in Nat /\ timer[id].delay \in Int \cup {NaN}
      BY <1>a
    <3>2. timer[id].delay # NaN => since'[id] = IF since[id] < timer[id].delay
                        THEN since[id] + 1 ELSE since[id]
      BY <1>8 DEF HAge
    <3> QED BY <2>2, <3>1, <3>2, WaitsOutAge DEF WaitsOut
  <2>3. \A id \in TimerIds :
          timer'[id].repeat /\ outcome'[id] = "returned" /\ running' # id
            => WaitsOut(id, timer[id].due)'
    BY <2>1, <2>2 DEF Spaced, WaitsOut
  <2>4. running' # NoTimer => WaitsOut(running, nextDue)'
    BY <1>0, <2>1, <2>2 DEF Spaced, WaitsOut
  <2> QED BY <2>3, <2>4 DEF Spaced
<1> QED BY <1>1, <1>2, <1>3, <1>4, <1>5, <1>6, <1>7, <1>8 DEF HNext

-----------------------------------------------------------------------------
(***************************************************************************)
(* The invariant, and the promises that follow from it.                    *)
(***************************************************************************)

\* A pass starts with every queued key unvisited, and visits keys off both.
LEMMA JobsUnvisitedStep == JobsUnvisited /\ [HNext]_hvars => JobsUnvisited'
<1> SUFFICES ASSUME JobsUnvisited, [HNext]_hvars PROVE JobsUnvisited'
  OBVIOUS
<1> USE DEF JobsUnvisited
<1>1. ASSUME NEW delay \in Delays, NEW repeat \in BOOLEAN,
             HSetTimer(delay, repeat)
      PROVE  JobsUnvisited'
  BY <1>1 DEF HSetTimer, SetTimer, history
<1>2. ASSUME NEW id \in TimerIds,
             HClearTimer(id) \/ HFireSkip(id) \/ HFireCall(id)
      PROVE  JobsUnvisited'
  BY <1>2 DEF HClearTimer, ClearTimer, HFireSkip, FireSkip, HFireCall,
              FireCall, history
<1>3. CASE HGlobalTimerCallback
  BY <1>3 DEF HGlobalTimerCallback, GlobalTimerCallback
<1>4. CASE HReturn \/ HThrow \/ HAge \/ UNCHANGED hvars
  BY <1>4 DEF HReturn, IntervalReturn, TimeoutReturn, HThrow, CallbackThrow,
              HAge, Age, hvars
<1> QED BY <1>1, <1>2, <1>3, <1>4 DEF HNext

\* isolate.js starts with no timer, no microtask and no call on the stack.
LEMMA IInvInit == HInit => IInv
<1> SUFFICES ASSUME HInit PROVE IInv
  OBVIOUS
<1>1. HTypeOK
  BY HTypeInit
<1>2. FreshIds /\ ReturnedGone /\ ClearedGone /\ JobsUnvisited
  BY DEF HInit, Init, FreshIds, ReturnedGone, ClearedGone, JobsUnvisited
<1>3. NaNNeverDue /\ Spaced
  BY NaNAssumption DEF HInit, Init, NaNNeverDue, Spaced
<1> QED BY <1>1, <1>2, <1>3 DEF IInv

\* Each step keeps the inductive invariant.
LEMMA IInvStep == IInv /\ [HNext]_hvars => IInv'
  BY HTypeStep, FreshStep, ClearedGoneStep, ReturnedGoneStep, NaNStep,
     SpacedStep, JobsUnvisitedStep
  DEF IInv

\* The inductive invariant holds throughout, and with it the type invariant.
THEOREM Invariance == HSpec => []IInv
  BY IInvInit, IInvStep, PTL DEF HSpec

\* A step that begins a call of id is fire calling it.
LEMMA CallIsFireCall ==
  ASSUME HTypeOK, [HNext]_hvars, NEW id \in TimerIds, Calls(id)
  PROVE  HFireCall(id)
<1> USE DEF Calls
<1>0. id # NoTimer
  BY MaxTimersAssumption DEF TimerIds, NoTimer
<1>1. ASSUME NEW delay \in Delays, NEW repeat \in BOOLEAN,
             HSetTimer(delay, repeat)
      PROVE  FALSE
  BY <1>1 DEF HSetTimer, SetTimer
<1>2. ASSUME NEW other \in TimerIds, HClearTimer(other) \/ HFireSkip(other)
      PROVE  FALSE
  BY <1>2 DEF HClearTimer, ClearTimer, HFireSkip, FireSkip
<1>3. ASSUME NEW other \in TimerIds, HFireCall(other) PROVE HFireCall(id)
  <2>1. other = id
    BY <1>3 DEF HFireCall, FireCall
  <2> QED BY <1>3, <2>1
<1>4. CASE HGlobalTimerCallback \/ HReturn \/ HThrow \/ HAge \/ UNCHANGED hvars
  BY <1>0, <1>4 DEF HGlobalTimerCallback, GlobalTimerCallback, HReturn,
     IntervalReturn, TimeoutReturn, HThrow, CallbackThrow, HAge, Age, hvars
<1> QED BY <1>1, <1>2, <1>3, <1>4 DEF HNext

\* fire's test of the map, and the ids that left it, settle the first two.
THEOREM ClearedNeverCalledThm == HSpec => ClearedNeverCalled
<1>1. IInv /\ [HNext]_hvars
        => [\A id \in TimerIds : Calls(id) => id \notin cleared]_hvars
  BY CallIsFireCall
  DEF IInv, ClearedGone, HFireCall, FireCall, MustCall
<1> QED BY <1>1, Invariance, PTL DEF HSpec, ClearedNeverCalled

\* The fire that called a timeout and came back has deleted it, and fire's test
\* of the map stops every later one.
THEOREM TimeoutReturnsOnceThm == HSpec => TimeoutReturnsOnce
<1>1. IInv /\ [HNext]_hvars
        => [\A id \in TimerIds :
              Calls(id) /\ ~timer[id].repeat => outcome[id] # "returned"]_hvars
  BY CallIsFireCall
  DEF IInv, ReturnedGone, HFireCall, FireCall, MustCall
<1> QED BY <1>1, Invariance, PTL DEF HSpec, TimeoutReturnsOnce

\* A timer is called when nothing is left of its delay, so all of it passed.
THEOREM IntervalSpacingThm == HSpec => IntervalSpacing
<1>1. ASSUME IInv, [HNext]_hvars, NEW id \in TimerIds, Calls(id),
             timer[id].repeat, outcome[id] = "returned"
      PROVE  since[id] >= timer[id].delay
  <2>1. /\ timer[id].due = 0
        /\ running = NoTimer
        /\ NoTimer # id
    BY <1>1, CallIsFireCall, MaxTimersAssumption
    DEF IInv, HFireCall, FireCall, NextJob, MustCall, IsDue, TimerIds, NoTimer
  <2>2. timer[id].delay # NaN
    BY <1>1, <2>1, NaNAssumption DEF IInv, NaNNeverDue
  <2>3. WaitsOut(id, 0)
    BY <1>1, <2>1 DEF IInv, Spaced
  <2>4. since[id] \in Nat
    BY <1>1 DEF IInv, HTypeOK
  <2> QED BY <2>2, <2>3, <2>4 DEF WaitsOut
<1>2. IInv /\ [HNext]_hvars
        => [\A id \in TimerIds :
              /\ Calls(id)
              /\ timer[id].repeat
              /\ outcome[id] = "returned"
              => since[id] >= timer[id].delay]_hvars
  BY <1>1
<1> QED BY <1>2, Invariance, PTL DEF HSpec, IntervalSpacing

\* A call needs a microtask of this pass, and those are for unvisited keys.
THEOREM OneCallPerPassThm == HSpec => OneCallPerPass
<1>1. IInv /\ [HNext]_hvars
        => [\A id \in TimerIds : Calls(id) => id \in unvisited]_hvars
  BY CallIsFireCall
  DEF IInv, JobsUnvisited, HFireCall, FireCall, NextJob
<1> QED BY <1>1, Invariance, PTL DEF HSpec, OneCallPerPass

-----------------------------------------------------------------------------
(***************************************************************************)
(* JsTimers implements TimerContract.                                      *)
(***************************************************************************)

Statuses == [id \in TimerIds |-> Status(id)]
Repeats == [id \in TimerIds |-> timer[id].repeat]

\* The history variables only watch.
LEMMA HistoryWatches == [HNext]_hvars => [Next]_vars
<1> SUFFICES ASSUME [HNext]_hvars PROVE [Next]_vars
  OBVIOUS
<1>1. CASE HGlobalTimerCallback \/ HReturn \/ HThrow \/ HAge
  BY <1>1 DEF HGlobalTimerCallback, HReturn, HThrow, HAge, Next
<1>2. CASE \E id \in TimerIds : HClearTimer(id) \/ HFireSkip(id) \/ HFireCall(id)
  BY <1>2 DEF HClearTimer, HFireSkip, HFireCall, Next
<1>3. CASE \E delay \in Delays, repeat \in BOOLEAN : HSetTimer(delay, repeat)
  BY <1>3 DEF HSetTimer, Next
<1>4. CASE UNCHANGED hvars
  BY <1>4 DEF hvars, vars
<1> QED BY <1>1, <1>2, <1>3, <1>4 DEF HNext

\* A step that changes neither the map nor the ids changes no timer's status.
LEMMA SameStatuses ==
  UNCHANGED <<live, nextTimerId>> => UNCHANGED Statuses
  BY DEF Statuses, Status

\* The script sets a timer: the next id, which is unset until then.
LEMMA SetIsContract ==
  ASSUME TypeOK, NEW delay \in Delays, NEW repeat \in BOOLEAN,
         SetTimer(delay, repeat)
  PROVE  Contract!Set(nextTimerId, repeat)
<1> DEFINE new == nextTimerId
<1>1. /\ new \in TimerIds /\ new \in Int
      /\ nextTimerId' = new + 1
      /\ live' = live \cup {new}
      /\ timer' = [timer EXCEPT ![new] =
                     [delay |-> delay, due |-> TimeLeft(delay), repeat |-> repeat]]
      /\ UNCHANGED running
  BY MaxTimersAssumption DEF SetTimer, TimerIds
<1>2. live \subseteq 1..(new - 1) /\ timer \in [TimerIds -> Timer]
  BY DEF TypeOK
<1>3. Statuses[new] = "unset" /\ \A id \in 1..(new - 1) : Statuses[id] # "unset"
  BY <1>1, MaxTimersAssumption DEF Statuses, Status, TimerIds
<1>4. ASSUME NEW id \in TimerIds
      PROVE  Status(id)' = IF id = new THEN "set" ELSE Status(id)
  BY <1>1, <1>2 DEF Status, TimerIds
<1>5. Statuses' = [Statuses EXCEPT ![new] = "set"]
  BY <1>4 DEF Statuses
<1>6. Repeats' = [Repeats EXCEPT ![new] = repeat]
  BY <1>1, <1>2 DEF Repeats
<1> QED BY <1>1, <1>3, <1>5, <1>6 DEF Contract!Set, Statuses, Repeats

\* The other steps change at most one timer's status, or none.
LEMMA ContractStep ==
  TypeOK /\ [Next]_vars => [Contract!Next]_(Contract!vars)
<1> SUFFICES ASSUME TypeOK, [Next]_vars
             PROVE  Contract!Next \/ UNCHANGED <<Statuses, Repeats, running>>
  BY DEF Contract!vars, Statuses, Repeats
<1> USE DEF TypeOK
<1>0. /\ Contract!TimerIds = TimerIds
      /\ Contract!None = NoTimer
      /\ \A id \in live : id \in TimerIds /\ ~(id >= nextTimerId)
      /\ running # NoTimer => running \in TimerIds /\ ~(running >= nextTimerId)
  BY MaxTimersAssumption DEF Contract!TimerIds, TimerIds, Contract!None, NoTimer
<1>1. ASSUME NEW delay \in Delays, NEW repeat \in BOOLEAN,
             SetTimer(delay, repeat)
      PROVE  Contract!Next
  <2>1. nextTimerId \in TimerIds
    BY <1>1 DEF SetTimer
  <2> QED BY <1>0, <1>1, <2>1, SetIsContract DEF Contract!Next
<1>2. ASSUME NEW id \in TimerIds, ClearTimer(id) PROVE Contract!Next
  <2>1. id \in live /\ live' = live \ {id}
        /\ UNCHANGED <<timer, nextTimerId, running>>
    BY <1>2 DEF ClearTimer
  <2>2. Statuses[id] = "set" /\ Statuses' = [Statuses EXCEPT ![id] = "gone"]
    BY <1>0, <2>1 DEF Statuses, Status
  <2>3. Contract!Clear(id)
    BY <2>1, <2>2 DEF Contract!Clear, Statuses
  <2> QED BY <1>0, <2>3 DEF Contract!Next
<1>3. ASSUME NEW id \in TimerIds, FireCall(id) PROVE Contract!Next
  <2>1. /\ id \in live
        /\ running = NoTimer
        /\ running' = id
        /\ UNCHANGED <<live, timer, nextTimerId>>
    BY <1>3 DEF FireCall, NextJob, MustCall
  <2>2. Statuses[id] = "set" /\ UNCHANGED Statuses
    BY <1>0, <2>1, SameStatuses DEF Statuses, Status
  <2>3. Contract!Call(id)
    BY <1>0, <2>1, <2>2 DEF Contract!Call, Statuses
  <2> QED BY <1>0, <2>3 DEF Contract!Next
<1>4. CASE IntervalReturn
  <2>1. /\ running \in TimerIds /\ running' = NoTimer
        /\ timer[running].repeat
        /\ timer' = [timer EXCEPT ![running].due = nextDue]
        /\ UNCHANGED <<live, nextTimerId>>
    BY <1>0, <1>4 DEF IntervalReturn
  <2>2. UNCHANGED Repeats /\ Repeats[running]
    BY <2>1 DEF Repeats, Timer
  <2>3. Contract!Return(running)
    BY <1>0, <2>1, <2>2, SameStatuses DEF Contract!Return, Statuses, Repeats
  <2> QED BY <1>0, <2>1, <2>3 DEF Contract!Next
<1>5. CASE TimeoutReturn
  <2>1. /\ running \in TimerIds /\ running' = NoTimer
        /\ ~timer[running].repeat
        /\ live' = live \ {running}
        /\ UNCHANGED <<timer, nextTimerId>>
    BY <1>0, <1>5 DEF TimeoutReturn
  <2>2. Statuses' = [Statuses EXCEPT ![running] = "gone"]
    <3>1. ASSUME NEW id \in TimerIds
          PROVE  Status(id)' = IF id = running THEN "gone" ELSE Status(id)
      <4>1. id \in live' <=> id \in live /\ id # running
        BY <2>1
      <4>2. nextTimerId' = nextTimerId /\ ~(running >= nextTimerId)
        BY <1>0, <1>5, <2>1 DEF TimeoutReturn
      <4> QED BY <4>1, <4>2 DEF Status
    <3> QED BY <3>1 DEF Statuses
  <2>3. UNCHANGED Repeats /\ ~Repeats[running]
    BY <2>1 DEF Repeats
  <2>4. Contract!Return(running)
    BY <1>0, <2>1, <2>2, <2>3 DEF Contract!Return, Statuses, Repeats
  <2> QED BY <1>0, <2>1, <2>4 DEF Contract!Next
<1>6. CASE CallbackThrow
  <2>1. /\ running \in TimerIds /\ running' = NoTimer
        /\ UNCHANGED <<live, timer, nextTimerId>>
    BY <1>0, <1>6 DEF CallbackThrow
  <2>2. UNCHANGED <<Statuses, Repeats>>
    BY <2>1, SameStatuses DEF Repeats
  <2>3. Contract!Throw(running)
    BY <1>0, <2>1, <2>2 DEF Contract!Throw, Statuses, Repeats
  <2> QED BY <1>0, <2>1, <2>3 DEF Contract!Next
<1>7. CASE Age
  <2>1. UNCHANGED Repeats
    BY <1>7 DEF Age, Repeats, Timer
  <2> QED BY <1>7, <2>1, SameStatuses DEF Age
<1>8. CASE GlobalTimerCallback \/ UNCHANGED vars
           \/ \E id \in TimerIds : FireSkip(id)
  <2>1. UNCHANGED <<live, timer, nextTimerId, running>>
    BY <1>8 DEF GlobalTimerCallback, FireSkip, vars
  <2> QED BY <2>1, SameStatuses DEF Repeats
<1> HIDE DEF TypeOK
<1> QED BY <1>1, <1>2, <1>3, <1>4, <1>5, <1>6, <1>7, <1>8 DEF Next

\* No id is handed out yet, and no callback runs.
LEMMA ContractInit == Init => Contract!Init
  BY MaxTimersAssumption
  DEF Init, Contract!Init, Contract!TimerIds, TimerIds, Status, FirstTimerId,
      Contract!None, NoTimer

\* The script sees the contract's steps only, for every number of timers and
\* every set of delays.
THEOREM ImplementsTimerContractThm == HSpec => ImplementsTimerContract
<1>1. HInit => Contract!Init
  BY ContractInit DEF HInit
<1>2. TypeOK /\ [HNext]_hvars => [Contract!Next]_(Contract!vars)
  BY HistoryWatches, ContractStep
<1> QED
  BY <1>1, <1>2, TypeCorrect, PTL
  DEF HSpec, ImplementsTimerContract, Contract!Spec

\* What the contract is for: a timer that was cleared, or a timeout that
\* returned, is neither called nor set again, and no id is handed out twice.
THEOREM GoneForGoodThm == HSpec => Contract!GoneForGood
<1> DEFINE Stays ==
      \A id \in Contract!TimerIds :
        /\ Statuses[id] = "gone" => Statuses'[id] = "gone"
        /\ Statuses[id] = "gone" /\ running # id => running' # id
        /\ Statuses[id] # "unset" => Statuses'[id] # "unset"
<1>1. [Contract!Next]_(Contract!vars) => [Stays]_(Contract!vars)
  <2>1. ASSUME NEW id \in Contract!TimerIds, NEW repeat \in BOOLEAN,
               Contract!Set(id, repeat)
        PROVE  Stays
    BY <2>1 DEF Contract!Set, Statuses, Contract!TimerIds, TimerIds
  <2>2. ASSUME NEW id \in Contract!TimerIds,
               \/ Contract!Clear(id) \/ Contract!Call(id)
               \/ Contract!Return(id) \/ Contract!Throw(id)
        PROVE  Stays
    BY <2>2, MaxTimersAssumption
    DEF Contract!Clear, Contract!Call, Contract!Return, Contract!Throw,
        Statuses, Contract!TimerIds, TimerIds, Contract!None
  <2> HIDE DEF Stays
  <2> QED BY <2>1, <2>2 DEF Contract!Next
<1> QED
  BY <1>1, ImplementsTimerContractThm, PTL
  DEF ImplementsTimerContract, Contract!Spec, Contract!GoneForGood, Statuses
=============================================================================
