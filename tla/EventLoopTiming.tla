-------------------------- MODULE EventLoopTiming ---------------------------
(***************************************************************************)
(* How late, and how early, the event loop calls a timer.  The loop sleeps *)
(* for the least delay in the map, not until the first due time, and a     *)
(* timer that is set does not shorten a sleep that is running.  The Sleep  *)
(* counts elapsed time, but due times are values of Date.now(), a wall     *)
(* clock: here somebody may set it back or forth at any moment.            *)
(*                                                                         *)
(* Computing takes no time: time passes only while the thread is parked    *)
(* and nothing woke it, so that whatever is late is late by the code's own *)
(* schedule.  Times left are signed here, below 0 once they are past.      *)
(***************************************************************************)
EXTENDS EventLoop

CONSTANT MaxStep    \* bound on the milliseconds the clock is set, each way

ASSUME MaxStepAssumption == MaxStep \in Nat

\* ToUint32 changes a delay outside this range: then the sleep is arbitrary, and
\* nothing can be said of how late a timer is.
DelaysFit == Delays \subseteq 0..(Uint32Mod - 1) \cup {NaN}

VARIABLES
  back,        \* milliseconds the clock was set back, in all
  forth,       \* milliseconds the clock was set forth, in all
  wall,        \* the time left to a timer's due time, on the wall clock
  wallNext,    \* the same of fire's local const due, while a callback runs
  ideal,       \* the time left to a timer, on a clock that nobody sets
  inherited    \* what was left of the sleep that ran when a reaction set it

clockVars == <<back, forth, wall, wallNext>>
timingVars == <<vars, clockVars, ideal, inherited>>

TimingInit ==
  /\ Init
  /\ back = 0
  /\ forth = 0
  /\ wall = [id \in T!TimerIds |-> 0]
  /\ wallNext = 0
  /\ ideal = [id \in T!TimerIds |-> 0]
  /\ inherited = [id \in T!TimerIds |-> 0]

\* A time further past than the clock can still be set back is past for good.
Later(timeLeft) ==
  IF timeLeft = NaN \/ timeLeft <= -MaxStep THEN timeLeft ELSE timeLeft - 1

TimedTick ==
  /\ pc = "parked"
  /\ ~woken
  /\ ~(sleepState = "armed" /\ sleep = 0)
  /\ Tick
  /\ wall' = [id \in T!TimerIds |-> Later(wall[id])]
  /\ ideal' = [id \in T!TimerIds |->
                 IF id \in live /\ ideal[id] # NaN THEN ideal[id] - 1
                 ELSE ideal[id]]
  /\ UNCHANGED <<back, forth, wallNext, inherited>>

TimedSetTimer(delay, repeat) ==
  /\ SetTimer(delay, repeat)
  /\ wall' = [wall EXCEPT ![nextTimerId] = delay]
  /\ ideal' = [ideal EXCEPT ![nextTimerId] = delay]
  /\ inherited' = [inherited EXCEPT ![nextTimerId] =
                     IF phase = "resolving" /\ sleepState = "armed"
                     THEN sleep ELSE 0]
  /\ UNCHANGED <<back, forth, wallNext>>

TimedFireCall(id) ==
  /\ FireCall(id)
  /\ wallNext' = nextDue'
  /\ UNCHANGED <<back, forth, wall, ideal, inherited>>

\* An interval starts over when its callback returns.  One whose callback
\* throws keeps its due time: it is to be called again at once.
TimedCallbackEnd ==
  /\ \/ /\ T!IntervalReturn
        /\ wall' = [wall EXCEPT ![running] = wallNext]
        /\ ideal' = [ideal EXCEPT ![running] = timer[running].delay]
     \/ /\ T!TimeoutReturn \/ T!CallbackThrow
        /\ ideal' = [ideal EXCEPT ![running] = 0]
        /\ UNCHANGED wall
  /\ wallNext' = 0
  /\ inherited' = [inherited EXCEPT ![running] = 0]
  /\ UNCHANGED <<opVars, sleepVars, pc, back, forth>>

\* Somebody sets the clock: every time left on it grows by ms, or shrinks.
\* Only the timers in the map, and what fire has computed, are compared with
\* it again.
SetClock(ms) ==
  /\ back' = IF ms > 0 THEN back + ms ELSE back
  /\ forth' = IF ms < 0 THEN forth - ms ELSE forth
  /\ back' <= MaxStep /\ forth' <= MaxStep
  /\ LET Moved(timeLeft) == IF timeLeft = NaN THEN NaN ELSE timeLeft + ms
     IN  /\ wall' = [id \in T!TimerIds |->
                       IF id \in live THEN Moved(wall[id]) ELSE wall[id]]
         /\ timer' = [id \in T!TimerIds |->
                        IF id \in live
                        THEN [timer[id] EXCEPT !.due = T!TimeLeft(wall'[id])]
                        ELSE timer[id]]
         /\ wallNext' = IF running = T!NoTimer THEN 0 ELSE Moved(wallNext)
         /\ nextDue' = IF running = T!NoTimer THEN nextDue
                       ELSE T!TimeLeft(wallNext')
  /\ UNCHANGED <<live, nextTimerId, jobs, running, opVars, sleepVars, pc,
                 ideal, inherited>>

\* Every other step takes no time.
Untimed ==
  /\ \/ \E id \in T!TimerIds : ClearTimer(id)
     \/ \E validUrl \in BOOLEAN : Fetch(validUrl)
     \/ ScriptEnd
     \/ PollBegin
     \/ PollOps
     \/ PollSleepPending
     \/ PollSleepReady
     \/ \E id \in T!TimerIds : FireSkip(id)
     \/ Reset
     \/ Elapse
     \/ NetworkStep
  /\ UNCHANGED <<clockVars, ideal, inherited>>

TimingNext ==
  \/ TimedTick
  \/ \E delay \in Delays, repeat \in BOOLEAN : TimedSetTimer(delay, repeat)
  \/ \E id \in T!TimerIds : TimedFireCall(id)
  \/ TimedCallbackEnd
  \/ \E ms \in -MaxStep..MaxStep \ {0} : SetClock(ms)
  \/ Untimed

TimingSpec == TimingInit /\ [][TimingNext]_timingVars

-----------------------------------------------------------------------------
\* A timer in the map is never overdue by more than its own delay, unless a
\* reaction to a fetch set it during a sleep that outlasts it: then what was
\* left of that sleep is the bound.  A clock that is set back adds what it is
\* set back by, and no more (isolate.rs:81-88, 243-255, 339-345).
LatenessBound ==
  \A id \in live :
    timer[id].delay # NaN =>
      \/ -ideal[id] <= timer[id].delay + back
      \/ -ideal[id] <= inherited[id] - timer[id].delay

\* Nor is a timer called earlier than its delay asks for, by more than the
\* clock was set forth: not an interval after a long callback, nor a timer
\* that a pass finds which began for another one (isolate.rs:250-263, 330-336).
NeverEarly ==
  [][\A id \in T!TimerIds :
       running # id /\ running' = id => ideal[id] <= forth]_timingVars
=============================================================================
