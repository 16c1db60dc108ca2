----------------------------- MODULE EventLoop ------------------------------
(***************************************************************************)
(* The event loop of app/rust: one thread runs Isolate::poll               *)
(* (runtime/isolate.rs) under tokio's block_on (runtime/event_loop.rs).    *)
(* It composes the timers (JsTimers) and the operations (FetchOps) with    *)
(* what they share: the thread, and one Sleep.  A poll takes at most one   *)
(* completed operation, then polls the Sleep; when the Sleep is ready it   *)
(* calls globalTimerCallback and resets the Sleep to the smallest delay of *)
(* the timers in the map.  Nothing else ever resets it.                    *)
(*                                                                         *)
(* External: tokio 1.12.0.  A poll of a Sleep first stores the waker, then *)
(* looks at the state, so that a Sleep that was Ready keeps its waker over *)
(* a reset.  The first poll arms it.  The driver fires elapsed Sleeps each *)
(* time the thread parks, and the thread parks between two polls.          *)
(***************************************************************************)
EXTENDS Integers, Sequences, FiniteSets

CONSTANTS
  Delays, NaN, MaxTimers,    \* of JsTimers
  MaxPromises,               \* of FetchOps
  Uint32Mod,                 \* 2^32, scaled down
  MaxSafeInteger             \* Number.MAX_SAFE_INTEGER, scaled down

ASSUME TimersAssumption ==
  MaxTimers \in Nat /\ NaN \notin Int /\ Delays \subseteq Int \cup {NaN}
\* 2^53 - 1 is 2^32 - 1 modulo 2^32.
ASSUME Uint32ModAssumption == Uint32Mod \in Nat /\ Uint32Mod >= 2
ASSUME MaxSafeIntegerAssumption ==
  MaxSafeInteger \in Nat /\ MaxSafeInteger % Uint32Mod = Uint32Mod - 1

VARIABLES
  live, timer, nextTimerId, jobs, running, nextDue,
  promiseTable, nextPromiseId, op, readyQ, opsWaker, woken,
  haveUnpolledOps, phase, polled, resolving,
  pc,           \* where the thread is in the loop
  sleep,        \* milliseconds left until the Sleep's deadline
  sleepState,   \* "new" until its first poll, then "armed" or "fired"
  sleepWaker    \* the Sleep holds the isolate's waker

timerVars == <<live, timer, nextTimerId, jobs, running, nextDue>>
opVars == <<promiseTable, nextPromiseId, op, readyQ, opsWaker, woken,
            haveUnpolledOps, phase, polled, resolving>>
sleepVars == <<sleep, sleepState, sleepWaker>>
vars == <<timerVars, opVars, sleepVars, pc>>

T == INSTANCE JsTimers
F == INSTANCE FetchOps

\* Mutant: a delay is taken as it is.
ToInt(number) == IF number = NaN THEN 0 ELSE number

\* JavaScript's ToUint32, of a number or NaN.
ToUint32(number) == IF number = NaN THEN 0 ELSE number % Uint32Mod

LiveDelays == {timer[id].delay : id \in live}

\* Mutant: a later timer's delay overwrites the minimum.
MinTimeoutLast ==
  IF NaN \in LiveDelays THEN NaN
  ELSE IF live = {} THEN MaxSafeInteger
  ELSE LET last == CHOOSE id \in live : \A other \in live : other <= id
       IN  timer[last].delay

\* The function given to $newGlobalTimer: the least delay in the map.  One
\* NaN makes Math.min return NaN.
MinTimeout ==
  IF NaN \in LiveDelays THEN NaN
  ELSE CHOOSE least \in LiveDelays \cup {MaxSafeInteger} :
         \A delay \in LiveDelays \cup {MaxSafeInteger} : least <= delay

-----------------------------------------------------------------------------
\* Isolate::new, then execute is about to run the script.
Init ==
  /\ T!Init
  /\ F!Init
  /\ pc = "script"
  /\ sleep = 0
  /\ sleepState = "new"
  /\ sleepWaker = FALSE

\* JavaScript runs in the script, in a pass over the timers, and in the
\* reactions to a promise that an operation resolves.
UserCodeRuns ==
  /\ T!UserCodeRuns
  /\ pc \in {"script", "pass"} \/ phase = "resolving"

SetTimer(delay, repeat) ==
  /\ UserCodeRuns
  /\ T!SetTimer(delay, repeat)
  /\ UNCHANGED <<opVars, sleepVars, pc>>

ClearTimer(id) ==
  /\ UserCodeRuns
  /\ T!ClearTimer(id)
  /\ UNCHANGED <<opVars, sleepVars, pc>>

\* Mutant: the future is pushed to the copy of the isolate that set_deno_data
\* was given the address of, before the isolate was moved.
FetchStale(validUrl) ==
  /\ UserCodeRuns
  /\ nextPromiseId \in F!PromiseIds
  /\ nextPromiseId' = nextPromiseId + 1
  /\ promiseTable' = promiseTable \cup {nextPromiseId}
  /\ op' = [op EXCEPT ![nextPromiseId] = "unsent"]
  /\ UNCHANGED <<readyQ, opsWaker, woken, haveUnpolledOps, phase, polled,
                 resolving, timerVars, sleepVars, pc>>

Fetch(validUrl) ==
  /\ UserCodeRuns
  /\ F!Fetch(validUrl)
  /\ UNCHANGED <<timerVars, sleepVars, pc>>

\* The script ends, or throws and eval_script's TryCatch catches it; the
\* isolate is awaited.
ScriptEnd ==
  /\ pc = "script"
  /\ pc' = "parked"
  /\ UNCHANGED <<timerVars, opVars, sleepVars>>

\* block_on polls the isolate once its waker was called.
PollBegin ==
  /\ pc = "parked"
  /\ F!PollBegin
  /\ pc' = "ops"
  /\ UNCHANGED <<timerVars, sleepVars>>

\* A step of the loop over pending_ops; once it breaks, the Sleep is polled.
PollOps ==
  /\ pc = "ops"
  /\ F!PollNext \/ F!ResolveDone
  /\ pc' = IF phase' = "idle" THEN "sleep" ELSE "ops"
  /\ UNCHANGED <<timerVars, sleepVars>>

\* The Sleep is Pending: the poll ends.
PollSleepPending ==
  /\ pc = "sleep"
  /\ sleepState # "fired"
  /\ sleepState' = "armed"
  /\ sleepWaker' = TRUE
  /\ pc' = "parked"
  /\ UNCHANGED <<timerVars, opVars, sleep>>

\* The Sleep is Ready: invoke_timer_callback begins its pass over the timers.
PollSleepReady ==
  /\ pc = "sleep"
  /\ sleepState = "fired"
  /\ T!GlobalTimerCallback
  /\ sleepWaker' = TRUE
  /\ pc' = "pass"
  /\ UNCHANGED <<opVars, sleep, sleepState>>

FireSkip(id) ==
  /\ pc = "pass"
  /\ T!FireSkip(id)
  /\ UNCHANGED <<opVars, sleepVars, pc>>

FireCall(id) ==
  /\ pc = "pass"
  /\ T!FireCall(id)
  /\ UNCHANGED <<opVars, sleepVars, pc>>

\* Mutant: a throw leaves the loop over the map, and the rest of the pass.
CallbackEndLeavesPass ==
  /\ running # T!NoTimer
  /\ running' = T!NoTimer
  /\ jobs' = {}
  /\ UNCHANGED <<live, timer, nextTimerId, nextDue, opVars, sleepVars, pc>>

CallbackEnd ==
  /\ T!IntervalReturn \/ T!TimeoutReturn \/ T!CallbackThrow
  /\ UNCHANGED <<opVars, sleepVars, pc>>

\* Mutant: the Sleep is reset only when the map is not empty.
ResetIfNeeded ==
  /\ pc = "pass"
  /\ jobs = {}
  /\ running = T!NoTimer
  /\ IF live = {} THEN UNCHANGED <<sleep, sleepState>>
     ELSE sleep' = ToUint32(MinTimeout) /\ sleepState' = "armed"
  /\ pc' = "parked"
  /\ UNCHANGED <<timerVars, opVars, sleepWaker>>

\* Mutant: the Sleep is made anew, and nobody polls it.
ResetNew ==
  /\ pc = "pass"
  /\ jobs = {}
  /\ running = T!NoTimer
  /\ sleep' = ToUint32(MinTimeout)
  /\ sleepState' = "new"
  /\ sleepWaker' = FALSE
  /\ pc' = "parked"
  /\ UNCHANGED <<timerVars, opVars>>

\* The pass is over: Isolate::reset, and the poll ends.
Reset ==
  /\ pc = "pass"
  /\ jobs = {}
  /\ running = T!NoTimer
  /\ sleep' = ToUint32(MinTimeout)
  /\ sleepState' = "armed"
  /\ pc' = "parked"
  /\ UNCHANGED <<timerVars, opVars, sleepWaker>>

\* The driver finds the Sleep elapsed and calls its waker.
Elapse ==
  /\ pc = "parked"
  /\ sleepState = "armed"
  /\ sleep = 0
  /\ sleepState' = "fired"
  /\ sleepWaker' = FALSE
  /\ woken' = (woken \/ sleepWaker)
  /\ UNCHANGED <<timerVars, promiseTable, nextPromiseId, op, readyQ, opsWaker,
                 haveUnpolledOps, phase, polled, resolving, sleep, pc>>

\* The runtime runs the connection's task on the same thread.
Reply(id, answer) ==
  /\ pc = "parked"
  /\ F!Reply(id, answer)
  /\ UNCHANGED <<timerVars, sleepVars, pc>>

Progress(id) ==
  /\ F!Progress(id)
  /\ UNCHANGED <<timerVars, sleepVars, pc>>

\* A millisecond passes, whatever the thread is doing.
Tick ==
  /\ T!Age
  /\ sleep' = T!Sooner(sleep)
  /\ UNCHANGED <<opVars, sleepState, sleepWaker, pc>>

UserStep ==
  \/ \E delay \in Delays, repeat \in BOOLEAN : SetTimer(delay, repeat)
  \/ \E id \in T!TimerIds : ClearTimer(id)
  \/ \E validUrl \in BOOLEAN : Fetch(validUrl)

LoopStep ==
  \/ ScriptEnd
  \/ PollBegin
  \/ PollOps
  \/ PollSleepPending
  \/ PollSleepReady
  \/ \E id \in T!TimerIds : FireSkip(id)
  \/ \E id \in T!TimerIds : FireCall(id)
  \/ CallbackEnd
  \/ Reset

NetworkStep ==
  \/ \E id \in F!PromiseIds, answer \in F!Answers : Reply(id, answer)
  \/ \E id \in F!PromiseIds : Progress(id)

Next ==
  \/ UserStep
  \/ LoopStep
  \/ Elapse
  \/ NetworkStep
  \/ Tick

Spec == Init /\ [][Next]_vars

\* The thread keeps running and time passes.  Elapse is enabled only while
\* the thread is parked, which wakes may cut short again and again, but the
\* driver looks at the Sleep at every park: hence strong fairness.  Nothing
\* is assumed of the network.
Fairness ==
  /\ WF_vars(LoopStep)
  /\ SF_vars(Elapse)
  /\ WF_vars(Tick)

FairSpec == Spec /\ Fairness

-----------------------------------------------------------------------------
\* Type invariant, with what ties the thread's place to the components.
TypeOK ==
  /\ pc \in {"script", "parked", "ops", "sleep", "pass"}
  /\ sleep \in 0..(Uint32Mod - 1)
  /\ sleepState \in {"new", "armed", "fired"}
  /\ sleepWaker \in BOOLEAN
  /\ phase \in {"polling", "resolving"} => pc = "ops"
  /\ pc = "ops" => phase # "idle"
  /\ jobs # {} \/ running # T!NoTimer => pc = "pass"

\* Whenever the thread is parked with nothing to do, the Sleep is armed and
\* will wake it: every poll that found the Sleep Ready reset it, and the reset
\* kept the waker although the poll returned without polling it again
\* (isolate.rs:426-433).
SleepNeverDies ==
  pc = "parked" /\ ~woken => sleepState = "armed" /\ sleepWaker

\* Seen from the operations, the loop takes only the steps that FetchOps allows, and
\* is as fair: a fetch from a callback or from a reaction is pushed like the
\* script's, the Sleep disturbs nothing but woken, and a thread with nothing to
\* do is woken in the end (fetch.rs:36-44, isolate.rs:409-434).
ImplementsFetchOps == F!FairSpec

\* A timer with a delay that is a number is called in the end, or leaves the
\* map, although the Sleep is not reset when a timer is set; only a body with a
\* NUL byte, which ends the process, excuses it (isolate.rs:237-248, 426-433, fetch.rs:27).
TimersServed ==
  \A id \in T!TimerIds :
    id \in live /\ timer[id].delay # NaN
      ~> running = id \/ id \notin live \/ F!NulArrived
=============================================================================
