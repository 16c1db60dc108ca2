------------------------------ MODULE JsTimers ------------------------------
(***************************************************************************)
(* The JavaScript timers of app/rust/src/runtime/isolate.rs: the script    *)
(* isolate.js keeps a Map timerMap from timer ids to timer objects;        *)
(* setTimeout and setInterval add to it, clearTimeout and clearInterval    *)
(* delete from it, and the native side calls globalTimerCallback each time *)
(* its one Sleep elapses.  globalTimerCallback does not run the timers: it *)
(* queues one microtask fire(id) for every key the map has at that moment, *)
(* and the microtasks run one after the other before the native call       *)
(* returns.  A timer's callback is user code: it may set and clear timers, *)
(* itself included, return, or throw.                                      *)
(*                                                                         *)
(* Time is relative.  A due time is kept as the milliseconds left until it *)
(* (0 from then on), and Age lets one millisecond pass, between any two    *)
(* steps.  Only the comparison "due <= Date.now()" reads a due time, so    *)
(* nothing is lost, and the state stays finite over unbounded time.  The   *)
(* wall clock runs forward here; in EventLoopTiming it may be set.         *)
(***************************************************************************)
EXTENDS Integers

CONSTANTS
  Delays,      \* the delays scripts pass: integers, or NaN
  NaN,         \* an omitted delay: undefined, which arithmetic turns into NaN
  MaxTimers    \* bound on the timers set in a behaviour

ASSUME MaxTimersAssumption == MaxTimers \in Nat
ASSUME NaNAssumption == NaN \notin Int
ASSUME DelaysAssumption == Delays \subseteq Int \cup {NaN}

TimerIds == 1..MaxTimers
NoTimer == 0

VARIABLES
  live,         \* the keys of timerMap
  timer,        \* the timer objects, which outlive their key
  nextTimerId,
  jobs,         \* the ids of the fire microtasks still queued
  running,      \* the timer whose callback is on the stack, or NoTimer
  nextDue       \* fire's local const due, of the callback on the stack

vars == <<live, timer, nextTimerId, jobs, running, nextDue>>

\* A delay as the time left until now + delay.
TimeLeft(delay) == IF delay = NaN \/ delay > 0 THEN delay ELSE 0

\* One millisecond less to go.  NaN stays NaN.
Sooner(due) == IF due = NaN \/ due = 0 THEN due ELSE due - 1

\* timer.due <= Date.now().  No comparison with NaN holds.
IsDue(id) == timer[id].due = 0

-----------------------------------------------------------------------------
\* Mutant: ids start at 0, the value that stands for no timer.
FirstTimerIdZero == 0

FirstTimerId == 1

Init ==
  /\ live = {}
  /\ timer = [id \in TimerIds |-> [delay |-> 0, due |-> 0, repeat |-> FALSE]]
  /\ nextTimerId = FirstTimerId
  /\ jobs = {}
  /\ running = NoTimer
  /\ nextDue = 0

\* User code runs inside a timer's callback, or (the script, the reaction to
\* a fetch) while no fire microtask is queued.
UserCodeRuns == running # NoTimer \/ jobs = {}

\* Mutant: the pass fires the timers in its loop over the map, and a Map's
\* iterator visits the keys that are added while it runs.
SetTimerVisited(delay, repeat) ==
  /\ UserCodeRuns
  /\ nextTimerId \in TimerIds
  /\ nextTimerId' = nextTimerId + 1
  /\ timer' = [timer EXCEPT ![nextTimerId] =
                 [delay |-> delay, due |-> TimeLeft(delay), repeat |-> repeat]]
  /\ live' = live \cup {nextTimerId}
  /\ jobs' = IF running = NoTimer THEN jobs ELSE jobs \cup {nextTimerId}
  /\ UNCHANGED <<running, nextDue>>

\* setTimeout(callback, delay) and setInterval(callback, delay).
SetTimer(delay, repeat) ==
  /\ UserCodeRuns
  /\ nextTimerId \in TimerIds
  /\ nextTimerId' = nextTimerId + 1
  /\ timer' = [timer EXCEPT ![nextTimerId] =
                 [delay |-> delay, due |-> TimeLeft(delay), repeat |-> repeat]]
  /\ live' = live \cup {nextTimerId}
  /\ UNCHANGED <<jobs, running, nextDue>>

\* clearTimeout(id) and clearInterval(id).  An id that is not in the map
\* changes nothing.
ClearTimer(id) ==
  /\ UserCodeRuns
  /\ id \in live
  /\ live' = live \ {id}
  /\ UNCHANGED <<timer, nextTimerId, jobs, running, nextDue>>

\* globalTimerCallback: a microtask for every key.  Ids only grow and a Map
\* iterates in insertion order, so the queue is the set in ascending order.
GlobalTimerCallback ==
  /\ running = NoTimer
  /\ jobs = {}
  /\ jobs' = live
  /\ UNCHANGED <<live, timer, nextTimerId, running, nextDue>>

\* The microtask at the head of the queue is fire(id).
NextJob(id) ==
  /\ running = NoTimer
  /\ id \in jobs
  /\ \A other \in jobs : id <= other

\* Mutant: the microtask captured the timer and does not look its id up.
MustCallUnchecked(id) == IsDue(id)

\* fire's two tests: the timer is still in the map, and it is due.
MustCall(id) == id \in live /\ IsDue(id)

\* fire finds the timer gone, or not due yet.
FireSkip(id) ==
  /\ NextJob(id)
  /\ ~MustCall(id)
  /\ jobs' = jobs \ {id}
  /\ UNCHANGED <<live, timer, nextTimerId, running, nextDue>>

\* Mutant: an interval's next due time is its last one, already in the past.
DueAgainStale(id) == timer[id].due

\* fire's local due: an interval is next due its delay after this call began.
DueAgain(id) == TimeLeft(timer[id].delay)

\* fire calls the timer's callback, having computed the next due time first.
FireCall(id) ==
  /\ NextJob(id)
  /\ MustCall(id)
  /\ jobs' = jobs \ {id}
  /\ running' = id
  /\ nextDue' = DueAgain(id)
  /\ UNCHANGED <<live, timer, nextTimerId>>

\* Mutant: fire puts the interval back, though its callback may have cleared it.
IntervalReturnSets ==
  /\ running # NoTimer
  /\ timer[running].repeat
  /\ timer' = [timer EXCEPT ![running].due = nextDue]
  /\ live' = live \cup {running}
  /\ running' = NoTimer
  /\ UNCHANGED <<nextTimerId, jobs, nextDue>>

\* The callback of an interval returns: the interval is due again.  The
\* callback may have cleared it; then only the object is written.
IntervalReturn ==
  /\ running # NoTimer
  /\ timer[running].repeat
  /\ timer' = [timer EXCEPT ![running].due = nextDue]
  /\ running' = NoTimer
  /\ UNCHANGED <<live, nextTimerId, jobs, nextDue>>

\* Mutant: fire does not delete the timeout it called.
TimeoutReturnKept ==
  /\ running # NoTimer
  /\ ~timer[running].repeat
  /\ running' = NoTimer
  /\ UNCHANGED <<live, timer, nextTimerId, jobs, nextDue>>

\* The callback of a timeout returns: the timer is deleted.
TimeoutReturn ==
  /\ running # NoTimer
  /\ ~timer[running].repeat
  /\ live' = live \ {running}
  /\ running' = NoTimer
  /\ UNCHANGED <<timer, nextTimerId, jobs, nextDue>>

\* The callback throws: fire is left before it deletes or re-arms the timer,
\* and the rejected promise of the microtask is observed by nobody.
CallbackThrow ==
  /\ running # NoTimer
  /\ running' = NoTimer
  /\ UNCHANGED <<live, timer, nextTimerId, jobs, nextDue>>

\* A millisecond passes.
Age ==
  /\ timer' = [id \in TimerIds |->
                 [timer[id] EXCEPT !.due = Sooner(timer[id].due)]]
  /\ nextDue' = Sooner(nextDue)
  /\ UNCHANGED <<live, nextTimerId, jobs, running>>

Next ==
  \/ \E delay \in Delays, repeat \in BOOLEAN : SetTimer(delay, repeat)
  \/ \E id \in TimerIds : ClearTimer(id)
  \/ GlobalTimerCallback
  \/ \E id \in TimerIds : FireSkip(id)
  \/ \E id \in TimerIds : FireCall(id)
  \/ IntervalReturn
  \/ TimeoutReturn
  \/ CallbackThrow
  \/ Age

Spec == Init /\ [][Next]_vars

-----------------------------------------------------------------------------
TimeLefts == Nat \cup {NaN}
Timer == [delay : Delays \cup {0}, due : TimeLefts, repeat : BOOLEAN]

\* Type invariant: the map holds only timers that were set, and the callback
\* on the stack and the queued microtasks are of such timers.
TypeOK ==
  /\ nextTimerId \in 1..(MaxTimers + 1)
  /\ live \subseteq 1..(nextTimerId - 1)
  /\ jobs \subseteq 1..(nextTimerId - 1)
  /\ running \in {NoTimer} \cup 1..(nextTimerId - 1)
  /\ timer \in [TimerIds -> Timer]
  /\ nextDue \in TimeLefts

\* Each timer as the script sees it.
Status(id) ==
  IF id >= nextTimerId THEN "unset" ELSE IF id \in live THEN "set" ELSE "gone"

Contract == INSTANCE TimerContract
              WITH status <- [id \in TimerIds |-> Status(id)],
                   repeats <- [id \in TimerIds |-> timer[id].repeat]

\* Whatever is queued when a callback sets, clears, returns or throws, and
\* however late the loop is, the script sees steps of the contract only
\* (isolate.rs:233-289, 330-336).
ImplementsTimerContract == Contract!Spec
=============================================================================
