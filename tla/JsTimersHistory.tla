-------------------------- MODULE JsTimersHistory --------------------------
(***************************************************************************)
(* What the timers of JsTimers promise to a script.  The promises relate a *)
(* call of a callback to earlier calls and clears, which the runtime does  *)
(* not record: four history variables do.  They never restrict a step.     *)
(***************************************************************************)
EXTENDS JsTimers

VARIABLES
  since,        \* time since the last call began, counted up to the delay
  outcome,      \* how the timer's last call ended
  cleared,      \* the ids clearTimeout or clearInterval deleted
  unvisited     \* the keys of this pass over the map not called yet

history == <<since, outcome, cleared, unvisited>>
hvars == <<live, timer, nextTimerId, jobs, running, nextDue,
           since, outcome, cleared, unvisited>>

HInit ==
  /\ Init
  /\ since = [id \in TimerIds |-> 0]
  /\ outcome = [id \in TimerIds |-> "none"]
  /\ cleared = {}
  /\ unvisited = {}

HSetTimer(delay, repeat) ==
  /\ SetTimer(delay, repeat)
  /\ UNCHANGED history

HClearTimer(id) ==
  /\ ClearTimer(id)
  /\ cleared' = cleared \cup {id}
  /\ UNCHANGED <<since, outcome, unvisited>>

HGlobalTimerCallback ==
  /\ GlobalTimerCallback
  /\ unvisited' = live
  /\ UNCHANGED <<since, outcome, cleared>>

HFireSkip(id) ==
  /\ FireSkip(id)
  /\ UNCHANGED history

HFireCall(id) ==
  /\ FireCall(id)
  /\ since' = [since EXCEPT ![id] = 0]
  /\ unvisited' = unvisited \ {id}
  /\ UNCHANGED <<outcome, cleared>>

HReturn ==
  /\ IntervalReturn \/ TimeoutReturn
  /\ outcome' = [outcome EXCEPT ![running] = "returned"]
  /\ UNCHANGED <<since, cleared, unvisited>>

HThrow ==
  /\ CallbackThrow
  /\ outcome' = [outcome EXCEPT ![running] = "threw"]
  /\ UNCHANGED <<since, cleared, unvisited>>

HAge ==
  /\ Age
  /\ since' = [id \in TimerIds |->
                 IF timer[id].delay # NaN /\ since[id] < timer[id].delay
                 THEN since[id] + 1 ELSE since[id]]
  /\ UNCHANGED <<outcome, cleared, unvisited>>

HNext ==
  \/ \E delay \in Delays, repeat \in BOOLEAN : HSetTimer(delay, repeat)
  \/ \E id \in TimerIds : HClearTimer(id)
  \/ HGlobalTimerCallback
  \/ \E id \in TimerIds : HFireSkip(id)
  \/ \E id \in TimerIds : HFireCall(id)
  \/ HReturn
  \/ HThrow
  \/ HAge

HSpec == HInit /\ [][HNext]_hvars

-----------------------------------------------------------------------------
\* A step that begins a call of id's callback.
Calls(id) == running' = id /\ running # id

\* A timer that was cleared is never called again, even when its microtask
\* was queued before the clear: fire looks the id up again (isolate.rs:251).
ClearedNeverCalled ==
  [][\A id \in TimerIds : Calls(id) => id \notin cleared]_hvars

\* A timeout is called again only while every call of it so far threw: once a
\* call returned the timer is gone for good (isolate.rs:254-262).
TimeoutReturnsOnce ==
  [][\A id \in TimerIds :
       Calls(id) /\ ~timer[id].repeat => outcome[id] # "returned"]_hvars

\* Two calls of an interval begin at least its delay apart, however long the
\* first one ran, unless the first one threw (isolate.rs:255-258).
IntervalSpacing ==
  [][\A id \in TimerIds :
       /\ Calls(id)
       /\ timer[id].repeat
       /\ outcome[id] = "returned"
       => since[id] >= timer[id].delay]_hvars

\* A pass over the map calls no timer twice and no timer set during the pass,
\* whatever the callbacks set and however small the delays: one native timer
\* event does a bounded amount of work (isolate.rs:330-336).
OneCallPerPass ==
  [][\A id \in TimerIds : Calls(id) => id \in unvisited]_hvars
=============================================================================
