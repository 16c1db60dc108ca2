--------------------------- MODULE TimerContract ----------------------------
(***************************************************************************)
(* What setTimeout and setInterval promise to a script, with neither time  *)
(* nor microtasks: ids are handed out in order and never again, one        *)
(* callback runs at a time, and a timer that was cleared, or a timeout     *)
(* whose callback returned, is gone for good.                              *)
(***************************************************************************)
EXTENDS Integers

CONSTANT MaxTimers

TimerIds == 1..MaxTimers
None == 0

VARIABLES
  status,     \* of each id: "unset", "set" or "gone"
  repeats,    \* of each id: it is an interval's
  running     \* the timer whose callback runs, or None

vars == <<status, repeats, running>>

Init ==
  /\ status = [id \in TimerIds |-> "unset"]
  /\ repeats = [id \in TimerIds |-> FALSE]
  /\ running = None

\* The script calls setTimeout or setInterval.
Set(id, repeat) ==
  /\ status[id] = "unset"
  /\ \A other \in 1..(id - 1) : status[other] # "unset"
  /\ status' = [status EXCEPT ![id] = "set"]
  /\ repeats' = [repeats EXCEPT ![id] = repeat]
  /\ UNCHANGED running

\* The script clears the timer, perhaps from within its own callback.
Clear(id) ==
  /\ status[id] = "set"
  /\ status' = [status EXCEPT ![id] = "gone"]
  /\ UNCHANGED <<repeats, running>>

\* The callback is called.
Call(id) ==
  /\ status[id] = "set"
  /\ running = None
  /\ running' = id
  /\ UNCHANGED <<status, repeats>>

\* The callback of id returns: a timeout is over.
Return(id) ==
  /\ running = id
  /\ running' = None
  /\ status' = IF repeats[id] THEN status ELSE [status EXCEPT ![id] = "gone"]
  /\ UNCHANGED repeats

\* The callback of id throws: unless it was cleared, it is to be called again.
Throw(id) ==
  /\ running = id
  /\ running' = None
  /\ UNCHANGED <<status, repeats>>

Next ==
  \E id \in TimerIds :
    \/ \E repeat \in BOOLEAN : Set(id, repeat)
    \/ Clear(id) \/ Call(id) \/ Return(id) \/ Throw(id)

Spec == Init /\ [][Next]_vars

-----------------------------------------------------------------------------
\* A timer that is gone is not called and not set again, and an id is handed
\* out once.
GoneForGood ==
  [][\A id \in TimerIds :
       /\ status[id] = "gone" => status'[id] = "gone"
       /\ status[id] = "gone" /\ running # id => running' # id
       /\ status[id] # "unset" => status'[id] # "unset"]_vars
=============================================================================
