--------------------------- MODULE ClickContract ----------------------------
(***************************************************************************)
(* What a click on a render button promises, without threads, locks or     *)
(* pointers: its render ends in one of two ways, the view is given the     *)
(* bitmap in one of them only, and the click is answered at most once, in  *)
(* the order in which the renders posted their answers.  Nothing makes a   *)
(* render answer: the process may end.                                     *)
(***************************************************************************)
EXTENDS Sequences, Naturals

CONSTANT Renders    \* one for each click

VARIABLES
  outcome,    \* of each click: "none", "rendering", "shown" or "failed"
  view,       \* the clicks whose bitmap the view was given
  posted,     \* the answers on their way, in their order
  told        \* the clicks that were answered

vars == <<outcome, view, posted, told>>

Init ==
  /\ outcome = [r \in Renders |-> "none"]
  /\ view = {}
  /\ posted = <<>>
  /\ told = {}

Click(r) ==
  /\ outcome[r] = "none"
  /\ outcome' = [outcome EXCEPT ![r] = "rendering"]
  /\ UNCHANGED <<view, posted, told>>

\* The view is given the bitmap, and the answer will say so.
Show(r) ==
  /\ outcome[r] = "rendering"
  /\ outcome' = [outcome EXCEPT ![r] = "shown"]
  /\ view' = view \cup {r}
  /\ UNCHANGED <<posted, told>>

Fail(r) ==
  /\ outcome[r] = "rendering"
  /\ outcome' = [outcome EXCEPT ![r] = "failed"]
  /\ UNCHANGED <<view, posted, told>>

Post(r) ==
  /\ outcome[r] \in {"shown", "failed"}
  /\ r \notin told
  /\ \A i \in 1..Len(posted) : posted[i] # r
  /\ posted' = Append(posted, r)
  /\ UNCHANGED <<outcome, view, told>>

Answer(r) ==
  /\ posted # <<>> /\ r = Head(posted)
  /\ posted' = Tail(posted)
  /\ told' = told \cup {r}
  /\ UNCHANGED <<outcome, view>>

\* The process was killed and starts again, with no memory of any click.
Restart ==
  /\ outcome' = [r \in Renders |-> "none"]
  /\ view' = {}
  /\ posted' = <<>>
  /\ told' = {}

Next ==
  \/ \E r \in Renders : Click(r) \/ Show(r) \/ Fail(r) \/ Post(r) \/ Answer(r)
  \/ Restart

Spec == Init /\ [][Next]_vars
=============================================================================
