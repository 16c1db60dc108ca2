--------------------------- MODULE FetchContract ----------------------------
(***************************************************************************)
(* What fetch promises to a script: a promise that is pending until it is  *)
(* resolved, at most once, and only after the loop started the request.    *)
(* Nothing makes a started promise resolve: the future of a request that   *)
(* fails drops the error (app/rust/src/runtime/fetch.rs).                  *)
(***************************************************************************)
EXTENDS Integers

CONSTANT MaxPromises

PromiseIds == 1..MaxPromises

VARIABLE promise

Init == promise = [id \in PromiseIds |-> "none"]

\* The script calls fetch.
Create(id) ==
  /\ promise[id] = "none"
  /\ \A other \in 1..(id - 1) : promise[other] # "none"
  /\ promise' = [promise EXCEPT ![id] = "pending"]

\* The loop starts the request.
Start(id) ==
  /\ promise[id] = "pending"
  /\ promise' = [promise EXCEPT ![id] = "started"]

\* The answer is given to the script.
Resolve(id) ==
  /\ promise[id] = "started"
  /\ promise' = [promise EXCEPT ![id] = "resolved"]

Next == \E id \in PromiseIds : Create(id) \/ Start(id) \/ Resolve(id)

Spec == Init /\ [][Next]_promise
=============================================================================
