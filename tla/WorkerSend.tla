------------------------------ MODULE WorkerSend ----------------------------
(***************************************************************************)
(* $sendBuffer(buffer, callback): SendBuffer of app/rust/build/api.cpp     *)
(* calls worker_send_bytes (app/rust/src/lib.rs), which calls back into    *)
(* the script three times, through the bindings of app/rust/v8: callback,  *)
(* getName and getPromise, the last two of the object that the first       *)
(* returns.  The functions are user code and may call Java themselves,     *)
(* with the frames of Rust and C++ on the stack.                           *)
(*                                                                         *)
(* The bindings report no failure: for a function that threw, or a member  *)
(* that is not there, they hand out an empty handle or undefined, and      *)
(* printing or using it ends the process.                                  *)
(*                                                                         *)
(* One $sendBuffer is under way at a time; calls of it from within its own *)
(* callbacks are left out, and so is the string it returns.                *)
(***************************************************************************)
EXTENDS JavaBridge

CONSTANT MaxReactions    \* bound on the reactions that wait at a time

ASSUME MaxReactionsAssumption == MaxReactions \in Nat

VARIABLES
  sending,     \* the user function worker_send_bytes waits for, or "none"
  reactions    \* promise_resolver waits for that many promises

sendVars == <<sending, reactions>>
workerVars == <<vars, sendVars>>

WorkerInit ==
  /\ Init
  /\ sending = "none"
  /\ reactions = 0

\* worker_send_bytes makes the object it sends and calls the callback.
SendBuffer ==
  /\ UserCodeRuns
  /\ sending = "none"
  /\ sending' = "callback"
  /\ UNCHANGED <<vars, reactions>>

\* What is called next: result.get(..) finds a function in the object.
CallsNext == [callback |-> "getName", getName |-> "getPromise"]

\* The callback returned an object that has getName, or getName returned what
\* can be printed and the object has getPromise too.
FunctionReturns ==
  /\ UserCodeRuns
  /\ sending \in DOMAIN CallsNext
  /\ sending' = CallsNext[sending]
  /\ UNCHANGED <<vars, reactions>>

\* getPromise returned a promise: promise_resolver is to react to it.
PromiseReturns ==
  /\ UserCodeRuns
  /\ sending = "getPromise"
  /\ reactions < MaxReactions
  /\ sending' = "none"
  /\ reactions' = reactions + 1
  /\ UNCHANGED vars

\* The user function throws, or returns null, undefined, an object without
\* the next function or something else than a promise.
FunctionFails ==
  /\ UserCodeRuns
  /\ sending # "none"
  /\ misused' = TRUE
  /\ crashed' = TRUE
  /\ UNCHANGED <<activity, gctx, globalRefs, platform, thread,
                 made, call, boxes, pending, sendVars>>

\* promise_resolver runs as a microtask, once no user function is on the
\* stack, and prints what the promise was resolved with.
PromiseResolver ==
  /\ UserCodeRuns
  /\ sending = "none"
  /\ reactions > 0
  /\ reactions' = reactions - 1
  /\ UNCHANGED <<vars, sending>>

\* It was resolved with null or undefined, which cannot be printed.
PromiseResolverFails ==
  /\ UserCodeRuns
  /\ sending = "none"
  /\ reactions > 0
  /\ reactions' = reactions - 1
  /\ misused' = TRUE
  /\ crashed' = TRUE
  /\ UNCHANGED <<activity, gctx, globalRefs, platform, thread,
                 made, call, boxes, pending, sending>>

SendStep ==
  \/ SendBuffer
  \/ FunctionReturns
  \/ PromiseReturns
  \/ FunctionFails
  \/ PromiseResolver
  \/ PromiseResolverFails

WorkerNext ==
  \/ LifecycleStep /\ UNCHANGED sendVars
  \/ ConstructStep /\ UNCHANGED sendVars
  \/ (\E w \in Wrappers : IsMemberPanics(w)) /\ UNCHANGED sendVars
  \/ CallStep /\ UNCHANGED sendVars
  \/ SendStep

WorkerSpec == WorkerInit /\ [][WorkerNext]_workerVars
=============================================================================
