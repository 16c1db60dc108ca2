------------------------------ MODULE FetchOps ------------------------------
(***************************************************************************)
(* The asynchronous operations of app/rust/src/runtime/fetch.rs and the    *)
(* first half of Isolate::poll (isolate.rs).  fetch(url) in JavaScript     *)
(* makes a promise, keeps it in promiseTable and calls the native fetch,   *)
(* which pushes a future into pending_ops, a FuturesUnordered.  The future *)
(* does nothing until the isolate is polled; polled, it sends the request, *)
(* and once it is answered its next poll resolves the promise, from inside *)
(* the poll.                                                               *)
(*                                                                         *)
(* FuturesUnordered (futures 0.3.17) is external: a queue of the tasks     *)
(* that were pushed or woken and not polled since, and a slot for the      *)
(* waker of the task that polls it.  push enqueues and does not wake.      *)
(* Waking a task enqueues it, unless it is queued already, and takes the   *)
(* waker from the slot.  Also external: the runtime's block_on (tokio      *)
(* 1.12.0), which polls the isolate when its waker was called.             *)
(***************************************************************************)
EXTENDS Integers, Sequences, FiniteSets

CONSTANT MaxPromises    \* bound on the calls of fetch in a behaviour

ASSUME MaxPromisesAssumption == MaxPromises \in Nat

PromiseIds == 1..MaxPromises
NoPromise == 0

VARIABLES
  promiseTable,     \* the keys of promiseTable
  nextPromiseId,
  op,               \* the state of each promise's future
  readyQ,           \* FuturesUnordered's queue of tasks to poll
  opsWaker,         \* its waker slot holds the isolate's waker
  woken,            \* the isolate's waker was called since the last poll
  haveUnpolledOps,  \* Isolate.have_unpolled_ops
  phase,            \* what the loop is doing with the operations
  polled,           \* futures polled in this poll_next
  resolving         \* the promise resolve is called for, or NoPromise

vars == <<promiseTable, nextPromiseId, op, readyQ, opsWaker, woken,
          haveUnpolledOps, phase, polled, resolving>>

\* A future starts unsent, or invalid when its URL does not parse.  An answered
\* future is one whose next poll completes it: with a body, with an error, or
\* with a body that holds a NUL byte.
Answers == {"body", "error", "nul"}
ToPoll == {"unsent", "invalid"} \cup Answers
InFlight == {id \in PromiseIds : op[id] \in ToPoll \cup {"sent"}}

Queued(id) == \E i \in 1..Len(readyQ) : readyQ[i] = id

-----------------------------------------------------------------------------
\* Mutant: ids start at 0, the value that stands for no promise.
FirstPromiseIdZero == 0

FirstPromiseId == 1

Init ==
  /\ promiseTable = {}
  /\ nextPromiseId = FirstPromiseId
  /\ op = [id \in PromiseIds |-> "none"]
  /\ readyQ = <<>>
  /\ opsWaker = FALSE
  /\ woken = TRUE
  /\ haveUnpolledOps = FALSE
  /\ phase = "idle"
  /\ polled = 0
  /\ resolving = NoPromise

\* createResolvable makes the promise and keeps it in the table.
CreateResolvable ==
  /\ nextPromiseId \in PromiseIds
  /\ nextPromiseId' = nextPromiseId + 1
  /\ promiseTable' = promiseTable \cup {nextPromiseId}

\* The native fetch pushes the future; it wakes nobody.
PushOp(id, validUrl) ==
  /\ op' = [op EXCEPT ![id] = IF validUrl THEN "unsent" ELSE "invalid"]
  /\ readyQ' = Append(readyQ, id)
  /\ haveUnpolledOps' = TRUE

\* fetch(url) is called by the script, by a timer's callback, or by a reaction
\* to a resolved promise.
Fetch(validUrl) ==
  /\ phase \in {"idle", "resolving"}
  /\ CreateResolvable
  /\ PushOp(nextPromiseId, validUrl)
  /\ UNCHANGED <<opsWaker, woken, phase, polled, resolving>>

\* Mutant: the operations are polled only when have_unpolled_ops is set.
PollBeginFlagged ==
  /\ phase = "idle"
  /\ woken
  /\ woken' = FALSE
  /\ haveUnpolledOps' = FALSE
  /\ opsWaker' = (opsWaker \/ haveUnpolledOps)
  /\ phase' = IF haveUnpolledOps THEN "polling" ELSE "idle"
  /\ polled' = 0
  /\ UNCHANGED <<promiseTable, nextPromiseId, op, readyQ, resolving>>

\* block_on polls the isolate; poll_next registers its waker.
PollBegin ==
  /\ phase = "idle"
  /\ woken
  /\ woken' = FALSE
  /\ haveUnpolledOps' = FALSE
  /\ opsWaker' = TRUE
  /\ phase' = "polling"
  /\ polled' = 0
  /\ UNCHANGED <<promiseTable, nextPromiseId, op, readyQ, resolving>>

\* Nothing to poll: Ready(None) or Pending.  Either ends the loop.
PollEmpty ==
  /\ phase = "polling"
  /\ readyQ = <<>>
  /\ phase' = "idle"
  /\ UNCHANGED <<promiseTable, nextPromiseId, op, readyQ, opsWaker, woken,
                 haveUnpolledOps, polled, resolving>>

Polls(id) ==
  /\ phase = "polling"
  /\ readyQ # <<>>
  /\ id = Head(readyQ)
  /\ readyQ' = Tail(readyQ)

\* The future is not answered: its first poll sends the request.  When every
\* future was polled, poll_next yields: it wakes its own task and returns.
PollPending(id) ==
  /\ Polls(id)
  /\ op[id] \in {"unsent", "sent"}
  /\ op' = [op EXCEPT ![id] = "sent"]
  /\ polled' = polled + 1
  /\ \/ /\ polled' # Cardinality(InFlight)
        /\ UNCHANGED <<phase, woken>>
     \/ /\ polled' = Cardinality(InFlight)
        /\ phase' = "idle"
        /\ woken' = TRUE
  /\ UNCHANGED <<promiseTable, nextPromiseId, opsWaker,
                 haveUnpolledOps, resolving>>

\* Mutant: the entry is deleted only by the promise's finally reaction, and
\* resolve leaves it behind.
ResolveKept(id) ==
  /\ phase' = "resolving"
  /\ resolving' = id
  /\ UNCHANGED promiseTable

\* resolve enters V8 and resolves the promise, deletes it from the table and
\* runs the reactions to it.
Resolve(id) ==
  /\ phase' = "resolving"
  /\ resolving' = id
  /\ promiseTable' = promiseTable \ {id}

\* The future has the body and calls resolve.
PollBody(id) ==
  /\ Polls(id)
  /\ op[id] = "body"
  /\ Resolve(id)
  /\ UNCHANGED <<nextPromiseId, op, opsWaker, woken, haveUnpolledOps, polled>>

\* The reactions are done and the future is Ready.  The isolate's loop breaks
\* at the first future that completes.
ResolveDone ==
  /\ phase = "resolving"
  /\ op' = [op EXCEPT ![resolving] = "done"]
  /\ resolving' = NoPromise
  /\ phase' = "idle"
  /\ UNCHANGED <<promiseTable, nextPromiseId, readyQ, opsWaker, woken,
                 haveUnpolledOps, polled>>

\* Mutant: a failed request's promise is dropped from the table.
PollErrorForgets(id) ==
  /\ Polls(id)
  /\ op[id] \in {"error", "invalid"}
  /\ op' = [op EXCEPT ![id] = "failed"]
  /\ promiseTable' = promiseTable \ {id}
  /\ phase' = "idle"
  /\ UNCHANGED <<nextPromiseId, opsWaker, woken, haveUnpolledOps, polled,
                 resolving>>

\* The request failed: the future completes with "{}" and resolve is not
\* called.
PollError(id) ==
  /\ Polls(id)
  /\ op[id] \in {"error", "invalid"}
  /\ op' = [op EXCEPT ![id] = "failed"]
  /\ phase' = "idle"
  /\ UNCHANGED <<promiseTable, nextPromiseId, opsWaker, woken,
                 haveUnpolledOps, polled, resolving>>

\* The body cannot be made a C string: c_str! panics inside the poll, and the
\* process ends (panic = 'abort').
PollNul(id) ==
  /\ Polls(id)
  /\ op[id] = "nul"
  /\ phase' = "aborted"
  /\ UNCHANGED <<promiseTable, nextPromiseId, op, opsWaker, woken,
                 haveUnpolledOps, polled, resolving>>

\* Mutant: waking a task gives up when the waker slot is empty.
WakeTaskUnregistered(id) ==
  /\ readyQ' = IF Queued(id) \/ ~opsWaker THEN readyQ ELSE Append(readyQ, id)
  /\ woken' = (woken \/ (opsWaker /\ ~Queued(id)))
  /\ opsWaker' = (opsWaker /\ Queued(id))

\* The waker of id's task is called.
WakeTask(id) ==
  /\ readyQ' = IF Queued(id) THEN readyQ ELSE Append(readyQ, id)
  /\ woken' = (woken \/ (opsWaker /\ ~Queued(id)))
  /\ opsWaker' = (opsWaker /\ Queued(id))

\* The connection's task hands over the answer.  It runs on the loop's thread.
Reply(id, answer) ==
  /\ phase = "idle"
  /\ op[id] = "sent"
  /\ op' = [op EXCEPT ![id] = answer]
  /\ WakeTask(id)
  /\ UNCHANGED <<promiseTable, nextPromiseId, haveUnpolledOps, phase, polled,
                 resolving>>

\* The request made progress, or its waker was called for nothing.  The name
\* is looked up on a thread of its own: this may come during a poll.
Progress(id) ==
  /\ phase # "aborted"
  /\ op[id] = "sent"
  /\ WakeTask(id)
  /\ UNCHANGED <<promiseTable, nextPromiseId, op, haveUnpolledOps, phase,
                 polled, resolving>>

\* Something else wakes the isolate: its timer, which EventLoop adds.
OtherWake ==
  /\ phase = "idle"
  /\ ~woken
  /\ woken' = TRUE
  /\ UNCHANGED <<promiseTable, nextPromiseId, op, readyQ, opsWaker,
                 haveUnpolledOps, phase, polled, resolving>>

PollNext ==
  \/ PollEmpty
  \/ \E id \in PromiseIds : PollPending(id)
  \/ \E id \in PromiseIds : PollBody(id)
  \/ \E id \in PromiseIds : PollError(id)
  \/ \E id \in PromiseIds : PollNul(id)

LoopStep ==
  \/ PollBegin
  \/ PollNext
  \/ ResolveDone

Next ==
  \/ \E validUrl \in BOOLEAN : Fetch(validUrl)
  \/ LoopStep
  \/ \E id \in PromiseIds, answer \in Answers : Reply(id, answer)
  \/ \E id \in PromiseIds : Progress(id)
  \/ OtherWake

Spec == Init /\ [][Next]_vars

\* The loop's thread runs, and its Sleep wakes it in the end, which EventLoop
\* shows.  Nothing is assumed of the network.
FairSpec == Spec /\ WF_vars(LoopStep) /\ WF_vars(OtherWake)

-----------------------------------------------------------------------------
OpStates == {"none", "sent", "done", "failed"} \cup ToPoll

\* Type invariant.
TypeOK ==
  /\ nextPromiseId \in 1..(MaxPromises + 1)
  /\ promiseTable \subseteq 1..(nextPromiseId - 1)
  /\ op \in [PromiseIds -> OpStates]
  /\ readyQ \in Seq(PromiseIds)
  /\ opsWaker \in BOOLEAN
  /\ woken \in BOOLEAN
  /\ haveUnpolledOps \in BOOLEAN
  /\ phase \in {"idle", "polling", "resolving", "aborted"}
  /\ polled \in Nat
  /\ resolving \in {NoPromise} \cup PromiseIds

\* The table holds exactly the promises that were made and not resolved.  A
\* promise whose request failed therefore stays for good, and resolve never
\* misses the one it is called for (isolate.rs:182-209, fetch.rs:23-31).
TableMatchesOps ==
  promiseTable =
    {id \in PromiseIds : op[id] \notin {"none", "done"} /\ id # resolving}

\* A future that was pushed, or answered, and not polled since is in the queue
\* exactly once: whatever raced with the loop, the next poll finds it.
ReadyIsQueued ==
  /\ \A id \in PromiseIds :
       op[id] \in ToPoll /\ id # resolving /\ phase # "aborted" => Queued(id)
  /\ \A i, j \in 1..Len(readyQ) : readyQ[i] = readyQ[j] => i = j

\* While a request is out, either its task's wake will reach the loop or the
\* loop has a poll coming that registers the waker again: no answer is missed
\* because it came during a poll or between two polls (isolate.rs:412-424).
WakeReachesLoop ==
  phase # "aborted" => opsWaker \/ woken

\* Each promise as the script sees it.
PromiseState(id) ==
  CASE op[id] = "none" -> "none"
    [] op[id] # "none" /\ id \notin promiseTable -> "resolved"
    [] id \in promiseTable /\ op[id] \in {"unsent", "invalid"} -> "pending"
    [] OTHER -> "started"

Contract == INSTANCE FetchContract
              WITH promise <- [id \in PromiseIds |-> PromiseState(id)]

\* fetch resolves each promise at most once, only after its future started,
\* and hands out ids in order (isolate.rs:182-231).
ImplementsContract == Contract!Spec

\* The only thing that ends the loop's thread is a body with a NUL byte.
NulArrived == \E id \in PromiseIds : op[id] = "nul"

\* A request is started in the end although pushing it wakes nobody, whatever
\* fails or does not parse beside it: only a body with a NUL byte stops the
\* loop (fetch.rs:27 and 40-43).
RequestsStarted ==
  \A id \in PromiseIds : op[id] = "unsent" ~> op[id] # "unsent" \/ NulArrived

\* A body that arrived resolves its promise in the end, although a poll takes
\* one completed operation only, with the same exception (isolate.rs:414-424).
BodiesDelivered ==
  \A id \in PromiseIds : op[id] = "body" ~> id \notin promiseTable \/ NulArrived
=============================================================================
