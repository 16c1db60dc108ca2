--------------------------- MODULE FetchOpsProofs ---------------------------
(***************************************************************************)
(* Proofs about FetchOps, for every number of fetches: type correctness,   *)
(* the invariants that the runs check, that every poll ends, and that      *)
(* FetchOps implements FetchContract.                                      *)
(***************************************************************************)
EXTENDS FetchOps, CommonLemmas, FiniteSetTheorems

-----------------------------------------------------------------------------
(***************************************************************************)
(* The inductive invariant.                                                *)
(***************************************************************************)

\* The promises that were made, and no others, have a future.
FreshIds == \A id \in PromiseIds : op[id] = "none" <=> id >= nextPromiseId

\* Only a future that may still be polled is queued, and only once.
QueueHolds ==
  /\ \A id \in PromiseIds : Has(readyQ, id) => op[id] \in ToPoll \cup {"sent"}
  /\ Distinct(readyQ)

\* What has to be polled is queued.
Waits ==
  \A id \in PromiseIds :
    op[id] \in ToPoll /\ id # resolving /\ phase # "aborted" => Has(readyQ, id)

\* While reactions run, one future is between its poll and its end: it has its
\* body and is not in the queue.
OneResolves ==
  /\ phase = "resolving" <=> resolving # NoPromise
  /\ resolving # NoPromise => op[resolving] = "body" /\ ~Has(readyQ, resolving)

IInv ==
  /\ TypeOK
  /\ FreshIds
  /\ QueueHolds
  /\ Waits
  /\ OneResolves
  /\ TableMatchesOps
  /\ WakeReachesLoop

USE DEF PromiseIds, NoPromise

-----------------------------------------------------------------------------
(***************************************************************************)
(* What the actions do to the queue.                                       *)
(***************************************************************************)

\* push: the new task is the last one.
LEMMA PushFacts ==
  ASSUME TypeOK, NEW id \in PromiseIds, NEW validUrl \in BOOLEAN,
         PushOp(id, validUrl)
  PROVE  /\ readyQ' \in Seq(PromiseIds)
         /\ \A other : Has(readyQ', other) <=> Has(readyQ, other) \/ other = id
         /\ Distinct(readyQ) /\ ~Has(readyQ, id) => Distinct(readyQ')
  BY AppendHas DEF TypeOK, PushOp

\* poll_next takes the task at the head.
LEMMA PollFacts ==
  ASSUME TypeOK, Distinct(readyQ), NEW id, Polls(id)
  PROVE  /\ id \in PromiseIds
         /\ Has(readyQ, id)
         /\ readyQ' \in Seq(PromiseIds)
         /\ \A other : Has(readyQ', other) <=> Has(readyQ, other) /\ other # id
         /\ Distinct(readyQ')
  BY TailHas DEF TypeOK, Polls

\* Waking a task: it is in the queue once, whether it was there or not.
LEMMA WakeFacts ==
  ASSUME TypeOK, Distinct(readyQ), NEW id \in PromiseIds, WakeTask(id)
  PROVE  /\ readyQ' \in Seq(PromiseIds)
         /\ \A other : Has(readyQ', other) <=> Has(readyQ, other) \/ other = id
         /\ Distinct(readyQ')
         /\ woken' \in BOOLEAN /\ opsWaker' \in BOOLEAN
         /\ opsWaker \/ woken => opsWaker' \/ woken'
<1>1. Queued(id) <=> Has(readyQ, id)
  BY DEF Queued, Has
<1>2. /\ readyQ' \in Seq(PromiseIds)
      /\ \A other : Has(readyQ', other) <=> Has(readyQ, other) \/ other = id
      /\ Distinct(readyQ')
  <2>1. CASE Has(readyQ, id)
    BY <1>1, <2>1 DEF TypeOK, WakeTask
  <2>2. CASE ~Has(readyQ, id)
    <3>1. readyQ' = Append(readyQ, id)
      BY <1>1, <2>2 DEF WakeTask
    <3> QED BY <2>2, <3>1, AppendHas DEF TypeOK
  <2> QED BY <2>1, <2>2
<1>3. /\ woken' \in BOOLEAN /\ opsWaker' \in BOOLEAN
      /\ opsWaker \/ woken => opsWaker' \/ woken'
  BY DEF TypeOK, WakeTask
<1> QED BY <1>2, <1>3

-----------------------------------------------------------------------------
\* isolate.js starts without a promise, and nothing is pushed.
LEMMA IInvInit == Init => IInv
<1> SUFFICES ASSUME Init PROVE IInv
  OBVIOUS
<1>1. TypeOK
  <2>1. nextPromiseId \in 1..(MaxPromises + 1)
    BY MaxPromisesAssumption DEF Init, FirstPromiseId
  <2>2. readyQ \in Seq(PromiseIds)
    BY DEF Init
  <2>3. op \in [PromiseIds -> OpStates]
    BY DEF Init, OpStates
  <2> QED BY <2>1, <2>2, <2>3 DEF Init, TypeOK
<1>2. \A id : ~Has(readyQ, id)
  BY DEF Init, Has
<1>3. Distinct(readyQ)
  BY DEF Init, Distinct
<1>4. QueueHolds /\ Waits /\ OneResolves /\ WakeReachesLoop
  BY <1>2, <1>3
  DEF Init, QueueHolds, Waits, OneResolves, WakeReachesLoop, ToPoll, Answers
<1>5. FreshIds /\ TableMatchesOps
  BY DEF Init, FirstPromiseId, FreshIds, TableMatchesOps
<1> QED BY <1>1, <1>4, <1>5 DEF IInv

\* fetch makes a promise under a fresh id and pushes its future.
LEMMA FetchStep ==
  ASSUME IInv, NEW validUrl \in BOOLEAN, Fetch(validUrl)
  PROVE  IInv'
<1> DEFINE new == nextPromiseId
<1>1. /\ new \in PromiseIds
      /\ nextPromiseId' = new + 1
      /\ promiseTable' = promiseTable \cup {new}
      /\ op' = [op EXCEPT ![new] = IF validUrl THEN "unsent" ELSE "invalid"]
      /\ haveUnpolledOps' = TRUE
      /\ UNCHANGED <<opsWaker, woken, phase, polled, resolving>>
  BY DEF Fetch, CreateResolvable, PushOp
<1>2. op[new] = "none" /\ op'[new] \in {"unsent", "invalid"}
  BY <1>1 DEF IInv, TypeOK, FreshIds
<1>3. ~Has(readyQ, new) /\ new # resolving
  BY <1>1, <1>2 DEF IInv, QueueHolds, OneResolves, ToPoll, Answers
<1>4. /\ readyQ' \in Seq(PromiseIds)
      /\ \A other : Has(readyQ', other) <=> Has(readyQ, other) \/ other = new
      /\ Distinct(readyQ')
  BY <1>1, <1>3, PushFacts DEF IInv, QueueHolds, Fetch
<1>5. \A id \in PromiseIds : id # new => op'[id] = op[id]
  BY <1>1 DEF IInv, TypeOK
<1>6. TypeOK'
  <2>1. /\ nextPromiseId' \in 1..(MaxPromises + 1)
        /\ promiseTable' \subseteq 1..(nextPromiseId' - 1)
    <3>1. new \in 1..MaxPromises /\ nextPromiseId' = new + 1
      BY <1>1
    <3>2. promiseTable \subseteq 1..(new - 1)
      BY DEF IInv, TypeOK
    <3>3. promiseTable' = promiseTable \cup {new}
      BY <1>1
    <3> QED BY <3>1, <3>2, <3>3, MaxPromisesAssumption
  <2>2. op' \in [PromiseIds -> OpStates]
    BY <1>1 DEF IInv, TypeOK, OpStates, ToPoll
  <2>3. /\ opsWaker' \in BOOLEAN /\ woken' \in BOOLEAN
        /\ haveUnpolledOps' \in BOOLEAN
    BY <1>1 DEF IInv, TypeOK
  <2>4. /\ phase' \in {"idle", "polling", "resolving", "aborted"}
        /\ polled' \in Nat
        /\ resolving' \in {NoPromise} \cup PromiseIds
    BY <1>1 DEF IInv, TypeOK
  <2> QED BY <1>4, <2>1, <2>2, <2>3, <2>4 DEF TypeOK
<1>7. FreshIds'
  BY <1>1, <1>5 DEF IInv, TypeOK, FreshIds
<1>8. QueueHolds'
  BY <1>2, <1>4, <1>5 DEF IInv, QueueHolds, ToPoll
<1>9. Waits'
  BY <1>1, <1>4, <1>5 DEF IInv, Waits
<1>10. OneResolves'
  BY <1>1, <1>3, <1>4, <1>5 DEF IInv, TypeOK, OneResolves
<1>11. TableMatchesOps'
  BY <1>1, <1>2, <1>3, <1>5 DEF IInv, TableMatchesOps
<1>12. WakeReachesLoop'
  BY <1>1 DEF IInv, WakeReachesLoop
<1> QED BY <1>6, <1>7, <1>8, <1>9, <1>10, <1>11, <1>12 DEF IInv

\* A poll begins or finds nothing to poll, or the isolate is woken: neither the
\* futures nor the queue change.
LEMMA LoopTurnStep ==
  ASSUME IInv, PollBegin \/ PollEmpty \/ OtherWake
  PROVE  IInv'
<1>1. /\ UNCHANGED <<promiseTable, nextPromiseId, op, readyQ, resolving>>
      /\ phase \in {"idle", "polling"} /\ phase' \in {"idle", "polling"}
      /\ opsWaker' \in BOOLEAN /\ woken' \in BOOLEAN
      /\ haveUnpolledOps' \in BOOLEAN
      /\ polled' \in Nat
      /\ opsWaker \/ woken => opsWaker' \/ woken'
  <2>1. CASE PollBegin
    BY <2>1 DEF IInv, TypeOK, PollBegin
  <2>2. CASE PollEmpty
    BY <2>2 DEF IInv, TypeOK, PollEmpty
  <2>3. CASE OtherWake
    BY <2>3 DEF IInv, TypeOK, OtherWake
  <2> QED BY <2>1, <2>2, <2>3
<1>2. TypeOK'
  BY <1>1 DEF IInv, TypeOK
<1>3. FreshIds' /\ QueueHolds' /\ Waits' /\ OneResolves'
  BY <1>1 DEF IInv, FreshIds, QueueHolds, Waits, OneResolves
<1>4. TableMatchesOps' /\ WakeReachesLoop'
  BY <1>1 DEF IInv, TableMatchesOps, WakeReachesLoop
<1> QED BY <1>2, <1>3, <1>4 DEF IInv

\* A future that is not answered goes out of the queue, until it is woken.
LEMMA PollPendingStep ==
  ASSUME IInv, NEW id \in PromiseIds, PollPending(id)
  PROVE  IInv'
<1>1. /\ Has(readyQ, id)
      /\ readyQ' \in Seq(PromiseIds)
      /\ \A other : Has(readyQ', other) <=> Has(readyQ, other) /\ other # id
      /\ Distinct(readyQ')
  BY PollFacts DEF IInv, QueueHolds, PollPending
<1>2. /\ op[id] \in {"unsent", "sent"}
      /\ op' = [op EXCEPT ![id] = "sent"]
      /\ UNCHANGED <<promiseTable, nextPromiseId, opsWaker, haveUnpolledOps,
                     resolving>>
      /\ phase = "polling"
      /\ phase' \in {"polling", "idle"}
      /\ woken' = woken \/ woken' = TRUE
      /\ polled' = polled + 1
  BY DEF PollPending, Polls
<1>3. /\ op'[id] = "sent"
      /\ \A other \in PromiseIds : other # id => op'[other] = op[other]
  BY <1>2 DEF IInv, TypeOK
<1>4. TypeOK'
  <2>1. op' \in [PromiseIds -> OpStates]
    BY <1>2 DEF IInv, TypeOK, OpStates
  <2>2. woken' \in BOOLEAN
    BY <1>2 DEF IInv, TypeOK
  <2>3. polled' \in Nat
    BY <1>2 DEF IInv, TypeOK
  <2> QED BY <1>1, <1>2, <2>1, <2>2, <2>3 DEF IInv, TypeOK
<1>5. FreshIds'
  BY <1>2, <1>3 DEF IInv, FreshIds
<1>6. QueueHolds'
  BY <1>1, <1>3 DEF IInv, QueueHolds
<1>7. Waits'
  BY <1>1, <1>2, <1>3 DEF IInv, Waits, ToPoll, Answers
<1>8. OneResolves'
  BY <1>2 DEF IInv, OneResolves
<1>9. TableMatchesOps'
  BY <1>2, <1>3 DEF IInv, TableMatchesOps
<1>10. WakeReachesLoop'
  BY <1>2 DEF IInv, WakeReachesLoop
<1> QED BY <1>4, <1>5, <1>6, <1>7, <1>8, <1>9, <1>10 DEF IInv

\* A future that has its body leaves the queue and, with its promise, the table.
LEMMA PollBodyStep ==
  ASSUME IInv, NEW id \in PromiseIds, PollBody(id)
  PROVE  IInv'
<1>1. /\ Has(readyQ, id)
      /\ readyQ' \in Seq(PromiseIds)
      /\ \A other : Has(readyQ', other) <=> Has(readyQ, other) /\ other # id
      /\ Distinct(readyQ')
  BY PollFacts DEF IInv, QueueHolds, PollBody
<1>2. /\ op[id] = "body"
      /\ phase = "polling" /\ phase' = "resolving"
      /\ resolving' = id
      /\ promiseTable' = promiseTable \ {id}
      /\ UNCHANGED <<nextPromiseId, op, opsWaker, woken, haveUnpolledOps,
                     polled>>
  BY DEF PollBody, Polls, Resolve
<1>3. TypeOK'
  BY <1>1, <1>2 DEF IInv, TypeOK
<1>4. FreshIds'
  BY <1>2 DEF IInv, FreshIds
<1>5. QueueHolds'
  BY <1>1, <1>2 DEF IInv, QueueHolds
<1>6. Waits'
  BY <1>1, <1>2 DEF IInv, Waits, OneResolves
<1>7. OneResolves'
  BY <1>1, <1>2 DEF OneResolves
<1>8. TableMatchesOps'
  BY <1>2 DEF IInv, OneResolves, TableMatchesOps
<1>9. WakeReachesLoop'
  BY <1>2 DEF IInv, WakeReachesLoop
<1> QED BY <1>3, <1>4, <1>5, <1>6, <1>7, <1>8, <1>9 DEF IInv

\* A future that failed leaves the queue, and its promise stays in the table.
LEMMA PollErrorStep ==
  ASSUME IInv, NEW id \in PromiseIds, PollError(id)
  PROVE  IInv'
<1>1. /\ Has(readyQ, id)
      /\ readyQ' \in Seq(PromiseIds)
      /\ \A other : Has(readyQ', other) <=> Has(readyQ, other) /\ other # id
      /\ Distinct(readyQ')
  BY PollFacts DEF IInv, QueueHolds, PollError
<1>2. /\ op[id] \in {"error", "invalid"}
      /\ op' = [op EXCEPT ![id] = "failed"]
      /\ phase = "polling" /\ phase' = "idle"
      /\ UNCHANGED <<promiseTable, nextPromiseId, opsWaker, woken,
                     haveUnpolledOps, polled, resolving>>
  BY DEF PollError, Polls
<1>3. /\ op'[id] = "failed"
      /\ \A other \in PromiseIds : other # id => op'[other] = op[other]
  BY <1>2 DEF IInv, TypeOK
<1>4. TypeOK'
  BY <1>1, <1>2 DEF IInv, TypeOK, OpStates
<1>5. FreshIds'
  BY <1>2, <1>3 DEF IInv, FreshIds
<1>6. QueueHolds'
  BY <1>1, <1>3 DEF IInv, QueueHolds
<1>7. Waits'
  BY <1>1, <1>2, <1>3 DEF IInv, Waits, ToPoll, Answers
<1>8. OneResolves'
  BY <1>2 DEF IInv, OneResolves
<1>9. TableMatchesOps'
  BY <1>2, <1>3 DEF IInv, TableMatchesOps
<1>10. WakeReachesLoop'
  BY <1>2 DEF IInv, WakeReachesLoop
<1> QED BY <1>4, <1>5, <1>6, <1>7, <1>8, <1>9, <1>10 DEF IInv

\* The panic leaves everything as it was, and nothing runs after it.
LEMMA PollNulStep ==
  ASSUME IInv, NEW id \in PromiseIds, PollNul(id)
  PROVE  IInv'
<1>1. /\ readyQ' \in Seq(PromiseIds)
      /\ \A other : Has(readyQ', other) <=> Has(readyQ, other) /\ other # id
      /\ Distinct(readyQ')
  BY PollFacts DEF IInv, QueueHolds, PollNul
<1>2. /\ phase = "polling" /\ phase' = "aborted"
      /\ UNCHANGED <<promiseTable, nextPromiseId, op, opsWaker, woken,
                     haveUnpolledOps, polled, resolving>>
  BY DEF PollNul, Polls
<1>3. TypeOK'
  BY <1>1, <1>2 DEF IInv, TypeOK
<1>4. FreshIds' /\ QueueHolds' /\ Waits'
  BY <1>1, <1>2 DEF IInv, FreshIds, QueueHolds, Waits
<1>5. OneResolves' /\ TableMatchesOps' /\ WakeReachesLoop'
  BY <1>2 DEF IInv, OneResolves, TableMatchesOps, WakeReachesLoop
<1> QED BY <1>3, <1>4, <1>5 DEF IInv

\* The reactions are over: the future is done, and in neither queue nor table.
LEMMA ResolveDoneStep ==
  ASSUME IInv, ResolveDone
  PROVE  IInv'
<1>1. /\ phase = "resolving" /\ phase' = "idle"
      /\ resolving' = NoPromise
      /\ op' = [op EXCEPT ![resolving] = "done"]
      /\ UNCHANGED <<promiseTable, nextPromiseId, readyQ, opsWaker, woken,
                     haveUnpolledOps, polled>>
  BY DEF ResolveDone
<1>2. /\ resolving \in PromiseIds /\ op[resolving] = "body"
      /\ ~Has(readyQ, resolving)
  BY <1>1 DEF IInv, TypeOK, OneResolves
<1>3. /\ op'[resolving] = "done"
      /\ \A other \in PromiseIds : other # resolving => op'[other] = op[other]
  BY <1>1, <1>2 DEF IInv, TypeOK
<1>4. TypeOK'
  BY <1>1, <1>2 DEF IInv, TypeOK, OpStates
<1>5. FreshIds'
  BY <1>1, <1>2, <1>3 DEF IInv, FreshIds
<1>6. QueueHolds'
  BY <1>1, <1>2, <1>3 DEF IInv, QueueHolds
<1>7. Waits'
  BY <1>1, <1>3 DEF IInv, Waits, ToPoll, Answers
<1>8. OneResolves'
  BY <1>1 DEF OneResolves
<1>9. TableMatchesOps'
  BY <1>1, <1>2, <1>3 DEF IInv, TableMatchesOps
<1>10. WakeReachesLoop'
  BY <1>1 DEF IInv, WakeReachesLoop
<1> QED BY <1>4, <1>5, <1>6, <1>7, <1>8, <1>9, <1>10 DEF IInv

\* An answer, and progress, enqueue the task and wake the loop unless that is
\* under way.
LEMMA NetworkStep ==
  ASSUME IInv, NEW id \in PromiseIds, NEW answer \in Answers,
         Reply(id, answer) \/ Progress(id)
  PROVE  IInv'
<1>1. /\ readyQ' \in Seq(PromiseIds)
      /\ \A other : Has(readyQ', other) <=> Has(readyQ, other) \/ other = id
      /\ Distinct(readyQ')
      /\ woken' \in BOOLEAN /\ opsWaker' \in BOOLEAN
      /\ opsWaker \/ woken => opsWaker' \/ woken'
  BY WakeFacts DEF IInv, QueueHolds, Reply, Progress
<1>2. /\ op[id] = "sent"
      /\ op' = op \/ op' = [op EXCEPT ![id] = answer]
      /\ UNCHANGED <<promiseTable, nextPromiseId, haveUnpolledOps, phase,
                     polled, resolving>>
      /\ phase # "aborted"
  BY DEF Reply, Progress
<1>3. /\ op'[id] \in ToPoll \cup {"sent"}
      /\ \A other \in PromiseIds : other # id => op'[other] = op[other]
  BY <1>2 DEF IInv, TypeOK, ToPoll
<1>4. id # resolving
  BY <1>2 DEF IInv, OneResolves
<1>5. TypeOK'
  <2>1. op' \in [PromiseIds -> OpStates]
    BY <1>2 DEF IInv, TypeOK, OpStates, ToPoll
  <2> QED BY <1>1, <1>2, <2>1 DEF IInv, TypeOK
<1>6. FreshIds'
  BY <1>2, <1>3 DEF IInv, FreshIds, ToPoll, Answers
<1>7. QueueHolds'
  BY <1>1, <1>3 DEF IInv, QueueHolds
<1>8. Waits'
  BY <1>1, <1>2, <1>3 DEF IInv, Waits
<1>9. OneResolves'
  BY <1>1, <1>2, <1>3, <1>4 DEF IInv, TypeOK, OneResolves
<1>10. TableMatchesOps'
  BY <1>2, <1>3, <1>4 DEF IInv, TableMatchesOps, ToPoll, Answers
<1>11. WakeReachesLoop'
  BY <1>1, <1>2 DEF IInv, WakeReachesLoop
<1> QED BY <1>5, <1>6, <1>7, <1>8, <1>9, <1>10, <1>11 DEF IInv

\* Every step keeps the inductive invariant.
LEMMA IInvStep == IInv /\ [Next]_vars => IInv'
<1> SUFFICES ASSUME IInv, [Next]_vars PROVE IInv'
  OBVIOUS
<1>1. CASE \E validUrl \in BOOLEAN : Fetch(validUrl)
  BY <1>1, FetchStep
<1>2. CASE PollBegin \/ PollEmpty \/ OtherWake
  BY <1>2, LoopTurnStep
<1>3. CASE \E id \in PromiseIds : PollPending(id)
  BY <1>3, PollPendingStep
<1>4. CASE \E id \in PromiseIds : PollBody(id)
  BY <1>4, PollBodyStep
<1>5. CASE \E id \in PromiseIds : PollError(id)
  BY <1>5, PollErrorStep
<1>6. CASE \E id \in PromiseIds : PollNul(id)
  BY <1>6, PollNulStep
<1>7. CASE ResolveDone
  BY <1>7, ResolveDoneStep
<1>8. CASE \E id \in PromiseIds, answer \in Answers : Reply(id, answer)
  BY <1>8, NetworkStep
<1>9. CASE \E id \in PromiseIds : Progress(id)
  <2>1. "body" \in Answers
    BY DEF Answers
  <2> QED BY <1>9, <2>1, NetworkStep
<1>10. CASE UNCHANGED vars
  BY <1>10 DEF vars, IInv, TypeOK, FreshIds, QueueHolds, Waits, OneResolves,
               TableMatchesOps, WakeReachesLoop
<1> QED
  BY <1>1, <1>2, <1>3, <1>4, <1>5, <1>6, <1>7, <1>8, <1>9, <1>10
  DEF Next, LoopStep, PollNext

\* The inductive invariant holds throughout.
THEOREM Invariance == Spec => []IInv
  BY IInvInit, IInvStep, PTL DEF Spec

\* The operations keep their types, for every number of fetches.
THEOREM TypeCorrect == Spec => []TypeOK
<1>1. IInv => TypeOK
  BY DEF IInv
<1> QED BY <1>1, Invariance, PTL

\* The table holds the promises that wait: those that failed among them.
THEOREM TableMatchesOpsThm == Spec => []TableMatchesOps
<1>1. IInv => TableMatchesOps
  BY DEF IInv
<1> QED BY <1>1, Invariance, PTL

\* No future is lost between a push or a wake and the poll that follows.
THEOREM ReadyIsQueuedThm == Spec => []ReadyIsQueued
<1>1. IInv => ReadyIsQueued
  BY DEF IInv, Waits, QueueHolds, Distinct, ReadyIsQueued, Queued, Has
<1> QED BY <1>1, Invariance, PTL

\* The loop is never without a waker and a wake at once.
THEOREM WakeReachesLoopThm == Spec => []WakeReachesLoop
<1>1. IInv => WakeReachesLoop
  BY DEF IInv
<1> QED BY <1>1, Invariance, PTL

-----------------------------------------------------------------------------
(***************************************************************************)
(* Every poll ends: poll_next compares the number of futures it polled     *)
(* with the number in flight, and must not step over it.                   *)
(***************************************************************************)

PollHasRoom ==
  phase = "polling" => polled < Cardinality(InFlight) \/ InFlight = {}

\* A set of futures has a size, which is 0 only if it is empty.
LEMMA InFlightFinite ==
  /\ Cardinality(InFlight) \in Nat
  /\ Cardinality(InFlight) = 0 => InFlight = {}
<1>1. IsFiniteSet(1..MaxPromises)
  BY MaxPromisesAssumption, FS_Interval
<1>2. IsFiniteSet(InFlight)
  BY <1>1, FS_Subset DEF InFlight
<1> QED BY <1>2, FS_CardinalityType, FS_EmptySet

\* A poll starts from 0, and counts a future only while there is room for it;
\* the futures in flight stay the same until it ends.
LEMMA PollHasRoomNext ==
  ASSUME IInv, PollHasRoom, [Next]_vars
  PROVE  PollHasRoom'
<1>1. CASE PollBegin
  <2>1. polled' = 0 /\ InFlight' = InFlight
    BY <1>1 DEF PollBegin, InFlight
  <2> QED BY <2>1, InFlightFinite DEF PollHasRoom
<1>2. ASSUME NEW id \in PromiseIds, PollPending(id) PROVE PollHasRoom'
  <2>1. InFlight' = InFlight /\ id \in InFlight
    BY <1>2 DEF PollPending, InFlight, ToPoll, Answers, IInv, TypeOK
  <2>2. polled \in Nat /\ polled < Cardinality(InFlight)
    BY <1>2, <2>1 DEF PollPending, Polls, PollHasRoom, IInv, TypeOK
  <2>3. polled' = polled + 1 /\ (phase' = "polling" => polled' # Cardinality(InFlight'))
    BY <1>2, <2>1 DEF PollPending
  <2> QED BY <2>1, <2>2, <2>3, InFlightFinite DEF PollHasRoom
<1>3. ASSUME NEW id \in PromiseIds, Progress(id) PROVE PollHasRoom'
  BY <1>3 DEF Progress, PollHasRoom, InFlight
<1>4. CASE UNCHANGED vars
  BY <1>4 DEF vars, PollHasRoom, InFlight
<1>5. ASSUME \/ \E validUrl \in BOOLEAN : Fetch(validUrl)
             \/ PollEmpty \/ ResolveDone \/ OtherWake
             \/ \E id \in PromiseIds : PollBody(id) \/ PollError(id) \/ PollNul(id)
             \/ \E id \in PromiseIds, answer \in Answers : Reply(id, answer)
      PROVE  PollHasRoom'
  <2>1. phase' # "polling"
    BY <1>5 DEF Fetch, PollEmpty, ResolveDone, OtherWake, PollBody, Resolve,
       PollError, PollNul, Reply
  <2> QED BY <2>1 DEF PollHasRoom
<1> QED BY <1>1, <1>2, <1>3, <1>4, <1>5 DEF Next, LoopStep, PollNext

\* While a poll goes on, fewer futures were polled in it than are in flight,
\* unless none is: each future it finds pending brings it nearer to its end,
\* whatever the wakers do meanwhile (isolate.rs:412-424).
THEOREM PollEnds == Spec => []PollHasRoom
<1>1. Init => PollHasRoom
  BY DEF Init, PollHasRoom
<1> QED BY <1>1, Invariance, PollHasRoomNext, PTL DEF Spec

-----------------------------------------------------------------------------
(***************************************************************************)
(* FetchOps implements FetchContract.                                      *)
(***************************************************************************)

\* What the script sees of a promise, from its future's state and whether it is
\* in the table.
Seen(state, kept) ==
  IF state = "none" THEN "none"
  ELSE IF ~kept THEN "resolved"
  ELSE IF state \in {"unsent", "invalid"} THEN "pending"
  ELSE "started"

Promises == [id \in PromiseIds |-> PromiseState(id)]

\* The cases of PromiseState exclude each other, for the table holds made
\* promises only.
LEMMA SeenPromises ==
  /\ IInv => Promises = [id \in PromiseIds |->
                           Seen(op[id], id \in promiseTable)]
  /\ IInv' => Promises' = [id \in PromiseIds |->
                             Seen(op'[id], id \in promiseTable')]
<1>1. ASSUME IInv, NEW id \in PromiseIds
      PROVE  PromiseState(id) = Seen(op[id], id \in promiseTable)
  BY <1>1 DEF IInv, TableMatchesOps, PromiseState, Seen
<1>2. ASSUME IInv', NEW id \in PromiseIds
      PROVE  PromiseState(id)' = Seen(op'[id], id \in promiseTable')
  BY <1>2 DEF IInv, TableMatchesOps, PromiseState, Seen
<1>3. IInv => Promises = [id \in PromiseIds |->
                            Seen(op[id], id \in promiseTable)]
  BY <1>1 DEF Promises
<1>4. IInv' => Promises' = [id \in PromiseIds |->
                              Seen(op'[id], id \in promiseTable')]
  BY <1>2 DEF Promises
<1> QED BY <1>3, <1>4

\* The script starts with no promise.
LEMMA ContractInit == Init => Contract!Init
  BY DEF Init, Contract!Init, Contract!PromiseIds, PromiseState

\* When one promise changes, the contract's promise does.
LEMMA OneChanges ==
  ASSUME IInv, IInv', NEW id \in PromiseIds,
         \A other \in PromiseIds :
           other # id => /\ op'[other] = op[other]
                         /\ other \in promiseTable' <=> other \in promiseTable
  PROVE  /\ Promises[id] = Seen(op[id], id \in promiseTable)
         /\ Promises' = [Promises EXCEPT
                           ![id] = Seen(op'[id], id \in promiseTable')]
  BY SeenPromises

\* Every step is a step of the contract for one promise, or does not show.
LEMMA ContractStep ==
  IInv /\ IInv' /\ [Next]_vars => [Contract!Next]_Promises
<1> SUFFICES ASSUME IInv, IInv', [Next]_vars
             PROVE  Contract!Next \/ UNCHANGED Promises
  BY DEF Promises
<1>1. ASSUME NEW validUrl \in BOOLEAN, Fetch(validUrl) PROVE Contract!Next
  <2> DEFINE new == nextPromiseId
  <2>1. /\ new \in PromiseIds
        /\ promiseTable' = promiseTable \cup {new}
        /\ op' = [op EXCEPT ![new] = IF validUrl THEN "unsent" ELSE "invalid"]
    BY <1>1 DEF Fetch, CreateResolvable, PushOp
  <2>2. op[new] = "none" /\ op'[new] \in {"unsent", "invalid"}
    BY <2>1 DEF IInv, TypeOK, FreshIds
  <2>3. \A other \in PromiseIds :
          other # new => /\ op'[other] = op[other]
                         /\ other \in promiseTable' <=> other \in promiseTable
    BY <2>1 DEF IInv, TypeOK
  <2>4. /\ Promises[new] = "none"
        /\ Promises' = [Promises EXCEPT ![new] = "pending"]
    <3>1. new \in promiseTable'
      BY <2>1
    <3>2. /\ Seen(op[new], new \in promiseTable) = "none"
          /\ Seen(op'[new], new \in promiseTable') = "pending"
      BY <2>2, <3>1 DEF Seen
    <3> QED BY <2>1, <2>3, <3>2, OneChanges
  <2>5. ASSUME NEW other \in 1..(new - 1) PROVE Promises[other] # "none"
    <3>1. other \in PromiseIds /\ ~(other >= nextPromiseId)
      BY <2>1, MaxPromisesAssumption
    <3>2. op[other] # "none"
      BY <3>1 DEF IInv, FreshIds
    <3>3. Promises[other] = Seen(op[other], other \in promiseTable)
      BY <3>1, SeenPromises
    <3> QED BY <3>2, <3>3 DEF Seen
  <2>6. Contract!Create(new)
    BY <2>4, <2>5 DEF Contract!Create, Promises
  <2> QED BY <2>1, <2>6 DEF Contract!Next, Contract!PromiseIds
<1>2. ASSUME PollBegin \/ PollEmpty \/ OtherWake PROVE UNCHANGED Promises
  <2>1. op' = op /\ promiseTable' = promiseTable
    BY <1>2 DEF PollBegin, PollEmpty, OtherWake
  <2> QED BY <2>1, SeenPromises
<1>3. ASSUME NEW id \in PromiseIds, PollPending(id) \/ PollError(id)
      PROVE  Contract!Next \/ UNCHANGED Promises
  <2>1. /\ op[id] \in {"unsent", "sent", "error", "invalid"}
        /\ promiseTable' = promiseTable
        /\ \E state \in {"sent", "failed"} : op' = [op EXCEPT ![id] = state]
        /\ resolving # id
    BY <1>3 DEF PollPending, PollError, Polls, IInv, OneResolves
  <2>2. /\ op'[id] \in {"sent", "failed"}
        /\ \A other \in PromiseIds :
             other # id => /\ op'[other] = op[other]
                           /\ other \in promiseTable' <=> other \in promiseTable
    BY <2>1 DEF IInv, TypeOK
  <2>3. id \in promiseTable /\ id \in promiseTable'
    BY <2>1 DEF IInv, TableMatchesOps
  <2>4. /\ Promises[id] \in {"pending", "started"}
        /\ Promises' = [Promises EXCEPT ![id] = "started"]
    <3>1. /\ Seen(op[id], id \in promiseTable) \in {"pending", "started"}
          /\ Seen(op'[id], id \in promiseTable') = "started"
      BY <2>1, <2>2, <2>3 DEF Seen
    <3> QED BY <2>2, <3>1, OneChanges
  <2>5. CASE Promises[id] = "pending"
    <3>1. Contract!Start(id)
      BY <2>4, <2>5 DEF Contract!Start, Promises
    <3> QED BY <3>1 DEF Contract!Next, Contract!PromiseIds
  <2>6. CASE Promises[id] = "started"
    BY <2>4, <2>6 DEF Promises
  <2> QED BY <2>4, <2>5, <2>6
<1>4. ASSUME NEW id \in PromiseIds, PollBody(id) PROVE Contract!Next
  <2>1. /\ op[id] = "body" /\ op' = op
        /\ promiseTable' = promiseTable \ {id}
        /\ resolving # id
    BY <1>4 DEF PollBody, Polls, Resolve, IInv, OneResolves
  <2>2. id \in promiseTable /\ id \notin promiseTable'
    BY <2>1 DEF IInv, TableMatchesOps
  <2>3. /\ Promises[id] = "started"
        /\ Promises' = [Promises EXCEPT ![id] = "resolved"]
    <3>1. /\ Seen(op[id], id \in promiseTable) = "started"
          /\ Seen(op'[id], id \in promiseTable') = "resolved"
      BY <2>1, <2>2 DEF Seen
    <3> QED BY <2>1, <3>1, OneChanges
  <2>4. Contract!Resolve(id)
    BY <2>3 DEF Contract!Resolve, Promises
  <2> QED BY <2>4 DEF Contract!Next, Contract!PromiseIds
<1>5. ASSUME NEW id \in PromiseIds, PollNul(id) PROVE UNCHANGED Promises
  <2>1. op' = op /\ promiseTable' = promiseTable
    BY <1>5 DEF PollNul
  <2> QED BY <2>1, SeenPromises
<1>6. ASSUME ResolveDone PROVE UNCHANGED Promises
  <2>1. /\ resolving \in PromiseIds /\ op[resolving] = "body"
        /\ op' = [op EXCEPT ![resolving] = "done"]
        /\ promiseTable' = promiseTable
    BY <1>6 DEF ResolveDone, IInv, TypeOK, OneResolves
  <2>2. resolving \notin promiseTable
    BY DEF IInv, TableMatchesOps
  <2>3. /\ op'[resolving] = "done"
        /\ \A other \in PromiseIds : other # resolving => op'[other] = op[other]
    BY <2>1 DEF IInv, TypeOK
  <2>4. ASSUME NEW id \in PromiseIds
        PROVE  Seen(op'[id], id \in promiseTable')
                 = Seen(op[id], id \in promiseTable)
    BY <2>1, <2>2, <2>3 DEF Seen
  <2> QED BY <2>4, SeenPromises
<1>7. ASSUME NEW id \in PromiseIds, NEW answer \in Answers,
             Reply(id, answer) \/ Progress(id)
      PROVE  UNCHANGED Promises
  <2>1. /\ op[id] = "sent"
        /\ op' = op \/ op' = [op EXCEPT ![id] = answer]
        /\ promiseTable' = promiseTable
    BY <1>7 DEF Reply, Progress
  <2>2. /\ op'[id] \in Answers \cup {"sent"}
        /\ \A other \in PromiseIds : other # id => op'[other] = op[other]
    BY <2>1 DEF IInv, TypeOK
  <2>3. ASSUME NEW other \in PromiseIds
        PROVE  Seen(op'[other], other \in promiseTable')
                 = Seen(op[other], other \in promiseTable)
    BY <2>1, <2>2 DEF Seen, Answers
  <2> QED BY <2>3, SeenPromises
<1>8. ASSUME UNCHANGED vars PROVE UNCHANGED Promises
  BY <1>8, SeenPromises DEF vars
<1>9. "body" \in Answers
  BY DEF Answers
<1> QED
  BY <1>1, <1>2, <1>3, <1>4, <1>5, <1>6, <1>7, <1>8, <1>9
  DEF Next, LoopStep, PollNext

\* A promise of fetch is resolved at most once, and only after its request was
\* started, in every behaviour and for every number of fetches.
THEOREM ImplementsContractThm == Spec => ImplementsContract
  BY ContractInit, ContractStep, Invariance, PTL
  DEF Spec, ImplementsContract, Contract!Spec, Promises
=============================================================================
