--------------------------- MODULE EventLoopProofs --------------------------
(***************************************************************************)
(* Proofs about EventLoop, for every set of delays, every number of timers *)
(* and fetches and every modulus: its Sleep never dies, it takes only the  *)
(* steps that FetchOps allows, and it keeps its types.  Then, about        *)
(* EventLoopTiming: how late and how early a timer is called.              *)
(***************************************************************************)
EXTENDS EventLoopTiming, CommonLemmas

\* The thread's place says what the operations are doing: outside the loop over
\* them they are idle; a panic leaves the thread there, and is its last step.
OpsOnlyInLoop == pc # "ops" => phase = "idle"

\* The isolate is woken before its first poll, and a pass over the timers ends
\* with the waker that the Sleep was polled with.
WakerKept ==
  /\ pc = "script" => woken
  /\ pc = "pass" => sleepWaker

IInv ==
  /\ pc \in {"script", "parked", "ops", "sleep", "pass"}
  /\ woken \in BOOLEAN /\ sleepWaker \in BOOLEAN
  /\ OpsOnlyInLoop
  /\ WakerKept
  /\ SleepNeverDies

-----------------------------------------------------------------------------
\* The script is about to run and nothing was polled.
LEMMA IInvInit == Init => IInv
  BY DEF Init, F!Init, IInv, OpsOnlyInLoop, WakerKept, SleepNeverDies

\* User code pushes and sets; it neither moves the thread nor the Sleep.
LEMMA UserKeeps ==
  ASSUME IInv, UserStep PROVE IInv'
<1>1. UNCHANGED <<sleepVars, pc, phase, woken>>
  BY DEF UserStep, SetTimer, ClearTimer, Fetch, F!Fetch, opVars
<1> QED BY <1>1 DEF sleepVars, IInv, OpsOnlyInLoop, WakerKept, SleepNeverDies

\* The thread polls the operations.
LEMMA PollOpsKeeps ==
  ASSUME IInv, PollOps PROVE IInv'
<1>1. /\ pc = "ops"
      /\ pc' = IF phase' = "idle" THEN "sleep" ELSE "ops"
      /\ UNCHANGED sleepVars
  BY DEF PollOps
<1>2. woken' \in BOOLEAN
  BY DEF IInv, PollOps, F!PollNext, F!PollEmpty, F!PollPending, F!PollBody,
         F!PollError, F!PollNul, F!ResolveDone
<1> QED BY <1>1, <1>2
  DEF sleepVars, IInv, OpsOnlyInLoop, WakerKept, SleepNeverDies

\* The rest of a poll: the Sleep is armed with the waker whenever it ends.
LEMMA LoopKeeps ==
  ASSUME IInv, LoopStep PROVE IInv'
<1> USE DEF sleepVars, timerVars, opVars
<1>1. CASE ScriptEnd
  BY <1>1 DEF ScriptEnd, IInv, OpsOnlyInLoop, WakerKept, SleepNeverDies
<1>2. CASE PollBegin
  BY <1>2 DEF PollBegin, F!PollBegin, IInv, OpsOnlyInLoop, WakerKept,
              SleepNeverDies
<1>3. CASE PollOps
  BY <1>3, PollOpsKeeps
<1>4. CASE PollSleepPending
  BY <1>4 DEF PollSleepPending, IInv, OpsOnlyInLoop, WakerKept, SleepNeverDies
<1>5. CASE PollSleepReady
  BY <1>5 DEF PollSleepReady, IInv, OpsOnlyInLoop, WakerKept, SleepNeverDies
<1>6. CASE \/ \E id \in T!TimerIds : FireSkip(id) \/ FireCall(id)
           \/ CallbackEnd
  <2>1. UNCHANGED <<opVars, sleepVars, pc>>
    BY <1>6 DEF FireSkip, FireCall, CallbackEnd
  <2> QED BY <2>1 DEF IInv, OpsOnlyInLoop, WakerKept, SleepNeverDies
<1>7. CASE Reset
  BY <1>7 DEF Reset, IInv, OpsOnlyInLoop, WakerKept, SleepNeverDies
<1> QED
  BY <1>1, <1>2, <1>3, <1>4, <1>5, <1>6, <1>7 DEF LoopStep

\* The driver and the network only wake, and time only passes.
LEMMA OutsideKeeps ==
  ASSUME IInv, Elapse \/ NetworkStep \/ Tick PROVE IInv'
<1>1. CASE Elapse
  BY <1>1 DEF Elapse, IInv, OpsOnlyInLoop, WakerKept, SleepNeverDies
<1>2. CASE NetworkStep
  <2>1. /\ UNCHANGED <<sleepVars, pc, phase>>
        /\ woken' \in BOOLEAN
        /\ woken => woken'
    <3>1. PICK id \in F!PromiseIds : F!WakeTask(id)
      BY <1>2 DEF NetworkStep, Reply, Progress, F!Reply, F!Progress
    <3>2. woken' = (woken \/ (opsWaker /\ ~F!Queued(id)))
      BY <3>1 DEF F!WakeTask
    <3>3. /\ woken' \in BOOLEAN
          /\ woken => woken'
      BY <3>2 DEF IInv
    <3>4. UNCHANGED <<sleepVars, pc, phase>>
      BY <1>2 DEF NetworkStep, Reply, Progress, F!Reply, F!Progress
    <3> QED BY <3>3, <3>4
  <2> QED BY <2>1 DEF sleepVars, IInv, OpsOnlyInLoop, WakerKept, SleepNeverDies
<1>3. CASE Tick
  BY <1>3 DEF Tick, opVars, IInv, OpsOnlyInLoop, WakerKept, SleepNeverDies
<1> QED BY <1>1, <1>2, <1>3

\* Every step keeps the inductive invariant.
LEMMA IInvStep == IInv /\ [Next]_vars => IInv'
<1> SUFFICES ASSUME IInv, [Next]_vars PROVE IInv'
  OBVIOUS
<1>1. CASE UNCHANGED vars
  BY <1>1 DEF vars, opVars, sleepVars, IInv, OpsOnlyInLoop, WakerKept,
              SleepNeverDies
<1> QED BY <1>1, UserKeeps, LoopKeeps, OutsideKeeps DEF Next

\* The inductive invariant holds throughout.
THEOREM Invariance == Spec => []IInv
  BY IInvInit, IInvStep, PTL DEF Spec

\* A parked thread with nothing to do has its Sleep armed.
THEOREM SleepNeverDiesThm == Spec => []SleepNeverDies
<1>1. IInv => SleepNeverDies
  BY DEF IInv
<1> QED BY <1>1, Invariance, PTL

-----------------------------------------------------------------------------
\* Each step is one of the timers', or leaves them alone.
LEMMA TimersStep == [Next]_vars => [T!Next]_(T!vars)
<1> SUFFICES ASSUME [Next]_vars PROVE T!Next \/ UNCHANGED timerVars
  BY DEF T!vars, timerVars
<1>1. CASE UserStep
  BY <1>1 DEF UserStep, SetTimer, ClearTimer, Fetch, T!Next
<1>2. CASE LoopStep
  <2>1. CASE ScriptEnd \/ PollBegin \/ PollOps \/ PollSleepPending \/ Reset
    BY <2>1 DEF ScriptEnd, PollBegin, PollOps, PollSleepPending, Reset
  <2>2. CASE PollSleepReady \/ CallbackEnd
    BY <2>2 DEF PollSleepReady, CallbackEnd, T!Next
  <2>3. CASE \E id \in T!TimerIds : FireSkip(id) \/ FireCall(id)
    BY <2>3 DEF FireSkip, FireCall, T!Next
  <2> QED BY <1>2, <2>1, <2>2, <2>3 DEF LoopStep
<1>3. CASE Elapse \/ NetworkStep
  BY <1>3 DEF Elapse, NetworkStep, Reply, Progress
<1>4. CASE Tick
  BY <1>4 DEF Tick, T!Next
<1>5. CASE UNCHANGED vars
  BY <1>5 DEF vars
<1> QED BY <1>1, <1>2, <1>3, <1>4, <1>5 DEF Next

-----------------------------------------------------------------------------
\* Each step is one of the operations', or leaves them alone.
LEMMA OpsStep == IInv /\ [Next]_vars => [F!Next]_(F!vars)
<1> SUFFICES ASSUME IInv, [Next]_vars PROVE F!Next \/ UNCHANGED opVars
  BY DEF F!vars, opVars
<1>1. CASE UserStep
  BY <1>1 DEF UserStep, SetTimer, ClearTimer, Fetch, F!Next
<1>2. CASE LoopStep
  <2>1. CASE \/ ScriptEnd \/ PollSleepPending \/ PollSleepReady \/ CallbackEnd
             \/ Reset
             \/ \E id \in T!TimerIds : FireSkip(id) \/ FireCall(id)
    BY <2>1 DEF ScriptEnd, PollSleepPending, PollSleepReady, CallbackEnd, Reset,
                FireSkip, FireCall
  <2>2. CASE PollBegin \/ PollOps
    BY <2>2 DEF PollBegin, PollOps, F!Next, F!LoopStep
  <2> QED BY <1>2, <2>1, <2>2 DEF LoopStep
<1>3. CASE Elapse
  <2>1. /\ phase = "idle"
        /\ woken' = (woken \/ sleepWaker)
        /\ UNCHANGED <<promiseTable, nextPromiseId, op, readyQ, opsWaker,
                       haveUnpolledOps, phase, polled, resolving>>
    BY <1>3 DEF Elapse, IInv, OpsOnlyInLoop
  <2>2. CASE woken \/ ~sleepWaker
    <3>1. woken' = woken
      BY <2>1, <2>2 DEF IInv
    <3> QED BY <2>1, <3>1 DEF opVars
  <2>3. CASE ~woken /\ sleepWaker
    <3>1. F!OtherWake
      BY <2>1, <2>3 DEF IInv, F!OtherWake
    <3> QED BY <3>1 DEF F!Next
  <2> QED BY <2>2, <2>3
<1>4. CASE NetworkStep
  BY <1>4 DEF NetworkStep, Reply, Progress, F!Next
<1>5. CASE Tick
  BY <1>5 DEF Tick
<1>6. CASE UNCHANGED vars
  BY <1>6 DEF vars
<1> QED BY <1>1, <1>2, <1>3, <1>4, <1>5, <1>6 DEF Next

\* The loop treats the operations as FetchOps describes them: what is proved of
\* FetchOps!Spec holds in it.
THEOREM ImplementsFetchOpsSteps == Spec => F!Spec
<1>1. Init => F!Init
  BY DEF Init
<1> QED BY <1>1, OpsStep, Invariance, PTL DEF Spec, F!Spec

-----------------------------------------------------------------------------
(***************************************************************************)
(* Type correctness.  The least delay in the map exists because the map is *)
(* finite: a claim about the first k timers, for every k.                  *)
(***************************************************************************)

USE DEF T!TimerIds, T!NoTimer

\* What is left until a delay has passed is a number of milliseconds, or NaN.
LEMMA TimeLeftTyped ==
  ASSUME NEW delay \in Int \cup {NaN} PROVE T!TimeLeft(delay) \in T!TimeLefts
<1>1. CASE delay = NaN
  BY <1>1 DEF T!TimeLeft, T!TimeLefts
<1>2. CASE delay \in Int /\ delay > 0
  BY <1>2 DEF T!TimeLeft, T!TimeLefts
<1>3. CASE delay \in Int /\ ~(delay > 0)
  BY <1>3 DEF T!TimeLeft, T!TimeLefts
<1> QED BY <1>1, <1>2, <1>3

\* The timers stay timers, whatever delays the script passes.
LEMMA TimersTypeStep == T!TypeOK /\ [T!Next]_(T!vars) => T!TypeOK'
<1> SUFFICES ASSUME T!TypeOK, [T!Next]_(T!vars) PROVE T!TypeOK'
  OBVIOUS
<1> USE TimersAssumption DEF T!TypeOK
<1>1. ASSUME NEW delay \in Delays, NEW repeat \in BOOLEAN,
             T!SetTimer(delay, repeat)
      PROVE  T!TypeOK'
  <2>1. [delay |-> delay, due |-> T!TimeLeft(delay), repeat |-> repeat] \in T!Timer
    BY TimeLeftTyped, TimersAssumption DEF T!Timer
  <2>2. timer' \in [1..MaxTimers -> T!Timer]
    BY <1>1, <2>1 DEF T!SetTimer
  <2>3. /\ nextTimerId' \in 1..(MaxTimers + 1)
        /\ live' \subseteq 1..(nextTimerId' - 1)
        /\ jobs' \subseteq 1..(nextTimerId' - 1)
        /\ running' \in {0} \cup 1..(nextTimerId' - 1)
        /\ nextDue' \in T!TimeLefts
    BY <1>1 DEF T!SetTimer
  <2> QED BY <2>2, <2>3
<1>2. ASSUME NEW id \in 1..MaxTimers, T!ClearTimer(id) PROVE T!TypeOK'
  BY <1>2 DEF T!ClearTimer
<1>3. CASE T!GlobalTimerCallback
  BY <1>3 DEF T!GlobalTimerCallback
<1>4. ASSUME NEW id \in 1..MaxTimers, T!FireSkip(id) PROVE T!TypeOK'
  BY <1>4 DEF T!FireSkip
<1>5. ASSUME NEW id \in 1..MaxTimers, T!FireCall(id) PROVE T!TypeOK'
  <2>1. timer[id] \in T!Timer
    OBVIOUS
  <2>2. timer[id].delay \in Int \cup {NaN}
    <3>1. timer[id].delay \in Delays \cup {0}
      BY <2>1 DEF T!Timer
    <3>2. Delays \cup {0} \subseteq Int \cup {NaN}
      BY TimersAssumption
    <3> HIDE TimersAssumption DEF T!TypeOK
    <3> QED BY <3>1, <3>2
  <2>3. T!TimeLeft(timer[id].delay) \in T!TimeLefts
    BY <2>2, TimeLeftTyped
  <2>4. nextDue' \in T!TimeLefts
    BY <1>5, <2>3 DEF T!FireCall, T!DueAgain
  <2> QED BY <1>5, <2>4 DEF T!FireCall, T!NextJob
<1>6. CASE T!IntervalReturn
  <2>1. timer' \in [1..MaxTimers -> T!Timer]
    BY <1>6 DEF T!IntervalReturn, T!Timer
  <2> QED BY <1>6, <2>1 DEF T!IntervalReturn
<1>7. CASE T!TimeoutReturn \/ T!CallbackThrow
  BY <1>7 DEF T!TimeoutReturn, T!CallbackThrow
<1>8. CASE T!Age
  <2>1. \A due \in T!TimeLefts : T!Sooner(due) \in T!TimeLefts
    BY TimersAssumption DEF T!Sooner, T!TimeLefts
  <2>2. timer' \in [1..MaxTimers -> T!Timer]
    BY <1>8, <2>1 DEF T!Age, T!Timer
  <2> QED BY <1>8, <2>1, <2>2 DEF T!Age
<1>9. CASE UNCHANGED T!vars
  BY <1>9 DEF T!vars
<1> QED BY <1>1, <1>2, <1>3, <1>4, <1>5, <1>6, <1>7, <1>8, <1>9 DEF T!Next

\* A timer in the map has a delay that the script passed.
LEMMA DelaysTyped ==
  ASSUME T!TypeOK
  PROVE  /\ live \subseteq 1..MaxTimers
         /\ \A id \in live : timer[id].delay \in Delays \cup {0}
         /\ \A id \in live : timer[id].delay \in Int \cup {NaN}
<1>1. live \subseteq 1..MaxTimers
  BY TimersAssumption DEF T!TypeOK
<1>2. \A id \in live : timer[id].delay \in Delays \cup {0}
  BY <1>1 DEF T!TypeOK, T!Timer
<1>3. Delays \cup {0} \subseteq Int \cup {NaN}
  BY TimersAssumption
<1>4. \A id \in live : timer[id].delay \in Int \cup {NaN}
  BY <1>2, <1>3
<1> QED BY <1>1, <1>2, <1>4

\* Among the delays of the timers in the map, all of them numbers, and the
\* number that $newGlobalTimer's function starts with, there is a least one.
LEMMA LeastDelay ==
  ASSUME T!TypeOK, NaN \notin LiveDelays
  PROVE  \E least \in LiveDelays \cup {MaxSafeInteger} :
           \A delay \in LiveDelays \cup {MaxSafeInteger} : least <= delay
<1> DEFINE First(k) == {timer[id].delay : id \in live \cap 1..k}
                         \cup {MaxSafeInteger}
           HasLeast(k) == \E least \in First(k) :
                            \A delay \in First(k) : least <= delay
<1>1. First(MaxTimers) = LiveDelays \cup {MaxSafeInteger}
  BY DelaysTyped DEF LiveDelays
<1>2. \A id \in live : timer[id].delay \in Int
  BY DelaysTyped DEF LiveDelays
<1>3. \A k \in Nat : First(k) \subseteq Int
  BY <1>2, MaxSafeIntegerAssumption
<1>4. HasLeast(0)
  BY MaxSafeIntegerAssumption
<1>5. ASSUME NEW k \in Nat, HasLeast(k) PROVE HasLeast(k + 1)
  <2>1. PICK least \in First(k) : \A delay \in First(k) : least <= delay
    BY <1>5
  <2>2. least \in Int
    BY <1>3
  <2>3. CASE k + 1 \notin live
    <3>1. First(k + 1) = First(k)
      BY <2>3
    <3> HIDE DEF First
    <3> QED BY <2>1, <3>1
  <2>4. CASE k + 1 \in live
    <3>1. First(k + 1) = First(k) \cup {timer[k + 1].delay}
      BY <2>4
    <3>2. timer[k + 1].delay \in Int
      BY <1>2, <2>4
    <3>3. First(k) \subseteq Int
      BY <1>3
    <3> DEFINE other == timer[k + 1].delay
    <3> HIDE DEF First, other
    <3>4. CASE least <= other
      BY <2>1, <3>1, <3>4 DEF other
    <3>5. CASE other <= least
      <4>1. \A delay \in First(k) : other <= delay
        BY <2>1, <2>2, <3>2, <3>3, <3>5 DEF other
      <4> QED BY <3>1, <3>2, <4>1 DEF other
    <3> QED BY <2>2, <3>2, <3>4, <3>5 DEF other
  <2> QED BY <2>3, <2>4
<1> HIDE DEF HasLeast, First
<1>6. HasLeast(MaxTimers)
  <2> DEFINE Lacking == {k \in Nat : ~HasLeast(k)}
  <2> SUFFICES ASSUME MaxTimers \in Lacking PROVE FALSE
    BY TimersAssumption
  <2>1. PICK k \in Lacking : \A other \in Lacking : k <= other
    <3> HIDE DEF Lacking
    <3>1. Lacking \in SUBSET Nat
      BY DEF Lacking
    <3> QED BY <3>1, LeastNumber
  <2>2. k \in Nat /\ k # 0
    BY <1>4
  <2>3. k - 1 \in Nat /\ HasLeast(k - 1)
    BY <2>1, <2>2
  <2>4. HasLeast((k - 1) + 1)
    BY <1>5, <2>3
  <2> QED BY <2>1, <2>2, <2>4
<1> QED BY <1>1, <1>6 DEF HasLeast

\* With a NaN among the delays the next sleep is 0.  Without one it is the least
\* delay modulo 2^32.
LEMMA NextSleep ==
  ASSUME T!TypeOK
  PROVE  /\ ToUint32(MinTimeout) \in 0..(Uint32Mod - 1)
         /\ NaN \in LiveDelays => ToUint32(MinTimeout) = 0
         /\ NaN \notin LiveDelays =>
              /\ MinTimeout \in LiveDelays \cup {MaxSafeInteger}
              /\ MinTimeout \in Int
              /\ \A delay \in LiveDelays : MinTimeout <= delay
              /\ ToUint32(MinTimeout) = MinTimeout % Uint32Mod
<1>1. CASE NaN \in LiveDelays
  BY <1>1, Uint32ModAssumption DEF MinTimeout, ToUint32
<1>2. CASE NaN \notin LiveDelays
  <2>1. /\ MinTimeout \in LiveDelays \cup {MaxSafeInteger}
        /\ \A delay \in LiveDelays \cup {MaxSafeInteger} : MinTimeout <= delay
    BY <1>2, LeastDelay DEF MinTimeout
  <2>2. LiveDelays \cup {MaxSafeInteger} \subseteq Int
    BY <1>2, DelaysTyped, MaxSafeIntegerAssumption DEF LiveDelays
  <2>3. MinTimeout \in Int /\ MinTimeout # NaN
    BY <2>1, <2>2, TimersAssumption
  <2>4. MinTimeout % Uint32Mod \in 0..(Uint32Mod - 1)
    BY <2>3, Uint32ModAssumption
  <2> QED BY <1>2, <2>1, <2>3, <2>4 DEF ToUint32
<1> QED BY <1>1, <1>2

\* What ties the thread's place to its components, and the Sleep to its type.
SleepTyped ==
  /\ sleep \in 0..(Uint32Mod - 1)
  /\ sleepState \in {"new", "armed", "fired"}

PlaceMatches ==
  /\ phase \in {"idle", "polling", "resolving", "aborted"}
  /\ pc = "ops" => phase # "idle"
  /\ jobs # {} \/ running # T!NoTimer => pc = "pass"

LoopInv == IInv /\ T!TypeOK /\ SleepTyped /\ PlaceMatches

\* Only Reset and the passing of time change what is left of a sleep.
LEMMA SleepTypedStep ==
  ASSUME LoopInv, [Next]_vars PROVE SleepTyped'
<1>1. CASE Reset
  <2>1. ToUint32(MinTimeout) \in 0..(Uint32Mod - 1)
    BY NextSleep DEF LoopInv
  <2> QED BY <1>1, <2>1 DEF Reset, SleepTyped
<1>2. CASE Tick
  <2>1. sleep \in 0..(Uint32Mod - 1)
    BY DEF LoopInv, SleepTyped
  <2>2. T!Sooner(sleep) \in 0..(Uint32Mod - 1)
    BY <2>1, TimersAssumption, Uint32ModAssumption DEF T!Sooner
  <2> QED BY <1>2, <2>2 DEF Tick, LoopInv, SleepTyped
<1>3. CASE \/ UserStep \/ ScriptEnd \/ PollBegin \/ PollOps \/ PollSleepReady
           \/ CallbackEnd \/ NetworkStep \/ UNCHANGED vars
           \/ \E id \in T!TimerIds : FireSkip(id) \/ FireCall(id)
  <2>1. UNCHANGED <<sleep, sleepState>>
    BY <1>3 DEF UserStep, SetTimer, ClearTimer, Fetch, ScriptEnd, PollBegin,
                PollOps, PollSleepReady, CallbackEnd, NetworkStep, Reply,
                Progress, FireSkip, FireCall, vars, sleepVars
  <2> QED BY <2>1 DEF LoopInv, SleepTyped
<1>4. CASE PollSleepPending \/ Elapse
  BY <1>4 DEF PollSleepPending, Elapse, LoopInv, SleepTyped
<1> QED BY <1>1, <1>2, <1>3, <1>4 DEF Next, LoopStep

\* Operations are polled and resolved only in the loop over them, and the
\* microtasks of a pass are over when the pass is.
LEMMA PlaceMatchesStep ==
  ASSUME LoopInv, [Next]_vars PROVE PlaceMatches'
<1> USE DEF LoopInv, PlaceMatches, IInv, OpsOnlyInLoop
<1>1. CASE UserStep
  <2>1. CASE \E delay \in Delays, repeat \in BOOLEAN : SetTimer(delay, repeat)
    BY <2>1 DEF SetTimer, T!SetTimer, opVars
  <2>2. CASE \E id \in T!TimerIds : ClearTimer(id)
    BY <2>2 DEF ClearTimer, T!ClearTimer, opVars
  <2>3. CASE \E validUrl \in BOOLEAN : Fetch(validUrl)
    BY <2>3 DEF Fetch, F!Fetch, timerVars
  <2> QED BY <1>1, <2>1, <2>2, <2>3 DEF UserStep
<1>2. CASE ScriptEnd \/ PollSleepPending
  BY <1>2 DEF ScriptEnd, PollSleepPending, timerVars, opVars
<1>3. CASE PollBegin
  BY <1>3 DEF PollBegin, F!PollBegin, timerVars
<1>4. CASE PollOps
  <2>1. phase' \in {"idle", "polling", "resolving", "aborted"}
    BY <1>4 DEF PollOps, F!PollNext, F!PollEmpty, F!PollPending, F!PollBody,
                F!PollError, F!PollNul, F!Polls, F!Resolve, F!ResolveDone
  <2> QED BY <1>4, <2>1 DEF PollOps, timerVars
<1>5. CASE PollSleepReady
  BY <1>5 DEF PollSleepReady, T!GlobalTimerCallback, opVars
<1>6. CASE \E id \in T!TimerIds : FireSkip(id) \/ FireCall(id)
  BY <1>6 DEF FireSkip, FireCall, opVars
<1>7. CASE CallbackEnd
  BY <1>7 DEF CallbackEnd, T!IntervalReturn, T!TimeoutReturn, T!CallbackThrow,
              opVars
<1>8. CASE Reset \/ Elapse \/ UNCHANGED vars
  BY <1>8 DEF Reset, Elapse, vars, timerVars, opVars
<1>9. CASE NetworkStep
  BY <1>9 DEF NetworkStep, Reply, Progress, F!Reply, F!Progress, timerVars
<1>10. CASE Tick
  BY <1>10 DEF Tick, T!Age, opVars
<1> QED
  BY <1>1, <1>2, <1>3, <1>4, <1>5, <1>6, <1>7, <1>8, <1>9, <1>10
  DEF Next, LoopStep

\* The invariant of the loop and its timers holds at the start.
LEMMA LoopInvInit == Init => LoopInv
<1> SUFFICES ASSUME Init PROVE LoopInv
  OBVIOUS
<1>1. T!TypeOK
  BY TimersAssumption
  DEF Init, T!Init, T!FirstTimerId, T!TypeOK, T!Timer, T!TimeLefts
<1> QED BY <1>1, IInvInit, Uint32ModAssumption
  DEF Init, T!Init, F!Init, LoopInv, SleepTyped, PlaceMatches

\* It holds throughout.
LEMMA LoopInvHolds == Spec => []LoopInv
<1>1. LoopInv /\ [Next]_vars => LoopInv'
  BY IInvStep, TimersStep, TimersTypeStep, SleepTypedStep, PlaceMatchesStep
  DEF LoopInv
<1> QED BY <1>1, LoopInvInit, PTL DEF Spec

\* The event loop is type correct: what is left of its Sleep always fits in 32
\* bits, and the thread is where its timers and operations say it is.
THEOREM TypeCorrect == Spec => []TypeOK
<1>1. LoopInv => TypeOK
  BY DEF LoopInv, IInv, OpsOnlyInLoop, SleepTyped, PlaceMatches, TypeOK
<1> QED BY <1>1, LoopInvHolds, PTL

-----------------------------------------------------------------------------
(***************************************************************************)
(* Timing, however far the clock is set, for delays that fit in 32 bits.   *)
(***************************************************************************)

\* A sleep is left only while the Sleep is armed, which it is not in the script
\* nor in a pass: the two places where timers are set without a running sleep.
SleepPlaced ==
  /\ sleepState # "armed" => sleep = 0
  /\ pc \in {"script", "pass"} => sleepState # "armed"

\* A timer has times on both clocks when it has a delay, and NaN when not.
ClocksTyped ==
  /\ back \in 0..MaxStep
  /\ forth \in 0..MaxStep
  /\ wall \in [T!TimerIds -> Int \cup {NaN}]
  /\ ideal \in [T!TimerIds -> Int \cup {NaN}]
  /\ inherited \in [T!TimerIds -> Int]
  /\ \A id \in live : timer[id].delay = NaN <=> wall[id] = NaN
  /\ \A id \in live : timer[id].delay = NaN <=> ideal[id] = NaN

\* The loop compares what is left on the wall clock, past times being all alike.
DueIsWall == \A id \in live : timer[id].due = T!TimeLeft(wall[id])

\* What is left of the sleep and of a timer never differ by more than one of the
\* two bounds: the sleep was set when the timer was not overdue, or before it.
SleepCovers(id) ==
  \/ sleep - ideal[id] <= timer[id].delay + back
  \/ sleep - ideal[id] <= inherited[id] - timer[id].delay

\* A pass leaves no timer behind that is overdue by more than the clock is back.
PassCatches(id) ==
  pc = "pass" /\ id \notin jobs /\ running # id => -ideal[id] <= back

\* The wall clock is behind by what it was set back by, except for a time so
\* long past that it cannot be set back before it.
WallBehind(id) ==
  \/ wall[id] <= ideal[id] + back
  \/ wall[id] <= back - MaxStep

\* And it is ahead by what it was set forth by, unless the timer's time came.
WallAhead(id) ==
  \/ wall[id] >= ideal[id] - forth
  \/ ideal[id] <= 0

\* A callback on the stack was due when it was called.
CalledDue(id) == running = id => wall[id] <= back

ClocksAgree ==
  \A id \in live :
    timer[id].delay # NaN =>
      /\ SleepCovers(id)
      /\ PassCatches(id)
      /\ WallBehind(id)
      /\ WallAhead(id)
      /\ CalledDue(id)

\* fire's local due is a delay from the call, on a clock that may have moved.
CallClock ==
  running # T!NoTimer =>
    /\ wallNext \in Int
    /\ timer[running].delay # NaN
    /\ wallNext <= timer[running].delay + back
    /\ wallNext >= timer[running].delay - forth
    /\ nextDue = T!TimeLeft(wallNext)

ClockInv ==
  SleepPlaced /\ ClocksTyped /\ DueIsWall /\ ClocksAgree /\ CallClock

TimingInv == DelaysFit /\ LoopInv /\ ClockInv

\* What is left on the wall clock is a number or NaN, whatever the delays.
WallTyped ==
  /\ wall \in [T!TimerIds -> Int \cup {NaN}]
  /\ running # T!NoTimer => wallNext \in Int \cup {NaN}

AnyClockInv == LoopInv /\ WallTyped

-----------------------------------------------------------------------------
\* The times of a timer with a delay are numbers.
LEMMA TimesTyped ==
  ASSUME TimingInv
  PROVE  /\ back \in 0..MaxStep /\ forth \in 0..MaxStep
         /\ MaxStep \in Nat /\ Uint32Mod \in Nat
         /\ sleep \in 0..(Uint32Mod - 1)
         /\ live \subseteq T!TimerIds
         /\ jobs \subseteq T!TimerIds
         /\ running \in {T!NoTimer} \cup T!TimerIds
         /\ NaN \notin Int
         /\ \A id \in T!TimerIds :
              /\ timer[id].delay \in 0..(Uint32Mod - 1) \cup {NaN}
              /\ timer[id].repeat \in BOOLEAN
              /\ inherited[id] \in Int
              /\ wall[id] \in Int \cup {NaN}
              /\ ideal[id] \in Int \cup {NaN}
         /\ \A id \in live :
              timer[id].delay # NaN => wall[id] \in Int /\ ideal[id] \in Int
<1>1. T!TypeOK /\ SleepTyped /\ ClocksTyped
  BY DEF TimingInv, LoopInv, ClockInv
<1>2. \A id \in T!TimerIds : timer[id] \in T!Timer
  BY <1>1 DEF T!TypeOK
<1>3. Delays \cup {0} \subseteq 0..(Uint32Mod - 1) \cup {NaN}
  BY Uint32ModAssumption DEF TimingInv, DelaysFit
<1>4. \A id \in T!TimerIds : timer[id].delay \in 0..(Uint32Mod - 1) \cup {NaN}
                             /\ timer[id].repeat \in BOOLEAN
  BY <1>2, <1>3 DEF T!Timer
<1>5. /\ live \subseteq T!TimerIds
      /\ jobs \subseteq T!TimerIds
      /\ running \in {T!NoTimer} \cup T!TimerIds
  BY <1>1, TimersAssumption DEF T!TypeOK
<1>6. \A id \in live :
        timer[id].delay # NaN => wall[id] \in Int /\ ideal[id] \in Int
  BY <1>1, <1>5 DEF ClocksTyped
<1> QED
  BY <1>1, <1>4, <1>5, <1>6, TimersAssumption, Uint32ModAssumption,
     MaxStepAssumption DEF ClocksTyped, SleepTyped

\* A step of the timing specification is one of the loop, unless it sets the
\* clock.
LEMMA TimingStep ==
  ASSUME TimingNext
  PROVE  Next \/ \E ms \in -MaxStep..MaxStep \ {0} : SetClock(ms)
<1>1. CASE TimedTick
  BY <1>1 DEF TimedTick, Next
<1>2. CASE \E delay \in Delays, repeat \in BOOLEAN : TimedSetTimer(delay, repeat)
  BY <1>2 DEF TimedSetTimer, Next, UserStep
<1>3. CASE \E id \in T!TimerIds : TimedFireCall(id)
  BY <1>3 DEF TimedFireCall, Next, LoopStep
<1>4. CASE TimedCallbackEnd
  BY <1>4 DEF TimedCallbackEnd, CallbackEnd, Next, LoopStep
<1>5. CASE Untimed
  BY <1>5 DEF Untimed, Next, UserStep, LoopStep
<1> QED BY <1>1, <1>2, <1>3, <1>4, <1>5 DEF TimingNext

\* Setting the clock leaves the loop where it is, and due times stay due times.
LEMMA SetClockKeepsLoop ==
  ASSUME AnyClockInv, NEW ms \in -MaxStep..MaxStep \ {0}, SetClock(ms)
  PROVE  LoopInv' /\ WallTyped'
<1> USE DEF AnyClockInv, WallTyped
<1>1. UNCHANGED <<sleepVars, opVars, pc, live, nextTimerId, jobs, running>>
  BY DEF SetClock
<1>2. IInv' /\ SleepTyped' /\ PlaceMatches'
  BY <1>1 DEF LoopInv, IInv, OpsOnlyInLoop, WakerKept, SleepNeverDies, SleepTyped,
              PlaceMatches, sleepVars, opVars
<1>3. ms \in Int
  BY MaxStepAssumption
<1>4. wall' \in [T!TimerIds -> Int \cup {NaN}]
  BY <1>3, TimersAssumption DEF SetClock
<1>5. \A id \in T!TimerIds : T!TimeLeft(wall'[id]) \in T!TimeLefts
  BY <1>4, TimeLeftTyped
<1>6. timer' \in [T!TimerIds -> T!Timer]
  BY <1>5 DEF SetClock, LoopInv, T!TypeOK, T!Timer
<1>7. nextDue' \in T!TimeLefts
  <2>1. CASE running = T!NoTimer
    BY <2>1 DEF SetClock, LoopInv, T!TypeOK
  <2>2. CASE running # T!NoTimer
    <3>1. wallNext' \in Int \cup {NaN}
      BY <1>3, <2>2, TimersAssumption DEF SetClock
    <3>2. T!TimeLeft(wallNext') \in T!TimeLefts
      BY <3>1, TimeLeftTyped
    <3> QED BY <2>2, <3>2 DEF SetClock
  <2> QED BY <2>1, <2>2
<1>8. T!TypeOK'
  BY <1>1, <1>6, <1>7 DEF LoopInv, T!TypeOK
<1>9. WallTyped'
  <2>1. running' # T!NoTimer => wallNext' \in Int \cup {NaN}
    BY <1>1, <1>3, TimersAssumption DEF SetClock
  <2> QED BY <1>4, <2>1
<1> QED BY <1>2, <1>8, <1>9 DEF LoopInv

\* Every step keeps what EventLoopProofs shows of the loop.
LEMMA LoopInvStep ==
  ASSUME AnyClockInv, TimingNext PROVE LoopInv'
<1>1. CASE Next
  BY <1>1, IInvStep, TimersStep, TimersTypeStep, SleepTypedStep,
     PlaceMatchesStep DEF AnyClockInv, LoopInv
<1> QED BY <1>1, TimingStep, SetClockKeepsLoop

\* With delays that fit, more is known of the clocks than their types.
LEMMA AnyClock == TimingInv => AnyClockInv
  BY TimersAssumption
  DEF TimingInv, ClockInv, ClocksTyped, CallClock, AnyClockInv, WallTyped

-----------------------------------------------------------------------------
\* Only the loop itself moves the Sleep.
LEMMA SleepPlacedStep ==
  ASSUME TimingInv, TimingNext PROVE SleepPlaced'
<1> USE DEF TimingInv, ClockInv, SleepPlaced
<1>1. CASE TimedTick
  BY <1>1, TimersAssumption DEF TimedTick, Tick, T!Sooner
<1>2. CASE \E delay \in Delays, repeat \in BOOLEAN : TimedSetTimer(delay, repeat)
  BY <1>2 DEF TimedSetTimer, SetTimer, sleepVars
<1>3. CASE \E id \in T!TimerIds : TimedFireCall(id)
  BY <1>3 DEF TimedFireCall, FireCall, sleepVars
<1>4. CASE TimedCallbackEnd
  BY <1>4 DEF TimedCallbackEnd, sleepVars
<1>5. CASE \E ms \in -MaxStep..MaxStep \ {0} : SetClock(ms)
  BY <1>5 DEF SetClock, sleepVars
<1>6. CASE Untimed
  <2>1. CASE \/ \E id \in T!TimerIds : ClearTimer(id)
             \/ \E validUrl \in BOOLEAN : Fetch(validUrl)
             \/ \E id \in T!TimerIds : FireSkip(id)
             \/ NetworkStep
    BY <2>1 DEF ClearTimer, Fetch, FireSkip, NetworkStep, Reply, Progress,
                sleepVars
  <2>2. CASE ScriptEnd \/ PollBegin \/ PollOps
    BY <2>2 DEF ScriptEnd, PollBegin, PollOps, sleepVars
  <2>3. CASE PollSleepPending \/ PollSleepReady \/ Reset \/ Elapse
    BY <2>3 DEF PollSleepPending, PollSleepReady, Reset, Elapse
  <2> QED BY <1>6, <2>1, <2>2, <2>3 DEF Untimed
<1> QED BY <1>1, <1>2, <1>3, <1>4, <1>5, <1>6 DEF TimingNext

-----------------------------------------------------------------------------
(***************************************************************************)
(* The clocks, one lemma for each kind of step.                            *)
(***************************************************************************)

Clocks == ClocksTyped /\ DueIsWall /\ ClocksAgree /\ CallClock

\* What the lemmas below use of the invariant.
LEMMA ClocksOf ==
  ASSUME TimingInv
  PROVE  Clocks /\ SleepPlaced /\ PlaceMatches /\ SleepNeverDies
  BY DEF TimingInv, ClockInv, Clocks, LoopInv, IInv

\* A step that leaves the clocks and the timers that stay, and calls none, keeps
\* the clocks when it keeps the sleep and leaves no timer out of a pass.
LEMMA SameClocks ==
  ASSUME Clocks, UNCHANGED <<clockVars, ideal, inherited, sleep, timer, running,
                             nextDue>>,
         live' \subseteq live,
         \A id \in live' : PassCatches(id) => PassCatches(id)'
  PROVE  Clocks'
<1>1. ClocksTyped' /\ DueIsWall'
  BY DEF Clocks, clockVars, ClocksTyped, DueIsWall
<1>2. CallClock'
  BY DEF Clocks, clockVars, CallClock
<1>3. ClocksAgree'
  BY DEF Clocks, clockVars, ClocksAgree, SleepCovers, WallBehind, WallAhead,
         CalledDue
<1> QED BY <1>1, <1>2, <1>3 DEF Clocks

\* A millisecond takes one off the sleep and off every time that is left.
LEMMA TickKeeps ==
  ASSUME TimingInv, TimedTick PROVE Clocks'
<1> USE TimesTyped, ClocksOf DEF Clocks
<1>1. /\ running = T!NoTimer
      /\ sleep # 0
      /\ sleep' = sleep - 1
  <2>1. sleepState = "armed"
    BY DEF TimedTick, SleepNeverDies
  <2>2. sleep # 0 /\ sleep # NaN
    BY <2>1 DEF TimedTick
  <2> QED BY <2>2 DEF TimedTick, Tick, T!Sooner, PlaceMatches
<1>2. /\ UNCHANGED <<live, jobs, running, back, forth, inherited, pc>>
      /\ \A id \in T!TimerIds : timer'[id].delay = timer[id].delay
      /\ \A id \in T!TimerIds : timer'[id].due = T!Sooner(timer[id].due)
      /\ \A id \in T!TimerIds : wall'[id] = Later(wall[id])
      /\ \A id \in live : ideal'[id] = IF ideal[id] # NaN THEN ideal[id] - 1
                                       ELSE NaN
  <2>1. timer \in [T!TimerIds -> T!Timer]
    BY DEF TimingInv, LoopInv, T!TypeOK
  <2>2. \A id \in T!TimerIds : timer'[id].delay = timer[id].delay
                            /\ timer'[id].due = T!Sooner(timer[id].due)
    BY <2>1 DEF TimedTick, Tick, T!Age, T!Timer
  <2> QED BY <2>2 DEF TimedTick, Tick, T!Age
<1>3. \A id \in T!TimerIds : Later(wall[id]) \in Int \cup {NaN}
                             /\ (Later(wall[id]) = NaN <=> wall[id] = NaN)
  BY DEF Later
<1>4. \A id \in live : ideal'[id] = NaN <=> ideal[id] = NaN
  BY <1>2
<1>5. ClocksTyped'
  <2>1. wall' \in [T!TimerIds -> Int \cup {NaN}]
    BY <1>3 DEF TimedTick
  <2>2. ideal' \in [T!TimerIds -> Int \cup {NaN}]
    BY DEF TimedTick
  <2>3. \A id \in live' : /\ timer'[id].delay = NaN <=> wall'[id] = NaN
                          /\ timer'[id].delay = NaN <=> ideal'[id] = NaN
    <3> SUFFICES ASSUME NEW id \in live
                 PROVE  /\ timer'[id].delay = NaN <=> wall'[id] = NaN
                        /\ timer'[id].delay = NaN <=> ideal'[id] = NaN
      BY <1>2
    <3>1. /\ timer[id].delay = NaN <=> wall[id] = NaN
          /\ timer[id].delay = NaN <=> ideal[id] = NaN
      BY DEF ClocksTyped
    <3> QED BY <1>2, <1>3, <1>4, <3>1
  <2>4. back' \in 0..MaxStep /\ forth' \in 0..MaxStep
        /\ inherited' \in [T!TimerIds -> Int]
    BY <1>2 DEF ClocksTyped
  <2> QED BY <2>1, <2>2, <2>3, <2>4 DEF ClocksTyped
<1>6. DueIsWall'
  <2> SUFFICES ASSUME NEW id \in live
               PROVE  T!Sooner(timer[id].due) = T!TimeLeft(Later(wall[id]))
    BY <1>2 DEF DueIsWall
  <2>1. timer[id].due = T!TimeLeft(wall[id])
    BY DEF DueIsWall
  <2>2. CASE wall[id] = NaN
    BY <2>1, <2>2 DEF T!TimeLeft, T!Sooner, Later
  <2>3. CASE wall[id] \in Int /\ wall[id] > 0
    BY <2>1, <2>3 DEF T!TimeLeft, T!Sooner, Later
  <2>4. CASE wall[id] \in Int /\ wall[id] <= 0
    BY <2>1, <2>4 DEF T!TimeLeft, T!Sooner, Later
  <2> QED BY <2>2, <2>3, <2>4
<1>7. ClocksAgree'
  <2> SUFFICES ASSUME NEW id \in live, timer[id].delay # NaN
               PROVE  /\ SleepCovers(id)' /\ PassCatches(id)'
                      /\ WallBehind(id)' /\ WallAhead(id)' /\ CalledDue(id)'
    BY <1>2 DEF ClocksAgree
  <2>1. /\ SleepCovers(id) /\ WallBehind(id) /\ WallAhead(id)
        /\ wall[id] \in Int /\ ideal[id] \in Int
        /\ timer[id].delay \in Int /\ inherited[id] \in Int
    BY DEF ClocksAgree
  <2>2. ideal'[id] = ideal[id] - 1 /\ timer'[id].delay = timer[id].delay
    BY <1>2, <2>1
  <2>3. wall'[id] = IF wall[id] <= -MaxStep THEN wall[id] ELSE wall[id] - 1
    BY <1>2, <2>1 DEF Later
  <2>4. SleepCovers(id)'
    BY <1>1, <1>2, <2>1, <2>2 DEF SleepCovers
  <2>5. WallBehind(id)'
    BY <1>2, <2>1, <2>2, <2>3 DEF WallBehind
  <2>6. WallAhead(id)'
    BY <1>2, <2>1, <2>2, <2>3 DEF WallAhead
  <2>7. PassCatches(id)' /\ CalledDue(id)'
    BY <1>1, <1>2 DEF PassCatches, CalledDue, TimedTick
  <2> QED BY <2>4, <2>5, <2>6, <2>7
<1>8. CallClock'
  BY <1>1, <1>2 DEF CallClock
<1> QED BY <1>5, <1>6, <1>7, <1>8

\* A timer that is set is due its delay from now on both clocks, and the sleep
\* that runs is kept in mind: there is one only in a reaction.
LEMMA SetTimerKeeps ==
  ASSUME TimingInv, NEW delay \in Delays, NEW repeat \in BOOLEAN,
         TimedSetTimer(delay, repeat)
  PROVE  Clocks'
<1> USE TimesTyped, ClocksOf DEF Clocks
<1>1. /\ nextTimerId \in T!TimerIds
      /\ nextTimerId \notin live
      /\ running # nextTimerId
  BY TimersAssumption
  DEF TimedSetTimer, SetTimer, T!SetTimer, TimingInv, LoopInv, T!TypeOK
<1>2. /\ live' = live \cup {nextTimerId}
      /\ UNCHANGED <<jobs, running, nextDue, back, forth, wallNext, sleep, pc>>
      /\ \A id \in T!TimerIds \ {nextTimerId} :
           /\ timer'[id] = timer[id]
           /\ wall'[id] = wall[id]
           /\ ideal'[id] = ideal[id]
           /\ inherited'[id] = inherited[id]
  BY <1>1 DEF TimedSetTimer, SetTimer, T!SetTimer, sleepVars, ClocksTyped,
              TimingInv, LoopInv, T!TypeOK
<1>3. /\ timer'[nextTimerId].delay = delay
      /\ timer'[nextTimerId].due = T!TimeLeft(delay)
      /\ wall'[nextTimerId] = delay
      /\ ideal'[nextTimerId] = delay
      /\ inherited'[nextTimerId] = IF phase = "resolving" /\ sleepState = "armed"
                                   THEN sleep ELSE 0
  BY <1>1 DEF TimedSetTimer, SetTimer, T!SetTimer, ClocksTyped, TimingInv,
              LoopInv, T!TypeOK
<1>4. delay \in 0..(Uint32Mod - 1) \cup {NaN}
  BY DEF TimingInv, DelaysFit
<1>5. ClocksTyped'
  <2>1. /\ wall' \in [T!TimerIds -> Int \cup {NaN}]
        /\ ideal' \in [T!TimerIds -> Int \cup {NaN}]
        /\ inherited' \in [T!TimerIds -> Int]
    <3>1. delay \in Int \cup {NaN} /\ sleep \in Int
      BY <1>4
    <3>2. /\ wall \in [T!TimerIds -> Int \cup {NaN}]
          /\ ideal \in [T!TimerIds -> Int \cup {NaN}]
          /\ inherited \in [T!TimerIds -> Int]
      BY DEF ClocksTyped
    <3>3. /\ wall' = [wall EXCEPT ![nextTimerId] = delay]
          /\ ideal' = [ideal EXCEPT ![nextTimerId] = delay]
          /\ inherited' = [inherited EXCEPT ![nextTimerId] =
                             IF phase = "resolving" /\ sleepState = "armed"
                             THEN sleep ELSE 0]
      BY DEF TimedSetTimer
    <3> HIDE TimesTyped, ClocksOf DEF Clocks
    <3>4. wall' \in [T!TimerIds -> Int \cup {NaN}]
      BY <3>1, <3>2, <3>3
    <3>5. ideal' \in [T!TimerIds -> Int \cup {NaN}]
      BY <3>1, <3>2, <3>3
    <3>6. inherited' \in [T!TimerIds -> Int]
      <4> DEFINE kept == IF phase = "resolving" /\ sleepState = "armed"
                         THEN sleep ELSE 0
      <4>1. kept \in Int
        BY <3>1
      <4>2. inherited' = [inherited EXCEPT ![nextTimerId] = kept]
        BY <3>3
      <4> HIDE DEF kept
      <4> QED BY <3>2, <4>1, <4>2
    <3> QED BY <3>4, <3>5, <3>6
  <2>2. \A id \in live' : /\ timer'[id].delay = NaN <=> wall'[id] = NaN
                          /\ timer'[id].delay = NaN <=> ideal'[id] = NaN
    <3> SUFFICES ASSUME NEW id \in live'
                 PROVE  /\ timer'[id].delay = NaN <=> wall'[id] = NaN
                        /\ timer'[id].delay = NaN <=> ideal'[id] = NaN
      OBVIOUS
    <3>1. CASE id = nextTimerId
      BY <1>3, <3>1
    <3>2. CASE id # nextTimerId
      BY <1>2, <3>2 DEF ClocksTyped
    <3> QED BY <3>1, <3>2
  <2> QED BY <1>2, <2>1, <2>2 DEF ClocksTyped
<1>6. DueIsWall'
  BY <1>1, <1>2, <1>3 DEF DueIsWall
<1>7. ClocksAgree'
  <2> SUFFICES ASSUME NEW id \in live', timer'[id].delay # NaN
               PROVE  /\ SleepCovers(id)' /\ PassCatches(id)'
                      /\ WallBehind(id)' /\ WallAhead(id)' /\ CalledDue(id)'
    BY DEF ClocksAgree
  <2>1. CASE id # nextTimerId
    BY <1>1, <1>2, <2>1 DEF ClocksAgree, SleepCovers, PassCatches, WallBehind,
                            WallAhead, CalledDue
  <2>2. CASE id = nextTimerId
    <3>1. /\ delay \in Nat /\ back \in Nat /\ forth \in Nat /\ sleep \in Nat
          /\ timer'[id].delay = delay /\ wall'[id] = delay /\ ideal'[id] = delay
          /\ back' = back /\ forth' = forth /\ sleep' = sleep
      BY <1>2, <1>3, <1>4, <2>2
    <3>2. PassCatches(id)' /\ WallBehind(id)' /\ WallAhead(id)' /\ CalledDue(id)'
      BY <1>1, <1>2, <2>2, <3>1
      DEF PassCatches, WallBehind, WallAhead, CalledDue
    <3>3. SleepCovers(id)'
      <4>1. CASE phase = "resolving" /\ sleepState = "armed"
        BY <1>3, <2>2, <3>1, <4>1 DEF SleepCovers
      <4>2. CASE ~(phase = "resolving" /\ sleepState = "armed")
        <5>1. sleep = 0
          BY <4>2 DEF SleepPlaced, TimedSetTimer, SetTimer, UserCodeRuns
        <5> QED BY <3>1, <5>1 DEF SleepCovers
      <4> QED BY <4>1, <4>2
    <3> QED BY <3>2, <3>3
  <2> QED BY <2>1, <2>2
<1>8. CallClock'
  BY <1>1, <1>2 DEF CallClock
<1> QED BY <1>5, <1>6, <1>7, <1>8

-----------------------------------------------------------------------------
\* A microtask that calls nothing: its timer is gone, or not due, and then it
\* has time left on the wall clock.
LEMMA FireSkipKeeps ==
  ASSUME TimingInv, NEW skipped \in T!TimerIds, FireSkip(skipped),
         UNCHANGED <<clockVars, ideal, inherited>>
  PROVE  Clocks'
<1> USE TimesTyped, ClocksOf DEF Clocks
<1>1. /\ UNCHANGED <<live, timer, running, nextDue, sleep, pc>>
      /\ jobs' = jobs \ {skipped}
      /\ ~(skipped \in live /\ timer[skipped].due = 0)
  BY DEF FireSkip, T!FireSkip, T!MustCall, T!IsDue, sleepVars
<1>2. skipped \in live /\ timer[skipped].delay # NaN => -ideal[skipped] <= back
  <2> SUFFICES ASSUME skipped \in live, timer[skipped].delay # NaN
               PROVE  -ideal[skipped] <= back
    OBVIOUS
  <2>1. /\ wall[skipped] \in Int /\ ideal[skipped] \in Int
        /\ back \in Int /\ MaxStep \in Int /\ back <= MaxStep
    OBVIOUS
  <2>2. T!TimeLeft(wall[skipped]) # 0
    BY <1>1 DEF DueIsWall
  <2>3. wall[skipped] > 0
    BY <2>1, <2>2 DEF T!TimeLeft
  <2>4. WallBehind(skipped)
    BY DEF ClocksAgree
  <2> QED BY <2>1, <2>3, <2>4 DEF WallBehind
<1>3. ClocksTyped' /\ DueIsWall' /\ CallClock'
  BY <1>1 DEF ClocksTyped, DueIsWall, CallClock, clockVars
<1>4. ClocksAgree'
  <2> SUFFICES ASSUME NEW id \in live, timer[id].delay # NaN
               PROVE  /\ SleepCovers(id)' /\ PassCatches(id)'
                      /\ WallBehind(id)' /\ WallAhead(id)' /\ CalledDue(id)'
    BY <1>1 DEF ClocksAgree
  <2>1. SleepCovers(id)' /\ WallBehind(id)' /\ WallAhead(id)' /\ CalledDue(id)'
    BY <1>1 DEF ClocksAgree, SleepCovers, WallBehind, WallAhead, CalledDue,
                clockVars
  <2>2. PassCatches(id)'
    BY <1>1, <1>2 DEF ClocksAgree, PassCatches, clockVars
  <2> QED BY <2>1, <2>2
<1> QED BY <1>3, <1>4

\* What is due is a timer with a delay, at or past its time on the wall clock.
LEMMA DueByNow ==
  ASSUME TimingInv, NEW id \in live, timer[id].due = 0
  PROVE  /\ timer[id].delay # NaN
         /\ timer[id].delay \in Nat
         /\ wall[id] \in Int
         /\ wall[id] <= 0
<1> USE TimesTyped, ClocksOf DEF Clocks
<1>1. T!TimeLeft(wall[id]) = 0
  BY DEF DueIsWall
<1>2. wall[id] # NaN
  BY <1>1 DEF T!TimeLeft
<1>3. wall[id] \in Int /\ timer[id].delay # NaN
  BY <1>2 DEF ClocksTyped
<1>4. wall[id] <= 0
  BY <1>1, <1>3 DEF T!TimeLeft
<1> QED BY <1>3, <1>4

\* A timer is called: it is due, and fire computes its next due time.
LEMMA FireCallKeeps ==
  ASSUME TimingInv, NEW called \in T!TimerIds, TimedFireCall(called)
  PROVE  Clocks'
<1> USE TimesTyped, ClocksOf DEF Clocks
<1>1. /\ UNCHANGED <<live, timer, sleep, pc, back, forth, wall, ideal, inherited>>
      /\ jobs' = jobs \ {called}
      /\ running = T!NoTimer /\ running' = called
      /\ called \in live /\ timer[called].due = 0
      /\ nextDue' = T!TimeLeft(timer[called].delay)
      /\ wallNext' = nextDue'
  BY DEF TimedFireCall, FireCall, T!FireCall, T!NextJob, T!MustCall, T!IsDue,
         T!DueAgain, sleepVars
<1>2. /\ timer[called].delay # NaN /\ timer[called].delay \in Nat
      /\ wall[called] \in Int /\ wall[called] <= 0
  BY <1>1, DueByNow
<1>3. back \in Nat /\ forth \in Nat
  OBVIOUS
<1>4. ClocksTyped' /\ DueIsWall'
  BY <1>1 DEF ClocksTyped, DueIsWall
<1>5. CallClock'
  <2>1. T!TimeLeft(timer[called].delay) = timer[called].delay
    BY <1>2 DEF T!TimeLeft
  <2> QED BY <1>1, <1>2, <1>3, <2>1 DEF CallClock
<1>6. ClocksAgree'
  <2> SUFFICES ASSUME NEW id \in live, timer[id].delay # NaN
               PROVE  /\ SleepCovers(id)' /\ PassCatches(id)'
                      /\ WallBehind(id)' /\ WallAhead(id)' /\ CalledDue(id)'
    BY <1>1 DEF ClocksAgree
  <2>1. SleepCovers(id)' /\ WallBehind(id)' /\ WallAhead(id)'
    BY <1>1 DEF ClocksAgree, SleepCovers, WallBehind, WallAhead
  <2>2. PassCatches(id)'
    BY <1>1 DEF ClocksAgree, PassCatches
  <2>3. CalledDue(id)'
    BY <1>1, <1>2, <1>3 DEF CalledDue
  <2> QED BY <2>1, <2>2, <2>3
<1> QED BY <1>4, <1>5, <1>6

-----------------------------------------------------------------------------
\* A callback ends in a pass, while no sleep is left.
LEMMA CallbackPlaced ==
  ASSUME TimingInv, TimedCallbackEnd
  PROVE  /\ running \in T!TimerIds
         /\ pc = "pass" /\ sleep = 0
         /\ running' = T!NoTimer
         /\ UNCHANGED <<jobs, pc, sleep, back, forth>>
         /\ wallNext \in Int
         /\ timer[running].delay \in Nat
         /\ timer[running].delay # NaN
<1>1. running # T!NoTimer
  BY DEF TimedCallbackEnd, T!IntervalReturn, T!TimeoutReturn, T!CallbackThrow
<1>2. pc = "pass" /\ sleep = 0
  BY <1>1, ClocksOf DEF PlaceMatches, SleepPlaced
<1>3. /\ running' = T!NoTimer
      /\ UNCHANGED <<jobs, pc, sleep, back, forth>>
  BY DEF TimedCallbackEnd, T!IntervalReturn, T!TimeoutReturn, T!CallbackThrow,
         sleepVars
<1>4. wallNext \in Int /\ timer[running].delay # NaN
  BY <1>1, ClocksOf DEF Clocks, CallClock
<1>5. timer[running].delay \in Nat
  BY <1>1, <1>4, TimesTyped
<1> QED BY <1>1, <1>2, <1>3, <1>4, <1>5, TimesTyped

\* An interval starts over on both clocks.
LEMMA IntervalReturnKeeps ==
  ASSUME TimingInv, TimedCallbackEnd, T!IntervalReturn,
         wall' = [wall EXCEPT ![running] = wallNext],
         ideal' = [ideal EXCEPT ![running] = timer[running].delay]
  PROVE  Clocks'
<1> USE TimesTyped, ClocksOf, CallbackPlaced DEF Clocks
<1>1. /\ wall \in [T!TimerIds -> Int \cup {NaN}]
      /\ ideal \in [T!TimerIds -> Int \cup {NaN}]
      /\ inherited \in [T!TimerIds -> Int]
      /\ timer \in [T!TimerIds -> T!Timer]
  BY DEF ClocksTyped, TimingInv, LoopInv, T!TypeOK
<1>2. /\ live' = live
      /\ timer' = [timer EXCEPT ![running].due = nextDue]
      /\ inherited' = [inherited EXCEPT ![running] = 0]
  BY DEF TimedCallbackEnd, T!IntervalReturn
<1>3. \A id \in T!TimerIds \ {running} :
        /\ timer'[id] = timer[id] /\ wall'[id] = wall[id]
        /\ ideal'[id] = ideal[id] /\ inherited'[id] = inherited[id]
  BY <1>1, <1>2
<1>4. /\ timer'[running].delay = timer[running].delay
      /\ timer'[running].due = nextDue
      /\ wall'[running] = wallNext
      /\ ideal'[running] = timer[running].delay
      /\ nextDue = T!TimeLeft(wallNext)
      /\ wallNext <= timer[running].delay + back
      /\ wallNext >= timer[running].delay - forth
      /\ back \in Nat /\ forth \in Nat
  <2>1. /\ nextDue = T!TimeLeft(wallNext)
        /\ wallNext <= timer[running].delay + back
        /\ wallNext >= timer[running].delay - forth
    BY DEF CallClock
  <2>2. timer'[running].delay = timer[running].delay
        /\ timer'[running].due = nextDue
    BY <1>1, <1>2 DEF T!Timer
  <2>3. wall'[running] = wallNext /\ ideal'[running] = timer[running].delay
    BY <1>1
  <2> QED BY <2>1, <2>2, <2>3
<1>5. ClocksTyped'
  <2>1. /\ wall' \in [T!TimerIds -> Int \cup {NaN}]
        /\ ideal' \in [T!TimerIds -> Int \cup {NaN}]
        /\ inherited' \in [T!TimerIds -> Int]
    BY <1>1, <1>2
  <2>2. ASSUME NEW id \in live
        PROVE  /\ timer'[id].delay = NaN <=> wall'[id] = NaN
               /\ timer'[id].delay = NaN <=> ideal'[id] = NaN
    <3>1. CASE id = running
      <4>1. wallNext # NaN /\ timer[running].delay # NaN
        BY DEF CallClock
      <4> QED BY <1>4, <3>1, <4>1
    <3>2. CASE id # running
      <4>1. /\ timer[id].delay = NaN <=> wall[id] = NaN
            /\ timer[id].delay = NaN <=> ideal[id] = NaN
        BY DEF ClocksTyped
      <4> QED BY <1>3, <3>2, <4>1
    <3> QED BY <3>1, <3>2
  <2> QED BY <1>2, <2>1, <2>2 DEF ClocksTyped
<1>6. DueIsWall'
  BY <1>2, <1>3, <1>4 DEF DueIsWall
<1>7. ClocksAgree'
  <2> SUFFICES ASSUME NEW id \in live, timer'[id].delay # NaN
               PROVE  /\ SleepCovers(id)' /\ PassCatches(id)'
                      /\ WallBehind(id)' /\ WallAhead(id)' /\ CalledDue(id)'
    BY <1>2 DEF ClocksAgree
  <2>1. CASE id # running
    BY <1>3, <2>1 DEF ClocksAgree, SleepCovers, PassCatches, WallBehind,
                      WallAhead, CalledDue
  <2>2. CASE id = running
    BY <1>4, <2>2 DEF SleepCovers, PassCatches, WallBehind, WallAhead, CalledDue
  <2> QED BY <2>1, <2>2
<1>8. CallClock'
  BY DEF CallClock
<1> QED BY <1>5, <1>6, <1>7, <1>8

\* A timeout is gone, and a timer whose callback threw is due again at once.
LEMMA OtherReturnKeeps ==
  ASSUME TimingInv, TimedCallbackEnd, T!TimeoutReturn \/ T!CallbackThrow,
         ideal' = [ideal EXCEPT ![running] = 0],
         UNCHANGED wall
  PROVE  Clocks'
<1> USE TimesTyped, ClocksOf, CallbackPlaced DEF Clocks
<1>1. /\ ideal \in [T!TimerIds -> Int \cup {NaN}]
      /\ inherited \in [T!TimerIds -> Int]
  BY DEF ClocksTyped
<1>2. /\ live' \subseteq live
      /\ timer' = timer
      /\ inherited' = [inherited EXCEPT ![running] = 0]
  BY DEF TimedCallbackEnd, T!TimeoutReturn, T!CallbackThrow
<1>3. /\ \A id \in T!TimerIds \ {running} : ideal'[id] = ideal[id]
                                         /\ inherited'[id] = inherited[id]
      /\ ideal'[running] = 0
      /\ back \in Nat /\ forth \in Nat
  BY <1>1, <1>2
<1>4. ClocksTyped'
  <2>1. /\ ideal' \in [T!TimerIds -> Int \cup {NaN}]
        /\ inherited' \in [T!TimerIds -> Int]
    BY <1>1, <1>2
  <2>2. \A id \in live' : timer'[id].delay = NaN <=> ideal'[id] = NaN
    BY <1>2, <1>3 DEF ClocksTyped
  <2> QED BY <1>2, <2>1, <2>2 DEF ClocksTyped
<1>5. DueIsWall' /\ CallClock'
  BY <1>2 DEF DueIsWall, CallClock
<1>6. ClocksAgree'
  <2> SUFFICES ASSUME NEW id \in live, timer[id].delay # NaN
               PROVE  /\ SleepCovers(id)' /\ PassCatches(id)'
                      /\ WallBehind(id)' /\ WallAhead(id)' /\ CalledDue(id)'
    BY <1>2 DEF ClocksAgree
  <2>1. CASE id # running
    BY <1>2, <1>3, <2>1 DEF ClocksAgree, SleepCovers, PassCatches, WallBehind,
                            WallAhead, CalledDue
  <2>2. CASE id = running
    <3>1. wall[running] \in Int /\ wall[running] <= back
      BY <2>2 DEF ClocksAgree, CalledDue
    <3> QED BY <1>2, <1>3, <2>2, <3>1
      DEF SleepCovers, PassCatches, WallBehind, WallAhead, CalledDue
  <2> QED BY <2>1, <2>2
<1> QED BY <1>4, <1>5, <1>6

-----------------------------------------------------------------------------
\* The clock is set: every time on it moves by as much as back or forth allows.
LEMMA SetClockKeeps ==
  ASSUME TimingInv, NEW ms \in -MaxStep..MaxStep \ {0}, SetClock(ms)
  PROVE  Clocks'
<1> USE TimesTyped, ClocksOf DEF Clocks
<1>1. ms \in Int
  BY MaxStepAssumption
<1>2. /\ UNCHANGED <<live, jobs, running, sleep, pc, ideal, inherited>>
      /\ \A id \in live : /\ timer'[id].delay = timer[id].delay
                          /\ timer'[id].due = T!TimeLeft(wall'[id])
                          /\ wall'[id] = IF wall[id] = NaN THEN NaN
                                         ELSE wall[id] + ms
  <2>1. timer \in [T!TimerIds -> T!Timer]
    BY DEF TimingInv, LoopInv, T!TypeOK
  <2> QED BY <2>1 DEF SetClock, sleepVars, T!Timer
<1>3. /\ back' \in 0..MaxStep /\ forth' \in 0..MaxStep
      /\ back' = IF ms > 0 THEN back + ms ELSE back
      /\ forth' = IF ms < 0 THEN forth - ms ELSE forth
  BY <1>1 DEF SetClock
<1>4. ClocksTyped'
  <2>1. \A id \in T!TimerIds :
          (IF id \in live
           THEN IF wall[id] = NaN THEN NaN ELSE wall[id] + ms
           ELSE wall[id]) \in Int \cup {NaN}
    BY <1>1
  <2>2. wall' \in [T!TimerIds -> Int \cup {NaN}]
    BY <2>1 DEF SetClock
  <2>3. \A id \in live : wall'[id] = NaN <=> wall[id] = NaN
    BY <1>1, <1>2
  <2> QED BY <1>2, <1>3, <2>2, <2>3 DEF ClocksTyped
<1>5. DueIsWall'
  BY <1>2 DEF DueIsWall
<1>6. CallClock'
  <2> SUFFICES ASSUME running # T!NoTimer PROVE CallClock'
    BY <1>2 DEF CallClock
  <2>1. /\ wallNext \in Int /\ timer[running].delay # NaN
        /\ wallNext <= timer[running].delay + back
        /\ wallNext >= timer[running].delay - forth
    BY DEF CallClock
  <2>2. timer'[running].delay = timer[running].delay
    <3>1. timer \in [T!TimerIds -> T!Timer]
      BY DEF TimingInv, LoopInv, T!TypeOK
    <3> QED BY <3>1 DEF SetClock, T!Timer
  <2>3. wallNext' = wallNext + ms /\ nextDue' = T!TimeLeft(wallNext')
    BY <2>1 DEF SetClock
  <2>4. timer[running].delay \in Int
    BY <2>1
  <2> QED BY <1>1, <1>2, <1>3, <2>1, <2>2, <2>3, <2>4 DEF CallClock
<1>7. ClocksAgree'
  <2> SUFFICES ASSUME NEW id \in live, timer[id].delay # NaN
               PROVE  /\ SleepCovers(id)' /\ PassCatches(id)'
                      /\ WallBehind(id)' /\ WallAhead(id)' /\ CalledDue(id)'
    BY <1>2 DEF ClocksAgree
  <2>1. /\ SleepCovers(id) /\ PassCatches(id)
        /\ WallBehind(id) /\ WallAhead(id) /\ CalledDue(id)
        /\ wall[id] \in Int /\ ideal[id] \in Int /\ sleep \in Int
        /\ timer[id].delay \in Int /\ inherited[id] \in Int
        /\ back \in Int /\ forth \in Int /\ MaxStep \in Int
    BY DEF ClocksAgree
  <2>2. wall'[id] = wall[id] + ms /\ timer'[id].delay = timer[id].delay
    BY <1>2, <2>1
  <2>3. SleepCovers(id)' /\ PassCatches(id)'
    BY <1>1, <1>2, <1>3, <2>1, <2>2 DEF SleepCovers, PassCatches
  <2>4. WallBehind(id)'
    BY <1>1, <1>2, <1>3, <2>1, <2>2 DEF WallBehind
  <2>5. WallAhead(id)' /\ CalledDue(id)'
    BY <1>1, <1>2, <1>3, <2>1, <2>2 DEF WallAhead, CalledDue
  <2> QED BY <2>3, <2>4, <2>5
<1> QED BY <1>4, <1>5, <1>6, <1>7

\* The Sleep is set to no more than any delay in the map; and no timer in it is
\* overdue by more than the clock is back, for the pass has just ended.
LEMMA ResetKeeps ==
  ASSUME TimingInv, Reset, UNCHANGED <<clockVars, ideal, inherited>>
  PROVE  Clocks'
<1> USE TimesTyped, ClocksOf DEF Clocks
<1>1. /\ UNCHANGED <<live, timer, jobs, running, nextDue, back, forth, wall,
                     wallNext, ideal, inherited>>
      /\ pc = "pass" /\ jobs = {} /\ running = T!NoTimer
      /\ pc' = "parked"
      /\ sleep' = ToUint32(MinTimeout)
  BY DEF Reset, timerVars, clockVars
<1>2. \A id \in live : timer[id].delay # NaN => sleep' <= timer[id].delay
  <2> SUFFICES ASSUME NEW id \in live, timer[id].delay # NaN
               PROVE  ToUint32(MinTimeout) <= timer[id].delay
    BY <1>1
  <2>1. timer[id].delay \in 0..(Uint32Mod - 1) /\ timer[id].delay \in LiveDelays
    BY DEF LiveDelays
  <2>2. T!TypeOK
    BY DEF TimingInv, LoopInv
  <2>3. CASE NaN \in LiveDelays
    BY <2>1, <2>2, <2>3, NextSleep
  <2>4. CASE NaN \notin LiveDelays
    <3>1. /\ MinTimeout \in LiveDelays \cup {MaxSafeInteger}
          /\ MinTimeout \in Int
          /\ MinTimeout <= timer[id].delay
          /\ ToUint32(MinTimeout) = MinTimeout % Uint32Mod
      BY <2>1, <2>2, <2>4, NextSleep
    <3>2. LiveDelays \cup {MaxSafeInteger} \subseteq Nat
      BY <2>4, MaxSafeIntegerAssumption DEF LiveDelays
    <3>3. MinTimeout \in 0..(Uint32Mod - 1)
      BY <2>1, <3>1, <3>2
    <3>4. MinTimeout % Uint32Mod = MinTimeout
      BY <3>3, Uint32ModAssumption
    <3> QED BY <3>1, <3>4
  <2> QED BY <2>3, <2>4
<1>3. sleep' \in Int
  BY <1>1, NextSleep DEF TimingInv, LoopInv
<1>4. ClocksTyped' /\ DueIsWall' /\ CallClock'
  BY <1>1 DEF ClocksTyped, DueIsWall, CallClock
<1>5. ClocksAgree'
  <2> SUFFICES ASSUME NEW id \in live, timer[id].delay # NaN
               PROVE  /\ SleepCovers(id)' /\ PassCatches(id)'
                      /\ WallBehind(id)' /\ WallAhead(id)' /\ CalledDue(id)'
    BY <1>1 DEF ClocksAgree
  <2>1. WallBehind(id)' /\ WallAhead(id)' /\ CalledDue(id)' /\ PassCatches(id)'
    BY <1>1 DEF ClocksAgree, WallBehind, WallAhead, CalledDue, PassCatches
  <2>2. /\ ideal[id] \in Int /\ timer[id].delay \in Int /\ back \in Int
        /\ sleep' <= timer[id].delay
        /\ -ideal[id] <= back
    BY <1>1, <1>2 DEF ClocksAgree, PassCatches
  <2>3. SleepCovers(id)'
    BY <1>1, <1>3, <2>2 DEF SleepCovers
  <2> QED BY <2>1, <2>3
<1> QED BY <1>4, <1>5

\* The other steps touch no clock: a clear takes a timer out of the map, and a
\* pass begins with a microtask for every timer.
LEMMA OtherKeeps ==
  ASSUME TimingInv, Untimed, ~Reset,
         ~\E id \in T!TimerIds : FireSkip(id)
  PROVE  Clocks'
<1> SUFFICES /\ UNCHANGED <<sleep, timer, running, nextDue>>
             /\ live' \subseteq live
             /\ \A id \in live' : PassCatches(id) => PassCatches(id)'
  BY ClocksOf, SameClocks DEF Untimed
<1>1. CASE \E id \in T!TimerIds : ClearTimer(id)
  BY <1>1 DEF ClearTimer, T!ClearTimer, sleepVars, PassCatches, Untimed, clockVars
<1>2. CASE \/ \E validUrl \in BOOLEAN : Fetch(validUrl)
           \/ NetworkStep
  BY <1>2 DEF Fetch, NetworkStep, Reply, Progress, timerVars, sleepVars,
              PassCatches, Untimed, clockVars
<1>3. CASE ScriptEnd \/ PollBegin \/ PollSleepPending \/ Elapse
  BY <1>3 DEF ScriptEnd, PollBegin, PollSleepPending, Elapse, timerVars,
              sleepVars, PassCatches
<1>4. CASE PollOps
  BY <1>4 DEF PollOps, timerVars, sleepVars, PassCatches
<1>5. CASE PollSleepReady
  BY <1>5 DEF PollSleepReady, T!GlobalTimerCallback, PassCatches
<1> QED BY <1>1, <1>2, <1>3, <1>4, <1>5 DEF Untimed

\* Every step keeps the inductive invariant.
LEMMA TimingInvStep == TimingInv /\ [TimingNext]_timingVars => TimingInv'
<1> SUFFICES ASSUME TimingInv, [TimingNext]_timingVars PROVE TimingInv'
  OBVIOUS
<1>1. CASE UNCHANGED timingVars
  <2>1. LoopInv'
    BY <1>1, IInvStep, TimersStep, TimersTypeStep, SleepTypedStep,
       PlaceMatchesStep DEF timingVars, TimingInv, LoopInv
  <2>2. ClockInv'
    BY <1>1 DEF timingVars, vars, clockVars, timerVars, opVars, sleepVars,
                TimingInv, ClockInv, SleepPlaced, ClocksTyped, DueIsWall,
                ClocksAgree, CallClock, SleepCovers, PassCatches, WallBehind,
                WallAhead, CalledDue
  <2> QED BY <2>1, <2>2 DEF TimingInv
<1>2. CASE TimingNext
  <2>1. Clocks'
    <3>1. CASE TimedTick
      BY <3>1, TickKeeps
    <3>2. CASE \E delay \in Delays, repeat \in BOOLEAN :
                 TimedSetTimer(delay, repeat)
      BY <3>2, SetTimerKeeps
    <3>3. CASE \E id \in T!TimerIds : TimedFireCall(id)
      BY <3>3, FireCallKeeps
    <3>4. CASE TimedCallbackEnd
      <4>1. \/ /\ T!IntervalReturn
               /\ wall' = [wall EXCEPT ![running] = wallNext]
               /\ ideal' = [ideal EXCEPT ![running] = timer[running].delay]
            \/ /\ T!TimeoutReturn \/ T!CallbackThrow
               /\ ideal' = [ideal EXCEPT ![running] = 0]
               /\ UNCHANGED wall
        BY <3>4 DEF TimedCallbackEnd
      <4> QED BY <3>4, <4>1, IntervalReturnKeeps, OtherReturnKeeps
    <3>5. CASE \E ms \in -MaxStep..MaxStep \ {0} : SetClock(ms)
      BY <3>5, SetClockKeeps
    <3>6. CASE Untimed
      <4>1. UNCHANGED <<clockVars, ideal, inherited>>
        BY <3>6 DEF Untimed
      <4> QED BY <3>6, <4>1, ResetKeeps, FireSkipKeeps, OtherKeeps
    <3> QED BY <1>2, <3>1, <3>2, <3>3, <3>4, <3>5, <3>6 DEF TimingNext
  <2> QED BY <1>2, <2>1, AnyClock, LoopInvStep, SleepPlacedStep
    DEF TimingInv, ClockInv, Clocks
<1> QED BY <1>1, <1>2

\* The inductive invariant holds from the start.
LEMMA TimingInvHolds ==
  ASSUME DelaysFit PROVE TimingSpec => []TimingInv
<1>1. TimingInit => TimingInv
  <2> SUFFICES ASSUME TimingInit PROVE TimingInv
    OBVIOUS
  <2>1. LoopInv
    BY LoopInvInit DEF TimingInit
  <2>2. ClockInv
    BY MaxStepAssumption
    DEF TimingInit, Init, T!Init, ClockInv, SleepPlaced, ClocksTyped, DueIsWall,
        ClocksAgree, CallClock
  <2> QED BY <2>1, <2>2 DEF TimingInv
<1> QED BY <1>1, TimingInvStep, PTL DEF TimingSpec

-----------------------------------------------------------------------------
\* However far the clock is set, a timer in the map is never overdue by more
\* than the property allows.
THEOREM LatenessBoundThm ==
  ASSUME DelaysFit PROVE TimingSpec => []LatenessBound
<1>1. TimingInv => LatenessBound
  <2> SUFFICES ASSUME TimingInv, NEW id \in live, timer[id].delay # NaN
               PROVE  \/ -ideal[id] <= timer[id].delay + back
                      \/ -ideal[id] <= inherited[id] - timer[id].delay
    BY DEF LatenessBound
  <2>1. SleepCovers(id)
    BY ClocksOf DEF Clocks, ClocksAgree
  <2>2. /\ sleep \in Nat /\ ideal[id] \in Int /\ timer[id].delay \in Int
        /\ inherited[id] \in Int /\ back \in Int
    BY TimesTyped
  <2> QED BY <2>1, <2>2 DEF SleepCovers
<1> QED BY <1>1, TimingInvHolds, PTL

\* A timer is called early only by what the clock was set forth.
THEOREM NeverEarlyThm ==
  ASSUME DelaysFit PROVE TimingSpec => NeverEarly
<1>1. ASSUME TimingInv, TimingNext, NEW id \in T!TimerIds,
             running # id, running' = id
      PROVE  ideal[id] <= forth
  <2>1. PICK called \in T!TimerIds : TimedFireCall(called)
    <3>1. CASE TimedTick
      BY <1>1, <3>1 DEF TimedTick, Tick, T!Age
    <3>2. CASE \E delay \in Delays, repeat \in BOOLEAN :
                 TimedSetTimer(delay, repeat)
      BY <1>1, <3>2 DEF TimedSetTimer, SetTimer, T!SetTimer
    <3>3. CASE TimedCallbackEnd
      BY <1>1, <3>3, CallbackPlaced
    <3>4. CASE \E ms \in -MaxStep..MaxStep \ {0} : SetClock(ms)
      BY <1>1, <3>4 DEF SetClock
    <3>5. CASE Untimed
      BY <1>1, <3>5
      DEF Untimed, ClearTimer, T!ClearTimer, Fetch, ScriptEnd, PollBegin,
          PollOps, PollSleepPending, PollSleepReady, T!GlobalTimerCallback,
          FireSkip, T!FireSkip, Reset, Elapse, NetworkStep, Reply, Progress,
          timerVars
    <3> QED BY <1>1, <3>1, <3>2, <3>3, <3>4, <3>5 DEF TimingNext
  <2>2. called = id /\ id \in live /\ timer[id].due = 0
    BY <1>1, <2>1 DEF TimedFireCall, FireCall, T!FireCall, T!NextJob,
                      T!MustCall, T!IsDue
  <2>3. /\ wall[id] \in Int /\ wall[id] <= 0 /\ timer[id].delay # NaN
        /\ ideal[id] \in Int /\ forth \in Nat
    BY <1>1, <2>2, DueByNow, TimesTyped
  <2>4. WallAhead(id)
    BY <1>1, <2>2, <2>3, ClocksOf DEF Clocks, ClocksAgree
  <2> QED BY <2>3, <2>4 DEF WallAhead
<1>2. TimingInv /\ [TimingNext]_timingVars =>
        [\A id \in T!TimerIds :
           running # id /\ running' = id => ideal[id] <= forth]_timingVars
  BY <1>1
<1> QED BY <1>2, TimingInvHolds, PTL DEF TimingSpec, NeverEarly

-----------------------------------------------------------------------------
(***************************************************************************)
(* What setting the clock cannot break, whatever the delays: the loop is   *)
(* never without a wake, its operations are those of FetchOps, it keeps    *)
(* its types, and the script sees the timers of TimerContract.             *)
(***************************************************************************)

\* Setting the clock moves neither the thread, the Sleep nor the operations.
LEMMA SetClockAside ==
  ASSUME NEW ms, SetClock(ms)
  PROVE  UNCHANGED <<live, nextTimerId, jobs, running, opVars, sleepVars, pc>>
  BY DEF SetClock

\* The loop's own invariant does not read a due time.
LEMMA IInvTimed == IInv /\ [TimingNext]_timingVars => IInv'
<1> SUFFICES ASSUME IInv, [TimingNext]_timingVars PROVE IInv'
  OBVIOUS
<1>1. CASE [Next]_vars
  BY <1>1, IInvStep
<1>2. CASE \E ms \in -MaxStep..MaxStep \ {0} : SetClock(ms)
  BY <1>2, SetClockAside
  DEF IInv, OpsOnlyInLoop, WakerKept, SleepNeverDies, opVars, sleepVars
<1> QED BY <1>1, <1>2, TimingStep DEF timingVars

\* It holds throughout, also when the clock is set.
LEMMA IInvTimedHolds == TimingSpec => []IInv
<1>1. TimingInit => IInv
  BY IInvInit DEF TimingInit
<1> QED BY <1>1, IInvTimed, PTL DEF TimingSpec

\* A parked thread with nothing to do has its Sleep armed, wherever the clock is
\* set to: the Sleep counts time on another clock.
THEOREM SleepNeverDiesTimed == TimingSpec => []SleepNeverDies
<1>1. IInv => SleepNeverDies
  BY DEF IInv
<1> QED BY <1>1, IInvTimedHolds, PTL

\* Nor do the operations notice: the loop still takes only FetchOps's steps.
THEOREM FetchOpsStepsTimed == TimingSpec => F!Spec
<1>1. TimingInit => F!Init
  BY DEF TimingInit, Init
<1>2. IInv /\ [TimingNext]_timingVars => [F!Next]_(F!vars)
  <2> SUFFICES ASSUME IInv, [TimingNext]_timingVars PROVE [F!Next]_(F!vars)
    OBVIOUS
  <2>1. CASE [Next]_vars
    BY <2>1, OpsStep
  <2>2. CASE \E ms \in -MaxStep..MaxStep \ {0} : SetClock(ms)
    BY <2>2, SetClockAside DEF opVars, F!vars
  <2> QED BY <2>1, <2>2, TimingStep DEF timingVars
<1> QED BY <1>1, <1>2, IInvTimedHolds, PTL DEF TimingSpec, F!Spec

\* A time left on the wall clock is a time left after every step.
LEMMA WallTypedStep ==
  ASSUME AnyClockInv, TimingNext PROVE WallTyped'
<1> USE DEF AnyClockInv, WallTyped
<1>0. T!TypeOK /\ T!TypeOK' /\ T!TimeLefts \subseteq Int \cup {NaN}
  BY LoopInvStep DEF LoopInv, T!TimeLefts
<1>1. CASE TimedTick
  <2>1. /\ wall' = [id \in T!TimerIds |-> Later(wall[id])]
        /\ UNCHANGED <<running, wallNext>>
    BY <1>1 DEF TimedTick, Tick, T!Age
  <2>2. \A left \in Int \cup {NaN} : Later(left) \in Int \cup {NaN}
    BY TimersAssumption, MaxStepAssumption DEF Later
  <2> QED BY <2>1, <2>2
<1>2. ASSUME NEW delay \in Delays, NEW repeat \in BOOLEAN,
             TimedSetTimer(delay, repeat)
      PROVE  WallTyped'
  <2>1. delay \in Int \cup {NaN}
    BY TimersAssumption
  <2> QED BY <1>2, <2>1 DEF TimedSetTimer, SetTimer, T!SetTimer
<1>3. ASSUME NEW id \in T!TimerIds, TimedFireCall(id) PROVE WallTyped'
  BY <1>0, <1>3 DEF TimedFireCall, T!TypeOK
<1>4. CASE TimedCallbackEnd
  <2>1. running # T!NoTimer /\ running' = T!NoTimer
    BY <1>4 DEF TimedCallbackEnd, T!IntervalReturn, T!TimeoutReturn,
                T!CallbackThrow
  <2> QED BY <1>4, <2>1 DEF TimedCallbackEnd
<1>5. CASE \E ms \in -MaxStep..MaxStep \ {0} : SetClock(ms)
  BY <1>5, SetClockKeepsLoop
<1>6. CASE Untimed
  <2>1. UNCHANGED running
    BY <1>6
    DEF Untimed, ClearTimer, T!ClearTimer, Fetch, ScriptEnd, PollBegin,
        PollOps, PollSleepPending, PollSleepReady, T!GlobalTimerCallback,
        FireSkip, T!FireSkip, Reset, Elapse, NetworkStep, Reply, Progress,
        timerVars
  <2> QED BY <1>6, <2>1 DEF Untimed, clockVars
<1> QED BY <1>1, <1>2, <1>3, <1>4, <1>5, <1>6 DEF TimingNext

\* The loop and the wall clock keep their types throughout.
LEMMA AnyClockInvHolds == TimingSpec => []AnyClockInv
<1>1. TimingInit => AnyClockInv
  BY LoopInvInit DEF TimingInit, Init, T!Init, AnyClockInv, WallTyped
<1>2. AnyClockInv /\ [TimingNext]_timingVars => AnyClockInv'
  <2> SUFFICES ASSUME AnyClockInv, [TimingNext]_timingVars PROVE AnyClockInv'
    OBVIOUS
  <2>1. CASE TimingNext
    BY <2>1, LoopInvStep, WallTypedStep DEF AnyClockInv
  <2>2. CASE UNCHANGED timingVars
    <3>1. LoopInv'
      BY <2>2, IInvStep, TimersStep, TimersTypeStep, SleepTypedStep,
         PlaceMatchesStep DEF timingVars, AnyClockInv, LoopInv
    <3> QED BY <2>2, <3>1
      DEF timingVars, vars, timerVars, clockVars, AnyClockInv, WallTyped
  <2> QED BY <2>1, <2>2
<1> QED BY <1>1, <1>2, PTL DEF TimingSpec

\* The event loop keeps its types, wherever the clock is set to.
THEOREM TypeCorrectTimed == TimingSpec => []TypeOK
<1>1. AnyClockInv => TypeOK
  BY DEF AnyClockInv, LoopInv, IInv, OpsOnlyInLoop, SleepTyped, PlaceMatches,
         TypeOK
<1> QED BY <1>1, AnyClockInvHolds, PTL

-----------------------------------------------------------------------------
(***************************************************************************)
(* The timers in the loop implement TimerContract, also when the clock is  *)
(* set, which JsTimers does not allow.                                     *)
(***************************************************************************)

Statuses == [id \in T!TimerIds |-> T!Status(id)]
Repeats == [id \in T!TimerIds |-> timer[id].repeat]

\* A step that changes neither the map nor the ids changes no timer's status.
LEMMA SameStatuses ==
  UNCHANGED <<live, nextTimerId>> => UNCHANGED Statuses
  BY DEF Statuses, T!Status

\* The script sets a timer: the next id, which is unset until then.
LEMMA SetIsContract ==
  ASSUME T!TypeOK, NEW delay \in Delays, NEW repeat \in BOOLEAN,
         T!SetTimer(delay, repeat)
  PROVE  T!Contract!Set(nextTimerId, repeat)
<1> DEFINE new == nextTimerId
<1>1. /\ new \in T!TimerIds /\ new \in Int
      /\ nextTimerId' = new + 1
      /\ live' = live \cup {new}
      /\ timer' = [timer EXCEPT ![new] =
                     [delay |-> delay, due |-> T!TimeLeft(delay), repeat |-> repeat]]
      /\ UNCHANGED running
  BY TimersAssumption DEF T!SetTimer
<1>2. live \subseteq 1..(new - 1) /\ timer \in [T!TimerIds -> T!Timer]
  BY DEF T!TypeOK
<1>3. Statuses[new] = "unset" /\ \A id \in 1..(new - 1) : Statuses[id] # "unset"
  BY <1>1, TimersAssumption DEF Statuses, T!Status
<1>4. ASSUME NEW id \in T!TimerIds
      PROVE  T!Status(id)' = IF id = new THEN "set" ELSE T!Status(id)
  BY <1>1, <1>2 DEF T!Status
<1>5. Statuses' = [Statuses EXCEPT ![new] = "set"]
  BY <1>4 DEF Statuses
<1>6. Repeats' = [Repeats EXCEPT ![new] = repeat]
  BY <1>1, <1>2 DEF Repeats
<1> QED BY <1>1, <1>3, <1>5, <1>6 DEF T!Contract!Set, Statuses, Repeats

\* The other steps change at most one timer's status, or none.
LEMMA TimerContractStep ==
  T!TypeOK /\ [T!Next]_(T!vars) => [T!Contract!Next]_(T!Contract!vars)
<1> SUFFICES ASSUME T!TypeOK, [T!Next]_(T!vars)
             PROVE  T!Contract!Next \/ UNCHANGED <<Statuses, Repeats, running>>
  BY DEF T!Contract!vars, Statuses, Repeats
<1> USE DEF T!TypeOK
<1>0. /\ T!Contract!TimerIds = T!TimerIds
      /\ T!Contract!None = T!NoTimer
      /\ \A id \in live : id \in T!TimerIds /\ ~(id >= nextTimerId)
      /\ running # T!NoTimer
           => running \in T!TimerIds /\ ~(running >= nextTimerId)
  BY TimersAssumption DEF T!Contract!TimerIds, T!Contract!None
<1>1. ASSUME NEW delay \in Delays, NEW repeat \in BOOLEAN,
             T!SetTimer(delay, repeat)
      PROVE  T!Contract!Next
  <2>1. nextTimerId \in T!TimerIds
    BY <1>1 DEF T!SetTimer
  <2> QED BY <1>0, <1>1, <2>1, SetIsContract DEF T!Contract!Next
<1>2. ASSUME NEW id \in T!TimerIds, T!ClearTimer(id) PROVE T!Contract!Next
  <2>1. id \in live /\ live' = live \ {id}
        /\ UNCHANGED <<timer, nextTimerId, running>>
    BY <1>2 DEF T!ClearTimer
  <2>2. Statuses[id] = "set" /\ Statuses' = [Statuses EXCEPT ![id] = "gone"]
    BY <1>0, <2>1 DEF Statuses, T!Status
  <2>3. T!Contract!Clear(id)
    BY <2>1, <2>2 DEF T!Contract!Clear, Statuses
  <2> QED BY <1>0, <2>3 DEF T!Contract!Next
<1>3. ASSUME NEW id \in T!TimerIds, T!FireCall(id) PROVE T!Contract!Next
  <2>1. /\ id \in live
        /\ running = T!NoTimer
        /\ running' = id
        /\ UNCHANGED <<live, timer, nextTimerId>>
    BY <1>3 DEF T!FireCall, T!NextJob, T!MustCall
  <2>2. Statuses[id] = "set" /\ UNCHANGED Statuses
    BY <1>0, <2>1, SameStatuses DEF Statuses, T!Status
  <2>3. T!Contract!Call(id)
    BY <1>0, <2>1, <2>2 DEF T!Contract!Call, Statuses
  <2> QED BY <1>0, <2>3 DEF T!Contract!Next
<1>4. CASE T!IntervalReturn
  <2>1. /\ running \in T!TimerIds /\ running' = T!NoTimer
        /\ timer[running].repeat
        /\ timer' = [timer EXCEPT ![running].due = nextDue]
        /\ UNCHANGED <<live, nextTimerId>>
    BY <1>0, <1>4 DEF T!IntervalReturn
  <2>2. UNCHANGED Repeats /\ Repeats[running]
    BY <2>1 DEF Repeats, T!Timer
  <2>3. T!Contract!Return(running)
    BY <1>0, <2>1, <2>2, SameStatuses DEF T!Contract!Return, Statuses, Repeats
  <2> QED BY <1>0, <2>1, <2>3 DEF T!Contract!Next
<1>5. CASE T!TimeoutReturn
  <2>1. /\ running \in T!TimerIds /\ running' = T!NoTimer
        /\ ~timer[running].repeat
        /\ live' = live \ {running}
        /\ UNCHANGED <<timer, nextTimerId>>
    BY <1>0, <1>5 DEF T!TimeoutReturn
  <2>2. Statuses' = [Statuses EXCEPT ![running] = "gone"]
    <3>1. ASSUME NEW id \in T!TimerIds
          PROVE  T!Status(id)' = IF id = running THEN "gone" ELSE T!Status(id)
      <4>1. id \in live' <=> id \in live /\ id # running
        BY <2>1
      <4>2. nextTimerId' = nextTimerId /\ ~(running >= nextTimerId)
        BY <1>0, <1>5, <2>1 DEF T!TimeoutReturn
      <4> QED BY <4>1, <4>2 DEF T!Status
    <3> QED BY <3>1 DEF Statuses
  <2>3. UNCHANGED Repeats /\ ~Repeats[running]
    BY <2>1 DEF Repeats
  <2>4. T!Contract!Return(running)
    BY <1>0, <2>1, <2>2, <2>3 DEF T!Contract!Return, Statuses, Repeats
  <2> QED BY <1>0, <2>1, <2>4 DEF T!Contract!Next
<1>6. CASE T!CallbackThrow
  <2>1. /\ running \in T!TimerIds /\ running' = T!NoTimer
        /\ UNCHANGED <<live, timer, nextTimerId>>
    BY <1>0, <1>6 DEF T!CallbackThrow
  <2>2. UNCHANGED <<Statuses, Repeats>>
    BY <2>1, SameStatuses DEF Repeats
  <2>3. T!Contract!Throw(running)
    BY <1>0, <2>1, <2>2 DEF T!Contract!Throw, Statuses, Repeats
  <2> QED BY <1>0, <2>1, <2>3 DEF T!Contract!Next
<1>7. CASE T!Age
  <2>1. UNCHANGED Repeats
    BY <1>7 DEF T!Age, Repeats, T!Timer
  <2> QED BY <1>7, <2>1, SameStatuses DEF T!Age
<1>8. CASE T!GlobalTimerCallback \/ UNCHANGED T!vars
           \/ \E id \in T!TimerIds : T!FireSkip(id)
  <2>1. UNCHANGED <<live, timer, nextTimerId, running>>
    BY <1>8 DEF T!GlobalTimerCallback, T!FireSkip, T!vars
  <2> QED BY <2>1, SameStatuses DEF Repeats
<1> HIDE DEF T!TypeOK
<1> QED BY <1>1, <1>2, <1>3, <1>4, <1>5, <1>6, <1>7, <1>8 DEF T!Next


\* A clock that is set moves due times, and the script sees none of them.
LEMMA TimerContractTimed ==
  AnyClockInv /\ [TimingNext]_timingVars
    => [T!Contract!Next]_(T!Contract!vars)
<1> SUFFICES ASSUME AnyClockInv, [TimingNext]_timingVars
             PROVE  [T!Contract!Next]_(T!Contract!vars)
  OBVIOUS
<1>0. T!TypeOK
  BY DEF AnyClockInv, LoopInv
<1>1. CASE [Next]_vars
  BY <1>0, <1>1, TimersStep, TimerContractStep
<1>2. ASSUME NEW ms \in -MaxStep..MaxStep \ {0}, SetClock(ms)
      PROVE  UNCHANGED <<Statuses, Repeats, running>>
  <2>1. UNCHANGED <<live, nextTimerId, running>>
    BY <1>2 DEF SetClock
  <2>2. \A id \in T!TimerIds : timer'[id].repeat = timer[id].repeat
    BY <1>0, <1>2 DEF SetClock, T!TypeOK, T!Timer
  <2> QED BY <2>1, <2>2, SameStatuses DEF Repeats
<1>3. UNCHANGED <<Statuses, Repeats, running>> => UNCHANGED T!Contract!vars
  BY DEF T!Contract!vars, Statuses, Repeats
<1> QED BY <1>1, <1>2, <1>3, TimingStep DEF timingVars

\* No id is handed out yet, and no callback runs.
LEMMA TimerContractInit == Init => T!Contract!Init
  BY TimersAssumption
  DEF Init, T!Init, T!Contract!Init, T!Contract!TimerIds, T!Status,
      T!FirstTimerId, T!Contract!None

\* In the loop, the script sees the steps of TimerContract only.
THEOREM ImplementsTimerContractThm == Spec => T!ImplementsTimerContract
<1>1. LoopInv /\ [Next]_vars => [T!Contract!Next]_(T!Contract!vars)
  BY TimersStep, TimerContractStep DEF LoopInv
<1> QED
  BY <1>1, TimerContractInit, LoopInvHolds, PTL
  DEF Spec, T!ImplementsTimerContract, T!Contract!Spec

\* And no less when somebody sets the clock, at any moment and to any time:
\* whether a cleared timer is called does not hang on the clock.
THEOREM ImplementsTimerContractTimed ==
  TimingSpec => T!ImplementsTimerContract
<1>1. TimingInit => T!Contract!Init
  BY TimerContractInit DEF TimingInit
<1> QED
  BY <1>1, TimerContractTimed, AnyClockInvHolds, PTL
  DEF TimingSpec, T!ImplementsTimerContract, T!Contract!Spec
=============================================================================
