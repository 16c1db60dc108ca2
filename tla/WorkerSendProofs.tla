--------------------------- MODULE WorkerSendProofs -------------------------
(***************************************************************************)
(* Proofs about JavaBridge with WorkerSend on top, for every number of     *)
(* activities, objects and arguments and every choice of kinds and types:  *)
(* type correctness, that boxes are taken back and addresses are those of  *)
(* boxes, that a proper script survives, and that one activity alone       *)
(* initialises V8 properly.                                                *)
(***************************************************************************)
EXTENDS WorkerSend, TLAPS

-----------------------------------------------------------------------------
(***************************************************************************)
(* The inductive invariant.                                                *)
(***************************************************************************)

CallRecords ==
  [at : {"idle", "name", "args", "response"}, tags : Seq(Tags), next : Nat,
   type : ReturnTypes \cup {"null"}, sig : 0..255]

\* The arguments of a call are taken from the first to the last.
CallTyped ==
  /\ call \in CallRecords
  /\ Len(call.tags) <= MaxArgs
  /\ call.next \in 0..(Len(call.tags) + 1)
  /\ call.at = "name" => call.next = 1
  /\ call.at = "args" => call.next >= 1

\* The boxes that exist are the name's, until that is taken, and those of the
\* string arguments from the next one on.
BoxesAhead ==
  /\ 0 \in boxes => call.at = "name"
  /\ \A i \in boxes : i # 0 =>
       /\ call.at \in {"name", "args"}
       /\ i \in call.next..Len(call.tags)
       /\ call.tags[i] = StringTag

\* Without a stray tag, every address ahead is that of a box.
StringsBoxed ==
  call.at \in {"name", "args"} /\ ~misused =>
    \A i \in call.next..Len(call.tags) :
      call.tags[i] = StringTag => i \in boxes

\* A Response with a sig holds an object of the type that the sig stands for.
ResponseMatches ==
  call.at = "response" =>
    \/ call.sig = NoIndex
    \/ call.type \in DOMAIN ClassToIndex /\ call.sig = ClassToIndex[call.type]

\* An exception stays pending after what has no answer only.
PendingIsMisuse == pending => misused

BridgeInv ==
  /\ CallTyped
  /\ BoxesAhead
  /\ StringsBoxed
  /\ ResponseMatches
  /\ PendingIsMisuse

IInv ==
  /\ TypeOK
  /\ BridgeInv
  /\ ScriptSurvives

-----------------------------------------------------------------------------
(***************************************************************************)
(* Calls and Responses.                                                    *)
(***************************************************************************)

\* The tags of a call, as TypeOK has them, are a sequence.
LEMMA TagsAreSequences ==
  UNION {[1..n -> Tags] : n \in 0..MaxArgs} =
    {s \in Seq(Tags) : Len(s) <= MaxArgs}
<1>1. ASSUME NEW n \in 0..MaxArgs, NEW s \in [1..n -> Tags]
      PROVE  s \in Seq(Tags) /\ Len(s) <= MaxArgs
  BY MaxArgsAssumption
<1>2. ASSUME NEW s \in Seq(Tags), Len(s) <= MaxArgs
      PROVE  /\ Len(s) \in 0..MaxArgs
             /\ s \in [1..Len(s) -> Tags]
  BY MaxArgsAssumption, <1>2
<1> QED BY <1>1, <1>2

\* What classToIndex numbers is what the bridge unboxes under that number.
LEMMA SigsMatchTypes ==
  ASSUME NEW type \in DOMAIN ClassToIndex, NEW sig, sig = ClassToIndex[type]
  PROVE  /\ sig \in 0..4
         /\ sig \in DOMAIN Unboxes => Unboxes[sig] = type
<1>1. CASE type = "int"
  BY <1>1 DEF ClassToIndex, Unboxes
<1>2. CASE type = "long"
  BY <1>2 DEF ClassToIndex, Unboxes
<1>3. CASE type = "double"
  BY <1>3 DEF ClassToIndex, Unboxes
<1>4. CASE type = "String"
  BY <1>4 DEF ClassToIndex, Unboxes
<1>5. CASE type = "Void"
  BY <1>5 DEF ClassToIndex, Unboxes
<1> QED BY <1>1, <1>2, <1>3, <1>4, <1>5 DEF ClassToIndex

-----------------------------------------------------------------------------
(***************************************************************************)
(* What the actions do.                                                    *)
(***************************************************************************)

\* Nothing was created, made or called.
LEMMA IInvInit == WorkerInit => IInv
<1> SUFFICES ASSUME Init PROVE IInv
  BY DEF WorkerInit
<1>1. call = NoCall /\ boxes = {} /\ pending = FALSE /\ misused = FALSE
  BY DEF Init
<1>2. /\ call.at = "idle" /\ call.tags = <<>> /\ call.next = 0
      /\ call.type = "null" /\ call.sig = 255
  BY <1>1 DEF NoCall, NoIndex
<1>3. LifecycleTypeOK /\ crashed = FALSE
  BY DEF Init, LifecycleInit, LifecycleTypeOK
<1>4. call \in CallRecords
  BY <1>1 DEF NoCall, NoIndex, CallRecords
<1>5. BridgeInv
  BY <1>1, <1>2, <1>4, MaxArgsAssumption
  DEF BridgeInv, CallTyped, BoxesAhead, StringsBoxed, ResponseMatches,
      PendingIsMisuse
<1>6. call.tags \in UNION {[1..n -> Tags] : n \in 0..MaxArgs}
  BY <1>4, <1>2, TagsAreSequences, MaxArgsAssumption DEF CallRecords
<1>7. TypeOK
  <2>1. call.next \in 0..(MaxArgs + 1) /\ call.sig \in 0..255
    BY <1>2, MaxArgsAssumption
  <2>2. made \subseteq Wrappers
    BY DEF Init
  <2> QED BY <1>1, <1>2, <1>3, <1>6, <2>1, <2>2 DEF TypeOK
<1> QED BY <1>3, <1>5, <1>7 DEF IInv, ScriptSurvives

\* Android creates or destroys an activity, or a thread initialises V8.
LEMMA LifecycleKeeps ==
  ASSUME IInv, LifecycleStep PROVE IInv'
<1>1. PICK a \in Activities : OnCreate(a) \/ OnDestroy(a) \/ DenoInit(a)
  BY DEF LifecycleStep
<1>2. UNCHANGED <<made, call, boxes, pending, misused>> /\ ~crashed
  BY DEF LifecycleStep, bridgeVars, OnCreate, OnDestroy, DenoInit
<1>3. a # 0
  BY MaxActivitiesAssumption DEF Activities
<1>4. LifecycleTypeOK'
  BY <1>1, <1>3
  DEF OnCreate, OnDestroy, DenoInit, IInv, TypeOK, LifecycleTypeOK
<1>5. ScriptSurvives'
  <2>1. CASE OnCreate(a) \/ OnDestroy(a)
    BY <1>2, <2>1 DEF OnCreate, OnDestroy, ScriptSurvives
  <2>2. CASE DenoInit(a)
    BY <1>2, <2>2 DEF DenoInit, IInv, TypeOK, LifecycleTypeOK, ScriptSurvives
  <2> QED BY <1>1, <2>1, <2>2
<1>6. TypeOK'
  BY <1>2, <1>4 DEF IInv, TypeOK
<1>7. BridgeInv'
  BY <1>2 DEF IInv, BridgeInv, CallTyped, BoxesAhead, StringsBoxed,
     ResponseMatches, PendingIsMisuse
<1> QED BY <1>4, <1>5, <1>6, <1>7 DEF IInv

\* The script's steps change none of what Lifecycle has, unless the process
\* ends.
LEMMA ScriptStepKeeps ==
  ASSUME IInv, BridgeInv',
         UNCHANGED <<activity, gctx, globalRefs, platform, thread>>,
         crashed' \in BOOLEAN,
         crashed' => crashed \/ misused',
         misused => misused',
         made' \subseteq Wrappers,
         boxes' \subseteq 0..MaxArgs,
         pending' \in BOOLEAN, misused' \in BOOLEAN
  PROVE  IInv'
<1>1. LifecycleTypeOK'
  BY DEF IInv, TypeOK, LifecycleTypeOK
<1>2. /\ call'.tags \in Seq(Tags) /\ Len(call'.tags) <= MaxArgs
      /\ call'.at \in {"idle", "name", "args", "response"}
      /\ call'.type \in ReturnTypes \cup {"null"}
      /\ call'.sig \in 0..255
  BY DEF BridgeInv, CallTyped, CallRecords
<1>3. call'.next \in 0..(MaxArgs + 1)
  BY <1>2, MaxArgsAssumption DEF BridgeInv, CallTyped
<1>4. TypeOK'
  BY <1>1, <1>2, <1>3, TagsAreSequences DEF TypeOK
<1>5. ScriptSurvives'
  BY DEF IInv, ScriptSurvives
<1> QED BY <1>1, <1>4, <1>5 DEF IInv

\* new Java(..), with a class that is there or not.
LEMMA ConstructKeeps ==
  ASSUME IInv, ConstructStep PROVE IInv'
<1>1. PICK w \in Wrappers, name \in Names :
        Construct(w, name) \/ ConstructPanics(w, name)
  BY DEF ConstructStep
<1>2. /\ made' \subseteq Wrappers
      /\ pending' \in BOOLEAN /\ misused' \in BOOLEAN /\ crashed' \in BOOLEAN
      /\ crashed' => crashed \/ misused'
      /\ misused => misused'
      /\ pending' => misused'
      /\ UNCHANGED <<activity, gctx, globalRefs, platform, thread, call, boxes>>
  <2>1. /\ pending => misused
        /\ made \subseteq Wrappers
        /\ misused \in BOOLEAN /\ crashed \in BOOLEAN /\ pending \in BOOLEAN
    BY DEF IInv, TypeOK, LifecycleTypeOK, BridgeInv, PendingIsMisuse
  <2>2. CASE Construct(w, name)
    BY <2>1, <2>2 DEF Construct, lifecycleVars
  <2>3. CASE ConstructPanics(w, name)
    <3>1. misused'
      BY <2>1, <2>3 DEF ConstructPanics
    <3> QED BY <2>1, <2>3, <3>1 DEF ConstructPanics, Panic
  <2> QED BY <1>1, <2>2, <2>3
<1>3. BridgeInv'
  BY <1>2 DEF IInv, BridgeInv, CallTyped, BoxesAhead, StringsBoxed,
     ResponseMatches, PendingIsMisuse
<1> QED BY <1>2, <1>3, ScriptStepKeeps DEF IInv, TypeOK

\* A call that boxes its strings.
LEMMA InvokeKeeps ==
  ASSUME IInv, NEW w \in Wrappers, NEW args \in ArgLists, Invoke(w, args)
  PROVE  IInv'
<1>1. PICK n \in 0..MaxArgs : args \in [1..n -> ArgKinds]
  BY DEF ArgLists
<1>2. n \in Nat /\ DOMAIN args = 1..n
  BY <1>1, MaxArgsAssumption
<1>3. PICK tags \in [1..n -> Tags] :
        /\ \A i \in 1..n : tags[i] \in TagsOf(args[i])
        /\ call' = [NoCall EXCEPT !.at = "name", !.tags = tags, !.next = 1]
  BY <1>2 DEF Invoke, Tags
<1>4. /\ call'.at = "name" /\ call'.tags = tags /\ call'.next = 1
      /\ call'.type = "null" /\ call'.sig = 255
  BY <1>3 DEF NoCall, NoIndex
<1>5. /\ tags \in Seq(Tags) /\ Len(tags) = n
      /\ call' \in CallRecords
  <2>1. tags \in Seq(Tags) /\ Len(tags) = n
    BY <1>2
  <2>2. call' = [at |-> "name", tags |-> tags, next |-> 1, type |-> "null",
                 sig |-> 255]
    BY <1>3 DEF NoCall, NoIndex
  <2> QED BY <2>1, <2>2 DEF CallRecords
<1>6. /\ boxes' = {0} \cup {i \in 1..n : args[i] = "string"}
      /\ misused' = (misused \/ \E i \in 1..n : args[i] = "other")
      /\ UNCHANGED <<activity, gctx, globalRefs, platform, thread, crashed,
                     made, pending>>
  BY <1>2 DEF Invoke, lifecycleVars
<1>7. \A i \in 1..n : args[i] \in {"int", "string", "other"}
  BY <1>1, ArgKindsAssumption
<1>8. \A i \in 1..n :
        /\ args[i] = "string" => tags[i] = StringTag
        /\ args[i] = "int" => tags[i] # StringTag
  BY <1>3 DEF TagsOf, IntTag, StringTag
<1>9. CallTyped'
  BY <1>1, <1>2, <1>4, <1>5 DEF CallTyped
<1>10. BoxesAhead'
  <2>1. ASSUME NEW i \in boxes', i # 0
        PROVE  i \in 1..n /\ tags[i] = StringTag
    BY <1>6, <1>8, <2>1
  <2>2. call'.next..Len(call'.tags) = 1..n
    BY <1>4, <1>5
  <2> QED BY <1>4, <2>1, <2>2 DEF BoxesAhead
<1>11. StringsBoxed'
  <2>1. ASSUME ~misused', NEW i \in 1..n, tags[i] = StringTag
        PROVE  i \in boxes'
    <3>1. args[i] # "other"
      BY <1>6, <2>1
    <3> QED BY <1>6, <1>7, <1>8, <2>1, <3>1
  <2>2. call'.next..Len(call'.tags) = 1..n
    BY <1>4, <1>5
  <2> QED BY <1>4, <2>1, <2>2 DEF StringsBoxed
<1>12. ResponseMatches' /\ PendingIsMisuse'
  BY <1>4, <1>6 DEF IInv, BridgeInv, ResponseMatches, PendingIsMisuse
<1>13. BridgeInv'
  BY <1>9, <1>10, <1>11, <1>12 DEF BridgeInv
<1>14. boxes' \subseteq 0..MaxArgs
  BY <1>1, <1>2, <1>6, MaxArgsAssumption
<1>15. misused' \in BOOLEAN /\ (misused => misused') /\ crashed' \in BOOLEAN
  BY <1>6 DEF IInv, TypeOK, LifecycleTypeOK
<1> QED BY <1>4, <1>6, <1>13, <1>14, <1>15, ScriptStepKeeps DEF IInv, TypeOK

\* Rust takes the name's box, and panics when an exception is pending.
LEMMA TakeNameKeeps ==
  ASSUME IInv, TakeName PROVE IInv'
<1>1. /\ call.at = "name"
      /\ boxes' = boxes \ {0}
      /\ call' = [call EXCEPT !.at = "args"]
      /\ crashed' = (pending \/ crashed)
      /\ UNCHANGED <<activity, gctx, globalRefs, platform, thread, made, pending,
                     misused>>
  BY DEF TakeName, At, Panic, IInv, TypeOK, LifecycleTypeOK
<1>2. /\ call' \in CallRecords
      /\ call'.at = "args" /\ call'.tags = call.tags /\ call'.next = call.next
      /\ call.next = 1
  BY <1>1 DEF IInv, BridgeInv, CallTyped, CallRecords
<1>3. BridgeInv'
  <2>1. CallTyped' /\ ResponseMatches' /\ PendingIsMisuse'
    BY <1>1, <1>2 DEF IInv, BridgeInv, CallTyped, ResponseMatches,
       PendingIsMisuse
  <2>2. BoxesAhead'
    BY <1>1, <1>2 DEF IInv, BridgeInv, BoxesAhead
  <2>3. StringsBoxed'
    BY <1>1, <1>2 DEF IInv, BridgeInv, StringsBoxed
  <2> QED BY <2>1, <2>2, <2>3 DEF BridgeInv
<1>4. crashed' => crashed \/ misused'
  BY <1>1 DEF IInv, BridgeInv, PendingIsMisuse
<1> QED BY <1>1, <1>3, <1>4, ScriptStepKeeps DEF IInv, TypeOK, LifecycleTypeOK

\* Rust takes an argument, and its box when it has one.
LEMMA TakeArgKeeps ==
  ASSUME IInv, TakeArg PROVE IInv'
<1>1. /\ call.at = "args" /\ call.next <= Len(call.tags)
      /\ call.tags[call.next] = StringTag => call.next \in boxes
      /\ boxes' = IF call.tags[call.next] = StringTag THEN boxes \ {call.next}
                  ELSE boxes
      /\ call' = [call EXCEPT !.next = @ + 1]
      /\ UNCHANGED <<activity, gctx, globalRefs, platform, thread, crashed,
                     made, pending, misused>>
  BY DEF TakeArg, At, lifecycleVars
<1>2. /\ call \in CallRecords
      /\ call.next \in Nat /\ call.next >= 1
      /\ call.tags \in Seq(Tags) /\ Len(call.tags) \in Nat
  BY <1>1 DEF IInv, BridgeInv, CallTyped, CallRecords
<1>3. /\ call' \in CallRecords
      /\ call'.at = "args" /\ call'.tags = call.tags
      /\ call'.next = call.next + 1
  <2> DEFINE new == call.next + 1
  <2>1. new \in Nat /\ call' = [call EXCEPT !.next = new]
    BY <1>1, <1>2
  <2> HIDE DEF new
  <2>2. call' \in CallRecords /\ call'.next = new
        /\ call'.at = call.at /\ call'.tags = call.tags
    BY <1>2, <2>1 DEF CallRecords
  <2> QED BY <1>1, <2>2 DEF new
<1>4. CallTyped'
  BY <1>1, <1>2, <1>3 DEF IInv, BridgeInv, CallTyped
<1>5. BoxesAhead'
  <2>1. 0 \notin boxes' /\ boxes' \subseteq boxes
    BY <1>1 DEF IInv, BridgeInv, BoxesAhead
  <2>2. ASSUME NEW i \in boxes', i # 0
        PROVE  i \in call'.next..Len(call'.tags) /\ call'.tags[i] = StringTag
    <3>1. i \in call.next..Len(call.tags) /\ call.tags[i] = StringTag
      BY <2>1, <2>2 DEF IInv, BridgeInv, BoxesAhead
    <3>2. i # call.next
      BY <1>1, <2>2, <3>1
    <3> QED BY <1>2, <1>3, <3>1, <3>2
  <2> QED BY <1>3, <2>1, <2>2 DEF BoxesAhead
<1>6. StringsBoxed'
  BY <1>1, <1>2, <1>3 DEF IInv, BridgeInv, StringsBoxed
<1>7. BridgeInv'
  BY <1>1, <1>3, <1>4, <1>5, <1>6
  DEF IInv, BridgeInv, ResponseMatches, PendingIsMisuse
<1> QED BY <1>1, <1>7, ScriptStepKeeps DEF IInv, TypeOK, LifecycleTypeOK

\* A stray tag: the script passed what has none.
LEMMA TakeStrayKeeps ==
  ASSUME IInv, TakeStray PROVE IInv'
<1>1. /\ call.at = "args" /\ call.next <= Len(call.tags)
      /\ call.tags[call.next] = StringTag /\ call.next \notin boxes
      /\ crashed' = TRUE
      /\ UNCHANGED <<activity, gctx, globalRefs, platform, thread, made, call,
                     boxes, pending, misused>>
  BY DEF TakeStray, At, bridgeVars
<1>2. call.next \in call.next..Len(call.tags)
  BY <1>1 DEF IInv, BridgeInv, CallTyped, CallRecords
<1>3. misused
  BY <1>1, <1>2 DEF IInv, BridgeInv, StringsBoxed, TypeOK
<1>4. BridgeInv'
  BY <1>1 DEF IInv, BridgeInv, CallTyped, BoxesAhead, StringsBoxed,
     ResponseMatches, PendingIsMisuse
<1> QED BY <1>1, <1>3, <1>4, ScriptStepKeeps DEF IInv, TypeOK

\* Java answers or throws, or its answer is taken: every box was taken before.
LEMMA AnswerKeeps ==
  ASSUME IInv, CallReturns \/ CallThrows \/ TakeResponse PROVE IInv'
<1>1. /\ call.at \in {"args", "response"}
      /\ call.at = "args" => call.next > Len(call.tags)
      /\ UNCHANGED <<activity, gctx, globalRefs, platform, thread, made, boxes>>
  BY DEF CallReturns, CallThrows, TakeResponse, AllTaken, At, lifecycleVars
<1>2. boxes = {}
  BY <1>1 DEF IInv, BridgeInv, CallTyped, CallRecords, BoxesAhead
<1>3. NoCall \in CallRecords /\ NoCall.at = "idle" /\ NoCall.tags = <<>>
      /\ NoCall.next = 0
  BY DEF NoCall, NoIndex, CallRecords
<1>4. CASE CallReturns
  <2>1. PICK type \in ReturnTypes \cup {"null"}, sig \in 0..255 :
          /\ Respond(type, sig)
          /\ \/ sig = NoIndex
             \/ type \in DOMAIN ClassToIndex /\ sig = ClassToIndex[type]
    BY <1>4, SigsMatchTypes DEF CallReturns, NoIndex
  <2>2. /\ call' \in CallRecords
        /\ call'.at = "response" /\ call'.tags = call.tags
        /\ call'.next = call.next /\ call'.type = type /\ call'.sig = sig
    BY <2>1 DEF Respond, IInv, BridgeInv, CallTyped, CallRecords
  <2>3. UNCHANGED <<pending, misused, crashed>>
    BY <1>4 DEF CallReturns, lifecycleVars
  <2>4. BridgeInv'
    BY <1>1, <1>2, <2>1, <2>2, <2>3
    DEF IInv, BridgeInv, CallTyped, BoxesAhead, StringsBoxed, ResponseMatches,
        PendingIsMisuse
  <2> QED BY <1>1, <2>3, <2>4, ScriptStepKeeps DEF IInv, TypeOK,
             LifecycleTypeOK
<1>5. CASE CallThrows \/ TakeResponse
  <2>1. /\ call' = NoCall
        /\ pending' \in BOOLEAN /\ misused' \in BOOLEAN /\ crashed' \in BOOLEAN
        /\ misused => misused'
        /\ pending' => misused'
        /\ crashed' => crashed
    <3>1. CASE CallThrows
      BY <3>1 DEF CallThrows, lifecycleVars, IInv, TypeOK, LifecycleTypeOK
    <3>2. CASE TakeResponse
      <4>1. ~(call.sig \in DOMAIN Unboxes /\ Unboxes[call.sig] # call.type)
        <5>1. CASE call.sig = NoIndex
          BY <5>1 DEF NoIndex, Unboxes
        <5>2. CASE call.sig # NoIndex
          BY <3>2, <5>2, SigsMatchTypes
          DEF TakeResponse, At, IInv, BridgeInv, ResponseMatches
        <5> QED BY <5>1, <5>2
      <4> QED BY <3>2, <4>1
              DEF TakeResponse, IInv, TypeOK, LifecycleTypeOK, BridgeInv,
                  PendingIsMisuse
    <3> QED BY <1>5, <3>1, <3>2
  <2>2. BridgeInv'
    BY <1>1, <1>2, <1>3, <2>1, MaxArgsAssumption
    DEF BridgeInv, CallTyped, BoxesAhead, StringsBoxed, ResponseMatches,
        PendingIsMisuse
  <2> QED BY <1>1, <2>1, <2>2, ScriptStepKeeps DEF IInv, TypeOK
<1> QED BY <1>4, <1>5

\* isMethod and isField end the process with an exception pending; $sendBuffer
\* ends it when a user function does not return what it is asked for.
LEMMA CrashKeeps ==
  ASSUME IInv,
         (\E w \in Wrappers : IsMemberPanics(w)) \/ SendStep
  PROVE  IInv'
<1>1. /\ UNCHANGED <<activity, gctx, globalRefs, platform, thread, made, call,
                     boxes, pending>>
      /\ misused' \in BOOLEAN /\ crashed' \in BOOLEAN
      /\ crashed' => crashed \/ misused'
      /\ misused => misused'
  <2>1. CASE \E w \in Wrappers : IsMemberPanics(w)
    <3>1. misused /\ misused \in BOOLEAN
      BY <2>1 DEF IsMemberPanics, IInv, TypeOK, BridgeInv, PendingIsMisuse
    <3> QED BY <2>1, <3>1 DEF IsMemberPanics, Panic, bridgeVars
  <2>2. CASE SendStep
    <3>1. CASE FunctionFails \/ PromiseResolverFails
      BY <3>1 DEF FunctionFails, PromiseResolverFails
    <3>2. CASE SendBuffer \/ FunctionReturns \/ PromiseReturns \/ PromiseResolver
      BY <3>2 DEF SendBuffer, FunctionReturns, PromiseReturns, PromiseResolver,
         vars, lifecycleVars, bridgeVars, IInv, TypeOK, LifecycleTypeOK
    <3> QED BY <2>2, <3>1, <3>2 DEF SendStep
  <2> QED BY <2>1, <2>2
<1>2. BridgeInv'
  BY <1>1 DEF IInv, BridgeInv, CallTyped, BoxesAhead, StringsBoxed,
     ResponseMatches, PendingIsMisuse
<1> QED BY <1>1, <1>2, ScriptStepKeeps DEF IInv, TypeOK

\* Every step keeps the invariant.
LEMMA IInvNext == IInv /\ [WorkerNext]_workerVars => IInv'
<1> SUFFICES ASSUME IInv, [WorkerNext]_workerVars PROVE IInv'
  OBVIOUS
<1>1. ASSUME CallStep PROVE IInv'
  BY <1>1, InvokeKeeps, TakeNameKeeps, TakeArgKeeps, TakeStrayKeeps, AnswerKeeps
  DEF CallStep
<1>2. ASSUME UNCHANGED workerVars PROVE IInv'
  BY <1>2 DEF workerVars, vars, lifecycleVars, bridgeVars, IInv, TypeOK,
     LifecycleTypeOK, BridgeInv, CallTyped, BoxesAhead,
     StringsBoxed, ResponseMatches, PendingIsMisuse, ScriptSurvives
<1> QED BY <1>1, <1>2, LifecycleKeeps, ConstructKeeps, CrashKeeps DEF WorkerNext

\* The invariant holds in every behaviour.
LEMMA IInvHolds == WorkerSpec => []IInv
  BY IInvInit, IInvNext, PTL DEF WorkerSpec

-----------------------------------------------------------------------------
(***************************************************************************)
(* The platform.                                                           *)
(***************************************************************************)

\* A thread of demoMain belongs to an onCreate, and the platform to a thread.
PlatformOwned ==
  /\ \A a \in Activities : thread[a] # "none" <=> activity[a] # "none"
  /\ platform => \E a \in Activities : thread[a] = "running"

\* onCreate starts a thread of its own, which finds a platform or makes it.
LEMMA PlatformOwnedNext ==
  ASSUME IInv, PlatformOwned, [WorkerNext]_workerVars
  PROVE  PlatformOwned'
<1>0. /\ thread \in [Activities -> {"none", "started", "running"}]
      /\ activity \in [Activities -> {"none", "created", "destroyed"}]
  BY DEF IInv, TypeOK, LifecycleTypeOK
<1>1. ASSUME NEW a \in Activities, OnCreate(a) PROVE PlatformOwned'
  BY <1>0, <1>1 DEF OnCreate, PlatformOwned
<1>2. ASSUME NEW a \in Activities, OnDestroy(a) PROVE PlatformOwned'
  BY <1>0, <1>2 DEF OnDestroy, PlatformOwned
<1>3. ASSUME NEW a \in Activities, DenoInit(a) PROVE PlatformOwned'
  BY <1>0, <1>3 DEF DenoInit, PlatformOwned
<1>4. CASE ConstructStep \/ CallStep \/ SendStep
           \/ (\E w \in Wrappers : IsMemberPanics(w)) \/ UNCHANGED workerVars
  <2>1. UNCHANGED <<activity, thread, platform>>
    BY <1>4 DEF ConstructStep, Construct, ConstructPanics, CallStep, Invoke,
       TakeName, TakeArg, TakeStray, CallReturns, CallThrows, TakeResponse,
       IsMemberPanics, SendStep, SendBuffer, FunctionReturns, PromiseReturns,
       FunctionFails, PromiseResolver, PromiseResolverFails, workerVars, vars,
       lifecycleVars
  <2> QED BY <2>1 DEF PlatformOwned
<1> QED BY <1>1, <1>2, <1>3, <1>4 DEF WorkerNext, LifecycleStep

-----------------------------------------------------------------------------
(***************************************************************************)
(* A script that passes int32s and strings only and calls methods whose    *)
(* types have an index.                                                    *)
(***************************************************************************)

ProperCalls == "other" \notin ArgKinds /\ ReturnTypes \subseteq DOMAIN ClassToIndex

\* Every tag is written, and what still has no answer ends the process at once,
\* outside every call.
MisuseEnds ==
  /\ \A i \in DOMAIN call.tags : call.tags[i] \in {IntTag, StringTag}
  /\ misused => crashed /\ call.at = "idle"

LEMMA MisuseEndsNext ==
  ASSUME ProperCalls, IInv, MisuseEnds, [WorkerNext]_workerVars
  PROVE  MisuseEnds'
<1>0. call \in CallRecords
  BY DEF IInv, BridgeInv, CallTyped
<1>1. CASE UNCHANGED <<call, misused, crashed>>
  BY <1>1 DEF MisuseEnds
<1>2. ASSUME NEW w \in Wrappers, NEW args \in ArgLists, Invoke(w, args)
      PROVE  MisuseEnds'
  <2>1. \A i \in DOMAIN args : args[i] \in {"int", "string"}
    <3>1. PICK n \in 0..MaxArgs : args \in [1..n -> ArgKinds]
      BY DEF ArgLists
    <3> QED BY <3>1, ArgKindsAssumption DEF ProperCalls
  <2>2. PICK tags \in [DOMAIN args -> {IntTag, StringTag, NoTag}] :
          /\ \A i \in DOMAIN args : tags[i] \in TagsOf(args[i])
          /\ call' = [NoCall EXCEPT !.at = "name", !.tags = tags, !.next = 1]
    BY <1>2 DEF Invoke
  <2>3. \A i \in DOMAIN args : tags[i] \in {IntTag, StringTag}
    BY <2>1, <2>2 DEF TagsOf
  <2>4. call'.tags = tags
    BY <2>2 DEF NoCall
  <2>5. ~crashed /\ (misused' => misused)
    BY <1>2, <2>1 DEF Invoke, UserCodeRuns, At
  <2> QED BY <2>3, <2>4, <2>5 DEF MisuseEnds
<1>3. CASE TakeName \/ TakeArg \/ TakeStray \/ CallReturns \/ TakeResponse
  <2>1. ~crashed /\ misused' = misused
    BY <1>3 DEF TakeName, TakeArg, TakeStray, CallReturns, TakeResponse, AllTaken,
       At, bridgeVars
  <2>2. call'.tags \in {call.tags, <<>>}
    <3>1. CASE TakeName
      BY <1>0, <3>1 DEF TakeName, CallRecords
    <3>2. CASE TakeArg
      BY <1>0, <3>2 DEF TakeArg, CallRecords
    <3>3. CASE TakeStray
      BY <3>3 DEF TakeStray, bridgeVars
    <3>4. CASE CallReturns
      BY <1>0, <3>4 DEF CallReturns, Respond, CallRecords
    <3>5. CASE TakeResponse
      BY <3>5 DEF TakeResponse, NoCall
    <3> QED BY <1>3, <3>1, <3>2, <3>3, <3>4, <3>5
  <2> QED BY <2>1, <2>2 DEF MisuseEnds
<1>4. ~CallThrows
  <2>1. IntTag # NoTag /\ StringTag # NoTag
    BY DEF IntTag, StringTag, NoTag
  <2> QED BY <2>1 DEF CallThrows, ProperCalls, MisuseEnds
<1>5. ASSUME \/ \E w \in Wrappers, name \in Names : ConstructPanics(w, name)
             \/ \E w \in Wrappers : IsMemberPanics(w)
             \/ FunctionFails \/ PromiseResolverFails
      PROVE  MisuseEnds'
  <2>1. call.at = "idle" /\ call' = call /\ crashed' = TRUE
    BY <1>5 DEF ConstructPanics, IsMemberPanics, FunctionFails,
       PromiseResolverFails, UserCodeRuns, At, Panic, bridgeVars
  <2> QED BY <2>1 DEF MisuseEnds
<1>6. ASSUME \/ \E w \in Wrappers, name \in Names : Construct(w, name)
             \/ SendBuffer \/ FunctionReturns \/ PromiseReturns \/ PromiseResolver
             \/ UNCHANGED workerVars
      PROVE  UNCHANGED <<call, misused, crashed>>
  BY <1>6 DEF Construct, SendBuffer, FunctionReturns, PromiseReturns,
     PromiseResolver, workerVars, vars, lifecycleVars, bridgeVars
<1>7. CASE LifecycleStep
  <2>1. ~crashed /\ UNCHANGED <<call, misused>>
    BY <1>7 DEF LifecycleStep, OnCreate, OnDestroy, DenoInit, bridgeVars
  <2> QED BY <2>1 DEF MisuseEnds
<1> QED BY <1>1, <1>2, <1>3, <1>4, <1>5, <1>6, <1>7
  DEF WorkerNext, ConstructStep, CallStep, SendStep

-----------------------------------------------------------------------------
(***************************************************************************)
(* The theorems.                                                           *)
(***************************************************************************)

\* Every variable stays in its set, and g_ctx never dangles.
THEOREM TypeCorrect == WorkerSpec => []TypeOK
<1>1. IInv => TypeOK
  BY DEF IInv
<1> QED BY <1>1, IInvHolds, PTL

\* Every string that a call boxes is taken back, on each way out of the call
\* (wrapper.cpp:94-116, v8_jni/util.rs:233-264).
THEOREM NoBoxLeaks == WorkerSpec => []BoxesTakenBack
<1>1. IInv => BoxesTakenBack
  BY DEF IInv, TypeOK, BridgeInv, BoxesAhead, BoxesTakenBack
<1> QED BY <1>1, IInvHolds, PTL

\* With int32s and strings only, an address that is taken as a string's is that
\* of a box (v8_jni/util.rs:74-77 and 250-255).
THEOREM AddressesAreBoxes == WorkerSpec => []TagsMatchBoxes
<1>1. IInv => TagsMatchBoxes
  BY DEF IInv, BridgeInv, StringsBoxed, TagsMatchBoxes
<1> QED BY <1>1, IInvHolds, PTL

\* The process does not end unless the script asked for what has no answer, or
\* a second thread of demoMain started (JNIHelper.java:26-55 and 109-134,
\* v8_jni/util.rs:292-333).
THEOREM ProperScriptsSurvive == WorkerSpec => []ScriptSurvives
<1>1. IInv => ScriptSurvives
  BY DEF IInv
<1> QED BY <1>1, IInvHolds, PTL

\* While there was one onCreate only, V8 gets its platform first: what
\* v8.h:8547-8549 asks fails with a second activity and not before.
THEOREM OneActivityInitialises ==
  WorkerSpec =>
    []((\A a, b \in Activities :
          activity[a] # "none" /\ activity[b] # "none" => a = b)
       => PlatformComesFirst)
<1>1. WorkerInit => PlatformOwned
  BY DEF WorkerInit, Init, LifecycleInit, PlatformOwned
<1>2. PlatformOwned =>
        ((\A a, b \in Activities :
            activity[a] # "none" /\ activity[b] # "none" => a = b)
         => PlatformComesFirst)
  BY DEF PlatformOwned, PlatformComesFirst
<1> QED BY <1>1, <1>2, IInvHolds, PlatformOwnedNext, PTL DEF WorkerSpec

\* The name of a method can be made a Java string (v8_jni/util.rs:238) in every
\* script that passes int32s and strings and calls methods whose types have an
\* index, whatever else it does: an exception is left pending by nothing else.
THEOREM NamesBecomeStrings ==
  ASSUME ProperCalls
  PROVE  WorkerSpec => []NameBecomesString
<1>1. WorkerInit => MisuseEnds
  BY DEF WorkerInit, Init, NoCall, MisuseEnds
<1>2. IInv /\ MisuseEnds /\ [WorkerNext]_workerVars => MisuseEnds'
  BY MisuseEndsNext
<1>3. IInv /\ MisuseEnds => NameBecomesString
  BY DEF IInv, BridgeInv, PendingIsMisuse, MisuseEnds, NameBecomesString
<1> QED BY <1>1, <1>2, <1>3, IInvHolds, PTL DEF WorkerSpec
=============================================================================
