------------------------------ MODULE JavaBridge ----------------------------
(***************************************************************************)
(* Calls from the script into Java: `new Java`, isMethod and isField, and  *)
(* $invokeJavaFn, through app/rust/build/v8_jni/wrapper.cpp,               *)
(* app/rust/src/v8_jni/util.rs and JNIHelper.java.  A call boxes the       *)
(* method's name and every string argument in C++ and Rust takes each box  *)
(* back by its address.  A Java exception that no code catches stays       *)
(* pending on the script's thread, and the next JNI function that the      *)
(* thread calls fails.                                                     *)
(*                                                                         *)
(* Lookups in CLASS_TABLE succeed here; UiTasks is about them.  A wrapper  *)
(* never frees its GlobalRef, so what V8 collects is left out.  Nobody     *)
(* makes a Response with hasError.  A panic ends the process (panic =      *)
(* 'abort' in app/rust/Cargo.toml).                                        *)
(***************************************************************************)
EXTENDS Lifecycle, Sequences

CONSTANTS
  Wrappers,        \* the objects that the script makes
  MaxArgs,
  ArgKinds,        \* of "int", "string" and "other", as numbers that are no
                   \* int32, booleans or undefined
  Names,           \* of "present" and "missing": the classes that are imported
  ReturnTypes      \* of the Java methods: "int", "long", "double", "String"
                   \* or "boolean", which stands for all that have no index

ASSUME MaxArgsAssumption == MaxArgs \in Nat
ASSUME ArgKindsAssumption == ArgKinds \subseteq {"int", "string", "other"}
ASSUME NamesAssumption == Names \subseteq {"present", "missing"}
ASSUME ReturnTypesAssumption ==
  ReturnTypes \subseteq {"int", "long", "double", "String", "boolean"}

VARIABLES
  made,      \* the objects that exist
  call,      \* the call that runs: where it is, the tags of its arguments,
             \* the next argument, and the Response: the type of the object
             \* in it and its sig
  boxes,     \* the boxed strings: 0 for the name, and indices of arguments
  pending,   \* a Java exception is pending on the script's thread
  misused    \* history: the script asked for what the bridge has no answer to

bridgeVars == <<made, call, boxes, pending, misused>>
vars == <<lifecycleVars, bridgeVars>>

NoIndex == 255    \* Integer.MAX_VALUE as u8

NoCall ==
  [at |-> "idle", tags |-> <<>>, next |-> 0, type |-> "null", sig |-> NoIndex]

Init ==
  /\ LifecycleInit
  /\ made = {}
  /\ call = NoCall
  /\ boxes = {}
  /\ pending = FALSE
  /\ misused = FALSE

\* The script's thread is at a place of the call.
At(place) == ~crashed /\ call.at = place

\* V8 runs the script's code, or a callback, and no call into Java is under way.
UserCodeRuns == ScriptRuns /\ At("idle")

\* The unwrap of a JNI function's result.
Panic == crashed' = TRUE

-----------------------------------------------------------------------------
\* JavaWrapper::New, get_current_activity and new_instance.
Construct(w, name) ==
  /\ UserCodeRuns
  /\ w \notin made
  /\ ~pending /\ name # "missing"
  /\ made' = made \cup {w}
  /\ UNCHANGED <<lifecycleVars, call, boxes, pending, misused>>

\* unwrap, with an exception pending or for a class that is not there.
ConstructPanics(w, name) ==
  /\ UserCodeRuns
  /\ w \notin made
  /\ pending \/ name = "missing"
  /\ pending' = TRUE
  /\ misused' = (misused \/ name = "missing")
  /\ Panic
  /\ UNCHANGED <<activity, gctx, globalRefs, platform, thread, made,
                 call, boxes>>

\* isMethod and isField fail with an exception pending; else they change
\* nothing.
IsMemberPanics(w) ==
  /\ UserCodeRuns
  /\ w \in made
  /\ pending
  /\ Panic
  /\ UNCHANGED <<activity, gctx, globalRefs, platform, thread, bridgeVars>>

-----------------------------------------------------------------------------
ArgLists == UNION {[1..n -> ArgKinds] : n \in 0..MaxArgs}

IntTag == 0
StringTag == 3
NoTag == 4     \* stands for every byte but these two

\* Mutant: the tag of an int is not written either.
TagsOfStrings(kind) ==
  IF kind = "string" THEN {StringTag} ELSE {IntTag, StringTag, NoTag}

\* The tags a value_t may have: that of an argument which is neither an int32
\* nor a string is never written.
TagsOf(kind) ==
  CASE kind = "int" -> {IntTag}
    [] kind = "string" -> {StringTag}
    [] kind = "other" -> {IntTag, StringTag, NoTag}

\* InvokeJavaFunction: the arguments are converted and the strings boxed.
Invoke(w, args) ==
  /\ UserCodeRuns
  /\ w \in made
  /\ \E tags \in [DOMAIN args -> {IntTag, StringTag, NoTag}] :
       /\ \A i \in DOMAIN args : tags[i] \in TagsOf(args[i])
       /\ call' = [NoCall EXCEPT !.at = "name", !.tags = tags, !.next = 1]
  /\ boxes' = {0} \cup {i \in DOMAIN args : args[i] = "string"}
  /\ misused' = (misused \/ \E i \in DOMAIN args : args[i] = "other")
  /\ UNCHANGED <<lifecycleVars, made, pending>>

\* internal_instance_call takes the name and makes a Java string of it.
TakeName ==
  /\ At("name")
  /\ boxes' = boxes \ {0}
  /\ call' = [call EXCEPT !.at = "args"]
  /\ IF pending THEN Panic ELSE UNCHANGED crashed
  /\ UNCHANGED <<activity, gctx, globalRefs, platform, thread, made,
                 pending, misused>>

\* Mutant: a string argument is copied and its box left where it is.
TakeArgBorrows ==
  /\ At("args")
  /\ call.next <= Len(call.tags)
  /\ call.tags[call.next] = StringTag => call.next \in boxes
  /\ call' = [call EXCEPT !.next = @ + 1]
  /\ UNCHANGED <<lifecycleVars, boxes, made, pending, misused>>

\* The arguments, in their order: _rust_get_string takes the box.
TakeArg ==
  /\ At("args")
  /\ call.next <= Len(call.tags)
  /\ call.tags[call.next] = StringTag => call.next \in boxes
  /\ boxes' = IF call.tags[call.next] = StringTag THEN boxes \ {call.next}
              ELSE boxes
  /\ call' = [call EXCEPT !.next = @ + 1]
  /\ UNCHANGED <<lifecycleVars, made, pending, misused>>

\* There is no box at the address: undefined, and taken to end the process.
TakeStray ==
  /\ At("args")
  /\ call.next <= Len(call.tags)
  /\ call.tags[call.next] = StringTag /\ call.next \notin boxes
  /\ crashed' = TRUE
  /\ UNCHANGED <<activity, gctx, globalRefs, platform, thread, bridgeVars>>

AllTaken == At("args") /\ call.next > Len(call.tags)

\* JNIHelper.classToIndex.
ClassToIndex ==
  [int |-> 0, long |-> 1, double |-> 2, String |-> 3, Void |-> 4]

\* The object that intValue, longValue or doubleValue casts, for the sigs that
\* internal_instance_call makes a number of.
Unboxes == [sig \in 0..2 |-> <<"int", "long", "double">>[sig + 1]]

Respond(type, sig) ==
  call' = [call EXCEPT !.at = "response", !.type = type, !.sig = sig]

\* Mutant: callMethod lets through what the method throws.
CallReturnsOrThrows ==
  /\ AllTaken
  /\ \/ /\ \E type \in ReturnTypes \cap DOMAIN ClassToIndex :
            Respond(type, ClassToIndex[type])
        /\ UNCHANGED pending
     \/ call' = NoCall /\ pending' = TRUE
  /\ UNCHANGED <<lifecycleVars, made, boxes, misused>>

\* JNIHelper.callMethod answers with a Response: the method's result, or null
\* when it returned null or threw, or when there is no such method.
CallReturns ==
  /\ AllTaken
  /\ \/ Respond("null", NoIndex)
     \/ \E type \in ReturnTypes \cap DOMAIN ClassToIndex :
          Respond(type, ClassToIndex[type])
  /\ UNCHANGED <<lifecycleVars, made, boxes, pending, misused>>

\* callMethod throws: it unboxes the index of a type that has none, or the
\* method takes a long where a stray tag put a null.  unwrap_js makes it a null
\* for the script, and nobody clears it.
CallThrows ==
  /\ AllTaken
  /\ \/ ReturnTypes \ DOMAIN ClassToIndex # {}
     \/ \E i \in DOMAIN call.tags : call.tags[i] = NoTag
  /\ call' = NoCall
  /\ pending' = TRUE
  /\ misused' = TRUE
  /\ UNCHANGED <<lifecycleVars, made, boxes>>

\* A number for the script, or null; a failed cast ends the process.
TakeResponse ==
  /\ At("response")
  /\ call' = NoCall
  /\ IF call.sig \in DOMAIN Unboxes /\ Unboxes[call.sig] # call.type
     THEN pending' = TRUE /\ Panic
     ELSE UNCHANGED <<pending, crashed>>
  /\ UNCHANGED <<activity, gctx, globalRefs, platform, thread, made, boxes,
                 misused>>

-----------------------------------------------------------------------------
ConstructStep ==
  \E w \in Wrappers, name \in Names :
    \/ Construct(w, name)
    \/ ConstructPanics(w, name)

CallStep ==
  \/ \E w \in Wrappers, args \in ArgLists : Invoke(w, args)
  \/ TakeName
  \/ TakeArg
  \/ TakeStray
  \/ CallReturns
  \/ CallThrows
  \/ TakeResponse

LifecycleStep ==
  \E a \in Activities :
    \/ OnCreate(a) /\ UNCHANGED bridgeVars
    \/ OnDestroy(a) /\ UNCHANGED bridgeVars
    \/ DenoInit(a) /\ UNCHANGED bridgeVars

Next ==
  \/ LifecycleStep
  \/ ConstructStep
  \/ \E w \in Wrappers : IsMemberPanics(w)
  \/ CallStep

Spec == Init /\ [][Next]_vars

-----------------------------------------------------------------------------
Tags == {IntTag, StringTag, NoTag}

\* Type invariant; a slot of g_ctx never dangles.
TypeOK ==
  /\ LifecycleTypeOK
  /\ made \subseteq Wrappers
  /\ call.at \in {"idle", "name", "args", "response"}
  /\ call.tags \in UNION {[1..n -> Tags] : n \in 0..MaxArgs}
  /\ call.next \in 0..(MaxArgs + 1)
  /\ call.type \in ReturnTypes \cup {"null"}
  /\ call.sig \in 0..255
  /\ boxes \subseteq 0..MaxArgs
  /\ pending \in BOOLEAN
  /\ misused \in BOOLEAN

\* Every string that a call boxes is taken back when the call returns, on each
\* of its ways out (wrapper.cpp:94-116, v8_jni/util.rs:233-264).
BoxesTakenBack ==
  call.at = "idle" /\ ~crashed => boxes = {}

\* As long as every argument was an int32 or a string, an address that a call
\* is about to take back as a string is that of a box which is still there
\* (v8_jni/util.rs:74-77 and 250-255).
TagsMatchBoxes ==
  call.at = "args" /\ ~misused =>
    \A i \in call.next..Len(call.tags) :
      call.tags[i] = StringTag => i \in boxes

\* A script that imports classes that exist, passes int32s and strings and
\* calls methods whose types classToIndex has does not end the process,
\* whatever those methods throw; and every number that Rust unboxes is of the
\* type its sig stands for in Java (JNIHelper.java:26-55 and 109-134,
\* v8_jni/util.rs:292-333).  Only a second thread of demoMain may.
ScriptSurvives ==
  crashed => misused \/ \E a \in Activities : thread[a] = "started"

\* The name of a method can always be made a Java string: its unwrap
\* (v8_jni/util.rs:238) asserts that new_string does not fail.
NameBecomesString ==
  call.at = "name" => ~pending
=============================================================================
