------------------------------- MODULE UiTasks ------------------------------
(***************************************************************************)
(* The threads around the UI: the main thread with the two activities and  *)
(* the Handler's queue, a thread for every click on a button of            *)
(* GenerateImageActivity (app/rust/src/ndk_graphics/mod.rs), and the event *)
(* loop's thread, which calls Java for the script.  They meet in           *)
(* CLASS_TABLE and in the boxed DenoTasks: a render thread turns a task    *)
(* into a raw pointer and posts it, and the main thread turns the pointer  *)
(* back, runs the task and frees it.  A panic of any of them ends the      *)
(* process (panic = 'abort' in app/rust/Cargo.toml).                       *)
(*                                                                         *)
(* External: Android may kill the process while it is in the background,   *)
(* and later start it again with only the activity that was on top.        *)
(***************************************************************************)
EXTENDS Naturals, Sequences, ClassTable

CONSTANTS
  Renders,       \* one for each click
  Ui, Demo,      \* the main thread and the event loop's
  MayRestore     \* whether Android kills and restores the process

ASSUME ThreadsAssumption ==
  /\ Threads = Renders \cup {Ui, Demo}
  /\ Ui \notin Renders /\ Demo \notin Renders /\ Ui # Demo
ASSUME ClassesAssumption == {"MainActivity", "Util", "JNIHelper"} \subseteq Classes
ASSUME MayRestoreAssumption == MayRestore \in BOOLEAN

VARIABLES
  main,        \* MainActivity: "none", "creating" or "created"
  image,       \* GenerateImageActivity is open
  toRegister,  \* the classes onCreate has yet to register
  demo,        \* the event loop's thread: "none", "script" or "calling"
  second,      \* a second onCreate started another thread of demoMain
  render,      \* for each click: where its thread is, whether its message is
               \* "Render successfully", and its DenoTask
  displayed,   \* the renders whose bitmap was given to the view
  handler,     \* the Handler's queue
  answered,    \* the renders whose callback ran
  crashed,     \* a panic or an uncaught exception ended the process
  restored     \* Android has restored the process

activityVars == <<main, image, toRegister>>
demoVars == <<demo, second>>
renderVars == <<render, displayed, handler, answered>>
processVars == <<crashed, restored>>
vars == <<tableVars, activityVars, demoVars, renderVars, processVars>>

\* Mutant: one class is left out.
RegistersTwo == <<"MainActivity", "JNIHelper">>

\* The calls of Util.createReference in MainActivity.onCreate.
Registers == <<"MainActivity", "Util", "JNIHelper">>

NotClicked == [at |-> "none", success |-> FALSE, task |-> "none"]

Init ==
  /\ TableInit
  /\ main = "none" /\ image = FALSE /\ toRegister = <<>>
  /\ demo = "none" /\ second = FALSE
  /\ render = [r \in Renders |-> NotClicked]
  /\ displayed = {} /\ handler = <<>> /\ answered = {}
  /\ crashed = FALSE /\ restored = FALSE

-----------------------------------------------------------------------------
(* The main thread *)

\* It is in its message loop.
UiIdle == main # "creating" /\ ~crashed

\* Mutant: the event loop's thread is started before the classes are there.
MainCreateEager ==
  /\ UiIdle
  /\ main = "none" /\ ~image
  /\ main' = "creating"
  /\ toRegister' = Registers
  /\ demo' = "script"
  /\ UNCHANGED <<tableVars, image, second, renderVars, processVars>>

\* MainActivity.onCreate: when it is launched, when the user goes back to it,
\* or when it is recreated.
MainCreate ==
  /\ UiIdle
  /\ main = "none" /\ ~image
  /\ main' = "creating"
  /\ toRegister' = Registers
  /\ UNCHANGED <<tableVars, image, demoVars, renderVars, processVars>>

RegisterLock ==
  /\ ~crashed
  /\ toRegister # <<>>
  /\ Lock(Ui)
  /\ UNCHANGED <<activityVars, demoVars, renderVars, processVars>>

RegisterClass ==
  /\ ~crashed
  /\ toRegister # <<>>
  /\ Register(Ui, Head(toRegister))
  /\ toRegister' = Tail(toRegister)
  /\ UNCHANGED <<main, image, demoVars, renderVars, processVars>>

\* The rest of onCreate, which starts the event loop's thread.
MainCreated ==
  /\ ~crashed
  /\ main = "creating"
  /\ toRegister = <<>>
  /\ main' = "created"
  /\ IF demo = "none" THEN demo' = "script" /\ UNCHANGED second
     ELSE second' = TRUE /\ UNCHANGED demo
  /\ UNCHANGED <<tableVars, image, toRegister, renderVars, processVars>>

\* The activity is finished or about to be recreated.  Its onDestroy, now or
\* after the next onCreate, changes nothing here: releaseVM is in Lifecycle.
MainDestroy ==
  /\ UiIdle
  /\ main = "created" /\ ~image
  /\ main' = "none"
  /\ UNCHANGED <<tableVars, image, toRegister, demoVars, renderVars, processVars>>

\* The button of MainActivity opens the other one, and back closes it.
ImageOpen ==
  /\ UiIdle
  /\ main = "created" /\ ~image
  /\ image' = TRUE
  /\ UNCHANGED <<tableVars, main, toRegister, demoVars, renderVars, processVars>>

ImageClose ==
  /\ UiIdle
  /\ image
  /\ image' = FALSE
  /\ UNCHANGED <<tableVars, main, toRegister, demoVars, renderVars, processVars>>

\* A click: blendBitmap spawns a thread.
Click(r) ==
  /\ UiIdle
  /\ image
  /\ render[r].at = "none"
  /\ render' = [render EXCEPT ![r].at = "create"]
  /\ UNCHANGED <<tableVars, activityVars, demoVars, displayed, handler, answered,
                 processVars>>

\* The head of the queue: invoke takes the box back, calls the task, which
\* calls the click's callback, and drops it.
RunTask(r) ==
  /\ UiIdle
  /\ handler # <<>> /\ r = Head(handler)
  /\ handler' = Tail(handler)
  /\ answered' = answered \cup {r}
  /\ render' = [render EXCEPT ![r].task = "freed"]
  /\ UNCHANGED <<tableVars, activityVars, demoVars, displayed, processVars>>

\* The click's callback throws, or its message cannot be made a Java string:
\* unwrap panics inside the task.
RunTaskPanics ==
  /\ UiIdle
  /\ handler # <<>>
  /\ crashed' = TRUE
  /\ UNCHANGED <<tableVars, activityVars, demoVars, renderVars, restored>>

-----------------------------------------------------------------------------
(* A render thread *)

\* It wants the guard: for create_bitmap, or for runTask.
RenderLock(r) ==
  /\ ~crashed
  /\ render[r].at \in {"create", "post"}
  /\ Lock(r)
  /\ render' = [render EXCEPT
                  ![r].at = IF @ = "create" THEN "creating" ELSE "posting"]
  /\ UNCHANGED <<activityVars, demoVars, displayed, handler, answered, processVars>>

\* The class that each of its calls looks up.
ClassOf(at) == IF at = "creating" THEN "Util" ELSE "JNIHelper"

\* The class was never registered in this process.
RenderPanics(r) ==
  /\ ~crashed
  /\ render[r].at \in {"creating", "posting"}
  /\ LookupPanics(r, ClassOf(render[r].at))
  /\ crashed' = TRUE
  /\ UNCHANGED <<activityVars, demoVars, renderVars, restored>>

\* Mutant: the guard lives on with what the call returned.
BitmapCreatedHolding(r) ==
  /\ ~crashed
  /\ render[r].at = "creating"
  /\ holder = r /\ "Util" \in table
  /\ render' = [render EXCEPT ![r].at = "draw"]
  /\ UNCHANGED <<tableVars, activityVars, demoVars, displayed, handler, answered,
                 processVars>>

\* create_bitmap returned a bitmap.
BitmapCreated(r) ==
  /\ ~crashed
  /\ render[r].at = "creating"
  /\ CallJava(r, "Util")
  /\ render' = [render EXCEPT ![r].at = "draw"]
  /\ UNCHANGED <<activityVars, demoVars, displayed, handler, answered, processVars>>

\* The thread has its message and boxes the task, before it asks for the lock
\* again.
Box(r, success) ==
  render' = [render EXCEPT
               ![r] = [at |-> "post", success |-> success, task |-> "boxed"]]

\* Mutant: the message does not look at what create_bitmap returned.
BitmapFailedUnnoticed(r) ==
  /\ ~crashed
  /\ render[r].at = "creating"
  /\ CallJava(r, "Util")
  /\ Box(r, TRUE)
  /\ crashed' \in BOOLEAN
  /\ UNCHANGED <<activityVars, demoVars, displayed, handler, answered, restored>>

\* Mutant: the closure ends with the error, before the user is told.
BitmapFailedSilent(r) ==
  /\ ~crashed
  /\ render[r].at = "creating"
  /\ CallJava(r, "Util")
  /\ render' = [render EXCEPT ![r].at = "done"]
  /\ crashed' \in BOOLEAN
  /\ UNCHANGED <<activityVars, demoVars, displayed, handler, answered, restored>>

\* create_bitmap threw.  The guard of attach_current_thread is dropped with
\* the exception pending; whether the process survives is up to Android.
BitmapFailed(r) ==
  /\ ~crashed
  /\ render[r].at = "creating"
  /\ CallJava(r, "Util")
  /\ Box(r, FALSE)
  /\ crashed' \in BOOLEAN
  /\ UNCHANGED <<activityVars, demoVars, displayed, handler, answered, restored>>

\* The pixels are drawn and setImageBitmap returns.
ImageSet(r) ==
  /\ ~crashed
  /\ render[r].at = "draw"
  /\ displayed' = displayed \cup {r}
  /\ Box(r, TRUE)
  /\ UNCHANGED <<tableVars, activityVars, demoVars, handler, answered, processVars>>

\* Mutant: the result of setImageBitmap is not looked at.
ImageSetFailedIgnored(r) ==
  /\ ~crashed
  /\ render[r].at = "draw"
  /\ Box(r, TRUE)
  /\ UNCHANGED <<tableVars, activityVars, demoVars, displayed, handler, answered,
                 processVars>>

\* setImageBitmap threw; it is called off the main thread.
ImageSetFailed(r) ==
  /\ ~crashed
  /\ render[r].at = "draw"
  /\ Box(r, FALSE)
  /\ crashed' \in BOOLEAN
  /\ UNCHANGED <<tableVars, activityVars, demoVars, displayed, handler, answered,
                 restored>>

\* Mutant: the thread goes on to post the same address again.
PostedAgain(r) ==
  /\ ~crashed
  /\ render[r].at = "posting"
  /\ CallJava(r, "JNIHelper")
  /\ handler' = Append(handler, r)
  /\ render' = [render EXCEPT ![r].at = IF r \in answered THEN "done" ELSE "post"]
  /\ UNCHANGED <<activityVars, demoVars, displayed, answered, processVars>>

\* runTask posts a DenoRunnable with the task's address; the thread ends.
Posted(r) ==
  /\ ~crashed
  /\ render[r].at = "posting"
  /\ CallJava(r, "JNIHelper")
  /\ handler' = Append(handler, r)
  /\ render' = [render EXCEPT ![r].at = "done"]
  /\ UNCHANGED <<activityVars, demoVars, displayed, answered, processVars>>

\* runTask threw, and unwrap panics: nothing was posted.
PostPanics(r) ==
  /\ ~crashed
  /\ render[r].at = "posting"
  /\ holder = r /\ "JNIHelper" \in table
  /\ crashed' = TRUE
  /\ UNCHANGED <<tableVars, activityVars, demoVars, renderVars, restored>>

-----------------------------------------------------------------------------
(* The event loop's thread, and Android *)

\* The script calls a Java method: JNIHelper.callMethod.  That this thread
\* finds the class is ScriptFindsClasses below.
DemoLock ==
  /\ ~crashed
  /\ demo = "script"
  /\ Lock(Demo)
  /\ demo' = "calling"
  /\ UNCHANGED <<second, activityVars, renderVars, processVars>>

DemoReturns ==
  /\ ~crashed
  /\ demo = "calling"
  /\ CallJava(Demo, "JNIHelper")
  /\ demo' = "script"
  /\ UNCHANGED <<second, activityVars, renderVars, processVars>>

\* The second thread runs deno_init: V8 has a platform already, or is about
\* to get one, and giving it another ends the process.
SecondInit ==
  /\ ~crashed
  /\ second
  /\ crashed' = TRUE
  /\ UNCHANGED <<tableVars, activityVars, demoVars, renderVars, restored>>

\* The process was killed with GenerateImageActivity on top, and is restored
\* with that activity alone.  Everything in memory is gone.
Restore ==
  /\ ~crashed
  /\ MayRestore /\ ~restored
  /\ image
  /\ restored' = TRUE
  /\ table' = {} /\ holder' = NoThread
  /\ main' = "none" /\ toRegister' = <<>>
  /\ demo' = "none" /\ second' = FALSE
  /\ render' = [r \in Renders |-> NotClicked]
  /\ displayed' = {} /\ handler' = <<>> /\ answered' = {}
  /\ UNCHANGED <<image, crashed>>

-----------------------------------------------------------------------------
CreateStep ==
  \/ RegisterLock
  \/ RegisterClass
  \/ MainCreated

UserStep ==
  \/ MainCreate
  \/ MainDestroy
  \/ ImageOpen
  \/ ImageClose
  \/ \E r \in Renders : Click(r)

HandlerStep ==
  \/ \E r \in Renders : RunTask(r)
  \/ RunTaskPanics

RenderStep(r) ==
  \/ RenderLock(r)
  \/ RenderPanics(r)
  \/ BitmapCreated(r)
  \/ BitmapFailed(r)
  \/ ImageSet(r)
  \/ ImageSetFailed(r)
  \/ Posted(r)
  \/ PostPanics(r)

Next ==
  \/ CreateStep
  \/ HandlerStep
  \/ UserStep
  \/ \E r \in Renders : RenderStep(r)
  \/ DemoLock
  \/ DemoReturns
  \/ SecondInit
  \/ Restore

Spec == Init /\ [][Next]_vars

\* Every thread keeps running.  A std Mutex is not fair, but the event loop's
\* thread asks for it a few times a second at most: a thread that asks again
\* and again finds it free, hence strong fairness.  The main thread serves its
\* messages in their order, so the Handler's turn comes between two onCreate.
Fairness ==
  /\ SF_vars(CreateStep)
  /\ SF_vars(HandlerStep)
  /\ \A r \in Renders : SF_vars(RenderStep(r))
  /\ WF_vars(DemoReturns)

FairSpec == Spec /\ Fairness

-----------------------------------------------------------------------------
Places == {"none", "create", "creating", "draw", "post", "posting", "done"}

\* Type invariant; the guard is held by the thread that is in a call.
TypeOK ==
  /\ TableTypeOK
  /\ main \in {"none", "creating", "created"}
  /\ image \in BOOLEAN /\ second \in BOOLEAN
  /\ crashed \in BOOLEAN /\ restored \in BOOLEAN
  /\ toRegister \in Seq(Classes)
  /\ toRegister # <<>> => main = "creating"
  /\ demo \in {"none", "script", "calling"}
  /\ demo = "calling" <=> holder = Demo
  /\ render \in [Renders -> [at : Places, success : BOOLEAN,
                             task : {"none", "boxed", "freed"}]]
  /\ \A r \in Renders : render[r].at \in {"creating", "posting"} <=> holder = r
  /\ displayed \subseteq Renders /\ answered \subseteq Renders
  /\ handler \in Seq(Renders)

\* Every class that a thread looks up is registered: table.get(..).unwrap()
\* never fails (dex/mod.rs:111).
LookupsSucceed ==
  /\ \A r \in Renders :
       render[r].at \in {"creating", "posting"} => ClassOf(render[r].at) \in table
  /\ demo = "calling" => "JNIHelper" \in table

\* Only a process that Android restored can miss a class: in any other, each
\* click comes after an onCreate that registered all of them, however many
\* activities were destroyed since (MainActivity.java:38-41 and 54-55,
\* dex/mod.rs:111).
OnlyRestoreLosesClasses == restored \/ LookupsSucceed

\* The event loop's thread never looks up an unknown class: not even in a
\* restored process, where a render thread may (MainActivity.java:39-41 and 72,
\* dex/mod.rs:107-111).
ScriptFindsClasses == demo # "none" => "JNIHelper" \in table

\* The address of a boxed task has one owner: the thread that is about to post
\* it, or one entry of the queue.  So it is freed once, and not run after
\* (ui_thread.rs:36-42, ndk_graphics/mod.rs:111-128).
TaskOwnedOnce ==
  /\ \A i, j \in 1..Len(handler) : handler[i] = handler[j] => i = j
  /\ \A i \in 1..Len(handler) :
       render[handler[i]].task = "boxed" /\ render[handler[i]].at = "done"
  /\ \A r \in Renders :
       render[r].task = "boxed" =>
         \/ render[r].at \in {"post", "posting"}
         \/ \E i \in 1..Len(handler) : handler[i] = r

\* A toast that says "Render successfully" is about a bitmap that the view was
\* given before; a render that failed anywhere says so
\* (ndk_graphics/mod.rs:37-72, 86-93).
ToastTellsTheTruth ==
  \A r \in answered : render[r].success <=> r \in displayed

\* Who can take a step of its own now, by the guards above.
RenderProceeds(r) ==
  \/ render[r].at \in {"create", "post"} /\ holder = NoThread
  \/ render[r].at \in {"creating", "posting"} /\ holder = r
  \/ render[r].at = "draw"

UiProceeds ==
  \/ toRegister # <<>> /\ holder \in {NoThread, Ui}
  \/ toRegister = <<>> /\ main = "creating"
  \/ main # "creating" /\ handler # <<>>

DemoProceeds == demo = "calling" /\ holder = Demo /\ "JNIHelper" \in table

\* While a click waits for its answer, the main thread, the event loop's or
\* some render's can go on, if only to end the process: they never all wait for
\* the guard, for a message or for each other, not even in a restored process
\* (dex/mod.rs:70 and 107, ui_thread.rs:36-42).
SomeoneProceeds ==
  ~crashed /\ (\E r \in Renders \ answered : render[r].at # "none") =>
    UiProceeds \/ DemoProceeds \/ \E r \in Renders : RenderProceeds(r)

\* Every click is answered in the end, whether its render failed or not, if the
\* process lives and was not restored: its thread and the main thread wait for a
\* mutex that others hold while Java runs, and none waits for ever
\* (dex/mod.rs:70 and 107, ndk_graphics/mod.rs:86-128, JNIHelper.java:72-74).
ClicksAnswered ==
  \A r \in Renders :
    render[r].at = "create" ~> r \in answered \/ crashed \/ restored

\* Each click as the user sees it.  A render has its outcome when it boxes the
\* task that tells it.
Outcome(r) ==
  IF render[r].at = "none" THEN "none"
  ELSE IF render[r].task = "none" THEN "rendering"
  ELSE IF render[r].success THEN "shown" ELSE "failed"

Contract == INSTANCE ClickContract
              WITH outcome <- [r \in Renders |-> Outcome(r)], view <- displayed,
                   posted <- handler, told <- answered

\* Whatever the renders' threads and the main thread do in between, and wherever
\* the process ends, a click is answered at most once, in the order of the
\* posts, and with what became of its own bitmap (ndk_graphics/mod.rs:37-94 and
\* 111-128, JNIHelper.java:72-74).
ImplementsClickContract == Contract!Spec
=============================================================================
