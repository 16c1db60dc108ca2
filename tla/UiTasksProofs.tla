---------------------------- MODULE UiTasksProofs ---------------------------
(***************************************************************************)
(* Proofs about UiTasks, for every number of clicks, whether Android       *)
(* restores the process or not: type correctness, that the script finds    *)
(* its classes, that only a restore loses some, that a boxed task has one  *)
(* owner, that the toast tells the truth, that the threads never all wait, *)
(* and that UiTasks implements ClickContract.                              *)
(***************************************************************************)
EXTENDS UiTasks, CommonLemmas

-----------------------------------------------------------------------------
(***************************************************************************)
(* The inductive invariant.                                                *)
(***************************************************************************)

\* onCreate goes through its three classes in order, and those that it has
\* done are in the table.  The main thread has the guard for one of them only.
RegisterProgress ==
  /\ toRegister \in {Registers, <<"Util", "JNIHelper">>, <<"JNIHelper">>, <<>>}
  /\ main = "creating" /\ toRegister # Registers => "MainActivity" \in table
  /\ main = "creating" /\ toRegister \in {<<"JNIHelper">>, <<>>} =>
       "Util" \in table
  /\ main = "creating" /\ toRegister = <<>> => "JNIHelper" \in table
  /\ holder = Ui => toRegister # <<>>

LookedUp == {"Util", "JNIHelper"}

\* Once an onCreate has ended, every class that is looked up is there: only
\* that can start the event loop's thread.
CreatedRegistered ==
  main = "created" \/ demo # "none" => LookedUp \subseteq table

\* In a process that was not restored, the first activity is a MainActivity, and
\* so a click comes after the onCreate that started the script.
ClickComesAfter ==
  ~restored /\ (main = "created" \/ image \/ \E r \in Renders : render[r].at # "none")
    => demo # "none"

\* What is in the Handler's queue is boxed and its thread has ended; a box that
\* is not posted belongs to a thread that is about to post it.  A thread that
\* ended left its box there until it was answered.
BoxesOwned ==
  /\ Distinct(handler)
  /\ \A r \in Renders :
       /\ Has(handler, r) => render[r].task = "boxed" /\ render[r].at = "done"
       /\ render[r].at \in {"post", "posting"} => render[r].task = "boxed"
       /\ render[r].task = "boxed" /\ render[r].at \notin {"post", "posting"} =>
            Has(handler, r)
       /\ render[r].at = "done" /\ r \notin answered => Has(handler, r)

\* A thread knows what became of its bitmap from the moment it has its message,
\* and has no task before.
MessageMatches ==
  \A r \in Renders :
    /\ render[r].at \in {"none", "create", "creating", "draw"} =>
         r \notin displayed /\ render[r].task = "none"
    /\ render[r].at \in {"post", "posting", "done"} =>
         (render[r].success <=> r \in displayed)
    /\ r \in answered => render[r].at = "done"

IInv ==
  /\ TypeOK
  /\ RegisterProgress
  /\ CreatedRegistered
  /\ BoxesOwned
  /\ MessageMatches

RenderRecords ==
  [at : Places, success : BOOLEAN, task : {"none", "boxed", "freed"}]

-----------------------------------------------------------------------------
(***************************************************************************)
(* What the actions do.                                                    *)
(***************************************************************************)

\* The three lists that are left of Registers.
LEMMA RegistersTails ==
  /\ Registers # <<>> /\ Head(Registers) = "MainActivity"
  /\ Tail(Registers) = <<"Util", "JNIHelper">>
  /\ Head(<<"Util", "JNIHelper">>) = "Util"
  /\ Tail(<<"Util", "JNIHelper">>) = <<"JNIHelper">>
  /\ Head(<<"JNIHelper">>) = "JNIHelper"
  /\ Tail(<<"JNIHelper">>) = <<>>
  /\ <<"JNIHelper">> # <<>> /\ <<"Util", "JNIHelper">> # <<>>
  /\ <<"JNIHelper">> # <<"Util", "JNIHelper">>
  /\ Registers # <<"JNIHelper">> /\ Registers # <<"Util", "JNIHelper">>
  BY DEF Registers

\* Those lists are of classes.
LEMMA RegistersTyped ==
  {Registers, <<"Util", "JNIHelper">>, <<"JNIHelper">>, <<>>} \subseteq Seq(Classes)
  BY ClassesAssumption DEF Registers

\* A record that is changed in one field is still a render's.
LEMMA RenderChanged ==
  ASSUME NEW f \in [Renders -> RenderRecords], NEW r \in Renders,
         NEW g, NEW x \in RenderRecords, g = [f EXCEPT ![r] = x]
  PROVE  /\ g \in [Renders -> RenderRecords]
         /\ g[r] = x
         /\ \A other \in Renders : other # r => g[other] = f[other]
  OBVIOUS

\* The process starts with nothing.
LEMMA IInvInit == Init => IInv
<1> SUFFICES ASSUME Init PROVE IInv
  OBVIOUS
<1>1. render \in [Renders -> RenderRecords]
  BY DEF Init, NotClicked, RenderRecords, Places
<1>2. TypeOK
  <2>1. TableTypeOK
    BY DEF Init, TableInit, TableTypeOK
  <2>2. /\ demo = "calling" <=> holder = Demo
        /\ \A r \in Renders :
             render[r].at \in {"creating", "posting"} <=> holder = r
    BY ThreadsAssumption, NoThreadAssumption DEF Init, TableInit, NotClicked
  <2>3. toRegister \in Seq(Classes) /\ handler \in Seq(Renders)
    BY DEF Init
  <2> QED BY <1>1, <2>1, <2>2, <2>3 DEF Init, TypeOK, RenderRecords
<1>3. RegisterProgress /\ CreatedRegistered
  BY ThreadsAssumption, NoThreadAssumption
  DEF Init, TableInit, RegisterProgress, CreatedRegistered
<1>4. BoxesOwned
  BY DEF Init, NotClicked, BoxesOwned, Has, Distinct
<1>5. MessageMatches
  BY DEF Init, NotClicked, MessageMatches
<1> QED BY <1>2, <1>3, <1>4, <1>5 DEF IInv

\* An onCreate begins.
LEMMA MainCreateKeeps ==
  ASSUME IInv, MainCreate PROVE IInv'
<1>1. /\ main = "none" /\ main' = "creating"
      /\ toRegister' = Registers
      /\ UNCHANGED <<table, holder, image, demo, second, render,
                     displayed, handler, answered, crashed, restored>>
  BY DEF MainCreate, tableVars, demoVars, renderVars, processVars
<1>2. TypeOK'
  BY <1>1, RegistersTyped DEF IInv, TypeOK, TableTypeOK
<1>3. RegisterProgress'
  BY <1>1, RegistersTails DEF RegisterProgress
<1>4. CreatedRegistered'
  BY <1>1 DEF IInv, CreatedRegistered
<1>5. BoxesOwned' /\ MessageMatches'
  BY <1>1 DEF IInv, BoxesOwned, MessageMatches
<1> QED BY <1>2, <1>3, <1>4, <1>5 DEF IInv

\* The main thread gets the guard.
LEMMA RegisterLockKeeps ==
  ASSUME IInv, RegisterLock PROVE IInv'
<1>1. /\ holder = NoThread /\ holder' = Ui /\ toRegister # <<>>
      /\ UNCHANGED <<table, main, toRegister, image, demo, second, render,
                     displayed, handler, answered, crashed, restored>>
  BY DEF RegisterLock, Lock, activityVars, demoVars, renderVars, processVars
<1>2. TypeOK'
  BY <1>1, ThreadsAssumption, NoThreadAssumption DEF IInv, TypeOK, TableTypeOK
<1>3. RegisterProgress' /\ CreatedRegistered'
  BY <1>1 DEF IInv, RegisterProgress, CreatedRegistered
<1>4. BoxesOwned' /\ MessageMatches'
  BY <1>1 DEF IInv, BoxesOwned, MessageMatches
<1> QED BY <1>2, <1>3, <1>4 DEF IInv

\* A class more is in the table.
LEMMA RegisterClassKeeps ==
  ASSUME IInv, RegisterClass PROVE IInv'
<1>1. /\ toRegister # <<>> /\ holder = Ui /\ holder' = NoThread
      /\ table' = table \cup {Head(toRegister)}
      /\ toRegister' = Tail(toRegister)
      /\ UNCHANGED <<main, image, demo, second, render, displayed,
                     handler, answered, crashed, restored>>
  BY DEF RegisterClass, Register, demoVars, renderVars, processVars
<1>2. /\ main = "creating"
      /\ toRegister \in {Registers, <<"Util", "JNIHelper">>, <<"JNIHelper">>}
  BY <1>1, ThreadsAssumption, NoThreadAssumption
  DEF IInv, TypeOK, RegisterProgress
<1>3. /\ Head(toRegister) \in Classes
      /\ toRegister' \in {<<"Util", "JNIHelper">>, <<"JNIHelper">>, <<>>}
  BY <1>1, <1>2, RegistersTails, ClassesAssumption
<1>4. TypeOK'
  <2>1. TableTypeOK'
    BY <1>1, <1>3, ThreadsAssumption DEF IInv, TypeOK, TableTypeOK
  <2>2. toRegister' \in Seq(Classes)
    BY <1>3, RegistersTyped
  <2>3. /\ demo' = "calling" <=> holder' = Demo
        /\ \A r \in Renders :
             render'[r].at \in {"creating", "posting"} <=> holder' = r
    BY <1>1, ThreadsAssumption, NoThreadAssumption DEF IInv, TypeOK
  <2> QED BY <1>1, <1>2, <2>1, <2>2, <2>3 DEF IInv, TypeOK
<1>5. RegisterProgress'
  BY <1>1, <1>2, RegistersTails, ThreadsAssumption, NoThreadAssumption
  DEF IInv, RegisterProgress
<1>6. CreatedRegistered'
  BY <1>1, <1>2 DEF IInv, CreatedRegistered
<1>7. BoxesOwned' /\ MessageMatches'
  BY <1>1 DEF IInv, BoxesOwned, MessageMatches
<1> QED BY <1>4, <1>5, <1>6, <1>7 DEF IInv

\* onCreate ends, with its classes in the table.
LEMMA MainCreatedKeeps ==
  ASSUME IInv, MainCreated PROVE IInv'
<1>1. /\ main = "creating" /\ main' = "created" /\ toRegister = <<>>
      /\ demo' \in {demo, "script"} /\ (demo' = "calling" <=> demo = "calling")
      /\ second' \in BOOLEAN
      /\ UNCHANGED <<table, holder, toRegister, image, render,
                     displayed, handler, answered, crashed, restored>>
  BY DEF MainCreated, IInv, TypeOK, tableVars, renderVars, processVars
<1>2. LookedUp \subseteq table
  BY <1>1 DEF IInv, RegisterProgress, LookedUp
<1>3. TypeOK'
  BY <1>1 DEF IInv, TypeOK, TableTypeOK
<1>4. RegisterProgress' /\ CreatedRegistered'
  BY <1>1, <1>2
  DEF IInv, RegisterProgress, CreatedRegistered
<1>5. BoxesOwned' /\ MessageMatches'
  BY <1>1 DEF IInv, BoxesOwned, MessageMatches
<1> QED BY <1>3, <1>4, <1>5 DEF IInv

\* The user goes from one activity to the other and back.
LEMMA NavigationKeeps ==
  ASSUME IInv, MainDestroy \/ ImageOpen \/ ImageClose PROVE IInv'
<1>1. /\ main' \in {main, "none"} /\ image' \in BOOLEAN
      /\ main' = "none" => toRegister = <<>> \/ main = "none"
      /\ UNCHANGED <<table, holder, toRegister, demo, second, render,
                     displayed, handler, answered, crashed, restored>>
  BY DEF MainDestroy, ImageOpen, ImageClose, IInv, TypeOK, tableVars, demoVars,
         renderVars, processVars
<1>2. TypeOK'
  BY <1>1 DEF IInv, TypeOK, TableTypeOK
<1>3. RegisterProgress' /\ CreatedRegistered'
  BY <1>1 DEF IInv, RegisterProgress, CreatedRegistered
<1>4. BoxesOwned' /\ MessageMatches'
  BY <1>1 DEF IInv, BoxesOwned, MessageMatches
<1> QED BY <1>2, <1>3, <1>4 DEF IInv

\* What Click and the steps of a render thread that post nothing have in
\* common: thread r alone changes, and no class is registered.
LEMMA RenderKeeps ==
  ASSUME IInv, NEW r \in Renders, NEW rec \in RenderRecords,
         render' = [render EXCEPT ![r] = rec],
         UNCHANGED <<activityVars, demoVars, handler, answered, restored, table>>,
         crashed' \in BOOLEAN,
         displayed' \in {displayed, displayed \cup {r}},
         rec.at \in {"creating", "posting"} <=> holder' = r,
         holder' = holder \/ {holder, holder'} \subseteq {r, NoThread},
         render[r].at # "done", rec.at # "done",
         rec.at \in {"post", "posting"} <=> rec.task = "boxed",
         rec.at \in {"none", "create", "creating", "draw"} =>
           r \notin displayed' /\ rec.task = "none",
         rec.at \in {"post", "posting"} => (rec.success <=> r \in displayed')
  PROVE  IInv'
<1>1. /\ render' \in [Renders -> RenderRecords]
      /\ render'[r] = rec
      /\ \A other \in Renders : other # r => render'[other] = render[other]
  BY RenderChanged DEF IInv, TypeOK, RenderRecords
<1>2. UNCHANGED <<main, image, toRegister, demo, second>>
  BY DEF activityVars, demoVars
<1>3. TypeOK'
  <2>1. TableTypeOK'
    BY ThreadsAssumption DEF IInv, TypeOK, TableTypeOK
  <2>2. demo' = "calling" <=> holder' = Demo
    BY <1>2, ThreadsAssumption, NoThreadAssumption DEF IInv, TypeOK
  <2>3. \A other \in Renders :
          render'[other].at \in {"creating", "posting"} <=> holder' = other
    BY <1>1, ThreadsAssumption, NoThreadAssumption DEF IInv, TypeOK
  <2> QED BY <1>1, <1>2, <2>1, <2>2, <2>3 DEF IInv, TypeOK, RenderRecords
<1>4. RegisterProgress' /\ CreatedRegistered'
  BY <1>2, ThreadsAssumption, NoThreadAssumption
  DEF IInv, RegisterProgress, CreatedRegistered
<1>5. BoxesOwned'
  BY <1>1 DEF IInv, BoxesOwned
<1>6. MessageMatches'
  BY <1>1 DEF IInv, MessageMatches
<1> QED BY <1>3, <1>4, <1>5, <1>6 DEF IInv

\* A click spawns a thread.
LEMMA ClickKeeps ==
  ASSUME IInv, NEW r \in Renders, Click(r) PROVE IInv'
<1> DEFINE rec == [render[r] EXCEPT !.at = "create"]
<1>1. render[r] \in RenderRecords /\ render[r].at = "none"
  BY DEF Click, IInv, TypeOK, RenderRecords
<1>2. /\ rec \in RenderRecords
      /\ rec.at = "create" /\ rec.task = render[r].task
  BY <1>1 DEF RenderRecords, Places
<1>3. /\ render' = [render EXCEPT ![r] = rec]
      /\ UNCHANGED <<table, holder, activityVars, demoVars, displayed,
                     handler, answered, crashed, restored>>
  BY DEF Click, tableVars, processVars
<1>4. render[r].task = "none" /\ r \notin displayed /\ holder # r
  BY <1>1 DEF IInv, TypeOK, BoxesOwned, MessageMatches
<1> HIDE DEF rec
<1> QED BY <1>1, <1>2, <1>3, <1>4, RenderKeeps DEF IInv, TypeOK, TableTypeOK

\* A render thread gets the guard.
LEMMA RenderLockKeeps ==
  ASSUME IInv, NEW r \in Renders, RenderLock(r) PROVE IInv'
<1> DEFINE rec == [render[r] EXCEPT !.at = IF @ = "create" THEN "creating"
                                           ELSE "posting"]
<1>1. render[r] \in RenderRecords /\ render[r].at \in {"create", "post"}
  BY DEF RenderLock, IInv, TypeOK, RenderRecords
<1>2. /\ rec \in RenderRecords
      /\ rec.at = IF render[r].at = "create" THEN "creating" ELSE "posting"
      /\ rec.task = render[r].task /\ rec.success = render[r].success
  BY <1>1 DEF RenderRecords, Places
<1>3. /\ render' = [render EXCEPT ![r] = rec]
      /\ holder = NoThread /\ holder' = r
      /\ UNCHANGED <<table, activityVars, demoVars, displayed,
                     handler, answered, crashed, restored>>
  BY DEF RenderLock, Lock, processVars
<1>4. /\ render[r].task = "boxed" <=> render[r].at = "post"
      /\ render[r].at = "post" => (render[r].success <=> r \in displayed)
      /\ render[r].at = "create" => r \notin displayed /\ render[r].task = "none"
  BY <1>1 DEF IInv, BoxesOwned, MessageMatches
<1>5. /\ rec.at \in {"creating", "posting"} /\ render[r].at # "done"
      /\ rec.at \in {"post", "posting"} <=> rec.task = "boxed"
      /\ rec.at = "creating" => r \notin displayed' /\ rec.task = "none"
      /\ rec.at = "posting" => (rec.success <=> r \in displayed')
  BY <1>1, <1>2, <1>3, <1>4
<1>6. /\ {holder, holder'} \subseteq {r, NoThread} /\ holder' = r
      /\ crashed' \in BOOLEAN
  BY <1>3 DEF IInv, TypeOK
<1> HIDE DEF rec
<1> QED BY <1>2, <1>3, <1>5, <1>6, RenderKeeps

\* A render thread has its bitmap.
LEMMA BitmapCreatedKeeps ==
  ASSUME IInv, NEW r \in Renders, BitmapCreated(r) PROVE IInv'
<1> DEFINE rec == [render[r] EXCEPT !.at = "draw"]
<1>1. render[r] \in RenderRecords /\ render[r].at = "creating"
  BY DEF BitmapCreated, IInv, TypeOK, RenderRecords
<1>2. rec \in RenderRecords /\ rec.at = "draw" /\ rec.task = render[r].task
  BY <1>1 DEF RenderRecords, Places
<1>3. /\ render' = [render EXCEPT ![r] = rec]
      /\ holder = r /\ holder' = NoThread
      /\ UNCHANGED <<table, activityVars, demoVars, displayed,
                     handler, answered, crashed, restored>>
  BY DEF BitmapCreated, CallJava, processVars
<1>4. /\ render[r].task = "none" /\ r \notin displayed
      /\ NoThread # r
  BY <1>1, <1>3, ThreadsAssumption, NoThreadAssumption
  DEF IInv, BoxesOwned, MessageMatches
<1> HIDE DEF rec
<1> QED BY <1>1, <1>2, <1>3, <1>4, RenderKeeps DEF IInv, TypeOK, TableTypeOK

\* A render thread has its message, whatever came of the bitmap.
LEMMA BoxKeeps ==
  ASSUME IInv, NEW r \in Renders,
         BitmapFailed(r) \/ ImageSet(r) \/ ImageSetFailed(r)
  PROVE  IInv'
<1>1. PICK success \in BOOLEAN :
        /\ render' = [render EXCEPT ![r] = [at |-> "post", success |-> success,
                                            task |-> "boxed"]]
        /\ displayed' = IF success THEN displayed \cup {r} ELSE displayed
  BY DEF BitmapFailed, ImageSet, ImageSetFailed, Box
<1>2. [at |-> "post", success |-> success, task |-> "boxed"] \in RenderRecords
  BY DEF RenderRecords, Places
<1>3. /\ render[r].at \in {"creating", "draw"}
      /\ render[r].at = "creating" => holder = r /\ holder' = NoThread
      /\ render[r].at = "draw" => holder' = holder
      /\ crashed' \in BOOLEAN
      /\ UNCHANGED <<table, activityVars, demoVars, handler, answered,
                     restored>>
  BY DEF BitmapFailed, ImageSet, ImageSetFailed, CallJava, tableVars,
         processVars, IInv, TypeOK
<1>4. r \notin displayed /\ NoThread # r
  BY <1>3, ThreadsAssumption, NoThreadAssumption DEF IInv, MessageMatches
<1>5. /\ holder' = holder \/ {holder, holder'} \subseteq {r, NoThread}
      /\ holder' # r
  BY <1>3, <1>4 DEF IInv, TypeOK, TableTypeOK
<1>6. displayed' \in {displayed, displayed \cup {r}}
      /\ (success <=> r \in displayed')
  BY <1>1, <1>4
<1> QED BY <1>1, <1>2, <1>3, <1>5, <1>6, RenderKeeps

\* The task's address is in the queue, and the thread has ended.
LEMMA PostedKeeps ==
  ASSUME IInv, NEW r \in Renders, Posted(r) PROVE IInv'
<1> DEFINE rec == [render[r] EXCEPT !.at = "done"]
<1>1. render[r] \in RenderRecords /\ render[r].at = "posting"
  BY DEF Posted, IInv, TypeOK, RenderRecords
<1>2. /\ rec \in RenderRecords /\ rec.at = "done"
      /\ rec.task = render[r].task /\ rec.success = render[r].success
  BY <1>1 DEF RenderRecords, Places
<1>3. /\ render' = [render EXCEPT ![r] = rec]
      /\ handler' = Append(handler, r)
      /\ holder = r /\ holder' = NoThread
      /\ UNCHANGED <<table, main, image, toRegister, demo, second,
                     displayed, answered, crashed, restored>>
  BY DEF Posted, CallJava, activityVars, demoVars, processVars
<1> HIDE DEF rec
<1>4. /\ render' \in [Renders -> RenderRecords]
      /\ render'[r] = rec
      /\ \A other \in Renders : other # r => render'[other] = render[other]
  BY <1>2, <1>3, RenderChanged DEF IInv, TypeOK, RenderRecords
<1>5. /\ handler' \in Seq(Renders)
      /\ \A other : Has(handler', other) <=> Has(handler, other) \/ other = r
      /\ Distinct(handler')
  BY <1>1, <1>3, AppendHas DEF IInv, TypeOK, BoxesOwned
<1>6. TypeOK'
  <2>1. /\ demo' = "calling" <=> holder' = Demo
        /\ \A other \in Renders :
             render'[other].at \in {"creating", "posting"} <=> holder' = other
    BY <1>2, <1>3, <1>4, ThreadsAssumption, NoThreadAssumption
    DEF IInv, TypeOK
  <2> QED BY <1>3, <1>4, <1>5, <2>1
          DEF IInv, TypeOK, TableTypeOK, RenderRecords
<1>7. RegisterProgress' /\ CreatedRegistered'
  BY <1>3, ThreadsAssumption, NoThreadAssumption
  DEF IInv, RegisterProgress, CreatedRegistered
<1>8. BoxesOwned'
  BY <1>1, <1>2, <1>3, <1>4, <1>5 DEF IInv, BoxesOwned
<1>9. MessageMatches'
  BY <1>1, <1>2, <1>3, <1>4 DEF IInv, MessageMatches
<1> QED BY <1>6, <1>7, <1>8, <1>9 DEF IInv

\* The main thread runs the task at the head of the queue and frees it.
LEMMA RunTaskKeeps ==
  ASSUME IInv, NEW r \in Renders, RunTask(r) PROVE IInv'
<1> DEFINE rec == [render[r] EXCEPT !.task = "freed"]
<1>1. /\ render' = [render EXCEPT ![r] = rec]
      /\ handler # <<>> /\ r = Head(handler) /\ handler' = Tail(handler)
      /\ answered' = answered \cup {r}
      /\ UNCHANGED <<table, holder, main, image, toRegister, demo,
                     second, displayed, crashed, restored>>
  BY DEF RunTask, tableVars, activityVars, demoVars, processVars
<1>2. /\ Has(handler, r)
      /\ handler' \in Seq(Renders)
      /\ \A other : Has(handler', other) <=> Has(handler, other) /\ other # r
      /\ Distinct(handler')
  BY <1>1, TailHas DEF IInv, TypeOK, BoxesOwned
<1>3. render[r] \in RenderRecords /\ render[r].at = "done"
  BY <1>2 DEF IInv, TypeOK, BoxesOwned, RenderRecords
<1>4. /\ rec \in RenderRecords /\ rec.at = "done" /\ rec.task = "freed"
      /\ rec.success = render[r].success
  BY <1>3 DEF RenderRecords, Places
<1> HIDE DEF rec
<1>5. /\ render' \in [Renders -> RenderRecords]
      /\ render'[r] = rec
      /\ \A other \in Renders : other # r => render'[other] = render[other]
  BY <1>1, <1>4, RenderChanged DEF IInv, TypeOK, RenderRecords
<1>6. TypeOK'
  BY <1>1, <1>2, <1>3, <1>4, <1>5
  DEF IInv, TypeOK, TableTypeOK, RenderRecords
<1>7. RegisterProgress' /\ CreatedRegistered'
  BY <1>1 DEF IInv, RegisterProgress, CreatedRegistered
<1>8. BoxesOwned'
  BY <1>1, <1>2, <1>4, <1>5 DEF IInv, BoxesOwned
<1>9. MessageMatches'
  BY <1>1, <1>3, <1>4, <1>5 DEF IInv, MessageMatches
<1> QED BY <1>6, <1>7, <1>8, <1>9 DEF IInv

\* The script calls Java, and the call returns.
LEMMA DemoKeeps ==
  ASSUME IInv, DemoLock \/ DemoReturns PROVE IInv'
<1>1. /\ \/ /\ holder = NoThread /\ holder' = Demo
            /\ demo = "script" /\ demo' = "calling"
         \/ /\ holder = Demo /\ holder' = NoThread
            /\ demo = "calling" /\ demo' = "script"
      /\ UNCHANGED <<table, main, image, toRegister, second, render,
                     displayed, handler, answered, crashed, restored>>
  BY DEF DemoLock, DemoReturns, Lock, CallJava, activityVars, renderVars,
         processVars
<1>2. TypeOK'
  BY <1>1, ThreadsAssumption, NoThreadAssumption DEF IInv, TypeOK, TableTypeOK
<1>3. RegisterProgress' /\ CreatedRegistered'
  BY <1>1, ThreadsAssumption, NoThreadAssumption
  DEF IInv, RegisterProgress, CreatedRegistered
<1>4. BoxesOwned' /\ MessageMatches'
  BY <1>1 DEF IInv, BoxesOwned, MessageMatches
<1> QED BY <1>2, <1>3, <1>4 DEF IInv

\* The steps that end the process and change nothing else.
Panics ==
  \/ RunTaskPanics
  \/ \E r \in Renders : RenderPanics(r) \/ PostPanics(r)
  \/ SecondInit

\* What they leave alone.
LEMMA PanicsLeave ==
  ASSUME Panics
  PROVE  /\ crashed' \in BOOLEAN
         /\ UNCHANGED <<table, holder, main, image, toRegister, demo, second,
                        render, displayed, handler, answered, restored>>
  BY DEF Panics, RunTaskPanics, RenderPanics, PostPanics, SecondInit,
     LookupPanics, tableVars, activityVars, demoVars, renderVars

\* The process ends.
LEMMA PanicsKeep ==
  ASSUME IInv, Panics PROVE IInv'
  BY PanicsLeave DEF IInv, TypeOK, TableTypeOK, RegisterProgress,
     CreatedRegistered, BoxesOwned, MessageMatches

\* A new process starts as the first one did, but for the open activity.
LEMMA RestoreKeeps ==
  ASSUME IInv, Restore PROVE IInv'
<1>1. /\ table' = {} /\ holder' = NoThread
      /\ main' = "none" /\ toRegister' = <<>>
      /\ demo' = "none" /\ second' = FALSE
      /\ render' = [r \in Renders |-> NotClicked]
      /\ displayed' = {} /\ handler' = <<>> /\ answered' = {}
      /\ image' \in BOOLEAN /\ crashed' \in BOOLEAN /\ restored' \in BOOLEAN
  BY DEF Restore, IInv, TypeOK
<1>2. TypeOK'
  <2>1. render' \in [Renders -> RenderRecords]
    BY <1>1 DEF NotClicked, RenderRecords, Places
  <2>2. TableTypeOK'
    BY <1>1 DEF TableTypeOK
  <2>3. /\ demo' = "calling" <=> holder' = Demo
        /\ \A r \in Renders :
             render'[r].at \in {"creating", "posting"} <=> holder' = r
    BY <1>1, ThreadsAssumption, NoThreadAssumption DEF NotClicked
  <2>4. toRegister' \in Seq(Classes) /\ handler' \in Seq(Renders)
    BY <1>1
  <2> QED BY <1>1, <2>1, <2>2, <2>3, <2>4 DEF TypeOK, RenderRecords
<1>3. RegisterProgress' /\ CreatedRegistered'
  BY <1>1, ThreadsAssumption, NoThreadAssumption
  DEF RegisterProgress, CreatedRegistered
<1>4. BoxesOwned'
  BY <1>1 DEF NotClicked, BoxesOwned, Has, Distinct
<1>5. MessageMatches'
  BY <1>1 DEF NotClicked, MessageMatches
<1> QED BY <1>2, <1>3, <1>4, <1>5 DEF IInv

\* Nothing happens.
LEMMA StutterKeeps ==
  ASSUME IInv, UNCHANGED vars PROVE IInv'
  BY DEF vars, tableVars, activityVars, demoVars, renderVars, processVars, IInv,
         TypeOK, TableTypeOK, RegisterProgress, CreatedRegistered,
         BoxesOwned, MessageMatches

\* Every step of the program keeps the invariant.
LEMMA IInvNext == IInv /\ [Next]_vars => IInv'
<1> SUFFICES ASSUME IInv, [Next]_vars PROVE IInv'
  OBVIOUS
<1>1. ASSUME CreateStep PROVE IInv'
  BY <1>1, RegisterLockKeeps, RegisterClassKeeps, MainCreatedKeeps
  DEF CreateStep
<1>2. ASSUME UserStep PROVE IInv'
  BY <1>2, MainCreateKeeps, NavigationKeeps, ClickKeeps DEF UserStep
<1>3. ASSUME HandlerStep PROVE IInv'
  BY <1>3, RunTaskKeeps, PanicsKeep DEF HandlerStep, Panics
<1>4. ASSUME NEW r \in Renders, RenderStep(r) PROVE IInv'
  BY <1>4, RenderLockKeeps, BitmapCreatedKeeps, BoxKeeps, PostedKeeps,
     PanicsKeep DEF RenderStep, Panics
<1>5. ASSUME DemoLock \/ DemoReturns \/ SecondInit \/ Restore PROVE IInv'
  BY <1>5, DemoKeeps, PanicsKeep, RestoreKeeps DEF Panics
<1> QED BY <1>1, <1>2, <1>3, <1>4, <1>5, StutterKeeps DEF Next

\* The invariant holds in every behaviour.
LEMMA IInvHolds == Spec => []IInv
  BY IInvInit, IInvNext, PTL DEF Spec

-----------------------------------------------------------------------------
(***************************************************************************)
(* A process that was not restored.                                        *)
(***************************************************************************)

\* MainActivity is the only one that can be first, and the script's thread
\* stays.
LEMMA ClickComesAfterNext ==
  ASSUME IInv, ClickComesAfter, [Next]_vars
  PROVE  ClickComesAfter'
<1>1. CASE CreateStep
  BY <1>1 DEF CreateStep, RegisterLock, RegisterClass, MainCreated,
     ClickComesAfter, activityVars, demoVars, renderVars, processVars
<1>2. CASE UserStep
  <2>1. CASE MainCreate \/ MainDestroy \/ ImageOpen \/ ImageClose
    BY <2>1 DEF MainCreate, MainDestroy, ImageOpen, ImageClose, UiIdle,
       ClickComesAfter, demoVars, renderVars, processVars
  <2>2. ASSUME NEW r \in Renders, Click(r) PROVE ClickComesAfter'
    BY <2>2 DEF Click, ClickComesAfter, activityVars, demoVars, processVars
  <2> QED BY <1>2, <2>1, <2>2 DEF UserStep
<1>3. CASE Panics
  BY <1>3, PanicsLeave DEF ClickComesAfter
<1>4. ASSUME NEW r \in Renders, RunTask(r) \/ RenderStep(r), ~Panics
      PROVE  ClickComesAfter'
  <2>1. UNCHANGED <<main, image, demo, restored>>
    BY <1>4 DEF RunTask, RenderStep, Panics, RenderLock, BitmapCreated,
       BitmapFailed, ImageSet, ImageSetFailed, Posted, activityVars, demoVars,
       processVars
  <2>2. render[r].at # "none"
    <3>1. CASE RunTask(r)
      BY <3>1, TailHas DEF RunTask, IInv, TypeOK, BoxesOwned
    <3>2. CASE RenderStep(r)
      BY <1>4, <3>2 DEF RenderStep, Panics, RenderLock, BitmapCreated,
         BitmapFailed, ImageSet, ImageSetFailed, Posted
    <3> QED BY <1>4, <3>1, <3>2
  <2> QED BY <2>1, <2>2 DEF ClickComesAfter
<1>5. CASE DemoLock \/ DemoReturns
  BY <1>5 DEF DemoLock, DemoReturns, ClickComesAfter, activityVars, renderVars,
     processVars
<1>6. CASE Restore \/ UNCHANGED vars
  BY <1>6 DEF Restore, vars, ClickComesAfter, activityVars, demoVars, renderVars,
     processVars
<1> QED BY <1>1, <1>2, <1>3, <1>4, <1>5, <1>6 DEF Next, HandlerStep, Panics

-----------------------------------------------------------------------------
(***************************************************************************)
(* The theorems.                                                           *)
(***************************************************************************)

\* Every variable stays in its set, and the guard of CLASS_TABLE is held by the
\* thread that is in a call, and by no other.
THEOREM TypeCorrect == Spec => []TypeOK
<1>1. IInv => TypeOK
  BY DEF IInv
<1> QED BY <1>1, IInvHolds, PTL

\* The event loop's thread never looks up an unknown class, not even after a
\* restore (MainActivity.java:39-41 and 72, dex/mod.rs:107-111).
THEOREM ScriptIsSafe == Spec => []ScriptFindsClasses
<1>1. IInv => ScriptFindsClasses
  BY DEF IInv, CreatedRegistered, LookedUp, ScriptFindsClasses
<1> QED BY <1>1, IInvHolds, PTL

\* A boxed DenoTask has one owner at every moment: it is freed once and never
\* run after that (ui_thread.rs:36-42, ndk_graphics/mod.rs:111-128).
THEOREM TasksOwnedOnce == Spec => []TaskOwnedOnce
<1>1. ASSUME IInv PROVE TaskOwnedOnce
  <2>1. \A i, j \in 1..Len(handler) : handler[i] = handler[j] => i = j
    BY <1>1 DEF IInv, BoxesOwned, Distinct
  <2>2. ASSUME NEW i \in 1..Len(handler)
        PROVE  render[handler[i]].task = "boxed" /\ render[handler[i]].at = "done"
    <3>1. handler[i] \in Renders /\ Has(handler, handler[i])
      BY <1>1 DEF IInv, TypeOK, Has
    <3> QED BY <1>1, <3>1 DEF IInv, BoxesOwned
  <2>3. ASSUME NEW r \in Renders, render[r].task = "boxed"
        PROVE  \/ render[r].at \in {"post", "posting"}
               \/ \E i \in 1..Len(handler) : handler[i] = r
    BY <1>1, <2>3 DEF IInv, BoxesOwned, Has
  <2> QED BY <2>1, <2>2, <2>3 DEF TaskOwnedOnce
<1> QED BY <1>1, IInvHolds, PTL

\* The toast says what became of the bitmap (ndk_graphics/mod.rs:37-72, 86-93).
THEOREM ToastIsTrue == Spec => []ToastTellsTheTruth
<1>1. IInv => ToastTellsTheTruth
  BY DEF IInv, TypeOK, MessageMatches, ToastTellsTheTruth
<1> QED BY <1>1, IInvHolds, PTL

\* The safety half of ClicksAnswered: whoever holds the guard can give it back,
\* and who needs the guard, or waits in the Handler's queue, finds it free when
\* nobody holds it (dex/mod.rs:70 and 107, ui_thread.rs:36-42).
THEOREM NobodyStuck == Spec => []SomeoneProceeds
<1>1. ASSUME IInv, NEW r \in Renders \ answered, render[r].at # "none"
      PROVE  UiProceeds \/ DemoProceeds \/ \E other \in Renders : RenderProceeds(other)
  <2>1. CASE holder = Ui
    BY <1>1, <2>1 DEF IInv, RegisterProgress, UiProceeds
  <2>2. CASE holder = Demo
    BY <1>1, <2>2 DEF IInv, TypeOK, CreatedRegistered, LookedUp, DemoProceeds
  <2>3. CASE holder \in Renders
    BY <1>1, <2>3 DEF IInv, TypeOK, RenderProceeds
  <2>4. CASE holder = NoThread /\ render[r].at # "done"
    BY <1>1, <2>4 DEF IInv, TypeOK, Places, RenderProceeds
  <2>5. CASE holder = NoThread /\ render[r].at = "done"
    <3>1. Has(handler, r)
      BY <1>1, <2>5 DEF IInv, BoxesOwned
    <3>2. handler # <<>>
      BY <3>1 DEF Has
    <3> QED BY <2>5, <3>2 DEF UiProceeds
  <2> QED
    BY <1>1, <2>1, <2>2, <2>3, <2>4, <2>5, ThreadsAssumption
    DEF IInv, TypeOK, TableTypeOK
<1>2. IInv => SomeoneProceeds
  BY <1>1 DEF SomeoneProceeds
<1> QED BY <1>2, IInvHolds, PTL

\* As long as Android did not restore the process, every lookup finds its
\* class: table.get(..).unwrap() does not fail (dex/mod.rs:111).
THEOREM LookupsSucceedUnlessRestored == Spec => []OnlyRestoreLosesClasses
<1>1. Init => ClickComesAfter
  BY DEF Init, NotClicked, ClickComesAfter
<1>2. IInv /\ ClickComesAfter /\ [Next]_vars => ClickComesAfter'
  BY ClickComesAfterNext
<1>3. IInv /\ ClickComesAfter => OnlyRestoreLosesClasses
  BY DEF IInv, CreatedRegistered, LookedUp, ClickComesAfter, LookupsSucceed,
     OnlyRestoreLosesClasses, ClassOf
<1> QED BY <1>1, <1>2, <1>3, IInvHolds, PTL DEF Spec

-----------------------------------------------------------------------------
(***************************************************************************)
(* UiTasks implements ClickContract.                                       *)
(***************************************************************************)

OutcomeOf(rec) ==
  IF rec.at = "none" THEN "none"
  ELSE IF rec.task = "none" THEN "rendering"
  ELSE IF rec.success THEN "shown" ELSE "failed"

Outcomes == [r \in Renders |-> Outcome(r)]

\* When one click's record changes, its outcome does.
LEMMA OneOutcome ==
  ASSUME IInv, NEW r \in Renders, NEW rec \in RenderRecords,
         render' = [render EXCEPT ![r] = rec]
  PROVE  /\ Outcomes[r] = OutcomeOf(render[r])
         /\ Outcomes' = [Outcomes EXCEPT ![r] = OutcomeOf(rec)]
<1>1. render \in [Renders -> RenderRecords]
  BY DEF IInv, TypeOK, RenderRecords
<1>2. \A other \in Renders :
        render'[other] = IF other = r THEN rec ELSE render[other]
  BY <1>1
<1>3. /\ Outcomes = [other \in Renders |-> OutcomeOf(render[other])]
      /\ Outcomes' = [other \in Renders |-> OutcomeOf(render'[other])]
  BY DEF Outcomes, Outcome, OutcomeOf
<1> QED BY <1>2, <1>3

\* Every step is a step of the contract for one click, or does not show.
LEMMA ContractStep ==
  IInv /\ [Next]_vars => [Contract!Next]_(Contract!vars)
<1> DEFINE Seen == <<Outcomes, displayed, handler, answered>>
<1> SUFFICES ASSUME IInv, [Next]_vars PROVE Contract!Next \/ UNCHANGED Seen
  BY DEF Contract!vars, Outcomes
<1>0. render \in [Renders -> RenderRecords]
  BY DEF IInv, TypeOK, RenderRecords
<1>1. ASSUME UNCHANGED <<render, displayed, handler, answered>>
      PROVE  UNCHANGED Seen
  BY <1>1 DEF Outcomes, Outcome
<1>2. ASSUME NEW r \in Renders, Click(r) PROVE Contract!Next
  <2> DEFINE rec == [render[r] EXCEPT !.at = "create"]
  <2>1. /\ render[r].at = "none"
        /\ render' = [render EXCEPT ![r] = rec]
        /\ UNCHANGED <<displayed, handler, answered>>
    BY <1>2 DEF Click
  <2>2. render[r].task = "none"
    BY <2>1 DEF IInv, MessageMatches
  <2>3. rec \in RenderRecords /\ OutcomeOf(rec) = "rendering"
    BY <1>0, <2>2 DEF RenderRecords, Places, OutcomeOf
  <2>4. Contract!Click(r)
    BY <2>1, <2>3, OneOutcome DEF Contract!Click, Outcomes, OutcomeOf
  <2> QED BY <2>4 DEF Contract!Next
<1>3. ASSUME NEW r \in Renders,
             RenderLock(r) \/ BitmapCreated(r)
      PROVE  UNCHANGED Seen
  <2>1. PICK at \in Places \ {"none"} :
          render' = [render EXCEPT ![r] = [render[r] EXCEPT !.at = at]]
    BY <1>3 DEF RenderLock, BitmapCreated, Places
  <2>2. render[r].at # "none" /\ UNCHANGED <<displayed, handler, answered>>
    BY <1>3 DEF RenderLock, BitmapCreated
  <2> DEFINE rec == [render[r] EXCEPT !.at = at]
  <2>3. rec \in RenderRecords /\ OutcomeOf(rec) = OutcomeOf(render[r])
    BY <1>0, <2>2 DEF RenderRecords, OutcomeOf
  <2>4. UNCHANGED Outcomes
    BY <2>1, <2>3, OneOutcome DEF Outcomes
  <2> QED BY <2>2, <2>4
<1>4. ASSUME NEW r \in Renders,
             BitmapFailed(r) \/ ImageSet(r) \/ ImageSetFailed(r)
      PROVE  Contract!Next
  <2>1. PICK success \in BOOLEAN : Box(r, success)
          /\ displayed' = IF success THEN displayed \cup {r} ELSE displayed
    BY <1>4 DEF BitmapFailed, ImageSet, ImageSetFailed
  <2>2. render[r].at \in {"creating", "draw"} /\ UNCHANGED <<handler, answered>>
    BY <1>4 DEF BitmapFailed, ImageSet, ImageSetFailed
  <2> DEFINE rec == [at |-> "post", success |-> success, task |-> "boxed"]
  <2>3. /\ rec \in RenderRecords
        /\ OutcomeOf(rec) = IF success THEN "shown" ELSE "failed"
    BY DEF RenderRecords, Places, OutcomeOf
  <2> HIDE DEF rec
  <2>4. OutcomeOf(render[r]) = "rendering"
    BY <2>2 DEF IInv, MessageMatches, OutcomeOf
  <2>5. /\ Outcomes[r] = "rendering"
        /\ Outcomes' = [Outcomes EXCEPT ![r] = IF success THEN "shown" ELSE "failed"]
    <3>1. render' = [render EXCEPT ![r] = rec]
      BY <2>1 DEF Box, rec
    <3> QED BY <2>3, <2>4, <3>1, OneOutcome
  <2>6. Contract!Show(r) \/ Contract!Fail(r)
    BY <2>1, <2>2, <2>5 DEF Contract!Show, Contract!Fail, Outcomes
  <2> QED BY <2>6 DEF Contract!Next
<1>5. ASSUME NEW r \in Renders, Posted(r) PROVE Contract!Next
  <2> DEFINE rec == [render[r] EXCEPT !.at = "done"]
  <2>1. /\ render[r].at = "posting"
        /\ render' = [render EXCEPT ![r] = rec]
        /\ handler' = Append(handler, r)
        /\ UNCHANGED <<displayed, answered>>
    BY <1>5 DEF Posted
  <2>2. render[r].task = "boxed" /\ ~Has(handler, r) /\ r \notin answered
    BY <2>1 DEF IInv, BoxesOwned, MessageMatches
  <2>3. /\ rec \in RenderRecords /\ OutcomeOf(rec) = OutcomeOf(render[r])
        /\ OutcomeOf(rec) \in {"shown", "failed"}
    BY <1>0, <2>1, <2>2 DEF RenderRecords, Places, OutcomeOf
  <2> HIDE DEF rec
  <2>4. UNCHANGED Outcomes /\ Outcomes[r] \in {"shown", "failed"}
    BY <2>1, <2>3, OneOutcome DEF Outcomes
  <2>5. Contract!Post(r)
    BY <2>1, <2>2, <2>4 DEF Contract!Post, Outcomes, Has
  <2> QED BY <2>5 DEF Contract!Next
<1>6. ASSUME NEW r \in Renders, RunTask(r) PROVE Contract!Next
  <2> DEFINE rec == [render[r] EXCEPT !.task = "freed"]
  <2>1. /\ handler # <<>> /\ r = Head(handler) /\ handler' = Tail(handler)
        /\ answered' = answered \cup {r}
        /\ render' = [render EXCEPT ![r] = rec]
        /\ UNCHANGED displayed
    BY <1>6 DEF RunTask
  <2>2. render[r].task = "boxed"
    BY <2>1, TailHas DEF IInv, TypeOK, BoxesOwned
  <2>3. rec \in RenderRecords /\ OutcomeOf(rec) = OutcomeOf(render[r])
    BY <1>0, <2>2 DEF RenderRecords, OutcomeOf
  <2>4. UNCHANGED Outcomes
    BY <2>1, <2>3, OneOutcome DEF Outcomes
  <2>5. Contract!Answer(r)
    BY <2>1, <2>4 DEF Contract!Answer, Outcomes
  <2> QED BY <2>5 DEF Contract!Next
<1>7. ASSUME Restore PROVE Contract!Next
  <2>1. /\ Outcomes' = [r \in Renders |-> "none"]
        /\ displayed' = {} /\ handler' = <<>> /\ answered' = {}
    BY <1>7 DEF Restore, NotClicked, Outcomes, Outcome
  <2>2. Contract!Restart
    BY <2>1 DEF Contract!Restart, Outcomes
  <2> QED BY <2>2 DEF Contract!Next
<1>8. CASE \/ CreateStep \/ MainCreate \/ MainDestroy \/ ImageOpen \/ ImageClose
           \/ DemoLock \/ DemoReturns \/ Panics \/ UNCHANGED vars
  <2>1. UNCHANGED <<render, displayed, handler, answered>>
    BY <1>8, PanicsLeave
    DEF CreateStep, RegisterLock, RegisterClass, MainCreated, MainCreate,
        MainDestroy, ImageOpen, ImageClose, DemoLock, DemoReturns, vars,
        renderVars
  <2> QED BY <1>1, <2>1
<1> QED
  BY <1>2, <1>3, <1>4, <1>5, <1>6, <1>7, <1>8
  DEF Next, UserStep, HandlerStep, RenderStep, Panics

\* Nobody has clicked yet.
LEMMA ContractInit == Init => Contract!Init
  BY DEF Init, Contract!Init, NotClicked, Outcome

\* A click is answered at most once, in the order of the posts, and with what
\* became of its own bitmap, for every number of clicks, wherever a panic
\* ends the process and whether Android restores it or not.
THEOREM ImplementsClickContractThm == Spec => ImplementsClickContract
  BY ContractInit, ContractStep, IInvHolds, PTL
  DEF Spec, ImplementsClickContract, Contract!Spec
=============================================================================
