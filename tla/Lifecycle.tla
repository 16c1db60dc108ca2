------------------------------ MODULE Lifecycle -----------------------------
(***************************************************************************)
(* The instances of MainActivity that Android creates and destroys in one  *)
(* process, and what is global to that process: the references in g_ctx    *)
(* (app/src/main/cpp/lib/node-ext.cpp), the V8 platform, and the threads   *)
(* of demoMain, one for each onCreate.  No thread is ever stopped, and     *)
(* each holds its activity, so no activity is garbage and JNIHelper's weak *)
(* reference is never cleared.                                             *)
(*                                                                         *)
(* External: Android destroys an activity before it creates the next, as   *)
(* when it is recreated, or at any time later, as when it was finished;    *)
(* V8::InitializePlatform ends the process when there is a platform        *)
(* already.                                                                *)
(***************************************************************************)
EXTENDS Naturals

CONSTANT MaxActivities

ASSUME MaxActivitiesAssumption == MaxActivities \in Nat

Activities == 1..MaxActivities

VARIABLES
  activity,    \* "none", "created" or "destroyed"
  gctx,        \* whose references g_ctx holds, or 0
  globalRefs,  \* the activities whose global references are not deleted
  platform,    \* V8 has a platform
  thread,      \* the thread of demoMain: "none", "started" or "running"
  crashed      \* the process is gone

lifecycleVars == <<activity, gctx, globalRefs, platform, thread, crashed>>

LifecycleInit ==
  /\ activity = [a \in Activities |-> "none"]
  /\ gctx = 0
  /\ globalRefs = {}
  /\ platform = FALSE
  /\ thread = [a \in Activities |-> "none"]
  /\ crashed = FALSE

\* MainActivity.onCreate: initVM and a new thread.
OnCreate(a) ==
  /\ ~crashed
  /\ activity[a] = "none"
  /\ \A b \in 1..(a - 1) : activity[b] # "none"
  /\ activity' = [activity EXCEPT ![a] = "created"]
  /\ gctx' = a
  /\ globalRefs' = globalRefs \cup {a}
  /\ thread' = [thread EXCEPT ![a] = "started"]
  /\ UNCHANGED <<platform, crashed>>

\* Mutant: the slots keep references that are deleted.
OnDestroyDangles(a) ==
  /\ ~crashed
  /\ activity[a] = "created"
  /\ activity' = [activity EXCEPT ![a] = "destroyed"]
  /\ globalRefs' = globalRefs \ {gctx}
  /\ UNCHANGED <<gctx, platform, thread, crashed>>

\* onDestroy: releaseVM deletes the references that g_ctx has now, whoever put
\* them there.
OnDestroy(a) ==
  /\ ~crashed
  /\ activity[a] = "created"
  /\ activity' = [activity EXCEPT ![a] = "destroyed"]
  /\ globalRefs' = globalRefs \ {gctx}
  /\ gctx' = 0
  /\ UNCHANGED <<platform, thread, crashed>>

\* demoMain makes an Isolate: deno_init initialises V8, isolate.js runs (under
\* ISOLATE_INIT), then the script.
DenoInit(a) ==
  /\ ~crashed
  /\ thread[a] = "started"
  /\ \/ /\ ~platform
        /\ platform' = TRUE
        /\ thread' = [thread EXCEPT ![a] = "running"]
        /\ UNCHANGED crashed
     \/ /\ platform
        /\ crashed' = TRUE
        /\ UNCHANGED <<platform, thread>>
  /\ UNCHANGED <<activity, gctx, globalRefs>>

\* The isolate's thread: the one that found no platform.
ScriptRuns == \E a \in Activities : thread[a] = "running"

LifecycleTypeOK ==
  /\ activity \in [Activities -> {"none", "created", "destroyed"}]
  /\ gctx \in globalRefs \cup {0}
  /\ globalRefs \subseteq Activities
  /\ platform \in BOOLEAN
  /\ thread \in [Activities -> {"none", "started", "running"}]
  /\ crashed \in BOOLEAN

\* "release allocated objects" is what releaseVM says it does
\* (node-ext.cpp:87): native code holds references to an activity from its
\* onCreate to its onDestroy, loses none of a living activity and keeps none of
\* a destroyed one.
RefsMatchActivities ==
  globalRefs = {a \in Activities : activity[a] = "created"}

\* V8 is given its platform before it is initialised, as v8.h:8547-8549 asks:
\* a thread that is about to run deno_init is the first one.
PlatformComesFirst ==
  \A a \in Activities : thread[a] = "started" => ~platform
=============================================================================
