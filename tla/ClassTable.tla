----------------------------- MODULE ClassTable -----------------------------
(***************************************************************************)
(* CLASS_TABLE of app/rust/src/dex/mod.rs: the Java classes that native    *)
(* code may call, registered by createReference and looked up by           *)
(* call_static_method, behind one std::sync::Mutex.  call_static_method    *)
(* keeps the guard for as long as the Java method runs.  A panic ends the  *)
(* process (panic = 'abort' in app/rust/Cargo.toml), so no thread ever     *)
(* meets a poisoned mutex, and lock().unwrap() does not fail.              *)
(***************************************************************************)
CONSTANTS
  Threads,
  Classes,
  NoThread

ASSUME NoThreadAssumption == NoThread \notin Threads

VARIABLES
  table,      \* the keys of CLASS_TABLE
  holder      \* the thread that holds the guard, or NoThread

tableVars == <<table, holder>>

TableInit ==
  /\ table = {}
  /\ holder = NoThread

\* Mutant: a guard that does not exclude the others, as a read guard.
LockShared(thread) ==
  /\ holder' = thread
  /\ UNCHANGED table

\* CLASS_TABLE.lock().unwrap(), which waits while another thread holds it.
Lock(thread) ==
  /\ holder = NoThread
  /\ holder' = thread
  /\ UNCHANGED table

\* createReference has the guard: it inserts the class unless it is there,
\* and drops the guard.
Register(thread, class) ==
  /\ holder = thread
  /\ table' = table \cup {class}
  /\ holder' = NoThread

\* call_static_method has the guard and the class, calls the Java method and,
\* when that returns or throws, drops the guard.
CallJava(thread, class) ==
  /\ holder = thread
  /\ class \in table
  /\ holder' = NoThread
  /\ UNCHANGED table

\* table.get(&class_name).unwrap() panics with the guard held: the caller's
\* process is gone.
LookupPanics(thread, class) ==
  /\ holder = thread
  /\ class \notin table
  /\ UNCHANGED tableVars

TableTypeOK ==
  /\ table \subseteq Classes
  /\ holder \in Threads \cup {NoThread}
=============================================================================
