# TLA+ models of rust-on-android

The program runs JavaScript on V8 inside an Android app. Rust code
(`src/app/rust/src`) owns the event loop, C++ code (`src/app/rust/build`,
`src/app/src/main/cpp`) talks to V8, and Java and Kotlin code
(`src/app/src/main/java`) owns the activities. This directory holds TLA+ modules
of the parts that have state, the TLC configurations that check them on small
instances, and proofs checked by TLAPS. Paths below are relative to
`src/app/rust/src` unless they begin with `src/`.

## The system

| Part | State | Operations | Hard because |
| --- | --- | --- | --- |
| JavaScript timers, `runtime/isolate.rs:233-336` | `timerMap`, `nextTimerId`, a microtask for each visited timer | `setTimeout`, `setInterval`, the clears, `globalTimerCallback`, `fire` | callbacks set and clear timers and throw while a pass is under way |
| Fetch operations, `runtime/fetch.rs`, `runtime/isolate.rs:161-231` | `promiseTable`, `pending_ops`, wakers | `fetch`, poll, wake, resolve | network threads wake futures at any time; the loop stops at the first completion |
| Event loop, `runtime/isolate.rs:403-435`, `event_loop.rs`, `build/api.cpp` | one tokio `Sleep`, the task's waker | poll, reset, `get_min_timeout` | one thread serves timers and network and sleeps only if something will wake it |
| Class table, `dex/mod.rs` | `CLASS_TABLE` behind a mutex | `createReference`, `call_static_method` | three kinds of threads share it and hold the guard while Java runs; a class that is missing ends the process |
| UI tasks, `ndk_graphics/mod.rs`, `runtime/ui_thread.rs`, `JNIHelper.java` | boxed `DenoTask`s, the Handler's queue | click, render, post, run | raw pointers travel through a Java queue |
| Java bridge, `build/v8_jni/wrapper.cpp`, `v8_jni/util.rs`, `JNIHelper.java` | objects of the script, boxed strings, the pending Java exception | `new Java`, `isMethod`, `isField`, `$invokeJavaFn` | the errors of three languages meet, and strings travel as raw addresses |
| Lifecycle, `src/app/src/main/cpp/lib/node-ext.cpp`, `MainActivity.java` | `g_ctx`, the V8 platform, one thread per `onCreate` | `initVM`, `releaseVM`, `demoMain` | Android recreates activities; the native state is global |
| Text decoding, `runtime/isolate.rs:98-135` | the index and the string of one call | `decode` | octets may be cut inside a character |
| `$sendBuffer`, `lib.rs:64-135` | the user function it waits for | `worker_send_bytes`, `promise_resolver` | user functions run below Rust, and the bindings report no failure |
| Pixels, `ndk_graphics/mandelbrot.rs`, `ndk_graphics/fractal.rs` | the bitmap's bytes | `render` | two orders of walking over the same pixels |
| V8 bindings, logging, resources, build | none that outlives a call | | |

How they interact. `MainActivity.onCreate` registers three classes in the class
table, calls `initVM` and starts the thread of `demoMain`. That thread makes an
`Isolate`, runs the script and then `tokio::block_on(isolate)`. `Isolate::poll`
polls the fetch operations, then the `Sleep`; when the `Sleep` is over it calls
`globalTimerCallback` in V8 and sets the `Sleep` to the least delay again. Callbacks
push operations into the `Isolate` through the address V8 keeps (`set_deno_data`),
and call Java through the bridge, which looks classes up in the class table.
The script may also call `$sendBuffer`, with which Rust calls three functions of the
script back, and those may call Java in turn. A
click in `GenerateImageActivity` spawns a thread that renders a bitmap, boxes a
task and posts its address to the main thread through `JNIHelper.runTask`.

What makes each part correct:

* timers: a cleared timer is never called; a timeout that returned is never
  called again; calls of an interval are at least its delay apart; a pass ends; every
  timer is served in the end;
* operations: no promise resolves twice or with another's body; no future is
  lost while its answer is on the way; every request starts, every body arrives;
* event loop: it never sleeps without something that will wake it, and however the wall
  clock is set, a timer is late or early by no more than the code's schedule allows;
* class table and UI tasks: lookups succeed, no thread waits for ever, each
  task is run and freed once, and the toast tells what happened;
* Java bridge: every boxed string is taken back once, a number is unboxed as the type
  it has, no JNI call is made with an exception pending;
* lifecycle: the platform is initialised once, a reference is released by its owner;
* text and pixels: text in UTF-8 comes back as it was, a picture has every pixel in
  its place.

## Modules

| Module | Models | Composes |
| --- | --- | --- |
| `TimerContract` | what a script may rely on: an id is handed out once, and a timer that was cleared, or a timeout that returned, is gone | |
| `JsTimers` | the JavaScript timers, one action per operation | refines `TimerContract` |
| `JsTimersHistory` | `JsTimers` with the history its properties speak of | extends `JsTimers` |
| `JsTimersProofs` | theorems about it | extends `JsTimersHistory` |
| `FetchContract` | what a script may rely on: a promise is pending, started, and resolved at most once | |
| `FetchOps` | promise table, futures, wakers, the poll loop | refines `FetchContract` |
| `FetchOpsProofs` | theorems about it | extends `FetchOps` |
| `EventLoop` | `Isolate::poll` with the `Sleep`, over timers and operations | `JsTimers`, `FetchOps` as `T` and `F` |
| `EventLoopTiming` | `EventLoop` where computing takes no time and the wall clock may be set | extends `EventLoop` |
| `EventLoopProofs` | theorems about both | extends `EventLoopTiming` |
| `ClassTable` | `CLASS_TABLE` and its mutex | |
| `ClickContract` | what a click promises: one outcome, one answer, in the order of posting | |
| `UiTasks` | clicks, render threads, the Handler's queue, the script's calls | extends `ClassTable`, refines `ClickContract` |
| `UiTasksProofs` | theorems about them | extends `UiTasks` |
| `Lifecycle` | activities, `g_ctx`, the V8 platform, the threads of `demoMain` | |
| `JavaBridge` | the script's calls into Java | extends `Lifecycle` |
| `WorkerSend` | `$sendBuffer` and the user functions it calls back | extends `JavaBridge` |
| `WorkerSendProofs` | theorems about the three | extends `WorkerSend` |
| `TextDecoder` | `TextDecoder.decode` against UTF-8 | |
| `TextDecoderProofs` | theorems about it | extends `TextDecoder` |
| `Pixels` | the two renderers and the palette | |
| `PixelsProofs` | theorems about them | extends `Pixels` |
| `CommonLemmas` | lemmas about sequences, and about the least number of a set | extended by the proof modules |
| `MC...` | values that a `.cfg` cannot write | |

A definition whose comment begins with "Mutant" is a plausible wrong version of the
definition that follows it. No specification uses one: they are there to see that a
property notices the difference.

### Timers

`live` is the set of keys of `timerMap`; `timer[id]` is the timer object: its delay,
when it is `due`, and whether it repeats. Time is relative: `due` is the number of
milliseconds left, `Age` lets one pass, and 0 stands for every due time in the past,
so no clock value is kept. `NaN` stands for a delay that was omitted: `undefined`,
which arithmetic turns into NaN, with which no comparison holds. `jobs` is the rest of
the microtask queue of a pass: `globalTimerCallback` makes one microtask per key and V8
runs them in that order before the native call returns. `fire` is split where user
code runs: `FireCall` looks the timer up, checks that it is due and computes the next
due time (`nextDue`), then the callback runs `SetTimer` and `ClearTimer` any number
of times, then `IntervalReturn`, `TimeoutReturn` or `CallbackThrow`.
`JsTimersHistory` adds what the runtime does not record: when a call began, how the
last one ended, what was cleared, which keys a pass has yet to visit. For
`TimerContract`, a timer is "set" while its key is in the map and "gone" once it left it;
time, microtasks and passes are stutters.

### Fetch operations

`op[id]` is the future of promise `id`: unsent, sent, answered with a body, an error
or a body that holds a NUL byte, done or failed. `readyQ` is the ready queue of
`FuturesUnordered`, `opsWaker` its waker slot and `woken` says that the task's waker
was called, so a wake before, during and after a poll are three different histories.
A request that fails completes its future with `"{}"`, and the promise stays in the
table and pending for ever: `FetchContract` lets it stay "started". A body with a NUL byte makes
`c_str!` panic inside poll (`PollNul`): the process ends, and with it whatever a
timer or a promise still waited for. The model then stops, and for that reason alone its
run does not check for deadlock. `NulArrived` is what the network did to bring that about,
and the liveness properties name it as the one excuse for not serving somebody.

### Event loop

`pc` says where `Isolate::poll` is. `sleep`, `sleepState` and `sleepWaker` stand for
tokio's timer entry. User code runs in the script, in a pass over the timers and in
the reactions to a promise. `ToUint32` models `Uint32Value` in
`get_min_timeout`, with `Uint32Mod` in the place of 2^32 and `MaxSafeInteger`
(equal to -1 modulo `Uint32Mod`, as 2^53 - 1 is) for the fold of
`$newGlobalTimer` over no timer. A step that touches the timers is an action of
`JsTimers` with the thread's place as a further guard, so the steps of the timers are
those of `T` by construction. Those of the operations are not: the `Sleep` wakes the loop
too, and `FetchOps` assumes of whatever wakes it that it does so in the end. That
`F!FairSpec` holds of the composition is `ImplementsFetchOps`. `EventLoopTiming`
lets time pass only while the thread sleeps and nothing woke it, so that whatever is
late is late by the code's own schedule. The `Sleep` counts elapsed time, but a due
time is a value of `Date.now()`: `SetClock` sets that clock back or forth at any moment,
`wall` and `wallNext` are what is left on it, below 0 once a time is past (`Later` stops
counting where no later `SetClock` could make a difference). The history variables say what
the properties compare: `ideal` is what would be left on a clock nobody sets, `back` and
`forth` how far it was set each way, and `inherited` what was left of a running sleep
when a reaction to a fetch set a timer that this sleep then delays. `DelaysFit` is the
condition under which lateness has a bound: no delay outside 32 bits, which `ToUint32`
would change.

### Class table and UI tasks

`ClassTable` has one action for each thing that can happen at the mutex: it is
taken, `createReference` inserts, a Java method is called and returns, or a lookup
panics. The build the repository makes (`src/pre-build.sh` builds the dev profile, with
`panic = 'abort'` in `src/app/rust/Cargo.toml:42`) ends the process at any panic, so a mutex is
never seen poisoned and `lock().unwrap()` never fails. `UiTasks` says which
thread does what: the main thread registers three classes in
`onCreate` and serves the Handler; each click has a thread that looks up `Util`,
draws, gives the bitmap to the view, boxes a task, looks up `JNIHelper` and posts; the
event loop's thread calls `JNIHelper` again and again. A Java call may throw where the
code has an error path, and where it has an `unwrap` the process ends: `RenderPanics` is a
lookup that finds no class, `PostPanics` a `runTask` that threw, `RunTaskPanics` a click's
callback that did. `Restore` is Android killing the process in the background and
starting it again with the top activity alone. When a recreated `MainActivity` starts a
second thread of `demoMain`, that thread ends the process at some moment (`SecondInit`):
what exactly it does is in `Lifecycle`. For `ClickContract`, the outcome of a click is
read off its thread: "rendering" until it boxes its task, then "shown" or "failed" as the
task says. Locks
and lookups are stutters, and `Restore` forgets every click.

### Lifecycle and Java bridge

`Lifecycle` has `OnCreate`, `OnDestroy` and `DenoInit`, one instance per activity.
`gctx` names the activity whose references the slots of `g_ctx` hold, and
`globalRefs` the activities whose references were not deleted. Android may destroy an
activity before the next one is created, as when a rotation recreates it, or at any time
later, as when it was finished; the model allows both.

`JavaBridge` adds the script's calls. `Construct` is `new Java`; `Invoke` converts
the arguments in C++ and boxes the strings; `TakeName` and `TakeArg` are Rust taking
each box back, one argument per step; `CallReturns` and `CallThrows` are
`JNIHelper.callMethod`; `TakeResponse` makes the result a number or null. A failed
`unwrap` of a JNI result is an alternative of its own wherever the code has one
(`ConstructPanics`, `IsMemberPanics`, `TakeName`, `TakeResponse`) and ends the
process. `call` holds the tags of the
arguments: `InvokeJavaFunction` writes the tag of an int32 and of a string, and leaves
that of any other value unwritten, which is a choice among all tags. `misused` is a
history variable: it records that the script asked for something the bridge has no
answer to, such as a class that does not exist, and the properties about a script that
does not are stated with it.

`WorkerSend` adds `$sendBuffer`: `worker_send_bytes` calls the script's callback, then
`getName` and `getPromise` of what each returns, and `promise_resolver` runs as a
microtask later. `sending` is the user function under way; while it runs, the script may
call Java as anywhere else, with Rust's frames on the stack. The V8 bindings hand out an
empty handle for a function that threw or is not there, and using it ends the process:
`FunctionFails` and `PromiseResolverFails`.

### Text and pixels

A step of `TextDecoder` is a round of `decode`'s outer loop. Its input is either the
UTF-8 encoding of a text, possibly cut at the end, or arbitrary octets. A step of
`Pixels` is one pixel: drawn by `mandelbrot::render`, computed by `fractal::render`,
or copied by it.

## Runs

| Run | Instance | Shows |
| --- | --- | --- |
| `js_timers` | 2 timers, delays -1, 0, 1, 2, NaN | what a script may rely on, by every interleaving of setting, clearing, throwing and time; the timers implement `TimerContract` |
| `fetch_ops` | 3 fetches, fair | no lost future, no missed wake, the contract; requests start, bodies arrive |
| `event_loop` | 2 timers, 1 fetch, fair | the `Sleep` never dies, the composition implements `FetchOps` with its fairness, every timer with a numeric delay is called or leaves the map |
| `timing` | 2 timers with delays 1 and 3, a fetch, no computing time, a clock set by 1 each way | how late and how early the loop's own schedule calls a timer |
| `ui_tasks` | 3 clicks, process may be restored, or ended by a panic or a second loop, fair | tasks owned once, toasts agree with the view, the script's thread never misses a class and a click only after a restore, the threads never all wait, every click is answered, `ClickContract` is implemented |
| `ui_restore` | violation | a restored process has an empty class table, see below |
| `bridge` | 2 activities, 3 arguments of every kind, every class and type, calls from `$sendBuffer` | boxed strings are taken back whatever goes wrong; a script that keeps to what the bridge supports survives |
| `bridge_types` | violation | a method of another type ends the process at the next call, see below |
| `lifecycle_platform` | violation | a second thread initialises the platform again, see below |
| `lifecycle_refs` | violation | `releaseVM` releases the references of another activity, see below |
| `text_decoder` | 3 characters, 3 octets cut; any 4 octets | text comes back as it was, `decode` stays in its array |
| `pixels` | 3 by 2 pixels | every pixel is in its place with its own colour |

Bounds. Two timers are enough for one callback to clear, replace or outlive another;
identifiers are never reused, so a cleared and a new one fill the map. `timing` has a short
and a long delay, one that another sleep can outlast, and `MaxStep` bounds how far the
clock is set in all, each way; in the theorems it is any number. Delays
from -1 to 2 give timers that are due at once, before, with and after another. Three
fetches give one that completes, one that is left behind in the same poll, and
one that comes later. Three clicks contend for the mutex with the main thread and the
script. The counters (`nextTimerId`, `nextPromiseId`) are bounded by `MaxTimers`
and `MaxPromises` in the guards of `SetTimer` and `CreateResolvable`. Two activities
are one that is destroyed, early or late, and its successor, and `MaxActivities` bounds them. An argument after
a string, before one and between two, which `MaxArgs` of 3 gives, are all the ways in
which a box can be confused with another's. `Characters` has the first and the last
code point of each length of encoding, and `Octets` the first and last of each range
that `decode` tells apart; the longest encoding has 4 octets, so 3 lost ones reach
every cut and 4 arbitrary ones every branch. `MaxReactions` of 1 lets one promise of
`$sendBuffer` wait while the next call is under way. A bitmap of 3 by 2 tells rows from
columns, and `Counts` has both ends and the last index of the palette.

Where deadlock is not checked. `fetch_ops` stops after the panic and `timing` when nothing
makes time pass any more; in `ui_tasks` and `bridge` the process may end;
`text_decoder` and `pixels` are algorithms that finish.

Fairness. `WF(LoopStep)`: the loop's thread runs, and V8 leaves callbacks in the end.
`SF(Elapse)`: tokio's driver fires an elapsed `Sleep` each time the thread parks.
`WF(Tick)`: time passes. Nothing is assumed of the network; `BodiesDelivered` speaks only
of what has arrived. `FetchOps` by itself assumes that something wakes the loop in the
end (`WF(OtherWake)`); in `EventLoop` that is the `Sleep`, and `ImplementsFetchOps` shows
that the assumption holds there, so what `fetch_ops` checks holds in the loop. In `UiTasks`,
strong fairness for the threads that wait for the mutex, which std does not promise, is
justified by how seldom each thread asks for it; the Handler serves its queue in order
with the other messages of the main thread.

Findings.

* `dex/mod.rs:111` unwraps a lookup. The classes are registered only by
  `MainActivity.onCreate`; a process that Android restores with
  `GenerateImageActivity` on top has none (it loads the library by itself,
  `GenerateImageActivity.kt:51-55`), so the first click's lookup fails and its `unwrap` ends
  the process.
* `JNIHelper.java:133` unboxes `classToIndex.get(..)`, which is null for a method that
  returns a boolean, a float or most objects. The exception leaves `callMethod`,
  `unwrap_js` turns it into null for the script and does not clear it, and the next
  call's `new_string(name).unwrap()` (`v8_jni/util.rs:238`) ends the process.
* `releaseVM` (`node-ext.cpp:87-90`, "release allocated objects") deletes what `g_ctx` holds at
  that moment. The `onDestroy` of a finished activity that comes after the `onCreate` of the
  next one releases the references of the next one, and its own are never released.
* `deno_init` (`build/api.cpp:248-251`) runs for every `onCreate`, so a recreated activity's
  thread calls `V8::InitializePlatform` after V8 was initialised, against
  `v8.h:8547-8548`.

Seen while modelling, with no run of its own: `isolate.rs:151` says "Timeout values >
TIMEOUT_MAX are set to 1.", but nothing reads `TIMEOUT_MAX`. A larger delay goes into the map
as it is, and through `ToUint32` into the `Sleep`.

## Proofs

`JsTimersProofs` proves, for every number of timers and every set of integer delays
with NaN: `TypeCorrect`, `ClearedNeverCalledThm`,
`TimeoutReturnsOnceThm`, `IntervalSpacingThm` and `OneCallPerPassThm`. They follow from one
inductive invariant, `IInv`, which `Invariance` establishes. The properties alone are
not inductive. `FreshIds` says that an identifier not yet given has no history, so
that a new timer starts clean; `ClearedGone` and `ReturnedGone` say that what was
cleared or has returned is not in the map, which the guard of `fire` then turns into
"never called"; `Spaced` says that the time since the last call and the time left make
up the delay, and while a callback runs, the same of `nextDue`; `NaNNeverDue` keeps NaN out
of that arithmetic; `JobsUnvisited` says that the queued microtasks are for keys the
pass has not visited. The assumptions are those named in `JsTimers`.
`ImplementsTimerContractThm` shows from the same invariant that every step is one of
`TimerContract`, or none; `GoneForGoodThm` is what follows for any reader of the contract:
what is gone stays gone and is not called.

`FetchOpsProofs` proves, for every number of fetches: `TypeCorrect`, `TableMatchesOpsThm`,
`ReadyIsQueuedThm`, `WakeReachesLoopThm` and `ImplementsContractThm`. The inductive
invariant adds three things to the properties: `FreshIds` says that exactly the promises
that were made have a future, so that `fetch` never meets an old one; `QueueHolds` that a
queued future may still be polled, so that a poll finds it as the queue promised; and
`OneResolves` that while reactions run, one future has its body and is out of the queue,
so that nothing polls it again. What enqueuing and dequeuing do is stated once, in
`AppendHas` and `TailHas`. For the contract, each action changes what the script sees of
at most one promise (`OneChanges`). `PollEnds` bounds a poll: while it goes on, fewer
futures were polled in it than are in flight, so each one that is found pending brings the
poll nearer to its end, whatever the network threads wake meanwhile.

`EventLoopProofs` proves `SleepNeverDiesThm`,
`ImplementsFetchOpsSteps` and `TypeCorrect`, for all delays, any number of timers and
fetches and any modulus. `SleepNeverDies` needs `WakerKept`: the isolate is woken before its
first poll, and during a pass the `Sleep` has the waker it was just polled with, which the
reset keeps. That the steps of the operations are those of `FetchOps` needs `OpsOnlyInLoop`:
the `Sleep` elapses only while no poll is under way. tlapm cannot use the theorems of a
module that is instantiated, but `F!Spec` is all that those of `FetchOpsProofs` assume, so
they hold of the operations in the loop. For the timers the contract is proved again, as
`ImplementsTimerContractThm`. `TypeCorrect` adds `SleepTyped` and `PlaceMatches` (the
thread is where its timers and operations say); that the `Sleep` stays in 32 bits rests on
`LeastDelay`, that the fold over the map finds the least delay in it.

The same module proves `LatenessBoundThm` and `NeverEarlyThm` of `EventLoopTiming`, given
`DelaysFit`. The invariant `TimingInv` relates four times left of each timer. `SleepPlaced` and
`DueIsWall` tie the model's `due` to the wall clock. `SleepCovers` is what lateness rests
on: while the thread sleeps, what is left of the sleep is at most what is left of each
timer plus what its bound allows. `PassCatches` says that during a pass an overdue timer
is still to be visited, and `WallBehind`, `WallAhead` and `CalledDue` that the wall clock
and the ideal one differ by what it was set back and forth, whether the timer waits or its
callback runs (`CallClock`). `NextSleep` shows that the reset after a pass establishes
`SleepCovers` again, because the new sleep is the least delay in the map.

The steps of `EventLoopTiming` are not those of `EventLoop`, for `SetClock` moves due times.
So what `EventLoop` promises is proved of it again, and without `DelaysFit`:
`SleepNeverDiesTimed`, `FetchOpsStepsTimed`, `ImplementsTimerContractTimed` and
`TypeCorrectTimed`. For the types, `AnyClockInv` adds `WallTyped`, since what is left on
the wall clock becomes the model's `due`. A clock set forth makes a timer due with no time
passing, so there the steps of the timers are not those of `JsTimers`.

`TextDecoderProofs` proves, for every code point and every array: where the octets
hold the encoding of a code point, a round of `decode` asks for as many octets as the
encoding has, finds them, and computes that code point (`DecodesCharacter`), and the
step appends it and does not throw (`DecodesCharacterStep`). The argument goes by the
four lengths of an encoding, and rests on the fact that a number is its quotient and
its remainder by 64 (`SixBits`). `DecodesTextThm` carries this to a text of any length, cut
anywhere. What the whole text encodes to is a recursive function, so `CountsExist` first
shows that the function exists, and `ExtentEquation` that each of its values follows from the
one before. Both go by the least counterexample (`LeastNumber` of `CommonLemmas`), which
takes the place of an induction. `InOneCharacter` says which character an octet belongs
to. `DecoderInv` says that the string is a beginning of the text and the index stands
where the next character begins (`Decoded`), until a cut character was replaced
(`DecodedAndCut`). With it `RoundTripThm` says that a text of any length that nothing was
cut off decodes to itself.

`PixelsProofs` proves `TypeCorrect` and `PictureIsWholeThm` for every width and height. Both
walks over the bitmap are one to one: `PlaceOf` finds the column and the row of
every step, `PlacesDiffer` says that two pixels have different places, and `Places`
states both for the two orders. So a store changes the four bytes of its own pixel and no
other's (`StoreWrites`), and the invariant says that what was visited is painted
(`Progress`, `Painted`).

`UiTasksProofs` proves, for any number of clicks: `TypeCorrect`, `ScriptIsSafe`,
`TasksOwnedOnce`, `ToastIsTrue`, and `LookupsSucceedUnlessRestored`, which proves
`OnlyRestoreLosesClasses`: the violation that `ui_restore` shows needs a process that Android
restored, for in any other a click comes after an `onCreate` (`ClickComesAfter`), however
many activities came and went. `RegisterProgress` says
what `onCreate` has registered so far, so that the classes are there once the script
runs (`CreatedRegistered`); `BoxesOwned` who has each box; `MessageMatches` that a thread's message agrees with the
view from the moment it is made.

`NobodyStuck` proves `SomeoneProceeds`: while a click waits for its answer and the process
lives, the render threads, the main thread and the script never all wait. It is the
half of `ClicksAnswered` that needs no fairness, and needs more of the invariant:
whoever has the guard is at a place where it goes on (the main thread has a class left to
register, the script finds `JNIHelper`), and a task that is done and not
answered is in the Handler's queue. `ImplementsClickContractThm` shows that each step is
one of `ClickContract`, or none.

`WorkerSendProofs` proves, for any number of activities, arguments and reactions:
`TypeCorrect`, `NoBoxLeaks`, `AddressesAreBoxes` and `ProperScriptsSurvive`, in whatever order
activities are created and destroyed. The invariant says, of a call under way, that the boxes are
those of the arguments ahead (`BoxesAhead`), that tags and boxes agree
(`StringsBoxed`), that a response with an index holds an object of the type the index
stands for (`ResponseMatches`), and that an exception is pending only after a misuse
(`PendingIsMisuse`). Two theorems say
when what the violations show cannot happen. `OneActivityInitialises`: while only one
activity was created, V8 gets its platform before anything else. `NamesBecomeStrings`: in a
script that passes int32s and strings only and calls methods whose types have an index
(`ProperCalls`), no call meets an exception of an earlier one, whatever else goes wrong.

Every assumption is an `ASSUME` of the module that declares the constants, or stands in
the theorem. Every safety property of the passing runs is a theorem. Only model-checked:
liveness (`TimersServed`, `RequestsStarted`, `BodiesDelivered`, `ClicksAnswered`) and the fairness
in `ImplementsFetchOps`, which are out of TLAPS's reach. What is proved of them is that
nothing they wait for is lost: `SleepNeverDies`, `WakeReachesLoop`, `ReadyIsQueued`,
`PollEnds` and `SomeoneProceeds`.

## Not modelled, and abstractions

* The share of the source that the models stand for is small by lines, because most lines
  of the repository are headers of V8, libuv, OpenSSL and curl under
  `src/app/rust/libnode/include`, which declare what others implement. Of the program's own
  C++, Rust, Kotlin and Java, what keeps state is modelled; what is left converts values,
  logs or wraps one call of a library.
* The `Isolate` is moved by `isolate.await` after V8 was given its address. The models
  take the outcome where callbacks still reach the polled queue; whether the compiler
  builds that outcome is not something a model of the source can tell.
* A panic ends the process, as in the build `src/pre-build.sh` makes. A build that unwinds (the
  release profile of `src/app/rust/Cargo.toml` would) could go on with a poisoned `CLASS_TABLE`;
  no script of the repository builds one.
* Attaching a thread to the Java VM succeeds. Where it failed, `run_on_ui_thread` would end
  without a task or an answer.
* JNI local references. A call makes some for the name, the arrays and their elements
  (`v8_jni/util.rs:238-266`), and the event loop's thread never returns to Java, so they are
  never freed; how many the Java VM holds before it ends the process is its own limit, and
  not modelled.
* An argument that is neither an int32 nor a string has an unwritten tag. The models let it be
  any; the properties about tags and about the script's survival are stated for scripts that
  pass none, which that of `runtime/event_loop.rs:71` is not sure to do.
* A thread that detaches with a Java exception pending: Android may end the process; the
  model allows both.
* A recreated activity leaves the script with the weak reference to the old one's context
  (`runtime/event_loop.rs:33`). The new activity's thread ends the process before that can
  matter to any state modelled here.
* `$sendBuffer` called from one of its own callbacks, and the string it returns, which is freed
  before it is read (`lib.rs:91`): its bytes may be any, and no state depends on them.
* The thread of `demoMain` never ends and holds its activity, so no activity is collected
  and the weak reference of `JNIHelper` is never cleared. A wrapper of a Java object never
  releases its reference, so what V8 collects changes nothing that is modelled.
* A row of a bitmap has four bytes for each pixel and no padding, which
  `Util.createBitmap` ensures. The number of iterations of a pixel may be any.
* `registerUITask` is never called, so its registry stays empty. `ISOLATE_INIT`
  (`runtime/isolate.rs:383`) skips the initialisation of a second isolate, which the process
  does not live to make. Logging, layout, the network protocol, V8 and tokio themselves are
  left out.

## Plan

Done: timers, operations, event loop and its timing under a clock that is set, class table, UI
tasks, lifecycle, bridge, `$sendBuffer`, text and pixels; the contracts of the operations,
the timers and the clicks; proofs of every safety property that the passing runs check, of
the three contracts, and of what carries over to `EventLoopTiming`.

Left: a nested `$sendBuffer`, which would need a stack in `WorkerSend`; the
stale context, once the code lets a second event loop live.
