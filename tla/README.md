# A TLA+ model of RuBLE

RuBLE wraps SimpleBLE, a C++ library for Bluetooth Low Energy, for Ruby. Two
worlds meet in it: SimpleBLE calls back from threads of its own, and Ruby code
may run only under the Ruby VM's lock. This project models the parts where that
meeting can go wrong, checks them with TLC on small instances and proves the
main properties with TLAPS for every instance.

Paths below are relative to the repository's root.

## The system

| part | state | operations | meets |
|---|---|---|---|
| `RubyQueue` (`ext/ruble/management/RubyQueue.*`) | deque of closures, counting semaphore, flags `_starting` `_running` `_stopping`, `_run_mtx`, startup latch, its Ruby thread | `push`, `start`, `ensure_started`, `run`, `loop`, `stop`, `running`, `stopped`, `stop_on_exit`, `kill` | SimpleBLE's threads push, the queue's thread runs the closures under the VM's lock, Ruby threads stop it |
| startup and shutdown (`bindings/RuBLE.cpp`) | the flag `called` | `Init_RuBLE`, `DeInit` (as `RuBLE.shutdown` and at exit) | starts the queue; walks the registries, disconnects, stops the queue |
| waiting (`utils/async.*`) | none | `wait_until`, `thread_sleep` | startup and shutdown poll with it |
| termination handler (`utils/exception_handling.*`) | the old handler | `wrap_termination_handler` | an exception that leaves a callback |
| registries (`management/Registry.hpp`, `RegistryFactory.hpp`, `Registry.cpp`, `utils/hash.*`) | per level a map from a hash of the owner to a registry; per registry its `_owner` and a map from key to proxy | `registry`, `fetch`, `map_to_objects`, `at`, `data`, `for_each` | every proxy keeps its children in one |
| `Adapter`, `Peripheral`, `Service`, `Characteristic` (`bindings/`) | the SimpleBLE handle, `_owner`, callbacks, the registry of the children | listings, lookups, scans, connections, reads, writes, subscriptions | reads and writes go up the owners to the peripheral; subscriptions push on the queue |
| `CharacteristicValueTracker` (`concerns/`) | last value, whether to track | `record_new_value`, `set_value_tracking` | notifications, `read` |
| `Descriptor` (`bindings/`) | its map, made once | `make_map`, `operator[]` | `Characteristic` |
| `Callback`, `RubyCallbackTraits` | the Ruby proc, its parameters | `set`, `fire`, `accepts_n_args` | all `on_...` methods |
| `ByteArray`, `NamedBitSet`, hexadecimal | value types | conversions, slices, flags | values given to Ruby |
| `InRuby` guard (`utils/ruby_context.hpp`) | a count per thread | construct, move, destroy | the queue's callbacks, `Init_RuBLE` |
| garbage collection marks | none | `ruby_mark` of each class | Ruby's collector |
| build and developer tasks (`lib/`) | build directory, state hash file | configure, build, clean | developers |

What is hard in it:

- *Concurrency.* Flags, semaphore, mutexes and the deque of the queue are
  accessed one at a time by threads that do not otherwise wait for one another,
  and the VM's lock decides who can go on: startup waits for a thread that
  needs the lock, shutdown may be called by a callback that the loop is running.
- *Failure.* Callbacks raise, threads are killed in them, SimpleBLE throws in
  the middle of a listing or of the shutdown, deadlines pass.
- *Ordering.* The queue does not run callbacks in the order of their pushes;
  values carried by notifications depend on that order.
- *Identity.* The proxy of a resource is found through hashes of addresses and
  UUIDs, and the owner found with it decides which device is spoken to.

What makes the parts correct, and which module says so:

- `RubyQueue`: no callback is lost, run twice or run next to another; the loop
  never takes from an empty deque; the request to stop is always noticed; when
  a shutdown has found the queue stopped, nothing runs any more; startup and
  shutdown end.
- registries: a resource has one proxy, below the proxy of what it belongs to;
  a listing gives all that was listed and nothing of another device; the
  shutdown meets every peripheral.
- guards: `state()` is true while a guard is held, and the count never wraps.
- value tracking: a program that listens knows `last_value`, is not told the
  same twice, and `last_value` is the device's when its notification did not
  have to wait behind another.
- accesses: a read, a write, a subscription or a descriptor reaches the resource
  its proxy was made for.
- callbacks: a lambda is accepted exactly when Ruby can call it.
- shutdown: the walk leaves nothing paired, connected or scanning that had a
  proxy, and the flag alone never makes an exit skip the queue.
- marks: what hangs below a proxy that the program holds is kept.
- values: bytes, numbers, hexadecimal and flags agree with their definitions,
  whatever memory follows the bytes and however the device changes meanwhile.
- build: a state hash that matches vouches for a finished configuration; every
  setting reaches cmake; the tag and the asset that are built are of one release.

The hazards behind these properties are listed, each at its line, in
`PROJECT.json`. Where a hazard is a behaviour the code does show, and no sentence in
the repository speaks against it, the property next to it is about all other cases;
the hazard then names no property, or says which part none covers. These
exemptions are in the comments of the properties and under "Exempted" below.

## The modules

| module | models | uses |
|---|---|---|
| `CallbackDispatch` | what the queue promises: accepted callbacks are claimed, begun and ended one at a time, and after the request to stop at most the one already claimed begins | |
| `RubyQueue` | the queue, its thread, the VM's lock, SimpleBLE's threads, the Ruby threads that load, interrupt and shut down | instantiates `CallbackDispatch` |
| `RubyQueueProofs` | theorems about `RubyQueue` | extends `RubyQueue` |
| `Registries` | proxies, registries and factories, the calls that fetch | |
| `MCRegistries` | the trees of resources for TLC | extends `Registries` |
| `RegistriesProofs` | theorems about `Registries` | extends `Registries` |
| `InRubyGuard` | the guards of one thread's `InRuby` and its count | |
| `Notifications` | one characteristic: the closures of its notifications and indications in the queue, `read`, value tracking, the listener | |
| `Callbacks` | a callback slot and the check of a proc's parameters | |
| `CallbacksProofs` | theorems about `Callbacks` and `InRubyGuard` | extends `Callbacks`, `InRubyGuard` |
| `Shutdown` | `DeInit` over devices that change while it walks | |
| `MCShutdown` | which peripheral belongs to which adapter, for TLC | extends `Shutdown` |
| `ShutdownProofs` | theorems about `Shutdown` | extends `Shutdown` |
| `Access` | reads, writes, subscriptions and descriptors through the proxies, between any two fetches | extends `Registries` |
| `Marking` | what the `ruby_mark` functions reach from a proxy | extends `Registries` |
| `AccessProofs` | theorems about `Access` and `Marking`, and that `Access` refines `Registries` | extends `Access`, `Marking`, `RegistriesProofs` |
| `MCAccess` | `Access` and `Marking` over the trees of `MCRegistries`, for TLC | extends these three |
| `ByteArrays` | construction, integers, operators and digits of a byte array | |
| `NamedBits` | the flags of a peripheral and the capabilities of a characteristic | |
| `CharacteristicProofs` | theorems about the notifications, flags and bytes of a characteristic | extends `Notifications`, `NamedBits`, `ByteArrays`, `Inductions` |
| `Inductions` | induction and recursion over the numbers, for theorems about recursive functions | |
| `MCCharacteristics` | the parts of a characteristic, for TLC | extends `InRubyGuard`, `Callbacks`, `Notifications`, `NamedBits`, `ByteArrays` |
| `DevBuild` | the developer tasks, extconf.rb and cmake over the files they write | |
| `CMakeFlatten` | nested settings become cmake variables: the method that calls itself | |
| `Releases` | the release of SimpleBLE that is built against | |
| `BuildProofs` | theorems about `DevBuild`, `Releases` and `CMakeFlatten` | extends these three, `Inductions` |
| `MCBuildTools` | the programs that build the extension, for TLC | extends `DevBuild`, `CMakeFlatten`, `Releases` |

### RubyQueue

The variables are the fields of the class (`q`, `sem`, `latch`, `runMtx`,
`running`, `stopping`; `_starting` is set exactly when the thread exists), the
VM (`gvl`, `killed`, `aborted`) and one program counter per thread (`qpc`,
`rpc`, `bpc`) with its local values. There is one action per access to shared
state: `push` is `PushBegin` (the test of `_stopping`), `PushEmplace` and
`PushRelease`; `loop` is `LoopLock`, `LoopLatch`, `LoopSetRunning`, and round
the loop `LoopWhile`, `LoopAcquire`, `LoopCheck`, `LoopPop`, `CallbackBegin`,
`CallbackEnd`, then `LoopClear` and `LoopUnlock`. `DeInit`, `stop_on_exit`,
`running` and `kill` are steps of the calling Ruby thread in the same way.

`_mtx` guards only the two accesses to the deque, so each is one step. The
deque's elements are model values (`Events`); a closure is reused once it has
run, so runs are not limited in length.

The VM is external code, modelled from how RuBLE uses it:

- a Ruby thread runs only while it holds `gvl`, and gives it away when its
  time slice ends, in `thread_sleep`, and around `loop`;
- `Interrupt`: Ruby's `Thread#kill`, `#raise` or exit calls the unblocking
  function given to `rb_thread_call_without_gvl`, which is `stop()`; a thread
  that is in a callback at that time sees the request when the callback
  returns, and the VM then leaves `loop` by `longjmp`, without destructors:
  `_run_mtx` stays locked (`CallbackEndKilled`);
- a thread that is killed before it has run never enters `loop`;
- a C++ or Ruby exception out of a callback ends the process
  (`CallbackAborts`), and so does the one that `start` throws when its deadline has
  passed, which nothing between it and `Init_RuBLE` catches (`ThreadKill`).

A callback may call `RuBLE.shutdown` itself. `push` from a Ruby thread differs
from one of SimpleBLE's only in holding the lock, so `Backends` covers it.

### Registries

A proxy is its place in `objs`, the order of construction, and has the resource
it stands for and its `_owner`. `owner` and `items` are the registries, indexed
by the level (each has a factory) and the hash of the owner's key. A call
(`GetAdapters`, `ScanGetResults`, `ScanFound`, `Services`, `Characteristics`,
`ServiceAt`, `CharacteristicAt`) begins with the resources SimpleBLE lists, any
subset of the children of the caller's resource, and fetches them one by one:
`FetchFound`, or `FetchNew` (the constructor, with the registry it asks for) and
`Emplace`, or, for a characteristic whose subscription fails, `FetchThrows`.
Between the first two the proxy exists and is in no registry (`Making`); a collection
may come there, because a constructor makes Ruby objects. SimpleBLE may refuse to
list (`QueryThrows`), and `at` throws for a key it has not got: `Service#[]` lets
that go on (`LookupThrows`), `Peripheral#[]` returns nil. All callers hold the VM's
lock throughout, so calls do not overlap; `fetch`'s own mutex adds nothing and is left
out. During garbage collection `services()` and `characteristics()` list nothing, which
is the call with an empty list, and nothing else fetches then. Callbacks, scanning and
connection state are not in this module. The values of `Hash` are arbitrary:
64-bit collisions are excluded only where `KeysUnique` is assumed. It says that no two
owners of registries of one level have equal hashes and that the children of one
resource have different keys; characteristics of different services may have one UUID.

### InRubyGuard

`guard` says of each variable of that type whether it is alive and refers to the
`InRuby`, `useCount` is `_use_count`. The constructor from `assert_in_ruby_guard`,
the default and move constructors, `operator=` and the destructor are actions.
`in_ruby` is `thread_local`, so one count is one thread's. `MaxUses` bounds the
count, which grows with every move.

### Notifications

`queue` holds the closures of this characteristic in the order of their pushes;
`NextClosure` takes the newest, as `RubyQueue::loop` does (`RubyQueue` shows what
the queue promises; here it is the order that matters). `fire_on_notify` records
the value and calls the listener if it changed, `fire_on_indicate` does not
record. `read` is `ReadCached`, or `ReadBegin` and `ReadEnd` (`ReadThrows`): between
the two the device may send, but no closure runs, because the read holds the
VM's lock. `LinkChanges` ends the subscriptions for good. `known` is what a program
knows that looks at `last_value` when it sets its callback; `burst` counts pushes
since the queue was empty, up to 2.

### Access and Marking

Both extend `Registries` with its own steps. In `Access` a call from Ruby that is
not a fetch computes, along `up`, the device, service and characteristic UUIDs it
hands to SimpleBLE, and `Resolve` is SimpleBLE's lookup of them. `descs` are the
descriptor maps, made of what SimpleBLE lists at the first `descriptors()`; each
descriptor is an object with its own `_uuid` and `_owner` (`NewDescriptor`), and where
an access to it arrives follows from these and not from the map it was found in. `Marking`
adds no step: a collection may come in any state, and `ruby_mark` computes what one
marks. The slots for procs are those whose `fire` the constructors hand to SimpleBLE
(`AdapterSlots`, `PeripheralSlots`, `CharacteristicSlots`); a slot without a proc marks
nothing, which is as good for what is kept. For a descriptor there is no specialisation
of `Rice::ruby_mark`, so it marks nothing. `KeptWithOwner` goes up from each proxy
along its `_owner`s (`Above`); it leaves out the one proxy whose constructor runs.

### Callbacks

A proc is the number of its parameters of each kind and whether it is a lambda;
`Counted` is the 8-bit counter (`Width` 256). `accepts_n_args` is the code's
answer, `Callable` is Ruby's.

### Shutdown

`Begin` takes the flag; `Visit` goes through the adapters and below each through
its peripherals, as `for_each` does; each test and each call of SimpleBLE is a step
(`ScanIsActive`, the second test in `Adapter::scan_stop`, `ScanStop`, and `StopScan`;
`IsPaired`, `Unpair`, `IsConnected`, `Disconnect`), and any may throw (`Throws`). The
walk holds the VM's lock, so `Discover`, `connect` and the rest of the program wait,
while `Lost` and `Revived` (other programs, users, the radio) do not. `RubyQueue` models the same `DeInit` without devices and with
all of the queue's stop.

### DevBuild

The watched files are one value, `sources`; `conf`, `makefile`, `ninja`, `lib` and
`hash` are the files the tasks write, by what they were made from. Every command
is a step, and `Interrupted` gives the step under way any part of its effect.
`Edit` may come at any time. `Regenerated` is ninja's own run of cmake, which may be
interrupted like the task's.

### CMakeFlatten

`cmake_flatten_hash` calls itself for every nested hash. `calls` is the stack of its
calls, each with its argument, `hash`, `final` and the place where it is; `Nested` and
`Return` are the call and the return, `Arrays`, `Raise` and `Scalars` the other parts of
a pass. A hash is a function from keys to values. Ruby's hashes are ordered, and the
order decides only which nested hash is flattened first; here it is any, so each
behaviour is one order of the keys. The reference definition is `Within`, a recursive
function: what is in a hash on any level, under its joined name. `Nesting` says that no
hash is inside itself.

### The others

`ByteArrays` and `NamedBits` hold pure functions of the code and compare them with
reference definitions (such as `Value`), and also have what is not pure: memory behind
the data, and a device whose flags change between two tests. Of the flags that `statuses` returns the set is modelled and not the
order, which is that of the fields. `Releases` is the client's requests and the server's edits.

## The runs

| run | checks | instance |
|---|---|---|
| `queue_safety` | `TypeOK`, `SemAccounting`, `NeverPopsEmpty`, `QuiescentAfterStop`, `SelfShutdownNeverSucceeds`, `ImplementsDispatch` | release build; two SimpleBLE threads, three callbacks, two Ruby threads and the callbacks may shut down, every failure on; 849 thousand states |
| `queue_live` | `StartupCompletes`, `CallbacksAreTaken`, `StopEndsLoop`, `ShutdownReturns` | debug build, no deadline passes, one SimpleBLE thread, two callbacks; 39 thousand states |
| `queue_deadline` | `ShutdownReturnsOrAborts` | callbacks that may never return, kills, shutdowns from callbacks, deadlines; 23 thousand states |
| `queue_fifo` | `FirstInFirstOut`, violated | one SimpleBLE thread, two callbacks |
| `registries_unique` | `TypeOK`, `OwnRegistry`, `Routed`, `AnswerIsRight`, `OneProxyEach`, `ShutdownReachesAll`, `CachedCharacteristicWorks` of `Registries`, `ReachesOwn`, `DescriptorsReachOwn` of `Access`, `KeptWithOwner` of `Marking` | 8 resources on 4 levels, keys unique per level (but for one UUID of characteristics on both devices) and equal across levels, one UUID of descriptors; 223 thousand states |
| `registries_profile` | `OwnRegistry`, violated | the same tree, both services with one UUID |
| `registries_lookup` | `CachedServiceWorks`, violated | the tree of `registries_unique` |
| `guard_state` | `StateEndsWithGuards`, violated | two guards |
| `characteristics` | `CountCoversGuards`; `LambdaTakenIffCallable`; `ValueOnlyWhileTracking`, `ListenerCurrent`, `FreshAfterQuiet`, `NoRepeat`; `FirstListingKept`, `FlagsWitnessed`; `LowBytesRight`, `HexIsNumber` | four guards, counts up to 8; procs of up to 255 positional parameters; three values, notify and indicate, up to three closures that wait; three flags that change, listings with an unknown and a repeated name; bytes of 3 values, integers of 3 bytes, data of up to 4 bytes, any memory; 709 thousand states |
| `notifications_indicate` | `IndicatedValueIsRead`, violated | one closure waits |
| `shutdown` | `CleanBeforeStop`, `SkippedOnlyAfterFailure`, `DeInitEnds` | two adapters, two peripherals; 823 thousand states |
| `build_tools` | `HashMeansConfigured`, `NeverBuildsPartial`, `OnlyIfNeeded`; `FinalIsFlattening`, `AtMostTwoPasses`; `OneRelease` | three contents of the sources; all hashes of two levels with up to two entries each, and some of three; two releases, two edits; 530 thousand states |

`characteristics` and `build_tools` each look at several modules that share no
state, one of them in each behaviour (`part`, `program`): the states of the run are
the sum of theirs and not the product, and nothing is lost, because no step of one
reads or changes what another has.

Bounds. Two SimpleBLE threads and three callbacks let pushes overlap each other,
a running callback and the stop; a third thread adds no new pair of steps. Two
Ruby threads allow a shutdown during another and during the load. The tree has
siblings on three levels and two branches, which is what sharing needs. Three
values let a change go back to the value before the last, and three closures let
one run between two others. Two adapters and two peripherals let the walk be at
one device while another is behind it and a third to come. A number of three
bytes has data that is shorter, just shorter (the terminator), equal and longer,
and bytes of three values have a low, a middle and a high one. Two edits on the
server can separate all three requests. Three contents let the sources return to
those of an older hash. The theorems below hold without these bounds.

Deadlock is checked except in `shutdown` and `build_tools`, where the program ends:
the process, the call or extconf.rb is over.
The queue's only final state is the end of the process, which stutters
(`Terminated`); wherever the program has not ended some thread can go on.

### Fairness

`Fairness` has weak fairness for the instructions of C++ threads that have begun
`push` or are in `loop`, and for what a Ruby thread does while it holds the VM's
lock in `Init_RuBLE`, `DeInit` and `stop`; weak fairness for giving the lock away,
because the VM's timer makes Ruby code yield; strong fairness for obtaining it,
because the VM grants it in order of arrival, to the queue's thread and to a
thread that polls; and strong fairness for a deadline, because the clock
advances. Nobody is obliged to push, to call `shutdown` or to interrupt.
`CallbacksReturn` says that a Ruby callback ends. The code does not enforce it,
so it is a conjunct of its own: `queue_live` assumes it (`FairSpec`) and
`queue_deadline` does not (`StubbornSpec`); there the one-second deadline of
`stop_on_exit` does the work.

`Shutdown` has `WF_vars(DeInitStep)`: a call of SimpleBLE returns or throws, and
the thread that holds the VM's lock goes on. Nothing obliges the devices to stay
as they are, so `DeInitEnds` holds because the list of devices to visit shrinks.

### What the violations show

- `queue_fifo`: the header promises FIFO order, `loop` takes the back of the
  deque that `push` extends. With two callbacks waiting the newer runs first.
- `registries_profile`: a factory's index hashes only the owner's type and its
  address or UUID. Two peripherals with the same service UUID, which any two
  devices have (Generic Access is 0x1800), share a registry of
  characteristics, so a characteristic of one can be read from the other. The
  same happens to the services of one peripheral seen through two adapters.
- `registries_lookup`: a condition that is always true makes `Peripheral#[]`
  ask the device for a service it already has, and fail when it has gone.
- `guard_state`: `operator=` counts the reference it takes over although the other
  guard gives up its own without counting. After `Init_RuBLE` the main thread's
  count is 2 for one guard, and `state()` never becomes false again.
- `notifications_indicate`: an indication is not recorded; `read` goes on
  answering with the value before it.

Met while modelling, in the models, and without a run of their own:

- Of two notifications that wait together the queue runs the newer first, so the
  older value stays as `last_value`. That is `queue_fifo` again; `FreshAfterQuiet`
  says for which values it cannot happen.
- `src/ext/ruble/utils/RubyCallbackTraits.hpp:35`: a proc that is no lambda is
  accepted although it requires a keyword, and firing it raises. `:38`: required
  plus optional parameters wrap at 256, and a lambda that could be called is refused.
  `LambdaTakenIffCallable` is about lambdas that fit.
- `src/ext/ruble/bindings/Characteristic.cpp:43`: a descriptor that SimpleBLE lists
  after the first listing is never found.
- `src/ext/ruble/bindings/RuBLE.cpp:28`: a `RuBLE.shutdown` that threw leaves the
  flag set, and the exit does not stop the queue. `SkippedOnlyAfterFailure` says that
  this is the only way.
- `src/lib/tasks/dev/dev_tasks.rb:43`: `pristine!` looks for build-config.cmake in
  the wrong directory and leaves the Makefile; the hash makes this harmless
  (`HashMeansConfigured`).
- `src/lib/ruble/build/cmake.rb:89`: an array whose joined name is taken is never
  removed from the hash, and the loop does not end; `ArraysClash` in `AtMostTwoPasses`.
- `src/lib/ruble/build/github_repo.rb:58`: the key looked up in the gemspec contains
  the module's name, so the release that `src/ruble.gemspec:26` names is never found
  (`ClassKey` is not in the domain of `LibraryKeys`).

- `src/ext/ruble/containers/ByteArray.cpp:13`: a Symbol is let through to
  `Rice::String`, which takes only Strings, and raises (`Convertible`).

### Exempted

The code does these, and no property says it does not:

- `FreshAfterQuiet` is about values that did not wait with another (`burst`); the order of
  the queue decides which of several remains as `last_value`.
- `ListenerCurrent` and `NoRepeat` leave out `Empty`: the first value recorded, if
  it is empty, counts as no change and is not reported (CharacteristicValueTracker.cpp:10).
- `SemAccounting` says what permits stand for and not that they are few: nothing limits
  the callbacks that wait, and the semaphore holds 65535.
- `AtMostTwoPasses` leaves out `ArraysClash`, the loop without end of cmake.rb:89.
- `HashMeansConfigured` leaves out edits during the configuration (`raced`):
  dev_tasks.rb:61 hashes the files as they are afterwards.
- `CleanBeforeStop` is about a walk that came to its end. One that threw leaves the devices
  it had still to visit as they were, and no later call visits them (RuBLE.cpp:28, :36).
- `LowBytesRight` is about the bytes the array has; those of the number above them are
  what the memory holds.
- `KeptWithOwner` and `ShutdownReachesAll` leave out `Making`. What keeps the proxy
  during its constructor (Registry.hpp:97-108, Peripheral.cpp:19-22) is the machine's
  stack, if the collector finds it there; the code does not mark it.
- `OneRelease` is about the tag and the asset. The commit is asked for by the tag and may
  be that of a tag that has moved; the name comes with the rest of the release's record
  and is not modelled.

## The proofs

The theorems are of the form `Spec => []P`, `Spec => [][A]_vars` or, for the
refinements, `Spec => AbstractSpec`, for any sets of threads, callbacks and resources
that satisfy the modules' assumptions: the sets of threads are finite and disjoint, `NoEvent` is no
callback; resources form levels 0 to 4 under the host.

**RubyQueueProofs.**

- `TypeCorrect`. `TypeOK` is inductive together with `ItemInHand`: a thread that
  is about to emplace has a callback.
- `Quiescent`, `SelfShutdown`. The properties speak of what a shutdown reported,
  which depends on what `running()` saw some steps earlier. `StopInv` adds what
  links them: the thread holds the mutex all through `loop` (`MutexHeld`) and has
  `_running` set in the body of the while (`RunningSet`), whoever is past the stop
  has set `_stopping` (`StopRequested`), Ruby code on the queue's thread is a
  callback (`InCallback`), and the thread is created once (`StartedOnce`).
- `SemaphoreSound`, `AssertionHolds`. `SemInv` counts permits: the free ones, the
  one the loop holds and those of threads between their change and their
  release are at most as many as queued callbacks plus the request to stop, and
  exactly as many while the loop may still wait. The lemmas on `Releasing` carry
  the cardinality through the steps.
- `Refinement`. `OnePlace` says a callback is in the deque, in the loop's hand or
  in a pushing thread, and in one place only; with it each step of `RubyQueue`
  is a step of `CallbackDispatch` or leaves its state alone.

**RegistriesProofs.** There are two inductive invariants, because factories find
registries by hashes alone and `registries_profile` shows what two equal hashes do.

- `SharedInv` holds whatever the keys are, even where registries are shared: besides
  `TypeOK`, a registry is at the index of its `_owner` (`OwnersIndexed`) and every proxy
  has one (`RegistriesMade`), owners are one level up (`LevelsAscend`), an entry of a
  registry is under its key where its owner's registry is (`ItemsIndexed`), every proxy but
  the one being made is an entry (`AllRegistered`), that one is the newest and its place is
  empty (`MakingSane`), and a call lists children and has registered those it is done with
  (`CallSane`).
  `TypeCorrect`, `ShutdownComplete` and, with `CacheInv` (such a lookup has nothing to
  fetch and its key stays in the registry), `CachedLookupSafe` follow from it.
- `RegInv` assumes `KeysUnique`. It joins `SharedInv` with `OwnRegistry`, `Routed` and
  `OneProxyEach`, none of which is inductive alone. The step that matters is the
  constructor's (`NewFacts`, `UniqueNew`): the key is missing and nothing else is being
  made, so by `AllRegistered` no proxy of the resource exists, so by `OwnersIndexed` no
  registry is at its index, and the constructor gets one of its own.
  `RegistriesOwned`, `ReadsRouted` and `ProxyUnique` are parts of the invariant,
  `AnswersRight` follows from it.

**CharacteristicProofs.**

- Notifications: `ValueIsTracked`, `ListenerKnows`, `QuietIsFresh`, `NeverRepeats`, for any
  values and any bound of the queue. The properties are not inductive: `FreshAfterQuiet`
  needs to know what is in a closure that has waited alone (`AloneIsCurrent`) and that a
  read that is under way while the queue is empty was answered after the last
  notification (`ReadIsCurrent`, which holds because no closure runs during a read);
  `ValueOnlyWhileTracking` needs `TracksNotified`. `NeverRepeats` follows from
  `ListenerCurrent` in the state before the step.
- Flags: `ListingKept`, `FlagsAreWitnessed`, for any fields without repetition, any testers
  and any listings. `AskedSoFar` says of the bits set so far that each tells what its
  tester saw, `Witnessed` that the device has been seen as it is, and `CapsAreListed` what
  `_capabilities` holds. That a name and its index stand for each other is a pair of
  lemmas (`IndexOf`, `NamesOfIndices`).
- Bytes: `IntegersRight`, `DigitsRight`, for any base from 2, any width and any length of
  the data. These are inductions over the bytes. The library's induction theorems take
  an operator and cannot be used, so `Induction` states it of a set, from the
  well-foundedness of strict inclusion between finite sets, and `Recursion` gives a
  function for a step that is a function; with them `Powers` and `SumsDef` say what
  the model's recursive functions compute. The sum of the first bytes is less than the
  power that follows (`SumsBound`), does not depend on what follows (`SumsAgree`), and what
  follows adds a multiple of that power (`SumsMultiple`), or nothing if it is zero
  (`ZerosAbove`): together these say that memory behind the data, and the terminator,
  change only what `LowBytesRight` leaves open (`ToIRight`), and that dropping zeros
  keeps the number (`HexKeepsWorth`). `LittleEndian` is the way back, for Ruby's numbers.

**CallbacksProofs.**

- Callbacks: `CheckAgrees`, from `LambdasCanBeCalled` and `RejectionsRight`: for any number
  of arguments and any width of the counters. It assumes `CountersSuffice`, that no proc
  has more parameters than a counter holds, without which it is false. `Checked` says that
  what is in the slot was accepted; `AcceptsAgrees` that the check agrees with Ruby.
- Guards: `CountSound`: `CountCoversGuards` is inductive together with the type invariant
  (the count does not wrap below zero); each step adds, removes or passes one member of
  the set of held guards, whose cardinality the library's theorems give.

**ShutdownProofs.** `WalkCleans`, `ExitSkipsAfterFailure`, `WalkProgresses`, for any
adapters and peripherals. `VisitedClean` says of every device behind the walk what
`CleanBeforeStop` says at the end, `Unpaired` carries it through the two halves of a
peripheral, and `StoppedOrFailed` says what became of a `DeInit` that is over.
`RubyStep` and `WorldStep` treat what the program and the world do at once.
`WalkProgresses` is the part of `DeInitEnds` that does not rest on fairness: `Rank` counts the
steps a `DeInit` can still take (seven for a device to come, and its place at the present
one), every step of it lowers that number and nothing else changes it.  It is a number
because the proxies are finitely many, though the devices may not be; and nobody resets it
because one `DeInit` is under way at a time (both in `OneFiniteWalk`).
`NoneAssumption` keeps `None` apart from the two callers.

**BuildProofs.**

- Developer tasks: `HashSound`, `BuildsWhole`, `Needed`, for any contents. A hash that
  matches says nothing by itself, because sources return to what they were; the
  invariant says of the hash, whatever the disk holds now, that it was written of a
  finished configuration (`HashVouches`, `HashComplete`), of a configuration under way how
  far it is (`Progress`), and that nothing is undisturbed between the removal of the hash
  and its return.
- Releases: `BuiltFromOne`, for any finite set of ids, any versions and any number of
  edits. `RelInv` carries the release through the requests: the id that was chosen was a
  stable release's (`ChosenWasStable`), what is memoized was on the server under its id at
  one time (`MemoizedWasThere`), and what is built is that. `NewestThere` says that a
  newest release exists, for which the ids must be finite. `LibraryKeysAssumption` says
  that the gemspec names tags and not ids: an id there would be taken for a release that
  nobody called stable.

- Settings: `SettingsReachCMake`, `TwoPassesSuffice`, for settings of any shape, nested to any
  depth. What is proved of the whole is proved of every call on the stack (`CallInv`), and
  a return hands it to the caller (`CallReturns`, `FlatKeeps`). It needs to know, of each
  call: that `final` has settings only and `hash` besides them only nested hashes as they
  were given (`Told`); that an upper setting is in `final` or first in line for its name
  (`UpperKept`); that a nested hash is still to come, being flattened or merged
  (`NestedKept`), for which taking a hash away loses nothing but the hash's own name; and
  what each pass leaves behind (`PassesDone`): after the first only arrays from below, after
  the second only those whose name an upper array has. `Waits` links the calls.
  `WithinDef` proves that the recursion of `Within` ends, by induction over the depth;
  `LeavesOf` is what the other proofs use of it.

**AccessProofs.** `AccessRefinesRegistries`: `Access` implements `Registries`, so both
invariants carry over. With `RegInv`, and so `KeysUnique`, `AccessesReachOwn` goes up the
owners twice (`OwnerAbove`) and finds one resource with these UUIDs (`AccessReaches`).
`DescriptorAccessesReachOwn` adds that the `_owner` of a descriptor is the characteristic in
whose map it is (`DescriptorsOwned`), from which the access goes up in the same way.
`KeptAlive` follows from `SharedInv`: an entry is in the registry of its owner, so what
`ruby_mark` descends into are the registries that the `_owner` pointers go up from
(`MarkedFromAbove`, one level at a time). It does not need `KeysUnique`: where a registry
is shared, more is kept and not less.

All but `AccessProofs` also prove a type invariant (`TypeCorrect`); the runs check it
for `RubyQueue` and `Registries`.

Only model-checked: the liveness properties (`StartupCompletes`, `CallbacksAreTaken`,
`StopEndsLoop`, `ShutdownReturns`, `ShutdownReturnsOrAborts`, `DeInitEnds`), because fairness
and `ENABLED` are out of the prover's reach. Of `DeInitEnds` the step towards the end is
proved, for any number of devices; that the step is taken is the fairness TLC assumes.

## Not modelled

Formatting (`to_s`, `inspect`, type names), the definition of Ruby classes, the
pager's terminal and the debug scripts have no behaviour that the properties are
about. SimpleBLE, the Ruby VM, Rice, ninja and GitHub are external and appear as
far as the code uses them. The semaphore's maximum of 65535 permits is not enforced
in the model: `SemAccounting` shows that permits equal waiting callbacks, which
nothing in the code limits. Undefined behaviour that no defined outcome follows (a
remainder by zero, a callback of a characteristic whose constructor threw, a
position outside a byte array) is not modelled. The
factories' own objects, the objects `Rubyable` allocates late and Rice's wrappers
are left out of `Marking`, which speaks of what is below a proxy that is held.
What git, the compiler and the operating system answer to the build scripts, and
the choice of an archive by the name of the system, are expressions without state.

## Plan

1. `RubyQueue` with `CallbackDispatch`, checked and proved (done).
2. `Registries` and `InRubyGuard`, checked and proved (done).
3. `Notifications`, `Callbacks`, `Shutdown`, `Access`, `DevBuild`, checked and proved
   (done).
4. `Marking`, `ByteArrays`, `NamedBits`, `Releases`, `CMakeFlatten`, checked and proved (done).
5. Left: the scan callbacks of an adapter over the queue's order; a composition of
   `Shutdown` with `Registries`, where the walk goes over registries that may be
   shared.
