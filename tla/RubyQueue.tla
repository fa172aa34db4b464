------------------------------ MODULE RubyQueue ------------------------------
(***************************************************************************)
(* The callback queue of RuBLE (ext/ruble/management/RubyQueue.cpp) with   *)
(* the threads that meet in it:                                            *)
(*   - SimpleBLE's own threads, which push callbacks (Backends);           *)
(*   - the queue's Ruby thread, which runs them (Queue);                   *)
(*   - the Ruby threads of the program (RubyThreads): one of them, Loader, *)
(*     runs Init_RuBLE, any of them may call RuBLE.shutdown or interrupt   *)
(*     the queue's thread.                                                 *)
(* Every access to an atomic flag, a semaphore, a mutex or the deque is a  *)
(* step of its own, so all their interleavings are behaviours.  Ruby code  *)
(* and the C++ it calls run under the VM's lock (gvl); a callback can be   *)
(* run, and a shutdown can wait, only as far as that lock allows.          *)
(***************************************************************************)
EXTENDS Integers, FiniteSets, SequencesExt

CONSTANTS
    RubyThreads,      \* the program's Ruby threads
    Loader,           \* the one that runs Init_RuBLE
    Queue,            \* the Ruby thread RubyQueue::start creates
    Backends,         \* SimpleBLE's threads
    NoThread,         \* nobody (holds the gvl)
    Events,           \* the closures handed to push; one is reused once it has run
    NoEvent,
    ShutdownCallers,  \* the threads whose Ruby code may call RuBLE.shutdown
    DEBUG,            \* the build's constexpr DEBUG
    TimeoutsFire,     \* the deadlines of wait_until may pass
    CallbacksRaise,   \* Ruby callbacks may raise
    CleanupThrows     \* SimpleBLE may throw while DeInit unpairs and disconnects

\* The threads known to the Ruby VM.
Threads == RubyThreads \cup {Queue}

ASSUME ThreadsAssumption ==
    /\ Loader \in RubyThreads
    /\ Queue \notin RubyThreads
    /\ NoThread \notin Threads
    /\ IsFiniteSet(RubyThreads)
    /\ IsFiniteSet(Backends)
    /\ Backends \cap Threads = {}
    /\ ShutdownCallers \subseteq Threads

ASSUME EventsAssumption == NoEvent \notin Events

ASSUME FlagsAssumption ==
    /\ DEBUG \in BOOLEAN
    /\ TimeoutsFire \in BOOLEAN
    /\ CallbacksRaise \in BOOLEAN
    /\ CleanupThrows \in BOOLEAN

VARIABLES
    \* the fields of RubyQueue; _starting is set exactly when qpc # "none"
    q,          \* _q, its back is the last element
    sem,        \* _sem
    latch,      \* _startup_latch
    runMtx,     \* loop() holds _run_mtx
    running,    \* _running
    stopping,   \* _stopping
    \* the Ruby VM
    gvl,        \* the thread that holds the VM's lock
    killed,     \* the queue's thread has been told to die
    aborted,    \* std::terminate has ended the process
    \* the queue's thread
    qpc,        \* where it is in run() and loop()
    hand,       \* loop()'s item
    \* every Ruby thread
    rpc,        \* where it is in Init_RuBLE, DeInit or stop(), or "user"
    ret,        \* where stop() returns to
    load,       \* the outcome of Init_RuBLE
    called,     \* DeInit's static flag
    report,     \* how the thread's call of DeInit ended
    \* SimpleBLE's threads
    bpc,        \* where each is in push()
    item        \* push()'s fn

qvars == <<q, sem, latch, runMtx, running, stopping>>
vmvars == <<gvl, killed, aborted>>
loopvars == <<qpc, hand>>
rubyvars == <<rpc, ret, load, called, report>>
pushvars == <<bpc, item>>
vars == <<q, sem, latch, runMtx, running, stopping, gvl, killed, aborted,
          qpc, hand, rpc, ret, load, called, report, bpc, item>>

\* loop() between taking and releasing _run_mtx, and within that the body of its while.
InLoop == {"latch", "setrun", "while", "acquire", "check", "pop", "gvl", "exec", "clear", "unlock"}
InBody == {"while", "acquire", "check", "pop", "gvl", "exec"}
\* The queue's thread may yet begin or be running a callback.
Dispatching == {"acquire", "check", "pop", "gvl", "exec"}
\* Past the last look at _stopping.
Exiting == {"clear", "unlock", "dead"}
QueueLabels == {"none", "created", "lock", "dead"} \cup InLoop
\* Where stop() has been entered by DeInit or ensure_started and has set _stopping.
PastStop == {"release", "stopped_test", "stopped_try", "wait_test", "wait_try", "thread_kill"}
RubyLabels == {"user", "start", "poll", "cleanup", "stop"} \cup PastStop

Init ==
    /\ q = << >> /\ sem = 0 /\ latch = FALSE
    /\ runMtx = FALSE /\ running = FALSE /\ stopping = FALSE
    /\ gvl = Loader /\ killed = FALSE /\ aborted = FALSE
    /\ qpc = "none" /\ hand = NoEvent
    /\ rpc = [t \in Threads |-> IF t = Loader THEN "start" ELSE "user"]
    /\ ret = [t \in Threads |-> "user"]
    /\ load = "loading" /\ called = FALSE
    /\ report = [t \in Threads |-> "none"]
    /\ bpc = [b \in Backends |-> "idle"]
    /\ item = [b \in Backends |-> NoEvent]

-------------------------------------------------------------------------------
(* The Ruby VM's lock.                                                     *)

\* t has Ruby code to run: the queue's thread only from within a callback.
InRuby(t) == t = Queue => qpc = "exec"

\* The lock is granted to a Ruby thread that wants to go on.
AcquireGvl(t) ==
    /\ ~aborted /\ gvl = NoThread
    /\ InRuby(t)
    /\ gvl' = t
    /\ UNCHANGED <<qvars, killed, aborted, loopvars, rubyvars, pushvars>>

\* Ruby code blocks, or the VM's timer makes it give way.
YieldGvl(t) ==
    /\ ~aborted /\ gvl = t
    /\ InRuby(t) /\ rpc[t] = "user"
    /\ gvl' = NoThread
    /\ UNCHANGED <<qvars, killed, aborted, loopvars, rubyvars, pushvars>>

-------------------------------------------------------------------------------
(* push(): called on SimpleBLE's threads, or on a Ruby thread when the     *)
(* backend reports from within a call, which restricts the interleavings   *)
(* of the same three steps.                                                *)

\* The look at _stopping; only a DEBUG build refuses.
PushBegin(b, e) ==
    /\ ~aborted /\ bpc[b] = "idle"
    /\ qpc # "none"                     \* callbacks are registered after start()
    /\ e \notin ToSet(q) /\ e # hand /\ \A c \in Backends : item[c] # e
    /\ ~(DEBUG /\ stopping)
    /\ bpc' = [bpc EXCEPT ![b] = "emplace"]
    /\ item' = [item EXCEPT ![b] = e]
    /\ UNCHANGED <<qvars, vmvars, loopvars, rubyvars>>

\* emplace_back under _mtx.
PushEmplace(b) ==
    /\ ~aborted /\ bpc[b] = "emplace"
    /\ q' = Append(q, item[b])
    /\ bpc' = [bpc EXCEPT ![b] = "release"]
    /\ item' = [item EXCEPT ![b] = NoEvent]
    /\ UNCHANGED <<sem, latch, runMtx, running, stopping, vmvars, loopvars, rubyvars>>

\* Mutant: the release after emplace_back is forgotten.
PushReleaseMissing(b) ==
    /\ ~aborted /\ bpc[b] = "release"
    /\ bpc' = [bpc EXCEPT ![b] = "idle"]
    /\ UNCHANGED <<qvars, vmvars, loopvars, rubyvars, item>>

PushRelease(b) ==
    /\ ~aborted /\ bpc[b] = "release"
    /\ sem' = sem + 1
    /\ bpc' = [bpc EXCEPT ![b] = "idle"]
    /\ UNCHANGED <<q, latch, runMtx, running, stopping, vmvars, loopvars, rubyvars, item>>

-------------------------------------------------------------------------------
(* run() and loop() on the queue's thread.                                 *)

QueueGoto(from, to) == ~aborted /\ qpc = from /\ qpc' = to

\* The new thread gets the lock and gives it up in rb_thread_call_without_gvl,
\* which first looks for pending interrupts: a killed thread never enters loop().
Run ==
    /\ gvl = NoThread
    /\ QueueGoto("created", IF killed THEN "dead" ELSE "lock")
    /\ UNCHANGED <<qvars, vmvars, hand, rubyvars, pushvars>>

LoopLock ==
    /\ QueueGoto("lock", "latch")
    /\ ~runMtx
    /\ runMtx' = TRUE
    /\ UNCHANGED <<q, sem, latch, running, stopping, vmvars, hand, rubyvars, pushvars>>

LoopLatch ==
    /\ QueueGoto("latch", "setrun")
    /\ latch' = TRUE
    /\ UNCHANGED <<q, sem, runMtx, running, stopping, vmvars, hand, rubyvars, pushvars>>

\* Mutant: _running is never set.
LoopSetRunningMissing ==
    /\ QueueGoto("setrun", "while")
    /\ UNCHANGED <<qvars, vmvars, hand, rubyvars, pushvars>>

LoopSetRunning ==
    /\ QueueGoto("setrun", "while")
    /\ running' = TRUE
    /\ UNCHANGED <<q, sem, latch, runMtx, stopping, vmvars, hand, rubyvars, pushvars>>

LoopWhile ==
    /\ QueueGoto("while", IF stopping THEN "clear" ELSE "acquire")
    /\ UNCHANGED <<qvars, vmvars, hand, rubyvars, pushvars>>

\* Mutant: try_acquire with its result ignored.
LoopAcquireNoWait ==
    /\ QueueGoto("acquire", "check")
    /\ sem' = sem - 1
    /\ UNCHANGED <<q, latch, runMtx, running, stopping, vmvars, hand, rubyvars, pushvars>>

LoopAcquire ==
    /\ QueueGoto("acquire", "check")
    /\ sem > 0
    /\ sem' = sem - 1
    /\ UNCHANGED <<q, latch, runMtx, running, stopping, vmvars, hand, rubyvars, pushvars>>

\* Mutant: no second look at _stopping.
LoopCheckMissing ==
    /\ QueueGoto("check", "pop")
    /\ UNCHANGED <<qvars, vmvars, hand, rubyvars, pushvars>>

LoopCheck ==
    /\ QueueGoto("check", IF stopping THEN "clear" ELSE "pop")
    /\ UNCHANGED <<qvars, vmvars, hand, rubyvars, pushvars>>

\* Mutant: back() without pop_back().
LoopPopKeeps ==
    /\ QueueGoto("pop", "gvl")
    /\ hand' = Last(q)
    /\ UNCHANGED <<qvars, vmvars, rubyvars, pushvars>>

\* The callback at the back of the deque, moved out under _mtx.  back() of an empty
\* deque fails the assertion of a DEBUG build and is undefined behaviour otherwise.
LoopPop ==
    /\ ~aborted /\ qpc = "pop"
    /\ IF q = << >>
         THEN aborted' = TRUE /\ UNCHANGED <<q, loopvars>>
         ELSE /\ hand' = Last(q)
              /\ q' = Front(q)
              /\ qpc' = "gvl"
              /\ UNCHANGED aborted
    /\ UNCHANGED <<sem, latch, runMtx, running, stopping, gvl, killed, rubyvars, pushvars>>

\* rb_thread_call_with_gvl has obtained the lock: the callback begins ...
CallbackBegin ==
    /\ gvl = NoThread
    /\ QueueGoto("gvl", "exec")
    /\ gvl' = Queue
    /\ UNCHANGED <<qvars, killed, aborted, hand, rubyvars, pushvars>>

\* ... and returns.
CallbackEnd ==
    /\ gvl = Queue /\ rpc[Queue] = "user" /\ ~killed
    /\ QueueGoto("exec", "while")
    /\ gvl' = NoThread
    /\ hand' = NoEvent
    /\ UNCHANGED <<qvars, killed, aborted, rubyvars, pushvars>>

\* A callback that never looked for interrupts returns on a killed thread: the VM
\* jumps out of loop(), past the destructor that would unlock _run_mtx.
CallbackEndKilled ==
    /\ gvl = Queue /\ rpc[Queue] = "user" /\ killed
    /\ QueueGoto("exec", "dead")
    /\ gvl' = NoThread
    /\ hand' = NoEvent
    /\ UNCHANGED <<qvars, killed, aborted, rubyvars, pushvars>>

\* An exception of the callback, or the interrupt of a kill wherever the callback
\* looks for interrupts, has no handler on this thread: std::terminate.
CallbackAborts ==
    /\ ~aborted /\ qpc = "exec" /\ gvl = Queue
    /\ \/ CallbacksRaise /\ rpc[Queue] = "user"
       \/ killed /\ rpc[Queue] \in {"user", "wait_test"}
    /\ aborted' = TRUE
    /\ UNCHANGED <<qvars, gvl, killed, loopvars, rubyvars, pushvars>>

LoopClear ==
    /\ QueueGoto("clear", "unlock")
    /\ running' = FALSE
    /\ UNCHANGED <<q, sem, latch, runMtx, stopping, vmvars, hand, rubyvars, pushvars>>

LoopUnlock ==
    /\ QueueGoto("unlock", "dead")
    /\ runMtx' = FALSE
    /\ UNCHANGED <<q, sem, latch, running, stopping, vmvars, hand, rubyvars, pushvars>>

-------------------------------------------------------------------------------
(* Init_RuBLE on the loader: start() and ensure_started().                 *)

\* t, holding the lock, moves on.
RubyGoto(t, from, to) ==
    /\ ~aborted /\ gvl = t
    /\ rpc[t] = from
    /\ rpc' = [rpc EXCEPT ![t] = to]

Start ==
    /\ RubyGoto(Loader, "start", "poll")
    /\ qpc' = "created"
    /\ UNCHANGED <<qvars, vmvars, hand, ret, load, called, report, pushvars>>

\* try_acquire succeeds: Init_RuBLE returns.
EnsureStarted ==
    /\ RubyGoto(Loader, "poll", "user")
    /\ latch
    /\ latch' = FALSE
    /\ load' = "loaded"
    /\ UNCHANGED <<q, sem, runMtx, running, stopping, vmvars, loopvars, ret, called, report, pushvars>>

\* Mutant: the sleep keeps the lock.
EnsureStartedSpin ==
    /\ RubyGoto(Loader, "poll", "poll")
    /\ ~latch
    /\ UNCHANGED <<qvars, vmvars, loopvars, ret, load, called, report, pushvars>>

\* try_acquire fails in time: thread_sleep gives the lock away before the next try.
EnsureStartedSleep ==
    /\ RubyGoto(Loader, "poll", "poll")
    /\ ~latch
    /\ gvl' = NoThread
    /\ UNCHANGED <<qvars, killed, aborted, loopvars, ret, load, called, report, pushvars>>

\* try_acquire fails too late: kill().
EnsureStartedTimeout ==
    /\ TimeoutsFire
    /\ RubyGoto(Loader, "poll", "stop")
    /\ ~latch
    /\ ret' = [ret EXCEPT ![Loader] = "thread_kill"]
    /\ UNCHANGED <<qvars, vmvars, loopvars, load, called, report, pushvars>>

-------------------------------------------------------------------------------
(* stop(), and kill()'s call of rb_thread_kill.                            *)

\* Mutant: every stop() releases.
StopAlwaysReleases(t) ==
    /\ RubyGoto(t, "stop", "release")
    /\ stopping' = TRUE
    /\ UNCHANGED <<q, sem, latch, runMtx, running, vmvars, loopvars, ret, load, called, report, pushvars>>

\* Mutant: no stop() releases.
StopSilently(t) ==
    /\ RubyGoto(t, "stop", ret[t])
    /\ stopping' = TRUE
    /\ UNCHANGED <<q, sem, latch, runMtx, running, vmvars, loopvars, ret, load, called, report, pushvars>>

\* test_and_set; only the call that sets the flag goes on to the semaphore.
StopTestAndSet(t) ==
    /\ RubyGoto(t, "stop", IF stopping THEN ret[t] ELSE "release")
    /\ stopping' = TRUE
    /\ UNCHANGED <<q, sem, latch, runMtx, running, vmvars, loopvars, ret, load, called, report, pushvars>>

StopRelease(t) ==
    /\ RubyGoto(t, "release", ret[t])
    /\ sem' = sem + 1
    /\ UNCHANGED <<q, latch, runMtx, running, stopping, vmvars, loopvars, ret, load, called, report, pushvars>>

\* Another thread interrupts the queue's thread while that is out of the lock
\* (Thread#wakeup; Thread#kill and the VM's exit also leave it killed): the VM
\* calls run()'s ubf, which is stop().
Interrupt(t) ==
    /\ RubyGoto(t, "user", "stop")
    /\ t # Queue
    /\ qpc \in {"lock"} \cup (InLoop \ {"gvl", "exec"})
    /\ ret' = [ret EXCEPT ![t] = "user"]
    /\ killed' \in {killed, TRUE}
    /\ UNCHANGED <<qvars, gvl, aborted, loopvars, load, called, report, pushvars>>

\* Where no ubf is registered a kill stays pending.
InterruptLater(t) ==
    /\ RubyGoto(t, "user", "user")
    /\ t # Queue
    /\ qpc \in {"created", "gvl", "exec"}
    /\ killed' = TRUE
    /\ UNCHANGED <<qvars, gvl, aborted, loopvars, ret, load, called, report, pushvars>>

\* The thread is told to die.  stop_on_exit then returns; ensure_started throws, nothing in
\* Init_RuBLE catches that, and there is no C++ frame above it.  A thread that kills itself
\* unwinds through its own callback.
ThreadKill(t) ==
    LET starting == t = Loader /\ load = "loading"
    IN  /\ RubyGoto(t, "thread_kill", "user")
        /\ killed' = TRUE
        /\ aborted' = (starting \/ t = Queue)
        /\ report' = IF starting THEN report ELSE [report EXCEPT ![t] = "killed"]
        /\ UNCHANGED <<qvars, gvl, loopvars, ret, load, called, pushvars>>

-------------------------------------------------------------------------------
(* DeInit and stop_on_exit, on any Ruby thread.                            *)

DeInit(t) ==
    /\ ~called
    /\ t \in ShutdownCallers /\ InRuby(t)
    /\ RubyGoto(t, "user", "cleanup")
    /\ called' = TRUE
    /\ UNCHANGED <<qvars, vmvars, loopvars, ret, load, report, pushvars>>

\* Every call but the first is a no-op.
DeInitAgain(t) ==
    /\ called
    /\ t \in ShutdownCallers /\ InRuby(t)
    /\ report[t] = "none"
    /\ RubyGoto(t, "user", "user")
    /\ report' = [report EXCEPT ![t] = "noop"]
    /\ UNCHANGED <<qvars, vmvars, loopvars, ret, load, called, pushvars>>

\* Scans are stopped, peripherals unpaired and disconnected: then stop_on_exit.
DeInitCleanup(t) ==
    /\ RubyGoto(t, "cleanup", "stop")
    /\ ret' = [ret EXCEPT ![t] = "stopped_test"]
    /\ UNCHANGED <<qvars, vmvars, loopvars, load, called, report, pushvars>>

\* An exception of SimpleBLE leaves DeInit before it reaches the queue.
DeInitThrows(t) ==
    /\ CleanupThrows
    /\ RubyGoto(t, "cleanup", "user")
    /\ report' = [report EXCEPT ![t] = "threw"]
    /\ UNCHANGED <<qvars, vmvars, loopvars, ret, load, called, pushvars>>

\* running() finds _running clear: stop_on_exit returns.
NotRunning(t) ==
    /\ \E l \in {"stopped_test", "wait_test"} : RubyGoto(t, l, "user")
    /\ ~running
    /\ report' = [report EXCEPT ![t] = "stopped"]
    /\ UNCHANGED <<qvars, vmvars, loopvars, ret, load, called, pushvars>>

\* _running is set: running() goes on to try the mutex.
MaybeRunning(t) ==
    /\ \/ RubyGoto(t, "stopped_test", "stopped_try")
       \/ RubyGoto(t, "wait_test", "wait_try")
    /\ running
    /\ UNCHANGED <<qvars, vmvars, loopvars, ret, load, called, report, pushvars>>

\* Mutant: running() does not look whether it got the mutex.
MutexFreeUntried(t) ==
    /\ \E l \in {"stopped_try", "wait_try"} : RubyGoto(t, l, "user")
    /\ running' = FALSE
    /\ report' = [report EXCEPT ![t] = "stopped"]
    /\ UNCHANGED <<q, sem, latch, runMtx, stopping, vmvars, loopvars, ret, load, called, pushvars>>

\* try_lock succeeds: running() repairs _running and stop_on_exit returns.
MutexFree(t) ==
    /\ \E l \in {"stopped_try", "wait_try"} : RubyGoto(t, l, "user")
    /\ ~runMtx
    /\ running' = FALSE
    /\ report' = [report EXCEPT ![t] = "stopped"]
    /\ UNCHANGED <<q, sem, latch, runMtx, stopping, vmvars, loopvars, ret, load, called, pushvars>>

\* stopped() is false: wait_until starts.
StillRunning(t) ==
    /\ RubyGoto(t, "stopped_try", "wait_test")
    /\ runMtx
    /\ UNCHANGED <<qvars, vmvars, loopvars, ret, load, called, report, pushvars>>

\* Mutant: the sleep keeps the lock.
WaitSpin(t) ==
    /\ RubyGoto(t, "wait_try", "wait_test")
    /\ runMtx
    /\ UNCHANGED <<qvars, vmvars, loopvars, ret, load, called, report, pushvars>>

\* wait_until's predicate fails in time: thread_sleep.
WaitSleep(t) ==
    /\ RubyGoto(t, "wait_try", "wait_test")
    /\ runMtx
    /\ gvl' = NoThread
    /\ UNCHANGED <<qvars, killed, aborted, loopvars, ret, load, called, report, pushvars>>

\* Mutant: wait_until ignores its deadline.
WaitTimeoutIgnored(t) ==
    /\ TimeoutsFire
    /\ RubyGoto(t, "wait_try", "wait_test")
    /\ runMtx
    /\ gvl' = NoThread
    /\ UNCHANGED <<qvars, killed, aborted, loopvars, ret, load, called, report, pushvars>>

\* wait_until's predicate fails too late: kill().
WaitTimeout(t) ==
    /\ TimeoutsFire
    /\ RubyGoto(t, "wait_try", "stop")
    /\ runMtx
    /\ ret' = [ret EXCEPT ![t] = "thread_kill"]
    /\ UNCHANGED <<qvars, vmvars, loopvars, load, called, report, pushvars>>

-------------------------------------------------------------------------------
\* The process is gone.
Terminated == aborted /\ UNCHANGED vars

Push(b) == (\E e \in Events : PushBegin(b, e)) \/ PushEmplace(b) \/ PushRelease(b)

Loop ==
    \/ Run \/ LoopLock \/ LoopLatch \/ LoopSetRunning
    \/ LoopWhile \/ LoopAcquire \/ LoopCheck \/ LoopPop
    \/ CallbackBegin \/ CallbackEnd \/ CallbackEndKilled \/ CallbackAborts
    \/ LoopClear \/ LoopUnlock

EnsureStartedNext == Start \/ EnsureStarted \/ EnsureStartedSleep \/ EnsureStartedTimeout

Stop(t) ==
    \/ StopTestAndSet(t) \/ StopRelease(t) \/ ThreadKill(t)
    \/ Interrupt(t) \/ InterruptLater(t)

StopOnExit(t) ==
    \/ NotRunning(t) \/ MaybeRunning(t) \/ MutexFree(t)
    \/ StillRunning(t) \/ WaitSleep(t) \/ WaitTimeout(t)

Shutdown(t) ==
    DeInit(t) \/ DeInitAgain(t) \/ DeInitCleanup(t) \/ DeInitThrows(t) \/ StopOnExit(t)

Next ==
    \/ \E b \in Backends : Push(b)
    \/ Loop
    \/ EnsureStartedNext
    \/ \E t \in Threads : AcquireGvl(t) \/ YieldGvl(t) \/ Stop(t) \/ Shutdown(t)
    \/ Terminated

Spec == Init /\ [][Next]_vars

(***************************************************************************)
(* Fairness.  A C++ thread is not stopped for ever between two of its      *)
(* instructions.  The VM's lock is handed out in order of arrival and its  *)
(* timer makes Ruby code give way, so a thread that keeps asking gets it.  *)
(* The clock advances, so a poll that keeps failing runs into its          *)
(* deadline.  Nobody is obliged to call DeInit, to interrupt or to kill    *)
(* the queue.  That callbacks return is the program's affair and is        *)
(* assumed apart (CallbacksReturn).                                        *)
(***************************************************************************)
Polling(t) == rpc[t] \in {"poll", "wait_test"}

LoopStep ==
    \/ LoopLock \/ LoopLatch \/ LoopSetRunning
    \/ LoopWhile \/ LoopAcquire \/ LoopCheck \/ LoopPop
    \/ LoopClear \/ LoopUnlock

Fairness ==
    /\ \A b \in Backends : WF_vars(PushEmplace(b) \/ PushRelease(b))
    /\ WF_vars(LoopStep)
    /\ SF_vars(Run \/ CallbackBegin \/ AcquireGvl(Queue))
    /\ WF_vars(\E t \in Threads : YieldGvl(t))
    /\ \A t \in RubyThreads : SF_vars(Polling(t) /\ AcquireGvl(t))
    /\ WF_vars(Start \/ EnsureStarted \/ EnsureStartedSleep)
    /\ WF_vars(\E t \in Threads : DeInitCleanup(t) \/ StopOnExit(t) \/ StopTestAndSet(t)
                                   \/ StopRelease(t) \/ ThreadKill(t))
    /\ SF_vars(EnsureStartedTimeout \/ \E t \in Threads : WaitTimeout(t))

CallbacksReturn == SF_vars(CallbackEnd \/ CallbackEndKilled)

FairSpec == Spec /\ Fairness /\ CallbacksReturn

\* The same program with callbacks that may never return.
StubbornSpec == Spec /\ Fairness

-------------------------------------------------------------------------------
TypeOK ==
    /\ q \in Seq(Events) /\ sem \in Nat
    /\ latch \in BOOLEAN /\ runMtx \in BOOLEAN
    /\ running \in BOOLEAN /\ stopping \in BOOLEAN
    /\ gvl \in Threads \cup {NoThread}
    /\ killed \in BOOLEAN /\ aborted \in BOOLEAN
    /\ qpc \in QueueLabels
    /\ hand \in Events \cup {NoEvent}
    /\ rpc \in [Threads -> RubyLabels]
    /\ ret \in [Threads -> {"user", "stopped_test", "thread_kill"}]
    /\ load \in {"loading", "loaded"}
    /\ called \in BOOLEAN
    /\ report \in [Threads -> {"none", "noop", "threw", "stopped", "killed"}]
    /\ bpc \in [Backends -> {"idle", "emplace", "release"}]
    /\ item \in [Backends -> Events \cup {NoEvent}]

(* The threads that are about to release _sem: pushes after emplace_back and the    *)
(* one stop() that set _stopping.                                                   *)
Releasing == {b \in Backends : bpc[b] = "release"} \cup {t \in Threads : rpc[t] = "release"}

\* The permits of _sem: free ones, the one loop() holds, and those on their way.
Permits == sem + (IF qpc \in {"check", "pop"} THEN 1 ELSE 0) + Cardinality(Releasing)

(* loop() acquires _sem before it looks at _stopping or at the deque, and push() and *)
(* stop() release it after they have changed them.  So there is never a permit       *)
(* without a queued callback or the request to stop behind it and, as long as        *)
(* loop() may still wait, no callback and no request without its permit: no wakeup   *)
(* is spurious, none is lost, and _sem never exceeds the deque's length by more      *)
(* than one.                                                                         *)
SemAccounting ==
    LET owed == Len(q) + (IF stopping THEN 1 ELSE 0)
    IN  /\ Permits <= owed
        /\ qpc \notin Exiting => Permits = owed

(* The assertion of loop() (RubyQueue.cpp:74): when the thread is about to take the  *)
(* back of the deque there is one, whatever pushes and stops were in between.        *)
NeverPopsEmpty == qpc = "pop" => q # << >>

(* When stop_on_exit has returned because running() was false, no callback is being  *)
(* run and none will be: also not when running() looked before loop() had set        *)
(* _running, or when it was the mutex that gave the answer.                          *)
QuiescentAfterStop ==
    \A t \in Threads : report[t] = "stopped" => stopping /\ qpc \notin Dispatching

(* RuBLE.shutdown called from a callback waits for the thread it runs on, which      *)
(* holds _run_mtx and keeps _running set: it can never find the queue stopped.       *)
SelfShutdownNeverSucceeds == report[Queue] # "stopped"

(* Init_RuBLE returns: ensure_started's polling gives the lock away, so the new      *)
(* thread gets it, enters loop() and releases the latch.                             *)
StartupCompletes == <>(load = "loaded" \/ killed \/ aborted)

(* While nobody asks it to stop, the queue's thread comes back for a callback        *)
(* whenever there is one: no push leaves it asleep.                                  *)
CallbacksAreTaken == (q # << >> /\ ~stopping) ~> (qpc = "pop" \/ stopping \/ killed \/ aborted)

(* A request to stop, wherever it meets loop(), wakes it and ends it.                *)
StopEndsLoop == stopping ~> (qpc = "dead" \/ aborted)

(* A shutdown from the program returns without the help of its deadline as long as   *)
(* callbacks return and nobody kills the queue's thread.                             *)
ShutdownReturns ==
    \A t \in RubyThreads : (rpc[t] = "cleanup") ~> (rpc[t] = "user" \/ killed \/ aborted)

(* With the deadline, a shutdown returns or ends the process even when it is called  *)
(* from a callback, when a callback never returns, or when a kill has left _run_mtx  *)
(* locked.                                                                           *)
ShutdownReturnsOrAborts ==
    \A t \in Threads : (rpc[t] = "cleanup") ~> (rpc[t] = "user" \/ aborted)

(* RubyQueue.hpp:16 promises "a FIFO ordering": the callback that loop() takes is    *)
(* the one that has waited longest.                                                  *)
FirstInFirstOut == [][qpc = "pop" /\ qpc' = "gvl" => hand' = Head(q)]_vars

Dispatch == INSTANCE CallbackDispatch WITH
    pending <- ToSet(q) \cup (IF qpc = "gvl" THEN {hand} ELSE {}),
    current <- IF qpc = "exec" THEN hand ELSE NoEvent,
    claimed <- qpc \in {"pop", "gvl"},
    open <- ~stopping

(* RubyQueue implements CallbackDispatch: callbacks run at most once and one at a    *)
(* time, and once stop() has set _stopping at most the one that loop() had already   *)
(* decided to take is begun.                                                         *)
ImplementsDispatch == Dispatch!DSpec
===============================================================================
