--------------------------- MODULE RubyQueueProofs ---------------------------
(***************************************************************************)
(* The safety properties of RubyQueue, for any number of SimpleBLE threads *)
(* and Ruby threads, any set of callbacks and every build.                 *)
(***************************************************************************)
EXTENDS RubyQueue, FiniteSetTheorems, TLAPS

(* What push() and loop() do to the deque: emplace_back and pop_back keep a sequence of *)
(* callbacks one, lengthen and shorten it by one, and move exactly one callback.       *)
LEMMA AppendFacts ==
    ASSUME NEW s \in Seq(Events), NEW e \in Events
    PROVE  /\ Append(s, e) \in Seq(Events)
           /\ Len(Append(s, e)) = Len(s) + 1
           /\ ToSet(Append(s, e)) = ToSet(s) \cup {e}
PROOF
<1>1. /\ Append(s, e) \in Seq(Events)
      /\ Len(Append(s, e)) = Len(s) + 1
  OBVIOUS
<1>2. /\ DOMAIN s = 1 .. Len(s)
      /\ DOMAIN Append(s, e) = (1 .. Len(s)) \cup {Len(s) + 1}
  OBVIOUS
<1>3. /\ \A i \in 1 .. Len(s) : Append(s, e)[i] = s[i]
      /\ Append(s, e)[Len(s) + 1] = e
  OBVIOUS
<1>4. ASSUME NEW x \in ToSet(Append(s, e)) PROVE x \in ToSet(s) \cup {e}
  <2>1. PICK i \in DOMAIN Append(s, e) : x = Append(s, e)[i]
    BY DEF ToSet
  <2>2. QED
    BY <1>2, <1>3, <2>1 DEF ToSet
<1>5. e \in ToSet(Append(s, e))
  BY <1>2, <1>3 DEF ToSet
<1>6. ASSUME NEW x \in ToSet(s) PROVE x \in ToSet(Append(s, e))
  <2>1. PICK i \in DOMAIN s : x = s[i]
    BY DEF ToSet
  <2>2. i \in DOMAIN Append(s, e) /\ Append(s, e)[i] = x
    BY <1>2, <1>3, <2>1
  <2>3. QED
    BY <2>2 DEF ToSet
<1>7. QED
  BY <1>1, <1>4, <1>5, <1>6

LEMMA FrontFacts ==
    ASSUME NEW s \in Seq(Events), s # << >>
    PROVE  /\ Front(s) \in Seq(Events)
           /\ Len(Front(s)) = Len(s) - 1
           /\ Last(s) \in Events
           /\ ToSet(s) = ToSet(Front(s)) \cup {Last(s)}
PROOF
<1>1. Len(s) \in Nat \ {0}
  OBVIOUS
<1>2. /\ Front(s) \in Seq(Events)
      /\ Len(Front(s)) = Len(s) - 1
      /\ \A i \in 1 .. Len(s) - 1 : Front(s)[i] = s[i]
  <2> DEFINE n == Len(s) - 1
  <2>1. n \in Nat /\ n <= Len(s)
    BY <1>1
  <2>2. \A i \in 1 .. n : s[i] \in Events
    BY <2>1
  <2> HIDE DEF n
  <2>3. Len(SubSeq(s, 1, n)) = n /\ SubSeq(s, 1, n) = [i \in 1 .. n |-> s[i]]
    BY <2>1
  <2>4. SubSeq(s, 1, n) \in Seq(Events)
    BY <2>1, <2>2, <2>3
  <2>5. QED
    BY <2>3, <2>4 DEF n, Front
<1>3. Last(s) = s[Len(s)] /\ Last(s) \in Events
  BY <1>1 DEF Last
<1>4. /\ DOMAIN s = (1 .. Len(s) - 1) \cup {Len(s)}
      /\ DOMAIN Front(s) = 1 .. Len(s) - 1
  BY <1>1, <1>2
<1>5. ASSUME NEW x \in ToSet(s) PROVE x \in ToSet(Front(s)) \cup {Last(s)}
  <2>1. PICK i \in DOMAIN s : x = s[i]
    BY DEF ToSet
  <2>2. QED
    BY <1>2, <1>3, <1>4, <2>1 DEF ToSet
<1>6. ASSUME NEW x \in ToSet(Front(s)) PROVE x \in ToSet(s)
  <2>1. PICK i \in DOMAIN Front(s) : x = Front(s)[i]
    BY DEF ToSet
  <2>2. i \in DOMAIN s /\ s[i] = x
    BY <1>2, <1>4, <2>1
  <2>3. QED
    BY <2>2 DEF ToSet
<1>7. Last(s) \in ToSet(s)
  BY <1>3, <1>4 DEF ToSet
<1>8. QED
  BY <1>2, <1>3, <1>5, <1>6, <1>7

(* Type correctness is inductive but for one place: push() must have an item to emplace. *)
ItemInHand == \A b \in Backends : bpc[b] = "emplace" => item[b] \in Events

LEMMA TypeStep == TypeOK /\ ItemInHand /\ [Next]_vars => TypeOK' /\ ItemInHand'
PROOF
<1> SUFFICES ASSUME TypeOK, ItemInHand, [Next]_vars PROVE TypeOK' /\ ItemInHand'
  OBVIOUS
<1> USE ThreadsAssumption, EventsAssumption
<1> USE DEF TypeOK, ItemInHand, Threads, qvars, vmvars, loopvars, rubyvars, pushvars,
            QueueLabels, InLoop, RubyLabels, PastStop
<1>1. ASSUME NEW b \in Backends, NEW e \in Events, PushBegin(b, e) PROVE TypeOK' /\ ItemInHand'
  BY <1>1 DEF PushBegin, RubyGoto
<1>2. ASSUME NEW b \in Backends, PushEmplace(b) PROVE TypeOK' /\ ItemInHand'
  BY <1>2, AppendFacts DEF PushEmplace, RubyGoto
<1>3. ASSUME NEW b \in Backends, PushRelease(b) PROVE TypeOK' /\ ItemInHand'
  BY <1>3 DEF PushRelease, RubyGoto
<1>4. CASE Run
  BY <1>4 DEF Run, QueueGoto
<1>5. CASE LoopLock
  BY <1>5 DEF LoopLock, QueueGoto
<1>6. CASE LoopLatch
  BY <1>6 DEF LoopLatch, QueueGoto
<1>7. CASE LoopSetRunning
  BY <1>7 DEF LoopSetRunning, QueueGoto
<1>8. CASE LoopWhile
  BY <1>8 DEF LoopWhile, QueueGoto
<1>9. CASE LoopAcquire
  BY <1>9 DEF LoopAcquire, QueueGoto
<1>10. CASE LoopCheck
  BY <1>10 DEF LoopCheck, QueueGoto
<1>11. CASE LoopPop
  <2>1. q' \in Seq(Events) /\ hand' \in Events \cup {NoEvent} /\ qpc' \in QueueLabels
    <3>1. CASE q = << >>
      BY <1>11, <3>1 DEF LoopPop
    <3>2. CASE q # << >>
      <4>1. Front(q) \in Seq(Events) /\ Last(q) \in Events
        BY <3>2, FrontFacts
      <4>2. q' = Front(q) /\ hand' = Last(q) /\ qpc' = "gvl"
        BY <1>11, <3>2 DEF LoopPop
      <4>3. QED
        BY <4>1, <4>2
    <3>3. QED
      BY <3>1, <3>2
  <2>2. aborted' \in {aborted, TRUE}
    BY <1>11, Zenon DEF LoopPop
  <2>3. QED
    BY <1>11, <2>1, <2>2 DEF LoopPop
<1>12. CASE CallbackBegin
  BY <1>12 DEF CallbackBegin, QueueGoto
<1>13. CASE CallbackEnd
  BY <1>13 DEF CallbackEnd, QueueGoto
<1>14. CASE CallbackEndKilled
  BY <1>14 DEF CallbackEndKilled, QueueGoto
<1>15. CASE CallbackAborts
  BY <1>15 DEF CallbackAborts
<1>16. CASE LoopClear
  BY <1>16 DEF LoopClear, QueueGoto
<1>17. CASE LoopUnlock
  BY <1>17 DEF LoopUnlock, QueueGoto
<1>18. CASE Start
  BY <1>18 DEF Start, RubyGoto
<1>19. CASE EnsureStarted
  <2>1. rpc' \in [Threads -> RubyLabels]
    BY <1>19 DEF EnsureStarted, RubyGoto
  <2>2. latch' = FALSE /\ load' = "loaded"
    BY <1>19 DEF EnsureStarted
  <2>3. UNCHANGED <<q, sem, runMtx, running, stopping, gvl, killed, aborted, qpc, hand,
                    ret, called, report, bpc, item>>
    BY <1>19 DEF EnsureStarted
  <2>4. ItemInHand'
    BY <2>3
  <2>5. latch' \in BOOLEAN /\ load' \in {"loading", "loaded"}
    BY <2>2
  <2>6. /\ running' \in BOOLEAN /\ runMtx' \in BOOLEAN /\ stopping' \in BOOLEAN
        /\ killed' \in BOOLEAN /\ aborted' \in BOOLEAN /\ called' \in BOOLEAN
    BY <2>3
  <2>7. QED
    BY <2>1, <2>3, <2>4, <2>5, <2>6, Zenon
<1>20. CASE EnsureStartedSleep
  BY <1>20 DEF EnsureStartedSleep, RubyGoto
<1>21. CASE EnsureStartedTimeout
  BY <1>21 DEF EnsureStartedTimeout, RubyGoto
<1>22. ASSUME NEW t \in Threads, AcquireGvl(t) PROVE TypeOK' /\ ItemInHand'
  BY <1>22 DEF AcquireGvl
<1>23. ASSUME NEW t \in Threads, YieldGvl(t) PROVE TypeOK' /\ ItemInHand'
  BY <1>23 DEF YieldGvl
<1>24. ASSUME NEW t \in Threads, StopTestAndSet(t) PROVE TypeOK' /\ ItemInHand'
  BY <1>24 DEF StopTestAndSet, RubyGoto
<1>25. ASSUME NEW t \in Threads, StopRelease(t) PROVE TypeOK' /\ ItemInHand'
  BY <1>25 DEF StopRelease, RubyGoto
<1>26. ASSUME NEW t \in Threads, ThreadKill(t) PROVE TypeOK' /\ ItemInHand'
  BY <1>26 DEF ThreadKill, RubyGoto
<1>27. ASSUME NEW t \in Threads, Interrupt(t) PROVE TypeOK' /\ ItemInHand'
  <2>1. killed' \in BOOLEAN
    BY <1>27, Zenon DEF Interrupt
  <2>2. QED
    BY <1>27, <2>1 DEF Interrupt, RubyGoto
<1>28. ASSUME NEW t \in Threads, InterruptLater(t) PROVE TypeOK' /\ ItemInHand'
  BY <1>28 DEF InterruptLater, RubyGoto
<1>29. ASSUME NEW t \in Threads, DeInit(t) PROVE TypeOK' /\ ItemInHand'
  BY <1>29 DEF DeInit, RubyGoto
<1>30. ASSUME NEW t \in Threads, DeInitAgain(t) PROVE TypeOK' /\ ItemInHand'
  BY <1>30 DEF DeInitAgain, RubyGoto
<1>31. ASSUME NEW t \in Threads, DeInitCleanup(t) PROVE TypeOK' /\ ItemInHand'
  BY <1>31 DEF DeInitCleanup, RubyGoto
<1>32. ASSUME NEW t \in Threads, DeInitThrows(t) PROVE TypeOK' /\ ItemInHand'
  BY <1>32 DEF DeInitThrows, RubyGoto
<1>33. ASSUME NEW t \in Threads, NotRunning(t) PROVE TypeOK' /\ ItemInHand'
  BY <1>33 DEF NotRunning, RubyGoto
<1>34. ASSUME NEW t \in Threads, MaybeRunning(t) PROVE TypeOK' /\ ItemInHand'
  BY <1>34 DEF MaybeRunning, RubyGoto
<1>35. ASSUME NEW t \in Threads, MutexFree(t) PROVE TypeOK' /\ ItemInHand'
  <2>1. PICK l \in {"stopped_try", "wait_try"} : RubyGoto(t, l, "user")
    BY <1>35 DEF MutexFree
  <2>2. rpc' \in [Threads -> RubyLabels]
    BY <2>1 DEF RubyGoto
  <2>3. report' \in [Threads -> {"none", "noop", "threw", "stopped", "killed"}]
    BY <1>35 DEF MutexFree
  <2>4. /\ running' \in BOOLEAN /\ latch' \in BOOLEAN /\ runMtx' \in BOOLEAN
        /\ stopping' \in BOOLEAN /\ killed' \in BOOLEAN /\ aborted' \in BOOLEAN
        /\ called' \in BOOLEAN
    BY <1>35 DEF MutexFree
  <2>5. UNCHANGED <<q, sem, gvl, qpc, hand, ret, load, bpc, item>>
    BY <1>35 DEF MutexFree
  <2>6. QED
    BY <2>2, <2>3, <2>4, <2>5
<1>36. ASSUME NEW t \in Threads, StillRunning(t) PROVE TypeOK' /\ ItemInHand'
  BY <1>36 DEF StillRunning, RubyGoto
<1>37. ASSUME NEW t \in Threads, WaitSleep(t) PROVE TypeOK' /\ ItemInHand'
  BY <1>37 DEF WaitSleep, RubyGoto
<1>38. ASSUME NEW t \in Threads, WaitTimeout(t) PROVE TypeOK' /\ ItemInHand'
  BY <1>38 DEF WaitTimeout, RubyGoto
<1>39. CASE UNCHANGED vars
  BY <1>39 DEF vars
<1>40. QED
  BY <1>1, <1>2, <1>3, <1>4, <1>5, <1>6, <1>7, <1>8, <1>9, <1>10, <1>11, <1>12, <1>13,
     <1>14, <1>15, <1>16, <1>17, <1>18, <1>19, <1>20, <1>21, <1>22, <1>23, <1>24, <1>25,
     <1>26, <1>27, <1>28, <1>29, <1>30, <1>31, <1>32, <1>33, <1>34, <1>35, <1>36, <1>37,
     <1>38, <1>39
     DEF Next, Push, Loop, EnsureStartedNext, Stop, StopOnExit, Shutdown, Terminated

LEMMA TypeInvariant == Spec => [](TypeOK /\ ItemInHand)
PROOF
<1>1. Init => TypeOK /\ ItemInHand
  <2> SUFFICES ASSUME Init PROVE TypeOK /\ ItemInHand
    OBVIOUS
  <2> USE DEF Init
  <2>1. q \in Seq(Events) /\ sem \in Nat /\ gvl \in Threads \cup {NoThread}
    BY ThreadsAssumption DEF Threads
  <2>2. qpc \in QueueLabels /\ rpc \in [Threads -> RubyLabels]
    BY DEF QueueLabels, RubyLabels
  <2>3. QED
    BY <2>1, <2>2, EventsAssumption DEF TypeOK, ItemInHand
<1>2. QED
  BY <1>1, TypeStep, PTL DEF Spec

(* TypeOK of the specification (the type invariant that the runs check). *)
THEOREM TypeCorrect == Spec => []TypeOK
PROOF BY TypeInvariant, PTL

-------------------------------------------------------------------------------
(***************************************************************************)
(* Stopping.  Why running() may be trusted: loop() holds _run_mtx from     *)
(* before it releases the latch until after it has cleared _running, and   *)
(* _running is set throughout the body of its while (nobody else clears it *)
(* there, since MutexFree needs the mutex).  And stop_on_exit only asks    *)
(* once _stopping is set.                                                  *)
(***************************************************************************)
MutexHeld == qpc \in InLoop => runMtx
RunningSet == qpc \in InBody => running
StopRequested == \A t \in Threads : rpc[t] \in PastStop => stopping
InCallback == rpc[Queue] # "user" => qpc = "exec"
StartedOnce == rpc[Loader] = "start" => qpc = "none"
StopInv ==
    /\ MutexHeld /\ RunningSet /\ StopRequested /\ InCallback /\ StartedOnce
    /\ QuiescentAfterStop /\ SelfShutdownNeverSucceeds

LEMMA StopStep == TypeOK /\ StopInv /\ [Next]_vars => StopInv'
PROOF
<1> SUFFICES ASSUME TypeOK, StopInv, [Next]_vars PROVE StopInv'
  OBVIOUS
<1> USE ThreadsAssumption
<1> USE DEF TypeOK, Threads, qvars, vmvars, loopvars, rubyvars, pushvars,
            StopInv, MutexHeld, RunningSet, StopRequested, InCallback, StartedOnce, QuiescentAfterStop,
            SelfShutdownNeverSucceeds, InLoop, InBody, Dispatching, PastStop
<1>1. ASSUME NEW b \in Backends, NEW e \in Events, PushBegin(b, e) PROVE StopInv'
  BY <1>1 DEF PushBegin, RubyGoto
<1>2. ASSUME NEW b \in Backends, PushEmplace(b) PROVE StopInv'
  BY <1>2 DEF PushEmplace, RubyGoto
<1>3. ASSUME NEW b \in Backends, PushRelease(b) PROVE StopInv'
  BY <1>3 DEF PushRelease, RubyGoto
<1>4. CASE Run
  BY <1>4 DEF Run, QueueGoto
<1>5. CASE LoopLock
  BY <1>5 DEF LoopLock, QueueGoto
<1>6. CASE LoopLatch
  BY <1>6 DEF LoopLatch, QueueGoto
<1>7. CASE LoopSetRunning
  BY <1>7 DEF LoopSetRunning, QueueGoto
<1>8. CASE LoopWhile
  BY <1>8 DEF LoopWhile, QueueGoto
<1>9. CASE LoopAcquire
  BY <1>9 DEF LoopAcquire, QueueGoto
<1>10. CASE LoopCheck
  BY <1>10 DEF LoopCheck, QueueGoto
<1>11. CASE LoopPop
  BY <1>11 DEF LoopPop
<1>12. CASE CallbackBegin
  BY <1>12 DEF CallbackBegin, QueueGoto
<1>13. CASE CallbackEnd
  BY <1>13 DEF CallbackEnd, QueueGoto
<1>14. CASE CallbackEndKilled
  BY <1>14 DEF CallbackEndKilled, QueueGoto
<1>15. CASE CallbackAborts
  BY <1>15 DEF CallbackAborts
<1>16. CASE LoopClear
  BY <1>16 DEF LoopClear, QueueGoto
<1>17. CASE LoopUnlock
  BY <1>17 DEF LoopUnlock, QueueGoto
<1>18. CASE Start
  BY <1>18 DEF Start, RubyGoto
<1>19. CASE EnsureStarted
  BY <1>19 DEF EnsureStarted, RubyGoto
<1>20. CASE EnsureStartedSleep
  BY <1>20 DEF EnsureStartedSleep, RubyGoto
<1>21. CASE EnsureStartedTimeout
  BY <1>21 DEF EnsureStartedTimeout, RubyGoto
<1>22. ASSUME NEW t \in Threads, AcquireGvl(t) PROVE StopInv'
  BY <1>22 DEF AcquireGvl
<1>23. ASSUME NEW t \in Threads, YieldGvl(t) PROVE StopInv'
  BY <1>23 DEF YieldGvl
<1>24. ASSUME NEW t \in Threads, StopTestAndSet(t) PROVE StopInv'
  BY <1>24 DEF StopTestAndSet, RubyGoto
<1>25. ASSUME NEW t \in Threads, StopRelease(t) PROVE StopInv'
  BY <1>25 DEF StopRelease, RubyGoto
<1>26. ASSUME NEW t \in Threads, ThreadKill(t) PROVE StopInv'
  BY <1>26 DEF ThreadKill, RubyGoto
<1>27. ASSUME NEW t \in Threads, Interrupt(t) PROVE StopInv'
  BY <1>27 DEF Interrupt, RubyGoto
<1>28. ASSUME NEW t \in Threads, InterruptLater(t) PROVE StopInv'
  BY <1>28 DEF InterruptLater, RubyGoto
<1>29. ASSUME NEW t \in Threads, DeInit(t) PROVE StopInv'
  BY <1>29 DEF DeInit, InRuby, RubyGoto
<1>30. ASSUME NEW t \in Threads, DeInitAgain(t) PROVE StopInv'
  BY <1>30 DEF DeInitAgain, RubyGoto
<1>31. ASSUME NEW t \in Threads, DeInitCleanup(t) PROVE StopInv'
  BY <1>31 DEF DeInitCleanup, RubyGoto
<1>32. ASSUME NEW t \in Threads, DeInitThrows(t) PROVE StopInv'
  BY <1>32 DEF DeInitThrows, RubyGoto
<1>33. ASSUME NEW t \in Threads, NotRunning(t) PROVE StopInv'
  BY <1>33 DEF NotRunning, RubyGoto
<1>34. ASSUME NEW t \in Threads, MaybeRunning(t) PROVE StopInv'
  BY <1>34 DEF MaybeRunning, RubyGoto
<1>35. ASSUME NEW t \in Threads, MutexFree(t) PROVE StopInv'
  BY <1>35 DEF MutexFree, RubyGoto
<1>36. ASSUME NEW t \in Threads, StillRunning(t) PROVE StopInv'
  BY <1>36 DEF StillRunning, RubyGoto
<1>37. ASSUME NEW t \in Threads, WaitSleep(t) PROVE StopInv'
  BY <1>37 DEF WaitSleep, RubyGoto
<1>38. ASSUME NEW t \in Threads, WaitTimeout(t) PROVE StopInv'
  BY <1>38 DEF WaitTimeout, RubyGoto
<1>39. CASE UNCHANGED vars
  BY <1>39 DEF vars
<1>40. QED
  BY <1>1, <1>2, <1>3, <1>4, <1>5, <1>6, <1>7, <1>8, <1>9, <1>10, <1>11, <1>12, <1>13,
     <1>14, <1>15, <1>16, <1>17, <1>18, <1>19, <1>20, <1>21, <1>22, <1>23, <1>24, <1>25,
     <1>26, <1>27, <1>28, <1>29, <1>30, <1>31, <1>32, <1>33, <1>34, <1>35, <1>36, <1>37,
     <1>38, <1>39
     DEF Next, Push, Loop, EnsureStartedNext, Stop, StopOnExit, Shutdown, Terminated

LEMMA StopInvariant == Spec => []StopInv
PROOF
<1>1. Init => StopInv
  BY ThreadsAssumption
     DEF Init, StopInv, MutexHeld, RunningSet, StopRequested, InCallback, StartedOnce, QuiescentAfterStop,
         SelfShutdownNeverSucceeds, Threads, InLoop, InBody, PastStop
<1>2. QED
  BY <1>1, StopStep, TypeCorrect, PTL DEF Spec

(* QuiescentAfterStop of the specification: a shutdown that returned because running()  *)
(* was false leaves no callback running, and none runs later.                           *)
THEOREM Quiescent == Spec => []QuiescentAfterStop
PROOF
<1>1. StopInv => QuiescentAfterStop
  BY DEF StopInv
<1>2. QED
  BY <1>1, StopInvariant, PTL

(* SelfShutdownNeverSucceeds of the specification: RuBLE.shutdown called from a callback *)
(* never finds the queue stopped.                                                        *)
THEOREM SelfShutdown == Spec => []SelfShutdownNeverSucceeds
PROOF
<1>1. StopInv => SelfShutdownNeverSucceeds
  BY DEF StopInv
<1>2. QED
  BY <1>1, StopInvariant, PTL

-------------------------------------------------------------------------------
(***************************************************************************)
(* The semaphore.  SemAccounting says what each permit of _sem stands for; *)
(* it is what loop() relies on when it takes the back of the deque after   *)
(* an acquire.  A step changes the set of threads that are about to        *)
(* release by at most one thread.                                          *)
(***************************************************************************)
SemInv == SemAccounting /\ NeverPopsEmpty

LEMMA ReleasingFinite == IsFiniteSet(Releasing) /\ Cardinality(Releasing) \in Nat
PROOF
<1>1. IsFiniteSet(Backends \cup Threads)
  BY ThreadsAssumption, FS_AddElement, FS_Union, Zenon DEF Threads
<1>2. Releasing \subseteq Backends \cup Threads
  BY DEF Releasing
<1>3. QED
  BY <1>1, <1>2, FS_Subset, FS_CardinalityType

LEMMA ReleasingEnters ==
    ASSUME NEW x, x \notin Releasing, Releasing' = Releasing \cup {x}
    PROVE  Cardinality(Releasing') = Cardinality(Releasing) + 1
PROOF BY ReleasingFinite, FS_AddElement

LEMMA ReleasingLeaves ==
    ASSUME NEW x, x \in Releasing, Releasing' = Releasing \ {x}
    PROVE  Cardinality(Releasing') = Cardinality(Releasing) - 1
PROOF BY ReleasingFinite, FS_RemoveElement

LEMMA SemStep == TypeOK /\ ItemInHand /\ StopInv /\ SemInv /\ [Next]_vars => SemInv'
PROOF
<1> SUFFICES ASSUME TypeOK, ItemInHand, StopInv, SemInv, [Next]_vars PROVE SemInv'
  OBVIOUS
<1> USE ThreadsAssumption, ReleasingFinite
<1> USE DEF TypeOK, Threads, qvars, vmvars, loopvars, rubyvars, pushvars,
            SemInv, SemAccounting, NeverPopsEmpty, Permits, Exiting
<1>1. ASSUME NEW b \in Backends, NEW e \in Events, PushBegin(b, e) PROVE SemInv'
  <2>1. Releasing' = Releasing
    BY <1>1 DEF PushBegin, RubyGoto, Releasing
  <2>2. QED
    BY <1>1, <2>1 DEF PushBegin
<1>2. ASSUME NEW b \in Backends, PushEmplace(b) PROVE SemInv'
  <2>1. b \notin Releasing /\ Releasing' = Releasing \cup {b}
    BY <1>2 DEF PushEmplace, Releasing
  <2>2. Cardinality(Releasing') = Cardinality(Releasing) + 1
    BY <2>1, ReleasingEnters
  <2>3. Len(q') = Len(q) + 1 /\ Len(q) \in Nat
    BY <1>2 DEF PushEmplace, ItemInHand
  <2>4. q' # << >> /\ UNCHANGED <<sem, stopping, qpc>>
    <3>1. q' # << >>
      BY <2>3
    <3>2. QED
      BY <1>2, <3>1 DEF PushEmplace
  <2>5. Permits' = Permits + 1 /\ Permits \in Int
    BY <2>2, <2>4
  <2>6. SemAccounting'
    <3> HIDE DEF Permits
    <3> QED
      BY <2>3, <2>4, <2>5
  <2>7. QED
    BY <2>4, <2>6
<1>3. ASSUME NEW b \in Backends, PushRelease(b) PROVE SemInv'
  <2>1. b \in Releasing /\ Releasing' = Releasing \ {b}
    BY <1>3 DEF PushRelease, Releasing
  <2>2. Cardinality(Releasing') = Cardinality(Releasing) - 1
    BY <2>1, ReleasingLeaves
  <2>3. QED
    BY <1>3, <2>2 DEF PushRelease
<1>4. CASE Run
  <2>1. Releasing' = Releasing
    BY <1>4 DEF Run, QueueGoto, Releasing
  <2>2. QED
    BY <1>4, <2>1 DEF Run, QueueGoto
<1>5. CASE LoopLock
  <2>1. Releasing' = Releasing
    BY <1>5 DEF LoopLock, QueueGoto, Releasing
  <2>2. QED
    BY <1>5, <2>1 DEF LoopLock, QueueGoto
<1>6. CASE LoopLatch
  <2>1. Releasing' = Releasing
    BY <1>6 DEF LoopLatch, QueueGoto, Releasing
  <2>2. QED
    BY <1>6, <2>1 DEF LoopLatch, QueueGoto
<1>7. CASE LoopSetRunning
  <2>1. Releasing' = Releasing
    BY <1>7 DEF LoopSetRunning, QueueGoto, Releasing
  <2>2. QED
    BY <1>7, <2>1 DEF LoopSetRunning, QueueGoto
<1>8. CASE LoopWhile
  <2>1. Releasing' = Releasing
    BY <1>8 DEF LoopWhile, QueueGoto, Releasing
  <2>2. QED
    BY <1>8, <2>1 DEF LoopWhile, QueueGoto
<1>9. CASE LoopAcquire
  <2>1. Releasing' = Releasing
    BY <1>9 DEF LoopAcquire, QueueGoto, Releasing
  <2>2. QED
    BY <1>9, <2>1 DEF LoopAcquire, QueueGoto
<1>10. CASE LoopCheck
  <2>1. Releasing' = Releasing
    BY <1>10 DEF LoopCheck, QueueGoto, Releasing
  <2>2. QED
    BY <1>10, <2>1 DEF LoopCheck, QueueGoto
<1>11. CASE LoopPop
  <2>1. Releasing' = Releasing
    BY <1>11 DEF LoopPop, Releasing
  <2>2. q # << >> /\ q' = Front(q) /\ qpc' = "gvl" /\ qpc = "pop" /\ UNCHANGED <<sem, stopping>>
    BY <1>11 DEF LoopPop
  <2>3. Len(q') = Len(q) - 1 /\ Len(q) \in Nat
    BY <2>2, FrontFacts
  <2>4. QED
    BY <2>1, <2>2, <2>3
<1>12. CASE CallbackBegin
  <2>1. Releasing' = Releasing
    BY <1>12 DEF CallbackBegin, QueueGoto, Releasing
  <2>2. QED
    BY <1>12, <2>1 DEF CallbackBegin, QueueGoto
<1>13. CASE CallbackEnd
  <2>1. Releasing' = Releasing
    BY <1>13 DEF CallbackEnd, QueueGoto, Releasing
  <2>2. QED
    BY <1>13, <2>1 DEF CallbackEnd, QueueGoto
<1>14. CASE CallbackEndKilled
  <2>1. Releasing' = Releasing
    BY <1>14 DEF CallbackEndKilled, QueueGoto, Releasing
  <2>2. QED
    BY <1>14, <2>1 DEF CallbackEndKilled, QueueGoto
<1>15. CASE CallbackAborts
  <2>1. Releasing' = Releasing
    BY <1>15 DEF CallbackAborts, Releasing
  <2>2. QED
    BY <1>15, <2>1 DEF CallbackAborts
<1>16. CASE LoopClear
  <2>1. Releasing' = Releasing
    BY <1>16 DEF LoopClear, QueueGoto, Releasing
  <2>2. QED
    BY <1>16, <2>1 DEF LoopClear, QueueGoto
<1>17. CASE LoopUnlock
  <2>1. Releasing' = Releasing
    BY <1>17 DEF LoopUnlock, QueueGoto, Releasing
  <2>2. QED
    BY <1>17, <2>1 DEF LoopUnlock, QueueGoto
<1>18. CASE Start
  <2>1. Releasing' = Releasing
    BY <1>18 DEF Start, RubyGoto, Releasing
  <2>2. QED
    BY <1>18, <2>1 DEF Start, StopInv, StartedOnce, RubyGoto
<1>19. CASE EnsureStarted
  <2>1. Releasing' = Releasing
    BY <1>19 DEF EnsureStarted, RubyGoto, Releasing
  <2>2. QED
    BY <1>19, <2>1 DEF EnsureStarted
<1>20. CASE EnsureStartedSleep
  <2>1. Releasing' = Releasing
    BY <1>20 DEF EnsureStartedSleep, RubyGoto, Releasing
  <2>2. QED
    BY <1>20, <2>1 DEF EnsureStartedSleep
<1>21. CASE EnsureStartedTimeout
  <2>1. Releasing' = Releasing
    BY <1>21 DEF EnsureStartedTimeout, RubyGoto, Releasing
  <2>2. QED
    BY <1>21, <2>1 DEF EnsureStartedTimeout
<1>22. ASSUME NEW t \in Threads, AcquireGvl(t) PROVE SemInv'
  <2>1. Releasing' = Releasing
    BY <1>22 DEF AcquireGvl, Releasing
  <2>2. QED
    BY <1>22, <2>1 DEF AcquireGvl
<1>23. ASSUME NEW t \in Threads, YieldGvl(t) PROVE SemInv'
  <2>1. Releasing' = Releasing
    BY <1>23 DEF YieldGvl, Releasing
  <2>2. QED
    BY <1>23, <2>1 DEF YieldGvl
<1>24. ASSUME NEW t \in Threads, StopTestAndSet(t) PROVE SemInv'
  <2>1. CASE stopping
    <3>1. Releasing' = Releasing
      BY <1>24, <2>1 DEF StopTestAndSet, RubyGoto, Releasing
    <3>2. QED
      BY <1>24, <2>1, <3>1 DEF StopTestAndSet
  <2>2. CASE ~stopping
    <3>1. t \notin Releasing /\ Releasing' = Releasing \cup {t}
      BY <1>24, <2>2 DEF StopTestAndSet, RubyGoto, Releasing
    <3>2. Cardinality(Releasing') = Cardinality(Releasing) + 1
      BY <3>1, ReleasingEnters
    <3>3. stopping' = TRUE /\ UNCHANGED <<q, sem, qpc>>
      BY <1>24 DEF StopTestAndSet
    <3>4. Permits' = Permits + 1 /\ Permits \in Int
      BY <3>2, <3>3
    <3>5. SemAccounting'
      <4> HIDE DEF Permits
      <4> QED
        BY <2>2, <3>3, <3>4
    <3>6. QED
      BY <3>3, <3>5
  <2>3. QED
    BY <2>1, <2>2
<1>25. ASSUME NEW t \in Threads, StopRelease(t) PROVE SemInv'
  <2>1. t \in Releasing /\ Releasing' = Releasing \ {t}
    BY <1>25 DEF StopRelease, RubyGoto, Releasing
  <2>2. Cardinality(Releasing') = Cardinality(Releasing) - 1
    BY <2>1, ReleasingLeaves
  <2>3. sem' = sem + 1 /\ UNCHANGED <<q, stopping, qpc>>
    BY <1>25 DEF StopRelease
  <2>4. Permits' = Permits /\ Permits \in Int
    BY <2>2, <2>3
  <2>5. SemAccounting'
    <3> HIDE DEF Permits
    <3> QED
      BY <2>3, <2>4
  <2>6. QED
    BY <2>3, <2>5
<1>26. ASSUME NEW t \in Threads, ThreadKill(t) PROVE SemInv'
  <2>1. Releasing' = Releasing
    BY <1>26 DEF ThreadKill, RubyGoto, Releasing
  <2>2. QED
    BY <1>26, <2>1 DEF ThreadKill
<1>27. ASSUME NEW t \in Threads, Interrupt(t) PROVE SemInv'
  <2>1. Releasing' = Releasing
    BY <1>27 DEF Interrupt, RubyGoto, Releasing
  <2>2. QED
    BY <1>27, <2>1 DEF Interrupt
<1>28. ASSUME NEW t \in Threads, InterruptLater(t) PROVE SemInv'
  <2>1. Releasing' = Releasing
    BY <1>28 DEF InterruptLater, RubyGoto, Releasing
  <2>2. QED
    BY <1>28, <2>1 DEF InterruptLater
<1>29. ASSUME NEW t \in Threads, DeInit(t) PROVE SemInv'
  <2>1. Releasing' = Releasing
    BY <1>29 DEF DeInit, RubyGoto, Releasing
  <2>2. QED
    BY <1>29, <2>1 DEF DeInit
<1>30. ASSUME NEW t \in Threads, DeInitAgain(t) PROVE SemInv'
  <2>1. Releasing' = Releasing
    BY <1>30 DEF DeInitAgain, RubyGoto, Releasing
  <2>2. QED
    BY <1>30, <2>1 DEF DeInitAgain
<1>31. ASSUME NEW t \in Threads, DeInitCleanup(t) PROVE SemInv'
  <2>1. Releasing' = Releasing
    BY <1>31 DEF DeInitCleanup, RubyGoto, Releasing
  <2>2. QED
    BY <1>31, <2>1 DEF DeInitCleanup
<1>32. ASSUME NEW t \in Threads, DeInitThrows(t) PROVE SemInv'
  <2>1. Releasing' = Releasing
    BY <1>32 DEF DeInitThrows, RubyGoto, Releasing
  <2>2. QED
    BY <1>32, <2>1 DEF DeInitThrows
<1>33. ASSUME NEW t \in Threads, NotRunning(t) PROVE SemInv'
  <2>1. Releasing' = Releasing
    BY <1>33 DEF NotRunning, RubyGoto, Releasing
  <2>2. QED
    BY <1>33, <2>1 DEF NotRunning
<1>34. ASSUME NEW t \in Threads, MaybeRunning(t) PROVE SemInv'
  <2>1. Releasing' = Releasing
    BY <1>34 DEF MaybeRunning, RubyGoto, Releasing
  <2>2. QED
    BY <1>34, <2>1 DEF MaybeRunning
<1>35. ASSUME NEW t \in Threads, MutexFree(t) PROVE SemInv'
  <2>1. Releasing' = Releasing
    BY <1>35 DEF MutexFree, RubyGoto, Releasing
  <2>2. QED
    BY <1>35, <2>1 DEF MutexFree
<1>36. ASSUME NEW t \in Threads, StillRunning(t) PROVE SemInv'
  <2>1. Releasing' = Releasing
    BY <1>36 DEF StillRunning, RubyGoto, Releasing
  <2>2. QED
    BY <1>36, <2>1 DEF StillRunning
<1>37. ASSUME NEW t \in Threads, WaitSleep(t) PROVE SemInv'
  <2>1. Releasing' = Releasing
    BY <1>37 DEF WaitSleep, RubyGoto, Releasing
  <2>2. QED
    BY <1>37, <2>1 DEF WaitSleep
<1>38. ASSUME NEW t \in Threads, WaitTimeout(t) PROVE SemInv'
  <2>1. Releasing' = Releasing
    BY <1>38 DEF WaitTimeout, RubyGoto, Releasing
  <2>2. QED
    BY <1>38, <2>1 DEF WaitTimeout
<1>39. CASE UNCHANGED vars
  <2>1. Releasing' = Releasing
    BY <1>39 DEF vars, Releasing
  <2>2. QED
    BY <1>39, <2>1 DEF vars
<1>40. QED
  BY <1>1, <1>2, <1>3, <1>4, <1>5, <1>6, <1>7, <1>8, <1>9, <1>10, <1>11, <1>12, <1>13,
     <1>14, <1>15, <1>16, <1>17, <1>18, <1>19, <1>20, <1>21, <1>22, <1>23, <1>24, <1>25,
     <1>26, <1>27, <1>28, <1>29, <1>30, <1>31, <1>32, <1>33, <1>34, <1>35, <1>36, <1>37,
     <1>38, <1>39
     DEF Next, Push, Loop, EnsureStartedNext, Stop, StopOnExit, Shutdown, Terminated

LEMMA SemInvariant == Spec => []SemInv
PROOF
<1>1. Init => SemInv
  <2> SUFFICES ASSUME Init PROVE SemInv
    OBVIOUS
  <2>1. Releasing = {}
    BY DEF Init, Releasing
  <2>2. Cardinality(Releasing) = 0
    BY <2>1, FS_EmptySet
  <2>3. QED
    BY <2>2 DEF Init, SemInv, SemAccounting, NeverPopsEmpty, Permits
<1>2. QED
  BY <1>1, SemStep, TypeInvariant, StopInvariant, PTL DEF Spec

(* SemAccounting of the specification: every permit of _sem stands for a queued callback *)
(* or for the request to stop, so no wakeup of loop() is lost and none is spurious.      *)
THEOREM SemaphoreSound == Spec => []SemAccounting
PROOF
<1>1. SemInv => SemAccounting
  BY DEF SemInv
<1>2. QED
  BY <1>1, SemInvariant, PTL

(* NeverPopsEmpty of the specification: the assertion of loop() (RubyQueue.cpp:74).      *)
THEOREM AssertionHolds == Spec => []NeverPopsEmpty
PROOF
<1>1. SemInv => NeverPopsEmpty
  BY DEF SemInv
<1>2. QED
  BY <1>1, SemInvariant, PTL

-------------------------------------------------------------------------------
(***************************************************************************)
(* Callbacks run once.  A callback is in one place at a time: with the     *)
(* thread that pushes it, once in the deque, or in the hand of loop().     *)
(***************************************************************************)
Distinct(s) == \A i, j \in DOMAIN s : s[i] = s[j] => i = j
HandBusy == qpc \in {"gvl", "exec"} <=> hand # NoEvent
ItemsApart == \A b, c \in Backends : item[b] = item[c] /\ item[b] # NoEvent => b = c
ItemsNew ==
    \A b \in Backends : bpc[b] = "emplace" => item[b] \notin ToSet(q) /\ item[b] # hand
OnePlace == Distinct(q) /\ HandBusy /\ ItemsApart /\ ItemsNew /\ hand \notin ToSet(q)

LEMMA ToSetType == ASSUME NEW s \in Seq(Events) PROVE ToSet(s) \subseteq Events
PROOF BY DEF ToSet

LEMMA DistinctAppend ==
    ASSUME NEW s \in Seq(Events), NEW e \in Events, Distinct(s), e \notin ToSet(s)
    PROVE  Distinct(Append(s, e))
PROOF
<1>1. /\ DOMAIN s = 1 .. Len(s)
      /\ DOMAIN Append(s, e) = (1 .. Len(s)) \cup {Len(s) + 1}
      /\ \A i \in 1 .. Len(s) : Append(s, e)[i] = s[i]
      /\ Append(s, e)[Len(s) + 1] = e
  OBVIOUS
<1>2. \A i \in 1 .. Len(s) : s[i] # e
  BY <1>1 DEF ToSet
<1>3. QED
  BY <1>1, <1>2 DEF Distinct

LEMMA DistinctFront ==
    ASSUME NEW s \in Seq(Events), s # << >>, Distinct(s)
    PROVE  Distinct(Front(s)) /\ Last(s) \notin ToSet(Front(s))
PROOF
<1>1. Len(s) \in Nat \ {0}
  OBVIOUS
<1>2. Front(s) \in Seq(Events) /\ Len(Front(s)) = Len(s) - 1
  BY FrontFacts
<1>3. \A i \in 1 .. Len(s) - 1 : Front(s)[i] = s[i]
  BY <1>1 DEF Front
<1>4. /\ DOMAIN s = 1 .. Len(s)
      /\ DOMAIN Front(s) = 1 .. Len(s) - 1
  BY <1>1, <1>2
<1>5. Distinct(Front(s))
  BY <1>1, <1>3, <1>4 DEF Distinct
<1>6. ASSUME NEW i \in DOMAIN Front(s) PROVE Front(s)[i] # Last(s)
  BY <1>1, <1>3, <1>4 DEF Distinct, Last
<1>7. QED
  BY <1>5, <1>6 DEF ToSet

LEMMA OnePlaceStep == TypeOK /\ ItemInHand /\ StopInv /\ SemInv /\ OnePlace /\ [Next]_vars => OnePlace'
PROOF
<1> SUFFICES ASSUME TypeOK, ItemInHand, StopInv, SemInv, OnePlace, [Next]_vars PROVE OnePlace'
  OBVIOUS
<1> USE ThreadsAssumption, EventsAssumption
<1> USE DEF TypeOK, qvars, vmvars, loopvars, rubyvars, pushvars,
            OnePlace, HandBusy, ItemsApart, ItemsNew
<1> ToSet(q) \subseteq Events
  BY ToSetType
<1>1. ASSUME NEW b \in Backends, NEW e \in Events, PushBegin(b, e) PROVE OnePlace'
  BY <1>1 DEF PushBegin, RubyGoto
<1>2. ASSUME NEW b \in Backends, PushEmplace(b) PROVE OnePlace'
  <2>1. item[b] \in Events /\ item[b] \notin ToSet(q) /\ item[b] # hand
    BY <1>2 DEF PushEmplace, ItemInHand
  <2>2. ToSet(q') = ToSet(q) \cup {item[b]} /\ Distinct(q')
    BY <1>2, <2>1, AppendFacts, DistinctAppend DEF PushEmplace
  <2>3. ItemsApart' /\ ItemsNew'
    BY <1>2, <2>1, <2>2 DEF PushEmplace, ItemInHand
  <2>4. QED
    BY <1>2, <2>1, <2>2, <2>3 DEF PushEmplace
<1>3. ASSUME NEW b \in Backends, PushRelease(b) PROVE OnePlace'
  BY <1>3 DEF PushRelease, RubyGoto
<1>4. CASE Run
  BY <1>4 DEF Run, QueueGoto
<1>5. CASE LoopLock
  BY <1>5 DEF LoopLock, QueueGoto
<1>6. CASE LoopLatch
  BY <1>6 DEF LoopLatch, QueueGoto
<1>7. CASE LoopSetRunning
  BY <1>7 DEF LoopSetRunning, QueueGoto
<1>8. CASE LoopWhile
  BY <1>8 DEF LoopWhile, QueueGoto
<1>9. CASE LoopAcquire
  BY <1>9 DEF LoopAcquire, QueueGoto
<1>10. CASE LoopCheck
  BY <1>10 DEF LoopCheck, QueueGoto
<1>11. CASE LoopPop
  <2>1. q # << >> /\ qpc' = "gvl" /\ hand' = Last(q) /\ q' = Front(q) /\ UNCHANGED pushvars
    BY <1>11 DEF LoopPop, SemInv, NeverPopsEmpty
  <2>2. /\ ToSet(q) = ToSet(q') \cup {hand'} /\ hand' \in Events
        /\ Distinct(q') /\ hand' \notin ToSet(q')
    BY <2>1, FrontFacts, DistinctFront
  <2>3. QED
    BY <2>1, <2>2
<1>12. CASE CallbackBegin
  BY <1>12 DEF CallbackBegin, QueueGoto
<1>13. CASE CallbackEnd
  <2>1. hand' = NoEvent /\ UNCHANGED <<q, pushvars>> /\ qpc' \notin {"gvl", "exec"}
    BY <1>13 DEF CallbackEnd, QueueGoto
  <2>2. QED
    BY <2>1 DEF ItemInHand
<1>14. CASE CallbackEndKilled
  <2>1. hand' = NoEvent /\ UNCHANGED <<q, pushvars>> /\ qpc' \notin {"gvl", "exec"}
    BY <1>14 DEF CallbackEndKilled, QueueGoto
  <2>2. QED
    BY <2>1 DEF ItemInHand
<1>15. CASE CallbackAborts
  BY <1>15 DEF CallbackAborts
<1>16. CASE LoopClear
  BY <1>16 DEF LoopClear, QueueGoto
<1>17. CASE LoopUnlock
  BY <1>17 DEF LoopUnlock, QueueGoto
<1>18. CASE Start
  BY <1>18 DEF Start, RubyGoto, StopInv, StartedOnce
<1>19. CASE EnsureStarted
  BY <1>19 DEF EnsureStarted, RubyGoto
<1>20. CASE EnsureStartedSleep
  BY <1>20 DEF EnsureStartedSleep, RubyGoto
<1>21. CASE EnsureStartedTimeout
  BY <1>21 DEF EnsureStartedTimeout, RubyGoto
<1>22. ASSUME NEW t \in Threads, AcquireGvl(t) PROVE OnePlace'
  BY <1>22 DEF AcquireGvl
<1>23. ASSUME NEW t \in Threads, YieldGvl(t) PROVE OnePlace'
  BY <1>23 DEF YieldGvl
<1>24. ASSUME NEW t \in Threads, StopTestAndSet(t) PROVE OnePlace'
  BY <1>24 DEF StopTestAndSet, RubyGoto
<1>25. ASSUME NEW t \in Threads, StopRelease(t) PROVE OnePlace'
  BY <1>25 DEF StopRelease, RubyGoto
<1>26. ASSUME NEW t \in Threads, ThreadKill(t) PROVE OnePlace'
  BY <1>26 DEF ThreadKill, RubyGoto
<1>27. ASSUME NEW t \in Threads, Interrupt(t) PROVE OnePlace'
  BY <1>27 DEF Interrupt, RubyGoto
<1>28. ASSUME NEW t \in Threads, InterruptLater(t) PROVE OnePlace'
  BY <1>28 DEF InterruptLater, RubyGoto
<1>29. ASSUME NEW t \in Threads, DeInit(t) PROVE OnePlace'
  BY <1>29 DEF DeInit, RubyGoto
<1>30. ASSUME NEW t \in Threads, DeInitAgain(t) PROVE OnePlace'
  BY <1>30 DEF DeInitAgain, RubyGoto
<1>31. ASSUME NEW t \in Threads, DeInitCleanup(t) PROVE OnePlace'
  BY <1>31 DEF DeInitCleanup, RubyGoto
<1>32. ASSUME NEW t \in Threads, DeInitThrows(t) PROVE OnePlace'
  BY <1>32 DEF DeInitThrows, RubyGoto
<1>33. ASSUME NEW t \in Threads, NotRunning(t) PROVE OnePlace'
  BY <1>33 DEF NotRunning, RubyGoto
<1>34. ASSUME NEW t \in Threads, MaybeRunning(t) PROVE OnePlace'
  BY <1>34 DEF MaybeRunning, RubyGoto
<1>35. ASSUME NEW t \in Threads, MutexFree(t) PROVE OnePlace'
  BY <1>35 DEF MutexFree, RubyGoto
<1>36. ASSUME NEW t \in Threads, StillRunning(t) PROVE OnePlace'
  BY <1>36 DEF StillRunning, RubyGoto
<1>37. ASSUME NEW t \in Threads, WaitSleep(t) PROVE OnePlace'
  BY <1>37 DEF WaitSleep, RubyGoto
<1>38. ASSUME NEW t \in Threads, WaitTimeout(t) PROVE OnePlace'
  BY <1>38 DEF WaitTimeout, RubyGoto
<1>39. CASE UNCHANGED vars
  BY <1>39 DEF vars
<1>40. QED
  BY <1>1, <1>2, <1>3, <1>4, <1>5, <1>6, <1>7, <1>8, <1>9, <1>10, <1>11, <1>12, <1>13,
     <1>14, <1>15, <1>16, <1>17, <1>18, <1>19, <1>20, <1>21, <1>22, <1>23, <1>24, <1>25,
     <1>26, <1>27, <1>28, <1>29, <1>30, <1>31, <1>32, <1>33, <1>34, <1>35, <1>36, <1>37,
     <1>38, <1>39
     DEF Next, Push, Loop, EnsureStartedNext, Stop, StopOnExit, Shutdown, Terminated

LEMMA OnePlaceInvariant == Spec => []OnePlace
PROOF
<1>1. Init => OnePlace
  BY DEF Init, OnePlace, Distinct, HandBusy, ItemsApart, ItemsNew, ToSet
<1>2. QED
  BY <1>1, OnePlaceStep, TypeInvariant, StopInvariant, SemInvariant, PTL DEF Spec

(* Every step of RubyQueue is a step of CallbackDispatch or leaves it unchanged. *)
LEMMA DispatchStep ==
    TypeOK /\ ItemInHand /\ StopInv /\ SemInv /\ OnePlace /\ [Next]_vars
        => [Dispatch!DNext]_(Dispatch!dvars)
PROOF
<1> SUFFICES ASSUME TypeOK, ItemInHand, StopInv, SemInv, OnePlace, [Next]_vars
             PROVE  Dispatch!DNext \/ UNCHANGED Dispatch!dvars
  OBVIOUS
<1> USE DEF qvars, vmvars, loopvars, rubyvars, pushvars
<1>a. ASSUME UNCHANGED <<q, hand, stopping>>,
             qpc' = qpc \/ (qpc \notin {"pop", "gvl", "exec"} /\ qpc' \notin {"pop", "gvl", "exec"})
      PROVE  UNCHANGED Dispatch!dvars
  <2>1. CASE qpc' = qpc
    BY <1>a, <2>1 DEF Dispatch!dvars
  <2>2. CASE qpc \notin {"pop", "gvl", "exec"} /\ qpc' \notin {"pop", "gvl", "exec"}
    BY <1>a, <2>2 DEF Dispatch!dvars
  <2>3. QED
    BY <1>a, <2>1, <2>2
<1>1. ASSUME NEW b \in Backends, NEW e \in Events, PushBegin(b, e) PROVE Dispatch!DNext \/ UNCHANGED Dispatch!dvars
  BY <1>1, <1>a DEF PushBegin, RubyGoto
<1>2. ASSUME NEW b \in Backends, PushEmplace(b) PROVE Dispatch!DNext \/ UNCHANGED Dispatch!dvars
  <2>1. item[b] \in Events /\ item[b] \notin ToSet(q) /\ item[b] # hand
    BY <1>2 DEF PushEmplace, ItemInHand, OnePlace, ItemsNew
  <2>2. ToSet(q') = ToSet(q) \cup {item[b]} /\ UNCHANGED <<qpc, hand, stopping>>
    BY <1>2, <2>1, AppendFacts DEF PushEmplace, TypeOK
  <2>3. Dispatch!Accept(item[b])
    BY <2>1, <2>2, EventsAssumption DEF Dispatch!Accept
  <2>4. QED
    BY <2>1, <2>3 DEF Dispatch!DNext
<1>3. ASSUME NEW b \in Backends, PushRelease(b) PROVE Dispatch!DNext \/ UNCHANGED Dispatch!dvars
  BY <1>3, <1>a DEF PushRelease, RubyGoto
<1>4. CASE Run
  BY <1>4, <1>a DEF Run, QueueGoto
<1>5. CASE LoopLock
  BY <1>5, <1>a DEF LoopLock, QueueGoto
<1>6. CASE LoopLatch
  BY <1>6, <1>a DEF LoopLatch, QueueGoto
<1>7. CASE LoopSetRunning
  BY <1>7, <1>a DEF LoopSetRunning, QueueGoto
<1>8. CASE LoopWhile
  BY <1>8, <1>a DEF LoopWhile, QueueGoto
<1>9. CASE LoopAcquire
  BY <1>9, <1>a DEF LoopAcquire, QueueGoto
<1>10. CASE LoopCheck
  <2>1. CASE stopping
    BY <1>10, <2>1, <1>a DEF LoopCheck, QueueGoto
  <2>2. CASE ~stopping
    <3>1. qpc = "check" /\ qpc' = "pop" /\ UNCHANGED <<q, hand, stopping>>
      BY <1>10, <2>2 DEF LoopCheck, QueueGoto
    <3>2. q # << >>
      BY <2>2, <3>1, ReleasingFinite DEF SemInv, SemAccounting, Permits, Exiting, TypeOK
    <3>3. ToSet(q) # {}
      <4>1. 1 \in DOMAIN q
        BY <3>2 DEF TypeOK
      <4>2. QED
        BY <4>1 DEF ToSet
    <3>4. Dispatch!Claim
      BY <2>2, <3>1, <3>3 DEF Dispatch!Claim
    <3>5. QED
      BY <3>4 DEF Dispatch!DNext
  <2>3. QED
    BY <2>1, <2>2
<1>11. CASE LoopPop
  <2>1. /\ q # << >> /\ qpc = "pop" /\ qpc' = "gvl"
        /\ hand' = Last(q) /\ q' = Front(q) /\ UNCHANGED stopping
    BY <1>11 DEF LoopPop, SemInv, NeverPopsEmpty
  <2>2. ToSet(q) = ToSet(q') \cup {hand'}
    BY <2>1, FrontFacts DEF TypeOK
  <2>3. QED
    BY <2>1, <2>2 DEF Dispatch!dvars
<1>12. CASE CallbackBegin
  <2>1. qpc = "gvl" /\ qpc' = "exec" /\ UNCHANGED <<q, hand, stopping>>
    BY <1>12 DEF CallbackBegin, QueueGoto
  <2>2. hand \in Events /\ hand \notin ToSet(q)
    BY <2>1 DEF TypeOK, OnePlace, HandBusy
  <2>3. Dispatch!Begin(hand)
    BY <2>1, <2>2 DEF Dispatch!Begin
  <2>4. QED
    BY <2>2, <2>3 DEF Dispatch!DNext
<1>13. CASE CallbackEnd
  <2>1. qpc = "exec" /\ qpc' = "while" /\ UNCHANGED <<q, stopping>>
    BY <1>13 DEF CallbackEnd, QueueGoto
  <2>2. hand # NoEvent
    BY <2>1 DEF OnePlace, HandBusy
  <2>3. Dispatch!End
    BY <2>1, <2>2 DEF Dispatch!End
  <2>4. QED
    BY <2>3 DEF Dispatch!DNext
<1>14. CASE CallbackEndKilled
  <2>1. qpc = "exec" /\ qpc' = "dead" /\ UNCHANGED <<q, stopping>>
    BY <1>14 DEF CallbackEndKilled, QueueGoto
  <2>2. hand # NoEvent
    BY <2>1 DEF OnePlace, HandBusy
  <2>3. Dispatch!End
    BY <2>1, <2>2 DEF Dispatch!End
  <2>4. QED
    BY <2>3 DEF Dispatch!DNext
<1>15. CASE CallbackAborts
  BY <1>15, <1>a DEF CallbackAborts
<1>16. CASE LoopClear
  BY <1>16, <1>a DEF LoopClear, QueueGoto
<1>17. CASE LoopUnlock
  BY <1>17, <1>a DEF LoopUnlock, QueueGoto
<1>18. CASE Start
  BY <1>18, <1>a DEF Start, RubyGoto, StopInv, StartedOnce
<1>19. CASE EnsureStarted
  BY <1>19, <1>a DEF EnsureStarted, RubyGoto
<1>20. CASE EnsureStartedSleep
  BY <1>20, <1>a DEF EnsureStartedSleep, RubyGoto
<1>21. CASE EnsureStartedTimeout
  BY <1>21, <1>a DEF EnsureStartedTimeout, RubyGoto
<1>22. ASSUME NEW t \in Threads, AcquireGvl(t) PROVE Dispatch!DNext \/ UNCHANGED Dispatch!dvars
  BY <1>22, <1>a DEF AcquireGvl
<1>23. ASSUME NEW t \in Threads, YieldGvl(t) PROVE Dispatch!DNext \/ UNCHANGED Dispatch!dvars
  BY <1>23, <1>a DEF YieldGvl
<1>24. ASSUME NEW t \in Threads, StopTestAndSet(t) PROVE Dispatch!DNext \/ UNCHANGED Dispatch!dvars
  <2>1. stopping' = TRUE /\ UNCHANGED <<q, qpc, hand>>
    BY <1>24 DEF StopTestAndSet
  <2>2. CASE stopping
    BY <2>1, <2>2, <1>a DEF TypeOK
  <2>3. CASE ~stopping
    <3>1. Dispatch!Close
      BY <2>1, <2>3 DEF Dispatch!Close
    <3>2. QED
      BY <3>1 DEF Dispatch!DNext
  <2>4. QED
    BY <2>2, <2>3
<1>25. ASSUME NEW t \in Threads, StopRelease(t) PROVE Dispatch!DNext \/ UNCHANGED Dispatch!dvars
  BY <1>25, <1>a DEF StopRelease, RubyGoto
<1>26. ASSUME NEW t \in Threads, ThreadKill(t) PROVE Dispatch!DNext \/ UNCHANGED Dispatch!dvars
  BY <1>26, <1>a DEF ThreadKill, RubyGoto
<1>27. ASSUME NEW t \in Threads, Interrupt(t) PROVE Dispatch!DNext \/ UNCHANGED Dispatch!dvars
  BY <1>27, <1>a DEF Interrupt, RubyGoto
<1>28. ASSUME NEW t \in Threads, InterruptLater(t) PROVE Dispatch!DNext \/ UNCHANGED Dispatch!dvars
  BY <1>28, <1>a DEF InterruptLater, RubyGoto
<1>29. ASSUME NEW t \in Threads, DeInit(t) PROVE Dispatch!DNext \/ UNCHANGED Dispatch!dvars
  BY <1>29, <1>a DEF DeInit, RubyGoto
<1>30. ASSUME NEW t \in Threads, DeInitAgain(t) PROVE Dispatch!DNext \/ UNCHANGED Dispatch!dvars
  BY <1>30, <1>a DEF DeInitAgain, RubyGoto
<1>31. ASSUME NEW t \in Threads, DeInitCleanup(t) PROVE Dispatch!DNext \/ UNCHANGED Dispatch!dvars
  BY <1>31, <1>a DEF DeInitCleanup, RubyGoto
<1>32. ASSUME NEW t \in Threads, DeInitThrows(t) PROVE Dispatch!DNext \/ UNCHANGED Dispatch!dvars
  BY <1>32, <1>a DEF DeInitThrows, RubyGoto
<1>33. ASSUME NEW t \in Threads, NotRunning(t) PROVE Dispatch!DNext \/ UNCHANGED Dispatch!dvars
  BY <1>33, <1>a DEF NotRunning, RubyGoto
<1>34. ASSUME NEW t \in Threads, MaybeRunning(t) PROVE Dispatch!DNext \/ UNCHANGED Dispatch!dvars
  BY <1>34, <1>a DEF MaybeRunning, RubyGoto
<1>35. ASSUME NEW t \in Threads, MutexFree(t) PROVE Dispatch!DNext \/ UNCHANGED Dispatch!dvars
  BY <1>35, <1>a DEF MutexFree, RubyGoto
<1>36. ASSUME NEW t \in Threads, StillRunning(t) PROVE Dispatch!DNext \/ UNCHANGED Dispatch!dvars
  BY <1>36, <1>a DEF StillRunning, RubyGoto
<1>37. ASSUME NEW t \in Threads, WaitSleep(t) PROVE Dispatch!DNext \/ UNCHANGED Dispatch!dvars
  BY <1>37, <1>a DEF WaitSleep, RubyGoto
<1>38. ASSUME NEW t \in Threads, WaitTimeout(t) PROVE Dispatch!DNext \/ UNCHANGED Dispatch!dvars
  BY <1>38, <1>a DEF WaitTimeout, RubyGoto
<1>39. CASE UNCHANGED vars
  BY <1>39, <1>a DEF vars
<1>40. QED
  BY <1>1, <1>2, <1>3, <1>4, <1>5, <1>6, <1>7, <1>8, <1>9, <1>10, <1>11, <1>12, <1>13,
     <1>14, <1>15, <1>16, <1>17, <1>18, <1>19, <1>20, <1>21, <1>22, <1>23, <1>24, <1>25,
     <1>26, <1>27, <1>28, <1>29, <1>30, <1>31, <1>32, <1>33, <1>34, <1>35, <1>36, <1>37,
     <1>38, <1>39
     DEF Next, Push, Loop, EnsureStartedNext, Stop, StopOnExit, Shutdown, Terminated

(* RubyQueue implements CallbackDispatch, for any threads and callbacks. *)
THEOREM Refinement == Spec => ImplementsDispatch
PROOF
<1>1. Init => Dispatch!DInit
  BY DEF Init, Dispatch!DInit, ToSet
<1>2. QED
  BY <1>1, DispatchStep, TypeInvariant, StopInvariant, SemInvariant, OnePlaceInvariant, PTL
     DEF Spec, ImplementsDispatch, Dispatch!DSpec
===============================================================================
