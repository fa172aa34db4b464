---------------------------- MODULE ShutdownProofs ----------------------------
(***************************************************************************)
(* DeInit for any adapters and peripherals, whatever happens to the        *)
(* devices between its tests and its calls.                                *)
(***************************************************************************)
EXTENDS Shutdown, Naturals, FiniteSetTheorems, TLAPS

\* The walk is at a device that has a proxy.
AtDevice == pc \in Walking \ {"next"} => at \in known

\* What the walk has behind it is out of use, but for what others have revived.
VisitedClean ==
    pc \in Walking =>
        \A x \in known \ left :
            (pc = "next" \/ x # at) =>
                x \in revived \/ x \notin scanning \cup paired \cup connected

\* Past its test and the call, the device the walk is at is not paired.
Unpaired == pc \in {"is_connected", "disconnect"} => at \in revived \/ at \notin paired

\* A DeInit that came to an end has told the queue to stop, or has thrown.
StoppedOrFailed ==
    /\ pc = "wait" => stopping
    /\ called /\ pc = "idle" => stopping \/ failed

ShutdownInv ==
    /\ TypeOK /\ AtDevice /\ VisitedClean /\ Unpaired
    /\ CleanBeforeStop /\ StoppedOrFailed /\ SkippedOnlyAfterFailure

-----------------------------------------------------------------------------

LEMMA ShutdownInit == Init => ShutdownInv
    BY DEF Init, ShutdownInv, TypeOK, AtDevice, VisitedClean, Unpaired, CleanBeforeStop,
        StoppedOrFailed, SkippedOnlyAfterFailure, Walking, AtAdapter, AtPeripheral

\* Ruby code, which does not run while DeInit walks, may change everything but the walk.
LEMMA RubyStep ==
    ASSUME ShutdownInv, RubyRuns,
           UNCHANGED <<called, walk, revived, stopping, process>>,
           known' \subseteq Devices, known \subseteq known', scanning' \subseteq Adapters,
           paired' \subseteq Peripherals, connected' \subseteq Peripherals,
           unpair_all_on_exit' \in BOOLEAN
    PROVE  ShutdownInv'
    BY DEF ShutdownInv, TypeOK, AtDevice, VisitedClean, Unpaired, CleanBeforeStop,
        StoppedOrFailed, SkippedOnlyAfterFailure, Walking, AtAdapter, AtPeripheral, RubyRuns, walk

\* The world may take a device out of use, or put it to use again.
LEMMA WorldStep ==
    ASSUME ShutdownInv,
           UNCHANGED <<known, unpair_all_on_exit, called, walk, stopping, process>>,
           scanning' \subseteq Adapters, paired' \subseteq Peripherals,
           connected' \subseteq Peripherals, revived \subseteq revived', revived' \subseteq Devices,
           scanning' \subseteq scanning \cup revived', paired' \subseteq paired \cup revived',
           connected' \subseteq connected \cup revived'
    PROVE  ShutdownInv'
    <1> USE DEF ShutdownInv, walk
    <1>1. TypeOK' /\ AtDevice' /\ StoppedOrFailed' /\ SkippedOnlyAfterFailure'
        BY DEF TypeOK, AtDevice, StoppedOrFailed, SkippedOnlyAfterFailure
    <1>2. VisitedClean' /\ Unpaired'
        BY DEF VisitedClean, Unpaired
    <1>3. CleanBeforeStop'
        BY DEF CleanBeforeStop
    <1> QED BY <1>1, <1>2, <1>3

\* DeInit goes from one test or call to the next.
LEMMA WalkStep ==
    ASSUME ShutdownInv, DeInitStep
    PROVE  ShutdownInv'
    <1> USE DisjointAssumption, NoneAssumption
        DEF ShutdownInv, Step, Quiet, Walking, AtAdapter, AtPeripheral, devices, walk, Devices
    <1>1. ASSUME NEW x \in Devices, Visit(x)
          PROVE  ShutdownInv'
        <2>1. x \in left /\ x \in known /\ (x \notin Adapters => x \in Peripherals)
            BY <1>1 DEF Visit, Due, TypeOK
        <2>2. TypeOK' /\ AtDevice'
            BY <1>1, <2>1 DEF Visit, TypeOK, AtDevice
        <2>3. VisitedClean'
            BY <1>1, <2>1 DEF Visit, VisitedClean
        <2> QED BY <1>1, <2>2, <2>3
            DEF Visit, Unpaired, CleanBeforeStop, StoppedOrFailed, SkippedOnlyAfterFailure
    <1>2. CASE ScanIsActive \/ ScanStop
        <2>1. TypeOK' /\ AtDevice'
            BY <1>2 DEF ScanIsActive, ScanStop, TypeOK, AtDevice
        <2>2. VisitedClean'
            BY <1>2 DEF ScanIsActive, ScanStop, VisitedClean, TypeOK
        <2> QED BY <1>2, <2>1, <2>2
            DEF ScanIsActive, ScanStop, Unpaired, CleanBeforeStop, StoppedOrFailed, SkippedOnlyAfterFailure
    <1>3. CASE StopScan
        <2>1. TypeOK' /\ AtDevice'
            BY <1>3 DEF StopScan, TypeOK, AtDevice
        <2>2. VisitedClean'
            BY <1>3 DEF StopScan, VisitedClean, TypeOK, AtDevice
        <2> QED BY <1>3, <2>1, <2>2
            DEF StopScan, Unpaired, CleanBeforeStop, StoppedOrFailed, SkippedOnlyAfterFailure
    <1>4. CASE IsPaired
        <2>1. TypeOK' /\ AtDevice'
            BY <1>4 DEF IsPaired, TypeOK, AtDevice
        <2>2. VisitedClean' /\ Unpaired'
            BY <1>4 DEF IsPaired, VisitedClean, Unpaired
        <2> QED BY <1>4, <2>1, <2>2
            DEF IsPaired, CleanBeforeStop, StoppedOrFailed, SkippedOnlyAfterFailure
    <1>5. CASE Unpair
        <2>1. TypeOK' /\ AtDevice'
            BY <1>5 DEF Unpair, TypeOK, AtDevice
        <2>2. VisitedClean' /\ Unpaired'
            BY <1>5 DEF Unpair, VisitedClean, Unpaired
        <2> QED BY <1>5, <2>1, <2>2
            DEF Unpair, CleanBeforeStop, StoppedOrFailed, SkippedOnlyAfterFailure
    <1>6. CASE IsConnected
        <2>1. TypeOK' /\ AtDevice'
            BY <1>6 DEF IsConnected, TypeOK, AtDevice
        <2>2. VisitedClean' /\ Unpaired'
            BY <1>6 DEF IsConnected, VisitedClean, Unpaired, TypeOK
        <2> QED BY <1>6, <2>1, <2>2
            DEF IsConnected, CleanBeforeStop, StoppedOrFailed, SkippedOnlyAfterFailure
    <1>7. CASE Disconnect
        <2>1. TypeOK' /\ AtDevice'
            BY <1>7 DEF Disconnect, TypeOK, AtDevice
        <2>2. VisitedClean' /\ Unpaired'
            BY <1>7 DEF Disconnect, VisitedClean, Unpaired, TypeOK
        <2> QED BY <1>7, <2>1, <2>2
            DEF Disconnect, CleanBeforeStop, StoppedOrFailed, SkippedOnlyAfterFailure
    <1>8. CASE WalkEnds
        <2>1. TypeOK' /\ AtDevice'
            BY <1>8 DEF WalkEnds, TypeOK, AtDevice
        <2>2. CleanBeforeStop'
            BY <1>8 DEF WalkEnds, VisitedClean, CleanBeforeStop
        <2> QED BY <1>8, <2>1, <2>2
            DEF WalkEnds, VisitedClean, Unpaired, StoppedOrFailed, SkippedOnlyAfterFailure
    <1>9. CASE Throws
        <2>1. TypeOK' /\ AtDevice'
            BY <1>9 DEF Throws, TypeOK, AtDevice
        <2> QED BY <1>9, <2>1
            DEF Throws, VisitedClean, Unpaired, CleanBeforeStop, StoppedOrFailed, SkippedOnlyAfterFailure
    <1>10. CASE StopQueue
        <2>1. TypeOK' /\ AtDevice'
            BY <1>10 DEF StopQueue, TypeOK, AtDevice
        <2> QED BY <1>10, <2>1
            DEF StopQueue, VisitedClean, Unpaired, CleanBeforeStop, StoppedOrFailed, SkippedOnlyAfterFailure
    <1>11. CASE Return
        <2>1. TypeOK' /\ AtDevice'
            BY <1>11 DEF Return, TypeOK, AtDevice
        <2> QED BY <1>11, <2>1
            DEF Return, VisitedClean, Unpaired, CleanBeforeStop, StoppedOrFailed, SkippedOnlyAfterFailure
    <1> QED BY <1>1, <1>2, <1>3, <1>4, <1>5, <1>6, <1>7, <1>8, <1>9, <1>10, <1>11 DEF DeInitStep

LEMMA ShutdownStep ==
    ASSUME ShutdownInv, [Next]_vars
    PROVE  ShutdownInv'
    <1> USE AdapterOfAssumption
    <1>1. ASSUME NEW a \in Adapters, scan_start(a) \/ scan_stop(a)
          PROVE  ShutdownInv'
        BY <1>1, RubyStep DEF scan_start, scan_stop, Use, ShutdownInv, TypeOK, devices
    <1>2. ASSUME NEW p \in Peripherals, connect(p) \/ disconnect(p) \/ unpair(p)
          PROVE  ShutdownInv'
        BY <1>2, RubyStep DEF connect, disconnect, unpair, Use, ShutdownInv, TypeOK
    <1>3. ASSUME NEW x \in Devices, Discover(x)
          PROVE  ShutdownInv'
        BY <1>3, RubyStep DEF Discover, ShutdownInv, TypeOK, devices, Devices
    <1>4. ASSUME NEW x \in Devices, Revived(x)
          PROVE  ShutdownInv'
        BY <1>4, WorldStep DEF Revived, ShutdownInv, TypeOK, Devices
    <1>5. ASSUME NEW b \in BOOLEAN, SetUnpairAllOnExit(b)
          PROVE  ShutdownInv'
        BY <1>5, RubyStep DEF SetUnpairAllOnExit, ShutdownInv, TypeOK, devices
    <1>6. CASE Lost
        BY <1>6, WorldStep DEF Lost, ShutdownInv, TypeOK
    <1>7. ASSUME NEW who \in {"shutdown", "exit"}, Begin(who)
          PROVE  ShutdownInv'
        <2>1. TypeOK' /\ AtDevice'
            BY <1>7 DEF Begin, ShutdownInv, TypeOK, AtDevice, devices, Walking, AtAdapter, AtPeripheral
        <2> QED BY <1>7, <2>1
            DEF Begin, ShutdownInv, VisitedClean, Unpaired, CleanBeforeStop, StoppedOrFailed,
                SkippedOnlyAfterFailure, Walking, AtAdapter, AtPeripheral, RubyRuns, devices
    <1>8. CASE AgainAtExit
        <2>1. stopping \/ failed
            BY <1>8 DEF AgainAtExit, RubyRuns, ShutdownInv, StoppedOrFailed
        <2> QED BY <1>8, <2>1
            DEF AgainAtExit, ShutdownInv, TypeOK, AtDevice, VisitedClean, Unpaired, CleanBeforeStop,
                StoppedOrFailed, SkippedOnlyAfterFailure, devices, walk
    <1>9. CASE DeInitStep
        BY <1>9, WalkStep
    <1>10. CASE UNCHANGED vars
        BY <1>10 DEF vars, devices, walk, ShutdownInv, TypeOK, AtDevice, VisitedClean, Unpaired,
            CleanBeforeStop, StoppedOrFailed, SkippedOnlyAfterFailure
    <1> QED BY <1>1, <1>2, <1>3, <1>4, <1>5, <1>6, <1>7, <1>8, <1>9, <1>10 DEF Next

LEMMA ShutdownInvariant == Spec => []ShutdownInv
    <1>1. ShutdownInv /\ [Next]_vars => ShutdownInv'
        BY ShutdownStep
    <1> QED BY <1>1, ShutdownInit, PTL DEF Spec

\* Scans are those of adapters, links those of peripherals, and DeInit is at a device while
\* it tests and calls (DeInit).
THEOREM TypeCorrect == Spec => []TypeOK
    BY ShutdownInvariant, PTL DEF ShutdownInv

\* When DeInit has walked the registries nothing that has a proxy is in use, but for what
\* others have put to use again since it began (DeInit).
THEOREM WalkCleans == Spec => []CleanBeforeStop
    BY ShutdownInvariant, PTL DEF ShutdownInv

\* The flag alone never makes an exit leave the queue to itself (DeInit, stop_on_exit).
THEOREM ExitSkipsAfterFailure == Spec => []SkippedOnlyAfterFailure
    BY ShutdownInvariant, PTL DEF ShutdownInv

-----------------------------------------------------------------------------
(***************************************************************************)
(* How far a DeInit still has to go.  Fairness and ENABLED are for TLC     *)
(* (DeInitEnds); that each of its steps brings the end nearer, and that     *)
(* nobody else takes it back, is proved here.                              *)
(***************************************************************************)

\* The longest way from pc to the end when no device is left.
Stage ==
    CASE pc = "is_paired" -> 7
      [] pc \in {"unpair", "scan_is_active"} -> 6
      [] pc \in {"is_connected", "scan_stop"} -> 5
      [] pc \in {"disconnect", "stop_scan"} -> 4
      [] pc = "next" -> 3
      [] pc = "stop" -> 2
      [] pc = "wait" -> 1
      [] pc = "idle" -> 0

\* A peripheral takes at most four steps and the one that goes to it.
Rank == 7 * Cardinality(left) + Stage

\* The registries hold finitely many proxies, and only one DeInit is ever under way.
OneFiniteWalk ==
    /\ IsFiniteSet(known)
    /\ caller = None <=> pc = "idle"
    /\ pc # "idle" => called

\* Each step of a DeInit brings its end nearer, and none of the program's or the world's takes
\* it back: however often devices are lost and revived, none is visited twice (for_each).
EndComesNearer ==
    /\ DeInitStep => Rank' < Rank
    /\ caller # None /\ ~DeInitStep => Rank' = Rank

LEMMA RankType ==
    ASSUME TypeOK, OneFiniteWalk
    PROVE  IsFiniteSet(left) /\ Cardinality(left) \in Nat /\ Stage \in 0 .. 7 /\ Rank \in Nat
    <1>1. IsFiniteSet(left) /\ Cardinality(left) \in Nat
        BY FS_Subset, FS_CardinalityType DEF TypeOK, OneFiniteWalk
    <1>2. Stage \in 0 .. 7
        BY DEF TypeOK, Stage, Walking, AtAdapter, AtPeripheral
    <1> QED BY <1>1, <1>2 DEF Rank

LEMMA OneFiniteWalkStep ==
    ASSUME TypeOK, OneFiniteWalk, [Next]_vars
    PROVE  OneFiniteWalk'
    <1>1. CASE UNCHANGED <<known, called, caller, pc>>
        BY <1>1 DEF OneFiniteWalk
    <1>2. ASSUME NEW x \in Devices, Discover(x)
          PROVE  OneFiniteWalk'
        <2>1. IsFiniteSet(known')
            BY <1>2, FS_AddElement DEF Discover, OneFiniteWalk
        <2> QED BY <1>2, <2>1 DEF Discover, OneFiniteWalk, walk
    <1>3. ASSUME NEW who \in {"shutdown", "exit"}, Begin(who)
          PROVE  OneFiniteWalk'
        <2>1. who # None /\ pc' # "idle"
            BY <1>3, NoneAssumption DEF Begin
        <2> QED BY <1>3, <2>1 DEF Begin, OneFiniteWalk
    <1>4. CASE DeInitStep
        BY <1>4 DEF DeInitStep, Visit, ScanIsActive, ScanStop, StopScan, IsPaired, Unpair, IsConnected,
            Disconnect, WalkEnds, Throws, StopQueue, Return, Step, Quiet, OneFiniteWalk, TypeOK,
            Walking, AtAdapter, AtPeripheral
    <1> QED BY <1>1, <1>2, <1>3, <1>4
        DEF Next, vars, walk, devices, scan_start, scan_stop, connect, disconnect, unpair, Use,
            Revived, SetUnpairAllOnExit, Lost, AgainAtExit

LEMMA StepComesNearer ==
    ASSUME TypeOK, OneFiniteWalk, DeInitStep
    PROVE  Rank' < Rank
    <1>1. IsFiniteSet(left) /\ Cardinality(left) \in Nat /\ Stage \in 0 .. 7
        BY RankType
    <1>2. ASSUME NEW x \in Devices, Visit(x)
          PROVE  Rank' < Rank
        <2>1. x \in left /\ left' = left \ {x}
            BY <1>2 DEF Visit, Due
        <2>2. Cardinality(left') = Cardinality(left) - 1
            BY <1>1, <2>1, FS_RemoveElement
        <2>3. Stage = 3 /\ Stage' \in {6, 7}
            BY <1>2 DEF Visit, Step, Stage
        <2> QED BY <1>1, <2>2, <2>3 DEF Rank
    <1>3. CASE Throws
        <2>1. Cardinality(left') = 0 /\ Stage' = 0
            BY <1>3, FS_EmptySet DEF Throws, Stage
        <2>2. Stage > 0
            BY <1>3 DEF Throws, Walking, AtAdapter, AtPeripheral, Stage
        <2> QED BY <1>1, <2>1, <2>2 DEF Rank
    <1>4. CASE ScanIsActive \/ ScanStop \/ StopScan \/ IsPaired \/ Unpair \/ IsConnected \/ Disconnect \/ WalkEnds \/ StopQueue \/ Return
        <2>1. left' = left
            BY <1>4 DEF ScanIsActive, ScanStop, StopScan, IsPaired, Unpair, IsConnected, Disconnect, WalkEnds,
                StopQueue, Return
        <2>2. Stage' < Stage
            BY <1>4 DEF ScanIsActive, ScanStop, StopScan, IsPaired, Unpair, IsConnected, Disconnect, WalkEnds,
                StopQueue, Return, Step, Stage
        <2>3. Stage' \in 0 .. 7
            BY <2>2, <1>4 DEF ScanIsActive, ScanStop, StopScan, IsPaired, Unpair, IsConnected, Disconnect, WalkEnds,
                StopQueue, Return, Step, Stage
        <2> QED BY <1>1, <2>1, <2>2, <2>3 DEF Rank
    <1> QED BY <1>2, <1>3, <1>4 DEF DeInitStep

LEMMA NobodyTakesBack ==
    ASSUME TypeOK, OneFiniteWalk, [Next]_vars, caller # None, ~DeInitStep
    PROVE  Rank' = Rank
    <1>1. \A who \in {"shutdown", "exit"} : ~Begin(who)
        BY DEF OneFiniteWalk, Begin
    <1>2. left' = left /\ pc' = pc
        BY <1>1 DEF Next, vars, walk, devices, scan_start, scan_stop, connect, disconnect, unpair, Use,
            Discover, Revived, SetUnpairAllOnExit, Lost, AgainAtExit
    <1> QED BY <1>2 DEF Rank, Stage

LEMMA OneFiniteWalkInvariant == Spec => []OneFiniteWalk
    <1>1. Init => OneFiniteWalk
        BY FS_EmptySet DEF Init, OneFiniteWalk
    <1>2. TypeOK /\ OneFiniteWalk /\ [Next]_vars => OneFiniteWalk'
        BY OneFiniteWalkStep
    <1> QED BY <1>1, <1>2, TypeCorrect, PTL DEF Spec

\* However many proxies there are and whatever happens to the devices, a DeInit comes nearer
\* to its end with every step it takes, and nothing else moves it (DeInit).
THEOREM WalkProgresses == Spec => [][EndComesNearer]_vars
    <1>1. TypeOK /\ OneFiniteWalk /\ [Next]_vars => [EndComesNearer]_vars
        BY StepComesNearer, NobodyTakesBack DEF EndComesNearer
    <1> QED BY <1>1, TypeCorrect, OneFiniteWalkInvariant, PTL DEF Spec

=============================================================================
