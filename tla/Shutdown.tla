------------------------------ MODULE Shutdown ------------------------------
(***************************************************************************)
(* DeInit (bindings/RuBLE.cpp) with the devices: RuBLE.shutdown and the    *)
(* end of the process stop the scans, unpair and disconnect every          *)
(* peripheral that has a proxy, and then stop the queue.                   *)
(*                                                                         *)
(* The walk holds the VM's lock, so no Ruby code runs during it, but the   *)
(* devices and other programs go on: what DeInit tested may have changed   *)
(* when it acts.  Every call of SimpleBLE may throw.  How the queue stops  *)
(* is the subject of RubyQueue; here it is a flag.                         *)
(***************************************************************************)
EXTENDS FiniteSets

CONSTANTS
    Adapters, Peripherals,
    AdapterOf,    \* [Peripherals -> Adapters]
    None

ASSUME AdapterOfAssumption == AdapterOf \in [Peripherals -> Adapters]
ASSUME DisjointAssumption == Adapters \cap Peripherals = {}
ASSUME NoneAssumption == None \notin Adapters \cup Peripherals \cup {"shutdown", "exit"}

VARIABLES
    known,        \* adapters and peripherals that have a proxy
    scanning,     \* adapters with an active scan
    paired, connected,
    unpair_all_on_exit,
    called,       \* the flag of DeInit
    caller,       \* of the DeInit under way: "shutdown", "exit" or None
    pc, at, left, \* where that DeInit is, at which device, with which ones to come
    cleaned,      \* it has walked the registries to their end
    revived,      \* history: put to use again by others since it began
    failed,       \* history: a DeInit has thrown
    stopping,     \* _stopping of the queue
    process       \* "running", "ended", or "aborted" by an exception

walk == <<caller, pc, at, left, cleaned, failed>>
devices == <<scanning, paired, connected>>
vars == <<known, devices, unpair_all_on_exit, called, walk, revived, stopping, process>>

Devices == Adapters \cup Peripherals
AtAdapter == {"scan_is_active", "scan_stop", "stop_scan"}
AtPeripheral == {"is_paired", "unpair", "is_connected", "disconnect"}
Walking == {"next"} \cup AtAdapter \cup AtPeripheral

Init ==
    /\ known = {} /\ scanning = {}
    /\ paired \in SUBSET Peripherals /\ connected = {}
    /\ unpair_all_on_exit = TRUE
    /\ called = FALSE /\ caller = None /\ pc = "idle" /\ at = None /\ left = {}
    /\ cleaned = FALSE /\ failed = FALSE /\ revived = {} /\ stopping = FALSE /\ process = "running"

-----------------------------------------------------------------------------
(* The program, on any Ruby thread while DeInit does not hold the lock.    *)

RubyRuns == process = "running" /\ pc \in {"idle", "wait"}

Use(what) ==
    /\ RubyRuns /\ what
    /\ UNCHANGED <<known, unpair_all_on_exit, called, walk, revived, stopping, process>>

scan_start(a) == Use(a \in known /\ scanning' = scanning \cup {a} /\ UNCHANGED <<paired, connected>>)

\* scan_stop, and scan_for, which blocks all of Ruby until its scan is over.
scan_stop(a) == Use(a \in known /\ scanning' = scanning \ {a} /\ UNCHANGED <<paired, connected>>)

connect(p) == Use(p \in known /\ connected' = connected \cup {p} /\ UNCHANGED <<scanning, paired>>)

disconnect(p) == Use(p \in known /\ connected' = connected \ {p} /\ UNCHANGED <<scanning, paired>>)

\* The system may drop the link of a peripheral it unpairs.
unpair(p) ==
    Use(/\ p \in known /\ paired' = paired \ {p}
        /\ connected' \in {connected, connected \ {p}}
        /\ UNCHANGED scanning)

\* get_adapters, scan_get_results or a callback of the scan makes a proxy.
Discover(x) ==
    /\ RubyRuns /\ (x \in Peripherals => AdapterOf[x] \in known)
    /\ known' = known \cup {x}
    /\ UNCHANGED <<devices, unpair_all_on_exit, called, walk, revived, stopping, process>>

SetUnpairAllOnExit(b) ==
    /\ RubyRuns /\ unpair_all_on_exit' = b
    /\ UNCHANGED <<known, devices, called, walk, revived, stopping, process>>

-----------------------------------------------------------------------------
(* The world: links are lost, other programs and users do what they like.  *)

Lost ==
    /\ process = "running"
    /\ \/ \E p \in connected : connected' = connected \ {p} /\ UNCHANGED <<scanning, paired>>
       \/ \E p \in paired : paired' = paired \ {p} /\ UNCHANGED <<scanning, connected>>
       \/ \E a \in scanning : scanning' = scanning \ {a} /\ UNCHANGED <<paired, connected>>
    /\ UNCHANGED <<known, unpair_all_on_exit, called, walk, revived, stopping, process>>

Revived(x) ==
    /\ process = "running"
    /\ \/ x \in Peripherals /\ connected' = connected \cup {x} /\ UNCHANGED <<scanning, paired>>
       \/ x \in Peripherals /\ paired' = paired \cup {x} /\ UNCHANGED <<scanning, connected>>
       \/ x \in Adapters /\ scanning' = scanning \cup {x} /\ UNCHANGED <<paired, connected>>
    /\ revived' = revived \cup {x}
    /\ UNCHANGED <<known, unpair_all_on_exit, called, walk, stopping, process>>

-----------------------------------------------------------------------------
(* DeInit.                                                                 *)

\* Mutant: without unpair_all_on_exit DeInit returns instead of skipping the walk.
BeginOrReturn(who) ==
    /\ RubyRuns /\ called = FALSE /\ called' = TRUE
    /\ IF unpair_all_on_exit
       THEN caller' = who /\ pc' = "next" /\ left' = known /\ UNCHANGED process
       ELSE /\ process' = IF who = "exit" THEN "ended" ELSE process
            /\ UNCHANGED <<caller, pc, left>>
    /\ at' = None /\ cleaned' = FALSE /\ revived' = {}
    /\ UNCHANGED <<known, devices, unpair_all_on_exit, failed, stopping>>

Begin(who) ==
    /\ RubyRuns /\ called = FALSE /\ called' = TRUE
    /\ caller' = who
    /\ pc' = IF unpair_all_on_exit THEN "next" ELSE "stop"
    /\ left' = IF unpair_all_on_exit THEN known ELSE {}
    /\ at' = None /\ cleaned' = FALSE /\ revived' = {}
    /\ UNCHANGED <<known, devices, unpair_all_on_exit, failed, stopping, process>>

\* test_and_set finds the flag set: shutdown returns, the end of the process goes on.
AgainAtExit ==
    /\ RubyRuns /\ called
    /\ process' = "ended"
    /\ UNCHANGED <<known, devices, unpair_all_on_exit, called, walk, revived, stopping>>

Step(from, to) == pc = from /\ pc' = to /\ UNCHANGED <<caller, cleaned, failed>>

Quiet == UNCHANGED <<known, unpair_all_on_exit, called, revived, stopping, process>>

\* Mutant: a device stays on the list when it has been visited.
VisitAgain(x) ==
    /\ Step("next", IF x \in Adapters THEN "scan_is_active" ELSE "is_paired")
    /\ x \in left
    /\ at' = x /\ UNCHANGED <<left, devices>> /\ Quiet

\* The peripherals to come whose adapter has been visited.
Due == {p \in left \cap Peripherals : AdapterOf[p] \notin left}

\* for_each: an adapter, its peripherals, then the next adapter (in any order of addresses).
Visit(x) ==
    /\ Step("next", IF x \in Adapters THEN "scan_is_active" ELSE "is_paired")
    /\ x \in (IF Due # {} THEN Due ELSE left \cap Adapters)
    /\ at' = x /\ left' = left \ {x}
    /\ UNCHANGED devices /\ Quiet

\* DeInit tests ...
ScanIsActive ==
    /\ Step("scan_is_active", IF at \in scanning THEN "scan_stop" ELSE "next")
    /\ UNCHANGED <<devices, at, left>> /\ Quiet

\* ... Adapter::scan_stop tests once more ...
ScanStop ==
    /\ Step("scan_stop", IF at \in scanning THEN "stop_scan" ELSE "next")
    /\ UNCHANGED <<devices, at, left>> /\ Quiet

\* ... and calls SimpleBLE's.
StopScan ==
    /\ Step("stop_scan", "next")
    /\ scanning' = scanning \ {at}
    /\ UNCHANGED <<paired, connected, at, left>> /\ Quiet

IsPaired ==
    /\ Step("is_paired", IF at \in paired THEN "unpair" ELSE "is_connected")
    /\ UNCHANGED <<devices, at, left>> /\ Quiet

\* Mutant: a peripheral that was paired is not disconnected (an `else if').
UnpairOnly ==
    /\ Step("unpair", "next")
    /\ paired' = paired \ {at} /\ connected' \in {connected, connected \ {at}}
    /\ UNCHANGED <<scanning, at, left>> /\ Quiet

Unpair ==
    /\ Step("unpair", "is_connected")
    /\ paired' = paired \ {at} /\ connected' \in {connected, connected \ {at}}
    /\ UNCHANGED <<scanning, at, left>> /\ Quiet

IsConnected ==
    /\ Step("is_connected", IF at \in connected THEN "disconnect" ELSE "next")
    /\ UNCHANGED <<devices, at, left>> /\ Quiet

Disconnect ==
    /\ Step("disconnect", "next")
    /\ connected' = connected \ {at}
    /\ UNCHANGED <<scanning, paired, at, left>> /\ Quiet

WalkEnds ==
    /\ pc = "next" /\ left = {} /\ pc' = "stop" /\ cleaned' = TRUE
    /\ UNCHANGED <<caller, at, left, failed, devices>> /\ Quiet

\* shutdown raises in Ruby; nothing catches an exception that leaves the end proc.
Throws ==
    /\ pc \in Walking \ {"next"}
    /\ failed' = TRUE /\ caller' = None /\ pc' = "idle" /\ at' = None /\ left' = {}
    /\ process' = IF caller = "exit" THEN "aborted" ELSE process
    /\ UNCHANGED <<known, devices, unpair_all_on_exit, called, cleaned, revived, stopping>>

\* stop_on_exit up to its wait, which gives the lock away.
StopQueue ==
    /\ Step("stop", "wait")
    /\ stopping' = TRUE
    /\ UNCHANGED <<known, devices, unpair_all_on_exit, called, at, left, revived, process>>

Return ==
    /\ pc = "wait" /\ process = "running"
    /\ pc' = "idle" /\ caller' = None
    /\ process' = IF caller = "exit" THEN "ended" ELSE process
    /\ UNCHANGED <<known, devices, unpair_all_on_exit, called, at, left, cleaned, failed, revived, stopping>>

DeInitStep ==
    \/ \E x \in Devices : Visit(x)
    \/ ScanIsActive \/ ScanStop \/ StopScan \/ IsPaired \/ Unpair \/ IsConnected \/ Disconnect
    \/ WalkEnds \/ Throws \/ StopQueue \/ Return

Next ==
    \/ \E a \in Adapters : scan_start(a) \/ scan_stop(a)
    \/ \E p \in Peripherals : connect(p) \/ disconnect(p) \/ unpair(p)
    \/ \E x \in Devices : Discover(x) \/ Revived(x)
    \/ \E b \in BOOLEAN : SetUnpairAllOnExit(b)
    \/ Lost
    \/ \E who \in {"shutdown", "exit"} : Begin(who)
    \/ AgainAtExit
    \/ DeInitStep

\* A call of SimpleBLE returns or throws, so a DeInit under way takes its next step.
Spec == Init /\ [][Next]_vars /\ WF_vars(DeInitStep)

-----------------------------------------------------------------------------
(* Properties.                                                             *)

TypeOK ==
    /\ known \subseteq Devices /\ scanning \subseteq Adapters
    /\ paired \subseteq Peripherals /\ connected \subseteq Peripherals
    /\ at \in Devices \cup {None} /\ left \subseteq known /\ revived \subseteq Devices
    /\ caller \in {"shutdown", "exit", None} /\ pc \in Walking \cup {"idle", "stop", "wait"}
    /\ pc \in AtAdapter => at \in Adapters
    /\ pc \in AtPeripheral => at \in Peripherals
    /\ {unpair_all_on_exit, called, cleaned, failed, stopping} \subseteq BOOLEAN
    /\ process \in {"running", "ended", "aborted"}

\* When DeInit has walked the registries and turns to the queue, no scan is active and no
\* peripheral that has a proxy is paired or connected, whatever links were lost between its
\* tests and its calls; only what others have put to use meanwhile may be (RuBLE.cpp:33-42).
CleanBeforeStop ==
    pc = "stop" /\ cleaned =>
        known \cap (scanning \cup paired \cup connected) \subseteq revived

\* An exit that leaves the queue to itself comes after a shutdown that threw: the flag
\* `called' alone never skips stop_on_exit (RuBLE.cpp:28, :46).
SkippedOnlyAfterFailure == process = "ended" /\ ~stopping => failed

\* DeInit gets through its walk although devices keep changing under it (for_each).
DeInitEnds == (caller # None) ~> (caller = None \/ process # "running")

=============================================================================
