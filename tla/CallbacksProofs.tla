---------------------------- MODULE CallbacksProofs ----------------------------
(***************************************************************************)
(* What a Ruby callback relies on: the check of its parameters agrees with *)
(* what Ruby does with a lambda as long as a counter can hold their number *)
(* (Callbacks); and InRuby knows that the VM's lock is held while it runs, *)
(* for any number of guards (InRubyGuard).                                 *)
(***************************************************************************)
EXTENDS Callbacks, InRubyGuard, FiniteSetTheorems, TLAPS

\* No proc has more parameters than a counter of CallbackTraits can hold.
CountersSuffice == 1 < Width /\ MaxParams < Width

\* What has been set was accepted, and what has been refused was not.
Checked ==
    /\ cb # Nil => accepts_n_args(cb, ArgCount)
    /\ last.outcome = "ArgumentError" =>
           last.arg \in Procs /\ accepts_n_args(last.arg, ArgCount) /\ ~Callable(last.arg, ArgCount)
    /\ last.outcome = "rejected" =>
           last.arg # Nil /\ (last.arg = Other \/ ~accepts_n_args(last.arg, ArgCount))

CallbackInv == CallbacksTypeOK /\ Checked

-----------------------------------------------------------------------------

LEMMA ModuloSmall ==
    ASSUME NEW w \in Nat, NEW n \in Nat, n < w
    PROVE  n % w = n
    BY SMT

LEMMA ProcType ==
    ASSUME NEW p \in Procs
    PROVE  /\ p.lambda \in BOOLEAN /\ p.req \in Nat /\ p.opt \in Nat
           /\ p.rest \in {0, 1} /\ p.keyreq \in {0, 1}
           /\ p.req + p.opt <= MaxParams
    BY CountsAssumption DEF Procs, AllProcs

\* While the counters suffice, a lambda is accepted exactly when Ruby can call it,
\* and any other proc that Ruby can call is accepted.
LEMMA AcceptsAgrees ==
    ASSUME CountersSuffice, NEW p \in Procs
    PROVE  /\ p.lambda => (accepts_n_args(p, ArgCount) <=> Callable(p, ArgCount))
           /\ ~p.lambda => accepts_n_args(p, ArgCount)
    <1> DEFINE req == p.req  opt == p.opt
    <1>1. /\ Counted(req) = req /\ Counted(opt) = opt /\ (req + opt) % Width = req + opt
          /\ Counted(p.rest) = p.rest /\ Counted(p.keyreq) = p.keyreq
        <2>1. Width \in Nat
            BY WidthAssumption
        <2>2. /\ req \in Nat /\ req < Width /\ opt \in Nat /\ opt < Width
              /\ req + opt \in Nat /\ req + opt < Width
            BY <2>1, ProcType, CountsAssumption DEF CountersSuffice
        <2>3. /\ p.rest \in Nat /\ p.rest < Width /\ p.keyreq \in Nat /\ p.keyreq < Width
            BY <2>1, ProcType DEF CountersSuffice
        <2>4. \A n \in Nat : n < Width => n % Width = n
            BY <2>1, ModuloSmall
        <2> HIDE DEF req, opt
        <2> QED BY <2>2, <2>3, <2>4 DEF Counted
    <1>2. MaxArgs(p) = IF p.rest > 0 THEN Width - 1 ELSE req + opt
        BY <1>1 DEF MaxArgs
    <1>3. ArgCount <= Width - 1 /\ ArgCount \in Nat
        BY ArgCountAssumption, WidthAssumption
    <1> QED BY <1>1, <1>2, <1>3, ProcType, WidthAssumption DEF accepts_n_args, Callable

LEMMA CallbackInit == CallbacksInit => CallbackInv
    BY DEF CallbacksInit, CallbackInv, CallbacksTypeOK, Checked

\* What set() does with any argument.
LEMMA SetStep ==
    ASSUME CallbackInv, NEW x \in Procs \cup {Nil, Other}, set(x)
    PROVE  CallbackInv'
    <1>1. last'.arg = x /\ last'.outcome \in {"set", "rejected"}
        BY DEF set
    <1>2. CASE assert_accepts_n_args(x)
        <2>1. cb' = x /\ last'.outcome = "set"
            BY <1>2 DEF set
        <2> QED BY <1>1, <1>2, <2>1 DEF CallbackInv, CallbacksTypeOK, Checked, assert_accepts_n_args
    <1>3. CASE ~assert_accepts_n_args(x)
        <2>1. cb' = cb /\ last'.outcome = "rejected" /\ x # Nil
            BY <1>3 DEF set, assert_accepts_n_args
        <2> QED BY <1>1, <1>3, <2>1 DEF CallbackInv, CallbacksTypeOK, Checked, assert_accepts_n_args
    <1> QED BY <1>2, <1>3

LEMMA CallbackStep ==
    ASSUME CallbackInv, [CallbacksNext]_callbacksVars
    PROVE  CallbackInv'
    <1>1. CASE clear
        BY <1>1, SetStep DEF clear
    <1>2. CASE fire
        <2>1. cb' = cb /\ last'.arg = cb /\ last'.outcome \in {"nothing", "called", "ArgumentError"}
            BY <1>2 DEF fire
        <2>2. last'.outcome = "ArgumentError" => cb # Nil /\ ~Callable(cb, ArgCount)
            BY <1>2 DEF fire
        <2> QED BY <2>1, <2>2 DEF CallbackInv, CallbacksTypeOK, Checked
    <1>3. ASSUME NEW x \in Procs \cup {Other}, set(x)
          PROVE  CallbackInv'
        BY <1>3, SetStep
    <1>4. CASE UNCHANGED callbacksVars
        BY <1>4 DEF callbacksVars, CallbackInv, CallbacksTypeOK, Checked
    <1> QED BY <1>1, <1>2, <1>3, <1>4 DEF CallbacksNext

LEMMA CallbackInvariant == CallbacksSpec => []CallbackInv
    <1>1. CallbackInv /\ [CallbacksNext]_callbacksVars => CallbackInv'
        BY CallbackStep
    <1> QED BY <1>1, CallbackInit, PTL DEF CallbacksSpec

\* A slot holds nil or a proc, whatever set() is called with (Callback::set).
THEOREM TypeCorrect == CallbacksSpec => []CallbacksTypeOK
    BY CallbackInvariant, PTL DEF CallbackInv

\* fire() never makes Ruby complain about a lambda that has been set
\* (CallbackTraits::accepts_n_args).
THEOREM LambdasCanBeCalled ==
    ASSUME CountersSuffice
    PROVE  CallbacksSpec => []AcceptedLambdaCanBeCalled
    <1>1. CallbackInv => AcceptedLambdaCanBeCalled
        BY AcceptsAgrees DEF CallbackInv, Checked, AcceptedLambdaCanBeCalled
    <1> QED BY <1>1, CallbackInvariant, PTL

\* set() refuses nothing that Ruby would call, for any number of arguments
\* (CallbackTraits::accepts_n_args).
THEOREM RejectionsRight ==
    ASSUME CountersSuffice
    PROVE  CallbacksSpec => []RejectedCannotBeCalled
    <1>1. CallbackInv => RejectedCannotBeCalled
        <2> SUFFICES ASSUME CallbackInv, last.outcome = "rejected", last.arg # Other
                     PROVE  ~Callable(last.arg, ArgCount)
            BY DEF RejectedCannotBeCalled
        <2>1. ~accepts_n_args(last.arg, ArgCount)
            BY DEF CallbackInv, Checked
        <2>2. last.arg # Nil
            BY DEF CallbackInv, Checked
        <2>3. last.arg \in Procs
            BY <2>2 DEF CallbackInv, CallbacksTypeOK
        <2> QED BY <2>1, <2>3, AcceptsAgrees DEF Callable
    <1> QED BY <1>1, CallbackInvariant, PTL

\* The check of a callback's argument agrees with Ruby, for any number of arguments and any
\* width of the counters that they fit (CallbackTraits::accepts_n_args).
THEOREM CheckAgrees ==
    ASSUME CountersSuffice
    PROVE  CallbacksSpec => []LambdaTakenIffCallable
    <1>1. AcceptedLambdaCanBeCalled /\ RejectedCannotBeCalled => LambdaTakenIffCallable
        BY DEF LambdaTakenIffCallable
    <1> QED BY <1>1, LambdasCanBeCalled, RejectionsRight, PTL


-----------------------------------------------------------------------------
(* The guards.  GuardTypeOK says that the count does not go below zero,    *)
(* CountCoversGuards says why.                                             *)

CountInv == GuardTypeOK /\ CountCoversGuards

\* The set of guards held is finite.
LEMMA HeldFinite == IsFiniteSet(Held) /\ Cardinality(Held) \in Nat
    <1>1. Held \subseteq Guards
        BY DEF Held
    <1> QED BY <1>1, GuardsAssumption, FS_Subset, FS_CardinalityType

\* Holding one guard more, or one less, changes their number by one.
LEMMA HeldMore ==
    ASSUME NEW g, g \notin Held, Held' = Held \cup {g}
    PROVE  Cardinality(Held') = Cardinality(Held) + 1
    BY HeldFinite, FS_AddElement

LEMMA HeldLess ==
    ASSUME NEW g, g \in Held, Held' = Held \ {g}
    PROVE  Cardinality(Held') = Cardinality(Held) - 1 /\ Cardinality(Held) >= 1
    <1>1. Cardinality(Held') = Cardinality(Held) - 1
        BY HeldFinite, FS_RemoveElement
    <1>2. Cardinality(Held) # 0
        BY HeldFinite, FS_EmptySet
    <1> QED BY <1>1, <1>2, HeldFinite

\* Passing the reference from one guard to another does not.
LEMMA HeldPassed ==
    ASSUME NEW g, NEW other, g \notin Held, other \in Held, Held' = (Held \ {other}) \cup {g}
    PROVE  Cardinality(Held') = Cardinality(Held)
    <1> DEFINE rest == Held \ {other}
    <1>1. IsFiniteSet(rest) /\ Cardinality(rest) = Cardinality(Held) - 1
        BY HeldFinite, FS_RemoveElement
    <1>2. Cardinality(rest \cup {g}) = Cardinality(rest) + 1
        BY <1>1, FS_AddElement
    <1> QED BY <1>1, <1>2, HeldFinite

\* What a move to a guard that refers to nothing does.
LEMMA MoveToNull ==
    ASSUME CountInv, NEW g \in Guards, NEW other \in Guards, g # other, guard[g] # "set",
           guard' = [guard EXCEPT ![g] = guard[other], ![other] = "null"],
           useCount' = useCount + Uses(guard[other])
    PROVE  CountInv'
    <1>1. guard' \in [Guards -> {"dead", "null", "set"}]
        BY DEF CountInv, GuardTypeOK
    <1>2. useCount' \in Nat
        BY DEF CountInv, GuardTypeOK, Uses
    <1>3. CASE guard[other] = "set"
        <2>1. g \notin Held /\ other \in Held /\ Held' = (Held \ {other}) \cup {g}
            BY <1>3 DEF Held, CountInv, GuardTypeOK
        <2>2. Cardinality(Held') = Cardinality(Held)
            BY <2>1, HeldPassed
        <2> QED BY <1>1, <1>2, <1>3, <2>2, HeldFinite DEF CountInv, GuardTypeOK, CountCoversGuards, Uses
    <1>4. CASE guard[other] # "set"
        <2>1. Held' = Held
            BY <1>4 DEF Held, CountInv, GuardTypeOK
        <2> QED BY <1>1, <1>2, <1>4, <2>1 DEF CountInv, GuardTypeOK, CountCoversGuards, Uses
    <1> QED BY <1>3, <1>4

\* A guard lets go of its reference: useCount follows.
LEMMA LetGo ==
    ASSUME CountInv, NEW g \in Guards, NEW to \in {"dead", "null"},
           guard' = [guard EXCEPT ![g] = to], useCount' = useCount - Uses(guard[g])
    PROVE  CountInv'
    <1>1. guard' \in [Guards -> {"dead", "null", "set"}]
        BY DEF CountInv, GuardTypeOK
    <1>2. CASE guard[g] = "set"
        <2>1. g \in Held /\ Held' = Held \ {g}
            BY <1>2 DEF Held, CountInv, GuardTypeOK
        <2>2. Cardinality(Held') = Cardinality(Held) - 1 /\ Cardinality(Held) >= 1
            BY <2>1, HeldLess
        <2> QED BY <1>1, <1>2, <2>2, HeldFinite DEF CountInv, GuardTypeOK, CountCoversGuards, Uses
    <1>3. CASE guard[g] # "set"
        <2>1. Held' = Held
            BY <1>3 DEF Held, CountInv, GuardTypeOK
        <2> QED BY <1>1, <1>3, <2>1 DEF CountInv, GuardTypeOK, CountCoversGuards, Uses
    <1> QED BY <1>2, <1>3

\* No operation on guards breaks the invariant.
LEMMA CountStep ==
    ASSUME CountInv, [GuardNext]_guardVars
    PROVE  CountInv'
    <1>1. ASSUME NEW g \in Guards, AssertInRubyGuard(g)
          PROVE  CountInv'
        <2>1. g \notin Held /\ Held' = Held \cup {g}
            BY <1>1 DEF AssertInRubyGuard, Held, CountInv, GuardTypeOK
        <2>2. Cardinality(Held') = Cardinality(Held) + 1
            BY <2>1, HeldMore
        <2> QED
            BY <1>1, <2>2, HeldFinite DEF AssertInRubyGuard, CountInv, GuardTypeOK, CountCoversGuards
    <1>2. ASSUME NEW g \in Guards, DefaultConstruct(g)
          PROVE  CountInv'
        <2>1. guard' = [guard EXCEPT ![g] = "null"] /\ useCount' = useCount - Uses(guard[g])
            BY <1>2 DEF DefaultConstruct, Uses, CountInv, GuardTypeOK
        <2> QED BY <2>1, LetGo
    <1>3. ASSUME NEW g \in Guards, Destroy(g)
          PROVE  CountInv'
        BY <1>3, LetGo DEF Destroy
    <1>4. ASSUME NEW g \in Guards, NEW other \in Guards, g # other, MoveConstruct(g, other)
          PROVE  CountInv'
        BY <1>4, MoveToNull DEF MoveConstruct
    <1>5. ASSUME NEW g \in Guards, NEW other \in Guards, g # other, MoveAssign(g, other)
          PROVE  CountInv'
        <2>1. CASE guard[g] # "set"
            <3>1. useCount' = useCount + Uses(guard[other])
                BY <1>5, <2>1 DEF MoveAssign, Uses, CountInv, GuardTypeOK
            <3> QED BY <1>5, <2>1, <3>1, MoveToNull DEF MoveAssign
        <2>2. CASE guard[g] = "set" /\ guard[other] = "set"
            <3>1. guard' = [guard EXCEPT ![other] = "null"]
                BY <1>5, <2>2 DEF MoveAssign, CountInv, GuardTypeOK
            <3>2. useCount' = useCount
                BY <1>5, <2>2 DEF MoveAssign, Uses, CountInv, GuardTypeOK
            <3>3. other \in Held /\ Held' = Held \ {other}
                BY <2>2, <3>1 DEF Held, CountInv, GuardTypeOK
            <3>4. Cardinality(Held') = Cardinality(Held) - 1
                BY <3>3, HeldLess
            <3> QED BY <3>1, <3>2, <3>4, HeldFinite DEF CountInv, GuardTypeOK, CountCoversGuards
        <2>3. CASE guard[g] = "set" /\ guard[other] # "set"
            <3>1. guard[other] = "null"
                BY <1>5, <2>3 DEF MoveAssign, CountInv, GuardTypeOK
            <3>2. guard' = [guard EXCEPT ![g] = "null"]
                BY <1>5, <2>3, <3>1 DEF MoveAssign, CountInv, GuardTypeOK
            <3>3. useCount' = useCount - Uses(guard[g])
                BY <1>5, <2>3 DEF MoveAssign, Uses, CountInv, GuardTypeOK
            <3> QED BY <3>2, <3>3, LetGo
        <2> QED BY <2>1, <2>2, <2>3
    <1>6. CASE UNCHANGED guardVars
        BY <1>6 DEF guardVars, CountInv, GuardTypeOK, CountCoversGuards, Held
    <1> QED BY <1>1, <1>2, <1>3, <1>4, <1>5, <1>6 DEF GuardNext

\* The invariant holds in every state.
LEMMA CountInvariant == GuardSpec => []CountInv
    <1>1. GuardInit => CountInv
        <2> SUFFICES ASSUME GuardInit
                     PROVE  CountInv
            OBVIOUS
        <2>1. Held = {}
            BY DEF GuardInit, Held
        <2>2. Cardinality(Held) = 0
            BY <2>1, FS_EmptySet
        <2> QED BY <2>2 DEF GuardInit, CountInv, GuardTypeOK, CountCoversGuards
    <1>2. CountInv /\ [GuardNext]_guardVars => CountInv'
        BY CountStep
    <1> QED BY <1>1, <1>2, PTL DEF GuardSpec

\* The count does not go below zero, however guards are moved, assigned and destroyed
\* (InRubyGuard's constructors, operator=, destructor).
THEOREM GuardTypeCorrect == GuardSpec => []GuardTypeOK
    BY CountInvariant, PTL DEF CountInv

\* Every guard held is counted: state() is true while one is alive (InRuby::state).
THEOREM CountSound == GuardSpec => []CountCoversGuards
    BY CountInvariant, PTL DEF CountInv


=============================================================================
