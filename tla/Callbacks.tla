------------------------------ MODULE Callbacks ------------------------------
(***************************************************************************)
(* A callback slot (containers/Callback.hpp) and the check of its argument *)
(* (utils/RubyCallbackTraits).  set() refuses a lambda that fire() could   *)
(* not call with the slot's number of arguments: an ArgumentError in a     *)
(* callback would end the process.                                         *)
(*                                                                         *)
(* A proc is the number of its parameters of each kind.  The counters of   *)
(* CallbackTraits hold Width values each.                                  *)
(***************************************************************************)
EXTENDS Integers

CONSTANTS
    ArgCount,    \* _arg_count of the slot
    Counts,      \* how many parameters of a kind a proc may have
    MaxParams,   \* bound on its positional parameters
    Width        \* the values of uint_least8_t: 256

ASSUME WidthAssumption == Width \in Nat \ {0}
ASSUME ArgCountAssumption == ArgCount \in 0..(Width - 1)
ASSUME CountsAssumption == Counts \subseteq Nat /\ MaxParams \in Nat

AllProcs == [lambda : BOOLEAN, req : Counts, opt : Counts, rest : {0, 1}, keyreq : {0, 1}]
Procs == {p \in AllProcs : p.req + p.opt <= MaxParams}
Nil == [nil |-> TRUE]
Other == [other |-> TRUE]     \* an object that is neither nil nor a proc

VARIABLES
    cb,      \* _cb
    last     \* what the last call did: its argument and its outcome

callbacksVars == <<cb, last>>

CallbacksInit == cb = Nil /\ last = [arg |-> Nil, outcome |-> "none"]

-----------------------------------------------------------------------------
(* CallbackTraits.                                                         *)

\* A counter of _map after it has been incremented n times.
Counted(n) == n % Width

\* The largest number of arguments, computed in the counter's type.
MaxArgs(p) ==
    IF Counted(p.rest) > 0 THEN Width - 1 ELSE (Counted(p.req) + Counted(p.opt)) % Width

\* Mutant: required keywords are overlooked, as in Proc#arity.
AcceptsIgnoringKeywords(p, n) ==
    p.lambda => Counted(p.req) <= n /\ n <= MaxArgs(p)

accepts_n_args(p, n) ==
    p.lambda =>
        /\ Counted(p.keyreq) = 0
        /\ Counted(p.req) <= n /\ n <= MaxArgs(p)

\* Ruby: required keywords must be given, a lambda counts its arguments, a proc does not.
Callable(p, n) ==
    /\ p.keyreq = 0
    /\ p.lambda => p.req <= n /\ (p.rest > 0 \/ n <= p.req + p.opt)

\* assert_accepts_n_args, which throws or not; nil is allowed.
assert_accepts_n_args(x) == x = Nil \/ (x \in Procs /\ accepts_n_args(x, ArgCount))

-----------------------------------------------------------------------------
(* Callback.                                                               *)

set(x) ==
    /\ cb' = IF assert_accepts_n_args(x) THEN x ELSE cb
    /\ last' = [arg |-> x, outcome |-> IF assert_accepts_n_args(x) THEN "set" ELSE "rejected"]

clear == set(Nil)

\* fire() does nothing without a proc; with one, Ruby calls it or complains.
fire ==
    /\ last' = [arg |-> cb,
                outcome |-> IF cb = Nil THEN "nothing"
                            ELSE IF Callable(cb, ArgCount) THEN "called" ELSE "ArgumentError"]
    /\ UNCHANGED cb

CallbacksNext == clear \/ fire \/ \E x \in Procs \cup {Other} : set(x)

CallbacksSpec == CallbacksInit /\ [][CallbacksNext]_callbacksVars

-----------------------------------------------------------------------------
(* Properties.                                                             *)

\* The slot holds nil or a proc, never an object that cannot be called
\* (CallbackTraits' constructor).
CallbacksTypeOK == cb \in Procs \cup {Nil} /\ last.arg \in Procs \cup {Nil, Other}

\* "Used to confirm callbacks accept the number of arguments needed for callbacks"
\* (RubyCallbackTraits.hpp:8): no lambda that has been set makes fire() raise.
AcceptedLambdaCanBeCalled == last.outcome = "ArgumentError" => ~last.arg.lambda

\* Nothing is refused that Ruby would have called (CallbackTraits::accepts_n_args,
\* "whether the lambda would accept exactly N positional args").
RejectedCannotBeCalled ==
    last.outcome = "rejected" /\ last.arg # Other => ~Callable(last.arg, ArgCount)

\* set() takes a lambda exactly when Ruby could call it with the slot's arguments.
LambdaTakenIffCallable == AcceptedLambdaCanBeCalled /\ RejectedCannotBeCalled

=============================================================================
