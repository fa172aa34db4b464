----------------------------- MODULE InRubyGuard -----------------------------
(***************************************************************************)
(* The guards that mark a thread as running Ruby code                      *)
(* (utils/ruby_context.hpp).  InRuby counts its guards; a guard that is    *)
(* alive refers to the InRuby of its thread or to nothing.  RubyQueue::    *)
(* loop makes one round every callback, Init_RuBLE assigns one to          *)
(* main_thread_in_ruby.                                                    *)
(***************************************************************************)
EXTENDS Integers, FiniteSets

CONSTANTS
    Guards,     \* the variables of type InRubyGuard, alive or not
    MaxUses     \* a bound on _use_count, for TLC

ASSUME GuardsAssumption == IsFiniteSet(Guards) /\ MaxUses \in Nat

VARIABLES
    guard,      \* "dead", or alive and "null" or "set" (_inRuby)
    useCount    \* _use_count

guardVars == <<guard, useCount>>

GuardInit ==
    /\ guard = [g \in Guards |-> "dead"]
    /\ useCount = 0

\* assert_in_ruby_guard: the result is constructed in place.
AssertInRubyGuard(g) ==
    /\ guard[g] = "dead" /\ useCount < MaxUses
    /\ guard' = [guard EXCEPT ![g] = "set"]
    /\ useCount' = useCount + 1

DefaultConstruct(g) ==
    /\ guard[g] = "dead"
    /\ guard' = [guard EXCEPT ![g] = "null"]
    /\ UNCHANGED useCount

Uses(state) == IF state = "set" THEN 1 ELSE 0

\* Mutant: operator= as the compiler would write it.
MoveAssignDefaulted(g, other) ==
    /\ guard[g] # "dead" /\ guard[other] # "dead" /\ useCount < MaxUses
    /\ guard' = [guard EXCEPT ![g] = guard[other]]
    /\ UNCHANGED useCount

\* operator=: the count goes up for what is taken over and down for what is given up,
\* and other lets go without counting.  No guard is moved to itself.
MoveAssign(g, other) ==
    /\ guard[g] # "dead" /\ guard[other] # "dead" /\ useCount < MaxUses
    /\ guard' = [guard EXCEPT ![g] = guard[other], ![other] = "null"]
    /\ useCount' = useCount + Uses(guard[other]) - Uses(guard[g])

\* The move constructor assigns to a guard that refers to nothing.
MoveConstruct(g, other) ==
    /\ guard[g] = "dead" /\ guard[other] # "dead" /\ useCount < MaxUses
    /\ guard' = [guard EXCEPT ![g] = guard[other], ![other] = "null"]
    /\ useCount' = useCount + Uses(guard[other])

Destroy(g) ==
    /\ guard[g] # "dead"
    /\ guard' = [guard EXCEPT ![g] = "dead"]
    /\ useCount' = useCount - Uses(guard[g])

GuardNext ==
    \/ \E g \in Guards : AssertInRubyGuard(g) \/ DefaultConstruct(g) \/ Destroy(g)
    \/ \E g, other \in Guards : g # other /\ (MoveAssign(g, other) \/ MoveConstruct(g, other))

GuardSpec == GuardInit /\ [][GuardNext]_guardVars

-----------------------------------------------------------------------------
(* Properties.                                                             *)

\* The guards that refer to the InRuby.
Held == {g \in Guards : guard[g] = "set"}

\* InRuby::state().
State == useCount > 0

\* The count is a count: it does not wrap below zero (_use_count is unsigned).
GuardTypeOK ==
    /\ guard \in [Guards -> {"dead", "null", "set"}]
    /\ useCount \in Nat

\* Every guard held is counted, whatever moves and destructions came before, so that
\* destroying some of them can neither end state() for the others nor wrap the count.
CountCoversGuards == Cardinality(Held) <= useCount

\* "similar to lock_guard: this->state() will return true as long as at least one
\* result of the assert_in_ruby_guard fn is maintained" (ruby_context.hpp:35-36):
\* when none is maintained any more, state() is false.
StateEndsWithGuards == State => Held # {}

=============================================================================
