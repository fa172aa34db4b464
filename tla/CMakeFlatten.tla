---------------------------- MODULE CMakeFlatten ----------------------------
(***************************************************************************)
(* cmake_flatten_hash (lib/ruble/build/cmake.rb): the nested settings of   *)
(* the build become cmake variables, the names of the levels joined by     *)
(* "_".  A loop takes arrays, then nested hashes, then scalars out of the  *)
(* hash until it is empty; for a nested hash the method calls itself.      *)
(*                                                                         *)
(* A hash is a function from keys to values.  A key is the sequence of the *)
(* words between its underscores, so the key "a_b" and the key "b" below   *)
(* "a" are the same <<"a", "b">>.  The order of the keys decides only      *)
(* which nested hash is flattened first; here it may be any.               *)
(***************************************************************************)
EXTENDS Naturals, Sequences, Functions

CONSTANTS
    Settings,    \* the hashes there are, nested ones included
    Nesting,     \* how deep each of them is nested
    Inputs,      \* the hashes cmake_flatten_hash is called with from outside
    MaxPasses    \* bound on the passes of one call that are followed

\* A value is an array, a hash, a scalar (a string, a number, nil, true or false) or
\* something cmake_serializable? refuses; no hash is inside itself.
ASSUME SettingsAssumption ==
    /\ Inputs \subseteq Settings /\ Nesting \in [Settings -> Nat]
    /\ \A h \in Settings :
          /\ h = [k \in DOMAIN h |-> h[k]] /\ DOMAIN h \subseteq Seq(STRING)
          /\ \A k \in DOMAIN h :
                /\ h[k].kind \in {"array", "hash", "scalar", "other"}
                /\ h[k].kind = "hash" => /\ h[k].hash \in Settings
                                         /\ Nesting[h[k].hash] < Nesting[h]

VARIABLES
    calls,    \* the calls under way, innermost last
    status    \* "looping", "done" or "raised"

cmakeFlattenVars == <<calls, status>>

Entry(k, v) == [key |-> k, value |-> v]
NoEntries == [k \in {} |-> k]
Of(h, kinds) == {k \in DOMAIN h : h[k].kind \in kinds}
Without(h, K) == Restrict(h, DOMAIN h \ K)

\* hash.merge!, final[k] = v unless final.key?(k): an old value stays.
Merge(old, new) ==
    [k \in DOMAIN old \cup DOMAIN new |-> IF k \in DOMAIN old THEN old[k] ELSE new[k]]

Prefixed(p, h) == [k \in {p \o l : l \in DOMAIN h} |-> h[CHOOSE l \in DOMAIN h : k = p \o l]]

\* One call: its argument, its variables, how often the loop went round, where it is (at
\* `until', or at the nested hashes) and the key whose hash is being flattened.
Call(h) ==
    [arg |-> h, hash |-> h, final |-> NoEntries, passes |-> 0, at |-> "until", key |-> <<>>]

CMakeFlattenInit == (\E h \in Inputs : calls = <<Call(h)>>) /\ status = "looping"

-----------------------------------------------------------------------------
(* The parts of one pass, on a call c.                                     *)

\* Arrays go to final; one whose key is there already stays in the hash.
TakeArrays(c) ==
    LET taken == Of(c.hash, {"array"}) \ DOMAIN c.final
    IN  [c EXCEPT !.hash = Without(@, taken), !.final = Merge(@, Restrict(c.hash, taken)),
                  !.passes = @ + 1, !.at = "hashes"]

TakeHash(c, k) == [c EXCEPT !.hash = Without(@, {k}), !.key = k]

\* Mutant: the keys of the nested hash are not prefixed.
MergeUnprefixed(c, flat) == [c EXCEPT !.hash = Merge(@, flat)]

\* What the nested call returned.
MergeFlat(c, flat) == [c EXCEPT !.hash = Merge(@, Prefixed(c.key, flat))]

\* Mutant: a scalar with a duplicate key stays in the hash, as an array does.
TakeScalarsUndeleted(c) ==
    LET scalars == Of(c.hash, {"scalar"})
    IN  [c EXCEPT !.hash = Without(@, scalars \ DOMAIN c.final),
                  !.final = Merge(@, Restrict(c.hash, scalars)), !.at = "until"]

\* Scalars go to final or, if their key is there already, are dropped.
TakeScalars(c) ==
    LET scalars == Of(c.hash, {"scalar"})
    IN  [c EXCEPT !.hash = Without(@, scalars),
                  !.final = Merge(@, Restrict(c.hash, scalars)), !.at = "until"]

-----------------------------------------------------------------------------
Inner == Len(calls)
Now == calls[Inner]
Looping(at) == status = "looping" /\ Now.at = at
Unrecognized == Of(Now.hash, {"other"})

Arrays ==
    /\ Looping("until") /\ Now.hash # NoEntries /\ Now.passes < MaxPasses
    /\ Unrecognized = {}
    /\ calls' = [calls EXCEPT ![Inner] = TakeArrays(@)] /\ UNCHANGED status

Raise ==
    /\ Looping("until") /\ Unrecognized # {}
    /\ status' = "raised" /\ UNCHANGED calls

Nested(k) ==
    /\ Looping("hashes") /\ k \in Of(Now.hash, {"hash"})
    /\ calls' = Append([calls EXCEPT ![Inner] = TakeHash(@, k)], Call(Now.hash[k].hash))
    /\ UNCHANGED status

Return ==
    /\ Looping("until") /\ Now.hash = NoEntries /\ Inner > 1
    /\ calls' = [i \in 1..(Inner - 1) |->
                    IF i = Inner - 1 THEN MergeFlat(calls[i], Now.final) ELSE calls[i]]
    /\ UNCHANGED status

Scalars ==
    /\ Looping("hashes") /\ Of(Now.hash, {"hash"}) = {}
    /\ calls' = [calls EXCEPT ![Inner] = TakeScalars(@)] /\ UNCHANGED status

Finish ==
    /\ Looping("until") /\ Now.hash = NoEntries /\ Inner = 1
    /\ status' = "done" /\ UNCHANGED calls

CMakeFlattenNext ==
    \/ Arrays \/ Raise \/ Scalars \/ Return \/ Finish
    \/ status = "looping" /\ \E k \in DOMAIN Now.hash : Nested(k)

CMakeFlattenSpec == CMakeFlattenInit /\ [][CMakeFlattenNext]_cmakeFlattenVars

-----------------------------------------------------------------------------
(* Properties.                                                             *)

\* What is in a hash on any level, under its joined name: settings and nested hashes.
Within[h \in Settings] ==
    {Entry(k, h[k]) : k \in DOMAIN h} \cup
    UNION {{Entry(k \o e.key, e.value) : e \in Within[h[k].hash]} : k \in Of(h, {"hash"})}

Leaves(h) == {e \in Within[h] : e.value.kind # "hash"}
Refused(h) == {e \in Leaves(h) : e.value.kind = "other"}
LeafNames(h) == {e.key : e \in Leaves(h)}
HashNames(h) == {e.key : e \in Within[h] \ Leaves(h)}

\* What a call has to return, or to raise, for the hash h.  Every setting reaches cmake under
\* its joined name, and with a value that was given for that name: a collision loses a value,
\* and loses the name only to a hash of that name.  "Ignoring new value" (:88, :108, :122): a
\* setting of the upper level is not overridden by a nested one.
Flattens(final, h) ==
    /\ LeafNames(h) \subseteq DOMAIN final \cup HashNames(h)
    /\ \A k \in DOMAIN final : Entry(k, final[k]) \in Leaves(h)
    /\ \A k \in Of(h, {"array", "scalar"}) : k \in DOMAIN final /\ final[k] = h[k]

\* cmake is told the settings (cmake.rb:73-131), or the method raises, and it raises exactly
\* if a value that cmake cannot take is somewhere in them (:94-97).
FinalIsFlattening ==
    /\ status = "done" => Flattens(calls[1].final, calls[1].arg) /\ Refused(calls[1].arg) = {}
    /\ status = "raised" => Refused(calls[1].arg) # {}

\* An array of h and one inside a nested hash have one joined name.
ArraysClash(h) ==
    \E n \in Of(h, {"hash"}) : \E e \in Leaves(h[n].hash) :
        e.value.kind = "array" /\ n \o e.key \in Of(h, {"array"})

\* Each call needs a second pass for the arrays of nested hashes, and never a third, unless
\* an array is left in the hash because its name is taken (cmake.rb:76, :86-91).
AtMostTwoPasses == \A i \in DOMAIN calls : calls[i].passes <= 2 \/ ArraysClash(calls[i].arg)

=============================================================================
