------------------------------ MODULE NamedBits ------------------------------
(***************************************************************************)
(* NamedBitSet (containers/NamedBitSet) and its two users: the status of a *)
(* peripheral, asked flag by flag while the device goes on changing, and   *)
(* the capabilities of a characteristic, asked once and kept.              *)
(***************************************************************************)
EXTENDS Naturals, Sequences, SequencesExt

CONSTANTS
    Fields,      \* FIELD_NAMES of the set
    Testers,     \* names in the map of testers
    Listings,    \* sequences of names SimpleBLE may list as capabilities
    None

ASSUME FieldsAssumption == Fields \in Seq(ToSet(Fields)) /\ IsInjective(Fields)
ASSUME TestersAssumption == \A names \in SUBSET Testers : names # None

VARIABLES
    status,      \* the flags that are true of the device now
    bits,        \* _bits of the set under construction: the indices set
    todo,        \* testers not yet asked; None when no call is under way
    caps,        \* _capabilities: None or the indices set
    answer,      \* names returned last, or None after an exception
    sawTrue, sawFalse,   \* history: flags that were so at some time of the call
    listed       \* history: the names of the listing that was kept

statusCall == <<bits, todo, sawTrue, sawFalse>>
namedBitsVars == <<status, statusCall, caps, answer, listed>>

Names == ToSet(Fields)

NamedBitsInit ==
    /\ status \in SUBSET Testers
    /\ bits = {} /\ todo = None /\ caps = None /\ answer = None
    /\ sawTrue = {} /\ sawFalse = {} /\ listed = None

-----------------------------------------------------------------------------

\* The first field of that name; a name that is not a field makes it throw.
index_of(name) == CHOOSE i \in DOMAIN Fields : Fields[i] = name

\* The names of the bits that are set; their order is left out.
flag_names(b) == {name \in Names : index_of(name) \in b}

\* Assigning to nbs[name] sets or clears a bit.
Assigned(b, name, value) == IF value THEN b \cup {index_of(name)} ELSE b \ {index_of(name)}

\* The device gains or loses a flag; what holds is noted while a call asks.
Changes(s) ==
    /\ status' = s
    /\ sawTrue' = sawTrue \cup s /\ sawFalse' = sawFalse \cup (Testers \ s)
    /\ UNCHANGED <<bits, todo, caps, answer, listed>>

(* Peripheral::statuses *)

StatusBegin ==
    /\ todo = None
    /\ todo' = Testers /\ bits' = {}
    /\ sawTrue' = status /\ sawFalse' = Testers \ status
    /\ UNCHANGED <<status, caps, answer, listed>>

\* Mutant: the bit is set wherever the flag has been asked.
TestAlwaysSets(name) ==
    /\ todo # None /\ name \in todo /\ name \in Names
    /\ bits' = bits \cup {index_of(name)} /\ todo' = todo \ {name}
    /\ UNCHANGED <<status, caps, answer, sawTrue, sawFalse, listed>>

\* The map has no order: the testers are asked one by one, in any.
Test(name) ==
    /\ todo # None /\ name \in todo /\ name \in Names
    /\ bits' = Assigned(bits, name, name \in status) /\ todo' = todo \ {name}
    /\ UNCHANGED <<status, caps, answer, sawTrue, sawFalse, listed>>

\* SimpleBLE throws from a tester: the set is given up.
TestThrows ==
    /\ todo \notin {None, {}}
    /\ todo' = None /\ answer' = None
    /\ UNCHANGED <<status, bits, caps, sawTrue, sawFalse, listed>>

StatusEnd ==
    /\ todo = {}
    /\ todo' = None /\ answer' = <<"statuses", flag_names(bits)>>
    /\ UNCHANGED <<status, bits, caps, sawTrue, sawFalse, listed>>

(* Characteristic::capabilities *)

CapabilitiesThrow(names) ==
    /\ todo = None /\ caps = None /\ ~(ToSet(names) \subseteq Names)
    /\ answer' = None
    /\ UNCHANGED <<status, statusCall, caps, listed>>

\* Mutant: what was asked before is not looked at.
CapabilitiesAskAgain(names) ==
    /\ todo = None /\ ToSet(names) \subseteq Names
    /\ caps' = {index_of(names[i]) : i \in DOMAIN names}
    /\ listed' = IF listed = None THEN ToSet(names) ELSE listed
    /\ answer' = <<"capabilities", flag_names(caps')>>
    /\ UNCHANGED <<status, statusCall>>

Capabilities(names) ==
    /\ todo = None
    /\ IF caps = None
       THEN /\ ToSet(names) \subseteq Names
            /\ caps' = {index_of(names[i]) : i \in DOMAIN names} /\ listed' = ToSet(names)
       ELSE UNCHANGED <<caps, listed>>
    /\ answer' = <<"capabilities", flag_names(caps')>>
    /\ UNCHANGED <<status, statusCall>>

NamedBitsNext ==
    \/ \E s \in SUBSET Testers : Changes(s)
    \/ StatusBegin \/ (\E name \in Testers : Test(name)) \/ TestThrows \/ StatusEnd
    \/ \E names \in Listings : CapabilitiesThrow(names) \/ Capabilities(names)

NamedBitsSpec == NamedBitsInit /\ [][NamedBitsNext]_namedBitsVars

-----------------------------------------------------------------------------
(* Properties.                                                             *)

\* Each flag that statuses reports was true at some time during the call, each one it leaves
\* out was false at some time; they need not have been so together (Peripheral.cpp:56-69).
FlagsWitnessed ==
    [][StatusEnd => LET told == answer'[2]
                    IN  told \subseteq sawTrue /\ Testers \ told \subseteq sawFalse]_namedBitsVars

\* The capabilities told are those of the first listing that could be read, for as long as the
\* characteristic lives (Characteristic.hpp:116-120).
FirstListingKept == answer # None /\ answer[1] = "capabilities" => answer[2] = listed

=============================================================================
