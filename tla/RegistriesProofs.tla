-------------------------- MODULE RegistriesProofs --------------------------
(***************************************************************************)
(* Proofs about the registries, for every tree of resources.  What the     *)
(* program gets is right where each owner's registry has an index of its   *)
(* own (KeysUnique); what keeps the registries whole does not need that.   *)
(***************************************************************************)
EXTENDS Registries, TLAPS

\* The levels of a resource and of what it belongs to; keys and hashes.
LEMMA LevelFacts ==
    ASSUME NEW r \in Resources
    PROVE  /\ r \in Things /\ Parent[r] \in Things
           /\ Level[r] \in 1..4
           /\ Level[r] = Level[Parent[r]] + 1
           /\ Level[Parent[r]] \in 0..3
           /\ Key[r] \in Keys
    BY ResourcesAssumption DEF Things, Keys

\* The registries of owners have an index in RegIds.
LEMMA IndexType ==
    ASSUME NEW r \in Things, Level[r] < 4
    PROVE  Index(r) \in RegIds
    BY ResourcesAssumption DEF Index, RegIds, Hashes, Keys

\* The adapters' registry has an index.
LEMMA AdapterRegistryType == AdapterRegistry \in RegIds
    BY IndexType, ResourcesAssumption DEF Things, AdapterRegistry

\* Where keys are unique, the index of a registry belongs to one resource.
LEMMA IndexUnique ==
    ASSUME KeysUnique, NEW r \in Things, NEW s \in Things, Index(r) = Index(s), Level[r] < 4
    PROVE  r = s
    <1>1. Level[r] = Level[s] /\ Hash[Key[r]] = Hash[Key[s]]
        BY DEF Index
    <1>2. CASE r \in Resources /\ s \in Resources
        BY <1>1, <1>2 DEF KeysUnique
    <1>3. CASE r = Host \/ s = Host
        <2>1. \A t \in Things : Level[t] = 0 => t = Host
            BY LevelFacts DEF Things
        <2> QED BY <1>1, <1>3, <2>1, ResourcesAssumption DEF Things
    <1> QED BY <1>2, <1>3 DEF Things

\* Two children of a resource with the same key are one.
LEMMA SiblingUnique ==
    ASSUME KeysUnique, NEW r \in Resources, NEW s \in Resources,
           Parent[r] = Parent[s], Key[r] = Key[s]
    PROVE  r = s
    BY DEF KeysUnique

\* What appending an element to a sequence does.
LEMMA AppendFacts ==
    ASSUME NEW S, NEW s \in Seq(S), NEW e \in S
    PROVE  /\ Append(s, e) \in Seq(S)
           /\ Len(Append(s, e)) = Len(s) + 1
           /\ \A i \in 1..Len(s) : Append(s, e)[i] = s[i]
           /\ Append(s, e)[Len(s) + 1] = e
           /\ Len(s) \in Nat
    OBVIOUS

-----------------------------------------------------------------------------
(* The inductive invariants: what holds of any keys, and what needs         *)
(* KeysUnique as well.                                                     *)

\* A registry is at the index of its owner, the adapters' one without an owner.
OwnersIndexed ==
    /\ owner[AdapterRegistry] = 0
    /\ \A id \in RegIds : owner[id] # Absent => RegistryOf(owner[id]) = id

\* A proxy has got a registry from its constructor.
RegistriesMade ==
    \A p \in Proxies : Level[objs[p].res] < 4 => owner[RegistryOf(p)] # Absent

\* A proxy's owner is one level up, whichever it is.
LevelsAscend ==
    \A p \in Proxies : Level[objs[p].res] = Level[ResourceOf(objs[p].up)] + 1

\* A registered proxy is under its own key in the registry of its owner.
ItemsIndexed ==
    \A id \in RegIds, k \in Keys :
        items[id][k] # 0 =>
            /\ Key[objs[items[id][k]].res] = k
            /\ RegistryOf(objs[items[id][k]].up) = id

\* Every proxy is registered with its owner, but the one that is being made.
AllRegistered ==
    \A p \in Proxies \ {Making} : At(objs[p].up, Key[objs[p].res]) = p

\* What a call has listed are children, and those it is done with are registered.
CallSane ==
    call # NoCall =>
        /\ Level[ResourceOf(call.on)] < 4
        /\ call.asked \subseteq Children(call.on)
        /\ call.todo \subseteq call.asked
        /\ \A r \in call.asked \ call.todo : ~Missing(r)

\* The proxy that is being made is the last one, and its place in the registry is empty.
MakingSane ==
    Making # 0 =>
        /\ Making = Len(objs) /\ ~call.raised
        /\ objs[Making].res \in call.todo /\ Missing(objs[Making].res)
        /\ objs[Making].up = owner[RegistryOf(call.on)]

SharedInv ==
    /\ TypeOK /\ OwnersIndexed /\ RegistriesMade /\ LevelsAscend
    /\ ItemsIndexed /\ AllRegistered /\ CallSane /\ MakingSane

RegInv == SharedInv /\ OwnRegistry /\ Routed /\ OneProxyEach

\* The elements of a sequence.
LEMMA ElementFacts ==
    ASSUME NEW S, NEW s \in Seq(S)
    PROVE  Len(s) \in Nat /\ \A i \in 1..Len(s) : s[i] \in S
    OBVIOUS

\* The fields of the proxies.
LEMMA ObjFacts ==
    ASSUME TypeOK
    PROVE  /\ Len(objs) \in Nat
           /\ \A p \in Proxies : /\ objs[p].res \in Resources
                                 /\ objs[p].up \in 0..Len(objs)
                                 /\ objs[p].up # p
    <1>1. /\ objs \in Seq([res : Resources, up : Nat])
          /\ \A p \in Proxies : objs[p].up < p
        BY DEF TypeOK
    <1>2. Len(objs) \in Nat /\ \A p \in Proxies : objs[p] \in [res : Resources, up : Nat]
        BY <1>1, ElementFacts DEF Proxies
    <1> QED BY <1>1, <1>2 DEF Proxies

\* The resource of a proxy.
LEMMA ResourceType ==
    ASSUME TypeOK, NEW p \in 0..Len(objs)
    PROVE  ResourceOf(p) \in Things
    BY ObjFacts DEF ResourceOf, Things, Proxies

\* The registry of a proxy that can have children exists, and what owns it is a proxy of the
\* same level whose registry it is.
LEMMA RegistryThere ==
    ASSUME SharedInv, NEW p \in 0..Len(objs), Level[ResourceOf(p)] < 4
    PROVE  /\ RegistryOf(p) \in RegIds
           /\ owner[RegistryOf(p)] \in 0..Len(objs)
           /\ RegistryOf(owner[RegistryOf(p)]) = RegistryOf(p)
           /\ Level[ResourceOf(owner[RegistryOf(p)])] = Level[ResourceOf(p)]
    <1>1. RegistryOf(p) \in RegIds
        BY ResourceType, IndexType DEF SharedInv, RegistryOf
    <1>2. owner[RegistryOf(p)] # Absent
        <2>1. CASE p = 0
            BY <2>1 DEF SharedInv, OwnersIndexed, RegistryOf, ResourceOf, AdapterRegistry, Absent
        <2>2. CASE p # 0
            BY <2>2, ObjFacts DEF SharedInv, RegistriesMade, Proxies, ResourceOf
        <2> QED BY <2>1, <2>2
    <1>3. owner[RegistryOf(p)] \in 0..Len(objs) /\ RegistryOf(owner[RegistryOf(p)]) = RegistryOf(p)
        BY <1>1, <1>2 DEF SharedInv, TypeOK, OwnersIndexed
    <1>4. Level[ResourceOf(owner[RegistryOf(p)])] = Level[ResourceOf(p)]
        BY <1>3 DEF RegistryOf, Index
    <1> QED BY <1>1, <1>3, <1>4

-----------------------------------------------------------------------------
(* What holds of any keys, registries that are shared included.            *)

LEMMA SharedInit ==
    ASSUME Init
    PROVE  SharedInv
    <1> USE DEF Init, EmptyRegistry
    <1>1. Len(objs) = 0 /\ Proxies = {}
        BY DEF Proxies
    <1>2. objs \in Seq([res : Resources, up : Nat])
        OBVIOUS
    <1>3. owner \in [RegIds -> 0..Len(objs) \cup {Absent}]
        BY <1>1 DEF Absent
    <1>4. items \in [RegIds -> [Keys -> 0..Len(objs)]]
        BY <1>1
    <1>5. TypeOK
        BY <1>1, <1>2, <1>3, <1>4 DEF TypeOK
    <1>6. OwnersIndexed
        BY AdapterRegistryType DEF OwnersIndexed, RegistryOf, ResourceOf, AdapterRegistry, Absent
    <1>7. ItemsIndexed /\ CallSane
        BY DEF ItemsIndexed, CallSane
    <1> QED
        BY <1>1, <1>5, <1>6, <1>7
        DEF SharedInv, RegistriesMade, LevelsAscend, AllRegistered, MakingSane, Making

\* Beginning, ending and interrupting a call leaves proxies and registries alone.
LEMMA CallStep ==
    ASSUME SharedInv, UNCHANGED <<objs, owner, items>>,
           call' \in CallType \cup {NoCall}, CallSane', Making = 0, Making' = 0
    PROVE  SharedInv'
    <1>1. TypeOK'
        BY DEF SharedInv, TypeOK, CallType, Proxies
    <1> QED
        BY <1>1 DEF SharedInv, OwnersIndexed, RegistriesMade, LevelsAscend, ItemsIndexed,
            AllRegistered, MakingSane, RegistryOf, ResourceOf, At, Proxies

\* A call begins on a proxy that has children of its own.
LEMMA BeginStep ==
    ASSUME SharedInv, NEW op \in Listings \cup Lookups, NEW p \in 0..Len(objs), NEW k \in Keys,
           NEW listed \in SUBSET Children(p),
           Level[ResourceOf(p)] < 4, Begin(op, p, k, listed)
    PROVE  SharedInv'
    <1>1. call' = [op |-> op, on |-> p, key |-> k, asked |-> listed, todo |-> listed,
                   cached |-> op \in Lookups /\ At(p, k) # 0, made |-> 0, raised |-> FALSE]
        BY DEF Begin
    <1>2. listed \subseteq Resources
        BY DEF Children
    <1>3. call' \in CallType /\ Making = 0 /\ Making' = 0
        <2>1. Len(objs) \in Nat
            BY ObjFacts DEF SharedInv
        <2>2. call' \in CallType /\ call'.made = 0
            BY <1>1, <1>2, <2>1 DEF CallType
        <2> QED BY <2>2 DEF Making, Begin
    <1>4. ResourceOf(p)' = ResourceOf(p) /\ Children(p)' = Children(p)
        BY DEF Begin, ResourceOf, Children
    <1>5. CallSane'
        BY <1>1, <1>4 DEF CallSane
    <1> QED BY <1>3, <1>5, CallStep DEF Begin

\* fetch returns what it found.
LEMMA FoundStep ==
    ASSUME SharedInv, NEW r \in Resources, FetchFound(r)
    PROVE  SharedInv'
    <1>1. /\ call # NoCall /\ call \in CallType
          /\ call' = [call EXCEPT !.todo = @ \ {r}]
          /\ UNCHANGED <<objs, owner, items>>
        BY DEF FetchFound, Fetching, Fetched, SharedInv, TypeOK
    <1>2. /\ call' \in CallType /\ call'.on = call.on /\ call'.asked = call.asked
          /\ call'.todo = call.todo \ {r} /\ call'.made = call.made
        BY <1>1 DEF CallType
    <1>4. Making = 0 /\ Making' = 0
        BY <1>1, <1>2 DEF FetchFound, Fetching, Making
    <1>3. CallSane'
        <2>1. ResourceOf(call.on)' = ResourceOf(call.on) /\ Children(call.on)' = Children(call.on)
            BY <1>1, <1>2 DEF ResourceOf, Children
        <2>2. \A s : Missing(s)' <=> Missing(s)
            BY <1>1, <1>2 DEF Missing, At, RegistryOf, ResourceOf
        <2> QED BY <1>1, <1>2, <2>1, <2>2 DEF SharedInv, CallSane, FetchFound
    <1> QED BY <1>1, <1>2, <1>3, <1>4, CallStep

\* A call that fails.
LEMMA RaiseStep ==
    ASSUME SharedInv, call # NoCall, call' = [call EXCEPT !.raised = TRUE], Making = 0,
           UNCHANGED <<objs, owner, items>>
    PROVE  SharedInv'
    <1>1. call \in CallType
        BY DEF SharedInv, TypeOK
    <1>2. /\ call' \in CallType /\ call'.on = call.on /\ call'.asked = call.asked
          /\ call'.todo = call.todo /\ call'.made = call.made
        BY <1>1 DEF CallType
    <1>4. Making' = 0
        BY <1>2 DEF Making
    <1>3. CallSane'
        <2>1. ResourceOf(call.on)' = ResourceOf(call.on) /\ Children(call.on)' = Children(call.on)
            BY <1>1, <1>2 DEF ResourceOf, Children
        <2>2. \A s : Missing(s)' <=> Missing(s)
            BY <1>1, <1>2 DEF Missing, At, RegistryOf, ResourceOf
        <2> QED BY <1>1, <1>2, <2>1, <2>2 DEF SharedInv, CallSane
    <1> QED BY <1>2, <1>3, <1>4, CallStep

\* What a proxy is the proxy of, and where its registry is, after the step.
NextResourceOf(p) == IF p = 0 THEN Host ELSE objs'[p].res
NextRegistryOf(p) == Index(NextResourceOf(p))

\* What fetch leaves when it has constructed a proxy: one more proxy, below what owns the
\* registry of the call, and a registry for its children if there was none at its index.
LEMMA NewShape ==
    ASSUME SharedInv, NEW r \in Resources, FetchNew(r),
           NEW n, n = Len(objs) + 1,
           NEW reg, reg = RegistryOf(call.on),
           NEW up, up = owner[reg]
    PROVE  /\ call \in CallType /\ call.on \in 0..Len(objs)
           /\ Level[ResourceOf(call.on)] < 4 /\ Parent[r] = ResourceOf(call.on)
           /\ reg \in RegIds /\ up \in 0..Len(objs)
           /\ RegistryOf(up) = reg /\ Level[r] = Level[ResourceOf(up)] + 1
           /\ objs' \in Seq([res : Resources, up : Nat])
           /\ Len(objs') = n
           /\ \A p \in Proxies : objs'[p] = objs[p]
           /\ objs'[n] = [res |-> r, up |-> up]
           /\ Proxies' = Proxies \cup {n}
           /\ n \notin Proxies /\ n # 0 /\ n \in Nat
           /\ \A p \in 0..Len(objs) : /\ NextResourceOf(p) = ResourceOf(p)
                                      /\ NextRegistryOf(p) = RegistryOf(p)
           /\ NextResourceOf(n) = r /\ NextRegistryOf(n) = Index(r)
    <1>1. call # NoCall /\ call \in CallType /\ r \in call.todo
        BY DEF FetchNew, Fetching, SharedInv, TypeOK
    <1>2. call.on \in 0..Len(objs) /\ Level[ResourceOf(call.on)] < 4 /\ Parent[r] = ResourceOf(call.on)
        BY <1>1 DEF CallType, SharedInv, CallSane, Children
    <1>3. reg \in RegIds /\ up \in 0..Len(objs) /\ RegistryOf(up) = reg
        BY <1>2, RegistryThere
    <1>4. Level[r] = Level[ResourceOf(up)] + 1
        BY <1>2, RegistryThere, LevelFacts
    <1>5. /\ Len(objs) \in Nat
          /\ \A p \in Proxies : objs[p].res \in Resources
        BY ObjFacts DEF SharedInv
    <1>6. objs' = Append(objs, [res |-> r, up |-> up])
        BY DEF FetchNew, Construct
    <1>7. /\ objs' \in Seq([res : Resources, up : Nat])
          /\ Len(objs') = n
          /\ \A p \in Proxies : objs'[p] = objs[p]
          /\ objs'[n] = [res |-> r, up |-> up]
          /\ Proxies' = Proxies \cup {n}
          /\ n \notin Proxies /\ n # 0 /\ n \in Nat
        <2>1. objs \in Seq([res : Resources, up : Nat]) /\ [res |-> r, up |-> up] \in [res : Resources, up : Nat]
            BY <1>3, <1>5 DEF SharedInv, TypeOK
        <2> QED BY <1>5, <1>6, <2>1, AppendFacts DEF Proxies
    <1>8. /\ \A p \in 0..Len(objs) : /\ NextResourceOf(p) = ResourceOf(p)
                                     /\ NextRegistryOf(p) = RegistryOf(p)
          /\ NextResourceOf(n) = r /\ NextRegistryOf(n) = Index(r)
        BY <1>5, <1>7 DEF ResourceOf, RegistryOf, NextResourceOf, NextRegistryOf, Proxies
    <1> QED BY <1>1, <1>2, <1>3, <1>4, <1>7, <1>8

\* What it does to the registries.
LEMMA NewRegistries ==
    ASSUME SharedInv, NEW r \in Resources, FetchNew(r),
           NEW n, n = Len(objs) + 1
    PROVE  /\ \A id \in RegIds : id # Index(r) => owner'[id] = owner[id]
           /\ \A id \in RegIds : owner[id] # Absent => owner'[id] = owner[id]
           /\ Level[r] < 4 => /\ Index(r) \in RegIds
                              /\ owner[Index(r)] = Absent => owner'[Index(r)] = n
           /\ ~(Level[r] < 4) => owner' = owner
           /\ owner' \in [RegIds -> 0..n \cup {Absent}]
           /\ items' = items /\ items' \in [RegIds -> [Keys -> 0..n]]
    <1>1. Len(objs) \in Nat /\ n \in Nat
        BY ObjFacts DEF SharedInv
    <1>2. owner' = FactoryRegistry(r, n) /\ items' = items
        BY DEF FetchNew, Construct
    <1>3. /\ owner \in [RegIds -> 0..Len(objs) \cup {Absent}]
          /\ items \in [RegIds -> [Keys -> 0..Len(objs)]]
        BY DEF SharedInv, TypeOK
    <1>4. items' \in [RegIds -> [Keys -> 0..n]]
        BY <1>1, <1>2, <1>3
    <1>5. CASE Level[r] < 4 /\ owner[Index(r)] = Absent
        <2>1. Index(r) \in RegIds
            BY <1>5, IndexType, LevelFacts
        <2>2. owner' = [owner EXCEPT ![Index(r)] = n]
            BY <1>2, <1>5 DEF FactoryRegistry
        <2>3. /\ \A id \in RegIds : id # Index(r) => owner'[id] = owner[id]
              /\ owner'[Index(r)] = n
              /\ owner' \in [RegIds -> 0..n \cup {Absent}]
            BY <1>1, <1>3, <2>1, <2>2
        <2> QED BY <1>2, <1>4, <1>5, <2>1, <2>3
    <1>6. CASE ~(Level[r] < 4 /\ owner[Index(r)] = Absent)
        <2>1. owner' = owner
            BY <1>2, <1>6 DEF FactoryRegistry
        <2>2. owner' \in [RegIds -> 0..n \cup {Absent}]
            BY <1>1, <1>3, <2>1
        <2>3. Level[r] < 4 => Index(r) \in RegIds
            BY IndexType, LevelFacts
        <2> QED BY <1>2, <1>4, <1>6, <2>1, <2>2, <2>3
    <1> QED BY <1>5, <1>6

\* fetch constructs a proxy.
LEMMA SharedNew ==
    ASSUME SharedInv, NEW r \in Resources, FetchNew(r)
    PROVE  SharedInv'
    <1> DEFINE n == Len(objs) + 1
               on == call.on
               reg == RegistryOf(on)
               up == owner[reg]
    <1>1. Len(objs) \in Nat /\ \A p \in Proxies : objs[p].res \in Resources /\ objs[p].up \in 0..Len(objs)
        BY ObjFacts DEF SharedInv
    <1>2. Key[r] \in Keys /\ Level[r] \in 1..4 /\ r \in Things
        BY LevelFacts
    <1>3. /\ call \in CallType /\ on \in 0..Len(objs)
          /\ Level[ResourceOf(on)] < 4 /\ Parent[r] = ResourceOf(on)
          /\ reg \in RegIds /\ up \in 0..Len(objs)
          /\ RegistryOf(up) = reg /\ Level[r] = Level[ResourceOf(up)] + 1
          /\ objs' \in Seq([res : Resources, up : Nat])
          /\ Len(objs') = n
          /\ \A p \in Proxies : objs'[p] = objs[p]
          /\ objs'[n] = [res |-> r, up |-> up]
          /\ Proxies' = Proxies \cup {n}
          /\ n \notin Proxies /\ n # 0 /\ n \in Nat
          /\ \A p \in 0..Len(objs) : /\ NextResourceOf(p) = ResourceOf(p)
                                     /\ NextRegistryOf(p) = RegistryOf(p)
          /\ NextResourceOf(n) = r /\ NextRegistryOf(n) = Index(r)
        BY NewShape
    <1>4. /\ \A id \in RegIds : id # Index(r) => owner'[id] = owner[id]
          /\ \A id \in RegIds : owner[id] # Absent => owner'[id] = owner[id]
          /\ Level[r] < 4 => /\ Index(r) \in RegIds
                             /\ owner[Index(r)] = Absent => owner'[Index(r)] = n
          /\ ~(Level[r] < 4) => owner' = owner
          /\ owner' \in [RegIds -> 0..n \cup {Absent}]
          /\ items' = items /\ items' \in [RegIds -> [Keys -> 0..n]]
        BY NewRegistries
    <1>5. /\ call # NoCall /\ Making = 0 /\ Missing(r) /\ r \in call.todo /\ ~call.raised
          /\ call'.on = on /\ call'.asked = call.asked /\ call'.todo = call.todo
          /\ call'.raised = call.raised /\ call' \in CallType' /\ Making' = n
        <2>1. /\ call' = [call EXCEPT !.made = n] /\ call # NoCall /\ Making = 0 /\ Missing(r)
              /\ r \in call.todo /\ ~call.raised
            BY DEF FetchNew, Construct, Fetching
        <2>2. 0..Len(objs) \subseteq 0..Len(objs') /\ n \in 0..Len(objs')
            BY <1>1, <1>3
        <2>3. /\ call'.on = on /\ call'.asked = call.asked /\ call'.todo = call.todo
              /\ call'.raised = call.raised /\ call'.made = n /\ call' \in CallType'
            BY <1>3, <2>1, <2>2 DEF CallType
        <2>4. Making' = n
            BY <2>3 DEF Making, NoCall, CallType, Listings, Lookups
        <2> QED BY <2>1, <2>3, <2>4
    <1> HIDE DEF n, reg, up
    <1>20. TypeOK'
        <2>1. ASSUME NEW p \in Proxies'
              PROVE  objs'[p].up < p
            <3>1. CASE p = n
                BY <1>1, <1>3, <3>1 DEF n
            <3>2. CASE p \in Proxies
                BY <1>3, <3>2 DEF SharedInv, TypeOK
            <3> QED BY <1>3, <3>1, <3>2
        <2> QED BY <1>3, <1>4, <1>5, <2>1 DEF TypeOK
    <1>21. OwnersIndexed'
        <2>1. owner'[AdapterRegistry] = 0
            BY <1>4, AdapterRegistryType DEF SharedInv, OwnersIndexed, Absent
        <2>2. ASSUME NEW id \in RegIds, owner'[id] # Absent
              PROVE  NextRegistryOf(owner'[id]) = id
            <3>1. CASE owner[id] # Absent
                <4>1. owner[id] \in 0..Len(objs) /\ RegistryOf(owner[id]) = id
                    BY <3>1 DEF SharedInv, TypeOK, OwnersIndexed
                <4> QED BY <1>3, <1>4, <3>1, <4>1
            <3>2. CASE owner[id] = Absent
                BY <1>3, <1>4, <2>2, <3>2
            <3> QED BY <3>1, <3>2
        <2>3. AdapterRegistry' = AdapterRegistry /\ RegIds' = RegIds
            BY DEF AdapterRegistry, RegIds, Index, Hashes, Keys, Things
        <2> QED BY <2>1, <2>2, <2>3
            DEF OwnersIndexed, RegistryOf, ResourceOf, NextRegistryOf, NextResourceOf
    <1>22. RegistriesMade'
        <2> SUFFICES ASSUME NEW p \in Proxies', Level[objs'[p].res] < 4
                     PROVE  owner'[NextRegistryOf(p)] # Absent
            BY DEF RegistriesMade, RegistryOf, ResourceOf, NextRegistryOf, NextResourceOf
        <2>1. CASE p = n
            BY <1>3, <1>4, <2>1 DEF Absent
        <2>2. CASE p \in Proxies
            <3>1. p \in 0..Len(objs) /\ p # 0 /\ Level[ResourceOf(p)] < 4
                BY <1>1, <1>3, <2>2 DEF Proxies, ResourceOf
            <3>2. owner[RegistryOf(p)] \in 0..Len(objs) /\ RegistryOf(p) \in RegIds
                BY <3>1, RegistryThere
            <3>3. owner[RegistryOf(p)] # Absent
                BY <1>1, <3>2 DEF Absent
            <3> QED BY <1>3, <1>4, <3>1, <3>2, <3>3
        <2> QED BY <1>3, <2>1, <2>2
    <1>23. LevelsAscend'
        <2> SUFFICES ASSUME NEW p \in Proxies'
                     PROVE  Level[objs'[p].res] = Level[NextResourceOf(objs'[p].up)] + 1
            BY DEF LevelsAscend, ResourceOf, NextResourceOf
        <2>1. CASE p = n
            BY <1>3, <2>1
        <2>2. CASE p \in Proxies
            BY <1>1, <1>3, <2>2 DEF SharedInv, LevelsAscend
        <2> QED BY <1>3, <2>1, <2>2
    <1>24. ItemsIndexed'
        <2> SUFFICES ASSUME NEW id \in RegIds, NEW k \in Keys, items[id][k] # 0
                     PROVE  /\ Key[objs'[items[id][k]].res] = k
                            /\ NextRegistryOf(objs'[items[id][k]].up) = id
            BY <1>4 DEF ItemsIndexed, RegistryOf, ResourceOf, NextRegistryOf, NextResourceOf
        <2> DEFINE p == items[id][k]
        <2>1. p \in Proxies
            BY <1>1 DEF SharedInv, TypeOK, Proxies
        <2>2. Key[objs[p].res] = k /\ RegistryOf(objs[p].up) = id
            BY DEF SharedInv, ItemsIndexed
        <2> HIDE DEF p
        <2>3. Key[objs'[p].res] = k /\ NextRegistryOf(objs'[p].up) = id
            BY <1>1, <1>3, <2>1, <2>2
        <2> QED BY <2>3 DEF p
    <1>25. AllRegistered'
        <2> SUFFICES ASSUME NEW p \in Proxies' \ {n}
                     PROVE  items[NextRegistryOf(objs'[p].up)][Key[objs'[p].res]] = p
            BY <1>4, <1>5 DEF AllRegistered, At, RegistryOf, ResourceOf, NextRegistryOf, NextResourceOf
        <2>3. p \in Proxies
            BY <1>3
        <2>1. p \in Proxies \ {Making}
            BY <1>1, <1>5, <2>3 DEF Proxies
        <2>2. items[RegistryOf(objs[p].up)][Key[objs[p].res]] = p
            BY <2>1 DEF SharedInv, AllRegistered, At
        <2> QED BY <1>1, <1>3, <2>1, <2>2
    <1>26. CallSane' /\ MakingSane'
        <2>1. NextResourceOf(on) = ResourceOf(on) /\ NextRegistryOf(on) = reg
            BY <1>3 DEF reg
        <2>2. \A s \in Children(on) : s \in Resources /\ Parent[s] = NextResourceOf(on)
            BY <2>1 DEF Children
        <2>3. call.asked \subseteq Children(on) /\ call.todo \subseteq call.asked
            BY <1>5 DEF SharedInv, CallSane
        <2>4. \A s : Missing(s)' <=> Missing(s)
            BY <1>4, <1>5, <2>1
            DEF Missing, At, RegistryOf, ResourceOf, NextRegistryOf, NextResourceOf, reg
        <2>5. \A s \in call.asked \ call.todo : ~Missing(s)
            BY <1>5 DEF SharedInv, CallSane
        <2>6. CallSane'
            BY <1>3, <1>5, <2>1, <2>2, <2>3, <2>4, <2>5
            DEF CallSane, Children, ResourceOf, NextResourceOf
        <2>7. owner'[reg] = up
            BY <1>1, <1>3, <1>4 DEF up, Absent
        <2>8. MakingSane'
            BY <1>3, <1>5, <2>1, <2>4, <2>7
            DEF MakingSane, RegistryOf, ResourceOf, NextRegistryOf, NextResourceOf
        <2> QED BY <2>6, <2>8
    <1> QED
        BY <1>20, <1>21, <1>22, <1>23, <1>24, <1>25, <1>26 DEF SharedInv

\* fetch puts the proxy that it has constructed into the registry of the call.
LEMMA SharedEmplace ==
    ASSUME SharedInv, NEW r \in Resources, Emplace(r)
    PROVE  SharedInv'
    <1> DEFINE m == Making
               on == call.on
               reg == RegistryOf(on)
    <1>1. /\ call # NoCall /\ call \in CallType /\ m # 0 /\ m \in 0..Len(objs) /\ m = call.made
          /\ objs[m].res = r /\ r \in call.todo /\ Missing(r) /\ objs[m].up = owner[reg]
        BY DEF Emplace, MadeFor, SharedInv, MakingSane, TypeOK, CallType, Making
    <1>2. m \in Proxies /\ Len(objs) \in Nat
        BY <1>1, ObjFacts DEF Proxies, SharedInv
    <1>3. on \in 0..Len(objs) /\ Level[ResourceOf(on)] < 4 /\ Key[r] \in Keys
        BY <1>1, LevelFacts DEF CallType, SharedInv, CallSane
    <1>4. reg \in RegIds /\ RegistryOf(objs[m].up) = reg
        BY <1>1, <1>3, RegistryThere
    <1>5. /\ items \in [RegIds -> [Keys -> 0..Len(objs)]]
          /\ items' = [items EXCEPT ![reg][Key[r]] = m] /\ UNCHANGED <<objs, owner>>
        BY DEF Emplace, SharedInv, TypeOK
    <1> HIDE DEF m, reg
    <1>6. /\ items' \in [RegIds -> [Keys -> 0..Len(objs)]]
          /\ items'[reg][Key[r]] = m /\ items[reg][Key[r]] = 0
          /\ \A id \in RegIds, k \in Keys : <<id, k>> # <<reg, Key[r]>> => items'[id][k] = items[id][k]
        BY <1>1, <1>3, <1>4, <1>5 DEF Missing, At, reg
    <1>7. /\ call'.on = on /\ call'.asked = call.asked /\ call'.todo = call.todo \ {r}
          /\ call' \in CallType /\ Making' = 0
        <2>1. call' = [call EXCEPT !.todo = @ \ {r}, !.made = 0]
            BY DEF Emplace
        <2>2. 0 \in 0..Len(objs) /\ call.todo \ {r} \in SUBSET Resources
            BY <1>1, <1>2 DEF CallType
        <2>3. call' \in CallType
            BY <1>1, <2>1, <2>2 DEF CallType
        <2>4. /\ call'.on = on /\ call'.asked = call.asked /\ call'.todo = call.todo \ {r}
              /\ call'.made = 0
            BY <1>1, <2>1 DEF CallType
        <2> QED BY <2>3, <2>4 DEF Making
    <1>8. \A p : ResourceOf(p)' = ResourceOf(p) /\ RegistryOf(p)' = RegistryOf(p)
        BY <1>5 DEF ResourceOf, RegistryOf
    <1>10. TypeOK'
        BY <1>5, <1>6, <1>7 DEF SharedInv, TypeOK, CallType, Proxies
    <1>11. OwnersIndexed' /\ RegistriesMade' /\ LevelsAscend'
        BY <1>5, <1>8
        DEF SharedInv, OwnersIndexed, RegistriesMade, LevelsAscend, Proxies, RegistryOf, ResourceOf
    <1>12. ItemsIndexed'
        <2> SUFFICES ASSUME NEW id \in RegIds, NEW k \in Keys, items'[id][k] # 0
                     PROVE  /\ Key[objs[items'[id][k]].res] = k
                            /\ RegistryOf(objs[items'[id][k]].up) = id
            BY <1>5, <1>8 DEF ItemsIndexed
        <2>1. CASE id = reg /\ k = Key[r]
            BY <1>1, <1>4, <1>6, <2>1
        <2>2. CASE <<id, k>> # <<reg, Key[r]>>
            <3>1. items'[id][k] = items[id][k]
                BY <1>6, <2>2
            <3> QED BY <3>1 DEF SharedInv, ItemsIndexed
        <2> QED BY <2>1, <2>2
    <1>13. AllRegistered'
        <2> SUFFICES ASSUME NEW p \in Proxies
                     PROVE  items'[RegistryOf(objs[p].up)][Key[objs[p].res]] = p
            BY <1>5, <1>8 DEF AllRegistered, At, Proxies
        <2>1. CASE p = m
            BY <1>1, <1>4, <1>6, <2>1
        <2>2. CASE p # m
            <3> DEFINE u == objs[p].up
                       k == Key[objs[p].res]
            <3>1. items[RegistryOf(u)][k] = p /\ p # 0
                BY <2>2, <1>2 DEF SharedInv, AllRegistered, At, Proxies, m
            <3>2. u \in 0..Len(objs) /\ objs[p].res \in Resources
                BY ObjFacts DEF SharedInv
            <3>3. Level[ResourceOf(u)] < 4 /\ k \in Keys
                <4>1. Level[objs[p].res] = Level[ResourceOf(u)] + 1 /\ ResourceOf(u) \in Things
                    BY <3>2, ResourceType DEF SharedInv, LevelsAscend
                <4> QED BY <3>2, <4>1, LevelFacts, ResourcesAssumption
            <3>4. RegistryOf(u) \in RegIds
                BY <3>2, <3>3, RegistryThere
            <3> HIDE DEF u, k
            <3>5. items'[RegistryOf(u)][k] = p
                BY <1>6, <3>1, <3>3, <3>4
            <3> QED BY <3>5 DEF u, k
        <2> QED BY <2>1, <2>2
    <1>14. CallSane'
        <2>1. ResourceOf(on)' = ResourceOf(on) /\ Children(on)' = Children(on)
            BY <1>7, <1>8 DEF Children
        <2>2. call.asked \subseteq Children(on) /\ call.todo \subseteq call.asked
            BY <1>1 DEF SharedInv, CallSane
        <2>3. ASSUME NEW s \in call'.asked \ call'.todo
              PROVE  ~Missing(s)'
            <3>1. Key[s] \in Keys
                BY <1>7, <2>2, LevelFacts DEF Children
            <3>2. s = r \/ items[reg][Key[s]] # 0
                BY <1>1, <1>7 DEF SharedInv, CallSane, Missing, At, reg
            <3>3. items'[reg][Key[s]] # 0
                BY <1>1, <1>4, <1>6, <3>1, <3>2
            <3> QED BY <1>7, <1>8, <3>3 DEF Missing, At, reg
        <2> QED BY <1>3, <1>7, <2>1, <2>2, <2>3 DEF CallSane
    <1>15. MakingSane'
        BY <1>7 DEF MakingSane
    <1> QED
        BY <1>10, <1>11, <1>12, <1>13, <1>14, <1>15 DEF SharedInv

\* This part of the invariant is inductive by itself.
LEMMA SharedStep ==
    ASSUME SharedInv, [Next]_vars
    PROVE  SharedInv'
    <1>0. Len(objs) \in Nat /\ Key[Host] \in Keys /\ Level[Host] = 0
        BY ObjFacts, ResourcesAssumption DEF SharedInv, Keys, Things
    <1>1. ASSUME NEW p \in Proxies
          PROVE  p \in 0..Len(objs)
        BY <1>0 DEF Proxies
    <1>2. CASE GetAdapters
        <2>1. 0 \in 0..Len(objs) /\ Level[ResourceOf(0)] < 4
            BY <1>0 DEF ResourceOf
        <2>2. PICK listed \in SUBSET Children(0) : Begin("get_adapters", 0, Key[Host], listed)
            BY <1>2 DEF GetAdapters
        <2> QED BY <1>0, <2>1, <2>2, BeginStep DEF Listings
    <1>3. CASE ScanGetResults
        <2>1. PICK p \in Proxies : \E listed \in SUBSET Children(p) :
                Level[ResourceOf(p)] = 1 /\ Begin("scan_get_results", p, Key[Host], listed)
            BY <1>3 DEF ScanGetResults
        <2>2. PICK listed \in SUBSET Children(p) :
                Level[ResourceOf(p)] = 1 /\ Begin("scan_get_results", p, Key[Host], listed)
            BY <2>1
        <2>3. p \in 0..Len(objs) /\ Level[ResourceOf(p)] < 4 /\ Key[Host] \in Keys
            BY <1>0, <1>1, <2>2
        <2>4. "scan_get_results" \in Listings \cup Lookups
            BY DEF Listings, Lookups
        <2> QED BY <2>2, <2>3, <2>4, BeginStep
    <1>4. CASE ScanFound
        <2>1. PICK p \in Proxies : \E r \in Children(p) :
                Level[ResourceOf(p)] = 1 /\ Begin("scan_found", p, Key[Host], {r})
            BY <1>4 DEF ScanFound
        <2>2. PICK r \in Children(p) :
                Level[ResourceOf(p)] = 1 /\ Begin("scan_found", p, Key[Host], {r})
            BY <2>1
        <2>3. {r} \in SUBSET Children(p)
            OBVIOUS
        <2> QED BY <1>0, <1>1, <2>2, <2>3, BeginStep DEF Listings
    <1>5. CASE Services
        <2>1. PICK p \in Proxies : \E listed \in SUBSET Children(p) :
                Level[ResourceOf(p)] = 2 /\ Begin("services", p, Key[Host], listed)
            BY <1>5 DEF Services
        <2>2. PICK listed \in SUBSET Children(p) :
                Level[ResourceOf(p)] = 2 /\ Begin("services", p, Key[Host], listed)
            BY <2>1
        <2>3. p \in 0..Len(objs) /\ Level[ResourceOf(p)] < 4 /\ Key[Host] \in Keys
            BY <1>0, <1>1, <2>2
        <2>4. "services" \in Listings \cup Lookups
            BY DEF Listings, Lookups
        <2> QED BY <2>2, <2>3, <2>4, BeginStep
    <1>6. CASE Characteristics
        <2>1. PICK p \in Proxies : \E listed \in SUBSET Children(p) :
                Level[ResourceOf(p)] = 3 /\ Begin("characteristics", p, Key[Host], listed)
            BY <1>6 DEF Characteristics
        <2>2. PICK listed \in SUBSET Children(p) :
                Level[ResourceOf(p)] = 3 /\ Begin("characteristics", p, Key[Host], listed)
            BY <2>1
        <2>3. p \in 0..Len(objs) /\ Level[ResourceOf(p)] < 4 /\ Key[Host] \in Keys
            BY <1>0, <1>1, <2>2
        <2>4. "characteristics" \in Listings \cup Lookups
            BY DEF Listings, Lookups
        <2> QED BY <2>2, <2>3, <2>4, BeginStep
    <1>7. CASE ServiceAt
        <2>1. PICK p \in Proxies, k \in Keys : \E listed \in SUBSET Children(p) :
                Level[ResourceOf(p)] = 2 /\ Begin("service_at", p, k, listed)
            BY <1>7 DEF ServiceAt
        <2>2. PICK listed \in SUBSET Children(p) :
                Level[ResourceOf(p)] = 2 /\ Begin("service_at", p, k, listed)
            BY <2>1
        <2>3. p \in 0..Len(objs) /\ Level[ResourceOf(p)] < 4 /\ k \in Keys
            BY <1>0, <1>1, <2>2
        <2>4. "service_at" \in Listings \cup Lookups
            BY DEF Listings, Lookups
        <2> QED BY <2>2, <2>3, <2>4, BeginStep
    <1>8. CASE CharacteristicAt
        <2>1. PICK p \in Proxies, k \in Keys : \E listed \in SUBSET Children(p) :
                Level[ResourceOf(p)] = 3 /\ Begin("characteristic_at", p, k, listed)
            BY <1>8 DEF CharacteristicAt
        <2>2. PICK listed \in SUBSET Children(p) :
                Level[ResourceOf(p)] = 3 /\ Begin("characteristic_at", p, k, listed)
            BY <2>1
        <2>3. p \in 0..Len(objs) /\ Level[ResourceOf(p)] < 4 /\ k \in Keys
            BY <1>0, <1>1, <2>2
        <2>4. "characteristic_at" \in Listings \cup Lookups
            BY DEF Listings, Lookups
        <2> QED BY <2>2, <2>3, <2>4, BeginStep
    <1>9. ASSUME NEW r \in Resources, FetchFound(r)
          PROVE  SharedInv'
        BY <1>9, FoundStep
    <1>10. ASSUME NEW r \in Resources, FetchNew(r)
           PROVE  SharedInv'
        BY <1>10, SharedNew
    <1>16. ASSUME NEW r \in Resources, Emplace(r)
           PROVE  SharedInv'
        BY <1>16, SharedEmplace
    <1>11. ASSUME NEW r \in Resources, FetchThrows(r)
           PROVE  SharedInv'
        BY <1>11, RaiseStep DEF FetchThrows, Fetching
    <1>17. call.raised \/ call.todo = {} => Making = 0
        BY DEF SharedInv, MakingSane
    <1>12. CASE QueryThrows
        BY <1>12, RaiseStep DEF QueryThrows
    <1>13. CASE LookupThrows
        BY <1>13, <1>17, RaiseStep DEF LookupThrows, NotFound, Finished
    <1>14. CASE Return
        <2>1. call' = NoCall /\ UNCHANGED <<objs, owner, items>> /\ Making = 0
            BY <1>14, <1>17 DEF Return, Finished
        <2> QED BY <2>1, CallStep DEF CallSane, Making
    <1>15. CASE UNCHANGED vars
        BY <1>15
        DEF vars, SharedInv, TypeOK, CallType, OwnersIndexed, RegistriesMade, LevelsAscend, ItemsIndexed,
            AllRegistered, CallSane, MakingSane, Making, Missing, Children, At, RegistryOf, ResourceOf,
            Proxies
    <1> QED
        BY <1>2, <1>3, <1>4, <1>5, <1>6, <1>7, <1>8, <1>9, <1>10, <1>11, <1>12, <1>13, <1>14, <1>15,
            <1>16
        DEF Next

\* It holds in every state, whatever the keys are.
LEMMA SharedInvariant == Spec => []SharedInv
    <1>1. Init => SharedInv
        BY SharedInit
    <1>2. SharedInv /\ [Next]_vars => SharedInv'
        BY SharedStep
    <1> QED BY <1>1, <1>2, PTL DEF Spec

-----------------------------------------------------------------------------
(* What holds where keys are unique.                                       *)

\* The registry of a proxy that can have children is its own.
LEMMA OwnsIts ==
    ASSUME RegInv, NEW p \in 0..Len(objs), Level[ResourceOf(p)] < 4
    PROVE  owner[RegistryOf(p)] = p /\ RegistryOf(p) \in RegIds
    <1>1. RegistryOf(p) \in RegIds
        BY RegistryThere DEF RegInv
    <1>2. CASE p = 0
        BY <1>1, <1>2 DEF RegInv, SharedInv, OwnersIndexed, RegistryOf, ResourceOf, AdapterRegistry
    <1>3. CASE p # 0
        BY <1>1, <1>3, ObjFacts DEF RegInv, SharedInv, OwnRegistry, Proxies, ResourceOf
    <1> QED BY <1>1, <1>2, <1>3

\* A proxy is determined by its registry.
LEMMA RegistryUnique ==
    ASSUME KeysUnique, RegInv, NEW p \in 0..Len(objs), NEW q \in 0..Len(objs),
           RegistryOf(p) = RegistryOf(q), Level[ResourceOf(p)] < 4
    PROVE  p = q
    <1>1. ResourceOf(p) = ResourceOf(q)
        BY ResourceType, IndexUnique DEF RegInv, SharedInv, RegistryOf
    <1>2. \A x \in Proxies : objs[x].res \in Resources
        BY ObjFacts DEF RegInv, SharedInv
    <1> QED BY <1>1, <1>2, ObjFacts, ResourcesAssumption DEF RegInv, SharedInv, OneProxyEach, ResourceOf, Proxies

\* What fetch knows when it constructs a proxy: the call's registry is the call's own,
\* and neither a proxy of r nor a registry at its index exists.
LEMMA NewFacts ==
    ASSUME KeysUnique, RegInv, NEW r \in Resources, Fetching(r), Missing(r)
    PROVE  /\ call \in CallType /\ call.on \in 0..Len(objs)
           /\ Level[ResourceOf(call.on)] < 4
           /\ Parent[r] = ResourceOf(call.on)
           /\ RegistryOf(call.on) \in RegIds
           /\ owner[RegistryOf(call.on)] = call.on
           /\ \A p \in Proxies : objs[p].res # r
           /\ Level[r] < 4 => owner[Index(r)] = Absent
    <1>1. call # NoCall /\ call \in CallType /\ r \in call.todo /\ Making = 0
        BY DEF Fetching, RegInv, SharedInv, TypeOK
    <1>2. call.on \in 0..Len(objs)
        BY <1>1 DEF CallType
    <1>3. Level[ResourceOf(call.on)] < 4 /\ Parent[r] = ResourceOf(call.on)
        BY <1>1 DEF RegInv, SharedInv, CallSane, Children
    <1>4. RegistryOf(call.on) \in RegIds /\ owner[RegistryOf(call.on)] = call.on
        BY <1>2, <1>3, OwnsIts
    <1>5. \A p \in Proxies : objs[p].res # r
        <2> SUFFICES ASSUME NEW p \in Proxies, objs[p].res = r
                     PROVE  FALSE
            OBVIOUS
        <2>1. ResourceOf(objs[p].up) = ResourceOf(call.on)
            BY <1>3 DEF RegInv, SharedInv, Routed
        <2>2. At(call.on, Key[r]) = p
            BY <1>1, <2>1, ObjFacts DEF RegInv, SharedInv, AllRegistered, At, RegistryOf, Proxies
        <2> QED BY <2>2, ObjFacts DEF Missing, Proxies, RegInv, SharedInv
    <1>6. Level[r] < 4 => owner[Index(r)] = Absent
        <2> SUFFICES ASSUME Level[r] < 4, owner[Index(r)] # Absent
                     PROVE  FALSE
            OBVIOUS
        <2> DEFINE q == owner[Index(r)]
        <2>1. Index(r) \in RegIds
            BY IndexType, LevelFacts
        <2>2. q \in 0..Len(objs) /\ RegistryOf(q) = Index(r)
            BY <2>1 DEF RegInv, SharedInv, TypeOK, OwnersIndexed
        <2>3. ResourceOf(q) = r
            BY <2>2, IndexUnique, ResourceType, LevelFacts DEF RegInv, SharedInv, RegistryOf
        <2>4. q \in Proxies /\ objs[q].res = r
            BY <2>2, <2>3, ObjFacts, ResourcesAssumption DEF ResourceOf, Proxies, RegInv, SharedInv
        <2> QED BY <2>4, <1>5
    <1> QED BY <1>1, <1>2, <1>3, <1>4, <1>5, <1>6

\* Only the construction of a proxy changes proxies and owners.
LEMMA OnlyNewChanges ==
    ASSUME [Next]_vars
    PROVE  UNCHANGED <<objs, owner>> \/ \E r \in Resources : FetchNew(r)
    BY DEF Next, vars, GetAdapters, ScanGetResults, ScanFound, Services, Characteristics, ServiceAt,
           CharacteristicAt, Begin, FetchFound, Emplace, FetchThrows, QueryThrows, LookupThrows, Return

\* The proxy that fetch constructs is the first of its resource, and its registry its own.
LEMMA UniqueNew ==
    ASSUME KeysUnique, RegInv, NEW r \in Resources, FetchNew(r)
    PROVE  OwnRegistry' /\ Routed' /\ OneProxyEach'
    <1> DEFINE n == Len(objs) + 1
    <1>1. /\ Len(objs) \in Nat
          /\ \A p \in Proxies : objs[p].res \in Resources /\ objs[p].up \in 0..Len(objs)
        BY ObjFacts DEF RegInv, SharedInv
    <1>2. /\ call.on \in 0..Len(objs) /\ Parent[r] = ResourceOf(call.on)
          /\ owner[RegistryOf(call.on)] = call.on
          /\ \A p \in Proxies : objs[p].res # r
          /\ Level[r] < 4 => owner[Index(r)] = Absent
        BY NewFacts DEF FetchNew
    <1>3. /\ \A p \in Proxies : objs'[p] = objs[p]
          /\ objs'[n] = [res |-> r, up |-> call.on]
          /\ Proxies' = Proxies \cup {n}
          /\ \A p \in 0..Len(objs) : /\ NextResourceOf(p) = ResourceOf(p)
                                     /\ NextRegistryOf(p) = RegistryOf(p)
          /\ NextRegistryOf(n) = Index(r)
        BY <1>2, NewShape DEF RegInv
    <1>4. /\ \A id \in RegIds : owner[id] # Absent => owner'[id] = owner[id]
          /\ Level[r] < 4 => owner'[Index(r)] = n
        BY <1>2, NewRegistries DEF RegInv
    <1> HIDE DEF n
    <1>5. OwnRegistry'
        <2> SUFFICES ASSUME NEW p \in Proxies', Level[objs'[p].res] < 4
                     PROVE  owner'[NextRegistryOf(p)] = p
            BY DEF OwnRegistry, RegistryOf, ResourceOf, NextRegistryOf, NextResourceOf
        <2>1. CASE p = n
            BY <1>3, <1>4, <2>1
        <2>2. CASE p \in Proxies
            <3>1. p \in 0..Len(objs) /\ p # 0 /\ Level[ResourceOf(p)] < 4
                BY <1>1, <1>3, <2>2 DEF Proxies, ResourceOf
            <3>2. owner[RegistryOf(p)] = p /\ RegistryOf(p) \in RegIds
                BY <3>1, OwnsIts
            <3> QED BY <1>1, <1>3, <1>4, <3>1, <3>2 DEF Absent
        <2> QED BY <1>3, <2>1, <2>2
    <1>6. Routed'
        <2> SUFFICES ASSUME NEW p \in Proxies'
                     PROVE  NextResourceOf(objs'[p].up) = Parent[objs'[p].res]
            BY DEF Routed, ResourceOf, NextResourceOf
        <2>1. CASE p = n
            BY <1>2, <1>3, <2>1
        <2>2. CASE p \in Proxies
            BY <1>1, <1>3, <2>2 DEF RegInv, Routed
        <2> QED BY <1>3, <2>1, <2>2
    <1>7. OneProxyEach'
        <2>1. objs'[n].res = r /\ \A p \in Proxies : objs'[p].res = objs[p].res /\ objs'[p].res # r
            BY <1>2, <1>3
        <2>2. \A p, q \in Proxies : objs[p].res = objs[q].res => p = q
            BY DEF RegInv, OneProxyEach
        <2>3. \A p, q \in Proxies \cup {n} : objs'[p].res = objs'[q].res => p = q
            BY <2>1, <2>2
        <2> QED BY <1>3, <2>3 DEF OneProxyEach
    <1> QED BY <1>5, <1>6, <1>7

\* The invariant is inductive.
LEMMA RegStep ==
    ASSUME KeysUnique, RegInv, [Next]_vars
    PROVE  RegInv'
    <1>1. SharedInv'
        BY SharedStep DEF RegInv
    <1>2. CASE UNCHANGED <<objs, owner>>
        BY <1>1, <1>2 DEF RegInv, OwnRegistry, Routed, OneProxyEach, RegistryOf, ResourceOf, Proxies
    <1>3. CASE \E r \in Resources : FetchNew(r)
        BY <1>1, <1>3, UniqueNew DEF RegInv
    <1> QED BY <1>2, <1>3, OnlyNewChanges

\* The invariant holds in every state.
LEMMA RegInvariant ==
    ASSUME KeysUnique
    PROVE  Spec => []RegInv
    <1>1. Init => RegInv
        BY SharedInit DEF RegInv, Init, OwnRegistry, Routed, OneProxyEach, Proxies
    <1>2. RegInv /\ [Next]_vars => RegInv'
        BY RegStep
    <1> QED BY <1>1, <1>2, PTL DEF Spec

-----------------------------------------------------------------------------
(* The theorems.                                                           *)

\* Types: no _owner and no registered pointer dangles, whatever the keys are.
THEOREM TypeCorrect == Spec => []TypeOK
    <1>1. SharedInv => TypeOK
        BY DEF SharedInv
    <1> QED BY <1>1, SharedInvariant, PTL

\* Where addresses and UUIDs are unique every proxy keeps its children in a registry
\* of its own (RegistryFactory::registry).
THEOREM RegistriesOwned ==
    ASSUME KeysUnique
    PROVE  Spec => []OwnRegistry
    <1>1. RegInv => OwnRegistry
        BY DEF RegInv, SharedInv
    <1> QED BY <1>1, RegInvariant, PTL

\* Where addresses and UUIDs are unique reads and writes go up to the device that listed
\* the characteristic (Characteristic::read, Service::read, Peripheral::read).
THEOREM ReadsRouted ==
    ASSUME KeysUnique
    PROVE  Spec => []Routed
    <1>1. RegInv => Routed
        BY DEF RegInv, SharedInv
    <1> QED BY <1>1, RegInvariant, PTL

\* A resource has one proxy, however it is met (Registry::fetch).
THEOREM ProxyUnique ==
    ASSUME KeysUnique
    PROVE  Spec => []OneProxyEach
    <1>1. RegInv => OneProxyEach
        BY DEF RegInv, SharedInv
    <1> QED BY <1>1, RegInvariant, PTL

\* A registered proxy belongs to the proxy that asks for it.
LEMMA HeldIsMine ==
    ASSUME KeysUnique, RegInv, NEW p \in 0..Len(objs), Level[ResourceOf(p)] < 4,
           NEW k \in Keys, At(p, k) # 0
    PROVE  /\ At(p, k) \in Proxies
           /\ objs[At(p, k)].up = p
           /\ Key[objs[At(p, k)].res] = k
    <1> DEFINE a == At(p, k)
    <1>1. RegistryOf(p) \in RegIds
        BY OwnsIts
    <1>2. a \in Proxies
        BY <1>1 DEF RegInv, SharedInv, TypeOK, At, Proxies
    <1>3. Key[objs[a].res] = k /\ RegistryOf(objs[a].up) = RegistryOf(p)
        BY <1>1 DEF RegInv, SharedInv, ItemsIndexed, At
    <1>4. objs[a].up \in 0..Len(objs)
        BY <1>2, ObjFacts DEF RegInv, SharedInv
    <1>5. objs[a].up = p
        BY <1>3, <1>4, RegistryUnique
    <1> QED BY <1>2, <1>3, <1>5

\* Calls answer with all that was listed and with nothing of another proxy's.
THEOREM AnswersRight ==
    ASSUME KeysUnique
    PROVE  Spec => []AnswerIsRight
    <1>1. ASSUME RegInv, Finished
          PROVE  /\ \A a \in Answer : a \in Proxies /\ objs[a].up = call.on
                 /\ \A r \in call.asked : \E a \in Held(call.on) : objs[a].res = r
        <2>1. /\ call # NoCall /\ call \in CallType /\ call.todo = {}
              /\ call.on \in 0..Len(objs) /\ call.key \in Keys
            BY <1>1 DEF Finished, RegInv, SharedInv, TypeOK, CallType
        <2>2. /\ Level[ResourceOf(call.on)] < 4
              /\ \A r \in call.asked : r \in Children(call.on) /\ ~Missing(r)
            BY <1>1, <2>1 DEF RegInv, SharedInv, CallSane
        <2>3. \A k \in Keys : At(call.on, k) # 0 =>
                 /\ At(call.on, k) \in Proxies
                 /\ objs[At(call.on, k)].up = call.on
                 /\ Key[objs[At(call.on, k)].res] = k
            BY <1>1, <2>1, <2>2, HeldIsMine
        <2>4. \A r \in call.asked : r \in Resources /\ Key[r] \in Keys /\ At(call.on, Key[r]) # 0
            BY <2>2, LevelFacts DEF Children, Missing
        <2>5. \A a \in Answer : \E k \in Keys : a = At(call.on, k) /\ a # 0
            BY <2>1, <2>4 DEF Answer, Held
        <2>6. ASSUME NEW r \in call.asked
              PROVE  \E a \in Held(call.on) : objs[a].res = r
            <3> DEFINE a == At(call.on, Key[r])
            <3>1. a \in Held(call.on) /\ a \in Proxies
                BY <2>3, <2>4 DEF Held
            <3>2. objs[a].up = call.on /\ Key[objs[a].res] = Key[r]
                BY <2>3, <2>4
            <3>3. objs[a].res \in Resources /\ Parent[objs[a].res] = Parent[r]
                BY <1>1, <2>2, <3>1, <3>2, ObjFacts DEF RegInv, SharedInv, Routed, Children
            <3>4. objs[a].res = r
                BY <2>4, <3>2, <3>3, SiblingUnique
            <3> QED BY <3>1, <3>4
        <2> QED BY <2>3, <2>5, <2>6
    <1>2. RegInv => AnswerIsRight
        BY <1>1 DEF AnswerIsRight
    <1> QED BY <1>2, RegInvariant, PTL

\* A proxy below an adapter is in its registry, and its owner is a proxy; an adapter has none.
\* What is being made is in no registry and owns nothing.
LEMMA UpAndDown ==
    ASSUME SharedInv, NEW p \in Proxies
    PROVE  /\ objs[p].up \in 0..Len(objs)
           /\ Level[objs[p].res] \in 1..4
           /\ Level[ResourceOf(objs[p].up)] = Level[objs[p].res] - 1
           /\ p # Making => p \in Held(objs[p].up)
           /\ objs[p].up # 0 => objs[p].up # Making
           /\ Level[objs[p].res] = 1 => objs[p].up = 0
           /\ Level[objs[p].res] > 1 => objs[p].up \in Proxies
    <1> DEFINE u == objs[p].up
    <1>1. /\ \A q \in Proxies : objs[q].res \in Resources
          /\ u \in 0..Len(objs) /\ Len(objs) \in Nat
        BY ObjFacts DEF SharedInv
    <1>2. \A q \in Proxies : Level[objs[q].res] \in 1..4 /\ Key[objs[q].res] \in Keys
        BY <1>1, LevelFacts
    <1>3. Level[objs[p].res] = Level[ResourceOf(u)] + 1 /\ ResourceOf(u) \in Things
        BY <1>1, ResourceType DEF SharedInv, LevelsAscend
    <1>4. Level[ResourceOf(u)] = Level[objs[p].res] - 1
        BY <1>2, <1>3, ResourcesAssumption
    <1>5. p # Making => p \in Held(u)
        BY <1>1, <1>2 DEF SharedInv, AllRegistered, Held, Proxies
    <1>8. u # 0 => u # Making
        BY <1>1 DEF SharedInv, TypeOK, MakingSane, Proxies
    <1>6. u # 0 => u \in Proxies /\ ResourceOf(u) = objs[u].res
        BY <1>1 DEF Proxies, ResourceOf
    <1>7. u = 0 => Level[ResourceOf(u)] = 0
        BY ResourcesAssumption DEF ResourceOf
    <1> QED BY <1>1, <1>2, <1>4, <1>5, <1>6, <1>7, <1>8

\* DeInit's walk over the registries meets every peripheral, whatever the keys are: a registry
\* that two proxies share is met below both.
THEOREM ShutdownComplete == Spec => []ShutdownReachesAll
    <1>1. ASSUME SharedInv, NEW p \in Proxies \ {Making}, Level[objs[p].res] = 2
          PROVE  p \in DeInitVisits
        <2> DEFINE a == objs[p].up
        <2>1. a \in Proxies /\ a # Making /\ p \in Held(a) /\ Level[ResourceOf(a)] = 1
            BY <1>1, UpAndDown, ObjFacts DEF Proxies, SharedInv
        <2>2. ResourceOf(a) = objs[a].res
            BY <1>1, <2>1, ObjFacts DEF ResourceOf, Proxies, SharedInv
        <2>3. a \in Held(0)
            BY <1>1, <2>1, <2>2, UpAndDown
        <2> QED BY <2>1, <2>3 DEF DeInitVisits
    <1>2. SharedInv => ShutdownReachesAll
        BY <1>1 DEF ShutdownReachesAll
    <1> QED BY <1>2, SharedInvariant, PTL

-----------------------------------------------------------------------------
(* Lookups of characteristics that exist.                                  *)

\* Such a lookup has nothing to fetch, has not failed, and its key stays where it is.
CacheInv ==
    (call # NoCall /\ call.op = "characteristic_at" /\ call.cached) =>
        call.todo = {} /\ ~call.raised /\ At(call.on, call.key) # 0

LEMMA CacheStep ==
    ASSUME SharedInv, CacheInv, [Next]_vars
    PROVE  CacheInv'
    <1>1. call # NoCall => call \in CallType
        BY DEF SharedInv, TypeOK
    <1>2. ASSUME NEW op, NEW p, NEW k, NEW listed, Begin(op, p, k, listed),
                 op = "characteristic_at" => (At(p, k) # 0 => listed = {})
          PROVE  CacheInv'
        <2>1. /\ call'.op = op /\ call'.on = p /\ call'.key = k /\ call'.todo = listed
              /\ call'.cached = (op \in Lookups /\ At(p, k) # 0) /\ call'.raised = FALSE
            BY <1>2 DEF Begin
        <2>2. items' = items /\ objs' = objs
            BY <1>2 DEF Begin
        <2> QED BY <1>2, <2>1, <2>2 DEF CacheInv, At, RegistryOf, ResourceOf
    <1>3. CASE GetAdapters \/ ScanGetResults \/ ScanFound \/ Services \/ Characteristics \/ ServiceAt
        BY <1>2, <1>3 DEF GetAdapters, ScanGetResults, ScanFound, Services, Characteristics, ServiceAt
    <1>4. CASE CharacteristicAt
        BY <1>2, <1>4 DEF CharacteristicAt
    <1>5. ASSUME NEW r \in Resources, FetchFound(r) \/ FetchNew(r) \/ Emplace(r)
          PROVE  CacheInv'
        <2>1. /\ call # NoCall /\ r \in call.todo
              /\ \/ call' = [call EXCEPT !.todo = @ \ {r}]
                 \/ call' = [call EXCEPT !.made = Len(objs) + 1]
                 \/ call' = [call EXCEPT !.todo = @ \ {r}, !.made = 0]
            BY <1>5 DEF FetchFound, FetchNew, Construct, Fetching, Fetched, Emplace, MadeFor, Making,
                SharedInv, MakingSane
        <2>2. call'.op = call.op /\ call'.cached = call.cached
            BY <1>1, <2>1 DEF CallType
        <2> QED BY <2>1, <2>2 DEF CacheInv
    <1>6. ASSUME call # NoCall, call' = [call EXCEPT !.raised = TRUE],
                 ~(call.op = "characteristic_at" /\ call.cached)
          PROVE  CacheInv'
        BY <1>1, <1>6 DEF CacheInv, CallType
    <1>7. ASSUME NEW r \in Resources, FetchThrows(r)
          PROVE  CacheInv'
        BY <1>6, <1>7 DEF FetchThrows, Fetching, CacheInv
    <1>8. CASE QueryThrows
        BY <1>6, <1>8 DEF QueryThrows
    <1>9. CASE LookupThrows
        BY <1>6, <1>9 DEF LookupThrows, NotFound, Finished, CacheInv
    <1>10. CASE Return
        BY <1>10 DEF Return, CacheInv
    <1>11. CASE UNCHANGED vars
        BY <1>11 DEF vars, CacheInv, At, RegistryOf, ResourceOf
    <1> QED
        BY <1>3, <1>4, <1>5, <1>7, <1>8, <1>9, <1>10, <1>11 DEF Next

\* The lookup of a characteristic that has a proxy never fails (Service::operator[]), though it
\* may be the proxy of another device's where keys are not unique.
THEOREM CachedLookupSafe == Spec => []CachedCharacteristicWorks
    <1>1. Init => CacheInv
        BY DEF Init, EmptyRegistry, CacheInv
    <1>2. SharedInv /\ CacheInv /\ [Next]_vars => CacheInv'
        BY CacheStep
    <1>3. CacheInv => CachedCharacteristicWorks
        BY DEF CacheInv, CachedCharacteristicWorks, CachedLookupWorks
    <1> QED BY <1>1, <1>2, <1>3, SharedInvariant, PTL DEF Spec

=============================================================================
