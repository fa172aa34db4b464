----------------------------- MODULE AccessProofs -----------------------------
(***************************************************************************)
(* An access reaches the resource it is meant for, in every tree of        *)
(* resources that satisfies KeysUnique; and in every tree the collector    *)
(* keeps what is below a proxy that is held.                               *)
(* What RegistriesProofs says of proxies and registries carries over,      *)
(* because Access adds to Registries only steps that leave its variables   *)
(* alone, and Marking adds none.                                           *)
(***************************************************************************)
EXTENDS Access, Marking, RegistriesProofs

\* The last access went up the owners of a characteristic, and then on to a descriptor that
\* has these UUIDs there.
IoSound ==
    /\ io.op = "forward" =>
          io.by \in Characteristic /\ io.reached = CharacteristicAccess(io.by)
    /\ io.op = "descriptor" =>
          io.by \in Characteristic /\ io.reached = CharacteristicAccess(io.by) \X {io.desc}

\* The descriptors in the map of a characteristic have it as their owner and are at their UUID.
DescriptorsOwned ==
    /\ DOMAIN descs \subseteq Characteristic
    /\ \A p \in DOMAIN descs : \A d \in DOMAIN descs[p] : descs[p][d] = [uuid |-> d, up |-> p]

AccessInv == IoSound /\ DescriptorsOwned

-----------------------------------------------------------------------------

\* The owner of a proxy below the adapters is a proxy one level up.
LEMMA OwnerAbove ==
    ASSUME RegInv, NEW p \in Proxies, Level[objs[p].res] > 1
    PROVE  /\ objs[p].up \in Proxies
           /\ objs[objs[p].up].res = Parent[objs[p].res]
           /\ Level[objs[objs[p].up].res] = Level[objs[p].res] - 1
    <1> DEFINE r == objs[p].res  up == objs[p].up
    <1>1. r \in Resources /\ up \in 0..Len(objs) /\ Len(objs) \in Nat
        BY ObjFacts DEF RegInv, SharedInv
    <1>2. Level[r] = Level[Parent[r]] + 1 /\ Level[Parent[r]] \in 0..3
        BY <1>1, LevelFacts
    <1>3. ResourceOf(up) = Parent[r]
        BY DEF RegInv, SharedInv, Routed
    <1>4. up # 0
        BY <1>2, <1>3, ResourcesAssumption DEF ResourceOf
    <1> HIDE DEF r, up
    <1>5. up \in Proxies /\ ResourceOf(up) = objs[up].res
        BY <1>1, <1>4 DEF Proxies, ResourceOf
    <1> QED BY <1>2, <1>3, <1>5 DEF r, up

\* SimpleBLE finds one resource by the UUIDs a characteristic is forwarded with: its own.
LEMMA AccessReaches ==
    ASSUME KeysUnique, RegInv, NEW p \in Characteristic
    PROVE  CharacteristicAccess(p) = {ResourceOf(p)}
    <1> DEFINE c == objs[p].res  s == objs[objs[p].up].res  d == objs[objs[objs[p].up].up].res
    <1>1. p \in Proxies /\ Level[c] = 4 /\ c \in Resources
        BY ObjFacts DEF Characteristic, RegInv, SharedInv
    <1>2. objs[p].up \in Proxies /\ s = Parent[c] /\ Level[s] = 3
        BY <1>1, OwnerAbove
    <1>3. objs[objs[p].up].up \in Proxies /\ d = Parent[s] /\ s \in Resources
        BY <1>2, OwnerAbove, ObjFacts DEF RegInv, SharedInv
    <1>4. \A q \in Proxies : ResourceOf(q) = objs[q].res
        BY ObjFacts DEF ResourceOf, Proxies, RegInv, SharedInv
    <1>5. CharacteristicAccess(p) = Resolve(d, Key[s], Key[c])
        BY <1>1, <1>2, <1>3, <1>4 DEF CharacteristicAccess, ServiceAccess, PeripheralAccess
    <1> HIDE DEF c, s, d
    <1>6. ASSUME NEW r \in Resolve(d, Key[s], Key[c])
          PROVE  r = c
        <2>1. r \in Resources /\ Level[r] = 4 /\ Key[r] = Key[c] /\ Key[Parent[r]] = Key[s]
            BY DEF Resolve
        <2>2. Parent[r] \in Resources /\ Level[Parent[r]] = 3
            BY <2>1, LevelFacts, ResourcesAssumption DEF Things
        <2>3. Parent[r] = s
            BY <1>2, <1>3, <2>1, <2>2 DEF KeysUnique
        <2> QED BY <1>1, <1>2, <2>1, <2>3 DEF KeysUnique
    <1>7. c \in Resolve(d, Key[s], Key[c])
        BY <1>1, <1>2, <1>3 DEF Resolve
    <1> QED BY <1>1, <1>4, <1>5, <1>6, <1>7 DEF c

-----------------------------------------------------------------------------

\* No step of Registries takes a characteristic away.
LEMMA FetchesKeep ==
    ASSUME SharedInv, Next
    PROVE  Characteristic \subseteq Characteristic'
    <1>1. ASSUME NEW r \in Resources, FetchNew(r)
          PROVE  Characteristic \subseteq Characteristic'
        <2> DEFINE n == Len(objs) + 1
        <2>1. Proxies' = Proxies \cup {n} /\ \A p \in Proxies : objs'[p] = objs[p]
            BY <1>1, NewShape
        <2> QED BY <2>1 DEF Characteristic
    <1>2. CASE UNCHANGED objs
        BY <1>2 DEF Characteristic, Proxies
    <1> QED
        BY <1>1, <1>2, OnlyNewChanges

LEMMA AccessStep ==
    ASSUME SharedInv, AccessInv, [AccessNext]_avars
    PROVE  AccessInv'
    <1> USE DEF AccessInv, IoSound, NoIo
    <1>1. CASE Fetches
        BY <1>1, FetchesKeep DEF Fetches, DescriptorsOwned
    <1>2. ASSUME NEW reply, Reply(reply)
          PROVE  /\ io' = reply /\ Characteristic' = Characteristic
                 /\ \A p : CharacteristicAccess(p)' = CharacteristicAccess(p)
        BY <1>2 DEF Reply, vars, Characteristic, Proxies, CharacteristicAccess, ServiceAccess,
            PeripheralAccess, ResourceOf
    <1>3. ASSUME NEW p \in Characteristic, Forward(p)
          PROVE  AccessInv'
        BY <1>2, <1>3 DEF Forward, DescriptorsOwned
    <1>4. ASSUME NEW p \in Characteristic, ListDescriptors(p)
          PROVE  AccessInv'
        <2>1. io'.op = "none" /\ Characteristic' = Characteristic
            BY <1>2, <1>4 DEF ListDescriptors
        <2>2. PICK D \in SUBSET Descs : descs' = Listed(p, D)
            BY <1>4 DEF ListDescriptors
        <2>3. CASE p \in DOMAIN descs
            BY <2>1, <2>2, <2>3 DEF Listed, DescriptorsOwned
        <2>4. CASE p \notin DOMAIN descs
            <3>1. descs' = [q \in DOMAIN descs \cup {p} |->
                               IF q = p THEN [d \in D |-> NewDescriptor(p, d)] ELSE descs[q]]
                BY <2>2, <2>4 DEF Listed
            <3>2. \A q \in DOMAIN descs' : \A d \in DOMAIN descs'[q] : descs'[q][d] = [uuid |-> d, up |-> q]
                BY <3>1 DEF DescriptorsOwned, NewDescriptor
            <3> QED BY <2>1, <3>1, <3>2 DEF DescriptorsOwned
        <2> QED BY <2>3, <2>4
    <1>5. ASSUME NEW p \in Characteristic, NEW d \in Descs, ForwardDescriptor(p, d)
          PROVE  AccessInv'
        <2>1. descs[p][d] = [uuid |-> d, up |-> p]
            BY <1>5 DEF ForwardDescriptor, DescriptorsOwned
        <2>2. io' = [op |-> "descriptor", by |-> p, desc |-> d,
                     reached |-> CharacteristicAccess(p) \X {d}]
            BY <1>5, <2>1 DEF ForwardDescriptor, Reply
        <2>3. Characteristic' = Characteristic /\ CharacteristicAccess(p)' = CharacteristicAccess(p)
            BY <1>2, <1>5 DEF ForwardDescriptor
        <2>4. DescriptorsOwned'
            BY <1>5, <2>3 DEF ForwardDescriptor, DescriptorsOwned
        <2> QED BY <2>2, <2>3, <2>4
    <1>6. CASE UNCHANGED avars
        BY <1>6 DEF avars, vars, Characteristic, Proxies, CharacteristicAccess, ServiceAccess,
            PeripheralAccess, ResourceOf, DescriptorsOwned
    <1> QED BY <1>1, <1>3, <1>4, <1>5, <1>6 DEF AccessNext

\* What the program does with the proxies is, for the registries, nothing: every behaviour
\* of Access is one of Registries.
THEOREM AccessRefinesRegistries == AccessSpec => Spec
    <1>1. AccessInit => Init
        BY DEF AccessInit
    <1>2. [AccessNext]_avars => [Next]_vars
        BY DEF AccessNext, Fetches, Forward, ListDescriptors, ForwardDescriptor, Reply, avars
    <1> QED BY <1>1, <1>2, PTL DEF AccessSpec, Spec

LEMMA AccessInvariant == AccessSpec => [](SharedInv /\ AccessInv)
    <1>1. AccessInit => AccessInv
        BY DEF AccessInit, AccessInv, IoSound, DescriptorsOwned, NoIo
    <1>2. SharedInv /\ AccessInv /\ [AccessNext]_avars => AccessInv'
        BY AccessStep
    <1> QED BY <1>1, <1>2, SharedInvariant, AccessRefinesRegistries, PTL DEF AccessSpec

\* Where addresses and UUIDs are unique a read, write or subscription reaches the resource
\* its proxy was made for and no other (Characteristic::read, Service::read, Peripheral::read).
THEOREM AccessesReachOwn ==
    ASSUME KeysUnique
    PROVE  AccessSpec => []ReachesOwn
    <1>1. RegInv /\ AccessInv => ReachesOwn
        BY AccessReaches DEF AccessInv, IoSound, ReachesOwn
    <1> QED BY <1>1, AccessInvariant, RegInvariant, AccessRefinesRegistries, PTL

\* A descriptor is read and written on the characteristic that gave it to the program
\* (Descriptor::read and write), whatever other characteristics have descriptors of its UUID.
THEOREM DescriptorAccessesReachOwn ==
    ASSUME KeysUnique
    PROVE  AccessSpec => []DescriptorsReachOwn
    <1>1. ASSUME RegInv, AccessInv, io.op = "descriptor"
          PROVE  io.reached = {<<ResourceOf(io.by), io.desc>>}
        <2>1. io.reached = CharacteristicAccess(io.by) \X {io.desc} /\ io.by \in Characteristic
            BY <1>1 DEF AccessInv, IoSound
        <2>2. CharacteristicAccess(io.by) = {ResourceOf(io.by)}
            BY <1>1, <2>1, AccessReaches
        <2> QED BY <2>1, <2>2
    <1>2. RegInv /\ AccessInv => DescriptorsReachOwn
        BY <1>1 DEF DescriptorsReachOwn
    <1> QED BY <1>2, AccessInvariant, RegInvariant, AccessRefinesRegistries, PTL

-----------------------------------------------------------------------------
(* Garbage collection.                                                     *)

\* A proxy marks what its registry holds, down to the characteristics.
LEMMA MarksHeld ==
    ASSUME NEW p, NEW q \in Held(p)
    PROVE  /\ Level[ResourceOf(p)] = 1 => MarkPeripheral(q) \subseteq ruby_mark(p)
           /\ Level[ResourceOf(p)] = 2 => MarkService(q) \subseteq ruby_mark(p)
           /\ Level[ResourceOf(p)] = 3 => MarkCharacteristic(q) \subseteq ruby_mark(p)
    BY DEF ruby_mark, MarkAdapter, MarkPeripheral, MarkService, MarkRegistry

\* ...and so do the proxies below it.
LEMMA MarksBelow ==
    ASSUME NEW p, NEW q \in Held(p)
    PROVE  /\ MarkService(q) \subseteq MarkPeripheral(p)
           /\ MarkCharacteristic(q) \subseteq MarkService(p)
    BY DEF MarkPeripheral, MarkService, MarkRegistry

\* A peripheral, a service or a characteristic is marked with every proxy above it.
LEMMA MarkedFromAbove ==
    ASSUME SharedInv, NEW q \in Proxies \ {Making}, NEW p \in Above(q), p # 0
    PROVE  /\ Self(q) \in ruby_mark(p)
           /\ Level[objs[q].res] = 2 => Callbacks(PeripheralSlots, q) \subseteq ruby_mark(p)
           /\ Level[objs[q].res] = 4 => Callbacks(CharacteristicSlots, q) \subseteq ruby_mark(p)
    <1> DEFINE L(x) == Level[objs[x].res]
    <1>1. \A x \in Proxies : x # 0 /\ ResourceOf(x) = objs[x].res /\ Owner(x) = objs[x].up
        BY ObjFacts DEF SharedInv, Proxies, ResourceOf, Owner
    <1>2. ASSUME NEW x \in Proxies \ {Making}
          PROVE  /\ x \in Held(Owner(x)) /\ L(x) \in 1..4
                 /\ L(x) = 1 => Owner(x) = 0
                 /\ L(x) > 1 => Owner(x) \in Proxies \ {Making} /\ L(Owner(x)) = L(x) - 1
        BY <1>1, UpAndDown
    <1>3. Owner(0) = 0
        BY DEF Owner
    <1> DEFINE u == Owner(q)  v == Owner(u)  w == Owner(v)
    <1>4. p \in {u, v, w, Owner(w)}
        BY DEF Above
    <1> HIDE DEF L
    <1>5. CASE L(q) = 1
        BY <1>2, <1>3, <1>4, <1>5
    <1>6. CASE L(q) = 2
        <2>1. u \in Proxies \ {Making} /\ q \in Held(u) /\ L(u) = 1 /\ v = 0
            BY <1>2, <1>6
        <2>2. p = u
            BY <1>3, <1>4, <2>1
        <2>3. MarkPeripheral(q) \subseteq ruby_mark(p)
            BY <1>1, <2>1, <2>2, MarksHeld DEF L
        <2>4. Self(q) \in ruby_mark(p) /\ Callbacks(PeripheralSlots, q) \subseteq ruby_mark(p)
            BY <2>3 DEF MarkPeripheral
        <2> QED BY <1>6, <2>4 DEF L
    <1>7. CASE L(q) = 3
        <2>1. u \in Proxies \ {Making} /\ q \in Held(u) /\ L(u) = 2
            BY <1>2, <1>7
        <2>2. v \in Proxies \ {Making} /\ u \in Held(v) /\ L(v) = 1 /\ w = 0
            BY <1>2, <2>1
        <2>3. p \in {u, v}
            BY <1>3, <1>4, <2>2
        <2>4. MarkService(q) \subseteq ruby_mark(p)
            BY <1>1, <2>1, <2>2, <2>3, MarksHeld, MarksBelow DEF L
        <2> QED BY <1>7, <2>4 DEF L, MarkService
    <1>8. CASE L(q) = 4
        <2>1. u \in Proxies \ {Making} /\ q \in Held(u) /\ L(u) = 3
            BY <1>2, <1>8
        <2>2. v \in Proxies \ {Making} /\ u \in Held(v) /\ L(v) = 2
            BY <1>2, <2>1
        <2>3. w \in Proxies \ {Making} /\ v \in Held(w) /\ L(w) = 1 /\ Owner(w) = 0
            BY <1>2, <2>2
        <2>4. p \in {u, v, w}
            BY <1>4, <2>3
        <2>5. MarkCharacteristic(q) \subseteq ruby_mark(u)
            BY <1>1, <2>1, MarksHeld DEF L
        <2>6. MarkCharacteristic(q) \subseteq MarkService(u)
            BY <2>1, MarksBelow
        <2>7. MarkService(u) \subseteq ruby_mark(v) /\ MarkService(u) \subseteq MarkPeripheral(v)
            BY <1>1, <2>2, MarksHeld, MarksBelow DEF L
        <2>8. MarkPeripheral(v) \subseteq ruby_mark(w)
            BY <1>1, <2>3, MarksHeld DEF L
        <2>9. MarkCharacteristic(q) \subseteq ruby_mark(p)
            BY <2>4, <2>5, <2>6, <2>7, <2>8
        <2>10. Self(q) \in ruby_mark(p) /\ Callbacks(CharacteristicSlots, q) \subseteq ruby_mark(p)
            BY <2>9 DEF MarkCharacteristic
        <2> QED BY <1>8, <2>10 DEF L
    <1> QED BY <1>2, <1>5, <1>6, <1>7, <1>8

\* Whatever the keys are and whenever the collector comes, the objects below a proxy that the
\* program holds, and the procs that will be called for them, are kept (the ruby_mark functions).
THEOREM KeptAlive == AccessSpec => []KeptWithOwner
    <1>1. SharedInv => KeptWithOwner
        BY MarkedFromAbove DEF KeptWithOwner
    <1> QED BY <1>1, AccessInvariant, PTL

=============================================================================
