----------------------------- MODULE Registries -----------------------------
(***************************************************************************)
(* The proxies RuBLE hands to Ruby for SimpleBLE's adapters, peripherals,  *)
(* services and characteristics, and the registries that keep them         *)
(* (management/Registry.hpp, management/RegistryFactory.hpp).              *)
(*                                                                         *)
(* A proxy keeps its children in a registry.  The registry is not a member *)
(* of the proxy: a factory finds it in a map indexed by a hash of the      *)
(* proxy's address or UUID, and the registry remembers, as _owner, the     *)
(* proxy for which it was first made.  Every child made in it gets that    *)
(* _owner, and reads, writes and subscriptions of a child are forwarded to *)
(* its owner, so the _owner decides which device is spoken to.             *)
(*                                                                         *)
(* A call from Ruby holds the VM's lock from beginning to end, and the     *)
(* callbacks that fetch peripherals hold it too, so there is one call at a *)
(* time; it is one step per fetch, because each may throw.                 *)
(***************************************************************************)
EXTENDS Integers, Sequences

CONSTANTS
    Resources,   \* SimpleBLE's adapters, peripherals, services, characteristics
    Host,        \* what the adapters belong to (the null owner of their registry)
    Parent,      \* the resource each resource belongs to
    Level,       \* 0 the host, 1 an adapter, 2 a peripheral, 3 a service, 4 a characteristic
    Key,         \* the address (levels 1, 2) or UUID (levels 3, 4) of a resource
    Hash         \* std::hash of an address, a UUID or the null owner

Things == Resources \cup {Host}
Keys == {Key[r] : r \in Things}
Hashes == {Hash[k] : k \in Keys}

ASSUME ResourcesAssumption ==
    /\ Host \notin Resources
    /\ Parent \in [Resources -> Things]
    /\ Level \in [Things -> 0..4]
    /\ Level[Host] = 0
    /\ \A r \in Resources : Level[r] = Level[Parent[r]] + 1

ASSUME KeysAssumption == DOMAIN Key = Things /\ DOMAIN Hash = Keys

VARIABLES
    objs,    \* the proxies in the order of their construction: resource and _owner
    owner,   \* _owner of each registry, Absent while the factory has no such registry
    items,   \* _registry of each registry: the proxy at each key, 0 if there is none
    call     \* the call from Ruby that is under way

vars == <<objs, owner, items, call>>

-----------------------------------------------------------------------------
(* Proxies and where the factories put their registries.                   *)

\* A proxy is its position in objs; 0 is the null pointer.
Proxies == 1..Len(objs)

ResourceOf(p) == IF p = 0 THEN Host ELSE objs[p].res

\* Mutant: the factories of all levels share one map.
IndexAcrossLevels(r) == <<0, Hash[Key[r]]>>

\* Each level of registries has a factory of its own, whose index hashes the
\* owner's address or UUID and nothing else of the owner.
Index(r) == <<Level[r], Hash[Key[r]]>>

RegIds == (0..3) \X Hashes
AdapterRegistry == Index(Host)
Absent == -1

\* The registry the proxy p has been given by its constructor.
RegistryOf(p) == Index(ResourceOf(p))

Children(p) == {r \in Resources : Parent[r] = ResourceOf(p)}

At(p, k) == items[RegistryOf(p)][k]

\* The calls that can fetch.  All but the last two have no key to look up.
Listings == {"get_adapters", "scan_get_results", "scan_found", "services", "characteristics"}
Lookups == {"service_at", "characteristic_at"}
NoCall == [op |-> "none"]

\* Registry's constructor.
EmptyRegistry == [k \in Keys |-> 0]

\* Init_Registries makes the adapters' registry, the others follow their owners.
Init ==
    /\ objs = << >>
    /\ owner = [id \in RegIds |-> IF id = AdapterRegistry THEN 0 ELSE Absent]
    /\ items = [id \in RegIds |-> EmptyRegistry]
    /\ call = NoCall

-----------------------------------------------------------------------------
(* The calls.  SimpleBLE may list any of the children of a resource.       *)

Begin(op, p, k, listed) ==
    /\ call = NoCall
    /\ call' = [op |-> op, on |-> p, key |-> k, asked |-> listed, todo |-> listed,
                cached |-> op \in Lookups /\ At(p, k) # 0, made |-> 0, raised |-> FALSE]
    /\ UNCHANGED <<objs, owner, items>>

\* Adapter::get_adapters, through the registry that has no owner.
GetAdapters ==
    \E listed \in SUBSET Children(0) : Begin("get_adapters", 0, Key[Host], listed)

\* Adapter::scan_get_results and get_paired_peripherals.
ScanGetResults ==
    \E p \in Proxies : \E listed \in SUBSET Children(p) :
        Level[ResourceOf(p)] = 1 /\ Begin("scan_get_results", p, Key[Host], listed)

\* The closure of on_scan_find or on_scan_update, when the queue runs it.
ScanFound ==
    \E p \in Proxies : \E r \in Children(p) :
        Level[ResourceOf(p)] = 1 /\ Begin("scan_found", p, Key[Host], {r})

\* Peripheral::services.  Nothing is listed while the collector is marking.
Services ==
    \E p \in Proxies : \E listed \in SUBSET Children(p) :
        Level[ResourceOf(p)] = 2 /\ Begin("services", p, Key[Host], listed)

\* Service::characteristics.
Characteristics ==
    \E p \in Proxies : \E listed \in SUBSET Children(p) :
        Level[ResourceOf(p)] = 3 /\ Begin("characteristics", p, Key[Host], listed)

\* Peripheral::operator[] calls services() whenever it has a registry, that is always.
ServiceAt ==
    \E p \in Proxies, k \in Keys : \E listed \in SUBSET Children(p) :
        Level[ResourceOf(p)] = 2 /\ Begin("service_at", p, k, listed)

\* Mutant: Service::operator[] asks SimpleBLE again, as Peripheral::operator[] does.
CharacteristicAtAlwaysAsks ==
    \E p \in Proxies, k \in Keys : \E listed \in SUBSET Children(p) :
        Level[ResourceOf(p)] = 3 /\ Begin("characteristic_at", p, k, listed)

\* Service::operator[] calls characteristics() only for a UUID it has not got.
CharacteristicAt ==
    \E p \in Proxies, k \in Keys : \E listed \in SUBSET Children(p) :
        /\ Level[ResourceOf(p)] = 3
        /\ At(p, k) # 0 => listed = {}
        /\ Begin("characteristic_at", p, k, listed)

-----------------------------------------------------------------------------
(* Registry::fetch, once for each resource listed.                         *)

\* Mutant: the constructor passes on its own owner instead of itself.
FactoryRegistryOfOwner(r, p) ==
    IF Level[r] < 4 /\ owner[Index(r)] = Absent
    THEN [owner EXCEPT ![Index(r)] = owner[RegistryOf(call.on)]]
    ELSE owner

\* The constructor of a proxy asks the factory for the registry of its children,
\* which makes one, owned by this proxy, if there is none at its index.
FactoryRegistry(r, p) ==
    IF Level[r] < 4 /\ owner[Index(r)] = Absent
    THEN [owner EXCEPT ![Index(r)] = p]
    ELSE owner

\* The proxy that has been constructed and is not yet in a registry, 0 if there is none.
Making == IF call = NoCall THEN 0 ELSE call.made

\* The call is at the resource r of those listed.
Fetching(r) == call # NoCall /\ ~call.raised /\ Making = 0 /\ r \in call.todo

\* The key of r is not in the registry of the call.
Missing(r) == At(call.on, Key[r]) = 0

Fetched(r) == call' = [call EXCEPT !.todo = @ \ {r}]

FetchFound(r) ==
    /\ Fetching(r) /\ ~Missing(r)
    /\ Fetched(r)
    /\ UNCHANGED <<objs, owner, items>>

\* The new proxy of r and the registry of its children.
Construct(r, up) ==
    /\ objs' = Append(objs, [res |-> r, up |-> up])
    /\ owner' = FactoryRegistry(r, Len(objs) + 1)
    /\ call' = [call EXCEPT !.made = Len(objs) + 1]
    /\ UNCHANGED items

\* Mutant: fetch does not look whether the key is there.
FetchNewAlways(r) == Fetching(r) /\ Construct(r, owner[RegistryOf(call.on)])

\* Mutant: the owner is read from the registry that the constructor has yet to make.
FetchNewOwnerUnset(r) == Fetching(r) /\ Missing(r) /\ Construct(r, owner[Index(r)])

\* new ProxyClass(value, _owner).
FetchNew(r) == Fetching(r) /\ Missing(r) /\ Construct(r, owner[RegistryOf(call.on)])

\* The proxy that is made is the one of r.
MadeFor(r) == Making # 0 /\ objs[Making].res = r

\* Mutant: a peripheral a scan has found is wrapped and not put in the registry.
EmplaceUnlessFound(r) ==
    /\ MadeFor(r)
    /\ IF call.op = "scan_found" THEN items' = items
       ELSE items' = [items EXCEPT ![RegistryOf(call.on)][Key[r]] = Making]
    /\ call' = [call EXCEPT !.todo = @ \ {r}, !.made = 0]
    /\ UNCHANGED <<objs, owner>>

\* _registry->emplace, once the constructor has returned.
Emplace(r) ==
    /\ MadeFor(r)
    /\ items' = [items EXCEPT ![RegistryOf(call.on)][Key[r]] = Making]
    /\ call' = [call EXCEPT !.todo = @ \ {r}, !.made = 0]
    /\ UNCHANGED <<objs, owner>>

\* Mutant: the failure is swallowed and the loop goes on.
FetchThrowsSwallowed(r) ==
    /\ Fetching(r) /\ Missing(r) /\ Level[r] = 4
    /\ Fetched(r)
    /\ UNCHANGED <<objs, owner, items>>

\* The constructor of a characteristic subscribes to the device, which may fail:
\* nothing has been put in the registry and the call ends.
FetchThrows(r) ==
    /\ Fetching(r) /\ Missing(r) /\ Level[r] = 4
    /\ call' = [call EXCEPT !.raised = TRUE]
    /\ UNCHANGED <<objs, owner, items>>

\* SimpleBLE refuses to list: an adapter is gone, a peripheral is not connected.
\* A service has its characteristics at hand.
QueryThrows ==
    /\ call # NoCall /\ ~call.raised /\ Making = 0
    /\ call.op \in {"get_adapters", "scan_get_results", "services", "service_at"}
    /\ call.todo = call.asked
    /\ call' = [call EXCEPT !.raised = TRUE]
    /\ UNCHANGED <<objs, owner, items>>

\* Everything listed has been fetched.
Finished == call # NoCall /\ ~call.raised /\ call.todo = {}

\* A lookup has not found its key: at() throws std::out_of_range.
NotFound == Finished /\ call.op \in Lookups /\ At(call.on, call.key) = 0

\* Service::operator[] lets the exception go on.
LookupThrows ==
    /\ NotFound /\ call.op = "characteristic_at"
    /\ call' = [call EXCEPT !.raised = TRUE]
    /\ UNCHANGED <<objs, owner, items>>

\* The call returns, or the exception reaches Ruby; Peripheral::operator[] returns nil
\* for a key it has not found.
Return ==
    /\ call # NoCall
    /\ call.raised \/ (Finished /\ ~(NotFound /\ call.op = "characteristic_at"))
    /\ call' = NoCall
    /\ UNCHANGED <<objs, owner, items>>

Next ==
    \/ GetAdapters \/ ScanGetResults \/ ScanFound
    \/ Services \/ Characteristics \/ ServiceAt \/ CharacteristicAt
    \/ \E r \in Resources : FetchFound(r) \/ FetchNew(r) \/ Emplace(r) \/ FetchThrows(r)
    \/ QueryThrows \/ LookupThrows
    \/ Return

Spec == Init /\ [][Next]_vars

-----------------------------------------------------------------------------
(* What the calls return.                                                  *)

\* The proxies in the registry of p: services() and characteristics() return all of them.
Held(p) == {At(p, k) : k \in Keys} \ {0}

\* What the call under way returns once it is finished.  The scans map each
\* peripheral they were told of to a proxy; a lookup returns one proxy or none.
Answer ==
    CASE call.op \in {"services", "characteristics"} -> Held(call.on)
      [] call.op \in Lookups -> {At(call.on, call.key)} \ {0}
      [] OTHER -> {At(call.on, Key[r]) : r \in call.asked}

\* The peripherals DeInit disconnects: it walks the registries from the adapters down.
DeInitVisits == UNION {Held(a) : a \in Held(0)}

-----------------------------------------------------------------------------
(* Properties.                                                             *)

CallType ==
    [op : Listings \cup Lookups, on : 0..Len(objs), key : Keys, asked : SUBSET Resources,
     todo : SUBSET Resources, cached : BOOLEAN, made : 0..Len(objs), raised : BOOLEAN]

\* Every _owner and every registered proxy is a null pointer or a constructed
\* proxy, and a call is on one of them.
TypeOK ==
    /\ objs \in Seq([res : Resources, up : Nat])
    /\ \A p \in Proxies : objs[p].up < p
    /\ owner \in [RegIds -> 0..Len(objs) \cup {Absent}]
    /\ items \in [RegIds -> [Keys -> 0..Len(objs)]]
    /\ call \in CallType \cup {NoCall}

\* The registry a proxy keeps its children in is its own: the one the factory made
\* for it, not one that another proxy with the same hash had made before
\* (RegistryFactory::registry).
OwnRegistry ==
    \A p \in Proxies : Level[objs[p].res] < 4 => owner[RegistryOf(p)] = p

\* The owner of a proxy is the proxy of what SimpleBLE says its resource belongs
\* to, so that Characteristic::read -> Service::read -> Peripheral::read reaches the
\* device the characteristic was listed by.
Routed ==
    \A p \in Proxies : ResourceOf(objs[p].up) = Parent[objs[p].res]

\* A listing that returns has, for everything SimpleBLE listed, its proxy, and
\* nothing that belongs to another proxy; a lookup returns a child of its own
\* (Registry::map_to_objects, Peripheral::services, Service::characteristics).
AnswerIsRight ==
    Finished =>
        /\ \A a \in Answer : a \in Proxies /\ objs[a].up = call.on
        /\ \A r \in call.asked : \E a \in Held(call.on) : objs[a].res = r

\* However often and through whichever calls a resource is met, it has one proxy
\* (Registry::fetch returns what it found).
OneProxyEach ==
    \A p, q \in Proxies : objs[p].res = objs[q].res => p = q

\* Every peripheral the program ever held is disconnected by DeInit's walk; one whose
\* constructor runs is not in a registry yet, and the program has not got it.
ShutdownReachesAll ==
    \A p \in Proxies \ {Making} : Level[objs[p].res] = 2 => p \in DeInitVisits

\* A lookup of a proxy that exists cannot fail, whatever the device does.
CachedLookupWorks(op) ==
    (call # NoCall /\ call.op = op /\ call.cached) => ~call.raised

\* Service::operator[] answers from its registry when it can: neither the device nor
\* at() makes it fail.
CachedCharacteristicWorks == CachedLookupWorks("characteristic_at")

\* "only check SimpleBLE backend for descriptor if not already instantiated"
\* (Peripheral.cpp:98): Peripheral::operator[] answers from its registry when it can.
CachedServiceWorks == CachedLookupWorks("service_at")

-----------------------------------------------------------------------------
(* No two resources that have registries of the same level have addresses  *)
(* or UUIDs that hash alike, and no two children of a resource have the    *)
(* same key.  The characteristics of different services may.               *)

KeysUnique ==
    \A r, s \in Resources :
        /\ Level[r] = Level[s] /\ Level[r] < 4 /\ Hash[Key[r]] = Hash[Key[s]] => r = s
        /\ Parent[r] = Parent[s] /\ Key[r] = Key[s] => r = s

=============================================================================
