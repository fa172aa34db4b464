------------------------------ MODULE Marking ------------------------------
(***************************************************************************)
(* What Ruby's collector keeps for the sake of a proxy that the program    *)
(* holds: the ruby_mark functions (utils/garbage_collection.cpp and the    *)
(* bindings), over the proxies and registries of Registries.               *)
(*                                                                         *)
(* A collection may come between any two steps of a call.  The collector   *)
(* calls ruby_mark of an object that is reached, which marks other Ruby    *)
(* objects and descends into what is in the registries.                    *)
(***************************************************************************)
EXTENDS Registries

Self(p) == <<"self", p>>           \* the Ruby object of a proxy
Object(id) == <<"registry", id>>   \* the Ruby object of a registry

\* The slots for a proc that the constructors give to SimpleBLE: what the device does is
\* pushed as a closure that fires the slot.
AdapterSlots == {"on_scan_start", "on_scan_stop", "on_scan_update", "on_scan_find"}
PeripheralSlots == {"on_connected", "on_disconnected"}
CharacteristicSlots == {"on_notify", "on_indicate"}

\* The procs in those slots of a proxy.
Callbacks(slots, p) == {<<slot, p>> : slot \in slots}

\* Nothing is fetched during a collection: services() and characteristics() are what is held.
\* For a descriptor there is no specialisation of Rice::ruby_mark.
MarkCharacteristic(p) == {Self(p)} \cup Callbacks(CharacteristicSlots, p)

\* Mutant: a service marks only itself.
MarkServiceAlone(p) == {Self(p)}

MarkService(p) == {Self(p)} \cup UNION {MarkCharacteristic(c) : c \in Held(p)}

\* Registry::ruby_mark: the registry's object, then each proxy by its own ruby_mark.
MarkRegistry(p, marks) == {Object(RegistryOf(p))} \cup UNION marks

MarkPeripheral(p) ==
    {Self(p)} \cup Callbacks(PeripheralSlots, p) \cup MarkRegistry(p, {MarkService(q) : q \in Held(p)})

\* The adapter's own object is not marked (Adapter.cpp:160).
MarkAdapter(p) ==
    Callbacks(AdapterSlots, p) \cup MarkRegistry(p, {MarkPeripheral(q) : q \in Held(p)})

\* The specialisation of Rice::ruby_mark for the class of p.
ruby_mark(p) ==
    CASE Level[ResourceOf(p)] = 1 -> MarkAdapter(p)
      [] Level[ResourceOf(p)] = 2 -> MarkPeripheral(p)
      [] Level[ResourceOf(p)] = 3 -> MarkService(p)
      [] Level[ResourceOf(p)] = 4 -> MarkCharacteristic(p)

-----------------------------------------------------------------------------
(* Properties.                                                             *)

\* _owner of a proxy; the adapters have none.
Owner(p) == IF p = 0 THEN 0 ELSE objs[p].up

\* The proxies a C++ pointer leads from p to: its _owner and so on upwards, four levels at most.
Above(p) == {Owner(p), Owner(Owner(p)), Owner(Owner(Owner(p))), Owner(Owner(Owner(Owner(p))))}

\* While the program holds a proxy, the objects of everything below it and the procs that
\* will be called for them are kept, although the pointers go upwards and the program may
\* have dropped them all: on_notify fires with a live proc and self().  Nothing but the
\* machine's stack keeps a proxy whose constructor runs (Making).
KeptWithOwner ==
    \A q \in Proxies \ {Making} : \A p \in Above(q) \ {0} :
        /\ Self(q) \in ruby_mark(p)
        /\ Level[objs[q].res] = 2 => Callbacks(PeripheralSlots, q) \subseteq ruby_mark(p)
        /\ Level[objs[q].res] = 4 => Callbacks(CharacteristicSlots, q) \subseteq ruby_mark(p)
=============================================================================
