------------------------------- MODULE Access -------------------------------
(***************************************************************************)
(* What a program does with the proxies of Registries: reads, writes and   *)
(* subscriptions of a characteristic are forwarded to its service, from    *)
(* there to the peripheral, and SimpleBLE looks the resource up again by   *)
(* its UUIDs.  The descriptors of a characteristic are listed when they    *)
(* are first asked for.                                                    *)
(***************************************************************************)
EXTENDS Registries

CONSTANT Descs    \* UUIDs of descriptors

VARIABLES
    descs,      \* _descriptors of the characteristics that have been asked
    io          \* the last access, forgotten when something else happens

avars == <<vars, descs, io>>

Characteristic == {p \in Proxies : Level[objs[p].res] = 4}
NoIo == [op |-> "none"]

AccessInit == Init /\ io = NoIo /\ descs = << >>

-----------------------------------------------------------------------------
(* The way of an access.                                                   *)

\* SimpleBLE finds the resource of a peripheral that has these UUIDs.
Resolve(device, service, characteristic) ==
    {r \in Resources : /\ Level[r] = 4 /\ Key[r] = characteristic
                       /\ Key[Parent[r]] = service /\ Parent[Parent[r]] = device}

PeripheralAccess(p, service, characteristic) == Resolve(ResourceOf(p), service, characteristic)

\* Mutant: the UUID of the characteristic is passed for that of the service.
ServiceAccessSwapped(p, characteristic) ==
    PeripheralAccess(objs[p].up, characteristic, Key[ResourceOf(p)])

ServiceAccess(p, characteristic) ==
    PeripheralAccess(objs[p].up, Key[ResourceOf(p)], characteristic)

CharacteristicAccess(p) == ServiceAccess(objs[p].up, Key[ResourceOf(p)])

-----------------------------------------------------------------------------
(* Calls from Ruby, while no other is under way.                           *)

Reply(reply) ==
    /\ call = NoCall /\ io' = reply
    /\ UNCHANGED vars

\* read, write_request, write_command, unsubscribe, and the constructor's notify and indicate.
Forward(p) ==
    Reply([op |-> "forward", by |-> p, reached |-> CharacteristicAccess(p)]) /\ UNCHANGED descs

\* Mutant: a descriptor of this UUID that exists is used again, as the factories do with
\* registries.
NewDescriptorShared(p, d) ==
    LET made == {q \in DOMAIN descs : d \in DOMAIN descs[q]}
    IN  IF made = {} THEN [uuid |-> d, up |-> p] ELSE descs[CHOOSE q \in made : TRUE][d]

\* Descriptor's constructor: _uuid and _owner.
NewDescriptor(p, d) == [uuid |-> d, up |-> p]

\* make_map of what SimpleBLE lists at that time, once.
Listed(p, D) ==
    IF p \in DOMAIN descs THEN descs
    ELSE [q \in DOMAIN descs \cup {p} |->
             IF q = p THEN [d \in D |-> NewDescriptor(p, d)] ELSE descs[q]]

\* descriptors(), and operator[], which lists them for a descriptor that it does not find and
\* throws if that does not help.
ListDescriptors(p) ==
    /\ Reply(NoIo)
    /\ \E D \in SUBSET Descs : descs' = Listed(p, D)

\* Descriptor::read and write of what the map of p has at d: they go to the characteristic
\* that the descriptor knows, with the UUID it knows.
ForwardDescriptor(p, d) ==
    /\ p \in DOMAIN descs /\ d \in DOMAIN descs[p]
    /\ Reply([op |-> "descriptor", by |-> p, desc |-> d,
               reached |-> CharacteristicAccess(descs[p][d].up) \X {descs[p][d].uuid}])
    /\ UNCHANGED descs

Fetches == Next /\ io' = NoIo /\ UNCHANGED descs

AccessNext ==
    \/ Fetches
    \/ \E p \in Characteristic :
          Forward(p) \/ ListDescriptors(p) \/ \E d \in Descs : ForwardDescriptor(p, d)

AccessSpec == AccessInit /\ [][AccessNext]_avars

-----------------------------------------------------------------------------
(* Properties.                                                             *)

\* An access reaches the resource its proxy was made for and no other, whatever was
\* fetched before and through whichever registries, and though UUIDs occur on other devices
\* (Characteristic.cpp:62-78, Service.cpp:49-86, Peripheral.cpp:107-145).
ReachesOwn == io.op = "forward" => io.reached = {ResourceOf(io.by)}

\* A descriptor that a characteristic gave to the program is read and written on that very
\* characteristic, though others have one of the same UUID and whatever was listed first: its
\* own _owner and theirs lead there (Descriptor.cpp:13-15, Descriptor::make_map).
DescriptorsReachOwn ==
    io.op = "descriptor" => io.reached = {<<ResourceOf(io.by), io.desc>>}

=============================================================================
