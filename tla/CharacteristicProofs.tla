------------------------ MODULE CharacteristicProofs ------------------------
(***************************************************************************)
(* What last_value and the listener can rely on, for any values, any       *)
(* capabilities and any number of closures that wait; what the sets of     *)
(* named bits tell, for any fields, testers and listings; and what numbers *)
(* a byte array is taken for, in any base, of any width and length.        *)
(***************************************************************************)
EXTENDS Notifications, NamedBits, ByteArrays, Inductions, SequenceTheorems,
        FiniteSetTheorems, TLAPS

Closure == [kind : {"notify", "indicate"}, data : Values]

\* Values are tracked only if they are notified.
TracksNotified == value_tracking => "notify" \in Caps

\* A closure that has waited alone carries the value the device holds, if it was notified.
AloneIsCurrent ==
    burst <= 1 =>
        /\ Len(queue) <= 1
        /\ queue # << >> /\ via = "notify" =>
               queue[1].kind = "notify" /\ queue[1].data = device

\* No closure runs while a read is under way: if none waits, the device has not notified
\* since it answered.
ReadIsCurrent == reading # NoValue /\ queue = << >> /\ via = "notify" => reading = device

NotifyInv ==
    /\ NotificationsTypeOK /\ ValueOnlyWhileTracking /\ ListenerCurrent /\ FreshAfterQuiet
    /\ TracksNotified /\ AloneIsCurrent /\ ReadIsCurrent

-----------------------------------------------------------------------------
(* The queue of closures.                                                  *)

LEMMA PushFacts ==
    ASSUME NEW s \in Seq(Closure), NEW c \in Closure
    PROVE  /\ Append(s, c) \in Seq(Closure) /\ Append(s, c) # << >>
           /\ Len(Append(s, c)) = Len(s) + 1
           /\ s = << >> => Append(s, c)[1] = c
    <1>1. Append(s, c) \in Seq(Closure) /\ Len(Append(s, c)) = Len(s) + 1 /\ Len(s) \in Nat
        OBVIOUS
    <1>2. Append(s, c)[Len(s) + 1] = c
        OBVIOUS
    <1>3. Append(s, c) # << >>
        BY <1>1, EmptySeq
    <1>4. s = << >> => Len(s) = 0
        BY EmptySeq
    <1> QED BY <1>1, <1>2, <1>3, <1>4

LEMMA PopFacts ==
    ASSUME NEW s \in Seq(Closure), s # << >>
    PROVE  /\ SubSeq(s, 1, Len(s) - 1) \in Seq(Closure)
           /\ Len(SubSeq(s, 1, Len(s) - 1)) = Len(s) - 1
           /\ Len(s) >= 1
           /\ s[Len(s)] \in Closure
    <1>1. Len(s) \in Nat \ {0}
        BY EmptySeq
    <1>2. \A i \in 1..Len(s) : s[i] \in Closure
        OBVIOUS
    <1> DEFINE n == Len(s) - 1
    <1>3. n \in Int /\ 1 \in Int /\ \A i \in 1..n : s[i] \in Closure
        <2>1. n \in Nat /\ \A i \in 1..n : i \in 1..Len(s)
            BY <1>1
        <2> QED BY <2>1, <1>2
    <1> HIDE DEF n
    <1>4. SubSeq(s, 1, n) \in Seq(Closure) /\ Len(SubSeq(s, 1, n)) = IF 1 <= n THEN n - 1 + 1 ELSE 0
        BY <1>3, SubSeqProperties
    <1>5. n \in Nat
        BY <1>1 DEF n
    <1>7. Len(SubSeq(s, 1, n)) = n
        BY <1>4, <1>5
    <1>6. s[Len(s)] \in Closure
        BY <1>1, <1>2
    <1> QED BY <1>1, <1>4, <1>6, <1>7 DEF n

LEMMA NotifyInit == NotificationsInit => NotifyInv
    <1> SUFFICES ASSUME NotificationsInit
                 PROVE  NotifyInv
        OBVIOUS
    <1>1. queue = << >> /\ queue \in Seq(Closure) /\ Len(queue) = 0
        BY EmptySeq DEF NotificationsInit
    <1>2. NotificationsTypeOK
        <2>1. Len(queue) <= MaxPending /\ burst \in 0..2
            BY <1>1, MaxPendingAssumption DEF NotificationsInit
        <2>2. {value, reading, known, call} \subseteq Values \cup {NoValue}
            BY DEF NotificationsInit
        <2>3. armed \in BOOLEAN
            BY DEF NotificationsInit
        <2> QED BY <1>1, <2>1, <2>2, <2>3 DEF NotificationsInit, NotificationsTypeOK, Closure
    <1> QED BY <1>1, <1>2
        DEF NotificationsInit, NotifyInv, ValueOnlyWhileTracking, ListenerCurrent, FreshAfterQuiet,
            TracksNotified, AloneIsCurrent, ReadIsCurrent, value_tracking

\* What record_new_value leaves in _value.
LEMMA RecordedType ==
    ASSUME NotifyInv, NEW v \in Values
    PROVE  /\ Recorded(v) \in Values \cup {NoValue}
           /\ Recorded(v) # NoValue => value_tracking /\ Recorded(v) = v
    BY ValuesAssumption DEF NotifyInv, NotificationsTypeOK, ValueOnlyWhileTracking, Recorded

-----------------------------------------------------------------------------
(* The device sends, is changed, or its link is.                           *)

LEMMA SendStep ==
    ASSUME NotifyInv, NEW v \in Values, NEW kind \in {"notify", "indicate"}, DeviceSends(kind, v)
    PROVE  NotifyInv'
    <1> DEFINE c == [kind |-> kind, data |-> v]
    <1>1. c \in Closure
        BY DEF Closure
    <1>2. queue' = Append(queue, c) /\ Len(queue) < MaxPending
        BY DEF DeviceSends, Push
    <1>3. queue \in Seq(Closure)
        BY DEF NotifyInv, NotificationsTypeOK, Closure
    <1>4. /\ queue' \in Seq(Closure) /\ queue' # << >> /\ Len(queue') = Len(queue) + 1
          /\ queue = << >> => queue'[1] = c
        BY <1>1, <1>2, <1>3, PushFacts
    <1>5. Len(queue') <= MaxPending
        BY <1>2, <1>3, <1>4, MaxPendingAssumption
    <1>6. NotificationsTypeOK'
        BY <1>4, <1>5 DEF NotifyInv, NotificationsTypeOK, DeviceSends, Push, Closure
    <1>7. AloneIsCurrent'
        BY <1>3, <1>4 DEF DeviceSends, Push, AloneIsCurrent
    <1> QED BY <1>4, <1>6, <1>7
        DEF NotifyInv, DeviceSends, ValueOnlyWhileTracking, ListenerCurrent, FreshAfterQuiet,
            TracksNotified, ReadIsCurrent, value_tracking

-----------------------------------------------------------------------------
(* The loop takes the newest closure.                                      *)

\* What is left in the queue by a pop, and what the closure was.
LEMMA PopStep ==
    ASSUME NotifyInv, NEW kind \in {"notify", "indicate"}, NextClosure(kind), Pop
    PROVE  /\ queue' \in Seq(Closure) /\ Len(queue') = Len(queue) - 1 /\ Len(queue) >= 1
           /\ Len(queue') <= MaxPending
           /\ queue[Len(queue)].data \in Values
           /\ burst <= 1 => queue' = << >>
           /\ burst <= 1 /\ via = "notify" => kind = "notify" /\ queue[Len(queue)].data = device
    <1>1. queue \in Seq(Closure) /\ queue # << >>
        BY DEF NotifyInv, NotificationsTypeOK, Closure, NextClosure
    <1>2. queue' \in Seq(Closure) /\ Len(queue') = Len(queue) - 1 /\ Len(queue) >= 1
          /\ queue[Len(queue)] \in Closure
        BY <1>1, PopFacts DEF Pop
    <1>3. burst <= 1 => Len(queue) = 1
        BY <1>1, <1>2 DEF NotifyInv, AloneIsCurrent
    <1>4. burst <= 1 => queue' = << >>
        <2>1. ASSUME burst <= 1
              PROVE  Len(queue') = 0
            <3>1. Len(queue') = Len(queue) - 1
                BY <1>2
            <3> QED BY <1>3, <2>1, <3>1
        <2> QED BY <1>2, <2>1, EmptySeq
    <1>5. Len(queue') <= MaxPending
        BY <1>1, <1>2, MaxPendingAssumption DEF NotifyInv, NotificationsTypeOK
    <1>6. burst <= 1 /\ via = "notify" => kind = "notify" /\ queue[Len(queue)].data = device
        BY <1>1, <1>3 DEF NotifyInv, AloneIsCurrent, NextClosure
    <1> QED BY <1>2, <1>4, <1>5, <1>6 DEF Closure

LEMMA NotifyStep ==
    ASSUME NotifyInv, fire_on_notify
    PROVE  NotifyInv'
    <1> DEFINE v == queue[Len(queue)].data
    <1>1. NextClosure("notify") /\ Pop
        BY DEF fire_on_notify
    <1>2. /\ queue' \in Seq(Closure) /\ Len(queue') <= MaxPending /\ v \in Values
          /\ burst <= 1 => queue' = << >>
          /\ burst <= 1 /\ via = "notify" => v = device
        BY <1>1, PopStep
    <1>3. value' = Recorded(v) /\ known' \in {v, known} /\ call' \in {v, NoValue}
          /\ (Changed(v) /\ armed => known' = v)
          /\ (~(Changed(v) /\ armed) => known' = known)
        BY DEF fire_on_notify
    <1>4. UNCHANGED <<deviceVars, tracking, reading, armed, burst>> /\ reading = NoValue
        BY <1>1 DEF fire_on_notify, Pop, NextClosure
    <1>5. value' \in Values \cup {NoValue} /\ (value' # NoValue => value_tracking /\ value' = v)
        BY <1>2, <1>3, RecordedType
    <1>6. NotificationsTypeOK'
        BY <1>2, <1>3, <1>4, <1>5 DEF NotifyInv, NotificationsTypeOK, Closure, deviceVars
    <1>7. ListenerCurrent'
        BY <1>2, <1>3, <1>4, <1>5, ValuesAssumption
        DEF NotifyInv, ListenerCurrent, ValueOnlyWhileTracking, Changed, Recorded
    <1>8. FreshAfterQuiet' /\ AloneIsCurrent'
        BY <1>2, <1>4, <1>5 DEF FreshAfterQuiet, AloneIsCurrent, deviceVars
    <1> QED BY <1>4, <1>5, <1>6, <1>7, <1>8
        DEF NotifyInv, ValueOnlyWhileTracking, TracksNotified, ReadIsCurrent, value_tracking

LEMMA IndicateStep ==
    ASSUME NotifyInv, fire_on_indicate
    PROVE  NotifyInv'
    <1>1. NextClosure("indicate") /\ Pop
        BY DEF fire_on_indicate
    <1>2. /\ queue' \in Seq(Closure) /\ Len(queue') <= MaxPending
          /\ burst <= 1 => queue' = << >>
          /\ ~(burst <= 1 /\ via = "notify")
        BY <1>1, PopStep
    <1>3. /\ UNCHANGED <<deviceVars, tracking, value, reading, armed, known, burst>>
          /\ reading = NoValue /\ call' = NoValue
        BY <1>1 DEF fire_on_indicate, Pop, NextClosure
    <1>4. NotificationsTypeOK'
        BY <1>2, <1>3 DEF NotifyInv, NotificationsTypeOK, Closure, deviceVars
    <1>5. FreshAfterQuiet' /\ AloneIsCurrent'
        BY <1>2, <1>3 DEF FreshAfterQuiet, AloneIsCurrent, deviceVars
    <1> QED BY <1>3, <1>4, <1>5
        DEF NotifyInv, ValueOnlyWhileTracking, ListenerCurrent, TracksNotified, ReadIsCurrent,
            value_tracking

-----------------------------------------------------------------------------

LEMMA InvStep ==
    ASSUME NotifyInv, [NotificationsNext]_notificationsVars
    PROVE  NotifyInv'
    <1> USE ValuesAssumption
            DEF NotifyInv, NotificationsTypeOK, ValueOnlyWhileTracking, ListenerCurrent, FreshAfterQuiet,
                TracksNotified, AloneIsCurrent, ReadIsCurrent, value_tracking, deviceVars
    <1>1. ASSUME NEW v \in Values, DeviceSends("notify", v) \/ DeviceSends("indicate", v)
          PROVE  NotifyInv'
        BY <1>1, SendStep
    <1>2. ASSUME NEW v \in Values, DeviceChanges(v)
          PROVE  NotifyInv'
        BY <1>2 DEF DeviceChanges
    <1>3. CASE LinkChanges
        BY <1>3 DEF LinkChanges
    <1>4. CASE fire_on_notify
        BY <1>4, NotifyStep
    <1>5. CASE fire_on_indicate
        BY <1>5, IndicateStep
    <1>6. CASE ReadCached
        BY <1>6 DEF ReadCached
    <1>7. CASE ReadBegin
        BY <1>7 DEF ReadBegin
    <1>8. CASE ReadEnd
        <2>1. reading \in Values
            BY <1>8 DEF ReadEnd
        <2>2. value' \in Values \cup {NoValue} /\ (value' # NoValue => value_tracking /\ value' = reading)
            BY <1>8, <2>1, RecordedType DEF ReadEnd
        <2> QED BY <1>8, <2>1, <2>2 DEF ReadEnd
    <1>9. CASE ReadThrows
        BY <1>9 DEF ReadThrows
    <1>10. ASSUME NEW b \in BOOLEAN, set_value_tracking(b)
           PROVE  NotifyInv'
        BY <1>10 DEF set_value_tracking
    <1>11. ASSUME NEW b \in BOOLEAN, set_on_notify(b)
           PROVE  NotifyInv'
        BY <1>11 DEF set_on_notify
    <1>12. CASE UNCHANGED notificationsVars
        BY <1>12 DEF notificationsVars
    <1> QED BY <1>1, <1>2, <1>3, <1>4, <1>5, <1>6, <1>7, <1>8, <1>9, <1>10, <1>11, <1>12 DEF NotificationsNext

LEMMA NotifyInvariant == NotificationsSpec => []NotifyInv
    <1>1. NotifyInv /\ [NotificationsNext]_notificationsVars => NotifyInv'
        BY InvStep
    <1> QED BY <1>1, NotifyInit, PTL DEF NotificationsSpec

\* Every variable holds a value of its kind, the queue closures within its bound.
THEOREM TypeCorrect == NotificationsSpec => []NotificationsTypeOK
    BY NotifyInvariant, PTL DEF NotifyInv

\* last_value is there only while the values of the characteristic are notified and tracked
\* (CharacteristicValueTracker::set_value_tracking).
THEOREM ValueIsTracked == NotificationsSpec => []ValueOnlyWhileTracking
    BY NotifyInvariant, PTL DEF NotifyInv

\* A program that listens knows last_value, in whatever order the closures run
\* (Characteristic::fire_on_notify).
THEOREM ListenerKnows == NotificationsSpec => []ListenerCurrent
    BY NotifyInvariant, PTL DEF NotifyInv

\* A value notified while no other closure waited is last_value once it has run, whatever
\* reads were under way (Characteristic::read, fire_on_notify).
THEOREM QuietIsFresh == NotificationsSpec => []FreshAfterQuiet
    BY NotifyInvariant, PTL DEF NotifyInv

\* The callback is not given what the program was told last (Characteristic::fire_on_notify).
THEOREM NeverRepeats == NotificationsSpec => NoRepeat
    <1> DEFINE Fresh == call' # NoValue /\ value \notin {NoValue, Empty} => call' # known
    <1>1. NotifyInv /\ [NotificationsNext]_notificationsVars => [Fresh]_notificationsVars
        <2> SUFFICES ASSUME NotifyInv, NotificationsNext, call' # NoValue, value \notin {NoValue, Empty}
                     PROVE  call' # known
            OBVIOUS
        <2>1. fire_on_notify
            BY DEF NotificationsNext, DeviceSends, DeviceChanges, LinkChanges, fire_on_indicate, ReadCached,
                ReadBegin, ReadEnd, ReadThrows, set_value_tracking, set_on_notify
        <2>2. Changed(queue[Len(queue)].data) /\ armed /\ call' = queue[Len(queue)].data
            BY <2>1 DEF fire_on_notify
        <2>3. known = value /\ value_tracking
            BY <2>2 DEF NotifyInv, ListenerCurrent, ValueOnlyWhileTracking
        <2> QED BY <2>2, <2>3 DEF Changed
    <1> QED BY <1>1, NotifyInvariant, PTL DEF NotificationsSpec, NoRepeat

-----------------------------------------------------------------------------
(* The sets of named bits.                                                 *)

\* Every field has an index of its own.
LEMMA IndexOf ==
    /\ \A n \in Names : index_of(n) \in DOMAIN Fields /\ Fields[index_of(n)] = n
    /\ \A m, n \in Names : index_of(m) = index_of(n) => m = n
    BY DEF Names, ToSet, index_of

\* The names of the bits set for some fields are those fields.
LEMMA NamesOfIndices ==
    ASSUME NEW S \in SUBSET Names
    PROVE  flag_names({index_of(n) : n \in S}) = S
    BY IndexOf DEF flag_names

\* What has been asked of the device so far, and answered as it then was.
AskedSoFar ==
    LET asked == Testers \ todo
    IN  /\ todo \subseteq Testers /\ asked \subseteq Names
        /\ bits \subseteq {index_of(n) : n \in asked}
        /\ \A n \in asked : IF index_of(n) \in bits THEN n \in sawTrue ELSE n \in sawFalse

\* The device is, at every moment of a call, as it was at some moment of it.
Witnessed == status \subseteq sawTrue /\ Testers \ status \subseteq sawFalse

\* _capabilities holds what was listed.
CapsAreListed == caps # None => listed \subseteq Names /\ caps = {index_of(n) : n \in listed}

BitsInv ==
    /\ status \subseteq Testers
    /\ todo # None => AskedSoFar /\ Witnessed
    /\ CapsAreListed /\ FirstListingKept

LEMMA BitsInit == NamedBitsInit => BitsInv
    BY DEF NamedBitsInit, BitsInv, CapsAreListed, FirstListingKept

\* A tester that is asked sets the bit of its own name or leaves it, and no other.
LEMMA TestStep ==
    ASSUME BitsInv, NEW name \in Testers, Test(name)
    PROVE  BitsInv'
    <1> DEFINE asked == Testers \ todo
    <1>1. /\ todo # None /\ name \in todo /\ name \in Names /\ todo' = todo \ {name}
          /\ bits' = IF name \in status THEN bits \cup {index_of(name)} ELSE bits \ {index_of(name)}
          /\ UNCHANGED <<status, caps, answer, sawTrue, sawFalse, listed>>
        BY DEF Test, Assigned
    <1>2. AskedSoFar /\ Witnessed
        BY <1>1 DEF BitsInv
    <1>3. Testers \ todo' = asked \cup {name}
        BY <1>1
    <1>4. \A n \in asked : index_of(n) # index_of(name) \/ n = name
        BY <1>1, <1>2, IndexOf DEF AskedSoFar
    <1>5. \A n \in asked : n # name
        BY <1>1
    <1>6. \A n \in asked : index_of(n) \in bits' <=> index_of(n) \in bits
        BY <1>1, <1>4, <1>5
    <1>7. index_of(name) \in bits' <=> name \in status
        BY <1>1
    <1>8. \A n \in asked \cup {name} : IF index_of(n) \in bits' THEN n \in sawTrue ELSE n \in sawFalse
        BY <1>2, <1>6, <1>7 DEF AskedSoFar, Witnessed
    <1>9. bits' \subseteq {index_of(n) : n \in asked \cup {name}}
        BY <1>1, <1>2 DEF AskedSoFar
    <1>10. AskedSoFar'
        BY <1>1, <1>2, <1>3, <1>8, <1>9 DEF AskedSoFar
    <1> QED BY <1>1, <1>2, <1>10 DEF BitsInv, Witnessed, CapsAreListed, FirstListingKept

\* The first listing is kept as indices, and told as names.
LEMMA CapabilitiesStep ==
    ASSUME BitsInv, NEW names \in Listings, Capabilities(names)
    PROVE  BitsInv'
    <1>1. UNCHANGED <<status, statusCall>> /\ answer' = <<"capabilities", flag_names(caps')>>
        BY DEF Capabilities
    <1>2. caps' = {index_of(n) : n \in listed'} /\ listed' \subseteq Names
        <2>1. CASE caps = None
            <3>1. /\ ToSet(names) \subseteq Names /\ listed' = ToSet(names)
                  /\ caps' = {index_of(names[i]) : i \in DOMAIN names}
                BY <2>1 DEF Capabilities
            <3> QED BY <3>1 DEF ToSet
        <2>2. CASE caps # None
            BY <2>2 DEF Capabilities, BitsInv, CapsAreListed
        <2> QED BY <2>1, <2>2
    <1>3. answer'[2] = listed'
        BY <1>1, <1>2, NamesOfIndices
    <1> QED BY <1>1, <1>2, <1>3
        DEF BitsInv, AskedSoFar, Witnessed, CapsAreListed, FirstListingKept, statusCall

LEMMA BitsStep ==
    ASSUME BitsInv, [NamedBitsNext]_namedBitsVars
    PROVE  BitsInv'
    <1> USE DEF BitsInv, AskedSoFar, Witnessed, CapsAreListed, FirstListingKept
    <1>1. ASSUME NEW s \in SUBSET Testers, Changes(s)
          PROVE  BitsInv'
        BY <1>1 DEF Changes
    <1>2. CASE StatusBegin
        BY <1>2 DEF StatusBegin
    <1>3. ASSUME NEW name \in Testers, Test(name)
          PROVE  BitsInv'
        BY <1>3, TestStep
    <1>4. CASE TestThrows
        BY <1>4 DEF TestThrows
    <1>5. CASE StatusEnd
        BY <1>5 DEF StatusEnd
    <1>6. ASSUME NEW names \in Listings, CapabilitiesThrow(names)
          PROVE  BitsInv'
        BY <1>6 DEF CapabilitiesThrow, statusCall
    <1>7. ASSUME NEW names \in Listings, Capabilities(names)
          PROVE  BitsInv'
        BY <1>7, CapabilitiesStep
    <1>8. CASE UNCHANGED namedBitsVars
        BY <1>8 DEF namedBitsVars, statusCall
    <1> QED BY <1>1, <1>2, <1>3, <1>4, <1>5, <1>6, <1>7, <1>8 DEF NamedBitsNext

LEMMA BitsInvariant == NamedBitsSpec => []BitsInv
    <1>1. BitsInv /\ [NamedBitsNext]_namedBitsVars => BitsInv'
        BY BitsStep
    <1> QED BY <1>1, BitsInit, PTL DEF NamedBitsSpec

\* The capabilities told are those of the first listing that could be read
\* (Characteristic::capabilities, NamedBitSet's constructor from a list of names).
THEOREM ListingKept == NamedBitsSpec => []FirstListingKept
    BY BitsInvariant, PTL DEF BitsInv

\* A flag told of was true, one left out false, at some time of the call, whatever the order
\* of the testers and the changes between them (Peripheral::statuses).
THEOREM FlagsAreWitnessed == NamedBitsSpec => FlagsWitnessed
    <1> DEFINE Told == answer'[2]
    <1>1. BitsInv /\ [NamedBitsNext]_namedBitsVars =>
             [StatusEnd => Told \subseteq sawTrue /\ Testers \ Told \subseteq sawFalse]_namedBitsVars
        <2> SUFFICES ASSUME BitsInv, StatusEnd
                     PROVE  Told \subseteq sawTrue /\ Testers \ Told \subseteq sawFalse
            OBVIOUS
        <2>1. todo = {} /\ todo # None /\ Told = flag_names(bits)
            BY TestersAssumption DEF StatusEnd
        <2>2. /\ Testers \subseteq Names /\ bits \subseteq {index_of(n) : n \in Testers}
              /\ \A n \in Testers : IF index_of(n) \in bits THEN n \in sawTrue ELSE n \in sawFalse
            BY <2>1 DEF BitsInv, AskedSoFar
        <2>3. \A n \in Told : n \in Testers /\ index_of(n) \in bits
            BY <2>1, <2>2, IndexOf DEF flag_names
        <2>4. \A n \in Testers \ Told : index_of(n) \notin bits
            BY <2>1, <2>2 DEF flag_names
        <2> QED BY <2>2, <2>3, <2>4
    <1> QED BY <1>1, BitsInvariant, PTL DEF NamedBitsSpec, FlagsWitnessed

-----------------------------------------------------------------------------
(* Powers and sums.                                                        *)

\* Products and sums of natural numbers.
LEMMA Product ==
    ASSUME NEW a \in Nat, NEW b \in Nat
    PROVE  a * b \in Nat /\ a + b \in Nat
    OBVIOUS

\* A digit of base b, and what is less than a one in its place.
LEMMA DigitFits ==
    ASSUME NEW r \in Nat, NEW p \in Nat, NEW d \in Nat, NEW b \in Nat, r < p, d <= b - 1
    PROVE  r + d * p < b * p
    <1>1. d * p <= (b - 1) * p
        OBVIOUS
    <1>2. (b - 1) * p = b * p - p
        OBVIOUS
    <1>3. d * p \in Nat /\ b * p \in Nat
        BY Product
    <1> QED BY <1>1, <1>2, <1>3

\* The powers of the base.
LEMMA Powers ==
    /\ Power \in [Nat -> Nat \ {0}]
    /\ Power[0] = 1
    /\ \A n \in Nat : Power[n + 1] = Base * Power[n]
    <1> DEFINE P == Nat \ {0}
               g == [n \in Nat |-> [x \in P |-> Base * x]]
    <1>1. g \in [Nat -> [P -> P]]
        BY BaseAssumption
    <1>2. PICK f \in [Nat -> P] : f[0] = 1 /\ \A n \in Nat : f[n + 1] = g[n][f[n]]
        <2>1. g \in Steps(P) /\ 1 \in P
            BY <1>1 DEF Steps
        <2> HIDE DEF g, P
        <2>2. Iterated(P, 1, g) # {}
            BY <2>1, Recursion
        <2> QED BY <2>2 DEF Iterated
    <1>3. \A n \in Nat : f[n + 1] = Base * f[n]
        BY <1>2
    <1>4. f = [n \in Nat |-> IF n = 0 THEN 1 ELSE Base * f[n - 1]]
        <2>1. \A n \in Nat : f[n] = IF n = 0 THEN 1 ELSE Base * f[n - 1]
            <3> SUFFICES ASSUME NEW n \in Nat, n # 0 PROVE f[n] = Base * f[n - 1]
                BY <1>2
            <3>1. n - 1 \in Nat /\ (n - 1) + 1 = n
                OBVIOUS
            <3> QED BY <3>1, <1>3
        <2> QED BY <2>1
    <1>5. Power = [n \in Nat |-> IF n = 0 THEN 1 ELSE Base * Power[n - 1]]
        BY <1>4 DEF Power
    <1>6. Power[0] = 1 /\ \A n \in Nat : Power[n + 1] = Base * Power[n]
        BY <1>5
    <1>7. \A n \in Nat : Power[n] \in Nat \ {0}
        <2> DEFINE Good == {n \in Nat : Power[n] \in Nat \ {0}}
        <2>1. 0 \in Good
            BY <1>6
        <2>2. ASSUME NEW n \in Nat, n \in Good PROVE n + 1 \in Good
            BY <2>2, <1>6, BaseAssumption
        <2> HIDE DEF Good
        <2>3. \A n \in Nat : n \in Good
            BY <2>1, <2>2, Induction
        <2> QED BY <2>3 DEF Good
    <1>8. Power \in [Nat -> Nat \ {0}]
        BY <1>5, <1>7
    <1> QED BY <1>6, <1>8

\* The sums over a sequence of bytes.
LEMMA SumsDef ==
    ASSUME NEW s \in Seq(Bytes)
    PROVE  /\ Sums(s) \in [0..Len(s) -> Nat]
           /\ Sums(s)[0] = 0
           /\ \A n \in 0..(Len(s) - 1) : Sums(s)[n + 1] = Sums(s)[n] + s[n + 1] * Power[n]
    <1> DEFINE g == [n \in Nat |-> [x \in Nat |-> x + (IF n < Len(s) THEN s[n + 1] * Power[n] ELSE 0)]]
               Eq(f) == f = [n \in 0..Len(s) |-> IF n = 0 THEN 0 ELSE f[n - 1] + s[n] * Power[n - 1]]
    <1>0. Len(s) \in Nat /\ \A n \in 1..Len(s) : s[n] \in Nat
        BY BaseAssumption DEF Bytes
    <1>1. g \in [Nat -> [Nat -> Nat]]
        <2>1. ASSUME NEW n \in Nat, n < Len(s) PROVE s[n + 1] * Power[n] \in Nat
            <3>1. s[n + 1] \in Nat /\ Power[n] \in Nat
                BY <2>1, <1>0, Powers
            <3> QED BY <3>1, Product
        <2> QED BY <2>1
    <1>2. PICK f \in [Nat -> Nat] : f[0] = 0 /\ \A n \in Nat : f[n + 1] = g[n][f[n]]
        <2>1. g \in Steps(Nat) /\ 0 \in Nat
            BY <1>1 DEF Steps
        <2> HIDE DEF g
        <2>2. Iterated(Nat, 0, g) # {}
            BY <2>1, Recursion
        <2> QED BY <2>2 DEF Iterated
    <1> DEFINE h == [n \in 0..Len(s) |-> f[n]]
    <1>3. \A n \in 0..(Len(s) - 1) : f[n + 1] = f[n] + s[n + 1] * Power[n]
        <2> SUFFICES ASSUME NEW n \in 0..(Len(s) - 1) PROVE f[n + 1] = f[n] + s[n + 1] * Power[n]
            OBVIOUS
        <2>1. n \in Nat /\ n < Len(s) /\ f[n] \in Nat
            BY <1>0
        <2>2. f[n + 1] = g[n][f[n]]
            BY <2>1, <1>2
        <2> QED BY <2>1, <2>2
    <1>4. Eq(h)
        <2>1. \A n \in 0..Len(s) : h[n] = IF n = 0 THEN 0 ELSE h[n - 1] + s[n] * Power[n - 1]
            <3> SUFFICES ASSUME NEW n \in 0..Len(s), n # 0 PROVE h[n] = h[n - 1] + s[n] * Power[n - 1]
                BY <1>2
            <3>1. n - 1 \in 0..(Len(s) - 1) /\ (n - 1) + 1 = n /\ n - 1 \in 0..Len(s)
                BY <1>0
            <3> QED BY <3>1, <1>3
        <2> QED BY <2>1
    <1>5. Eq(Sums(s))
        <2> HIDE DEF h
        <2>1. \E k : Eq(k)
            BY <1>4
        <2> QED BY <2>1 DEF Sums
    <1>6. Sums(s)[0] = 0 /\ \A n \in 0..(Len(s) - 1) : Sums(s)[n + 1] = Sums(s)[n] + s[n + 1] * Power[n]
        <2> DEFINE u == Sums(s)
        <2>1. \A n \in 0..Len(s) : u[n] = IF n = 0 THEN 0 ELSE u[n - 1] + s[n] * Power[n - 1]
            <3> HIDE DEF u
            <3>1. Eq(u)
                BY <1>5 DEF u
            <3> QED BY <3>1
        <2> HIDE DEF u
        <2>2. u[0] = 0
            BY <1>0, <2>1
        <2>3. ASSUME NEW n \in 0..(Len(s) - 1) PROVE u[n + 1] = u[n] + s[n + 1] * Power[n]
            <3>1. n + 1 \in 0..Len(s) /\ n + 1 # 0 /\ (n + 1) - 1 = n
                BY <1>0
            <3> QED BY <2>1, <3>1
        <2> QED BY <2>2, <2>3 DEF u
    <1>7. \A n \in 0..Len(s) : Sums(s)[n] \in Nat
        <2> DEFINE Good == {n \in Nat : n <= Len(s) => Sums(s)[n] \in Nat}
        <2>1. 0 \in Good
            BY <1>6
        <2>2. ASSUME NEW n \in Nat, n \in Good PROVE n + 1 \in Good
            <3> SUFFICES ASSUME n + 1 <= Len(s) PROVE Sums(s)[n + 1] \in Nat
                OBVIOUS
            <3>1. s[n + 1] \in Nat /\ Power[n] \in Nat
                <4>1. n + 1 \in 1..Len(s)
                    BY <1>0
                <4> QED BY <4>1, <1>0, Powers
            <3>2. s[n + 1] * Power[n] \in Nat
                BY <3>1, Product
            <3>3. n \in 0..(Len(s) - 1)
                BY <1>0
            <3>4. Sums(s)[n + 1] = Sums(s)[n] + s[n + 1] * Power[n]
                BY <1>6, <3>3
            <3>5. Sums(s)[n] \in Nat
                BY <2>2, <1>0, <3>3
            <3>6. Sums(s)[n] + s[n + 1] * Power[n] \in Nat
                BY <3>2, <3>5, Product
            <3> QED BY <3>4, <3>6
        <2> HIDE DEF Good
        <2>3. \A n \in Nat : n \in Good
            BY <2>1, <2>2, Induction
        <2> QED BY <2>3, <1>0 DEF Good
    <1> HIDE DEF h
    <1> QED BY <1>5, <1>6, <1>7

\* A sequence of bytes is one of numbers below the base.
LEMMA BytesAreNumbers ==
    ASSUME NEW s \in Seq(Bytes)
    PROVE  Len(s) \in Nat /\ \A n \in 1..Len(s) : s[n] \in Bytes /\ s[n] \in Nat
    BY BaseAssumption DEF Bytes

\* The first n bytes are worth less than a one in the next.
LEMMA SumsBound ==
    ASSUME NEW s \in Seq(Bytes), NEW n \in 0..Len(s)
    PROVE  Sums(s)[n] < Power[n]
    <1> DEFINE Good == {k \in Nat : k <= Len(s) => Sums(s)[k] < Power[k]}
    <1>1. 0 \in Good
        <2>1. Sums(s)[0] = 0 /\ Power[0] = 1
            BY SumsDef, Powers
        <2> QED BY <2>1
    <1>2. ASSUME NEW k \in Nat, k \in Good PROVE k + 1 \in Good
        <2> SUFFICES ASSUME k + 1 <= Len(s) PROVE Sums(s)[k + 1] < Power[k + 1]
            OBVIOUS
        <2>1. k \in 0..(Len(s) - 1) /\ k \in 0..Len(s) /\ k + 1 \in 1..Len(s)
            BY BytesAreNumbers
        <2>2. Sums(s)[k + 1] = Sums(s)[k] + s[k + 1] * Power[k] /\ Sums(s)[k] \in Nat
            BY <2>1, SumsDef
        <2>3. s[k + 1] \in Nat /\ s[k + 1] <= Base - 1 /\ Base \in Nat /\ Power[k] \in Nat
            BY <2>1, BytesAreNumbers, BaseAssumption, Powers DEF Bytes
        <2>4. Sums(s)[k] < Power[k]
            BY <1>2, <2>1
        <2>5. Power[k + 1] = Base * Power[k]
            BY Powers
        <2>6. Sums(s)[k] + s[k + 1] * Power[k] < Base * Power[k]
            BY <2>2, <2>3, <2>4, DigitFits
        <2> QED BY <2>2, <2>5, <2>6
    <1> HIDE DEF Good
    <1>3. \A k \in Nat : k \in Good
        BY <1>1, <1>2, Induction
    <1> QED BY <1>3, BytesAreNumbers DEF Good

\* Bytes that are the same are worth the same, whatever follows them.
LEMMA SumsAgree ==
    ASSUME NEW s \in Seq(Bytes), NEW t \in Seq(Bytes), NEW n \in 0..Len(s), n <= Len(t),
           \A i \in 1..n : s[i] = t[i]
    PROVE  Sums(s)[n] = Sums(t)[n]
    <1> DEFINE Good == {k \in Nat : k <= n => Sums(s)[k] = Sums(t)[k]}
    <1>0. Len(s) \in Nat /\ Len(t) \in Nat
        BY BytesAreNumbers
    <1>1. 0 \in Good
        BY SumsDef
    <1>2. ASSUME NEW k \in Nat, k \in Good PROVE k + 1 \in Good
        <2> SUFFICES ASSUME k + 1 <= n PROVE Sums(s)[k + 1] = Sums(t)[k + 1]
            OBVIOUS
        <2>1. k \in 0..(Len(s) - 1) /\ k \in 0..(Len(t) - 1) /\ k + 1 \in 1..n
            BY <1>0
        <2>2. Sums(s)[k + 1] = Sums(s)[k] + s[k + 1] * Power[k]
            BY <2>1, SumsDef
        <2>3. Sums(t)[k + 1] = Sums(t)[k] + t[k + 1] * Power[k]
            BY <2>1, SumsDef
        <2> QED BY <1>2, <2>1, <2>2, <2>3
    <1> HIDE DEF Good
    <1>3. \A k \in Nat : k \in Good
        BY <1>1, <1>2, Induction
    <1> QED BY <1>3, <1>0 DEF Good

\* What follows n bytes adds a multiple of a one in the next.
LEMMA SumsMultiple ==
    ASSUME NEW s \in Seq(Bytes), NEW n \in 0..Len(s), NEW m \in n..Len(s)
    PROVE  \E c \in Nat : Sums(s)[m] = Sums(s)[n] + Power[n] * c
    <1> DEFINE P == Power[n]
               Good == {k \in Nat : n + k <= Len(s) =>
                            \E c, e \in Nat : Sums(s)[n + k] = Sums(s)[n] + P * c /\ Power[n + k] = P * e}
    <1>0. Len(s) \in Nat /\ n \in Nat /\ m \in Nat /\ P \in Nat /\ Sums(s)[n] \in Nat
        <2>1. Len(s) \in Nat /\ n \in Nat /\ m \in Nat
            BY BytesAreNumbers
        <2>2. Sums(s)[n] \in Nat
            BY SumsDef
        <2>3. Power[n] \in Nat
            BY <2>1, Powers
        <2> QED BY <2>1, <2>2, <2>3
    <1>1. 0 \in Good
        <2>1. n + 0 = n /\ Sums(s)[n] = Sums(s)[n] + P * 0 /\ Power[n] = P * 1
            BY <1>0
        <2> QED BY <2>1
    <1>2. ASSUME NEW k \in Nat, k \in Good PROVE k + 1 \in Good
        <2> SUFFICES ASSUME n + (k + 1) <= Len(s)
                     PROVE  \E c, e \in Nat : /\ Sums(s)[n + (k + 1)] = Sums(s)[n] + P * c
                                              /\ Power[n + (k + 1)] = P * e
            OBVIOUS
        <2>1. n + k \in 0..(Len(s) - 1) /\ n + k \in Nat /\ n + (k + 1) = (n + k) + 1 /\ (n + k) + 1 \in 1..Len(s)
            BY <1>0
        <2>2. PICK c \in Nat, e \in Nat : Sums(s)[n + k] = Sums(s)[n] + P * c /\ Power[n + k] = P * e
            BY <1>2, <2>1, <1>0
        <2> DEFINE d == s[(n + k) + 1]
        <2>3. Sums(s)[n + (k + 1)] = Sums(s)[n + k] + d * Power[n + k]
            BY <2>1, SumsDef
        <2>4. Power[n + (k + 1)] = Base * Power[n + k]
            BY <2>1, Powers
        <2>5. d \in Nat /\ Base \in Nat
            BY <2>1, BytesAreNumbers, BaseAssumption
        <2> HIDE DEF d, P
        <2>6. c + d * e \in Nat /\ Base * e \in Nat
            BY <2>5, Product
        <2>7. Sums(s)[n] + P * c + d * (P * e) = Sums(s)[n] + P * (c + d * e)
            BY <2>5, <1>0
        <2>8. Base * (P * e) = P * (Base * e)
            BY <2>5, <1>0
        <2> QED BY <2>2, <2>3, <2>4, <2>6, <2>7, <2>8
    <1> HIDE DEF Good
    <1>3. m - n \in Good /\ n + (m - n) = m
        <2>1. \A k \in Nat : k \in Good
            BY <1>1, <1>2, Induction
        <2> QED BY <2>1, <1>0
    <1> QED BY <1>3, <1>0 DEF Good

\* A multiple of the divisor does not count, and what is left is less.
LEMMA Remainder ==
    ASSUME NEW a \in Nat, NEW b \in Nat \ {0}, NEW c \in Nat, a < b
    PROVE  (a + b * c) % b = a
    OBVIOUS

\* Without the remainder a number is a multiple of the divisor.
LEMMA RemainderLess ==
    ASSUME NEW a \in Nat, NEW b \in Nat \ {0}
    PROVE  (a - (a % b)) % b = 0 /\ (a % b) < b
    <1>1. a % b \in Nat /\ (a % b) < b /\ a \div b \in Nat /\ a - (a % b) = b * (a \div b)
        OBVIOUS
    <1>2. (0 + b * (a \div b)) % b = 0
        BY <1>1, Remainder
    <1>3. 0 + b * (a \div b) = a - (a % b)
        BY <1>1, Product
    <1> QED BY <1>1, <1>2, <1>3

\* A number whose n lowest bytes are worth r and which has a d in the next.
LEMMA NextDigit ==
    ASSUME NEW a \in Nat, NEW p \in Nat \ {0}, NEW b \in Nat \ {0}
    PROVE  a % (b * p) = (a % p) + ((a \div p) % b) * p
    <1> DEFINE q == a \div p
               r == a % p
               d == q % b
               e == q \div b
    <1>1. q \in Nat /\ r \in Nat /\ r < p /\ a = p * q + r
        OBVIOUS
    <1>2. d \in Nat /\ e \in Nat /\ d <= b - 1 /\ q = b * e + d
        BY <1>1
    <1> HIDE DEF q, r, d, e
    <1>3. a = (r + d * p) + (b * p) * e
        <2>1. p * (b * e + d) = (b * p) * e + d * p
            BY <1>2
        <2>2. (b * p) * e \in Nat /\ d * p \in Nat /\ p * q \in Nat
            BY <1>1, <1>2, Product
        <2>3. p * q = (b * p) * e + d * p
            BY <1>2, <2>1
        <2> QED BY <1>1, <2>2, <2>3
    <1>4. r + d * p < b * p
        BY <1>1, <1>2, DigitFits
    <1>5. b * p \in Nat \ {0} /\ r + d * p \in Nat
        BY <1>1, <1>2, Product
    <1>6. ((r + d * p) + (b * p) * e) % (b * p) = r + d * p
        <2> DEFINE m == b * p
                   l == r + d * p
        <2>1. m \in Nat \ {0} /\ l \in Nat /\ l < m
            BY <1>4, <1>5
        <2> HIDE DEF m, l
        <2>2. (l + m * e) % m = l
            BY <1>2, <2>1, Remainder
        <2> QED BY <2>2 DEF m, l
    <1>7. a % (b * p) = r + d * p
        BY <1>3, <1>6
    <1> QED BY <1>7 DEF r, d, q

\* The bytes of a number are worth that number.
LEMMA LittleEndian ==
    ASSUME NEW a \in 0..(Limit - 1)
    PROVE  little_endian[a] \in Seq(Bytes) /\ Len(little_endian[a]) = IntWidth /\ Value(little_endian[a]) = a
    <1> DEFINE s == [i \in 1..IntWidth |-> (a \div Power[i - 1]) % Base]
    <1>1. little_endian[a] = s
        BY DEF little_endian
    <1>2. Base \in Nat \ {0} /\ IntWidth \in Nat /\ a \in Nat /\ Limit \in Nat
        BY BaseAssumption, Powers DEF Limit
    <1>3. \A i \in 1..IntWidth : (a \div Power[i - 1]) % Base \in Bytes
        <2> SUFFICES ASSUME NEW i \in 1..IntWidth PROVE (a \div Power[i - 1]) % Base \in Bytes
            OBVIOUS
        <2>1. i - 1 \in Nat
            BY <1>2
        <2>2. Power[i - 1] \in Nat \ {0}
            BY <2>1, Powers
        <2>3. a \div Power[i - 1] \in Nat
            BY <2>2, <1>2
        <2> QED BY <2>3, <1>2 DEF Bytes
    <1>4. s \in Seq(Bytes) /\ Len(s) = IntWidth
        BY <1>2, <1>3
    <1> DEFINE Good == {k \in Nat : k <= IntWidth => Sums(s)[k] = a % Power[k]}
    <1>5. 0 \in Good
        <2>1. Sums(s)[0] = 0 /\ Power[0] = 1
            BY <1>4, SumsDef, Powers
        <2> HIDE DEF s
        <2> QED BY <2>1, <1>2
    <1>6. ASSUME NEW k \in Nat, k \in Good PROVE k + 1 \in Good
        <2> SUFFICES ASSUME k + 1 <= IntWidth PROVE Sums(s)[k + 1] = a % Power[k + 1]
            OBVIOUS
        <2>1. k + 1 \in 1..IntWidth /\ (k + 1) - 1 = k /\ k \in 0..(IntWidth - 1)
            BY <1>2
        <2>2. s[k + 1] = (a \div Power[k]) % Base
            BY <2>1
        <2> HIDE DEF s
        <2>3. Sums(s)[k + 1] = Sums(s)[k] + s[k + 1] * Power[k]
            BY <1>4, <2>1, SumsDef
        <2>4. Sums(s)[k] = a % Power[k]
            BY <1>6, <2>1, <1>2
        <2>5. Power[k + 1] = Base * Power[k] /\ Power[k] \in Nat \ {0}
            BY Powers
        <2>6. a % (Base * Power[k]) = (a % Power[k]) + ((a \div Power[k]) % Base) * Power[k]
            BY <2>5, <1>2, NextDigit
        <2> QED BY <2>2, <2>3, <2>4, <2>5, <2>6
    <1> HIDE DEF Good, s
    <1>7. Sums(s)[IntWidth] = a % Limit
        <2>1. \A k \in Nat : k \in Good
            BY <1>5, <1>6, Induction
        <2> QED BY <2>1, <1>2 DEF Good, Limit
    <1>8. a % Limit = a
        BY <1>2
    <1> QED BY <1>1, <1>4, <1>7, <1>8 DEF Value

\* Zeros above the n lowest bytes are worth nothing.
LEMMA ZerosAbove ==
    ASSUME NEW s \in Seq(Bytes), NEW n \in 0..Len(s), \A i \in (n + 1)..Len(s) : s[i] = 0
    PROVE  Value(s) = Sums(s)[n]
    <1> DEFINE Good == {k \in Nat : n + k <= Len(s) => Sums(s)[n + k] = Sums(s)[n]}
    <1>0. Len(s) \in Nat /\ n \in Nat
        BY BytesAreNumbers
    <1>1. 0 \in Good
        BY <1>0
    <1>2. ASSUME NEW k \in Nat, k \in Good PROVE k + 1 \in Good
        <2> SUFFICES ASSUME n + (k + 1) <= Len(s) PROVE Sums(s)[n + (k + 1)] = Sums(s)[n]
            OBVIOUS
        <2>1. n + k \in 0..(Len(s) - 1) /\ n + (k + 1) = (n + k) + 1 /\ (n + k) + 1 \in (n + 1)..Len(s)
            BY <1>0
        <2>2. Sums(s)[(n + k) + 1] = Sums(s)[n + k] + s[(n + k) + 1] * Power[n + k]
            BY <2>1, SumsDef
        <2>3. Sums(s)[n + k] \in Nat /\ Power[n + k] \in Nat /\ s[(n + k) + 1] = 0
            <3>1. n + k \in 0..Len(s) /\ n + k \in Nat
                BY <2>1, <1>0
            <3> QED BY <3>1, <2>1, SumsDef, Powers
        <2>4. s[(n + k) + 1] * Power[n + k] = 0
            BY <2>3
        <2> QED BY <1>2, <2>1, <2>2, <2>3, <2>4
    <1> HIDE DEF Good
    <1>3. Len(s) - n \in Good /\ n + (Len(s) - n) = Len(s)
        <2>1. \A k \in Nat : k \in Good
            BY <1>1, <1>2, Induction
        <2> QED BY <2>1, <1>0
    <1> QED BY <1>3, <1>0 DEF Good, Value

-----------------------------------------------------------------------------

\* What is read: the bytes there are, the terminator, and memory.
LEMMA WhatIsShown ==
    ASSUME data \in Seq(Bytes), NEW mem \in Memory
    PROVE  /\ Shown(mem) \in Seq(Bytes) /\ Len(Shown(mem)) = IntWidth
           /\ \A i \in 1..IntWidth : i <= Len(data) => Shown(mem)[i] = data[i]
           /\ \A i \in 1..IntWidth : i = Len(data) + 1 => Shown(mem)[i] = 0
    <1> DEFINE all == data \o <<0>> \o mem
    <1>1. IntWidth \in Nat /\ Base \in Nat /\ Base >= 2 /\ Len(data) \in Nat
        BY BaseAssumption
    <1>2. mem \in Seq(Bytes) /\ Len(mem) = IntWidth
        BY <1>1 DEF Memory, Bytes
    <1>3. <<0>> \in Seq(Bytes)
        BY <1>1 DEF Bytes
    <1>4. data \o <<0>> \in Seq(Bytes) /\ Len(data \o <<0>>) = Len(data) + 1
        BY <1>3
    <1>5. all \in Seq(Bytes) /\ Len(all) = Len(data) + 1 + IntWidth
        BY <1>1, <1>2, <1>4
    <1>6. \A i \in 1..(Len(data) + 1) : all[i] = IF i <= Len(data) THEN data[i] ELSE 0
        BY <1>1, <1>2, <1>3, <1>4
    <1> HIDE DEF all
    <1>7. SubSeq(all, 1, IntWidth) \in Seq(Bytes) /\ Len(SubSeq(all, 1, IntWidth)) = IntWidth
          /\ \A i \in 1..IntWidth : SubSeq(all, 1, IntWidth)[i] = all[i]
        BY <1>1, <1>5, SubSeqProperties
    <1>8. Shown(mem) = SubSeq(all, 1, IntWidth)
        BY DEF Shown, all
    <1> QED BY <1>1, <1>6, <1>7, <1>8

\* What counts of the data is its first bytes.
LEMMA WhatCounts ==
    ASSUME data \in Seq(Bytes), NEW n \in Nat, n = IF Len(data) < IntWidth THEN Len(data) ELSE IntWidth
    PROVE  /\ SubSeq(data, 1, n) \in Seq(Bytes) /\ Len(SubSeq(data, 1, n)) = n
           /\ \A i \in 1..n : SubSeq(data, 1, n)[i] = data[i]
           /\ Worth = Sums(SubSeq(data, 1, n))[n]
    <1>1. IntWidth \in Nat /\ Len(data) \in Nat /\ n <= Len(data)
        BY BaseAssumption
    <1>2. /\ SubSeq(data, 1, n) \in Seq(Bytes) /\ Len(SubSeq(data, 1, n)) = n
          /\ \A i \in 1..n : SubSeq(data, 1, n)[i] = data[i]
        BY <1>1, SubSeqProperties
    <1> QED BY <1>2 DEF Worth, Value

\* to_i is right in the bytes there are, and as a whole if the terminator is the highest
\* byte that it reads, or lies behind.
LEMMA ToIRight ==
    ASSUME data \in Seq(Bytes), NEW mem \in Memory
    PROVE  /\ to_i(mem) \in Nat /\ Worth \in Nat
           /\ Len(data) <= IntWidth => to_i(mem) % Power[Len(data)] = Worth
           /\ Len(data) >= IntWidth - 1 => to_i(mem) = Worth
    <1> DEFINE s == Shown(mem)
               n == IF Len(data) < IntWidth THEN Len(data) ELSE IntWidth
               w == SubSeq(data, 1, n)
    <1>1. IntWidth \in Nat /\ Len(data) \in Nat /\ n \in 0..IntWidth /\ n <= Len(data)
        BY BaseAssumption
    <1>2. /\ s \in Seq(Bytes) /\ Len(s) = IntWidth
          /\ \A i \in 1..IntWidth : i <= Len(data) => s[i] = data[i]
          /\ \A i \in 1..IntWidth : i = Len(data) + 1 => s[i] = 0
        BY WhatIsShown
    <1>3. w \in Seq(Bytes) /\ Len(w) = n /\ Worth = Sums(w)[n] /\ \A i \in 1..n : w[i] = data[i]
        <2> HIDE DEF n
        <2>1. n \in Nat /\ n = IF Len(data) < IntWidth THEN Len(data) ELSE IntWidth
            BY <1>1 DEF n
        <2> QED BY <2>1, WhatCounts
    <1>4. to_i(mem) = Sums(s)[IntWidth]
        BY <1>2 DEF to_i, Value
    <1>5. n <= Len(data) /\ (Len(data) <= IntWidth => n = Len(data)) /\ (Len(data) >= IntWidth => n = IntWidth)
        BY <1>1
    <1> HIDE DEF s, n, w
    <1>6. Worth = Sums(s)[n]
        <2>1. \A i \in 1..n : w[i] = s[i]
            BY <1>1, <1>2, <1>3, <1>5
        <2>2. n \in 0..Len(w) /\ n <= Len(s)
            BY <1>1, <1>2, <1>3
        <2> QED BY <2>1, <2>2, <1>2, <1>3, SumsAgree
    <1>7. n \in 0..Len(s) /\ Sums(s)[n] \in Nat /\ Sums(s)[IntWidth] \in Nat
        BY <1>1, <1>2, SumsDef
    <1>8. ASSUME Len(data) <= IntWidth PROVE to_i(mem) % Power[Len(data)] = Worth
        <2>1. PICK c \in Nat : Sums(s)[IntWidth] = Sums(s)[n] + Power[n] * c
            <3>1. IntWidth \in n..Len(s)
                BY <1>1, <1>2
            <3> QED BY <3>1, <1>2, <1>7, SumsMultiple
        <2>2. Sums(s)[n] < Power[n] /\ Power[n] \in Nat \ {0}
            BY <1>1, <1>2, <1>7, SumsBound, Powers
        <2>3. (Sums(s)[n] + Power[n] * c) % Power[n] = Sums(s)[n]
            BY <2>2, <1>7, Remainder
        <2> QED BY <2>1, <2>3, <1>4, <1>5, <1>6, <1>8
    <1>9. ASSUME Len(data) >= IntWidth - 1 PROVE to_i(mem) = Worth
        <2>1. CASE Len(data) >= IntWidth
            BY <2>1, <1>4, <1>5, <1>6
        <2>2. CASE Len(data) = IntWidth - 1
            <3>1. \A i \in (n + 1)..Len(s) : s[i] = 0
                BY <2>2, <1>1, <1>2, <1>5
            <3>2. Value(s) = Sums(s)[n]
                BY <3>1, <1>2, <1>7, ZerosAbove
            <3> QED BY <3>2, <1>2, <1>4, <1>6 DEF Value
        <2> QED BY <2>1, <2>2, <1>1, <1>9
    <1> QED BY <1>4, <1>6, <1>7, <1>8, <1>9

\* A Ruby number is kept modulo the width.
LEMMA NumberIsWorth ==
    ASSUME NEW k \in Int, data = OfNumber(k)
    PROVE  data \in Seq(Bytes) /\ Len(data) = IntWidth /\ Worth = k % Limit
    <1>1. IntWidth \in Nat /\ Limit \in Nat \ {0}
        BY BaseAssumption, Powers DEF Limit
    <1>2. k % Limit \in 0..(Limit - 1)
        BY <1>1
    <1>3. data \in Seq(Bytes) /\ Len(data) = IntWidth /\ Value(data) = k % Limit
        BY <1>2, LittleEndian DEF OfNumber
    <1>4. SubSeq(data, 1, IntWidth) = data
        BY <1>3
    <1> QED BY <1>3, <1>4, <1>1 DEF Worth

-----------------------------------------------------------------------------

\* The digits in the order of their worth: those shown and those of the data, of which the
\* highest are zeros.
LEMMA HexKeepsWorth ==
    ASSUME NEW s \in Seq(Bytes)
    PROVE  LET r == range_to_hex_data(s)
           IN  Value(Reverse(r)) = Value(Reverse(s)) /\ (r # <<0>> => r[1] # 0)
    <1> DEFINE zeros == {n \in 0..Len(s) : \A i \in 1..n : s[i] = 0}
               z == CHOOSE n \in zeros : n + 1 \notin zeros
               kept == SubSeq(s, 1 + z, Len(s))
               l == Len(s)
               r == Reverse(s)
    <1>0. l \in Nat /\ \A i \in 1..l : s[i] \in Bytes
        OBVIOUS
    <1>1. z \in zeros /\ z + 1 \notin zeros
        <2>1. \E n \in zeros : n + 1 \notin zeros
            <3> SUFFICES ASSUME \A n \in zeros : n + 1 \in zeros
                         PROVE  FALSE
                OBVIOUS
            <3>1. zeros \subseteq 0..l
                OBVIOUS
            <3>2. 0 \in zeros
                OBVIOUS
            <3> HIDE DEF zeros, l
            <3>3. \A n \in Nat : n \in zeros => n + 1 \in zeros
                OBVIOUS
            <3>4. \A n \in Nat : n \in zeros
                BY <3>2, <3>3, Induction
            <3>5. l + 1 \in Nat /\ l + 1 \notin 0..l
                BY <1>0
            <3> QED BY <3>1, <3>4, <3>5
        <2> HIDE DEF zeros
        <2> QED BY <2>1
    <1> HIDE DEF z
    <1>2. z \in 0..l /\ \A i \in 1..z : s[i] = 0
        BY <1>1
    <1>3. z < l => s[z + 1] # 0
        <2> SUFFICES ASSUME z < l, s[z + 1] = 0 PROVE FALSE
            OBVIOUS
        <2>1. z + 1 \in 0..l
            BY <1>0, <1>2
        <2>2. \A i \in 1..(z + 1) : i \in 1..z \/ i = z + 1
            BY <1>0, <1>2
        <2>3. z + 1 \in zeros
            BY <1>2, <2>1, <2>2
        <2> QED BY <1>1, <2>3
    <1>4. r \in Seq(Bytes) /\ Len(r) = l /\ \A i \in 1..l : r[i] = s[(l - i) + 1]
        BY <1>0 DEF Reverse
    <1>5. Value(r) = Sums(r)[l - z]
        <2>1. l - z \in 0..Len(r)
            BY <1>0, <1>2, <1>4
        <2>2. ASSUME NEW i \in ((l - z) + 1)..Len(r) PROVE r[i] = 0
            <3>1. i \in 1..l /\ (l - i) + 1 \in 1..z
                BY <1>0, <1>2, <1>4
            <3> QED BY <3>1, <1>2, <1>4
        <2> HIDE DEF r, l
        <2> QED BY <1>4, <2>1, <2>2, ZerosAbove
    <1>6. range_to_hex_data(s) = IF kept = <<>> THEN <<0>> ELSE kept
        BY DEF range_to_hex_data, z
    <1>7. /\ kept \in Seq(Bytes) /\ Len(kept) = l - z
          /\ \A i \in 1..(l - z) : kept[i] = s[z + i]
        BY <1>0, <1>2, SubSeqProperties
    <1>8. CASE z = l
        <2>1. range_to_hex_data(s) = <<0>>
            BY <1>0, <1>6, <1>7, <1>8
        <2>2. Value(r) = 0
            BY <1>0, <1>4, <1>5, <1>8, SumsDef
        <2>3. Reverse(<<0>>) = <<0>> /\ <<0>> \in Seq(Bytes)
            BY BaseAssumption DEF Reverse, Bytes
        <2>4. Value(<<0>>) = 0
            <3>1. Sums(<<0>>)[1] = Sums(<<0>>)[0] + <<0>>[1] * Power[0] /\ Sums(<<0>>)[0] = 0
                <4>1. Len(<<0>>) = 1 /\ 0 \in 0..(Len(<<0>>) - 1)
                    OBVIOUS
                <4>2. Sums(<<0>>)[0 + 1] = Sums(<<0>>)[0] + <<0>>[0 + 1] * Power[0] /\ Sums(<<0>>)[0] = 0
                    BY <2>3, <4>1, SumsDef
                <4> QED BY <4>2
            <3>2. Power[0] = 1 /\ Len(<<0>>) = 1 /\ <<0>>[1] = 0
                BY Powers
            <3> QED BY <3>1, <3>2 DEF Value
        <2> QED BY <2>1, <2>2, <2>3, <2>4
    <1>9. CASE z < l
        <2>1. range_to_hex_data(s) = kept
            <3>1. Len(kept) # 0 /\ Len(<<>>) = 0
                BY <1>0, <1>2, <1>7, <1>9
            <3> HIDE DEF kept
            <3> QED BY <3>1, <1>6
        <2>2. kept[1] # 0
            BY <1>0, <1>2, <1>3, <1>7, <1>9
        <2> DEFINE t == Reverse(kept)
        <2>3. t \in Seq(Bytes) /\ Len(t) = l - z /\ \A i \in 1..(l - z) : t[i] = kept[((l - z) - i) + 1]
            <3> HIDE DEF kept, l
            <3>1. l - z \in Nat
                BY <1>0, <1>2
            <3>2. t = [i \in 1..Len(kept) |-> kept[(Len(kept) - i) + 1]]
                BY DEF Reverse
            <3>3. \A i \in 1..(l - z) : kept[((l - z) - i) + 1] \in Bytes
                BY <3>1, <1>7
            <3> QED BY <3>1, <3>2, <3>3, <1>7
        <2>4. ASSUME NEW i \in 1..(l - z) PROVE t[i] = r[i]
            <3>1. ((l - z) - i) + 1 \in 1..(l - z) /\ z + (((l - z) - i) + 1) = (l - i) + 1 /\ i \in 1..l
                BY <1>0, <1>2
            <3> QED BY <3>1, <2>3, <1>4, <1>7
        <2>5. Sums(t)[l - z] = Sums(r)[l - z]
            <3>1. l - z \in 0..Len(t) /\ l - z <= Len(r)
                BY <1>0, <1>2, <1>4, <2>3
            <3> HIDE DEF t, r, l
            <3> QED BY <3>1, <2>3, <2>4, <1>4, SumsAgree
        <2> QED BY <1>5, <2>1, <2>2, <2>3, <2>5 DEF Value
    <1> QED BY <1>0, <1>2, <1>8, <1>9

-----------------------------------------------------------------------------

\* A Ruby number is held as its bytes.
NumberKept == from.kind = "Numeric" => from.of \in Int /\ data = OfNumber(from.of)

BytesInv == data \in Seq(Bytes) /\ NumberKept /\ LowBytesRight /\ HexIsNumber

\* The empty array that a program begins with.
LEMMA BytesInit == ByteArraysInit => BytesInv
    BY DEF ByteArraysInit, BytesInv, NumberKept, LowBytesRight, HexIsNumber, NoResult

\* Whatever object the bytes are made of.
LEMMA NewBytes ==
    ASSUME BytesInv, NEW o \in Objects, New(o)
    PROVE  BytesInv'
    <1>1. data' \in Seq(Bytes) /\ NumberKept'
        <2>1. CASE ~Convertible(o)
            BY <2>1 DEF BytesInv, NumberKept, New
        <2>2. CASE Convertible(o)
            <3>1. data' = from_ruby(o) /\ from' = o
                BY <2>2 DEF New
            <3>2. CASE o.kind = "Numeric"
                <4>1. o.of \in Int
                    BY <3>2, ObjectsAssumption DEF Objects
                <4>2. data' = OfNumber(o.of)
                    BY <3>1, <3>2 DEF from_ruby
                <4>3. OfNumber(o.of) \in Seq(Bytes)
                    <5>1. Limit \in Nat \ {0}
                        BY BaseAssumption, Powers DEF Limit
                    <5>2. o.of % Limit \in 0..(Limit - 1)
                        BY <4>1, <5>1
                    <5> QED BY <5>2, LittleEndian DEF OfNumber
                <4> QED BY <3>1, <4>1, <4>2, <4>3 DEF NumberKept
            <3>3. CASE o.kind \in {"nil", "true", "false"}
                <4>1. data' = OfBool(o.kind = "true")
                    BY <3>1, <3>3 DEF from_ruby
                <4>2. \A c \in Nat : OfChar(c) \in Seq(Bytes)
                    BY BaseAssumption DEF OfChar, Bytes
                <4> QED BY <3>1, <3>3, <4>1, <4>2, ObjectsAssumption DEF OfBool, NumberKept
            <3>4. CASE o.kind \in {"ByteArray", "String"}
                <4>1. o.of \in Strings
                    BY <3>4 DEF Objects
                <4>2. data' = o.of
                    BY <3>1, <3>4 DEF from_ruby
                <4> QED BY <3>1, <3>4, <4>1, <4>2, ObjectsAssumption DEF NumberKept
            <3> QED BY <3>2, <3>3, <3>4, <2>2 DEF Objects, Convertible
        <2> QED BY <2>1, <2>2
    <1>2. result'.op \in {"none", "raised"}
        BY DEF New, NoResult
    <1> QED BY <1>1, <1>2 DEF BytesInv, LowBytesRight, HexIsNumber

\* The answers are right, whatever memory follows the data.
LEMMA Answers ==
    ASSUME BytesInv, NEW mem \in Memory,
           ToI(mem) \/ Not(mem) \/ \E n \in Operands : Modulo(mem, n) \/ Compare(mem, n)
    PROVE  BytesInv'
    <1> DEFINE v == to_i(mem)
    <1>0. UNCHANGED <<data, from>>
        BY DEF ToI, Not, Modulo, Compare, Reply
    <1>1. Worth' = Worth
        BY <1>0 DEF Worth
    <1>2. /\ v \in Nat /\ Worth \in Nat
          /\ Len(data) <= IntWidth => v % Power[Len(data)] = Worth
          /\ Len(data) >= IntWidth - 1 => v = Worth
        BY ToIRight DEF BytesInv
    <1>3. from.kind = "Numeric" => v = from.of % Limit
        <2> SUFFICES ASSUME from.kind = "Numeric" PROVE v = from.of % Limit
            OBVIOUS
        <2>1. Len(data) = IntWidth /\ Worth = from.of % Limit
            BY NumberIsWorth DEF BytesInv, NumberKept
        <2> QED BY <2>1, <1>2, BaseAssumption
    <1> HIDE DEF v
    <1>4. NumberKept' /\ data' \in Seq(Bytes)
        BY <1>0 DEF BytesInv, NumberKept
    <1>5. CASE ToI(mem)
        BY <1>0, <1>1, <1>2, <1>3, <1>4, <1>5 DEF ToI, Reply, v, BytesInv, LowBytesRight, HexIsNumber
    <1>6. CASE Not(mem)
        BY <1>0, <1>4, <1>6 DEF Not, Reply, BytesInv, LowBytesRight, HexIsNumber
    <1>7. ASSUME NEW n \in Operands, Modulo(mem, n) PROVE BytesInv'
        <2>0. n \in Nat
            BY DEF Operands
        <2>1. CASE n = 0
            BY <1>0, <1>4, <1>7, <2>1 DEF Modulo, BytesInv, LowBytesRight, HexIsNumber
        <2>2. CASE n # 0
            <3>1. result' = [op |-> "%", val |-> v % n, by |-> n]
                BY <1>7, <2>2 DEF Modulo, v
            <3>2. (v - (v % n)) % n = 0 /\ (v % n) < n
                BY <1>2, <2>0, <2>2, RemainderLess
            <3> QED BY <1>0, <1>1, <1>2, <1>4, <3>1, <3>2 DEF BytesInv, LowBytesRight, HexIsNumber
        <2> QED BY <2>1, <2>2
    <1>8. ASSUME NEW n \in Operands, Compare(mem, n) PROVE BytesInv'
        <2>0. n \in Nat
            BY DEF Operands
        <2> DEFINE c == IF v < n THEN -1 ELSE IF v > n THEN 1 ELSE 0
        <2>1. result' = [op |-> "<=>", by |-> n, val |-> c]
            BY <1>8 DEF Compare, v
        <2>2. c * (v - n) >= 0 /\ (c = 0 <=> v = n)
            BY <1>2, <2>0
        <2> HIDE DEF c
        <2> QED BY <1>0, <1>1, <1>2, <1>4, <2>1, <2>2 DEF BytesInv, LowBytesRight, HexIsNumber
    <1> QED BY <1>5, <1>6, <1>7, <1>8

\* No call breaks the invariant.
LEMMA BytesStep ==
    ASSUME BytesInv, [ByteArraysNext]_byteArraysVars
    PROVE  BytesInv'
    <1>1. ASSUME NEW o \in Objects, New(o) PROVE BytesInv'
        BY <1>1, NewBytes
    <1>2. ASSUME NEW mem \in Memory,
                 ToI(mem) \/ Not(mem) \/ \E n \in Operands : Modulo(mem, n) \/ Compare(mem, n)
          PROVE  BytesInv'
        BY <1>2, Answers
    <1>4. CASE ToS
        <2>1. /\ Value(Reverse(range_to_hex_data(data))) = Value(Reverse(data))
              /\ range_to_hex_data(data) # <<0>> => range_to_hex_data(data)[1] # 0
            BY HexKeepsWorth DEF BytesInv
        <2> QED BY <1>4, <2>1 DEF ToS, Reply, BytesInv, NumberKept, LowBytesRight, HexIsNumber
    <1>5. CASE UNCHANGED byteArraysVars
        BY <1>5 DEF byteArraysVars, BytesInv, NumberKept, LowBytesRight, HexIsNumber, Worth
    <1> QED BY <1>1, <1>2, <1>4, <1>5 DEF ByteArraysNext

LEMMA BytesInvariant == ByteArraysSpec => []BytesInv
    BY BytesInit, BytesStep, PTL DEF ByteArraysSpec

\* to_i is right in the bytes there are, whatever memory follows them, and what it decides is
\* right where nothing but the terminator follows (ByteArray.hpp:48-53, :76-88, :123).
THEOREM IntegersRight == ByteArraysSpec => []LowBytesRight
    BY BytesInvariant, PTL DEF BytesInv

\* The digits shown are those of the data, read as one number (hexadecimal.hpp:68-90).
THEOREM DigitsRight == ByteArraysSpec => []HexIsNumber
    BY BytesInvariant, PTL DEF BytesInv

=============================================================================
