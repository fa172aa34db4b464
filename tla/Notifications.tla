---------------------------- MODULE Notifications ----------------------------
(***************************************************************************)
(* One characteristic and the values of its device                         *)
(* (bindings/Characteristic.cpp, concerns/CharacteristicValueTracker.cpp). *)
(*                                                                         *)
(* SimpleBLE's threads bind each value the device sends to a closure and   *)
(* push it on the RubyQueue, whose loop takes the newest closure first and *)
(* runs it under the VM's lock.  A notification is recorded as last_value  *)
(* and reported to the on_notify callback if it is a change; an indication *)
(* is only reported.  read() answers from last_value if it can.  It holds  *)
(* the VM's lock while it waits for the device: SimpleBLE goes on pushing, *)
(* but no closure runs.                                                    *)
(***************************************************************************)
EXTENDS Integers, Sequences

CONSTANTS
    Values,      \* the byte arrays the device can hold
    Empty,       \* the one of length 0
    NoValue,     \* the null pointer of _value
    Caps,        \* capabilities(): a subset of {"notify", "indicate"}
    MaxPending   \* bound on the closures waiting in the queue

ASSUME ValuesAssumption == Empty \in Values /\ NoValue \notin Values
ASSUME CapsAssumption == Caps \subseteq {"notify", "indicate"}
ASSUME MaxPendingAssumption == MaxPending \in Nat

VARIABLES
    device,    \* the value the device holds
    via,       \* how the last change of it was sent: not at all, by notify or by indicate
    link,      \* "subscribed", "down" or, connected again, "up"
    queue,     \* the closures of this characteristic that wait in the RubyQueue
    tracking,  \* _track_values: "unset", "on" or "off"
    value,     \* _value
    reading,   \* what the device has answered to a read() that has not returned yet
    armed,     \* _on_notify has a proc
    known,     \* history: what the program that listens has been told last
    call,      \* history: what the last step gave to the on_notify callback, if anything
    burst      \* history: closures pushed since the queue was last empty, up to 2

notificationsVars == <<device, via, link, queue, tracking, value, reading, armed, known, call, burst>>

deviceVars == <<device, via, link>>

\* The constructor has subscribed to what the characteristic can do; if that had
\* failed there would be no characteristic.
NotificationsInit ==
    /\ device \in Values /\ via = "none" /\ link = "subscribed"
    /\ queue = << >> /\ burst = 0
    /\ tracking = "unset" /\ value = NoValue
    /\ reading = NoValue
    /\ armed = FALSE /\ known = NoValue /\ call = NoValue

-----------------------------------------------------------------------------
(* CharacteristicValueTracker.                                             *)

value_tracking == IF tracking = "unset" THEN "notify" \in Caps ELSE tracking = "on"

\* _value after record_new_value(v) ...
Recorded(v) == IF value_tracking THEN v ELSE value

\* Mutant: old and new value are the wrong way round for the first one.
ChangedOnlyIfKnown(v) == value_tracking => value # NoValue /\ v # value

\* Mutant: every value counts as a change.
ChangedAlways(v) == TRUE

\* ... and its result: whether the value changed.
Changed(v) == value_tracking => IF value = NoValue THEN v # Empty ELSE v # value

-----------------------------------------------------------------------------
(* The device and SimpleBLE's threads.                                     *)

\* The closure the subscription's callback binds the data to.
Push(kind, v) ==
    /\ kind \in Caps /\ link = "subscribed"
    /\ Len(queue) < MaxPending
    /\ queue' = Append(queue, [kind |-> kind, data |-> v])
    /\ burst' = IF queue = << >> THEN 1 ELSE 2

DeviceSends(kind, v) ==
    /\ Push(kind, v)
    /\ device' = v /\ via' = kind
    /\ UNCHANGED <<link, tracking, value, reading, armed, known>>
    /\ call' = NoValue

\* Nobody is subscribed, or the characteristic can neither notify nor indicate.
DeviceChanges(v) ==
    /\ link # "subscribed" \/ Caps = {}
    /\ device' = v /\ via' = "none"
    /\ UNCHANGED <<link, queue, burst, tracking, value, reading, armed, known>>
    /\ call' = NoValue

\* The connection is lost, and with it the subscriptions; the proxy stays in its
\* registry, and only its constructor subscribes.
LinkChanges ==
    /\ link' = IF link = "down" THEN "up" ELSE "down"
    /\ UNCHANGED <<device, via, queue, burst, tracking, value, reading, armed, known>>
    /\ call' = NoValue

-----------------------------------------------------------------------------
(* The loop of the RubyQueue, which needs the VM's lock.                   *)

\* Mutant: read() gives the VM's lock away while it waits for the device.
NextClosureUnlocked(kind) ==
    queue # << >> /\ queue[Len(queue)].kind = kind

\* The closure the loop takes next is the newest.
NextClosure(kind) ==
    /\ reading = NoValue
    /\ queue # << >> /\ queue[Len(queue)].kind = kind

Pop == queue' = SubSeq(queue, 1, Len(queue) - 1) /\ UNCHANGED burst

fire_on_notify ==
    /\ NextClosure("notify")
    /\ LET v == queue[Len(queue)].data
           fires == Changed(v) /\ armed
       IN  /\ value' = Recorded(v)
           /\ known' = IF fires THEN v ELSE known
           /\ call' = IF fires THEN v ELSE NoValue
    /\ Pop
    /\ UNCHANGED <<deviceVars, tracking, reading, armed>>

\* An indication is given to the on_indicate callback and not recorded.
fire_on_indicate ==
    /\ NextClosure("indicate")
    /\ Pop
    /\ call' = NoValue
    /\ UNCHANGED <<deviceVars, tracking, value, reading, armed, known>>

-----------------------------------------------------------------------------
(* Calls from Ruby.                                                        *)

\* read(false) with a value at hand.
ReadCached ==
    /\ reading = NoValue
    /\ value_tracking /\ value # NoValue
    /\ known' = value /\ call' = NoValue
    /\ UNCHANGED <<deviceVars, queue, burst, tracking, value, reading, armed>>

\* read(true), or nothing at hand: service()->read asks the device ...
ReadBegin ==
    /\ reading = NoValue /\ link # "down"
    /\ reading' = device /\ call' = NoValue
    /\ UNCHANGED <<deviceVars, queue, burst, tracking, value, armed, known>>

\* ... and its answer is recorded and returned.
ReadEnd ==
    /\ reading # NoValue
    /\ value' = Recorded(reading)
    /\ known' = reading /\ reading' = NoValue /\ call' = NoValue
    /\ UNCHANGED <<deviceVars, queue, burst, tracking, armed>>

\* ... or the read throws.
ReadThrows ==
    /\ reading # NoValue
    /\ reading' = NoValue /\ call' = NoValue
    /\ UNCHANGED <<deviceVars, queue, burst, tracking, value, armed, known>>

\* Mutant: last_value is kept when tracking ends.
SetTrackingKeepsValue(b) ==
    /\ reading = NoValue /\ (b => "notify" \in Caps)
    /\ tracking' = (IF b THEN "on" ELSE "off") /\ call' = NoValue
    /\ UNCHANGED <<deviceVars, queue, burst, value, reading, armed, known>>

\* value_tracking=, which throws if values are to be tracked that are not notified.
set_value_tracking(b) ==
    /\ reading = NoValue
    /\ b => "notify" \in Caps
    /\ tracking' = IF b THEN "on" ELSE "off"
    /\ value' = IF b THEN value ELSE NoValue
    /\ call' = NoValue
    /\ UNCHANGED <<deviceVars, queue, burst, reading, armed, known>>

\* set_on_notify, by a program that looks at last_value when it does so.
set_on_notify(b) ==
    /\ reading = NoValue
    /\ armed' = b /\ known' = value /\ call' = NoValue
    /\ UNCHANGED <<deviceVars, queue, burst, tracking, value, reading>>

NotificationsNext ==
    \/ \E v \in Values :
        DeviceSends("notify", v) \/ DeviceSends("indicate", v) \/ DeviceChanges(v)
    \/ LinkChanges
    \/ fire_on_notify \/ fire_on_indicate
    \/ ReadCached \/ ReadBegin \/ ReadEnd \/ ReadThrows
    \/ \E b \in BOOLEAN : set_value_tracking(b) \/ set_on_notify(b)

NotificationsSpec == NotificationsInit /\ [][NotificationsNext]_notificationsVars

-----------------------------------------------------------------------------
(* Properties.                                                             *)

\* Every variable holds a value of its kind, and the queue closures of this
\* characteristic within the bound.
NotificationsTypeOK ==
    /\ device \in Values /\ via \in {"none", "notify", "indicate"}
    /\ link \in {"subscribed", "down", "up"}
    /\ queue \in Seq([kind : {"notify", "indicate"}, data : Values])
    /\ Len(queue) <= MaxPending /\ burst \in 0..2
    /\ tracking \in {"unset", "on", "off"}
    /\ {value, reading, known, call} \subseteq Values \cup {NoValue}
    /\ armed \in BOOLEAN

\* last_value is there only while values are tracked, and then the characteristic can
\* notify: what read() takes from it without asking the device is being kept up to date
\* (CharacteristicValueTracker::set_value_tracking, record_new_value).
ValueOnlyWhileTracking ==
    value # NoValue => value_tracking /\ "notify" \in Caps

\* Whatever order the closures run in, a program that listens knows last_value: every
\* change of it was reported or returned by a read (Characteristic::fire_on_notify).  The
\* one exception is an empty value, which is not reported when it is the first.
ListenerCurrent ==
    armed /\ value \notin {NoValue, Empty} => known = value

\* While values are tracked the on_notify callback is not given what the program has
\* been told last, "skip callback unless value changed" (Characteristic.cpp:92).  There
\* is nothing to compare with before the first value (NoValue), and an empty first value
\* is recorded without being told (Empty).
NoRepeat ==
    [][call' # NoValue /\ value \notin {NoValue, Empty} => call' # known]_notificationsVars

\* A value the device has notified when no other closure was waiting is last_value once
\* it has run, whatever reads were under way when it was sent (Characteristic::read,
\* fire_on_notify).
FreshAfterQuiet ==
    queue = << >> /\ burst <= 1 /\ via = "notify" /\ value # NoValue => value = device

\* "if tracking is enabled, assume we'll get the value via callback"
\* (Characteristic.cpp:59): once the queue is empty, what read() answers from last_value
\* is the device's value, also if the device sent that by an indication (:28, :96).
IndicatedValueIsRead ==
    queue = << >> /\ via = "indicate" /\ value # NoValue => value = device

=============================================================================
