-------------------------- MODULE MCCharacteristics --------------------------
(***************************************************************************)
(* For TLC: what a characteristic is made of, one part in each behaviour.  *)
(* The parts share no state, so nothing is lost when a behaviour follows   *)
(* one of them and the others stay as they began.                          *)
(*                                                                         *)
(*   - a callback slot with two arguments, and every kind of proc;         *)
(*   - the guards round the calls of it;                                   *)
(*   - up to three notifications and indications that wait;                *)
(*   - four names of flags of a peripheral, three of which have a test,    *)
(*     and listings of up to two capabilities one of which may be unknown; *)
(*   - bytes of three values, and integers of three bytes.                 *)
(***************************************************************************)
EXTENDS InRubyGuard, Callbacks, Notifications, NamedBits, ByteArrays

MCFields == <<"initialized", "connected", "connectable", "paired">>
MCListings == {<<>>} \cup {<<a>> : a \in Names} \cup {<<a, b>> : a, b \in Names \cup {"unknown"}}

MCStrings == UNION {[1..n -> Bytes] : n \in 0..4}
MCNumbers == {-(Limit + 1), -(Limit \div 2) - 1, -(Limit \div 2), -2, -1, 0, 1, 2, Base, Base + 1,
              Base ^ 2, 13, Limit - 1, Limit}

VARIABLE part    \* the part that this behaviour follows

Others(p) ==
    /\ UNCHANGED part
    /\ p # "guard" => UNCHANGED guardVars
    /\ p # "callback" => UNCHANGED callbacksVars
    /\ p # "notifications" => UNCHANGED notificationsVars
    /\ p # "flags" => UNCHANGED namedBitsVars
    /\ p # "bytes" => UNCHANGED byteArraysVars

MCInit ==
    /\ part \in {"guard", "callback", "notifications", "flags", "bytes"}
    /\ GuardInit /\ CallbacksInit /\ NotificationsInit /\ NamedBitsInit /\ ByteArraysInit
    /\ part # "notifications" => device = Empty
    /\ part # "flags" => status = {}

MCNext ==
    \/ part = "guard" /\ GuardNext /\ Others("guard")
    \/ part = "callback" /\ CallbacksNext /\ Others("callback")
    \/ part = "notifications" /\ NotificationsNext /\ Others("notifications")
    \/ part = "flags" /\ NamedBitsNext /\ Others("flags")
    \/ part = "bytes" /\ ByteArraysNext /\ Others("bytes")

MCSpec == MCInit /\ [][MCNext]_<<part, guardVars, callbacksVars, notificationsVars, namedBitsVars, byteArraysVars>>
=============================================================================
