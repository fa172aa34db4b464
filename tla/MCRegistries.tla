---------------------------- MODULE MCRegistries ----------------------------
(***************************************************************************)
(* The trees of resources on which TLC checks Registries.  Keys and hashes *)
(* are the same numbers; equal ones at different levels show that each     *)
(* level has a factory of its own.                                         *)
(***************************************************************************)
EXTENDS Registries

\* An adapter with two peripherals, each with a service; two characteristics of the first
\* service and one of the second.
TreeResources == {"a1", "p1", "p2", "s1", "s2", "c1", "c2", "c3"}

TreeParent ==
    [r \in TreeResources |->
        CASE r = "a1" -> "host"
          [] r \in {"p1", "p2"} -> "a1"
          [] r = "s1" -> "p1"
          [] r = "s2" -> "p2"
          [] r \in {"c1", "c2"} -> "s1"
          [] r = "c3" -> "s2"]

TreeLevel ==
    [r \in TreeResources \cup {"host"} |->
        CASE r = "host" -> 0
          [] r = "a1" -> 1
          [] r \in {"p1", "p2"} -> 2
          [] r \in {"s1", "s2"} -> 3
          [] r \in {"c1", "c2", "c3"} -> 4]

\* Addresses and UUIDs that are unique at each level, save that both services have a
\* characteristic of the same UUID.
DistinctKey ==
    [r \in TreeResources \cup {"host"} |->
        IF r \in {"p2", "s2", "c2"} THEN 2 ELSE 1]

\* The services of both peripherals have the same UUID, as those of a
\* profile do.
ProfileKey ==
    [r \in TreeResources \cup {"host"} |->
        IF r \in {"p2", "c2"} THEN 2 ELSE 1]

KeyHash == [k \in 1..2 |-> k]
=============================================================================
