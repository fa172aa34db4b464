----------------------------- MODULE MCShutdown -----------------------------
(* Shutdown for TLC: two adapters, the first with two peripherals.         *)
EXTENDS Shutdown, TLC

CONSTANTS a1, a2, p1, p2

MCAdapterOf == (p1 :> a1) @@ (p2 :> a1)
=============================================================================
