----------------------------- MODULE MCMessaging -----------------------------
(***************************************************************************)
(* Instances for TLC: one that asks, one that is asked.                    *)
(***************************************************************************)
EXTENDS Messaging, TLC

CONSTANTS a, b, RunsA, RunsB, JoinsA, JoinsB

Starts == (a :> RunsA) @@ (b :> RunsB)
Joins == (a :> JoinsA) @@ (b :> JoinsB)
=============================================================================
