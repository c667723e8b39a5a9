---------------------- MODULE MCModuleEventDispatcher ----------------------
(***************************************************************************)
(* ModuleEventDispatcher on a small instance: the bounds let a notification*)
(* of one enable meet the next one, a kind wait behind another, and two    *)
(* events meet a buffer of one.                                            *)
(***************************************************************************)
EXTENDS ModuleEventDispatcher

MaxReceivedFew == [k \in Kinds |-> IF k = "state" THEN 1 ELSE 2]
=============================================================================
