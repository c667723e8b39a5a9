------------------------------ MODULE PeerView ------------------------------
(***************************************************************************)
(* What peer discovery promises the core of every instance: it keeps a     *)
(* state for every id, "Dead" for the unknown ones, changes one at a time, *)
(* and tells the core of a change before it makes the next one.  So the    *)
(* core sees joins and leaves of an id alternate, and misses none.         *)
(***************************************************************************)
CONSTANTS Observers, Ids, States

VARIABLES
    view,    \* state of every id in the registry of each observer
    told     \* last state of every id the observer's core was told of

vars == <<view, told>>

Unknown == [id \in Ids |-> "Dead"]

Init == view = [o \in Observers |-> Unknown] /\ told = view

Learn(o, id, state) ==
    /\ view[o] = told[o]
    /\ state # view[o][id]
    /\ view' = [view EXCEPT ![o][id] = state]
    /\ UNCHANGED told

Tell(o) ==
    /\ view[o] # told[o]
    /\ told' = [told EXCEPT ![o] = view[o]]
    /\ UNCHANGED view

\* The process of the observer dies, and with it all it knew.
Forget(o) ==
    /\ view' = [view EXCEPT ![o] = Unknown]
    /\ told' = [told EXCEPT ![o] = Unknown]

Next == \E o \in Observers :
            \/ \E id \in Ids, state \in States : Learn(o, id, state)
            \/ Tell(o)
            \/ Forget(o)

Fairness == \A o \in Observers : WF_vars(Tell(o))

Spec == Init /\ [][Next]_vars /\ Fairness
=============================================================================
