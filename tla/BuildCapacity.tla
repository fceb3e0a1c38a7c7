--------------------------- MODULE BuildCapacity ---------------------------
(***************************************************************************)
(* What the operator is promised about disposable builds: at most Limit of *)
(* them run on the host at any time, each of them once.  BuildSlots of the *)
(* build runner states this bound as a counter of slots; the detailed      *)
(* module BuildWorker shows that the slots really bound the containers.    *)
(***************************************************************************)
EXTENDS FiniteSets, Naturals

CONSTANTS
    Requests,   \* the builds that may be asked for
    Limit       \* BuildSlots.limit

VARIABLES
    running,    \* the builds that have, or may still get, a container
    finished    \* the builds that had one and can have none any more

vars == <<running, finished>>

Init == running = {} /\ finished = {}

\* A build starts only where there is room, and only once.
Start(r) ==
    /\ r \notin running \cup finished
    /\ Cardinality(running) < Limit
    /\ running' = running \cup {r}
    /\ UNCHANGED finished

\* A build ends for good.
End(r) ==
    /\ r \in running
    /\ running' = running \ {r}
    /\ finished' = finished \cup {r}

Next == \E r \in Requests : Start(r) \/ End(r)

Spec == Init /\ [][Next]_vars
=============================================================================
