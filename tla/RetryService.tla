---------------------------- MODULE RetryService ----------------------------
(***************************************************************************)
(* What the bootstrap retry promises, whoever starts and stops it:         *)
(* retry goroutines are launched one at a time until the shutdown; none is *)
(* launched by a starter that came after it; then all of them end.         *)
(* BootstrapRetry implements it.                                           *)
(***************************************************************************)
CONSTANTS
    Starters,   \* goroutines that may ask for a retry
    Retriers    \* retry goroutines

VARIABLES
    running,    \* the retry goroutines that run
    permitted,  \* the starters that found no shutdown in progress
    over        \* the shutdown has begun

vars == <<running, permitted, over>>

Init == running = {} /\ permitted = {} /\ over = FALSE

Permit(q) ==
    /\ ~over
    /\ permitted' = permitted \cup {q}
    /\ UNCHANGED <<running, over>>

\* The starter launches nothing: a retry runs, or is stored as running.
Decline(q) ==
    /\ q \in permitted
    /\ running # {}
    /\ permitted' = permitted \ {q}
    /\ UNCHANGED <<running, over>>

Launch(q, r) ==
    /\ q \in permitted
    /\ running = {} \/ over
    /\ r \notin running
    /\ permitted' = permitted \ {q}
    /\ running' = running \cup {r}
    /\ UNCHANGED over

End(r) ==
    /\ r \in running
    /\ running' = running \ {r}
    /\ UNCHANGED <<permitted, over>>

Shutdown ==
    /\ over' = TRUE
    /\ UNCHANGED <<running, permitted>>

Next ==
    \/ \E q \in Starters : Permit(q) \/ Decline(q)
    \/ \E q \in Starters, r \in Retriers : Launch(q, r)
    \/ \E r \in Retriers : End(r)
    \/ Shutdown

SafeSpec == Init /\ [][Next]_vars

\* A retry goroutine may run for ever, but not after the shutdown.
Spec == SafeSpec /\ \A r \in Retriers : WF_vars(over /\ End(r))

=============================================================================
