------------------------ MODULE SubscriptionService ------------------------
(***************************************************************************)
(* What subscribers may rely on, whoever subscribes, publishes,            *)
(* unsubscribes and disconnects meanwhile: a topic has one subscription at *)
(* a time; its listener ends only when it was told to, by its context; a   *)
(* subscription is forgotten only when its listener has ended or was told  *)
(* to, and then the listener ends.  TopicManager implements it, provided   *)
(* that handlers exist and do not panic.                                   *)
(***************************************************************************)
CONSTANTS
    Topics,
    Subs,
    None      \* no subscription

VARIABLES
    current,   \* the subscription of each topic, or None
    live,      \* the subscriptions with a running listener
    told       \* those of them told to end

vars == <<current, live, told>>

Init == current = [t \in Topics |-> None] /\ live = {} /\ told = {}

Open(t, s) ==
    /\ current[t] = None
    /\ s \notin live
    /\ \A u \in Topics : current[u] # s
    /\ current' = [current EXCEPT ![t] = s]
    /\ live' = live \cup {s}
    /\ UNCHANGED told

Tell(s) ==
    /\ s \in live
    /\ told' = told \cup {s}
    /\ UNCHANGED <<current, live>>

Forget(t) ==
    /\ current[t] \in live => current[t] \in told
    /\ current' = [current EXCEPT ![t] = None]
    /\ UNCHANGED <<live, told>>

End(s) ==
    /\ s \in told
    /\ live' = live \ {s}
    /\ told' = told \ {s}
    /\ UNCHANGED current

Next ==
    \/ \E t \in Topics : Forget(t) \/ \E s \in Subs : Open(t, s)
    \/ \E s \in Subs : Tell(s) \/ End(s)

SafeSpec == Init /\ [][Next]_vars

\* A listener that was told to end ends.
Spec == SafeSpec /\ \A s \in Subs : WF_vars(End(s))

=============================================================================
