----------------------------- MODULE SimpleNode -----------------------------
(***************************************************************************)
(* The example node (examples/simple-node/main.go): one goroutine reads    *)
(* commands and calls the DB, and keeps a map of its own of the topics it  *)
(* subscribed to, which the "status" command shows.                        *)
(*                                                                         *)
(* The goroutine that waits for a signal cancels a context that Connect    *)
(* does not look at; no other state depends on it.                         *)
(***************************************************************************)
EXTENDS TopicManager

CONSTANT User   \* the goroutine of main

ASSUME NodeAssumption == Clients = {User}

VARIABLES
    nodeSubs,   \* node.subscriptions
    main        \* where main is

nodeVars == <<vars, nodeSubs, main>>

NodeInit == Init /\ nodeSubs = {} /\ main = "connect"

-----------------------------------------------------------------------------

\* pubsub.Connect fails and the process exits, or the prompt appears.
NodeConnect ==
    /\ main = "connect"
    /\ main' \in {"cli", "exited"}
    /\ UNCHANGED <<vars, nodeSubs>>

Prompt == main = "cli" /\ pc[User] = "idle"

\* The topic is noted when the call succeeded.
Noted(t) == IF result'[User] = "ok" THEN nodeSubs \cup {t} ELSE nodeSubs

\* The map is asked before the DB.
NodeSubscribe(t) ==
    /\ Prompt
    /\ t \notin nodeSubs
    /\ SubscribeAgain(User, t) \/ SubscribeJoinFails(User, t) \/ Subscribe(User, t, FALSE)
    /\ nodeSubs' = Noted(t)
    /\ UNCHANGED main

NodePublish(t) ==
    /\ Prompt
    /\ Publish(User, t)
    /\ UNCHANGED <<nodeSubs, main>>

NodeUnsubscribe(t) ==
    /\ Prompt
    /\ t \in nodeSubs
    /\ UnsubscribeUnknown(User, t) \/ Unsubscribe(User, t)
    /\ UNCHANGED <<nodeSubs, main>>

\* Mutant: the topic stays in the map.
DeletedNever == nodeSubs

\* An Unsubscribe that ends deletes the topic from the map.
Deleted == IF pc[User] = "cancelSub" THEN nodeSubs \ {arg[User]} ELSE nodeSubs

NodeCallProceeds ==
    /\ Proceeds(User)
    /\ nodeSubs' = Deleted
    /\ UNCHANGED main

\* "quit" or the end of the input; main defers Disconnect.
NodeQuits ==
    /\ Prompt
    /\ Disconnect(User)
    /\ main' = "leave"
    /\ UNCHANGED nodeSubs

\* main returns, and its goroutines go with it.
NodeExits ==
    /\ main = "leave"
    /\ pc[User] = "idle"
    /\ main' = "exited"
    /\ UNCHANGED <<vars, nodeSubs>>

Running == main \in {"cli", "leave"}

Streams ==
    /\ Running
    /\ \/ \E s \in Subs : Listens(s)
       \/ \E t \in Topics, m \in Messages \ {Own} : Receive(t, m)
    /\ UNCHANGED <<nodeSubs, main>>

Exited == main = "exited" /\ UNCHANGED nodeVars

NodeNext ==
    \/ NodeConnect
    \/ \E t \in Topics : NodeSubscribe(t) \/ NodePublish(t) \/ NodeUnsubscribe(t)
    \/ NodeCallProceeds
    \/ NodeQuits
    \/ NodeExits
    \/ Streams
    \/ Exited

NodeSpec == NodeInit /\ [][NodeNext]_nodeVars

-----------------------------------------------------------------------------
(* Properties; those of TopicManager that hold for a single client are       *)
(* checked here too.                                                         *)

\* At the prompt the node's map agrees with the DB's table: a command that the
\* map lets through is not refused by the DB, and "status" shows what is
\* subscribed.
NodeAgreesWithDB == Prompt => nodeSubs = {t \in Topics : subs[t] # None}

=============================================================================
