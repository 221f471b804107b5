-------------------------- MODULE SimpleNodeProofs --------------------------
(***************************************************************************)
(* What the example node may rely on, for every set of topics, handles,    *)
(* subscriptions and messages: it uses the DB as one more application, its *)
(* own map agrees with the DB's table, and, being the only client, its     *)
(* calls succeed and its Disconnect leaves no topic joined.                *)
(***************************************************************************)
EXTENDS SimpleNode, SubscriptionProofs

USE DEF tables, streams, lock, locals, Return, Goto, ListenerAt

-----------------------------------------------------------------------------
(* The node as an application of TopicManager.                               *)

LEMMA UserOnly == User \in Clients /\ \A c \in Clients : c = User
BY NodeAssumption

LEMMA SubscribeCalls ==
    ASSUME NEW t \in Topics, NodeSubscribe(t)
    PROVE  Calls(User)
BY DEF NodeSubscribe, Calls

LEMMA NodeStepUsesDB == [NodeNext]_nodeVars => [Next]_vars
<1> SUFFICES ASSUME [NodeNext]_nodeVars PROVE [Next]_vars
  OBVIOUS
<1>1. ASSUME Calls(User) \/ Proceeds(User) PROVE Next
  BY <1>1, UserOnly DEF Next
<1>2. ASSUME NEW t \in Topics, NodeSubscribe(t) \/ NodePublish(t) \/ NodeUnsubscribe(t)
      PROVE  Calls(User)
  BY <1>2, SubscribeCalls DEF NodePublish, NodeUnsubscribe, Calls
<1>3. ASSUME NodeQuits PROVE Calls(User)
  BY <1>3 DEF NodeQuits, Calls
<1>4. ASSUME Streams PROVE Next
  BY <1>4 DEF Streams, Next
<1> QED
  BY <1>1, <1>2, <1>3, <1>4
     DEF NodeNext, NodeConnect, NodeCallProceeds, NodeExits, Exited, nodeVars

\* Whatever TopicManager promises its applications, it promises the example.
THEOREM NodeUsesDB == NodeSpec => Spec
BY NodeStepUsesDB, PTL DEF NodeSpec, NodeInit, Spec

-----------------------------------------------------------------------------
(* The two maps.                                                             *)

SubscribedTopics == {t \in Topics : subs[t] # None}

\* The places of the calls the prompt makes; Disconnect is not one of them.
CommandPlaces == {"idle", "lookup", "store", "relock", "send", "cancelSub"}

\* The maps agree before the prompt appears and from then on, also while a
\* command is under way, until the node leaves.
MapsAgree ==
    /\ main = "connect" => pc[User] = "idle"
    /\ main = "cli" => pc[User] \in CommandPlaces
    /\ main \in {"connect", "cli"} => nodeSubs = SubscribedTopics

LEMMA MapsInit == NodeInit => MapsAgree
BY UserOnly DEF NodeInit, Init, MapsAgree, SubscribedTopics

LEMMA SubscribeAgrees ==
    ASSUME TypeOK, MapsAgree, NEW t \in Topics, NodeSubscribe(t)
    PROVE  MapsAgree'
<1> USE UserOnly DEF TypeOK
<1>1. main' = "cli" /\ nodeSubs = SubscribedTopics /\ nodeSubs' = Noted(t)
  BY DEF NodeSubscribe, Prompt, MapsAgree
<1>2. pc'[User] = "idle"
  BY DEF NodeSubscribe, SubscribeAgain, SubscribeJoinFails, Subscribe
<1>3. \/ result'[User] = "ok" /\ \E s \in Subs : subs' = [subs EXCEPT ![t] = s]
      \/ result'[User] # "ok" /\ UNCHANGED subs
  BY DEF NodeSubscribe, SubscribeAgain, SubscribeJoinFails, Subscribe
<1>4. Noted(t) = SubscribedTopics'
  BY <1>1, <1>3, TopicAssumption DEF Noted, SubscribedTopics
<1> QED
  BY <1>1, <1>2, <1>4 DEF MapsAgree, CommandPlaces

LEMMA ProceedAgrees ==
    ASSUME TypeOK, MapsAgree, NodeCallProceeds
    PROVE  MapsAgree'
<1> USE UserOnly DEF TypeOK
<1>1. Proceeds(User) /\ nodeSubs' = Deleted /\ UNCHANGED main
  BY DEF NodeCallProceeds
<1>2. pc[User] # "idle"
  BY <1>1 DEF Proceeds, UnsubscribeCancelSub, PublishKnown, PublishJoinFails, PublishJoins,
              PublishStores, PublishRelocks, PublishSends, DisconnectCancelCtx,
              DisconnectCancelSub, DisconnectTopics, DisconnectHost
<1>3. main # "connect"
  BY <1>2 DEF MapsAgree
<1>4. ASSUME main = "cli" PROVE pc'[User] \in CommandPlaces /\ nodeSubs' = SubscribedTopics'
  <2>1. pc[User] \in CommandPlaces /\ nodeSubs = SubscribedTopics
    BY <1>4 DEF MapsAgree
  <2>2. CASE UnsubscribeCancelSub(User)
    <3>1. pc[User] = "cancelSub" /\ pc'[User] = "idle" /\ subs' = [subs EXCEPT ![arg[User]] = None]
      BY <2>2 DEF UnsubscribeCancelSub
    <3>2. SubscribedTopics' = SubscribedTopics \ {arg[User]}
      BY <3>1 DEF SubscribedTopics
    <3> QED
      BY <1>1, <2>1, <3>1, <3>2 DEF Deleted, CommandPlaces
  <2>3. CASE \/ PublishKnown(User) \/ PublishJoinFails(User) \/ PublishJoins(User)
             \/ PublishStores(User) \/ PublishRelocks(User) \/ PublishSends(User)
    <3>1. pc[User] # "cancelSub" /\ pc'[User] \in CommandPlaces /\ UNCHANGED subs
      BY <2>3 DEF PublishKnown, PublishJoinFails, PublishJoins, PublishStores,
                  PublishRelocks, PublishSends, CommandPlaces
    <3> QED
      BY <1>1, <2>1, <3>1 DEF Deleted, SubscribedTopics
  <2>4. ~(\/ DisconnectCancelCtx(User) \/ DisconnectCancelSub(User)
          \/ DisconnectTopics(User) \/ DisconnectHost(User))
    BY <2>1 DEF DisconnectCancelCtx, DisconnectCancelSub, DisconnectTopics, DisconnectHost,
                CommandPlaces
  <2> QED
    BY <1>1, <2>2, <2>3, <2>4 DEF Proceeds
<1> QED
  BY <1>1, <1>3, <1>4 DEF MapsAgree

LEMMA MapsStep == TypeOK /\ MapsAgree /\ [NodeNext]_nodeVars => MapsAgree'
<1> SUFFICES ASSUME TypeOK, MapsAgree, [NodeNext]_nodeVars PROVE MapsAgree'
  OBVIOUS
<1> USE UserOnly DEF TypeOK
<1>1. ASSUME UNCHANGED <<pc, subs, nodeSubs, main>> PROVE MapsAgree'
  BY <1>1 DEF MapsAgree, SubscribedTopics
<1>2. CASE NodeConnect
  BY <1>2 DEF NodeConnect, vars, MapsAgree, SubscribedTopics, CommandPlaces
<1>3. ASSUME NEW t \in Topics, NodePublish(t) PROVE MapsAgree'
  BY <1>3 DEF NodePublish, Prompt, Publish, MapsAgree, SubscribedTopics, CommandPlaces
<1>4. ASSUME NEW t \in Topics, NodeUnsubscribe(t) PROVE MapsAgree'
  <2>1. UNCHANGED <<subs, nodeSubs, main>> /\ main = "cli" /\ pc'[User] \in CommandPlaces
    BY <1>4 DEF NodeUnsubscribe, Prompt, UnsubscribeUnknown, Unsubscribe, CommandPlaces
  <2> QED
    BY <2>1 DEF MapsAgree, SubscribedTopics
<1>5. CASE NodeQuits
  BY <1>5 DEF NodeQuits, MapsAgree
<1>6. CASE NodeExits
  BY <1>6 DEF NodeExits, MapsAgree
<1>7. CASE Streams
  <2>1. UNCHANGED <<pc, subs>>
    BY <1>7, StreamsLeaveTables DEF Streams
  <2> QED
    BY <1>1, <1>7, <2>1 DEF Streams
<1>8. CASE UNCHANGED nodeVars
  BY <1>1, <1>8 DEF nodeVars, vars
<1> QED
  BY <1>2, <1>3, <1>4, <1>5, <1>6, <1>7, <1>8, SubscribeAgrees, ProceedAgrees
     DEF NodeNext, Exited

LEMMA MapsInvariant == NodeSpec => [](TypeOK /\ MapsAgree)
BY MapsInit, MapsStep, NodeUsesDB, TypeCorrect, PTL DEF NodeSpec

\* "status" shows what is subscribed, and no command is refused on account of a
\* difference between the node's map and the DB's table.
THEOREM AgreementCorrect == NodeSpec => []NodeAgreesWithDB
<1>1. MapsAgree => NodeAgreesWithDB
  BY DEF MapsAgree, NodeAgreesWithDB, Prompt, SubscribedTopics
<1> QED
  BY <1>1, MapsInvariant, PTL

-----------------------------------------------------------------------------
(* One client.                                                               *)

\* The handle a Publish is about to send with is open: nobody else could close
\* the topic since it was found in the table or stored there.
SendsJoined ==
    \A c \in Clients : pc[c] \in {"relock", "send"} => handle[c] = joined[arg[c]]

OneClient == SendsJoined /\ CallsSucceed

\* Outside its own Publish, the one client finds the table complete.
LEMMA TableComplete ==
    ASSUME IInv, pc[User] # "store"
    PROVE  \A t \in Topics : topics[t] = joined[t]
BY UserOnly DEF IInv, TopicsJoined, Storing

LEMMA SubscribeSucceeds ==
    ASSUME IInv, OneClient, NEW t \in Topics, NEW n, Subscribe(User, t, n)
    PROVE  OneClient'
<1> USE UserOnly DEF IInv, TypeOK
<1>1. pc[User] = "idle"
  BY DEF Subscribe
<1>2. joined'[t] = topics'[t]
  BY <1>1, TableComplete DEF Subscribe
<1>3. Return(User, "ok")
  BY <1>2 DEF Subscribe
<1> QED
  BY <1>3 DEF OneClient, SendsJoined, CallsSucceed

LEMMA CallsSucceedStep ==
    ASSUME IInv, OneClient, Calls(User)
    PROVE  OneClient'
<1> USE UserOnly DEF IInv, TypeOK
<1>1. ASSUME NEW t \in Topics, NEW n, Subscribe(User, t, n) PROVE OneClient'
  BY <1>1, SubscribeSucceeds
<1>2. ASSUME NEW t \in Topics, SubscribeJoinFails(User, t) PROVE FALSE
  BY <1>2, TableComplete DEF SubscribeJoinFails
<1>3. ASSUME pc'[User] \notin {"relock", "send"},
             result'[User] \in {result[User], "already", "notSubscribed"}
      PROVE  OneClient'
  BY <1>3 DEF OneClient, SendsJoined, CallsSucceed
<1>4. ASSUME NEW t \in Topics,
             \/ SubscribeAgain(User, t) \/ UnsubscribeUnknown(User, t)
             \/ Unsubscribe(User, t) \/ Publish(User, t)
      PROVE  OneClient'
  BY <1>3, <1>4 DEF SubscribeAgain, UnsubscribeUnknown, Unsubscribe, Publish
<1>5. CASE Disconnect(User)
  BY <1>3, <1>5 DEF Disconnect
<1> QED
  BY <1>1, <1>2, <1>4, <1>5 DEF Calls

LEMMA ProceedsSucceed ==
    ASSUME IInv, OneClient, Proceeds(User)
    PROVE  OneClient'
<1> USE UserOnly DEF IInv, TypeOK
<1>1. ASSUME pc'[User] \notin {"relock", "send"},
             result'[User] \in {result[User], "ok", "badValue"}
      PROVE  OneClient'
  BY <1>1 DEF OneClient, SendsJoined, CallsSucceed
<1>2. CASE UnsubscribeCancelSub(User)
  BY <1>1, <1>2 DEF UnsubscribeCancelSub
<1>3. CASE PublishKnown(User)
  BY <1>3, TableComplete DEF PublishKnown, OneClient, SendsJoined, CallsSucceed
<1>4. ~PublishJoinFails(User)
  BY TableComplete DEF PublishJoinFails, Known
<1>5. CASE PublishJoins(User)
  BY <1>1, <1>5 DEF PublishJoins
<1>6. CASE PublishStores(User)
  BY <1>6 DEF PublishStores, StoresJoined, OneClient, SendsJoined, CallsSucceed
<1>7. CASE PublishRelocks(User)
  BY <1>7 DEF PublishRelocks, OneClient, SendsJoined, CallsSucceed
<1>8. CASE PublishSends(User)
  BY <1>1, <1>8 DEF PublishSends, OneClient, SendsJoined
<1>9. CASE DisconnectCancelCtx(User) \/ DisconnectCancelSub(User)
           \/ DisconnectTopics(User) \/ DisconnectHost(User)
  BY <1>1, <1>9 DEF DisconnectCancelCtx, DisconnectCancelSub, DisconnectTopics,
                    DisconnectHost
<1> QED
  BY <1>2, <1>3, <1>4, <1>5, <1>6, <1>7, <1>8, <1>9 DEF Proceeds

LEMMA OneClientStep == IInv /\ OneClient /\ [Next]_vars => OneClient'
<1> SUFFICES ASSUME IInv, OneClient, [Next]_vars PROVE OneClient'
  OBVIOUS
<1>1. ASSUME UNCHANGED <<joined, pc, arg, handle, result>> PROVE OneClient'
  BY <1>1 DEF OneClient, SendsJoined, CallsSucceed
<1>2. CASE UNCHANGED vars
  BY <1>1, <1>2 DEF vars
<1> QED
  BY <1>1, <1>2, UserOnly, CallsSucceedStep, ProceedsSucceed, StreamsLeaveTables DEF Next

LEMMA OneClientInvariant == ASSUME ~NilHandlers PROVE Spec => [](IInv /\ OneClient)
<1>1. Init => OneClient
  BY DEF Init, OneClient, SendsJoined, CallsSucceed
<1>2. IInv /\ OneClient /\ [Next]_vars => OneClient'
  BY OneClientStep
<1> QED
  BY <1>1, <1>2, Invariant, PTL DEF Spec

\* Publish and Subscribe never fail for a reason of the tables' making when one
\* goroutine uses the DB, as in the example.
THEOREM SucceedCorrect == ASSUME ~NilHandlers PROVE NodeSpec => []CallsSucceed
<1>1. OneClient => CallsSucceed
  BY DEF OneClient
<1> QED
  BY <1>1, OneClientInvariant, NodeUsesDB, PTL

\* The deferred Disconnect of the example leaves no topic joined.
THEOREM LeavesNothing ==
    ASSUME ~NilHandlers
    PROVE  NodeSpec => [][pc[User] = "closeHost" /\ pc'[User] = "idle" =>
                             \A t \in Topics : joined'[t] = None]_vars
<1> DEFINE Leaves == \A c \in Clients : pc[c] = "closeHost" /\ pc'[c] = "idle" =>
                        \A t \in Topics : joined'[t] # None => Storing(t)
           LeavesAll == pc[User] = "closeHost" /\ pc'[User] = "idle" =>
                            \A t \in Topics : joined'[t] = None
<1>1. Leaves => LeavesAll
  BY UserOnly DEF Storing
<1>2. Spec => [][Leaves]_vars
  BY LeavesCorrect DEF DisconnectLeavesTopics
<1>3. Spec => [][LeavesAll]_vars
  BY <1>1, <1>2, PTL
<1> QED
  BY <1>3, NodeUsesDB

=============================================================================
