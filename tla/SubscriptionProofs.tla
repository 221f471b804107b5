------------------------- MODULE SubscriptionProofs -------------------------
(***************************************************************************)
(* What callers and subscribers of a DB may rely on, for every number of   *)
(* clients, topics, handles and subscriptions: the lock is given back on   *)
(* every path, Disconnect leaves no topic joined, recorded subscriptions   *)
(* listen, and subscriptions live as SubscriptionService says.  It rests   *)
(* on the agreement of the tables with gossipsub in TopicManagerProofs.    *)
(***************************************************************************)
EXTENDS TopicManagerProofs

USE DEF tables, streams, lock, locals, Return, Goto, ListenerAt

-----------------------------------------------------------------------------
(* db.instance.mutex.                                                        *)

\* A step of c that neither takes nor gives up the lock.
LEMMA LockKept ==
    ASSUME TypeOK, LockHeldInSections, NEW c \in Clients,
           \A d \in Clients \ {c} : pc'[d] = pc[d],
           pc'[c] \in ReadSection <=> pc[c] \in ReadSection,
           pc'[c] \in WriteSection <=> pc[c] \in WriteSection,
           UNCHANGED lock
    PROVE  LockHeldInSections'
BY DEF TypeOK, LockHeldInSections

LEMMA ReadLockTaken ==
    ASSUME TypeOK, LockHeldInSections, NEW c \in Clients,
           \A d \in Clients \ {c} : pc'[d] = pc[d],
           pc[c] \notin WriteSection, pc'[c] \in ReadSection,
           CanRLock, readers' = readers \cup {c}, UNCHANGED writer
    PROVE  LockHeldInSections'
BY TopicAssumption DEF TypeOK, LockHeldInSections, CanRLock, ReadSection, WriteSection

LEMMA ReadLockGivenUp ==
    ASSUME TypeOK, LockHeldInSections, NEW c \in Clients,
           \A d \in Clients \ {c} : pc'[d] = pc[d],
           pc[c] \in ReadSection, pc'[c] \notin ReadSection \cup WriteSection,
           readers' = readers \ {c}, UNCHANGED writer
    PROVE  LockHeldInSections'
BY DEF TypeOK, LockHeldInSections, ReadSection, WriteSection

LEMMA LockTaken ==
    ASSUME TypeOK, LockHeldInSections, NEW c \in Clients,
           \A d \in Clients \ {c} : pc'[d] = pc[d],
           pc[c] \notin ReadSection, pc'[c] \in WriteSection,
           CanLock, writer' = c, UNCHANGED readers
    PROVE  LockHeldInSections'
BY TopicAssumption DEF TypeOK, LockHeldInSections, CanLock, ReadSection, WriteSection

LEMMA LockGivenUp ==
    ASSUME TypeOK, LockHeldInSections, NEW c \in Clients,
           \A d \in Clients \ {c} : pc'[d] = pc[d],
           pc[c] \in WriteSection, pc'[c] \notin ReadSection \cup WriteSection,
           writer' = None, UNCHANGED readers
    PROVE  LockHeldInSections'
BY TopicAssumption DEF TypeOK, LockHeldInSections, ReadSection, WriteSection

LEMMA CallsLock ==
    ASSUME TypeOK, LockHeldInSections, NEW c \in Clients, Calls(c)
    PROVE  LockHeldInSections'
<1>1. \A d \in Clients \ {c} : pc'[d] = pc[d]
  BY DEF Calls, SubscribeAgain, SubscribeJoinFails, Subscribe, UnsubscribeUnknown,
         Unsubscribe, Publish, Disconnect, TypeOK
<1>2. pc[c] = "idle"
  BY DEF Calls, SubscribeAgain, SubscribeJoinFails, Subscribe, UnsubscribeUnknown,
         Unsubscribe, Publish, Disconnect
<1>3. ASSUME pc'[c] = "idle", UNCHANGED lock PROVE LockHeldInSections'
  BY <1>1, <1>2, <1>3, LockKept DEF ReadSection, WriteSection
<1>4. ASSUME NEW t \in Topics, SubscribeAgain(c, t) PROVE LockHeldInSections'
  BY <1>3, <1>4 DEF SubscribeAgain, TypeOK
<1>5. ASSUME NEW t \in Topics, SubscribeJoinFails(c, t) PROVE LockHeldInSections'
  BY <1>3, <1>5 DEF SubscribeJoinFails, TypeOK
<1>6. ASSUME NEW t \in Topics, NEW n, Subscribe(c, t, n) PROVE LockHeldInSections'
  BY <1>3, <1>6 DEF Subscribe, TypeOK
<1>7. ASSUME NEW t \in Topics, UnsubscribeUnknown(c, t) PROVE LockHeldInSections'
  BY <1>3, <1>7 DEF UnsubscribeUnknown, TypeOK
<1>8. ASSUME NEW t \in Topics, Unsubscribe(c, t) PROVE LockHeldInSections'
  <2>1. pc'[c] = "cancelSub" /\ CanLock /\ writer' = c /\ UNCHANGED readers
    BY <1>8 DEF Unsubscribe, TypeOK
  <2> QED
    BY <1>1, <1>2, <2>1, LockTaken DEF ReadSection, WriteSection
<1>9. ASSUME NEW t \in Topics, Publish(c, t) PROVE LockHeldInSections'
  <2>1. pc'[c] = "lookup" /\ CanRLock /\ readers' = readers \cup {c} /\ UNCHANGED writer
    BY <1>9 DEF Publish, TypeOK
  <2> QED
    BY <1>1, <1>2, <2>1, ReadLockTaken DEF ReadSection, WriteSection
<1>10. CASE Disconnect(c)
  <2>1. pc'[c] = "disconnect" /\ CanLock /\ writer' = c /\ UNCHANGED readers
    BY <1>10 DEF Disconnect, TypeOK
  <2> QED
    BY <1>1, <1>2, <2>1, LockTaken DEF ReadSection, WriteSection
<1> QED
  BY <1>4, <1>5, <1>6, <1>7, <1>8, <1>9, <1>10 DEF Calls

LEMMA ProceedsLock ==
    ASSUME TypeOK, LockHeldInSections, NEW c \in Clients, Proceeds(c)
    PROVE  LockHeldInSections'
<1>1. \A d \in Clients \ {c} : pc'[d] = pc[d]
  BY DEF Proceeds, UnsubscribeCancelSub, PublishKnown, PublishJoinFails, PublishJoins,
         PublishStores, PublishRelocks, PublishSends, DisconnectCancelCtx,
         DisconnectCancelSub, DisconnectTopics, DisconnectHost, TypeOK
<1>2. CASE UnsubscribeCancelSub(c)
  <2>1. pc[c] = "cancelSub" /\ pc'[c] = "idle" /\ writer' = None /\ UNCHANGED readers
    BY <1>2 DEF UnsubscribeCancelSub, TypeOK
  <2> QED
    BY <1>1, <2>1, LockGivenUp DEF ReadSection, WriteSection
<1>3. CASE PublishKnown(c)
  <2>1. pc[c] = "lookup" /\ pc'[c] = "send" /\ UNCHANGED lock
    BY <1>3 DEF PublishKnown, TypeOK
  <2> QED
    BY <1>1, <2>1, LockKept DEF ReadSection, WriteSection
<1>4. CASE PublishJoinFails(c)
  <2>1. pc[c] = "lookup" /\ pc'[c] = "idle" /\ readers' = readers \ {c} /\ UNCHANGED writer
    BY <1>4 DEF PublishJoinFails, TypeOK
  <2> QED
    BY <1>1, <2>1, ReadLockGivenUp DEF ReadSection, WriteSection
<1>5. CASE PublishJoins(c)
  <2>1. pc[c] = "lookup" /\ pc'[c] = "store" /\ readers' = readers \ {c} /\ UNCHANGED writer
    BY <1>5 DEF PublishJoins, RLockGivenUp, TypeOK
  <2> QED
    BY <1>1, <2>1, ReadLockGivenUp DEF ReadSection, WriteSection
<1>6. CASE PublishStores(c)
  <2>1. pc[c] = "store" /\ pc'[c] = "relock" /\ UNCHANGED lock
    BY <1>6 DEF PublishStores, TypeOK
  <2> QED
    BY <1>1, <2>1, LockKept DEF ReadSection, WriteSection
<1>7. CASE PublishRelocks(c)
  <2>1. /\ pc[c] = "relock" /\ pc'[c] = "send"
        /\ CanRLock /\ readers' = readers \cup {c} /\ UNCHANGED writer
    BY <1>7 DEF PublishRelocks, TypeOK
  <2> QED
    BY <1>1, <2>1, ReadLockTaken DEF ReadSection, WriteSection
<1>8. CASE PublishSends(c)
  <2>1. pc[c] = "send" /\ pc'[c] = "idle" /\ readers' = readers \ {c} /\ UNCHANGED writer
    BY <1>8 DEF PublishSends, TypeOK
  <2> QED
    BY <1>1, <2>1, ReadLockGivenUp DEF ReadSection, WriteSection
<1>9. CASE DisconnectCancelCtx(c) \/ DisconnectCancelSub(c) \/ DisconnectTopics(c)
  <2>1. pc[c] \in WriteSection /\ pc'[c] \in WriteSection /\ UNCHANGED lock
    BY <1>9 DEF DisconnectCancelCtx, DisconnectCancelSub, DisconnectTopics, WriteSection,
                TypeOK
  <2> QED
    BY <1>1, <2>1, LockKept DEF ReadSection, WriteSection
<1>10. CASE DisconnectHost(c)
  <2>1. pc[c] = "closeHost" /\ pc'[c] = "idle" /\ writer' = None /\ UNCHANGED readers
    BY <1>10 DEF DisconnectHost, TypeOK
  <2> QED
    BY <1>1, <2>1, LockGivenUp DEF ReadSection, WriteSection
<1> QED
  BY <1>2, <1>3, <1>4, <1>5, <1>6, <1>7, <1>8, <1>9, <1>10 DEF Proceeds

\* Neither gossipsub nor a listener knows the lock.
LEMMA StreamsLeaveTables ==
    ASSUME \/ \E s \in Subs : Listens(s) \/ UserCancels(s)
           \/ \E t \in Topics, m \in Messages \ {Own} : Receive(t, m)
    PROVE  UNCHANGED <<tables, lock, locals, hostOpen>>
BY DEF Listens, ListenerSelect, NextMessage, NextFails, HandlerReturns, HandlerFails,
       UserCancels, Receive

LEMMA LockStep == TypeOK /\ LockHeldInSections /\ [Next]_vars => LockHeldInSections'
<1> SUFFICES ASSUME TypeOK, LockHeldInSections, [Next]_vars PROVE LockHeldInSections'
  OBVIOUS
<1>1. ASSUME UNCHANGED <<lock, pc>> PROVE LockHeldInSections'
  BY <1>1 DEF LockHeldInSections
<1>2. CASE UNCHANGED vars
  BY <1>1, <1>2 DEF vars
<1> QED
  BY <1>1, <1>2, CallsLock, ProceedsLock, StreamsLeaveTables DEF Next

\* Every path out of a section gives the lock back, and nobody waits for the
\* write lock with a read lock in hand, for any number of clients.
THEOREM LockCorrect == Spec => []LockHeldInSections
<1>1. Init => LockHeldInSections
  BY TopicAssumption DEF Init, LockHeldInSections, ReadSection, WriteSection
<1>2. TypeOK /\ LockHeldInSections /\ [Next]_vars => LockHeldInSections'
  BY LockStep
<1> QED
  BY <1>1, <1>2, TypeCorrect, PTL DEF Spec

-----------------------------------------------------------------------------
(* Disconnect.                                                               *)

\* While Disconnect closes the host, the table is empty.
TopicsCleared == \A c \in Clients : pc[c] = "closeHost" => \A t \in Topics : topics[t] = None

LEMMA ClearedStep ==
    ASSUME IInv, TopicsCleared, [Next]_vars
    PROVE  TopicsCleared'
<1> USE DEF IInv, TypeOK
<1> SUFFICES ASSUME NEW c \in Clients, pc'[c] = "closeHost", NEW t \in Topics
             PROVE  topics'[t] = None
  BY DEF TopicsCleared
<1>1. ASSUME pc[c] = "closeHost", UNCHANGED topics PROVE topics'[t] = None
  BY <1>1 DEF TopicsCleared
<1>2. ASSUME UNCHANGED <<topics, pc>> PROVE topics'[t] = None
  BY <1>1, <1>2
<1>3. ASSUME NEW d \in Clients, Calls(d) PROVE topics'[t] = None
  <2>1. CASE \E u \in Topics, n \in {FALSE, NilHandlers} : Subscribe(d, u, n)
    <3>1. CanLock /\ \E res \in Results : Return(d, res)
      BY <2>1 DEF Subscribe, Results
    <3>2. pc[c] = "closeHost"
      BY <3>1
    <3> QED
      BY <3>1, <3>2, WriteBegins DEF WriteSection
  <2>2. CASE ~ \E u \in Topics, n \in {FALSE, NilHandlers} : Subscribe(d, u, n)
    <3>1. UNCHANGED topics /\ pc[c] = "closeHost"
      BY <1>3, <2>2 DEF Calls, SubscribeAgain, SubscribeJoinFails, UnsubscribeUnknown,
                        Unsubscribe, Publish, Disconnect
    <3> QED
      BY <1>1, <3>1
  <2> QED
    BY <2>1, <2>2
<1>4. ASSUME NEW d \in Clients, Proceeds(d) PROVE topics'[t] = None
  <2>1. CASE UnsubscribeCancelSub(d)
    <3>1. pc[c] = "closeHost" /\ topics'[t] \in {None, topics[t]}
      BY <2>1 DEF UnsubscribeCancelSub, TopicForgotten
    <3> QED
      BY <3>1 DEF TopicsCleared
  <2>2. CASE PublishStores(d)
    <3>1. pc[c] = "closeHost" /\ CanLock
      BY <2>2 DEF PublishStores
    <3> QED
      BY <3>1, WriteBegins DEF WriteSection
  <2>3. CASE DisconnectTopics(d)
    BY <2>3 DEF DisconnectTopics
  <2>4. CASE PublishSends(d)
    <3>1. UNCHANGED topics /\ \E res \in Results : Return(d, res)
      BY <2>4 DEF PublishSends, Results
    <3> QED
      BY <1>1, <3>1
  <2>5. CASE \/ PublishKnown(d) \/ PublishJoinFails(d) \/ PublishJoins(d)
             \/ PublishRelocks(d) \/ DisconnectCancelCtx(d) \/ DisconnectCancelSub(d)
             \/ DisconnectHost(d)
    <3>1. UNCHANGED topics /\ pc[c] = "closeHost"
      BY <2>5 DEF PublishKnown, PublishJoinFails, PublishJoins, PublishRelocks,
                  DisconnectCancelCtx, DisconnectCancelSub, DisconnectHost
    <3> QED
      BY <1>1, <3>1
  <2> QED
    BY <1>4, <2>1, <2>2, <2>3, <2>4, <2>5 DEF Proceeds
<1>5. CASE UNCHANGED vars
  BY <1>2, <1>5 DEF vars
<1> QED
  BY <1>2, <1>3, <1>4, <1>5, StreamsLeaveTables DEF Next

\* Disconnect returns from closeHost only.
LEMMA ReturnsFromHost ==
    ASSUME TypeOK, [Next]_vars, NEW c \in Clients, pc[c] = "closeHost", pc'[c] = "idle"
    PROVE  UNCHANGED <<joined, topics>>
<1>1. ASSUME NEW d \in Clients, Calls(d) \/ Proceeds(d), d # c PROVE pc'[c] = pc[c]
  BY <1>1 DEF Calls, SubscribeAgain, SubscribeJoinFails, Subscribe, UnsubscribeUnknown,
              Unsubscribe, Publish, Disconnect, Proceeds, UnsubscribeCancelSub,
              PublishKnown, PublishJoinFails, PublishJoins, PublishStores, PublishRelocks,
              PublishSends, DisconnectCancelCtx, DisconnectCancelSub, DisconnectTopics,
              DisconnectHost, TypeOK
<1>2. ASSUME Calls(c) \/ Proceeds(c) PROVE DisconnectHost(c)
  BY <1>2 DEF Calls, SubscribeAgain, SubscribeJoinFails, Subscribe, UnsubscribeUnknown,
              Unsubscribe, Publish, Disconnect, Proceeds, UnsubscribeCancelSub,
              PublishKnown, PublishJoinFails, PublishJoins, PublishStores, PublishRelocks,
              PublishSends, DisconnectCancelCtx, DisconnectCancelSub, DisconnectTopics
<1>3. CASE UNCHANGED vars
  BY <1>3 DEF vars
<1> QED
  BY <1>1, <1>2, <1>3, StreamsLeaveTables DEF Next, DisconnectHost

LEMMA DisconnectInvariant == ASSUME ~NilHandlers PROVE Spec => [](IInv /\ TopicsCleared)
<1>1. Init => TopicsCleared
  BY DEF Init, TopicsCleared
<1>2. IInv /\ TopicsCleared /\ [Next]_vars => TopicsCleared'
  BY ClearedStep
<1> QED
  BY <1>1, <1>2, Invariant, PTL DEF Spec

\* When Disconnect returns, the only topics still joined are those a Publish has
\* joined behind its back and is about to store, for any number of clients.
THEOREM LeavesCorrect == ASSUME ~NilHandlers PROVE Spec => DisconnectLeavesTopics
<1> DEFINE Leaves == \A c \in Clients : pc[c] = "closeHost" /\ pc'[c] = "idle" =>
                        \A t \in Topics : joined'[t] # None => Storing(t)
<1>1. ASSUME IInv, TopicsCleared, [Next]_vars PROVE Leaves
  <2> SUFFICES ASSUME NEW c \in Clients, pc[c] = "closeHost", pc'[c] = "idle",
                      NEW t \in Topics, joined'[t] # None
               PROVE  Storing(t)
    OBVIOUS
  <2>1. UNCHANGED <<joined, topics>>
    BY <1>1, ReturnsFromHost DEF IInv
  <2>2. topics[t] = None /\ joined[t] # None
    BY <1>1, <2>1 DEF TopicsCleared
  <2> QED
    BY <1>1, <2>2 DEF IInv, TopicsJoined
<1>2. IInv /\ TopicsCleared /\ [Next]_vars => [Leaves]_vars
  BY <1>1
<1>3. Spec => [][Leaves]_vars
  BY <1>2, DisconnectInvariant, PTL DEF Spec
<1> QED
  BY <1>3 DEF DisconnectLeavesTopics

-----------------------------------------------------------------------------
(* Subscriptions, as SubscriptionService sees them.                          *)

HandlersExist == \A s \in Subs : ~sub[s].nilHandler

\* What a step may do to the subscriptions.
SameListeners == \A s \in Subs : Listening(s)' <=> Listening(s)
SameContexts  == \A s \in Subs : sub'[s].ctxDone <=> sub[s].ctxDone

Opens(t, s) ==
    /\ subs[t] = None /\ ~Listening(s) /\ \A u \in Topics : subs[u] # s
    /\ subs' = [subs EXCEPT ![t] = s]
    /\ Listening(s)' /\ ~sub'[s].ctxDone
    /\ \A z \in Subs \ {s} : Listening(z)' <=> Listening(z)
    /\ \A z \in Subs \ {s} : sub'[z].ctxDone <=> sub[z].ctxDone

Tells(s) ==
    /\ \A z \in Subs : sub'[z].ctxDone <=> (sub[z].ctxDone \/ z = s)
    /\ SameListeners /\ UNCHANGED subs

Forgets(t) ==
    /\ subs[t] \in Subs /\ sub[subs[t]].ctxDone
    /\ subs' = [subs EXCEPT ![t] = None]
    /\ SameListeners /\ SameContexts

Ends(s) ==
    /\ Listening(s) /\ sub[s].ctxDone /\ ~Listening(s)'
    /\ \A z \in Subs \ {s} : Listening(z)' <=> Listening(z)
    /\ SameContexts /\ UNCHANGED subs

Stays == SameListeners /\ SameContexts /\ UNCHANGED subs

\* The callers of a subscription's cancellation between its two halves.
Cancelling(c, t) == pc[c] \in {"cancelSub", "disconnectSub"} /\ arg[c] = t

\* A context is done at the hands of its caller, or of Unsubscribe or Disconnect.
ToldBy(s) ==
    CtxCancels \/ \E c \in Clients, t \in Topics : subs[t] = s /\ Cancelling(c, t)'

SubscriptionStep ==
    \/ Stays
    \/ \E t \in Topics : Forgets(t) \/ \E s \in Subs : Opens(t, s)
    \/ \E s \in Subs : Ends(s) \/ (Tells(s) /\ ToldBy(s))

LEMMA SameSubscriptions ==
    ASSUME UNCHANGED <<subs, sub, listener>>
    PROVE  SubscriptionStep
BY DEF SubscriptionStep, Stays, SameListeners, SameContexts, Listening

LEMMA SubscribeSteps ==
    ASSUME IInv, NEW c \in Clients, NEW t \in Topics, NEW n, Subscribe(c, t, n)
    PROVE  SubscriptionStep
<1> USE DEF IInv, TypeOK
<1>1. PICK s \in Subs :
         /\ FreshSub(s)
         /\ \/ /\ sub' = [sub EXCEPT ![s] =
                        [topic |-> t, handle |-> topics'[t], nilHandler |-> n,
                         ctxDone |-> FALSE, active |-> TRUE]]
               /\ listener' = [listener EXCEPT ![s] = "select"]
               /\ subs' = [subs EXCEPT ![t] = s]
            \/ UNCHANGED <<subs, sub, listener>>
  BY DEF Subscribe
<1>2. subs[t] = None
  BY DEF Subscribe, HasHandler, SubsRecorded, Recorded
<1>3. ASSUME listener' = [listener EXCEPT ![s] = "select"], subs' = [subs EXCEPT ![t] = s],
             sub' = [sub EXCEPT ![s] = [topic |-> t, handle |-> topics'[t], nilHandler |-> n,
                                        ctxDone |-> FALSE, active |-> TRUE]]
      PROVE  Opens(t, s)
  BY <1>1, <1>2, <1>3 DEF Opens, FreshSub, Listening
<1> QED
  BY <1>1, <1>3, SameSubscriptions DEF SubscriptionStep

\* The first half of a cancellation.
LEMMA CancelTells ==
    ASSUME IInv, NEW c \in Clients, NEW t \in Topics, subs[t] # None,
           sub' = ContextCancelled(subs[t]), Cancelling(c, t)', UNCHANGED <<subs, listener>>
    PROVE  SubscriptionStep
<1>1. subs[t] \in Subs /\ sub \in [Subs -> SubRecord]
  BY DEF IInv, TypeOK
<1>2. \A z \in Subs : sub'[z].ctxDone <=> (sub[z].ctxDone \/ z = subs[t])
  BY <1>1 DEF ContextCancelled, SubRecord
<1>3. Tells(subs[t]) /\ ToldBy(subs[t])
  BY <1>2 DEF Tells, ToldBy, SameListeners, Listening
<1> QED
  BY <1>1, <1>3 DEF SubscriptionStep

\* The second half.
LEMMA CancelForgets ==
    ASSUME IInv, NEW c \in Clients, NEW t \in Topics, Cancelling(c, t),
           sub' = [sub EXCEPT ![subs[t]].active = FALSE],
           subs' = [subs EXCEPT ![t] = None], UNCHANGED listener
    PROVE  SubscriptionStep
<1>1. subs[t] \in Subs /\ sub[subs[t]].ctxDone /\ sub \in [Subs -> SubRecord]
  BY DEF IInv, TypeOK, Halfway, Cancelling
<1>2. \A z \in Subs : sub'[z].ctxDone <=> sub[z].ctxDone
  BY <1>1 DEF SubRecord
<1>3. Forgets(t)
  BY <1>1, <1>2 DEF Forgets, SameListeners, SameContexts, Listening
<1> QED
  BY <1>3 DEF SubscriptionStep

LEMMA CallsSteps ==
    ASSUME IInv, NEW c \in Clients, Calls(c)
    PROVE  SubscriptionStep
<1>1. ASSUME NEW t \in Topics, NEW n, Subscribe(c, t, n) PROVE SubscriptionStep
  BY <1>1, SubscribeSteps
<1>2. ASSUME NEW t \in Topics, Unsubscribe(c, t) PROVE SubscriptionStep
  <2>1. Cancelling(c, t)'
    BY <1>2 DEF Unsubscribe, Cancelling, IInv, TypeOK
  <2> QED
    BY <1>2, <2>1, CancelTells DEF Unsubscribe
<1>3. ASSUME NEW t \in Topics,
             \/ SubscribeAgain(c, t) \/ SubscribeJoinFails(c, t)
             \/ UnsubscribeUnknown(c, t) \/ Publish(c, t)
      PROVE  SubscriptionStep
  BY <1>3, SameSubscriptions
     DEF SubscribeAgain, SubscribeJoinFails, UnsubscribeUnknown, Publish, streams
<1>4. CASE Disconnect(c)
  BY <1>4, SameSubscriptions DEF Disconnect
<1> QED
  BY <1>1, <1>2, <1>3, <1>4 DEF Calls

LEMMA ProceedsSteps ==
    ASSUME IInv, NEW c \in Clients, Proceeds(c)
    PROVE  SubscriptionStep
<1>1. CASE UnsubscribeCancelSub(c)
  <2>1. arg[c] \in Topics /\ Cancelling(c, arg[c])
    BY <1>1 DEF UnsubscribeCancelSub, Cancelling, IInv, TypeOK
  <2> QED
    BY <1>1, <2>1, CancelForgets DEF UnsubscribeCancelSub
<1>2. CASE DisconnectCancelSub(c)
  <2>1. arg[c] \in Topics /\ Cancelling(c, arg[c])
    BY <1>2 DEF DisconnectCancelSub, Cancelling, IInv, TypeOK
  <2> QED
    BY <1>2, <2>1, CancelForgets DEF DisconnectCancelSub
<1>3. CASE DisconnectCancelCtx(c)
  <2>1. PICK t \in Topics : /\ subs[t] # None /\ sub' = ContextCancelled(subs[t])
                            /\ Cancelling(c, t)'
    BY <1>3 DEF DisconnectCancelCtx, Cancelling, IInv, TypeOK
  <2> QED
    BY <1>3, <2>1, CancelTells DEF DisconnectCancelCtx
<1>4. CASE \/ PublishKnown(c) \/ PublishJoinFails(c) \/ PublishJoins(c)
           \/ PublishStores(c) \/ PublishRelocks(c) \/ PublishSends(c)
           \/ DisconnectTopics(c) \/ DisconnectHost(c)
  BY <1>4, SameSubscriptions
     DEF PublishKnown, PublishJoinFails, PublishJoins, PublishStores, PublishRelocks,
         PublishSends, DisconnectTopics, DisconnectHost
<1> QED
  BY <1>1, <1>2, <1>3, <1>4 DEF Proceeds

\* No message and no handler ends a listener: its context does.
LEMMA ListensSteps ==
    ASSUME IInv, HandlersExist, ~HandlerPanics, NEW s \in Subs, Listens(s)
    PROVE  SubscriptionStep
<1> USE DEF IInv, TypeOK
<1>1. ASSUME NEW label \in {"select", "next", "handle"}, ListenerAt(s, label), Listening(s),
             UNCHANGED <<subs, sub>>
      PROVE  SubscriptionStep
  BY <1>1 DEF SubscriptionStep, Stays, SameListeners, SameContexts, Listening
<1>2. ASSUME ListenerAt(s, "ended"), Listening(s), sub[s].ctxDone, UNCHANGED <<subs, sub>>
      PROVE  SubscriptionStep
  <2>1. Ends(s)
    BY <1>2 DEF Ends, SameContexts, Listening
  <2> QED
    BY <2>1 DEF SubscriptionStep
<1>3. CASE ListenerSelect(s)
  BY <1>1, <1>2, <1>3 DEF ListenerSelect, ContextDone, Listening
<1>4. CASE NextMessage(s)
  BY <1>1, <1>4 DEF NextMessage, Skipped, Listening
<1>5. CASE NextFails(s)
  BY <1>1, <1>2, <1>5 DEF NextFails, Listening
<1>6. CASE HandlerReturns(s)
  BY <1>1, <1>6 DEF HandlerReturns, Listening
<1>7. ~HandlerFails(s)
  BY DEF HandlerFails, HandlersExist
<1> QED
  BY <1>3, <1>4, <1>5, <1>6, <1>7 DEF Listens

LEMMA UserCancelsSteps ==
    ASSUME IInv, NEW s \in Subs, UserCancels(s)
    PROVE  SubscriptionStep
<1>1. \A z \in Subs : sub'[z].ctxDone <=> (sub[z].ctxDone \/ z = s)
  BY DEF UserCancels, IInv, TypeOK, SubRecord
<1>2. Tells(s) /\ ToldBy(s)
  BY <1>1 DEF UserCancels, Tells, ToldBy, SameListeners, Listening
<1> QED
  BY <1>2 DEF SubscriptionStep

LEMMA SubscriptionSteps ==
    ASSUME IInv, HandlersExist, ~HandlerPanics, [Next]_vars
    PROVE  SubscriptionStep
<1>1. ASSUME NEW t \in Topics, NEW m \in Messages \ {Own}, Receive(t, m)
      PROVE  SubscriptionStep
  BY <1>1, SameSubscriptions DEF Receive
<1>2. CASE UNCHANGED vars
  BY <1>2, SameSubscriptions DEF vars
<1> QED
  BY <1>1, <1>2, CallsSteps, ProceedsSteps, ListensSteps, UserCancelsSteps DEF Next

LEMMA HandlersStep ==
    ASSUME TypeOK, ~NilHandlers, HandlersExist, [Next]_vars
    PROVE  HandlersExist'
<1> USE DEF TypeOK, HandlersExist
<1>1. ASSUME NEW z, sub' = [sub EXCEPT ![z].ctxDone = TRUE] PROVE HandlersExist'
  BY <1>1 DEF SubRecord
<1>2. ASSUME NEW z, sub' = [sub EXCEPT ![z].active = FALSE] PROVE HandlersExist'
  BY <1>2 DEF SubRecord
<1>3. ASSUME UNCHANGED sub PROVE HandlersExist'
  BY <1>3
<1>4. ASSUME NEW c \in Clients, NEW t \in Topics, NEW n \in {FALSE, NilHandlers},
             Subscribe(c, t, n)
      PROVE  HandlersExist'
  <2>1. n = FALSE
    BY TopicAssumption
  <2>2. UNCHANGED sub \/ \E h \in Handles, s \in Subs :
           sub' = [sub EXCEPT ![s] = [topic |-> t, handle |-> h, nilHandler |-> n,
                                      ctxDone |-> FALSE, active |-> TRUE]]
    BY <1>4 DEF Subscribe
  <2>3. CASE UNCHANGED sub
    BY <1>3, <2>3
  <2>4. ASSUME NEW h \in Handles, NEW s \in Subs,
               sub' = [sub EXCEPT ![s] = [topic |-> t, handle |-> h, nilHandler |-> n,
                                          ctxDone |-> FALSE, active |-> TRUE]]
        PROVE  HandlersExist'
    BY <2>1, <2>4
  <2> QED
    BY <2>2, <2>3, <2>4
<1>5. ASSUME NEW c \in Clients, Calls(c) PROVE HandlersExist'
  <2>1. CASE \E t \in Topics, n \in {FALSE, NilHandlers} : Subscribe(c, t, n)
    BY <1>4, <2>1
  <2>2. CASE \E t \in Topics : Unsubscribe(c, t)
    BY <1>1, <2>2 DEF Unsubscribe, ContextCancelled
  <2>3. CASE \/ \E t \in Topics : \/ SubscribeAgain(c, t) \/ SubscribeJoinFails(c, t)
                                 \/ UnsubscribeUnknown(c, t) \/ Publish(c, t)
             \/ Disconnect(c)
    BY <1>3, <2>3 DEF SubscribeAgain, SubscribeJoinFails, UnsubscribeUnknown, Publish,
                      Disconnect
  <2> QED
    BY <1>5, <2>1, <2>2, <2>3 DEF Calls
<1>6. ASSUME NEW c \in Clients, Proceeds(c) PROVE HandlersExist'
  <2>1. CASE UnsubscribeCancelSub(c) \/ DisconnectCancelSub(c)
    BY <1>2, <2>1 DEF UnsubscribeCancelSub, DisconnectCancelSub
  <2>2. CASE DisconnectCancelCtx(c)
    BY <1>1, <2>2 DEF DisconnectCancelCtx, ContextCancelled
  <2>3. CASE \/ PublishKnown(c) \/ PublishJoinFails(c) \/ PublishJoins(c)
             \/ PublishStores(c) \/ PublishRelocks(c) \/ PublishSends(c)
             \/ DisconnectTopics(c) \/ DisconnectHost(c)
    BY <1>3, <2>3 DEF PublishKnown, PublishJoinFails, PublishJoins, PublishStores,
                      PublishRelocks, PublishSends, DisconnectTopics, DisconnectHost
  <2> QED
    BY <1>6, <2>1, <2>2, <2>3 DEF Proceeds
<1>7. ASSUME NEW s \in Subs, UserCancels(s) PROVE HandlersExist'
  BY <1>1, <1>7 DEF UserCancels
<1>8. ASSUME NEW s \in Subs, Listens(s) PROVE HandlersExist'
  BY <1>3, <1>8 DEF Listens, ListenerSelect, NextMessage, NextFails, HandlerReturns,
                    HandlerFails
<1>9. ASSUME NEW t \in Topics, NEW m \in Messages \ {Own}, Receive(t, m) PROVE HandlersExist'
  BY <1>3, <1>9 DEF Receive
<1>10. CASE UNCHANGED vars
  BY <1>3, <1>10 DEF vars
<1> QED
  BY <1>5, <1>6, <1>7, <1>8, <1>9, <1>10 DEF Next

LEMMA HandlersInvariant == ASSUME ~NilHandlers PROVE Spec => [](IInv /\ HandlersExist)
<1>1. Init => HandlersExist
  BY DEF Init, HandlersExist, NoRecord
<1>2. IInv /\ HandlersExist /\ [Next]_vars => HandlersExist'
  BY HandlersStep DEF IInv
<1> QED
  BY <1>1, <1>2, Invariant, PTL DEF Spec

LEMMA ServiceInit == Init => Service!Init
BY DEF Init, NoRecord, Listening, Service!Init

\* Each kind of step, with the substitution of Service carried out.
LEMMA ServiceStep ==
    ASSUME SubscriptionStep
    PROVE  [Service!Next]_(Service!vars)
<1> DEFINE Live == {s \in Subs : Listening(s)}
           Told == {s \in Subs : Listening(s) /\ sub[s].ctxDone}
<1>1. CASE Stays
  BY <1>1 DEF Stays, SameListeners, SameContexts, Service!vars
<1>2. ASSUME NEW t \in Topics, Forgets(t) PROVE Service!Next
  <2>1. Live' = Live /\ Told' = Told
    BY <1>2 DEF Forgets, SameListeners, SameContexts
  <2> QED
    BY <1>2, <2>1 DEF Forgets, Service!Next, Service!Forget
<1>3. ASSUME NEW t \in Topics, NEW s \in Subs, Opens(t, s) PROVE Service!Next
  <2>1. Live' = Live \cup {s} /\ Told' = Told
    BY <1>3 DEF Opens
  <2> QED
    BY <1>3, <2>1 DEF Opens, Service!Next, Service!Open
<1>4. ASSUME NEW s \in Subs, Ends(s) PROVE Service!Next
  <2>1. Live' = Live \ {s} /\ Told' = Told \ {s}
    BY <1>4 DEF Ends, SameContexts
  <2> QED
    BY <1>4, <2>1 DEF Ends, Service!Next, Service!End
<1>5. ASSUME NEW s \in Subs, Tells(s) PROVE [Service!Next]_(Service!vars)
  <2>1. Live' = Live
    BY <1>5 DEF Tells, SameListeners
  <2>2. CASE Listening(s)
    <3>1. Told' = Told \cup {s}
      BY <1>5, <2>2 DEF Tells, SameListeners
    <3> QED
      BY <1>5, <2>1, <2>2, <3>1 DEF Tells, Service!Next, Service!Tell
  <2>3. CASE ~Listening(s)
    <3>1. Told' = Told
      BY <1>5, <2>3 DEF Tells, SameListeners
    <3> QED
      BY <1>5, <2>1, <3>1 DEF Tells, Service!vars
  <2> QED
    BY <2>2, <2>3
<1> QED
  BY <1>1, <1>2, <1>3, <1>4, <1>5 DEF SubscriptionStep

\* The safety half of KeepsSubscriptions, for any number of clients: a listener
\* ends only when it was told to, and a subscription is forgotten only then.
THEOREM ServiceCorrect == ASSUME ~NilHandlers, ~HandlerPanics PROVE Spec => Service!SafeSpec
<1>1. IInv /\ HandlersExist /\ [Next]_vars => [Service!Next]_(Service!vars)
  BY SubscriptionSteps, ServiceStep
<1> QED
  BY <1>1, ServiceInit, HandlersInvariant, PTL DEF Spec, Service!SafeSpec

-----------------------------------------------------------------------------
(* Listeners of recorded subscriptions.                                      *)

\* The listener of a recorded subscription runs until its context is done, which
\* it is only while Unsubscribe or Disconnect is about to forget it.
ListensOrCancelled(t) ==
    subs[t] # None =>
        /\ Listening(subs[t]) \/ sub[subs[t]].ctxDone
        /\ sub[subs[t]].ctxDone => \E c \in Clients : Cancelling(c, t)

AllListen == \A t \in Topics : ListensOrCancelled(t)

\* Who cancels a subscription goes on until it is forgotten.
LEMMA CancellingGoesOn ==
    ASSUME TypeOK, [Next]_vars, NEW c \in Clients, NEW t \in Topics, Cancelling(c, t),
           subs'[t] # None
    PROVE  Cancelling(c, t)'
<1>1. ASSUME NEW d \in Clients, Calls(d) PROVE d # c /\ pc'[c] = pc[c] /\ arg'[c] = arg[c]
  BY <1>1 DEF Calls, SubscribeAgain, SubscribeJoinFails, Subscribe, UnsubscribeUnknown,
              Unsubscribe, Publish, Disconnect, TypeOK, Cancelling
<1>2. ASSUME NEW d \in Clients, Proceeds(d), d # c PROVE pc'[c] = pc[c] /\ arg'[c] = arg[c]
  BY <1>2 DEF Proceeds, UnsubscribeCancelSub,
              PublishKnown, PublishJoinFails, PublishJoins, PublishStores, PublishRelocks,
              PublishSends, DisconnectCancelCtx, DisconnectCancelSub, DisconnectTopics,
              DisconnectHost, TypeOK
<1>3. ~Proceeds(c)
  BY DEF Proceeds, UnsubscribeCancelSub,
              PublishKnown, PublishJoinFails, PublishJoins, PublishStores, PublishRelocks,
              PublishSends, DisconnectCancelCtx, DisconnectCancelSub, DisconnectTopics,
              DisconnectHost, TypeOK, Cancelling
<1>4. CASE UNCHANGED vars
  BY <1>4 DEF vars, Cancelling
<1> QED
  BY <1>1, <1>2, <1>3, <1>4, StreamsLeaveTables DEF Next, Cancelling

LEMMA ListenStep ==
    ASSUME IInv, ~CtxCancels, SubscriptionStep, [Next]_vars, AllListen
    PROVE  AllListen'
<1> USE DEF IInv, TypeOK
<1> SUFFICES ASSUME NEW t \in Topics, subs'[t] # None PROVE ListensOrCancelled(t)'
  BY DEF AllListen, ListensOrCancelled
<1>1. ASSUME subs'[t] = subs[t], Listening(subs[t])' <=> Listening(subs[t]),
             sub'[subs[t]].ctxDone <=> sub[subs[t]].ctxDone
      PROVE  ListensOrCancelled(t)'
  <2>1. Listening(subs[t]) \/ sub[subs[t]].ctxDone
    BY <1>1 DEF AllListen, ListensOrCancelled
  <2>2. sub[subs[t]].ctxDone => \E c \in Clients : Cancelling(c, t)'
    BY <1>1, CancellingGoesOn DEF AllListen, ListensOrCancelled
  <2> QED
    BY <1>1, <2>1, <2>2 DEF ListensOrCancelled, Listening
<1>2. ASSUME subs'[t] = subs[t] PROVE subs[t] \in Subs
  BY <1>2
<1>3. CASE Stays
  BY <1>1, <1>2, <1>3 DEF Stays, SameListeners, SameContexts
<1>4. ASSUME NEW u \in Topics, Forgets(u) PROVE ListensOrCancelled(t)'
  <2>1. subs'[t] = subs[t]
    BY <1>4 DEF Forgets
  <2> QED
    BY <1>1, <1>2, <1>4, <2>1 DEF Forgets, SameListeners, SameContexts
<1>5. ASSUME NEW u \in Topics, NEW s \in Subs, Opens(u, s) PROVE ListensOrCancelled(t)'
  <2>1. CASE t = u
    <3>1. subs'[t] = s
      BY <1>5, <2>1 DEF Opens
    <3> QED
      BY <1>5, <3>1 DEF Opens, ListensOrCancelled, Listening
  <2>2. CASE t # u
    <3>1. subs'[t] = subs[t] /\ subs[t] \in Subs \ {s}
      BY <1>5, <2>2 DEF Opens
    <3> QED
      BY <1>1, <1>5, <3>1 DEF Opens
  <2> QED
    BY <2>1, <2>2
<1>6. ASSUME NEW s \in Subs, Ends(s) PROVE ListensOrCancelled(t)'
  <2>1. subs'[t] = subs[t] /\ subs[t] \in Subs
    BY <1>6 DEF Ends
  <2>2. CASE subs[t] = s
    <3>1. sub[s].ctxDone /\ sub'[s].ctxDone
      BY <1>6 DEF Ends, SameContexts
    <3>2. \E c \in Clients : Cancelling(c, t)'
      BY <2>1, <2>2, <3>1, CancellingGoesOn DEF AllListen, ListensOrCancelled
    <3> QED
      BY <2>1, <2>2, <3>1, <3>2 DEF ListensOrCancelled
  <2>3. CASE subs[t] # s
    BY <1>1, <1>6, <2>1, <2>3 DEF Ends, SameContexts
  <2> QED
    BY <2>2, <2>3
<1>7. ASSUME NEW s \in Subs, Tells(s), ToldBy(s) PROVE ListensOrCancelled(t)'
  <2>1. subs'[t] = subs[t] /\ subs[t] \in Subs
    BY <1>7 DEF Tells
  <2>2. CASE subs[t] = s
    <3>1. PICK c \in Clients, u \in Topics : subs[u] = s /\ Cancelling(c, u)'
      BY <1>7 DEF ToldBy
    <3>2. u = t
      BY <2>1, <2>2, <3>1, TopicAssumption DEF SubsRecorded, Recorded
    <3>3. sub'[s].ctxDone
      BY <1>7 DEF Tells
    <3> QED
      BY <2>1, <2>2, <3>1, <3>2, <3>3 DEF ListensOrCancelled
  <2>3. CASE subs[t] # s
    BY <1>1, <1>7, <2>1, <2>3 DEF Tells, SameListeners
  <2> QED
    BY <2>2, <2>3
<1> QED
  BY <1>3, <1>4, <1>5, <1>6, <1>7 DEF SubscriptionStep

\* No message silences a recorded subscription, for any number of clients: as
\* long as callers leave their contexts alone and handlers neither panic nor are
\* nil, its listener runs.
THEOREM ListenCorrect ==
    ASSUME ~NilHandlers, ~HandlerPanics, ~CtxCancels
    PROVE  Spec => []RecordedSubscriptionsListen
<1>1. Init => AllListen
  BY DEF Init, AllListen, ListensOrCancelled
<1>2. IInv /\ HandlersExist /\ AllListen /\ [Next]_vars => AllListen'
  BY SubscriptionSteps, ListenStep
<1>3. ASSUME IInv, AllListen PROVE RecordedSubscriptionsListen
  BY <1>3, TopicAssumption
     DEF IInv, Exclusive, WriteSection, AllListen, ListensOrCancelled, Cancelling,
         RecordedSubscriptionsListen
<1>4. IInv /\ AllListen => RecordedSubscriptionsListen
  BY <1>3
<1> QED
  BY <1>1, <1>2, <1>4, HandlersInvariant, PTL DEF Spec

=============================================================================
