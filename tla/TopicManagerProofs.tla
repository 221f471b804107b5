------------------------- MODULE TopicManagerProofs -------------------------
(***************************************************************************)
(* What holds of TopicManager for every number of clients, topics, handles *)
(* and subscriptions: its types, and, when no handler is nil, that the     *)
(* tables of the DB agree with gossipsub and that a cancelled listener     *)
(* ends.                                                                   *)
(***************************************************************************)
EXTENDS TopicManager, SequenceTheorems, TLAPS

USE DEF tables, streams, lock, locals, Return, Goto, ListenerAt, Known, Publishing

-----------------------------------------------------------------------------
(* Type correctness.                                                         *)

LEMMA AnyTopicIsTopic == AnyTopic \in Topics
BY TopicAssumption DEF AnyTopic

LEMMA TypeInit == Init => TypeOK
<1> SUFFICES ASSUME Init PROVE TypeOK
  OBVIOUS
<1>1. NoRecord \in SubRecord
  BY AnyTopicIsTopic DEF NoRecord, SubRecord
<1>2. \A s \in Subs : inbox[s] = <<>>
  BY DEF Init
<1>3. inbox \in [Subs -> Seq(Messages)] /\ \A s \in Subs : Len(inbox[s]) <= Buffer
  BY <1>2, TopicAssumption DEF Init
<1>4. sub \in [Subs -> SubRecord]
  BY <1>1 DEF Init
<1> QED
  BY <1>3, <1>4, AnyTopicIsTopic DEF Init, TypeOK, ListenerStates, ClientStates, Results

\* A message that finds room leaves at most Buffer of them.
LEMMA DeliverTyped ==
    ASSUME TypeOK, NEW t \in Topics, NEW m \in Messages, Deliver(t, m)
    PROVE  /\ inbox' \in [Subs -> Seq(Messages)]
           /\ \A s \in Subs : Len(inbox'[s]) <= Buffer
<1>1. ASSUME NEW s \in Subs, HasRoom(s)
      PROVE  Append(inbox[s], m) \in Seq(Messages) /\ Len(Append(inbox[s], m)) <= Buffer
  BY <1>1, TopicAssumption DEF TypeOK, HasRoom
<1> QED
  BY <1>1 DEF Deliver, TypeOK

LEMMA ChannelTyped ==
    ASSUME TypeOK, NEW s \in Subs, NEW q \in Seq(Messages), Len(q) <= Buffer,
           inbox' = [inbox EXCEPT ![s] = q]
    PROVE  /\ inbox' \in [Subs -> Seq(Messages)]
           /\ \A z \in Subs : Len(inbox'[z]) <= Buffer
BY DEF TypeOK

LEMMA TakeTyped ==
    ASSUME TypeOK, NEW s \in Subs, inbox[s] # <<>>,
           inbox' = [inbox EXCEPT ![s] = Tail(@)]
    PROVE  /\ inbox' \in [Subs -> Seq(Messages)]
           /\ \A z \in Subs : Len(inbox'[z]) <= Buffer
<1>1. Tail(inbox[s]) \in Seq(Messages) /\ Len(Tail(inbox[s])) <= Buffer
  BY TopicAssumption DEF TypeOK
<1> QED
  BY <1>1, ChannelTyped

\* A subscription whose context or which itself is cancelled stays a record.
LEMMA CancelTyped ==
    ASSUME TypeOK, NEW s
    PROVE  /\ [sub EXCEPT ![s].ctxDone = TRUE] \in [Subs -> SubRecord]
           /\ [sub EXCEPT ![s].active = FALSE] \in [Subs -> SubRecord]
<1>1. ASSUME NEW z \in Subs
      PROVE  /\ [sub[z] EXCEPT !.ctxDone = TRUE] \in SubRecord
             /\ [sub[z] EXCEPT !.active = FALSE] \in SubRecord
  <2>1. sub[z] \in SubRecord
    BY DEF TypeOK
  <2> QED
    BY <2>1 DEF SubRecord
<1> QED
  BY <1>1 DEF TypeOK

LEMMA SubscribeTyped ==
    ASSUME TypeOK, NEW c \in Clients, NEW t \in Topics, NEW n \in BOOLEAN,
           Subscribe(c, t, n)
    PROVE  TypeOK'
<1>1. PICK h \in Handles, s \in Subs :
         /\ topics' = [topics EXCEPT ![t] = h]
         /\ joined' = IF topics[t] = None THEN [joined EXCEPT ![t] = h] ELSE joined
         /\ IF joined'[t] = h
            THEN /\ sub' = [sub EXCEPT ![s] =
                        [topic |-> t, handle |-> h, nilHandler |-> n,
                         ctxDone |-> FALSE, active |-> TRUE]]
                 /\ inbox' = [inbox EXCEPT ![s] = <<>>]
                 /\ listener' = [listener EXCEPT ![s] = "select"]
                 /\ subs' = [subs EXCEPT ![t] = s]
                 /\ Return(c, "ok")
            ELSE Return(c, "closed") /\ UNCHANGED <<streams, subs>>
  BY DEF Subscribe
<1>2. /\ inbox' \in [Subs -> Seq(Messages)]
      /\ \A z \in Subs : Len(inbox'[z]) <= Buffer
  <2>1. <<>> \in Seq(Messages) /\ Len(<<>>) <= Buffer
    BY TopicAssumption
  <2>2. CASE inbox' = [inbox EXCEPT ![s] = <<>>]
    BY <2>1, <2>2, ChannelTyped
  <2>3. CASE UNCHANGED inbox
    BY <2>3 DEF TypeOK
  <2> QED
    BY <1>1, <2>2, <2>3
<1>3. sub' \in [Subs -> SubRecord]
  <2>1. [topic |-> t, handle |-> h, nilHandler |-> n, ctxDone |-> FALSE,
         active |-> TRUE] \in SubRecord
    BY DEF SubRecord
  <2> QED
    BY <1>1, <2>1 DEF TypeOK
<1>4. /\ topics' \in [Topics -> Handles \cup {None}]
      /\ joined' \in [Topics -> Handles \cup {None}]
      /\ subs' \in [Topics -> Subs \cup {None}]
      /\ listener' \in [Subs -> ListenerStates]
  <2>1. /\ subs' = subs \/ subs' = [subs EXCEPT ![t] = s]
        /\ listener' = listener \/ listener' = [listener EXCEPT ![s] = "select"]
    BY <1>1
  <2>2. /\ topics' = [topics EXCEPT ![t] = h]
        /\ joined' = joined \/ joined' = [joined EXCEPT ![t] = h]
    BY <1>1
  <2>3. /\ topics \in [Topics -> Handles \cup {None}]
        /\ joined \in [Topics -> Handles \cup {None}]
        /\ subs \in [Topics -> Subs \cup {None}]
        /\ listener \in [Subs -> ListenerStates] /\ "select" \in ListenerStates
    BY DEF TypeOK, ListenerStates
  <2> QED
    BY <2>1, <2>2, <2>3
<1>5. \E res \in Results : Return(c, res)
  BY <1>1 DEF Results
<1>6. UNCHANGED <<lock, hostOpen>>
  BY DEF Subscribe
<1>7. \A d \in Clients : pc'[d] \in Publishing => handle'[d] # None
  BY <1>5 DEF TypeOK
<1> QED
  BY <1>2, <1>3, <1>4, <1>5, <1>6, <1>7, AnyTopicIsTopic DEF TypeOK, ClientStates

LEMMA CallsTyped ==
    ASSUME TypeOK, NEW c \in Clients, Calls(c)
    PROVE  TypeOK'
<1> USE AnyTopicIsTopic DEF TypeOK, ClientStates, Results
<1>1. ASSUME NEW t \in Topics, SubscribeAgain(c, t) PROVE TypeOK'
  BY <1>1 DEF SubscribeAgain
<1>2. ASSUME NEW t \in Topics, SubscribeJoinFails(c, t) PROVE TypeOK'
  BY <1>2 DEF SubscribeJoinFails
<1>3. ASSUME NEW t \in Topics, NEW n \in {FALSE, NilHandlers}, Subscribe(c, t, n)
      PROVE  TypeOK'
  <2>1. n \in BOOLEAN
    BY TopicAssumption
  <2> QED
    BY <1>3, <2>1, SubscribeTyped
<1>4. ASSUME NEW t \in Topics, UnsubscribeUnknown(c, t) PROVE TypeOK'
  BY <1>4 DEF UnsubscribeUnknown
<1>5. ASSUME NEW t \in Topics, Unsubscribe(c, t) PROVE TypeOK'
  BY <1>5, CancelTyped DEF Unsubscribe, ContextCancelled
<1>6. ASSUME NEW t \in Topics, Publish(c, t) PROVE TypeOK'
  BY <1>6 DEF Publish
<1>7. CASE Disconnect(c)
  BY <1>7 DEF Disconnect
<1> QED
  BY <1>1, <1>2, <1>3, <1>4, <1>5, <1>6, <1>7 DEF Calls

LEMMA ProceedsTyped ==
    ASSUME TypeOK, NEW c \in Clients, Proceeds(c)
    PROVE  TypeOK'
<1> USE AnyTopicIsTopic DEF TypeOK, ClientStates, Results
<1>1. CASE UnsubscribeCancelSub(c)
  <2>1. sub' \in [Subs -> SubRecord]
    BY <1>1, CancelTyped DEF UnsubscribeCancelSub
  <2>2. joined' \in [Topics -> Handles \cup {None}]
    BY <1>1 DEF UnsubscribeCancelSub, AfterClose
  <2>3. UNCHANGED <<inbox, listener, readers, hostOpen>> /\ writer' = None
    BY <1>1 DEF UnsubscribeCancelSub
  <2>4. /\ subs' \in [Topics -> Subs \cup {None}]
        /\ topics' \in [Topics -> Handles \cup {None}]
    BY <1>1 DEF UnsubscribeCancelSub, TopicForgotten
  <2>5. Return(c, "ok")
    BY <1>1 DEF UnsubscribeCancelSub
  <2> QED
    BY <2>1, <2>2, <2>3, <2>4, <2>5
<1>2. CASE PublishKnown(c)
  BY <1>2 DEF PublishKnown
<1>3. CASE PublishJoinFails(c)
  BY <1>3 DEF PublishJoinFails
<1>4. CASE PublishJoins(c)
  BY <1>4, TopicAssumption DEF PublishJoins, RLockGivenUp
<1>5. CASE PublishStores(c)
  BY <1>5 DEF PublishStores
<1>6. CASE PublishRelocks(c)
  BY <1>6 DEF PublishRelocks
<1>7. CASE PublishSends(c)
  <2>1. Deliver(arg[c], Own) =>
           /\ inbox' \in [Subs -> Seq(Messages)]
           /\ \A s \in Subs : Len(inbox'[s]) <= Buffer
    BY DeliverTyped, TopicAssumption DEF Messages
  <2>2. UNCHANGED inbox \/ Deliver(arg[c], Own)
    BY <1>7 DEF PublishSends
  <2>3. \E res \in Results : Return(c, res)
    BY <1>7 DEF PublishSends
  <2>4. readers' = readers \ {c} /\ UNCHANGED <<tables, sub, listener, writer, hostOpen>>
    BY <1>7 DEF PublishSends
  <2> QED
    BY <2>1, <2>2, <2>3, <2>4
<1>8. CASE DisconnectCancelCtx(c)
  <2>1. PICK t \in Topics : sub' = ContextCancelled(subs[t]) /\ Goto(c, "disconnectSub", t)
    BY <1>8 DEF DisconnectCancelCtx
  <2>2. sub' \in [Subs -> SubRecord]
    BY <2>1, CancelTyped DEF ContextCancelled
  <2> QED
    BY <1>8, <2>1, <2>2 DEF DisconnectCancelCtx
<1>9. CASE DisconnectCancelSub(c)
  <2>1. sub' \in [Subs -> SubRecord]
    BY <1>9, CancelTyped DEF DisconnectCancelSub
  <2> QED
    BY <1>9, <2>1 DEF DisconnectCancelSub
<1>10. CASE DisconnectTopics(c)
  BY <1>10 DEF DisconnectTopics, LeftAfterDisconnect, AfterClose
<1>11. CASE DisconnectHost(c)
  BY <1>11 DEF DisconnectHost
<1> QED
  BY <1>1, <1>2, <1>3, <1>4, <1>5, <1>6, <1>7, <1>8, <1>9, <1>10, <1>11 DEF Proceeds

LEMMA ListensTyped ==
    ASSUME TypeOK, NEW s \in Subs, Listens(s) \/ UserCancels(s)
    PROVE  TypeOK'
<1> USE DEF TypeOK, ListenerStates
<1>1. CASE ListenerSelect(s)
  BY <1>1 DEF ListenerSelect
<1>2. CASE NextMessage(s)
  BY <1>2, TakeTyped DEF NextMessage, Skipped
<1>3. CASE NextFails(s)
  BY <1>3 DEF NextFails
<1>4. CASE HandlerReturns(s)
  BY <1>4 DEF HandlerReturns
<1>5. CASE HandlerFails(s)
  BY <1>5 DEF HandlerFails
<1>6. CASE UserCancels(s)
  <2>1. sub' \in [Subs -> SubRecord]
    BY <1>6, CancelTyped DEF UserCancels
  <2> QED
    BY <1>6, <2>1 DEF UserCancels
<1> QED
  BY <1>1, <1>2, <1>3, <1>4, <1>5, <1>6 DEF Listens

LEMMA TypeStep == TypeOK /\ [Next]_vars => TypeOK'
<1> SUFFICES ASSUME TypeOK, [Next]_vars PROVE TypeOK'
  OBVIOUS
<1>1. ASSUME NEW t \in Topics, NEW m \in Messages \ {Own}, Receive(t, m) PROVE TypeOK'
  BY <1>1, DeliverTyped DEF Receive, TypeOK
<1>2. CASE UNCHANGED vars
  BY <1>2 DEF vars, TypeOK
<1> QED
  BY <1>1, <1>2, CallsTyped, ProceedsTyped, ListensTyped DEF Next

\* The values of every variable: a subscription's channel never exceeds its
\* capacity.
THEOREM TypeCorrect == Spec => []TypeOK
BY TypeInit, TypeStep, PTL DEF Spec

-----------------------------------------------------------------------------
(* The tables.                                                               *)

\* The sections under the write lock exclude each other.
Exclusive == \A c \in Clients : pc[c] \in WriteSection => writer = c

\* A recorded subscription is live, under the handle of its topic's table entry.
Recorded(t) ==
    /\ sub[subs[t]].topic = t
    /\ sub[subs[t]].active
    /\ ~sub[subs[t]].nilHandler
    /\ sub[subs[t]].handle = topics[t]
    /\ topics[t] # None
    /\ joined[t] = topics[t]

SubsRecorded == \A t \in Topics : subs[t] # None => Recorded(t)

ActiveRecorded == \A s \in Subs : sub[s].active => subs[sub[s].topic] = s

\* Between the two halves of a cancellation the first half is done.
Halfway ==
    \A c \in Clients :
        pc[c] \in {"cancelSub", "disconnectSub"} =>
            subs[arg[c]] # None /\ sub[subs[arg[c]]].ctxDone

\* Publish stores the handle of a topic that it alone has joined and that is
\* not in the table yet.
StoresJoined ==
    \A c \in Clients :
        pc[c] = "store" => /\ topics[arg[c]] = None
                           /\ handle[c] # None
                           /\ joined[arg[c]] = handle[c]

StoresAlone ==
    \A c, d \in Clients :
        pc[c] = "store" /\ pc[d] = "store" /\ arg[c] = arg[d] => c = d

TopicsJoined == \A t \in Topics : ~Storing(t) => topics[t] = joined[t]

IInv ==
    /\ TypeOK
    /\ Exclusive
    /\ SubsRecorded
    /\ ActiveRecorded
    /\ Halfway
    /\ StoresJoined
    /\ StoresAlone
    /\ TopicsJoined
    /\ CancelledListenerEnds

LEMMA InvInit == Init => IInv
<1> SUFFICES ASSUME Init PROVE IInv
  OBVIOUS
<1>1. TypeOK
  BY TypeInit
<1>2. \A s \in Subs : ~sub[s].active
  BY DEF Init, NoRecord
<1> QED
  BY <1>1, <1>2
     DEF Init, IInv, Exclusive, SubsRecorded, ActiveRecorded, Halfway, StoresJoined,
         StoresAlone, TopicsJoined, CancelledListenerEnds, Listening, WriteSection

\* Nothing of IInv is about a channel, a reader or a result: a client may go on
\* where it neither cancels nor stores.
LEMMA CallGoesOn ==
    ASSUME IInv, TypeOK', NEW c \in Clients,
           pc[c] # "store",
           pc'[c] \notin WriteSection \cup {"store"},
           \A d \in Clients \ {c} :
               pc'[d] = pc[d] /\ arg'[d] = arg[d] /\ handle'[d] = handle[d],
           UNCHANGED <<tables, sub, listener, writer>>
    PROVE  IInv'
<1> USE DEF IInv, TypeOK
<1>1. \A d \in Clients :
         pc'[d] \in WriteSection \cup {"store"} =>
             d # c /\ pc'[d] = pc[d] /\ arg'[d] = arg[d] /\ handle'[d] = handle[d]
  OBVIOUS
<1>2. Exclusive' /\ Halfway'
  BY <1>1 DEF Exclusive, Halfway, WriteSection
<1>3. StoresJoined' /\ StoresAlone'
  BY <1>1 DEF StoresJoined, StoresAlone
<1>4. TopicsJoined'
  <2>1. \A t \in Topics : Storing(t) => Storing(t)'
    BY DEF Storing
  <2> QED
    BY <2>1 DEF TopicsJoined
<1>5. SubsRecorded' /\ ActiveRecorded' /\ CancelledListenerEnds'
  BY DEF SubsRecorded, Recorded, ActiveRecorded, CancelledListenerEnds, Listening
<1> QED
  BY <1>2, <1>3, <1>4, <1>5

\* A client that begins a write section finds no other one under way.
LEMMA WriteBegins ==
    ASSUME IInv, CanLock
    PROVE  \A d \in Clients : pc[d] \notin WriteSection
BY TopicAssumption DEF CanLock, IInv, Exclusive

LEMMA SubscribeInv ==
    ASSUME IInv, TypeOK', NEW c \in Clients, NEW t \in Topics, Subscribe(c, t, FALSE)
    PROVE  IInv'
<1> USE DEF IInv, TypeOK
<1>1. PICK h \in Handles, s \in Subs :
         /\ IF topics[t] # None THEN h = topics[t] ELSE FreshHandle(h)
         /\ FreshSub(s)
         /\ topics' = [topics EXCEPT ![t] = h]
         /\ joined' = IF topics[t] = None THEN [joined EXCEPT ![t] = h] ELSE joined
         /\ IF joined'[t] = h
            THEN /\ sub' = [sub EXCEPT ![s] =
                        [topic |-> t, handle |-> h, nilHandler |-> FALSE,
                         ctxDone |-> FALSE, active |-> TRUE]]
                 /\ inbox' = [inbox EXCEPT ![s] = <<>>]
                 /\ listener' = [listener EXCEPT ![s] = "select"]
                 /\ subs' = [subs EXCEPT ![t] = s]
                 /\ Return(c, "ok")
            ELSE Return(c, "closed") /\ UNCHANGED <<streams, subs>>
  BY DEF Subscribe
<1>2. h # None
  BY TopicAssumption
<1>3. subs[t] = None
  BY DEF Subscribe, HasHandler, SubsRecorded, Recorded
<1>4. ~Storing(t) /\ (topics[t] # None => joined[t] = topics[t])
  <2>1. Storing(t) => topics[t] = None /\ joined[t] # None
    BY DEF Storing, StoresJoined
  <2>2. topics[t] # None \/ joined[t] = None
    BY DEF Subscribe
  <2> QED
    BY <2>1, <2>2 DEF TopicsJoined
<1>5. joined'[t] = h
  BY <1>1, <1>4
<1>6. \A u \in Topics : subs[u] # s
  BY <1>1 DEF FreshSub
<1>7. /\ sub' = [sub EXCEPT ![s] =
              [topic |-> t, handle |-> h, nilHandler |-> FALSE,
               ctxDone |-> FALSE, active |-> TRUE]]
      /\ listener' = [listener EXCEPT ![s] = "select"]
      /\ subs' = [subs EXCEPT ![t] = s]
      /\ Return(c, "ok")
  BY <1>1, <1>5
<1>8. pc[c] = "idle" /\ CanLock /\ UNCHANGED writer
  BY DEF Subscribe
<1>9. \A d \in Clients : pc'[d] # "idle" =>
          pc'[d] = pc[d] /\ arg'[d] = arg[d] /\ handle'[d] = handle[d]
  BY <1>7
<1>10. Exclusive' /\ Halfway'
  BY <1>8, <1>9, WriteBegins DEF Exclusive, Halfway, WriteSection
<1>11. StoresJoined'
  <2> SUFFICES ASSUME NEW d \in Clients, pc'[d] = "store"
               PROVE  topics'[arg'[d]] = None /\ handle'[d] # None /\ joined'[arg'[d]] = handle'[d]
    BY DEF StoresJoined
  <2>1. pc[d] = "store" /\ arg'[d] = arg[d] /\ handle'[d] = handle[d]
    BY <1>9
  <2>2. arg[d] # t
    BY <1>4, <2>1 DEF Storing
  <2> QED
    BY <1>1, <2>1, <2>2 DEF StoresJoined
<1>12. StoresAlone'
  BY <1>9 DEF StoresAlone
<1>13. TopicsJoined'
  <2>1. \A u \in Topics : Storing(u) => Storing(u)'
    BY <1>7, <1>8 DEF Storing
  <2>2. topics'[t] = joined'[t]
    BY <1>1, <1>5
  <2>3. \A u \in Topics \ {t} : topics'[u] = topics[u] /\ joined'[u] = joined[u]
    BY <1>1
  <2> QED
    BY <2>1, <2>2, <2>3 DEF TopicsJoined
<1>14. SubsRecorded'
  <2> SUFFICES ASSUME NEW u \in Topics, subs'[u] # None PROVE Recorded(u)'
    BY DEF SubsRecorded
  <2>1. CASE u = t
    BY <1>1, <1>2, <1>5, <1>7, <2>1 DEF Recorded
  <2>2. CASE u # t
    <3>1. subs'[u] = subs[u] /\ sub'[subs[u]] = sub[subs[u]]
      BY <1>6, <1>7, <2>2
    <3>2. topics'[u] = topics[u] /\ joined'[u] = joined[u]
      BY <1>1, <2>2
    <3> QED
      BY <3>1, <3>2 DEF SubsRecorded, Recorded
  <2> QED
    BY <2>1, <2>2
<1>15. ActiveRecorded'
  BY <1>3, <1>7, TopicAssumption DEF ActiveRecorded
<1>16. CancelledListenerEnds'
  BY <1>7 DEF CancelledListenerEnds, Listening
<1> QED
  BY <1>10, <1>11, <1>12, <1>13, <1>14, <1>15, <1>16

\* A step that cancels contexts and ends listeners, and no more.
Weakens(s) ==
    /\ sub'[s].topic = sub[s].topic
    /\ sub'[s].handle = sub[s].handle
    /\ sub'[s].nilHandler <=> sub[s].nilHandler
    /\ sub'[s].active <=> sub[s].active
    /\ sub[s].ctxDone => sub'[s].ctxDone
    /\ Listening(s)' => Listening(s)

LEMMA CancelWeakens ==
    ASSUME TypeOK, NEW z, sub' = [sub EXCEPT ![z].ctxDone = TRUE], UNCHANGED listener
    PROVE  \A s \in Subs : Weakens(s)
<1> SUFFICES ASSUME NEW s \in Subs PROVE Weakens(s)
  OBVIOUS
<1>1. sub[s] \in SubRecord
  BY DEF TypeOK
<1>2. sub'[s] = IF s = z THEN [sub[s] EXCEPT !.ctxDone = TRUE] ELSE sub[s]
  BY DEF TypeOK
<1>3. Listening(s)' => Listening(s)
  BY DEF Listening
<1>4. CASE s = z
  BY <1>1, <1>2, <1>3, <1>4 DEF Weakens, SubRecord
<1>5. CASE s # z
  BY <1>2, <1>3, <1>5 DEF Weakens
<1> QED
  BY <1>4, <1>5

LEMMA WeakensKeeps ==
    ASSUME IInv, \A s \in Subs : Weakens(s), UNCHANGED tables
    PROVE  SubsRecorded' /\ ActiveRecorded' /\ CancelledListenerEnds'
<1>1. SubsRecorded'
  <2> SUFFICES ASSUME NEW t \in Topics, subs'[t] # None PROVE Recorded(t)'
    BY DEF SubsRecorded
  <2>1. subs[t] \in Subs /\ Recorded(t)
    BY DEF IInv, TypeOK, SubsRecorded
  <2>2. Weakens(subs[t])
    BY <2>1
  <2> QED
    BY <2>1, <2>2 DEF Recorded, Weakens
<1>2. ActiveRecorded'
  <2> SUFFICES ASSUME NEW s \in Subs, sub'[s].active PROVE subs'[sub'[s].topic] = s
    BY DEF ActiveRecorded
  <2> QED
    BY DEF IInv, ActiveRecorded, Weakens
<1>3. CancelledListenerEnds'
  <2> SUFFICES ASSUME NEW s \in Subs, Listening(s)', ~sub'[s].active PROVE sub'[s].ctxDone
    BY DEF CancelledListenerEnds
  <2> QED
    BY DEF IInv, CancelledListenerEnds, Weakens
<1> QED
  BY <1>1, <1>2, <1>3

\* The first half of a cancellation, in Unsubscribe or Disconnect.
LEMMA CancelBegins ==
    ASSUME IInv, TypeOK', NEW c \in Clients, NEW t \in Topics,
           NEW label \in {"cancelSub", "disconnectSub"},
           pc[c] # "store", subs[t] # None,
           \A d \in Clients \ {c} : pc[d] \notin WriteSection,
           sub' = ContextCancelled(subs[t]), writer' = c, Goto(c, label, t),
           UNCHANGED <<tables, listener>>
    PROVE  IInv'
<1> USE DEF IInv, TypeOK
<1>1. /\ subs[t] \in Subs
      /\ sub' = [sub EXCEPT ![subs[t]].ctxDone = TRUE]
  BY DEF ContextCancelled
<1>2. \A s \in Subs : Weakens(s)
  BY <1>1, CancelWeakens
<1>3. sub'[subs[t]].ctxDone
  BY <1>1 DEF SubRecord
<1>4. Exclusive' /\ Halfway'
  <2>1. \A d \in Clients : pc'[d] \in WriteSection => d = c
    BY DEF WriteSection
  <2> QED
    BY <1>3, <2>1 DEF Exclusive, Halfway, WriteSection
<1>5. \A d \in Clients : pc'[d] = "store" =>
          pc[d] = "store" /\ arg'[d] = arg[d] /\ handle'[d] = handle[d]
  OBVIOUS
<1>6. StoresJoined' /\ StoresAlone'
  BY <1>5 DEF StoresJoined, StoresAlone
<1>7. TopicsJoined'
  <2>1. \A u \in Topics : Storing(u) => Storing(u)'
    BY DEF Storing
  <2> QED
    BY <2>1 DEF TopicsJoined
<1> QED
  BY <1>2, <1>4, <1>6, <1>7, WeakensKeeps

\* The second half: the topic's entry and gossipsub's topic go together, or both
\* stay for DisconnectTopics.
LEMMA CancelEnds ==
    ASSUME IInv, TypeOK', NEW c \in Clients, NEW t \in Topics,
           pc[c] \in {"cancelSub", "disconnectSub"}, t = arg[c],
           sub' = [sub EXCEPT ![subs[t]].active = FALSE],
           subs' = [subs EXCEPT ![t] = None],
           topics'[t] = joined'[t],
           \A u \in Topics \ {t} : topics'[u] = topics[u] /\ joined'[u] = joined[u],
           pc'[c] \in {"idle", "disconnect"}, pc'[c] = "disconnect" => writer' = c,
           \A d \in Clients \ {c} :
               pc'[d] = pc[d] /\ arg'[d] = arg[d] /\ handle'[d] = handle[d],
           UNCHANGED listener
    PROVE  IInv'
<1> USE DEF IInv, TypeOK
<1>1. subs[t] \in Subs /\ sub[subs[t]].ctxDone /\ topics[t] # None /\ ~Storing(t)
  BY DEF Halfway, SubsRecorded, Recorded, Storing, StoresJoined
<1>2. \A s \in Subs : /\ sub'[s].topic = sub[s].topic
                        /\ sub'[s].handle = sub[s].handle
                        /\ (sub'[s].nilHandler <=> sub[s].nilHandler)
                        /\ (sub'[s].ctxDone <=> sub[s].ctxDone)
                        /\ s # subs[t] => (sub'[s].active <=> sub[s].active)
  BY <1>1 DEF SubRecord
<1>3. ~sub'[subs[t]].active
  BY <1>1 DEF SubRecord
<1>4. \A d \in Clients \ {c} : pc[d] \notin WriteSection
  BY DEF Exclusive, WriteSection
<1>5. Exclusive' /\ Halfway'
  <2>1. \A d \in Clients : pc'[d] \in WriteSection => d = c
    BY <1>4
  <2> QED
    BY <2>1 DEF Exclusive, Halfway, WriteSection
<1>6. \A d \in Clients : pc'[d] = "store" =>
          /\ pc[d] = "store" /\ arg'[d] = arg[d] /\ handle'[d] = handle[d]
          /\ arg[d] # t
  BY <1>1 DEF Storing
<1>7. StoresJoined' /\ StoresAlone'
  BY <1>6 DEF StoresJoined, StoresAlone
<1>8. TopicsJoined'
  <2>1. \A u \in Topics : Storing(u) => Storing(u)'
    BY DEF Storing
  <2> QED
    BY <2>1 DEF TopicsJoined
<1>9. SubsRecorded'
  <2> SUFFICES ASSUME NEW u \in Topics, subs'[u] # None PROVE Recorded(u)'
    BY DEF SubsRecorded
  <2>1. u # t /\ subs'[u] = subs[u] /\ Recorded(u)
    BY DEF SubsRecorded
  <2>2. subs[u] # subs[t]
    BY <1>1, <2>1 DEF SubsRecorded, Recorded
  <2> QED
    BY <1>2, <2>1, <2>2 DEF Recorded
<1>10. ActiveRecorded' /\ CancelledListenerEnds'
  <2>1. ASSUME NEW s \in Subs, sub'[s].active PROVE subs'[sub'[s].topic] = s
    <3>1. s # subs[t] /\ sub[s].active
      BY <1>2, <1>3, <2>1
    <3>2. sub[s].topic # t
      BY <3>1 DEF ActiveRecorded
    <3> QED
      BY <1>2, <3>1, <3>2 DEF ActiveRecorded, SubRecord
  <2>2. ASSUME NEW s \in Subs, Listening(s)', ~sub'[s].active PROVE sub'[s].ctxDone
    BY <1>1, <1>2, <2>2 DEF CancelledListenerEnds, Listening
  <2> QED
    BY <2>1, <2>2 DEF ActiveRecorded, CancelledListenerEnds
<1> QED
  BY <1>5, <1>7, <1>8, <1>9, <1>10

LEMMA PublishJoinsInv ==
    ASSUME IInv, TypeOK', NEW c \in Clients, PublishJoins(c)
    PROVE  IInv'
<1> USE DEF IInv, TypeOK
<1>1. PICK h \in Handles : /\ joined' = [joined EXCEPT ![arg[c]] = h]
                           /\ handle' = [handle EXCEPT ![c] = h]
  BY DEF PublishJoins
<1>2. /\ h # None
      /\ topics[arg[c]] = None /\ joined[arg[c]] = None
      /\ pc[c] = "lookup" /\ pc' = [pc EXCEPT ![c] = "store"]
      /\ UNCHANGED <<topics, subs, sub, listener, writer, arg>>
  BY TopicAssumption DEF PublishJoins
<1>3. ~Storing(arg[c]) /\ subs[arg[c]] = None
  BY <1>2 DEF Storing, StoresJoined, SubsRecorded, Recorded
<1>4. Exclusive' /\ Halfway'
  BY <1>2 DEF Exclusive, Halfway, WriteSection
<1>5. StoresJoined'
  BY <1>1, <1>2, <1>3 DEF StoresJoined, Storing
<1>6. StoresAlone'
  BY <1>2, <1>3 DEF StoresAlone, Storing
<1>7. TopicsJoined'
  <2>1. \A u \in Topics : Storing(u) \/ u = arg[c] => Storing(u)'
    BY <1>2 DEF Storing
  <2> QED
    BY <1>1, <1>2, <2>1 DEF TopicsJoined
<1>8. SubsRecorded' /\ ActiveRecorded' /\ CancelledListenerEnds'
  BY <1>1, <1>2, <1>3
     DEF SubsRecorded, Recorded, ActiveRecorded, CancelledListenerEnds, Listening
<1> QED
  BY <1>4, <1>5, <1>6, <1>7, <1>8

LEMMA PublishStoresInv ==
    ASSUME IInv, TypeOK', NEW c \in Clients, PublishStores(c)
    PROVE  IInv'
<1> USE DEF IInv, TypeOK
<1>1. /\ pc[c] = "store" /\ pc' = [pc EXCEPT ![c] = "relock"]
      /\ topics' = [topics EXCEPT ![arg[c]] = handle[c]]
      /\ UNCHANGED <<joined, subs, sub, listener, writer, arg, handle>>
  BY DEF PublishStores
<1>2. topics[arg[c]] = None /\ joined[arg[c]] = handle[c] /\ subs[arg[c]] = None
  BY <1>1 DEF StoresJoined, SubsRecorded, Recorded
<1>3. \A d \in Clients \ {c} : pc[d] = "store" => arg[d] # arg[c]
  BY <1>1 DEF StoresAlone
<1>4. Exclusive' /\ Halfway'
  BY <1>1 DEF Exclusive, Halfway, WriteSection
<1>5. StoresJoined' /\ StoresAlone'
  BY <1>1, <1>3 DEF StoresJoined, StoresAlone
<1>6. TopicsJoined'
  <2>1. \A u \in Topics \ {arg[c]} : Storing(u) => Storing(u)'
    BY <1>1 DEF Storing
  <2> QED
    BY <1>1, <1>2, <2>1 DEF TopicsJoined
<1>7. SubsRecorded' /\ ActiveRecorded' /\ CancelledListenerEnds'
  BY <1>1, <1>2
     DEF SubsRecorded, Recorded, ActiveRecorded, CancelledListenerEnds, Listening
<1> QED
  BY <1>4, <1>5, <1>6, <1>7

\* All subscriptions are gone: gossipsub refuses no Close.
LEMMA DisconnectTopicsInv ==
    ASSUME IInv, TypeOK', NEW c \in Clients, DisconnectTopics(c)
    PROVE  IInv'
<1> USE DEF IInv, TypeOK
<1>1. /\ pc[c] = "disconnect" /\ Goto(c, "closeHost", AnyTopic)
      /\ joined' = [t \in Topics |-> LeftAfterDisconnect(t)]
      /\ topics' = [t \in Topics |-> None]
      /\ UNCHANGED <<subs, sub, listener, writer>>
      /\ \A t \in Topics : subs[t] = None
  BY DEF DisconnectTopics
<1>2. \A t \in Topics : Subscribed(t) = {}
  BY <1>1, TopicAssumption DEF Subscribed, ActiveRecorded, SubRecord
<1>3. \A t \in Topics : joined'[t] = IF joined[t] = topics[t] THEN None ELSE joined[t]
  BY <1>1, <1>2 DEF LeftAfterDisconnect, AfterClose
<1>4. Exclusive' /\ Halfway'
  BY <1>1 DEF Exclusive, Halfway, WriteSection
<1>5. \A d \in Clients : pc'[d] = "store" =>
          pc[d] = "store" /\ arg'[d] = arg[d] /\ handle'[d] = handle[d]
  BY <1>1
<1>6. StoresJoined' /\ StoresAlone'
  BY <1>1, <1>3, <1>5 DEF StoresJoined, StoresAlone
<1>7. TopicsJoined'
  <2>1. \A t \in Topics : Storing(t) => Storing(t)'
    BY <1>1 DEF Storing
  <2> QED
    BY <1>1, <1>3, <2>1 DEF TopicsJoined
<1>8. SubsRecorded' /\ ActiveRecorded' /\ CancelledListenerEnds'
  BY <1>1 DEF SubsRecorded, ActiveRecorded, CancelledListenerEnds, Listening
<1> QED
  BY <1>4, <1>6, <1>7, <1>8

LEMMA CallsInv ==
    ASSUME IInv, TypeOK', ~NilHandlers, NEW c \in Clients, Calls(c)
    PROVE  IInv'
<1> USE DEF IInv, TypeOK
<1>1. ASSUME NEW t \in Topics, SubscribeAgain(c, t) PROVE IInv'
  BY <1>1, CallGoesOn DEF SubscribeAgain, WriteSection
<1>2. ASSUME NEW t \in Topics, SubscribeJoinFails(c, t) PROVE IInv'
  BY <1>2, CallGoesOn DEF SubscribeJoinFails, WriteSection
<1>3. ASSUME NEW t \in Topics, NEW n \in {FALSE, NilHandlers}, Subscribe(c, t, n)
      PROVE  IInv'
  <2>1. n = FALSE
    BY TopicAssumption
  <2> QED
    BY <1>3, <2>1, SubscribeInv
<1>4. ASSUME NEW t \in Topics, UnsubscribeUnknown(c, t) PROVE IInv'
  BY <1>4, CallGoesOn DEF UnsubscribeUnknown, WriteSection
<1>5. ASSUME NEW t \in Topics, Unsubscribe(c, t) PROVE IInv'
  BY <1>5, CancelBegins, WriteBegins DEF Unsubscribe
<1>6. ASSUME NEW t \in Topics, Publish(c, t) PROVE IInv'
  BY <1>6, CallGoesOn DEF Publish, WriteSection
<1>7. CASE Disconnect(c)
  <2>1. \A d \in Clients : pc'[d] \in WriteSection => d = c
    BY <1>7, WriteBegins DEF Disconnect
  <2>2. pc[c] = "idle" /\ writer' = c /\ Goto(c, "disconnect", AnyTopic)
        /\ UNCHANGED <<tables, sub, listener>>
    BY <1>7 DEF Disconnect
  <2>3. Exclusive' /\ Halfway'
    BY <2>1, <2>2 DEF Exclusive, Halfway, WriteSection
  <2>4. StoresJoined' /\ StoresAlone'
    BY <2>2 DEF StoresJoined, StoresAlone
  <2>5. TopicsJoined'
    <3>1. \A t \in Topics : Storing(t) => Storing(t)'
      BY <2>2 DEF Storing
    <3> QED
      BY <2>2, <3>1 DEF TopicsJoined
  <2>6. SubsRecorded' /\ ActiveRecorded' /\ CancelledListenerEnds'
    BY <2>2 DEF SubsRecorded, Recorded, ActiveRecorded, CancelledListenerEnds, Listening
  <2> QED
    BY <2>3, <2>4, <2>5, <2>6
<1> QED
  BY <1>1, <1>2, <1>3, <1>4, <1>5, <1>6, <1>7 DEF Calls

LEMMA ProceedsInv ==
    ASSUME IInv, TypeOK', NEW c \in Clients, Proceeds(c)
    PROVE  IInv'
<1> USE DEF IInv, TypeOK
<1>1. CASE UnsubscribeCancelSub(c)
  <2> DEFINE t == arg[c]
  <2>1. /\ pc[c] = "cancelSub" /\ Return(c, "ok") /\ UNCHANGED listener
        /\ sub' = [sub EXCEPT ![subs[t]].active = FALSE]
        /\ subs' = [subs EXCEPT ![t] = None]
        /\ topics' = [topics EXCEPT ![t] = None]
        /\ joined' = [joined EXCEPT ![t] =
                         AfterClose(t, sub[subs[t]].handle, Subscribed(t) \ {subs[t]})]
    BY <1>1 DEF UnsubscribeCancelSub, TopicForgotten
  <2>2. sub[subs[t]].handle = joined[t]
    BY <2>1 DEF Halfway, SubsRecorded, Recorded
  <2>3. Subscribed(t) \ {subs[t]} = {}
    BY DEF Subscribed, ActiveRecorded
  <2>4. joined'[t] = None
    BY <2>1, <2>2, <2>3 DEF AfterClose
  <2>5. t \in Topics /\ topics'[t] = joined'[t]
    BY <2>1, <2>4
  <2>6. \A u \in Topics \ {t} : topics'[u] = topics[u] /\ joined'[u] = joined[u]
    BY <2>1
  <2>7. pc'[c] = "idle" /\ \A d \in Clients \ {c} :
               pc'[d] = pc[d] /\ arg'[d] = arg[d] /\ handle'[d] = handle[d]
    BY <2>1
  <2> HIDE DEF t
  <2> QED
    BY <2>1, <2>5, <2>6, <2>7, CancelEnds DEF t
<1>2. CASE PublishKnown(c)
  BY <1>2, CallGoesOn DEF PublishKnown, WriteSection
<1>3. CASE PublishJoinFails(c)
  BY <1>3, CallGoesOn DEF PublishJoinFails, WriteSection
<1>4. CASE PublishJoins(c)
  BY <1>4, PublishJoinsInv
<1>5. CASE PublishStores(c)
  BY <1>5, PublishStoresInv
<1>6. CASE PublishRelocks(c)
  BY <1>6, CallGoesOn DEF PublishRelocks, WriteSection
<1>7. CASE PublishSends(c)
  BY <1>7, CallGoesOn DEF PublishSends, WriteSection
<1>8. CASE DisconnectCancelCtx(c)
  <2>1. \A d \in Clients \ {c} : pc[d] \notin WriteSection
    BY <1>8 DEF DisconnectCancelCtx, Exclusive, WriteSection
  <2>2. writer' = c
    BY <1>8 DEF DisconnectCancelCtx, Exclusive, WriteSection
  <2> QED
    BY <1>8, <2>1, <2>2, CancelBegins DEF DisconnectCancelCtx
<1>9. CASE DisconnectCancelSub(c)
  <2>1. writer' = c
    BY <1>9 DEF DisconnectCancelSub, Exclusive, WriteSection
  <2>2. topics[arg[c]] = joined[arg[c]]
    BY <1>9 DEF DisconnectCancelSub, Halfway, SubsRecorded, Recorded
  <2> QED
    BY <1>9, <2>1, <2>2, CancelEnds DEF DisconnectCancelSub
<1>10. CASE DisconnectTopics(c)
  BY <1>10, DisconnectTopicsInv
<1>11. CASE DisconnectHost(c)
  <2>1. \A d \in Clients \ {c} : pc[d] \notin WriteSection
    BY <1>11 DEF DisconnectHost, Exclusive, WriteSection
  <2>2. pc[c] = "closeHost" /\ Return(c, "ok") /\ UNCHANGED <<tables, sub, listener>>
    BY <1>11 DEF DisconnectHost
  <2>3. Exclusive' /\ Halfway'
    BY <2>1, <2>2 DEF Exclusive, Halfway, WriteSection
  <2>4. StoresJoined' /\ StoresAlone'
    BY <2>2 DEF StoresJoined, StoresAlone
  <2>5. TopicsJoined'
    <3>1. \A t \in Topics : Storing(t) => Storing(t)'
      BY <2>2 DEF Storing
    <3> QED
      BY <2>2, <3>1 DEF TopicsJoined
  <2>6. SubsRecorded' /\ ActiveRecorded' /\ CancelledListenerEnds'
    BY <2>2 DEF SubsRecorded, Recorded, ActiveRecorded, CancelledListenerEnds, Listening
  <2> QED
    BY <2>3, <2>4, <2>5, <2>6
<1> QED
  BY <1>1, <1>2, <1>3, <1>4, <1>5, <1>6, <1>7, <1>8, <1>9, <1>10, <1>11 DEF Proceeds

\* Neither a listener's step nor a cancelled context touches the tables.
LEMMA StreamsInv ==
    ASSUME IInv, TypeOK', UNCHANGED <<tables, writer, pc, arg, handle>>,
           \A s \in Subs : Weakens(s)
    PROVE  IInv'
<1> USE DEF IInv, TypeOK
<1>1. Exclusive'
  BY DEF Exclusive
<1>2. Halfway'
  <2> SUFFICES ASSUME NEW c \in Clients, pc[c] \in {"cancelSub", "disconnectSub"}
               PROVE  subs[arg[c]] # None /\ sub'[subs[arg[c]]].ctxDone
    BY DEF Halfway
  <2>1. subs[arg[c]] \in Subs /\ sub[subs[arg[c]]].ctxDone
    BY DEF Halfway
  <2>2. Weakens(subs[arg[c]])
    BY <2>1
  <2> QED
    BY <2>1, <2>2, TopicAssumption DEF Weakens
<1>3. StoresJoined' /\ StoresAlone'
  BY DEF StoresJoined, StoresAlone
<1>4. TopicsJoined'
  BY DEF TopicsJoined, Storing
<1> QED
  BY <1>1, <1>2, <1>3, <1>4, WeakensKeeps

LEMMA ListensInv ==
    ASSUME IInv, TypeOK', NEW s \in Subs, Listens(s) \/ UserCancels(s)
    PROVE  IInv'
<1> USE DEF IInv, TypeOK
<1>1. CASE Listens(s)
  <2>1. UNCHANGED <<tables, writer, pc, arg, handle, sub>>
    BY <1>1 DEF Listens, ListenerSelect, NextMessage, NextFails, HandlerReturns, HandlerFails
  <2>2. Listening(s) /\ \E label : ListenerAt(s, label)
    BY <1>1 DEF Listens, ListenerSelect, NextMessage, NextFails, HandlerReturns,
                HandlerFails, Listening
  <2>3. \A z \in Subs : Weakens(z)
    BY <2>1, <2>2 DEF Weakens, Listening
  <2> QED
    BY <2>1, <2>3, StreamsInv
<1>2. CASE UserCancels(s)
  <2>1. UNCHANGED <<tables, writer, pc, arg, handle, listener>>
    BY <1>2 DEF UserCancels
  <2>2. \A z \in Subs : Weakens(z)
    BY <1>2, CancelWeakens DEF UserCancels
  <2> QED
    BY <2>1, <2>2, StreamsInv
<1> QED
  BY <1>1, <1>2

LEMMA InvStep == IInv /\ ~NilHandlers /\ [Next]_vars => IInv'
<1> SUFFICES ASSUME IInv, ~NilHandlers, [Next]_vars PROVE IInv'
  OBVIOUS
<1>1. TypeOK'
  BY TypeStep DEF IInv
<1>2. ASSUME NEW t \in Topics, NEW m \in Messages \ {Own}, Receive(t, m) PROVE IInv'
  BY <1>1, <1>2, StreamsInv DEF Receive, Listening, Weakens
<1>3. CASE UNCHANGED vars
  BY <1>1, <1>3, StreamsInv DEF vars, Listening, Weakens
<1> QED
  BY <1>1, <1>2, <1>3, CallsInv, ProceedsInv, ListensInv DEF Next

LEMMA Invariant == ASSUME ~NilHandlers PROVE Spec => []IInv
<1>1. IInv /\ [Next]_vars => IInv'
  BY InvStep
<1> QED
  BY <1>1, InvInit, PTL DEF Spec

\* The table never holds a closed handle nor loses a joined topic, in spite of
\* Publish's change of lock, for any number of clients.
THEOREM TableCorrect == ASSUME ~NilHandlers PROVE Spec => []TableHoldsJoinedTopics
<1>1. IInv => TableHoldsJoinedTopics
  BY DEF IInv, TopicsJoined, TableHoldsJoinedTopics
<1> QED
  BY <1>1, Invariant, PTL

\* gossipsub delivers to the recorded subscriptions and to no other.
THEOREM RecordedCorrect == ASSUME ~NilHandlers PROVE Spec => []RecordedSubscriptionsAreActive
<1>1. ASSUME IInv PROVE RecordedSubscriptionsAreActive
  <2> SUFFICES ASSUME NEW s \in Subs PROVE sub[s].active <=> subs[sub[s].topic] = s
    BY DEF RecordedSubscriptionsAreActive
  <2>1. sub[s].active => subs[sub[s].topic] = s
    BY <1>1 DEF IInv, ActiveRecorded
  <2>2. sub[s].topic \in Topics /\ s # None
    BY <1>1, TopicAssumption DEF IInv, TypeOK, SubRecord
  <2>3. subs[sub[s].topic] = s => sub[s].active
    BY <1>1, <2>2 DEF IInv, SubsRecorded, Recorded
  <2> QED
    BY <2>1, <2>3
<1> QED
  BY <1>1, Invariant, PTL

\* No listener spins on a cancelled subscription.
THEOREM ListenerCorrect == ASSUME ~NilHandlers PROVE Spec => []CancelledListenerEnds
<1>1. IInv => CancelledListenerEnds
  BY DEF IInv
<1> QED
  BY <1>1, Invariant, PTL

=============================================================================
