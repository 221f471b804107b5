---------------------------- MODULE TopicManager ----------------------------
(***************************************************************************)
(* Topics and subscriptions of one DB (pubsub/pubsub_operations.go):       *)
(* Subscribe, Publish, Unsubscribe, Disconnect and the message listeners,  *)
(* over the part of gossipsub (external) they rely on.                     *)
(*                                                                         *)
(* db.instance.mutex guards the tables topics and subscriptions.  A section *)
(* under the write lock whose steps no other goroutine can tell apart is   *)
(* one action; Publish, which releases its read lock half way, and the     *)
(* cancellation of a subscription, whose two halves a listener can tell    *)
(* apart, are several.                                                     *)
(*                                                                         *)
(* Bounds: |Handles| topic handles and |Subs| subscriptions referenced at  *)
(* a time (both are reused once nothing refers to them), Buffer messages   *)
(* per subscription (32 in gossipsub).                                     *)
(***************************************************************************)
EXTENDS Naturals, Sequences, FiniteSets

CONSTANTS
    Topics,         \* topic names, within the one database of the DB
    Clients,        \* application goroutines that use the DB
    Handles,        \* topic handles gossipsub gives out
    Subs,           \* subscriptions, each with its listener goroutine
    None,           \* no handle, no subscription, nobody
    Valid,          \* messages of other peers that parse and have an ID
    Ignored,        \* messages the listener skips: own, malformed, no ID
    Own,            \* a message of this node
    Buffer,         \* capacity of a subscription's channel
    CtxCancels,     \* TRUE when callers may cancel the context of Subscribe
    HandlerPanics,  \* TRUE when handlers may panic
    NilHandlers     \* TRUE when Subscribe may be called with a nil handler

Messages == Valid \cup Ignored

ASSUME TopicAssumption ==
    /\ Topics # {}
    /\ Own \in Ignored
    /\ Buffer \in Nat \ {0}
    /\ None \notin Handles \cup Subs \cup Clients
    /\ {CtxCancels, HandlerPanics, NilHandlers} \subseteq BOOLEAN

VARIABLES
    joined,    \* gossipsub's topics: the open handle of each joined topic
    topics,    \* db.instance.topics
    subs,      \* db.instance.subscriptions
    sub,       \* the TopicSubscription and gossipsub's side of it
    inbox,     \* the subscription's channel
    listener,  \* where messageListener of the subscription is
    writer,    \* who holds db.instance.mutex for writing
    readers,   \* who holds it for reading
    pc, arg, handle, result,   \* of each client: place, topic, handle, last result
    hostOpen

vars == <<joined, topics, subs, sub, inbox, listener, writer, readers, pc, arg,
          handle, result, hostOpen>>

tables  == <<joined, topics, subs>>
streams == <<sub, inbox, listener>>
lock    == <<writer, readers>>
locals  == <<pc, arg, handle, result>>

SubRecord == [topic : Topics, handle : Handles \cup {None}, nilHandler : BOOLEAN,
              ctxDone : BOOLEAN, active : BOOLEAN]

ListenerStates == {"unused", "select", "next", "handle", "ended"}

ClientStates == {"idle", "lookup", "store", "relock", "send",
                 "cancelSub", "disconnect", "disconnectSub", "closeHost"}

\* Publish has its topic handle, which is not nil.
Publishing == {"store", "relock", "send"}

Results == {"ok", "already", "notSubscribed", "joinFailed", "closed", "badValue"}

TypeOK ==
    /\ joined \in [Topics -> Handles \cup {None}]
    /\ topics \in [Topics -> Handles \cup {None}]
    /\ subs \in [Topics -> Subs \cup {None}]
    /\ sub \in [Subs -> SubRecord]
    /\ inbox \in [Subs -> Seq(Messages)]
    /\ \A s \in Subs : Len(inbox[s]) <= Buffer
    /\ listener \in [Subs -> ListenerStates]
    /\ writer \in Clients \cup {None}
    /\ readers \in SUBSET Clients
    /\ pc \in [Clients -> ClientStates]
    /\ arg \in [Clients -> Topics]
    /\ handle \in [Clients -> Handles \cup {None}]
    /\ \A c \in Clients : pc[c] \in Publishing => handle[c] # None
    /\ result \in [Clients -> Results]
    /\ hostOpen \in BOOLEAN

AnyTopic == CHOOSE t \in Topics : TRUE

NoRecord == [topic |-> AnyTopic, handle |-> None, nilHandler |-> FALSE,
             ctxDone |-> FALSE, active |-> FALSE]

Init ==
    /\ joined = [t \in Topics |-> None]
    /\ topics = [t \in Topics |-> None]
    /\ subs = [t \in Topics |-> None]
    /\ sub = [s \in Subs |-> NoRecord]
    /\ inbox = [s \in Subs |-> <<>>]
    /\ listener = [s \in Subs |-> "unused"]
    /\ writer = None
    /\ readers = {}
    /\ pc = [c \in Clients |-> "idle"]
    /\ arg = [c \in Clients |-> AnyTopic]
    /\ handle = [c \in Clients |-> None]
    /\ result = [c \in Clients |-> "ok"]
    /\ hostOpen = TRUE

CanLock  == writer = None /\ readers = {}
CanRLock == writer = None

\* The call of c ends with res; c keeps no reference.
Return(c, res) ==
    /\ pc' = [pc EXCEPT ![c] = "idle"]
    /\ arg' = [arg EXCEPT ![c] = AnyTopic]
    /\ handle' = [handle EXCEPT ![c] = None]
    /\ result' = [result EXCEPT ![c] = res]

Goto(c, label, t) ==
    /\ pc' = [pc EXCEPT ![c] = label]
    /\ arg' = [arg EXCEPT ![c] = t]
    /\ UNCHANGED <<handle, result>>

-----------------------------------------------------------------------------
(* What gossipsub does for its callers.                                      *)

\* A handle nothing refers to: the one a successful Join returns.
FreshHandle(h) ==
    /\ \A t \in Topics : h # joined[t] /\ h # topics[t]
    /\ \A c \in Clients : h # handle[c]
    /\ \A s \in Subs : listener[s] \notin {"unused", "ended"} => h # sub[s].handle

\* A subscription whose goroutine ended and that neither table knows.
FreshSub(s) ==
    /\ listener[s] \in {"unused", "ended"}
    /\ ~sub[s].active
    /\ \A t \in Topics : subs[t] # s

Subscribed(t) == {s \in Subs : sub[s].active /\ sub[s].topic = t}

\* Mutant: the topic is never closed.
NeverCloses(t, h, subscribed) == joined[t]

\* Topic.Close by the holder of h: refused while the topic has subscriptions,
\* nothing to do when the handle was closed before.
AfterClose(t, h, subscribed) ==
    IF joined[t] = h /\ subscribed = {} THEN None ELSE joined[t]

HasRoom(s) == Len(inbox[s]) < Buffer

\* Delivery to the local subscriptions; a full channel drops the message.
Deliver(t, m) ==
    inbox' = [s \in Subs |->
                IF s \in Subscribed(t) /\ HasRoom(s)
                THEN Append(inbox[s], m) ELSE inbox[s]]

Receive(t, m) ==
    /\ hostOpen
    /\ Deliver(t, m)
    /\ UNCHANGED <<tables, sub, listener, lock, locals, hostOpen>>

-----------------------------------------------------------------------------
(* Subscribe: one section under the write lock.                              *)

\* Mutant: an existing subscription is not looked for.
HasHandlerUnchecked(t) == FALSE

HasHandler(t) == subs[t] # None /\ ~sub[subs[t]].nilHandler

SubscribeAgain(c, t) ==
    /\ pc[c] = "idle" /\ CanLock
    /\ HasHandler(t)
    /\ Return(c, "already")
    /\ UNCHANGED <<tables, streams, lock, hostOpen>>

\* Join refuses a topic that is joined under another handle.
SubscribeJoinFails(c, t) ==
    /\ pc[c] = "idle" /\ CanLock
    /\ ~HasHandler(t)
    /\ topics[t] = None /\ joined[t] # None
    /\ Return(c, "joinFailed")
    /\ UNCHANGED <<tables, streams, lock, hostOpen>>

\* Topic.Subscribe fails on a closed handle, which stays in the table; else
\* the subscription is stored and its listener spawned.
Subscribe(c, t, nilHandler) ==
    /\ pc[c] = "idle" /\ CanLock
    /\ ~HasHandler(t)
    /\ topics[t] # None \/ joined[t] = None
    /\ \E h \in Handles, s \in Subs :
          /\ IF topics[t] # None THEN h = topics[t] ELSE FreshHandle(h)
          /\ FreshSub(s)
          /\ topics' = [topics EXCEPT ![t] = h]
          /\ joined' = IF topics[t] = None THEN [joined EXCEPT ![t] = h] ELSE joined
          /\ IF joined'[t] = h
             THEN /\ sub' = [sub EXCEPT ![s] =
                        [topic |-> t, handle |-> h, nilHandler |-> nilHandler,
                         ctxDone |-> FALSE, active |-> TRUE]]
                  /\ inbox' = [inbox EXCEPT ![s] = <<>>]
                  /\ listener' = [listener EXCEPT ![s] = "select"]
                  /\ subs' = [subs EXCEPT ![t] = s]
                  /\ Return(c, "ok")
             ELSE Return(c, "closed") /\ UNCHANGED <<streams, subs>>
    /\ UNCHANGED <<lock, hostOpen>>

-----------------------------------------------------------------------------
(* messageListener.                                                          *)

ListenerAt(s, label) == listener' = [listener EXCEPT ![s] = label]

\* Mutant: the loop does not look at its context.
ContextUnseen(s) == FALSE

ContextDone(s) == sub[s].ctxDone

ListenerSelect(s) ==
    /\ listener[s] = "select"
    /\ ListenerAt(s, IF ContextDone(s) THEN "ended" ELSE "next")
    /\ UNCHANGED <<tables, sub, inbox, lock, locals, hostOpen>>

\* Mutant: a message that is skipped ends the loop (return for continue).
SkippedReturns == "ended"

Skipped == "select"

\* subscription.Next returns a message, also when the context is done: its
\* select takes either case.
NextMessage(s) ==
    /\ listener[s] = "next"
    /\ inbox[s] # <<>>
    /\ ListenerAt(s, IF Head(inbox[s]) \in Valid THEN "handle" ELSE Skipped)
    /\ inbox' = [inbox EXCEPT ![s] = Tail(@)]
    /\ UNCHANGED <<tables, sub, lock, locals, hostOpen>>

\* subscription.Next fails: the context is done, or the channel is drained and
\* closed; in the latter case alone the loop goes on.
NextFails(s) ==
    /\ listener[s] = "next"
    /\ sub[s].ctxDone \/ (~sub[s].active /\ inbox[s] = <<>>)
    /\ ListenerAt(s, IF sub[s].ctxDone THEN "ended" ELSE "select")
    /\ UNCHANGED <<tables, sub, inbox, lock, locals, hostOpen>>

HandlerReturns(s) ==
    /\ listener[s] = "handle"
    /\ ~sub[s].nilHandler
    /\ ListenerAt(s, "select")
    /\ UNCHANGED <<tables, sub, inbox, lock, locals, hostOpen>>

\* The deferred recover ends the listener; calling a nil handler panics too.
HandlerFails(s) ==
    /\ listener[s] = "handle"
    /\ HandlerPanics \/ sub[s].nilHandler
    /\ ListenerAt(s, "ended")
    /\ UNCHANGED <<tables, sub, inbox, lock, locals, hostOpen>>

\* The caller cancels the context it gave to Subscribe.
UserCancels(s) ==
    /\ CtxCancels
    /\ listener[s] \in {"select", "next", "handle"}
    /\ ~sub[s].ctxDone
    /\ sub' = [sub EXCEPT ![s].ctxDone = TRUE]
    /\ UNCHANGED <<tables, inbox, listener, lock, locals, hostOpen>>

-----------------------------------------------------------------------------
(* Unsubscribe, under the write lock.                                        *)

UnsubscribeUnknown(c, t) ==
    /\ pc[c] = "idle" /\ CanLock
    /\ subs[t] = None
    /\ Return(c, "notSubscribed")
    /\ UNCHANGED <<tables, streams, lock, hostOpen>>

\* Mutant: the listener's context is not cancelled.
ContextKept(s) == sub

ContextCancelled(s) == [sub EXCEPT ![s].ctxDone = TRUE]

\* Cancel the listener's context.
Unsubscribe(c, t) ==
    /\ pc[c] = "idle" /\ CanLock
    /\ subs[t] # None
    /\ sub' = ContextCancelled(subs[t])
    /\ writer' = c
    /\ Goto(c, "cancelSub", t)
    /\ UNCHANGED <<tables, inbox, listener, readers, hostOpen>>

\* Mutant: the topic is closed and stays in the table.
TopicKept(t) == topics

TopicForgotten(t) == [topics EXCEPT ![t] = None]

\* Then cancel the subscription, close the topic and forget both.
UnsubscribeCancelSub(c) ==
    /\ pc[c] = "cancelSub"
    /\ LET t == arg[c]
           s == subs[t]
       IN /\ sub' = [sub EXCEPT ![s].active = FALSE]
          /\ joined' = [joined EXCEPT ![t] =
                           AfterClose(t, sub[s].handle, Subscribed(t) \ {s})]
          /\ subs' = [subs EXCEPT ![t] = None]
          /\ topics' = TopicForgotten(t)
    /\ writer' = None
    /\ Return(c, "ok")
    /\ UNCHANGED <<inbox, listener, readers, hostOpen>>

-----------------------------------------------------------------------------
(* Publish, under the read lock but for the moment it stores a new handle.   *)

Publish(c, t) ==
    /\ pc[c] = "idle" /\ CanRLock
    /\ readers' = readers \cup {c}
    /\ Goto(c, "lookup", t)
    /\ UNCHANGED <<tables, streams, writer, hostOpen>>

\* Mutant: the entry is used without looking whether there is one.
KnownUnchecked(t) == TRUE

Known(t) == topics[t] # None

PublishKnown(c) ==
    /\ pc[c] = "lookup"
    /\ Known(arg[c])
    /\ handle' = [handle EXCEPT ![c] = topics[arg[c]]]
    /\ pc' = [pc EXCEPT ![c] = "send"]
    /\ UNCHANGED <<tables, streams, lock, arg, result, hostOpen>>

PublishJoinFails(c) ==
    /\ pc[c] = "lookup"
    /\ ~Known(arg[c]) /\ joined[arg[c]] # None
    /\ readers' = readers \ {c}
    /\ Return(c, "joinFailed")
    /\ UNCHANGED <<tables, streams, writer, hostOpen>>

\* Mutant: the read lock is kept while waiting for the write lock.
RLockKept(c) == readers

RLockGivenUp(c) == readers \ {c}

\* Join, then give up the read lock.
PublishJoins(c) ==
    /\ pc[c] = "lookup"
    /\ ~Known(arg[c]) /\ joined[arg[c]] = None
    /\ \E h \in Handles :
          /\ FreshHandle(h)
          /\ joined' = [joined EXCEPT ![arg[c]] = h]
          /\ handle' = [handle EXCEPT ![c] = h]
    /\ readers' = RLockGivenUp(c)
    /\ pc' = [pc EXCEPT ![c] = "store"]
    /\ UNCHANGED <<topics, subs, streams, writer, arg, result, hostOpen>>

\* Lock, store the handle, Unlock.
PublishStores(c) ==
    /\ pc[c] = "store"
    /\ CanLock
    /\ topics' = [topics EXCEPT ![arg[c]] = handle[c]]
    /\ pc' = [pc EXCEPT ![c] = "relock"]
    /\ UNCHANGED <<joined, subs, streams, lock, arg, handle, result, hostOpen>>

PublishRelocks(c) ==
    /\ pc[c] = "relock"
    /\ CanRLock
    /\ readers' = readers \cup {c}
    /\ pc' = [pc EXCEPT ![c] = "send"]
    /\ UNCHANGED <<tables, streams, writer, arg, handle, result, hostOpen>>

\* Marshal the event and publish it; the node's own subscriptions get it too.
PublishSends(c) ==
    /\ pc[c] = "send"
    /\ readers' = readers \ {c}
    /\ \/ Return(c, "badValue") /\ UNCHANGED inbox
       \/ /\ joined[arg[c]] # handle[c]
          /\ Return(c, "closed")
          /\ UNCHANGED inbox
       \/ /\ joined[arg[c]] = handle[c]
          /\ Return(c, "ok")
          /\ Deliver(arg[c], Own)
    /\ UNCHANGED <<tables, sub, listener, writer, hostOpen>>

-----------------------------------------------------------------------------
(* Disconnect, all under the write lock.                                     *)

Disconnect(c) ==
    /\ pc[c] = "idle" /\ CanLock
    /\ writer' = c
    /\ Goto(c, "disconnect", AnyTopic)
    /\ UNCHANGED <<tables, streams, readers, hostOpen>>

\* The subscriptions, in the map's random order: cancel the context ...
DisconnectCancelCtx(c) ==
    /\ pc[c] = "disconnect"
    /\ \E t \in Topics :
          /\ subs[t] # None
          /\ sub' = ContextCancelled(subs[t])
          /\ Goto(c, "disconnectSub", t)
    /\ UNCHANGED <<tables, inbox, listener, lock, hostOpen>>

\* ... then the subscription, and forget it.
DisconnectCancelSub(c) ==
    /\ pc[c] = "disconnectSub"
    /\ sub' = [sub EXCEPT ![subs[arg[c]]].active = FALSE]
    /\ subs' = [subs EXCEPT ![arg[c]] = None]
    /\ Goto(c, "disconnect", AnyTopic)
    /\ UNCHANGED <<joined, topics, inbox, listener, lock, hostOpen>>

\* Mutant: the topics are forgotten and never closed.
JoinedAfterDisconnect(t) == joined[t]

LeftAfterDisconnect(t) == AfterClose(t, topics[t], Subscribed(t))

\* Close and forget all topics of the table.
DisconnectTopics(c) ==
    /\ pc[c] = "disconnect"
    /\ \A t \in Topics : subs[t] = None
    /\ joined' = [t \in Topics |-> LeftAfterDisconnect(t)]
    /\ topics' = [t \in Topics |-> None]
    /\ Goto(c, "closeHost", AnyTopic)
    /\ UNCHANGED <<subs, streams, lock, hostOpen>>

\* gossipsub itself goes on: its context is never cancelled.
DisconnectHost(c) ==
    /\ pc[c] = "closeHost"
    /\ hostOpen' = FALSE
    /\ writer' = None
    /\ Return(c, "ok")
    /\ UNCHANGED <<tables, streams, readers>>

-----------------------------------------------------------------------------

Calls(c) ==
    \/ \E t \in Topics :
          \/ SubscribeAgain(c, t)
          \/ SubscribeJoinFails(c, t)
          \/ \E n \in {FALSE, NilHandlers} : Subscribe(c, t, n)
          \/ UnsubscribeUnknown(c, t)
          \/ Unsubscribe(c, t)
          \/ Publish(c, t)
    \/ Disconnect(c)

Proceeds(c) ==
    \/ UnsubscribeCancelSub(c)
    \/ PublishKnown(c)
    \/ PublishJoinFails(c)
    \/ PublishJoins(c)
    \/ PublishStores(c)
    \/ PublishRelocks(c)
    \/ PublishSends(c)
    \/ DisconnectCancelCtx(c)
    \/ DisconnectCancelSub(c)
    \/ DisconnectTopics(c)
    \/ DisconnectHost(c)

Listens(s) ==
    \/ ListenerSelect(s)
    \/ NextMessage(s)
    \/ NextFails(s)
    \/ HandlerReturns(s)
    \/ HandlerFails(s)

Next ==
    \/ \E c \in Clients : Calls(c) \/ Proceeds(c)
    \/ \E s \in Subs : Listens(s) \/ UserCancels(s)
    \/ \E t \in Topics, m \in Messages \ {Own} : Receive(t, m)

Spec == Init /\ [][Next]_vars

(***************************************************************************)
(* A call under way and a listener are scheduled, and handlers return.     *)
(* Go's RWMutex lets a waiting writer in before later readers, and the     *)
(* readers waiting behind a writer when it unlocks: a client that waits    *)
(* for the lock gets it (strong fairness).                                 *)
(***************************************************************************)
Fairness ==
    /\ \A c \in Clients : SF_vars(Proceeds(c))
    /\ \A s \in Subs : WF_vars(Listens(s))

LiveSpec == Spec /\ Fairness

-----------------------------------------------------------------------------
(* Properties.                                                               *)

\* The places of Publish under the read lock, and of the others under the write
\* lock.
ReadSection  == {"lookup", "send"}
WriteSection == {"cancelSub", "disconnect", "disconnectSub", "closeHost"}

\* db.instance.mutex is held by exactly the clients in the sections it guards,
\* all of which go on without it: no call returns with the lock, on any of its
\* error paths, and Publish does not wait for the write lock with its read lock.
LockHeldInSections ==
    /\ readers = {c \in Clients : pc[c] \in ReadSection}
    /\ \A c \in Clients : writer = c <=> pc[c] \in WriteSection
    /\ writer # None => readers = {}

Storing(t) == \E c \in Clients : pc[c] = "store" /\ arg[c] = t

\* Outside a write section, and but for the moment Publish has yet to store its
\* handle, the table holds exactly the open handles gossipsub gave out: no
\* closed handle is reused, no joined topic is forgotten.
TableHoldsJoinedTopics ==
    writer = None => \A t \in Topics : ~Storing(t) => topics[t] = joined[t]

\* Outside a write section gossipsub delivers to the recorded subscriptions and
\* to no other.
RecordedSubscriptionsAreActive ==
    writer = None => \A s \in Subs : sub[s].active <=> subs[sub[s].topic] = s

Listening(s) == listener[s] \in {"select", "next", "handle"}

\* A listener whose subscription was cancelled has its context cancelled too:
\* its loop ends instead of spinning on subscription.Next.
CancelledListenerEnds == \A s \in Subs : Listening(s) /\ ~sub[s].active => sub[s].ctxDone

\* Outside a write section a recorded subscription has a running listener: no
\* message ends it.
RecordedSubscriptionsListen ==
    writer = None => \A t \in Topics : subs[t] # None => Listening(subs[t])

\* Publish and Subscribe never fail for a reason of the tables' making.
CallsSucceed == \A c \in Clients : result[c] \notin {"joinFailed", "closed"}

\* When Disconnect returns, no topic is left joined but those that a Publish has
\* joined and not stored yet.
DisconnectLeavesTopics ==
    [][\A c \in Clients : pc[c] = "closeHost" /\ pc'[c] = "idle" =>
          \A t \in Topics : joined'[t] # None => Storing(t)]_vars

\* Every call that began returns: the lock is never held for good.
CallsReturn == \A c \in Clients : pc[c] # "idle" ~> pc[c] = "idle"

\* The subscriptions keep the promises of SubscriptionService: a listener ends
\* when its context is done and only then, and before it is forgotten its context
\* is done, in Unsubscribe and Disconnect alike.
Service == INSTANCE SubscriptionService WITH
    current <- subs,
    live    <- {s \in Subs : Listening(s)},
    told    <- {s \in Subs : Listening(s) /\ sub[s].ctxDone}

KeepsSubscriptions == Service!Spec

\* A listener whose context is cancelled ends.
CancelledListenersEnd ==
    \A s \in Subs : Listening(s) /\ sub[s].ctxDone ~> listener[s] = "ended"

=============================================================================
