-------------------------- MODULE ReadinessHistory --------------------------
(***************************************************************************)
(* BootstrapRetry with history variables that say how far isReady may be   *)
(* trusted.  updateReadiness reads the peer count before it takes          *)
(* readinessMutex, so of two callbacks that overlap the one with the older *)
(* count may store last, and a connection from before Notify is not        *)
(* counted until some callback runs.  The history tells these cases from   *)
(* all others.                                                             *)
(***************************************************************************)
EXTENDS BootstrapRetry

VARIABLES
    lastRead,   \* the connection whose callback read the peer count last
    outdated    \* isReady does not hold the count read last

history == <<lastRead, outdated>>

\* Nobody counted the connections there are, if any.
HistoryInit ==
    /\ lastRead = NoConn
    /\ outdated = (up # {})

\* len(host.Network().Peers()) of the callback's updateReadiness.
Reads(c) ==
    /\ ReadPeerCount(c)
    /\ lastRead' = c
    /\ UNCHANGED outdated

\* Its store of that count under readinessMutex.
Stores(c) ==
    /\ UpdateReadiness(c)
    /\ outdated' = (lastRead # c)
    /\ UNCHANGED lastRead

HistoryNext ==
    \/ Others /\ UNCHANGED history
    \/ \E c \in Conns : Reads(c) \/ Stores(c)

HistorySpec == Init /\ HistoryInit /\ [][HistoryNext]_<<vars, history>>

-----------------------------------------------------------------------------
(* Properties.                                                               *)

\* Once no notification is pending, isReady is exact, however many connections
\* came and went and whatever their callbacks overlapped with, unless the last
\* callback to store held an older count than another (updateReadiness).  What an
\* uncounted early connection or a late store spoilt, the next callback in order
\* mends.
ReadyUnlessOutdated == Quiet /\ ~outdated => (isReady <=> up # {})

=============================================================================
