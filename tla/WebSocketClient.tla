--------------------------- MODULE WebSocketClient ---------------------------
(***************************************************************************)
(* The connection of a page to the notification server: one socket shared  *)
(* by all stores of the page, an interval that reconnects it, a shutdown   *)
(* before the page unloads.  Source: src/assets/websocket.ts.              *)
(***************************************************************************)
EXTENDS Naturals, FiniteSets, TLAPS

CONSTANTS Stores,       \* the stores that may subscribe
          MaxOutages    \* bound

ASSUME OutagesAssumption == MaxOutages \in Nat

VARIABLES
    listeners,      \* manager.listeners
    current,        \* readyState of manager.wsConnection, "none" when it is null
    orphans,        \* sockets that are alive and that the manager has lost
    closing,        \* the shutdown has closed a socket that has not told so yet
    interval,       \* manager.connectInterval # null
    shuttingDown,   \* manager.shuttingDown
    indicator,      \* NotificationList.state.connected
    serverUp, outages

vars == <<listeners, current, orphans, closing, interval, shuttingDown,
          indicator, serverUp, outages>>
managerVars == <<listeners, orphans, closing, shuttingDown>>
serverVars == <<serverUp, outages>>

Live(s) == s \in {"connecting", "open"}

\* Mutant: a socket that is closed is kept.
ConnectableIfNone == ~ shuttingDown /\ current = "none"

\* connectToNotificationServer
Connectable == ~ shuttingDown /\ current \in {"none", "closed"}

Connect ==
    IF Connectable
    THEN /\ current' = "connecting"
         /\ orphans' = orphans + (IF Live(current) THEN 1 ELSE 0)
    ELSE UNCHANGED <<current, orphans>>

Init ==
    /\ listeners = {} /\ current = "none" /\ orphans = 0 /\ closing = FALSE
    /\ interval = FALSE /\ shuttingDown = FALSE /\ indicator = FALSE
    /\ serverUp \in BOOLEAN /\ outages = 0

InitWebSocket(s) ==
    /\ s \notin listeners
    /\ listeners' = listeners \cup {s}
    /\ Connect
    /\ UNCHANGED <<closing, interval, shuttingDown, indicator, serverVars>>

\* The interval runs every RECONNECT_INTERVAL.
Tick ==
    /\ interval
    /\ Connect
    /\ UNCHANGED <<listeners, closing, interval, shuttingDown, indicator, serverVars>>

OnOpen ==
    /\ serverUp /\ current = "connecting"
    /\ current' = "open" /\ interval' = FALSE /\ indicator' = TRUE
    /\ UNCHANGED <<managerVars, serverVars>>

\* Mutant: the interval is set only for a connection that was open.
OnCloseOfOpen ==
    /\ Live(current) /\ ~ serverUp
    /\ IF interval \/ current = "connecting"
       THEN current' = "closed" /\ UNCHANGED <<interval, indicator>>
       ELSE current' = "none" /\ interval' = TRUE /\ indicator' = FALSE
    /\ UNCHANGED <<managerVars, serverVars>>

\* The socket is closed by the server, or could not be opened.
OnClose ==
    /\ \/ current = "connecting" /\ ~ serverUp
       \/ current = "open" /\ ~ serverUp
    /\ IF interval
       THEN current' = "closed" /\ UNCHANGED <<interval, indicator>>
       ELSE current' = "none" /\ interval' = TRUE /\ indicator' = FALSE
    /\ UNCHANGED <<managerVars, serverVars>>

\* beforeunload: the page may stay nevertheless, when the user is asked or the
\* address is a download.
Shutdown ==
    /\ listeners # {}
    /\ shuttingDown' = TRUE /\ interval' = FALSE
    /\ closing' = (closing \/ Live(current))
    /\ current' = "none"
    /\ UNCHANGED <<listeners, orphans, indicator, serverVars>>

CloseAfterShutdown ==
    /\ closing /\ closing' = FALSE
    /\ interval' = (interval /\ ~ shuttingDown)
    /\ current' = IF shuttingDown THEN "none" ELSE current
    /\ UNCHANGED <<listeners, orphans, shuttingDown, indicator, serverVars>>

ServerChanges ==
    /\ serverUp => outages < MaxOutages
    /\ serverUp' = ~ serverUp
    /\ outages' = outages + (IF serverUp THEN 1 ELSE 0)
    /\ UNCHANGED <<managerVars, current, interval, indicator>>

Browser == Tick \/ OnOpen \/ OnClose \/ CloseAfterShutdown

Next ==
    \/ \E s \in Stores : InitWebSocket(s)
    \/ Browser \/ Shutdown \/ ServerChanges

Spec == Init /\ [][Next]_vars

\* Timers and the socket's events are not put off for ever.
FairSpec == Spec /\ WF_vars(Tick /\ current' # current) /\ WF_vars(OnOpen) /\ WF_vars(OnClose)

-----------------------------------------------------------------------------
TypeOK ==
    /\ listeners \subseteq Stores
    /\ current \in {"none", "connecting", "open", "closed"}
    /\ orphans \in Nat /\ outages \in 0 .. MaxOutages
    /\ closing \in BOOLEAN /\ interval \in BOOLEAN /\ shuttingDown \in BOOLEAN
    /\ indicator \in BOOLEAN /\ serverUp \in BOOLEAN

\* One socket serves all stores, whenever they subscribe and whatever is being
\* reconnected: with two, every store would see every event twice.
OneSocket == orphans = 0 /\ (shuttingDown => ~ Live(current))

\* A page that has subscribers and is not shut down is never left without either a
\* socket or an interval that will make one.
NeverGivesUp ==
    (listeners # {} /\ ~ shuttingDown) => Live(current) \/ interval

\* The icon of the header shows whether the page receives events, unless the page has been
\* shut down, which nothing announces.
IndicatorTrue == shuttingDown \/ (indicator <=> current = "open")

\* What a page may rely on, however its stores subscribe, the server fails and a shutdown
\* is taken back.
SocketInv == TypeOK /\ OneSocket /\ NeverGivesUp /\ IndicatorTrue

-----------------------------------------------------------------------------
(***************************************************************************)
(* An open socket has no interval behind it, and only a shut down manager  *)
(* waits for a socket it has closed: with these two what a page may rely   *)
(* on is inductive.                                                        *)
(***************************************************************************)
IInv ==
    /\ SocketInv
    /\ current = "open" => ~ interval
    /\ closing => shuttingDown
    /\ indicator => current = "open" \/ shuttingDown

\* A connection is only made when there is none, so that no socket is lost
\* (connectToNotificationServer).
LEMMA ConnectSafe ==
    ASSUME IInv, Connect
    PROVE  /\ orphans' = orphans
           /\ current' \in {"none", "connecting", "open", "closed"}
           /\ Live(current) => current' = current
           /\ current' = "open" <=> current = "open"
           /\ ~ shuttingDown => Live(current')
           /\ shuttingDown => current' = current
<1>1. CASE Connectable
  BY <1>1 DEF IInv, SocketInv, TypeOK, Connect, Connectable, Live
<1>2. CASE ~ Connectable
  BY <1>2 DEF IInv, SocketInv, TypeOK, Connect, Connectable, Live
<1>. QED  BY <1>1, <1>2

\* A fresh page satisfies the invariant.
LEMMA InitIInv == Init => IInv
<1> SUFFICES ASSUME Init PROVE IInv
  OBVIOUS
<1>1. TypeOK
  <2>1. orphans \in Nat /\ outages \in 0 .. MaxOutages
    BY OutagesAssumption DEF Init
  <2>. QED  BY <2>1, Zenon DEF Init, TypeOK
<1>. QED  BY <1>1 DEF Init, IInv, SocketInv, OneSocket, NeverGivesUp, IndicatorTrue, Live

\* Every event of the browser, of a store and of the server preserves it.
LEMMA NextIInv == IInv /\ [Next]_vars => IInv'
<1> SUFFICES ASSUME IInv, [Next]_vars PROVE IInv'
  OBVIOUS
<1> USE DEF IInv, SocketInv, TypeOK, OneSocket, NeverGivesUp, IndicatorTrue, Live, managerVars, serverVars
<1>1. ASSUME NEW s \in Stores, InitWebSocket(s) PROVE IInv'
  BY <1>1, ConnectSafe DEF InitWebSocket
<1>2. CASE Tick
  BY <1>2, ConnectSafe DEF Tick
<1>3. CASE OnOpen
  BY <1>3 DEF OnOpen
<1>4. CASE OnClose
  BY <1>4 DEF OnClose
<1>5. CASE Shutdown
  BY <1>5 DEF Shutdown
<1>6. CASE CloseAfterShutdown
  BY <1>6 DEF CloseAfterShutdown
<1>7. CASE ServerChanges
  <2>1. serverUp' \in BOOLEAN /\ outages' \in 0 .. MaxOutages
    BY <1>7, OutagesAssumption DEF ServerChanges
  <2>. QED  BY <1>7, <2>1 DEF ServerChanges
<1>8. CASE UNCHANGED vars
  BY <1>8 DEF vars
<1>. QED  BY <1>1, <1>2, <1>3, <1>4, <1>5, <1>6, <1>7, <1>8 DEF Next, Browser

(***************************************************************************)
(* However many stores subscribe, and whenever, the page has one socket;   *)
(* with subscribers it always has a socket or is about to make one; and    *)
(* the icon of the header tells the truth until the page is shut down      *)
(* (src/assets/websocket.ts).                                              *)
(***************************************************************************)
THEOREM SocketCorrect == Spec => []SocketInv
<1>1. IInv => SocketInv
  BY DEF IInv
<1>. QED  BY <1>1, InitIInv, NextIInv, PTL DEF Spec
=============================================================================
