-------------------------- MODULE NotificationPanel --------------------------
(***************************************************************************)
(* The bell of the header: a count of notifications kept by pushes, and a  *)
(* panel that loads the list, deletes one or all, and loads again whenever *)
(* the count changes while it is open.                                     *)
(* Source: src/assets/notifications/, src/assets/components/Notification*. *)
(***************************************************************************)
EXTENDS Naturals, Sequences, FiniteSets

CONSTANTS Notes,
    AnyOrder,                   \* answers overtake each other
    MaxEvents, MaxRequests      \* bounds

ConstantsOK == AnyOrder \in BOOLEAN /\ MaxEvents \in Nat /\ MaxRequests \in Nat

VARIABLES
    stored,     \* server: the user's notifications
    unused,     \* server: those not created yet
    store,      \* the redux store: list, count, loading
    displayed,  \* NotificationList.state.displayItems
    requests,   \* in flight: [n, kind, note, status, list]
    sent,
    pushes,     \* counts pushed and not handled
    connected,  \* the websocket is connected
    untold,     \* history: something changed, or failed, that the open panel cannot know
    events      \* the openings, creations and deletions so far

vars == <<stored, unused, store, displayed, requests, sent, pushes, connected, untold, events>>
server == <<stored, unused>>

SetNotifications(s, list) == [s EXCEPT !.list = list, !.count = Cardinality(list)]
UpdateNotificationCount(s, k) == [s EXCEPT !.count = @ + k]
ClearAllNotifications(s) == [s EXCEPT !.list = {}, !.count = 0]
\* The count becomes the length of what is listed, whether or not it was loaded.
ClearNotification(s, n) ==
    [s EXCEPT !.list = @ \ {n}, !.count = Cardinality(s.list \ {n})]
SetNotificationsLoading(s, on) == [s EXCEPT !.loading = on]

\* NotificationPopup: the list is shown unless there is nothing or it loads.
Listed(s) == IF displayed /\ s.count > 0 /\ ~ s.loading THEN s.list ELSE {}

Request(n, kind, note) == [n |-> n, kind |-> kind, note |-> note, status |-> "sent", list |-> {}]

\* componentDidUpdate: the open panel loads again when the count has changed.
Reload(s) == displayed /\ s.count # store.count

\* The store becomes s and the panel is updated; answered is no longer in flight.
Dispatch(s, answered) ==
    IF Reload(s)
    THEN /\ sent < MaxRequests
         /\ store' = SetNotificationsLoading(s, TRUE)
         /\ requests' = (requests \ answered) \cup {Request(sent + 1, "load", {})}
         /\ sent' = sent + 1
    ELSE /\ store' = s
         /\ requests' = requests \ answered
         /\ UNCHANGED sent

Event == events < MaxEvents /\ events' = events + 1

Init ==
    /\ stored \in SUBSET Notes /\ unused = Notes \ stored
    /\ store = [list |-> {}, count |-> Cardinality(stored), loading |-> FALSE]
    /\ displayed = FALSE /\ requests = {} /\ sent = 0 /\ pushes = <<>>
    /\ connected = FALSE /\ untold = FALSE /\ events = 0

-----------------------------------------------------------------------------
Create(n) ==
    /\ n \in unused /\ Event
    /\ unused' = unused \ {n} /\ stored' = stored \cup {n}
    /\ IF connected THEN pushes' = Append(pushes, 1) /\ UNCHANGED untold
                    ELSE untold' = TRUE /\ UNCHANGED pushes
    /\ UNCHANGED <<store, displayed, requests, sent, connected>>

\* In another tab: nothing is pushed.
DeletedElsewhere(n) ==
    /\ n \in stored /\ Event
    /\ stored' = stored \ {n} /\ untold' = TRUE
    /\ UNCHANGED <<unused, store, displayed, requests, sent, pushes, connected>>

InTurn(r) == AnyOrder \/ \A o \in requests : o.status = r.status => o.n >= r.n

Handle(r) ==
    /\ r.status = "sent" /\ InTurn(r)
    /\ stored' = CASE r.kind = "load" -> stored
                   [] r.kind = "delete" -> stored \ r.note
                   [] r.kind = "deleteAll" -> {}
    /\ requests' = (requests \ {r}) \cup {[r EXCEPT !.status = "done", !.list = stored]}
    /\ UNCHANGED <<unused, store, displayed, sent, pushes, connected, untold, events>>

-----------------------------------------------------------------------------
Connection ==
    /\ connected' = ~ connected
    /\ IF connected THEN pushes' = <<>> /\ untold' = (untold \/ pushes # <<>>)
                    ELSE UNCHANGED <<pushes, untold>>
    /\ UNCHANGED <<server, store, displayed, requests, sent, events>>

ToggleDisplay ==
    /\ displayed' = ~ displayed
    /\ IF displayed
       THEN UNCHANGED <<store, requests, sent, untold, events>>
       ELSE /\ Event /\ sent < MaxRequests
            /\ store' = SetNotificationsLoading(store, TRUE)
            /\ requests' = requests \cup {Request(sent + 1, "load", {})}
            /\ sent' = sent + 1
            /\ untold' = FALSE
    /\ UNCHANGED <<server, pushes, connected>>

HandlePush ==
    /\ pushes # <<>>
    /\ pushes' = Tail(pushes)
    /\ Dispatch(UpdateNotificationCount(store, Head(pushes)), {})
    /\ UNCHANGED <<server, displayed, connected, untold, events>>

DeleteNotification(n) ==
    /\ n \in Listed(store) /\ sent < MaxRequests /\ Event
    /\ requests' = requests \cup {Request(sent + 1, "delete", {n})}
    /\ sent' = sent + 1
    /\ UNCHANGED <<server, store, displayed, pushes, connected, untold>>

DeleteAllNotifications ==
    /\ displayed /\ store.count > 0 /\ sent < MaxRequests /\ Event
    /\ requests' = requests \cup {Request(sent + 1, "deleteAll", {})}
    /\ sent' = sent + 1
    /\ UNCHANGED <<server, store, displayed, pushes, connected, untold>>

\* setNotifications, and then finally the end of loading.
Loaded(r) ==
    /\ r.kind = "load" /\ r.status = "done" /\ InTurn(r)
    /\ Dispatch(SetNotificationsLoading(SetNotifications(store, r.list), FALSE), {r})
    /\ UNCHANGED <<server, displayed, pushes, connected, untold, events>>

Deleted(r) ==
    /\ r.status = "done" /\ InTurn(r)
    /\ \/ /\ r.kind = "delete"
          /\ \A n \in r.note : Dispatch(ClearNotification(store, n), {r})
       \/ /\ r.kind = "deleteAll"
          /\ Dispatch(ClearAllNotifications(store), {r})
    /\ UNCHANGED <<server, displayed, pushes, connected, untold, events>>

\* errorHandler only notifies; finally ends the loading.
Failed(r) ==
    /\ requests' = requests \ {r}
    /\ store' = IF r.kind = "load" THEN SetNotificationsLoading(store, FALSE) ELSE store
    /\ untold' = TRUE
    /\ UNCHANGED <<server, displayed, sent, pushes, connected, events>>

Answers == (\E r \in requests : Handle(r) \/ Loaded(r) \/ Deleted(r)) \/ HandlePush

Next ==
    \/ \E n \in Notes : Create(n) \/ DeletedElsewhere(n) \/ DeleteNotification(n)
    \/ Connection \/ ToggleDisplay \/ DeleteAllNotifications
    \/ Answers
    \/ \E r \in requests : Failed(r)

Spec == Init /\ [][Next]_vars

-----------------------------------------------------------------------------
TypeOK ==
    /\ stored \cup unused \subseteq Notes /\ stored \cap unused = {}
    /\ store \in [list : SUBSET Notes, count : Nat, loading : BOOLEAN]
    /\ \A r \in requests : r.n \in 1 .. sent /\ r.kind \in {"load", "delete", "deleteAll"}
    /\ store.loading => \E r \in requests : r.kind = "load"

\* When answers come in the order of the requests, but whatever is pushed between
\* them: as soon as the open panel has heard of everything and waits for nothing,
\* the count is that of the server, and so is the list.
BadgeTellsTruth ==
    (displayed /\ requests = {} /\ pushes = <<>> /\ ~ untold) =>
        store.count = Cardinality(stored) /\ store.list = stored

\* The load that changes the count calls for another, but not for ever: there are
\* never more requests than three for each thing that happened.
ReloadsEnd == sent <= 3 * events
=============================================================================
