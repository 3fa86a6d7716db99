----------------------------- MODULE AgendaPush -----------------------------
(***************************************************************************)
(* The push of events and plannings (POST /push with type "event" and      *)
(* "planning"), and of the stories of their coverages: newsroom/push       *)
(* (views.py, publishing.py, agenda_manager.py) and                        *)
(* newsroom/agenda/agenda_service.py.                                      *)
(*                                                                         *)
(* An event and a planning each have a document in the agenda collection.  *)
(* The document of an event embeds the plannings linked to it and, from    *)
(* them, the list of coverages it shows; so does a planning with itself.   *)
(* A push is handled under a lock on its own guid only: the documents of   *)
(* other guids it writes are read, changed and written back unlocked.      *)
(* Every database call is a step of its own.                               *)
(***************************************************************************)
EXTENDS Naturals, FiniteSets

CONSTANTS
    Events,
    Plans,
    Coverages,
    EventOf,      \* EventOf[p]: the event planning p is for, or None
    SecondaryOf,  \* SecondaryOf[p]: events it is linked to with link_type "secondary"
    PlanOf,       \* PlanOf[c]: the planning coverage c is part of
    Workers,      \* requests the web server can handle at a time
    None,
    OneByOne,     \* messages are handled one by one, in the order of posting
    Faults,       \* what may go wrong: "error", "expiry" (of a lock)
    MaxPosts,     \* bound for model checking: messages posted
    MaxFaults     \* bound for model checking: errors

Guids == Events \cup Plans

ASSUME AgendaAssumption ==
    /\ Events \cap Plans = {}
    /\ EventOf \in [Plans -> Events \cup {None}]
    /\ SecondaryOf \in [Plans -> SUBSET Events]
    /\ PlanOf \in [Coverages -> Plans]
    /\ None \notin Guids

ASSUME ParametersAssumption ==
    /\ OneByOne \in BOOLEAN
    /\ Faults \subseteq {"error", "expiry"}
    /\ MaxPosts \in Nat
    /\ MaxFaults \in Nat

(***************************************************************************)
(* What Superdesk posts.  The version of a message is its versioncreated:  *)
(* its place in the order of posting.  A coverage of a planning is there   *)
(* or not, and it is completed once its story has been published.          *)
(***************************************************************************)
Status == {"absent", "planned", "completed"}
EventStates == {"scheduled", "cancelled", "postponed"}
PlanStates == {"scheduled", "cancelled", "killed"}

Message ==
    [type : {"event"}, guid : Events, version : Nat, state : EventStates, plans : SUBSET Plans]
        \cup
    [type : {"planning"}, guid : Plans, version : Nat, state : PlanStates,
     event : Events \cup {None}, coverages : [Coverages -> Status]]
        \cup
    [type : {"text"}, guid : Coverages, version : Nat]

(***************************************************************************)
(* The documents.  planning_items has at most one entry for a planning, so *)
(* it is a function of plannings; coverages is one of coverages.           *)
(***************************************************************************)
NoItem == [version |-> 0, state |-> "none", coverages |-> [c \in Coverages |-> "absent"]]

PlanningItem == [version : Nat, state : PlanStates \cup {"none"}, coverages : [Coverages -> Status]]

Document == [
    event : Nat,                           \* version of the event's own data
    versioncreated : Nat,                  \* compared with that of a message; of events only
    event_id : Events \cup {None},
    planning_items : [Plans -> PlanningItem],
    planning_ids : SUBSET Plans,
    coverages : [Coverages -> Status]]

Empty == [
    event |-> 0,
    versioncreated |-> 0,
    event_id |-> None,
    planning_items |-> [p \in Plans |-> NoItem],
    planning_ids |-> {},
    coverages |-> [c \in Coverages |-> "absent"]]

VARIABLES
    \* Superdesk
    posted,       \* messages posted so far
    outstanding,  \* those that have not been handled yet
    linked,       \* plannings linked to their event
    published,    \* coverages whose story has been published
    \* the agenda collection
    stored,       \* guids present
    doc,          \* doc[g]: the document of g
    \* the workers
    pc,           \* next step
    msg,          \* the message it handles
    orig,         \* the document it has read and is going to write back
    new,          \* no document had this guid
    todo,         \* guids of other documents it has still to write
    target,       \* the secondary event it is at
    hits,         \* hits[w][g]: the documents found by the search for a coverage
    plan,         \* the document of the planning it has read for a secondary event
    \* history
    latest,       \* latest[p]: version of p handled last
    newest,       \* newest[e]: version of e handled last
    due,          \* due[e]: plannings that e has to show
    faults

superdeskVars == <<posted, linked, published>>
agendaVars == <<stored, doc>>
jobVars == <<msg, orig, new, todo, target, hits, plan>>
histVars == <<latest, newest, due>>
vars == <<superdeskVars, outstanding, agendaVars, pc, jobVars, histVars, faults>>

NoHits == [g \in Guids |-> Empty]

NoMessage == [type |-> "none", guid |-> None, version |-> 0]

Init ==
    /\ posted = 0
    /\ outstanding = {}
    /\ linked = {}
    /\ published = {}
    /\ stored = {}
    /\ doc = [g \in Guids |-> Empty]
    /\ pc = [w \in Workers |-> "idle"]
    /\ msg = [w \in Workers |-> NoMessage]
    /\ orig = [w \in Workers |-> Empty]
    /\ new = [w \in Workers |-> FALSE]
    /\ todo = [w \in Workers |-> {}]
    /\ target = [w \in Workers |-> None]
    /\ hits = [w \in Workers |-> NoHits]
    /\ plan = [w \in Workers |-> Empty]
    /\ latest = [p \in Plans |-> 0]
    /\ newest = [e \in Events |-> 0]
    /\ due = [e \in Events |-> {}]
    /\ faults = 0

-----------------------------------------------------------------------------
(* Superdesk *)

(***************************************************************************)
(* What Superdesk posts does not depend on what Newsroom does with it.  So *)
(* either a message is posted when the one before has been handled, or all *)
(* are posted before the first is pushed and wait for their turn.          *)
(***************************************************************************)
Post(m) ==
    /\ posted < MaxPosts
    /\ \A w \in Workers : pc[w] = "idle"
    /\ Cardinality(outstanding) = IF OneByOne THEN 0 ELSE posted
    /\ posted' = posted + 1
    /\ outstanding' = outstanding \cup {m}
    /\ UNCHANGED <<agendaVars, pc, jobVars, histVars, faults>>

\* An event is posted with the plannings linked to it, some of them just now.
PostEvent(e, state, others) ==
    /\ others \subseteq {p \in Plans : EventOf[p] = e}
    /\ linked' = linked \cup others
    /\ Post([type |-> "event", guid |-> e, version |-> posted + 1, state |-> state,
             plans |-> {p \in linked' : EventOf[p] = e}])
    /\ UNCHANGED published

\* A planning is posted with some of its coverages, linked to its event or not yet.
PostPlanning(p, state, listed, link) ==
    /\ link \/ p \notin linked
    /\ listed \subseteq {c \in Coverages : PlanOf[c] = p}
    /\ linked' = IF link THEN linked \cup {p} ELSE linked
    /\ Post([type |-> "planning", guid |-> p, version |-> posted + 1, state |-> state,
             event |-> IF link THEN EventOf[p] ELSE None,
             coverages |-> [c \in Coverages |->
                 IF c \notin listed THEN "absent"
                 ELSE IF c \in published THEN "completed" ELSE "planned"]])
    /\ UNCHANGED published

\* The story of a coverage is published.
PostText(c) ==
    /\ c \notin published
    /\ published' = published \cup {c}
    /\ Post([type |-> "text", guid |-> c, version |-> posted + 1])
    /\ UNCHANGED linked

-----------------------------------------------------------------------------
(* The start and the end of a push *)

Goto(w, step) == pc' = [pc EXCEPT ![w] = step]

\* A message waits for the earlier ones of its guid.
IsNext(m) == \A n \in outstanding : n.guid = m.guid => n.version >= m.version

(***************************************************************************)
(* A message reaches worker w and gets the lock: nobody handles its guid,  *)
(* unless the lock has expired.  A message that failed is sent again.      *)
(***************************************************************************)
Receive(w, m) ==
    /\ pc[w] = "idle"
    /\ m \in outstanding
    /\ IsNext(m)
    /\ "expiry" \in Faults \/ \A v \in Workers : pc[v] # "idle" => msg[v].guid # m.guid
    /\ msg' = [msg EXCEPT ![w] = m]
    /\ Goto(w, IF m.type = "text" THEN "search" ELSE "original")
    /\ UNCHANGED <<superdeskVars, outstanding, agendaVars, orig, new, todo, target, hits, plan, histVars, faults>>

\* The request ends, and its variables with it.
End(w) ==
    /\ msg' = [msg EXCEPT ![w] = NoMessage]
    /\ orig' = [orig EXCEPT ![w] = Empty]
    /\ new' = [new EXCEPT ![w] = FALSE]
    /\ todo' = [todo EXCEPT ![w] = {}]
    /\ target' = [target EXCEPT ![w] = None]
    /\ hits' = [hits EXCEPT ![w] = NoHits]
    /\ plan' = [plan EXCEPT ![w] = Empty]
    /\ Goto(w, "idle")

\* ... with success.
Done(w) ==
    /\ outstanding' = outstanding \ {msg[w]}
    /\ End(w)

\* handle_publish_event and handle_publish_planning read the document first.
ReadOriginal(w) ==
    LET g == msg[w].guid IN
    /\ pc[w] = "original"
    /\ new' = [new EXCEPT ![w] = g \notin stored]
    /\ orig' = [orig EXCEPT ![w] = IF g \in stored THEN doc[g] ELSE Empty]
    /\ Goto(w, IF msg[w].type = "planning" THEN "own" ELSE IF g \in stored THEN "update" ELSE "collect")
    /\ UNCHANGED <<superdeskVars, outstanding, agendaVars, msg, todo, target, hits, plan, histVars, faults>>

\* get_coverages: those of the plannings that are not killed.
CoveragesOf(items) == [c \in Coverages |->
    IF items[PlanOf[c]].state = "killed" THEN "absent" ELSE items[PlanOf[c]].coverages[c]]

WithItems(d, items) == [d EXCEPT !.planning_items = items, !.coverages = CoveragesOf(items)]

\* convert_event_to_agenda_dict: the event's own data.
WithEvent(d, m) == [d EXCEPT !.event = m.version, !.versioncreated = m.version, !.event_id = m.guid]

-----------------------------------------------------------------------------
(* Events *)

\* Mutant: the plannings of a new event are not looked for.
CollectNothing(w) ==
    /\ pc[w] = "collect"
    /\ orig' = [orig EXCEPT ![w] = Empty]
    /\ todo' = [todo EXCEPT ![w] = {}]
    /\ Goto(w, "create")
    /\ UNCHANGED <<superdeskVars, outstanding, agendaVars, msg, new, target, hits, plan, histVars, faults>>

\* publish_event, a new event: the plannings it names are looked for.
CollectPlannings(w) ==
    LET found == msg[w].plans \cap stored
        items == [p \in Plans |-> IF p \in found THEN doc[p].planning_items[p] ELSE NoItem]
    IN
    /\ pc[w] = "collect"
    /\ orig' = [orig EXCEPT ![w] = WithItems(Empty, items)]
    /\ todo' = [todo EXCEPT ![w] = {p \in found : doc[p].event_id = None}]
    /\ Goto(w, "create")
    /\ UNCHANGED <<superdeskVars, outstanding, agendaVars, msg, new, target, hits, plan, histVars, faults>>

\* ... those without an event_id get it ...
LinkPlanning(w, p) ==
    /\ pc[w] = "create"
    /\ p \in todo[w]
    /\ doc' = [doc EXCEPT ![p].event_id = msg[w].guid]
    /\ todo' = [todo EXCEPT ![w] = @ \ {p}]
    /\ UNCHANGED <<superdeskVars, outstanding, stored, pc, msg, orig, new, target, hits, plan, histVars, faults>>

EventDone(w, shows) ==
    /\ newest' = [newest EXCEPT ![msg[w].guid] = msg[w].version]
    /\ due' = [due EXCEPT ![msg[w].guid] = shows]
    /\ Done(w)
    /\ UNCHANGED <<superdeskVars, latest, faults>>

\* ... and the event is created with them.
CreateEvent(w) ==
    LET m == msg[w] IN
    /\ pc[w] = "create"
    /\ todo[w] = {}
    /\ m.guid \notin stored
    /\ stored' = stored \cup {m.guid}
    /\ doc' = [doc EXCEPT ![m.guid] = WithEvent(orig[w], m)]
    /\ EventDone(w, due[m.guid] \cup
            {p \in m.plans : p \in stored /\ doc[p].planning_items[p].state = "scheduled"})

\* publish_event, an event that exists.  A cancellation keeps the dates ...
CancelEvent(w) ==
    LET m == msg[w] IN
    /\ pc[w] = "update"
    /\ m.state = "cancelled"
    /\ doc' = [doc EXCEPT
            ![m.guid].event = m.version,
            ![m.guid].planning_items = orig[w].planning_items,
            ![m.guid].coverages = orig[w].coverages]
    /\ EventDone(w, due[m.guid])
    /\ UNCHANGED stored

\* Mutant: planning_items and coverages are set to nothing at all.
PostponeToNone(w) ==
    LET m == msg[w] IN
    /\ pc[w] = "update"
    /\ m.state = "postponed"
    /\ doc' = [doc EXCEPT ![m.guid].event = m.version, ![m.guid].planning_items = None,
                           ![m.guid].coverages = None]
    /\ EventDone(w, {})
    /\ UNCHANGED stored

\* ... a new date drops the plannings and their coverages ...
PostponeEvent(w) ==
    LET m == msg[w] IN
    /\ pc[w] = "update"
    /\ m.state = "postponed"
    /\ doc' = [doc EXCEPT ![m.guid] = WithItems(WithEvent(@, m), Empty.planning_items)]
    /\ EventDone(w, {})
    /\ UNCHANGED stored

\* Mutant: an event is not posted again after a cancellation.
UpdateEventOnce(w) ==
    LET m == msg[w] IN
    /\ pc[w] = "update"
    /\ m.state = "scheduled"
    /\ doc' = IF orig[w].event = orig[w].versioncreated THEN
            [doc EXCEPT
            ![m.guid].event = m.version,
            ![m.guid].versioncreated = m.version,
            ![m.guid].planning_items = orig[w].planning_items,
            ![m.guid].coverages = orig[w].coverages] ELSE doc
    /\ EventDone(w, due[m.guid])
    /\ UNCHANGED stored

\* ... and any other change is made if it is newer than the document.  What the
\* document embeds is written back as it was read.
UpdateEvent(w) ==
    LET m == msg[w] IN
    /\ pc[w] = "update"
    /\ m.state = "scheduled"
    /\ \/ /\ m.version > orig[w].versioncreated
          /\ doc' = [doc EXCEPT ![m.guid] =
                [WithEvent(@, m) EXCEPT !.planning_items = orig[w].planning_items,
                                        !.coverages = orig[w].coverages]]
       \/ /\ m.version <= orig[w].versioncreated
          /\ UNCHANGED doc
    /\ EventDone(w, due[m.guid])
    /\ UNCHANGED stored

-----------------------------------------------------------------------------
(* Plannings *)

ItemOf(m) == [version |-> m.version, state |-> m.state, coverages |-> m.coverages]

\* Mutant: a planning has a document of its own only if it names no event.
PublishAdhocOnly(w) ==
    LET m == msg[w]
        d == WithItems(orig[w], [orig[w].planning_items EXCEPT ![m.guid] = ItemOf(m)])
    IN
    /\ pc[w] = "own"
    /\ new[w] => m.guid \notin stored
    /\ \/ /\ m.event = None
          /\ stored' = stored \cup {m.guid}
          /\ doc' = [doc EXCEPT ![m.guid] = d]
       \/ m.event # None /\ UNCHANGED <<stored, doc>>
    /\ Goto(w, "event")
    /\ UNCHANGED <<superdeskVars, outstanding, jobVars, histVars, faults>>

\* publish_planning_item: the planning's own document is created or replaced.
\* An event_id that it has been given since it was read stays.
PublishPlanningItem(w) ==
    LET m == msg[w]
        d == WithItems(orig[w], [orig[w].planning_items EXCEPT ![m.guid] = ItemOf(m)])
        eventId == IF m.event # None THEN m.event
                   ELSE IF d.event_id # None THEN d.event_id ELSE doc[m.guid].event_id
    IN
    /\ pc[w] = "own"
    /\ new[w] => m.guid \notin stored
    /\ stored' = stored \cup {m.guid}
    /\ doc' = [doc EXCEPT ![m.guid] = [d EXCEPT !.event_id = eventId]]
    /\ Goto(w, "event")
    /\ UNCHANGED <<superdeskVars, outstanding, jobVars, histVars, faults>>

\* publish_planning_into_event looks for the event ...
FindEvent(w) ==
    LET m == msg[w] IN
    /\ pc[w] = "event"
    /\ \/ /\ m.event \in stored
          /\ orig' = [orig EXCEPT ![w] = doc[m.event]]
          /\ Goto(w, "embed")
          /\ UNCHANGED todo
       \/ /\ m.event \notin stored
          /\ todo' = [todo EXCEPT ![w] = SecondaryOf[m.guid]]
          /\ Goto(w, "related")
          /\ UNCHANGED orig
    /\ UNCHANGED <<superdeskVars, outstanding, agendaVars, msg, new, target, hits, plan, histVars, faults>>

\* ... and writes its document back, with the planning or without.
PublishPlanningIntoEvent(w) ==
    LET m == msg[w]
        d == [orig[w] EXCEPT !.planning_ids = @ \cup {m.guid},
                             !.versioncreated = IF m.version > @ THEN m.version ELSE @]
        Put(item) == [orig[w].planning_items EXCEPT ![m.guid] = item]
    IN
    /\ pc[w] = "embed"
    /\ \/ m.state # "scheduled" /\ doc' = [doc EXCEPT ![m.event] = WithItems(orig[w], Put(NoItem))]
       \/ m.state = "scheduled" /\ doc' = [doc EXCEPT ![m.event] = WithItems(d, Put(ItemOf(m)))]
    /\ todo' = [todo EXCEPT ![w] = SecondaryOf[m.guid]]
    /\ Goto(w, "related")
    /\ UNCHANGED <<superdeskVars, outstanding, stored, msg, orig, new, target, hits, plan, histVars, faults>>

\* publish_planning_related_events: a secondary event is read ...
FindRelatedEvent(w, e) ==
    /\ pc[w] = "related"
    /\ e \in todo[w]
    /\ todo' = [todo EXCEPT ![w] = @ \ {e}]
    /\ target' = [target EXCEPT ![w] = e]
    /\ \/ /\ e \in stored
          /\ orig' = [orig EXCEPT ![w] = doc[e]]
          /\ Goto(w, "plan")
       \/ e \notin stored /\ UNCHANGED <<orig, pc>>
    /\ UNCHANGED <<superdeskVars, outstanding, agendaVars, msg, new, hits, plan, histVars, faults>>

\* ... then the planning ...
ReadPlanning(w) ==
    /\ pc[w] = "plan"
    /\ plan' = [plan EXCEPT ![w] = doc[msg[w].guid]]
    /\ Goto(w, "merge")
    /\ UNCHANGED <<superdeskVars, outstanding, agendaVars, msg, orig, new, todo, target, hits, histVars, faults>>

\* ... and its coverages are added to those the event had.
MergeCoverages(w) ==
    LET p == msg[w].guid
        merged == [c \in Coverages |->
            IF plan[w].coverages[c] = "absent" THEN orig[w].coverages[c] ELSE plan[w].coverages[c]]
        ids == IF p \in orig[w].planning_ids THEN doc[target[w]].planning_ids
               ELSE orig[w].planning_ids \cup {p}
    IN
    /\ pc[w] = "merge"
    /\ \/ /\ \A c \in Coverages : plan[w].coverages[c] = "absent"
          /\ doc' = [doc EXCEPT ![target[w]].planning_ids = ids]
       \/ /\ \E c \in Coverages : plan[w].coverages[c] # "absent"
          /\ doc' = [doc EXCEPT ![target[w]].planning_ids = ids, ![target[w]].coverages = merged]
    /\ Goto(w, "related")
    /\ UNCHANGED <<superdeskVars, outstanding, stored, jobVars, histVars, faults>>

PlanningDone(w) ==
    LET m == msg[w] IN
    /\ pc[w] = "related"
    /\ todo[w] = {}
    /\ latest' = [latest EXCEPT ![m.guid] = m.version]
    /\ due' = [e \in Events |->
            IF e # m.event THEN due[e]
            ELSE IF m.state = "scheduled" THEN due[e] \cup {m.guid} ELSE due[e] \ {m.guid}]
    /\ Done(w)
    /\ UNCHANGED <<superdeskVars, agendaVars, newest, faults>>

-----------------------------------------------------------------------------
(* Stories of coverages *)

\* set_delivery: the documents that show the coverage are searched for ...
FindCoverage(w) ==
    /\ pc[w] = "search"
    /\ todo' = [todo EXCEPT ![w] = {g \in stored : doc[g].coverages[msg[w].guid] # "absent"}]
    /\ hits' = [hits EXCEPT ![w] = doc]
    /\ Goto(w, "deliver")
    /\ UNCHANGED <<superdeskVars, outstanding, agendaVars, msg, orig, new, target, plan, histVars, faults>>

\* Mutant: only the list of coverages is written.
DeliverCoverage(w, g) ==
    LET c == msg[w].guid IN
    /\ pc[w] = "deliver"
    /\ g \in todo[w]
    /\ doc' = [doc EXCEPT ![g].coverages = [hits[w][g].coverages EXCEPT ![c] = "completed"]]
    /\ todo' = [todo EXCEPT ![w] = @ \ {g}]
    /\ UNCHANGED <<superdeskVars, outstanding, stored, pc, msg, orig, new, target, hits, plan, histVars, faults>>

\* ... and written back one after the other with the coverage completed, in the
\* list of coverages and in the planning it is part of, if that is embedded.
Deliver(w, g) ==
    LET c == msg[w].guid
        p == PlanOf[c]
        items == hits[w][g].planning_items
    IN
    /\ pc[w] = "deliver"
    /\ g \in todo[w]
    /\ \/ /\ items[p].coverages[c] # "absent"
          /\ doc' = [doc EXCEPT
                ![g].coverages = [hits[w][g].coverages EXCEPT ![c] = "completed"],
                ![g].planning_items = [items EXCEPT ![p].coverages[c] = "completed"]]
       \/ /\ items[p].coverages[c] = "absent"
          /\ doc' = [doc EXCEPT ![g].coverages = [hits[w][g].coverages EXCEPT ![c] = "completed"]]
    /\ todo' = [todo EXCEPT ![w] = @ \ {g}]
    /\ UNCHANGED <<superdeskVars, outstanding, stored, pc, msg, orig, new, target, hits, plan, histVars, faults>>

\* The rest of the push is WireChain's.
TextDone(w) ==
    /\ pc[w] = "deliver"
    /\ todo[w] = {}
    /\ Done(w)
    /\ UNCHANGED <<superdeskVars, agendaVars, histVars, faults>>

-----------------------------------------------------------------------------
(* Faults *)

\* Another worker, its lock expired, has created the document meanwhile.
Conflict(w) ==
    /\ \/ pc[w] = "create" /\ todo[w] = {}
       \/ pc[w] = "own" /\ new[w]
    /\ msg[w].guid \in stored
    /\ End(w)
    /\ UNCHANGED <<superdeskVars, outstanding, agendaVars, histVars, faults>>

\* A call raises, or the process dies: the message is sent again.
Fail(w) ==
    /\ "error" \in Faults
    /\ faults < MaxFaults
    /\ pc[w] # "idle"
    /\ faults' = faults + 1
    /\ End(w)
    /\ UNCHANGED <<superdeskVars, outstanding, agendaVars, histVars>>

\* What set_delivery raises is logged, and the push of the story goes on.
FailDelivery(w) ==
    /\ "error" \in Faults
    /\ faults < MaxFaults
    /\ pc[w] \in {"search", "deliver"}
    /\ faults' = faults + 1
    /\ Done(w)
    /\ UNCHANGED <<superdeskVars, agendaVars, histVars>>

-----------------------------------------------------------------------------

Superdesk ==
    \/ \E e \in Events, state \in EventStates, others \in SUBSET Plans : PostEvent(e, state, others)
    \/ \E p \in Plans, state \in PlanStates, listed \in SUBSET Coverages, link \in BOOLEAN :
            PostPlanning(p, state, listed, link)
    \/ \E c \in Coverages : PostText(c)

EventStep(w) ==
    \/ CollectPlannings(w)
    \/ \E p \in Plans : LinkPlanning(w, p)
    \/ CreateEvent(w)
    \/ CancelEvent(w)
    \/ PostponeEvent(w)
    \/ UpdateEvent(w)

PlanningStep(w) ==
    \/ PublishPlanningItem(w)
    \/ FindEvent(w)
    \/ PublishPlanningIntoEvent(w)
    \/ \E e \in Events : FindRelatedEvent(w, e)
    \/ ReadPlanning(w)
    \/ MergeCoverages(w)
    \/ PlanningDone(w)

TextStep(w) ==
    \/ FindCoverage(w)
    \/ \E g \in Guids : Deliver(w, g)
    \/ TextDone(w)

Next ==
    \/ Superdesk
    \/ \E w \in Workers :
        \/ \E m \in outstanding : Receive(w, m)
        \/ ReadOriginal(w)
        \/ EventStep(w)
        \/ PlanningStep(w)
        \/ TextStep(w)
        \/ Conflict(w)
        \/ Fail(w)
        \/ FailDelivery(w)

Spec == Init /\ [][Next]_vars
-----------------------------------------------------------------------------
(* Properties *)

Steps == {"idle", "original", "collect", "create", "update", "own", "event", "embed",
          "related", "plan", "merge", "search", "deliver"}

\* A step has what it works on.
InputsOK ==
    \A w \in Workers :
        /\ pc[w] = "original" => msg[w].type \in {"event", "planning"}
        /\ pc[w] \in {"collect", "create", "update"} => msg[w].type = "event"
        /\ pc[w] \in {"own", "event", "embed", "related", "plan", "merge"} => msg[w].type = "planning"
        /\ pc[w] = "embed" => msg[w].event \in Events
        /\ pc[w] \in {"plan", "merge"} => target[w] \in Events
        /\ pc[w] \in {"search", "deliver"} => msg[w].type = "text"
        /\ pc[w] = "create" => todo[w] \subseteq Plans

FeedOK ==
    /\ posted \in Nat
    /\ outstanding \subseteq Message
    /\ linked \subseteq Plans
    /\ published \subseteq Coverages

AgendaOK ==
    /\ stored \subseteq Guids
    /\ doc \in [Guids -> Document]

RequestsOK ==
    /\ pc \in [Workers -> Steps]
    /\ msg \in [Workers -> Message \cup {NoMessage}]
    /\ orig \in [Workers -> Document]
    /\ new \in [Workers -> BOOLEAN]
    /\ todo \in [Workers -> SUBSET Guids]
    /\ target \in [Workers -> Events \cup {None}]
    /\ hits \in [Workers -> [Guids -> Document]]
    /\ plan \in [Workers -> Document]

HistoryOK ==
    /\ latest \in [Plans -> Nat]
    /\ newest \in [Events -> Nat]
    /\ due \in [Events -> SUBSET Plans]
    /\ faults \in Nat

\* Every variable holds a value of its kind, and every step has its inputs.
TypeOK == FeedOK /\ AgendaOK /\ RequestsOK /\ InputsOK /\ HistoryOK

\* Superdesk's messages have all been handled.
Quiet == outstanding = {} /\ \A w \in Workers : pc[w] = "idle"

(***************************************************************************)
(* When the messages are handled one by one, in the order of posting, and  *)
(* repeated when they fail, an event embeds every planning that is linked  *)
(* to it and not cancelled, whichever of the two came first, each in its   *)
(* newest version; and the plannings it embeds know their event.           *)
(***************************************************************************)
EventComplete ==
    Quiet => \A e \in Events \cap stored : \A p \in Plans :
        LET item == doc[e].planning_items[p] IN
        /\ p \in due[e] => item # NoItem
        /\ item # NoItem => item.version = latest[p] /\ doc[p].event_id = e

\* In that case an event shows its own newest version as well, although a
\* planning may have raised the versioncreated the update is compared with.
EventCurrent ==
    Quiet => \A e \in Events \cap stored : doc[e].event = newest[e]

\* Whatever races, fails or expires, the coverages a document shows are those of
\* the plannings it embeds, in the same status, as long as no planning has a
\* secondary event (whose list of coverages also has those of such plannings).
CoveragesFollowPlans ==
    \A g \in stored : doc[g].coverages = CoveragesOf(doc[g].planning_items)

\* Whatever races, fails or expires, a planning that an event embeds can be
\* opened: it has a document of its own.
PlanningsOpen ==
    \A e \in Events \cap stored : \A p \in Plans :
        doc[e].planning_items[p] # NoItem => p \in stored
-----------------------------------------------------------------------------
(* One message at a time *)

(***************************************************************************)
(* What makes EventCurrent and EventComplete inductive when the messages   *)
(* are handled one by one and no lock expires.  At most one message is     *)
(* outstanding and at most one request handles it.                         *)
(***************************************************************************)
OneInv ==
    /\ IsFiniteSet(outstanding)
    /\ \A m, n \in outstanding : m = n
    /\ \A w \in Workers : pc[w] # "idle" => msg[w] \in outstanding
    /\ \A v, w \in Workers : pc[v] # "idle" /\ pc[w] # "idle" => v = w

\* The message is the last one posted and says what Superdesk knows.
MessageInv ==
    \A m \in outstanding :
        /\ m.version = posted /\ posted > 0
        /\ m.type = "event" => m.plans = {p \in linked : EventOf[p] = m.guid}
        /\ m.type = "planning" => m.event = IF m.guid \in linked THEN EventOf[m.guid] ELSE None

\* Document g's entry for planning p.
Shown(g, p) == doc[g].planning_items[p]

\* What a request has read is as it was read when it writes.
ReadInv(w) ==
    LET m == msg[w] IN
    /\ pc[w] = "update" => m.guid \in stored /\ orig[w] = doc[m.guid]
    /\ pc[w] = "own" => orig[w] = IF m.guid \in stored THEN doc[m.guid] ELSE Empty
    /\ pc[w] = "create" =>
          /\ orig[w].planning_items = [p \in Plans |-> IF p \in m.plans \cap stored THEN Shown(p, p) ELSE NoItem]
          /\ todo[w] = {p \in m.plans \cap stored : doc[p].event_id = None}
    /\ pc[w] = "embed" => m.event \in stored /\ orig[w] = doc[m.event]
    /\ pc[w] = "deliver" => \A g \in todo[w] : hits[w][g] = doc[g]

\* What a request has written of its planning is there until it ends.
WrittenInv(w) ==
    LET m == msg[w] IN
    /\ pc[w] \in {"event", "embed", "related", "plan", "merge"} =>
          /\ m.guid \in stored
          /\ Shown(m.guid, m.guid) = ItemOf(m)
          /\ m.event # None => doc[m.guid].event_id = m.event
    /\ pc[w] \in {"related", "plan", "merge"} /\ m.event \in stored =>
          Shown(m.event, m.guid) = IF m.state = "scheduled" THEN ItemOf(m) ELSE NoItem

\* An event shows its newest version, and no message of an event comes too late.
CurrentInv ==
    /\ \A e \in Events : e \in stored => doc[e].event = newest[e]
    /\ \A e \in Events : doc[e].versioncreated <= posted
    /\ \A m \in outstanding : m.type = "event" => \A e \in Events : doc[e].versioncreated < m.version

\* No message of the planning waits or is being handled.
Settled(p) == \A m \in outstanding : m.type = "planning" => m.guid # p

\* Plannings know their event, and are in their newest version.
PlanInv ==
    \A p \in Plans :
        /\ doc[p].event_id \in {None, EventOf[p]}
        /\ p \in stored => Shown(p, p) # NoItem /\ (Settled(p) => Shown(p, p).version = latest[p])

\* What an event has to show and what it shows are plannings linked to it.
EventInv ==
    \A e \in Events, p \in Plans :
        /\ p \in due[e] => p \in linked \cap stored /\ EventOf[p] = e
        /\ e \in stored /\ p \in due[e] /\ Settled(p) => Shown(e, p) # NoItem
        /\ e \in stored /\ Shown(e, p) # NoItem =>
              /\ p \in linked \cap stored /\ EventOf[p] = e /\ doc[p].event_id = e
              /\ Settled(p) => Shown(e, p).version = latest[p]

OneByOneInv ==
    /\ OneInv /\ MessageInv
    /\ \A w \in Workers : ReadInv(w) /\ WrittenInv(w)
    /\ CurrentInv /\ PlanInv /\ EventInv
=============================================================================
