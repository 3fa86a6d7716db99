-------------------------- MODULE AgendaPushProofs --------------------------
(***************************************************************************)
(* Theorems of AgendaPush, for every set of events, plannings, coverages   *)
(* and links between them, every number of workers and every fault.        *)
(***************************************************************************)
EXTENDS AgendaPush, FiniteSetTheorems, TLAPS

USE DEF Guids

\* The documents an operation starts from are documents.
LEMMA EmptyType == Empty \in Document /\ NoItem \in PlanningItem /\ NoHits \in [Guids -> Document]
  BY AgendaAssumption DEF Empty, NoItem, NoHits, Document, PlanningItem, Status

\* A document with other plannings and their coverages is one.
LEMMA WithItemsType ==
    ASSUME NEW d \in Document, NEW items \in [Plans -> PlanningItem]
    PROVE  WithItems(d, items) \in Document
<1>1. CoveragesOf(items) \in [Coverages -> Status]
  BY AgendaAssumption DEF CoveragesOf, PlanningItem, Status
<1> QED
  BY <1>1 DEF WithItems, Document

\* What a planning message becomes in planning_items.
LEMMA ItemType ==
    ASSUME NEW m \in Message, m.type = "planning"
    PROVE  ItemOf(m) \in PlanningItem /\ m.guid \in Plans /\ m.event \in Events \cup {None}
  BY DEF ItemOf, PlanningItem, Message

\* What an event message carries.
LEMMA EventMessage ==
    ASSUME NEW m \in Message, m.type = "event"
    PROVE  m.guid \in Events /\ m.version \in Nat /\ m.plans \subseteq Plans
  BY DEF Message

\* The fields of a document have their types.
LEMMA DocumentFields ==
    ASSUME NEW d \in Document
    PROVE  /\ d.event \in Nat
           /\ d.versioncreated \in Nat
           /\ d.event_id \in Events \cup {None}
           /\ d.planning_items \in [Plans -> PlanningItem]
           /\ d.planning_ids \subseteq Plans
           /\ d.coverages \in [Coverages -> Status]
  BY DEF Document

\* A document with other data of its event, or another event_id.
LEMMA EditsType ==
    ASSUME NEW d \in Document
    PROVE  /\ \A m \in Message : m.type = "event" => WithEvent(d, m) \in Document
           /\ \A k \in Events \cup {None} : [d EXCEPT !.event_id = k] \in Document
<1>1. ASSUME NEW m \in Message, m.type = "event" PROVE WithEvent(d, m) \in Document
  BY <1>1, EventMessage DEF WithEvent, Document
<1> QED
  BY <1>1 DEF Document

\* A document that embeds what another one does.
LEMMA EmbedType ==
    ASSUME NEW d \in Document, NEW o \in Document, NEW n \in Nat
    PROVE  /\ [d EXCEPT !.planning_items = o.planning_items, !.coverages = o.coverages] \in Document
           /\ [d EXCEPT !.event = n, !.planning_items = o.planning_items,
                        !.coverages = o.coverages] \in Document
  BY DEF Document

\* A request that ends leaves well-typed variables.
LEMMA EndType ==
    ASSUME RequestsOK, InputsOK, NEW w \in Workers, End(w)
    PROVE  RequestsOK' /\ InputsOK'
<1>1. RequestsOK'
  BY EmptyType DEF End, Goto, RequestsOK, Steps
<1>2. /\ pc'[w] = "idle"
      /\ \A v \in Workers \ {w} :
            pc'[v] = pc[v] /\ msg'[v] = msg[v] /\ target'[v] = target[v] /\ todo'[v] = todo[v]
  BY DEF End, Goto, RequestsOK
<1> QED
  BY <1>1, <1>2 DEF InputsOK

\* Another document in the place of one.
LEMMA ReplaceType ==
    ASSUME AgendaOK, NEW g \in Guids, NEW d \in Document, doc' = [doc EXCEPT ![g] = d],
           stored' \subseteq Guids
    PROVE  AgendaOK'
  BY DEF AgendaOK

\* Every reachable state is well typed, whatever races and fails.
THEOREM TypeCorrect == Spec => []TypeOK
<1>1. Init => TypeOK
  BY EmptyType, ParametersAssumption DEF Init, TypeOK, FeedOK, AgendaOK, RequestsOK, InputsOK, HistoryOK, Steps
<1>2. TypeOK /\ [Next]_vars => TypeOK'
  <2> SUFFICES ASSUME TypeOK, [Next]_vars PROVE TypeOK'
    OBVIOUS
  <2>0. FeedOK /\ AgendaOK /\ RequestsOK /\ InputsOK /\ HistoryOK
    BY DEF TypeOK
  <2> USE DEF superdeskVars, agendaVars, jobVars, histVars, Goto
  <2>1. ASSUME NEW e \in Events, NEW state \in EventStates, NEW others \in SUBSET Plans,
               PostEvent(e, state, others)
        PROVE TypeOK'
    <3>1. AgendaOK'
      BY <2>1, <2>0 DEF PostEvent, Post, AgendaOK
    <3>2. RequestsOK'
      BY <2>1, <2>0 DEF PostEvent, Post, RequestsOK
    <3>3. InputsOK'
      BY <2>1, <2>0 DEF PostEvent, Post, InputsOK
    <3>4. FeedOK' /\ HistoryOK'
      BY <2>1, <2>0 DEF PostEvent, Post, Message, FeedOK, HistoryOK
    <3> QED
      BY <3>1, <3>2, <3>3, <3>4 DEF TypeOK
  <2>2. ASSUME NEW p \in Plans, NEW state \in PlanStates, NEW listed \in SUBSET Coverages, NEW link \in BOOLEAN,
               PostPlanning(p, state, listed, link)
        PROVE TypeOK'
    <3>1. AgendaOK'
      BY <2>2, <2>0 DEF PostPlanning, Post, AgendaOK
    <3>2. RequestsOK'
      BY <2>2, <2>0 DEF PostPlanning, Post, RequestsOK
    <3>3. InputsOK'
      BY <2>2, <2>0 DEF PostPlanning, Post, InputsOK
    <3>4. FeedOK' /\ HistoryOK'
      <4>1. [c \in Coverages |-> IF c \notin listed THEN "absent"
                ELSE IF c \in published THEN "completed" ELSE "planned"] \in [Coverages -> Status]
        BY DEF Status
      <4>2. (IF link THEN EventOf[p] ELSE None) \in Events \cup {None}
        BY AgendaAssumption
      <4> QED
        BY <2>2, <2>0, <4>1, <4>2 DEF PostPlanning, Post, Message, FeedOK, HistoryOK
    <3> QED
      BY <3>1, <3>2, <3>3, <3>4 DEF TypeOK
  <2>3. ASSUME NEW c \in Coverages, PostText(c) PROVE TypeOK'
    <3>1. AgendaOK'
      BY <2>3, <2>0 DEF PostText, Post, AgendaOK
    <3>2. RequestsOK'
      BY <2>3, <2>0 DEF PostText, Post, RequestsOK
    <3>3. InputsOK'
      BY <2>3, <2>0 DEF PostText, Post, InputsOK
    <3>4. FeedOK' /\ HistoryOK'
      BY <2>3, <2>0 DEF PostText, Post, Message, FeedOK, HistoryOK
    <3> QED
      BY <3>1, <3>2, <3>3, <3>4 DEF TypeOK
  <2>4. ASSUME NEW w \in Workers, NEW m \in outstanding, Receive(w, m) PROVE TypeOK'
    <3>1. AgendaOK'
      BY <2>4, <2>0 DEF Receive, AgendaOK
    <3>2. RequestsOK'
      BY <2>4, <2>0 DEF Receive, RequestsOK, Steps, FeedOK
    <3>3. InputsOK'
      <4>1. m.type \in {"event", "planning", "text"}
        BY <2>0 DEF FeedOK, Message
      <4>2. \A v \in Workers \ {w} :
              pc'[v] = pc[v] /\ msg'[v] = msg[v] /\ target'[v] = target[v] /\ todo'[v] = todo[v]
        BY <2>4, <2>0 DEF Receive, RequestsOK
      <4>3. msg'[w] = m /\ pc'[w] = IF m.type = "text" THEN "search" ELSE "original"
        BY <2>4, <2>0 DEF Receive, RequestsOK
      <4> QED
        BY <2>0, <4>1, <4>2, <4>3 DEF InputsOK
    <3>4. FeedOK' /\ HistoryOK'
      BY <2>4, <2>0 DEF Receive, FeedOK, HistoryOK
    <3> QED
      BY <3>1, <3>2, <3>3, <3>4 DEF TypeOK
  <2>5. ASSUME NEW w \in Workers, ReadOriginal(w) PROVE TypeOK'
    <3>1. AgendaOK'
      BY <2>5, <2>0 DEF ReadOriginal, AgendaOK
    <3>2. RequestsOK'
      BY <2>5, <2>0, EmptyType DEF ReadOriginal, RequestsOK, AgendaOK, InputsOK, Message, Steps
    <3>3. InputsOK'
      BY <2>5, <2>0 DEF ReadOriginal, InputsOK, RequestsOK
    <3>4. FeedOK' /\ HistoryOK'
      BY <2>5, <2>0 DEF ReadOriginal, FeedOK, HistoryOK
    <3> QED
      BY <3>1, <3>2, <3>3, <3>4 DEF TypeOK
  <2>6. ASSUME NEW w \in Workers, CollectPlannings(w) PROVE TypeOK'
    <3> DEFINE found == msg[w].plans \cap stored
               items == [p \in Plans |-> IF p \in found THEN doc[p].planning_items[p] ELSE NoItem]
    <3>a. msg[w] \in Message /\ msg[w].type = "event" /\ found \subseteq Plans
      BY <2>6, <2>0, EventMessage DEF CollectPlannings, RequestsOK, InputsOK, NoMessage
    <3>b. WithItems(Empty, items) \in Document
      <4>1. \A p \in Plans : doc[p].planning_items \in [Plans -> PlanningItem]
        BY <2>0, DocumentFields DEF AgendaOK
      <4>2. items \in [Plans -> PlanningItem]
        BY <4>1, EmptyType
      <4> QED
        BY <4>2, WithItemsType, EmptyType
    <3>1. AgendaOK'
      BY <2>6, <2>0 DEF CollectPlannings, AgendaOK
    <3>2. RequestsOK'
      BY <2>6, <3>a, <3>b, <2>0 DEF CollectPlannings, RequestsOK, Steps
    <3>3. InputsOK'
      BY <2>6, <3>a, <3>b, <2>0 DEF CollectPlannings, RequestsOK, InputsOK
    <3>4. FeedOK' /\ HistoryOK'
      BY <2>6, <2>0 DEF CollectPlannings, FeedOK, HistoryOK
    <3> QED
      BY <3>1, <3>2, <3>3, <3>4 DEF TypeOK
  <2>7. ASSUME NEW w \in Workers, NEW p \in Plans, LinkPlanning(w, p) PROVE TypeOK'
    <3>a. msg[w] \in Message /\ msg[w].type = "event"
      BY <2>7, <2>0 DEF LinkPlanning, RequestsOK, InputsOK, NoMessage
    <3>b. msg[w].guid \in Events /\ msg[w].version \in Nat /\ msg[w].plans \subseteq Plans
      BY <3>a, EventMessage
    <3>1. AgendaOK'
      <4>1. p \in Guids /\ doc[p] \in Document /\ stored' \subseteq Guids
        BY <2>7, <2>0 DEF LinkPlanning, AgendaOK
      <4>2. [doc[p] EXCEPT !.event_id = msg[w].guid] \in Document
        BY <4>1, <3>b, EditsType
      <4>3. doc' = [doc EXCEPT ![p] = [doc[p] EXCEPT !.event_id = msg[w].guid]]
        BY <2>7, <2>0, <4>1 DEF LinkPlanning, AgendaOK
      <4> QED
        BY <2>0, <4>1, <4>2, <4>3, ReplaceType
    <3>2. RequestsOK'
      BY <2>7, <2>0 DEF LinkPlanning, RequestsOK, Steps
    <3>3. InputsOK'
      BY <2>7, <2>0 DEF LinkPlanning, InputsOK, RequestsOK
    <3>4. FeedOK' /\ HistoryOK'
      BY <2>7, <2>0 DEF LinkPlanning, FeedOK, HistoryOK
    <3> QED
      BY <3>1, <3>2, <3>3, <3>4 DEF TypeOK
  <2>8. ASSUME NEW w \in Workers, CreateEvent(w) PROVE TypeOK'
    <3>a. msg[w] \in Message /\ msg[w].type = "event"
      BY <2>8, <2>0 DEF CreateEvent, RequestsOK, InputsOK, NoMessage
    <3>b. msg[w].guid \in Events /\ msg[w].version \in Nat /\ msg[w].plans \subseteq Plans
      BY <3>a, EventMessage
    <3>1. AgendaOK'
      <4> DEFINE d == WithEvent(orig[w], msg[w])
      <4>1. /\ msg[w].guid \in Guids /\ orig[w] \in Document
            /\ doc[msg[w].guid] \in Document /\ stored' \subseteq Guids
        BY <2>8, <2>0, <3>b DEF CreateEvent, AgendaOK, RequestsOK
      <4>2. d \in Document
        BY <4>1, <3>a, EditsType
      <4>3. doc' = [doc EXCEPT ![msg[w].guid] = d]
        BY <2>8 DEF CreateEvent
      <4> HIDE DEF d
      <4> QED
        BY <2>0, <4>1, <4>2, <4>3, ReplaceType
    <3>2. RequestsOK'
      BY <2>8, <2>0, EndType DEF CreateEvent, EventDone, Done
    <3>3. InputsOK'
      BY <2>8, <2>0, EndType DEF CreateEvent, EventDone, Done
    <3>4. FeedOK' /\ HistoryOK'
      BY <2>8, <2>0, <3>b DEF CreateEvent, EventDone, Done, FeedOK, HistoryOK
    <3> QED
      BY <3>1, <3>2, <3>3, <3>4 DEF TypeOK
  <2>9. ASSUME NEW w \in Workers, CancelEvent(w) PROVE TypeOK'
    <3>a. msg[w] \in Message /\ msg[w].type = "event"
      BY <2>9, <2>0 DEF CancelEvent, RequestsOK, InputsOK, NoMessage
    <3>b. msg[w].guid \in Events /\ msg[w].version \in Nat /\ msg[w].plans \subseteq Plans
      BY <3>a, EventMessage
    <3>1. AgendaOK'
      <4> DEFINE d == [doc[msg[w].guid] EXCEPT !.event = msg[w].version,
                          !.planning_items = orig[w].planning_items, !.coverages = orig[w].coverages]
      <4>1. /\ msg[w].guid \in Guids /\ orig[w] \in Document
            /\ doc[msg[w].guid] \in Document /\ stored' \subseteq Guids
        BY <2>9, <2>0, <3>b DEF CancelEvent, AgendaOK, RequestsOK
      <4>2. d \in Document
        BY <4>1, <3>b, EmbedType
      <4>3. doc' = [doc EXCEPT ![msg[w].guid] = d]
        BY <2>9, <2>0, <4>1 DEF CancelEvent, AgendaOK
      <4> HIDE DEF d
      <4> QED
        BY <2>0, <4>1, <4>2, <4>3, ReplaceType
    <3>2. RequestsOK'
      BY <2>9, <2>0, EndType DEF CancelEvent, EventDone, Done
    <3>3. InputsOK'
      BY <2>9, <2>0, EndType DEF CancelEvent, EventDone, Done
    <3>4. FeedOK' /\ HistoryOK'
      BY <2>9, <2>0, <3>b DEF CancelEvent, EventDone, Done, FeedOK, HistoryOK
    <3> QED
      BY <3>1, <3>2, <3>3, <3>4 DEF TypeOK
  <2>10. ASSUME NEW w \in Workers, PostponeEvent(w) PROVE TypeOK'
    <3>a. msg[w] \in Message /\ msg[w].type = "event"
      BY <2>10, <2>0 DEF PostponeEvent, RequestsOK, InputsOK, NoMessage
    <3>b. msg[w].guid \in Events /\ msg[w].version \in Nat /\ msg[w].plans \subseteq Plans
      BY <3>a, EventMessage
    <3>1. AgendaOK'
      <4> DEFINE x == WithEvent(doc[msg[w].guid], msg[w])
                 d == WithItems(x, Empty.planning_items)
      <4>1. /\ msg[w].guid \in Guids /\ orig[w] \in Document
            /\ doc[msg[w].guid] \in Document /\ stored' \subseteq Guids
        BY <2>10, <2>0, <3>b DEF PostponeEvent, AgendaOK, RequestsOK
      <4>a. x \in Document
        BY <4>1, <3>a, EditsType
      <4>b. Empty.planning_items \in [Plans -> PlanningItem]
        BY EmptyType, DocumentFields
      <4>2. d \in Document
        BY <4>a, <4>b, WithItemsType
      <4>3. doc' = [doc EXCEPT ![msg[w].guid] = d]
        BY <2>10 DEF PostponeEvent
      <4> HIDE DEF d
      <4> QED
        BY <2>0, <4>1, <4>2, <4>3, ReplaceType
    <3>2. RequestsOK'
      BY <2>10, <2>0, EndType DEF PostponeEvent, EventDone, Done
    <3>3. InputsOK'
      BY <2>10, <2>0, EndType DEF PostponeEvent, EventDone, Done
    <3>4. FeedOK' /\ HistoryOK'
      BY <2>10, <2>0, <3>b DEF PostponeEvent, EventDone, Done, FeedOK, HistoryOK
    <3> QED
      BY <3>1, <3>2, <3>3, <3>4 DEF TypeOK
  <2>11. ASSUME NEW w \in Workers, UpdateEvent(w) PROVE TypeOK'
    <3>a. msg[w] \in Message /\ msg[w].type = "event"
      BY <2>11, <2>0 DEF UpdateEvent, RequestsOK, InputsOK, NoMessage
    <3>b. msg[w].guid \in Events /\ msg[w].version \in Nat /\ msg[w].plans \subseteq Plans
      BY <3>a, EventMessage
    <3>1. AgendaOK'
      <4> DEFINE d == [WithEvent(doc[msg[w].guid], msg[w]) EXCEPT
                          !.planning_items = orig[w].planning_items, !.coverages = orig[w].coverages]
      <4>1. /\ msg[w].guid \in Guids /\ orig[w] \in Document
            /\ doc[msg[w].guid] \in Document /\ stored' \subseteq Guids
        BY <2>11, <2>0, <3>b DEF UpdateEvent, AgendaOK, RequestsOK
      <4>2. d \in Document
        BY <4>1, <3>a, EditsType, EmbedType
      <4>3. CASE msg[w].version > orig[w].versioncreated
        <5>1. msg[w].version \in Nat /\ orig[w].versioncreated \in Nat
          BY <4>1, <3>b, DocumentFields
        <5>2. ~(msg[w].version <= orig[w].versioncreated)
          BY <4>3, <5>1
        <5>3. doc' = [doc EXCEPT ![msg[w].guid] = d]
          BY <2>11, <2>0, <4>1, <5>2 DEF UpdateEvent, AgendaOK
        <5> HIDE DEF d
        <5> QED
          BY <2>0, <4>1, <4>2, <5>3, ReplaceType
      <4>4. CASE ~(msg[w].version > orig[w].versioncreated)
        BY <4>4, <2>11, <2>0 DEF UpdateEvent, AgendaOK
      <4> QED
        BY <4>3, <4>4
    <3>2. RequestsOK'
      BY <2>11, <2>0, EndType DEF UpdateEvent, EventDone, Done
    <3>3. InputsOK'
      BY <2>11, <2>0, EndType DEF UpdateEvent, EventDone, Done
    <3>4. FeedOK' /\ HistoryOK'
      BY <2>11, <2>0, <3>b DEF UpdateEvent, EventDone, Done, FeedOK, HistoryOK
    <3> QED
      BY <3>1, <3>2, <3>3, <3>4 DEF TypeOK
  <2>12. ASSUME NEW w \in Workers, PublishPlanningItem(w) PROVE TypeOK'
    <3>a. msg[w] \in Message /\ msg[w].type = "planning"
      BY <2>12, <2>0 DEF PublishPlanningItem, RequestsOK, InputsOK, NoMessage
    <3>b. ItemOf(msg[w]) \in PlanningItem /\ msg[w].guid \in Plans /\ msg[w].event \in Events \cup {None}
      BY <3>a, ItemType
    <3>1. AgendaOK'
      <4> DEFINE items == [orig[w].planning_items EXCEPT ![msg[w].guid] = ItemOf(msg[w])]
                 d == WithItems(orig[w], items)
                 eventId == IF msg[w].event # None THEN msg[w].event
                            ELSE IF d.event_id # None THEN d.event_id ELSE doc[msg[w].guid].event_id
      <4>1. orig[w] \in Document /\ orig[w].planning_items \in [Plans -> PlanningItem]
        BY <2>0, DocumentFields DEF RequestsOK
      <4>2. items \in [Plans -> PlanningItem]
        BY <4>1, <3>b
      <4>3. d \in Document
        BY <4>1, <4>2, WithItemsType
      <4>4. doc[msg[w].guid] \in Document
        BY <2>0, <3>b DEF AgendaOK
      <4>5. eventId \in Events \cup {None}
        BY <3>b, <4>3, <4>4, DocumentFields
      <4> HIDE DEF d, eventId
      <4>6. [d EXCEPT !.event_id = eventId] \in Document
        BY <4>3, <4>5, EditsType
      <4>7. doc' = [doc EXCEPT ![msg[w].guid] = [d EXCEPT !.event_id = eventId]]
        BY <2>12 DEF PublishPlanningItem, d, eventId, items
      <4>8. msg[w].guid \in Guids /\ stored' \subseteq Guids
        BY <2>12, <2>0, <3>b DEF PublishPlanningItem, AgendaOK
      <4> QED
        BY <2>0, <4>6, <4>7, <4>8, ReplaceType
    <3>2. RequestsOK'
      BY <2>12, <2>0 DEF PublishPlanningItem, RequestsOK, Steps
    <3>3. InputsOK'
      BY <2>12, <2>0 DEF PublishPlanningItem, InputsOK, RequestsOK
    <3>4. FeedOK' /\ HistoryOK'
      BY <2>12, <2>0 DEF PublishPlanningItem, FeedOK, HistoryOK
    <3> QED
      BY <3>1, <3>2, <3>3, <3>4 DEF TypeOK
  <2>13. ASSUME NEW w \in Workers, FindEvent(w) PROVE TypeOK'
    <3>a. msg[w] \in Message /\ msg[w].type = "planning"
      BY <2>13, <2>0 DEF FindEvent, RequestsOK, InputsOK, NoMessage
    <3>b. ItemOf(msg[w]) \in PlanningItem /\ msg[w].guid \in Plans /\ msg[w].event \in Events \cup {None}
      BY <3>a, ItemType
    <3>1. AgendaOK'
      BY <2>13, <2>0 DEF FindEvent, AgendaOK
    <3>2. RequestsOK'
      <4>1. /\ SecondaryOf[msg[w].guid] \in SUBSET Guids
            /\ msg[w].event \in stored => doc[msg[w].event] \in Document
        BY <2>0, <3>b, AgendaAssumption DEF AgendaOK
      <4>2. UNCHANGED <<msg, new, target, hits, plan>>
        BY <2>13 DEF FindEvent
      <4>3. pc' \in [Workers -> Steps]
        BY <2>13, <2>0 DEF FindEvent, RequestsOK, Steps
      <4>4. orig' \in [Workers -> Document] /\ todo' \in [Workers -> SUBSET Guids]
        BY <2>13, <2>0, <4>1 DEF FindEvent, RequestsOK
      <4> QED
        BY <2>0, <4>2, <4>3, <4>4 DEF RequestsOK
    <3>3. InputsOK'
      <4>1. msg[w].event \in stored => msg[w].event \in Events
        BY <2>0, <3>b, AgendaAssumption DEF AgendaOK
      <4> QED
        BY <2>13, <2>0, <3>a, <4>1 DEF FindEvent, InputsOK, RequestsOK
    <3>4. FeedOK' /\ HistoryOK'
      BY <2>13, <2>0 DEF FindEvent, FeedOK, HistoryOK
    <3> QED
      BY <3>1, <3>2, <3>3, <3>4 DEF TypeOK
  <2>14. ASSUME NEW w \in Workers, PublishPlanningIntoEvent(w) PROVE TypeOK'
    <3>a. msg[w] \in Message /\ msg[w].type = "planning"
      BY <2>14, <2>0 DEF PublishPlanningIntoEvent, RequestsOK, InputsOK, NoMessage
    <3>b. ItemOf(msg[w]) \in PlanningItem /\ msg[w].guid \in Plans /\ msg[w].event \in Events \cup {None}
      BY <3>a, ItemType
    <3>1. AgendaOK'
      <4> DEFINE e == msg[w].event
                 d == [orig[w] EXCEPT !.planning_ids = @ \cup {msg[w].guid},
                         !.versioncreated = IF msg[w].version > @ THEN msg[w].version ELSE @]
                 Put(item) == [orig[w].planning_items EXCEPT ![msg[w].guid] = item]
      <4>1. orig[w] \in Document /\ orig[w].planning_items \in [Plans -> PlanningItem]
        BY <2>0, DocumentFields DEF RequestsOK
      <4>2. Put(NoItem) \in [Plans -> PlanningItem] /\ Put(ItemOf(msg[w])) \in [Plans -> PlanningItem]
        BY <4>1, <3>b, EmptyType
      <4>3. d \in Document
        BY <4>1, <3>a, <3>b DEF Document, Message
      <4>4. WithItems(orig[w], Put(NoItem)) \in Document /\ WithItems(d, Put(ItemOf(msg[w]))) \in Document
        BY <4>1, <4>2, <4>3, WithItemsType
      <4>5. e \in Guids
        BY <2>14, <2>0 DEF PublishPlanningIntoEvent, InputsOK
      <4>6. PICK x \in Document : doc' = [doc EXCEPT ![e] = x]
        BY <2>14, <4>4 DEF PublishPlanningIntoEvent
      <4>7. stored' \subseteq Guids
        BY <2>14, <2>0 DEF PublishPlanningIntoEvent, AgendaOK
      <4> QED
        BY <2>0, <4>5, <4>6, <4>7, ReplaceType
    <3>2. RequestsOK'
      BY <2>14, <2>0, <3>b, AgendaAssumption DEF PublishPlanningIntoEvent, RequestsOK, Steps
    <3>3. InputsOK'
      BY <2>14, <2>0 DEF PublishPlanningIntoEvent, InputsOK, RequestsOK
    <3>4. FeedOK' /\ HistoryOK'
      BY <2>14, <2>0 DEF PublishPlanningIntoEvent, FeedOK, HistoryOK
    <3> QED
      BY <3>1, <3>2, <3>3, <3>4 DEF TypeOK
  <2>15. ASSUME NEW w \in Workers, NEW e \in Events, FindRelatedEvent(w, e) PROVE TypeOK'
    <3>1. AgendaOK'
      BY <2>15, <2>0 DEF FindRelatedEvent, AgendaOK
    <3>2. RequestsOK'
      <4>1. UNCHANGED <<msg, new, hits, plan>>
        BY <2>15 DEF FindRelatedEvent
      <4>2. todo' \in [Workers -> SUBSET Guids] /\ target' \in [Workers -> Events \cup {None}]
        BY <2>15, <2>0 DEF FindRelatedEvent, RequestsOK
      <4>3. orig' \in [Workers -> Document]
        BY <2>15, <2>0 DEF FindRelatedEvent, RequestsOK, AgendaOK
      <4>4. pc' \in [Workers -> Steps]
        BY <2>15, <2>0 DEF FindRelatedEvent, RequestsOK, Steps
      <4> QED
        BY <2>0, <4>1, <4>2, <4>3, <4>4 DEF RequestsOK
    <3>3. InputsOK'
      BY <2>15, <2>0 DEF FindRelatedEvent, InputsOK, RequestsOK
    <3>4. FeedOK' /\ HistoryOK'
      BY <2>15, <2>0 DEF FindRelatedEvent, FeedOK, HistoryOK
    <3> QED
      BY <3>1, <3>2, <3>3, <3>4 DEF TypeOK
  <2>16. ASSUME NEW w \in Workers, ReadPlanning(w) PROVE TypeOK'
    <3>a. msg[w] \in Message /\ msg[w].type = "planning"
      BY <2>16, <2>0 DEF ReadPlanning, RequestsOK, InputsOK, NoMessage
    <3>b. ItemOf(msg[w]) \in PlanningItem /\ msg[w].guid \in Plans /\ msg[w].event \in Events \cup {None}
      BY <3>a, ItemType
    <3>1. AgendaOK'
      BY <2>16, <2>0 DEF ReadPlanning, AgendaOK
    <3>2. RequestsOK'
      BY <2>16, <2>0, <3>b DEF ReadPlanning, RequestsOK, AgendaOK, Steps
    <3>3. InputsOK'
      BY <2>16, <2>0 DEF ReadPlanning, InputsOK, RequestsOK
    <3>4. FeedOK' /\ HistoryOK'
      BY <2>16, <2>0 DEF ReadPlanning, FeedOK, HistoryOK
    <3> QED
      BY <3>1, <3>2, <3>3, <3>4 DEF TypeOK
  <2>17. ASSUME NEW w \in Workers, MergeCoverages(w) PROVE TypeOK'
    <3>a. msg[w] \in Message /\ msg[w].type = "planning"
      BY <2>17, <2>0 DEF MergeCoverages, RequestsOK, InputsOK, NoMessage
    <3>b. ItemOf(msg[w]) \in PlanningItem /\ msg[w].guid \in Plans /\ msg[w].event \in Events \cup {None}
      BY <3>a, ItemType
    <3>1. AgendaOK'
      <4> DEFINE e == target[w]
                 merged == [c \in Coverages |-> IF plan[w].coverages[c] = "absent"
                                THEN orig[w].coverages[c] ELSE plan[w].coverages[c]]
                 ids == IF msg[w].guid \in orig[w].planning_ids THEN doc[e].planning_ids
                        ELSE orig[w].planning_ids \cup {msg[w].guid}
      <4>1. e \in Guids /\ doc[e] \in Document /\ orig[w] \in Document /\ plan[w] \in Document
        BY <2>17, <2>0 DEF MergeCoverages, RequestsOK, InputsOK, AgendaOK
      <4>2. merged \in [Coverages -> Status] /\ ids \subseteq Plans
        BY <4>1, <3>b, DocumentFields
      <4>3. /\ [doc[e] EXCEPT !.planning_ids = ids] \in Document
            /\ [doc[e] EXCEPT !.planning_ids = ids, !.coverages = merged] \in Document
        BY <4>1, <4>2 DEF Document
      <4>4. \/ doc' = [doc EXCEPT ![e] = [doc[e] EXCEPT !.planning_ids = ids]]
            \/ doc' = [doc EXCEPT ![e] = [doc[e] EXCEPT !.planning_ids = ids, !.coverages = merged]]
        BY <2>17, <2>0, <4>1 DEF MergeCoverages, AgendaOK
      <4>5. stored' \subseteq Guids
        BY <2>17, <2>0 DEF MergeCoverages, AgendaOK
      <4> QED
        BY <2>0, <4>1, <4>3, <4>4, <4>5, ReplaceType
    <3>2. RequestsOK'
      BY <2>17, <2>0 DEF MergeCoverages, RequestsOK, Steps
    <3>3. InputsOK'
      BY <2>17, <2>0 DEF MergeCoverages, InputsOK, RequestsOK
    <3>4. FeedOK' /\ HistoryOK'
      BY <2>17, <2>0 DEF MergeCoverages, FeedOK, HistoryOK
    <3> QED
      BY <3>1, <3>2, <3>3, <3>4 DEF TypeOK
  <2>18. ASSUME NEW w \in Workers, PlanningDone(w) PROVE TypeOK'
    <3>a. msg[w] \in Message /\ msg[w].type = "planning"
      BY <2>18, <2>0 DEF PlanningDone, RequestsOK, InputsOK, NoMessage
    <3>b. ItemOf(msg[w]) \in PlanningItem /\ msg[w].guid \in Plans /\ msg[w].event \in Events \cup {None}
      BY <3>a, ItemType
    <3>1. AgendaOK'
      BY <2>18, <2>0 DEF PlanningDone, AgendaOK
    <3>2. RequestsOK'
      BY <2>18, <2>0, EndType DEF PlanningDone, Done
    <3>3. InputsOK'
      BY <2>18, <2>0, EndType DEF PlanningDone, Done
    <3>4. FeedOK' /\ HistoryOK'
      BY <2>18, <2>0, <3>a, <3>b DEF PlanningDone, Done, FeedOK, HistoryOK, Message
    <3> QED
      BY <3>1, <3>2, <3>3, <3>4 DEF TypeOK
  <2>19. ASSUME NEW w \in Workers, FindCoverage(w) PROVE TypeOK'
    <3>1. AgendaOK'
      BY <2>19, <2>0 DEF FindCoverage, AgendaOK
    <3>2. RequestsOK'
      BY <2>19, <2>0 DEF FindCoverage, RequestsOK, AgendaOK, Steps
    <3>3. InputsOK'
      BY <2>19, <2>0 DEF FindCoverage, InputsOK, RequestsOK
    <3>4. FeedOK' /\ HistoryOK'
      BY <2>19, <2>0 DEF FindCoverage, FeedOK, HistoryOK
    <3> QED
      BY <3>1, <3>2, <3>3, <3>4 DEF TypeOK
  <2>20. ASSUME NEW w \in Workers, NEW g \in Guids, Deliver(w, g) PROVE TypeOK'
    <3>1. AgendaOK'
      <4> DEFINE c == msg[w].guid
                 p == PlanOf[c]
                 h == hits[w][g]
                 shown == [h.coverages EXCEPT ![c] = "completed"]
                 items == [h.planning_items EXCEPT ![p].coverages[c] = "completed"]
      <4>0. msg[w] \in Message /\ msg[w].type = "text"
        <5>1. pc[w] = "deliver"
          BY <2>20 DEF Deliver
        <5> QED
          BY <5>1, <2>0 DEF RequestsOK, InputsOK, NoMessage
      <4>1. c \in Coverages /\ p \in Plans
        BY <4>0, AgendaAssumption DEF Message
      <4>2. h \in Document /\ doc[g] \in Document
        BY <2>0 DEF RequestsOK, AgendaOK
      <4>3. h.planning_items \in [Plans -> PlanningItem] /\ h.coverages \in [Coverages -> Status]
        BY <4>2, DocumentFields
      <4>4. shown \in [Coverages -> Status]
        BY <4>3 DEF Status
      <4>5. [h.planning_items[p] EXCEPT !.coverages[c] = "completed"] \in PlanningItem
        <5>1. h.planning_items[p] \in PlanningItem
          BY <4>1, <4>3
        <5> HIDE DEF h, p, c
        <5> QED
          BY <4>1, <5>1 DEF PlanningItem, Status
      <4>6. items \in [Plans -> PlanningItem]
        BY <4>1, <4>3, <4>5
      <4>7. /\ [doc[g] EXCEPT !.coverages = shown, !.planning_items = items] \in Document
            /\ [doc[g] EXCEPT !.coverages = shown] \in Document
        BY <4>2, <4>4, <4>6 DEF Document
      <4>8. \/ doc' = [doc EXCEPT ![g] = [doc[g] EXCEPT !.coverages = shown, !.planning_items = items]]
            \/ doc' = [doc EXCEPT ![g] = [doc[g] EXCEPT !.coverages = shown]]
        BY <2>20, <2>0 DEF Deliver, AgendaOK
      <4>9. stored' \subseteq Guids
        BY <2>20, <2>0 DEF Deliver, AgendaOK
      <4> QED
        BY <2>0, <4>7, <4>8, <4>9, ReplaceType
    <3>2. RequestsOK'
      BY <2>20, <2>0 DEF Deliver, RequestsOK, Steps
    <3>3. InputsOK'
      BY <2>20, <2>0 DEF Deliver, InputsOK, RequestsOK
    <3>4. FeedOK' /\ HistoryOK'
      BY <2>20, <2>0 DEF Deliver, FeedOK, HistoryOK
    <3> QED
      BY <3>1, <3>2, <3>3, <3>4 DEF TypeOK
  <2>21. ASSUME NEW w \in Workers, TextDone(w) PROVE TypeOK'
    <3>1. AgendaOK'
      BY <2>21, <2>0 DEF TextDone, AgendaOK
    <3>2. RequestsOK'
      BY <2>21, <2>0, EndType DEF TextDone, Done
    <3>3. InputsOK'
      BY <2>21, <2>0, EndType DEF TextDone, Done
    <3>4. FeedOK' /\ HistoryOK'
      BY <2>21, <2>0 DEF TextDone, Done, FeedOK, HistoryOK
    <3> QED
      BY <3>1, <3>2, <3>3, <3>4 DEF TypeOK
  <2>22. ASSUME NEW w \in Workers, Conflict(w) PROVE TypeOK'
    <3>1. AgendaOK'
      BY <2>22, <2>0 DEF Conflict, AgendaOK
    <3>2. RequestsOK'
      BY <2>22, <2>0, EndType DEF Conflict
    <3>3. InputsOK'
      BY <2>22, <2>0, EndType DEF Conflict
    <3>4. FeedOK' /\ HistoryOK'
      BY <2>22, <2>0 DEF Conflict, FeedOK, HistoryOK
    <3> QED
      BY <3>1, <3>2, <3>3, <3>4 DEF TypeOK
  <2>23. ASSUME NEW w \in Workers, Fail(w) PROVE TypeOK'
    <3>1. AgendaOK'
      BY <2>23, <2>0 DEF Fail, AgendaOK
    <3>2. RequestsOK'
      BY <2>23, <2>0, EndType DEF Fail
    <3>3. InputsOK'
      BY <2>23, <2>0, EndType DEF Fail
    <3>4. FeedOK' /\ HistoryOK'
      BY <2>23, <2>0 DEF Fail, FeedOK, HistoryOK
    <3> QED
      BY <3>1, <3>2, <3>3, <3>4 DEF TypeOK
  <2>24. ASSUME NEW w \in Workers, FailDelivery(w) PROVE TypeOK'
    <3>1. AgendaOK'
      BY <2>24, <2>0 DEF FailDelivery, AgendaOK
    <3>2. RequestsOK'
      BY <2>24, <2>0, EndType DEF FailDelivery, Done
    <3>3. InputsOK'
      BY <2>24, <2>0, EndType DEF FailDelivery, Done
    <3>4. FeedOK' /\ HistoryOK'
      BY <2>24, <2>0 DEF FailDelivery, Done, FeedOK, HistoryOK
    <3> QED
      BY <3>1, <3>2, <3>3, <3>4 DEF TypeOK
  <2>25. CASE UNCHANGED vars
    BY <2>25, <2>0 DEF vars, TypeOK, FeedOK, AgendaOK, RequestsOK, InputsOK, HistoryOK
  <2> QED
    BY <2>1, <2>2, <2>3, <2>4, <2>5, <2>6, <2>7, <2>8, <2>9, <2>10, <2>11, <2>12,
       <2>13, <2>14, <2>15, <2>16, <2>17, <2>18, <2>19, <2>20, <2>21, <2>22, <2>23, <2>24, <2>25
    DEF Next, Superdesk, EventStep, PlanningStep, TextStep
<1> QED
  BY <1>1, <1>2, PTL DEF Spec

-----------------------------------------------------------------------------
(***************************************************************************)
(* Two invariants that hold whatever races, fails or expires.  Each is     *)
(* strengthened by what the requests have read and are going to write back.*)
(***************************************************************************)

\* A document shows the coverages of the plannings it embeds.
Agrees(d) == d.coverages = CoveragesOf(d.planning_items)

\* So do the documents of the collection ...
DocsAgree == \A g \in Guids : Agrees(doc[g])

\* ... and those the requests have read.
ReadAgree == \A w \in Workers : Agrees(orig[w]) /\ \A g \in Guids : Agrees(hits[w][g])

\* A story is delivered to documents that showed its coverage when found.
DeliverShows == \A w \in Workers : pc[w] = "deliver" =>
    \A g \in todo[w] : hits[w][g].coverages[msg[w].guid] # "absent"

\* There is no secondary event to go to.
NoSecondaryStep == \A w \in Workers :
    pc[w] \notin {"plan", "merge"} /\ (pc[w] = "related" => todo[w] = {})

AgreeInv == DocsAgree /\ ReadAgree /\ DeliverShows /\ NoSecondaryStep

\* A document embeds planning p.
Embeds(d, p) == d.planning_items[p] # NoItem

\* The plannings that events embed are in the collection ...
EventsOpen == \A e \in Events : \A p \in Plans : Embeds(doc[e], p) => p \in stored

\* ... those of the events that were found for a coverage ...
HitsOpen == \A w \in Workers : \A e \in Events : \A p \in Plans :
    Embeds(hits[w][e], p) => p \in stored

\* ... or read by a request that is going to write the event ...
ReadOpen == \A w \in Workers : pc[w] \in {"create", "update", "embed"} =>
    \A p \in Plans : Embeds(orig[w], p) => p \in stored

\* ... and the planning it is going to embed.
OwnFirst == \A w \in Workers : pc[w] \in {"event", "embed"} => msg[w].guid \in stored

OpenInv == EventsOpen /\ HitsOpen /\ ReadOpen /\ OwnFirst

-----------------------------------------------------------------------------
(* Steps *)

\* A document put together by WithItems agrees; the empty one does.
LEMMA WithItemsAgrees ==
    /\ \A d \in Document : \A items \in [Plans -> PlanningItem] : Agrees(WithItems(d, items))
    /\ Agrees(Empty) /\ \A g \in Guids : Agrees(NoHits[g])
<1>1. ASSUME NEW d \in Document, NEW items \in [Plans -> PlanningItem]
      PROVE  Agrees(WithItems(d, items))
  BY DEF Agrees, WithEvent, WithItems, Document
<1>2. Agrees(Empty)
  <2>1. \A c \in Coverages : PlanOf[c] \in Plans
    BY AgendaAssumption
  <2> QED
    BY <2>1 DEF Agrees, Empty, CoveragesOf, NoItem
<1> QED
  BY <1>1, <1>2 DEF NoHits

\* The other requests, and one that goes to a step with no obligation.
LEMMA ElsewhereAgrees ==
    ASSUME DeliverShows, NoSecondaryStep, NEW w \in Workers,
           \A v \in Workers \ {w} :
              pc'[v] = pc[v] /\ msg'[v] = msg[v] /\ todo'[v] = todo[v] /\ hits'[v] = hits[v],
           pc'[w] \notin {"deliver", "plan", "merge"},
           pc'[w] = "related" => todo'[w] = {}
    PROVE  DeliverShows' /\ NoSecondaryStep'
  BY DEF DeliverShows, NoSecondaryStep

\* One document is written.
LEMMA WriteAgrees ==
    ASSUME AgendaOK, DocsAgree, NEW g \in Guids, NEW d, doc' = [doc EXCEPT ![g] = d], Agrees(d)
    PROVE  DocsAgree'
  BY DEF AgendaOK, DocsAgree

\* A request reads no document.
LEMMA NothingRead ==
    ASSUME ReadAgree, UNCHANGED <<orig, hits>>
    PROVE  ReadAgree'
  BY DEF ReadAgree

\* A request ends.
LEMMA EndAgrees ==
    ASSUME RequestsOK, ReadAgree, DeliverShows, NoSecondaryStep, NEW w \in Workers, End(w)
    PROVE  ReadAgree' /\ DeliverShows' /\ NoSecondaryStep'
<1>1. ReadAgree'
  BY WithItemsAgrees DEF End, RequestsOK, ReadAgree
<1>2. \A v \in Workers \ {w} :
         pc'[v] = pc[v] /\ msg'[v] = msg[v] /\ todo'[v] = todo[v] /\ hits'[v] = hits[v]
  BY DEF End, Goto, RequestsOK
<1>3. pc'[w] = "idle"
  BY DEF End, Goto, RequestsOK
<1> QED
  BY <1>1, <1>2, <1>3, ElsewhereAgrees

(***************************************************************************)
(* The coverages of a document are those of the plannings it embeds, for   *)
(* every planning, event and story pushed at the same time, failing or     *)
(* running past its lock: set_agenda_planning_items, set_delivery and      *)
(* publish_event always write the two together.                            *)
(***************************************************************************)
THEOREM CoveragesAgree ==
    ASSUME \A p \in Plans : SecondaryOf[p] = {}
    PROVE  Spec => []CoveragesFollowPlans
<1>1. Init => AgreeInv
  BY WithItemsAgrees DEF Init, AgreeInv, DocsAgree, ReadAgree, DeliverShows, NoSecondaryStep
<1>2. TypeOK /\ AgreeInv /\ [Next]_vars => AgreeInv'
  <2> SUFFICES ASSUME TypeOK, AgreeInv, [Next]_vars PROVE AgreeInv'
    OBVIOUS
  <2>0. /\ AgendaOK /\ RequestsOK /\ InputsOK
        /\ DocsAgree /\ ReadAgree /\ DeliverShows /\ NoSecondaryStep
    BY DEF TypeOK, AgreeInv
  <2> USE DEF superdeskVars, agendaVars, jobVars, histVars, Goto
  <2>1. ASSUME NEW e \in Events, NEW state \in EventStates, NEW others \in SUBSET Plans,
               PostEvent(e, state, others)
        PROVE  AgreeInv'
    BY <2>1, <2>0 DEF PostEvent, Post, AgreeInv, DocsAgree, ReadAgree, DeliverShows, NoSecondaryStep
  <2>2. ASSUME NEW p \in Plans, NEW state \in PlanStates, NEW listed \in SUBSET Coverages, NEW link \in BOOLEAN,
               PostPlanning(p, state, listed, link)
        PROVE  AgreeInv'
    BY <2>2, <2>0 DEF PostPlanning, Post, AgreeInv, DocsAgree, ReadAgree, DeliverShows, NoSecondaryStep
  <2>3. ASSUME NEW c \in Coverages, PostText(c) PROVE AgreeInv'
    BY <2>3, <2>0 DEF PostText, Post, AgreeInv, DocsAgree, ReadAgree, DeliverShows, NoSecondaryStep
  <2>4. ASSUME NEW w \in Workers, NEW m \in outstanding, Receive(w, m) PROVE AgreeInv'
    <3>1. DocsAgree'
      BY <2>4, <2>0 DEF Receive, DocsAgree
    <3>2. ReadAgree'
      BY <2>4, <2>0, NothingRead DEF Receive
    <3>3. \A v \in Workers \ {w} :
             pc'[v] = pc[v] /\ msg'[v] = msg[v] /\ todo'[v] = todo[v] /\ hits'[v] = hits[v]
      BY <2>4, <2>0 DEF Receive, RequestsOK
    <3>4. pc'[w] \in {"search", "original"} 
      BY <2>4, <2>0 DEF Receive, RequestsOK
    <3> QED
      BY <3>1, <3>2, <3>3, <3>4, <2>0, ElsewhereAgrees DEF AgreeInv
  <2>5. ASSUME NEW w \in Workers, ReadOriginal(w) PROVE AgreeInv'
    <3>1. DocsAgree'
      BY <2>5, <2>0 DEF ReadOriginal, DocsAgree
    <3>2. ReadAgree'
      <4>1. msg[w].guid \in stored => Agrees(doc[msg[w].guid])
        BY <2>0 DEF AgendaOK, DocsAgree
      <4> QED
        BY <2>5, <2>0, <4>1, WithItemsAgrees DEF ReadOriginal, RequestsOK, ReadAgree
    <3>3. \A v \in Workers \ {w} :
             pc'[v] = pc[v] /\ msg'[v] = msg[v] /\ todo'[v] = todo[v] /\ hits'[v] = hits[v]
      BY <2>5, <2>0 DEF ReadOriginal, RequestsOK
    <3>4. pc'[w] \in {"own", "update", "collect"} 
      BY <2>5, <2>0 DEF ReadOriginal, RequestsOK
    <3> QED
      BY <3>1, <3>2, <3>3, <3>4, <2>0, ElsewhereAgrees DEF AgreeInv
  <2>6. ASSUME NEW w \in Workers, CollectPlannings(w) PROVE AgreeInv'
    <3> DEFINE found == msg[w].plans \cap stored
               items == [p \in Plans |-> IF p \in found THEN doc[p].planning_items[p] ELSE NoItem]
    <3>a. items \in [Plans -> PlanningItem]
      <4>1. \A p \in Plans : doc[p].planning_items \in [Plans -> PlanningItem]
        <5>1. \A p \in Plans : doc[p] \in Document
          BY <2>0 DEF AgendaOK
        <5> QED
          BY <5>1, DocumentFields
      <4> QED
        BY <4>1, EmptyType
    <3>1. DocsAgree'
      BY <2>6, <2>0 DEF CollectPlannings, DocsAgree
    <3>2. ReadAgree'
      <4>1. Agrees(WithItems(Empty, items))
        BY <3>a, EmptyType, WithItemsAgrees
      <4>2. orig' = [orig EXCEPT ![w] = WithItems(Empty, items)] /\ UNCHANGED hits
        BY <2>6 DEF CollectPlannings
      <4> QED
        BY <2>0, <4>1, <4>2 DEF RequestsOK, ReadAgree
    <3>3. \A v \in Workers \ {w} :
             pc'[v] = pc[v] /\ msg'[v] = msg[v] /\ todo'[v] = todo[v] /\ hits'[v] = hits[v]
      BY <2>6, <2>0 DEF CollectPlannings, RequestsOK
    <3>4. pc'[w] \in {"create"} 
      BY <2>6, <2>0 DEF CollectPlannings, RequestsOK
    <3> QED
      BY <3>1, <3>2, <3>3, <3>4, <2>0, ElsewhereAgrees DEF AgreeInv
  <2>7. ASSUME NEW w \in Workers, NEW p \in Plans, LinkPlanning(w, p) PROVE AgreeInv'
    <3>1. DocsAgree'
      <4>0. p \in Guids
        OBVIOUS
      <4>1. p \in Guids /\ doc[p] \in Document /\ Agrees(doc[p])
        BY <4>0, <2>0 DEF AgendaOK, DocsAgree
      <4>2. doc' = [doc EXCEPT ![p] = [doc[p] EXCEPT !.event_id = msg[w].guid]]
        BY <2>7, <2>0, <4>1 DEF LinkPlanning, AgendaOK
      <4>3. Agrees([doc[p] EXCEPT !.event_id = msg[w].guid])
        BY <4>1 DEF Agrees, WithEvent, Document
      <4> QED
        BY <2>0, <4>1, <4>2, <4>3, WriteAgrees
    <3>2. ReadAgree'
      BY <2>7, <2>0, NothingRead DEF LinkPlanning
    <3>3. \A v \in Workers \ {w} :
             pc'[v] = pc[v] /\ msg'[v] = msg[v] /\ todo'[v] = todo[v] /\ hits'[v] = hits[v]
      BY <2>7, <2>0 DEF LinkPlanning, RequestsOK
    <3>4. pc'[w] \in {"create"} 
      BY <2>7, <2>0 DEF LinkPlanning, RequestsOK
    <3> QED
      BY <3>1, <3>2, <3>3, <3>4, <2>0, ElsewhereAgrees DEF AgreeInv
  <2>8. ASSUME NEW w \in Workers, CreateEvent(w) PROVE AgreeInv'
    <3>a. msg[w].guid \in Guids
      <4>1. pc[w] \in {"create", "update"}
        BY <2>8 DEF CreateEvent
      <4>2. msg[w] \in Message /\ msg[w].type = "event"
        BY <4>1, <2>0 DEF RequestsOK, InputsOK, NoMessage
      <4> QED
        BY <4>2, EventMessage
    <3>b. /\ doc[msg[w].guid] \in Document /\ Agrees(doc[msg[w].guid])
          /\ orig[w] \in Document /\ Agrees(orig[w])
      BY <2>0, <3>a DEF AgendaOK, RequestsOK, DocsAgree, ReadAgree
    <3>1. DocsAgree'
      <4> DEFINE d == WithEvent(orig[w], msg[w])
      <4>1. Agrees(d)
        BY <3>b DEF Agrees, WithEvent, Document
      <4>2. doc' = [doc EXCEPT ![msg[w].guid] = d]
        BY <2>8 DEF CreateEvent
      <4> QED
        BY <2>0, <3>a, <4>1, <4>2, WriteAgrees
    <3>2. End(w)
      BY <2>8 DEF CreateEvent, EventDone, Done
    <3> QED
      BY <3>1, <3>2, <2>0, EndAgrees DEF AgreeInv
  <2>9. ASSUME NEW w \in Workers, CancelEvent(w) PROVE AgreeInv'
    <3>a. msg[w].guid \in Guids
      <4>1. pc[w] \in {"create", "update"}
        BY <2>9 DEF CancelEvent
      <4>2. msg[w] \in Message /\ msg[w].type = "event"
        BY <4>1, <2>0 DEF RequestsOK, InputsOK, NoMessage
      <4> QED
        BY <4>2, EventMessage
    <3>b. /\ doc[msg[w].guid] \in Document /\ Agrees(doc[msg[w].guid])
          /\ orig[w] \in Document /\ Agrees(orig[w])
      BY <2>0, <3>a DEF AgendaOK, RequestsOK, DocsAgree, ReadAgree
    <3>1. DocsAgree'
      <4> DEFINE d == [doc[msg[w].guid] EXCEPT !.event = msg[w].version,
                          !.planning_items = orig[w].planning_items, !.coverages = orig[w].coverages]
      <4>1. Agrees(d)
        BY <3>b DEF Agrees, WithEvent, Document
      <4>2. doc' = [doc EXCEPT ![msg[w].guid] = d]
        BY <2>9, <2>0, <3>a DEF CancelEvent, AgendaOK
      <4> QED
        BY <2>0, <3>a, <4>1, <4>2, WriteAgrees
    <3>2. End(w)
      BY <2>9 DEF CancelEvent, EventDone, Done
    <3> QED
      BY <3>1, <3>2, <2>0, EndAgrees DEF AgreeInv
  <2>10. ASSUME NEW w \in Workers, PostponeEvent(w) PROVE AgreeInv'
    <3>a. msg[w].guid \in Guids
      <4>1. pc[w] \in {"create", "update"}
        BY <2>10 DEF PostponeEvent
      <4>2. msg[w] \in Message /\ msg[w].type = "event"
        BY <4>1, <2>0 DEF RequestsOK, InputsOK, NoMessage
      <4> QED
        BY <4>2, EventMessage
    <3>b. /\ doc[msg[w].guid] \in Document /\ Agrees(doc[msg[w].guid])
          /\ orig[w] \in Document /\ Agrees(orig[w])
      BY <2>0, <3>a DEF AgendaOK, RequestsOK, DocsAgree, ReadAgree
    <3>1. DocsAgree'
      <4> DEFINE x == WithEvent(doc[msg[w].guid], msg[w])
                 d == WithItems(x, Empty.planning_items)
      <4>1. Agrees(d)
        BY <3>b DEF Agrees, WithEvent, WithItems, Document
      <4>2. doc' = [doc EXCEPT ![msg[w].guid] = d]
        BY <2>10 DEF PostponeEvent
      <4> QED
        BY <2>0, <3>a, <4>1, <4>2, WriteAgrees
    <3>2. End(w)
      BY <2>10 DEF PostponeEvent, EventDone, Done
    <3> QED
      BY <3>1, <3>2, <2>0, EndAgrees DEF AgreeInv
  <2>11. ASSUME NEW w \in Workers, UpdateEvent(w) PROVE AgreeInv'
    <3>a. msg[w].guid \in Guids
      <4>1. pc[w] \in {"create", "update"}
        BY <2>11 DEF UpdateEvent
      <4>2. msg[w] \in Message /\ msg[w].type = "event"
        BY <4>1, <2>0 DEF RequestsOK, InputsOK, NoMessage
      <4> QED
        BY <4>2, EventMessage
    <3>b. /\ doc[msg[w].guid] \in Document /\ Agrees(doc[msg[w].guid])
          /\ orig[w] \in Document /\ Agrees(orig[w])
      BY <2>0, <3>a DEF AgendaOK, RequestsOK, DocsAgree, ReadAgree
    <3>1. DocsAgree'
      <4> DEFINE d == [WithEvent(doc[msg[w].guid], msg[w]) EXCEPT
                          !.planning_items = orig[w].planning_items, !.coverages = orig[w].coverages]
      <4>1. Agrees(d)
        BY <3>b DEF Agrees, WithEvent, Document
      <4>2. doc' = [doc EXCEPT ![msg[w].guid] = d] \/ UNCHANGED doc
        BY <2>11, <2>0, <3>a DEF UpdateEvent, AgendaOK
      <4>3. CASE UNCHANGED doc
        BY <2>0, <4>3 DEF DocsAgree
      <4> QED
        BY <2>0, <3>a, <4>1, <4>2, <4>3, WriteAgrees
    <3>2. End(w)
      BY <2>11 DEF UpdateEvent, EventDone, Done
    <3> QED
      BY <3>1, <3>2, <2>0, EndAgrees DEF AgreeInv
  <2>12. ASSUME NEW w \in Workers, PublishPlanningItem(w) PROVE AgreeInv'
    <3>a. msg[w] \in Message /\ msg[w].type = "planning"
      BY <2>12, <2>0 DEF PublishPlanningItem, RequestsOK, InputsOK, NoMessage
    <3>b. ItemOf(msg[w]) \in PlanningItem /\ msg[w].guid \in Plans
      BY <3>a, ItemType
    <3>1. DocsAgree'
      <4> DEFINE items == [orig[w].planning_items EXCEPT ![msg[w].guid] = ItemOf(msg[w])]
                 d == WithItems(orig[w], items)
                 eventId == IF msg[w].event # None THEN msg[w].event
                            ELSE IF d.event_id # None THEN d.event_id ELSE doc[msg[w].guid].event_id
                 x == [d EXCEPT !.event_id = eventId]
      <4>1. orig[w] \in Document /\ orig[w].planning_items \in [Plans -> PlanningItem]
        BY <2>0, DocumentFields DEF RequestsOK
      <4>2. items \in [Plans -> PlanningItem]
        BY <4>1, <3>b
      <4>3. d \in Document /\ Agrees(d)
        BY <4>1, <4>2, WithItemsType, WithItemsAgrees
      <4>4. doc' = [doc EXCEPT ![msg[w].guid] = x]
        BY <2>12 DEF PublishPlanningItem
      <4> HIDE DEF d
      <4>5. Agrees(x)
        BY <4>3 DEF Agrees, WithEvent, Document
      <4> HIDE DEF x
      <4> QED
        <5>1. msg[w].guid \in Guids
          BY <3>b
        <5> QED
          BY <2>0, <5>1, <4>4, <4>5, WriteAgrees
    <3>2. ReadAgree'
      BY <2>12, <2>0, NothingRead DEF PublishPlanningItem
    <3>3. \A v \in Workers \ {w} :
             pc'[v] = pc[v] /\ msg'[v] = msg[v] /\ todo'[v] = todo[v] /\ hits'[v] = hits[v]
      BY <2>12, <2>0 DEF PublishPlanningItem, RequestsOK
    <3>4. pc'[w] \in {"event"} 
      BY <2>12, <2>0 DEF PublishPlanningItem, RequestsOK
    <3> QED
      BY <3>1, <3>2, <3>3, <3>4, <2>0, ElsewhereAgrees DEF AgreeInv
  <2>13. ASSUME NEW w \in Workers, FindEvent(w) PROVE AgreeInv'
    <3>a. msg[w] \in Message /\ msg[w].type = "planning"
      BY <2>13, <2>0 DEF FindEvent, RequestsOK, InputsOK, NoMessage
    <3>b. ItemOf(msg[w]) \in PlanningItem /\ msg[w].guid \in Plans
      BY <3>a, ItemType
    <3>1. DocsAgree'
      BY <2>13, <2>0 DEF FindEvent, DocsAgree
    <3>2. ReadAgree'
      <4>1. msg[w].event \in stored => Agrees(doc[msg[w].event])
        BY <2>0 DEF AgendaOK, DocsAgree
      <4> QED
        BY <2>13, <2>0, <4>1 DEF FindEvent, RequestsOK, ReadAgree
    <3>3. \A v \in Workers \ {w} :
             pc'[v] = pc[v] /\ msg'[v] = msg[v] /\ todo'[v] = todo[v] /\ hits'[v] = hits[v]
      BY <2>13, <2>0 DEF FindEvent, RequestsOK
    <3>4. pc'[w] \in {"embed", "related"} /\ (pc'[w] = "related" => todo'[w] = {})
      BY <2>13, <2>0, <3>b DEF FindEvent, RequestsOK
    <3> QED
      BY <3>1, <3>2, <3>3, <3>4, <2>0, ElsewhereAgrees DEF AgreeInv
  <2>14. ASSUME NEW w \in Workers, PublishPlanningIntoEvent(w) PROVE AgreeInv'
    <3>a. msg[w] \in Message /\ msg[w].type = "planning"
      BY <2>14, <2>0 DEF PublishPlanningIntoEvent, RequestsOK, InputsOK, NoMessage
    <3>b. ItemOf(msg[w]) \in PlanningItem /\ msg[w].guid \in Plans
      BY <3>a, ItemType
    <3>1. DocsAgree'
      <4> DEFINE d == [orig[w] EXCEPT !.planning_ids = @ \cup {msg[w].guid},
                         !.versioncreated = IF msg[w].version > @ THEN msg[w].version ELSE @]
                 Put(item) == [orig[w].planning_items EXCEPT ![msg[w].guid] = item]
      <4>1. orig[w] \in Document /\ orig[w].planning_items \in [Plans -> PlanningItem]
        BY <2>0, DocumentFields DEF RequestsOK
      <4>2. Put(NoItem) \in [Plans -> PlanningItem] /\ Put(ItemOf(msg[w])) \in [Plans -> PlanningItem]
        BY <4>1, <3>b, EmptyType
      <4>3. d \in Document
        BY <4>1, <3>a, <3>b DEF Document, Message
      <4>4. Agrees(WithItems(orig[w], Put(NoItem))) /\ Agrees(WithItems(d, Put(ItemOf(msg[w]))))
        BY <4>1, <4>2, <4>3, WithItemsAgrees
      <4>5. msg[w].event \in Guids
        <5>1. pc[w] = "embed"
          BY <2>14 DEF PublishPlanningIntoEvent
        <5> QED
          BY <5>1, <2>0 DEF InputsOK
      <4>6. PICK x : doc' = [doc EXCEPT ![msg[w].event] = x] /\ Agrees(x)
        BY <2>14, <4>4 DEF PublishPlanningIntoEvent
      <4> QED
        BY <2>0, <4>5, <4>6, WriteAgrees
    <3>2. ReadAgree'
      BY <2>14, <2>0, NothingRead DEF PublishPlanningIntoEvent
    <3>3. \A v \in Workers \ {w} :
             pc'[v] = pc[v] /\ msg'[v] = msg[v] /\ todo'[v] = todo[v] /\ hits'[v] = hits[v]
      BY <2>14, <2>0 DEF PublishPlanningIntoEvent, RequestsOK
    <3>4. pc'[w] \in {"related"} /\ todo'[w] = {}
      BY <2>14, <2>0, <3>b DEF PublishPlanningIntoEvent, RequestsOK
    <3> QED
      BY <3>1, <3>2, <3>3, <3>4, <2>0, ElsewhereAgrees DEF AgreeInv
  <2>15. ASSUME NEW w \in Workers, NEW e \in Events, FindRelatedEvent(w, e) PROVE AgreeInv'
    BY <2>15, <2>0 DEF FindRelatedEvent, NoSecondaryStep
  <2>16. ASSUME NEW w \in Workers, ReadPlanning(w) PROVE AgreeInv'
    BY <2>16, <2>0 DEF ReadPlanning, NoSecondaryStep
  <2>17. ASSUME NEW w \in Workers, MergeCoverages(w) PROVE AgreeInv'
    BY <2>17, <2>0 DEF MergeCoverages, NoSecondaryStep
  <2>18. ASSUME NEW w \in Workers, PlanningDone(w) PROVE AgreeInv'
    <3>1. DocsAgree'
      BY <2>18, <2>0 DEF PlanningDone, DocsAgree
    <3>2. End(w)
      BY <2>18 DEF PlanningDone, Done
    <3> QED
      BY <3>1, <3>2, <2>0, EndAgrees DEF AgreeInv
  <2>19. ASSUME NEW w \in Workers, FindCoverage(w) PROVE AgreeInv'
    <3>1. DocsAgree'
      BY <2>19, <2>0 DEF FindCoverage, DocsAgree
    <3>2. ReadAgree'
      BY <2>19, <2>0 DEF FindCoverage, RequestsOK, ReadAgree, DocsAgree
    <3>3. DeliverShows'
      BY <2>19, <2>0 DEF FindCoverage, RequestsOK, AgendaOK, DeliverShows
    <3>4. NoSecondaryStep'
      BY <2>19, <2>0 DEF FindCoverage, RequestsOK, NoSecondaryStep
    <3> QED
      BY <3>1, <3>2, <3>3, <3>4 DEF AgreeInv
  <2>20. ASSUME NEW w \in Workers, NEW g \in Guids, Deliver(w, g) PROVE AgreeInv'
    <3> DEFINE c == msg[w].guid
               p == PlanOf[c]
               h == hits[w][g]
               shown == [h.coverages EXCEPT ![c] = "completed"]
               items == [h.planning_items EXCEPT ![p].coverages[c] = "completed"]
    <3>0. pc[w] = "deliver" /\ g \in todo[w]
      BY <2>20 DEF Deliver
    <3>a. msg[w] \in Message /\ msg[w].type = "text"
      BY <3>0, <2>0 DEF RequestsOK, InputsOK, NoMessage
    <3>b. c \in Coverages /\ p \in Plans
      BY <3>a, AgendaAssumption DEF Message
    <3>c. h \in Document /\ doc[g] \in Document /\ Agrees(h) /\ h.coverages[c] # "absent"
      BY <2>0, <3>0 DEF RequestsOK, AgendaOK, ReadAgree, DeliverShows
    <3>d. h.planning_items \in [Plans -> PlanningItem] /\ h.coverages \in [Coverages -> Status]
      BY <3>c, DocumentFields
    <3>e. h.planning_items[p].state # "killed" /\ h.planning_items[p].coverages[c] # "absent"
      BY <3>b, <3>c DEF Agrees, CoveragesOf
    <3>1. DocsAgree'
      <4> DEFINE x == [doc[g] EXCEPT !.coverages = shown, !.planning_items = items]
      <4>1. doc' = [doc EXCEPT ![g] = x]
        BY <2>20, <2>0, <3>e DEF Deliver, AgendaOK
      <4>2. shown = CoveragesOf(items)
        <5>1. \A k \in Coverages : PlanOf[k] \in Plans
          BY AgendaAssumption
        <5>2. items[p] = [h.planning_items[p] EXCEPT !.coverages[c] = "completed"]
          BY <3>b, <3>d
        <5>3. \A q \in Plans \ {p} : items[q] = h.planning_items[q]
          BY <3>d
        <5>4. h.planning_items[p] \in PlanningItem
          BY <3>b, <3>d
        <5>5. /\ items[p].state = h.planning_items[p].state
              /\ items[p].coverages = [h.planning_items[p].coverages EXCEPT ![c] = "completed"]
              /\ h.planning_items[p].coverages \in [Coverages -> Status]
          BY <5>2, <5>4 DEF PlanningItem
        <5>6. \A k \in Coverages : h.coverages[k] =
                 IF h.planning_items[PlanOf[k]].state = "killed" THEN "absent"
                 ELSE h.planning_items[PlanOf[k]].coverages[k]
          BY <3>c DEF Agrees, CoveragesOf
        <5> HIDE DEF items, p
        <5>7. \A k \in Coverages : shown[k] =
                 IF items[PlanOf[k]].state = "killed" THEN "absent" ELSE items[PlanOf[k]].coverages[k]
          <6> TAKE k \in Coverages
          <6>1. CASE PlanOf[k] # p
            <7>1. k # c
              BY <6>1 DEF p
            <7> QED
              BY <5>1, <5>3, <5>6, <6>1, <7>1, <3>d
          <6>2. CASE PlanOf[k] = p
            BY <5>5, <5>6, <6>2, <3>b, <3>d, <3>e
          <6> QED
            BY <6>1, <6>2
        <5> QED
          BY <5>7, <3>d DEF CoveragesOf
      <4>3. Agrees(x)
        BY <3>c, <4>2 DEF Agrees, WithEvent, Document
      <4> HIDE DEF x
      <4> QED
        BY <2>0, <4>1, <4>3, WriteAgrees
    <3>2. ReadAgree'
      BY <2>20, <2>0, NothingRead DEF Deliver
    <3>3. DeliverShows'
      BY <2>20, <2>0 DEF Deliver, RequestsOK, DeliverShows
    <3>4. NoSecondaryStep'
      BY <2>20, <2>0, <3>0 DEF Deliver, RequestsOK, NoSecondaryStep
    <3> QED
      BY <3>1, <3>2, <3>3, <3>4 DEF AgreeInv
  <2>21. ASSUME NEW w \in Workers, TextDone(w) PROVE AgreeInv'
    <3>1. DocsAgree'
      BY <2>21, <2>0 DEF TextDone, DocsAgree
    <3>2. End(w)
      BY <2>21 DEF TextDone, Done
    <3> QED
      BY <3>1, <3>2, <2>0, EndAgrees DEF AgreeInv
  <2>22. ASSUME NEW w \in Workers, Conflict(w) PROVE AgreeInv'
    <3>1. DocsAgree'
      BY <2>22, <2>0 DEF Conflict, DocsAgree
    <3>2. End(w)
      BY <2>22 DEF Conflict
    <3> QED
      BY <3>1, <3>2, <2>0, EndAgrees DEF AgreeInv
  <2>23. ASSUME NEW w \in Workers, Fail(w) PROVE AgreeInv'
    <3>1. DocsAgree'
      BY <2>23, <2>0 DEF Fail, DocsAgree
    <3>2. End(w)
      BY <2>23 DEF Fail
    <3> QED
      BY <3>1, <3>2, <2>0, EndAgrees DEF AgreeInv
  <2>24. ASSUME NEW w \in Workers, FailDelivery(w) PROVE AgreeInv'
    <3>1. DocsAgree'
      BY <2>24, <2>0 DEF FailDelivery, DocsAgree
    <3>2. End(w)
      BY <2>24 DEF FailDelivery, Done
    <3> QED
      BY <3>1, <3>2, <2>0, EndAgrees DEF AgreeInv
  <2>25. CASE UNCHANGED vars
    BY <2>25, <2>0 DEF vars, AgreeInv, DocsAgree, ReadAgree, DeliverShows, NoSecondaryStep
  <2> QED
    BY <2>1, <2>2, <2>3, <2>4, <2>5, <2>6, <2>7, <2>8, <2>9, <2>10, <2>11, <2>12,
       <2>13, <2>14, <2>15, <2>16, <2>17, <2>18, <2>19, <2>20, <2>21, <2>22, <2>23, <2>24, <2>25
    DEF Next, Superdesk, EventStep, PlanningStep, TextStep
<1>3. TypeOK /\ AgreeInv => CoveragesFollowPlans
  BY DEF TypeOK, AgendaOK, AgreeInv, DocsAgree, Agrees, CoveragesFollowPlans
<1> QED
  BY <1>1, <1>2, <1>3, TypeCorrect, PTL DEF Spec

-----------------------------------------------------------------------------
(* Plannings that events embed *)

\* Only plannings given to WithItems are embedded.
LEMMA WithItemsEmbeds ==
    /\ \A d \in Document : \A items \in [Plans -> PlanningItem] :
            WithItems(d, items).planning_items = items
    /\ \A p \in Plans : ~Embeds(Empty, p)
    /\ \A g \in Guids : \A p \in Plans : ~Embeds(NoHits[g], p)
  BY DEF WithItems, Document, Embeds, Empty, NoHits

\* No document is removed, and nothing is written to events.
LEMMA NoneWritten ==
    ASSUME EventsOpen, stored \subseteq stored', \A e \in Events : doc'[e] = doc[e]
    PROVE  EventsOpen'
  BY DEF EventsOpen

\* An event is written.
LEMMA WriteOpen ==
    ASSUME AgendaOK, EventsOpen, NEW g \in Guids, NEW d, doc' = [doc EXCEPT ![g] = d],
           stored \subseteq stored', \A p \in Plans : Embeds(d, p) => p \in stored'
    PROVE  EventsOpen'
  BY DEF AgendaOK, EventsOpen

\* The other requests, and one that goes to a step with no obligation.
LEMMA ElsewhereOpen ==
    ASSUME HitsOpen, ReadOpen, OwnFirst, NEW w \in Workers, stored \subseteq stored',
           UNCHANGED hits,
           \A v \in Workers \ {w} : pc'[v] = pc[v] /\ msg'[v] = msg[v] /\ orig'[v] = orig[v],
           pc'[w] \notin {"create", "update", "event", "embed"}
    PROVE  HitsOpen' /\ ReadOpen' /\ OwnFirst'
  BY DEF HitsOpen, ReadOpen, OwnFirst

\* A request ends.
LEMMA EndOpen ==
    ASSUME RequestsOK, HitsOpen, ReadOpen, OwnFirst, NEW w \in Workers, End(w), stored \subseteq stored'
    PROVE  HitsOpen' /\ ReadOpen' /\ OwnFirst'
<1>1. HitsOpen'
  BY WithItemsEmbeds DEF End, RequestsOK, HitsOpen
<1>2. \A v \in Workers \ {w} : pc'[v] = pc[v] /\ msg'[v] = msg[v] /\ orig'[v] = orig[v]
  BY DEF End, Goto, RequestsOK
<1>3. pc'[w] = "idle"
  BY DEF End, Goto, RequestsOK
<1> QED
  BY <1>1, <1>2, <1>3 DEF ReadOpen, OwnFirst

(***************************************************************************)
(* A planning is stored in a document of its own before it is embedded in  *)
(* that of its event, and no request writes back an event with a planning  *)
(* that was not stored when the request read it: whatever is pushed at the *)
(* same time, fails or runs past its lock, the plannings an event lists    *)
(* can be opened.                                                          *)
(***************************************************************************)
THEOREM PlanningsStayOpen == Spec => []PlanningsOpen
<1>1. Init => OpenInv
  BY WithItemsEmbeds DEF Init, OpenInv, EventsOpen, HitsOpen, ReadOpen, OwnFirst
<1>2. TypeOK /\ OpenInv /\ [Next]_vars => OpenInv'
  <2> SUFFICES ASSUME TypeOK, OpenInv, [Next]_vars PROVE OpenInv'
    OBVIOUS
  <2>0. /\ AgendaOK /\ RequestsOK /\ InputsOK
        /\ EventsOpen /\ HitsOpen /\ ReadOpen /\ OwnFirst
    BY DEF TypeOK, OpenInv
  <2> USE DEF superdeskVars, agendaVars, jobVars, histVars, Goto
  <2>1. ASSUME NEW e \in Events, NEW state \in EventStates, NEW others \in SUBSET Plans,
               PostEvent(e, state, others)
        PROVE  OpenInv'
    BY <2>1, <2>0 DEF PostEvent, Post, OpenInv, EventsOpen, HitsOpen, ReadOpen, OwnFirst
  <2>2. ASSUME NEW p \in Plans, NEW state \in PlanStates, NEW listed \in SUBSET Coverages, NEW link \in BOOLEAN,
               PostPlanning(p, state, listed, link)
        PROVE  OpenInv'
    BY <2>2, <2>0 DEF PostPlanning, Post, OpenInv, EventsOpen, HitsOpen, ReadOpen, OwnFirst
  <2>3. ASSUME NEW c \in Coverages, PostText(c) PROVE OpenInv'
    BY <2>3, <2>0 DEF PostText, Post, OpenInv, EventsOpen, HitsOpen, ReadOpen, OwnFirst
  <2>4. ASSUME NEW w \in Workers, NEW m \in outstanding, Receive(w, m) PROVE OpenInv'
    <3>1. EventsOpen'
      BY <2>4, <2>0, NoneWritten DEF Receive
    <3>3. UNCHANGED hits /\ stored \subseteq stored'
      BY <2>4 DEF Receive
    <3>4. \A v \in Workers \ {w} : pc'[v] = pc[v] /\ msg'[v] = msg[v] /\ orig'[v] = orig[v]
      BY <2>4, <2>0 DEF Receive, RequestsOK
    <3>5. pc'[w] \in {"search", "original"}
      BY <2>4, <2>0 DEF Receive, RequestsOK
    <3> QED
      BY <3>1, <3>3, <3>4, <3>5, <2>0, ElsewhereOpen DEF OpenInv
  <2>5. ASSUME NEW w \in Workers, ReadOriginal(w) PROVE OpenInv'
    <3>1. EventsOpen'
      BY <2>5, <2>0, NoneWritten DEF ReadOriginal
    <3>3. UNCHANGED hits /\ stored \subseteq stored'
      BY <2>5 DEF ReadOriginal
    <3>4. \A v \in Workers \ {w} : pc'[v] = pc[v] /\ msg'[v] = msg[v] /\ orig'[v] = orig[v]
      BY <2>5, <2>0 DEF ReadOriginal, RequestsOK
    <3>5. pc'[w] \in {"own", "update", "collect"}
      BY <2>5, <2>0 DEF ReadOriginal, RequestsOK
    <3>6. pc'[w] = "update" => \A p \in Plans : Embeds(orig'[w], p) => p \in stored
      <4>1. ASSUME pc'[w] = "update" PROVE orig'[w] = doc[msg[w].guid] /\ msg[w].guid \in Events
        <5>1. pc[w] = "original" /\ msg[w].type = "event" /\ msg[w].guid \in stored
          BY <4>1, <2>5, <2>0 DEF ReadOriginal, RequestsOK, InputsOK
        <5>2. msg[w].guid \in Events
          BY <5>1, <2>0, EventMessage DEF RequestsOK, NoMessage
        <5> QED
          BY <5>1, <5>2, <2>5, <2>0 DEF ReadOriginal, RequestsOK
      <4> QED
        BY <4>1, <2>0 DEF EventsOpen
    <3> QED
      BY <3>1, <3>3, <3>4, <3>5, <3>6, <2>0 DEF OpenInv, HitsOpen, ReadOpen, OwnFirst
  <2>6. ASSUME NEW w \in Workers, CollectPlannings(w) PROVE OpenInv'
    <3> DEFINE found == msg[w].plans \cap stored
               items == [p \in Plans |-> IF p \in found THEN doc[p].planning_items[p] ELSE NoItem]
    <3>a. items \in [Plans -> PlanningItem]
      <4>1. \A p \in Plans : doc[p] \in Document
        BY <2>0 DEF AgendaOK
      <4> QED
        BY <4>1, DocumentFields, EmptyType
    <3>1. EventsOpen'
      BY <2>6, <2>0, NoneWritten DEF CollectPlannings
    <3>3. UNCHANGED hits /\ stored \subseteq stored'
      BY <2>6 DEF CollectPlannings
    <3>4. \A v \in Workers \ {w} : pc'[v] = pc[v] /\ msg'[v] = msg[v] /\ orig'[v] = orig[v]
      BY <2>6, <2>0 DEF CollectPlannings, RequestsOK
    <3>5. pc'[w] \in {"create"}
      BY <2>6, <2>0 DEF CollectPlannings, RequestsOK
    <3>6. \A p \in Plans : Embeds(orig'[w], p) => p \in stored
      <4>1. orig'[w] = WithItems(Empty, items)
        BY <2>6, <2>0 DEF CollectPlannings, RequestsOK
      <4>2. orig'[w].planning_items = items
        BY <4>1, <3>a, EmptyType, WithItemsEmbeds
      <4> QED
        BY <4>2 DEF Embeds
    <3> QED
      BY <3>1, <3>3, <3>4, <3>5, <3>6, <2>0 DEF OpenInv, HitsOpen, ReadOpen, OwnFirst
  <2>7. ASSUME NEW w \in Workers, NEW p \in Plans, LinkPlanning(w, p) PROVE OpenInv'
    <3>1. EventsOpen'
      <4>1. \A e \in Events : e # p
        BY AgendaAssumption
      <4> QED
        BY <2>7, <2>0, <4>1, NoneWritten DEF LinkPlanning, AgendaOK
    <3>3. UNCHANGED hits /\ stored \subseteq stored'
      BY <2>7 DEF LinkPlanning
    <3>4. \A v \in Workers \ {w} : pc'[v] = pc[v] /\ msg'[v] = msg[v] /\ orig'[v] = orig[v]
      BY <2>7, <2>0 DEF LinkPlanning, RequestsOK
    <3>5. pc'[w] \in {"create"}
      BY <2>7, <2>0 DEF LinkPlanning, RequestsOK
    <3>6. orig'[w] = orig[w] /\ pc[w] = "create"
      BY <2>7 DEF LinkPlanning
    <3> QED
      BY <3>1, <3>3, <3>4, <3>5, <3>6, <2>0 DEF OpenInv, HitsOpen, ReadOpen, OwnFirst
  <2>8. ASSUME NEW w \in Workers, CreateEvent(w) PROVE OpenInv'
    <3>a. msg[w].guid \in Events /\ msg[w].guid \in Guids
      <4>1. pc[w] \in {"create", "update"}
        BY <2>8 DEF CreateEvent
      <4>2. msg[w] \in Message /\ msg[w].type = "event"
        BY <4>1, <2>0 DEF RequestsOK, InputsOK, NoMessage
      <4> QED
        BY <4>2, EventMessage
    <3>b. doc[msg[w].guid] \in Document /\ orig[w] \in Document /\ stored \subseteq stored'
      BY <2>8, <2>0, <3>a DEF CreateEvent, AgendaOK, RequestsOK
    <3>c. \A p \in Plans : Embeds(orig[w], p) => p \in stored
      BY <2>8, <2>0 DEF CreateEvent, ReadOpen
    <3>1. EventsOpen'
      <4> DEFINE d == WithEvent(orig[w], msg[w])
      <4>1. \A p \in Plans : Embeds(d, p) => p \in stored'
        BY <3>b, <3>c DEF Embeds, WithEvent, Document
      <4>2. doc' = [doc EXCEPT ![msg[w].guid] = d]
        BY <2>8 DEF CreateEvent
      <4> HIDE DEF d
      <4> QED
        BY <2>0, <3>a, <3>b, <4>1, <4>2, WriteOpen
    <3>2. End(w)
      BY <2>8 DEF CreateEvent, EventDone, Done
    <3> QED
      BY <3>1, <3>2, <3>b, <2>0, EndOpen DEF OpenInv
  <2>9. ASSUME NEW w \in Workers, CancelEvent(w) PROVE OpenInv'
    <3>a. msg[w].guid \in Events /\ msg[w].guid \in Guids
      <4>1. pc[w] \in {"create", "update"}
        BY <2>9 DEF CancelEvent
      <4>2. msg[w] \in Message /\ msg[w].type = "event"
        BY <4>1, <2>0 DEF RequestsOK, InputsOK, NoMessage
      <4> QED
        BY <4>2, EventMessage
    <3>b. doc[msg[w].guid] \in Document /\ orig[w] \in Document /\ stored \subseteq stored'
      BY <2>9, <2>0, <3>a DEF CancelEvent, AgendaOK, RequestsOK
    <3>c. \A p \in Plans : Embeds(orig[w], p) => p \in stored
      BY <2>9, <2>0 DEF CancelEvent, ReadOpen
    <3>1. EventsOpen'
      <4> DEFINE d == [doc[msg[w].guid] EXCEPT !.event = msg[w].version,
                          !.planning_items = orig[w].planning_items, !.coverages = orig[w].coverages]
      <4>1. \A p \in Plans : Embeds(d, p) => p \in stored'
        BY <3>b, <3>c DEF Embeds, WithEvent, Document
      <4>2. doc' = [doc EXCEPT ![msg[w].guid] = d]
        BY <2>9, <2>0, <3>a DEF CancelEvent, AgendaOK
      <4> HIDE DEF d
      <4> QED
        BY <2>0, <3>a, <3>b, <4>1, <4>2, WriteOpen
    <3>2. End(w)
      BY <2>9 DEF CancelEvent, EventDone, Done
    <3> QED
      BY <3>1, <3>2, <3>b, <2>0, EndOpen DEF OpenInv
  <2>10. ASSUME NEW w \in Workers, PostponeEvent(w) PROVE OpenInv'
    <3>a. msg[w].guid \in Events /\ msg[w].guid \in Guids
      <4>1. pc[w] \in {"create", "update"}
        BY <2>10 DEF PostponeEvent
      <4>2. msg[w] \in Message /\ msg[w].type = "event"
        BY <4>1, <2>0 DEF RequestsOK, InputsOK, NoMessage
      <4> QED
        BY <4>2, EventMessage
    <3>b. doc[msg[w].guid] \in Document /\ orig[w] \in Document /\ stored \subseteq stored'
      BY <2>10, <2>0, <3>a DEF PostponeEvent, AgendaOK, RequestsOK
    <3>c. \A p \in Plans : Embeds(orig[w], p) => p \in stored
      BY <2>10, <2>0 DEF PostponeEvent, ReadOpen
    <3>1. EventsOpen'
      <4> DEFINE d == WithItems(WithEvent(doc[msg[w].guid], msg[w]), Empty.planning_items)
      <4>1. \A p \in Plans : Embeds(d, p) => p \in stored'
        BY <3>b, WithItemsEmbeds DEF Embeds, WithItems, WithEvent, Document
      <4>2. doc' = [doc EXCEPT ![msg[w].guid] = d]
        BY <2>10 DEF PostponeEvent
      <4> HIDE DEF d
      <4> QED
        BY <2>0, <3>a, <3>b, <4>1, <4>2, WriteOpen
    <3>2. End(w)
      BY <2>10 DEF PostponeEvent, EventDone, Done
    <3> QED
      BY <3>1, <3>2, <3>b, <2>0, EndOpen DEF OpenInv
  <2>11. ASSUME NEW w \in Workers, UpdateEvent(w) PROVE OpenInv'
    <3>a. msg[w].guid \in Events /\ msg[w].guid \in Guids
      <4>1. pc[w] \in {"create", "update"}
        BY <2>11 DEF UpdateEvent
      <4>2. msg[w] \in Message /\ msg[w].type = "event"
        BY <4>1, <2>0 DEF RequestsOK, InputsOK, NoMessage
      <4> QED
        BY <4>2, EventMessage
    <3>b. doc[msg[w].guid] \in Document /\ orig[w] \in Document /\ stored \subseteq stored'
      BY <2>11, <2>0, <3>a DEF UpdateEvent, AgendaOK, RequestsOK
    <3>c. \A p \in Plans : Embeds(orig[w], p) => p \in stored
      BY <2>11, <2>0 DEF UpdateEvent, ReadOpen
    <3>1. EventsOpen'
      <4> DEFINE d == [WithEvent(doc[msg[w].guid], msg[w]) EXCEPT
                          !.planning_items = orig[w].planning_items, !.coverages = orig[w].coverages]
      <4>1. \A p \in Plans : Embeds(d, p) => p \in stored'
        BY <3>b, <3>c DEF Embeds, WithEvent, Document
      <4>2. doc' = [doc EXCEPT ![msg[w].guid] = d] \/ UNCHANGED doc
        BY <2>11, <2>0, <3>a DEF UpdateEvent, AgendaOK
      <4>3. CASE UNCHANGED doc
        BY <2>0, <3>b, <4>3, NoneWritten
      <4> HIDE DEF d
      <4> QED
        BY <2>0, <3>a, <3>b, <4>1, <4>2, <4>3, WriteOpen
    <3>2. End(w)
      BY <2>11 DEF UpdateEvent, EventDone, Done
    <3> QED
      BY <3>1, <3>2, <3>b, <2>0, EndOpen DEF OpenInv
  <2>12. ASSUME NEW w \in Workers, PublishPlanningItem(w) PROVE OpenInv'
    <3>a. msg[w] \in Message /\ msg[w].type = "planning"
      BY <2>12, <2>0 DEF PublishPlanningItem, RequestsOK, InputsOK, NoMessage
    <3>b. ItemOf(msg[w]) \in PlanningItem /\ msg[w].guid \in Plans
      BY <3>a, ItemType
    <3>1. EventsOpen'
      <4>1. \A e \in Events : e # msg[w].guid
        BY <3>b, AgendaAssumption
      <4> QED
        BY <2>12, <2>0, <4>1, NoneWritten DEF PublishPlanningItem, AgendaOK
    <3>3. UNCHANGED hits /\ stored \subseteq stored'
      BY <2>12 DEF PublishPlanningItem
    <3>4. \A v \in Workers \ {w} : pc'[v] = pc[v] /\ msg'[v] = msg[v] /\ orig'[v] = orig[v]
      BY <2>12, <2>0 DEF PublishPlanningItem, RequestsOK
    <3>5. pc'[w] \in {"event"}
      BY <2>12, <2>0 DEF PublishPlanningItem, RequestsOK
    <3>6. msg'[w].guid \in stored'
      BY <2>12 DEF PublishPlanningItem
    <3> QED
      BY <3>1, <3>3, <3>4, <3>5, <3>6, <2>0 DEF OpenInv, HitsOpen, ReadOpen, OwnFirst
  <2>13. ASSUME NEW w \in Workers, FindEvent(w) PROVE OpenInv'
    <3>a. msg[w] \in Message /\ msg[w].type = "planning"
      BY <2>13, <2>0 DEF FindEvent, RequestsOK, InputsOK, NoMessage
    <3>b. ItemOf(msg[w]) \in PlanningItem /\ msg[w].guid \in Plans
      BY <3>a, ItemType
    <3>1. EventsOpen'
      BY <2>13, <2>0, NoneWritten DEF FindEvent
    <3>3. UNCHANGED hits /\ stored \subseteq stored'
      BY <2>13 DEF FindEvent
    <3>4. \A v \in Workers \ {w} : pc'[v] = pc[v] /\ msg'[v] = msg[v] /\ orig'[v] = orig[v]
      BY <2>13, <2>0 DEF FindEvent, RequestsOK
    <3>5. pc'[w] \in {"embed", "related"}
      BY <2>13, <2>0 DEF FindEvent, RequestsOK
    <3>6. /\ msg'[w].guid \in stored
          /\ pc'[w] = "embed" => \A p \in Plans : Embeds(orig'[w], p) => p \in stored
      <4>1. UNCHANGED msg /\ pc[w] = "event"
        BY <2>13 DEF FindEvent
      <4>2. pc'[w] = "embed" => msg[w].event \in stored /\ orig'[w] = doc[msg[w].event]
        BY <2>13, <2>0 DEF FindEvent, RequestsOK
      <4>3. msg[w].event \in stored => msg[w].event \in Events
        BY <3>a, <2>0, ItemType, AgendaAssumption DEF AgendaOK
      <4> QED
        BY <2>0, <4>1, <4>2, <4>3 DEF EventsOpen, OwnFirst
    <3> QED
      BY <3>1, <3>3, <3>4, <3>5, <3>6, <2>0 DEF OpenInv, HitsOpen, ReadOpen, OwnFirst
  <2>14. ASSUME NEW w \in Workers, PublishPlanningIntoEvent(w) PROVE OpenInv'
    <3>a. msg[w] \in Message /\ msg[w].type = "planning"
      BY <2>14, <2>0 DEF PublishPlanningIntoEvent, RequestsOK, InputsOK, NoMessage
    <3>b. ItemOf(msg[w]) \in PlanningItem /\ msg[w].guid \in Plans
      BY <3>a, ItemType
    <3>1. EventsOpen'
      <4> DEFINE d == [orig[w] EXCEPT !.planning_ids = @ \cup {msg[w].guid},
                         !.versioncreated = IF msg[w].version > @ THEN msg[w].version ELSE @]
                 Put(item) == [orig[w].planning_items EXCEPT ![msg[w].guid] = item]
      <4>0. pc[w] = "embed" /\ stored' = stored
        BY <2>14 DEF PublishPlanningIntoEvent
      <4>1. orig[w] \in Document /\ orig[w].planning_items \in [Plans -> PlanningItem]
        BY <2>0, DocumentFields DEF RequestsOK
      <4>2. Put(NoItem) \in [Plans -> PlanningItem] /\ Put(ItemOf(msg[w])) \in [Plans -> PlanningItem]
        BY <4>1, <3>b, EmptyType
      <4>3. d \in Document
        BY <4>1, <3>a, <3>b DEF Document, Message
      <4>4. /\ WithItems(orig[w], Put(NoItem)).planning_items = Put(NoItem)
            /\ WithItems(d, Put(ItemOf(msg[w]))).planning_items = Put(ItemOf(msg[w]))
        BY <4>1, <4>2, <4>3, WithItemsEmbeds
      <4>5. msg[w].event \in Guids
        BY <4>0, <2>0 DEF InputsOK
      <4>6. \A p \in Plans : Embeds(orig[w], p) => p \in stored
        BY <4>0, <2>0 DEF ReadOpen
      <4>7. msg[w].guid \in stored
        BY <4>0, <2>0 DEF OwnFirst
      <4> HIDE DEF d
      <4>8. PICK item : doc' = [doc EXCEPT ![msg[w].event] = item] /\ \E i : item.planning_items = Put(i)
        BY <2>14, <4>4 DEF PublishPlanningIntoEvent, d
      <4>9. \A p \in Plans : Embeds(item, p) => p \in stored
        BY <4>1, <4>6, <4>7, <4>8 DEF Embeds
      <4> QED
        BY <2>0, <4>0, <4>5, <4>8, <4>9, WriteOpen
    <3>3. UNCHANGED hits /\ stored \subseteq stored'
      BY <2>14 DEF PublishPlanningIntoEvent
    <3>4. \A v \in Workers \ {w} : pc'[v] = pc[v] /\ msg'[v] = msg[v] /\ orig'[v] = orig[v]
      BY <2>14, <2>0 DEF PublishPlanningIntoEvent, RequestsOK
    <3>5. pc'[w] \in {"related"}
      BY <2>14, <2>0 DEF PublishPlanningIntoEvent, RequestsOK
    <3> QED
      BY <3>1, <3>3, <3>4, <3>5, <2>0, ElsewhereOpen DEF OpenInv
  <2>15. ASSUME NEW w \in Workers, NEW e \in Events, FindRelatedEvent(w, e) PROVE OpenInv'
    <3>1. EventsOpen'
      BY <2>15, <2>0, NoneWritten DEF FindRelatedEvent
    <3>3. UNCHANGED hits /\ stored \subseteq stored'
      BY <2>15 DEF FindRelatedEvent
    <3>4. \A v \in Workers \ {w} : pc'[v] = pc[v] /\ msg'[v] = msg[v] /\ orig'[v] = orig[v]
      BY <2>15, <2>0 DEF FindRelatedEvent, RequestsOK
    <3>5. pc'[w] \in {"plan", "related"}
      BY <2>15, <2>0 DEF FindRelatedEvent, RequestsOK
    <3> QED
      BY <3>1, <3>3, <3>4, <3>5, <2>0, ElsewhereOpen DEF OpenInv
  <2>16. ASSUME NEW w \in Workers, ReadPlanning(w) PROVE OpenInv'
    <3>1. EventsOpen'
      BY <2>16, <2>0, NoneWritten DEF ReadPlanning
    <3>3. UNCHANGED hits /\ stored \subseteq stored'
      BY <2>16 DEF ReadPlanning
    <3>4. \A v \in Workers \ {w} : pc'[v] = pc[v] /\ msg'[v] = msg[v] /\ orig'[v] = orig[v]
      BY <2>16, <2>0 DEF ReadPlanning, RequestsOK
    <3>5. pc'[w] \in {"merge"}
      BY <2>16, <2>0 DEF ReadPlanning, RequestsOK
    <3> QED
      BY <3>1, <3>3, <3>4, <3>5, <2>0, ElsewhereOpen DEF OpenInv
  <2>17. ASSUME NEW w \in Workers, MergeCoverages(w) PROVE OpenInv'
    <3>1. EventsOpen'
      <4>1. /\ target[w] \in Guids /\ doc[target[w]] \in Document
            /\ target[w] \in Events
        <5>1. pc[w] = "merge"
          BY <2>17 DEF MergeCoverages
        <5> QED
          BY <5>1, <2>0 DEF InputsOK, AgendaOK
      <4> DEFINE shown == [c \in Coverages |-> IF plan[w].coverages[c] = "absent"
                               THEN orig[w].coverages[c] ELSE plan[w].coverages[c]]
                 ids == IF msg[w].guid \in orig[w].planning_ids THEN doc[target[w]].planning_ids
                        ELSE orig[w].planning_ids \cup {msg[w].guid}
      <4>2. \/ doc' = [doc EXCEPT ![target[w]] = [doc[target[w]] EXCEPT !.planning_ids = ids]]
            \/ doc' = [doc EXCEPT ![target[w]] =
                         [doc[target[w]] EXCEPT !.planning_ids = ids, !.coverages = shown]]
        BY <2>17, <2>0, <4>1 DEF MergeCoverages, AgendaOK
      <4> HIDE DEF ids, shown
      <4>3. \A p \in Plans :
               /\ Embeds([doc[target[w]] EXCEPT !.planning_ids = ids], p) => p \in stored
               /\ Embeds([doc[target[w]] EXCEPT !.planning_ids = ids, !.coverages = shown], p) => p \in stored
        BY <2>0, <4>1 DEF EventsOpen, Embeds, Document
      <4>4. stored' = stored
        BY <2>17 DEF MergeCoverages
      <4> QED
        BY <2>0, <4>1, <4>2, <4>3, <4>4, WriteOpen
    <3>3. UNCHANGED hits /\ stored \subseteq stored'
      BY <2>17 DEF MergeCoverages
    <3>4. \A v \in Workers \ {w} : pc'[v] = pc[v] /\ msg'[v] = msg[v] /\ orig'[v] = orig[v]
      BY <2>17, <2>0 DEF MergeCoverages, RequestsOK
    <3>5. pc'[w] \in {"related"}
      BY <2>17, <2>0 DEF MergeCoverages, RequestsOK
    <3> QED
      BY <3>1, <3>3, <3>4, <3>5, <2>0, ElsewhereOpen DEF OpenInv
  <2>18. ASSUME NEW w \in Workers, PlanningDone(w) PROVE OpenInv'
    <3>1. EventsOpen'
      BY <2>18, <2>0, NoneWritten DEF PlanningDone
    <3>2. End(w) /\ stored' = stored
      BY <2>18 DEF PlanningDone, Done
    <3> QED
      BY <3>1, <3>2, <2>0, EndOpen DEF OpenInv
  <2>19. ASSUME NEW w \in Workers, FindCoverage(w) PROVE OpenInv'
    <3>1. EventsOpen'
      BY <2>19, <2>0, NoneWritten DEF FindCoverage
    <3>2. UNCHANGED <<stored, msg, orig>>
      BY <2>19 DEF FindCoverage
    <3>3. \A v \in Workers : hits'[v] = IF v = w THEN doc ELSE hits[v]
      BY <2>19, <2>0 DEF FindCoverage, RequestsOK
    <3>4. \A v \in Workers : pc'[v] = IF v = w THEN "deliver" ELSE pc[v]
      BY <2>19, <2>0 DEF FindCoverage, RequestsOK
    <3> QED
      BY <3>1, <3>2, <3>3, <3>4, <2>0 DEF OpenInv, EventsOpen, HitsOpen, ReadOpen, OwnFirst
  <2>20. ASSUME NEW w \in Workers, NEW g \in Guids, Deliver(w, g) PROVE OpenInv'
    <3> DEFINE c == msg[w].guid
               p == PlanOf[c]
               h == hits[w][g]
               shown == [h.coverages EXCEPT ![c] = "completed"]
               items == [h.planning_items EXCEPT ![p].coverages[c] = "completed"]
    <3>0. pc[w] = "deliver" /\ stored' = stored /\ UNCHANGED <<hits, pc, msg, orig>>
      BY <2>20 DEF Deliver
    <3>a. c \in Coverages /\ p \in Plans
      <4>1. msg[w] \in Message /\ msg[w].type = "text"
        BY <3>0, <2>0 DEF RequestsOK, InputsOK, NoMessage
      <4> QED
        BY <4>1, AgendaAssumption DEF Message
    <3>b. h \in Document /\ doc[g] \in Document
      BY <2>0 DEF RequestsOK, AgendaOK
    <3>c. h.planning_items \in [Plans -> PlanningItem]
      BY <3>b, DocumentFields
    <3>1. EventsOpen'
      <4> DEFINE x == [doc[g] EXCEPT !.coverages = shown, !.planning_items = items]
                 y == [doc[g] EXCEPT !.coverages = shown]
      <4>1. CASE g \notin Events
        BY <4>1, <2>20, <2>0, NoneWritten DEF Deliver, AgendaOK
      <4>2. CASE g \in Events /\ h.planning_items[p].coverages[c] # "absent"
        <5>1. doc' = [doc EXCEPT ![g] = x]
          BY <2>20, <2>0, <4>2 DEF Deliver, AgendaOK
        <5>2. h.planning_items[p] # NoItem
          <6>1. NoItem.coverages[c] = "absent"
            BY <3>a DEF NoItem
          <6> QED
            BY <4>2, <6>1
        <5>3. \A q \in Plans : h.planning_items[q] # NoItem => q \in stored
          BY <2>0, <4>2 DEF HitsOpen, Embeds
        <5>4. \A q \in Plans \ {p} : items[q] = h.planning_items[q]
          BY <3>c
        <5>5. x.planning_items = items
          BY <3>b DEF Document
        <5> HIDE DEF x, items, p
        <5>6. \A q \in Plans : Embeds(x, q) => q \in stored
          BY <5>2, <5>3, <5>4, <5>5, <3>a DEF Embeds
        <5> QED
          BY <2>0, <3>0, <5>1, <5>6, WriteOpen
      <4>3. CASE g \in Events /\ h.planning_items[p].coverages[c] = "absent"
        <5>1. doc' = [doc EXCEPT ![g] = y]
          BY <2>20, <2>0, <4>3 DEF Deliver, AgendaOK
        <5>2. \A q \in Plans : Embeds(y, q) => q \in stored
          BY <2>0, <3>b, <4>3 DEF EventsOpen, Embeds, Document
        <5> HIDE DEF y
        <5> QED
          BY <2>0, <3>0, <5>1, <5>2, WriteOpen
      <4> QED
        BY <4>1, <4>2, <4>3
    <3> QED
      BY <3>0, <3>1, <2>0 DEF OpenInv, HitsOpen, ReadOpen, OwnFirst
  <2>21. ASSUME NEW w \in Workers, TextDone(w) PROVE OpenInv'
    <3>1. EventsOpen'
      BY <2>21, <2>0, NoneWritten DEF TextDone
    <3>2. End(w) /\ stored' = stored
      BY <2>21 DEF TextDone, Done
    <3> QED
      BY <3>1, <3>2, <2>0, EndOpen DEF OpenInv
  <2>22. ASSUME NEW w \in Workers, Conflict(w) PROVE OpenInv'
    <3>1. EventsOpen'
      BY <2>22, <2>0, NoneWritten DEF Conflict
    <3>2. End(w) /\ stored' = stored
      BY <2>22 DEF Conflict
    <3> QED
      BY <3>1, <3>2, <2>0, EndOpen DEF OpenInv
  <2>23. ASSUME NEW w \in Workers, Fail(w) PROVE OpenInv'
    <3>1. EventsOpen'
      BY <2>23, <2>0, NoneWritten DEF Fail
    <3>2. End(w) /\ stored' = stored
      BY <2>23 DEF Fail
    <3> QED
      BY <3>1, <3>2, <2>0, EndOpen DEF OpenInv
  <2>24. ASSUME NEW w \in Workers, FailDelivery(w) PROVE OpenInv'
    <3>1. EventsOpen'
      BY <2>24, <2>0, NoneWritten DEF FailDelivery
    <3>2. End(w) /\ stored' = stored
      BY <2>24 DEF FailDelivery, Done
    <3> QED
      BY <3>1, <3>2, <2>0, EndOpen DEF OpenInv
  <2>25. CASE UNCHANGED vars
    BY <2>25, <2>0 DEF vars, OpenInv, EventsOpen, HitsOpen, ReadOpen, OwnFirst
  <2> QED
    BY <2>1, <2>2, <2>3, <2>4, <2>5, <2>6, <2>7, <2>8, <2>9, <2>10, <2>11, <2>12,
       <2>13, <2>14, <2>15, <2>16, <2>17, <2>18, <2>19, <2>20, <2>21, <2>22, <2>23, <2>24, <2>25
    DEF Next, Superdesk, EventStep, PlanningStep, TextStep
<1>3. OpenInv => PlanningsOpen
  BY DEF OpenInv, EventsOpen, Embeds, PlanningsOpen
<1> QED
  BY <1>1, <1>2, <1>3, TypeCorrect, PTL DEF Spec

-----------------------------------------------------------------------------
(* One message at a time *)

\* A request that handles a message is alone with it.
LEMMA AtWork ==
    ASSUME TypeOK, OneInv, NEW w \in Workers, pc[w] # "idle"
    PROVE  /\ msg[w] \in Message /\ outstanding = {msg[w]}
           /\ \A v \in Workers \ {w} : pc[v] = "idle"
  BY DEF TypeOK, FeedOK, OneInv

\* A request that handles no message has read and written nothing.
LEMMA AtRest ==
    ASSUME NEW w \in Workers, pc'[w] = "idle"
    PROVE  ReadInv(w)' /\ WrittenInv(w)'
  BY DEF ReadInv, WrittenInv

\* A step of a request that goes on disturbs no other request.
LEMMA GoesOn ==
    ASSUME TypeOK, OneByOneInv, NEW w \in Workers, pc[w] # "idle", pc'[w] # "idle",
           \A v \in Workers \ {w} : pc'[v] = pc[v],
           UNCHANGED <<outstanding, msg, superdeskVars>>,
           ReadInv(w)', WrittenInv(w)', CurrentInv', PlanInv', EventInv'
    PROVE  OneByOneInv'
<1>1. OneInv /\ MessageInv
  BY DEF OneByOneInv
<1>2. outstanding = {msg[w]} /\ \A v \in Workers \ {w} : pc'[v] = "idle"
  BY <1>1, AtWork
<1>3. OneInv'
  BY <1>1, <1>2 DEF OneInv
<1>4. MessageInv'
  BY <1>1 DEF MessageInv, superdeskVars
<1>5. \A v \in Workers : ReadInv(v)' /\ WrittenInv(v)'
  BY <1>2, AtRest
<1> QED
  BY <1>3, <1>4, <1>5 DEF OneByOneInv

\* When a request ends there is none left, and its message is done or waits again.
LEMMA Ends ==
    ASSUME TypeOK, OneByOneInv, NEW w \in Workers, pc[w] # "idle", End(w),
           outstanding' = outstanding \/ outstanding' = outstanding \ {msg[w]},
           UNCHANGED superdeskVars,
           CurrentInv', PlanInv', EventInv'
    PROVE  OneByOneInv'
<1>1. OneInv /\ MessageInv
  BY DEF OneByOneInv
<1>2. outstanding = {msg[w]} /\ \A v \in Workers \ {w} : pc[v] = "idle"
  BY <1>1, AtWork
<1>3. \A v \in Workers : pc'[v] = "idle"
  BY <1>2 DEF End, Goto, TypeOK, RequestsOK
<1>4. IsFiniteSet(outstanding')
  BY <1>1, <1>2, FS_EmptySet DEF OneInv
<1>5. OneInv'
  BY <1>2, <1>3, <1>4 DEF OneInv
<1>6. MessageInv'
  BY <1>1 DEF MessageInv, superdeskVars
<1>7. \A v \in Workers : ReadInv(v)' /\ WrittenInv(v)'
  BY <1>3, AtRest
<1> QED
  BY <1>5, <1>6, <1>7 DEF OneByOneInv

\* Neither do the documents change in what the invariants say of them.
DocsKept ==
    /\ stored' = stored
    /\ \A g \in Guids :
        /\ doc'[g].event = doc[g].event
        /\ doc'[g].versioncreated = doc[g].versioncreated
        /\ doc'[g].event_id = doc[g].event_id
        /\ \A p \in Plans :
            /\ Shown(g, p)' # NoItem <=> Shown(g, p) # NoItem
            /\ Shown(g, p)'.version = Shown(g, p).version

LEMMA KeptInv ==
    ASSUME TypeOK, CurrentInv, PlanInv, EventInv, DocsKept, UNCHANGED histVars,
           posted' \in Nat, posted <= posted', linked \subseteq linked',
           \A m \in outstanding' : m \in outstanding \/ m.version = posted + 1,
           \A p \in Plans : Settled(p)' => Settled(p)
    PROVE  CurrentInv' /\ PlanInv' /\ EventInv'
<1> USE DEF histVars
<1>0. posted \in Nat /\ \A e \in Events : doc[e].versioncreated \in Nat
  BY DocumentFields DEF TypeOK, FeedOK, AgendaOK
<1>1. CurrentInv'
  <2>1. \A e \in Events : e \in stored' => doc'[e].event = newest'[e]
    BY DEF CurrentInv, DocsKept
  <2>2. \A e \in Events : doc'[e].versioncreated = doc[e].versioncreated /\ doc[e].versioncreated <= posted
    BY DEF CurrentInv, DocsKept
  <2>3. \A e \in Events : doc'[e].versioncreated <= posted'
    BY <1>0, <2>2
  <2>4. ASSUME NEW m \in outstanding', m.type = "event", NEW e \in Events
        PROVE  doc'[e].versioncreated < m.version
    <3>1. CASE m \in outstanding
      BY <2>2, <2>4, <3>1 DEF CurrentInv
    <3>2. CASE m.version = posted + 1
      BY <1>0, <2>2, <3>2
    <3> QED
      BY <3>1, <3>2
  <2> QED
    BY <2>1, <2>3, <2>4 DEF CurrentInv
<1>2. PlanInv'
  BY DEF PlanInv, DocsKept
<1>3. EventInv'
  <2> SUFFICES ASSUME NEW e \in Events, NEW p \in Plans
               PROVE  /\ p \in due'[e] => p \in linked' \cap stored' /\ EventOf[p] = e
                      /\ e \in stored' /\ p \in due'[e] /\ Settled(p)' => Shown(e, p)' # NoItem
                      /\ e \in stored' /\ Shown(e, p)' # NoItem =>
                            /\ p \in linked' \cap stored' /\ EventOf[p] = e /\ doc'[p].event_id = e
                            /\ Settled(p)' => Shown(e, p)'.version = latest'[p]
    BY DEF EventInv
  <2>1. /\ stored' = stored /\ linked \subseteq linked' /\ due' = due /\ latest' = latest
        /\ doc'[p].event_id = doc[p].event_id
        /\ Shown(e, p)' # NoItem <=> Shown(e, p) # NoItem
        /\ Shown(e, p)'.version = Shown(e, p).version
        /\ Settled(p)' => Settled(p)
    BY DEF DocsKept
  <2> QED
    BY <2>1 DEF EventInv
<1> QED
  BY <1>1, <1>2, <1>3

\* Superdesk posts a message: it is the only one.
LEMMA PostStep ==
    ASSUME TypeOK, OneByOneInv, OneByOne = TRUE, NEW m, Post(m),
           m.version = posted + 1, linked \subseteq linked',
           m.type = "event" => m.plans = {p \in linked' : EventOf[p] = m.guid},
           m.type = "planning" => m.event = IF m.guid \in linked' THEN EventOf[m.guid] ELSE None
    PROVE  OneByOneInv'
<1>1. outstanding = {}
  BY FS_EmptySet DEF Post, OneByOneInv, OneInv
<1>2. /\ outstanding' = {m} /\ posted' = posted + 1 /\ posted \in Nat
      /\ UNCHANGED <<stored, doc, pc, histVars>>
      /\ \A w \in Workers : pc[w] = "idle"
  BY <1>1 DEF Post, agendaVars, TypeOK, FeedOK
<1>3. OneInv'
  BY <1>2, FS_Singleton DEF OneInv
<1>4. MessageInv'
  BY <1>2 DEF MessageInv
<1>5. \A w \in Workers : ReadInv(w)' /\ WrittenInv(w)'
  BY <1>2, AtRest
<1>6. DocsKept
  BY <1>2 DEF DocsKept, Shown
<1>7. \A p \in Plans : Settled(p)
  BY <1>1 DEF Settled
<1>8. CurrentInv' /\ PlanInv' /\ EventInv'
  BY <1>2, <1>6, <1>7, KeptInv DEF OneByOneInv
<1> QED
  BY <1>3, <1>4, <1>5, <1>8 DEF OneByOneInv

\* A step after which the documents, the feed and the history are as before.
LEMMA QuietKept ==
    ASSUME TypeOK, OneByOneInv, DocsKept, UNCHANGED <<superdeskVars, histVars>>,
           outstanding' \subseteq outstanding, \A p \in Plans : Settled(p)' => Settled(p)
    PROVE  CurrentInv' /\ PlanInv' /\ EventInv'
  BY KeptInv DEF OneByOneInv, superdeskVars, TypeOK, FeedOK

\* A request that only reads, or goes to another step.
LEMMA ReadStep ==
    ASSUME TypeOK, OneByOneInv, NEW w \in Workers, pc[w] # "idle", pc'[w] # "idle",
           UNCHANGED <<superdeskVars, outstanding, agendaVars, msg, histVars>>,
           \A v \in Workers \ {w} : pc'[v] = pc[v],
           ReadInv(w)', WrittenInv(w)'
    PROVE  OneByOneInv'
<1>1. DocsKept
  BY DEF DocsKept, Shown, agendaVars
<1>2. outstanding' \subseteq outstanding /\ \A p \in Plans : Settled(p)' => Settled(p)
  BY DEF Settled
<1>3. CurrentInv' /\ PlanInv' /\ EventInv'
  BY <1>1, <1>2, QuietKept
<1> QED
  BY <1>3, GoesOn

\* A request that ends without writing: of a story, or when something failed.
LEMMA EndStep ==
    ASSUME TypeOK, OneByOneInv, NEW w \in Workers, pc[w] # "idle", End(w),
           UNCHANGED <<superdeskVars, agendaVars, histVars>>,
           \/ outstanding' = outstanding
           \/ outstanding' = outstanding \ {msg[w]} /\ msg[w].type = "text"
    PROVE  OneByOneInv'
<1>1. DocsKept
  BY DEF DocsKept, Shown, agendaVars
<1>2. outstanding' \subseteq outstanding /\ \A p \in Plans : Settled(p)' => Settled(p)
  BY DEF Settled
<1>3. CurrentInv' /\ PlanInv' /\ EventInv'
  BY <1>1, <1>2, QuietKept
<1> QED
  BY <1>3, Ends

\* An event's message is done: its document d shows shows.
LEMMA EventStepDone ==
    ASSUME TypeOK, OneByOneInv, NEW w \in Workers, pc[w] \in {"create", "update"},
           NEW d \in Document, NEW shows \in SUBSET Plans, EventDone(w, shows),
           doc' = [doc EXCEPT ![msg[w].guid] = d], stored' = stored \cup {msg[w].guid},
           d.event = msg[w].version, d.versioncreated <= posted,
           \A p \in shows : p \in linked \cap stored /\ EventOf[p] = msg[w].guid /\ d.planning_items[p] # NoItem,
           \A p \in Plans : d.planning_items[p] # NoItem =>
                /\ p \in linked \cap stored /\ EventOf[p] = msg[w].guid /\ doc[p].event_id = msg[w].guid
                /\ d.planning_items[p].version = latest[p]
    PROVE  OneByOneInv'
<1> DEFINE e == msg[w].guid
<1>1. OneInv /\ CurrentInv /\ PlanInv /\ EventInv
  BY DEF OneByOneInv
<1>2. msg[w] \in Message /\ outstanding = {msg[w]} /\ msg[w].type = "event"
  BY <1>1, AtWork DEF TypeOK, InputsOK
<1>3. e \in Events /\ e \notin Plans
  BY <1>2, EventMessage, AgendaAssumption
<1>4. /\ outstanding' = {} /\ UNCHANGED <<superdeskVars, latest>> /\ End(w)
      /\ newest' = [newest EXCEPT ![e] = msg[w].version] /\ due' = [due EXCEPT ![e] = shows]
  BY <1>2 DEF EventDone, Done
<1>5. UNCHANGED <<posted, linked>>
  BY <1>4 DEF superdeskVars
<1>6. \A p \in Plans : Settled(p) /\ Settled(p)'
  BY <1>2, <1>4 DEF Settled
<1>7. doc'[e] = d /\ \A g \in Guids : g # e => doc'[g] = doc[g]
  BY <1>3 DEF TypeOK, AgendaOK
<1>8. newest'[e] = msg[w].version /\ \A f \in Events : f # e => newest'[f] = newest[f]
  BY <1>3, <1>4 DEF TypeOK, HistoryOK
<1>9. due'[e] = shows /\ \A f \in Events : f # e => due'[f] = due[f]
  BY <1>3, <1>4 DEF TypeOK, HistoryOK
<1>10. CurrentInv'
  BY <1>1, <1>3, <1>4, <1>5, <1>7, <1>8 DEF CurrentInv
<1>11. PlanInv'
  BY <1>1, <1>3, <1>4, <1>6, <1>7 DEF PlanInv, Shown
<1>12. EventInv'
  <2> SUFFICES ASSUME NEW f \in Events, NEW p \in Plans
               PROVE  /\ p \in due'[f] => p \in linked' \cap stored' /\ EventOf[p] = f
                      /\ f \in stored' /\ p \in due'[f] => Shown(f, p)' # NoItem
                      /\ f \in stored' /\ Shown(f, p)' # NoItem =>
                            /\ p \in linked' \cap stored' /\ EventOf[p] = f /\ doc'[p].event_id = f
                            /\ Shown(f, p)'.version = latest'[p]
    BY DEF EventInv
  <2>1. doc'[p] = doc[p]
    BY <1>3, <1>7
  <2>2. CASE f = e
    BY <1>4, <1>5, <1>7, <1>9, <2>1, <2>2 DEF Shown
  <2>3. CASE f # e
    BY <1>1, <1>4, <1>5, <1>6, <1>7, <1>9, <2>1, <2>3 DEF EventInv, Shown
  <2> QED
    BY <2>2, <2>3
<1> QED
  BY <1>2, <1>4, <1>10, <1>11, <1>12, Ends

\* What an event that exists shows meets the conditions of EventStepDone.
LEMMA ShownBefore ==
    ASSUME TypeOK, OneByOneInv, NEW w \in Workers, pc[w] = "update"
    PROVE  /\ msg[w] \in Message /\ msg[w].type = "event" /\ msg[w].guid \in Events \cap stored
           /\ orig[w] = doc[msg[w].guid] /\ orig[w] \in Document
           /\ posted = msg[w].version /\ msg[w].version \in Nat
           /\ doc[msg[w].guid].versioncreated < posted
           /\ \A p \in due[msg[w].guid] : p \in linked \cap stored /\ EventOf[p] = msg[w].guid
                                             /\ orig[w].planning_items[p] # NoItem
           /\ \A p \in Plans : orig[w].planning_items[p] # NoItem =>
                /\ p \in linked \cap stored /\ EventOf[p] = msg[w].guid /\ doc[p].event_id = msg[w].guid
                /\ orig[w].planning_items[p].version = latest[p]
<1>1. OneInv /\ MessageInv /\ ReadInv(w) /\ CurrentInv /\ EventInv
  BY DEF OneByOneInv
<1>2. msg[w] \in Message /\ outstanding = {msg[w]} /\ msg[w].type = "event"
  BY <1>1, AtWork DEF TypeOK, InputsOK
<1>3. msg[w].guid \in Events /\ msg[w].version \in Nat
  BY <1>2, EventMessage
<1>4. msg[w].guid \in stored /\ orig[w] = doc[msg[w].guid] /\ orig[w] \in Document
  BY <1>1 DEF ReadInv, TypeOK, RequestsOK
<1>5. posted = msg[w].version /\ doc[msg[w].guid].versioncreated < posted
  BY <1>1, <1>2, <1>3 DEF MessageInv, CurrentInv
<1>6. (\A p \in Plans : Settled(p)) /\ due[msg[w].guid] \subseteq Plans
  BY <1>2, <1>3 DEF Settled, TypeOK, HistoryOK
<1> QED
  BY <1>1, <1>2, <1>3, <1>4, <1>5, <1>6 DEF EventInv, Shown

\* A cancellation ...
LEMMA CancelStep ==
    ASSUME TypeOK, OneByOneInv, NEW w \in Workers, CancelEvent(w)
    PROVE  OneByOneInv'
<1> DEFINE e == msg[w].guid
           d == [doc[e] EXCEPT !.event = msg[w].version,
                    !.planning_items = orig[w].planning_items, !.coverages = orig[w].coverages]
<1>1. pc[w] = "update" /\ stored' = stored /\ EventDone(w, due[e])
  BY DEF CancelEvent
<1>2. /\ msg[w] \in Message /\ msg[w].type = "event" /\ e \in Events \cap stored
      /\ orig[w] = doc[e] /\ orig[w] \in Document /\ posted = msg[w].version /\ msg[w].version \in Nat
      /\ doc[e].versioncreated < posted
  BY <1>1, ShownBefore
<1>3. doc' = [doc EXCEPT ![e] = d]
  BY <1>2 DEF CancelEvent, TypeOK, AgendaOK
<1>4. d \in Document
  BY <1>2, EmbedType
<1>5. d.event = msg[w].version /\ d.versioncreated = doc[e].versioncreated
      /\ d.planning_items = orig[w].planning_items
  BY <1>2 DEF Document
<1>6. doc[e].versioncreated \in Nat /\ posted \in Nat
  BY <1>2, DocumentFields
<1>7. d.versioncreated <= posted
  BY <1>2, <1>5, <1>6
<1>8. due[e] \in SUBSET Plans /\ stored' = stored \cup {e}
  BY <1>1, <1>2 DEF TypeOK, HistoryOK
<1>9. \A p \in due[e] : p \in linked \cap stored /\ EventOf[p] = e /\ d.planning_items[p] # NoItem
  BY <1>1, <1>5, ShownBefore
<1>10. \A p \in Plans : d.planning_items[p] # NoItem =>
            /\ p \in linked \cap stored /\ EventOf[p] = e /\ doc[p].event_id = e
            /\ d.planning_items[p].version = latest[p]
  BY <1>1, <1>5, ShownBefore
<1> HIDE DEF d
<1> QED
  BY <1>1, <1>3, <1>4, <1>5, <1>7, <1>8, <1>9, <1>10, EventStepDone

\* ... a new date ...
LEMMA PostponeStep ==
    ASSUME TypeOK, OneByOneInv, NEW w \in Workers, PostponeEvent(w)
    PROVE  OneByOneInv'
<1> DEFINE e == msg[w].guid
           x == WithEvent(doc[e], msg[w])
           d == WithItems(x, Empty.planning_items)
<1>1. pc[w] = "update" /\ stored' = stored /\ EventDone(w, {}) /\ doc' = [doc EXCEPT ![e] = d]
  BY DEF PostponeEvent
<1>2. /\ msg[w] \in Message /\ msg[w].type = "event" /\ e \in Events \cap stored
      /\ orig[w] = doc[e] /\ orig[w] \in Document /\ posted = msg[w].version /\ msg[w].version \in Nat
  BY <1>1, ShownBefore
<1>3. x \in Document /\ x.event = msg[w].version /\ x.versioncreated = msg[w].version
  <2>1. x \in Document
    BY <1>2, EditsType
  <2> QED
    BY <1>2, <2>1 DEF WithEvent, Document
<1>4. Empty.planning_items \in [Plans -> PlanningItem]
  BY EmptyType, DocumentFields
<1>5. d \in Document
  BY <1>3, <1>4, WithItemsType
<1>6. d.event = x.event /\ d.versioncreated = x.versioncreated /\ d.planning_items = Empty.planning_items
  BY <1>3 DEF WithItems, Document
<1>7. \A p \in Plans : d.planning_items[p] = NoItem
  BY <1>6 DEF Empty
<1>8. d.event = msg[w].version /\ d.versioncreated <= posted /\ stored' = stored \cup {e} /\ {} \in SUBSET Plans
  BY <1>1, <1>2, <1>3, <1>6
<1> HIDE DEF d
<1> QED
  BY <1>1, <1>5, <1>7, <1>8, EventStepDone

\* ... and any other change, which is newer than the document.
LEMMA UpdateStep ==
    ASSUME TypeOK, OneByOneInv, NEW w \in Workers, UpdateEvent(w)
    PROVE  OneByOneInv'
<1> DEFINE e == msg[w].guid
           x == WithEvent(doc[e], msg[w])
           d == [x EXCEPT !.planning_items = orig[w].planning_items, !.coverages = orig[w].coverages]
<1>1. pc[w] = "update" /\ stored' = stored /\ EventDone(w, due[e])
  BY DEF UpdateEvent
<1>2. /\ msg[w] \in Message /\ msg[w].type = "event" /\ e \in Events \cap stored
      /\ orig[w] = doc[e] /\ orig[w] \in Document /\ posted = msg[w].version /\ msg[w].version \in Nat
      /\ doc[e].versioncreated < posted
  BY <1>1, ShownBefore
<1>3. ~(msg[w].version <= orig[w].versioncreated)
  <2>1. doc[e].versioncreated \in Nat
    BY <1>2, DocumentFields
  <2> QED
    BY <1>2, <2>1
<1>4. doc' = [doc EXCEPT ![e] = d]
  BY <1>2, <1>3 DEF UpdateEvent, TypeOK, AgendaOK
<1>5. x \in Document /\ x.event = msg[w].version /\ x.versioncreated = msg[w].version
  <2>1. x \in Document
    BY <1>2, EditsType
  <2> QED
    BY <1>2, <2>1 DEF WithEvent, Document
<1>6. d \in Document
  BY <1>2, <1>5, EmbedType
<1>7. d.event = x.event /\ d.versioncreated = x.versioncreated /\ d.planning_items = orig[w].planning_items
  BY <1>2, <1>5 DEF Document
<1>8. d.event = msg[w].version /\ d.versioncreated <= posted
      /\ due[e] \in SUBSET Plans /\ stored' = stored \cup {e}
  BY <1>1, <1>2, <1>5, <1>7 DEF TypeOK, HistoryOK
<1>9. \A p \in due[e] : p \in linked \cap stored /\ EventOf[p] = e /\ d.planning_items[p] # NoItem
  BY <1>1, <1>7, ShownBefore
<1>10. \A p \in Plans : d.planning_items[p] # NoItem =>
            /\ p \in linked \cap stored /\ EventOf[p] = e /\ doc[p].event_id = e
            /\ d.planning_items[p].version = latest[p]
  BY <1>1, <1>7, ShownBefore
<1> HIDE DEF d
<1> QED
  BY <1>1, <1>4, <1>6, <1>8, <1>9, <1>10, EventStepDone

\* A new event shows the plannings it names that are there.
LEMMA CreateStep ==
    ASSUME TypeOK, OneByOneInv, NEW w \in Workers, CreateEvent(w)
    PROVE  OneByOneInv'
<1> DEFINE m == msg[w]
           e == m.guid
           d == WithEvent(orig[w], m)
           found == m.plans \cap stored
           shows == due[e] \cup {p \in m.plans : p \in stored /\ doc[p].planning_items[p].state = "scheduled"}
<1>1. /\ pc[w] = "create" /\ todo[w] = {} /\ stored' = stored \cup {e}
      /\ doc' = [doc EXCEPT ![e] = d] /\ EventDone(w, shows) /\ e \notin stored
  BY DEF CreateEvent
<1>2. OneInv /\ MessageInv /\ ReadInv(w) /\ PlanInv /\ EventInv
  BY DEF OneByOneInv
<1>3. m \in Message /\ m.type = "event" /\ outstanding = {m}
  BY <1>1, <1>2, AtWork DEF TypeOK, InputsOK
<1>4. e \in Events /\ m.version \in Nat /\ m.plans \subseteq Plans
  BY <1>3, EventMessage
<1>5. m.version = posted /\ m.plans = {p \in linked : EventOf[p] = e}
  BY <1>2, <1>3 DEF MessageInv
<1>6. d \in Document /\ d.event = m.version /\ d.versioncreated = m.version
      /\ d.planning_items = orig[w].planning_items
  <2>1. orig[w] \in Document
    BY DEF TypeOK, RequestsOK
  <2>2. d \in Document
    BY <1>3, <2>1, EditsType
  <2> QED
    BY <2>1, <2>2 DEF WithEvent, Document
<1>7. \A p \in Plans : d.planning_items[p] = IF p \in found THEN Shown(p, p) ELSE NoItem
  BY <1>1, <1>2, <1>6 DEF ReadInv
<1>8. \A p \in Plans : Settled(p)
  BY <1>3 DEF Settled
<1>9. ASSUME NEW p \in found
      PROVE  /\ p \in Plans /\ p \in linked \cap stored /\ EventOf[p] = e /\ Shown(p, p) # NoItem
             /\ Shown(p, p).version = latest[p] /\ doc[p].event_id = e
  <2>1. p \in Plans /\ p \in linked \cap stored /\ EventOf[p] = e
    BY <1>4, <1>5
  <2>2. Shown(p, p) # NoItem /\ Shown(p, p).version = latest[p] /\ doc[p].event_id \in {None, e}
    BY <1>2, <1>8, <2>1 DEF PlanInv
  <2>3. doc[p].event_id # None
    BY <1>1, <1>2 DEF ReadInv
  <2> QED
    BY <2>1, <2>2, <2>3
<1>10. due[e] \subseteq found
  BY <1>2, <1>4, <1>5 DEF EventInv, TypeOK, HistoryOK
<1>11. shows \subseteq found /\ shows \in SUBSET Plans
  BY <1>4, <1>10
<1>12. \A p \in shows : p \in linked \cap stored /\ EventOf[p] = e /\ d.planning_items[p] # NoItem
  BY <1>7, <1>9, <1>11
<1>13. \A p \in Plans : d.planning_items[p] # NoItem =>
            /\ p \in linked \cap stored /\ EventOf[p] = e /\ doc[p].event_id = e
            /\ d.planning_items[p].version = latest[p]
  BY <1>7, <1>9
<1>14. d.versioncreated <= posted
  BY <1>4, <1>5, <1>6
<1>15. pc[w] \in {"create", "update"}
  BY <1>1
<1>16. /\ EventDone(w, shows) /\ doc' = [doc EXCEPT ![e] = d] /\ stored' = stored \cup {e}
       /\ d \in Document /\ shows \in SUBSET Plans /\ d.event = m.version
  BY <1>1, <1>6, <1>11
<1> HIDE DEF d, shows, found
<1> QED
  BY <1>12, <1>13, <1>14, <1>15, <1>16, EventStepDone

\* A planning gets its event_id.
LEMMA LinkStep ==
    ASSUME TypeOK, OneByOneInv, NEW w \in Workers, NEW p \in Plans, LinkPlanning(w, p)
    PROVE  OneByOneInv'
<1> DEFINE m == msg[w]
           d == [doc[p] EXCEPT !.event_id = m.guid]
<1>1. /\ pc[w] = "create" /\ p \in todo[w]
      /\ UNCHANGED <<superdeskVars, outstanding, stored, pc, msg, orig, histVars>>
      /\ todo' = [todo EXCEPT ![w] = @ \ {p}]
  BY DEF LinkPlanning
<1>2. OneInv /\ MessageInv /\ ReadInv(w) /\ CurrentInv /\ PlanInv /\ EventInv
  BY DEF OneByOneInv
<1>3. m \in Message /\ m.type = "event" /\ outstanding = {m}
  BY <1>1, <1>2, AtWork DEF TypeOK, InputsOK
<1>4. m.guid \in Events /\ m.guid # None /\ m.plans = {q \in linked : EventOf[q] = m.guid}
  BY <1>2, <1>3, EventMessage, AgendaAssumption DEF MessageInv
<1>5. p \in m.plans \cap stored /\ p \notin Events
  BY <1>1, <1>2, AgendaAssumption DEF ReadInv
<1>6. doc[p] \in Document /\ doc' = [doc EXCEPT ![p] = d]
  BY DEF LinkPlanning, TypeOK, AgendaOK
<1>7. d.planning_items = doc[p].planning_items /\ d.event_id = m.guid
  BY <1>6 DEF Document
<1>8. doc'[p] = d /\ \A g \in Guids : g # p => doc'[g] = doc[g]
  BY <1>6 DEF TypeOK, AgendaOK
<1>9. /\ \A g \in Guids, q \in Plans : Shown(g, q)' = Shown(g, q)
      /\ \A q \in Plans : Settled(q)' <=> Settled(q)
  BY <1>1, <1>7, <1>8 DEF Shown, Settled
<1>10. todo'[w] = todo[w] \ {p}
  BY <1>1 DEF TypeOK, RequestsOK
<1>11. UNCHANGED <<linked, posted, latest, newest, due>>
  BY <1>1 DEF superdeskVars, histVars
<1> HIDE DEF d
<1>12. CurrentInv'
  BY <1>1, <1>2, <1>5, <1>8, <1>11 DEF CurrentInv
<1>13. PlanInv'
  BY <1>1, <1>2, <1>4, <1>5, <1>7, <1>8, <1>9, <1>11 DEF PlanInv
<1>14. EventInv'
  <2> SUFFICES ASSUME NEW e \in Events, NEW q \in Plans
               PROVE  /\ q \in due'[e] => q \in linked' \cap stored' /\ EventOf[q] = e
                      /\ e \in stored' /\ q \in due'[e] /\ Settled(q)' => Shown(e, q)' # NoItem
                      /\ e \in stored' /\ Shown(e, q)' # NoItem =>
                            /\ q \in linked' \cap stored' /\ EventOf[q] = e /\ doc'[q].event_id = e
                            /\ Settled(q)' => Shown(e, q)'.version = latest'[q]
    BY DEF EventInv
  <2>1. Shown(e, q)' = Shown(e, q) /\ (Settled(q)' <=> Settled(q))
    BY <1>9
  <2>2. doc'[q] = doc[q] \/ (q = p /\ EventOf[q] = m.guid /\ doc'[q].event_id = m.guid)
    BY <1>4, <1>5, <1>7, <1>8
  <2> QED
    BY <1>1, <1>2, <1>11, <2>1, <2>2 DEF EventInv
<1>15. ReadInv(w)'
  <2>1. \A q \in Plans : q # p => doc'[q] = doc[q]
    BY <1>8
  <2>2. orig'[w].planning_items = [q \in Plans |-> IF q \in m.plans \cap stored' THEN Shown(q, q)' ELSE NoItem]
    BY <1>1, <1>2, <1>9 DEF ReadInv
  <2>3. m.plans \cap stored \subseteq Plans
    BY <1>3, EventMessage
  <2>4. todo'[w] = {q \in m.plans \cap stored' : doc'[q].event_id = None}
    <3>1. todo[w] = {q \in m.plans \cap stored : doc[q].event_id = None}
      BY <1>1, <1>2 DEF ReadInv
    <3> QED
      BY <1>1, <1>4, <1>7, <1>8, <1>10, <2>1, <2>3, <3>1
  <2> QED
    BY <1>1, <2>2, <2>4 DEF ReadInv
<1>16. WrittenInv(w)'
  BY <1>1 DEF WrittenInv
<1> QED
  BY <1>1, <1>12, <1>13, <1>14, <1>15, <1>16, GoesOn

\* What a planning's request works on.
LEMMA PlanningMessage ==
    ASSUME TypeOK, OneByOneInv, NEW w \in Workers,
           pc[w] \in {"own", "event", "embed", "related", "plan", "merge"}
    PROVE  LET m == msg[w] IN
           /\ m \in Message /\ m.type = "planning" /\ outstanding = {m}
           /\ m.guid \in Plans /\ m.guid \notin Events /\ m.version \in Nat /\ m.version = posted
           /\ m.event # None => m.event = EventOf[m.guid] /\ m.guid \in linked
           /\ m.event = None => m.guid \notin linked \/ EventOf[m.guid] = None
           /\ ItemOf(m) # NoItem /\ ItemOf(m).version = m.version
           /\ ~Settled(m.guid) /\ \A p \in Plans : p # m.guid => Settled(p)
<1> DEFINE m == msg[w]
<1>1. OneInv /\ MessageInv
  BY DEF OneByOneInv
<1>2. m \in Message /\ m.type = "planning" /\ outstanding = {m}
  BY <1>1, AtWork DEF TypeOK, InputsOK
<1>3. m.guid \in Plans /\ m.version \in Nat /\ m.state \in PlanStates
  BY <1>2 DEF Message
<1>4. m.version = posted /\ m.event = IF m.guid \in linked THEN EventOf[m.guid] ELSE None
  BY <1>1, <1>2 DEF MessageInv
<1>5. ItemOf(m) # NoItem /\ ItemOf(m).version = m.version
  <2>1. ItemOf(m).state = m.state /\ NoItem.state = "none" /\ ItemOf(m).version = m.version
    BY DEF ItemOf, NoItem
  <2> QED
    BY <1>3, <2>1 DEF PlanStates
<1>6. ~Settled(m.guid) /\ \A p \in Plans : p # m.guid => Settled(p)
  BY <1>2 DEF Settled
<1> QED
  BY <1>2, <1>3, <1>4, <1>5, <1>6, AgendaAssumption

\* A planning's own document is written ...
LEMMA OwnStep ==
    ASSUME TypeOK, OneByOneInv, NEW w \in Workers, PublishPlanningItem(w)
    PROVE  OneByOneInv'
<1> DEFINE m == msg[w]
           p == m.guid
           items == [orig[w].planning_items EXCEPT ![p] = ItemOf(m)]
           d == WithItems(orig[w], items)
           eventId == IF m.event # None THEN m.event
                      ELSE IF d.event_id # None THEN d.event_id ELSE doc[p].event_id
           x == [d EXCEPT !.event_id = eventId]
<1>1. /\ pc[w] = "own" /\ stored' = stored \cup {p} /\ pc' = [pc EXCEPT ![w] = "event"]
      /\ doc' = [doc EXCEPT ![p] = x]
      /\ UNCHANGED <<superdeskVars, outstanding, msg, histVars>>
  BY DEF PublishPlanningItem, Goto, jobVars
<1>2. MessageInv /\ ReadInv(w) /\ CurrentInv /\ PlanInv /\ EventInv
  BY DEF OneByOneInv
<1>3. /\ m \in Message /\ m.type = "planning" /\ outstanding = {m}
      /\ p \in Plans /\ p \notin Events
      /\ m.event # None => m.event = EventOf[p] /\ p \in linked
      /\ m.event = None => p \notin linked \/ EventOf[p] = None
      /\ ItemOf(m) # NoItem /\ ~Settled(p)
  BY <1>1, PlanningMessage
<1>4. orig[w] \in Document /\ orig[w].planning_items \in [Plans -> PlanningItem] /\ doc[p] \in Document
  BY <1>3, DocumentFields DEF TypeOK, RequestsOK, AgendaOK
<1>5. items \in [Plans -> PlanningItem] /\ items[p] = ItemOf(m)
  BY <1>3, <1>4, ItemType
<1>6. d \in Document /\ d.planning_items = items /\ d.event_id = orig[w].event_id
  <2>1. d \in Document
    BY <1>4, <1>5, WithItemsType
  <2> QED
    BY <1>4, <2>1 DEF WithItems, Document
<1>7. eventId \in {None, EventOf[p]} /\ (m.event # None => eventId = m.event)
  <2>1. doc[p].event_id \in {None, EventOf[p]}
    BY <1>2, <1>3 DEF PlanInv
  <2>2. orig[w].event_id \in {None, EventOf[p]}
    <3>1. Empty.event_id = None
      BY DEF Empty
    <3> QED
      BY <1>1, <1>2, <2>1, <3>1 DEF ReadInv
  <2> QED
    BY <1>3, <1>6, <2>1, <2>2
<1> HIDE DEF d, eventId, items
<1>8. x.planning_items = items /\ x.event_id = eventId
  BY <1>6 DEF Document
<1> HIDE DEF x
<1>9. doc'[p] = x /\ \A g \in Guids : g # p => doc'[g] = doc[g]
  BY <1>1, <1>3 DEF TypeOK, AgendaOK
<1>10. Shown(p, p)' = ItemOf(m) /\ \A e \in Events, q \in Plans : Shown(e, q)' = Shown(e, q)
  BY <1>1, <1>3, <1>5, <1>8, <1>9 DEF Shown
<1>11. UNCHANGED <<linked, posted, latest, newest, due>> /\ \A q \in Plans : Settled(q)' <=> Settled(q)
  BY <1>1 DEF superdeskVars, histVars, Settled
<1>12. CurrentInv'
  BY <1>1, <1>2, <1>3, <1>9, <1>11 DEF CurrentInv
<1>13. PlanInv'
  <2> SUFFICES ASSUME NEW q \in Plans
               PROVE  /\ doc'[q].event_id \in {None, EventOf[q]}
                      /\ q \in stored' => Shown(q, q)' # NoItem
                                             /\ (Settled(q)' => Shown(q, q)'.version = latest'[q])
    BY DEF PlanInv
  <2>1. CASE q = p
    BY <1>1, <1>3, <1>7, <1>8, <1>9, <1>10, <1>11, <2>1 DEF Shown
  <2>2. CASE q # p
    <3>1. doc'[q] = doc[q] /\ Shown(q, q)' = Shown(q, q) /\ (q \in stored' => q \in stored)
      BY <1>1, <1>9, <2>2 DEF Shown
    <3> QED
      BY <1>2, <1>11, <3>1 DEF PlanInv
  <2> QED
    BY <2>1, <2>2
<1>14. EventInv'
  <2> SUFFICES ASSUME NEW e \in Events, NEW q \in Plans
               PROVE  /\ q \in due'[e] => q \in linked' \cap stored' /\ EventOf[q] = e
                      /\ e \in stored' /\ q \in due'[e] /\ Settled(q)' => Shown(e, q)' # NoItem
                      /\ e \in stored' /\ Shown(e, q)' # NoItem =>
                            /\ q \in linked' \cap stored' /\ EventOf[q] = e /\ doc'[q].event_id = e
                            /\ Settled(q)' => Shown(e, q)'.version = latest'[q]
    BY DEF EventInv
  <2>1. /\ Shown(e, q)' = Shown(e, q) /\ (Settled(q)' <=> Settled(q))
        /\ stored \subseteq stored' /\ (e \in stored' => e \in stored)
    BY <1>1, <1>3, <1>10, <1>11
  <2>2. q # p => doc'[q] = doc[q]
    BY <1>9
  <2>3. q = p /\ q \in linked /\ EventOf[q] = e => doc'[q].event_id = e
    <3>1. e # None
      BY AgendaAssumption
    <3> QED
      BY <1>3, <1>7, <1>8, <1>9, <3>1
  <2> QED
    BY <1>2, <1>11, <2>1, <2>2, <2>3 DEF EventInv
<1>15. pc'[w] = "event" /\ \A v \in Workers \ {w} : pc'[v] = pc[v]
  BY <1>1 DEF TypeOK, RequestsOK
<1>16. ReadInv(w)'
  BY <1>15 DEF ReadInv
<1>17. WrittenInv(w)'
  BY <1>1, <1>7, <1>8, <1>9, <1>10, <1>15 DEF WrittenInv
<1> QED
  BY <1>1, <1>12, <1>13, <1>14, <1>15, <1>16, <1>17, GoesOn

\* ... and then that of its event, which embeds it or does not any more.
LEMMA EmbedStep ==
    ASSUME TypeOK, OneByOneInv, NEW w \in Workers, PublishPlanningIntoEvent(w)
    PROVE  OneByOneInv'
<1> DEFINE m == msg[w]
           p == m.guid
           e == m.event
           item == IF m.state = "scheduled" THEN ItemOf(m) ELSE NoItem
           d == [orig[w] EXCEPT !.planning_ids = @ \cup {p},
                                !.versioncreated = IF m.version > @ THEN m.version ELSE @]
           Put(i) == [orig[w].planning_items EXCEPT ![p] = i]
<1>1. /\ pc[w] = "embed" /\ stored' = stored /\ pc' = [pc EXCEPT ![w] = "related"]
      /\ UNCHANGED <<superdeskVars, outstanding, msg, histVars>>
      /\ \/ doc' = [doc EXCEPT ![e] = WithItems(orig[w], Put(NoItem))] /\ item = NoItem
         \/ doc' = [doc EXCEPT ![e] = WithItems(d, Put(ItemOf(m)))] /\ item = ItemOf(m)
  BY DEF PublishPlanningIntoEvent, Goto
<1>2. ReadInv(w) /\ WrittenInv(w) /\ CurrentInv /\ PlanInv /\ EventInv
  BY DEF OneByOneInv
<1>3. /\ m \in Message /\ m.type = "planning" /\ outstanding = {m}
      /\ p \in Plans /\ p \notin Events /\ m.version \in Nat /\ m.version = posted
      /\ m.event # None => m.event = EventOf[p] /\ p \in linked
      /\ ~Settled(p)
  BY <1>1, PlanningMessage
<1>4. e \in Events /\ e \in stored /\ orig[w] = doc[e] /\ e # None /\ e \notin Plans
  BY <1>1, <1>2, AgendaAssumption DEF ReadInv, TypeOK, InputsOK
<1>5. orig[w] \in Document /\ orig[w].planning_items \in [Plans -> PlanningItem]
      /\ orig[w].versioncreated \in Nat
  BY DocumentFields DEF TypeOK, RequestsOK
<1>6. Put(NoItem) \in [Plans -> PlanningItem] /\ Put(ItemOf(m)) \in [Plans -> PlanningItem]
  BY <1>3, <1>5, ItemType, EmptyType
<1>7. d \in Document /\ d.event = orig[w].event
      /\ d.versioncreated = IF m.version > orig[w].versioncreated THEN m.version ELSE orig[w].versioncreated
  <2>1. d \in Document
    BY <1>3, <1>5 DEF Document
  <2> QED
    BY <1>5, <2>1 DEF Document
<1>8. orig[w].versioncreated <= posted
  BY <1>2, <1>4 DEF CurrentInv
<1>9. d.versioncreated <= posted
  BY <1>3, <1>7, <1>8
<1>10. PICK x : /\ doc' = [doc EXCEPT ![e] = x]
                /\ x.planning_items = Put(item) /\ x.event = orig[w].event /\ x.versioncreated <= posted
  <2>1. /\ WithItems(orig[w], Put(NoItem)).planning_items = Put(NoItem)
        /\ WithItems(orig[w], Put(NoItem)).event = orig[w].event
        /\ WithItems(orig[w], Put(NoItem)).versioncreated = orig[w].versioncreated
    BY <1>5 DEF WithItems, Document
  <2> HIDE DEF d, Put
  <2>2. /\ WithItems(d, Put(ItemOf(m))).planning_items = Put(ItemOf(m))
        /\ WithItems(d, Put(ItemOf(m))).event = d.event
        /\ WithItems(d, Put(ItemOf(m))).versioncreated = d.versioncreated
    BY <1>7 DEF WithItems, Document
  <2>3. CASE doc' = [doc EXCEPT ![e] = WithItems(orig[w], Put(NoItem))] /\ item = NoItem
    BY <1>8, <2>1, <2>3
  <2>4. CASE doc' = [doc EXCEPT ![e] = WithItems(d, Put(ItemOf(m)))] /\ item = ItemOf(m)
    BY <1>7, <1>9, <2>2, <2>4
  <2> QED
    BY <1>1, <2>3, <2>4
<1>11. doc'[e] = x /\ \A g \in Guids : g # e => doc'[g] = doc[g]
  BY <1>4, <1>10 DEF TypeOK, AgendaOK
<1>12. x.planning_items[p] = item /\ \A q \in Plans : q # p => x.planning_items[q] = doc[e].planning_items[q]
  BY <1>3, <1>4, <1>5, <1>10
<1>13. UNCHANGED <<linked, posted, latest, newest, due>> /\ \A q \in Plans : Settled(q)' <=> Settled(q)
  BY <1>1 DEF superdeskVars, histVars, Settled
<1> HIDE DEF item, d, Put
<1>14. CurrentInv'
  BY <1>1, <1>2, <1>3, <1>4, <1>10, <1>11, <1>13 DEF CurrentInv
<1>15. PlanInv'
  BY <1>1, <1>2, <1>4, <1>11, <1>13 DEF PlanInv, Shown
<1>16. EventInv'
  <2> SUFFICES ASSUME NEW f \in Events, NEW q \in Plans
               PROVE  /\ q \in due'[f] => q \in linked' \cap stored' /\ EventOf[q] = f
                      /\ f \in stored' /\ q \in due'[f] /\ Settled(q)' => Shown(f, q)' # NoItem
                      /\ f \in stored' /\ Shown(f, q)' # NoItem =>
                            /\ q \in linked' \cap stored' /\ EventOf[q] = f /\ doc'[q].event_id = f
                            /\ Settled(q)' => Shown(f, q)'.version = latest'[q]
    BY DEF EventInv
  <2>1. doc'[q] = doc[q] /\ (Settled(q)' <=> Settled(q))
    BY <1>4, <1>11, <1>13
  <2>2. CASE f = e /\ q = p
    <3>1. p \in stored /\ doc[p].event_id = e
      BY <1>1, <1>2, <1>4 DEF WrittenInv
    <3> QED
      BY <1>1, <1>2, <1>3, <1>4, <1>13, <2>1, <2>2, <3>1 DEF EventInv
  <2>3. CASE ~(f = e /\ q = p)
    <3>1. Shown(f, q)' = Shown(f, q)
      BY <1>11, <1>12, <2>3 DEF Shown
    <3> QED
      BY <1>1, <1>2, <1>13, <2>1, <3>1 DEF EventInv
  <2> QED
    BY <2>2, <2>3
<1>17. pc'[w] = "related" /\ \A v \in Workers \ {w} : pc'[v] = pc[v]
  BY <1>1 DEF TypeOK, RequestsOK
<1>18. ReadInv(w)'
  BY <1>17 DEF ReadInv
<1>19. WrittenInv(w)'
  <2>1. p \in stored /\ Shown(p, p) = ItemOf(m) /\ (e # None => doc[p].event_id = e)
    BY <1>1, <1>2 DEF WrittenInv
  <2>2. doc'[p] = doc[p]
    BY <1>3, <1>4, <1>11
  <2>3. doc'[e].planning_items[p] = item
    BY <1>11, <1>12
  <2> QED
    BY <1>1, <1>17, <2>1, <2>2, <2>3 DEF WrittenInv, Shown, item
<1> QED
  BY <1>1, <1>14, <1>15, <1>16, <1>17, <1>18, <1>19, GoesOn

\* A planning's message is done.
LEMMA PlanningDoneStep ==
    ASSUME TypeOK, OneByOneInv, NEW w \in Workers, PlanningDone(w)
    PROVE  OneByOneInv'
<1> DEFINE m == msg[w]
           p == m.guid
<1>1. /\ pc[w] = "related" /\ UNCHANGED <<superdeskVars, stored, doc, newest>> /\ End(w)
      /\ outstanding' = outstanding \ {m}
      /\ latest' = [latest EXCEPT ![p] = m.version]
      /\ \A e \in Events : due'[e] = IF e # m.event THEN due[e]
            ELSE IF m.state = "scheduled" THEN due[e] \cup {p} ELSE due[e] \ {p}
  BY DEF PlanningDone, Done, agendaVars
<1>2. WrittenInv(w) /\ CurrentInv /\ PlanInv /\ EventInv
  BY DEF OneByOneInv
<1>3. /\ outstanding = {m} /\ p \in Plans /\ p \notin Events /\ m.version \in Nat
      /\ m.event # None => m.event = EventOf[p] /\ p \in linked
      /\ m.event = None => p \notin linked \/ EventOf[p] = None
      /\ ItemOf(m) # NoItem /\ ItemOf(m).version = m.version
      /\ \A q \in Plans : q # p => Settled(q)
  BY <1>1, PlanningMessage
<1>4. /\ p \in stored /\ Shown(p, p) = ItemOf(m) /\ (m.event # None => doc[p].event_id = m.event)
      /\ m.event \in stored => Shown(m.event, p) = IF m.state = "scheduled" THEN ItemOf(m) ELSE NoItem
  BY <1>1, <1>2 DEF WrittenInv
<1>5. latest'[p] = m.version /\ \A q \in Plans : q # p => latest'[q] = latest[q]
  BY <1>1, <1>3 DEF TypeOK, HistoryOK
<1>6. \A e \in Events, q \in Plans : q # p => (q \in due'[e] <=> q \in due[e])
  BY <1>1
<1>7. UNCHANGED <<linked, posted>> /\ \A g \in Guids, q \in Plans : Shown(g, q)' = Shown(g, q)
  BY <1>1 DEF superdeskVars, Shown
<1>8. CurrentInv'
  BY <1>1, <1>2, <1>7 DEF CurrentInv
<1>9. PlanInv'
  <2> SUFFICES ASSUME NEW q \in Plans
               PROVE  /\ doc'[q].event_id \in {None, EventOf[q]}
                      /\ q \in stored' => Shown(q, q)' # NoItem
                                             /\ (Settled(q)' => Shown(q, q)'.version = latest'[q])
    BY DEF PlanInv
  <2>1. CASE q = p
    BY <1>1, <1>2, <1>3, <1>4, <1>5, <1>7, <2>1 DEF PlanInv
  <2>2. CASE q # p
    BY <1>1, <1>2, <1>3, <1>5, <1>7, <2>2 DEF PlanInv
  <2> QED
    BY <2>1, <2>2
<1>10. EventInv'
  <2> SUFFICES ASSUME NEW e \in Events, NEW q \in Plans
               PROVE  /\ q \in due'[e] => q \in linked' \cap stored' /\ EventOf[q] = e
                      /\ e \in stored' /\ q \in due'[e] => Shown(e, q)' # NoItem
                      /\ e \in stored' /\ Shown(e, q)' # NoItem =>
                            /\ q \in linked' \cap stored' /\ EventOf[q] = e /\ doc'[q].event_id = e
                            /\ Shown(e, q)'.version = latest'[q]
    BY DEF EventInv
  <2>0. e # None /\ Shown(e, q)' = Shown(e, q)
    BY <1>7, AgendaAssumption
  <2>1. CASE q # p
    BY <1>1, <1>2, <1>3, <1>5, <1>6, <1>7, <2>0, <2>1 DEF EventInv
  <2>2. CASE q = p /\ e = m.event
    <3>1. q \in linked /\ EventOf[q] = e /\ q \in stored /\ doc[q].event_id = e
      BY <1>3, <1>4, <2>0, <2>2
    <3>2. e \in stored => Shown(e, q) = IF m.state = "scheduled" THEN ItemOf(m) ELSE NoItem
      BY <1>4, <2>2
    <3>3. q \in due'[e] => m.state = "scheduled"
      BY <1>1, <2>2
    <3> QED
      BY <1>1, <1>3, <1>5, <1>7, <2>0, <2>2, <3>1, <3>2, <3>3
  <2>3. CASE q = p /\ e # m.event
    <3>1. ~(q \in linked /\ EventOf[q] = e)
      BY <1>3, <2>0, <2>3
    <3>2. q \notin due[e] /\ ~(e \in stored /\ Shown(e, q) # NoItem)
      BY <1>2, <3>1 DEF EventInv
    <3>3. q \notin due'[e]
      BY <1>1, <2>3, <3>2
    <3> QED
      BY <1>1, <2>0, <3>2, <3>3
  <2> QED
    BY <2>1, <2>2, <2>3
<1> QED
  BY <1>1, <1>8, <1>9, <1>10, Ends

\* A secondary event gets the planning's coverages, and embeds nothing.
LEMMA MergeStep ==
    ASSUME TypeOK, OneByOneInv, NEW w \in Workers, MergeCoverages(w)
    PROVE  OneByOneInv'
<1> DEFINE e == target[w]
           merged == [c \in Coverages |-> IF plan[w].coverages[c] = "absent"
                          THEN orig[w].coverages[c] ELSE plan[w].coverages[c]]
           ids == IF msg[w].guid \in orig[w].planning_ids THEN doc[e].planning_ids
                  ELSE orig[w].planning_ids \cup {msg[w].guid}
           x == [doc[e] EXCEPT !.planning_ids = ids]
           y == [doc[e] EXCEPT !.planning_ids = ids, !.coverages = merged]
<1>1. /\ pc[w] = "merge" /\ stored' = stored /\ pc' = [pc EXCEPT ![w] = "related"]
      /\ UNCHANGED <<superdeskVars, outstanding, msg, histVars>>
  BY DEF MergeCoverages, Goto, jobVars
<1>2. e \in Guids /\ doc[e] \in Document
  BY <1>1 DEF TypeOK, InputsOK, AgendaOK
<1>3. doc' = [doc EXCEPT ![e] = x] \/ doc' = [doc EXCEPT ![e] = y]
  BY <1>2 DEF MergeCoverages, TypeOK, AgendaOK
<1>4. \A z \in {x, y} : /\ z.event = doc[e].event /\ z.versioncreated = doc[e].versioncreated
                        /\ z.event_id = doc[e].event_id /\ z.planning_items = doc[e].planning_items
  BY <1>2 DEF Document
<1> HIDE DEF x, y
<1>5. /\ doc'[e] \in {x, y}
      /\ \A g \in Guids : g # e => doc'[g] = doc[g]
  BY <1>2, <1>3 DEF TypeOK, AgendaOK
<1>6. \A g \in Guids : /\ doc'[g].event = doc[g].event /\ doc'[g].versioncreated = doc[g].versioncreated
                       /\ doc'[g].event_id = doc[g].event_id /\ doc'[g].planning_items = doc[g].planning_items
  BY <1>4, <1>5
<1>7. DocsKept
  BY <1>1, <1>6 DEF DocsKept, Shown
<1>8. \A p \in Plans : Settled(p)' => Settled(p)
  BY <1>1 DEF Settled
<1>9. CurrentInv' /\ PlanInv' /\ EventInv'
  BY <1>1, <1>7, <1>8, QuietKept
<1>10. pc'[w] = "related" /\ \A v \in Workers \ {w} : pc'[v] = pc[v]
  BY <1>1 DEF TypeOK, RequestsOK
<1>11. ReadInv(w)'
  BY <1>10 DEF ReadInv
<1>12. WrittenInv(w)'
  <2>1. WrittenInv(w)
    BY DEF OneByOneInv
  <2>2. msg[w].guid \in Plans /\ (msg[w].event \in stored => msg[w].event \in Guids)
    BY <1>1, PlanningMessage DEF TypeOK, AgendaOK
  <2> QED
    BY <1>1, <1>6, <1>10, <2>1, <2>2 DEF WrittenInv, Shown
<1> QED
  BY <1>1, <1>9, <1>10, <1>11, <1>12, GoesOn

\* A story's coverage is completed in a document.
LEMMA DeliverStep ==
    ASSUME TypeOK, OneByOneInv, NEW w \in Workers, NEW g \in Guids, Deliver(w, g)
    PROVE  OneByOneInv'
<1> DEFINE c == msg[w].guid
           p == PlanOf[c]
           h == hits[w][g]
           shown == [h.coverages EXCEPT ![c] = "completed"]
           items == [h.planning_items EXCEPT ![p].coverages[c] = "completed"]
           x == [doc[g] EXCEPT !.coverages = shown, !.planning_items = items]
           y == [doc[g] EXCEPT !.coverages = shown]
<1>1. /\ pc[w] = "deliver" /\ g \in todo[w] /\ stored' = stored /\ todo' = [todo EXCEPT ![w] = @ \ {g}]
      /\ UNCHANGED <<superdeskVars, outstanding, pc, msg, hits, histVars>>
  BY DEF Deliver
<1>2. OneInv /\ ReadInv(w)
  BY DEF OneByOneInv
<1>3. msg[w] \in Message /\ msg[w].type = "text"
  BY <1>1, <1>2, AtWork DEF TypeOK, InputsOK
<1>4. c \in Coverages /\ p \in Plans
  BY <1>3, AgendaAssumption DEF Message
<1>5. h = doc[g] /\ doc[g] \in Document /\ doc[g].planning_items \in [Plans -> PlanningItem]
  BY <1>1, <1>2, DocumentFields DEF ReadInv, TypeOK, AgendaOK
<1>6. \/ doc' = [doc EXCEPT ![g] = x] /\ h.planning_items[p].coverages[c] # "absent"
      \/ doc' = [doc EXCEPT ![g] = y]
  BY <1>1 DEF Deliver, TypeOK, AgendaOK
<1>7. \A k \in Guids : k # g => doc'[k] = doc[k]
  BY <1>6 DEF TypeOK, AgendaOK
<1>8. /\ doc'[g].event = doc[g].event /\ doc'[g].versioncreated = doc[g].versioncreated
      /\ doc'[g].event_id = doc[g].event_id
      /\ \A q \in Plans : /\ doc'[g].planning_items[q] # NoItem <=> doc[g].planning_items[q] # NoItem
                          /\ doc'[g].planning_items[q].version = doc[g].planning_items[q].version
  <2>1. CASE doc' = [doc EXCEPT ![g] = y]
    <3>1. doc'[g] = y
      BY <2>1 DEF TypeOK, AgendaOK
    <3>2. /\ y.event = doc[g].event /\ y.versioncreated = doc[g].versioncreated
          /\ y.event_id = doc[g].event_id /\ y.planning_items = doc[g].planning_items
      BY <1>5 DEF Document
    <3> HIDE DEF y
    <3> QED
      BY <3>1, <3>2
  <2>2. CASE doc' = [doc EXCEPT ![g] = x] /\ h.planning_items[p].coverages[c] # "absent"
    <3>1. doc'[g] = x
      BY <2>2 DEF TypeOK, AgendaOK
    <3>2. /\ x.event = doc[g].event /\ x.versioncreated = doc[g].versioncreated
          /\ x.event_id = doc[g].event_id /\ x.planning_items = items
      BY <1>5 DEF Document
    <3>3. h.planning_items[p] # NoItem
      <4>1. NoItem.coverages[c] = "absent"
        BY <1>4 DEF NoItem
      <4>2. h.planning_items[p].coverages[c] # "absent"
        BY <2>2
      <4> HIDE DEF h, p, c
      <4> QED
        BY <4>1, <4>2
    <3>4. items[p].version = h.planning_items[p].version /\ items[p] # NoItem
      <4> DEFINE i == h.planning_items[p]
                 j == [i EXCEPT !.coverages[c] = "completed"]
      <4>1. i \in PlanningItem /\ items[p] = j
        BY <1>4, <1>5
      <4>2. j.version = i.version /\ j.coverages[c] = "completed"
        BY <1>4, <4>1 DEF PlanningItem
      <4>3. NoItem.coverages[c] = "absent"
        BY <1>4 DEF NoItem
      <4> HIDE DEF j, items
      <4> QED
        BY <4>1, <4>2, <4>3
    <3>5. \A q \in Plans : q # p => items[q] = h.planning_items[q]
      BY <1>4, <1>5
    <3> HIDE DEF x, items
    <3> QED
      BY <1>5, <3>1, <3>2, <3>3, <3>4, <3>5
  <2> QED
    BY <1>6, <2>1, <2>2
<1>9. DocsKept
  BY <1>1, <1>7, <1>8 DEF DocsKept, Shown
<1>10. \A q \in Plans : Settled(q)' => Settled(q)
  BY <1>1 DEF Settled
<1>11. CurrentInv' /\ PlanInv' /\ EventInv'
  BY <1>1, <1>9, <1>10, QuietKept
<1>12. todo'[w] = todo[w] \ {g} /\ todo[w] \subseteq Guids
  BY <1>1 DEF TypeOK, RequestsOK
<1>13. ReadInv(w)'
  BY <1>1, <1>2, <1>7, <1>12 DEF ReadInv
<1>14. WrittenInv(w)'
  BY <1>1 DEF WrittenInv
<1> QED
  BY <1>1, <1>11, <1>13, <1>14, GoesOn

\* Every step keeps the invariant when the messages are handled one by one.
LEMMA OneByOneStep ==
    ASSUME OneByOne = TRUE, "expiry" \notin Faults, TypeOK, OneByOneInv, [Next]_vars
    PROVE  OneByOneInv'
<1>0. OneInv
  BY DEF OneByOneInv
<1>1. ASSUME NEW e \in Events, NEW state \in EventStates, NEW others \in SUBSET Plans,
             PostEvent(e, state, others)
      PROVE  OneByOneInv'
  <2> DEFINE m == [type |-> "event", guid |-> e, version |-> posted + 1, state |-> state,
                   plans |-> {p \in linked' : EventOf[p] = e}]
  <2>1. Post(m) /\ linked \subseteq linked'
    BY <1>1 DEF PostEvent
  <2>2. m.type = "event" /\ m.guid = e /\ m.version = posted + 1 /\ m.plans = {p \in linked' : EventOf[p] = e}
    OBVIOUS
  <2> HIDE DEF m
  <2> QED
    BY <2>1, <2>2, PostStep
<1>2. ASSUME NEW p \in Plans, NEW state \in PlanStates, NEW listed \in SUBSET Coverages, NEW link \in BOOLEAN,
             PostPlanning(p, state, listed, link)
      PROVE  OneByOneInv'
  <2> DEFINE m == [type |-> "planning", guid |-> p, version |-> posted + 1, state |-> state,
                   event |-> IF link THEN EventOf[p] ELSE None,
                   coverages |-> [c \in Coverages |->
                        IF c \notin listed THEN "absent"
                        ELSE IF c \in published THEN "completed" ELSE "planned"]]
  <2>1. Post(m) /\ linked \subseteq linked' /\ (link <=> p \in linked')
    BY <1>2 DEF PostPlanning
  <2>2. m.type = "planning" /\ m.guid = p /\ m.version = posted + 1
        /\ m.event = IF link THEN EventOf[p] ELSE None
    OBVIOUS
  <2> HIDE DEF m
  <2> QED
    BY <2>1, <2>2, PostStep
<1>3. ASSUME NEW c \in Coverages, PostText(c) PROVE OneByOneInv'
  <2> DEFINE m == [type |-> "text", guid |-> c, version |-> posted + 1]
  <2>1. Post(m) /\ linked' = linked
    BY <1>3 DEF PostText
  <2>2. m.type = "text" /\ m.version = posted + 1
    OBVIOUS
  <2> HIDE DEF m
  <2> QED
    BY <2>1, <2>2, PostStep
<1>4. ASSUME NEW w \in Workers, NEW m \in outstanding, Receive(w, m) PROVE OneByOneInv'
  <2>1. /\ pc[w] = "idle" /\ UNCHANGED <<superdeskVars, outstanding, agendaVars, histVars>>
        /\ pc'[w] \in {"search", "original"} /\ msg'[w] = m
        /\ \A v \in Workers \ {w} : pc'[v] = pc[v] /\ msg'[v] = msg[v]
        /\ \A v \in Workers : pc[v] # "idle" => msg[v].guid # m.guid
    BY <1>4 DEF Receive, Goto, TypeOK, RequestsOK
  <2>2. \A v \in Workers : pc[v] = "idle"
    BY <1>0, <2>1 DEF OneInv
  <2>3. OneInv'
    BY <1>0, <2>1, <2>2 DEF OneInv
  <2>4. DocsKept /\ \A p \in Plans : Settled(p)' => Settled(p)
    BY <2>1 DEF DocsKept, Shown, Settled, agendaVars
  <2>5. CurrentInv' /\ PlanInv' /\ EventInv'
    BY <2>1, <2>4, QuietKept
  <2>6. MessageInv'
    BY <2>1 DEF OneByOneInv, MessageInv, superdeskVars
  <2>7. \A v \in Workers : ReadInv(v)' /\ WrittenInv(v)'
    BY <2>1, <2>2 DEF ReadInv, WrittenInv
  <2> QED
    BY <2>3, <2>5, <2>6, <2>7 DEF OneByOneInv
<1>5. ASSUME NEW w \in Workers, ReadOriginal(w) PROVE OneByOneInv'
  <2>1. /\ pc[w] = "original" /\ pc'[w] \in {"own", "update", "collect"}
        /\ UNCHANGED <<superdeskVars, outstanding, agendaVars, msg, histVars>>
        /\ \A v \in Workers \ {w} : pc'[v] = pc[v]
    BY <1>5 DEF ReadOriginal, Goto, TypeOK, RequestsOK
  <2>2. /\ pc'[w] = "update" => msg[w].guid \in stored
        /\ orig'[w] = IF msg[w].guid \in stored THEN doc[msg[w].guid] ELSE Empty
    BY <1>5 DEF ReadOriginal, Goto, TypeOK, RequestsOK
  <2>3. ReadInv(w)' /\ WrittenInv(w)'
    BY <2>1, <2>2 DEF ReadInv, WrittenInv, agendaVars
  <2> QED
    BY <2>1, <2>3, ReadStep
<1>6. ASSUME NEW w \in Workers, CollectPlannings(w) PROVE OneByOneInv'
  <2> DEFINE found == msg[w].plans \cap stored
             items == [p \in Plans |-> IF p \in found THEN doc[p].planning_items[p] ELSE NoItem]
  <2>1. /\ pc[w] = "collect" /\ pc'[w] = "create"
        /\ UNCHANGED <<superdeskVars, outstanding, agendaVars, msg, histVars>>
        /\ \A v \in Workers \ {w} : pc'[v] = pc[v]
    BY <1>6 DEF CollectPlannings, Goto, TypeOK, RequestsOK
  <2>2. orig'[w] = WithItems(Empty, items) /\ todo'[w] = {p \in found : doc[p].event_id = None}
    BY <1>6 DEF CollectPlannings, TypeOK, RequestsOK
  <2>3. orig'[w].planning_items = items
    BY <2>2, EmptyType DEF WithItems, Document
  <2>4. ReadInv(w)' /\ WrittenInv(w)'
    BY <2>1, <2>2, <2>3 DEF ReadInv, WrittenInv, Shown, agendaVars
  <2> QED
    BY <2>1, <2>4, ReadStep
<1>7. ASSUME NEW w \in Workers, FindEvent(w) PROVE OneByOneInv'
  <2>1. /\ pc[w] = "event"
        /\ UNCHANGED <<superdeskVars, outstanding, agendaVars, msg, histVars>>
        /\ \A v \in Workers \ {w} : pc'[v] = pc[v]
        /\ \/ pc'[w] = "embed" /\ msg[w].event \in stored /\ orig'[w] = doc[msg[w].event]
           \/ pc'[w] = "related" /\ msg[w].event \notin stored
    BY <1>7 DEF FindEvent, Goto, TypeOK, RequestsOK
  <2>2. WrittenInv(w)
    BY DEF OneByOneInv
  <2>3. ReadInv(w)' /\ WrittenInv(w)'
    BY <2>1, <2>2 DEF ReadInv, WrittenInv, Shown, agendaVars
  <2> QED
    BY <2>1, <2>3, ReadStep
<1>8. ASSUME NEW w \in Workers, (\E e \in Events : FindRelatedEvent(w, e)) \/ ReadPlanning(w)
      PROVE  OneByOneInv'
  <2>1. /\ pc[w] \in {"related", "plan"} /\ pc'[w] \in {"related", "plan", "merge"}
        /\ UNCHANGED <<superdeskVars, outstanding, agendaVars, msg, histVars>>
        /\ \A v \in Workers \ {w} : pc'[v] = pc[v]
    BY <1>8 DEF FindRelatedEvent, ReadPlanning, Goto, TypeOK, RequestsOK
  <2>2. WrittenInv(w)
    BY DEF OneByOneInv
  <2>3. ReadInv(w)' /\ WrittenInv(w)'
    BY <2>1, <2>2 DEF ReadInv, WrittenInv, Shown, agendaVars
  <2> QED
    BY <2>1, <2>3, ReadStep
<1>9. ASSUME NEW w \in Workers, FindCoverage(w) PROVE OneByOneInv'
  <2>1. /\ pc[w] = "search" /\ pc'[w] = "deliver" /\ hits'[w] = doc
        /\ UNCHANGED <<superdeskVars, outstanding, agendaVars, msg, histVars>>
        /\ \A v \in Workers \ {w} : pc'[v] = pc[v]
    BY <1>9 DEF FindCoverage, Goto, TypeOK, RequestsOK
  <2>2. ReadInv(w)' /\ WrittenInv(w)'
    BY <2>1 DEF ReadInv, WrittenInv, agendaVars
  <2> QED
    BY <2>1, <2>2, ReadStep
<1>10. ASSUME NEW w \in Workers, TextDone(w) \/ FailDelivery(w) PROVE OneByOneInv'
  <2>1. /\ pc[w] \in {"search", "deliver"} /\ End(w) /\ UNCHANGED <<superdeskVars, agendaVars, histVars>>
        /\ outstanding' = outstanding \ {msg[w]}
    BY <1>10 DEF TextDone, FailDelivery, Done
  <2>2. msg[w].type = "text"
    BY <2>1 DEF TypeOK, InputsOK
  <2> QED
    BY <2>1, <2>2, EndStep
<1>11. ASSUME NEW w \in Workers, Conflict(w) \/ Fail(w) PROVE OneByOneInv'
  <2>1. pc[w] # "idle" /\ End(w) /\ UNCHANGED <<superdeskVars, agendaVars, histVars, outstanding>>
    BY <1>11 DEF Conflict, Fail
  <2> QED
    BY <2>1, EndStep
<1>12. CASE UNCHANGED vars
  BY <1>12 DEF vars, superdeskVars, agendaVars, jobVars, histVars, OneByOneInv, OneInv, MessageInv, ReadInv,
     WrittenInv, CurrentInv, PlanInv, EventInv, Settled, Shown
<1> QED
  BY <1>1, <1>2, <1>3, <1>4, <1>5, <1>6, <1>7, <1>8, <1>9, <1>10, <1>11, <1>12,
     LinkStep, CreateStep, CancelStep, PostponeStep, UpdateStep, OwnStep, EmbedStep, MergeStep,
     PlanningDoneStep, DeliverStep
  DEF Next, Superdesk, EventStep, PlanningStep, TextStep

LEMMA OneByOneInit == Init => OneByOneInv
<1> SUFFICES ASSUME Init PROVE OneByOneInv
  OBVIOUS
<1>1. OneInv /\ MessageInv
  BY FS_EmptySet DEF Init, OneInv, MessageInv
<1>2. \A w \in Workers : ReadInv(w) /\ WrittenInv(w)
  BY DEF Init, ReadInv, WrittenInv
<1>3. \A g \in Guids : doc[g].versioncreated = 0 /\ doc[g].event_id = None
  BY DEF Init, Empty
<1>4. CurrentInv /\ PlanInv /\ EventInv
  BY <1>3 DEF Init, CurrentInv, PlanInv, EventInv
<1> QED
  BY <1>1, <1>2, <1>4 DEF OneByOneInv

\* When messages are handled one by one and repeated when they fail, an event
\* shows its own newest version, although a planning may have raised the
\* versioncreated its updates are compared with.
THEOREM EventsAreCurrent ==
    ASSUME OneByOne = TRUE, "expiry" \notin Faults
    PROVE  Spec => []EventCurrent
<1>1. TypeOK /\ OneByOneInv /\ [Next]_vars => OneByOneInv'
  BY OneByOneStep
<1>2. OneByOneInv => EventCurrent
  BY DEF OneByOneInv, CurrentInv, EventCurrent
<1> QED
  BY <1>1, <1>2, OneByOneInit, TypeCorrect, PTL DEF Spec

\* ... and it embeds every planning that is linked to it and not cancelled,
\* in its newest version, and the plannings it embeds know it, whichever of them
\* came first and however often a message had to be sent.
THEOREM EventsAreComplete ==
    ASSUME OneByOne = TRUE, "expiry" \notin Faults
    PROVE  Spec => []EventComplete
<1>1. TypeOK /\ OneByOneInv /\ [Next]_vars => OneByOneInv'
  BY OneByOneStep
<1>2. OneByOneInv => EventComplete
  <2> SUFFICES ASSUME OneByOneInv, outstanding = {}, NEW e \in Events \cap stored, NEW p \in Plans
               PROVE  /\ p \in due[e] => Shown(e, p) # NoItem
                      /\ Shown(e, p) # NoItem => Shown(e, p).version = latest[p] /\ doc[p].event_id = e
    BY DEF EventComplete, Quiet, Shown
  <2>1. Settled(p)
    BY DEF Settled
  <2> QED
    BY <2>1 DEF OneByOneInv, EventInv
<1> QED
  BY <1>1, <1>2, OneByOneInit, TypeCorrect, PTL DEF Spec
=============================================================================
