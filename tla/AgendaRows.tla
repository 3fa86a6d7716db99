------------------------------ MODULE AgendaRows ------------------------------
(* The rows of the agenda list and the panes beside them: clicks, double clicks
   and keys with their timers, the menus of the rows, the preview and the opened
   item, and the items and stories the panes fetch (assets/agenda/components).

   A row is [item, group, plan]. The list draws the rows in one order and the
   keys walk through another list of rows, listItems. Read markers, checkboxes,
   scrolling and the actions other than Open are left out. *)
EXTENDS Integers, Sequences, FiniteSets, SequencesExt

CONSTANTS Items,
          Groups,        \* the days: a sequence of [date, items, hidden]
          PlansOn,       \* PlansOn[i][d]: the plans of item i that are listed on day d
          TopStories, Covered, CoverageOnTop, Sorted, PlanningOnly,
          Texts,         \* Texts[i]: the stories delivered for the text coverages of i
          PlanningIds, EventIds,   \* the items i refers to, by id
          Acts, Waits, AnyOrder, MayFail, MaxFlight,
          None

RowsAssumption == {Waits, AnyOrder, MayFail, PlanningOnly, Sorted, CoverageOnTop} \subseteq BOOLEAN

VARIABLES store,   \* active, preview, open, shown (groups whose hidden items are shown), known, wire
          menu,    \* of the list: actioningItem, activeGroup, activePlan
          timers,  \* the row a click and the row a key wait to show
          panes,   \* whether the related planning items and events are loading
          flight   \* requests and answers on their way
vars == <<store, menu, timers, panes, flight>>

May(act) == act \in Acts
Nowhere == [item |-> None, group |-> None, plan |-> None]
Row(i, d, p) == [item |-> i, group |-> d, plan |-> p]
SeqUnion(seqs) == FlattenSeq(seqs)
Dates == {Groups[g].date : g \in DOMAIN Groups}

-------------------------------------------------------------------------------
(* The list. *)

getListItems(shown) ==
    SeqUnion([g \in DOMAIN Groups |->
        LET items == (IF Groups[g].date \in shown THEN Groups[g].hidden ELSE <<>>) \o Groups[g].items
        IN  SeqUnion([n \in DOMAIN items |->
                LET plans == PlansOn[items[n]][Groups[g].date]
                IN  IF plans = <<>> THEN <<Row(items[n], Groups[g].date, None)>>
                    ELSE [p \in DOMAIN plans |-> Row(items[n], Groups[g].date, plans[p])]])])

\* Top stories that are not hidden first, then items with coverages when they are to be on top.
getItemIdsSorted(items, group) ==
    LET Top(i) == i \in TopStories /\ i \notin ToSet(group.hidden)
        Second(i) == i \notin TopStories /\ i \in Covered /\ CoverageOnTop
    IN  SelectSeq(items, Top) \o SelectSeq(items, Second)
            \o SelectSeq(items, LAMBDA i : ~Top(i) /\ ~Second(i))

\* The rows of a group: one for each plan when only planning items are listed.
renderGroupItems(group, items) ==
    LET ids == getItemIdsSorted(items, group)
    IN  SeqUnion([n \in DOMAIN ids |->
            LET plans == IF PlanningOnly THEN PlansOn[ids[n]][group.date] ELSE <<>>
            IN  IF plans = <<>> THEN <<Row(ids[n], group.date, None)>>
                ELSE [p \in DOMAIN plans |-> Row(ids[n], group.date, plans[p])]])

\* Groups after the last one with items are not drawn.
getLastGroupWithItems ==
    LET full == {g \in DOMAIN Groups : Groups[g].items # <<>>}
    IN  IF full = {} THEN Len(Groups) ELSE CHOOSE g \in full : \A h \in full : h <= g

Displayed(shown) ==
    LET drawn == SubSeq(Groups, 1, getLastGroupWithItems)
    IN  IF Len(drawn) = 1 /\ Sorted THEN renderGroupItems(drawn[1], drawn[1].items)
        ELSE SeqUnion([g \in DOMAIN drawn |->
                (IF drawn[g].date \in shown THEN renderGroupItems(drawn[g], drawn[g].hidden) ELSE <<>>)
                    \o renderGroupItems(drawn[g], drawn[g].items)])

isActiveItem(active, r) ==
    /\ active # Nowhere
    /\ r.item = active.item
    /\ r.group = active.group
    /\ r.plan # None => r.plan = active.plan

-------------------------------------------------------------------------------
(* The reducer and the panes. The item that is open covers the list and the preview. *)
initialStore == [active |-> Nowhere, preview |-> Nowhere, open |-> None, shown |-> {}, known |-> Items, wire |-> {}]
NoMenu == Nowhere
setActive(s, r) == [s EXCEPT !.active = r]
previewed(s, r) == [s EXCEPT !.preview = r]
\* The group and the plan of what is opened replace those of the preview.
openItemDetails(s, i, d, p) ==
    [s EXCEPT !.open = i, !.preview.group = d, !.preview.plan = p]
toggleHidden(s, d) == [s EXCEPT !.shown = IF d \in @ THEN @ \ {d} ELSE @ \union {d}]
storeItems(s, ids) == [s EXCEPT !.known = @ \union ids]
agendaWireItems(s, ids) == [s EXCEPT !.wire = ids]

Pane(s) == IF s.open # None THEN <<"details", s.open>>
           ELSE IF s.preview.item # None THEN <<"preview", s.preview.item>> ELSE <<"none", None>>
planHasEvent(i) == EventIds[i] # None
\* The plans an item brings along; the others it refers to are listed below them.
OwnPlans(i) == UNION {ToSet(PlansOn[i][d]) : d \in Dates}
RelatedItems(i) == (PlanningIds[i] \ OwnPlans(i)) \union (IF planHasEvent(i) THEN EventIds[i] ELSE {})

fetchWireItemsForAgenda(i) == IF i = None THEN {} ELSE ToSet(Texts[i])

Asks(kind, ids) == IF ids = {} THEN <<>> ELSE <<[kind |-> kind, ids |-> ids, heard |-> TRUE]>>
\* What the panes ask for an item: what it refers to, but the plan that is shown.
fetchSecondaryPlanningItems(s, i) == Asks("planning", PlanningIds[i] \ {s.preview.plan})
reloadEvent(i) == IF planHasEvent(i) THEN Asks("event", EventIds[i]) ELSE <<>>

\* Panes load when they are mounted and when they get another item, or the item anew.
Needs(s, s2, fresh) == Pane(s2) # Pane(s) \/ Pane(s2)[2] \in fresh

\* The list goes when an item is open, and its menu with it.
MenuLeft(s2, m) == IF s2.open = None THEN m ELSE NoMenu

\* The store becomes s2 and `fresh` are replaced in it; the stories in `texts` are asked for.
Become(s2, fresh, texts, rest, m) ==
    LET i == Pane(s2)[2]
        loads == i # None /\ Needs(store, s2, fresh)
        planning == fetchSecondaryPlanningItems(s2, i)
        events == reloadEvent(i)
        heard == [n \in DOMAIN rest |->
                    [rest[n] EXCEPT !.heard = @ /\ Pane(s2)[1] = Pane(store)[1]
                         /\ (rest[n].kind = "event" => i # None /\ planHasEvent(i))]]
    IN  /\ store' = s2
        /\ flight' = heard \o Asks("wire", texts) \o (IF loads THEN planning \o events ELSE <<>>)
        /\ Len(flight') <= MaxFlight
        /\ panes' = CASE i = None -> [planning |-> FALSE, event |-> FALSE]
                      [] loads -> [planning |-> planning # <<>>, event |-> events # <<>>]
                      [] OTHER -> panes
        /\ menu' = MenuLeft(s2, m)

Do(s2, texts, m) == Become(s2, {}, texts, flight, m)

Init == /\ store = initialStore
        /\ menu = NoMenu
        /\ timers = [click |-> Nowhere, key |-> Nowhere]
        /\ panes = [planning |-> FALSE, event |-> FALSE]
        /\ flight = <<>>

-------------------------------------------------------------------------------
(* The user at the list. *)
Rows == Displayed(store.shown)
OnList(act) == May(act) /\ store.open = None
Still == timers = [click |-> Nowhere, key |-> Nowhere]
resetActioningItem(m) == [m EXCEPT !.item = None]

\* The row the arrow keys go to.
KeyTarget(s, diff) ==
    LET items == getListItems(s.shown)
        at == {n \in DOMAIN items : items[n] = s.active}
        index == IF s.active = Nowhere \/ at = {} THEN 0 ELSE CHOOSE n \in at : \A o \in at : n <= o
        next == IF index + diff > Len(items) THEN Len(items) ELSE index + diff
    IN  items[IF next < 1 THEN 1 ELSE next]

onKeyDown(diff) ==
    /\ OnList("key") /\ getListItems(store.shown) # <<>>
    /\ Waits => timers.click = Nowhere
    /\ LET r == KeyTarget(store, diff)
       IN  /\ timers' = [timers EXCEPT !.key = r]
           /\ Do(setActive(store, r), {}, resetActioningItem(menu))

Escape == /\ OnList("escape")
          /\ Waits => Still
          /\ Do(previewed(setActive(store, Nowhere), Nowhere), {}, resetActioningItem(menu))
          /\ UNCHANGED timers

onItemClick(r) ==
    /\ OnList("click")
    /\ timers' = [click |-> r, key |-> Nowhere]
    /\ menu' = resetActioningItem(menu)
    /\ UNCHANGED <<store, panes, flight>>

\* The second click has the first one wait anew.
onItemDoubleClick(r) ==
    /\ OnList("dblclick") /\ timers.click = r
    /\ timers' = [timers EXCEPT !.click = Nowhere]
    /\ Do(openItemDetails(setActive(store, r), r.item, r.group, r.plan), fetchWireItemsForAgenda(r.item), menu)

\* A click on the row that is previewed closes its preview.
ClickTimer ==
    LET r == timers.click
        s == setActive(store, r)
    IN  /\ r # Nowhere
        /\ timers' = [timers EXCEPT !.click = Nowhere]
        /\ IF store.preview = r THEN Do(previewed(s, Nowhere), {}, menu)
           ELSE Do(previewed(s, r), fetchWireItemsForAgenda(r.item), menu)

\* It is the longer timer: a click before the key has taken it off, one after it is over before it.
KeyTimer ==
    LET r == timers.key
    IN  /\ r # Nowhere /\ timers.click = Nowhere
        /\ timers' = [timers EXCEPT !.key = Nowhere]
        /\ Do(previewed(store, r), fetchWireItemsForAgenda(r.item), menu)

ToggleHidden(g) ==
    /\ OnList("hidden") /\ Groups[g].hidden # <<>>
    /\ Do(toggleHidden(store, Groups[g].date), {}, menu)
    /\ UNCHANGED timers

SetQuery == /\ May("query") /\ store.open = None
            /\ Do(setActive(store, Nowhere), {}, menu)
            /\ UNCHANGED timers

(* The menus of the rows. *)
showActions(m, r) == /\ m.item = r.item
                     /\ m.group = r.group
                     /\ PlanningOnly => m.plan = r.plan

onActionList(m, r) == IF m.item = r.item /\ m.plan \in {None, r.plan} THEN NoMenu ELSE r
UI(m) == menu' = m /\ UNCHANGED <<store, timers, panes, flight>>

MenuButton(r) == OnList("menu") /\ UI(onActionList(menu, r))
onMouseLeave(r) == OnList("menu") /\ showActions(menu, r) /\ UI(onActionList(menu, [r EXCEPT !.plan = None]))
onMouseEnter(r) == OnList("menu") /\ menu.item \notin {None, r.item} /\ UI(resetActioningItem(menu))

\* Open in the menu is given the plan itself, where the other rows and panes give its id.
ActionListItem(r) ==
    /\ OnList("open") /\ showActions(menu, r)
    /\ Do(openItemDetails(store, r.item, r.group, IF r.plan = None THEN None ELSE <<r.plan>>),
          fetchWireItemsForAgenda(r.item), menu)
    /\ UNCHANGED timers

(* The panes. *)
Previewed == store.open = None /\ store.preview.item # None /\ (Waits => Still)
PreviewActionButtons ==
    /\ May("opened") /\ Previewed
    /\ Do(openItemDetails(store, store.preview.item, store.preview.group, store.preview.plan),
          fetchWireItemsForAgenda(store.preview.item), menu)
    /\ UNCHANGED timers

AgendaPreviewImage ==
    /\ May("image") /\ Previewed
    /\ Do(openItemDetails(store, store.preview.item, None, None), {}, menu)
    /\ UNCHANGED timers

closePreview == /\ May("close") /\ Previewed
                /\ Do(previewed(store, Nowhere), {}, menu)
                /\ UNCHANGED timers

\* The list is mounted anew; no timer of the one before is left by then.
onDetailClose ==
    /\ May("close") /\ store.open # None /\ Still
    /\ Do(openItemDetails(store, None, store.preview.group, store.preview.plan), {}, menu)
    /\ UNCHANGED timers

-------------------------------------------------------------------------------
(* Answers. *)
Next1 == {n \in DOMAIN flight : AnyOrder \/ n = 1}
Loaded(f, p) == IF f.kind \in DOMAIN p /\ f.heard THEN [p EXCEPT ![f.kind] = FALSE] ELSE p

ReceiveWire(n) ==
    /\ flight[n].kind = "wire"
    /\ store' = agendaWireItems(store, flight[n].ids)
    /\ flight' = RemoveAt(flight, n)
    /\ UNCHANGED <<menu, timers, panes>>

\* The panes load again an item that comes anew, and the answer ends whatever they load.
ReceiveItems(n) ==
    LET f == flight[n]
        s2 == storeItems(store, f.ids)
        again == Pane(store)[2] # None /\ Needs(store, s2, f.ids)
    IN  /\ f.kind # "wire"
        /\ store' = s2
        /\ flight' = RemoveAt(flight, n) \o (IF again THEN fetchSecondaryPlanningItems(s2, Pane(store)[2]) \o reloadEvent(Pane(store)[2]) ELSE <<>>)
        /\ Len(flight') <= MaxFlight
        /\ panes' = Loaded(f, panes)
        /\ UNCHANGED <<menu, timers>>

Fail(n) ==
    /\ MayFail
    /\ flight' = RemoveAt(flight, n)
    /\ panes' = Loaded(flight[n], panes)
    /\ UNCHANGED <<store, menu, timers>>

AtList == \/ \E diff \in {1, -1} : onKeyDown(diff)
          \/ Escape \/ ClickTimer \/ KeyTimer \/ SetQuery
          \/ \E r \in ToSet(Rows) : \/ onItemClick(r) \/ onItemDoubleClick(r)
                                    \/ MenuButton(r) \/ onMouseLeave(r) \/ onMouseEnter(r) \/ ActionListItem(r)
          \/ \E g \in DOMAIN Groups : ToggleHidden(g)
AtPanes == PreviewActionButtons \/ AgendaPreviewImage \/ closePreview \/ onDetailClose
Answers == \E n \in Next1 : ReceiveWire(n) \/ ReceiveItems(n) \/ Fail(n)
Next == AtList \/ AtPanes \/ Answers

Spec == Init /\ [][Next]_vars

-------------------------------------------------------------------------------
(* Properties. *)
AllRows == {Nowhere} \union [item : Items \union {None}, group : Dates \union {None},
                             plan : UNION {ToSet(PlansOn[i][d]) : i \in Items, d \in Dates} \union {None}]
TypeOK == /\ {store.active, timers.click, timers.key} \subseteq AllRows
          /\ store.open \in Items \union {None}
          /\ store.preview.item \in Items \union {None}
          /\ menu \in AllRows
          /\ Len(flight) <= MaxFlight
          /\ store.open # None => menu = NoMenu

(* Once the timers ran out, what is previewed is the row that is active: no timer
   of the list (AgendaList.onItemClick, onKeyDown) shows a row that was left since. *)
PreviewFollowsActive ==
    Still /\ Nowhere \notin {store.active, store.preview} => store.preview = store.active

(* An arrow goes from the row that is drawn active to the row drawn next to it. *)
Follows(diff) ==
    \A n \in DOMAIN Rows :
        isActiveItem(store.active, Rows[n]) /\ store.open = None /\ n + diff \in DOMAIN Rows
            => isActiveItem(KeyTarget(store, diff), Rows[n + diff])
KeysFollowRows == Follows(1) /\ Follows(-1)

(* The button of a row opens its menu when it is closed and closes it when it is
   open, whatever menus were open and left before. *)
MenuButtonToggles ==
    \A n \in DOMAIN Rows : showActions(onActionList(menu, Rows[n]), Rows[n]) # showActions(menu, Rows[n])

(* When everything was answered, the stories delivered for the item that is shown
   and the items it refers to are there, also after it was opened and closed. *)
ContentIsOffered ==
    flight = <<>> /\ Pane(store)[2] # None =>
        LET i == Pane(store)[2]
        IN  /\ ToSet(Texts[i]) \subseteq store.wire
            /\ RelatedItems(i) \subseteq store.known

(* No pane shows that it is loading once every request was answered or failed. *)
PanesSettle == flight = <<>> => panes = [planning |-> FALSE, event |-> FALSE]

===============================================================================
