---------------------------- MODULE AgendaFilters ----------------------------
(***************************************************************************)
(* The bar of drop-down filters over the agenda's list (AgendaFilters and  *)
(* the drop-downs in it): which filters are offered for which type of item,*)
(* what they say, what the server makes of them, and which menus are open. *)
(***************************************************************************)
EXTENDS Naturals, Sequences, FiniteSets, SequencesExt

CONSTANTS
    Items,     \* what the server has: functions of Fields, "types" among the record's keys
    Statuses,  \* the options of coverage_status_filter that are enabled
    Locators,  \* the regions of the locators, {} when there are none
    Filters,   \* what a topic, the panel or the URL may set
    Config,    \* subnav.filters: the controls of the bar
    None,
    MayFail, AnyOrder, Waits, \* requests fail, answers come in any order, the user waits
    MaxFlight  \* bound: requests on their way

Fields == {"calendar", "agendas", "place", "coverage", "coverage_status"}
Types == {"events", "planning"}
Controls == {"item_type", "calendar", "region", "coverage_type", "coverage_status"}

Values(f) == UNION {i[f] : i \in Items} \cup (IF f = "place" THEN Locators ELSE {})
                \cup (IF f = "coverage_status" THEN Statuses ELSE {})

NoFilter == [f \in Fields |-> None]

BarAssumption ==
    /\ \A i \in Items : i.types \subseteq Types /\ i.types # {}
    /\ NoFilter \in Filters
    /\ \A a \in Filters : \A f \in Fields : a[f] # None => a[f] \subseteq Values(f) /\ a[f] # {}
    /\ Config \subseteq Controls /\ MaxFlight \in Nat \ {0}
    /\ {MayFail, AnyOrder, Waits} \subseteq BOOLEAN

VARIABLES
    account,      \* [eventsOnlyAccess, restrictCoverageInfo]
    itemType,     \* state.agenda.itemType: a type or None
    activeFilter, \* search.activeFilter: [Fields -> None or a set of values]
    items,        \* the items of the last answer
    aggregations, \* their buckets [field -> None or a set of values], None before the first answer
    open,         \* the controls whose menu is open
    flight        \* requests on their way [type, filter]

vars == <<account, itemType, activeFilter, items, aggregations, open, flight>>
----------------------------------------------------------------------------
(***************************************************************************)
(* The server's part.                                                      *)
(***************************************************************************)
planning_filters == {"coverage", "coverage_status", "agendas"}

\* prefill_item_type_arg
ServerType(type) == IF account.eventsOnlyAccess THEN "events" ELSE type

Applied(type, filter) ==
    {f \in Fields : filter[f] # None /\ filter[f] # {} /\ ~(type = "events" /\ f \in planning_filters)}

\* Several statuses together are no status the server knows.
Matches(i, f, values) ==
    IF f = "coverage_status" THEN Cardinality(values) = 1 => i[f] \cap values # {}
    ELSE i[f] \cap values # {}

Found(type, filter) ==
    {i \in Items : /\ type # None => type \in i.types
                   /\ \A f \in Applied(type, filter) : Matches(i, f, filter[f])}

\* With only events there are no buckets of planning items.
get_agenda_aggregations(type, found) ==
    [f \in Fields |->
        IF f = "coverage_status" \/ (type = "events" /\ f \in {"coverage", "agendas"}) THEN None
        ELSE UNION {i[f] : i \in found}]
----------------------------------------------------------------------------
(***************************************************************************)
(* The controls.                                                           *)
(***************************************************************************)
FieldsOf(c) ==
    CASE c = "calendar" -> {"calendar", "agendas"} [] c = "region" -> {"place"}
      [] c = "coverage_type" -> {"coverage"} [] c = "coverage_status" -> {"coverage_status"}
      [] OTHER -> {}

\* renderFilter
Drawn(c) ==
    /\ c \in Config
    /\ c = "item_type" => ~account.eventsOnlyAccess
    /\ c = "coverage_type" => itemType # "events"
    /\ c = "coverage_status" => ~account.eventsOnlyAccess /\ itemType # "events"

Buckets(f) == IF aggregations = None \/ aggregations[f] = None THEN {} ELSE aggregations[f]

\* The regions of the locators, whatever the buckets are, if there are any.
groupRegions ==
    IF Locators = {} \/ aggregations = None THEN Buckets("place") ELSE Locators

getDropdownItems(f) ==
    CASE f = "place" -> groupRegions
      [] f = "coverage_status" -> Statuses
      [] OTHER -> Buckets(f)

isActive(c) ==
    IF c = "item_type" THEN itemType # None ELSE \E f \in FieldsOf(c) : activeFilter[f] # None

\* Of the options that set values: [field, value].
Options(c) ==
    IF c = "item_type"
    THEN {[field |-> "itemType", value |-> t] :
             t \in {u \in Types : u = "planning" => ~account.restrictCoverageInfo}}
    ELSE UNION {{[field |-> f, value |-> v] : v \in getDropdownItems(f)} : f \in FieldsOf(c)}

\* "Clear selection": in a DropdownFilter, and for the calendars, only over a list of options.
HasClear(c) ==
    /\ isActive(c)
    /\ c \in {"calendar", "region", "coverage_type"} => Options(c) # {}
----------------------------------------------------------------------------
Request(type, filter) == [type |-> type, filter |-> filter]

Searched(type, filter) ==
    /\ Len(flight) < MaxFlight
    /\ itemType' = type /\ activeFilter' = filter
    /\ flight' = Append(flight, Request(type, filter))

\* A menu goes with its control.
MenusLeft(menus) == open' = {c \in menus : Drawn(c)'}

toggleValue(values, v) ==
    IF values = None THEN {v} ELSE IF v \in values THEN values \ {v} ELSE values \cup {v}

\* toggleFilter of a single value: an emptied filter is removed, the values that were there
\* beside the one that is clicked are dropped.
Toggled(filter, f, v) ==
    LET values == toggleValue(filter[f], v) IN
    [filter EXCEPT ![f] = IF values = {} THEN None ELSE values \cap {v}]

Cleared(filter, f) == [filter EXCEPT ![f] = None]

UserMay == Waits => flight = <<>>

Init ==
    /\ account \in [eventsOnlyAccess : BOOLEAN, restrictCoverageInfo : BOOLEAN]
    /\ itemType \in Types \cup {None}
    /\ activeFilter \in Filters
    /\ items = {} /\ aggregations = None /\ open = {}
    /\ flight = <<Request(itemType, activeFilter)>>

\* A click on the button; the click does not reach the document, so other menus stay open.
ClickButton ==
    \E c \in Controls :
        /\ Drawn(c)
        /\ open' = (IF c \in open THEN open \ {c} ELSE open \cup {c})
        /\ UNCHANGED <<account, itemType, activeFilter, items, aggregations, flight>>

ClickOutside ==
    /\ open # {} /\ open' = {}
    /\ UNCHANGED <<account, itemType, activeFilter, items, aggregations, flight>>

toggleDropdownFilter ==
    /\ UserMay
    /\ UNCHANGED <<account, items, aggregations>>
    /\ \E c \in open : \E o \in Options(c) :
          /\ IF o.field = "itemType" THEN Searched(o.value, activeFilter)
             ELSE Searched(itemType, Toggled(activeFilter, o.field, o.value))
          /\ MenusLeft(open \ {c})

ClickClear ==
    /\ UserMay
    /\ UNCHANGED <<account, items, aggregations>>
    /\ \E c \in open \ {"calendar"} :
          /\ HasClear(c)
          /\ IF c = "item_type" THEN Searched(None, activeFilter)
             ELSE Searched(itemType, Cleared(activeFilter, CHOOSE f \in FieldsOf(c) : TRUE))
          /\ MenusLeft(open \ {c})

\* Clear selection of the calendars: two filters, and a search after each.
ClearCalendars ==
    /\ UserMay
    /\ UNCHANGED <<account, itemType, items, aggregations>>
    /\ "calendar" \in open /\ HasClear("calendar")
    /\ Len(flight) + 1 < MaxFlight
    /\ LET first == Cleared(activeFilter, "calendar")
           second == Cleared(first, "agendas")
       IN  /\ activeFilter' = second
           /\ flight' = flight \o <<Request(itemType, first), Request(itemType, second)>>
    /\ MenusLeft(open \ {"calendar"})

\* A topic, the filter panel: any values, the type of items stays.
OtherSearch ==
    /\ UserMay
    /\ \E filter \in Filters : Searched(itemType, filter)
    /\ open' = {}
    /\ UNCHANGED <<account, items, aggregations>>

\* recieveItems
Answer ==
    \E n \in 1 .. Len(flight) :
        /\ AnyOrder \/ n = 1
        /\ LET type == ServerType(flight[n].type) IN
           /\ items' = Found(type, flight[n].filter)
           /\ aggregations' = get_agenda_aggregations(type, items')
        /\ flight' = RemoveAt(flight, n)
        /\ UNCHANGED <<account, itemType, activeFilter, open>>

Fail ==
    /\ MayFail
    /\ \E n \in 1 .. Len(flight) :
          /\ AnyOrder \/ n = 1
          /\ flight' = RemoveAt(flight, n)
    /\ UNCHANGED <<account, itemType, activeFilter, items, aggregations, open>>

Next ==
    \/ ClickButton \/ ClickOutside \/ toggleDropdownFilter \/ ClickClear \/ ClearCalendars
    \/ OtherSearch \/ Answer \/ Fail

Spec == Init /\ [][Next]_vars
----------------------------------------------------------------------------
\* The type invariant; only a control that is drawn has an open menu.
TypeOK ==
    /\ itemType \in Types \cup {None}
    /\ \A f \in Fields : activeFilter[f] = None \/ activeFilter[f] \subseteq Values(f)
    /\ items \subseteq Items
    /\ \A c \in open : Drawn(c)
    /\ Len(flight) <= MaxFlight

Settled == flight = <<>> /\ aggregations # None

\* What the bar shows and what the server does agree: once the answers are in, the list
\* holds the items that match the controls that are drawn, and no filter that is not drawn
\* narrows it.  (Left out: what a control of planning items says while only events are
\* searched, which the server ignores.)
ListMatchesBar ==
    Settled =>
        items = {i \in Items :
            /\ ServerType(itemType) # None => ServerType(itemType) \in i.types
            /\ \A c \in Controls : \A f \in FieldsOf(c) :
                  (/\ Drawn(c) /\ isActive(c) /\ activeFilter[f] # None /\ activeFilter[f] # {}
                   /\ ~(ServerType(itemType) = "events" /\ f \in planning_filters))
                      => Matches(i, f, activeFilter[f])}

=============================================================================
