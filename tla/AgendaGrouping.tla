----------------------------- MODULE AgendaGrouping -----------------------------
(* On which days an agenda item is listed, and what is printed beside it:
   groupItems, formatAgendaDate and their helpers in assets/agenda/utils.ts, and
   the label of AgendaMetaTime.

   A moment is an instant and the mode it is printed in, UTC or the browser's
   time zone, as in moment.js. Time is counted in units, D to a day, and the
   last unit of a day stands for 23:59, so D - 1 units are DAY_IN_MINUTES. The
   zone is a fixed offset: the change to summer time is left out. Lists grouped
   by week or month, and the display range the server sends with a search
   between two dates (_display_from, _display_to), take the same way through
   groupItems with other keys. *)
EXTENDS Integers, Sequences, FiniteSets, FiniteSetsExt

CONSTANTS D,       \* units in a day
          Zones,   \* offsets of browsers' time zones, in units
          Items,   \* agenda items as the server sends them
          Ranges,  \* first and last day of searches; None for an open end
          None

GroupingAssumption == D \in Nat \ {0, 1} /\ \A z \in Zones : -D < z /\ z < D

VARIABLES zone,    \* the browser's time zone
          item,    \* the item that a search has found
          range,   \* the days searched
          groups   \* the groups of the list: day |-> "items" or "hidden"
vars == <<zone, item, range, groups>>

Local(t) == [at |-> t, utc |-> FALSE]
Utc(t)   == [at |-> t, utc |-> TRUE]
DayOf(m) == (m.at + (IF m.utc THEN 0 ELSE zone)) \div D
Clock(m) == (m.at + (IF m.utc THEN 0 ELSE zone)) % D
EndOfDay(d) == Local(d * D + D - 1 - zone)

\* moment.min and moment.max keep the first of equal moments: those in local
\* time are listed first.
Earliest(ms) == CHOOSE m \in ms : \A n \in ms : m.at < n.at \/ (m.at = n.at /\ (m.utc => n.utc))
Latest(ms)   == CHOOSE m \in ms : \A n \in ms : m.at > n.at \/ (m.at = n.at /\ (m.utc => n.utc))

EndOr(i) == IF i.end = None THEN i.start ELSE i.end
getStartDate(i) == [at |-> i.start, utc |-> i.all_day]
LocalEnd(i) == EndOfDay(EndOr(i) \div D)
getEndDate(i) ==
    IF i.all_day THEN Utc(EndOr(i))
    ELSE IF ~ i.no_end_time THEN Local(EndOr(i))
    ELSE IF LocalEnd(i).at < i.start THEN getStartDate(i) ELSE LocalEnd(i)

(* The dates of plans and coverages; with hits, of those that the search matched. *)
Scheduled(p, ids) == {c.scheduled : c \in {d \in p.coverages : d.id \in ids}}
CoverageIds(i) == {c.id : c \in UNION {p.coverages : p \in i.plans}}
getDisplayDates(i) ==
    LET hits == IF i.hits = None THEN [plans |-> {p.id : p \in i.plans}, coverages |-> None] ELSE i.hits
        ids  == IF hits.coverages = None THEN CoverageIds(i) ELSE hits.coverages
    IN UNION {IF p.coverages = {} THEN {p.date} ELSE Scheduled(p, ids) : p \in {q \in i.plans : q.id \in hits.plans}}
getExtraDates(i) == {Local(t) : t \in getDisplayDates(i)}

MatchedSome(i) == i.plans = {} \/ i.hits = None \/ i.hits.plans # {} \/ i.hits.coverages \notin {None, {}}

isBetweenDay(day, i) == DayOf(getStartDate(i)) <= DayOf(day) /\ DayOf(day) <= DayOf(getEndDate(i))
containsExtraDate(day, i) == \E e \in getExtraDates(i) : DayOf(e) = DayOf(day)

MinDate == IF range[1] = None THEN {} ELSE {Local(range[1] * D - zone)}
FirstDay(i) == Latest({Earliest(getExtraDates(i) \cup {getStartDate(i)})} \cup MinDate)
NextDayOf(m) == [m EXCEPT !.at = @ + D]
(* The date the event was actioned on is read, and then replaced. *)
Cutoff(i) == Latest(getExtraDates(i) \cup {NextDayOf(getEndDate(i))} \cup MinDate)
LastDay(i) == IF range[2] # None THEN Earliest({Cutoff(i), EndOfDay(range[2])})
              ELSE Earliest({Cutoff(i), [FirstDay(i) EXCEPT !.at = @ + 10 * D]})

(* The loop of groupItems: day is a clone of the first day, in the mode of that
   moment, and the last is compared with it in the same mode. *)
Visited(i) == LET first == FirstDay(i)
                  last  == DayOf([first EXCEPT !.at = LastDay(i).at])
              IN {[first EXCEPT !.at = @ + n * D] : n \in 0 .. last - DayOf(first)}
ListedOn(i) == {DayOf(day) : day \in {d \in Visited(i) : isBetweenDay(d, i) \/ containsExtraDate(d, i)}}

Duration(i) == getEndDate(i).at - getStartDate(i).at
SameDay(i) == DayOf(getEndDate(i)) = DayOf(getStartDate(i))
getScheduleType(i) ==
    IF i.all_day THEN IF Duration(i) = 0 THEN "ALL_DAY" ELSE "MULTI_DAY"
    ELSE IF i.no_end_time THEN IF SameDay(i) THEN "NO_DURATION" ELSE "MULTI_DAY"
    ELSE IF Duration(i) > D - 1 \/ ~ SameDay(i) THEN "MULTI_DAY"
    ELSE IF Duration(i) = D - 1 THEN "ALL_DAY"
    ELSE IF Duration(i) = 0 THEN "NO_DURATION"
    ELSE "REGULAR"

IsHidden(i, d, featuredOnly) ==
    ~ featuredOnly /\ DayOf(getStartDate(i)) # d /\ getScheduleType(i) = "MULTI_DAY"

groupItems(i, featuredOnly) ==
    [d \in IF MatchedSome(i) THEN ListedOn(i) ELSE {} |-> IF IsHidden(i, d, featuredOnly) THEN "hidden" ELSE "items"]

-------------------------------------------------------------------------------
(* The plans that have a row of their own on a day. *)
WithCoverageOn(i, d) == {p \in i.plans : \E c \in p.coverages : DayOf(Local(c.scheduled)) = d}
getPlanningItemsByGroup(i, d) ==
    WithCoverageOn(i, d) \cup {p \in i.plans : p.coverages = {} /\ DayOf(Local(p.date)) = d}

(* The coverages drawn for a row: those of earlier days are drawn apart. *)
isCoverageOnPreviousDay(c, d) == DayOf(Local(c.scheduled)) < d
getCoveragesForDisplay(i, p, d) ==
    LET mine == UNION {q.coverages : q \in {r \in i.plans : p \in {None, r}}}
        previous == {c \in mine : isCoverageOnPreviousDay(c, d)}
    IN [current |-> mine \ previous, previous |-> previous]

(* What formatAgendaDate prints. *)
ParsedEnd(i) == [at |-> EndOr(i), utc |-> i.all_day]
PrintedEnd(i) == IF i.no_end_time /\ EndOr(i) < i.start THEN getEndDate(i) ELSE ParsedEnd(i)
WholeDays(i) == Clock(getStartDate(i)) = 0 /\ Clock(PrintedEnd(i)) = D - 1
formatAgendaDate(i, onlyDates) ==
    LET startDate == DayOf(getStartDate(i))
        endDate   == DayOf(PrintedEnd(i))
        type      == getScheduleType(i)
        days == IF startDate = endDate THEN <<startDate>> ELSE <<startDate, endDate>>
    IN CASE i.tbc -> [days |-> days, times |-> "to be confirmed"]
         [] startDate # endDate /\ (i.all_day \/ onlyDates \/ WholeDays(i)) -> [days |-> days, times |-> "none"]
         [] startDate = endDate /\ (i.all_day \/ onlyDates \/ type = "ALL_DAY") -> [days |-> days, times |-> "none"]
         [] i.no_end_time /\ startDate # endDate -> [days |-> days, times |-> "start"]
         [] i.no_end_time \/ type = "NO_DURATION" -> [days |-> <<startDate>>, times |-> "start"]
         [] type = "REGULAR" -> [days |-> <<startDate>>, times |-> "both"]
         [] OTHER -> [days |-> <<startDate, endDate>>, times |-> "both"]

-------------------------------------------------------------------------------
Init == /\ zone \in Zones
        /\ item = None /\ range = <<None, None>> /\ groups = None

(* An answer of the server: setListGroupsAndLoadHiddenItems groups it. *)
Found == /\ item = None
         /\ item' \in Items /\ range' \in Ranges /\ UNCHANGED <<zone, groups>>
Group == /\ item # None
         /\ \E featuredOnly \in BOOLEAN : groups' = groupItems(item, featuredOnly)
         /\ UNCHANGED <<zone, item, range>>

Next == Found \/ Group
Spec == Init /\ [][Next]_vars

-------------------------------------------------------------------------------
(* The state of the list: the groups map days to one of the two parts, and at
   most eleven days are drawn when no last day is given. *)
TypeOK == /\ zone \in Zones /\ item \in Items \cup {None} /\ range \in Ranges \cup {<<None, None>>}
          /\ groups = None \/ \A d \in DOMAIN groups :
                /\ groups[d] \in {"items", "hidden"}
                /\ range[2] # None \/ d <= Min(DOMAIN groups) + 10

Grouped == groups # None
(* What the reader expects: the days of the item and of its plans, from the
   first day searched to the last, and ten days on when no last day is. *)
ExpectedDays(i) ==
    LET whole == (DayOf(getStartDate(i)) .. DayOf(getEndDate(i))) \cup {DayOf(e) : e \in getExtraDates(i)}
        from  == IF range[1] = None THEN Min(whole) ELSE Max({Min(whole), range[1]})
        to    == IF range[2] = None THEN from + 10 ELSE range[2]
    IN whole \cap (from .. to)

(* An item that the search found is listed on each day that it takes place or
   that a matched plan or coverage is dated, within the days searched, and on
   no other (groupItems). *)
ListedOnItsDays == (Grouped /\ MatchedSome(item)) => DOMAIN groups = ExpectedDays(item)

(* The days printed beside an item are those it is listed on: the first and the
   last of its own days (formatAgendaDate reads the dates by another path than
   groupItems). An item without an end time has its end from the server in UTC,
   which formatAgendaDate takes for a local time: such items are left out. *)
PrintedDaysAreListed ==
    (Grouped /\ ~ item.no_end_time /\ range = <<None, None>> /\ item.plans = {}) =>
        LET printed == formatAgendaDate(item, TRUE).days
        IN /\ DOMAIN groups # {}
           /\ printed[1] = Min(DOMAIN groups)
           /\ printed[Len(printed)] = Max(DOMAIN groups) \/ printed[Len(printed)] > printed[1] + 10

(* No date range is printed backwards, and the number of the day is one of the
   days of the item (test "formatAgendaDate avoids reversed range for
   no_end_time events with end before start"). *)
RangeNotReversed ==
    Grouped => \A onlyDates \in BOOLEAN :
        LET printed == formatAgendaDate(item, onlyDates).days
        IN printed[1] <= printed[Len(printed)]

(* A multi-day item is in full view on the day it starts, once; on its other
   days it is folded away, unless the list shows featured items. *)
FoldedAfterFirstDay ==
    (Grouped /\ \E d \in DOMAIN groups : groups[d] = "hidden") =>
        LET open == {d \in DOMAIN groups : groups[d] = "items"}
        IN open \subseteq {DayOf(getStartDate(item))}
           /\ open = {} => DayOf(getStartDate(item)) \notin ExpectedDays(item)

(* A day the item is listed on for a plan alone has a row for such a plan
   (getPlanningItemsByGroup reads the coverages, groupItems the display dates). *)
PlanHasItsRow ==
    (Grouped /\ MatchedSome(item)) =>
        \A d \in DOMAIN groups \ (DayOf(getStartDate(item)) .. DayOf(getEndDate(item))) :
            getPlanningItemsByGroup(item, d) # {}

(* A coverage drawn small, as one of an earlier day, was drawn as current on the
   day it is dated, unless the search begins later (getCoveragesForDisplay). *)
PreviousWereCurrent ==
    (Grouped /\ item.hits = None) =>
        \A d \in DOMAIN groups : \A c \in getCoveragesForDisplay(item, None, d).previous :
            LET day == DayOf(Local(c.scheduled))
            IN \/ day \in DOMAIN groups /\ c \in getCoveragesForDisplay(item, None, day).current
               \/ range[1] # None /\ day < range[1]

===============================================================================
