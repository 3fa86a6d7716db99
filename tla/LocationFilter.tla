--------------------------- MODULE LocationFilter ---------------------------
(***************************************************************************)
(* The location filter of the agenda: a drop-down with a search box whose  *)
(* results (regions, then places) are walked with the arrow keys.  Typing  *)
(* is debounced, the answers come later, and the keys work on whatever     *)
(* element has the focus then.                                             *)
(***************************************************************************)
EXTENDS Naturals, Integers, Sequences, SequencesExt

CONSTANTS
    Queries,     \* what can be in the search box, "" (empty) among them
    Found,       \* what the server finds: [Queries -> [regions, places]]
    PlaceOption, \* "place" of CALENDAR_LOCATIONS_FILTER_OPTIONS: "on", "off" or "unset"
    None,
    AnyOrder,    \* answers may overtake each other
    MayFail,     \* requests may fail
    Waits,       \* the user opens, clicks and moves only when no search is on its way
    Acts,        \* what the user does: "mouse", "keys", "type", "close", "point"
    MaxFlight    \* bound: requests on their way

FilterAssumption ==
    /\ "" \in Queries
    /\ DOMAIN Found = Queries
    /\ PlaceOption \in {"on", "off", "unset"}
    /\ \A flag \in {AnyOrder, MayFail, Waits} : flag \in BOOLEAN
    /\ Acts \subseteq {"mouse", "keys", "type", "close", "point"}
    /\ MaxFlight \in Nat \ {0}

VARIABLES
    open, loading, results, selectedIndex,   \* the component's state
    text,     \* the value of the search box (the browser keeps it)
    focus,    \* the focused element: an item's index (0, 1, ...) or one of the four below
    pending,  \* the query the debounce holds, or None
    wrapping, \* the task that leads the focus back to the search box is scheduled
    flight,   \* the queries on their way, oldest first
    location  \* activeFilter.location: a region or place, or None

vars == <<open, loading, results, selectedIndex, text, focus, pending, wrapping, flight, location>>
----------------------------------------------------------------------------
\* The elements that are not rows of the list.
SearchInput == -1
ClearButton == -2
SubnavButton == -3
Nothing == -4

(***************************************************************************)
(* The server and the list.                                                *)
(***************************************************************************)
NoResults == [regions |-> <<>>, places |-> <<>>]

\* search_locations: without the key the server takes the option as set.
search_locations(q) ==
    IF PlaceOption = "off" THEN [Found[q] EXCEPT !.places = <<>>] ELSE Found[q]

\* The browser's side takes it as set only when it is.
isPlaceEnabled == PlaceOption = "on"

\* numResults counts what the state holds, drawn or not.
numResults(r) == Len(r.regions) + Len(r.places)

\* What a click on item i selects: a region as it is, a place by its name.
Item(r, i) ==
    IF i < Len(r.regions) THEN r.regions[i + 1]
    ELSE [name |-> r.places[i - Len(r.regions) + 1], type |-> "location", state |-> None, country |-> None]

\* The data-item-index values in the page.
DrawnIn(r, busy) ==
    IF busy THEN {}
    ELSE (0 .. (Len(r.regions) - 1))
             \cup (IF isPlaceEnabled THEN Len(r.regions) .. (numResults(r) - 1) ELSE {})

Drawn == IF open THEN DrawnIn(results, loading) ELSE {}

\* A name alone (a string) has neither a type nor a name.
Bare == [name |-> None, type |-> None, state |-> None, country |-> None]

isActive == location # None /\ location # Bare

\* Drawing the list anew keeps the focus on an item only while the same item stays at its place.
FocusAfter(r, busy) ==
    IF focus \in Nat /\ ~(/\ focus \in DrawnIn(r, busy)
                          /\ focus \in DrawnIn(results, loading)
                          /\ Item(r, focus) = Item(results, focus))
    THEN Nothing ELSE focus

Idle == pending = None /\ flight = <<>>

UserMay(act) == act \in Acts /\ (Waits => Idle)
----------------------------------------------------------------------------
Init ==
    /\ open = FALSE /\ loading = FALSE /\ results = NoResults /\ selectedIndex = -1
    /\ text = "" /\ focus = Nothing /\ pending = None /\ wrapping = FALSE /\ flight = <<>>
    /\ location = None

Search(q) ==
    /\ Len(flight) < MaxFlight
    /\ flight' = Append(flight, q)
    /\ loading' = TRUE

showDropdown ==
    /\ Search("")
    /\ open' = TRUE
    /\ focus' = SearchInput
    /\ UNCHANGED <<results, selectedIndex, text, pending, wrapping, location>>

\* A slip: no new search while one is on its way.
SkippingSearch(q) ==
    /\ pending' = None
    /\ IF flight # <<>> THEN UNCHANGED <<flight, loading>> ELSE Search(q)

\* _handleSearch by the debounce.
FreshSearch(q) == Search(q) /\ pending' = None

\* The debounce and the requests on their way are not cancelled.
Closed ==
    /\ open' = FALSE
    /\ text' = ""
    /\ selectedIndex' = -1
    /\ results' = NoResults
    /\ loading' = FALSE
    /\ focus' = SubnavButton

hideDropdown ==
    /\ Closed
    /\ UNCHANGED <<pending, wrapping, flight, location>>

toggleDropdown == IF open THEN hideDropdown ELSE showDropdown

ClickButton == UserMay("mouse") /\ toggleDropdown

\* A click elsewhere on the page, or Escape, at any time.
handleClickOutside == "close" \in Acts /\ open /\ hideDropdown

\* Only the type and the name are compared.
toggleLocationFilter(item) ==
    LET current == IF location = None THEN Bare ELSE location IN
    IF current.type = item.type /\ current.name = item.name THEN None ELSE item

onChange(item) ==
    /\ open
    /\ Closed
    /\ location' = (IF item = None THEN None ELSE toggleLocationFilter(item))
    /\ UNCHANGED <<pending, wrapping, flight>>

ClickItem == UserMay("mouse") /\ \E i \in Drawn : onChange(Item(results, i))

ClickClear == UserMay("mouse") /\ open /\ isActive /\ onChange(None)

ClickInput ==
    /\ UserMay("point")
    /\ open /\ focus # SearchInput
    /\ focus' = SearchInput
    /\ UNCHANGED <<open, loading, results, selectedIndex, text, pending, wrapping, flight, location>>

\* Typing is never held up by a search.
onSearchInputChange ==
    /\ "type" \in Acts
    /\ open /\ focus = SearchInput
    /\ \E q \in Queries \ {text} : text' = q /\ pending' = q
    /\ UNCHANGED <<open, loading, results, selectedIndex, focus, wrapping, flight, location>>

handleSearch ==
    /\ pending # None
    /\ FreshSearch(pending)
    /\ focus' = FocusAfter(results, TRUE)
    /\ UNCHANGED <<open, results, selectedIndex, text, wrapping, location>>

Received(r) == results' = r /\ loading' = FALSE /\ focus' = FocusAfter(r, FALSE)

Answer ==
    \E i \in 1 .. Len(flight) :
        /\ AnyOrder \/ i = 1
        /\ Received(search_locations(flight[i]))
        /\ flight' = RemoveAt(flight, i)
        /\ UNCHANGED <<open, selectedIndex, text, pending, wrapping, location>>

\* There is no catch: the list stays at "Searching locations...".
Fail ==
    /\ MayFail
    /\ \E i \in 1 .. Len(flight) : flight' = RemoveAt(flight, i)
    /\ UNCHANGED <<open, loading, results, selectedIndex, text, focus, pending, wrapping, location>>
----------------------------------------------------------------------------

\* The highlight moves even when there is no such element to focus.
focusItem(i) ==
    /\ selectedIndex' = i
    /\ focus' = (IF i \in Drawn THEN i ELSE focus)

FocusOn(element) == focus' = element /\ UNCHANGED selectedIndex

Above == IF isActive THEN ClearButton ELSE SearchInput

handleKeyUpArrow ==
    \/ focus = SearchInput /\ focusItem(numResults(results) - 1)
    \/ focus = ClearButton /\ FocusOn(SearchInput)
    \/ focus \in Nat /\ focus > 0 /\ focusItem(focus - 1)
    \/ focus = 0 /\ focus' = Above /\ selectedIndex' = -1

handleKeyDownArrow ==
    \/ focus = SearchInput /\ isActive /\ FocusOn(ClearButton) /\ UNCHANGED wrapping
    \/ focus = SearchInput /\ ~isActive /\ focusItem(0) /\ UNCHANGED wrapping
    \/ focus = ClearButton /\ focusItem(0) /\ UNCHANGED wrapping
    \/ focus \in Nat /\ focus + 1 < numResults(results) /\ focusItem(focus + 1) /\ UNCHANGED wrapping
    \/ focus \in Nat /\ focus + 1 >= numResults(results) /\ focusItem(0) /\ wrapping' = TRUE

KeyUp ==
    /\ UserMay("keys") /\ open
    /\ handleKeyUpArrow
    /\ UNCHANGED <<open, loading, results, text, pending, wrapping, flight, location>>

KeyDown ==
    /\ UserMay("keys") /\ open
    /\ handleKeyDownArrow
    /\ UNCHANGED <<open, loading, results, text, pending, flight, location>>

\* The scheduled task: a hidden box takes no focus.
ScrolledBack ==
    /\ wrapping
    /\ wrapping' = FALSE
    /\ selectedIndex' = -1
    /\ focus' = (IF open THEN SearchInput ELSE focus)
    /\ UNCHANGED <<open, loading, results, text, pending, flight, location>>

\* A single place is passed on as its name.
OnlyResult == IF results.places # <<>> THEN Bare ELSE results.regions[1]

\* With any other number of results the browser submits the form of the box: the page
\* is loaded anew, without its parameters.
handleKeyEnter ==
    \/ focus = SearchInput /\ numResults(results) = 1 /\ onChange(OnlyResult)
    \/ focus \in Nat /\ onChange(Item(results, focus))
    \/ focus = ClearButton /\ onChange(None)
    \/ /\ focus = SearchInput /\ numResults(results) # 1
       /\ open' = FALSE /\ loading' = FALSE /\ results' = NoResults /\ selectedIndex' = -1
       /\ text' = "" /\ focus' = Nothing /\ pending' = None /\ wrapping' = FALSE /\ flight' = <<>>
       /\ location' = None

KeyEnter == UserMay("keys") /\ open /\ handleKeyEnter

Next ==
    \/ ClickButton \/ handleClickOutside \/ ClickItem \/ ClickClear \/ ClickInput
    \/ onSearchInputChange \/ handleSearch \/ Answer \/ Fail
    \/ KeyUp \/ KeyDown \/ ScrolledBack \/ KeyEnter

\* The timers run out and the requests end.
Spec ==
    /\ Init /\ [][Next]_vars
    /\ WF_vars(handleSearch) /\ WF_vars(Answer) /\ WF_vars(ScrolledBack)
----------------------------------------------------------------------------
Places == {[name |-> p, type |-> "location", state |-> None, country |-> None] :
               p \in UNION {ToSet(Found[q].places) : q \in Queries}}

Regions == UNION {ToSet(Found[q].regions) : q \in Queries}

MaxResults == 8

\* The type invariant; a closed drop-down has an empty box.
TypeOK ==
    /\ open \in BOOLEAN /\ loading \in BOOLEAN /\ wrapping \in BOOLEAN
    /\ results \in {NoResults} \cup {search_locations(q) : q \in Queries}
    /\ selectedIndex \in -1 .. MaxResults
    /\ text \in Queries /\ (~open => text = "")
    /\ focus \in -4 .. MaxResults
    /\ pending \in Queries \cup {None}
    /\ \A i \in 1 .. Len(flight) : flight[i] \in Queries
    /\ location \in {None, Bare} \cup Regions \cup Places

\* Once every search is answered in its order, an open list holds what the server finds
\* for the text in the box: neither the debounce nor an answer for an earlier text,
\* before a closing or not, is what stays (showDropdown, handleSearch).
ResultsMatchText ==
    (open /\ Idle /\ ~MayFail) => results = search_locations(text) /\ ~loading

\* The keyboard is never lost in the open list: the focus is on the box, the clear
\* button or a row that is drawn, so the next key finds its element (handleKeydown).
KeyboardKept ==
    (open /\ Idle /\ ~MayFail) => focus \in {SearchInput} \cup Drawn \cup (IF isActive THEN {ClearButton} ELSE {})

=============================================================================
