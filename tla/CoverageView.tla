----------------------------- MODULE CoverageView -----------------------------
(* How the agenda shows the coverages of an item: their icons in the rows of the
   list, day by day, and the boxes of the preview with status, tooltip, expected
   update, stories and watching (assets/agenda/utils.ts and
   assets/agenda/components/preview/coverage).

   The newsroom moves the coverages on; each step reaches the page as a whole new
   item. Wording, names of assignees and the watching of the item itself, which
   AgendaResults has, are left out. The items of a delivery are numbered 1, 2, ...
   in the order they were begun; at most one is being written at a time. *)
EXTENDS Integers, Sequences, FiniteSets, SequencesExt

CONSTANTS Covs,        \* coverages, by position in the item: 1 .. n
          PlanOf, Type, \* Type[c]: "text" or "picture"
          Updates,     \* Updates[c]: how many scheduled updates are planned, 1 .. Updates[c]
          Days, Unscheduled,   \* integers; Unscheduled is none of the days
          PreviewDay, Accessible,   \* Accessible: the stories <<c, n>> the company may read
          LatestOnly, Restricted, Parent,  \* show_coverage_latest_version_only; restrict_coverage_info; the item is watched
          Acts, AnyOrder, MaxVersion, MaxDeliveries, MaxFlight, None

CoverageAssumption == {LatestOnly, Restricted, Parent, AnyOrder} \subseteq BOOLEAN /\ Unscheduled \notin Days

VARIABLES item,     \* the item the page has: its version and coverages
          watches,  \* the coverages the user watches, on the server
          flipped,  \* coverages whose list of deliveries a render has turned round
          preview,  \* whether it is open, the expected updates it shows, whether the item is still the one opened
          stories,  \* the stories the page has
          rows,     \* for each day, the icons of its row
          flight    \* answers on their way
vars == <<item, watches, flipped, preview, stories, rows, flight>>

Plans == {PlanOf[c] : c \in Covs}
May(act) == act \in Acts

-------------------------------------------------------------------------------
(* A coverage: status, workflow, day, the deliveries in the order they were begun,
   and whether the user watches it. A delivery is [update, ready]; update 0 is the
   first story or one that was not scheduled. *)

Delivery(cov, n) == [n |-> n, update |-> cov.raw[n].update, ready |-> cov.raw[n].ready]
Media(cov) == IF cov.workflow = "completed" THEN <<[n |-> 1, update |-> 0, ready |-> TRUE]>> ELSE <<>>
\* Mutant: oldest first, as Superdesk sends them.
UnsortedDelivery(cov) == IF Type[cov.id] = "text" THEN [n \in DOMAIN cov.raw |-> Delivery(cov, n)] ELSE Media(cov)
\* The newest comes first; what is not text has one delivery, when it is completed.
set_delivery(cov) ==
    IF Type[cov.id] = "text" THEN Reverse([n \in DOMAIN cov.raw |-> Delivery(cov, n)]) ELSE Media(cov)
deliveries(cov) == set_delivery(cov)
\* The number of the newest delivery that is published (delivery_id, publish_time).
get_latest_available_delivery(cov) ==
    LET ready == SelectSeq(deliveries(cov), LAMBDA d : d.ready)
    IN  IF ready = <<>> THEN 0 ELSE ready[1].n

isCoverageBeingUpdated(cov) == deliveries(cov) # <<>> /\ ~deliveries(cov)[1].ready
DraftText(cov) == <<"status", cov.status>>
getCoverageStatusText(cov) ==
    LET ds == deliveries(cov)
    IN  IF cov.workflow = "draft" \/ cov.status # "intended" THEN DraftText(cov)
        ELSE IF /\ cov.workflow = "completed" /\ get_latest_available_delivery(cov) # 0
                /\ (Len(ds) = 2 /\ ds[1].ready) \/ Len(ds) > 2
             THEN <<"updated">> ELSE <<cov.workflow>>
\* The state of the deliveries and the date, when there is one to tell.
handleStatus(cov, beingUpdated) ==
    CASE cov.workflow = "draft" -> getCoverageStatusText(cov)
      [] cov.workflow \in {"assigned", "active"} ->
            <<cov.workflow, IF ~Restricted /\ cov.day # Unscheduled THEN cov.day ELSE Unscheduled>>
      [] cov.workflow = "completed" ->
            <<"available", IF Len(deliveries(cov)) <= 1 THEN ""
                           ELSE IF beingUpdated THEN "update to come" ELSE "updated">>
      [] OTHER -> <<cov.workflow>>
getCoverageTooltip(cov, beingUpdated) ==
    IF cov.status # "intended" THEN DraftText(cov) ELSE handleStatus(cov, beingUpdated)
\* The colour of an icon in a row: by status, or else by workflow.
Colour(cov) == IF cov.status # "intended" THEN cov.status ELSE cov.workflow

\* The update that is expected next; `raw` is the list as the render finds it, and turns round.
getNextPendingScheduledUpdate(c, raw) ==
    IF Updates[c] = 0 \/ raw = <<>> THEN None
    ELSE IF Len(raw) = 1 THEN 1
    ELSE LET scheduled == SelectSeq(Reverse(raw), LAMBDA d : d.update # 0)
         IN  IF scheduled = <<>> THEN 1
             ELSE IF scheduled[1].update = Updates[c] THEN None ELSE scheduled[1].update + 1
TurnsRound(c, raw) == Updates[c] # 0 /\ Len(raw) > 1

-------------------------------------------------------------------------------
(* The rows. An icon has a place; it keeps what it worked out of its coverage, and
   draws what it had worked out when it was last given another one. *)

isCoverageForExtraDay(cov, d) == cov.day # Unscheduled /\ cov.day = d
coveragesToDisplay(i, d) ==
    SelectSeq([c \in Covs |-> i.covs[c]], LAMBDA cov : cov.day = Unscheduled \/ isCoverageForExtraDay(cov, d))
Fresh(cov) == [props |-> cov, state |-> cov, drawn |-> cov]
\* shouldComponentUpdate refuses the render that setState asks for.
Given(place, cov) == IF place.props = cov THEN place ELSE [props |-> cov, state |-> cov, drawn |-> place.state]
AgendaListItemIcons(old, i, d) ==
    LET covs == coveragesToDisplay(i, d)
    IN  [n \in DOMAIN covs |-> IF n \in DOMAIN old THEN Given(old[n], covs[n]) ELSE Fresh(covs[n])]
\* An icon is left out when its coverage is scheduled and what it draws is not of the day.
AgendaListCoverageItem(place, d) ==
    IF place.props.day = Unscheduled \/ isCoverageForExtraDay(place.drawn, d)
    THEN <<[colour |-> Colour(place.props), type |-> Type[place.drawn.id],
            tooltip |-> getCoverageTooltip(place.drawn, isCoverageBeingUpdated(place.drawn)),
            watching |-> place.drawn.watch, updating |-> isCoverageBeingUpdated(place.drawn)]>>
    ELSE <<>>
Icons(d) == FlattenSeq([n \in DOMAIN rows[d] |-> AgendaListCoverageItem(rows[d][n], d)])

-------------------------------------------------------------------------------
(* The preview: a box for each plan, the coverages of earlier days apart. *)

isCoverageOnPreviousDay(cov, d) == cov.day # Unscheduled /\ cov.day < d
getCoveragesForDisplay(i, plan, d) ==
    LET covs == SelectSeq([c \in Covs |-> i.covs[c]], LAMBDA cov : PlanOf[cov.id] = plan)
        Before(cov) == ~isCoverageForExtraDay(cov, d) /\ isCoverageOnPreviousDay(cov, d)
    IN  [current |-> SelectSeq(covs, LAMBDA cov : ~Before(cov)), previous |-> SelectSeq(covs, Before)]
AgendaPreviewCoverages(plan) ==
    LET shown == getCoveragesForDisplay(item, plan, PreviewDay) IN shown.current \o shown.previous

\* What a story's button opens: the story, or nothing the company may not read.
getViewContentButtonAttributes(s) == IF s \in Accessible THEN s ELSE None
\* The stories the page has of a completed coverage, the newest first.
wireVersions(cov) ==
    IF cov.workflow # "completed" THEN <<>>
    ELSE SelectSeq([n \in DOMAIN deliveries(cov) |-> <<cov.id, deliveries(cov)[n].n>>], LAMBDA s : s \in stories)
CoverageActions(cov) ==
    LET versions == wireVersions(cov)
        shown == IF LatestOnly /\ versions # <<>> THEN <<versions[1]>> ELSE versions
    IN  [content |-> [n \in DOMAIN shown |-> getViewContentButtonAttributes(shown[n])],
         media |-> cov.workflow = "completed" /\ Type[cov.id] = "picture",
         action |-> IF cov.watch THEN "Stop watching" ELSE "Watch", disabled |-> Parent]
\* The text of the story that was delivered last, when the page has it.
CoverageWireText(cov) ==
    LET s == <<cov.id, get_latest_available_delivery(cov)>> IN IF s \in stories THEN s ELSE None
CoverageExpectedDate(cov) == IF cov.workflow = "completed" \/ cov.day = Unscheduled THEN None ELSE cov.day
CoverageUpdateComing(cov) == isCoverageBeingUpdated(cov)
\* What a coverage's rows say, field by field.
AgendaCoverages(c) ==
    LET cov == item.covs[c]
    IN  [header |-> getCoverageTooltip(cov, isCoverageBeingUpdated(cov)), status |-> getCoverageStatusText(cov),
         expected |-> CoverageExpectedDate(cov), coming |-> CoverageUpdateComing(cov),
         scheduled |-> preview.pending[c], text |-> CoverageWireText(cov), actions |-> CoverageActions(cov)]

-------------------------------------------------------------------------------
(* A render of the open preview, of item i with the lists in `turned`. *)
Raw(i, c, turned) == IF c \in turned THEN Reverse(i.covs[c].raw) ELSE i.covs[c].raw
CoverageScheduledStatus(i, c, turned) ==
    IF i.covs[c].workflow # "completed" THEN None ELSE getNextPendingScheduledUpdate(c, Raw(i, c, turned))
Rendered(i, turned, open, same) ==
    LET drawn == {c \in Covs : open /\ i.covs[c].workflow = "completed" /\ TurnsRound(c, i.covs[c].raw)}
    IN  /\ preview' = [open |-> open, same |-> same,
                       pending |-> [c \in Covs |-> IF open THEN CoverageScheduledStatus(i, c, turned) ELSE None]]
        /\ flipped' = (turned \ drawn) \union (drawn \ turned)

Blank(c) == [id |-> c, status |-> "intended", workflow |-> "draft", day |-> CHOOSE d \in Days : \A e \in Days : d <= e,
             raw |-> <<>>, watch |-> FALSE]
Init ==
    /\ item = [version |-> 0, covs |-> [c \in Covs |-> Blank(c)]]
    /\ watches = {} /\ flipped = {} /\ stories = {} /\ flight = <<>>
    /\ preview = [open |-> FALSE, same |-> TRUE, pending |-> [c \in Covs |-> None]]
    /\ rows = [d \in Days |-> AgendaListItemIcons(<<>>, [version |-> 0, covs |-> [c \in Covs |-> Blank(c)]], d)]

Unready(cov) == \E n \in DOMAIN cov.raw : ~cov.raw[n].ready
LastUpdate(cov) == Cardinality({n \in DOMAIN cov.raw : cov.raw[n].update # 0})
\* What the newsroom may make of a coverage next.
Moves(cov) ==
    LET text == Type[cov.id] = "text"
        To(w) == [cov EXCEPT !.workflow = w]
        Begun(u) == [cov EXCEPT !.raw = Append(@, [update |-> u, ready |-> FALSE])]
    IN  (IF May("draft") THEN {[cov EXCEPT !.status = s] : s \in {"intended", "not intended"}} ELSE {})
        \union (IF cov.workflow = "draft" THEN {To("assigned")} ELSE {})
        \union (IF cov.workflow = "assigned" THEN {To("active")} ELSE {})
        \union (IF cov.workflow = "active"
                THEN {[To("completed") EXCEPT !.raw = IF text THEN <<[update |-> 0, ready |-> TRUE]>> ELSE <<>>]} ELSE {})
        \union (IF cov.workflow = "completed" /\ text /\ ~Unready(cov) /\ Len(cov.raw) < MaxDeliveries
                THEN {Begun(0)} \union (IF LastUpdate(cov) < Updates[cov.id] THEN {Begun(LastUpdate(cov) + 1)} ELSE {})
                ELSE {})
        \union (IF Unready(cov) THEN {[cov EXCEPT !.raw[Len(cov.raw)].ready = TRUE]} ELSE {})
        \union (IF May("cancel") /\ cov.workflow \in {"assigned", "active"} THEN {To("cancelled")} ELSE {})
        \union (IF May("move") THEN {[cov EXCEPT !.day = d] : d \in Days} ELSE {})
        \union (IF May("unschedule") THEN {[cov EXCEPT !.day = Unscheduled]} ELSE {})

\* The watches of a coverage are carried over from the one that is stored.
set_coverages(next) == [c \in Covs |-> [next[c] EXCEPT !.watch = c \in watches]]
\* A push: the page gets the whole item anew, with the watches the server has.
Push(c) ==
    /\ item.version < MaxVersion
    /\ \E cov \in Moves(item.covs[c]) \ {item.covs[c]} :
        LET next == [version |-> item.version + 1,
                     covs |-> set_coverages([item.covs EXCEPT ![c] = cov])]
        IN  /\ item' = next
            /\ rows' = [d \in Days |-> AgendaListItemIcons(rows[d], next, d)]
            /\ Rendered(next, {}, preview.open, FALSE)
    /\ UNCHANGED <<watches, stories, flight>>

fetchWireItemsForAgenda(i) ==
    UNION {{<<c, n>> : n \in DOMAIN i.covs[c].raw} : c \in {e \in Covs : Type[e] = "text"}}
OpenPreview ==
    /\ May("preview") /\ ~preview.open /\ Len(flight) < MaxFlight
    /\ Rendered(item, flipped, TRUE, TRUE)
    /\ flight' = IF fetchWireItemsForAgenda(item) = {} THEN flight
                 ELSE Append(flight, [kind |-> "stories", of |-> fetchWireItemsForAgenda(item)])
    /\ UNCHANGED <<item, watches, stories, rows>>
ClosePreview ==
    /\ preview.open
    /\ Rendered(item, flipped, FALSE, TRUE)
    /\ UNCHANGED <<item, watches, stories, rows, flight>>
\* Anything else on the page changes, and the preview is drawn again.
Rerender ==
    /\ May("rerender") /\ preview.open
    /\ Rendered(item, flipped, TRUE, preview.same)
    /\ UNCHANGED <<item, watches, stories, rows, flight>>
\* A row becomes active, or is selected: it is drawn again.
RerenderRow(d) ==
    /\ rows' = [rows EXCEPT ![d] = AgendaListItemIcons(@, item, d)]
    /\ UNCHANGED <<item, watches, flipped, preview, stories, flight>>

\* Watch and Stop watching; the buttons rest while the item itself is watched.
ClickAction(c) ==
    /\ May("watch") /\ preview.open /\ Len(flight) < MaxFlight
    /\ ~CoverageActions(item.covs[c]).disabled
    /\ watches' = IF CoverageActions(item.covs[c]).action = "Watch" THEN watches \union {c} ELSE watches \ {c}
    /\ flight' = Append(flight, [kind |-> CoverageActions(item.covs[c]).action, of |-> {c}])
    /\ UNCHANGED <<item, flipped, preview, stories, rows>>

Answer(n) ==
    LET a == flight[n]
        watched == [item EXCEPT !.covs = [c \in Covs |->
                        IF c \in a.of THEN [item.covs[c] EXCEPT !.watch = a.kind = "Watch"] ELSE item.covs[c]]]
    IN  /\ flight' = RemoveAt(flight, n)
        /\ IF a.kind = "stories"
           THEN /\ stories' = {s \in a.of : item.covs[s[1]].raw[s[2]].ready} /\ item' = item
           ELSE /\ item' = watched /\ stories' = stories
        /\ Rendered(item', flipped, preview.open, preview.same)
        /\ UNCHANGED <<watches, rows>>

Next ==
    \/ \E c \in Covs : Push(c) \/ ClickAction(c)
    \/ OpenPreview \/ ClosePreview \/ Rerender
    \/ \E d \in Days : RerenderRow(d)
    \/ \E n \in (IF AnyOrder THEN DOMAIN flight ELSE {1} \intersect DOMAIN flight) : Answer(n)
Spec == Init /\ [][Next]_vars

-------------------------------------------------------------------------------
Coverage == [id : Covs, status : {"intended", "not intended"}, day : Days \union {Unscheduled}, watch : BOOLEAN,
             workflow : {"draft", "assigned", "active", "completed", "cancelled"}]
IsCoverage(cov) ==
    /\ [f \in {"id", "status", "day", "watch", "workflow"} |-> cov[f]] \in Coverage
    /\ Len(cov.raw) <= MaxDeliveries
    /\ \A n \in DOMAIN cov.raw : cov.raw[n].update \in 0 .. Updates[cov.id] /\ cov.raw[n].ready \in BOOLEAN

(* The variables have their types; only lists a render could turn round are turned,
   and a row has a place for each coverage it was last drawn with. *)
TypeOK ==
    /\ item.version \in 0 .. MaxVersion
    /\ \A c \in Covs : IsCoverage(item.covs[c]) /\ item.covs[c].id = c
    /\ watches \subseteq Covs
    /\ flipped \subseteq {c \in Covs : item.covs[c].workflow = "completed" /\ TurnsRound(c, item.covs[c].raw)}
    /\ preview.open \in BOOLEAN /\ preview.same \in BOOLEAN
    /\ \A c \in Covs : preview.pending[c] \in {None} \union 1 .. Updates[c]
    /\ \A s \in stories : s[1] \in Covs /\ s[2] \in 1 .. MaxDeliveries
    /\ \A d \in Days : \A n \in DOMAIN rows[d] : \A f \in {"props", "state", "drawn"} : IsCoverage(rows[d][n][f])
    /\ Len(flight) <= MaxFlight

(* Tooltip, status and label are worked out separately (handleStatus,
   getCoverageStatusText, isCoverageBeingUpdated) and agree about the deliveries: a
   text coverage is "updated" when two or more stories are out, and the tooltip
   says "updated" only then and "update to come" only with the label. *)
UpdatedAgrees ==
    \A c \in Covs : Type[c] = "text" /\ item.covs[c].status = "intended" /\ item.covs[c].workflow = "completed" =>
        LET box == AgendaCoverages(c)
            out == Cardinality({n \in DOMAIN item.covs[c].raw : item.covs[c].raw[n].ready})
        IN  /\ (box.status = <<"updated">>) = (out >= 2)
            /\ box.header = <<"available", "updated">> => box.status = <<"updated">> /\ ~box.coming
            /\ box.header = <<"available", "update to come">> => box.coming

(* Whatever the plans and the days the coverages were moved to, the preview shows
   each coverage once, in the box of its plan (getCoveragesForDisplay). *)
CoverageShownOnce ==
    \A c \in Covs : \A p \in Plans :
        Cardinality({n \in DOMAIN AgendaPreviewCoverages(p) : AgendaPreviewCoverages(p)[n].id = c})
            = IF PlanOf[c] = p THEN 1 ELSE 0

(* A row drawn with the item as it is has, for each coverage due on its day, one
   icon of the coverage's colour, however the coverages were moved and updated,
   although the rest of an icon lags behind (AgendaListCoverageItem). *)
RowColours ==
    \A d \in Days :
        LET due == coveragesToDisplay(item, d)
        IN  [n \in DOMAIN rows[d] |-> rows[d][n].props] = due
                => [n \in DOMAIN Icons(d) |-> Icons(d)[n].colour] = [n \in DOMAIN due |-> Colour(due[n])]

(* While the preview shows the item it was opened with and nothing is on its way,
   every story that is out can be reached from its coverage's box, or the newest
   one when only that is shown, and the text is that of the newest. *)
ContentReachable ==
    preview.open /\ preview.same /\ flight = <<>> =>
        \A c \in Covs : Type[c] = "text" /\ item.covs[c].workflow = "completed" =>
            LET out == {<<c, n>> : n \in {m \in DOMAIN item.covs[c].raw : item.covs[c].raw[m].ready}}
                offered == Range(AgendaCoverages(c).actions.content) \ {None}
                newest == <<c, get_latest_available_delivery(item.covs[c])>>
            IN  /\ offered = (IF LatestOnly THEN {newest} ELSE out) \intersect Accessible
                /\ AgendaCoverages(c).text = newest

(* Once the answers are in, the button of a coverage says what the server has: a
   push that came in between does not bring back the other state. *)
WatchAgrees ==
    flight = <<>> => \A c \in Covs : (AgendaCoverages(c).actions.action = "Stop watching") = (c \in watches)

===============================================================================
