-------------------------------- MODULE HomePage --------------------------------
(* The home page (assets/home) with its personal dashboard
   (PersonalizeHomeModal): the panels of the default page or of My Home, the
   item opened from one of them, its bookmark, and the dialog that chooses the
   topics of My Home. The server's side is the user's document with its etag,
   the topics the user sees, the bookmarks and the cached items of the cards. A
   request takes effect at the server when it is sent and is answered later.
   Only the wide layout; the texts, the section and the search of the dialog
   are left out. *)
EXTENDS Naturals, Sequences, FiniteSets, SequencesExt

CONSTANTS Topics, Shared,      \* the wire topics, those shared by the company
          Items, Access,       \* the items of the panels, those the user may open
          Galleries,           \* how many photo galleries the default page has
          MaxSelected,         \* MAX_SELECTED_TOPICS
          Acts, MayFail, AnyOrder, Waits, MaxFlight,
          None

HomeAssumption == /\ Shared \subseteq Topics /\ Access \subseteq Items
                         /\ Galleries \in Nat /\ MaxSelected \in Nat \ {0} /\ MaxFlight \in Nat

VARIABLES store,    \* topics, dash, itemToOpen, copies of the bookmarks, modal, same
          home,     \* what HomeApp and its panels keep
          form,     \* what the dialog keeps
          server,
          flight,   \* pushes and answers on their way
          asked,    \* the open item, once its bookmark was clicked
          saved,    \* the topics of the save that loaded this page
          base      \* the dashboard of the user when the page was loaded
vars == <<store, home, form, server, flight, asked, saved, base>>

May(act) == act \in Acts
Room(n) == Len(flight) + n <= MaxFlight
InFlight(kinds) == \E n \in 1..Len(flight) : flight[n].kind \in kinds
Closed == [on |-> FALSE, selected |-> <<>>, topics |-> {}]
Mark(set) == [i \in Items |-> i \in set]
Without(seq, x) == SelectSeq(seq, LAMBDA y : y # x)

-------------------------------------------------------------------------------
(* The reducer. *)
\* The server's get_personal_dashboards_data skips the topics the user does not see.
initData(sv) ==
    LET dash == SelectSeq(sv.dash, LAMBDA t : t \in sv.visible) IN
    [topics |-> sv.visible, dash |-> dash, itemToOpen |-> None, activeCard |-> None,
     cards |-> Mark({}), drawn |-> Mark(sv.marks), modal |-> None, same |-> TRUE]
openItem(s, item) == [s EXCEPT !.itemToOpen = item]
setActive(s, card) == [s EXCEPT !.activeCard = card]
setCardItems(s, copies) == [s EXCEPT !.cards = copies]
setTopics(s, topics) == [s EXCEPT !.topics = topics]
\* Bookmarked whatever item is open, a copy of nothing if none is.
Marked(s, b) == IF s.itemToOpen = None THEN [id |-> None, marked |-> b]
                                       ELSE [s.itemToOpen EXCEPT !.marked = b]
bookmarkItems(s) == [s EXCEPT !.itemToOpen = Marked(s, TRUE)]
removeBookmark(s) == [s EXCEPT !.itemToOpen = Marked(s, FALSE)]
\* modalReducer; MODAL_FORM_INVALID never reaches it on this page.
renderModal(s) == [s EXCEPT !.modal = [formValid |-> FALSE]]
closeModal(s) == [s EXCEPT !.modal = None]
modalFormValid(s) == IF s.modal = None THEN s ELSE [s EXCEPT !.modal.formValid = TRUE]

-------------------------------------------------------------------------------
(* What is drawn: the open item takes the place of the page, so the panels and
   the dialog are mounted anew when it closes. *)
Content(s) == s.itemToOpen = None
PanelsDrawn(s, option) == Content(s) /\ option = "default"
fetchItems(sv) == [kind |-> "cards", live |-> TRUE, copies |-> IF sv.cache = None THEN Mark(sv.marks) ELSE sv.cache]
Fetches(sv) == <<fetchItems(sv)>> \o [g \in 1..Galleries |-> [kind |-> "gallery", live |-> TRUE]]
Unmount(q) == [n \in 1..Len(q) |-> IF q[n].kind \in {"cards", "gallery"} THEN [q[n] EXCEPT !.live = FALSE] ELSE q[n]]
\* The topics the dialog starts with; over an open item it gets no dashboards.
Editor(s) == [on |-> s.modal # None,
              selected |-> IF s.modal # None /\ Content(s) THEN s.dash ELSE <<>>,
              topics |-> IF s.modal # None THEN s.topics ELSE {}]
\* The panels and the dialog after the store became s and the option o.
Draw(s, o, q) ==
    LET was == PanelsDrawn(store, home.option)
        now == PanelsDrawn(s, o) IN
    /\ store' = s
    /\ home' = [home EXCEPT !.option = o,
                            !.loading = IF now = was THEN @ ELSE now]
    /\ flight' = CASE now /\ ~was -> q \o Fetches(server)
                   [] ~now /\ was -> Unmount(q)
                   [] OTHER -> q
    /\ server' = IF now /\ ~was THEN [server EXCEPT !.cache = fetchItems(server).copies] ELSE server
\* Two dialogs are told apart by where they are drawn.
SameEditor(s) == (s.modal # None) = form.on /\ Content(s) = Content(store)
Redraw(s, q) == /\ Draw(s, home.option, q)
                /\ form' = IF SameEditor(s) THEN form ELSE Editor(s)
\* The constructor of HomeApp chooses the page.
Page(sv) == [hasPersonal |-> initData(sv).dash # <<>>,
             option |-> IF initData(sv).dash # <<>> THEN "my-home" ELSE "default",
             loading |-> initData(sv).dash = <<>>]
Load(sv) ==
    /\ store' = initData(sv)
    /\ home' = Page(sv)
    /\ form' = Closed
    /\ flight' = IF Page(sv).loading THEN Fetches(sv) ELSE <<>>
    /\ server' = IF Page(sv).loading THEN [sv EXCEPT !.cache = fetchItems(sv).copies] ELSE sv
    /\ asked' = None /\ base' = server.dash

-------------------------------------------------------------------------------
(* The user. *)
Free == Content(store) /\ ~form.on
switchOptions(o) ==
    /\ May("switch") /\ Free /\ home.hasPersonal /\ home.option # o /\ Room(1 + Galleries)
    /\ Draw(store, o, flight)
    /\ UNCHANGED <<form, asked, saved, base>>
\* My Home draws the topics the page still knows.
Panels == IF home.option = "my-home" THEN {t \in Topics : \E n \in 1..Len(store.dash) : store.dash[n] = t /\ t \in store.topics}
          ELSE IF home.loading THEN {} ELSE {"card"}
openItemDetails(i, panel) ==
    /\ May("open") /\ Free /\ panel \in Panels
    /\ LET copy == IF home.option = "my-home" THEN store.drawn[i] ELSE store.cards[i]
           s == IF i \in Access THEN openItem(store, [id |-> i, marked |-> copy]) ELSE store IN
       Redraw(setActive(s, panel), flight)
    /\ asked' = None /\ UNCHANGED <<saved, base>>
onClose ==
    /\ ~Content(store) /\ ~form.on /\ Room(1 + Galleries)
    /\ Waits => ~InFlight({"mark"})
    /\ Redraw(openItem(store, None), flight)
    /\ asked' = None /\ UNCHANGED <<saved, base>>
\* The buttons Bookmark and Unbookmark of the open item.
bookmark ==
    /\ May("mark") /\ ~Content(store) /\ ~form.on /\ store.itemToOpen.id # None /\ Room(1)
    /\ Waits => ~InFlight({"mark"})
    /\ LET i == store.itemToOpen.id
           b == ~store.itemToOpen.marked IN
       \E ok \in {TRUE} \cup (IF MayFail THEN {FALSE} ELSE {}) :
         /\ server' = IF ok THEN [server EXCEPT !.marks = IF b THEN @ \cup {i} ELSE @ \ {i}] ELSE server
         /\ flight' = Append(flight, [kind |-> "mark", ok |-> ok, on |-> b])
         /\ asked' = IF ok THEN i ELSE asked
    /\ UNCHANGED <<store, home, form, saved, base>>
personalizeHome ==
    /\ May("choose") /\ Free
    /\ Redraw(renderModal(store), flight)
    /\ UNCHANGED <<asked, saved, base>>
cancelDialog ==
    /\ form.on /\ Redraw(closeModal(store), flight)
    /\ UNCHANGED <<asked, saved, base>>
\* Any update tells the store that the form is valid if something is chosen.
componentDidUpdate(s, f) == IF f.selected = <<>> THEN s ELSE modalFormValid(s)
handleChange(f, t) ==
    [f EXCEPT !.selected = IF t \in ToSet(@) THEN Without(@, t)
                           ELSE IF Len(@) < MaxSelected THEN <<t>> \o @ ELSE @]
choose(t) ==
    /\ form.on /\ t \in form.topics
    /\ form' = handleChange(form, t)
    /\ store' = componentDidUpdate(store, form')
    /\ UNCHANGED <<home, server, flight, asked, saved, base>>
\* Switching between my and the company's topics, or searching.
lookAround ==
    /\ form.on /\ store' = componentDidUpdate(store, form)
    /\ UNCHANGED <<home, form, server, flight, asked, saved, base>>
\* Mutant: the document is replaced whatever its etag.
patchAlways(sv, same, ids) == [ok |-> TRUE, sv |-> [sv EXCEPT !.dash = ids]]
\* PATCH with If-Match.
patchEntity(sv, same, ids) == [ok |-> same, sv |-> IF same THEN [sv EXCEPT !.dash = ids] ELSE sv]
\* addCustomDashboard: the button never waits for the answer.
addCustomDashboard ==
    /\ form.on /\ store.modal.formValid /\ Room(1)
    /\ \E fails \in {FALSE} \cup (IF MayFail THEN {TRUE} ELSE {}) :
         LET r == patchEntity(server, store.same, form.selected)
             ok == r.ok /\ ~fails IN
         /\ server' = IF ok THEN r.sv ELSE server
         /\ store' = [componentDidUpdate(store, form) EXCEPT !.same = @ /\ ~ok]
         /\ flight' = Append(flight, [kind |-> "save", ok |-> ok, ids |-> form.selected])
    /\ UNCHANGED <<home, form, asked, saved, base>>
reload == /\ May("reload") /\ Load(server) /\ saved' = None

-------------------------------------------------------------------------------
(* The server, moved by other pages and other users. *)
Push(company) == [kind |-> "push", company |-> company]
\* on_delete also takes the topic off the dashboards of every user who has it there.
deleteTopic(sv, t) == [sv EXCEPT !.exists = @ \ {t}, !.visible = @ \ {t},
                                !.dash = IF t \in ToSet(@) THEN Without(@, t) ELSE @]
topicDeleted(t) ==
    /\ May("delete") /\ t \in server.visible /\ Room(1)
    /\ server' = deleteTopic(server, t)
    /\ store' = [store EXCEPT !.same = @ /\ t \notin ToSet(server.dash)]
    /\ flight' = Append(flight, Push(t \in Shared))
    /\ UNCHANGED <<home, form, asked, saved, base>>
\* A colleague stops or starts sharing a topic; the dashboards keep it.
topicShared(t) ==
    /\ May("share") /\ t \in Shared \cap server.exists /\ Room(1)
    /\ server' = [server EXCEPT !.visible = IF t \in @ THEN @ \ {t} ELSE @ \cup {t}]
    /\ flight' = Append(flight, Push(TRUE))
    /\ UNCHANGED <<store, home, form, asked, saved, base>>
\* Another page of the user saves My Home or the profile.
userChanged ==
    /\ May("user") /\ store' = [store EXCEPT !.same = FALSE]
    /\ \E dash \in {server.dash} \cup {<<t>> : t \in server.visible} : server' = [server EXCEPT !.dash = dash]
    /\ UNCHANGED <<home, form, flight, asked, saved, base>>
cacheExpires ==
    /\ May("cache") /\ server.cache # None /\ server' = [server EXCEPT !.cache = None]
    /\ UNCHANGED <<store, home, form, flight, asked, saved, base>>

-------------------------------------------------------------------------------
(* The answers and pushes. *)
\* topics:<user> and topics:company-<company> both reload the topics.
pushNotification(q, r, sv) == Append(q, [kind |-> "topics", topics |-> sv.visible])
\* An error is caught by the request itself.
settles(r, ok) == r.live
loadedAll(q) == \A n \in 1..Len(q) : q[n].kind \in {"cards", "gallery"} => ~q[n].live
cardsAnswered(r, q, ok) ==
    /\ store' = IF ok /\ r.kind = "cards" THEN setCardItems(store, r.copies) ELSE store
    /\ home' = IF settles(r, ok) THEN [home EXCEPT !.loading = @ /\ ~loadedAll(q)] ELSE home
    /\ flight' = q
    /\ UNCHANGED <<form, server, asked, saved, base>>
topicsAnswered(r, q, ok) ==
    /\ store' = IF ok THEN componentDidUpdate(setTopics(store, r.topics), form) ELSE store
    /\ flight' = q
    /\ UNCHANGED <<home, form, server, asked, saved, base>>
markAnswered(r, q) ==
    /\ IF r.ok THEN Redraw(IF r.on THEN bookmarkItems(store) ELSE removeBookmark(store), q)
       ELSE /\ flight' = q
            /\ UNCHANGED <<store, home, form, server>>
    /\ UNCHANGED <<asked, saved, base>>
\* A saved dashboard reloads the page; a refused one is only told.
saveAnswered(r, q) ==
    IF r.ok THEN Load(server) /\ saved' = r.ids
    ELSE /\ flight' = q
         /\ UNCHANGED <<store, home, form, server, asked, saved, base>>
Answer(n) ==
    LET r == flight[n]
        q == RemoveAt(flight, n) IN
    /\ n = 1 \/ AnyOrder
    /\ \/ /\ r.kind \in {"cards", "gallery"}
          /\ \E ok \in {TRUE} \cup (IF MayFail THEN {FALSE} ELSE {}) : cardsAnswered(r, q, ok)
       \/ /\ r.kind = "topics"
          /\ \E ok \in {TRUE} \cup (IF MayFail THEN {FALSE} ELSE {}) : topicsAnswered(r, q, ok)
       \/ r.kind = "mark" /\ markAnswered(r, q)
       \/ r.kind = "save" /\ saveAnswered(r, q)
       \/ /\ r.kind = "push" /\ flight' = pushNotification(q, r, server)
          /\ UNCHANGED <<store, home, form, server, asked, saved, base>>

Init ==
    \E visible \in SUBSET Topics, marks \in SUBSET Items :
    \E dash \in {<<>>} \cup {<<t>> : t \in visible} :
      LET sv == [exists |-> Topics, visible |-> visible, dash |-> dash, marks |-> marks, cache |-> None] IN
      /\ Topics \ visible \subseteq Shared
      /\ store = initData(sv) /\ home = Page(sv) /\ form = Closed
      /\ flight = IF Page(sv).loading THEN Fetches(sv) ELSE <<>>
      /\ server = IF Page(sv).loading THEN [sv EXCEPT !.cache = fetchItems(sv).copies] ELSE sv
      /\ asked = None /\ saved = None /\ base = dash

UserNext ==
    \/ \E o \in {"default", "my-home"} : switchOptions(o)
    \/ \E i \in Items, p \in Topics \cup {"card"} : openItemDetails(i, p)
    \/ onClose \/ bookmark \/ personalizeHome \/ cancelDialog
    \/ \E t \in Topics : choose(t)
    \/ lookAround \/ addCustomDashboard \/ reload
ServerNext ==
    \/ \E t \in Topics : topicDeleted(t) \/ topicShared(t)
    \/ userChanged \/ cacheExpires
Answers == \E n \in 1..Len(flight) : Answer(n)
Next == UserNext \/ ServerNext \/ Answers
Spec == Init /\ [][Next]_vars
\* Every request is answered in its turn: the browser's timeout answers for a silent server.
FairSpec == Spec /\ WF_vars(Len(flight) > 0 /\ Answer(1))

-------------------------------------------------------------------------------
TypeOK ==
    /\ store \in [topics : SUBSET Topics, dash : Seq(Topics), activeCard : Topics \cup {"card", None},
                  itemToOpen : [id : Items \cup {None}, marked : BOOLEAN] \cup {None},
                  cards : [Items -> BOOLEAN], drawn : [Items -> BOOLEAN],
                  modal : [formValid : BOOLEAN] \cup {None}, same : BOOLEAN]
    /\ home \in [hasPersonal : BOOLEAN, option : {"default", "my-home"}, loading : BOOLEAN]
    /\ form \in [on : BOOLEAN, selected : Seq(Topics), topics : SUBSET Topics]
    /\ server \in [exists : SUBSET Topics, visible : SUBSET Topics, dash : Seq(Topics), marks : SUBSET Items,
                   cache : [Items -> BOOLEAN] \cup {None}]
    /\ form.on = (store.modal # None)
    /\ home.loading => PanelsDrawn(store, home.option)
    /\ asked \in Items \cup {None}

(* My Home never has more than MAX_SELECTED_TOPICS topics, however often and
   with whatever topics deleted or unshared in between it is edited. *)
AtMostSix == /\ Len(form.selected) <= MaxSelected /\ Len(server.dash) <= MaxSelected
             /\ IsInjective(form.selected) /\ IsInjective(server.dash)

(* A page never overwrites a dashboard that changed after it was loaded: what
   another page saved or a deletion took off comes back with no save. *)
NoLostUpdateStep ==
    InFlight({"save"})' /\ Len(flight') > Len(flight) /\ Last(flight').kind = "save" /\ Last(flight').ok
         => server.dash = base

(* The page that a save loads shows the topics that were saved, of those the
   user still sees, whatever was clicked while the save was on its way. *)
SavedIsShownStep ==
    saved' # saved /\ saved' # None =>
                     store'.dash = SelectSeq(saved', LAMBDA t : t \in store'.topics)

(* Once its bookmark was clicked and the answers are in, the open item shows
   what the server has, whichever old copy of it was opened. *)
MarkShown == asked # None /\ ~InFlight({"mark"}) =>
               store.itemToOpen # None /\ store.itemToOpen.marked = (asked \in server.marks)

(* When nothing is on its way the page has the topics the user sees. *)
TopicsCurrent == flight = <<>> => store.topics = server.visible

===============================================================================
