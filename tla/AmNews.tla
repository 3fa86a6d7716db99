--------------------------------- MODULE AmNews ---------------------------------
(* The page of the AM News section (assets/am-news): its tabs, of which the first is
   chosen at loading, its list with mouse and keys, and the browser's history.  The list
   is one page long, the feed does not change, and answers come in order; paging, pushed
   changes, the menus and the selection are in WireResults and WireActions. *)
EXTENDS Integers, Sequences, SequencesExt, FiniteSets

CONSTANTS Items, None,
          Tabs,          \* the section's navigations, in order
          TabsOf,        \* [Items -> the tabs whose products have it]
          Feed,          \* all items, newest first
          Day,           \* [Items -> the day of its version]
          Saved,         \* the items the user has saved
          Bookmarks,     \* the page is that of the saved items
          Link,          \* None, or the item the page is opened with
          Multi,         \* several tabs can be chosen
          Acts, MaxRequests, MaxHistory   \* what the user does, and bounds

AmNewsAssumption ==
    /\ Tabs \in Seq(STRING) /\ IsInjective(Tabs)
    /\ TabsOf \in [Items -> SUBSET Range(Tabs)] /\ Day \in [Items -> Nat]
    /\ Range(Feed) = Items /\ IsInjective(Feed)
    /\ \A m, n \in DOMAIN Feed : m < n => Day[Feed[m]] >= Day[Feed[n]]
    /\ Saved \subseteq Items /\ Link \in Items \union {None} /\ None \notin Items

VARIABLES store, rendered,   \* the page is drawn when the first search is answered
          click, key,        \* the items of the two timers
          requests, sent,    \* oldest first
          history, pos       \* the states pushed; 0: the entry loaded first, which has none
vars == <<store, rendered, click, key, requests, sent, history, pos>>

May(act) == act \in Acts
\* The page's data has the id of the user, where the reducer takes the `_id` of it.
user == None
Rest == rendered /\ requests = <<>>

\* What is pushed: the store without its items; kept only when the user goes back.
Emptied(s) == IF May("back") THEN [s EXCEPT !.items = <<>>, !.known = {}] ELSE None
ItemToOpen(s) == IF s.open \in s.known THEN s.open ELSE None
\* The days, in the order in which they come up in the list.
Groups(s) == FoldLeft(LAMBDA days, i : IF Contains(days, Day[i]) THEN days ELSE Append(days, Day[i]), <<>>, s.items)
Drawn(s) == FlattenSeq([g \in DOMAIN Groups(s) |-> SelectSeq(s.items, LAMBDA i : Day[i] = Groups(s)[g])])

-------------------------------------------------------------------------------
Toggled(nav, t) == CASE Multi /\ Contains(nav, t) -> SelectSeq(nav, LAMBDA o : o # t)
                     [] Multi -> Append(nav, t)
                     [] OTHER -> IF nav = <<t>> THEN <<>> ELSE <<t>>

\* The store becomes s and the states `pushed` go into the history; when that closes an
\* item while no tab is chosen, getSnapshotBeforeUpdate chooses the first.
Become(s, at, pushed) ==
    LET snapshot == rendered /\ ItemToOpen(store) # None /\ ItemToOpen(s) = None /\ s.nav = <<>>
        all == pushed \o IF snapshot THEN <<Emptied(s)>> ELSE <<>>
    IN  /\ at + Len(all) <= MaxHistory
        /\ store' = IF snapshot THEN [s EXCEPT !.nav = Toggled(@, Tabs[1])] ELSE s
        /\ history' = IF all = <<>> THEN history ELSE SubSeq(history, 1, at) \o all
        /\ pos' = at + Len(all)
Store(s) == Become(s, pos, <<>>)

Results(nav) == SelectSeq(Feed, LAMBDA i : /\ nav = <<>> \/ TabsOf[i] \intersect Range(nav) # {}
                                           /\ (Bookmarks /\ user # None) => i \in Saved)
Send(r) == sent < MaxRequests /\ sent' = sent + 1 /\ requests' = Append(requests, r)
ClickTab(t) ==
    LET s == [store EXCEPT !.nav = Toggled(@, t), !.preview = None]
    IN  /\ rendered /\ May("tab") /\ ItemToOpen(store) = None /\ ~Bookmarks
        /\ Become(s, pos, <<Emptied(store)>>) /\ Send([kind |-> "search", nav |-> s.nav])
        /\ UNCHANGED <<rendered, click, key>>
\* The item of the link is opened when it is there.
Answer ==
    /\ requests # <<>> /\ requests' = Tail(requests)
    /\ LET r == Head(requests) IN
       IF r.kind = "search"
       THEN /\ LET found == Results(r.nav)
               IN  Store([store EXCEPT !.items = found, !.known = @ \union Range(found)])
            /\ rendered' = TRUE
       ELSE /\ Become([store EXCEPT !.open = r.item, !.known = @ \union {r.item}], pos, <<Emptied([store EXCEPT !.open = r.item])>>)
            /\ UNCHANGED rendered
    /\ UNCHANGED <<click, key, sent>>

-------------------------------------------------------------------------------
(* The list. *)

Listed == rendered /\ ItemToOpen(store) = None
Click(i) == /\ Listed /\ May("click") /\ Contains(store.items, i)
            /\ key' = None /\ click' = i
            /\ UNCHANGED <<store, rendered, requests, sent, history, pos>>
\* 200 ms later.
ClickTimeout == /\ click # None /\ click' = None
                /\ Store([store EXCEPT !.active = click, !.preview = IF @ = click THEN None ELSE click])
                /\ UNCHANGED <<rendered, key, requests, sent>>
openItem(i) == Become([store EXCEPT !.open = i, !.known = IF i = None THEN @ ELSE @ \union {i}, !.active = IF i = None THEN @ ELSE i],
                      pos, <<Emptied([store EXCEPT !.open = i, !.active = IF i = None THEN @ ELSE i])>>)
\* It comes with the second click.
DoubleClick(i) == /\ Listed /\ May("open") /\ click = i /\ click' = None
                  /\ openItem(i)
                  /\ UNCHANGED <<rendered, key, requests, sent>>
CloseItem == /\ rendered /\ ItemToOpen(store) # None /\ openItem(None)
             /\ UNCHANGED <<rendered, click, key, requests, sent>>
ClosePreview == /\ Listed /\ store.preview # None /\ Store([store EXCEPT !.preview = None])
                /\ UNCHANGED <<rendered, click, key, requests, sent>>
\* The arrows go by the list of the store, from its start when nothing is active.
Next1(s, diff) ==
    LET at == IF Contains(s.items, s.active) THEN CHOOSE n \in DOMAIN s.items : s.items[n] = s.active ELSE 0
        n == at + diff
    IN  s.items[IF n < 1 THEN 1 ELSE IF n > Len(s.items) THEN Len(s.items) ELSE n]
Arrow(diff) == /\ Listed /\ May("keys") /\ store.items # <<>>
               /\ LET i == Next1(store, diff) IN Store([store EXCEPT !.active = i]) /\ key' = i
               /\ UNCHANGED <<rendered, click, requests, sent>>
\* 500 ms later.
PreviewTimeout == /\ key # None /\ key' = None /\ Store([store EXCEPT !.preview = key])
                  /\ UNCHANGED <<rendered, click, requests, sent>>
Escape == /\ Listed /\ May("keys") /\ Store([store EXCEPT !.active = None, !.preview = None])
          /\ UNCHANGED <<rendered, click, key, requests, sent>>
\* The browser goes to an entry: its state is taken, and nothing is fetched.
Go(n) == /\ May("back") /\ n \in 1 .. Len(history) /\ n \in {pos - 1, pos + 1}
         /\ Become(history[n], n, <<>>)
         /\ UNCHANGED <<rendered, click, key, requests, sent>>

\* With tabs in the address these are chosen, and toggled once more by their text, which
\* is the id of none; otherwise the first one, unless an item is to be opened.
Init == LET empty == [nav |-> <<>>, items |-> <<>>, known |-> {}, active |-> None, preview |-> None, open |-> None]
            first == Link = None /\ ~Bookmarks
            search(nav) == [kind |-> "search", nav |-> nav]
        IN  /\ \E url \in IF first THEN {<<>>} \union {<<t>> : t \in Range(Tabs)} ELSE {<<>>} :
                  LET toggle == first /\ url = <<>>
                      nav == IF toggle THEN <<Tabs[1]>> ELSE url
                  IN  /\ store = [empty EXCEPT !.nav = nav]
                      /\ history = IF toggle THEN <<Emptied(empty)>> ELSE <<>>
                      /\ pos = IF toggle THEN 1 ELSE 0
                      /\ requests = (IF Link = None THEN <<>> ELSE <<[kind |-> "item", item |-> Link]>>) \o <<search(nav)>>
            /\ rendered = FALSE /\ click = None /\ key = None /\ sent = 0
Next == \/ \E t \in Range(Tabs) : ClickTab(t)
        \/ \E i \in Items : Click(i) \/ DoubleClick(i)
        \/ \E d \in {1, -1} : Arrow(d)
        \/ \E n \in 1 .. MaxHistory : Go(n)
        \/ Answer \/ ClickTimeout \/ PreviewTimeout \/ CloseItem \/ ClosePreview \/ Escape
Spec == Init /\ [][Next]_vars

-------------------------------------------------------------------------------
(* Properties. *)

TypeOK ==
    /\ IsInjective(store.nav) /\ Range(store.nav) \subseteq Range(Tabs)
    /\ IsInjective(store.items) /\ Range(store.items) \subseteq store.known /\ store.known \subseteq Items
    /\ {store.active, store.preview, store.open, click, key} \subseteq Items \union {None}
    /\ pos \in 0 .. Len(history)
\* The list is that of the tabs that are marked.
TabAgrees == (Rest /\ ItemToOpen(store) = None) => store.items = Results(store.nav)
\* The arrows and the eye go the same way: rows are drawn in the list's order.
DrawnAsListed == Drawn(store) = store.items
\* "time when we wait for double click after click": once an item is opened the click is off.
OpenedAlone == ItemToOpen(store) # None => click = None

=================================================================================
