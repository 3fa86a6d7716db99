-------------------------------- MODULE WireActions --------------------------------
(* What a reader does with the items of the wire page (wire/components/ItemsList,
   WireListItem, SelectedItemsBar and the dialogs): rows are clicked, opened and
   walked with the keys, items are selected, bookmarked, shared, downloaded and
   removed, from a row, the preview, the open item or the bar of the selected
   ones, while requests, timers and removals by others are on their way.
   Requests reach the server, take their effect and are answered one after the
   other, or overtake each other.
   Printing, copying and the records of actions change nothing modelled. *)
EXTENDS Naturals, Sequences, FiniteSets, SequencesExt

CONSTANTS Items,                 \* the items of the section
          Order,                 \* as they are listed
          Colleagues,            \* the users an item may be shared with
          IsAdmin, Bookmarks,    \* an administrator's page; the page of bookmarks
          Acts, MayFail, AnyOrder, Waits, MaxFlight,
          None

ActionsAssumption == /\ Order \in Seq(Items) /\ ToSet(Order) = Items /\ IsInjective(Order)
                            /\ {IsAdmin, Bookmarks, MayFail, AnyOrder, Waits} \subseteq BOOLEAN
                            /\ MaxFlight \in Nat

VARIABLES store,    \* the redux store
          list,     \* ItemsList: the open menu, the timers
          dialog,   \* the dialog that is mounted
          server,   \* the items there are and the user's bookmarks
          flight,   \* requests, answers and pushes on their way
          crossed   \* the items of which two requests have overtaken each other
vars == <<store, list, dialog, server, flight, crossed>>

May(act) == act \in Acts
Room == Len(flight) < MaxFlight
InFlight(kind) == \E n \in 1..Len(flight) : flight[n].kind = kind
NoDialog == [kind |-> None, items |-> {}, users |-> {}, submitting |-> FALSE]
Listed(s) == ToSet(s.items)
Live(s, i) == s.byId[i] # None /\ ~s.byId[i].deleted

-------------------------------------------------------------------------------
(* The reducers. A copy has the user's entries in its bookmarks. *)
Copy(sv, i) == [deleted |-> FALSE, marks |-> IF i \in sv.marks THEN 1 ELSE 0]
receiveItems(s, r) == [s EXCEPT !.items = r.items,
                                !.byId = [i \in Items |-> IF i \in ToSet(r.items) THEN r.copies[i] ELSE s.byId[i]]]
setActive(s, i) == [s EXCEPT !.active = i]
previewItem(s, i) == [s EXCEPT !.preview = i]
openItem(s, i) == [s EXCEPT !.open = i]
toggleSelected(s, i) == [s EXCEPT !.selected = IF i \in @ THEN @ \ {i} ELSE @ \cup {i}]
selectAll(s) == [s EXCEPT !.selected = Listed(s)]
selectNone(s) == [s EXCEPT !.selected = {}]
OnCopies(s, ids, Change(_)) == [s EXCEPT !.byId = [i \in Items |-> IF i \in ids THEN Change(s.byId[i]) ELSE s.byId[i]]]
setBookmarkItems(s, ids) == OnCopies(s, ids, LAMBDA c : [c EXCEPT !.marks = @ + 1])
\* Mutant: only one entry of the user is taken out.
removeBookmarkOne(s, ids) == OnCopies(s, ids, LAMBDA c : [c EXCEPT !.marks = IF @ = 0 THEN 0 ELSE @ - 1])
removeBookmarkItems(s, ids) == OnCopies(s, ids, LAMBDA c : [c EXCEPT !.marks = 0])
\* The selection keeps a removed item.
markItemsRemoved(s, ids) ==
    [OnCopies(s, ids, LAMBDA c : IF c = None THEN c ELSE [c EXCEPT !.deleted = TRUE])
        EXCEPT !.active = IF @ \in ids THEN None ELSE @, !.preview = IF @ \in ids THEN None ELSE @,
               !.open = IF @ \in ids THEN None ELSE @]
renderModal(s, kind, items) == [s EXCEPT !.modal = [kind |-> kind, items |-> items, formValid |-> FALSE]]
closeModal(s) == [s EXCEPT !.modal = None]
modalFormValid(s, valid) == IF s.modal = None THEN s ELSE [s EXCEPT !.modal.formValid = valid]

-------------------------------------------------------------------------------
(* What is mounted. *)
ListShown(s) == s.open = None
Free == store.modal = None
\* Two dialogs of one kind are one component.
NewDialog(s) == s.modal # None /\ dialog.kind # s.modal.kind
Mount(s) == IF s.modal = None THEN NoDialog
            ELSE IF NewDialog(s) THEN [NoDialog EXCEPT !.kind = s.modal.kind, !.items = s.modal.items]
            ELSE dialog
\* DownloadItemsModal says at once that it is valid; the list goes with its menu.
Draw(s) ==
    /\ dialog' = Mount(s)
    /\ store' = IF NewDialog(s) /\ s.modal.kind = "download" THEN modalFormValid(s, TRUE) ELSE s
    /\ list' = IF ListShown(s) THEN list ELSE [list EXCEPT !.menu = None]
Send(r) == Room /\ flight' = Append(flight, r)
Outcomes == {TRUE} \cup (IF MayFail THEN {FALSE} ELSE {})
\* The items whose bookmark a request sets or tells.
Concerns(r) == CASE r.kind = "mark" -> r.items
                 [] r.kind = "search" -> Items
                 [] OTHER -> {}
\* The items of which the n-th request or answer overtakes an older one of Over.
Crossing(n, Over) ==
    UNION {IF "mark" \in {flight[m].kind, flight[n].kind}
           THEN Concerns(flight[m]) \cap Concerns(flight[n]) ELSE {} : m \in Over \cap 1..(n - 1)}

-------------------------------------------------------------------------------
(* The list. *)
AtList == Free /\ ListShown(store)
Row(i) == AtList /\ i \in Listed(store) /\ Live(store, i)
Clicked(l, i) == [menu |-> None, key |-> None, click |-> i]
onItemClick(i) ==
    /\ May("click") /\ Row(i)
    /\ list' = Clicked(list, i)
    /\ UNCHANGED <<store, dialog, server, flight, crossed>>
ClickTimer ==
    /\ list.click # None
    /\ store' = previewItem(setActive(store, list.click), IF store.preview # list.click THEN list.click ELSE None)
    /\ list' = [list EXCEPT !.click = None]
    /\ UNCHANGED <<dialog, server, flight, crossed>>
onItemDoubleClick(i) ==
    /\ May("dblclick") /\ Row(i)
    /\ store' = openItem(setActive(store, i), i)
    /\ list' = [menu |-> None, key |-> None, click |-> None]
    /\ UNCHANGED <<dialog, server, flight, crossed>>
NextIndex(diff) ==
    LET n == Len(store.items)
        at == IF \E k \in 1..n : store.items[k] = store.active
              THEN CHOOSE k \in 1..n : store.items[k] = store.active ELSE 0 IN
    CASE diff = 1 -> IF at + 1 > n THEN n ELSE at + 1
      [] diff = -1 -> IF at <= 1 THEN 1 ELSE at - 1
\* The keys also stop at the rows of removed items.
onKeyDown(diff) ==
    /\ May("keys") /\ AtList /\ store.items # <<>>
    /\ Waits => list.click = None
    /\ LET next == store.items[NextIndex(diff)] IN
       /\ store' = setActive(store, next)
       /\ list' = [list EXCEPT !.key = next]
    /\ UNCHANGED <<dialog, server, flight, crossed>>
KeyTimer ==
    /\ list.key # None
    /\ store' = previewItem(store, list.key)
    /\ list' = [list EXCEPT !.key = None]
    /\ UNCHANGED <<dialog, server, flight, crossed>>
Escape ==
    /\ May("keys") /\ AtList
    /\ Waits => list.click = None /\ list.key = None
    /\ store' = previewItem(setActive(store, None), None)
    /\ list' = [list EXCEPT !.menu = None]
    /\ UNCHANGED <<dialog, server, flight, crossed>>
onActionList(i) ==
    /\ May("menu") /\ Row(i)
    /\ list' = [list EXCEPT !.menu = IF @ = i THEN None ELSE i]
    /\ UNCHANGED <<store, dialog, server, flight, crossed>>
closePreview ==
    /\ May("click") /\ AtList /\ store.preview # None
    /\ store' = previewItem(store, None)
    /\ UNCHANGED <<list, dialog, server, flight, crossed>>
Select(i) ==
    /\ May("select") /\ Row(i)
    /\ store' = toggleSelected(store, i)
    /\ UNCHANGED <<list, dialog, server, flight, crossed>>
SelectAllOrNone ==
    /\ May("select") /\ AtList /\ store.selected # {}
    /\ store' \in {selectAll(store), selectNone(store)}
    /\ UNCHANGED <<list, dialog, server, flight, crossed>>

-------------------------------------------------------------------------------
(* The actions, from a row's menu, the preview, the open item or the bar. *)
Targets == IF ~Free THEN {}
           ELSE IF ListShown(store)
                THEN {{i} : i \in {j \in Listed(store) : list.menu = j /\ Live(store, j)} \cup ({store.preview} \ {None})}
                     \cup ({store.selected} \ {{}})
                ELSE {{store.open}}
\* The bar empties the selection once the action was started.
Started(s, ids) == IF ListShown(s) /\ ids = s.selected THEN selectNone(s) ELSE s
Every(ids, P(_)) == \A i \in ids : P(store.byId[i])
Marked(c) == c.marks > 0
Unmarked(c) == c.marks = 0
open(i) ==
    /\ May("menu") /\ ListShown(store) /\ {i} \in Targets /\ {i} # store.selected
    /\ Draw(openItem(store, i))
    /\ UNCHANGED <<server, flight, crossed>>
closeItem ==
    /\ Free /\ ~ListShown(store)
    /\ Draw(openItem(store, None))
    /\ UNCHANGED <<server, flight, crossed>>
copy(i) ==
    /\ May("menu") /\ {i} \in Targets
    /\ store' = previewItem(store, i)
    /\ UNCHANGED <<list, dialog, server, flight, crossed>>
save(ids, on) ==
    /\ May("mark") /\ ids \in Targets
    /\ IF on THEN Every(ids, Unmarked) ELSE Every(ids, Marked)
    /\ \E ok \in Outcomes :
         Send([kind |-> "mark", items |-> ids, on |-> on, ok |-> ok, served |-> FALSE])
    /\ store' = Started(store, ids)
    /\ UNCHANGED <<list, dialog, server, crossed>>
shareItems(ids) ==
    /\ May("share") /\ ids \in Targets
    /\ Waits => ~InFlight("users")
    /\ \E ok \in Outcomes : Send([kind |-> "users", items |-> ids, ok |-> ok, served |-> TRUE])
    /\ store' = Started(store, ids)
    /\ UNCHANGED <<list, dialog, server, crossed>>
downloadItems(ids) ==
    /\ May("download") /\ ids \in Targets
    /\ Draw(renderModal(Started(store, ids), "download", ids))
    /\ UNCHANGED <<server, flight, crossed>>
\* Refused, the question changes nothing but the selection.
removeItems(ids) ==
    /\ May("remove") /\ IsAdmin /\ ids \in Targets
    /\ \E confirmed \in {TRUE, FALSE} :
         IF confirmed /\ ids \cap server.present # {}
         THEN Send([kind |-> "removed", items |-> ids \cap server.present, served |-> FALSE])
         ELSE UNCHANGED flight
    /\ store' = Started(store, ids)
    /\ UNCHANGED <<list, dialog, server, crossed>>
Search(ok) == [kind |-> "search", ok |-> ok, served |-> FALSE]
\* A list that is asked for when no other request is on its way makes up for those that crossed.
AsksAnew(q, ok) == IF ok /\ \A n \in 1..Len(q) : Concerns(q[n]) = {} THEN {} ELSE crossed
fetchItems ==
    /\ May("search") /\ AtList
    /\ \E ok \in Outcomes : Send(Search(ok)) /\ crossed' = AsksAnew(flight, ok)
    /\ store' = previewItem(store, None)
    /\ UNCHANGED <<list, dialog, server>>

-------------------------------------------------------------------------------
(* The dialogs. *)
toggleUser(s, d, users) == modalFormValid(s, users # {})
ChooseUsers ==
    /\ dialog.kind = "share"
    /\ \E u \in Colleagues \cup {"all"} :
         LET users == IF u = "all" THEN (IF dialog.users = Colleagues THEN {} ELSE Colleagues)
                      ELSE IF u \in dialog.users THEN dialog.users \ {u} ELSE dialog.users \cup {u} IN
         /\ dialog' = [dialog EXCEPT !.users = users]
         /\ store' = toggleUser(store, dialog, users)
    /\ UNCHANGED <<list, server, flight, crossed>>
submit ==
    /\ dialog.kind # None /\ store.modal.formValid /\ ~dialog.submitting
    /\ dialog' = [dialog EXCEPT !.submitting = TRUE]
    /\ IF dialog.kind = "share" /\ dialog.users = {} THEN UNCHANGED flight
       ELSE \E ok \in Outcomes : Send([kind |-> dialog.kind, items |-> dialog.items, ok |-> ok, served |-> TRUE])
    /\ UNCHANGED <<store, list, server, crossed>>
cancel ==
    /\ May("cancel") /\ dialog.kind # None
    /\ Draw(closeModal(store))
    /\ UNCHANGED <<server, flight, crossed>>

-------------------------------------------------------------------------------
(* The server: what was marked, what is found and what is removed. *)
Found(sv) == SelectSeq(Order, LAMBDA i : i \in sv.present /\ (Bookmarks => i \in sv.marks))
Answered(r) == [kind |-> "search", ok |-> r.ok, served |-> TRUE,
                copies |-> [i \in Items |-> Copy(server, i)], items |-> Found(server)]
Served(r) ==
    CASE r.kind = "search" -> Answered(r)
      [] r.kind = "removed" -> [r EXCEPT !.items = @ \cap server.present, !.served = TRUE]
      [] OTHER -> [r EXCEPT !.served = TRUE]
Serve(n) ==
    LET r == flight[n]
        waiting == {m \in 1..Len(flight) : ~flight[m].served} IN
    /\ n \in waiting
    /\ AnyOrder \/ \A m \in waiting : n <= m
    /\ server' = CASE r.kind = "mark" /\ r.ok -> [server EXCEPT !.marks = IF r.on THEN @ \cup r.items ELSE @ \ r.items]
                   [] r.kind = "removed" -> [server EXCEPT !.present = @ \ r.items]
                   [] OTHER -> server
    /\ flight' = [flight EXCEPT ![n] = Served(r)]
    /\ crossed' = crossed \cup Crossing(n, waiting)
    /\ UNCHANGED <<store, list, dialog>>

-------------------------------------------------------------------------------
(* The answers. *)
\* On the page of bookmarks the list is asked again.
unmarked(r) == IF Bookmarks /\ ~r.on THEN <<Search(TRUE)>> ELSE <<>>
markAnswered(r, q) ==
    IF ~r.ok THEN flight' = q /\ UNCHANGED <<store, list, dialog>>
    ELSE LET s == IF r.on THEN setBookmarkItems(store, r.items) ELSE removeBookmarkItems(store, r.items) IN
         /\ flight' = q \o unmarked(r)
         /\ Draw(IF unmarked(r) = <<>> THEN s ELSE previewItem(s, None))
searchAnswered(r, q) ==
    /\ flight' = q
    /\ IF r.ok THEN Draw(receiveItems(store, r)) ELSE UNCHANGED <<store, list, dialog>>
usersAnswered(r, q) ==
    /\ flight' = q
    /\ IF r.ok THEN Draw(renderModal(store, "share", r.items)) ELSE UNCHANGED <<store, list, dialog>>
shareAnswered(r, q) ==
    /\ flight' = q
    /\ IF r.ok THEN Draw(closeModal(store)) ELSE UNCHANGED <<store, list, dialog>>
\* Mutant: a failed download leaves its dialog.
closesAfterSuccess(r) == r.ok
\* submitDownloadItems closes the dialog after an error too.
closesAfter(r) == TRUE
downloadAnswered(r, q) ==
    /\ flight' = q
    /\ IF closesAfter(r) THEN Draw(closeModal(store)) ELSE UNCHANGED <<store, list, dialog>>
removedPushed(r, q) ==
    /\ flight' = q
    /\ Draw(markItemsRemoved(store, r.items))
Answer(n) ==
    LET r == flight[n]
        q == RemoveAt(flight, n) IN
    /\ r.served /\ (n = 1 \/ AnyOrder)
    /\ crossed' = Crossing(n, 1..Len(flight)) \cup
          (IF r.kind = "mark" /\ r.ok /\ unmarked(r) # <<>> THEN AsksAnew(q, TRUE) ELSE crossed)
    /\ \/ r.kind = "mark" /\ markAnswered(r, q)
       \/ r.kind = "search" /\ searchAnswered(r, q)
       \/ r.kind = "users" /\ usersAnswered(r, q)
       \/ r.kind = "share" /\ shareAnswered(r, q)
       \/ r.kind = "download" /\ downloadAnswered(r, q)
       \/ r.kind = "removed" /\ removedPushed(r, q)
    /\ UNCHANGED server
removedElsewhere(i) ==
    /\ May("elsewhere") /\ i \in server.present
    /\ Send([kind |-> "removed", items |-> {i}, served |-> TRUE])
    /\ server' = [server EXCEPT !.present = @ \ {i}]
    /\ UNCHANGED <<store, list, dialog, crossed>>

Init ==
    \E marks \in SUBSET Items :
      LET sv == [present |-> Items, marks |-> marks]
          first == [items |-> <<>>, byId |-> [i \in Items |-> None], active |-> None, preview |-> None,
                    open |-> None, selected |-> {}, modal |-> None] IN
      /\ store = receiveItems(first, [items |-> Found(sv), copies |-> [i \in Items |-> Copy(sv, i)]])
      /\ list = [menu |-> None, key |-> None, click |-> None]
      /\ dialog = NoDialog /\ server = sv /\ flight = <<>> /\ crossed = {}

Timers == ClickTimer \/ KeyTimer
AtRow(i) == onItemClick(i) \/ onItemDoubleClick(i) \/ onActionList(i) \/ Select(i) \/ open(i) \/ copy(i)
OnItems(ids) == save(ids, TRUE) \/ save(ids, FALSE) \/ shareItems(ids) \/ downloadItems(ids) \/ removeItems(ids)
UserNext ==
    \/ \E i \in Items : AtRow(i)
    \/ onKeyDown(1) \/ onKeyDown(-1) \/ Escape
    \/ closePreview \/ SelectAllOrNone \/ closeItem
    \/ \E ids \in SUBSET Items : OnItems(ids)
    \/ fetchItems \/ ChooseUsers \/ submit \/ cancel
Answers == \E n \in 1..Len(flight) : Serve(n) \/ Answer(n)
Next == UserNext \/ Timers \/ Answers \/ \E i \in Items : removedElsewhere(i)
Spec == Init /\ [][Next]_vars
\* The browser answers every request in the end, with an error if need be.
FairSpec == Spec /\ WF_vars(flight # <<>> /\ (Serve(1) \/ Answer(1)))

-------------------------------------------------------------------------------
TypeOK ==
    /\ store \in [items : Seq(Items), byId : [Items -> [deleted : BOOLEAN, marks : Nat] \cup {None}],
                  active : Items \cup {None}, preview : Items \cup {None}, open : Items \cup {None},
                  selected : SUBSET Items,
                  modal : [kind : {"share", "download"}, items : SUBSET Items, formValid : BOOLEAN] \cup {None}]
    /\ list \in [menu : Items \cup {None}, key : Items \cup {None}, click : Items \cup {None}]
    /\ dialog \in [kind : {"share", "download", None}, items : SUBSET Items, users : SUBSET Colleagues, submitting : BOOLEAN]
    /\ server \in [present : SUBSET Items, marks : SUBSET Items]
    /\ IsInjective(store.items) /\ \A i \in Listed(store) \cup store.selected : store.byId[i] # None
    /\ store.open # None => store.byId[store.open] # None
    /\ (dialog.kind = None) = (store.modal = None)
    /\ list.menu # None => ListShown(store)

(* With the timers run out, what is previewed is the active row, by keys or by
   clicks, unless nothing is previewed. *)
PreviewFollowsActive == list.click = None /\ list.key = None /\ store.preview # None => store.preview = store.active

(* When every answer is in, each listed copy tells whether the server has the
   user's bookmark, however often it was pressed before an answer came and
   whatever was searched meanwhile: all but those of which two requests were
   served or answered in another order than they were sent, until the list is
   asked for again. *)
MarksAgree == flight = <<>> => \A i \in Listed(store) \ crossed : Marked(store.byId[i]) = (i \in server.marks)

(* On the page of bookmarks an item whose bookmark was removed leaves the list
   when the answers are in, with the same exception. *)
UnmarkedLeaves == flight = <<>> => \A i \in Listed(store) \ crossed : Live(store, i) => i \in server.marks

(* The dialog on the screen acts on the items it was last asked for, though it
   may open long after and in place of another. *)
DialogAsked == store.modal # None => dialog.kind = store.modal.kind /\ dialog.items = store.modal.items

(* Share can be pressed if and only if somebody is chosen. *)
ShareButtonTells == dialog.kind = "share" => store.modal.formValid = (dialog.users # {})

===============================================================================
