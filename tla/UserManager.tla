----------------------------- MODULE UserManager -----------------------------
(***************************************************************************)
(* Users of a company and the seats of its products: the list, the form of *)
(* one user, filters, saving and deleting, as the company admin page and   *)
(* the user settings run them.  Another administrator works elsewhere.     *)
(* Source: src/assets/users/, src/assets/company-admin/.                   *)
(***************************************************************************)
EXTENDS Naturals, FiniteSets

CONSTANTS
    Users, None,
    CurrentUser,    \* who works on the page
    Products,
    MaxSeats,       \* [Products -> Nat], 0 for no limit
    Filters,        \* products the list may be filtered by
    AnyOrder,       \* answers overtake each other
    Waits,          \* the administrator waits for every answer
    MayFail,        \* a fetch can fail
    Others,         \* another administrator may save
    MaxRevs,        \* bound: a user with so many revisions is not saved elsewhere
    MaxRequests     \* bound

ConstantsOK ==
    /\ MaxSeats \in [Products -> Nat] /\ Filters \subseteq Products
    /\ None \notin Users \cup Products /\ MaxRequests \in Nat

VARIABLES
    account,    \* server: existing user -> [rev, products]
    store,      \* the redux store
    urls,       \* the values of userId in the entries of the browser's history
    requests, sent,
    lost,       \* history: users of whom a save has overwritten one its form did not know
    clashed,    \* history: users saved while another save of theirs was checked but not written
    removed     \* history: the users whose deletion the page has been told

vars == <<account, store, urls, requests, sent, lost, clashed, removed>>

\* The same name space serves users that exist and those still to be created.
Fresh == Users \ DOMAIN account
Without(f, u) == [v \in DOMAIN f \ {u} |-> f[v]]
With(f, u, x) == [v \in DOMAIN f \cup {u} |-> IF v = u THEN x ELSE f[v]]
Matching(filter) == {u \in DOMAIN account : filter = None \/ filter \in account[u].products}

-----------------------------------------------------------------------------
(* Reducers. *)

\* An id the page does not know gives a form of defaults, without an id.
SelectUser(s, u) ==
    [s EXCEPT !.form = IF u \in DOMAIN s.known
                       THEN [id |-> u, rev |-> s.known[u].rev, products |-> s.known[u].products]
                       ELSE [id |-> None, rev |-> 0, products |-> {}]]
NewUser(s) == [s EXCEPT !.form = [id |-> None, rev |-> 0, products |-> {}]]
CancelEdit(s) == [s EXCEPT !.form = None]
EditProducts(s, ps) == [s EXCEPT !.form.products = ps]
QueryUsers(s) == [s EXCEPT !.loading = TRUE, !.form = None]
GetUsers(s, answer) ==
    [s EXCEPT !.users = DOMAIN answer, !.loading = FALSE,
              !.known = [u \in DOMAIN s.known \cup DOMAIN answer |->
                            IF u \in DOMAIN answer THEN answer[u] ELSE s.known[u]]]

RemoveUser(s, u) ==
    [s EXCEPT !.users = @ \ {u}, !.known = Without(@, u),
              !.form = IF @ # None /\ @.id = u THEN None ELSE @]

-----------------------------------------------------------------------------
(* Seats: companyProductSeatsSelector and the checkboxes of the form. *)

Assigned(s, p) == Cardinality({u \in DOMAIN s.known : p \in s.known[u].products})
HasUnlimitedSeats(p) == MaxSeats[p] = 0

HasSeatsAvailable(s, p) == ~ HasUnlimitedSeats(p) /\ Assigned(s, p) < MaxSeats[p]

Original(s) == IF s.form.id \in DOMAIN s.known THEN s.known[s.form.id].products ELSE {}
CanToggle(s, p) == HasSeatsAvailable(s, p) \/ p \in s.form.products \/ p \in Original(s)
\* What the form offers beside saving: nobody deletes himself.
Deletable(s) == s.form # None /\ s.form.id \notin {None, CurrentUser}
\* The page lists the company's products or its users; the form stays beside both.
UsersShown(s) == s.section = "users"
AllSeats(s) == {p \in Products : HasSeatsAvailable(s, p) \/ p \in s.form.products}

-----------------------------------------------------------------------------
\* Mutant: the form's etag is not sent.
RequestUnchecked(n, kind, s) ==
    [n |-> n, kind |-> kind, filter |-> s.filter, form |-> s.form, check |-> FALSE,
     status |-> "sent", answer |-> [u \in {} |-> 0]]

Request(n, kind, s) ==
    [n |-> n, kind |-> kind, filter |-> s.filter, form |-> s.form, check |-> TRUE,
     status |-> "sent", answer |-> [u \in {} |-> 0]]
Send(kind, s) ==
    /\ sent < MaxRequests /\ sent' = sent + 1
    /\ requests' = requests \cup {Request(sent + 1, kind, s)}
\* fetchUsers, with what is dispatched before it in the same turn.
FetchUsers(s, answered) ==
    /\ store' = QueryUsers(s)
    /\ IF sent < MaxRequests
       THEN /\ sent' = sent + 1
            /\ requests' = (requests \ answered) \cup {Request(sent + 1, "fetch", s)}
       ELSE FALSE

Turn == Waits => requests = {}
InTurn(r) == AnyOrder \/ \A o \in requests : o.status = r.status => o.n >= r.n

Init ==
    /\ \E existing \in SUBSET Users :
            account = [u \in existing |-> [rev |-> 1, products |-> {}]]
    /\ store = [users |-> DOMAIN account, known |-> account, form |-> None,
                filter |-> None, loading |-> FALSE,
                section |-> "my_company"]
    /\ urls = {None} /\ requests = {} /\ sent = 0 /\ lost = {} /\ clashed = {} /\ removed = {}

-----------------------------------------------------------------------------
(* The administrator. *)

Select(u) ==
    /\ Turn /\ UsersShown(store) /\ u \in store.users
    /\ store' = SelectUser(store, u) /\ urls' = urls \cup {u}
    /\ UNCHANGED <<account, requests, sent, lost, clashed, removed>>

\* onURLParamsChanged: back or forward to an entry with this userId.
GoTo(u) ==
    /\ Turn /\ u \in urls
    /\ store' = IF u # None /\ (store.form = None \/ store.form.id # u) THEN SelectUser(store, u)
                ELSE IF u = None THEN CancelEdit(store) ELSE store
    /\ UNCHANGED <<account, urls, requests, sent, lost, clashed, removed>>

New ==
    /\ Turn /\ store.section = "users"
    /\ store' = NewUser(store)
    /\ UNCHANGED <<account, urls, requests, sent, lost, clashed, removed>>

Close ==
    /\ Turn /\ store.form # None
    /\ store' = CancelEdit(store) /\ urls' = urls \cup {None}
    /\ UNCHANGED <<account, requests, sent, lost, clashed, removed>>

ToggleProduct(p) ==
    /\ Turn /\ store.form # None /\ CanToggle(store, p)
    /\ store' = EditProducts(store, IF p \in store.form.products
                                    THEN store.form.products \ {p} ELSE store.form.products \cup {p})
    /\ UNCHANGED <<account, urls, requests, sent, lost, clashed, removed>>

SelectAll ==
    /\ Turn /\ store.form # None
    /\ store' = EditProducts(store, AllSeats(store))
    /\ UNCHANGED <<account, urls, requests, sent, lost, clashed, removed>>

\* The form stays open until the answer.
PostUser ==
    /\ Turn /\ store.form # None
    /\ Send("save", store)
    /\ UNCHANGED <<account, store, urls, lost, clashed, removed>>

DeleteUser ==
    /\ Turn /\ Deletable(store)
    /\ Send("delete", store)
    /\ UNCHANGED <<account, store, urls, lost, clashed, removed>>

\* The tabs: that of the users loads them again.
SetSection(section) ==
    /\ Turn /\ section # store.section
    /\ IF section = "users"
       THEN FetchUsers([store EXCEPT !.section = section], {})
       ELSE store' = [store EXCEPT !.section = section] /\ UNCHANGED <<requests, sent>>
    /\ UNCHANGED <<account, urls, lost, clashed, removed>>

\* The name of a product leads to its users.
ProductClicked(p) ==
    /\ Turn /\ store.section = "my_company"
    /\ FetchUsers([store EXCEPT !.section = "users", !.filter = p], {})
    /\ UNCHANGED <<account, urls, lost, clashed, removed>>

SetProductFilter(p) ==
    /\ Turn /\ store.section = "users" /\ p # store.filter
    /\ FetchUsers([store EXCEPT !.filter = p], {})
    /\ UNCHANGED <<account, urls, lost, clashed, removed>>

-----------------------------------------------------------------------------
(* The server, and the other administrator, who saves without this page. *)

\* u, if a save of his has passed the check and is not written yet.
Clashing(u, others) == {v \in {u} : \E q \in others : q.status = "checked" /\ q.form.id = v}
Saved(r, u) ==
    /\ account' = With(account, u, [rev |-> IF u \in Fresh THEN 1 ELSE account[u].rev + 1,
                                    products |-> r.form.products])
    /\ lost' = lost \cup {v \in {u} \ Fresh : account[v].rev # r.form.rev}
    /\ clashed' = clashed \cup Clashing(u, requests \ {r})
Done(r, status) == (requests \ {r}) \cup {[r EXCEPT !.status = status]}
EtagAgrees(r) == r.form.id \in DOMAIN account /\ (r.check => account[r.form.id].rev = r.form.rev)
Named == {q.form.id : q \in {o \in requests : o.kind # "fetch"}}

\* A user that is gone is not found; one saved meanwhile has another etag. The id
\* of a new user was never used before.
Handle(r) ==
    /\ r.status = "sent" /\ InTurn(r)
    /\ \/ /\ r.kind = "fetch"
          /\ requests' = (requests \ {r}) \cup {[r EXCEPT !.status = "done",
                !.answer = [u \in Matching(r.filter) |-> account[u]]]}
          /\ UNCHANGED <<account, lost, clashed>>
       \/ /\ r.kind = "save" /\ r.form.id = None
          /\ \E u \in Fresh \ (removed \cup Named) : Saved(r, u)
          /\ requests' = Done(r, "done")
       \/ /\ r.kind = "save" /\ r.form.id # None
          /\ requests' = Done(r, IF EtagAgrees(r) THEN "checked" ELSE "failed")
          /\ UNCHANGED <<account, lost, clashed>>
       \/ /\ r.kind = "delete"
          /\ account' = Without(account, r.form.id)
          /\ requests' = Done(r, IF r.form.id \in DOMAIN account THEN "done" ELSE "failed")
          /\ UNCHANGED <<lost, clashed>>
    /\ UNCHANGED <<store, urls, sent, removed>>

\* The form was made and validated meanwhile, which waits for other things; the update
\* has no etag, so nothing is compared again but that the user exists.
Write(r) ==
    /\ r.status = "checked"
    /\ \/ /\ r.form.id \in DOMAIN account
          /\ Saved(r, r.form.id) /\ requests' = Done(r, "done")
       \/ /\ r.form.id \notin DOMAIN account
          /\ requests' = Done(r, "failed") /\ UNCHANGED <<account, lost, clashed>>
    /\ UNCHANGED <<store, urls, sent, removed>>

SavedElsewhere(u) ==
    /\ Others /\ u \in DOMAIN account /\ account[u].rev < MaxRevs
    /\ account' = [account EXCEPT ![u].rev = @ + 1]
    /\ clashed' = clashed \cup Clashing(u, requests)
    /\ UNCHANGED <<store, urls, requests, sent, lost, removed>>

-----------------------------------------------------------------------------
(* Answers. *)

Fetched(r) ==
    /\ r.kind = "fetch" /\ r.status = "done" /\ InTurn(r)
    /\ store' = GetUsers(store, r.answer)
    /\ requests' = requests \ {r}
    /\ UNCHANGED <<account, urls, sent, lost, clashed, removed>>

\* The list is queried again, which closes the form, whoever's it is by now.
PostAnswered(r) ==
    /\ r.kind = "save" /\ r.status = "done" /\ InTurn(r)
    /\ FetchUsers(store, {r})
    /\ UNCHANGED <<account, urls, lost, clashed, removed>>

DeleteAnswered(r) ==
    /\ r.kind = "delete" /\ r.status = "done" /\ InTurn(r)
    /\ FetchUsers(RemoveUser(store, r.form.id), {r})
    /\ removed' = removed \cup {r.form.id}
    /\ UNCHANGED <<account, urls, lost, clashed>>

\* setError keeps the form, and the list of a fetch that failed keeps loading.
Failed(r) ==
    /\ r.status = "failed" \/ (MayFail /\ r.status = "sent" /\ r.kind = "fetch")
    /\ InTurn(r)
    /\ requests' = requests \ {r}
    /\ UNCHANGED <<account, store, urls, sent, lost, clashed, removed>>

Administrator ==
    \/ \E u \in Users : Select(u)
    \/ \E u \in Users \cup {None} : GoTo(u)
    \/ New \/ Close \/ SelectAll \/ PostUser \/ DeleteUser
    \/ \E p \in Products : ToggleProduct(p)
    \/ \E p \in Filters \cup {None} : SetProductFilter(p)
    \/ \E p \in Filters : ProductClicked(p)
    \/ \E section \in {"my_company", "users"} : SetSection(section)

Next ==
    \/ Administrator
    \/ \E u \in Users : SavedElsewhere(u)
    \/ \E r \in requests :
            Handle(r) \/ Write(r) \/ Fetched(r) \/ PostAnswered(r) \/ DeleteAnswered(r) \/ Failed(r)

Spec == Init /\ [][Next]_vars

-----------------------------------------------------------------------------
\* What the page holds has its shape, and what it asks to delete exists.
TypeOK ==
    /\ DOMAIN account \subseteq Users /\ removed \subseteq Users
    /\ store.users \subseteq Users /\ DOMAIN store.known \subseteq Users
    /\ store.form # None => store.form.id \in Users \cup {None} /\ store.form.products \subseteq Products
    /\ \A r \in requests : r.kind = "delete" => r.form.id \in Users

\* When answers keep their order a user whose deletion was confirmed does not come
\* back to the list, whatever was asked for before.
DeletedStaysGone == store.users \cap removed = {}

\* The etag of the form goes with it: a save, of a form opened long ago, from a list
\* filtered since or twice by a double click, replaces one it has not seen only when
\* the two ran into each other: one written after the other's etag was compared.
NoLostUpdate == lost \subseteq clashed

\* An administrator who is alone and waits for each answer, which comes, and does
\* not filter the list, can not give away more seats than the company has, with Select All or not.
SeatsRespected ==
    \A p \in Products : HasUnlimitedSeats(p) \/
        Cardinality({u \in DOMAIN account : p \in account[u].products}) <= MaxSeats[p]
=============================================================================
