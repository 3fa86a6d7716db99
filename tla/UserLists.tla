------------------------------- MODULE UserLists -------------------------------
(* The bars over the lists of users: the search box, the filters by company and by
   product, the sort, and the dialog that asks for more seats.  The settings page
   ("settings", assets/users) lists the users of all companies; the page of a company's
   admin ("company_admin", assets/company-admin) has its products in one section and its
   users in another.

   The users do not change here: saving and deleting are in UserManager. *)
EXTENDS Integers, Sequences, FiniteSets, SequencesExt

CONSTANTS Page,                          \* "settings" or "company_admin"
          Users, First, Active,          \* ranks of a user's first name and of when he was last active
          CompanyOf, ProductsOf, TextsOf,\* his company, his products, the texts that find him
          Companies, OwnCompany,         \* and the one of the admin
          Products, ProductSection, CompanyProducts, CompanySections, MaxSeats, NameTexts,
          Texts, None,
          Limit,                         \* users in one answer of the server
          Acts, AnyOrder, MayFail, MaxRequests

SidebarSections == {"my_company", "users"}
SortFields == {"first_name", "last_active"}
Numbers == {-1, 1, 2, None}              \* what the number of seats may be; None is not a number

UserListsAssumption ==
    /\ Page \in {"settings", "company_admin"} /\ OwnCompany \in Companies
    /\ First \in [Users -> Nat] /\ Active \in [Users -> Nat] /\ CompanyOf \in [Users -> Companies]
    /\ ProductsOf \in [Users -> SUBSET Products] /\ TextsOf \in [Users -> SUBSET Texts]
    /\ CompanyProducts \subseteq Products /\ MaxSeats \in [Products -> Nat] /\ NameTexts \in [Products -> SUBSET Texts]
    /\ None \notin Texts \union Companies \union Products \union Users /\ Limit \in Nat \ {0}

VARIABLES store,     \* the redux store
          box,       \* the text in the search box, None if empty
          typed,     \* the user has typed in it since it was last set
          requests, sent,
          asked      \* the requests for seats that left, each with the dialog it is of
vars == <<store, box, typed, requests, sent, asked>>

May(act) == act \in Acts
Admin == Page = "company_admin"
Fetches == {r \in requests : r.kind = "fetch"}

-------------------------------------------------------------------------------
(* The server: GET /users/search. *)

Before(p, u, v) ==
    LET x == IF p.sort = "last_active" THEN Active[u] ELSE First[u]
        y == IF p.sort = "last_active" THEN Active[v] ELSE First[v]
    IN  IF x = y THEN First[u] < First[v] ELSE IF p.dir = 1 THEN x < y ELSE x > y
Matching(p) == {u \in Users : /\ p.query = None \/ p.query \in TextsOf[u]
                              /\ p.company = None \/ p.company = CompanyOf[u]
                              /\ p.product = None \/ p.product \in ProductsOf[u]
                              /\ Admin => CompanyOf[u] = OwnCompany}
Find(p) == SetToSortSeq(Matching(p), LAMBDA u, v : Before(p, u, v))
Search(p) == IF Len(Find(p)) > Limit THEN SubSeq(Find(p), 1, Limit) ELSE Find(p)

-------------------------------------------------------------------------------
(* The reducers. *)

Params(s) == [query |-> s.query, company |-> s.company, product |-> s.product,
              sort |-> IF s.sort = None THEN "first_name" ELSE s.sort, dir |-> s.dir]
queryUsers(s) == [s EXCEPT !.loading = TRUE, !.total = None, !.form = None]
getUsers(s, list) == [s EXCEPT !.users = list, !.total = Len(list), !.loading = FALSE]
setSort(s, field) == [s EXCEPT !.sort = field, !.dir = 1]
toggleSortDirection(s) == [s EXCEPT !.dir = -@]

-------------------------------------------------------------------------------
(* What the page draws. *)

ShowsUsers(s) == ~Admin \/ s.section = "users"
\* The products of the company, under the sections it has, by their name.
ProductRows(s) == {p \in CompanyProducts : /\ ProductSection[p] \in CompanySections
                                           /\ s.query = None \/ s.query \in NameTexts[p]}
Unlimited(p) == MaxSeats[p] = 0
\* The filter by product offers those of the company in the sections it has.
getDropdownItems(s) == {p \in CompanyProducts : ProductSection[p] \in CompanySections} \ {s.product}
\* The sort that is named, and those offered; to reset it is offered when one is set.
SortShown(s) == IF s.sort = None THEN "first_name" ELSE s.sort
SortChoices(s) == (SortFields \ {SortShown(s)}) \union IF Admin \/ s.sort # None THEN {None} ELSE {}
\* The dialog offers the products of the sections, whether the company has them or not.
ModalProducts == {p \in Products : ProductSection[p] \in CompanySections}
CanSubmit(d) == d.valid /\ ~d.submitting

\* The box takes the query whenever it is drawn anew: the admin's page is at each change
\* of the store, the settings page when what the bar shows, or the form, changes.
Drawn(s) == IF Admin THEN s
            ELSE [query |-> s.query, company |-> s.company, sort |-> s.sort, dir |-> s.dir, form |-> s.form]
Redraw(s) == IF Drawn(s) # Drawn(store) THEN box' = s.query /\ typed' = FALSE ELSE UNCHANGED <<box, typed>>

Become(s) == store' = s /\ Redraw(s)
Request(n, kind, s) == [n |-> n, kind |-> kind, params |-> Params(s), dialog |-> s.dialog]
fetchUsers(s) == /\ sent < MaxRequests /\ sent' = sent + 1
                 /\ requests' = requests \union {Request(sent + 1, "fetch", s)}
                 /\ Become(queryUsers(s))
                 /\ UNCHANGED asked
Only(s) == Become(s) /\ UNCHANGED <<requests, sent, asked>>

-------------------------------------------------------------------------------
(* The bar. *)

Type(x) == /\ May("query") /\ x # box /\ box' = x /\ typed' = TRUE
           /\ UNCHANGED <<store, requests, sent, asked>>
\* Submitting and clearing; over the products nothing is fetched.
Submit(x) == /\ May("query") /\ x \in {box, None}
             /\ LET s == [store EXCEPT !.query = x] IN
                IF ShowsUsers(store)
                THEN /\ sent < MaxRequests /\ sent' = sent + 1 /\ store' = queryUsers(s)
                     /\ requests' = requests \union {Request(sent + 1, "fetch", s)}
                ELSE store' = s /\ UNCHANGED <<requests, sent>>
             /\ box' = x /\ typed' = FALSE /\ UNCHANGED asked
ChooseCompany(c) == /\ May("company") /\ ~Admin /\ c # store.company
                    /\ fetchUsers([store EXCEPT !.company = c])
ChooseSort(field) == /\ May("sort") /\ ShowsUsers(store) /\ field \in SortChoices(store)
                     /\ fetchUsers(setSort(store, field))
ToggleSortDirection == /\ May("sort") /\ ShowsUsers(store) /\ fetchUsers(toggleSortDirection(store))
NewUser == /\ May("new") /\ ShowsUsers(store) /\ (~Admin => store.form = None)
           /\ Only([store EXCEPT !.form = [company |-> store.company]])
CloseForm == store.form # None /\ Only([store EXCEPT !.form = None])

-------------------------------------------------------------------------------
(* The admin's page. *)

SetProductFilter(p) == /\ May("product") /\ Admin /\ ShowsUsers(store)
                       /\ p \in getDropdownItems(store) \union {None} /\ p # store.product
                       /\ fetchUsers([store EXCEPT !.product = p])
\* The buttons clear the query; that of the users fetches them.
SetSection(section) ==
    /\ May("section") /\ Admin
    /\ LET s == [store EXCEPT !.section = section, !.query = None]
       IN  IF section = "users" THEN fetchUsers(s) ELSE Only(s)
\* The name of a product leads to its users; the query stays.
NameClicked(p) == /\ May("product") /\ Admin /\ store.section = "my_company" /\ p \in ProductRows(store)
                  /\ fetchUsers([store EXCEPT !.section = "users", !.product = p])

\* What is not a number is not refused.
validateForm(d) == [d EXCEPT !.valid = d.products # {} /\ (d.number = None \/ d.number > 0)]
ShowSeatRequest(p) == /\ May("seats") /\ Admin /\ store.section = "my_company" /\ store.dialog = None
                      /\ p \in ProductRows(store) /\ ~Unlimited(p)
                      /\ store.dialogs < MaxRequests
                      /\ Only([store EXCEPT !.dialogs = @ + 1,
                               !.dialog = validateForm([id |-> store.dialogs + 1, products |-> {p}, number |-> 2,
                                                        valid |-> FALSE, submitting |-> FALSE])])
Change(d) == Only([store EXCEPT !.dialog = validateForm(d)])
toggleProduct(p) == /\ store.dialog # None /\ p \in ModalProducts
                    /\ Change([store.dialog EXCEPT !.products = IF p \in @ THEN @ \ {p} ELSE @ \union {p}])
updateNumberOfSeats(n) == /\ store.dialog # None /\ n # store.dialog.number
                          /\ Change([store.dialog EXCEPT !.number = n])
CloseModal == store.dialog # None /\ Only([store EXCEPT !.dialog = None])
SendRequest ==
    /\ store.dialog # None /\ CanSubmit(store.dialog) /\ sent < MaxRequests
    /\ store' = [store EXCEPT !.dialog.submitting = TRUE] /\ UNCHANGED <<box, typed>>
    /\ requests' = requests \union {Request(sent + 1, "seats", store)} /\ sent' = sent + 1
    /\ asked' = Append(asked, store.dialog)

-------------------------------------------------------------------------------
(* Answers.  A refused request for seats is reported and closes the dialog as well. *)

InTurn(r) == AnyOrder \/ \A o \in requests : o.n >= r.n
Answer(r) ==
    /\ InTurn(r) /\ requests' = requests \ {r}
    /\ Become(IF r.kind = "seats" THEN [store EXCEPT !.dialog = None]
              ELSE getUsers(store, Search(r.params)))
    /\ UNCHANGED <<sent, asked>>
Fail(r) == /\ MayFail /\ r.kind = "fetch" /\ InTurn(r) /\ requests' = requests \ {r}
           /\ UNCHANGED <<store, box, typed, sent, asked>>

Init ==
    /\ LET s == [query |-> None, company |-> IF Admin THEN OwnCompany ELSE None, product |-> None, sort |-> None,
                 dir |-> 1, section |-> "my_company", users |-> <<>>, total |-> None,
                 loading |-> FALSE, form |-> None, dialog |-> None, dialogs |-> 0]
       IN  store = getUsers(s, Find(Params(s)))
    /\ box = None /\ typed = FALSE /\ requests = {} /\ sent = 0 /\ asked = <<>>
Next == \/ \E x \in Texts \union {None} : Type(x) \/ Submit(x)
        \/ \E c \in Companies \union {None} : ChooseCompany(c)
        \/ \E f \in SortFields \union {None} : ChooseSort(f)
        \/ ToggleSortDirection \/ NewUser \/ CloseForm \/ CloseModal \/ SendRequest
        \/ \E p \in Products \union {None} : SetProductFilter(p)
        \/ \E p \in Products : NameClicked(p) \/ ShowSeatRequest(p) \/ toggleProduct(p)
        \/ \E n \in Numbers : updateNumberOfSeats(n)
        \/ \E s \in SidebarSections : SetSection(s)
        \/ \E r \in requests : Answer(r) \/ Fail(r)
Spec == Init /\ [][Next]_vars
FairSpec == Spec /\ WF_vars(\E r \in requests : Answer(r))

-------------------------------------------------------------------------------
(* Properties. *)

TypeOK ==
    /\ store.query \in Texts \union {None} /\ store.company \in Companies \union {None}
    /\ store.product \in Products \union {None} /\ store.sort \in SortFields \union {None} /\ store.dir \in {1, -1}
    /\ store.section \in SidebarSections /\ Range(store.users) \subseteq Users /\ store.loading \in BOOLEAN
    /\ store.dialog # None => store.dialog.products \subseteq Products /\ store.dialog.number \in Numbers
    /\ box \in Texts \union {None} /\ typed \in BOOLEAN

\* Once the answers are in, which come in order, the list is what the server finds for all
\* that the bar shows: text, company, product, sort and its direction.
ListAgrees == (Fetches = {} /\ ~store.loading /\ ShowsUsers(store)) => store.users = Search(Params(store))
\* The box shows the query in force, unless the user has typed in it since.
BoxAgrees == typed \/ box = store.query
\* A sort that is chosen starts in ascending order, whatever was toggled for the last one.
NewSortAscendsStep ==
    \A f \in SortFields : store.sort # f /\ store'.sort = f => store'.dir = 1
\* One dialog asks once (Modal: disableButtonOnSubmit), however often its button is clicked.
AskedOnce == \A i, j \in 1 .. Len(asked) : i # j => asked[i].id # asked[j].id
\* What is asked for is not less than a seat of something.
AskedPositive == \A i \in 1 .. Len(asked) : asked[i].products # {} /\ asked[i].number # -1

===============================================================================
