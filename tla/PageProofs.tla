------------------------------ MODULE PageProofs -------------------------------
(***************************************************************************)
(* Proofs about pages of the web client: the companies in the settings,    *)
(* for any companies, users and searches; the form of a user, for any      *)
(* languages and each role of the current user; the users of a company,    *)
(* for any products and seats; the bell of the header, for any             *)
(* notifications; and the profile of a reader, for any names and times.    *)
(***************************************************************************)
EXTENDS CompanyManager, Sequences, FiniteSetTheorems, TLAPS

\* The form of a user is a page of its own; what both pages have is named alike.
CONSTANTS Role, Users, Me, OwnCompany, Locales, Default, Shown, Edits, Acts
VARIABLES account, known, form, picked, errors, answer
Page == INSTANCE UserForm

\* So is the list of a company's users.
CONSTANTS CurrentUser, Products, MaxSeats, Filters, Others, MaxRevs
VARIABLES lost, clashed
Manager == INSTANCE UserManager

\* And the bell, which every page shows.
CONSTANTS Notes, MaxEvents
VARIABLES stored, unused, displayed, pushes, connected, untold, events
Bell == INSTANCE NotificationPanel

\* And the profile of the reader.
CONSTANTS Names, Times, DefaultTimes, MaxDay, Offsets, MaxFlight, MaxRuns
VARIABLES srv, modal, fullUser, today, ahead, dateToday, flight, job, runs, told, raced
Profile == INSTANCE UserProfile

--------------------------------------------------------------------------------
(* The companies in the settings. *)

Ids == Companies \cup {None}
Managers == Employees \cup {None}
Records == [edits : SUBSET Nat, admin : Managers, approved : BOOLEAN]
Lists == UNION {[D -> Records] : D \in SUBSET Companies}
Forms == [id : Ids, edits : SUBSET Nat, admin : Managers, approved : BOOLEAN]
TabNames == {"company-details", "users", "permissions", "api"}
Stores == [known : Lists, active : Ids, form : Forms \cup {None}, tab : TabNames,
           users : SUBSET Employees, loading : BOOLEAN, errors : BOOLEAN, query : SUBSET Companies]
Kinds == {"list", "users", "save", "approve", "delete"}
Statuses == {"sent", "done", "failed"}
Messages == [n : Nat, kind : Kinds, id : Ids, form : Forms \cup {None}, query : SUBSET Companies,
             status : Statuses, found : Lists, users : SUBSET Employees]

\* Every record has its shape.
RecordsOK ==
    /\ company \in Lists /\ store \in Stores /\ requests \subseteq Messages
    /\ sent \in Nat /\ edits \in Nat /\ urls \subseteq Ids /\ removed \subseteq Companies

\* The open form is in a tab it offers, and that of a company not saved yet is blank.
FormOK ==
    store.form # None =>
        /\ store.tab \in Tabs(store)
        /\ store.form.id = None => store.form.approved /\ store.form.admin = None

\* What a request needs, and which ones fail.
RequestsOK ==
    \A r \in requests : /\ r.kind \in {"users", "delete", "approve"} => r.id \in Companies
                        /\ r.kind = "save" => r.form # None
                        /\ r.kind \in {"list", "users"} /\ ~MayFail => r.status # "failed"

ShapeInv == RecordsOK /\ FormOK /\ RequestsOK

--------------------------------------------------------------------------------
(* The store. *)

LEMMA ListMade == ASSUME NEW D \in SUBSET Companies, NEW l \in [D -> Records] PROVE l \in Lists
  BY Zenon DEF Lists

LEMMA ListShape ==
    ASSUME NEW l \in Lists
    PROVE  /\ DOMAIN l \subseteq Companies /\ l = [c \in DOMAIN l |-> l[c]]
           /\ \A c \in DOMAIN l : l[c] \in Records
  <1>1. PICK D \in SUBSET Companies : l \in [D -> Records]
    BY Zenon DEF Lists
  <1> QED
    BY <1>1

LEMMA NothingListed == [x \in {} |-> 0] \in Lists
  <1>1. [x \in {} |-> 0] \in [{} -> Records]
    OBVIOUS
  <1> QED
    BY <1>1, ListMade

LEMMA SelectType ==
    ASSUME NEW s \in Stores, NEW c \in Companies
    PROVE  SelectCompany(s, c) \in Stores
  <1>1. c \in DOMAIN s.known => s.known[c] \in Records
    BY ListShape DEF Stores
  <1>2. c \in DOMAIN s.known => Form(c, s.known[c]) \in Forms
    BY <1>1 DEF Form, Records, Forms, Ids
  <1>3. Form(None, Blank) \in Forms
    BY DEF Form, Blank, Forms, Ids, Managers
  <1> DEFINE f == IF c \in DOMAIN s.known THEN Form(c, s.known[c]) ELSE Form(None, Blank)
             t == IF s.form = None \/ s.form.id # c THEN "company-details" ELSE s.tab
  <1>4. f \in Forms /\ t \in TabNames
    <2>1. f \in Forms
      BY <1>2, <1>3
    <2>2. s.tab \in TabNames /\ "company-details" \in TabNames
      BY DEF Stores, TabNames
    <2> QED
      BY <2>1, <2>2
  <1>5. SelectCompany(s, c) = [s EXCEPT !.active = c, !.errors = FALSE, !.tab = t, !.form = f]
    BY DEF SelectCompany
  <1> HIDE DEF f, t
  <1> QED
    BY <1>4, <1>5 DEF Stores, Ids

LEMMA NewType == ASSUME NEW s \in Stores PROVE NewCompany(s) \in Stores
  <1> DEFINE f == Form(None, Blank)
             t == IF s.form = None \/ s.form.id # None THEN "company-details" ELSE s.tab
  <1>1. f \in Forms
    BY DEF Form, Blank, Forms, Ids, Managers
  <1>2. t \in TabNames
    BY DEF Stores, TabNames
  <1>3. NewCompany(s) = [s EXCEPT !.form = f, !.errors = FALSE, !.tab = t]
    BY DEF NewCompany
  <1> HIDE DEF f, t
  <1> QED
    BY <1>1, <1>2, <1>3 DEF Stores

LEMMA EditType ==
    ASSUME NEW s \in Stores, s.form # None, NEW e \in Nat
    PROVE  /\ EditCompany(s, e) \in Stores
           /\ EditCompany(s, e) = [s EXCEPT !.form = [s.form EXCEPT !.edits = s.form.edits \cup {e}],
                                            !.errors = FALSE]
  <1>1. s.form \in Forms
    BY DEF Stores
  <1>2. [s.form EXCEPT !.edits = s.form.edits \cup {e}] \in Forms
    BY <1>1 DEF Forms
  <1>3. EditCompany(s, e) = [s EXCEPT !.form = [s.form EXCEPT !.edits = s.form.edits \cup {e}],
                                      !.errors = FALSE]
    BY DEF EditCompany, Stores
  <1> QED
    BY <1>2, <1>3 DEF Stores

LEMMA PickType ==
    ASSUME NEW s \in Stores, s.form # None, NEW u \in Employees \union {None}
    PROVE  /\ EditAdministrator(s, u) \in Stores
           /\ EditAdministrator(s, u) = [s EXCEPT !.form = [s.form EXCEPT !.admin = u], !.errors = FALSE]
  <1>1. s.form \in Forms
    BY DEF Stores
  <1>2. [s.form EXCEPT !.admin = u] \in Forms
    BY <1>1 DEF Forms, Managers
  <1>3. EditAdministrator(s, u) = [s EXCEPT !.form = [s.form EXCEPT !.admin = u], !.errors = FALSE]
    BY DEF EditAdministrator, Stores
  <1> QED
    BY <1>2, <1>3 DEF Stores

LEMMA StoreTypes ==
    ASSUME NEW s \in Stores
    PROVE  /\ CancelEdit(s) \in Stores /\ SetError(s) \in Stores /\ QueryCompanies(s) \in Stores
           /\ \A data \in Lists : SetupCompanies(s, data) \in Stores
           /\ \A users \in SUBSET Employees : GetCompanyUsers(s, users) \in Stores
  BY DEF CancelEdit, SetError, QueryCompanies, SetupCompanies, GetCompanyUsers, Stores

--------------------------------------------------------------------------------
(* Requests. *)

LEMMA RequestType ==
    ASSUME NEW n \in Nat, NEW k \in Kinds, NEW c \in Ids, NEW s \in Stores
    PROVE  /\ Request(n, k, c, s) \in Messages
           /\ Request(n, k, c, s).n = n /\ Request(n, k, c, s).kind = k /\ Request(n, k, c, s).id = c
           /\ Request(n, k, c, s).status = "sent" /\ Request(n, k, c, s).form = s.form
           /\ Request(n, k, c, s).users = {} /\ DOMAIN Request(n, k, c, s).found = {}
  BY NothingListed DEF Request, Messages, Stores, Statuses

\* One request is sent.
LEMMA SendingOne ==
    ASSUME sent \in Nat, NEW m, NEW s, NEW answered, Sending({m}, s, answered)
    PROVE  sent' = sent + 1 /\ requests' = (requests \ answered) \cup {m}
  BY FS_Singleton DEF Sending

\* The list is loaded again.
LEMMA Fetching ==
    ASSUME sent \in Nat, NEW s, NEW answered, FetchCompanies(s, answered)
    PROVE  /\ store' = QueryCompanies(s) /\ sent' = sent + 1
           /\ requests' = (requests \ answered) \cup {Request(sent + 1, "list", None, s)}
  BY SendingOne DEF FetchCompanies

\* The users of a company are loaded, if it is.
LEMMA FetchingUsers ==
    ASSUME sent \in Nat, NEW c, NEW s, FetchCompanyUsers(c, s)
    PROVE  \/ /\ c \in DOMAIN s.known /\ sent' = sent + 1
              /\ requests' = requests \cup {Request(sent + 1, "users", c, s)}
           \/ c \notin DOMAIN s.known /\ sent' = sent /\ requests' = requests
  <1>1. CASE c \in DOMAIN s.known
    <2>1. Sending({Request(sent + 1, "users", c, s)}, s, {})
      BY <1>1 DEF FetchCompanyUsers
    <2>2. requests' = (requests \ {}) \cup {Request(sent + 1, "users", c, s)} /\ sent' = sent + 1
      BY <2>1, SendingOne
    <2>3. requests \ {} = requests
      OBVIOUS
    <2> QED
      BY <1>1, <2>2, <2>3
  <1> QED
    BY <1>1 DEF FetchCompanyUsers

--------------------------------------------------------------------------------
(* What each action does. *)

Quiet == requests' = requests /\ sent' = sent
Sends(m) == requests' = requests \cup {m} /\ sent' = sent + 1
Kept == company' = company /\ removed' = removed /\ saved' = saved

\* One request is sent, none is answered.
LEMMA SendingMore ==
    ASSUME sent \in Nat, NEW m, NEW s, Sending({m}, s, {})
    PROVE  Sends(m)
  <1>1. requests \ {} = requests
    OBVIOUS
  <1> QED
    BY <1>1, SendingOne DEF Sends

\* A company is opened, with its users if it is loaded.
Opened(c) ==
    /\ store' = SelectCompany(store, c)
    /\ c \in DOMAIN store.known => Sends(Request(sent + 1, "users", c, store))
    /\ c \notin DOMAIN store.known => Quiet /\ (store.form = None \/ store.form.id # c)

LEMMA Opening ==
    ASSUME sent \in Nat, NEW c, FetchCompanyUsers(c, store), store' = SelectCompany(store, c),
           c \in DOMAIN store.known \/ store.form = None \/ store.form.id # c
    PROVE  Opened(c)
  BY FetchingUsers DEF Opened, Quiet, Sends

LEMMA SelectStep ==
    ASSUME RecordsOK, NEW c \in Companies, Select(c)
    PROVE  Kept /\ Turn /\ edits' = edits /\ urls' = urls \cup {c} /\ Opened(c)
  <1>1. c \in DOMAIN store.known
    BY DEF Select, Listed
  <1> QED
    BY <1>1, Opening DEF Select, Kept, RecordsOK

LEMMA GoToStep ==
    ASSUME RecordsOK, NEW c \in urls, GoTo(c)
    PROVE  /\ Kept /\ Turn /\ edits' = edits /\ urls' = urls
           /\ \/ c \in Companies /\ Opened(c)
              \/ Quiet /\ store' = CancelEdit(store)
              \/ Quiet /\ store' = store
  <1>1. Kept /\ Turn /\ edits' = edits /\ urls' = urls
    BY DEF GoTo, Kept
  <1>2. CASE c # None /\ (store.form = None \/ store.form.id # c)
    <2>1. c \in Companies
      BY <1>2 DEF RecordsOK, Ids
    <2>2. store' = SelectCompany(store, c) /\ FetchCompanyUsers(c, store)
      BY <1>2 DEF GoTo
    <2> QED
      BY <1>1, <1>2, <2>1, <2>2, Opening DEF RecordsOK
  <1>3. CASE ~(c # None /\ (store.form = None \/ store.form.id # c))
    <2>1. Quiet /\ (store' = CancelEdit(store) \/ store' = store)
      BY <1>3 DEF GoTo, Quiet
    <2> QED
      BY <1>1, <2>1
  <1> QED
    BY <1>2, <1>3

LEMMA NewStep ==
    ASSUME New
    PROVE  Kept /\ Turn /\ edits' = edits /\ urls' = urls /\ Quiet /\ store' = NewCompany(store)
  BY DEF New, Kept, Quiet

LEMMA CloseStep ==
    ASSUME Close
    PROVE  /\ Kept /\ Turn /\ edits' = edits /\ urls' = urls \cup {None} /\ Quiet
           /\ store' = CancelEdit(store)
  BY DEF Close, Kept, Quiet

LEMMA OpenTabStep ==
    ASSUME ShapeInv, NEW t \in Tabs(store), OpenTab(t)
    PROVE  /\ Kept /\ Turn /\ edits' = edits /\ urls' = urls
           /\ store' = [store EXCEPT !.tab = t] /\ t \in TabNames /\ store.form # None
           /\ \/ Quiet
              \/ /\ store.form.id \in Companies
                 /\ Sends(Request(sent + 1, "users", store.form.id, store))
  <1>1. Kept /\ Turn /\ edits' = edits /\ urls' = urls /\ store' = [store EXCEPT !.tab = t]
    BY DEF OpenTab, Kept
  <1>2. store.form # None /\ t \in TabNames /\ (t = "users" => store.form.id # None)
    BY DEF Tabs, TabNames
  <1>3. store.form.id \in Ids
    BY <1>2 DEF ShapeInv, RecordsOK, Stores, Forms
  <1>4. CASE t = "users"
    <2>1. FetchCompanyUsers(store.form.id, store)
      BY <1>4 DEF OpenTab
    <2>2. store.form.id \in Companies
      BY <1>2, <1>3, <1>4 DEF Ids
    <2>3. Quiet \/ Sends(Request(sent + 1, "users", store.form.id, store))
      BY <2>1, FetchingUsers DEF Quiet, Sends, ShapeInv, RecordsOK
    <2> QED
      BY <1>1, <1>2, <2>2, <2>3
  <1>5. CASE t # "users"
    <2>1. Quiet
      BY <1>5 DEF OpenTab, Quiet
    <2> QED
      BY <1>1, <1>2, <2>1
  <1> QED
    BY <1>4, <1>5

LEMMA EditStep ==
    ASSUME Edit
    PROVE  /\ Kept /\ Turn /\ edits' = edits + 1 /\ urls' = urls /\ Quiet
           /\ store.form # None /\ store' = EditCompany(store, edits)
  BY DEF Edit, Kept, Quiet

LEMMA PickStep ==
    ASSUME NEW u \in Employees \union {None}, PickAdministrator(u)
    PROVE  /\ Kept /\ Turn /\ edits' = edits /\ urls' = urls /\ Quiet
           /\ store.form # None /\ store.form.id # None /\ u \in store.users \union {None}
           /\ store' = EditAdministrator(store, u)
  BY DEF PickAdministrator, AdministratorOptions, Kept, Quiet

LEMMA SaveStep ==
    ASSUME RecordsOK, Save
    PROVE  /\ Kept /\ Turn /\ edits' = edits /\ urls' = urls /\ store.form # None
           /\ \/ Quiet /\ store' = [SetError(store) EXCEPT !.tab = "company-details"]
              \/ store' = store /\ Sends(Request(sent + 1, "save", store.form.id, store))
  <1>1. Kept /\ Turn /\ edits' = edits /\ urls' = urls /\ store.form # None
    BY DEF Save, Kept
  <1>2. \/ Quiet /\ store' = [SetError(store) EXCEPT !.tab = "company-details"]
        \/ store' = store /\ Sending({Request(sent + 1, "save", store.form.id, store)}, store, {})
    BY DEF Save, Quiet
  <1> QED
    BY <1>1, <1>2, SendingMore DEF RecordsOK

LEMMA DeleteStep ==
    ASSUME RecordsOK, Delete
    PROVE  /\ Kept /\ Turn /\ edits' = edits /\ urls' = urls \cup {None}
           /\ store.form # None /\ store.form.id \in Companies
           /\ store' = CancelEdit(store) /\ Sends(Request(sent + 1, "delete", store.form.id, store))
  <1>1. store.form # None /\ store.form.id # None
    BY DEF Delete, CanDelete
  <1>2. store.form.id \in Companies
    BY <1>1 DEF RecordsOK, Stores, Forms, Ids
  <1> QED
    BY <1>1, <1>2, SendingMore DEF Delete, Kept, RecordsOK

LEMMA ApproveStep ==
    ASSUME ShapeInv, Approve
    PROVE  /\ Kept /\ Turn /\ edits' = edits /\ urls' = urls
           /\ store.form # None /\ store.form.id \in Companies
           /\ store' = store /\ Sends(Request(sent + 1, "approve", store.form.id, store))
  <1>1. store.form # None /\ store.form.id # None
    BY DEF Approve, CanApprove, ShapeInv, FormOK
  <1>2. store.form.id \in Companies
    BY <1>1 DEF ShapeInv, RecordsOK, Stores, Forms, Ids
  <1> QED
    BY <1>1, <1>2, SendingMore DEF Approve, Kept, ShapeInv, RecordsOK

LEMMA SearchStep ==
    ASSUME ConstantsOK, RecordsOK, NEW q \in Queries, Search(q)
    PROVE  /\ Kept /\ Turn /\ edits' = edits /\ urls' = urls
           /\ [store EXCEPT !.query = q] \in Stores
           /\ store' = QueryCompanies([store EXCEPT !.query = q])
           /\ Sends(Request(sent + 1, "list", None, [store EXCEPT !.query = q]))
  <1> DEFINE s == [store EXCEPT !.query = q]
  <1>1. s \in Stores
    BY DEF ConstantsOK, RecordsOK, Stores
  <1>2. FetchCompanies(s, {}) /\ Kept /\ Turn /\ edits' = edits /\ urls' = urls
    BY DEF Search, Kept
  <1> HIDE DEF s
  <1>3. store' = QueryCompanies(s) /\ Sends(Request(sent + 1, "list", None, s))
    BY <1>2, SendingMore DEF FetchCompanies, RecordsOK
  <1> QED
    BY <1>1, <1>2, <1>3 DEF s

\* The server's answer a to request r.
Becomes(r, a) ==
    /\ r.status = "sent" /\ InTurn(r)
    /\ a.n = r.n /\ a.kind = r.kind /\ a.form = r.form /\ a.query = r.query
    /\ requests' = (requests \ {r}) \cup {a}
    /\ store' = store /\ urls' = urls /\ sent' = sent /\ edits' = edits
    /\ saved' = saved /\ removed' = removed

Listing(r, a) ==
    /\ r.kind = "list" /\ a.id = r.id /\ a.status = "done" /\ a.users = {}
    /\ a.found = [c \in DOMAIN company \cap r.query |-> company[c]] /\ company' = company
Telling(r, a) ==
    /\ r.kind = "users" /\ a.id = r.id /\ a.status = "done" /\ DOMAIN a.found = {} /\ company' = company
    /\ a.users = IF r.id \in DOMAIN company THEN Staff[r.id] ELSE {}
Creating(r, a) ==
    /\ r.kind = "save" /\ r.id = None /\ a.status = "done" /\ a.found = r.found /\ a.users = r.users
    /\ a.id \in Companies /\ a.id \notin DOMAIN company /\ a.id \notin removed
    /\ \A q \in requests : q.id # a.id
    /\ company' = Put(a.id, Content(r.form))
Refusing(r, a) ==
    /\ r.kind \in {"save", "approve", "delete"} /\ a.id = r.id /\ a.status = "failed"
    /\ DOMAIN a.found = {} /\ a.users = {} /\ company' = company
Changing(r, a) ==
    /\ r.id \in DOMAIN company /\ a.id = r.id /\ a.status = "done" /\ DOMAIN a.found = {} /\ a.users = {}
    /\ \/ /\ r.kind = "save"
          /\ company' = Put(r.id, Updated(r.form, company[r.id]))
       \/ r.kind = "approve" /\ company' = [company EXCEPT ![r.id].approved = TRUE]
       \/ r.kind = "delete" /\ company' = [c \in DOMAIN company \ {r.id} |-> company[c]]

Answering(r, a) ==
    Listing(r, a) \/ Telling(r, a) \/ Creating(r, a) \/ Refusing(r, a) \/ Changing(r, a)

\* A company put among those there are.
LEMMA PutType ==
    ASSUME company \in Lists, NEW c \in Companies, NEW d \in Records
    PROVE  Put(c, d) \in Lists /\ DOMAIN Put(c, d) = DOMAIN company \cup {c}
           /\ Put(c, d)[c] = d /\ \A x \in DOMAIN company : x # c => Put(c, d)[x] = company[x]
  <1>1. DOMAIN company \cup {c} \in SUBSET Companies
    BY ListShape
  <1>2. \A x \in DOMAIN company : company[x] \in Records
    BY ListShape
  <1>3. Put(c, d) \in [DOMAIN company \cup {c} -> Records]
    BY <1>2 DEF Put
  <1>4. Put(c, d) \in Lists
    BY <1>1, <1>3, ListMade
  <1> QED
    BY <1>4 DEF Put

LEMMA ContentType ==
    ASSUME NEW f \in Forms
    PROVE  Content(f) \in Records /\ Content(f).edits = f.edits /\ Content(f).admin = f.admin
  BY DEF Content, Forms, Records

LEMMA UpdatedType ==
    ASSUME NEW f \in Forms, NEW c \in Records
    PROVE  /\ Updated(f, c) \in Records /\ Updated(f, c).edits = f.edits
           /\ Updated(f, c).admin \in {f.admin, c.admin}
  BY DEF Updated, Content, Forms, Records

\* What the server changes leaves the companies what they are.
LEMMA ServerTypes ==
    ASSUME company \in Lists
    PROVE  /\ \A c \in DOMAIN company :
                LET approved == [company EXCEPT ![c].approved = TRUE]
                IN  /\ approved \in Lists /\ DOMAIN approved = DOMAIN company
                    /\ \A x \in DOMAIN company : /\ approved[x].edits = company[x].edits
                                                 /\ approved[x].admin = company[x].admin
           /\ \A D \in SUBSET DOMAIN company : [c \in D |-> company[c]] \in Lists
  <1>1. \A c \in DOMAIN company : company[c] \in Records
    BY ListShape
  <1>2. company = [c \in DOMAIN company |-> company[c]] /\ DOMAIN company \in SUBSET Companies
    BY ListShape
  <1>3. ASSUME NEW c \in DOMAIN company
        PROVE  LET approved == [company EXCEPT ![c].approved = TRUE]
               IN  /\ approved \in Lists /\ DOMAIN approved = DOMAIN company
                   /\ \A x \in DOMAIN company : /\ approved[x].edits = company[x].edits
                                                /\ approved[x].admin = company[x].admin
    <2> DEFINE d == [company[c] EXCEPT !.approved = TRUE]
               approved == [company EXCEPT ![c] = d]
    <2>1. d \in Records /\ d.edits = company[c].edits /\ d.admin = company[c].admin
      BY <1>1 DEF Records
    <2>2. [company EXCEPT ![c].approved = TRUE] = approved
      BY <1>2
    <2> HIDE DEF d
    <2>3. approved \in [DOMAIN company -> Records]
      BY <1>1, <1>2, <2>1
    <2>4. approved \in Lists
      BY <1>2, <2>3, ListMade
    <2>5. /\ DOMAIN approved = DOMAIN company
          /\ \A x \in DOMAIN company : approved[x] = IF x = c THEN d ELSE company[x]
      BY <1>2
    <2>6. \A x \in DOMAIN company : /\ approved[x].edits = company[x].edits
                                    /\ approved[x].admin = company[x].admin
      BY <2>1, <2>5
    <2> QED
      BY <2>2, <2>4, <2>5, <2>6
  <1>4. ASSUME NEW D \in SUBSET DOMAIN company PROVE [c \in D |-> company[c]] \in Lists
    <2>1. [c \in D |-> company[c]] \in [D -> Records] /\ D \in SUBSET Companies
      BY <1>1, <1>2
    <2> QED
      BY <2>1, ListMade
  <1> QED
    BY <1>3, <1>4

\* A company that was created.
LEMMA CreatedType ==
    ASSUME NEW r \in Messages, NEW c \in Companies
    PROVE  LET a == [r EXCEPT !.status = "done", !.id = c]
           IN  /\ a \in Messages /\ a.n = r.n /\ a.kind = r.kind /\ a.form = r.form /\ a.query = r.query
               /\ a.id = c /\ a.status = "done" /\ a.users = r.users /\ a.found = r.found
  BY DEF Messages, Statuses, Ids

LEMMA HandleStep ==
    ASSUME ConstantsOK, ShapeInv, NEW r \in requests, Handle(r)
    PROVE  company' \in Lists /\ \E a \in Messages : Becomes(r, a) /\ Answering(r, a)
  <1> USE DEF ShapeInv, RecordsOK
  <1>1. r \in Messages
    OBVIOUS
  <1>2. r.status = "sent" /\ InTurn(r)
    BY DEF Handle
  <1>3. /\ store' = store /\ urls' = urls /\ sent' = sent /\ edits' = edits
        /\ saved' = saved /\ removed' = removed
    BY DEF Handle
  <1>4. "done" \in Statuses /\ "failed" \in Statuses
    BY DEF Statuses
  <1>5. Nothing \in Lists /\ DOMAIN Nothing = {}
    BY NothingListed DEF Nothing
  <1>6. ASSUME NEW st \in Statuses, NEW u \in SUBSET Employees, NEW l \in Lists, Answer(r, st, u, l)
        PROVE  \E a \in Messages : /\ Becomes(r, a) /\ a.id = r.id
                                   /\ a.status = st /\ a.users = u /\ a.found = l
    <2> DEFINE a == [r EXCEPT !.status = st, !.users = u, !.found = l]
    <2>1. /\ a \in Messages /\ a.n = r.n /\ a.kind = r.kind /\ a.form = r.form /\ a.query = r.query
          /\ a.id = r.id /\ a.status = st /\ a.users = u /\ a.found = l
      BY <1>1 DEF Messages
    <2>2. requests' = (requests \ {r}) \cup {a}
      BY <1>6 DEF Answer
    <2> HIDE DEF a
    <2>3. Becomes(r, a)
      BY <1>2, <1>3, <2>1, <2>2 DEF Becomes
    <2> QED
      BY <2>1, <2>3
  <1>7. ASSUME r.kind = "list", UNCHANGED company,
               Answer(r, "done", {}, [c \in DOMAIN company \cap r.query |-> company[c]])
        PROVE  company' \in Lists /\ \E a \in Messages : Becomes(r, a) /\ Listing(r, a)
    <2>1. [c \in DOMAIN company \cap r.query |-> company[c]] \in Lists
      BY ServerTypes
    <2>2. \E a \in Messages : /\ Becomes(r, a) /\ a.id = r.id /\ a.status = "done" /\ a.users = {}
                              /\ a.found = [c \in DOMAIN company \cap r.query |-> company[c]]
      BY <1>4, <1>6, <1>7, <2>1
    <2> QED
      BY <1>7, <2>2 DEF Listing
  <1>8. ASSUME r.kind = "users", UNCHANGED company,
               Answer(r, "done", IF r.id \in DOMAIN company THEN Staff[r.id] ELSE {}, Nothing)
        PROVE  company' \in Lists /\ \E a \in Messages : Becomes(r, a) /\ Telling(r, a)
    <2> DEFINE u == IF r.id \in DOMAIN company THEN Staff[r.id] ELSE {}
    <2>1. r.id \in DOMAIN company => r.id \in Companies
      BY ListShape
    <2>2. u \in SUBSET Employees
      BY <2>1 DEF Employees
    <2> HIDE DEF u
    <2>3. \E a \in Messages : /\ Becomes(r, a) /\ a.id = r.id
                              /\ a.status = "done" /\ a.users = u /\ a.found = Nothing
      BY <1>4, <1>5, <1>6, <1>8, <2>2 DEF u
    <2> QED
      BY <1>5, <1>8, <2>3 DEF Telling, u
  <1>9. ASSUME r.kind = "save", r.id = None,
               NEW c \in Companies \ (DOMAIN company \cup removed \cup {q.id : q \in requests}),
               company' = Put(c, Content(r.form)),
               requests' = (requests \ {r}) \cup {[r EXCEPT !.status = "done", !.id = c]}
        PROVE  company' \in Lists /\ \E a \in Messages : Becomes(r, a) /\ Creating(r, a)
    <2> DEFINE a == [r EXCEPT !.status = "done", !.id = c]
    <2>1. /\ a \in Messages /\ a.n = r.n /\ a.kind = r.kind /\ a.form = r.form /\ a.query = r.query
          /\ a.id = c /\ a.status = "done" /\ a.users = r.users /\ a.found = r.found
      BY <1>1, CreatedType
    <2>2. requests' = (requests \ {r}) \cup {a}
      BY <1>9
    <2> HIDE DEF a
    <2>3. Becomes(r, a)
      BY <1>2, <1>3, <2>1, <2>2 DEF Becomes
    <2>4. \A q \in requests : q.id # c
      OBVIOUS
    <2>5. Creating(r, a)
      BY <1>9, <2>1, <2>4 DEF Creating
    <2>6. r.form \in Forms
      BY <1>1, <1>9 DEF RequestsOK, Messages
    <2>7. company' \in Lists
      BY <1>9, <2>6, ContentType, PutType
    <2> QED
      BY <2>1, <2>3, <2>5, <2>7
  <1>10. ASSUME r.kind \in {"save", "approve", "delete"}, UNCHANGED company,
                Answer(r, "failed", {}, Nothing)
         PROVE  company' \in Lists /\ \E a \in Messages : Becomes(r, a) /\ Refusing(r, a)
    <2>1. \E a \in Messages : /\ Becomes(r, a) /\ a.id = r.id
                              /\ a.status = "failed" /\ a.users = {} /\ a.found = Nothing
      BY <1>4, <1>5, <1>6, <1>10
    <2> QED
      BY <1>5, <1>10, <2>1 DEF Refusing
  <1>11. ASSUME r.id \in DOMAIN company, Answer(r, "done", {}, Nothing),
                \/ /\ r.kind = "save"
                   /\ company' = Put(r.id, Updated(r.form, company[r.id]))
                \/ r.kind = "approve" /\ company' = [company EXCEPT ![r.id].approved = TRUE]
                \/ r.kind = "delete" /\ company' = [c \in DOMAIN company \ {r.id} |-> company[c]]
         PROVE  company' \in Lists /\ \E a \in Messages : Becomes(r, a) /\ Changing(r, a)
    <2>1. \E a \in Messages : /\ Becomes(r, a) /\ a.id = r.id
                              /\ a.status = "done" /\ a.users = {} /\ a.found = Nothing
      BY <1>4, <1>5, <1>6, <1>11
    <2>2. \E a \in Messages : Becomes(r, a) /\ Changing(r, a)
      BY <1>5, <1>11, <2>1 DEF Changing
    <2>3. CASE r.kind = "save"
      <3>1. r.form \in Forms
        BY <1>1, <2>3 DEF RequestsOK, Messages
      <3>2. r.id \in Companies /\ company[r.id] \in Records
        BY <1>11, ListShape
      <3>3. Updated(r.form, company[r.id]) \in Records
        BY <3>1, <3>2, UpdatedType
      <3>4. company' = Put(r.id, Updated(r.form, company[r.id]))
        BY <1>11, <2>3
      <3> QED
        BY <2>2, <3>2, <3>3, <3>4, PutType
    <2>4. CASE r.kind = "approve"
      BY <1>11, <2>2, <2>4, ServerTypes
    <2>5. CASE r.kind = "delete"
      BY <1>11, <2>2, <2>5, ServerTypes
    <2> QED
      BY <1>11, <2>3, <2>4, <2>5
  <1> QED
    BY <1>7, <1>8, <1>9, <1>10, <1>11, Zenon DEF Handle, Answering

\* The list arrives.
LEMMA CompaniesFetchedStep ==
    ASSUME NEW r \in requests, CompaniesFetched(r)
    PROVE  /\ r.kind = "list" /\ r.status = "done" /\ InTurn(r) /\ Kept /\ edits' = edits
           /\ urls' = urls /\ sent' = sent /\ requests' = requests \ {r}
           /\ store' = SetupCompanies(store, r.found)
  BY DEF CompaniesFetched, Kept

\* The users arrive.
LEMMA UsersFetchedStep ==
    ASSUME NEW r \in requests, CompanyUsersFetched(r)
    PROVE  /\ r.kind = "users" /\ r.status = "done" /\ InTurn(r) /\ Kept /\ edits' = edits
           /\ urls' = urls /\ sent' = sent /\ requests' = requests \ {r}
           /\ store' = GetCompanyUsers(store, r.users)
  BY DEF CompanyUsersFetched, Kept

\* What the administrator asked for was not done.
LEMMA FailedStep ==
    ASSUME NEW r \in requests, Failed(r)
    PROVE  /\ r.status = "failed" \/ (MayFail /\ r.status = "sent" /\ r.kind \in {"list", "users"})
           /\ Kept /\ edits' = edits /\ urls' = urls
           /\ sent' = sent /\ requests' = requests \ {r} /\ store' = SetError(store)
  BY DEF Failed, Kept

\* The list is asked for again.
Reloads(r, s) ==
    /\ store' = QueryCompanies(s) /\ sent' = sent + 1
    /\ requests' = (requests \ {r}) \cup {Request(sent + 1, "list", None, s)}

LEMMA AnsweredSteps ==
    ASSUME RecordsOK, NEW r \in requests
    PROVE  /\ PostAnswered(r) =>
                /\ r.kind = "save" /\ r.status = "done" /\ InTurn(r) /\ Reloads(r, CancelEdit(store))
                /\ company' = company /\ edits' = edits /\ removed' = removed /\ urls' = urls \cup {None}
                /\ saved' = saved \cup {[id |-> r.id, edit |-> e] : e \in r.form.edits}
           /\ ApproveAnswered(r) =>
                /\ r.kind = "approve" /\ r.status = "done" /\ InTurn(r) /\ Reloads(r, store)
                /\ Kept /\ edits' = edits /\ urls' = urls
           /\ DeleteAnswered(r) =>
                /\ r.kind = "delete" /\ r.status = "done" /\ InTurn(r) /\ Reloads(r, store)
                /\ company' = company /\ edits' = edits /\ saved' = saved /\ urls' = urls
                /\ removed' = removed \cup {r.id}
  <1>1. \A s : FetchCompanies(s, {r}) => Reloads(r, s)
    BY Fetching DEF Reloads, RecordsOK
  <1> QED
    BY <1>1 DEF PostAnswered, ApproveAnswered, DeleteAnswered, Kept

--------------------------------------------------------------------------------
(* Every record has its shape. *)

LEMMA FirstShape == ASSUME ConstantsOK, Init PROVE ShapeInv
  <1>1. PICK existing \in SUBSET Companies, pending \in SUBSET Companies :
            company = [c \in existing |-> [Blank EXCEPT !.approved = c \notin pending]]
    BY DEF Init
  <1>2. \A b \in BOOLEAN : [Blank EXCEPT !.approved = b] \in Records
    BY DEF Blank, Records, Managers
  <1>3. company \in [existing -> Records]
    BY <1>1, <1>2
  <1>4. company \in Lists
    BY <1>3, ListMade
  <1>5. store = [known |-> company, active |-> None, form |-> None, tab |-> "company-details",
                 users |-> {}, loading |-> FALSE, errors |-> FALSE, query |-> Companies]
    BY DEF Init
  <1>6. store \in Stores /\ store.form = None
    BY <1>4, <1>5 DEF Stores, Ids, TabNames
  <1> QED
    BY <1>4, <1>6 DEF Init, ShapeInv, RecordsOK, FormOK, RequestsOK, Ids

\* A request that is sent has what it needs.
LEMMA SentShape ==
    ASSUME RecordsOK, RequestsOK, NEW m \in Messages, m.status = "sent",
           m.kind \in {"users", "delete", "approve"} => m.id \in Companies,
           m.kind = "save" => m.form # None,
           NEW rest \in SUBSET requests, requests' = rest \cup {m}
    PROVE  requests' \subseteq Messages /\ RequestsOK'
  BY DEF RecordsOK, RequestsOK

\* Quiet steps and steps that send keep the requests what they are.
LEMMA QuietShape ==
    ASSUME RecordsOK, RequestsOK, Quiet
    PROVE  requests' \subseteq Messages /\ RequestsOK' /\ sent' \in Nat
  BY DEF RecordsOK, RequestsOK, Quiet

LEMMA SendShape ==
    ASSUME RecordsOK, RequestsOK, NEW k \in Kinds, NEW c \in Ids, NEW s \in Stores,
           k \in {"users", "delete", "approve"} => c \in Companies, k = "save" => s.form # None,
           Sends(Request(sent + 1, k, c, s))
    PROVE  requests' \subseteq Messages /\ RequestsOK' /\ sent' \in Nat
  <1>1. sent + 1 \in Nat
    BY DEF RecordsOK
  <1> DEFINE m == Request(sent + 1, k, c, s)
  <1>2. m \in Messages /\ m.kind = k /\ m.id = c /\ m.form = s.form /\ m.status = "sent"
    BY <1>1, RequestType
  <1>3. requests' = requests \cup {m} /\ sent' = sent + 1
    BY DEF Sends
  <1> HIDE DEF m
  <1> QED
    BY <1>1, <1>2, <1>3, SentShape

LEMMA ReloadShape ==
    ASSUME RecordsOK, RequestsOK, NEW r \in requests, NEW s \in Stores, Reloads(r, s)
    PROVE  requests' \subseteq Messages /\ RequestsOK' /\ sent' \in Nat /\ store' \in Stores
  <1>1. sent + 1 \in Nat /\ None \in Ids /\ "list" \in Kinds
    BY DEF RecordsOK, Ids, Kinds
  <1> DEFINE m == Request(sent + 1, "list", None, s)
  <1>2. m \in Messages /\ m.kind = "list" /\ m.status = "sent"
    BY <1>1, RequestType
  <1>3. requests' = (requests \ {r}) \cup {m} /\ sent' = sent + 1 /\ store' = QueryCompanies(s)
    BY DEF Reloads
  <1> HIDE DEF m
  <1> QED
    BY <1>1, <1>2, <1>3, SentShape, StoreTypes

\* The forms that are opened.
LEMMA OpenedShape ==
    ASSUME ConstantsOK, ShapeInv, NEW c \in Companies, Opened(c)
    PROVE  store' \in Stores /\ FormOK' /\ requests' \subseteq Messages /\ RequestsOK' /\ sent' \in Nat
  <1>1. store \in Stores
    BY DEF ShapeInv, RecordsOK
  <1>2. store' = SelectCompany(store, c)
    BY DEF Opened
  <1>3. store' \in Stores
    BY <1>1, <1>2, SelectType
  <1>4. requests' \subseteq Messages /\ RequestsOK' /\ sent' \in Nat
    <2>1. CASE Quiet
      BY <2>1, QuietShape DEF ShapeInv
    <2>2. CASE Sends(Request(sent + 1, "users", c, store))
      <3>1. c \in Ids /\ "users" \in Kinds
        BY DEF Ids, Kinds
      <3> QED
        BY <1>1, <2>2, <3>1, SendShape DEF ShapeInv
    <2> QED
      BY <2>1, <2>2 DEF Opened
  <1>5. FormOK'
    <2>1. store'.form = IF c \in DOMAIN store.known THEN Form(c, store.known[c]) ELSE Form(None, Blank)
      BY <1>1, <1>2 DEF SelectCompany, Stores
    <2>2. store'.tab = IF store.form = None \/ store.form.id # c THEN "company-details" ELSE store.tab
      BY <1>1, <1>2 DEF SelectCompany, Stores
    <2>3. c # None
      BY DEF ConstantsOK
    <2>4. CASE c \in DOMAIN store.known
      <3>1. store'.form.id = c
        BY <2>1, <2>4 DEF Form
      <3>2. store'.tab \in TabNames
        BY <1>3 DEF Stores
      <3>3. \/ store'.tab = "company-details"
            \/ store.form # None /\ store.form.id = c /\ store'.tab = store.tab
        BY <2>2
      <3>4. store.form # None /\ store.form.id = c =>
                store.tab \in {"company-details", "users", "permissions"}
                                  \cup (IF ApiEnabled THEN {"api"} ELSE {})
        BY <2>3 DEF ShapeInv, FormOK, Tabs
      <3> QED
        BY <2>3, <3>1, <3>3, <3>4 DEF FormOK, Tabs
    <2>5. CASE c \notin DOMAIN store.known
      <3>1. store'.form.id = None /\ store'.form.approved /\ store'.form.admin = None
        BY <2>1, <2>5 DEF Form, Blank
      <3> QED
        BY <2>2, <2>5, <3>1 DEF FormOK, Tabs, Opened
    <2> QED
      BY <2>4, <2>5
  <1> QED
    BY <1>3, <1>4, <1>5

LEMMA SelectShape ==
    ASSUME ConstantsOK, ShapeInv, NEW c \in Companies, Select(c)
    PROVE  ShapeInv'
  <1>1. Kept /\ edits' = edits /\ urls' = urls \cup {c} /\ Opened(c)
    BY SelectStep DEF ShapeInv
  <1>2. store' \in Stores /\ FormOK' /\ requests' \subseteq Messages /\ RequestsOK' /\ sent' \in Nat
    BY <1>1, OpenedShape
  <1> QED
    BY <1>1, <1>2 DEF ShapeInv, RecordsOK, Kept, Ids

LEMMA GoToShape ==
    ASSUME ConstantsOK, ShapeInv, NEW c \in urls, GoTo(c)
    PROVE  ShapeInv'
  <1>1. Kept /\ edits' = edits /\ urls' = urls
    BY GoToStep DEF ShapeInv
  <1>2. store' \in Stores /\ FormOK' /\ requests' \subseteq Messages /\ RequestsOK' /\ sent' \in Nat
    <2>1. CASE c \in Companies /\ Opened(c)
      BY <2>1, OpenedShape
    <2>2. CASE Quiet /\ store' = CancelEdit(store)
      <3>1. store' \in Stores /\ store'.form = None
        BY <2>2, StoreTypes DEF ShapeInv, RecordsOK, CancelEdit, Stores
      <3> QED
        BY <2>2, <3>1, QuietShape DEF ShapeInv, FormOK
    <2>3. CASE Quiet /\ store' = store
      <3>1. store' \in Stores /\ FormOK'
        BY <2>3 DEF ShapeInv, RecordsOK, FormOK, Tabs
      <3> QED
        BY <2>3, <3>1, QuietShape DEF ShapeInv
    <2> QED
      BY <2>1, <2>2, <2>3, GoToStep DEF ShapeInv
  <1> QED
    BY <1>1, <1>2 DEF ShapeInv, RecordsOK, Kept

\* Opening, filling in and closing a form.
LEMMA EditsShape ==
    ASSUME ConstantsOK, ShapeInv,
           New \/ Close \/ Edit \/ \E u \in Employees \union {None} : PickAdministrator(u)
    PROVE  ShapeInv'
  <1>1. store \in Stores
    BY DEF ShapeInv, RecordsOK
  <1>2. /\ Kept /\ Quiet /\ edits' \in Nat /\ urls' \in {urls, urls \cup {None}}
        /\ store' \in Stores /\ FormOK'
    <2>1. CASE New
      <3>1. Kept /\ Quiet /\ edits' = edits /\ urls' = urls /\ store' = NewCompany(store)
        BY <2>1, NewStep
      <3>2. store' \in Stores
        BY <1>1, <3>1, NewType
      <3>3. /\ store'.form.id = None /\ store'.form.approved /\ store'.form.admin = None
            /\ \/ store'.tab = "company-details"
               \/ store'.tab = store.tab /\ store.form # None /\ store.form.id = None
        BY <1>1, <3>1 DEF NewCompany, Stores, Form, Blank
      <3>4. FormOK'
        BY <3>3 DEF FormOK, Tabs, ShapeInv
      <3> QED
        BY <3>1, <3>2, <3>4 DEF ShapeInv, RecordsOK
    <2>2. CASE Close
      <3>1. /\ Kept /\ Quiet /\ edits' = edits /\ urls' = urls \cup {None}
            /\ store' = CancelEdit(store)
        BY <2>2, CloseStep
      <3>2. store' \in Stores /\ store'.form = None
        BY <1>1, <3>1, StoreTypes DEF CancelEdit, Stores
      <3> QED
        BY <3>1, <3>2 DEF ShapeInv, RecordsOK, FormOK
    <2>3. CASE Edit
      <3>1. /\ Kept /\ Quiet /\ edits' = edits + 1 /\ urls' = urls
            /\ store.form # None /\ store' = EditCompany(store, edits)
        BY <2>3, EditStep
      <3>2. edits \in Nat
        BY DEF ShapeInv, RecordsOK
      <3>3. /\ store' \in Stores
            /\ store' = [store EXCEPT
                           !.form = [store.form EXCEPT !.edits = store.form.edits \cup {edits}],
                           !.errors = FALSE]
        BY <1>1, <3>1, <3>2, EditType
      <3>4. store.form \in Forms
        BY <1>1, <3>1 DEF Stores
      <3>5. /\ store'.form.id = store.form.id /\ store'.form.approved = store.form.approved
            /\ store'.form.admin = store.form.admin /\ store'.tab = store.tab
        BY <1>1, <3>3, <3>4 DEF Stores, Forms
      <3>6. FormOK'
        BY <3>1, <3>5 DEF FormOK, Tabs, ShapeInv
      <3> QED
        BY <3>1, <3>2, <3>3, <3>6
    <2>4. ASSUME NEW u \in Employees \union {None}, PickAdministrator(u)
          PROVE  /\ Kept /\ Quiet /\ edits' \in Nat /\ urls' \in {urls, urls \cup {None}}
                 /\ store' \in Stores /\ FormOK'
      <3>1. /\ Kept /\ Quiet /\ edits' = edits /\ urls' = urls
            /\ store.form # None /\ store.form.id # None /\ store' = EditAdministrator(store, u)
        BY <2>4, PickStep
      <3>2. /\ store' \in Stores
            /\ store' = [store EXCEPT !.form = [store.form EXCEPT !.admin = u], !.errors = FALSE]
        BY <1>1, <3>1, PickType
      <3>3. store.form \in Forms
        BY <1>1, <3>1 DEF Stores
      <3>4. store'.form.id = store.form.id /\ store'.tab = store.tab
        BY <1>1, <3>2, <3>3 DEF Stores, Forms
      <3>5. FormOK'
        BY <3>1, <3>4 DEF FormOK, Tabs, ShapeInv
      <3> QED
        BY <3>1, <3>2, <3>5 DEF ShapeInv, RecordsOK
    <2> QED
      BY <2>1, <2>2, <2>3, <2>4
  <1>3. requests' \subseteq Messages /\ RequestsOK' /\ sent' \in Nat
    BY <1>2, QuietShape DEF ShapeInv
  <1> QED
    BY <1>2, <1>3 DEF ShapeInv, RecordsOK, Kept, Ids

\* What is asked of the server.
LEMMA AsksShape ==
    ASSUME ConstantsOK, ShapeInv,
           \/ Save \/ Delete \/ Approve
           \/ \E t \in Tabs(store) : OpenTab(t)
           \/ \E q \in Queries : Search(q)
    PROVE  ShapeInv'
  <1>1. store \in Stores
    BY DEF ShapeInv, RecordsOK
  <1>2. /\ {"users", "save", "delete", "approve", "list"} = Kinds
        /\ None \in Ids /\ Companies \subseteq Ids
    BY DEF Kinds, Ids
  <1>3. /\ Kept /\ edits' = edits /\ urls' \in {urls, urls \cup {None}} /\ store' \in Stores /\ FormOK'
        /\ requests' \subseteq Messages /\ RequestsOK' /\ sent' \in Nat
    <2>1. CASE Save
      <3>1. /\ Kept /\ edits' = edits /\ urls' = urls /\ store.form # None
            /\ \/ Quiet /\ store' = [SetError(store) EXCEPT !.tab = "company-details"]
               \/ store' = store /\ Sends(Request(sent + 1, "save", store.form.id, store))
        BY <2>1, SaveStep DEF ShapeInv
      <3>2. CASE Quiet /\ store' = [SetError(store) EXCEPT !.tab = "company-details"]
        <4>1. store' = [store EXCEPT !.errors = TRUE, !.tab = "company-details"]
          BY <3>2 DEF SetError
        <4>2. store' \in Stores /\ store'.form = store.form /\ store'.tab = "company-details"
          BY <1>1, <4>1 DEF Stores, TabNames
        <4>3. FormOK'
          BY <4>2 DEF FormOK, Tabs, ShapeInv
        <4> QED
          BY <3>1, <3>2, <4>2, <4>3, QuietShape DEF ShapeInv
      <3>3. CASE store' = store /\ Sends(Request(sent + 1, "save", store.form.id, store))
        <4>1. store.form.id \in Ids
          BY <1>1, <3>1 DEF Stores, Forms
        <4>2. requests' \subseteq Messages /\ RequestsOK' /\ sent' \in Nat
          BY <1>1, <1>2, <3>1, <3>3, <4>1, SendShape DEF ShapeInv
        <4>3. FormOK'
          BY <3>3 DEF FormOK, Tabs, ShapeInv
        <4> QED
          BY <1>1, <3>1, <3>3, <4>2, <4>3
      <3> QED
        BY <3>1, <3>2, <3>3
    <2>2. CASE Delete
      <3>1. /\ Kept /\ edits' = edits /\ urls' = urls \cup {None} /\ store.form.id \in Companies
            /\ store' = CancelEdit(store) /\ Sends(Request(sent + 1, "delete", store.form.id, store))
        BY <2>2, DeleteStep DEF ShapeInv
      <3>2. requests' \subseteq Messages /\ RequestsOK' /\ sent' \in Nat
        BY <1>1, <1>2, <3>1, SendShape DEF ShapeInv
      <3>3. store' \in Stores /\ store'.form = None
        BY <1>1, <3>1, StoreTypes DEF CancelEdit, Stores
      <3> QED
        BY <3>1, <3>2, <3>3 DEF FormOK
    <2>3. CASE Approve
      <3>1. /\ Kept /\ edits' = edits /\ urls' = urls /\ store.form.id \in Companies
            /\ store' = store /\ Sends(Request(sent + 1, "approve", store.form.id, store))
        BY <2>3, ApproveStep
      <3>2. requests' \subseteq Messages /\ RequestsOK' /\ sent' \in Nat
        BY <1>1, <1>2, <3>1, SendShape DEF ShapeInv
      <3> QED
        BY <1>1, <3>1, <3>2 DEF FormOK, Tabs, ShapeInv
    <2>4. ASSUME NEW t \in Tabs(store), OpenTab(t)
          PROVE  /\ Kept /\ edits' = edits /\ urls' \in {urls, urls \cup {None}}
                 /\ store' \in Stores /\ FormOK'
                 /\ requests' \subseteq Messages /\ RequestsOK' /\ sent' \in Nat
      <3>1. /\ Kept /\ edits' = edits /\ urls' = urls
            /\ store' = [store EXCEPT !.tab = t] /\ t \in TabNames
            /\ \/ Quiet
               \/ /\ store.form.id \in Companies
                  /\ Sends(Request(sent + 1, "users", store.form.id, store))
        BY <2>4, OpenTabStep
      <3>2. requests' \subseteq Messages /\ RequestsOK' /\ sent' \in Nat
        <4>1. CASE Quiet
          BY <4>1, QuietShape DEF ShapeInv
        <4>2. CASE /\ store.form.id \in Companies
                   /\ Sends(Request(sent + 1, "users", store.form.id, store))
          BY <1>1, <1>2, <4>2, SendShape DEF ShapeInv
        <4> QED
          BY <3>1, <4>1, <4>2
      <3>3. store' \in Stores /\ store'.form = store.form /\ store'.tab = t
        BY <1>1, <3>1 DEF Stores
      <3>4. FormOK'
        BY <2>4, <3>3 DEF FormOK, Tabs, ShapeInv
      <3> QED
        BY <3>1, <3>2, <3>3, <3>4
    <2>5. ASSUME NEW q \in Queries, Search(q)
          PROVE  /\ Kept /\ edits' = edits /\ urls' \in {urls, urls \cup {None}}
                 /\ store' \in Stores /\ FormOK'
                 /\ requests' \subseteq Messages /\ RequestsOK' /\ sent' \in Nat
      <3> DEFINE s == [store EXCEPT !.query = q]
      <3>1. /\ Kept /\ edits' = edits /\ urls' = urls /\ s \in Stores
            /\ store' = QueryCompanies(s) /\ Sends(Request(sent + 1, "list", None, s))
        BY <2>5, SearchStep DEF ShapeInv
      <3>2. s.form = store.form /\ s.tab = store.tab
        BY <1>1 DEF Stores
      <3> HIDE DEF s
      <3>3. requests' \subseteq Messages /\ RequestsOK' /\ sent' \in Nat
        BY <1>2, <3>1, SendShape DEF ShapeInv
      <3>4. store' \in Stores /\ store'.form = store.form /\ store'.tab = store.tab
        BY <3>1, <3>2, StoreTypes DEF QueryCompanies, Stores
      <3>5. FormOK'
        BY <3>4 DEF FormOK, Tabs, ShapeInv
      <3> QED
        BY <3>1, <3>3, <3>4, <3>5
    <2> QED
      BY <2>1, <2>2, <2>3, <2>4, <2>5
  <1> QED
    BY <1>3 DEF ShapeInv, RecordsOK, Kept, Ids

LEMMA HandleShape ==
    ASSUME ConstantsOK, ShapeInv, NEW r \in requests, Handle(r)
    PROVE  ShapeInv'
  <1>1. company' \in Lists
    BY HandleStep
  <1>2. PICK a \in Messages : Becomes(r, a) /\ Answering(r, a)
    BY HandleStep
  <1>3. requests' \subseteq Messages /\ RequestsOK'
    <2>1. requests' = (requests \ {r}) \cup {a} /\ a.kind = r.kind /\ a.form = r.form
      BY <1>2 DEF Becomes
    <2>2. a.id = r.id \/ (a.id \in Companies /\ r.kind = "save")
      BY <1>2 DEF Answering, Listing, Telling, Creating, Refusing, Changing
    <2>3. a.status = "done" \/ (a.status = "failed" /\ r.kind \notin {"list", "users"})
      BY <1>2 DEF Answering, Listing, Telling, Creating, Refusing, Changing
    <2> QED
      BY <2>1, <2>2, <2>3 DEF ShapeInv, RecordsOK, RequestsOK
  <1>4. store' = store /\ urls' = urls /\ sent' = sent /\ edits' = edits /\ removed' = removed
    BY <1>2 DEF Becomes
  <1>5. FormOK'
    BY <1>4 DEF FormOK, Tabs, ShapeInv
  <1> QED
    BY <1>1, <1>3, <1>4, <1>5 DEF ShapeInv, RecordsOK

LEMMA AnswersShape ==
    ASSUME ConstantsOK, ShapeInv, NEW r \in requests,
           \/ Failed(r) \/ CompaniesFetched(r) \/ CompanyUsersFetched(r)
           \/ PostAnswered(r) \/ ApproveAnswered(r) \/ DeleteAnswered(r)
    PROVE  ShapeInv'
  <1>1. store \in Stores /\ r \in Messages /\ company \in Lists /\ edits \in Nat /\ sent \in Nat
    BY DEF ShapeInv, RecordsOK
  <1>2. r.found \in Lists /\ r.users \in SUBSET Employees
    BY <1>1 DEF Messages
  <1>3. /\ CancelEdit(store).form = None
        /\ \A s \in Stores : QueryCompanies(s).form = s.form /\ QueryCompanies(s).tab = s.tab
        /\ SetError(store).form = store.form /\ SetError(store).tab = store.tab
        /\ \A l : SetupCompanies(store, l).form = store.form /\ SetupCompanies(store, l).tab = store.tab
        /\ \A us : /\ GetCompanyUsers(store, us).form = store.form
                   /\ GetCompanyUsers(store, us).tab = store.tab
    BY <1>1 DEF CancelEdit, QueryCompanies, SetError, SetupCompanies, GetCompanyUsers, Stores
  <1>4. ASSUME requests' = requests \ {r}, sent' = sent
        PROVE  requests' \subseteq Messages /\ RequestsOK' /\ sent' \in Nat
    BY <1>1, <1>4 DEF ShapeInv, RecordsOK, RequestsOK
  <1>5. ASSUME store'.form = None \/ (store'.form = store.form /\ store'.tab = store.tab)
        PROVE  FormOK'
    BY <1>5 DEF FormOK, Tabs, ShapeInv
  <1>6. /\ company' = company /\ edits' = edits /\ urls' \in {urls, urls \cup {None}}
        /\ removed' \subseteq Companies /\ store' \in Stores /\ FormOK'
        /\ requests' \subseteq Messages /\ RequestsOK' /\ sent' \in Nat
    <2>1. CASE Failed(r)
      <3>1. /\ Kept /\ edits' = edits /\ urls' = urls /\ sent' = sent /\ requests' = requests \ {r}
            /\ store' = SetError(store)
        BY <2>1, FailedStep
      <3> QED
        BY <1>1, <1>3, <1>4, <1>5, <3>1, StoreTypes DEF Kept, ShapeInv, RecordsOK
    <2>2. CASE CompaniesFetched(r)
      <3>1. /\ Kept /\ edits' = edits /\ urls' = urls /\ sent' = sent /\ requests' = requests \ {r}
            /\ store' = SetupCompanies(store, r.found)
        BY <2>2, CompaniesFetchedStep
      <3> QED
        BY <1>1, <1>2, <1>3, <1>4, <1>5, <3>1, StoreTypes DEF Kept, ShapeInv, RecordsOK
    <2>3. CASE CompanyUsersFetched(r)
      <3>1. /\ Kept /\ edits' = edits /\ urls' = urls /\ sent' = sent /\ requests' = requests \ {r}
            /\ store' = GetCompanyUsers(store, r.users)
        BY <2>3, UsersFetchedStep
      <3> QED
        BY <1>1, <1>2, <1>3, <1>4, <1>5, <3>1, StoreTypes DEF Kept, ShapeInv, RecordsOK
    <2>4. CASE PostAnswered(r)
      <3>1. /\ Reloads(r, CancelEdit(store))
            /\ company' = company /\ edits' = edits /\ removed' = removed /\ urls' = urls \cup {None}
        BY <2>4, AnsweredSteps DEF ShapeInv
      <3>2. CancelEdit(store) \in Stores
        BY <1>1, StoreTypes
      <3>3. requests' \subseteq Messages /\ RequestsOK' /\ sent' \in Nat /\ store' \in Stores
        BY <3>1, <3>2, ReloadShape DEF ShapeInv
      <3>4. store'.form = None
        BY <1>3, <3>1, <3>2 DEF Reloads
      <3> QED
        BY <1>5, <3>1, <3>3, <3>4 DEF ShapeInv, RecordsOK
    <2>5. CASE ApproveAnswered(r) \/ DeleteAnswered(r)
      <3>1. /\ Reloads(r, store) /\ company' = company /\ edits' = edits /\ urls' = urls
            /\ removed' = removed \/ (r.kind = "delete" /\ removed' = removed \cup {r.id})
        BY <2>5, AnsweredSteps DEF ShapeInv, Kept
      <3>2. requests' \subseteq Messages /\ RequestsOK' /\ sent' \in Nat /\ store' \in Stores
        BY <1>1, <3>1, ReloadShape DEF ShapeInv
      <3>3. store'.form = store.form /\ store'.tab = store.tab
        BY <1>1, <1>3, <3>1 DEF Reloads
      <3>4. removed' \subseteq Companies
        BY <3>1 DEF ShapeInv, RecordsOK, RequestsOK
      <3> QED
        BY <1>5, <3>1, <3>2, <3>3, <3>4
    <2> QED
      BY <2>1, <2>2, <2>3, <2>4, <2>5
  <1> QED
    BY <1>1, <1>6 DEF ShapeInv, RecordsOK, Ids

LEMMA ShapeKept == ASSUME ConstantsOK, ShapeInv, [Next]_vars PROVE ShapeInv'
  <1>1. CASE UNCHANGED vars
    BY <1>1 DEF vars, ShapeInv, RecordsOK, FormOK, Tabs, RequestsOK
  <1>2. CASE New \/ Close \/ Edit \/ \E u \in Employees \union {None} : PickAdministrator(u)
    BY <1>2, EditsShape
  <1>3. CASE \/ Save \/ Delete \/ Approve
             \/ \E t \in Tabs(store) : OpenTab(t)
             \/ \E q \in Queries : Search(q)
    BY <1>3, AsksShape
  <1>4. CASE \E c \in Companies : Select(c)
    BY <1>4, SelectShape
  <1>5. CASE \E c \in urls : GoTo(c)
    BY <1>5, GoToShape
  <1>6. CASE \E r \in requests : Handle(r)
    BY <1>6, HandleShape
  <1>7. CASE \E r \in requests : \/ Failed(r) \/ CompaniesFetched(r) \/ CompanyUsersFetched(r)
                                 \/ PostAnswered(r) \/ ApproveAnswered(r) \/ DeleteAnswered(r)
    BY <1>7, AnswersShape
  <1> QED
    BY <1>1, <1>2, <1>3, <1>4, <1>5, <1>6, <1>7, Zenon DEF Next

\* The store, the companies and the requests keep their shape: the open form is in a tab it
\* offers, and nothing but a new company is saved without an id.
THEOREM CompaniesTypeCorrect == ASSUME ConstantsOK PROVE Spec => []TypeOK
  <1>1. Init => ShapeInv
    BY FirstShape
  <1>2. ShapeInv /\ [Next]_vars => ShapeInv'
    BY ShapeKept
  <1>3. ShapeInv => TypeOK
    <2> SUFFICES ASSUME ShapeInv PROVE TypeOK
      OBVIOUS
    <2>1. DOMAIN company \subseteq Companies
      BY ListShape DEF ShapeInv, RecordsOK
    <2>2. store \in Stores
      BY DEF ShapeInv, RecordsOK
    <2>3. store.known \in Lists /\ store.users \subseteq Employees
      BY <2>2 DEF Stores
    <2>4. DOMAIN store.known \subseteq Companies
      BY <2>3, ListShape
    <2>5. store.form # None => store.form.id \in Ids
      BY <2>2 DEF Stores, Forms
    <2> QED
      BY <2>1, <2>3, <2>4, <2>5 DEF TypeOK, ShapeInv, RecordsOK, FormOK, RequestsOK, Ids
  <1> QED
    BY <1>1, <1>2, <1>3, PTL DEF Spec

--------------------------------------------------------------------------------
(* What the administrator does, what the server answers. *)

\* A request is sent.
Asked == \E m \in Messages : Sends(m) /\ m.n = sent + 1 /\ m.status = "sent"

LEMMA Asking ==
    ASSUME RecordsOK, NEW k \in Kinds, NEW c \in Ids, NEW s \in Stores,
           Sends(Request(sent + 1, k, c, s))
    PROVE  Asked
  <1>1. sent + 1 \in Nat
    BY DEF RecordsOK
  <1> DEFINE m == Request(sent + 1, k, c, s)
  <1>2. m \in Messages /\ m.n = sent + 1 /\ m.status = "sent"
    BY <1>1, RequestType
  <1> QED
    BY <1>2 DEF Asked

Client ==
    \/ New \/ Close \/ Edit \/ Save \/ Delete \/ Approve
    \/ \E c \in Companies : Select(c)
    \/ \E c \in urls : GoTo(c)
    \/ \E tab \in Tabs(store) : OpenTab(tab)
    \/ \E u \in Employees \union {None} : PickAdministrator(u)
    \/ \E query \in Queries : Search(query)

\* The list on the screen is changed by answers only, and each action sends at most one request.
ClientKeeps ==
    /\ Kept /\ Turn
    /\ store'.known = store.known /\ (store.loading => store'.loading)
    /\ Quiet \/ Asked

LEMMA OpenedKeeps ==
    ASSUME RecordsOK, NEW c \in Companies, Opened(c)
    PROVE  /\ store'.known = store.known /\ store'.loading = store.loading
           /\ Quiet \/ Asked
  <1>1. store \in Stores
    BY DEF RecordsOK
  <1>2. store' = SelectCompany(store, c) /\ (Quiet \/ Sends(Request(sent + 1, "users", c, store)))
    BY DEF Opened
  <1>3. store'.known = store.known /\ store'.loading = store.loading
    BY <1>1, <1>2 DEF SelectCompany, Stores
  <1>4. c \in Ids /\ "users" \in Kinds
    BY DEF Ids, Kinds
  <1> QED
    BY <1>1, <1>2, <1>3, <1>4, Asking

LEMMA ClientStep == ASSUME ConstantsOK, ShapeInv, Client PROVE ClientKeeps
  <1>1. store \in Stores /\ RecordsOK
    BY DEF ShapeInv, RecordsOK
  <1>2. /\ CancelEdit(store).known = store.known /\ CancelEdit(store).loading = store.loading
        /\ NewCompany(store).known = store.known /\ NewCompany(store).loading = store.loading
    BY <1>1 DEF CancelEdit, NewCompany, Stores
  <1>3. {"users", "save", "delete", "approve", "list"} = Kinds /\ None \in Ids /\ Companies \subseteq Ids
    BY DEF Kinds, Ids
  <1>4. CASE New
    BY <1>2, <1>4, NewStep DEF ClientKeeps
  <1>5. CASE Close
    BY <1>2, <1>5, CloseStep DEF ClientKeeps
  <1>6. CASE Edit
    <2>1. Kept /\ Turn /\ Quiet /\ store.form # None /\ store' = EditCompany(store, edits)
      BY <1>6, EditStep
    <2>2. edits \in Nat
      BY <1>1 DEF RecordsOK
    <2>3. store' = [store EXCEPT !.form = [store.form EXCEPT !.edits = store.form.edits \cup {edits}],
                                 !.errors = FALSE]
      BY <1>1, <2>1, <2>2, EditType
    <2>4. store'.known = store.known /\ store'.loading = store.loading
      BY <1>1, <2>3 DEF Stores
    <2> QED
      BY <2>1, <2>4 DEF ClientKeeps
  <1>7. CASE Save
    <2>1. /\ Kept /\ Turn /\ store.form # None
          /\ \/ Quiet /\ store' = [SetError(store) EXCEPT !.tab = "company-details"]
             \/ store' = store /\ Sends(Request(sent + 1, "save", store.form.id, store))
      BY <1>1, <1>7, SaveStep
    <2>2. store'.known = store.known /\ store'.loading = store.loading
      BY <1>1, <2>1 DEF SetError, Stores
    <2>3. store.form.id \in Ids
      BY <1>1, <2>1 DEF Stores, Forms
    <2>4. Quiet \/ Asked
      BY <1>1, <1>3, <2>1, <2>3, Asking
    <2> QED
      BY <2>1, <2>2, <2>4 DEF ClientKeeps
  <1>8. CASE Delete
    <2>1. /\ Kept /\ Turn /\ store.form.id \in Companies /\ store' = CancelEdit(store)
          /\ Sends(Request(sent + 1, "delete", store.form.id, store))
      BY <1>1, <1>8, DeleteStep
    <2>2. Asked
      BY <1>1, <1>3, <2>1, Asking
    <2> QED
      BY <1>2, <2>1, <2>2 DEF ClientKeeps
  <1>9. CASE Approve
    <2>1. /\ Kept /\ Turn /\ store.form.id \in Companies /\ store' = store
          /\ Sends(Request(sent + 1, "approve", store.form.id, store))
      BY <1>9, ApproveStep
    <2>2. Asked
      BY <1>1, <1>3, <2>1, Asking
    <2> QED
      BY <2>1, <2>2 DEF ClientKeeps
  <1>10. CASE \E c \in Companies : Select(c)
    <2>1. PICK c \in Companies : Select(c)
      BY <1>10
    <2>2. Kept /\ Turn /\ Opened(c)
      BY <1>1, <2>1, SelectStep
    <2> QED
      BY <1>1, <2>2, OpenedKeeps DEF ClientKeeps
  <1>11. CASE \E c \in urls : GoTo(c)
    <2>1. PICK c \in urls : GoTo(c)
      BY <1>11
    <2>2. /\ Kept /\ Turn
          /\ \/ c \in Companies /\ Opened(c)
             \/ Quiet /\ store' = CancelEdit(store)
             \/ Quiet /\ store' = store
      BY <1>1, <2>1, GoToStep
    <2> QED
      BY <1>1, <1>2, <2>2, OpenedKeeps DEF ClientKeeps
  <1>12. CASE \E t \in Tabs(store) : OpenTab(t)
    <2>1. PICK t \in Tabs(store) : OpenTab(t)
      BY <1>12
    <2>2. /\ Kept /\ Turn /\ store' = [store EXCEPT !.tab = t]
          /\ \/ Quiet
             \/ /\ store.form.id \in Companies
                /\ Sends(Request(sent + 1, "users", store.form.id, store))
      BY <2>1, OpenTabStep
    <2>3. store'.known = store.known /\ store'.loading = store.loading
      BY <1>1, <2>2 DEF Stores
    <2>4. Quiet \/ Asked
      BY <1>1, <1>3, <2>2, Asking
    <2> QED
      BY <2>2, <2>3, <2>4 DEF ClientKeeps
  <1>13. CASE \E u \in Employees \union {None} : PickAdministrator(u)
    <2>1. PICK u \in Employees \union {None} : PickAdministrator(u)
      BY <1>13
    <2>2. Kept /\ Turn /\ Quiet /\ store.form # None /\ store' = EditAdministrator(store, u)
      BY <2>1, PickStep
    <2>3. store' = [store EXCEPT !.form = [store.form EXCEPT !.admin = u], !.errors = FALSE]
      BY <1>1, <2>2, PickType
    <2>4. store'.known = store.known /\ store'.loading = store.loading
      BY <1>1, <2>3 DEF Stores
    <2> QED
      BY <2>2, <2>4 DEF ClientKeeps
  <1>14. CASE \E q \in Queries : Search(q)
    <2>1. PICK q \in Queries : Search(q)
      BY <1>14
    <2> DEFINE s == [store EXCEPT !.query = q]
    <2>2. /\ Kept /\ Turn /\ s \in Stores /\ store' = QueryCompanies(s)
          /\ Sends(Request(sent + 1, "list", None, s))
      BY <1>1, <2>1, SearchStep
    <2>3. s.known = store.known
      BY <1>1 DEF Stores
    <2> HIDE DEF s
    <2>4. store'.known = store.known /\ store'.loading = TRUE
      BY <2>2, <2>3 DEF QueryCompanies, Stores
    <2>5. Asked
      BY <1>1, <1>3, <2>2, Asking
    <2> QED
      BY <2>2, <2>4, <2>5 DEF ClientKeeps
  <1> QED
    BY <1>4, <1>5, <1>6, <1>7, <1>8, <1>9, <1>10, <1>11, <1>12, <1>13, <1>14, Zenon DEF Client

\* Every step is the administrator's, an answer of the server, or the arrival of one.
LEMMA Steps ==
    ASSUME ConstantsOK, ShapeInv, [Next]_vars
    PROVE  \/ Client /\ ClientKeeps
           \/ \E r \in requests : \E a \in Messages : Becomes(r, a) /\ Answering(r, a)
           \/ \E r \in requests : \/ Failed(r) \/ CompaniesFetched(r) \/ CompanyUsersFetched(r)
                                  \/ PostAnswered(r) \/ ApproveAnswered(r) \/ DeleteAnswered(r)
           \/ UNCHANGED vars
  <1>1. CASE Client
    BY <1>1, ClientStep
  <1>2. CASE \E r \in requests : Handle(r)
    BY <1>2, HandleStep
  <1> QED
    BY <1>1, <1>2, Zenon DEF Next, Client

--------------------------------------------------------------------------------
(* A company whose deletion was answered is not offered again. *)

\* Requests are numbered as they are sent, and handled in that order.
InOrder ==
    /\ \A r \in requests : r.n \in 1 .. sent
    /\ \A r, o \in requests : r.n = o.n => r = o
    /\ \A r, o \in requests : r.status # "sent" /\ o.status = "sent" => r.n < o.n

\* A deleted company is on no list that arrives after the answer to the deletion.
GoneInv ==
    /\ removed \cap DOMAIN company = {}
    /\ \A d \in requests : d.kind = "delete" /\ d.status = "done" => d.id \notin DOMAIN company
    /\ \A d, r \in requests :
          /\ d.kind = "delete" /\ d.status = "done"
          /\ r.kind = "list" /\ r.status = "done" /\ d.n < r.n
          => d.id \notin DOMAIN r.found
    /\ \A r \in requests : r.kind = "list" /\ r.status = "done" => DOMAIN r.found \cap removed = {}
    /\ DeletedStaysGone

LEMMA InOrderKept ==
    ASSUME ConstantsOK, ~AnyOrder, ShapeInv, InOrder, [Next]_vars
    PROVE  InOrder'
  <1>1. sent \in Nat /\ requests \subseteq Messages /\ \A r \in requests : r.n \in Nat
    BY DEF ShapeInv, RecordsOK, Messages
  <1>2. ASSUME NEW rest \in SUBSET requests, NEW m, m.n = sent + 1, m.status = "sent",
               requests' = rest \cup {m}, sent' = sent + 1
        PROVE  InOrder'
    BY <1>1, <1>2 DEF InOrder
  <1>3. ASSUME requests' \subseteq requests, sent' = sent PROVE InOrder'
    BY <1>3 DEF InOrder
  <1>4. CASE ClientKeeps
    <2>1. CASE Quiet
      BY <1>3, <2>1 DEF Quiet
    <2>2. CASE Asked
      BY <1>2, <2>2 DEF Asked, Sends
    <2> QED
      BY <1>4, <2>1, <2>2 DEF ClientKeeps
  <1>5. ASSUME NEW r \in requests, NEW a \in Messages, Becomes(r, a), Answering(r, a)
        PROVE  InOrder'
    <2>1. /\ r.status = "sent" /\ a.n = r.n /\ requests' = (requests \ {r}) \cup {a} /\ sent' = sent
          /\ \A o \in requests : o.status = "sent" => o.n >= r.n
      BY <1>5 DEF Becomes, InTurn
    <2>2. a.status # "sent"
      BY <1>5 DEF Answering, Listing, Telling, Creating, Refusing, Changing
    <2>3. \A x \in requests' : x = a \/ (x \in requests /\ x.n # a.n)
      BY <2>1 DEF InOrder
    <2>4. \A x \in requests' : x.n \in 1 .. sent'
      BY <2>1 DEF InOrder
    <2>5. \A x, o \in requests' : x.n = o.n => x = o
      BY <2>3 DEF InOrder
    <2>6. \A x, o \in requests' : x.status # "sent" /\ o.status = "sent" => x.n < o.n
      <3> SUFFICES ASSUME NEW x \in requests', NEW o \in requests', x.status # "sent", o.status = "sent"
                   PROVE  x.n < o.n
        OBVIOUS
      <3>1. o \in requests /\ o.n # a.n
        BY <2>2, <2>3
      <3>2. r.n \in Nat /\ o.n \in Nat
        BY <1>1, <3>1
      <3>3. o.n >= r.n
        BY <2>1, <3>1
      <3>4. CASE x = a
        BY <2>1, <3>1, <3>2, <3>3, <3>4
      <3>5. CASE x \in requests
        BY <3>1, <3>5 DEF InOrder
      <3> QED
        BY <2>3, <3>4, <3>5
    <2> QED
      BY <2>4, <2>5, <2>6 DEF InOrder
  <1>6. ASSUME NEW r \in requests,
               \/ Failed(r) \/ CompaniesFetched(r) \/ CompanyUsersFetched(r)
               \/ PostAnswered(r) \/ ApproveAnswered(r) \/ DeleteAnswered(r)
        PROVE  InOrder'
    <2>1. CASE Failed(r) \/ CompaniesFetched(r) \/ CompanyUsersFetched(r)
      BY <1>3, <2>1, FailedStep, CompaniesFetchedStep, UsersFetchedStep
    <2>2. CASE PostAnswered(r) \/ ApproveAnswered(r) \/ DeleteAnswered(r)
      <3>1. PICK s \in Stores : Reloads(r, s)
        <4>1. store \in Stores /\ CancelEdit(store) \in Stores
          BY StoreTypes DEF ShapeInv, RecordsOK
        <4> QED
          BY <2>2, <4>1, AnsweredSteps DEF ShapeInv
      <3> DEFINE m == Request(sent + 1, "list", None, s)
      <3>2. m.n = sent + 1 /\ m.status = "sent"
        BY DEF Request
      <3>3. requests' = (requests \ {r}) \cup {m} /\ sent' = sent + 1
        BY <3>1 DEF Reloads
      <3> HIDE DEF m
      <3> QED
        BY <1>2, <3>2, <3>3
    <2> QED
      BY <1>6, <2>1, <2>2
  <1>7. CASE UNCHANGED vars
    BY <1>3, <1>7 DEF vars
  <1> QED
    BY <1>4, <1>5, <1>6, <1>7, Steps

\* A step that answers no request of the server keeps what is gone.
LEMMA GoneWhenAsked ==
    ASSUME ShapeInv, GoneInv, NEW rest \in SUBSET requests, NEW new,
           requests' = rest \cup new, \A m \in new : m.status # "done",
           company' = company, removed' = removed,
           Listed(store)' \cap removed = {}
    PROVE  GoneInv'
  BY DEF GoneInv, DeletedStaysGone

\* What the server does keeps what is gone.
LEMMA GoneKeptByServer ==
    ASSUME ConstantsOK, ~AnyOrder, ShapeInv, InOrder, GoneInv,
           NEW r \in requests, NEW a \in Messages, Becomes(r, a), Answering(r, a)
    PROVE  GoneInv'
  <1>1. /\ a.n = r.n /\ a.kind = r.kind /\ r.status = "sent" /\ store' = store /\ removed' = removed
        /\ requests' = (requests \ {r}) \cup {a}
    BY DEF Becomes
  <1>2. \A x \in requests' : x = a \/ x \in requests
    BY <1>1
  <1>3. DeletedStaysGone'
    BY <1>1 DEF GoneInv, DeletedStaysGone, Listed
  <1>4. CASE Listing(r, a)
    <2>1. /\ r.kind = "list" /\ company' = company
          /\ DOMAIN a.found = DOMAIN company \cap r.query
      BY <1>4 DEF Listing
    <2>2. removed' \cap DOMAIN company' = {}
      BY <1>1, <2>1 DEF GoneInv
    <2>3. \A d \in requests' : d.kind = "delete" /\ d.status = "done" => d.id \notin DOMAIN company'
      BY <1>1, <1>2, <2>1 DEF GoneInv
    <2>4. \A d, o \in requests' :
             /\ d.kind = "delete" /\ d.status = "done" /\ d.n < o.n
             /\ o.kind = "list" /\ o.status = "done"
             => d.id \notin DOMAIN o.found
      BY <1>1, <1>2, <2>1, <2>3 DEF GoneInv
    <2>5. \A o \in requests' : o.kind = "list" /\ o.status = "done" => DOMAIN o.found \cap removed' = {}
      BY <1>1, <1>2, <2>1 DEF GoneInv
    <2> QED
      BY <1>3, <2>2, <2>3, <2>4, <2>5 DEF GoneInv
  <1>5. CASE Telling(r, a) \/ Refusing(r, a) \/ Creating(r, a) \/ (Changing(r, a) /\ r.kind # "delete")
    <2>1. r.kind # "list" /\ ~ (a.kind = "delete" /\ a.status = "done")
      BY <1>1, <1>5 DEF Telling, Refusing, Creating, Changing
    <2>2. \/ DOMAIN company' = DOMAIN company
          \/ \E c \in Companies : /\ DOMAIN company' = DOMAIN company \cup {c} /\ c \notin removed
                                  /\ \A q \in requests : q.id # c
      <3>1. CASE Telling(r, a) \/ Refusing(r, a)
        BY <3>1 DEF Telling, Refusing
      <3>2. CASE Creating(r, a)
        BY <3>2 DEF Creating, Put
      <3>3. CASE Changing(r, a) /\ r.kind # "delete"
        <4>1. r.id \in DOMAIN company
          BY <3>3 DEF Changing
        <4>2. CASE company' = Put(r.id, Updated(r.form, company[r.id]))
          BY <4>1, <4>2 DEF Put
        <4>3. CASE company' = [company EXCEPT ![r.id].approved = TRUE]
          BY <4>3
        <4> QED
          BY <3>3, <4>2, <4>3 DEF Changing
      <3> QED
        BY <1>5, <3>1, <3>2, <3>3
    <2>3. removed' \cap DOMAIN company' = {}
      BY <1>1, <2>2 DEF GoneInv
    <2>4. \A d \in requests : d.kind = "delete" /\ d.status = "done" => d.id \notin DOMAIN company'
      BY <2>2 DEF GoneInv
    <2>5. \A d \in requests' : d.kind = "delete" /\ d.status = "done" => d.id \notin DOMAIN company'
      BY <1>2, <2>1, <2>4
    <2>6. \A d, o \in requests' :
             /\ d.kind = "delete" /\ d.status = "done" /\ d.n < o.n
             /\ o.kind = "list" /\ o.status = "done"
             => d.id \notin DOMAIN o.found
      BY <1>1, <1>2, <2>1 DEF GoneInv
    <2>7. \A o \in requests' : o.kind = "list" /\ o.status = "done" => DOMAIN o.found \cap removed' = {}
      BY <1>1, <1>2, <2>1 DEF GoneInv
    <2> QED
      BY <1>3, <2>3, <2>5, <2>6, <2>7 DEF GoneInv
  <1>6. CASE Changing(r, a) /\ r.kind = "delete"
    <2>1. DOMAIN company' = DOMAIN company \ {r.id} /\ a.id = r.id
      BY <1>6 DEF Changing
    <2>2. removed' \cap DOMAIN company' = {}
      BY <1>1, <2>1 DEF GoneInv
    <2>3. \A d \in requests' : d.kind = "delete" /\ d.status = "done" => d.id \notin DOMAIN company'
      BY <1>2, <2>1 DEF GoneInv
    <2>4. \A o \in requests : o.kind = "list" /\ o.status = "done" => ~ (a.n < o.n)
      <3> SUFFICES ASSUME NEW o \in requests, o.kind = "list", o.status = "done"
                   PROVE  ~ (a.n < o.n)
        OBVIOUS
      <3>1. o.n < r.n
        BY <1>1 DEF InOrder
      <3>2. o.n \in Nat /\ r.n \in Nat
        BY DEF ShapeInv, RecordsOK, Messages
      <3> QED
        BY <1>1, <3>1, <3>2
    <2>5. \A d, o \in requests' :
             /\ d.kind = "delete" /\ d.status = "done" /\ d.n < o.n
             /\ o.kind = "list" /\ o.status = "done"
             => d.id \notin DOMAIN o.found
      BY <1>1, <1>2, <1>6, <2>4 DEF GoneInv
    <2>6. \A o \in requests' : o.kind = "list" /\ o.status = "done" => DOMAIN o.found \cap removed' = {}
      BY <1>1, <1>2, <1>6 DEF GoneInv
    <2> QED
      BY <1>3, <2>2, <2>3, <2>5, <2>6 DEF GoneInv
  <1> QED
    BY <1>4, <1>5, <1>6 DEF Answering

LEMMA GoneKept ==
    ASSUME ConstantsOK, ~AnyOrder, ShapeInv, InOrder, GoneInv, [Next]_vars
    PROVE  GoneInv'
  <1>1. store \in Stores
    BY DEF ShapeInv, RecordsOK
  <1>2. Listed(store) \cap removed = {}
    BY DEF GoneInv, DeletedStaysGone
  <1>3. CASE ClientKeeps
    <2>1. company' = company /\ removed' = removed /\ Listed(store)' \cap removed = {}
      BY <1>2, <1>3 DEF ClientKeeps, Kept, Listed
    <2>2. CASE Quiet
      <3>1. requests' = requests \cup {}
        BY <2>2 DEF Quiet
      <3> QED
        BY <2>1, <3>1, GoneWhenAsked
    <2>3. CASE Asked
      <3>1. PICK m \in Messages : Sends(m) /\ m.status = "sent"
        BY <2>3 DEF Asked
      <3>2. requests' = requests \cup {m} /\ \A x \in {m} : x.status # "done"
        BY <3>1 DEF Sends
      <3> QED
        BY <2>1, <3>2, GoneWhenAsked
    <2> QED
      BY <1>3, <2>2, <2>3 DEF ClientKeeps
  <1>4. ASSUME NEW r \in requests, NEW a \in Messages, Becomes(r, a), Answering(r, a)
        PROVE  GoneInv'
    BY <1>4, GoneKeptByServer
  <1>5. ASSUME NEW r \in requests, Failed(r) PROVE GoneInv'
    <2>1. Kept /\ requests' = requests \ {r} /\ store' = SetError(store)
      BY <1>5, FailedStep
    <2>2. Listed(store)' = Listed(store)
      BY <1>1, <2>1 DEF SetError, Listed, Stores
    <2>3. requests' = (requests \ {r}) \cup {} /\ company' = company /\ removed' = removed
      BY <2>1 DEF Kept
    <2> QED
      BY <1>2, <2>2, <2>3, GoneWhenAsked
  <1>6. ASSUME NEW r \in requests, CompaniesFetched(r) PROVE GoneInv'
    <2>1. /\ Kept /\ requests' = requests \ {r} /\ store' = SetupCompanies(store, r.found)
          /\ r.kind = "list" /\ r.status = "done"
      BY <1>6, CompaniesFetchedStep
    <2>2. Listed(store)' = DOMAIN r.found
      BY <1>1, <2>1 DEF SetupCompanies, Listed, Stores
    <2>3. requests' = (requests \ {r}) \cup {} /\ company' = company /\ removed' = removed
      BY <2>1 DEF Kept
    <2>4. DOMAIN r.found \cap removed = {}
      BY <2>1 DEF GoneInv
    <2> QED
      BY <2>2, <2>3, <2>4, GoneWhenAsked
  <1>7. ASSUME NEW r \in requests, CompanyUsersFetched(r) PROVE GoneInv'
    <2>1. Kept /\ requests' = requests \ {r} /\ store' = GetCompanyUsers(store, r.users)
      BY <1>7, UsersFetchedStep
    <2>2. Listed(store)' = Listed(store)
      BY <1>1, <2>1 DEF GetCompanyUsers, Listed, Stores
    <2>3. requests' = (requests \ {r}) \cup {} /\ company' = company /\ removed' = removed
      BY <2>1 DEF Kept
    <2> QED
      BY <1>2, <2>2, <2>3, GoneWhenAsked
  <1>8. ASSUME NEW r \in requests, NEW s \in Stores, Reloads(r, s),
               company' = company, removed' = removed
        PROVE  GoneInv'
    <2>1. Listed(store)' = {}
      BY <1>8 DEF Reloads, QueryCompanies, Listed, Stores
    <2> DEFINE m == Request(sent + 1, "list", None, s)
    <2>2. m.status # "done"
      BY DEF Request
    <2>3. requests' = (requests \ {r}) \cup {m}
      BY <1>8 DEF Reloads
    <2> HIDE DEF m
    <2> QED
      BY <1>8, <2>1, <2>2, <2>3, GoneWhenAsked
  <1>9. ASSUME NEW r \in requests, PostAnswered(r) \/ ApproveAnswered(r) PROVE GoneInv'
    <2>1. CancelEdit(store) \in Stores
      BY <1>1, StoreTypes
    <2> QED
      BY <1>1, <1>8, <1>9, <2>1, AnsweredSteps DEF ShapeInv, Kept
  <1>10. ASSUME NEW r \in requests, DeleteAnswered(r) PROVE GoneInv'
    <2>1. /\ r.kind = "delete" /\ r.status = "done" /\ InTurn(r) /\ Reloads(r, store)
          /\ company' = company /\ removed' = removed \cup {r.id}
      BY <1>10, AnsweredSteps DEF ShapeInv
    <2>2. Listed(store)' = {}
      BY <1>1, <2>1 DEF Reloads, QueryCompanies, Listed, Stores
    <2> DEFINE m == Request(sent + 1, "list", None, store)
    <2>3. m.status # "done"
      BY DEF Request
    <2>4. requests' = (requests \ {r}) \cup {m}
      BY <2>1 DEF Reloads
    <2> HIDE DEF m
    <2>5. \A x \in requests' : x.status = "done" => x \in requests /\ r.n < x.n
      <3> SUFFICES ASSUME NEW x \in requests', x.status = "done" PROVE x \in requests /\ r.n < x.n
        OBVIOUS
      <3>1. x \in requests /\ x # r
        BY <2>3, <2>4
      <3>2. x.n >= r.n
        BY <2>1, <3>1 DEF InTurn
      <3>3. x.n # r.n /\ x.n \in Nat /\ r.n \in Nat
        BY <3>1 DEF InOrder, ShapeInv, RecordsOK, Messages
      <3> QED
        BY <3>1, <3>2, <3>3
    <2>6. removed' \cap DOMAIN company' = {}
      BY <2>1 DEF GoneInv
    <2>7. \A d \in requests' : d.kind = "delete" /\ d.status = "done" => d.id \notin DOMAIN company'
      BY <2>1, <2>5 DEF GoneInv
    <2>8. \A d, o \in requests' :
             /\ d.kind = "delete" /\ d.status = "done" /\ d.n < o.n
             /\ o.kind = "list" /\ o.status = "done"
             => d.id \notin DOMAIN o.found
      BY <2>5 DEF GoneInv
    <2>9. \A o \in requests' : o.kind = "list" /\ o.status = "done" => DOMAIN o.found \cap removed' = {}
      BY <2>1, <2>5 DEF GoneInv
    <2> QED
      BY <2>2, <2>6, <2>7, <2>8, <2>9 DEF GoneInv, DeletedStaysGone
  <1>11. CASE UNCHANGED vars
    BY <1>11 DEF vars, GoneInv, DeletedStaysGone, Listed
  <1> QED
    BY <1>3, <1>4, <1>5, <1>6, <1>7, <1>9, <1>10, <1>11, Steps

\* A company whose deletion was answered is not offered again when the server takes requests and
\* the page takes answers in their order, however many lists, saves and searches are under way:
\* a list made before the deletion arrives before its answer, which hides the list.
THEOREM GoneForGood == ASSUME ConstantsOK, ~AnyOrder PROVE Spec => []DeletedStaysGone
  <1> DEFINE Inv == ShapeInv /\ InOrder /\ GoneInv
  <1>1. Init => Inv
    <2> SUFFICES ASSUME Init PROVE Inv
      OBVIOUS
    <2>1. ShapeInv
      BY FirstShape
    <2>2. InOrder /\ GoneInv
      BY DEF Init, InOrder, GoneInv, DeletedStaysGone
    <2> QED
      BY <2>1, <2>2
  <1>2. Inv /\ [Next]_vars => Inv'
    BY ShapeKept, InOrderKept, GoneKept
  <1>3. Inv => DeletedStaysGone
    BY DEF GoneInv
  <1> QED
    BY <1>1, <1>2, <1>3, PTL DEF Spec

--------------------------------------------------------------------------------
(* An administrator who waits for every answer. *)

\* One request at a time.
OneRequest == \A r, o \in requests : r = o

\* What was saved is in a list, and in a form that shows the company.
Holds(list) == \A x \in saved : x.id \in DOMAIN list => x.edit \in list[x.id].edits
FormHolds(f) == f # None => \A x \in saved : x.id = f.id => x.edit \in f.edits

\* What was saved is in the list, unless it is being loaded, in the open form and in what it sends.
CurrentInv ==
    /\ Holds(store.known) \/ \E r \in requests : r.kind = "list"
    /\ \A r \in requests : r.kind = "list" /\ r.status = "done" => Holds(r.found)
    /\ FormHolds(store.form)
    /\ \A r \in requests : r.kind = "save" /\ r.status = "sent" => FormHolds(r.form) /\ r.id = r.form.id
    /\ \A r \in requests : r.kind = "save" /\ r.status = "done" =>
                              r.id \in DOMAIN company /\ r.form.edits \subseteq company[r.id].edits
    /\ OwnSavesStay
    /\ \A x \in saved : \/ x.id \in DOMAIN company \cup removed
                        \/ \E d \in requests : d.kind = "delete" /\ d.status = "done" /\ d.id = x.id

\* The administrators of a list, and of a form, work at their company.
WorksThere(list) == \A c \in DOMAIN list : list[c].admin # None => list[c].admin \in Staff[c]
FormWorks(f) == f # None /\ f.admin # None => f.id # None /\ f.admin \in Staff[f.id]

\* The users that were loaded last are those of the company in the form, unless they are on their way.
UsersOfForm == store.form # None /\ store.form.id # None => store.users \subseteq Staff[store.form.id]

StaffInv ==
    /\ AdministratorWorksThere /\ WorksThere(store.known) /\ FormWorks(store.form)
    /\ \A r \in requests : WorksThere(r.found) /\ FormWorks(r.form)
    /\ \A r \in requests : r.kind = "save" /\ r.status = "sent" => r.id = r.form.id
    /\ \A r \in requests : r.kind = "users" =>
          /\ store.form.id = r.id
          /\ r.status = "done" => r.users \subseteq Staff[r.id]
    /\ UsersOfForm \/ \E r \in requests : r.kind = "users"

--------------------------------------------------------------------------------
(* What the administrator does to the form, and what he sends with it. *)

\* What a step of his makes of the form.
Formed ==
    \/ store'.form = None \/ store'.form = store.form \/ store'.form = Form(None, Blank)
    \/ \E c \in DOMAIN store.known : /\ store'.form = Form(c, store.known[c])
                                     /\ \E m \in requests' : m.kind = "users"
    \/ /\ store.form # None
       /\ \E e \in Nat : store'.form = [store.form EXCEPT !.edits = store.form.edits \cup {e}]
    \/ /\ store.form # None /\ store.form.id # None
       /\ \E u \in store.users \union {None} : store'.form = [store.form EXCEPT !.admin = u]

\* A request is about the form that is open.
Wanted(m) ==
    /\ m.status = "sent" /\ m.form = store.form /\ DOMAIN m.found = {}
    /\ m.kind = "save" => m.id = store.form.id
    /\ m.kind = "users" => m.id = store'.form.id

ClientForms ==
    /\ Formed /\ store'.users = store.users
    /\ Quiet \/ \E m \in Messages : Sends(m) /\ Wanted(m)

LEMMA WantedRequest ==
    ASSUME RecordsOK, NEW k \in Kinds, NEW c \in Ids, NEW s \in Stores, s.form = store.form,
           k = "save" => c = store.form.id, k = "users" => c = store'.form.id,
           Sends(Request(sent + 1, k, c, s))
    PROVE  \E m \in Messages : Sends(m) /\ Wanted(m) /\ m.kind = k
  <1>1. sent + 1 \in Nat
    BY DEF RecordsOK
  <1> DEFINE m == Request(sent + 1, k, c, s)
  <1>2. /\ m \in Messages /\ m.kind = k /\ m.id = c /\ m.form = s.form /\ m.status = "sent"
        /\ DOMAIN m.found = {}
    BY <1>1, RequestType
  <1> HIDE DEF m
  <1>3. Wanted(m)
    BY <1>2 DEF Wanted
  <1> QED
    BY <1>2, <1>3 DEF m

LEMMA OpenedForms == ASSUME ConstantsOK, ShapeInv, NEW c \in Companies, Opened(c) PROVE ClientForms
  <1>1. store \in Stores /\ RecordsOK
    BY DEF ShapeInv, RecordsOK
  <1>2. store' = SelectCompany(store, c)
    BY DEF Opened
  <1>3. /\ store'.form = IF c \in DOMAIN store.known THEN Form(c, store.known[c]) ELSE Form(None, Blank)
        /\ store'.users = store.users
    BY <1>1, <1>2 DEF SelectCompany, Stores
  <1>4. CASE c \in DOMAIN store.known
    <2>1. c \in Ids /\ "users" \in Kinds /\ store'.form = Form(c, store.known[c]) /\ store'.form.id = c
      BY <1>3, <1>4 DEF Ids, Kinds, Form
    <2>2. Sends(Request(sent + 1, "users", c, store))
      BY <1>4 DEF Opened
    <2>3. PICK m \in Messages : Sends(m) /\ Wanted(m) /\ m.kind = "users"
      BY <1>1, <2>1, <2>2, WantedRequest
    <2>4. \E o \in requests' : o.kind = "users"
      BY <2>3 DEF Sends
    <2>5. Formed
      BY <1>4, <2>1, <2>4 DEF Formed
    <2> QED
      BY <1>3, <2>3, <2>5 DEF ClientForms
  <1>5. CASE c \notin DOMAIN store.known
    BY <1>3, <1>5 DEF ClientForms, Formed, Opened
  <1> QED
    BY <1>4, <1>5

LEMMA ClientFormsStep == ASSUME ConstantsOK, ShapeInv, Client PROVE ClientForms
  <1>1. store \in Stores /\ RecordsOK
    BY DEF ShapeInv, RecordsOK
  <1>2. {"users", "save", "delete", "approve", "list"} = Kinds /\ None \in Ids /\ Companies \subseteq Ids
    BY DEF Kinds, Ids
  <1>3. /\ CancelEdit(store).form = None /\ CancelEdit(store).users = store.users
        /\ NewCompany(store).form = Form(None, Blank) /\ NewCompany(store).users = store.users
    BY <1>1 DEF CancelEdit, NewCompany, Stores
  <1>4. CASE New
    BY <1>3, <1>4, NewStep DEF ClientForms, Formed
  <1>5. CASE Close
    BY <1>3, <1>5, CloseStep DEF ClientForms, Formed
  <1>6. CASE Edit
    <2>1. Quiet /\ store.form # None /\ store' = EditCompany(store, edits)
      BY <1>6, EditStep
    <2>2. edits \in Nat
      BY <1>1 DEF RecordsOK
    <2>3. store' = [store EXCEPT !.form = [store.form EXCEPT !.edits = store.form.edits \cup {edits}],
                                 !.errors = FALSE]
      BY <1>1, <2>1, <2>2, EditType
    <2>4. /\ store'.form = [store.form EXCEPT !.edits = store.form.edits \cup {edits}]
          /\ store'.users = store.users
      BY <1>1, <2>3 DEF Stores
    <2> QED
      BY <2>1, <2>2, <2>4 DEF ClientForms, Formed
  <1>7. CASE Save
    <2>1. /\ store.form # None
          /\ \/ Quiet /\ store' = [SetError(store) EXCEPT !.tab = "company-details"]
             \/ store' = store /\ Sends(Request(sent + 1, "save", store.form.id, store))
      BY <1>1, <1>7, SaveStep
    <2>2. store'.form = store.form /\ store'.users = store.users
      BY <1>1, <2>1 DEF SetError, Stores
    <2>3. store.form.id \in Ids
      BY <1>1, <2>1 DEF Stores, Forms
    <2>4. Quiet \/ \E m \in Messages : Sends(m) /\ Wanted(m)
      BY <1>1, <1>2, <2>1, <2>3, WantedRequest
    <2> QED
      BY <2>2, <2>4 DEF ClientForms, Formed
  <1>8. CASE Delete
    <2>1. /\ store.form.id \in Companies /\ store' = CancelEdit(store)
          /\ Sends(Request(sent + 1, "delete", store.form.id, store))
      BY <1>1, <1>8, DeleteStep
    <2>2. \E m \in Messages : Sends(m) /\ Wanted(m)
      BY <1>1, <1>2, <2>1, WantedRequest
    <2> QED
      BY <1>3, <2>1, <2>2 DEF ClientForms, Formed
  <1>9. CASE Approve
    <2>1. /\ store.form.id \in Companies /\ store' = store
          /\ Sends(Request(sent + 1, "approve", store.form.id, store))
      BY <1>9, ApproveStep
    <2>2. \E m \in Messages : Sends(m) /\ Wanted(m)
      BY <1>1, <1>2, <2>1, WantedRequest
    <2> QED
      BY <2>1, <2>2 DEF ClientForms, Formed
  <1>10. CASE \E c \in Companies : Select(c)
    BY <1>1, <1>10, SelectStep, OpenedForms
  <1>11. CASE \E c \in urls : GoTo(c)
    <2>1. PICK c \in urls : GoTo(c)
      BY <1>11
    <2>2. \/ c \in Companies /\ Opened(c)
          \/ Quiet /\ store' = CancelEdit(store)
          \/ Quiet /\ store' = store
      BY <1>1, <2>1, GoToStep
    <2>3. CASE c \in Companies /\ Opened(c)
      BY <2>3, OpenedForms
    <2>4. CASE Quiet /\ (store' = CancelEdit(store) \/ store' = store)
      BY <1>3, <2>4 DEF ClientForms, Formed
    <2> QED
      BY <2>2, <2>3, <2>4
  <1>12. CASE \E t \in Tabs(store) : OpenTab(t)
    <2>1. PICK t \in Tabs(store) : OpenTab(t)
      BY <1>12
    <2>2. /\ store' = [store EXCEPT !.tab = t]
          /\ \/ Quiet
             \/ /\ store.form.id \in Companies
                /\ Sends(Request(sent + 1, "users", store.form.id, store))
      BY <2>1, OpenTabStep
    <2>3. store'.form = store.form /\ store'.users = store.users
      BY <1>1, <2>2 DEF Stores
    <2>4. Quiet \/ \E m \in Messages : Sends(m) /\ Wanted(m)
      BY <1>1, <1>2, <2>2, <2>3, WantedRequest
    <2> QED
      BY <2>3, <2>4 DEF ClientForms, Formed
  <1>13. CASE \E u \in Employees \union {None} : PickAdministrator(u)
    <2>1. PICK u \in Employees \union {None} : PickAdministrator(u)
      BY <1>13
    <2>2. /\ Quiet /\ store.form # None /\ store.form.id # None /\ u \in store.users \union {None}
          /\ store' = EditAdministrator(store, u)
      BY <2>1, PickStep
    <2>3. store' = [store EXCEPT !.form = [store.form EXCEPT !.admin = u], !.errors = FALSE]
      BY <1>1, <2>2, PickType
    <2>4. store'.form = [store.form EXCEPT !.admin = u] /\ store'.users = store.users
      BY <1>1, <2>3 DEF Stores
    <2> QED
      BY <2>2, <2>4 DEF ClientForms, Formed
  <1>14. CASE \E q \in Queries : Search(q)
    <2>1. PICK q \in Queries : Search(q)
      BY <1>14
    <2> DEFINE s == [store EXCEPT !.query = q]
    <2>2. /\ s \in Stores /\ store' = QueryCompanies(s)
          /\ Sends(Request(sent + 1, "list", None, s))
      BY <1>1, <2>1, SearchStep
    <2>3. s.form = store.form /\ s.users = store.users
      BY <1>1 DEF Stores
    <2> HIDE DEF s
    <2>4. store'.form = store.form /\ store'.users = store.users
      BY <2>2, <2>3 DEF QueryCompanies, Stores
    <2>5. \E m \in Messages : Sends(m) /\ Wanted(m)
      BY <1>1, <1>2, <2>2, <2>3, WantedRequest
    <2> QED
      BY <2>4, <2>5 DEF ClientForms, Formed
  <1> QED
    BY <1>4, <1>5, <1>6, <1>7, <1>8, <1>9, <1>10, <1>11, <1>12, <1>13, <1>14, Zenon DEF Client

--------------------------------------------------------------------------------
(* What he saved stays. *)

LEMMA OneRequestKept ==
    ASSUME ConstantsOK, Waits, ShapeInv, OneRequest, [Next]_vars
    PROVE  OneRequest'
  <1>1. CASE ClientKeeps
    <2>1. requests = {}
      BY <1>1 DEF ClientKeeps, Turn
    <2> QED
      BY <1>1, <2>1 DEF ClientKeeps, Quiet, Asked, Sends, OneRequest
  <1>2. ASSUME NEW r \in requests, NEW a \in Messages, Becomes(r, a) PROVE OneRequest'
    BY <1>2 DEF Becomes, OneRequest
  <1>3. ASSUME NEW r \in requests,
               \/ Failed(r) \/ CompaniesFetched(r) \/ CompanyUsersFetched(r)
               \/ PostAnswered(r) \/ ApproveAnswered(r) \/ DeleteAnswered(r)
        PROVE  OneRequest'
    <2>1. CASE Failed(r) \/ CompaniesFetched(r) \/ CompanyUsersFetched(r)
      BY <2>1, FailedStep, CompaniesFetchedStep, UsersFetchedStep DEF OneRequest
    <2>2. CASE PostAnswered(r) \/ ApproveAnswered(r) \/ DeleteAnswered(r)
      <3>1. \E s : Reloads(r, s)
        BY <2>2, AnsweredSteps DEF ShapeInv
      <3> QED
        BY <3>1 DEF Reloads, OneRequest
    <2> QED
      BY <1>3, <2>1, <2>2
  <1>4. CASE UNCHANGED vars
    BY <1>4 DEF vars, OneRequest
  <1> QED
    BY <1>1, <1>2, <1>3, <1>4, Steps

\* A request that is answered is the only one.
LEMMA Alone == ASSUME OneRequest, NEW r \in requests PROVE requests = {r}
  BY DEF OneRequest

\* Nothing is on its way when the administrator acts.
LEMMA ActingAlone ==
    ASSUME Waits, ClientKeeps, ClientForms
    PROVE  /\ requests = {}
           /\ \A m \in requests' : m \in Messages /\ Wanted(m)
  BY DEF ClientKeeps, ClientForms, Turn, Quiet, Sends

LEMMA CurrentKeptByClient ==
    ASSUME ConstantsOK, Waits, ShapeInv, CurrentInv, ClientKeeps, ClientForms
    PROVE  CurrentInv'
  <1>1. /\ company' = company /\ removed' = removed /\ saved' = saved /\ store'.known = store.known
        /\ requests = {} /\ \A m \in requests' : m \in Messages /\ Wanted(m)
    BY ActingAlone DEF ClientKeeps, Kept
  <1>2. Holds(store.known) /\ FormHolds(store.form) /\ OwnSavesStay
    BY <1>1 DEF CurrentInv
  <1>3. \A x \in saved : x.id \in DOMAIN company \cup removed /\ x.id # None
    <2>1. DOMAIN company \subseteq Companies /\ removed \subseteq Companies
      BY ListShape DEF ShapeInv, RecordsOK
    <2> QED
      BY <1>1, <2>1 DEF CurrentInv, ConstantsOK
  <1>4. FormHolds(store'.form)
    <2>1. CASE store'.form = None \/ store'.form = store.form
      BY <1>2, <2>1 DEF FormHolds
    <2>2. CASE store'.form = Form(None, Blank)
      BY <1>3, <2>2 DEF FormHolds, Form, Blank
    <2>3. CASE \E c \in DOMAIN store.known : store'.form = Form(c, store.known[c])
      BY <1>2, <2>3 DEF FormHolds, Holds, Form
    <2>4. CASE store.form # None /\ \E e \in Nat :
                  store'.form = [store.form EXCEPT !.edits = store.form.edits \cup {e}]
      <3>1. store.form \in Forms
        BY <2>4 DEF ShapeInv, RecordsOK, Stores
      <3>2. store'.form.id = store.form.id /\ store.form.edits \subseteq store'.form.edits
        BY <2>4, <3>1 DEF Forms
      <3> QED
        BY <1>2, <2>4, <3>2 DEF FormHolds
    <2>5. CASE store.form # None /\ \E u \in store.users \union {None} : store'.form = [store.form EXCEPT !.admin = u]
      <3>1. store.form \in Forms
        BY <2>5 DEF ShapeInv, RecordsOK, Stores
      <3>2. store'.form.id = store.form.id /\ store'.form.edits = store.form.edits
        BY <2>5, <3>1 DEF Forms
      <3> QED
        BY <1>2, <2>5, <3>2 DEF FormHolds
    <2> QED
      BY <2>1, <2>2, <2>3, <2>4, <2>5 DEF ClientForms, Formed
  <1>5. Holds(store.known)' /\ FormHolds(store.form)' /\ OwnSavesStay'
    BY <1>1, <1>2, <1>4 DEF Holds, FormHolds, OwnSavesStay
  <1>6. \A r \in requests' : /\ r.status = "sent"
                             /\ r.kind = "save" => FormHolds(r.form)' /\ r.id = r.form.id
    BY <1>1, <1>2 DEF Wanted, FormHolds
  <1>7. \A x \in saved' : x.id \in DOMAIN company' \cup removed'
    BY <1>1, <1>3
  <1> QED
    BY <1>5, <1>6, <1>7 DEF CurrentInv

LEMMA CurrentKeptByServer ==
    ASSUME ConstantsOK, ShapeInv, OneRequest, CurrentInv,
           NEW r \in requests, NEW a \in Messages, Becomes(r, a), Answering(r, a)
    PROVE  CurrentInv'
  <1>1. /\ a.kind = r.kind /\ a.form = r.form /\ r.status = "sent" /\ store' = store
        /\ saved' = saved /\ removed' = removed /\ requests' = (requests \ {r}) \cup {a}
    BY DEF Becomes
  <1>2. requests = {r} /\ requests' = {a}
    BY <1>1, Alone
  <1>3. OwnSavesStay /\ \A x \in saved : x.id \in DOMAIN company \cup removed
    BY <1>1, <1>2 DEF CurrentInv
  <1>4. Holds(store.known)' \/ \E o \in requests' : o.kind = "list"
    BY <1>1, <1>2 DEF CurrentInv, Holds
  <1>5. FormHolds(store.form)'
    BY <1>1 DEF CurrentInv, FormHolds
  <1>6. CASE Listing(r, a)
    <2>1. /\ r.kind = "list" /\ company' = company /\ a.status = "done"
          /\ a.found = [c \in DOMAIN company \cap r.query |-> company[c]]
      BY <1>6 DEF Listing
    <2>2. Holds(a.found)'
      BY <1>1, <1>3, <2>1 DEF Holds, OwnSavesStay
    <2>3. OwnSavesStay' /\ \A x \in saved' : x.id \in DOMAIN company' \cup removed'
      BY <1>1, <1>3, <2>1 DEF OwnSavesStay
    <2> QED
      BY <1>1, <1>2, <1>4, <1>5, <2>1, <2>2, <2>3 DEF CurrentInv
  <1>7. CASE Telling(r, a) \/ Refusing(r, a)
    <2>1. /\ company' = company /\ r.kind # "list" /\ a.status # "sent"
          /\ a.status = "done" => r.kind # "save"
      BY <1>7 DEF Telling, Refusing
    <2>2. OwnSavesStay' /\ \A x \in saved' : x.id \in DOMAIN company' \cup removed'
      BY <1>1, <1>3, <2>1 DEF OwnSavesStay
    <2> QED
      BY <1>1, <1>2, <1>4, <1>5, <2>1, <2>2 DEF CurrentInv
  <1>8. CASE Creating(r, a)
    <2>1. /\ r.kind = "save" /\ a.status = "done" /\ a.id \notin DOMAIN company /\ a.id \notin removed
          /\ company' = Put(a.id, Content(r.form))
      BY <1>8 DEF Creating
    <2>2. /\ DOMAIN company' = DOMAIN company \cup {a.id} /\ company'[a.id].edits = r.form.edits
          /\ \A c \in DOMAIN company : company'[c] = company[c]
      BY <2>1 DEF Put, Content
    <2>3. \A x \in saved : x.id # a.id
      BY <1>3, <2>1
    <2>4. OwnSavesStay'
      BY <1>1, <1>3, <2>2, <2>3 DEF OwnSavesStay
    <2>5. \A x \in saved' : x.id \in DOMAIN company' \cup removed'
      BY <1>1, <1>3, <2>2
    <2> QED
      BY <1>1, <1>2, <1>4, <1>5, <2>1, <2>2, <2>4, <2>5 DEF CurrentInv
  <1>9. CASE Changing(r, a)
    <2>1. r.id \in DOMAIN company /\ a.id = r.id /\ a.status = "done" /\ r.kind # "list"
      BY <1>9 DEF Changing
    <2>2. company \in Lists /\ r \in Messages
      BY DEF ShapeInv, RecordsOK
    <2>3. CASE r.kind = "save"
      <3>1. r.form # None /\ FormHolds(r.form) /\ r.id = r.form.id
        BY <1>1, <2>3 DEF CurrentInv, ShapeInv, RequestsOK
      <3>2. r.form \in Forms
        BY <2>2, <3>1 DEF Messages
      <3> DEFINE d == Updated(r.form, company[r.id])
      <3>3. company' = Put(r.id, d) /\ d.edits = r.form.edits
        <4>1. company[r.id] \in Records
          BY <2>1, <2>2, ListShape
        <4> QED
          BY <1>9, <2>3, <3>2, <4>1, UpdatedType DEF Changing
      <3>4. /\ DOMAIN company' = DOMAIN company
            /\ \A c \in DOMAIN company : company'[c] = IF c = r.id THEN d ELSE company[c]
        <4> HIDE DEF d
        <4> QED
          BY <2>1, <3>3 DEF Put
      <3> HIDE DEF d
      <3>5. OwnSavesStay'
        BY <1>1, <1>3, <3>1, <3>3, <3>4 DEF OwnSavesStay, FormHolds
      <3>6. \A x \in saved' : x.id \in DOMAIN company' \cup removed'
        BY <1>1, <1>3, <3>4
      <3>7. a.id \in DOMAIN company' /\ a.form.edits \subseteq company'[a.id].edits
        BY <1>1, <2>1, <3>3, <3>4
      <3> QED
        BY <1>1, <1>2, <1>4, <1>5, <2>1, <3>5, <3>6, <3>7 DEF CurrentInv
    <2>4. CASE r.kind = "approve"
      <3>1. company' = [company EXCEPT ![r.id].approved = TRUE]
        BY <1>9, <2>4 DEF Changing
      <3>2. /\ DOMAIN company' = DOMAIN company
            /\ \A c \in DOMAIN company : company'[c].edits = company[c].edits
        BY <2>1, <2>2, <3>1, ServerTypes
      <3>3. OwnSavesStay' /\ \A x \in saved' : x.id \in DOMAIN company' \cup removed'
        BY <1>1, <1>3, <3>2 DEF OwnSavesStay
      <3> QED
        BY <1>1, <1>2, <1>4, <1>5, <2>1, <2>4, <3>3 DEF CurrentInv
    <2>5. CASE r.kind = "delete"
      <3>1. company' = [c \in DOMAIN company \ {r.id} |-> company[c]]
        BY <1>9, <2>5 DEF Changing
      <3>2. OwnSavesStay'
        BY <1>1, <1>3, <3>1 DEF OwnSavesStay
      <3>3. \A x \in saved' : x.id \in DOMAIN company' \cup removed' \/ a.id = x.id
        BY <1>1, <1>3, <2>1, <3>1
      <3> QED
        BY <1>1, <1>2, <1>4, <1>5, <2>1, <2>5, <3>2, <3>3 DEF CurrentInv
    <2> QED
      BY <1>9, <2>3, <2>4, <2>5 DEF Changing
  <1> QED
    BY <1>6, <1>7, <1>8, <1>9 DEF Answering

LEMMA CurrentKeptByAnswers ==
    ASSUME ConstantsOK, ~MayFail, ShapeInv, OneRequest, CurrentInv, NEW r \in requests,
           \/ Failed(r) \/ CompaniesFetched(r) \/ CompanyUsersFetched(r)
           \/ PostAnswered(r) \/ ApproveAnswered(r) \/ DeleteAnswered(r)
    PROVE  CurrentInv'
  <1>1. store \in Stores /\ requests = {r}
    BY Alone DEF ShapeInv, RecordsOK
  <1>2. /\ SetError(store).form = store.form /\ SetError(store).known = store.known
        /\ \A l : SetupCompanies(store, l).form = store.form /\ SetupCompanies(store, l).known = l
        /\ \A us : /\ GetCompanyUsers(store, us).form = store.form
                   /\ GetCompanyUsers(store, us).known = store.known
        /\ CancelEdit(store).form = None
    BY <1>1 DEF SetError, SetupCompanies, GetCompanyUsers, CancelEdit, Stores
  <1>3. FormHolds(store.form) /\ OwnSavesStay
    BY DEF CurrentInv
  <1>4. ASSUME Kept, requests' = requests \ {r}, Holds(store'.known), store'.form = store.form,
               r.kind # "delete" \/ r.status # "done"
        PROVE  CurrentInv'
    <2>1. requests' = {}
      BY <1>1, <1>4
    <2>2. Holds(store.known)' /\ FormHolds(store.form)' /\ OwnSavesStay'
      BY <1>3, <1>4 DEF Kept, Holds, FormHolds, OwnSavesStay
    <2>3. \A x \in saved' : x.id \in DOMAIN company' \cup removed'
      BY <1>1, <1>4 DEF CurrentInv, Kept
    <2> QED
      BY <2>1, <2>2, <2>3 DEF CurrentInv
  <1>5. CASE Failed(r)
    <2>1. r.status = "failed" /\ Kept /\ requests' = requests \ {r} /\ store' = SetError(store)
      BY <1>5, FailedStep
    <2>2. r.kind # "list"
      BY <2>1 DEF ShapeInv, RequestsOK
    <2>3. Holds(store'.known)
      BY <1>1, <1>2, <2>1, <2>2 DEF CurrentInv
    <2> QED
      BY <1>2, <1>4, <2>1, <2>3
  <1>6. CASE CompaniesFetched(r)
    <2>1. /\ r.kind = "list" /\ r.status = "done" /\ Kept /\ requests' = requests \ {r}
          /\ store' = SetupCompanies(store, r.found)
      BY <1>6, CompaniesFetchedStep
    <2>2. Holds(store'.known)
      BY <1>2, <2>1 DEF CurrentInv
    <2> QED
      BY <1>2, <1>4, <2>1, <2>2
  <1>7. CASE CompanyUsersFetched(r)
    <2>1. /\ r.kind = "users" /\ Kept /\ requests' = requests \ {r}
          /\ store' = GetCompanyUsers(store, r.users)
      BY <1>7, UsersFetchedStep
    <2>2. Holds(store'.known)
      BY <1>1, <1>2, <2>1 DEF CurrentInv
    <2> QED
      BY <1>2, <1>4, <2>1, <2>2
  <1>8. ASSUME NEW s \in Stores, Reloads(r, s), s.form = None \/ (s.form = store.form /\ saved' = saved),
               company' = company, OwnSavesStay', \A x \in saved' : x.id \in DOMAIN company \cup removed'
        PROVE  CurrentInv'
    <2> DEFINE m == Request(sent + 1, "list", None, s)
    <2>1. m.kind = "list" /\ m.status = "sent"
      BY DEF Request
    <2>2. requests' = {m} /\ store' = QueryCompanies(s)
      BY <1>1, <1>8 DEF Reloads
    <2> HIDE DEF m
    <2>3. store'.form = s.form
      BY <2>2 DEF QueryCompanies, Stores
    <2>4. FormHolds(store.form)'
      BY <1>3, <1>8, <2>3 DEF FormHolds
    <2> QED
      BY <1>8, <2>1, <2>2, <2>4 DEF CurrentInv
  <1>9. CASE PostAnswered(r)
    <2>1. /\ r.kind = "save" /\ r.status = "done" /\ Reloads(r, CancelEdit(store))
          /\ company' = company /\ removed' = removed
          /\ saved' = saved \cup {[id |-> r.id, edit |-> e] : e \in r.form.edits}
      BY <1>9, AnsweredSteps DEF ShapeInv
    <2>2. r.id \in DOMAIN company /\ r.form.edits \subseteq company[r.id].edits
      BY <2>1 DEF CurrentInv
    <2>3. OwnSavesStay'
      BY <1>3, <2>1, <2>2 DEF OwnSavesStay
    <2>4. \A x \in saved' : x.id \in DOMAIN company \cup removed'
      BY <1>1, <2>1, <2>2 DEF CurrentInv
    <2>5. CancelEdit(store) \in Stores
      BY <1>1, StoreTypes
    <2> QED
      BY <1>2, <1>8, <2>1, <2>3, <2>4, <2>5
  <1>10. CASE ApproveAnswered(r) \/ DeleteAnswered(r)
    <2>1. /\ Reloads(r, store) /\ company' = company /\ saved' = saved
          /\ \/ r.kind = "approve" /\ removed' = removed
             \/ r.kind = "delete" /\ removed' = removed \cup {r.id}
      BY <1>10, AnsweredSteps DEF ShapeInv, Kept
    <2>2. OwnSavesStay'
      BY <1>3, <2>1 DEF OwnSavesStay
    <2>3. \A x \in saved' : x.id \in DOMAIN company \cup removed'
      BY <1>1, <2>1 DEF CurrentInv
    <2> QED
      BY <1>1, <1>8, <2>1, <2>2, <2>3
  <1> QED
    BY <1>5, <1>6, <1>7, <1>9, <1>10

LEMMA CurrentKept ==
    ASSUME ConstantsOK, Waits, ~MayFail, ShapeInv, OneRequest, CurrentInv, [Next]_vars
    PROVE  CurrentInv'
  <1>1. CASE Client /\ ClientKeeps
    BY <1>1, ClientFormsStep, CurrentKeptByClient
  <1>2. CASE UNCHANGED vars
    BY <1>2 DEF vars, CurrentInv, Holds, FormHolds, OwnSavesStay
  <1> QED
    BY <1>1, <1>2, Steps, CurrentKeptByServer, CurrentKeptByAnswers

\* What the administrator saved and was told is saved is undone by no later form of his, when he
\* waits for every answer and no list fails: each form is filled from a list that was loaded after
\* the last save, or was open since and holds the edits itself.
THEOREM SavesOfHisOwnStay == ASSUME ConstantsOK, Waits, ~MayFail PROVE Spec => []OwnSavesStay
  <1> DEFINE Inv == ShapeInv /\ OneRequest /\ CurrentInv
  <1>1. Init => Inv
    <2> SUFFICES ASSUME Init PROVE Inv
      OBVIOUS
    <2>1. ShapeInv
      BY FirstShape
    <2>2. OneRequest /\ CurrentInv
      BY DEF Init, OneRequest, CurrentInv, Holds, FormHolds, OwnSavesStay
    <2> QED
      BY <2>1, <2>2
  <1>2. Inv /\ [Next]_vars => Inv'
    BY ShapeKept, OneRequestKept, CurrentKept
  <1>3. Inv => OwnSavesStay
    BY DEF CurrentInv
  <1> QED
    BY <1>1, <1>2, <1>3, PTL DEF Spec

--------------------------------------------------------------------------------
(* The administrators work where they administrate. *)

LEMMA StaffKeptByClient ==
    ASSUME ConstantsOK, Waits, ShapeInv, StaffInv, ClientKeeps, ClientForms
    PROVE  StaffInv'
  <1>1. /\ company' = company /\ store'.known = store.known /\ store'.users = store.users
        /\ requests = {} /\ \A m \in requests' : m \in Messages /\ Wanted(m)
    BY ActingAlone DEF ClientKeeps, ClientForms, Kept
  <1>2. /\ AdministratorWorksThere /\ WorksThere(store.known) /\ FormWorks(store.form) /\ UsersOfForm
    BY <1>1 DEF StaffInv
  <1>3. store.form # None => store.form \in Forms
    BY DEF ShapeInv, RecordsOK, Stores
  <1>4. /\ FormWorks(store'.form)
        /\ \/ store'.form # None /\ store'.form.id # None => store.users \subseteq Staff[store'.form.id]
           \/ \E m \in requests' : m.kind = "users"
    <2>1. CASE store'.form = None \/ store'.form = store.form
      BY <1>2, <2>1 DEF FormWorks, UsersOfForm
    <2>2. CASE store'.form = Form(None, Blank)
      BY <2>2 DEF FormWorks, Form, Blank
    <2>3. CASE \E c \in DOMAIN store.known : /\ store'.form = Form(c, store.known[c])
                                             /\ \E m \in requests' : m.kind = "users"
      <3>1. PICK c \in DOMAIN store.known : store'.form = Form(c, store.known[c])
        BY <2>3
      <3>2. store'.form.id = c /\ store'.form.admin = store.known[c].admin
        BY <3>1 DEF Form
      <3>3. c # None
        <4>1. store.known \in Lists
          BY DEF ShapeInv, RecordsOK, Stores
        <4> QED
          BY <4>1, ListShape DEF ConstantsOK
      <3> QED
        BY <1>2, <2>3, <3>2, <3>3 DEF FormWorks, WorksThere
    <2>4. CASE store.form # None /\ \E e \in Nat :
                  store'.form = [store.form EXCEPT !.edits = store.form.edits \cup {e}]
      <3>1. store'.form.id = store.form.id /\ store'.form.admin = store.form.admin
        BY <1>3, <2>4 DEF Forms
      <3> QED
        BY <1>2, <2>4, <3>1 DEF FormWorks, UsersOfForm
    <2>5. CASE /\ store.form # None /\ store.form.id # None
               /\ \E u \in store.users \union {None} : store'.form = [store.form EXCEPT !.admin = u]
      <3>1. PICK u \in store.users \union {None} : store'.form = [store.form EXCEPT !.admin = u]
        BY <2>5
      <3>2. store'.form.id = store.form.id /\ store'.form.admin = u
        BY <1>3, <2>5, <3>1 DEF Forms
      <3>3. store.users \subseteq Staff[store.form.id]
        BY <1>2, <2>5 DEF UsersOfForm
      <3> QED
        BY <2>5, <3>2, <3>3 DEF FormWorks
    <2> QED
      BY <2>1, <2>2, <2>3, <2>4, <2>5 DEF ClientForms, Formed
  <1>5. AdministratorWorksThere' /\ WorksThere(store.known)' /\ FormWorks(store.form)'
    BY <1>1, <1>2, <1>4 DEF AdministratorWorksThere, WorksThere, FormWorks
  <1>6. UsersOfForm' \/ \E m \in requests' : m.kind = "users"
    BY <1>1, <1>4 DEF UsersOfForm
  <1>7. \A m \in requests' : /\ WorksThere(m.found)' /\ FormWorks(m.form)'
                             /\ m.kind = "save" => m.id = m.form.id
                             /\ m.kind = "users" => store'.form.id = m.id /\ m.status # "done"
    BY <1>1, <1>2 DEF Wanted, WorksThere, FormWorks
  <1> QED
    BY <1>5, <1>6, <1>7 DEF StaffInv

LEMMA StaffKeptByServer ==
    ASSUME ConstantsOK, ShapeInv, OneRequest, StaffInv,
           NEW r \in requests, NEW a \in Messages, Becomes(r, a), Answering(r, a)
    PROVE  StaffInv'
  <1>1. /\ a.kind = r.kind /\ a.form = r.form /\ r.status = "sent" /\ store' = store
        /\ requests' = (requests \ {r}) \cup {a}
    BY DEF Becomes
  <1>2. requests = {r} /\ requests' = {a} /\ a.status # "sent"
    BY <1>1, Alone DEF Answering, Listing, Telling, Creating, Refusing, Changing
  <1>3. AdministratorWorksThere /\ FormWorks(r.form)
    BY DEF StaffInv
  <1>4. /\ WorksThere(store.known)' /\ FormWorks(store.form)' /\ FormWorks(a.form)'
        /\ UsersOfForm' \/ \E o \in requests' : o.kind = "users"
    BY <1>1, <1>2 DEF StaffInv, WorksThere, FormWorks, UsersOfForm
  <1>5. ASSUME AdministratorWorksThere', WorksThere(a.found),
               r.kind = "users" => a.id = r.id /\ a.users \subseteq Staff[r.id]
        PROVE  StaffInv'
    <2>1. r.kind = "users" => store.form.id = r.id
      BY DEF StaffInv
    <2>2. WorksThere(a.found)'
      BY <1>5 DEF WorksThere
    <2> QED
      BY <1>1, <1>2, <1>4, <1>5, <2>1, <2>2 DEF StaffInv
  <1>6. CASE Listing(r, a)
    <2>1. /\ r.kind = "list" /\ company' = company
          /\ a.found = [c \in DOMAIN company \cap r.query |-> company[c]]
      BY <1>6 DEF Listing
    <2>2. WorksThere(a.found)
      BY <1>3, <2>1 DEF WorksThere, AdministratorWorksThere
    <2>3. AdministratorWorksThere'
      BY <1>3, <2>1 DEF AdministratorWorksThere
    <2> QED
      BY <1>5, <2>1, <2>2, <2>3
  <1>7. CASE Telling(r, a) \/ Refusing(r, a)
    <2>1. /\ company' = company /\ DOMAIN a.found = {} /\ a.id = r.id
          /\ r.kind = "users" => a.users \subseteq Staff[r.id]
      BY <1>7 DEF Telling, Refusing
    <2>2. WorksThere(a.found)
      BY <2>1 DEF WorksThere
    <2>3. AdministratorWorksThere'
      BY <1>3, <2>1 DEF AdministratorWorksThere
    <2> QED
      BY <1>5, <2>1, <2>2, <2>3
  <1>8. CASE Creating(r, a)
    <2>1. /\ r.kind = "save" /\ r.id = None /\ a.found = r.found
          /\ company' = Put(a.id, Content(r.form))
      BY <1>8 DEF Creating
    <2>2. r.form # None /\ r.form.id = None /\ WorksThere(r.found)
      BY <1>1, <2>1 DEF StaffInv, ShapeInv, RequestsOK
    <2>3. r.form.admin = None
      BY <1>3, <2>2 DEF FormWorks
    <2>4. \A c \in DOMAIN company' : \/ company'[c].admin = None
                                     \/ c \in DOMAIN company /\ company'[c] = company[c]
      BY <2>1, <2>3 DEF Put, Content
    <2>5. AdministratorWorksThere'
      BY <1>3, <2>4 DEF AdministratorWorksThere
    <2> QED
      BY <1>5, <2>1, <2>2, <2>5
  <1>9. CASE Changing(r, a)
    <2>1. r.id \in DOMAIN company /\ r.kind # "users" /\ DOMAIN a.found = {}
      BY <1>9 DEF Changing
    <2>2. company \in Lists /\ r \in Messages
      BY DEF ShapeInv, RecordsOK
    <2>3. WorksThere(a.found)
      BY <2>1 DEF WorksThere
    <2>4. AdministratorWorksThere'
      <3>1. CASE r.kind = "save"
        <4>1. r.form # None /\ r.id = r.form.id
          BY <1>1, <3>1 DEF StaffInv, ShapeInv, RequestsOK
        <4>2. r.form \in Forms
          BY <2>2, <4>1 DEF Messages
        <4> DEFINE d == Updated(r.form, company[r.id])
        <4>3. company' = Put(r.id, d) /\ d.admin \in {r.form.admin, company[r.id].admin}
          <5>1. company[r.id] \in Records
            BY <2>1, <2>2, ListShape
          <5> QED
            BY <1>9, <3>1, <4>2, <5>1, UpdatedType DEF Changing
        <4> HIDE DEF d
        <4>4. /\ DOMAIN company' = DOMAIN company
              /\ \A c \in DOMAIN company : company'[c] = IF c = r.id THEN d ELSE company[c]
          BY <2>1, <4>3 DEF Put
        <4>5. d.admin # None => d.admin \in Staff[r.id]
          BY <1>3, <2>1, <4>1, <4>3 DEF FormWorks, AdministratorWorksThere
        <4> QED
          BY <1>3, <4>4, <4>5 DEF AdministratorWorksThere
      <3>2. CASE r.kind = "approve"
        <4>1. company' = [company EXCEPT ![r.id].approved = TRUE]
          BY <1>9, <3>2 DEF Changing
        <4>2. /\ DOMAIN company' = DOMAIN company
              /\ \A c \in DOMAIN company : company'[c].admin = company[c].admin
          BY <2>1, <2>2, <4>1, ServerTypes
        <4> QED
          BY <1>3, <4>2 DEF AdministratorWorksThere
      <3>3. CASE r.kind = "delete"
        <4>1. company' = [c \in DOMAIN company \ {r.id} |-> company[c]]
          BY <1>9, <3>3 DEF Changing
        <4> QED
          BY <1>3, <4>1 DEF AdministratorWorksThere
      <3> QED
        BY <1>9, <3>1, <3>2, <3>3 DEF Changing
    <2> QED
      BY <1>5, <2>1, <2>3, <2>4
  <1> QED
    BY <1>6, <1>7, <1>8, <1>9 DEF Answering

LEMMA StaffKeptByAnswers ==
    ASSUME ConstantsOK, ~MayFail, ShapeInv, OneRequest, StaffInv, NEW r \in requests,
           \/ Failed(r) \/ CompaniesFetched(r) \/ CompanyUsersFetched(r)
           \/ PostAnswered(r) \/ ApproveAnswered(r) \/ DeleteAnswered(r)
    PROVE  StaffInv'
  <1>1. store \in Stores /\ requests = {r}
    BY Alone DEF ShapeInv, RecordsOK
  <1>2. /\ AdministratorWorksThere /\ WorksThere(store.known) /\ FormWorks(store.form)
        /\ WorksThere(r.found) /\ (r.kind # "users" => UsersOfForm)
    BY <1>1 DEF StaffInv
  <1>3. ASSUME company' = company, requests' = {}, WorksThere(store'.known),
               store'.form = store.form, UsersOfForm'
        PROVE  StaffInv'
    <2>1. AdministratorWorksThere' /\ WorksThere(store.known)' /\ FormWorks(store.form)'
      BY <1>2, <1>3 DEF AdministratorWorksThere, WorksThere, FormWorks
    <2> QED
      BY <1>3, <2>1 DEF StaffInv
  <1>4. CASE Failed(r)
    <2>1. r.status = "failed" /\ Kept /\ requests' = requests \ {r} /\ store' = SetError(store)
      BY <1>4, FailedStep
    <2>2. r.kind # "users"
      BY <2>1 DEF ShapeInv, RequestsOK
    <2>3. store'.form = store.form /\ store'.known = store.known /\ store'.users = store.users
      BY <1>1, <2>1 DEF SetError, Stores
    <2>4. UsersOfForm'
      BY <1>2, <2>2, <2>3 DEF UsersOfForm
    <2> QED
      BY <1>1, <1>2, <1>3, <2>1, <2>3, <2>4 DEF Kept
  <1>5. CASE CompaniesFetched(r)
    <2>1. /\ r.kind = "list" /\ Kept /\ requests' = requests \ {r}
          /\ store' = SetupCompanies(store, r.found)
      BY <1>5, CompaniesFetchedStep
    <2>2. store'.form = store.form /\ store'.known = r.found /\ store'.users = store.users
      BY <1>1, <2>1 DEF SetupCompanies, Stores
    <2>3. UsersOfForm'
      BY <1>2, <2>1, <2>2 DEF UsersOfForm
    <2> QED
      BY <1>1, <1>2, <1>3, <2>1, <2>2, <2>3 DEF Kept
  <1>6. CASE CompanyUsersFetched(r)
    <2>1. /\ r.kind = "users" /\ r.status = "done" /\ Kept /\ requests' = requests \ {r}
          /\ store' = GetCompanyUsers(store, r.users)
      BY <1>6, UsersFetchedStep
    <2>2. store'.form = store.form /\ store'.known = store.known /\ store'.users = r.users
      BY <1>1, <2>1 DEF GetCompanyUsers, Stores
    <2>3. store.form.id = r.id /\ r.users \subseteq Staff[r.id]
      BY <2>1 DEF StaffInv
    <2>4. UsersOfForm'
      BY <2>2, <2>3 DEF UsersOfForm
    <2> QED
      BY <1>1, <1>2, <1>3, <2>1, <2>2, <2>4 DEF Kept
  <1>7. ASSUME NEW s \in Stores, Reloads(r, s), company' = company, s.known = store.known,
               s.users = store.users, s.form = None \/ s.form = store.form, r.kind # "users"
        PROVE  StaffInv'
    <2>1. PICK m : m = Request(sent + 1, "list", None, s)
      OBVIOUS
    <2>2. requests' = {m} /\ store' = QueryCompanies(s)
      BY <1>1, <1>7, <2>1 DEF Reloads
    <2>3. store'.form = s.form /\ store'.known = store.known /\ store'.users = store.users
      BY <1>7, <2>2 DEF QueryCompanies, Stores
    <2>4. AdministratorWorksThere' /\ WorksThere(store.known)' /\ FormWorks(store.form)'
      BY <1>2, <1>7, <2>3 DEF AdministratorWorksThere, WorksThere, FormWorks
    <2>5. UsersOfForm'
      BY <1>2, <1>7, <2>3 DEF UsersOfForm
    <2>6. m.kind = "list" /\ m.form = s.form /\ DOMAIN m.found = {}
      BY <2>1 DEF Request
    <2>7. WorksThere(m.found)' /\ FormWorks(m.form)'
      BY <1>2, <1>7, <2>6 DEF WorksThere, FormWorks
    <2> QED
      BY <2>2, <2>4, <2>5, <2>6, <2>7 DEF StaffInv
  <1>8. CASE PostAnswered(r) \/ ApproveAnswered(r) \/ DeleteAnswered(r)
    <2>1. /\ r.kind # "users" /\ company' = company
          /\ Reloads(r, CancelEdit(store)) \/ Reloads(r, store)
      BY <1>8, AnsweredSteps DEF ShapeInv, Kept
    <2>2. /\ CancelEdit(store) \in Stores /\ CancelEdit(store).form = None
          /\ CancelEdit(store).known = store.known /\ CancelEdit(store).users = store.users
      BY <1>1, StoreTypes DEF CancelEdit, Stores
    <2> QED
      BY <1>1, <1>7, <2>1, <2>2
  <1> QED
    BY <1>4, <1>5, <1>6, <1>8

LEMMA StaffKept ==
    ASSUME ConstantsOK, Waits, ~MayFail, ShapeInv, OneRequest, StaffInv, [Next]_vars
    PROVE  StaffInv'
  <1>1. CASE Client /\ ClientKeeps
    BY <1>1, ClientFormsStep, StaffKeptByClient
  <1>2. CASE UNCHANGED vars
    BY <1>2 DEF vars, StaffInv, AdministratorWorksThere, WorksThere, FormWorks, UsersOfForm
  <1> QED
    BY <1>1, <1>2, Steps, StaffKeptByServer, StaffKeptByAnswers

\* The monitoring administrator of a company works there, when the one who picks him waits for
\* every answer and none fails: the users of the company opened last are those offered in the
\* form, although the store keeps one list of users for all the forms.
THEOREM AdministratorsAreStaff ==
    ASSUME ConstantsOK, Waits, ~MayFail
    PROVE  Spec => []AdministratorWorksThere
  <1> DEFINE Inv == ShapeInv /\ OneRequest /\ StaffInv
  <1>1. Init => Inv
    <2> SUFFICES ASSUME Init PROVE Inv
      OBVIOUS
    <2>1. ShapeInv
      BY FirstShape
    <2>2. OneRequest
      BY DEF Init, OneRequest
    <2>3. \A c \in DOMAIN company : company[c].admin = None
      BY DEF Init, Blank
    <2>4. store.known = company /\ store.form = None /\ requests = {}
      BY DEF Init
    <2>5. StaffInv
      BY <2>3, <2>4 DEF StaffInv, AdministratorWorksThere, WorksThere, FormWorks, UsersOfForm
    <2> QED
      BY <2>1, <2>2, <2>5
  <1>2. Inv /\ [Next]_vars => Inv'
    BY ShapeKept, OneRequestKept, StaffKept
  <1>3. Inv => AdministratorWorksThere
    BY DEF StaffInv
  <1> QED
    BY <1>1, <1>2, <1>3, PTL DEF Spec

--------------------------------------------------------------------------------
(* The form of a user. *)

\* A user whose form is open, or was sent, is one the server has, with the type it has there.
OfAccount(user) == user.id # None => user.id \in DOMAIN account /\ user.type = account[user.id].type

\* What a click or a key can do to the form, and what it can send; a company's admin is not
\* offered the type.
FormFollows ==
    /\ UNCHANGED <<account, known, answer>>
    /\ form' # None =>
         \/ form'.id = None
         \/ form'.id \in DOMAIN known /\ form'.type = known[form'.id].type
         \/ /\ form # None /\ form'.id = form.id
            /\ Page!isCompanyAdmin => form'.type = form.type
    /\ Waits /\ requests' # requests => requests = {}
    /\ \/ requests' = requests
       \/ \E r : /\ requests' = requests \union {r} /\ form # None
                 /\ r.form.id = form.id /\ r.form.type = form.type
                 /\ ~r.checked /\ (r.kind = "delete" => form.id # Me)

\* What is sent is the form, but for its language.
LEMMA SentForm == ASSUME Page!Turn, form # None, NEW kind, Page!Send(kind)
                  PROVE  /\ Waits /\ requests' # requests => requests = {}
                         /\ \E r : /\ requests' = requests \union {r} /\ form # None
                                   /\ r.form.id = form.id /\ r.form.type = form.type /\ r.kind = kind
                                   /\ ~r.checked
  <1> DEFINE r == [n |-> sent + 1, kind |-> kind, form |-> Page!ToSend(form), picked |-> picked,
                   checked |-> FALSE]
  <1>1. requests' = requests \union {r}
    BY DEF Page!Send
  <1>2. Page!ToSend(form).id = form.id /\ Page!ToSend(form).type = form.type
    BY DEF Page!ToSend
  <1>4. r.form = Page!ToSend(form) /\ r.kind = kind /\ ~r.checked
    OBVIOUS
  <1>3. Waits /\ requests' # requests => requests = {}
    BY DEF Page!Turn
  <1> HIDE DEF r
  <1> QED
    BY <1>1, <1>2, <1>3, <1>4

LEMMA FormSteps ==
    ASSUME [Page!Next]_Page!vars
    PROVE  \/ \E r \in requests : Page!Answer(r)
           \/ \E r \in requests : Page!Accept(r)
           \/ \E w \in Users : Page!Validate(w)
           \/ FormFollows
  <1>1. CASE UNCHANGED Page!vars
    BY <1>1 DEF Page!vars, FormFollows
  <1>2. CASE \E u \in Users : Page!Select(u)
    BY <1>2 DEF Page!Select, Page!Become, FormFollows
  <1>3. ASSUME NEW f \in Page!Fields, NEW v \in 0 .. 2, Page!EditField(f, v) PROVE FormFollows
    <2>1. form # None /\ form' = [form EXCEPT !.data[f] = v]
      BY <1>3 DEF Page!EditField, Page!Edit, Page!Become
    <2>2. form'.id = form.id /\ form'.type = form.type
      BY <2>1
    <2> QED
      BY <1>3, <2>1, <2>2 DEF Page!EditField, Page!Edit, FormFollows
  <1>4. CASE \E t \in Page!Types : Page!EditType(t)
    BY <1>4 DEF Page!EditType, Page!TypeEditable, Page!Edit, Page!Become, FormFollows
  <1>5. CASE \E c \in Companies \union {None} : Page!EditCompany(c)
    BY <1>5 DEF Page!EditCompany, Page!Edit, Page!Become, FormFollows
  <1>6. CASE \E l \in Locales : Page!EditLocale(l)
    BY <1>6 DEF Page!EditLocale, Page!Edit, Page!Become, FormFollows
  <1>7. CASE Page!New \/ Page!Close
    BY <1>7 DEF Page!New, Page!Close, Page!Become, FormFollows
  <1>8. CASE Page!Save
    <2>1. UNCHANGED requests \/ Page!Send("save")
      BY <1>8 DEF Page!Save
    <2>2. form # None /\ Page!Turn /\ UNCHANGED <<account, known, form, answer>>
      BY <1>8 DEF Page!Save
    <2> QED
      BY <2>1, <2>2, SentForm DEF FormFollows
  <1>9. ASSUME NEW kind, Page!Press(kind), kind = "delete" => form.id # Me PROVE FormFollows
    <2>1. form # None /\ Page!Turn /\ Page!Send(kind) /\ UNCHANGED <<account, known, form, answer>>
      BY <1>9 DEF Page!Press
    <2> QED
      BY <1>9, <2>1, SentForm DEF FormFollows
  <1>10. CASE Page!ResendInvite \/ Page!ResetPassword \/ Page!Approve
    BY <1>9, <1>10 DEF Page!ResendInvite, Page!ResetPassword, Page!Approve
  <1>11. CASE Page!Delete
    BY <1>9, <1>11 DEF Page!Delete, Page!CanDelete
  <1> QED
    BY <1>1, <1>2, <1>3, <1>4, <1>5, <1>6, <1>7, <1>8, <1>10, <1>11 DEF Page!Next

\* What is saved for a user u by request r when the server agrees: a user of an
\* administrator or account manager has the type and company of the form; the admin of a
\* company changes neither, and creates users of his own.
LEMMA SavedCompany ==
    ASSUME Page!UserFormAssumption, Page!CompanyRequired, NEW r, ~Page!NoCompany(r), NEW u
    PROVE  Page!Saved(r, u).type # "administrator" => Page!Saved(r, u).company # None
  <1>2. CASE ~Page!isCompanyAdmin
    <2>1. "user_type" \in Page!Allowed /\ "company" \in Page!Allowed
      BY <1>2 DEF Page!Allowed
    <2>2. Page!Saved(r, u).type = r.form.type /\ Page!Saved(r, u).company = r.form.company
      BY <2>1, Zenon DEF Page!Saved
    <2> QED
      BY <1>2, <2>2 DEF Page!NoCompany
  <1>3. CASE Page!isCompanyAdmin
    <2>1. "user_type" \notin Page!Allowed /\ "company" \notin Page!Allowed
      BY <1>3 DEF Page!Allowed, Page!Fields, Page!Texts, Page!Boxes
    <2>2. CASE u \notin DOMAIN account
      <3> DEFINE old == [data |-> [f \in Page!Fields |-> 0], type |-> "public", locale |-> Default,
                         validated |-> FALSE, company |-> OwnCompany, etag |-> 0]
      <3>1. Page!Saved(r, u) = [data |-> [f \in Page!Fields |->
                                            IF f \in Page!UserFormFields \intersect Page!Allowed
                                            THEN r.form.data[f] ELSE old.data[f]],
                           type |-> old.type, company |-> old.company,
                           locale |-> r.form.locale, validated |-> old.validated, etag |-> old.etag + 1]
        BY <1>3, <2>1, <2>2, Zenon DEF Page!Saved
      <3>2. Page!Saved(r, u).company = OwnCompany
        BY <3>1
      <3>3. OwnCompany # None
        BY DEF Page!UserFormAssumption
      <3> QED
        BY <3>2, <3>3, Zenon
    <2>3. CASE u \in DOMAIN account
      <3>1. Page!Saved(r, u).type = account[u].type /\ Page!Saved(r, u).company = account[u].company
        BY <2>1, <2>3, Zenon DEF Page!Saved
      <3> QED
        BY <2>3, <3>1 DEF Page!CompanyRequired
    <2> QED
      BY <2>2, <2>3
  <1> QED
    BY <1>2, <1>3

\* A save that was accepted names a user and a company, and keeps his type but for administrators.
Agreed(r) ==
    /\ ~Page!NoCompany(r)
    /\ ~Page!isUserAdmin /\ r.form.id \in DOMAIN account => r.form.type = account[r.form.id].type
AcceptedInv == \A r \in requests : r.checked => r.kind = "save" /\ r.form.id # None /\ Agreed(r)

\* The invariant: the accounts are of users, and each that is not an administrator's has a company.
CompaniesKnown == DOMAIN account \subseteq Users /\ Page!CompanyRequired /\ AcceptedInv

LEMMA Approving ==
    ASSUME NEW r, r.kind = "save", ~r.checked, Page!Status(r) = 200
    PROVE  ~Page!NoCompany(r) /\ ~Page!TypeRefused(r)
  BY DEF Page!Status, Page!Verdict

\* What is saved was agreed to, now or when the save was accepted.
LEMMA Saving ==
    ASSUME Page!UserFormAssumption, CompaniesKnown, NEW r \in requests, Page!Answer(r), r.kind = "save",
           Page!Status(r) = 200
    PROVE  /\ Agreed(r)
           /\ r.form.id # None => r.form.id \in DOMAIN account
           /\ r.form.id = None => r.form.id \notin DOMAIN account
  <1>1. None \notin DOMAIN account
    BY DEF Page!UserFormAssumption, CompaniesKnown
  <1>2. CASE r.checked
    <2>1. Page!Exists(r)
      BY <1>2 DEF Page!Status
    <2> QED
      BY <1>1, <1>2, <2>1 DEF CompaniesKnown, AcceptedInv, Page!Exists
  <1>3. CASE ~r.checked
    <2>1. r.form.id = None
      BY <1>3 DEF Page!Answer
    <2>2. ~Page!NoCompany(r)
      BY <1>3, Approving
    <2> QED
      BY <1>1, <2>1, <2>2 DEF Agreed
  <1> QED
    BY <1>2, <1>3

\* The user a request saves: a new one, or the one of the form.
Target(r) == IF r.form.id = None THEN CHOOSE v \in Page!Unused : TRUE ELSE r.form.id

LEMMA SavedEffect ==
    ASSUME NEW r, Page!Answer(r), r.kind = "save", Page!Status(r) = 200
    PROVE  account' = [v \in DOMAIN account \union {Target(r)} |->
                         IF v = Target(r) THEN Page!Saved(r, Target(r)) ELSE account[v]]
  <1>1. account' = Page!Effect(r, Page!Status(r))
    BY DEF Page!Answer
  <1>2. Page!Effect(r, 200) = [v \in DOMAIN account \union {Target(r)} |->
                            IF v = Target(r) THEN Page!Saved(r, Target(r)) ELSE account[v]]
    BY DEF Page!Effect, Target
  <1> QED
    BY <1>1, <1>2

LEMMA SavedTarget ==
    ASSUME Page!UserFormAssumption, CompaniesKnown, NEW r \in requests, Page!Answer(r), r.kind = "save",
           Page!Status(r) = 200
    PROVE  /\ Target(r) \in Users
           /\ r.form.id = None => Target(r) \in Page!Unused
           /\ r.form.id # None => Target(r) = r.form.id
           /\ account' = [v \in DOMAIN account \union {Target(r)} |->
                            IF v = Target(r) THEN Page!Saved(r, Target(r)) ELSE account[v]]
  <1>1. account' = [v \in DOMAIN account \union {Target(r)} |->
                      IF v = Target(r) THEN Page!Saved(r, Target(r)) ELSE account[v]]
    BY SavedEffect
  <1>2. CASE r.form.id = None
    <2>1. Page!Unused # {}
      BY <1>2 DEF Page!Answer
    <2>2. \E v \in Page!Unused : TRUE
      BY <2>1
    <2>3. Target(r) \in Page!Unused
      BY <1>2, <2>2, Zenon DEF Target
    <2>4. Target(r) \in Users
      BY <2>3 DEF Page!Unused
    <2> QED
      BY <1>1, <1>2, <2>3, <2>4
  <1>3. CASE r.form.id # None
    <2>1. Target(r) = r.form.id
      BY <1>3 DEF Target
    <2>2. Target(r) \in Users
      BY <1>3, <2>1, Saving DEF CompaniesKnown
    <2> QED
      BY <1>1, <1>3, <2>1, <2>2
  <1> QED
    BY <1>2, <1>3

\* Whatever else is answered keeps types and companies, and adds nobody.
LEMMA OthersKeep ==
    ASSUME NEW r, r.kind # "save", NEW s, NEW v \in DOMAIN Page!Effect(r, s)
    PROVE  /\ v \in DOMAIN account
           /\ Page!Effect(r, s)[v].type = account[v].type
           /\ Page!Effect(r, s)[v].company = account[v].company
  <1> DEFINE approved == [account EXCEPT ![r.form.id].data["is_approved"] = 1,
                            ![r.form.id].data["is_enabled"] = 1, ![r.form.id].etag = @ + 1]
             left == [u \in DOMAIN account \ {r.form.id} |-> account[u]]
  <1>1. Page!Effect(r, s) \in {account, approved, left}
    BY DEF Page!Effect
  <1>2. CASE Page!Effect(r, s) = account
    BY <1>2
  <1>3. CASE Page!Effect(r, s) = approved
    BY <1>3
  <1>4. CASE Page!Effect(r, s) = left
    BY <1>4
  <1> QED
    BY <1>1, <1>2, <1>3, <1>4

LEMMA CompaniesKnownKept ==
    ASSUME Page!UserFormAssumption, CompaniesKnown, NEW r \in requests, Page!Answer(r)
    PROVE  DOMAIN account' \subseteq Users /\ Page!CompanyRequired'
  <1>1. account' = Page!Effect(r, Page!Status(r))
    BY DEF Page!Answer
  <1>2. CASE Page!Status(r) # 200
    BY <1>1, <1>2 DEF Page!Effect, CompaniesKnown, Page!CompanyRequired
  <1>3. CASE Page!Status(r) = 200 /\ r.kind = "save"
    <2> DEFINE u == Target(r)
    <2>1. /\ u \in Users
          /\ account' = [v \in DOMAIN account \union {u} |->
                            IF v = u THEN Page!Saved(r, u) ELSE account[v]]
      BY <1>3, SavedTarget
    <2>2. Page!Saved(r, u).type # "administrator" => Page!Saved(r, u).company # None
      BY <1>3, Saving, SavedCompany DEF Agreed, CompaniesKnown
    <2> HIDE DEF u
    <2> QED
      BY <2>1, <2>2 DEF CompaniesKnown, Page!CompanyRequired
  <1>4. CASE Page!Status(r) = 200 /\ r.kind # "save"
    <2>1. \A v \in DOMAIN account' : /\ v \in DOMAIN account
                                     /\ account'[v].type = account[v].type
                                     /\ account'[v].company = account[v].company
      BY <1>1, <1>4, OthersKeep
    <2> QED
      BY <2>1 DEF CompaniesKnown, Page!CompanyRequired
  <1> QED
    BY <1>2, <1>3, <1>4

\* An answer changes no user's type, unless the current user is an administrator.
LEMMA RoleKeptByAnswer ==
    ASSUME Page!UserFormAssumption, CompaniesKnown, ~Page!isUserAdmin, NEW r \in requests, Page!Answer(r),
           NEW u \in DOMAIN account, u \in DOMAIN account'
    PROVE  account'[u].type = account[u].type
  <1>1. account' = Page!Effect(r, Page!Status(r))
    BY DEF Page!Answer
  <1>2. CASE Page!Status(r) # 200
    BY <1>1, <1>2 DEF Page!Effect
  <1>3. CASE Page!Status(r) = 200 /\ r.kind = "save"
    <2>1. /\ r.form.id = None => Target(r) \in Page!Unused
          /\ r.form.id # None => Target(r) = r.form.id
          /\ account' = [v \in DOMAIN account \union {Target(r)} |->
                            IF v = Target(r) THEN Page!Saved(r, Target(r)) ELSE account[v]]
      BY <1>3, SavedTarget
    <2>2. CASE u # Target(r)
      BY <2>1, <2>2
    <2>3. CASE u = Target(r)
      <3>1. r.form.id = u
        BY <2>1, <2>3 DEF Page!Unused
      <3>2. r.form.type = account[u].type
        BY <1>3, <3>1, Saving DEF Agreed
      <3>3. Page!Saved(r, u).type = IF "user_type" \in Page!Allowed THEN r.form.type ELSE account[u].type
        BY Zenon DEF Page!Saved
      <3>4. account'[u] = Page!Saved(r, u)
        BY <2>1, <2>3
      <3> QED
        BY <3>2, <3>3, <3>4
    <2> QED
      BY <2>2, <2>3
  <1>4. CASE Page!Status(r) = 200 /\ r.kind # "save"
    BY <1>1, <1>4, OthersKeep
  <1> QED
    BY <1>2, <1>3, <1>4

\* Nobody gets the id of a user that was deleted while a request for him was on its way.
LEMMA NamedKept ==
    ASSUME Page!UserFormAssumption, CompaniesKnown, NEW r \in requests, Page!Answer(r),
           NEW q \in requests, q.form.id \in DOMAIN account'
    PROVE  q.form.id \in DOMAIN account \/ (r.kind = "save" /\ q.form.id = r.form.id)
  <1>1. account' = Page!Effect(r, Page!Status(r))
    BY DEF Page!Answer
  <1>2. CASE Page!Status(r) # 200
    BY <1>1, <1>2 DEF Page!Effect
  <1>3. CASE Page!Status(r) = 200 /\ r.kind = "save"
    <2>1. /\ r.form.id = None => Target(r) \in Page!Unused
          /\ r.form.id # None => Target(r) = r.form.id
          /\ DOMAIN account' = DOMAIN account \union {Target(r)}
      BY <1>3, SavedTarget
    <2> QED
      BY <1>3, <2>1 DEF Page!Unused
  <1>4. CASE Page!Status(r) = 200 /\ r.kind # "save"
    BY <1>1, <1>4, OthersKeep
  <1> QED
    BY <1>2, <1>3, <1>4

LEMMA AcceptedKept ==
    ASSUME Page!UserFormAssumption, CompaniesKnown, NEW r \in requests, Page!Answer(r)
    PROVE  AcceptedInv'
  <1> SUFFICES ASSUME NEW q \in requests', q.checked
               PROVE  q.kind = "save" /\ q.form.id # None /\ Agreed(q)'
    BY DEF AcceptedInv
  <1>1. q \in requests
    BY DEF Page!Answer
  <1>2. q.kind = "save" /\ q.form.id # None /\ Agreed(q)
    BY <1>1 DEF CompaniesKnown, AcceptedInv
  <1>3. ASSUME ~Page!isUserAdmin, q.form.id \in DOMAIN account' PROVE q.form.type = account'[q.form.id].type
    <2>1. CASE q.form.id \in DOMAIN account
      BY <1>2, <1>3, <2>1, RoleKeptByAnswer DEF Agreed
    <2>2. CASE q.form.id \notin DOMAIN account
      <3>1. r.kind = "save" /\ q.form.id = r.form.id
        BY <1>1, <1>3, <2>2, NamedKept
      <3>2. Page!Status(r) # 200
        BY <1>2, <2>2, <3>1, Saving
      <3>3. account' = account
        BY <3>2 DEF Page!Answer, Page!Effect
      <3> QED
        BY <1>3, <2>2, <3>3
    <2> QED
      BY <2>1, <2>2
  <1> QED
    BY <1>2, <1>3 DEF Agreed, Page!NoCompany

\* Accepting a save changes nobody: the save is agreed to.
LEMMA AcceptKeeps ==
    ASSUME NEW r \in requests, Page!Accept(r)
    PROVE  /\ UNCHANGED <<account, known, form, answer>>
           /\ \A q \in requests' :
                 \/ q \in requests
                 \/ /\ q.kind = "save" /\ q.form.id # None /\ Agreed(q)
                    /\ q.form = r.form
           /\ (\A x, y \in requests : x = y) => \A x, y \in requests' : x = y
  <1>1. /\ r.kind = "save" /\ r.form.id # None /\ ~r.checked /\ Page!Status(r) = 200
        /\ UNCHANGED <<account, known, form, answer>>
        /\ requests' = (requests \ {r}) \union {[r EXCEPT !.checked = TRUE]}
    BY DEF Page!Accept
  <1>2. ~Page!NoCompany(r) /\ ~Page!TypeRefused(r)
    BY <1>1, Approving
  <1>3. Agreed(r)
    BY <1>1, <1>2 DEF Agreed, Page!TypeRefused
  <1> DEFINE a == [r EXCEPT !.checked = TRUE]
  <1>4. a.kind = r.kind /\ a.form = r.form
    OBVIOUS
  <1>5. requests' = (requests \ {r}) \union {a}
    BY <1>1
  <1> HIDE DEF a
  <1>6. Agreed(a)
    BY <1>3, <1>4 DEF Agreed, Page!NoCompany
  <1>7. (\A x, y \in requests : x = y) => \A x, y \in requests' : x = y
    BY <1>5
  <1> QED
    BY <1>1, <1>4, <1>5, <1>6, <1>7

\* Following an invitation changes neither types nor companies.
LEMMA ValidateKeeps ==
    ASSUME NEW w, Page!Validate(w)
    PROVE  /\ DOMAIN account' = DOMAIN account
           /\ \A u \in DOMAIN account : /\ account'[u].type = account[u].type
                                        /\ account'[u].company = account[u].company
  BY DEF Page!Validate

\* CompaniesKnown is inductive.
LEMMA CompaniesKnownInductive ==
    ASSUME Page!UserFormAssumption
    PROVE  /\ Page!Init => CompaniesKnown
           /\ CompaniesKnown /\ [Page!Next]_Page!vars => CompaniesKnown'
  <1>1. Page!Init => CompaniesKnown
    BY DEF Page!UserFormAssumption, Page!Init, CompaniesKnown, Page!CompanyRequired, AcceptedInv
  <1>2. ASSUME CompaniesKnown, [Page!Next]_Page!vars PROVE CompaniesKnown'
    <2>1. CASE \E r \in requests : Page!Answer(r)
      BY <1>2, <2>1, CompaniesKnownKept, AcceptedKept DEF CompaniesKnown
    <2>2. ASSUME NEW r \in requests, Page!Accept(r) PROVE CompaniesKnown'
      <3>1. AcceptedInv'
        BY <1>2, <2>2, AcceptKeeps DEF CompaniesKnown, AcceptedInv, Agreed, Page!NoCompany
      <3> QED
        BY <1>2, <2>2, <3>1, AcceptKeeps DEF CompaniesKnown, Page!CompanyRequired
    <2>3. ASSUME NEW w \in Users, Page!Validate(w) PROVE CompaniesKnown'
      <3>1. requests' = requests
        BY <2>3 DEF Page!Validate
      <3>2. AcceptedInv'
        BY <1>2, <2>3, <3>1, ValidateKeeps DEF CompaniesKnown, AcceptedInv, Agreed, Page!NoCompany
      <3> QED
        BY <1>2, <2>3, <3>2, ValidateKeeps DEF CompaniesKnown, Page!CompanyRequired
    <2>4. CASE FormFollows
      <3>1. account' = account /\ \A q \in requests' : q \in requests \/ ~q.checked
        BY <2>4 DEF FormFollows
      <3> QED
        BY <1>2, <3>1 DEF CompaniesKnown, Page!CompanyRequired, AcceptedInv, Agreed, Page!NoCompany
    <2> QED
      BY <1>2, <2>1, <2>2, <2>3, <2>4, FormSteps
  <1> QED
    BY <1>1, <1>2

\* Nobody but an administrator is without a company: what the server checks when a user is
\* saved keeps all of them that way, through the forms of administrators, account managers
\* and the admins of companies alike.
THEOREM CompanyAlwaysThere == ASSUME Page!UserFormAssumption PROVE Page!Spec => []Page!CompanyRequired
  <1>1. CompaniesKnown => Page!CompanyRequired
    BY DEF CompaniesKnown
  <1> QED
    BY <1>1, CompaniesKnownInductive, PTL DEF Page!Spec

\* The type of a user that exists is changed by administrators only: a form of an account
\* manager with another type is refused, that of a company's admin is saved without it.
THEOREM TypesKept == ASSUME Page!UserFormAssumption PROVE Page!Spec => Page!RoleKept
  <1>1. CompaniesKnown /\ [Page!Next]_Page!vars => [Page!RoleKeptStep]_Page!vars
    <2> SUFFICES ASSUME CompaniesKnown, [Page!Next]_Page!vars, ~Page!isUserAdmin,
                        NEW u \in DOMAIN account, u \in DOMAIN account'
                 PROVE  account'[u].type = account[u].type
      BY Zenon DEF Page!RoleKeptStep
    <2>1. CASE \E r \in requests : Page!Answer(r)
      BY <2>1, RoleKeptByAnswer
    <2>2. CASE \E w \in Users : Page!Validate(w)
      BY <2>2, ValidateKeeps
    <2>3. CASE FormFollows \/ \E r \in requests : Page!Accept(r)
      BY <2>3, AcceptKeeps DEF FormFollows
    <2> QED
      BY <2>1, <2>2, <2>3, FormSteps
  <1>2. CompaniesKnown /\ [Page!Next]_Page!vars => CompaniesKnown'
    BY CompaniesKnownInductive
  <1>3. Page!Init => CompaniesKnown
    BY CompaniesKnownInductive
  <1> QED
    BY <1>1, <1>2, <1>3, PTL DEF Page!Spec, Page!RoleKept

\* What an answer does to the form and to the page's list: what changes an account is a success
\* that fetches the list and closes the form.
LEMMA AnswerListed ==
    ASSUME NEW r, Page!Answer(r)
    PROVE  /\ requests' = requests \ {r}
           /\ answer'.status = Page!Status(r)
           /\ \/ known' = account' /\ form' = None
              \/ UNCHANGED <<account, known, form>>
  <1>1. /\ requests' = requests \ {r} /\ account' = Page!Effect(r, Page!Status(r))
        /\ answer' = [kind |-> r.kind, form |-> r.form, picked |-> r.picked, status |-> Page!Status(r)]
    BY DEF Page!Answer
  <1>2. CASE Page!Status(r) = 200 /\ r.kind \notin {"resend", "reset"}
    BY <1>1, <1>2 DEF Page!Answer
  <1>3. CASE ~(Page!Status(r) = 200 /\ r.kind \notin {"resend", "reset"})
    <2>1. UNCHANGED <<known, form>>
      BY <1>3 DEF Page!Answer
    <2>2. account' = account
      BY <1>1, <1>3 DEF Page!Effect
    <2> QED
      BY <1>1, <2>1, <2>2
  <1> QED
    BY <1>2, <1>3

\* The page lists the users of the server, each with its type.
AccountsListed == DOMAIN known = DOMAIN account /\ \A u \in DOMAIN account : known[u].type = account[u].type

LEMMA AccountsListedKept == ASSUME AccountsListed, [Page!Next]_Page!vars PROVE AccountsListed'
  <1>1. CASE \E r \in requests : Page!Answer(r)
    BY <1>1, AnswerListed DEF AccountsListed
  <1>2. CASE \E w \in Users : Page!Validate(w)
    <2>1. known' = known
      BY <1>2 DEF Page!Validate
    <2> QED
      BY <1>2, <2>1, ValidateKeeps DEF AccountsListed
  <1>3. CASE FormFollows
    BY <1>3 DEF AccountsListed, FormFollows
  <1>4. CASE \E r \in requests : Page!Accept(r)
    BY <1>4, AcceptKeeps DEF AccountsListed
  <1> QED
    BY <1>1, <1>2, <1>3, <1>4, FormSteps

\* The inductive invariant of a company's admin who waits for the answers: the open form, and
\* the one sent, is that of a user as the server has it, and nothing was refused so far.
ColleagueInv ==
    /\ AccountsListed
    /\ form # None => OfAccount(form)
    /\ \A r \in requests : OfAccount(r.form)
    /\ \A r, o \in requests : r = o
    /\ Page!NotForbidden

LEMMA ColleagueKept ==
    ASSUME ColleagueInv, [Page!Next]_Page!vars, Page!isCompanyAdmin, Waits
    PROVE  ColleagueInv'
  <1>1. AccountsListed'
    BY AccountsListedKept DEF ColleagueInv
  <1>2. ASSUME NEW r \in requests, Page!Answer(r) PROVE ColleagueInv'
    <2>1. requests' = {}
      BY <1>2, AnswerListed DEF ColleagueInv
    <2>2. form' # None => OfAccount(form)'
      BY <1>2, AnswerListed DEF ColleagueInv, OfAccount
    <2>3. ~(r.form.id # None /\ Page!Exists(r) /\ Page!TypeRefused(r))
      BY <1>2 DEF ColleagueInv, OfAccount, Page!TypeRefused
    <2>4. r.form.id = None => ~Page!TypeRefused(r)
      BY DEF Page!TypeRefused
    <2>5. Page!Status(r) # 401
      BY <2>3, <2>4 DEF Page!Status, Page!Verdict
    <2>6. Page!NotForbidden'
      BY <1>2, <2>5, AnswerListed DEF Page!NotForbidden
    <2> QED
      BY <1>1, <2>1, <2>2, <2>6 DEF ColleagueInv
  <1>3. ASSUME NEW w \in Users, Page!Validate(w) PROVE ColleagueInv'
    <2>1. UNCHANGED <<known, form, requests, answer>>
      BY <1>3 DEF Page!Validate
    <2>2. \A user : OfAccount(user) => OfAccount(user)'
      BY <1>3, ValidateKeeps DEF OfAccount
    <2> QED
      BY <1>1, <2>1, <2>2 DEF ColleagueInv, OfAccount, Page!NotForbidden
  <1>4. CASE FormFollows
    <2>1. form' # None => OfAccount(form)'
      BY <1>4 DEF FormFollows, ColleagueInv, OfAccount, AccountsListed
    <2>2. CASE requests' = requests
      BY <1>1, <1>4, <2>1, <2>2 DEF FormFollows, ColleagueInv, OfAccount, Page!NotForbidden
    <2>3. CASE requests' # requests
      <3>1. PICK r : /\ requests' = requests \union {r} /\ form # None
                     /\ r.form.id = form.id /\ r.form.type = form.type
        BY <1>4, <2>3 DEF FormFollows
      <3>2. requests' = {r}
        BY <1>4, <2>3, <3>1 DEF FormFollows
      <3>3. OfAccount(r.form)'
        BY <1>4, <3>1 DEF FormFollows, ColleagueInv, OfAccount
      <3>4. Page!NotForbidden'
        BY <1>4 DEF FormFollows, ColleagueInv, Page!NotForbidden
      <3> QED
        BY <1>1, <2>1, <3>2, <3>3, <3>4 DEF ColleagueInv, OfAccount
    <2> QED
      BY <2>2, <2>3
  <1>5. ASSUME NEW r \in requests, Page!Accept(r) PROVE ColleagueInv'
    BY <1>1, <1>5, AcceptKeeps DEF ColleagueInv, OfAccount, Page!NotForbidden
  <1> QED
    BY <1>2, <1>3, <1>4, <1>5, FormSteps

\* Nothing the page offers the admin of a company, who waits for each answer, or an
\* administrator is refused for want of a right: the first is offered no other type for a user
\* that exists, and sends the one the server has; the types an administrator picks are his to
\* give. (Of an account manager it is not true.)
THEOREM NothingForbidden ==
    ASSUME Page!UserFormAssumption, Page!isUserAdmin \/ (Page!isCompanyAdmin /\ Waits)
    PROVE  Page!Spec => []Page!NotForbidden
  <1>1. CASE Page!isUserAdmin
    <2>1. Page!Init => Page!NotForbidden
      BY DEF Page!Init, Page!NotForbidden
    <2>2. ASSUME Page!NotForbidden, [Page!Next]_Page!vars PROVE Page!NotForbidden'
      <3>1. ASSUME NEW r \in requests, Page!Answer(r) PROVE Page!NotForbidden'
        <4>1. Page!Status(r) # 401
          BY <1>1 DEF Page!Status, Page!Verdict, Page!TypeRefused
        <4> QED
          BY <3>1, <4>1, AnswerListed DEF Page!NotForbidden
      <3>2. CASE \/ \E w \in Users : Page!Validate(w)
                 \/ FormFollows
                 \/ \E r \in requests : Page!Accept(r)
        <4>1. answer' = answer
          BY <3>2, AcceptKeeps DEF Page!Validate, FormFollows
        <4> QED
          BY <2>2, <4>1 DEF Page!NotForbidden
      <3> QED
        BY <2>2, <3>1, <3>2, FormSteps
    <2> QED
      BY <2>1, <2>2, PTL DEF Page!Spec
  <1>2. CASE Page!isCompanyAdmin /\ Waits
    <2>1. Page!Init => ColleagueInv
      BY DEF Page!Init, ColleagueInv, AccountsListed, Page!NotForbidden
    <2>2. ColleagueInv /\ [Page!Next]_Page!vars => ColleagueInv'
      BY <1>2, ColleagueKept
    <2>3. ColleagueInv => Page!NotForbidden
      BY DEF ColleagueInv
    <2> QED
      BY <2>1, <2>2, <2>3, PTL DEF Page!Spec
  <1> QED
    BY <1>1, <1>2

\* The inductive invariant: he is listed wherever the users are, and no request deletes him.
MeInv == /\ DOMAIN account \subseteq Users /\ AccountsListed /\ Me \in DOMAIN account
         /\ \A r \in requests : r.kind = "delete" => r.form.id # Me

\* An answer leaves him there: the one request that takes a user away is not for him.
LEMMA MeKeptByAnswer ==
    ASSUME Page!UserFormAssumption, CompaniesKnown, MeInv, NEW r \in requests, Page!Answer(r)
    PROVE  DOMAIN account' \subseteq Users /\ Me \in DOMAIN account'
  <1> DEFINE approved == [account EXCEPT ![r.form.id].data["is_approved"] = 1,
                            ![r.form.id].data["is_enabled"] = 1, ![r.form.id].etag = @ + 1]
             left == [u \in DOMAIN account \ {r.form.id} |-> account[u]]
  <1>1. account' = Page!Effect(r, Page!Status(r))
    BY DEF Page!Answer
  <1>2. CASE Page!Status(r) = 200 /\ r.kind = "save"
    <2>1. /\ Target(r) \in Users
          /\ account' = [v \in DOMAIN account \union {Target(r)} |->
                            IF v = Target(r) THEN Page!Saved(r, Target(r)) ELSE account[v]]
      BY <1>2, SavedTarget
    <2> QED
      BY <2>1 DEF MeInv
  <1>3. CASE Page!Status(r) = 200 /\ r.kind = "delete"
    <2>1. account' = left
      BY <1>1, <1>3 DEF Page!Effect
    <2> QED
      BY <1>3, <2>1 DEF MeInv
  <1>4. CASE Page!Status(r) # 200 \/ r.kind \notin {"save", "delete"}
    <2>1. account' \in {account, approved}
      BY <1>1, <1>4 DEF Page!Effect
    <2>2. DOMAIN account' = DOMAIN account
      BY <2>1
    <2> QED
      BY <2>2 DEF MeInv
  <1> QED
    BY <1>2, <1>3, <1>4

LEMMA MeKept ==
    ASSUME Page!UserFormAssumption, CompaniesKnown, MeInv, [Page!Next]_Page!vars PROVE MeInv'
  <1>1. AccountsListed'
    BY AccountsListedKept DEF MeInv
  <1>2. ASSUME NEW r \in requests, Page!Answer(r) PROVE MeInv'
    BY <1>1, <1>2, MeKeptByAnswer, AnswerListed DEF MeInv
  <1>3. ASSUME NEW w \in Users, Page!Validate(w) PROVE MeInv'
    <2>1. requests' = requests
      BY <1>3 DEF Page!Validate
    <2> QED
      BY <1>1, <1>3, <2>1, ValidateKeeps DEF MeInv
  <1>4. CASE FormFollows
    <2>1. UNCHANGED account
      BY <1>4 DEF FormFollows
    <2>2. \A r \in requests' : r \in requests \/ (r.kind = "delete" => r.form.id # Me)
      BY <1>4 DEF FormFollows
    <2> QED
      BY <1>1, <2>1, <2>2 DEF MeInv
  <1>5. ASSUME NEW r \in requests, Page!Accept(r) PROVE MeInv'
    BY <1>1, <1>5, AcceptKeeps DEF MeInv
  <1> QED
    BY <1>2, <1>3, <1>4, <1>5, FormSteps

\* Nobody deletes himself, whatever he sends before the answers come: the page, whose list is
\* that of the server, does not offer it, and the server refuses it.
THEOREM NobodyDeletesHimself == ASSUME Page!UserFormAssumption PROVE Page!Spec => []Page!MeStays
  <1>1. Page!Init => MeInv
    BY DEF Page!Init, MeInv, AccountsListed
  <1>2. CompaniesKnown /\ MeInv /\ [Page!Next]_Page!vars => MeInv'
    BY MeKept
  <1>3. MeInv => Page!MeStays
    BY DEF MeInv, AccountsListed, Page!MeStays
  <1> QED
    BY <1>1, <1>2, <1>3, CompaniesKnownInductive, PTL DEF Page!Spec

--------------------------------------------------------------------------------
(* The users of a company and the seats of its products (UserManager). *)

UserRecords == [rev : Nat, products : SUBSET Products]
Directories == UNION {[D -> UserRecords] : D \in SUBSET Users}
UserForms == [id : Users \cup {None}, rev : Nat, products : SUBSET Products]
UserStores == [users : SUBSET Users, known : Directories, form : UserForms \cup {None},
               filter : Products \cup {None}, loading : BOOLEAN, section : {"my_company", "users"}]
UserRequests == [n : Nat, kind : {"fetch", "save", "delete"}, filter : Products \cup {None},
                 form : UserForms \cup {None}, check : BOOLEAN, status : Statuses \cup {"checked"},
                 answer : Directories]

\* Every record has its shape, every form goes with its etag, and nobody without an id is deleted
\* or has his etag compared.
UsersShape ==
    /\ account \in Directories /\ store \in UserStores /\ requests \subseteq UserRequests
    /\ sent \in Nat /\ removed \subseteq Users
    /\ \A r \in requests : /\ r.check
                           /\ r.kind = "save" => r.form # None
                           /\ r.kind = "delete" => r.form # None /\ r.form.id \in Users
                           /\ r.kind = "fetch" => r.status # "failed"
                           /\ r.status = "checked" => r.kind = "save" /\ r.form.id \in Users

LEMMA DirectoryMade == ASSUME NEW D \in SUBSET Users, NEW l \in [D -> UserRecords] PROVE l \in Directories
  BY Zenon DEF Directories

LEMMA DirectoryShape ==
    ASSUME NEW l \in Directories
    PROVE  /\ DOMAIN l \subseteq Users /\ l = [u \in DOMAIN l |-> l[u]]
           /\ \A u \in DOMAIN l : l[u] \in UserRecords
  <1>1. PICK D \in SUBSET Users : l \in [D -> UserRecords]
    BY Zenon DEF Directories
  <1> QED
    BY <1>1

LEMMA NobodyListed == [u \in {} |-> 0] \in Directories
  <1>1. [u \in {} |-> 0] \in [{} -> UserRecords]
    OBVIOUS
  <1> QED
    BY <1>1, DirectoryMade

\* The forms of nobody and of a user who is known.
NewForm == [id |-> None, rev |-> 0, products |-> {}]
KnownForm(u) == [id |-> u, rev |-> store.known[u].rev, products |-> store.known[u].products]

LEMMA FormTypes ==
    ASSUME store \in UserStores
    PROVE  NewForm \in UserForms /\ \A u \in DOMAIN store.known : KnownForm(u) \in UserForms
  <1>1. store.known \in Directories
    BY DEF UserStores
  <1>2. \A u \in DOMAIN store.known : u \in Users /\ store.known[u] \in UserRecords
    BY <1>1, DirectoryShape
  <1> QED
    BY <1>2 DEF NewForm, KnownForm, UserForms, UserRecords

\* What the administrator's clicks make of the form.
UserFormed ==
    \/ store'.form = None \/ store'.form = store.form \/ store'.form = NewForm
    \/ \E u \in DOMAIN store.known : store'.form = KnownForm(u)
    \/ /\ store.form # None
       /\ \E ps \in SUBSET Products :
             /\ store'.form = [store.form EXCEPT !.products = ps]
             /\ \A p \in ps : \/ Manager!HasSeatsAvailable(store, p) \/ p \in store.form.products
                              \/ p \in Manager!Original(store)

\* A request of the kind k that carries the form and filter of s.
Carries(m, k, s) ==
    /\ m.n = sent + 1 /\ m.kind = k /\ m.form = s.form /\ m.filter = s.filter /\ m.check
    /\ m.status = "sent" /\ DOMAIN m.answer = {}
Posts(k) == /\ store' = store /\ store.form # None /\ (k = "delete" => store.form.id \in Users)
            /\ \E m \in UserRequests : Sends(m) /\ Carries(m, k, store)
Fetches(s, answered) ==
    /\ store' = Manager!QueryUsers(s) /\ sent' = sent + 1
    /\ \E m \in UserRequests : requests' = (requests \ answered) \cup {m} /\ Carries(m, "fetch", s)

\* What his actions do.
UsersClient ==
    /\ Manager!Turn /\ UNCHANGED <<account, lost, clashed, removed>>
    /\ \/ /\ Quiet /\ UserFormed
          /\ store' \in UserStores /\ store'.users = store.users /\ store'.known = store.known
          /\ store'.filter = store.filter
       \/ Posts("save") \/ Posts("delete")
       \/ \E s \in UserStores : /\ Fetches(s, {}) /\ s.users = store.users /\ s.known = store.known
                                /\ s.filter \in Filters \cup {None, store.filter}

LEMMA UserRequestType ==
    ASSUME sent \in Nat, NEW k \in {"fetch", "save", "delete"}, NEW s \in UserStores
    PROVE  LET m == Manager!Request(sent + 1, k, s) IN m \in UserRequests /\ Carries(m, k, s)
  BY NobodyListed DEF Manager!Request, UserRequests, UserStores, Statuses, Carries

LEMMA Fetching1 ==
    ASSUME sent \in Nat, NEW s \in UserStores, NEW answered, Manager!FetchUsers(s, answered)
    PROVE  Fetches(s, answered)
  <1>1. /\ store' = Manager!QueryUsers(s) /\ sent' = sent + 1
        /\ requests' = (requests \ answered) \cup {Manager!Request(sent + 1, "fetch", s)}
    BY DEF Manager!FetchUsers
  <1> QED
    BY <1>1, UserRequestType DEF Fetches

LEMMA Posting ==
    ASSUME sent \in Nat, store \in UserStores, store.form # None, NEW k \in {"save", "delete"},
           k = "delete" => store.form.id \in Users, Manager!Send(k, store), store' = store
    PROVE  Posts(k)
  <1>1. Sends(Manager!Request(sent + 1, k, store))
    BY DEF Manager!Send, Sends
  <1> QED
    BY <1>1, UserRequestType DEF Posts

LEMMA QuietClick ==
    ASSUME Manager!Turn, UNCHANGED <<account, lost, clashed, removed, requests, sent>>, store \in UserStores,
           NEW f \in UserForms \cup {None}, store' = [store EXCEPT !.form = f], UserFormed
    PROVE  UsersClient
  <1>1. /\ store' \in UserStores /\ store'.users = store.users /\ store'.known = store.known
        /\ store'.filter = store.filter
    BY DEF UserStores
  <1> QED
    BY <1>1 DEF UsersClient, Quiet

LEMMA SelectUserForm ==
    ASSUME store \in UserStores, NEW u
    PROVE  \E f \in UserForms : /\ Manager!SelectUser(store, u) = [store EXCEPT !.form = f]
                                /\ f = NewForm \/ \E v \in DOMAIN store.known : f = KnownForm(v)
  <1>1. CASE u \in DOMAIN store.known
    <2>1. Manager!SelectUser(store, u) = [store EXCEPT !.form = KnownForm(u)]
      BY <1>1 DEF Manager!SelectUser, KnownForm
    <2> QED
      BY <1>1, <2>1, FormTypes
  <1>2. CASE u \notin DOMAIN store.known
    <2>1. Manager!SelectUser(store, u) = [store EXCEPT !.form = NewForm]
      BY <1>2 DEF Manager!SelectUser, NewForm
    <2> QED
      BY <2>1, FormTypes
  <1> QED
    BY <1>1, <1>2

LEMMA Selecting ==
    ASSUME Manager!Turn, UNCHANGED <<account, lost, clashed, removed, requests, sent>>, store \in UserStores, NEW u,
           store' = Manager!SelectUser(store, u)
    PROVE  UsersClient
  <1>1. PICK f \in UserForms : /\ Manager!SelectUser(store, u) = [store EXCEPT !.form = f]
                               /\ f = NewForm \/ \E v \in DOMAIN store.known : f = KnownForm(v)
    BY SelectUserForm
  <1>2. store'.form = f
    BY <1>1 DEF UserStores
  <1> QED
    BY <1>1, <1>2, QuietClick DEF UserFormed

LEMMA Cancelling ==
    ASSUME Manager!Turn, UNCHANGED <<account, lost, clashed, removed, requests, sent>>, store \in UserStores,
           store' = Manager!CancelEdit(store)
    PROVE  UsersClient
  <1>1. store' = [store EXCEPT !.form = None]
    BY DEF Manager!CancelEdit
  <1>2. store'.form = None
    BY <1>1 DEF UserStores
  <1> QED
    BY <1>1, <1>2, QuietClick DEF UserFormed

LEMMA EditingProducts ==
    ASSUME Manager!Turn, UNCHANGED <<account, lost, clashed, removed, requests, sent>>, store \in UserStores,
           store.form # None, NEW ps \in SUBSET Products, store' = Manager!EditProducts(store, ps),
           \A p \in ps : \/ Manager!HasSeatsAvailable(store, p) \/ p \in store.form.products
                         \/ p \in Manager!Original(store)
    PROVE  UsersClient
  <1>1. store.form \in UserForms
    BY DEF UserStores
  <1> DEFINE f == [store.form EXCEPT !.products = ps]
  <1>2. f \in UserForms
    BY <1>1 DEF UserForms
  <1>3. store' = [store EXCEPT !.form = f]
    BY DEF Manager!EditProducts
  <1>4. store'.form = f
    BY <1>3 DEF UserStores
  <1>5. UserFormed
    BY <1>4 DEF UserFormed
  <1> HIDE DEF f
  <1> QED
    BY <1>2, <1>3, <1>5, QuietClick

LEMMA SelectIsClient == ASSUME UsersShape, NEW u \in Users, Manager!Select(u) PROVE UsersClient
  BY Selecting DEF Manager!Select, UsersShape

LEMMA GoToIsClient == ASSUME UsersShape, NEW u \in Users \cup {None}, Manager!GoTo(u) PROVE UsersClient
  <1>1. /\ Manager!Turn /\ UNCHANGED <<account, lost, clashed, removed, requests, sent>> /\ store \in UserStores
        /\ store' = Manager!SelectUser(store, u) \/ store' = Manager!CancelEdit(store) \/ store' = store
    BY DEF Manager!GoTo, UsersShape
  <1>2. CASE store' = Manager!SelectUser(store, u)
    BY <1>1, <1>2, Selecting
  <1>3. CASE store' = Manager!CancelEdit(store)
    BY <1>1, <1>3, Cancelling
  <1>4. CASE store' = store
    BY <1>1, <1>4 DEF UsersClient, Quiet, UserFormed
  <1> QED
    BY <1>1, <1>2, <1>3, <1>4

LEMMA NewIsClient == ASSUME UsersShape, Manager!New PROVE UsersClient
  <1>1. /\ Manager!Turn /\ UNCHANGED <<account, lost, clashed, removed, requests, sent>> /\ store \in UserStores
        /\ store' = [store EXCEPT !.form = NewForm]
    BY DEF Manager!New, Manager!NewUser, NewForm, UsersShape
  <1>2. store'.form = NewForm
    BY <1>1 DEF UserStores
  <1> QED
    BY <1>1, <1>2, FormTypes, QuietClick DEF UserFormed

LEMMA CloseIsClient == ASSUME UsersShape, Manager!Close PROVE UsersClient
  BY Cancelling DEF Manager!Close, UsersShape

LEMMA ToggleProductIsClient == ASSUME UsersShape, NEW p \in Products, Manager!ToggleProduct(p) PROVE UsersClient
  <1>1. /\ Manager!Turn /\ UNCHANGED <<account, lost, clashed, removed, requests, sent>> /\ store \in UserStores
        /\ store.form # None /\ Manager!CanToggle(store, p)
    BY DEF Manager!ToggleProduct, UsersShape
  <1>2. store.form.products \subseteq Products
    BY <1>1 DEF UserStores, UserForms
  <1>3. CASE p \in store.form.products
    <2>1. store' = Manager!EditProducts(store, store.form.products \ {p})
      BY <1>3 DEF Manager!ToggleProduct
    <2> QED
      BY <1>1, <1>2, <2>1, EditingProducts
  <1>4. CASE p \notin store.form.products
    <2>1. store' = Manager!EditProducts(store, store.form.products \cup {p})
      BY <1>4 DEF Manager!ToggleProduct
    <2> QED
      BY <1>1, <1>2, <2>1, EditingProducts DEF Manager!CanToggle
  <1> QED
    BY <1>3, <1>4

LEMMA SelectAllIsClient == ASSUME UsersShape, Manager!SelectAll PROVE UsersClient
  <1>1. /\ Manager!Turn /\ UNCHANGED <<account, lost, clashed, removed, requests, sent>> /\ store \in UserStores
        /\ store.form # None /\ store' = Manager!EditProducts(store, Manager!AllSeats(store))
    BY DEF Manager!SelectAll, UsersShape
  <1>2. Manager!AllSeats(store) \in SUBSET Products
    BY DEF Manager!AllSeats
  <1>3. \A p \in Manager!AllSeats(store) :
            \/ Manager!HasSeatsAvailable(store, p) \/ p \in store.form.products
            \/ p \in Manager!Original(store)
    BY DEF Manager!AllSeats
  <1> QED
    BY <1>1, <1>2, <1>3, EditingProducts

LEMMA PostUserIsClient == ASSUME UsersShape, Manager!PostUser PROVE UsersClient
  <1>1. /\ Manager!Turn /\ UNCHANGED <<account, lost, clashed, removed>> /\ store' = store
        /\ store \in UserStores /\ sent \in Nat
        /\ store.form # None /\ Manager!Send("save", store)
    BY DEF Manager!PostUser, UsersShape
  <1>2. Posts("save")
    BY <1>1, Posting
  <1> QED
    BY <1>1, <1>2 DEF UsersClient

LEMMA DeleteUserIsClient == ASSUME UsersShape, Manager!DeleteUser PROVE UsersClient
  <1>1. /\ Manager!Turn /\ UNCHANGED <<account, lost, clashed, removed>> /\ store' = store
        /\ store \in UserStores /\ sent \in Nat
        /\ store.form # None /\ store.form.id # None /\ Manager!Send("delete", store)
    BY DEF Manager!DeleteUser, Manager!Deletable, UsersShape
  <1>2. store.form.id \in Users
    BY <1>1 DEF UserStores, UserForms
  <1>3. Posts("delete")
    BY <1>1, <1>2, Posting
  <1> QED
    BY <1>1, <1>3 DEF UsersClient

LEMMA FetchIsClient ==
    ASSUME Manager!Turn, UNCHANGED <<account, lost, clashed, removed>>, sent \in Nat, NEW s \in UserStores,
           Manager!FetchUsers(s, {}),
           s.users = store.users, s.known = store.known, s.filter \in Filters \cup {None, store.filter}
    PROVE  UsersClient
  <1>1. Fetches(s, {})
    BY Fetching1
  <1> QED
    BY <1>1 DEF UsersClient

LEMMA SetSectionIsClient ==
    ASSUME UsersShape, NEW section \in {"my_company", "users"}, Manager!SetSection(section) PROVE UsersClient
  <1>1. Manager!Turn /\ UNCHANGED <<account, lost, clashed, removed>> /\ store \in UserStores /\ sent \in Nat
    BY DEF Manager!SetSection, UsersShape
  <1> DEFINE s == [store EXCEPT !.section = section]
  <1>2. /\ s \in UserStores /\ s.users = store.users /\ s.known = store.known /\ s.filter = store.filter
        /\ s.form = store.form
    BY <1>1 DEF UserStores
  <1> HIDE DEF s
  <1>3. CASE section = "users"
    <2>1. Manager!FetchUsers(s, {})
      BY <1>3 DEF Manager!SetSection, s
    <2> QED
      BY <1>1, <1>2, <2>1, FetchIsClient
  <1>4. CASE section # "users"
    <2>1. store' = s /\ UNCHANGED <<requests, sent>>
      BY <1>4 DEF Manager!SetSection, s
    <2> QED
      BY <1>1, <1>2, <2>1 DEF UsersClient, Quiet, UserFormed
  <1> QED
    BY <1>3, <1>4

LEMMA ProductClickedIsClient ==
    ASSUME UsersShape, Manager!ConstantsOK, NEW p \in Filters, Manager!ProductClicked(p) PROVE UsersClient
  <1>1. Manager!Turn /\ UNCHANGED <<account, lost, clashed, removed>> /\ store \in UserStores /\ sent \in Nat
    BY DEF Manager!ProductClicked, UsersShape
  <1> DEFINE s == [store EXCEPT !.section = "users", !.filter = p]
  <1>2. s \in UserStores /\ s.users = store.users /\ s.known = store.known /\ s.filter = p
    BY <1>1 DEF UserStores, Manager!ConstantsOK
  <1>3. Manager!FetchUsers(s, {})
    BY DEF Manager!ProductClicked
  <1> HIDE DEF s
  <1> QED
    BY <1>1, <1>2, <1>3, FetchIsClient

LEMMA SetProductFilterIsClient ==
    ASSUME UsersShape, Manager!ConstantsOK, NEW p \in Filters \cup {None}, Manager!SetProductFilter(p)
    PROVE  UsersClient
  <1>1. Manager!Turn /\ UNCHANGED <<account, lost, clashed, removed>> /\ store \in UserStores /\ sent \in Nat
    BY DEF Manager!SetProductFilter, UsersShape
  <1> DEFINE s == [store EXCEPT !.filter = p]
  <1>2. s \in UserStores /\ s.users = store.users /\ s.known = store.known /\ s.filter = p
    BY <1>1 DEF UserStores, Manager!ConstantsOK
  <1>3. Manager!FetchUsers(s, {})
    BY DEF Manager!SetProductFilter
  <1> HIDE DEF s
  <1> QED
    BY <1>1, <1>2, <1>3, FetchIsClient

\* Whatever the administrator clicks is one of those steps.
LEMMA UsersClientSteps == ASSUME UsersShape, Manager!ConstantsOK, Manager!Administrator PROVE UsersClient
  BY Zenon, SelectIsClient, GoToIsClient, NewIsClient, CloseIsClient, ToggleProductIsClient,
     SelectAllIsClient, PostUserIsClient, DeleteUserIsClient, SetSectionIsClient, ProductClickedIsClient,
     SetProductFilterIsClient
     DEF Manager!Administrator

--------------------------------------------------------------------------------
(* What the server makes of a request. *)

UserBecomes(r, a) ==
    /\ a.n = r.n /\ a.kind = r.kind /\ a.form = r.form /\ a.filter = r.filter /\ a.check = r.check
    /\ requests' = (requests \ {r}) \cup {a} /\ UNCHANGED <<store, sent, removed>>
UsersListed(r, a) ==
    /\ r.kind = "fetch" /\ a.status = "done" /\ account' = account
    /\ a.answer = [u \in Manager!Matching(r.filter) |-> account[u]]
UserRefused(r, a) == r.kind # "fetch" /\ a.status = "failed" /\ account' = account
UserMade(r, a) ==
    /\ r.kind = "save" /\ a.status = "done" /\ r.form.id = None
    /\ \E u \in Users : /\ u \notin DOMAIN account /\ u \notin removed
                        /\ \A d \in requests : d.kind # "fetch" => d.form.id # u
                        /\ account' = Manager!With(account, u, [rev |-> 1, products |-> r.form.products])
UserChecked(r, a) ==
    /\ r.kind = "save" /\ a.status = "checked" /\ r.form.id \in DOMAIN account
    /\ account[r.form.id].rev = r.form.rev /\ account' = account
UserChanged(r, a) ==
    /\ r.kind = "save" /\ a.status = "done" /\ r.form.id \in DOMAIN account
    /\ account' = Manager!With(account, r.form.id,
                       [rev |-> account[r.form.id].rev + 1, products |-> r.form.products])
UserDeleted(r, a) == r.kind = "delete" /\ a.status = "done" /\ account' = Manager!Without(account, r.form.id)

\* What becomes of a request that is handled, and of one whose etag was compared before.
UserHandled(r, a) ==
    /\ r.status = "sent" /\ Manager!InTurn(r)
    /\ UsersListed(r, a) \/ UserRefused(r, a) \/ UserMade(r, a) \/ UserChecked(r, a) \/ UserDeleted(r, a)
UserWritten(r, a) == r.status = "checked" /\ (UserChanged(r, a) \/ UserRefused(r, a))
UserServed(r, a) ==
    UserBecomes(r, a) /\ (UserHandled(r, a) \/ UserWritten(r, a)) /\ account' \in Directories

LEMMA WithType ==
    ASSUME NEW l \in Directories, NEW u \in Users, NEW x \in UserRecords
    PROVE  Manager!With(l, u, x) \in Directories /\ DOMAIN Manager!With(l, u, x) = DOMAIN l \cup {u}
  <1>1. DOMAIN l \subseteq Users /\ \A v \in DOMAIN l : l[v] \in UserRecords
    BY DirectoryShape
  <1>2. Manager!With(l, u, x) \in [DOMAIN l \cup {u} -> UserRecords]
    BY <1>1 DEF Manager!With
  <1>3. DOMAIN l \cup {u} \in SUBSET Users
    BY <1>1
  <1> QED
    BY <1>2, <1>3, DirectoryMade

LEMMA WithoutType ==
    ASSUME NEW l \in Directories, NEW u
    PROVE  /\ Manager!Without(l, u) \in Directories /\ DOMAIN Manager!Without(l, u) = DOMAIN l \ {u}
           /\ \A v \in DOMAIN l \ {u} : Manager!Without(l, u)[v] = l[v]
           /\ u \notin DOMAIN l => Manager!Without(l, u) = l
  <1>1. /\ DOMAIN l \subseteq Users /\ l = [v \in DOMAIN l |-> l[v]]
        /\ \A v \in DOMAIN l : l[v] \in UserRecords
    BY DirectoryShape
  <1>2. Manager!Without(l, u) \in [DOMAIN l \ {u} -> UserRecords]
    BY <1>1 DEF Manager!Without
  <1>3. DOMAIN l \ {u} \in SUBSET Users
    BY <1>1
  <1>4. Manager!Without(l, u) \in Directories
    BY <1>2, <1>3, DirectoryMade
  <1>5. ASSUME u \notin DOMAIN l PROVE Manager!Without(l, u) = l
    <2>1. DOMAIN l \ {u} = DOMAIN l
      BY <1>5
    <2> QED
      BY <1>1, <2>1 DEF Manager!Without
  <1> QED
    BY <1>4, <1>5 DEF Manager!Without

LEMMA MatchingType ==
    ASSUME account \in Directories, NEW f
    PROVE  /\ [u \in Manager!Matching(f) |-> account[u]] \in Directories
           /\ Manager!Matching(f) \subseteq DOMAIN account
  <1>1. DOMAIN account \subseteq Users /\ \A v \in DOMAIN account : account[v] \in UserRecords
    BY DirectoryShape
  <1>2. Manager!Matching(f) \subseteq DOMAIN account
    BY DEF Manager!Matching
  <1>3. [u \in Manager!Matching(f) |-> account[u]] \in [Manager!Matching(f) -> UserRecords]
    BY <1>1, <1>2
  <1>4. Manager!Matching(f) \in SUBSET Users
    BY <1>1, <1>2
  <1> QED
    BY <1>2, <1>3, <1>4, DirectoryMade

LEMMA UserAnswered ==
    ASSUME NEW r \in UserRequests, NEW status \in {"done", "checked", "failed"},
           UNCHANGED <<store, sent, removed>>, requests' = Manager!Done(r, status)
    PROVE  \E a \in UserRequests : UserBecomes(r, a) /\ a.status = status
  <1> DEFINE a == [r EXCEPT !.status = status]
  <1>1. a \in UserRequests
    BY DEF UserRequests, Statuses
  <1>2. /\ a.n = r.n /\ a.kind = r.kind /\ a.form = r.form /\ a.filter = r.filter
        /\ a.check = r.check /\ a.status = status
    BY DEF UserRequests
  <1>3. requests' = (requests \ {r}) \cup {a}
    BY DEF Manager!Done
  <1> HIDE DEF a
  <1> QED
    BY <1>1, <1>2, <1>3 DEF UserBecomes

LEMMA HandleUser ==
    ASSUME UsersShape, NEW r \in requests, Manager!Handle(r)
    PROVE  \E a \in UserRequests : UserServed(r, a)
  <1>1. /\ account \in Directories /\ r \in UserRequests /\ r.check
        /\ r.status = "sent" /\ Manager!InTurn(r) /\ UNCHANGED <<store, sent, removed>>
        /\ r.kind # "fetch" => r.form \in UserForms
    BY DEF Manager!Handle, UsersShape, UserRequests
  <1>2. DOMAIN account \subseteq Users /\ \A v \in DOMAIN account : account[v] \in UserRecords
    BY <1>1, DirectoryShape
  <1>4. CASE r.kind = "fetch"
    <2> DEFINE a == [r EXCEPT !.status = "done",
                              !.answer = [u \in Manager!Matching(r.filter) |-> account[u]]]
    <2>1. /\ requests' = (requests \ {r}) \cup {a} /\ account' = account
      BY <1>4 DEF Manager!Handle
    <2>2. [u \in Manager!Matching(r.filter) |-> account[u]] \in Directories
      BY <1>1, MatchingType
    <2>3. a \in UserRequests
      BY <1>1, <2>2 DEF UserRequests, Statuses
    <2>4. /\ a.n = r.n /\ a.kind = r.kind /\ a.form = r.form /\ a.filter = r.filter
          /\ a.check = r.check /\ a.status = "done"
          /\ a.answer = [u \in Manager!Matching(r.filter) |-> account[u]]
      BY <1>1 DEF UserRequests
    <2> HIDE DEF a
    <2>5. UserBecomes(r, a) /\ UsersListed(r, a)
      BY <1>1, <1>4, <2>1, <2>4 DEF UserBecomes, UsersListed
    <2> QED
      BY <1>1, <2>1, <2>3, <2>5 DEF UserServed, UserHandled
  <1>5. CASE r.kind = "save" /\ r.form.id = None
    <2>1. PICK u \in Manager!Fresh \ (removed \cup Manager!Named) :
              Manager!Saved(r, u) /\ requests' = Manager!Done(r, "done")
      BY <1>5 DEF Manager!Handle
    <2>2. /\ u \in Users /\ u \notin DOMAIN account /\ u \notin removed
          /\ \A d \in requests : d.kind # "fetch" => d.form.id # u
      BY DEF Manager!Fresh, Manager!Named
    <2>3. account' = Manager!With(account, u, [rev |-> 1, products |-> r.form.products])
      BY <2>1, <2>2 DEF Manager!Saved, Manager!Fresh
    <2>4. [rev |-> 1, products |-> r.form.products] \in UserRecords
      BY <1>1, <1>5 DEF UserRecords, UserForms
    <2>5. account' \in Directories
      BY <1>1, <2>2, <2>3, <2>4, WithType
    <2>6. PICK a \in UserRequests : UserBecomes(r, a) /\ a.status = "done"
      BY <1>1, <2>1, UserAnswered
    <2>7. UserMade(r, a)
      BY <1>5, <2>2, <2>3, <2>6 DEF UserMade
    <2> QED
      BY <1>1, <2>5, <2>6, <2>7 DEF UserServed, UserHandled
  <1>6. CASE r.kind = "save" /\ r.form.id # None
    <2>1. /\ requests' = Manager!Done(r, IF Manager!EtagAgrees(r) THEN "checked" ELSE "failed")
          /\ account' = account
      BY <1>6 DEF Manager!Handle
    <2>2. CASE Manager!EtagAgrees(r)
      <3>1. PICK a \in UserRequests : UserBecomes(r, a) /\ a.status = "checked"
        BY <1>1, <2>1, <2>2, UserAnswered
      <3>2. UserChecked(r, a)
        BY <1>1, <1>6, <2>1, <2>2, <3>1 DEF UserChecked, Manager!EtagAgrees
      <3> QED
        BY <1>1, <2>1, <3>1, <3>2 DEF UserServed, UserHandled
    <2>3. CASE ~ Manager!EtagAgrees(r)
      <3>1. PICK a \in UserRequests : UserBecomes(r, a) /\ a.status = "failed"
        BY <1>1, <2>1, <2>3, UserAnswered
      <3> QED
        BY <1>1, <1>6, <2>1, <3>1 DEF UserServed, UserHandled, UserRefused
    <2> QED
      BY <2>2, <2>3
  <1>8. CASE r.kind = "delete"
    <2>1. /\ account' = Manager!Without(account, r.form.id)
          /\ requests' = Manager!Done(r, IF r.form.id \in DOMAIN account THEN "done" ELSE "failed")
      BY <1>8 DEF Manager!Handle
    <2>2. account' \in Directories /\ (r.form.id \notin DOMAIN account => account' = account)
      BY <1>1, <2>1, WithoutType
    <2>3. CASE r.form.id \in DOMAIN account
      <3>1. PICK a \in UserRequests : UserBecomes(r, a) /\ a.status = "done"
        BY <1>1, <2>1, <2>3, UserAnswered
      <3> QED
        BY <1>1, <1>8, <2>1, <2>2, <3>1 DEF UserServed, UserHandled, UserDeleted
    <2>4. CASE r.form.id \notin DOMAIN account
      <3>1. PICK a \in UserRequests : UserBecomes(r, a) /\ a.status = "failed"
        BY <1>1, <2>1, <2>4, UserAnswered
      <3> QED
        BY <1>1, <1>8, <2>1, <2>2, <2>4, <3>1 DEF UserServed, UserHandled, UserRefused
    <2> QED
      BY <2>3, <2>4
  <1> QED
    BY <1>1, <1>4, <1>5, <1>6, <1>8 DEF UserRequests

\* A save whose etag was compared is written without comparing it again.
LEMMA WriteUser ==
    ASSUME UsersShape, NEW r \in requests, Manager!Write(r)
    PROVE  \E a \in UserRequests : UserServed(r, a)
  <1>1. /\ account \in Directories /\ r \in UserRequests /\ r.status = "checked"
        /\ UNCHANGED <<store, sent, removed>> /\ r.kind = "save" /\ r.form \in UserForms
        /\ r.form.id \in Users
    BY DEF Manager!Write, UsersShape, UserRequests
  <1>2. \A v \in DOMAIN account : account[v] \in UserRecords
    BY <1>1, DirectoryShape
  <1>3. CASE /\ r.form.id \in DOMAIN account
             /\ Manager!Saved(r, r.form.id) /\ requests' = Manager!Done(r, "done")
    <2>1. account' = Manager!With(account, r.form.id,
                         [rev |-> account[r.form.id].rev + 1, products |-> r.form.products])
      BY <1>3 DEF Manager!Saved, Manager!Fresh
    <2>2. [rev |-> account[r.form.id].rev + 1, products |-> r.form.products] \in UserRecords
      BY <1>1, <1>2, <1>3 DEF UserRecords, UserForms
    <2>3. account' \in Directories
      BY <1>1, <2>1, <2>2, WithType
    <2>4. PICK a \in UserRequests : UserBecomes(r, a) /\ a.status = "done"
      BY <1>1, <1>3, UserAnswered
    <2> QED
      BY <1>1, <1>3, <2>1, <2>3, <2>4 DEF UserServed, UserWritten, UserChanged
  <1>4. CASE requests' = Manager!Done(r, "failed") /\ account' = account
    <2>1. PICK a \in UserRequests : UserBecomes(r, a) /\ a.status = "failed"
      BY <1>1, <1>4, UserAnswered
    <2> QED
      BY <1>1, <1>4, <2>1 DEF UserServed, UserWritten, UserRefused
  <1> QED
    BY <1>3, <1>4 DEF Manager!Write

\* What the other administrator does.
LEMMA SavedElsewhereStep ==
    ASSUME UsersShape, NEW u \in Users, Manager!SavedElsewhere(u)
    PROVE  /\ Others /\ account' \in Directories /\ DOMAIN account' = DOMAIN account
           /\ UNCHANGED <<store, requests, sent, lost, removed>>
  <1>1. /\ account \in Directories /\ u \in DOMAIN account /\ account' = [account EXCEPT ![u].rev = @ + 1]
        /\ Others /\ UNCHANGED <<store, requests, sent, lost, removed>>
    BY DEF Manager!SavedElsewhere, UsersShape
  <1>2. DOMAIN account \subseteq Users /\ \A v \in DOMAIN account : account[v] \in UserRecords
    BY <1>1, DirectoryShape
  <1>3. [account[u] EXCEPT !.rev = @ + 1] \in UserRecords
    BY <1>1, <1>2 DEF UserRecords
  <1>4. account' = [account EXCEPT ![u] = [account[u] EXCEPT !.rev = @ + 1]]
    BY <1>1
  <1>5. account' \in [DOMAIN account -> UserRecords]
    BY <1>2, <1>3, <1>4
  <1> QED
    BY <1>1, <1>2, <1>5, DirectoryMade

--------------------------------------------------------------------------------
(* The answers. *)

LEMMA RemovedForm ==
    ASSUME store \in UserStores, NEW u
    PROVE  LET s == Manager!RemoveUser(store, u)
           IN  /\ s \in UserStores /\ s.users = store.users \ {u} /\ s.known = Manager!Without(store.known, u)
               /\ s.filter = store.filter /\ (s.form = None \/ s.form = store.form)
  <1>1. store.known \in Directories /\ store.form \in UserForms \cup {None}
    BY DEF UserStores
  <1>2. Manager!Without(store.known, u) \in Directories
    BY <1>1, WithoutType
  <1> DEFINE f == IF store.form # None /\ store.form.id = u THEN None ELSE store.form
             s == [store EXCEPT !.users = store.users \ {u}, !.known = Manager!Without(store.known, u),
                                !.form = f]
  <1>3. f \in UserForms \cup {None} /\ (f = None \/ f = store.form)
    BY <1>1
  <1>4. Manager!RemoveUser(store, u) = s
    BY DEF Manager!RemoveUser, UserStores
  <1> HIDE DEF f
  <1>5. /\ s \in UserStores /\ s.users = store.users \ {u} /\ s.known = Manager!Without(store.known, u)
        /\ s.filter = store.filter /\ s.form = f
    BY <1>2, <1>3 DEF UserStores
  <1> HIDE DEF s
  <1> QED
    BY <1>3, <1>4, <1>5

LEMMA FetchedStep ==
    ASSUME UsersShape, NEW r \in requests, Manager!Fetched(r)
    PROVE  /\ r.kind = "fetch" /\ r.status = "done" /\ requests' = requests \ {r}
           /\ store' \in UserStores /\ store'.users = DOMAIN r.answer
           /\ store'.known = [u \in DOMAIN store.known \cup DOMAIN r.answer |->
                                 IF u \in DOMAIN r.answer THEN r.answer[u] ELSE store.known[u]]
           /\ store'.form = store.form /\ store'.filter = store.filter
           /\ UNCHANGED <<account, sent, lost, clashed, removed>>
  <1>1. /\ store \in UserStores /\ r.answer \in Directories /\ store' = Manager!GetUsers(store, r.answer)
        /\ r.kind = "fetch" /\ r.status = "done" /\ requests' = requests \ {r}
        /\ UNCHANGED <<account, sent, lost, clashed, removed>>
    BY DEF Manager!Fetched, UsersShape, UserRequests
  <1>2. store.known \in Directories
    BY <1>1 DEF UserStores
  <1>3. /\ DOMAIN r.answer \subseteq Users /\ \A u \in DOMAIN r.answer : r.answer[u] \in UserRecords
        /\ DOMAIN store.known \subseteq Users /\ \A u \in DOMAIN store.known : store.known[u] \in UserRecords
    BY <1>1, <1>2, DirectoryShape
  <1> DEFINE D == DOMAIN store.known \cup DOMAIN r.answer
             k == [u \in D |-> IF u \in DOMAIN r.answer THEN r.answer[u] ELSE store.known[u]]
  <1>4. k \in [D -> UserRecords] /\ D \in SUBSET Users
    BY <1>3
  <1>5. k \in Directories
    BY <1>4, DirectoryMade
  <1>6. store' = [store EXCEPT !.users = DOMAIN r.answer, !.loading = FALSE, !.known = k]
    BY <1>1 DEF Manager!GetUsers
  <1> HIDE DEF k
  <1>7. /\ store' \in UserStores /\ store'.users = DOMAIN r.answer /\ store'.known = k
        /\ store'.form = store.form /\ store'.filter = store.filter
    BY <1>1, <1>3, <1>5, <1>6 DEF UserStores
  <1> QED
    BY <1>1, <1>7 DEF k

LEMMA PostAnsweredStep ==
    ASSUME UsersShape, NEW r \in requests, Manager!PostAnswered(r)
    PROVE  /\ r.kind = "save" /\ r.status = "done" /\ Manager!InTurn(r) /\ Fetches(store, {r})
           /\ UNCHANGED <<account, lost, clashed, removed>>
  BY Fetching1 DEF Manager!PostAnswered, UsersShape

LEMMA DeleteAnsweredStep ==
    ASSUME UsersShape, NEW r \in requests, Manager!DeleteAnswered(r)
    PROVE  /\ r.kind = "delete" /\ r.status = "done" /\ Manager!InTurn(r)
           /\ removed' = removed \cup {r.form.id}
           /\ Manager!RemoveUser(store, r.form.id) \in UserStores
           /\ Fetches(Manager!RemoveUser(store, r.form.id), {r})
           /\ UNCHANGED <<account, lost, clashed>>
  <1>1. Manager!RemoveUser(store, r.form.id) \in UserStores
    BY RemovedForm DEF UsersShape
  <1> QED
    BY <1>1, Fetching1 DEF Manager!DeleteAnswered, UsersShape

\* What is queried again has a closed form.
LEMMA Queried ==
    ASSUME NEW s \in UserStores, store' = Manager!QueryUsers(s)
    PROVE  /\ store' \in UserStores /\ store'.users = s.users /\ store'.known = s.known
           /\ store'.filter = s.filter /\ store'.form = None
  <1>1. store' = [s EXCEPT !.loading = TRUE, !.form = None]
    BY DEF Manager!QueryUsers
  <1> QED
    BY <1>1 DEF UserStores

--------------------------------------------------------------------------------
(* The shape is kept. *)

LEMMA UsersSteps ==
    ASSUME UsersShape, Manager!ConstantsOK, [Manager!Next]_Manager!vars
    PROVE  \/ UsersClient
           \/ \E u \in Users : Manager!SavedElsewhere(u)
           \/ \E r \in requests : \E a \in UserRequests : UserServed(r, a)
           \/ \E r \in requests : \/ Manager!Fetched(r) \/ Manager!PostAnswered(r)
                                  \/ Manager!DeleteAnswered(r) \/ Manager!Failed(r)
           \/ UNCHANGED Manager!vars
  BY Zenon, UsersClientSteps, HandleUser, WriteUser DEF Manager!Next

LEMMA FetchesShape ==
    ASSUME UsersShape, NEW s \in UserStores, NEW answered \in SUBSET requests, Fetches(s, answered),
           account' = account, removed' \subseteq Users
    PROVE  UsersShape'
  <1>1. PICK m \in UserRequests : requests' = (requests \ answered) \cup {m} /\ Carries(m, "fetch", s)
    BY DEF Fetches
  <1>2. store' \in UserStores
    BY Queried DEF Fetches
  <1>3. m.check /\ m.kind = "fetch" /\ m.status = "sent"
    BY <1>1 DEF Carries
  <1>4. sent' \in Nat
    BY DEF Fetches, UsersShape
  <1> QED
    BY <1>1, <1>2, <1>3, <1>4 DEF UsersShape

LEMMA ClientShape == ASSUME UsersShape, UsersClient PROVE UsersShape'
  <1>1. account' = account /\ removed' = removed
    BY DEF UsersClient
  <1>2. CASE Quiet /\ store' \in UserStores
    BY <1>1, <1>2 DEF Quiet, UsersShape
  <1>3. ASSUME NEW k \in {"save", "delete"}, Posts(k) PROVE UsersShape'
    <2>1. PICK m \in UserRequests : Sends(m) /\ Carries(m, k, store)
      BY <1>3 DEF Posts
    <2>2. /\ m.check /\ m.status = "sent" /\ m.kind = k /\ m.form = store.form /\ m.form # None
          /\ k = "delete" => m.form.id \in Users
      BY <1>3, <2>1 DEF Carries, Posts
    <2>3. requests' = requests \cup {m} /\ sent' \in Nat /\ store' = store
      BY <1>3, <2>1 DEF Sends, UsersShape, Posts
    <2> QED
      BY <1>1, <2>2, <2>3 DEF UsersShape
  <1>4. ASSUME NEW s \in UserStores, Fetches(s, {}) PROVE UsersShape'
    <2>1. removed' \subseteq Users
      BY <1>1 DEF UsersShape
    <2> QED
      BY <1>1, <1>4, <2>1, FetchesShape
  <1> QED
    BY <1>2, <1>3, <1>4 DEF UsersClient

LEMMA ServedShape ==
    ASSUME UsersShape, NEW r \in requests, NEW a \in UserRequests, UserServed(r, a) PROVE UsersShape'
  <1>1. /\ requests' = (requests \ {r}) \cup {a} /\ UNCHANGED <<store, sent, removed>>
        /\ a.kind = r.kind /\ a.form = r.form /\ a.check = r.check /\ account' \in Directories
    BY DEF UserServed, UserBecomes
  <1>2. /\ a.kind = "fetch" => a.status # "failed"
        /\ a.status = "checked" => a.kind = "save" /\ a.form.id \in DOMAIN account
    BY <1>1 DEF UserServed, UserHandled, UserWritten, UsersListed, UserRefused, UserMade, UserChecked,
                UserChanged, UserDeleted
  <1>3. DOMAIN account \subseteq Users
    BY DirectoryShape DEF UsersShape
  <1> QED
    BY <1>1, <1>2, <1>3 DEF UsersShape

LEMMA FirstUsersShape == ASSUME Manager!ConstantsOK, Manager!Init PROVE UsersShape
  <1>1. PICK existing \in SUBSET Users : account = [u \in existing |-> [rev |-> 1, products |-> {}]]
    BY DEF Manager!Init
  <1>2. account \in [existing -> UserRecords]
    BY <1>1 DEF UserRecords
  <1>3. account \in Directories /\ DOMAIN account \subseteq Users
    BY <1>1, <1>2, DirectoryMade
  <1>4. /\ store = [users |-> DOMAIN account, known |-> account, form |-> None, filter |-> None,
                    loading |-> FALSE, section |-> "my_company"]
        /\ requests = {} /\ sent = 0 /\ removed = {}
    BY DEF Manager!Init
  <1>5. store \in UserStores
    BY <1>3, <1>4 DEF UserStores
  <1> QED
    BY <1>3, <1>4, <1>5 DEF UsersShape

LEMMA UsersShapeKept == ASSUME UsersShape, Manager!ConstantsOK, [Manager!Next]_Manager!vars PROVE UsersShape'
  <1>1. CASE UsersClient
    BY <1>1, ClientShape
  <1>2. ASSUME NEW u \in Users, Manager!SavedElsewhere(u) PROVE UsersShape'
    BY <1>2, SavedElsewhereStep DEF UsersShape
  <1>3. ASSUME NEW r \in requests, NEW a \in UserRequests, UserServed(r, a) PROVE UsersShape'
    BY <1>3, ServedShape
  <1>4. ASSUME NEW r \in requests, Manager!Fetched(r) PROVE UsersShape'
    BY <1>4, FetchedStep DEF UsersShape
  <1>5. ASSUME NEW r \in requests, Manager!PostAnswered(r) PROVE UsersShape'
    BY <1>5, PostAnsweredStep, FetchesShape DEF UsersShape
  <1>6. ASSUME NEW r \in requests, Manager!DeleteAnswered(r) PROVE UsersShape'
    <2>1. removed' \subseteq Users
      BY <1>6, DeleteAnsweredStep DEF UsersShape
    <2> QED
      <3>1. /\ Manager!RemoveUser(store, r.form.id) \in UserStores
            /\ Fetches(Manager!RemoveUser(store, r.form.id), {r}) /\ account' = account
        BY <1>6, DeleteAnsweredStep
      <3>2. {r} \in SUBSET requests
        OBVIOUS
      <3> QED
        BY <2>1, <3>1, <3>2, FetchesShape
  <1>7. ASSUME NEW r \in requests, Manager!Failed(r) PROVE UsersShape'
    BY <1>7 DEF Manager!Failed, UsersShape
  <1>8. CASE UNCHANGED Manager!vars
    BY <1>8 DEF Manager!vars, UsersShape
  <1> QED
    BY <1>1, <1>2, <1>3, <1>4, <1>5, <1>6, <1>7, <1>8, UsersSteps

\* What the page of users holds has its shape: the list and the forms are of users there are or
\* were, and what it asks to delete has an id.
THEOREM UsersTypeCorrect == ASSUME Manager!ConstantsOK PROVE Manager!Spec => []Manager!TypeOK
  <1>1. Manager!Init => UsersShape
    BY FirstUsersShape
  <1>2. UsersShape /\ [Manager!Next]_Manager!vars => UsersShape'
    BY UsersShapeKept
  <1>3. UsersShape => Manager!TypeOK
    <2> SUFFICES ASSUME UsersShape PROVE Manager!TypeOK
      OBVIOUS
    <2>1. store.known \in Directories /\ account \in Directories /\ store.users \subseteq Users
      BY DEF UsersShape, UserStores
    <2>2. DOMAIN account \subseteq Users /\ DOMAIN store.known \subseteq Users
      BY <2>1, DirectoryShape
    <2>3. store.form # None => store.form.id \in Users \cup {None} /\ store.form.products \subseteq Products
      BY DEF UsersShape, UserStores, UserForms
    <2> QED
      BY <2>1, <2>2, <2>3 DEF UsersShape, Manager!TypeOK
  <1> QED
    BY <1>1, <1>2, <1>3, PTL DEF Manager!Spec

\* A user whose save was compared with his etag is as he was then, unless a save of his ran into it.
CheckedInv ==
    /\ lost \subseteq clashed
    /\ \A q \in requests : q.status = "checked" /\ q.form.id \in DOMAIN account =>
          account[q.form.id].rev = q.form.rev \/ q.form.id \in clashed

\* What a save leaves, whether it makes the user u or changes him.
LEMMA SavedKeeps ==
    ASSUME UsersShape, CheckedInv, NEW r \in requests, NEW u, Manager!Saved(r, u),
           u \in DOMAIN account => r.status = "checked" /\ r.form.id = u,
           NEW a, a.status # "checked", requests' = (requests \ {r}) \cup {a},
           u \in Users
    PROVE  CheckedInv'
  <1>1. /\ DOMAIN account' = DOMAIN account \cup {u}
        /\ \A v \in DOMAIN account : v # u => account'[v] = account[v]
        /\ lost' = lost \cup {v \in {u} \ Manager!Fresh : account[v].rev # r.form.rev}
        /\ clashed' = clashed \cup Manager!Clashing(u, requests \ {r})
    BY DEF Manager!Saved, Manager!With
  <1>2. \A v \in {u} \ Manager!Fresh : account[v].rev # r.form.rev => v \in clashed
    BY DEF Manager!Fresh, CheckedInv
  <1>3. lost' \subseteq clashed'
    BY <1>1, <1>2 DEF CheckedInv
  <1>4. ASSUME NEW q \in requests', q.status = "checked", q.form.id \in DOMAIN account'
        PROVE  account'[q.form.id].rev = q.form.rev \/ q.form.id \in clashed'
    <2>1. q \in requests \ {r}
      BY <1>4
    <2>2. CASE q.form.id = u
      BY <1>1, <1>4, <2>1, <2>2 DEF Manager!Clashing
    <2>3. CASE q.form.id # u
      BY <1>1, <1>4, <2>1, <2>3 DEF CheckedInv
    <2> QED
      BY <2>2, <2>3
  <1> QED
    BY <1>3, <1>4 DEF CheckedInv

\* A step that saves nothing and compares no etag.
LEMMA UncheckedKeeps ==
    ASSUME CheckedInv, lost' = lost, clashed \subseteq clashed',
           \A v \in DOMAIN account' : v \in DOMAIN account /\ account'[v] = account[v],
           \A q \in requests' : q.status = "checked" => q \in requests
    PROVE  CheckedInv'
  BY DEF CheckedInv

LEMMA CheckedKept ==
    ASSUME UsersShape, Manager!ConstantsOK, CheckedInv, [Manager!Next]_Manager!vars
    PROVE  CheckedInv'
  <1>1. ASSUME UNCHANGED <<account, lost, clashed>>,
               \A q \in requests' : q.status = "checked" => q \in requests
        PROVE  CheckedInv'
    BY <1>1, UncheckedKeeps
  <1>2. ASSUME NEW s, NEW answered, Fetches(s, answered), UNCHANGED <<account, lost, clashed>>
        PROVE  CheckedInv'
    <2>1. \A q \in requests' : q.status = "checked" => q \in requests
      BY <1>2 DEF Fetches, Carries
    <2> QED
      BY <1>1, <1>2, <2>1
  <1>3. CASE Manager!Administrator
    <2>1. UsersClient
      BY <1>3, UsersClientSteps
    <2>2. \A q \in requests' : q.status = "checked" => q \in requests
      BY <2>1 DEF UsersClient, Quiet, Posts, Sends, Fetches, Carries
    <2> QED
      BY <1>1, <2>1, <2>2 DEF UsersClient
  <1>4. ASSUME NEW u \in Users, Manager!SavedElsewhere(u) PROVE CheckedInv'
    <2>1. /\ account' = [account EXCEPT ![u].rev = @ + 1] /\ lost' = lost /\ requests' = requests
          /\ clashed' = clashed \cup Manager!Clashing(u, requests)
      BY <1>4 DEF Manager!SavedElsewhere
    <2>2. DOMAIN account' = DOMAIN account /\ \A v \in DOMAIN account : v # u => account'[v] = account[v]
      BY <2>1
    <2>3. ASSUME NEW q \in requests, q.status = "checked", q.form.id \in DOMAIN account
          PROVE  account'[q.form.id].rev = q.form.rev \/ q.form.id \in clashed'
      <3>1. CASE q.form.id = u
        BY <2>1, <2>3, <3>1 DEF Manager!Clashing
      <3>2. CASE q.form.id # u
        BY <2>1, <2>2, <2>3, <3>2 DEF CheckedInv
      <3> QED
        BY <3>1, <3>2
    <2> QED
      BY <2>1, <2>2, <2>3 DEF CheckedInv
  <1>5. ASSUME NEW r \in requests, Manager!Handle(r) PROVE CheckedInv'
    <2>1. /\ r \in UserRequests /\ r.status = "sent" /\ r.check
      BY <1>5 DEF Manager!Handle, UsersShape
    <2>2. CASE r.kind = "fetch"
      <3>1. \A q \in requests' : q.status = "checked" => q \in requests
        BY <1>5, <2>1, <2>2 DEF Manager!Handle, UserRequests
      <3> QED
        BY <1>1, <1>5, <2>2, <3>1 DEF Manager!Handle
    <2>3. CASE r.kind = "save" /\ r.form.id = None
      <3>1. PICK u \in Manager!Fresh : Manager!Saved(r, u) /\ requests' = Manager!Done(r, "done")
        BY <1>5, <2>3 DEF Manager!Handle
      <3>2. u \in Users /\ u \notin DOMAIN account
        BY DEF Manager!Fresh
      <3>3. [r EXCEPT !.status = "done"].status # "checked"
        BY <2>1 DEF UserRequests
      <3>4. requests' = (requests \ {r}) \cup {[r EXCEPT !.status = "done"]}
        BY <3>1 DEF Manager!Done
      <3> QED
        BY <3>1, <3>2, <3>3, <3>4, SavedKeeps
    <2>4. CASE r.kind = "save" /\ r.form.id # None
      <3>1. /\ requests' = Manager!Done(r, IF Manager!EtagAgrees(r) THEN "checked" ELSE "failed")
            /\ account' = account /\ lost' = lost /\ clashed' = clashed
        BY <1>5, <2>4 DEF Manager!Handle
      <3>2. ASSUME NEW q \in requests', q.status = "checked"
            PROVE  q \in requests \/ (Manager!EtagAgrees(r) /\ q.form = r.form)
        BY <2>1, <3>1, <3>2 DEF Manager!Done, UserRequests
      <3>3. Manager!EtagAgrees(r) => account[r.form.id].rev = r.form.rev
        BY <2>1 DEF Manager!EtagAgrees
      <3> QED
        BY <3>1, <3>2, <3>3 DEF CheckedInv
    <2>5. CASE r.kind = "delete"
      <3>1. /\ account' = Manager!Without(account, r.form.id) /\ lost' = lost /\ clashed' = clashed
            /\ requests' = Manager!Done(r, IF r.form.id \in DOMAIN account THEN "done" ELSE "failed")
        BY <1>5, <2>5 DEF Manager!Handle
      <3>2. \A q \in requests' : q.status = "checked" => q \in requests
        BY <2>1, <3>1 DEF Manager!Done, UserRequests
      <3>3. \A v \in DOMAIN account' : v \in DOMAIN account /\ account'[v] = account[v]
        BY <3>1 DEF Manager!Without
      <3> QED
        BY <3>1, <3>2, <3>3, UncheckedKeeps
    <2> QED
      BY <2>1, <2>2, <2>3, <2>4, <2>5 DEF UserRequests
  <1>6. ASSUME NEW r \in requests, Manager!Write(r) PROVE CheckedInv'
    <2>1. r \in UserRequests /\ r.status = "checked" /\ r.form.id \in Users
      BY <1>6 DEF Manager!Write, UsersShape
    <2>2. \A status \in {"done", "failed"} : [r EXCEPT !.status = status].status # "checked"
      BY <2>1 DEF UserRequests
    <2>3. CASE Manager!Saved(r, r.form.id) /\ requests' = Manager!Done(r, "done")
      BY <2>1, <2>2, <2>3, SavedKeeps DEF Manager!Done
    <2>4. CASE requests' = Manager!Done(r, "failed") /\ UNCHANGED <<account, lost, clashed>>
      <3>1. \A q \in requests' : q.status = "checked" => q \in requests
        BY <2>2, <2>4 DEF Manager!Done
      <3> QED
        BY <1>1, <2>4, <3>1
    <2> QED
      BY <1>6, <2>3, <2>4 DEF Manager!Write
  <1>7. ASSUME NEW r \in requests, Manager!Fetched(r) \/ Manager!Failed(r) PROVE CheckedInv'
    BY <1>1, <1>7 DEF Manager!Fetched, Manager!Failed
  <1>8. ASSUME NEW r \in requests, Manager!PostAnswered(r) \/ Manager!DeleteAnswered(r) PROVE CheckedInv'
    BY <1>2, <1>8, PostAnsweredStep, DeleteAnsweredStep
  <1>9. CASE UNCHANGED Manager!vars
    BY <1>1, <1>9 DEF Manager!vars
  <1> QED
    BY <1>3, <1>4, <1>5, <1>6, <1>7, <1>8, <1>9, Zenon DEF Manager!Next

\* The etag of the form goes with it: a save, of a form opened long ago, from a list filtered since
\* or twice by a double click, in any order of the answers, replaces one it has not seen only when
\* the two ran into each other: one was written after the etag of the other was compared.
THEOREM NothingOverwritten == ASSUME Manager!ConstantsOK PROVE Manager!Spec => []Manager!NoLostUpdate
  <1>1. Manager!Init => UsersShape /\ CheckedInv
    BY FirstUsersShape DEF Manager!Init, CheckedInv
  <1>2. UsersShape /\ CheckedInv /\ [Manager!Next]_Manager!vars => UsersShape' /\ CheckedInv'
    BY UsersShapeKept, CheckedKept
  <1>3. CheckedInv => Manager!NoLostUpdate
    BY DEF CheckedInv, Manager!NoLostUpdate
  <1> QED
    BY <1>1, <1>2, <1>3, PTL DEF Manager!Spec

--------------------------------------------------------------------------------
(* A user whose deletion was answered is not listed again. *)

\* A deleted user is on no list that arrives after the answer to the deletion.
UserGoneInv ==
    /\ removed \cap DOMAIN account = {}
    /\ \A d \in requests : d.kind = "delete" /\ d.status = "done" => d.form.id \notin DOMAIN account
    /\ \A d, r \in requests :
          /\ d.kind = "delete" /\ d.status = "done" /\ d.n < r.n
          /\ r.kind = "fetch" /\ r.status = "done"
          => d.form.id \notin DOMAIN r.answer
    /\ \A r \in requests : r.kind = "fetch" /\ r.status = "done" => DOMAIN r.answer \cap removed = {}
    /\ Manager!DeletedStaysGone

LEMMA UsersInOrderKept ==
    ASSUME Manager!ConstantsOK, ~AnyOrder, UsersShape, InOrder, [Manager!Next]_Manager!vars
    PROVE  InOrder'
  <1>1. sent \in Nat /\ \A r \in requests : r.n \in Nat
    BY DEF UsersShape, UserRequests
  <1>2. ASSUME NEW rest \in SUBSET requests, NEW m, m.n = sent + 1, m.status = "sent",
               requests' = rest \cup {m}, sent' = sent + 1
        PROVE  InOrder'
    BY <1>1, <1>2 DEF InOrder
  <1>3. ASSUME requests' \subseteq requests, sent' = sent PROVE InOrder'
    BY <1>3 DEF InOrder
  <1>4. ASSUME NEW s \in UserStores, NEW answered \in SUBSET requests, Fetches(s, answered)
        PROVE  InOrder'
    BY <1>2, <1>4 DEF Fetches, Carries
  <1>5. CASE UsersClient
    <2>1. CASE Quiet
      BY <1>3, <2>1 DEF Quiet
    <2>2. ASSUME NEW k \in {"save", "delete"}, Posts(k) PROVE InOrder'
      BY <1>2, <2>2 DEF Posts, Sends, Carries
    <2>3. ASSUME NEW s \in UserStores, Fetches(s, {}) PROVE InOrder'
      BY <1>4, <2>3
    <2> QED
      BY <1>5, <2>1, <2>2, <2>3 DEF UsersClient
  <1>6. ASSUME NEW r \in requests, NEW a \in UserRequests, UserServed(r, a) PROVE InOrder'
    <2>1. a.n = r.n /\ requests' = (requests \ {r}) \cup {a} /\ sent' = sent
      BY <1>6 DEF UserServed, UserBecomes
    <2>2. a.status # "sent"
      BY <1>6 DEF UserServed, UserHandled, UserWritten, UsersListed, UserRefused, UserMade, UserChecked,
                  UserChanged, UserDeleted
    <2>3. \A x \in requests' : x = a \/ (x \in requests /\ x.n # a.n)
      BY <2>1 DEF InOrder
    <2>4. \A x \in requests' : x.n \in 1 .. sent'
      BY <2>1 DEF InOrder
    <2>5. \A x, o \in requests' : x.n = o.n => x = o
      BY <2>3 DEF InOrder
    <2>6. \A o \in requests : o.status = "sent" /\ o.n # r.n => r.n < o.n
      <3>1. CASE r.status = "checked"
        BY <3>1 DEF InOrder
      <3>2. CASE r.status = "sent" /\ \A o \in requests : o.status = "sent" => o.n >= r.n
        BY <1>1, <3>2
      <3> QED
        BY <1>6, <3>1, <3>2 DEF UserServed, UserHandled, UserWritten, Manager!InTurn
    <2>7. \A x, o \in requests' : x.status # "sent" /\ o.status = "sent" => x.n < o.n
      BY <2>1, <2>2, <2>3, <2>6 DEF InOrder
    <2> QED
      BY <2>4, <2>5, <2>7 DEF InOrder
  <1>7. ASSUME NEW r \in requests, Manager!Fetched(r) \/ Manager!Failed(r) PROVE InOrder'
    BY <1>3, <1>7 DEF Manager!Fetched, Manager!Failed
  <1>8. ASSUME NEW r \in requests, Manager!PostAnswered(r) \/ Manager!DeleteAnswered(r) PROVE InOrder'
    <2>1. \E s \in UserStores : Fetches(s, {r})
      BY <1>8, PostAnsweredStep, DeleteAnsweredStep DEF UsersShape
    <2>2. {r} \in SUBSET requests
      OBVIOUS
    <2> QED
      BY <1>4, <2>1, <2>2
  <1>9. CASE UNCHANGED Manager!vars \/ \E u \in Users : Manager!SavedElsewhere(u)
    BY <1>3, <1>9, SavedElsewhereStep DEF Manager!vars
  <1> QED
    BY <1>5, <1>6, <1>7, <1>8, <1>9, UsersSteps

\* A step that answers no request of the server keeps what is gone.
LEMMA UserGoneWhenAsked ==
    ASSUME UsersShape, UserGoneInv, NEW rest \in SUBSET requests, NEW new,
           requests' = rest \cup new, \A m \in new : m.status # "done",
           DOMAIN account' = DOMAIN account, removed' = removed, store'.users \cap removed = {}
    PROVE  UserGoneInv'
  BY DEF UserGoneInv, Manager!DeletedStaysGone

LEMMA UserGoneWhenFetching ==
    ASSUME UsersShape, UserGoneInv, NEW s \in UserStores, NEW answered \in SUBSET requests,
           Fetches(s, answered), account' = account, removed' = removed, s.users \cap removed = {}
    PROVE  UserGoneInv'
  <1>1. PICK m \in UserRequests : requests' = (requests \ answered) \cup {m} /\ Carries(m, "fetch", s)
    BY DEF Fetches
  <1>2. \A x \in {m} : x.status # "done"
    BY <1>1 DEF Carries
  <1>3. store'.users \cap removed = {} /\ DOMAIN account' = DOMAIN account
    BY Queried DEF Fetches
  <1>4. (requests \ answered) \in SUBSET requests
    OBVIOUS
  <1> QED
    BY <1>1, <1>2, <1>3, <1>4, UserGoneWhenAsked

\* What the server does keeps what is gone.
LEMMA UserGoneKeptByServer ==
    ASSUME UsersShape, InOrder, UserGoneInv, NEW r \in requests, NEW a \in UserRequests, UserServed(r, a)
    PROVE  UserGoneInv'
  <1>1. /\ a.n = r.n /\ a.kind = r.kind /\ a.form = r.form
        /\ store' = store /\ removed' = removed /\ requests' = (requests \ {r}) \cup {a}
        /\ account \in Directories
    BY DEF UserServed, UserBecomes, UsersShape
  <1>2. \A x \in requests' : x = a \/ x \in requests
    BY <1>1
  <1>3. Manager!DeletedStaysGone'
    BY <1>1 DEF UserGoneInv, Manager!DeletedStaysGone
  <1>4. CASE UsersListed(r, a)
    <2>1. r.kind = "fetch" /\ account' = account /\ DOMAIN a.answer = Manager!Matching(r.filter)
      BY <1>4 DEF UsersListed
    <2>2. DOMAIN a.answer \subseteq DOMAIN account
      BY <1>1, <2>1, MatchingType
    <2>3. removed' \cap DOMAIN account' = {}
      BY <1>1, <2>1 DEF UserGoneInv
    <2>4. \A d \in requests' : d.kind = "delete" /\ d.status = "done" => d.form.id \notin DOMAIN account'
      BY <1>1, <1>2, <2>1 DEF UserGoneInv
    <2>5. \A d, o \in requests' :
             /\ d.kind = "delete" /\ d.status = "done" /\ d.n < o.n
             /\ o.kind = "fetch" /\ o.status = "done"
             => d.form.id \notin DOMAIN o.answer
      BY <1>1, <1>2, <2>1, <2>2, <2>4 DEF UserGoneInv
    <2>6. \A o \in requests' : o.kind = "fetch" /\ o.status = "done" => DOMAIN o.answer \cap removed' = {}
      BY <1>1, <1>2, <2>2 DEF UserGoneInv
    <2> QED
      BY <1>3, <2>3, <2>4, <2>5, <2>6 DEF UserGoneInv
  <1>5. CASE UserRefused(r, a) \/ UserMade(r, a) \/ UserChecked(r, a) \/ UserChanged(r, a)
    <2>1. r.kind # "fetch" /\ ~ (a.kind = "delete" /\ a.status = "done")
      BY <1>1, <1>5 DEF UserRefused, UserMade, UserChecked, UserChanged
    <2>2. \/ DOMAIN account' = DOMAIN account
          \/ \E u \in Users : /\ DOMAIN account' = DOMAIN account \cup {u} /\ u \notin removed
                              /\ \A d \in requests : d.kind = "delete" => d.form.id # u
      BY <1>5 DEF UserRefused, UserMade, UserChecked, UserChanged, Manager!With
    <2>3. removed' \cap DOMAIN account' = {}
      BY <1>1, <2>2 DEF UserGoneInv
    <2>4. \A d \in requests : d.kind = "delete" /\ d.status = "done" => d.form.id \notin DOMAIN account'
      BY <2>2 DEF UserGoneInv
    <2>5. \A d \in requests' : d.kind = "delete" /\ d.status = "done" => d.form.id \notin DOMAIN account'
      BY <1>2, <2>1, <2>4
    <2>6. \A d, o \in requests' :
             /\ d.kind = "delete" /\ d.status = "done" /\ d.n < o.n
             /\ o.kind = "fetch" /\ o.status = "done"
             => d.form.id \notin DOMAIN o.answer
      BY <1>1, <1>2, <2>1 DEF UserGoneInv
    <2>7. \A o \in requests' : o.kind = "fetch" /\ o.status = "done" => DOMAIN o.answer \cap removed' = {}
      BY <1>1, <1>2, <2>1 DEF UserGoneInv
    <2> QED
      BY <1>3, <2>3, <2>5, <2>6, <2>7 DEF UserGoneInv
  <1>6. CASE r.status = "sent" /\ UserDeleted(r, a)
    <2>1. DOMAIN account' = DOMAIN account \ {r.form.id} /\ a.kind = "delete"
      BY <1>1, <1>6, WithoutType DEF UserDeleted
    <2>2. removed' \cap DOMAIN account' = {}
      BY <1>1, <2>1 DEF UserGoneInv
    <2>3. \A d \in requests' : d.kind = "delete" /\ d.status = "done" => d.form.id \notin DOMAIN account'
      BY <1>1, <1>2, <2>1 DEF UserGoneInv
    <2>4. \A o \in requests : o.kind = "fetch" /\ o.status = "done" => ~ (a.n < o.n)
      <3> SUFFICES ASSUME NEW o \in requests, o.kind = "fetch", o.status = "done"
                   PROVE  ~ (a.n < o.n)
        OBVIOUS
      <3>1. o.n < r.n
        BY <1>6 DEF InOrder
      <3>2. o.n \in Nat /\ r.n \in Nat
        BY DEF UsersShape, UserRequests
      <3> QED
        BY <1>1, <3>1, <3>2
    <2>5. \A d, o \in requests' :
             /\ d.kind = "delete" /\ d.status = "done" /\ d.n < o.n
             /\ o.kind = "fetch" /\ o.status = "done"
             => d.form.id \notin DOMAIN o.answer
      BY <1>1, <1>2, <2>1, <2>4 DEF UserGoneInv
    <2>6. \A o \in requests' : o.kind = "fetch" /\ o.status = "done" => DOMAIN o.answer \cap removed' = {}
      BY <1>1, <1>2, <2>1 DEF UserGoneInv
    <2> QED
      BY <1>3, <2>2, <2>3, <2>5, <2>6 DEF UserGoneInv
  <1> QED
    BY <1>4, <1>5, <1>6 DEF UserServed, UserHandled, UserWritten

LEMMA UserGoneKept ==
    ASSUME Manager!ConstantsOK, ~AnyOrder, UsersShape, InOrder, UserGoneInv, [Manager!Next]_Manager!vars
    PROVE  UserGoneInv'
  <1>1. store.users \cap removed = {} /\ store \in UserStores
    BY DEF UserGoneInv, Manager!DeletedStaysGone, UsersShape
  <1>2. CASE UsersClient
    <2>1. account' = account /\ removed' = removed
      BY <1>2 DEF UsersClient
    <2>2. CASE Quiet /\ store'.users = store.users
      <3>1. requests' = requests \cup {}
        BY <2>2 DEF Quiet
      <3> QED
        BY <1>1, <2>1, <2>2, <3>1, UserGoneWhenAsked
    <2>3. ASSUME NEW k \in {"save", "delete"}, Posts(k) PROVE UserGoneInv'
      <3>1. PICK m \in UserRequests : Sends(m) /\ Carries(m, k, store)
        BY <2>3 DEF Posts
      <3>2. requests' = requests \cup {m} /\ store' = store /\ \A x \in {m} : x.status # "done"
        BY <2>3, <3>1 DEF Posts, Sends, Carries
      <3> QED
        BY <1>1, <2>1, <3>2, UserGoneWhenAsked
    <2>4. ASSUME NEW s \in UserStores, Fetches(s, {}), s.users = store.users PROVE UserGoneInv'
      <3>1. {} \in SUBSET requests /\ s.users \cap removed = {}
        BY <1>1, <2>4
      <3> QED
        BY <2>1, <2>4, <3>1, UserGoneWhenFetching
    <2> QED
      BY <1>2, <2>2, <2>3, <2>4 DEF UsersClient
  <1>3. ASSUME NEW u \in Users, Manager!SavedElsewhere(u) PROVE UserGoneInv'
    <2>1. requests' = requests \cup {}
      BY <1>3, SavedElsewhereStep
    <2> QED
      BY <1>1, <1>3, <2>1, SavedElsewhereStep, UserGoneWhenAsked
  <1>4. ASSUME NEW r \in requests, NEW a \in UserRequests, UserServed(r, a) PROVE UserGoneInv'
    BY <1>4, UserGoneKeptByServer
  <1>5. ASSUME NEW r \in requests, Manager!Fetched(r) PROVE UserGoneInv'
    <2>1. /\ r.kind = "fetch" /\ r.status = "done" /\ requests' = (requests \ {r}) \cup {}
          /\ store'.users = DOMAIN r.answer /\ account' = account /\ removed' = removed
      BY <1>5, FetchedStep
    <2>2. DOMAIN r.answer \cap removed = {}
      BY <2>1 DEF UserGoneInv
    <2> QED
      BY <2>1, <2>2, UserGoneWhenAsked
  <1>6. ASSUME NEW r \in requests, Manager!Failed(r) PROVE UserGoneInv'
    <2>1. /\ requests' = (requests \ {r}) \cup {} /\ account' = account /\ removed' = removed
          /\ store' = store
      BY <1>6 DEF Manager!Failed
    <2> QED
      BY <1>1, <2>1, UserGoneWhenAsked
  <1>7. ASSUME NEW r \in requests, Manager!PostAnswered(r) PROVE UserGoneInv'
    <2>1. {r} \in SUBSET requests
      OBVIOUS
    <2> QED
      BY <1>1, <1>7, <2>1, PostAnsweredStep, UserGoneWhenFetching
  <1>8. ASSUME NEW r \in requests, Manager!DeleteAnswered(r) PROVE UserGoneInv'
    <2> DEFINE s == Manager!RemoveUser(store, r.form.id)
    <2>1. /\ r.kind = "delete" /\ r.status = "done" /\ Manager!InTurn(r)
          /\ removed' = removed \cup {r.form.id}
          /\ s \in UserStores /\ Fetches(s, {r}) /\ account' = account
      BY <1>8, DeleteAnsweredStep
    <2>2. s.users = store.users \ {r.form.id}
      BY <1>1, RemovedForm
    <2> HIDE DEF s
    <2>3. store'.users = store.users \ {r.form.id}
      BY <2>1, <2>2, Queried DEF Fetches
    <2>4. PICK m \in UserRequests : requests' = (requests \ {r}) \cup {m} /\ Carries(m, "fetch", s)
      BY <2>1 DEF Fetches
    <2>5. \A x \in requests' : x.status = "done" => x \in requests /\ r.n < x.n
      <3> SUFFICES ASSUME NEW x \in requests', x.status = "done" PROVE x \in requests /\ r.n < x.n
        OBVIOUS
      <3>1. x \in requests /\ x # r
        BY <2>4 DEF Carries
      <3>2. x.n >= r.n
        BY <2>1, <3>1 DEF Manager!InTurn
      <3>3. x.n # r.n /\ x.n \in Nat /\ r.n \in Nat
        BY <3>1 DEF InOrder, UsersShape, UserRequests
      <3> QED
        BY <3>1, <3>2, <3>3
    <2>6. removed' \cap DOMAIN account' = {}
      BY <2>1 DEF UserGoneInv
    <2>7. \A d \in requests' : d.kind = "delete" /\ d.status = "done" => d.form.id \notin DOMAIN account'
      BY <2>1, <2>5 DEF UserGoneInv
    <2>8. \A d, o \in requests' :
             /\ d.kind = "delete" /\ d.status = "done" /\ d.n < o.n
             /\ o.kind = "fetch" /\ o.status = "done"
             => d.form.id \notin DOMAIN o.answer
      BY <2>5 DEF UserGoneInv
    <2>9. \A o \in requests' : o.kind = "fetch" /\ o.status = "done" => DOMAIN o.answer \cap removed' = {}
      BY <2>1, <2>5 DEF UserGoneInv
    <2>10. Manager!DeletedStaysGone'
      BY <1>1, <2>1, <2>3 DEF Manager!DeletedStaysGone
    <2> QED
      BY <2>6, <2>7, <2>8, <2>9, <2>10 DEF UserGoneInv
  <1>9. CASE UNCHANGED Manager!vars
    BY <1>9 DEF Manager!vars, UserGoneInv, Manager!DeletedStaysGone
  <1> QED
    BY <1>2, <1>3, <1>4, <1>5, <1>6, <1>7, <1>8, <1>9, UsersSteps

\* When answers keep their order a user whose deletion was confirmed does not come back to the
\* list: a list made before the deletion arrives before its answer, which takes him off.
THEOREM DeletedUsersStayGone ==
    ASSUME Manager!ConstantsOK, ~AnyOrder PROVE Manager!Spec => []Manager!DeletedStaysGone
  <1> DEFINE Inv == UsersShape /\ InOrder /\ UserGoneInv
  <1>1. Manager!Init => Inv
    <2> SUFFICES ASSUME Manager!Init PROVE Inv
      OBVIOUS
    <2>1. UsersShape
      BY FirstUsersShape
    <2>2. InOrder /\ UserGoneInv
      BY DEF Manager!Init, InOrder, UserGoneInv, Manager!DeletedStaysGone
    <2> QED
      BY <2>1, <2>2
  <1>2. Inv /\ [Manager!Next]_Manager!vars => Inv'
    BY UsersShapeKept, UsersInOrderKept, UserGoneKept
  <1>3. Inv => Manager!DeletedStaysGone
    BY DEF UserGoneInv
  <1> QED
    BY <1>1, <1>2, <1>3, PTL DEF Manager!Spec

--------------------------------------------------------------------------------
(* An administrator who is alone and waits for every answer. *)

\* The users who have p in a directory, and a form that gives away only what is available there
\* or was given to its user before.
Holders(list, p) == {u \in DOMAIN list : p \in list[u].products}
Fits(list, f) ==
    f # None => \A p \in f.products :
                    \/ Manager!HasUnlimitedSeats(p) \/ Cardinality(Holders(list, p)) < MaxSeats[p]
                    \/ f.id \in DOMAIN list /\ p \in list[f.id].products
Enough(list) ==
    \A p \in Products : Manager!HasUnlimitedSeats(p) \/ Cardinality(Holders(list, p)) <= MaxSeats[p]

\* His page knows the users as they are, but for what is on its way.
SeatsInv ==
    /\ store.filter = None /\ Fits(store.known, store.form) /\ Enough(account)
    /\ requests = {} => store.known = account
    /\ \A r \in requests :
          /\ r.kind # "fetch" /\ r.status # "done" => store.known = account
          /\ r.kind = "save" /\ r.status \in {"sent", "checked"} => Fits(store.known, r.form)
          /\ r.kind = "save" /\ r.status = "done" => DOMAIN store.known \subseteq DOMAIN account
          /\ r.kind = "delete" /\ r.status = "done" =>
                DOMAIN store.known \subseteq DOMAIN account \cup {r.form.id}
          /\ r.kind = "fetch" => /\ r.filter = None /\ store.form = None
                                 /\ DOMAIN store.known \subseteq DOMAIN account
                                 /\ r.status = "done" => r.answer = account

LEMMA SameCount == ASSUME NEW S PROVE Manager!Cardinality(S) = Cardinality(S)
  BY Zenon DEF Cardinality, Manager!Cardinality

LEMMA FewerHolders ==
    ASSUME Manager!ConstantsOK, IsFiniteSet(Users), NEW p \in Products, NEW S \in SUBSET Users,
           NEW T \in SUBSET S, Cardinality(S) <= MaxSeats[p]
    PROVE  Cardinality(T) <= MaxSeats[p]
  <1>1. IsFiniteSet(S) /\ IsFiniteSet(T)
    BY FS_Subset
  <1>2. Cardinality(T) <= Cardinality(S) /\ Cardinality(S) \in Nat /\ Cardinality(T) \in Nat
    BY <1>1, FS_Subset, FS_CardinalityType
  <1>3. MaxSeats[p] \in Nat
    BY DEF Manager!ConstantsOK
  <1> QED
    BY <1>2, <1>3

LEMMA OneHolderMore ==
    ASSUME Manager!ConstantsOK, IsFiniteSet(Users), NEW p \in Products, NEW S \in SUBSET Users,
           NEW u \in Users, NEW T \in SUBSET (S \cup {u}), Cardinality(S) < MaxSeats[p]
    PROVE  Cardinality(T) <= MaxSeats[p]
  <1>1. IsFiniteSet(S) /\ IsFiniteSet(S \cup {u}) /\ IsFiniteSet(T)
    <2>1. S \cup {u} \in SUBSET Users /\ T \in SUBSET Users
      OBVIOUS
    <2> QED
      BY <2>1, FS_Subset
  <1>2. Cardinality(S \cup {u}) = IF u \in S THEN Cardinality(S) ELSE Cardinality(S) + 1
    BY <1>1, FS_AddElement
  <1>3. Cardinality(T) <= Cardinality(S \cup {u})
    BY <1>1, FS_Subset
  <1>4. Cardinality(S) \in Nat /\ Cardinality(T) \in Nat /\ MaxSeats[p] \in Nat
    BY <1>1, FS_CardinalityType DEF Manager!ConstantsOK
  <1> QED
    BY <1>2, <1>3, <1>4

\* A save of a form that fits gives away no seat that is not there.
LEMMA SeatsAfterSave ==
    ASSUME Manager!ConstantsOK, IsFiniteSet(Users), NEW list \in Directories, Enough(list),
           NEW f \in UserForms, f # None, Fits(list, f), NEW u \in Users, f.id = u \/ f.id \notin DOMAIN list,
           NEW n \in Nat
    PROVE  Enough(Manager!With(list, u, [rev |-> n, products |-> f.products]))
  <1> DEFINE after == Manager!With(list, u, [rev |-> n, products |-> f.products])
  <1>1. DOMAIN list \subseteq Users /\ \A v \in DOMAIN list : list[v] \in UserRecords
    BY DirectoryShape
  <1>2. /\ DOMAIN after = DOMAIN list \cup {u} /\ after[u].products = f.products
        /\ \A v \in DOMAIN list : v # u => after[v] = list[v]
    BY DEF Manager!With
  <1> HIDE DEF after
  <1>3. ASSUME NEW p \in Products, ~ Manager!HasUnlimitedSeats(p)
        PROVE  Cardinality(Holders(after, p)) <= MaxSeats[p]
    <2>1. Holders(list, p) \in SUBSET Users /\ Cardinality(Holders(list, p)) <= MaxSeats[p]
      BY <1>1, <1>3 DEF Holders, Enough
    <2>2. CASE p \notin f.products \/ (f.id \in DOMAIN list /\ p \in list[f.id].products)
      <3>1. Holders(after, p) \in SUBSET Holders(list, p)
        BY <1>2, <2>2 DEF Holders
      <3> QED
        BY <2>1, <3>1, FewerHolders
    <2>3. CASE Cardinality(Holders(list, p)) < MaxSeats[p]
      <3>1. Holders(after, p) \in SUBSET (Holders(list, p) \cup {u})
        BY <1>2 DEF Holders
      <3> QED
        BY <2>1, <2>3, <3>1, OneHolderMore
    <2> QED
      BY <1>3, <2>2, <2>3 DEF Fits
  <1> QED
    BY <1>3 DEF Enough, after

LEMMA SeatsAfterDeletion ==
    ASSUME Manager!ConstantsOK, IsFiniteSet(Users), NEW list \in Directories, Enough(list), NEW u
    PROVE  Enough(Manager!Without(list, u))
  <1> DEFINE after == Manager!Without(list, u)
  <1>1. DOMAIN list \subseteq Users
    BY DirectoryShape
  <1>2. DOMAIN after = DOMAIN list \ {u} /\ \A v \in DOMAIN after : after[v] = list[v]
    BY DEF Manager!Without
  <1> HIDE DEF after
  <1>3. ASSUME NEW p \in Products, ~ Manager!HasUnlimitedSeats(p)
        PROVE  Cardinality(Holders(after, p)) <= MaxSeats[p]
    <2>1. Holders(list, p) \in SUBSET Users /\ Cardinality(Holders(list, p)) <= MaxSeats[p]
      BY <1>1, <1>3 DEF Holders, Enough
    <2>2. Holders(after, p) \in SUBSET Holders(list, p)
      BY <1>2 DEF Holders
    <2> QED
      BY <2>1, <2>2, FewerHolders
  <1> QED
    BY <1>3 DEF Enough, after

LEMMA OneUserRequestKept ==
    ASSUME Manager!ConstantsOK, Waits, UsersShape, OneRequest, [Manager!Next]_Manager!vars
    PROVE  OneRequest'
  <1>1. CASE UsersClient
    <2>1. requests = {}
      BY <1>1 DEF UsersClient, Manager!Turn
    <2> QED
      BY <1>1, <2>1 DEF UsersClient, Quiet, Posts, Sends, Fetches, OneRequest
  <1>2. ASSUME NEW r \in requests, NEW a \in UserRequests, UserServed(r, a) PROVE OneRequest'
    BY <1>2 DEF UserServed, UserBecomes, OneRequest
  <1>3. ASSUME NEW r \in requests, Manager!Fetched(r) \/ Manager!Failed(r) PROVE OneRequest'
    BY <1>3 DEF Manager!Fetched, Manager!Failed, OneRequest
  <1>4. ASSUME NEW r \in requests, Manager!PostAnswered(r) \/ Manager!DeleteAnswered(r) PROVE OneRequest'
    BY <1>4, PostAnsweredStep, DeleteAnsweredStep DEF Fetches, OneRequest
  <1>5. CASE UNCHANGED Manager!vars \/ \E u \in Users : Manager!SavedElsewhere(u)
    BY <1>5, SavedElsewhereStep DEF Manager!vars, OneRequest
  <1> QED
    BY <1>1, <1>2, <1>3, <1>4, <1>5, UsersSteps

\* What he makes of the form fits.
LEMMA FormedFits ==
    ASSUME UsersShape, Fits(store.known, store.form), UserFormed
    PROVE  Fits(store.known, store'.form)
  <1>1. store.form # None => store.form \in UserForms
    BY DEF UsersShape, UserStores
  <1>2. CASE store'.form = NewForm
    BY <1>2 DEF Fits, NewForm
  <1>3. ASSUME NEW u \in DOMAIN store.known, store'.form = KnownForm(u) PROVE Fits(store.known, store'.form)
    BY <1>3 DEF Fits, KnownForm
  <1>4. ASSUME NEW ps \in SUBSET Products, store.form # None, store'.form = [store.form EXCEPT !.products = ps],
               \A p \in ps : \/ Manager!HasSeatsAvailable(store, p) \/ p \in store.form.products
                             \/ p \in Manager!Original(store)
        PROVE  Fits(store.known, store'.form)
    <2>1. store'.form.id = store.form.id /\ store'.form.products = ps
      BY <1>1, <1>4 DEF UserForms
    <2> SUFFICES ASSUME NEW p \in ps
                 PROVE  \/ Manager!HasUnlimitedSeats(p) \/ Cardinality(Holders(store.known, p)) < MaxSeats[p]
                        \/ store.form.id \in DOMAIN store.known /\ p \in store.known[store.form.id].products
      BY <2>1 DEF Fits
    <2>2. CASE Manager!HasSeatsAvailable(store, p)
      BY <2>2, SameCount DEF Manager!HasSeatsAvailable, Manager!Assigned, Holders
    <2>3. CASE p \in store.form.products
      BY <1>4, <2>3 DEF Fits
    <2>4. CASE p \in Manager!Original(store)
      BY <2>4 DEF Manager!Original
    <2> QED
      BY <1>4, <2>2, <2>3, <2>4
  <1>5. CASE store'.form = None \/ store'.form = store.form
    BY <1>5 DEF Fits
  <1> QED
    BY <1>2, <1>3, <1>4, <1>5 DEF UserFormed

\* The list is asked for: the form is closed.
LEMMA SeatsWhenFetching ==
    ASSUME UsersShape, SeatsInv, NEW s \in UserStores, NEW answered \in SUBSET requests,
           requests \subseteq answered, Fetches(s, answered), account' = account, s.filter = None,
           DOMAIN s.known \subseteq DOMAIN account
    PROVE  SeatsInv'
  <1>1. PICK m \in UserRequests : requests' = (requests \ answered) \cup {m} /\ Carries(m, "fetch", s)
    BY DEF Fetches
  <1>2. requests' = {m} /\ m.kind = "fetch" /\ m.status = "sent" /\ m.filter = None
    BY <1>1 DEF Carries
  <1>3. store'.filter = None /\ store'.known = s.known /\ store'.form = None
    BY Queried DEF Fetches
  <1>4. Fits(store'.known, store'.form)
    BY <1>3 DEF Fits
  <1>5. Enough(account')
    BY DEF SeatsInv
  <1>6. DOMAIN store'.known \subseteq DOMAIN account'
    BY <1>3
  <1> QED
    BY <1>2, <1>3, <1>4, <1>5, <1>6 DEF SeatsInv

LEMMA SeatsKeptByClient ==
    ASSUME Manager!ConstantsOK, Waits, Filters = {}, UsersShape, SeatsInv, UsersClient
    PROVE  SeatsInv'
  <1>1. requests = {} /\ store.known = account /\ account' = account /\ Enough(account)
        /\ store.filter = None /\ Fits(store.known, store.form) /\ store \in UserStores
    BY DEF UsersClient, Manager!Turn, SeatsInv, UsersShape
  <1>2. CASE Quiet /\ UserFormed /\ store'.known = store.known /\ store'.filter = store.filter
    <2>1. Fits(store'.known, store'.form)
      BY <1>1, <1>2, FormedFits
    <2>2. requests' = {}
      BY <1>1, <1>2 DEF Quiet
    <2> QED
      BY <1>1, <1>2, <2>1, <2>2 DEF SeatsInv
  <1>3. ASSUME NEW k \in {"save", "delete"}, Posts(k) PROVE SeatsInv'
    <2>1. PICK m \in UserRequests : Sends(m) /\ Carries(m, k, store)
      BY <1>3 DEF Posts
    <2>2. requests' = {m} /\ m.kind = k /\ m.status = "sent" /\ m.form = store.form /\ store' = store
      BY <1>1, <1>3, <2>1 DEF Posts, Sends, Carries
    <2> QED
      BY <1>1, <2>2 DEF SeatsInv
  <1>4. ASSUME NEW s \in UserStores, Fetches(s, {}), s.known = store.known,
               s.filter \in Filters \cup {None, store.filter}
        PROVE  SeatsInv'
    <2>1. /\ {} \in SUBSET requests /\ requests \subseteq {} /\ s.filter = None
          /\ DOMAIN s.known \subseteq DOMAIN account
      BY <1>1, <1>4
    <2> QED
      BY <1>1, <1>4, <2>1, SeatsWhenFetching
  <1> QED
    BY <1>2, <1>3, <1>4 DEF UsersClient

LEMMA SeatsKeptByServer ==
    ASSUME Manager!ConstantsOK, IsFiniteSet(Users), UsersShape, OneRequest, SeatsInv,
           NEW r \in requests, NEW a \in UserRequests, UserServed(r, a)
    PROVE  SeatsInv'
  <1>1. /\ a.kind = r.kind /\ a.form = r.form /\ a.filter = r.filter /\ store' = store
        /\ r.status \in {"sent", "checked"}
        /\ requests' = {a} /\ account \in Directories /\ r \in UserRequests
        /\ r.kind = "save" => r.form \in UserForms /\ r.form # None
    BY Alone DEF UserServed, UserHandled, UserWritten, UserBecomes, UsersShape, UserRequests
  <1>2. DOMAIN account \subseteq Users /\ \A v \in DOMAIN account : account[v] \in UserRecords
    BY <1>1, DirectoryShape
  <1>3. /\ store.filter = None /\ Fits(store.known, store.form) /\ Enough(account)
        /\ r.kind # "fetch" => store.known = account
        /\ r.kind = "save" => Fits(store.known, r.form)
        /\ r.kind = "fetch" => /\ r.filter = None /\ store.form = None
                               /\ DOMAIN store.known \subseteq DOMAIN account
    BY <1>1 DEF SeatsInv
  <1>4. CASE UsersListed(r, a)
    <2>1. r.kind = "fetch" /\ account' = account /\ a.answer = [u \in Manager!Matching(r.filter) |-> account[u]]
      BY <1>4 DEF UsersListed
    <2>2. Manager!Matching(r.filter) = DOMAIN account
      BY <1>3, <2>1 DEF Manager!Matching
    <2>3. a.answer = account
      BY <1>1, <2>1, <2>2, DirectoryShape
    <2> QED
      BY <1>1, <1>3, <2>1, <2>3 DEF SeatsInv
  <1>5. CASE UserRefused(r, a) \/ UserChecked(r, a)
    <2>1. r.kind # "fetch" /\ account' = account /\ a.status \in {"failed", "checked"}
      BY <1>5 DEF UserRefused, UserChecked
    <2> QED
      BY <1>1, <1>3, <2>1 DEF SeatsInv
  <1>6. ASSUME NEW u \in Users, NEW n \in Nat, r.kind = "save", a.status = "done",
               r.form.id = u \/ r.form.id \notin DOMAIN account,
               account' = Manager!With(account, u, [rev |-> n, products |-> r.form.products])
        PROVE  SeatsInv'
    <2>1. Enough(account')
      BY <1>1, <1>3, <1>6, SeatsAfterSave
    <2>2. DOMAIN store.known \subseteq DOMAIN account'
      BY <1>3, <1>6 DEF Manager!With
    <2> QED
      BY <1>1, <1>3, <1>6, <2>1, <2>2 DEF SeatsInv
  <1>7. CASE UserMade(r, a)
    <2>1. PICK u \in Users : account' = Manager!With(account, u, [rev |-> 1, products |-> r.form.products])
      BY <1>7 DEF UserMade
    <2>2. r.kind = "save" /\ a.status = "done" /\ r.form.id \notin DOMAIN account
      BY <1>2, <1>7 DEF UserMade, Manager!ConstantsOK
    <2> QED
      BY <1>6, <2>1, <2>2
  <1>8. CASE UserChanged(r, a)
    <2>1. /\ r.kind = "save" /\ a.status = "done" /\ r.form.id \in Users
          /\ account[r.form.id].rev + 1 \in Nat
          /\ account' = Manager!With(account, r.form.id,
                             [rev |-> account[r.form.id].rev + 1, products |-> r.form.products])
      BY <1>2, <1>8 DEF UserChanged, UserRecords
    <2> QED
      BY <1>6, <2>1
  <1>9. CASE UserDeleted(r, a)
    <2>1. r.kind = "delete" /\ a.status = "done" /\ account' = Manager!Without(account, r.form.id)
      BY <1>9 DEF UserDeleted
    <2>2. Enough(account')
      BY <1>1, <1>3, <2>1, SeatsAfterDeletion
    <2>3. DOMAIN store.known \subseteq DOMAIN account' \cup {a.form.id}
      BY <1>1, <1>3, <2>1 DEF Manager!Without
    <2> QED
      BY <1>1, <1>3, <2>1, <2>2, <2>3 DEF SeatsInv
  <1> QED
    BY <1>4, <1>5, <1>7, <1>8, <1>9 DEF UserServed, UserHandled, UserWritten

LEMMA SeatsKept ==
    ASSUME Manager!ConstantsOK, IsFiniteSet(Users), Waits, ~MayFail, ~Others, Filters = {},
           UsersShape, OneRequest, SeatsInv, [Manager!Next]_Manager!vars
    PROVE  SeatsInv'
  <1>1. CASE UsersClient
    BY <1>1, SeatsKeptByClient
  <1>2. ASSUME NEW u \in Users, Manager!SavedElsewhere(u) PROVE SeatsInv'
    BY <1>2, SavedElsewhereStep
  <1>3. ASSUME NEW r \in requests, NEW a \in UserRequests, UserServed(r, a) PROVE SeatsInv'
    BY <1>3, SeatsKeptByServer
  <1>4. ASSUME NEW r \in requests, Manager!Fetched(r) PROVE SeatsInv'
    <2>1. /\ r.kind = "fetch" /\ r.status = "done" /\ requests' = {} /\ account' = account
          /\ store'.known = [u \in DOMAIN store.known \cup DOMAIN r.answer |->
                                IF u \in DOMAIN r.answer THEN r.answer[u] ELSE store.known[u]]
          /\ store'.form = store.form /\ store'.filter = store.filter
      BY <1>4, FetchedStep, Alone
    <2>2. /\ r.answer = account /\ DOMAIN store.known \subseteq DOMAIN account /\ store.form = None
          /\ store.filter = None /\ Enough(account)
      BY <2>1 DEF SeatsInv
    <2>3. store'.known = account
      <3>1. DOMAIN store.known \cup DOMAIN r.answer = DOMAIN account
        BY <2>2
      <3>2. account = [u \in DOMAIN account |-> account[u]]
        BY DirectoryShape DEF UsersShape
      <3> QED
        BY <2>1, <2>2, <3>1, <3>2
    <2>4. Fits(store'.known, store'.form)
      BY <2>1, <2>2 DEF Fits
    <2> QED
      BY <2>1, <2>2, <2>3, <2>4 DEF SeatsInv
  <1>5. ASSUME NEW r \in requests, Manager!Failed(r) PROVE SeatsInv'
    <2>1. r.status = "failed" /\ requests' = requests \ {r} /\ account' = account /\ store' = store
      BY <1>5 DEF Manager!Failed
    <2>2. requests' = {}
      BY <2>1, Alone
    <2>3. store.known = account
      BY <2>1 DEF SeatsInv, UsersShape
    <2> QED
      BY <2>1, <2>2, <2>3 DEF SeatsInv
  <1>6. ASSUME NEW r \in requests, Manager!PostAnswered(r) PROVE SeatsInv'
    <2>1. /\ r.kind = "save" /\ r.status = "done" /\ Fetches(store, {r}) /\ account' = account
          /\ store \in UserStores
      BY <1>6, PostAnsweredStep DEF UsersShape
    <2>2. {r} \in SUBSET requests /\ requests \subseteq {r}
      BY Alone
    <2>3. store.filter = None /\ DOMAIN store.known \subseteq DOMAIN account
      BY <2>1 DEF SeatsInv
    <2> QED
      BY <2>1, <2>2, <2>3, SeatsWhenFetching
  <1>7. ASSUME NEW r \in requests, Manager!DeleteAnswered(r) PROVE SeatsInv'
    <2> DEFINE s == Manager!RemoveUser(store, r.form.id)
    <2>1. /\ r.kind = "delete" /\ r.status = "done" /\ Fetches(s, {r}) /\ account' = account
          /\ s \in UserStores
      BY <1>7, DeleteAnsweredStep
    <2>2. {r} \in SUBSET requests /\ requests \subseteq {r}
      BY Alone
    <2>3. store.filter = None /\ DOMAIN store.known \subseteq DOMAIN account \cup {r.form.id}
      BY <2>1 DEF SeatsInv
    <2>4. s.filter = store.filter /\ s.known = Manager!Without(store.known, r.form.id)
      BY RemovedForm DEF UsersShape
    <2> HIDE DEF s
    <2>5. s.filter = None /\ DOMAIN s.known \subseteq DOMAIN account
      BY <2>3, <2>4 DEF Manager!Without
    <2> QED
      BY <2>1, <2>2, <2>5, SeatsWhenFetching
  <1>8. CASE UNCHANGED Manager!vars
    BY <1>8 DEF Manager!vars, SeatsInv
  <1> QED
    BY <1>1, <1>2, <1>3, <1>4, <1>5, <1>6, <1>7, <1>8, UsersSteps

\* An administrator who is alone and waits for each answer, which comes, and does not filter the
\* list, can not give away more seats than the company has, with Select All or not: his page knows
\* all users when he edits a form, and counts those of each product.
THEOREM SeatsNeverExceeded ==
    ASSUME Manager!ConstantsOK, IsFiniteSet(Users), Waits, ~MayFail, ~Others, Filters = {}
    PROVE  Manager!Spec => []Manager!SeatsRespected
  <1> DEFINE Inv == UsersShape /\ OneRequest /\ SeatsInv
  <1>1. Manager!Init => Inv
    <2> SUFFICES ASSUME Manager!Init PROVE Inv
      OBVIOUS
    <2>1. UsersShape
      BY FirstUsersShape
    <2>2. /\ store.known = account /\ store.form = None /\ store.filter = None /\ requests = {}
      BY DEF Manager!Init
    <2>3. \A u \in DOMAIN account : account[u].products = {}
      BY DEF Manager!Init
    <2>4. Enough(account)
      <3> SUFFICES ASSUME NEW p \in Products PROVE Cardinality(Holders(account, p)) <= MaxSeats[p]
        BY DEF Enough
      <3>1. Holders(account, p) = {}
        BY <2>3 DEF Holders
      <3>2. MaxSeats[p] \in Nat
        BY DEF Manager!ConstantsOK
      <3> QED
        BY <3>1, <3>2, FS_EmptySet
    <2> QED
      BY <2>1, <2>2, <2>4 DEF SeatsInv, OneRequest, Fits
  <1>2. Inv /\ [Manager!Next]_Manager!vars => Inv'
    BY UsersShapeKept, OneUserRequestKept, SeatsKept
  <1>3. Inv => Manager!SeatsRespected
    BY SameCount DEF SeatsInv, Enough, Holders, Manager!SeatsRespected
  <1> QED
    BY <1>1, <1>2, <1>3, PTL DEF Manager!Spec

--------------------------------------------------------------------------------
(* The bell of the header and its panel (NotificationPanel). *)

BellStores == [list : SUBSET Notes, count : Nat, loading : BOOLEAN]
BellRequests == [n : Nat, kind : {"load", "delete", "deleteAll"}, note : SUBSET Notes,
                 status : {"sent", "done"}, list : SUBSET Notes]
Loads(r) == r.kind = "load"

\* Every record has its shape, a deletion is of one notification, and what loads was asked for.
BellShape ==
    /\ stored \subseteq Notes /\ unused \subseteq Notes /\ stored \cap unused = {}
    /\ store \in BellStores /\ pushes \in Seq({1}) /\ sent \in Nat /\ displayed \in BOOLEAN
    /\ requests \subseteq BellRequests
    /\ \A r \in requests : r.n \in 1 .. sent /\ (r.kind = "delete" => \E n \in Notes : r.note = {n})
    /\ store.loading => \E r \in requests : Loads(r)

\* What d takes away from a list.
Takes(d, x) == d.kind = "deleteAll" \/ (d.kind = "delete" /\ x \in d.note)
\* What is left of a list when the deletions of D have been answered.
LeftOf(list, D) == {x \in list : \A d \in D : ~ Takes(d, x)}
DoneAfter(n) == {d \in requests : d.status = "done" /\ d.n > n}
DoneNow == {d \in requests : d.status = "done"}

\* The open panel that has heard of everything, and whose last load has left the server, will have
\* the server's list when the answers under way have come.
BellInv ==
    (displayed /\ ~untold /\ pushes = <<>> /\ ~ \E r \in requests : Loads(r) /\ r.status = "sent") =>
        /\ \A m \in requests : Loads(m) /\ (\A r \in requests : Loads(r) => r.n <= m.n)
                => stored = LeftOf(m.list, DoneAfter(m.n))
        /\ (~ \E r \in requests : Loads(r)) =>
                stored = LeftOf(store.list, DoneNow) /\ store.count = Cardinality(store.list)

\* A dispatch in which the count has changed loads again, and others answer what they answer.
Reloading(s, answered) ==
    /\ displayed /\ s.count # store.count /\ store' = [s EXCEPT !.loading = TRUE] /\ sent' = sent + 1
    /\ \E m \in BellRequests : /\ requests' = (requests \ answered) \cup {m}
                               /\ m.n = sent + 1 /\ Loads(m) /\ m.status = "sent"
Staying(s, answered) ==
    /\ displayed => s.count = store.count
    /\ store' = s /\ requests' = requests \ answered /\ sent' = sent

LEMMA Dispatching ==
    ASSUME sent \in Nat, NEW s, NEW answered, Bell!Dispatch(s, answered)
    PROVE  Reloading(s, answered) \/ Staying(s, answered)
  <1>1. Bell!Request(sent + 1, "load", {}) \in BellRequests
    BY DEF Bell!Request, BellRequests
  <1>2. CASE Bell!Reload(s)
    <2>1. /\ displayed /\ s.count # store.count /\ store' = [s EXCEPT !.loading = TRUE] /\ sent' = sent + 1
          /\ requests' = (requests \ answered) \cup {Bell!Request(sent + 1, "load", {})}
      BY <1>2 DEF Bell!Dispatch, Bell!Reload, Bell!SetNotificationsLoading
    <2>2. LET m == Bell!Request(sent + 1, "load", {}) IN m.n = sent + 1 /\ Loads(m) /\ m.status = "sent"
      BY DEF Bell!Request, Loads
    <2> QED
      BY <1>1, <2>1, <2>2 DEF Reloading
  <1>3. CASE ~ Bell!Reload(s)
    BY <1>3 DEF Bell!Dispatch, Bell!Reload, Staying
  <1> QED
    BY <1>2, <1>3

\* A new load makes a promise of its own.
LEMMA BellWhenLoading ==
    ASSUME NEW rest, NEW m, requests' = rest \cup {m}, Loads(m), m.status = "sent"
    PROVE  BellInv'
  BY DEF BellInv

LEMMA SameBellCount == ASSUME NEW S PROVE Bell!Cardinality(S) = Cardinality(S)
  BY Zenon DEF Cardinality, Bell!Cardinality

LEMMA BellStoreTypes ==
    ASSUME IsFiniteSet(Notes), NEW s \in BellStores
    PROVE  /\ \A list \in SUBSET Notes : /\ Bell!SetNotifications(s, list) \in BellStores
                                         /\ Bell!SetNotifications(s, list).list = list
                                         /\ Bell!SetNotifications(s, list).count = Cardinality(list)
                                         /\ Cardinality(list) \in Nat
           /\ \A on \in BOOLEAN : [s EXCEPT !.loading = on] \in BellStores
  <1>1. ASSUME NEW list \in SUBSET Notes PROVE Cardinality(list) \in Nat
    BY <1>1, FS_Subset, FS_CardinalityType
  <1>2. ASSUME NEW list \in SUBSET Notes
        PROVE  /\ Bell!SetNotifications(s, list) \in BellStores /\ Bell!SetNotifications(s, list).list = list
               /\ Bell!SetNotifications(s, list).count = Cardinality(list)
    <2>1. Bell!SetNotifications(s, list) = [s EXCEPT !.list = list, !.count = Cardinality(list)]
      BY SameBellCount DEF Bell!SetNotifications
    <2> QED
      BY <1>1, <2>1 DEF BellStores
  <1>3. ASSUME NEW on \in BOOLEAN PROVE [s EXCEPT !.loading = on] \in BellStores
    BY DEF BellStores
  <1> QED
    BY <1>1, <1>2, <1>3

\* A push counts one more.
LEMMA PushedStore ==
    ASSUME NEW s \in BellStores
    PROVE  LET t == Bell!UpdateNotificationCount(s, 1)
           IN  t \in BellStores /\ t.list = s.list /\ t.count = s.count + 1 /\ t.loading = s.loading
  <1>1. Bell!UpdateNotificationCount(s, 1) = [s EXCEPT !.count = s.count + 1]
    BY DEF Bell!UpdateNotificationCount, BellStores
  <1> QED
    BY <1>1 DEF BellStores

\* The answer to a deletion takes what is deleted off the list, and counts what is left.
LEMMA ClearedStore ==
    ASSUME IsFiniteSet(Notes), NEW s \in BellStores, NEW n
    PROVE  LET t == Bell!ClearNotification(s, n)
           IN  /\ t \in BellStores /\ t.list = s.list \ {n} /\ t.count = Cardinality(s.list \ {n})
               /\ t.loading = s.loading
  <1>1. s.list \ {n} \in SUBSET Notes
    BY DEF BellStores
  <1>2. Cardinality(s.list \ {n}) \in Nat
    BY <1>1, BellStoreTypes
  <1>3. Bell!ClearNotification(s, n) = [s EXCEPT !.list = s.list \ {n}, !.count = Cardinality(s.list \ {n})]
    BY SameBellCount DEF Bell!ClearNotification, BellStores
  <1> QED
    BY <1>1, <1>2, <1>3 DEF BellStores

LEMMA EmptiedStore ==
    ASSUME NEW s \in BellStores
    PROVE  LET t == Bell!ClearAllNotifications(s)
           IN  t \in BellStores /\ t.list = {} /\ t.count = 0 /\ t.loading = s.loading
  <1> DEFINE t == [s EXCEPT !.list = {}, !.count = 0]
  <1>1. Bell!ClearAllNotifications(s) = t
    BY DEF Bell!ClearAllNotifications
  <1>2. t.list = {} /\ t.count = 0 /\ t.loading = s.loading
    BY DEF BellStores
  <1>3. {} \in SUBSET Notes /\ 0 \in Nat
    OBVIOUS
  <1>4. t \in BellStores
    BY <1>3 DEF BellStores
  <1> HIDE DEF t
  <1> QED
    BY <1>1, <1>2, <1>4

\* What the answer r makes of the store.
Answered(r, s) ==
    /\ s \in BellStores /\ r.status = "done" /\ Bell!InTurn(r)
    /\ \/ /\ Loads(r) /\ s.list = r.list /\ ~ s.loading
       \/ /\ ~ Loads(r) /\ s.list = LeftOf(store.list, {r}) /\ s.loading = store.loading
    /\ s.count = Cardinality(s.list)
    /\ UNCHANGED <<stored, unused, displayed, pushes, connected, untold, events>>

LEMMA LoadedStep ==
    ASSUME IsFiniteSet(Notes), BellShape, NEW r \in requests, Bell!Loaded(r)
    PROVE  \E s \in BellStores : Answered(r, s) /\ Bell!Dispatch(s, {r})
  <1> DEFINE t == Bell!SetNotifications(store, r.list)
             s == [t EXCEPT !.loading = FALSE]
  <1>1. /\ r.kind = "load" /\ r.status = "done" /\ Bell!InTurn(r) /\ r.list \in SUBSET Notes
        /\ UNCHANGED <<stored, unused, displayed, pushes, connected, untold, events>>
    BY DEF Bell!Loaded, Bell!server, BellShape, BellRequests
  <1>2. t \in BellStores /\ t.list = r.list /\ t.count = Cardinality(r.list)
    BY <1>1, BellStoreTypes DEF BellShape
  <1>3. Bell!Dispatch(s, {r})
    BY DEF Bell!Loaded, Bell!SetNotificationsLoading
  <1> HIDE DEF t
  <1>4. s \in BellStores /\ s.list = r.list /\ s.count = Cardinality(r.list) /\ s.loading = FALSE
    BY <1>2 DEF BellStores
  <1> HIDE DEF s
  <1> QED
    BY <1>1, <1>3, <1>4 DEF Answered, Loads

LEMMA DeletedStep ==
    ASSUME IsFiniteSet(Notes), BellShape, NEW r \in requests, Bell!Deleted(r)
    PROVE  \E s \in BellStores : Answered(r, s) /\ Bell!Dispatch(s, {r})
  <1>1. /\ r.status = "done" /\ Bell!InTurn(r) /\ store \in BellStores
        /\ UNCHANGED <<stored, unused, displayed, pushes, connected, untold, events>>
    BY DEF Bell!Deleted, Bell!server, BellShape
  <1>2. CASE r.kind = "delete"
    <2>1. PICK n \in Notes : r.note = {n}
      BY <1>2 DEF BellShape
    <2> DEFINE s == Bell!ClearNotification(store, n)
    <2>2. Bell!Dispatch(s, {r})
      BY <1>2, <2>1 DEF Bell!Deleted
    <2>3. /\ s \in BellStores /\ s.list = store.list \ {n} /\ s.count = Cardinality(store.list \ {n})
          /\ s.loading = store.loading
      BY <1>1, ClearedStore
    <2> HIDE DEF s
    <2>4. store.list \ {n} = LeftOf(store.list, {r})
      BY <1>2, <2>1 DEF LeftOf, Takes
    <2> QED
      BY <1>1, <1>2, <2>2, <2>3, <2>4 DEF Answered, Loads
  <1>3. CASE r.kind = "deleteAll"
    <2> DEFINE s == Bell!ClearAllNotifications(store)
    <2>1. Bell!Dispatch(s, {r})
      BY <1>3 DEF Bell!Deleted
    <2>2. s \in BellStores /\ s.list = {} /\ s.count = 0 /\ s.loading = store.loading
      BY <1>1, EmptiedStore
    <2> HIDE DEF s
    <2>3. {} = LeftOf(store.list, {r})
      BY <1>3 DEF LeftOf, Takes
    <2> QED
      BY <1>1, <1>3, <2>1, <2>2, <2>3, FS_EmptySet DEF Answered, Loads
  <1> QED
    BY <1>2, <1>3 DEF Bell!Deleted

LEMMA PushStep ==
    ASSUME BellShape, Bell!HandlePush
    PROVE  /\ pushes # <<>> /\ pushes' \in Seq({1})
           /\ UNCHANGED <<stored, unused, displayed, connected, untold, events>>
           /\ \E s \in BellStores : /\ s.list = store.list /\ s.count = store.count + 1
                                    /\ s.loading = store.loading /\ Bell!Dispatch(s, {})
  <1>1. /\ pushes # <<>> /\ pushes' = Tail(pushes) /\ pushes \in Seq({1}) /\ store \in BellStores
        /\ Bell!Dispatch(Bell!UpdateNotificationCount(store, Head(pushes)), {})
        /\ UNCHANGED <<stored, unused, displayed, connected, untold, events>>
    BY DEF Bell!HandlePush, BellShape, Bell!server
  <1>2. Head(pushes) = 1 /\ pushes' \in Seq({1})
    BY <1>1
  <1> QED
    BY <1>1, <1>2, PushedStore

\* What the server does: in the order of the requests, when it is kept.
HandledAs(r, a) ==
    /\ r.status = "sent" /\ Bell!InTurn(r)
    /\ a.n = r.n /\ a.kind = r.kind /\ a.note = r.note /\ a.status = "done" /\ a.list = stored
    /\ requests' = (requests \ {r}) \cup {a}
    /\ stored' = LeftOf(stored, {r})
    /\ UNCHANGED <<unused, store, displayed, sent, pushes, connected, untold, events>>

LEMMA HandledStep ==
    ASSUME BellShape, NEW r \in requests, Bell!Handle(r) PROVE \E a \in BellRequests : HandledAs(r, a)
  <1>1. /\ r.status = "sent" /\ Bell!InTurn(r) /\ r \in BellRequests /\ stored \in SUBSET Notes
        /\ stored' = CASE r.kind = "load" -> stored
                       [] r.kind = "delete" -> stored \ r.note
                       [] r.kind = "deleteAll" -> {}
        /\ requests' = (requests \ {r}) \cup {[r EXCEPT !.status = "done", !.list = stored]}
        /\ UNCHANGED <<unused, store, displayed, sent, pushes, connected, untold, events>>
    BY DEF Bell!Handle, BellShape
  <1>2. stored' = LeftOf(stored, {r})
    BY <1>1 DEF BellRequests, LeftOf, Takes
  <1> DEFINE a == [r EXCEPT !.status = "done", !.list = stored]
  <1>3. /\ a \in BellRequests /\ a.n = r.n /\ a.kind = r.kind /\ a.note = r.note
        /\ a.status = "done" /\ a.list = stored
    BY <1>1 DEF BellRequests
  <1>4. requests' = (requests \ {r}) \cup {a}
    BY <1>1
  <1> HIDE DEF a
  <1> QED
    BY <1>1, <1>2, <1>3, <1>4 DEF HandledAs

\* A request more, with whatever becomes of the store.
LEMMA BellWhenAsking ==
    ASSUME BellShape, NEW rest \in SUBSET requests, NEW m \in BellRequests, m.n = sent + 1, sent' = sent + 1,
           m.kind = "delete" => \E n \in Notes : m.note = {n},
           requests' = rest \cup {m}, store' \in BellStores,
           store'.loading => Loads(m) \/ \E r \in rest : Loads(r),
           UNCHANGED <<stored, unused>>, pushes' \in Seq({1}), displayed' \in BOOLEAN
    PROVE  BellShape'
  <1>1. sent' \in Nat /\ sent \in Nat
    BY DEF BellShape
  <1>2. requests' \subseteq BellRequests
    BY DEF BellShape
  <1>3. \A r \in requests' : r.n \in 1 .. sent'
    BY <1>1 DEF BellShape
  <1>4. \A r \in requests' : r.kind = "delete" => \E n \in Notes : r.note = {n}
    BY DEF BellShape
  <1>5. store'.loading => \E r \in requests' : Loads(r)
    OBVIOUS
  <1> QED
    BY <1>1, <1>2, <1>3, <1>4, <1>5 DEF BellShape

LEMMA BellWhenDispatching ==
    ASSUME IsFiniteSet(Notes), BellShape, NEW s \in BellStores, NEW answered \in SUBSET requests,
           Bell!Dispatch(s, answered), s.loading => \E r \in requests \ answered : Loads(r),
           UNCHANGED <<stored, unused, displayed>>, pushes' \in Seq({1})
    PROVE  BellShape'
  <1>1. CASE Reloading(s, answered)
    <2>1. PICK m \in BellRequests : /\ requests' = (requests \ answered) \cup {m} /\ m.n = sent + 1
                                    /\ Loads(m) /\ m.status = "sent"
      BY <1>1 DEF Reloading
    <2>2. store' \in BellStores
      BY <1>1, BellStoreTypes DEF Reloading
    <2>3. sent' = sent + 1 /\ m.kind # "delete" /\ displayed' \in BOOLEAN
      BY <1>1, <2>1 DEF Reloading, Loads, BellShape
    <2>4. (requests \ answered) \in SUBSET requests
      OBVIOUS
    <2> QED
      BY <2>1, <2>2, <2>3, <2>4, BellWhenAsking
  <1>2. CASE Staying(s, answered)
    BY <1>2 DEF Staying, BellShape
  <1> QED
    BY <1>1, <1>2, Dispatching DEF BellShape

LEMMA BellWhenAnswered ==
    ASSUME IsFiniteSet(Notes), BellShape, NEW r \in requests, NEW s \in BellStores,
           Answered(r, s), Bell!Dispatch(s, {r})
    PROVE  BellShape'
  <1>1. s.loading => \E o \in requests \ {r} : Loads(o)
    BY DEF Answered, BellShape
  <1>2. {r} \in SUBSET requests /\ pushes' \in Seq({1}) /\ UNCHANGED <<stored, unused, displayed>>
    BY DEF Answered, BellShape
  <1> QED
    BY <1>1, <1>2, BellWhenDispatching

LEMMA AskingBell ==
    ASSUME NEW k \in {"load", "delete", "deleteAll"}, NEW note \in SUBSET Notes, sent \in Nat
    PROVE  LET m == Bell!Request(sent + 1, k, note)
           IN  /\ m \in BellRequests /\ m.n = sent + 1 /\ m.kind = k /\ m.note = note /\ m.status = "sent"
               /\ Loads(m) <=> k = "load"
  BY DEF Bell!Request, BellRequests, Loads

\* What the user does to the panel.
LEMMA OpeningStep ==
    ASSUME IsFiniteSet(Notes), BellShape, Bell!ToggleDisplay
    PROVE  /\ BellShape'
           /\ displayed' => \E m : requests' = requests \cup {m} /\ Loads(m) /\ m.status = "sent"
  <1>1. /\ displayed' = ~ displayed /\ displayed \in BOOLEAN /\ UNCHANGED <<stored, unused, pushes>>
        /\ pushes \in Seq({1}) /\ store \in BellStores /\ sent \in Nat
    BY DEF Bell!ToggleDisplay, Bell!server, BellShape
  <1>2. CASE displayed
    <2>1. UNCHANGED <<store, requests, sent>>
      BY <1>2 DEF Bell!ToggleDisplay
    <2> QED
      BY <1>1, <1>2, <2>1 DEF BellShape
  <1>3. CASE ~ displayed
    <2> DEFINE m == Bell!Request(sent + 1, "load", {})
    <2>1. /\ store' = [store EXCEPT !.loading = TRUE] /\ requests' = requests \cup {m} /\ sent' = sent + 1
      BY <1>3 DEF Bell!ToggleDisplay, Bell!SetNotificationsLoading
    <2>2. m \in BellRequests /\ m.n = sent + 1 /\ m.kind = "load" /\ m.status = "sent" /\ Loads(m)
      BY <1>1, AskingBell
    <2>3. store' \in BellStores
      BY <1>1, <2>1, BellStoreTypes
    <2> HIDE DEF m
    <2>4. BellShape'
      BY <1>1, <2>1, <2>2, <2>3, BellWhenAsking
    <2> QED
      BY <2>1, <2>2, <2>4
  <1> QED
    BY <1>2, <1>3

LEMMA DeletingStep ==
    ASSUME BellShape, Bell!DeleteAllNotifications \/ \E n \in Notes : Bell!DeleteNotification(n)
    PROVE  /\ BellShape' /\ UNCHANGED <<stored, unused, store, displayed, pushes, connected, untold>>
           /\ \E m : requests' = requests \cup {m} /\ ~ Loads(m) /\ m.status = "sent"
  <1>1. /\ sent' = sent + 1 /\ sent \in Nat
        /\ UNCHANGED <<stored, unused, store, displayed, pushes, connected, untold>>
        /\ \E k \in {"delete", "deleteAll"}, note \in SUBSET Notes :
              /\ k = "delete" => \E n \in Notes : note = {n}
              /\ requests' = requests \cup {Bell!Request(sent + 1, k, note)}
    <2>1. CASE Bell!DeleteAllNotifications
      <3>1. requests' = requests \cup {Bell!Request(sent + 1, "deleteAll", {})}
        BY <2>1 DEF Bell!DeleteAllNotifications
      <3> QED
        BY <2>1, <3>1 DEF Bell!DeleteAllNotifications, Bell!server, BellShape
    <2>2. ASSUME NEW n \in Notes, Bell!DeleteNotification(n)
          PROVE  /\ sent' = sent + 1 /\ sent \in Nat
                 /\ UNCHANGED <<stored, unused, store, displayed, pushes, connected, untold>>
                 /\ requests' = requests \cup {Bell!Request(sent + 1, "delete", {n})} /\ {n} \in SUBSET Notes
      BY <2>2 DEF Bell!DeleteNotification, Bell!server, BellShape
    <2> QED
      BY <2>1, <2>2
  <1>2. PICK k \in {"delete", "deleteAll"}, note \in SUBSET Notes :
              /\ k = "delete" => \E n \in Notes : note = {n}
              /\ requests' = requests \cup {Bell!Request(sent + 1, k, note)}
    BY <1>1
  <1> DEFINE m == Bell!Request(sent + 1, k, note)
  <1>3. m \in BellRequests /\ m.n = sent + 1 /\ m.kind = k /\ m.note = note /\ m.status = "sent" /\ ~ Loads(m)
    BY <1>1, AskingBell
  <1>4. requests' = requests \cup {m}
    BY <1>2
  <1> HIDE DEF m
  <1>5. store' \in BellStores /\ pushes' \in Seq({1}) /\ displayed' \in BOOLEAN
        /\ (store'.loading => \E r \in requests : Loads(r))
    BY <1>1 DEF BellShape
  <1>6. BellShape'
    BY <1>1, <1>2, <1>3, <1>4, <1>5, BellWhenAsking
  <1> QED
    BY <1>1, <1>3, <1>4, <1>6

\* What happens elsewhere is pushed, or the panel cannot know it.
LEMMA ElsewhereStep ==
    ASSUME BellShape, Bell!Connection \/ \E n \in Notes : Bell!Create(n) \/ Bell!DeletedElsewhere(n)
    PROVE  /\ BellShape' /\ UNCHANGED <<store, displayed, requests, sent>>
           /\ stored' = stored \/ pushes' # <<>> \/ untold'
           /\ pushes' = <<>> /\ ~ untold' => pushes = <<>> /\ ~ untold
  <1>1. pushes \in Seq({1})
    BY DEF BellShape
  <1>2. ASSUME NEW n \in Notes, Bell!Create(n)
        PROVE  /\ BellShape' /\ UNCHANGED <<store, displayed, requests, sent>>
               /\ pushes' # <<>> \/ untold'
    <2>1. CASE connected
      <3>1. pushes' = Append(pushes, 1)
        BY <1>2, <2>1 DEF Bell!Create
      <3>2. pushes' \in Seq({1}) /\ pushes' # <<>>
        BY <1>1, <3>1
      <3> QED
        BY <1>2, <3>2 DEF Bell!Create, BellShape
    <2>2. CASE ~ connected
      BY <1>2, <2>2 DEF Bell!Create, BellShape
    <2> QED
      BY <2>1, <2>2
  <1>3. ASSUME NEW n \in Notes, Bell!DeletedElsewhere(n)
        PROVE  BellShape' /\ UNCHANGED <<store, displayed, requests, sent>> /\ untold'
    BY <1>3 DEF Bell!DeletedElsewhere, BellShape
  <1>4. CASE Bell!Connection
    <2>1. UNCHANGED <<stored, unused, store, displayed, requests, sent>>
      BY <1>4 DEF Bell!Connection, Bell!server
    <2>2. CASE connected
      <3>1. pushes' = <<>> /\ untold' = (untold \/ pushes # <<>>)
        BY <1>4, <2>2 DEF Bell!Connection
      <3>2. pushes' \in Seq({1})
        BY <3>1
      <3> QED
        BY <2>1, <3>1, <3>2 DEF BellShape
    <2>3. CASE ~ connected
      <3>1. UNCHANGED <<pushes, untold>>
        BY <1>4, <2>3 DEF Bell!Connection
      <3> QED
        BY <2>1, <3>1 DEF BellShape
    <2> QED
      BY <2>2, <2>3
  <1>5. ASSUME NEW n \in Notes, Bell!Create(n) PROVE pushes' = <<>> => untold'
    BY <1>2, <1>5
  <1> QED
    BY <1>2, <1>3, <1>4, <1>5

LEMMA BellSteps ==
    ASSUME IsFiniteSet(Notes), BellShape, [Bell!Next]_Bell!vars
    PROVE  \/ Bell!Connection \/ \E n \in Notes : Bell!Create(n) \/ Bell!DeletedElsewhere(n)
           \/ Bell!ToggleDisplay
           \/ Bell!DeleteAllNotifications \/ \E n \in Notes : Bell!DeleteNotification(n)
           \/ \E r \in requests : \E a \in BellRequests : HandledAs(r, a)
           \/ \E r \in requests : \E s \in BellStores : Answered(r, s) /\ Bell!Dispatch(s, {r})
           \/ Bell!HandlePush
           \/ \E r \in requests : Bell!Failed(r)
           \/ UNCHANGED Bell!vars
  BY Zenon, HandledStep, LoadedStep, DeletedStep DEF Bell!Next, Bell!Answers

LEMMA FirstBellShape == ASSUME IsFiniteSet(Notes), Bell!Init PROVE BellShape
  <1>1. PICK first \in SUBSET Notes : stored = first /\ unused = Notes \ first
    BY DEF Bell!Init
  <1>2. Cardinality(first) \in Nat
    BY BellStoreTypes, FS_Subset, FS_CardinalityType
  <1>3. store = [list |-> {}, count |-> Cardinality(first), loading |-> FALSE]
    BY <1>1, SameBellCount DEF Bell!Init
  <1>4. store \in BellStores /\ ~ store.loading
    BY <1>2, <1>3 DEF BellStores
  <1>5. pushes = <<>> /\ pushes \in Seq({1})
    BY DEF Bell!Init
  <1> QED
    BY <1>1, <1>4, <1>5 DEF Bell!Init, BellShape

LEMMA BellShapeKept == ASSUME IsFiniteSet(Notes), BellShape, [Bell!Next]_Bell!vars PROVE BellShape'
  <1>1. CASE Bell!Connection \/ \E n \in Notes : Bell!Create(n) \/ Bell!DeletedElsewhere(n)
    BY <1>1, ElsewhereStep
  <1>2. CASE Bell!ToggleDisplay
    BY <1>2, OpeningStep
  <1>3. CASE Bell!DeleteAllNotifications \/ \E n \in Notes : Bell!DeleteNotification(n)
    BY <1>3, DeletingStep
  <1>4. ASSUME NEW r \in requests, NEW a \in BellRequests, HandledAs(r, a) PROVE BellShape'
    <2>1. /\ a.n = r.n /\ a.kind = r.kind /\ a.note = r.note /\ requests' = (requests \ {r}) \cup {a}
          /\ stored' \subseteq stored /\ UNCHANGED <<unused, store, displayed, sent, pushes>>
      BY <1>4 DEF HandledAs, LeftOf
    <2>2. \A o \in requests' : /\ o \in BellRequests /\ o.n \in 1 .. sent
                               /\ (o.kind = "delete" => \E n \in Notes : o.note = {n})
      BY <2>1 DEF BellShape
    <2>3. store'.loading => \E o \in requests' : Loads(o)
      BY <2>1 DEF BellShape, Loads
    <2> QED
      BY <2>1, <2>2, <2>3 DEF BellShape
  <1>5. ASSUME NEW r \in requests, NEW s \in BellStores, Answered(r, s), Bell!Dispatch(s, {r}) PROVE BellShape'
    BY <1>5, BellWhenAnswered
  <1>6. CASE Bell!HandlePush
    <2>1. PICK s \in BellStores : s.loading = store.loading /\ Bell!Dispatch(s, {})
      BY <1>6, PushStep
    <2>2. /\ {} \in SUBSET requests /\ pushes' \in Seq({1}) /\ UNCHANGED <<stored, unused, displayed>>
          /\ s.loading => \E r \in requests \ {} : Loads(r)
      BY <1>6, <2>1, PushStep DEF BellShape
    <2> QED
      BY <2>1, <2>2, BellWhenDispatching
  <1>7. ASSUME NEW r \in requests, Bell!Failed(r) PROVE BellShape'
    <2>1. /\ requests' = requests \ {r} /\ UNCHANGED <<stored, unused, displayed, sent, pushes>>
          /\ store' = IF r.kind = "load" THEN [store EXCEPT !.loading = FALSE] ELSE store
          /\ store \in BellStores
      BY <1>7 DEF Bell!Failed, Bell!server, Bell!SetNotificationsLoading, BellShape
    <2>2. store' \in BellStores /\ (store'.loading => store.loading /\ ~ Loads(r))
      BY <2>1 DEF BellStores, Loads
    <2> QED
      BY <2>1, <2>2 DEF BellShape
  <1>8. CASE UNCHANGED Bell!vars
    BY <1>8 DEF Bell!vars, BellShape
  <1> QED
    BY <1>1, <1>2, <1>3, <1>4, <1>5, <1>6, <1>7, <1>8, BellSteps

LEMMA BellInOrderKept ==
    ASSUME IsFiniteSet(Notes), ~AnyOrder, BellShape, InOrder, [Bell!Next]_Bell!vars
    PROVE  InOrder'
  <1>1. sent \in Nat /\ \A r \in requests : r.n \in Nat
    BY DEF BellShape, BellRequests
  <1>2. ASSUME NEW rest \in SUBSET requests, NEW m, m.n = sent + 1, m.status = "sent",
               requests' = rest \cup {m}, sent' = sent + 1
        PROVE  InOrder'
    BY <1>1, <1>2 DEF InOrder
  <1>3. ASSUME requests' \subseteq requests, sent' = sent PROVE InOrder'
    BY <1>3 DEF InOrder
  <1>4. ASSUME NEW s \in BellStores, NEW answered \in SUBSET requests, Bell!Dispatch(s, answered) PROVE InOrder'
    <2>1. CASE Reloading(s, answered)
      <3>1. (requests \ answered) \in SUBSET requests
        OBVIOUS
      <3> QED
        BY <1>2, <2>1, <3>1 DEF Reloading
    <2>2. CASE Staying(s, answered)
      BY <1>3, <2>2 DEF Staying
    <2> QED
      BY <1>1, <1>4, <2>1, <2>2, Dispatching
  <1>5. CASE Bell!Connection \/ \E n \in Notes : Bell!Create(n) \/ Bell!DeletedElsewhere(n)
    BY <1>3, <1>5, ElsewhereStep
  <1>6. CASE Bell!ToggleDisplay
    <2>1. CASE displayed
      BY <1>3, <1>6, <2>1 DEF Bell!ToggleDisplay
    <2>2. CASE ~ displayed
      <3>1. LET m == Bell!Request(sent + 1, "load", {}) IN m.n = sent + 1 /\ m.status = "sent"
        BY DEF Bell!Request
      <3> QED
        BY <1>2, <1>6, <2>2, <3>1 DEF Bell!ToggleDisplay
    <2> QED
      BY <2>1, <2>2
  <1>7. CASE Bell!DeleteAllNotifications \/ \E n \in Notes : Bell!DeleteNotification(n)
    <2>1. \A k, note : LET m == Bell!Request(sent + 1, k, note) IN m.n = sent + 1 /\ m.status = "sent"
      BY DEF Bell!Request
    <2>2. sent' = sent + 1 /\ \E k, note : requests' = requests \cup {Bell!Request(sent + 1, k, note)}
      BY <1>7 DEF Bell!DeleteAllNotifications, Bell!DeleteNotification
    <2> QED
      BY <1>2, <2>1, <2>2
  <1>8. ASSUME NEW r \in requests, NEW a \in BellRequests, HandledAs(r, a) PROVE InOrder'
    <2>1. /\ r.status = "sent" /\ a.n = r.n /\ requests' = (requests \ {r}) \cup {a} /\ sent' = sent
          /\ a.status # "sent" /\ \A o \in requests : o.status = "sent" => o.n >= r.n
      BY <1>8 DEF HandledAs, Bell!InTurn
    <2>2. \A x \in requests' : x = a \/ (x \in requests /\ x.n # a.n)
      BY <2>1 DEF InOrder
    <2>3. \A x \in requests' : x.n \in 1 .. sent'
      BY <2>1 DEF InOrder
    <2>4. \A x, o \in requests' : x.n = o.n => x = o
      BY <2>2 DEF InOrder
    <2>5. \A x, o \in requests' : x.status # "sent" /\ o.status = "sent" => x.n < o.n
      <3> SUFFICES ASSUME NEW x \in requests', NEW o \in requests', x.status # "sent", o.status = "sent"
                   PROVE  x.n < o.n
        OBVIOUS
      <3>1. o \in requests /\ o.n # a.n
        BY <2>1, <2>2
      <3>2. r.n \in Nat /\ o.n \in Nat /\ o.n >= r.n
        BY <1>1, <2>1, <3>1
      <3>3. CASE x = a
        BY <2>1, <3>1, <3>2, <3>3
      <3>4. CASE x \in requests
        BY <3>1, <3>4 DEF InOrder
      <3> QED
        BY <2>2, <3>3, <3>4
    <2> QED
      BY <2>3, <2>4, <2>5 DEF InOrder
  <1>9. ASSUME NEW r \in requests, NEW s \in BellStores, Bell!Dispatch(s, {r}) PROVE InOrder'
    <2>1. {r} \in SUBSET requests
      OBVIOUS
    <2> QED
      BY <1>4, <1>9, <2>1
  <1>10. CASE Bell!HandlePush
    <2>1. \E s \in BellStores : Bell!Dispatch(s, {})
      BY <1>10, PushStep
    <2>2. {} \in SUBSET requests
      OBVIOUS
    <2> QED
      BY <1>4, <2>1, <2>2
  <1>11. CASE UNCHANGED Bell!vars \/ \E r \in requests : Bell!Failed(r)
    BY <1>3, <1>11 DEF Bell!vars, Bell!Failed
  <1> QED
    BY <1>5, <1>6, <1>7, <1>8, <1>9, <1>10, <1>11, BellSteps

\* Without a deletion nothing is taken, and what two sets of deletions leave is what their union does.
LEMMA Leavings ==
    ASSUME NEW list
    PROVE  /\ \A D : (\A d \in D : Loads(d)) => LeftOf(list, D) = {x \in list : TRUE}
           /\ \A D, E : LeftOf(LeftOf(list, D), E) = LeftOf(list, D \cup E)
  BY DEF LeftOf, Takes, Loads

\* What the server does keeps the promise.
LEMMA BellKeptByServer ==
    ASSUME ~AnyOrder, BellShape, InOrder, BellInv, NEW r \in requests, NEW a \in BellRequests, HandledAs(r, a)
    PROVE  BellInv'
  <1>1. /\ r.status = "sent" /\ a.n = r.n /\ a.kind = r.kind /\ a.note = r.note /\ a.status = "done"
        /\ a.list = stored /\ requests' = (requests \ {r}) \cup {a} /\ stored' = LeftOf(stored, {r})
        /\ UNCHANGED <<store, displayed, pushes, untold>>
    BY DEF HandledAs
  <1> SUFFICES ASSUME displayed, ~untold, pushes = <<>>,
                      ~ \E o \in requests' : Loads(o) /\ o.status = "sent"
               PROVE  /\ \A m \in requests' : Loads(m) /\ (\A o \in requests' : Loads(o) => o.n <= m.n)
                              => stored' = LeftOf(m.list, DoneAfter(m.n)')
                      /\ (~ \E o \in requests' : Loads(o)) =>
                              stored' = LeftOf(store.list, DoneNow') /\ store.count = Cardinality(store.list)
    BY <1>1 DEF BellInv
  <1>2. \A o \in requests' : o = a \/ (o \in requests /\ o # r /\ o.n # r.n)
    BY <1>1 DEF InOrder
  <1>3. /\ r.n \in Nat /\ \A o \in requests : o.n \in Nat
        /\ \A o \in requests : o.status # "sent" => o.n < r.n
    BY <1>1 DEF InOrder, BellShape, BellRequests
  <1>4. CASE Loads(r)
    <2>1. Loads(a) /\ stored' = stored
      BY <1>1, <1>4 DEF Loads, LeftOf, Takes
    <2>2. \A o \in requests' : Loads(o) => o = a \/ (o \in requests /\ o.n < a.n)
      BY <1>1, <1>2, <1>3 DEF BellShape, BellRequests
    <2>3. DoneAfter(a.n)' = {}
      <3> SUFFICES ASSUME NEW d \in requests', d.status = "done", d.n > a.n PROVE FALSE
        BY DEF DoneAfter
      <3>1. d \in requests /\ d.n < r.n
        BY <1>1, <1>2, <1>3
      <3> QED
        BY <1>1, <1>3, <3>1
    <2>4. stored' = LeftOf(a.list, DoneAfter(a.n)')
      BY <1>1, <2>1, <2>3 DEF LeftOf
    <2> SUFFICES ASSUME NEW m \in requests', Loads(m), \A o \in requests' : Loads(o) => o.n <= m.n
                 PROVE  m = a
      BY <1>1, <2>1, <2>4
    <2>5. a.n <= m.n /\ a.n \in Nat
      BY <1>1, <1>3, <2>1
    <2>6. m \in requests => m.n \in Nat
      BY <1>3
    <2> QED
      BY <2>2, <2>5, <2>6
  <1>5. CASE ~ Loads(r)
    <2>1. ~ Loads(a) /\ \A o \in requests : Loads(o) => o \in requests'
      BY <1>1, <1>5 DEF Loads
    <2>2. ~ \E o \in requests : Loads(o) /\ o.status = "sent"
      BY <2>1
    <2>3. \A list, D : LeftOf(LeftOf(list, D), {r}) = LeftOf(list, D \cup {a})
      BY <1>1 DEF LeftOf, Takes
    <2>4. ASSUME NEW m \in requests', Loads(m), \A o \in requests' : Loads(o) => o.n <= m.n
          PROVE  stored' = LeftOf(m.list, DoneAfter(m.n)')
      <3>1. m \in requests /\ \A o \in requests : Loads(o) => o.n <= m.n
        BY <1>2, <2>1, <2>4
      <3>2. m.n < r.n
        BY <1>3, <2>2, <2>4, <3>1
      <3>3. stored = LeftOf(m.list, DoneAfter(m.n))
        BY <2>2, <2>4, <3>1 DEF BellInv
      <3>4. DoneAfter(m.n)' = DoneAfter(m.n) \cup {a}
        BY <1>1, <1>3, <3>1, <3>2 DEF DoneAfter
      <3>5. stored' = LeftOf(m.list, DoneAfter(m.n) \cup {a})
        BY <1>1, <2>3, <3>3
      <3> QED
        BY <3>4, <3>5, Zenon
    <2>5. ASSUME ~ \E o \in requests' : Loads(o)
          PROVE  stored' = LeftOf(store.list, DoneNow') /\ store.count = Cardinality(store.list)
      <3>1. stored = LeftOf(store.list, DoneNow) /\ store.count = Cardinality(store.list)
        BY <2>1, <2>2, <2>5 DEF BellInv
      <3>2. DoneNow' = DoneNow \cup {a}
        BY <1>1 DEF DoneNow
      <3> QED
        BY <1>1, <2>3, <3>1, <3>2
    <2> QED
      BY <2>4, <2>5
  <1> QED
    BY <1>4, <1>5

\* So does an answer: it is the first of those under way.
LEMMA BellKeptByAnswer ==
    ASSUME ~AnyOrder, BellShape, InOrder, BellInv, NEW r \in requests, NEW s \in BellStores,
           Answered(r, s), Staying(s, {r})
    PROVE  BellInv'
  <1>1. /\ r.status = "done" /\ s.count = Cardinality(s.list) /\ store' = s /\ requests' = requests \ {r}
        /\ UNCHANGED <<stored, displayed, pushes, untold>>
        /\ \A o \in requests : o.status = "done" => o.n >= r.n
    BY DEF Answered, Staying, Bell!InTurn
  <1> SUFFICES ASSUME displayed, ~untold, pushes = <<>>,
                      ~ \E o \in requests' : Loads(o) /\ o.status = "sent"
               PROVE  /\ \A m \in requests' : Loads(m) /\ (\A o \in requests' : Loads(o) => o.n <= m.n)
                              => stored = LeftOf(m.list, DoneAfter(m.n)')
                      /\ (~ \E o \in requests' : Loads(o)) => stored = LeftOf(s.list, DoneNow')
    BY <1>1 DEF BellInv
  <1>2. ~ \E o \in requests : Loads(o) /\ o.status = "sent"
    BY <1>1
  <1>3. r.n \in Nat /\ \A o \in requests : /\ o.n \in Nat /\ o.status \in {"sent", "done"}
                                           /\ (o.n = r.n => o = r)
    BY DEF InOrder, BellShape, BellRequests
  <1>4. ASSUME NEW m \in requests', Loads(m), \A o \in requests' : Loads(o) => o.n <= m.n
        PROVE  stored = LeftOf(m.list, DoneAfter(m.n)')
    <2>1. m \in requests /\ m.n >= r.n
      BY <1>1, <1>2, <1>3, <1>4
    <2>2. \A o \in requests : Loads(o) => o.n <= m.n
      BY <1>1, <1>4, <2>1
    <2>3. stored = LeftOf(m.list, DoneAfter(m.n))
      BY <1>2, <1>4, <2>1, <2>2 DEF BellInv
    <2>4. DoneAfter(m.n)' = DoneAfter(m.n)
      BY <1>1, <1>3, <2>1 DEF DoneAfter
    <2> QED
      BY <2>3, <2>4
  <1>5. ASSUME ~ \E o \in requests' : Loads(o)
        PROVE  stored = LeftOf(s.list, DoneNow')
    <2>1. \A o \in requests : Loads(o) => o = r
      BY <1>1, <1>5
    <2>2. CASE Loads(r)
      <3>1. s.list = r.list
        BY <2>2 DEF Answered
      <3>2. stored = LeftOf(r.list, DoneAfter(r.n))
        BY <1>2, <1>3, <2>1, <2>2 DEF BellInv
      <3>3. DoneNow' = DoneAfter(r.n)
        BY <1>1, <1>3 DEF DoneNow, DoneAfter
      <3> QED
        BY <3>1, <3>2, <3>3
    <2>3. CASE ~ Loads(r)
      <3>1. s.list = LeftOf(store.list, {r})
        BY <2>3 DEF Answered
      <3>2. stored = LeftOf(store.list, DoneNow)
        BY <1>2, <2>1, <2>3 DEF BellInv
      <3>3. DoneNow = {r} \cup DoneNow'
        BY <1>1 DEF DoneNow
      <3> QED
        BY <3>1, <3>2, <3>3, Leavings
    <2> QED
      BY <2>2, <2>3
  <1> QED
    BY <1>4, <1>5

LEMMA BellKept ==
    ASSUME IsFiniteSet(Notes), ~AnyOrder, BellShape, InOrder, BellInv, [Bell!Next]_Bell!vars
    PROVE  BellInv'
  <1>1. CASE Bell!Connection \/ \E n \in Notes : Bell!Create(n) \/ Bell!DeletedElsewhere(n)
    BY <1>1, ElsewhereStep DEF BellInv, DoneAfter, DoneNow
  <1>2. CASE Bell!ToggleDisplay
    <2>1. CASE displayed'
      BY <1>2, <2>1, OpeningStep, BellWhenLoading
    <2>2. CASE ~ displayed'
      BY <2>2 DEF BellInv
    <2> QED
      BY <2>1, <2>2
  <1>3. CASE Bell!DeleteAllNotifications \/ \E n \in Notes : Bell!DeleteNotification(n)
    <2>1. UNCHANGED <<stored, store, displayed, pushes, untold>>
      BY <1>3, DeletingStep
    <2>2. PICK m : requests' = requests \cup {m} /\ ~ Loads(m) /\ m.status = "sent"
      BY <1>3, DeletingStep
    <2>3. DoneNow' = DoneNow /\ \A n : DoneAfter(n)' = DoneAfter(n)
      BY <2>2 DEF DoneNow, DoneAfter
    <2> QED
      BY <2>1, <2>2, <2>3 DEF BellInv
  <1>4. ASSUME NEW r \in requests, NEW a \in BellRequests, HandledAs(r, a) PROVE BellInv'
    BY <1>4, BellKeptByServer
  <1>5. ASSUME NEW s \in BellStores, NEW answered, Reloading(s, answered) PROVE BellInv'
    BY <1>5, BellWhenLoading DEF Reloading
  <1>6. ASSUME NEW r \in requests, NEW s \in BellStores, Answered(r, s), Bell!Dispatch(s, {r}) PROVE BellInv'
    BY <1>5, <1>6, Dispatching, BellKeptByAnswer DEF BellShape
  <1>7. CASE Bell!HandlePush
    <2>1. PICK s \in BellStores : s.count = store.count + 1 /\ Bell!Dispatch(s, {})
      BY <1>7, PushStep
    <2>2. CASE displayed
      <3>1. s.count # store.count
        BY <2>1 DEF BellShape, BellStores
      <3> QED
        BY <1>5, <2>1, <2>2, <3>1, Dispatching DEF Staying, BellShape
    <2>3. CASE ~ displayed
      <3>1. ~ displayed'
        BY <1>7, <2>3, PushStep
      <3> QED
        BY <3>1 DEF BellInv
    <2> QED
      BY <2>2, <2>3
  <1>8. CASE \E r \in requests : Bell!Failed(r)
    BY <1>8 DEF Bell!Failed, BellInv
  <1>9. CASE UNCHANGED Bell!vars
    BY <1>9 DEF Bell!vars, BellInv, DoneAfter, DoneNow
  <1> QED
    BY <1>1, <1>2, <1>3, <1>4, <1>6, <1>7, <1>8, <1>9, BellSteps

\* The store of the bell keeps its shape, and nothing that loads has been forgotten.
THEOREM BellTypeCorrect == ASSUME IsFiniteSet(Notes) PROVE Bell!Spec => []Bell!TypeOK
  <1>1. Bell!Init => BellShape
    BY FirstBellShape
  <1>2. BellShape /\ [Bell!Next]_Bell!vars => BellShape'
    BY BellShapeKept
  <1>3. BellShape => Bell!TypeOK
    BY DEF BellShape, Bell!TypeOK, BellStores, BellRequests, Loads
  <1> QED
    BY <1>1, <1>2, <1>3, PTL DEF Bell!Spec

\* When answers come in the order of the requests, whatever is pushed between them: as soon as the
\* open panel has heard of everything and waits for nothing, its count and its list are those of the server.
THEOREM BellTellsTruth == ASSUME IsFiniteSet(Notes), ~AnyOrder PROVE Bell!Spec => []Bell!BadgeTellsTruth
  <1> DEFINE Inv == BellShape /\ InOrder /\ BellInv
  <1>1. Bell!Init => Inv
    <2> SUFFICES ASSUME Bell!Init PROVE Inv
      OBVIOUS
    <2>1. BellShape
      BY FirstBellShape
    <2>2. InOrder /\ BellInv
      BY DEF Bell!Init, InOrder, BellInv
    <2> QED
      BY <2>1, <2>2
  <1>2. Inv /\ [Bell!Next]_Bell!vars => Inv'
    BY BellShapeKept, BellInOrderKept, BellKept
  <1>3. Inv => Bell!BadgeTellsTruth
    <2> SUFFICES ASSUME BellInv, displayed, requests = {}, pushes = <<>>, ~untold
                 PROVE  store.count = Cardinality(stored) /\ store.list = stored
      BY SameBellCount DEF Bell!BadgeTellsTruth
    <2>1. stored = LeftOf(store.list, DoneNow) /\ store.count = Cardinality(store.list)
      BY DEF BellInv
    <2>2. DoneNow = {}
      BY DEF DoneNow
    <2>3. stored = store.list
      BY <2>1, <2>2 DEF LeftOf
    <2> QED
      BY <2>1, <2>3
  <1> QED
    BY <1>1, <1>2, <1>3, PTL DEF Bell!Spec

--------------------------------------------------------------------------------
(* My Profile (UserProfile). *)

UserFields == {"name", "times", "from", "to"}
RequestFields == {"kind", "part", "body", "who", "stage", "lost"}
WellAsked(r) ==
    /\ DOMAIN r = RequestFields /\ DOMAIN r.body = UserFields
    /\ r.kind \in {"save", "get", "sched"} /\ r.stage \in {"sent", "done"} /\ ~r.lost

\* The reader who waits has one request under way at most.
ProfileShape ==
    /\ DOMAIN srv = UserFields /\ DOMAIN told = UserFields \cup {"what"}
    /\ DOMAIN store = {"user", "edited", "errors", "shown"} /\ DOMAIN store.edited = UserFields
    /\ modal # None => store.shown /\ DOMAIN modal = {"kind", "from", "to", "times"}
    /\ flight = <<>> \/ \E r : flight = <<r>> /\ WellAsked(r)

LEMMA OneInRow ==
    ASSUME NEW r
    PROVE  /\ Len(<<r>>) = 1 /\ <<r>>[1] = r /\ <<r>> # <<>>
           /\ Profile!RemoveAt(<<r>>, 1) = <<>>
           /\ \A x : /\ Append(Profile!RemoveAt(<<r>>, 1), x) = <<x>> /\ Append(<<>>, x) = <<x>>
                     /\ [<<r>> EXCEPT ![1] = x] = <<x>>
  <1>1. Len(<<r>>) = 1 /\ <<r>>[1] = r /\ <<r>> # <<>>
    OBVIOUS
  <1>2. Profile!RemoveAt(<<r>>, 1) = <<>>
    <2> DEFINE a == SubSeq(<<r>>, 1, 0)
               b == SubSeq(<<r>>, 2, 1)
    <2>1. a = <<>> /\ b = <<>>
      <3>1. <<r>> \in Seq({r})
        OBVIOUS
      <3>2. a \in Seq({r}) /\ Len(a) = 0 /\ b \in Seq({r}) /\ Len(b) = 0
        BY <1>1, <3>1
      <3> QED
        BY <3>2
    <2> HIDE DEF a, b
    <2>2. a \o b = <<>>
      BY <2>1
    <2>3. Profile!RemoveAt(<<r>>, 1) = a \o b
      BY <1>1 DEF Profile!RemoveAt, a, b
    <2> QED
      BY <2>2, <2>3
  <1>3. ASSUME NEW x PROVE Append(<<>>, x) = <<x>> /\ [<<r>> EXCEPT ![1] = x] = <<x>>
    OBVIOUS
  <1> QED
    BY <1>1, <1>2, <1>3

\* What a click may do: draw, open the profile, send a request, or load the page again.
SameUser == /\ DOMAIN store' = DOMAIN store /\ store'.user = store.user
            /\ DOMAIN store'.edited = DOMAIN store.edited
            /\ store'.edited.times = store.edited.times /\ store'.edited.from = store.edited.from
            /\ store'.edited.to = store.edited.to
AsksFor(r) ==
    /\ flight = <<>> /\ flight' = <<r>> /\ WellAsked(r) /\ r.stage = "sent"
    /\ store'.shown = store.shown
    /\ (r.who = "profile" /\ store.shown) \/ (r.who = "popup" /\ r.kind = "sched")
    /\ r.kind = "sched" /\ r.part = "pause" => r.body.from = modal.from /\ r.body.to = modal.to
                                               /\ Profile!DatesValid(modal.from, modal.to)
                                               /\ Profile!In("pause")
    /\ r.kind = "sched" => r.part \in {"times", "pause"} \/ r.body = Profile!Blank
Looks ==
    /\ UNCHANGED <<srv, fullUser, told, job, raced>> /\ SameUser
    /\ \/ flight' = flight /\ (store'.shown = store.shown \/ (flight = <<>> /\ store'.shown))
       \/ \E r : AsksFor(r)
LoadsAgain ==
    /\ UNCHANGED <<srv, told, job, raced, modal>> /\ flight = <<>> /\ flight' = <<>>
    /\ store' = Profile!ProfileData(srv) /\ fullUser' = srv

LEMMA BlankIsUser ==
    /\ DOMAIN Profile!Blank = UserFields
    /\ \A n : DOMAIN [Profile!Blank EXCEPT !.name = n] = UserFields
    /\ \A t : DOMAIN [Profile!Blank EXCEPT !.times = t] = UserFields
    /\ \A f, t : LET b == [Profile!Blank EXCEPT !.from = f, !.to = t] IN
                 DOMAIN b = UserFields /\ b.from = f /\ b.to = t
  BY DEF Profile!Blank, UserFields

LEMMA ClicksLook ==
    ASSUME Waits, ProfileShape,
           \/ Profile!OpenProfile \/ \E n \in Names \cup {""} : Profile!TypeName(n)
           \/ Profile!Save \/ Profile!Cancel \/ Profile!ClearPausing \/ Profile!ResumeNotifications
           \/ Profile!OpenSchedule \/ Profile!EditTimes \/ Profile!SubmitSchedule
           \/ Profile!OpenPause \/ Profile!UpdateDate \/ Profile!SubmitPause
           \/ Profile!CloseModal \/ Profile!Tick
    PROVE  Looks
  <1> DOMAIN store = {"user", "edited", "errors", "shown"} /\ DOMAIN store.edited = UserFields
    BY DEF ProfileShape
  <1>0. ASSUME flight = <<>>, NEW r, Profile!Send(r) PROVE flight' = <<r>>
    BY <1>0, OneInRow DEF Profile!Send
  <1>1. ASSUME Profile!OpenProfile PROVE Looks
    BY <1>1 DEF Profile!OpenProfile, Profile!Can, Looks, SameUser
  <1>2. ASSUME NEW n \in Names \cup {""}, Profile!TypeName(n) PROVE Looks
    <2>1. store' = [store EXCEPT !.edited = [store.edited EXCEPT !.name = n], !.errors = {}]
      BY <1>2 DEF Profile!TypeName, Profile!editUser
    <2>2. SameUser /\ store'.shown = store.shown
      BY <2>1 DEF SameUser, UserFields
    <2> QED
      BY <1>2, <2>2 DEF Profile!TypeName, Looks
  <1>3. ASSUME Profile!Save PROVE Looks
    <2>1. SameUser /\ store'.shown = store.shown
      BY <1>3 DEF Profile!Save, Profile!setError, SameUser
    <2>2. CASE Profile!FormErrors(store.edited) = {}
      <3> DEFINE b == [Profile!Blank EXCEPT !.name = store.edited.name]
                 r == Profile!Request("save", "name", b, "profile")
      <3>1. WellAsked(r) /\ r.stage = "sent" /\ r.kind = "save" /\ r.who = "profile"
        BY BlankIsUser DEF Profile!Request, WellAsked, RequestFields
      <3>2. Profile!Send(r) /\ flight = <<>> /\ store.shown /\ UNCHANGED <<srv, fullUser, told, job, raced>>
        BY <1>3, <2>2 DEF Profile!Save, Profile!Can, Profile!InForm
      <3> HIDE DEF r
      <3>3. AsksFor(r)
        BY <1>0, <2>1, <3>1, <3>2 DEF AsksFor
      <3> QED
        BY <2>1, <3>2, <3>3 DEF Looks
    <2>3. CASE Profile!FormErrors(store.edited) # {}
      BY <1>3, <2>1, <2>3 DEF Profile!Save, Looks
    <2> QED
      BY <2>2, <2>3
  <1>4. ASSUME Profile!Cancel PROVE Looks
    <2> DEFINE r == Profile!fetchUser("profile")
    <2>1. WellAsked(r) /\ r.stage = "sent" /\ r.kind = "get" /\ r.who = "profile"
      BY BlankIsUser DEF Profile!fetchUser, Profile!Request, WellAsked, RequestFields
    <2>2. /\ Profile!Send(r) /\ flight = <<>> /\ store.shown
          /\ UNCHANGED <<srv, fullUser, store, told, job, raced>>
      BY <1>4 DEF Profile!Cancel, Profile!Can, Profile!InForm
    <2> HIDE DEF r
    <2>3. AsksFor(r)
      BY <1>0, <2>1, <2>2 DEF AsksFor
    <2> QED
      BY <2>2, <2>3 DEF Looks, SameUser
  <1>5. ASSUME NEW w, (Profile!ClearPausing /\ w = "profile") \/ (Profile!ResumeNotifications /\ w = "popup")
        PROVE  Looks
    <2> DEFINE r == Profile!Request("sched", "resume", Profile!Blank, w)
    <2>1. WellAsked(r) /\ r.stage = "sent" /\ r.kind = "sched" /\ r.who = w /\ r.part = "resume"
          /\ r.body = Profile!Blank
      BY BlankIsUser DEF Profile!Request, WellAsked, RequestFields
    <2>2. /\ Profile!Send(r) /\ flight = <<>> /\ UNCHANGED <<srv, fullUser, store, told, job, raced>>
          /\ (w = "profile" /\ store.shown) \/ w = "popup"
      BY <1>5 DEF Profile!ClearPausing, Profile!ResumeNotifications, Profile!Can, Profile!InForm
    <2> HIDE DEF r
    <2>3. AsksFor(r)
      BY <1>0, <2>1, <2>2 DEF AsksFor
    <2> QED
      BY <2>2, <2>3 DEF Looks, SameUser
  <1>6. ASSUME \/ Profile!OpenSchedule \/ Profile!EditTimes \/ Profile!OpenPause
               \/ Profile!UpdateDate \/ Profile!CloseModal \/ Profile!Tick
        PROVE  Looks
    BY <1>6 DEF Profile!OpenSchedule, Profile!EditTimes, Profile!OpenPause, Profile!UpdateDate,
                Profile!CloseModal, Profile!Tick, Looks, SameUser
  <1>7. ASSUME Profile!SubmitSchedule PROVE Looks
    <2> DEFINE b == [Profile!Blank EXCEPT !.times = modal.times]
               r == Profile!Request("sched", "times", b, "profile")
    <2>1. WellAsked(r) /\ r.stage = "sent" /\ r.kind = "sched" /\ r.who = "profile" /\ r.part = "times"
      BY BlankIsUser DEF Profile!Request, WellAsked, RequestFields
    <2>2. /\ Profile!Send(r) /\ flight = <<>> /\ store.shown
          /\ UNCHANGED <<srv, fullUser, store, told, job, raced>>
      BY <1>7 DEF Profile!SubmitSchedule, Profile!Can, Profile!In, ProfileShape
    <2> HIDE DEF r
    <2>3. AsksFor(r)
      BY <1>0, <2>1, <2>2 DEF AsksFor
    <2> QED
      BY <2>2, <2>3 DEF Looks, SameUser
  <1>8. ASSUME Profile!SubmitPause PROVE Looks
    <2> DEFINE b == [Profile!Blank EXCEPT !.from = modal.from, !.to = modal.to]
               r == Profile!Request("sched", "pause", b, "profile")
    <2>1. /\ WellAsked(r) /\ r.stage = "sent" /\ r.kind = "sched" /\ r.who = "profile" /\ r.part = "pause"
          /\ r.body.from = modal.from /\ r.body.to = modal.to
      BY BlankIsUser DEF Profile!Request, WellAsked, RequestFields
    <2>2. /\ Profile!Send(r) /\ flight = <<>> /\ store.shown
          /\ UNCHANGED <<srv, fullUser, store, told, job, raced>>
          /\ Profile!DatesValid(modal.from, modal.to) /\ Profile!In("pause")
      BY <1>8 DEF Profile!SubmitPause, Profile!Can, Profile!In, ProfileShape
    <2> HIDE DEF r
    <2>3. AsksFor(r)
      BY <1>0, <2>1, <2>2 DEF AsksFor
    <2> QED
      BY <2>2, <2>3 DEF Looks, SameUser
  <1>9. (Profile!ClearPausing => Looks) /\ (Profile!ResumeNotifications => Looks)
    BY <1>5
  <1> QED
    BY <1>1, <1>2, <1>3, <1>4, <1>6, <1>7, <1>8, <1>9

\* What becomes of the one request under way.
Served(r, q) ==
    /\ flight = <<r>> /\ WellAsked(r) /\ r.stage = "sent"
    /\ flight' = <<q>> /\ WellAsked(q) /\ q.stage = "done"
    /\ q.kind = r.kind /\ q.part = r.part /\ q.who = r.who
    /\ q.body = IF r.kind = "get" THEN srv ELSE r.body
    /\ srv' = CASE r.kind = "save" -> Profile!EditProfile(r)
                [] r.kind = "sched" -> Profile!EditSchedules(r)
                [] OTHER -> srv
    /\ raced' = IF r.kind # "sched" THEN raced
                  ELSE IF job = None THEN raced \ {Profile!Half(r)}
                  ELSE raced \cup {Profile!Half(r)}
    /\ UNCHANGED <<store, modal, fullUser, job, told>>
Heard(r) ==
    /\ flight = <<r>> /\ WellAsked(r) /\ r.stage = "done" /\ UNCHANGED <<srv, job, raced>>
    /\ \/ /\ r.kind = "get" /\ flight' = <<>> /\ store' = Profile!getUser(store, r.body)
          /\ fullUser' = IF r.who = "popup" THEN r.body ELSE fullUser
          /\ UNCHANGED <<modal, told>>
       \/ /\ r.kind = "save" /\ flight' = <<Profile!fetchUser("profile")>>
          /\ told' = [told EXCEPT !.name = r.body.name]
          /\ UNCHANGED <<store, modal, fullUser>>
       \/ /\ r.kind = "sched" /\ flight' = <<Profile!fetchUser(r.who)>>
          /\ \E p : told' = IF r.part = "times" THEN [told EXCEPT !.times = r.body.times, !.what = p]
                            ELSE [told EXCEPT !.from = r.body.from, !.to = r.body.to, !.what = p]
          /\ modal' = modal \/ modal' = None
          /\ UNCHANGED <<store, fullUser>>
Refused(r) ==
    /\ MayFail /\ flight = <<r>> /\ WellAsked(r) /\ r.stage = "sent" /\ flight' = <<>>
    /\ UNCHANGED <<srv, store, modal, fullUser, job, raced, told>>
\* A run of the emails' job reads the user, and writes back the schedule it read.
RunReads == job' = srv /\ UNCHANGED <<srv, store, modal, fullUser, flight, told, raced>>
RunWrites ==
    /\ job # None /\ job' = None
    /\ srv' = [srv EXCEPT !.times = Profile!TimesOrDefault(job), !.from = job.from, !.to = job.to]
    /\ UNCHANGED <<store, modal, fullUser, flight, told, raced>>

LEMMA FirstOfOne ==
    ASSUME ProfileShape, NEW i \in 1 .. Len(flight)
    PROVE  i = 1 /\ \E r : flight = <<r>> /\ WellAsked(r) /\ flight[1] = r
  <1>1. flight # <<>>
    OBVIOUS
  <1>2. PICK r : flight = <<r>> /\ WellAsked(r)
    BY <1>1 DEF ProfileShape
  <1>3. Len(flight) = 1 /\ flight[1] = r
    BY <1>2, OneInRow
  <1> QED
    BY <1>2, <1>3

LEMMA RequestHandled ==
    ASSUME ProfileShape, NEW i \in 1 .. Len(flight), Profile!Handle(i) PROVE \E r, q : Served(r, q)
  <1>1. PICK r : i = 1 /\ flight = <<r>> /\ WellAsked(r) /\ flight[1] = r
    BY FirstOfOne
  <1> DEFINE b == IF r.kind = "get" THEN srv ELSE r.body
             p == [r EXCEPT !.stage = "done"]
             q == [p EXCEPT !.body = b]
  <1>2. flight' = [flight EXCEPT ![1].stage = "done", ![1].body = b]
    BY <1>1 DEF Profile!Handle
  <1>3. [flight EXCEPT ![1].stage = "done"] = <<p>>
    BY <1>1
  <1>4. flight' = [<<p>> EXCEPT ![1].body = b]
    BY <1>2, <1>3
  <1>5. <<p>>[1] = p
    OBVIOUS
  <1>6. flight' = <<q>>
    <2> HIDE DEF p
    <2>1. [<<p>> EXCEPT ![1].body = b] = <<[p EXCEPT !.body = b]>>
      BY <1>5
    <2> QED
      BY <1>4, <2>1
  <1>7. DOMAIN srv = UserFields
    BY DEF ProfileShape
  <1>8. WellAsked(q) /\ q.stage = "done" /\ q.kind = r.kind /\ q.part = r.part /\ q.who = r.who /\ q.body = b
    BY <1>1, <1>7 DEF WellAsked, RequestFields
  <1>9. /\ r.stage = "sent" /\ UNCHANGED <<store, modal, fullUser, job, told>>
        /\ raced' = IF r.kind # "sched" THEN raced
                      ELSE IF job = None THEN raced \ {Profile!Half(r)}
                      ELSE raced \cup {Profile!Half(r)}
        /\ srv' = CASE r.kind = "save" -> Profile!EditProfile(r)
                    [] r.kind = "sched" -> Profile!EditSchedules(r)
                    [] OTHER -> srv
    BY <1>1 DEF Profile!Handle
  <1> HIDE DEF q
  <1>10. Served(r, q)
    BY <1>1, <1>6, <1>8, <1>9 DEF Served
  <1> QED
    BY <1>10

LEMMA RequestAnswered ==
    ASSUME ProfileShape, NEW i \in 1 .. Len(flight), Profile!Answer(i) PROVE \E r : Heard(r)
  <1>1. PICK r : i = 1 /\ flight = <<r>> /\ WellAsked(r) /\ flight[1] = r
    BY FirstOfOne
  <1>2. /\ Profile!RemoveAt(flight, 1) = <<>>
        /\ \A x : Append(Profile!RemoveAt(flight, 1), x) = <<x>>
    BY <1>1, OneInRow
  <1>3. /\ r.stage = "done" /\ UNCHANGED <<srv, job, raced>>
        /\ Profile!GotUser(1) \/ Profile!SavedUser(1) \/ Profile!SavedSchedule(1)
    BY <1>1 DEF Profile!Answer, WellAsked
  <1>4. CASE Profile!GotUser(1)
    BY <1>1, <1>2, <1>3, <1>4 DEF Profile!GotUser, Heard
  <1>5. CASE Profile!SavedUser(1)
    BY <1>1, <1>2, <1>3, <1>5 DEF Profile!SavedUser, Heard
  <1>6. CASE Profile!SavedSchedule(1)
    BY <1>1, <1>2, <1>3, <1>6 DEF Profile!SavedSchedule, Heard
  <1> QED
    BY <1>3, <1>4, <1>5, <1>6

LEMMA RequestDropped ==
    ASSUME ProfileShape, NEW i \in 1 .. Len(flight), Profile!Fail(i) PROVE \E r : Refused(r)
  <1>1. PICK r : i = 1 /\ flight = <<r>> /\ WellAsked(r) /\ flight[1] = r
    BY FirstOfOne
  <1> QED
    BY <1>1, OneInRow DEF Profile!Fail, Refused

Clicks ==
    \/ Profile!OpenProfile \/ \E n \in Names \cup {""} : Profile!TypeName(n)
    \/ Profile!Save \/ Profile!Cancel \/ Profile!ClearPausing \/ Profile!ResumeNotifications
    \/ Profile!OpenSchedule \/ Profile!EditTimes \/ Profile!SubmitSchedule
    \/ Profile!OpenPause \/ Profile!UpdateDate \/ Profile!SubmitPause \/ Profile!CloseModal \/ Profile!Tick

LEMMA ReloadsPage == ASSUME Waits, Profile!HideModal PROVE LoadsAgain
  <1>1. flight = <<>>
    BY DEF Profile!HideModal, Profile!Can
  <1>2. flight' = <<>>
    <2>1. flight' = [i \in 1 .. Len(flight) |-> [flight[i] EXCEPT !.lost = TRUE]]
      BY DEF Profile!HideModal
    <2>2. 1 .. Len(flight) = {}
      BY <1>1
    <2> QED
      BY <1>1, <2>1, <2>2
  <1> QED
    BY <1>1, <1>2 DEF Profile!HideModal, LoadsAgain

LEMMA ProfileSteps ==
    ASSUME Waits, ProfileShape, [Profile!Next]_Profile!vars
    PROVE  \/ Clicks /\ Looks
           \/ Profile!HideModal /\ LoadsAgain
           \/ \E r, q : Served(r, q)
           \/ \E r : Heard(r)
           \/ \E r : Refused(r)
           \/ RunReads \/ RunWrites
           \/ UNCHANGED Profile!vars
  <1>1. Clicks => Looks
    BY ClicksLook DEF Clicks
  <1>2. (Profile!StartRun => RunReads) /\ (Profile!UpdateRunTime => RunWrites)
    BY DEF Profile!StartRun, Profile!UpdateRunTime, RunReads, RunWrites
  <1>3. Profile!Next =>
                \/ Clicks \/ Profile!HideModal
                \/ \E i \in 1 .. Len(flight) : Profile!Handle(i) \/ Profile!Answer(i) \/ Profile!Fail(i)
                \/ Profile!StartRun \/ Profile!UpdateRunTime
    BY Zenon DEF Profile!Next, Clicks
  <1>4. CASE Clicks \/ Profile!HideModal
    BY <1>1, <1>4, ReloadsPage, Zenon
  <1>5. CASE \E i \in 1 .. Len(flight) : Profile!Handle(i) \/ Profile!Answer(i) \/ Profile!Fail(i)
    BY <1>5, RequestHandled, RequestAnswered, RequestDropped, Zenon
  <1>6. CASE Profile!StartRun \/ Profile!UpdateRunTime
    BY <1>2, <1>6, Zenon
  <1> QED
    BY <1>3, <1>4, <1>5, <1>6, Zenon

ModalShape(m) == m # None => DOMAIN m = {"kind", "from", "to", "times"}

LEMMA ClicksKeepModal ==
    ASSUME ProfileShape, Clicks, Looks PROVE modal' # None => store'.shown /\ ModalShape(modal')
  <1>1. DOMAIN store = {"user", "edited", "errors", "shown"} /\ ModalShape(modal)
        /\ (modal # None => store.shown)
    BY DEF ProfileShape, ModalShape
  <1>2. store.shown => store'.shown
    BY DEF Looks, AsksFor
  <1>3. CASE modal' = modal
    BY <1>1, <1>2, <1>3
  <1>4. CASE Profile!OpenSchedule \/ Profile!OpenPause
    BY <1>4, <1>2 DEF Profile!OpenSchedule, Profile!OpenPause, Profile!InForm, ModalShape
  <1>5. CASE Profile!EditTimes \/ Profile!UpdateDate
    <2>1. modal # None /\ \E f, x : \/ modal' = [modal EXCEPT !.times = x]
                                    \/ modal' = [modal EXCEPT !.from = x]
                                    \/ modal' = [modal EXCEPT !.to = x]
      BY <1>5 DEF Profile!EditTimes, Profile!UpdateDate, Profile!UpdateTime,
                  Profile!UpdateNumberPerDay, Profile!In
    <2> QED
      BY <1>1, <1>2, <2>1 DEF ModalShape
  <1>6. CASE Profile!CloseModal
    BY <1>6 DEF Profile!CloseModal
  <1> QED
    BY <1>3, <1>4, <1>5, <1>6 DEF Clicks, Profile!OpenProfile, Profile!TypeName, Profile!Save, Profile!Cancel,
       Profile!ClearPausing, Profile!ResumeNotifications, Profile!SubmitSchedule, Profile!SubmitPause, Profile!Tick

LEMMA FirstProfileShape == ASSUME Profile!Init PROVE ProfileShape
  BY DEF Profile!Init, ProfileShape, Profile!ProfileData, Profile!NewUser, UserFields

LEMMA ProfileShapeKept ==
    ASSUME Waits, ProfileShape, [Profile!Next]_Profile!vars PROVE ProfileShape'
  <1>1. CASE Clicks /\ Looks
    <2>1. flight' = <<>> \/ \E r : flight' = <<r>> /\ WellAsked(r)
      BY <1>1 DEF Looks, AsksFor, ProfileShape
    <2> QED
      BY <1>1, <2>1, ClicksKeepModal DEF Looks, SameUser, ProfileShape, ModalShape
  <1>2. CASE Profile!HideModal /\ LoadsAgain
    <2>1. modal' = None
      BY <1>2 DEF Profile!HideModal, Profile!InForm
    <2> QED
      BY <1>2, <2>1 DEF LoadsAgain, Profile!ProfileData, ProfileShape
  <1>3. ASSUME NEW r, NEW q, Served(r, q) PROVE ProfileShape'
    <2>1. DOMAIN srv' = UserFields
      BY <1>3 DEF Served, Profile!EditProfile, Profile!EditSchedules, ProfileShape
    <2> QED
      BY <1>3, <2>1 DEF Served, ProfileShape
  <1>4. ASSUME NEW r, Heard(r) PROVE ProfileShape'
    <2>1. DOMAIN told' = DOMAIN told /\ (modal' = modal \/ modal' = None)
      BY <1>4 DEF Heard
    <2>2. /\ DOMAIN store' = DOMAIN store /\ DOMAIN store'.edited = UserFields
          /\ store'.shown = store.shown
      BY <1>4 DEF Heard, Profile!getUser, ProfileShape, WellAsked
    <2>3. \A w : WellAsked(Profile!fetchUser(w))
      BY BlankIsUser DEF Profile!fetchUser, Profile!Request, WellAsked, RequestFields
    <2>4. flight' = <<>> \/ \E q : flight' = <<q>> /\ WellAsked(q)
      BY <1>4, <2>3 DEF Heard
    <2>5. UNCHANGED <<srv, job, raced>>
      BY <1>4 DEF Heard
    <2> QED
      BY <2>1, <2>2, <2>4, <2>5 DEF ProfileShape
  <1>5. ASSUME NEW r, Refused(r) PROVE ProfileShape'
    BY <1>5 DEF Refused, ProfileShape
  <1>6. CASE RunReads \/ RunWrites
    BY <1>6 DEF RunReads, RunWrites, ProfileShape
  <1>7. CASE UNCHANGED Profile!vars
    BY <1>7 DEF Profile!vars, ProfileShape
  <1> QED
    BY <1>1, <1>2, <1>3, <1>4, <1>5, <1>6, <1>7, ProfileSteps

\* Two users have the same times and the same pause, but for some parts.
Alike(u, v, parts) ==
    /\ "times" \notin parts => Profile!TimesOrDefault(u) = Profile!TimesOrDefault(v)
    /\ "pause" \notin parts => u.from = v.from /\ u.to = v.to

LEMMA RunWriteFollows ==
    ASSUME ProfileShape, RunWrites, Alike(srv, job, raced)
    PROVE  /\ srv'.name = srv.name /\ srv'.from = job.from /\ srv'.to = job.to
           /\ \A u : Alike(srv, u, raced) => Alike(srv', u, raced)
  <1>1. /\ srv'.name = srv.name /\ srv'.times = Profile!TimesOrDefault(job)
        /\ srv'.from = job.from /\ srv'.to = job.to
    BY DEF RunWrites, ProfileShape, UserFields
  <1>2. Profile!TimesOrDefault(srv') = Profile!TimesOrDefault(job)
    BY <1>1 DEF Profile!TimesOrDefault
  <1> QED
    BY <1>1, <1>2 DEF Alike

\* What is saved of the schedule: the one half is what was sent, the other as it was.
LEMMA HalfSaved ==
    ASSUME NEW r, NEW q, DOMAIN srv = UserFields, Served(r, q)
    PROVE  /\ r.kind # "save" => srv'.name = srv.name
           /\ r.kind = "save" => srv'.name = r.body.name
           /\ r.kind # "sched" => srv'.times = srv.times /\ srv'.from = srv.from /\ srv'.to = srv.to
           /\ r.kind = "sched" /\ r.part = "times" =>
                 srv'.times = r.body.times /\ srv'.from = srv.from /\ srv'.to = srv.to
           /\ r.kind = "sched" /\ r.part # "times" =>
                 /\ Profile!TimesOrDefault(srv') = Profile!TimesOrDefault(srv)
                 /\ srv'.from = r.body.from /\ srv'.to = r.body.to
  <1>1. CASE r.kind = "sched" /\ r.part # "times"
    <2>1. srv' = [srv EXCEPT !.from = r.body.from, !.to = r.body.to,
                             !.times = IF srv.times = None THEN <<>> ELSE srv.times]
      BY <1>1 DEF Served, Profile!EditSchedules
    <2>2. /\ srv'.name = srv.name /\ srv'.from = r.body.from /\ srv'.to = r.body.to
          /\ srv'.times = IF srv.times = None THEN <<>> ELSE srv.times
      BY <2>1 DEF UserFields
    <2> QED
      BY <1>1, <2>2 DEF Profile!TimesOrDefault
  <1>2. CASE r.kind = "sched" /\ r.part = "times"
    BY <1>2 DEF Served, Profile!EditSchedules, UserFields
  <1>3. CASE r.kind = "save"
    BY <1>3 DEF Served, Profile!EditProfile, UserFields
  <1>4. CASE r.kind = "get"
    BY <1>4 DEF Served
  <1> QED
    BY <1>1, <1>2, <1>3, <1>4 DEF Served, WellAsked

LEMMA HalfRaced ==
    ASSUME NEW r, NEW q, Served(r, q)
    PROVE  /\ r.kind # "sched" => raced' = raced
           /\ r.kind = "sched" /\ r.part = "times" =>
                 ("pause" \in raced' <=> "pause" \in raced) /\ (job # None => "times" \in raced')
           /\ r.kind = "sched" /\ r.part # "times" =>
                 ("times" \in raced' <=> "times" \in raced) /\ (job # None => "pause" \in raced')
  <1>1. raced' = IF r.kind # "sched" THEN raced
                   ELSE IF job = None THEN raced \ {Profile!Half(r)}
                   ELSE raced \cup {Profile!Half(r)}
    BY DEF Served
  <1>2. CASE r.kind # "sched"
    BY <1>1, <1>2
  <1>3. CASE r.kind = "sched" /\ job = None
    BY <1>1, <1>3 DEF Profile!Half
  <1>4. CASE r.kind = "sched" /\ job # None
    BY <1>1, <1>4 DEF Profile!Half
  <1> QED
    BY <1>2, <1>3, <1>4

\* A save leaves what is the same as the server's schedule, in the parts it does not save.
LEMMA SaveFollows ==
    ASSUME ProfileShape, NEW r, NEW q, Served(r, q)
    PROVE  /\ r.kind # "sched" => raced' = raced /\ \A u : Alike(srv, u, raced) => Alike(srv', u, raced')
           /\ r.kind = "sched" /\ r.part = "times" => \A u, v : Alike(srv, u, raced) =>
                 /\ job # None => Alike(srv', u, raced')
                 /\ v.times = r.body.times /\ v.from = u.from /\ v.to = u.to => Alike(srv', v, raced')
           /\ r.kind = "sched" /\ r.part # "times" => \A u, v : Alike(srv, u, raced) =>
                 /\ job # None => Alike(srv', u, raced')
                 /\ v.times = u.times /\ v.from = r.body.from /\ v.to = r.body.to => Alike(srv', v, raced')
  <1> DOMAIN srv = UserFields
    BY DEF ProfileShape
  <1>1. ASSUME NEW u, NEW v, u.times = v.times PROVE Profile!TimesOrDefault(u) = Profile!TimesOrDefault(v)
    BY <1>1 DEF Profile!TimesOrDefault
  <1>2. CASE r.kind # "sched"
    <2>1. Profile!TimesOrDefault(srv') = Profile!TimesOrDefault(srv) /\ raced' = raced
          /\ srv'.from = srv.from /\ srv'.to = srv.to
      BY <1>1, <1>2, HalfSaved, HalfRaced
    <2> QED
      BY <1>2, <2>1 DEF Alike
  <1>3. CASE r.kind = "sched" /\ r.part = "times"
    <2>1. /\ "pause" \in raced' <=> "pause" \in raced
          /\ job # None => "times" \in raced'
          /\ srv'.times = r.body.times /\ srv'.from = srv.from /\ srv'.to = srv.to
      BY <1>3, HalfSaved, HalfRaced
    <2> QED
      BY <1>1, <1>3, <2>1 DEF Alike
  <1>4. CASE r.kind = "sched" /\ r.part # "times"
    <2>1. /\ "times" \in raced' <=> "times" \in raced
          /\ job # None => "pause" \in raced'
          /\ Profile!TimesOrDefault(srv') = Profile!TimesOrDefault(srv)
          /\ srv'.from = r.body.from /\ srv'.to = r.body.to
      BY <1>4, HalfSaved, HalfRaced
    <2> QED
      BY <1>1, <1>4, <2>1 DEF Alike
  <1> QED
    BY <1>2, <1>3, <1>4

\* What a run has read is the schedule of the server, but for the parts saved since.
RunInv == job # None => Alike(srv, job, raced)

LEMMA RunKept ==
    ASSUME Waits, ProfileShape, RunInv, [Profile!Next]_Profile!vars PROVE RunInv'
  <1>1. CASE UNCHANGED <<srv, job, raced>>
    BY <1>1 DEF RunInv, Alike, Profile!TimesOrDefault
  <1>2. ASSUME NEW r, NEW q, Served(r, q), job # None PROVE Alike(srv', job, raced')
    <2>1. Alike(srv, job, raced)
      BY <1>2 DEF RunInv
    <2> QED
      BY <1>2, <2>1, SaveFollows
  <1>3. CASE RunReads
    <2>1. job' = srv'
      BY <1>3 DEF RunReads
    <2> QED
      BY <2>1 DEF RunInv, Alike
  <1>4. CASE RunWrites
    BY <1>4 DEF RunWrites, RunInv
  <1>5. \/ Looks \/ LoadsAgain \/ (\E r : Heard(r)) \/ (\E r : Refused(r)) \/ UNCHANGED Profile!vars
        => UNCHANGED <<srv, job, raced>>
    BY DEF Looks, LoadsAgain, Heard, Refused, Profile!vars
  <1>6. ASSUME NEW r, NEW q, Served(r, q) PROVE RunInv'
    <2>1. job' = job
      BY <1>6 DEF Served
    <2> QED
      BY <1>2, <1>6, <2>1 DEF RunInv, Alike, Profile!TimesOrDefault
  <1> QED
    BY <1>1, <1>3, <1>4, <1>5, <1>6, ProfileSteps

\* What the last messages said, or will have said when the answer comes, is what the server has.
Agree(t, s, parts) == t.name = s.name /\ Alike(s, t, parts)
Said(r) ==
    CASE r.kind = "save" /\ r.stage = "done" -> [told EXCEPT !.name = r.body.name]
      [] r.kind = "sched" /\ r.stage = "done" /\ r.part = "times" -> [told EXCEPT !.times = r.body.times]
      [] r.kind = "sched" /\ r.stage = "done" /\ r.part # "times" ->
             [told EXCEPT !.from = r.body.from, !.to = r.body.to]
      [] OTHER -> told
ToldInv ==
    /\ flight = <<>> => Agree(told, srv, raced)
    /\ \A r : flight = <<r>> => Agree(Said(r), srv, raced)

LEMMA ToldKept ==
    ASSUME Waits, ProfileShape, RunInv, ToldInv, [Profile!Next]_Profile!vars PROVE ToldInv'
  <1> DOMAIN srv = UserFields /\ DOMAIN told = UserFields \cup {"what"}
    BY DEF ProfileShape
  <1>1. CASE Looks
    <2>1. UNCHANGED <<srv, told, raced>>
      BY <1>1 DEF Looks
    <2>2. CASE flight' = flight
      BY <2>1, <2>2 DEF ToldInv, Said, Agree, Alike, Profile!TimesOrDefault
    <2>3. ASSUME NEW r, AsksFor(r) PROVE ToldInv'
      <3>1. flight = <<>> /\ flight' = <<r>> /\ r.stage = "sent"
        BY <2>3 DEF AsksFor
      <3>2. Said(r)' = told'
        BY <3>1 DEF Said
      <3>3. Agree(told', srv', raced')
        BY <2>1, <3>1 DEF ToldInv
      <3>4. \A q : flight' = <<q>> => q = r
        BY <3>1
      <3>5. flight' # <<>>
        BY <3>1
      <3> QED
        BY <3>2, <3>3, <3>4, <3>5 DEF ToldInv
    <2> QED
      BY <1>1, <2>2, <2>3 DEF Looks
  <1>2. CASE LoadsAgain
    <2>1. flight = <<>> /\ flight' = <<>> /\ UNCHANGED <<srv, told, raced>>
      BY <1>2 DEF LoadsAgain
    <2> QED
      BY <2>1 DEF ToldInv, Agree, Alike, Profile!TimesOrDefault
  <1>3. ASSUME NEW r, NEW q, Served(r, q) PROVE ToldInv'
    <2>1. /\ flight = <<r>> /\ WellAsked(r) /\ r.stage = "sent"
          /\ flight' = <<q>> /\ q.stage = "done" /\ q.kind = r.kind /\ q.part = r.part
          /\ q.body = (IF r.kind = "get" THEN srv ELSE r.body) /\ told' = told
      BY <1>3 DEF Served
    <2>2. Agree(told, srv, raced)
      <3>1. Said(r) = told
        BY <2>1 DEF Said
      <3> QED
        BY <2>1, <3>1 DEF ToldInv
    <2>3. r.kind \in {"save", "get", "sched"}
      BY <2>1 DEF WellAsked
    <2>4. ASSUME NEW x, x = Said(q)' PROVE Agree(x, srv', raced')
      <3>1. CASE r.kind = "save"
        <4>1. x.name = r.body.name /\ x.times = told.times /\ x.from = told.from /\ x.to = told.to
          BY <2>1, <2>4, <3>1 DEF Said, UserFields
        <4>2. Alike(srv', told, raced') /\ srv'.name = r.body.name
          BY <1>3, <2>2, <3>1, SaveFollows, HalfSaved DEF Agree
        <4> QED
          BY <4>1, <4>2 DEF Agree, Alike, Profile!TimesOrDefault
      <3>2. CASE r.kind = "sched" /\ r.part = "times"
        <4>1. x.name = told.name /\ x.times = r.body.times /\ x.from = told.from /\ x.to = told.to
          BY <2>1, <2>4, <3>2 DEF Said, UserFields
        <4>2. srv'.name = srv.name
          BY <1>3, <3>2, HalfSaved
        <4> QED
          BY <1>3, <2>2, <3>2, <4>1, <4>2, SaveFollows DEF Agree
      <3>3. CASE r.kind = "sched" /\ r.part # "times"
        <4>1. x.name = told.name /\ x.times = told.times /\ x.from = r.body.from /\ x.to = r.body.to
          BY <2>1, <2>4, <3>3 DEF Said, UserFields
        <4>2. srv'.name = srv.name
          BY <1>3, <3>3, HalfSaved
        <4> QED
          BY <1>3, <2>2, <3>3, <4>1, <4>2, SaveFollows DEF Agree
      <3>4. CASE r.kind = "get"
        <4>1. x = told
          BY <2>1, <2>4, <3>4 DEF Said
        <4>2. srv'.name = srv.name /\ Alike(srv', told, raced')
          BY <1>3, <2>2, <3>4, SaveFollows, HalfSaved DEF Agree
        <4> QED
          BY <2>2, <4>1, <4>2 DEF Agree
      <3> QED
        BY <2>3, <3>1, <3>2, <3>3, <3>4
    <2>5. flight' # <<>> /\ \A p : flight' = <<p>> => p = q
      BY <2>1
    <2> QED
      BY <2>4, <2>5 DEF ToldInv
  <1>4. ASSUME NEW r, Heard(r) PROVE ToldInv'
    <2>1. /\ flight = <<r>> /\ WellAsked(r) /\ r.stage = "done" /\ srv' = srv /\ raced' = raced
          /\ r.kind \in {"save", "get", "sched"}
      BY <1>4 DEF Heard, WellAsked
    <2>2. Agree(Said(r), srv, raced)
      BY <2>1 DEF ToldInv
    <2>3. Agree(told', srv', raced')
      <3>1. CASE r.kind = "save"
        BY <1>4, <2>1, <2>2, <3>1 DEF Heard, Said
      <3>2. CASE r.kind = "sched" /\ r.part = "times"
        <4>1. PICK p : told' = [told EXCEPT !.times = r.body.times, !.what = p]
          BY <1>4, <3>2 DEF Heard
        <4>2. Said(r) = [told EXCEPT !.times = r.body.times]
          BY <2>1, <3>2 DEF Said
        <4> QED
          BY <2>1, <2>2, <4>1, <4>2 DEF Agree, Alike, Profile!TimesOrDefault, UserFields
      <3>3. CASE r.kind = "sched" /\ r.part # "times"
        <4>1. PICK p : told' = [told EXCEPT !.from = r.body.from, !.to = r.body.to, !.what = p]
          BY <1>4, <3>3 DEF Heard
        <4>2. Said(r) = [told EXCEPT !.from = r.body.from, !.to = r.body.to]
          BY <2>1, <3>3 DEF Said
        <4> QED
          BY <2>1, <2>2, <4>1, <4>2 DEF Agree, Alike, Profile!TimesOrDefault, UserFields
      <3>4. CASE r.kind = "get"
        <4>1. told' = told
          BY <1>4, <3>4 DEF Heard
        <4>2. Said(r) = told
          BY <3>4 DEF Said
        <4> QED
          BY <2>1, <2>2, <4>1, <4>2
      <3> QED
        BY <2>1, <3>1, <3>2, <3>3, <3>4
    <2>4. ASSUME NEW q, flight' = <<q>> PROVE Said(q)' = told'
      <3>1. \A w : Profile!fetchUser(w).stage = "sent"
        BY DEF Profile!fetchUser, Profile!Request
      <3>2. q.stage = "sent"
        BY <1>4, <2>4, <3>1 DEF Heard
      <3> QED
        BY <3>2 DEF Said
    <2> QED
      BY <2>3, <2>4 DEF ToldInv
  <1>5. ASSUME NEW r, Refused(r) PROVE ToldInv'
    <2>1. flight = <<r>> /\ r.stage = "sent" /\ flight' = <<>> /\ UNCHANGED <<srv, told, raced>>
      BY <1>5 DEF Refused
    <2>2. Said(r) = told
      BY <2>1 DEF Said
    <2>3. Agree(told', srv', raced')
      BY <2>1, <2>2 DEF ToldInv
    <2> QED
      BY <2>1, <2>3 DEF ToldInv
  <1>6. CASE UNCHANGED <<srv, told, raced, flight>>
    BY <1>6 DEF ToldInv, Said, Agree, Alike, Profile!TimesOrDefault
  <1>7. CASE RunWrites
    <2>1. UNCHANGED <<told, raced, flight>> /\ job # None
      BY <1>7 DEF RunWrites
    <2>2. ASSUME NEW t, Agree(t, srv, raced) PROVE Agree(t, srv', raced')
      BY <1>7, <2>1, <2>2, RunWriteFollows DEF Agree, RunInv
    <2>3. flight' = <<>> => Agree(told', srv', raced')
      BY <2>1, <2>2 DEF ToldInv
    <2>4. ASSUME NEW r, flight' = <<r>> PROVE Agree(Said(r)', srv', raced')
      <3>1. Said(r)' = Said(r)
        BY <2>1 DEF Said
      <3> QED
        BY <2>1, <2>2, <2>4, <3>1 DEF ToldInv
    <2> QED
      BY <2>3, <2>4 DEF ToldInv
  <1>8. RunReads \/ UNCHANGED Profile!vars => UNCHANGED <<srv, told, raced, flight>>
    BY DEF RunReads, Profile!vars
  <1> QED
    BY <1>1, <1>2, <1>3, <1>4, <1>5, <1>6, <1>7, <1>8, ProfileSteps

\* A reader who waits for each answer is told the truth, whatever fails and however often the emails'
\* job runs: once nothing is under way the server has the name, the times and the pause that the last
\* messages said were saved, the dialogs of the schedule and of the pause leaving each other's half
\* alone. The exception is a half that was last saved while a run of the job was on.
THEOREM ProfileToldTruth ==
    ASSUME Waits PROVE Profile!Spec => []Profile!ToldIsServed
  <1>1. Profile!Init => ProfileShape /\ RunInv /\ ToldInv
    <2> SUFFICES ASSUME Profile!Init PROVE ProfileShape /\ RunInv /\ ToldInv
      OBVIOUS
    <2>1. flight = <<>> /\ Agree(told, srv, raced) /\ job = None
      BY DEF Profile!Init, Profile!NewUser, Agree, Alike, Profile!TimesOrDefault
    <2> QED
      BY <2>1, FirstProfileShape DEF ToldInv, RunInv
  <1>2. ProfileShape /\ RunInv /\ ToldInv /\ [Profile!Next]_Profile!vars
        => (ProfileShape /\ RunInv /\ ToldInv)'
    BY ProfileShapeKept, RunKept, ToldKept
  <1>3. ToldInv => Profile!ToldIsServed
    BY DEF ToldInv, Agree, Alike, Profile!ToldIsServed, Profile!SameSchedule, Profile!Quiet
  <1> QED
    BY <1>1, <1>2, <1>3, PTL DEF Profile!Spec

\* When nothing fails the two stores of the page follow the server: the profile's as soon as nothing is
\* under way, that of the popup when the profile is closed.
Follows(u) == Agree(u, srv, raced)
FollowInv ==
    /\ flight = <<>> => /\ Follows(store.user) /\ Alike(srv, store.edited, raced)
                        /\ store.shown \/ Follows(fullUser)
    /\ \A r : flight = <<r>> => /\ \/ r.who = "profile" /\ store.shown
                                   \/ r.who = "popup" /\ r.kind # "save"
                                /\ r.kind = "get" /\ r.stage = "done" => Follows(r.body)

LEMMA FollowKept ==
    ASSUME Waits, ~MayFail, ProfileShape, RunInv, FollowInv, [Profile!Next]_Profile!vars PROVE FollowInv'
  <1> DOMAIN store = {"user", "edited", "errors", "shown"}
    BY DEF ProfileShape
  <1>1. CASE Looks
    <2>1. UNCHANGED <<srv, fullUser, raced>> /\ SameUser
      BY <1>1 DEF Looks
    <2>2. CASE flight' = flight /\ (store'.shown = store.shown \/ (flight = <<>> /\ store'.shown))
      <3>1. CASE flight = <<>>
        BY <2>1, <2>2, <3>1 DEF FollowInv, Follows, Agree, Alike, Profile!TimesOrDefault, SameUser
      <3>2. CASE flight # <<>>
        BY <2>1, <2>2, <3>2 DEF FollowInv, Follows, Agree, Alike, Profile!TimesOrDefault
      <3> QED
        BY <3>1, <3>2
    <2>3. ASSUME NEW r, AsksFor(r) PROVE FollowInv'
      <3>1. /\ flight' = <<r>> /\ r.stage = "sent" /\ store'.shown = store.shown
            /\ (r.who = "profile" /\ store.shown) \/ (r.who = "popup" /\ r.kind = "sched")
        BY <2>3 DEF AsksFor
      <3>2. flight' # <<>> /\ \A q : flight' = <<q>> => q = r
        BY <3>1
      <3> QED
        BY <3>1, <3>2 DEF FollowInv
    <2> QED
      BY <1>1, <2>2, <2>3 DEF Looks
  <1>2. CASE LoadsAgain
    BY <1>2 DEF LoadsAgain, FollowInv, Follows, Agree, Alike, Profile!ProfileData
  <1>3. ASSUME NEW r, NEW q, Served(r, q) PROVE FollowInv'
    <2>1. /\ flight = <<r>> /\ flight' = <<q>> /\ q.kind = r.kind /\ q.who = r.who
          /\ r.kind = "get" => q.body = srv /\ srv' = srv
          /\ UNCHANGED <<store, fullUser>>
      BY <1>3 DEF Served, WellAsked
    <2>2. flight' # <<>> /\ \A p : flight' = <<p>> => p = q
      BY <2>1
    <2> QED
      BY <2>1, <2>2 DEF FollowInv, Follows, Agree, Alike
  <1>4. ASSUME NEW r, Heard(r) PROVE FollowInv'
    <2>1. /\ flight = <<r>> /\ WellAsked(r) /\ r.stage = "done" /\ srv' = srv /\ raced' = raced
          /\ r.kind \in {"save", "get", "sched"}
      BY <1>4 DEF Heard, WellAsked
    <2>2. \/ r.who = "profile" /\ store.shown
          \/ r.who = "popup" /\ r.kind # "save"
      BY <2>1 DEF FollowInv
    <2>3. CASE r.kind = "get"
      <3>1. /\ flight' = <<>> /\ store' = Profile!getUser(store, r.body)
            /\ fullUser' = IF r.who = "popup" THEN r.body ELSE fullUser
        BY <1>4, <2>1, <2>3 DEF Heard
      <3>2. store'.user = r.body /\ store'.edited = r.body /\ store'.shown = store.shown
        BY <3>1 DEF Profile!getUser
      <3>3. Agree(r.body, srv, raced)
        BY <2>1, <2>3 DEF FollowInv, Follows
      <3>4. r.who = "popup" \/ store'.shown
        BY <2>2, <3>2
      <3> QED
        BY <2>1, <3>1, <3>2, <3>3, <3>4 DEF FollowInv, Follows, Agree
    <2>4. CASE r.kind \in {"save", "sched"}
      <3>1. PICK w : /\ flight' = <<Profile!fetchUser(w)>> /\ UNCHANGED store
                     /\ w = IF r.kind = "save" THEN "profile" ELSE r.who
        BY <1>4, <2>4 DEF Heard
      <3> DEFINE q == Profile!fetchUser(w)
      <3>2. q.kind = "get" /\ q.stage = "sent" /\ q.who = w
        BY DEF Profile!fetchUser, Profile!Request
      <3> HIDE DEF q
      <3>3. flight' # <<>> /\ \A p : flight' = <<p>> => p = q
        BY <3>1 DEF q
      <3>4. (w = "profile" /\ store.shown) \/ w = "popup"
        BY <2>2, <2>4, <3>1
      <3> QED
        BY <3>1, <3>2, <3>3, <3>4 DEF FollowInv
    <2> QED
      BY <2>1, <2>3, <2>4
  <1>5. ASSUME NEW r, Refused(r) PROVE FollowInv'
    BY <1>5 DEF Refused
  <1>6. CASE UNCHANGED <<srv, store, fullUser, flight, raced>>
    BY <1>6 DEF FollowInv, Follows, Agree, Alike, Profile!TimesOrDefault
  <1>7. CASE RunWrites
    <2>1. UNCHANGED <<store, fullUser, flight, raced>> /\ job # None
      BY <1>7 DEF RunWrites
    <2>2. \A u : Alike(srv, u, raced) => Alike(srv', u, raced')
      BY <1>7, <2>1, RunWriteFollows DEF RunInv
    <2>3. \A u : Agree(u, srv, raced) => Agree(u, srv', raced')
      BY <1>7, <2>1, <2>2, RunWriteFollows DEF Agree, RunInv
    <2> QED
      BY <2>1, <2>2, <2>3 DEF FollowInv, Follows
  <1>8. RunReads \/ UNCHANGED Profile!vars => UNCHANGED <<srv, store, fullUser, flight, raced>>
    BY DEF RunReads, Profile!vars
  <1> QED
    BY <1>1, <1>2, <1>3, <1>4, <1>5, <1>6, <1>7, <1>8, ProfileSteps

\* For a reader who waits, when nothing fails: with the profile closed and nothing under way the
\* profile's store and that of the popup hold the server's user, however often the emails' job ran, but
\* for a half of the schedule that was last saved while a run was on.
THEOREM ProfileStoresAgree ==
    ASSUME Waits, ~MayFail PROVE Profile!Spec => []Profile!StoresAgree
  <1>1. Profile!Init => ProfileShape /\ RunInv /\ FollowInv
    <2> SUFFICES ASSUME Profile!Init PROVE ProfileShape /\ RunInv /\ FollowInv
      OBVIOUS
    <2>1. flight = <<>> /\ store = Profile!ProfileData(srv) /\ fullUser = srv /\ job = None
      BY DEF Profile!Init
    <2> QED
      BY <2>1, FirstProfileShape DEF RunInv, FollowInv, Follows, Agree, Alike, Profile!ProfileData
  <1>2. ProfileShape /\ RunInv /\ FollowInv /\ [Profile!Next]_Profile!vars
        => (ProfileShape /\ RunInv /\ FollowInv)'
    BY ProfileShapeKept, RunKept, FollowKept
  <1>3. FollowInv => Profile!StoresAgree
    BY DEF FollowInv, Follows, Agree, Alike, Profile!StoresAgree, Profile!SameSchedule, Profile!Quiet
  <1> QED
    BY <1>1, <1>2, <1>3, PTL DEF Profile!Spec

\* The dates of a pause are in order: those of the user, wherever there is a copy of them, of a request
\* and, one by one, of the dialog.
DayOrNone == Profile!Days \cup {None}
GoodPause(u) ==
    /\ u.from \in DayOrNone /\ u.to \in DayOrNone
    /\ Profile!Set(u) => u.from < u.to
PauseInv ==
    /\ GoodPause(srv) /\ GoodPause(store.user) /\ (job # None => GoodPause(job))
    /\ \A r : flight = <<r>> => /\ r.kind = "sched" /\ r.part # "times" => GoodPause(r.body)
                                /\ r.kind = "get" /\ r.stage = "done" => GoodPause(r.body)
    /\ modal # None => modal.from \in DayOrNone /\ modal.to \in DayOrNone
ClockInv == today \in Profile!Days /\ ahead \in Offsets

LEMMA ClockKept == ASSUME ClockInv, [Profile!Next]_Profile!vars PROVE ClockInv'
  <1>1. CASE UNCHANGED <<today, ahead>>
    BY <1>1 DEF ClockInv, Profile!Days
  <1>2. CASE Profile!Tick
    BY <1>2 DEF Profile!Tick, ClockInv, Profile!Days
  <1>3. CASE \/ Profile!OpenProfile \/ Profile!HideModal \/ Profile!Save \/ Profile!Cancel
             \/ \E n \in Names \cup {""} : Profile!TypeName(n)
    BY <1>1, <1>3 DEF Profile!OpenProfile, Profile!HideModal, Profile!TypeName, Profile!Save, Profile!Cancel
  <1>4. CASE \/ Profile!ClearPausing \/ Profile!ResumeNotifications \/ Profile!OpenSchedule
             \/ Profile!EditTimes \/ Profile!SubmitSchedule \/ Profile!OpenPause \/ Profile!UpdateDate \/ Profile!SubmitPause \/ Profile!CloseModal
    BY <1>1, <1>4 DEF Profile!ClearPausing, Profile!ResumeNotifications, Profile!OpenSchedule,
                      Profile!EditTimes, Profile!SubmitSchedule,
                      Profile!OpenPause, Profile!UpdateDate, Profile!SubmitPause, Profile!CloseModal
  <1>5. CASE \E i \in 1 .. Len(flight) : Profile!Handle(i) \/ Profile!Answer(i) \/ Profile!Fail(i)
    BY <1>1, <1>5 DEF Profile!Handle, Profile!Answer, Profile!Fail
  <1>6. CASE Profile!StartRun \/ Profile!UpdateRunTime
    BY <1>1, <1>6 DEF Profile!StartRun, Profile!UpdateRunTime
  <1>7. CASE UNCHANGED Profile!vars
    BY <1>1, <1>7 DEF Profile!vars
  <1> QED
    BY <1>2, <1>3, <1>4, <1>5, <1>6, <1>7, Zenon DEF Profile!Next

LEMMA DialogDates ==
    ASSUME ProfileShape, PauseInv, Waits, Clicks, modal' # None
    PROVE  modal'.from \in DayOrNone /\ modal'.to \in DayOrNone
  <1>1. CASE modal' = modal
    BY <1>1 DEF PauseInv
  <1>2. CASE Profile!OpenSchedule
    BY <1>2 DEF Profile!OpenSchedule, DayOrNone
  <1>3. CASE Profile!OpenPause
    <2>1. modal'.from = store.user.from /\ modal'.to = store.user.to
      BY <1>3 DEF Profile!OpenPause
    <2> QED
      BY <2>1 DEF PauseInv, GoodPause
  <1>4. CASE Profile!EditTimes \/ Profile!UpdateDate
    <2>1. modal # None /\ DOMAIN modal = {"kind", "from", "to", "times"}
      BY <1>4 DEF Profile!EditTimes, Profile!UpdateDate, Profile!In, ProfileShape
    <2>2. \/ \E x : modal' = [modal EXCEPT !.times = x]
          \/ \E d \in DayOrNone : modal' = [modal EXCEPT !.from = d] \/ modal' = [modal EXCEPT !.to = d]
      BY <1>4 DEF Profile!EditTimes, Profile!UpdateDate, Profile!UpdateTime,
                  Profile!UpdateNumberPerDay, DayOrNone
    <2> QED
      BY <2>1, <2>2 DEF PauseInv
  <1>5. CASE Profile!CloseModal
    BY <1>5 DEF Profile!CloseModal
  <1> QED
    BY <1>1, <1>2, <1>3, <1>4, <1>5 DEF Clicks, Profile!OpenProfile, Profile!TypeName, Profile!Save, Profile!Cancel,
       Profile!ClearPausing, Profile!ResumeNotifications, Profile!SubmitSchedule, Profile!SubmitPause, Profile!Tick

LEMMA ValidPause ==
    ASSUME MaxDay \in Nat, NEW b, b.from \in DayOrNone, b.to \in DayOrNone, Profile!DatesValid(b.from, b.to)
    PROVE  GoodPause(b)
  <1>1. ASSUME b.from # None, b.to # None PROVE b.from < b.to
    <2>1. b.from \in Int /\ b.to \in Int
      BY <1>1 DEF DayOrNone, Profile!Days
    <2>2. b.from <= b.to - 1
      BY <1>1 DEF Profile!DatesValid, Profile!MaximumForDateFrom
    <2> QED
      BY <2>1, <2>2
  <1> QED
    BY <1>1 DEF GoodPause, Profile!Set

LEMMA BlankPause == GoodPause(Profile!Blank)
  BY DEF GoodPause, Profile!Blank, Profile!Set, DayOrNone

\* (GoodPause speaks of constants alone, so that a copy that stays is as good as it was.)
LEMMA PauseKept ==
    ASSUME MaxDay \in Nat, Waits, ProfileShape, PauseInv, [Profile!Next]_Profile!vars
    PROVE  PauseInv'
  <1> USE DEF GoodPause, DayOrNone, Profile!Days, Profile!Set
  <1>1. CASE Clicks /\ Looks
    <2>1. UNCHANGED <<srv, job>> /\ store'.user = store.user
      BY <1>1 DEF Looks, SameUser
    <2>2. modal' # None => modal'.from \in DayOrNone /\ modal'.to \in DayOrNone
      BY <1>1, DialogDates
    <2>3. ASSUME NEW q, AsksFor(q), q.kind = "sched", q.part # "times" PROVE GoodPause(q.body)
      <3>1. CASE q.part = "pause"
        <4>1. /\ q.body.from = modal.from /\ q.body.to = modal.to /\ modal # None
              /\ Profile!DatesValid(modal.from, modal.to)
          BY <2>3, <3>1 DEF AsksFor, Profile!In
        <4>2. modal.from \in DayOrNone /\ modal.to \in DayOrNone
          BY <4>1 DEF PauseInv
        <4> QED
          BY <4>1, <4>2, ValidPause
      <3>2. CASE q.part # "pause"
        <4>1. q.body = Profile!Blank
          BY <2>3, <3>2 DEF AsksFor
        <4> QED
          BY <4>1, BlankPause
      <3> QED
        BY <3>1, <3>2
    <2>4. ASSUME NEW r, flight' = <<r>>
          PROVE  /\ r.kind = "sched" /\ r.part # "times" => GoodPause(r.body)
                 /\ r.kind = "get" /\ r.stage = "done" => GoodPause(r.body)
      <3>1. CASE flight' = flight
        BY <2>4, <3>1 DEF PauseInv
      <3>2. ASSUME NEW q, AsksFor(q) PROVE q = r /\ r.stage = "sent"
        BY <2>4, <3>2 DEF AsksFor
      <3> QED
        BY <1>1, <2>3, <3>1, <3>2 DEF Looks
    <2> QED
      BY <2>1, <2>2, <2>4 DEF PauseInv
  <1>2. CASE Profile!HideModal /\ LoadsAgain
    <2>1. modal' = None /\ flight' = <<>> /\ UNCHANGED <<srv, job>> /\ store'.user = srv
      BY <1>2 DEF Profile!HideModal, Profile!InForm, LoadsAgain, Profile!ProfileData
    <2> QED
      BY <2>1 DEF PauseInv
  <1>3. ASSUME NEW r, NEW q, Served(r, q) PROVE PauseInv'
    <2>1. /\ flight = <<r>> /\ WellAsked(r) /\ flight' = <<q>> /\ q.kind = r.kind /\ q.part = r.part
          /\ q.body = IF r.kind = "get" THEN srv ELSE r.body
          /\ UNCHANGED <<modal, store, job>>
      BY <1>3 DEF Served
    <2>2. r.kind = "sched" /\ r.part # "times" => GoodPause(r.body)
      BY <2>1 DEF PauseInv
    <2>3. \/ srv'.from = srv.from /\ srv'.to = srv.to
          \/ r.kind = "sched" /\ r.part # "times" /\ srv'.from = r.body.from /\ srv'.to = r.body.to
      BY <1>3, HalfSaved DEF ProfileShape
    <2>4. GoodPause(srv')
      BY <2>2, <2>3 DEF PauseInv
    <2>5. \A p : flight' = <<p>> => p = q
      BY <2>1
    <2> QED
      BY <2>1, <2>2, <2>4, <2>5 DEF PauseInv
  <1>4. ASSUME NEW r, Heard(r) PROVE PauseInv'
    <2>1. /\ UNCHANGED <<srv, job>> /\ (modal' = modal \/ modal' = None)
          /\ flight = <<r>> /\ r.stage = "done"
          /\ store'.user = store.user \/ (r.kind = "get" /\ store'.user = r.body)
      BY <1>4 DEF Heard, Profile!getUser, ProfileShape
    <2>2. ASSUME NEW q, flight' = <<q>> PROVE q.kind = "get" /\ q.stage = "sent"
      <3>1. \A w : Profile!fetchUser(w).kind = "get" /\ Profile!fetchUser(w).stage = "sent"
        BY DEF Profile!fetchUser, Profile!Request
      <3>2. flight' = <<>> \/ \E w : flight' = <<Profile!fetchUser(w)>>
        BY <1>4, Zenon DEF Heard
      <3>3. flight' # <<>> /\ \A w : flight' = <<w>> => q = w
        BY <2>2
      <3>4. PICK w : q = Profile!fetchUser(w)
        BY <3>2, <3>3
      <3> QED
        BY <3>1, <3>4
    <2>3. GoodPause(store'.user)
      BY <2>1 DEF PauseInv
    <2> QED
      BY <2>1, <2>2, <2>3 DEF PauseInv
  <1>5. ASSUME NEW r, Refused(r) PROVE PauseInv'
    BY <1>5 DEF Refused, PauseInv
  <1>6. CASE RunReads
    BY <1>6 DEF RunReads, PauseInv
  <1>7. CASE RunWrites
    <2>1. UNCHANGED <<store, modal, flight>> /\ job' = None /\ srv'.from = job.from /\ srv'.to = job.to
      BY <1>7 DEF RunWrites, ProfileShape, UserFields
    <2>2. GoodPause(srv')
      BY <1>7, <2>1 DEF PauseInv, RunWrites
    <2> QED
      BY <2>1, <2>2 DEF PauseInv
  <1>8. CASE UNCHANGED Profile!vars
    BY <1>8 DEF Profile!vars, PauseInv
  <1> QED
    BY <1>1, <1>2, <1>3, <1>4, <1>5, <1>6, <1>7, <1>8, ProfileSteps

ProfileInv == ProfileShape /\ RunInv /\ FollowInv /\ PauseInv /\ ClockInv

LEMMA ProfileInvHolds ==
    ASSUME MaxDay \in Nat, Waits, ~MayFail PROVE Profile!Spec => []ProfileInv
  <1>1. Profile!Init => ProfileInv
    <2> SUFFICES ASSUME Profile!Init PROVE ProfileInv
      OBVIOUS
    <2>1. /\ flight = <<>> /\ store = Profile!ProfileData(srv) /\ fullUser = srv /\ modal = None
          /\ job = None /\ srv.from = None /\ srv.to = None /\ today = 0 /\ ahead \in Offsets
      BY DEF Profile!Init, Profile!NewUser
    <2>2. RunInv /\ FollowInv
      BY <2>1 DEF RunInv, FollowInv, Follows, Agree, Alike, Profile!ProfileData
    <2>3. PauseInv /\ ClockInv
      BY <2>1 DEF PauseInv, GoodPause, DayOrNone, Profile!Set, ClockInv, Profile!Days, Profile!ProfileData
    <2> QED
      BY <2>2, <2>3, FirstProfileShape DEF ProfileInv
  <1>2. ProfileInv /\ [Profile!Next]_Profile!vars => ProfileInv'
    BY ProfileShapeKept, RunKept, FollowKept, PauseKept, ClockKept DEF ProfileInv
  <1> QED
    BY <1>1, <1>2, PTL DEF Profile!Spec

\* Under the same conditions the form offers to clear a pause when the server has one that is not over,
\* and to make one otherwise: the dates of the dialog cannot cross, whatever pauses were made before. The
\* exception is a pause that was last saved or cleared while a run of the emails' job was on.
THEOREM PauseCanBeCleared ==
    ASSUME MaxDay \in Nat, Waits, ~MayFail PROVE Profile!Spec => []Profile!ClearOffered
  <1>1. ProfileInv => Profile!ClearOffered
    <2> SUFFICES ASSUME ProfileInv, flight = <<>>, "pause" \notin raced
                 PROVE  Profile!ClearIsOffered <=> Profile!Set(srv) /\ srv.to >= today
      BY DEF Profile!ClearOffered, Profile!Quiet
    <2>1. store.edited.from = srv.from /\ store.edited.to = srv.to
      BY DEF ProfileInv, FollowInv, Alike
    <2>2. today \in Int /\ (Profile!Set(srv) => srv.from \in Int /\ srv.to \in Int /\ srv.from < srv.to)
      BY DEF ProfileInv, PauseInv, GoodPause, DayOrNone, Profile!Days, Profile!Set, ClockInv
    <2> QED
      BY <2>1, <2>2 DEF Profile!ClearIsOffered, Profile!notificationsArePaused,
                        Profile!notificationsWillBePaused, Profile!Set
  <1> QED
    BY <1>1, ProfileInvHolds, PTL

\* And where the user's date is that of UTC, the popup says that everything is paused exactly when the
\* server holds the emails back, with the same exception.
THEOREM PopupSaysPaused ==
    ASSUME MaxDay \in Nat, Offsets = {0}, Waits, ~MayFail
    PROVE  Profile!Spec => []Profile!PausedIsTrue
  <1>1. ProfileInv => Profile!PausedIsTrue
    <2> SUFFICES ASSUME ProfileInv, flight = <<>>, ~store.shown, "pause" \notin raced
                 PROVE  Profile!NotificationPopup.resume <=> Profile!has_paused_notifications(srv)
      BY DEF Profile!PausedIsTrue, Profile!Quiet
    <2>1. fullUser.from = srv.from /\ fullUser.to = srv.to
      BY DEF ProfileInv, FollowInv, Follows, Agree, Alike
    <2>2. today \in Int /\ ahead = 0
      BY DEF ProfileInv, ClockInv, Profile!Days
    <2>3. Profile!NotificationPopup.resume = Profile!notificationsArePaused(srv)
      BY <2>1 DEF Profile!NotificationPopup, Profile!notificationsArePaused, Profile!Set
    <2>4. Profile!has_paused_notifications(srv) <=> Profile!Set(srv) /\ srv.from <= today /\ today <= srv.to
      BY <2>2 DEF Profile!has_paused_notifications
    <2>5. today <= srv.to <=> srv.to >= today
      OBVIOUS
    <2>6. Profile!notificationsArePaused(srv) <=> Profile!has_paused_notifications(srv)
      BY <2>4, <2>5 DEF Profile!notificationsArePaused
    <2> QED
      BY <2>3, <2>6
  <1> QED
    BY <1>1, ProfileInvHolds, PTL

================================================================================
