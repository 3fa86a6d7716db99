---------------------------- MODULE CompanyManager ----------------------------
(***************************************************************************)
(* Companies in the settings: the list, the form of one company with its   *)
(* tabs, its users, saving, deleting and approving.  Every request goes to *)
(* the server and is answered on its own.                                  *)
(* Source: src/assets/companies/.                                          *)
(***************************************************************************)
EXTENDS Naturals, FiniteSets

CONSTANTS
    Companies, None,
    Staff,          \* [Companies -> SUBSET users], who works where
    Queries,        \* sets of companies a text search finds
    Waits,          \* the administrator waits for every answer
    AnyOrder,       \* answers overtake each other
    MayFail,        \* a request that reads can fail
    ApiEnabled,
    MaxEdits, MaxRequests   \* bounds

ConstantsOK ==
    /\ DOMAIN Staff = Companies /\ None \notin Companies
    /\ Queries \subseteq SUBSET Companies
    /\ MaxEdits \in Nat /\ MaxRequests \in Nat

VARIABLES
    company,    \* server: existing company -> [edits, admin, approved]
    store,      \* the redux store, with the tab of the form
    urls,       \* the values of companyId in the browser's history
    requests, sent,
    edits,      \* history: how many edits were made
    saved,      \* history: [id, edit] of the answered saves
    removed     \* history: the companies whose deletion was answered

vars == <<company, store, urls, requests, sent, edits, saved, removed>>

Blank == [edits |-> {}, admin |-> None, approved |-> TRUE]
Form(id, c) == [id |-> id, edits |-> c.edits, admin |-> c.admin, approved |-> c.approved]
Employees == UNION {Staff[c] : c \in Companies}

-----------------------------------------------------------------------------
(* Reducers. *)

\* An id that is not loaded gives the defaults of a new company.
SelectCompany(s, c) ==
    [s EXCEPT !.active = c, !.errors = FALSE, !.tab = IF s.form = None \/ s.form.id # c
                                                      THEN "company-details" ELSE s.tab,
              !.form = IF c \in DOMAIN s.known THEN Form(c, s.known[c]) ELSE Form(None, Blank)]
NewCompany(s) ==
    [s EXCEPT !.form = Form(None, Blank), !.errors = FALSE,
              !.tab = IF s.form = None \/ s.form.id # None THEN "company-details" ELSE s.tab]
EditCompany(s, edit) == [s EXCEPT !.form.edits = @ \cup {edit}, !.errors = FALSE]
EditAdministrator(s, u) == [s EXCEPT !.form.admin = u, !.errors = FALSE]
CancelEdit(s) == [s EXCEPT !.form = None, !.errors = FALSE]
SetError(s) == [s EXCEPT !.errors = TRUE]
QueryCompanies(s) == [s EXCEPT !.loading = TRUE]

\* setupCompanies: what was loaded before is forgotten.
SetupCompanies(s, data) == [s EXCEPT !.known = data, !.loading = FALSE]
GetCompanyUsers(s, users) == [s EXCEPT !.users = users]

-----------------------------------------------------------------------------
(* What is on the screen. *)

\* CompaniesApp hides the list while it loads; the form and the bar stay.
Listed(s) == IF s.loading THEN {} ELSE DOMAIN s.known
\* A company that was never saved has its details only.
Tabs(s) ==
    IF s.form = None THEN {}
    ELSE {"company-details"} \cup
         (IF s.form.id # None THEN {"users", "permissions"} \cup (IF ApiEnabled THEN {"api"} ELSE {})
                              ELSE {})

CanDelete(s) == s.form # None /\ s.tab = "company-details" /\ s.form.id # None
CanApprove(s) == s.form # None /\ ~ s.form.approved
\* The administrator of the monitoring is picked among the users that are loaded, or nobody is.
AdministratorOptions(s) ==
    IF s.form # None /\ s.tab = "company-details" /\ s.form.id # None THEN s.users \cup {None} ELSE {}

-----------------------------------------------------------------------------
Request(n, kind, c, s) ==
    [n |-> n, kind |-> kind, id |-> c, form |-> s.form, query |-> s.query, status |-> "sent",
     found |-> [x \in {} |-> 0], users |-> {}]
Sending(batch, s, answered) ==
    /\ sent + Cardinality(batch) <= MaxRequests
    /\ sent' = sent + Cardinality(batch)
    /\ requests' = (requests \ answered) \cup batch
\* fetchCompanies, in the turn in which r (if any) is answered.
FetchCompanies(s, answered) ==
    /\ store' = QueryCompanies(s)
    /\ Sending({Request(sent + 1, "list", None, s)}, s, answered)

\* fetchCompanyUsers: of a company that is not loaded it throws.
FetchCompanyUsers(c, s) ==
    IF c \in DOMAIN s.known THEN Sending({Request(sent + 1, "users", c, s)}, s, {})
                            ELSE UNCHANGED <<requests, sent>>

Turn == Waits => requests = {}
InTurn(r) == AnyOrder \/ \A o \in requests : o.status = r.status => o.n >= r.n

Init ==
    /\ \E existing \in SUBSET Companies, pending \in SUBSET Companies :
            company = [c \in existing |-> [Blank EXCEPT !.approved = c \notin pending]]
    /\ store = [known |-> company, active |-> None, form |-> None, tab |-> "company-details",
                users |-> {}, loading |-> FALSE, errors |-> FALSE, query |-> Companies]
    /\ urls = {None} /\ requests = {} /\ sent = 0 /\ edits = 0 /\ saved = {} /\ removed = {}

-----------------------------------------------------------------------------
(* The administrator. *)

Select(c) ==
    /\ Turn /\ c \in Listed(store)
    /\ store' = SelectCompany(store, c) /\ urls' = urls \cup {c}
    /\ FetchCompanyUsers(c, store)
    /\ UNCHANGED <<company, edits, saved, removed>>

\* onURLParamsChanged: back or forward to an entry of the history.
GoTo(c) ==
    /\ Turn /\ c \in urls
    /\ IF c # None /\ (store.form = None \/ store.form.id # c)
       THEN store' = SelectCompany(store, c) /\ FetchCompanyUsers(c, store)
       ELSE /\ store' = IF c = None /\ store.form # None THEN CancelEdit(store) ELSE store
            /\ UNCHANGED <<requests, sent>>
    /\ UNCHANGED <<company, urls, edits, saved, removed>>

New ==
    /\ Turn
    /\ store' = NewCompany(store)
    /\ UNCHANGED <<company, urls, requests, sent, edits, saved, removed>>

Close ==
    /\ Turn /\ store.form # None
    /\ store' = CancelEdit(store) /\ urls' = urls \cup {None}
    /\ UNCHANGED <<company, requests, sent, edits, saved, removed>>

OpenTab(tab) ==
    /\ Turn /\ tab \in Tabs(store)
    /\ store' = [store EXCEPT !.tab = tab]
    /\ IF tab = "users" THEN FetchCompanyUsers(store.form.id, store)
                        ELSE UNCHANGED <<requests, sent>>
    /\ UNCHANGED <<company, urls, edits, saved, removed>>

Edit ==
    /\ Turn /\ store.form # None /\ edits < MaxEdits
    /\ store' = EditCompany(store, edits) /\ edits' = edits + 1
    /\ UNCHANGED <<company, urls, requests, sent, saved, removed>>

PickAdministrator(u) ==
    /\ Turn /\ u \in AdministratorOptions(store)
    /\ store' = EditAdministrator(store, u)
    /\ UNCHANGED <<company, urls, requests, sent, edits, saved, removed>>

\* A form without a name goes back to its details; its edit gives it one.
Save ==
    /\ Turn /\ store.form # None /\ store.tab \in {"company-details", "permissions"}
    /\ IF store.form.id = None /\ store.form.edits = {}
       THEN store' = [SetError(store) EXCEPT !.tab = "company-details"] /\ UNCHANGED <<requests, sent>>
       ELSE store' = store /\ Sending({Request(sent + 1, "save", store.form.id, store)}, store, {})
    /\ UNCHANGED <<company, urls, edits, saved, removed>>

\* The form closes at once, before the answer.
Delete ==
    /\ Turn /\ CanDelete(store)
    /\ Sending({Request(sent + 1, "delete", store.form.id, store)}, store, {})
    /\ store' = CancelEdit(store) /\ urls' = urls \cup {None}
    /\ UNCHANGED <<company, edits, saved, removed>>

Approve ==
    /\ Turn /\ CanApprove(store)
    /\ Sending({Request(sent + 1, "approve", store.form.id, store)}, store, {})
    /\ UNCHANGED <<company, store, urls, edits, saved, removed>>

Search(query) ==
    /\ Turn /\ query # store.query
    /\ FetchCompanies([store EXCEPT !.query = query], {})
    /\ UNCHANGED <<company, urls, edits, saved, removed>>

-----------------------------------------------------------------------------
(* The server. *)

Put(c, data) == [x \in DOMAIN company \cup {c} |-> IF x = c THEN data ELSE company[x]]
Content(form) == [edits |-> form.edits, admin |-> form.admin, approved |-> form.approved]
\* get_company_updates: what the form leaves empty stays, and nobody is disapproved.
Updated(form, c) ==
    [Content(form) EXCEPT !.approved = c.approved, !.admin = IF form.admin = None THEN c.admin ELSE form.admin]
Answer(r, status, users, found) ==
    requests' = (requests \ {r}) \cup {[r EXCEPT !.status = status, !.users = users, !.found = found]}
Nothing == [x \in {} |-> 0]

\* No etag is sent: what a form holds replaces what is there. The id of a new company was never
\* used before. A deletion takes the users first, which nothing here looks at afterwards, and is
\* refused when one of them can not be deleted (delete_company).
Handle(r) ==
    /\ r.status = "sent" /\ InTurn(r)
    /\ \/ /\ r.kind = "list"
          /\ Answer(r, "done", {}, [c \in DOMAIN company \cap r.query |-> company[c]])
          /\ UNCHANGED company
       \/ /\ r.kind = "users"
          /\ Answer(r, "done", IF r.id \in DOMAIN company THEN Staff[r.id] ELSE {}, Nothing)
          /\ UNCHANGED company
       \/ /\ r.kind = "save" /\ r.id = None
          /\ \E c \in Companies \ (DOMAIN company \cup removed \cup {q.id : q \in requests}) :
                /\ company' = Put(c, Content(r.form))
                /\ requests' = (requests \ {r}) \cup {[r EXCEPT !.status = "done", !.id = c]}
       \/ /\ r.kind \in {"save", "approve", "delete"} /\ r.id # None
          /\ r.id \notin DOMAIN company \/ r.kind = "delete"
          /\ Answer(r, "failed", {}, Nothing) /\ UNCHANGED company
       \/ /\ r.kind \in {"save", "approve", "delete"} /\ r.id \in DOMAIN company
          /\ company' = CASE r.kind = "save" ->
                                Put(r.id, Updated(r.form, company[r.id]))
                          [] r.kind = "approve" -> [company EXCEPT ![r.id].approved = TRUE]
                          [] r.kind = "delete" -> [c \in DOMAIN company \ {r.id} |-> company[c]]
          /\ Answer(r, "done", {}, Nothing)
    /\ UNCHANGED <<store, urls, sent, edits, saved, removed>>

-----------------------------------------------------------------------------
(* Answers. *)

CompaniesFetched(r) ==
    /\ r.kind = "list" /\ r.status = "done" /\ InTurn(r)
    /\ store' = SetupCompanies(store, r.found) /\ requests' = requests \ {r}
    /\ UNCHANGED <<company, urls, sent, edits, saved, removed>>

\* The users are shown in whichever form is open by now.
CompanyUsersFetched(r) ==
    /\ r.kind = "users" /\ r.status = "done" /\ InTurn(r)
    /\ store' = GetCompanyUsers(store, r.users) /\ requests' = requests \ {r}
    /\ UNCHANGED <<company, urls, sent, edits, saved, removed>>

\* The list is loaded again (as are the products, which a save does not change)
\* and the open form closed, whoever's it is.
PostAnswered(r) ==
    /\ r.kind = "save" /\ r.status = "done" /\ InTurn(r)
    /\ FetchCompanies(CancelEdit(store), {r})
    /\ urls' = urls \cup {None}
    /\ saved' = saved \cup {[id |-> r.id, edit |-> e] : e \in r.form.edits}
    /\ UNCHANGED <<company, edits, removed>>

ApproveAnswered(r) ==
    /\ r.kind = "approve" /\ r.status = "done" /\ InTurn(r)
    /\ FetchCompanies(store, {r})
    /\ UNCHANGED <<company, urls, edits, saved, removed>>

DeleteAnswered(r) ==
    /\ r.kind = "delete" /\ r.status = "done" /\ InTurn(r)
    /\ FetchCompanies(store, {r})
    /\ removed' = removed \cup {r.id}
    /\ UNCHANGED <<company, urls, edits, saved>>

\* errorHandler; a list that failed keeps loading.
Failed(r) ==
    /\ r.status = "failed" \/ (MayFail /\ r.status = "sent" /\ r.kind \in {"list", "users"})
    /\ InTurn(r)
    /\ store' = SetError(store) /\ requests' = requests \ {r}
    /\ UNCHANGED <<company, urls, sent, edits, saved, removed>>

Next ==
    \/ New \/ Close \/ Edit \/ Save \/ Delete \/ Approve
    \/ \E c \in Companies : Select(c)
    \/ \E c \in urls : GoTo(c)
    \/ \E tab \in Tabs(store) : OpenTab(tab)
    \/ \E u \in Employees \cup {None} : PickAdministrator(u)
    \/ \E query \in Queries : Search(query)
    \/ \E r \in requests :
        \/ Handle(r) \/ Failed(r) \/ CompaniesFetched(r) \/ CompanyUsersFetched(r)
        \/ PostAnswered(r) \/ ApproveAnswered(r) \/ DeleteAnswered(r)

Spec == Init /\ [][Next]_vars

-----------------------------------------------------------------------------
\* The store has its shape, the tab is one the form offers, and what the server
\* is asked to change has an id unless it is a company to be created.
TypeOK ==
    /\ DOMAIN company \subseteq Companies /\ removed \subseteq Companies
    /\ DOMAIN store.known \subseteq Companies /\ store.users \subseteq Employees
    /\ store.form # None => store.form.id \in Companies \cup {None} /\ store.tab \in Tabs(store)
    /\ \A r \in requests : r.kind \in {"delete", "approve"} => r.id \in Companies

\* What the administrator saved and was told is saved is not undone by a later
\* form of his: postCompany sends whole forms without an etag, and they are filled
\* from a list that he sees again only when it was loaded after his last save.
OwnSavesStay ==
    \A x \in saved : x.id \in DOMAIN company => x.edit \in company[x.id].edits

\* The monitoring administrator of a company works there, although the users of
\* the company selected last are one list shared by all the forms.
AdministratorWorksThere ==
    \A c \in DOMAIN company : company[c].admin # None => company[c].admin \in Staff[c]

\* When answers keep their order, a company whose deletion was answered is not
\* offered again, whatever was asked for in between.
DeletedStaysGone == Listed(store) \cap removed = {}
=============================================================================
