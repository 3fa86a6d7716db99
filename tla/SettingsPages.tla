------------------------------ MODULE SettingsPages ------------------------------
(* The settings pages of the web client on which an administrator keeps the
   products, global topics (navigations), section filters, API clients and cards:
   the list, the form beside it, and the check boxes that link one kind with
   another (assets/products, navigations, section-filters, oauth_clients, cards
   and components/EditPanel).

   The five pages are one program written five times, with differences; Page
   says which one this is. An entity keeps a name, a section, one nested object
   (the config of a card, the images of a navigation) and the others it is
   linked to. The form's object is a shallow copy of the listed one, so the
   nested object may be the same for both: shared says so. Requests go up and
   answers come down, in the order they were sent unless AnyOrder. *)
EXTENDS Integers, Sequences, FiniteSets, SequencesExt

CONSTANTS Page, Ids, Names, Sections, Others, None,
          AnyOrder,   \* requests and answers may overtake each other
          Waits,      \* the administrator waits for the answers before acting
          MayFail,    \* requests may fail
          MaxMedia, MaxSent, MaxEdits

PageAssumption == Page \in {"products", "navigations", "section_filters", "oauth_clients", "cards"}

VARIABLES server,  \* the entities, the links, and the names each has ever had
          store,   \* the page's store
          panel,   \* the open form: its tab, its tabs, its check boxes
          up, down, sent, edits, secrets
vars == <<server, store, panel, up, down, sent, edits, secrets>>

HasLinks == Page \in {"products", "navigations"}
Entity(name, section, nested, links) == [name |-> name, section |-> section, nested |-> nested, links |-> links]
Form(id, e) == [id |-> id, name |-> e.name, section |-> e.section, nested |-> e.nested, links |-> e.links,
                secret |-> None, shared |-> FALSE]
LinkedTo(rel, id) == {o \in Others : <<id, o>> \in rel}

-------------------------------------------------------------------------------
(* Reducers. An action is a record with its type. *)
Closed(s) == [s EXCEPT !.toEdit = None, !.errors = {}]
NewEntity(s) == [s EXCEPT !.toEdit = Form(None, Entity("", s.section, 0, {})), !.errors = {}]
Selected(s, id, links) ==
    [s EXCEPT !.activeId = id, !.errors = {},
              !.toEdit = [Form(id, s.byId[id]) EXCEPT !.links = links, !.shared = s.byId[id].nested # 0]]
(* A product that is in the list as the same object is changed there, too. *)
EditName(s, a) ==
    LET t == [s EXCEPT !.toEdit.name = a.value, !.errors = {}]
    IN IF Page = "products" /\ s.toEdit.shared THEN [t EXCEPT !.byId[s.toEdit.id].name = a.value] ELSE t
(* set() writes into the nested object, whoever else holds it. *)
EditNested(s, a) ==
    LET t == [s EXCEPT !.toEdit.nested = a.value, !.errors = {}]
    IN IF s.toEdit.shared THEN [t EXCEPT !.byId[s.toEdit.id].nested = a.value] ELSE t
Query(s) == [s EXCEPT !.isLoading = TRUE, !.toEdit = None]
Listed(s, ents) ==
    [s EXCEPT !.list = DOMAIN ents, !.isLoading = FALSE,
              !.toEdit = IF @ # None /\ @.id \in DOMAIN ents THEN [@ EXCEPT !.shared = FALSE] ELSE @,
              !.byId = [i \in Ids |-> IF i \in DOMAIN ents THEN ents[i] ELSE s.byId[i]]]

Manager(s, a) ==
    CASE a.type = "SELECT" -> Selected(s, a.id, s.byId[a.id].links)
      [] a.type = "EDIT" -> IF a.field = "name" THEN EditName(s, a) ELSE s
      [] a.type = "NEW" -> NewEntity(s)
      [] a.type = "CANCEL_EDIT" -> Closed(s)
      [] a.type = "SET_ERROR" -> [s EXCEPT !.errors = a.errors]
      [] a.type = "QUERY" -> Query(s)
      [] a.type = "GET" -> Listed(s, a.data)
      [] a.type = "SELECT_SECTION" -> [s EXCEPT !.section = a.section]
      [] a.type = "SET_QUERY" -> [s EXCEPT !.query = a.query]
      [] OTHER -> s

sectionFiltersReducer(s, a) == Manager(s, a)
(* The answer of the navigations puts the product that was saved into the list
   and into the form, which it may open again. *)
productReducer(s, a) ==
    CASE a.type = "GET_OTHERS" -> [s EXCEPT !.others = a.data]
      [] a.type = "UPDATE_PRODUCT_NAVIGATIONS" ->
           LET product == [a.product EXCEPT !.links = a.links, !.shared = TRUE]
           IN [s EXCEPT !.toEdit = product, !.byId[product.id] = Entity(product.name, product.section, product.nested, product.links)]
      [] OTHER -> Manager(s, a)
navigationReducer(s, a) ==
    CASE a.type = "SELECT" -> Selected(s, a.id, LinkedTo(s.others, a.id))
      [] a.type = "EDIT" -> CASE a.field = "links" -> [s EXCEPT !.toEdit.links = a.value, !.errors = {}]
                              [] a.field = "nested" -> EditNested(s, a)
                              [] OTHER -> EditName(s, a)
      [] a.type = "GET_OTHERS" -> [s EXCEPT !.others = a.data]
      [] OTHER -> Manager(s, a)
(* A card of another type gets a config of its own. *)
cardReducer(s, a) ==
    CASE a.type = "EDIT" /\ a.field = "type" -> [s EXCEPT !.toEdit.nested = 0, !.toEdit.shared = FALSE, !.errors = {}]
      [] a.type = "EDIT" /\ a.field = "nested" -> EditNested(s, a)
      [] OTHER -> Manager(s, a)
(* Neither errors nor loading are kept; the list replaces what was known. *)
clientReducer(s, a) ==
    CASE a.type \in {"QUERY", "SET_ERROR"} -> s
      [] a.type = "GET" -> [s EXCEPT !.list = DOMAIN a.data, !.byId = [i \in Ids |-> IF i \in DOMAIN a.data THEN a.data[i] ELSE None]]
      [] a.type = "GET_CLIENT_PASSWORD" -> [s EXCEPT !.toEdit.secret = a.secret, !.toEdit.id = a.id, !.errors = {}]
      [] OTHER -> Manager(s, a)

Reduce(s, a) == CASE Page = "products" -> productReducer(s, a)
                  [] Page = "navigations" -> navigationReducer(s, a)
                  [] Page = "cards" -> cardReducer(s, a)
                  [] Page = "oauth_clients" -> clientReducer(s, a)
                  [] OTHER -> sectionFiltersReducer(s, a)

-------------------------------------------------------------------------------
(* Components. The form is mounted while toEdit is set; its tabs are those of
   the entity it was mounted with. EditPanel takes its boxes from the props
   whenever the page renders, which is at every action of the store. *)
EditProductTabs(form) == {"details"} \cup (IF form.id = None THEN {} ELSE {"companies", "links"})
EditNavigationTabs(form) == {"details", "links"}
Tabs(form) == CASE Page = "products" -> EditProductTabs(form)
                [] Page = "navigations" -> EditNavigationTabs(form)
                [] OTHER -> {"details"}
Boxes(s, tab) == CASE tab = "companies" -> LinkedTo(s.others, s.toEdit.id)
                   [] tab = "links" -> s.toEdit.links
                   [] OTHER -> {}
Render(s, p) ==
    CASE s.toEdit = None -> None
      [] s.toEdit # None /\ p = None -> [tab |-> "details", tabs |-> Tabs(s.toEdit), boxes |-> {}, touched |-> FALSE]
      [] OTHER -> [p EXCEPT !.boxes = Boxes(s, p.tab), !.touched = @ /\ Page = "navigations"]

EditProduct     == {"name"}
EditNavigation  == {"name", "nested"}
EditSectionFilter == {"name"}
EditClient      == {"name"}
EditCard        == {"name", "type", "nested"}
Fields == CASE Page = "products" -> EditProduct [] Page = "navigations" -> EditNavigation
            [] Page = "cards" -> EditCard [] Page = "oauth_clients" -> EditClient
            [] OTHER -> EditSectionFilter

(* The rows: those of the active section or dashboard, unless the list is
   loading. The API clients have neither. *)
InSection == {i \in store.list : store.byId[i].section = store.section}
ProductsShown == IF store.isLoading THEN {} ELSE InSection
Navigations == IF store.isLoading THEN {} ELSE InSection
SectionFilters == IF store.isLoading THEN {} ELSE InSection
Cards == IF store.isLoading THEN {} ELSE InSection
Clients == store.list
Rows == CASE Page = "products" -> ProductsShown [] Page = "navigations" -> Navigations
          [] Page = "cards" -> Cards [] Page = "oauth_clients" -> Clients
          [] OTHER -> SectionFilters
CanDelete == IF Page = "oauth_clients" THEN store.toEdit.id # None ELSE TRUE
SectionSwitch == IF Page = "oauth_clients" THEN {} ELSE Sections
DashboardSwitch == IF Cardinality(Sections) <= 1 THEN {} ELSE Sections
Switch == IF Page = "cards" THEN DashboardSwitch ELSE SectionSwitch

isFormValid(form) == IF form.name = "" THEN {"name"} ELSE {}
(* The cards here are galleries, whose config is the number of their media. *)
ConfigExternalMedia == 0 .. MaxMedia + 1
ValidMedia(form) == form.nested \in 1 .. MaxMedia

-------------------------------------------------------------------------------
(* Requests. *)
(* The body of a request is written when it is sent. Only saveNavigations keeps
   the form's object until it is answered: what is typed is seen through it,
   until the form gets another object. *)
Through(ms, form) == [i \in DOMAIN ms |-> IF ms[i].kind = "links" /\ ms[i].same THEN [ms[i] EXCEPT !.form = form] ELSE ms[i]]
Detached(ms) == [i \in DOMAIN ms |-> IF ms[i].kind = "links" THEN [ms[i] EXCEPT !.same = FALSE] ELSE ms[i]]

Send(ms) == Len(ms) + sent <= MaxSent /\ up' = up \o ms /\ sent' = sent + Len(ms)
SendDetached(ms) == Len(ms) + sent <= MaxSent /\ up' = Detached(up) \o ms /\ sent' = sent + Len(ms)
Search(s) == [kind |-> "search", query |-> s.query]
FetchOthers == [kind |-> "others"]
PostEntity(form) == <<[kind |-> "post", form |-> form]>>
postProduct(form) == PostEntity(form)
postSectionFilter(form) == PostEntity(form)
postClient(form) == PostEntity(form)
postNavigation(form, s) == PostEntity(IF form.id = None THEN [form EXCEPT !.section = s.section] ELSE form)
postCard(form) == IF ValidMedia(form) THEN PostEntity(form) ELSE <<>>
PostOf(form, s) == CASE Page = "products" -> postProduct(form) [] Page = "navigations" -> postNavigation(form, s)
                     [] Page = "cards" -> postCard(form) [] Page = "oauth_clients" -> postClient(form)
                     [] OTHER -> postSectionFilter(form)
SaveCompanies(form, os) == [kind |-> "companies", id |-> form.id, others |-> os]
SaveNavigations(form, os) == [kind |-> "links", form |-> form, same |-> TRUE, others |-> os]

Dispatch(a) == LET s == Reduce(store, a) IN store' = s /\ panel' = Render(s, panel)

Idle == up = <<>> /\ down = <<>>
May == Waits => Idle
ServerVars == <<server, secrets>>

Select(id) == /\ May /\ id \in Rows /\ edits < MaxEdits /\ edits' = edits + 1
              /\ Dispatch([type |-> "SELECT", id |-> id])
              /\ up' = Detached(up) /\ down' = Detached(down) /\ UNCHANGED <<ServerVars, sent>>
New == /\ May /\ edits < MaxEdits /\ edits' = edits + 1
       /\ Dispatch([type |-> "NEW"])
       /\ up' = Detached(up) /\ down' = Detached(down) /\ UNCHANGED <<ServerVars, sent>>
CancelEdit == /\ May /\ store.toEdit # None
              /\ Dispatch([type |-> "CANCEL_EDIT"])
              /\ up' = Detached(up) /\ down' = Detached(down) /\ UNCHANGED <<ServerVars, sent, edits>>
Edit(field, value) ==
    /\ May /\ store.toEdit # None /\ panel.tab = "details" /\ field \in Fields /\ edits < MaxEdits
    /\ Dispatch([type |-> "EDIT", field |-> field, value |-> value])
    /\ edits' = edits + 1
    /\ up' = Through(up, store'.toEdit) /\ down' = Through(down, store'.toEdit) /\ UNCHANGED <<ServerVars, sent>>
SelectSection(x) == /\ May /\ x \in Switch /\ x # store.section
                    /\ Dispatch([type |-> "SELECT_SECTION", section |-> x])
                    /\ UNCHANGED <<ServerVars, up, down, sent, edits>>

(* SearchBar: the query is set and the list fetched, which closes the form. *)
Fetch(s) == LET t == Reduce(s, [type |-> "QUERY"]) IN store' = t /\ panel' = Render(t, panel)
SearchFor(q) == /\ May /\ Fetch(Reduce(store, [type |-> "SET_QUERY", query |-> q]))
                /\ SendDetached(<<[kind |-> "search", query |-> q]>>)
                /\ down' = Detached(down) /\ UNCHANGED <<ServerVars, edits>>

Save == /\ May /\ store.toEdit # None /\ panel.tab = "details"
        /\ LET errors == isFormValid(store.toEdit) IN
           /\ Dispatch([type |-> "SET_ERROR", errors |-> errors])
           /\ IF errors = {} THEN Send(PostOf(store.toEdit, store)) ELSE UNCHANGED <<up, sent>>
        /\ UNCHANGED <<ServerVars, down, edits>>
Delete == /\ May /\ store.toEdit # None /\ panel.tab = "details" /\ CanDelete
          /\ Send(<<[kind |-> "delete", id |-> store.toEdit.id]>>)
          /\ UNCHANGED <<ServerVars, store, panel, down, edits>>

handleTabClick(t) ==
    /\ May /\ store.toEdit # None /\ t \in panel.tabs /\ t # panel.tab
    /\ panel' = [panel EXCEPT !.tab = t, !.boxes = Boxes(store, t), !.touched = @ /\ Page = "navigations"]
    /\ IF t = "companies" \/ (t = "links" /\ Page = "navigations" /\ store.toEdit.id # None)
       THEN Send(<<FetchOthers>>) ELSE UNCHANGED <<up, sent>>
    /\ UNCHANGED <<ServerVars, store, down, edits>>
Flip(S, x) == IF x \in S THEN S \ {x} ELSE S \cup {x}
onItemChange(o) ==
    /\ May /\ store.toEdit # None /\ panel.tab # "details" /\ edits < MaxEdits
    /\ LET boxes == Flip(panel.boxes, o)
           toggled == [panel EXCEPT !.boxes = boxes, !.touched = TRUE]
       IN IF Page = "navigations"
          THEN LET s == Reduce(store, [type |-> "EDIT", field |-> "links", value |-> boxes])
               IN store' = s /\ panel' = Render(s, toggled)
          ELSE panel' = toggled /\ UNCHANGED store
    /\ edits' = edits + 1
    /\ up' = Through(up, store'.toEdit) /\ down' = Through(down, store'.toEdit) /\ UNCHANGED <<ServerVars, sent>>
saveItems ==
    /\ May /\ store.toEdit # None /\ panel.tab # "details"
    /\ IF Page = "navigations"
       THEN /\ Dispatch([type |-> "SET_ERROR", errors |-> isFormValid(store.toEdit)])
            /\ IF isFormValid(store.toEdit) = {} THEN Send(PostOf(store.toEdit, store)) ELSE UNCHANGED <<up, sent>>
       ELSE /\ Send(<<IF panel.tab = "companies" THEN SaveCompanies(store.toEdit, panel.boxes)
                      ELSE SaveNavigations(store.toEdit, panel.boxes)>>)
            /\ UNCHANGED <<store, panel>>
    /\ UNCHANGED <<ServerVars, down, edits>>

-------------------------------------------------------------------------------
(* The server. On the products page the relation others is the companies', and
   the links are a field of the product; on the navigations page others is the
   products' links. *)
Alive == {i \in Ids : server.ents[i] # None}
Found(q) == [i \in {j \in Alive : q = None \/ server.ents[j].name = q} |-> server.ents[i]]
Relink(id, os) == (server.others \ ({id} \X Others)) \cup ({id} \X os)
Put(id, e) == [server EXCEPT !.ents[id] = e, !.had[id] = @ \cup {e.name}]
Answer(m) ==
    CASE m.kind = "search" -> [kind |-> "found", data |-> Found(m.query)]
      [] m.kind = "others" -> [kind |-> "others", data |-> server.others]
      [] m.kind \in {"delete", "companies"} /\ m.id \notin Alive -> [kind |-> "failed"]
      [] m.kind = "delete" -> [kind |-> "deleted"]
      [] m.kind = "companies" -> [kind |-> "companies"]
      [] m.kind = "links" /\ m.form.id \notin Alive -> [kind |-> "failed"]
      [] m.kind = "links" -> [kind |-> "links", form |-> m.form, same |-> m.same, others |-> m.others]
      [] m.kind = "post" /\ m.form.id = None /\ Alive = Ids -> [kind |-> "failed"]
      [] m.kind = "post" /\ m.form.id \notin Alive \cup {None} -> [kind |-> "failed"]
      [] OTHER -> [kind |-> "posted", id |-> None, was |-> m.form.id]
Serve(m, a) ==
    CASE a.kind = "deleted" -> server' = [server EXCEPT !.ents[m.id] = None] /\ UNCHANGED secrets
      [] a.kind = "companies" -> server' = [server EXCEPT !.others = Relink(m.id, m.others)] /\ UNCHANGED secrets
      [] a.kind = "links" -> server' = [server EXCEPT !.ents[m.form.id].links = m.others] /\ UNCHANGED secrets
      [] a.kind = "posted" ->
           LET id == IF m.form.id = None THEN CHOOSE i \in Ids \ Alive : TRUE ELSE m.form.id
               kept == IF Page = "products" /\ m.form.id # None THEN server.ents[id].links ELSE {}
               s == Put(id, Entity(m.form.name, m.form.section, m.form.nested, kept))
           IN /\ server' = IF Page = "navigations" THEN [s EXCEPT !.others = Relink(id, m.form.links)] ELSE s
              /\ secrets' = IF Page = "oauth_clients" /\ m.form.id = None THEN secrets \cup {id} ELSE secrets
      [] OTHER -> UNCHANGED <<server, secrets>>
At(q) == IF AnyOrder THEN DOMAIN q ELSE {i \in DOMAIN q : i = 1}
Handle == \E i \in At(up) :
    /\ LET m == up[i]
           a == IF Answer(m).kind # "posted" THEN Answer(m)
                ELSE [Answer(m) EXCEPT !.id = IF m.form.id = None THEN CHOOSE j \in Ids \ Alive : TRUE ELSE m.form.id]
       IN Serve(m, a) /\ down' = Append(down, a)
    /\ up' = RemoveAt(up, i) /\ UNCHANGED <<store, panel, sent, edits>>
Refuse == /\ MayFail
          /\ \E i \in At(up) : up' = RemoveAt(up, i) /\ down' = Append(down, [kind |-> "failed"])
          /\ UNCHANGED <<server, store, panel, sent, edits, secrets>>

-------------------------------------------------------------------------------
(* Answers. *)
Refetch(s, more) == Fetch(s) /\ SendDetached(<<Search(s)>> \o more)
AfterPostEntity(a) == Refetch(store, IF Page = "navigations" THEN <<FetchOthers>> ELSE <<>>)
(* The secret of a new client goes to the form; with no form open that throws,
   and the list is not fetched again. *)
AfterPostClient(a) ==
    CASE a.was # None -> Refetch(store, <<>>)
      [] a.was = None /\ store.toEdit = None -> UNCHANGED <<store, panel, up, sent>>
      [] OTHER -> Refetch(Reduce(store, [type |-> "GET_CLIENT_PASSWORD", id |-> a.id, secret |-> a.id]), <<>>)
AfterPost(a) == IF Page = "oauth_clients" THEN AfterPostClient(a) ELSE AfterPostEntity(a)

Receive(a) ==
    CASE a.kind = "found" -> Dispatch([type |-> "GET", data |-> a.data]) /\ UNCHANGED <<up, sent>>
      [] a.kind = "others" -> Dispatch([type |-> "GET_OTHERS", data |-> a.data]) /\ UNCHANGED <<up, sent>>
      [] a.kind = "posted" -> AfterPost(a)
      [] a.kind = "deleted" -> Refetch(store, <<>>)
      [] a.kind = "companies" -> UNCHANGED <<store, panel>> /\ Send(<<FetchOthers>>)
      [] a.kind = "links" -> Dispatch([type |-> "UPDATE_PRODUCT_NAVIGATIONS", product |-> a.form, links |-> a.others]) /\ up' = Detached(up) /\ UNCHANGED sent
      [] OTHER -> (Dispatch([type |-> "SET_ERROR", errors |-> {"server"}]) \/ UNCHANGED <<store, panel>>) /\ UNCHANGED <<up, sent>>
Deliver == \E i \in At(down) : /\ Receive(down[i])
                               /\ down' = IF down[i].kind \in {"posted", "deleted", "links"} THEN Detached(RemoveAt(down, i)) ELSE RemoveAt(down, i)
                               /\ UNCHANGED <<ServerVars, edits>>

Init ==
    /\ \E linked \in SUBSET Others, nested \in (IF Page = "cards" THEN {1} ELSE IF Page = "navigations" THEN {0, 1} ELSE {0}) :
        LET first == CHOOSE i \in Ids : TRUE
            name == CHOOSE n \in Names : n # ""
            section == CHOOSE x \in Sections : TRUE
            e == Entity(name, section, nested, IF Page = "products" THEN linked ELSE {})
            ents == [i \in Ids |-> IF i = first THEN e ELSE None]
            rel == IF HasLinks THEN {first} \X linked ELSE {}
        IN /\ server = [ents |-> ents, others |-> rel, had |-> [i \in Ids |-> IF i = first THEN {name} ELSE {}]]
           /\ store = [list |-> {first}, byId |-> ents, activeId |-> None, toEdit |-> None, errors |-> {}, isLoading |-> FALSE,
                       section |-> section, query |-> None, others |-> rel]
    /\ panel = None /\ up = <<>> /\ down = <<>> /\ sent = 0 /\ edits = 0 /\ secrets = {}

Admin == \/ \E i \in Ids : Select(i)
         \/ New \/ CancelEdit \/ Save \/ Delete \/ saveItems
         \/ \E n \in Names : Edit("name", n)
         \/ Edit("type", 0) \/ \E n \in ConfigExternalMedia : Edit("nested", n)
         \/ \E x \in Sections : SelectSection(x)
         \/ \E q \in (Names \ {""}) \cup {None} : SearchFor(q)
         \/ \E t \in {"details", "companies", "links"} : handleTabClick(t)
         \/ \E o \in Others : onItemChange(o)
Next == Admin \/ Handle \/ Refuse \/ Deliver
Spec == Init /\ [][Next]_vars
-------------------------------------------------------------------------------
TypeOK ==
    /\ server.others \subseteq Ids \X Others
    /\ \A i \in Alive : server.ents[i].name \in server.had[i]
    /\ store.list \subseteq Ids /\ \A i \in store.list : store.byId[i] # None
    /\ store.section \in Sections /\ store.errors \subseteq {"name", "server"}
    /\ panel = None <=> store.toEdit = None
    /\ panel # None => panel.boxes \subseteq Others /\ panel.tab \in panel.tabs
    /\ secrets \subseteq Ids /\ sent \in 0 .. MaxSent /\ edits \in 0 .. MaxEdits

(* What is typed into a form, saved or not, is shown in the list only once the
   server has taken it: the form edits a copy of the listed object. (A product
   whose global topics were saved is no copy.) *)
TypedStaysInForm == \A i \in store.list : store.byId[i].name \in server.had[i]

(* When nothing is on its way, the list is what the server finds for the query:
   every save and deletion is followed by a search. *)
Settled == up = <<>> /\ down = <<>>
ListFresh ==
    Settled => /\ store.list = DOMAIN Found(store.query)
               /\ Page # "products" => \A i \in store.list : store.byId[i].name = server.ents[i].name

(* When nothing is on its way and no box was touched, the boxes of the form show
   the links that the server has: saving the panel unchanged changes nothing. *)
BoxesAreTheServers ==
    Settled /\ panel # None /\ panel.tab # "details" /\ ~ panel.touched /\ store.toEdit.id \in Alive =>
        panel.boxes = IF Page = "products" /\ panel.tab = "links" THEN server.ents[store.toEdit.id].links
                      ELSE LinkedTo(server.others, store.toEdit.id)

===============================================================================
