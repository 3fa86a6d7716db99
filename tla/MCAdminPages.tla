------------------------------ MODULE MCAdminPages ------------------------------
(* The pages of the administrators in the web client, side by side: `part` says which
   of them runs, each in a small instance of its own. *)
EXTENDS Integers, Sequences, FiniteSets, TLC, Entitlements

CONSTANTS me, ann, bob, cid, comp1, comp2, prod1, prod2, prod3, text1, text2, u1, u2, alpha,
          beta, ua, ub, wire, agenda, i1, i2, n1, n2, s1, s2, o1, o2, p1, p2

\* Three readers and three products of two companies.
FirstNames == (ann :> 1) @@ (bob :> 2) @@ (cid :> 3)
LastActive == (ann :> 2) @@ (bob :> 1) @@ (cid :> 2)
TwoOfThree == (ann :> comp1) @@ (bob :> comp1) @@ (cid :> comp2)
AllThree == (ann :> comp1) @@ (bob :> comp1) @@ (cid :> comp1)
HaveProducts == (ann :> {prod1}) @@ (bob :> {prod1, prod2}) @@ (cid :> {prod2})
FoundByText == (ann :> {text1}) @@ (bob :> {text1, text2}) @@ (cid :> {text2})
OfSection == (prod1 :> "wire") @@ (prod2 :> "wire") @@ (prod3 :> "agenda")
SeatsOf == (prod1 :> 2) @@ (prod2 :> 1) @@ (prod3 :> 0)
NamesFoundBy == (prod1 :> {text1}) @@ (prod2 :> {text2}) @@ (prod3 :> {})
OneSeat == [i \in {prod1, prod2} |-> IF i = prod1 THEN 1 ELSE 2]
StaffOf == (alpha :> {ua}) @@ (beta :> {ub})
\* The filters of the reports.
Wanted(values) == [f \in {"date_from", "date_to", "section", "company", "action", "product", "genre"} |->
                      IF f \in DOMAIN values THEN values[f] ELSE {}]
\* One monitoring profile each of two companies, the second on a schedule.
Scheduled(i, t1, d) == [interval |-> i, time |-> t1, day |-> d]
Profiled(c, us, schedule) == [company |-> c, filled |-> TRUE, users |-> us, schedule |-> schedule]
TwoProfiles == (p1 :> Profiled(alpha, {ann}, Scheduled("", FALSE, FALSE))) @@
               (p2 :> Profiled(beta, {}, Scheduled("daily", TRUE, FALSE)))
OneProfile == p1 :> Profiled(alpha, {ann}, Scheduled("", FALSE, FALSE))
\* The product that both companies may have.
WireProduct == prod1 :> wire

\* The permissions while another page runs.
Idle ==
    /\ Init
    /\ \A c \in Companies : company[c].sections = {}
    /\ \A u \in Users : user[u].company = alpha

VARIABLES part,     \* the page that runs
          account, known, form, edits, picked, errors, requests, sent, answer, store, urls, lost,
          removed, box, typed, asked, firms, saved, server, panel, up, down, secrets, ui, flight,
          crashed, out, opened, profiles, clashed
all == <<part, account, known, form, edits, picked, errors, requests, sent, answer, store, urls,
         lost, removed, box, typed, asked, firms, saved, server, panel, up, down, secrets, ui,
         flight, crashed, out, opened, profiles, clashed, vars>>

\* The form of a user, edited by an administrator.
FormPage == INSTANCE UserForm WITH
    Role <- "administrator", Users <- {me, ann}, Me <- me, Companies <- {comp1}, OwnCompany <- comp1,
    Locales <- {"en", "fr"}, Default <- "en", Shown <- "fr", Edits <- {"is_approved", "user_type"},
    Acts <- {"new", "approve", "delete", "resend", "reset", "validate"}, Waits <- TRUE, MaxRequests <- 2,
    MaxEdits <- 1
\* The same form, edited by an account manager.
ManagersForm == INSTANCE UserForm WITH
    Role <- "account_management", Users <- {me, ann}, Me <- me, Companies <- {comp1},
    OwnCompany <- comp1, Locales <- {"en", "fr"}, Default <- "en", Shown <- "en",
    Edits <- {"first_name", "user_type", "company"},
    Acts <- {"new", "approve", "delete", "resend", "reset", "validate"}, Waits <- TRUE, MaxRequests <- 2,
    MaxEdits <- 1
\* The same form, edited by the administrator of a company.
ColleaguesForm == INSTANCE UserForm WITH
    Role <- "company_admin", Users <- {me, ann}, Me <- me, Companies <- {comp1}, OwnCompany <- comp1,
    Locales <- {"en", "fr"}, Default <- "en", Shown <- "en",
    Edits <- {"is_approved", "user_type", "company", "locale"},
    Acts <- {"new", "approve", "delete", "resend", "reset", "validate"}, Waits <- TRUE, MaxRequests <- 2,
    MaxEdits <- 1
\* The products of a company given to its users.
SeatsPage == INSTANCE UserManager WITH
    Users <- {u1, u2}, CurrentUser <- u2, Products <- {prod1, prod2}, MaxSeats <- OneSeat, Filters <- {},
    AnyOrder <- FALSE, Waits <- TRUE, MayFail <- FALSE, Others <- FALSE, MaxRevs <- 2, MaxRequests <- 6
\* Two administrators.
SavesPage == INSTANCE UserManager WITH
    Users <- {u1, u2}, CurrentUser <- u2, Products <- {prod1}, MaxSeats <- (prod1 :> 1), Filters <- {},
    AnyOrder <- FALSE, Waits <- FALSE, MayFail <- FALSE, Others <- TRUE, MaxRevs <- 2, MaxRequests <- 3
\* The users filtered by a product, answers in any order or none.
FilteredUsersPage == INSTANCE UserManager WITH
    Users <- {u1, u2}, CurrentUser <- u2, Products <- {prod1}, MaxSeats <- (prod1 :> 1),
    Filters <- {prod1}, AnyOrder <- TRUE, Waits <- FALSE, MayFail <- TRUE, Others <- FALSE, MaxRevs <- 2,
    MaxRequests <- 2
\* The users of a company.
UsersPage == INSTANCE UserLists WITH
    Page <- "company_admin", Users <- {ann, bob, cid}, First <- FirstNames, Active <- LastActive,
    CompanyOf <- AllThree, ProductsOf <- HaveProducts, TextsOf <- FoundByText,
    Companies <- {comp1, comp2}, OwnCompany <- comp1, Products <- {prod1, prod2, prod3},
    ProductSection <- OfSection, CompanyProducts <- {prod1, prod2}, CompanySections <- {"wire"},
    MaxSeats <- SeatsOf, NameTexts <- NamesFoundBy, Texts <- {text1, text2}, Limit <- 2,
    Acts <- {"query", "product", "sort", "section"}, AnyOrder <- FALSE, MayFail <- FALSE,
    MaxRequests <- 3
\* The users of all companies.
AllUsersPage == INSTANCE UserLists WITH
    Page <- "settings", Users <- {ann, bob, cid}, First <- FirstNames, Active <- LastActive,
    CompanyOf <- TwoOfThree, ProductsOf <- HaveProducts, TextsOf <- FoundByText,
    Companies <- {comp1, comp2}, OwnCompany <- comp1, Products <- {prod1, prod2, prod3},
    ProductSection <- OfSection, CompanyProducts <- {prod1, prod2}, CompanySections <- {"wire"},
    MaxSeats <- SeatsOf, NameTexts <- NamesFoundBy, Texts <- {text1, text2}, Limit <- 5,
    Acts <- {"query", "company", "sort", "new"}, AnyOrder <- FALSE, MayFail <- FALSE, MaxRequests <- 3
\* More seats asked for.
SeatRequestPage == INSTANCE UserLists WITH
    Page <- "company_admin", Users <- {ann, bob, cid}, First <- FirstNames, Active <- LastActive,
    CompanyOf <- AllThree, ProductsOf <- HaveProducts, TextsOf <- FoundByText,
    Companies <- {comp1, comp2}, OwnCompany <- comp1, Products <- {prod1, prod2, prod3},
    ProductSection <- OfSection, CompanyProducts <- {prod1, prod2}, CompanySections <- {"wire"},
    MaxSeats <- SeatsOf, NameTexts <- NamesFoundBy, Texts <- {text1, text2}, Limit <- 5,
    Acts <- {"section", "seats"}, AnyOrder <- FALSE, MayFail <- TRUE, MaxRequests <- 2
\* The companies and their permissions.
CompaniesPage == INSTANCE CompanyManager WITH
    Companies <- {alpha, beta}, Staff <- StaffOf, Queries <- {{alpha, beta}, {beta}}, Waits <- TRUE,
    AnyOrder <- FALSE, MayFail <- FALSE, ApiEnabled <- TRUE, MaxEdits <- 1, MaxRequests <- 5, company <- firms
\* Requests on their way when a company is deleted.
DeletionsPage == INSTANCE CompanyManager WITH
    Companies <- {alpha, beta}, Staff <- StaffOf, Queries <- {}, Waits <- FALSE, AnyOrder <- FALSE,
    MayFail <- TRUE, ApiEnabled <- FALSE, MaxEdits <- 1, MaxRequests <- 2, company <- firms
\* What a company and its users have, sections only.
DeniedSections == INSTANCE Entitlements WITH
    Companies <- {"c"}, Users <- {"u"}, Sections <- {wire, agenda}, Products <- {}, SectionOf <- <<>>,
    EmbedTypes <- {}, MayEmpty <- FALSE, MaxSaves <- 3,
    company <- firms, user <- known, saving <- up, following <- down, cascade <- asked,
    writing <- requests, cform <- form, uform <- edits, saves <- sent, denied <- removed,
    overtaken <- lost, configured <- picked
\* The permissions of embedded content.
EmbedsGranted == INSTANCE Entitlements WITH
    Companies <- {"c"}, Users <- {"u"}, Sections <- {wire}, Products <- {prod1},
    SectionOf <- (prod1 :> wire), EmbedTypes <- {"picture", "sd_product"},
    MayEmpty <- FALSE, MaxSaves <- 2,
    company <- firms, user <- known, saving <- up, following <- down, cascade <- asked,
    writing <- requests, cform <- form, uform <- edits, saves <- sent, denied <- removed,
    overtaken <- lost, configured <- picked
\* The clients of the API.
ClientsPage == INSTANCE SettingsPages WITH
    Page <- "oauth_clients", Ids <- {i1, i2}, Names <- {"", n1, n2}, Sections <- {s1}, Others <- {o1},
    AnyOrder <- FALSE, Waits <- TRUE, MayFail <- FALSE, MaxMedia <- 1, MaxSent <- 5, MaxEdits <- 3
\* The products.
ProductsPage == INSTANCE SettingsPages WITH
    Page <- "products", Ids <- {i1, i2}, Names <- {"", n1, n2}, Sections <- {s1}, Others <- {o1, o2},
    AnyOrder <- FALSE, Waits <- TRUE, MayFail <- FALSE, MaxMedia <- 1, MaxSent <- 5, MaxEdits <- 3
\* The cards of the home page.
CardsPage == INSTANCE SettingsPages WITH
    Page <- "cards", Ids <- {i1, i2}, Names <- {"", n1, n2}, Sections <- {s1, s2}, Others <- {o1},
    AnyOrder <- FALSE, Waits <- FALSE, MayFail <- TRUE, MaxMedia <- 1, MaxSent <- 3, MaxEdits <- 2
\* Reports that fail.
ReportsPage == INSTANCE CompanyReports WITH
    Reports <- {"subscriber-activity", "product-companies"},
    Values <- Wanted([company |-> {"c1"}, product |-> {"p1"}]),
    Acts <- {"select", "run", "filter", "scroll", "print"}, AnyOrder <- FALSE, Failures <- {"invalid"},
    Waits <- TRUE, PageSize <- 1, Total <- 2, MaxFlight <- 3
\* Reports chosen while others load.
RowsPage == INSTANCE CompanyReports WITH
    Reports <- {"subscriber-activity", "company-news-api-usage", "company"},
    Values <- Wanted([company |-> {"c1"}, date_from |-> {"yesterday"}]),
    Acts <- {"select", "run", "filter"}, AnyOrder <- FALSE, Failures <- {}, Waits <- FALSE,
    PageSize <- 1, Total <- 3, MaxFlight <- 3
\* Reports loaded page by page, and exported.
ScrollPage == INSTANCE CompanyReports WITH
    Reports <- {"subscriber-activity", "company-news-api-usage"},
    Values <- Wanted([company |-> {"c1"}, date_from |-> {"yesterday"}]),
    Acts <- {"select", "filter", "scroll", "export"}, AnyOrder <- FALSE, Failures <- {}, Waits <- TRUE,
    PageSize <- 1, Total <- 3, MaxFlight <- 3
\* The activity of the content.
ContentPage == INSTANCE CompanyReports WITH
    Reports <- {"company-saved-searches", "content-activity", "product-companies"},
    Values <- Wanted([action |-> {"download", "download audio"}, section |-> {"wire"}, date_from |-> {"yesterday"}]),
    Acts <- {"select", "run", "filter", "content"}, AnyOrder <- FALSE, Failures <- {}, Waits <- TRUE,
    PageSize <- 1, Total <- 1, MaxFlight <- 2
\* Monitoring profiles with their users and schedules.
ProfilesPage == INSTANCE MonitoringProfiles WITH
    Profiles <- {p1, p2}, Companies <- {alpha, beta}, Users <- {ann, bob},
    CompanyOf <- (ann :> alpha) @@ (bob :> beta), Start <- TwoProfiles, Choices <- {"", "one_hour"},
    Acts <- {"section", "select", "profile", "users", "schedule", "save"}, AnyOrder <- FALSE,
    Waits <- TRUE, MayFail <- FALSE, MaxFlight <- 2
\* The times of the schedules.
ProfileTimesPage == INSTANCE MonitoringProfiles WITH
    Profiles <- {p1}, Companies <- {alpha, beta}, Users <- {ann, bob},
    CompanyOf <- (ann :> alpha) @@ (bob :> beta), Start <- OneProfile,
    Choices <- {"", "one_hour", "four_hour", "daily", "weekly"},
    Acts <- {"section", "select", "profile", "schedule", "save"}, AnyOrder <- FALSE, Waits <- FALSE,
    MayFail <- FALSE, MaxFlight <- 1
\* The list of the profiles of a company.
ProfileListPage == INSTANCE MonitoringProfiles WITH
    Profiles <- {p1}, Companies <- {alpha, beta}, Users <- {}, CompanyOf <- <<>>, Start <- OneProfile,
    Choices <- {"one_hour"}, Acts <- {"section", "company", "select", "delete"}, AnyOrder <- FALSE,
    Waits <- FALSE, MayFail <- FALSE, MaxFlight <- 2
\* A profile made, edited and deleted, answers in any order.
ProfileEditPage == INSTANCE MonitoringProfiles WITH
    Profiles <- {p1}, Companies <- {alpha}, Users <- {ann}, CompanyOf <- (ann :> alpha), Start <- <<>>,
    Choices <- {"one_hour"}, Acts <- {"new", "reselect", "edit", "save", "delete"}, AnyOrder <- TRUE,
    Waits <- FALSE, MayFail <- TRUE, MaxFlight <- 2

ASSUME PermissionsAssumption == ConstantsOK
ASSUME FormPageAssumption == FormPage!UserFormAssumption
ASSUME ManagersFormAssumption == ManagersForm!UserFormAssumption
ASSUME ColleaguesFormAssumption == ColleaguesForm!UserFormAssumption
ASSUME SeatsPageAssumption == SeatsPage!ConstantsOK
ASSUME SavesPageAssumption == SavesPage!ConstantsOK
ASSUME FilteredUsersPageAssumption == FilteredUsersPage!ConstantsOK
ASSUME UsersPageAssumption == UsersPage!UserListsAssumption
ASSUME AllUsersPageAssumption == AllUsersPage!UserListsAssumption
ASSUME SeatRequestPageAssumption == SeatRequestPage!UserListsAssumption
ASSUME CompaniesPageAssumption == CompaniesPage!ConstantsOK
ASSUME DeletionsPageAssumption == DeletionsPage!ConstantsOK
ASSUME DeniedSectionsAssumption == DeniedSections!ConstantsOK
ASSUME EmbedsGrantedAssumption == EmbedsGranted!ConstantsOK
ASSUME ClientsPageAssumption == ClientsPage!PageAssumption
ASSUME ProductsPageAssumption == ProductsPage!PageAssumption
ASSUME CardsPageAssumption == CardsPage!PageAssumption
ASSUME ReportsPageAssumption == ReportsPage!PagesAssumption
ASSUME RowsPageAssumption == RowsPage!PagesAssumption
ASSUME ScrollPageAssumption == ScrollPage!PagesAssumption
ASSUME ContentPageAssumption == ContentPage!PagesAssumption
ASSUME ProfilesPageAssumption == ProfilesPage!ConstantsOK
ASSUME ProfileTimesPageAssumption == ProfileTimesPage!ConstantsOK
ASSUME ProfileListPageAssumption == ProfileListPage!ConstantsOK
ASSUME ProfileEditPageAssumption == ProfileEditPage!ConstantsOK

--------------------------------------------------------------------------------
\* The variables of the other pages are idle.
WithoutPermissions == <<account, known, form, edits, picked, errors, requests, sent, answer,
                        store, urls, lost, removed, box, typed, asked, firms, saved, server,
                        panel, up, down, secrets, ui, flight, crashed, out, opened, profiles,
                        clashed>>
WithoutUserForm == <<store, urls, lost, removed, box, typed, asked, firms, saved, server, panel,
                     up, down, secrets, ui, flight, crashed, out, opened, profiles, clashed,
                     vars>>
WithoutUserManager == <<known, form, edits, picked, errors, answer, box, typed, asked, firms,
                        saved, server, panel, up, down, secrets, ui, flight, crashed, out, opened,
                        profiles, vars>>
WithoutUserLists == <<account, known, form, edits, picked, errors, answer, urls, lost, removed,
                      firms, saved, server, panel, up, down, secrets, ui, flight, crashed, out,
                      opened, profiles, clashed, vars>>
WithoutCompanyManager == <<account, known, form, picked, errors, answer, lost, box, typed, asked,
                           server, panel, up, down, secrets, ui, flight, crashed, out, opened,
                           profiles, clashed, vars>>
WithoutInstances == <<account, errors, answer, store, urls, box, typed, saved, server, panel,
                      secrets, ui, flight, crashed, out, opened, profiles, clashed, vars>>
WithoutSettingsPages == <<account, known, form, picked, errors, requests, answer, urls, lost,
                          removed, box, typed, asked, firms, saved, ui, flight, crashed, out,
                          opened, profiles, clashed, vars>>
WithoutCompanyReports == <<account, known, form, edits, picked, errors, requests, sent, answer,
                           urls, lost, removed, box, typed, asked, firms, saved, server, panel,
                           up, down, secrets, profiles, clashed, vars>>
WithoutMonitoringProfiles == <<account, known, form, edits, picked, errors, requests, sent,
                               answer, urls, lost, removed, box, typed, asked, firms, saved,
                               server, up, down, secrets, ui, crashed, out, opened, clashed,
                               vars>>

AllInit ==
    \/ /\ part = "permissions" /\ Init
       /\ account = None /\ known = None /\ form = None /\ edits = None /\ picked = None
       /\ errors = None /\ requests = None /\ sent = None /\ answer = None /\ store = None
       /\ urls = None /\ lost = None /\ removed = None /\ box = None /\ typed = None
       /\ asked = None /\ firms = None /\ saved = None /\ server = None /\ panel = None
       /\ up = None /\ down = None /\ secrets = None /\ ui = None /\ flight = None
       /\ crashed = None /\ out = None /\ opened = None /\ profiles = None /\ clashed = None
    \/ /\ part = "form" /\ FormPage!Init /\ Idle
       /\ store = None /\ urls = None /\ lost = None /\ removed = None /\ box = None
       /\ typed = None /\ asked = None /\ firms = None /\ saved = None /\ server = None
       /\ panel = None /\ up = None /\ down = None /\ secrets = None /\ ui = None /\ flight = None
       /\ crashed = None /\ out = None /\ opened = None /\ profiles = None /\ clashed = None
    \/ /\ part = "manager" /\ ManagersForm!Init /\ Idle
       /\ store = None /\ urls = None /\ lost = None /\ removed = None /\ box = None
       /\ typed = None /\ asked = None /\ firms = None /\ saved = None /\ server = None
       /\ panel = None /\ up = None /\ down = None /\ secrets = None /\ ui = None /\ flight = None
       /\ crashed = None /\ out = None /\ opened = None /\ profiles = None /\ clashed = None
    \/ /\ part = "colleagues" /\ ColleaguesForm!Init /\ Idle
       /\ store = None /\ urls = None /\ lost = None /\ removed = None /\ box = None
       /\ typed = None /\ asked = None /\ firms = None /\ saved = None /\ server = None
       /\ panel = None /\ up = None /\ down = None /\ secrets = None /\ ui = None /\ flight = None
       /\ crashed = None /\ out = None /\ opened = None /\ profiles = None /\ clashed = None
    \/ /\ part = "seats" /\ SeatsPage!Init /\ Idle
       /\ known = None /\ form = None /\ edits = None /\ picked = None /\ errors = None
       /\ answer = None /\ box = None /\ typed = None /\ asked = None /\ firms = None
       /\ saved = None /\ server = None /\ panel = None /\ up = None /\ down = None
       /\ secrets = None /\ ui = None /\ flight = None /\ crashed = None /\ out = None
       /\ opened = None /\ profiles = None
    \/ /\ part = "saves" /\ SavesPage!Init /\ Idle
       /\ known = None /\ form = None /\ edits = None /\ picked = None /\ errors = None
       /\ answer = None /\ box = None /\ typed = None /\ asked = None /\ firms = None
       /\ saved = None /\ server = None /\ panel = None /\ up = None /\ down = None
       /\ secrets = None /\ ui = None /\ flight = None /\ crashed = None /\ out = None
       /\ opened = None /\ profiles = None
    \/ /\ part = "filtered" /\ FilteredUsersPage!Init /\ Idle
       /\ known = None /\ form = None /\ edits = None /\ picked = None /\ errors = None
       /\ answer = None /\ box = None /\ typed = None /\ asked = None /\ firms = None
       /\ saved = None /\ server = None /\ panel = None /\ up = None /\ down = None
       /\ secrets = None /\ ui = None /\ flight = None /\ crashed = None /\ out = None
       /\ opened = None /\ profiles = None
    \/ /\ part = "admin" /\ UsersPage!Init /\ Idle
       /\ account = None /\ known = None /\ form = None /\ edits = None /\ picked = None
       /\ errors = None /\ answer = None /\ urls = None /\ lost = None /\ removed = None
       /\ firms = None /\ saved = None /\ server = None /\ panel = None /\ up = None
       /\ down = None /\ secrets = None /\ ui = None /\ flight = None /\ crashed = None
       /\ out = None /\ opened = None /\ profiles = None /\ clashed = None
    \/ /\ part = "settings" /\ AllUsersPage!Init /\ Idle
       /\ account = None /\ known = None /\ form = None /\ edits = None /\ picked = None
       /\ errors = None /\ answer = None /\ urls = None /\ lost = None /\ removed = None
       /\ firms = None /\ saved = None /\ server = None /\ panel = None /\ up = None
       /\ down = None /\ secrets = None /\ ui = None /\ flight = None /\ crashed = None
       /\ out = None /\ opened = None /\ profiles = None /\ clashed = None
    \/ /\ part = "asked" /\ SeatRequestPage!Init /\ Idle
       /\ account = None /\ known = None /\ form = None /\ edits = None /\ picked = None
       /\ errors = None /\ answer = None /\ urls = None /\ lost = None /\ removed = None
       /\ firms = None /\ saved = None /\ server = None /\ panel = None /\ up = None
       /\ down = None /\ secrets = None /\ ui = None /\ flight = None /\ crashed = None
       /\ out = None /\ opened = None /\ profiles = None /\ clashed = None
    \/ /\ part = "companies" /\ CompaniesPage!Init /\ Idle
       /\ account = None /\ known = None /\ form = None /\ picked = None /\ errors = None
       /\ answer = None /\ lost = None /\ box = None /\ typed = None /\ asked = None
       /\ server = None /\ panel = None /\ up = None /\ down = None /\ secrets = None /\ ui = None
       /\ flight = None /\ crashed = None /\ out = None /\ opened = None /\ profiles = None
       /\ clashed = None
    \/ /\ part = "deletions" /\ DeletionsPage!Init /\ Idle
       /\ account = None /\ known = None /\ form = None /\ picked = None /\ errors = None
       /\ answer = None /\ lost = None /\ box = None /\ typed = None /\ asked = None
       /\ server = None /\ panel = None /\ up = None /\ down = None /\ secrets = None /\ ui = None
       /\ flight = None /\ crashed = None /\ out = None /\ opened = None /\ profiles = None
       /\ clashed = None
    \/ /\ part = "denied" /\ DeniedSections!Init /\ Idle
       /\ account = None /\ errors = None /\ answer = None /\ store = None /\ urls = None
       /\ box = None /\ typed = None /\ saved = None /\ server = None /\ panel = None
       /\ secrets = None /\ ui = None /\ flight = None /\ crashed = None /\ out = None
       /\ opened = None /\ profiles = None /\ clashed = None
    \/ /\ part = "embeds" /\ EmbedsGranted!Init /\ Idle
       /\ account = None /\ errors = None /\ answer = None /\ store = None /\ urls = None
       /\ box = None /\ typed = None /\ saved = None /\ server = None /\ panel = None
       /\ secrets = None /\ ui = None /\ flight = None /\ crashed = None /\ out = None
       /\ opened = None /\ profiles = None /\ clashed = None
    \/ /\ part = "clients" /\ ClientsPage!Init /\ Idle
       /\ account = None /\ known = None /\ form = None /\ picked = None /\ errors = None
       /\ requests = None /\ answer = None /\ urls = None /\ lost = None /\ removed = None
       /\ box = None /\ typed = None /\ asked = None /\ firms = None /\ saved = None /\ ui = None
       /\ flight = None /\ crashed = None /\ out = None /\ opened = None /\ profiles = None
       /\ clashed = None
    \/ /\ part = "products" /\ ProductsPage!Init /\ Idle
       /\ account = None /\ known = None /\ form = None /\ picked = None /\ errors = None
       /\ requests = None /\ answer = None /\ urls = None /\ lost = None /\ removed = None
       /\ box = None /\ typed = None /\ asked = None /\ firms = None /\ saved = None /\ ui = None
       /\ flight = None /\ crashed = None /\ out = None /\ opened = None /\ profiles = None
       /\ clashed = None
    \/ /\ part = "cards" /\ CardsPage!Init /\ Idle
       /\ account = None /\ known = None /\ form = None /\ picked = None /\ errors = None
       /\ requests = None /\ answer = None /\ urls = None /\ lost = None /\ removed = None
       /\ box = None /\ typed = None /\ asked = None /\ firms = None /\ saved = None /\ ui = None
       /\ flight = None /\ crashed = None /\ out = None /\ opened = None /\ profiles = None
       /\ clashed = None
    \/ /\ part = "reports" /\ ReportsPage!Init /\ Idle
       /\ account = None /\ known = None /\ form = None /\ edits = None /\ picked = None
       /\ errors = None /\ requests = None /\ sent = None /\ answer = None /\ urls = None
       /\ lost = None /\ removed = None /\ box = None /\ typed = None /\ asked = None
       /\ firms = None /\ saved = None /\ server = None /\ panel = None /\ up = None
       /\ down = None /\ secrets = None /\ profiles = None /\ clashed = None
    \/ /\ part = "rows" /\ RowsPage!Init /\ Idle
       /\ account = None /\ known = None /\ form = None /\ edits = None /\ picked = None
       /\ errors = None /\ requests = None /\ sent = None /\ answer = None /\ urls = None
       /\ lost = None /\ removed = None /\ box = None /\ typed = None /\ asked = None
       /\ firms = None /\ saved = None /\ server = None /\ panel = None /\ up = None
       /\ down = None /\ secrets = None /\ profiles = None /\ clashed = None
    \/ /\ part = "scroll" /\ ScrollPage!Init /\ Idle
       /\ account = None /\ known = None /\ form = None /\ edits = None /\ picked = None
       /\ errors = None /\ requests = None /\ sent = None /\ answer = None /\ urls = None
       /\ lost = None /\ removed = None /\ box = None /\ typed = None /\ asked = None
       /\ firms = None /\ saved = None /\ server = None /\ panel = None /\ up = None
       /\ down = None /\ secrets = None /\ profiles = None /\ clashed = None
    \/ /\ part = "content" /\ ContentPage!Init /\ Idle
       /\ account = None /\ known = None /\ form = None /\ edits = None /\ picked = None
       /\ errors = None /\ requests = None /\ sent = None /\ answer = None /\ urls = None
       /\ lost = None /\ removed = None /\ box = None /\ typed = None /\ asked = None
       /\ firms = None /\ saved = None /\ server = None /\ panel = None /\ up = None
       /\ down = None /\ secrets = None /\ profiles = None /\ clashed = None
    \/ /\ part = "profiles" /\ ProfilesPage!Init /\ Idle
       /\ account = None /\ known = None /\ form = None /\ edits = None /\ picked = None
       /\ errors = None /\ requests = None /\ sent = None /\ answer = None /\ urls = None
       /\ lost = None /\ removed = None /\ box = None /\ typed = None /\ asked = None
       /\ firms = None /\ saved = None /\ server = None /\ up = None /\ down = None
       /\ secrets = None /\ ui = None /\ crashed = None /\ out = None /\ opened = None
       /\ clashed = None
    \/ /\ part = "schedules" /\ ProfileTimesPage!Init /\ Idle
       /\ account = None /\ known = None /\ form = None /\ edits = None /\ picked = None
       /\ errors = None /\ requests = None /\ sent = None /\ answer = None /\ urls = None
       /\ lost = None /\ removed = None /\ box = None /\ typed = None /\ asked = None
       /\ firms = None /\ saved = None /\ server = None /\ up = None /\ down = None
       /\ secrets = None /\ ui = None /\ crashed = None /\ out = None /\ opened = None
       /\ clashed = None
    \/ /\ part = "lists" /\ ProfileListPage!Init /\ Idle
       /\ account = None /\ known = None /\ form = None /\ edits = None /\ picked = None
       /\ errors = None /\ requests = None /\ sent = None /\ answer = None /\ urls = None
       /\ lost = None /\ removed = None /\ box = None /\ typed = None /\ asked = None
       /\ firms = None /\ saved = None /\ server = None /\ up = None /\ down = None
       /\ secrets = None /\ ui = None /\ crashed = None /\ out = None /\ opened = None
       /\ clashed = None
    \/ /\ part = "editing" /\ ProfileEditPage!Init /\ Idle
       /\ account = None /\ known = None /\ form = None /\ edits = None /\ picked = None
       /\ errors = None /\ requests = None /\ sent = None /\ answer = None /\ urls = None
       /\ lost = None /\ removed = None /\ box = None /\ typed = None /\ asked = None
       /\ firms = None /\ saved = None /\ server = None /\ up = None /\ down = None
       /\ secrets = None /\ ui = None /\ crashed = None /\ out = None /\ opened = None
       /\ clashed = None

AllNext ==
    \/ part = "permissions" /\ Next /\ UNCHANGED <<part, WithoutPermissions>>
    \/ part = "form" /\ FormPage!Next /\ UNCHANGED <<part, WithoutUserForm>>
    \/ part = "manager" /\ ManagersForm!Next /\ UNCHANGED <<part, WithoutUserForm>>
    \/ part = "colleagues" /\ ColleaguesForm!Next /\ UNCHANGED <<part, WithoutUserForm>>
    \/ part = "seats" /\ SeatsPage!Next /\ UNCHANGED <<part, WithoutUserManager>>
    \/ part = "saves" /\ SavesPage!Next /\ UNCHANGED <<part, WithoutUserManager>>
    \/ part = "filtered" /\ FilteredUsersPage!Next /\ UNCHANGED <<part, WithoutUserManager>>
    \/ part = "admin" /\ UsersPage!Next /\ UNCHANGED <<part, WithoutUserLists>>
    \/ part = "settings" /\ AllUsersPage!Next /\ UNCHANGED <<part, WithoutUserLists>>
    \/ part = "asked" /\ SeatRequestPage!Next /\ UNCHANGED <<part, WithoutUserLists>>
    \/ part = "companies" /\ CompaniesPage!Next /\ UNCHANGED <<part, WithoutCompanyManager>>
    \/ part = "deletions" /\ DeletionsPage!Next /\ UNCHANGED <<part, WithoutCompanyManager>>
    \/ part = "denied" /\ DeniedSections!Next /\ UNCHANGED <<part, WithoutInstances>>
    \/ part = "embeds" /\ EmbedsGranted!Next /\ UNCHANGED <<part, WithoutInstances>>
    \/ part = "clients" /\ ClientsPage!Next /\ UNCHANGED <<part, WithoutSettingsPages>>
    \/ part = "products" /\ ProductsPage!Next /\ UNCHANGED <<part, WithoutSettingsPages>>
    \/ part = "cards" /\ CardsPage!Next /\ UNCHANGED <<part, WithoutSettingsPages>>
    \/ part = "reports" /\ ReportsPage!Next /\ UNCHANGED <<part, WithoutCompanyReports>>
    \/ part = "rows" /\ RowsPage!Next /\ UNCHANGED <<part, WithoutCompanyReports>>
    \/ part = "scroll" /\ ScrollPage!Next /\ UNCHANGED <<part, WithoutCompanyReports>>
    \/ part = "content" /\ ContentPage!Next /\ UNCHANGED <<part, WithoutCompanyReports>>
    \/ part = "profiles" /\ ProfilesPage!Next /\ UNCHANGED <<part, WithoutMonitoringProfiles>>
    \/ part = "schedules" /\ ProfileTimesPage!Next /\ UNCHANGED <<part, WithoutMonitoringProfiles>>
    \/ part = "lists" /\ ProfileListPage!Next /\ UNCHANGED <<part, WithoutMonitoringProfiles>>
    \/ part = "editing" /\ ProfileEditPage!Next /\ UNCHANGED <<part, WithoutMonitoringProfiles>>

AllSpec == AllInit /\ [][AllNext]_all

--------------------------------------------------------------------------------
(* Properties. *)
(* The users and companies. Nobody deletes himself; nobody but an administrator is without a
   company; what the admin of a company is offered is not refused; errors are those of the form
   shown; no product has more users than seats, a deleted user does not come back and no save
   undoes another's, unless both were checked before either was written; the list and its boxes are
   those of the last search, and a request for seats is sent once. A save of a company stays what
   was saved when the list comes back, a deleted company is gone for good though requests for it
   were on their way; what was denied to a user stays denied through saves, forms and the updates
   of his company, until one that read him before writes him; and what a company may not show it
   may not download (EditUser, UserForm, users/views.py, CompanyAdmin, CompanyManager,
   companies/views.py, companies_async/service.py). *)
AccountsManaged ==
    /\ part = "form" => FormPage!TypeOK /\ FormPage!MeStays
    /\ part = "filtered" => FilteredUsersPage!TypeOK
    /\ part = "admin" => UsersPage!TypeOK /\ UsersPage!ListAgrees /\ UsersPage!BoxAgrees
    /\ part = "settings" => AllUsersPage!TypeOK /\ AllUsersPage!ListAgrees
    /\ part = "colleagues" => ColleaguesForm!MeStays /\ ColleaguesForm!NotForbidden
    /\ part = "manager" => ManagersForm!CompanyRequired /\ ManagersForm!ErrorsOfForm
    /\ part = "seats" => SeatsPage!SeatsRespected
    /\ part = "saves" => SavesPage!DeletedStaysGone /\ SavesPage!NoLostUpdate
    /\ part = "asked" => SeatRequestPage!AskedOnce /\ SeatRequestPage!AskedPositive
    /\ part = "deletions" => DeletionsPage!TypeOK /\ DeletionsPage!DeletedStaysGone
    /\ part = "companies" => CompaniesPage!OwnSavesStay /\ CompaniesPage!AdministratorWorksThere
    /\ part = "denied" => DeniedSections!DeniedStays
    /\ part = "embeds" => EmbedsGranted!DownloadNeedsDisplay

(* Settings, reports and monitoring. What is typed stays in its form and out of the list; boxes and
   lists are the server's when the answers are in; a report's rows are those of the query shown,
   its next page can be reached, its export is what is shown and a failure ends the loading; a
   profile shows the time of its own schedule and the list is that of the chosen section
   (SettingsApp, CompanyReportsApp, MonitoringApp). *)
SettingsAgree ==
    /\ part = "products" => ProductsPage!TypeOK /\ ProductsPage!BoxesAreTheServers
          /\ ProductsPage!ListFresh
    /\ part = "reports" => ReportsPage!TypeOK /\ ReportsPage!LoadingEnds
    /\ part = "editing" => ProfileEditPage!TypeOK
    /\ part = "clients" => ClientsPage!TypedStaysInForm
    /\ part = "cards" => CardsPage!TypedStaysInForm
    /\ part = "rows" => RowsPage!RowsOfQuery
    /\ part = "scroll" => ScrollPage!MoreIsReachable /\ ScrollPage!ExportIsShown
    /\ part = "content" => ContentPage!Drawn
    /\ part = "schedules" => ProfileTimesPage!TimeShown
    /\ part = "lists" => ProfileListPage!ListSettles

(* What a save may not do. A user saved has every field as the form had it and nobody but an
   administrator changes what a user is; a save of a monitoring profile keeps the subscribers
   saved since, and a new column of a list is sorted upwards first (users/views.py,
   monitoring/views.py, UserActionBar). *)
SavesKeep == [][
    /\ part = "form" => FormPage!SavedAsOfferedStep
    /\ part = "manager" => ManagersForm!RoleKeptStep
    /\ part = "settings" => AllUsersPage!NewSortAscendsStep
    /\ part = "profiles" => ProfilesPage!SubscribersKeptStep]_all
================================================================================
