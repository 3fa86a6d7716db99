----------------------------- MODULE Entitlements -----------------------------
(***************************************************************************)
(* What a company and its users may see: the permissions tab of a company, *)
(* the sections and products of a user's form, and what the server makes   *)
(* of a save, the users of a saved company included.                       *)
(* Source: src/assets/companies/, src/assets/users/; the server side is    *)
(* newsroom/companies and newsroom/users.                                  *)
(***************************************************************************)
EXTENDS Naturals, FiniteSets

CONSTANTS
    Companies, Users, Sections, Products, None,
    SectionOf,      \* [Products -> Sections], the product types
    EmbedTypes,     \* kinds of embedded content
    MayEmpty,       \* a company may be saved without any section
    MaxSaves        \* bound

ConstantsOK ==
    /\ SectionOf \in [Products -> Sections]
    /\ None \notin Companies \cup Users \cup Sections \cup Products
    /\ EmbedTypes \subseteq {"picture", "sd_product"} /\ MaxSaves \in Nat

VARIABLES
    company,    \* server: [Companies -> [sections, products, limited, embeds]]
    user,       \* server: [Users -> [company, own, products, rev]]
    saving,     \* saves of companies that have read the company and not written it
    following,  \* companies written, whose users are to be read
    cascade,    \* users of such companies, as read, that are to be updated
    writing,    \* updates of users on their way, `base` the company as they read it
    cform,      \* the company being edited
    uform,      \* the user being edited, with the companies as the page has them
    saves,
    denied,     \* history: the sections switched off for a user by his last save
    overtaken,  \* history: users written from a company that was saved meanwhile
    configured  \* history: companies whose embeds somebody changed

serverVars == <<company, user, saving, following, cascade, writing, denied, overtaken>>
vars == <<serverVars, cform, uform, saves, configured>>

\* Own sections: none for a user who follows his company.
Follows == [s \in {} |-> FALSE]
On(own) == {s \in DOMAIN own : own[s]}
Toggle(set, x) == IF x \in set THEN set \ {x} ELSE set \cup {x}

-----------------------------------------------------------------------------
(* What a user may see: get_user_sections, and the products of a request. *)

Effective(u, c) == IF u.own = Follows THEN c.sections ELSE c.sections \cap On(u.own)
SectionsOf(u) == Effective(user[u], company[user[u].company])
VisibleProducts(u) ==
    {p \in user[u].products \cup (company[user[u].company].products \ company[user[u].company].limited) :
        SectionOf[p] \in SectionsOf(u)}

-----------------------------------------------------------------------------
(* The forms. *)

FormDefault(t) == CASE t = "picture" -> {"display"} [] t = "sd_product" -> {}
NewDefault(t) == CASE t = "picture" -> {"display", "download"} [] t = "sd_product" -> {}

ShownProducts(f) == {p \in f.products : SectionOf[p] \in f.sections}
Chosen(f, t) == IF t \in DOMAIN f.embeds THEN f.embeds[t] ELSE {}
Actions(f, t) == {"display"} \cup (IF t = "picture" /\ "display" \in Chosen(f, t) THEN {"download"} ELSE {})
\* What is not there yet and not in the default throws, and leaves the form.
ToggledEmbeds(f, t, a) ==
    LET now == IF t \in DOMAIN f.embeds THEN f.embeds[t] ELSE FormDefault(t)
        with(x) == [k \in DOMAIN f.embeds \cup {t} |-> IF k = t THEN x ELSE f.embeds[k]]
    IN  IF a \in now THEN with(now \ {a})
        ELSE IF t \in DOMAIN f.embeds THEN with(now \cup {a}) ELSE f.embeds

\* The page of the users has the companies as they were when it was opened.
FormCompany(f) == f.companies[f.company]
FormSections(f) == Effective(f, FormCompany(f))
FormProducts(f) ==
    {p \in FormCompany(f).products :
        SectionOf[p] \in FormSections(f) /\ (p \in f.products \/ p \notin FormCompany(f).limited)}

-----------------------------------------------------------------------------
(* The server. *)

ProductIds(c) == {p \in c.products : SectionOf[p] \in c.sections}
\* get_updated_sections and get_updated_products.
UpdatedSections(own, c) == [s \in DOMAIN own |-> own[s] /\ s \in c.sections]

UpdatedProducts(products, c) == products \cap ProductIds(c)
\* get_company_updates: nothing is replaced by what there was, or by everything.
SavedEmbeds(f, old) ==
    LET chosen == IF DOMAIN f.embeds # {} THEN f.embeds
                  ELSE IF old # None /\ DOMAIN old # {} THEN old
                  ELSE [t \in EmbedTypes |-> NewDefault(t)]
    IN  [t \in DOMAIN chosen |-> IF "display" \in chosen[t] THEN chosen[t] ELSE {}]

\* The company as a save makes it, that read it as `before`.
SavedCompany(f, before) ==
    [sections |-> f.sections, products |-> ShownProducts(f),
     limited |-> f.limited \cap ShownProducts(f), embeds |-> SavedEmbeds(f, before.embeds)]

\* Mutant: only the sections that are on are sent.
SentOn(f) == [s \in On(f.own) |-> TRUE]

\* The body of a save: only what is switched on, and nothing for a user without own sections.
Sent(f) == IF f.own = Follows THEN Follows ELSE [s \in Sections |-> s \in On(f.own)]

\* The users of a company that changed, as the cursor reads them for save n.
Cascade(n, c, after) ==
    {[n |-> n, user |-> u,
      own |-> IF user[u].own = Follows THEN Follows
              ELSE [s \in after.sections |-> s \in On(user[u].own)],
      products |-> user[u].products \cap ProductIds(after),
      off |-> {s \in Sections : <<u, s>> \in denied}]
        : u \in {v \in Users : user[v].company = c}}
\* Mutant: a change of the products alone is overlooked.
SectionsChanged(before, after) == before.sections # after.sections

Changed(before, after) ==
    before.sections # after.sections \/ ProductIds(before) # ProductIds(after)

-----------------------------------------------------------------------------
\* Companies that all have the same, and users of one of them who have of it what seats there are.
Init ==
    /\ \E ss \in SUBSET Sections, e \in IF EmbedTypes = {} THEN {Follows} ELSE {None, Follows} :
        \E ps \in SUBSET {p \in Products : SectionOf[p] \in ss} :
            /\ company = [c \in Companies |-> [sections |-> ss, products |-> ps, limited |-> ps, embeds |-> e]]
            /\ \E c \in Companies :
                user = [u \in Users |-> [company |-> c, own |-> Follows, products |-> ps, rev |-> 0]]
    /\ saving = {} /\ following = {} /\ cascade = {} /\ writing = {}
    /\ cform = None /\ uform = None /\ saves = 0
    /\ denied = {} /\ overtaken = {} /\ configured = {}

(* The administrator of the companies. *)

OpenCompany(c) ==
    /\ cform = None /\ saves < MaxSaves
    /\ cform' = [id |-> c, sections |-> company[c].sections, products |-> company[c].products,
                 limited |-> company[c].limited,
                 embeds |-> IF company[c].embeds = None THEN [t \in EmbedTypes |-> FormDefault(t)]
                                                        ELSE company[c].embeds]
    /\ UNCHANGED <<serverVars, uform, saves, configured>>

\* The products of a section that is switched off are hidden and kept.
ToggleSection(s) ==
    /\ cform # None
    /\ cform' = [cform EXCEPT !.sections = Toggle(@, s)]
    /\ UNCHANGED <<serverVars, uform, saves, configured>>

\* A product comes with unlimited seats.
ToggleProduct(p) ==
    /\ cform # None /\ SectionOf[p] \in cform.sections
    /\ cform' = [cform EXCEPT !.products = Toggle(@, p), !.limited = @ \ {p}]
    /\ UNCHANGED <<serverVars, uform, saves, configured>>

UpdateSeats(p) ==
    /\ cform # None /\ p \in ShownProducts(cform)
    /\ cform' = [cform EXCEPT !.limited = Toggle(@, p)]
    /\ UNCHANGED <<serverVars, uform, saves, configured>>

ToggleEmbed(t, a) ==
    /\ cform # None /\ t \in EmbedTypes /\ a \in Actions(cform, t)
    /\ cform' = [cform EXCEPT !.embeds = ToggledEmbeds(cform, t, a)]
    /\ configured' = configured \cup {cform.id}
    /\ UNCHANGED <<serverVars, uform, saves>>

\* The request reads the company it compares with (edit_company, service.update).
SaveCompany ==
    /\ cform # None /\ saves < MaxSaves
    /\ MayEmpty \/ cform.sections # {}
    /\ saving' = saving \cup {[n |-> saves, form |-> cform, before |-> company[cform.id]]}
    /\ cform' = None /\ saves' = saves + 1
    /\ UNCHANGED <<company, user, following, cascade, writing, uform, denied, overtaken, configured>>

\* The company is written, and its users follow when it differs from what was read. What another
\* save wrote in between is not compared with.
WriteCompany(t) ==
    LET c == t.form.id
        after == SavedCompany(t.form, t.before)
    IN  /\ company' = [company EXCEPT ![c] = after]
        /\ following' = IF Changed(t.before, after)
                        THEN following \cup {[n |-> t.n, id |-> c, after |-> after]} ELSE following
        /\ overtaken' = IF Changed(company[c], after) /\ ~ Changed(t.before, after)
                        THEN overtaken \cup {u \in Users : user[u].company = c} ELSE overtaken
        /\ saving' = saving \ {t}
        /\ UNCHANGED <<user, cascade, writing, cform, uform, saves, denied, configured>>

\* get_users_by_company.
ReadUsers(f) ==
    /\ cascade' = cascade \cup Cascade(f.n, f.id, f.after)
    /\ following' = following \ {f}
    /\ UNCHANGED <<company, user, saving, writing, cform, uform, saves, denied, overtaken, configured>>

\* The users of one save are updated one by one; each update reads its user again, for his company.
UpdateUser(x) ==
    /\ \A w \in writing : w.n # x.n
    /\ writing' = writing \cup {[n |-> x.n, user |-> x.user, company |-> user[x.user].company,
                                base |-> None, own |-> x.own, products |-> x.products,
                                off |-> x.off, form |-> None]}
    /\ cascade' = cascade \ {x}
    /\ UNCHANGED <<company, user, saving, following, cform, uform, saves, denied, overtaken, configured>>

(* The administrator of the users. *)

OpenUser(u) ==
    /\ uform = None /\ saves < MaxSaves
    /\ uform' = [id |-> u, rev |-> user[u].rev, company |-> user[u].company, own |-> user[u].own,
                 products |-> user[u].products, companies |-> company]
    /\ UNCHANGED <<serverVars, cform, saves, configured>>

\* The first change of a section writes down those of the company.
ToggleUserSection(s) ==
    /\ uform # None /\ s \in FormCompany(uform).sections
    /\ uform' = [uform EXCEPT !.own =
                    [x \in FormCompany(uform).sections \cup DOMAIN uform.own \cup {s} |->
                        IF x = s THEN s \notin FormSections(uform)
                        ELSE IF x \in DOMAIN uform.own THEN uform.own[x] ELSE TRUE]]
    /\ UNCHANGED <<serverVars, cform, saves, configured>>

\* A product with unlimited seats is shown as selected and can not be changed.
ToggleUserProduct(p) ==
    /\ uform # None /\ p \in FormCompany(uform).products \cap FormCompany(uform).limited
    /\ SectionOf[p] \in FormSections(uform)
    /\ uform' = [uform EXCEPT !.products = Toggle(@, p)]
    /\ UNCHANGED <<serverVars, cform, saves, configured>>

ChangeCompany(c) ==
    /\ uform # None /\ c # uform.company
    /\ uform' = [uform EXCEPT !.company = c, !.own = Follows]
    /\ UNCHANGED <<serverVars, cform, saves, configured>>

\* Refused when the user was written since the form was opened. Whatever is written after this
\* check does not refuse it.
SaveUser ==
    /\ uform # None /\ saves < MaxSaves
    /\ writing' = IF uform.rev = user[uform.id].rev
                  THEN writing \cup {[n |-> saves, user |-> uform.id, company |-> uform.company,
                                     base |-> None, own |-> Sent(uform), products |-> uform.products,
                                     off |-> {}, form |-> uform]}
                  ELSE writing
    /\ uform' = None /\ saves' = saves + 1
    /\ UNCHANGED <<company, user, saving, following, cascade, cform, denied, overtaken, configured>>

(* An update of a user: on_update, and the write. *)

ReadCompany(w) ==
    /\ w.base = None
    /\ writing' = (writing \ {w}) \cup {[w EXCEPT !.base = company[w.company]]}
    /\ UNCHANGED <<company, user, saving, following, cascade, cform, uform, saves, denied, overtaken,
                   configured>>

\* Only the save of a form moves the user.
NewCompany(w) == IF w.form = None THEN user[w.user].company ELSE w.company

Write(w) ==
    /\ w.base # None
    /\ user' = [user EXCEPT ![w.user] =
                    [company |-> NewCompany(w), own |-> UpdatedSections(w.own, w.base),
                     products |-> UpdatedProducts(w.products, w.base), rev |-> @.rev + 1]]
    /\ writing' = writing \ {w}
    /\ denied' = IF w.form = None
                 THEN {d \in denied : d[1] = w.user => d[2] \in w.off}
                 ELSE {d \in denied : d[1] # w.user} \cup
                      {<<w.user, s>> : s \in DOMAIN w.own \ On(w.own)}
    /\ overtaken' = IF w.base = company[NewCompany(w)]
                    THEN overtaken \ {w.user} ELSE overtaken \cup {w.user}
    /\ UNCHANGED <<company, saving, following, cascade, cform, uform, saves, configured>>

Next ==
    \/ \E c \in Companies : OpenCompany(c) \/ ChangeCompany(c)
    \/ \E s \in Sections : ToggleSection(s) \/ ToggleUserSection(s)
    \/ \E p \in Products : ToggleProduct(p) \/ UpdateSeats(p) \/ ToggleUserProduct(p)
    \/ \E t \in EmbedTypes, a \in {"display", "download"} : ToggleEmbed(t, a)
    \/ \E u \in Users : OpenUser(u)
    \/ \E t \in saving : WriteCompany(t)
    \/ \E f \in following : ReadUsers(f)
    \/ \E x \in cascade : UpdateUser(x)
    \/ \E w \in writing : ReadCompany(w) \/ Write(w)
    \/ SaveCompany \/ SaveUser

Spec == Init /\ [][Next]_vars

-----------------------------------------------------------------------------
\* The records have their shape, a company has products of its own sections only
\* and a form is that of somebody who exists.
TypeOK ==
    /\ \A c \in Companies : /\ company[c].sections \subseteq Sections
                            /\ company[c].limited \subseteq company[c].products
                            /\ company[c].products = ProductIds(company[c])
    /\ \A u \in Users : user[u].company \in Companies /\ DOMAIN user[u].own \subseteq Sections
    /\ cform # None => cform.id \in Companies
    /\ uform # None => uform.id \in Users /\ uform.company \in Companies

\* "This is the same logic as applied on the server side": what the form of a user
\* showed as switched on is what the user may see once it is saved, if the page had
\* the companies as they are and the company was not saved meanwhile.
FormTellsGrantStep ==
    \A w \in writing :
        Write(w) /\ w.form # None /\ w.form.companies = company /\ w.base = company[w.company] =>
            SectionsOf(w.user)' = FormSections(w.form) /\ VisibleProducts(w.user)' = FormProducts(w.form)
FormTellsGrant == [][FormTellsGrantStep]_vars

\* A user holds no product his company has not, once all saves and the updates they started are
\* done: forms opened before, moves between companies, cascades that run into each other and into
\* saves of the users included. Except for a user who was last written from a company that was
\* saved between the read and the write, or whose company was saved by two at once.
UserWithinCompany ==
    following = {} /\ cascade = {} /\ writing = {} =>
        \A u \in Users \ overtaken : user[u].products \subseteq ProductIds(company[user[u].company])

\* A section an administrator switched off for a user stays off, however the company
\* gains and loses sections and the saves run into each other, until an update writes what it
\* had read before the section was switched off.
DeniedStays == \A d \in denied : d[2] \notin SectionsOf(d[1])

\* Who can not see a kind of content can not download it.
DownloadNeedsDisplay ==
    \A c \in Companies : company[c].embeds # None =>
        \A t \in DOMAIN company[c].embeds :
            "download" \in company[c].embeds[t] => "display" \in company[c].embeds[t]

\* What the permissions may be relied on for, whatever administrators save, from forms of any age,
\* while the users of saved companies are updated one by one and other saves run in between.
PermissionsInv == TypeOK /\ UserWithinCompany /\ DownloadNeedsDisplay

=============================================================================
