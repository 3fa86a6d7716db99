-------------------------- MODULE EntitlementsProofs --------------------------
(* Proofs about what companies and their users may see, for any companies, users, sections
   and products, and any number of saves. *)
EXTENDS Entitlements, TLAPS

--------------------------------------------------------------------------------
(* The shape of the state. *)

\* A user's own sections, switched on or off, and the permissions of embedded content.
OwnSections == UNION {[S -> BOOLEAN] : S \in SUBSET Sections}
Permissions == UNION {[T -> SUBSET {"display", "download"}] : T \in SUBSET EmbedTypes}

CompanyData == [sections : SUBSET Sections, products : SUBSET Products, limited : SUBSET Products,
                embeds : Permissions \union {None}]
UserData == [company : Companies, own : OwnSections, products : SUBSET Products, rev : Nat]
Updates == [n : Nat, user : Users, own : OwnSections, products : SUBSET Products, off : SUBSET Sections]
CompanyForms == [id : Companies, sections : SUBSET Sections, products : SUBSET Products,
                 limited : SUBSET Products, embeds : Permissions]
UserForms == [id : Users, rev : Nat, company : Companies, own : OwnSections,
              products : SUBSET Products, companies : [Companies -> CompanyData]]

\* Saves and updates on their way.
CompanySaves == [n : Nat, form : CompanyForms, before : CompanyData]
CompanyChanges == [n : Nat, id : Companies, after : CompanyData]
Writes == [n : Nat, user : Users, company : Companies, base : CompanyData \union {None}, own : OwnSections,
           products : SUBSET Products, off : SUBSET Sections, form : UserForms \union {None}]

\* Every record has the fields it is read with.
RecordsOK ==
    /\ company \in [Companies -> CompanyData]
    /\ user \in [Users -> UserData]
    /\ saving \subseteq CompanySaves
    /\ following \subseteq CompanyChanges
    /\ cascade \subseteq Updates
    /\ writing \subseteq Writes
    /\ cform = None \/ cform \in CompanyForms
    /\ uform = None \/ uform \in UserForms
    /\ saves \in Nat
    /\ denied \subseteq Users \X Sections

LEMMA OwnSectionsType ==
    ASSUME NEW S \in SUBSET Sections, NEW g \in [S -> BOOLEAN]
    PROVE  g \in OwnSections
  BY DEF OwnSections

LEMMA FollowsType == Follows \in OwnSections
  <1>1. Follows \in [{} -> BOOLEAN]
    BY DEF Follows
  <1> QED
    BY <1>1, OwnSectionsType

LEMMA PermissionsType ==
    ASSUME NEW T \in SUBSET EmbedTypes, NEW g \in [T -> SUBSET {"display", "download"}]
    PROVE  g \in Permissions
  BY DEF Permissions

LEMMA DefaultTypes ==
    ASSUME ConstantsOK, NEW t \in EmbedTypes
    PROVE  /\ FormDefault(t) \in SUBSET {"display", "download"}
           /\ NewDefault(t) \in SUBSET {"display", "download"}
  BY DEF ConstantsOK, FormDefault, NewDefault

\* What a click makes of the permissions are permissions.
LEMMA ToggledType ==
    ASSUME ConstantsOK, NEW f, f.embeds \in Permissions, NEW t \in EmbedTypes,
           NEW a \in {"display", "download"}
    PROVE  ToggledEmbeds(f, t, a) \in Permissions
  <1> DEFINE now == IF t \in DOMAIN f.embeds THEN f.embeds[t] ELSE FormDefault(t)
             with(x) == [k \in DOMAIN f.embeds \union {t} |-> IF k = t THEN x ELSE f.embeds[k]]
  <1>1. PICK T \in SUBSET EmbedTypes : f.embeds \in [T -> SUBSET {"display", "download"}]
    BY DEF Permissions
  <1>2. now \in SUBSET {"display", "download"}
    BY <1>1, DefaultTypes
  <1>3. ASSUME NEW x \in SUBSET {"display", "download"} PROVE with(x) \in Permissions
    <2>1. with(x) \in [T \union {t} -> SUBSET {"display", "download"}]
      BY <1>1
    <2> QED
      BY <2>1, PermissionsType
  <1>4. with(now \ {a}) \in Permissions
    BY <1>2, <1>3
  <1>5. with(now \union {a}) \in Permissions
    BY <1>2, <1>3
  <1>6. ToggledEmbeds(f, t, a) = IF a \in now THEN with(now \ {a})
                                 ELSE IF t \in DOMAIN f.embeds THEN with(now \union {a}) ELSE f.embeds
    BY DEF ToggledEmbeds
  <1> QED
    BY <1>4, <1>5, <1>6

LEMMA SavedEmbedsType ==
    ASSUME ConstantsOK, NEW f \in CompanyForms, NEW old \in Permissions \union {None}
    PROVE  SavedEmbeds(f, old) \in Permissions
  <1> DEFINE chosen == IF DOMAIN f.embeds # {} THEN f.embeds
                       ELSE IF old # None /\ DOMAIN old # {} THEN old
                       ELSE [t \in EmbedTypes |-> NewDefault(t)]
  <1>1. chosen \in Permissions
    <2>1. [t \in EmbedTypes |-> NewDefault(t)] \in [EmbedTypes -> SUBSET {"display", "download"}]
      BY DefaultTypes
    <2>2. [t \in EmbedTypes |-> NewDefault(t)] \in Permissions
      BY <2>1, PermissionsType
    <2>3. f.embeds \in Permissions
      BY DEF CompanyForms
    <2> QED
      BY <2>2, <2>3
  <1>2. PICK T \in SUBSET EmbedTypes : chosen \in [T -> SUBSET {"display", "download"}]
    BY <1>1 DEF Permissions
  <1>3. SavedEmbeds(f, old) = [t \in DOMAIN chosen |-> IF "display" \in chosen[t] THEN chosen[t] ELSE {}]
    BY DEF SavedEmbeds
  <1> HIDE DEF chosen
  <1>4. SavedEmbeds(f, old) \in [T -> SUBSET {"display", "download"}]
    BY <1>2, <1>3
  <1> QED
    BY <1>4, PermissionsType

LEMMA SavedCompanyType ==
    ASSUME ConstantsOK, NEW f \in CompanyForms, NEW before \in CompanyData
    PROVE  SavedCompany(f, before) \in CompanyData
  <1>1. before.embeds \in Permissions \union {None}
    BY DEF CompanyData
  <1>2. SavedEmbeds(f, before.embeds) \in Permissions
    BY <1>1, SavedEmbedsType
  <1> QED
    BY <1>2 DEF SavedCompany, CompanyData, CompanyForms, ShownProducts

LEMMA UpdatedSectionsType ==
    ASSUME NEW own \in OwnSections, NEW c
    PROVE  UpdatedSections(own, c) \in OwnSections
  <1>1. PICK S \in SUBSET Sections : own \in [S -> BOOLEAN]
    BY DEF OwnSections
  <1>2. UpdatedSections(own, c) \in [S -> BOOLEAN]
    BY <1>1 DEF UpdatedSections
  <1> QED
    BY <1>2, OwnSectionsType

LEMMA SentType == ASSUME NEW f PROVE Sent(f) \in OwnSections
  <1>1. [s \in Sections |-> s \in On(f.own)] \in [Sections -> BOOLEAN]
    OBVIOUS
  <1> QED
    BY <1>1, FollowsType, OwnSectionsType DEF Sent

LEMMA CascadeType ==
    ASSUME RecordsOK, NEW n \in Nat, NEW c, NEW after \in CompanyData
    PROVE  Cascade(n, c, after) \subseteq Updates
  <1> SUFFICES ASSUME NEW u \in Users
               PROVE  [n |-> n, user |-> u,
                       own |-> IF user[u].own = Follows THEN Follows
                               ELSE [s \in after.sections |-> s \in On(user[u].own)],
                       products |-> user[u].products \cap ProductIds(after),
                       off |-> {s \in Sections : <<u, s>> \in denied}] \in Updates
    BY DEF Cascade
  <1>1. [s \in after.sections |-> s \in On(user[u].own)] \in [after.sections -> BOOLEAN]
    OBVIOUS
  <1>2. after.sections \in SUBSET Sections
    BY DEF CompanyData
  <1>3. [s \in after.sections |-> s \in On(user[u].own)] \in OwnSections
    BY <1>1, <1>2, OwnSectionsType
  <1>4. user[u].products \in SUBSET Products
    BY DEF RecordsOK, UserData
  <1> QED
    BY <1>3, <1>4, FollowsType DEF Updates

\* Companies that all have the same, and users who have what there are seats for.
LEMMA InitServer ==
    ASSUME Init
    PROVE  \E ss \in SUBSET Sections, e \in {None, Follows}, ps \in SUBSET Products, c \in Companies :
            /\ \A p \in ps : SectionOf[p] \in ss
            /\ company = [x \in Companies |-> [sections |-> ss, products |-> ps, limited |-> ps, embeds |-> e]]
            /\ user = [u \in Users |-> [company |-> c, own |-> Follows, products |-> ps, rev |-> 0]]
  <1>1. PICK ss \in SUBSET Sections, e \in (IF EmbedTypes = {} THEN {Follows} ELSE {None, Follows}) :
          \E ps \in SUBSET {p \in Products : SectionOf[p] \in ss} :
            /\ company = [c \in Companies |-> [sections |-> ss, products |-> ps, limited |-> ps, embeds |-> e]]
            /\ \E c \in Companies :
                user = [u \in Users |-> [company |-> c, own |-> Follows, products |-> ps, rev |-> 0]]
    BY DEF Init
  <1>2. PICK ps \in SUBSET {p \in Products : SectionOf[p] \in ss} :
            /\ company = [c \in Companies |-> [sections |-> ss, products |-> ps, limited |-> ps, embeds |-> e]]
            /\ \E c \in Companies :
                user = [u \in Users |-> [company |-> c, own |-> Follows, products |-> ps, rev |-> 0]]
    BY <1>1
  <1>3. PICK c \in Companies :
          user = [u \in Users |-> [company |-> c, own |-> Follows, products |-> ps, rev |-> 0]]
    BY <1>2
  <1>4. ps \in SUBSET Products /\ e \in {None, Follows} /\ \A p \in ps : SectionOf[p] \in ss
    OBVIOUS
  <1>5. company = [x \in Companies |-> [sections |-> ss, products |-> ps, limited |-> ps, embeds |-> e]]
    BY <1>2
  <1> QED
    BY <1>3, <1>4, <1>5, Zenon

LEMMA RecordsInit == ASSUME ConstantsOK, Init PROVE RecordsOK
  <1>1. PICK ss \in SUBSET Sections, e \in {None, Follows}, ps \in SUBSET Products, c \in Companies :
            /\ \A p \in ps : SectionOf[p] \in ss
            /\ company = [x \in Companies |-> [sections |-> ss, products |-> ps, limited |-> ps, embeds |-> e]]
            /\ user = [u \in Users |-> [company |-> c, own |-> Follows, products |-> ps, rev |-> 0]]
    BY InitServer
  <1>2. company \in [Companies -> CompanyData]
    <2>1. Follows \in [{} -> SUBSET {"display", "download"}]
      BY DEF Follows
    <2>2. Follows \in Permissions
      BY <2>1, PermissionsType
    <2>3. e \in Permissions \union {None}
      BY <2>2
    <2>4. [sections |-> ss, products |-> ps, limited |-> ps, embeds |-> e] \in CompanyData
      BY <2>3 DEF CompanyData
    <2> QED
      BY <1>1, <2>4
  <1>3. user \in [Users -> UserData]
    <2>1. [company |-> c, own |-> Follows, products |-> ps, rev |-> 0] \in UserData
      BY FollowsType DEF UserData
    <2> QED
      BY <1>1, <2>1
  <1> QED
    BY <1>2, <1>3 DEF Init, RecordsOK

\* The steps of a save, which change what the server has.
LEMMA RecordsSaveCompany == ASSUME ConstantsOK, RecordsOK, SaveCompany PROVE RecordsOK'
  <1>1. cform \in CompanyForms
    BY DEF SaveCompany, RecordsOK
  <1>2. company[cform.id] \in CompanyData
    BY <1>1 DEF RecordsOK, CompanyForms
  <1>3. saves \in Nat /\ saves + 1 \in Nat
    BY DEF RecordsOK
  <1>4. [n |-> saves, form |-> cform, before |-> company[cform.id]] \in CompanySaves
    BY <1>1, <1>2, <1>3 DEF CompanySaves
  <1> QED
    BY <1>3, <1>4 DEF SaveCompany, RecordsOK

LEMMA RecordsWriteCompany ==
    ASSUME ConstantsOK, RecordsOK, NEW t \in saving, WriteCompany(t) PROVE RecordsOK'
  <1> DEFINE after == SavedCompany(t.form, t.before)
  <1>1. t \in CompanySaves
    BY DEF RecordsOK
  <1>2. t.n \in Nat /\ t.form \in CompanyForms /\ t.before \in CompanyData /\ t.form.id \in Companies
    BY <1>1 DEF CompanySaves, CompanyForms
  <1>3. after \in CompanyData
    BY <1>2, SavedCompanyType
  <1>4. /\ company' = [company EXCEPT ![t.form.id] = after]
        /\ following' \in {following, following \union {[n |-> t.n, id |-> t.form.id, after |-> after]}}
        /\ saving' \subseteq saving
    BY DEF WriteCompany
  <1> HIDE DEF after
  <1>5. company' \in [Companies -> CompanyData]
    BY <1>3, <1>4 DEF RecordsOK
  <1>6. following' \subseteq CompanyChanges
    BY <1>2, <1>3, <1>4 DEF RecordsOK, CompanyChanges
  <1> QED
    BY <1>4, <1>5, <1>6 DEF WriteCompany, RecordsOK

LEMMA RecordsReadUsers ==
    ASSUME ConstantsOK, RecordsOK, NEW f \in following, ReadUsers(f) PROVE RecordsOK'
  <1>1. f.n \in Nat /\ f.after \in CompanyData
    BY DEF RecordsOK, CompanyChanges
  <1>2. cascade' \subseteq Updates
    BY <1>1, CascadeType DEF ReadUsers, RecordsOK
  <1> QED
    BY <1>2 DEF ReadUsers, RecordsOK

LEMMA RecordsUpdateUser ==
    ASSUME ConstantsOK, RecordsOK, NEW x \in cascade, UpdateUser(x) PROVE RecordsOK'
  <1>1. x \in Updates
    BY DEF RecordsOK
  <1>2. user[x.user].company \in Companies
    BY <1>1 DEF RecordsOK, Updates, UserData
  <1>3. [n |-> x.n, user |-> x.user, company |-> user[x.user].company, base |-> None, own |-> x.own,
         products |-> x.products, off |-> x.off, form |-> None] \in Writes
    BY <1>1, <1>2 DEF Updates, Writes
  <1> QED
    BY <1>3 DEF UpdateUser, RecordsOK

LEMMA RecordsSaveUser == ASSUME ConstantsOK, RecordsOK, SaveUser PROVE RecordsOK'
  <1>1. uform \in UserForms
    BY DEF SaveUser, RecordsOK
  <1>2. saves \in Nat /\ saves + 1 \in Nat
    BY DEF RecordsOK
  <1>3. [n |-> saves, user |-> uform.id, company |-> uform.company, base |-> None, own |-> Sent(uform),
         products |-> uform.products, off |-> {}, form |-> uform] \in Writes
    BY <1>1, <1>2, SentType DEF UserForms, Writes
  <1>4. writing' \subseteq Writes
    BY <1>3 DEF SaveUser, RecordsOK
  <1> QED
    BY <1>2, <1>4 DEF SaveUser, RecordsOK

LEMMA RecordsReadCompany ==
    ASSUME ConstantsOK, RecordsOK, NEW w \in writing, ReadCompany(w) PROVE RecordsOK'
  <1>1. w \in Writes /\ company[w.company] \in CompanyData
    BY DEF RecordsOK, Writes
  <1>2. [w EXCEPT !.base = company[w.company]] \in Writes
    BY <1>1 DEF Writes
  <1> QED
    BY <1>2 DEF ReadCompany, RecordsOK

\* What a write makes of the user it is for, and of nobody else.
LEMMA Written ==
    ASSUME RecordsOK, NEW w \in writing, Write(w)
    PROVE  /\ w \in Writes /\ w.user \in Users /\ w.base \in CompanyData /\ NewCompany(w) \in Companies
           /\ user'[w.user].company = NewCompany(w)
           /\ user'[w.user].own = UpdatedSections(w.own, w.base)
           /\ user'[w.user].products = w.products \cap ProductIds(w.base)
           /\ user'[w.user].rev = user[w.user].rev + 1
           /\ user'[w.user] = [company |-> user'[w.user].company, own |-> user'[w.user].own,
                               products |-> user'[w.user].products, rev |-> user'[w.user].rev]
           /\ \A v \in Users : v # w.user => user'[v] = user[v]
           /\ DOMAIN user' = Users
           /\ company' = company
  <1>1. w \in Writes
    BY DEF RecordsOK
  <1>2. w.user \in Users /\ w.base \in CompanyData
    BY <1>1 DEF Writes, Write
  <1>3. NewCompany(w) \in Companies
    BY <1>1, <1>2 DEF Writes, NewCompany, RecordsOK, UserData
  <1>4. DOMAIN user = Users
    BY DEF RecordsOK
  <1>5. user'[w.user] = [company |-> NewCompany(w), own |-> UpdatedSections(w.own, w.base),
                         products |-> UpdatedProducts(w.products, w.base), rev |-> user[w.user].rev + 1]
    BY <1>2, <1>4 DEF Write
  <1>6. (\A v \in Users : v # w.user => user'[v] = user[v]) /\ DOMAIN user' = Users /\ company' = company
    BY <1>4 DEF Write
  <1> QED
    BY <1>1, <1>2, <1>3, <1>5, <1>6 DEF UpdatedProducts

LEMMA RecordsWrite ==
    ASSUME ConstantsOK, RecordsOK, NEW w \in writing, Write(w) PROVE RecordsOK'
  <1>1. w.own \in OwnSections /\ w.products \in SUBSET Products
    BY DEF RecordsOK, Writes
  <1>2. UpdatedSections(w.own, w.base) \in OwnSections
    BY <1>1, UpdatedSectionsType
  <1>3. user[w.user].rev + 1 \in Nat
    <2>1. w.user \in Users
      BY Written
    <2>2. user[w.user] \in UserData
      BY <2>1 DEF RecordsOK
    <2> QED
      BY <2>2 DEF UserData
  <1>4. user'[w.user] \in UserData
    <2> DEFINE r == user'[w.user]
    <2>1. r.company \in Companies /\ r.own \in OwnSections /\ r.products \in SUBSET Products /\ r.rev \in Nat
      BY <1>1, <1>2, <1>3, Written
    <2>2. r = [company |-> r.company, own |-> r.own, products |-> r.products, rev |-> r.rev]
      BY Written
    <2> HIDE DEF r
    <2>3. r \in UserData
      BY <2>1, <2>2 DEF UserData
    <2> QED
      BY <2>3 DEF r
  <1>5. user' \in [Users -> UserData]
    <2>1. \A v \in Users : user'[v] \in UserData
      BY <1>4, Written DEF RecordsOK
    <2>2. user' = [v \in Users |-> user'[v]]
      BY Written DEF Write, RecordsOK
    <2> QED
      BY <2>1, <2>2
  <1>6. denied' \subseteq Users \X Sections
    <2>1. PICK S \in SUBSET Sections : w.own \in [S -> BOOLEAN]
      BY <1>1 DEF OwnSections
    <2>2. DOMAIN w.own \subseteq Sections /\ w.user \in Users
      BY <2>1, Written
    <2>3. {<<w.user, s>> : s \in DOMAIN w.own \ On(w.own)} \subseteq Users \X Sections
      BY <2>2
    <2>4. denied \subseteq Users \X Sections
      BY DEF RecordsOK
    <2> QED
      BY <2>3, <2>4 DEF Write
  <1> QED
    BY <1>5, <1>6 DEF Write, RecordsOK

LEMMA RecordsNext == ASSUME ConstantsOK, RecordsOK, [Next]_vars PROVE RecordsOK'
  <1>1. ASSUME NEW c \in Companies, OpenCompany(c) PROVE RecordsOK'
    <2>1. company[c] \in CompanyData
      BY DEF RecordsOK
    <2>2. [t \in EmbedTypes |-> FormDefault(t)] \in [EmbedTypes -> SUBSET {"display", "download"}]
      BY DefaultTypes
    <2>3. [t \in EmbedTypes |-> FormDefault(t)] \in Permissions
      BY <2>2, PermissionsType
    <2>4. cform' \in CompanyForms
      BY <1>1, <2>1, <2>3 DEF OpenCompany, CompanyForms, CompanyData
    <2> QED
      BY <1>1, <2>4 DEF OpenCompany, serverVars, RecordsOK
  <1>2. ASSUME NEW s \in Sections, ToggleSection(s) PROVE RecordsOK'
    <2>1. cform' \in CompanyForms
      BY <1>2 DEF ToggleSection, Toggle, RecordsOK, CompanyForms
    <2> QED
      BY <1>2, <2>1 DEF ToggleSection, serverVars, RecordsOK
  <1>3. ASSUME NEW p \in Products, ToggleProduct(p) PROVE RecordsOK'
    <2>1. cform' \in CompanyForms
      BY <1>3 DEF ToggleProduct, Toggle, RecordsOK, CompanyForms
    <2> QED
      BY <1>3, <2>1 DEF ToggleProduct, serverVars, RecordsOK
  <1>4. ASSUME NEW p \in Products, UpdateSeats(p) PROVE RecordsOK'
    <2>1. cform' \in CompanyForms
      BY <1>4 DEF UpdateSeats, Toggle, RecordsOK, CompanyForms
    <2> QED
      BY <1>4, <2>1 DEF UpdateSeats, serverVars, RecordsOK
  <1>5. ASSUME NEW t \in EmbedTypes, NEW a \in {"display", "download"}, ToggleEmbed(t, a) PROVE RecordsOK'
    <2>1. cform \in CompanyForms
      BY <1>5 DEF ToggleEmbed, RecordsOK
    <2>2. ToggledEmbeds(cform, t, a) \in Permissions
      BY <2>1, ToggledType DEF CompanyForms
    <2>3. cform' \in CompanyForms
      BY <1>5, <2>1, <2>2 DEF ToggleEmbed, CompanyForms
    <2> QED
      BY <1>5, <2>3 DEF ToggleEmbed, serverVars, RecordsOK
  <1>6. ASSUME NEW u \in Users, OpenUser(u) PROVE RecordsOK'
    <2>1. uform' \in UserForms
      BY <1>6 DEF OpenUser, RecordsOK, UserForms, UserData
    <2> QED
      BY <1>6, <2>1 DEF OpenUser, serverVars, RecordsOK
  <1>7. ASSUME NEW s \in Sections, ToggleUserSection(s) PROVE RecordsOK'
    <2>1. uform \in UserForms /\ FormCompany(uform).sections \in SUBSET Sections
      BY <1>7 DEF ToggleUserSection, RecordsOK, UserForms, FormCompany, CompanyData
    <2>2. PICK S \in SUBSET Sections : uform.own \in [S -> BOOLEAN]
      BY <2>1 DEF UserForms, OwnSections
    <2> DEFINE T == FormCompany(uform).sections \union DOMAIN uform.own \union {s}
               own == [x \in T |-> IF x = s THEN s \notin FormSections(uform)
                                   ELSE IF x \in DOMAIN uform.own THEN uform.own[x] ELSE TRUE]
    <2>3. T \in SUBSET Sections
      BY <2>1, <2>2
    <2>4. uform' = [uform EXCEPT !.own = own]
      BY <1>7 DEF ToggleUserSection
    <2> HIDE DEF T
    <2>5. own \in [T -> BOOLEAN]
      BY <2>2
    <2> HIDE DEF own
    <2>6. own \in OwnSections
      BY <2>3, <2>5, OwnSectionsType
    <2>7. uform' \in UserForms
      BY <2>1, <2>4, <2>6 DEF UserForms
    <2> QED
      BY <1>7, <2>7 DEF ToggleUserSection, serverVars, RecordsOK
  <1>8. ASSUME NEW p \in Products, ToggleUserProduct(p) PROVE RecordsOK'
    <2>1. uform' \in UserForms
      BY <1>8 DEF ToggleUserProduct, Toggle, RecordsOK, UserForms
    <2> QED
      BY <1>8, <2>1 DEF ToggleUserProduct, serverVars, RecordsOK
  <1>9. ASSUME NEW c \in Companies, ChangeCompany(c) PROVE RecordsOK'
    <2>1. uform' \in UserForms
      BY <1>9, FollowsType DEF ChangeCompany, RecordsOK, UserForms
    <2> QED
      BY <1>9, <2>1 DEF ChangeCompany, serverVars, RecordsOK
  <1>10. CASE UNCHANGED vars
    BY <1>10 DEF vars, serverVars, RecordsOK
  <1> QED
    BY <1>1, <1>2, <1>3, <1>4, <1>5, <1>6, <1>7, <1>8, <1>9, <1>10, RecordsSaveCompany,
       RecordsWriteCompany, RecordsReadUsers, RecordsUpdateUser, RecordsSaveUser, RecordsReadCompany,
       RecordsWrite DEF Next

--------------------------------------------------------------------------------
(* What the server has of a company. *)

\* Only the steps of saves change what the server has.
LEMMA ServerSteps ==
    ASSUME [Next]_vars
    PROVE  \/ SaveCompany
           \/ SaveUser
           \/ \E t \in saving : WriteCompany(t)
           \/ \E f \in following : ReadUsers(f)
           \/ \E x \in cascade : UpdateUser(x)
           \/ \E w \in writing : ReadCompany(w)
           \/ \E w \in writing : Write(w)
           \/ UNCHANGED serverVars
  BY DEF Next, vars, OpenCompany, ChangeCompany, ToggleSection, ToggleUserSection, ToggleProduct,
         UpdateSeats, ToggleUserProduct, ToggleEmbed, OpenUser

\* A company changes when it is written, and in no other step.
LEMMA CompanySteps ==
    ASSUME [Next]_vars
    PROVE  company' = company \/ \E t \in saving : WriteCompany(t)
  BY ServerSteps DEF SaveCompany, SaveUser, ReadUsers, UpdateUser, ReadCompany, Write, serverVars

\* A company's products are of its own sections, and those with limited seats among them.
OwnProducts ==
    \A c \in Companies : /\ company[c].limited \subseteq company[c].products
                         /\ company[c].products = ProductIds(company[c])

LEMMA SavedCompanyOwn ==
    ASSUME NEW f, NEW before
    PROVE  /\ SavedCompany(f, before).limited \subseteq SavedCompany(f, before).products
           /\ SavedCompany(f, before).products = ProductIds(SavedCompany(f, before))
           /\ SavedCompany(f, before).sections = f.sections
  BY DEF SavedCompany, ShownProducts, ProductIds

\* Whichever company is written, the other companies stay as they were.
LEMMA WriteCompanySteps ==
    ASSUME RecordsOK, NEW t \in saving, WriteCompany(t)
    PROVE  /\ t \in CompanySaves /\ t.form.id \in Companies
           /\ \A c \in Companies :
                company'[c] = IF c = t.form.id THEN SavedCompany(t.form, t.before) ELSE company[c]
  <1>1. t \in CompanySaves /\ t.form.id \in Companies
    BY DEF RecordsOK, CompanySaves, CompanyForms
  <1>2. company' = [company EXCEPT ![t.form.id] = SavedCompany(t.form, t.before)]
    BY DEF WriteCompany
  <1>3. DOMAIN company = Companies
    BY DEF RecordsOK
  <1> QED
    BY <1>1, <1>2, <1>3

LEMMA OwnProductsNext ==
    ASSUME RecordsOK, OwnProducts, [Next]_vars PROVE OwnProducts'
  <1>1. ASSUME NEW t \in saving, WriteCompany(t) PROVE OwnProducts'
    <2> SUFFICES ASSUME NEW c \in Companies
                 PROVE  /\ company'[c].limited \subseteq company'[c].products
                        /\ company'[c].products = ProductIds(company'[c])
      BY DEF OwnProducts, ProductIds
    <2>1. company'[c] = IF c = t.form.id THEN SavedCompany(t.form, t.before) ELSE company[c]
      BY <1>1, WriteCompanySteps
    <2> QED
      BY <2>1, SavedCompanyOwn DEF OwnProducts
  <1>2. CASE company' = company
    BY <1>2 DEF OwnProducts, ProductIds
  <1> QED
    BY <1>1, <1>2, CompanySteps

\* TypeOK follows from the shape of the records and the products.
LEMMA TypeOKHolds == ASSUME RecordsOK, OwnProducts PROVE TypeOK
  <1>1. \A c \in Companies : company[c].sections \subseteq Sections
    BY DEF RecordsOK, CompanyData
  <1>2. ASSUME NEW u \in Users PROVE user[u].company \in Companies /\ DOMAIN user[u].own \subseteq Sections
    BY DEF RecordsOK, UserData, OwnSections
  <1>3. cform # None => cform.id \in Companies
    BY DEF RecordsOK, CompanyForms
  <1>4. uform # None => uform.id \in Users /\ uform.company \in Companies
    BY DEF RecordsOK, UserForms
  <1> QED
    BY <1>1, <1>2, <1>3, <1>4 DEF TypeOK, OwnProducts

LEMMA OwnProductsInit == ASSUME Init PROVE OwnProducts
  <1>1. PICK ss \in SUBSET Sections, e \in {None, Follows}, ps \in SUBSET Products, c \in Companies :
            /\ \A p \in ps : SectionOf[p] \in ss
            /\ company = [x \in Companies |-> [sections |-> ss, products |-> ps, limited |-> ps, embeds |-> e]]
            /\ user = [u \in Users |-> [company |-> c, own |-> Follows, products |-> ps, rev |-> 0]]
    BY InitServer
  <1> QED
    BY <1>1 DEF OwnProducts, ProductIds

(***************************************************************************)
(* The records have their shape; whatever is saved and however a cascade   *)
(* runs, a company has products of its own sections only, and a form is    *)
(* that of a company or a user there is (get_company_updates).             *)
(***************************************************************************)
THEOREM TypeCorrect == ASSUME ConstantsOK PROVE Spec => []TypeOK
  <1> DEFINE IInv == RecordsOK /\ OwnProducts
  <1>1. Init => IInv
    BY RecordsInit, OwnProductsInit
  <1>2. IInv /\ [Next]_vars => IInv'
    BY RecordsNext, OwnProductsNext
  <1>3. IInv => TypeOK
    BY TypeOKHolds
  <1> HIDE DEF IInv
  <1> QED
    BY <1>1, <1>2, <1>3, PTL DEF Spec

--------------------------------------------------------------------------------
(* Embedded content. *)

LEMMA SavedEmbedsShown ==
    ASSUME NEW f, NEW old, NEW t \in DOMAIN SavedEmbeds(f, old), "download" \in SavedEmbeds(f, old)[t]
    PROVE  "display" \in SavedEmbeds(f, old)[t]
  BY DEF SavedEmbeds

LEMMA DownloadNext ==
    ASSUME RecordsOK, DownloadNeedsDisplay, [Next]_vars PROVE DownloadNeedsDisplay'
  <1>1. ASSUME NEW t \in saving, WriteCompany(t) PROVE DownloadNeedsDisplay'
    <2> SUFFICES ASSUME NEW c \in Companies, company'[c].embeds # None,
                        NEW k \in DOMAIN company'[c].embeds, "download" \in company'[c].embeds[k]
                 PROVE  "display" \in company'[c].embeds[k]
      BY DEF DownloadNeedsDisplay
    <2>1. CASE c = t.form.id
      <3>0. company'[c] = SavedCompany(t.form, t.before)
        BY <1>1, <2>1, WriteCompanySteps
      <3>1. company'[c].embeds = SavedEmbeds(t.form, t.before.embeds)
        BY <3>0 DEF SavedCompany
      <3>2. k \in DOMAIN SavedEmbeds(t.form, t.before.embeds)
            /\ "download" \in SavedEmbeds(t.form, t.before.embeds)[k]
        BY <3>1
      <3>3. "display" \in SavedEmbeds(t.form, t.before.embeds)[k]
        BY <3>2, SavedEmbedsShown
      <3> QED
        BY <3>1, <3>3
    <2>2. CASE c # t.form.id
      BY <1>1, <2>2, WriteCompanySteps DEF DownloadNeedsDisplay
    <2> QED
      BY <2>1, <2>2
  <1>2. CASE company' = company
    BY <1>2 DEF DownloadNeedsDisplay
  <1> QED
    BY <1>1, <1>2, CompanySteps

LEMMA DownloadInit == ASSUME Init PROVE DownloadNeedsDisplay
  <1>1. PICK ss \in SUBSET Sections, e \in {None, Follows}, ps \in SUBSET Products, c \in Companies :
            /\ \A p \in ps : SectionOf[p] \in ss
            /\ company = [x \in Companies |-> [sections |-> ss, products |-> ps, limited |-> ps, embeds |-> e]]
            /\ user = [u \in Users |-> [company |-> c, own |-> Follows, products |-> ps, rev |-> 0]]
    BY InitServer
  <1>2. DOMAIN Follows = {}
    BY DEF Follows
  <1> QED
    BY <1>1, <1>2 DEF DownloadNeedsDisplay

(***************************************************************************)
(* Whatever boxes of the permissions tab are ticked and saved, by form     *)
(* after form, who can not see a kind of content can not download it.      *)
(***************************************************************************)
THEOREM DownloadsAreShown == ASSUME ConstantsOK PROVE Spec => []DownloadNeedsDisplay
  <1> DEFINE IInv == RecordsOK /\ DownloadNeedsDisplay
  <1>1. Init => IInv
    BY RecordsInit, DownloadInit
  <1>2. IInv /\ [Next]_vars => IInv'
    BY RecordsNext, DownloadNext
  <1>3. IInv => DownloadNeedsDisplay
    OBVIOUS
  <1> HIDE DEF IInv
  <1> QED
    BY <1>1, <1>2, <1>3, PTL DEF Spec

--------------------------------------------------------------------------------
(* The users of a company. *)

\* Whoever has a product his company has not is still to be updated, unless his last update
\* and a save of his company ran into each other.
CoveredUser(u) ==
    \/ user[u].products \subseteq ProductIds(company[user[u].company])
    \/ u \in overtaken
    \/ \E f \in following : f.id = user[u].company
    \/ \E x \in cascade : x.user = u
    \/ \E w \in writing : w.user = u
Covered == \A u \in Users : CoveredUser(u)

LEMMA CoveredNext == ASSUME RecordsOK, Covered, [Next]_vars PROVE Covered'
  <1> SUFFICES ASSUME NEW u \in Users PROVE CoveredUser(u)'
    BY DEF Covered
  <1>0. user[u].company \in Companies /\ CoveredUser(u)
    BY DEF RecordsOK, UserData, Covered
  <1>1. ASSUME NEW t \in saving, WriteCompany(t) PROVE CoveredUser(u)'
    <2> DEFINE c == t.form.id
               after == SavedCompany(t.form, t.before)
    <2>1. company'[user[u].company] = IF user[u].company = c THEN after ELSE company[user[u].company]
      BY <1>0, <1>1, WriteCompanySteps
    <2>2. /\ user' = user /\ cascade' = cascade /\ writing' = writing
          /\ following \subseteq following' /\ overtaken \subseteq overtaken'
      BY <1>1 DEF WriteCompany
    <2>3. CASE user[u].company # c
      <3>1. company'[user[u].company] = company[user[u].company]
        BY <2>1, <2>3
      <3> QED
        BY <1>0, <2>2, <3>1 DEF CoveredUser, ProductIds
    <2>4. CASE user[u].company = c /\ Changed(t.before, after)
      <3>1. [n |-> t.n, id |-> c, after |-> after] \in following'
        BY <1>1, <2>4 DEF WriteCompany
      <3>2. [n |-> t.n, id |-> c, after |-> after].id = c
        OBVIOUS
      <3>3. \E f \in following' : f.id = user'[u].company
        BY <2>2, <2>4, <3>1, <3>2
      <3> QED
        BY <3>3 DEF CoveredUser
    <2>5. CASE user[u].company = c /\ ~ Changed(t.before, after) /\ Changed(company[c], after)
      <3>1. u \in overtaken'
        BY <1>1, <2>5 DEF WriteCompany
      <3> QED
        BY <3>1 DEF CoveredUser
    <2>6. CASE user[u].company = c /\ ~ Changed(company[c], after)
      <3>1. ProductIds(company'[user[u].company]) = ProductIds(company[user[u].company])
        BY <2>1, <2>6 DEF Changed
      <3> QED
        BY <1>0, <2>2, <3>1 DEF CoveredUser, ProductIds
    <2> QED
      BY <2>3, <2>4, <2>5, <2>6
  <1>2. ASSUME NEW f \in following, ReadUsers(f) PROVE CoveredUser(u)'
    <2>1. /\ user' = user /\ company' = company /\ writing' = writing /\ overtaken' = overtaken
          /\ cascade' = cascade \union Cascade(f.n, f.id, f.after) /\ following' = following \ {f}
      BY <1>2 DEF ReadUsers
    <2>2. CASE f.id = user[u].company
      <3> DEFINE x == [n |-> f.n, user |-> u,
                       own |-> IF user[u].own = Follows THEN Follows
                               ELSE [s \in f.after.sections |-> s \in On(user[u].own)],
                       products |-> user[u].products \cap ProductIds(f.after),
                       off |-> {s \in Sections : <<u, s>> \in denied}]
      <3>0. x \in Cascade(f.n, f.id, f.after)
        BY <2>2 DEF Cascade
      <3>1. \E y \in Cascade(f.n, f.id, f.after) : y.user = u
        BY <3>0
      <3> QED
        BY <2>1, <3>1 DEF CoveredUser
    <2>3. CASE f.id # user[u].company
      BY <1>0, <2>1, <2>3 DEF CoveredUser, ProductIds
    <2> QED
      BY <2>2, <2>3
  <1>3. ASSUME NEW x \in cascade, UpdateUser(x) PROVE CoveredUser(u)'
    <2> DEFINE w == [n |-> x.n, user |-> x.user, company |-> user[x.user].company, base |-> None,
                     own |-> x.own, products |-> x.products, off |-> x.off, form |-> None]
    <2>1. /\ user' = user /\ company' = company /\ overtaken' = overtaken /\ following' = following
          /\ cascade' = cascade \ {x} /\ writing' = writing \union {w}
      BY <1>3 DEF UpdateUser
    <2>2. w.user = x.user
      OBVIOUS
    <2> HIDE DEF w
    <2>3. \E y \in writing' : y.user = x.user
      BY <2>1, <2>2
    <2> QED
      BY <1>0, <2>1, <2>3 DEF CoveredUser, ProductIds
  <1>4. ASSUME NEW w \in writing, ReadCompany(w) PROVE CoveredUser(u)'
    <2> DEFINE read == [w EXCEPT !.base = company[w.company]]
    <2>1. /\ user' = user /\ company' = company /\ overtaken' = overtaken /\ following' = following
          /\ cascade' = cascade /\ writing' = (writing \ {w}) \union {read}
      BY <1>4 DEF ReadCompany
    <2>2. read.user = w.user
      BY DEF RecordsOK, Writes
    <2> HIDE DEF read
    <2> QED
      BY <1>0, <2>1, <2>2 DEF CoveredUser, ProductIds
  <1>5. ASSUME NEW w \in writing, Write(w) PROVE CoveredUser(u)'
    <2>1. CASE w.user = u /\ w.base = company[NewCompany(w)]
      <3>1. user'[u].products \subseteq ProductIds(company'[user'[u].company])
        BY <1>5, <2>1, Written
      <3> QED
        BY <3>1 DEF CoveredUser, ProductIds
    <2>2. CASE w.user = u /\ w.base # company[NewCompany(w)]
      <3>1. u \in overtaken'
        BY <1>5, <2>2 DEF Write
      <3> QED
        BY <3>1 DEF CoveredUser
    <2>3. CASE w.user # u
      <3>1. user'[u] = user[u] /\ company' = company
        BY <1>5, <2>3, Written
      <3>2. /\ following' = following /\ cascade' = cascade /\ writing' = writing \ {w}
            /\ u \in overtaken => u \in overtaken'
        BY <1>5, <2>3 DEF Write
      <3> QED
        BY <1>0, <2>3, <3>1, <3>2 DEF CoveredUser, ProductIds
    <2> QED
      BY <2>1, <2>2, <2>3
  <1>6. CASE SaveUser \/ SaveCompany \/ UNCHANGED serverVars
    <2>1. /\ user' = user /\ company' = company /\ overtaken' = overtaken /\ following' = following
          /\ cascade' = cascade /\ writing \subseteq writing'
      BY <1>6 DEF SaveUser, SaveCompany, serverVars
    <2> QED
      BY <1>0, <2>1 DEF CoveredUser, ProductIds
  <1> QED
    BY <1>1, <1>2, <1>3, <1>4, <1>5, <1>6, ServerSteps

LEMMA CoveredInit == ASSUME ConstantsOK, Init PROVE Covered
  <1>1. PICK ss \in SUBSET Sections, e \in {None, Follows}, ps \in SUBSET Products, c \in Companies :
            /\ \A p \in ps : SectionOf[p] \in ss
            /\ company = [x \in Companies |-> [sections |-> ss, products |-> ps, limited |-> ps, embeds |-> e]]
            /\ user = [u \in Users |-> [company |-> c, own |-> Follows, products |-> ps, rev |-> 0]]
    BY InitServer
  <1>2. company[c].products = ps /\ company[c].sections = ss
    BY <1>1
  <1>3. ASSUME NEW u \in Users PROVE user[u].products = ps /\ user[u].company = c
    BY <1>1
  <1>4. ProductIds(company[c]) = ps
    BY <1>1, <1>2 DEF ProductIds
  <1> QED
    BY <1>3, <1>4 DEF Covered, CoveredUser

(***************************************************************************)
(* Forms opened before, users who move, cascades that update their users   *)
(* one by one, each reading its company and writing later, and saves that  *)
(* run into each other: when all of them are done, a user holds no product *)
(* his company has not, unless the company was saved between the read and  *)
(* the write of his last update, or saved by two at once                   *)
(* (CompanyService.on_updated, UsersService.on_update).                    *)
(***************************************************************************)
THEOREM UsersStayWithinCompany == ASSUME ConstantsOK PROVE Spec => []UserWithinCompany
  <1> DEFINE IInv == RecordsOK /\ Covered
  <1>1. Init => IInv
    BY RecordsInit, CoveredInit
  <1>2. IInv /\ [Next]_vars => IInv'
    BY RecordsNext, CoveredNext
  <1>3. IInv => UserWithinCompany
    BY DEF Covered, CoveredUser, UserWithinCompany
  <1> HIDE DEF IInv
  <1> QED
    BY <1>1, <1>2, <1>3, PTL DEF Spec

(***************************************************************************)
(* What the permissions may be relied on for, together.                    *)
(***************************************************************************)
THEOREM PermissionsHold == ASSUME ConstantsOK PROVE Spec => []PermissionsInv
  BY TypeCorrect, UsersStayWithinCompany, DownloadsAreShown, PTL DEF PermissionsInv

--------------------------------------------------------------------------------
(* Sections denied to a user. *)

\* A section switched off for a user is off in his own sections, and he has some.
DeniedOff ==
    \A d \in denied : /\ d[1] \in Users /\ DOMAIN user[d[1]].own # {}
                      /\ d[2] \notin On(user[d[1]].own)

\* An update of a user keeps off what was off for him when he was read.
KeepsOff(x) == \A s \in x.off : DOMAIN x.own # {} /\ s \notin On(x.own)

\* So do all updates on their way, and no company is left without sections.
UpdatesKeepOff ==
    /\ \A t \in saving : t.form.sections # {}
    /\ \A f \in following : f.after.sections # {}
    /\ \A x \in cascade : KeepsOff(x)
    /\ \A w \in writing : KeepsOff(w)

\* Sections that have names are own sections.
LEMMA NotFollows ==
    ASSUME NEW own, NEW s \in DOMAIN own
    PROVE  own # Follows
  BY DEF Follows

LEMMA UpdatedSectionsOn ==
    ASSUME NEW own, NEW c
    PROVE  /\ DOMAIN UpdatedSections(own, c) = DOMAIN own
           /\ On(UpdatedSections(own, c)) = On(own) \cap c.sections
  BY DEF UpdatedSections, On

LEMMA CascadeKeepsOff ==
    ASSUME DeniedOff, NEW n, NEW c, NEW after, after.sections # {}, NEW x \in Cascade(n, c, after)
    PROVE  KeepsOff(x)
  <1>1. PICK u \in Users :
          x = [n |-> n, user |-> u,
               own |-> IF user[u].own = Follows THEN Follows
                       ELSE [s \in after.sections |-> s \in On(user[u].own)],
               products |-> user[u].products \cap ProductIds(after),
               off |-> {s \in Sections : <<u, s>> \in denied}]
    BY DEF Cascade
  <1> SUFFICES ASSUME NEW s \in x.off PROVE DOMAIN x.own # {} /\ s \notin On(x.own)
    BY DEF KeepsOff
  <1>2. <<u, s>> \in denied
    BY <1>1
  <1>3. DOMAIN user[u].own # {} /\ s \notin On(user[u].own)
    BY <1>2 DEF DeniedOff
  <1>4. x.own = [k \in after.sections |-> k \in On(user[u].own)]
    BY <1>1, <1>3 DEF Follows
  <1> QED
    BY <1>3, <1>4 DEF On

LEMMA UpdatesKeepOffNext ==
    ASSUME RecordsOK, ~ MayEmpty, DeniedOff, UpdatesKeepOff, [Next]_vars
    PROVE  UpdatesKeepOff'
  <1>1. CASE SaveCompany
    <2>1. cform.sections # {}
      BY <1>1 DEF SaveCompany
    <2> QED
      BY <1>1, <2>1 DEF SaveCompany, UpdatesKeepOff, KeepsOff, On
  <1>2. CASE SaveUser
    BY <1>2 DEF SaveUser, UpdatesKeepOff, KeepsOff, On
  <1>3. ASSUME NEW t \in saving, WriteCompany(t) PROVE UpdatesKeepOff'
    <2>1. SavedCompany(t.form, t.before).sections # {}
      BY SavedCompanyOwn DEF UpdatesKeepOff
    <2> QED
      BY <1>3, <2>1 DEF WriteCompany, UpdatesKeepOff, KeepsOff, On
  <1>4. ASSUME NEW f \in following, ReadUsers(f) PROVE UpdatesKeepOff'
    <2>1. \A x \in Cascade(f.n, f.id, f.after) : KeepsOff(x)
      BY CascadeKeepsOff DEF UpdatesKeepOff
    <2>2. cascade' = cascade \union Cascade(f.n, f.id, f.after) /\ following' \subseteq following
          /\ saving' = saving /\ writing' = writing
      BY <1>4 DEF ReadUsers
    <2> QED
      BY <2>1, <2>2 DEF UpdatesKeepOff, KeepsOff, On
  <1>5. ASSUME NEW x \in cascade, UpdateUser(x) PROVE UpdatesKeepOff'
    <2> DEFINE w == [n |-> x.n, user |-> x.user, company |-> user[x.user].company, base |-> None,
                     own |-> x.own, products |-> x.products, off |-> x.off, form |-> None]
    <2>1. KeepsOff(w)
      BY DEF UpdatesKeepOff, KeepsOff
    <2>2. writing' = writing \union {w} /\ cascade' \subseteq cascade /\ saving' = saving
          /\ following' = following
      BY <1>5 DEF UpdateUser
    <2> HIDE DEF w
    <2> QED
      BY <2>1, <2>2 DEF UpdatesKeepOff, KeepsOff, On
  <1>6. ASSUME NEW w \in writing, ReadCompany(w) PROVE UpdatesKeepOff'
    <2> DEFINE read == [w EXCEPT !.base = company[w.company]]
    <2>1. read.off = w.off /\ read.own = w.own
      BY DEF RecordsOK, Writes
    <2>2. writing' = (writing \ {w}) \union {read} /\ cascade' = cascade /\ saving' = saving
          /\ following' = following
      BY <1>6 DEF ReadCompany
    <2> HIDE DEF read
    <2> QED
      BY <2>1, <2>2 DEF UpdatesKeepOff, KeepsOff, On
  <1>7. ASSUME NEW w \in writing, Write(w) PROVE UpdatesKeepOff'
    BY <1>7 DEF Write, UpdatesKeepOff, KeepsOff, On
  <1>8. CASE UNCHANGED serverVars
    BY <1>8 DEF serverVars, UpdatesKeepOff, KeepsOff, On
  <1> QED
    BY <1>1, <1>2, <1>3, <1>4, <1>5, <1>6, <1>7, <1>8, ServerSteps

LEMMA DeniedNext ==
    ASSUME RecordsOK, DeniedOff, UpdatesKeepOff, [Next]_vars
    PROVE  DeniedOff'
  <1>1. ASSUME NEW w \in writing, Write(w) PROVE DeniedOff'
    <2> SUFFICES ASSUME NEW d \in denied'
                 PROVE  d[1] \in Users /\ DOMAIN user'[d[1]].own # {} /\ d[2] \notin On(user'[d[1]].own)
      BY DEF DeniedOff, On
    <2>1. /\ DOMAIN user'[w.user].own = DOMAIN w.own
          /\ On(user'[w.user].own) \subseteq On(w.own)
      <3>1. user'[w.user].own = UpdatedSections(w.own, w.base)
        BY <1>1, Written
      <3> QED
        BY <3>1, UpdatedSectionsOn
    <2>2. CASE d \in denied /\ d[1] # w.user
      BY <1>1, <2>2, Written DEF DeniedOff
    <2>3. CASE d[1] = w.user /\ d[2] \in w.off
      BY <1>1, <2>1, <2>3, Written DEF UpdatesKeepOff, KeepsOff
    <2>4. CASE \E s \in DOMAIN w.own \ On(w.own) : d = <<w.user, s>>
      <3>1. PICK s \in DOMAIN w.own \ On(w.own) : d = <<w.user, s>>
        BY <2>4
      <3>2. d[1] = w.user /\ d[2] = s /\ w.user \in Users
        BY <1>1, <3>1, Written
      <3> QED
        BY <2>1, <3>1, <3>2
    <2> QED
      BY <1>1, <2>2, <2>3, <2>4 DEF Write
  <1>2. CASE user' = user /\ denied' = denied
    BY <1>2 DEF DeniedOff, On
  <1> QED
    BY <1>1, <1>2, ServerSteps DEF SaveCompany, SaveUser, WriteCompany, ReadUsers, UpdateUser,
       ReadCompany, serverVars

(***************************************************************************)
(* When no company is left without sections, a section an administrator    *)
(* switched off for a user stays off for him, however his company loses    *)
(* and gains it and its users are updated one by one, until an update is   *)
(* written that had read the user before (get_updated_sections,            *)
(* CompanyService.on_updated).                                             *)
(***************************************************************************)
THEOREM DeniedForGood ==
    ASSUME ConstantsOK, ~ MayEmpty
    PROVE  Spec => []DeniedStays
  <1> DEFINE IInv == RecordsOK /\ DeniedOff /\ UpdatesKeepOff
  <1>1. Init => IInv
    BY RecordsInit DEF Init, DeniedOff, UpdatesKeepOff
  <1>2. IInv /\ [Next]_vars => IInv'
    BY RecordsNext, DeniedNext, UpdatesKeepOffNext
  <1>3. IInv => DeniedStays
    BY DEF DeniedOff, DeniedStays, SectionsOf, Effective, Follows
  <1> HIDE DEF IInv
  <1> QED
    BY <1>1, <1>2, <1>3, PTL DEF Spec

--------------------------------------------------------------------------------
(* The form of a user. *)

\* The update of a form is for its user, and sends what the form had.
FormsSent ==
    \A w \in writing : w.form # None => /\ w.user = w.form.id /\ w.company = w.form.company
                                       /\ w.own = Sent(w.form) /\ w.products = w.form.products

LEMMA FormsSentNext == ASSUME RecordsOK, FormsSent, [Next]_vars PROVE FormsSent'
  <1>1. CASE SaveUser
    BY <1>1 DEF SaveUser, FormsSent
  <1>2. ASSUME NEW x \in cascade, UpdateUser(x) PROVE FormsSent'
    BY <1>2 DEF UpdateUser, FormsSent
  <1>3. ASSUME NEW w \in writing, ReadCompany(w) PROVE FormsSent'
    <2> DEFINE read == [w EXCEPT !.base = company[w.company]]
    <2>1. /\ read.form = w.form /\ read.user = w.user /\ read.company = w.company /\ read.own = w.own
          /\ read.products = w.products
      BY DEF RecordsOK, Writes
    <2>2. writing' = (writing \ {w}) \union {read}
      BY <1>3 DEF ReadCompany
    <2> HIDE DEF read
    <2> QED
      BY <2>1, <2>2 DEF FormsSent
  <1>4. CASE writing' \subseteq writing
    BY <1>4 DEF FormsSent
  <1> QED
    BY <1>1, <1>2, <1>3, <1>4, ServerSteps DEF SaveCompany, WriteCompany, ReadUsers, Write, serverVars

\* A user's form grants the sections it shows: none of his own mean those of the company.
LEMMA GrantedSections ==
    ASSUME NEW own \in OwnSections, NEW c \in CompanyData
    PROVE  LET sent == IF own = Follows THEN Follows ELSE [s \in Sections |-> s \in On(own)]
               saved == UpdatedSections(sent, c)
           IN  (IF saved = Follows THEN c.sections ELSE c.sections \cap On(saved))
                   = (IF own = Follows THEN c.sections ELSE c.sections \cap On(own))
  <1> DEFINE sent == IF own = Follows THEN Follows ELSE [s \in Sections |-> s \in On(own)]
             saved == UpdatedSections(sent, c)
  <1>1. PICK S \in SUBSET Sections : own \in [S -> BOOLEAN]
    BY DEF OwnSections
  <1>2. c.sections \subseteq Sections
    BY DEF CompanyData
  <1>3. CASE own = Follows
    <2>1. DOMAIN saved = {}
      BY <1>3, UpdatedSectionsOn DEF Follows
    <2>2. saved = Follows
      BY <1>3 DEF UpdatedSections, Follows
    <2> QED
      BY <1>3, <2>2
  <1>4. CASE own # Follows
    <2>1. S # {}
      BY <1>1, <1>4 DEF Follows
    <2>2. sent = [s \in Sections |-> s \in On(own)]
      BY <1>4
    <2>3. DOMAIN sent = Sections /\ On(sent) = Sections \cap On(own)
      BY <2>2 DEF On
    <2> HIDE DEF sent
    <2>4. DOMAIN saved = Sections /\ On(saved) = Sections \cap On(own) \cap c.sections
      BY <2>3, UpdatedSectionsOn
    <2>5. saved # Follows
      BY <2>1, <2>4, NotFollows
    <2> HIDE DEF saved
    <2> QED
      BY <1>2, <1>4, <2>4, <2>5 DEF sent, saved
  <1> QED
    BY <1>3, <1>4

LEMMA FormTells ==
    ASSUME RecordsOK, FormsSent, NEW w \in writing, Write(w), w.form # None,
           w.form.companies = company, w.base = company[w.company]
    PROVE  /\ SectionsOf(w.user)' = FormSections(w.form)
           /\ VisibleProducts(w.user)' = FormProducts(w.form)
  <1> DEFINE u == w.user
             f == w.form
             c == company[f.company]
             saved == UpdatedSections(Sent(f), c)
             shown == FormSections(f)
  <1>1. f \in UserForms /\ f.own \in OwnSections /\ f.company \in Companies
    BY DEF RecordsOK, Writes, UserForms
  <1>2. c \in CompanyData /\ FormCompany(f) = c
    BY <1>1 DEF RecordsOK, FormCompany
  <1>3. w.company = f.company /\ w.own = Sent(f) /\ w.products = f.products /\ w.base = c
    BY DEF FormsSent
  <1>4. company' = company /\ NewCompany(w) = f.company
    BY <1>3, Written DEF NewCompany
  <1>5. user'[u].company = f.company /\ user'[u].own = saved
        /\ user'[u].products = f.products \cap ProductIds(c)
    BY <1>3, <1>4, Written
  <1>6. SectionsOf(u)' = IF saved = Follows THEN c.sections ELSE c.sections \cap On(saved)
    BY <1>4, <1>5 DEF SectionsOf, Effective, Follows, On
  <1>7. shown = IF f.own = Follows THEN c.sections ELSE c.sections \cap On(f.own)
    BY <1>2 DEF FormSections, Effective
  <1>8. SectionsOf(u)' = shown
    <2>1. Sent(f) = IF f.own = Follows THEN Follows ELSE [s \in Sections |-> s \in On(f.own)]
      BY DEF Sent
    <2>2. saved = UpdatedSections(IF f.own = Follows THEN Follows ELSE [s \in Sections |-> s \in On(f.own)], c)
      BY <2>1
    <2> HIDE DEF c, f
    <2>3. (IF saved = Follows THEN c.sections ELSE c.sections \cap On(saved))
              = (IF f.own = Follows THEN c.sections ELSE c.sections \cap On(f.own))
      BY <1>1, <1>2, <2>2, GrantedSections
    <2> HIDE DEF saved
    <2> QED
      BY <1>6, <1>7, <2>3
  <1>9. shown \subseteq c.sections
    BY <1>7
  <1>10. VisibleProducts(u)' = {p \in (f.products \cap ProductIds(c)) \union (c.products \ c.limited) :
                            SectionOf[p] \in SectionsOf(u)'}
    BY <1>4, <1>5 DEF VisibleProducts
  <1>11. FormProducts(f) = {p \in c.products : SectionOf[p] \in shown
                                  /\ (p \in f.products \/ p \notin c.limited)}
    BY <1>2 DEF FormProducts
  <1>12. ProductIds(c) = {p \in c.products : SectionOf[p] \in c.sections}
    BY DEF ProductIds
  <1> HIDE DEF c, shown
  <1> QED
    BY <1>8, <1>9, <1>10, <1>11, <1>12 DEF shown

(***************************************************************************)
(* "This is the same logic as applied on the server side": what the form   *)
(* shows as switched on is what the user may see once it is saved, if the  *)
(* page has the companies as they are and the company was not saved while  *)
(* the save was on its way (src/assets/users/components,                   *)
(* newsroom/users/service.py).                                             *)
(***************************************************************************)
THEOREM FormsTellTruth == ASSUME ConstantsOK PROVE Spec => FormTellsGrant
  <1> DEFINE IInv == RecordsOK /\ FormsSent
  <1>1. Init => IInv
    BY RecordsInit DEF Init, FormsSent
  <1>2. IInv /\ [Next]_vars => IInv'
    BY RecordsNext, FormsSentNext
  <1>3. IInv /\ [Next]_vars => [FormTellsGrantStep]_vars
    BY FormTells DEF FormTellsGrantStep
  <1> HIDE DEF IInv
  <1> QED
    BY <1>1, <1>2, <1>3, PTL DEF Spec, FormTellsGrant
================================================================================
