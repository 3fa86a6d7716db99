-------------------------------- MODULE UserForm --------------------------------
(* The form of a user (assets/users/components/EditUser.tsx) and what the server does
   with it (newsroom/users/views.py): which fields and buttons the page offers to an
   administrator, an account manager or the admin of a company, and which of their
   changes the server takes.

   A user's fields are numbers: 0 for an empty text or a box not ticked.  The list is
   fetched anew, at once, after each success.  Sections and products are in Entitlements,
   seats in UserManager. *)
EXTENDS Integers, FiniteSets

CONSTANTS Role,          \* of the current user: "administrator", "account_management" or "company_admin"
          Users, Me, None,
          Companies, OwnCompany,
          Locales, Default, Shown,   \* the languages, the default one and that of the page
          Edits,         \* the fields that are edited
          Acts, Waits, MaxRequests, MaxEdits

Types == {"administrator", "internal", "public", "account_management", "company_admin"}
ShowAccMgr == {"public", "company_admin"}
Texts == {"first_name", "email", "phone", "country"}
Boxes == {"is_approved", "is_enabled", "expiry_alert", "manage_company_topics"}
Fields == Texts \union Boxes

UserFormAssumption ==
    /\ Role \in {"administrator", "account_management", "company_admin"} /\ Me \in Users
    /\ OwnCompany \in Companies /\ {Default, Shown} \subseteq Locales
    /\ Edits \subseteq Fields \union {"user_type", "company", "locale"}
    /\ None \notin Users \union Companies \union Locales

VARIABLES account,   \* the users of the server
          known,     \* those of the last list
          form,      \* None, or a user with the id it has, None if new
          edits, picked,   \* bound; the language whose name was picked in the form
          errors,    \* None, or the form, as it was, that they are of
          requests, sent,
          answer     \* of the last request: its kind, its form and its status
vars == <<account, known, form, edits, picked, errors, requests, sent, answer>>

May(act) == act \in Acts
Turn == Waits => requests = {}
isUserAdmin == Role = "administrator"
isCompanyAdmin == Role = "company_admin"

-------------------------------------------------------------------------------
(* What the form offers. *)

Options(user) == IF isUserAdmin \/ isCompanyAdmin THEN Types ELSE ShowAccMgr
userTypeReadOnly(user) == Role = "account_management" /\ user.type \notin ShowAccMgr
TypeEditable(user) == ~userTypeReadOnly(user) /\ ~isCompanyAdmin
hideFields == IF isCompanyAdmin THEN {"is_approved", "is_enabled", "company"} ELSE {}
\* The languages by name, and what is sent for each: the first entry has the name of the
\* page's language and no value; the others leave that language out, unless it is the default.
LocaleValue(name) == IF name = Shown /\ name # Default THEN None ELSE name
\* Buttons: Resend Invite, Reset Password, Approve, Delete.
CanResend(user) == /\ user.id # None /\ ~user.validated
CanReset(user) == user.validated /\ ~isCompanyAdmin
CanApprove(user) == /\ isUserAdmin /\ user.id \notin {None, Me}
                    /\ known[user.id].data["is_approved"] = 0
CanDelete(user) == user.id \notin {None, Me} /\ (isUserAdmin \/ isCompanyAdmin)

-------------------------------------------------------------------------------
(* The reducers; each of these clears the errors. *)

Become(user) == form' = user /\ errors' = None
Select(u) == /\ Turn /\ u \in DOMAIN known
             /\ Become([id |-> u, type |-> known[u].type, company |-> known[u].company, locale |-> known[u].locale,
                        data |-> known[u].data, validated |-> known[u].validated, etag |-> known[u].etag])
             /\ picked' = None /\ UNCHANGED <<account, known, edits, requests, sent, answer>>
New == /\ Turn /\ May("new")
       /\ Become([id |-> None, type |-> "public", company |-> IF isCompanyAdmin THEN OwnCompany ELSE None, locale |-> Default,
                  data |-> [f \in Fields |-> IF f \in {"is_approved", "is_enabled"} THEN 1 ELSE 0],
                  validated |-> FALSE, etag |-> 0])
       /\ picked' = None /\ UNCHANGED <<account, known, edits, requests, sent, answer>>
Edit(user) == /\ Turn /\ form # None /\ edits < MaxEdits /\ edits' = edits + 1 /\ user # form
              /\ Become(user) /\ UNCHANGED <<account, known, requests, sent, answer>>
EditField(f, v) == /\ f \in Edits \intersect Fields /\ f \notin hideFields
                   /\ v \in (IF f \in Boxes THEN {0, 1} ELSE {0, 2})
                   /\ form # None /\ Edit([form EXCEPT !.data[f] = v]) /\ UNCHANGED picked
EditType(t) == /\ "user_type" \in Edits /\ form # None /\ TypeEditable(form) /\ t \in Options(form)
               /\ Edit([form EXCEPT !.type = t]) /\ UNCHANGED picked
EditCompany(c) == /\ "company" \in Edits \ hideFields /\ form # None
                  /\ Edit([form EXCEPT !.company = c]) /\ UNCHANGED picked
EditLocale(name) == /\ "locale" \in Edits /\ form # None
                    /\ Edit([form EXCEPT !.locale = LocaleValue(name)]) /\ picked' = name
Close == /\ Turn /\ form # None /\ Become(None) /\ picked' = None
         /\ UNCHANGED <<account, known, edits, requests, sent, answer>>

-------------------------------------------------------------------------------
(* Requests. *)

\* A language that is not set is sent as the default one.
ToSend(user) == [user EXCEPT !.locale = IF @ = None THEN Default ELSE @]
Send(kind) == /\ sent < MaxRequests /\ sent' = sent + 1
              /\ requests' = requests \union {[n |-> sent + 1, kind |-> kind, form |-> ToSend(form), picked |-> picked,
                                          checked |-> FALSE]}
\* The page asks for an address itself, before anything is sent.
Save == /\ Turn /\ form # None
        /\ IF form.data["email"] = 0
           THEN errors' = form /\ UNCHANGED <<requests, sent>>
           ELSE Send("save") /\ errors' = None
        /\ UNCHANGED <<account, known, form, edits, picked, answer>>
Press(kind) == /\ Turn /\ form # None /\ Send(kind)
               /\ UNCHANGED <<account, known, form, edits, picked, errors, answer>>
ResendInvite == May("resend") /\ form # None /\ CanResend(form) /\ Press("resend")
ResetPassword == May("reset") /\ form # None /\ CanReset(form) /\ Press("reset")
Approve == May("approve") /\ form # None /\ CanApprove(form) /\ Press("approve")
Delete == May("delete") /\ form # None /\ CanDelete(form) /\ Press("delete")

-------------------------------------------------------------------------------
(* The server. *)

UserFormFields == Fields \ {"country"}
Allowed == IF isCompanyAdmin THEN Fields ELSE Fields \union {"user_type", "company"}
Exists(r) == r.form.id \in DOMAIN account
\* The ids no user has and no request names: that of a new user was never used before.
Unused == Users \ (DOMAIN account \union {q.form.id : q \in requests})
Saved(r, u) ==
    LET old == IF u \in DOMAIN account THEN account[u]
               ELSE [data |-> [f \in Fields |-> 0], type |-> IF isCompanyAdmin THEN "public" ELSE r.form.type,
                     locale |-> Default, validated |-> FALSE,
                     company |-> IF isCompanyAdmin THEN OwnCompany ELSE r.form.company, etag |-> 0]
    IN  [data |-> [f \in Fields |-> IF f \in UserFormFields \intersect Allowed THEN r.form.data[f] ELSE old.data[f]],
         type |-> IF "user_type" \in Allowed THEN r.form.type ELSE old.type,
         company |-> IF "company" \in Allowed THEN r.form.company ELSE old.company,
         locale |-> r.form.locale, validated |-> old.validated, etag |-> old.etag + 1]
NoCompany(r) == ~isCompanyAdmin /\ r.form.company = None /\ r.form.type # "administrator"
TypeRefused(r) == r.form.id # None /\ ~isUserAdmin /\ r.form.type # account[r.form.id].type
\* What the checks say of a request.
Verdict(r) ==
    IF r.kind = "save"
    THEN IF r.form.id # None /\ ~Exists(r) THEN 404
         ELSE IF r.form.id # None /\ account[r.form.id].etag # r.form.etag THEN 412
         ELSE IF r.form.data["first_name"] = 0 \/ r.form.data["email"] = 0 THEN 400
         ELSE IF NoCompany(r) THEN 400
         ELSE IF TypeRefused(r) THEN 401
         ELSE 200
    ELSE IF ~Exists(r) THEN 404
    ELSE CASE r.kind = "resend" ->
                IF account[r.form.id].company = None THEN 403 ELSE IF account[r.form.id].validated THEN 400 ELSE 200
           [] r.kind = "approve" -> IF account[r.form.id].data["is_approved"] = 1 THEN 403 ELSE 200
           [] r.kind = "delete" -> IF r.form.id = Me THEN 400 ELSE 200
           [] OTHER -> 200
Status(r) == IF r.checked THEN (IF Exists(r) THEN 200 ELSE 404) ELSE Verdict(r)
Effect(r, status) ==
    IF status # 200 THEN account
    ELSE CASE r.kind = "save" ->
                LET u == IF r.form.id = None THEN CHOOSE v \in Unused : TRUE ELSE r.form.id
                IN  [v \in DOMAIN account \union {u} |-> IF v = u THEN Saved(r, u) ELSE account[v]]
           [] r.kind = "approve" ->
                [account EXCEPT ![r.form.id].data["is_approved"] = 1, ![r.form.id].data["is_enabled"] = 1, ![r.form.id].etag = @ + 1]
           [] r.kind = "delete" -> [v \in DOMAIN account \ {r.form.id} |-> account[v]]
           [] OTHER -> account
\* The etag of a user saved is compared before his form is made and validated, which waits for
\* other things; he is updated after that, without an etag.
Accept(r) ==
    /\ r.kind = "save" /\ r.form.id # None /\ ~r.checked /\ Status(r) = 200
    /\ requests' = (requests \ {r}) \union {[r EXCEPT !.checked = TRUE]}
    /\ UNCHANGED <<account, known, form, edits, picked, errors, sent, answer>>
\* A success of saving, approving or deleting fetches the list, which closes the form,
\* whoever's it is; what is said to be wrong with a form is shown in the one that is open.
Answer(r) ==
    /\ r.kind = "save" /\ r.form.id # None /\ Status(r) = 200 => r.checked
    /\ r.kind = "save" /\ r.form.id = None => Unused # {}
    /\ LET status == Status(r) IN
       /\ requests' = requests \ {r} /\ account' = Effect(r, status)
       /\ answer' = [kind |-> r.kind, form |-> r.form, picked |-> r.picked, status |-> status]
       /\ IF status = 200 /\ r.kind \notin {"resend", "reset"}
          THEN known' = account' /\ form' = None /\ errors' = None
          ELSE /\ errors' = IF status = 400 THEN r.form ELSE errors
               /\ UNCHANGED <<known, form>>
    /\ UNCHANGED <<edits, picked, sent>>
\* The user follows the invitation.
Validate(u) == /\ May("validate") /\ u \in DOMAIN account /\ ~account[u].validated
               /\ account' = [account EXCEPT ![u].validated = TRUE, ![u].etag = @ + 1]
               /\ UNCHANGED <<known, form, edits, picked, errors, requests, sent, answer>>

Init == /\ \E existing \in SUBSET Users, t \in Types, c \in Companies \union {None}, approved \in {0, 1}, v \in BOOLEAN :
              /\ Me \in existing
              /\ isCompanyAdmin => c = OwnCompany
              /\ c = None => t = "administrator"
              /\ account = [u \in existing |->
                    [data |-> [f \in Fields |-> IF f = "is_approved" /\ u # Me THEN approved ELSE 1], locale |-> Default,
                     type |-> IF u = Me THEN Role ELSE t, company |-> IF u = Me THEN OwnCompany ELSE c,
                     validated |-> u = Me \/ v, etag |-> 1]]
        /\ known = account /\ form = None /\ edits = 0 /\ picked = None /\ errors = None
        /\ requests = {} /\ sent = 0 /\ answer = None
Next == \/ \E u \in Users : Select(u) \/ Validate(u)
        \/ \E f \in Fields, v \in 0 .. 2 : EditField(f, v)
        \/ \E t \in Types : EditType(t)
        \/ \E c \in Companies \union {None} : EditCompany(c)
        \/ \E l \in Locales : EditLocale(l)
        \/ New \/ Close \/ Save \/ ResendInvite \/ ResetPassword \/ Approve \/ Delete
        \/ \E r \in requests : Accept(r) \/ Answer(r)
Spec == Init /\ [][Next]_vars

-------------------------------------------------------------------------------
(* Properties. *)

UserType == [Fields -> 0 .. 2]
TypeOK ==
    /\ DOMAIN account \subseteq Users /\ DOMAIN known \subseteq Users
    /\ \A u \in DOMAIN account : account[u].data \in UserType /\ account[u].type \in Types /\ account[u].locale \in Locales
    /\ form # None => form.data \in UserType /\ form.type \in Types /\ form.id \in Users \union {None}

\* "User updated successfully": the user then has every field as the form had it, though the
\* server goes by its own list of fields for each role.
KeepsStep(f) == \A r \in requests :
    (r \notin requests' /\ r.checked /\ answer'.status = 200) =>
        LET u == account'[r.form.id]
        IN  u.data[f] = r.form.data[f] /\ u.type = r.form.type /\ u.company = r.form.company
SavedAsOfferedStep ==
    \A f \in Fields \ {"country"} : KeepsStep(f)
\* Only an administrator changes what a user is; the type of one that exists stays as it is.
RoleKeptStep ==
    ~isUserAdmin => \A u \in DOMAIN account : u \in DOMAIN account' => account'[u].type = account[u].type
RoleKept == [][RoleKeptStep]_vars
\* Nobody but an administrator is without a company, whatever the company field was set to.
CompanyRequired == \A u \in DOMAIN account : account[u].type # "administrator" => account[u].company # None
\* What the page offers an administrator, or the admin of a company, is not refused for want of a right.
NotForbidden == answer # None => answer.status # 401
\* Errors are shown with the form as it was when they came about, and go with the first change.
ErrorsOfForm == errors # None => ToSend(form) = ToSend(errors)
\* Nobody deletes himself: the page does not offer it, and the server refuses it.
MeStays == Me \in DOMAIN account /\ Me \in DOMAIN known

=================================================================================
