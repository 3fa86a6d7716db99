----------------------------- MODULE FollowedTopics -----------------------------
(* The topics of a user: the profile that covers the page and lists them by
   folder, the editor beside the list, the requests of both, and what the page
   below searches for once a topic is created (assets/user-profile,
   search/components/FollowedTopics, TopicEditor, TopicForm, TopicList). Another
   user of the company edits the topics they share, and the server tells.

   The profile and the page have a store and a websocket each. A topic has a
   label, a folder and the users that are notified; its search parameters matter
   only in that an edited copy of nested ones never equals the original. *)
EXTENDS Integers, Sequences, FiniteSets, SequencesExt, TLC

CONSTANTS Topics, NewTopics, Folders, NewFolders, None,
          TopicDef,      \* the topics there are at first
          SectOf,        \* the menu of a topic or folder: "topics" (wire) or "events" (agenda)
          IsGlobal,      \* the folders of the company
          Nested,        \* the topics with a navigation, filters or dates
          Labels, Manager, GlobalEnabled, Acts,
          AnyOrder,      \* requests are answered, and notifications delivered, in any order
          MayFail,
          Waits,         \* the user waits until nothing is in flight
          MaxWrites,     \* the writes of both users
          MaxFlight      \* requests, answers and notifications in flight when the user goes on

BoundsAssumption == MaxWrites \in Nat /\ MaxFlight \in Nat

VARIABLES db,     \* the server's topics and folders
          store,  \* the user-profile store
          ui,     \* what FollowedTopics and TopicEditor keep to themselves
          up, down, pushes,
          page,   \* the topic in the URL and the one the page searches for
          left    \* the writes that may still be made
vars == <<db, store, ui, up, down, pushes, page, left>>

Ids == Topics \cup NewTopics
AllFolders == Folders \cup NewFolders
Users == {"me", "other"}
May(act) == act \in Acts
Idle == up = <<>> /\ down = <<>> /\ pushes = <<>>
Ready == IF Waits THEN Idle ELSE Len(up) + Len(down) + Len(pushes) <= MaxFlight

-------------------------------------------------------------------------------
(* Selectors and rights. *)
canUserManageTopics == Manager
canUserEditTopic(t) == ~t.global \/ canUserManageTopics \/ t.owner = "me"
foldersSelector(s) == {f \in s.folders : SectOf[f] = s.menu}
globalTopicsEnabledSelector == GlobalEnabled

-------------------------------------------------------------------------------
(* The reducer. *)
getTopics(s, ts) == [s EXCEPT !.topics = ts]
setTopics(s, ts) == [s EXCEPT !.topics = ts]
selectMenuItem(s, item) == [s EXCEPT !.selected = item, !.full = FALSE]
selectMenu(s, m) == [s EXCEPT !.menu = m, !.dropdown = FALSE, !.shown = TRUE]
setTopicEditorFullscreen(s, b) == [s EXCEPT !.full = b]
hideModal(s) == [s EXCEPT !.shown = FALSE]
topicUpdated(s, t, new) ==
    [s EXCEPT !.topics = [x \in DOMAIN @ |-> IF x = t THEN new @@ @[x] ELSE @[x]],
              !.selected = IF @ # None /\ @.id = t THEN new @@ @ ELSE @]
folderDeleted(s, f) == [s EXCEPT !.folders = @ \ {f}]

-------------------------------------------------------------------------------
(* The editor. *)
subscribed(t) == "me" \in t.subs
getTabsForTopic(t) == t.id # None /\ t.global /\ canUserManageTopics
(* A topic whose nested parameters were cloned differs from the original for good. *)
isDirty(t, original, cloned) ==
    \/ t.label # original.label \/ t.global # original.global \/ t.folder # original.folder
    \/ t.subs # original.subs
    \/ cloned /\ t.id \in Nested
updateFormValidity(e, t, original, full) ==
    [e EXCEPT !.valid = CASE t.label = "" -> FALSE
                          [] t.label # "" /\ isDirty(t, original, e.cloned) -> TRUE
                          [] OTHER -> IF original.id # None THEN full ELSE @]
changeTopic(t, full) ==
    updateFormValidity([topic |-> t, saving |-> FALSE, valid |-> t.id = None, tabs |-> getTabsForTopic(t),
                        tab |-> "topic", cloned |-> FALSE, newFolder |-> FALSE, moved |-> FALSE], t, t, full)
NoEditor == [topic |-> None]
Editing == ui.mounted /\ ui.ed.topic # None
Changed(t) == [ui EXCEPT !.ed = updateFormValidity([@ EXCEPT !.topic = t, !.cloned = TRUE], t, store.selected, store.full)]

-------------------------------------------------------------------------------
(* What React makes of a store s that becomes t. The profile shows the list and
   the editor or nothing of them; the editor of another topic, or of another
   version of it, starts anew, and another menu closes it. *)
FreshUI == [mounted |-> TRUE, showGlobal |-> FALSE, newFolder |-> "no", popover |-> None, opened |-> {},
            renaming |-> {}, renameError |-> {}, ed |-> NoEditor]
NoUI == [FreshUI EXCEPT !.mounted = FALSE]
UserProfileApp(s) == s.shown /\ s.menu # "profile"
Closed(s) == selectMenuItem(s, None)
componentDidUpdate(u, s, t) == IF u.mounted /\ s.menu # t.menu THEN Closed(t) ELSE t
After(u, s, t) == IF UserProfileApp(t) THEN componentDidUpdate(u, s, t)
                  ELSE IF u.mounted THEN Closed(t) ELSE t
TopicEditor(u, s, t) ==
    CASE t.selected = None -> NoEditor
      [] t.selected # None /\ u.ed.topic # None /\ s.selected # None /\ s.selected.id = t.selected.id
         /\ s.selected.ver = t.selected.ver -> u.ed
      [] OTHER -> changeTopic(t.selected, t.full)
Rendered(u, s, t) ==
    IF ~UserProfileApp(t) THEN NoUI
    ELSE LET shown == IF u.mounted THEN u ELSE FreshUI
         IN [shown EXCEPT !.ed = TopicEditor(shown, s, t)]

fetchTopics == [kind |-> "topics", then |-> "list"]
fetchFolders == [kind |-> "folders", then |-> "list"]
reloadMyTopics(m) == [kind |-> "reload", then |-> m]
componentDidMount(u, t) == IF UserProfileApp(t) /\ ~u.mounted THEN <<fetchTopics, fetchFolders>> ELSE <<>>
(* A dispatch that makes the store t, with what the components are before it
   is rendered, and the requests sent. *)
Go(t, u, requests) ==
    LET final == After(u, store, t)
    IN /\ store' = final
       /\ ui' = Rendered(u, store, final)
       /\ up' = up \o componentDidMount(u, final) \o requests
Same(u) == ui' = u /\ UNCHANGED <<store, up>>

-------------------------------------------------------------------------------
(* What is listed and can be clicked on. *)
getFilteredTopics(s, u) == {t \in DOMAIN s.topics : SectOf[t] = s.menu /\ s.topics[t].global = u.showGlobal}
FoldersShown(s, u) == {f \in foldersSelector(s) : IsGlobal[f] = u.showGlobal}
TopicFolder(s, u, f) == {t \in getFilteredTopics(s, u) : s.topics[t].folder = f}
TopicList(s, u) == {t \in getFilteredTopics(s, u) : s.topics[t].folder \in FoldersShown(s, u) \cup {None}}
ListShown == ui.mounted /\ ~(store.selected # None /\ store.full)
Rows == IF ListShown THEN {t \in TopicList(store, ui) : store.topics[t].folder \in ui.opened \cup {None}} ELSE {}
FolderRows == IF ListShown THEN FoldersShown(store, ui) ELSE {}
actions(t) == {"drag", "edit"} \cup (IF canUserEditTopic(t) THEN {"delete"} ELSE {})
                              \cup (IF t.folder # None /\ canUserEditTopic(t) THEN {"move"} ELSE {})
Topic(t, action) == t \in Rows /\ action \in actions(store.topics[t])
TopicFolderActions(f) == f \in FolderRows /\ f \notin ui.renaming /\ ui.popover = f
NewFolderButton == ListShown /\ (~ui.showGlobal \/ canUserManageTopics)
isReadOnly == ~canUserEditTopic(store.selected)
TopicForm == Editing /\ ui.ed.tab = "topic"
Footer == TopicForm /\ ~isReadOnly
CanSave == ~ui.ed.saving /\ ui.ed.valid
FormFolders == {f \in foldersSelector(store) : IsGlobal[f] = ui.ed.topic.global}
FormIdle == Waits /\ ui.ed.newFolder => Idle

-------------------------------------------------------------------------------
(* The server. *)
Visible(t) == t.owner = "me" \/ t.global
VisibleTopics == [t \in {x \in DOMAIN db.topics : Visible(db.topics[x])} |-> db.topics[t]]
can_edit_topic(t) == t.owner = "me" \/ (t.global /\ Manager)
(* The page is only told here of the topics this user creates. *)
push_company_notification(global) == IF global THEN <<"profile">> ELSE <<>>
(* A topic that is no longer shared keeps of its subscribers the owner. *)
on_update(old, new) == IF old.global /\ ~new.global THEN [new EXCEPT !.subs = @ \cap {old.owner}] ELSE new
update_topic(old, form) ==
    on_update(old, [old EXCEPT !.label = form.label, !.subs = form.subs, !.global = form.global, !.ver = @ + 1,
                               !.folder = IF form.global # old.global /\ form.folder = old.folder THEN None
                                          ELSE form.folder])
WithTopic(d, t, rec) == [d EXCEPT !.topics = (t :> rec) @@ @]
Without(d, ts) == [d EXCEPT !.topics = [t \in DOMAIN @ \ ts |-> @[t]]]
InFolder(f) == {t \in DOMAIN db.topics : db.topics[t].folder = f}

IfMatch(r) == r.t \in DOMAIN db.topics /\ db.topics[r.t].ver = r.etag
Answer(r, status, data) == [r |-> r, status |-> status, data |-> data]
Served(r) ==
    \/ /\ r.kind \in {"topics", "reload"}
       /\ db' = db
       /\ down' = Append(down, Answer(r, "ok", VisibleTopics))
       /\ UNCHANGED pushes
    \/ /\ r.kind = "folders"
       /\ db' = db
       /\ down' = Append(down, Answer(r, "ok", db.folders))
       /\ UNCHANGED pushes
    \/ /\ r.kind = "save" /\ r.t \in DOMAIN db.topics /\ can_edit_topic(db.topics[r.t])
       /\ LET new == update_topic(db.topics[r.t], r.form)
          IN /\ db' = WithTopic(db, r.t, new)
             /\ pushes' = pushes \o push_company_notification(new.global \/ db.topics[r.t].global)
       /\ down' = Append(down, Answer(r, "ok", None))
    \/ /\ r.kind = "create"
       /\ \E t \in NewTopics \ DOMAIN db.topics :
             /\ SectOf[t] = r.sect
             /\ db' = WithTopic(db, t, [owner |-> "me", ver |-> 0] @@ r.form)
             /\ down' = Append(down, Answer(r, "ok", t))
             /\ pushes' = pushes \o <<"created">> \o push_company_notification(r.form.global)
    \/ /\ r.kind = "patch" /\ IfMatch(r)
       /\ db' = WithTopic(db, r.t, on_update(db.topics[r.t], [r.updates @@ db.topics[r.t] EXCEPT !.ver = @ + 1]))
       /\ down' = Append(down, Answer(r, "ok", r.etag + 1))
       /\ UNCHANGED pushes
    \/ /\ r.kind = "delete" /\ r.t \in DOMAIN db.topics /\ can_edit_topic(db.topics[r.t])
       /\ db' = Without(db, {r.t})
       /\ down' = Append(down, Answer(r, "ok", None))
       /\ pushes' = pushes \o push_company_notification(db.topics[r.t].global)
    \/ /\ r.kind = "newFolder"
       /\ \E f \in NewFolders \ db.folders :
             /\ IsGlobal[f] = r.global /\ SectOf[f] = r.sect
             /\ db' = [db EXCEPT !.folders = @ \cup {f}]
             /\ down' = Append(down, Answer(r, "ok", f))
       /\ UNCHANGED pushes
    \/ /\ r.kind = "rename" /\ r.f \in db.folders
       /\ db' = db
       /\ down' = Append(down, Answer(r, "ok", r.f))
       /\ UNCHANGED pushes
    \/ /\ r.kind = "delFolder" /\ r.f \in db.folders
       /\ db' = [Without(db, InFolder(r.f)) EXCEPT !.folders = @ \ {r.f}]
       /\ down' = Append(down, Answer(r, "ok", None))
       /\ UNCHANGED pushes
(* What is not there, was changed since or fails is an error; the topic of
   somebody else is denied. *)
Gone(r) == \/ r.kind \in {"save", "delete"} /\ r.t \notin DOMAIN db.topics
           \/ r.kind = "patch" /\ ~IfMatch(r)
           \/ r.kind \in {"rename", "delFolder"} /\ r.f \notin db.folders
Denied(r) == r.kind \in {"save", "delete"} /\ r.t \in DOMAIN db.topics /\ ~can_edit_topic(db.topics[r.t])
Refused(r) ==
    /\ \/ Gone(r)
       \/ Denied(r)
       \/ MayFail /\ r.kind \notin {"topics", "reload", "folders", "page"}
    /\ down' = Append(down, Answer(r, IF Denied(r) THEN "denied" ELSE "error", None))
    /\ UNCHANGED <<db, pushes>>
Next1(s) == IF AnyOrder THEN DOMAIN s ELSE DOMAIN s \cap {1}
Process == \E i \in Next1(up) :
    /\ Served(up[i]) \/ Refused(up[i])
    /\ up' = RemoveAt(up, i)
    /\ UNCHANGED <<store, ui, page, left>>

-------------------------------------------------------------------------------
(* The answers. *)
Loaded(p) == LET next == IF p.active = p.url THEN None ELSE p.url IN [url |-> next, active |-> next]
(* A topic that was saved: the list is fetched again and the editor, whichever
   it is of by now, closes; the page that a new one covers shows again. *)
saveTopicThen(t, created) ==
    Go(IF created THEN setTopicEditorFullscreen(hideModal(Closed(t)), FALSE) ELSE Closed(t), ui, <<fetchTopics>>)
\* The folder is put into the form before it is among the folders.
onFolderChange(e, f, original, full) ==
    LET t == [e.topic EXCEPT !.folder = f]
    IN updateFormValidity([e EXCEPT !.topic = t, !.cloned = TRUE, !.moved = TRUE], t, original, full)
AfterFolders(then, f) ==
    CASE then = "new" /\ ui.mounted -> [ui EXCEPT !.newFolder = "no", !.popover = None]
      [] then = "rename" /\ ui.mounted -> [ui EXCEPT !.renaming = @ \ {f}, !.renameError = @ \ {f}]
      [] then = "form" /\ Editing -> [ui EXCEPT !.ed = [onFolderChange(@, f, store.selected, store.full)
                                                        EXCEPT !.newFolder = FALSE]]
      [] OTHER -> ui
FolderError(then, f) ==
    CASE then = "new" /\ ui.mounted -> [ui EXCEPT !.newFolder = "error"]
      [] then = "rename" /\ ui.mounted /\ f \in ui.renaming -> [ui EXCEPT !.renameError = @ \cup {f}]
      [] OTHER -> ui
OfMenu(m, ts) == [t \in {x \in DOMAIN ts : (SectOf[x] = "events") <=> (m = "events")} |-> ts[t]]
Received(a) ==
    LET r == a.r
        ok == a.status = "ok"
    IN CASE r.kind = "topics" /\ r.then = "saved" -> saveTopicThen(getTopics(store, a.data), FALSE) /\ UNCHANGED page
         [] r.kind = "topics" /\ r.then # "saved" -> Go(getTopics(store, a.data), ui, <<>>) /\ UNCHANGED page
         [] r.kind = "reload" /\ r.then # "page" -> Go(setTopics(store, OfMenu(r.then, a.data)), ui, <<>>) /\ UNCHANGED page
         [] r.kind = "reload" /\ r.then = "page" -> /\ page' = IF page.url # None THEN Loaded(page) ELSE page
                                                    /\ Same(ui)
         [] r.kind = "folders" -> /\ Go([store EXCEPT !.folders = a.data],
                                        IF r.then = "list" THEN ui ELSE AfterFolders(r.then, r.f), <<>>)
                                  /\ UNCHANGED page
         [] r.kind = "save" /\ ok -> Go(store, ui, <<[fetchTopics EXCEPT !.then = "saved"]>>) /\ UNCHANGED page
         [] r.kind = "save" /\ a.status = "error" -> saveTopicThen(store, FALSE) /\ UNCHANGED page
         [] r.kind = "create" /\ ok -> /\ saveTopicThen(store, TRUE)
                                       /\ page' = [page EXCEPT !.url = a.data]
         [] r.kind = "create" /\ ~ok -> Go(Closed(store), ui, <<fetchTopics>>) /\ UNCHANGED page
         [] r.kind = "patch" /\ ok ->
               /\ Go(topicUpdated(store, r.t, r.updates @@ [ver |-> a.data]),
                     IF ui.mounted /\ r.then # None THEN [ui EXCEPT !.opened = r.opened \cup {r.then}] ELSE ui, <<>>)
               /\ UNCHANGED page
         [] r.kind = "delete" /\ ok -> Go(store, ui, <<fetchTopics>>) /\ UNCHANGED page
         [] r.kind \in {"newFolder", "rename"} /\ ok ->
               Go(store, ui, <<[kind |-> "folders", then |-> r.then, f |-> a.data]>>) /\ UNCHANGED page
         [] r.kind \in {"newFolder", "rename"} /\ ~ok -> Same(FolderError(r.then, r.f)) /\ UNCHANGED page
         [] r.kind = "delFolder" /\ ok -> Go(folderDeleted(store, r.f), ui, <<>>) /\ UNCHANGED page
         [] OTHER -> Same(ui) /\ UNCHANGED page
Receive == \E i \in Next1(down) :
    /\ Received(down[i])
    /\ down' = RemoveAt(down, i)
    /\ UNCHANGED <<db, pushes, left>>

(* Notifications, which in order come after the answer to what caused them. The
   profile compares the event with its user object and only
   knows those of the company; the page of a user whose topic was created loads
   the topic of the URL. *)
pushNotification(p) == up' = Append(up, reloadMyTopics(IF p = "profile" THEN store.menu ELSE "page"))
Deliver == \E i \in Next1(pushes) :
    /\ AnyOrder \/ down = <<>>
    /\ pushNotification(pushes[i])
    /\ pushes' = RemoveAt(pushes, i)
    /\ UNCHANGED <<db, store, ui, down, page, left>>

-------------------------------------------------------------------------------
(* The profile. *)
Quiet == UNCHANGED <<db, down, pushes, page, left>>
User(act) == May(act) /\ Ready
Writing == left > 0 /\ left' = left - 1
Sent(t, u, request) == Go(t, u, <<request>>) /\ Writing /\ UNCHANGED <<db, down, pushes, page>>

UserProfileMenu(m) == /\ User("menu") /\ (store.shown \/ store.dropdown)
                      /\ Go(selectMenu(store, m), ui, <<reloadMyTopics(m)>>)
                      /\ Quiet
ToggleDropdown == /\ User("menu") /\ ~store.shown
                  /\ Go([store EXCEPT !.dropdown = ~@], ui, <<>>)
                  /\ Quiet
ProfileData(d, visible) == [topics |-> visible, selected |-> None, full |-> FALSE, menu |-> "profile", shown |-> FALSE,
                            dropdown |-> FALSE, folders |-> {}]
(* Closing the profile loads the page again; what was asked is still done. *)
HideModal == /\ User("close") /\ store.shown
             /\ store' = ProfileData(db, VisibleTopics)
             /\ ui' = NoUI
             /\ page' = [page EXCEPT !.active = page.url]
             /\ up' = SelectSeq(up, LAMBDA r : r.kind \notin {"topics", "reload", "folders"})
             /\ down' = <<>>
             /\ pushes' = <<>>
             /\ UNCHANGED <<db, left>>
manage_topics(m) == /\ User("manage") /\ ~store.shown
                    /\ Go(selectMenu(store, m), ui, <<reloadMyTopics(m)>>)
                    /\ Quiet
Blank(label) == [id |-> None, owner |-> "me", global |-> FALSE, folder |-> None, label |-> label, subs |-> {}, ver |-> 0]
createOrUpdateTopic(m, item) ==
    Go(setTopicEditorFullscreen(selectMenu(selectMenuItem(store, item), m), TRUE), ui, <<reloadMyTopics(m)>>)
saveMyTopic(m, label) == /\ User("create") /\ ~store.shown
                         /\ createOrUpdateTopic(m, Blank(label))
                         /\ Quiet
(* On the page: a topic is searched for, or no longer. *)
loadMyTopic(t) == /\ User("create") /\ ~store.shown
                  /\ t \in DOMAIN db.topics
                  /\ page' = Loaded([page EXCEPT !.url = t])
                  /\ UNCHANGED <<db, store, ui, up, down, pushes, left>>

-------------------------------------------------------------------------------
(* The list. *)
ListStep(act, u) == User(act) /\ ui.mounted /\ Same(u) /\ Quiet
toggleGlobal == /\ User("global") /\ ListShown /\ globalTopicsEnabledSelector
                /\ Go(store, [ui EXCEPT !.showGlobal = ~@], <<fetchFolders>>)
                /\ Quiet
createNewFolder == NewFolderButton /\ ListStep("folder", [ui EXCEPT !.newFolder = "open", !.popover = None])
CancelNewFolder == ListShown /\ ui.newFolder # "no" /\ ListStep("folder", [ui EXCEPT !.newFolder = "no"])
saveFolder(then, global) ==
    [kind |-> "newFolder", then |-> then, global |-> global, sect |-> store.menu, f |-> None]
SaveNewFolder == /\ User("folder") /\ ListShown /\ ui.newFolder # "no"
                 /\ Sent(store, ui, saveFolder("new", ui.showGlobal))
setOpened(f) == /\ f \in FolderRows
                /\ f \notin ui.opened => TopicFolder(store, ui, f) # {}
                /\ ListStep("open", [ui EXCEPT !.opened = IF f \in @ THEN @ \ {f} ELSE @ \cup {f}])
toggleFolderPopover(f) == /\ f \in FolderRows \ ui.renaming
                          /\ ListStep("folder", [ui EXCEPT !.popover = IF @ = f THEN None ELSE f])
Rename(f) == TopicFolderActions(f) /\ ListStep("folder", [ui EXCEPT !.renaming = @ \cup {f}, !.popover = None])
CancelRename(f) == f \in FolderRows \cap ui.renaming /\ ListStep("folder", [ui EXCEPT !.renaming = @ \ {f}, !.renameError = @ \ {f}])
TopicFolderEditor(f) == /\ User("folder") /\ f \in FolderRows \cap ui.renaming
                        /\ Sent(store, ui, [kind |-> "rename", then |-> "rename", f |-> f])
deleteFolder(f) == /\ User("delFolder") /\ TopicFolderActions(f)
                   /\ Sent(store, [ui EXCEPT !.popover = None], [kind |-> "delFolder", f |-> f])
editTopic(t) == /\ User("edit") /\ Topic(t, "edit")
                /\ Go(selectMenuItem(store, [id |-> t] @@ store.topics[t]), ui, <<>>)
                /\ Quiet
deleteTopic(t) == /\ User("delete") /\ Topic(t, "delete")
                  /\ Sent(store, ui, [kind |-> "delete", t |-> t])
updateTopic(t, updates, then) ==
    [kind |-> "patch", t |-> t.id, etag |-> t.ver, updates |-> updates, then |-> then, opened |-> ui.opened]
moveTopic(t, f) == Sent(store, ui, updateTopic([id |-> t] @@ store.topics[t], [folder |-> f], f))
DragTopic(t, f) == User("move") /\ Topic(t, "drag") /\ f \in FolderRows /\ moveTopic(t, f)
removeTopicFolder(t) == User("move") /\ Topic(t, "move") /\ moveTopic(t, None)

-------------------------------------------------------------------------------
(* The editor. *)
FormStep(u) == Same(u) /\ Quiet
onChangeLabel(l) == /\ User("form") /\ Footer /\ l # ui.ed.topic.label
                    /\ FormStep(Changed([ui.ed.topic EXCEPT !.label = l]))
onChangeGlobal == /\ User("form") /\ Footer /\ FormIdle /\ GlobalEnabled
                  /\ FormStep([Changed([ui.ed.topic EXCEPT !.global = ~@, !.folder = None]) EXCEPT !.ed.moved = TRUE])
OnFolderChange(f) == /\ User("form") /\ Footer /\ FormIdle
                     /\ f \in FormFolders \/ (f = None /\ ui.ed.topic.folder # None)
                     /\ FormStep([ui EXCEPT !.ed = onFolderChange(@, f, store.selected, store.full)])
FormNewFolder == /\ User("formFolder") /\ TopicForm
                 /\ FormStep([ui EXCEPT !.ed.newFolder = ~@])
SaveFormFolder == /\ User("formFolder") /\ TopicForm /\ ui.ed.newFolder
                  /\ Sent(store, ui, saveFolder("form", ui.ed.topic.global))
(* A topic this user may not edit is at once subscribed to on the server. *)
changeNotificationType(on) ==
    LET subs == IF on THEN ui.ed.topic.subs \cup {"me"} ELSE ui.ed.topic.subs \ {"me"}
    IN /\ User("subscribe") /\ TopicForm /\ on # subscribed(ui.ed.topic)
       /\ IF ui.ed.topic.id # None /\ ~canUserEditTopic(ui.ed.topic)
          THEN Sent(store, ui, updateTopic(ui.ed.topic, [subs |-> subs], None))
          ELSE FormStep(Changed([ui.ed.topic EXCEPT !.subs = subs]))
handleTabClick == /\ User("users") /\ Editing /\ ui.ed.tabs
                  /\ FormStep([ui EXCEPT !.ed.tab = IF @ = "topic" THEN "subscribers" ELSE "topic"])
changeUserNotifications(us) == /\ User("users") /\ Editing /\ ui.ed.tab = "subscribers"
                               /\ FormStep(Changed([ui.ed.topic EXCEPT !.subs = us]))
closeEditor == /\ User("edit") /\ Editing /\ ~ui.ed.saving
               /\ Go(Closed(store), ui, <<>>)
               /\ Quiet
SaveRequest(t) == IF t.id = None THEN [kind |-> "create", sect |-> store.menu,
                                       form |-> [global |-> t.global, folder |-> t.folder, label |-> t.label, subs |-> t.subs]]
                  ELSE [kind |-> "save", t |-> t.id, form |-> t]
saveTopic == Sent(store, [ui EXCEPT !.ed.saving = TRUE], SaveRequest(ui.ed.topic))
ClickSave == User("form") /\ (Footer \/ (Editing /\ ui.ed.tab = "subscribers")) /\ CanSave /\ saveTopic
(* Enter in the name submits the form whether or not the button may be clicked. *)
SubmitForm == /\ User("enter") /\ TopicForm /\ ~ui.ed.newFolder
              /\ isReadOnly \/ ui.ed.topic.label # ""
              /\ saveTopic

-------------------------------------------------------------------------------
(* Another user of the company, who manages its topics. *)
OtherSaves(t) ==
    /\ May("other") /\ t \in DOMAIN db.topics /\ (db.topics[t].global \/ db.topics[t].owner = "other")
    /\ \E g \in BOOLEAN, f \in {x \in db.folders : IsGlobal[x] /\ SectOf[x] = SectOf[t]} \cup {None} :
          /\ g \/ f = None
          /\ LET old == db.topics[t]
                 new == update_topic(old, [old EXCEPT !.global = g, !.folder = f])
             IN /\ new # [old EXCEPT !.ver = @ + 1]
                /\ db' = WithTopic(db, t, new)
    /\ pushes' = Append(pushes, "profile")
    /\ Writing
    /\ UNCHANGED <<store, ui, up, down, page>>
OtherDeletes(t) ==
    /\ May("other") /\ t \in DOMAIN db.topics /\ db.topics[t].global
    /\ db' = Without(db, {t})
    /\ pushes' = Append(pushes, "profile")
    /\ Writing
    /\ UNCHANGED <<store, ui, up, down, page>>

Init == /\ db = [topics |-> TopicDef, folders |-> Folders]
        /\ store = ProfileData(db, VisibleTopics)
        /\ ui = NoUI
        /\ up = <<>> /\ down = <<>> /\ pushes = <<>>
        /\ page = [url |-> None, active |-> None]
        /\ left = MaxWrites
Profile == \/ \E m \in {"profile", "topics", "events"} : UserProfileMenu(m) \/ manage_topics(m)
           \/ \E m \in {"topics", "events"}, l \in Labels : saveMyTopic(m, l)
           \/ ToggleDropdown \/ HideModal
           \/ \E t \in Ids : loadMyTopic(t)
List == \/ toggleGlobal \/ createNewFolder \/ CancelNewFolder \/ SaveNewFolder
        \/ \E f \in AllFolders : \/ setOpened(f) \/ toggleFolderPopover(f) \/ Rename(f) \/ CancelRename(f)
                                 \/ TopicFolderEditor(f) \/ deleteFolder(f)
        \/ \E t \in Ids : editTopic(t) \/ deleteTopic(t) \/ removeTopicFolder(t) \/ \E f \in AllFolders : DragTopic(t, f)
Editor == \/ \E l \in Labels \cup {""} : onChangeLabel(l)
          \/ onChangeGlobal \/ FormNewFolder \/ SaveFormFolder \/ handleTabClick \/ closeEditor \/ ClickSave \/ SubmitForm
          \/ \E f \in AllFolders \cup {None} : OnFolderChange(f)
          \/ \E on \in BOOLEAN : changeNotificationType(on)
          \/ \E us \in SUBSET Users : changeUserNotifications(us)
Next == \/ Profile \/ List \/ Editor
        \/ Process \/ Receive \/ Deliver
        \/ \E t \in Ids : OtherSaves(t) \/ OtherDeletes(t)
Spec == Init /\ [][Next]_vars

-------------------------------------------------------------------------------
(* Properties. *)
Rec == [owner : Users, global : BOOLEAN, folder : AllFolders \cup {None}, label : Labels \cup {""}, subs : SUBSET Users, ver : Nat]
IsTopic(t) == [f \in DOMAIN t \ {"id"} |-> t[f]] \in Rec
(* Topics are records by id; the editor is of the selected topic, new or not, and
   only while the profile shows the list. *)
TypeOK ==
    /\ \A t \in DOMAIN db.topics : t \in Ids /\ db.topics[t] \in Rec
    /\ \A t \in DOMAIN store.topics : t \in Ids /\ store.topics[t] \in Rec
    /\ store.folders \subseteq AllFolders /\ db.folders \subseteq AllFolders
    /\ ui.mounted <=> UserProfileApp(store)
    /\ store.selected # None => ui.mounted /\ IsTopic(store.selected)
    /\ Editing => store.selected # None /\ ui.ed.topic.id = store.selected.id /\ IsTopic(ui.ed.topic)
    /\ left \in 0..MaxWrites
(* A topic is in a folder of its own kind: of the company if it is shared, of the
   user if it is not, and of its section. A move, a shared topic that no longer is
   and a folder made in the form could each leave it where nobody lists it
   (TopicEditor.onChangeHandler, topics/views.update_topic, updateTopic). *)
FolderOfKind == \A t \in DOMAIN db.topics : LET f == db.topics[t].folder IN
    f # None => /\ IsGlobal[f] = db.topics[t].global
                /\ SectOf[f] = SectOf[t]
(* Once everything is answered the profile lists the user's topics as the server
   has them, in their folders: the changes made in the list, in the editor and by
   the deletion of a folder (FollowedTopics, user-profile/reducers). *)
ListFresh == Idle /\ ui.mounted =>
    LET there == {t \in DOMAIN VisibleTopics : /\ SectOf[t] = store.menu /\ db.topics[t].global = ui.showGlobal
                                             /\ db.topics[t].folder \in db.folders \cup {None}}
    IN /\ TopicList(store, ui) = there
       /\ \A t \in there : /\ store.topics[t].folder = db.topics[t].folder
                           /\ store.topics[t].label = db.topics[t].label
                           /\ store.topics[t].subs = db.topics[t].subs
(* A topic that is open is in the form in the folder it is listed in, unless the
   folder was changed in the form or a save, whose answer closes the form, is in
   flight: saving does not undo a move made in the list (TOPIC_UPDATED). *)
Saving(r) == r.kind = "save" \/ (r.kind = "topics" /\ r.then = "saved")
FormFollows ==
    /\ Editing /\ ui.ed.topic.id \in DOMAIN store.topics /\ ~ui.ed.moved
    /\ \A i \in DOMAIN up : ~Saving(up[i])
    /\ \A i \in DOMAIN down : ~Saving(down[i].r)
    => ui.ed.topic.folder = store.topics[ui.ed.topic.id].folder
(* Once everything is answered the page searches for the topic its URL names
   (TopicEditor.saveTopic, wire/actions.reloadMyTopics). *)
PageFollowsURL == Idle => page.active = page.url
===============================================================================
