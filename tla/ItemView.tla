------------------------------- MODULE ItemView -------------------------------
(* An opened story: its body, the boxes of its previous and next versions and of
   its agenda, its embargo label and the Follow story button (assets/wire/components
   and ArticleBodyHtml).

   The preview of a list is drawn anew for each story (its key is the story's id);
   the full view keeps its parts when another version is opened from one of its
   boxes, so each part has to notice that the story changed. Each part asks the
   server on its own. The stories are those the server has and do not change while
   the page is open. Wording and what the boxes say of a story are left out. *)
EXTENDS Integers, Sequences, FiniteSets, SequencesExt

CONSTANTS Items, None,
          Ancestors,     \* Ancestors[i]: the earlier versions of i, newest first
          NextVersion,   \* NextVersion[i], or None
          Killed,        \* the stories that are killed
          Body,          \* Body[i]: its text, or None
          AgendaOf,      \* AgendaOf[i]: the agenda item it is linked to, or None
          Slugline,      \* Slugline[i], or None
          Embargo,       \* Embargo[i]: the time it is lifted; 0 when there is none
          Pane,          \* "preview", "details" or "home" (the full view of the home page)
          Sections,      \* the parts the configuration displays
          Acts, AnyOrder, MayFail, Waits, MaxFlight, MaxTime

ItemViewAssumption ==
    /\ {AnyOrder, MayFail, Waits} \subseteq BOOLEAN
    /\ Pane \in {"preview", "details", "home"}
    /\ None \notin Items

VARIABLES shown,     \* the story the pane shows, or None
          body,      \* the text in the document, and whether copies and clicks are listened to
          previous,  \* the box of the previous versions
          next,      \* the box of the next version
          links,     \* the agenda item of the box of the agenda, or None
          label,     \* the embargo label: whose embargo it has, whether its timer is set, whether it was redrawn
          editor,    \* the story whose Follow button was clicked, and the one the topic editor is opened for
          flight,    \* answers on their way
          now
vars == <<shown, body, previous, next, links, label, editor, flight, now>>

May(act) == act \in Acts
isDisplayed(part) == part \in Sections
NoBody == [text |-> None, listening |-> FALSE]
NoPrevious == [mounted |-> FALSE, versions |-> <<>>, loading |-> FALSE]
NoNext == [mounted |-> FALSE, item |-> None]
NoLabel == [mounted |-> FALSE, embargo |-> 0, timer |-> FALSE, redrawn |-> FALSE]

-------------------------------------------------------------------------------
(* What a pane draws of a story. *)

showItemVersions(i, nextToo) == i \notin Killed /\ (nextToo \/ Ancestors[i] # <<>>)
getEmbargo(i) == IF Embargo[i] > now THEN Embargo[i] ELSE 0

\* The parts that a story has in the pane.
WirePreview(i) ==
    {p \in {"body", "links", "label"} : isDisplayed(p)}
        \union {p \in {"previous"} : isDisplayed("versions") /\ showItemVersions(i, FALSE)}
ItemDetails(i) ==
    WirePreview(i) \union {p \in {"next"} : isDisplayed("versions") /\ showItemVersions(i, TRUE)}
Parts(i) == IF i = None THEN {} ELSE IF Pane = "preview" THEN WirePreview(i) ELSE ItemDetails(i)
\* The pane is the same one, given another story.
SamePane(i) == shown # None /\ i # None /\ (Pane = "preview" => i = shown)
Kept(i) == IF SamePane(i) THEN Parts(shown) \intersect Parts(i) ELSE {}
Mounted(i) == Parts(i) \ Kept(i)

\* The text is put into the document only when the part is mounted.
ArticleBodyHtml(i) ==
    IF "body" \in Mounted(i) THEN [text |-> Body[i], listening |-> Body[i] # None]
    ELSE IF "body" \in Kept(i) THEN body ELSE NoBody

\* The versions of a story are asked for at mounting, and when its id is another.
ListItemPreviousVersions(i) ==
    IF "previous" \in Mounted(i) THEN [mounted |-> TRUE, versions |-> <<>>, loading |-> TRUE]
    ELSE IF "previous" \in Kept(i) THEN previous ELSE NoPrevious
\* Mutant: only asked for at mounting.
AsksVersionsOnce(i) == "previous" \in Mounted(i)
AsksVersions(i) == "previous" \in Mounted(i) \/ ("previous" \in Kept(i) /\ shown # i)

ListItemNextVersion(i) ==
    IF "next" \in Mounted(i) THEN [mounted |-> TRUE, item |-> None]
    ELSE IF "next" \in Kept(i)
         THEN IF NextVersion[shown] # None /\ NextVersion[i] = None THEN [next EXCEPT !.item = None] ELSE next
         ELSE NoNext
\* Without a next version the promise is rejected at once.
AsksNext(i) == /\ "next" \in Mounted(i) \/ ("next" \in Kept(i) /\ NextVersion[shown] # NextVersion[i])
               /\ NextVersion[i] # None

AgendaLinks(i) == IF "links" \in Kept(i) /\ shown = i THEN links ELSE None
AsksLinks(i) == "links" \in Mounted(i) \/ ("links" \in Kept(i) /\ shown # i)

\* The embargo is read when the label is mounted; the timer is set when it is lifted
\* within 48 hours (two units of time).
EmbargoLabel(i) ==
    IF "label" \in Mounted(i)
    THEN [mounted |-> TRUE, embargo |-> getEmbargo(i), redrawn |-> FALSE,
          timer |-> getEmbargo(i) # 0 /\ Embargo[i] - now < 2]
    ELSE IF "label" \in Kept(i) THEN label ELSE NoLabel

\* What the label says: "red" while the story is embargoed.
LabelColour == IF ~label.mounted \/ (label.embargo = 0 /\ ~label.redrawn) THEN "none"
               ELSE IF label.redrawn THEN "green" ELSE "red"
ArticleEmbargoed(i) == getEmbargo(i) # 0

FollowStory(i) == isDisplayed("follow") /\ Slugline[i] # None

-------------------------------------------------------------------------------
Ask(kind, i) == [kind |-> kind, of |-> i]
\* Answers for parts that are gone have nobody to take them.
Heard(i) == SelectSeq(flight, LAMBDA r : r.kind \in Kept(i))
Show(i) ==
    LET asked == (IF AsksVersions(i) THEN <<Ask("previous", i)>> ELSE <<>>)
                    \o (IF AsksNext(i) THEN <<Ask("next", i)>> ELSE <<>>)
                    \o (IF AsksLinks(i) THEN <<Ask("links", i)>> ELSE <<>>)
    IN  /\ Len(Heard(i) \o asked) <= MaxFlight
        /\ shown' = i
        /\ body' = ArticleBodyHtml(i)
        /\ previous' = ListItemPreviousVersions(i)
        /\ next' = ListItemNextVersion(i)
        /\ links' = AgendaLinks(i)
        /\ label' = EmbargoLabel(i)
        /\ flight' = Heard(i) \o asked
        /\ UNCHANGED <<editor, now>>

Quiet == flight = <<>>
NoEditor == [clicked |-> None, opened |-> None]
MayAct(act) == May(act) /\ editor = NoEditor /\ (Waits => Quiet)

-------------------------------------------------------------------------------
(* What the user does. *)

\* Opened from the list; the full view covers the list.
Open(i) == MayAct("open") /\ (shown = None \/ Pane = "preview") /\ Show(i)
Close == MayAct("close") /\ shown # None /\ Show(None)
\* A click on a version of one of the boxes opens it; in a preview this is the full view.
OpenPrevious(n) ==
    /\ MayAct("version") /\ Pane # "preview"
    /\ previous.mounted /\ ~previous.loading /\ n \in DOMAIN previous.versions
    /\ Show(previous.versions[n])
OpenNext == MayAct("version") /\ next.item # None /\ Show(next.item)

\* On the home page the function that opens the editor is made and never called.
followStory(i) == editor' = [clicked |-> i, opened |-> IF Pane = "home" THEN None ELSE i]
Follow == /\ MayAct("follow") /\ shown # None /\ FollowStory(shown) /\ followStory(shown)
          /\ UNCHANGED <<shown, body, previous, next, links, label, flight, now>>
CloseEditor == /\ editor # NoEditor /\ editor' = NoEditor
               /\ UNCHANGED <<shown, body, previous, next, links, label, flight, now>>

-------------------------------------------------------------------------------
(* Answers, and time. *)

fetchVersions(r, ok) == previous' = IF ok THEN [previous EXCEPT !.versions = Ancestors[r.of], !.loading = FALSE]
                                    ELSE previous
fetchNext(r, ok) == next' = [next EXCEPT !.item = IF ok THEN NextVersion[r.of] ELSE None]
fetchAgendaData(r, ok) == links' = IF ok THEN AgendaOf[r.of] ELSE None
Answer(n, ok) ==
    LET r == flight[n]
    IN  /\ AnyOrder \/ n = 1
        /\ ok \/ MayFail
        /\ flight' = RemoveAt(flight, n)
        /\ \/ r.kind = "previous" /\ fetchVersions(r, ok) /\ UNCHANGED <<next, links>>
           \/ r.kind = "next" /\ fetchNext(r, ok) /\ UNCHANGED <<previous, links>>
           \/ r.kind = "links" /\ fetchAgendaData(r, ok) /\ UNCHANGED <<previous, next>>
        /\ UNCHANGED <<shown, body, label, editor, now>>

DueTimer == label.timer /\ label.embargo <= now
Timeout == /\ DueTimer
           /\ label' = [label EXCEPT !.timer = FALSE, !.redrawn = TRUE, !.embargo = getEmbargo(shown)]
           /\ UNCHANGED <<shown, body, previous, next, links, editor, flight, now>>
Tick == /\ now < MaxTime /\ ~DueTimer /\ now' = now + 1
        /\ UNCHANGED <<shown, body, previous, next, links, label, editor, flight>>

Init == /\ shown = None /\ body = NoBody /\ previous = NoPrevious /\ next = NoNext /\ links = None
        /\ label = NoLabel /\ editor = NoEditor /\ flight = <<>> /\ now = 0
Next == \/ \E i \in Items : Open(i)
        \/ Close \/ OpenNext \/ Follow \/ CloseEditor \/ Timeout \/ Tick
        \/ \E n \in DOMAIN previous.versions : OpenPrevious(n)
        \/ \E n \in DOMAIN flight, ok \in BOOLEAN : Answer(n, ok)
\* Every request is answered sooner or later.
Spec == Init /\ [][Next]_vars /\ WF_vars(\E n \in DOMAIN flight, ok \in BOOLEAN : Answer(n, ok))

-------------------------------------------------------------------------------
(* Properties. *)

TypeOK ==
    /\ shown \in Items \union {None} /\ {editor.clicked, editor.opened} \subseteq Items \union {None}
    /\ body.text \in {Body[i] : i \in Items} \union {None} /\ body.listening \in BOOLEAN
    /\ previous.mounted \in BOOLEAN /\ previous.loading \in BOOLEAN
    /\ previous.versions \in {Ancestors[i] : i \in Items} \union {<<>>}
    /\ next.mounted \in BOOLEAN /\ next.item \in Items \union {None}
    /\ links \in {AgendaOf[i] : i \in Items} \union {None}
    /\ label.mounted \in BOOLEAN /\ label.timer \in BOOLEAN /\ label.redrawn \in BOOLEAN
    /\ \A n \in DOMAIN flight : flight[n].kind \in {"previous", "next", "links"} /\ flight[n].of \in Items
    /\ now \in 0 .. MaxTime

\* The text in the pane is that of the story it shows (ArticleBodyHtml writes it only at
\* mounting, so it relies on the key of the pane).
BodyOfShown == shown # None /\ isDisplayed("body") => body = [text |-> Body[shown], listening |-> Body[shown] # None]
\* When all is answered, the boxes of the previous versions, of the next one and of the
\* agenda are those of the story shown (ListItemPreviousVersions.tsx, ListItemNextVersion.tsx,
\* AgendaLinks.tsx: each asks again when the story changes).
PreviousAgrees == Quiet /\ previous.mounted => previous.versions = Ancestors[shown] /\ ~previous.loading
NextAgrees == Quiet /\ next.mounted => next.item = NextVersion[shown]
LinksAgree == Quiet /\ shown # None /\ isDisplayed("links") => links = AgendaOf[shown]
\* The label among the fields and the line above the text agree on the embargo, also
\* when it is lifted while the story is open (Embargo.tsx, ArticleEmbargoed.tsx).
EmbargoAgrees == label.mounted /\ ~DueTimer => ((LabelColour = "red") <=> ArticleEmbargoed(shown))

===============================================================================
