------------------------------ MODULE ItemContent ------------------------------
(* What the web client draws of a wire story: which of its media and where
   (assets/wire/utils.ts, MediaPreview.tsx), the image and the buttons of its row
   (WireListItem.tsx), the line of fields (assets/wire/components/fields/index.tsx)
   and the excerpt with the words searched for (shortHighlightedtext).

   Media are known by their guid. The associations are a sequence, as the browser
   keeps the order of their keys. A field configuration has groups of one level. A
   text is a sequence of nodes of one word each. *)
EXTENDS Integers, Sequences, FiniteSets, SequencesExt

CONSTANTS Stories,   \* [type, killed, ancestors, associations]; an association is [key, type, guid, renditions]
          Embedded,  \* the keys that begin with editor_: media of the body
          Configs,   \* configurations of the line of fields
          Mapped,    \* the fields that have a component of their own
          Fields,    \* the other fields
          Texts,     \* sequences over {"word", "highlight"}
          MaxLength, None

VARIABLES story,    \* the story in the list and in the pane, or None
          fields,   \* the configuration of the line of fields, and the fields the story has
          text      \* the highlighted text
vars == <<story, fields, text>>

Media == {"picture", "video", "audio"}
Self(s) == [key |-> "self", type |-> s.type, guid |-> "self", renditions |-> TRUE]

-------------------------------------------------------------------------------
(* Media. *)

associated(s, T(_)) == SelectSeq(s.associations, T)
FirstOf(seq) == IF seq = <<>> THEN None ELSE seq[1]
getBodyPicture(s) == FirstOf(associated(s, LAMBDA a : a.type = "picture"))
\* The story itself, what is set as its feature, or the first of its pictures.
getFeatureMedia(s) ==
    IF s.type \in Media THEN Self(s)
    ELSE LET featured == FirstOf(associated(s, LAMBDA a : a.key = "featuremedia" /\ a.type \in Media))
         IN  IF featured # None THEN featured ELSE getBodyPicture(s)
getOtherMedia(s) ==
    IF s.type \in Media THEN <<>>
    ELSE associated(s, LAMBDA a : a.key \notin Embedded \union {"featuremedia"} /\ a.type \in {"video", "audio"})
getBodyPictureList(s) == associated(s, LAMBDA a : a.key \notin Embedded)
getPictureList(s) ==
    LET feature == getFeatureMedia(s)
    IN  SelectSeq(getBodyPictureList(s),
                  LAMBDA a : a.type = "picture" /\ (feature # None => a.guid # feature.guid))
getContentTypes(s) == {s.type} \union {s.associations[n].type : n \in DOMAIN s.associations}

\* A picture needs its renditions, video and audio the original one; nothing is drawn of a killed story.
ArticlePicture(s, m) == IF m.renditions /\ ~s.killed THEN <<m.guid>> ELSE <<>>
ArticleMedia(s, m) == IF m.renditions /\ ~s.killed THEN <<m.guid>> ELSE <<>>
MediaPreview(s, m) == IF m.type = "picture" THEN ArticlePicture(s, m) ELSE ArticleMedia(s, m)

\* The guids a pane shows above the text, then below it.
Drawn(s) ==
    LET feature == getFeatureMedia(s)
        others == getOtherMedia(s)
        gallery == getPictureList(s)
    IN  (IF feature = None THEN <<>> ELSE MediaPreview(s, feature))
            \o FlattenSeq([n \in DOMAIN gallery |-> MediaPreview(s, gallery[n])])
            \o FlattenSeq([n \in DOMAIN others |-> ArticleMedia(s, others[n])])

getThumbnailRendition(m) == m.renditions
\* The feature, if it has a thumbnail; without a feature the first picture that has one.
getImageForList(s) ==
    LET feature == getFeatureMedia(s)
        pictures == SelectSeq(getPictureList(s), LAMBDA a : getThumbnailRendition(a))
    IN  IF feature # None THEN IF getThumbnailRendition(feature) THEN feature.guid ELSE None
        ELSE IF pictures = <<>> THEN None ELSE pictures[1].guid

\* The row: its icons, its image, and how many previous versions its button counts.
WireListItem(s) ==
    [icons |-> getContentTypes(s) \intersect (Media \union {"text"}),
     image |-> IF s.killed THEN None ELSE getImageForList(s),
     versions |-> IF s.killed THEN 0 ELSE s.ancestors]

-------------------------------------------------------------------------------
(* The line of fields. An entry of a configuration is [kind, field]: a "separator",
   a "field", a "styled" field or a "component" for one; or a "group" of entries. *)

Separator == <<"separator">>
Nothing == [key |-> <<>>, draws |-> <<>>]
Throws == [key |-> <<"throws">>, draws |-> <<>>]
isStringField(e, has) == e.kind \in {"field", "styled"} /\ e.field \in Mapped \union has
getComponentForEntry(e, has) ==
    CASE e.kind = "separator" -> [key |-> Separator, draws |-> <<"separator">>]
      [] isStringField(e, has) -> [key |-> <<e.field>>, draws |-> <<e.field>>]
      [] e.kind = "component" -> [key |-> <<e.field>>, draws |-> <<"version type">>]
      [] OTHER -> Nothing
\* A separator at the end of a group is removed; a group without any entry has no last one.
Group(e, has) ==
    LET parts == SelectSeq([n \in DOMAIN e.entries |-> getComponentForEntry(e.entries[n], has)], LAMBDA r : r # Nothing)
        kept == IF parts # <<>> /\ Last(parts).key = Separator THEN Front(parts) ELSE parts
    IN  IF parts = <<>> THEN Throws
        ELSE [key |-> FlattenSeq([n \in DOMAIN kept |-> kept[n].key]), draws |-> FlattenSeq([n \in DOMAIN kept |-> kept[n].draws])]
getComponentForField(e, has) == IF e.kind = "group" THEN Group(e, has) ELSE getComponentForEntry(e, has)

\* The parts that are drawn: without those that have the key of the one before them.
FieldComponents(config, has) ==
    LET results == SelectSeq([n \in DOMAIN config |-> getComponentForField(config[n], has)], LAMBDA r : r # Nothing)
        kept == SelectSeq([n \in DOMAIN results |-> n], LAMBDA n : n = 1 \/ results[n].key # results[n - 1].key)
    IN  [n \in DOMAIN kept |-> results[kept[n]]]

-------------------------------------------------------------------------------
(* The excerpt: for each highlighted node, the node before it unless it has just been
   taken as the one after another, the node itself, and the node after it. *)

Around(t, k, last) ==
    (IF k = 1 \/ last = k - 1 THEN <<>> ELSE <<k - 1>>) \o <<k>> \o (IF k = Len(t) THEN <<>> ELSE <<k + 1>>)
shortHighlightedtext(t) ==
    FlattenSeq([k \in DOMAIN t |->
        IF t[k] = "highlight" THEN Around(t, k, IF k > 2 /\ t[k - 2] = "highlight" THEN k - 1 ELSE 0) ELSE <<>>])

-------------------------------------------------------------------------------
Init == story = None /\ fields = None /\ text = <<>>
Show(s) == story = None /\ story' = s /\ UNCHANGED <<fields, text>>
Configure(c, has) == fields = None /\ fields' = [config |-> c, has |-> has] /\ UNCHANGED <<story, text>>
Search(t) == text = <<>> /\ text' = t /\ UNCHANGED <<story, fields>>
Close == vars # <<None, None, <<>>>> /\ story' = None /\ fields' = None /\ text' = <<>>
Next == \/ \E s \in Stories : Show(s)
        \/ \E c \in Configs, has \in SUBSET Fields : Configure(c, has)
        \/ \E t \in Texts : Search(t)
        \/ Close
Spec == Init /\ [][Next]_vars

-------------------------------------------------------------------------------
(* Properties. *)

Times(x, seq) == Len(SelectSeq(seq, LAMBDA y : y = x))
IsText(s) == s # None /\ s.type = "text" /\ ~s.killed
\* Every picture, video and audio of a story that is not embedded in its text is shown once,
\* as the feature, in the gallery or below the text (getFeatureMedia, getPictureList and
\* getOtherMedia divide them).
MediaOnce ==
    IsText(story) => \A n \in DOMAIN story.associations :
        LET a == story.associations[n]
        IN  a.key \notin Embedded /\ a.type \in Media /\ a.renditions => Times(a.guid, Drawn(story)) = 1
\* The image of the row is one the pane shows, too (getImageForList).
ListImageShown ==
    story # None /\ WireListItem(story).image # None => Times(WireListItem(story).image, Drawn(story)) = 1

Row == FieldComponents(fields.config, fields.has)
\* The line never has two separators in a row, whatever fields are missing ("remove adjacent separators").
NoAdjacentSeparators ==
    fields # None => \A n \in 2 .. Len(Row) : ~(Row[n].key = Separator /\ Row[n - 1].key = Separator)
\* Every word searched for is in the excerpt once, and so is every word next to one, as long
\* as no two of them touch (shortHighlightedtext).
Apart(t) == \A k \in 2 .. Len(t) : ~(t[k] = "highlight" /\ t[k - 1] = "highlight")
NextToHighlight(t, k) == \E j \in {k - 1, k, k + 1} \intersect DOMAIN t : t[j] = "highlight"
ExcerptOnce ==
    Apart(text) => \A k \in DOMAIN text : Times(k, shortHighlightedtext(text)) = IF NextToHighlight(text, k) THEN 1 ELSE 0

===============================================================================
