-------------------------------- MODULE Osd --------------------------------
(***************************************************************************)
(* What is drawn over the picture: OSDApiHandler in the CGI, the osd table  *)
(* of dbserver, and the copy of its rows that mediaserver was last given.   *)
(*                                                                         *)
(* A PUT reads the table, drops the keys of its body that say nothing new,  *)
(* writes the rows of the others, reads the table again and hands those     *)
(* rows to mediaserver.  Every read, write and hand-over of a row is a D-Bus *)
(* call of its own.  The attribute (fonts and colours) is one thing to the  *)
(* page and ten copies in the table.                                       *)
(***************************************************************************)
EXTENDS Integers, Sequences, Functions

CONSTANTS
  Requests,    \* the CGI processes that may run at the same time
  Rows,        \* the rows of this table, by their id
  Values,      \* what an attribute, or a row's own settings, may be
  FirstValue,  \* the one the table is created with
  Mentions     \* the keys whose names occur in a value: texts are free

ASSUME RowsAssumption  == Rows \subseteq 0 .. 14 /\ 0 \in Rows
ASSUME ValueAssumption == FirstValue \in Values

\* the rows by their sType
Channel == 0
Dates   == Rows \cap {1}
Texts   == Rows \cap 2 .. 9
Masks   == Rows \cap 10 .. 13
Images  == Rows \cap {14}
Attributed == {Channel} \cup Dates \cup Texts

\* SetOsdTextRegion and SetOsdMaskRegion return at once for the others
Drawn == Rows \ (4 .. 9 \cup 11 .. 13)

\* the three resources, and the keys of their bodies in the order a json object
\* has them; normalizedScreenSize, which only the page looks at, is left out
Resources == {"overlays", "image", "privacy-mask"}
KeyOrder  == <<"attribute", "channelNameOverlay", "characterOverlay", "dateTimeOverlay",
               "imageOverlay", "privacyMask">>
AllKeys   == Range(KeyOrder)
KeyPlace  == Inverse(KeyOrder, DOMAIN KeyOrder, AllKeys)
KeysOf(resource) ==
  CASE resource = "overlays"     -> AllKeys \ {"imageOverlay", "privacyMask"}
    [] resource = "image"        -> {"imageOverlay"}
    [] resource = "privacy-mask" -> {"privacyMask"}
ASSUME MentionsAssumption == Mentions \in [Values -> SUBSET AllKeys]

RowsOf(key) ==
  CASE key = "attribute"          -> Attributed
    [] key = "channelNameOverlay" -> {Channel}
    [] key = "characterOverlay"   -> Texts
    [] key = "dateTimeOverlay"    -> Dates
    [] key = "imageOverlay"       -> Images
    [] key = "privacyMask"        -> Masks

RowsUsed(resource) == UNION {RowsOf(k) : k \in KeysOf(resource)}

\* one call per row of each key, keys and rows in order
Call        == AllKeys \X Rows
Calls(keys) == {c \in Call : c[1] \in keys /\ c[2] \in RowsOf(c[1])}
Before(c, d) ==
  \/ KeyPlace[c[1]] < KeyPlace[d[1]]
  \/ c[1] = d[1] /\ c[2] < d[2]
NextCalls(calls) == {c \in calls : \A d \in calls : ~Before(d, c)}
NextRows(rows)   == {r \in rows : \A s \in rows : r <= s}

VARIABLES
  db,       \* the osd table
  live,     \* osds_db_data_ of mediaserver, the rows it draws
  req       \* [Requests -> the locals of the handler]

vars == <<db, live, req>>

Row      == [attr : Values, own : Values]
FirstRow == [attr |-> FirstValue, own |-> FirstValue]
NoRows   == [r \in Rows |-> FirstRow]
Request  == [pc       : {"idle", "old", "set", "new"},
             resource : Resources,
             attr     : Values,             \* body: attribute
             own      : [Rows -> Values],   \* body: the rows
             left     : SUBSET Rows,        \* dbserver_osd_get: rows still to read
             seen     : [Rows -> Row],      \* the rows read
             kept     : SUBSET AllKeys,     \* keys not erased from the body
             todo     : SUBSET Call,        \* calls still to make
             alone    : BOOLEAN]            \* history: nobody else ran meanwhile
Idle == [pc |-> "idle", resource |-> "overlays", attr |-> FirstValue,
         own |-> [r \in Rows |-> FirstValue], left |-> {}, seen |-> NoRows,
         kept |-> {}, todo |-> {}, alone |-> FALSE]

-----------------------------------------------------------------------------
AllIdle == \A p \in Requests : req[p].pc = "idle"

\* what the body asks for, and what the handler found in the table when it began;
\* the attribute it finds is that of the first row
Asked(q, key, r) == IF key = "attribute" THEN q.attr ELSE q.own[r]
Found(q, key, r) == IF key = "attribute" THEN q.seen[Channel].attr ELSE q.seen[r].own

\* "Erase unchanged data" keeps a key whose name occurs anywhere in the text of the
\* differences: in the path of one, or in the value it brings
Differing(q) == {c \in Calls(KeysOf(q.resource)) : Asked(q, c[1], c[2]) # Found(q, c[1], c[2])}
Changed(q)   == KeysOf(q.resource)
                  \cap UNION {{c[1]} \cup Mentions[Asked(q, c[1], c[2])] : c \in Differing(q)}

Go(p, q) == req' = [req EXCEPT ![p] = q]

-----------------------------------------------------------------------------
\* PUT osd/overlays, osd/image or osd/privacy-mask
Put(p) ==
  /\ req[p].pc = "idle"
  /\ \E res \in Resources, a \in Values :
       LET rows == RowsUsed(res) IN
       /\ res = "overlays" \/ a = FirstValue
       /\ rows # {}
       /\ \E o \in [rows -> Values] :
            req' = [s \in Requests |->
              IF s = p
              THEN [Idle EXCEPT !.pc = "old", !.resource = res, !.attr = a, !.left = rows,
                      !.own = [r \in Rows |-> IF r \in rows THEN o[r] ELSE FirstValue],
                      !.alone = AllIdle]
              ELSE [req[s] EXCEPT !.alone = FALSE]]
  /\ UNCHANGED <<db, live>>

\* one row of dbserver_osd_get, which reads them in order (the reads of rows that
\* the keys of this body do not look at are left out)
WithRow(q, r) == [q EXCEPT !.left = @ \ {r}, !.seen[r] = db[r]]

ReadRow(p) ==
  /\ \E r \in NextRows(req[p].left) :
       /\ req[p].pc = "new" \/ (req[p].pc = "old" /\ req[p].left # {r})
       /\ Go(p, WithRow(req[p], r))
  /\ UNCHANGED <<db, live>>

\* the last row is read and the unchanged keys are erased from the body
Compare(p) ==
  /\ req[p].pc = "old"
  /\ \E r \in Rows :
       LET q == WithRow(req[p], r)
           keys == Changed(q)
           erased == KeysOf(q.resource) \ keys
       IN /\ req[p].left = {r}
          /\ Go(p, [q EXCEPT !.pc = "set", !.kept = keys, !.todo = Calls(keys),
                      !.attr = IF "attribute" \in erased THEN FirstValue ELSE @,
                      !.own = [s \in Rows |->
                        IF \E k \in erased \ {"attribute"} : s \in RowsOf(k)
                        THEN FirstValue ELSE q.own[s]]])
  /\ UNCHANGED <<db, live>>

\* defect: the ids of the texts are shifted one too far, and the table makes a
\* row for an id it does not have
SetRowPast(p) ==
  /\ req[p].pc = "set"
  /\ \E c \in NextCalls(req[p].todo) :
       LET r == IF c[1] = "characterOverlay" THEN c[2] + 1 ELSE c[2]
       IN /\ db' = [x \in DOMAIN db \cup {r} |->
                      IF x # r THEN db[x]
                      ELSE [attr |-> req[p].attr, own |-> req[p].own[c[2]]]]
          /\ Go(p, [req[p] EXCEPT !.todo = @ \ {c}])
  /\ UNCHANGED live

\* osd_overlays_set, osd_image_set, osd_privacy_mask_set: dbserver_media_set
SetRow(p) ==
  /\ req[p].pc = "set"
  /\ \E c \in NextCalls(req[p].todo) :
       /\ db' = IF c[1] = "attribute"
                THEN [db EXCEPT ![c[2]].attr = req[p].attr]
                ELSE [db EXCEPT ![c[2]].own = req[p].own[c[2]]]
       /\ Go(p, [req[p] EXCEPT !.todo = @ \ {c}])
  /\ UNCHANGED live

\* osd_set_mediaserver: dbserver_osd_get once more, from its first row; of the body
\* only the keys count from now on ...
Reread(p) ==
  /\ req[p].pc = "set" /\ req[p].todo = {}
  /\ \E r \in NextRows(RowsUsed(req[p].resource)) :
       Go(p, WithRow([req[p] EXCEPT !.pc = "new", !.left = RowsUsed(req[p].resource),
                                    !.seen = NoRows, !.todo = Calls(req[p].kept),
                                    !.attr = FirstValue, !.own = Idle.own], r))
  /\ UNCHANGED <<db, live>>

\* defect: the attribute is handed over for the first row only
HandOverFirst(p) ==
  /\ req[p].pc = "new" /\ req[p].left = {}
  /\ \E c \in NextCalls(req[p].todo) :
       /\ live' = IF c[2] \in Drawn /\ (c[1] = "attribute" => c[2] = Channel)
                  THEN [live EXCEPT ![c[2]] = req[p].seen[c[2]]] ELSE live
       /\ Go(p, [req[p] EXCEPT !.todo = @ \ {c}])
  /\ UNCHANGED db

\* ... and mediaserver_set with the whole row
HandOver(p) ==
  /\ req[p].pc = "new" /\ req[p].left = {}
  /\ \E c \in NextCalls(req[p].todo) :
       /\ live' = IF c[2] \in Drawn THEN [live EXCEPT ![c[2]] = req[p].seen[c[2]]] ELSE live
       /\ Go(p, [req[p] EXCEPT !.todo = @ \ {c}])
  /\ UNCHANGED db

Answer(p) ==
  /\ req[p].pc = "new" /\ req[p].left = {} /\ req[p].todo = {}
  /\ Go(p, Idle)
  /\ UNCHANGED <<db, live>>

-----------------------------------------------------------------------------
\* mediaserver has read the table when it started
Init ==
  /\ db = NoRows
  /\ live = [r \in Drawn |-> FirstRow]
  /\ req = [p \in Requests |-> Idle]

Handler(p) == \/ Put(p) \/ ReadRow(p) \/ Compare(p) \/ SetRow(p)
              \/ Reread(p) \/ HandOver(p) \/ Answer(p)

Next == \E p \in Requests : Handler(p)

Spec == Init /\ [][Next]_vars

-----------------------------------------------------------------------------
(* Correctness.                                                            *)

\* Table, overlay and handlers stay within their shapes.
TypeOK ==
  /\ db \in [Rows -> Row]
  /\ live \in [Drawn -> Row]
  /\ req \in [Requests -> Request]

\* Whatever races have left behind, a PUT that runs alone leaves every row of the keys
\* it does not erase as its body asks, in the table when it is through with the writing,
\* and on the picture as in the table when it answers (osd_api.cpp:350).
Stored(key, r) == IF key = "attribute" THEN db[r].attr ELSE db[r].own

LoneRequestWins ==
  [][\A p \in Requests : req[p].alone =>
       \A k \in req[p].kept : \A r \in RowsOf(k) :
         /\ Reread(p) => Asked(req[p], k, r) = Stored(k, r)
         /\ Answer(p) /\ r \in Drawn => live[r] = db[r]]_vars
=============================================================================
