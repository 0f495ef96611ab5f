------------------------------ MODULE Painter ------------------------------
(***************************************************************************)
(* The overlay painter of mediaserver (src/thirdparty/mediaserver/src/     *)
(* utils/osd/osd_server.cpp).  Two threads share, without a lock, one      *)
(* record per region (osds_db_data_) and one flag per region               *)
(* (osds_db_data_change_):                                                 *)
(*   - the D-Bus thread writes the fields of the region a request changed  *)
(*     and raises its flag (SetOsdRegion and the functions it calls);      *)
(*   - the painter draws, pass after pass, every region whose flag is up   *)
(*     and hands the drawing to the encoder (ServerProcess).               *)
(*                                                                         *)
(* A record is reduced to the two parts that are read at different moments *)
(* of a painting: "look" (the text, or the size of a picture or a mask:    *)
(* read when the buffer is measured and drawn) and "place" (enable, x, y:  *)
(* read when the region is handed to the encoder).  The size is read again *)
(* then.  Font and colour, which go with the look, are left out.           *)
(*                                                                         *)
(* When UpdateText has painted the texts it looks for a debug word in the  *)
(* first of them (built with ENABLE_DBUS).  It then shows a reading of the *)
(* camera in its stead, through the same record: the reading takes the     *)
(* place of the text and the text is put back after the hand-over.         *)
(*                                                                         *)
(* The blinking frame of the intrusion region (UpdateBlink), which has no  *)
(* flag, is left out, and so are the regions that UpdateText and           *)
(* UpdateMask only note as "TODO".                                         *)
(***************************************************************************)
EXTENDS Naturals

CONSTANTS
  Texts,         \* the regions UpdateText draws: of CHANNEL, TEXT0 and TEXT1
  Looks, Places, \* the values of the two parts
  Debugging,     \* the debug words among the texts: "tempon" and "ispdebugon"
  Reading,       \* what is shown in their stead: a temperature, an exposure dump
  Torn,          \* a buffer of one size handed over with another
  Empty,         \* a value that a request leaves empty
  Blank,         \* what the encoder shows of a region before its first paint
  Opening,       \* the records the rows may have been read into at the start
  Passes,        \* UpdateText runs once in so many passes (30 in the code)
  MaxSettings    \* bound: requests handed over in one behaviour

ASSUME PainterAssumption ==
  /\ Texts \subseteq {"CHANNEL", "TEXT0", "TEXT1"}
  /\ Empty \notin Looks \cup Places
  /\ Debugging \subseteq Looks
  /\ Passes \in Nat \ {0}
  /\ MaxSettings \in Nat

Regions == Texts \cup {"DATETIME", "IMAGE", "MASK0"}
Region == [look : Looks, place : Places]
Map == [look : Looks \cup {Empty}, place : Places \cup {Empty}]

ASSUME OpeningAssumption == Opening \subseteq [Regions -> Region]

VARIABLES
  data,       \* osds_db_data_
  change,     \* osds_db_data_change_
  shown,      \* the regions as the encoder has them
  bus,        \* the D-Bus thread: the region and the values it is writing
  settings,   \* how many requests have been handed over
  ticked,     \* the second has changed since datetime_wstr_ was made
  datetime,   \* the format that datetime_wstr_ was made of
  painter,    \* the painter thread: where it is, at which region, what it drew
  time_count, \* ServerProcess's local of that name
  overtaken,  \* history: regions whose flag fell with settings unread
  asked,      \* history: the records as the requests alone have written them
  undone      \* history: the last text of TEXT0 came while a reading stood for it

history == <<asked, undone>>
vars == <<data, change, shown, bus, settings, ticked, datetime, painter,
          time_count, overtaken, history>>

Idle == [at |-> "idle"]
At(pc) == painter.at = pc
Goes(pc) == painter' = [at |-> pc]
Swapped == painter.at \in {"redraw", "rehand", "restore"}

(***************************************************************************)
(* The constructor: ParseDbConfig has set every region from its row, which *)
(* raises its flag, and the encoder has been told to show none of them.    *)
(***************************************************************************)
Init ==
  /\ data \in Opening
  /\ change = [r \in Regions |-> TRUE]
  /\ shown = [r \in Regions |-> [look |-> Blank, place |-> Blank]]
  /\ bus = Idle
  /\ settings = 0
  /\ ticked = TRUE
  /\ datetime = Blank
  /\ painter = [at |-> "date"]
  /\ time_count = 0
  /\ overtaken = {}
  /\ asked = data
  /\ undone = FALSE

(***************************************************************************)
(* The D-Bus thread.                                                       *)
(***************************************************************************)
\* The date's record is written font first, the others' position first.
FieldsOf(r) == IF r = "DATETIME" THEN <<"look", "place">> ELSE <<"place", "look">>

SetOsdRegion(r, m) ==
  /\ bus = Idle
  /\ settings < MaxSettings
  /\ settings' = settings + 1
  /\ bus' = [at |-> "first", region |-> r, map |-> m]
  /\ UNCHANGED <<data, change, shown, ticked, datetime, painter, time_count,
                 overtaken, history>>

\* "if (!map[...].empty())": a value that is empty leaves the field alone.
Take(r, f) ==
  IF bus.map[f] = Empty
  THEN UNCHANGED <<data, history>>
  ELSE /\ data' = [data EXCEPT ![r][f] = bus.map[f]]
       /\ asked' = [asked EXCEPT ![r][f] = bus.map[f]]
       /\ undone' = IF r = "TEXT0" /\ f = "look" THEN Swapped ELSE undone

WriteFirst ==
  /\ bus.at = "first"
  /\ Take(bus.region, FieldsOf(bus.region)[1])
  /\ bus' = [bus EXCEPT !.at = "second"]
  /\ UNCHANGED <<change, shown, settings, ticked, datetime, painter, time_count,
                 overtaken>>

WriteSecond ==
  /\ bus.at = "second"
  /\ Take(bus.region, FieldsOf(bus.region)[2])
  /\ bus' = [bus EXCEPT !.at = "flag"]
  /\ UNCHANGED <<change, shown, settings, ticked, datetime, painter, time_count,
                 overtaken>>

\* The painter will lower the flag of r before it reads r again.
WillLower(r) ==
  /\ r \in Texts \cup {"IMAGE"}
  /\ painter.at \in {"push", "clear"}
  /\ painter.region = r

RaiseFlag ==
  /\ bus.at = "flag"
  /\ change' = [change EXCEPT ![bus.region] = TRUE]
  /\ overtaken' = IF WillLower(bus.region) THEN overtaken \cup {bus.region}
                                           ELSE overtaken \ {bus.region}
  /\ bus' = Idle
  /\ UNCHANGED <<data, shown, settings, ticked, datetime, painter, time_count,
                 history>>

(***************************************************************************)
(* The painter.  Draw measures the region and fills its buffer; Push hands *)
(* it to the encoder with the position as it is by then.                   *)
(***************************************************************************)
Draw(r, rest) ==
  painter' = [at |-> "push", region |-> r, look |-> data[r].look, rest |-> rest]

Second ==
  /\ ~ticked
  /\ ticked' = TRUE
  /\ UNCHANGED <<data, change, shown, bus, settings, datetime, painter,
                 time_count, overtaken,
                 history>>

\* UpdateTimeDate looks at no flag: it paints when the string has changed.  The
\* string has another look when the format has changed, not when colour or size have.
UpdateTimeDate ==
  /\ At("date")
  /\ \/ /\ ticked \/ datetime # data["DATETIME"].look
        /\ Draw("DATETIME", {})
        /\ datetime' = data["DATETIME"].look
     \/ ~ticked /\ Goes("image") /\ UNCHANGED datetime
  /\ ticked' = FALSE
  /\ UNCHANGED <<data, change, shown, bus, settings, time_count, overtaken, history>>

UpdateImage ==
  /\ At("image")
  /\ IF change["IMAGE"] THEN Draw("IMAGE", {}) ELSE Goes("mask")
  /\ UNCHANGED <<data, change, shown, bus, settings, ticked, datetime, time_count,
                 overtaken, history>>

\* UpdateMask lowers its flag before it reads the region.
UpdateMask ==
  /\ At("mask")
  /\ change' = [change EXCEPT !["MASK0"] = FALSE]
  /\ IF change["MASK0"] THEN Goes("maskDraw") ELSE Goes("blink")
  /\ UNCHANGED <<data, shown, bus, settings, ticked, datetime, time_count, overtaken,
                 history>>

MaskDraw ==
  /\ At("maskDraw")
  /\ Draw("MASK0", {})
  /\ UNCHANGED <<data, change, shown, bus, settings, ticked, datetime, time_count,
                 overtaken, history>>

\* A mistake PictureSettles must notice: the count wraps before it reaches the number of passes.
EndPassWrapped ==
  /\ At("blink")
  /\ time_count' = (time_count + 1) % Passes
  /\ painter' = IF time_count = Passes THEN [at |-> "text", rest |-> Texts]
                                       ELSE [at |-> "date"]
  /\ UNCHANGED <<data, change, shown, bus, settings, ticked, datetime, overtaken,
                 history>>

\* A mistake TypeOK must notice: the count is not taken back when the texts have been painted.
EndPassCounting ==
  /\ At("blink")
  /\ time_count' = time_count + 1
  /\ painter' = IF time_count = Passes THEN [at |-> "text", rest |-> Texts]
                                       ELSE [at |-> "date"]
  /\ UNCHANGED <<data, change, shown, bus, settings, ticked, datetime, overtaken,
                 history>>

\* After UpdateBlink: "if (time_count == 30)".
EndPass ==
  /\ At("blink")
  /\ time_count' = (IF time_count = Passes THEN 0 ELSE time_count) + 1
  /\ painter' = IF time_count = Passes THEN [at |-> "text", rest |-> Texts]
                                       ELSE [at |-> "date"]
  /\ UNCHANGED <<data, change, shown, bus, settings, ticked, datetime, overtaken,
                 history>>

\* UpdateText: the channel's name, then the two texts.
NextText(rest) ==
  IF "CHANNEL" \in rest THEN "CHANNEL" ELSE IF "TEXT0" \in rest THEN "TEXT0" ELSE "TEXT1"

UpdateText ==
  /\ At("text") /\ painter.rest # {}
  /\ LET r == NextText(painter.rest)
         rest == painter.rest \ {r}
     IN IF change[r] THEN Draw(r, rest) ELSE painter' = [painter EXCEPT !.rest = rest]
  /\ UNCHANGED <<data, change, shown, bus, settings, ticked, datetime, time_count,
                 overtaken, history>>

\* video_encoder_set_osd_region: the size of a picture or a mask is read again.
Handed(r) ==
  IF r \in {"IMAGE", "MASK0"} /\ data[r].look # painter.look THEN Torn ELSE painter.look

Push ==
  /\ At("push")
  /\ LET r == painter.region IN
       /\ shown' = [shown EXCEPT ![r] = [look |-> Handed(r), place |-> data[r].place]]
       /\ IF r = "DATETIME" THEN Goes("image")
          ELSE painter' = [painter EXCEPT !.at = "clear"]
  /\ UNCHANGED <<data, change, bus, settings, ticked, datetime, time_count, overtaken,
                 history>>

\* A mistake NothingOwed must notice: each region's own flag falls after its
\* painting, the mask's too.
LoweredOwn(r) == r

\* The flag that falls after a painting: the region's own, but the picture's
\* after the mask.
Lowered(r) == IF r = "MASK0" THEN "IMAGE" ELSE r

Clear ==
  /\ At("clear")
  /\ LET r == painter.region
         f == Lowered(r)
     IN /\ change' = [change EXCEPT ![f] = FALSE]
        /\ overtaken' = IF r # f /\ change[f] THEN overtaken \cup {f} ELSE overtaken
        /\ IF r \in Texts THEN painter' = [at |-> "text", rest |-> painter.rest]
           ELSE IF r = "IMAGE" THEN Goes("mask") ELSE Goes("blink")
  /\ UNCHANGED <<data, shown, bus, settings, ticked, datetime, time_count, history>>

\* The end of UpdateText: the debug branch, when TEXT0 holds a debug word and there is
\* a reading that is not the last one shown.
UpdateTextEnds ==
  /\ At("text") /\ painter.rest = {}
  /\ \/ Goes("date")
     \/ "TEXT0" \in Texts /\ data["TEXT0"].look \in Debugging /\ Goes("swap")
  /\ UNCHANGED <<data, change, shown, bus, settings, ticked, datetime, time_count,
                 overtaken, history>>

DebugSwap ==
  /\ At("swap")
  /\ data' = [data EXCEPT !["TEXT0"].look = Reading]
  /\ painter' = [at |-> "redraw", kept |-> data["TEXT0"].look]
  /\ UNCHANGED <<change, shown, bus, settings, ticked, datetime, time_count,
                 overtaken, history>>

DebugDraw ==
  /\ At("redraw")
  /\ painter' = [at |-> "rehand", kept |-> painter.kept, look |-> data["TEXT0"].look]
  /\ UNCHANGED <<data, change, shown, bus, settings, ticked, datetime, time_count,
                 overtaken, history>>

DebugPush ==
  /\ At("rehand")
  /\ shown' = [shown EXCEPT !["TEXT0"] = [look |-> painter.look,
                                         place |-> data["TEXT0"].place]]
  /\ painter' = [at |-> "restore", kept |-> painter.kept]
  /\ UNCHANGED <<data, change, bus, settings, ticked, datetime, time_count,
                 overtaken, history>>

\* "wcscpy(debug_data->text.wch, tmp_wch)", over a text that has arrived meanwhile.
DebugRestore ==
  /\ At("restore")
  /\ data' = [data EXCEPT !["TEXT0"].look = painter.kept]
  /\ Goes("date")
  /\ UNCHANGED <<change, shown, bus, settings, ticked, datetime, time_count,
                 overtaken, history>>

DebugText == DebugSwap \/ DebugDraw \/ DebugPush \/ DebugRestore

Bus == WriteFirst \/ WriteSecond \/ RaiseFlag
ServerProcess ==
  \/ UpdateTimeDate \/ UpdateImage \/ UpdateMask \/ MaskDraw \/ EndPass
  \/ UpdateText \/ UpdateTextEnds \/ DebugText \/ Push \/ Clear

Next ==
  \/ \E r \in Regions, m \in Map : SetOsdRegion(r, m)
  \/ Bus
  \/ ServerProcess
  \/ Second

Spec == Init /\ [][Next]_vars

\* Both threads keep running and so does the clock; requests need not come.
FairSpec == Spec /\ WF_vars(Bus) /\ WF_vars(ServerProcess) /\ WF_vars(Second)

-----------------------------------------------------------------------------
\* The shapes of the state; time_count comes no further than Passes.
TypeOK ==
  /\ data \in [Regions -> [look : Looks \cup {Reading}, place : Places]]
  /\ change \in [Regions -> BOOLEAN]
  /\ shown \in [Regions -> [look : Looks \cup {Reading, Torn, Blank},
                           place : Places \cup {Blank}]]
  /\ settings \in 0 .. MaxSettings
  /\ bus \in {Idle} \cup [at : {"first", "second", "flag"}, region : Regions, map : Map]
  /\ ticked \in BOOLEAN
  /\ datetime \in Looks \cup {Blank}
  /\ painter \in [at : {"date", "image", "mask", "maskDraw", "blink", "swap"}]
       \cup [at : {"text"}, rest : SUBSET Texts]
       \cup [at : {"push", "clear"}, region : Regions, look : Looks, rest : SUBSET Texts]
       \cup [at : {"redraw", "restore"}, kept : Looks]
       \cup [at : {"rehand"}, kept : Looks, look : Looks \cup {Reading}]
  /\ time_count \in 0 .. Passes
  /\ overtaken \subseteq Texts \cup {"IMAGE"}
  /\ asked \in [Regions -> Region]
  /\ undone \in BOOLEAN

Writing(r) == bus # Idle /\ bus.region = r
Painting(r) ==
  \/ r = "MASK0" /\ At("maskDraw")
  \/ painter.at \in {"push", "clear"} /\ painter.region = r

\* The encoder shows r where the requests have put it and as they have it look; in
\* place of a debug word it may show a reading, and a text that was undone is gone.
Shows(r) ==
  /\ shown[r].place = asked[r].place
  /\ \/ shown[r].look = asked[r].look
     \/ r = "TEXT0" /\ (undone \/ asked[r].look \in Debugging)

\* A flag is down only when there is nothing to paint: the encoder shows a
\* region exactly as the last request left it, place and look together, unless
\* that request is still being written or the region still being painted.  The
\* settings of a mask are never lost; those of a text or of the picture only
\* when they were written during a painting of that region or, for the picture,
\* when a mask was painted after them and before it; and a text of TEXT0 when it
\* came while the debug branch had a reading in its place.  Whatever else happens,
\* the readings that branch shows without a flag hide no other setting.
NothingOwed ==
  \A r \in Regions \ {"DATETIME"} :
    change[r] \/ Writing(r) \/ Painting(r) \/ r \in overtaken \/ Shows(r)

\* When requests stop coming, every region comes to be shown as the requests have
\* it, and stays so, up to the settings lost as said above: the date too, which has
\* no use for its flag and is painted again when the second or its format changes.
PictureSettles ==
  \A r \in Regions : <>[](r \in overtaken \/ Shows(r))
=============================================================================
