--------------------------- MODULE Painter_proof ---------------------------
(***************************************************************************)
(* Proofs about Painter, for any set of texts, values, number of passes and *)
(* of requests: the state keeps its shape, and a flag is down only when    *)
(* there is nothing to paint.                                              *)
(***************************************************************************)
EXTENDS Painter, TLAPS

USE PainterAssumption

(***************************************************************************)
(* The inductive invariant.  Beyond the properties it says what the painter *)
(* has in hand: what it drew is what the record says, and so is what it    *)
(* handed over, unless that region is being written, was overtaken, or is  *)
(* the mask, whose flag will bring the painter back.                       *)
(***************************************************************************)
BusType ==
  bus \in {Idle} \cup [at : {"first", "second", "flag"}, region : Regions, map : Map]
PainterType ==
  painter \in [at : {"date", "image", "mask", "maskDraw", "blink", "swap"}]
    \cup [at : {"text"}, rest : SUBSET Texts]
    \cup [at : {"push", "clear"}, region : Regions, look : Looks, rest : SUBSET Texts]
    \cup [at : {"redraw", "restore"}, kept : Looks]
    \cup [at : {"rehand"}, kept : Looks, look : Looks \cup {Reading}]
ShownType == shown \in [Regions -> [look : Looks \cup {Reading, Torn, Blank},
                                  place : Places \cup {Blank}]]
CountType == settings \in 0 .. MaxSettings /\ time_count \in 0 .. Passes
RestType ==
  /\ change \in [Regions -> BOOLEAN]
  /\ ticked \in BOOLEAN
  /\ datetime \in Looks \cup {Blank}
  /\ overtaken \subseteq Texts \cup {"IMAGE"}
DataType ==
  /\ data \in [Regions -> [look : Looks \cup {Reading}, place : Places]]
  /\ asked \in [Regions -> Region]
  /\ undone \in BOOLEAN

Settled(r) ==
  change[r] \/ Writing(r) \/ Painting(r) \/ r \in overtaken \/ Shows(r)

\* The records are as the requests have written them; only the text of TEXT0 may be
\* another: while a reading stands for it, and when it came at such a time.
Kept ==
  \A r \in Regions :
    /\ asked[r].place = data[r].place
    /\ r # "TEXT0" => data[r].look = asked[r].look
    /\ r = "TEXT0" /\ ~undone =>
         asked[r].look = IF Swapped THEN painter.kept ELSE data[r].look

\* The debug branch runs for a debug word, unless a request has replaced it meanwhile,
\* whose flag then brings the painter back; a reading stands in no record otherwise.
DebugOwed ==
  /\ painter.at = "swap" \/ Swapped =>
       /\ "TEXT0" \in Texts
       /\ \/ undone \/ asked["TEXT0"].look \in Debugging
          \/ Writing("TEXT0") \/ change["TEXT0"]
  /\ ~Swapped => \A r \in Regions : data[r].look \in Looks

InHand ==
  painter.at \in {"push", "clear"} =>
    \/ painter.region = "DATETIME" /\ painter.at = "push"
    \/ /\ painter.region # "DATETIME"
       /\ \/ Writing(painter.region)
          \/ painter.region \in overtaken
          \/ painter.region = "MASK0" /\ change["MASK0"]
          \/ painter.at = "push" /\ painter.look = data[painter.region].look
          \/ painter.at = "clear" /\ Shows(painter.region)

Typed == BusType /\ PainterType /\ ShownType /\ CountType /\ RestType /\ DataType
IInv == Typed /\ NothingOwed /\ InHand /\ Kept /\ DebugOwed

LEMMA TypedIsTypeOK == Typed <=> TypeOK
  BY DEF Typed, BusType, PainterType, ShownType, CountType, RestType, DataType, TypeOK

LEMMA TheRegions ==
  /\ {"DATETIME", "IMAGE", "MASK0"} \subseteq Regions /\ Texts \subseteq Regions
  /\ \A r \in Regions : r \in Texts \/ r = "DATETIME" \/ r = "IMAGE" \/ r = "MASK0"
  /\ "DATETIME" \notin Texts /\ "IMAGE" \notin Texts /\ "MASK0" \notin Texts
  BY DEF Regions

LEMMA InitOK == ASSUME Init PROVE IInv
<1>1. data \in [Regions -> Region] /\ asked = data
  BY OpeningAssumption DEF Init
<1>2. DataType
  BY <1>1 DEF Init, DataType, Region
<1>3. BusType /\ PainterType /\ CountType
  BY DEF Init, BusType, PainterType, CountType
<1>4. ShownType /\ RestType
  BY DEF Init, ShownType, RestType
<1>5. NothingOwed /\ InHand
  BY DEF Init, NothingOwed, InHand
<1>6. Kept /\ DebugOwed
  BY <1>1 DEF Init, Kept, DebugOwed, Swapped, Region
<1> QED
  BY <1>2, <1>3, <1>4, <1>5, <1>6 DEF IInv, Typed

-----------------------------------------------------------------------------
(* The D-Bus thread. *)
LEMMA SetStep ==
  ASSUME IInv, NEW r \in Regions, NEW m \in Map, SetOsdRegion(r, m)
  PROVE  IInv'
<1>1. /\ bus = Idle /\ settings < MaxSettings /\ settings' = settings + 1
      /\ bus' = [at |-> "first", region |-> r, map |-> m]
      /\ UNCHANGED <<data, change, shown, ticked, datetime, painter, time_count, overtaken,
                     history>>
  BY DEF SetOsdRegion
<1>2. BusType'
  BY <1>1 DEF BusType
<1>3. CountType'
  BY <1>1 DEF IInv, Typed, CountType
<1>4. PainterType' /\ ShownType' /\ RestType'
  BY <1>1 DEF IInv, Typed, PainterType, ShownType, RestType
<1>5. DataType' /\ Kept'
  BY <1>1 DEF IInv, Typed, DataType, Kept, Swapped, history
<1>6. \A q : ~Writing(q) /\ (Shows(q)' <=> Shows(q))
  BY <1>1 DEF Writing, Shows, history
<1>7. NothingOwed'
  BY <1>1, <1>6 DEF IInv, NothingOwed, Painting, At
<1>8. InHand'
  BY <1>1, <1>6 DEF IInv, InHand
<1>9. DebugOwed'
  BY <1>1, <1>6 DEF IInv, DebugOwed, Swapped, history
<1> QED
  BY <1>2, <1>3, <1>4, <1>5, <1>7, <1>8, <1>9 DEF IInv, Typed

\* One field of the record that is being written, or none.
LEMMA TakeOK ==
  ASSUME IInv, bus # Idle, NEW f \in {"look", "place"}, Take(bus.region, f),
         UNCHANGED painter
  PROVE  /\ DataType' /\ Kept' /\ bus.region \in Regions
         /\ \A q \in Regions : q # bus.region => data'[q] = data[q] /\ asked'[q] = asked[q]
         /\ bus.region # "TEXT0" => undone' = undone
         /\ ~Swapped => \A q \in Regions : data'[q].look \in Looks
<1> DEFINE r == bus.region
           v == bus.map[f]
<1>1. r \in Regions /\ bus.map \in Map
  BY DEF IInv, Typed, BusType
<1> HIDE DEF r
<1>2. Swapped' <=> Swapped
  BY DEF Swapped
<1>3. ~Swapped => \A q \in Regions : data[q].look \in Looks
  BY DEF IInv, DebugOwed
<1>4. CASE v = Empty
  <2>1. UNCHANGED <<data, asked, undone>>
    BY <1>4 DEF Take, history, r
  <2> QED
    BY <1>1, <1>2, <1>3, <2>1 DEF IInv, Typed, DataType, Kept, r
<1>5. CASE v # Empty /\ f = "look"
  <2>1. /\ v \in Looks
        /\ data' = [data EXCEPT ![r].look = v] /\ asked' = [asked EXCEPT ![r].look = v]
        /\ undone' = IF r = "TEXT0" THEN Swapped ELSE undone
    BY <1>1, <1>5 DEF Take, Map, r
  <2> HIDE DEF v
  <2>6. undone' \in BOOLEAN
    <3>1. CASE r = "TEXT0"
      BY <2>1, <3>1 DEF Swapped
    <3>2. CASE r # "TEXT0"
      BY <2>1, <3>2 DEF IInv, Typed, DataType
    <3> QED
      BY <3>1, <3>2
  <2>2. DataType'
    <3>1. data' \in [Regions -> [look : Looks \cup {Reading}, place : Places]]
      BY <1>1, <2>1 DEF IInv, Typed, DataType
    <3>2. asked' \in [Regions -> Region]
      BY <1>1, <2>1 DEF IInv, Typed, DataType, Region
    <3> QED
      BY <2>6, <3>1, <3>2 DEF DataType
  <2>3. /\ data'[r] = [look |-> v, place |-> data[r].place]
        /\ asked'[r] = [look |-> v, place |-> asked[r].place]
        /\ \A q \in Regions : q # r => data'[q] = data[q] /\ asked'[q] = asked[q]
    BY <1>1, <2>1 DEF IInv, Typed, DataType, Region
  <2>4. ASSUME NEW q \in Regions
        PROVE  /\ asked'[q].place = data'[q].place
               /\ q # "TEXT0" => data'[q].look = asked'[q].look
               /\ q = "TEXT0" /\ ~undone' =>
                    asked'[q].look = IF Swapped' THEN painter'.kept ELSE data'[q].look
    <3>1. CASE q = r
      BY <1>1, <1>2, <2>1, <2>3, <3>1 DEF IInv, Kept
    <3>2. CASE q # r
      BY <1>2, <2>1, <2>3, <3>2 DEF IInv, Kept
    <3> QED
      BY <3>1, <3>2
  <2>5. Kept'
    BY <2>4 DEF Kept
  <2> QED
    BY <1>1, <1>3, <2>1, <2>2, <2>3, <2>5 DEF r
<1>6. CASE v # Empty /\ f = "place"
  <2>1. /\ v \in Places
        /\ data' = [data EXCEPT ![r].place = v] /\ asked' = [asked EXCEPT ![r].place = v]
        /\ undone' = undone
    BY <1>1, <1>6 DEF Take, Map, r
  <2> HIDE DEF v
  <2>2. DataType'
    BY <1>1, <2>1 DEF IInv, Typed, DataType, Region
  <2>3. /\ data'[r] = [look |-> data[r].look, place |-> v]
        /\ asked'[r] = [look |-> asked[r].look, place |-> v]
        /\ \A q \in Regions : q # r => data'[q] = data[q] /\ asked'[q] = asked[q]
    BY <1>1, <2>1 DEF IInv, Typed, DataType, Region
  <2>4. Kept'
    BY <1>1, <1>2, <2>1, <2>3 DEF IInv, Kept
  <2> QED
    BY <1>1, <1>3, <2>1, <2>2, <2>3, <2>4 DEF r
<1> QED
  BY <1>4, <1>5, <1>6

\* While a region is being written it may be anything.
LEMMA WriteOn ==
  ASSUME IInv, bus # Idle, DataType', Kept', bus.region \in Regions,
         \A q \in Regions : q # bus.region => data'[q] = data[q] /\ asked'[q] = asked[q],
         bus.region # "TEXT0" => undone' = undone,
         ~Swapped => \A q \in Regions : data'[q].look \in Looks,
         NEW pc \in {"second", "flag"}, bus' = [bus EXCEPT !.at = pc],
         UNCHANGED <<change, shown, settings, ticked, datetime, painter, time_count,
                     overtaken>>
  PROVE  IInv'
<1>1. BusType' /\ bus'.region = bus.region /\ bus' # Idle
  BY DEF IInv, Typed, BusType, Idle
<1>2. PainterType' /\ ShownType' /\ RestType' /\ CountType'
  BY DEF IInv, Typed, PainterType, ShownType, RestType, CountType
<1>3. \A q : Writing(q)' <=> Writing(q)
  BY <1>1 DEF Writing
<1>4. \A q \in Regions : ~Writing(q) => data'[q] = data[q] /\ (Shows(q)' <=> Shows(q))
  BY DEF Writing, Shows
<1>5. NothingOwed'
  BY <1>3, <1>4 DEF IInv, NothingOwed, Painting, At
<1>6. painter.at \in {"push", "clear"} => painter.region \in Regions
  BY DEF IInv, Typed, PainterType
<1>7. InHand'
  BY <1>3, <1>4, <1>6 DEF IInv, InHand
<1>8. DebugOwed'
  <2>1. "TEXT0" \in Texts => "TEXT0" \in Regions
    BY TheRegions
  <2>2. "TEXT0" \in Texts /\ ~Writing("TEXT0") =>
          undone' = undone /\ asked'["TEXT0"] = asked["TEXT0"]
    BY <2>1 DEF Writing
  <2> QED
    BY <1>3, <2>2 DEF IInv, DebugOwed, Swapped
<1> QED
  BY <1>1, <1>2, <1>5, <1>7, <1>8 DEF IInv, Typed

LEMMA FieldNames == \A r : \A i \in {1, 2} : FieldsOf(r)[i] \in {"look", "place"}
  BY DEF FieldsOf

LEMMA WriteFirstStep == ASSUME IInv, WriteFirst PROVE IInv'
<1>1. bus # Idle
  BY DEF WriteFirst, Idle
<1>2. FieldsOf(bus.region)[1] \in {"look", "place"}
  BY FieldNames
<1> QED
  BY <1>1, <1>2, TakeOK, WriteOn DEF WriteFirst

LEMMA WriteSecondStep == ASSUME IInv, WriteSecond PROVE IInv'
<1>1. bus # Idle
  BY DEF WriteSecond, Idle
<1>2. FieldsOf(bus.region)[2] \in {"look", "place"}
  BY FieldNames
<1> QED
  BY <1>1, <1>2, TakeOK, WriteOn DEF WriteSecond
LEMMA RaiseStep == ASSUME IInv, RaiseFlag PROVE IInv'
<1> DEFINE r == bus.region
<1>1. /\ bus # Idle /\ bus' = Idle
      /\ change' = [change EXCEPT ![r] = TRUE]
      /\ overtaken' = IF WillLower(r) THEN overtaken \cup {r} ELSE overtaken \ {r}
      /\ UNCHANGED <<data, shown, settings, ticked, datetime, painter, time_count, history>>
  BY DEF RaiseFlag, Idle
<1>2. r \in Regions
  BY <1>1 DEF IInv, Typed, BusType
<1> HIDE DEF r
<1>3. BusType' /\ PainterType' /\ ShownType' /\ CountType' /\ DataType'
  BY <1>1 DEF IInv, Typed, BusType, PainterType, ShownType, CountType, DataType, history
<1>10. Kept' /\ \A q : Shows(q)' <=> Shows(q)
  BY <1>1 DEF IInv, Kept, Swapped, Shows, history
<1>4. RestType'
  BY <1>1, <1>2 DEF IInv, Typed, RestType, WillLower
<1>5. change'[r] /\ \A q \in Regions : q # r => change'[q] = change[q]
  BY <1>1, <1>2 DEF IInv, Typed, RestType
<1>6. \A q : q # r => ((q \in overtaken' <=> q \in overtaken) /\ ~Writing(q))
  BY <1>1 DEF Writing, r
<1>7. ASSUME NEW q \in Regions, q # r, Settled(q)
      PROVE  Settled(q)'
  <2>1. Painting(q)' <=> Painting(q)
    BY <1>1 DEF Painting, At
  <2> QED
    BY <1>1, <1>5, <1>6, <1>7, <1>10, <2>1 DEF Settled
<1>8. NothingOwed'
  BY <1>5, <1>7 DEF IInv, NothingOwed, Settled
<1>9. InHand'
  <2>1. SUFFICES ASSUME painter.at \in {"push", "clear"}
                 PROVE  InHand'
    BY <1>1 DEF InHand
  <2> DEFINE q == painter.region
  <2>2. q \in Regions
    BY <2>1 DEF IInv, Typed, PainterType
  <2>3. CASE q # r
    BY <1>1, <1>5, <1>6, <1>10, <2>1, <2>2, <2>3, TheRegions DEF IInv, InHand
  <2>4. CASE q = r /\ WillLower(r)
    <3>1. q \in overtaken' /\ q # "DATETIME"
      BY <1>1, <2>4, TheRegions DEF WillLower
    <3> QED
      BY <1>1, <2>1, <3>1 DEF InHand
  <2>5. CASE q = r /\ ~WillLower(r)
    <3>1. q = "DATETIME" \/ q = "MASK0"
      BY <2>1, <2>2, <2>5, TheRegions DEF WillLower
    <3> QED
      BY <1>1, <1>5, <2>1, <2>5, <3>1 DEF IInv, InHand
  <2> QED
    BY <2>3, <2>4, <2>5
<1>11. DebugOwed'
  <2>1. "TEXT0" \in Texts => "TEXT0" \in Regions
    BY TheRegions
  <2>2. "TEXT0" \in Texts => (change["TEXT0"] \/ Writing("TEXT0") => change'["TEXT0"])
    BY <1>5, <1>6, <2>1
  <2> QED
    BY <1>1, <2>2 DEF IInv, DebugOwed, Swapped, history
<1> QED
  BY <1>3, <1>4, <1>8, <1>9, <1>10, <1>11 DEF IInv, Typed

-----------------------------------------------------------------------------
(* The painter. *)

\* A step of the painter outside its debug branch.
LEMMA Quiet ==
  ASSUME IInv, UNCHANGED <<data, history>>, ~Swapped, ~Swapped', painter'.at # "swap"
  PROVE  DataType' /\ Kept' /\ DebugOwed'
<1>1. UNCHANGED <<data, asked, undone>>
  BY DEF history
<1>2. DataType'
  BY <1>1 DEF IInv, Typed, DataType
<1>3. Kept' /\ DebugOwed'
  BY <1>1 DEF IInv, Kept, DebugOwed
<1> QED
  BY <1>2, <1>3

\* A step of the painter that lowers no flag and hands nothing over.
LEMMA Turns ==
  ASSUME IInv, PainterType', CountType', RestType',
         UNCHANGED <<data, change, shown, bus, overtaken, history>>,
         ~Swapped, painter'.at \notin {"swap", "redraw", "rehand", "restore"},
         \A r \in Regions : r # "DATETIME" /\ Painting(r) => Painting(r)',
         painter'.at # "clear",
         painter'.at = "push" =>
           painter'.region \in Regions /\ painter'.look = data[painter'.region].look
  PROVE  IInv'
<1>1. BusType' /\ ShownType'
  BY DEF IInv, Typed, BusType, ShownType
<1>2. \A r : (Writing(r)' <=> Writing(r)) /\ (Shows(r)' <=> Shows(r))
  BY DEF Writing, Shows, history
<1>3. NothingOwed'
  BY <1>2 DEF IInv, NothingOwed
<1>4. InHand'
  BY DEF InHand
<1>5. DataType' /\ Kept' /\ DebugOwed'
  BY Quiet DEF Swapped, history
<1> QED
  BY <1>1, <1>3, <1>4, <1>5 DEF IInv, Typed

LEMMA GoesOK ==
  ASSUME NEW pc \in {"date", "image", "mask", "maskDraw", "blink"}, Goes(pc)
  PROVE  PainterType' /\ painter'.at = pc
  BY DEF Goes, PainterType

LEMMA DrawOK ==
  ASSUME IInv, ~Swapped, NEW r \in Regions, NEW rest \in SUBSET Texts, Draw(r, rest)
  PROVE  /\ PainterType' /\ painter'.at = "push" /\ painter'.region = r
         /\ painter'.look = data[r].look
<1>1. data[r].look \in Looks
  BY DEF IInv, DebugOwed
<1> QED
  BY <1>1 DEF Draw, PainterType

LEMMA NotPainting ==
  ASSUME painter.at \notin {"push", "clear", "maskDraw"}
  PROVE  \A r : ~Painting(r)
  BY DEF Painting, At

\* Nothing but the clock has moved.
LEMMA SameParts ==
  ASSUME IInv, UNCHANGED <<data, change, shown, bus, painter, overtaken, history>>, Typed'
  PROVE  IInv'
<1>1. \A r : (Writing(r)' <=> Writing(r)) /\ (Painting(r)' <=> Painting(r))
            /\ (Shows(r)' <=> Shows(r))
  BY DEF Writing, Painting, At, Shows, history
<1>2. NothingOwed' /\ InHand'
  BY <1>1 DEF IInv, NothingOwed, InHand
<1>3. Kept' /\ DebugOwed'
  BY DEF IInv, Kept, DebugOwed, Swapped, Writing, history
<1> QED
  BY <1>2, <1>3 DEF IInv

LEMMA SecondStep == ASSUME IInv, Second PROVE IInv'
<1>1. UNCHANGED <<data, change, shown, bus, settings, datetime, painter, time_count,
                  overtaken, history>> /\ ticked' = TRUE
  BY DEF Second
<1>2. BusType' /\ PainterType' /\ ShownType' /\ CountType' /\ RestType' /\ DataType'
  BY <1>1 DEF IInv, Typed, BusType, PainterType, ShownType, CountType, RestType, DataType,
              history
<1> QED
  BY <1>1, <1>2, SameParts DEF Typed

LEMMA DateStep == ASSUME IInv, UpdateTimeDate PROVE IInv'
<1>1. /\ painter.at = "date" /\ ticked' = FALSE
      /\ UNCHANGED <<data, change, shown, bus, settings, time_count, overtaken, history>>
      /\ ~Swapped
  BY DEF UpdateTimeDate, At, Swapped
<1>2. /\ PainterType' /\ datetime' \in Looks \cup {Blank}
      /\ painter'.at \in {"push", "image"}
      /\ painter'.at = "push" =>
           painter'.region \in Regions /\ painter'.look = data[painter'.region].look
  <2>1. CASE Draw("DATETIME", {}) /\ datetime' = data["DATETIME"].look
    BY <1>1, <2>1, DrawOK, TheRegions DEF IInv, DebugOwed
  <2>2. CASE Goes("image") /\ UNCHANGED datetime
    BY <2>2, GoesOK DEF IInv, Typed, RestType
  <2> QED
    BY <2>1, <2>2 DEF UpdateTimeDate
<1>3. CountType' /\ RestType'
  BY <1>1, <1>2 DEF IInv, Typed, CountType, RestType
<1> QED
  BY <1>1, <1>2, <1>3, NotPainting, Turns

LEMMA ImageStep == ASSUME IInv, UpdateImage PROVE IInv'
<1>1. /\ painter.at = "image"
      /\ UNCHANGED <<data, change, shown, bus, settings, ticked, datetime, time_count,
                     overtaken, history>>
      /\ ~Swapped
  BY DEF UpdateImage, At, Swapped
<1>2. /\ PainterType' /\ painter'.at \in {"push", "mask"}
      /\ painter'.at = "push" =>
           painter'.region \in Regions /\ painter'.look = data[painter'.region].look
  <2>1. CASE Draw("IMAGE", {})
    BY <1>1, <2>1, DrawOK, TheRegions
  <2>2. CASE Goes("mask")
    BY <2>2, GoesOK
  <2> QED
    BY <2>1, <2>2 DEF UpdateImage
<1>3. CountType' /\ RestType'
  BY <1>1 DEF IInv, Typed, CountType, RestType
<1> QED
  BY <1>1, <1>2, <1>3, NotPainting, Turns

LEMMA MaskDrawStep == ASSUME IInv, MaskDraw PROVE IInv'
<1>1. /\ painter.at = "maskDraw" /\ Draw("MASK0", {})
      /\ UNCHANGED <<data, change, shown, bus, settings, ticked, datetime, time_count,
                     overtaken, history>>
      /\ ~Swapped
  BY DEF MaskDraw, At, Swapped
<1>2. /\ PainterType' /\ painter'.at = "push" /\ painter'.region = "MASK0"
      /\ painter'.look = data["MASK0"].look
  BY <1>1, DrawOK, TheRegions
<1>3. CountType' /\ RestType'
  BY <1>1 DEF IInv, Typed, CountType, RestType
<1>4. \A r \in Regions : Painting(r) => Painting(r)'
  BY <1>1, <1>2 DEF Painting, At
<1> QED
  BY <1>1, <1>2, <1>3, <1>4, TheRegions, Turns

LEMMA EndPassStep == ASSUME IInv, EndPass PROVE IInv'
<1>1. /\ painter.at = "blink"
      /\ time_count' = (IF time_count = Passes THEN 0 ELSE time_count) + 1
      /\ painter' = IF time_count = Passes THEN [at |-> "text", rest |-> Texts]
                                           ELSE [at |-> "date"]
      /\ UNCHANGED <<data, change, shown, bus, settings, ticked, datetime, overtaken,
                     history>>
      /\ ~Swapped
  BY DEF EndPass, At, Swapped
<1>2. PainterType' /\ painter'.at \in {"text", "date"}
  BY <1>1 DEF PainterType
<1>3. CountType'
  BY <1>1 DEF IInv, Typed, CountType
<1>4. RestType'
  BY <1>1 DEF IInv, Typed, RestType
<1> QED
  BY <1>1, <1>2, <1>3, <1>4, NotPainting, Turns

LEMMA NextTextOK ==
  ASSUME NEW rest \in SUBSET Texts, rest # {}
  PROVE  NextText(rest) \in rest
  BY DEF NextText

LEMMA TextStep == ASSUME IInv, UpdateText PROVE IInv'
<1> DEFINE r == NextText(painter.rest)
           rest == painter.rest \ {r}
<1>1. /\ painter.at = "text" /\ painter.rest # {}
      /\ IF change[r] THEN Draw(r, rest) ELSE painter' = [painter EXCEPT !.rest = rest]
      /\ UNCHANGED <<data, change, shown, bus, settings, ticked, datetime, time_count,
                     overtaken, history>>
      /\ ~Swapped
  BY DEF UpdateText, At, Swapped
<1>2. painter.rest \in SUBSET Texts /\ painter = [at |-> "text", rest |-> painter.rest]
  BY <1>1 DEF IInv, Typed, PainterType
<1>3. r \in Texts
  BY <1>1, <1>2, NextTextOK
<1> HIDE DEF r
<1>4. rest \in SUBSET Texts
  BY <1>2
<1>5. /\ PainterType' /\ painter'.at \in {"push", "text"}
      /\ painter'.at = "push" =>
           painter'.region \in Regions /\ painter'.look = data[painter'.region].look
  <2>2. CASE change[r]
    BY <1>1, <1>3, <1>4, <2>2, DrawOK, TheRegions
  <2>3. CASE ~change[r]
    <3>1. painter' = [at |-> "text", rest |-> rest]
      BY <1>1, <1>2, <2>3
    <3> QED
      BY <1>4, <3>1 DEF PainterType
  <2> QED
    BY <2>2, <2>3
<1>6. CountType' /\ RestType'
  BY <1>1 DEF IInv, Typed, CountType, RestType
<1> QED
  BY <1>1, <1>5, <1>6, NotPainting, Turns
\* The mask's flag falls before its record is read, and the painting begins.
LEMMA MaskStep == ASSUME IInv, UpdateMask PROVE IInv'
<1>1. /\ painter.at = "mask" /\ change' = [change EXCEPT !["MASK0"] = FALSE]
      /\ IF change["MASK0"] THEN Goes("maskDraw") ELSE Goes("blink")
      /\ UNCHANGED <<data, shown, bus, settings, ticked, datetime, time_count, overtaken,
                     history>>
      /\ ~Swapped
  BY DEF UpdateMask, At, Swapped
<1>2. PainterType' /\ painter'.at \in {"maskDraw", "blink"}
  BY <1>1, GoesOK
<1>3. BusType' /\ ShownType' /\ CountType'
  BY <1>1 DEF IInv, Typed, BusType, ShownType, CountType
<1>9. DataType' /\ Kept' /\ DebugOwed'
  BY <1>1, <1>2, Quiet DEF Swapped
<1>4. RestType' /\ \A q \in Regions : q # "MASK0" => change'[q] = change[q]
  BY <1>1, TheRegions DEF IInv, Typed, RestType
<1>5. \A q : (Writing(q)' <=> Writing(q)) /\ ~Painting(q) /\ (Shows(q)' <=> Shows(q))
  BY <1>1, NotPainting DEF Writing, Shows, history
<1>6. change["MASK0"] => Painting("MASK0")'
  BY <1>1, GoesOK DEF Painting, At
<1>7. NothingOwed'
  BY <1>1, <1>4, <1>5, <1>6 DEF IInv, NothingOwed
<1>8. InHand'
  BY <1>2 DEF InHand
<1> QED
  BY <1>2, <1>3, <1>4, <1>7, <1>8, <1>9 DEF IInv, Typed

\* What is handed over is what was drawn, at the place the record has by now.
LEMMA PushStep == ASSUME IInv, Push PROVE IInv'
<1> DEFINE r == painter.region
<1>1. /\ painter.at = "push"
      /\ shown' = [shown EXCEPT ![r] = [look |-> Handed(r), place |-> data[r].place]]
      /\ IF r = "DATETIME" THEN Goes("image")
         ELSE painter' = [painter EXCEPT !.at = "clear"]
      /\ UNCHANGED <<data, change, bus, settings, ticked, datetime, time_count, overtaken,
                     history>>
      /\ ~Swapped
  BY DEF Push, At, Swapped
<1>2. /\ r \in Regions /\ painter.look \in Looks /\ painter.rest \in SUBSET Texts
      /\ painter = [at |-> "push", region |-> r, look |-> painter.look,
                    rest |-> painter.rest]
  BY <1>1 DEF IInv, Typed, PainterType
<1>3. /\ data[r].place \in Places /\ Handed(r) \in Looks \cup {Torn}
      /\ painter.look = data[r].look => Handed(r) = data[r].look
      /\ asked[r].place = data[r].place
      /\ asked[r].look = data[r].look \/ (r = "TEXT0" /\ undone)
  BY <1>1, <1>2 DEF IInv, Typed, DataType, Region, Handed, Kept
<1> DEFINE h == Handed(r)
<1> HIDE DEF r, h
<1>4. /\ ShownType' /\ shown'[r] = [look |-> h, place |-> data[r].place]
      /\ \A q \in Regions : q # r => shown'[q] = shown[q]
  BY <1>1, <1>2, <1>3 DEF IInv, Typed, ShownType, h
<1>5. BusType' /\ RestType' /\ CountType'
  BY <1>1 DEF IInv, Typed, BusType, RestType, CountType
<1>6. /\ \A q : Writing(q)' <=> Writing(q)
      /\ \A q \in Regions : q # r => (Shows(q)' <=> Shows(q))
  BY <1>1, <1>4 DEF Writing, Shows, history
<1>9. painter'.at \in {"image", "clear"} => DataType' /\ Kept' /\ DebugOwed'
  BY <1>1, Quiet DEF Swapped
<1>7. CASE r = "DATETIME"
  <2>1. PainterType' /\ painter'.at = "image"
    BY <1>1, <1>7, GoesOK
  <2>2. \A q \in Regions \ {"DATETIME"} : ~Painting(q)
    BY <1>1, <1>7 DEF Painting, At, r
  <2>3. NothingOwed'
    BY <1>1, <1>4, <1>6, <1>7, <2>2 DEF IInv, NothingOwed
  <2>4. InHand'
    BY <2>1 DEF InHand
  <2> QED
    BY <1>4, <1>5, <1>9, <2>1, <2>3, <2>4 DEF IInv, Typed
<1>8. CASE r # "DATETIME"
  <2>1. painter' = [at |-> "clear", region |-> r, look |-> painter.look,
                    rest |-> painter.rest]
    BY <1>1, <1>2, <1>8
  <2>2. PainterType' /\ painter'.at = "clear" /\ painter'.region = r
    BY <1>2, <2>1 DEF PainterType
  <2>3. \A q : IF q = r THEN Painting(q)' ELSE ~Painting(q)
    BY <1>1, <2>2 DEF Painting, At, r
  <2>4. ASSUME NEW q \in Regions, q # "DATETIME" PROVE Settled(q)'
    <3>1. CASE q = r
      BY <2>3, <3>1 DEF Settled
    <3>2. CASE q # r
      <4>1. Settled(q) /\ ~Painting(q)
        BY <2>3, <2>4, <3>2 DEF IInv, NothingOwed, Settled
      <4>2. (Shows(q)' <=> Shows(q)) /\ UNCHANGED <<change, overtaken>>
        BY <1>1, <1>6, <2>4, <3>2
      <4> QED
        BY <1>6, <4>1, <4>2 DEF Settled
    <3> QED
      BY <3>1, <3>2
  <2>8. NothingOwed'
    BY <2>4 DEF NothingOwed, Settled
  <2>5. ASSUME NEW q \in Regions, q = r, painter.look = data[r].look
        PROVE  Shows(q)'
    <3>1. UNCHANGED <<data, asked, undone>>
      BY <1>1 DEF history
    <3>2. shown'[q].look = data[q].look
      BY <1>3, <1>4, <2>5 DEF h
    <3>3. shown'[q].place = asked'[q].place
      BY <1>3, <1>4, <2>5, <3>1
    <3> QED
      BY <1>3, <2>5, <3>1, <3>2, <3>3 DEF Shows
  <2>6. \/ Writing(r) \/ r \in overtaken \/ (r = "MASK0" /\ change["MASK0"])
        \/ painter.look = data[r].look
    BY <1>1, <1>8 DEF IInv, InHand, r
  <2>7. InHand'
    BY <1>1, <1>2, <1>6, <1>8, <2>2, <2>5, <2>6 DEF InHand
  <2> QED
    BY <1>4, <1>5, <1>9, <2>2, <2>7, <2>8 DEF IInv, Typed
<1> QED
  BY <1>7, <1>8

\* The flag that falls is the region's own, and nothing is owed to it; or it is
\* the picture's, whose unread settings are then counted as overtaken.
LEMMA ClearStep == ASSUME IInv, Clear PROVE IInv'
<1> DEFINE r == painter.region
           f == Lowered(r)
<1>1. /\ painter.at = "clear" /\ change' = [change EXCEPT ![f] = FALSE]
      /\ overtaken' = IF r # f /\ change[f] THEN overtaken \cup {f} ELSE overtaken
      /\ IF r \in Texts THEN painter' = [at |-> "text", rest |-> painter.rest]
         ELSE IF r = "IMAGE" THEN Goes("mask") ELSE Goes("blink")
      /\ UNCHANGED <<data, shown, bus, settings, ticked, datetime, time_count, history>>
      /\ ~Swapped
  BY DEF Clear, At, Swapped
<1>2. r \in Regions /\ r # "DATETIME" /\ painter.rest \in SUBSET Texts
  BY <1>1 DEF IInv, Typed, PainterType, InHand
<1>3. (r = "MASK0" /\ f = "IMAGE") \/ (r # "MASK0" /\ f = r)
  BY DEF Lowered
<1>4. Writing(r) \/ r \in overtaken \/ (r = "MASK0" /\ change["MASK0"]) \/ Shows(r)
  BY <1>1, <1>2 DEF IInv, InHand
<1>5. \A q : q # r => ~Painting(q)
  BY <1>1 DEF Painting, At, r
<1> HIDE DEF r, f
<1>6. f \in Texts \cup {"IMAGE"} /\ f \in Regions
  BY <1>2, <1>3, TheRegions
<1>7. PainterType' /\ painter'.at \in {"text", "mask", "blink"}
  <2>1. CASE r \in Texts
    BY <1>1, <1>2, <2>1 DEF PainterType
  <2>2. CASE r \notin Texts
    BY <1>1, <2>2, GoesOK
  <2> QED
    BY <2>1, <2>2
<1>8. BusType' /\ ShownType' /\ CountType'
  BY <1>1 DEF IInv, Typed, BusType, ShownType, CountType
<1>14. DataType' /\ Kept' /\ DebugOwed'
  BY <1>1, <1>7, Quiet DEF Swapped
<1>9. RestType' /\ \A q \in Regions : q # f => change'[q] = change[q]
  BY <1>1, <1>6 DEF IInv, Typed, RestType
<1>10. \A q : /\ Writing(q)' <=> Writing(q)
              /\ Shows(q)' <=> Shows(q)
              /\ q \in overtaken => q \in overtaken'
  BY <1>1 DEF Writing, Shows, history
<1>11. ASSUME NEW q \in Regions, q # "DATETIME" PROVE Settled(q)'
  <2>1. CASE q = r
    BY <1>1, <1>3, <1>4, <1>9, <1>10, <1>11, <2>1 DEF Settled
  <2>2. CASE q # r /\ q = f
    BY <1>1, <1>5, <1>10, <1>11, <2>2 DEF IInv, NothingOwed, Settled
  <2>3. CASE q # r /\ q # f
    BY <1>1, <1>5, <1>9, <1>10, <1>11, <2>3 DEF IInv, NothingOwed, Settled
  <2> QED
    BY <2>1, <2>2, <2>3
<1>12. NothingOwed'
  BY <1>11 DEF NothingOwed, Settled
<1>13. InHand'
  BY <1>7 DEF InHand
<1> QED
  BY <1>7, <1>8, <1>9, <1>12, <1>13, <1>14 DEF IInv, Typed

-----------------------------------------------------------------------------
(* The debug branch. *)

LEMMA EndsStep == ASSUME IInv, UpdateTextEnds PROVE IInv'
<1>1. /\ painter.at = "text" /\ ~Swapped
      /\ UNCHANGED <<data, change, shown, bus, settings, ticked, datetime, time_count,
                     overtaken, history>>
  BY DEF UpdateTextEnds, At, Swapped
<1>2. CountType' /\ RestType' /\ BusType' /\ ShownType'
  BY <1>1 DEF IInv, Typed, CountType, RestType, BusType, ShownType
<1>3. CASE Goes("date")
  BY <1>1, <1>2, <1>3, GoesOK, NotPainting, Turns
<1>4. CASE "TEXT0" \in Texts /\ data["TEXT0"].look \in Debugging /\ Goes("swap")
  <2>1. painter' = [at |-> "swap"] /\ UNCHANGED <<data, asked, undone>>
    BY <1>1, <1>4 DEF Goes, history
  <2>2. PainterType' /\ DataType' /\ ~Swapped'
    BY <2>1 DEF PainterType, IInv, Typed, DataType, Swapped
  <2>3. \A r : (Writing(r)' <=> Writing(r)) /\ (Shows(r)' <=> Shows(r)) /\ ~Painting(r)
    BY <1>1, <2>1, NotPainting DEF Writing, Shows
  <2>4. NothingOwed' /\ InHand'
    BY <1>1, <2>1, <2>3 DEF IInv, NothingOwed, InHand
  <2>5. Kept'
    BY <1>1, <2>1, <2>2 DEF IInv, Kept
  <2>6. undone \/ asked["TEXT0"].look \in Debugging
    BY <1>1, <1>4, TheRegions DEF IInv, Kept
  <2>7. DebugOwed'
    BY <1>1, <1>4, <2>1, <2>2, <2>6 DEF IInv, DebugOwed
  <2> QED
    BY <1>2, <2>2, <2>4, <2>5, <2>7 DEF IInv, Typed
<1> QED
  BY <1>3, <1>4 DEF UpdateTextEnds

\* What the steps of the branch have in common: the bus, the flags and the requests'
\* records are left alone, and of the encoder's regions and the records all but TEXT0.
LEMMA DebugStep ==
  ASSUME IInv, painter.at = "swap" \/ Swapped,
         UNCHANGED <<change, bus, settings, ticked, datetime, time_count, overtaken, history>>,
         PainterType', ShownType', DataType', Kept', painter'.at \notin {"push", "clear"},
         \A r \in Regions : r # "TEXT0" => shown'[r] = shown[r],
         shown'["TEXT0"] = shown["TEXT0"] \/ shown'["TEXT0"].place = data["TEXT0"].place,
         ~Swapped' => \A r \in Regions : data'[r].look \in Looks
  PROVE  IInv'
<1>1. UNCHANGED <<asked, undone>>
  BY DEF history
<1>2. BusType' /\ CountType' /\ RestType'
  BY DEF IInv, Typed, BusType, CountType, RestType
<1>3. \A r : Writing(r)' <=> Writing(r)
  BY DEF Writing
<1>4. /\ "TEXT0" \in Texts /\ "TEXT0" \in Regions
      /\ \/ undone \/ asked["TEXT0"].look \in Debugging
         \/ Writing("TEXT0") \/ change["TEXT0"]
  BY TheRegions DEF IInv, DebugOwed
<1>5. DebugOwed'
  BY <1>1, <1>3, <1>4 DEF DebugOwed
<1>6. \A r : ~Painting(r)
  BY DEF Painting, At, Swapped
<1>7. ASSUME NEW r \in Regions, r # "DATETIME" PROVE Settled(r)'
  <2>1. Settled(r)
    BY <1>7 DEF IInv, NothingOwed, Settled
  <2>2. CASE shown'[r] = shown[r]
    BY <1>1, <1>3, <1>6, <2>1, <2>2 DEF Settled, Shows
  <2>3. CASE r = "TEXT0" /\ shown'[r].place = data[r].place
    <3>1. asked[r].place = data[r].place
      BY <2>3 DEF IInv, Kept
    <3> QED
      BY <1>1, <1>3, <1>4, <2>3, <3>1 DEF Settled, Shows
  <2> QED
    BY <1>7, <2>2, <2>3
<1>8. NothingOwed' /\ InHand'
  BY <1>7 DEF NothingOwed, Settled, InHand
<1> QED
  BY <1>2, <1>5, <1>8 DEF IInv, Typed

LEMMA SwapStep == ASSUME IInv, DebugSwap PROVE IInv'
<1>1. /\ painter.at = "swap"
      /\ data' = [data EXCEPT !["TEXT0"].look = Reading]
      /\ painter' = [at |-> "redraw", kept |-> data["TEXT0"].look]
      /\ UNCHANGED <<change, shown, bus, settings, ticked, datetime, time_count, overtaken,
                     asked, undone>>
  BY DEF DebugSwap, At, history
<1>2. "TEXT0" \in Regions /\ data["TEXT0"].look \in Looks /\ ~Swapped /\ Swapped'
  BY <1>1, TheRegions DEF IInv, DebugOwed, Swapped
<1>3. PainterType' /\ ShownType' /\ DataType'
  BY <1>1, <1>2 DEF IInv, Typed, PainterType, ShownType, DataType
<1>4. /\ data'["TEXT0"].place = data["TEXT0"].place
      /\ \A r \in Regions : r # "TEXT0" => data'[r] = data[r]
  BY <1>1, <1>2 DEF IInv, Typed, DataType
<1>5. Kept'
  BY <1>1, <1>2, <1>4 DEF IInv, Kept
<1> QED
  BY <1>1, <1>2, <1>3, <1>5, DebugStep DEF history

LEMMA RedrawStep == ASSUME IInv, DebugDraw PROVE IInv'
<1>1. /\ painter.at = "redraw" /\ Swapped
      /\ painter' = [at |-> "rehand", kept |-> painter.kept, look |-> data["TEXT0"].look]
      /\ UNCHANGED <<data, change, shown, bus, settings, ticked, datetime, time_count,
                     overtaken, asked, undone>>
  BY DEF DebugDraw, At, history, Swapped
<1>2. "TEXT0" \in Regions /\ painter.kept \in Looks /\ Swapped'
  BY <1>1, TheRegions DEF IInv, DebugOwed, Swapped, Typed, PainterType
<1>3. data["TEXT0"].look \in Looks \cup {Reading}
  BY <1>2 DEF IInv, Typed, DataType
<1>4. PainterType' /\ ShownType' /\ DataType' /\ Kept'
  BY <1>1, <1>2, <1>3 DEF IInv, Typed, PainterType, ShownType, DataType, Kept
<1> QED
  BY <1>1, <1>2, <1>4, DebugStep DEF history

LEMMA RehandStep == ASSUME IInv, DebugPush PROVE IInv'
<1>1. /\ painter.at = "rehand" /\ Swapped
      /\ shown' = [shown EXCEPT !["TEXT0"] = [look |-> painter.look,
                                             place |-> data["TEXT0"].place]]
      /\ painter' = [at |-> "restore", kept |-> painter.kept]
      /\ UNCHANGED <<data, change, bus, settings, ticked, datetime, time_count, overtaken,
                     asked, undone>>
  BY DEF DebugPush, At, history, Swapped
<1>2. /\ "TEXT0" \in Regions /\ painter.kept \in Looks /\ Swapped'
      /\ painter.look \in Looks \cup {Reading}
  BY <1>1, TheRegions DEF IInv, DebugOwed, Swapped, Typed, PainterType
<1>3. data["TEXT0"].place \in Places
  BY <1>2 DEF IInv, Typed, DataType
<1>4. PainterType' /\ DataType' /\ Kept'
  BY <1>1, <1>2 DEF IInv, Typed, PainterType, DataType, Kept
<1>5. /\ ShownType' /\ shown'["TEXT0"].place = data["TEXT0"].place
      /\ \A r \in Regions : r # "TEXT0" => shown'[r] = shown[r]
  BY <1>1, <1>2, <1>3 DEF IInv, Typed, ShownType
<1> QED
  BY <1>1, <1>2, <1>4, <1>5, DebugStep DEF history

LEMMA RestoreStep == ASSUME IInv, DebugRestore PROVE IInv'
<1>1. /\ painter.at = "restore" /\ Swapped
      /\ data' = [data EXCEPT !["TEXT0"].look = painter.kept]
      /\ painter' = [at |-> "date"] /\ ~Swapped'
      /\ UNCHANGED <<change, shown, bus, settings, ticked, datetime, time_count, overtaken,
                     asked, undone>>
  BY DEF DebugRestore, At, history, Swapped, Goes
<1>2. "TEXT0" \in Regions /\ painter.kept \in Looks
  BY <1>1, TheRegions DEF IInv, DebugOwed, Typed, PainterType
<1>3. PainterType' /\ ShownType' /\ DataType'
  BY <1>1, <1>2 DEF IInv, Typed, PainterType, ShownType, DataType
<1>4. /\ data'["TEXT0"].place = data["TEXT0"].place /\ data'["TEXT0"].look = painter.kept
      /\ \A r \in Regions : r # "TEXT0" => data'[r] = data[r]
  BY <1>1, <1>2 DEF IInv, Typed, DataType
<1>5. Kept'
  BY <1>1, <1>2, <1>4 DEF IInv, Kept
<1>6. \A r \in Regions : data'[r].look \in Looks
  <2>1. \A r \in Regions : r # "TEXT0" => data[r].look \in Looks
    BY DEF IInv, Kept, Typed, DataType, Region
  <2> QED
    BY <1>2, <1>4, <2>1
<1> QED
  BY <1>1, <1>2, <1>3, <1>5, <1>6, DebugStep DEF history

-----------------------------------------------------------------------------
LEMMA NextStep == ASSUME IInv, [Next]_vars PROVE IInv'
<1>1. ASSUME NEW r \in Regions, NEW m \in Map, SetOsdRegion(r, m) PROVE IInv'
  BY <1>1, SetStep
<1>2. CASE Bus
  BY <1>2, WriteFirstStep, WriteSecondStep, RaiseStep DEF Bus
<1>3. CASE ServerProcess
  BY <1>3, DateStep, ImageStep, MaskStep, MaskDrawStep, EndPassStep, TextStep, EndsStep,
     SwapStep, RedrawStep, RehandStep, RestoreStep, PushStep, ClearStep
     DEF ServerProcess, DebugText
<1>4. CASE Second
  BY <1>4, SecondStep
<1>5. CASE UNCHANGED vars
  <2>1. Typed'
    BY <1>5 DEF vars, history, IInv, Typed, BusType, PainterType, ShownType, CountType,
                RestType, DataType
  <2> QED
    BY <1>5, <2>1, SameParts DEF vars
<1> QED
  BY <1>1, <1>2, <1>3, <1>4, <1>5 DEF Next

THEOREM Invariance == Spec => []IInv
  BY InitOK, NextStep, PTL DEF Spec

\* Records, flags, the encoder's regions and both threads' locals keep their
\* shapes, and the count of passes comes no further than its bound (ServerProcess).
THEOREM TypeCorrect == Spec => []TypeOK
<1>1. IInv => TypeOK
  BY TypedIsTypeOK DEF IInv
<1> QED
  BY Invariance, <1>1, PTL

\* A flag is down only when there is nothing to paint, for any set of texts and
\* any number of requests (SetOsdRegion, UpdateText, UpdateImage, UpdateMask).
THEOREM FlagsTell == Spec => []NothingOwed
<1>1. IInv => NothingOwed
  BY DEF IInv
<1> QED
  BY Invariance, <1>1, PTL
=============================================================================
