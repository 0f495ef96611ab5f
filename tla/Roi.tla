-------------------------------- MODULE Roi --------------------------------
(***************************************************************************)
(* The regions of interest of one video stream: ROIApiHandler in the CGI,   *)
(* the roi table of dbserver and SetRoi in mediaserver.                     *)
(*                                                                         *)
(* A row has a switch and a box of its own, and a copy of what is a property *)
(* of the whole stream: iStreamEnabled, which every request for one region, *)
(* a GET included, recomputes from the rows it read and writes back row by  *)
(* row.  mediaserver is only told that something changed, and reads the rows *)
(* again.  Every action is one D-Bus call; nothing holds two of them        *)
(* together.                                                               *)
(***************************************************************************)
EXTENDS Integers, Sequences, FiniteSets

CONSTANTS
  Requests,   \* the CGI processes that may run at the same time
  RegionNum,  \* ROI_REGION_NUM, rows per stream
  Boxes,      \* positions, sizes and qualities a row may have
  FirstBox,   \* the one the table is created with
  Blank,      \* the zeroed EncROIRegion of a region that is off
  Overlap     \* FALSE: one request at a time

ASSUME RegionAssumption  == RegionNum \in Nat \ {0}
ASSUME BoxAssumption     == FirstBox \in Boxes /\ Blank \notin Boxes
ASSUME OverlapAssumption == Overlap \in BOOLEAN

Regions == 1 .. RegionNum
Unknown == 0            \* a region number in the URL that no row has

VARIABLES
  enabled,   \* iROIEnabled
  box,       \* iPositionX ... iQualityLevelOfROI
  flag,      \* iStreamEnabled
  encoder,   \* the regions the encoder was last given
  media,     \* SetRoi in mediaserver's dispatcher, one call at a time
  req        \* [Requests -> the locals of the handler]

vars  == <<enabled, box, flag, encoder, media, req>>
table == <<enabled, box, flag>>

\* get, flags: roi_specific_get; row, apply: the rest of roi_specific_set
PCs == {"idle", "get", "flags", "row", "apply"}
Request == [pc    : PCs,
            id    : Regions \cup {Unknown},
            on    : BOOLEAN,              \* body: iROIEnabled
            box   : Boxes,                \* body: the box
            set   : BOOLEAN,              \* roi_specific_set is still to come
            any   : BOOLEAN,              \* stream_enable_num
            next  : 1 .. RegionNum + 1,   \* next row to get the flag
            alone : BOOLEAN]              \* history: nobody else ran meanwhile
Idle == [pc |-> "idle", id |-> Unknown, on |-> FALSE, box |-> FirstBox, set |-> FALSE,
         any |-> FALSE, next |-> 1, alone |-> FALSE]

\* region_data as far as it is filled in, and roi_enabled_num
Media   == [busy : BOOLEAN, seen : Seq(Boxes \cup {Blank}), count : 0 .. RegionNum]
Resting == [busy |-> FALSE, seen |-> <<>>, count |-> 0]

-----------------------------------------------------------------------------
On      == {i \in Regions : enabled[i]}
AllIdle == \A r \in Requests : req[r].pc = "idle"

\* a request that starts ends the solitude of the others, and has none itself
\* unless they are all idle
Begin(r, q) ==
  /\ req[r].pc = "idle"
  /\ Overlap \/ AllIdle
  /\ req' = [s \in Requests |->
       IF s = r THEN [q EXCEPT !.alone = AllIdle]
       ELSE [req[s] EXCEPT !.alone = FALSE]]

Go(r, q) == req[r].pc # "idle" /\ req' = [req EXCEPT ![r] = q]

\* GET roi/main-stream/1, and a PUT without a body
Get(r) ==
  /\ \E i \in Regions \cup {Unknown} : Begin(r, [Idle EXCEPT !.pc = "get", !.id = i])
  /\ UNCHANGED <<table, encoder, media>>

\* PUT roi/main-stream/1
Put(r) ==
  /\ \E i \in Regions \cup {Unknown}, o \in BOOLEAN, b \in Boxes :
       Begin(r, [Idle EXCEPT !.pc = "get", !.id = i, !.on = o, !.box = b, !.set = TRUE])
  /\ UNCHANGED <<table, encoder, media>>

\* defect: the stream counts as enabled only while every region is
ReadAll(r) ==
  /\ req[r].pc = "get"
  /\ Go(r, [req[r] EXCEPT !.pc = "flags", !.any = On = Regions, !.next = 1])
  /\ UNCHANGED <<table, encoder, media>>

\* roi_specific_get, first half: all rows of the stream, and the flag they call for
Read(r) ==
  /\ req[r].pc = "get"
  /\ Go(r, [req[r] EXCEPT !.pc = "flags", !.any = On # {}, !.next = 1])
  /\ UNCHANGED <<table, encoder, media>>

\* defect: one row past the last
WriteFlagPast(r) ==
  /\ req[r].pc = "flags" /\ req[r].next <= RegionNum + 1
  /\ flag' = [flag EXCEPT ![req[r].next] = req[r].any]
  /\ Go(r, [req[r] EXCEPT !.next = @ + 1])
  /\ UNCHANGED <<enabled, box, encoder, media>>

\* second half: the flag into every row, whatever the rows say by now
WriteFlag(r) ==
  /\ req[r].pc = "flags" /\ req[r].next \in Regions
  /\ flag' = [flag EXCEPT ![req[r].next] = req[r].any]
  /\ Go(r, [req[r] EXCEPT !.next = @ + 1])
  /\ UNCHANGED <<enabled, box, encoder, media>>

FlagsWritten(r) == req[r].pc = "flags" /\ req[r].next \notin Regions

\* The handler answers: after its last roi_specific_get, or with an exception at
\* the first use of a region that does not exist.
Answer(r) ==
  /\ FlagsWritten(r) /\ (~req[r].set \/ req[r].id = Unknown)
  /\ Go(r, Idle)
  /\ UNCHANGED <<table, encoder, media>>

\* the row itself, without sStreamType and iStreamEnabled of the body
WriteRow(r) ==
  /\ FlagsWritten(r) /\ req[r].set /\ req[r].id # Unknown
  /\ enabled' = [enabled EXCEPT ![req[r].id] = req[r].on]
  /\ box' = [box EXCEPT ![req[r].id] = req[r].box]
  /\ Go(r, [req[r] EXCEPT !.pc = "row"])
  /\ UNCHANGED <<flag, encoder, media>>

\* defect: a call that finds mediaserver at work on another one is taken as done
CallSetRoiMerged(r) ==
  /\ req[r].pc = "row"
  /\ media' = IF media.busy THEN media ELSE [Resting EXCEPT !.busy = TRUE]
  /\ Go(r, [req[r] EXCEPT !.pc = IF media.busy THEN "get" ELSE "apply", !.set = ~media.busy])
  /\ UNCHANGED <<table, encoder>>

\* mediaserver_set; the dispatcher of mediaserver takes one call at a time
CallSetRoi(r) ==
  /\ req[r].pc = "row" /\ ~media.busy
  /\ media' = [Resting EXCEPT !.busy = TRUE]
  /\ Go(r, [req[r] EXCEPT !.pc = "apply"])
  /\ UNCHANGED <<table, encoder>>

\* GetRoiRegions: one SelectRoiDb per row, a region that is off stays zeroed
SelectRoi ==
  /\ media.busy /\ Len(media.seen) < RegionNum
  /\ LET i == Len(media.seen) + 1
     IN media' = IF enabled[i]
                 THEN [media EXCEPT !.seen = Append(@, box[i]), !.count = @ + 1]
                 ELSE [media EXCEPT !.seen = Append(@, Blank)]
  /\ UNCHANGED <<table, encoder, req>>

\* as many entries of region_data as regions are on, from the first one
RegionsSent == SubSeq(media.seen, 1, media.count)

\* The string goes to the encoder unless it is empty, and the call returns; then
\* roi_specific_get once more for the answer.
SetRoiRegion(r) ==
  /\ req[r].pc = "apply" /\ Len(media.seen) = RegionNum
  /\ encoder' = IF media.count = 0 THEN encoder ELSE RegionsSent
  /\ media' = Resting
  /\ Go(r, [req[r] EXCEPT !.pc = "get", !.set = FALSE])
  /\ UNCHANGED table

-----------------------------------------------------------------------------
Init ==
  /\ enabled = [i \in Regions |-> FALSE]
  /\ box = [i \in Regions |-> FirstBox]
  /\ flag = [i \in Regions |-> FALSE]
  /\ encoder = <<>>
  /\ media = Resting
  /\ req = [r \in Requests |-> Idle]

Handler(r) == \/ Get(r) \/ Put(r) \/ Read(r) \/ WriteFlag(r) \/ WriteRow(r)
              \/ CallSetRoi(r) \/ SetRoiRegion(r) \/ Answer(r)

Next == (\E r \in Requests : Handler(r)) \/ SelectRoi

Spec == Init /\ [][Next]_vars

-----------------------------------------------------------------------------
(* Correctness.                                                            *)

\* The rows, the encoder, mediaserver's locals and the handlers' stay within
\* their shapes.
TypeOK ==
  /\ enabled \in [Regions -> BOOLEAN]
  /\ box \in [Regions -> Boxes]
  /\ flag \in [Regions -> BOOLEAN]
  /\ encoder \in Seq(Boxes \cup {Blank})
  /\ media \in Media
  /\ req \in [Requests -> Request]

\* A request that runs while no other does leaves every flag right, however wrong
\* a race before it had left them: each roi_specific_get writes all of them
\* (roi_api.cpp:82).
LoneRequestRepairs ==
  [][\A r \in Requests :
       (Answer(r) /\ req[r].alone) => \A i \in Regions : flag'[i] = (On # {})]_vars

\* Once no written row still waits for mediaserver, the encoder has as many
\* regions as are on, and those among the first so many rows have their own box:
\* whatever SetRoi read too early, a later SetRoi reads again (roi_api.cpp:113).
\* While no region is on nothing is sent at all, and a region that is on behind
\* one that is off is lost (flow_db_protocol.cpp:416).
EncoderFollowsTable ==
  ((\A r \in Requests : req[r].pc \notin {"row", "apply"}) /\ On # {}) =>
    /\ Len(encoder) = Cardinality(On)
    /\ \A i \in On : i <= Len(encoder) => encoder[i] = box[i]
=============================================================================
