----------------------------- MODULE Roi_proof -----------------------------
(***************************************************************************)
(* What holds of the regions of interest for any number of regions, boxes   *)
(* and requests: the shapes, and that a request which runs alone repairs the *)
(* copies of the stream's flag.                                            *)
(***************************************************************************)
EXTENDS Roi, FiniteSetTheorems, TLAPS

USE RegionAssumption

-----------------------------------------------------------------------------
(* The inductive invariant.                                                *)

TableType == /\ enabled \in [Regions -> BOOLEAN]
             /\ box \in [Regions -> Boxes]
             /\ flag \in [Regions -> BOOLEAN]

\* GetRoiRegions counts no more regions than it has looked at
MediaType == media \in Media /\ media.count <= Len(media.seen)

EncoderType == encoder \in Seq(Boxes \cup {Blank})
ReqType     == req \in [Requests -> Request]

Typed == TableType /\ MediaType /\ EncoderType /\ ReqType

\* While a request is alone the others are idle, so the flag it is writing is what
\* the rows call for, and the rows it has passed have it.
Alone(r) ==
  req[r].alone =>
    /\ \A s \in Requests : s # r => req[s].pc = "idle"
    /\ req[r].pc = "flags" => /\ req[r].any = (On # {})
                              /\ \A i \in Regions : i < req[r].next => flag[i] = (On # {})

IInv == Typed /\ \A r \in Requests : Alone(r)

LEMMA IdleType == Idle \in Request
  BY BoxAssumption DEF Idle, Request, PCs, Regions, Unknown

LEMMA RestingType == Resting \in Media /\ Resting.count <= Len(Resting.seen)
<1>1. Resting.seen \in Seq(Boxes \cup {Blank}) /\ Len(Resting.seen) = 0
  BY DEF Resting
<1>2. Resting.count = 0 /\ Resting.busy \in BOOLEAN
  BY DEF Resting
<1> QED
  BY <1>1, <1>2 DEF Resting, Media

LEMMA InitInv == Init => IInv
<1> SUFFICES ASSUME Init PROVE IInv
  OBVIOUS
<1>1. TableType
  BY BoxAssumption DEF Init, TableType
<1>2. MediaType
  BY RestingType DEF Init, MediaType
<1>3. EncoderType
  BY DEF Init, EncoderType
<1>4. ReqType
  BY IdleType DEF Init, ReqType
<1>5. \A r \in Requests : Alone(r)
  BY DEF Init, Alone, Idle
<1> QED
  BY <1>1, <1>2, <1>3, <1>4, <1>5 DEF IInv, Typed

-----------------------------------------------------------------------------
(* Steps of the handlers in general.                                       *)

\* A request that starts has no flags to write yet, and takes the others'
\* solitude from them.
LEMMA BeginKeeps ==
  ASSUME IInv, NEW r \in Requests, NEW q \in Request, q.pc = "get", Begin(r, q)
  PROVE  ReqType' /\ \A s \in Requests : Alone(s)'
<1>1. req' = [s \in Requests |-> IF s = r THEN [q EXCEPT !.alone = AllIdle]
                                 ELSE [req[s] EXCEPT !.alone = FALSE]]
  BY DEF Begin
<1>2. AllIdle \in BOOLEAN
  BY DEF AllIdle
<1>3. [q EXCEPT !.alone = AllIdle] \in Request
  BY <1>2 DEF Request
<1>4. ASSUME NEW s \in Requests PROVE [req[s] EXCEPT !.alone = FALSE] \in Request
  BY DEF IInv, Typed, ReqType, Request
<1>5. ReqType'
  BY <1>1, <1>3, <1>4 DEF ReqType
<1>6. ASSUME NEW s \in Requests, s # r PROVE ~req'[s].alone /\ req'[s].pc = req[s].pc
  BY <1>1, <1>6 DEF IInv, Typed, ReqType, Request
<1>7. req'[r].pc = "get" /\ req'[r].alone = AllIdle
  BY <1>1 DEF Request
<1>8. AllIdle => \A s \in Requests : s # r => req'[s].pc = "idle"
  BY <1>6 DEF AllIdle
<1> QED
  BY <1>5, <1>6, <1>7, <1>8 DEF Alone

\* Solitude is only given at the start: a step of a handler whose next locals q are
\* right keeps everybody else's, provided it is not the step of a neighbour.
LEMMA GoKeeps ==
  ASSUME IInv, NEW r \in Requests, NEW q \in Request, Go(r, q), q.alone => req[r].alone,
         q.alone /\ q.pc = "flags" => /\ q.any = (On' # {})
                                      /\ \A i \in Regions : i < q.next => flag'[i] = (On' # {})
  PROVE  ReqType' /\ \A s \in Requests : Alone(s)'
<1>1. req' = [req EXCEPT ![r] = q] /\ req[r].pc # "idle"
  BY DEF Go
<1>2. ReqType'
  BY <1>1 DEF IInv, Typed, ReqType
<1>3. req'[r] = q /\ \A s \in Requests : s # r => req'[s] = req[s]
  BY <1>1 DEF IInv, Typed, ReqType
<1>4. ASSUME NEW s \in Requests, s # r PROVE ~req'[s].alone
  BY <1>1, <1>3, <1>4 DEF IInv, Alone
<1>5. Alone(r)'
  BY <1>3 DEF IInv, Alone
<1> QED
  BY <1>2, <1>4, <1>5 DEF Alone

-----------------------------------------------------------------------------
(* One lemma per action.                                                   *)

LEMMA StepGet == ASSUME IInv, NEW r \in Requests, Get(r) PROVE IInv'
<1>1. PICK i \in Regions \cup {Unknown} : Begin(r, [Idle EXCEPT !.pc = "get", !.id = i])
  BY DEF Get
<1> DEFINE q == [Idle EXCEPT !.pc = "get", !.id = i]
<1>2. q \in Request /\ q.pc = "get"
  BY IdleType DEF Request, PCs
<1>3. ReqType' /\ \A s \in Requests : Alone(s)'
  BY <1>1, <1>2, BeginKeeps
<1> QED
  BY <1>3 DEF Get, table, IInv, Typed, TableType, MediaType, EncoderType

LEMMA StepPut == ASSUME IInv, NEW r \in Requests, Put(r) PROVE IInv'
<1>1. PICK i \in Regions \cup {Unknown}, o \in BOOLEAN, b \in Boxes :
        Begin(r, [Idle EXCEPT !.pc = "get", !.id = i, !.on = o, !.box = b, !.set = TRUE])
  BY DEF Put
<1> DEFINE q == [Idle EXCEPT !.pc = "get", !.id = i, !.on = o, !.box = b, !.set = TRUE]
<1>2. q \in Request /\ q.pc = "get"
  BY IdleType DEF Request, PCs
<1>3. ReqType' /\ \A s \in Requests : Alone(s)'
  BY <1>1, <1>2, BeginKeeps
<1> QED
  BY <1>3 DEF Put, table, IInv, Typed, TableType, MediaType, EncoderType

LEMMA StepRead == ASSUME IInv, NEW r \in Requests, Read(r) PROVE IInv'
<1> DEFINE q == [req[r] EXCEPT !.pc = "flags", !.any = On # {}, !.next = 1]
<1>1. Go(r, q) /\ UNCHANGED <<enabled, box, flag, encoder, media>>
  BY DEF Read, table
<1>2. req[r] \in Request
  BY DEF IInv, Typed, ReqType
<1>3. (On # {}) \in BOOLEAN /\ 1 \in 1 .. RegionNum + 1
  OBVIOUS
<1>4. q \in Request /\ q.alone = req[r].alone /\ q.any = (On # {}) /\ q.next = 1
  BY <1>2, <1>3 DEF Request, PCs
<1>5. On' = On
  BY <1>1 DEF On
<1>6. \A i \in Regions : ~(i < q.next)
  BY <1>4 DEF Regions
<1>7. ReqType' /\ \A s \in Requests : Alone(s)'
  <2> HIDE DEF q
  <2> QED
    BY <1>1, <1>4, <1>5, <1>6, GoKeeps
<1> QED
  BY <1>1, <1>7 DEF IInv, Typed, TableType, MediaType, EncoderType

LEMMA StepWriteFlag == ASSUME IInv, NEW r \in Requests, WriteFlag(r) PROVE IInv'
<1> DEFINE n == req[r].next
           q == [req[r] EXCEPT !.next = @ + 1]
<1>1. /\ req[r].pc = "flags" /\ n \in Regions
      /\ flag' = [flag EXCEPT ![n] = req[r].any]
      /\ Go(r, q)
      /\ UNCHANGED <<enabled, box, encoder, media>>
  BY DEF WriteFlag
<1>2. req[r] \in Request
  BY DEF IInv, Typed, ReqType
<1>3. n + 1 \in 1 .. RegionNum + 1
  BY <1>1 DEF Regions
<1>4. q \in Request /\ q.alone = req[r].alone /\ q.any = req[r].any /\ q.next = n + 1
  BY <1>2, <1>3 DEF Request
<1>5. TableType'
  BY <1>1, <1>2 DEF IInv, Typed, TableType, Request
<1>6. On' = On
  BY <1>1 DEF On
<1>7. ASSUME q.alone
      PROVE  q.any = (On # {}) /\ \A i \in Regions : i < q.next => flag'[i] = (On # {})
  <2>1. req[r].any = (On # {}) /\ \A i \in Regions : i < n => flag[i] = (On # {})
    BY <1>1, <1>4, <1>7 DEF IInv, Alone
  <2>2. ASSUME NEW i \in Regions, i < n + 1 PROVE i < n \/ i = n
    BY <1>1, <2>2 DEF Regions
  <2>3. \A i \in Regions : flag'[i] = IF i = n THEN req[r].any ELSE flag[i]
    BY <1>1 DEF IInv, Typed, TableType
  <2> QED
    BY <1>4, <2>1, <2>2, <2>3
<1>8. ReqType' /\ \A s \in Requests : Alone(s)'
  <2> HIDE DEF q
  <2> QED
    BY <1>1, <1>4, <1>6, <1>7, GoKeeps
<1> QED
  BY <1>1, <1>5, <1>8 DEF IInv, Typed, MediaType, EncoderType

LEMMA StepAnswer == ASSUME IInv, NEW r \in Requests, Answer(r) PROVE IInv'
<1>1. Idle.alone = FALSE
  BY DEF Idle
<1>2. ReqType' /\ \A s \in Requests : Alone(s)'
  BY <1>1, IdleType, GoKeeps DEF Answer
<1> QED
  BY <1>2 DEF Answer, table, IInv, Typed, TableType, MediaType, EncoderType

LEMMA StepWriteRow == ASSUME IInv, NEW r \in Requests, WriteRow(r) PROVE IInv'
<1> DEFINE q == [req[r] EXCEPT !.pc = "row"]
<1>1. req[r] \in Request
  BY DEF IInv, Typed, ReqType
<1>2. q \in Request /\ q.alone = req[r].alone /\ q.pc = "row"
  BY <1>1 DEF Request, PCs
<1>3. ReqType' /\ \A s \in Requests : Alone(s)'
  BY <1>2, GoKeeps DEF WriteRow
<1>4. TableType'
  BY <1>1 DEF WriteRow, IInv, Typed, TableType, Request
<1> QED
  BY <1>3, <1>4 DEF WriteRow, IInv, Typed, MediaType, EncoderType

LEMMA StepCallSetRoi == ASSUME IInv, NEW r \in Requests, CallSetRoi(r) PROVE IInv'
<1> DEFINE q == [req[r] EXCEPT !.pc = "apply"]
<1>1. req[r] \in Request
  BY DEF IInv, Typed, ReqType
<1>2. q \in Request /\ q.alone = req[r].alone /\ q.pc = "apply"
  BY <1>1 DEF Request, PCs
<1>3. ReqType' /\ \A s \in Requests : Alone(s)'
  BY <1>2, GoKeeps DEF CallSetRoi
<1>4. MediaType'
  BY RestingType DEF CallSetRoi, MediaType, Media
<1> QED
  BY <1>3, <1>4 DEF CallSetRoi, table, IInv, Typed, TableType, EncoderType

LEMMA StepSelectRoi == ASSUME IInv, SelectRoi PROVE IInv'
<1> DEFINE i == Len(media.seen) + 1
<1>1. /\ media \in Media /\ media.seen \in Seq(Boxes \cup {Blank})
      /\ media.count \in 0 .. RegionNum /\ media.count <= Len(media.seen)
  BY DEF IInv, Typed, MediaType, Media
<1>2. Len(media.seen) \in Nat /\ Len(media.seen) < RegionNum
  BY <1>1 DEF SelectRoi
<1>3. i \in Regions
  BY <1>2 DEF Regions
<1>4. ASSUME NEW b \in Boxes \cup {Blank}, NEW n \in 0 .. RegionNum, n <= media.count + 1,
             media' \in Media, media'.seen = Append(media.seen, b), media'.count = n
      PROVE  MediaType'
  <2>1. Len(Append(media.seen, b)) = Len(media.seen) + 1
    BY <1>1
  <2> QED
    BY <1>1, <1>2, <1>4, <2>1 DEF MediaType
<1>5. ASSUME enabled[i] PROVE MediaType'
  <2>1. box[i] \in Boxes /\ media.count + 1 \in 0 .. RegionNum
    BY <1>1, <1>2, <1>3 DEF IInv, Typed, TableType
  <2>2. media' = [media EXCEPT !.seen = Append(@, box[i]), !.count = @ + 1]
    BY <1>5 DEF SelectRoi
  <2>3. Append(media.seen, box[i]) \in Seq(Boxes \cup {Blank})
    BY <1>1, <2>1
  <2>4. media' \in Media /\ media'.seen = Append(media.seen, box[i])
        /\ media'.count = media.count + 1
    BY <1>1, <2>1, <2>2, <2>3 DEF Media
  <2>5. media.count + 1 <= media.count + 1
    BY <1>1
  <2> QED
    BY <1>4, <2>1, <2>4, <2>5
<1>6. ASSUME ~enabled[i] PROVE MediaType'
  <2>1. media' = [media EXCEPT !.seen = Append(@, Blank)]
    BY <1>6 DEF SelectRoi
  <2>2. Append(media.seen, Blank) \in Seq(Boxes \cup {Blank})
    BY <1>1
  <2>3. media' \in Media /\ media'.seen = Append(media.seen, Blank)
        /\ media'.count = media.count
    BY <1>1, <2>1, <2>2 DEF Media
  <2>4. media.count <= media.count + 1
    BY <1>1
  <2> QED
    BY <1>1, <1>4, <2>3, <2>4
<1>7. MediaType'
  BY <1>5, <1>6
<1>8. UNCHANGED <<enabled, box, flag, encoder, req>>
  BY DEF SelectRoi, table
<1> QED
  BY <1>7, <1>8 DEF IInv, Typed, TableType, EncoderType, ReqType, Alone, On

LEMMA StepSetRoiRegion == ASSUME IInv, NEW r \in Requests, SetRoiRegion(r) PROVE IInv'
<1> DEFINE q == [req[r] EXCEPT !.pc = "get", !.set = FALSE]
<1>1. req[r] \in Request
  BY DEF IInv, Typed, ReqType
<1>2. q \in Request /\ q.alone = req[r].alone /\ q.pc = "get"
  BY <1>1 DEF Request, PCs
<1>3. ReqType' /\ \A s \in Requests : Alone(s)'
  BY <1>2, GoKeeps DEF SetRoiRegion
<1>4. MediaType'
  BY RestingType DEF SetRoiRegion, MediaType
<1>5. RegionsSent \in Seq(Boxes \cup {Blank})
  <2>1. /\ media.seen \in Seq(Boxes \cup {Blank})
        /\ media.count \in Nat /\ media.count <= Len(media.seen)
    BY DEF IInv, Typed, MediaType, Media
  <2> QED
    BY <2>1 DEF RegionsSent
<1>6. EncoderType'
  BY <1>5 DEF SetRoiRegion, IInv, Typed, EncoderType
<1> QED
  BY <1>3, <1>4, <1>6 DEF SetRoiRegion, table, IInv, Typed, TableType

-----------------------------------------------------------------------------
(* The theorems.                                                           *)

LEMMA InvStep == IInv /\ [Next]_vars => IInv'
<1> SUFFICES ASSUME IInv, [Next]_vars PROVE IInv'
  OBVIOUS
<1>1. ASSUME NEW r \in Requests, Handler(r) PROVE IInv'
  BY <1>1, StepGet, StepPut, StepRead, StepWriteFlag, StepWriteRow, StepCallSetRoi,
     StepSetRoiRegion, StepAnswer DEF Handler
<1>2. CASE UNCHANGED vars
  BY <1>2 DEF vars, IInv, Typed, TableType, MediaType, EncoderType, ReqType, Alone, On
<1> QED
  BY <1>1, <1>2, StepSelectRoi DEF Next

THEOREM Invariance == Spec => []IInv
  BY InitInv, InvStep, PTL DEF Spec

\* The rows, the encoder's regions, mediaserver's locals and the handlers' keep
\* their shapes; in particular GetRoiRegions never counts past the last row.
THEOREM TypeCorrect == Spec => []TypeOK
<1>1. IInv => TypeOK
  BY DEF IInv, Typed, TypeOK, TableType, MediaType, EncoderType, ReqType
<1> QED
  BY <1>1, Invariance, PTL

\* A request that runs while no other does leaves the flag of every row right,
\* whatever races left behind (roi_api.cpp:82).
THEOREM LoneRepairs == Spec => LoneRequestRepairs
<1>1. ASSUME IInv, NEW r \in Requests, Answer(r), req[r].alone
      PROVE  \A i \in Regions : flag'[i] = (On # {})
  <2>1. req[r].pc = "flags" /\ req[r].next \notin Regions /\ UNCHANGED flag
    BY <1>1 DEF Answer, FlagsWritten, table
  <2>2. req[r].next \in 1 .. RegionNum + 1
    BY <1>1 DEF IInv, Typed, ReqType, Request
  <2>3. \A i \in Regions : i < req[r].next
    BY <2>1, <2>2 DEF Regions
  <2> QED
    BY <1>1, <2>1, <2>3 DEF IInv, Alone
<1>2. IInv /\ [Next]_vars =>
        [\A r \in Requests : (Answer(r) /\ req[r].alone)
                               => \A i \in Regions : flag'[i] = (On # {})]_vars
  BY <1>1
<1> QED
  BY <1>2, Invariance, PTL DEF Spec, LoneRequestRepairs

-----------------------------------------------------------------------------
(* Why the encoder follows the table: a request that wrote a row waits with  *)
(* it until SetRoi has started anew, so a row that SetRoi read too early      *)
(* always has a request left that makes SetRoi read it again.               *)

Written  == {r \in Requests : req[r].pc = "row"}
Applying == {r \in Requests : req[r].pc = "apply"}

\* the regions that are on, among those GetRoiRegions has looked at
OnSeen == {i \in On : i <= Len(media.seen)}

\* SetRoi works for one caller at a time
Exclusive == /\ \A r, s \in Applying : r = s
             /\ media.busy <=> Applying # {}

\* unless a written row waits, what SetRoi has read is what the rows say
Fresh == (media.busy /\ Written = {}) =>
           /\ media.count = Cardinality(OnSeen)
           /\ \A i \in OnSeen : media.seen[i] = box[i]

SInv == Exclusive /\ Fresh /\ EncoderFollowsTable

LEMMA QuietMeans ==
  (\A r \in Requests : req[r].pc \notin {"row", "apply"}) <=> (Written = {} /\ Applying = {})
  BY DEF Written, Applying

LEMMA OnFinite ==
  IsFiniteSet(On) /\ IsFiniteSet(OnSeen)
<1>1. IsFiniteSet(Regions)
  BY FS_Interval DEF Regions
<1>2. On \in SUBSET Regions /\ OnSeen \in SUBSET Regions
  BY DEF On, OnSeen
<1> QED
  BY <1>1, <1>2, FS_Subset

LEMMA InitFollows == Init => SInv
<1> SUFFICES ASSUME Init PROVE SInv
  OBVIOUS
<1>1. Applying = {} /\ ~media.busy /\ On = {}
  BY DEF Init, Applying, Idle, Resting, On
<1> QED
  BY <1>1 DEF SInv, Exclusive, Fresh, EncoderFollowsTable

\* Steps between reading, writing flags and answering.
LEMMA QuietStep ==
  ASSUME SInv, Written' = Written, Applying' = Applying, UNCHANGED <<enabled, box, encoder, media>>
  PROVE  SInv'
<1>1. On' = On /\ OnSeen' = OnSeen
  BY DEF On, OnSeen
<1>2. (\A r \in Requests : req[r].pc \notin {"row", "apply"})'
        <=> \A r \in Requests : req[r].pc \notin {"row", "apply"}
  BY DEF Written, Applying
<1>3. Exclusive' /\ Fresh'
  BY <1>1 DEF SInv, Exclusive, Fresh
<1>4. EncoderFollowsTable'
  BY <1>1, <1>2 DEF SInv, EncoderFollowsTable
<1> QED
  BY <1>3, <1>4 DEF SInv

LEMMA BeginIsQuiet ==
  ASSUME IInv, NEW r \in Requests, NEW q \in Request, q.pc = "get", Begin(r, q)
  PROVE  Written' = Written /\ Applying' = Applying
<1>1. ASSUME NEW s \in Requests, s # r PROVE req'[s].pc = req[s].pc
  BY <1>1 DEF Begin, IInv, Typed, ReqType, Request
<1>2. req[r].pc = "idle" /\ req'[r].pc = "get"
  BY DEF Begin, Request
<1> QED
  BY <1>1, <1>2 DEF Written, Applying

\* Where a handler that moves on to q shows up.
LEMMA GoMoves ==
  ASSUME IInv, NEW r \in Requests, NEW q, Go(r, q)
  PROVE  /\ req'[r] = q
         /\ \A s \in Requests : s # r => req'[s] = req[s]
  BY DEF Go, IInv, Typed, ReqType

LEMMA GoIsQuiet ==
  ASSUME IInv, NEW r \in Requests, NEW q, Go(r, q),
         q.pc \notin {"row", "apply"}, req[r].pc \notin {"row", "apply"}
  PROVE  Written' = Written /\ Applying' = Applying
  BY GoMoves DEF Written, Applying

LEMMA FollowsWriteRow ==
  ASSUME IInv, SInv, NEW r \in Requests, WriteRow(r)
  PROVE  SInv'
<1> DEFINE q == [req[r] EXCEPT !.pc = "row"]
<1>1. q.pc = "row" /\ req[r].pc = "flags" /\ Go(r, q) /\ UNCHANGED media
  BY DEF WriteRow, FlagsWritten, IInv, Typed, ReqType, Request
<1>2. r \in Written' /\ Applying' = Applying
  BY <1>1, GoMoves DEF Written, Applying
<1>3. Exclusive' /\ Fresh'
  BY <1>1, <1>2 DEF SInv, Exclusive, Fresh
<1>4. EncoderFollowsTable'
  BY <1>2 DEF EncoderFollowsTable, Written
<1> QED
  BY <1>3, <1>4 DEF SInv

LEMMA FollowsCallSetRoi ==
  ASSUME IInv, SInv, NEW r \in Requests, CallSetRoi(r)
  PROVE  SInv'
<1> DEFINE q == [req[r] EXCEPT !.pc = "apply"]
<1>1. q.pc = "apply" /\ req[r].pc = "row" /\ Go(r, q) /\ ~media.busy
  BY DEF CallSetRoi, IInv, Typed, ReqType, Request
<1>2. media'.busy /\ media'.seen = <<>> /\ media'.count = 0
  BY DEF CallSetRoi, Resting
<1>3. Applying = {}
  BY <1>1 DEF SInv, Exclusive
<1>4. Applying' = {r}
  <2>1. req'[r].pc = "apply" /\ \A s \in Requests : s # r => req'[s] = req[s]
    <3> HIDE DEF q
    <3> QED
      BY <1>1, GoMoves
  <2> QED
    BY <1>3, <2>1 DEF Applying
<1>5. Exclusive'
  BY <1>2, <1>4 DEF Exclusive
<1>6. OnSeen' = {}
  BY <1>2 DEF OnSeen, On, Regions
<1>7. Fresh'
  BY <1>2, <1>6, FS_EmptySet DEF Fresh
<1>8. EncoderFollowsTable'
  BY <1>4 DEF EncoderFollowsTable, Applying
<1> QED
  BY <1>5, <1>7, <1>8 DEF SInv

LEMMA FollowsSelectRoi ==
  ASSUME IInv, SInv, SelectRoi
  PROVE  SInv'
<1> DEFINE n == Len(media.seen) + 1
<1>1. /\ media \in Media /\ media.seen \in Seq(Boxes \cup {Blank})
      /\ media.count \in Nat /\ Len(media.seen) \in Nat
  BY DEF IInv, Typed, MediaType, Media
<1>2. n \in Regions
  BY <1>1 DEF SelectRoi, Regions
<1>3. UNCHANGED <<enabled, box, flag, encoder, req>> /\ media.busy
  BY DEF SelectRoi, table
<1>4. Written' = Written /\ Applying' = Applying /\ On' = On
  BY <1>3 DEF Written, Applying, On
<1>5. EncoderFollowsTable'
  BY <1>3, <1>4 DEF SInv, EncoderFollowsTable
<1>6. /\ media'.busy = media.busy
      /\ Len(media'.seen) = n
      /\ \A i \in Regions : i < n => media'.seen[i] = media.seen[i]
  <2>1. ASSUME NEW b, NEW m, media'.seen = Append(media.seen, b),
               b \in Boxes \cup {Blank}
        PROVE  /\ Len(media'.seen) = n
               /\ \A i \in Regions : i < n => media'.seen[i] = media.seen[i]
    BY <1>1, <2>1 DEF Regions
  <2>2. media'.seen = Append(media.seen, IF enabled[n] THEN box[n] ELSE Blank)
        /\ media'.busy = media.busy
    BY <1>1 DEF SelectRoi, Media
  <2>3. (IF enabled[n] THEN box[n] ELSE Blank) \in Boxes \cup {Blank}
    BY <1>2 DEF IInv, Typed, TableType
  <2> QED
    BY <2>1, <2>2, <2>3
<1>7. Exclusive'
  BY <1>4, <1>6 DEF SInv, Exclusive
<1>8. ASSUME Written = {} PROVE Fresh'
  <2>1. media.count = Cardinality(OnSeen) /\ \A i \in OnSeen : media.seen[i] = box[i]
    BY <1>3, <1>8 DEF SInv, Fresh
  <2>2. OnSeen' = {i \in On : i <= n}
    BY <1>4, <1>6 DEF OnSeen
  <2>3. \A i \in Regions : i <= n => i = n \/ i <= Len(media.seen)
    BY <1>1 DEF Regions
  <2>4. CASE enabled[n]
    <3>1. OnSeen' = OnSeen \cup {n} /\ n \notin OnSeen
      BY <1>1, <1>2, <2>2, <2>3, <2>4 DEF OnSeen, On, Regions
    <3>2. Cardinality(OnSeen') = Cardinality(OnSeen) + 1
      BY <3>1, OnFinite, FS_AddElement
    <3>3. media'.count = media.count + 1 /\ media'.seen = Append(media.seen, box[n])
      BY <1>1, <2>4 DEF SelectRoi, Media
    <3>4. media'.seen[n] = box[n]
      BY <1>1, <3>3
    <3>5. \A i \in OnSeen : i \in Regions /\ i < n
      BY <1>1 DEF OnSeen, On, Regions
    <3> QED
      BY <1>3, <1>6, <2>1, <3>1, <3>2, <3>3, <3>4, <3>5 DEF Fresh
  <2>5. CASE ~enabled[n]
    <3>1. OnSeen' = OnSeen
      BY <1>1, <2>2, <2>3, <2>5 DEF OnSeen, On, Regions
    <3>2. media'.count = media.count
      BY <1>1, <2>5 DEF SelectRoi, Media
    <3>3. \A i \in OnSeen : i \in Regions /\ i < n
      BY <1>1 DEF OnSeen, On, Regions
    <3> QED
      BY <1>3, <1>6, <2>1, <3>1, <3>2, <3>3 DEF Fresh
  <2> QED
    BY <2>4, <2>5
<1>9. Fresh'
  BY <1>4, <1>8 DEF Fresh
<1> QED
  BY <1>5, <1>7, <1>9 DEF SInv

LEMMA FollowsSetRoiRegion ==
  ASSUME IInv, SInv, NEW r \in Requests, SetRoiRegion(r)
  PROVE  SInv'
<1> DEFINE q == [req[r] EXCEPT !.pc = "get", !.set = FALSE]
<1>1. q.pc = "get" /\ req[r].pc = "apply" /\ Go(r, q) /\ Len(media.seen) = RegionNum
  BY DEF SetRoiRegion, IInv, Typed, ReqType, Request
<1>2. Applying = {r} /\ media.busy
  BY <1>1 DEF SInv, Exclusive, Applying
<1>3. Applying' = {} /\ Written' = Written
  <2>1. req'[r].pc = "get" /\ \A s \in Requests : s # r => req'[s] = req[s]
    <3> HIDE DEF q
    <3> QED
      BY <1>1, GoMoves
  <2> QED
    BY <1>1, <1>2, <2>1 DEF Applying, Written
<1>4. ~media'.busy
  BY DEF SetRoiRegion, Resting
<1>5. Exclusive' /\ Fresh'
  BY <1>3, <1>4 DEF Exclusive, Fresh
<1>6. UNCHANGED <<enabled, box>> /\ On' = On
  BY DEF SetRoiRegion, table, On
<1>7. ASSUME Written = {}, On # {}
      PROVE  /\ Len(encoder') = Cardinality(On)
             /\ \A i \in On : i <= Len(encoder') => encoder'[i] = box[i]
  <2>1. OnSeen = On
    BY <1>1 DEF OnSeen, On, Regions
  <2>2. media.count = Cardinality(On) /\ \A i \in On : media.seen[i] = box[i]
    BY <1>2, <1>7, <2>1 DEF SInv, Fresh
  <2>3. /\ media.seen \in Seq(Boxes \cup {Blank}) /\ media.count \in Nat
        /\ media.count <= Len(media.seen)
    BY DEF IInv, Typed, MediaType, Media
  <2>4. media.count # 0
    BY <1>7, <2>2, OnFinite, FS_EmptySet
  <2>5. encoder' = SubSeq(media.seen, 1, media.count)
    BY <2>4 DEF SetRoiRegion, RegionsSent
  <2>6. Len(encoder') = media.count
        /\ \A i \in 1 .. media.count : encoder'[i] = media.seen[i]
    BY <2>3, <2>5
  <2>7. \A i \in On : i <= media.count => i \in 1 .. media.count
    BY <2>3 DEF On, Regions
  <2> QED
    BY <2>2, <2>6, <2>7
<1>8. EncoderFollowsTable'
  <2>1. (\A s \in Requests : req[s].pc \notin {"row", "apply"})' => Written = {}
    BY <1>3 DEF Written
  <2> QED
    BY <1>6, <1>7, <2>1 DEF EncoderFollowsTable
<1> QED
  BY <1>5, <1>8 DEF SInv

LEMMA FollowsStep == IInv /\ SInv /\ [Next]_vars => SInv'
<1> SUFFICES ASSUME IInv, SInv, [Next]_vars PROVE SInv'
  OBVIOUS
<1>1. ASSUME NEW r \in Requests, Get(r) PROVE SInv'
  <2>1. PICK i \in Regions \cup {Unknown} : Begin(r, [Idle EXCEPT !.pc = "get", !.id = i])
    BY <1>1 DEF Get
  <2>2. [Idle EXCEPT !.pc = "get", !.id = i] \in Request
        /\ [Idle EXCEPT !.pc = "get", !.id = i].pc = "get"
    BY IdleType DEF Request, PCs
  <2>3. Written' = Written /\ Applying' = Applying
    BY <2>1, <2>2, BeginIsQuiet
  <2> QED
    BY <1>1, <2>3, QuietStep DEF Get, table
<1>2. ASSUME NEW r \in Requests, Put(r) PROVE SInv'
  <2>1. PICK i \in Regions \cup {Unknown}, o \in BOOLEAN, b \in Boxes :
          Begin(r, [Idle EXCEPT !.pc = "get", !.id = i, !.on = o, !.box = b, !.set = TRUE])
    BY <1>2 DEF Put
  <2> DEFINE q == [Idle EXCEPT !.pc = "get", !.id = i, !.on = o, !.box = b, !.set = TRUE]
  <2>2. q \in Request /\ q.pc = "get"
    BY IdleType DEF Request, PCs
  <2>3. Written' = Written /\ Applying' = Applying
    BY <2>1, <2>2, BeginIsQuiet
  <2> QED
    BY <1>2, <2>3, QuietStep DEF Put, table
<1>3. ASSUME NEW r \in Requests, Read(r) PROVE SInv'
  <2> DEFINE q == [req[r] EXCEPT !.pc = "flags", !.any = On # {}, !.next = 1]
  <2>1. q.pc = "flags" /\ req[r].pc = "get" /\ Go(r, q)
    BY <1>3 DEF Read, IInv, Typed, ReqType, Request
  <2>2. Written' = Written /\ Applying' = Applying
    BY <2>1, GoIsQuiet
  <2> QED
    BY <1>3, <2>2, QuietStep DEF Read, table
<1>4. ASSUME NEW r \in Requests, WriteFlag(r) PROVE SInv'
  <2> DEFINE q == [req[r] EXCEPT !.next = @ + 1]
  <2>1. q.pc = "flags" /\ req[r].pc = "flags" /\ Go(r, q)
    BY <1>4 DEF WriteFlag, IInv, Typed, ReqType, Request
  <2>2. Written' = Written /\ Applying' = Applying
    BY <2>1, GoIsQuiet
  <2> QED
    BY <1>4, <2>2, QuietStep DEF WriteFlag
<1>5. ASSUME NEW r \in Requests, Answer(r) PROVE SInv'
  <2>1. Idle.pc = "idle" /\ req[r].pc = "flags" /\ Go(r, Idle)
    BY <1>5 DEF Answer, FlagsWritten, Idle
  <2>2. Written' = Written /\ Applying' = Applying
    BY <2>1, GoIsQuiet
  <2> QED
    BY <1>5, <2>2, QuietStep DEF Answer, table
<1>6. CASE UNCHANGED vars
  BY <1>6, QuietStep DEF vars, Written, Applying
<1>7. ASSUME NEW r \in Requests, Handler(r) PROVE SInv'
  BY <1>1, <1>2, <1>3, <1>4, <1>5, <1>7, FollowsWriteRow, FollowsCallSetRoi,
     FollowsSetRoiRegion DEF Handler
<1> QED
  BY <1>6, <1>7, FollowsSelectRoi DEF Next

\* Once no written row waits for mediaserver any more, the encoder has as many
\* regions as are on, each in the first rows with its own box (roi_api.cpp:113,
\* flow_db_protocol.cpp:416), for any number of requests and regions.
THEOREM EncoderFollows == Spec => []EncoderFollowsTable
<1>1. Init => SInv
  BY InitFollows
<1>2. IInv /\ SInv /\ [Next]_vars => SInv'
  BY FollowsStep
<1>3. SInv => EncoderFollowsTable
  BY DEF SInv
<1> QED
  BY <1>1, <1>2, <1>3, Invariance, PTL DEF Spec
=============================================================================
