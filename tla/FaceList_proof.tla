--------------------------- MODULE FaceList_proof ---------------------------
(***************************************************************************)
(* What holds of the face list in every interleaving, for any number of     *)
(* clients, labels and persons and any bounds: the stores keep their shape, *)
(* a registered member counts as loaded, no face is known twice; the four   *)
(* stores stay in step until a step acts on outdated information, which no  *)
(* step does when there is one client.                                      *)
(***************************************************************************)
EXTENDS FaceList, FiniteSetTheorems, TLAPS

USE BoundsAssumption

-----------------------------------------------------------------------------
(* The inductive invariant.                                                *)

\* Steps that write a label, use the row as it was read, or use a path.
NeedLabel == {"add_set", "mod_set"}
NeedOld   == {"mod_set", "mod_reread", "mod_face", "mod_move", "del_row", "del_unlink",
              "del_face", "del_find", "del_records"}
NeedPath  == {"mod_face", "mod_move", "up_lookup", "up_push"}

\* Locals with what the next step of the handler needs.
Fitting == {q \in Request : /\ q.pc \in NeedLabel => q.label \in Labels
                            /\ q.pc \in NeedOld => q.old \in Row
                            /\ q.pc \in NeedPath => q.path \in Paths}

\* The same for the recogniser's thread.
Holding == {w \in Worker : /\ w.stage \in {"read", "new", "report"} => w.path \in Paths
                           /\ w.stage \in {"read", "new"} => w.face \in Persons
                           /\ w.stage = "match" => w.user \in Users}

\* The types of the three variables that make up the table, and of the others.
DbType   == faceList \in [Ids -> Row \cup {NoRow}] /\ tableUp \in BOOLEAN /\ autoId \in Ids
PicType  == pictures \in [Paths -> Content \cup {NoPicture}]
FaceType == userDb \in [Users -> Persons \cup {NoPerson}]
ReqType  == req \in [Requests -> Fitting]
FeedType == queue \in Seq(Paths) /\ handed \in 0 .. Len(queue) /\ enabled \in BOOLEAN
RestType == records \subseteq Users /\ FeedType /\ stale \in BOOLEAN
WorkType == worker \in Holding

Typed == DbType /\ PicType /\ FaceType /\ ReqType /\ RestType /\ WorkType

\* The face the thread found to be new is still unknown when it is inserted:
\* requests only ever take faces away.
NewIsUnknown == worker.stage = "new" => \A u \in Users : userDb[u] # worker.face

IInv == Typed /\ NewIsUnknown /\ RegisteredIsLoaded /\ NoTwinFaces

LEMMA TypedType == Typed => TypeOK
<1>1. ReqType => req \in [Requests -> Request]
  BY DEF ReqType, Fitting
<1>2. WorkType => worker \in Worker
  BY DEF WorkType, Holding
<1> QED
  BY <1>1, <1>2 DEF Typed, TypeOK, DbType, PicType, FaceType, RestType, FeedType

LEMMA IdleType == Idle \in Fitting
<1>1. Idle \in Request
  BY DEF Idle, Request, PCs, NoPath, Ids
<1> QED
  BY <1>1 DEF Idle, Fitting, NeedLabel, NeedOld, NeedPath

LEMMA RestingType == Resting \in Holding
<1>1. NoPerson \in Content /\ Resting.path \in Paths \cup {NoPath}
  BY DEF Resting, Content
<1>2. Resting \in Worker
  BY <1>1 DEF Resting, Worker
<1> QED
  BY <1>2 DEF Resting, Holding

\* Init gives every store, the queue and every handler a value of its type.
LEMMA InitInv == Init => IInv
<1> SUFFICES ASSUME Init PROVE IInv
  OBVIOUS
<1>1. DbType
  BY DEF Init, DbType, Ids
<1>2. PicType /\ FaceType
  BY DEF Init, PicType, FaceType
<1>7. records \subseteq Users /\ stale \in BOOLEAN
  BY DEF Init
<1>8. FeedType
  BY DEF Init, FeedType
<1>3. ReqType
  BY IdleType DEF Init, ReqType
<1>4. WorkType
  BY RestingType DEF Init, WorkType
<1>5. NewIsUnknown
  BY DEF Init, NewIsUnknown, Resting
<1>6. RegisteredIsLoaded /\ NoTwinFaces
  BY DEF Init, RegisteredIsLoaded, NoTwinFaces, Listed, Known
<1> QED
  BY <1>1, <1>2, <1>3, <1>4, <1>5, <1>6, <1>7, <1>8
  DEF IInv, Typed, RestType

-----------------------------------------------------------------------------
(* What the locals keep.                                                   *)

\* A handler that starts, or goes on, with locals of the right type.
LEMMA LocalsType ==
  ASSUME ReqType, NEW r \in Requests, NEW q \in Fitting, req' = [req EXCEPT ![r] = q]
  PROVE  ReqType'
  BY DEF ReqType

LEMMA FinishType ==
  ASSUME ReqType, NEW r \in Requests, Finish(r)
  PROVE  ReqType'
  BY IdleType, LocalsType DEF Finish

\* A handler may go on to a step that needs no more than the one before it.
LEMMA GotoType ==
  ASSUME ReqType, NEW r \in Requests, NEW pc \in PCs, Goto(r, pc),
         pc \in NeedLabel => req[r].pc \in NeedLabel,
         pc \in NeedOld => req[r].pc \in NeedOld,
         pc \in NeedPath => req[r].pc \in NeedPath
  PROVE  ReqType'
<1> DEFINE q == [req[r] EXCEPT !.pc = pc]
<1>1. req[r] \in Fitting
  BY DEF ReqType
<1>2. q \in Request /\ q.pc = pc /\ q.label = req[r].label /\ q.old = req[r].old
        /\ q.path = req[r].path
  BY <1>1 DEF Fitting, Request
<1>3. q \in Fitting
  BY <1>1, <1>2 DEF Fitting
<1> QED
  BY <1>3, LocalsType DEF Goto

-----------------------------------------------------------------------------
(* What the writing operators keep.                                        *)

\* face_list_set writes a row of the table's type, or nothing at all, and never
\* marks a registered row as not loaded.
LEMMA SetRowKeeps ==
  ASSUME DbType, RegisteredIsLoaded, NEW i \in Ids, NEW l \in Labels,
         NEW redo \in BOOLEAN, SetRow(i, l, redo)
  PROVE  DbType' /\ RegisteredIsLoaded'
<1>1. CASE ~tableUp
  BY <1>1 DEF SetRow, DbType, db, RegisteredIsLoaded, Listed
<1>2. CASE tableUp
  <2> DEFINE row == [path   |-> <<l, i>>,
                     dbid   |-> IF redo THEN Pending
                                ELSE IF faceList[i] = NoRow THEN Never ELSE faceList[i].dbid,
                     loaded |-> IF faceList[i] = NoRow THEN FALSE ELSE faceList[i].loaded]
  <2>1. row.dbid \in Users \cup {Never, Pending} /\ row.loaded \in BOOLEAN
    BY DEF DbType, Row
  <2>2. row.path \in Paths
    BY DEF Paths
  <2>3. row \in Row
    BY <2>1, <2>2 DEF Row
  <2>4. Put(i, row)
    BY <1>2 DEF SetRow
  <2>5. DbType'
    BY <2>3, <2>4 DEF Put, DbType
  <2>6. row.dbid \in Users => row.loaded
    BY DEF RegisteredIsLoaded, Listed, Users, Pending, Never
  <2>7. RegisteredIsLoaded'
    BY <2>4, <2>6 DEF Put, DbType, RegisteredIsLoaded, Listed
  <2> QED
    BY <2>5, <2>7
<1> QED
  BY <1>1, <1>2 DEF DbType

\* The report of a registration by path keeps the table's type, whether it finds a
\* row, makes one, or hits a table that is being created anew, and marks as loaded
\* exactly what it registers.
LEMMA SetByPathKeeps ==
  ASSUME DbType, RegisteredIsLoaded, NEW p \in Paths, NEW u \in Users \cup {Never},
         SetByPath(p, u)
  PROVE  DbType' /\ RegisteredIsLoaded'
<1> DEFINE row == [path |-> p, dbid |-> u, loaded |-> u # Never]
<1>1. row \in Row /\ (row.dbid \in Users => row.loaded)
  <2>1. (u # Never) \in BOOLEAN
    OBVIOUS
  <2>2. row \in Row
    BY <2>1 DEF Row
  <2>3. Never \notin Users
    BY DEF Users, Never
  <2> QED
    BY <2>2, <2>3
<1>2. CASE ~tableUp
  BY <1>2 DEF SetByPath, DbType, db, RegisteredIsLoaded, Listed
<1>3. CASE tableUp /\ At(p) # {}
  <2>1. faceList' = [i \in Ids |-> IF i \in At(p) THEN row ELSE faceList[i]]
        /\ UNCHANGED <<tableUp, autoId>>
    BY <1>3 DEF SetByPath
  <2>2. DbType'
    BY <1>1, <2>1 DEF DbType
  <2>3. RegisteredIsLoaded'
    BY <1>1, <2>1 DEF DbType, RegisteredIsLoaded, Listed
  <2> QED
    BY <2>2, <2>3
<1>4. CASE tableUp /\ At(p) = {}
  <2>1. autoId + 1 \in Ids /\ Put(autoId + 1, row)
    BY <1>4 DEF SetByPath
  <2>2. DbType'
    BY <1>1, <2>1 DEF Put, DbType
  <2>3. RegisteredIsLoaded'
    BY <1>1, <2>1 DEF Put, DbType, RegisteredIsLoaded, Listed
  <2> QED
    BY <2>2, <2>3
<1> QED
  BY <1>2, <1>3, <1>4 DEF DbType

LEMMA DeleteRowsKeeps ==
  ASSUME DbType, RegisteredIsLoaded, NEW S, DeleteRows(S)
  PROVE  DbType' /\ RegisteredIsLoaded'
  BY DEF DeleteRows, DbType, RegisteredIsLoaded, Listed

LEMMA UnlinkKeeps ==
  ASSUME PicType, NEW P, Unlink(P)
  PROVE  PicType'
  BY DEF Unlink, PicType

\* Faces only go away: no twin appears, and a new face stays new.
LEMMA ForgetKeeps ==
  ASSUME FaceType, WorkType, NoTwinFaces, NewIsUnknown, NEW U, Forget(U), UNCHANGED worker
  PROVE  FaceType' /\ NoTwinFaces' /\ NewIsUnknown'
<1>1. FaceType'
  BY DEF Forget, FaceType
<1>2. NoTwinFaces'
  BY DEF Forget, FaceType, NoTwinFaces, Known
<1>3. NewIsUnknown'
  BY AbsentAssumption DEF Forget, FaceType, WorkType, Holding, NewIsUnknown
<1> QED
  BY <1>1, <1>2, <1>3

-----------------------------------------------------------------------------
(* Steps that leave some of the variables alone.                           *)

LEMMA Unchanged ==
  ASSUME IInv
  PROVE  /\ UNCHANGED db => DbType' /\ RegisteredIsLoaded'
         /\ UNCHANGED pictures => PicType'
         /\ UNCHANGED <<userDb, worker>> =>
              FaceType' /\ WorkType' /\ NoTwinFaces' /\ NewIsUnknown'
         /\ UNCHANGED req => ReqType'
         /\ UNCHANGED <<records, queue, feed, stale>> => RestType'
         /\ \A c \in BOOLEAN : UNCHANGED <<records, queue, feed>> /\ Outdated(c) => RestType'
<1>1. UNCHANGED db => DbType' /\ RegisteredIsLoaded'
  BY DEF IInv, Typed, DbType, RegisteredIsLoaded, Listed, db
<1>2. UNCHANGED pictures => PicType'
  BY DEF IInv, Typed, PicType
<1>3. UNCHANGED <<userDb, worker>> => FaceType' /\ WorkType' /\ NoTwinFaces' /\ NewIsUnknown'
  BY DEF IInv, Typed, FaceType, WorkType, NoTwinFaces, NewIsUnknown, Known
<1>4. UNCHANGED req => ReqType'
  BY DEF IInv, Typed, ReqType
<1>5. UNCHANGED <<records, queue, feed, stale>> => RestType'
  BY DEF IInv, Typed, RestType, FeedType, feed
<1>6. ASSUME NEW c \in BOOLEAN, UNCHANGED <<records, queue, feed>>, Outdated(c) PROVE RestType'
  BY <1>6 DEF IInv, Typed, RestType, FeedType, feed, Outdated
<1> QED
  BY <1>1, <1>2, <1>3, <1>4, <1>5, <1>6

-----------------------------------------------------------------------------
(* One lemma per action: PUT event/face.                                   *)

LEMMA StepAddRead == ASSUME IInv, NEW r \in Requests, AddRead(r) PROVE IInv'
<1>1. PICK i \in Ids, l \in Labels, redo \in BOOLEAN :
        req' = [req EXCEPT ![r] = [Idle EXCEPT !.pc = "add_set", !.id = i,
                                              !.label = l, !.redo = redo]]
  BY DEF AddRead
<1>2. [Idle EXCEPT !.pc = "add_set", !.id = i, !.label = l, !.redo = redo] \in Fitting
  BY IdleType DEF Fitting, Request, PCs, NeedLabel, NeedOld, NeedPath
<1>3. ReqType'
  BY <1>1, <1>2, LocalsType DEF IInv, Typed
<1> QED
  BY Unchanged, <1>3 DEF AddRead, IInv, Typed

LEMMA StepAddSet == ASSUME IInv, NEW r \in Requests, AddSet(r) PROVE IInv'
<1>1. req[r].id \in Ids /\ req[r].label \in Labels /\ req[r].redo \in BOOLEAN
  BY DEF IInv, Typed, ReqType, Fitting, Request, AddSet, At_, NeedLabel
<1>2. DbType' /\ RegisteredIsLoaded'
  BY <1>1, SetRowKeeps DEF AddSet, IInv, Typed
<1>3. ReqType'
  BY FinishType DEF AddSet, IInv, Typed
<1>4. (~tableUp \/ faceList[req[r].id] # NoRow) \in BOOLEAN
  OBVIOUS
<1> QED
  BY Unchanged, <1>2, <1>3, <1>4 DEF AddSet, IInv, Typed

LEMMA StepModifyRead == ASSUME IInv, NEW r \in Requests, ModifyRead(r) PROVE IInv'
<1>1. PICK i \in Listed, l \in Labels, redo \in BOOLEAN :
        req' = [req EXCEPT ![r] = [Idle EXCEPT !.pc = "mod_set", !.id = i, !.label = l,
                                            !.redo = redo, !.old = faceList[i]]]
  BY DEF ModifyRead
<1>2. i \in Ids /\ faceList[i] \in Row
  BY DEF Listed, IInv, Typed, DbType
<1>3. [Idle EXCEPT !.pc = "mod_set", !.id = i, !.label = l,
                   !.redo = redo, !.old = faceList[i]] \in Fitting
  BY <1>2, IdleType DEF Fitting, Request, PCs, NeedLabel, NeedOld, NeedPath
<1>4. ReqType'
  BY <1>1, <1>3, LocalsType DEF IInv, Typed
<1> QED
  BY Unchanged, <1>4 DEF ModifyRead, IInv, Typed

LEMMA StepModifySet == ASSUME IInv, NEW r \in Requests, ModifySet(r) PROVE IInv'
<1>1. req[r].id \in Ids /\ req[r].label \in Labels /\ req[r].redo \in BOOLEAN
  BY DEF IInv, Typed, ReqType, Fitting, Request, ModifySet, At_, NeedLabel
<1>2. DbType' /\ RegisteredIsLoaded'
  BY <1>1, SetRowKeeps DEF ModifySet, IInv, Typed
<1>3. ReqType'
  BY GotoType DEF ModifySet, IInv, Typed, At_, PCs, NeedLabel, NeedOld, NeedPath
<1>4. (faceList[req[r].id] # req[r].old) \in BOOLEAN
  OBVIOUS
<1> QED
  BY Unchanged, <1>2, <1>3, <1>4 DEF ModifySet, IInv, Typed

LEMMA StepModifyReread == ASSUME IInv, NEW r \in Requests, ModifyReread(r) PROVE IInv'
<1> DEFINE now == faceList[req[r].id]
           due == req[r].old.dbid \in Users
           del == due /\ now # NoRow /\ now.dbid = Pending
           pc  == IF del THEN "mod_face"
                  ELSE IF now # NoRow /\ now.path # req[r].old.path THEN "mod_move"
                  ELSE "idle"
<1>1. req[r] \in Fitting /\ req[r].pc = "mod_reread"
  BY DEF IInv, Typed, ReqType, ModifyReread, At_
<1>2. ASSUME pc = "idle" PROVE ReqType'
  <2>1. Finish(r)
    BY <1>2 DEF ModifyReread
  <2> QED
    BY <2>1, FinishType DEF IInv, Typed
<1>3. ASSUME pc # "idle" PROVE ReqType'
  <2>1. req' = [req EXCEPT ![r].pc = pc, ![r].path = now.path]
    BY <1>3 DEF ModifyReread
  <2>2. now \in Row /\ req[r].old \in Row
    BY <1>1, <1>3 DEF IInv, Typed, DbType, Fitting, Request, NeedOld
  <2>3. pc \in {"mod_face", "mod_move"} /\ now.path \in Paths
    BY <1>3, <2>2 DEF Row
  <2> HIDE DEF now, pc
  <2>4. [req[r] EXCEPT !.pc = pc, !.path = now.path] \in Fitting
    BY <1>1, <2>2, <2>3 DEF Fitting, Request, PCs, NeedLabel, NeedOld, NeedPath
  <2>5. req' = [req EXCEPT ![r] = [req[r] EXCEPT !.pc = pc, !.path = now.path]]
    BY <2>1
  <2> QED
    BY <2>4, <2>5, LocalsType DEF IInv, Typed
<1>4. ReqType'
  BY <1>2, <1>3
<1>5. (now = NoRow \/ (req[r].redo /\ due /\ ~del)) \in BOOLEAN
  OBVIOUS
<1> QED
  BY Unchanged, <1>4, <1>5 DEF ModifyReread, IInv, Typed

LEMMA StepModifyFace == ASSUME IInv, NEW r \in Requests, ModifyFace(r) PROVE IInv'
<1>1. ReqType'
  BY GotoType, FinishType DEF ModifyFace, IInv, Typed, At_, PCs, NeedLabel, NeedOld, NeedPath
<1>2. FaceType' /\ NoTwinFaces' /\ NewIsUnknown'
  BY ForgetKeeps DEF ModifyFace, IInv, Typed
<1>3. WorkType'
  BY DEF ModifyFace, IInv, Typed, WorkType
<1>4. (HeldBy(req[r].old.dbid) # {}) \in BOOLEAN
  OBVIOUS
<1> QED
  BY Unchanged, <1>1, <1>2, <1>3, <1>4 DEF ModifyFace, IInv, Typed

LEMMA StepModifyMove == ASSUME IInv, NEW r \in Requests, ModifyMove(r) PROVE IInv'
<1> DEFINE from == req[r].old.path   to == req[r].path
<1>1. from \in Paths /\ to \in Paths
  BY DEF IInv, Typed, ReqType, Fitting, Request, Row, ModifyMove, At_, NeedOld, NeedPath
<1>2. pictures' = IF pictures[from] = NoPicture THEN pictures
                  ELSE [pictures EXCEPT ![to] = pictures[from], ![from] = NoPicture]
  BY DEF ModifyMove
<1>3. PicType'
  BY <1>1, <1>2 DEF IInv, Typed, PicType
<1>4. ReqType'
  BY FinishType DEF ModifyMove, IInv, Typed
<1>5. (pictures[from] # NoPicture /\ At(to) = {}) \in BOOLEAN
  OBVIOUS
<1> QED
  BY Unchanged, <1>3, <1>4, <1>5 DEF ModifyMove, IInv, Typed

-----------------------------------------------------------------------------
(* DELETE event/face.                                                      *)

LEMMA StepDeleteRead == ASSUME IInv, NEW r \in Requests, DeleteRead(r) PROVE IInv'
<1>1. PICK i \in Listed :
        req' = [req EXCEPT ![r] = [Idle EXCEPT !.pc = "del_row", !.id = i,
                                            !.old = faceList[i]]]
  BY DEF DeleteRead
<1>2. i \in Ids /\ faceList[i] \in Row
  BY DEF Listed, IInv, Typed, DbType
<1>3. [Idle EXCEPT !.pc = "del_row", !.id = i, !.old = faceList[i]] \in Fitting
  BY <1>2, IdleType DEF Fitting, Request, PCs, NeedLabel, NeedOld, NeedPath
<1>4. ReqType'
  BY <1>1, <1>3, LocalsType DEF IInv, Typed
<1> QED
  BY Unchanged, <1>4 DEF DeleteRead, IInv, Typed

LEMMA StepDeleteRow == ASSUME IInv, NEW r \in Requests, DeleteRow(r) PROVE IInv'
<1>1. ReqType'
  BY GotoType DEF DeleteRow, IInv, Typed, At_, PCs, NeedLabel, NeedOld, NeedPath
<1>2. DbType' /\ RegisteredIsLoaded'
  BY DeleteRowsKeeps DEF DeleteRow, IInv, Typed
<1>3. (faceList[req[r].id] # req[r].old) \in BOOLEAN
  OBVIOUS
<1> QED
  BY Unchanged, <1>1, <1>2, <1>3 DEF DeleteRow, IInv, Typed

LEMMA StepDeleteUnlink == ASSUME IInv, NEW r \in Requests, DeleteUnlink(r) PROVE IInv'
<1>1. ReqType'
  BY GotoType, FinishType DEF DeleteUnlink, IInv, Typed, At_, PCs, NeedLabel, NeedOld, NeedPath
<1>2. PicType'
  BY UnlinkKeeps DEF DeleteUnlink, IInv, Typed
<1>3. (At(req[r].old.path) # {}) \in BOOLEAN
  OBVIOUS
<1> QED
  BY Unchanged, <1>1, <1>2, <1>3 DEF DeleteUnlink, IInv, Typed

LEMMA StepDeleteFace == ASSUME IInv, NEW r \in Requests, DeleteFace(r) PROVE IInv'
<1>1. ReqType'
  BY GotoType DEF DeleteFace, IInv, Typed, At_, PCs, NeedLabel, NeedOld, NeedPath
<1>2. FaceType' /\ NoTwinFaces' /\ NewIsUnknown'
  BY ForgetKeeps DEF DeleteFace, IInv, Typed
<1>3. WorkType'
  BY DEF DeleteFace, IInv, Typed, WorkType
<1>4. (HeldBy(req[r].old.dbid) # {}) \in BOOLEAN
  OBVIOUS
<1> QED
  BY Unchanged, <1>1, <1>2, <1>3, <1>4 DEF DeleteFace, IInv, Typed

LEMMA StepDeleteFindRecords == ASSUME IInv, NEW r \in Requests, DeleteFindRecords(r) PROVE IInv'
<1>1. ReqType'
  BY GotoType, FinishType DEF DeleteFindRecords, IInv, Typed, At_, PCs, NeedLabel, NeedOld, NeedPath
<1> QED
  BY Unchanged, <1>1 DEF DeleteFindRecords, IInv, Typed

LEMMA StepDeleteRecords == ASSUME IInv, NEW r \in Requests, DeleteRecords(r) PROVE IInv'
<1>1. ReqType'
  BY FinishType DEF DeleteRecords, IInv, Typed
<1>2. RestType'
  BY DEF DeleteRecords, IInv, Typed, RestType, FeedType, feed, Outdated
<1> QED
  BY Unchanged, <1>1, <1>2 DEF DeleteRecords, IInv, Typed

-----------------------------------------------------------------------------
(* PUT event/check-face, reset-face, reset-control.                        *)

\* Paths of listed rows are paths.
LEMMA PathsOfType ==
  ASSUME DbType, NEW S \in SUBSET Listed
  PROVE  PathsOf(S) \subseteq Paths
  BY DEF PathsOf, Listed, DbType, Row

LEMMA StepCheckRead == ASSUME IInv, NEW r \in Requests, CheckRead(r) PROVE IInv'
<1>1. PICK n \in Ids :
        req' = [req EXCEPT ![r] = [Idle EXCEPT !.pc = "chk_rows", !.id = n,
                   !.seen = PathsOf(Unloaded(n)), !.todo = PathsOf(Unloaded(n))]]
  BY DEF CheckRead
<1>2. PathsOf(Unloaded(n)) \in SUBSET Paths
  BY PathsOfType DEF Unloaded, IInv, Typed
<1>3. [Idle EXCEPT !.pc = "chk_rows", !.id = n, !.seen = PathsOf(Unloaded(n)),
                   !.todo = PathsOf(Unloaded(n))] \in Fitting
  BY <1>2, IdleType DEF Fitting, Request, PCs, NeedLabel, NeedOld, NeedPath
<1>4. ReqType'
  BY <1>1, <1>3, LocalsType DEF IInv, Typed
<1> QED
  BY Unchanged, <1>4 DEF CheckRead, IInv, Typed

LEMMA StepCheckRows == ASSUME IInv, NEW r \in Requests, CheckRows(r) PROVE IInv'
<1>1. ReqType'
  BY GotoType, FinishType DEF CheckRows, IInv, Typed, At_, PCs, NeedLabel, NeedOld, NeedPath
<1>2. DbType' /\ RegisteredIsLoaded'
  BY DeleteRowsKeeps DEF CheckRows, IInv, Typed
<1>3. (PathsOf(Unloaded(req[r].id)) # req[r].seen) \in BOOLEAN
  OBVIOUS
<1> QED
  BY Unchanged, <1>1, <1>2, <1>3 DEF CheckRows, IInv, Typed

\* One path less to unlink, and maybe the next step.
LEMMA TodoType ==
  ASSUME ReqType, NEW r \in Requests, NEW p, NEW pc \in {req[r].pc, "rst_face"},
         req' = [req EXCEPT ![r].todo = @ \ {p}, ![r].pc = pc]
  PROVE  ReqType'
<1>1. req[r] \in Fitting
  BY DEF ReqType
<1>2. [req[r] EXCEPT !.todo = @ \ {p}, !.pc = pc] \in Fitting
  BY <1>1 DEF Fitting, Request, PCs, NeedLabel, NeedOld, NeedPath
<1>3. req' = [req EXCEPT ![r] = [req[r] EXCEPT !.todo = @ \ {p}, !.pc = pc]]
  OBVIOUS
<1> QED
  BY <1>2, <1>3, LocalsType

LEMMA StepCheckUnlink == ASSUME IInv, NEW r \in Requests, CheckUnlink(r) PROVE IInv'
<1>1. PICK p \in req[r].todo :
        /\ Unlink({p})
        /\ Outdated(At(p) # {})
        /\ IF req[r].todo = {p} THEN Finish(r) ELSE req' = [req EXCEPT ![r].todo = @ \ {p}]
  BY DEF CheckUnlink
<1>2. req[r] \in Fitting
  BY DEF IInv, Typed, ReqType
<1>3. ReqType'
  <2>1. CASE req[r].todo = {p}
    BY <1>1, <2>1, FinishType DEF IInv, Typed
  <2>2. CASE req[r].todo # {p}
    <3>1. [req[r] EXCEPT !.todo = @ \ {p}] \in Fitting
      BY <1>2 DEF Fitting, Request, PCs, NeedLabel, NeedOld, NeedPath
    <3>2. req' = [req EXCEPT ![r] = [req[r] EXCEPT !.todo = @ \ {p}]]
      BY <1>1, <2>2
    <3> QED
      BY <3>1, <3>2, LocalsType DEF IInv, Typed
  <2> QED
    BY <2>1, <2>2
<1>4. PicType'
  BY <1>1, UnlinkKeeps DEF IInv, Typed
<1>5. (At(p) # {}) \in BOOLEAN
  OBVIOUS
<1> QED
  BY Unchanged, <1>1, <1>3, <1>4, <1>5 DEF CheckUnlink, IInv, Typed

LEMMA StepResetRead == ASSUME IInv, NEW r \in Requests, ResetRead(r) PROVE IInv'
<1> DEFINE found == PathsOf(Listed)
           pc == IF found = {} THEN "rst_face" ELSE "rst_unlink"
<1>1. req' = [req EXCEPT ![r] = [Idle EXCEPT !.seen = found, !.todo = found, !.pc = pc]]
  BY DEF ResetRead
<1>2. found \in SUBSET Paths /\ pc \in {"rst_face", "rst_unlink"}
  BY PathsOfType DEF IInv, Typed
<1> HIDE DEF found, pc
<1>3. [Idle EXCEPT !.seen = found, !.todo = found, !.pc = pc] \in Fitting
  BY <1>2, IdleType DEF Fitting, Request, PCs, NeedLabel, NeedOld, NeedPath
<1>4. ReqType'
  BY <1>1, <1>3, LocalsType DEF IInv, Typed
<1> QED
  BY Unchanged, <1>4 DEF ResetRead, IInv, Typed

LEMMA StepResetUnlink == ASSUME IInv, NEW r \in Requests, ResetUnlink(r) PROVE IInv'
<1>1. PICK p \in req[r].todo :
        /\ Unlink({p})
        /\ req' = [req EXCEPT ![r].todo = @ \ {p},
                              ![r].pc = IF req[r].todo = {p} THEN "rst_face" ELSE @]
  BY DEF ResetUnlink
<1> DEFINE pc == IF req[r].todo = {p} THEN "rst_face" ELSE req[r].pc
<1>2. req' = [req EXCEPT ![r].todo = @ \ {p}, ![r].pc = pc]
  BY <1>1
<1>3. pc \in {req[r].pc, "rst_face"}
  OBVIOUS
<1> HIDE DEF pc
<1>4. ReqType'
  BY <1>2, <1>3, TodoType DEF IInv, Typed
<1>5. PicType'
  BY <1>1, UnlinkKeeps DEF IInv, Typed
<1> QED
  BY Unchanged, <1>4, <1>5 DEF ResetUnlink, IInv, Typed

LEMMA StepResetFace == ASSUME IInv, NEW r \in Requests, ResetFace(r) PROVE IInv'
<1>1. ReqType'
  BY GotoType DEF ResetFace, IInv, Typed, At_, PCs, NeedLabel, NeedOld, NeedPath
<1>2. FaceType' /\ NoTwinFaces' /\ NewIsUnknown'
  BY ForgetKeeps DEF ResetFace, IInv, Typed
<1>3. WorkType'
  BY DEF ResetFace, IInv, Typed, WorkType
<1> QED
  BY Unchanged, <1>1, <1>2, <1>3 DEF ResetFace, IInv, Typed

LEMMA StepResetRows == ASSUME IInv, NEW r \in Requests, ResetRows(r) PROVE IInv'
<1>1. ReqType'
  BY GotoType DEF ResetRows, IInv, Typed, At_, PCs, NeedLabel, NeedOld, NeedPath
<1>2. DbType' /\ RegisteredIsLoaded'
  BY DeleteRowsKeeps DEF ResetRows, IInv, Typed
<1>3. (\/ PathsOf(Listed) # req[r].seen
       \/ \E p \in req[r].seen : pictures[p] # NoPicture
       \/ \E u \in Known : HeldBy(u) # {}) \in BOOLEAN
  OBVIOUS
<1> QED
  BY Unchanged, <1>1, <1>2, <1>3 DEF ResetRows, IInv, Typed

\* An empty table is well typed and registers nobody.
LEMMA EmptyTable ==
  ASSUME faceList' = [i \in Ids |-> NoRow], tableUp' \in BOOLEAN, autoId' = 0
  PROVE  DbType' /\ RegisteredIsLoaded'
  BY DEF DbType, RegisteredIsLoaded, Listed, Ids

LEMMA StepResetDrop == ASSUME IInv, NEW r \in Requests, ResetDrop(r) PROVE IInv'
<1>1. ReqType'
  BY GotoType DEF ResetDrop, IInv, Typed, At_, PCs, NeedLabel, NeedOld, NeedPath
<1>2. DbType' /\ RegisteredIsLoaded'
  BY EmptyTable DEF ResetDrop
<1>3. (Listed # {}) \in BOOLEAN
  OBVIOUS
<1> QED
  BY Unchanged, <1>1, <1>2, <1>3 DEF ResetDrop, IInv, Typed

LEMMA StepResetCreate == ASSUME IInv, NEW r \in Requests, ResetCreate(r) PROVE IInv'
<1>1. ReqType'
  BY GotoType DEF ResetCreate, IInv, Typed, At_, PCs, NeedLabel, NeedOld, NeedPath
<1>2. DbType' /\ RegisteredIsLoaded'
  BY DEF ResetCreate, IInv, Typed, DbType, RegisteredIsLoaded, Listed
<1> QED
  BY Unchanged, <1>1, <1>2 DEF ResetCreate, IInv, Typed

LEMMA StepResetRecords == ASSUME IInv, NEW r \in Requests, ResetRecords(r) PROVE IInv'
<1>1. ReqType'
  BY FinishType DEF ResetRecords, IInv, Typed
<1>2. RestType'
  BY DEF ResetRecords, IInv, Typed, RestType, FeedType, feed
<1> QED
  BY Unchanged, <1>1, <1>2 DEF ResetRecords, IInv, Typed

LEMMA StepDeleteOneRecord == ASSUME IInv, NEW r \in Requests, DeleteOneRecord(r) PROVE IInv'
<1>1. RestType'
  BY DEF DeleteOneRecord, IInv, Typed, RestType, FeedType, feed
<1> QED
  BY Unchanged, <1>1 DEF DeleteOneRecord, IInv, Typed

-----------------------------------------------------------------------------
(* PUT event/face-picture.                                                 *)

LEMMA StepUploadWrite == ASSUME IInv, NEW r \in Requests, UploadWrite(r) PROVE IInv'
<1>1. PICK p \in Paths, c \in Content :
        /\ pictures' = [pictures EXCEPT ![p] = c]
        /\ Outdated(At(p) = {})
        /\ req' = [req EXCEPT ![r] = [Idle EXCEPT !.pc = "up_lookup", !.path = p]]
  BY DEF UploadWrite
<1>2. [Idle EXCEPT !.pc = "up_lookup", !.path = p] \in Fitting
  BY IdleType DEF Fitting, Request, PCs, NeedLabel, NeedOld, NeedPath
<1>3. ReqType'
  BY <1>1, <1>2, LocalsType DEF IInv, Typed
<1>4. PicType'
  BY <1>1 DEF IInv, Typed, PicType
<1>5. (At(p) = {}) \in BOOLEAN
  OBVIOUS
<1> QED
  BY Unchanged, <1>1, <1>3, <1>4, <1>5 DEF UploadWrite, IInv, Typed

LEMMA StepUploadLookup == ASSUME IInv, NEW r \in Requests, UploadLookup(r) PROVE IInv'
<1>1. ReqType'
  BY GotoType, FinishType DEF UploadLookup, IInv, Typed, At_, PCs, NeedLabel, NeedOld, NeedPath
<1> QED
  BY Unchanged, <1>1 DEF UploadLookup, IInv, Typed

LEMMA StepUploadPush == ASSUME IInv, NEW r \in Requests, UploadPush(r) PROVE IInv'
<1>1. ReqType'
  BY FinishType DEF UploadPush, IInv, Typed
<1>2. req[r].path \in Paths
  BY DEF UploadPush, At_, IInv, Typed, ReqType, Fitting, NeedPath
<1>3. FeedType'
  <2>1. queue' \in Seq(Paths) /\ Len(queue') = Len(queue) + 1
    BY <1>2 DEF UploadPush, IInv, Typed, RestType, FeedType
  <2> QED
    BY <2>1 DEF UploadPush, feed, IInv, Typed, RestType, FeedType
<1>4. RestType'
  BY <1>3 DEF UploadPush, IInv, Typed, RestType
<1> QED
  BY Unchanged, <1>1, <1>4 DEF UploadPush, IInv, Typed

LEMMA StepCopyPicture == ASSUME IInv, NEW r \in Requests, CopyPicture(r) PROVE IInv'
<1>1. PICK p \in Paths, c \in Content :
        pictures' = [pictures EXCEPT ![p] = c] /\ Outdated(At(p) = {})
  BY DEF CopyPicture
<1>2. PicType'
  BY <1>1 DEF IInv, Typed, PicType
<1>3. (At(p) = {}) \in BOOLEAN
  OBVIOUS
<1> QED
  BY Unchanged, <1>1, <1>2, <1>3 DEF CopyPicture, IInv, Typed

-----------------------------------------------------------------------------
(* The recogniser's thread, and the power.                                 *)

LEMMA StepSendInput == ASSUME IInv, SendInput PROVE IInv'
<1>1. FeedType'
  BY DEF SendInput, IInv, Typed, RestType, FeedType
<1>2. RestType'
  BY <1>1 DEF SendInput, IInv, Typed, RestType
<1> QED
  BY Unchanged, <1>2 DEF SendInput, IInv, Typed

LEMMA StepSwitch == ASSUME IInv, Switch PROVE IInv'
<1>1. FeedType'
  BY DEF Switch, IInv, Typed, RestType, FeedType
<1>2. RestType'
  BY <1>1 DEF Switch, IInv, Typed, RestType
<1> QED
  BY Unchanged, <1>2 DEF Switch, IInv, Typed

LEMMA StepWorkerRead == ASSUME IInv, WorkerRead PROVE IInv'
<1> DEFINE p == Head(queue)
<1>5. queue \in Seq(Paths) /\ queue # <<>>
  BY DEF WorkerRead, IInv, Typed, RestType, FeedType
<1>1. p \in Paths /\ Tail(queue) \in Seq(Paths) /\ Len(Tail(queue)) = Len(queue) - 1
  BY <1>5
<1>6. FeedType'
  BY <1>1, <1>5 DEF WorkerRead, IInv, Typed, RestType, FeedType
<1>2. RestType'
  BY <1>6 DEF WorkerRead, IInv, Typed, RestType
<1>3. WorkType' /\ NewIsUnknown'
  <2>1. CASE enabled /\ pictures[p] \in Persons
    <3> DEFINE w == [stage |-> "read", path |-> p, face |-> pictures[p], user |-> Never]
    <3>1. worker' = w
      BY <2>1 DEF WorkerRead
    <3>2. w \in Holding
      BY <1>1, <2>1 DEF Holding, Worker, Content
    <3> QED
      BY <3>1, <3>2 DEF WorkType, NewIsUnknown
  <2>2. CASE ~(enabled /\ pictures[p] \in Persons)
    <3>1. worker' = Resting
      BY <2>2 DEF WorkerRead
    <3> QED
      BY <3>1, RestingType DEF WorkType, NewIsUnknown, Resting
  <2> QED
    BY <2>1, <2>2
<1>4. FaceType' /\ NoTwinFaces'
  BY DEF WorkerRead, IInv, Typed, FaceType, NoTwinFaces, Known
<1> QED
  BY Unchanged, <1>2, <1>3, <1>4 DEF WorkerRead, IInv, Typed

\* The thread moves on with what it has in hand; for a face found to be new,
\* only if it is.
LEMMA StageType ==
  ASSUME WorkType, NEW s \in {"new", "report"}, NEW u \in Users \cup {Never},
         worker.stage \in {"read", "new"},
         worker' = [worker EXCEPT !.stage = s, !.user = u]
  PROVE  WorkType' /\ worker'.face = worker.face /\ worker'.stage = s
  BY DEF WorkType, Holding, Worker

LEMMA StepWorkerCompare == ASSUME IInv, WorkerCompare PROVE IInv'
<1>1. PICK s \in {"new", "report"} : worker' = [worker EXCEPT !.stage = s]
  BY DEF WorkerCompare
<1>2. worker.user \in Users \cup {Never} /\ worker.stage = "read"
  BY DEF WorkerCompare, IInv, Typed, WorkType, Holding, Worker
<1>3. worker' = [worker EXCEPT !.stage = s, !.user = worker.user]
  BY <1>1 DEF IInv, Typed, WorkType, Holding, Worker
<1>4. WorkType' /\ worker'.face = worker.face /\ worker'.stage = s
  BY <1>1, <1>2, <1>3, StageType DEF IInv, Typed
<1>5. NewIsUnknown'
  <2>1. CASE s = "report"
    BY <1>4, <2>1 DEF NewIsUnknown
  <2>2. CASE s = "new"
    <3>1. worker' # [worker EXCEPT !.stage = "report"]
      BY <1>1, <2>2 DEF IInv, Typed, WorkType, Holding, Worker
    <3>2. UNCHANGED userDb /\ \A u \in Users : userDb[u] # worker.face
      BY <3>1 DEF WorkerCompare
    <3> QED
      BY <1>4, <3>2 DEF NewIsUnknown
  <2> QED
    BY <2>1, <2>2
<1>6. FaceType' /\ NoTwinFaces'
  BY DEF WorkerCompare, IInv, Typed, FaceType, NoTwinFaces, Known
<1> QED
  BY Unchanged, <1>4, <1>5, <1>6 DEF WorkerCompare, IInv, Typed

LEMMA StepWorkerRegister == ASSUME IInv, WorkerRegister PROVE IInv'
<1>1. worker.stage = "new" /\ worker.face \in Persons
  BY DEF WorkerRegister, IInv, Typed, WorkType, Holding
<1>2. CASE worker' = [worker EXCEPT !.stage = "report"] /\ UNCHANGED userDb
  <2>3. worker' = [worker EXCEPT !.stage = "report", !.user = worker.user]
          /\ worker.user \in Users \cup {Never}
    BY <1>2 DEF IInv, Typed, WorkType, Holding, Worker
  <2>4. WorkType' /\ worker'.stage = "report"
    BY <1>1, <2>3, StageType DEF IInv, Typed
  <2>1. WorkType' /\ NewIsUnknown'
    BY <2>4 DEF NewIsUnknown
  <2>2. FaceType' /\ NoTwinFaces'
    BY <1>2 DEF IInv, Typed, FaceType, NoTwinFaces, Known
  <2> QED
    BY Unchanged, <2>1, <2>2 DEF WorkerRegister, IInv, Typed
<1>3. ASSUME NEW u \in Users, userDb' = [userDb EXCEPT ![u] = worker.face],
             worker' = [worker EXCEPT !.stage = "report", !.user = u]
      PROVE  IInv'
  <2>1. WorkType' /\ NewIsUnknown'
    BY <1>1, <1>3, StageType DEF IInv, Typed, NewIsUnknown
  <2>2. FaceType'
    BY <1>1, <1>3 DEF IInv, Typed, FaceType
  <2>3. NoTwinFaces'
    BY <1>1, <1>3 DEF IInv, Typed, FaceType, NoTwinFaces, NewIsUnknown, Known
  <2> QED
    BY Unchanged, <2>1, <2>2, <2>3 DEF WorkerRegister, IInv, Typed
<1> QED
  BY <1>2, <1>3 DEF WorkerRegister

LEMMA StepWorkerReport == ASSUME IInv, WorkerReport PROVE IInv'
<1>1. worker.path \in Paths /\ worker.user \in Users \cup {Never}
  BY DEF WorkerReport, IInv, Typed, WorkType, Holding, Worker
<1>2. DbType' /\ RegisteredIsLoaded'
  BY <1>1, SetByPathKeeps DEF WorkerReport, IInv, Typed
<1>3. WorkType' /\ NewIsUnknown'
  BY RestingType DEF WorkerReport, WorkType, NewIsUnknown, Resting
<1>4. FaceType' /\ NoTwinFaces'
  BY DEF WorkerReport, IInv, Typed, FaceType, NoTwinFaces, Known
<1>5. (\/ Cardinality(At(worker.path)) # 1
       \/ \E i \in At(worker.path) : faceList[i].dbid \in Users
       \/ worker.user \in Users /\ worker.user \notin Known) \in BOOLEAN
  OBVIOUS
<1> QED
  BY Unchanged, <1>2, <1>3, <1>4, <1>5 DEF WorkerReport, IInv, Typed

LEMMA StepWorkerMatch == ASSUME IInv, WorkerMatch PROVE IInv'
<1>1. PICK u \in Known : worker' = [Resting EXCEPT !.stage = "match", !.user = u]
  BY DEF WorkerMatch
<1>2. u \in Users
  BY DEF Known
<1>3. WorkType' /\ NewIsUnknown'
  BY <1>1, <1>2, RestingType DEF WorkType, NewIsUnknown, Resting, Holding, Worker
<1>4. FaceType' /\ NoTwinFaces'
  BY DEF WorkerMatch, IInv, Typed, FaceType, NoTwinFaces, Known
<1> QED
  BY Unchanged, <1>3, <1>4 DEF WorkerMatch, IInv, Typed

LEMMA StepWorkerRecord == ASSUME IInv, WorkerRecord PROVE IInv'
<1>1. worker.user \in Users
  BY DEF WorkerRecord, IInv, Typed, WorkType, Holding
<1>2. RestType'
  BY <1>1 DEF WorkerRecord, IInv, Typed, RestType, FeedType, feed
<1>3. WorkType' /\ NewIsUnknown'
  BY RestingType DEF WorkerRecord, WorkType, NewIsUnknown, Resting
<1>4. FaceType' /\ NoTwinFaces'
  BY DEF WorkerRecord, IInv, Typed, FaceType, NoTwinFaces, Known
<1> QED
  BY Unchanged, <1>2, <1>3, <1>4 DEF WorkerRecord, IInv, Typed

LEMMA StepReboot == ASSUME IInv, Reboot PROVE IInv'
<1>1. DbType' /\ RegisteredIsLoaded'
  BY EmptyTable DEF Reboot
<1>2. ReqType'
  BY IdleType DEF Reboot, ReqType
<1>3. WorkType' /\ NewIsUnknown'
  BY RestingType DEF Reboot, WorkType, NewIsUnknown, Resting
<1>4. FaceType' /\ NoTwinFaces'
  BY DEF Reboot, IInv, Typed, FaceType, NoTwinFaces, Known
<1>5. records' \subseteq Users /\ FeedType'
  BY DEF Reboot, FeedType
<1>6. stale' \in BOOLEAN
  BY DEF Reboot, Outdated, IInv, Typed, RestType
<1> QED
  BY Unchanged, <1>1, <1>2, <1>3, <1>4, <1>5, <1>6 DEF RestType, Reboot, IInv, Typed

-----------------------------------------------------------------------------
(* The theorems.                                                           *)

LEMMA InvStep == IInv /\ [Next]_vars => IInv'
<1> SUFFICES ASSUME IInv, [Next]_vars PROVE IInv'
  OBVIOUS
<1>1. ASSUME NEW r \in Requests, Handler(r) PROVE IInv'
  BY <1>1, StepAddRead, StepAddSet, StepModifyRead, StepModifySet, StepModifyReread,
     StepModifyFace, StepModifyMove, StepDeleteRead, StepDeleteRow,
     StepDeleteUnlink, StepDeleteFace, StepDeleteFindRecords, StepDeleteRecords,
     StepCheckRead, StepCheckRows, StepCheckUnlink, StepResetRead, StepResetUnlink,
     StepResetFace, StepResetRows, StepResetDrop, StepResetCreate,
     StepResetRecords, StepDeleteOneRecord, StepUploadWrite, StepUploadLookup,
     StepUploadPush, StepCopyPicture
  DEF Handler
<1>2. ASSUME Recogniser PROVE IInv'
  BY <1>2, StepSendInput, StepWorkerRead, StepWorkerCompare, StepWorkerRegister, StepWorkerReport,
     StepWorkerMatch, StepWorkerRecord DEF Recogniser
<1>3. CASE UNCHANGED vars
  BY <1>3, Unchanged DEF vars, feed, db, IInv, Typed
<1> QED
  BY <1>1, <1>2, <1>3, StepSwitch, StepReboot DEF Next

THEOREM Invariance == Spec => []IInv
  BY InitInv, InvStep, PTL DEF Spec

\* The four stores, the queue and the locals of every handler keep the shapes the
\* code gives them, in every interleaving of handlers, recogniser and reboots.
THEOREM TypeCorrect == Spec => []TypeOK
<1>1. IInv => TypeOK
  BY TypedType DEF IInv
<1> QED
  BY <1>1, Invariance, PTL

\* A row linked to a face of the recogniser counts as loaded, so check-face, which
\* deletes by iLoadCompleted (event_api.cpp:788), never drops it.
THEOREM RegisteredLoaded == Spec => []RegisteredIsLoaded
<1>1. IInv => RegisteredIsLoaded
  BY DEF IInv
<1> QED
  BY <1>1, Invariance, PTL

\* The recogniser never holds one face under two user ids: between MatchFeature and
\* AddUser (rockface_recognition.cc:382, 392) faces only go away.
THEOREM NoTwins == Spec => []NoTwinFaces
<1>1. IInv => NoTwinFaces
  BY DEF IInv
<1> QED
  BY <1>1, Invariance, PTL
-----------------------------------------------------------------------------
(* As long as nobody acted on outdated information.  The invariants of the   *)
(* stores then hold of every state.  None is inductive by itself: what has    *)
(* left the table and not yet the other stores is in the hands of a handler   *)
(* or of the recogniser's thread, and the stronger facts below say of which.  *)

\* a reset has cleared the recogniser and not yet the table
Clearing == \E r \in Requests : req[r].pc = "rst_rows"

\* A row's picture is named after the row's own id.
OwnPath == \A i \in Listed : faceList[i].path[2] = i

\* A table that was dropped has no rows.
DroppedEmpty == ~tableUp => Listed = {}

\* What the rows say of faces: the recogniser knows them, and each has one row.
Referred == Clearing \/ \A i \in Listed : faceList[i].dbid \in Users => faceList[i].dbid \in Known
Unshared == Clearing \/ \A i, j \in Listed :
              i # j /\ faceList[i].dbid \in Users => faceList[i].dbid # faceList[j].dbid

\* The thread has no user id before it registered a face; from then until the
\* report no row has that id.
Blank       == worker.stage \in {"read", "new"} => worker.user = Never
ReportFresh == Clearing \/ (worker.stage = "report" => HeldBy(worker.user) = {} \/ worker.user = Never)

Reporting(u) == worker.stage = "report" /\ worker.user = u

\* The handler with locals q will delete face u from the recogniser.
CoversFace(q, u) == /\ \/ q.pc \in {"mod_face", "del_unlink", "del_face"}
                       \/ q.pc = "mod_reread" /\ q.redo
                    /\ q.old.dbid = u

\* The handler with locals q will move or unlink the picture at p.
CoversPicture(q, p) ==
  \/ q.pc \in {"mod_reread", "del_unlink"} /\ q.old.path = p
  \/ q.pc \in {"mod_face", "mod_move"} /\ q.old.path = p /\ q.path # p
  \/ q.pc = "chk_unlink" /\ p \in q.todo

OnDisk == {p \in Paths : pictures[p] # NoPicture}

FacesCovered ==
  \A u \in Known : \/ HeldBy(u) # {} \/ Reporting(u)
                   \/ \E r \in Requests : CoversFace(req[r], u)
PicturesCovered ==
  \A p \in OnDisk : At(p) # {} \/ \E r \in Requests : CoversPicture(req[r], p)

\* A check has unlinked nothing before its rows are gone.
CheckWhole == \A r \in Requests : req[r].pc = "chk_rows" => req[r].todo = req[r].seen

StoreFacts == OwnPath /\ DroppedEmpty /\ Referred /\ Unshared /\ Blank /\ ReportFresh
Facts      == StoreFacts /\ FacesCovered /\ PicturesCovered /\ CheckWhole
Sound      == IInv /\ (stale \/ Facts)

\* The facts hold of the empty stores.
LEMMA InitFacts == Init => Facts
<1> SUFFICES ASSUME Init PROVE Facts
  OBVIOUS
<1>1. Listed = {} /\ Known = {} /\ OnDisk = {} /\ worker.stage = "idle"
  BY DEF Init, Listed, Known, OnDisk, Resting
<1>2. StoreFacts
  BY <1>1 DEF StoreFacts, OwnPath, DroppedEmpty, Referred, Unshared, Blank, ReportFresh
<1>3. CheckWhole
  BY DEF Init, CheckWhole, Idle
<1> QED
  BY <1>1, <1>2, <1>3 DEF Facts, FacesCovered, PicturesCovered

-----------------------------------------------------------------------------
(* What the locals keep of the facts.                                      *)

\* A handler that does not leave the clearing step of a reset ends no clearing.
LEMMA ClearingStays ==
  ASSUME ReqType, NEW r \in Requests, NEW q, req' = [req EXCEPT ![r] = q],
         req[r].pc # "rst_rows"
  PROVE  Clearing => Clearing'
  BY DEF ReqType, Clearing

LEMMA CheckWholeStays ==
  ASSUME ReqType, CheckWhole, NEW r \in Requests, NEW q, req' = [req EXCEPT ![r] = q],
         q.pc = "chk_rows" => q.todo = q.seen
  PROVE  CheckWhole'
  BY DEF ReqType, CheckWhole

\* What another handler covers stays covered, and so does what this one covers if
\* it goes on covering it.
LEMMA FaceCoverStays ==
  ASSUME ReqType, NEW r \in Requests, NEW q, req' = [req EXCEPT ![r] = q], NEW u,
         CoversFace(req[r], u) => CoversFace(q, u),
         \E s \in Requests : CoversFace(req[s], u)
  PROVE  \E s \in Requests : CoversFace(req'[s], u)
<1>1. PICK s \in Requests : CoversFace(req[s], u)
  OBVIOUS
<1>2. CASE s = r
  <2>1. req'[r] = q
    BY DEF ReqType
  <2> QED
    BY <1>1, <1>2, <2>1
<1>3. CASE s # r
  <2>1. req'[s] = req[s]
    BY <1>3 DEF ReqType
  <2> QED
    BY <1>1, <2>1
<1> QED
  BY <1>2, <1>3

LEMMA PictureCoverStays ==
  ASSUME ReqType, NEW r \in Requests, NEW q, req' = [req EXCEPT ![r] = q], NEW p,
         CoversPicture(req[r], p) => CoversPicture(q, p),
         \E s \in Requests : CoversPicture(req[s], p)
  PROVE  \E s \in Requests : CoversPicture(req'[s], p)
<1>1. PICK s \in Requests : CoversPicture(req[s], p)
  OBVIOUS
<1>2. CASE s = r
  <2>1. req'[r] = q
    BY DEF ReqType
  <2> QED
    BY <1>1, <1>2, <2>1
<1>3. CASE s # r
  <2>1. req'[s] = req[s]
    BY <1>3 DEF ReqType
  <2> QED
    BY <1>1, <2>1
<1> QED
  BY <1>2, <1>3

-----------------------------------------------------------------------------
(* What a change of the table keeps of the facts.                          *)

\* After the step no row refers to a face it did not refer to before.
FewerFaces == \A i \in Listed' : faceList'[i].dbid \in Users =>
                i \in Listed /\ faceList'[i].dbid = faceList[i].dbid

\* A step that gives no row a face, and takes none from the recogniser, keeps what
\* is said of faces.
LEMMA FewerFacesKeep ==
  ASSUME IInv, StoreFacts, FewerFaces, Clearing => Clearing', UNCHANGED <<userDb, worker>>
  PROVE  Referred' /\ Unshared' /\ Blank' /\ ReportFresh'
<1>1. Known' = Known
  BY DEF Known
<1>2. Referred'
  BY <1>1 DEF StoreFacts, Referred, FewerFaces
<1>3. Unshared'
  BY DEF StoreFacts, Unshared, FewerFaces
<1>4. Blank'
  BY DEF StoreFacts, Blank
<1>5. ReportFresh'
  <2> SUFFICES ASSUME ~Clearing', worker.stage = "report", worker.user # Never
               PROVE  HeldBy(worker.user)' = {}
    BY DEF ReportFresh
  <2>1. worker.user \in Users /\ HeldBy(worker.user) = {}
    BY DEF IInv, Typed, WorkType, Holding, Worker, StoreFacts, ReportFresh
  <2> QED
    BY <2>1 DEF HeldBy, FewerFaces
<1> QED
  BY <1>2, <1>3, <1>4, <1>5

\* With the table as it is all the more.
LEMMA SameTableKeeps ==
  ASSUME IInv, StoreFacts, Clearing => Clearing', UNCHANGED <<faceList, userDb, worker>>,
         UNCHANGED tableUp \/ tableUp'
  PROVE  StoreFacts'
<1>1. FewerFaces
  BY DEF FewerFaces, Listed
<1>2. OwnPath' /\ DroppedEmpty'
  BY DEF StoreFacts, OwnPath, DroppedEmpty, Listed
<1> QED
  BY <1>1, <1>2, FewerFacesKeep DEF StoreFacts

\* A step of one handler that leaves the stores alone, as long as what it stops
\* covering is not left over.
LEMMA QuietStep ==
  ASSUME IInv, Facts, NEW r \in Requests, NEW q, req' = [req EXCEPT ![r] = q],
         UNCHANGED <<faceList, pictures, userDb, worker>>, UNCHANGED tableUp \/ tableUp',
         req[r].pc # "rst_rows", q.pc = "chk_rows" => q.todo = q.seen,
         \A u \in Known : CoversFace(req[r], u) => CoversFace(q, u) \/ HeldBy(u) # {},
         \A p \in OnDisk : CoversPicture(req[r], p) => CoversPicture(q, p) \/ At(p) # {}
  PROVE  Facts'
<1>1. ReqType
  BY DEF IInv, Typed
<1>2. Clearing => Clearing'
  BY <1>1, ClearingStays
<1>3. StoreFacts'
  BY <1>2, SameTableKeeps DEF Facts
<1>4. CheckWhole'
  BY <1>1, CheckWholeStays DEF Facts
<1>5. FacesCovered'
  <2> SUFFICES ASSUME NEW u \in Known', HeldBy(u)' = {}, ~Reporting(u)'
               PROVE  \E s \in Requests : CoversFace(req'[s], u)
    BY DEF FacesCovered
  <2>1. u \in Known /\ HeldBy(u) = {} /\ ~Reporting(u)
    BY DEF Known, HeldBy, Listed, Reporting
  <2> QED
    BY <1>1, <2>1, FaceCoverStays DEF Facts, FacesCovered
<1>6. PicturesCovered'
  <2> SUFFICES ASSUME NEW p \in OnDisk', At(p)' = {}
               PROVE  \E s \in Requests : CoversPicture(req'[s], p)
    BY DEF PicturesCovered
  <2>1. p \in OnDisk /\ At(p) = {}
    BY DEF OnDisk, At, Listed
  <2> QED
    BY <1>1, <2>1, PictureCoverStays DEF Facts, PicturesCovered
<1> QED
  BY <1>3, <1>4, <1>5, <1>6 DEF Facts

\* A handler that starts covered nothing before.
LEMMA FirstStep ==
  ASSUME IInv, Facts, NEW r \in Requests, NEW q, req' = [req EXCEPT ![r] = q],
         UNCHANGED <<faceList, pictures, userDb, worker, tableUp>>,
         req[r].pc = "idle", q.pc = "chk_rows" => q.todo = q.seen
  PROVE  Facts'
<1>1. \A u : ~CoversFace(req[r], u)
  BY DEF CoversFace
<1>2. \A p : ~CoversPicture(req[r], p)
  BY DEF CoversPicture
<1> QED
  BY <1>1, <1>2, QuietStep
-----------------------------------------------------------------------------
(* One lemma per action again, for the facts: PUT event/face.              *)

LEMMA SoundAddRead == ASSUME IInv, Facts, NEW r \in Requests, AddRead(r) PROVE Facts'
<1>1. PICK i \in Ids, l \in Labels, redo \in BOOLEAN :
        req' = [req EXCEPT ![r] = [Idle EXCEPT !.pc = "add_set", !.id = i,
                                              !.label = l, !.redo = redo]]
  BY DEF AddRead
<1> DEFINE q == [Idle EXCEPT !.pc = "add_set", !.id = i, !.label = l, !.redo = redo]
<1>2. req' = [req EXCEPT ![r] = q] /\ q.pc = "add_set"
  BY <1>1 DEF Idle
<1> HIDE DEF q
<1>3. req[r].pc = "idle" /\ UNCHANGED <<faceList, pictures, userDb, worker, tableUp>>
  BY DEF AddRead, CanStart, db
<1> QED
  BY <1>2, <1>3, FirstStep

\* What face_list_set does to a table that is there: one row gets its own path, and
\* no row a face it did not have.
LEMMA SetRowFacts ==
  ASSUME IInv, StoreFacts, NEW i \in Ids, NEW l \in Labels, NEW redo \in BOOLEAN,
         SetRow(i, l, redo), tableUp
  PROVE  /\ OwnPath' /\ DroppedEmpty' /\ FewerFaces
         /\ i \in Listed' /\ faceList'[i].path = <<l, i>>
         /\ ~redo /\ faceList[i] # NoRow => faceList'[i].dbid = faceList[i].dbid
         /\ \A j \in Ids \ {i} : faceList'[j] = faceList[j]
<1> DEFINE row == [path   |-> <<l, i>>,
                   dbid   |-> IF redo THEN Pending
                              ELSE IF faceList[i] = NoRow THEN Never ELSE faceList[i].dbid,
                   loaded |-> IF faceList[i] = NoRow THEN FALSE ELSE faceList[i].loaded]
<1>1. faceList' = [faceList EXCEPT ![i] = row] /\ UNCHANGED tableUp
  BY DEF SetRow, Put
<1>2. row \in Row
  <2>1. row.dbid \in Users \cup {Never, Pending} /\ row.loaded \in BOOLEAN
    BY DEF IInv, Typed, DbType, Row
  <2>2. row.path \in Paths
    BY DEF Paths
  <2> QED
    BY <2>1, <2>2 DEF Row
<1>3. faceList'[i] = row /\ \A j \in Ids \ {i} : faceList'[j] = faceList[j]
  BY <1>1 DEF IInv, Typed, DbType
<1>4. i \in Listed'
  BY <1>2, <1>3, AbsentAssumption DEF Listed
<1>5. OwnPath'
  <2> SUFFICES ASSUME NEW j \in Listed' PROVE faceList'[j].path[2] = j
    BY DEF OwnPath
  <2>1. CASE j = i
    BY <1>3, <2>1
  <2>2. CASE j # i
    BY <1>3, <2>2 DEF StoreFacts, OwnPath, Listed
  <2> QED
    BY <2>1, <2>2
<1>6. DroppedEmpty'
  BY <1>1 DEF DroppedEmpty
<1>7. FewerFaces
  <2> SUFFICES ASSUME NEW j \in Listed', faceList'[j].dbid \in Users
               PROVE  j \in Listed /\ faceList'[j].dbid = faceList[j].dbid
    BY DEF FewerFaces
  <2>1. CASE j = i
    BY <1>3, <2>1 DEF Listed, Users, Pending, Never
  <2>2. CASE j # i
    BY <1>3, <2>2 DEF Listed
  <2> QED
    BY <2>1, <2>2
<1> QED
  BY <1>3, <1>4, <1>5, <1>6, <1>7

LEMMA SoundAddSet ==
  ASSUME IInv, Facts, NEW r \in Requests, AddSet(r), ~stale' PROVE Facts'
<1> DEFINE i == req[r].id
<1>1. i \in Ids /\ req[r].label \in Labels /\ req[r].redo \in BOOLEAN
  BY DEF IInv, Typed, ReqType, Fitting, Request, AddSet, At_, NeedLabel
<1>2. tableUp /\ faceList[i] = NoRow
  BY DEF AddSet, Outdated
<1>3. /\ OwnPath' /\ DroppedEmpty' /\ FewerFaces
      /\ \A j \in Ids \ {i} : faceList'[j] = faceList[j]
  BY <1>1, <1>2, SetRowFacts DEF AddSet, Facts
<1>4. req' = [req EXCEPT ![r] = Idle] /\ ReqType /\ req[r].pc = "add_set" /\ Idle.pc = "idle"
  BY DEF AddSet, At_, Finish, IInv, Typed, Idle
<1>5. Clearing => Clearing'
  BY <1>4, ClearingStays
<1>6. StoreFacts'
  BY <1>3, <1>5, FewerFacesKeep DEF Facts, StoreFacts, AddSet
<1>7. CheckWhole'
  BY <1>4, CheckWholeStays DEF Facts
<1>8. \A j \in Listed : faceList'[j] = faceList[j] /\ j \in Listed'
  BY <1>2, <1>3 DEF Listed
<1>9. FacesCovered'
  <2> SUFFICES ASSUME NEW u \in Known', HeldBy(u)' = {}, ~Reporting(u)'
               PROVE  \E s \in Requests : CoversFace(req'[s], u)
    BY DEF FacesCovered
  <2>1. u \in Known /\ HeldBy(u) = {} /\ ~Reporting(u)
    BY <1>8 DEF AddSet, Known, HeldBy, Reporting
  <2>2. ~CoversFace(req[r], u)
    BY <1>4 DEF CoversFace
  <2> QED
    BY <1>4, <2>1, <2>2, FaceCoverStays DEF Facts, FacesCovered
<1>10. PicturesCovered'
  <2> SUFFICES ASSUME NEW p \in OnDisk', At(p)' = {}
               PROVE  \E s \in Requests : CoversPicture(req'[s], p)
    BY DEF PicturesCovered
  <2>1. p \in OnDisk /\ At(p) = {}
    BY <1>8 DEF AddSet, OnDisk, At
  <2>2. ~CoversPicture(req[r], p)
    BY <1>4 DEF CoversPicture
  <2> QED
    BY <1>4, <2>1, <2>2, PictureCoverStays DEF Facts, PicturesCovered
<1> QED
  BY <1>6, <1>7, <1>9, <1>10 DEF Facts

LEMMA SoundModifyRead == ASSUME IInv, Facts, NEW r \in Requests, ModifyRead(r) PROVE Facts'
<1>1. PICK i \in Listed, l \in Labels, redo \in BOOLEAN :
        req' = [req EXCEPT ![r] = [Idle EXCEPT !.pc = "mod_set", !.id = i, !.label = l,
                                            !.redo = redo, !.old = faceList[i]]]
  BY DEF ModifyRead
<1> DEFINE q == [Idle EXCEPT !.pc = "mod_set", !.id = i, !.label = l, !.redo = redo,
                             !.old = faceList[i]]
<1>2. req' = [req EXCEPT ![r] = q] /\ q.pc = "mod_set"
  BY <1>1 DEF Idle
<1> HIDE DEF q
<1>3. req[r].pc = "idle" /\ UNCHANGED <<faceList, pictures, userDb, worker, tableUp>>
  BY DEF ModifyRead, CanStart, db
<1> QED
  BY <1>2, <1>3, FirstStep

\* The row the handler read is still there, so the table is; what the row loses
\* by the call, its face or its path, the handler covers from now on.
LEMMA SoundModifySet ==
  ASSUME IInv, Facts, NEW r \in Requests, ModifySet(r), ~stale' PROVE Facts'
<1> DEFINE i == req[r].id   old == req[r].old
           q == [req[r] EXCEPT !.pc = "mod_reread"]
<1>1. i \in Ids /\ req[r].label \in Labels /\ req[r].redo \in BOOLEAN /\ old \in Row
  BY DEF IInv, Typed, ReqType, Fitting, Request, ModifySet, At_, NeedLabel, NeedOld
<1>2. faceList[i] = old /\ i \in Listed /\ tableUp
  <2>1. faceList[i] = old
    BY DEF ModifySet, Outdated
  <2>2. i \in Listed
    BY <1>1, <2>1, AbsentAssumption DEF Listed
  <2> QED
    BY <2>1, <2>2 DEF Facts, StoreFacts, DroppedEmpty
<1>3. /\ OwnPath' /\ DroppedEmpty' /\ FewerFaces
      /\ i \in Listed' /\ (~req[r].redo => faceList'[i].dbid = faceList[i].dbid)
      /\ \A j \in Ids \ {i} : faceList'[j] = faceList[j]
  BY <1>1, <1>2, SetRowFacts DEF ModifySet, Facts, Listed
<1>4. req' = [req EXCEPT ![r] = q] /\ ReqType /\ req[r].pc = "mod_set"
  BY DEF ModifySet, At_, Goto, IInv, Typed
<1>12. q.pc = "mod_reread" /\ q.redo = req[r].redo /\ q.old = old /\ req'[r] = q
  BY <1>4 DEF ReqType, Fitting, Request
<1>5. Clearing => Clearing'
  BY <1>4, ClearingStays
<1>6. StoreFacts'
  BY <1>3, <1>5, FewerFacesKeep DEF Facts, StoreFacts, ModifySet
<1>7. CheckWhole'
  BY <1>4, <1>12, CheckWholeStays DEF Facts
<1> HIDE DEF q
<1>8. \A j \in Listed \ {i} : faceList'[j] = faceList[j] /\ j \in Listed'
  BY <1>3 DEF Listed
<1>9. FacesCovered'
  <2> SUFFICES ASSUME NEW u \in Known', HeldBy(u)' = {}, ~Reporting(u)'
               PROVE  \E s \in Requests : CoversFace(req'[s], u)
    BY DEF FacesCovered
  <2>1. u \in Known /\ HeldBy(u) \subseteq {i} /\ ~Reporting(u)
    BY <1>8 DEF ModifySet, Known, HeldBy, Reporting
  <2>2. CASE i \in HeldBy(u)
    <3>1. old.dbid = u /\ req[r].redo
      BY <1>2, <1>3, <2>2 DEF HeldBy
    <3> QED
      BY <1>12, <3>1 DEF CoversFace
  <2>3. CASE HeldBy(u) = {}
    <3>1. ~CoversFace(req[r], u)
      BY <1>4 DEF CoversFace
    <3> QED
      BY <1>4, <2>1, <2>3, <3>1, FaceCoverStays DEF Facts, FacesCovered
  <2> QED
    BY <2>1, <2>2, <2>3
<1>10. PicturesCovered'
  <2> SUFFICES ASSUME NEW p \in OnDisk', At(p)' = {}
               PROVE  \E s \in Requests : CoversPicture(req'[s], p)
    BY DEF PicturesCovered
  <2>1. p \in OnDisk /\ At(p) \subseteq {i}
    BY <1>8 DEF ModifySet, OnDisk, At
  <2>2. CASE i \in At(p)
    <3>1. old.path = p
      BY <1>2, <2>2 DEF At
    <3> QED
      BY <1>12, <3>1 DEF CoversPicture
  <2>3. CASE At(p) = {}
    <3>1. ~CoversPicture(req[r], p)
      BY <1>4 DEF CoversPicture
    <3> QED
      BY <1>4, <2>1, <2>3, <3>1, PictureCoverStays DEF Facts, PicturesCovered
  <2> QED
    BY <2>1, <2>2, <2>3
<1> QED
  BY <1>6, <1>7, <1>9, <1>10 DEF Facts

\* A handler that took a face off its row sees -2 there now and goes on to delete
\* the face; one that did not has left the face with the row.
LEMMA SoundModifyReread ==
  ASSUME IInv, Facts, NEW r \in Requests, ModifyReread(r), ~stale' PROVE Facts'
<1> DEFINE now == faceList[req[r].id]
           due == req[r].old.dbid \in Users
           del == due /\ now # NoRow /\ now.dbid = Pending
           pc  == IF del THEN "mod_face"
                  ELSE IF now # NoRow /\ now.path # req[r].old.path THEN "mod_move"
                  ELSE "idle"
<1>1. req[r] \in Fitting /\ req[r].pc = "mod_reread" /\ req[r].id \in Ids
  BY DEF IInv, Typed, ReqType, Fitting, Request, ModifyReread, At_
<1>2. now # NoRow /\ ~(req[r].redo /\ due /\ ~del)
  BY DEF ModifyReread, Outdated
<1>3. now \in Row /\ req[r].id \in At(now.path)
  BY <1>1, <1>2 DEF IInv, Typed, DbType, At, Listed
<1>4. \A u \in Known : CoversFace(req[r], u) => del /\ req[r].old.dbid = u
  BY <1>1, <1>2 DEF CoversFace, Known
<1>5. \A p \in OnDisk : CoversPicture(req[r], p) => req[r].old.path = p
  BY <1>1 DEF CoversPicture
<1>6. CASE pc = "idle"
  <2>1. req' = [req EXCEPT ![r] = Idle]
    BY <1>6 DEF ModifyReread, Finish
  <2>2. ~del /\ now.path = req[r].old.path
    BY <1>2, <1>6
  <2>3. Idle.pc = "idle"
    BY DEF Idle
  <2> HIDE DEF now, del
  <2> QED
    BY <1>1, <1>3, <1>4, <1>5, <2>1, <2>2, <2>3, QuietStep DEF ModifyReread, db
<1>7. CASE pc # "idle"
  <2> DEFINE q == [req[r] EXCEPT !.pc = pc, !.path = now.path]
  <2>1. req' = [req EXCEPT ![r].pc = pc, ![r].path = now.path]
    BY <1>7 DEF ModifyReread
  <2>2. pc \in {"mod_face", "mod_move"} /\ (del => pc = "mod_face")
    BY <1>7
  <2> HIDE DEF now, del, pc
  <2>3. req' = [req EXCEPT ![r] = q]
    BY <2>1
  <2>4. q.pc = pc /\ q.path = now.path /\ q.old = req[r].old
    BY <1>1 DEF Fitting, Request
  <2> HIDE DEF q
  <2>5. \A u \in Known : CoversFace(req[r], u) => CoversFace(q, u)
    BY <1>4, <2>2, <2>4 DEF CoversFace
  <2>6. \A p \in OnDisk : CoversPicture(req[r], p) => CoversPicture(q, p) \/ At(p) # {}
    BY <1>3, <1>5, <2>2, <2>4 DEF CoversPicture
  <2>7. UNCHANGED <<faceList, tableUp, pictures, userDb, worker>>
    BY DEF ModifyReread, db
  <2> QED
    BY <1>1, <2>2, <2>3, <2>4, <2>5, <2>6, <2>7, QuietStep
<1> QED
  BY <1>6, <1>7
\* A face that no row refers to can be forgotten.
LEMMA ForgetFacts ==
  ASSUME IInv, StoreFacts, NEW d, Forget({d}), HeldBy(d) = {}, Clearing => Clearing',
         UNCHANGED <<faceList, tableUp, worker>>
  PROVE  StoreFacts' /\ Known' = Known \ {d}
<1>1. Known' = Known \ {d}
  BY DEF Forget, Known
<1>2. OwnPath' /\ DroppedEmpty' /\ Unshared' /\ Blank'
  BY DEF StoreFacts, OwnPath, DroppedEmpty, Unshared, Blank, Listed
<1>3. Referred'
  BY <1>1 DEF StoreFacts, Referred, Listed, HeldBy
<1>4. ReportFresh'
  BY DEF StoreFacts, ReportFresh, HeldBy, Listed
<1> QED
  BY <1>1, <1>2, <1>3, <1>4 DEF StoreFacts

LEMMA SoundModifyFace ==
  ASSUME IInv, Facts, NEW r \in Requests, ModifyFace(r), ~stale' PROVE Facts'
<1> DEFINE d == req[r].old.dbid   moved == req[r].path # req[r].old.path
           q == IF moved THEN [req[r] EXCEPT !.pc = "mod_move"] ELSE Idle
<1>1. Forget({d}) /\ HeldBy(d) = {} /\ req[r].pc = "mod_face"
  BY DEF ModifyFace, Outdated, At_
<1>2. req' = [req EXCEPT ![r] = q] /\ ReqType
  BY DEF ModifyFace, Goto, Finish, IInv, Typed
<1>3. q.pc \in {"mod_move", "idle"} /\ (moved => q = [req[r] EXCEPT !.pc = "mod_move"])
  BY <1>2 DEF ReqType, Fitting, Request, Idle
<1>4. moved => q.pc = "mod_move" /\ q.old = req[r].old /\ q.path = req[r].path
  BY <1>2 DEF ReqType, Fitting, Request
<1>5. UNCHANGED <<faceList, tableUp, pictures, worker>>
  BY DEF ModifyFace, db
<1> HIDE DEF q
<1>6. StoreFacts' /\ Known' = Known \ {d}
  BY <1>1, <1>2, <1>5, ClearingStays, ForgetFacts DEF Facts
<1>7. CheckWhole'
  BY <1>2, <1>3, CheckWholeStays DEF Facts
<1>8. FacesCovered'
  <2> SUFFICES ASSUME NEW u \in Known', HeldBy(u)' = {}, ~Reporting(u)'
               PROVE  \E s \in Requests : CoversFace(req'[s], u)
    BY DEF FacesCovered
  <2>1. u \in Known /\ HeldBy(u) = {} /\ ~Reporting(u)
    BY <1>5, <1>6 DEF HeldBy, Listed, Reporting
  <2>2. ~CoversFace(req[r], u)
    BY <1>6 DEF CoversFace
  <2> QED
    BY <1>2, <2>1, <2>2, FaceCoverStays DEF Facts, FacesCovered
<1>9. PicturesCovered'
  <2> SUFFICES ASSUME NEW p \in OnDisk', At(p)' = {}
               PROVE  \E s \in Requests : CoversPicture(req'[s], p)
    BY DEF PicturesCovered
  <2>1. p \in OnDisk /\ At(p) = {}
    BY <1>5 DEF OnDisk, At, Listed
  <2>2. CoversPicture(req[r], p) => CoversPicture(q, p)
    BY <1>1, <1>4 DEF CoversPicture
  <2> QED
    BY <1>2, <2>1, <2>2, PictureCoverStays DEF Facts, PicturesCovered
<1> QED
  BY <1>6, <1>7, <1>8, <1>9 DEF Facts

\* A step of one handler that changes the disk only: every picture on it afterwards
\* is one the handler did not cover before, or covers still, or some member's.
LEMMA DiskStep ==
  ASSUME IInv, Facts, NEW r \in Requests, NEW q, req' = [req EXCEPT ![r] = q],
         UNCHANGED <<faceList, tableUp, userDb, worker>>,
         req[r].pc # "rst_rows", q.pc = "chk_rows" => q.todo = q.seen,
         \A u \in Known : CoversFace(req[r], u) => CoversFace(q, u),
         \A p \in OnDisk' : \/ At(p) # {}
                            \/ p \in OnDisk /\ (CoversPicture(req[r], p) => CoversPicture(q, p))
  PROVE  Facts'
<1>1. ReqType
  BY DEF IInv, Typed
<1>2. Clearing => Clearing'
  BY <1>1, ClearingStays
<1>3. StoreFacts'
  BY <1>2, SameTableKeeps DEF Facts
<1>4. CheckWhole'
  BY <1>1, CheckWholeStays DEF Facts
<1>5. FacesCovered'
  <2> SUFFICES ASSUME NEW u \in Known', HeldBy(u)' = {}, ~Reporting(u)'
               PROVE  \E s \in Requests : CoversFace(req'[s], u)
    BY DEF FacesCovered
  <2>1. u \in Known /\ HeldBy(u) = {} /\ ~Reporting(u)
    BY DEF Known, HeldBy, Listed, Reporting
  <2> QED
    BY <1>1, <2>1, FaceCoverStays DEF Facts, FacesCovered
<1>6. PicturesCovered'
  <2> SUFFICES ASSUME NEW p \in OnDisk', At(p)' = {}
               PROVE  \E s \in Requests : CoversPicture(req'[s], p)
    BY DEF PicturesCovered
  <2>1. At(p) = {}
    BY DEF At, Listed
  <2> QED
    BY <1>1, <2>1, PictureCoverStays DEF Facts, PicturesCovered
<1> QED
  BY <1>3, <1>4, <1>5, <1>6 DEF Facts

LEMMA SoundModifyMove ==
  ASSUME IInv, Facts, NEW r \in Requests, ModifyMove(r), ~stale' PROVE Facts'
<1> DEFINE from == req[r].old.path   to == req[r].path
<1>1. from \in Paths /\ to \in Paths /\ req[r].pc = "mod_move"
  BY DEF IInv, Typed, ReqType, Fitting, Request, Row, ModifyMove, At_, NeedOld, NeedPath
<1>2. pictures' = IF pictures[from] = NoPicture THEN pictures
                  ELSE [pictures EXCEPT ![to] = pictures[from], ![from] = NoPicture]
  BY DEF ModifyMove
<1>3. pictures[from] # NoPicture => At(to) # {}
  BY DEF ModifyMove, Outdated
<1>4. \A p \in OnDisk' : At(p) # {} \/ (p \in OnDisk /\ p # from)
  BY <1>1, <1>2, <1>3 DEF OnDisk, IInv, Typed, PicType
<1>5. \A p : CoversPicture(req[r], p) => p = from
  BY <1>1 DEF CoversPicture
<1>6. \A u : ~CoversFace(req[r], u)
  BY <1>1 DEF CoversFace
<1>7. req' = [req EXCEPT ![r] = Idle] /\ Idle.pc = "idle"
  BY DEF ModifyMove, Finish, Idle
<1>8. UNCHANGED <<faceList, tableUp, userDb, worker>>
  BY DEF ModifyMove, db
<1> QED
  BY <1>1, <1>4, <1>5, <1>6, <1>7, <1>8, DiskStep

-----------------------------------------------------------------------------
(* DELETE event/face.                                                      *)

LEMMA SoundDeleteRead == ASSUME IInv, Facts, NEW r \in Requests, DeleteRead(r) PROVE Facts'
<1>1. PICK i \in Listed :
        req' = [req EXCEPT ![r] = [Idle EXCEPT !.pc = "del_row", !.id = i,
                                            !.old = faceList[i]]]
  BY DEF DeleteRead
<1> DEFINE q == [Idle EXCEPT !.pc = "del_row", !.id = i, !.old = faceList[i]]
<1>2. req' = [req EXCEPT ![r] = q] /\ q.pc = "del_row"
  BY <1>1 DEF Idle
<1> HIDE DEF q
<1>3. req[r].pc = "idle" /\ UNCHANGED <<faceList, pictures, userDb, worker, tableUp>>
  BY DEF DeleteRead, CanStart, db
<1> QED
  BY <1>2, <1>3, FirstStep

\* Deleting rows gives no row a face and no row another path.
LEMMA DeleteRowsFacts ==
  ASSUME IInv, StoreFacts, NEW S, DeleteRows(S)
  PROVE  /\ OwnPath' /\ DroppedEmpty' /\ FewerFaces
         /\ \A i \in Listed \ S : i \in Listed' /\ faceList'[i] = faceList[i]
  BY DEF DeleteRows, StoreFacts, OwnPath, DroppedEmpty, FewerFaces, Listed

LEMMA SoundDeleteRow ==
  ASSUME IInv, Facts, NEW r \in Requests, DeleteRow(r), ~stale' PROVE Facts'
<1> DEFINE i == req[r].id   old == req[r].old
           q == [req[r] EXCEPT !.pc = "del_unlink"]
<1>1. i \in Ids /\ old \in Row /\ req[r].pc = "del_row"
  BY DEF IInv, Typed, ReqType, Fitting, Request, DeleteRow, At_, NeedOld
<1>2. faceList[i] = old
  BY DEF DeleteRow, Outdated
<1>3. /\ OwnPath' /\ DroppedEmpty' /\ FewerFaces
      /\ \A j \in Listed \ {i} : j \in Listed' /\ faceList'[j] = faceList[j]
  BY DeleteRowsFacts DEF DeleteRow, Facts
<1>4. req' = [req EXCEPT ![r] = q] /\ ReqType
  BY DEF DeleteRow, Goto, IInv, Typed
<1>5. q.pc = "del_unlink" /\ q.old = old /\ req'[r] = q
  BY <1>4 DEF ReqType, Fitting, Request
<1> HIDE DEF q
<1>6. StoreFacts'
  BY <1>1, <1>3, <1>4, ClearingStays, FewerFacesKeep DEF Facts, StoreFacts, DeleteRow
<1>7. CheckWhole'
  BY <1>4, <1>5, CheckWholeStays DEF Facts
<1>8. FacesCovered'
  <2> SUFFICES ASSUME NEW u \in Known', HeldBy(u)' = {}, ~Reporting(u)'
               PROVE  \E s \in Requests : CoversFace(req'[s], u)
    BY DEF FacesCovered
  <2>1. u \in Known /\ HeldBy(u) \subseteq {i} /\ ~Reporting(u)
    BY <1>3 DEF DeleteRow, Known, HeldBy, Reporting
  <2>2. CASE i \in HeldBy(u)
    <3>1. old.dbid = u
      BY <1>2, <2>2 DEF HeldBy
    <3> QED
      BY <1>5, <3>1 DEF CoversFace
  <2>3. CASE HeldBy(u) = {}
    <3>1. ~CoversFace(req[r], u)
      BY <1>1 DEF CoversFace
    <3> QED
      BY <1>4, <2>1, <2>3, <3>1, FaceCoverStays DEF Facts, FacesCovered
  <2> QED
    BY <2>1, <2>2, <2>3
<1>9. PicturesCovered'
  <2> SUFFICES ASSUME NEW p \in OnDisk', At(p)' = {}
               PROVE  \E s \in Requests : CoversPicture(req'[s], p)
    BY DEF PicturesCovered
  <2>1. p \in OnDisk /\ At(p) \subseteq {i}
    BY <1>3 DEF DeleteRow, OnDisk, At
  <2>2. CASE i \in At(p)
    <3>1. old.path = p
      BY <1>2, <2>2 DEF At
    <3> QED
      BY <1>5, <3>1 DEF CoversPicture
  <2>3. CASE At(p) = {}
    <3>1. ~CoversPicture(req[r], p)
      BY <1>1 DEF CoversPicture
    <3> QED
      BY <1>4, <2>1, <2>3, <3>1, PictureCoverStays DEF Facts, PicturesCovered
  <2> QED
    BY <2>1, <2>2, <2>3
<1> QED
  BY <1>6, <1>7, <1>8, <1>9 DEF Facts

LEMMA SoundDeleteUnlink ==
  ASSUME IInv, Facts, NEW r \in Requests, DeleteUnlink(r) PROVE Facts'
<1> DEFINE due == req[r].old.dbid \in Users
           q == IF due THEN [req[r] EXCEPT !.pc = "del_face"] ELSE Idle
<1>1. req[r].pc = "del_unlink" /\ req[r] \in Fitting
  BY DEF DeleteUnlink, At_, IInv, Typed, ReqType
<1>2. req' = [req EXCEPT ![r] = q]
  BY DEF DeleteUnlink, Goto, Finish
<1>3. q.pc \in {"del_face", "idle"} /\ (due => q.pc = "del_face" /\ q.old = req[r].old)
  BY <1>1 DEF Fitting, Request, Idle
<1> HIDE DEF q
<1>4. \A p \in OnDisk' : p \in OnDisk /\ p # req[r].old.path
  BY DEF DeleteUnlink, Unlink, OnDisk
<1>5. \A p : CoversPicture(req[r], p) => p = req[r].old.path
  BY <1>1 DEF CoversPicture
<1>6. \A u \in Known : CoversFace(req[r], u) => CoversFace(q, u)
  BY <1>3 DEF CoversFace, Known
<1>7. UNCHANGED <<faceList, tableUp, userDb, worker>>
  BY DEF DeleteUnlink, db
<1> QED
  BY <1>1, <1>2, <1>3, <1>4, <1>5, <1>6, <1>7, DiskStep

LEMMA SoundDeleteFace ==
  ASSUME IInv, Facts, NEW r \in Requests, DeleteFace(r), ~stale' PROVE Facts'
<1> DEFINE d == req[r].old.dbid   q == [req[r] EXCEPT !.pc = "del_find"]
<1>1. Forget({d}) /\ HeldBy(d) = {} /\ req[r].pc = "del_face"
  BY DEF DeleteFace, Outdated, At_
<1>2. req' = [req EXCEPT ![r] = q] /\ ReqType
  BY DEF DeleteFace, Goto, IInv, Typed
<1>3. q.pc = "del_find"
  BY <1>2 DEF ReqType, Fitting, Request
<1>5. UNCHANGED <<faceList, tableUp, pictures, worker>>
  BY DEF DeleteFace, db
<1> HIDE DEF q
<1>6. StoreFacts' /\ Known' = Known \ {d}
  BY <1>1, <1>2, <1>5, ClearingStays, ForgetFacts DEF Facts
<1>7. CheckWhole'
  BY <1>2, <1>3, CheckWholeStays DEF Facts
<1>8. FacesCovered'
  <2> SUFFICES ASSUME NEW u \in Known', HeldBy(u)' = {}, ~Reporting(u)'
               PROVE  \E s \in Requests : CoversFace(req'[s], u)
    BY DEF FacesCovered
  <2>1. u \in Known /\ HeldBy(u) = {} /\ ~Reporting(u)
    BY <1>5, <1>6 DEF HeldBy, Listed, Reporting
  <2>2. ~CoversFace(req[r], u)
    BY <1>6 DEF CoversFace
  <2> QED
    BY <1>2, <2>1, <2>2, FaceCoverStays DEF Facts, FacesCovered
<1>9. PicturesCovered'
  <2> SUFFICES ASSUME NEW p \in OnDisk', At(p)' = {}
               PROVE  \E s \in Requests : CoversPicture(req'[s], p)
    BY DEF PicturesCovered
  <2>1. p \in OnDisk /\ At(p) = {}
    BY <1>5 DEF OnDisk, At, Listed
  <2>2. ~CoversPicture(req[r], p)
    BY <1>1 DEF CoversPicture
  <2> QED
    BY <1>2, <2>1, <2>2, PictureCoverStays DEF Facts, PicturesCovered
<1> QED
  BY <1>6, <1>7, <1>8, <1>9 DEF Facts

LEMMA SoundDeleteFindRecords ==
  ASSUME IInv, Facts, NEW r \in Requests, DeleteFindRecords(r) PROVE Facts'
<1> DEFINE q == IF req[r].old.dbid \in records THEN [req[r] EXCEPT !.pc = "del_records"]
                ELSE Idle
<1>1. req[r].pc = "del_find" /\ req[r] \in Fitting
  BY DEF DeleteFindRecords, At_, IInv, Typed, ReqType
<1>2. req' = [req EXCEPT ![r] = q]
  BY DEF DeleteFindRecords, Goto, Finish
<1>3. q.pc \in {"del_records", "idle"}
  BY <1>1 DEF Fitting, Request, Idle
<1> HIDE DEF q
<1>4. (\A u : ~CoversFace(req[r], u)) /\ \A p : ~CoversPicture(req[r], p)
  BY <1>1 DEF CoversFace, CoversPicture
<1>5. UNCHANGED <<faceList, pictures, userDb, worker, tableUp>>
  BY DEF DeleteFindRecords, db
<1> QED
  BY <1>1, <1>2, <1>3, <1>4, <1>5, QuietStep

LEMMA SoundDeleteRecords ==
  ASSUME IInv, Facts, NEW r \in Requests, DeleteRecords(r) PROVE Facts'
<1>1. req[r].pc = "del_records" /\ req' = [req EXCEPT ![r] = Idle] /\ Idle.pc = "idle"
  BY DEF DeleteRecords, At_, Finish, Idle
<1>2. (\A u : ~CoversFace(req[r], u)) /\ \A p : ~CoversPicture(req[r], p)
  BY <1>1 DEF CoversFace, CoversPicture
<1>3. UNCHANGED <<faceList, pictures, userDb, worker, tableUp>>
  BY DEF DeleteRecords, db
<1> QED
  BY <1>1, <1>2, <1>3, QuietStep
-----------------------------------------------------------------------------
(* PUT event/check-face, reset-face, reset-control.                        *)

LEMMA SoundCheckRead == ASSUME IInv, Facts, NEW r \in Requests, CheckRead(r) PROVE Facts'
<1>1. PICK n \in Ids :
        req' = [req EXCEPT ![r] = [Idle EXCEPT !.pc = "chk_rows", !.id = n,
                   !.seen = PathsOf(Unloaded(n)), !.todo = PathsOf(Unloaded(n))]]
  BY DEF CheckRead
<1> DEFINE q == [Idle EXCEPT !.pc = "chk_rows", !.id = n,
                   !.seen = PathsOf(Unloaded(n)), !.todo = PathsOf(Unloaded(n))]
<1>2. req' = [req EXCEPT ![r] = q] /\ q.todo = q.seen
  BY <1>1 DEF Idle
<1> HIDE DEF q
<1>3. req[r].pc = "idle" /\ UNCHANGED <<faceList, pictures, userDb, worker, tableUp>>
  BY DEF CheckRead, CanStart, db
<1> QED
  BY <1>2, <1>3, FirstStep

\* A check deletes rows that are not loaded, so rows without a face, and has the
\* paths of all of them still to unlink.
LEMMA SoundCheckRows ==
  ASSUME IInv, Facts, NEW r \in Requests, CheckRows(r), ~stale' PROVE Facts'
<1> DEFINE gone == Unloaded(req[r].id)
           more == req[r].seen # {}
           q == IF more THEN [req[r] EXCEPT !.pc = "chk_unlink"] ELSE Idle
<1>1. req[r].pc = "chk_rows" /\ PathsOf(gone) = req[r].seen /\ req[r].todo = req[r].seen
  BY DEF CheckRows, At_, Outdated, Facts, CheckWhole
<1>2. req' = [req EXCEPT ![r] = q] /\ ReqType
  BY DEF CheckRows, Goto, Finish, IInv, Typed
<1>3. /\ q.pc \in {"chk_unlink", "idle"}
      /\ more => q.pc = "chk_unlink" /\ q.todo = req[r].todo
  BY <1>2 DEF ReqType, Fitting, Request, Idle
<1>4. req'[r] = q
  BY <1>2 DEF ReqType
<1> HIDE DEF q
<1>5. /\ OwnPath' /\ DroppedEmpty' /\ FewerFaces
      /\ \A j \in Listed \ gone : j \in Listed' /\ faceList'[j] = faceList[j]
  BY DeleteRowsFacts DEF CheckRows, Facts
<1>6. StoreFacts'
  BY <1>1, <1>2, <1>5, ClearingStays, FewerFacesKeep DEF Facts, StoreFacts, CheckRows
<1>7. CheckWhole'
  BY <1>2, <1>3, CheckWholeStays DEF Facts
<1>8. FacesCovered'
  <2> SUFFICES ASSUME NEW u \in Known', HeldBy(u)' = {}, ~Reporting(u)'
               PROVE  \E s \in Requests : CoversFace(req'[s], u)
    BY DEF FacesCovered
  <2>1. u \in Known /\ u \in Users /\ ~Reporting(u)
    BY DEF CheckRows, Known, Reporting
  <2>2. HeldBy(u) \cap gone = {}
    BY <2>1 DEF IInv, RegisteredIsLoaded, HeldBy, Unloaded
  <2>3. HeldBy(u) = {}
    BY <1>5, <2>2 DEF HeldBy
  <2>4. ~CoversFace(req[r], u)
    BY <1>1 DEF CoversFace
  <2> QED
    BY <1>2, <2>1, <2>3, <2>4, FaceCoverStays DEF Facts, FacesCovered
<1>9. PicturesCovered'
  <2> SUFFICES ASSUME NEW p \in OnDisk', At(p)' = {}
               PROVE  \E s \in Requests : CoversPicture(req'[s], p)
    BY DEF PicturesCovered
  <2>1. p \in OnDisk /\ At(p) \subseteq gone
    BY <1>5 DEF CheckRows, OnDisk, At
  <2>2. CASE At(p) # {}
    <3>1. p \in PathsOf(gone)
      BY <2>1, <2>2 DEF PathsOf, At
    <3>2. more /\ p \in req[r].todo
      BY <1>1, <3>1
    <3> QED
      BY <1>3, <1>4, <3>2 DEF CoversPicture
  <2>3. CASE At(p) = {}
    <3>1. ~CoversPicture(req[r], p)
      BY <1>1 DEF CoversPicture
    <3> QED
      BY <1>2, <2>1, <2>3, <3>1, PictureCoverStays DEF Facts, PicturesCovered
  <2> QED
    BY <2>2, <2>3
<1> QED
  BY <1>6, <1>7, <1>8, <1>9 DEF Facts

LEMMA SoundCheckUnlink ==
  ASSUME IInv, Facts, NEW r \in Requests, CheckUnlink(r) PROVE Facts'
<1>1. PICK p \in req[r].todo :
        /\ Unlink({p})
        /\ IF req[r].todo = {p} THEN Finish(r) ELSE req' = [req EXCEPT ![r].todo = @ \ {p}]
  BY DEF CheckUnlink
<1> DEFINE last == req[r].todo = {p}
           q == IF last THEN Idle ELSE [req[r] EXCEPT !.todo = @ \ {p}]
<1>2. req[r].pc = "chk_unlink" /\ req[r] \in Fitting
  BY DEF CheckUnlink, At_, IInv, Typed, ReqType
<1>3. req' = [req EXCEPT ![r] = q]
  BY <1>1 DEF Finish
<1>4. /\ q.pc \in {"chk_unlink", "idle"}
      /\ ~last => q.pc = "chk_unlink" /\ q.todo = req[r].todo \ {p}
  BY <1>2 DEF Fitting, Request, Idle
<1> HIDE DEF q
<1>5. \A x \in OnDisk' : x \in OnDisk /\ x # p
  BY <1>1 DEF Unlink, OnDisk
<1>6. \A x : CoversPicture(req[r], x) => x \in req[r].todo
  BY <1>2 DEF CoversPicture
<1>7. \A x : CoversPicture(req[r], x) /\ x # p => CoversPicture(q, x)
  BY <1>4, <1>6 DEF CoversPicture
<1>8. \A u : ~CoversFace(req[r], u)
  BY <1>2 DEF CoversFace
<1>9. UNCHANGED <<faceList, tableUp, userDb, worker>>
  BY DEF CheckUnlink, db
<1> QED
  BY <1>2, <1>3, <1>4, <1>5, <1>7, <1>8, <1>9, DiskStep

LEMMA SoundResetRead == ASSUME IInv, Facts, NEW r \in Requests, ResetRead(r) PROVE Facts'
<1> DEFINE found == PathsOf(Listed)
           q == [Idle EXCEPT !.seen = found, !.todo = found,
                   !.pc = IF found = {} THEN "rst_face" ELSE "rst_unlink"]
<1>1. req' = [req EXCEPT ![r] = q] /\ q.pc \in {"rst_face", "rst_unlink"}
  BY DEF ResetRead, Idle
<1> HIDE DEF q
<1>2. req[r].pc = "idle" /\ UNCHANGED <<faceList, pictures, userDb, worker, tableUp>>
  BY DEF ResetRead, CanStart, db
<1> QED
  BY <1>1, <1>2, FirstStep

LEMMA SoundResetUnlink ==
  ASSUME IInv, Facts, NEW r \in Requests, ResetUnlink(r) PROVE Facts'
<1>1. PICK p \in req[r].todo :
        /\ Unlink({p})
        /\ req' = [req EXCEPT ![r].todo = @ \ {p},
                              ![r].pc = IF req[r].todo = {p} THEN "rst_face" ELSE @]
  BY DEF ResetUnlink
<1> DEFINE pc == IF req[r].todo = {p} THEN "rst_face" ELSE "rst_unlink"
           q == [req[r] EXCEPT !.todo = @ \ {p}, !.pc = pc]
<1>2. req[r].pc = "rst_unlink" /\ req[r] \in Fitting
  BY DEF ResetUnlink, At_, IInv, Typed, ReqType
<1>3. req' = [req EXCEPT ![r] = q]
  BY <1>1, <1>2
<1>4. q.pc = pc /\ pc \in {"rst_face", "rst_unlink"}
  BY <1>2 DEF Fitting, Request
<1> HIDE DEF q, pc
<1>5. \A x \in OnDisk' : x \in OnDisk
  BY <1>1 DEF Unlink, OnDisk
<1>6. (\A u : ~CoversFace(req[r], u)) /\ \A x : ~CoversPicture(req[r], x)
  BY <1>2 DEF CoversFace, CoversPicture
<1>7. UNCHANGED <<faceList, tableUp, userDb, worker>>
  BY DEF ResetUnlink, db
<1> QED
  BY <1>2, <1>3, <1>4, <1>5, <1>6, <1>7, DiskStep

\* Clearing the recogniser leaves no face to account for, and rows that refer to
\* faces it has no more, until the table is cleared as well.
LEMMA SoundResetFace ==
  ASSUME IInv, Facts, NEW r \in Requests, ResetFace(r) PROVE Facts'
<1> DEFINE q == [req[r] EXCEPT !.pc = "rst_rows"]
<1>1. req' = [req EXCEPT ![r] = q] /\ ReqType /\ req[r].pc = "rst_face"
  BY DEF ResetFace, At_, Goto, IInv, Typed
<1>2. q.pc = "rst_rows" /\ req'[r] = q
  BY <1>1 DEF ReqType, Fitting, Request
<1> HIDE DEF q
<1>3. UNCHANGED <<faceList, tableUp, pictures, worker>> /\ Forget(Users)
  BY DEF ResetFace, db
<1>4. Known' = {}
  BY <1>3 DEF Forget, Known
<1>5. Clearing'
  BY <1>2 DEF Clearing
<1>6. StoreFacts'
  BY <1>3, <1>5 DEF Facts, StoreFacts, OwnPath, DroppedEmpty, Referred, Unshared, Blank,
     ReportFresh, Listed
<1>7. CheckWhole'
  BY <1>1, <1>2, CheckWholeStays DEF Facts
<1>8. FacesCovered'
  BY <1>4 DEF FacesCovered
<1>9. PicturesCovered'
  <2> SUFFICES ASSUME NEW p \in OnDisk', At(p)' = {}
               PROVE  \E s \in Requests : CoversPicture(req'[s], p)
    BY DEF PicturesCovered
  <2>1. p \in OnDisk /\ At(p) = {}
    BY <1>3 DEF OnDisk, At, Listed
  <2>2. ~CoversPicture(req[r], p)
    BY <1>1 DEF CoversPicture
  <2> QED
    BY <1>1, <2>1, <2>2, PictureCoverStays DEF Facts, PicturesCovered
<1> QED
  BY <1>6, <1>7, <1>8, <1>9 DEF Facts

\* Without rows nothing is said of rows.
LEMMA NoRowsFacts ==
  ASSUME Listed' = {}, Blank' PROVE StoreFacts'
  BY DEF StoreFacts, OwnPath, DroppedEmpty, Referred, Unshared, ReportFresh, HeldBy

\* A reset that found every picture it knows of gone, and no face referred to,
\* empties the table without leaving anything behind.
LEMMA SoundResetRows ==
  ASSUME IInv, Facts, NEW r \in Requests, ResetRows(r), ~stale' PROVE Facts'
<1> DEFINE q == [req[r] EXCEPT !.pc = "rst_drop"]
<1>1. req' = [req EXCEPT ![r] = q] /\ ReqType /\ req[r].pc = "rst_rows"
  BY DEF ResetRows, At_, Goto, IInv, Typed
<1>2. q.pc = "rst_drop"
  BY <1>1 DEF ReqType, Fitting, Request
<1> HIDE DEF q
<1>3. /\ PathsOf(Listed) = req[r].seen
      /\ \A p \in req[r].seen : pictures[p] = NoPicture
      /\ \A u \in Known : HeldBy(u) = {}
  BY DEF ResetRows, Outdated
<1>4. UNCHANGED <<pictures, userDb, worker>> /\ Listed' = {}
  BY DEF ResetRows, DeleteRows, Listed
<1>5. StoreFacts'
  BY <1>4, NoRowsFacts DEF Facts, StoreFacts, Blank
<1>6. CheckWhole'
  BY <1>1, <1>2, CheckWholeStays DEF Facts
<1>7. FacesCovered'
  <2> SUFFICES ASSUME NEW u \in Known', ~Reporting(u)'
               PROVE  \E s \in Requests : CoversFace(req'[s], u)
    BY DEF FacesCovered
  <2>1. u \in Known /\ HeldBy(u) = {} /\ ~Reporting(u)
    BY <1>3, <1>4 DEF Known, Reporting
  <2>2. ~CoversFace(req[r], u)
    BY <1>1 DEF CoversFace
  <2> QED
    BY <1>1, <2>1, <2>2, FaceCoverStays DEF Facts, FacesCovered
<1>8. PicturesCovered'
  <2> SUFFICES ASSUME NEW p \in OnDisk'
               PROVE  \E s \in Requests : CoversPicture(req'[s], p)
    BY DEF PicturesCovered
  <2>1. p \in OnDisk
    BY <1>4 DEF OnDisk
  <2>2. p \notin PathsOf(Listed)
    BY <1>3, <2>1 DEF OnDisk
  <2>3. At(p) = {}
    BY <2>2 DEF PathsOf, At
  <2>4. ~CoversPicture(req[r], p)
    BY <1>1 DEF CoversPicture
  <2> QED
    BY <1>1, <2>1, <2>3, <2>4, PictureCoverStays DEF Facts, PicturesCovered
<1> QED
  BY <1>5, <1>6, <1>7, <1>8 DEF Facts

LEMMA SoundResetDrop ==
  ASSUME IInv, Facts, NEW r \in Requests, ResetDrop(r), ~stale' PROVE Facts'
<1> DEFINE q == [req[r] EXCEPT !.pc = "rst_create"]
<1>1. req' = [req EXCEPT ![r] = q] /\ ReqType /\ req[r].pc = "rst_drop"
  BY DEF ResetDrop, At_, Goto, IInv, Typed
<1>2. q.pc = "rst_create"
  BY <1>1 DEF ReqType, Fitting, Request
<1> HIDE DEF q
<1>4. UNCHANGED <<pictures, userDb, worker>> /\ Listed' = {} /\ Listed = {}
  BY DEF ResetDrop, Listed, Outdated
<1>5. StoreFacts'
  BY <1>4, NoRowsFacts DEF Facts, StoreFacts, Blank
<1>6. CheckWhole'
  BY <1>1, <1>2, CheckWholeStays DEF Facts
<1>7. FacesCovered'
  <2> SUFFICES ASSUME NEW u \in Known', ~Reporting(u)'
               PROVE  \E s \in Requests : CoversFace(req'[s], u)
    BY DEF FacesCovered
  <2>1. u \in Known /\ HeldBy(u) = {} /\ ~Reporting(u)
    BY <1>4 DEF Known, Reporting, HeldBy
  <2>2. ~CoversFace(req[r], u)
    BY <1>1 DEF CoversFace
  <2> QED
    BY <1>1, <2>1, <2>2, FaceCoverStays DEF Facts, FacesCovered
<1>8. PicturesCovered'
  <2> SUFFICES ASSUME NEW p \in OnDisk'
               PROVE  \E s \in Requests : CoversPicture(req'[s], p)
    BY DEF PicturesCovered
  <2>1. p \in OnDisk /\ At(p) = {}
    BY <1>4 DEF OnDisk, At
  <2>2. ~CoversPicture(req[r], p)
    BY <1>1 DEF CoversPicture
  <2> QED
    BY <1>1, <2>1, <2>2, PictureCoverStays DEF Facts, PicturesCovered
<1> QED
  BY <1>5, <1>6, <1>7, <1>8 DEF Facts

LEMMA SoundResetCreate ==
  ASSUME IInv, Facts, NEW r \in Requests, ResetCreate(r) PROVE Facts'
<1> DEFINE q == [req[r] EXCEPT !.pc = "rst_records"]
<1>1. req' = [req EXCEPT ![r] = q] /\ ReqType /\ req[r].pc = "rst_create"
  BY DEF ResetCreate, At_, Goto, IInv, Typed
<1>2. q.pc = "rst_records"
  BY <1>1 DEF ReqType, Fitting, Request
<1> HIDE DEF q
<1>3. (\A u : ~CoversFace(req[r], u)) /\ \A p : ~CoversPicture(req[r], p)
  BY <1>1 DEF CoversFace, CoversPicture
<1>4. UNCHANGED <<faceList, pictures, userDb, worker>> /\ tableUp'
  BY DEF ResetCreate
<1> QED
  BY <1>1, <1>2, <1>3, <1>4, QuietStep

LEMMA SoundResetRecords ==
  ASSUME IInv, Facts, NEW r \in Requests, ResetRecords(r) PROVE Facts'
<1>1. req' = [req EXCEPT ![r] = Idle] /\ req[r].pc \in {"rst_records", "idle"}
  BY DEF ResetRecords, At_, Finish, CanStart
<1>2. (\A u : ~CoversFace(req[r], u)) /\ (\A p : ~CoversPicture(req[r], p)) /\ Idle.pc = "idle"
  BY <1>1 DEF CoversFace, CoversPicture, Idle
<1>3. UNCHANGED <<faceList, pictures, userDb, worker, tableUp>>
  BY DEF ResetRecords, db
<1> QED
  BY <1>1, <1>2, <1>3, QuietStep
-----------------------------------------------------------------------------
(* PUT event/face-picture.                                                 *)

LEMMA SoundUploadWrite ==
  ASSUME IInv, Facts, NEW r \in Requests, UploadWrite(r), ~stale' PROVE Facts'
<1>1. PICK p \in Paths, c \in Content :
        /\ pictures' = [pictures EXCEPT ![p] = c]
        /\ At(p) # {}
        /\ req' = [req EXCEPT ![r] = [Idle EXCEPT !.pc = "up_lookup", !.path = p]]
  BY DEF UploadWrite, Outdated
<1> DEFINE q == [Idle EXCEPT !.pc = "up_lookup", !.path = p]
<1>2. req' = [req EXCEPT ![r] = q] /\ q.pc = "up_lookup"
  BY <1>1 DEF Idle
<1> HIDE DEF q
<1>3. req[r].pc = "idle" /\ UNCHANGED <<faceList, userDb, worker, tableUp>>
  BY DEF UploadWrite, CanStart, db
<1>4. \A x \in OnDisk' : At(x) # {} \/ x \in OnDisk
  BY <1>1 DEF OnDisk, IInv, Typed, PicType
<1>5. (\A u : ~CoversFace(req[r], u)) /\ \A x : ~CoversPicture(req[r], x)
  BY <1>3 DEF CoversFace, CoversPicture
<1> QED
  BY <1>2, <1>3, <1>4, <1>5, DiskStep

LEMMA SoundUploadLookup ==
  ASSUME IInv, Facts, NEW r \in Requests, UploadLookup(r) PROVE Facts'
<1> DEFINE q == IF At(req[r].path) # {} THEN [req[r] EXCEPT !.pc = "up_push"] ELSE Idle
<1>1. req[r].pc = "up_lookup" /\ req[r] \in Fitting
  BY DEF UploadLookup, At_, IInv, Typed, ReqType
<1>2. req' = [req EXCEPT ![r] = q]
  BY DEF UploadLookup, Goto, Finish
<1>3. q.pc \in {"up_push", "idle"}
  BY <1>1 DEF Fitting, Request, Idle
<1> HIDE DEF q
<1>4. (\A u : ~CoversFace(req[r], u)) /\ \A p : ~CoversPicture(req[r], p)
  BY <1>1 DEF CoversFace, CoversPicture
<1>5. UNCHANGED <<faceList, pictures, userDb, worker, tableUp>>
  BY DEF UploadLookup, db
<1> QED
  BY <1>1, <1>2, <1>3, <1>4, <1>5, QuietStep

LEMMA SoundUploadPush ==
  ASSUME IInv, Facts, NEW r \in Requests, UploadPush(r) PROVE Facts'
<1>1. req[r].pc = "up_push" /\ req' = [req EXCEPT ![r] = Idle] /\ Idle.pc = "idle"
  BY DEF UploadPush, At_, Finish, Idle
<1>2. (\A u : ~CoversFace(req[r], u)) /\ \A p : ~CoversPicture(req[r], p)
  BY <1>1 DEF CoversFace, CoversPicture
<1>3. UNCHANGED <<faceList, pictures, userDb, worker, tableUp>>
  BY DEF UploadPush, db
<1> QED
  BY <1>1, <1>2, <1>3, QuietStep

LEMMA SoundCopyPicture ==
  ASSUME IInv, Facts, NEW r \in Requests, CopyPicture(r), ~stale' PROVE Facts'
<1>1. PICK p \in Paths, c \in Content :
        pictures' = [pictures EXCEPT ![p] = c] /\ At(p) # {}
  BY DEF CopyPicture, Outdated
<1>2. UNCHANGED <<faceList, tableUp, userDb, worker, req>>
  BY DEF CopyPicture, db
<1>3. req' = [req EXCEPT ![r] = req[r]] /\ req[r].pc = "idle"
  BY <1>2 DEF IInv, Typed, ReqType, CopyPicture, CanStart
<1>4. \A x \in OnDisk' : At(x) # {} \/ x \in OnDisk
  BY <1>1 DEF OnDisk, IInv, Typed, PicType
<1> QED
  BY <1>2, <1>3, <1>4, DiskStep

LEMMA SoundDeleteOneRecord ==
  ASSUME IInv, Facts, NEW r \in Requests, DeleteOneRecord(r) PROVE Facts'
<1>1. UNCHANGED <<faceList, tableUp, pictures, userDb, worker, req>>
  BY DEF DeleteOneRecord, db
<1>2. req' = [req EXCEPT ![r] = req[r]] /\ req[r].pc = "idle"
  BY <1>1 DEF IInv, Typed, ReqType, DeleteOneRecord, CanStart
<1> QED
  BY <1>1, <1>2, FirstStep

-----------------------------------------------------------------------------
(* The recogniser's thread, and the power.                                 *)

\* The thread goes on without a report that names a face, before or after.
LEMMA ThreadStep ==
  ASSUME IInv, Facts, UNCHANGED <<faceList, tableUp, pictures, userDb, req>>,
         worker.stage # "report", Blank', worker'.stage = "report" => worker'.user = Never
  PROVE  Facts'
<1>1. StoreFacts'
  BY DEF Facts, StoreFacts, OwnPath, DroppedEmpty, Referred, Unshared, ReportFresh,
     Clearing, Listed, Known
<1>2. FacesCovered'
  BY DEF Facts, FacesCovered, Known, HeldBy, Listed, Reporting
<1>3. PicturesCovered' /\ CheckWhole'
  BY DEF Facts, PicturesCovered, CheckWhole, OnDisk, At, Listed
<1> QED
  BY <1>1, <1>2, <1>3 DEF Facts

LEMMA SoundWorkerRead == ASSUME IInv, Facts, WorkerRead PROVE Facts'
<1>1. worker.stage = "idle" /\ worker'.stage # "report" /\ worker'.user = Never
  BY DEF WorkerRead, Resting
<1> QED
  BY <1>1, ThreadStep DEF WorkerRead, Blank, db

LEMMA SoundWorkerCompare == ASSUME IInv, Facts, WorkerCompare PROVE Facts'
<1>1. worker.stage = "read" /\ worker.user = Never
  BY DEF WorkerCompare, Facts, StoreFacts, Blank
<1>2. worker'.user = Never
  BY <1>1 DEF WorkerCompare, IInv, Typed, WorkType, Holding, Worker
<1> QED
  BY <1>1, <1>2, ThreadStep DEF WorkerCompare, Blank, db

\* A face is registered under an id that no face has; a row that refers to it would
\* refer to a face the recogniser does not know.
LEMMA SoundWorkerRegister == ASSUME IInv, Facts, WorkerRegister PROVE Facts'
<1>1. worker.stage = "new" /\ worker.user = Never /\ worker.face \in Persons
  BY DEF WorkerRegister, Facts, StoreFacts, Blank, IInv, Typed, WorkType, Holding
<1>2. UNCHANGED <<faceList, tableUp, pictures, req>>
  BY DEF WorkerRegister, db
<1>3. CASE worker' = [worker EXCEPT !.stage = "report"] /\ UNCHANGED userDb
  <2>1. worker'.user = Never /\ worker'.stage = "report"
    BY <1>1, <1>3 DEF IInv, Typed, WorkType, Holding, Worker
  <2> QED
    BY <1>1, <1>2, <1>3, <2>1, ThreadStep DEF Blank
<1>4. ASSUME NEW u \in Users, IsNextUser(u), userDb' = [userDb EXCEPT ![u] = worker.face],
             worker' = [worker EXCEPT !.stage = "report", !.user = u]
      PROVE  Facts'
  <2>1. u \notin Known
    <3> SUFFICES ASSUME u \in Known PROVE FALSE
      OBVIOUS
    <3>1. u < u /\ u \in Int
      BY <1>4 DEF IsNextUser, Users
    <3> QED
      BY <3>1
  <2>2. Known' = Known \cup {u}
    BY <1>1, <1>4, AbsentAssumption DEF Known, IInv, Typed, FaceType
  <2>3. worker'.stage = "report" /\ worker'.user = u
    BY <1>4 DEF IInv, Typed, WorkType, Holding, Worker
  <2>4. OwnPath' /\ DroppedEmpty' /\ Unshared' /\ Blank'
    BY <1>2, <2>3 DEF Facts, StoreFacts, OwnPath, DroppedEmpty, Unshared, Blank, Listed, Clearing
  <2>5. Referred'
    BY <1>2, <2>2 DEF Facts, StoreFacts, Referred, Listed, Clearing
  <2>6. ReportFresh'
    BY <1>2, <2>1, <2>3 DEF Facts, StoreFacts, Referred, ReportFresh, HeldBy, Listed, Clearing
  <2>7. FacesCovered'
    BY <1>1, <1>2, <2>2, <2>3 DEF Facts, FacesCovered, Reporting, HeldBy, Listed
  <2>8. PicturesCovered' /\ CheckWhole'
    BY <1>2 DEF Facts, PicturesCovered, CheckWhole, OnDisk, At, Listed
  <2> QED
    BY <2>4, <2>5, <2>6, <2>7, <2>8 DEF Facts, StoreFacts
<1> QED
  BY <1>3, <1>4 DEF WorkerRegister

LEMMA OneElement ==
  ASSUME NEW S, IsFiniteSet(S), Cardinality(S) = 1
  PROVE  \E x : S = {x}
  BY FS_Singleton

\* The rows found by a path are rows of the table, a finite set.
LEMMA AtFinite == ASSUME NEW p PROVE IsFiniteSet(At(p))
<1>1. IsFiniteSet(Ids)
  BY FS_Interval DEF Ids
<1>2. At(p) \subseteq Ids
  BY DEF At, Listed
<1> QED
  BY <1>1, <1>2, FS_Subset

\* The report finds the one row that waits for it, and gives it a face that the
\* recogniser knows and no other row refers to.
LEMMA SoundWorkerReport == ASSUME IInv, Facts, WorkerReport, ~stale' PROVE Facts'
<1> DEFINE p == worker.path   u == worker.user
<1>1. worker.stage = "report" /\ u \in Users \cup {Never} /\ p \in Paths
  BY DEF WorkerReport, IInv, Typed, WorkType, Holding, Worker
<1>2. /\ Cardinality(At(p)) = 1
      /\ \A i \in At(p) : faceList[i].dbid \notin Users
      /\ u \in Users => u \in Known
  BY DEF WorkerReport, Outdated
<1>3. PICK i : At(p) = {i}
  BY <1>2, AtFinite, OneElement
<1>4. i \in Listed /\ i \in Ids /\ faceList[i].path = p /\ faceList[i].dbid \notin Users
  BY <1>2, <1>3 DEF At, Listed
<1>5. tableUp
  BY <1>4 DEF Facts, StoreFacts, DroppedEmpty
<1> DEFINE row == [path |-> p, dbid |-> u, loaded |-> u # Never]
<1>6. faceList' = [j \in Ids |-> IF j \in At(p) THEN row ELSE faceList[j]] /\ UNCHANGED tableUp
  BY <1>3, <1>5 DEF WorkerReport, SetByPath
<1>7. row # NoRow
  <2>1. (u # Never) \in BOOLEAN
    OBVIOUS
  <2>2. row \in Row
    BY <1>1, <2>1 DEF Row
  <2> QED
    BY <2>2, AbsentAssumption
<1>8. /\ Listed' = Listed /\ faceList'[i].path = p /\ faceList'[i].dbid = u
      /\ \A j \in Listed \ {i} : faceList'[j] = faceList[j]
  <2>1. faceList'[i] = row
    BY <1>3, <1>4, <1>6
  <2>2. \A j \in Listed \ {i} : faceList'[j] = faceList[j]
    BY <1>3, <1>6 DEF Listed
  <2>3. \A j \in Ids : j # i => faceList'[j] = faceList[j]
    BY <1>3, <1>6
  <2>4. Listed' = Listed
    BY <1>4, <1>7, <2>1, <2>3 DEF Listed
  <2> QED
    BY <2>1, <2>2, <2>4
<1> HIDE DEF row
<1>9. UNCHANGED <<pictures, userDb, req>> /\ worker' = Resting
  BY DEF WorkerReport
<1>10. worker'.stage = "idle" /\ Known' = Known /\ (Clearing' <=> Clearing)
  BY <1>9 DEF Resting, Known, Clearing
<1>11. OwnPath'
  BY <1>4, <1>8 DEF Facts, StoreFacts, OwnPath
<1>12. DroppedEmpty' /\ Blank' /\ ReportFresh'
  BY <1>5, <1>6, <1>10 DEF DroppedEmpty, Blank, ReportFresh
<1>13. Referred'
  BY <1>2, <1>8, <1>10 DEF Facts, StoreFacts, Referred
<1>14. Unshared'
  <2> SUFFICES ASSUME ~Clearing, NEW j \in Listed, NEW k \in Listed, j # k,
                      faceList'[j].dbid \in Users
               PROVE  faceList'[j].dbid # faceList'[k].dbid
    BY <1>8, <1>10 DEF Unshared
  <2>1. u \in Users => HeldBy(u) = {}
    BY <1>1 DEF Facts, StoreFacts, ReportFresh, Users, Never
  <2>2. CASE j = i
    BY <1>8, <2>1, <2>2 DEF HeldBy
  <2>3. CASE k = i
    BY <1>8, <2>1, <2>3 DEF HeldBy
  <2>4. CASE j # i /\ k # i
    BY <1>8, <2>4 DEF Facts, StoreFacts, Unshared
  <2> QED
    BY <2>2, <2>3, <2>4
<1>15. FacesCovered'
  <2> SUFFICES ASSUME NEW v \in Known, HeldBy(v)' = {}
               PROVE  \E s \in Requests : CoversFace(req[s], v)
    BY <1>9, <1>10 DEF FacesCovered
  <2>1. v \in Users /\ v # u
    BY <1>4, <1>8 DEF HeldBy, Known
  <2>2. HeldBy(v) = {}
    BY <1>4, <1>8, <2>1 DEF HeldBy
  <2> QED
    BY <2>1, <2>2 DEF Facts, FacesCovered, Reporting
<1>16. PicturesCovered'
  <2>1. \A x \in Paths : At(x) # {} => At(x)' # {}
    BY <1>4, <1>8 DEF At
  <2> QED
    BY <1>9, <2>1 DEF Facts, PicturesCovered, OnDisk
<1>17. CheckWhole'
  BY <1>9 DEF Facts, CheckWhole
<1> QED
  BY <1>11, <1>12, <1>13, <1>14, <1>15, <1>16, <1>17 DEF Facts, StoreFacts

LEMMA SoundWorkerMatch == ASSUME IInv, Facts, WorkerMatch PROVE Facts'
<1>1. worker.stage = "idle" /\ worker'.stage = "match"
  BY DEF WorkerMatch, Resting
<1> QED
  BY <1>1, ThreadStep DEF WorkerMatch, Blank, db

LEMMA SoundWorkerRecord == ASSUME IInv, Facts, WorkerRecord PROVE Facts'
<1>1. worker.stage = "match" /\ worker'.stage = "idle"
  BY DEF WorkerRecord, Resting
<1> QED
  BY <1>1, ThreadStep DEF WorkerRecord, Blank, db

\* A reboot that loses nothing finds nothing to lose.
LEMMA SoundReboot == ASSUME IInv, Facts, Reboot, ~stale' PROVE Facts'
<1>1. Known = {} /\ OnDisk = {}
  BY DEF Reboot, Outdated, OnDisk
<1>2. Listed' = {} /\ Known' = {} /\ OnDisk' = {} /\ Blank'
  BY <1>1 DEF Reboot, Listed, Known, OnDisk, Blank, Resting
<1>3. CheckWhole'
  BY DEF Reboot, CheckWhole, Idle
<1> QED
  BY <1>2, <1>3, NoRowsFacts DEF Facts, FacesCovered, PicturesCovered

\* Handing a picture to the thread, and the switch, touch no store.
LEMMA FeedStep ==
  ASSUME Facts, UNCHANGED <<faceList, tableUp, pictures, userDb, worker, req>>
  PROVE  Facts'
  BY DEF Facts, StoreFacts, OwnPath, DroppedEmpty, Referred, Unshared, Blank,
     ReportFresh, FacesCovered, PicturesCovered, CheckWhole, Clearing, Listed, Known, HeldBy,
     At, OnDisk, Reporting

\* What was acted on stays acted on.
LEMMA StaleStays == ASSUME [Next]_vars, stale PROVE stale'
<1>1. ASSUME NEW r \in Requests, Handler(r) PROVE stale'
  BY <1>1 DEF Handler, Outdated, AddRead, AddSet, ModifyRead, ModifySet, ModifyReread,
     ModifyFace, ModifyMove, DeleteRead, DeleteRow, DeleteUnlink, DeleteFace,
     DeleteFindRecords, DeleteRecords, CheckRead, CheckRows, CheckUnlink, ResetRead,
     ResetUnlink, ResetFace, ResetRows, ResetDrop, ResetCreate, ResetRecords,
     DeleteOneRecord, UploadWrite, UploadLookup, UploadPush, CopyPicture
<1>2. ASSUME Recogniser PROVE stale'
  BY <1>2 DEF Recogniser, Outdated, SendInput, WorkerRead, WorkerCompare, WorkerRegister,
     WorkerReport, WorkerMatch, WorkerRecord
<1> QED
  BY <1>1, <1>2 DEF Next, Switch, Reboot, Outdated, vars

LEMMA FactsStep == ASSUME IInv, Facts, [Next]_vars, ~stale' PROVE Facts'
<1>1. ASSUME NEW r \in Requests, Handler(r) PROVE Facts'
  BY <1>1, SoundAddRead, SoundAddSet, SoundModifyRead, SoundModifySet, SoundModifyReread,
     SoundModifyFace, SoundModifyMove, SoundDeleteRead, SoundDeleteRow,
     SoundDeleteUnlink, SoundDeleteFace, SoundDeleteFindRecords, SoundDeleteRecords,
     SoundCheckRead, SoundCheckRows, SoundCheckUnlink, SoundResetRead, SoundResetUnlink,
     SoundResetFace, SoundResetRows, SoundResetDrop, SoundResetCreate,
     SoundResetRecords, SoundDeleteOneRecord, SoundUploadWrite, SoundUploadLookup,
     SoundUploadPush, SoundCopyPicture
  DEF Handler
<1>4. SendInput \/ Switch => Facts'
  BY FeedStep DEF SendInput, Switch, db
<1>2. ASSUME Recogniser PROVE Facts'
  BY <1>2, <1>4, SoundWorkerRead, SoundWorkerCompare, SoundWorkerRegister, SoundWorkerReport,
     SoundWorkerMatch, SoundWorkerRecord DEF Recogniser
<1>3. CASE UNCHANGED vars
  BY <1>3, FeedStep DEF vars
<1> QED
  BY <1>1, <1>2, <1>3, <1>4, SoundReboot DEF Next

THEOREM Soundness == Spec => []Sound
<1>1. Init => Sound
  BY InitInv, InitFacts DEF Sound
<1>2. Sound /\ [Next]_vars => Sound'
  <2> SUFFICES ASSUME Sound, [Next]_vars PROVE Sound'
    OBVIOUS
  <2>1. IInv'
    BY InvStep DEF Sound
  <2>2. ~stale' => Facts'
    BY StaleStays, FactsStep DEF Sound
  <2> QED
    BY <2>1, <2>2 DEF Sound
<1> QED
  BY <1>1, <1>2, PTL DEF Spec

\* As long as nobody acted on outdated information, a face the recogniser knows has
\* a row, or a report under way, or a handler about to delete it.
THEOREM NoFaceOrphaned == Spec => []NoOrphanFace
<1>1. Sound => NoOrphanFace
  BY DEF Sound, Facts, FacesCovered, NoOrphanFace, Step, CoversFace, Reporting
<1> QED
  BY <1>1, Soundness, PTL

\* As long as nobody acted on outdated information, a row refers to a face the
\* recogniser knows, except between the two halves of a reset.
THEOREM NoFaceDangles == Spec => []NoDanglingFace
<1>1. Sound => NoDanglingFace
  BY DEF Sound, Facts, StoreFacts, Referred, NoDanglingFace, Step, Clearing
<1> QED
  BY <1>1, Soundness, PTL

\* As long as nobody acted on outdated information, no two rows share a picture, nor
\* a face, except between the two halves of a reset.
THEOREM NoFaceShared == Spec => []NoSharedFace
<1>1. Facts => NoSharedFace
  <2> SUFFICES ASSUME Facts, NEW i \in Listed, NEW j \in Listed, i # j
               PROVE  /\ faceList[i].path # faceList[j].path
                      /\ \/ Step({"rst_rows"}) # {}
                         \/ faceList[i].dbid \in Users => faceList[i].dbid # faceList[j].dbid
    BY DEF NoSharedFace
  <2>1. faceList[i].path # faceList[j].path
    BY DEF Facts, StoreFacts, OwnPath
  <2>2. Clearing => Step({"rst_rows"}) # {}
    BY DEF Clearing, Step
  <2> QED
    BY <2>1, <2>2 DEF Facts, StoreFacts, Unshared
<1>2. Sound => NoSharedFace
  BY <1>1 DEF Sound, NoSharedFace
<1> QED
  BY <1>2, Soundness, PTL

\* As long as nobody acted on outdated information, a picture on the disk is some
\* row's, or a handler is about to move or unlink it.
THEOREM NoPictureOrphaned == Spec => []NoOrphanPicture
<1>1. Sound => NoOrphanPicture
  BY DEF Sound, Facts, PicturesCovered, OnDisk, NoOrphanPicture, Step, CoversPicture
<1> QED
  BY <1>1, Soundness, PTL
-----------------------------------------------------------------------------
(* One client that waits until everything is settled.  Nothing runs beside    *)
(* its request but the recogniser, which then only watches the door: what    *)
(* the handler read is still true when the handler acts on it.              *)

\* rows at p wait for the recogniser
Waiting(p) == At(p) # {} /\ \A i \in At(p) : faceList[i].dbid \notin Users

\* what is true of the stores before the next step of a handler with locals q
Expected(q) ==
  /\ q.pc \in {"up_lookup", "up_push"} => Waiting(q.path)
  /\ q.pc = "add_set" => faceList[q.id] = NoRow
  /\ q.pc \in {"mod_set", "del_row"} => faceList[q.id] = q.old
  /\ q.pc = "mod_reread" =>
       /\ q.id \in Listed
       /\ q.redo => /\ faceList[q.id].dbid = Pending
                    /\ q.old.dbid \in Users => HeldBy(q.old.dbid) = {}
       /\ ~q.redo => faceList[q.id].dbid = q.old.dbid
  /\ q.pc \in {"mod_face", "mod_move"} => At(q.path) # {}
  /\ q.pc \in {"mod_face", "del_face"} => HeldBy(q.old.dbid) = {}
  /\ q.pc = "del_unlink" => /\ At(q.old.path) = {}
                            /\ q.old.dbid \in Users => HeldBy(q.old.dbid) = {}
  /\ q.pc \in {"del_find", "del_records"} => q.old.dbid \notin Known
  /\ q.pc = "chk_rows" => q.seen = PathsOf(Unloaded(q.id))
  /\ q.pc = "chk_unlink" => \A p \in q.todo : At(p) = {}
  /\ q.pc \in {"rst_unlink", "rst_face", "rst_rows"} => q.seen = PathsOf(Listed)
  /\ q.pc = "rst_unlink" => \A p \in q.seen \ q.todo : pictures[p] = NoPicture
  /\ q.pc \in {"rst_face", "rst_rows"} => \A p \in q.seen : pictures[p] = NoPicture
  /\ q.pc = "rst_rows" => Known = {}
  /\ q.pc \in {"rst_drop", "rst_create"} => Listed = {}

AllIdle    == \A r \in Requests : req[r].pc = "idle"
Watching   == queue = <<>> /\ worker.stage \in {"idle", "match"}

OneAtATime == \A r, s \in Requests : r # s => req[r].pc = "idle" \/ req[s].pc = "idle"
Foreseen   == \A r \in Requests : Expected(req[r])
TableThere == tableUp \/ \E r \in Requests : req[r].pc = "rst_create"

\* One picture at a time goes through queue and thread, while no request runs.
OnePicture ==
  /\ AllIdle \/ Watching
  /\ queue # <<>> => /\ Len(queue) = 1 /\ Waiting(Head(queue))
                     /\ worker.stage \in {"idle", "match"}
  /\ worker.stage \in {"read", "new", "report"} => Waiting(worker.path)
  /\ worker.stage = "report" /\ worker.user \in Users => worker.user \in Known

Serial == ~stale /\ OneAtATime /\ Foreseen /\ TableThere /\ OnePicture

\* one client, and no power cut behind its back
Alone == ~Overlap /\ "reboot" \notin Ops

LEMMA InitSerial == Init => Serial
<1> SUFFICES ASSUME Init PROVE Serial
  OBVIOUS
<1>1. /\ \A r \in Requests : req[r].pc = "idle"
      /\ ~stale /\ tableUp /\ queue = <<>> /\ worker.stage = "idle"
  BY DEF Init, Idle, Resting
<1> QED
  BY <1>1 DEF Serial, OneAtATime, Foreseen, Expected, TableThere, OnePicture, AllIdle, Watching

-----------------------------------------------------------------------------
(* What a step of the one request running keeps.                           *)

\* While a handler runs, and when it starts, all others are idle and the thread
\* watches.
LEMMA OthersIdle ==
  ASSUME Serial, NEW r \in Requests, req[r].pc # "idle" \/ Settled
  PROVE  /\ \A s \in Requests \ {r} : req[s].pc = "idle"
         /\ Watching
         /\ req[r].pc \notin {"rst_create"} => tableUp
         /\ req[r].pc # "rst_rows" => ~Clearing
  BY DEF Serial, OneAtATime, OnePicture, TableThere, AllIdle, Watching, Settled, Clearing

\* So only the handler itself needs looking at.
LEMMA SerialStep ==
  ASSUME ReqType, Serial, NEW r \in Requests, NEW q, req' = [req EXCEPT ![r] = q],
         req[r].pc # "idle" \/ Settled, UNCHANGED <<queue, worker>>,
         ~stale', Expected(req[r])', tableUp' \/ q.pc = "rst_create"
  PROVE  Serial'
<1>1. req'[r] = q /\ \A s \in Requests \ {r} : req'[s] = req[s] /\ req[s].pc = "idle"
  BY OthersIdle DEF ReqType
<1>2. OneAtATime'
  BY <1>1 DEF OneAtATime
<1>3. Foreseen'
  <2> SUFFICES ASSUME NEW s \in Requests \ {r} PROVE Expected(req[s])'
    BY DEF Foreseen
  <2>1. req'[s].pc = "idle"
    BY <1>1
  <2> QED
    BY <2>1 DEF Expected
<1>4. TableThere'
  BY <1>1 DEF TableThere
<1>5. OnePicture'
  BY OthersIdle DEF OnePicture, Watching
<1> QED
  BY <1>2, <1>3, <1>4, <1>5 DEF Serial

\* A handler that ends has nothing to expect.
LEMMA SerialFinish ==
  ASSUME ReqType, Serial, NEW r \in Requests, Finish(r),
         req[r].pc # "idle" \/ Settled, UNCHANGED <<queue, worker>>, ~stale', tableUp'
  PROVE  Serial'
<1>1. req' = [req EXCEPT ![r] = Idle] /\ req'[r].pc = "idle"
  BY DEF Finish, ReqType, Idle
<1>2. Expected(req[r])'
  BY <1>1 DEF Expected
<1> QED
  BY <1>1, <1>2, SerialStep

-----------------------------------------------------------------------------
(* PUT event/face.                                                         *)

LEMMA SerialAddRead ==
  ASSUME IInv, Facts, Serial, Alone, NEW r \in Requests, AddRead(r) PROVE Serial'
<1>1. PICK i \in Ids, l \in Labels, redo \in BOOLEAN :
        /\ IsNext(i)
        /\ req' = [req EXCEPT ![r] = [Idle EXCEPT !.pc = "add_set", !.id = i,
                                                 !.label = l, !.redo = redo]]
  BY DEF AddRead
<1> DEFINE q == [Idle EXCEPT !.pc = "add_set", !.id = i, !.label = l, !.redo = redo]
<1>2. req' = [req EXCEPT ![r] = q] /\ q.pc = "add_set" /\ q.id = i
  BY <1>1 DEF Idle
<1> HIDE DEF q
<1>3. req'[r] = q /\ ReqType
  BY <1>2 DEF IInv, Typed, ReqType
<1>4. Settled /\ UNCHANGED <<faceList, tableUp, queue, worker, stale>> /\ req[r].pc = "idle"
  BY DEF AddRead, CanStart, db, Alone
<1>5. faceList[i] = NoRow
  <2>1. i \notin Listed
    BY <1>1 DEF IsNext, Listed, Ids
  <2> QED
    BY <2>1 DEF Listed
<1>6. Expected(req[r])'
  BY <1>2, <1>3, <1>4, <1>5 DEF Expected
<1> QED
  BY <1>2, <1>3, <1>4, <1>6, OthersIdle, SerialStep DEF Serial

LEMMA SerialAddSet ==
  ASSUME IInv, Facts, Serial, NEW r \in Requests, AddSet(r) PROVE Serial'
<1>1. req[r].pc = "add_set" /\ ReqType
  BY DEF AddSet, At_, IInv, Typed
<1>2. tableUp /\ faceList[req[r].id] = NoRow
  BY <1>1, OthersIdle DEF Serial, Foreseen, Expected
<1>3. ~stale' /\ tableUp'
  BY <1>2 DEF AddSet, Outdated, Serial, SetRow, Put
<1> QED
  BY <1>1, <1>3, SerialFinish DEF AddSet

LEMMA SerialModifyRead ==
  ASSUME IInv, Facts, Serial, Alone, NEW r \in Requests, ModifyRead(r) PROVE Serial'
<1>1. PICK i \in Listed, l \in Labels, redo \in BOOLEAN :
        req' = [req EXCEPT ![r] = [Idle EXCEPT !.pc = "mod_set", !.id = i, !.label = l,
                                            !.redo = redo, !.old = faceList[i]]]
  BY DEF ModifyRead
<1> DEFINE q == [Idle EXCEPT !.pc = "mod_set", !.id = i, !.label = l, !.redo = redo,
                             !.old = faceList[i]]
<1>2. req' = [req EXCEPT ![r] = q] /\ q.pc = "mod_set" /\ q.id = i /\ q.old = faceList[i]
  BY <1>1 DEF Idle
<1> HIDE DEF q
<1>3. req'[r] = q /\ ReqType
  BY <1>2 DEF IInv, Typed, ReqType
<1>4. Settled /\ UNCHANGED <<faceList, tableUp, queue, worker, stale>> /\ req[r].pc = "idle"
  BY DEF ModifyRead, CanStart, db, Alone
<1>6. Expected(req[r])'
  BY <1>2, <1>3, <1>4 DEF Expected
<1> QED
  BY <1>2, <1>3, <1>4, <1>6, OthersIdle, SerialStep DEF Serial

LEMMA SerialModifySet ==
  ASSUME IInv, Facts, Serial, NEW r \in Requests, ModifySet(r) PROVE Serial'
<1> DEFINE i == req[r].id   old == req[r].old   redo == req[r].redo
           q == [req[r] EXCEPT !.pc = "mod_reread"]
<1>1. req[r].pc = "mod_set" /\ ReqType /\ req[r] \in Fitting
  BY DEF ModifySet, At_, IInv, Typed, ReqType
<1>2. i \in Ids /\ req[r].label \in Labels /\ redo \in BOOLEAN /\ old \in Row
  BY <1>1 DEF Fitting, Request, NeedLabel, NeedOld
<1>3. tableUp /\ faceList[i] = old /\ ~Clearing
  BY <1>1, OthersIdle DEF Serial, Foreseen, Expected
<1>4. ~stale' /\ tableUp'
  BY <1>3 DEF ModifySet, Outdated, Serial, SetRow, Put
<1>5. req' = [req EXCEPT ![r] = q] /\ q.pc = "mod_reread" /\ q.id = i /\ q.old = old /\ q.redo = redo
  BY <1>1 DEF ModifySet, Goto, Fitting, Request
<1>6. req'[r] = q
  BY <1>1, <1>5 DEF ReqType
<1> HIDE DEF q
<1>7. i \in Listed
  BY <1>2, <1>3, AbsentAssumption DEF Listed
<1>8. /\ FewerFaces /\ i \in Listed'
      /\ ~redo => faceList'[i].dbid = old.dbid
      /\ \A j \in Ids \ {i} : faceList'[j] = faceList[j]
  BY <1>2, <1>3, <1>7, SetRowFacts DEF ModifySet, Facts, Listed
<1>9. redo => faceList'[i].dbid = Pending
  <2> SUFFICES ASSUME redo PROVE faceList'[i].dbid = Pending
    OBVIOUS
  <2> DEFINE row == [path |-> <<req[r].label, i>>, dbid |-> Pending,
                     loaded |-> IF faceList[i] = NoRow THEN FALSE ELSE faceList[i].loaded]
  <2>1. faceList' = [faceList EXCEPT ![i] = row]
    BY <1>3 DEF ModifySet, SetRow, Put
  <2> QED
    BY <1>2, <2>1 DEF IInv, Typed, DbType
<1>10. redo /\ old.dbid \in Users => HeldBy(old.dbid)' = {}
  <2> SUFFICES ASSUME redo, old.dbid \in Users, NEW j \in Listed', faceList'[j].dbid = old.dbid
               PROVE  FALSE
    BY <1>5, <1>6 DEF HeldBy
  <2>1. j # i
    BY <1>9 DEF Users, Pending
  <2>2. j \in Listed /\ faceList[j].dbid = old.dbid
    BY <1>8, <2>1 DEF FewerFaces
  <2> QED
    BY <1>3, <1>7, <2>1, <2>2 DEF Facts, StoreFacts, Unshared
<1>11. Expected(req[r])'
  BY <1>5, <1>6, <1>8, <1>9, <1>10 DEF Expected, HeldBy
<1> QED
  BY <1>1, <1>4, <1>5, <1>11, SerialStep DEF ModifySet

LEMMA SerialModifyReread ==
  ASSUME IInv, Facts, Serial, NEW r \in Requests, ModifyReread(r) PROVE Serial'
<1> DEFINE now == faceList[req[r].id]
           due == req[r].old.dbid \in Users
           del == due /\ now # NoRow /\ now.dbid = Pending
           pc  == IF del THEN "mod_face"
                  ELSE IF now # NoRow /\ now.path # req[r].old.path THEN "mod_move"
                  ELSE "idle"
<1>1. req[r].pc = "mod_reread" /\ ReqType /\ req[r] \in Fitting
  BY DEF ModifyReread, At_, IInv, Typed, ReqType
<1>2. tableUp /\ UNCHANGED <<faceList, tableUp, queue, worker>>
  BY <1>1, OthersIdle DEF ModifyReread, db
<1>3. /\ req[r].id \in Listed
      /\ req[r].redo => now.dbid = Pending /\ (due => HeldBy(req[r].old.dbid) = {})
      /\ ~req[r].redo => now.dbid = req[r].old.dbid
  BY <1>1 DEF Serial, Foreseen, Expected
<1>4. now # NoRow /\ now \in Row /\ req[r].redo \in BOOLEAN
  BY <1>1, <1>3 DEF Listed, IInv, Typed, DbType, Fitting, Request
<1>5. ~stale'
  BY <1>3, <1>4 DEF ModifyReread, Outdated, Serial
<1>6. CASE pc = "idle"
  <2>1. Finish(r)
    BY <1>6 DEF ModifyReread
  <2> QED
    BY <1>1, <1>2, <1>5, <2>1, SerialFinish
<1>7. CASE pc # "idle"
  <2> DEFINE q == [req[r] EXCEPT !.pc = pc, !.path = now.path]
  <2>1. req' = [req EXCEPT ![r].pc = pc, ![r].path = now.path]
    BY <1>7 DEF ModifyReread
  <2>2. pc \in {"mod_face", "mod_move"} /\ (pc = "mod_face" => del)
    BY <1>7
  <2>3. del => HeldBy(req[r].old.dbid) = {}
    BY <1>3, <1>4 DEF Users, Pending
  <2>4. req[r].id \in At(now.path)
    BY <1>3 DEF At
  <2> HIDE DEF now, del, pc
  <2>5. req' = [req EXCEPT ![r] = q]
    BY <2>1
  <2>6. q.pc = pc /\ q.path = now.path /\ q.old = req[r].old
    BY <1>1 DEF Fitting, Request
  <2>7. req'[r] = q
    BY <1>1, <2>5 DEF ReqType
  <2> HIDE DEF q
  <2>8. Expected(req[r])'
    BY <1>2, <2>2, <2>3, <2>4, <2>6, <2>7 DEF Expected, HeldBy, At, Listed
  <2> QED
    BY <1>1, <1>2, <1>5, <2>5, <2>8, SerialStep
<1> QED
  BY <1>6, <1>7

LEMMA SerialModifyFace ==
  ASSUME IInv, Facts, Serial, NEW r \in Requests, ModifyFace(r) PROVE Serial'
<1> DEFINE moved == req[r].path # req[r].old.path
           q == [req[r] EXCEPT !.pc = "mod_move"]
<1>1. req[r].pc = "mod_face" /\ ReqType /\ req[r] \in Fitting
  BY DEF ModifyFace, At_, IInv, Typed, ReqType
<1>2. tableUp /\ UNCHANGED <<faceList, tableUp, queue, worker>>
  BY <1>1, OthersIdle DEF ModifyFace, db
<1>3. HeldBy(req[r].old.dbid) = {} /\ At(req[r].path) # {}
  BY <1>1 DEF Serial, Foreseen, Expected
<1>4. ~stale'
  BY <1>3 DEF ModifyFace, Outdated, Serial
<1>5. CASE ~moved
  BY <1>1, <1>2, <1>4, <1>5, SerialFinish DEF ModifyFace
<1>6. CASE moved
  <2>1. req' = [req EXCEPT ![r] = q] /\ q.pc = "mod_move" /\ q.path = req[r].path /\ req'[r] = q
    BY <1>1, <1>6 DEF ModifyFace, Goto, ReqType, Fitting, Request
  <2> HIDE DEF q
  <2>2. Expected(req[r])'
    BY <1>2, <1>3, <2>1 DEF Expected, At, Listed
  <2> QED
    BY <1>1, <1>2, <1>4, <2>1, <2>2, SerialStep
<1> QED
  BY <1>5, <1>6

LEMMA SerialModifyMove ==
  ASSUME IInv, Facts, Serial, NEW r \in Requests, ModifyMove(r) PROVE Serial'
<1>1. req[r].pc = "mod_move" /\ ReqType
  BY DEF ModifyMove, At_, IInv, Typed
<1>2. tableUp /\ UNCHANGED <<faceList, tableUp, queue, worker>>
  BY <1>1, OthersIdle DEF ModifyMove, db
<1>3. At(req[r].path) # {}
  BY <1>1 DEF Serial, Foreseen, Expected
<1>4. ~stale'
  BY <1>3 DEF ModifyMove, Outdated, Serial
<1> QED
  BY <1>1, <1>2, <1>4, SerialFinish DEF ModifyMove

-----------------------------------------------------------------------------
(* DELETE event/face.                                                      *)

LEMMA SerialDeleteRead ==
  ASSUME IInv, Facts, Serial, Alone, NEW r \in Requests, DeleteRead(r) PROVE Serial'
<1>1. PICK i \in Listed :
        req' = [req EXCEPT ![r] = [Idle EXCEPT !.pc = "del_row", !.id = i,
                                            !.old = faceList[i]]]
  BY DEF DeleteRead
<1> DEFINE q == [Idle EXCEPT !.pc = "del_row", !.id = i, !.old = faceList[i]]
<1>2. req' = [req EXCEPT ![r] = q] /\ q.pc = "del_row" /\ q.id = i /\ q.old = faceList[i]
  BY <1>1 DEF Idle
<1> HIDE DEF q
<1>3. req'[r] = q /\ ReqType
  BY <1>2 DEF IInv, Typed, ReqType
<1>4. Settled /\ UNCHANGED <<faceList, tableUp, queue, worker, stale>> /\ req[r].pc = "idle"
  BY DEF DeleteRead, CanStart, db, Alone
<1>6. Expected(req[r])'
  BY <1>2, <1>3, <1>4 DEF Expected
<1> QED
  BY <1>2, <1>3, <1>4, <1>6, OthersIdle, SerialStep DEF Serial

\* The row is the only one at its path, and the only one with its face.
LEMMA SerialDeleteRow ==
  ASSUME IInv, Facts, Serial, NEW r \in Requests, DeleteRow(r) PROVE Serial'
<1> DEFINE i == req[r].id   old == req[r].old
           q == [req[r] EXCEPT !.pc = "del_unlink"]
<1>1. req[r].pc = "del_row" /\ ReqType /\ req[r] \in Fitting
  BY DEF DeleteRow, At_, IInv, Typed, ReqType
<1>2. i \in Ids /\ old \in Row
  BY <1>1 DEF Fitting, Request, NeedOld
<1>3. tableUp /\ faceList[i] = old /\ ~Clearing /\ UNCHANGED <<tableUp, queue, worker>>
  BY <1>1, OthersIdle DEF Serial, Foreseen, Expected, DeleteRow, DeleteRows
<1>4. ~stale'
  BY <1>3 DEF DeleteRow, Outdated, Serial
<1>5. /\ req' = [req EXCEPT ![r] = q] /\ q.pc = "del_unlink" /\ q.old = old /\ req'[r] = q
  BY <1>1 DEF DeleteRow, Goto, ReqType, Fitting, Request
<1> HIDE DEF q
<1>6. i \in Listed /\ i \in At(old.path)
  BY <1>2, <1>3, AbsentAssumption DEF Listed, At
<1>7. \A j \in Listed' : j \in Listed /\ j # i /\ faceList'[j] = faceList[j]
  BY <1>6 DEF DeleteRow, DeleteRows, Listed
<1>8. \A j \in Listed' : faceList'[j].path # old.path
  BY <1>3, <1>6, <1>7 DEF Facts, StoreFacts, OwnPath
<1>9. old.dbid \in Users => \A j \in Listed' : faceList'[j].dbid # old.dbid
  BY <1>3, <1>6, <1>7 DEF Facts, StoreFacts, Unshared
<1>10. Expected(req[r])'
  BY <1>5, <1>8, <1>9 DEF Expected, At, HeldBy
<1> QED
  BY <1>1, <1>3, <1>4, <1>5, <1>10, SerialStep

LEMMA SerialDeleteUnlink ==
  ASSUME IInv, Facts, Serial, NEW r \in Requests, DeleteUnlink(r) PROVE Serial'
<1> DEFINE q == [req[r] EXCEPT !.pc = "del_face"]
<1>1. req[r].pc = "del_unlink" /\ ReqType /\ req[r] \in Fitting
  BY DEF DeleteUnlink, At_, IInv, Typed, ReqType
<1>2. tableUp /\ UNCHANGED <<faceList, tableUp, queue, worker>>
  BY <1>1, OthersIdle DEF DeleteUnlink, db
<1>3. At(req[r].old.path) = {} /\ (req[r].old.dbid \in Users => HeldBy(req[r].old.dbid) = {})
  BY <1>1 DEF Serial, Foreseen, Expected
<1>4. ~stale'
  BY <1>3 DEF DeleteUnlink, Outdated, Serial
<1>5. CASE req[r].old.dbid \notin Users
  BY <1>1, <1>2, <1>4, <1>5, SerialFinish DEF DeleteUnlink
<1>6. CASE req[r].old.dbid \in Users
  <2>1. req' = [req EXCEPT ![r] = q] /\ q.pc = "del_face" /\ q.old = req[r].old /\ req'[r] = q
    BY <1>1, <1>6 DEF DeleteUnlink, Goto, ReqType, Fitting, Request
  <2> HIDE DEF q
  <2>2. Expected(req[r])'
    BY <1>2, <1>3, <1>6, <2>1 DEF Expected, HeldBy, Listed
  <2> QED
    BY <1>1, <1>2, <1>4, <2>1, <2>2, SerialStep
<1> QED
  BY <1>5, <1>6

LEMMA SerialDeleteFace ==
  ASSUME IInv, Facts, Serial, NEW r \in Requests, DeleteFace(r) PROVE Serial'
<1> DEFINE q == [req[r] EXCEPT !.pc = "del_find"]
<1>1. req[r].pc = "del_face" /\ ReqType /\ req[r] \in Fitting
  BY DEF DeleteFace, At_, IInv, Typed, ReqType
<1>2. tableUp /\ UNCHANGED <<faceList, tableUp, queue, worker>>
  BY <1>1, OthersIdle DEF DeleteFace, db
<1>3. HeldBy(req[r].old.dbid) = {}
  BY <1>1 DEF Serial, Foreseen, Expected
<1>4. ~stale'
  BY <1>3 DEF DeleteFace, Outdated, Serial
<1>5. req' = [req EXCEPT ![r] = q] /\ q.pc = "del_find" /\ q.old = req[r].old /\ req'[r] = q
  BY <1>1 DEF DeleteFace, Goto, ReqType, Fitting, Request
<1> HIDE DEF q
<1>6. req[r].old.dbid \notin Known'
  BY DEF DeleteFace, Forget, Known
<1>7. Expected(req[r])'
  BY <1>5, <1>6 DEF Expected
<1> QED
  BY <1>1, <1>2, <1>4, <1>5, <1>7, SerialStep

LEMMA SerialDeleteFindRecords ==
  ASSUME IInv, Facts, Serial, NEW r \in Requests, DeleteFindRecords(r) PROVE Serial'
<1> DEFINE q == [req[r] EXCEPT !.pc = "del_records"]
<1>1. req[r].pc = "del_find" /\ ReqType /\ req[r] \in Fitting
  BY DEF DeleteFindRecords, At_, IInv, Typed, ReqType
<1>2. tableUp /\ UNCHANGED <<tableUp, userDb, queue, worker>> /\ ~stale'
  BY <1>1, OthersIdle DEF DeleteFindRecords, db, Serial
<1>3. req[r].old.dbid \notin Known
  BY <1>1 DEF Serial, Foreseen, Expected
<1>5. CASE req[r].old.dbid \notin records
  BY <1>1, <1>2, <1>5, SerialFinish DEF DeleteFindRecords
<1>6. CASE req[r].old.dbid \in records
  <2>1. req' = [req EXCEPT ![r] = q] /\ q.pc = "del_records" /\ q.old = req[r].old /\ req'[r] = q
    BY <1>1, <1>6 DEF DeleteFindRecords, Goto, ReqType, Fitting, Request
  <2> HIDE DEF q
  <2>2. Expected(req[r])'
    BY <1>2, <1>3, <2>1 DEF Expected, Known
  <2> QED
    BY <1>1, <1>2, <2>1, <2>2, SerialStep
<1> QED
  BY <1>5, <1>6

LEMMA SerialDeleteRecords ==
  ASSUME IInv, Facts, Serial, NEW r \in Requests, DeleteRecords(r) PROVE Serial'
<1>1. req[r].pc = "del_records" /\ ReqType
  BY DEF DeleteRecords, At_, IInv, Typed
<1>2. tableUp /\ UNCHANGED <<tableUp, queue, worker>>
  BY <1>1, OthersIdle DEF DeleteRecords, db
<1>3. req[r].old.dbid \notin Known
  BY <1>1 DEF Serial, Foreseen, Expected
<1>4. ~stale'
  BY <1>3 DEF DeleteRecords, Outdated, Serial
<1> QED
  BY <1>1, <1>2, <1>4, SerialFinish DEF DeleteRecords
-----------------------------------------------------------------------------
(* PUT event/check-face.                                                   *)

LEMMA SerialCheckRead ==
  ASSUME IInv, Facts, Serial, Alone, NEW r \in Requests, CheckRead(r) PROVE Serial'
<1>1. PICK n \in Ids :
        req' = [req EXCEPT ![r] = [Idle EXCEPT !.pc = "chk_rows", !.id = n,
                   !.seen = PathsOf(Unloaded(n)), !.todo = PathsOf(Unloaded(n))]]
  BY DEF CheckRead
<1> DEFINE q == [Idle EXCEPT !.pc = "chk_rows", !.id = n,
                   !.seen = PathsOf(Unloaded(n)), !.todo = PathsOf(Unloaded(n))]
<1>2. req' = [req EXCEPT ![r] = q] /\ q.pc = "chk_rows" /\ q.id = n /\ q.seen = PathsOf(Unloaded(n))
  BY <1>1 DEF Idle
<1> HIDE DEF q
<1>3. req'[r] = q /\ ReqType
  BY <1>2 DEF IInv, Typed, ReqType
<1>4. Settled /\ UNCHANGED <<faceList, tableUp, queue, worker, stale>> /\ req[r].pc = "idle"
  BY DEF CheckRead, CanStart, db, Alone
<1>5. PathsOf(Unloaded(n))' = PathsOf(Unloaded(n))
  BY <1>4 DEF PathsOf, Unloaded, Listed
<1>6. Expected(req[r])'
  BY <1>2, <1>3, <1>5 DEF Expected
<1> QED
  BY <1>2, <1>3, <1>4, <1>6, OthersIdle, SerialStep DEF Serial

\* No row that stays has the path of one that goes.
LEMMA SerialCheckRows ==
  ASSUME IInv, Facts, Serial, NEW r \in Requests, CheckRows(r) PROVE Serial'
<1> DEFINE gone == Unloaded(req[r].id)
           q == [req[r] EXCEPT !.pc = "chk_unlink"]
<1>1. req[r].pc = "chk_rows" /\ ReqType /\ req[r] \in Fitting
  BY DEF CheckRows, At_, IInv, Typed, ReqType
<1>2. tableUp /\ UNCHANGED <<tableUp, queue, worker>>
  BY <1>1, OthersIdle DEF CheckRows, DeleteRows
<1>3. PathsOf(gone) = req[r].seen /\ req[r].todo = req[r].seen
  BY <1>1 DEF Serial, Foreseen, Expected, Facts, CheckWhole
<1>4. ~stale'
  BY <1>3 DEF CheckRows, Outdated, Serial
<1>5. CASE req[r].seen = {}
  BY <1>1, <1>2, <1>4, <1>5, SerialFinish DEF CheckRows
<1>6. CASE req[r].seen # {}
  <2>1. req' = [req EXCEPT ![r] = q] /\ q.pc = "chk_unlink" /\ q.todo = req[r].todo /\ req'[r] = q
    BY <1>1, <1>6 DEF CheckRows, Goto, ReqType, Fitting, Request
  <2> HIDE DEF q
  <2>2. \A j \in Listed' : j \in Listed /\ j \notin gone /\ faceList'[j] = faceList[j]
    BY DEF CheckRows, DeleteRows, Listed
  <2>3. \A p \in q.todo : At(p)' = {}
    <3> SUFFICES ASSUME NEW p \in q.todo, NEW j \in Listed', faceList'[j].path = p PROVE FALSE
      BY DEF At
    <3>1. PICK i \in gone : faceList[i].path = p
      BY <1>3, <2>1 DEF PathsOf
    <3>2. i \in Listed /\ j \in Listed /\ faceList[j].path = p /\ j # i
      BY <2>2, <3>1 DEF Unloaded
    <3> QED
      BY <3>1, <3>2 DEF Facts, StoreFacts, OwnPath
  <2>4. Expected(req[r])'
    BY <2>1, <2>3 DEF Expected
  <2> QED
    BY <1>1, <1>2, <1>4, <2>1, <2>4, SerialStep
<1> QED
  BY <1>5, <1>6

LEMMA SerialCheckUnlink ==
  ASSUME IInv, Facts, Serial, NEW r \in Requests, CheckUnlink(r) PROVE Serial'
<1>1. PICK p \in req[r].todo :
        /\ Outdated(At(p) # {})
        /\ IF req[r].todo = {p} THEN Finish(r) ELSE req' = [req EXCEPT ![r].todo = @ \ {p}]
  BY DEF CheckUnlink
<1> DEFINE q == [req[r] EXCEPT !.todo = @ \ {p}]
<1>2. req[r].pc = "chk_unlink" /\ ReqType /\ req[r] \in Fitting
  BY DEF CheckUnlink, At_, IInv, Typed, ReqType
<1>3. tableUp /\ UNCHANGED <<faceList, tableUp, queue, worker>>
  BY <1>2, OthersIdle DEF CheckUnlink, db
<1>4. \A x \in req[r].todo : At(x) = {}
  BY <1>2 DEF Serial, Foreseen, Expected
<1>5. ~stale'
  BY <1>1, <1>4 DEF Outdated, Serial
<1>6. CASE req[r].todo = {p}
  BY <1>1, <1>2, <1>3, <1>5, <1>6, SerialFinish
<1>7. CASE req[r].todo # {p}
  <2>1. req' = [req EXCEPT ![r] = q] /\ q.pc = "chk_unlink" /\ q.todo = req[r].todo \ {p} /\ req'[r] = q
    BY <1>1, <1>2, <1>7 DEF ReqType, Fitting, Request
  <2> HIDE DEF q
  <2>2. \A x \in q.todo : At(x)' = {}
    BY <1>3, <1>4, <2>1 DEF At, Listed
  <2>3. Expected(req[r])'
    BY <2>1, <2>2 DEF Expected
  <2> QED
    BY <1>2, <1>3, <1>5, <2>1, <2>3, SerialStep
<1> QED
  BY <1>6, <1>7

-----------------------------------------------------------------------------
(* PUT event/reset-face, and the control records.                          *)

LEMMA SerialResetRead ==
  ASSUME IInv, Facts, Serial, Alone, NEW r \in Requests, ResetRead(r) PROVE Serial'
<1> DEFINE found == PathsOf(Listed)
           q == [Idle EXCEPT !.seen = found, !.todo = found,
                   !.pc = IF found = {} THEN "rst_face" ELSE "rst_unlink"]
<1>1. /\ req' = [req EXCEPT ![r] = q] /\ q.seen = found /\ q.todo = found
      /\ q.pc \in {"rst_face", "rst_unlink"} /\ (q.pc = "rst_face" => found = {})
  BY DEF ResetRead, Idle
<1> HIDE DEF q
<1>3. req'[r] = q /\ ReqType
  BY <1>1 DEF IInv, Typed, ReqType
<1>4. Settled /\ UNCHANGED <<faceList, tableUp, queue, worker, stale>> /\ req[r].pc = "idle"
  BY DEF ResetRead, CanStart, db, Alone
<1>5. PathsOf(Listed)' = found
  BY <1>4 DEF PathsOf, Listed
<1>6. Expected(req[r])'
  BY <1>1, <1>3, <1>5 DEF Expected
<1> QED
  BY <1>1, <1>3, <1>4, <1>6, OthersIdle, SerialStep DEF Serial

LEMMA SerialResetUnlink ==
  ASSUME IInv, Facts, Serial, NEW r \in Requests, ResetUnlink(r) PROVE Serial'
<1>1. PICK p \in req[r].todo :
        /\ Unlink({p})
        /\ req' = [req EXCEPT ![r].todo = @ \ {p},
                              ![r].pc = IF req[r].todo = {p} THEN "rst_face" ELSE @]
  BY DEF ResetUnlink
<1> DEFINE q == [req[r] EXCEPT !.todo = @ \ {p},
                               !.pc = IF req[r].todo = {p} THEN "rst_face" ELSE @]
<1>2. req[r].pc = "rst_unlink" /\ ReqType /\ req[r] \in Fitting
  BY DEF ResetUnlink, At_, IInv, Typed, ReqType
<1>3. tableUp /\ UNCHANGED <<faceList, tableUp, queue, worker>> /\ ~stale'
  BY <1>2, OthersIdle DEF ResetUnlink, db, Serial
<1>4. /\ req[r].seen = PathsOf(Listed)
      /\ \A x \in req[r].seen \ req[r].todo : pictures[x] = NoPicture
      /\ req[r].seen \subseteq Paths
  BY <1>2 DEF Serial, Foreseen, Expected, Fitting, Request
<1>5. /\ req' = [req EXCEPT ![r] = q] /\ req'[r] = q
      /\ q.seen = req[r].seen /\ q.todo = req[r].todo \ {p}
      /\ q.pc \in {"rst_unlink", "rst_face"} /\ (q.pc = "rst_face" => req[r].todo = {p})
  BY <1>1, <1>2 DEF ReqType, Fitting, Request
<1> HIDE DEF q
<1>6. PathsOf(Listed)' = PathsOf(Listed)
  BY <1>3 DEF PathsOf, Listed
<1>7. \A x \in q.seen \ q.todo : pictures'[x] = NoPicture
  BY <1>1, <1>4, <1>5 DEF Unlink
<1>8. Expected(req[r])'
  BY <1>4, <1>5, <1>6, <1>7 DEF Expected
<1> QED
  BY <1>2, <1>3, <1>5, <1>8, SerialStep

LEMMA SerialResetFace ==
  ASSUME IInv, Facts, Serial, NEW r \in Requests, ResetFace(r) PROVE Serial'
<1> DEFINE q == [req[r] EXCEPT !.pc = "rst_rows"]
<1>1. req[r].pc = "rst_face" /\ ReqType /\ req[r] \in Fitting
  BY DEF ResetFace, At_, IInv, Typed, ReqType
<1>2. tableUp /\ UNCHANGED <<faceList, tableUp, pictures, queue, worker>> /\ ~stale'
  BY <1>1, OthersIdle DEF ResetFace, db, Serial
<1>3. req[r].seen = PathsOf(Listed) /\ \A x \in req[r].seen : pictures[x] = NoPicture
  BY <1>1 DEF Serial, Foreseen, Expected
<1>4. req' = [req EXCEPT ![r] = q] /\ q.pc = "rst_rows" /\ q.seen = req[r].seen /\ req'[r] = q
  BY <1>1 DEF ResetFace, Goto, ReqType, Fitting, Request
<1> HIDE DEF q
<1>5. PathsOf(Listed)' = PathsOf(Listed) /\ Known' = {}
  BY <1>2 DEF PathsOf, Listed, ResetFace, Forget, Known
<1>6. Expected(req[r])'
  BY <1>2, <1>3, <1>4, <1>5 DEF Expected
<1> QED
  BY <1>1, <1>2, <1>4, <1>6, SerialStep

LEMMA SerialResetRows ==
  ASSUME IInv, Facts, Serial, NEW r \in Requests, ResetRows(r) PROVE Serial'
<1> DEFINE q == [req[r] EXCEPT !.pc = "rst_drop"]
<1>1. req[r].pc = "rst_rows" /\ ReqType /\ req[r] \in Fitting
  BY DEF ResetRows, At_, IInv, Typed, ReqType
<1>2. tableUp /\ UNCHANGED <<tableUp, queue, worker>>
  BY <1>1, OthersIdle DEF ResetRows, DeleteRows
<1>3. /\ req[r].seen = PathsOf(Listed)
      /\ \A x \in req[r].seen : pictures[x] = NoPicture
      /\ Known = {}
  BY <1>1 DEF Serial, Foreseen, Expected
<1>4. ~stale'
  BY <1>3 DEF ResetRows, Outdated, Serial
<1>5. req' = [req EXCEPT ![r] = q] /\ q.pc = "rst_drop" /\ req'[r] = q
  BY <1>1 DEF ResetRows, Goto, ReqType, Fitting, Request
<1> HIDE DEF q
<1>6. Listed' = {}
  BY DEF ResetRows, DeleteRows, Listed
<1>7. Expected(req[r])'
  BY <1>5, <1>6 DEF Expected
<1> QED
  BY <1>1, <1>2, <1>4, <1>5, <1>7, SerialStep

LEMMA SerialResetDrop ==
  ASSUME IInv, Facts, Serial, NEW r \in Requests, ResetDrop(r) PROVE Serial'
<1> DEFINE q == [req[r] EXCEPT !.pc = "rst_create"]
<1>1. req[r].pc = "rst_drop" /\ ReqType /\ req[r] \in Fitting
  BY DEF ResetDrop, At_, IInv, Typed, ReqType
<1>2. Listed = {}
  BY <1>1 DEF Serial, Foreseen, Expected
<1>3. ~stale' /\ UNCHANGED <<queue, worker>>
  BY <1>2 DEF ResetDrop, Outdated, Serial
<1>4. req' = [req EXCEPT ![r] = q] /\ q.pc = "rst_create" /\ req'[r] = q
  BY <1>1 DEF ResetDrop, Goto, ReqType, Fitting, Request
<1> HIDE DEF q
<1>5. Listed' = {}
  BY DEF ResetDrop, Listed
<1>6. Expected(req[r])'
  BY <1>4, <1>5 DEF Expected
<1> QED
  BY <1>1, <1>3, <1>4, <1>6, SerialStep

LEMMA SerialResetCreate ==
  ASSUME IInv, Facts, Serial, NEW r \in Requests, ResetCreate(r) PROVE Serial'
<1> DEFINE q == [req[r] EXCEPT !.pc = "rst_records"]
<1>1. req[r].pc = "rst_create" /\ ReqType /\ req[r] \in Fitting
  BY DEF ResetCreate, At_, IInv, Typed, ReqType
<1>2. tableUp' /\ ~stale' /\ UNCHANGED <<queue, worker>>
  BY DEF ResetCreate, Serial
<1>3. req' = [req EXCEPT ![r] = q] /\ q.pc = "rst_records" /\ req'[r] = q
  BY <1>1 DEF ResetCreate, Goto, ReqType, Fitting, Request
<1> HIDE DEF q
<1>4. Expected(req[r])'
  BY <1>3 DEF Expected
<1> QED
  BY <1>1, <1>2, <1>3, <1>4, SerialStep

LEMMA SerialResetRecords ==
  ASSUME IInv, Facts, Serial, Alone, NEW r \in Requests, ResetRecords(r) PROVE Serial'
<1>1. /\ req[r].pc = "rst_records" \/ (req[r].pc = "idle" /\ Settled)
      /\ ReqType /\ UNCHANGED <<tableUp, queue, worker>> /\ ~stale'
  BY DEF ResetRecords, At_, CanStart, Alone, db, IInv, Typed, Serial
<1>2. tableUp'
  BY <1>1, OthersIdle
<1> QED
  BY <1>1, <1>2, SerialFinish DEF ResetRecords

\* A step that starts and ends a request, and touches neither table nor faces nor
\* thread, keeps everything.
LEMMA SerialQuiet ==
  ASSUME Serial, AllIdle, Watching, UNCHANGED <<tableUp, req, queue, worker>>, ~stale'
  PROVE  Serial'
<1>1. AllIdle' /\ Foreseen'
  BY DEF AllIdle, Foreseen, Expected
<1>2. OneAtATime' /\ TableThere' /\ ~stale'
  BY DEF Serial, OneAtATime, TableThere
<1>3. OnePicture'
  BY DEF OnePicture, Watching
<1> QED
  BY <1>1, <1>2, <1>3 DEF Serial

LEMMA SerialDeleteOneRecord ==
  ASSUME IInv, Facts, Serial, Alone, NEW r \in Requests, DeleteOneRecord(r) PROVE Serial'
  BY SerialQuiet DEF DeleteOneRecord, CanStart, Alone, Settled, AllIdle, Watching, db, Serial

\* The one client overwrites a member's picture.
LEMMA SerialCopyPicture ==
  ASSUME IInv, Facts, Serial, Alone, NEW r \in Requests, CopyPicture(r) PROVE Serial'
<1>1. ~stale'
  BY DEF CopyPicture, Outdated, Alone, Serial
<1> QED
  BY <1>1, SerialQuiet DEF CopyPicture, CanStart, Alone, Settled, AllIdle, Watching, db
-----------------------------------------------------------------------------
(* PUT event/face-picture: from the upload to the report.                  *)

\* The table tells no two rows apart that share a path.
LEMMA OnlyRowAt ==
  ASSUME Facts, NEW p, NEW i \in At(p) PROVE At(p) = {i}
  BY DEF Facts, StoreFacts, OwnPath, At

\* The one client uploads the picture of a row that waits for it, and by their
\* paths no other row does.
LEMMA SerialUploadWrite ==
  ASSUME IInv, Facts, Serial, Alone, NEW r \in Requests, UploadWrite(r) PROVE Serial'
<1>1. PICK p \in Paths, c \in Content :
        /\ \E i \in At(p) : faceList[i].dbid \notin Users
        /\ Outdated(At(p) = {})
        /\ req' = [req EXCEPT ![r] = [Idle EXCEPT !.pc = "up_lookup", !.path = p]]
  BY DEF UploadWrite, Alone
<1> DEFINE q == [Idle EXCEPT !.pc = "up_lookup", !.path = p]
<1>2. req' = [req EXCEPT ![r] = q] /\ q.pc = "up_lookup" /\ q.path = p
  BY <1>1 DEF Idle
<1> HIDE DEF q
<1>3. req'[r] = q /\ ReqType
  BY <1>2 DEF IInv, Typed, ReqType
<1>4. Settled /\ UNCHANGED <<faceList, tableUp, queue, worker>> /\ req[r].pc = "idle"
  BY DEF UploadWrite, CanStart, db, Alone
<1>5. PICK i \in At(p) : faceList[i].dbid \notin Users
  BY <1>1
<1>6. At(p) = {i}
  BY OnlyRowAt
<1>7. At(p)' = At(p)
  BY <1>4 DEF At, Listed
<1>8. Waiting(p)'
  BY <1>4, <1>5, <1>6, <1>7 DEF Waiting
<1>9. Expected(req[r])'
  BY <1>2, <1>3, <1>8 DEF Expected, Waiting
<1>10. ~stale'
  BY <1>1, <1>6 DEF Outdated, Serial
<1>11. tableUp'
  BY <1>4, OthersIdle
<1> QED
  BY <1>2, <1>3, <1>4, <1>9, <1>10, <1>11, SerialStep

LEMMA SerialUploadLookup ==
  ASSUME IInv, Facts, Serial, NEW r \in Requests, UploadLookup(r) PROVE Serial'
<1> DEFINE q == [req[r] EXCEPT !.pc = "up_push"]
<1>1. req[r].pc = "up_lookup" /\ ReqType /\ req[r] \in Fitting
  BY DEF UploadLookup, At_, IInv, Typed, ReqType
<1>2. tableUp /\ UNCHANGED <<faceList, tableUp, queue, worker>> /\ ~stale'
  BY <1>1, OthersIdle DEF UploadLookup, db, Serial
<1>3. Waiting(req[r].path)
  BY <1>1 DEF Serial, Foreseen, Expected
<1>4. req' = [req EXCEPT ![r] = q] /\ q.pc = "up_push" /\ q.path = req[r].path /\ req'[r] = q
  BY <1>1, <1>3 DEF UploadLookup, Goto, ReqType, Fitting, Request, Waiting
<1> HIDE DEF q
<1>5. Expected(req[r])'
  BY <1>2, <1>3, <1>4 DEF Expected, Waiting, At, Listed
<1> QED
  BY <1>1, <1>2, <1>4, <1>5, SerialStep

LEMMA SerialUploadPush ==
  ASSUME IInv, Facts, Serial, NEW r \in Requests, UploadPush(r) PROVE Serial'
<1>1. req[r].pc = "up_push" /\ ReqType /\ req[r] \in Fitting
  BY DEF UploadPush, At_, IInv, Typed, ReqType
<1>2. /\ \A s \in Requests \ {r} : req[s].pc = "idle"
      /\ Watching /\ tableUp /\ UNCHANGED <<faceList, tableUp, worker>> /\ ~stale'
  BY <1>1, OthersIdle DEF UploadPush, db, Serial
<1>3. Waiting(req[r].path)
  BY <1>1 DEF Serial, Foreseen, Expected
<1>4. AllIdle'
  BY <1>1, <1>2 DEF UploadPush, Finish, ReqType, AllIdle, Idle
<1>5. Foreseen'
  BY <1>4 DEF AllIdle, Foreseen, Expected
<1>6. OneAtATime' /\ TableThere'
  BY <1>2, <1>4 DEF AllIdle, OneAtATime, TableThere
<1>7. Len(queue') = 1 /\ Head(queue') = req[r].path
  BY <1>2 DEF UploadPush, Watching
<1>9. Waiting(Head(queue))'
  BY <1>2, <1>3, <1>7 DEF Waiting, At, Listed
<1>10. OnePicture'
  BY <1>2, <1>4, <1>7, <1>9 DEF OnePicture, Watching
<1> QED
  BY <1>2, <1>5, <1>6, <1>10 DEF Serial

\* While the thread has a picture in hand no request runs.
LEMMA SerialThread ==
  ASSUME Serial, AllIdle, UNCHANGED req, ~stale', tableUp', OnePicture' PROVE Serial'
<1>1. AllIdle' /\ Foreseen'
  BY DEF AllIdle, Foreseen, Expected
<1> QED
  BY <1>1 DEF Serial, AllIdle, OneAtATime, TableThere

LEMMA SerialWorkerRead ==
  ASSUME IInv, Facts, Serial, WorkerRead PROVE Serial'
<1>8. queue # <<>>
  BY DEF WorkerRead, IInv, Typed, RestType, FeedType
<1>1. AllIdle /\ Len(queue) = 1 /\ Waiting(Head(queue)) /\ tableUp
  BY <1>8 DEF WorkerRead, Serial, OnePicture, Watching, AllIdle, TableThere
<1>2. UNCHANGED <<faceList, tableUp, req>> /\ ~stale'
  BY DEF WorkerRead, db, Serial
<1>3. queue' = <<>>
  <2>1. queue \in Seq(Paths)
    BY DEF IInv, Typed, RestType, FeedType
  <2>2. queue' = Tail(queue)
    BY DEF WorkerRead
  <2> QED
    BY <1>1, <2>1, <2>2
<1>4. worker'.stage = "idle" \/ (worker'.stage = "read" /\ worker'.path = Head(queue))
  BY DEF WorkerRead, Resting
<1>5. worker'.stage \in {"read", "new", "report"} => Waiting(worker.path)'
  BY <1>1, <1>2, <1>4 DEF Waiting, At, Listed
<1>6. AllIdle'
  BY <1>1, <1>2 DEF AllIdle
<1>7. OnePicture'
  BY <1>3, <1>4, <1>5, <1>6 DEF OnePicture
<1> QED
  BY <1>1, <1>2, <1>7, SerialThread

\* The thread at work: no request runs, the queue is empty, its row waits.
LEMMA AtWork ==
  ASSUME Serial, worker.stage \in {"read", "new", "report"}
  PROVE  /\ AllIdle /\ tableUp /\ queue = <<>> /\ Waiting(worker.path)
         /\ worker.stage = "report" /\ worker.user \in Users => worker.user \in Known
  BY DEF Serial, OnePicture, Watching, AllIdle, TableThere

LEMMA SerialWorkerCompare ==
  ASSUME IInv, Facts, Serial, WorkerCompare PROVE Serial'
<1>1. AllIdle /\ tableUp /\ queue = <<>> /\ Waiting(worker.path) /\ worker.user = Never
  BY AtWork DEF WorkerCompare, Facts, StoreFacts, Blank
<1>2. UNCHANGED <<faceList, tableUp, req, queue>> /\ ~stale'
  BY DEF WorkerCompare, db, Serial
<1>3. worker' = [worker EXCEPT !.stage = "report"] \/ worker' = [worker EXCEPT !.stage = "new"]
  BY DEF WorkerCompare
<1>4. worker'.user = worker.user /\ worker'.path = worker.path /\ worker' \in Worker
  BY <1>3 DEF IInv, Typed, WorkType, Holding, Worker
<1>5. Waiting(worker.path)'
  BY <1>1, <1>2, <1>4 DEF Waiting, At, Listed
<1>6. worker'.user \notin Users
  BY <1>1, <1>4 DEF Users, Never
<1>7. OnePicture'
  BY <1>1, <1>2, <1>5, <1>6 DEF OnePicture, AllIdle
<1> QED
  BY <1>1, <1>2, <1>7, SerialThread

LEMMA SerialWorkerRegister ==
  ASSUME IInv, Facts, Serial, WorkerRegister PROVE Serial'
<1>1. AllIdle /\ tableUp /\ queue = <<>> /\ Waiting(worker.path) /\ worker.user = Never
  BY AtWork DEF WorkerRegister, Facts, StoreFacts, Blank
<1>2. UNCHANGED <<faceList, tableUp, req, queue>> /\ ~stale'
  BY DEF WorkerRegister, db, Serial
<1>3. worker \in Worker /\ worker.face \in Persons /\ userDb \in [Users -> Persons \cup {NoPerson}]
  BY DEF WorkerRegister, IInv, Typed, WorkType, Holding, FaceType
<1>4. worker'.path = worker.path /\ (worker'.user \in Users => worker'.user \in Known')
  <2>1. CASE worker' = [worker EXCEPT !.stage = "report"]
    BY <1>1, <1>3, <2>1 DEF Worker, Users, Never
  <2>2. CASE \E u \in Users : /\ userDb' = [userDb EXCEPT ![u] = worker.face]
                              /\ worker' = [worker EXCEPT !.stage = "report", !.user = u]
    <3>1. PICK u \in Users : /\ userDb' = [userDb EXCEPT ![u] = worker.face]
                             /\ worker' = [worker EXCEPT !.stage = "report", !.user = u]
      BY <2>2
    <3>2. worker'.path = worker.path /\ worker'.user = u
      BY <1>3, <3>1 DEF Worker
    <3>3. userDb'[u] # NoPerson
      BY <1>3, <3>1, AbsentAssumption
    <3> QED
      BY <3>2, <3>3 DEF Known
  <2> QED
    BY <2>1, <2>2 DEF WorkerRegister
<1>5. Waiting(worker.path)'
  BY <1>1, <1>2, <1>4 DEF Waiting, At, Listed
<1>6. OnePicture'
  BY <1>1, <1>2, <1>4, <1>5 DEF OnePicture, AllIdle
<1> QED
  BY <1>1, <1>2, <1>6, SerialThread

\* The report finds one row, still waiting, and its face still known.
LEMMA SerialWorkerReport ==
  ASSUME IInv, Facts, Serial, WorkerReport PROVE Serial'
<1> DEFINE p == worker.path
<1>1. /\ AllIdle /\ tableUp /\ queue = <<>> /\ Waiting(p)
      /\ worker.user \in Users => worker.user \in Known
  BY AtWork DEF WorkerReport
<1>2. PICK i : At(p) = {i}
  BY <1>1, OnlyRowAt DEF Waiting
<1>3. Cardinality(At(p)) = 1
  BY <1>2, FS_Singleton
<1>4. ~stale'
  BY <1>1, <1>3 DEF WorkerReport, Outdated, Waiting, Serial
<1>5. UNCHANGED <<tableUp, req, queue>> /\ worker'.stage = "idle"
  BY <1>1 DEF WorkerReport, SetByPath, Put, Resting
<1>6. OnePicture'
  BY <1>1, <1>5 DEF OnePicture, AllIdle
<1> QED
  BY <1>1, <1>4, <1>5, <1>6, SerialThread

\* Watching the door is nothing a handler waits for.
LEMMA SerialWatch ==
  ASSUME Serial, UNCHANGED <<db, pictures, userDb, queue, req, stale>>,
         worker.stage \in {"idle", "match"}, worker'.stage \in {"idle", "match"}
  PROVE  Serial'
<1>2. Foreseen'
  <2> SUFFICES ASSUME NEW s \in Requests PROVE Expected(req[s])'
    BY DEF Foreseen
  <2>1. Expected(req[s])
    BY DEF Serial, Foreseen
  <2> QED
    BY <2>1 DEF Expected, Waiting, At, HeldBy, Listed, Known, PathsOf, Unloaded, db
<1>3. OnePicture'
  <2>1. AllIdle' = AllIdle /\ Waiting(Head(queue))' = Waiting(Head(queue))
    BY DEF AllIdle, Waiting, At, Listed, db
  <2> QED
    BY <2>1 DEF Serial, OnePicture, Watching
<1> QED
  BY <1>2, <1>3 DEF Serial, OneAtATime, TableThere, db

LEMMA SerialWorkerMatch ==
  ASSUME IInv, Facts, Serial, WorkerMatch PROVE Serial'
<1>1. worker'.stage = "match"
  BY DEF WorkerMatch, Resting
<1> QED
  BY <1>1, SerialWatch DEF WorkerMatch

LEMMA SerialWorkerRecord ==
  ASSUME IInv, Facts, Serial, WorkerRecord PROVE Serial'
  BY SerialWatch DEF WorkerRecord, Resting

LEMMA SerialStutter ==
  ASSUME Serial, UNCHANGED <<db, pictures, userDb, queue, worker, req, stale>> PROVE Serial'
<1>1. Foreseen' = Foreseen
  BY DEF Foreseen, Expected, Waiting, At, HeldBy, Listed, Known, PathsOf, Unloaded, db
<1>2. OnePicture' = OnePicture
  BY DEF OnePicture, AllIdle, Watching, Waiting, At, Listed, Known, db
<1> QED
  BY <1>1, <1>2 DEF Serial, OneAtATime, TableThere, db

\* Every step of a lone client and of the recogniser is one that was foreseen.
LEMMA SerialNext ==
  ASSUME IInv, Facts, Serial, Alone, [Next]_vars PROVE Serial'
<1>1. CASE \E r \in Requests : Handler(r)
  BY <1>1, SerialAddRead, SerialAddSet, SerialModifyRead, SerialModifySet, SerialModifyReread,
     SerialModifyFace, SerialModifyMove, SerialDeleteRead, SerialDeleteRow, SerialDeleteUnlink,
     SerialDeleteFace, SerialDeleteFindRecords, SerialDeleteRecords, SerialCheckRead,
     SerialCheckRows, SerialCheckUnlink, SerialResetRead, SerialResetUnlink, SerialResetFace,
     SerialResetRows, SerialResetDrop, SerialResetCreate, SerialResetRecords,
     SerialDeleteOneRecord, SerialUploadWrite, SerialUploadLookup, SerialUploadPush,
     SerialCopyPicture DEF Handler
<1>5. SendInput \/ Switch => Serial'
  BY SerialStutter DEF SendInput, Switch
<1>2. CASE Recogniser
  BY <1>2, <1>5, SerialWorkerRead, SerialWorkerCompare, SerialWorkerRegister, SerialWorkerReport,
     SerialWorkerMatch, SerialWorkerRecord DEF Recogniser
<1>3. CASE Reboot
  BY <1>3 DEF Reboot, Alone
<1>4. CASE UNCHANGED vars
  BY <1>4, SerialStutter DEF vars, db
<1> QED
  BY <1>1, <1>2, <1>3, <1>4, <1>5 DEF Next

\* All three invariants hold together for one client.
LEMMA OneClientSerial ==
  ASSUME ~Overlap, "reboot" \notin Ops PROVE Spec => [](IInv /\ Facts /\ Serial)
<1> DEFINE SerialInv == IInv /\ Facts /\ Serial
<1>1. Init => SerialInv
  BY InitInv, InitFacts, InitSerial
<1>2. SerialInv /\ [Next]_vars => SerialInv'
  <2> SUFFICES ASSUME SerialInv, [Next]_vars PROVE SerialInv'
    OBVIOUS
  <2>1. Serial'
    BY SerialNext DEF Alone
  <2>2. ~stale'
    BY <2>1 DEF Serial
  <2> QED
    BY <2>1, <2>2, InvStep, FactsStep
<1> QED
  BY <1>1, <1>2, PTL DEF Spec

\* One client at a time, which waits for the recogniser, and no power cut: no step of
\* the handlers of event_api.cpp or of the recogniser's report ever acts on what is no
\* longer true, however many processes, members, labels, persons and pictures there
\* are.  What goes wrong with the face list goes wrong because requests overlap.
THEOREM OneClientNeverStale ==
  ASSUME ~Overlap, "reboot" \notin Ops PROVE Spec => []NeverStale
<1>1. IInv /\ Facts /\ Serial => NeverStale
  BY DEF Serial, NeverStale
<1> QED
  BY <1>1, OneClientSerial, PTL
-----------------------------------------------------------------------------
(* The refinement.  What one client does to the four stores implements       *)
(* MemberList.                                                             *)

PromiseStep == [Promise!Next]_<<members, door>>

LEMMA InitPromise == Init => Promise!Init
<1> SUFFICES ASSUME Init PROVE Promise!Init
  OBVIOUS
<1>1. Listed = {} /\ Known = {}
  BY DEF Init, Listed, Known
<1>2. Shown = {}
  BY <1>1 DEF Shown
<1> QED
  BY <1>1, <1>2 DEF Promise!Init, Promise!OnList, members, door

\* What the list shows of a row.
LEMMA View ==
  ASSUME ~Clearing
  PROVE  /\ Shown = Listed /\ Promise!OnList = Listed
         /\ \A i \in Listed : /\ members[i] = [label |-> faceList[i].path[1], face |-> FaceOf(i)]
                               /\ members[i].label = faceList[i].path[1]
                               /\ members[i].face = FaceOf(i)
<1>1. Shown = Listed
  BY DEF Shown, Clearing, Step
<1>2. \A i \in Listed : members[i] = [label |-> faceList[i].path[1], face |-> FaceOf(i)]
  BY <1>1 DEF members
<1> QED
  BY <1>1, <1>2 DEF Promise!OnList, members

\* When neither the thread nor a request has a face in hand, list and door agree.
LEMMA InAgreement ==
  ASSUME IInv, Facts, ~Clearing, worker.stage # "report",
         \A s \in Requests, u \in Users : ~CoversFace(req[s], u)
  PROVE  Promise!Agree
<1>1. Promise!Faces = {FaceOf(i) : i \in Listed} \ {NoPerson}
  <2>1. Promise!OnList = Listed /\ \A i \in Listed : members[i].face = FaceOf(i)
    BY View
  <2>2. {members[i].face : i \in Promise!OnList} = {FaceOf(i) : i \in Listed}
    BY <2>1
  <2> QED
    BY <2>2 DEF Promise!Faces
<1>2. ASSUME NEW u \in Known PROVE userDb[u] \in Promise!Faces
  <2>1. PICK i \in Listed : faceList[i].dbid = u
    BY DEF Facts, FacesCovered, Reporting, Known, HeldBy
  <2>2. FaceOf(i) = userDb[u] /\ userDb[u] # NoPerson
    BY <2>1 DEF FaceOf, Known
  <2> QED
    BY <1>1, <2>1, <2>2
<1>3. ASSUME NEW i \in Listed, FaceOf(i) # NoPerson PROVE FaceOf(i) \in door
  BY <1>3 DEF FaceOf, Known, door
<1> QED
  BY <1>1, <1>2, <1>3 DEF Promise!Agree, door

\* While the one request has not yet taken a face off the list, they agree.
LEMMA BeforeTheStep ==
  ASSUME IInv, Facts, Serial, NEW r \in Requests,
         req[r].pc \in {"add_set", "mod_set", "del_row", "chk_rows", "rst_face"}
  PROVE  ~Clearing /\ Promise!Agree
<1>1. ~Clearing /\ Watching /\ \A s \in Requests \ {r} : req[s].pc = "idle"
  BY OthersIdle
<1>2. \A s \in Requests, u \in Users : ~CoversFace(req[s], u)
  BY <1>1 DEF CoversFace
<1> QED
  BY <1>1, <1>2, InAgreement DEF Watching

\* While no request runs and the thread has not learned a face, they agree.
LEMMA BetweenRequests ==
  ASSUME IInv, Facts, AllIdle, worker.stage # "report" PROVE ~Clearing /\ Promise!Agree
<1>1. ~Clearing
  BY DEF AllIdle, Clearing
<1>2. \A s \in Requests, u \in Users : ~CoversFace(req[s], u)
  BY DEF AllIdle, CoversFace
<1> QED
  BY <1>1, <1>2, InAgreement

\* What is not seen: the rows show what they showed, and so does the recogniser.
LEMMA Unseen ==
  ASSUME Clearing' <=> Clearing, UNCHANGED userDb, Listed' = Listed,
         \A i \in Listed : /\ faceList'[i].path = faceList[i].path
                           /\ FaceOf(i)' = FaceOf(i)
  PROVE  PromiseStep
<1>1. Shown' = Shown /\ Shown \subseteq Listed
  BY DEF Shown, Clearing, Step
<1>2. members' = members
  BY <1>1 DEF members
<1>3. door' = door
  BY DEF door, Known
<1> QED
  BY <1>2, <1>3 DEF PromiseStep

LEMMA UnseenQuiet ==
  ASSUME Clearing' <=> Clearing, UNCHANGED <<faceList, userDb>> PROVE PromiseStep
<1>1. Listed' = Listed /\ \A i \in Listed : FaceOf(i)' = FaceOf(i)
  BY DEF Listed, FaceOf
<1> QED
  BY <1>1, Unseen

\* A row that was written is an entry of the list.
LEMMA EntryMade ==
  ASSUME ~Clearing, ~Clearing', UNCHANGED userDb, NEW i \in Ids, Listed' = Listed \cup {i},
         \A j \in Listed \ {i} : faceList'[j] = faceList[j],
         NEW l, faceList'[i].path[1] = l, NEW f, FaceOf(i)' = f
  PROVE  Promise!Entry(i, [label |-> l, face |-> f]) /\ UNCHANGED door
<1>1. Shown' = Listed \cup {i} /\ Promise!OnList = Listed
  BY View DEF Shown, Clearing, Step
<1>2. \A j \in Listed \ {i} : FaceOf(j)' = FaceOf(j)
  BY DEF FaceOf
<1>3. members' = [j \in Listed \cup {i} |->
                   IF j = i THEN [label |-> l, face |-> f] ELSE members[j]]
  BY <1>1, <1>2, View DEF members
<1>4. UNCHANGED door
  BY DEF door, Known
<1> QED
  BY <1>1, <1>3, <1>4 DEF Promise!Entry

\* Rows that were deleted are entries that have gone.
LEMMA EntriesGone ==
  ASSUME ~Clearing, ~Clearing', UNCHANGED userDb, NEW S, Listed' = Listed \ S,
         \A j \in Listed' : faceList'[j] = faceList[j]
  PROVE  members' = Promise!Only(Promise!OnList \ S) /\ UNCHANGED door
<1>1. Shown' = Listed \ S /\ Promise!OnList = Listed
  BY View DEF Shown, Clearing, Step
<1>2. \A j \in Listed \ S : FaceOf(j)' = FaceOf(j)
  BY DEF FaceOf
<1>3. members' = [j \in Listed \ S |-> members[j]]
  BY <1>1, <1>2, View DEF members
<1>4. UNCHANGED door
  BY DEF door, Known
<1> QED
  BY <1>1, <1>3, <1>4 DEF Promise!Only

\* Where the request goes decides whether a reset is clearing.
LEMMA ClearingAfter ==
  ASSUME ReqType, Serial, NEW r \in Requests, NEW q, req' = [req EXCEPT ![r] = q],
         req[r].pc # "idle" \/ Settled
  PROVE  Clearing' <=> q.pc = "rst_rows"
<1>1. req'[r] = q /\ \A s \in Requests \ {r} : req'[s] = req[s] /\ req[s].pc = "idle"
  BY OthersIdle DEF ReqType
<1> QED
  BY <1>1 DEF Clearing

LEMMA SeenAddSet ==
  ASSUME IInv, Facts, Serial, NEW r \in Requests, AddSet(r) PROVE PromiseStep
<1>1. req[r].pc = "add_set" /\ ReqType /\ req[r] \in Fitting
  BY DEF AddSet, At_, IInv, Typed, ReqType
<1>2. PICK i \in Ids, l \in Labels, redo \in BOOLEAN :
        i = req[r].id /\ l = req[r].label /\ redo = req[r].redo
  BY <1>1 DEF Fitting, Request, NeedLabel
<1>3. tableUp /\ faceList[i] = NoRow
  BY <1>1, <1>2, OthersIdle DEF Serial, Foreseen, Expected
<1>4. ~Clearing /\ Promise!Agree
  BY <1>1, BeforeTheStep
<1>5. ~Clearing'
  <2>1. req' = [req EXCEPT ![r] = Idle] /\ Idle.pc = "idle"
    BY DEF AddSet, Finish, Idle
  <2> QED
    BY <1>1, <2>1, ClearingAfter
<1>6. SetRow(i, l, redo) /\ UNCHANGED userDb
  BY <1>2 DEF AddSet
<1>7. i \in Listed' /\ faceList'[i].path = <<l, i>> /\ \A j \in Ids \ {i} : faceList'[j] = faceList[j]
  BY <1>3, <1>6, SetRowFacts DEF Facts
<1>8. FewerFaces /\ i \notin Listed
  BY <1>3, <1>6, SetRowFacts DEF Facts, Listed
<1>9. FaceOf(i)' = NoPerson
  BY <1>7, <1>8 DEF FewerFaces, FaceOf
<1>10. Listed' = Listed \cup {i} /\ \A j \in Listed \ {i} : faceList'[j] = faceList[j]
  BY <1>7 DEF Listed
<1>11. Promise!Entry(i, [label |-> l, face |-> NoPerson]) /\ UNCHANGED door
  BY <1>4, <1>5, <1>6, <1>7, <1>9, <1>10, EntryMade
<1>12. Promise!Add(i, l)
  BY <1>4, <1>8, <1>11, View DEF Promise!Add
<1> QED
  BY <1>4, <1>12 DEF PromiseStep, Promise!Next, Promise!Begin

LEMMA SeenModifySet ==
  ASSUME IInv, Facts, Serial, NEW r \in Requests, ModifySet(r) PROVE PromiseStep
<1> DEFINE q == [req[r] EXCEPT !.pc = "mod_reread"]
<1>1. req[r].pc = "mod_set" /\ ReqType /\ req[r] \in Fitting
  BY DEF ModifySet, At_, IInv, Typed, ReqType
<1>2. PICK i \in Ids, l \in Labels, redo \in BOOLEAN :
        i = req[r].id /\ l = req[r].label /\ redo = req[r].redo
  BY <1>1 DEF Fitting, Request, NeedLabel
<1>3. tableUp /\ faceList[i] = req[r].old /\ req[r].old \in Row
  BY <1>1, <1>2, OthersIdle DEF Serial, Foreseen, Expected, Fitting, NeedOld
<1>4. ~Clearing /\ Promise!Agree
  BY <1>1, BeforeTheStep
<1>5. ~Clearing'
  <2>1. req' = [req EXCEPT ![r] = q] /\ q.pc = "mod_reread"
    BY <1>1 DEF ModifySet, Goto, Fitting, Request
  <2> HIDE DEF q
  <2> QED
    BY <1>1, <2>1, ClearingAfter
<1>6. SetRow(i, l, redo) /\ UNCHANGED userDb
  BY <1>2 DEF ModifySet
<1>7. i \in Listed' /\ faceList'[i].path = <<l, i>> /\ \A j \in Ids \ {i} : faceList'[j] = faceList[j]
  BY <1>3, <1>6, SetRowFacts DEF Facts
<1>8. i \in Listed /\ faceList[i] # NoRow
  BY <1>3, AbsentAssumption DEF Listed
<1>9. FaceOf(i)' \in {NoPerson, FaceOf(i)}
  <2>1. CASE redo
    <3>1. faceList' = [faceList EXCEPT ![i] = [path |-> <<l, i>>, dbid |-> Pending,
             loaded |-> IF faceList[i] = NoRow THEN FALSE ELSE faceList[i].loaded]]
      BY <1>3, <1>6, <2>1 DEF SetRow, Put
    <3>2. faceList'[i].dbid = Pending
      BY <3>1 DEF IInv, Typed, DbType
    <3> QED
      BY <3>2 DEF FaceOf, Users, Pending
  <2>2. CASE ~redo
    <3>1. faceList'[i].dbid = faceList[i].dbid
      BY <1>3, <1>6, <1>8, <2>2, SetRowFacts DEF Facts
    <3> QED
      BY <1>6, <3>1 DEF FaceOf
  <2> QED
    BY <2>1, <2>2
<1>10. Listed' = Listed \cup {i} /\ \A j \in Listed \ {i} : faceList'[j] = faceList[j]
  BY <1>7 DEF Listed
<1>11. PICK f : f = FaceOf(i)'
  OBVIOUS
<1>12. Promise!Entry(i, [label |-> l, face |-> f]) /\ UNCHANGED door
  BY <1>4, <1>5, <1>6, <1>7, <1>10, <1>11, EntryMade
<1>13. f \in {NoPerson, members[i].face} /\ i \in Promise!OnList
  BY <1>4, <1>8, <1>9, <1>11, View
<1>14. Promise!Modify(i, l)
  BY <1>12, <1>13 DEF Promise!Modify
<1> QED
  BY <1>4, <1>14 DEF PromiseStep, Promise!Next, Promise!Begin

LEMMA SeenDeleteRow ==
  ASSUME IInv, Facts, Serial, NEW r \in Requests, DeleteRow(r) PROVE PromiseStep
<1> DEFINE q == [req[r] EXCEPT !.pc = "del_unlink"]
<1>1. req[r].pc = "del_row" /\ ReqType /\ req[r] \in Fitting
  BY DEF DeleteRow, At_, IInv, Typed, ReqType
<1>2. PICK i \in Ids : i = req[r].id
  BY <1>1 DEF Fitting, Request
<1>3. faceList[i] = req[r].old /\ req[r].old \in Row
  BY <1>1, <1>2 DEF Serial, Foreseen, Expected, Fitting, NeedOld
<1>4. ~Clearing /\ Promise!Agree
  BY <1>1, BeforeTheStep
<1>5. ~Clearing'
  <2>1. req' = [req EXCEPT ![r] = q] /\ q.pc = "del_unlink"
    BY <1>1 DEF DeleteRow, Goto, Fitting, Request
  <2> HIDE DEF q
  <2> QED
    BY <1>1, <2>1, ClearingAfter
<1>6. i \in Listed /\ i \in At(req[r].old.path)
  BY <1>3, AbsentAssumption DEF Listed, At
<1>7. DeleteRows({i}) /\ UNCHANGED userDb
  <2>1. {i} \cap At(req[r].old.path) = {i}
    BY <1>6
  <2> QED
    BY <1>2, <2>1 DEF DeleteRow
<1>8. Listed' = Listed \ {i} /\ \A j \in Listed' : faceList'[j] = faceList[j]
  BY <1>7 DEF DeleteRows, Listed
<1>9. Promise!Delete(i)
  BY <1>4, <1>5, <1>6, <1>7, <1>8, EntriesGone, View DEF Promise!Delete
<1> QED
  BY <1>4, <1>9 DEF PromiseStep, Promise!Next, Promise!Begin

LEMMA SeenCheckRows ==
  ASSUME IInv, Facts, Serial, NEW r \in Requests, CheckRows(r) PROVE PromiseStep
<1> DEFINE q == IF req[r].seen = {} THEN Idle ELSE [req[r] EXCEPT !.pc = "chk_unlink"]
<1>1. req[r].pc = "chk_rows" /\ ReqType /\ req[r] \in Fitting
  BY DEF CheckRows, At_, IInv, Typed, ReqType
<1>2. PICK S : S = Unloaded(req[r].id)
  OBVIOUS
<1>4. ~Clearing /\ Promise!Agree
  BY <1>1, BeforeTheStep
<1>5. ~Clearing'
  <2>1. req' = [req EXCEPT ![r] = q] /\ q.pc # "rst_rows"
    BY <1>1 DEF CheckRows, Goto, Finish, Fitting, Request, Idle
  <2> HIDE DEF q
  <2> QED
    BY <1>1, <2>1, ClearingAfter
<1>6. S \subseteq Listed /\ \A i \in S : FaceOf(i) = NoPerson
  BY <1>2 DEF Unloaded, FaceOf, IInv, RegisteredIsLoaded
<1>7. DeleteRows(S) /\ UNCHANGED userDb
  BY <1>2 DEF CheckRows
<1>8. Listed' = Listed \ S /\ \A j \in Listed' : faceList'[j] = faceList[j]
  BY <1>7 DEF DeleteRows, Listed
<1>9. S \subseteq Promise!Without
  BY <1>4, <1>6, View DEF Promise!Without
<1>10. Promise!Drop
  BY <1>4, <1>5, <1>7, <1>8, <1>9, EntriesGone DEF Promise!Drop
<1> QED
  BY <1>4, <1>10 DEF PromiseStep, Promise!Next, Promise!Begin

\* The face that a modify or a delete took off the list leaves the recogniser.
LEMMA FaceForgotten ==
  ASSUME IInv, Facts, ~Clearing, ~Clearing', UNCHANGED faceList, NEW d, Forget({d}), HeldBy(d) = {}
  PROVE  PromiseStep
<1>1. userDb \in [Users -> Persons \cup {NoPerson}]
  BY DEF IInv, Typed, FaceType
<1>2. \A u \in Users : userDb'[u] = IF u = d THEN NoPerson ELSE userDb[u]
  BY DEF Forget
<1>3. \A i \in Listed : faceList[i].dbid # d
  BY DEF HeldBy
<1>4. Listed' = Listed /\ \A i \in Listed : FaceOf(i)' = FaceOf(i)
  BY <1>2, <1>3 DEF Listed, FaceOf
<1>5. UNCHANGED members
  BY <1>4 DEF members, Shown, Clearing, Step
<1>6. CASE d \notin Known
  <2>1. userDb' = userDb
    BY <1>1, <1>6 DEF Forget, Known
  <2> QED
    BY <1>5, <2>1 DEF PromiseStep, door, Known
<1>7. CASE d \in Known
  <2>1. Known' = Known \ {d}
    BY <1>2 DEF Known
  <2>2. door' = door \ {userDb[d]}
    BY <1>2, <1>7, <2>1 DEF door, IInv, NoTwinFaces, Known
  <2>3. userDb[d] \in door \ Promise!Faces
    <3>1. \A i \in Listed : FaceOf(i) # userDb[d]
      <4> SUFFICES ASSUME NEW i \in Listed, FaceOf(i) = userDb[d] PROVE FALSE
        OBVIOUS
      <4>1. userDb[d] # NoPerson
        BY <1>7 DEF Known
      <4>2. faceList[i].dbid \in Known /\ userDb[faceList[i].dbid] = userDb[d]
        BY <4>1 DEF FaceOf, Known
      <4> QED
        BY <1>3, <1>7, <4>2 DEF IInv, NoTwinFaces
    <3>2. userDb[d] \in door
      BY <1>7 DEF door
    <3> QED
      BY <3>1, <3>2, View DEF Promise!Faces
  <2>4. Promise!Forget
    BY <1>5, <2>2, <2>3 DEF Promise!Forget
  <2> QED
    BY <2>4 DEF PromiseStep, Promise!Next
<1> QED
  BY <1>6, <1>7
LEMMA SeenModifyFace ==
  ASSUME IInv, Facts, Serial, NEW r \in Requests, ModifyFace(r) PROVE PromiseStep
<1> DEFINE moved == req[r].path # req[r].old.path
           q == IF moved THEN [req[r] EXCEPT !.pc = "mod_move"] ELSE Idle
<1>1. req[r].pc = "mod_face" /\ ReqType /\ req[r] \in Fitting
  BY DEF ModifyFace, At_, IInv, Typed, ReqType
<1>2. PICK d : d = req[r].old.dbid
  OBVIOUS
<1>3. HeldBy(d) = {} /\ ~Clearing
  BY <1>1, <1>2, OthersIdle DEF Serial, Foreseen, Expected
<1>4. ~Clearing'
  <2>1. req' = [req EXCEPT ![r] = q] /\ q.pc # "rst_rows"
    BY <1>1 DEF ModifyFace, Goto, Finish, Fitting, Request, Idle
  <2> HIDE DEF q
  <2> QED
    BY <1>1, <2>1, ClearingAfter
<1>5. Forget({d}) /\ UNCHANGED faceList
  BY <1>2 DEF ModifyFace, db
<1> QED
  BY <1>3, <1>4, <1>5, FaceForgotten

LEMMA SeenDeleteFace ==
  ASSUME IInv, Facts, Serial, NEW r \in Requests, DeleteFace(r) PROVE PromiseStep
<1> DEFINE q == [req[r] EXCEPT !.pc = "del_find"]
<1>1. req[r].pc = "del_face" /\ ReqType /\ req[r] \in Fitting
  BY DEF DeleteFace, At_, IInv, Typed, ReqType
<1>2. PICK d : d = req[r].old.dbid
  OBVIOUS
<1>3. HeldBy(d) = {} /\ ~Clearing
  BY <1>1, <1>2, OthersIdle DEF Serial, Foreseen, Expected
<1>4. ~Clearing'
  <2>1. req' = [req EXCEPT ![r] = q] /\ q.pc = "del_find"
    BY <1>1 DEF DeleteFace, Goto, Fitting, Request
  <2> HIDE DEF q
  <2> QED
    BY <1>1, <2>1, ClearingAfter
<1>5. Forget({d}) /\ UNCHANGED faceList
  BY <1>2 DEF DeleteFace, db
<1> QED
  BY <1>3, <1>4, <1>5, FaceForgotten

\* A reset is seen when it clears the recogniser; the rows that go later do not count
\* any more.
LEMMA SeenResetFace ==
  ASSUME IInv, Facts, Serial, NEW r \in Requests, ResetFace(r) PROVE PromiseStep
<1> DEFINE q == [req[r] EXCEPT !.pc = "rst_rows"]
<1>1. req[r].pc = "rst_face" /\ ReqType /\ req[r] \in Fitting
  BY DEF ResetFace, At_, IInv, Typed, ReqType
<1>2. ~Clearing /\ Promise!Agree
  BY <1>1, BeforeTheStep
<1>3. Clearing'
  <2>1. req' = [req EXCEPT ![r] = q] /\ q.pc = "rst_rows"
    BY <1>1 DEF ResetFace, Goto, Fitting, Request
  <2> HIDE DEF q
  <2> QED
    BY <1>1, <2>1, ClearingAfter
<1>4. Shown' = {}
  BY <1>3 DEF Shown, Clearing, Step
<1>5. members' = Promise!Only({})
  BY <1>4 DEF members, Promise!Only
<1>6. door' = {}
  BY DEF ResetFace, Forget, door, Known
<1>7. Promise!Clear
  BY <1>5, <1>6 DEF Promise!Clear
<1> QED
  BY <1>2, <1>7 DEF PromiseStep, Promise!Next, Promise!Begin

LEMMA SeenResetRows ==
  ASSUME IInv, Facts, Serial, NEW r \in Requests, ResetRows(r) PROVE PromiseStep
<1>1. Clearing
  BY DEF ResetRows, At_, Clearing
<1>2. Shown = {}
  BY <1>1 DEF Shown, Clearing, Step
<1>3. Listed' = {}
  BY DEF ResetRows, DeleteRows, Listed
<1>4. Shown' = {}
  BY <1>3 DEF Shown
<1>5. UNCHANGED <<members, door>>
  BY <1>2, <1>4 DEF ResetRows, members, door, Known
<1> QED
  BY <1>5 DEF PromiseStep

LEMMA SeenResetDrop ==
  ASSUME IInv, Facts, Serial, NEW r \in Requests, ResetDrop(r) PROVE PromiseStep
<1>1. req[r].pc = "rst_drop"
  BY DEF ResetDrop, At_
<1>2. Listed = {} /\ Listed' = {}
  BY <1>1 DEF Serial, Foreseen, Expected, ResetDrop, Listed
<1>3. Shown = {} /\ Shown' = {}
  BY <1>2 DEF Shown
<1>4. UNCHANGED <<members, door>>
  BY <1>3 DEF ResetDrop, members, door, Known
<1> QED
  BY <1>4 DEF PromiseStep

\* The thread learns a face while a member without one waits for it.
LEMMA SeenWorkerRegister ==
  ASSUME IInv, Facts, Serial, WorkerRegister PROVE PromiseStep
<1>1. AllIdle /\ Waiting(worker.path) /\ worker.stage = "new" /\ AllIdle'
  BY AtWork DEF WorkerRegister, AllIdle
<1>2. ~Clearing /\ ~Clearing' /\ Promise!Agree
  BY <1>1, BetweenRequests DEF AllIdle, Clearing
<1>3. worker.face \in Persons /\ userDb \in [Users -> Persons \cup {NoPerson}]
  BY <1>1 DEF IInv, Typed, WorkType, Holding, FaceType
<1>4. CASE UNCHANGED userDb
  BY <1>2, <1>4, UnseenQuiet DEF WorkerRegister, db
<1>5. CASE \E u \in Users : IsNextUser(u) /\ userDb' = [userDb EXCEPT ![u] = worker.face]
  <2>1. PICK u \in Users : IsNextUser(u) /\ userDb' = [userDb EXCEPT ![u] = worker.face]
    BY <1>5
  <2>2. u \notin Known
    BY <2>1 DEF IsNextUser, Known, Users
  <2>3. Known' = Known \cup {u} /\ userDb'[u] = worker.face
        /\ \A v \in Known : userDb'[v] = userDb[v]
    BY <1>3, <2>1, <2>2, AbsentAssumption DEF Known
  <2>4. door' = door \cup {worker.face}
    BY <2>3 DEF door
  <2>5. worker.face \notin door
    BY <1>1 DEF IInv, NewIsUnknown, door, Known
  <2>6. \A i \in Listed : FaceOf(i)' = FaceOf(i)
    <3> SUFFICES ASSUME NEW i \in Listed, faceList[i].dbid \in Users
                 PROVE  userDb'[faceList[i].dbid] = userDb[faceList[i].dbid]
      BY DEF FaceOf, WorkerRegister, db
    <3>1. faceList[i].dbid \in Known
      BY <1>2 DEF Facts, StoreFacts, Referred
    <3> QED
      BY <2>3, <3>1
  <2>7. UNCHANGED members
    BY <1>2, <2>6 DEF members, Shown, Step, Clearing, Listed, WorkerRegister, db
  <2>8. Promise!Without # {}
    <3>1. PICK i \in Listed : faceList[i].dbid \notin Users
      BY <1>1 DEF Waiting, At
    <3>2. FaceOf(i) = NoPerson
      BY <3>1 DEF FaceOf
    <3> QED
      BY <1>2, <3>2, View DEF Promise!Without
  <2>9. Promise!Learn
    BY <1>3, <2>4, <2>5, <2>7, <2>8 DEF Promise!Learn
  <2> QED
    BY <1>2, <2>9 DEF PromiseStep, Promise!Next, Promise!Begin
<1> QED
  BY <1>4, <1>5 DEF WorkerRegister

\* The report gives the one member that waits the face the thread has learned, or
\* none, and then nothing is seen.
LEMMA SeenWorkerReport ==
  ASSUME IInv, Facts, Serial, WorkerReport PROVE PromiseStep
<1>1. PICK p \in Paths, u \in Users \cup {Never} : p = worker.path /\ u = worker.user
  BY DEF WorkerReport, IInv, Typed, WorkType, Holding, Worker
<1>2. /\ worker.stage = "report" /\ UNCHANGED <<userDb, req>>
      /\ AllIdle /\ Waiting(p) /\ (u \in Users => u \in Known)
  BY <1>1, AtWork DEF WorkerReport
<1>3. ~Clearing /\ ~Clearing'
  BY <1>2 DEF AllIdle, Clearing
<1>4. PICK i : At(p) = {i}
  BY <1>2, OnlyRowAt DEF Waiting
<1>5. i \in Listed /\ i \in Ids /\ faceList[i].path = p /\ FaceOf(i) = NoPerson
  BY <1>2, <1>4 DEF Waiting, At, Listed, FaceOf
<1> DEFINE row == [path |-> p, dbid |-> u, loaded |-> u # Never]
<1>6. faceList' = [j \in Ids |-> IF j \in At(p) THEN row ELSE faceList[j]]
  BY <1>1, <1>2, AtWork, <1>4 DEF WorkerReport, SetByPath
<1>7. row # NoRow
  <2>1. (u # Never) \in BOOLEAN
    OBVIOUS
  <2>2. row \in Row
    BY <1>1, <2>1 DEF Row
  <2> QED
    BY <2>2, AbsentAssumption
<1>8. /\ faceList'[i].path = p /\ faceList'[i].dbid = u
      /\ \A j \in Ids \ {i} : faceList'[j] = faceList[j]
      /\ Listed' = Listed
  <2>1. faceList'[i] = row
    BY <1>4, <1>5, <1>6
  <2>2. \A j \in Ids \ {i} : faceList'[j] = faceList[j]
    BY <1>4, <1>6
  <2>3. Listed' = Listed
    BY <1>5, <1>7, <2>1, <2>2 DEF Listed
  <2> QED
    BY <2>1, <2>2, <2>3
<1> HIDE DEF row
<1>9. CASE u \notin Users
  <2>1. FaceOf(i)' = NoPerson
    BY <1>8, <1>9 DEF FaceOf
  <2>2. \A j \in Listed : faceList'[j].path = faceList[j].path /\ FaceOf(j)' = FaceOf(j)
    <3> SUFFICES ASSUME NEW j \in Listed
                 PROVE  faceList'[j].path = faceList[j].path /\ FaceOf(j)' = FaceOf(j)
      OBVIOUS
    <3>1. CASE j = i
      BY <1>5, <1>8, <2>1, <3>1
    <3>2. CASE j # i
      BY <1>2, <1>8, <3>2 DEF FaceOf, Listed
    <3> QED
      BY <3>1, <3>2
  <2> QED
    BY <1>2, <1>3, <1>8, <2>2, Unseen
<1>10. CASE u \in Users
  <2>1. PICK f : f = userDb[u]
    OBVIOUS
  <2>2. FaceOf(i)' = f
    BY <1>2, <1>8, <1>10, <2>1 DEF FaceOf
  <2>3. f \in door /\ f # NoPerson
    BY <1>2, <1>10, <2>1 DEF door, Known
  <2>4. \A j \in Listed : FaceOf(j) # f
    <3> SUFFICES ASSUME NEW j \in Listed, FaceOf(j) = f PROVE FALSE
      OBVIOUS
    <3>1. faceList[j].dbid \in Known /\ userDb[faceList[j].dbid] = userDb[u]
      BY <2>1, <2>3 DEF FaceOf, Known
    <3>2. faceList[j].dbid = u
      BY <1>2, <1>10, <3>1 DEF IInv, NoTwinFaces
    <3>3. HeldBy(u) = {}
      BY <1>1, <1>2, <1>3, <1>10 DEF Facts, StoreFacts, ReportFresh, Users, Never
    <3> QED
      BY <3>2, <3>3 DEF HeldBy
  <2>5. f \notin Promise!Faces
    BY <1>3, <2>4, View DEF Promise!Faces
  <2>6. PICK l : l = faceList[i].path[1]
    OBVIOUS
  <2>7. Promise!Entry(i, [label |-> l, face |-> f]) /\ UNCHANGED door
    <3>1. Listed' = Listed \cup {i} /\ \A j \in Listed \ {i} : faceList'[j] = faceList[j]
      BY <1>5, <1>8 DEF Listed
    <3>2. faceList'[i].path[1] = l
      BY <1>5, <1>8, <2>6
    <3> QED
      BY <1>2, <1>3, <1>5, <2>2, <3>1, <3>2, EntryMade
  <2>8. i \in Promise!Without /\ members[i].label = l
    BY <1>3, <1>5, <2>6, View DEF Promise!Without
  <2>9. Promise!Register(i)
    BY <2>3, <2>5, <2>7, <2>8 DEF Promise!Register
  <2> QED
    BY <1>5, <2>9 DEF PromiseStep, Promise!Next
<1> QED
  BY <1>9, <1>10

\* Every other step of a handler is about its locals, pictures, records or the queue.
LEMMA SeenQuiet ==
  ASSUME IInv, Facts, Serial, Alone, NEW r \in Requests,
         \/ AddRead(r) \/ ModifyRead(r) \/ ModifyReread(r) \/ ModifyMove(r)
         \/ DeleteRead(r) \/ DeleteUnlink(r) \/ DeleteFindRecords(r) \/ DeleteRecords(r)
         \/ CheckRead(r) \/ CheckUnlink(r) \/ ResetRead(r) \/ ResetUnlink(r)
         \/ ResetCreate(r) \/ ResetRecords(r) \/ DeleteOneRecord(r)
         \/ UploadWrite(r) \/ UploadLookup(r) \/ UploadPush(r) \/ CopyPicture(r)
  PROVE  PromiseStep
<1>1. req[r] \in Fitting /\ ReqType
  BY DEF IInv, Typed, ReqType
<1>2. req[r].pc # "rst_rows" /\ UNCHANGED <<faceList, userDb>>
  BY DEF AddRead, ModifyRead, ModifyReread, ModifyMove, DeleteRead, DeleteUnlink,
     DeleteFindRecords, DeleteRecords, CheckRead, CheckUnlink, ResetRead, ResetUnlink,
     ResetCreate, ResetRecords, DeleteOneRecord, UploadWrite, UploadLookup, UploadPush,
     CopyPicture, CanStart, At_, db
<1>3. /\ req'[r].pc # "rst_rows"
      /\ \A s \in Requests \ {r} : req'[s] = req[s]
  <2>1. CASE AddRead(r) \/ ModifyRead(r) \/ DeleteRead(r) \/ CheckRead(r) \/ UploadWrite(r)
    BY <1>1, <2>1 DEF AddRead, ModifyRead, DeleteRead, CheckRead, UploadWrite, ReqType, Idle
  <2>2. CASE ResetRead(r)
    <3> DEFINE found == PathsOf(Listed)
               q == [Idle EXCEPT !.seen = found, !.todo = found,
                       !.pc = IF found = {} THEN "rst_face" ELSE "rst_unlink"]
    <3>1. req' = [req EXCEPT ![r] = q] /\ q.pc \in {"rst_face", "rst_unlink"}
      BY <2>2 DEF ResetRead, Idle
    <3> HIDE DEF q
    <3> QED
      BY <1>1, <3>1 DEF ReqType
  <2>8. CASE ResetUnlink(r)
    <3>1. PICK p \in req[r].todo :
            req' = [req EXCEPT ![r].todo = @ \ {p},
                               ![r].pc = IF req[r].todo = {p} THEN "rst_face" ELSE @]
      BY <2>8 DEF ResetUnlink
    <3>2. req[r].pc = "rst_unlink"
      BY <2>8 DEF ResetUnlink, At_
    <3> QED
      BY <1>1, <3>1, <3>2 DEF ReqType, Fitting, Request
  <2>9. CASE ResetCreate(r)
    BY <1>1, <2>9 DEF ResetCreate, Goto, ReqType
  <2>3. CASE ModifyReread(r)
    <3>1. \E pc \in {"idle", "mod_face", "mod_move"} :
            \/ pc = "idle" /\ req' = [req EXCEPT ![r] = Idle]
            \/ pc # "idle" /\ \E p : req' = [req EXCEPT ![r].pc = pc, ![r].path = p]
      BY <2>3 DEF ModifyReread, Finish
    <3> QED
      BY <1>1, <3>1 DEF ReqType, Idle, Fitting, Request
  <2>4. CASE ModifyMove(r) \/ DeleteRecords(r) \/ ResetRecords(r) \/ UploadPush(r)
    BY <1>1, <2>4 DEF ModifyMove, DeleteRecords, ResetRecords, UploadPush, Finish, ReqType, Idle
  <2>5. CASE DeleteUnlink(r) \/ DeleteFindRecords(r) \/ UploadLookup(r)
    BY <1>1, <2>5 DEF DeleteUnlink, DeleteFindRecords, UploadLookup, Finish, Goto, ReqType, Idle,
       Fitting, Request
  <2>6. CASE CheckUnlink(r)
    BY <1>1, <2>6 DEF CheckUnlink, Finish, At_, ReqType, Idle, Fitting, Request
  <2>7. CASE DeleteOneRecord(r) \/ CopyPicture(r)
    BY <1>2, <2>7 DEF DeleteOneRecord, CopyPicture
  <2> QED
    BY <2>1, <2>2, <2>3, <2>4, <2>5, <2>6, <2>7, <2>8, <2>9
<1>4. Clearing' <=> Clearing
  BY <1>2, <1>3 DEF Clearing
<1> QED
  BY <1>2, <1>4, UnseenQuiet

LEMMA SeenThread ==
  ASSUME \/ SendInput \/ WorkerRead \/ WorkerCompare \/ WorkerMatch \/ WorkerRecord
         \/ Switch \/ UNCHANGED vars
  PROVE  PromiseStep
<1>1. UNCHANGED <<faceList, userDb, req>>
  BY DEF SendInput, WorkerRead, WorkerCompare, WorkerMatch, WorkerRecord, Switch, vars, db
<1> QED
  BY <1>1, UnseenQuiet DEF Clearing

LEMMA EveryStepSeen ==
  ASSUME IInv, Facts, Serial, Alone, [Next]_vars PROVE PromiseStep
<1>1. CASE \E r \in Requests : Handler(r)
  BY <1>1, SeenQuiet, SeenAddSet, SeenModifySet, SeenModifyFace, SeenDeleteRow, SeenDeleteFace,
     SeenCheckRows, SeenResetFace, SeenResetRows, SeenResetDrop DEF Handler
<1>2. CASE Recogniser
  BY <1>2, SeenThread, SeenWorkerRegister, SeenWorkerReport DEF Recogniser
<1>3. CASE Reboot
  BY <1>3 DEF Reboot, Alone
<1>4. CASE UNCHANGED vars
  BY <1>4, SeenThread
<1>5. CASE Switch
  BY <1>5, SeenThread
<1> QED
  BY <1>1, <1>2, <1>3, <1>4, <1>5 DEF Next

\* With one client at a time that waits for the recogniser, and no power cut, the
\* calls of event_api.cpp on four stores amount to MemberList, however many members,
\* labels, persons and user ids there are: the list changes in single steps, no two
\* members have one face, only who has no face is dropped unnamed (event_api.cpp:785),
\* and the door is never more than one face apart from the list.
THEOREM Refines == ASSUME ~Overlap, "reboot" \notin Ops PROVE Spec => KeepsPromise
<1> DEFINE SerialInv == IInv /\ Facts /\ Serial
<1>1. SerialInv /\ [Next]_vars => [Promise!Next]_<<members, door>>
  BY EveryStepSeen DEF Alone, PromiseStep
<1>2. Spec => []SerialInv
  BY OneClientSerial
<1> QED
  BY <1>1, <1>2, InitPromise, PTL DEF Spec, KeepsPromise, Promise!Spec, Promise!vars
=============================================================================
