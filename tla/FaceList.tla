------------------------------ MODULE FaceList ------------------------------
(***************************************************************************)
(* The face list of the camera: the part of EventApiHandler that keeps four *)
(* stores in step with no transaction around them.                          *)
(*                                                                         *)
(*   faceList   the FaceList table of dbserver                              *)
(*   pictures   the registration pictures on the mounted disk               *)
(*   userDb     the feature database of the recogniser in mediaserver       *)
(*   records    the control records the recogniser writes for known faces   *)
(*                                                                         *)
(* Every HTTP request is a CGI process of its own.  One action below is one  *)
(* D-Bus call or one file operation of one request, or one step of the      *)
(* recogniser's thread: whatever happens between two of them is up to the   *)
(* scheduler.                                                               *)
(***************************************************************************)
EXTENDS Integers, Sequences, FiniteSets

CONSTANTS
  Requests,   \* the CGI processes that may run at the same time
  Labels,     \* list type and name of a member: what a path is made of
  Persons,    \* whose face a picture shows
  MaxId,      \* bound: largest row id
  MaxUser,    \* bound: largest user id of the recogniser
  MaxQueue,   \* bound: pictures waiting for the recogniser, whose list has none
  MaxCache,   \* how many of them its thread may have before it, kMaxCacheSize
  Ops,        \* what clients, people before the camera and the power do
  Overlap,    \* FALSE: one client, which waits until everything is settled
  NoRow, NoPicture, NoPerson   \* absent row, absent file, no face

Ids   == 0 .. MaxId
Users == 0 .. MaxUser

\* iFaceDBId before a picture was ever registered, and while a new one is due
Never   == -1
Pending == -2

Paths   == Labels \X Ids
Content == Persons \cup {NoPerson}
Row     == [path : Paths, dbid : Users \cup {Never, Pending}, loaded : BOOLEAN]

ClientOps == {"add", "modify", "delete", "check", "reset", "upload", "copy", "records"}
AllOps    == ClientOps \cup {"match", "switch", "reboot"}

ASSUME BoundsAssumption == MaxId \in Nat /\ MaxUser \in Nat /\ MaxQueue \in Nat /\ MaxCache \in Nat
ASSUME OpsAssumption    == Ops \subseteq AllOps /\ Overlap \in BOOLEAN
ASSUME AbsentAssumption ==
  /\ NoRow \notin Row
  /\ NoPicture \notin Content
  /\ NoPerson \notin Persons

VARIABLES
  faceList,  \* [Ids -> Row or NoRow]
  tableUp,   \* FALSE between the DROP and the CREATE of a reset
  autoId,    \* AUTOINCREMENT counter of the table
  pictures,  \* [Paths -> Content or NoPicture]
  userDb,    \* [Users -> Persons or NoPerson]
  records,   \* users that have control records
  queue,     \* paths waiting to be registered, in the order they came
  handed,    \* how many of them SendInput has put before the thread
  enabled,   \* face recognition is switched on
  worker,    \* the recogniser's thread
  req,       \* [Requests -> the locals of the handler]
  stale      \* history: some step acted on information no longer true

vars == <<faceList, tableUp, autoId, pictures, userDb, records, queue, handed, enabled, worker,
          req, stale>>
feed == <<handed, enabled>>
db   == <<faceList, tableUp, autoId>>

PCs == {"idle", "add_set",
        "mod_set", "mod_reread", "mod_face", "mod_move",
        "del_row", "del_unlink", "del_face", "del_find", "del_records",
        "chk_rows", "chk_unlink",
        "rst_unlink", "rst_face", "rst_rows", "rst_drop", "rst_create", "rst_records",
        "up_lookup", "up_push"}

NoPath  == <<>>
Request == [pc   : PCs,
            id   : Ids,                     \* row the request is about
            label: Labels \cup {NoPath},    \* label in the request body
            redo : BOOLEAN,                 \* body sets iFaceDBId to -2
            old  : Row \cup {NoRow},        \* row as it was read
            path : Paths \cup {NoPath},     \* path_new, or the uploaded path
            seen : SUBSET Paths,            \* paths a bulk read returned
            todo : SUBSET Paths]            \* those still to unlink
Idle == [pc |-> "idle", id |-> 0, label |-> NoPath, redo |-> FALSE, old |-> NoRow,
         path |-> NoPath, seen |-> {}, todo |-> {}]

\* what the thread has in hand: a picture it read, a face it found to be new, a
\* result to report, or a match with somebody in front of the camera
Worker == [stage : {"idle", "read", "new", "report", "match"}, path : Paths \cup {NoPath},
           face : Content, user : Users \cup {Never}]
Resting == [stage |-> "idle", path |-> NoPath, face |-> NoPerson, user |-> Never]

-----------------------------------------------------------------------------
(* Reading the stores.                                                     *)

Listed      == {i \in Ids : faceList[i] # NoRow}
At(p)       == {i \in Listed : faceList[i].path = p}
Known       == {u \in Users : userDb[u] # NoPerson}
HeldBy(u)   == {i \in Listed : faceList[i].dbid = u}
PathsOf(S)  == {faceList[i].path : i \in S}
Unloaded(n) == {i \in Listed : i >= n /\ ~faceList[i].loaded}

\* defect: the id of the last row itself
IsNextNoIncrement(i) == IF Listed = {} THEN i = 0
                        ELSE i \in Listed /\ \A j \in Listed : j <= i
\* the id face add computes: one more than the last, 0 for an empty list
IsNext(i) == IF Listed = {} THEN i = 0
             ELSE i - 1 \in Listed /\ \A j \in Listed : j < i
\* the user id FaceDBManager::AddUser computes
IsNextUser(u) == (u = 0 \/ u - 1 \in Known) /\ \A v \in Known : v < u

-----------------------------------------------------------------------------
(* Writing them.  dbserver turns an Update whose key matches no row into an  *)
(* Insert, and a statement on a dropped table changes nothing.              *)

Put(i, row) == /\ faceList' = [faceList EXCEPT ![i] = row]
               /\ autoId' = IF i > autoId THEN i ELSE autoId
               /\ UNCHANGED tableUp

\* defect: a modify writes the load flag of a new row
SetRowUnloaded(i, l, redo) ==
  /\ tableUp
  /\ Put(i, [path |-> <<l, i>>, loaded |-> FALSE,
             dbid |-> IF redo THEN Pending
                      ELSE IF faceList[i] = NoRow THEN Never ELSE faceList[i].dbid])
\* defect: the picture is named before the id is known, so all of a label share one
SetRowNamedAlike(i, l, redo) ==
  /\ tableUp
  /\ Put(i, [path |-> <<l, 0>>,
             dbid |-> IF redo THEN Pending
                      ELSE IF faceList[i] = NoRow THEN Never ELSE faceList[i].dbid,
             loaded |-> IF faceList[i] = NoRow THEN FALSE ELSE faceList[i].loaded])
\* dbserver_event_set from face_list_set: the path always, iFaceDBId only when
\* the body carries it, defaults for what an insert leaves out
SetRow(i, l, redo) ==
  IF tableUp
  THEN Put(i, [path   |-> <<l, i>>,
               dbid   |-> IF redo THEN Pending
                          ELSE IF faceList[i] = NoRow THEN Never ELSE faceList[i].dbid,
               loaded |-> IF faceList[i] = NoRow THEN FALSE ELSE faceList[i].loaded])
  ELSE UNCHANGED db

\* dbserver_face_load_complete_by_path
SetByPath(p, u) ==
  IF ~tableUp THEN UNCHANGED db
  ELSE IF At(p) # {}
  THEN /\ faceList' = [i \in Ids |-> IF i \in At(p)
                         THEN [path |-> p, dbid |-> u, loaded |-> u # Never]
                         ELSE faceList[i]]
       /\ UNCHANGED <<tableUp, autoId>>
  ELSE /\ autoId + 1 \in Ids
       /\ Put(autoId + 1, [path |-> p, dbid |-> u, loaded |-> u # Never])

DeleteRows(S) == /\ faceList' = [i \in Ids |-> IF i \in S THEN NoRow ELSE faceList[i]]
                 /\ UNCHANGED <<tableUp, autoId>>

Unlink(P)  == pictures' = [p \in Paths |-> IF p \in P THEN NoPicture ELSE pictures[p]]
Forget(U)  == userDb' = [u \in Users |-> IF u \in U THEN NoPerson ELSE userDb[u]]

Outdated(cond) == stale' = (stale \/ cond)

-----------------------------------------------------------------------------
(* Requests.  A handler starts with its first call, runs through its steps   *)
(* and ends with the process.                                               *)

Settled == /\ \A r \in Requests : req[r].pc = "idle"
           /\ queue = <<>>
           /\ worker.stage \in {"idle", "match"}

Step(S) == {r \in Requests : req[r].pc \in S}

CanStart(r, op) == /\ op \in Ops
                   /\ req[r].pc = "idle"
                   /\ Overlap \/ Settled

At_(r, pc)    == req[r].pc = pc
Goto(r, pc)   == req' = [req EXCEPT ![r].pc = pc]
Finish(r)     == req' = [req EXCEPT ![r] = Idle]

(* PUT event/face : add a member                                           *)
AddRead(r) ==
  /\ CanStart(r, "add")
  /\ \E i \in Ids, l \in Labels, redo \in BOOLEAN :
       /\ IsNext(i)
       /\ req' = [req EXCEPT ![r] = [Idle EXCEPT !.pc = "add_set", !.id = i,
                                                !.label = l, !.redo = redo]]
  /\ UNCHANGED <<db, pictures, userDb, records, queue, feed, worker, stale>>

AddSet(r) ==
  /\ At_(r, "add_set")
  /\ SetRow(req[r].id, req[r].label, req[r].redo)
  /\ Outdated(~tableUp \/ faceList[req[r].id] # NoRow)
  /\ Finish(r)
  /\ UNCHANGED <<pictures, userDb, records, queue, feed, worker>>

(* PUT event/face/<id> : modify a member                                   *)
ModifyRead(r) ==
  /\ CanStart(r, "modify")
  /\ \E i \in Listed, l \in Labels, redo \in BOOLEAN :
       req' = [req EXCEPT ![r] = [Idle EXCEPT !.pc = "mod_set", !.id = i, !.label = l,
                                            !.redo = redo, !.old = faceList[i]]]
  /\ UNCHANGED <<db, pictures, userDb, records, queue, feed, worker, stale>>

ModifySet(r) ==
  /\ At_(r, "mod_set")
  /\ SetRow(req[r].id, req[r].label, req[r].redo)
  /\ Outdated(faceList[req[r].id] # req[r].old)
  /\ Goto(r, "mod_reread")
  /\ UNCHANGED <<pictures, userDb, records, queue, feed, worker>>

\* a row gone by now makes .at(0) throw: the request ends with a 500
ModifyReread(r) ==
  LET now == faceList[req[r].id]
      due == req[r].old.dbid \in Users
      del == due /\ now # NoRow /\ now.dbid = Pending
      pc  == IF del THEN "mod_face"
             ELSE IF now # NoRow /\ now.path # req[r].old.path THEN "mod_move"
             ELSE "idle"
  IN /\ At_(r, "mod_reread")
     /\ Outdated(now = NoRow \/ (req[r].redo /\ due /\ ~del))
     /\ IF pc = "idle" THEN Finish(r)
        ELSE req' = [req EXCEPT ![r].pc = pc, ![r].path = now.path]
     /\ UNCHANGED <<db, pictures, userDb, records, queue, feed, worker>>

\* defect: the recogniser is not told
ModifyFaceSkipped(r) ==
  /\ At_(r, "mod_face")
  /\ IF req[r].path # req[r].old.path THEN Goto(r, "mod_move") ELSE Finish(r)
  /\ UNCHANGED <<db, pictures, userDb, records, queue, feed, worker, stale>>

ModifyFace(r) ==
  /\ At_(r, "mod_face")
  /\ Forget({req[r].old.dbid})
  /\ Outdated(HeldBy(req[r].old.dbid) # {})
  /\ IF req[r].path # req[r].old.path THEN Goto(r, "mod_move") ELSE Finish(r)
  /\ UNCHANGED <<db, pictures, records, queue, feed, worker>>

\* defect: the row has the new path, the file keeps the old one
ModifyMoveSkipped(r) ==
  /\ At_(r, "mod_move")
  /\ Finish(r)
  /\ UNCHANGED <<db, pictures, userDb, records, queue, feed, worker, stale>>

\* mv old new: without the old file it fails and nobody looks at the result
ModifyMove(r) ==
  LET from == req[r].old.path   to == req[r].path
  IN /\ At_(r, "mod_move")
     /\ pictures' = IF pictures[from] = NoPicture THEN pictures
                    ELSE [pictures EXCEPT ![to] = pictures[from], ![from] = NoPicture]
     /\ Outdated(pictures[from] # NoPicture /\ At(to) = {})
     /\ Finish(r)
     /\ UNCHANGED <<db, userDb, records, queue, feed, worker>>

(* DELETE event/face/<id>                                                  *)
DeleteRead(r) ==
  /\ CanStart(r, "delete")
  /\ \E i \in Listed :
       req' = [req EXCEPT ![r] = [Idle EXCEPT !.pc = "del_row", !.id = i,
                                            !.old = faceList[i]]]
  /\ UNCHANGED <<db, pictures, userDb, records, queue, feed, worker, stale>>

\* the statement is keyed by id and path; the handler goes on in any case
DeleteRow(r) ==
  /\ At_(r, "del_row")
  /\ DeleteRows({req[r].id} \cap At(req[r].old.path))
  /\ Outdated(faceList[req[r].id] # req[r].old)
  /\ Goto(r, "del_unlink")
  /\ UNCHANGED <<pictures, userDb, records, queue, feed, worker>>

\* defect: user id 0 is taken for none
DeleteUnlinkZero(r) ==
  /\ At_(r, "del_unlink")
  /\ Unlink({req[r].old.path})
  /\ Outdated(At(req[r].old.path) # {})
  /\ IF req[r].old.dbid \in Users \ {0} THEN Goto(r, "del_face") ELSE Finish(r)
  /\ UNCHANGED <<db, userDb, records, queue, feed, worker>>

DeleteUnlink(r) ==
  /\ At_(r, "del_unlink")
  /\ Unlink({req[r].old.path})
  /\ Outdated(At(req[r].old.path) # {})
  /\ IF req[r].old.dbid \in Users THEN Goto(r, "del_face") ELSE Finish(r)
  /\ UNCHANGED <<db, userDb, records, queue, feed, worker>>

\* defect: mediaserver_clear_face_db where mediaserver_delete_face belongs
DeleteFaceClears(r) ==
  /\ At_(r, "del_face")
  /\ Forget(Users)
  /\ Goto(r, "del_find")
  /\ UNCHANGED <<db, pictures, records, queue, feed, worker, stale>>

DeleteFace(r) ==
  /\ At_(r, "del_face")
  /\ Forget({req[r].old.dbid})
  /\ Outdated(HeldBy(req[r].old.dbid) # {})
  /\ Goto(r, "del_find")
  /\ UNCHANGED <<db, pictures, records, queue, feed, worker>>

DeleteFindRecords(r) ==
  /\ At_(r, "del_find")
  /\ IF req[r].old.dbid \in records THEN Goto(r, "del_records") ELSE Finish(r)
  /\ UNCHANGED <<db, pictures, userDb, records, queue, feed, worker, stale>>

DeleteRecords(r) ==
  /\ At_(r, "del_records")
  /\ records' = records \ {req[r].old.dbid}
  /\ Outdated(req[r].old.dbid \in Known)
  /\ Finish(r)
  /\ UNCHANGED <<db, pictures, userDb, queue, feed, worker>>

(* PUT event/check-face?id=<n-1> : drop the members from n on never registered *)
CheckRead(r) ==
  /\ CanStart(r, "check")
  /\ \E n \in Ids :
       LET found == PathsOf(Unloaded(n))
       IN req' = [req EXCEPT ![r] = [Idle EXCEPT !.pc = "chk_rows", !.id = n,
                                               !.seen = found, !.todo = found]]
  /\ UNCHANGED <<db, pictures, userDb, records, queue, feed, worker, stale>>

\* defect: the statement lost its condition on iLoadCompleted
CheckRowsAll(r) ==
  LET gone == {i \in Listed : i >= req[r].id}
  IN /\ At_(r, "chk_rows")
     /\ DeleteRows(gone)
     /\ IF req[r].seen = {} THEN Finish(r) ELSE Goto(r, "chk_unlink")
     /\ UNCHANGED <<pictures, userDb, records, queue, feed, worker, stale>>

CheckRows(r) ==
  LET gone == Unloaded(req[r].id)
  IN /\ At_(r, "chk_rows")
     /\ DeleteRows(gone)
     /\ Outdated(PathsOf(gone) # req[r].seen)
     /\ IF req[r].seen = {} THEN Finish(r) ELSE Goto(r, "chk_unlink")
     /\ UNCHANGED <<pictures, userDb, records, queue, feed, worker>>

CheckUnlink(r) ==
  /\ At_(r, "chk_unlink")
  /\ \E p \in req[r].todo :
       /\ Unlink({p})
       /\ Outdated(At(p) # {})
       /\ IF req[r].todo = {p} THEN Finish(r)
          ELSE req' = [req EXCEPT ![r].todo = @ \ {p}]
  /\ UNCHANGED <<db, userDb, records, queue, feed, worker>>

(* PUT event/reset-face : pictures, recogniser, rows, table, control records *)
ResetRead(r) ==
  /\ CanStart(r, "reset")
  /\ LET found == PathsOf(Listed)
     IN req' = [req EXCEPT ![r] = [Idle EXCEPT !.seen = found, !.todo = found,
                   !.pc = IF found = {} THEN "rst_face" ELSE "rst_unlink"]]
  /\ UNCHANGED <<db, pictures, userDb, records, queue, feed, worker, stale>>

ResetUnlink(r) ==
  /\ At_(r, "rst_unlink")
  /\ \E p \in req[r].todo :
       /\ Unlink({p})
       /\ req' = [req EXCEPT ![r].todo = @ \ {p},
                             ![r].pc = IF req[r].todo = {p} THEN "rst_face" ELSE @]
  /\ UNCHANGED <<db, userDb, records, queue, feed, worker, stale>>

ResetFace(r) ==
  /\ At_(r, "rst_face")
  /\ Forget(Users)
  /\ Goto(r, "rst_rows")
  /\ UNCHANGED <<db, pictures, records, queue, feed, worker, stale>>

ResetRows(r) ==
  /\ At_(r, "rst_rows")
  /\ DeleteRows(Ids)
  /\ Outdated(\/ PathsOf(Listed) # req[r].seen
              \/ \E p \in req[r].seen : pictures[p] # NoPicture
              \/ \E u \in Known : HeldBy(u) # {})
  /\ Goto(r, "rst_drop")
  /\ UNCHANGED <<pictures, userDb, records, queue, feed, worker>>

ResetDrop(r) ==
  /\ At_(r, "rst_drop")
  /\ faceList' = [i \in Ids |-> NoRow]
  /\ tableUp' = FALSE
  /\ autoId' = 0
  /\ Outdated(Listed # {})
  /\ Goto(r, "rst_create")
  /\ UNCHANGED <<pictures, userDb, records, queue, feed, worker>>

ResetCreate(r) ==
  /\ At_(r, "rst_create")
  /\ tableUp' = TRUE
  /\ Goto(r, "rst_records")
  /\ UNCHANGED <<faceList, autoId, pictures, userDb, records, queue, feed, worker, stale>>

\* also PUT event/reset-control
ResetRecords(r) ==
  /\ At_(r, "rst_records") \/ CanStart(r, "records")
  /\ records' = {}
  /\ Finish(r)
  /\ UNCHANGED <<db, pictures, userDb, queue, feed, worker, stale>>

\* DELETE event/control-record?delete=<id> : one record, maybe not the user's last
DeleteOneRecord(r) ==
  /\ CanStart(r, "records")
  /\ \E u \in records : records' \in {records, records \ {u}}
  /\ UNCHANGED <<db, pictures, userDb, queue, feed, worker, req, stale>>

(* PUT event/face-picture?path=<p> : upload and hand to the recogniser.  The *)
(* one client of a settled instance uploads what it just asked for.         *)
UploadWrite(r) ==
  /\ CanStart(r, "upload")
  /\ Len(queue) + Cardinality(Step({"up_lookup", "up_push"})) < MaxQueue
  /\ \E p \in Paths, c \in Content :
       /\ ~Overlap => \E i \in At(p) : faceList[i].dbid \notin Users
       /\ pictures' = [pictures EXCEPT ![p] = c]
       /\ Outdated(At(p) = {})
       /\ req' = [req EXCEPT ![r] = [Idle EXCEPT !.pc = "up_lookup", !.path = p]]
  /\ UNCHANGED <<db, userDb, records, queue, feed, worker>>

UploadLookup(r) ==
  /\ At_(r, "up_lookup")
  /\ IF At(req[r].path) # {} THEN Goto(r, "up_push") ELSE Finish(r)
  /\ UNCHANGED <<db, pictures, userDb, records, queue, feed, worker, stale>>

\* tobe_registered_pic_ is a list without a limit: nothing is turned away here
UploadPush(r) ==
  /\ At_(r, "up_push")
  /\ queue' = Append(queue, req[r].path)
  /\ Finish(r)
  /\ UNCHANGED <<db, pictures, userDb, records, worker, stale, feed>>

\* PUT event/face-picture?copy-path=<p> : cp from a snapshot, nothing registered
CopyPicture(r) ==
  /\ CanStart(r, "copy")
  /\ \E p \in Paths, c \in Content :
       /\ ~Overlap => At(p) # {}
       /\ pictures' = [pictures EXCEPT ![p] = c]
       /\ Outdated(At(p) = {})
  /\ UNCHANGED <<db, userDb, records, queue, feed, worker, req>>

-----------------------------------------------------------------------------
(* The recogniser's thread in mediaserver.                                 *)

\* SendInput, on a frame of the camera, while recognition is on: BatchProcesPicture
\* takes a picture off its list only when PushRequest had room for it
SendInput ==
  /\ enabled
  /\ handed < Len(queue) /\ handed < MaxCache
  /\ handed' = handed + 1
  /\ UNCHANGED <<db, pictures, userDb, records, queue, enabled, worker, req, stale>>

\* PopRequest: what it took is dropped without a report if recognition has been
\* switched off, the picture cannot be read or shows no face
WorkerRead ==
  /\ worker.stage = "idle"
  /\ handed > 0
  /\ handed' = handed - 1
  /\ queue' = Tail(queue)
  /\ LET p == Head(queue)
     IN worker' = IF enabled /\ pictures[p] \in Persons
                  THEN [stage |-> "read", path |-> p, face |-> pictures[p], user |-> Never]
                  ELSE Resting
  /\ UNCHANGED <<db, pictures, userDb, records, enabled, req, stale>>

\* defect: the features are compared after all the known ones were deleted
WorkerCompareNothing ==
  /\ worker.stage = "read"
  /\ worker' = [worker EXCEPT !.stage = "new"]
  /\ UNCHANGED <<db, pictures, userDb, records, queue, feed, req, stale>>

\* MatchFeature, on a copy of the known faces; a face that cannot be turned into
\* a feature is reported like one that is known
WorkerCompare ==
  /\ worker.stage = "read"
  /\ \/ worker' = [worker EXCEPT !.stage = "report"]
     \/ /\ \A u \in Users : userDb[u] # worker.face
        /\ worker' = [worker EXCEPT !.stage = "new"]
  /\ UNCHANGED <<db, pictures, userDb, records, queue, feed, req, stale>>

\* AddUser, in a critical section of its own; it may fail
WorkerRegister ==
  /\ worker.stage = "new"
  /\ \/ /\ worker' = [worker EXCEPT !.stage = "report"]
        /\ UNCHANGED userDb
     \/ \E u \in Users :
          /\ IsNextUser(u)
          /\ userDb' = [userDb EXCEPT ![u] = worker.face]
          /\ worker' = [worker EXCEPT !.stage = "report", !.user = u]
  /\ UNCHANGED <<db, pictures, records, queue, feed, req, stale>>

\* defect: the recogniser's -99 goes into iFaceDBId as it is
WorkerReportRaw ==
  /\ worker.stage = "report"
  /\ SetByPath(worker.path, IF worker.user = Never THEN -99 ELSE worker.user)
  /\ worker' = Resting
  /\ UNCHANGED <<pictures, userDb, records, queue, feed, req, stale>>

WorkerReport ==
  /\ worker.stage = "report"
  /\ SetByPath(worker.path, worker.user)
  /\ Outdated(\/ Cardinality(At(worker.path)) # 1
              \/ \E i \in At(worker.path) : faceList[i].dbid \in Users
              \/ worker.user \in Users /\ worker.user \notin Known)
  /\ worker' = Resting
  /\ UNCHANGED <<pictures, userDb, records, queue, feed, req>>

\* defect: the camera's frame is taken before the pictures to register
WorkerMatchFirst ==
  /\ "match" \in Ops
  /\ worker.stage = "idle" /\ enabled
  /\ \E u \in Known : worker' = [Resting EXCEPT !.stage = "match", !.user = u]
  /\ UNCHANGED <<db, pictures, userDb, records, queue, feed, req, stale>>

\* somebody the recogniser knows stands in front of the camera; PopRequest takes a
\* frame only when there is no picture to register
WorkerMatch ==
  /\ "match" \in Ops
  /\ worker.stage = "idle" /\ enabled /\ handed = 0
  /\ \E u \in Known : worker' = [Resting EXCEPT !.stage = "match", !.user = u]
  /\ UNCHANGED <<db, pictures, userDb, records, queue, feed, req, stale>>

\* PUT event/smart/cover with iFaceRecognitionEnabled, from any page at any time
Switch ==
  /\ "switch" \in Ops
  /\ enabled' = ~enabled
  /\ UNCHANGED <<db, pictures, userDb, records, queue, handed, worker, req, stale>>

WorkerRecord ==
  /\ worker.stage = "match"
  /\ records' = records \cup {worker.user}
  /\ worker' = Resting
  /\ UNCHANGED <<db, pictures, userDb, queue, feed, req, stale>>

-----------------------------------------------------------------------------
\* Power off and on.  event_init drops and creates its tables every time, as the
\* test of the version is commented out; pictures and the recogniser's database
\* are files and stay.
Reboot ==
  /\ "reboot" \in Ops
  /\ faceList' = [i \in Ids |-> NoRow]
  /\ tableUp' = TRUE
  /\ autoId' = 0
  /\ records' = {}
  /\ queue' = <<>>
  /\ handed' = 0
  /\ enabled' \in BOOLEAN
  /\ worker' = Resting
  /\ req' = [r \in Requests |-> Idle]
  /\ Outdated(Known # {} \/ \E p \in Paths : pictures[p] # NoPicture)
  /\ UNCHANGED <<pictures, userDb>>

-----------------------------------------------------------------------------
Init ==
  /\ faceList = [i \in Ids |-> NoRow]
  /\ tableUp = TRUE
  /\ autoId = 0
  /\ pictures = [p \in Paths |-> NoPicture]
  /\ userDb = [u \in Users |-> NoPerson]
  /\ records = {}
  /\ queue = <<>>
  /\ handed = 0
  /\ enabled \in BOOLEAN
  /\ worker = Resting
  /\ req = [r \in Requests |-> Idle]
  /\ stale = FALSE

Handler(r) ==
  \/ AddRead(r) \/ AddSet(r)
  \/ ModifyRead(r) \/ ModifySet(r) \/ ModifyReread(r) \/ ModifyFace(r) \/ ModifyMove(r)
  \/ DeleteRead(r) \/ DeleteRow(r) \/ DeleteUnlink(r) \/ DeleteFace(r)
  \/ DeleteFindRecords(r) \/ DeleteRecords(r)
  \/ CheckRead(r) \/ CheckRows(r) \/ CheckUnlink(r)
  \/ ResetRead(r) \/ ResetUnlink(r) \/ ResetFace(r) \/ ResetRows(r)
  \/ ResetDrop(r) \/ ResetCreate(r) \/ ResetRecords(r) \/ DeleteOneRecord(r)
  \/ UploadWrite(r) \/ UploadLookup(r) \/ UploadPush(r) \/ CopyPicture(r)

Recogniser == SendInput \/ WorkerRead \/ WorkerCompare \/ WorkerRegister \/ WorkerReport
              \/ WorkerMatch \/ WorkerRecord

Next == (\E r \in Requests : Handler(r)) \/ Recogniser \/ Switch \/ Reboot

Spec == Init /\ [][Next]_vars

\* the camera goes on sending frames, and the thread runs for ever, whether somebody
\* stands in front of the camera or not
ThreadRuns == WorkerRead \/ WorkerCompare \/ WorkerRegister \/ WorkerReport \/ WorkerRecord
FairSpec   == Spec /\ WF_vars(SendInput) /\ WF_vars(ThreadRuns)

-----------------------------------------------------------------------------
(* Correctness.                                                            *)

\* The four stores, the queue and the locals of every handler stay within the
\* shapes the code gives them.
TypeOK ==
  /\ faceList \in [Ids -> Row \cup {NoRow}]
  /\ tableUp \in BOOLEAN
  /\ autoId \in Ids
  /\ pictures \in [Paths -> Content \cup {NoPicture}]
  /\ userDb \in [Users -> Persons \cup {NoPerson}]
  /\ records \subseteq Users
  /\ queue \in Seq(Paths)
  /\ handed \in 0 .. Len(queue)
  /\ enabled \in BOOLEAN
  /\ worker \in Worker
  /\ req \in [Requests -> Request]
  /\ stale \in BOOLEAN

\* check-face deletes rows by iLoadCompleted and never tells the recogniser
\* (event_api.cpp:785), so a row linked to a recogniser's face must count as
\* loaded whatever requests and reports interleave.
RegisteredIsLoaded ==
  \A i \in Listed : faceList[i].dbid \in Users => faceList[i].loaded

\* The recogniser never learns one face under two user ids, although faces are
\* deleted and the database cleared between its match and its insert.
NoTwinFaces ==
  \A u, v \in Known : userDb[u] = userDb[v] => u = v

\* As long as nobody acted on outdated information, every face the recogniser
\* knows is accounted for: a member refers to it, its report is under way, or a
\* request that took it off the list is about to delete it (event_api.cpp:931,
\* 1011).  Otherwise the door keeps opening for somebody no list shows.
NoOrphanFace ==
  stale \/ \A u \in Known :
    \/ HeldBy(u) # {}
    \/ worker.stage = "report" /\ worker.user = u
    \/ \E r \in Step({"mod_reread", "mod_face", "del_unlink", "del_face"}) :
         req[r].old.dbid = u

\* As long as nobody acted on outdated information, a member that refers to a
\* face refers to one the recogniser knows, except while a reset has cleared the
\* recogniser and not yet the table (event_api.cpp:467-471).
NoDanglingFace ==
  stale \/ Step({"rst_rows"}) # {} \/ \A i \in Listed :
    faceList[i].dbid \in Users => faceList[i].dbid \in Known

\* As long as nobody acted on outdated information, two members never share a
\* picture, so the report by path (dbserver.cc:1828) finds one row; nor a face,
\* except while a reset has cleared the recogniser, which then starts over with
\* user id 0, and not yet the table.
NoSharedFace ==
  stale \/ \A i, j \in Listed : i # j =>
    /\ faceList[i].path # faceList[j].path
    /\ \/ Step({"rst_rows"}) # {}
       \/ faceList[i].dbid \in Users => faceList[i].dbid # faceList[j].dbid

\* As long as nobody acted on outdated information, every picture on the disk is
\* some member's, or a request that will move or unlink it is running.
NoOrphanPicture ==
  stale \/ \A p \in Paths : pictures[p] # NoPicture =>
    \/ At(p) # {}
    \/ \E r \in Step({"mod_reread", "mod_face", "mod_move", "del_unlink"}) :
         req[r].old.path = p
    \/ \E r \in Step({"chk_unlink"}) : p \in req[r].todo

InHand(p) == worker.path = p \/ \E n \in 1 .. Len(queue) : queue[n] = p

Waits == {p \in Paths : /\ InHand(p)
                        /\ pictures[p] \in Persons
                        /\ \E i \in At(p) : faceList[i].dbid = Pending}

\* A member that waits for its picture to be registered does not wait for ever once
\* the recogniser has the picture and it shows a face, whatever stands before the
\* camera meanwhile (rockface_recognition.cc: PopRequest prefers registrations),
\* unless face recognition is or gets switched off: ThreadLoop then drops what it
\* takes (rockface_recognition.cc:416), nothing reports it and nobody tries again.
RegistrationSettles ==
  Waits # {} ~> (Waits = {} \/ ~enabled)

\* With one client at a time that waits for the recogniser, no step ever acts on
\* outdated information: the four invariants above then hold unconditionally.
NeverStale == ~stale

-----------------------------------------------------------------------------
(* The list and the door as the page sees them.  While a reset has cleared   *)
(* the recogniser and not yet the rows, the list already counts as empty.    *)

FaceOf(i) == IF faceList[i].dbid \in Users THEN userDb[faceList[i].dbid] ELSE NoPerson
Shown     == IF Step({"rst_rows"}) # {} THEN {} ELSE Listed
members   == [i \in Shown |-> [label |-> faceList[i].path[1], face |-> FaceOf(i)]]
door      == {userDb[u] : u \in Known}

\* With one client at a time that waits for the recogniser, the many calls of the
\* handlers on four stores (event_api.cpp) amount to a list that changes in single
\* steps, on which no two members have one face and nobody with a face is dropped
\* unnamed, and to a door that is never more than one face apart from it.
Promise == INSTANCE MemberList
KeepsPromise == Promise!Spec
=============================================================================
