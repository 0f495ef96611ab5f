------------------------------ MODULE Upgrade ------------------------------
(***************************************************************************)
(* The upload of a firmware image: UpgradeComponent and diyHttp in the web   *)
(* page, which cut the image into slices of 512 KB, and the firmware-upgrade *)
(* resource of SystemApiHandler, which appends each slice to a file and      *)
(* answers with the range it holds.                                         *)
(*                                                                         *)
(* The page takes its next position from the answer; when a request fails it *)
(* asks for the position instead, and gives up when that fails too.  Images  *)
(* and files are sequences of units, PerSize of which make a slice.  As      *)
(* HttpResponse prints the body only, every answer that arrives counts as a  *)
(* success in the page; the id of a new file is taken to arrive as well.     *)
(***************************************************************************)
EXTENDS Integers, Sequences, FiniteSets

CONSTANTS
  Clients,    \* browsers, each with an image of its own
  FileIds,    \* numbers create_fireware_location draws from
  Size,       \* units of an image
  PerSize,    \* units of 512 KB
  MaxFaults,  \* bound: failed requests and short writes
  Late,       \* TRUE: a request may still be served after the page gave it up
  Short,      \* TRUE: a write may stop half-way because the disk is full
  Collide,    \* TRUE: the number drawn may be that of an existing file
  NoFile      \* absent file

ASSUME SizeAssumption  == Size \in Nat \ {0} /\ PerSize \in Nat \ {0} /\ MaxFaults \in Nat
ASSUME WorldAssumption == {Late, Short, Collide} \subseteq BOOLEAN

Image(c) == [n \in 1 .. Size |-> <<c, n>>]
Contents == Seq(Clients \X (1 .. Size))

ASSUME AbsentAssumption == NoFile \notin FileIds /\ NoFile \notin Contents

VARIABLES
  files,    \* [FileIds -> content or NoFile], the files /data/<id>
  client,   \* [Clients -> the page]
  wire,     \* requests and answers under way, served or being served
  flashed,  \* [Clients -> what system_upgrade was called with]
  faults    \* counts up to MaxFaults

vars == <<files, client, wire, flashed, faults>>

\* "wait": a request is out; "ready": sliceAndPut is next
Page == [stage : {"idle", "wait", "ready", "done", "failed"},
         id : FileIds \cup {NoFile}, cursor : Nat]

Message == [from : Clients, kind : {"create", "slice", "query", "start"},
            id : FileIds \cup {NoFile},
            lo : 0 .. Size, hi : 0 .. Size,      \* the slice is units lo + 1 .. hi
            stage : {"sent", "open", "answered"},
            begin : Nat,                         \* begin_position
            range : Nat,                         \* the range of the answer ends before it
            created : BOOLEAN,                   \* "Transfer completed"
            live : BOOLEAN,                      \* the page still waits for it
            no : 0 .. MaxFaults]                 \* tells retries apart

Blank(c) == [from |-> c, kind |-> "create", id |-> client[c].id, lo |-> 0, hi |-> 0,
             stage |-> "sent", begin |-> 0, range |-> 0, created |-> FALSE,
             live |-> TRUE, no |-> faults]

-----------------------------------------------------------------------------
(* The page.                                                               *)

Send(c, m) == wire' = wire \cup {m} /\ client' = [client EXCEPT ![c].stage = "wait"]

\* onUpgrade: a new file for a new attempt, from the beginning
Begin(c) ==
  /\ client[c].stage \in {"idle", "failed"}
  /\ wire' = wire \cup {[Blank(c) EXCEPT !.id = NoFile]}
  /\ client' = [client EXCEPT ![c] = [stage |-> "wait", id |-> NoFile, cursor |-> 0]]
  /\ UNCHANGED <<files, flashed, faults>>

\* defect: a slice is asked for at the very end, too
PutSliceAtEnd(c) ==
  /\ client[c].stage = "ready" /\ client[c].cursor <= Size
  /\ LET lo == client[c].cursor
         hi == IF lo + PerSize >= Size THEN Size ELSE lo + PerSize
     IN Send(c, [Blank(c) EXCEPT !.kind = "slice", !.lo = lo, !.hi = hi])
  /\ UNCHANGED <<files, flashed, faults>>

\* defect: the last slice is as long as the others
PutSliceWhole(c) ==
  /\ client[c].stage = "ready" /\ client[c].cursor < Size
  /\ Send(c, [Blank(c) EXCEPT !.kind = "slice", !.lo = client[c].cursor,
                              !.hi = client[c].cursor + PerSize])
  /\ UNCHANGED <<files, flashed, faults>>

\* sliceAndPut: the next slice, the last one as long as is left
PutSlice(c) ==
  /\ client[c].stage = "ready" /\ client[c].cursor < Size
  /\ LET lo == client[c].cursor
         hi == IF lo + PerSize >= Size THEN Size ELSE lo + PerSize
     IN Send(c, [Blank(c) EXCEPT !.kind = "slice", !.lo = lo, !.hi = hi])
  /\ UNCHANGED <<files, flashed, faults>>

\* sliceAndPut past the end, then sendUpgradeSignal
PutStart(c) ==
  /\ client[c].stage = "ready" /\ client[c].cursor >= Size
  /\ Send(c, [Blank(c) EXCEPT !.kind = "start"])
  /\ UNCHANGED <<files, flashed, faults>>

\* the answer: the id, or updateUpgradeCursor, or nothing of interest
Receive(m) ==
  /\ m \in wire /\ m.live /\ m.stage = "answered"
  /\ wire' = wire \ {m}
  /\ client' = [client EXCEPT ![m.from] =
       CASE m.kind = "create" -> [stage |-> "ready", id |-> m.id, cursor |-> 0]
         [] m.kind = "start"  -> [@ EXCEPT !.stage = "done"]
         [] OTHER             -> [@ EXCEPT !.stage = "ready", !.cursor = m.range]]
  /\ UNCHANGED <<files, flashed, faults>>

\* defect: the page sends the same slice again without asking
GiveUpResend(m) ==
  /\ m \in wire /\ m.live /\ faults < MaxFaults
  /\ Late \/ m.stage # "open"
  /\ faults' = faults + 1
  /\ wire' = wire \ {m}
  /\ client' = [client EXCEPT ![m.from].stage =
       IF m.kind = "slice" THEN "ready" ELSE "failed"]
  /\ UNCHANGED <<files, flashed>>

\* The request fails for the page: it or its answer was lost, or, if Late, it is
\* merely late.  After a slice the page asks for the progress, after a query it
\* gives up; the signal to start is not repeated.
GiveUp(m) ==
  /\ m \in wire /\ m.live /\ faults < MaxFaults
  /\ Late \/ m.stage # "open"
  /\ faults' = faults + 1
  /\ LET late  == IF Late /\ m.stage # "answered" THEN {[m EXCEPT !.live = FALSE]} ELSE {}
         query == IF m.kind = "slice"
                  THEN {[Blank(m.from) EXCEPT !.kind = "query", !.no = faults']} ELSE {}
     IN wire' = (wire \ {m}) \cup late \cup query
  /\ client' = [client EXCEPT ![m.from].stage =
       CASE m.kind = "slice"  -> "wait"
         [] m.kind = "query"  -> "failed"
         [] m.kind = "create" -> "idle"
         [] m.kind = "start"  -> "done"]
  /\ UNCHANGED <<files, flashed>>

-----------------------------------------------------------------------------
(* The firmware-upgrade resource.  An answer to nobody goes nowhere.         *)

Answer(m, a) == wire' = (wire \ {m}) \cup
                        (IF m.live THEN {[a EXCEPT !.stage = "answered"]} ELSE {})

Arrives(m, kind) == m \in wire /\ m.stage = "sent" /\ m.kind = kind

\* create_fireware_location: any number, as the test for an existing file opens
\* something else; the file is emptied
ServeCreate(m) ==
  /\ Arrives(m, "create")
  /\ \E i \in FileIds :
       /\ Collide \/ files[i] = NoFile
       /\ files' = [files EXCEPT ![i] = <<>>]
       /\ Answer(m, [m EXCEPT !.id = i])
  /\ UNCHANGED <<client, flashed, faults>>

\* open for appending, begin_position = tellp()
ServeOpen(m) ==
  /\ Arrives(m, "slice")
  /\ wire' = (wire \ {m}) \cup {[m EXCEPT !.stage = "open", !.begin = Len(files[m.id])]}
  /\ UNCHANGED <<files, client, flashed, faults>>

\* transmitted_length
Written(m, n) == Len(files[m.id]) + n

\* defect: a slice of exactly 512 KB counts as the last one, too
LastSliceInclusive(m) == m.hi - m.lo <= PerSize
\* ContentLength < 512 * 1024
LastSlice(m) == m.hi - m.lo < PerSize

\* defect: the length of the write is not looked at
WriteSliceUnchecked(m, n) ==
  /\ m \in wire /\ m.stage = "open"
  /\ files' = [files EXCEPT ![m.id] = @ \o SubSeq(Image(m.from), m.lo + 1, m.lo + n)]
  /\ Answer(m, [m EXCEPT !.range = m.begin + m.hi - m.lo, !.created = LastSlice(m)])
  /\ UNCHANGED <<client, flashed>>

\* The slice goes to the end of the file, n units of it.  A write that failed, and
\* a file that did not grow by exactly the slice since begin_position, call for
\* another transmission from there.
WriteSlice(m, n) ==
  /\ m \in wire /\ m.stage = "open"
  /\ files' = [files EXCEPT ![m.id] = @ \o SubSeq(Image(m.from), m.lo + 1, m.lo + n)]
  /\ IF n = m.hi - m.lo /\ Len(files[m.id]) + n - m.begin = m.hi - m.lo
     THEN Answer(m, [m EXCEPT !.range = Written(m, n), !.created = LastSlice(m)])
     ELSE Answer(m, [m EXCEPT !.range = m.begin])
  /\ UNCHANGED <<client, flashed>>

ServeWrite(m) == WriteSlice(m, m.hi - m.lo) /\ UNCHANGED faults

\* the disk is full before the last unit
ServeWriteShort(m) ==
  /\ Short /\ faults < MaxFaults
  /\ \E n \in 0 .. Size : n < m.hi - m.lo /\ WriteSlice(m, n)
  /\ faults' = faults + 1

\* a request without a body: how much is there
ServeQuery(m) ==
  /\ Arrives(m, "query")
  /\ Answer(m, [m EXCEPT !.range = Len(files[m.id])])
  /\ UNCHANGED <<files, client, flashed, faults>>

\* system_upgrade
ServeStart(m) ==
  /\ Arrives(m, "start")
  /\ flashed' = [flashed EXCEPT ![m.from] = files[m.id]]
  /\ Answer(m, m)
  /\ UNCHANGED <<files, client, faults>>

-----------------------------------------------------------------------------
Init ==
  /\ files = [i \in FileIds |-> NoFile]
  /\ client = [c \in Clients |-> [stage |-> "idle", id |-> NoFile, cursor |-> 0]]
  /\ wire = {}
  /\ flashed = [c \in Clients |-> NoFile]
  /\ faults = 0

Serve(m) == \/ ServeCreate(m) \/ ServeOpen(m) \/ ServeWrite(m) \/ ServeWriteShort(m)
            \/ ServeQuery(m) \/ ServeStart(m)

Web(c)  == Begin(c) \/ PutSlice(c) \/ PutStart(c)
Next == \/ \E c \in Clients : Web(c)
        \/ \E m \in wire : Serve(m) \/ Receive(m) \/ GiveUp(m)

Spec == Init /\ [][Next]_vars

\* a page that is ready goes on, the server works off what arrives, answers arrive
FairSpec ==
  /\ Spec
  /\ \A c \in Clients : WF_vars(PutSlice(c) \/ PutStart(c))
  /\ WF_vars(\E m \in wire : Serve(m) \/ Receive(m))

-----------------------------------------------------------------------------
(* Correctness.                                                            *)

\* Files, pages and messages stay within their shapes.
TypeOK ==
  /\ files \in [FileIds -> Contents \cup {NoFile}]
  /\ client \in [Clients -> Page]
  /\ wire \subseteq Message
  /\ flashed \in [Clients -> Contents \cup {NoFile}]
  /\ faults \in 0 .. MaxFaults

\* As long as every request is served before its page gives it up or never, every
\* write is whole and every file has one owner, the upload keeps the promise of
\* Transfer: a retry never leaves a gap or a double (system_api.cpp:285, 295).
Held(c) == IF client[c].id = NoFile THEN <<>> ELSE files[client[c].id]
Promise == INSTANCE Transfer WITH content <- [c \in Clients |-> Held(c)]
KeepsPromise == Promise!Spec

\* What the camera is told to install is the whole image (system_api.cpp:321).
OnlyWholeImages == \A c \in Clients : flashed[c] \in {NoFile, Image(c)}

\* "Created" is only answered when the whole image is there (system_api.cpp:312).
CreatedMeansWhole ==
  \A m \in wire : m.created => files[m.id] = Image(m.from)

\* Whatever is late, doubled or cut short, a page that owns its file never
\* believes more is there than is: an upload never ends with a file too short.
NeverShort ==
  \A c \in Clients : client[c].id # NoFile => client[c].cursor <= Len(files[client[c].id])

\* An upload that has its file comes to an end, although requests may fail at any
\* time, if only finitely often.
UploadEnds ==
  \A c \in Clients : client[c].stage = "ready" ~> client[c].stage \in {"done", "failed"}
=============================================================================
