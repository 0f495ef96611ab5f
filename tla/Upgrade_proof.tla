--------------------------- MODULE Upgrade_proof ---------------------------
(***************************************************************************)
(* What holds of an upload for any number of browsers, any image and slice   *)
(* size, and any number of faults; and, in a clean world, that the protocol  *)
(* implements Transfer.                                                    *)
(***************************************************************************)
EXTENDS Upgrade, SequenceTheorems, TLAPS

USE SizeAssumption

-----------------------------------------------------------------------------
(* The inductive invariant.  What says Collide \/ ... holds as long as no    *)
(* upload is given the file of another.                                     *)

\* A message refers to a file that exists, unless it is to create one; it never
\* promises more than the file holds; and the page waits for it if it is live.
Sound(m) ==
  /\ m \in Message
  /\ m.kind = "slice" => m.lo < m.hi
  /\ m.stage = "open" => m.kind = "slice"
  /\ (m.kind # "create" \/ m.stage = "answered") =>
       m.id \in FileIds /\ files[m.id] \in Contents
  /\ m.stage = "open" => Collide \/ m.begin <= Len(files[m.id])
  /\ (m.stage = "answered" /\ m.kind \in {"slice", "query"}) =>
       Collide \/ m.range <= Len(files[m.id])
  /\ m.live => /\ client[m.from].stage = "wait"
               /\ m.kind # "create" => m.id = client[m.from].id

\* A page believes in no more than its file holds.
SoundPage(c) ==
  /\ client[c] \in Page
  /\ client[c].stage = "ready" => client[c].id \in FileIds
  /\ client[c].id # NoFile => /\ files[client[c].id] \in Contents
                              /\ Collide \/ client[c].cursor <= Len(files[client[c].id])

\* A page waits for one answer at a time.
OneAtATime == \A m, n \in wire : (m.live /\ n.live /\ m.from = n.from) => m = n

FilesType == files \in [FileIds -> Contents \cup {NoFile}]
RestType  == flashed \in [Clients -> Contents \cup {NoFile}] /\ faults \in 0 .. MaxFaults
PagesType == client \in [Clients -> Page]

IInv == /\ FilesType /\ RestType /\ PagesType
        /\ \A m \in wire : Sound(m)
        /\ \A c \in Clients : SoundPage(c)
        /\ OneAtATime

LEMMA InitInv == Init => IInv
<1> SUFFICES ASSUME Init PROVE IInv
  OBVIOUS
<1>1. FilesType /\ RestType
  BY DEF Init, FilesType, RestType
<1>2. PagesType /\ \A c \in Clients : SoundPage(c)
  BY DEF Init, PagesType, SoundPage, Page
<1>3. (\A m \in wire : Sound(m)) /\ OneAtATime
  BY DEF Init, OneAtATime
<1> QED
  BY <1>1, <1>2, <1>3 DEF IInv

-----------------------------------------------------------------------------
(* Steps of the server.                                                    *)

\* Files are appended to; only an upload given another's file empties one.
Grown == \A i \in FileIds : files[i] \in Contents =>
           /\ files'[i] \in Contents
           /\ Collide \/ Len(files[i]) <= Len(files'[i])

LEMMA LenType == \A s \in Contents : Len(s) \in Nat
  BY DEF Contents

LEMMA GrownKeepsMessage ==
  ASSUME IInv, Grown, UNCHANGED client, NEW m \in wire
  PROVE  Sound(m)'
<1>1. Sound(m)
  BY DEF IInv
<1>2. ASSUME m.id \in FileIds, files[m.id] \in Contents
      PROVE  /\ files'[m.id] \in Contents
             /\ Collide \/ Len(files[m.id]) <= Len(files'[m.id])
             /\ Len(files[m.id]) \in Nat /\ Len(files'[m.id]) \in Nat
  BY <1>2, LenType DEF Grown
<1>3. m.begin \in Nat /\ m.range \in Nat
  BY <1>1 DEF Sound, Message
<1> QED
  BY <1>1, <1>2, <1>3 DEF Sound

LEMMA GrownKeepsPage ==
  ASSUME IInv, Grown, UNCHANGED client, NEW c \in Clients
  PROVE  SoundPage(c)'
<1>1. SoundPage(c)
  BY DEF IInv
<1>2. client[c].cursor \in Nat /\ client[c].id \in FileIds \cup {NoFile}
  BY <1>1 DEF SoundPage, Page
<1>3. ASSUME client[c].id # NoFile
      PROVE  /\ files'[client[c].id] \in Contents
             /\ Collide \/ Len(files[client[c].id]) <= Len(files'[client[c].id])
             /\ Len(files[client[c].id]) \in Nat /\ Len(files'[client[c].id]) \in Nat
  BY <1>1, <1>2, <1>3, LenType DEF Grown, SoundPage
<1> QED
  BY <1>1, <1>2, <1>3 DEF SoundPage

\* The server turns m into a, or drops it, and leaves the pages alone.
LEMMA ServerStep ==
  ASSUME IInv, NEW m \in wire, NEW a, Sound(a)', a.from = m.from, a.live = m.live,
         wire' \in {wire \ {m}, (wire \ {m}) \cup {a}},
         Grown, FilesType', RestType', UNCHANGED client
  PROVE  IInv'
<1>1. PagesType'
  BY DEF IInv, PagesType
<1>2. \A n \in wire' : Sound(n)'
  BY GrownKeepsMessage
<1>3. \A c \in Clients : SoundPage(c)'
  BY GrownKeepsPage
<1>4. OneAtATime'
  BY DEF IInv, OneAtATime
<1> QED
  BY <1>1, <1>2, <1>3, <1>4 DEF IInv

\* Answer, with an answer that promises no more than there is.
LEMMA AnswerStep ==
  ASSUME IInv, NEW m \in wire, NEW i \in FileIds, NEW n \in Nat, NEW b \in BOOLEAN,
         m.stage # "answered",
         Answer(m, [m EXCEPT !.id = i, !.range = n, !.created = b]),
         m.kind # "create" => m.id = i,
         files'[i] \in Contents,
         m.kind \in {"slice", "query"} => Collide \/ n <= Len(files'[i]),
         Grown, FilesType', RestType', UNCHANGED client
  PROVE  IInv'
<1> DEFINE a == [m EXCEPT !.id = i, !.range = n, !.created = b]
           d == [a EXCEPT !.stage = "answered"]
<1>1. Sound(m) /\ m \in Message
  BY DEF IInv, Sound
<1>2. d \in Message
  BY <1>1 DEF Message
<1>3. /\ d.id = i /\ d.range = n /\ d.stage = "answered" /\ d.kind = m.kind
      /\ d.lo = m.lo /\ d.hi = m.hi /\ d.from = m.from /\ d.live = m.live
  BY <1>1 DEF Message
<1>4. Sound(d)'
  <2> HIDE DEF d
  <2> QED
    BY <1>1, <1>2, <1>3 DEF Sound
<1>5. wire' \in {wire \ {m}, (wire \ {m}) \cup {d}}
  BY DEF Answer
<1> HIDE DEF d
<1> QED
  BY <1>3, <1>4, <1>5, ServerStep

LEMMA StepServeCreate == ASSUME IInv, NEW m \in wire, ServeCreate(m) PROVE IInv'
<1>1. PICK i \in FileIds : /\ Collide \/ files[i] = NoFile
                           /\ files' = [files EXCEPT ![i] = <<>>]
                           /\ Answer(m, [m EXCEPT !.id = i])
  BY DEF ServeCreate
<1>2. m.stage = "sent" /\ m.kind = "create" /\ UNCHANGED <<client, flashed, faults>>
  BY DEF ServeCreate, Arrives
<1>3. <<>> \in Contents
  BY DEF Contents
<1>4. FilesType' /\ RestType'
  BY <1>1, <1>2, <1>3 DEF IInv, FilesType, RestType
<1>5. Grown
  BY <1>1, <1>3, AbsentAssumption, LenType DEF IInv, FilesType, Grown
<1>6. files'[i] \in Contents
  BY <1>1, <1>3 DEF IInv, FilesType
<1>7. m.range \in Nat /\ m.created \in BOOLEAN
      /\ [m EXCEPT !.id = i] = [m EXCEPT !.id = i, !.range = m.range, !.created = m.created]
  BY DEF IInv, Sound, Message
<1>8. Answer(m, [m EXCEPT !.id = i, !.range = m.range, !.created = m.created])
  BY <1>1, <1>7
<1> QED
  BY <1>2, <1>4, <1>5, <1>6, <1>7, <1>8, AnswerStep

LEMMA StepServeOpen == ASSUME IInv, NEW m \in wire, ServeOpen(m) PROVE IInv'
<1> PICK a : a = [m EXCEPT !.stage = "open", !.begin = Len(files[m.id])]
  OBVIOUS
<1>1. /\ m.stage = "sent" /\ m.kind = "slice" /\ wire' = (wire \ {m}) \cup {a}
      /\ UNCHANGED <<files, client, flashed, faults>>
  BY DEF ServeOpen, Arrives
<1>2. Sound(m) /\ m \in Message
  BY DEF IInv, Sound
<1>3. Len(files[m.id]) \in Nat
  BY <1>1, <1>2, LenType DEF Sound
<1>4. a \in Message /\ a.stage = "open" /\ a.begin = Len(files[m.id]) /\ a.kind = m.kind
      /\ a.lo = m.lo /\ a.hi = m.hi /\ a.from = m.from /\ a.live = m.live /\ a.id = m.id
  BY <1>2, <1>3 DEF Message
<1>5. Sound(a)'
  BY <1>1, <1>2, <1>3, <1>4 DEF Sound
<1>6. Grown /\ FilesType' /\ RestType'
  BY <1>1, LenType DEF IInv, Grown, FilesType, RestType
<1> QED
  BY <1>1, <1>4, <1>5, <1>6, ServerStep

\* n units of the slice are appended, and the answer counts them only if that is
\* all of it.
LEMMA StepWriteSlice ==
  ASSUME IInv, NEW m \in wire, NEW n \in Nat, n <= m.hi - m.lo, WriteSlice(m, n), RestType'
  PROVE  IInv'
<1> DEFINE part == SubSeq(Image(m.from), m.lo + 1, m.lo + n)
           held == files[m.id]
<1>1. /\ m.stage = "open" /\ files' = [files EXCEPT ![m.id] = held \o part]
      /\ UNCHANGED <<client, flashed>>
  BY DEF WriteSlice
<1>2. /\ m \in Message /\ m.kind = "slice" /\ m.lo < m.hi
      /\ m.id \in FileIds /\ held \in Contents
      /\ Collide \/ m.begin <= Len(held)
  BY <1>1 DEF IInv, Sound
<1>3. m.from \in Clients /\ m.lo \in 0 .. Size /\ m.hi \in 0 .. Size /\ m.begin \in Nat
      /\ m.created \in BOOLEAN
  BY <1>2 DEF Message
<1>4. part \in Contents /\ Len(part) = n
  <2>1. \A k \in m.lo + 1 .. m.lo + n : Image(m.from)[k] \in Clients \X (1 .. Size)
    BY <1>3 DEF Image
  <2>2. m.lo + 1 \in Int /\ m.lo + n \in Int
    BY <1>3
  <2>3. part \in Seq(Clients \X (1 .. Size))
        /\ Len(part) = IF m.lo + 1 <= m.lo + n THEN (m.lo + n) - (m.lo + 1) + 1 ELSE 0
    BY <2>1, <2>2, SubSeqProperties
  <2> QED
    BY <1>3, <2>3 DEF Contents
<1> HIDE DEF part
<1>5. held \o part \in Contents /\ Len(held \o part) = Len(held) + n
  BY <1>2, <1>4, ConcatProperties DEF Contents
<1>6. files'[m.id] = held \o part /\ FilesType'
  BY <1>1, <1>2, <1>5 DEF IInv, FilesType
<1>7. Len(held) \in Nat /\ Len(files'[m.id]) = Len(held) + n
  BY <1>2, <1>5, <1>6, LenType
<1>8. Grown
  BY <1>1, <1>2, <1>5, <1>7, LenType DEF Grown, IInv, FilesType
<1>9. CASE n = m.hi - m.lo /\ Len(held) + n - m.begin = m.hi - m.lo
  <2>1. Written(m, n) = Len(held) + n /\ LastSlice(m) \in BOOLEAN
    BY DEF Written, LastSlice
  <2>2. Answer(m, [m EXCEPT !.range = Written(m, n), !.created = LastSlice(m)])
    BY <1>9 DEF WriteSlice
  <2>3. [m EXCEPT !.range = Written(m, n), !.created = LastSlice(m)]
          = [m EXCEPT !.id = m.id, !.range = Written(m, n), !.created = LastSlice(m)]
    BY <1>2 DEF Message
  <2>4. Answer(m, [m EXCEPT !.id = m.id, !.range = Written(m, n), !.created = LastSlice(m)])
    BY <2>2, <2>3
  <2> HIDE DEF held
  <2>5. Written(m, n) \in Nat /\ Written(m, n) <= Len(files'[m.id])
    BY <1>7, <2>1
  <2> QED
    BY <1>1, <1>2, <1>5, <1>6, <1>8, <2>1, <2>4, <2>5, AnswerStep
<1>10. CASE ~(n = m.hi - m.lo /\ Len(held) + n - m.begin = m.hi - m.lo)
  <2>1. Answer(m, [m EXCEPT !.range = m.begin])
    BY <1>10 DEF WriteSlice
  <2>2. [m EXCEPT !.range = m.begin]
          = [m EXCEPT !.id = m.id, !.range = m.begin, !.created = m.created]
    BY <1>2 DEF Message
  <2>3. Answer(m, [m EXCEPT !.id = m.id, !.range = m.begin, !.created = m.created])
    BY <2>1, <2>2
  <2> HIDE DEF held
  <2>4. Collide \/ m.begin <= Len(files'[m.id])
    BY <1>2, <1>3, <1>7
  <2> QED
    BY <1>1, <1>2, <1>3, <1>5, <1>6, <1>8, <2>3, <2>4, AnswerStep
<1> QED
  BY <1>9, <1>10

LEMMA StepServeWrite == ASSUME IInv, NEW m \in wire, ServeWrite(m) PROVE IInv'
<1>1. WriteSlice(m, m.hi - m.lo) /\ UNCHANGED <<flashed, faults>>
  BY DEF ServeWrite, WriteSlice
<1>2. m.hi - m.lo \in Nat /\ m.hi - m.lo <= m.hi - m.lo
  <2>1. m.stage = "open"
    BY DEF ServeWrite, WriteSlice
  <2> QED
    BY <2>1 DEF IInv, Sound, Message
<1>3. RestType'
  BY <1>1 DEF IInv, RestType
<1> QED
  BY <1>1, <1>2, <1>3, StepWriteSlice

LEMMA StepServeWriteShort == ASSUME IInv, NEW m \in wire, ServeWriteShort(m) PROVE IInv'
<1>1. PICK n \in 0 .. Size : n < m.hi - m.lo /\ WriteSlice(m, n)
  BY DEF ServeWriteShort
<1>2. m.hi \in 0 .. Size /\ m.lo \in 0 .. Size
  BY DEF IInv, Sound, Message
<1>3. n \in Nat /\ n <= m.hi - m.lo
  BY <1>1, <1>2
<1>4. RestType'
  BY <1>1 DEF ServeWriteShort, WriteSlice, IInv, RestType
<1> QED
  BY <1>1, <1>3, <1>4, StepWriteSlice

LEMMA StepServeQuery == ASSUME IInv, NEW m \in wire, ServeQuery(m) PROVE IInv'
<1>1. /\ m.stage = "sent" /\ m.kind = "query"
      /\ Answer(m, [m EXCEPT !.range = Len(files[m.id])])
      /\ UNCHANGED <<files, client, flashed, faults>>
  BY DEF ServeQuery, Arrives
<1>2. m \in Message /\ m.id \in FileIds /\ files[m.id] \in Contents
  BY <1>1 DEF IInv, Sound
<1>3. Len(files[m.id]) \in Nat /\ m.created \in BOOLEAN
  BY <1>2, LenType DEF Message
<1>4. [m EXCEPT !.range = Len(files[m.id])]
        = [m EXCEPT !.id = m.id, !.range = Len(files[m.id]), !.created = m.created]
  BY <1>2 DEF Message
<1>5. Answer(m, [m EXCEPT !.id = m.id, !.range = Len(files[m.id]), !.created = m.created])
  BY <1>1, <1>4
<1>6. Grown /\ FilesType' /\ RestType'
  BY <1>1, LenType DEF IInv, Grown, FilesType, RestType
<1>7. files'[m.id] \in Contents /\ Len(files[m.id]) <= Len(files'[m.id])
  BY <1>1, <1>2, <1>3
<1> QED
  BY <1>1, <1>2, <1>3, <1>5, <1>6, <1>7, AnswerStep

LEMMA StepServeStart == ASSUME IInv, NEW m \in wire, ServeStart(m) PROVE IInv'
<1>1. /\ m.stage = "sent" /\ m.kind = "start" /\ Answer(m, m)
      /\ flashed' = [flashed EXCEPT ![m.from] = files[m.id]]
      /\ UNCHANGED <<files, client, faults>>
  BY DEF ServeStart, Arrives
<1>2. m \in Message /\ m.id \in FileIds /\ files[m.id] \in Contents
  BY <1>1 DEF IInv, Sound
<1>3. m.range \in Nat /\ m.created \in BOOLEAN /\ m.from \in Clients
  BY <1>2 DEF Message
<1>4. m = [m EXCEPT !.id = m.id, !.range = m.range, !.created = m.created]
  BY <1>2 DEF Message
<1>5. Answer(m, [m EXCEPT !.id = m.id, !.range = m.range, !.created = m.created])
  BY <1>1, <1>4
<1>6. Grown /\ FilesType' /\ RestType'
  BY <1>1, <1>2, <1>3, LenType DEF IInv, Grown, FilesType, RestType
<1> QED
  BY <1>1, <1>2, <1>3, <1>5, <1>6, AnswerStep

-----------------------------------------------------------------------------
(* Steps of a page.                                                        *)

\* Page c becomes p, and what is on the wire is old and nothing c waits for, or a
\* sound message of c, one of them live at most.
LEMMA PageStep ==
  ASSUME IInv, NEW c \in Clients, NEW p \in Page, client' = [client EXCEPT ![c] = p],
         \A m \in wire' : \/ m \in wire /\ (m.live => m.from # c)
                          \/ Sound(m)' /\ m.from = c,
         \A m, n \in wire' : m.live /\ n.live /\ m.from = c /\ n.from = c => m = n,
         p.stage = "ready" => p.id \in FileIds,
         p.id # NoFile => /\ files[p.id] \in Contents
                          /\ Collide \/ p.cursor <= Len(files[p.id]),
         UNCHANGED files, RestType'
  PROVE  IInv'
<1>1. FilesType' /\ PagesType'
  BY DEF IInv, FilesType, PagesType
<1>2. client'[c] = p /\ \A d \in Clients : d # c => client'[d] = client[d]
  BY DEF IInv, PagesType
<1>3. ASSUME NEW m \in wire, m.live => m.from # c PROVE Sound(m)'
  <2>1. Sound(m) /\ m.from \in Clients
    BY DEF IInv, Sound, Message
  <2>2. m.live => client'[m.from] = client[m.from]
    BY <1>2, <1>3, <2>1
  <2> QED
    BY <2>1, <2>2 DEF Sound
<1>4. \A m \in wire' : Sound(m)'
  BY <1>3
<1>5. \A d \in Clients : SoundPage(d)'
  BY <1>2 DEF IInv, SoundPage
<1>6. OneAtATime'
  BY DEF IInv, OneAtATime
<1> QED
  BY <1>1, <1>4, <1>5, <1>6 DEF IInv

\* A page that does not wait has nothing live on the wire.
LEMMA Quiet ==
  ASSUME IInv, NEW c \in Clients, client[c].stage # "wait"
  PROVE  \A m \in wire : m.live => m.from # c
  BY DEF IInv, Sound

LEMMA BlankType ==
  ASSUME IInv, NEW c \in Clients
  PROVE  /\ Blank(c) \in Message
         /\ Blank(c).id = client[c].id /\ Blank(c).stage = "sent" /\ Blank(c).from = c
         /\ Blank(c).live /\ Blank(c).kind = "create"
<1>1. client[c].id \in FileIds \cup {NoFile} /\ faults \in 0 .. MaxFaults
  BY DEF IInv, SoundPage, Page, RestType
<1> QED
  BY <1>1 DEF Blank, Message

\* A page that is ready sends a message about its file.
LEMMA SendStep ==
  ASSUME IInv, NEW c \in Clients, client[c].stage = "ready",
         NEW m \in Message, Send(c, m), m.from = c, m.kind # "create", m.stage = "sent",
         m.id = client[c].id, m.kind = "slice" => m.lo < m.hi,
         UNCHANGED <<files, flashed, faults>>
  PROVE  IInv'
<1>0. PICK p : p = [client[c] EXCEPT !.stage = "wait"]
  OBVIOUS
<1>1. SoundPage(c) /\ client[c] \in Page
  BY DEF IInv, SoundPage
<1>2. p \in Page /\ p.id = client[c].id /\ p.cursor = client[c].cursor /\ p.stage = "wait"
  BY <1>0, <1>1 DEF Page
<1>3. client' = [client EXCEPT ![c] = p] /\ wire' = wire \cup {m}
  BY <1>0 DEF Send
<1>4. m.id \in FileIds /\ m.id # NoFile /\ files[m.id] \in Contents
  BY <1>1, AbsentAssumption DEF SoundPage
<1>5. client'[c] = p
  BY <1>3 DEF IInv, PagesType
<1>6. Sound(m)'
  BY <1>2, <1>4, <1>5 DEF Sound
<1>7. \A n \in wire : n.live => n.from # c
  BY Quiet
<1>8. RestType'
  BY DEF IInv, RestType
<1>9. p.id # NoFile => /\ files[p.id] \in Contents
                       /\ Collide \/ p.cursor <= Len(files[p.id])
  BY <1>1, <1>2 DEF SoundPage
<1>10. \A n \in wire' : \/ n \in wire /\ (n.live => n.from # c)
                        \/ Sound(n)' /\ n.from = c
  BY <1>3, <1>6, <1>7
<1>11. \A k, n \in wire' : k.live /\ n.live /\ k.from = c /\ n.from = c => k = n
  BY <1>3, <1>7
<1>12. p \in Page /\ p.stage # "ready" /\ UNCHANGED files
  BY <1>2
<1> QED
  BY <1>3, <1>8, <1>9, <1>10, <1>11, <1>12, PageStep

LEMMA StepBegin == ASSUME IInv, NEW c \in Clients, Begin(c) PROVE IInv'
<1>0. PICK p : p = [stage |-> "wait", id |-> NoFile, cursor |-> 0]
  OBVIOUS
<1>10. PICK m : m = [Blank(c) EXCEPT !.id = NoFile]
  OBVIOUS
<1>1. p \in Page /\ p.stage = "wait" /\ p.id = NoFile
  BY <1>0 DEF Page
<1>2. m \in Message /\ m.from = c /\ m.kind = "create" /\ m.stage = "sent"
  BY <1>10, BlankType DEF Message
<1>3. client' = [client EXCEPT ![c] = p] /\ wire' = wire \cup {m}
      /\ client[c].stage # "wait" /\ UNCHANGED <<files, flashed, faults>>
  BY <1>0, <1>10 DEF Begin
<1>4. client'[c] = p
  BY <1>3 DEF IInv, PagesType
<1>5. Sound(m)'
  BY <1>1, <1>2, <1>4 DEF Sound
<1>6. \A n \in wire : n.live => n.from # c
  BY <1>3, Quiet
<1>7. RestType'
  BY <1>3 DEF IInv, RestType
<1>8. \A n \in wire' : \/ n \in wire /\ (n.live => n.from # c)
                       \/ Sound(n)' /\ n.from = c
  BY <1>2, <1>3, <1>5, <1>6
<1>9. \A k, n \in wire' : k.live /\ n.live /\ k.from = c /\ n.from = c => k = n
  BY <1>3, <1>6
<1>11. p.stage # "ready" /\ UNCHANGED files
  BY <1>1, <1>3
<1> QED
  BY <1>1, <1>3, <1>7, <1>8, <1>9, <1>11, PageStep

LEMMA StepPutSlice == ASSUME IInv, NEW c \in Clients, PutSlice(c) PROVE IInv'
<1> PICK lo : lo = client[c].cursor
  OBVIOUS
<1> PICK hi : hi = IF lo + PerSize >= Size THEN Size ELSE lo + PerSize
  OBVIOUS
<1> PICK m : m = [Blank(c) EXCEPT !.kind = "slice", !.lo = lo, !.hi = hi]
  OBVIOUS
<1>1. client[c].stage = "ready" /\ lo < Size /\ Send(c, m) /\ UNCHANGED <<files, flashed, faults>>
  BY DEF PutSlice
<1>2. lo \in Nat
  BY DEF IInv, SoundPage, Page
<1>3. lo \in 0 .. Size /\ hi \in 0 .. Size /\ lo < hi
  BY <1>1, <1>2
<1>4. Blank(c) \in Message
      /\ m.lo = lo /\ m.hi = hi /\ m.kind = "slice"
      /\ m.from = Blank(c).from /\ m.stage = Blank(c).stage /\ m.id = Blank(c).id
  BY BlankType DEF Message
<1>5. m \in Message
  BY <1>3, <1>4 DEF Message
<1>6. m.from = c /\ m.stage = "sent" /\ m.id = client[c].id
  BY <1>4, BlankType
<1> QED
  BY <1>1, <1>3, <1>4, <1>5, <1>6, SendStep

LEMMA StepPutStart == ASSUME IInv, NEW c \in Clients, PutStart(c) PROVE IInv'
<1> PICK m : m = [Blank(c) EXCEPT !.kind = "start"]
  OBVIOUS
<1>1. client[c].stage = "ready" /\ Send(c, m) /\ UNCHANGED <<files, flashed, faults>>
  BY DEF PutStart
<1>2. m \in Message /\ m.from = c /\ m.kind = "start" /\ m.stage = "sent" /\ m.id = client[c].id
  BY BlankType DEF Message
<1> QED
  BY <1>1, <1>2, SendStep

LEMMA StepReceive == ASSUME IInv, NEW m \in wire, Receive(m) PROVE IInv'
<1> DEFINE c == m.from
           old == client[c]
           p == CASE m.kind = "create" -> [stage |-> "ready", id |-> m.id, cursor |-> 0]
                  [] m.kind = "start"  -> [old EXCEPT !.stage = "done"]
                  [] OTHER             -> [old EXCEPT !.stage = "ready", !.cursor = m.range]
<1>1. m.live /\ m.stage = "answered" /\ wire' = wire \ {m}
      /\ client' = [client EXCEPT ![c] = p] /\ UNCHANGED <<files, flashed, faults>>
  BY DEF Receive
<1>2. Sound(m) /\ m \in Message /\ c \in Clients /\ m.range \in Nat
      /\ m.kind \in {"create", "slice", "query", "start"}
  BY DEF IInv, Sound, Message
<1>3. m.id \in FileIds /\ files[m.id] \in Contents /\ (m.kind # "create" => m.id = old.id)
  BY <1>1, <1>2 DEF Sound
<1>4. SoundPage(c) /\ old \in Page
  BY <1>2 DEF IInv, SoundPage
<1>5. /\ p \in Page /\ p.id = m.id
      /\ p.cursor \in {0, m.range, old.cursor}
      /\ p.cursor = 0 \/ (m.kind = "start" /\ p.cursor = old.cursor)
           \/ (m.kind \in {"slice", "query"} /\ p.cursor = m.range)
  <2>1. CASE m.kind = "create"
    BY <1>2, <1>3, <2>1 DEF Page
  <2>2. CASE m.kind = "start"
    BY <1>2, <1>3, <1>4, <2>2 DEF Page
  <2>3. CASE m.kind \in {"slice", "query"}
    <3>1. p = [old EXCEPT !.stage = "ready", !.cursor = m.range]
      BY <2>3
    <3> QED
      BY <1>2, <1>3, <1>4, <2>3, <3>1 DEF Page
  <2> QED
    BY <1>2, <2>1, <2>2, <2>3
<1>6. Collide \/ p.cursor <= Len(files[m.id])
  <2>1. Len(files[m.id]) \in Nat
    BY <1>3, LenType
  <2>2. m.kind \in {"slice", "query"} => Collide \/ m.range <= Len(files[m.id])
    BY <1>1, <1>2 DEF Sound
  <2>3. m.kind = "start" => Collide \/ old.cursor <= Len(files[m.id])
    BY <1>3, <1>4, AbsentAssumption DEF SoundPage
  <2> HIDE DEF p
  <2> QED
    BY <1>5, <2>1, <2>2, <2>3
<1> HIDE DEF p
<1>7. \A n \in wire' : n \in wire /\ (n.live => n.from # c)
  BY <1>1 DEF IInv, OneAtATime
<1>8. RestType'
  BY <1>1 DEF IInv, RestType
<1>9. \A k, n \in wire' : k.live /\ n.live /\ k.from = c /\ n.from = c => k = n
  BY <1>7
<1>10. PICK t : t = p
  OBVIOUS
<1>11. /\ t \in Page /\ client' = [client EXCEPT ![c] = t]
       /\ t.stage = "ready" => t.id \in FileIds
       /\ t.id # NoFile => /\ files[t.id] \in Contents
                           /\ Collide \/ t.cursor <= Len(files[t.id])
  BY <1>1, <1>3, <1>5, <1>6, <1>10
<1> HIDE DEF c
<1> QED
  BY <1>1, <1>2, <1>7, <1>8, <1>9, <1>11, PageStep

LEMMA StepGiveUp == ASSUME IInv, NEW m \in wire, GiveUp(m) PROVE IInv'
<1> PICK c : c = m.from
  OBVIOUS
<1> PICK stage : stage = CASE m.kind = "slice"  -> "wait"
                           [] m.kind = "query"  -> "failed"
                           [] m.kind = "create" -> "idle"
                           [] m.kind = "start"  -> "done"
  OBVIOUS
<1> PICK p : p = [client[c] EXCEPT !.stage = stage]
  OBVIOUS
<1> PICK gone : gone = [m EXCEPT !.live = FALSE]
  OBVIOUS
<1> PICK ask : ask = [Blank(c) EXCEPT !.kind = "query", !.no = faults + 1]
  OBVIOUS
<1>1. /\ m.live /\ faults < MaxFaults /\ faults' = faults + 1
      /\ client' = [client EXCEPT ![c] = p]
      /\ UNCHANGED <<files, flashed>>
  BY DEF GiveUp
<1>2. wire' = (wire \ {m}) \cup (IF Late /\ m.stage # "answered" THEN {gone} ELSE {})
                          \cup (IF m.kind = "slice" THEN {ask} ELSE {})
  BY <1>1 DEF GiveUp
<1>3. Sound(m) /\ m \in Message /\ c \in Clients
      /\ m.kind \in {"create", "slice", "query", "start"}
  BY DEF IInv, Sound, Message
<1>4. SoundPage(c) /\ client[c] \in Page
  BY <1>3 DEF IInv, SoundPage
<1>5. faults + 1 \in 0 .. MaxFaults /\ RestType'
  BY <1>1 DEF IInv, RestType
<1>6. stage \in {"idle", "wait", "done", "failed"} /\ (m.kind = "slice" => stage = "wait")
  BY <1>3
<1>7. p \in Page /\ p.id = client[c].id /\ p.cursor = client[c].cursor /\ p.stage = stage
  BY <1>4, <1>6 DEF Page
<1>8. client'[c] = p
  BY <1>1, <1>3 DEF IInv, PagesType
<1>9. Sound(gone)' /\ gone.from = c /\ ~gone.live
  <2>1. gone \in Message /\ ~gone.live /\ gone.from = m.from /\ gone.kind = m.kind
        /\ gone.id = m.id /\ gone.stage = m.stage /\ gone.lo = m.lo /\ gone.hi = m.hi
        /\ gone.begin = m.begin /\ gone.range = m.range
    BY <1>3 DEF Message
  <2> QED
    BY <1>1, <1>3, <2>1 DEF Sound
<1>10. ASSUME m.kind = "slice" PROVE Sound(ask)' /\ ask.from = c
  <2>1. Blank(c) \in Message /\ Blank(c).id = client[c].id /\ Blank(c).stage = "sent"
        /\ Blank(c).from = c
    BY <1>3, BlankType
  <2>2. ask \in Message /\ ask.kind = "query" /\ ask.stage = "sent" /\ ask.from = c
        /\ ask.id = client[c].id
    BY <1>5, <2>1 DEF Message
  <2>3. ask.id \in FileIds /\ files[ask.id] \in Contents
    BY <1>1, <1>3, <1>10, <2>2 DEF Sound
  <2>4. client'[c].stage = "wait" /\ client'[c].id = ask.id
    BY <1>6, <1>7, <1>8, <1>10, <2>2
  <2> QED
    BY <1>1, <2>2, <2>3, <2>4 DEF Sound
<1>11. \A n \in wire \ {m} : n.live => n.from # c
  BY <1>1 DEF IInv, OneAtATime
<1>12. \A n \in wire' : \/ n \in wire /\ (n.live => n.from # c)
                        \/ Sound(n)' /\ n.from = c
  BY <1>2, <1>9, <1>10, <1>11
<1>13. \A k, n \in wire' : k.live /\ n.live /\ k.from = c /\ n.from = c => k = n
  BY <1>2, <1>9, <1>11
<1>14. (p.stage = "ready" => p.id \in FileIds)
       /\ (p.id # NoFile => /\ files[p.id] \in Contents
                            /\ Collide \/ p.cursor <= Len(files[p.id]))
  BY <1>4, <1>6, <1>7 DEF SoundPage
<1> QED
  BY <1>1, <1>3, <1>5, <1>7, <1>12, <1>13, <1>14, PageStep

-----------------------------------------------------------------------------
(* The theorems.                                                           *)

LEMMA InvStep == IInv /\ [Next]_vars => IInv'
<1> SUFFICES ASSUME IInv, [Next]_vars PROVE IInv'
  OBVIOUS
<1>1. ASSUME NEW c \in Clients, Web(c) PROVE IInv'
  BY <1>1, StepBegin, StepPutSlice, StepPutStart DEF Web
<1>2. ASSUME NEW m \in wire, Serve(m) \/ Receive(m) \/ GiveUp(m) PROVE IInv'
  BY <1>2, StepServeCreate, StepServeOpen, StepServeWrite, StepServeWriteShort,
     StepServeQuery, StepServeStart, StepReceive, StepGiveUp DEF Serve
<1>3. CASE UNCHANGED vars
  BY <1>3 DEF vars, IInv, FilesType, RestType, PagesType, Sound, SoundPage, OneAtATime
<1> QED
  BY <1>1, <1>2, <1>3 DEF Next

THEOREM Invariance == Spec => []IInv
  BY InitInv, InvStep, PTL DEF Spec

\* Files, pages and messages keep their shapes; in particular no request is served
\* for a file that does not exist, and no slice reaches beyond the image.
THEOREM TypeCorrect == Spec => []TypeOK
<1>1. IInv => TypeOK
  <2>1. IInv => wire \subseteq Message
    BY DEF IInv, Sound
  <2> QED
    BY <2>1 DEF IInv, TypeOK, FilesType, RestType, PagesType
<1> QED
  BY <1>1, Invariance, PTL

\* As long as no upload is given the file of another, a page never believes more
\* to be there than is, whatever is late, repeated or cut short (system_api.cpp:302).
THEOREM NeverTooShort == ASSUME ~Collide PROVE Spec => []NeverShort
<1>1. IInv => NeverShort
  BY DEF IInv, SoundPage, NeverShort
<1> QED
  BY <1>1, Invariance, PTL
-----------------------------------------------------------------------------
(* The refinement.  In a world where no request is served late, no write is  *)
(* cut short and no file is given away twice, the protocol of Upgrade        *)
(* implements Transfer: for any number of browsers, any image and slice size, *)
(* and any number of requests and answers lost.                            *)

Clean == ~Late /\ ~Short /\ ~Collide

-----------------------------------------------------------------------------
(* The invariant: page, wire and file agree on how much has arrived.        *)

Whole(c, i) == files[i] = Image(c)

\* A slice begins where the file ends, an answer says where the file ends, a file
\* just created is empty and nobody's, and only a whole image is started.
Exact(m) ==
  /\ m.live
  /\ m.kind = "slice" => m.hi \in {Size, m.lo + PerSize}
  /\ (m.kind = "slice" /\ m.stage # "answered") => m.lo = Len(files[m.id])
  /\ m.stage = "open" => m.begin = Len(files[m.id])
  /\ (m.kind \in {"slice", "query"} /\ m.stage = "answered") => m.range = Len(files[m.id])
  /\ (m.kind = "create" /\ m.stage = "answered") =>
       /\ files[m.id] = <<>>
       /\ \A c \in Clients : client[c].id # m.id
  /\ m.kind = "start" => Whole(m.from, m.id)
  /\ m.created => m.kind = "slice" /\ m.stage = "answered" /\ Whole(m.from, m.id)

\* A page's file holds a beginning of its image, and a page that is ready knows
\* how long it is.
Beginning(c, i) == /\ Len(files[i]) <= Size
                   /\ files[i] = SubSeq(Image(c), 1, Len(files[i]))
ExactPage(c) ==
  /\ client[c].id # NoFile => Beginning(c, client[c].id)
  /\ client[c].stage = "ready" => client[c].cursor = Len(files[client[c].id])

Owned == \A c, d \in Clients : (client[c].id = client[d].id /\ client[c].id # NoFile) => c = d

Created(m) == m.kind = "create" /\ m.stage = "answered"
Fresh == \A m, n \in wire : (Created(m) /\ Created(n) /\ m.id = n.id) => m = n

XInv == /\ \A m \in wire : Exact(m)
        /\ \A c \in Clients : ExactPage(c)
        /\ Owned /\ Fresh

LEMMA InitExact == Init => XInv
  BY DEF Init, XInv, ExactPage, Owned, Fresh

-----------------------------------------------------------------------------
(* About images.                                                           *)

LEMMA ImageType ==
  ASSUME NEW c \in Clients
  PROVE  Image(c) \in Seq(Clients \X (1 .. Size)) /\ Len(Image(c)) = Size
<1>1. Size \in Nat /\ \A n \in 1 .. Size : <<c, n>> \in Clients \X (1 .. Size)
  OBVIOUS
<1>2. PICK s : s = Image(c)
  OBVIOUS
<1>3. s = [n \in 1 .. Size |-> <<c, n>>]
  BY <1>2 DEF Image
<1>4. s \in [1 .. Size -> Clients \X (1 .. Size)]
  BY <1>1, <1>3
<1>5. s \in Seq(Clients \X (1 .. Size)) /\ Len(s) = Size
  <2>1. PICK R : R = Clients \X (1 .. Size)
    OBVIOUS
  <2>2. s \in [1 .. Size -> R]
    BY <1>4, <2>1
  <2>3. s \in Seq(R)
    BY <1>1, <2>2
  <2>4. DOMAIN s = 1 .. Size /\ Size \in Nat
    BY <1>1, <2>2
  <2> QED
    BY <2>1, <2>3, <2>4, LenProperties
<1> QED
  BY <1>2, <1>5

LEMMA WholeImage ==
  ASSUME NEW c \in Clients
  PROVE  SubSeq(Image(c), 1, Size) = Image(c)
  BY ImageType, SubSeqFull

LEMMA NoImage ==
  ASSUME NEW c \in Clients
  PROVE  SubSeq(Image(c), 1, 0) = <<>>
  BY SubSeqEmpty

LEMMA FirstPart ==
  ASSUME NEW c \in Clients, NEW n \in 0 .. Size
  PROVE  Len(SubSeq(Image(c), 1, n)) = n
<1>1. \A k \in 1 .. n : k \in 1 .. Size /\ Image(c)[k] = <<c, k>>
  BY DEF Image
<1>2. \A k \in 1 .. n : Image(c)[k] \in Clients \X (1 .. Size)
  BY <1>1
<1>3. 1 \in Int /\ n \in Int /\ (1 <= n \/ n = 0)
  OBVIOUS
<1>4. Len(SubSeq(Image(c), 1, n)) = IF 1 <= n THEN n - 1 + 1 ELSE 0
  BY <1>2, <1>3, SubSeqProperties
<1> QED
  BY <1>3, <1>4

\* the next slice behind what is there
LEMMA NextSlice ==
  ASSUME NEW c \in Clients, NEW lo \in 0 .. Size, NEW hi \in lo .. Size
  PROVE  SubSeq(Image(c), 1, lo) \o SubSeq(Image(c), lo + 1, hi) = SubSeq(Image(c), 1, hi)
<1>1. 1 \in 1 .. Len(Image(c)) + 1 /\ lo \in 1 - 1 .. Len(Image(c)) /\ hi \in lo .. Len(Image(c))
  BY ImageType
<1> QED
  BY <1>1, ImageType, ConcatAdjacentSubSeq

-----------------------------------------------------------------------------
(* Who refers to a file.                                                   *)

\* A message that is about a file, and is not one that has just created it, is its
\* owner's only one.
LEMMA OneOwner ==
  ASSUME IInv, XInv, NEW m \in wire, NEW n \in wire, m.id = n.id,
         m.kind # "create", n.kind # "create" \/ n.stage = "answered"
  PROVE  n = m
<1>1. /\ m.live /\ n.live /\ m.from \in Clients /\ n.from \in Clients
      /\ m.id = client[m.from].id /\ m.id \in FileIds
  BY DEF IInv, XInv, Sound, Exact, Message
<1>2. n.kind # "create"
  <2>1. Exact(n)
    BY DEF XInv
  <2> QED
    BY <1>1, <2>1 DEF Exact
<1>3. n.id = client[n.from].id
  BY <1>1, <1>2 DEF IInv, Sound
<1>4. m.from = n.from
  BY <1>1, <1>3, AbsentAssumption DEF XInv, Owned
<1> QED
  BY <1>1, <1>4 DEF IInv, OneAtATime

-----------------------------------------------------------------------------
(* Steps of the server.                                                    *)

\* The server turns m into a, and leaves alone the files of all other messages.
LEMMA ExactServer ==
  ASSUME IInv, XInv, NEW m \in wire, NEW a, Exact(a)',
         wire' \in {wire \ {m}, (wire \ {m}) \cup {a}}, UNCHANGED client,
         \A n \in wire \ {m} : (n.kind # "create" \/ n.stage = "answered")
                                 => files'[n.id] = files[n.id],
         \A c \in Clients : ExactPage(c)',
         Created(a) => \A n \in wire \ {m} : Created(n) => n.id # a.id
  PROVE  XInv'
<1>1. ASSUME NEW n \in wire \ {m} PROVE Exact(n)'
  <2>1. Exact(n) /\ Sound(n)
    BY DEF XInv, IInv
  <2> QED
    BY <1>1, <2>1 DEF Exact, Sound, Whole, Message
<1>2. \A n \in wire' : Exact(n)'
  BY <1>1
<1>3. Owned'
  BY DEF XInv, Owned
<1>4. Fresh'
  BY DEF XInv, Fresh, Created
<1> QED
  BY <1>2, <1>3, <1>4 DEF XInv

\* Files that stay are as good a beginning as before.
LEMMA SamePages ==
  ASSUME IInv, XInv, UNCHANGED client,
         \A c \in Clients : client[c].id # NoFile => files'[client[c].id] = files[client[c].id]
  PROVE  \A c \in Clients : ExactPage(c)'
<1>1. \A c \in Clients : ExactPage(c) /\ SoundPage(c)
  BY DEF IInv, XInv
<1> QED
  BY <1>1, AbsentAssumption DEF ExactPage, Beginning, SoundPage

LEMMA ExactServeCreate == ASSUME IInv, XInv, Clean, NEW m \in wire, ServeCreate(m) PROVE XInv'
<1>1. PICK i \in FileIds : /\ files[i] = NoFile
                           /\ files' = [files EXCEPT ![i] = <<>>]
                           /\ Answer(m, [m EXCEPT !.id = i])
  BY DEF ServeCreate, Clean
<1>2. PICK a : a = [[m EXCEPT !.id = i] EXCEPT !.stage = "answered"]
  OBVIOUS
<1>3. m.kind = "create" /\ m.stage = "sent" /\ m \in Message /\ Exact(m) /\ UNCHANGED client
  BY DEF ServeCreate, Arrives, IInv, XInv, Sound
<1>4. /\ a.live = m.live /\ a.kind = "create" /\ a.stage = "answered" /\ a.id = i
      /\ a.created = m.created /\ a.from = m.from
  BY <1>2, <1>3 DEF Message
<1>5. \A n \in wire : (n.kind # "create" \/ n.stage = "answered") => n.id # i
  BY <1>1, AbsentAssumption DEF IInv, Sound
<1>6. \A c \in Clients : client[c].id # i
  BY <1>1, AbsentAssumption DEF IInv, SoundPage
<1>7. /\ files'[i] = <<>>
      /\ \A j \in FileIds : j # i => files'[j] = files[j]
  BY <1>1 DEF IInv, FilesType
<1>8. Exact(a)'
  BY <1>3, <1>4, <1>6, <1>7 DEF Exact
<1>9. \A n \in wire \ {m} : (n.kind # "create" \/ n.stage = "answered")
                              => files'[n.id] = files[n.id]
  BY <1>5, <1>7 DEF IInv, Sound
<1>10. \A c \in Clients : client[c].id # NoFile => files'[client[c].id] = files[client[c].id]
  BY <1>6, <1>7 DEF IInv, SoundPage, Page
<1>11. \A c \in Clients : ExactPage(c)'
  BY <1>3, <1>10, SamePages
<1>12. wire' \in {wire \ {m}, (wire \ {m}) \cup {a}}
  BY <1>1, <1>2 DEF Answer
<1>13. \A n \in wire \ {m} : Created(n) => n.id # a.id
  BY <1>4, <1>5 DEF Created
<1> QED
  BY <1>3, <1>8, <1>9, <1>11, <1>12, <1>13, ExactServer

\* A step that only turns m into a.
LEMMA ExactTurn ==
  ASSUME IInv, XInv, NEW m \in wire, NEW a, Exact(a)', ~Created(a),
         wire' \in {wire \ {m}, (wire \ {m}) \cup {a}}, UNCHANGED <<files, client>>
  PROVE  XInv'
<1>1. \A c \in Clients : ExactPage(c)'
  BY SamePages
<1> QED
  BY <1>1, ExactServer

LEMMA ExactServeOpen == ASSUME IInv, XInv, NEW m \in wire, ServeOpen(m) PROVE XInv'
<1>1. PICK a : a = [m EXCEPT !.stage = "open", !.begin = Len(files[m.id])]
  OBVIOUS
<1>2. /\ m.kind = "slice" /\ m.stage = "sent" /\ m \in Message /\ Exact(m)
      /\ wire' = (wire \ {m}) \cup {a} /\ UNCHANGED <<files, client>>
  BY <1>1 DEF ServeOpen, Arrives, IInv, XInv, Sound
<1>3. /\ a.live = m.live /\ a.kind = m.kind /\ a.stage = "open" /\ a.id = m.id
      /\ a.created = m.created /\ a.lo = m.lo /\ a.hi = m.hi /\ a.begin = Len(files[m.id])
  BY <1>1, <1>2 DEF Message
<1>4. Exact(a)' /\ ~Created(a)
  BY <1>2, <1>3 DEF Exact, Created
<1> QED
  BY <1>2, <1>4, ExactTurn

LEMMA ExactServeQuery == ASSUME IInv, XInv, NEW m \in wire, ServeQuery(m) PROVE XInv'
<1>1. PICK a : a = [[m EXCEPT !.range = Len(files[m.id])] EXCEPT !.stage = "answered"]
  OBVIOUS
<1>2. /\ m.kind = "query" /\ m.stage = "sent" /\ m \in Message /\ Exact(m)
      /\ wire' \in {wire \ {m}, (wire \ {m}) \cup {a}} /\ UNCHANGED <<files, client>>
  BY <1>1 DEF ServeQuery, Arrives, Answer, IInv, XInv, Sound
<1>3. /\ a.live = m.live /\ a.kind = m.kind /\ a.stage = "answered" /\ a.id = m.id
      /\ a.created = m.created /\ a.range = Len(files[m.id])
  BY <1>1, <1>2 DEF Message
<1>4. Exact(a)' /\ ~Created(a)
  BY <1>2, <1>3 DEF Exact, Created
<1> QED
  BY <1>2, <1>4, ExactTurn

LEMMA ExactServeStart == ASSUME IInv, XInv, NEW m \in wire, ServeStart(m) PROVE XInv'
<1>1. PICK a : a = [m EXCEPT !.stage = "answered"]
  OBVIOUS
<1>2. /\ m.kind = "start" /\ m.stage = "sent" /\ m \in Message /\ Exact(m)
      /\ wire' \in {wire \ {m}, (wire \ {m}) \cup {a}} /\ UNCHANGED <<files, client>>
  BY <1>1 DEF ServeStart, Arrives, Answer, IInv, XInv, Sound
<1>3. /\ a.live = m.live /\ a.kind = m.kind /\ a.stage = "answered" /\ a.id = m.id
      /\ a.created = m.created /\ a.from = m.from
  BY <1>1, <1>2 DEF Message
<1>4. Exact(a)' /\ ~Created(a)
  BY <1>2, <1>3 DEF Exact, Created, Whole
<1> QED
  BY <1>2, <1>4, ExactTurn

\* What a whole write does: the owner's file grows to the end of the slice.
LEMMA WriteGrows ==
  ASSUME IInv, XInv, NEW m \in wire, ServeWrite(m)
  PROVE  /\ m.stage = "open" /\ m.kind = "slice" /\ m \in Message
         /\ m.from \in Clients /\ m.id \in FileIds /\ m.id = client[m.from].id
         /\ m.lo \in 0 .. Size /\ m.hi \in 0 .. Size /\ m.lo < m.hi
         /\ Len(files[m.id]) = m.lo
         /\ files'[m.id] = SubSeq(Image(m.from), 1, m.hi) /\ Len(files'[m.id]) = m.hi
         /\ \A j \in FileIds : j # m.id => files'[j] = files[j]
         /\ UNCHANGED <<client, flashed>>
<1> DEFINE n == m.hi - m.lo
<1>1. /\ m.stage = "open" /\ UNCHANGED <<client, flashed>>
      /\ files' = [files EXCEPT ![m.id] = @ \o SubSeq(Image(m.from), m.lo + 1, m.lo + n)]
  BY DEF ServeWrite, WriteSlice
<1>2. Sound(m) /\ Exact(m) /\ m.kind = "slice" /\ m \in Message
  BY <1>1 DEF IInv, XInv, Sound
<1>3. /\ m.from \in Clients /\ m.id \in FileIds /\ m.id = client[m.from].id
      /\ m.lo \in 0 .. Size /\ m.hi \in 0 .. Size /\ m.lo < m.hi
      /\ Len(files[m.id]) = m.lo
  BY <1>1, <1>2 DEF Sound, Exact, Message
<1>4. files[m.id] = SubSeq(Image(m.from), 1, m.lo)
  BY <1>3, AbsentAssumption DEF XInv, ExactPage, Beginning
<1>5. m.lo + n = m.hi /\ m.hi \in m.lo .. Size
  BY <1>3
<1>6. files'[m.id] = SubSeq(Image(m.from), 1, m.hi)
  BY <1>1, <1>3, <1>4, <1>5, NextSlice DEF IInv, FilesType
<1>7. Len(SubSeq(Image(m.from), 1, m.hi)) = m.hi
  BY <1>3, FirstPart
<1>8. \A j \in FileIds : j # m.id => files'[j] = files[j]
  BY <1>1 DEF IInv, FilesType
<1> QED
  BY <1>1, <1>2, <1>3, <1>6, <1>7, <1>8

LEMMA ExactServeWrite == ASSUME IInv, XInv, NEW m \in wire, ServeWrite(m) PROVE XInv'
<1>1. PICK a : a = [[m EXCEPT !.range = Written(m, m.hi - m.lo), !.created = LastSlice(m)]
                      EXCEPT !.stage = "answered"]
  OBVIOUS
<1>2. Sound(m) /\ Exact(m)
  BY DEF IInv, XInv
<1>3. /\ m.stage = "open" /\ m.kind = "slice" /\ m \in Message
      /\ m.from \in Clients /\ m.id \in FileIds /\ m.id = client[m.from].id
      /\ m.lo \in 0 .. Size /\ m.hi \in 0 .. Size /\ m.lo < m.hi
      /\ Len(files[m.id]) = m.lo
      /\ files'[m.id] = SubSeq(Image(m.from), 1, m.hi) /\ Len(files'[m.id]) = m.hi
      /\ \A j \in FileIds : j # m.id => files'[j] = files[j]
      /\ UNCHANGED client
  BY WriteGrows
<1>4. m.begin = m.lo /\ m.hi \in {Size, m.lo + PerSize} /\ m.live
  BY <1>2, <1>3 DEF Exact
<1>5. Answer(m, [m EXCEPT !.range = Written(m, m.hi - m.lo), !.created = LastSlice(m)])
  <2>1. Len(files[m.id]) + (m.hi - m.lo) - m.begin = m.hi - m.lo
    BY <1>3, <1>4
  <2> QED
    BY <2>1 DEF ServeWrite, WriteSlice
<1>6. wire' \in {wire \ {m}, (wire \ {m}) \cup {a}}
  BY <1>1, <1>5 DEF Answer
<1>7. Written(m, m.hi - m.lo) = m.hi
  BY <1>3 DEF Written
<1>8. /\ a.live = m.live /\ a.kind = m.kind /\ a.stage = "answered" /\ a.id = m.id
      /\ a.created = LastSlice(m) /\ a.range = m.hi /\ a.hi = m.hi /\ a.lo = m.lo
      /\ a.from = m.from
  BY <1>1, <1>3, <1>7 DEF Message
<1>9. LastSlice(m) => files'[m.id] = Image(m.from)
  <2>0. m.lo \in Int /\ m.hi \in Int /\ PerSize \in Int
    BY <1>3
  <2>1. LastSlice(m) => m.hi = Size
    <3>1. m.hi = m.lo + PerSize => m.hi - m.lo = PerSize
      BY <2>0
    <3> QED
      BY <1>4, <2>0, <3>1 DEF LastSlice
  <2> QED
    BY <1>3, <2>1, WholeImage
<1>10. Exact(a)' /\ ~Created(a)
  BY <1>3, <1>4, <1>8, <1>9 DEF Exact, Whole, Created
<1>11. \A n \in wire \ {m} : (n.kind # "create" \/ n.stage = "answered")
                               => files'[n.id] = files[n.id]
  <2>1. ASSUME NEW n \in wire \ {m}, n.kind # "create" \/ n.stage = "answered"
        PROVE  n.id # m.id /\ n.id \in FileIds
    BY <1>3, <2>1, OneOwner DEF IInv, Sound
  <2> QED
    BY <1>3, <2>1
<1>12. ASSUME NEW c \in Clients PROVE ExactPage(c)'
  <2>1. ExactPage(c) /\ SoundPage(c)
    BY DEF IInv, XInv
  <2>2. CASE c = m.from
    <3>1. client[c].stage = "wait"
      BY <1>2, <1>4, <2>2 DEF Sound
    <3> QED
      BY <1>3, <2>2, <3>1 DEF ExactPage, Beginning
  <2>3. CASE c # m.from
    <3>1. client[c].id # m.id
      BY <1>3, <2>3, AbsentAssumption DEF XInv, Owned
    <3>2. client[c].id # NoFile => client[c].id \in FileIds
      BY <2>1 DEF SoundPage, Page
    <3> QED
      BY <1>3, <2>1, <3>1, <3>2, AbsentAssumption DEF ExactPage, Beginning, SoundPage
  <2> QED
    BY <2>2, <2>3
<1> QED
  BY <1>3, <1>6, <1>10, <1>11, <1>12, ExactServer

-----------------------------------------------------------------------------
(* Steps of a page.                                                        *)

\* Page c becomes p, with its old file or one that is nobody's; what is new on the
\* wire was just sent.
LEMMA ExactWeb ==
  ASSUME IInv, XInv, NEW c \in Clients, NEW p \in Page, client' = [client EXCEPT ![c] = p],
         \A n \in wire' : \/ n \in wire /\ (Created(n) => p.id # n.id)
                          \/ Exact(n)' /\ n.stage = "sent",
         p.id \in {NoFile, client[c].id} \/ \A d \in Clients : client[d].id # p.id,
         p.id # NoFile => Beginning(c, p.id),
         p.stage = "ready" => p.cursor = Len(files[p.id]),
         UNCHANGED files
  PROVE  XInv'
<1>1. client'[c] = p /\ \A d \in Clients : d # c => client'[d] = client[d]
  BY DEF IInv, PagesType
<1>2. ASSUME NEW n \in wire, Created(n) => p.id # n.id PROVE Exact(n)'
  <2>1. Exact(n)
    BY DEF XInv
  <2>2. Created(n) => \A d \in Clients : client'[d].id # n.id
    BY <1>1, <1>2, <2>1 DEF Exact, Created
  <2> QED
    BY <2>1, <2>2 DEF Exact, Created, Whole
<1>3. \A n \in wire' : Exact(n)'
  BY <1>2
<1>4. ASSUME NEW d \in Clients PROVE ExactPage(d)'
  <2>1. CASE d = c
    BY <1>1, <2>1 DEF ExactPage, Beginning
  <2>2. CASE d # c
    BY <1>1, <2>2 DEF XInv, ExactPage, Beginning
  <2> QED
    BY <2>1, <2>2
<1>5. Owned'
  BY <1>1 DEF XInv, Owned
<1>6. Fresh'
  BY DEF XInv, Fresh, Created
<1> QED
  BY <1>3, <1>4, <1>5, <1>6 DEF XInv

\* The same for a page that keeps its file and does not wait for a new one.
LEMMA ExactSameFile ==
  ASSUME IInv, XInv, NEW c \in Clients, NEW p \in Page, client' = [client EXCEPT ![c] = p],
         \A n \in wire' : \/ n \in wire
                          \/ Exact(n)' /\ n.stage = "sent",
         p.id = client[c].id, p.stage = "ready" => p.cursor = Len(files[p.id]),
         UNCHANGED files
  PROVE  XInv'
<1>1. \A n \in wire : Created(n) => p.id # n.id
  BY DEF XInv, Exact, Created
<1>2. p.id # NoFile => Beginning(c, p.id)
  BY DEF XInv, ExactPage
<1> QED
  BY <1>1, <1>2, ExactWeb

LEMMA ExactSend ==
  ASSUME IInv, XInv, NEW c \in Clients, NEW m, Send(c, m), Exact(m), m.kind # "create",
         m.stage = "sent", UNCHANGED files
  PROVE  XInv'
<1>1. PICK p : p = [client[c] EXCEPT !.stage = "wait"]
  OBVIOUS
<1>2. client[c] \in Page
  BY DEF IInv, SoundPage
<1>3. p \in Page /\ p.id = client[c].id /\ p.stage = "wait"
  BY <1>1, <1>2 DEF Page
<1>4. client' = [client EXCEPT ![c] = p] /\ wire' = wire \cup {m}
  BY <1>1 DEF Send
<1>5. Exact(m)'
  BY DEF Exact, Whole
<1>6. \A n \in wire' : \/ n \in wire
                       \/ Exact(n)' /\ n.stage = "sent"
  BY <1>4, <1>5
<1>7. p.stage # "ready"
  BY <1>3
<1> QED
  BY <1>3, <1>4, <1>6, <1>7, ExactSameFile

LEMMA ExactBegin == ASSUME IInv, XInv, NEW c \in Clients, Begin(c) PROVE XInv'
<1>1. PICK p : p = [stage |-> "wait", id |-> NoFile, cursor |-> 0]
  OBVIOUS
<1>2. PICK m : m = [Blank(c) EXCEPT !.id = NoFile]
  OBVIOUS
<1>3. p \in Page /\ p.id = NoFile /\ p.stage # "ready"
  BY <1>1 DEF Page
<1>4. client' = [client EXCEPT ![c] = p] /\ wire' = wire \cup {m} /\ UNCHANGED files
  BY <1>1, <1>2 DEF Begin
<1>5. m.live /\ m.kind = "create" /\ m.stage = "sent" /\ ~m.created
  BY <1>2 DEF Blank
<1>6. Exact(m)'
  BY <1>5 DEF Exact
<1>7. \A n \in wire : Created(n) => NoFile # n.id
  BY AbsentAssumption DEF IInv, Sound, Created
<1>8. \A n \in wire' : \/ n \in wire /\ (Created(n) => p.id # n.id)
                       \/ Exact(n)' /\ n.stage = "sent"
  BY <1>3, <1>4, <1>5, <1>6, <1>7
<1> QED
  BY <1>3, <1>4, <1>8, ExactWeb

LEMMA ExactPutSlice == ASSUME IInv, XInv, NEW c \in Clients, PutSlice(c) PROVE XInv'
<1>1. PICK lo : lo = client[c].cursor
  OBVIOUS
<1>2. PICK hi : hi = IF lo + PerSize >= Size THEN Size ELSE lo + PerSize
  OBVIOUS
<1>3. PICK m : m = [Blank(c) EXCEPT !.kind = "slice", !.lo = lo, !.hi = hi]
  OBVIOUS
<1>4. client[c].stage = "ready" /\ Send(c, m) /\ UNCHANGED files
  BY <1>1, <1>2, <1>3 DEF PutSlice
<1>5. /\ m.live /\ m.kind = "slice" /\ m.stage = "sent" /\ ~m.created
      /\ m.id = client[c].id /\ m.lo = lo /\ m.hi = hi
  BY <1>3 DEF Blank
<1>6. lo = Len(files[client[c].id]) /\ hi \in {Size, lo + PerSize}
  BY <1>1, <1>2, <1>4 DEF XInv, ExactPage
<1>7. Exact(m)
  BY <1>5, <1>6 DEF Exact
<1> QED
  BY <1>4, <1>5, <1>7, ExactSend

\* A page that starts the installation has seen its file reach the image's length.
LEMMA ExactPutStart == ASSUME IInv, XInv, NEW c \in Clients, PutStart(c) PROVE XInv'
<1>1. PICK m : m = [Blank(c) EXCEPT !.kind = "start"]
  OBVIOUS
<1>2. client[c].stage = "ready" /\ client[c].cursor >= Size /\ Send(c, m) /\ UNCHANGED files
  BY <1>1 DEF PutStart
<1>3. /\ m.live /\ m.kind = "start" /\ m.stage = "sent" /\ ~m.created
      /\ m.id = client[c].id /\ m.from = c
  BY <1>1 DEF Blank
<1>4. client[c].id \in FileIds /\ files[client[c].id] \in Contents /\ client[c].id # NoFile
  BY <1>2, AbsentAssumption DEF IInv, SoundPage
<1>5. /\ client[c].cursor = Len(files[client[c].id]) /\ Len(files[client[c].id]) <= Size
      /\ files[client[c].id] = SubSeq(Image(c), 1, Len(files[client[c].id]))
  BY <1>2, <1>4 DEF XInv, ExactPage, Beginning
<1>6. Len(files[client[c].id]) = Size
  <2>1. Len(files[client[c].id]) \in Nat
    BY <1>4, LenType
  <2>2. Len(files[client[c].id]) >= Size
    BY <1>2, <1>5
  <2> QED
    BY <1>5, <2>1, <2>2
<1>7. Whole(c, client[c].id)
  BY <1>5, <1>6, WholeImage DEF Whole
<1>8. Exact(m)
  BY <1>3, <1>7 DEF Exact
<1> QED
  BY <1>2, <1>3, <1>8, ExactSend

LEMMA ExactReceive == ASSUME IInv, XInv, NEW m \in wire, Receive(m) PROVE XInv'
<1>1. PICK c : c = m.from
  OBVIOUS
<1>2. Sound(m) /\ Exact(m) /\ m \in Message /\ c \in Clients /\ m.range \in Nat
      /\ m.kind \in {"create", "slice", "query", "start"}
  BY <1>1 DEF IInv, XInv, Sound, Message
<1>3. m.stage = "answered" /\ wire' = wire \ {m} /\ UNCHANGED files
  BY DEF Receive
<1>4. client[c] \in Page /\ m.id \in FileIds /\ files[m.id] \in Contents
  BY <1>2, <1>3 DEF IInv, SoundPage, Sound
<1>5. CASE m.kind = "create"
  <2>1. PICK p : p = [stage |-> "ready", id |-> m.id, cursor |-> 0]
    OBVIOUS
  <2>2. client' = [client EXCEPT ![c] = p]
    BY <1>1, <1>5, <2>1 DEF Receive
  <2>3. p \in Page /\ p.id = m.id /\ p.cursor = 0
    BY <1>4, <2>1 DEF Page
  <2>4. files[m.id] = <<>> /\ \A d \in Clients : client[d].id # m.id
    BY <1>2, <1>3, <1>5 DEF Exact
  <2>5. Len(files[m.id]) = 0
    BY <2>4
  <2>6. Beginning(c, m.id)
    <3>1. Len(files[m.id]) <= Size
      BY <2>5
    <3>2. files[m.id] = SubSeq(Image(c), 1, 0)
      BY <1>2, <2>4, NoImage
    <3> QED
      BY <2>5, <3>1, <3>2 DEF Beginning
  <2>7. \A n \in wire' : n \in wire /\ (Created(n) => p.id # n.id)
    BY <1>3, <1>5, <2>3 DEF XInv, Fresh, Created
  <2> QED
    BY <1>2, <1>3, <2>2, <2>3, <2>4, <2>5, <2>6, <2>7, ExactWeb
<1>6. CASE m.kind = "start"
  <2>1. PICK p : p = [client[c] EXCEPT !.stage = "done"]
    OBVIOUS
  <2>2. client' = [client EXCEPT ![c] = p]
    BY <1>1, <1>6, <2>1 DEF Receive
  <2>3. p \in Page /\ p.id = client[c].id /\ p.stage # "ready"
    BY <1>4, <2>1 DEF Page
  <2>4. \A n \in wire' : n \in wire
    BY <1>3
  <2> QED
    BY <1>2, <1>3, <2>2, <2>3, <2>4, ExactSameFile
<1>7. CASE m.kind \in {"slice", "query"}
  <2>1. PICK p : p = [client[c] EXCEPT !.stage = "ready", !.cursor = m.range]
    OBVIOUS
  <2>2. client' = [client EXCEPT ![c] = p]
    BY <1>1, <1>7, <2>1 DEF Receive
  <2>3. p \in Page /\ p.id = client[c].id /\ p.cursor = m.range
    BY <1>2, <1>4, <2>1 DEF Page
  <2>4. m.id = client[c].id /\ m.range = Len(files[m.id])
    BY <1>1, <1>2, <1>3, <1>7 DEF Sound, Exact
  <2>5. \A n \in wire' : n \in wire
    BY <1>3
  <2> QED
    BY <1>2, <1>3, <2>2, <2>3, <2>4, <2>5, ExactSameFile
<1> QED
  BY <1>2, <1>5, <1>6, <1>7

LEMMA ExactGiveUp == ASSUME IInv, XInv, Clean, NEW m \in wire, GiveUp(m) PROVE XInv'
<1>1. PICK c : c = m.from
  OBVIOUS
<1>2. PICK stage : stage = CASE m.kind = "slice"  -> "wait"
                             [] m.kind = "query"  -> "failed"
                             [] m.kind = "create" -> "idle"
                             [] m.kind = "start"  -> "done"
  OBVIOUS
<1>3. PICK p : p = [client[c] EXCEPT !.stage = stage]
  OBVIOUS
<1>4. PICK ask : ask = [Blank(c) EXCEPT !.kind = "query", !.no = faults + 1]
  OBVIOUS
<1>5. /\ client' = [client EXCEPT ![c] = p] /\ UNCHANGED files
      /\ wire' \in {wire \ {m}, (wire \ {m}) \cup {ask}}
  BY <1>1, <1>2, <1>3, <1>4 DEF GiveUp, Clean
<1>6. c \in Clients /\ client[c] \in Page /\ m.kind \in {"create", "slice", "query", "start"}
  BY <1>1 DEF IInv, Sound, SoundPage, Message
<1>7. stage \in {"idle", "wait", "done", "failed"}
  BY <1>2, <1>6
<1>8. p \in Page /\ p.id = client[c].id /\ p.stage # "ready"
  BY <1>3, <1>6, <1>7 DEF Page
<1>9. ask.live /\ ask.kind = "query" /\ ask.stage = "sent" /\ ~ask.created
  BY <1>4 DEF Blank
<1>10. Exact(ask)'
  BY <1>9 DEF Exact
<1>11. \A n \in wire' : \/ n \in wire
                        \/ Exact(n)' /\ n.stage = "sent"
  BY <1>5, <1>9, <1>10
<1> QED
  BY <1>5, <1>6, <1>8, <1>11, ExactSameFile

LEMMA ExactStep == IInv /\ XInv /\ Clean /\ [Next]_vars => XInv'
<1> SUFFICES ASSUME IInv, XInv, Clean, [Next]_vars PROVE XInv'
  OBVIOUS
<1>1. ASSUME NEW c \in Clients, Web(c) PROVE XInv'
  BY <1>1, ExactBegin, ExactPutSlice, ExactPutStart DEF Web
<1>2. ASSUME NEW m \in wire, Serve(m) \/ Receive(m) \/ GiveUp(m) PROVE XInv'
  <2>1. ~ServeWriteShort(m)
    BY DEF ServeWriteShort, Clean
  <2> QED
    BY <1>2, <2>1, ExactServeCreate, ExactServeOpen, ExactServeWrite, ExactServeQuery,
       ExactServeStart, ExactReceive, ExactGiveUp DEF Serve
<1>3. CASE UNCHANGED vars
  BY <1>3 DEF vars, XInv, Exact, ExactPage, Beginning, Whole, Owned, Fresh
<1> QED
  BY <1>1, <1>2, <1>3 DEF Next

THEOREM Agreement == ASSUME Clean PROVE Spec => [](IInv /\ XInv)
<1>1. Init => IInv /\ XInv
  BY InitInv, InitExact
<1>2. IInv /\ XInv /\ [Next]_vars => (IInv /\ XInv)'
  BY InvStep, ExactStep
<1> QED
  BY <1>1, <1>2, PTL DEF Spec

\* In a clean world "Created" is only ever answered for a file that holds the whole
\* image (system_api.cpp:312).
THEOREM CreatedWhole == ASSUME Clean PROVE Spec => []CreatedMeansWhole
<1>1. IInv /\ XInv => CreatedMeansWhole
  BY DEF XInv, Exact, Whole, CreatedMeansWhole
<1> QED
  BY <1>1, Agreement, PTL

-----------------------------------------------------------------------------
(* The refinement.  What the camera holds of an image is the file of the     *)
(* page's present attempt.                                                  *)

content == [c \in Clients |-> Held(c)]

\* Pages keep their file or have none, and files in use stay: nothing to be seen.
LEMMA Unseen ==
  ASSUME IInv, UNCHANGED flashed,
         \A c \in Clients : client'[c].id = client[c].id,
         \A c \in Clients : client[c].id # NoFile => files'[client[c].id] = files[client[c].id]
  PROVE  UNCHANGED <<content, flashed>>
<1>1. \A c \in Clients : Held(c)' = Held(c)
  BY DEF Held
<1> QED
  BY <1>1 DEF content

\* Page c has no file, or a new one with nothing in it.
LEMMA SeenRestart ==
  ASSUME NEW c \in Clients, UNCHANGED <<files, flashed>>, Held(c)' = <<>>,
         \A d \in Clients : d # c => client'[d] = client[d]
  PROVE  Promise!Restart(c)
<1>1. \A d \in Clients : d # c => Held(d)' = Held(d)
  BY DEF Held
<1> QED
  BY <1>1 DEF Promise!Restart, content

\* the write of a slice is the arrival of the next part
LEMMA SeenWrite ==
  ASSUME IInv, XInv, NEW m \in wire, ServeWrite(m)
  PROVE  m.from \in Clients /\ Promise!Receive(m.from)
<1>1. /\ m.stage = "open" /\ m.kind = "slice" /\ m \in Message
      /\ m.from \in Clients /\ m.id \in FileIds /\ m.id = client[m.from].id
      /\ m.lo \in 0 .. Size /\ m.hi \in 0 .. Size /\ m.lo < m.hi
      /\ Len(files[m.id]) = m.lo
      /\ files'[m.id] = SubSeq(Image(m.from), 1, m.hi) /\ Len(files'[m.id]) = m.hi
      /\ \A j \in FileIds : j # m.id => files'[j] = files[j]
      /\ UNCHANGED <<client, flashed>>
  BY WriteGrows
<1>2. Held(m.from) = files[m.id] /\ Held(m.from)' = SubSeq(Image(m.from), 1, m.hi)
  BY <1>1, AbsentAssumption DEF Held
<1>3. ASSUME NEW d \in Clients, d # m.from PROVE Held(d)' = Held(d)
  <2>1. client[d].id # m.id
    BY <1>1, <1>3, AbsentAssumption DEF XInv, Owned
  <2>2. client[d].id # NoFile => client[d].id \in FileIds
    BY DEF IInv, SoundPage, Page
  <2> QED
    BY <1>1, <2>1, <2>2 DEF Held
<1>4. m.hi \in Len(Held(m.from)) + 1 .. Size
  BY <1>1, <1>2
<1>5. Promise!Image(m.from) = Image(m.from)
  BY DEF Image, Promise!Image
<1>6. content[m.from] = Held(m.from)
  BY <1>1 DEF content
<1>7. content' = [content EXCEPT ![m.from] = SubSeq(Image(m.from), 1, m.hi)]
  BY <1>2, <1>3 DEF content
<1> QED
  BY <1>1, <1>4, <1>5, <1>6, <1>7 DEF Promise!Receive, content

\* what is installed is the owner's file, and whole
LEMMA SeenStart ==
  ASSUME IInv, XInv, NEW m \in wire, ServeStart(m)
  PROVE  m.from \in Clients /\ Promise!Install(m.from)
<1>1. /\ m.kind = "start" /\ UNCHANGED <<files, client>>
      /\ flashed' = [flashed EXCEPT ![m.from] = files[m.id]]
  BY DEF ServeStart, Arrives
<1>2. m.from \in Clients /\ m.id \in FileIds /\ m.id = client[m.from].id
      /\ files[m.id] = Image(m.from)
  BY <1>1 DEF IInv, XInv, Sound, Exact, Whole, Message
<1>3. Held(m.from) = files[m.id]
  BY <1>2, AbsentAssumption DEF Held
<1>4. content[m.from] = files[m.id]
  BY <1>2, <1>3 DEF content
<1>5. UNCHANGED content
  BY <1>1 DEF content, Held
<1>6. Promise!Image(m.from) = Image(m.from)
  BY DEF Image, Promise!Image
<1> QED
  BY <1>1, <1>2, <1>4, <1>5, <1>6 DEF Promise!Install, content

PromiseStep == Promise!Next \/ UNCHANGED <<content, flashed>>

LEMMA SeenServe ==
  ASSUME IInv, XInv, Clean, NEW m \in wire, Serve(m)
  PROVE  PromiseStep
<1>1. CASE ServeCreate(m)
  <2>1. PICK i \in FileIds : files[i] = NoFile /\ files' = [files EXCEPT ![i] = <<>>]
    BY <1>1 DEF ServeCreate, Clean
  <2>2. \A c \in Clients : client[c].id # NoFile =>
          client[c].id \in FileIds /\ client[c].id # i
    BY <2>1, AbsentAssumption DEF IInv, SoundPage, Page
  <2>3. UNCHANGED <<client, flashed>>
    BY <1>1 DEF ServeCreate
  <2>4. \A c \in Clients : client[c].id # NoFile => files'[client[c].id] = files[client[c].id]
    BY <2>1, <2>2 DEF IInv, FilesType
  <2> QED
    BY <2>3, <2>4, Unseen DEF PromiseStep
<1>2. CASE ServeOpen(m) \/ ServeQuery(m)
  <2>1. UNCHANGED <<files, client, flashed>>
    BY <1>2 DEF ServeOpen, ServeQuery
  <2> QED
    BY <2>1, Unseen DEF PromiseStep
<1>3. CASE ServeWrite(m)
  BY <1>3, SeenWrite DEF PromiseStep, Promise!Next
<1>4. CASE ServeStart(m)
  BY <1>4, SeenStart DEF PromiseStep, Promise!Next
<1>5. ~ServeWriteShort(m)
  BY DEF ServeWriteShort, Clean
<1> QED
  BY <1>1, <1>2, <1>3, <1>4, <1>5 DEF Serve

LEMMA SeenWeb ==
  ASSUME IInv, NEW c \in Clients, Web(c)
  PROVE  PromiseStep
<1>1. CASE Begin(c)
  <2>1. PICK p : p = [stage |-> "wait", id |-> NoFile, cursor |-> 0]
    OBVIOUS
  <2>2. client' = [client EXCEPT ![c] = p] /\ UNCHANGED <<files, flashed>> /\ p.id = NoFile
    BY <1>1, <2>1 DEF Begin
  <2>3. client'[c].id = NoFile /\ \A d \in Clients : d # c => client'[d] = client[d]
    BY <2>2 DEF IInv, PagesType
  <2>4. Held(c)' = <<>>
    BY <2>3 DEF Held
  <2> QED
    BY <2>2, <2>3, <2>4, SeenRestart DEF PromiseStep, Promise!Next
<1>2. CASE PutSlice(c) \/ PutStart(c)
  <2>1. client' = [client EXCEPT ![c].stage = "wait"] /\ UNCHANGED <<files, flashed>>
    BY <1>2 DEF PutSlice, PutStart, Send
  <2>2. \A d \in Clients : client'[d].id = client[d].id
    BY <2>1 DEF IInv, PagesType, Page
  <2> QED
    BY <2>1, <2>2, Unseen DEF PromiseStep
<1> QED
  BY <1>1, <1>2 DEF Web

LEMMA SeenReceive ==
  ASSUME IInv, XInv, NEW m \in wire, Receive(m)
  PROVE  PromiseStep
<1>1. PICK c : c = m.from
  OBVIOUS
<1>2. Sound(m) /\ Exact(m) /\ c \in Clients /\ m.stage = "answered"
      /\ UNCHANGED <<files, flashed>>
  BY <1>1 DEF IInv, XInv, Sound, Message, Receive
<1>3. CASE m.kind = "create"
  <2>1. PICK p : p = [stage |-> "ready", id |-> m.id, cursor |-> 0]
    OBVIOUS
  <2>2. client' = [client EXCEPT ![c] = p] /\ p.id = m.id
    BY <1>1, <1>3, <2>1 DEF Receive
  <2>3. client'[c].id = m.id /\ \A d \in Clients : d # c => client'[d] = client[d]
    BY <1>2, <2>2 DEF IInv, PagesType
  <2>4. files[m.id] = <<>>
    BY <1>2, <1>3 DEF Exact
  <2>5. Held(c)' = <<>>
    BY <1>2, <2>3, <2>4 DEF Held
  <2> QED
    BY <1>2, <2>3, <2>5, SeenRestart DEF PromiseStep, Promise!Next
<1>4. CASE m.kind # "create"
  <2>1. PICK p : p = IF m.kind = "start" THEN [client[c] EXCEPT !.stage = "done"]
                     ELSE [client[c] EXCEPT !.stage = "ready", !.cursor = m.range]
    OBVIOUS
  <2>2. client' = [client EXCEPT ![c] = p]
    BY <1>1, <1>4, <2>1 DEF Receive
  <2>3. client[c] \in Page
    BY <1>2 DEF IInv, PagesType
  <2>4. p.id = client[c].id
    BY <2>1, <2>3 DEF Page
  <2>5. \A d \in Clients : client'[d].id = client[d].id
    BY <2>2, <2>4 DEF IInv, PagesType
  <2> QED
    BY <1>2, <2>5, Unseen DEF PromiseStep
<1> QED
  BY <1>3, <1>4

LEMMA SeenGiveUp ==
  ASSUME IInv, NEW m \in wire, GiveUp(m)
  PROVE  PromiseStep
<1>1. PICK stage : stage = CASE m.kind = "slice"  -> "wait"
                             [] m.kind = "query"  -> "failed"
                             [] m.kind = "create" -> "idle"
                             [] m.kind = "start"  -> "done"
  OBVIOUS
<1>2. client' = [client EXCEPT ![m.from].stage = stage] /\ UNCHANGED <<files, flashed>>
  BY <1>1 DEF GiveUp
<1>3. \A d \in Clients : client'[d].id = client[d].id
  BY <1>2 DEF IInv, PagesType, Page
<1> QED
  BY <1>2, <1>3, Unseen DEF PromiseStep

\* In a clean world the upload implements Transfer: whatever is lost and retried,
\* the camera holds a beginning of the image that only grows, and installs nothing
\* but the whole image (system_api.cpp:285, 295, 321).
THEOREM Refines == ASSUME Clean PROVE Spec => KeepsPromise
<1>1. Init => Promise!Init
  BY DEF Init, Promise!Init, Held
<1>2. IInv /\ XInv /\ [Next]_vars => [Promise!Next]_<<content, flashed>>
  <2> SUFFICES ASSUME IInv, XInv, [Next]_vars PROVE PromiseStep
    BY DEF PromiseStep
  <2>1. ASSUME NEW c \in Clients, Web(c) PROVE PromiseStep
    BY <2>1, SeenWeb
  <2>2. ASSUME NEW m \in wire, Serve(m) \/ Receive(m) \/ GiveUp(m) PROVE PromiseStep
    BY <2>2, SeenServe, SeenReceive, SeenGiveUp
  <2>3. CASE UNCHANGED vars
    BY <2>3, Unseen DEF vars, PromiseStep
  <2> QED
    BY <2>1, <2>2, <2>3 DEF Next
<1> QED
  BY <1>1, <1>2, Agreement, PTL DEF Spec, KeepsPromise, Promise!Spec, content

\* In a clean world the camera is never told to install a part of an image, or the
\* image of another browser (system_api.cpp:321).
THEOREM WholeInstalled == ASSUME Clean PROVE Spec => []OnlyWholeImages
<1>1. Init => OnlyWholeImages
  BY DEF Init, OnlyWholeImages
<1>2. IInv /\ XInv /\ OnlyWholeImages /\ [Next]_vars => OnlyWholeImages'
  <2> SUFFICES ASSUME IInv, XInv, OnlyWholeImages, [Next]_vars PROVE OnlyWholeImages'
    OBVIOUS
  <2>1. ASSUME UNCHANGED flashed PROVE OnlyWholeImages'
    BY <2>1 DEF OnlyWholeImages
  <2>2. ASSUME NEW m \in wire, ServeStart(m) PROVE OnlyWholeImages'
    <3>1. flashed' = [flashed EXCEPT ![m.from] = files[m.id]] /\ m.kind = "start"
      BY <2>2 DEF ServeStart, Arrives
    <3>2. files[m.id] = Image(m.from)
      BY <3>1 DEF XInv, Exact, Whole
    <3> QED
      BY <3>1, <3>2 DEF OnlyWholeImages, IInv, RestType
  <2>3. ASSUME NEW c \in Clients, Web(c) PROVE UNCHANGED flashed
    BY <2>3 DEF Web, Begin, PutSlice, PutStart
  <2>4. ASSUME NEW m \in wire, ServeCreate(m) \/ ServeOpen(m) \/ ServeQuery(m)
        PROVE  UNCHANGED flashed
    BY <2>4 DEF ServeCreate, ServeOpen, ServeQuery
  <2>5. ASSUME NEW m \in wire, ServeWrite(m) \/ ServeWriteShort(m) PROVE UNCHANGED flashed
    BY <2>5 DEF ServeWrite, ServeWriteShort, WriteSlice
  <2>6. ASSUME NEW m \in wire, Receive(m) \/ GiveUp(m) PROVE UNCHANGED flashed
    BY <2>6 DEF Receive, GiveUp
  <2>7. CASE UNCHANGED vars
    BY <2>1, <2>7 DEF vars
  <2> QED
    BY <2>1, <2>2, <2>3, <2>4, <2>5, <2>6, <2>7 DEF Next, Serve
<1> QED
  BY <1>1, <1>2, Agreement, PTL DEF Spec
=============================================================================
