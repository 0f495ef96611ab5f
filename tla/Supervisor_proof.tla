-------------------------- MODULE Supervisor_proof --------------------------
(***************************************************************************)
(* What the supervisor keeps up for any number of daemons, of rounds of    *)
(* killall and of writes, requests and faults.                             *)
(***************************************************************************)
EXTENDS Supervisor, TLAPS

USE SupervisorAssumption, FileAssumption

-----------------------------------------------------------------------------
(* The inductive invariant.                                                *)

Places == {"init_db", "check", "main_loop", "export", "wait", "kill", "poll",
           "force", "copy", "copying"}
Sups == [at : Places, i : 1 .. (Count + 1), wait_count : 0 .. WaitCount,
         src : Database \cup {NoFile}]
Kinds == {"writes", "requests", "faults"}

DaemonsType ==
  /\ running \in [Daemons -> Nat]
  /\ told \in [Daemons -> Nat]
  /\ \A d \in Daemons : told[d] <= running[d]
FilesType ==
  /\ sysconfig \in Database \cup {NoFile}
  /\ file \in Database \cup {NoFile}
  /\ journal \in Journal /\ writing \in BOOLEAN
  /\ unsynced \in BOOLEAN /\ damaged \in BOOLEAN /\ committed \subseteq Database
SupType == sup \in Sups
RestType ==
  /\ timeout_tag \in BOOLEAN
  /\ left \in [Kinds -> Nat] /\ left.writes <= MaxWrites
  /\ blind \in BOOLEAN

\* A round of killall is only begun when one is left; a copy under way has its
\* two files; and there is a database wherever the supervisor can be after the
\* first copy.
Ready ==
  /\ sup.at \in {"wait", "kill", "poll"} => sup.wait_count > 0
  /\ At("copying") => sup.src # NoFile
  /\ At("export") => file # NoFile
  /\ At("init_db") => sup.src = Default /\ running = Off
  /\ sysconfig = NoFile =>
       sup.at \in {"init_db", "copy"} /\ sup.src = Default /\ running = Off

\* The daemons that a round has passed without finding them are gone.
Stopped ==
  \/ blind
  \/ /\ sup.at \in {"poll", "force"} => \A d \in Daemons : d < sup.i => running[d] = 0
     /\ sup.at \in {"copy", "copying"} => \A d \in Daemons : running[d] = 0

\* A database that is not just being copied is whole, or its journal makes it so; one
\* that is being copied has its first page.
Copied ==
  \/ blind
  \/ /\ At("copying") => sysconfig[1] = sup.src[1]
     /\ damaged \/ At("copying") \/ sysconfig = NoFile
        \/ Whole(PlayedBack(sysconfig, journal))

Typed == DaemonsType /\ FilesType /\ SupType /\ RestType
IInv == Typed /\ Ready /\ OneInstance /\ Stopped /\ Copied

LEMMA TypedIsTypeOK == Typed => TypeOK
BY DEF Typed, DaemonsType, FilesType, SupType, RestType, TypeOK, Sups, Places, Kinds

\* What the invariant is for.
LEMMA Consequences == IInv => TypeOK /\ OneInstance /\ ImportAlone /\ DbWhole
<1> SUFFICES ASSUME IInv PROVE TypeOK /\ OneInstance /\ ImportAlone /\ DbWhole
  OBVIOUS
<1>1. TypeOK /\ OneInstance
  BY TypedIsTypeOK DEF IInv
<1>2. ImportAlone
  BY DEF IInv, Stopped, ImportAlone, At
<1>3. DbWhole
  <2> SUFFICES ASSUME ~blind, ~damaged, running[Dbserver] > 0
               PROVE  sysconfig # NoFile /\ Whole(PlayedBack(sysconfig, journal))
    BY DEF DbWhole
  <2>1. Dbserver \in Daemons
    BY DEF Dbserver, Daemons
  <2>2. ~At("copying")
    BY <2>1 DEF IInv, Stopped, At
  <2>3. sysconfig # NoFile
    BY <2>1 DEF IInv, Ready, Off
  <2> QED
    BY <2>2, <2>3 DEF IInv, Copied
<1> QED
  BY <1>1, <1>2, <1>3

LEMMA SameType ==
  /\ \A v \in Page : Same(v) \in Database
  /\ Default \in Database /\ Default # NoFile
  /\ Foreign \in Database
<1>1. \A v \in Page : Same(v) \in Database
  BY DEF Same, Database
<1>2. 0 \in Page /\ Lost \in Page
  BY DEF Page
<1> QED
  BY <1>1, <1>2 DEF Default, Foreign

\* Without a journal there is nothing to play back.
LEMMA NothingSaved ==
  /\ NoJournal \in Journal /\ DOMAIN NoJournal = {}
  /\ \A d \in Database : PlayedBack(d, NoJournal) = d
<1>1. DOMAIN NoJournal = {} /\ NoJournal \in [{} -> Page]
  BY DEF NoJournal
<1>2. NoJournal \in Journal
  BY <1>1 DEF Journal
<1>3. ASSUME NEW d \in Database PROVE PlayedBack(d, NoJournal) = d
  BY <1>1 DEF PlayedBack, Database
<1> QED
  BY <1>1, <1>2, <1>3

\* Pages that the journal has may be written without harm, and when it is dropped
\* over pages that are as it has them, nothing has changed.
LEMMA SavedPages ==
  ASSUME NEW d \in Database, NEW j \in Journal
  PROVE  /\ PlayedBack(d, j) \in Database
         /\ \A p \in DOMAIN j, v \in Page :
              /\ [d EXCEPT ![p] = v] \in Database
              /\ PlayedBack([d EXCEPT ![p] = v], j) = PlayedBack(d, j)
         /\ \A p \in DOMAIN j : j[p] \in Page
<1>1. PICK saved \in SUBSET Pages : j \in [saved -> Page]
  BY DEF Journal
<1>2. PlayedBack(d, j) \in Database
  BY <1>1 DEF PlayedBack, Database
<1>3. ASSUME NEW p \in DOMAIN j, NEW v \in Page
      PROVE  /\ [d EXCEPT ![p] = v] \in Database
             /\ PlayedBack([d EXCEPT ![p] = v], j) = PlayedBack(d, j)
  <2>1. p \in Pages /\ [d EXCEPT ![p] = v] \in Database
    BY <1>1, <1>3 DEF Database
  <2>2. \A q \in Pages : q \notin DOMAIN j => [d EXCEPT ![p] = v][q] = d[q]
    BY <1>3 DEF Database
  <2> QED
    BY <2>1, <2>2 DEF PlayedBack
<1>4. ASSUME NEW p \in DOMAIN j PROVE j[p] \in Page
  BY <1>1, <1>4
<1> QED
  BY <1>2, <1>3, <1>4

LEMMA OffType == Off \in [Daemons -> Nat] /\ \A d \in Daemons : Off[d] = 0
BY DEF Off

LEMMA InitInv == Init => IInv
<1> SUFFICES ASSUME Init PROVE IInv
  OBVIOUS
<1>1. DaemonsType
  BY OffType DEF Init, DaemonsType
<1>2. FilesType
  BY SameType, NothingSaved DEF Init, FilesType
<1>3. SupType
  BY SameType DEF Init, SupType, Sups, Places, Start
<1>4. RestType
  <2>2. MaxWrites \in Nat /\ MaxRequests \in Nat /\ MaxFaults \in Nat
    OBVIOUS
  <2>3. left = [writes |-> MaxWrites, requests |-> MaxRequests, faults |-> MaxFaults]
    BY DEF Init
  <2>4. left \in [Kinds -> Nat]
    BY <2>2, <2>3 DEF Kinds
  <2>5. left.writes = MaxWrites /\ MaxWrites <= MaxWrites
    BY <2>2, <2>3
  <2> QED
    BY <2>4, <2>5 DEF Init, RestType
<1>5. Ready
  BY DEF Init, Ready, Start, At
<1>6. OneInstance /\ Stopped
  BY OffType DEF Init, OneInstance, Stopped, Start
<1>7. Copied
  BY SameType, NothingSaved DEF Init, Copied, Start, At, Whole
<1> QED
  BY <1>1, <1>2, <1>3, <1>4, <1>5, <1>6, <1>7 DEF IInv, Typed

-----------------------------------------------------------------------------
(* The parts that actions are made of.                                     *)

LEMMA GoOK ==
  ASSUME SupType, NEW pc \in Places, Go(pc)
  PROVE  /\ SupType' /\ sup'.at = pc /\ sup'.i = 1
         /\ sup'.src = sup.src /\ sup'.wait_count = sup.wait_count
<1>1. 1 \in 1 .. (Count + 1)
  OBVIOUS
<1>2. sup' = [[sup EXCEPT !.at = pc] EXCEPT !.i = 1]
  BY DEF Go, SupType, Sups
<1> QED
  BY <1>1, <1>2 DEF SupType, Sups

LEMMA NextDaemonOK ==
  ASSUME SupType, sup.i \in Daemons, NextDaemon
  PROVE  /\ SupType' /\ sup'.at = sup.at /\ sup'.i = sup.i + 1
         /\ sup'.src = sup.src /\ sup'.wait_count = sup.wait_count
BY DEF SupType, Sups, NextDaemon, Daemons

LEMMA SpendOK ==
  ASSUME RestType, NEW what \in Kinds, Spend(what),
         timeout_tag' \in BOOLEAN, blind' \in BOOLEAN
  PROVE  RestType'
<1>1. /\ left \in [Kinds -> Nat]
      /\ left[what] \in Nat /\ left[what] - 1 \in Nat
      /\ left.writes \in Nat /\ MaxWrites \in Nat
  BY DEF Spend, Kinds, RestType
<1>2. left' = [left EXCEPT ![what] = left[what] - 1]
  BY DEF Spend
<1>3. left' \in [Kinds -> Nat]
  BY <1>1, <1>2
<1>4. left'.writes = IF what = "writes" THEN left.writes - 1 ELSE left.writes
  BY <1>1, <1>2 DEF Kinds
<1>5. left'.writes <= MaxWrites
  BY <1>1, <1>4 DEF RestType
<1> QED
  BY <1>3, <1>5 DEF RestType

\* An answer of ps is right unless it could not be run.
LEMMA RunningOK ==
  ASSUME RestType, NEW d \in Daemons, NEW up \in BOOLEAN, Running(d, up),
         timeout_tag' \in BOOLEAN
  PROVE  /\ RestType'
         /\ blind => blind'
         /\ ~blind' => up = (running[d] > 0)
<1>1. CASE up = (running[d] > 0) /\ UNCHANGED <<left, blind>>
  BY <1>1 DEF RestType
<1>2. CASE up = FALSE /\ Spend("faults") /\ blind' = TRUE
  <2>1. RestType'
    BY <1>2, SpendOK DEF Kinds
  <2> QED
    BY <1>2, <2>1
<1> QED
  BY <1>1, <1>2 DEF Running

-----------------------------------------------------------------------------
(* Steps of the check.                                                     *)

LEMMA CheckStep == ASSUME IInv, Check PROVE IInv'
<1>1. sup.i \in Daemons /\ At("check") /\ NextDaemon
      /\ UNCHANGED <<told, sysconfig, file, timeout_tag,
                 journal, writing, unsynced, damaged, committed>>
  BY DEF Check, dbserver, disk
<1>2. PICK up \in BOOLEAN :
        /\ Running(sup.i, up)
        /\ running' = IF up THEN running ELSE [running EXCEPT ![sup.i] = @ + 1]
  BY DEF Check, dbserver, disk
<1>3. /\ SupType' /\ sup'.at = "check" /\ sup'.src = sup.src
  BY <1>1, NextDaemonOK DEF IInv, Typed, At
<1>4. /\ RestType' /\ (blind => blind') /\ (~blind' => up = (running[sup.i] > 0))
  BY <1>1, <1>2, RunningOK DEF IInv, Typed, RestType
<1>5. DaemonsType'
  BY <1>1, <1>2 DEF IInv, Typed, DaemonsType
<1>6. FilesType'
  BY <1>1 DEF IInv, Typed, FilesType
<1>7. Ready'
  BY <1>1, <1>3 DEF IInv, Ready, At
<1>8. OneInstance'
  BY <1>1, <1>2, <1>4 DEF IInv, Typed, DaemonsType, OneInstance
<1>9. Stopped'
  BY <1>3 DEF Stopped
<1>10. Copied'
  BY <1>1, <1>3, <1>4 DEF IInv, Copied, At, Whole
<1> QED
  BY <1>3, <1>4, <1>5, <1>6, <1>7, <1>8, <1>9, <1>10 DEF IInv, Typed

\* The steps that only move the supervisor to another place.
LEMMA MovesOn ==
  ASSUME IInv, NEW pc \in Places, Go(pc),
         UNCHANGED <<running, told, sysconfig, file, left, blind,
                 journal, writing, unsynced, damaged, committed>>,
         timeout_tag' \in BOOLEAN,
         pc \in {"check", "main_loop", "wait", "poll", "copy"},
         pc = "wait" => sup.wait_count > 0,
         pc = "poll" => sup.wait_count > 0,
         sup.at = "copying" => blind \/ damaged \/ Whole(PlayedBack(sysconfig, journal)),
         pc = "copy" => blind \/ \A d \in Daemons : running[d] = 0,
         sysconfig = NoFile => pc = "copy" /\ sup.src = Default /\ running = Off
  PROVE  IInv'
<1>1. /\ SupType' /\ sup'.at = pc /\ sup'.i = 1
      /\ sup'.src = sup.src /\ sup'.wait_count = sup.wait_count
  BY GoOK DEF IInv, Typed
<1>2. DaemonsType' /\ FilesType' /\ RestType' /\ OneInstance'
  BY DEF IInv, Typed, DaemonsType, FilesType, RestType, OneInstance
<1>3. Ready'
  BY <1>1 DEF Ready, At
<1>4. Stopped'
  <2>1. CASE pc = "poll"
    BY <1>1, <2>1 DEF Stopped, Daemons
  <2>2. CASE pc # "poll"
    BY <1>1, <2>2 DEF Stopped
  <2> QED
    BY <2>1, <2>2
<1>5. Copied'
  BY <1>1 DEF IInv, Copied, At, Whole
<1> QED
  BY <1>1, <1>2, <1>3, <1>4, <1>5 DEF IInv, Typed

LEMMA CheckedStep == ASSUME IInv, Checked PROVE IInv'
BY MovesOn DEF Checked, dbserver, disk, At, Places, IInv, Ready

LEMMA TimeoutStep == ASSUME IInv, Timeout PROVE IInv'
BY MovesOn DEF Timeout, dbserver, disk, At, Places, IInv, Ready, Typed, RestType

LEMMA InitDbStep == ASSUME IInv, InitDb PROVE IInv'
BY MovesOn, OffType DEF InitDb, dbserver, disk, At, Places, IInv, Ready, Typed, RestType

-----------------------------------------------------------------------------
(* Steps of export and import.                                             *)

LEMMA ExportDBStep == ASSUME IInv, ExportDB PROVE IInv'
<1>1. /\ At("main_loop") /\ Spend("requests") /\ Go("export")
      /\ file' = [Same(Lost) EXCEPT ![1] = sysconfig[1]]
      /\ UNCHANGED <<running, told, sysconfig, timeout_tag, blind,
                 journal, writing, unsynced, damaged, committed>>
  BY DEF ExportDB, dbserver, disk
<1>2. sysconfig \in Database
  BY <1>1 DEF IInv, Ready, Typed, FilesType, At
<1>3. Same(Lost) \in Database /\ sysconfig[1] \in Page
  <2>1. Lost \in Page
    BY DEF Page
  <2>2. sysconfig[1] \in Page
    BY <1>2 DEF Database, Pages
  <2> QED
    BY <2>1, <2>2, SameType
<1>4. file' \in Database
  BY <1>1, <1>3 DEF Database
<1>5. SupType' /\ sup'.at = "export"
  BY <1>1, GoOK DEF IInv, Typed, Places
<1>6. timeout_tag' \in BOOLEAN /\ blind' \in BOOLEAN
  BY <1>1 DEF IInv, Typed, RestType
<1>7. RestType'
  BY <1>1, <1>6, SpendOK DEF IInv, Typed, Kinds
<1>8. DaemonsType' /\ FilesType' /\ OneInstance'
  BY <1>1, <1>4 DEF IInv, Typed, DaemonsType, FilesType, OneInstance
<1>9. Ready'
  BY <1>1, <1>2, <1>4, <1>5 DEF Ready, At
<1>10. Stopped' /\ Copied'
  BY <1>1, <1>5 DEF IInv, Stopped, Copied, At, Whole
<1> QED
  BY <1>5, <1>7, <1>8, <1>9, <1>10 DEF IInv, Typed

LEMMA ExportedStep == ASSUME IInv, Exported PROVE IInv'
<1>1. /\ At("export") /\ Go("main_loop")
      /\ \/ file' = [file EXCEPT ![2] = sysconfig[2]]
         \/ UNCHANGED file
      /\ UNCHANGED <<running, told, sysconfig, timeout_tag, left, blind,
                 journal, writing, unsynced, damaged, committed>>
  BY DEF Exported, dbserver, disk
<1>2. sysconfig \in Database /\ file \in Database
  BY <1>1 DEF IInv, Ready, Typed, FilesType, At
<1>3. sysconfig[2] \in Page
  BY <1>2 DEF Database, Pages
<1>4. file' \in Database
  BY <1>1, <1>2, <1>3 DEF Database
<1>5. SupType' /\ sup'.at = "main_loop"
  BY <1>1, GoOK DEF IInv, Typed, Places
<1>6. DaemonsType' /\ FilesType' /\ RestType' /\ OneInstance'
  BY <1>1, <1>4 DEF IInv, Typed, DaemonsType, FilesType, RestType, OneInstance
<1>7. Ready'
  BY <1>1, <1>2, <1>5 DEF Ready, At
<1>8. Stopped' /\ Copied'
  BY <1>1, <1>5 DEF IInv, Stopped, Copied, At, Whole
<1> QED
  BY <1>5, <1>6, <1>7, <1>8 DEF IInv, Typed

LEMMA ImportDBStep == ASSUME IInv, ImportDB PROVE IInv'
<1>1. /\ At("main_loop") /\ Spend("requests")
      /\ timeout_tag' = FALSE
      /\ \E src \in {file, Foreign} :
           sup' = [sup EXCEPT !.at = "wait", !.wait_count = WaitCount, !.src = src]
      /\ UNCHANGED <<running, told, sysconfig, file, blind,
                 journal, writing, unsynced, damaged, committed>>
  BY DEF ImportDB, dbserver, disk
<1>2. SupType' /\ sup'.at = "wait" /\ sup'.wait_count = WaitCount
  <2>1. PICK src \in {file, Foreign} :
          sup' = [sup EXCEPT !.at = "wait", !.wait_count = WaitCount, !.src = src]
    BY <1>1
  <2>2. WaitCount \in 0 .. WaitCount /\ src \in Database \cup {NoFile}
    BY SameType DEF IInv, Typed, FilesType
  <2> QED
    BY <2>1, <2>2 DEF IInv, Typed, SupType, Sups, Places
<1>3. timeout_tag' \in BOOLEAN /\ blind' \in BOOLEAN
  BY <1>1 DEF IInv, Typed, RestType
<1>4. RestType'
  BY <1>1, <1>3, SpendOK DEF IInv, Typed, Kinds
<1>5. DaemonsType' /\ FilesType' /\ OneInstance'
  BY <1>1 DEF IInv, Typed, DaemonsType, FilesType, OneInstance
<1>6. Ready'
  BY <1>1, <1>2 DEF IInv, Ready, At
<1>7. Stopped' /\ Copied'
  BY <1>1, <1>2 DEF IInv, Stopped, Copied, At, Whole
<1> QED
  BY <1>2, <1>4, <1>5, <1>6, <1>7 DEF IInv, Typed

\* A pass that has looked at every daemon.
LEMMA PastAll ==
  ASSUME SupType, sup.i \notin Daemons
  PROVE  \A d \in Daemons : d < sup.i
BY DEF SupType, Sups, Daemons

LEMMA WaitStep == ASSUME IInv, Wait PROVE IInv'
<1> DEFINE pc == IF sup.wait_count > 1 THEN "kill" ELSE "force"
<1>1. /\ At("wait")
      /\ sup' = [sup EXCEPT !.at = pc, !.i = 1, !.wait_count = @ - 1]
      /\ UNCHANGED <<running, told, sysconfig, file, timeout_tag, left, blind,
                 journal, writing, unsynced, damaged, committed>>
  BY DEF Wait, dbserver, disk
<1>2. pc \in Places /\ pc \in {"kill", "force"} /\ (pc = "kill" => sup.wait_count > 1)
  BY DEF Places
<1>3. 1 \in 1 .. (Count + 1)
  OBVIOUS
<1>4. sup \in Sups /\ sup.wait_count \in 0 .. WaitCount /\ sup.wait_count > 0
  BY <1>1 DEF IInv, Typed, SupType, Sups, Ready, At
<1>5. sup.wait_count - 1 \in 0 .. WaitCount
  BY <1>4
<1> HIDE DEF pc
<1>6. /\ SupType' /\ sup'.at = pc /\ sup'.i = 1 /\ sup'.wait_count = sup.wait_count - 1
  BY <1>1, <1>2, <1>3, <1>4, <1>5 DEF SupType, Sups
<1>7. DaemonsType' /\ FilesType' /\ RestType' /\ OneInstance'
  BY <1>1 DEF IInv, Typed, DaemonsType, FilesType, RestType, OneInstance
<1>8. Ready'
  BY <1>1, <1>2, <1>4, <1>6 DEF IInv, Ready, At
<1>9. Stopped'
  BY <1>2, <1>6 DEF Stopped, Daemons
<1>10. Copied'
  BY <1>1, <1>2, <1>6 DEF IInv, Copied, At, Whole
<1> QED
  BY <1>6, <1>7, <1>8, <1>9, <1>10 DEF IInv, Typed

LEMMA KillStep == ASSUME IInv, Kill PROVE IInv'
<1>1. /\ At("kill") /\ UNCHANGED <<running, sysconfig, file, timeout_tag,
                 journal, writing, unsynced, damaged, committed>>
  BY DEF Kill, dbserver, disk
<1>2. CASE sup.i \in Daemons
  <2>1. NextDaemon
    BY <1>2 DEF Kill
  <2>2. PICK up \in BOOLEAN :
          /\ Running(sup.i, up)
          /\ told' = IF up THEN [told EXCEPT ![sup.i] = running[sup.i]] ELSE told
    BY <1>2 DEF Kill
  <2>3. /\ SupType' /\ sup'.at = "kill" /\ sup'.wait_count = sup.wait_count
    BY <1>1, <1>2, <2>1, NextDaemonOK DEF IInv, Typed, At
  <2>4. RestType' /\ (blind => blind')
    BY <1>1, <1>2, <2>2, RunningOK DEF IInv, Typed, RestType
  <2>5. DaemonsType'
    BY <1>1, <1>2, <2>2 DEF IInv, Typed, DaemonsType
  <2>6. FilesType' /\ OneInstance'
    BY <1>1, <2>4 DEF IInv, Typed, FilesType, OneInstance
  <2>7. Ready'
    BY <1>1, <2>3 DEF IInv, Ready, At
  <2>8. Stopped' /\ Copied'
    BY <1>1, <2>3, <2>4 DEF IInv, Stopped, Copied, At, Whole
  <2> QED
    BY <2>3, <2>4, <2>5, <2>6, <2>7, <2>8 DEF IInv, Typed
<1>3. CASE sup.i \notin Daemons
  <2>1. Go("poll") /\ UNCHANGED <<told, left, blind>>
    BY <1>3 DEF Kill
  <2> QED
    BY <1>1, <2>1, MovesOn DEF Places, IInv, Typed, RestType, Ready, At
<1> QED
  BY <1>2, <1>3

LEMMA PollStep == ASSUME IInv, Poll PROVE IInv'
<1>1. /\ At("poll")
      /\ UNCHANGED <<running, told, sysconfig, file, timeout_tag,
                 journal, writing, unsynced, damaged, committed>>
  BY DEF Poll, dbserver, disk
<1>2. CASE sup.i \in Daemons
  <2>1. PICK up \in BOOLEAN :
          Running(sup.i, up) /\ IF up THEN Go("wait") ELSE NextDaemon
    BY <1>2 DEF Poll
  <2>2. RestType' /\ (blind => blind') /\ (~blind' => up = (running[sup.i] > 0))
    BY <1>1, <1>2, <2>1, RunningOK DEF IInv, Typed, RestType
  <2>3. DaemonsType' /\ FilesType' /\ OneInstance'
    BY <1>1, <2>2 DEF IInv, Typed, DaemonsType, FilesType, OneInstance
  <2>4. CASE up
    <3>1. /\ SupType' /\ sup'.at = "wait" /\ sup'.wait_count = sup.wait_count
      BY <2>1, <2>4, GoOK DEF IInv, Typed, Places
    <3>2. Ready'
      BY <1>1, <3>1 DEF IInv, Ready, At
    <3>3. Stopped' /\ Copied'
      BY <1>1, <3>1, <2>2 DEF IInv, Stopped, Copied, At, Whole
    <3> QED
      BY <2>2, <2>3, <3>1, <3>2, <3>3 DEF IInv, Typed
  <2>5. CASE ~up
    <3>1. /\ SupType' /\ sup'.at = "poll" /\ sup'.i = sup.i + 1
          /\ sup'.wait_count = sup.wait_count
      BY <1>1, <1>2, <2>1, <2>5, NextDaemonOK DEF IInv, Typed, At
    <3>2. Ready'
      BY <1>1, <3>1 DEF IInv, Ready, At
    <3>3. Stopped'
      <4>1. SUFFICES ASSUME ~blind', NEW d \in Daemons, d < sup.i + 1
                     PROVE  running[d] = 0
        BY <1>1, <3>1 DEF Stopped
      <4>2. ~blind /\ ~(running[sup.i] > 0) /\ running[sup.i] \in Nat
        BY <1>2, <2>2, <2>5, <4>1 DEF IInv, Typed, DaemonsType
      <4>3. d < sup.i => running[d] = 0
        BY <1>1, <4>2 DEF IInv, Stopped, At
      <4>4. d < sup.i \/ d = sup.i
        BY <1>2, <4>1 DEF Daemons
      <4> QED
        BY <4>2, <4>3, <4>4
    <3>4. Copied'
      BY <1>1, <3>1, <2>2 DEF IInv, Copied, At, Whole
    <3> QED
      BY <2>2, <2>3, <3>1, <3>2, <3>3, <3>4 DEF IInv, Typed
  <2> QED
    BY <2>4, <2>5
<1>3. CASE sup.i \notin Daemons
  <2>1. Go("copy") /\ UNCHANGED <<left, blind>>
    BY <1>3 DEF Poll
  <2>2. blind \/ \A d \in Daemons : running[d] = 0
    BY <1>1, <1>3, PastAll DEF IInv, Typed, Stopped, At
  <2> QED
    BY <1>1, <2>1, <2>2, MovesOn DEF Places, IInv, Typed, RestType, Ready, At
<1> QED
  BY <1>2, <1>3

\* The last resort leaves nothing of the daemon it is at, nor of those before it.
LEMMA ForcedOff ==
  ASSUME IInv, At("force"), sup.i \in Daemons, NEW up \in BOOLEAN, ~blind,
         up \/ running[sup.i] = 0,
         running' = IF up THEN [running EXCEPT ![sup.i] = 0] ELSE running,
         NEW d \in Daemons, d <= sup.i
  PROVE  running'[d] = 0
<1>1. running \in [Daemons -> Nat]
  BY DEF IInv, Typed, DaemonsType
<1>2. d < sup.i => running[d] = 0
  BY DEF IInv, Stopped, At
<1>3. d < sup.i \/ d = sup.i
  BY DEF Daemons
<1>4. CASE up
  BY <1>1, <1>2, <1>3, <1>4
<1>5. CASE ~up
  BY <1>1, <1>2, <1>3, <1>5
<1> QED
  BY <1>4, <1>5

LEMMA KillHardDaemonStep ==
  ASSUME IInv, KillHard, sup.i \in Daemons
  PROVE  IInv'
<1>1. /\ At("force") /\ NextDaemon
      /\ UNCHANGED <<sysconfig, file, timeout_tag, unsynced, damaged, committed>>
  BY DEF KillHard, disk
<1>2. PICK up \in BOOLEAN :
        /\ Running(sup.i, up)
        /\ running' = IF up THEN [running EXCEPT ![sup.i] = 0] ELSE running
        /\ told' = IF up THEN [told EXCEPT ![sup.i] = 0] ELSE told
        /\ IF up THEN Ends(sup.i) ELSE UNCHANGED dbserver
  BY DEF KillHard
<1>13. writing' \in BOOLEAN /\ UNCHANGED journal
  BY <1>2 DEF Ends, dbserver, IInv, Typed, FilesType
<1>3. SupType' /\ sup'.at = "force" /\ sup'.i = sup.i + 1
  BY <1>1, NextDaemonOK DEF IInv, Typed, At
<1>4. RestType' /\ (blind => blind') /\ (~blind' => up = (running[sup.i] > 0))
  BY <1>1, <1>2, RunningOK DEF IInv, Typed, RestType
<1>5. DaemonsType'
  BY <1>2 DEF IInv, Typed, DaemonsType
<1>6. FilesType'
  BY <1>1, <1>13 DEF IInv, Typed, FilesType
<1>7. OneInstance'
  BY <1>2, <1>4 DEF IInv, Typed, DaemonsType, OneInstance
<1>8. Ready'
  BY <1>1, <1>3 DEF IInv, Ready, At
<1>9. ASSUME ~blind', NEW d \in Daemons, d <= sup.i
      PROVE  running'[d] = 0
  <2>1. ~blind /\ up = (running[sup.i] > 0)
    BY <1>4, <1>9
  <2>2. running[sup.i] > 0 \/ running[sup.i] = 0
    BY DEF IInv, Typed, DaemonsType
  <2>3. up \/ running[sup.i] = 0
    BY <2>1, <2>2, Zenon
  <2> QED
    BY <1>1, <1>2, <1>9, <2>1, <2>3, ForcedOff
<1>10. \A d \in Daemons : d < sup.i + 1 => d <= sup.i
  BY DEF Daemons
<1>11. Stopped'
  BY <1>3, <1>9, <1>10 DEF Stopped, At
<1>12. Copied'
  BY <1>1, <1>3, <1>4, <1>13 DEF IInv, Copied, At, Whole
<1> QED
  BY <1>3, <1>4, <1>5, <1>6, <1>7, <1>8, <1>11, <1>12 DEF IInv, Typed

LEMMA KillHardStep == ASSUME IInv, KillHard PROVE IInv'
<1>1. CASE sup.i \in Daemons
  BY <1>1, KillHardDaemonStep
<1>2. CASE sup.i \notin Daemons
  <2>1. /\ At("force") /\ Go("copy")
        /\ UNCHANGED <<running, told, sysconfig, file, timeout_tag, left, blind,
                 journal, writing, unsynced, damaged, committed>>
    BY <1>2 DEF KillHard, dbserver, disk
  <2>2. blind \/ \A d \in Daemons : running[d] = 0
    BY <1>2, <2>1, PastAll DEF IInv, Typed, Stopped, At
  <2> QED
    BY <2>1, <2>2, MovesOn DEF Places, IInv, Typed, RestType, Ready, At
<1> QED
  BY <1>1, <1>2

-----------------------------------------------------------------------------
(* Steps of a copy.                                                        *)

LEMMA CopyStartsStep == ASSUME IInv, CopyStarts PROVE IInv'
<1>1. /\ At("copy")
      /\ UNCHANGED <<running, told, file, timeout_tag, left, blind, journal, writing,
                     damaged, committed>>
  BY DEF CopyStarts, dbserver
<1>2. CASE sup.src = NoFile
  <2>1. Go("check") /\ UNCHANGED <<sysconfig, unsynced>>
    BY <1>2 DEF CopyStarts
  <2>2. sysconfig # NoFile
    BY <1>2, SameType DEF IInv, Ready
  <2> QED
    BY <1>1, <2>1, <2>2, MovesOn DEF Places, IInv, Typed, RestType, At
<1>3. CASE sup.src # NoFile
  <2>1. /\ sysconfig' = [Same(Lost) EXCEPT ![1] = sup.src[1]]
        /\ unsynced' = TRUE /\ Go("copying")
    BY <1>3 DEF CopyStarts
  <2>2. /\ SupType' /\ sup'.at = "copying" /\ sup'.src = sup.src
    BY <2>1, GoOK DEF IInv, Typed, Places
  <2>3. sup.src \in Database
    BY <1>3 DEF IInv, Typed, SupType, Sups
  <2>4. Same(Lost) \in Database /\ sup.src[1] \in Page
    <3>1. Lost \in Page
      BY DEF Page
    <3>2. sup.src[1] \in Page
      BY <2>3 DEF Database, Pages
    <3> QED
      BY <3>1, <3>2, SameType
  <2>5. sysconfig' \in Database /\ sysconfig'[1] = sup.src[1]
    BY <2>1, <2>4 DEF Database, Pages
  <2>6. DaemonsType' /\ FilesType' /\ RestType' /\ OneInstance'
    BY <1>1, <2>1, <2>5 DEF IInv, Typed, DaemonsType, FilesType, RestType, OneInstance
  <2>7. Ready'
    BY <1>3, <2>2, <2>5 DEF Ready, At
  <2>8. Stopped'
    BY <1>1, <2>2 DEF IInv, Stopped, At
  <2>9. Copied'
    BY <2>2, <2>5 DEF Copied, At
  <2> QED
    BY <2>2, <2>6, <2>7, <2>8, <2>9 DEF IInv, Typed
<1> QED
  BY <1>2, <1>3

LEMMA CopyEndsStep == ASSUME IInv, CopyEnds PROVE IInv'
<1>1. /\ At("copying") /\ Go("check")
      /\ sysconfig' = [sysconfig EXCEPT ![2] = sup.src[2]]
      /\ damaged' = (~Whole(sup.src) \/ journal # NoJournal)
      /\ UNCHANGED <<running, told, file, timeout_tag, left, blind, journal, writing,
                     unsynced, committed>>
  BY DEF CopyEnds, dbserver
<1>2. /\ SupType' /\ sup'.at = "check" /\ sup'.src = sup.src
  BY <1>1, GoOK DEF IInv, Typed, Places
<1>3. sup.src \in Database /\ sysconfig \in Database
  BY <1>1 DEF IInv, Typed, SupType, Sups, FilesType, Ready, At
<1>4. sup.src[2] \in Page
  BY <1>3 DEF Database, Pages
<1>5. sysconfig' \in Database /\ sysconfig'[1] = sysconfig[1] /\ sysconfig'[2] = sup.src[2]
  BY <1>1, <1>3, <1>4 DEF Database, Pages
<1>11. damaged' \in BOOLEAN
  BY <1>1
<1>6. DaemonsType' /\ FilesType' /\ OneInstance'
  BY <1>1, <1>5, <1>11 DEF IInv, Typed, DaemonsType, FilesType, OneInstance
<1>7. RestType'
  BY <1>1 DEF IInv, Typed, RestType
<1>8. Ready'
  BY <1>2, <1>5 DEF Ready, At
<1>9. Stopped'
  BY <1>2 DEF Stopped
<1>10. Copied'
  <2>1. blind \/ sysconfig'[1] = sup.src[1]
    BY <1>1, <1>5 DEF IInv, Copied
  <2>2. ASSUME ~blind, ~damaged' PROVE Whole(PlayedBack(sysconfig, journal))'
    <3>1. sysconfig' = sup.src
      BY <1>3, <1>5, <2>1, <2>2 DEF Database, Pages
    <3>2. Whole(sup.src) /\ journal = NoJournal
      BY <1>1, <2>2
    <3>3. PlayedBack(sysconfig', journal') = sup.src
      BY <1>1, <1>3, <3>1, <3>2, NothingSaved
    <3> QED
      BY <1>1, <3>2, <3>3 DEF Whole
  <2> QED
    BY <1>1, <1>2, <2>2 DEF Copied, At
<1> QED
  BY <1>2, <1>6, <1>7, <1>8, <1>9, <1>10 DEF IInv, Typed

LEMMA CopyBreaksStep == ASSUME IInv, CopyBreaks PROVE IInv'
<1>1. /\ At("copying") /\ Go("check") /\ damaged' = TRUE
      /\ UNCHANGED <<running, told, sysconfig, file, timeout_tag, left, blind, journal,
                     writing, unsynced, committed>>
  BY DEF CopyBreaks, dbserver
<1>2. /\ SupType' /\ sup'.at = "check" /\ sup'.src = sup.src
  BY <1>1, GoOK DEF IInv, Typed, Places
<1>3. DaemonsType' /\ FilesType' /\ RestType' /\ OneInstance'
  BY <1>1 DEF IInv, Typed, DaemonsType, FilesType, RestType, OneInstance
<1>4. Ready'
  BY <1>1, <1>2 DEF IInv, Ready, At
<1>5. Stopped' /\ Copied'
  BY <1>1, <1>2 DEF Stopped, Copied, At
<1> QED
  BY <1>2, <1>3, <1>4, <1>5 DEF IInv, Typed

-----------------------------------------------------------------------------
(* Steps of the daemons and of the power.                                  *)

LEMMA CrashStep == ASSUME IInv, NEW d \in Daemons, Crash(d) PROVE IInv'
<1>1. /\ running[d] > told[d] /\ Spend("faults")
      /\ running' = [running EXCEPT ![d] = @ - 1]
      /\ UNCHANGED <<told, sysconfig, file, sup, timeout_tag, blind, journal, unsynced,
                     damaged, committed>>
      /\ writing' = (writing /\ d # Dbserver)
  BY DEF Crash, Ends, disk
<1>2. timeout_tag' \in BOOLEAN /\ blind' \in BOOLEAN
  BY <1>1 DEF IInv, Typed, RestType
<1>3. RestType'
  BY <1>1, <1>2, SpendOK DEF IInv, Typed, Kinds
<1>4. DaemonsType'
  BY <1>1 DEF IInv, Typed, DaemonsType
<1>5. FilesType' /\ SupType'
  BY <1>1 DEF IInv, Typed, FilesType, SupType
<1>6. running[d] > 0
  BY <1>1 DEF IInv, Typed, DaemonsType
<1>7. Ready'
  BY <1>1, <1>6, OffType DEF IInv, Ready, At
<1>8. OneInstance' /\ Stopped'
  BY <1>1 DEF IInv, Typed, DaemonsType, OneInstance, Stopped
<1>9. Copied'
  BY <1>1 DEF IInv, Copied, At, Whole
<1> QED
  BY <1>3, <1>4, <1>5, <1>7, <1>8, <1>9 DEF IInv, Typed

LEMMA ExitStep == ASSUME IInv, NEW d \in Daemons, Exit(d) PROVE IInv'
<1>1. /\ told[d] > 0
      /\ told' = [told EXCEPT ![d] = @ - 1]
      /\ running' = [running EXCEPT ![d] = @ - 1]
      /\ UNCHANGED <<sysconfig, file, sup, timeout_tag, left, blind, journal, unsynced,
                     damaged, committed>>
      /\ writing' = (writing /\ d # Dbserver)
  BY DEF Exit, Ends, disk
<1>2. DaemonsType' /\ running[d] > 0
  BY <1>1 DEF IInv, Typed, DaemonsType
<1>3. FilesType' /\ SupType' /\ RestType'
  BY <1>1 DEF IInv, Typed, FilesType, SupType, RestType
<1>4. Ready'
  BY <1>1, <1>2, OffType DEF IInv, Ready, At
<1>5. OneInstance' /\ Stopped'
  BY <1>1, <1>2 DEF IInv, Typed, DaemonsType, OneInstance, Stopped
<1>6. Copied'
  BY <1>1 DEF IInv, Copied, At, Whole
<1> QED
  BY <1>2, <1>3, <1>4, <1>5, <1>6 DEF IInv, Typed

\* What the steps of dbserver have in common: it writes no page that the journal has
\* not, or drops a journal of which nothing is left to play back.
LEMMA DbStep ==
  ASSUME IInv, running[Dbserver] > 0,
         UNCHANGED <<running, told, file, sup, timeout_tag, blind, damaged>>,
         RestType', FilesType', sysconfig' # NoFile,
         Whole(PlayedBack(sysconfig, journal)) => Whole(PlayedBack(sysconfig, journal))'
  PROVE  IInv'
<1>1. Dbserver \in Daemons
  BY DEF Dbserver, Daemons
<1>2. sysconfig # NoFile
  BY <1>1, OffType DEF IInv, Ready
<1>3. DaemonsType' /\ SupType' /\ OneInstance'
  BY DEF IInv, Typed, DaemonsType, SupType, OneInstance
<1>4. Ready'
  BY DEF IInv, Ready, At
<1>5. Stopped'
  BY DEF IInv, Stopped
<1>6. Copied'
  <2>1. SUFFICES ASSUME ~blind PROVE Copied'
    BY DEF Copied
  <2>2. ~At("copying")
    BY <1>1, <2>1 DEF IInv, Stopped, At
  <2>3. damaged \/ Whole(PlayedBack(sysconfig, journal))
    BY <1>2, <2>1, <2>2 DEF IInv, Copied
  <2> QED
    BY <2>2, <2>3 DEF Copied, At
<1> QED
  BY <1>3, <1>4, <1>5, <1>6 DEF IInv, Typed

\* There is a database where dbserver runs.
LEMMA DbThere ==
  ASSUME IInv, running[Dbserver] > 0
  PROVE  sysconfig \in Database /\ sysconfig # NoFile /\ journal \in Journal
<1>1. Dbserver \in Daemons
  BY DEF Dbserver, Daemons
<1>2. sysconfig # NoFile
  BY <1>1, OffType DEF IInv, Ready
<1> QED
  BY <1>2 DEF IInv, Typed, FilesType

LEMMA DbBeginStep == ASSUME IInv, DbBegin PROVE IInv'
<1>1. /\ running[Dbserver] > 0 /\ journal = NoJournal /\ Spend("writes")
      /\ writing' = TRUE
      /\ UNCHANGED <<running, told, sysconfig, file, sup, timeout_tag, blind, unsynced,
                     damaged, committed>>
  BY DEF DbBegin, disk
<1>2. PICK saved \in SUBSET Pages : journal' = [p \in saved |-> sysconfig[p]]
  BY DEF DbBegin
<1>3. sysconfig \in Database /\ sysconfig # NoFile
  BY <1>1, DbThere
<1>4. journal' \in [saved -> Page]
  BY <1>2, <1>3 DEF Database
<1>5. journal' \in Journal
  BY <1>4 DEF Journal
<1>6. RestType'
  BY <1>1, SpendOK DEF IInv, Typed, RestType, Kinds
<1>7. FilesType'
  BY <1>1, <1>5 DEF IInv, Typed, FilesType
<1>8. PlayedBack(sysconfig, journal) = sysconfig
  BY <1>1, <1>3, NothingSaved
<1>9. PlayedBack(sysconfig', journal') = sysconfig
  <2>1. \A p \in Pages : (IF p \in DOMAIN journal' THEN journal'[p] ELSE sysconfig[p])
                          = sysconfig[p]
    BY <1>2
  <2> QED
    BY <1>1, <1>3, <2>1 DEF PlayedBack, Database
<1>10. Whole(PlayedBack(sysconfig, journal)) => Whole(PlayedBack(sysconfig, journal))'
  BY <1>1, <1>8, <1>9 DEF Whole
<1> QED
  BY <1>1, <1>3, <1>6, <1>7, <1>10, DbStep

\* A page is written that the journal has.
LEMMA PageStep ==
  ASSUME IInv, running[Dbserver] > 0, NEW p \in DOMAIN journal, NEW v \in Page,
         sysconfig' = [sysconfig EXCEPT ![p] = v],
         UNCHANGED <<running, told, file, sup, timeout_tag, left, blind, journal, writing,
                     unsynced, damaged, committed>>
  PROVE  IInv'
<1>1. sysconfig \in Database /\ journal \in Journal
  BY DbThere
<1>2. /\ sysconfig' \in Database /\ sysconfig' # NoFile
      /\ PlayedBack(sysconfig', journal) = PlayedBack(sysconfig, journal)
  <2>1. [sysconfig EXCEPT ![p] = v] \in Database
        /\ PlayedBack([sysconfig EXCEPT ![p] = v], journal) = PlayedBack(sysconfig, journal)
    BY <1>1, SavedPages
  <2> QED
    BY <2>1
<1>3. RestType' /\ FilesType'
  BY <1>2 DEF IInv, Typed, RestType, FilesType
<1>4. Whole(PlayedBack(sysconfig, journal)) => Whole(PlayedBack(sysconfig, journal))'
  BY <1>2 DEF Whole
<1> QED
  BY <1>2, <1>3, <1>4, DbStep

LEMMA DbWriteStep == ASSUME IInv, DbWrite PROVE IInv'
<1>1. /\ running[Dbserver] > 0
      /\ UNCHANGED <<running, told, file, sup, timeout_tag, left, blind, journal, writing,
                     unsynced, damaged, committed>>
  BY DEF DbWrite, dbserver, disk
<1>2. PICK p \in DOMAIN journal : sysconfig' = [sysconfig EXCEPT ![p] = Version]
  BY DEF DbWrite
<1>3. left.writes \in Nat /\ left.writes <= MaxWrites /\ MaxWrites \in Nat
  BY DEF IInv, Typed, RestType, Kinds
<1>4. Version \in Page
  BY <1>3 DEF Version, Page
<1> QED
  BY <1>1, <1>2, <1>4, PageStep

LEMMA DbPlayBackStep == ASSUME IInv, DbPlayBack PROVE IInv'
<1>1. /\ running[Dbserver] > 0
      /\ UNCHANGED <<running, told, file, sup, timeout_tag, left, blind, journal, writing,
                     unsynced, damaged, committed>>
  BY DEF DbPlayBack, dbserver, disk
<1>2. PICK p \in DOMAIN journal : sysconfig' = [sysconfig EXCEPT ![p] = journal[p]]
  BY DEF DbPlayBack
<1>3. journal[p] \in Page
  BY <1>1, DbThere, SavedPages
<1> QED
  BY <1>1, <1>2, <1>3, PageStep

LEMMA DbCommitStep == ASSUME IInv, DbCommit PROVE IInv'
<1>1. /\ running[Dbserver] > 0 /\ journal' = NoJournal /\ writing' = FALSE
      /\ unsynced' = FALSE
      /\ committed' = IF Whole(PlayedBack(sysconfig, journal))
                      THEN committed \cup {sysconfig} ELSE committed
      /\ UNCHANGED <<running, told, sysconfig, file, sup, timeout_tag, left, blind, damaged>>
  BY DEF DbCommit
<1>2. sysconfig \in Database /\ sysconfig # NoFile
  BY <1>1, DbThere
<1>3. committed' \subseteq Database
  BY <1>1, <1>2 DEF IInv, Typed, FilesType
<1>4. RestType' /\ FilesType'
  BY <1>1, <1>3, NothingSaved DEF IInv, Typed, RestType, FilesType
<1>5. PlayedBack(sysconfig', journal') = sysconfig
  BY <1>1, <1>2, NothingSaved
<1>6. Whole(PlayedBack(sysconfig, journal)) => Whole(PlayedBack(sysconfig, journal))'
  BY <1>1, <1>5 DEF Whole
<1> QED
  BY <1>1, <1>2, <1>4, <1>6, DbStep

LEMMA DbPlayedBackStep == ASSUME IInv, DbPlayedBack PROVE IInv'
<1>1. /\ running[Dbserver] > 0 /\ journal' = NoJournal /\ unsynced' = FALSE
      /\ PlayedBack(sysconfig, journal) = sysconfig
      /\ UNCHANGED <<running, told, sysconfig, file, writing, sup, timeout_tag, left, blind,
                     damaged, committed>>
  BY DEF DbPlayedBack
<1>2. sysconfig \in Database /\ sysconfig # NoFile
  BY <1>1, DbThere
<1>3. RestType' /\ FilesType'
  BY <1>1, NothingSaved DEF IInv, Typed, RestType, FilesType
<1>4. PlayedBack(sysconfig', journal') = sysconfig
  BY <1>1, <1>2, NothingSaved
<1>5. Whole(PlayedBack(sysconfig, journal)) => Whole(PlayedBack(sysconfig, journal))'
  BY <1>1, <1>4 DEF Whole
<1> QED
  BY <1>1, <1>2, <1>3, <1>5, DbStep

LEMMA PowerCutStep == ASSUME IInv, PowerCut PROVE IInv'
<1>1. /\ Spend("faults")
      /\ running' = Off /\ told' = Off /\ timeout_tag' = FALSE
      /\ writing' = FALSE /\ unsynced' = FALSE
      /\ sup' = Start(Default)
      /\ UNCHANGED <<file, blind, journal, committed>>
  BY DEF PowerCut
<1>2. PICK kept \in SUBSET Pages :
        /\ sysconfig' = IF sysconfig = NoFile THEN NoFile
                        ELSE [p \in Pages |-> IF p \in kept THEN sysconfig[p] ELSE Lost]
        /\ damaged' = (damaged \/ At("copying") \/ kept # Pages)
  BY DEF PowerCut
<1>3. RestType'
  BY <1>1, SpendOK DEF IInv, Typed, RestType, Kinds
<1>4. DaemonsType'
  BY <1>1, OffType DEF DaemonsType
<1>5. SupType' /\ sup'.at = "init_db" /\ sup'.src = Default
  BY <1>1, SameType DEF SupType, Sups, Places, Start
<1>6. sysconfig' \in Database \cup {NoFile}
  <2>1. CASE sysconfig = NoFile
    BY <1>2, <2>1
  <2>2. CASE sysconfig # NoFile
    <3>1. sysconfig \in Database /\ Lost \in Page
      BY <2>2 DEF IInv, Typed, FilesType, Page
    <3>2. \A p \in Pages : (IF p \in kept THEN sysconfig[p] ELSE Lost) \in Page
      BY <3>1 DEF Database
    <3> QED
      BY <1>2, <2>2, <3>2 DEF Database
  <2> QED
    BY <2>1, <2>2
<1>10. damaged' \in BOOLEAN
  BY <1>2
<1>11. FilesType'
  BY <1>1, <1>6, <1>10 DEF IInv, Typed, FilesType
<1>7. Ready'
  BY <1>1, <1>5 DEF Ready, At
<1>8. OneInstance' /\ Stopped'
  BY <1>1, <1>5, OffType DEF OneInstance, Stopped
<1>9. Copied'
  <2>1. SUFFICES ASSUME ~blind, ~damaged', sysconfig' # NoFile
                 PROVE  Whole(PlayedBack(sysconfig, journal))'
    BY <1>1, <1>5 DEF Copied, At
  <2>2. kept = Pages /\ ~damaged /\ ~At("copying") /\ sysconfig # NoFile
    BY <1>2, <2>1
  <2>3. sysconfig \in Database
    BY <2>2 DEF IInv, Typed, FilesType
  <2>4. sysconfig' = sysconfig
    BY <1>2, <2>2, <2>3 DEF Database
  <2>5. Whole(PlayedBack(sysconfig, journal))
    BY <2>1, <2>2 DEF IInv, Copied
  <2> QED
    BY <1>1, <2>4, <2>5 DEF Whole
<1> QED
  BY <1>3, <1>4, <1>5, <1>7, <1>8, <1>9, <1>11 DEF IInv, Typed

-----------------------------------------------------------------------------
(* The theorems.                                                           *)

LEMMA StutterStep == ASSUME IInv, UNCHANGED vars PROVE IInv'
<1>1. UNCHANGED <<running, told, sysconfig, file, sup, timeout_tag, left, blind,
                 journal, writing, unsynced, damaged, committed>>
  BY DEF vars, dbserver, disk
<1>2. Typed'
  BY <1>1 DEF IInv, Typed, DaemonsType, FilesType, SupType, RestType
<1>3. Ready' /\ OneInstance' /\ Stopped' /\ Copied'
  BY <1>1 DEF IInv, Ready, OneInstance, Stopped, Copied, At, Whole
<1> QED
  BY <1>2, <1>3 DEF IInv

LEMMA NextInv == IInv /\ [Next]_vars => IInv'
<1> SUFFICES ASSUME IInv, [Next]_vars PROVE IInv'
  OBVIOUS
<1>1. CASE UNCHANGED vars
  BY <1>1, StutterStep
<1>2. CASE IpcDaemon
  BY <1>2, InitDbStep, CheckStep, CheckedStep, TimeoutStep, ExportedStep, WaitStep,
     KillStep, PollStep, KillHardStep, CopyStartsStep, CopyEndsStep, CopyBreaksStep
     DEF IpcDaemon
<1>3. CASE ExportDB \/ ImportDB
  BY <1>3, ExportDBStep, ImportDBStep
<1>4. CASE \E d \in Daemons : Crash(d) \/ Exit(d)
  BY <1>4, CrashStep, ExitStep
<1>5. CASE DbServer \/ PowerCut
  BY <1>5, DbBeginStep, DbWriteStep, DbCommitStep, DbPlayBackStep, DbPlayedBackStep,
     PowerCutStep DEF DbServer
<1> QED
  BY <1>1, <1>2, <1>3, <1>4, <1>5 DEF Next

LEMMA Inductive == Spec => []IInv
BY InitInv, NextInv, PTL DEF Spec

\* The shapes of the supervisor's state, daemon_services_stop's count of rounds
\* among them, which never passes below zero.
THEOREM TypeCorrect == Spec => []TypeOK
<1>1. IInv => TypeOK
  BY Consequences
<1> QED
  BY Inductive, <1>1, PTL

\* program_check_and_run never starts a daemon beside one of its kind.
THEOREM OneOfEach == Spec => []OneInstance
<1>1. IInv => OneInstance
  BY Consequences
<1> QED
  BY Inductive, <1>1, PTL

\* daemon_services_stop leaves nobody behind, however long a daemon takes to stop
\* and however many rounds there are.
THEOREM ImportsAlone == Spec => []ImportAlone
<1>1. IInv => ImportAlone
  BY Consequences
<1> QED
  BY Inductive, <1>1, PTL

\* Wherever a transaction, an import or the power is cut short, dbserver runs on a
\* database some transaction has left behind, or has the journal that leads back to
\* one, unless the last copy of cp was itself spoilt (daemon_services_stop,
\* db_manager_import_db).
THEOREM RunsOnWhole == Spec => []DbWhole
<1>1. IInv => DbWhole
  BY Consequences
<1> QED
  BY Inductive, <1>1, PTL
=============================================================================
