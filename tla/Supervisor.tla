----------------------------- MODULE Supervisor -----------------------------
(***************************************************************************)
(* The process supervisor (src/thirdparty/ipc-daemon): one thread with a   *)
(* main loop.  At boot it makes sure that there is a database and starts   *)
(* the daemons; every three seconds it asks ps for each of them and starts *)
(* those that are gone; on request it copies the running system's database *)
(* to a file (ExportDB), or stops all daemons, puts a file in the place of *)
(* the database and starts them again (ImportDB).  Around it daemons crash,*)
(* take their time to stop or never do, dbserver writes, ps cannot be run  *)
(* and the power fails.                                                    *)
(*                                                                         *)
(* A database is a pair of pages, each with the number of the transaction  *)
(* that last wrote it.  dbserver writes with SQLite's rollback journal: the *)
(* pages of a transaction are saved in the journal, overwritten one by one  *)
(* and the journal is dropped; a journal it finds it plays back first.     *)
(* cp empties a file and then copies one page after the other, knows of no  *)
(* journal, and what it has copied reaches the disk at some later time.    *)
(***************************************************************************)
EXTENDS Naturals

CONSTANTS
  Count,          \* PROCESS_NUM: how many daemons; the first is dbserver
  WaitCount,      \* wait_count of daemon_services_stop (10 in the code)
  NoFile, Lost,   \* a file that is not there; a page missing or of no database
  MaxWrites, MaxRequests, \* bounds of a behaviour
  MaxFaults       \* bound: crashes, failures of popen and power cuts together

ASSUME SupervisorAssumption ==
  /\ Count \in Nat \ {0} /\ WaitCount \in Nat \ {0, 1}
  /\ {MaxWrites, MaxRequests, MaxFaults} \subseteq Nat
  /\ Lost \notin 0 .. MaxWrites

Daemons == 1 .. Count
Dbserver == 1
Pages == {1, 2}
Page == (0 .. MaxWrites) \cup {Lost}
Database == [Pages -> Page]
Same(v) == [p \in Pages |-> v]
Default == Same(0)      \* SYSCONFIG_DB_DEFAULT_PATH
Foreign == Same(Lost)   \* an uploaded file that is no database
Journal == UNION {[saved -> Page] : saved \in SUBSET Pages}
NoJournal == [p \in {} |-> Lost]

\* the database as dbserver has it when it has played the journal back
PlayedBack(d, j) == [p \in Pages |-> IF p \in DOMAIN j THEN j[p] ELSE d[p]]

ASSUME FileAssumption == NoFile \notin Database

VARIABLES
  running,     \* how many processes of each daemon there are
  told,        \* how many of them killall has told to stop
  sysconfig,   \* SYSCONFIG_DB_RUNNING_PATH
  file,        \* the file that ExportDB writes
  journal,     \* sysconfig.db-journal: the pages saved there
  writing,     \* dbserver is in a transaction
  unsynced,    \* what cp has put into sysconfig may not have reached the disk
  sup,         \* the supervisor: where it is, at which daemon, with which count
  timeout_tag, \* whether the periodic check is set
  left,        \* what the bounds still allow
  blind,       \* history: ps could not be run
  damaged,     \* history: the last copy came to nothing whole, see DbWhole
  committed    \* history: the databases that transactions have left behind

dbserver == <<journal, writing>>
disk == <<unsynced, damaged, committed>>
vars == <<running, told, sysconfig, file, dbserver, sup, timeout_tag, left, blind, disk>>

At(pc) == sup.at = pc
Go(pc) == sup' = [sup EXCEPT !.at = pc, !.i = 1]
NextDaemon == sup' = [sup EXCEPT !.i = @ + 1]
Spend(what) == left[what] > 0 /\ left' = [left EXCEPT ![what] = @ - 1]
Start(src) == [at |-> "init_db", i |-> 1, wait_count |-> 0, src |-> src]
Off == [d \in Daemons |-> 0]
Whole(d) == d \in committed

\* A process of d ends; in a transaction, dbserver leaves its journal behind.
Ends(d) == writing' = (writing /\ d # Dbserver) /\ UNCHANGED journal

Init ==
  /\ running = Off
  /\ told = Off
  /\ sysconfig \in {NoFile, Default}
  /\ file = NoFile
  /\ sup = Start(Default)
  /\ timeout_tag = FALSE
  /\ left = [writes |-> MaxWrites, requests |-> MaxRequests, faults |-> MaxFaults]
  /\ blind = FALSE
  /\ journal = NoJournal /\ writing = FALSE
  /\ unsynced = FALSE /\ damaged = FALSE
  /\ committed = {Default}

(***************************************************************************)
(* program_running: ps tells whether there is a process of that name; when *)
(* popen fails the answer is "no".  Nobody else starts daemons, so what is *)
(* done on the answer is one step with it: a daemon that dies in between   *)
(* might have died after.                                                  *)
(***************************************************************************)
Running(d, up) ==
  \/ up = (running[d] > 0) /\ UNCHANGED <<left, blind>>
  \/ up = FALSE /\ Spend("faults") /\ blind' = TRUE

\* A mistake OneInstance must notice: every check starts every daemon.
CheckUnasked ==
  /\ At("check") /\ sup.i \in Daemons
  /\ running' = [running EXCEPT ![sup.i] = @ + 1]
  /\ NextDaemon
  /\ UNCHANGED <<told, sysconfig, file, timeout_tag, left, blind, dbserver, disk>>

\* A mistake ComesBack must notice: the first daemon that runs ends the loop.
CheckBreaks ==
  /\ At("check") /\ sup.i \in Daemons
  /\ \E up \in BOOLEAN :
       /\ Running(sup.i, up)
       /\ running' = IF up THEN running ELSE [running EXCEPT ![sup.i] = @ + 1]
       /\ sup' = [sup EXCEPT !.i = IF up THEN Count + 1 ELSE @ + 1]
  /\ UNCHANGED <<told, sysconfig, file, timeout_tag, dbserver, disk>>

\* program_check_and_run, then g_timeout_add when daemon_services_start calls it.
Check ==
  /\ At("check") /\ sup.i \in Daemons
  /\ \E up \in BOOLEAN :
       /\ Running(sup.i, up)
       /\ running' = IF up THEN running ELSE [running EXCEPT ![sup.i] = @ + 1]
  /\ NextDaemon
  /\ UNCHANGED <<told, sysconfig, file, timeout_tag, dbserver, disk>>

Checked ==
  /\ At("check") /\ sup.i \notin Daemons
  /\ Go("main_loop")
  /\ timeout_tag' = TRUE
  /\ UNCHANGED <<running, told, sysconfig, file, left, blind, dbserver, disk>>

\* The timer of the main loop.
Timeout ==
  /\ At("main_loop") /\ timeout_tag
  /\ Go("check")
  /\ UNCHANGED <<running, told, sysconfig, file, timeout_tag, left, blind, dbserver, disk>>

\* db_manager_init_db: any file will do.
InitDb ==
  /\ At("init_db")
  /\ Go(IF sysconfig = NoFile THEN "copy" ELSE "check")
  /\ UNCHANGED <<running, told, sysconfig, file, timeout_tag, left, blind, dbserver, disk>>

(***************************************************************************)
(* method_export_db                                                        *)
(***************************************************************************)
ExportDB ==
  /\ At("main_loop") /\ Spend("requests")
  /\ file' = [Same(Lost) EXCEPT ![1] = sysconfig[1]]
  /\ Go("export")
  /\ UNCHANGED <<running, told, sysconfig, timeout_tag, blind, dbserver, disk>>

\* The rest of the copy, or nothing more of it when cp fails.
Exported ==
  /\ At("export")
  /\ \/ file' = [file EXCEPT ![2] = sysconfig[2]]
     \/ UNCHANGED file
  /\ Go("main_loop")
  /\ UNCHANGED <<running, told, sysconfig, timeout_tag, left, blind, dbserver, disk>>

(***************************************************************************)
(* method_import_db: daemon_services_stop, copy, daemon_services_start     *)
(***************************************************************************)
ImportDB ==
  /\ At("main_loop") /\ Spend("requests")
  /\ timeout_tag' = FALSE
  /\ \E src \in {file, Foreign} :
       sup' = [sup EXCEPT !.at = "wait", !.wait_count = WaitCount, !.src = src]
  /\ UNCHANGED <<running, told, sysconfig, file, blind, dbserver, disk>>

\* A mistake ImportAlone and DbWhole must notice: "while (wait_count-- > 0)"
\* leaves -1 behind, which the test for the last resort does not expect.
WaitPostfix ==
  /\ At("wait")
  /\ IF sup.wait_count > 0
     THEN sup' = [sup EXCEPT !.at = "kill", !.i = 1, !.wait_count = @ - 1]
     ELSE Go("copy")
  /\ UNCHANGED <<running, told, sysconfig, file, timeout_tag, left, blind, dbserver, disk>>

\* "while (--wait_count > 0)", then "if (wait_count == 0)"
Wait ==
  /\ At("wait")
  /\ sup' = [sup EXCEPT !.at = IF sup.wait_count > 1 THEN "kill" ELSE "force",
                        !.i = 1, !.wait_count = @ - 1]
  /\ UNCHANGED <<running, told, sysconfig, file, timeout_tag, left, blind, dbserver, disk>>

\* killall: every process of that name is told to stop.
Kill ==
  /\ At("kill")
  /\ IF sup.i \in Daemons
     THEN /\ \E up \in BOOLEAN :
               /\ Running(sup.i, up)
               /\ told' = IF up THEN [told EXCEPT ![sup.i] = running[sup.i]] ELSE told
          /\ NextDaemon
     ELSE Go("poll") /\ UNCHANGED <<told, left, blind>>
  /\ UNCHANGED <<running, sysconfig, file, timeout_tag, dbserver, disk>>

\* The check after the pause: one that still runs calls for another round.
Poll ==
  /\ At("poll")
  /\ IF sup.i \in Daemons
     THEN \E up \in BOOLEAN :
            Running(sup.i, up) /\ IF up THEN Go("wait") ELSE NextDaemon
     ELSE Go("copy") /\ UNCHANGED <<left, blind>>
  /\ UNCHANGED <<running, told, sysconfig, file, timeout_tag, dbserver, disk>>

\* A mistake TypeOK must notice: the last resort leaves its processes told to stop.
KillHardTold ==
  /\ At("force")
  /\ IF sup.i \in Daemons
     THEN /\ \E up \in BOOLEAN :
               /\ Running(sup.i, up)
               /\ running' = IF up THEN [running EXCEPT ![sup.i] = 0] ELSE running
               /\ IF up THEN Ends(sup.i) ELSE UNCHANGED dbserver
          /\ NextDaemon
     ELSE Go("copy") /\ UNCHANGED <<running, left, blind, dbserver>>
  /\ UNCHANGED <<told, sysconfig, file, timeout_tag, disk>>

\* killall -9, which has its effect within the pause that follows.
KillHard ==
  /\ At("force")
  /\ IF sup.i \in Daemons
     THEN /\ \E up \in BOOLEAN :
               /\ Running(sup.i, up)
               /\ running' = IF up THEN [running EXCEPT ![sup.i] = 0] ELSE running
               /\ told' = IF up THEN [told EXCEPT ![sup.i] = 0] ELSE told
               /\ IF up THEN Ends(sup.i) ELSE UNCHANGED dbserver
          /\ NextDaemon
     ELSE Go("copy") /\ UNCHANGED <<running, told, left, blind, dbserver>>
  /\ UNCHANGED <<sysconfig, file, timeout_tag, disk>>

\* copy: nothing is done when the source is not there; a journal stays where it is.
CopyStarts ==
  /\ At("copy")
  /\ IF sup.src = NoFile
     THEN Go("check") /\ UNCHANGED <<sysconfig, unsynced>>
     ELSE /\ sysconfig' = [Same(Lost) EXCEPT ![1] = sup.src[1]]
          /\ unsynced' = TRUE
          /\ Go("copying")
  /\ UNCHANGED <<running, told, file, dbserver, timeout_tag, left, blind, damaged, committed>>

CopyEnds ==
  /\ At("copying")
  /\ sysconfig' = [sysconfig EXCEPT ![2] = sup.src[2]]
  /\ damaged' = (~Whole(sup.src) \/ journal # NoJournal)
  /\ Go("check")
  /\ UNCHANGED <<running, told, file, dbserver, timeout_tag, left, blind, unsynced,
                 committed>>

\* cp fails half-way: the result says so and the daemons are started all the same.
CopyBreaks ==
  /\ At("copying")
  /\ damaged' = TRUE
  /\ Go("check")
  /\ UNCHANGED <<running, told, sysconfig, file, dbserver, timeout_tag, left, blind,
                 unsynced, committed>>

(***************************************************************************)
(* The daemons and the power.                                              *)
(***************************************************************************)
Crash(d) ==
  /\ running[d] > told[d] /\ Spend("faults")
  /\ running' = [running EXCEPT ![d] = @ - 1]
  /\ Ends(d)
  /\ UNCHANGED <<told, sysconfig, file, sup, timeout_tag, blind, disk>>

\* A process that was told to stop does so in its own time, or never; dbserver
\* has no handler that would end its transaction first.
Exit(d) ==
  /\ told[d] > 0
  /\ told' = [told EXCEPT ![d] = @ - 1]
  /\ running' = [running EXCEPT ![d] = @ - 1]
  /\ Ends(d)
  /\ UNCHANGED <<sysconfig, file, sup, timeout_tag, left, blind, disk>>

\* dbserver's next transaction saves the pages it is about to write, ...
Version == MaxWrites - left.writes

DbBegin ==
  /\ running[Dbserver] > 0 /\ ~writing /\ journal = NoJournal /\ Spend("writes")
  /\ \E saved \in SUBSET Pages \ {{}} : journal' = [p \in saved |-> sysconfig[p]]
  /\ writing' = TRUE
  /\ UNCHANGED <<running, told, sysconfig, file, sup, timeout_tag, blind, disk>>

\* ... writes them ...
DbWrite ==
  /\ running[Dbserver] > 0 /\ writing
  /\ \E p \in DOMAIN journal : sysconfig' = [sysconfig EXCEPT ![p] = Version]
  /\ UNCHANGED <<running, told, file, dbserver, sup, timeout_tag, left, blind, disk>>

\* ... and, when they have reached the disk, drops the journal.
DbCommit ==
  /\ running[Dbserver] > 0 /\ writing
  /\ \A p \in DOMAIN journal : sysconfig[p] = Version
  /\ journal' = NoJournal /\ writing' = FALSE
  /\ unsynced' = FALSE
  /\ committed' = IF Whole(PlayedBack(sysconfig, journal)) THEN committed \cup {sysconfig}
                                                           ELSE committed
  /\ UNCHANGED <<running, told, sysconfig, file, sup, timeout_tag, left, blind, damaged>>

\* A new dbserver finds a journal: it plays it back, page by page, and drops it.
DbPlayBack ==
  /\ running[Dbserver] > 0 /\ ~writing
  /\ \E p \in DOMAIN journal : sysconfig' = [sysconfig EXCEPT ![p] = journal[p]]
  /\ UNCHANGED <<running, told, file, dbserver, sup, timeout_tag, left, blind, disk>>

DbPlayedBack ==
  /\ running[Dbserver] > 0 /\ ~writing /\ journal # NoJournal
  /\ PlayedBack(sysconfig, journal) = sysconfig
  /\ journal' = NoJournal /\ unsynced' = FALSE
  /\ UNCHANGED <<running, told, sysconfig, file, writing, sup, timeout_tag, left, blind,
                 damaged, committed>>

DbServer == DbBegin \/ DbWrite \/ DbCommit \/ DbPlayBack \/ DbPlayedBack

\* Nobody calls fsync after cp: until dbserver does, any page of a copy may be lost.
PowerCut ==
  /\ Spend("faults")
  /\ running' = Off /\ told' = Off /\ timeout_tag' = FALSE
  /\ writing' = FALSE
  /\ sup' = Start(Default)
  /\ \E kept \in SUBSET Pages :
       /\ unsynced \/ kept = Pages
       /\ sysconfig' = IF sysconfig = NoFile THEN NoFile
                       ELSE [p \in Pages |-> IF p \in kept THEN sysconfig[p] ELSE Lost]
       /\ damaged' = (damaged \/ At("copying") \/ kept # Pages)
  /\ unsynced' = FALSE
  /\ UNCHANGED <<file, blind, journal, committed>>

IpcDaemon ==
  \/ InitDb \/ Check \/ Checked \/ Timeout
  \/ Exported \/ Wait \/ Kill \/ Poll \/ KillHard
  \/ CopyStarts \/ CopyEnds \/ CopyBreaks

Next ==
  \/ IpcDaemon
  \/ ExportDB \/ ImportDB
  \/ \E d \in Daemons : Crash(d) \/ Exit(d)
  \/ DbServer
  \/ PowerCut

Spec == Init /\ [][Next]_vars

\* The supervisor's loop goes on; daemons need not stop when told to.
FairSpec == Spec /\ WF_vars(IpcDaemon)

-----------------------------------------------------------------------------
\* The shapes of the state; the count of rounds does not pass below zero.
TypeOK ==
  /\ running \in [Daemons -> Nat]
  /\ told \in [Daemons -> Nat]
  /\ \A d \in Daemons : told[d] <= running[d]
  /\ sysconfig \in Database \cup {NoFile}
  /\ file \in Database \cup {NoFile}
  /\ sup \in [at : {"init_db", "check", "main_loop", "export", "wait", "kill", "poll",
                    "force", "copy", "copying"},
              i : 1 .. (Count + 1), wait_count : 0 .. WaitCount,
              src : Database \cup {NoFile}]
  /\ timeout_tag \in BOOLEAN
  /\ left \in [{"writes", "requests", "faults"} -> Nat]
  /\ blind \in BOOLEAN
  /\ journal \in Journal
  /\ {writing, unsynced, damaged} \subseteq BOOLEAN
  /\ committed \subseteq Database

\* No daemon is ever started beside one of its kind, whatever crashes, stops late
\* or is told to stop while an import goes on: only a ps that could not be run can
\* make the supervisor believe that one is gone (program_running).
OneInstance == blind \/ \A d \in Daemons : running[d] <= 1

\* The database is replaced only when every daemon has gone, those that would not
\* stop included (daemon_services_stop), again unless ps could not be run.
ImportAlone ==
  blind \/ ((At("copy") \/ At("copying")) => \A d \in Daemons : running[d] = 0)

\* dbserver runs on a database that one of its transactions has left behind, or on
\* one that its journal takes back there, whenever it or the supervisor was stopped.
\* That is over only with a copy of sysconfig.db of which one of these is true, and
\* until the next one: cp or the power ended it half-way or before it was on the disk;
\* the file was no database, or was exported while dbserver wrote; or the dbserver
\* stopped for it left a journal, which is played back into the new file
\* (db_manager_import_db).
DbWhole ==
  \/ blind \/ damaged
  \/ running[Dbserver] > 0 => sysconfig # NoFile /\ Whole(PlayedBack(sysconfig, journal))

\* A daemon that has gone comes to run again: the check that an import takes away
\* is set again, whatever the import came to.
ComesBack == \A d \in Daemons : running[d] = 0 ~> running[d] > 0
=============================================================================
