----------------------------- MODULE EventTabs -----------------------------
(***************************************************************************)
(* An event page of the web application (IntrusionDetectionComponent): one  *)
(* page form and three tabs of which one exists at a time.  Clicking a tab  *)
(* destroys the child of the old one, after its value was collected, and    *)
(* makes a blank child, to be filled when its nav link has become active.   *)
(* Loading and saving are three or four requests each, whose answers are    *)
(* ticked off in a bank of tasks (BoolEmployee) that a timer watches.       *)
(*                                                                         *)
(* The page does not lock itself while it loads, waits or saves, so some    *)
(* hasty clicks do lose values.  History variables record which tabs such a *)
(* click has touched; the properties say that nothing else loses one.       *)
(***************************************************************************)
EXTENDS Naturals, FiniteSets

CONSTANTS
  Tabs,       \* the tabs of the page
  Values,     \* what the value of a tab may be
  Entries,    \* those the user enters
  Opening,    \* what the camera may store when the page opens
  MaxBadGets, \* bound: requests of ngOnInit that come to nothing
  MaxSaves,   \* bound: how often Save is pressed
  MaxWaits    \* bound: timers that wait for the same tab

Tasks == Tabs \cup {"src"}
None == "none"        \* no tab, no tip, no value to send
Blank == "blank"      \* what a child that was never filled holds

ASSUME TabAssumption ==
  "region" \in Tabs /\ Tabs \subseteq {"region", "arming", "linkage"}
ASSUME ValueAssumption ==
  /\ {None, Blank} \cap Values = {}
  /\ Entries \subseteq Values
  /\ Opening \subseteq [Tabs -> Values]
ASSUME BoundAssumption == {MaxBadGets, MaxSaves, MaxWaits} \subseteq Nat

VARIABLES
  selectedTab,    \* the tab whose child exists
  lastActiveTab,  \* the tab the page believes to be shown, None at first
  child,          \* the value in that child
  form,           \* IntrusionForm, ScheduleForm, LinkageForm
  waits,          \* timers of waitNavActive, by tab
  lastNav,        \* the tab remembered from the last visit
  autoClick,      \* getLastNav has still to click it
  gets,           \* the requests of ngOnInit
  load,           \* where their observer is; "set" is isSetVal
  bank,           \* bank save: NoBank, or what has come of each task
  observers,      \* timers of observeTask that watch bank save
  puts,           \* the PUTs under way
  saves,          \* how many times Save was pressed
  camera,         \* what the camera stores
  tip,            \* the verdict on the page
  wrote,          \* history: what the user last entered, or the camera had
  excused,        \* history: tabs a hasty click or a refused GET has touched
  sent,           \* history: what the last Save sent
  unseen,         \* history: tabs it ticked off although their PUT was refused
  alone           \* history: nothing of an earlier Save was left at the last one

tabs    == <<selectedTab, lastActiveTab, waits, lastNav, autoClick>>
loading == <<gets, load>>
saving  == <<bank, observers, puts, saves, camera, tip>>
history == <<wrote, excused, sent, unseen, alone>>
vars == <<tabs, child, form, loading, saving, history>>

NoBank == [t \in {} |-> None]
Hired  == [t \in Tabs |-> "null"]
Put    == [save : 1 .. MaxSaves, tab : Tabs, value : Values \cup {Blank, None},
           stored : BOOLEAN]
isSetVal == load = "set"
FirstNav == IF lastNav = None THEN "region" ELSE lastNav

Init ==
  /\ selectedTab = "region"
  /\ lastActiveTab = None
  /\ child = Blank
  /\ form = [t \in Tabs |-> IF t = "region" THEN Blank ELSE None]
  /\ waits = [t \in Tabs |-> 0]
  /\ lastNav \in Tabs \cup {None}
  /\ autoClick = (lastNav # None)
  /\ gets = [t \in Tasks |-> "pending"]
  /\ load = "tasks"
  /\ bank = NoBank
  /\ observers = 0
  /\ puts = {}
  /\ saves = 0
  /\ camera \in Opening
  /\ tip = None
  /\ wrote = camera
  /\ excused = {}
  /\ sent = form
  /\ unseen = {}
  /\ alone = TRUE
-----------------------------------------------------------------------------
(* Between the page form and the child *)

\* getInfoFromChild throws: the child the page believes in does not exist, or
\* is a region whose box was never drawn
Unreadable ==
  \/ lastActiveTab \notin {None, selectedTab}
  \/ lastActiveTab = "region" /\ child = Blank

Collected ==
  IF lastActiveTab = None THEN form ELSE [form EXCEPT ![lastActiveTab] = child]

\* setInfoForChild, when tab t is the one that exists
CanSet(t) ==
  IF t = "region" THEN gets["region"] = "ok" /\ gets["src"] = "ok" ELSE form[t] # None
Filled(t) == IF t # None /\ CanSet(t) THEN form[t] ELSE child

\* Leaving a tab, or saving, before its child was filled
HastyTabs ==
  IF lastActiveTab = selectedTab /\ child = Blank THEN {lastActiveTab} ELSE {}
\* Saving a page that was never loaded
Unloaded(f) == IF isSetVal THEN {} ELSE { t \in Tabs : f[t] \in {Blank, None} }
-----------------------------------------------------------------------------
(* Tabs *)

Select(t) ==
  /\ waits[t] < MaxWaits
  /\ selectedTab' = t
  /\ child' = IF t = selectedTab THEN child ELSE Blank
  /\ UNCHANGED <<lastNav, loading, saving, wrote, sent, unseen, alone>>

\* defect: the tab that is left is read even when it was never filled
OnClickTabReading(t) ==
  /\ t # lastActiveTab
  /\ Select(t)
  /\ form' = Collected
  /\ excused' = IF isSetVal THEN excused \cup HastyTabs ELSE excused
  /\ waits' = [waits EXCEPT ![t] = @ + 1]
  /\ lastActiveTab' = t

OnClickTab(t) ==
  /\ t # lastActiveTab
  /\ ~(isSetVal /\ Unreadable)
  /\ Select(t)
  /\ form' = IF isSetVal THEN Collected ELSE form
  /\ excused' = IF isSetVal THEN excused \cup HastyTabs ELSE excused
  /\ waits' = [waits EXCEPT ![t] = @ + 1]
  /\ lastActiveTab' = t

\* The throw comes after selectedTab is set and before anything else is
OnClickTabThrows(t) ==
  /\ t # lastActiveTab
  /\ isSetVal /\ Unreadable
  /\ Select(t)
  /\ UNCHANGED <<form, excused, waits, lastActiveTab>>

Click(t) == OnClickTab(t) \/ OnClickTabThrows(t)

User(t) == Click(t) /\ UNCHANGED autoClick

\* getLastNav; on the tab already shown the click changes nothing
GetLastNav ==
  /\ autoClick
  /\ autoClick' = FALSE
  /\ \/ Click(lastNav)
     \/ lastNav = lastActiveTab
        /\ UNCHANGED <<selectedTab, lastActiveTab, waits, lastNav, child, form,
                       loading, saving, history>>

WaitNavActive(t) ==
  /\ waits[t] > 0
  /\ waits' = [waits EXCEPT ![t] = @ - 1]
  /\ child' = IF selectedTab = t THEN Filled(t) ELSE child
  /\ UNCHANGED <<selectedTab, lastActiveTab, lastNav, autoClick, form, loading,
                 saving, history>>

\* The user changes what is shown.  A box can be drawn only when one was filled in.
Edit(v) ==
  /\ v # child
  /\ selectedTab = "region" => child # Blank
  /\ child' = v
  /\ wrote' = [wrote EXCEPT ![selectedTab] = v]
  /\ excused' = IF \/ waits[selectedTab] > 0
                   \/ ~isSetVal
                   \/ bank # NoBank
                   \/ selectedTab # lastActiveTab
                THEN excused \cup {selectedTab} ELSE excused
  /\ UNCHANGED <<tabs, form, loading, saving, sent, unseen, alone>>
-----------------------------------------------------------------------------
(* Loading the page *)

Bad == { t \in Tasks : gets[t] \notin {"pending", "ok"} }

Got(t, outcome) ==
  /\ gets[t] = "pending"
  /\ outcome # "ok" => Cardinality(Bad) < MaxBadGets
  /\ gets' = [gets EXCEPT ![t] = outcome]
  /\ UNCHANGED <<tabs, child, load, saving, wrote, sent, unseen, alone>>

GetAnswered(t) ==
  /\ Got(t, "ok")
  /\ form' = IF t \in Tabs THEN [form EXCEPT ![t] = camera[t]] ELSE form
  /\ UNCHANGED excused

GetFails(t) == Got(t, "failed") /\ UNCHANGED <<form, excused>>

\* The region's answer is checked, and the task then never done
GetRefused ==
  /\ Got("region", "lost")
  /\ UNCHANGED <<form, excused>>

\* The others' are not: an answer without a value counts as one
GetRefusedUnseen(t) ==
  /\ Got(t, "empty")
  /\ form' = [form EXCEPT ![t] = None]
  /\ excused' = excused \cup {t}

AllGot == \A t \in Tasks : gets[t] \in {"ok", "empty", "failed"}

Load(from, to) ==
  /\ load = from
  /\ load' = to
  /\ UNCHANGED <<tabs, form, gets, saving, history>>

ObserveInit == AllGot /\ Load("tasks", "nav") /\ UNCHANGED child

\* observeTask rejects without a reason: no tip, and the bank stays
InitExpires == ~AllGot /\ Load("tasks", "failed") /\ UNCHANGED child

InitNavActive ==
  /\ selectedTab = FirstNav
  /\ IF \A t \in Tasks : gets[t] \in {"ok", "empty"}
     THEN Load("nav", "set") /\ child' = Filled(lastActiveTab)
     ELSE Load("nav", "failed") /\ UNCHANGED child

InitNavExpires == selectedTab # FirstNav /\ Load("nav", "failed") /\ UNCHANGED child
-----------------------------------------------------------------------------
(* Saving *)

Hire ==
  /\ saves < MaxSaves
  /\ saves' = saves + 1
  /\ bank' = Hired
  /\ tip' = None
  /\ UNCHANGED <<tabs, child, loading, camera, wrote>>

OnSubmit ==
  /\ ~Unreadable
  /\ Hire
  /\ form' = Collected
  /\ observers' = observers + 1
  /\ puts' = puts \cup { [save |-> saves', tab |-> t, value |-> form'[t], stored |-> FALSE] : t \in Tabs }
  /\ sent' = form'
  /\ unseen' = {}
  /\ alone' = (puts = {} /\ bank = NoBank /\ observers = 0)
  /\ excused' = IF alone'
                THEN excused \cup HastyTabs \cup Unloaded(form')
                ELSE Tabs

\* The bank is hired and nobody will watch it
OnSubmitThrows ==
  /\ Unreadable
  /\ Hire
  /\ alone' = FALSE
  /\ excused' = IF puts = {} THEN excused ELSE Tabs
  /\ UNCHANGED <<form, observers, puts, sent, unseen>>

Wire == UNCHANGED <<tabs, child, loading, observers, saves, tip, wrote, sent, alone>>

\* A body without the value leaves a blank or what the camera had
CameraStores(p) ==
  /\ ~p.stored
  /\ puts' = (puts \ {p}) \cup {[p EXCEPT !.stored = TRUE]}
  /\ \E v \in IF p.value = None THEN {Blank, camera[p.tab]} ELSE {p.value} :
       camera' = [camera EXCEPT ![p.tab] = v]
  /\ Wire /\ UNCHANGED <<form, bank, excused, unseen>>

\* defect: a dismissed bank is begun anew
TickedAnew(t, done) ==
  [x \in DOMAIN bank \cup {t} |-> IF x = t THEN done ELSE bank[x]]

\* doTask, which throws when the bank is dismissed: the rest is not done
Ticked(t, done) == IF bank = NoBank THEN bank ELSE [bank EXCEPT ![t] = done]

\* defect: the form is updated before the task is done
AnsweredLate(p) ==
  /\ p.stored
  /\ puts' = puts \ {p}
  /\ bank' = Ticked(p.tab, "true")
  /\ form' = IF p.value = None THEN form ELSE [form EXCEPT ![p.tab] = p.value]
  /\ Wire /\ UNCHANGED <<camera, excused, unseen>>

Answered(p) ==
  /\ p.stored
  /\ puts' = puts \ {p}
  /\ bank' = Ticked(p.tab, "true")
  /\ form' = IF bank = NoBank \/ p.value = None THEN form
             ELSE [form EXCEPT ![p.tab] = p.value]
  /\ Wire /\ UNCHANGED <<camera, excused, unseen>>

\* defect: the linkage is ticked off before it is checked, as the others are
RefusedUnseen(p) ==
  /\ puts' = puts \ {p}
  /\ bank' = Ticked(p.tab, "true")
  /\ unseen' = unseen \cup ({p.tab} \ {"linkage"})
  /\ Wire /\ UNCHANGED <<form, camera, excused>>

\* An error body: the region and the schedule are ticked off before the check
\* that throws, the linkage is not
Refused(p) ==
  /\ puts' = puts \ {p}
  /\ IF p.tab = "linkage" THEN UNCHANGED <<bank, unseen>>
     ELSE bank' = Ticked(p.tab, "true") /\ unseen' = unseen \cup {p.tab}
  /\ Wire /\ UNCHANGED <<form, camera, excused>>

\* The token has expired: analyseRes sends the browser to the login and does not
\* throw.  Until the page has gone it goes on, with an error body for a value
Expired(p) ==
  /\ ~p.stored
  /\ puts' = puts \ {p}
  /\ bank' = Ticked(p.tab, "true")
  /\ unseen' = unseen \cup {p.tab}
  /\ IF bank = NoBank \/ p.tab = "region" THEN UNCHANGED <<form, excused>>
     ELSE form' = [form EXCEPT ![p.tab] = None] /\ excused' = excused \cup {p.tab}
  /\ Wire /\ UNCHANGED camera

\* No answer, though the camera may have stored it
Fails(p) ==
  /\ puts' = puts \ {p}
  /\ bank' = Ticked(p.tab, "false")
  /\ Wire /\ UNCHANGED <<form, camera, excused, unseen>>

AllDone == bank # NoBank /\ \A t \in Tabs : bank[t] # "null"

Observer ==
  /\ observers > 0
  /\ observers' = observers - 1
  /\ UNCHANGED <<tabs, form, loading, puts, saves, camera, history>>

\* When the child to fill does not exist, setInfoForChild throws into the catch
ObserveTask ==
  /\ Observer
  /\ AllDone
  /\ bank' = NoBank
  /\ IF (\A t \in Tabs : bank[t] = "true") /\ lastActiveTab \in {None, selectedTab}
     THEN tip' = "success" /\ child' = Filled(lastActiveTab)
     ELSE tip' = "fail" /\ UNCHANGED child

\* defect: the catch without a reason does nothing, as the one of init
ObserverExpiresSilently ==
  /\ Observer
  /\ bank # NoBank /\ ~AllDone
  /\ UNCHANGED <<child, bank, tip>>

ObserverExpires ==
  /\ Observer
  /\ bank # NoBank /\ ~AllDone
  /\ bank' = NoBank
  /\ tip' = "fail"
  /\ UNCHANGED child

\* The bank was dismissed by another observer: TypeError in a timer
ObserverDies ==
  /\ Observer
  /\ bank = NoBank
  /\ UNCHANGED <<child, bank, tip>>
-----------------------------------------------------------------------------
OnPage == \/ \E t \in Tabs : User(t)
          \/ \E v \in Entries : Edit(v)
          \/ OnSubmit \/ OnSubmitThrows

Loads == \/ \E t \in Tasks : GetAnswered(t) \/ GetFails(t)
         \/ GetRefused
         \/ \E t \in Tabs \ {"region"} : GetRefusedUnseen(t)

PutStep(p) == CameraStores(p) \/ Answered(p) \/ Refused(p) \/ Expired(p) \/ Fails(p)
PutSteps   == \E p \in puts : PutStep(p)

InitTimer == ObserveInit \/ InitExpires \/ InitNavActive \/ InitNavExpires
SaveTimer == ObserveTask \/ ObserverExpires \/ ObserverDies

Next == \/ OnPage \/ GetLastNav \/ Loads \/ PutSteps \/ InitTimer \/ SaveTimer
        \/ \E t \in Tabs : WaitNavActive(t)

Spec == Init /\ [][Next]_vars

\* A browser runs a timer that is due; nothing is assumed of the camera or the user
FairSpec == Spec /\ WF_vars(SaveTimer)
-----------------------------------------------------------------------------
(* Properties *)

TypeOK ==
  /\ selectedTab \in Tabs
  /\ lastActiveTab \in Tabs \cup {None}
  /\ child \in Values \cup {Blank}
  /\ form \in [Tabs -> Values \cup {Blank, None}]
  /\ waits \in [Tabs -> 0 .. MaxWaits]
  /\ gets \in [Tasks -> {"pending", "ok", "empty", "failed", "lost"}]
  /\ load \in {"tasks", "nav", "set", "failed"}
  /\ bank \in {NoBank} \cup [Tabs -> {"null", "true", "false"}]
  /\ observers \in 0 .. saves
  /\ saves \in 0 .. MaxSaves
  /\ puts \subseteq Put
  /\ camera \in [Tabs -> Values \cup {Blank}]
  /\ tip \in {None, "success", "fail"}
  /\ excused \subseteq Tabs /\ unseen \subseteq Tabs

\* What the page holds of a tab: its child once that was filled, else the form
View(t) ==
  IF t = lastActiveTab /\ t = selectedTab /\ waits[t] = 0 THEN child ELSE form[t]

\* What the user entered on a loaded page is still there, after any changes of
\* tab, failed, refused and late answers, unless it was entered while the tab
\* was being filled or a Save was under way, or a second Save overlapped.
EditsSurvive == isSetVal => \A t \in Tabs \ excused : View(t) = wrote[t]

\* The camera never comes to store the blank of a child that was not filled,
\* unless the user was faster than the page or an empty answer passed for one.
NoBlankStored == \A t \in Tabs \ excused : camera[t] # Blank

\* When the page says that saving succeeded, and no other Save overlapped, the
\* camera holds all that was sent, whatever was tried, failed or came late before,
\* but for the tabs that were refused and ticked off all the same: the region and
\* the schedule, whose answer is looked at too late, and any with a token that has
\* expired.  A refused linkage never goes with that verdict.
SuccessMeansStored ==
  tip = "success" /\ alone =>
    \A t \in Tabs \ unseen : sent[t] # None => camera[t] = sent[t]

\* Once Save watches its bank, the timers all end and leave a verdict on the page,
\* even if nothing is answered, several share the one bank, or a Save pressed
\* meanwhile throws over a child it cannot read (which starts no timer and, with
\* none running, has no verdict).
SaveEnds == observers > 0 ~> observers = 0 /\ tip # None
=============================================================================
