-------------------------- MODULE EventTabs_proof --------------------------
(***************************************************************************)
(* What an event page keeps up for any of its tabs, any values and any     *)
(* number of Saves, timers and requests that come to nothing: nothing but  *)
(* a hasty click loses what was entered, and what Save ticks off is stored  *)
(* unless it was refused unseen.                                           *)
(***************************************************************************)
EXTENDS EventTabs, TLAPS

USE TabAssumption, ValueAssumption, BoundAssumption

-----------------------------------------------------------------------------
(* The inductive invariant.                                                *)

TabType ==
  /\ selectedTab \in Tabs
  /\ lastActiveTab \in Tabs \cup {None}
  /\ waits \in [Tabs -> 0 .. MaxWaits]
  /\ autoClick => lastNav \in Tabs
\* The region's form is blank when it was never loaded; that of another tab is none.
ValueType ==
  /\ child \in Values \cup {Blank}
  /\ form \in [Tabs -> Values \cup {Blank, None}]
  /\ form["region"] # None
  /\ camera \in [Tabs -> Values \cup {Blank}]
  /\ wrote \in [Tabs -> Values]
\* An empty answer passes for a value only with the tabs that are not checked.
LoadType ==
  /\ gets \in [Tasks -> {"pending", "ok", "empty", "failed", "lost"}]
  /\ gets["region"] # "empty" /\ gets["src"] # "empty"
  /\ load \in {"tasks", "nav", "set", "failed"}
BankType ==
  /\ bank \in {NoBank} \cup [Tabs -> {"null", "true", "false"}]
  /\ tip \in {None, "success", "fail"}
CountType == observers \in 0 .. saves /\ saves \in 0 .. MaxSaves
PutType == puts \subseteq Put
Typed ==
  /\ TabType /\ ValueType /\ LoadType /\ BankType /\ CountType /\ PutType
  /\ excused \subseteq Tabs /\ unseen \subseteq Tabs

\* A page that counts as loaded has an answer to everything; one that does not
\* has never thrown in a click.
Loaded ==
  /\ isSetVal => \A t \in Tasks : gets[t] \in {"ok", "empty"}
  /\ ~isSetVal => lastActiveTab \in {None, selectedTab}

\* Tab t waits for its value, and nobody has seen one.
Awaited(t) ==
  /\ gets[t] # "empty"
  /\ form[t] = IF t = "region" THEN Blank ELSE None
  /\ t = selectedTab => child = Blank
  /\ gets[t] = "pending" => camera[t] = wrote[t]

\* Tab t was loaded: its form is what the user knows, but while its child has
\* been filled it is the child that is.
Known(t) ==
  /\ isSetVal => View(t) = wrote[t]
  /\ ~isSetVal => form[t] = wrote[t]
  /\ t = selectedTab => child \in {Blank, wrote[t]}

\* While a Save is under way the form of a tab it has to do with is up to date.
Tied(t) == bank # NoBank /\ (bank[t] # "null" \/ \E p \in puts : p.tab = t)
Kept(t) ==
  /\ gets[t] # "ok" => Awaited(t)
  /\ gets[t] = "ok" => Known(t)
  /\ Tied(t) => gets[t] = "ok" /\ form[t] = wrote[t]
  /\ camera[t] # Blank

\* What is being sent is a value, and what the user knows while it matters.
Meant(p) ==
  /\ gets[p.tab] = "ok"
  /\ p.value \notin {Blank, None}
  /\ bank # NoBank => p.value = wrote[p.tab]

Honest ==
  /\ \A t \in Tabs \ excused : Kept(t)
  /\ \A p \in puts : p.tab \notin excused => Meant(p)

IInv == Typed /\ Loaded /\ Honest

\* The last Save, when no other overlapped: one PUT for each tab, of what was
\* sent; what is ticked off is stored, unless it was refused unseen, and nothing
\* will overwrite it.
Stored(t) == t \notin unseen /\ sent[t] # None => camera[t] = sent[t]
Undisturbed ==
  /\ \A p \in puts :
       /\ p.value = sent[p.tab]
       /\ p.stored => Stored(p.tab)
  /\ \A p, q \in puts : p.tab = q.tab => p = q
  /\ bank # NoBank =>
       \A t \in Tabs : bank[t] = "true" => Stored(t) /\ \A p \in puts : p.tab # t
  /\ tip = "success" => puts = {} /\ \A t \in Tabs : Stored(t)
SInv == alone => Undisturbed
USE DEF isSetVal

LEMMA Plain ==
  /\ None \notin Values /\ Blank \notin Values /\ None # Blank
  /\ None \notin Tabs /\ "region" \in Tabs /\ "src" \notin Tabs
  /\ Tabs \subseteq Tasks /\ "src" \in Tasks
  /\ NoBank \notin [Tabs -> {"null", "true", "false"}]
  /\ Hired \in [Tabs -> {"null", "true", "false"}]
<1>1. NoBank \notin [Tabs -> {"null", "true", "false"}]
  BY "region" \in Tabs DEF NoBank
<1> QED
  BY <1>1 DEF None, Blank, Tasks, Hired

LEMMA TypedIsTypeOK == Typed => TypeOK
  BY DEF Typed, TabType, ValueType, LoadType, BankType, CountType, PutType, TypeOK

LEMMA InitOK == ASSUME Init PROVE IInv /\ SInv
<1>1. camera \in [Tabs -> Values]
  BY DEF Init
<1>2. TabType
  <2>1. selectedTab \in Tabs /\ lastActiveTab \in Tabs \cup {None} /\ (autoClick => lastNav \in Tabs)
    BY DEF Init
  <2>2. waits \in [Tabs -> 0 .. MaxWaits]
    BY DEF Init
  <2> QED
    BY <2>1, <2>2 DEF TabType
<1>3. ValueType
  BY <1>1, Plain DEF Init, ValueType
<1>4. LoadType /\ BankType /\ CountType /\ PutType
  <2>1. LoadType
    BY Plain DEF Init, LoadType
  <2>2. BankType /\ PutType
    BY DEF Init, BankType, PutType
  <2>3. CountType
    BY DEF Init, CountType
  <2> QED
    BY <2>1, <2>2, <2>3
<1>5. Loaded
  BY DEF Init, Loaded
<1>6. ASSUME NEW t \in Tabs PROVE Kept(t)
  <2>1. gets[t] = "pending" /\ bank = NoBank /\ camera[t] # Blank
    BY <1>1, Plain DEF Init
  <2>2. Awaited(t)
    BY <2>1 DEF Init, Awaited
  <2> QED
    BY <2>1, <2>2 DEF Kept, Tied
<1>7. Honest
  BY <1>6 DEF Init, Honest
<1>8. SInv
  BY DEF Init, SInv, Undisturbed, None
<1> QED
  BY <1>2, <1>3, <1>4, <1>5, <1>7, <1>8 DEF IInv, Typed, Init

-----------------------------------------------------------------------------
(* Between the page form and the child.                                    *)

LEMMA CollectedType == ASSUME Typed PROVE
  /\ Collected \in [Tabs -> Values \cup {Blank, None}]
  /\ Collected["region"] # None
<1>1. lastActiveTab \in Tabs => Collected = [form EXCEPT ![lastActiveTab] = child]
  BY Plain DEF Collected
<1>2. lastActiveTab \notin Tabs => Collected = form
  BY DEF Collected, Typed, TabType
<1> QED
  BY <1>1, <1>2, Plain DEF Typed, ValueType, TabType

LEMMA FilledType == ASSUME Typed, NEW t \in Tabs \cup {None} PROVE
  Filled(t) \in Values \cup {Blank}
<1>1. CASE t = None
  BY <1>1 DEF Filled, Typed, ValueType
<1>2. CASE t \in Tabs /\ CanSet(t)
  BY <1>2, Plain DEF Filled, CanSet, Typed, ValueType
<1>3. CASE t \in Tabs /\ ~CanSet(t)
  BY <1>3 DEF Filled, Typed, ValueType
<1> QED
  BY <1>1, <1>2, <1>3

\* A tab that waits for its value cannot be filled.
LEMMA FilledWaits == ASSUME Typed, NEW t \in Tabs, gets[t] # "ok", Awaited(t) PROVE
  Filled(t) = child
  BY Plain DEF Filled, CanSet, Awaited
-----------------------------------------------------------------------------
(* The state keeps its shape.                                              *)

USE DEF tabs, loading, saving, history

LEMMA SelectType == ASSUME Typed, NEW t \in Tabs, Select(t) PROVE
  /\ selectedTab' \in Tabs
  /\ child' \in Values \cup {Blank}
  /\ waits[t] + 1 \in 0 .. MaxWaits
  /\ LoadType' /\ BankType' /\ CountType' /\ PutType'
  /\ UNCHANGED <<lastNav, camera, wrote>>
<1>1. waits[t] \in 0 .. MaxWaits /\ waits[t] < MaxWaits
  BY DEF Select, Typed, TabType
<1>2. waits[t] + 1 \in 0 .. MaxWaits
  BY <1>1
<1>3. LoadType' /\ UNCHANGED <<lastNav, camera, wrote>>
  BY DEF Select, Typed, LoadType
<1>4. BankType' /\ CountType' /\ PutType'
  BY DEF Select, Typed, BankType, CountType, PutType, Put
<1>5. selectedTab' \in Tabs /\ child' \in Values \cup {Blank}
  BY DEF Select, Typed, ValueType
<1> QED
  BY <1>2, <1>3, <1>4, <1>5

LEMMA ClickType == ASSUME Typed, NEW t \in Tabs, Click(t), autoClick' => autoClick PROVE Typed'
<1>1. Select(t)
  BY DEF Click, OnClickTab, OnClickTabThrows
<1> DEFINE w == [waits EXCEPT ![t] = @ + 1]
<1>2. w \in [Tabs -> 0 .. MaxWaits]
  BY <1>1, SelectType DEF Typed, TabType
<1>3. form' \in {form, Collected}
  BY DEF Click, OnClickTab, OnClickTabThrows
<1>4. form' \in [Tabs -> Values \cup {Blank, None}] /\ form'["region"] # None
  BY <1>3, CollectedType DEF Typed, ValueType
<1>5. waits' \in {waits, w} /\ lastActiveTab' \in {lastActiveTab, t}
  BY DEF Click, OnClickTab, OnClickTabThrows
<1>6. TabType'
  BY <1>1, <1>2, <1>5, SelectType DEF Typed, TabType
<1>7. ValueType'
  BY <1>1, <1>4, SelectType DEF Typed, ValueType
<1>8. HastyTabs \subseteq Tabs
  BY DEF HastyTabs, Typed, TabType
<1>9. excused' \subseteq Tabs /\ unseen' \subseteq Tabs
  BY <1>8 DEF Click, OnClickTab, OnClickTabThrows, Select, Typed
<1> QED
  BY <1>1, <1>6, <1>7, <1>9, SelectType DEF Typed

LEMMA OnPageType == ASSUME Typed, OnPage PROVE Typed'
<1>1. ASSUME NEW t \in Tabs, User(t) PROVE Typed'
  BY <1>1, ClickType DEF User
<1>2. ASSUME NEW v \in Entries, Edit(v) PROVE Typed'
  <2>1. TabType' /\ LoadType'
    BY <1>2 DEF Edit, Typed, TabType, LoadType
  <2>2. ValueType'
    BY <1>2 DEF Edit, Typed, ValueType, TabType
  <2>3. BankType' /\ CountType' /\ PutType'
    BY <1>2 DEF Edit, Typed, BankType, CountType, PutType, Put
  <2>4. excused' \subseteq Tabs /\ unseen' \subseteq Tabs
    BY <1>2 DEF Edit, Typed, TabType
  <2> QED
    BY <2>1, <2>2, <2>3, <2>4 DEF Typed
<1>3. ASSUME Hire, form' \in {form, Collected} PROVE
        /\ TabType' /\ LoadType' /\ ValueType' /\ BankType'
        /\ saves' \in 1 .. MaxSaves /\ saves' = saves + 1
  <2>1. TabType' /\ LoadType'
    BY <1>3 DEF Hire, Typed, TabType, LoadType
  <2>2. ValueType'
    BY <1>3, CollectedType DEF Hire, Typed, ValueType
  <2>3. BankType'
    BY <1>3, Plain DEF Hire, BankType
  <2>4. saves' = saves + 1 /\ saves < MaxSaves /\ saves \in 0 .. MaxSaves
    BY <1>3 DEF Hire, Typed, CountType
  <2> QED
    BY <2>1, <2>2, <2>3, <2>4
<1>4. CASE OnSubmit
  <2>1. Hire /\ form' = Collected
    BY <1>4 DEF OnSubmit
  <2>2. observers' \in 0 .. saves'
    BY <1>3, <1>4, <2>1 DEF OnSubmit, Typed, CountType
  <2>3. PutType'
    <3>1. ASSUME NEW t \in Tabs PROVE
            [save |-> saves', tab |-> t, value |-> form'[t], stored |-> FALSE] \in Put
      <4>1. saves' \in 1 .. MaxSaves /\ form'[t] \in Values \cup {Blank, None}
        BY <1>3, <2>1 DEF ValueType
      <4> QED
        BY <4>1 DEF Put
    <3>2. puts \subseteq Put /\ Put' = Put
      BY DEF Typed, PutType, Put
    <3> QED
      BY <1>4, <3>1, <3>2 DEF OnSubmit, PutType
  <2>4. HastyTabs \subseteq Tabs /\ Unloaded(form') \subseteq Tabs
    BY DEF HastyTabs, Unloaded, Typed, TabType
  <2>5. excused' \subseteq Tabs /\ unseen' \subseteq Tabs
    BY <1>4, <2>4 DEF OnSubmit, Typed
  <2> QED
    BY <1>3, <2>1, <2>2, <2>3, <2>5 DEF Typed, CountType
<1>5. CASE OnSubmitThrows
  <2>1. Hire /\ form' = form
    BY <1>5 DEF OnSubmitThrows
  <2>2. observers' \in 0 .. saves'
    BY <1>3, <1>5, <2>1 DEF OnSubmitThrows, Typed, CountType
  <2>3. PutType' /\ excused' \subseteq Tabs /\ unseen' \subseteq Tabs
    BY <1>5 DEF OnSubmitThrows, Typed, PutType, Put
  <2> QED
    BY <1>3, <2>1, <2>2, <2>3 DEF Typed, CountType
<1> QED
  BY <1>1, <1>2, <1>4, <1>5 DEF OnPage

LEMMA TimersType == ASSUME Typed, GetLastNav \/ (\E t \in Tabs : WaitNavActive(t)) PROVE Typed'
<1>1. CASE GetLastNav
  <2>1. CASE Click(lastNav)
    BY <1>1, <2>1, ClickType DEF GetLastNav, Typed, TabType
  <2>2. CASE ~Click(lastNav)
    <3>1. TabType' /\ LoadType' /\ ValueType'
      BY <1>1, <2>2 DEF GetLastNav, Typed, TabType, LoadType, ValueType
    <3> QED
      BY <1>1, <2>2, <3>1 DEF GetLastNav, Typed, BankType, CountType, PutType, Put
  <2> QED
    BY <2>1, <2>2
<1>2. ASSUME NEW t \in Tabs, WaitNavActive(t) PROVE Typed'
  <2>1. waits[t] - 1 \in 0 .. MaxWaits
    BY <1>2 DEF WaitNavActive, Typed, TabType
  <2>2. TabType' /\ LoadType'
    BY <1>2, <2>1 DEF WaitNavActive, Typed, TabType, LoadType
  <2>3. ValueType'
    BY <1>2, FilledType DEF WaitNavActive, Typed, ValueType
  <2> QED
    BY <1>2, <2>2, <2>3 DEF WaitNavActive, Typed, BankType, CountType, PutType, Put
<1> QED
  BY <1>1, <1>2
LEMMA LoadsType == ASSUME Typed, Loads \/ InitTimer PROVE Typed'
<1>1. ASSUME NEW t \in Tasks, NEW o \in {"ok", "failed"}, Got(t, o) PROVE LoadType'
  BY <1>1, Plain DEF Got, Typed, LoadType
<1>2. ASSUME NEW t \in Tasks, NEW o, Got(t, o) PROVE
        TabType' /\ BankType' /\ CountType' /\ PutType' /\ UNCHANGED <<child, camera, wrote, unseen>>
  BY <1>2 DEF Got, Typed, TabType, BankType, CountType, PutType, Put
<1>3. ASSUME NEW t \in Tasks, GetAnswered(t) PROVE Typed'
  <2>1. ValueType'
    BY <1>2, <1>3, Plain DEF GetAnswered, Typed, ValueType
  <2> QED
    BY <1>1, <1>2, <1>3, <2>1 DEF GetAnswered, Typed
<1>4. ASSUME NEW t \in Tasks, GetFails(t) PROVE Typed'
  <2>1. ValueType'
    BY <1>2, <1>4 DEF GetFails, Typed, ValueType
  <2> QED
    BY <1>1, <1>2, <1>4, <2>1 DEF GetFails, Typed
<1>5. CASE GetRefused
  <2>1. ValueType'
    BY <1>2, <1>5, Plain DEF GetRefused, Typed, ValueType
  <2>2. LoadType'
    BY <1>5, Plain DEF GetRefused, Got, Typed, LoadType
  <2> QED
    BY <1>2, <1>5, <2>1, <2>2, Plain DEF GetRefused, Typed
<1>6. ASSUME NEW t \in Tabs \ {"region"}, GetRefusedUnseen(t) PROVE Typed'
  <2>1. ValueType'
    BY <1>2, <1>6, Plain DEF GetRefusedUnseen, Typed, ValueType
  <2>2. LoadType'
    BY <1>6, Plain DEF GetRefusedUnseen, Got, Typed, LoadType
  <2>3. excused' \subseteq Tabs /\ unseen' \subseteq Tabs
    BY <1>2, <1>6, Plain DEF GetRefusedUnseen, Typed
  <2> QED
    BY <1>2, <1>6, <2>1, <2>2, <2>3, Plain DEF GetRefusedUnseen, Typed
<1>7. ASSUME InitTimer PROVE Typed'
  <2>1. load' \in {"tasks", "nav", "set", "failed"} /\ child' \in Values \cup {Blank}
    BY <1>7, FilledType DEF InitTimer, ObserveInit, InitExpires, InitNavActive, InitNavExpires, Load, Typed, TabType, ValueType
  <2>2. UNCHANGED <<tabs, form, gets, saving, history>>
    BY <1>7 DEF InitTimer, ObserveInit, InitExpires, InitNavActive, InitNavExpires, Load
  <2>3. TabType' /\ ValueType' /\ LoadType'
    BY <2>1, <2>2 DEF Typed, TabType, ValueType, LoadType
  <2> QED
    BY <2>2, <2>3 DEF Typed, BankType, CountType, PutType, Put
<1> QED
  BY <1>3, <1>4, <1>5, <1>6, <1>7 DEF Loads

LEMMA TickedType == ASSUME Typed, NEW t \in Tabs, NEW done \in {"true", "false"} PROVE
  Ticked(t, done) \in {NoBank} \cup [Tabs -> {"null", "true", "false"}]
  BY DEF Ticked, Typed, BankType

LEMMA PutsType == ASSUME Typed, NEW p \in puts, PutStep(p)
                  PROVE Typed'
<1>1. p \in Put /\ p.tab \in Tabs /\ p.value \in Values \cup {Blank, None}
  BY DEF Typed, PutType, Put
<1>2. TabType' /\ LoadType' /\ CountType' /\ excused' \subseteq Tabs /\ unseen' \subseteq Tabs
  <2>1. UNCHANGED <<tabs, loading, observers, saves>>
    BY DEF PutStep, CameraStores, Answered, Refused, Expired, Fails, Wire
  <2>2. TabType' /\ LoadType' /\ CountType'
    BY <2>1 DEF Typed, TabType, LoadType, CountType
  <2>3. excused' \in {excused, excused \cup {p.tab}} /\ unseen' \in {unseen, unseen \cup {p.tab}}
    BY DEF PutStep, CameraStores, Answered, Refused, Expired, Fails, Wire
  <2> QED
    BY <1>1, <2>2, <2>3 DEF Typed
<1>3. bank' \in {NoBank} \cup [Tabs -> {"null", "true", "false"}]
  BY <1>1, TickedType DEF PutStep, CameraStores, Answered, Refused, Expired, Fails, Typed, BankType
<1>4. BankType'
  BY <1>3 DEF PutStep, CameraStores, Answered, Refused, Expired, Fails, Wire, Typed, BankType
<1>5. PutType'
  <2>1. [p EXCEPT !.stored = TRUE] \in Put
    BY <1>1 DEF Put
  <2> QED
    BY <2>1 DEF PutStep, CameraStores, Answered, Refused, Expired, Fails, Typed, PutType, Put
<1>6. camera' \in [Tabs -> Values \cup {Blank}]
  <2>1. CASE CameraStores(p)
    <3>1. PICK v \in (IF p.value = None THEN {Blank, camera[p.tab]} ELSE {p.value}) :
            camera' = [camera EXCEPT ![p.tab] = v]
      BY <2>1 DEF CameraStores
    <3>2. v \in Values \cup {Blank}
      BY <1>1, <3>1 DEF Typed, ValueType
    <3> QED
      BY <3>1, <3>2 DEF Typed, ValueType
  <2> QED
    BY <2>1 DEF PutStep, Answered, Refused, Expired, Fails, Typed, ValueType
<1>7. form' \in [Tabs -> Values \cup {Blank, None}] /\ form'["region"] # None
  BY <1>1 DEF PutStep, CameraStores, Answered, Refused, Expired, Fails, Typed, ValueType
<1>8. ValueType'
  BY <1>6, <1>7 DEF PutStep, CameraStores, Answered, Refused, Expired, Fails, Wire, Typed, ValueType
<1> QED
  BY <1>2, <1>4, <1>5, <1>8 DEF Typed

LEMMA SaveTimerType == ASSUME Typed, SaveTimer PROVE Typed'
<1> UNCHANGED <<tabs, loading, puts, history>>
  BY DEF SaveTimer, ObserveTask, ObserverExpires, ObserverDies, Observer
<1>1. TabType' /\ LoadType' /\ PutType' /\ excused' \subseteq Tabs /\ unseen' \subseteq Tabs
  BY DEF Typed, TabType, LoadType, PutType, Put
<1>2. BankType'
  BY DEF SaveTimer, ObserveTask, ObserverExpires, ObserverDies, Typed, BankType
<1>3. CountType'
  <2>1. observers > 0 /\ observers' = observers - 1 /\ saves' = saves
    BY DEF SaveTimer, ObserveTask, ObserverExpires, ObserverDies, Observer
  <2>2. observers \in 0 .. saves /\ saves \in 0 .. MaxSaves
    BY DEF Typed, CountType
  <2> QED
    BY <2>1, <2>2 DEF CountType
<1>4. ValueType'
  BY FilledType DEF SaveTimer, ObserveTask, ObserverExpires, ObserverDies, Observer, Typed, TabType, ValueType
<1> QED
  BY <1>1, <1>2, <1>3, <1>4 DEF Typed

LEMMA TypedStep == ASSUME Typed, [Next]_vars PROVE Typed'
<1>1. CASE UNCHANGED vars
  BY <1>1 DEF vars, Typed, TabType, ValueType, LoadType, BankType, CountType, PutType, Put
<1> QED
  BY <1>1, OnPageType, TimersType, LoadsType, PutsType, SaveTimerType DEF Next, PutSteps
-----------------------------------------------------------------------------
(* Nothing but a hasty click loses a value.  An excused tab stays excused,  *)
(* so a step has to answer for those it leaves untouched only.              *)

LEMMA KeptMeans == ASSUME Typed, Loaded, NEW t \in Tabs, Kept(t) PROVE
  /\ isSetVal => gets[t] = "ok"
  /\ gets[t] = "ok" => wrote[t] \in Values
<1>1. gets[t] # "empty"
  BY DEF Kept, Awaited
<1> QED
  BY <1>1, Plain DEF Loaded, Typed, ValueType

LEMMA HonestSuffices == ASSUME
    \A t \in Tabs : t \notin excused' => Kept(t)',
    \A p \in puts' : p.tab \notin excused' => Meant(p)'
  PROVE Honest'
  BY DEF Honest

\* What is collected from a tab that nobody was hasty with is what the user knows.
LEMMA CollectedMeans == ASSUME Typed, Loaded, ~Unreadable,
    NEW t \in Tabs, Kept(t), gets[t] = "ok", t \notin HastyTabs
  PROVE Collected[t] = wrote[t]
<1>1. lastActiveTab \in {None, selectedTab}
  BY DEF Unreadable
<1>2. CASE t = lastActiveTab
  <2>1. child # Blank /\ child \in {Blank, wrote[t]}
    BY <1>1, <1>2, Plain DEF HastyTabs, Kept, Known
  <2> QED
    BY <1>2, <2>1, Plain DEF Collected, Typed, ValueType
<1>3. CASE t # lastActiveTab
  <2>1. form[t] = wrote[t]
    BY <1>3 DEF Kept, Known, View
  <2> QED
    BY <1>3, <2>1 DEF Collected, Typed, ValueType, TabType
<1> QED
  BY <1>2, <1>3

LEMMA ClickKeeps == ASSUME Typed, Loaded, Honest, NEW t \in Tabs, Click(t) PROVE Loaded' /\ Honest'
<1>1. Select(t) /\ excused \subseteq excused' /\ t # lastActiveTab
  BY DEF Click, OnClickTab, OnClickTabThrows
<1>2. UNCHANGED <<gets, load, bank, puts, camera, wrote>> /\ selectedTab' = t
  BY <1>1 DEF Select
<1>3. Loaded'
  BY <1>2 DEF Loaded, Click, OnClickTab, OnClickTabThrows
<1>4. ASSUME NEW u \in Tabs, u \notin excused' PROVE Kept(u)'
  <2>1. Kept(u) /\ u \notin excused
    BY <1>1, <1>4 DEF Honest
  <2>3. u = t => child' \in {Blank, child} /\ (u # selectedTab => child' = Blank)
    BY <1>1 DEF Select
  <2>4. CASE gets[u] # "ok"
    <3>1. ~isSetVal
      BY <2>1, <2>4, KeptMeans
    <3>2. form' = form
      BY <3>1 DEF Click, OnClickTab, OnClickTabThrows
    <3> QED
      BY <1>2, <2>1, <2>3, <2>4, <3>2 DEF Kept, Awaited, Tied
  <2>5. CASE gets[u] = "ok"
    <3>1. (isSetVal /\ ~Unreadable) => Collected[u] = wrote[u]
      BY <1>4, <2>1, <2>5, CollectedMeans DEF Click, OnClickTab, OnClickTabThrows
    <3>2. u = t => child' \in {Blank, wrote[u]}
      BY <2>1, <2>3, <2>5 DEF Kept, Known
    <3>3. CASE OnClickTab(t) /\ isSetVal
      <4>1. form'[u] = wrote[u]
        BY <3>1, <3>3 DEF OnClickTab
      <4>2. u = lastActiveTab' => waits'[u] # 0
        <5>1. u = lastActiveTab' => u = t /\ waits'[u] = waits[u] + 1
          BY <3>3 DEF OnClickTab, Typed, TabType
        <5>2. waits[u] \in Nat
          BY DEF Typed, TabType
        <5> QED
          BY <5>1, <5>2
      <4> QED
        BY <1>2, <2>1, <2>5, <3>2, <4>1, <4>2 DEF Kept, Known, View, Tied
    <3>4. CASE OnClickTab(t) /\ ~isSetVal
      <4>1. form' = form
        BY <3>4 DEF OnClickTab
      <4> QED
        BY <1>2, <2>1, <2>5, <3>2, <3>4, <4>1 DEF Kept, Known, Tied
    <3>5. CASE OnClickTabThrows(t)
      <4>1. UNCHANGED <<form, waits, lastActiveTab>> /\ isSetVal /\ Unreadable
        BY <3>5 DEF OnClickTabThrows
      <4>2. wrote[u] # Blank
        BY <2>1, <2>5, KeptMeans, Plain
      <4>3. form[u] = wrote[u]
        <5>1. CASE u = lastActiveTab /\ u = selectedTab /\ waits[u] = 0
          BY <2>1, <2>5, <4>1, <4>2, <5>1 DEF Unreadable, Kept, Known, View
        <5>2. CASE ~(u = lastActiveTab /\ u = selectedTab /\ waits[u] = 0)
          BY <2>1, <2>5, <4>1, <5>2 DEF Kept, Known, View
        <5> QED
          BY <5>1, <5>2
      <4>4. u = lastActiveTab => u # t
        BY <1>1
      <4> QED
        BY <1>2, <2>1, <2>5, <3>2, <4>1, <4>3, <4>4 DEF Kept, Known, View, Tied
    <3> QED
      BY <3>3, <3>4, <3>5 DEF Click
  <2> QED
    BY <2>4, <2>5
<1>5. ASSUME NEW p \in puts', p.tab \notin excused' PROVE Meant(p)'
  BY <1>1, <1>2, <1>5 DEF Honest, Meant
<1> QED
  BY <1>3, <1>4, <1>5, HonestSuffices
LEMMA EditKeeps == ASSUME Typed, Loaded, Honest, NEW v \in Entries, Edit(v) PROVE Loaded' /\ Honest'
<1>1. UNCHANGED <<tabs, form, loading, bank, puts, camera>> /\ excused \subseteq excused'
  BY DEF Edit
<1>2. Loaded'
  BY <1>1 DEF Loaded
<1>3. ASSUME NEW t \in Tabs, t \notin excused' PROVE wrote'[t] = wrote[t] \/ t = selectedTab
  BY DEF Edit, Typed, ValueType
<1>4. selectedTab \notin excused' =>
        /\ waits[selectedTab] = 0 /\ isSetVal /\ bank = NoBank /\ selectedTab = lastActiveTab
        /\ child' = v /\ wrote'[selectedTab] = v
  BY DEF Edit, Typed, TabType, ValueType
<1>5. ASSUME NEW t \in Tabs, t \notin excused' PROVE Kept(t)'
  <2>1. Kept(t)
    BY <1>1, <1>5 DEF Honest
  <2>2. CASE t = selectedTab
    <3>1. gets[t] = "ok"
      BY <1>4, <1>5, <2>1, <2>2, KeptMeans
    <3> QED
      BY <1>1, <1>4, <1>5, <2>1, <2>2, <3>1 DEF Kept, Known, View, Tied
  <2>3. CASE t # selectedTab
    BY <1>1, <1>3, <1>5, <2>1, <2>3 DEF Kept, Awaited, Known, View, Tied
  <2> QED
    BY <2>2, <2>3
<1>6. ASSUME NEW p \in puts', p.tab \notin excused' PROVE Meant(p)'
  <2>1. Meant(p) /\ p.tab \in Tabs
    BY <1>1, <1>6 DEF Honest, Typed, PutType, Put
  <2> QED
    BY <1>1, <1>3, <1>4, <1>6, <2>1 DEF Meant
<1> QED
  BY <1>2, <1>5, <1>6, HonestSuffices

LEMMA WaitKeeps == ASSUME Typed, Loaded, Honest, NEW t \in Tabs, WaitNavActive(t) PROVE Loaded' /\ Honest'
<1>1. /\ UNCHANGED <<selectedTab, lastActiveTab, form, loading, bank, puts, camera, wrote, excused>>
      /\ waits' = [waits EXCEPT ![t] = @ - 1] /\ waits[t] > 0 /\ waits[t] \in Nat
      /\ child' = IF selectedTab = t THEN Filled(t) ELSE child
  BY DEF WaitNavActive, Typed, TabType
<1>2. Loaded'
  BY <1>1 DEF Loaded
<1>3. ASSUME NEW u \in Tabs, u \notin excused' PROVE Kept(u)'
  <2>1. Kept(u)
    BY <1>1, <1>3 DEF Honest
  <2>2. CASE u # t
    <3>1. waits'[u] = waits[u] /\ (u = selectedTab => child' = child)
      BY <1>1, <2>2 DEF Typed, TabType
    <3> QED
      BY <1>1, <2>1, <3>1 DEF Kept, Awaited, Known, View, Tied
  <2>3. CASE u = t /\ gets[t] # "ok"
    <3>1. Awaited(t) /\ ~isSetVal
      BY <2>1, <2>3, KeptMeans DEF Kept
    <3>2. child' = child
      BY <1>1, <3>1, <2>3, Plain DEF Filled, CanSet, Awaited
    <3> QED
      BY <1>1, <2>1, <2>3, <3>2 DEF Kept, Awaited, Tied
  <2>4. CASE u = t /\ gets[t] = "ok"
    <3>1. form[t] = wrote[t] /\ wrote[t] \in Values
      BY <1>1, <2>1, <2>4, KeptMeans DEF Kept, Known, View
    <3>2. child' \in {child, form[t]}
      BY <1>1 DEF Filled
    <3>3. isSetVal /\ t = selectedTab => child' = form[t]
      BY <1>1, <2>4, <3>1, Plain DEF Filled, CanSet, Loaded, Typed, LoadType
    <3> QED
      BY <1>1, <2>1, <2>4, <3>1, <3>2, <3>3 DEF Kept, Known, View, Tied
  <2> QED
    BY <2>2, <2>3, <2>4
<1>4. ASSUME NEW p \in puts', p.tab \notin excused' PROVE Meant(p)'
  BY <1>1, <1>4 DEF Honest, Meant
<1> QED
  BY <1>2, <1>3, <1>4, HonestSuffices

LEMMA GotKeeps == ASSUME Typed, Loaded, Honest, Loads PROVE Loaded' /\ Honest'
<1> DEFINE Moved(t, o) ==
      /\ gets[t] = "pending" /\ gets' = [gets EXCEPT ![t] = o]
      /\ \/ form' = form /\ (t = "region" \/ o # "empty")
         \/ t \in Tabs /\ o = "ok" /\ form' = [form EXCEPT ![t] = camera[t]]
         \/ t \in Tabs /\ o = "empty" /\ form' = [form EXCEPT ![t] = None] /\ t \in excused'
      /\ t \in Tabs /\ o = "ok" => form' = [form EXCEPT ![t] = camera[t]]
<1>1. PICK t \in Tasks, o \in {"ok", "empty", "failed", "lost"} :
        Got(t, o) /\ Moved(t, o) /\ excused \subseteq excused' /\ (t \in Tabs /\ o = "empty" => t \in excused')
  <2>1. ASSUME NEW t \in Tasks, GetAnswered(t) PROVE
          Got(t, "ok") /\ Moved(t, "ok") /\ excused \subseteq excused'
    BY <2>1 DEF GetAnswered, Got
  <2>2. ASSUME NEW t \in Tasks, GetFails(t) PROVE
          Got(t, "failed") /\ Moved(t, "failed") /\ excused \subseteq excused'
    BY <2>2 DEF GetFails, Got
  <2>3. ASSUME GetRefused PROVE
          Got("region", "lost") /\ Moved("region", "lost") /\ excused \subseteq excused'
    BY <2>3 DEF GetRefused, Got
  <2>4. ASSUME NEW t \in Tabs \ {"region"}, GetRefusedUnseen(t) PROVE
          Got(t, "empty") /\ Moved(t, "empty") /\ excused \subseteq excused' /\ t \in excused'
    BY <2>4 DEF GetRefusedUnseen, Got
  <2> HIDE DEF Moved
  <2> QED
    BY <2>1, <2>2, <2>3, <2>4, Plain DEF Loads
<1>2. UNCHANGED <<tabs, child, load, bank, puts, camera, wrote>>
  BY <1>1 DEF Got
<1>3. ~isSetVal /\ Loaded'
  <2>1. gets[t] = "pending"
    BY <1>1
  <2> QED
    BY <1>2, <2>1 DEF Loaded
<1>4. ASSUME NEW u \in Tabs, u \notin excused' PROVE Kept(u)'
  <2>1. Kept(u)
    BY <1>1, <1>4 DEF Honest
  <2>2. CASE u # t
    <3>1. gets'[u] = gets[u] /\ form'[u] = form[u]
      BY <1>1, <2>2, Plain DEF Typed, LoadType, ValueType
    <3> QED
      BY <1>2, <2>1, <1>3, <3>1 DEF Kept, Awaited, Known, Tied
  <2>3. CASE u = t
    <3>1. Awaited(u) /\ camera[u] = wrote[u] /\ ~Tied(u) /\ gets'[u] = o /\ o # "empty"
      BY <1>1, <1>4, <2>1, <2>3, Plain DEF Kept, Awaited, Typed, LoadType
    <3>2. CASE o = "ok"
      <4>1. form'[u] = wrote[u]
        BY <1>1, <2>3, <3>1, <3>2 DEF Typed, ValueType
      <4> QED
        BY <1>2, <1>3, <2>1, <3>1, <3>2, <4>1 DEF Kept, Awaited, Known, Tied
    <3>3. CASE o # "ok"
      <4>1. form' = form
        BY <1>1, <3>1, <3>3
      <4> QED
        BY <1>1, <1>2, <2>1, <2>3, <3>1, <3>3, <4>1 DEF Kept, Awaited, Tied
    <3> QED
      BY <3>2, <3>3
  <2> QED
    BY <2>2, <2>3
<1>5. ASSUME NEW p \in puts', p.tab \notin excused' PROVE Meant(p)'
  <2>1. Meant(p) /\ p.tab \in Tabs
    BY <1>1, <1>2, <1>5 DEF Honest, Typed, PutType, Put
  <2>2. gets'[p.tab] = "ok"
    BY <1>1, <2>1, Plain DEF Meant, Typed, LoadType
  <2> QED
    BY <1>2, <2>1, <2>2 DEF Meant
<1> QED
  BY <1>3, <1>4, <1>5, HonestSuffices
LEMMA InitTimerKeeps == ASSUME Typed, Loaded, Honest, InitTimer PROVE Loaded' /\ Honest'
<1>1. /\ UNCHANGED <<tabs, form, gets, saving, history>>
      /\ ~isSetVal
      /\ \/ load' # "set" /\ child' = child
         \/ /\ load' = "set" /\ child' = Filled(lastActiveTab)
            /\ \A t \in Tasks : gets[t] \in {"ok", "empty"}
  BY DEF InitTimer, ObserveInit, InitExpires, InitNavActive, InitNavExpires, Load
<1>2. Loaded'
  BY <1>1 DEF Loaded
<1>3. ASSUME NEW t \in Tabs, t \notin excused' PROVE Kept(t)'
  <2>1. Kept(t)
    BY <1>1, <1>3 DEF Honest
  <2>2. CASE load' # "set"
    BY <1>1, <2>1, <2>2 DEF Kept, Awaited, Known, Tied
  <2>3. CASE load' = "set"
    <3>1. gets[t] = "ok" /\ form[t] = wrote[t] /\ wrote[t] \in Values
      BY <1>1, <2>1, <2>3, KeptMeans, Plain DEF Kept, Awaited, Known
    <3>2. lastActiveTab \in {None, selectedTab}
      BY <1>1 DEF Loaded
    <3>3. t = lastActiveTab => child' = form[t]
      BY <1>1, <2>3, <3>1, Plain DEF Filled, CanSet, Typed, LoadType
    <3>4. lastActiveTab = None => child' = child
      BY <1>1, <2>3 DEF Filled
    <3>5. t = selectedTab => child' \in {Blank, wrote[t]}
      BY <2>1, <3>1, <3>2, <3>3, <3>4 DEF Kept, Known
    <3> QED
      BY <1>1, <2>1, <2>3, <3>1, <3>3, <3>5 DEF Kept, Known, View, Tied
  <2> QED
    BY <2>2, <2>3
<1>4. ASSUME NEW p \in puts', p.tab \notin excused' PROVE Meant(p)'
  BY <1>1, <1>4 DEF Honest, Meant
<1> QED
  BY <1>2, <1>3, <1>4, HonestSuffices

LEMMA SubmitKeeps == ASSUME Typed, Loaded, Honest, OnSubmit PROVE Loaded' /\ Honest'
<1>1. /\ UNCHANGED <<tabs, child, loading, camera, wrote>> /\ ~Unreadable
      /\ form' = Collected /\ bank' = Hired /\ excused \subseteq excused'
      /\ \/ excused' = Tabs
         \/ /\ puts = {} /\ bank = NoBank
            /\ excused' = excused \cup HastyTabs \cup Unloaded(form')
  BY DEF OnSubmit, Hire, Typed
<1>2. Loaded'
  BY <1>1 DEF Loaded
<1>3. ASSUME NEW t \in Tabs, t \notin excused'
      PROVE  Kept(t) /\ gets[t] = "ok" /\ form'[t] = wrote[t] /\ wrote[t] \in Values
  <2>1. Kept(t) /\ t \notin HastyTabs /\ t \notin Unloaded(form')
    BY <1>1, <1>3 DEF Honest
  <2>2. ASSUME gets[t] # "ok" PROVE FALSE
    <3>1. ~isSetVal /\ Awaited(t)
      BY <2>1, <2>2, KeptMeans DEF Kept
    <3>2. form'[t] \notin {Blank, None}
      BY <2>1, <3>1 DEF Unloaded
    <3>3. t = lastActiveTab
      BY <1>1, <3>1, <3>2 DEF Collected, Awaited, Typed, ValueType, TabType
    <3>4. t = selectedTab
      BY <1>1, <3>3, Plain DEF Unreadable
    <3> QED
      BY <2>1, <3>1, <3>3, <3>4 DEF HastyTabs, Awaited
  <2> QED
    BY <1>1, <2>1, <2>2, CollectedMeans, KeptMeans
<1>4. ASSUME NEW t \in Tabs, t \notin excused' PROVE Kept(t)'
  BY <1>1, <1>3, <1>4 DEF Kept, Known, View, Tied
<1>5. ASSUME NEW p \in puts', p.tab \notin excused' PROVE Meant(p)'
  <2>1. excused' # Tabs /\ puts = {}
    <3>1. p.tab \in Tabs
      BY <1>5, OnPageType DEF OnPage, Typed, PutType, Put
    <3> QED
      BY <1>1, <1>5, <3>1
  <2>2. PICK t \in Tabs : p = [save |-> saves', tab |-> t, value |-> form'[t], stored |-> FALSE]
    BY <1>5, <2>1 DEF OnSubmit
  <2>3. p.tab = t /\ p.value = form'[t]
    BY <2>2
  <2>4. gets[t] = "ok" /\ form'[t] = wrote[t] /\ wrote[t] \in Values
    BY <1>3, <1>5, <2>3
  <2> QED
    BY <1>1, <2>3, <2>4, Plain DEF Meant
<1> QED
  BY <1>2, <1>4, <1>5, HonestSuffices

LEMMA ThrowKeeps == ASSUME Typed, Loaded, Honest, OnSubmitThrows PROVE Loaded' /\ Honest'
<1>1. /\ UNCHANGED <<tabs, child, form, loading, camera, wrote, puts>>
      /\ bank' = Hired /\ excused \subseteq excused'
      /\ excused' = Tabs \/ puts = {}
  BY DEF OnSubmitThrows, Hire, Typed
<1>2. Loaded'
  BY <1>1 DEF Loaded
<1>3. ASSUME NEW t \in Tabs, t \notin excused' PROVE Kept(t)'
  <2>1. Kept(t) /\ puts' = {} /\ bank'[t] = "null"
    BY <1>1, <1>3 DEF Honest, Hired
  <2>2. ~Tied(t)'
    BY <2>1 DEF Tied
  <2> QED
    BY <1>1, <2>1, <2>2 DEF Kept, Awaited, Known, View
<1>4. ASSUME NEW p \in puts', p.tab \notin excused' PROVE Meant(p)'
  <2>1. p.tab \in Tabs
    BY <1>1, <1>4 DEF Typed, PutType, Put
  <2> QED
    BY <1>1, <1>4, <2>1
<1> QED
  BY <1>2, <1>3, <1>4, HonestSuffices

LEMMA PutKeeps == ASSUME Typed, Loaded, Honest, NEW p \in puts,
    PutStep(p)
  PROVE Loaded' /\ Honest'
<1>1. UNCHANGED <<tabs, child, loading, wrote>> /\ excused \subseteq excused'
  BY DEF PutStep, CameraStores, Answered, Refused, Expired, Fails, Wire
<1>2. Loaded'
  BY <1>1 DEF Loaded
<1>3. p.tab \in Tabs /\ p \in Put
  BY DEF Typed, PutType, Put
<1>4. bank = NoBank <=> bank' = NoBank
  <2>1. bank' = bank \/ \E d \in {"true", "false"} : bank' = Ticked(p.tab, d)
    BY DEF PutStep, CameraStores, Answered, Refused, Expired, Fails
  <2>2. ASSUME bank # NoBank, NEW d \in {"true", "false"} PROVE Ticked(p.tab, d) # NoBank
    <3>1. bank \in [Tabs -> {"null", "true", "false"}]
      BY <2>2 DEF Typed, BankType
    <3>2. Ticked(p.tab, d) \in [Tabs -> {"null", "true", "false"}]
      BY <2>2, <3>1 DEF Ticked
    <3> QED
      BY <3>2, Plain
  <2> QED
    BY <2>1, <2>2 DEF Ticked
<1>5. ASSUME NEW q \in puts' PROVE \E r \in puts : q.tab = r.tab /\ q.value = r.value
  <2>1. CASE q \in puts
    BY <2>1
  <2>2. CASE q \notin puts
    <3>1. q = [p EXCEPT !.stored = TRUE]
      BY <1>5, <2>2 DEF PutStep, CameraStores, Answered, Refused, Expired, Fails
    <3>2. q.tab = p.tab /\ q.value = p.value
      BY <1>3, <3>1 DEF Put
    <3> QED
      BY <3>2
  <2> QED
    BY <2>1, <2>2
<1>6. p.tab \notin excused => Meant(p)
  BY DEF Honest
<1>7. ASSUME NEW t \in Tabs, t \notin excused' PROVE Kept(t)'
  <2>1. Kept(t) /\ t \notin excused
    BY <1>1, <1>7 DEF Honest
  <2>2. t = p.tab => gets[t] = "ok" /\ p.value \notin {Blank, None}
    BY <1>6, <2>1 DEF Meant
  <2>3. camera'[t] # Blank /\ (camera'[t] = camera[t] \/ gets[t] = "ok")
    <3>1. CASE CameraStores(p) /\ t = p.tab
      BY <2>2, <3>1 DEF CameraStores, Typed, ValueType
    <3>2. CASE CameraStores(p) /\ t # p.tab
      BY <1>3, <2>1, <3>2 DEF CameraStores, Typed, ValueType, Kept
    <3>3. CASE ~CameraStores(p)
      BY <2>1, <3>3 DEF PutStep, Answered, Refused, Expired, Fails, Kept
    <3> QED
      BY <3>1, <3>2, <3>3
  <2>4. form'[t] = form[t] \/ (gets[t] = "ok" /\ bank # NoBank /\ t = p.tab /\ form'[t] = wrote[t])
    <3>1. CASE Answered(p) /\ t = p.tab /\ bank # NoBank
      BY <1>6, <2>1, <2>2, <3>1 DEF Answered, Typed, ValueType, Meant
    <3>2. CASE Answered(p) /\ ~(t = p.tab /\ bank # NoBank)
      BY <1>3, <3>2 DEF Answered, Typed, ValueType
    <3>3. CASE Expired(p)
      <4>1. form' = form \/ (p.tab \in excused' /\ form' = [form EXCEPT ![p.tab] = None])
        BY <3>3 DEF Expired
      <4> QED
        BY <1>3, <1>7, <4>1 DEF Typed, ValueType
    <3>4. CASE CameraStores(p) \/ Refused(p) \/ Fails(p)
      BY <3>4 DEF CameraStores, Refused, Fails
    <3> QED
      BY <3>1, <3>2, <3>3, <3>4 DEF PutStep
  <2>5. Tied(t)' => Tied(t)
    <3>1. ASSUME NEW d \in {"true", "false"}, bank' = Ticked(p.tab, d), bank # NoBank, t # p.tab
          PROVE  bank'[t] = bank[t]
      BY <3>1, <1>3 DEF Ticked, Typed, BankType
    <3>2. bank' = bank \/ \E d \in {"true", "false"} : bank' = Ticked(p.tab, d)
      BY DEF PutStep, CameraStores, Answered, Refused, Expired, Fails
    <3>3. bank # NoBank /\ t # p.tab => bank'[t] = bank[t]
      BY <3>1, <3>2
    <3>4. bank # NoBank /\ t = p.tab => Tied(t)
      BY DEF Tied
    <3>5. (\E q \in puts' : q.tab = t) => \E q \in puts : q.tab = t
      BY <1>5
    <3> QED
      BY <1>4, <3>3, <3>4, <3>5 DEF Tied
  <2>6. gets[t] # "ok" => Awaited(t)'
    BY <1>1, <2>1, <2>3, <2>4 DEF Kept, Awaited
  <2>7. gets[t] = "ok" => Known(t)'
    BY <1>1, <2>1, <2>4 DEF Kept, Known, View
  <2> QED
    BY <1>1, <2>1, <2>3, <2>4, <2>5, <2>6, <2>7 DEF Kept
<1>8. ASSUME NEW q \in puts', q.tab \notin excused' PROVE Meant(q)'
  <2>1. PICK r \in puts : q.tab = r.tab /\ q.value = r.value
    BY <1>5
  <2>2. Meant(r)
    BY <1>1, <1>8, <2>1 DEF Honest
  <2> QED
    BY <1>1, <1>4, <2>1, <2>2 DEF Meant
<1> QED
  BY <1>2, <1>7, <1>8, HonestSuffices
LEMMA SaveTimerKeeps == ASSUME Typed, Loaded, Honest, SaveTimer PROVE Loaded' /\ Honest'
<1>1. UNCHANGED <<tabs, form, loading, puts, camera, wrote, excused>>
  BY DEF SaveTimer, ObserveTask, ObserverExpires, ObserverDies, Observer
<1>2. Loaded'
  BY <1>1 DEF Loaded
<1>3. bank' = NoBank
  BY DEF SaveTimer, ObserveTask, ObserverExpires, ObserverDies
<1>4. child' = child \/
        (bank # NoBank /\ (\A t \in Tabs : bank[t] = "true") /\
         lastActiveTab \in {None, selectedTab} /\ child' = Filled(lastActiveTab))
  BY DEF SaveTimer, ObserveTask, ObserverExpires, ObserverDies, AllDone
<1>5. ASSUME NEW t \in Tabs, t \notin excused' PROVE Kept(t)'
  <2>1. Kept(t) /\ ~Tied(t)'
    BY <1>1, <1>3, <1>5 DEF Honest, Tied
  <2>2. CASE child' = child
    BY <1>1, <2>1, <2>2 DEF Kept, Awaited, Known, View
  <2>3. CASE child' # child
    <3>1. Tied(t) /\ lastActiveTab = selectedTab
      BY <1>4, <2>3 DEF Tied, Filled
    <3>2. gets[t] = "ok" /\ form[t] = wrote[t]
      BY <2>1, <3>1 DEF Kept
    <3>3. t = selectedTab => child' = wrote[t]
      BY <1>4, <2>3, <3>1, <3>2 DEF Filled
    <3> QED
      BY <1>1, <2>1, <3>1, <3>2, <3>3 DEF Kept, Known, View
  <2> QED
    BY <2>2, <2>3
<1>6. ASSUME NEW p \in puts', p.tab \notin excused' PROVE Meant(p)'
  BY <1>1, <1>3, <1>6 DEF Honest, Meant
<1> QED
  BY <1>2, <1>5, <1>6, HonestSuffices

LEMMA Step == ASSUME IInv, [Next]_vars PROVE IInv'
<1> Typed /\ Loaded /\ Honest
  BY DEF IInv
<1>1. CASE UNCHANGED vars
  BY <1>1, TypedStep DEF vars, IInv, Loaded, Honest, Kept, Awaited, Known, View, Tied, Meant
<1>2. CASE OnPage
  BY <1>2, TypedStep, ClickKeeps, EditKeeps, SubmitKeeps, ThrowKeeps DEF OnPage, User, Next, IInv
<1>3. CASE GetLastNav
  <2>1. CASE Click(lastNav)
    BY <1>3, <2>1, TypedStep, ClickKeeps DEF GetLastNav, Next, IInv, Typed, TabType
  <2>2. CASE ~Click(lastNav)
    <3>1. UNCHANGED <<selectedTab, lastActiveTab, waits, child, form, loading, saving, history>>
      BY <1>3, <2>2 DEF GetLastNav
    <3>2. Loaded' /\ Honest'
      BY <3>1 DEF Loaded, Honest, Kept, Awaited, Known, View, Tied, Meant
    <3> QED
      BY <1>3, <3>2, TypedStep DEF Next, IInv
  <2> QED
    BY <2>1, <2>2
<1>4. CASE Loads \/ InitTimer
  BY <1>4, TypedStep, GotKeeps, InitTimerKeeps DEF Next, IInv
<1>5. CASE PutSteps
  BY <1>5, TypedStep, PutKeeps DEF Next, PutSteps, IInv
<1>6. CASE SaveTimer
  BY <1>6, TypedStep, SaveTimerKeeps DEF Next, IInv
<1>7. ASSUME NEW t \in Tabs, WaitNavActive(t) PROVE IInv'
  BY <1>7, TypedStep, WaitKeeps DEF Next, IInv
<1> QED
  BY <1>1, <1>2, <1>3, <1>4, <1>5, <1>6, <1>7 DEF Next

\* What the invariant is for.
LEMMA Consequences == IInv => TypeOK /\ EditsSurvive /\ NoBlankStored
<1> SUFFICES ASSUME IInv PROVE TypeOK /\ EditsSurvive /\ NoBlankStored
  OBVIOUS
<1>1. TypeOK
  BY TypedIsTypeOK DEF IInv
<1>2. ASSUME NEW t \in Tabs \ excused PROVE camera[t] # Blank /\ (isSetVal => View(t) = wrote[t])
  <2>1. Kept(t) /\ (isSetVal => gets[t] = "ok")
    BY KeptMeans DEF IInv, Honest
  <2> QED
    BY <2>1 DEF Kept, Known
<1> QED
  BY <1>1, <1>2 DEF EditsSurvive, NoBlankStored

THEOREM Invariance == Spec => []IInv
<1>1. Init => IInv
  BY InitOK
<1>2. IInv /\ [Next]_vars => IInv'
  BY Step
<1> QED
  BY <1>1, <1>2, PTL DEF Spec

-----------------------------------------------------------------------------
(* Save tells the truth.                                                   *)

LEMMA Same == ASSUME UNCHANGED <<bank, puts, camera, tip, sent, unseen, alone>>, SInv PROVE SInv'
  BY DEF SInv, Undisturbed, Stored

LEMMA SubmitTrue == ASSUME Typed, OnSubmit PROVE SInv'
<1> SUFFICES ASSUME alone' PROVE Undisturbed'
  BY DEF SInv
<1>1. bank' = Hired /\ tip' = None /\ sent' = form'
  BY DEF OnSubmit, Hire
<1>2. puts = {}
  BY DEF OnSubmit
<1>3. ASSUME NEW p \in puts' PROVE
        \E t \in Tabs : p = [save |-> saves', tab |-> t, value |-> form'[t], stored |-> FALSE]
  BY <1>2, <1>3 DEF OnSubmit
<1>4. ASSUME NEW p \in puts' PROVE p.value = sent'[p.tab] /\ ~p.stored
  BY <1>1, <1>3
<1>5. ASSUME NEW p \in puts', NEW q \in puts', p.tab = q.tab PROVE p = q
  <2>1. PICK t \in Tabs : p = [save |-> saves', tab |-> t, value |-> form'[t], stored |-> FALSE]
    BY <1>3
  <2>2. PICK u \in Tabs : q = [save |-> saves', tab |-> u, value |-> form'[u], stored |-> FALSE]
    BY <1>3
  <2>3. t = u
    BY <1>5, <2>1, <2>2
  <2> QED
    BY <2>1, <2>2, <2>3
<1>6. \A t \in Tabs : bank'[t] # "true"
  BY <1>1 DEF Hired
<1>7. tip' # "success"
  BY <1>1 DEF None
<1> QED
  BY <1>4, <1>5, <1>6, <1>7 DEF Undisturbed

LEMMA PutTrue == ASSUME Typed, SInv, NEW p \in puts,
    PutStep(p)
  PROVE SInv'
<1> SUFFICES ASSUME alone PROVE Undisturbed'
  BY DEF SInv, PutStep, CameraStores, Answered, Refused, Expired, Fails, Wire
<1>1. Undisturbed /\ UNCHANGED <<sent, tip>> /\ tip # "success"
  BY DEF SInv, Undisturbed, PutStep, CameraStores, Answered, Refused, Expired, Fails, Wire
<1>2. p \in Put /\ p.tab \in Tabs /\ p.value = sent[p.tab]
  BY <1>1 DEF Typed, PutType, Put, Undisturbed
<1>3. CASE CameraStores(p)
  <2> DEFINE pp == [p EXCEPT !.stored = TRUE]
  <2>1. pp.tab = p.tab /\ pp.value = p.value
    BY <1>2 DEF Put
  <2>2. puts' = (puts \ {p}) \cup {pp} /\ bank' = bank
    BY <1>3 DEF CameraStores
  <2> HIDE DEF pp
  <2>3. Stored(p.tab)'
    BY <1>1, <1>2, <1>3 DEF CameraStores, Stored, Typed, ValueType
  <2>4. ASSUME NEW t \in Tabs, t # p.tab, Stored(t) PROVE Stored(t)'
    BY <1>1, <1>3, <2>4 DEF CameraStores, Stored, Typed, ValueType
  <2>5. ASSUME NEW q \in puts' PROVE
          /\ q.value = sent'[q.tab] /\ (q.stored => Stored(q.tab)')
          /\ q = pp \/ (q \in puts /\ q.tab # p.tab)
    <3>1. CASE q = pp
      BY <1>1, <1>2, <2>1, <2>3, <3>1
    <3>2. CASE q # pp
      <4>1. q \in puts /\ q.tab # p.tab /\ q.tab \in Tabs
        BY <1>1, <2>2, <2>5, <3>2 DEF Undisturbed, Typed, PutType, Put
      <4> QED
        BY <1>1, <2>4, <4>1 DEF Undisturbed
    <3> QED
      BY <3>1, <3>2
  <2>6. ASSUME NEW q \in puts', NEW r \in puts', q.tab = r.tab PROVE q = r
    BY <1>1, <2>1, <2>5, <2>6 DEF Undisturbed
  <2>7. ASSUME bank' # NoBank, NEW t \in Tabs, bank'[t] = "true"
        PROVE  Stored(t)' /\ \A q \in puts' : q.tab # t
    <3>1. Stored(t) /\ t # p.tab /\ \A q \in puts : q.tab # t
      BY <1>1, <2>2, <2>7 DEF Undisturbed
    <3> QED
      BY <2>1, <2>4, <2>5, <3>1
  <2> QED
    BY <1>1, <2>5, <2>6, <2>7 DEF Undisturbed
<1>4. CASE ~CameraStores(p)
  <2>1. puts' = puts \ {p} /\ camera' = camera
    BY <1>4 DEF PutStep, Answered, Refused, Expired, Fails
  <2>2. \A t \in Tabs : Stored(t) => Stored(t)'
    <3>1. unseen \subseteq unseen'
      BY <1>4 DEF PutStep, Answered, Refused, Expired, Fails
    <3> QED
      BY <1>1, <2>1, <3>1 DEF Stored
  <2>3. ASSUME NEW q \in puts' PROVE q \in puts /\ q.tab \in Tabs /\ q.tab # p.tab
    BY <1>1, <2>1, <2>3 DEF Undisturbed, Typed, PutType, Put
  <2>4. \/ bank' = bank
        \/ bank' = Ticked(p.tab, "false")
        \/ bank' = Ticked(p.tab, "true") /\ (p.stored \/ p.tab \in unseen')
    BY <1>4 DEF PutStep, Answered, Refused, Expired, Fails
  <2>5. ASSUME bank' # NoBank, NEW t \in Tabs, bank'[t] = "true"
        PROVE  Stored(t)' /\ \A q \in puts' : q.tab # t
    <3>1. bank # NoBank /\ bank \in [Tabs -> {"null", "true", "false"}]
      BY <2>4, <2>5 DEF Ticked, Typed, BankType
    <3>2. CASE t = p.tab
      <4>1. p.stored \/ p.tab \in unseen'
        BY <1>1, <2>4, <2>5, <3>1, <3>2 DEF Ticked, Undisturbed
      <4>2. Stored(t)'
        BY <1>1, <2>2, <3>2, <4>1 DEF Undisturbed, Stored
      <4> QED
        BY <2>3, <3>2, <4>2
    <3>3. CASE t # p.tab
      <4>1. bank[t] = "true"
        BY <1>2, <2>4, <2>5, <3>1, <3>3 DEF Ticked
      <4> QED
        BY <1>1, <2>2, <2>3, <3>1, <4>1 DEF Undisturbed
    <3> QED
      BY <3>2, <3>3
  <2>6. ASSUME NEW q \in puts' PROVE q.value = sent'[q.tab] /\ (q.stored => Stored(q.tab)')
    BY <1>1, <2>2, <2>3 DEF Undisturbed
  <2>7. ASSUME NEW q \in puts', NEW r \in puts', q.tab = r.tab PROVE q = r
    BY <1>1, <2>3, <2>7 DEF Undisturbed
  <2> QED
    BY <1>1, <2>5, <2>6, <2>7 DEF Undisturbed
<1> QED
  BY <1>3, <1>4

LEMMA SaveTimerTrue == ASSUME Typed, SInv, SaveTimer PROVE SInv'
<1> SUFFICES ASSUME alone PROVE Undisturbed'
  BY DEF SInv, SaveTimer, ObserveTask, ObserverExpires, ObserverDies, Observer
<1>1. Undisturbed /\ UNCHANGED <<puts, camera, sent, unseen>> /\ bank' = NoBank
  BY DEF SInv, SaveTimer, ObserveTask, ObserverExpires, ObserverDies, Observer
<1>2. tip' = "success" =>
        tip = "success" \/ (bank # NoBank /\ \A t \in Tabs : bank[t] = "true")
  BY DEF SaveTimer, ObserveTask, ObserverExpires, ObserverDies, AllDone
<1>3. \A t \in Tabs : Stored(t)' <=> Stored(t)
  BY <1>1 DEF Stored
<1>4. \A p \in puts : p.tab \in Tabs
  BY DEF Typed, PutType, Put
<1>5. tip' = "success" => puts = {} /\ \A t \in Tabs : Stored(t)
  BY <1>1, <1>2, <1>4 DEF Undisturbed
<1> QED
  BY <1>1, <1>3, <1>4, <1>5 DEF Undisturbed

LEMMA StepTrue == ASSUME Typed, SInv, [Next]_vars PROVE SInv'
<1>1. CASE UNCHANGED vars
  BY <1>1, Same DEF vars
<1>2. ASSUME NEW t, Click(t) PROVE SInv'
  BY <1>2, Same DEF Click, OnClickTab, OnClickTabThrows, Select
<1>3. CASE OnPage
  <2>1. ASSUME NEW v, Edit(v) PROVE SInv'
    BY <2>1, Same DEF Edit
  <2>2. CASE OnSubmitThrows
    BY <2>2 DEF OnSubmitThrows, SInv
  <2> QED
    BY <1>2, <1>3, <2>1, <2>2, SubmitTrue DEF OnPage, User
<1>4. CASE GetLastNav
  BY <1>2, <1>4, Same DEF GetLastNav
<1>5. CASE Loads
  BY <1>5, Same DEF Loads, GetAnswered, GetFails, GetRefused, GetRefusedUnseen, Got
<1>6. CASE InitTimer
  BY <1>6, Same DEF InitTimer, ObserveInit, InitExpires, InitNavActive, InitNavExpires, Load
<1>7. ASSUME NEW t, WaitNavActive(t) PROVE SInv'
  BY <1>7, Same DEF WaitNavActive
<1> QED
  BY <1>1, <1>3, <1>4, <1>5, <1>6, <1>7, PutTrue, SaveTimerTrue DEF Next, PutSteps
-----------------------------------------------------------------------------
(* The theorems.                                                           *)

\* The page keeps its shape: the bank always has a task for each tab, and no
\* more observers watch it than Save was pressed.
THEOREM TypeCorrect == Spec => []TypeOK
  BY Invariance, Consequences, PTL

\* Whatever the order of clicks, edits, timers and answers, what was entered is
\* what the page holds, but for the tabs that a hasty click or a refused GET
\* has touched.
THEOREM NothingLost == Spec => []EditsSurvive
  BY Invariance, Consequences, PTL

\* No such order makes the page send the blank of a child it had not filled.
THEOREM NothingBlanked == Spec => []NoBlankStored
  BY Invariance, Consequences, PTL

\* The page says that saving succeeded only when the camera holds all that was
\* sent, but for the tabs whose refusal was ticked off unseen; a refused linkage
\* is none of them.
THEOREM SaveTrue == Spec => []SuccessMeansStored
<1>1. Init => SInv
  BY InitOK
<1>2. IInv /\ SInv /\ [Next]_vars => SInv'
  BY StepTrue DEF IInv
<1>3. SInv => SuccessMeansStored
  BY DEF SInv, Undisturbed, Stored, SuccessMeansStored
<1> QED
  BY <1>1, <1>2, <1>3, Invariance, PTL DEF Spec
=============================================================================
