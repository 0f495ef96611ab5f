---------------------------- MODULE MCEventTabs ----------------------------
EXTENDS EventTabs

MCOpening == [Tabs -> {"v"}]

\* Bounds: Save is pressed twice only on a page opened for the first time and
\* loaded well, nothing being ticked off unseen any more, its tabs left alone if the
\* two overlap, and once on one that is still loading or was loaded badly
Few ==
  /\ saves > 1 => isSetVal /\ Bad = {} /\ lastNav = None /\ unseen = {}
  /\ saves > 1 /\ ~alone => \A t \in Tabs : waits[t] = 0
  /\ saves > 0 =>
       /\ ~autoClick
       /\ \/ isSetVal
          \/ load # "failed" /\ lastNav = "linkage" /\ gets["src"] = "ok" /\ Bad = {}
          \/ load = "failed" /\ lastNav = None /\ \A t \in Tasks : gets[t] # "pending"
=============================================================================
