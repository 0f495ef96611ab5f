---------------------------- MODULE MCTimeTable ----------------------------
EXTENDS TimeTable, TLC

\* Schedules the camera may hold: none at all, or one block on one day
MCOpening ==
  { [l \in Lines |-> IF l = k THEN <<[x0 |-> 2 * MinGap, x |-> 3 * MinGap]>> ELSE <<>>] :
      k \in Lines \cup {NoLine} }

MCDeltas == {0 - Pixel, 0, Pixel}
MCPresses == { p \in 0 .. Day : p % Pixel = 0 }
MCTimes == { t \in 0 .. Day : t % MinGap = 0 }

Total(table) == Cardinality({ <<l, i>> \in Lines \X (1 .. MaxBlocks) : i <= Len(table[l]) })

\* Bounds: three blocks only on one day and with no answer under way; an answer
\* has one block at most, and while the page shows two it is one of Opening
Few ==
  /\ cramped # {} => Total(lines) <= 1 /\ answers = {}
  /\ Total(lines) <= (IF answers = {} /\ \E l \in Lines : Len(lines[l]) = Total(lines) THEN 3 ELSE 2)
  /\ \A t \in answers : Total(t) <= 1 /\ (Total(lines) = 2 => t \in MCOpening)
MCSymmetry == Permutations(Lines)
=============================================================================
