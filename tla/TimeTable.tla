----------------------------- MODULE TimeTable -----------------------------
(***************************************************************************)
(* The weekly schedule of the web pages (TimeTableComponent): one line per  *)
(* day, up to eight blocks of time on a line, drawn, moved and resized with *)
(* the mouse, typed into a form, copied from day to day, deleted, saved,    *)
(* and replaced by the camera's answer whenever that arrives.               *)
(*                                                                         *)
(* A day is Day ticks long, a minute is MinGap ticks and a pixel Pixel      *)
(* ticks.  A line is a sequence, so a blob is its place, from 1, and 0      *)
(* stands for the code's NaN.  An index that names no block makes a handler *)
(* throw a TypeError: what it did before stays done, the rest is lost.      *)
(*                                                                         *)
(* No handler asks which button was pressed, or whether one is down: a      *)
(* press may follow a press, and a release may be lost.  A new block begins *)
(* with no length wherever the press is; with less than a minute to its     *)
(* neighbours or to the ends of the day, or pressed again before it was     *)
(* drawn out, it comes to overlap or to lie out of sight.  The history      *)
(* variable cramped records the lines on which that has happened; the       *)
(* properties say that nothing else does it.                                *)
(***************************************************************************)
EXTENDS Integers, Sequences, FiniteSets, SequencesExt

CONSTANTS
  Lines,       \* the days
  NoLine,      \* the pointer is on no line
  Day,         \* right end of a line: 24:00
  MinGap,      \* a minute, drawerObj.minGap
  Pixel,       \* what one pixel of the canvas stands for
  MaxBlocks,   \* blocks a line may hold, 8 in the code
  Presses,     \* where on a line the button is pressed
  Deltas,      \* how far the mouse moves between two of its events
  Times,       \* what is typed into the form
  Opening,     \* schedules the camera may hold when the page opens
  MaxAnswers   \* bound: answers of the camera under way

Block == [x0 : Int, x : Int]

ASSUME SizeAssumption ==
  /\ {Day, MinGap, Pixel, MaxBlocks, MaxAnswers} \subseteq Nat
  /\ 0 < MinGap
  /\ NoLine \notin Lines
ASSUME InputAssumption ==
  /\ Presses \subseteq 0 .. Day
  /\ Deltas \subseteq Int
  /\ Times \subseteq Nat
  /\ \A s, t \in Times : s < t => t - s >= MinGap
  /\ \A t \in Opening : t \in [Lines -> Seq(Block)]

VARIABLES
  lines,       \* drawerObj[0..6]
  activeLine,  \* the line under the pointer
  activeBlob,  \* the block last pressed on
  drag,        \* drawStatus, and the end of the block that follows the mouse
  pointLine,   \* activePonit.pointLine: the line handles were last put on
  handles,     \* activePonit holds a place, so the handles can be pressed
  shown,       \* isShowChange: pressed, and not moved since
  form,        \* the open dialog and what it is about
  answers,     \* tables the camera is sending
  cramped      \* history: lines where a block was begun without room, or
               \* pressed again or saved before it was drawn out

vars == <<lines, activeLine, activeBlob, drag, pointLine, handles, shown, form,
          answers, cramped>>
gesture == <<activeLine, activeBlob, drag, pointLine, handles, shown>>

Ends == {"x", "x0"}
Idle   == [status |-> "null", end |-> "x"]
Moving == [status |-> "move", end |-> "x"]
Drags  == {Idle, Moving} \cup [status : {"new", "resize"}, end : Ends]

NoForm  == [kind |-> "none", line |-> NoLine, blob |-> 0]
Forms   == {NoForm} \cup [kind : {"edit", "copy"}, line : Lines, blob : Nat]

Exists(l, b) == l \in Lines /\ b \in 1 .. Len(lines[l])
Drawing == drag.status = "new"
-----------------------------------------------------------------------------
(* Geometry of one line *)

LeftEdge(s, i)  == IF i > 1 THEN s[i - 1].x ELSE 0

\* defect: the last pair of blocks is forgotten
RightEdgeShort(s, i) == IF i < Len(s) - 1 THEN s[i + 1].x0 ELSE Day
RightEdge(s, i) == IF i < Len(s) THEN s[i + 1].x0 ELSE Day

\* Blocks a press at p grabs: the code allows a pixel on either side
Hit(s, p) == { i \in 1 .. Len(s) : s[i].x0 - Pixel <= p /\ p <= s[i].x + Pixel }

\* The block a new one at p comes after, if there is one (getOrder)
Undefined == 0 - 1
GapsAround(s, p) == { i \in 1 .. Len(s) - 1 : s[i].x < p /\ p < s[i + 1].x0 }
Order(s, p) ==
  IF s = <<>> \/ p < s[1].x0 THEN 0
  ELSE IF p > s[Len(s)].x THEN Len(s)
  ELSE IF GapsAround(s, p) = {} THEN Undefined
  ELSE CHOOSE i \in GapsAround(s, p) : \A j \in GapsAround(s, p) : i <= j

Clamp(v, low, high) == IF v < low THEN low ELSE IF v > high THEN high ELSE v

Moved(s, i, d) ==
  LET x0 == s[i].x0 + d
      x  == s[i].x + d
      left  == LeftEdge(s, i)
      right == RightEdge(s, i)
  IN  IF x0 < left THEN [x0 |-> left, x |-> x + left - x0]
      ELSE IF x > right THEN [x0 |-> x0 - (x - right), x |-> right]
      ELSE [x0 |-> x0, x |-> x]

\* defect: a minute is not kept between the ends
ResizedToNothing(s, i, point, d) ==
  IF point = "x"
  THEN [x0 |-> s[i].x0, x |-> Clamp(s[i].x + d, s[i].x0, RightEdge(s, i))]
  ELSE [x0 |-> Clamp(s[i].x0 + d, LeftEdge(s, i), s[i].x), x |-> s[i].x]

Resized(s, i, point, d) ==
  IF point = "x"
  THEN [x0 |-> s[i].x0, x |-> Clamp(s[i].x + d, s[i].x0 + MinGap, RightEdge(s, i))]
  ELSE [x0 |-> Clamp(s[i].x0 + d, LeftEdge(s, i), s[i].x - MinGap), x |-> s[i].x]

\* The blocks of a line follow each other inside the day
InOrder(s) ==
  \A i \in 1 .. Len(s) : LeftEdge(s, i) <= s[i].x0 /\ s[i].x0 <= s[i].x /\ s[i].x <= RightEdge(s, i)

\* A minute's room to either side for a block that is drawn out
Room(s, i) ==
  /\ LeftEdge(s, i) + MinGap <= s[i].x
  /\ s[i].x0 + MinGap <= RightEdge(s, i)

Long(b) == b.x - b.x0 >= MinGap
Tidy(s) == InOrder(s) /\ \A i \in 1 .. Len(s) : Long(s[i])

\* splice(i, 1), which removes nothing when there is no such block
Without(s, i) == IF i \in 1 .. Len(s) THEN RemoveAt(s, i) ELSE s
-----------------------------------------------------------------------------
Init ==
  /\ lines = [l \in Lines |-> <<>>]
  /\ activeLine = NoLine
  /\ activeBlob = 0
  /\ drag = Idle
  /\ pointLine = NoLine
  /\ handles = FALSE
  /\ shown = FALSE
  /\ form = NoForm
  /\ \E t \in Opening : answers = {t} /\ cramped = { l \in Lines : ~Tidy(t[l]) }

(* Mouse moves.  Near the border the drag ends, the block stays as it is. *)

\* Without a drag the pointer only chooses the line (checkClickLine)
Hover(l) ==
  /\ drag = Idle
  /\ activeLine' = l
  /\ shown' = FALSE
  /\ UNCHANGED <<lines, activeBlob, drag, pointLine, handles, form, answers, cramped>>

SetBlob(b) == lines' = [lines EXCEPT ![activeLine][activeBlob] = b]

Dragging(status) ==
  /\ drag.status = status
  /\ Exists(activeLine, activeBlob)
  /\ shown' = FALSE
  /\ UNCHANGED <<activeLine, activeBlob, form, answers, cramped>>

SetActivePoint == handles' = TRUE /\ pointLine' = activeLine

MoveBlob(d) ==
  /\ Dragging("move")
  /\ SetBlob(Moved(lines[activeLine], activeBlob, d))
  /\ SetActivePoint
  /\ drag' \in {drag, Idle}

ResizeBlob(d) ==
  /\ Dragging("resize")
  /\ SetBlob(Resized(lines[activeLine], activeBlob, drag.end, d))
  /\ SetActivePoint
  /\ drag' \in {drag, Idle}

\* The first move of a new block decides which of its ends follows the mouse
NewBlob(d) ==
  /\ Dragging("new")
  /\ LET b   == lines[activeLine][activeBlob]
         end == IF b.x # b.x0 THEN drag.end ELSE IF d > 0 THEN "x" ELSE "x0"
     IN  /\ SetBlob(Resized(lines[activeLine], activeBlob, end, d))
         /\ drag' \in {[drag EXCEPT !.end = end], Idle}
  /\ UNCHANGED <<handles, pointLine>>

\* The block dragged is gone: TypeError before anything changes
DragNothing ==
  /\ drag # Idle
  /\ ~Exists(activeLine, activeBlob)
  /\ shown' = FALSE
  /\ UNCHANGED <<lines, activeLine, activeBlob, drag, pointLine, handles, form,
                 answers, cramped>>
-----------------------------------------------------------------------------
(* Mouse button down *)

TooShort == ~Long(lines[activeLine][activeBlob])

\* The line of a block that has not been drawn out yet
Unfinished ==
  IF Drawing /\ Exists(activeLine, activeBlob) /\ TooShort THEN {activeLine} ELSE {}

Press(more) ==
  /\ shown' = TRUE
  /\ cramped' = cramped \cup Unfinished \cup more
  /\ UNCHANGED <<activeLine, answers>>

\* defect: only drawing a new block closes them
CloseDrawing(d) == form' = IF d.status = "new" THEN NoForm ELSE form

\* However it ends, a press that leaves a drag on closes both dialogs
Close(d) == form' = IF d # Idle THEN NoForm ELSE form

PressNowhere ==
  /\ Press({})
  /\ activeLine = NoLine
  /\ Close(drag)
  /\ UNCHANGED <<lines, activeBlob, drag, pointLine, handles>>

\* The copy button of the line: onShowModify
PressCopy ==
  /\ Press({})
  /\ activeLine \in Lines
  /\ form' = IF drag # Idle THEN NoForm
             ELSE IF form.kind # "none" THEN form
             ELSE [kind |-> "copy", line |-> activeLine, blob |-> 0]
  /\ UNCHANGED <<lines, activeBlob, drag, pointLine, handles>>

\* In the strip the handles are in (activePonit.clickOnPoint)
PressStrip ==
  /\ Press({})
  /\ handles /\ activeBlob # 0 /\ activeLine = pointLine
  /\ UNCHANGED <<lines, activeBlob, pointLine, handles>>

PressHandle(end) ==
  /\ PressStrip
  /\ drag' = [status |-> "resize", end |-> end]
  /\ Close(drag')

PressBetween ==
  /\ PressStrip
  /\ Exists(activeLine, activeBlob)
  /\ drag' = Moving
  /\ Close(drag')

\* The block between the handles is gone: TypeError in clickOnPoint
PressStale ==
  /\ PressStrip
  /\ ~Exists(activeLine, activeBlob)
  /\ UNCHANGED <<drag, form>>

PressBlock(p) ==
  /\ Press({})
  /\ activeLine \in Lines
  /\ LET hit == Hit(lines[activeLine], p)
     IN  /\ hit # {}
         /\ activeBlob' = CHOOSE i \in hit : \A j \in hit : i <= j
  /\ drag' = Moving
  /\ Close(drag')
  /\ SetActivePoint
  /\ UNCHANGED lines

\* A new block, of no length yet, in front of all when getOrder finds no place.
\* Which end follows is decided when it moves; before that it is what an earlier
\* drawing left.
PressGap(p) ==
  LET s     == lines[activeLine]
      order == Order(s, p)
      place == IF order = Undefined THEN 1 ELSE order + 1
      r     == InsertAt(s, place, [x0 |-> p, x |-> p])
  IN  /\ activeLine \in Lines
      /\ Hit(s, p) = {}
      /\ Len(s) < MaxBlocks
      /\ Press(IF Room(r, place) THEN {} ELSE {activeLine})
      /\ lines' = [lines EXCEPT ![activeLine] = r]
      /\ activeBlob' = order + 1
      /\ drag' \in [status : {"new"}, end : Ends]
      /\ Close(drag')
      /\ handles' = FALSE
      /\ UNCHANGED pointLine

\* Beside the lines' hours, or on a line that is full
PressAside ==
  /\ Press({})
  /\ activeLine \in Lines
  /\ activeBlob' = 0
  /\ drag' = Idle
  /\ handles' = FALSE
  /\ UNCHANGED <<lines, pointLine, form>>
-----------------------------------------------------------------------------
(* Mouse button up *)

Release == UNCHANGED <<activeLine, pointLine, handles, shown, answers, cramped>>

\* A block that was never drawn out is taken away again
ReleaseDrop ==
  /\ Release
  /\ Drawing /\ Exists(activeLine, activeBlob) /\ TooShort
  /\ lines' = [lines EXCEPT ![activeLine] = RemoveAt(@, activeBlob)]
  /\ activeBlob' = 0
  /\ drag' = Idle
  /\ UNCHANGED form

\* TypeError before drawStatus is reset
ReleaseLost ==
  /\ Release
  /\ Drawing /\ ~Exists(activeLine, activeBlob)
  /\ UNCHANGED <<lines, activeBlob, drag, form>>

\* defect: the status is reset, the end that moves is not
ReleaseHalf(inside) ==
  /\ Release
  /\ drag' = [drag EXCEPT !.status = "null"]
  /\ UNCHANGED <<lines, activeBlob, form>>

\* A click inside a block opens the form (onShow)
ReleaseKeep(inside) ==
  /\ Release
  /\ Drawing => Exists(activeLine, activeBlob) /\ ~TooShort
  /\ drag' = Idle
  /\ form' = IF inside /\ shown /\ form.kind = "none" /\ Exists(activeLine, activeBlob)
             THEN [kind |-> "edit", line |-> activeLine, blob |-> activeBlob]
             ELSE form
  /\ UNCHANGED <<lines, activeBlob>>
-----------------------------------------------------------------------------
(* Buttons *)

OnSave(start, end) ==
  /\ form.kind = "edit"
  /\ start < end
  /\ Exists(form.line, form.blob)
  /\ LeftEdge(lines[form.line], form.blob) <= start
  /\ end <= RightEdge(lines[form.line], form.blob)
  /\ lines' = [lines EXCEPT ![form.line][form.blob] = [x0 |-> start, x |-> end]]
  /\ form' = NoForm
  /\ UNCHANGED <<gesture, answers, cramped>>

OnDelete ==
  /\ form.kind = "edit"
  /\ lines' = [lines EXCEPT ![form.line] = Without(@, form.blob)]
  /\ form' = NoForm
  /\ UNCHANGED <<gesture, answers, cramped>>

\* The handles' line, the block last pressed on
OnDeleteOne ==
  /\ pointLine \in Lines /\ activeBlob # 0
  /\ lines' = [lines EXCEPT ![pointLine] = Without(@, activeBlob)]
  /\ handles' = FALSE
  /\ UNCHANGED <<activeLine, activeBlob, drag, pointLine, shown, form, answers, cramped>>

OnDeleteAll ==
  /\ lines' = [l \in Lines |-> <<>>]
  /\ activeLine' = NoLine
  /\ activeBlob' = 0
  /\ handles' = FALSE
  /\ UNCHANGED <<drag, pointLine, shown, form, answers, cramped>>

OnConfirm(chosen) ==
  /\ form.kind = "copy"
  /\ lines' = [l \in Lines |-> IF l \in chosen THEN lines[form.line] ELSE lines[l]]
  /\ form' = NoForm
  /\ cramped' = IF form.line \in cramped THEN cramped \cup chosen ELSE cramped
  /\ UNCHANGED <<gesture, answers>>

OnNo ==
  /\ form.kind # "none"
  /\ form' = NoForm
  /\ UNCHANGED <<lines, gesture, answers, cramped>>

\* The camera stores the table and sends it back, a block being drawn included
OnSelfSave ==
  /\ Cardinality(answers) < MaxAnswers
  /\ answers' = answers \cup {lines}
  /\ cramped' = cramped \cup Unfinished
  /\ UNCHANGED <<lines, gesture, form>>

\* initDrawer: the answer replaces the table, whatever is going on in it
Answer(table) ==
  /\ table \in answers
  /\ lines' = table
  /\ answers' = answers \ {table}
  /\ UNCHANGED <<gesture, form, cramped>>

AnswerFails(table) ==
  /\ table \in answers
  /\ answers' = answers \ {table}
  /\ UNCHANGED <<lines, gesture, form, cramped>>
-----------------------------------------------------------------------------
MouseMove ==
  \/ \E l \in Lines \cup {NoLine} : Hover(l)
  \/ \E d \in Deltas : MoveBlob(d) \/ ResizeBlob(d) \/ NewBlob(d)
  \/ DragNothing

MouseDown ==
  \/ PressNowhere \/ PressCopy \/ PressBetween \/ PressStale \/ PressAside
  \/ \E end \in Ends : PressHandle(end)
  \/ \E p \in Presses : PressBlock(p) \/ PressGap(p)

MouseUp ==
  \/ ReleaseDrop \/ ReleaseLost
  \/ \E inside \in BOOLEAN : ReleaseKeep(inside)

Buttons ==
  \/ \E start, end \in Times : OnSave(start, end)
  \/ OnDelete \/ OnDeleteOne \/ OnDeleteAll \/ OnNo \/ OnSelfSave
  \/ form.kind = "copy" /\ \E chosen \in SUBSET (Lines \ {form.line}) : OnConfirm(chosen)

Next ==
  \/ MouseMove \/ MouseDown \/ MouseUp \/ Buttons
  \/ \E table \in answers : Answer(table) \/ AnswerFails(table)

Spec == Init /\ [][Next]_vars
-----------------------------------------------------------------------------
(* Properties *)

TypeOK ==
  /\ lines \in [Lines -> Seq(Block)]
  /\ activeLine \in Lines \cup {NoLine}
  /\ activeBlob \in Nat
  /\ drag \in Drags
  /\ pointLine \in Lines \cup {NoLine}
  /\ handles \in BOOLEAN /\ shown \in BOOLEAN
  /\ form \in Forms
  /\ answers \subseteq [Lines -> Seq(Block)]
  /\ cramped \subseteq Lines

\* No two blocks of a day overlap and none sticks out of the day, however
\* drawing, moving, resizing, the form, the copies and the camera's answers
\* are mixed (what the form refuses as timeCanNotBeOverlapping), unless a block
\* was begun there within a minute of a neighbour or of an end of the day, or
\* was pressed again, or saved, before it was drawn out.
Disjoint == \A l \in Lines \ cramped : InOrder(lines[l])

\* Nor is a block shorter than a minute, which nobody can see, left behind on
\* such a day: it exists only between the press that made it and what comes
\* next, a move or a release, and no save or copy takes it along.
NoEmptyBlock ==
  \A l \in Lines \ cramped : \A i \in 1 .. Len(lines[l]) :
    \/ Long(lines[l][i])
    \/ Drawing /\ shown /\ l = activeLine /\ i = activeBlob

\* No block changes under an open dialog by dragging: a drag and a dialog never
\* coexist, not even a drag whose release was lost.
NoDragUnderForm == form.kind # "none" => drag = Idle
=============================================================================
