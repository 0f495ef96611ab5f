----------------------------- MODULE Osd_proof -----------------------------
(***************************************************************************)
(* What holds of the on-screen display for any number of requests, any rows  *)
(* of its table, any values and any names that occur in them: the shapes,   *)
(* and what a PUT that runs alone leaves behind.                           *)
(***************************************************************************)
EXTENDS Osd, TLAPS

USE RowsAssumption, ValueAssumption

-----------------------------------------------------------------------------
(* The shapes.                                                             *)

\* The rows of a key are rows of the table.
LEMMA RowsKnown ==
  ASSUME NEW key \in AllKeys PROVE RowsOf(key) \subseteq Rows
<1>1. key \in {"attribute", "channelNameOverlay", "characterOverlay", "dateTimeOverlay",
               "imageOverlay", "privacyMask"}
  BY DEF AllKeys, KeyOrder, Range
<1> QED
  BY <1>1 DEF RowsOf, Attributed, Channel, Dates, Texts, Masks, Images

\* The keys of a resource are keys.
LEMMA KeysKnown ==
  ASSUME NEW res \in Resources PROVE KeysOf(res) \subseteq AllKeys
<1>1. {"imageOverlay", "privacyMask"} \subseteq AllKeys
  <2>1. KeyOrder[5] = "imageOverlay" /\ KeyOrder[6] = "privacyMask" /\ {5, 6} \subseteq DOMAIN KeyOrder
    BY DEF KeyOrder
  <2> QED
    BY <2>1 DEF AllKeys, Range
<1> QED
  BY <1>1 DEF Resources, KeysOf

LEMMA UsedKnown ==
  ASSUME NEW res \in Resources PROVE RowsUsed(res) \subseteq Rows
  BY KeysKnown, RowsKnown DEF RowsUsed

LEMMA IdleType == Idle \in Request
<1>1. NoRows \in [Rows -> Row]
  BY DEF NoRows, Row, FirstRow
<1> QED
  BY <1>1 DEF Idle, Request, Resources

\* What reading one row does to the locals.
LEMMA WithRowType ==
  ASSUME TypeOK, NEW q \in Request, NEW r \in Rows
  PROVE  /\ WithRow(q, r) \in Request
         /\ WithRow(q, r).left = q.left \ {r}
         /\ WithRow(q, r).seen = [q.seen EXCEPT ![r] = db[r]]
         /\ WithRow(q, r).pc = q.pc /\ WithRow(q, r).resource = q.resource
         /\ WithRow(q, r).attr = q.attr /\ WithRow(q, r).own = q.own
         /\ WithRow(q, r).kept = q.kept /\ WithRow(q, r).todo = q.todo
         /\ WithRow(q, r).alone = q.alone
<1>1. db[r] \in Row
  BY DEF TypeOK
<1> QED
  BY <1>1 DEF WithRow, Request

-----------------------------------------------------------------------------
(* The inductive invariant.                                                *)

\* Calls are only made for keys that stayed in the body.
Edited(q) ==
  /\ q.pc \in {"set", "new"} => q.todo \subseteq Calls(q.kept)
  /\ q.pc \in {"set", "new"} => q.kept \subseteq KeysOf(q.resource)

\* Of a handler that runs alone: the rows it has written are as asked, those it has
\* read again are what the table has, those it has handed over are drawn.
Wrote(q) ==
  \A k \in q.kept : \A r \in RowsOf(k) : <<k, r>> \in q.todo \/ Asked(q, k, r) = Stored(k, r)
Leaves(q) ==
  /\ \A r \in RowsUsed(q.resource) \ q.left : q.seen[r] = db[r]
  /\ \A k \in q.kept : \A r \in RowsOf(k) \cap Drawn : <<k, r>> \in q.todo \/ live[r] = db[r]

Lone(p) ==
  req[p].alone => /\ \A s \in Requests \ {p} : req[s].pc = "idle"
                  /\ req[p].pc = "set" => Wrote(req[p])
                  /\ req[p].pc = "new" => Leaves(req[p])

IInv == TypeOK /\ \A p \in Requests : Edited(req[p]) /\ Lone(p)

LEMMA InitInv == Init => IInv
<1> SUFFICES ASSUME Init PROVE IInv
  OBVIOUS
<1>1. \A p \in Requests : req[p] = Idle
  BY DEF Init
<1>2. Idle.pc = "idle" /\ Idle.alone = FALSE
  BY DEF Idle
<1>3. TypeOK
  BY IdleType DEF Init, TypeOK, NoRows, Row, FirstRow, Drawn
<1> QED
  BY <1>1, <1>2, <1>3 DEF IInv, Edited, Lone

\* A step of one handler: the others only need to know that they were not alone.
LEMMA OneSteps ==
  ASSUME IInv, NEW p \in Requests, req[p].pc # "idle", NEW q \in Request,
         req' = [req EXCEPT ![p] = q], q.alone = req[p].alone,
         Edited(q), q.alone => Lone(p)',
         db' \in [Rows -> Row], live' \in [Drawn -> Row]
  PROVE  IInv'
<1>1. TypeOK'
  BY DEF IInv, TypeOK
<1>2. req'[p] = q /\ \A s \in Requests \ {p} : req'[s] = req[s]
  BY DEF IInv, TypeOK
<1>3. \A s \in Requests : Edited(req'[s])
  BY <1>2 DEF IInv
<1>4. Lone(p)'
  BY <1>2 DEF Lone
<1>5. ASSUME NEW s \in Requests \ {p} PROVE Lone(s)'
  <2>1. ~req[s].alone
    BY <1>5 DEF IInv, Lone
  <2> QED
    BY <1>2, <2>1 DEF Lone
<1> QED
  BY <1>1, <1>3, <1>4, <1>5 DEF IInv

-----------------------------------------------------------------------------
(* Each action keeps the invariant.                                        *)

LEMMA StepPut == ASSUME IInv, NEW p \in Requests, Put(p) PROVE IInv'
<1>a. PICK res \in Resources, a \in Values : \E o \in [RowsUsed(res) -> Values] :
        req' = [s \in Requests |->
                 IF s = p
                 THEN [Idle EXCEPT !.pc = "old", !.resource = res, !.attr = a, !.left = RowsUsed(res),
                        !.own = [r \in Rows |-> IF r \in RowsUsed(res) THEN o[r] ELSE FirstValue],
                        !.alone = AllIdle]
                 ELSE [req[s] EXCEPT !.alone = FALSE]]
  BY DEF Put
<1>1. PICK o \in [RowsUsed(res) -> Values] :
        req' = [s \in Requests |->
                 IF s = p
                 THEN [Idle EXCEPT !.pc = "old", !.resource = res, !.attr = a, !.left = RowsUsed(res),
                        !.own = [r \in Rows |-> IF r \in RowsUsed(res) THEN o[r] ELSE FirstValue],
                        !.alone = AllIdle]
                 ELSE [req[s] EXCEPT !.alone = FALSE]]
  BY <1>a
<1> DEFINE own == [r \in Rows |-> IF r \in RowsUsed(res) THEN o[r] ELSE FirstValue]
           q == [Idle EXCEPT !.pc = "old", !.resource = res, !.attr = a, !.left = RowsUsed(res),
                   !.own = own, !.alone = AllIdle]
<1>2. own \in [Rows -> Values]
  OBVIOUS
<1> HIDE DEF own
<1>3. AllIdle \in BOOLEAN
  BY DEF AllIdle
<1>4. q \in Request /\ q.pc = "old" /\ q.alone = AllIdle
  BY <1>2, <1>3, IdleType, UsedKnown DEF Idle, Request
<1>5. req'[p] = q /\ \A s \in Requests \ {p} : req'[s] = [req[s] EXCEPT !.alone = FALSE]
  BY <1>1 DEF own
<1> HIDE DEF q
<1>6. ASSUME NEW s \in Requests \ {p}
      PROVE  /\ req'[s] \in Request /\ ~req'[s].alone /\ req'[s].pc = req[s].pc
             /\ Edited(req'[s])
  <2>1. req[s] \in Request /\ Edited(req[s])
    BY DEF IInv, TypeOK
  <2>2. req'[s] = [req[s] EXCEPT !.alone = FALSE]
    BY <1>5
  <2>3. /\ req'[s] \in Request /\ req'[s].alone = FALSE
        /\ req'[s].pc = req[s].pc /\ req'[s].todo = req[s].todo /\ req'[s].kept = req[s].kept
        /\ req'[s].resource = req[s].resource /\ req'[s].attr = req[s].attr
        /\ req'[s].own = req[s].own /\ req'[s].seen = req[s].seen
    BY <2>1, <2>2 DEF Request
  <2> QED
    BY <2>1, <2>3 DEF Edited
<1>7. TypeOK'
  <2>1. req' \in [Requests -> Request]
    <3>1. \A s \in Requests : req'[s] \in Request
      BY <1>4, <1>5, <1>6
    <3> QED
      BY <1>1, <3>1
  <2> QED
    BY <2>1 DEF Put, IInv, TypeOK
<1>8. Edited(q)
  BY <1>4 DEF Edited
<1>9. ASSUME NEW s \in Requests PROVE Lone(s)'
  <2>1. CASE s # p
    BY <1>6, <2>1 DEF Lone
  <2>2. CASE s = p
    <3>1. q.alone => \A x \in Requests \ {p} : req'[x].pc = "idle"
      BY <1>4, <1>6 DEF AllIdle
    <3> QED
      BY <1>4, <1>5, <2>2, <3>1 DEF Lone
  <2> QED
    BY <2>1, <2>2
<1> QED
  BY <1>5, <1>6, <1>7, <1>8, <1>9 DEF IInv

LEMMA StepReadRow == ASSUME IInv, NEW p \in Requests, ReadRow(p) PROVE IInv'
<1>1. PICK r \in req[p].left : /\ req[p].pc \in {"old", "new"}
                               /\ req' = [req EXCEPT ![p] = WithRow(req[p], r)]
  BY DEF ReadRow, NextRows, Go
<1> DEFINE q == WithRow(req[p], r)
<1>2. req[p] \in Request /\ r \in Rows /\ TypeOK /\ Edited(req[p]) /\ Lone(p)
  BY <1>1 DEF IInv, TypeOK, Request
<1>3. /\ q \in Request /\ q.left = req[p].left \ {r}
      /\ q.seen = [req[p].seen EXCEPT ![r] = db[r]]
      /\ q.pc = req[p].pc /\ q.resource = req[p].resource /\ q.attr = req[p].attr
      /\ q.own = req[p].own /\ q.kept = req[p].kept /\ q.todo = req[p].todo
      /\ q.alone = req[p].alone
  BY <1>2, WithRowType
<1>4. req' = [req EXCEPT ![p] = q] /\ UNCHANGED <<db, live>>
  BY <1>1 DEF ReadRow
<1> HIDE DEF q
<1>5. req'[p] = q /\ \A s \in Requests \ {p} : req'[s] = req[s]
  BY <1>4 DEF IInv, TypeOK
<1>6. Edited(q)
  BY <1>1, <1>2, <1>3 DEF Edited
<1>7. q.alone => Lone(p)'
  <2> SUFFICES ASSUME q.alone PROVE Lone(p)'
    OBVIOUS
  <2>1. q.pc = "new" => Leaves(req[p])
    BY <1>2, <1>3 DEF Lone
  <2>2. \A x \in Rows : q.seen[x] = IF x = r THEN db[r] ELSE req[p].seen[x]
    BY <1>2, <1>3 DEF Request
  <2>3. RowsUsed(q.resource) \subseteq Rows
    BY <1>3, UsedKnown DEF Request
  <2>4. q.pc = "new" => Leaves(q)
    <3> SUFFICES ASSUME q.pc = "new" PROVE Leaves(q)
      OBVIOUS
    <3>1. \A x \in RowsUsed(q.resource) \ q.left : q.seen[x] = db[x]
      BY <1>3, <2>1, <2>2, <2>3 DEF Leaves
    <3>2. \A k \in q.kept : \A x \in RowsOf(k) \cap Drawn : <<k, x>> \in q.todo \/ live[x] = db[x]
      BY <1>3, <2>1 DEF Leaves
    <3> QED
      BY <3>1, <3>2 DEF Leaves
  <2>5. q.pc = "new" => Leaves(req[p])'
    BY <1>4, <1>5, <2>4 DEF Leaves
  <2> QED
    BY <1>1, <1>2, <1>3, <1>5, <2>5 DEF Lone
<1> QED
  BY <1>1, <1>2, <1>3, <1>4, <1>6, <1>7, OneSteps DEF TypeOK

\* Other than the attribute, no two keys of a resource have a row in common, so
\* what is blanked for the erased keys is not what a kept key asks for.
LEMMA RowsApart ==
  ASSUME NEW k \in AllKeys \ {"attribute"}, NEW m \in AllKeys \ {"attribute"}, k # m
  PROVE  RowsOf(k) \cap RowsOf(m) = {}
<1>1. \A x \in AllKeys : x \in {"attribute", "channelNameOverlay", "characterOverlay",
                               "dateTimeOverlay", "imageOverlay", "privacyMask"}
  BY DEF AllKeys, KeyOrder, Range
<1> QED
  BY <1>1 DEF RowsOf, Channel, Dates, Texts, Masks, Images

LEMMA StepCompare == ASSUME IInv, NEW p \in Requests, Compare(p) PROVE IInv'
<1>1. PICK r \in Rows : req[p].left = {r} /\
        LET q == WithRow(req[p], r)
            keys == Changed(q)
            erased == KeysOf(q.resource) \ keys
        IN Go(p, [q EXCEPT !.pc = "set", !.kept = keys, !.todo = Calls(keys),
                      !.attr = IF "attribute" \in erased THEN FirstValue ELSE @,
                      !.own = [s \in Rows |->
                        IF \E k \in erased \ {"attribute"} : s \in RowsOf(k)
                        THEN FirstValue ELSE q.own[s]]])
  BY DEF Compare
<1> DEFINE old == WithRow(req[p], r)
           keys == Changed(old)
           erased == KeysOf(old.resource) \ keys
           attr == IF "attribute" \in erased THEN FirstValue ELSE old.attr
           own == [s \in Rows |-> IF \E k \in erased \ {"attribute"} : s \in RowsOf(k)
                                  THEN FirstValue ELSE old.own[s]]
           q == [old EXCEPT !.pc = "set", !.kept = keys, !.todo = Calls(keys),
                            !.attr = attr, !.own = own]
<1>2. req[p] \in Request /\ TypeOK /\ Lone(p) /\ req[p].pc = "old" /\ UNCHANGED <<db, live>>
  BY DEF IInv, TypeOK, Compare
<1>3. old \in Request /\ old.alone = req[p].alone
  BY <1>2, WithRowType
<1>4. req' = [req EXCEPT ![p] = q]
  BY <1>1 DEF Go
<1> HIDE DEF old
<1>5. keys \subseteq KeysOf(old.resource) /\ KeysOf(old.resource) \subseteq AllKeys
  BY <1>3, KeysKnown DEF Changed, Request
<1>6. attr \in Values /\ own \in [Rows -> Values]
  BY <1>3 DEF Request
<1>7. Calls(keys) \subseteq Call
  BY DEF Calls
<1>9. "attribute" \in keys => attr = old.attr
  OBVIOUS
<1>10. ASSUME NEW k \in keys, k # "attribute", NEW s \in RowsOf(k) PROVE own[s] = old.own[s]
  <2>1. s \in Rows
    BY <1>5, <1>10, RowsKnown
  <2>2. ~\E m \in erased \ {"attribute"} : s \in RowsOf(m)
    BY <1>5, <1>10, RowsApart
  <2> QED
    BY <2>1, <2>2
<1> HIDE DEF keys, attr, own
<1>11. /\ q \in Request /\ q.pc = "set" /\ q.kept = keys /\ q.todo = Calls(keys)
       /\ q.attr = attr /\ q.own = own /\ q.alone = old.alone /\ q.resource = old.resource
       /\ q.seen = old.seen
  BY <1>3, <1>5, <1>6, <1>7 DEF Request
<1> HIDE DEF q
<1>12. Edited(q)
  BY <1>5, <1>11 DEF Edited
<1>13. req'[p] = q /\ \A s \in Requests \ {p} : req'[s] = req[s]
  BY <1>2, <1>4 DEF TypeOK
<1>14. Wrote(req[p])'
  <2> SUFFICES ASSUME NEW k \in keys, NEW s \in RowsOf(k) PROVE <<k, s>> \in Calls(keys)
    BY <1>11, <1>13 DEF Wrote
  <2>1. k \in AllKeys /\ s \in Rows
    BY <1>5, RowsKnown
  <2> QED
    BY <2>1 DEF Calls, Call
<1>15. q.alone => Lone(p)'
  BY <1>2, <1>3, <1>11, <1>13, <1>14 DEF Lone
<1> QED
  BY <1>2, <1>3, <1>4, <1>11, <1>12, <1>15, OneSteps DEF TypeOK

\* One call less to make.
LEMMA CallMade ==
  ASSUME NEW q \in Request, NEW c \in q.todo
  PROVE  LET n == [q EXCEPT !.todo = @ \ {c}] IN
         /\ n \in Request /\ n.todo = q.todo \ {c} /\ n.pc = q.pc /\ n.resource = q.resource
         /\ n.attr = q.attr /\ n.own = q.own /\ n.left = q.left /\ n.seen = q.seen
         /\ n.kept = q.kept /\ n.alone = q.alone
  BY DEF Request

LEMMA StepSetRow == ASSUME IInv, NEW p \in Requests, SetRow(p) PROVE IInv'
<1>1. PICK c \in req[p].todo :
        /\ db' = IF c[1] = "attribute"
                 THEN [db EXCEPT ![c[2]].attr = req[p].attr]
                 ELSE [db EXCEPT ![c[2]].own = req[p].own[c[2]]]
        /\ req' = [req EXCEPT ![p] = [req[p] EXCEPT !.todo = @ \ {c}]]
  BY DEF SetRow, NextCalls, Go
<1> DEFINE q == [req[p] EXCEPT !.todo = @ \ {c}]
<1>2. /\ req[p] \in Request /\ TypeOK /\ Edited(req[p]) /\ Lone(p) /\ req[p].pc = "set"
      /\ UNCHANGED live
  BY DEF IInv, TypeOK, SetRow
<1>3. /\ q \in Request /\ q.todo = req[p].todo \ {c} /\ q.pc = req[p].pc
      /\ q.resource = req[p].resource /\ q.attr = req[p].attr /\ q.own = req[p].own
      /\ q.left = req[p].left /\ q.seen = req[p].seen /\ q.kept = req[p].kept
      /\ q.alone = req[p].alone
  BY <1>2, CallMade
<1>4. req' = [req EXCEPT ![p] = q]
  BY <1>1
<1> HIDE DEF q
<1>5. c[1] \in AllKeys /\ c[2] \in Rows /\ c = <<c[1], c[2]>>
  BY <1>2 DEF Request, Call
<1>6. /\ db \in [Rows -> Row] /\ req[p].attr \in Values /\ req[p].own[c[2]] \in Values
      /\ \A x \in Rows : db[x] = [attr |-> db[x].attr, own |-> db[x].own]
                          /\ db[x].attr \in Values /\ db[x].own \in Values
  BY <1>2, <1>5 DEF TypeOK, Request, Row
<1>7. /\ db' \in [Rows -> Row]
      /\ \A x \in Rows : /\ db'[x].attr = IF x = c[2] /\ c[1] = "attribute" THEN req[p].attr ELSE db[x].attr
                         /\ db'[x].own = IF x = c[2] /\ c[1] # "attribute" THEN req[p].own[x] ELSE db[x].own
  <2>1. CASE c[1] = "attribute"
    <3>1. db' = [db EXCEPT ![c[2]].attr = req[p].attr]
      BY <1>1, <2>1
    <3>2. /\ \A x \in Rows \ {c[2]} : db'[x] = db[x]
          /\ db'[c[2]] = [db[c[2]] EXCEPT !.attr = req[p].attr]
      BY <1>5, <1>6, <3>1
    <3>3. db'[c[2]] \in Row /\ db'[c[2]].attr = req[p].attr /\ db'[c[2]].own = db[c[2]].own
      BY <1>5, <1>6, <3>2 DEF Row
    <3>4. db' \in [Rows -> Row]
      BY <1>6, <3>1, <3>2, <3>3
    <3> QED
      BY <2>1, <3>2, <3>3, <3>4
  <2>2. CASE c[1] # "attribute"
    <3>1. db' = [db EXCEPT ![c[2]].own = req[p].own[c[2]]]
      BY <1>1, <2>2
    <3>2. /\ \A x \in Rows \ {c[2]} : db'[x] = db[x]
          /\ db'[c[2]] = [db[c[2]] EXCEPT !.own = req[p].own[c[2]]]
      BY <1>5, <1>6, <3>1
    <3>3. db'[c[2]] \in Row /\ db'[c[2]].own = req[p].own[c[2]] /\ db'[c[2]].attr = db[c[2]].attr
      BY <1>5, <1>6, <3>2 DEF Row
    <3>4. db' \in [Rows -> Row]
      BY <1>6, <3>1, <3>2, <3>3
    <3> QED
      BY <2>2, <3>2, <3>3, <3>4
  <2> QED
    BY <2>1, <2>2
<1>8. req'[p] = q /\ \A s \in Requests \ {p} : req'[s] = req[s]
  BY <1>2, <1>4 DEF TypeOK
<1>9. Edited(q)
  BY <1>2, <1>3 DEF Edited
<1>10. q.alone => Wrote(req[p])'
  <2> SUFFICES ASSUME q.alone, NEW k \in q.kept, NEW x \in RowsOf(k), <<k, x>> \notin q.todo
               PROVE  Asked(q, k, x) = Stored(k, x)'
    BY <1>8 DEF Wrote
  <2>1. x \in Rows
    BY <1>2, <1>3, RowsKnown DEF Request
  <2>2. CASE <<k, x>> = c
    BY <1>3, <1>7, <2>1, <2>2 DEF Asked, Stored
  <2>3. CASE <<k, x>> # c
    <3>1. Asked(q, k, x) = Stored(k, x)
      BY <1>2, <1>3, <2>3 DEF Lone, Wrote, Asked
    <3> QED
      BY <1>3, <1>7, <2>1, <3>1 DEF Asked, Stored
  <2> QED
    BY <2>2, <2>3
<1>11. q.alone => Lone(p)'
  BY <1>2, <1>3, <1>8, <1>10 DEF Lone
<1> QED
  BY <1>2, <1>3, <1>4, <1>7, <1>9, <1>11, OneSteps DEF TypeOK

LEMMA StepReread == ASSUME IInv, NEW p \in Requests, Reread(p) PROVE IInv'
<1> DEFINE q == [req[p] EXCEPT !.pc = "new", !.left = RowsUsed(req[p].resource),
                               !.seen = NoRows, !.todo = Calls(req[p].kept),
                               !.attr = FirstValue, !.own = Idle.own]
<1>1. PICK r \in RowsUsed(req[p].resource) : req' = [req EXCEPT ![p] = WithRow(q, r)]
  BY DEF Reread, NextRows, Go
<1> DEFINE n == WithRow(q, r)
<1>2. /\ req[p] \in Request /\ TypeOK /\ Edited(req[p]) /\ Lone(p) /\ req[p].pc = "set"
      /\ req[p].todo = {} /\ UNCHANGED <<db, live>>
  BY DEF IInv, TypeOK, Reread
<1>3. /\ RowsUsed(req[p].resource) \subseteq Rows /\ NoRows \in [Rows -> Row]
      /\ Calls(req[p].kept) \subseteq Call /\ Idle.own \in [Rows -> Values]
  BY <1>2, UsedKnown DEF Request, NoRows, Row, FirstRow, Calls, Idle
<1>4. /\ q \in Request /\ q.pc = "new" /\ q.left = RowsUsed(req[p].resource) /\ q.seen = NoRows
      /\ q.todo = Calls(req[p].kept) /\ q.kept = req[p].kept /\ q.resource = req[p].resource
      /\ q.alone = req[p].alone
  BY <1>2, <1>3 DEF Request
<1> HIDE DEF q
<1>5. r \in Rows
  BY <1>3
<1>6. /\ n \in Request /\ n.left = q.left \ {r} /\ n.seen = [q.seen EXCEPT ![r] = db[r]]
      /\ n.pc = q.pc /\ n.resource = q.resource
      /\ n.kept = q.kept /\ n.todo = q.todo /\ n.alone = q.alone
  BY <1>2, <1>4, <1>5, WithRowType
<1>7. req' = [req EXCEPT ![p] = n]
  BY <1>1
<1> HIDE DEF n
<1>8. req'[p] = n /\ \A s \in Requests \ {p} : req'[s] = req[s]
  BY <1>2, <1>7 DEF TypeOK
<1>9. Edited(n)
  BY <1>2, <1>4, <1>6 DEF Edited
<1>10. n.alone => Leaves(req[p])'
  <2> SUFFICES ASSUME n.alone PROVE Leaves(req[p])'
    OBVIOUS
  <2>1. ASSUME NEW k \in n.kept, NEW x \in RowsOf(k) PROVE <<k, x>> \in n.todo
    <3>1. k \in AllKeys /\ x \in Rows
      BY <1>6, RowsKnown DEF Request
    <3> QED
      BY <1>4, <1>6, <3>1 DEF Calls, Call
  <2>2. \A x \in RowsUsed(n.resource) \ n.left : n.seen[x] = db[x]
    BY <1>3, <1>4, <1>6
  <2> QED
    BY <1>2, <1>8, <2>1, <2>2 DEF Leaves
<1>11. n.alone => Lone(p)'
  BY <1>2, <1>4, <1>6, <1>8, <1>10 DEF Lone
<1> QED
  BY <1>2, <1>4, <1>6, <1>7, <1>9, <1>11, OneSteps DEF TypeOK

LEMMA StepHandOver == ASSUME IInv, NEW p \in Requests, HandOver(p) PROVE IInv'
<1>1. PICK c \in req[p].todo :
        /\ live' = IF c[2] \in Drawn THEN [live EXCEPT ![c[2]] = req[p].seen[c[2]]] ELSE live
        /\ req' = [req EXCEPT ![p] = [req[p] EXCEPT !.todo = @ \ {c}]]
  BY DEF HandOver, NextCalls, Go
<1> DEFINE q == [req[p] EXCEPT !.todo = @ \ {c}]
<1>2. /\ req[p] \in Request /\ TypeOK /\ Edited(req[p]) /\ Lone(p)
      /\ req[p].pc = "new" /\ req[p].left = {} /\ UNCHANGED db
  BY DEF IInv, TypeOK, HandOver
<1>3. /\ q \in Request /\ q.todo = req[p].todo \ {c} /\ q.pc = req[p].pc
      /\ q.resource = req[p].resource /\ q.attr = req[p].attr /\ q.own = req[p].own
      /\ q.left = req[p].left /\ q.seen = req[p].seen /\ q.kept = req[p].kept
      /\ q.alone = req[p].alone
  BY <1>2, CallMade
<1>4. req' = [req EXCEPT ![p] = q]
  BY <1>1
<1> HIDE DEF q
<1>5. c[2] \in Rows /\ c = <<c[1], c[2]>> /\ c[1] \in req[p].kept /\ c[2] \in RowsOf(c[1])
  BY <1>2 DEF Request, Call, Edited, Calls
<1>6. c[2] \in RowsUsed(req[p].resource)
  BY <1>2, <1>5 DEF Edited, RowsUsed
<1>7. /\ live' \in [Drawn -> Row]
      /\ \A x \in Drawn : live'[x] = IF x = c[2] THEN req[p].seen[x] ELSE live[x]
  BY <1>1, <1>2, <1>5 DEF TypeOK, Request
<1>8. req'[p] = q /\ \A s \in Requests \ {p} : req'[s] = req[s]
  BY <1>2, <1>4 DEF TypeOK
<1>9. Edited(q)
  BY <1>2, <1>3 DEF Edited
<1>10. q.alone => Leaves(req[p])'
  <2> SUFFICES ASSUME q.alone PROVE Leaves(req[p])'
    OBVIOUS
  <2>1. Leaves(req[p])
    BY <1>2, <1>3 DEF Lone
  <2>2. req[p].seen[c[2]] = db[c[2]]
    BY <1>2, <1>6, <2>1 DEF Leaves
  <2>3. ASSUME NEW k \in q.kept, NEW x \in RowsOf(k) \cap Drawn, <<k, x>> \notin q.todo
        PROVE  live'[x] = db[x]
    <3>1. CASE x = c[2]
      BY <1>7, <2>2, <3>1
    <3>2. CASE x # c[2]
      BY <1>3, <1>5, <1>7, <2>1, <2>3, <3>2 DEF Leaves
    <3> QED
      BY <3>1, <3>2
  <2> QED
    BY <1>2, <1>3, <1>8, <2>1, <2>3 DEF Leaves
<1>11. q.alone => Lone(p)'
  BY <1>2, <1>3, <1>8, <1>10 DEF Lone
<1> QED
  BY <1>2, <1>3, <1>4, <1>7, <1>9, <1>11, OneSteps DEF TypeOK

LEMMA StepAnswer == ASSUME IInv, NEW p \in Requests, Answer(p) PROVE IInv'
<1>1. req' = [req EXCEPT ![p] = Idle] /\ UNCHANGED <<db, live>> /\ TypeOK
  BY DEF Answer, Go, IInv
<1>2. Idle.pc = "idle" /\ Idle.alone = FALSE /\ Idle \in Request
  BY IdleType DEF Idle
<1>3. req'[p] = Idle /\ \A s \in Requests \ {p} : req'[s] = req[s]
  BY <1>1 DEF TypeOK
<1>4. TypeOK'
  BY <1>1, <1>2 DEF TypeOK
<1>5. ASSUME NEW s \in Requests PROVE Edited(req'[s]) /\ Lone(s)'
  <2>1. CASE s = p
    BY <1>2, <1>3, <2>1 DEF Edited, Lone
  <2>2. CASE s # p
    <3>1. Edited(req[s]) /\ ~req[s].alone
      BY <2>2 DEF IInv, Lone, Answer
    <3> QED
      BY <1>3, <2>2, <3>1 DEF Lone
  <2> QED
    BY <2>1, <2>2
<1> QED
  BY <1>4, <1>5 DEF IInv

LEMMA InvStep == IInv /\ [Next]_vars => IInv'
<1> SUFFICES ASSUME IInv, [Next]_vars PROVE IInv'
  OBVIOUS
<1>1. CASE Next
  BY <1>1, StepPut, StepReadRow, StepCompare, StepSetRow, StepReread, StepHandOver, StepAnswer
     DEF Next, Handler
<1>2. CASE UNCHANGED vars
  BY <1>2 DEF vars, IInv, TypeOK, Lone, Wrote, Leaves, Stored
<1> QED
  BY <1>1, <1>2

\* Every reachable state of table, overlay and handlers satisfies the invariant.
THEOREM Invariance == Spec => []IInv
  BY InitInv, InvStep, PTL DEF Spec

-----------------------------------------------------------------------------
(* The properties.                                                         *)

\* Table, overlay and the locals of every handler keep their shapes, for any rows,
\* values and number of requests.
THEOREM TypeCorrect == Spec => []TypeOK
<1>1. IInv => TypeOK
  BY DEF IInv
<1> QED
  BY <1>1, Invariance, PTL

\* Whatever mixture of attributes and stale pictures races have left, one PUT that
\* runs alone and keeps a key, not erasing it as unchanged, repairs all of the key's
\* rows, in the table and on the picture (osd_api.cpp:350).
THEOREM LoneWins == Spec => LoneRequestWins
<1> DEFINE Repairs ==
      \A p \in Requests : req[p].alone =>
        \A k \in req[p].kept : \A r \in RowsOf(k) :
          /\ Reread(p) => Asked(req[p], k, r) = Stored(k, r)
          /\ Answer(p) /\ r \in Drawn => live[r] = db[r]
<1>1. IInv => Repairs
  BY DEF IInv, Lone, Wrote, Leaves, Reread, Answer
<1>2. IInv /\ [Next]_vars => [Repairs]_vars
  BY <1>1
<1> HIDE DEF Repairs
<1>3. Spec => [][Repairs]_vars
  BY <1>2, Invariance, PTL DEF Spec
<1> QED
  BY <1>3 DEF Repairs, LoneRequestWins
=============================================================================
