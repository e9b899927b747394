----------------------------- MODULE Tracker_proofs -----------------------------
(***************************************************************************)
(* Proofs about module Tracker: for any members, goroutines, incidents and *)
(* bounds, positions stay in their incident, memory and rows agree unless  *)
(* an outdated write came between, an arrival on record was judged for the *)
(* member's area, and a member answered by a tracker that held his record  *)
(* does not stay NOTIFIED.                                                 *)
(***************************************************************************)
EXTENDS Tracker, TLAPS

USE SMTT(60)

Writings == {"sync_copy", "sync_write", "login_write", "deny_write"}
Loadings == {"load_active", "load_rows", "load_swap"}
Opened(i) == status[i] # "none"
Home(i, p) == p \in Reports => p[1] = i

(* Rows, the table in use, and the batch writer's catch.                   *)
RowOK(i, m) == row[i][m] \in Row /\ Home(i, row[i][m].pos)
RowsOK(i) == IF Opened(i) THEN \A m \in Members : RowOK(i, m) ELSE row[i] = NoTable
OneActive == \A i, j \in Incidents : Active(i) /\ Active(j) => i = j
RecOK(m) == Rec(m) \in Live /\ Home(tracked, Rec(m).pos)
TableOK ==
  IF tracked = Nil THEN heap[cur] = NoTable ELSE Opened(tracked) /\ \A m \in Members : RecOK(m)
FlushOK ==
  flush # NoFlush => /\ flush.inc \in Incidents /\ Opened(flush.inc)
                     /\ \A m \in Members : Home(flush.inc, flush.pos[m])

(* A request that holds a record knows the incident it was taken in, and   *)
(* what it has copied has left NOTIFIED behind.                            *)
HoldsOK(r) ==
  /\ r.m \in Members /\ r.inc \in Incidents /\ Opened(r.inc)
  /\ r.gen =< cur /\ (r.gen = cur => r.inc = tracked)
CopyOK(l, i) == l \in Live /\ l.state # "NOTIFIED" /\ Home(i, l.pos)
ReadOK(r) ==
  r.inc # Nil =>
    /\ r.inc \in Incidents /\ Opened(r.inc)
    /\ \A m \in Members :
         /\ r.rows[m] \in Row /\ Home(r.inc, r.rows[m].pos)
         /\ r.rows[m].state # "NOTIFIED" => row[r.inc][m].state # "NOTIFIED"
WorkOK(w) ==
  LET r == work[w] IN
  /\ r.pc \in Writings \cup {"sync_clear"} => HoldsOK(r)
  /\ r.pc = "sync_copy" => CopyOK(heap[r.gen][r.m], r.inc)
  /\ r.pc \in {"sync_write", "login_write", "deny_write"} => CopyOK(r.snap, r.inc)
  /\ r.pc \in {"sync_write", "sync_clear"} => heap[r.gen][r.m] \in Live
  /\ r.pc = "sync_clear" => row[r.inc][r.m].state # "NOTIFIED"
  /\ r.pc \in {"login", "ack_write"} => r.m \in Members
  /\ r.pc = "login" => r.inc \in Incidents
  /\ r.pc = "ack_write" => r.mv \in 1 .. MaxVer
  /\ r.pc = "load_active" => r.inc = Nil
  /\ r.pc = "load_rows" => r.inc \in Incidents /\ Opened(r.inc)
  /\ r.pc = "load_swap" => ReadOK(r)

(* MemoryMatchesRows and ArrivedHere, of one member.                       *)
Current == IF tracked = Nil THEN \A i \in Incidents : ~Active(i) ELSE Active(tracked)
AgreeOK(m) ==
  \/ m \in raced \/ Reloading
  \/ /\ Current
     /\ tracked # Nil => /\ Rec(m).area = row[tracked][m].area
                         /\ Rec(m).ver = row[tracked][m].ver
                         /\ Rec(m).state = row[tracked][m].state \/ Writing(m)
ArrivalOK(m) ==
  \A i \in Incidents :
    m \notin raced /\ Active(i) /\ row[i][m].state \in Judged => row[i][m].judged = row[i][m].area

(* ContactLogsIn, of one member and incident: it concerns also one who is  *)
(* past NOTIFIED in memory and would be answered at once, and the write    *)
(* still to come is one for this incident.                                 *)
WillLogIn(i, m) ==
  \E w \in Workers : work[w].pc \in Writings /\ work[w].m = m /\ work[w].inc = i
Answerable(i, m) == <<i, m>> \in contacted \/ (i = tracked /\ Rec(m).state # "NOTIFIED")
ContactOK(i, m) ==
  /\ <<i, m>> \in contacted => Opened(i)
  /\ Active(i) /\ ~setting.fail /\ Answerable(i, m)
       => row[i][m].state # "NOTIFIED" \/ WillLogIn(i, m)

(* The inductive invariant.                                                *)
IInv ==
  /\ TypeOK /\ OneActive /\ TableOK /\ FlushOK
  /\ \A i \in Incidents : RowsOK(i)
  /\ \A w \in Workers : WorkOK(w)
  /\ \A m \in Members : AgreeOK(m) /\ ArrivalOK(m)
  /\ \A i \in Incidents, m \in Members : ContactOK(i, m)

-----------------------------------------------------------------------------
(***************************************************************************)
(* The operators of the model                                              *)
(***************************************************************************)
(* ActiveInc is the one active incident.                                   *)
LEMMA ActiveIncIs ==
  ASSUME OneActive
  PROVE  /\ \A i \in Incidents : Active(i) <=> ActiveInc = i
         /\ ActiveInc \in Incidents \cup {Nil}
         /\ ActiveInc = Nil <=> \A i \in Incidents : ~Active(i)
  <1>1. CASE \E i \in Incidents : Active(i)
    <2>1. ActiveInc = CHOOSE i \in Incidents : Active(i)
      BY <1>1 DEF ActiveInc
    <2>2. PICK i \in Incidents : i = ActiveInc /\ Active(i)
      BY <1>1, <2>1
    <2>3. i # Nil
      BY TrackerAssumption
    <2>4. QED
      BY <2>2, <2>3 DEF OneActive
  <1>2. CASE ~ \E i \in Incidents : Active(i)
    <2>1. ActiveInc = Nil
      BY <1>2 DEF ActiveInc
    <2>2. QED
      BY <1>2, <2>1, TrackerAssumption
  <1>3. QED
    BY <1>1, <1>2

LEMMA CurrentIs ==
  ASSUME OneActive, tracked \in Incidents \cup {Nil}
  PROVE  Current <=> tracked = ActiveInc
  BY ActiveIncIs, TrackerAssumption DEF Current

(* No record, row or incident is Nil, and a row has its columns.           *)
LEMMA NotNil ==
  /\ Nil \notin Live /\ Nil \notin Row /\ Nil \notin Rows /\ Nil \notin Members
  /\ Nil \notin Incidents /\ Nil \notin Reports /\ Origin \notin Reports /\ Nil # Origin
  /\ \A m \in Members : NoTable[m] = Nil
  BY TrackerAssumption DEF NoTable

LEMMA PutStateFields ==
  ASSUME NEW r \in Row, NEW s \in Live
  PROVE  LET p == PutState(r, s) IN
         /\ p \in Row /\ p.state = s.state /\ p.pos = r.pos /\ p.ack = r.ack
         /\ p.area = r.area /\ p.ver = r.ver
         /\ p.judged = IF s.state \in Judged THEN s.area ELSE Nil
  <1> DEFINE judged == IF s.state \in Judged THEN s.area ELSE Nil
             p == [r EXCEPT !.state = s.state, !.judged = judged]
  <1>1. s.state \in States /\ judged \in Areas \cup {Nil}
    BY DEF Live
  <1> HIDE DEF judged
  <1>2. p \in Row
    BY <1>1, ZenonT(60) DEF Row
  <1>3. /\ p.state = s.state /\ p.pos = r.pos /\ p.ack = r.ack
        /\ p.area = r.area /\ p.ver = r.ver /\ p.judged = judged
    BY DEF Row
  <1>4. QED
    BY <1>2, <1>3 DEF PutState, judged

(* What a request's step makes of its record.                              *)
LEMMA HoldingFields ==
  ASSUME TypeOK, NEW pc \in PCs, NEW m \in Members, NEW snap \in Live \cup {Nil}
  PROVE  LET r == Holding(pc, m, snap) IN
         /\ r \in Request /\ r.pc = pc /\ r.m = m /\ r.gen = cur /\ r.inc = tracked /\ r.snap = snap
  <1> DEFINE r == [Idle EXCEPT !.pc = pc, !.m = m, !.gen = cur, !.inc = tracked, !.snap = snap]
  <1>1. cur \in 0 .. MaxLoads /\ tracked \in Incidents \cup {Nil} /\ 0 \in 0 .. MaxLoads /\ 0 \in 0 .. MaxVer
    BY TrackerAssumption DEF TypeOK
  <1>2. Idle \in Request
    BY <1>1 DEF Idle, Request, PCs
  <1>3. r \in Request
    BY <1>1, <1>2, ZenonT(60) DEF Request
  <1>4. r.pc = pc /\ r.m = m /\ r.gen = cur /\ r.inc = tracked /\ r.snap = snap
    BY DEF Idle
  <1>5. QED
    BY <1>3, <1>4 DEF Holding

LEMMA IdleFields ==
  /\ Idle \in Request /\ Idle.pc = "idle"
  /\ Idle.m = Nil /\ Idle.inc = Nil /\ Idle.gen = 0
  BY TrackerAssumption DEF Idle, Request, PCs

LEMMA GotoTypes ==
  ASSUME TypeOK, NEW w \in Workers, NEW r \in Request, Goto(w, r)
  PROVE  /\ work' \in [Workers -> Request] /\ work'[w] = r
         /\ \A v \in Workers \ {w} : work'[v] = work[v]
  BY DEF TypeOK, Goto

(* A worker that is idle has nothing to keep.                              *)
LEMMA IdleOK ==
  ASSUME NEW w \in Workers, work'[w] = Idle
  PROVE  WorkOK(w)'
  BY IdleFields DEF WorkOK, Writings

(* A table's record is in type.                                            *)
LEMMA RecTypes ==
  ASSUME TypeOK, NEW g \in 0 .. MaxLoads, NEW m \in Members
  PROVE  heap[g][m] \in Live \cup {Nil}
  BY DEF TypeOK, Tables

(* Whoever is on record in memory is so in an incident that was opened.    *)
LEMMA RecKnown ==
  ASSUME TypeOK, TableOK, NEW m \in Members, Rec(m) # Nil
  PROVE  tracked \in Incidents /\ Opened(tracked) /\ RecOK(m) /\ cur \in 0 .. MaxLoads
  BY NotNil DEF TypeOK, TableOK, Rec

-----------------------------------------------------------------------------
(***************************************************************************)
(* What a step leaves alone                                                *)
(***************************************************************************)
(* Incidents stay opened and nobody goes back to NOTIFIED on record; a     *)
(* table held keeps its records, and those in use stay in their incident.  *)
Forward ==
  /\ \A i \in Incidents : Opened(i) => Opened(i)'
  /\ \A i \in Incidents, m \in Members :
       Opened(i) /\ row[i][m].state # "NOTIFIED" => row'[i][m].state # "NOTIFIED"
RecForward(g, m) ==
  heap[g][m] \in Live =>
    /\ heap'[g][m] \in Live
    /\ heap[g][m].state # "NOTIFIED" => heap'[g][m].state # "NOTIFIED"
    /\ heap'[g][m].pos = heap[g][m].pos \/ (g = cur /\ Home(tracked, heap'[g][m].pos))
Calm ==
  /\ Forward /\ cur' = cur /\ tracked' = tracked
  /\ \A g \in 0 .. MaxLoads, m \in Members : RecForward(g, m)

LEMMA OtherWorks ==
  ASSUME TypeOK, Calm, NEW w \in Workers, work'[w] = work[w], WorkOK(w)
  PROVE  WorkOK(w)'
  <1> DEFINE r == work[w]
  <1>1. r \in Request /\ r.gen \in 0 .. MaxLoads
    BY DEF TypeOK, Request
  <1>2. HoldsOK(r) => /\ r.m \in Members /\ r.inc \in Incidents /\ Opened(r.inc)' /\ RecForward(r.gen, r.m)
                      /\ r.gen =< cur' /\ (r.gen = cur' => r.inc = tracked')
    BY <1>1 DEF HoldsOK, Calm, Forward
  <1>3. ASSUME r.pc = "sync_copy" PROVE CopyOK(heap'[r.gen][r.m], r.inc)
    <2>1. HoldsOK(r) /\ CopyOK(heap[r.gen][r.m], r.inc) /\ RecForward(r.gen, r.m)
      BY <1>2, <1>3 DEF WorkOK, Writings
    <2>2. heap'[r.gen][r.m] \in Live /\ heap'[r.gen][r.m].state # "NOTIFIED"
      BY <2>1, ZenonT(60) DEF CopyOK, RecForward
    <2>3. Home(r.inc, heap'[r.gen][r.m].pos)
      BY <2>1, ZenonT(60) DEF CopyOK, RecForward, HoldsOK
    <2>4. QED
      BY <2>2, <2>3, ZenonT(60) DEF CopyOK
  <1>4. ASSUME r.pc \in {"sync_write", "sync_clear"}
        PROVE  /\ heap'[r.gen][r.m] \in Live
               /\ r.pc = "sync_clear" => row'[r.inc][r.m].state # "NOTIFIED"
    <2>1. /\ HoldsOK(r) /\ heap[r.gen][r.m] \in Live /\ RecForward(r.gen, r.m)
          /\ r.pc = "sync_clear" => row[r.inc][r.m].state # "NOTIFIED"
      BY <1>2, <1>4 DEF WorkOK, Writings
    <2>2. QED
      BY <2>1 DEF RecForward, HoldsOK, Calm, Forward
  <1>5. ASSUME r.pc = "load_swap" PROVE ReadOK(r)'
    <2>1. ReadOK(r)
      BY <1>5 DEF WorkOK
    <2>2. QED
      BY <2>1 DEF ReadOK, Calm, Forward
  <1>6. r.pc = "load_rows" => r.inc \in Incidents /\ Opened(r.inc)'
    BY DEF WorkOK, Calm, Forward
  <1>7. r.pc \in Writings \cup {"sync_clear"} => HoldsOK(r)'
    BY <1>2 DEF WorkOK, HoldsOK
  <1>8. QED
    BY <1>3, <1>4, <1>5, <1>6, <1>7 DEF WorkOK

(* Rows and records that differ at most in what memory and rows need not   *)
(* agree on: positions, acknowledgements, what is still to be written.     *)
RowAlike(i, m) ==
  /\ RowOK(i, m)'
  /\ row'[i][m].state = row[i][m].state /\ row'[i][m].judged = row[i][m].judged
  /\ row'[i][m].area = row[i][m].area /\ row'[i][m].ver = row[i][m].ver
RowsAlike(i) ==
  IF Opened(i) THEN \A m \in Members : RowAlike(i, m) ELSE row'[i] = row[i]
RecAlike(g, m) ==
  IF heap[g][m] = Nil THEN heap'[g][m] = Nil
  ELSE /\ heap'[g][m] \in Live /\ heap'[g][m].state = heap[g][m].state
       /\ heap'[g][m].area = heap[g][m].area /\ heap'[g][m].ver = heap[g][m].ver
       /\ heap'[g][m].pos = heap[g][m].pos
Alike ==
  /\ status' = status /\ setting' = setting /\ cur' = cur /\ tracked' = tracked
  /\ \A i \in Incidents : RowsAlike(i)
  /\ \A g \in 0 .. MaxLoads, m \in Members : RecAlike(g, m)

LEMMA AlikeIsCalm ==
  ASSUME TypeOK, Alike
  PROVE  Calm
  <1>1. Forward
    BY DEF Forward, Alike, RowsAlike, RowAlike, Opened
  <1>2. \A g \in 0 .. MaxLoads, m \in Members : RecForward(g, m)
    BY NotNil DEF Alike, RecAlike, RecForward
  <1>3. QED
    BY <1>1, <1>2 DEF Calm, Alike

(* What a worker does in such a step: it goes on with a reload, or all     *)
(* members are raced; it goes on with a write, or gives it up.             *)
GivenUp(w) ==
  /\ work[w].m \in raced' \/ tracked = Nil
  /\ setting.fail \/ (work[w].inc # tracked /\ <<work[w].inc, work[w].m>> \notin contacted')
Moves(w) ==
  /\ WorkOK(w)'
  /\ work[w].pc \in Loadings => work'[w].pc \in Loadings \/ Members \subseteq raced'
  /\ work[w].pc \in Writings =>
       \/ work'[w].pc \in Writings /\ work'[w].m = work[w].m /\ work'[w].inc = work[w].inc
       \/ GivenUp(w)

LEMMA ReloadGoesOn ==
  ASSUME Reloading, \A w \in Workers : work'[w] = work[w] \/ Moves(w)
  PROVE  Reloading' \/ Members \subseteq raced'
  BY DEF Reloading, Moves, Loadings

LEMMA WriteGoesOn ==
  ASSUME NEW m \in Members, Writing(m), \A w \in Workers : work'[w] = work[w] \/ Moves(w)
  PROVE  Writing(m)' \/ m \in raced' \/ tracked = Nil
  <1>1. PICK w \in Workers : work[w].m = m /\ work[w].pc \in Writings
    BY DEF Writing, Writings
  <1>2. CASE work'[w] = work[w]
    BY <1>1, <1>2 DEF Writing, Writings
  <1>3. CASE work'[w].pc \in Writings /\ work'[w].m = m
    BY <1>3 DEF Writing, Writings
  <1>4. CASE GivenUp(w)
    BY <1>1, <1>4 DEF GivenUp
  <1>5. QED
    BY <1>1, <1>2, <1>3, <1>4 DEF Moves

LEMMA LogInGoesOn ==
  ASSUME NEW i \in Incidents, NEW m \in Members, WillLogIn(i, m),
         \A w \in Workers : work'[w] = work[w] \/ Moves(w)
  PROVE  WillLogIn(i, m)' \/ setting.fail \/ (i # tracked /\ <<i, m>> \notin contacted')
  <1>1. PICK w \in Workers : work[w].pc \in Writings /\ work[w].m = m /\ work[w].inc = i
    BY DEF WillLogIn
  <1>2. CASE work'[w] = work[w]
    BY <1>1, <1>2 DEF WillLogIn
  <1>3. CASE work'[w].pc \in Writings /\ work'[w].m = m /\ work'[w].inc = i
    BY <1>3 DEF WillLogIn
  <1>4. CASE GivenUp(w)
    BY <1>1, <1>4 DEF GivenUp
  <1>5. QED
    BY <1>1, <1>2, <1>3, <1>4 DEF Moves

LEMMA AlikeKeeps ==
  ASSUME IInv, TypeOK', FlushOK', Alike, raced \subseteq raced',
         \A w \in Workers : work'[w] = work[w] \/ Moves(w),
         \A i \in Incidents, m \in Members :
           <<i, m>> \in contacted' => \/ <<i, m>> \in contacted
                                      \/ i = tracked /\ Rec(m).state # "NOTIFIED"
                                      \/ Opened(i) /\ row[i][m].state # "NOTIFIED"
  PROVE  IInv'
  <1>1. TypeOK /\ TableOK /\ tracked \in Incidents \cup {Nil} /\ cur \in 0 .. MaxLoads
    BY DEF IInv, TypeOK
  <1>2. \A w \in Workers : WorkOK(w)'
    BY <1>1, AlikeIsCalm, OtherWorks DEF IInv, Moves
  <1>3. OneActive' /\ (Current => Current') /\ \A i \in Incidents : Opened(i)' <=> Opened(i)
    BY DEF IInv, OneActive, Alike, Active, Opened, Current
  <1>4. \A i \in Incidents : RowsOK(i)'
    BY <1>3 DEF IInv, Alike, RowsOK, RowsAlike, RowAlike
  <1>5. TableOK'
    <2>1. CASE tracked = Nil
      <3>1. heap[cur] = NoTable /\ \A m \in Members : heap'[cur][m] = Nil
        BY <1>1, <2>1, NotNil DEF TableOK, Alike, RecAlike
      <3>2. heap'[cur] = NoTable
        BY <1>1, <3>1 DEF TypeOK, Tables, NoTable, Alike
      <3>3. QED
        BY <2>1, <3>2 DEF TableOK, Alike
    <2>2. CASE tracked # Nil
      <3>1. Opened(tracked) /\ \A m \in Members : RecOK(m)
        BY <1>1, <2>2 DEF TableOK
      <3>2. \A m \in Members : RecOK(m)'
        BY <1>1, <3>1, NotNil DEF RecOK, Rec, Alike, RecAlike
      <3>3. QED
        BY <1>1, <1>3, <2>2, <3>1, <3>2 DEF TableOK, Alike
    <2>3. QED
      BY <2>1, <2>2
  <1>6. ASSUME NEW m \in Members PROVE AgreeOK(m)'
    <2>1. CASE m \in raced \/ Reloading
      BY <2>1, ReloadGoesOn DEF AgreeOK
    <2>2. CASE Current /\ tracked = Nil
      BY <1>3, <2>2 DEF AgreeOK, Alike
    <2>3. CASE /\ Current /\ tracked # Nil
               /\ Rec(m).area = row[tracked][m].area /\ Rec(m).ver = row[tracked][m].ver
               /\ Rec(m).state = row[tracked][m].state \/ Writing(m)
      <3>1. Opened(tracked) /\ RecOK(m)
        BY <1>1, <2>3 DEF TableOK
      <3>2. RowAlike(tracked, m) /\ RecAlike(cur, m)
        BY <1>1, <2>3, <3>1 DEF Alike, RowsAlike
      <3>3. /\ Rec(m)'.area = row'[tracked][m].area /\ Rec(m)'.ver = row'[tracked][m].ver
            /\ Rec(m)'.state = Rec(m).state /\ row'[tracked][m].state = row[tracked][m].state
        BY <2>3, <3>1, <3>2, NotNil DEF RowAlike, RecAlike, RecOK, Rec, Alike
      <3>4. Rec(m)'.state = row'[tracked][m].state \/ Writing(m)' \/ m \in raced'
        BY <2>3, <3>3, WriteGoesOn
      <3>5. QED
        BY <1>3, <2>3, <3>3, <3>4 DEF AgreeOK, Alike
    <2>4. QED
      BY <2>1, <2>2, <2>3 DEF IInv, AgreeOK
  <1>7. ASSUME NEW m \in Members PROVE ArrivalOK(m)'
    <2> SUFFICES ASSUME NEW i \in Incidents, m \notin raced', Active(i)', row'[i][m].state \in Judged
                 PROVE  row'[i][m].judged = row'[i][m].area
      BY DEF ArrivalOK
    <2>1. Active(i) /\ Opened(i) /\ m \notin raced /\ ArrivalOK(m)
      BY DEF Alike, Active, Opened, IInv
    <2>2. RowAlike(i, m)
      BY <2>1 DEF Alike, RowsAlike
    <2>3. QED
      BY <2>1, <2>2 DEF RowAlike, ArrivalOK
  <1>8. ASSUME NEW i \in Incidents, NEW m \in Members PROVE ContactOK(i, m)'
    <2>1. <<i, m>> \in contacted' => Opened(i)'
      <3>1. CASE i = tracked /\ Rec(m).state # "NOTIFIED"
        BY <1>1, <1>3, <3>1, TrackerAssumption DEF TableOK
      <3>2. QED
        BY <1>3, <3>1 DEF IInv, ContactOK
    <2> SUFFICES ASSUME Active(i)', ~setting.fail, Answerable(i, m)'
                 PROVE  row'[i][m].state # "NOTIFIED" \/ WillLogIn(i, m)'
      BY <2>1 DEF ContactOK, Alike
    <2>2. Active(i) /\ Opened(i) /\ ContactOK(i, m)
      BY DEF Alike, Active, Opened, IInv
    <2>3. RowAlike(i, m)
      BY <2>2 DEF Alike, RowsAlike
    <2>4. i = tracked => Rec(m)'.state = Rec(m).state
      <3>1. SUFFICES ASSUME i = tracked PROVE Rec(m)'.state = Rec(m).state
        OBVIOUS
      <3>2. RecOK(m) /\ RecAlike(cur, m)
        BY <1>1, <3>1, NotNil DEF TableOK, Alike
      <3>3. QED
        BY <3>2, NotNil DEF RecOK, RecAlike, Rec, Alike
    <2>5. Answerable(i, m) \/ row[i][m].state # "NOTIFIED"
      BY <2>4 DEF Answerable, Alike
    <2>6. row[i][m].state # "NOTIFIED" \/ WillLogIn(i, m)
      BY <2>2, <2>5 DEF ContactOK
    <2>7. CASE row[i][m].state # "NOTIFIED"
      BY <2>3, <2>7 DEF RowAlike
    <2>8. CASE WillLogIn(i, m)
      <3>1. WillLogIn(i, m)' \/ (i # tracked /\ <<i, m>> \notin contacted')
        BY <2>8, LogInGoesOn
      <3>2. QED
        BY <3>1 DEF Answerable, Alike
    <2>9. QED
      BY <2>6, <2>7, <2>8
  <1>9. QED
    BY <1>2, <1>3, <1>4, <1>5, <1>6, <1>7, <1>8 DEF IInv

(* One worker takes such a step.                                           *)
LEMMA OneWorker ==
  ASSUME IInv, Alike, NEW w \in Workers, NEW r \in Request, Goto(w, r), Moves(w),
         flush' = flush, sent' = sent,
         row' \in [Incidents -> Rows], heap' \in [0 .. MaxLoads -> Tables],
         raced \subseteq raced', raced' \subseteq Members, contacted' \cup unheard' \subseteq Incidents \X Members,
         \A i \in Incidents, m \in Members :
           <<i, m>> \in contacted' => \/ <<i, m>> \in contacted
                                      \/ i = tracked /\ Rec(m).state # "NOTIFIED"
                                      \/ Opened(i) /\ row[i][m].state # "NOTIFIED"
  PROVE  IInv'
  <1>1. TypeOK /\ FlushOK
    BY DEF IInv
  <1>2. work' \in [Workers -> Request] /\ \A v \in Workers \ {w} : work'[v] = work[v]
    BY <1>1, GotoTypes
  <1>3. TypeOK'
    BY <1>1, <1>2 DEF TypeOK, Alike
  <1>4. FlushOK'
    BY <1>1 DEF FlushOK, Alike, Opened
  <1>5. \A v \in Workers : work'[v] = work[v] \/ Moves(v)
    BY <1>2
  <1>6. QED
    BY <1>3, <1>4, <1>5, AlikeKeeps

LEMMA SameIsAlike ==
  ASSUME IInv, UNCHANGED <<setting, status, row, heap, cur, tracked>>
  PROVE  Alike /\ row' \in [Incidents -> Rows] /\ heap' \in [0 .. MaxLoads -> Tables]
  <1>1. TypeOK /\ \A i \in Incidents : RowsOK(i)
    BY DEF IInv
  <1>2. \A i \in Incidents : RowsAlike(i)
    BY <1>1 DEF RowsOK, RowsAlike, RowAlike, RowOK
  <1>3. ASSUME NEW g \in 0 .. MaxLoads, NEW m \in Members PROVE RecAlike(g, m)
    BY <1>1, RecTypes DEF RecAlike
  <1>4. QED
    BY <1>1, <1>2, <1>3 DEF Alike, TypeOK

(* A request that is left with nothing to write, copy or load.             *)
LEMMA EndMoves ==
  ASSUME NEW w \in Workers, work'[w] = Idle, work[w].pc \notin Writings \cup Loadings
  PROVE  Moves(w)
  BY IdleOK DEF Moves

-----------------------------------------------------------------------------
(***************************************************************************)
(* Steps that leave memory and rows alike                                  *)
(***************************************************************************)
LEMMA SyncCopyKeeps ==
  ASSUME IInv, NEW w \in Workers, SyncCopy(w)
  PROVE  IInv'
  <1> DEFINE r == work[w]
             s == heap[r.gen][r.m]
             n == [r EXCEPT !.pc = "sync_write", !.snap = s]
  <1>1. /\ TypeOK /\ r \in Request /\ WorkOK(w) /\ r.pc = "sync_copy" /\ Goto(w, n)
        /\ UNCHANGED <<setting, status, row, heap, cur, tracked, flush, sent, raced, contacted, unheard>>
    BY DEF IInv, TypeOK, SyncCopy
  <1>2. HoldsOK(r) /\ CopyOK(s, r.inc)
    BY <1>1 DEF WorkOK, Writings
  <1>3. n \in Request
    <2>1. s \in Live \cup {Nil} /\ "sync_write" \in PCs
      BY <1>2 DEF CopyOK, PCs
    <2>2. QED
      BY <1>1, <2>1, ZenonT(60) DEF Request
  <1>4. n.pc = "sync_write" /\ n.m = r.m /\ n.gen = r.gen /\ n.inc = r.inc /\ n.snap = s
    BY <1>1 DEF Request
  <1> HIDE DEF n
  <1>5. work'[w] = n
    BY <1>1, <1>3, GotoTypes
  <1>6. WorkOK(w)'
    <2>1. HoldsOK(work[w])'
      BY <1>1, <1>2, <1>4, <1>5 DEF HoldsOK, Opened
    <2>2. CopyOK(work'[w].snap, work'[w].inc)
      BY <1>2, <1>4, <1>5
    <2>3. heap'[work'[w].gen][work'[w].m] \in Live
      BY <1>1, <1>2, <1>4, <1>5 DEF CopyOK
    <2>4. QED
      BY <1>4, <1>5, <2>1, <2>2, <2>3 DEF WorkOK, CopyOK, Home
  <1>7. Moves(w)
    BY <1>1, <1>4, <1>5, <1>6 DEF Moves, Loadings, Writings
  <1>8. Alike /\ row' \in [Incidents -> Rows] /\ heap' \in [0 .. MaxLoads -> Tables]
    BY <1>1, SameIsAlike
  <1>9. raced' \subseteq Members /\ contacted' \cup unheard' \subseteq Incidents \X Members
    BY <1>1 DEF TypeOK
  <1>10. QED
    BY <1>1, <1>3, <1>7, <1>8, <1>9, OneWorker

(* A record's mark, or its acknowledgement, is set.                        *)
LEMMA SetAlike ==
  ASSUME IInv, UNCHANGED <<setting, status, row, cur, tracked>>,
         NEW g \in 0 .. MaxLoads, NEW m \in Members, NEW l \in Live, heap[g][m] \in Live,
         l.state = heap[g][m].state, l.area = heap[g][m].area, l.ver = heap[g][m].ver,
         l.pos = heap[g][m].pos, heap' = [heap EXCEPT ![g][m] = l]
  PROVE  Alike /\ row' \in [Incidents -> Rows] /\ heap' \in [0 .. MaxLoads -> Tables]
  <1>1. TypeOK /\ \A i \in Incidents : RowsOK(i)
    BY DEF IInv
  <1>2. \A i \in Incidents : RowsAlike(i)
    BY <1>1 DEF RowsOK, RowsAlike, RowAlike, RowOK
  <1>3. heap \in [0 .. MaxLoads -> [Members -> Live \cup {Nil}]]
    BY <1>1 DEF TypeOK, Tables
  <1>4. heap' \in [0 .. MaxLoads -> [Members -> Live \cup {Nil}]]
    BY <1>3
  <1>5. ASSUME NEW h \in 0 .. MaxLoads, NEW x \in Members PROVE RecAlike(h, x)
    <2>1. CASE h = g /\ x = m
      BY <1>3, <2>1, NotNil DEF RecAlike
    <2>2. CASE ~(h = g /\ x = m)
      <3>1. heap'[h][x] = heap[h][x] /\ heap[h][x] \in Live \cup {Nil}
        BY <1>3, <2>2
      <3>2. QED
        BY <3>1 DEF RecAlike
    <2>3. QED
      BY <2>1, <2>2
  <1>6. QED
    BY <1>1, <1>2, <1>4, <1>5 DEF Alike, TypeOK, Tables

LEMMA SyncClearKeeps ==
  ASSUME IInv, NEW w \in Workers, SyncClear(w)
  PROVE  IInv'
  <1> DEFINE r == work[w]
             s == heap[r.gen][r.m]
             l == [s EXCEPT !.dirty = FALSE]
  <1>1. /\ TypeOK /\ r \in Request /\ WorkOK(w) /\ r.pc = "sync_clear" /\ Goto(w, Idle)
        /\ heap' = [heap EXCEPT ![r.gen][r.m].dirty = FALSE]
        /\ contacted' = contacted \cup {<<r.inc, r.m>>}
        /\ UNCHANGED <<setting, status, row, cur, tracked, flush, sent, raced, unheard>>
    BY DEF IInv, TypeOK, SyncClear
  <1>2. HoldsOK(r) /\ s \in Live /\ row[r.inc][r.m].state # "NOTIFIED" /\ r.gen \in 0 .. MaxLoads
    BY <1>1 DEF WorkOK, Request
  <1>3. heap' = [heap EXCEPT ![r.gen][r.m] = l]
    BY <1>1
  <1>4. l \in Live
    BY <1>2, ZenonT(60) DEF Live
  <1>5. l.state = s.state /\ l.area = s.area /\ l.ver = s.ver /\ l.pos = s.pos
    BY <1>2 DEF Live
  <1> HIDE DEF l
  <1>6. Alike /\ row' \in [Incidents -> Rows] /\ heap' \in [0 .. MaxLoads -> Tables]
    <2>1. r.m \in Members /\ UNCHANGED <<setting, status, row, cur, tracked>>
      BY <1>1, <1>2 DEF HoldsOK
    <2>2. QED
      BY <1>2, <1>3, <1>4, <1>5, <2>1, SetAlike, ZenonT(60)
  <1>7. work'[w] = Idle
    BY <1>1, GotoTypes, IdleFields
  <1>8. Moves(w)
    BY <1>1, <1>7, EndMoves DEF Writings, Loadings
  <1>9. raced' \subseteq Members /\ contacted' \cup unheard' \subseteq Incidents \X Members
    BY <1>1, <1>2 DEF TypeOK, HoldsOK
  <1>10. ASSUME NEW i \in Incidents, NEW m \in Members, <<i, m>> \in contacted'
         PROVE  <<i, m>> \in contacted \/ (Opened(i) /\ row[i][m].state # "NOTIFIED")
    BY <1>1, <1>2, <1>10 DEF HoldsOK
  <1>11. QED
    BY <1>1, <1>6, <1>8, <1>9, <1>10, IdleFields, OneWorker

LEMMA MeKeeps ==
  ASSUME IInv, NEW w \in Workers, NEW m \in Members, Me(w, m)
  PROVE  IInv'
  <1> DEFINE i == ActiveInc
             n == [Idle EXCEPT !.pc = "login", !.m = m, !.inc = i]
  <1>1. /\ TypeOK /\ TableOK /\ work[w].pc = "idle" /\ i \in Incidents
        /\ UNCHANGED <<setting, status, row, heap, cur, tracked, flush, sent, raced>>
    BY ActiveIncIs DEF IInv, Me, Starts
  <1>2. Alike /\ row' \in [Incidents -> Rows] /\ heap' \in [0 .. MaxLoads -> Tables]
    BY <1>1, SameIsAlike
  <1>3. \/ Goto(w, n) /\ UNCHANGED <<contacted, unheard>>
        \/ /\ tracked = i /\ Rec(m).state # "NOTIFIED"
           /\ contacted' = contacted \cup {<<i, m>>} /\ UNCHANGED <<unheard, work>>
        \/ unheard' = unheard \cup {<<i, m>>} /\ UNCHANGED <<contacted, work>>
    BY ZenonT(60) DEF Me
  <1> HIDE DEF i
  <1>4. CASE Goto(w, n) /\ UNCHANGED <<contacted, unheard>>
    <2>1. n \in Request
      BY <1>1, IdleFields, ZenonT(60) DEF Request, PCs
    <2>2. n.pc = "login" /\ n.m = m /\ n.inc = i
      BY DEF Idle
    <2> HIDE DEF n
    <2>3. work'[w] = n
      BY <1>1, <1>4, <2>1, GotoTypes
    <2>4. WorkOK(w)'
      BY <1>1, <2>2, <2>3 DEF WorkOK, Writings
    <2>5. Moves(w)
      BY <1>1, <2>4 DEF Moves, Writings, Loadings
    <2>6. raced' \subseteq Members /\ contacted' \cup unheard' \subseteq Incidents \X Members
      BY <1>1, <1>4 DEF TypeOK
    <2>7. QED
      BY <1>1, <1>2, <1>4, <2>1, <2>5, <2>6, OneWorker
  <1>5. CASE work' = work /\ contacted' \cup unheard' \subseteq Incidents \X Members
             /\ contacted' \subseteq contacted \cup {x \in {<<tracked, m>>} : Rec(m).state # "NOTIFIED"}
    <2>1. TypeOK'
      BY <1>1, <1>2, <1>5 DEF TypeOK
    <2>2. FlushOK'
      BY <1>1 DEF IInv, FlushOK, Opened
    <2>3. \A j \in Incidents, x \in Members :
            <<j, x>> \in contacted' => \/ <<j, x>> \in contacted
                                       \/ j = tracked /\ Rec(x).state # "NOTIFIED"
      BY <1>5
    <2>4. QED
      BY <1>1, <1>2, <1>5, <2>1, <2>2, <2>3, AlikeKeeps
  <1>6. QED
    BY <1>1, <1>3, <1>4, <1>5 DEF TypeOK

LEMMA AckKeeps ==
  ASSUME IInv, NEW w \in Workers, NEW m \in Members, NEW v \in 1 .. MaxVer, Ack(w, m, v)
  PROVE  IInv'
  <1> DEFINE ack == IF v > Rec(m).ack THEN v ELSE Rec(m).ack
             l == [Rec(m) EXCEPT !.ack = ack, !.dirty = TRUE]
             n == [Idle EXCEPT !.pc = "ack_write", !.m = m, !.mv = v]
  <1>1. /\ TypeOK /\ TableOK /\ work[w].pc = "idle" /\ Rec(m) # Nil
        /\ SetRec(m, [Rec(m) EXCEPT !.ack = IF v > @ THEN v ELSE @, !.dirty = TRUE])
        /\ Goto(w, n)
        /\ UNCHANGED <<setting, status, row, cur, tracked, flush, sent, raced, contacted, unheard>>
    BY DEF IInv, Ack, Starts
  <1>2. Rec(m) \in Live /\ cur \in 0 .. MaxLoads
    BY <1>1, RecKnown DEF RecOK
  <1>3. heap' = [heap EXCEPT ![cur][m] = l]
    BY <1>1, <1>2 DEF SetRec, Live
  <1>4. ack \in 1 .. MaxVer
    BY <1>2 DEF Live
  <1> HIDE DEF ack
  <1>5. l \in Live
    BY <1>2, <1>4, ZenonT(60) DEF Live
  <1>6. /\ l.state = Rec(m).state /\ l.area = Rec(m).area /\ l.ver = Rec(m).ver
        /\ l.pos = Rec(m).pos
    BY <1>2 DEF Live
  <1> HIDE DEF l
  <1>7. Alike /\ row' \in [Incidents -> Rows] /\ heap' \in [0 .. MaxLoads -> Tables]
    <2>1. UNCHANGED <<setting, status, row, cur, tracked>> /\ heap[cur][m] \in Live
      BY <1>1, <1>2 DEF Rec
    <2>2. /\ l.state = heap[cur][m].state /\ l.area = heap[cur][m].area
          /\ l.ver = heap[cur][m].ver /\ l.pos = heap[cur][m].pos
      BY <1>6 DEF Rec
    <2>3. QED
      BY <1>2, <1>3, <1>5, <2>1, <2>2, SetAlike, ZenonT(60)
  <1>8. n \in Request /\ n.pc = "ack_write" /\ n.m = m /\ n.mv = v
    <2>1. v \in 0 .. MaxVer /\ "ack_write" \in PCs
      BY TrackerAssumption DEF PCs
    <2>2. n \in Request
      BY <2>1, IdleFields, ZenonT(60) DEF Request
    <2>3. QED
      BY <2>2 DEF Idle
  <1> HIDE DEF n
  <1>9. work'[w] = n
    BY <1>1, <1>8, GotoTypes
  <1>10. WorkOK(w)'
    BY <1>8, <1>9 DEF WorkOK, Writings
  <1>11. Moves(w)
    BY <1>1, <1>10 DEF Moves, Writings, Loadings
  <1>12. raced' \subseteq Members /\ contacted' \cup unheard' \subseteq Incidents \X Members
    BY <1>1 DEF TypeOK
  <1>13. QED
    BY <1>1, <1>7, <1>8, <1>11, <1>12, OneWorker

(* A row's acknowledgement is written.                                     *)
LEMMA AckWriteKeeps ==
  ASSUME IInv, NEW w \in Workers, AckWrite(w)
  PROVE  IInv'
  <1> DEFINE m == work[w].m
             v == work[w].mv
  <1>1. /\ TypeOK /\ TableOK /\ WorkOK(w) /\ work[w].pc = "ack_write" /\ Goto(w, Idle)
        /\ row' = IF HasRow(m) THEN [row EXCEPT ![tracked][m].ack = v] ELSE row
        /\ UNCHANGED <<setting, status, heap, cur, tracked, flush, sent, raced, contacted, unheard>>
        /\ \A i \in Incidents : RowsOK(i)
    BY DEF IInv, AckWrite
  <1>2. m \in Members /\ v \in 1 .. MaxVer
    BY <1>1 DEF WorkOK
  <1>3. Alike /\ row' \in [Incidents -> Rows] /\ heap' \in [0 .. MaxLoads -> Tables]
    <2>1. CASE ~HasRow(m)
      <3>1. row' = row
        BY <1>1, <2>1
      <3>2. QED
        BY <1>1, <3>1, SameIsAlike
    <2>2. CASE HasRow(m)
      <3> DEFINE i == tracked
                 r == row[i][m]
                 n == [r EXCEPT !.ack = v]
      <3>1. i \in Incidents /\ Opened(i) /\ \A x \in Members : RowOK(i, x)
        BY <1>1, <2>2 DEF HasRow, TypeOK, TableOK, RowsOK
      <3>2. r \in Row /\ Home(i, r.pos)
        BY <1>2, <3>1 DEF RowOK
      <3>3. n \in Row
        BY <1>2, <3>2, ZenonT(60) DEF Row
      <3>4. n.state = r.state /\ n.area = r.area /\ n.ver = r.ver /\ n.pos = r.pos /\ n.judged = r.judged
        BY <3>2 DEF Row
      <3>5. row' = [row EXCEPT ![i][m] = n]
        BY <1>1, <2>2
      <3> HIDE DEF n
      <3>6. row \in [Incidents -> [Members -> Row \cup {Nil}]]
        BY <1>1 DEF TypeOK, Rows
      <3>7. row' \in [Incidents -> [Members -> Row \cup {Nil}]] /\ row'[i][m] = n
        BY <1>2, <3>1, <3>3, <3>5, <3>6
      <3>8. \A j \in Incidents, x \in Members : ~(j = i /\ x = m) => row'[j][x] = row[j][x]
        BY <3>5, <3>6
      <3>9. ASSUME NEW x \in Members PROVE RowAlike(i, x)
        <4>1. CASE x = m
          <5>1. i' = i /\ row'[i][x] = n
            BY <1>1, <3>7, <4>1
          <5>2. QED
            BY <3>2, <3>3, <3>4, <4>1, <5>1 DEF RowAlike, RowOK, Home
        <4>2. CASE x # m
          <5>1. row'[i][x] = row[i][x] /\ RowOK(i, x) /\ i' = i
            BY <1>1, <3>1, <3>8, <4>2
          <5>2. QED
            BY <5>1 DEF RowAlike, RowOK, Home
        <4>3. QED
          BY <4>1, <4>2
      <3>10. ASSUME NEW j \in Incidents PROVE RowsAlike(j)
        <4>1. CASE j = i
          BY <3>1, <3>9, <4>1 DEF RowsAlike
        <4>2. CASE j # i
          <5>1. row'[j] = row[j]
            BY <3>5, <3>6, <4>2
          <5>2. QED
            BY <1>1, <5>1, ZenonT(60) DEF RowsAlike, RowsOK, RowAlike, RowOK
        <4>3. QED
          BY <4>1, <4>2
      <3>11. ASSUME NEW g \in 0 .. MaxLoads, NEW x \in Members PROVE RecAlike(g, x)
        BY <1>1, RecTypes DEF RecAlike
      <3>12. QED
        BY <1>1, <3>7, <3>10, <3>11 DEF Alike, TypeOK, Rows
    <2>3. QED
      BY <2>1, <2>2
  <1>4. work'[w] = Idle
    BY <1>1, GotoTypes, IdleFields
  <1>5. Moves(w)
    BY <1>1, <1>4, EndMoves DEF Writings, Loadings
  <1>6. raced' \subseteq Members /\ contacted' \cup unheard' \subseteq Incidents \X Members
    BY <1>1 DEF TypeOK
  <1>7. QED
    BY <1>1, <1>3, <1>5, <1>6, IdleFields, OneWorker

LEMMA LoadActiveKeeps ==
  ASSUME IInv, NEW w \in Workers, LoadActive(w)
  PROVE  IInv'
  <1> DEFINE r == work[w]
             n == IF ActiveInc = Nil THEN [r EXCEPT !.pc = "load_swap"]
                  ELSE [r EXCEPT !.pc = "load_rows", !.inc = ActiveInc]
  <1>1. /\ TypeOK /\ OneActive /\ r \in Request /\ WorkOK(w) /\ r.pc = "load_active" /\ Goto(w, n)
        /\ UNCHANGED <<setting, status, row, heap, cur, tracked, flush, sent, raced, contacted, unheard>>
    BY DEF IInv, TypeOK, LoadActive
  <1>2. n \in Request /\ \/ n.pc = "load_swap" /\ n.inc = Nil
                         \/ n.pc = "load_rows" /\ n.inc \in Incidents /\ Opened(n.inc)
    <2>1. CASE ActiveInc = Nil
      <3>1. n = [r EXCEPT !.pc = "load_swap"]
        BY <2>1
      <3>2. [r EXCEPT !.pc = "load_swap"] \in Request
        BY <1>1, ZenonT(60) DEF Request, PCs
      <3>3. r.inc = Nil
        BY <1>1 DEF WorkOK
      <3>4. /\ [r EXCEPT !.pc = "load_swap"].pc = "load_swap"
            /\ [r EXCEPT !.pc = "load_swap"].inc = r.inc
        BY <1>1 DEF Request
      <3> HIDE DEF n
      <3>5. QED
        BY <3>1, <3>2, <3>3, <3>4
    <2>2. CASE ActiveInc # Nil
      <3>1. ActiveInc \in Incidents /\ Active(ActiveInc)
        BY <1>1, <2>2, ActiveIncIs
      <3> DEFINE k == ActiveInc
                 p == [r EXCEPT !.pc = "load_rows", !.inc = k]
      <3>2. n = p /\ k \in Incidents /\ Opened(k)
        BY <2>2, <3>1 DEF Active, Opened
      <3> HIDE DEF k
      <3>3. p \in Request
        BY <1>1, <3>2, ZenonT(60) DEF Request, PCs
      <3>4. p.pc = "load_rows" /\ p.inc = k
        BY <1>1 DEF Request
      <3> HIDE DEF n, p
      <3>5. QED
        BY <3>2, <3>3, <3>4
    <2>3. QED
      BY <2>1, <2>2
  <1> HIDE DEF n
  <1>3. work'[w] = n
    BY <1>1, <1>2, GotoTypes
  <1>4. WorkOK(w)'
    <2>1. CASE n.pc = "load_swap" /\ n.inc = Nil
      BY <1>3, <2>1 DEF WorkOK, Writings, ReadOK
    <2>2. CASE n.pc = "load_rows" /\ n.inc \in Incidents /\ Opened(n.inc)
      BY <1>1, <1>3, <2>2 DEF WorkOK, Writings, Opened
    <2>3. QED
      BY <1>2, <2>1, <2>2
  <1>5. Moves(w)
    BY <1>1, <1>2, <1>3, <1>4 DEF Moves, Writings, Loadings
  <1>6. Alike /\ row' \in [Incidents -> Rows] /\ heap' \in [0 .. MaxLoads -> Tables]
    BY <1>1, SameIsAlike
  <1>7. raced' \subseteq Members /\ contacted' \cup unheard' \subseteq Incidents \X Members
    BY <1>1 DEF TypeOK
  <1>8. QED
    BY <1>1, <1>2, <1>5, <1>6, <1>7, OneWorker

LEMMA LoadRowsKeeps ==
  ASSUME IInv, NEW w \in Workers, LoadRows(w)
  PROVE  IInv'
  <1> DEFINE r == work[w]
             i == r.inc
             n == [r EXCEPT !.pc = "load_swap", !.rows = row[i]]
  <1>1. /\ TypeOK /\ r \in Request /\ WorkOK(w) /\ r.pc = "load_rows" /\ Goto(w, n)
        /\ UNCHANGED <<setting, status, row, heap, cur, tracked, flush, sent, raced, contacted, unheard>>
        /\ \A j \in Incidents : RowsOK(j)
    BY DEF IInv, TypeOK, LoadRows
  <1>2. i \in Incidents /\ Opened(i) /\ row[i] \in Rows /\ \A m \in Members : RowOK(i, m)
    BY <1>1 DEF WorkOK, TypeOK, RowsOK
  <1>3. n \in Request
    BY <1>1, <1>2, ZenonT(60) DEF Request, PCs
  <1>4. n.pc = "load_swap" /\ n.inc = i /\ n.rows = row[i]
    BY <1>1 DEF Request
  <1> HIDE DEF n
  <1>5. work'[w] = n
    BY <1>1, <1>3, GotoTypes
  <1>6. WorkOK(w)'
    <2>1. ReadOK(work[w])'
      BY <1>1, <1>2, <1>4, <1>5 DEF ReadOK, RowOK, Opened
    <2>2. QED
      BY <1>4, <1>5, <2>1 DEF WorkOK, Writings
  <1>7. Moves(w)
    BY <1>1, <1>4, <1>5, <1>6 DEF Moves, Writings, Loadings
  <1>8. Alike /\ row' \in [Incidents -> Rows] /\ heap' \in [0 .. MaxLoads -> Tables]
    BY <1>1, SameIsAlike
  <1>9. raced' \subseteq Members /\ contacted' \cup unheard' \subseteq Incidents \X Members
    BY <1>1 DEF TypeOK
  <1>10. QED
    BY <1>1, <1>3, <1>7, <1>8, <1>9, OneWorker

(* The batch writer.                                                       *)
LEMMA FlushTakeKeeps ==
  ASSUME IInv, FlushTake
  PROVE  IInv'
  <1> DEFINE pos == [m \in Members |-> IF m \notin Dirty THEN Nil
                                       ELSE IF Rec(m).pos = Nil THEN Origin ELSE Rec(m).pos]
             table == [m \in Members |->
                         IF m \in Dirty THEN [Rec(m) EXCEPT !.dirty = FALSE] ELSE Rec(m)]
  <1>1. /\ TypeOK /\ TableOK /\ Dirty # {}
        /\ flush' = [inc |-> tracked, pos |-> pos]
        /\ heap' = [heap EXCEPT ![cur] = table]
        /\ UNCHANGED <<setting, status, row, cur, tracked, work, sent, raced, contacted, unheard>>
        /\ cur \in 0 .. MaxLoads
    BY DEF IInv, FlushTake, TypeOK
  <1>2. tracked \in Incidents /\ Opened(tracked) /\ \A m \in Members : RecOK(m)
    <2>1. PICK m \in Members : Rec(m) # Nil
      BY <1>1 DEF Dirty
    <2>2. tracked \in Incidents /\ Opened(tracked)
      BY <1>1, <2>1, RecKnown
    <2>3. QED
      BY <1>1, <2>2, NotNil DEF TableOK
  <1>3. ASSUME NEW m \in Members
        PROVE  /\ table[m] \in Live /\ table[m].state = Rec(m).state /\ table[m].pos = Rec(m).pos
               /\ table[m].area = Rec(m).area /\ table[m].ver = Rec(m).ver
    <2> DEFINE l == [Rec(m) EXCEPT !.dirty = FALSE]
    <2>1. Rec(m) \in Live
      BY <1>2 DEF RecOK
    <2>2. l \in Live
      BY <2>1, ZenonT(60) DEF Live
    <2>3. l.state = Rec(m).state /\ l.pos = Rec(m).pos /\ l.area = Rec(m).area /\ l.ver = Rec(m).ver
      BY <2>1 DEF Live
    <2>4. table[m] = l \/ table[m] = Rec(m)
      OBVIOUS
    <2> HIDE DEF l, table
    <2>5. QED
      BY <2>1, <2>2, <2>3, <2>4
  <1>4. table \in Tables
    BY <1>3 DEF Tables
  <1>5. ASSUME NEW m \in Members
        PROVE  pos[m] \in Positions /\ Home(tracked, pos[m])
    <2>1. Rec(m).pos \in Positions /\ Home(tracked, Rec(m).pos)
      BY <1>2 DEF RecOK, Live
    <2>2. pos[m] \in {Nil, Origin, Rec(m).pos}
      OBVIOUS
    <2> HIDE DEF pos
    <2>3. QED
      BY <2>1, <2>2, NotNil DEF Positions, Home
  <1>6. pos \in [Members -> Positions]
    BY <1>5
  <1> HIDE DEF pos, table
  <1>7. heap' \in [0 .. MaxLoads -> Tables] /\ heap'[cur] = table
        /\ \A g \in 0 .. MaxLoads \ {cur} : heap'[g] = heap[g]
    BY <1>1, <1>4 DEF TypeOK
  <1>8. TypeOK'
    BY <1>1, <1>2, <1>6, <1>7 DEF TypeOK
  <1>9. FlushOK'
    BY <1>1, <1>2, <1>5 DEF FlushOK, Opened
  <1>10. ASSUME NEW g \in 0 .. MaxLoads, NEW m \in Members PROVE RecAlike(g, m)
    <2>1. CASE g = cur
      BY <1>2, <1>3, <1>7, <2>1, NotNil DEF RecAlike, RecOK, Rec
    <2>2. CASE g # cur
      BY <1>1, <1>7, <2>2, RecTypes DEF RecAlike
    <2>3. QED
      BY <2>1, <2>2
  <1>11. \A i \in Incidents : RowsAlike(i)
    BY <1>1 DEF IInv, RowsOK, RowsAlike, RowAlike, RowOK
  <1>12. Alike
    BY <1>1, <1>10, <1>11 DEF Alike
  <1>13. QED
    BY <1>1, <1>8, <1>9, <1>12, AlikeKeeps

LEMMA FlushCommitKeeps ==
  ASSUME IInv, FlushCommit
  PROVE  IInv'
  <1> DEFINE i == flush.inc
             new == [m \in Members |-> IF m \in Taken THEN [row[i][m] EXCEPT !.pos = flush.pos[m]]
                                       ELSE row[i][m]]
  <1>1. /\ TypeOK /\ flush # NoFlush /\ flush' = NoFlush
        /\ row' = [row EXCEPT ![i] = new]
        /\ UNCHANGED <<setting, status, heap, cur, tracked, work, sent, raced, contacted, unheard>>
    BY DEF IInv, FlushCommit, FlushTarget
  <1>2. /\ i \in Incidents /\ Opened(i) /\ \A m \in Members : Home(i, flush.pos[m]) /\ RowOK(i, m)
        /\ flush.pos \in [Members -> Positions]
    BY <1>1 DEF IInv, FlushOK, RowsOK, TypeOK
  <1>3. ASSUME NEW m \in Members
        PROVE  /\ new[m] \in Row /\ Home(i, new[m].pos) /\ new[m].state = row[i][m].state
               /\ new[m].judged = row[i][m].judged /\ new[m].area = row[i][m].area
               /\ new[m].ver = row[i][m].ver
    <2> DEFINE r == row[i][m]
               n == [r EXCEPT !.pos = flush.pos[m]]
    <2>1. r \in Row /\ Home(i, r.pos) /\ flush.pos[m] \in Positions /\ Home(i, flush.pos[m])
      BY <1>2 DEF RowOK
    <2>2. n \in Row
      BY <2>1, ZenonT(60) DEF Row
    <2>3. n.state = r.state /\ n.judged = r.judged /\ n.area = r.area /\ n.ver = r.ver /\ n.pos = flush.pos[m]
      BY <2>1 DEF Row
    <2>4. new[m] = n \/ new[m] = r
      OBVIOUS
    <2> HIDE DEF n, new
    <2>5. QED
      BY <2>1, <2>2, <2>3, <2>4
  <1>4. new \in Rows
    BY <1>3 DEF Rows
  <1> HIDE DEF new
  <1>5. row' \in [Incidents -> Rows] /\ row'[i] = new /\ \A j \in Incidents \ {i} : row'[j] = row[j]
    BY <1>1, <1>2, <1>4 DEF TypeOK
  <1>6. TypeOK'
    BY <1>1, <1>5, NotNil DEF TypeOK, NoFlush, NoTable, Positions
  <1>7. FlushOK'
    BY <1>1 DEF FlushOK
  <1>8. ASSUME NEW j \in Incidents PROVE RowsAlike(j)
    <2>1. CASE j = i
      BY <1>2, <1>3, <1>5, <2>1 DEF RowsAlike, RowAlike, RowOK
    <2>2. CASE j # i
      BY <1>5, <2>2 DEF IInv, RowsOK, RowsAlike, RowAlike, RowOK
    <2>3. QED
      BY <2>1, <2>2
  <1>9. ASSUME NEW g \in 0 .. MaxLoads, NEW m \in Members PROVE RecAlike(g, m)
    BY <1>1, RecTypes DEF RecAlike
  <1>10. Alike
    BY <1>1, <1>8, <1>9 DEF Alike
  <1>11. QED
    BY <1>1, <1>6, <1>7, <1>10, AlikeKeeps

LEMMA FlushFailKeeps ==
  ASSUME IInv, FlushFail
  PROVE  IInv'
  <1>1. /\ TypeOK /\ flush' = NoFlush
        /\ UNCHANGED <<setting, status, row, heap, cur, tracked, work, sent, raced, contacted, unheard>>
    BY DEF IInv, FlushFail
  <1>2. TypeOK'
    BY <1>1, NotNil DEF TypeOK, NoFlush, NoTable, Positions
  <1>3. FlushOK'
    BY <1>1 DEF FlushOK
  <1>4. Alike
    BY <1>1, SameIsAlike
  <1>5. QED
    BY <1>1, <1>2, <1>3, <1>4, AlikeKeeps

(* A statement that fails.                                                 *)
LEMMA FailKeeps ==
  ASSUME IInv, NEW w \in Workers, Fail(w)
  PROVE  IInv'
  <1> DEFINE pc == work[w].pc
  <1>1. /\ TypeOK /\ WorkOK(w) /\ setting.fail /\ Goto(w, Idle)
        /\ pc \in {"sync_write", "login_write", "deny_write"} \cup Loadings \cup {"sync_clear", "ack_write"}
        /\ raced' = IF pc \in Loadings THEN Members
                    ELSE IF pc \in {"sync_write", "login_write", "deny_write"}
                    THEN raced \cup {work[w].m} ELSE raced
        /\ UNCHANGED <<setting, status, row, heap, cur, tracked, flush, sent, contacted, unheard>>
    BY DEF IInv, Fail, Loadings
  <1>2. work'[w] = Idle
    BY <1>1, GotoTypes, IdleFields
  <1>3. raced \subseteq raced' /\ raced' \subseteq Members
    BY <1>1 DEF TypeOK, WorkOK, HoldsOK, Writings
  <1>4. Moves(w)
    <2>1. WorkOK(w)'
      BY <1>2, IdleOK
    <2>2. pc \in Loadings => Members \subseteq raced'
      BY <1>1
    <2>3. pc \in Writings => GivenUp(w)
      BY <1>1 DEF Writings, Loadings, GivenUp
    <2>4. QED
      BY <2>1, <2>2, <2>3 DEF Moves
  <1>5. Alike /\ row' \in [Incidents -> Rows] /\ heap' \in [0 .. MaxLoads -> Tables]
    BY <1>1, SameIsAlike
  <1>6. contacted' \cup unheard' \subseteq Incidents \X Members
    BY <1>1 DEF TypeOK
  <1>7. QED
    BY <1>1, <1>3, <1>4, <1>5, <1>6, IdleFields, OneWorker

-----------------------------------------------------------------------------
(***************************************************************************)
(* Steps that change a record's phase                                      *)
(***************************************************************************)
LEMMA SetRecKeeps ==
  ASSUME IInv, NEW w \in Workers, NEW m \in Members, NEW l \in Live, Rec(m) # Nil,
         heap' = [heap EXCEPT ![cur][m] = l],
         l.area = Rec(m).area, l.ver = Rec(m).ver, l.state # "NOTIFIED", Home(tracked, l.pos),
         UNCHANGED <<setting, status, row, cur, tracked, flush, raced>>,
         sent' \in [Members -> 0 .. MaxSent], work' \in [Workers -> Request],
         \A v \in Workers \ {w} : work'[v] = work[v],
         work[w].pc \in {"idle", "login"}, WorkOK(w)',
         \/ l.state = Rec(m).state
         \/ work'[w].pc \in Writings /\ work'[w].m = m /\ work'[w].inc = tracked,
         contacted \subseteq contacted', contacted' \subseteq contacted \cup {<<tracked, m>>},
         unheard' \subseteq Incidents \X Members
  PROVE  IInv'
  <1>1. TypeOK /\ TableOK /\ Rec(m) \in Live /\ tracked \in Incidents /\ Opened(tracked) /\ cur \in 0 .. MaxLoads
    BY RecKnown DEF IInv, RecOK
  <1>2. heap \in [0 .. MaxLoads -> [Members -> Live \cup {Nil}]]
    BY <1>1 DEF TypeOK, Tables
  <1>3. /\ heap' \in [0 .. MaxLoads -> [Members -> Live \cup {Nil}]]
        /\ heap'[cur][m] = l
        /\ \A g \in 0 .. MaxLoads, x \in Members : ~(g = cur /\ x = m) => heap'[g][x] = heap[g][x]
    BY <1>1, <1>2
  <1>4. Rec(m)' = l /\ \A x \in Members \ {m} : Rec(x)' = Rec(x)
    BY <1>1, <1>3 DEF Rec
  <1>5. TypeOK'
    BY <1>1, <1>3 DEF TypeOK, Tables
  <1>6. /\ \A i \in Incidents : (Opened(i)' <=> Opened(i)) /\ (Active(i)' <=> Active(i))
        /\ OneActive' /\ FlushOK' /\ \A i \in Incidents : RowsOK(i)'
    BY DEF IInv, Opened, Active, OneActive, FlushOK, RowsOK, RowOK
  <1>7. TableOK'
    <2>1. \A x \in Members : RecOK(x)
      BY <1>1, TrackerAssumption DEF TableOK
    <2>2. \A x \in Members : RecOK(x)'
      BY <1>4, <2>1 DEF RecOK
    <2>3. QED
      BY <1>1, <1>6, <2>2, NotNil DEF TableOK
  <1>8. Calm
    <2>1. \A g \in 0 .. MaxLoads, x \in Members : RecForward(g, x)
      BY <1>3 DEF RecForward
    <2>2. QED
      BY <1>6, <2>1 DEF Calm, Forward
  <1>9. \A v \in Workers : WorkOK(v)'
    BY <1>1, <1>8, OtherWorks DEF IInv
  <1>10. /\ Reloading => Reloading'
         /\ \A x \in Members : Writing(x) => Writing(x)'
         /\ \A i \in Incidents, x \in Members : WillLogIn(i, x) => WillLogIn(i, x)'
    <2>1. Reloading => Reloading'
      BY DEF Reloading
    <2>2. ASSUME NEW x \in Members, Writing(x) PROVE Writing(x)'
      BY <2>2 DEF Writing
    <2>3. ASSUME NEW i \in Incidents, NEW x \in Members, WillLogIn(i, x) PROVE WillLogIn(i, x)'
      BY <2>3 DEF WillLogIn, Writings
    <2>4. QED
      BY <2>1, <2>2, <2>3
  <1>11. ASSUME NEW x \in Members PROVE AgreeOK(x)'
    <2>1. CASE x \in raced \/ Reloading
      BY <1>10, <2>1 DEF AgreeOK
    <2>2. CASE /\ Current
               /\ Rec(x).area = row[tracked][x].area /\ Rec(x).ver = row[tracked][x].ver
               /\ Rec(x).state = row[tracked][x].state \/ Writing(x)
      <3>1. Current'
        BY <1>6, <1>1, <2>2, NotNil DEF Current
      <3>2. Rec(x)'.area = row'[tracked'][x].area /\ Rec(x)'.ver = row'[tracked'][x].ver
        BY <1>4, <2>2
      <3>3. Rec(x)'.state = row'[tracked'][x].state \/ Writing(x)'
        <4>1. CASE x # m
          BY <1>4, <1>10, <2>2, <4>1
        <4>2. CASE x = m /\ l.state = Rec(m).state
          BY <1>4, <1>10, <2>2, <4>2
        <4>3. CASE x = m /\ work'[w].pc \in Writings /\ work'[w].m = m
          BY <4>3 DEF Writing, Writings
        <4>4. QED
          BY <4>1, <4>2, <4>3
      <3>4. QED
        BY <3>1, <3>2, <3>3 DEF AgreeOK
    <2>3. QED
      BY <1>1, <2>1, <2>2, NotNil DEF IInv, AgreeOK
  <1>12. \A x \in Members : ArrivalOK(x)'
    BY <1>6 DEF IInv, ArrivalOK
  <1>13. ASSUME NEW i \in Incidents, NEW x \in Members PROVE ContactOK(i, x)'
    <2>1. <<i, x>> \in contacted' => Opened(i)'
      BY <1>1, <1>6 DEF IInv, ContactOK
    <2> SUFFICES ASSUME Active(i)', ~setting.fail, Answerable(i, x)'
                 PROVE  row'[i][x].state # "NOTIFIED" \/ WillLogIn(i, x)'
      BY <2>1 DEF ContactOK
    <2>2. Active(i) /\ ContactOK(i, x)
      BY <1>6 DEF IInv
    <2>3. CASE Answerable(i, x)
      BY <1>10, <2>2, <2>3 DEF ContactOK
    <2>4. CASE ~Answerable(i, x)
      <3>1. x = m /\ i = tracked
        BY <1>4, <2>4 DEF Answerable
      <3>2. l.state # Rec(m).state
        BY <2>4, <3>1 DEF Answerable
      <3>3. QED
        BY <3>1, <3>2 DEF WillLogIn
    <2>5. QED
      BY <2>3, <2>4
  <1>14. QED
    BY <1>5, <1>6, <1>7, <1>9, <1>11, <1>12, <1>13 DEF IInv

(* A request that has just taken a copy of its record.                     *)
LEMMA HoldingOK ==
  ASSUME TypeOK, TableOK, NEW w \in Workers, NEW m \in Members, NEW l \in Live, Rec(m) # Nil,
         heap' = [heap EXCEPT ![cur][m] = l], UNCHANGED <<status, cur, tracked>>,
         l.state # "NOTIFIED", Home(tracked, l.pos), NEW pc \in Writings, NEW snap \in Live \cup {Nil},
         pc = "sync_copy" \/ snap = l, Goto(w, Holding(pc, m, snap))
  PROVE  /\ work' \in [Workers -> Request] /\ \A v \in Workers \ {w} : work'[v] = work[v]
         /\ WorkOK(w)' /\ work'[w].pc \in Writings /\ work'[w].m = m /\ work'[w].inc = tracked
  <1> DEFINE r == Holding(pc, m, snap)
  <1>1. pc \in PCs /\ tracked \in Incidents /\ Opened(tracked) /\ cur \in 0 .. MaxLoads
    BY RecKnown DEF Writings, PCs
  <1>2. r \in Request /\ r.pc = pc /\ r.m = m /\ r.gen = cur /\ r.inc = tracked /\ r.snap = snap
    BY <1>1, HoldingFields
  <1> HIDE DEF r
  <1>3. /\ work' \in [Workers -> Request] /\ work'[w] = r
        /\ \A v \in Workers \ {w} : work'[v] = work[v]
    BY <1>2, GotoTypes DEF r
  <1>4. heap'[cur][m] = l
    BY <1>1 DEF TypeOK, Tables
  <1>5. HoldsOK(work[w])'
    BY <1>1, <1>2, <1>3 DEF HoldsOK, Opened
  <1>6. CopyOK(l, tracked)
    BY DEF CopyOK
  <1>7. WorkOK(w)'
    <2>1. CASE pc = "sync_copy"
      <3>1. r.pc = "sync_copy" /\ heap'[work'[w].gen][work'[w].m] = l /\ work'[w].inc = tracked
        BY <1>2, <1>3, <1>4, <2>1
      <3>2. CopyOK(heap'[work'[w].gen][work'[w].m], work'[w].inc)
        BY <1>6, <3>1
      <3>3. QED
        BY <1>3, <1>5, <3>1, <3>2 DEF WorkOK, CopyOK, Home
    <2>2. CASE pc # "sync_copy"
      <3>1. /\ r.pc \in {"sync_write", "login_write", "deny_write"}
            /\ heap'[work'[w].gen][work'[w].m] = l /\ work'[w].snap = l /\ work'[w].inc = tracked
        BY <1>2, <1>3, <1>4, <2>2 DEF Writings
      <3>2. CopyOK(work'[w].snap, work'[w].inc)
        BY <1>6, <3>1
      <3>3. QED
        BY <1>3, <1>5, <3>1, <3>2 DEF WorkOK, CopyOK, Home
    <2>3. QED
      BY <2>1, <2>2
  <1>8. QED
    BY <1>2, <1>3, <1>7

LEMMA ProcessFixKeeps ==
  ASSUME IInv, NEW w \in Workers, NEW m \in Members, ProcessFix(w, m)
  PROVE  IInv'
  <1> DEFINE known == IF Rec(m).state = "NOTIFIED" THEN "LOGGED_IN" ELSE Rec(m).state
             p == <<tracked, sent[m] + 1>>
  <1>1. /\ TypeOK /\ TableOK /\ work[w].pc = "idle" /\ Rec(m) # Nil /\ sent[m] < setting.sent
        /\ sent' = [sent EXCEPT ![m] = @ + 1]
        /\ UNCHANGED <<setting, status, row, cur, tracked, flush, raced, unheard>>
    BY DEF IInv, ProcessFix, Starts
  <1>2. PICK s \in Outcomes(known) :
          /\ SetRec(m, [Rec(m) EXCEPT !.state = s, !.pos = p, !.dirty = TRUE])
          /\ IF NeedSync(m, known, s)
             THEN /\ Goto(w, Holding("sync_copy", m, Nil))
                  /\ UNCHANGED contacted
             ELSE /\ contacted' = contacted \cup {<<tracked, m>>}
                  /\ UNCHANGED work
    BY ZenonT(60) DEF ProcessFix
  <1>3. Rec(m) \in Live /\ tracked \in Incidents /\ cur \in 0 .. MaxLoads
    BY <1>1, RecKnown DEF RecOK
  <1>4. s \in States /\ s # "NOTIFIED"
    <2>1. known \in States \ {"NOTIFIED"}
      BY <1>3 DEF Live, States, Waiting, Judged
    <2> HIDE DEF known
    <2>2. QED
      BY <2>1 DEF Outcomes, States, Waiting, Judged
  <1>5. /\ sent[m] + 1 \in 1 .. MaxSent /\ sent' \in [Members -> 0 .. MaxSent]
        /\ unheard' \subseteq Incidents \X Members
    <2>1. setting.sent \in 0 .. MaxSent /\ sent \in [Members -> 0 .. MaxSent] /\ MaxSent \in Nat
      BY <1>1, TrackerAssumption DEF TypeOK, Setting
    <2>2. QED
      BY <1>1, <2>1 DEF TypeOK
  <1>6. p \in Reports /\ p \in Positions /\ Home(tracked, p)
    BY <1>3, <1>5 DEF Reports, Positions, Home
  <1> HIDE DEF p
  <1> DEFINE l == [Rec(m) EXCEPT !.state = s, !.pos = p, !.dirty = TRUE]
  <1>7. l \in Live
    BY <1>3, <1>4, <1>6, ZenonT(60) DEF Live
  <1>8. l.state = s /\ l.pos = p /\ l.area = Rec(m).area /\ l.ver = Rec(m).ver
    BY <1>3 DEF Live
  <1>9. heap' = [heap EXCEPT ![cur][m] = l]
    BY <1>2 DEF SetRec
  <1> HIDE DEF l
  <1>10. CASE NeedSync(m, known, s)
    <2>1. Goto(w, Holding("sync_copy", m, Nil)) /\ contacted' = contacted
      BY <1>2, <1>10
    <2>2. /\ work' \in [Workers -> Request] /\ \A v \in Workers \ {w} : work'[v] = work[v]
          /\ WorkOK(w)' /\ work'[w].pc \in Writings /\ work'[w].m = m /\ work'[w].inc = tracked
      <3>1. "sync_copy" \in Writings /\ Nil \in Live \cup {Nil} /\ UNCHANGED <<status, cur, tracked>>
        BY <1>1 DEF Writings
      <3>2. QED
        BY <1>1, <1>4, <1>6, <1>7, <1>8, <1>9, <2>1, <3>1, HoldingOK, ZenonT(60)
    <2>3. contacted \subseteq contacted' /\ contacted' \subseteq contacted \cup {<<tracked, m>>}
      BY <2>1
    <2>4. QED
      BY <1>1, <1>4, <1>5, <1>6, <1>7, <1>8, <1>9, <2>2, <2>3, SetRecKeeps, ZenonT(60)
  <1>11. CASE ~NeedSync(m, known, s)
    <2>1. s = Rec(m).state /\ work' = work /\ contacted' = contacted \cup {<<tracked, m>>}
      BY <1>2, <1>11 DEF NeedSync
    <2>2. WorkOK(w)'
      BY <1>1, <2>1 DEF WorkOK, Writings
    <2>3. work' \in [Workers -> Request]
      BY <1>1, <2>1 DEF TypeOK
    <2>4. /\ contacted \subseteq contacted' /\ contacted' \subseteq contacted \cup {<<tracked, m>>}
          /\ l.state = Rec(m).state /\ \A v \in Workers \ {w} : work'[v] = work[v]
      BY <1>8, <2>1
    <2>5. QED
      BY <1>1, <1>4, <1>5, <1>6, <1>7, <1>8, <1>9, <2>2, <2>3, <2>4, SetRecKeeps, ZenonT(60)
  <1>12. QED
    BY <1>10, <1>11

LEMMA MarkLoggedInKeeps ==
  ASSUME IInv, NEW w \in Workers, MarkLoggedIn(w)
  PROVE  IInv'
  <1> DEFINE m == work[w].m
             l == IF Rec(m).state = "NOTIFIED"
                  THEN [Rec(m) EXCEPT !.state = "LOGGED_IN", !.dirty = TRUE] ELSE Rec(m)
  <1>1. /\ TypeOK /\ TableOK /\ WorkOK(w) /\ work[w].pc = "login" /\ m \in Members
        /\ UNCHANGED <<setting, status, row, cur, tracked, flush, sent, raced, contacted>>
        /\ unheard' \subseteq Incidents \X Members
    BY DEF IInv, TypeOK, MarkLoggedIn, WorkOK
  <1>2. CASE Rec(m) = Nil
    <2>1. Goto(w, Idle) /\ heap' = heap
      BY <1>2 DEF MarkLoggedIn
    <2>2. work'[w] = Idle
      BY <1>1, <2>1, GotoTypes, IdleFields
    <2>3. Moves(w)
      BY <1>1, <2>2, EndMoves DEF Writings, Loadings
    <2>4. Alike /\ row' \in [Incidents -> Rows] /\ heap' \in [0 .. MaxLoads -> Tables]
      BY <1>1, <2>1, SameIsAlike
    <2>5. raced' \subseteq Members /\ contacted' \cup unheard' \subseteq Incidents \X Members
      BY <1>1 DEF TypeOK
    <2>6. QED
      BY <1>1, <2>1, <2>3, <2>4, <2>5, IdleFields, OneWorker
  <1>3. CASE Rec(m) # Nil
    <2>1. Goto(w, Holding("login_write", m, l)) /\ heap' = [heap EXCEPT ![cur][m] = l]
      BY <1>3 DEF MarkLoggedIn, SetRec
    <2>2. Rec(m) \in Live /\ Home(tracked, Rec(m).pos)
      BY <1>1, <1>3, RecKnown DEF RecOK
    <2>3. /\ l \in Live /\ l.state # "NOTIFIED" /\ l.area = Rec(m).area /\ l.ver = Rec(m).ver
          /\ Home(tracked, l.pos)
      <3> DEFINE n == [Rec(m) EXCEPT !.state = "LOGGED_IN", !.dirty = TRUE]
      <3>1. n \in Live
        BY <2>2, ZenonT(60) DEF Live, States, Waiting, Judged
      <3>2. n.state = "LOGGED_IN" /\ n.area = Rec(m).area /\ n.ver = Rec(m).ver /\ n.pos = Rec(m).pos
        BY <2>2 DEF Live
      <3>3. l = IF Rec(m).state = "NOTIFIED" THEN n ELSE Rec(m)
        OBVIOUS
      <3> HIDE DEF n, l
      <3>4. QED
        BY <2>2, <3>1, <3>2, <3>3
    <2> HIDE DEF l
    <2>4. /\ work' \in [Workers -> Request] /\ \A v \in Workers \ {w} : work'[v] = work[v]
          /\ WorkOK(w)' /\ work'[w].pc \in Writings /\ work'[w].m = m /\ work'[w].inc = tracked
      <3>1. "login_write" \in Writings /\ l \in Live \cup {Nil} /\ UNCHANGED <<status, cur, tracked>>
        BY <1>1, <2>3 DEF Writings
      <3>2. QED
        BY <1>1, <1>3, <2>1, <2>3, <3>1, HoldingOK, ZenonT(60)
    <2>5. /\ sent' \in [Members -> 0 .. MaxSent] /\ contacted \subseteq contacted'
          /\ contacted' \subseteq contacted \cup {<<tracked, m>>}
          /\ unheard' \subseteq Incidents \X Members
      BY <1>1 DEF TypeOK
    <2>6. QED
      BY <1>1, <1>3, <2>1, <2>3, <2>4, <2>5, SetRecKeeps, ZenonT(60)
  <1>4. QED
    BY <1>2, <1>3

LEMMA ConsentDeniedKeeps ==
  ASSUME IInv, NEW w \in Workers, NEW m \in Members, ConsentDenied(w, m)
  PROVE  IInv'
  <1> DEFINE l == IF Rec(m).state \in {"NOTIFIED", "LOGGED_IN"}
                  THEN [Rec(m) EXCEPT !.state = "LOC_DENIED", !.dirty = TRUE] ELSE Rec(m)
  <1>1. /\ TypeOK /\ TableOK /\ work[w].pc = "idle" /\ Rec(m) # Nil
        /\ heap' = [heap EXCEPT ![cur][m] = l] /\ Goto(w, Holding("deny_write", m, l))
        /\ UNCHANGED <<setting, status, row, cur, tracked, flush, sent, raced, contacted, unheard>>
    BY DEF IInv, ConsentDenied, Starts, SetRec
  <1>2. Rec(m) \in Live /\ Home(tracked, Rec(m).pos)
    BY <1>1, RecKnown DEF RecOK
  <1>3. /\ l \in Live /\ l.state # "NOTIFIED" /\ l.area = Rec(m).area /\ l.ver = Rec(m).ver
        /\ Home(tracked, l.pos)
    <2> DEFINE n == [Rec(m) EXCEPT !.state = "LOC_DENIED", !.dirty = TRUE]
    <2>1. n \in Live
      BY <1>2, ZenonT(60) DEF Live, States, Waiting, Judged
    <2>2. n.state = "LOC_DENIED" /\ n.area = Rec(m).area /\ n.ver = Rec(m).ver /\ n.pos = Rec(m).pos
      BY <1>2 DEF Live
    <2>3. l = IF Rec(m).state \in {"NOTIFIED", "LOGGED_IN"} THEN n ELSE Rec(m)
      OBVIOUS
    <2> HIDE DEF n, l
    <2>4. QED
      BY <1>2, <2>1, <2>2, <2>3
  <1> HIDE DEF l
  <1>4. /\ work' \in [Workers -> Request] /\ \A v \in Workers \ {w} : work'[v] = work[v]
        /\ WorkOK(w)' /\ work'[w].pc \in Writings /\ work'[w].m = m /\ work'[w].inc = tracked
    <2>1. "deny_write" \in Writings /\ l \in Live \cup {Nil} /\ UNCHANGED <<status, cur, tracked>>
      BY <1>1, <1>3 DEF Writings
    <2>2. QED
      BY <1>1, <1>3, <2>1, HoldingOK, ZenonT(60)
  <1>5. /\ sent' \in [Members -> 0 .. MaxSent] /\ contacted \subseteq contacted'
        /\ contacted' \subseteq contacted \cup {<<tracked, m>>}
        /\ unheard' \subseteq Incidents \X Members
    BY <1>1 DEF TypeOK
  <1>6. QED
    BY <1>1, <1>3, <1>4, <1>5, SetRecKeeps, ZenonT(60)

-----------------------------------------------------------------------------
(***************************************************************************)
(* Steps that write a phase                                                *)
(***************************************************************************)
(* What a copy that is not outdated says.                                  *)
LEMMA FreshCopy ==
  ASSUME NEW w \in Workers, NEW i \in Incidents, raced' = RacedBy(w, i), work[w].m \notin raced'
  PROVE  /\ work[w].m \notin raced /\ work[w].gen = cur /\ Active(i)
         /\ Rec(work[w].m).state = work[w].snap.state
         /\ row[i][work[w].m].area = work[w].snap.area
  BY DEF RacedBy, Outdated

LEMMA RacedGrows ==
  ASSUME NEW w \in Workers, NEW i \in Incidents, raced' = RacedBy(w, i),
         TypeOK, work[w].m \in Members
  PROVE  raced \subseteq raced' /\ raced' \subseteq Members
         /\ \A x \in Members \ {work[w].m} : x \in raced' <=> x \in raced
  BY DEF RacedBy, TypeOK

LEMMA PutRowKeeps ==
  ASSUME IInv, NEW w \in Workers, NEW i \in Incidents, NEW m \in Members, NEW n \in Row, NEW s \in Live,
         Opened(i), m = work[w].m, s = work[w].snap,
         work[w].pc \in {"sync_write", "login_write", "deny_write"},
         row' = [row EXCEPT ![i][m] = n], Home(i, n.pos), n.state = s.state,
         n.judged = IF s.state \in Judged THEN s.area ELSE Nil,
         n.area = row[i][m].area, n.ver = row[i][m].ver,
         i = work[w].inc \/ i = tracked, raced' = RacedBy(w, i),
         UNCHANGED <<setting, status, heap, cur, tracked, flush, sent, unheard>>,
         work' \in [Workers -> Request], \A v \in Workers \ {w} : work'[v] = work[v],
         WorkOK(w)', work'[w].pc \in {"idle", "sync_clear"},
         contacted' \subseteq contacted \cup {<<i, m>>},
         work[w].inc = i \/ <<work[w].inc, m>> \notin contacted'
  PROVE  IInv'
  <1>1. /\ TypeOK /\ TableOK /\ HoldsOK(work[w]) /\ CopyOK(s, work[w].inc)
        /\ tracked \in Incidents \cup {Nil} /\ cur \in 0 .. MaxLoads
    BY DEF IInv, WorkOK, TypeOK, Writings
  <1>2. row \in [Incidents -> [Members -> Row \cup {Nil}]]
    BY <1>1 DEF TypeOK, Rows
  <1>3. /\ row' \in [Incidents -> [Members -> Row \cup {Nil}]] /\ row'[i][m] = n
        /\ \A j \in Incidents, x \in Members : ~(j = i /\ x = m) => row'[j][x] = row[j][x]
        /\ \A j \in Incidents \ {i} : row'[j] = row[j]
    BY <1>2
  <1>4. raced \subseteq raced' /\ raced' \subseteq Members
        /\ \A x \in Members \ {m} : x \in raced' <=> x \in raced
    BY <1>1, RacedGrows
  <1>5. n.state # "NOTIFIED"
    BY <1>1 DEF CopyOK
  <1>6. TypeOK'
    BY <1>1, <1>3, <1>4 DEF TypeOK, Rows
  <1>7. /\ \A j \in Incidents : (Opened(j)' <=> Opened(j)) /\ (Active(j)' <=> Active(j))
        /\ OneActive' /\ FlushOK' /\ (Current => Current')
    BY DEF IInv, Opened, Active, OneActive, FlushOK, Current
  <1>8. TableOK' /\ \A x \in Members : Rec(x)' = Rec(x)
    BY <1>1 DEF TableOK, Rec, RecOK, Opened
  <1>9. ASSUME NEW j \in Incidents PROVE RowsOK(j)'
    <2>1. CASE j = i
      <3>1. \A x \in Members : RowOK(i, x)
        BY DEF IInv, RowsOK
      <3>2. \A x \in Members : RowOK(i, x)'
        BY <1>3, <3>1 DEF RowOK
      <3>3. QED
        BY <1>7, <2>1, <3>2 DEF RowsOK
    <2>2. CASE j # i
      BY <1>3, <1>7, <2>2 DEF IInv, RowsOK, RowOK
    <2>3. QED
      BY <2>1, <2>2
  <1>10. Calm
    <2>1. Forward
      BY <1>3, <1>5, <1>7 DEF Forward
    <2>2. \A g \in 0 .. MaxLoads, x \in Members : RecForward(g, x)
      BY DEF RecForward
    <2>3. QED
      BY <2>1, <2>2 DEF Calm
  <1>11. \A v \in Workers : WorkOK(v)'
    BY <1>1, <1>10, OtherWorks DEF IInv
  <1>12. /\ Reloading => Reloading'
         /\ \A x \in Members \ {m} : Writing(x) => Writing(x)'
    BY DEF Reloading, Writing
  <1>13. ASSUME NEW x \in Members PROVE AgreeOK(x)'
    <2> SUFFICES ASSUME x \notin raced', ~Reloading', tracked # Nil
                 PROVE  /\ Current'
                        /\ Rec(x)'.area = row'[tracked][x].area /\ Rec(x)'.ver = row'[tracked][x].ver
                        /\ Rec(x)'.state = row'[tracked][x].state \/ Writing(x)'
      <3>1. tracked = Nil => AgreeOK(x)' \/ x \notin raced
        BY <1>4 DEF AgreeOK
      <3>2. tracked = Nil /\ x \notin raced /\ ~Reloading => Current'
        BY <1>7 DEF IInv, AgreeOK
      <3>3. QED
        BY <1>4, <1>12, <3>1, <3>2 DEF AgreeOK
    <2>1. x \notin raced /\ ~Reloading /\ AgreeOK(x)
      BY <1>4, <1>12 DEF IInv
    <2>2. /\ Current /\ Rec(x).area = row[tracked][x].area /\ Rec(x).ver = row[tracked][x].ver
          /\ Rec(x).state = row[tracked][x].state \/ Writing(x)
      BY <2>1 DEF AgreeOK
    <2>3. CASE x # m
      <3>1. row'[tracked][x] = row[tracked][x] /\ Rec(x)' = Rec(x)
        BY <1>1, <1>3, <1>8, <2>3
      <3>2. QED
        BY <1>7, <1>12, <2>2, <2>3, <3>1
    <2>4. CASE x = m
      <3>1. work[w].gen = cur /\ Rec(m).state = s.state
        BY <2>4, FreshCopy
      <3>2. i = tracked
        BY <1>1, <3>1 DEF HoldsOK
      <3>3. QED
        BY <1>3, <1>7, <1>8, <2>2, <2>4, <3>1, <3>2
    <2>5. QED
      BY <2>3, <2>4
  <1>14. ASSUME NEW x \in Members PROVE ArrivalOK(x)'
    <2> SUFFICES ASSUME NEW j \in Incidents, x \notin raced', Active(j)', row'[j][x].state \in Judged
                 PROVE  row'[j][x].judged = row'[j][x].area
      BY DEF ArrivalOK
    <2>1. CASE j = i /\ x = m
      <3>1. row[i][m].area = s.area
        BY <2>1, FreshCopy
      <3>2. QED
        BY <1>3, <2>1, <3>1
    <2>2. CASE ~(j = i /\ x = m)
      <3>1. x \notin raced /\ Active(j) /\ row'[j][x] = row[j][x]
        BY <1>3, <1>4, <1>7, <2>2
      <3>2. QED
        BY <3>1 DEF IInv, ArrivalOK
    <2>3. QED
      BY <2>1, <2>2
  <1>15. ASSUME NEW j \in Incidents, NEW x \in Members PROVE ContactOK(j, x)'
    <2>1. <<j, x>> \in contacted' => Opened(j)'
      BY <1>7 DEF IInv, ContactOK
    <2> SUFFICES ASSUME Active(j)', ~setting.fail, Answerable(j, x)'
                 PROVE  row'[j][x].state # "NOTIFIED" \/ WillLogIn(j, x)'
      BY <2>1 DEF ContactOK
    <2>2. CASE j = i /\ x = m
      BY <1>3, <1>5, <2>2
    <2>3. CASE ~(j = i /\ x = m)
      <3>1. Active(j) /\ ContactOK(j, x) /\ Answerable(j, x) /\ row'[j][x] = row[j][x]
        BY <1>3, <1>7, <1>8, <2>3 DEF IInv, Answerable
      <3>2. row[j][x].state # "NOTIFIED" \/ WillLogIn(j, x)
        BY <3>1 DEF ContactOK
      <3>3. ASSUME WillLogIn(j, x) PROVE WillLogIn(j, x)'
        <4>1. PICK v \in Workers : work[v].pc \in Writings /\ work[v].m = x /\ work[v].inc = j
          BY <3>3 DEF WillLogIn
        <4>2. CASE v = w
          <5>1. x = m /\ j = work[w].inc /\ j # i
            BY <2>3, <4>1, <4>2
          <5>2. i = tracked /\ <<j, x>> \notin contacted'
            BY <5>1
          <5>3. ~Answerable(j, x)'
            BY <5>1, <5>2 DEF Answerable
          <5>4. QED
            BY <5>3
        <4>3. CASE v # w
          BY <4>1, <4>3 DEF WillLogIn
        <4>4. QED
          BY <4>2, <4>3
      <3>4. QED
        BY <3>1, <3>2, <3>3
    <2>4. QED
      BY <2>2, <2>3
  <1>16. QED
    BY <1>6, <1>7, <1>8, <1>9, <1>11, <1>13, <1>14, <1>15 DEF IInv

LEMMA SyncWriteKeeps ==
  ASSUME IInv, NEW w \in Workers, SyncWrite(w)
  PROVE  IInv'
  <1> DEFINE r == work[w]
             i == r.inc
             m == r.m
             s == r.snap
             p == PutState(row[i][m], s)
             n == [p EXCEPT !.pos = s.pos]
             k == [r EXCEPT !.pc = "sync_clear"]
  <1>1. /\ TypeOK /\ r \in Request /\ WorkOK(w) /\ r.pc = "sync_write" /\ Goto(w, k)
        /\ row' = [row EXCEPT ![i][m] = [PutState(@, s) EXCEPT !.pos = s.pos]]
        /\ raced' = RacedBy(w, i)
        /\ UNCHANGED <<setting, status, heap, cur, tracked, flush, sent, unheard>> /\ contacted' = contacted
    BY DEF IInv, TypeOK, SyncWrite
  <1>2. /\ HoldsOK(r) /\ CopyOK(s, i) /\ heap[r.gen][m] \in Live
        /\ i \in Incidents /\ m \in Members /\ Opened(i) /\ s \in Live
    BY <1>1 DEF WorkOK, Writings, HoldsOK, CopyOK
  <1>3. row[i][m] \in Row
    BY <1>2 DEF IInv, RowsOK, RowOK
  <1>4. /\ p \in Row /\ p.state = s.state /\ p.area = row[i][m].area /\ p.ver = row[i][m].ver
        /\ p.judged = IF s.state \in Judged THEN s.area ELSE Nil
    BY <1>2, <1>3, PutStateFields
  <1>5. row' = [row EXCEPT ![i][m] = n]
    BY <1>1
  <1> HIDE DEF p
  <1>6. n \in Row /\ n.state = s.state /\ n.area = row[i][m].area /\ n.ver = row[i][m].ver
        /\ n.judged = (IF s.state \in Judged THEN s.area ELSE Nil) /\ n.pos = s.pos /\ Home(i, n.pos)
    <2>1. s.pos \in Positions
      BY <1>2 DEF Live
    <2>2. n \in Row
      BY <1>4, <2>1, ZenonT(60) DEF Row
    <2>3. n.state = p.state /\ n.area = p.area /\ n.ver = p.ver /\ n.judged = p.judged /\ n.pos = s.pos
      BY <1>4 DEF Row
    <2>4. QED
      BY <1>2, <1>4, <2>2, <2>3 DEF CopyOK
  <1> HIDE DEF n
  <1>7. k \in Request /\ k.pc = "sync_clear" /\ k.m = m /\ k.gen = r.gen /\ k.inc = i
    <2>1. k \in Request
      BY <1>1, ZenonT(60) DEF Request, PCs
    <2>2. QED
      BY <1>1, <2>1 DEF Request
  <1> HIDE DEF k
  <1>8. work' \in [Workers -> Request] /\ work'[w] = k /\ \A v \in Workers \ {w} : work'[v] = work[v]
    BY <1>1, <1>7, GotoTypes
  <1>9. row'[i][m].state # "NOTIFIED"
    <2>1. row'[i][m] = n
      BY <1>1, <1>2, <1>5 DEF TypeOK, Rows
    <2>2. QED
      BY <1>2, <1>6, <2>1 DEF CopyOK
  <1>10. WorkOK(w)'
    <2>1. HoldsOK(work[w])'
      BY <1>1, <1>2, <1>7, <1>8 DEF HoldsOK, Opened
    <2>2. heap'[work'[w].gen][work'[w].m] \in Live
      BY <1>1, <1>2, <1>7, <1>8
    <2>3. row'[work'[w].inc][work'[w].m].state # "NOTIFIED"
      BY <1>7, <1>8, <1>9
    <2>4. QED
      BY <1>7, <1>8, <2>1, <2>2, <2>3 DEF WorkOK, Writings
  <1>11. /\ work'[w].pc \in {"idle", "sync_clear"} /\ contacted' \subseteq contacted \cup {<<i, m>>}
         /\ i = work[w].inc \/ i = tracked
         /\ work[w].inc = i \/ <<work[w].inc, m>> \notin contacted'
         /\ work[w].pc \in {"sync_write", "login_write", "deny_write"}
    BY <1>1, <1>7, <1>8
  <1>12. QED
    BY <1>1, <1>2, <1>5, <1>6, <1>8, <1>10, <1>11, PutRowKeeps, ZenonT(60)

LEMMA LoginWriteKeeps ==
  ASSUME IInv, NEW w \in Workers, LoginWrite(w)
  PROVE  IInv'
  <1> DEFINE i == work[w].inc
             m == work[w].m
             s == work[w].snap
             n == PutState(row[i][m], s)
  <1>1. /\ TypeOK /\ WorkOK(w) /\ work[w].pc = "login_write" /\ Goto(w, Idle)
        /\ row' = [row EXCEPT ![i][m] = n] /\ raced' = RacedBy(w, i)
        /\ contacted' = contacted \cup {<<i, m>>}
        /\ UNCHANGED <<setting, status, heap, cur, tracked, flush, sent, unheard>>
    BY DEF IInv, LoginWrite
  <1>2. i \in Incidents /\ m \in Members /\ Opened(i) /\ s \in Live /\ CopyOK(s, i)
    BY <1>1 DEF WorkOK, Writings, HoldsOK, CopyOK
  <1>3. row[i][m] \in Row /\ Home(i, row[i][m].pos)
    BY <1>2 DEF IInv, RowsOK, RowOK
  <1>4. /\ n \in Row /\ n.state = s.state /\ n.area = row[i][m].area /\ n.ver = row[i][m].ver
        /\ n.judged = (IF s.state \in Judged THEN s.area ELSE Nil) /\ Home(i, n.pos)
    <2> HIDE DEF i, m, s
    <2>1. QED
      BY <1>2, <1>3, PutStateFields
  <1> HIDE DEF n
  <1>5. work' \in [Workers -> Request] /\ work'[w] = Idle /\ \A v \in Workers \ {w} : work'[v] = work[v]
    BY <1>1, IdleFields, GotoTypes
  <1>6. WorkOK(w)'
    BY <1>5, IdleOK
  <1>7. /\ work'[w].pc \in {"idle", "sync_clear"} /\ contacted' \subseteq contacted \cup {<<i, m>>}
        /\ i = work[w].inc \/ i = tracked
        /\ work[w].inc = i \/ <<work[w].inc, m>> \notin contacted'
        /\ work[w].pc \in {"sync_write", "login_write", "deny_write"}
    BY <1>1, <1>5, IdleFields
  <1>8. QED
    BY <1>1, <1>2, <1>4, <1>5, <1>6, <1>7, PutRowKeeps, ZenonT(60)

LEMMA DenyWriteKeeps ==
  ASSUME IInv, NEW w \in Workers, DenyWrite(w)
  PROVE  IInv'
  <1> DEFINE i == tracked
             m == work[w].m
             s == work[w].snap
             n == PutState(row[i][m], s)
  <1>1. /\ TypeOK /\ TableOK /\ WorkOK(w) /\ work[w].pc = "deny_write" /\ Goto(w, Idle)
        /\ contacted' = IF i = work[w].inc THEN contacted ELSE contacted \ {<<work[w].inc, m>>}
        /\ UNCHANGED <<setting, status, heap, cur, tracked, flush, sent, unheard>>
    BY DEF IInv, DenyWrite
  <1>2. m \in Members /\ s \in Live /\ work[w].inc \in Incidents
    BY <1>1 DEF WorkOK, Writings, HoldsOK, CopyOK
  <1>3. work' \in [Workers -> Request] /\ work'[w] = Idle /\ \A v \in Workers \ {w} : work'[v] = work[v]
    BY <1>1, IdleFields, GotoTypes
  <1>4. WorkOK(w)'
    BY <1>3, IdleOK
  <1>5. CASE HasRow(m)
    <2>1. row' = [row EXCEPT ![i][m] = n] /\ raced' = RacedBy(w, i)
      BY <1>5 DEF DenyWrite
    <2>2. i \in Incidents /\ Opened(i)
      BY <1>1, <1>5 DEF HasRow, TypeOK, TableOK
    <2>3. row[i][m] \in Row /\ Home(i, row[i][m].pos)
      BY <1>2, <2>2 DEF IInv, RowsOK, RowOK
    <2>4. /\ n \in Row /\ n.state = s.state /\ n.area = row[i][m].area /\ n.ver = row[i][m].ver
          /\ n.judged = (IF s.state \in Judged THEN s.area ELSE Nil) /\ Home(i, n.pos)
      BY <1>2, <2>3, PutStateFields
    <2> HIDE DEF n
    <2>5. /\ work'[w].pc \in {"idle", "sync_clear"} /\ contacted' \subseteq contacted \cup {<<i, m>>}
          /\ i = work[w].inc \/ i = tracked
          /\ work[w].inc = i \/ <<work[w].inc, m>> \notin contacted'
          /\ work[w].pc \in {"sync_write", "login_write", "deny_write"}
      BY <1>1, <1>3, IdleFields
    <2>6. QED
      BY <1>1, <1>2, <1>3, <1>4, <2>1, <2>2, <2>4, <2>5, PutRowKeeps, ZenonT(60)
  <1>6. CASE ~HasRow(m)
    <2>1. UNCHANGED <<row, raced>>
      BY <1>6 DEF DenyWrite
    <2>2. tracked = Nil
      <3>1. SUFFICES ASSUME tracked # Nil PROVE FALSE
        OBVIOUS
      <3>2. tracked \in Incidents /\ Opened(tracked)
        BY <1>1, <3>1 DEF TypeOK, TableOK
      <3>3. row[tracked][m] \in Row
        BY <1>2, <3>2 DEF IInv, RowsOK, RowOK
      <3>4. QED
        BY <1>6, <3>1, <3>3, NotNil DEF HasRow
    <2>3. Moves(w)
      <3>1. GivenUp(w)
        BY <1>1, <1>2, <2>2, NotNil DEF GivenUp
      <3>2. QED
        BY <1>1, <1>4, <3>1 DEF Moves, Loadings
    <2>4. Alike /\ row' \in [Incidents -> Rows] /\ heap' \in [0 .. MaxLoads -> Tables]
      BY <1>1, <2>1, SameIsAlike
    <2>5. /\ raced \subseteq raced' /\ raced' \subseteq Members
          /\ contacted' \subseteq contacted /\ contacted' \cup unheard' \subseteq Incidents \X Members
      BY <1>1, <2>1 DEF TypeOK
    <2>6. QED
      BY <1>1, <2>3, <2>4, <2>5, IdleFields, OneWorker
  <1>7. QED
    BY <1>5, <1>6

-----------------------------------------------------------------------------
(***************************************************************************)
(* The administrators                                                      *)
(***************************************************************************)
(* A change that ends in a reload: until then memory need not agree.       *)
LEMMA AdminKeeps ==
  ASSUME IInv, NEW w \in Workers, work[w].pc = "idle", Reload(w),
         UNCHANGED <<setting, heap, cur, tracked, flush, sent, raced, contacted, unheard>>,
         status' \in [Incidents -> {"none", "active", "closed"}], row' \in [Incidents -> Rows],
         Forward, OneActive', \A i \in Incidents : RowsOK(i)',
         \A m \in Members : ArrivalOK(m)',
         \A i \in Incidents : Active(i)' => Active(i) \/ ~Opened(i)
  PROVE  IInv'
  <1> DEFINE n == [Idle EXCEPT !.pc = "load_active"]
  <1>1. TypeOK /\ TableOK /\ FlushOK /\ Goto(w, n)
    BY DEF IInv, Reload
  <1>2. n \in Request /\ n.pc = "load_active" /\ n.inc = Nil
    <2>1. n \in Request
      BY IdleFields, ZenonT(60) DEF Request, PCs
    <2>2. QED
      BY <2>1 DEF Idle
  <1> HIDE DEF n
  <1>3. work' \in [Workers -> Request] /\ work'[w] = n /\ \A v \in Workers \ {w} : work'[v] = work[v]
    BY <1>1, <1>2, GotoTypes
  <1>4. TypeOK'
    BY <1>1, <1>3 DEF TypeOK
  <1>5. Calm
    BY DEF Calm, RecForward
  <1>6. WorkOK(w)'
    BY <1>2, <1>3 DEF WorkOK, Writings
  <1>7. \A v \in Workers : WorkOK(v)'
    BY <1>1, <1>3, <1>5, <1>6, OtherWorks DEF IInv
  <1>8. TableOK' /\ FlushOK'
    <2>1. \A m \in Members : RecOK(m)' <=> RecOK(m)
      BY DEF RecOK, Rec
    <2>2. tracked \in Incidents \cup {Nil}
      BY <1>1 DEF TypeOK
    <2>3. QED
      BY <1>1, <2>1, <2>2 DEF TableOK, FlushOK, Forward
  <1>9. Reloading'
    BY <1>2, <1>3 DEF Reloading
  <1>10. \A m \in Members : AgreeOK(m)'
    BY <1>9 DEF AgreeOK
  <1>11. ASSUME NEW i \in Incidents, NEW m \in Members PROVE ContactOK(i, m)'
    <2>1. <<i, m>> \in contacted' => Opened(i) /\ Opened(i)'
      BY DEF IInv, ContactOK, Forward
    <2> SUFFICES ASSUME Active(i)', ~setting.fail, Answerable(i, m)'
                 PROVE  row'[i][m].state # "NOTIFIED" \/ WillLogIn(i, m)'
      BY <2>1 DEF ContactOK
    <2>2. Answerable(i, m)
      BY DEF Answerable, Rec
    <2>3. Opened(i)
      BY <1>1, <2>1, <2>2, NotNil DEF Answerable, TableOK
    <2>4. row[i][m].state # "NOTIFIED" \/ WillLogIn(i, m)
      <3>1. Active(i)
        BY <2>3
      <3>2. ContactOK(i, m)
        BY DEF IInv
      <3>3. QED
        BY <2>2, <3>1, <3>2 DEF ContactOK
    <2>5. WillLogIn(i, m) => WillLogIn(i, m)'
      BY <1>3 DEF WillLogIn, Writings
    <2>6. QED
      BY <2>3, <2>4, <2>5 DEF Forward
  <1>12. QED
    BY <1>4, <1>7, <1>8, <1>10, <1>11 DEF IInv

LEMMA OpenKeeps ==
  ASSUME IInv, NEW w \in Workers, NEW a \in Areas, Open(w, a)
  PROVE  IInv'
  <1> DEFINE new == [m \in Members |->
                       [state |-> "NOTIFIED", pos |-> Nil, ack |-> 1, ver |-> 1, area |-> a,
                        judged |-> Nil]]
  <1>1. /\ TypeOK /\ OneActive /\ work[w].pc = "idle" /\ ActiveInc = Nil /\ Reload(w)
        /\ UNCHANGED <<setting, heap, cur, tracked, flush, sent, raced, contacted, unheard>>
    BY DEF IInv, Open
  <1>2. PICK i \in setting.incidents : /\ status[i] = "none"
                                       /\ status' = [status EXCEPT ![i] = "active"]
                                       /\ row' = [row EXCEPT ![i] = new]
    BY ZenonT(60) DEF Open
  <1>3. i \in Incidents /\ status \in [Incidents -> {"none", "active", "closed"}] /\ row \in [Incidents -> Rows]
    BY <1>1, TrackerAssumption DEF TypeOK, Setting
  <1>4. \A m \in Members : new[m] \in Row /\ Home(i, new[m].pos) /\ new[m].state = "NOTIFIED"
    BY NotNil, TrackerAssumption DEF Row, States, Waiting, Positions, Home
  <1>5. new \in Rows
    BY <1>4 DEF Rows
  <1> HIDE DEF new
  <1>6. /\ status' \in [Incidents -> {"none", "active", "closed"}] /\ row' \in [Incidents -> Rows]
        /\ row'[i] = new /\ \A j \in Incidents \ {i} : row'[j] = row[j]
        /\ \A j \in Incidents : (Opened(j)' <=> Opened(j) \/ j = i) /\ (Active(j)' <=> Active(j) \/ j = i)
    BY <1>2, <1>3, <1>5 DEF Opened, Active
  <1>7. \A j \in Incidents : ~Active(j)
    BY <1>1, ActiveIncIs
  <1>8. ~Opened(i)
    BY <1>2 DEF Opened
  <1>9. OneActive'
    BY <1>6, <1>7 DEF OneActive
  <1>10. Forward
    BY <1>6, <1>8 DEF Forward
  <1>11. ASSUME NEW j \in Incidents PROVE RowsOK(j)'
    <2>1. CASE j = i
      BY <1>4, <1>6, <2>1 DEF RowsOK, RowOK
    <2>2. CASE j # i
      BY <1>6, <2>2 DEF IInv, RowsOK, RowOK
    <2>3. QED
      BY <2>1, <2>2
  <1>12. \A m \in Members : ArrivalOK(m)'
    BY <1>4, <1>6, <1>7 DEF ArrivalOK, Judged
  <1>13. \A j \in Incidents : Active(j)' => Active(j) \/ ~Opened(j)
    BY <1>6, <1>8
  <1>14. QED
    BY <1>1, <1>6, <1>9, <1>10, <1>11, <1>12, <1>13, AdminKeeps

LEMMA ReassignKeeps ==
  ASSUME IInv, NEW w \in Workers, NEW m \in Members, NEW a \in Areas, Reassign(w, m, a)
  PROVE  IInv'
  <1>1. /\ TypeOK /\ OneActive /\ work[w].pc = "idle" /\ Reload(w)
        /\ UNCHANGED <<setting, status, heap, cur, tracked, flush, sent, raced, contacted, unheard>>
    BY DEF IInv, Reassign, Starts
  <1>2. PICK i \in Incidents :
          LET r == row[i][m] IN
          /\ Active(i) /\ r.ver < MaxVer
          /\ row' = [row EXCEPT ![i][m] =
               IF a = r.area THEN [r EXCEPT !.ver = @ + 1]
               ELSE [r EXCEPT !.area = a, !.ver = @ + 1, !.judged = Nil, !.state = AfterMove(@)]]
    BY ZenonT(60) DEF Reassign
  <1> DEFINE r == row[i][m]
             v == r.ver + 1
             moved == [r EXCEPT !.area = a, !.ver = v, !.judged = Nil, !.state = AfterMove(r.state)]
             stays == [r EXCEPT !.ver = v]
             n == IF a = r.area THEN stays ELSE moved
  <1>3. Opened(i) /\ r \in Row /\ Home(i, r.pos)
    <2>1. Opened(i)
      BY <1>2 DEF Opened, Active
    <2>2. QED
      BY <2>1 DEF IInv, RowsOK, RowOK
  <1>4. v \in 1 .. MaxVer /\ AfterMove(r.state) \in States \ Judged
        /\ (AfterMove(r.state) = "NOTIFIED" => r.state = "NOTIFIED")
    BY <1>2, <1>3, TrackerAssumption DEF Row, AfterMove, States, Judged, Waiting
  <1>5. row' = [row EXCEPT ![i][m] = n]
    BY <1>2, <1>3 DEF Row
  <1> HIDE DEF v
  <1>6. /\ n \in Row /\ Home(i, n.pos) /\ (n.state = "NOTIFIED" => r.state = "NOTIFIED")
        /\ \/ n.state \notin Judged
           \/ n.state = r.state /\ n.judged = r.judged /\ n.area = r.area
    <2>1. stays \in Row
      BY <1>3, <1>4, ZenonT(60) DEF Row
    <2>2. stays.pos = r.pos /\ stays.state = r.state /\ stays.judged = r.judged /\ stays.area = r.area
      BY <1>3 DEF Row
    <2>3. moved \in Row
      <3>1. Nil \in Areas \cup {Nil} /\ AfterMove(r.state) \in States
        BY <1>4
      <3>2. QED
        BY <1>3, <1>4, <3>1, ZenonT(60) DEF Row
    <2>4. moved.pos = r.pos /\ moved.state = AfterMove(r.state)
      BY <1>3 DEF Row
    <2> HIDE DEF stays, moved
    <2>5. QED
      BY <1>3, <1>4, <2>1, <2>2, <2>3, <2>4
  <1> HIDE DEF n
  <1>7. row \in [Incidents -> [Members -> Row \cup {Nil}]]
    BY <1>1 DEF TypeOK, Rows
  <1>8. /\ row' \in [Incidents -> [Members -> Row \cup {Nil}]] /\ row'[i][m] = n
        /\ \A j \in Incidents, x \in Members : ~(j = i /\ x = m) => row'[j][x] = row[j][x]
        /\ \A j \in Incidents \ {i} : row'[j] = row[j]
    BY <1>5, <1>6, <1>7
  <1>9. \A j \in Incidents : (Opened(j)' <=> Opened(j)) /\ (Active(j)' <=> Active(j))
    BY <1>1 DEF Opened, Active
  <1>10. OneActive'
    BY <1>1, <1>9 DEF OneActive
  <1>11. Forward
    BY <1>6, <1>8, <1>9 DEF Forward
  <1>12. ASSUME NEW j \in Incidents PROVE RowsOK(j)'
    <2>1. CASE j = i
      <3>1. \A x \in Members : RowOK(i, x)
        BY <1>3 DEF IInv, RowsOK
      <3>2. \A x \in Members : RowOK(i, x)'
        BY <1>6, <1>8, <3>1 DEF RowOK
      <3>3. QED
        BY <1>3, <1>9, <2>1, <3>2 DEF RowsOK
    <2>2. CASE j # i
      BY <1>8, <1>9, <2>2 DEF IInv, RowsOK, RowOK
    <2>3. QED
      BY <2>1, <2>2
  <1>13. ASSUME NEW x \in Members PROVE ArrivalOK(x)'
    <2> SUFFICES ASSUME NEW j \in Incidents, x \notin raced, Active(j), row'[j][x].state \in Judged
                 PROVE  row'[j][x].judged = row'[j][x].area
      BY <1>1, <1>9 DEF ArrivalOK
    <2>1. ArrivalOK(x)
      BY DEF IInv
    <2>2. CASE j = i /\ x = m
      BY <1>6, <1>8, <2>1, <2>2 DEF ArrivalOK
    <2>3. CASE ~(j = i /\ x = m)
      BY <1>8, <2>1, <2>3 DEF ArrivalOK
    <2>4. QED
      BY <2>2, <2>3
  <1>14. status' \in [Incidents -> {"none", "active", "closed"}] /\ row' \in [Incidents -> Rows]
    BY <1>1, <1>8 DEF TypeOK, Rows
  <1>15. QED
    BY <1>1, <1>9, <1>10, <1>11, <1>12, <1>13, <1>14, AdminKeeps

LEMMA CloseKeeps ==
  ASSUME IInv, NEW w \in Workers, Close(w)
  PROVE  IInv'
  <1>1. /\ TypeOK /\ OneActive /\ work[w].pc = "idle" /\ Reload(w)
        /\ UNCHANGED <<setting, row, heap, cur, tracked, flush, sent, raced, contacted, unheard>>
    BY DEF IInv, Close, Starts
  <1>2. PICK i \in Incidents : Active(i) /\ status' = [status EXCEPT ![i] = "closed"]
    BY ZenonT(60) DEF Close
  <1>3. /\ status' \in [Incidents -> {"none", "active", "closed"}] /\ row' \in [Incidents -> Rows]
        /\ \A j \in Incidents : (Opened(j)' <=> Opened(j)) /\ (Active(j)' => Active(j))
    BY <1>1, <1>2 DEF TypeOK, Opened, Active
  <1>4. OneActive'
    BY <1>1, <1>3 DEF OneActive
  <1>5. Forward
    BY <1>1, <1>3 DEF Forward
  <1>6. \A j \in Incidents : RowsOK(j)'
    BY <1>1, <1>3 DEF IInv, RowsOK, RowOK
  <1>7. \A m \in Members : ArrivalOK(m)'
    BY <1>1, <1>3 DEF IInv, ArrivalOK
  <1>8. QED
    BY <1>1, <1>3, <1>4, <1>5, <1>6, <1>7, AdminKeeps

-----------------------------------------------------------------------------
(***************************************************************************)
(* The swap that ends a reload, and a restart                              *)
(***************************************************************************)
LEMMA SwapTypes ==
  ASSUME TypeOK, NEW table \in Tables, NEW held, Swap(table, held)
  PROVE  /\ cur' = cur + 1 /\ cur \in 0 .. MaxLoads /\ cur' \in 0 .. MaxLoads
         /\ heap' \in [0 .. MaxLoads -> Tables] /\ heap'[cur'] = table
         /\ \A g \in 0 .. MaxLoads : g \in held /\ g # cur' => heap'[g] = heap[g]
  <1>1. /\ cur < setting.loads /\ cur' = cur + 1
        /\ heap' = [g \in 0 .. MaxLoads |->
                      IF g = cur + 1 THEN table ELSE IF g \in held THEN heap[g] ELSE NoTable]
    BY DEF Swap
  <1>2. cur \in 0 .. MaxLoads /\ cur' \in 0 .. MaxLoads
    <2>1. setting.loads \in 0 .. MaxLoads /\ cur \in 0 .. MaxLoads
      BY TrackerAssumption DEF TypeOK, Setting
    <2>2. QED
      BY <1>1, <2>1, TrackerAssumption
  <1>3. NoTable \in Tables /\ heap \in [0 .. MaxLoads -> Tables]
    BY DEF NoTable, Tables, TypeOK
  <1>4. QED
    BY <1>1, <1>2, <1>3

LEMMA LoadedTable ==
  ASSUME NEW rows, \A m \in Members : rows[m] \in Row
  PROVE  /\ TableOf(rows) \in Tables
         /\ \A m \in Members :
              LET l == TableOf(rows)[m] IN
              /\ l \in Live /\ l.state = rows[m].state /\ l.pos = rows[m].pos
              /\ l.area = rows[m].area /\ l.ver = rows[m].ver
  <1> DEFINE l(m) == [state |-> rows[m].state, pos |-> rows[m].pos, ack |-> rows[m].ack,
                      ver |-> rows[m].ver, area |-> rows[m].area, dirty |-> FALSE]
  <1>1. ASSUME NEW m \in Members
        PROVE  /\ TableOf(rows)[m] = l(m) /\ l(m) \in Live
               /\ l(m).state = rows[m].state /\ l(m).pos = rows[m].pos
               /\ l(m).area = rows[m].area /\ l(m).ver = rows[m].ver
    <2>1. rows[m] # Nil /\ rows[m] \in Row
      BY NotNil
    <2>2. TableOf(rows)[m] = l(m)
      BY <2>1 DEF TableOf
    <2>3. l(m) \in Live
      BY <2>1 DEF Row, Live
    <2>4. QED
      BY <2>2, <2>3
  <1> HIDE DEF l
  <1>2. TableOf(rows) = [m \in Members |-> TableOf(rows)[m]]
    BY DEF TableOf
  <1>3. TableOf(rows) \in [Members -> Live \cup {Nil}]
    BY <1>1, <1>2
  <1>4. QED
    BY <1>1, <1>3 DEF Tables

(* A table built from a reading of incident i comes in.                    *)
LEMMA SwapKeeps ==
  ASSUME IInv, NEW i \in Incidents \cup {Nil}, NEW rows, NEW held,
         i # Nil => /\ Opened(i)
                    /\ \A m \in Members :
                         /\ rows[m] \in Row /\ Home(i, rows[m].pos)
                         /\ rows[m].state # "NOTIFIED" => row[i][m].state # "NOTIFIED",
         Swap(IF i = Nil THEN NoTable ELSE TableOf(rows), held), tracked' = i,
         UNCHANGED <<setting, status, row, sent, contacted, unheard>>,
         work' \in [Workers -> Request], \A v \in Workers : WorkOK(v)',
         flush' = flush \/ flush' = NoFlush, raced' \subseteq Members,
         \A m \in Members \ raced' :
           i = ActiveInc /\ (i # Nil => m \notin Misjudged(i) /\ rows[m] = row[i][m]),
         \A j \in Incidents, m \in Members : WillLogIn(j, m) => WillLogIn(j, m)' \/ setting.fail
  PROVE  IInv'
  <1> DEFINE table == IF i = Nil THEN NoTable ELSE TableOf(rows)
  <1>1. TypeOK /\ FlushOK /\ OneActive
    BY DEF IInv
  <1>2. table \in Tables
    BY LoadedTable DEF NoTable, Tables
  <1>3. cur' \in 0 .. MaxLoads /\ heap' \in [0 .. MaxLoads -> Tables] /\ heap'[cur'] = table
    BY <1>1, <1>2, SwapTypes, ZenonT(60)
  <1>4. /\ \A j \in Incidents : (Opened(j)' <=> Opened(j)) /\ (Active(j)' <=> Active(j))
        /\ OneActive'
    BY <1>1 DEF Opened, Active, OneActive
  <1>5. TypeOK' /\ FlushOK'
    <2>1. flush' \in [inc : Incidents \cup {Nil}, pos : [Members -> Positions]]
      BY <1>1 DEF TypeOK, NoFlush, NoTable, Positions
    <2>2. FlushOK'
      BY <1>1, <1>4 DEF FlushOK
    <2>3. QED
      BY <1>1, <1>3, <2>1, <2>2 DEF TypeOK
  <1>6. \A j \in Incidents : RowsOK(j)'
    BY <1>4 DEF IInv, RowsOK, RowOK
  <1>7. i # Nil => \A m \in Members :
          /\ Rec(m)' \in Live /\ Rec(m)'.state = rows[m].state /\ Rec(m)'.pos = rows[m].pos
          /\ Rec(m)'.area = rows[m].area /\ Rec(m)'.ver = rows[m].ver
    <2>1. SUFFICES ASSUME i # Nil, NEW m \in Members
                   PROVE  /\ Rec(m)' \in Live /\ Rec(m)'.state = rows[m].state /\ Rec(m)'.pos = rows[m].pos
                          /\ Rec(m)'.area = rows[m].area /\ Rec(m)'.ver = rows[m].ver
      OBVIOUS
    <2>2. Rec(m)' = TableOf(rows)[m]
      BY <1>3, <2>1 DEF Rec
    <2>3. \A x \in Members : rows[x] \in Row
      BY <2>1
    <2>4. QED
      BY <2>2, <2>3, LoadedTable
  <1>8. TableOK'
    BY <1>3, <1>4, <1>7 DEF TableOK, RecOK
  <1>9. ASSUME NEW m \in Members PROVE AgreeOK(m)' /\ ArrivalOK(m)'
    <2>1. CASE m \in raced'
      BY <2>1 DEF AgreeOK, ArrivalOK
    <2>2. CASE m \notin raced'
      <3>1. i = ActiveInc /\ (i # Nil => m \notin Misjudged(i) /\ rows[m] = row[i][m])
        BY <2>2
      <3>2. \A j \in Incidents : Active(j) <=> i = j
        BY <1>1, <3>1, ActiveIncIs
      <3>3. Current'
        BY <1>4, <3>2, NotNil DEF Current
      <3>4. AgreeOK(m)'
        BY <1>7, <3>1, <3>3 DEF AgreeOK
      <3>5. ASSUME i # Nil, row[i][m].state \in Judged PROVE row[i][m].judged = row[i][m].area
        <4>1. row[i][m] # Nil /\ m \notin Misjudged(i)
          BY <3>1, <3>5, NotNil
        <4>2. QED
          BY <3>5, <4>1 DEF Misjudged
      <3>6. ArrivalOK(m)'
        BY <1>4, <3>2, <3>5, NotNil DEF ArrivalOK
      <3>7. QED
        BY <3>4, <3>6
    <2>3. QED
      BY <2>1, <2>2
  <1>10. ASSUME NEW j \in Incidents, NEW m \in Members PROVE ContactOK(j, m)'
    <2>1. <<j, m>> \in contacted' => Opened(j)'
      BY <1>4 DEF IInv, ContactOK
    <2> SUFFICES ASSUME Active(j)', ~setting.fail, Answerable(j, m)'
                 PROVE  row'[j][m].state # "NOTIFIED" \/ WillLogIn(j, m)'
      BY <2>1 DEF ContactOK
    <2>2. CASE <<j, m>> \in contacted
      <3>1. Active(j) /\ ContactOK(j, m) /\ Answerable(j, m)
        BY <1>4, <2>2 DEF IInv, Answerable
      <3>2. QED
        BY <3>1 DEF ContactOK
    <2>3. CASE <<j, m>> \notin contacted
      <3>1. j = i /\ Rec(m)'.state # "NOTIFIED"
        BY <2>3 DEF Answerable
      <3>2. rows[m].state # "NOTIFIED"
        BY <1>7, <3>1, NotNil
      <3>3. QED
        BY <3>1, <3>2, NotNil
    <2>4. QED
      BY <2>2, <2>3
  <1>11. QED
    BY <1>4, <1>5, <1>6, <1>8, <1>9, <1>10 DEF IInv

(* What the requests of the others hold is kept.                           *)
LEMMA HeldKeeps ==
  ASSUME TypeOK, NEW table \in Tables, NEW held, Swap(table, held), UNCHANGED <<status, row>>,
         NEW v \in Workers, WorkOK(v), work'[v] = work[v],
         work[v].pc # "idle" => work[v].gen \in held
  PROVE  WorkOK(v)'
  <1> DEFINE r == work[v]
  <1>1. r \in Request /\ r.gen \in 0 .. MaxLoads /\ cur' = cur + 1 /\ cur \in 0 .. MaxLoads
    BY SwapTypes DEF TypeOK, Request
  <1>2. ASSUME HoldsOK(r), r.pc # "idle"
        PROVE  HoldsOK(r)' /\ heap'[r.gen] = heap[r.gen]
    <2>1. r.gen =< cur /\ r.gen \in held
      BY <1>2 DEF HoldsOK
    <2>2. r.gen # cur' /\ r.gen =< cur'
      BY <1>1, <2>1
    <2>3. heap'[r.gen] = heap[r.gen]
      BY <1>1, <2>1, <2>2, SwapTypes, ZenonT(60)
    <2>4. QED
      BY <1>2, <2>2, <2>3 DEF HoldsOK, Opened
  <1>3. ReadOK(r) => ReadOK(r)'
    BY DEF ReadOK, Opened
  <1>4. r.pc \in Writings \cup {"sync_clear"} => HoldsOK(r)' /\ heap'[r.gen] = heap[r.gen]
    BY <1>2 DEF WorkOK, Writings
  <1>5. QED
    BY <1>3, <1>4 DEF WorkOK, Writings, Opened

LEMMA LoadSwapKeeps ==
  ASSUME IInv, NEW w \in Workers, LoadSwap(w)
  PROVE  IInv'
  <1> DEFINE i == work[w].inc
             rows == work[w].rows
             held == {work[v].gen : v \in {u \in Workers : work[u].pc # "idle"}}
             table == IF i = Nil THEN NoTable ELSE TableOf(rows)
  <1>1. /\ TypeOK /\ OneActive /\ WorkOK(w) /\ work[w].pc = "load_swap" /\ Swap(table, held)
        /\ tracked' = i /\ Goto(w, Idle)
        /\ raced' = IF i # ActiveInc THEN Members
                    ELSE IF i = Nil THEN {}
                    ELSE Misjudged(i) \cup {m \in Members : rows[m] # row[i][m]}
        /\ UNCHANGED <<setting, status, row, flush, sent, contacted, unheard>>
    BY DEF IInv, LoadSwap
  <1>2. i \in Incidents \cup {Nil} /\ ReadOK(work[w])
    BY <1>1 DEF WorkOK, TypeOK, Request
  <1>3. i # Nil => /\ Opened(i)
                   /\ \A m \in Members :
                        /\ rows[m] \in Row /\ Home(i, rows[m].pos)
                        /\ rows[m].state # "NOTIFIED" => row[i][m].state # "NOTIFIED"
    BY <1>2 DEF ReadOK
  <1>4. table \in Tables
    BY <1>3, LoadedTable DEF NoTable, Tables
  <1>5. work' \in [Workers -> Request] /\ work'[w] = Idle /\ \A v \in Workers \ {w} : work'[v] = work[v]
    BY <1>1, IdleFields, GotoTypes
  <1>6. ASSUME NEW v \in Workers PROVE WorkOK(v)'
    <2>1. CASE v = w
      BY <1>5, <2>1, IdleOK
    <2>2. CASE v # w
      <3>1. work'[v] = work[v] /\ WorkOK(v) /\ UNCHANGED <<status, row>>
        BY <1>1, <1>5, <2>2 DEF IInv
      <3>2. work[v].pc # "idle" => work[v].gen \in held
        OBVIOUS
      <3> HIDE DEF held, table
      <3>3. QED
        BY <1>1, <1>4, <3>1, <3>2, HeldKeeps, ZenonT(60)
    <2>3. QED
      BY <2>1, <2>2
  <1>7. raced' \subseteq Members
    BY <1>1 DEF Misjudged
  <1>8. \A m \in Members \ raced' :
          i = ActiveInc /\ (i # Nil => m \notin Misjudged(i) /\ rows[m] = row[i][m])
    BY <1>1
  <1>9. \A j \in Incidents, m \in Members : WillLogIn(j, m) => WillLogIn(j, m)'
    BY <1>1, <1>5 DEF WillLogIn, Writings
  <1> HIDE DEF held
  <1>10. Swap(IF i = Nil THEN NoTable ELSE TableOf(rows), held) /\ tracked' = i
         /\ UNCHANGED <<setting, status, row, sent, contacted, unheard>>
         /\ (flush' = flush \/ flush' = NoFlush)
         /\ \A j \in Incidents, m \in Members : WillLogIn(j, m) => WillLogIn(j, m)' \/ setting.fail
    BY <1>1, <1>9
  <1>11. work' \in [Workers -> Request] /\ \A v \in Workers : WorkOK(v)'
    BY <1>5, <1>6
  <1> HIDE DEF i, rows
  <1>12. QED
    BY <1>2, <1>3, <1>7, <1>8, <1>10, <1>11, SwapKeeps, ZenonT(60)

LEMMA RestartKeeps ==
  ASSUME IInv, Restart
  PROVE  IInv'
  <1> DEFINE i == ActiveInc
             rows == row[i]
  <1>1. /\ TypeOK /\ OneActive /\ setting.fail
        /\ Swap(IF i = Nil THEN NoTable ELSE TableOf(rows), {}) /\ tracked' = i
        /\ work' = [w \in Workers |-> Idle] /\ flush' = NoFlush
        /\ raced' = IF i = Nil THEN {} ELSE Misjudged(i)
        /\ UNCHANGED <<setting, status, row, sent, contacted, unheard>>
    BY ZenonT(60) DEF IInv, Restart
  <1>2. i \in Incidents \cup {Nil} /\ (i # Nil => Opened(i))
    BY <1>1, ActiveIncIs DEF Active, Opened
  <1>3. i # Nil => /\ Opened(i)
                   /\ \A m \in Members :
                        /\ rows[m] \in Row /\ Home(i, rows[m].pos)
                        /\ rows[m].state # "NOTIFIED" => row[i][m].state # "NOTIFIED"
    BY <1>2 DEF IInv, RowsOK, RowOK
  <1>4. work' \in [Workers -> Request] /\ \A v \in Workers : work'[v] = Idle
    BY <1>1, IdleFields
  <1>5. \A v \in Workers : WorkOK(v)'
    BY <1>4, IdleOK
  <1>6. raced' \subseteq Members
    BY <1>1 DEF Misjudged
  <1>7. \A m \in Members \ raced' :
          i = ActiveInc /\ (i # Nil => m \notin Misjudged(i) /\ rows[m] = row[i][m])
    BY <1>1
  <1>8. /\ Swap(IF i = Nil THEN NoTable ELSE TableOf(rows), {})
        /\ tracked' = i /\ UNCHANGED <<setting, status, row, sent, contacted, unheard>>
        /\ (flush' = flush \/ flush' = NoFlush)
        /\ \A j \in Incidents, m \in Members : WillLogIn(j, m) => WillLogIn(j, m)' \/ setting.fail
    BY <1>1
  <1>9. QED
    BY <1>2, <1>3, <1>4, <1>5, <1>6, <1>7, <1>8, SwapKeeps, ZenonT(60)

-----------------------------------------------------------------------------
(***************************************************************************)
(* The invariant, and what it says                                         *)
(***************************************************************************)
LEMMA InitOK == Init => IInv
  <1> SUFFICES ASSUME Init PROVE IInv
    OBVIOUS
  <1>1. NoTable \in Tables /\ NoTable \in Rows /\ 0 \in 0 .. MaxLoads /\ 0 \in 0 .. MaxSent
    BY TrackerAssumption DEF NoTable, Tables, Rows
  <1>2. NoFlush \in [inc : Incidents \cup {Nil}, pos : [Members -> Positions]]
    BY DEF NoFlush, NoTable, Positions
  <1>3. /\ status = [i \in Incidents |-> "none"] /\ row = [i \in Incidents |-> NoTable]
        /\ heap = [g \in 0 .. MaxLoads |-> NoTable] /\ cur = 0 /\ tracked = Nil
        /\ work = [w \in Workers |-> Idle] /\ flush = NoFlush /\ raced = {} /\ contacted = {}
    BY DEF Init
  <1>4. TypeOK
    BY <1>1, <1>2, <1>3, IdleFields DEF Init, TypeOK
  <1>5. \A i \in Incidents : ~Active(i) /\ ~Opened(i)
    BY <1>3 DEF Active, Opened
  <1>6. OneActive /\ FlushOK /\ TableOK /\ \A i \in Incidents : RowsOK(i)
    BY <1>1, <1>3, <1>5 DEF OneActive, FlushOK, TableOK, RowsOK
  <1>7. \A w \in Workers : WorkOK(w)
    BY <1>3, IdleFields DEF WorkOK, Writings
  <1>8. \A m \in Members : AgreeOK(m) /\ ArrivalOK(m)
    BY <1>3, <1>5 DEF AgreeOK, ArrivalOK, Current
  <1>9. \A i \in Incidents, m \in Members : ContactOK(i, m)
    BY <1>3, <1>5 DEF ContactOK
  <1>10. QED
    BY <1>4, <1>6, <1>7, <1>8, <1>9 DEF IInv

LEMMA StutterKeeps ==
  ASSUME IInv, UNCHANGED vars
  PROVE  IInv'
  <1>1. TypeOK /\ FlushOK
    BY DEF IInv
  <1>2. Alike
    BY SameIsAlike DEF vars
  <1>3. TypeOK' /\ FlushOK'
    BY <1>1 DEF TypeOK, FlushOK, Opened, vars
  <1>4. /\ raced \subseteq raced' /\ \A w \in Workers : work'[w] = work[w]
        /\ \A i \in Incidents, m \in Members : <<i, m>> \in contacted' => <<i, m>> \in contacted
    BY DEF vars
  <1>5. QED
    BY <1>2, <1>3, <1>4, AlikeKeeps

LEMMA StepOK == IInv /\ [Next]_vars => IInv'
  <1> SUFFICES ASSUME IInv, [Next]_vars PROVE IInv'
    OBVIOUS
  <1>1. ASSUME NEW w \in Workers, MemberStep(w) PROVE IInv'
    <2>1. CASE \E m \in Members : ProcessFix(w, m)
      BY <2>1, ProcessFixKeeps
    <2>2. CASE SyncCopy(w)
      BY <2>2, SyncCopyKeeps
    <2>3. CASE SyncWrite(w)
      BY <2>3, SyncWriteKeeps
    <2>4. CASE SyncClear(w)
      BY <2>4, SyncClearKeeps
    <2>5. CASE \E m \in Members : Me(w, m)
      BY <2>5, MeKeeps
    <2>6. CASE MarkLoggedIn(w)
      BY <2>6, MarkLoggedInKeeps
    <2>7. CASE LoginWrite(w)
      BY <2>7, LoginWriteKeeps
    <2>8. CASE \E m \in Members : ConsentDenied(w, m)
      BY <2>8, ConsentDeniedKeeps
    <2>9. CASE DenyWrite(w)
      BY <2>9, DenyWriteKeeps
    <2>10. CASE \E m \in Members, v \in 1 .. MaxVer : Ack(w, m, v)
      BY <2>10, AckKeeps
    <2>11. CASE AckWrite(w)
      BY <2>11, AckWriteKeeps
    <2>12. QED
      BY <1>1, <2>1, <2>2, <2>3, <2>4, <2>5, <2>6, <2>7, <2>8, <2>9, <2>10, <2>11, ZenonT(60)
         DEF MemberStep
  <1>2. ASSUME NEW w \in Workers, AdminStep(w) PROVE IInv'
    <2>1. CASE \E a \in Areas : Open(w, a)
      BY <2>1, OpenKeeps
    <2>2. CASE \E m \in Members, a \in Areas : Reassign(w, m, a)
      BY <2>2, ReassignKeeps
    <2>3. CASE Close(w)
      BY <2>3, CloseKeeps
    <2>4. CASE LoadActive(w)
      BY <2>4, LoadActiveKeeps
    <2>5. CASE LoadRows(w)
      BY <2>5, LoadRowsKeeps
    <2>6. CASE LoadSwap(w)
      BY <2>6, LoadSwapKeeps
    <2>7. QED
      BY <1>2, <2>1, <2>2, <2>3, <2>4, <2>5, <2>6, ZenonT(60) DEF AdminStep
  <1>3. ASSUME NEW w \in Workers, Fail(w) PROVE IInv'
    BY <1>3, FailKeeps
  <1>4. CASE FlushTake
    BY <1>4, FlushTakeKeeps
  <1>5. CASE FlushCommit
    BY <1>5, FlushCommitKeeps
  <1>6. CASE FlushFail
    BY <1>6, FlushFailKeeps
  <1>7. CASE Restart
    BY <1>7, RestartKeeps
  <1>8. CASE UNCHANGED vars
    BY <1>8, StutterKeeps
  <1>9. QED
    BY <1>1, <1>2, <1>3, <1>4, <1>5, <1>6, <1>7, <1>8, ZenonT(60) DEF Next

(* The inductive invariant holds in every behaviour of the tracker.        *)
THEOREM Invariant == Spec => []IInv
  BY InitOK, StepOK, PTL DEF Spec

(* Every variable keeps its type.                                          *)
THEOREM TypeCorrect == Spec => []TypeOK
  <1>1. IInv => TypeOK
    BY DEF IInv
  <1>2. QED
    BY <1>1, Invariant, PTL

(* A position reported during one incident is never written to the row of  *)
(* another, whatever reload, write or batch it overtakes.                  *)
THEOREM HomeTheorem == Spec => []PositionsStayHome
  <1>1. IInv => PositionsStayHome
    <2>1. SUFFICES ASSUME IInv, NEW i \in Incidents, NEW m \in Members,
                          row[i][m] # Nil, row[i][m].pos \in Reports
                   PROVE  row[i][m].pos[1] = i
      BY DEF PositionsStayHome
    <2>2. RowOK(i, m)
      BY <2>1, NotNil DEF IInv, RowsOK
    <2>3. QED
      BY <2>1, <2>2 DEF RowOK, Home
  <1>2. QED
    BY <1>1, Invariant, PTL

(* Once the reloads are over and no write for a member is under way, the   *)
(* live record shows the phase, the area and the version on record in the  *)
(* active incident, unless an outdated write or reading came between.      *)
THEOREM MemoryFollows == Spec => []MemoryMatchesRows
  <1>1. IInv => MemoryMatchesRows
    <2>1. SUFFICES ASSUME IInv, NEW m \in Members \ raced, ~Reloading, ~Writing(m)
                   PROVE  tracked = ActiveInc /\ Agree(m)
      BY DEF MemoryMatchesRows
    <2>2. TypeOK /\ OneActive /\ TableOK /\ AgreeOK(m) /\ tracked \in Incidents \cup {Nil}
      BY <2>1 DEF IInv, TypeOK
    <2>3. Current
      BY <2>1, <2>2 DEF AgreeOK
    <2>4. tracked = ActiveInc
      BY <2>2, <2>3, CurrentIs
    <2>5. CASE tracked = Nil
      BY <2>2, <2>4, <2>5, NotNil DEF TableOK, Agree, Rec
    <2>6. CASE tracked # Nil
      <3>1. Opened(tracked) /\ RecOK(m)
        BY <2>2, <2>6 DEF TableOK
      <3>2. RowOK(tracked, m)
        BY <2>1, <2>2, <2>6, <3>1 DEF IInv, RowsOK
      <3>3. Rec(m) # Nil /\ row[tracked][m] # Nil
        BY <3>1, <3>2, NotNil DEF RecOK, RowOK
      <3>4. QED
        BY <2>1, <2>2, <2>4, <2>6, <3>3 DEF AgreeOK, Agree
    <2>7. QED
      BY <2>4, <2>5, <2>6
  <1>2. QED
    BY <1>1, Invariant, PTL

(* An arrival on record in the active incident was judged for the area the *)
(* member is assigned to, unless an outdated write came between.           *)
THEOREM ArrivedTheorem == Spec => []ArrivedHere
  <1>1. IInv => ArrivedHere
    BY DEF IInv, ArrivalOK, ArrivedHere
  <1>2. QED
    BY <1>1, Invariant, PTL

(* A member whose GET /f/me or POST /f/fix was answered by a tracker that  *)
(* held his record does not stay NOTIFIED on record once the writes for    *)
(* him are over.                                                           *)
THEOREM ContactTheorem == Spec => []ContactLogsIn
  <1>1. IInv => ContactLogsIn
    <2>1. SUFFICES ASSUME IInv, NEW i \in Incidents, NEW m \in Members,
                          Active(i), <<i, m>> \in contacted, ~Writing(m), ~setting.fail
                   PROVE  row[i][m].state # "NOTIFIED"
      BY DEF ContactLogsIn
    <2>2. ContactOK(i, m)
      BY <2>1 DEF IInv
    <2>3. ~WillLogIn(i, m)
      BY <2>1 DEF WillLogIn, Writing, Writings
    <2>4. QED
      BY <2>1, <2>2, <2>3 DEF ContactOK, Answerable
  <1>2. QED
    BY <1>1, Invariant, PTL
================================================================================
