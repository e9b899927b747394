------------------------------ MODULE Board_proofs ------------------------------
(***************************************************************************)
(* Proofs about module Board: for any members, fetches and bounds, a page  *)
(* that has reached a number of the change feed misses nothing announced   *)
(* up to that number.                                                      *)
(***************************************************************************)
EXTENDS Board, TLAPS

USE SMTT(60)

(* A row on the page, or of an answer, that misses nothing of a record.    *)
Covers(s, l) ==
  /\ s # Nil
  /\ s.state = l.state \/ l.state = "LOC_DENIED"
  /\ s.pos = Nil => l.pos = Nil
  /\ l.pending => s.pending
Told(m, n) == live[m] # Nil /\ live[m].seqAt =< n

(* With no incident in the tracker there are no records.                   *)
EmptyOK == (~reload => tracked = inc) /\ (tracked = Nil => live = NoRows)

(* The page is not ahead of the feed, and covers what it has reached.      *)
PageOK ==
  /\ page.epoch =< epoch
  /\ page.epoch = epoch => page.seq =< seq
  /\ page.epoch = epoch /\ ~gap /\ ~reload =>
       \A m \in Members : Told(m, page.seq) => Covers(page.m[m], live[m])

(* An answer covers what was announced after its base and up to its        *)
(* number, and says nothing of a record that has not changed since.        *)
AnswerOK(f) ==
  f.epoch = epoch /\ ~reload =>
    \A m \in Members :
      Told(m, f.seq) =>
        IF Full(f) \/ live[m].seqAt > f.since THEN Covers(f.rows[m], live[m])
        ELSE f.rows[m] = Nil

FetchOK(f) ==
  /\ f.epoch =< epoch
  /\ f.epoch = epoch /\ ~Full(f) => f.since =< seq
  /\ f.pc \in {"sent", "incident", "rows"} => f.rows = NoRows
  /\ f.pc \in {"incident", "rows"} => f.epoch = epoch
  /\ f.pc \in {"incident", "rows", "answer"} /\ f.epoch = epoch => f.seq =< seq
  /\ f.pc = "answer" => f.epoch # 0 /\ AnswerOK(f)

(* The inductive invariant.                                                *)
IInv == TypeOK /\ EmptyOK /\ PageOK /\ \A x \in Fetches : FetchOK(fetch[x])

-----------------------------------------------------------------------------
(***************************************************************************)
(* The records                                                             *)
(***************************************************************************)
LEMMA NotNil ==
  /\ Nil \notin Live /\ Nil \notin Shown /\ Nil \notin Points /\ Nil \notin Incidents
  /\ NoRows \in [Members -> Live \cup {Nil}] /\ NoRows \in [Members -> Shown \cup {Nil}]
  /\ \A m \in Members : NoRows[m] = Nil
  BY BoardAssumption DEF NoRows

LEMMA Numbers ==
  /\ MaxSeq \in Nat \ {0} /\ MaxEpoch \in Nat \ {0} /\ MaxInc \in Nat /\ MaxActs \in Nat
  /\ 0 \in 0 .. MaxSeq /\ 0 \in 0 .. MaxEpoch /\ 1 \in 0 .. MaxSeq
  BY BoardAssumption

LEMMA Stamped ==
  ASSUME NEW l \in Live, NEW n \in 0 .. MaxSeq
  PROVE  [l EXCEPT !.seqAt = n] \in Live /\ [l EXCEPT !.seqAt = n].seqAt = n
  <1>1. [l EXCEPT !.seqAt = n] \in Live
    BY ZenonT(60) DEF Live
  <1>2. QED
    BY <1>1 DEF Live

LEMMA LoggedInFields ==
  ASSUME NEW l \in Live
  PROVE  LET k == LoggedIn(l) IN
         /\ k \in Live /\ k.pos = l.pos /\ k.pending = l.pending /\ k.seqAt = l.seqAt
         /\ k.state = IF l.state = "NOTIFIED" THEN "LOGGED_IN" ELSE l.state
  <1> DEFINE k == [l EXCEPT !.state = "LOGGED_IN"]
  <1>1. k \in Live
    BY ZenonT(60) DEF Live, Phases
  <1>2. k.pos = l.pos /\ k.pending = l.pending /\ k.seqAt = l.seqAt /\ k.state = "LOGGED_IN"
    BY DEF Live
  <1> HIDE DEF k
  <1>3. LoggedIn(l) = IF l.state = "NOTIFIED" THEN k ELSE l
    BY DEF LoggedIn, k
  <1>4. QED
    BY <1>1, <1>2, <1>3

LEMMA SnapshotCovers ==
  ASSUME NEW l \in Live
  PROVE  toSnapshot(l) \in Shown /\ Covers(toSnapshot(l), l)
  <1>1. toSnapshot(l) \in Shown
    BY DEF toSnapshot, Live, Shown
  <1>2. QED
    BY <1>1, NotNil DEF toSnapshot, Covers

(* What a step that has no fetch in it may do to the records: remove one,  *)
(* announce one, or change it in a way no number is drawn for.             *)
Later(m) ==
  \/ live'[m] = Nil
  \/ live'[m].seqAt > seq
  \/ /\ ~reload /\ live[m] # Nil /\ live'[m].seqAt = live[m].seqAt
     /\ live'[m].state \in {live[m].state, "LOC_DENIED"}
     /\ live[m].pos = Nil => live'[m].pos = Nil
     /\ live'[m].pending => live[m].pending

LEMMA RecordsChange ==
  ASSUME IInv, TypeOK', EmptyOK', UNCHANGED <<epoch, page, gap, fetch>>, seq =< seq',
         reload' \/ \A m \in Members : Later(m)
  PROVE  IInv'
  <1>1. TypeOK /\ seq \in Nat /\ seq' \in Nat
    BY DEF IInv, TypeOK
  <1>2. ASSUME NEW m \in Members, NEW s \in Shown \cup {Nil}, NEW n \in 0 .. MaxSeq, n =< seq, ~reload',
               Told(m, n)', NEW since \in 0 .. MaxSeq, since =< seq
        PROVE  /\ ~reload => /\ Told(m, n) /\ live'[m].seqAt = live[m].seqAt
                             /\ Covers(s, live[m]) => Covers(s, live'[m])
               /\ ~reload
    <2>1. Later(m) /\ live'[m] # Nil /\ live'[m].seqAt =< n /\ live'[m] \in Live
      BY <1>2 DEF Told, TypeOK
    <2>2. ~(live'[m].seqAt > seq)
      BY <1>1, <1>2, <2>1 DEF Live
    <2>3. QED
      BY <1>1, <2>1, <2>2 DEF Later, Covers, Told
  <1>3. PageOK'
    <2>1. page.seq \in 0 .. MaxSeq /\ \A m \in Members : page.m[m] \in Shown \cup {Nil}
      BY <1>1 DEF TypeOK
    <2>2. PageOK
      BY DEF IInv
    <2>3. ASSUME page.epoch = epoch, ~gap, ~reload', NEW m \in Members, Told(m, page.seq)'
          PROVE  Covers(page.m[m], live'[m])
      <3>1. page.seq =< seq /\ page.seq =< seq
        BY <2>2, <2>3 DEF PageOK
      <3>2. ~reload /\ Told(m, page.seq) /\ (Covers(page.m[m], live[m]) => Covers(page.m[m], live'[m]))
        BY <1>2, <2>1, <2>3, <3>1
      <3>3. QED
        BY <2>2, <2>3, <3>2 DEF PageOK
    <2>4. page.epoch =< epoch' /\ (page.epoch = epoch' => page.seq =< seq')
      BY <1>1, <2>1, <2>2 DEF PageOK
    <2>5. QED
      BY <2>3, <2>4 DEF PageOK, Covers, Told
  <1>4. ASSUME NEW x \in Fetches PROVE FetchOK(fetch[x])'
    <2> DEFINE f == fetch[x]
    <2>1. FetchOK(f) /\ f \in Fetch /\ f.seq \in 0 .. MaxSeq /\ f.since \in 0 .. MaxSeq
      BY <1>1 DEF IInv, TypeOK, Fetch
    <2>2. ASSUME f.pc = "answer", f.epoch = epoch, ~reload', NEW m \in Members, Told(m, f.seq)'
          PROVE  IF Full(f) \/ live'[m].seqAt > f.since THEN Covers(f.rows[m], live'[m])
                 ELSE f.rows[m] = Nil
      <3>1. f.seq =< seq /\ f.rows[m] \in Shown \cup {Nil} /\ AnswerOK(f)
        BY <2>1, <2>2 DEF FetchOK, Fetch
      <3>2. /\ ~reload /\ Told(m, f.seq) /\ live'[m].seqAt = live[m].seqAt
            /\ Covers(f.rows[m], live[m]) => Covers(f.rows[m], live'[m])
        BY <1>2, <2>1, <2>2, <3>1, Numbers, <1>1
      <3>3. QED
        BY <2>2, <3>1, <3>2 DEF AnswerOK
    <2>3. f.pc = "answer" => AnswerOK(f)'
      BY <2>2 DEF AnswerOK, Told, Covers, Full
    <2>4. QED
      BY <1>1, <2>1, <2>3 DEF FetchOK, Full
  <1>5. QED
    BY <1>3, <1>4 DEF IInv

-----------------------------------------------------------------------------
(***************************************************************************)
(* The members                                                             *)
(***************************************************************************)
LEMMA LiveTyped ==
  ASSUME TypeOK, NEW m \in Members, live[m] # Nil
  PROVE  /\ live[m] \in Live /\ live[m].state \in Phases /\ live[m].pos \in Points \cup {Nil}
         /\ live[m].pending \in BOOLEAN /\ live[m].seqAt \in 0 .. MaxSeq
  BY DEF TypeOK, Live

(* A number is drawn for one record, or none: the others stay.             *)
LEMMA AnnounceKeeps ==
  ASSUME IInv, NEW m \in Members, live[m] # Nil, NEW l \in Live, Announce(m, l),
         UNCHANGED <<inc, lastInc, tracked, reload, epoch, client, fetch, broken>>
  PROVE  IInv'
  <1> DEFINE k == [l EXCEPT !.seqAt = seq + 1]
  <1>1. TypeOK /\ seq \in 0 .. MaxSeq /\ seq + 1 \in 0 .. MaxSeq /\ EmptyOK /\ live \in [Members -> Live \cup {Nil}]
    BY Numbers DEF IInv, TypeOK, Announce
  <1>2. k \in Live /\ k.seqAt = seq + 1
    BY <1>1, Stamped
  <1> HIDE DEF k
  <1>3. live' = [live EXCEPT ![m] = k] /\ seq' = seq + 1
    BY DEF Announce, k
  <1>4. live' \in [Members -> Live \cup {Nil}] /\ live'[m] = k
        /\ \A x \in Members \ {m} : live'[x] = live[x]
    BY <1>1, <1>2, <1>3
  <1>5. TypeOK'
    BY <1>1, <1>3, <1>4 DEF TypeOK, client
  <1>6. EmptyOK'
    BY <1>1, NotNil DEF EmptyOK
  <1>7. reload' \/ \A x \in Members : Later(x)
    <2> SUFFICES ASSUME ~reload, NEW x \in Members PROVE Later(x)
      OBVIOUS
    <2>1. CASE x = m
      BY <1>1, <1>2, <1>4, <2>1 DEF Later
    <2>2. CASE x # m
      BY <1>1, <1>4, <2>2, LiveTyped DEF Later
    <2>3. QED
      BY <2>1, <2>2
  <1>8. seq =< seq'
    BY <1>1, <1>3
  <1>9. UNCHANGED <<epoch, page, gap, fetch>>
    BY DEF client
  <1>10. QED
    BY <1>5, <1>6, <1>7, <1>8, <1>9, RecordsChange

LEMMA KeepKeeps ==
  ASSUME IInv, NEW m \in Members, live[m] # Nil, NEW l \in Live, Keep(m, l),
         l.seqAt = live[m].seqAt, l.state \in {live[m].state, "LOC_DENIED"},
         live[m].pos = Nil => l.pos = Nil, l.pending => live[m].pending,
         UNCHANGED <<inc, lastInc, tracked, reload, epoch, client, fetch, broken>>
  PROVE  IInv'
  <1>1. TypeOK /\ EmptyOK /\ seq \in Nat /\ live \in [Members -> Live \cup {Nil}]
        /\ live' = [live EXCEPT ![m] = l] /\ seq' = seq
    BY DEF IInv, TypeOK, Keep
  <1>2. live' \in [Members -> Live \cup {Nil}] /\ live'[m] = l
        /\ \A x \in Members \ {m} : live'[x] = live[x]
    BY <1>1
  <1>3. TypeOK'
    BY <1>1, <1>2, ZenonT(60) DEF TypeOK, client
  <1>4. EmptyOK'
    <2>1. tracked # Nil
      <3>1. EmptyOK /\ NoRows[m] = Nil /\ live[m] # Nil
        BY <1>1, NotNil
      <3>2. QED
        BY <3>1 DEF EmptyOK
    <2>2. (~reload => tracked = inc) /\ UNCHANGED <<inc, tracked, reload>>
      BY <1>1 DEF EmptyOK
    <2>3. QED
      BY <2>1, <2>2 DEF EmptyOK
  <1>5. reload' \/ \A x \in Members : Later(x)
    <2> SUFFICES ASSUME ~reload, NEW x \in Members PROVE Later(x)
      OBVIOUS
    <2>1. CASE x = m
      BY <1>2, <2>1 DEF Later
    <2>2. CASE x # m
      BY <1>2, <2>2 DEF Later
    <2>3. QED
      BY <2>1, <2>2
  <1>6. seq =< seq' /\ UNCHANGED <<epoch, page, gap, fetch>>
    BY <1>1 DEF client
  <1>7. QED
    BY <1>3, <1>4, <1>5, <1>6, RecordsChange

LEMMA ProcessFixKeeps ==
  ASSUME IInv, NEW m \in Members, ProcessFix(m)
  PROVE  IInv'
  <1>1. PICK p \in Points, valid \in Validities :
          LET l == [LoggedIn(live[m]) EXCEPT !.state = IF valid THEN "MOVING" ELSE @, !.pos = p] IN
          IF Announced(live[m], l) THEN Announce(m, l) ELSE Keep(m, l)
    BY ZenonT(60) DEF ProcessFix
  <1>2. /\ TypeOK /\ live[m] # Nil
        /\ UNCHANGED <<inc, lastInc, tracked, reload, epoch, client, fetch, broken>>
    BY DEF IInv, ProcessFix
  <1> DEFINE k == LoggedIn(live[m])
             st == IF valid THEN "MOVING" ELSE k.state
             l == [k EXCEPT !.state = st, !.pos = p]
  <1>3. /\ live[m] \in Live /\ k \in Live /\ k.pos = live[m].pos /\ k.pending = live[m].pending
        /\ k.seqAt = live[m].seqAt
        /\ k.state = IF live[m].state = "NOTIFIED" THEN "LOGGED_IN" ELSE live[m].state
    BY <1>2, LiveTyped, LoggedInFields
  <1> HIDE DEF k
  <1>4. st \in Phases
    BY <1>3 DEF Live, Phases
  <1>5. l = [k EXCEPT !.state = IF valid THEN "MOVING" ELSE @, !.pos = p]
    BY <1>3 DEF Live
  <1> HIDE DEF st
  <1>6. l \in Live
    <2>1. p \in Points \cup {Nil}
      OBVIOUS
    <2>2. QED
      BY <1>3, <1>4, <2>1, ZenonT(60) DEF Live
  <1>7. l.state = st /\ l.pos = p /\ l.pending = k.pending /\ l.seqAt = k.seqAt
    BY <1>3 DEF Live
  <1> HIDE DEF l
  <1>8. IF Announced(live[m], l) THEN Announce(m, l) ELSE Keep(m, l)
    BY <1>1, <1>5 DEF k
  <1>9. CASE Announced(live[m], l)
    BY <1>2, <1>6, <1>8, <1>9, AnnounceKeeps
  <1>10. CASE ~Announced(live[m], l)
    <2>1. l.state = k.state /\ live[m].state # "NOTIFIED" /\ live[m].pos # Nil
      BY <1>10 DEF Announced, k
    <2>2. /\ l.seqAt = live[m].seqAt /\ l.state \in {live[m].state, "LOC_DENIED"}
          /\ live[m].pos = Nil => l.pos = Nil
          /\ l.pending => live[m].pending
      BY <1>3, <1>7, <2>1
    <2>3. QED
      BY <1>2, <1>6, <1>8, <1>10, <2>2, KeepKeeps
  <1>11. QED
    BY <1>9, <1>10

LEMMA MarkLoggedInKeeps ==
  ASSUME IInv, NEW m \in Members, MarkLoggedIn(m)
  PROVE  IInv'
  <1>1. /\ TypeOK /\ live[m] # Nil /\ Announce(m, LoggedIn(live[m]))
        /\ UNCHANGED <<inc, lastInc, tracked, reload, epoch, client, fetch, broken>>
    BY DEF IInv, MarkLoggedIn
  <1>2. LoggedIn(live[m]) \in Live
    BY <1>1, LiveTyped, LoggedInFields
  <1>3. QED
    BY <1>1, <1>2, AnnounceKeeps

LEMMA AckKeeps ==
  ASSUME IInv, NEW m \in Members, Ack(m)
  PROVE  IInv'
  <1> DEFINE l == [live[m] EXCEPT !.pending = FALSE]
  <1>1. /\ TypeOK /\ live[m] # Nil /\ Keep(m, l)
        /\ UNCHANGED <<inc, lastInc, tracked, reload, epoch, client, fetch, broken>>
    BY DEF IInv, Ack
  <1>2. live[m] \in Live
    BY <1>1, LiveTyped
  <1>3. l \in Live
    BY <1>2, ZenonT(60) DEF Live
  <1>4. /\ l.seqAt = live[m].seqAt /\ l.state \in {live[m].state, "LOC_DENIED"}
        /\ live[m].pos = Nil => l.pos = Nil
        /\ l.pending => live[m].pending
    BY <1>2 DEF Live
  <1> HIDE DEF l
  <1>5. QED
    BY <1>1, <1>3, <1>4, KeepKeeps

LEMMA ConsentDeniedKeeps ==
  ASSUME IInv, NEW m \in Members, ConsentDenied(m)
  PROVE  IInv'
  <1> DEFINE l == [live[m] EXCEPT !.state = "LOC_DENIED"]
  <1>1. /\ TypeOK /\ live[m] # Nil /\ Keep(m, l)
        /\ UNCHANGED <<inc, lastInc, tracked, reload, epoch, client, fetch, broken>>
    BY DEF IInv, ConsentDenied
  <1>2. live[m] \in Live
    BY <1>1, LiveTyped
  <1>3. l \in Live
    BY <1>2, ZenonT(60) DEF Live, Phases
  <1>4. /\ l.seqAt = live[m].seqAt /\ l.state \in {live[m].state, "LOC_DENIED"}
        /\ live[m].pos = Nil => l.pos = Nil
        /\ l.pending => live[m].pending
    BY <1>2 DEF Live
  <1> HIDE DEF l
  <1>5. QED
    BY <1>1, <1>3, <1>4, KeepKeeps

-----------------------------------------------------------------------------
(***************************************************************************)
(* The administrators, a reload and a restart                              *)
(***************************************************************************)
LEMMA EditKeeps ==
  ASSUME IInv, Administrator
  PROVE  IInv'
  <1>1. /\ TypeOK /\ EmptyOK /\ Edit /\ reload' = TRUE
        /\ UNCHANGED <<tracked, live, epoch, seq, client, fetch, broken>>
    BY DEF IInv, Administrator, Edit
  <1>2. inc' \in Incidents \cup {Nil} /\ lastInc' \in 0 .. MaxInc
    <2>1. inc \in Incidents \cup {Nil} /\ lastInc \in 0 .. MaxInc
      BY <1>1 DEF TypeOK
    <2>2. CASE Open
      BY <2>1, <2>2, Numbers DEF Open, Incidents
    <2>3. CASE Change
      BY <2>1, <2>3 DEF Change
    <2>4. CASE Close
      BY <2>1, <2>4 DEF Close
    <2>5. QED
      BY <1>1, <2>2, <2>3, <2>4 DEF Edit
  <1>3. TypeOK'
    BY <1>1, <1>2 DEF TypeOK, client
  <1>4. EmptyOK'
    BY <1>1 DEF EmptyOK
  <1>5. reload' /\ seq =< seq' /\ UNCHANGED <<epoch, page, gap, fetch>>
    BY <1>1 DEF client, TypeOK
  <1>6. QED
    BY <1>3, <1>4, <1>5, RecordsChange

(* What a reload may find is a record.                                     *)
LEMMA TablesTyped ==
  ASSUME TypeOK, NEW table \in Tables, NEW m \in Members
  PROVE  table[m] \in Live
  <1> DEFINE new == [state |-> "NOTIFIED", pos |-> Nil, pending |-> TRUE, seqAt |-> 0]
             changed == [live[m] EXCEPT !.pending = TRUE]
  <1>1. table[m] \in Loaded(m)
    BY DEF Tables
  <1>2. new \in Live
    BY Numbers DEF Live, Phases
  <1>3. CASE inc # tracked \/ live[m] = Nil
    <2>1. Loaded(m) = {new}
      BY <1>3 DEF Loaded
    <2> HIDE DEF new
    <2>2. QED
      BY <1>1, <1>2, <2>1
  <1>4. CASE ~(inc # tracked \/ live[m] = Nil)
    <2>1. live[m] \in Live
      BY <1>4, LiveTyped
    <2>2. changed \in Live
      BY <2>1, ZenonT(60) DEF Live
    <2>3. table[m] \in {live[m], changed}
      BY <1>1, <1>4 DEF Loaded
    <2> HIDE DEF changed
    <2>4. QED
      BY <2>1, <2>2, <2>3
  <1>5. QED
    BY <1>3, <1>4

LEMMA Loading ==
  ASSUME TypeOK, NEW n \in 0 .. MaxSeq, NEW table \in Tables,
         live' = [m \in Members |-> [table[m] EXCEPT !.seqAt = n]]
  PROVE  live' \in [Members -> Live \cup {Nil}] /\ \A m \in Members : live'[m].seqAt = n
  <1>1. ASSUME NEW m \in Members PROVE live'[m] \in Live /\ live'[m].seqAt = n
    <2> DEFINE k == [table[m] EXCEPT !.seqAt = n]
    <2>1. live'[m] = k /\ table[m] \in Live
      BY TablesTyped
    <2>2. k \in Live /\ k.seqAt = n
      BY <2>1, Stamped
    <2> HIDE DEF k
    <2>3. QED
      BY <2>1, <2>2
  <1>2. live' = [m \in Members |-> live'[m]]
    OBVIOUS
  <1>3. QED
    BY <1>1, <1>2

LEMMA ReloadKeeps ==
  ASSUME IInv, Reload
  PROVE  IInv'
  <1>1. /\ TypeOK /\ EmptyOK /\ reload /\ reload' = FALSE /\ LoadActive(Tables) /\ tracked' = inc
        /\ UNCHANGED <<inc, lastInc, epoch, client, fetch, broken>>
    BY DEF IInv, Reload, LoadActive
  <1>2. seq \in 0 .. MaxSeq /\ inc \in Incidents \cup {Nil}
    BY <1>1 DEF TypeOK
  <1>3. /\ live' \in [Members -> Live \cup {Nil}] /\ seq' \in 0 .. MaxSeq /\ seq =< seq'
        /\ inc = Nil => live' = NoRows
        /\ \A m \in Members : Later(m)
    <2>1. CASE inc = Nil
      <3>1. live' = NoRows /\ seq' = seq
        BY <1>1, <2>1 DEF LoadActive
      <3>2. QED
        BY <1>2, <3>1, NotNil DEF Later
    <2>2. CASE inc # Nil
      <3>1. seq' = seq + 1 /\ seq < MaxSeq
        BY <1>1, <2>2 DEF LoadActive
      <3>2. PICK table \in Tables : live' = [m \in Members |-> [table[m] EXCEPT !.seqAt = seq + 1]]
        BY <1>1, <2>2, ZenonT(60) DEF LoadActive
      <3>3. seq + 1 \in 0 .. MaxSeq
        BY <1>2, <3>1, Numbers
      <3>4. live' \in [Members -> Live \cup {Nil}] /\ \A m \in Members : live'[m].seqAt = seq + 1
        BY <1>1, <3>2, <3>3, Loading, ZenonT(60)
      <3>5. QED
        BY <1>2, <2>2, <3>1, <3>3, <3>4 DEF Later
    <2>3. QED
      BY <2>1, <2>2
  <1>4. TypeOK'
    BY <1>1, <1>3, ZenonT(60) DEF TypeOK, client
  <1>5. EmptyOK'
    BY <1>1, <1>3 DEF EmptyOK
  <1>6. UNCHANGED <<epoch, page, gap, fetch>>
    BY <1>1 DEF client
  <1>7. QED
    BY <1>3, <1>4, <1>5, <1>6, RecordsChange

LEMMA RestartKeeps ==
  ASSUME IInv, Restart
  PROVE  IInv'
  <1>1. /\ TypeOK /\ epoch < MaxEpoch /\ epoch' = epoch + 1 /\ reload' = FALSE /\ tracked' = inc
        /\ fetch' = [x \in Fetches |-> IF x \in BeingServed THEN Free ELSE fetch[x]]
        /\ timer' = (timer \/ \E x \in BeingServed : Reschedules(x, FALSE))
        /\ broken' = (broken \/ \E x \in BeingServed : fetch[x].kind = "resynced")
        /\ UNCHANGED <<inc, lastInc, page, acts, gap>>
    BY DEF IInv, Restart
  <1>2. epoch \in 1 .. MaxEpoch /\ epoch + 1 \in 1 .. MaxEpoch /\ inc \in Incidents \cup {Nil}
    BY <1>1, Numbers DEF TypeOK
  <1>3. /\ live' \in [Members -> Live \cup {Nil}] /\ seq' \in 0 .. MaxSeq
        /\ inc = Nil => live' = NoRows
    <2>1. CASE inc = Nil
      <3>1. live' = NoRows /\ seq' = 0
        BY <2>1 DEF Restart
      <3>2. QED
        BY <3>1, NotNil, Numbers
    <2>2. CASE inc # Nil
      <3>1. seq' = 1
        BY <2>2 DEF Restart
      <3>2. PICK table \in Tables : live' = [m \in Members |-> [table[m] EXCEPT !.seqAt = 1]]
        BY <2>2, ZenonT(60) DEF Restart
      <3>3. live' \in [Members -> Live \cup {Nil}]
        BY <1>1, <3>2, Loading, Numbers, ZenonT(60)
      <3>4. QED
        BY <2>2, <3>1, <3>3, Numbers
    <2>3. QED
      BY <2>1, <2>2
  <1>4. Free \in Fetch /\ Free.pc = "none" /\ Free.epoch = 0
    BY Numbers, NotNil DEF Free, Fetch
  <1>5. fetch' \in [Fetches -> Fetch] /\ timer' \in BOOLEAN /\ broken' \in BOOLEAN
    BY <1>1, <1>4 DEF TypeOK
  <1>6. TypeOK'
    BY <1>1, <1>2, <1>3, <1>5, ZenonT(60) DEF TypeOK
  <1>7. EmptyOK'
    BY <1>1, <1>3 DEF EmptyOK
  <1>8. PageOK'
    <2>1. page.epoch \in 1 .. MaxEpoch /\ page.epoch =< epoch
      BY <1>1 DEF IInv, TypeOK, PageOK
    <2>2. page'.epoch < epoch'
      BY <1>1, <1>2, <2>1
    <2>3. QED
      BY <1>2, <1>1, <2>1, <2>2 DEF PageOK
  <1>9. ASSUME NEW x \in Fetches PROVE FetchOK(fetch[x])'
    <2>1. CASE x \in BeingServed
      <3>1. fetch'[x] = Free
        BY <1>1, <2>1
      <3>2. QED
        BY <1>1, <1>2, <1>4, <3>1 DEF FetchOK
    <2>2. CASE x \notin BeingServed
      <3>1. fetch'[x] = fetch[x] /\ fetch[x] \in Fetch /\ FetchOK(fetch[x])
        BY <1>1, <2>2 DEF IInv, TypeOK
      <3>2. fetch[x].pc \notin {"incident", "rows"} /\ fetch[x].epoch \in 0 .. MaxEpoch /\ fetch[x].epoch =< epoch
        BY <2>2, <3>1 DEF BeingServed, FetchOK, Fetch
      <3>3. fetch'[x].epoch =< epoch' /\ fetch'[x].epoch # epoch'
        BY <1>1, <1>2, <3>1, <3>2
      <3>4. QED
        BY <3>1, <3>2, <3>3 DEF FetchOK, AnswerOK
    <2>3. QED
      BY <2>1, <2>2
  <1>10. QED
    BY <1>6, <1>7, <1>8, <1>9 DEF IInv

-----------------------------------------------------------------------------
(***************************************************************************)
(* A fetch goes on                                                         *)
(***************************************************************************)
(* One fetch changes, and nothing the others or the page are about.        *)
LEMMA PutKeeps ==
  ASSUME IInv, NEW x \in Fetches, NEW f \in Fetch, Put(x, f), FetchOK(f),
         UNCHANGED <<server, page, gap>>, timer' \in BOOLEAN, broken' \in BOOLEAN, acts' \in 0 .. MaxActs
  PROVE  IInv'
  <1>1. /\ TypeOK /\ EmptyOK /\ PageOK /\ fetch' = [fetch EXCEPT ![x] = f]
        /\ UNCHANGED <<inc, lastInc, tracked, reload, live, epoch, seq, page, gap>>
    BY DEF IInv, Put, server
  <1>2. fetch' \in [Fetches -> Fetch] /\ fetch'[x] = f
        /\ \A y \in Fetches \ {x} : fetch'[y] = fetch[y]
    BY <1>1 DEF TypeOK
  <1>3. TypeOK'
    BY <1>1, <1>2, ZenonT(60) DEF TypeOK
  <1>4. EmptyOK' /\ PageOK'
    BY <1>1 DEF EmptyOK, PageOK, Told
  <1>5. ASSUME NEW y \in Fetches PROVE FetchOK(fetch[y])'
    <2>1. FetchOK(fetch'[y])
      BY <1>2 DEF IInv
    <2>2. QED
      BY <1>1, <2>1 DEF FetchOK, AnswerOK, Told
  <1>6. QED
    BY <1>3, <1>4, <1>5 DEF IInv

LEMMA FetchTyped ==
  ASSUME IInv, NEW x \in Fetches
  PROVE  /\ TypeOK /\ EmptyOK /\ PageOK /\ fetch[x] \in Fetch /\ FetchOK(fetch[x])
         /\ epoch \in 0 .. MaxEpoch /\ epoch # 0 /\ seq \in 0 .. MaxSeq
         /\ timer \in BOOLEAN /\ broken \in BOOLEAN /\ gap \in BOOLEAN /\ acts \in 0 .. MaxActs
         /\ inc \in Incidents \cup {Nil} /\ live \in [Members -> Live \cup {Nil}]
  BY Numbers DEF IInv, TypeOK

LEMMA FreeFields ==
  /\ Free \in Fetch /\ Free.pc = "none" /\ Free.kind = "poll" /\ Free.epoch = 0 /\ Free.since = 0
  /\ Free.rows = NoRows
  BY Numbers, NotNil DEF Free, Fetch

(* A fetch begins.                                                         *)
LEMMA BeginFields ==
  ASSUME NEW kind \in {"resynced", "edit"}
  PROVE  LET f == [Free EXCEPT !.pc = "sent", !.kind = kind] IN
         /\ f \in Fetch /\ f.pc = "sent" /\ f.kind = kind /\ f.epoch = 0 /\ f.rows = NoRows
  <1> DEFINE f == [Free EXCEPT !.pc = "sent", !.kind = kind]
  <1>1. f \in Fetch
    <2>1. "sent" \in {"none", "sent", "incident", "rows", "answer"} /\ kind \in {"poll", "resynced", "edit"}
      OBVIOUS
    <2>2. QED
      BY <2>1, FreeFields, ZenonT(60) DEF Fetch
  <1>2. f.pc = "sent" /\ f.kind = kind /\ f.epoch = 0 /\ f.rows = NoRows
    BY FreeFields DEF Fetch
  <1> HIDE DEF f
  <1>3. QED
    BY <1>1, <1>2 DEF f

LEMMA BeginKeeps ==
  ASSUME IInv, NEW x \in Fetches, NEW kind \in {"resynced", "edit"},
         Put(x, [Free EXCEPT !.pc = "sent", !.kind = kind]),
         UNCHANGED <<server, page, timer, gap, broken>>, acts' \in 0 .. MaxActs
  PROVE  IInv'
  <1> DEFINE f == [Free EXCEPT !.pc = "sent", !.kind = kind]
  <1>1. f \in Fetch /\ f.pc = "sent" /\ f.kind = kind /\ f.epoch = 0 /\ f.rows = NoRows
    BY BeginFields, ZenonT(60)
  <1> HIDE DEF f
  <1>2. FetchOK(f)
    BY <1>1, FetchTyped DEF FetchOK
  <1>3. timer' \in BOOLEAN /\ broken' \in BOOLEAN /\ UNCHANGED <<server, page, gap>>
    BY FetchTyped
  <1>4. Put(x, f)
    BY DEF f
  <1>5. QED
    BY <1>1, <1>2, <1>3, <1>4, PutKeeps

LEMMA ResyncKeeps ==
  ASSUME IInv, NEW x \in Fetches, Resync(x)
  PROVE  IInv'
  <1>1. /\ Put(x, [Free EXCEPT !.pc = "sent", !.kind = "resynced"])
        /\ UNCHANGED <<server, page, timer, gap, broken>> /\ acts' = acts
    BY DEF Resync, Serving, client
  <1>2. QED
    BY <1>1, FetchTyped, BeginKeeps

LEMMA OwnEditKeeps ==
  ASSUME IInv, NEW x \in Fetches, OwnEdit(x)
  PROVE  IInv'
  <1>1. /\ Put(x, [Free EXCEPT !.pc = "sent", !.kind = "edit"])
        /\ UNCHANGED <<server, page, timer, gap, broken>> /\ acts' = acts + 1 /\ acts < MaxActs
    BY DEF OwnEdit
  <1>2. acts' \in 0 .. MaxActs
    BY <1>1, FetchTyped, Numbers
  <1>3. QED
    BY <1>1, <1>2, BeginKeeps

LEMMA PollKeeps ==
  ASSUME IInv, NEW x \in Fetches, Poll(x)
  PROVE  IInv'
  <1> DEFINE f == [Free EXCEPT !.pc = "sent", !.epoch = page.epoch, !.since = page.seq]
  <1>1. /\ Put(x, f) /\ timer' = FALSE /\ UNCHANGED <<server, page, gap>>
        /\ acts' = acts /\ broken' = broken
    BY DEF Poll
  <1>2. page.epoch \in 0 .. MaxEpoch /\ page.seq \in 0 .. MaxSeq
    BY FetchTyped, Numbers DEF TypeOK
  <1>3. f \in Fetch
    <2>1. "sent" \in {"none", "sent", "incident", "rows", "answer"}
      OBVIOUS
    <2>2. QED
      BY <1>2, <2>1, FreeFields, ZenonT(60) DEF Fetch
  <1>4. f.pc = "sent" /\ f.epoch = page.epoch /\ f.since = page.seq /\ f.rows = NoRows
    BY FreeFields DEF Fetch
  <1> HIDE DEF f
  <1>5. FetchOK(f)
    <2>1. page.epoch =< epoch /\ (page.epoch = epoch => page.seq =< seq)
      BY FetchTyped DEF PageOK
    <2>2. f.epoch =< epoch /\ (f.epoch = epoch => f.since =< seq)
      BY <1>4, <2>1
    <2>3. QED
      BY <1>4, <2>2, ZenonT(60) DEF FetchOK
  <1>6. timer' \in BOOLEAN /\ broken' \in BOOLEAN /\ acts' \in 0 .. MaxActs
    BY <1>1, FetchTyped, ZenonT(60)
  <1>7. QED
    BY <1>1, <1>3, <1>5, <1>6, PutKeeps

LEMMA ReadSeqKeeps ==
  ASSUME IInv, NEW x \in Fetches, ReadSeq(x)
  PROVE  IInv'
  <1> DEFINE f == fetch[x]
             g == [f EXCEPT !.pc = "incident", !.epoch = epoch, !.seq = seq]
  <1>1. /\ f.pc = "sent" /\ ~Refuse(f) /\ Put(x, g)
        /\ UNCHANGED <<server, page, timer, acts, gap, broken>>
    BY DEF ReadSeq, Serving, client
  <1>2. /\ f \in Fetch /\ FetchOK(f) /\ epoch \in 0 .. MaxEpoch /\ seq \in 0 .. MaxSeq
        /\ timer' \in BOOLEAN /\ broken' \in BOOLEAN /\ acts' \in 0 .. MaxActs
    BY <1>1, FetchTyped
  <1>3. g \in Fetch
    <2>1. "incident" \in {"none", "sent", "incident", "rows", "answer"}
      OBVIOUS
    <2>2. QED
      BY <1>2, <2>1, ZenonT(60) DEF Fetch
  <1>4. /\ g.pc = "incident" /\ g.epoch = epoch /\ g.seq = seq /\ g.kind = f.kind
        /\ g.since = f.since /\ g.rows = f.rows
    BY <1>2 DEF Fetch
  <1> HIDE DEF g
  <1>5. FetchOK(g)
    BY <1>1, <1>2, <1>4 DEF FetchOK, Refuse, Full
  <1>6. QED
    BY <1>1, <1>2, <1>3, <1>5, PutKeeps

LEMMA ReadIncidentKeeps ==
  ASSUME IInv, NEW x \in Fetches, ReadIncident(x)
  PROVE  IInv'
  <1> DEFINE f == fetch[x]
             pc == IF inc = Nil THEN "answer" ELSE "rows"
             g == [f EXCEPT !.pc = pc, !.inc = inc]
  <1>1. /\ f.pc = "incident" /\ Put(x, g)
        /\ UNCHANGED <<server, page, timer, acts, gap, broken>>
    BY DEF ReadIncident, Serving, client
  <1>2. /\ f \in Fetch /\ FetchOK(f) /\ inc \in Incidents \cup {Nil} /\ EmptyOK
        /\ timer' \in BOOLEAN /\ broken' \in BOOLEAN /\ acts' \in 0 .. MaxActs
    BY <1>1, FetchTyped
  <1>3. pc \in {"none", "sent", "incident", "rows", "answer"} /\ pc \in {"answer", "rows"}
        /\ (pc = "answer" => inc = Nil)
    OBVIOUS
  <1> HIDE DEF pc
  <1>4. g \in Fetch
    BY <1>2, <1>3, ZenonT(60) DEF Fetch
  <1>5. /\ g.pc = pc /\ g.epoch = f.epoch /\ g.seq = f.seq /\ g.kind = f.kind
        /\ g.since = f.since /\ g.rows = f.rows
    BY <1>2 DEF Fetch
  <1> HIDE DEF g
  <1>6. f.rows = NoRows /\ f.epoch = epoch /\ f.epoch =< epoch /\ f.seq =< seq /\ (~Full(f) => f.since =< seq)
    BY <1>1, <1>2 DEF FetchOK
  <1>7. g.pc = "answer" => AnswerOK(g)
    BY <1>2, <1>3, <1>5, NotNil DEF AnswerOK, Told, EmptyOK
  <1>8. FetchOK(g)
    BY <1>3, <1>5, <1>6, <1>7, FetchTyped DEF FetchOK, Full
  <1>9. QED
    BY <1>1, <1>2, <1>4, <1>8, PutKeeps

LEMMA ReadRowsKeeps ==
  ASSUME IInv, NEW x \in Fetches, ReadRows(x)
  PROVE  IInv'
  <1> DEFINE f == fetch[x]
             them == IF Full(f) THEN SnapshotAll ELSE SnapshotSince(f.since)
             rows == [m \in Members |-> IF m \in them THEN toSnapshot(live[m]) ELSE Nil]
             g == [f EXCEPT !.pc = "answer", !.rows = rows]
  <1>1. /\ f.pc = "rows" /\ Put(x, g)
        /\ UNCHANGED <<server, page, timer, acts, gap, broken>>
    BY DEF ReadRows, Serving, client
  <1>2. /\ f \in Fetch /\ FetchOK(f) /\ live \in [Members -> Live \cup {Nil}]
        /\ timer' \in BOOLEAN /\ broken' \in BOOLEAN /\ acts' \in 0 .. MaxActs
    BY <1>1, FetchTyped
  <1>3. them \subseteq Members /\ \A m \in them : live[m] \in Live
    BY <1>2 DEF SnapshotAll, SnapshotSince
  <1>4. \A m \in Members :
          Told(m, f.seq) => IF Full(f) \/ live[m].seqAt > f.since THEN m \in them ELSE m \notin them
    BY DEF Told, SnapshotAll, SnapshotSince
  <1> HIDE DEF them
  <1>5. rows \in [Members -> Shown \cup {Nil}]
    BY <1>3, SnapshotCovers
  <1>6. ASSUME NEW m \in Members, Told(m, f.seq)
        PROVE  IF Full(f) \/ live[m].seqAt > f.since THEN Covers(rows[m], live[m]) ELSE rows[m] = Nil
    BY <1>3, <1>4, <1>6, SnapshotCovers
  <1> HIDE DEF rows
  <1>7. g \in Fetch
    <2>1. "answer" \in {"none", "sent", "incident", "rows", "answer"}
      OBVIOUS
    <2>2. QED
      BY <1>2, <1>5, <2>1, ZenonT(60) DEF Fetch
  <1>8. /\ g.pc = "answer" /\ g.epoch = f.epoch /\ g.seq = f.seq /\ g.kind = f.kind
        /\ g.since = f.since /\ g.rows = rows
    BY <1>2 DEF Fetch
  <1> HIDE DEF g
  <1>9. AnswerOK(g)
    BY <1>6, <1>8 DEF AnswerOK, Full
  <1>10. FetchOK(g)
    BY <1>1, <1>2, <1>8, <1>9, FetchTyped DEF FetchOK, Full
  <1>11. QED
    BY <1>1, <1>2, <1>7, <1>10, PutKeeps

LEMMA LostKeeps ==
  ASSUME IInv, NEW x \in Fetches, Lost(x)
  PROVE  IInv'
  <1>1. /\ Put(x, Free) /\ UNCHANGED <<server, page, gap>> /\ acts' = acts
        /\ timer' = (timer \/ Reschedules(x, FALSE))
        /\ broken' = (broken \/ fetch[x].kind = "resynced")
    BY DEF Lost
  <1>2. FetchOK(Free)
    BY FetchTyped, FreeFields DEF FetchOK
  <1>3. timer' \in BOOLEAN /\ broken' \in BOOLEAN /\ acts' \in 0 .. MaxActs
    BY <1>1, FetchTyped
  <1>4. QED
    BY <1>1, <1>2, <1>3, FreeFields, PutKeeps

LEMMA ToggleKeeps ==
  ASSUME IInv, Toggle
  PROVE  IInv'
  <1>1. /\ acts < MaxActs /\ acts' = acts + 1 /\ timer' = TRUE /\ broken' = FALSE
        /\ UNCHANGED <<inc, lastInc, tracked, reload, live, epoch, seq, page, gap, fetch>>
    BY DEF Toggle, server
  <1>2. acts' \in 0 .. MaxActs
    BY <1>1, Numbers DEF IInv, TypeOK
  <1>3. TypeOK'
    BY <1>1, <1>2, ZenonT(60) DEF IInv, TypeOK
  <1>4. EmptyOK' /\ PageOK'
    BY <1>1 DEF IInv, EmptyOK, PageOK, Told
  <1>5. \A x \in Fetches : FetchOK(fetch[x])'
    BY <1>1 DEF IInv, FetchOK, AnswerOK, Told
  <1>6. QED
    BY <1>3, <1>4, <1>5 DEF IInv

LEMMA ArriveKeeps ==
  ASSUME IInv, NEW x \in Fetches, Arrive(x)
  PROVE  IInv'
  <1> DEFINE f == fetch[x]
             rows == [m \in Members |-> IF f.rows[m] # Nil THEN f.rows[m]
                                        ELSE IF Full(f) THEN Nil ELSE page.m[m]]
  <1>1. /\ f.pc = "answer" /\ Put(x, Free)
        /\ page' = [epoch |-> f.epoch, seq |-> f.seq, inc |-> f.inc, m |-> rows]
        /\ timer' = (timer \/ Reschedules(x, TRUE))
        /\ gap' = IF Full(f) THEN FALSE ELSE gap \/ page.epoch # f.epoch \/ page.seq < f.since
        /\ UNCHANGED <<inc, lastInc, tracked, reload, live, epoch, seq, acts, broken>>
    BY DEF Arrive, applyBoard, server
  <1>2. f \in Fetch /\ FetchOK(f) /\ TypeOK /\ EmptyOK /\ PageOK
    BY FetchTyped
  <1>3. rows \in [Members -> Shown \cup {Nil}]
    BY <1>2 DEF Fetch, TypeOK
  <1>4. ASSUME f.epoch = epoch, ~gap', ~reload, NEW m \in Members, Told(m, f.seq)
        PROVE  Covers(rows[m], live[m])
    <2>1. IF Full(f) \/ live[m].seqAt > f.since THEN Covers(f.rows[m], live[m]) ELSE f.rows[m] = Nil
      BY <1>1, <1>2, <1>4 DEF FetchOK, AnswerOK
    <2>2. CASE Full(f) \/ live[m].seqAt > f.since
      BY <2>1, <2>2 DEF Covers
    <2>3. CASE ~(Full(f) \/ live[m].seqAt > f.since)
      <3>1. ~gap /\ page.epoch = f.epoch /\ ~(page.seq < f.since)
        BY <1>1, <1>4, <2>3, ZenonT(60)
      <3>2. live[m] \in Live /\ live[m].seqAt =< page.seq
        BY <1>2, <1>4, <2>3, <3>1 DEF TypeOK, Fetch, Live, Told
      <3>3. Covers(page.m[m], live[m])
        BY <1>2, <1>4, <3>1, <3>2 DEF PageOK, Told
      <3>4. rows[m] = page.m[m]
        BY <2>1, <2>3
      <3>5. QED
        BY <3>3, <3>4
    <2>4. QED
      BY <2>2, <2>3
  <1> HIDE DEF rows
  <1>5. page'.epoch = f.epoch /\ page'.seq = f.seq /\ page'.m = rows
    BY <1>1
  <1>6. PageOK'
    <2>1. page'.epoch =< epoch' /\ (page'.epoch = epoch' => page'.seq =< seq')
      BY <1>1, <1>2, <1>5 DEF FetchOK
    <2>2. page'.epoch = epoch' /\ ~gap' /\ ~reload' =>
            \A m \in Members : live'[m] # Nil /\ live'[m].seqAt =< page'.seq => Covers(page'.m[m], live'[m])
      BY <1>1, <1>4, <1>5 DEF Told
    <2>3. QED
      BY <2>1, <2>2 DEF PageOK, Told, Covers
  <1>7. fetch' \in [Fetches -> Fetch] /\ fetch'[x] = Free /\ \A y \in Fetches \ {x} : fetch'[y] = fetch[y]
    BY <1>1, <1>2, FreeFields DEF TypeOK, Put
  <1>8. TypeOK'
    <2>1. f.epoch \in 1 .. MaxEpoch
      BY <1>1, <1>2, Numbers DEF FetchOK, Fetch
    <2>2. page' \in [epoch : 1 .. MaxEpoch, seq : 0 .. MaxSeq,
                     inc : Incidents \cup {Nil}, m : [Members -> Shown \cup {Nil}]]
      BY <1>1, <1>2, <1>3, <2>1 DEF Fetch
    <2>3. timer' \in BOOLEAN /\ gap' \in BOOLEAN
      <3>1. timer \in BOOLEAN /\ gap \in BOOLEAN
        BY <1>2 DEF TypeOK
      <3>2. timer' \in BOOLEAN
        BY <1>1
      <3>3. gap' \in BOOLEAN
        BY <1>1, <3>1, ZenonT(60)
      <3>4. QED
        BY <3>2, <3>3
    <2>4. QED
      BY <1>1, <1>2, <1>7, <2>2, <2>3, ZenonT(60) DEF TypeOK
  <1>9. EmptyOK'
    BY <1>1, <1>2 DEF EmptyOK
  <1>10. ASSUME NEW y \in Fetches PROVE FetchOK(fetch[y])'
    <2>1. CASE y = x
      BY <1>1, <1>2, <1>7, <2>1, FreeFields, FetchTyped DEF FetchOK
    <2>2. CASE y # x
      BY <1>1, <1>7, <2>2 DEF IInv, FetchOK, AnswerOK, Told
    <2>3. QED
      BY <2>1, <2>2
  <1>11. QED
    BY <1>6, <1>8, <1>9, <1>10 DEF IInv

-----------------------------------------------------------------------------
(***************************************************************************)
(* The invariant, and what it says                                         *)
(***************************************************************************)
LEMMA InitOK == Init => IInv
  <1> SUFFICES ASSUME Init PROVE IInv
    OBVIOUS
  <1>1. /\ inc = Nil /\ lastInc = 0 /\ tracked = Nil /\ reload = FALSE /\ live = NoRows
        /\ epoch = 1 /\ seq = 0 /\ page = [epoch |-> 1, seq |-> 0, inc |-> Nil, m |-> NoRows]
        /\ timer = TRUE /\ fetch = [x \in Fetches |-> Free] /\ acts = 0 /\ gap = FALSE /\ broken = FALSE
    BY DEF Init
  <1>2. TypeOK
    <2>1. {inc, tracked} \subseteq Incidents \cup {Nil} /\ {reload, timer, gap, broken} \subseteq BOOLEAN
      BY <1>1, ZenonT(60)
    <2>2. /\ lastInc \in 0 .. MaxInc /\ epoch \in 1 .. MaxEpoch /\ seq \in 0 .. MaxSeq /\ acts \in 0 .. MaxActs
          /\ live \in [Members -> Live \cup {Nil}]
      BY <1>1, NotNil, Numbers
    <2>3. page \in [epoch : 1 .. MaxEpoch, seq : 0 .. MaxSeq,
                    inc : Incidents \cup {Nil}, m : [Members -> Shown \cup {Nil}]]
      <3>1. 1 \in 1 .. MaxEpoch /\ 0 \in 0 .. MaxSeq /\ Nil \in Incidents \cup {Nil}
        BY Numbers
      <3>2. NoRows \in [Members -> Shown \cup {Nil}]
        BY NotNil
      <3>3. QED
        BY <1>1, <3>1, <3>2, ZenonT(60)
    <2>4. fetch \in [Fetches -> Fetch]
      BY <1>1, FreeFields
    <2>5. QED
      BY <2>1, <2>2, <2>3, <2>4 DEF TypeOK
  <1>3. EmptyOK /\ PageOK
    BY <1>1, NotNil DEF EmptyOK, PageOK, Told
  <1>4. \A x \in Fetches : FetchOK(fetch[x])
    BY <1>1, FreeFields DEF FetchOK
  <1>5. QED
    BY <1>2, <1>3, <1>4 DEF IInv

LEMMA StepOK == IInv /\ [Next]_vars => IInv'
  <1> SUFFICES ASSUME IInv, [Next]_vars PROVE IInv'
    OBVIOUS
  <1>1. CASE MemberStep
    BY <1>1, ProcessFixKeeps, MarkLoggedInKeeps, AckKeeps, ConsentDeniedKeeps, ZenonT(60)
       DEF MemberStep
  <1>2. CASE Administrator
    BY <1>2, EditKeeps
  <1>3. CASE Reload
    BY <1>3, ReloadKeeps
  <1>4. CASE Restart
    BY <1>4, RestartKeeps
  <1>5. CASE Toggle
    BY <1>5, ToggleKeeps
  <1>6. ASSUME NEW x \in Fetches, Serve(x) PROVE IInv'
    BY <1>6, ResyncKeeps, ReadSeqKeeps, ReadIncidentKeeps, ReadRowsKeeps, ZenonT(60) DEF Serve
  <1>7. ASSUME NEW x \in Fetches, Arrive(x) \/ Poll(x) \/ OwnEdit(x) \/ Lost(x) PROVE IInv'
    BY <1>7, ArriveKeeps, PollKeeps, OwnEditKeeps, LostKeeps, ZenonT(60)
  <1>8. CASE UNCHANGED vars
    <2>1. TypeOK' /\ EmptyOK' /\ PageOK'
      BY <1>8 DEF IInv, TypeOK, EmptyOK, PageOK, Told, vars, server, client
    <2>2. \A x \in Fetches : FetchOK(fetch[x])'
      BY <1>8 DEF IInv, FetchOK, AnswerOK, Told, vars, server, client
    <2>3. QED
      BY <2>1, <2>2 DEF IInv
  <1>9. QED
    BY <1>1, <1>2, <1>3, <1>4, <1>5, <1>6, <1>7, <1>8, ZenonT(60) DEF Next

(* The inductive invariant holds in every behaviour of feed and page.      *)
THEOREM Invariant == Spec => []IInv
  BY InitOK, StepOK, PTL DEF Spec

(* Every variable keeps its type.                                          *)
THEOREM TypeCorrect == Spec => []TypeOK
  <1>1. IInv => TypeOK
    BY DEF IInv
  <1>2. QED
    BY <1>1, Invariant, PTL

(* A page that has reached a number misses nothing announced up to that    *)
(* number, in whatever order the answers came.                             *)
THEOREM CurrentTheorem == Spec => []BoardIsCurrent
  <1>1. IInv => BoardIsCurrent
    <2>1. SUFFICES ASSUME IInv, page.epoch = epoch, ~gap, ~reload, NEW m \in Members,
                          live[m] # Nil, live[m].seqAt =< page.seq
                   PROVE  ~Misses(m)
      BY DEF BoardIsCurrent
    <2>2. Covers(page.m[m], live[m])
      BY <2>1 DEF IInv, PageOK, Told
    <2>3. QED
      BY <2>2 DEF Covers, Misses
  <1>2. QED
    BY <1>1, Invariant, PTL
================================================================================
