------------------------------ MODULE Judge_proofs ------------------------------
(***************************************************************************)
(* Proofs about module Judge, for any areas, any reports and any clock:    *)
(* its invariants and action properties, and that it implements Presence.  *)
(***************************************************************************)
EXTENDS Judge, TLAPS

(* Every step that names no prover goes to the SMT solver, with time to    *)
(* spare on a slow machine.                                                *)
USE SMTT(60)

(* A report as ProcessFix sees it.                                         *)
Fix == [pos : Int, acc : Nat, ts : Int]

(* What a judged fix can do to phase, arrival time and departure count.    *)
Stayed(l, m) ==
  m.state = Depart(l).state /\ m.arrivedAt = l.arrivedAt /\ m.leftCount = l.leftCount
Arrived(l, m) ==
  Depart(l).state \in {"MOVING", "LEFT"} /\ m.state = "ARRIVED" /\ m.arrivedAt # 0
  /\ m.leftCount = l.leftCount
Left(l, m) ==
  l.state = "ARRIVED" /\ m.state = "LEFT" /\ m.arrivedAt = l.arrivedAt
  /\ m.leftCount = l.leftCount + 1

(* The counter of plausible fixes is the number of them since the last     *)
(* implausible one.                                                        *)
ClearCounts == live.suspect => live.suspectClear = calm

(* The inductive invariant.                                                *)
IInv == TypeOK /\ TransitionsPersisted /\ ArrivalTimeMatchesPhase /\ ClearCounts

-----------------------------------------------------------------------------
(***************************************************************************)
(* Live methods                                                            *)
(***************************************************************************)
(* The age of a report gives it a time, and a valid one a time after 0.    *)
LEMMA FixFacts ==
  ASSUME TypeOK, NEW r \in Fixes,
         NEW f, f = [pos |-> r.pos, acc |-> r.acc, ts |-> now - r.age]
  PROVE  f \in Fix /\ (IsValidFix(f) => f.ts \in Nat \ {0})
  BY JudgeAssumption DEF TypeOK, Fix, IsValidFix, MaxClockPast

(* The small methods keep the record well formed.                          *)
LEMMA Small ==
  ASSUME NEW l \in Live, NEW f \in Fix
  PROVE  /\ Remember(l, f) \in Live /\ Flag(l) \in Live /\ Unflag(l) \in Live
         /\ Depart(l) \in Live /\ MarkLoggedIn(l) \in Live /\ MarkLocDenied(l) \in Live
  <1> 0 \in 0 .. 1 /\ 1 \in 0 .. 1
    OBVIOUS
  <1>1. Remember(l, f) \in Live
    BY DEF Remember, Live, Fix
  <1>2. Flag(l) \in Live
    BY ZenonT(120) DEF Flag, Live
  <1>3. Unflag(l) \in Live
    <2>1. [l EXCEPT !.suspect = FALSE, !.suspectClear = 0] \in Live
      BY ZenonT(120) DEF Live
    <2>2. [l EXCEPT !.suspectClear = 1] \in Live
      BY DEF Live
    <2>3. QED
      BY <2>1, <2>2, ZenonT(120) DEF Unflag
  <1>4. Depart(l) \in Live /\ MarkLoggedIn(l) \in Live /\ MarkLocDenied(l) \in Live
    BY ZenonT(120) DEF Depart, MarkLoggedIn, MarkLocDenied, Live, States, Waiting
  <1>5. QED
    BY <1>1, <1>2, <1>3, <1>4

(* JudgeState, on a record that has departed: it stays, arrives or leaves. *)
LEMMA Judgement ==
  ASSUME NEW l \in Live, NEW f \in Fix, f.ts \in Nat \ {0}, NEW zone,
         l.state \notin Waiting
  PROVE  LET m == JudgeState(l, f, zone) IN
         /\ m \in Live
         /\ m.suspect = l.suspect /\ m.suspectClear = l.suspectClear
         /\ Stayed(l, m) \/ Arrived(l, m) \/ Left(l, m)
  <1> DEFINE
        arr(c)   == [l EXCEPT !.arriveSince = c]
        lea(c)   == [l EXCEPT !.leaveSince = c]
        arrive   == [l EXCEPT !.state = "ARRIVED", !.arrivedAt = l.arriveSince,
                              !.arriveSince = 0, !.leaveSince = 0]
        leave    == [l EXCEPT !.state = "LEFT", !.leftCount = @ + 1,
                              !.leaveSince = 0, !.arriveSince = 0]
  <1>1. Depart(l).state = l.state
    BY DEF Depart, Live
  <1>2. ASSUME NEW c \in Nat
        PROVE  LET a == arr(c)
                   b == lea(c)
               IN  /\ a \in Live /\ b \in Live
                   /\ a.suspect = l.suspect /\ a.suspectClear = l.suspectClear
                   /\ b.suspect = l.suspect /\ b.suspectClear = l.suspectClear
                   /\ Stayed(l, a) /\ Stayed(l, b)
    <2>1. arr(c) \in Live /\ lea(c) \in Live
      BY DEF Live
    <2>2. QED
      BY <1>1, <2>1 DEF Live, Stayed
  <1>3. CASE l.state = "ARRIVED"
    <2>1. leave \in Live /\ leave.suspect = l.suspect
          /\ leave.suspectClear = l.suspectClear /\ Left(l, leave)
      <3>1. "LEFT" \in States
        BY DEF States
      <3>2. leave \in Live
        <4>1. l.leftCount + 1 \in Nat /\ 0 \in Nat
          BY DEF Live
        <4>2. QED
          BY <3>1, <4>1, ZenonT(120) DEF Live
      <3>3. leave.suspect = l.suspect /\ leave.suspectClear = l.suspectClear
        BY DEF Live
      <3>4. leave.state = "LEFT" /\ leave.arrivedAt = l.arrivedAt
            /\ leave.leftCount = l.leftCount + 1
        BY DEF Live
      <3>5. QED
        BY <1>3, <3>2, <3>3, <3>4 DEF Left
    <2>2. JudgeState(l, f, zone) \in {lea(0), lea(f.ts), leave, l}
      BY <1>3 DEF JudgeState, JudgeArrived
    <2>3. Stayed(l, l)
      BY <1>1 DEF Stayed
    <2>4. CASE JudgeState(l, f, zone) = lea(0)
      BY <1>2, <2>4, ZenonT(120)
    <2>5. CASE JudgeState(l, f, zone) = lea(f.ts)
      BY <1>2, <2>5, ZenonT(120)
    <2>6. CASE JudgeState(l, f, zone) \in {leave, l}
      BY <2>1, <2>3, <2>6, ZenonT(120)
    <2>7. QED
      BY <2>2, <2>4, <2>5, <2>6
  <1>4. CASE l.state # "ARRIVED"
    <2>1. l.state \in {"MOVING", "LEFT"}
      BY <1>4 DEF Live, States
    <2>2. ASSUME l.arriveSince # 0
          PROVE  arrive \in Live /\ arrive.suspect = l.suspect
                 /\ arrive.suspectClear = l.suspectClear /\ Arrived(l, arrive)
      <3>1. "ARRIVED" \in States
        BY DEF States
      <3>2. arrive \in Live
        BY <3>1, ZenonT(120) DEF Live
      <3>3. QED
        BY <1>1, <2>1, <2>2, <3>2 DEF Live, Arrived
    <2>3. \/ JudgeState(l, f, zone) \in {arr(0), arr(f.ts), l}
          \/ JudgeState(l, f, zone) = arrive /\ l.arriveSince # 0
      BY <1>4 DEF JudgeState, JudgeEnRoute
    <2>4. Stayed(l, l)
      BY <1>1 DEF Stayed
    <2>5. CASE JudgeState(l, f, zone) = arr(0)
      BY <1>2, <2>5, ZenonT(120)
    <2>6. CASE JudgeState(l, f, zone) = arr(f.ts)
      BY <1>2, <2>6, ZenonT(120)
    <2>7. CASE JudgeState(l, f, zone) = l
      BY <2>4, <2>7
    <2>8. CASE JudgeState(l, f, zone) = arrive /\ l.arriveSince # 0
      BY <2>2, <2>8
    <2>9. QED
      BY <2>3, <2>5, <2>6, <2>7, <2>8
  <1>5. QED
    BY <1>3, <1>4

(* ApplyFix leaves a fix that is not judged without effect on the phase,   *)
(* and lets a judged one depart, arrive or leave, and count toward the end *)
(* of a suspicion.                                                         *)
LEMMA Applied ==
  ASSUME NEW l \in Live, NEW f \in Fix, IsValidFix(f) => f.ts \in Nat \ {0}
  PROVE  LET m == ApplyFix(l, f)
             judged == IsValidFix(f) /\ ~Implausible(l, f)
         IN  /\ m \in Live
             /\ ~IsValidFix(f) => m = l
             /\ ~judged => /\ m.state = l.state /\ m.arrivedAt = l.arrivedAt
                           /\ m.leftCount = l.leftCount
             /\ judged => Stayed(l, m) \/ Arrived(l, m) \/ Left(l, m)
             /\ IsValidFix(f) /\ ~judged => m.suspect /\ m.suspectClear = 0
             /\ judged => /\ m.suspect = (l.suspect /\ l.suspectClear # 1)
                          /\ m.suspect => m.suspectClear = 1
  <1> DEFINE m == ApplyFix(l, f)
             sd == Zone(f, SignedDistance(area, f.pos))
             k  == Remember(l, f)
             d  == Depart(Unflag(k))
  <1>1. CASE ~IsValidFix(f)
    BY <1>1 DEF ApplyFix
  <1>2. CASE IsValidFix(f) /\ Implausible(l, f)
    <2>1. m = Flag(k) /\ k \in Live
      BY <1>2, Small, ZenonT(120) DEF ApplyFix
    <2>2. m \in Live
      BY <2>1, Small
    <2>3. k.state = l.state /\ k.arrivedAt = l.arrivedAt /\ k.leftCount = l.leftCount
      BY DEF Remember, Live
    <2>4. m.state = k.state /\ m.arrivedAt = k.arrivedAt /\ m.leftCount = k.leftCount
      BY <2>1 DEF Flag, Live
    <2>5. m.suspect /\ m.suspectClear = 0
      BY <2>1 DEF Flag, Live
    <2>6. QED
      BY <1>2, <2>2, <2>3, <2>4, <2>5
  <1>3. CASE IsValidFix(f) /\ ~Implausible(l, f)
    <2>1. m = JudgeState(d, f, sd)
      BY <1>3 DEF ApplyFix
    <2>2. k \in Live /\ Unflag(k) \in Live /\ d \in Live
      BY Small
    <2>3. /\ k.state = l.state /\ k.arrivedAt = l.arrivedAt /\ k.leftCount = l.leftCount
          /\ k.suspect = l.suspect
          /\ k.suspectClear = l.suspectClear
      BY DEF Remember, Live
    <2>4. /\ Unflag(k).state = l.state /\ Unflag(k).arrivedAt = l.arrivedAt
          /\ Unflag(k).leftCount = l.leftCount
          /\ Unflag(k).suspect = (l.suspect /\ l.suspectClear # 1)
          /\ Unflag(k).suspect => Unflag(k).suspectClear = 1
      BY <2>2, <2>3, ZenonT(120) DEF Unflag, Live
    <2>5. /\ d.state = Depart(l).state /\ d.state \notin Waiting
          /\ d.arrivedAt = l.arrivedAt /\ d.leftCount = l.leftCount
          /\ d.suspect = (l.suspect /\ l.suspectClear # 1)
          /\ d.suspect => d.suspectClear = 1
          /\ d.state = "ARRIVED" => l.state = "ARRIVED"
      BY <2>2, <2>4 DEF Depart, Waiting, Live
    <2>6. f.ts \in Nat \ {0}
      BY <1>3
    <2>7. /\ m \in Live
          /\ m.suspect = d.suspect /\ m.suspectClear = d.suspectClear
          /\ Stayed(d, m) \/ Arrived(d, m) \/ Left(d, m)
      BY <2>1, <2>2, <2>5, <2>6, Judgement
    <2>8. Depart(d).state = Depart(l).state
      BY <2>2, <2>5 DEF Depart, Live
    <2>9. Stayed(l, m) \/ Arrived(l, m) \/ Left(l, m)
      BY <2>5, <2>7, <2>8 DEF Stayed, Arrived, Left
    <2>10. QED
      BY <1>3, <2>5, <2>7, <2>9
  <1>4. QED
    BY <1>1, <1>2, <1>3

(* MarkLoggedIn and MarkLocDenied move a waiting member only, within the   *)
(* waiting states.                                                         *)
LEMMA Waited ==
  ASSUME NEW l \in Live
  PROVE  /\ \A m \in {MarkLoggedIn(l), MarkLocDenied(l)} :
              /\ m \in Live
              /\ m.arrivedAt = l.arrivedAt /\ m.leftCount = l.leftCount
              /\ m.suspect = l.suspect /\ m.suspectClear = l.suspectClear
              /\ m.state = l.state \/ (m.state \in Waiting /\ l.state \in Waiting)
         /\ l.state # "NOTIFIED" => MarkLoggedIn(l).state = l.state
         /\ Depart(MarkLoggedIn(l)).state = Depart(l).state
  <1>1. Depart(MarkLoggedIn(l)).state = Depart(l).state
    BY DEF Depart, MarkLoggedIn, Live, Waiting
  <1>2. MarkLoggedIn(l) \in Live /\ MarkLocDenied(l) \in Live
    BY ZenonT(120) DEF MarkLoggedIn, MarkLocDenied, Live, States, Waiting
  <1>3. QED
    BY <1>1, <1>2 DEF MarkLoggedIn, MarkLocDenied, Live, Waiting

(* A rebuilt record is the row with its counters cleared.                  *)
LEMMA Rebuilt ==
  ASSUME NEW row \in Row
  PROVE  LET l == NewLive(row) IN
         /\ l \in Live
         /\ l.state = row.state /\ l.arrivedAt = row.arrivedAt
         /\ l.leftCount = row.leftCount /\ l.suspect = row.suspect
         /\ l.suspectClear = 0
  BY DEF NewLive, Row, Live, NoFix

(* The columns of a record are those of a row.                             *)
LEMMA RowFacts ==
  ASSUME NEW l \in Live
  PROVE  /\ RowOf(l) \in Row
         /\ RowOf(l).state = l.state /\ RowOf(l).arrivedAt = l.arrivedAt
         /\ RowOf(l).leftCount = l.leftCount
  BY DEF RowOf, Row, Live

-----------------------------------------------------------------------------
(***************************************************************************)
(* The invariant                                                           *)
(***************************************************************************)
(* The first row, and the record built from it.                            *)
LEMMA InitInv == Init => IInv
  <1> SUFFICES ASSUME Init PROVE IInv
    OBVIOUS
  <1>1. NewRow \in Row
    BY DEF NewRow, Row, States, Waiting
  <1>2. /\ live \in Live /\ stored \in Row /\ live.state = stored.state
        /\ live.arrivedAt = stored.arrivedAt /\ live.leftCount = stored.leftCount
        /\ live.suspectClear = 0
    BY <1>1, Rebuilt DEF Init
  <1>3. TypeOK
    BY <1>2, JudgeAssumption DEF Init, TypeOK, Events
  <1>4. live.arrivedAt = 0 /\ live.state = "NOTIFIED"
    BY <1>2 DEF Init, NewRow
  <1>5. QED
    BY <1>2, <1>3, <1>4 DEF Init, IInv, TransitionsPersisted, ArrivalTimeMatchesPhase,
                            ClearCounts

(* The clock.                                                              *)
LEMMA TickInv == IInv /\ Tick => IInv'
  BY JudgeAssumption DEF Tick, IInv, TypeOK, TransitionsPersisted, ArrivalTimeMatchesPhase,
                         ClearCounts, Events

(* A first login and a refusal keep the member waiting.                    *)
LEMMA ContactInv == IInv /\ (Login \/ ConsentDenied) => IInv'
  <1> SUFFICES ASSUME IInv, Login \/ ConsentDenied PROVE IInv'
    OBVIOUS
  <1>1. live \in Live /\ stored \in Row
    BY DEF IInv, TypeOK
  <1>2. live' \in {MarkLoggedIn(live), MarkLocDenied(live)}
    BY DEF Login, ConsentDenied
  <1>3. /\ live' \in Live
        /\ live'.arrivedAt = live.arrivedAt /\ live'.leftCount = live.leftCount
        /\ live'.suspect = live.suspect /\ live'.suspectClear = live.suspectClear
        /\ live'.state = live.state \/ (live'.state \in Waiting /\ live.state \in Waiting)
    BY <1>1, <1>2, Waited
  <1>4. /\ stored' \in Row /\ stored'.state = live'.state
        /\ stored'.arrivedAt = stored.arrivedAt /\ stored'.leftCount = stored.leftCount
    <2>1. live'.state \in States /\ live'.loggedIn \in BOOLEAN
      BY <1>3 DEF Live
    <2>2. CASE Login
      <3>1. stored' = [stored EXCEPT !.state = live'.state, !.loggedIn = live'.loggedIn]
        BY <2>2 DEF Login
      <3>2. stored' \in Row
        BY <1>1, <2>1, <3>1, ZenonT(120) DEF Row
      <3>3. QED
        BY <1>1, <3>1, <3>2 DEF Row
    <2>3. CASE ConsentDenied
      <3>1. stored' = [stored EXCEPT !.state = live'.state]
        BY <2>3 DEF ConsentDenied
      <3>2. stored' \in Row
        BY <1>1, <2>1, <3>1, ZenonT(120) DEF Row
      <3>3. QED
        BY <1>1, <3>1, <3>2 DEF Row
    <2>4. QED
      BY <2>2, <2>3
  <1>5. /\ now' = now /\ area' = area /\ evidence' = evidence /\ calm' = calm
        /\ recorded' = "none"
    BY DEF Login, ConsentDenied
  <1>6. TypeOK'
    BY <1>3, <1>4, <1>5 DEF IInv, TypeOK, Events
  <1>7. TransitionsPersisted'
    BY <1>3, <1>4 DEF IInv, TransitionsPersisted
  <1>8. ArrivalTimeMatchesPhase'
    BY <1>3 DEF IInv, ArrivalTimeMatchesPhase, Waiting
  <1>9. ClearCounts'
    BY <1>3, <1>5 DEF IInv, ClearCounts
  <1>10. QED
    BY <1>6, <1>7, <1>8, <1>9 DEF IInv

(* The batch writer leaves the record and the phase columns alone.         *)
LEMMA FlushInv == IInv /\ FlushDirty => IInv'
  <1> SUFFICES ASSUME IInv, FlushDirty PROVE IInv'
    OBVIOUS
  <1>1. live \in Live /\ stored \in Row /\ live.suspect \in BOOLEAN
    BY DEF IInv, TypeOK, Live
  <1>2. stored' = [stored EXCEPT !.suspect = live.suspect]
    BY DEF FlushDirty
  <1>3. stored' \in Row
    BY <1>1, <1>2, ZenonT(120) DEF Row
  <1>4. /\ stored'.state = stored.state /\ stored'.arrivedAt = stored.arrivedAt
        /\ stored'.leftCount = stored.leftCount
    BY <1>1, <1>2 DEF Row
  <1>5. QED
    BY <1>3, <1>4 DEF FlushDirty, IInv, TypeOK, Events, TransitionsPersisted,
                      ArrivalTimeMatchesPhase, ClearCounts

(* Any reload.                                                             *)
LEMMA RebuiltInv ==
  ASSUME IInv, stored' \in Row, live' = NewLive(stored'), calm' = 0, evidence' = <<>>,
         recorded' = "none", now' = now, area' \in Areas,
         (stored'.arrivedAt # 0) <=> (stored'.state \in {"ARRIVED", "LEFT"})
  PROVE  IInv'
  <1>1. /\ live' \in Live
        /\ live'.state = stored'.state /\ live'.arrivedAt = stored'.arrivedAt
        /\ live'.leftCount = stored'.leftCount /\ live'.suspectClear = 0
    BY Rebuilt
  <1>2. TypeOK'
    BY <1>1 DEF IInv, TypeOK, Events
  <1>3. QED
    BY <1>1, <1>2 DEF IInv, TransitionsPersisted, ArrivalTimeMatchesPhase, ClearCounts

(* A reload finds the phase in the database.                               *)
LEMMA ReloadInv == IInv /\ Reload => IInv'
  <1> SUFFICES ASSUME IInv, Reload PROVE IInv'
    OBVIOUS
  <1>1. stored' \in Row /\ stored' = stored
        /\ ((stored.arrivedAt # 0) <=> (stored.state \in {"ARRIVED", "LEFT"}))
    BY DEF IInv, TypeOK, Reload, TransitionsPersisted, ArrivalTimeMatchesPhase
  <1>2. QED
    BY <1>1, RebuiltInv DEF Reload, IInv, TypeOK

(* A new area voids an arrival, in the database first.                     *)
LEMMA ReassignInv == ASSUME IInv, NEW a \in Areas, Reassign(a) PROVE IInv'
  <1> DEFINE reset == stored.state \in {"ARRIVED", "LEFT"}
  <1>1. stored \in Row /\ ((stored.arrivedAt # 0) <=> reset)
    BY DEF IInv, TypeOK, TransitionsPersisted, ArrivalTimeMatchesPhase
  <1>2. /\ stored' \in Row
        /\ (stored'.arrivedAt # 0) <=> (stored'.state \in {"ARRIVED", "LEFT"})
    <2>1. CASE reset
      <3>1. stored' = [stored EXCEPT !.state = "MOVING", !.arrivedAt = 0]
        BY <2>1 DEF Reassign
      <3>2. "MOVING" \in States /\ 0 \in Nat
        BY DEF States
      <3>3. stored' \in Row
        BY <1>1, <3>1, <3>2, ZenonT(120) DEF Row
      <3>4. stored'.state = "MOVING" /\ stored'.arrivedAt = 0
        BY <1>1, <3>1 DEF Row
      <3>5. QED
        BY <3>3, <3>4
    <2>2. CASE ~reset
      BY <1>1, <2>2 DEF Reassign
    <2>3. QED
      BY <2>1, <2>2
  <1>3. QED
    BY <1>2, RebuiltInv DEF Reassign

(* A sequence extended.                                                    *)
LEMMA Extended ==
  ASSUME NEW S, NEW s \in Seq(S), NEW e \in S
  PROVE  Append(s, e) \in Seq(S)
  OBVIOUS

(* What a report changes: the facts every property of ProcessFix rests on. *)
LEMMA Processed ==
  ASSUME IInv, NEW r \in Fixes, ProcessFix(r)
  PROVE  LET known == MarkLoggedIn(live) IN
         /\ live' \in Live
         /\ stored' \in Row /\ stored'.state = live'.state
            /\ stored'.arrivedAt = live'.arrivedAt /\ stored'.leftCount = live'.leftCount
         /\ \/ live'.state \in {known.state, Depart(live).state}
               /\ live'.arrivedAt = live.arrivedAt /\ live'.leftCount = live.leftCount
               /\ recorded' \in {"none", "suspect_fix"}
            \/ live'.state = "ARRIVED" /\ live'.arrivedAt # 0
               /\ live'.leftCount = live.leftCount
               /\ recorded' \in {"arrived", "returned"}
            \/ live.state = "ARRIVED" /\ live'.state = "LEFT"
               /\ live'.arrivedAt = live.arrivedAt
               /\ live'.leftCount = live.leftCount + 1 /\ recorded' = "left"
         /\ live'.suspect => live'.suspectClear = calm'
         /\ live.suspect /\ ~live'.suspect => calm' = 2
         /\ calm' \in 0 .. 2
         /\ evidence' \in Seq([zone : {"in", "near", "out"}, ts : Int])
  <1> DEFINE f           == [pos |-> r.pos, acc |-> r.acc, ts |-> now - r.age]
             known       == MarkLoggedIn(live)
             judged      == IsValidFix(f) /\ ~Implausible(known, f)
             transitioned == judged /\ live'.state # known.state
             needSync    == transitioned \/ live.state = "NOTIFIED"
             zone        == Zone(f, SignedDistance(area, f.pos))
  <1>1. f \in Fix /\ (IsValidFix(f) => f.ts \in Nat \ {0})
    BY FixFacts DEF IInv
  <1>2. /\ live \in Live /\ stored \in Row /\ calm \in 0 .. 2
        /\ live.suspect => live.suspectClear = calm
        /\ stored.state = live.state /\ stored.arrivedAt = live.arrivedAt
        /\ stored.leftCount = live.leftCount
        /\ evidence \in Seq([zone : {"in", "near", "out"}, ts : Int])
    BY DEF IInv, TypeOK, ClearCounts, TransitionsPersisted
  <1>3. /\ known \in Live
        /\ known.arrivedAt = live.arrivedAt /\ known.leftCount = live.leftCount
        /\ known.suspect = live.suspect /\ known.suspectClear = live.suspectClear
        /\ live.state # "NOTIFIED" => known.state = live.state
        /\ Depart(known).state = Depart(live).state
        /\ known.state = "ARRIVED" => live.state = "ARRIVED"
    BY <1>2, Waited DEF Waiting
  <1>4. live' = ApplyFix(known, f)
    BY DEF ProcessFix
  <1>5. /\ live' \in Live
        /\ ~IsValidFix(f) => live' = known
        /\ ~judged => /\ live'.state = known.state /\ live'.arrivedAt = known.arrivedAt
                      /\ live'.leftCount = known.leftCount
        /\ judged => Stayed(known, live') \/ Arrived(known, live') \/ Left(known, live')
        /\ IsValidFix(f) /\ ~judged => live'.suspect /\ live'.suspectClear = 0
        /\ judged => /\ live'.suspect = (known.suspect /\ known.suspectClear # 1)
                     /\ live'.suspect => live'.suspectClear = 1
    <2> HIDE DEF f, known
    <2>1. QED
      BY <1>1, <1>3, <1>4, Applied
  <1>6. stored' = IF needSync THEN RowOf(live') ELSE stored
    BY DEF ProcessFix
  <1>7. recorded' = IF needSync THEN EventOf(known, live') ELSE "none"
    BY DEF ProcessFix
  <1>8. calm' = IF ~IsValidFix(f) THEN calm
                ELSE IF ~judged THEN 0
                ELSE IF calm = 2 THEN 2 ELSE calm + 1
    BY DEF ProcessFix
  <1>9. evidence' \in {evidence, <<>>, Append(evidence, [zone |-> zone, ts |-> f.ts])}
    BY DEF ProcessFix
  <1>10. zone \in {"in", "near", "out"}
    BY DEF Zone
  <1>11. evidence' \in Seq([zone : {"in", "near", "out"}, ts : Int])
    <2>1. [zone |-> zone, ts |-> f.ts] \in [zone : {"in", "near", "out"}, ts : Int]
      BY <1>1, <1>10 DEF Fix
    <2>2. <<>> \in Seq([zone : {"in", "near", "out"}, ts : Int])
      OBVIOUS
    <2>3. Append(evidence, [zone |-> zone, ts |-> f.ts])
            \in Seq([zone : {"in", "near", "out"}, ts : Int])
      BY <1>2, <2>1, Extended
    <2>4. QED
      BY <1>2, <1>9, <2>2, <2>3, ZenonT(120)
  <1> HIDE DEF f, known, zone
  <1>12. \/ /\ live'.state \in {known.state, Depart(live).state}
            /\ live'.arrivedAt = live.arrivedAt /\ live'.leftCount = live.leftCount
         \/ /\ live'.state = "ARRIVED" /\ known.state # "ARRIVED"
            /\ judged /\ live'.arrivedAt # 0 /\ live'.leftCount = live.leftCount
         \/ /\ live.state = "ARRIVED" /\ known.state = "ARRIVED" /\ live'.state = "LEFT"
            /\ judged /\ live'.arrivedAt = live.arrivedAt
            /\ live'.leftCount = live.leftCount + 1
    <2>1. Depart(known).state \in {"MOVING", "LEFT"} => known.state # "ARRIVED"
      BY <1>3 DEF Depart, Waiting, Live
    <2>2. QED
      BY <1>3, <1>5, <2>1 DEF Stayed, Arrived, Left
  <1>13. /\ stored' \in Row /\ stored'.state = live'.state
         /\ stored'.arrivedAt = live'.arrivedAt /\ stored'.leftCount = live'.leftCount
    <2>1. CASE needSync
      BY <1>5, <1>6, <2>1, RowFacts
    <2>2. CASE ~needSync
      <3>1. stored' = stored /\ live'.state = known.state /\ known.state = live.state
        BY <1>3, <1>5, <1>6, <2>2
      <3>2. live'.arrivedAt = live.arrivedAt /\ live'.leftCount = live.leftCount
        BY <1>12, <2>2, <3>1
      <3>3. QED
        BY <1>2, <3>1, <3>2
    <2>3. QED
      BY <2>1, <2>2
  <1>14. /\ live'.suspect => live'.suspectClear = calm'
         /\ live.suspect /\ ~live'.suspect => calm' = 2
         /\ calm' \in 0 .. 2
    <2>1. CASE ~IsValidFix(f)
      BY <1>2, <1>3, <1>5, <1>8, <2>1
    <2>2. CASE IsValidFix(f) /\ ~judged
      BY <1>5, <1>8, <2>2
    <2>3. CASE judged
      <3>1. live.suspectClear \in 0 .. 1
        BY <1>2 DEF Live
      <3>2. calm' = IF calm = 2 THEN 2 ELSE calm + 1
        BY <1>8, <2>3
      <3>3. live'.suspect <=> (live.suspect /\ live.suspectClear # 1)
        BY <1>3, <1>5, <2>3, ZenonT(120)
      <3>4. live'.suspect => live'.suspectClear = 1
        BY <1>5, <2>3
      <3>5. QED
        BY <1>2, <3>1, <3>2, <3>3, <3>4
    <2>4. QED
      BY <2>1, <2>2, <2>3
  <1>15. \/ /\ live'.state \in {known.state, Depart(live).state}
            /\ live'.arrivedAt = live.arrivedAt /\ live'.leftCount = live.leftCount
            /\ recorded' \in {"none", "suspect_fix"}
         \/ live'.state = "ARRIVED" /\ live'.arrivedAt # 0
            /\ live'.leftCount = live.leftCount /\ recorded' \in {"arrived", "returned"}
         \/ live.state = "ARRIVED" /\ live'.state = "LEFT"
            /\ live'.arrivedAt = live.arrivedAt
            /\ live'.leftCount = live.leftCount + 1 /\ recorded' = "left"
    <2>1. CASE /\ live'.state \in {known.state, Depart(live).state}
               /\ live'.arrivedAt = live.arrivedAt /\ live'.leftCount = live.leftCount
      <3>1. live'.state \in {"ARRIVED", "LEFT"} => known.state = live'.state
        BY <1>3, <2>1 DEF Depart, Waiting, Live
      <3>2. QED
        BY <1>7, <2>1, <3>1 DEF EventOf
    <2>2. CASE /\ live'.state = "ARRIVED" /\ known.state # "ARRIVED"
               /\ judged /\ live'.arrivedAt # 0 /\ live'.leftCount = live.leftCount
      BY <1>7, <2>2 DEF EventOf
    <2>3. CASE /\ live.state = "ARRIVED" /\ known.state = "ARRIVED" /\ live'.state = "LEFT"
               /\ judged /\ live'.arrivedAt = live.arrivedAt
               /\ live'.leftCount = live.leftCount + 1
      BY <1>7, <2>3 DEF EventOf
    <2>4. QED
      BY <1>12, <2>1, <2>2, <2>3
  <1>16. QED
    BY <1>5, <1>11, <1>13, <1>14, <1>15 DEF known

(* A report keeps the invariant.                                           *)
LEMMA FixInv == ASSUME IInv, NEW r \in Fixes, ProcessFix(r) PROVE IInv'
  <1> DEFINE known == MarkLoggedIn(live)
  <1>1. live \in Live /\ ((live.arrivedAt # 0) <=> (live.state \in {"ARRIVED", "LEFT"}))
    BY DEF IInv, TypeOK, ArrivalTimeMatchesPhase
  <1>2. now' = now /\ area' = area
    BY DEF ProcessFix
  <1>3. TypeOK'
    BY <1>2, Processed DEF IInv, TypeOK, Events
  <1>4. TransitionsPersisted'
    BY Processed DEF TransitionsPersisted
  <1>5. ArrivalTimeMatchesPhase'
    <2>1. /\ known.state \in {"ARRIVED", "LEFT"} <=> live.state \in {"ARRIVED", "LEFT"}
          /\ Depart(live).state \in {"ARRIVED", "LEFT"}
               <=> live.state \in {"ARRIVED", "LEFT"}
      BY <1>1 DEF MarkLoggedIn, Depart, Waiting, Live
    <2>2. QED
      BY <1>1, <2>1, Processed DEF ArrivalTimeMatchesPhase
  <1>6. ClearCounts'
    BY Processed DEF ClearCounts
  <1>7. QED
    BY <1>3, <1>4, <1>5, <1>6 DEF IInv

(* Every step keeps the invariant.                                         *)
LEMMA StepInv == IInv /\ [Next]_vars => IInv'
  <1> SUFFICES ASSUME IInv, [Next]_vars PROVE IInv'
    OBVIOUS
  <1>1. CASE Tick
    BY <1>1, TickInv
  <1>2. CASE Login \/ ConsentDenied
    BY <1>2, ContactInv
  <1>3. CASE \E r \in Fixes : ProcessFix(r)
    BY <1>3, FixInv
  <1>4. CASE FlushDirty
    BY <1>4, FlushInv
  <1>5. CASE \E a \in Areas : Reassign(a)
    BY <1>5, ReassignInv
  <1>6. CASE Reload
    BY <1>6, ReloadInv
  <1>7. CASE UNCHANGED vars
    BY <1>7 DEF vars, IInv, TypeOK, TransitionsPersisted, ArrivalTimeMatchesPhase, ClearCounts
  <1>8. QED
    BY <1>1, <1>2, <1>3, <1>4, <1>5, <1>6, <1>7 DEF Next

-----------------------------------------------------------------------------
(***************************************************************************)
(* Theorems                                                                *)
(***************************************************************************)
(* The inductive invariant holds in every reachable state.                 *)
THEOREM Invariant == Spec => []IInv
  BY InitInv, StepInv, PTL DEF Spec

(* Every variable keeps its type, for any reports a device may send.       *)
THEOREM TypeCorrect == Spec => []TypeOK
  <1>1. IInv => TypeOK
    BY DEF IInv
  <1>2. QED
    BY <1>1, Invariant, PTL

(* The phase, the arrival time and the departure count in memory are always *)
(* those of the database, so a reload or a crash loses no transition.      *)
THEOREM NothingToLose == Spec => []TransitionsPersisted
  <1>1. IInv => TransitionsPersisted
    BY DEF IInv
  <1>2. QED
    BY <1>1, Invariant, PTL

(* arrived_at is set exactly in ARRIVED and LEFT.                          *)
THEOREM ArrivalTime == Spec => []ArrivalTimeMatchesPhase
  <1>1. IInv => ArrivalTimeMatchesPhase
    BY DEF IInv
  <1>2. QED
    BY <1>1, Invariant, PTL

(* left_count rises by one with every "left" event and never otherwise.    *)
THEOREM Departures == Spec => DeparturesCounted
  <1> DEFINE Step == /\ recorded' = "left" => live'.leftCount = live.leftCount + 1
                     /\ recorded' # "left" => live'.leftCount = live.leftCount
  <1>1. ASSUME IInv, [Next]_vars PROVE [Step]_vars
    <2>1. CASE Tick \/ FlushDirty
      BY <2>1 DEF Tick, FlushDirty
    <2>2. CASE Login \/ ConsentDenied
      <3>1. live \in Live /\ live' \in {MarkLoggedIn(live), MarkLocDenied(live)}
        BY <1>1, <2>2 DEF IInv, TypeOK, Login, ConsentDenied
      <3>2. live'.leftCount = live.leftCount
        BY <3>1, Waited
      <3>3. recorded' = "none"
        BY <2>2 DEF Login, ConsentDenied
      <3>4. QED
        BY <3>2, <3>3
    <2>3. CASE \E r \in Fixes : ProcessFix(r)
      BY <1>1, <2>3, Processed
    <2>4. CASE Reload \/ \E a \in Areas : Reassign(a)
      <3>1. /\ stored \in Row /\ live' = NewLive(stored')
            /\ stored.leftCount = live.leftCount
        BY <1>1, <2>4 DEF IInv, TypeOK, Reload, Reassign, TransitionsPersisted
      <3>2. stored' \in {stored, [stored EXCEPT !.state = "MOVING", !.arrivedAt = 0]}
        BY <2>4 DEF Reload, Reassign
      <3>3. stored'.leftCount = stored.leftCount
        BY <3>1, <3>2, ZenonT(120) DEF Row
      <3>4. recorded' = "none" /\ live'.leftCount = stored'.leftCount
        BY <2>4, <3>1 DEF Reload, Reassign, NewLive
      <3>5. QED
        BY <3>1, <3>3, <3>4
    <2>5. QED
      BY <1>1, <2>1, <2>2, <2>3, <2>4 DEF Next
  <1>2. QED
    BY <1>1, Invariant, PTL DEF Spec, DeparturesCounted

(* A suspicion stands until two plausible valid fixes in a row have come,  *)
(* and no longer, unless a reload forgets it.                              *)
THEOREM Suspicion == Spec => SuspicionStands
  <1> DEFINE Step == live.suspect =>
                       IF live'.suspect THEN calm' < 2
                       ELSE calm' = 2 \/ live' = NewLive(stored')
  <1>1. ASSUME IInv, IInv', [Next]_vars PROVE [Step]_vars
    <2>1. live'.suspect => calm' < 2
      <3>1. live' \in Live
        BY <1>1, ZenonT(120) DEF IInv, TypeOK
      <3>2. live'.suspect => live'.suspectClear = calm'
        BY <1>1, ZenonT(120) DEF IInv, ClearCounts
      <3>3. live'.suspectClear \in 0..1
        BY <3>1, ZenonT(120) DEF Live
      <3>4. QED
        BY <3>2, <3>3
    <2>2. CASE Tick \/ FlushDirty
      BY <2>1, <2>2 DEF Tick, FlushDirty
    <2>3. CASE Login \/ ConsentDenied
      <3>1. live \in Live /\ live' \in {MarkLoggedIn(live), MarkLocDenied(live)}
        BY <1>1, <2>3 DEF IInv, TypeOK, Login, ConsentDenied
      <3>2. live'.suspect = live.suspect
        BY <3>1, Waited
      <3>3. QED
        BY <2>1, <3>2
    <2>4. CASE \E r \in Fixes : ProcessFix(r)
      BY <1>1, <2>1, <2>4, Processed
    <2>5. CASE Reload \/ \E a \in Areas : Reassign(a)
      BY <2>1, <2>5 DEF Reload, Reassign
    <2>6. QED
      BY <1>1, <2>2, <2>3, <2>4, <2>5 DEF Next
  <1>2. QED
    BY <1>1, Invariant, StepInv, PTL DEF Spec, SuspicionStands

-----------------------------------------------------------------------------
(***************************************************************************)
(* The counters implement the rules of module Presence                     *)
(***************************************************************************)
Judged == [zone : {"in", "near", "out"}, ts : Int]

(* Fix i begins the trailing run of fixes in zone z.                       *)
Begins(ev, z, i) ==
  /\ i \in 1 .. Len(ev)
  /\ \A k \in i .. Len(ev) : ev[k].zone = z
  /\ i = 1 \/ ev[i - 1].zone # z

(* A counter and the evidence: zero when the last fix is not in the zone,  *)
(* else the time of the first fix of the trailing run.                     *)
Counts(ev, z, since) ==
  /\ since = 0 => ev = <<>> \/ ev[Len(ev)].zone # z
  /\ since # 0 => \E i \in 1 .. Len(ev) : Begins(ev, z, i) /\ ev[i].ts = since

(* The counter of the phase the member is in counts the evidence ...       *)
CountsOf(l, ev) ==
  /\ l.state # "ARRIVED" => Counts(ev, "in", l.arriveSince)
  /\ l.state = "ARRIVED" => Counts(ev, "out", l.leaveSince)
EvidenceCounts == CountsOf(live, evidence)
(* ... and the clock shows a multiple of its granularity.                  *)
ClockRuns == /\ now <= MaxTime
             /\ \E k \in Nat : now = StartTime + k * TimeStep /\ k <= now - StartTime

PInv == IInv /\ EvidenceCounts /\ ClockRuns

(* No counter is running where there is no evidence.                       *)
LEMMA NothingCounted == \A z : Counts(<<>>, z, 0)
  BY DEF Counts

(* A run begins in one place.                                              *)
LEMMA OneBeginning ==
  ASSUME NEW ev \in Seq(Judged), NEW z, NEW i, Begins(ev, z, i)
  PROVE  P!RunStart(ev, z) = i
  <1>1. ASSUME NEW j \in 1 .. Len(ev), NEW k \in 1 .. Len(ev), j < k,
               Begins(ev, z, j), Begins(ev, z, k)
        PROVE  FALSE
    <2>1. k - 1 \in j .. Len(ev) /\ k # 1
      BY <1>1
    <2>2. ev[k - 1].zone = z
      BY <1>1, <2>1 DEF Begins
    <2>3. QED
      BY <1>1, <2>1, <2>2 DEF Begins
  <1>2. \A j \in 1 .. Len(ev) : Begins(ev, z, j) => j = i
    <2>1. i \in 1 .. Len(ev)
      BY DEF Begins
    <2>2. QED
      BY <1>1, <2>1
  <1>3. P!RunStart(ev, z) = CHOOSE j \in 1 .. Len(ev) : Begins(ev, z, j)
    BY DEF P!RunStart, Begins
  <1>4. i \in 1 .. Len(ev)
    BY DEF Begins
  <1>5. QED
    BY <1>2, <1>3, <1>4

(* One more judged fix: a counter that is set to its time when it was zero *)
(* and the fix is in the zone, cleared when it is not, and left alone      *)
(* otherwise, still counts; and the run is settled when the counter and    *)
(* the fix are the gap apart.                                              *)
CountedAs(longer, z, since, zone, ts, gap) ==
  /\ zone # z => Counts(longer, z, 0) /\ ~P!Settled(longer, z, gap)
  /\ zone = z /\ since = 0 => Counts(longer, z, ts) /\ ~P!Settled(longer, z, gap)
  /\ zone = z /\ since # 0 => /\ Counts(longer, z, since)
                              /\ P!Settled(longer, z, gap) <=> ts - since >= gap
                              /\ longer[P!RunStart(longer, z)].ts = since
LEMMA CountedOn ==
  ASSUME NEW ev \in Seq(Judged), NEW z, NEW since \in Nat, Counts(ev, z, since),
         NEW zone \in {"in", "near", "out"}, NEW ts \in Nat \ {0}, NEW gap \in Int
  PROVE  CountedAs(Append(ev, [zone |-> zone, ts |-> ts]), z, since, zone, ts, gap)
  <1> DEFINE last   == [zone |-> zone, ts |-> ts]
             n      == Len(ev)
             longer == Append(ev, last)
  <1>1. last \in Judged
    BY DEF Judged
  <1>2. /\ longer \in Seq(Judged) /\ n \in Nat
        /\ Len(longer) = n + 1
        /\ longer[n + 1] = last
        /\ \A k \in 1 .. n : longer[k] = ev[k]
    BY <1>1
  <1>3. last.zone = zone /\ last.ts = ts
    OBVIOUS
  <1> HIDE DEF last, n, longer
  <1>4. CASE zone # z
    <2>1. longer[Len(longer)].zone # z
      BY <1>2, <1>3, <1>4
    <2>2. QED
      BY <1>4, <2>1 DEF longer, last, Counts, P!Settled, CountedAs
  <1>5. CASE zone = z /\ since = 0
    <2>1. Begins(longer, z, n + 1)
      <3>1. n + 1 = 1 \/ longer[n].zone # z
        <4>1. CASE ev = <<>>
          BY <4>1 DEF n
        <4>2. CASE ev # <<>>
          <5>1. n \in 1 .. n /\ n + 1 # 1
            BY <4>2, <1>2 DEF n
          <5>2. ev[n].zone # z
            BY <1>5, <4>2 DEF Counts, n
          <5>3. QED
            BY <1>2, <5>1, <5>2
        <4>3. QED
          BY <4>1, <4>2
      <3>2. \A k \in n + 1 .. Len(longer) : longer[k].zone = z
        BY <1>2, <1>3, <1>5
      <3>3. n + 1 \in 1 .. Len(longer)
        BY <1>2
      <3>4. (n + 1) - 1 = n
        BY <1>2
      <3>5. QED
        BY <3>1, <3>2, <3>3, <3>4 DEF Begins
    <2>2. P!RunStart(longer, z) = n + 1
      BY <1>2, <2>1, OneBeginning
    <2>3. ~P!Settled(longer, z, gap)
      BY <1>2, <2>2 DEF P!Settled
    <2>4. Counts(longer, z, ts)
      <3>1. n + 1 \in 1 .. Len(longer) /\ longer[n + 1].ts = ts
        BY <1>2, <1>3
      <3>2. QED
        BY <2>1, <3>1 DEF Counts
    <2>5. QED
      BY <1>5, <2>3, <2>4 DEF longer, last, CountedAs
  <1>6. CASE zone = z /\ since # 0
    <2>1. PICK i \in 1 .. n : Begins(ev, z, i) /\ ev[i].ts = since
      BY <1>6 DEF Counts, n
    <2>2. i \in 1 .. Len(longer) /\ i < n + 1 /\ longer[i] = ev[i]
      BY <1>2, <2>1
    <2>3. Begins(longer, z, i)
      <3>1. ASSUME NEW k \in i .. Len(longer) PROVE longer[k].zone = z
        <4>1. CASE k = n + 1
          BY <1>2, <1>3, <1>6, <4>1
        <4>2. CASE k # n + 1
          <5>1. k \in i .. n /\ k \in 1 .. n
            BY <1>2, <2>1, <3>1, <4>2
          <5>2. ev[k].zone = z
            BY <2>1, <5>1 DEF Begins, n
          <5>3. QED
            BY <1>2, <5>1, <5>2
        <4>3. QED
          BY <4>1, <4>2
      <3>2. i = 1 \/ longer[i - 1].zone # z
        <4>1. CASE i # 1
          <5>1. i - 1 \in 1 .. n
            BY <1>2, <2>1, <4>1
          <5>2. longer[i - 1] = ev[i - 1]
            BY <1>2, <5>1
          <5>3. QED
            BY <2>1, <4>1, <5>2 DEF Begins
        <4>2. QED
          BY <4>1
      <3>3. QED
        BY <2>2, <3>1, <3>2 DEF Begins
    <2>4. P!RunStart(longer, z) = i
      BY <1>2, <2>3, OneBeginning
    <2>5. P!Settled(longer, z, gap) <=> ts - since >= gap
      <3>1. longer[Len(longer)].zone = z /\ longer[Len(longer)].ts = ts /\ Len(longer) > 1
        BY <1>2, <1>3, <1>6, <2>1
      <3>2. longer[P!RunStart(longer, z)].ts = since
        BY <2>1, <2>2, <2>4
      <3>3. P!RunStart(longer, z) < Len(longer)
        BY <1>2, <2>2, <2>4
      <3>4. QED
        BY <3>1, <3>2, <3>3 DEF P!Settled
    <2>6. Counts(longer, z, since)
      BY <1>6, <2>1, <2>2, <2>3 DEF Counts
    <2>7. QED
      BY <1>6, <2>1, <2>2, <2>4, <2>5, <2>6 DEF longer, last, CountedAs
  <1>7. QED
    BY <1>4, <1>5, <1>6, ZenonT(60)

(* What JudgeState does to a record whose counter counts the evidence: the *)
(* phase changes when the run is settled, with the time of its first fix,  *)
(* and only then; the counter goes on counting.                            *)
Arrives(d, longer) == d.state # "ARRIVED" /\ P!Settled(longer, "in", ArriveGap)
Leaves(d, longer)  == d.state = "ARRIVED" /\ P!Settled(longer, "out", LeaveGap)
BySettling(d, m, longer) ==
  /\ ~Arrives(d, longer) /\ ~Leaves(d, longer) =>
       m.state = d.state /\ m.arrivedAt = d.arrivedAt /\ CountsOf(m, longer)
  /\ Arrives(d, longer) => /\ m.state = "ARRIVED" /\ CountsOf(m, <<>>)
                           /\ m.arrivedAt = longer[P!RunStart(longer, "in")].ts
  /\ Leaves(d, longer) => m.state = "LEFT" /\ m.arrivedAt = d.arrivedAt /\ CountsOf(m, <<>>)

LEMMA EnRouteSettles ==
  ASSUME NEW d \in Live, d.state # "ARRIVED", NEW f \in Fix, f.ts \in Nat \ {0},
         NEW zone \in {"in", "near", "out"}, NEW ev \in Seq(Judged), CountsOf(d, ev),
         NEW longer, longer = Append(ev, [zone |-> zone, ts |-> f.ts]),
         NEW m, m = JudgeEnRoute(d, f, zone)
  PROVE  BySettling(d, m, longer)
  <1>1. ArriveGap \in Int /\ d.arriveSince \in Nat
    BY DEF ArriveGap, Live
  <1>2. Counts(ev, "in", d.arriveSince)
    BY DEF CountsOf
  <1>3. /\ zone # "in" => Counts(longer, "in", 0) /\ ~P!Settled(longer, "in", ArriveGap)
        /\ zone = "in" /\ d.arriveSince = 0 =>
             Counts(longer, "in", f.ts) /\ ~P!Settled(longer, "in", ArriveGap)
        /\ zone = "in" /\ d.arriveSince # 0 =>
             /\ Counts(longer, "in", d.arriveSince)
             /\ P!Settled(longer, "in", ArriveGap) <=> f.ts - d.arriveSince >= ArriveGap
             /\ longer[P!RunStart(longer, "in")].ts = d.arriveSince
    <2>1. CountedAs(longer, "in", d.arriveSince, zone, f.ts, ArriveGap)
      BY <1>1, <1>2, CountedOn
    <2>2. QED
      BY <2>1, ZenonT(60) DEF CountedAs
  <1>4. ASSUME NEW c \in Nat, m = [d EXCEPT !.arriveSince = c], Counts(longer, "in", c),
               ~P!Settled(longer, "in", ArriveGap)
        PROVE  BySettling(d, m, longer)
    <2>1. m.state = d.state /\ m.arrivedAt = d.arrivedAt /\ m.arriveSince = c
      BY <1>4 DEF Live
    <2>2. CountsOf(m, longer)
      BY <1>4, <2>1 DEF CountsOf
    <2>3. QED
      BY <1>4, <2>1, <2>2 DEF BySettling, Arrives, Leaves
  <1>5. CASE zone # "in"
    <2>1. m = [d EXCEPT !.arriveSince = 0]
      BY <1>5 DEF JudgeEnRoute
    <2>2. QED
      BY <1>3, <1>4, <1>5, <2>1
  <1>6. CASE zone = "in" /\ d.arriveSince = 0
    <2>1. m = [d EXCEPT !.arriveSince = f.ts]
      BY <1>6 DEF JudgeEnRoute
    <2>2. QED
      BY <1>3, <1>4, <1>6, <2>1
  <1>7. CASE zone = "in" /\ d.arriveSince # 0 /\ f.ts - d.arriveSince >= ArriveGap
    <2>1. m = [d EXCEPT !.state = "ARRIVED", !.arrivedAt = d.arriveSince, !.arriveSince = 0,
                        !.leaveSince = 0]
      BY <1>7 DEF JudgeEnRoute
    <2>2. m.state = "ARRIVED" /\ m.arrivedAt = d.arriveSince /\ m.leaveSince = 0
      BY <2>1 DEF Live
    <2>3. CountsOf(m, <<>>)
      BY <2>2, NothingCounted DEF CountsOf
    <2>4. Arrives(d, longer) /\ ~Leaves(d, longer)
      BY <1>3, <1>7 DEF Arrives, Leaves
    <2>5. m.arrivedAt = longer[P!RunStart(longer, "in")].ts
      BY <1>3, <1>7, <2>2, ZenonT(60)
    <2>6. QED
      BY <2>2, <2>3, <2>4, <2>5 DEF BySettling
  <1>8. CASE zone = "in" /\ d.arriveSince # 0 /\ ~(f.ts - d.arriveSince >= ArriveGap)
    <2>1. m = d
      BY <1>8 DEF JudgeEnRoute
    <2>2. ~P!Settled(longer, "in", ArriveGap) /\ Counts(longer, "in", d.arriveSince)
      BY <1>3, <1>8
    <2>3. CountsOf(m, longer) /\ ~Arrives(d, longer) /\ ~Leaves(d, longer)
      <3>1. CountsOf(d, longer) /\ ~Arrives(d, longer) /\ ~Leaves(d, longer)
        BY <2>2 DEF Arrives, Leaves, CountsOf
      <3>2. QED
        BY <2>1, <3>1
    <2>4. QED
      BY <2>1, <2>3, ZenonT(60) DEF BySettling
  <1>9. QED
    BY <1>5, <1>6, <1>7, <1>8

LEMMA ArrivedSettles ==
  ASSUME NEW d \in Live, d.state = "ARRIVED", NEW f \in Fix, f.ts \in Nat \ {0},
         NEW zone \in {"in", "near", "out"}, NEW ev \in Seq(Judged), CountsOf(d, ev),
         NEW longer, longer = Append(ev, [zone |-> zone, ts |-> f.ts]),
         NEW m, m = JudgeArrived(d, f, zone)
  PROVE  BySettling(d, m, longer)
  <1>1. LeaveGap \in Int /\ d.leaveSince \in Nat
    BY DEF LeaveGap, Live
  <1>2. Counts(ev, "out", d.leaveSince)
    BY DEF CountsOf
  <1>3. /\ zone # "out" => Counts(longer, "out", 0) /\ ~P!Settled(longer, "out", LeaveGap)
        /\ zone = "out" /\ d.leaveSince = 0 =>
             Counts(longer, "out", f.ts) /\ ~P!Settled(longer, "out", LeaveGap)
        /\ zone = "out" /\ d.leaveSince # 0 =>
             /\ Counts(longer, "out", d.leaveSince)
             /\ P!Settled(longer, "out", LeaveGap) <=> f.ts - d.leaveSince >= LeaveGap
             /\ longer[P!RunStart(longer, "out")].ts = d.leaveSince
    <2>1. CountedAs(longer, "out", d.leaveSince, zone, f.ts, LeaveGap)
      BY <1>1, <1>2, CountedOn
    <2>2. QED
      BY <2>1, ZenonT(60) DEF CountedAs
  <1>4. ASSUME NEW c \in Nat, m = [d EXCEPT !.leaveSince = c], Counts(longer, "out", c),
               ~P!Settled(longer, "out", LeaveGap)
        PROVE  BySettling(d, m, longer)
    <2>1. m.state = d.state /\ m.arrivedAt = d.arrivedAt /\ m.leaveSince = c
      BY <1>4 DEF Live
    <2>2. CountsOf(m, longer)
      BY <1>4, <2>1 DEF CountsOf
    <2>3. QED
      BY <1>4, <2>1, <2>2 DEF BySettling, Arrives, Leaves
  <1>5. CASE zone # "out"
    <2>1. m = [d EXCEPT !.leaveSince = 0]
      BY <1>5 DEF JudgeArrived
    <2>2. QED
      BY <1>3, <1>4, <1>5, <2>1
  <1>6. CASE zone = "out" /\ d.leaveSince = 0
    <2>1. m = [d EXCEPT !.leaveSince = f.ts]
      BY <1>6 DEF JudgeArrived
    <2>2. QED
      BY <1>3, <1>4, <1>6, <2>1
  <1>7. CASE zone = "out" /\ d.leaveSince # 0 /\ f.ts - d.leaveSince >= LeaveGap
    <2>1. m = [d EXCEPT !.state = "LEFT", !.leftCount = @ + 1, !.leaveSince = 0,
                        !.arriveSince = 0]
      BY <1>7 DEF JudgeArrived
    <2>2. m.state = "LEFT" /\ m.arrivedAt = d.arrivedAt /\ m.arriveSince = 0
      BY <2>1 DEF Live
    <2>3. CountsOf(m, <<>>)
      BY <2>2, NothingCounted DEF CountsOf
    <2>4. Leaves(d, longer) /\ ~Arrives(d, longer)
      BY <1>3, <1>7 DEF Arrives, Leaves
    <2>5. QED
      BY <2>2, <2>3, <2>4 DEF BySettling
  <1>8. CASE zone = "out" /\ d.leaveSince # 0 /\ ~(f.ts - d.leaveSince >= LeaveGap)
    <2>1. m = d
      BY <1>8 DEF JudgeArrived
    <2>2. ~P!Settled(longer, "out", LeaveGap) /\ Counts(longer, "out", d.leaveSince)
      BY <1>3, <1>8
    <2>3. CountsOf(m, longer) /\ ~Arrives(d, longer) /\ ~Leaves(d, longer)
      <3>1. CountsOf(d, longer) /\ ~Arrives(d, longer) /\ ~Leaves(d, longer)
        BY <2>2 DEF Arrives, Leaves, CountsOf
      <3>2. QED
        BY <2>1, <3>1
    <2>4. QED
      BY <2>1, <2>3, ZenonT(60) DEF BySettling
  <1>9. QED
    BY <1>5, <1>6, <1>7, <1>8

(* The record before it is judged has departed, and nothing else.          *)
LEMMA Departed ==
  ASSUME NEW l \in Live, NEW f \in Fix
  PROVE  LET d == Depart(Unflag(Remember(l, f))) IN
         /\ d \in Live
         /\ d.state = IF l.state \in Waiting THEN "MOVING" ELSE l.state
         /\ d.arrivedAt = l.arrivedAt
         /\ d.arriveSince = l.arriveSince /\ d.leaveSince = l.leaveSince
  <1> DEFINE k == Remember(l, f)
             u == Unflag(k)
             d == Depart(u)
  <1>1. k \in Live /\ u \in Live /\ d \in Live
    BY Small
  <1>2. /\ k.state = l.state /\ k.arrivedAt = l.arrivedAt
        /\ k.arriveSince = l.arriveSince /\ k.leaveSince = l.leaveSince
    BY DEF Remember, Live
  <1>3. /\ u.state = k.state /\ u.arrivedAt = k.arrivedAt
        /\ u.arriveSince = k.arriveSince /\ u.leaveSince = k.leaveSince
    <2> HIDE DEF k
    <2>1. QED
      BY <1>1, ZenonT(120) DEF Unflag, Live
  <1>4. /\ d.state = IF u.state \in Waiting THEN "MOVING" ELSE u.state
        /\ d.arrivedAt = u.arrivedAt
        /\ d.arriveSince = u.arriveSince /\ d.leaveSince = u.leaveSince
    <2> HIDE DEF u
    <2>1. QED
      BY <1>1 DEF Depart, Live
  <1>5. QED
    BY <1>1, <1>2, <1>3, <1>4

(* Logging in touches no counter and no arrival.                           *)
LEMMA KnownCounts ==
  ASSUME NEW l \in Live, NEW k \in {MarkLoggedIn(l), MarkLocDenied(l)}
  PROVE  /\ k.arriveSince = l.arriveSince /\ k.leaveSince = l.leaveSince
         /\ k.arrivedAt = l.arrivedAt
         /\ k.state = "ARRIVED" <=> l.state = "ARRIVED"
  <1>1. CASE k = MarkLoggedIn(l)
    BY <1>1 DEF MarkLoggedIn, Live
  <1>2. CASE k = MarkLocDenied(l)
    BY <1>2 DEF MarkLocDenied, Live
  <1>3. QED
    BY <1>1, <1>2

(* A report that is not judged is a first contact or nothing.              *)
LEMMA Unjudged ==
  ASSUME IInv, EvidenceCounts, NEW r \in Fixes, ProcessFix(r),
         NEW f, f = [pos |-> r.pos, acc |-> r.acc, ts |-> now - r.age],
         NEW known, known = MarkLoggedIn(live),
         ~(IsValidFix(f) /\ ~Implausible(known, f))
  PROVE  EvidenceCounts' /\ (P!Contact \/ UNCHANGED P!presenceVars)
  <1>1. live \in Live /\ known \in Live /\ f \in Fix
    BY Waited, FixFacts DEF IInv, TypeOK
  <1>2. live' = ApplyFix(known, f) /\ evidence' = evidence
    BY DEF ProcessFix
  <1>3. live' \in {known, Flag(Remember(known, f))}
    BY <1>2 DEF ApplyFix
  <1>4. /\ live'.state = known.state /\ live'.arrivedAt = known.arrivedAt
        /\ live'.arriveSince = known.arriveSince /\ live'.leaveSince = known.leaveSince
    <2>1. CASE live' = known
      BY <2>1
    <2>2. CASE live' = Flag(Remember(known, f))
      BY <1>1, <2>2 DEF Flag, Remember, Live
    <2>3. QED
      BY <1>3, <2>1, <2>2
  <1>5. /\ known.arrivedAt = live.arrivedAt
        /\ known.arriveSince = live.arriveSince /\ known.leaveSince = live.leaveSince
        /\ known.state = "ARRIVED" <=> live.state = "ARRIVED"
    BY <1>1, KnownCounts
  <1>6. known.state = IF live.state = "NOTIFIED" THEN "LOGGED_IN" ELSE live.state
    BY <1>1 DEF MarkLoggedIn, Live
  <1>7. EvidenceCounts'
    BY <1>2, <1>4, <1>5 DEF EvidenceCounts, CountsOf
  <1>8. CASE live.state = "NOTIFIED"
    BY <1>2, <1>4, <1>5, <1>6, <1>7, <1>8 DEF P!Contact
  <1>9. CASE live.state # "NOTIFIED"
    BY <1>2, <1>4, <1>5, <1>6, <1>7, <1>9 DEF P!presenceVars
  <1>10. QED
    BY <1>8, <1>9

(* A judged report is observed with its zone and its time.                 *)
LEMMA JudgedObserved ==
  ASSUME IInv, EvidenceCounts, NEW r \in Fixes, ProcessFix(r),
         NEW f, f = [pos |-> r.pos, acc |-> r.acc, ts |-> now - r.age],
         NEW known, known = MarkLoggedIn(live),
         IsValidFix(f), ~Implausible(known, f)
  PROVE  EvidenceCounts' /\ P!Observe(Zone(f, SignedDistance(area, f.pos)), f.ts)
  <1> DEFINE d      == Depart(Unflag(Remember(known, f)))
             zone   == Zone(f, SignedDistance(area, f.pos))
             longer == Append(evidence, [zone |-> zone, ts |-> f.ts])
  <1>1. /\ live \in Live /\ known \in Live /\ f \in Fix /\ f.ts \in Nat \ {0}
        /\ evidence \in Seq(Judged)
    BY Waited, FixFacts DEF IInv, TypeOK, Judged
  <1>2. zone \in {"in", "near", "out"}
    BY DEF Zone
  <1>3. /\ d \in Live
        /\ d.state = IF known.state \in Waiting THEN "MOVING" ELSE known.state
        /\ d.arrivedAt = known.arrivedAt
        /\ d.arriveSince = known.arriveSince /\ d.leaveSince = known.leaveSince
    BY <1>1, Departed
  <1>4. /\ known.arrivedAt = live.arrivedAt
        /\ known.arriveSince = live.arriveSince /\ known.leaveSince = live.leaveSince
        /\ known.state = "ARRIVED" <=> live.state = "ARRIVED"
    BY <1>1, KnownCounts
  <1>5. known.state = IF live.state = "NOTIFIED" THEN "LOGGED_IN" ELSE live.state
    BY <1>1 DEF MarkLoggedIn, Live
  <1>6. d.state = IF live.state \in Waiting THEN "MOVING" ELSE live.state
    BY <1>3, <1>5 DEF Waiting
  <1>7. Depart(known).state = d.state
    BY <1>1, <1>3 DEF Depart, Live
  <1>8. live' = JudgeState(d, f, zone)
    BY DEF ProcessFix, ApplyFix
  <1>9. evidence' = IF live'.state # d.state THEN <<>> ELSE longer
    BY <1>7 DEF ProcessFix
  <1> HIDE DEF d, zone
  <1>10. CountsOf(d, evidence)
    BY <1>3, <1>4, <1>6 DEF EvidenceCounts, CountsOf, Waiting
  <1>11. /\ d.state \notin Waiting
         /\ d.state # "ARRIVED" => d.state \in {"MOVING", "LEFT"}
    BY <1>3, <1>6 DEF Live, States, Waiting
  <1>12. BySettling(d, live', longer)
    <2>0. longer = Append(evidence, [zone |-> zone, ts |-> f.ts])
      OBVIOUS
    <2> HIDE DEF longer
    <2>1. CASE d.state = "ARRIVED"
      <3>1. live' = JudgeArrived(d, f, zone)
        BY <1>8, <2>1 DEF JudgeState
      <3>2. QED
        BY <1>1, <1>2, <1>3, <1>10, <2>1, <2>0, <3>1, ArrivedSettles, ZenonT(60)
    <2>2. CASE d.state # "ARRIVED"
      <3>1. live' = JudgeEnRoute(d, f, zone)
        BY <1>8, <2>2 DEF JudgeState
      <3>2. QED
        BY <1>1, <1>2, <1>3, <1>10, <2>2, <2>0, <3>1, EnRouteSettles, ZenonT(60)
    <2>3. QED
      BY <2>1, <2>2
  <1>13. /\ P!Observe(zone, f.ts) <=>
              LET phase == IF live.state \in P!Waiting THEN "MOVING" ELSE live.state
              IN  \/ /\ phase \in P!EnRoute
                     /\ P!Settled(longer, "in", ArriveGap)
                     /\ live'.state = "ARRIVED"
                     /\ live'.arrivedAt = longer[P!RunStart(longer, "in")].ts
                     /\ evidence' = <<>>
                  \/ /\ phase = "ARRIVED"
                     /\ P!Settled(longer, "out", LeaveGap)
                     /\ live'.state = "LEFT"
                     /\ evidence' = <<>>
                     /\ live'.arrivedAt = live.arrivedAt
                  \/ /\ ~ (phase \in P!EnRoute /\ P!Settled(longer, "in", ArriveGap))
                     /\ ~ (phase = "ARRIVED" /\ P!Settled(longer, "out", LeaveGap))
                     /\ live'.state = phase
                     /\ evidence' = longer
                     /\ live'.arrivedAt = live.arrivedAt
         /\ d.state = IF live.state \in P!Waiting THEN "MOVING" ELSE live.state
         /\ d.state \in P!EnRoute <=> d.state # "ARRIVED"
    <2>1. d.state \in P!EnRoute <=> d.state # "ARRIVED"
      BY <1>11 DEF P!EnRoute
    <2>2. d.state = IF live.state \in P!Waiting THEN "MOVING" ELSE live.state
      BY <1>6 DEF P!Waiting, Waiting
    <2>3. QED
      BY <2>1, <2>2 DEF P!Observe
  <1> HIDE DEF longer
  <1>14. CASE Arrives(d, longer)
    <2>1. /\ live'.state = "ARRIVED" /\ CountsOf(live', <<>>)
          /\ live'.arrivedAt = longer[P!RunStart(longer, "in")].ts
      BY <1>12, <1>14, ZenonT(60) DEF BySettling
    <2>2. evidence' = <<>>
      BY <1>9, <1>14, <2>1 DEF Arrives
    <2>3. QED
      BY <1>13, <1>14, <2>1, <2>2 DEF Arrives, EvidenceCounts, zone
  <1>15. CASE Leaves(d, longer)
    <2>1. live'.state = "LEFT" /\ CountsOf(live', <<>>) /\ live'.arrivedAt = d.arrivedAt
      BY <1>12, <1>15, ZenonT(60) DEF BySettling
    <2>2. evidence' = <<>>
      BY <1>9, <1>15, <2>1 DEF Leaves
    <2>3. QED
      BY <1>3, <1>4, <1>13, <1>15, <2>1, <2>2 DEF Leaves, EvidenceCounts, zone
  <1>16. CASE ~Arrives(d, longer) /\ ~Leaves(d, longer)
    <2>1. live'.state = d.state /\ CountsOf(live', longer) /\ live'.arrivedAt = d.arrivedAt
      BY <1>12, <1>16, ZenonT(60) DEF BySettling
    <2>2. evidence' = longer
      BY <1>9, <2>1
    <2>3. QED
      BY <1>3, <1>4, <1>13, <1>16, <2>1, <2>2 DEF Arrives, Leaves, EvidenceCounts, zone
  <1>17. QED
    BY <1>14, <1>15, <1>16

(* The time of a judged report is one that Presence allows.                *)
LEMMA FixTimeKnown ==
  ASSUME TypeOK, ClockRuns, NEW r \in Fixes,
         NEW f, f = [pos |-> r.pos, acc |-> r.acc, ts |-> now - r.age], IsValidFix(f)
  PROVE  f.ts \in FixTimes
  <1>1. r.age \in Int /\ now \in Nat /\ f.ts = now - r.age
    BY JudgeAssumption DEF TypeOK
  <1>2. PICK k \in Nat : now = StartTime + k * TimeStep /\ k <= now - StartTime
    BY DEF ClockRuns
  <1>3. k \in 0 .. MaxTime - StartTime
    BY <1>1, <1>2, JudgeAssumption DEF ClockRuns
  <1>4. now \in {StartTime + j * TimeStep : j \in 0 .. MaxTime - StartTime}
    BY <1>2, <1>3
  <1>5. f.ts \in 0 .. MaxTime + MaxClockSkew
    <2>1. f.ts \in Int /\ now >= StartTime /\ now <= MaxTime
      BY <1>1 DEF TypeOK, ClockRuns
    <2>2. f.ts >= now - MaxClockPast /\ f.ts <= now + MaxClockSkew
      BY DEF IsValidFix
    <2>3. StartTime \in Nat /\ StartTime > MaxClockPast /\ MaxTime \in Nat
      BY JudgeAssumption
    <2>4. MaxClockPast = 120 /\ MaxClockSkew = 30
      BY DEF MaxClockPast, MaxClockSkew
    <2>5. QED
      BY <1>1, <2>1, <2>2, <2>3, <2>4
  <1> DEFINE T == {StartTime + j * TimeStep : j \in 0 .. MaxTime - StartTime}
  <1>6. FixTimes = {t - q.age : t \in T, q \in Fixes} \cap (0 .. MaxTime + MaxClockSkew)
    BY DEF FixTimes
  <1>7. now \in T
    BY <1>4
  <1> HIDE DEF T
  <1>8. now - r.age \in {t - q.age : t \in T, q \in Fixes}
    BY <1>7
  <1>9. f.ts \in {t - q.age : t \in T, q \in Fixes}
    BY <1>1, <1>8
  <1>10. QED
    BY <1>5, <1>6, <1>9

(* The clock goes on by its granularity.                                   *)
LEMMA ClockGoesOn == TypeOK /\ ClockRuns /\ [Next]_vars => ClockRuns'
  <1> SUFFICES ASSUME TypeOK, ClockRuns, [Next]_vars PROVE ClockRuns'
    OBVIOUS
  <1>1. CASE Tick
    <2>1. PICK k \in Nat : now = StartTime + k * TimeStep /\ k <= now - StartTime
      BY DEF ClockRuns
    <2>2. /\ now' = now + TimeStep /\ now' <= MaxTime
          /\ now \in Nat /\ StartTime \in Nat /\ TimeStep \in Nat \ {0}
      BY <1>1, JudgeAssumption DEF Tick, TypeOK
    <2>3. (k + 1) * TimeStep = k * TimeStep + TimeStep
      BY <2>2
    <2>4. k * TimeStep \in Nat
      BY <2>2
    <2>5. now' = StartTime + (k + 1) * TimeStep
      BY <2>1, <2>2, <2>3, <2>4
    <2>6. k + 1 \in Nat /\ k + 1 <= now' - StartTime
      BY <2>1, <2>2
    <2>7. QED
      BY <2>2, <2>5, <2>6 DEF ClockRuns
  <1>2. CASE now' = now
    BY <1>2 DEF ClockRuns
  <1>3. CASE \E r \in Fixes : ProcessFix(r)
    BY <1>2, <1>3, ZenonT(60) DEF ProcessFix
  <1>4. QED
    BY <1>1, <1>2, <1>3 DEF Next, Login, ConsentDenied, FlushDirty, Reassign, Reload, vars

(* A rebuilt record counts no evidence.                                    *)
LEMMA RebuiltCounts == \A row : CountsOf(NewLive(row), <<>>)
  BY NothingCounted DEF CountsOf, NewLive

(* Every step of the counters is one of the rules, or changes nothing that *)
(* they speak of.                                                          *)
LEMMA StepRefines ==
  ASSUME PInv, [Next]_vars
  PROVE  EvidenceCounts' /\ (P!Next \/ UNCHANGED P!presenceVars)
  <1>1. /\ IInv /\ EvidenceCounts /\ ClockRuns /\ TypeOK
        /\ live \in Live /\ stored \in Row
        /\ stored.state = live.state /\ stored.arrivedAt = live.arrivedAt
    BY DEF PInv, IInv, TypeOK, TransitionsPersisted
  <1>2. CASE Tick \/ FlushDirty \/ UNCHANGED vars
    <2>1. UNCHANGED <<live, evidence>>
      BY <1>2 DEF Tick, FlushDirty, vars
    <2>2. QED
      BY <1>1, <2>1 DEF EvidenceCounts, CountsOf, P!presenceVars
  <1>3. CASE Login
    <2>1. live' = MarkLoggedIn(live) /\ evidence' = evidence /\ live.state = "NOTIFIED"
      BY <1>3 DEF Login
    <2>2. /\ live'.arriveSince = live.arriveSince /\ live'.leaveSince = live.leaveSince
          /\ live'.arrivedAt = live.arrivedAt
          /\ live'.state = "ARRIVED" <=> live.state = "ARRIVED"
      BY <1>1, <2>1, KnownCounts
    <2>3. EvidenceCounts'
      BY <1>1, <2>1, <2>2 DEF EvidenceCounts, CountsOf
    <2>4. live'.state = "LOGGED_IN"
      BY <1>1, <2>1 DEF MarkLoggedIn, Live
    <2>5. P!Contact
      BY <2>1, <2>2, <2>4 DEF P!Contact
    <2>6. QED
      BY <2>3, <2>5 DEF P!Next
  <1>4. CASE ConsentDenied
    <2>1. live' = MarkLocDenied(live) /\ evidence' = evidence
      BY <1>4 DEF ConsentDenied
    <2>2. /\ live'.arriveSince = live.arriveSince /\ live'.leaveSince = live.leaveSince
          /\ live'.arrivedAt = live.arrivedAt
          /\ live'.state = "ARRIVED" <=> live.state = "ARRIVED"
      BY <1>1, <2>1, KnownCounts
    <2>3. EvidenceCounts'
      BY <1>1, <2>1, <2>2 DEF EvidenceCounts, CountsOf
    <2>4. CASE live.state \in {"NOTIFIED", "LOGGED_IN"}
      <3>1. live'.state = "LOC_DENIED"
        BY <1>1, <2>1, <2>4 DEF MarkLocDenied, Live
      <3>2. P!Refuse
        BY <2>1, <2>2, <2>4, <3>1 DEF P!Refuse
      <3>3. QED
        BY <2>3, <3>2 DEF P!Next
    <2>5. CASE live.state \notin {"NOTIFIED", "LOGGED_IN"}
      <3>1. live' = live
        BY <2>1, <2>5 DEF MarkLocDenied
      <3>2. QED
        BY <2>1, <2>3, <3>1 DEF P!presenceVars
    <2>6. QED
      BY <2>4, <2>5
  <1>5. ASSUME NEW r \in Fixes, ProcessFix(r)
        PROVE  EvidenceCounts' /\ (P!Next \/ UNCHANGED P!presenceVars)
    <2> DEFINE f     == [pos |-> r.pos, acc |-> r.acc, ts |-> now - r.age]
               known == MarkLoggedIn(live)
    <2>1. f = [pos |-> r.pos, acc |-> r.acc, ts |-> now - r.age] /\ known = MarkLoggedIn(live)
      OBVIOUS
    <2> HIDE DEF f, known
    <2>2. CASE IsValidFix(f) /\ ~Implausible(known, f)
      <3>1. EvidenceCounts' /\ P!Observe(Zone(f, SignedDistance(area, f.pos)), f.ts)
        BY <1>1, <1>5, <2>1, <2>2, JudgedObserved
      <3>2. f.ts \in FixTimes
        BY <1>1, <2>1, <2>2, FixTimeKnown
      <3>3. Zone(f, SignedDistance(area, f.pos)) \in P!Zones
        BY DEF Zone, P!Zones
      <3>4. QED
        BY <3>1, <3>2, <3>3 DEF P!Next
    <2>3. CASE ~(IsValidFix(f) /\ ~Implausible(known, f))
      <3>1. EvidenceCounts' /\ (P!Contact \/ UNCHANGED P!presenceVars)
        BY <1>1, <1>5, <2>1, <2>3, Unjudged
      <3>2. QED
        BY <3>1 DEF P!Next
    <2>4. QED
      BY <2>2, <2>3
  <1>6. ASSUME NEW a \in Areas, Reassign(a)
        PROVE  EvidenceCounts' /\ (P!Next \/ UNCHANGED P!presenceVars)
    <2>1. live' = NewLive(stored') /\ evidence' = <<>>
      BY <1>6 DEF Reassign
    <2>2. EvidenceCounts'
      BY <2>1, RebuiltCounts DEF EvidenceCounts, CountsOf
    <2>3. live'.state = stored'.state /\ live'.arrivedAt = stored'.arrivedAt
      BY <2>1 DEF NewLive
    <2>4. CASE stored.state \in {"ARRIVED", "LEFT"}
      <3>1. stored' = [stored EXCEPT !.state = "MOVING", !.arrivedAt = 0]
        BY <1>6, <2>4 DEF Reassign
      <3>2. stored'.state = "MOVING" /\ stored'.arrivedAt = 0
        BY <1>1, <3>1 DEF Row
      <3>3. P!NewArea
        BY <1>1, <2>1, <2>3, <2>4, <3>2 DEF P!NewArea
      <3>4. QED
        BY <2>2, <3>3 DEF P!Next
    <2>5. CASE stored.state \notin {"ARRIVED", "LEFT"}
      <3>1. stored' = stored
        BY <1>6, <2>5 DEF Reassign
      <3>2. P!NewArea
        BY <1>1, <2>1, <2>3, <2>5, <3>1 DEF P!NewArea
      <3>3. QED
        BY <2>2, <3>2 DEF P!Next
    <2>6. QED
      BY <2>4, <2>5
  <1>7. CASE Reload
    <2>1. live' = NewLive(stored) /\ evidence' = <<>>
      BY <1>7 DEF Reload
    <2>2. EvidenceCounts'
      BY <2>1, RebuiltCounts DEF EvidenceCounts, CountsOf
    <2>3. live'.state = live.state /\ live'.arrivedAt = live.arrivedAt
      BY <1>1, <2>1 DEF NewLive
    <2>4. P!Rebuild
      BY <2>1, <2>3 DEF P!Rebuild
    <2>5. QED
      BY <2>2, <2>4 DEF P!Next
  <1>8. QED
    BY <1>2, <1>3, <1>4, <1>5, <1>6, <1>7 DEF Next

(* The counters of judge.go implement the rules stated over the evidence:  *)
(* every run of the tracker is one that docs/SPEC.md 5.1 and 6.2 allow,    *)
(* for any areas and any reports.                                          *)
THEOREM CountersImplementRules == Spec => PresenceSpec
  <1>1. Init => PInv
    <2> SUFFICES ASSUME Init PROVE PInv
      OBVIOUS
    <2>1. EvidenceCounts
      BY RebuiltCounts DEF Init, EvidenceCounts, CountsOf
    <2>2. ClockRuns
      <3>1. 0 \in Nat /\ now = StartTime + 0 * TimeStep /\ 0 <= now - StartTime
        BY JudgeAssumption DEF Init
      <3>2. QED
        BY <3>1, JudgeAssumption DEF Init, ClockRuns
    <2>3. QED
      BY <2>1, <2>2, InitInv DEF PInv
  <1>2. PInv /\ [Next]_vars => PInv'
    BY StepInv, StepRefines, ClockGoesOn DEF PInv, IInv
  <1>3. Init => P!Init
    BY DEF Init, NewLive, NewRow, P!Init
  <1>4. PInv /\ [Next]_vars => [P!Next]_P!presenceVars
    BY StepRefines
  <1>5. QED
    BY <1>1, <1>2, <1>3, <1>4, PTL DEF Spec, PresenceSpec, P!Spec
================================================================================
