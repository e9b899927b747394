--------------------------------- MODULE Judge ---------------------------------
(***************************************************************************)
(* internal/tracker/judge.go: the in-memory record of ONE assigned member  *)
(* (type Live), its validation, suspicion and arrival/departure counters,  *)
(* driven by the sequential part of internal/tracker/tracker.go: what      *)
(* ProcessFix, MarkLoggedIn, ConsentDenied, FlushDirty and a reload do to  *)
(* it and to the member's `assignment' row when nothing runs in between.   *)
(* Module Tracker has the interleavings.                                   *)
(*                                                                         *)
(* Positions are metres along a line and an area is an interval with a     *)
(* centre and a radius, so that distances and signed distances keep their  *)
(* meaning; times are seconds.  A counter that the code only compares with *)
(* zero is merged with the timestamp it guards: arriveSince is 0 while     *)
(* arriveCount is 0 and arriveFirstTS otherwise, and leaveSince likewise.  *)
(***************************************************************************)
EXTENDS Integers, Sequences

CONSTANTS
  Areas,        \* area identifiers
  Center,       \* Center[a]: centre of area a, metres
  Radius,       \* Radius[a]: radius of area a, metres
  Korea,        \* the positions inside the national bounding box
  Fixes,        \* the reports a device may send: [pos, acc, age]
  StartTime,    \* server clock when the incident opens, seconds
  TimeStep,     \* granularity of the clock
  MaxTime,      \* bound: the clock stops here
  MaxEvidence   \* bound: judged fixes remembered between two phase changes

MaxValidAcc  == 100   \* MaxValidAccM
MaxClockPast == 120   \* MaxClockPastMs
MaxClockSkew == 30    \* MaxClockSkewMs
MaxSpeed     == 55    \* maxSpeedMS
ArriveGap    == 10
LeaveGap     == 30
LeaveMargin  == 30

ASSUME JudgeAssumption ==
  /\ Center \in [Areas -> Int]
  /\ Radius \in [Areas -> Nat]
  /\ Korea \subseteq Int
  /\ Fixes \subseteq [pos : Int, acc : Nat, age : Int]
  /\ StartTime \in Nat /\ StartTime > MaxClockPast
  /\ TimeStep \in Nat \ {0}
  /\ MaxTime \in Nat /\ MaxTime >= StartTime
  /\ MaxEvidence \in Nat

VARIABLES
  now,        \* server clock
  area,       \* the member's eff_area_id
  live,       \* the Live record
  stored,     \* the columns of the assignment row that live mirrors
  recorded,   \* history: the judgement event the latest step put in `event'
  evidence,   \* history: judged fixes since the phase last changed
  calm        \* history: plausible valid fixes in a row (2 stands for more)

vars == <<now, area, live, stored, recorded, evidence, calm>>

Waiting == {"NOTIFIED", "LOGGED_IN", "LOC_DENIED"}
States  == Waiting \cup {"MOVING", "ARRIVED", "LEFT"}
Events  == {"none", "arrived", "left", "returned", "suspect_fix"}

NoFix == [pos |-> 0, ts |-> 0]

Row  == [state : States, loggedIn : BOOLEAN, arrivedAt : Nat, leftCount : Nat,
         suspect : BOOLEAN]
Live == [state : States, loggedIn : BOOLEAN, arrivedAt : Nat, leftCount : Nat,
         suspect : BOOLEAN, suspectClear : 0 .. 1, arriveSince : Nat,
         leaveSince : Nat, lastValid : [pos : Int, ts : Int]]

Abs(x) == IF x < 0 THEN -x ELSE x
SignedDistance(a, pos) == Abs(pos - Center[a]) - Radius[a]

(* NewLive: the persisted columns, every judgement counter cleared.        *)
NewLive(row) ==
  [state |-> row.state, loggedIn |-> row.loggedIn, arrivedAt |-> row.arrivedAt,
   leftCount |-> row.leftCount, suspect |-> row.suspect, suspectClear |-> 0,
   arriveSince |-> 0, leaveSince |-> 0, lastValid |-> NoFix]

(* The columns syncFlush writes.                                           *)
RowOf_NoCount(l) ==   \* mutant: left_count is left out
  [state |-> l.state, loggedIn |-> l.loggedIn, arrivedAt |-> l.arrivedAt,
   leftCount |-> stored.leftCount, suspect |-> l.suspect]
RowOf(l) ==
  [state |-> l.state, loggedIn |-> l.loggedIn, arrivedAt |-> l.arrivedAt,
   leftCount |-> l.leftCount, suspect |-> l.suspect]

(***************************************************************************)
(* Live methods                                                            *)
(***************************************************************************)
MarkLoggedIn(l) ==
  [l EXCEPT !.state = IF @ = "NOTIFIED" THEN "LOGGED_IN" ELSE @,
            !.loggedIn = TRUE]

MarkLocDenied(l) ==
  IF l.state \in {"NOTIFIED", "LOGGED_IN"}
  THEN [l EXCEPT !.state = "LOC_DENIED"]
  ELSE l

IsValidFix(f) ==
  /\ f.acc <= MaxValidAcc
  /\ f.ts >= now - MaxClockPast
  /\ f.ts <= now + MaxClockSkew

(* Outside the country, or faster than MaxSpeed from the previous valid    *)
(* fix; fixes that are not later than the previous one are not timed.      *)
Implausible(l, f) ==
  \/ f.pos \notin Korea
  \/ /\ l.lastValid # NoFix
     /\ f.ts > l.lastValid.ts
     /\ Abs(f.pos - l.lastValid.pos) > MaxSpeed * (f.ts - l.lastValid.ts)

Flag_KeepCount(l) == [l EXCEPT !.suspect = TRUE]   \* mutant: no reset
Flag(l)   == [l EXCEPT !.suspect = TRUE, !.suspectClear = 0]
Unflag_Late(l) ==   \* mutant: three fixes clear the suspicion
  IF ~l.suspect THEN l
  ELSE IF l.suspectClear = 2
       THEN [l EXCEPT !.suspect = FALSE, !.suspectClear = 0]
       ELSE [l EXCEPT !.suspectClear = @ + 1]
Unflag(l) ==
  IF ~l.suspect THEN l
  ELSE IF l.suspectClear = 1
       THEN [l EXCEPT !.suspect = FALSE, !.suspectClear = 0]
       ELSE [l EXCEPT !.suspectClear = 1]

Depart(l) == [l EXCEPT !.state = IF @ \in Waiting THEN "MOVING" ELSE @]

Zone(f, sd) ==
  IF sd <= 0 THEN "in"
  ELSE IF sd > LeaveMargin /\ sd > f.acc THEN "out"
  ELSE "near"

(* MOVING or LEFT: two inside fixes ArriveGap apart, unbroken, arrive.     *)
JudgeEnRoute_Cleared(l, f, zone) ==   \* mutant: the counter is reset too early
  IF zone # "in" THEN [l EXCEPT !.arriveSince = 0]
  ELSE IF l.arriveSince = 0 THEN [l EXCEPT !.arriveSince = f.ts]
  ELSE IF f.ts - l.arriveSince >= ArriveGap
       THEN [l EXCEPT !.state = "ARRIVED", !.arriveSince = 0, !.arrivedAt = 0,
                      !.leaveSince = 0]
       ELSE l
JudgeEnRoute(l, f, zone) ==
  IF zone # "in" THEN [l EXCEPT !.arriveSince = 0]
  ELSE IF l.arriveSince = 0 THEN [l EXCEPT !.arriveSince = f.ts]
  ELSE IF f.ts - l.arriveSince >= ArriveGap
       THEN [l EXCEPT !.state = "ARRIVED", !.arrivedAt = l.arriveSince,
                      !.arriveSince = 0, !.leaveSince = 0]
       ELSE l

(* ARRIVED: two clearly outside fixes LeaveGap apart, unbroken, leave.     *)
JudgeArrived_Uncounted(l, f, zone) ==   \* mutant: LeftCount++ is missing
  IF zone # "out" THEN [l EXCEPT !.leaveSince = 0]
  ELSE IF l.leaveSince = 0 THEN [l EXCEPT !.leaveSince = f.ts]
  ELSE IF f.ts - l.leaveSince >= LeaveGap
       THEN [l EXCEPT !.state = "LEFT", !.leaveSince = 0, !.arriveSince = 0]
       ELSE l
JudgeArrived_Unbroken(l, f, zone) ==   \* mutant: a fix in the margin breaks no run
  IF zone = "in" THEN [l EXCEPT !.leaveSince = 0]
  ELSE IF zone = "near" THEN l
  ELSE IF l.leaveSince = 0 THEN [l EXCEPT !.leaveSince = f.ts]
  ELSE IF f.ts - l.leaveSince >= LeaveGap
       THEN [l EXCEPT !.state = "LEFT", !.leftCount = @ + 1,
                      !.leaveSince = 0, !.arriveSince = 0]
       ELSE l
JudgeArrived(l, f, zone) ==
  IF zone # "out" THEN [l EXCEPT !.leaveSince = 0]
  ELSE IF l.leaveSince = 0 THEN [l EXCEPT !.leaveSince = f.ts]
  ELSE IF f.ts - l.leaveSince >= LeaveGap
       THEN [l EXCEPT !.state = "LEFT", !.leftCount = @ + 1,
                      !.leaveSince = 0, !.arriveSince = 0]
       ELSE l

JudgeState(l, f, zone) ==
  IF l.state = "ARRIVED" THEN JudgeArrived(l, f, zone) ELSE JudgeEnRoute(l, f, zone)

Remember(l, f) == [l EXCEPT !.lastValid = [pos |-> f.pos, ts |-> f.ts]]

ApplyFix(l, f) ==
  IF ~IsValidFix(f) THEN l
  ELSE IF Implausible(l, f) THEN Flag(Remember(l, f))
  ELSE JudgeState(Depart(Unflag(Remember(l, f))), f,
                  Zone(f, SignedDistance(area, f.pos)))

(* The event ApplyFix returns for the change from l to m.                  *)
EventOf(l, m) ==
  IF m.state = "ARRIVED" /\ l.state # "ARRIVED"
  THEN IF l.state = "LEFT" THEN "returned" ELSE "arrived"
  ELSE IF m.state = "LEFT" /\ l.state # "LEFT" THEN "left"
  ELSE IF m.suspect /\ ~l.suspect THEN "suspect_fix"
  ELSE "none"

(***************************************************************************)
(* Initial state and actions                                               *)
(***************************************************************************)
NewRow == [state |-> "NOTIFIED", loggedIn |-> FALSE, arrivedAt |-> 0,
           leftCount |-> 0, suspect |-> FALSE]

Init ==
  /\ now = StartTime
  /\ area \in Areas
  /\ stored = NewRow
  /\ live = NewLive(NewRow)
  /\ recorded = "none"
  /\ evidence = <<>>
  /\ calm = 0

Tick ==
  /\ now + TimeStep <= MaxTime
  /\ now' = now + TimeStep
  /\ recorded' = "none"
  /\ UNCHANGED <<area, live, stored, evidence, calm>>

(* GET /f/me: the first authenticated request of the incident.             *)
Login ==
  /\ live.state = "NOTIFIED"
  /\ live' = MarkLoggedIn(live)
  /\ stored' = [stored EXCEPT !.state = live'.state, !.loggedIn = live'.loggedIn]
  /\ recorded' = "none"
  /\ UNCHANGED <<now, area, evidence, calm>>

(* POST /f/consent {granted:false}.                                        *)
ConsentDenied ==
  /\ live' = MarkLocDenied(live)
  /\ stored' = [stored EXCEPT !.state = live'.state]
  /\ recorded' = "none"
  /\ UNCHANGED <<now, area, evidence, calm>>

(* POST /f/fix.  Only a phase change or a first login is written at once,  *)
(* and only then are the events of ApplyFix recorded.                      *)
ProcessFix(r) ==
  LET f           == [pos |-> r.pos, acc |-> r.acc, ts |-> now - r.age]
      known       == MarkLoggedIn(live)
      judged      == IsValidFix(f) /\ ~Implausible(known, f)
      phase       == Depart(known).state
      transitioned == judged /\ live'.state # known.state
      needSync    == transitioned \/ live.state = "NOTIFIED"
      zone        == Zone(f, SignedDistance(area, f.pos))
  IN  /\ judged => Len(evidence) < MaxEvidence
      /\ live' = ApplyFix(known, f)
      /\ stored' = IF needSync THEN RowOf(live') ELSE stored
      /\ recorded' = IF needSync THEN EventOf(known, live') ELSE "none"
      /\ evidence' = IF ~judged THEN evidence
                     ELSE IF live'.state # phase THEN <<>>
                     ELSE Append(evidence, [zone |-> zone, ts |-> f.ts])
      /\ calm' = IF ~IsValidFix(f) THEN calm
                 ELSE IF ~judged THEN 0
                 ELSE IF calm = 2 THEN 2 ELSE calm + 1
      /\ UNCHANGED <<now, area>>

(* The two-second batch writer: positions and the suspect flag only.       *)
FlushDirty ==
  /\ stored.suspect # live.suspect
  /\ stored' = [stored EXCEPT !.suspect = live.suspect]
  /\ recorded' = "none"
  /\ UNCHANGED <<now, area, live, evidence, calm>>

(* An administrator gives the member another area: the store resets an     *)
(* ARRIVED or LEFT row and the tracker reloads it (LoadActive).            *)
Reassign(a) ==
  LET reset == stored.state \in {"ARRIVED", "LEFT"} IN
  /\ a # area
  /\ area' = a
  /\ stored' = IF reset THEN [stored EXCEPT !.state = "MOVING", !.arrivedAt = 0]
               ELSE stored
  /\ live' = NewLive(stored')
  /\ recorded' = "none"
  /\ evidence' = <<>>
  /\ calm' = 0
  /\ UNCHANGED now

(* A reload for another reason, or a restart of the server.                *)
Reload ==
  /\ live' = NewLive(stored)
  /\ recorded' = "none"
  /\ evidence' = <<>>
  /\ calm' = 0
  /\ UNCHANGED <<now, area, stored>>

Next ==
  \/ Tick
  \/ Login
  \/ ConsentDenied
  \/ \E r \in Fixes : ProcessFix(r)
  \/ FlushDirty
  \/ \E a \in Areas : Reassign(a)
  \/ Reload

Spec == Init /\ [][Next]_vars

(***************************************************************************)
(* Properties                                                              *)
(***************************************************************************)
(* The live record, the row and the evidence keep their types: no phase    *)
(* outside SPEC 5.1, no count of clearing reports beyond one.              *)
TypeOK ==
  /\ now \in Nat /\ now >= StartTime
  /\ area \in Areas
  /\ live \in Live
  /\ stored \in Row
  /\ recorded \in Events
  /\ calm \in 0 .. 2
  /\ evidence \in Seq([zone : {"in", "near", "out"}, ts : Int])

(* The counters may be lost at any restart because every phase they led to *)
(* is already in the database (judge.go, comment on type Live).            *)
TransitionsPersisted ==
  /\ stored.state = live.state
  /\ stored.arrivedAt = live.arrivedAt
  /\ stored.leftCount = live.leftCount

(* An arrival time exists exactly while the member has arrived in, or has  *)
(* arrived in and left, the area assigned now.                             *)
ArrivalTimeMatchesPhase ==
  (live.arrivedAt # 0) <=> (live.state \in {"ARRIVED", "LEFT"})

(* left_count is the number of departures recorded: it rises by one with   *)
(* every "left" event, never otherwise, and no reload loses it.            *)
DeparturesCounted ==
  [][/\ recorded' = "left" => live'.leftCount = live.leftCount + 1
     /\ recorded' # "left" => live'.leftCount = live.leftCount]_vars

(* A suspicion stands until two plausible valid fixes in a row have come,  *)
(* and no longer; only a reload may forget it earlier.                     *)
SuspicionStands ==
  [][live.suspect =>
       IF live'.suspect THEN calm' < 2
       ELSE calm' = 2 \/ live' = NewLive(stored')]_vars

(* The timestamps a report can carry.                                      *)
FixTimes == {t - r.age : t \in {StartTime + k * TimeStep : k \in 0 .. MaxTime - StartTime},
                         r \in Fixes} \cap (0 .. MaxTime + MaxClockSkew)

(* The counters implement the rules stated over the evidence; of SPEC 6.2  *)
(* Presence leaves out the sentence that ArrivalRecordedOnce states below. *)
P == INSTANCE Presence
       WITH state <- live.state, arrivedAt <- live.arrivedAt,
            Times <- FixTimes
PresenceSpec == P!Spec

(***************************************************************************)
(* What the documents say without exception                                *)
(***************************************************************************)
(* docs/SPEC.md 4.1 lists the event suspect_fix, and ApplyFix returns it   *)
(* to be put in the log: a report that raises the suspicion is on record.  *)
SuspicionRecorded ==
  [][~live.suspect /\ live'.suspect =>
       recorded' = "suspect_fix" \/ live' = NewLive(stored')]_vars

(* docs/SPEC.md:503: arrived_at is recorded once, at the first arrival.    *)
(* The code records a return anew (judge.go:238).                          *)
ArrivalRecordedOnce ==
  [][live.arrivedAt # 0 /\ live'.arrivedAt # 0 => live'.arrivedAt = live.arrivedAt]_vars
=============================================================================
