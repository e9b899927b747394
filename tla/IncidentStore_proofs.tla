-------------------------- MODULE IncidentStore_proofs --------------------------
(***************************************************************************)
(* Proofs about modules IncidentStore and PlanWatch, for any number of     *)
(* administrators, members, teams and incidents: the invariants of the     *)
(* rows, what a step may do to a member's version and to another team, and *)
(* that the running incident shows the saved plans.                        *)
(***************************************************************************)
EXTENDS PlanWatch, TLAPS

(* Every step that names no prover goes to the SMT solver, with time to    *)
(* spare on a slow machine.                                                *)
USE SMTT(60)

(* The record of an administrator without a request is well formed.       *)
LEMMA IdleType == Idle \in Request
  BY DEF Idle, Request, PCs, TaskPCs, Override, NoSnaps

(* What a request goes by of a task or a row is well formed.               *)
LEMMA ReadingTypes ==
  /\ \A tt \in Task : TaskAsRead(tt) \in TaskReading /\ TaskAsRead(tt) # Nil
                      /\ TaskAsRead(tt).work = tt.work /\ TaskAsRead(tt).snap = tt.snap
  /\ \A r \in Row : RowAsRead(r) \in RowReading /\ RowAsRead(r) # Nil
                    /\ RowAsRead(r).eff = r.eff /\ RowAsRead(r).ver = r.ver
                    /\ RowAsRead(r).state = r.state
  <1>1. \A tt \in Task : TaskAsRead(tt) \in TaskReading
                        /\ TaskAsRead(tt).work = tt.work /\ TaskAsRead(tt).snap = tt.snap
    BY DEF Task, TaskReading, TaskAsRead
  <1>2. \A r \in Row : RowAsRead(r) \in RowReading
                      /\ RowAsRead(r).eff = r.eff /\ RowAsRead(r).ver = r.ver
                      /\ RowAsRead(r).state = r.state
    BY DEF Row, RowReading, RowAsRead
  <1>3. QED
    BY <1>1, <1>2, StoreAssumption

(* Resolving plans for an area gives a snapshot for that area; and its     *)
(* checkpoints are for it too if both readings are of plans for one area.  *)
LEMMA ResolveType ==
  ASSUME NEW p \in Plan, NEW q \in Plan, NEW ar \in Areas
  PROVE  LET s == Resolve(p, q, ar) IN
         /\ s \in Snap /\ s # Nil /\ s.area = ar
         /\ q.area = p.area => FitsArea(s, ar)
  <1> DEFINE s == Resolve(p, q, ar)
  <1>1. NoPlan \in Plan /\ Checkpoints(q) \in Plan
    BY DEF NoPlan, Plan, Checkpoints
  <1>2. CASE p.area = ar
    <2>1. s = [area |-> ar, rally |-> p.points, checks |-> Checkpoints(q)]
      BY <1>2 DEF Resolve
    <2>2. s \in Snap
      BY <1>1, <2>1 DEF Snap, Plan
    <2>3. q.area = p.area => FitsArea(s, ar)
      BY <1>2, <2>1 DEF FitsArea, Checkpoints, NoPlan
    <2>4. QED
      BY <2>1, <2>2, <2>3, StoreAssumption
  <1>3. CASE p.area # ar
    <2>1. s = [area |-> ar, rally |-> Nil, checks |-> NoPlan]
      BY <1>3 DEF Resolve
    <2>2. s \in Snap
      BY <1>1, <2>1 DEF Snap
    <2>3. FitsArea(s, ar)
      BY <2>1 DEF FitsArea, NoPlan
    <2>4. QED
      BY <2>1, <2>2, <2>3, StoreAssumption
  <1>4. QED
    BY <1>2, <1>3

(* The first statement of a reading leaves a well-formed request.          *)
LEMMA ReadPlanType ==
  ASSUME TypeOK, NEW q \in Request, NEW t \in Teams, NEW pc \in PCs
  PROVE  LET r == ReadPlan(q, t, pc) IN
         /\ r \in Request
         /\ r.pc = pc /\ r.team = t /\ r.half = plan[t] /\ r.half # Nil
         /\ r.inc = q.inc /\ r.member = q.member /\ r.open = q.open /\ r.ask = q.ask
         /\ r.todo = q.todo /\ r.task = q.task /\ r.row = q.row
         /\ r.snaps = q.snaps /\ r.torn = q.torn
  <1> DEFINE p == plan[t]
             r == ReadPlan(q, t, pc)
  <1>1. p \in Plan /\ p # Nil
    BY StoreAssumption DEF TypeOK
  <1>2. r = [q EXCEPT !.pc = pc, !.team = t, !.half = p]
    BY DEF ReadPlan
  <1> HIDE DEF p, r
  <1>3. r \in Request
    BY <1>1, <1>2, ZenonT(120) DEF Request
  <1>4. /\ r.pc = pc /\ r.team = t /\ r.half = p
        /\ r.inc = q.inc /\ r.member = q.member /\ r.open = q.open /\ r.ask = q.ask
        /\ r.todo = q.todo /\ r.task = q.task /\ r.row = q.row
        /\ r.snaps = q.snaps /\ r.torn = q.torn
    BY <1>2 DEF Request
  <1>5. QED
    BY <1>1, <1>3, <1>4 DEF p, r

(* The second gives a snapshot for the area that was asked for.            *)
LEMMA ReadPointsSnaps ==
  ASSUME NEW q \in Request, NEW t \in Teams, NEW ar
  PROVE  LET r == ReadPoints(q, t, ar) IN
         /\ r.snaps = [q.snaps EXCEPT ![t] = Resolve(q.half, plan[t], ar)]
         /\ r.torn = IF plan[t].area = q.half.area THEN q.torn ELSE q.torn \cup {t}
  BY DEF ReadPoints, Request

LEMMA ReadPointsType ==
  ASSUME TypeOK, NEW q \in Request, NEW t \in Teams, NEW ar \in Areas, q.half # Nil,
         NEW r, r = ReadPoints(q, t, ar)
  PROVE  /\ r \in Request
         /\ Resolved(r, t, ar)
         /\ r.half = Nil
         /\ r.pc = q.pc /\ r.team = q.team
         /\ r.inc = q.inc /\ r.member = q.member /\ r.open = q.open /\ r.ask = q.ask
         /\ r.todo = q.todo /\ r.task = q.task /\ r.row = q.row
  <1> DEFINE p  == plan[t]
             s  == Resolve(q.half, p, ar)
             sn == [q.snaps EXCEPT ![t] = s]
             tn == IF p.area = q.half.area THEN q.torn ELSE q.torn \cup {t}
  <1>1. p \in Plan /\ q.half \in Plan
    BY DEF TypeOK, Request
  <1>2. /\ s \in Snap /\ s # Nil /\ s.area = ar
        /\ p.area = q.half.area => FitsArea(s, ar)
    BY <1>1, ResolveType
  <1>3. r = [q EXCEPT !.half = Nil, !.snaps = sn, !.torn = tn]
    BY DEF ReadPoints, Request
  <1>4. /\ sn \in [Teams -> Snap \cup {Nil}] /\ sn[t] = s
        /\ tn \in SUBSET Teams /\ (t \notin tn => p.area = q.half.area)
    <2> HIDE DEF s, p
    <2>1. q.snaps \in [Teams -> Snap \cup {Nil}] /\ q.torn \in SUBSET Teams
      BY DEF Request
    <2>2. QED
      BY <1>2, <2>1
  <1> HIDE DEF sn, tn, s, p
  <1>5. r \in Request
    BY <1>3, <1>4, ZenonT(120) DEF Request
  <1>6. /\ r.snaps = sn /\ r.torn = tn /\ r.half = Nil
        /\ r.pc = q.pc /\ r.team = q.team
        /\ r.inc = q.inc /\ r.member = q.member /\ r.open = q.open /\ r.ask = q.ask
        /\ r.todo = q.todo /\ r.task = q.task /\ r.row = q.row
    BY <1>3 DEF Request
  <1>7. Resolved(r, t, ar)
    BY <1>2, <1>4, <1>6 DEF Resolved
  <1>8. QED
    BY <1>5, <1>6, <1>7

(* A row just inserted is well formed and follows its override and the     *)
(* task it was given.                                                      *)
LEMMA NewRowType ==
  ASSUME NEW t \in Teams, NEW o \in Override, NEW w \in Work
  PROVE  /\ NewRow(t, o, w) \in Row
         /\ NewRow(t, o, w) # Nil
         /\ NewRow(t, o, w).team = t
         /\ NewRow(t, o, w).eff = Effective(o, w)
         /\ NewRow(t, o, w).override = o
         /\ ~NewRow(t, o, w).late
  <1>1. Effective(o, w) \in Work
    BY DEF Effective, Work, Override
  <1>2. NewRow(t, o, w) \in Row
    BY <1>1 DEF NewRow, Row, States
  <1>3. NewRow(t, o, w) # Nil
    BY <1>2, StoreAssumption, ZenonT(60)
  <1>4. QED
    BY <1>2, <1>3, ZenonT(60) DEF NewRow

(* Going on to the next team leaves a well-formed request.                 *)
LEMMA NextTeamType ==
  ASSUME NEW r \in Request, NEW t \in Teams
  PROVE  NextTeam(r, t) \in Request
  <1>1. NoSnaps \in [Teams -> Snap \cup {Nil}]
    BY DEF NoSnaps
  <1>2. r.todo \ {t} \in SUBSET Teams
    BY DEF Request
  <1>3. CASE r.todo = {t}
    BY <1>3, IdleType DEF NextTeam
  <1>4. CASE r.todo # {t}
    <2>1. NextTeam(r, t) = [r EXCEPT !.pc = "plan_task", !.team = Nil, !.task = Nil,
                                     !.half = Nil, !.snaps = NoSnaps, !.torn = {},
                                     !.todo = r.todo \ {t}]
      BY <1>4 DEF NextTeam
    <2>2. QED
      BY <2>1, <1>1, <1>2, ZenonT(120) DEF Request, PCs, TaskPCs
  <1>5. QED
    BY <1>3, <1>4

(* An idle request relies on nothing.                                      *)
LEMMA IdleOK == RequestOK(Idle)
  BY DEF Idle, RequestOK, OpenRequestOK, TaskRequestOK, AddRequestOK,
         OverrideRequestOK, CloseRequestOK, PlanRequestOK, TaskPCs

(* What a request relies on speaks of status, task and asg only.           *)
LEMMA SameOK ==
  ASSUME NEW r, RequestOK(r), UNCHANGED <<status, task, asg>>
  PROVE  RequestOK(r)'
  <1>1. OpenRequestOK(r)' /\ TaskRequestOK(r)'
    BY DEF RequestOK, OpenRequestOK, TaskRequestOK
  <1>2. AddRequestOK(r)' /\ CloseRequestOK(r)'
    BY DEF RequestOK, AddRequestOK, CloseRequestOK
  <1>3. OverrideRequestOK(r)'
    BY DEF RequestOK, OverrideRequestOK
  <1>4. PlanRequestOK(r)'
    BY DEF RequestOK, PlanRequestOK
  <1>5. QED
    BY <1>1, <1>2, <1>3, <1>4, ZenonT(60) DEF RequestOK

(* A step that only moves request a on keeps everything.                   *)
LEMMA ContinueKeeps ==
  ASSUME IInv, NEW a \in Admins, NEW r \in Request, RequestOK(r), Continue(a, r)
  PROVE  IInv'
  <1>1. UNCHANGED <<status, task, asg, plan, report, phone, staleRow, staleTask>>
    BY DEF Continue
  <1>2. req' \in [Admins -> Request] /\ req'[a] = r
        /\ \A b \in Admins \ {a} : req'[b] = req[b]
    BY DEF Continue, IInv, TypeOK
  <1>3. TypeOK'
    BY <1>1, <1>2 DEF IInv, TypeOK
  <1>4. RequestsOK'
    <2> SUFFICES ASSUME NEW b \in Admins PROVE RequestOK(req[b])'
      BY DEF RequestsOK
    <2>1. RequestOK(req'[b])
      BY <1>2 DEF IInv, RequestsOK
    <2>2. RequestOK(req[b])'
      BY <2>1, <1>1, SameOK, ZenonT(60)
    <2>3. QED
      BY <2>2
  <1>5. RowsHaveTasks' /\ OneActive' /\ PhonesBehind' /\ ReportsOK' /\ RallyFitsArea'
    BY <1>1 DEF IInv, RowsHaveTasks, OneActive, Active, PhonesBehind, ReportsOK, Clean, RallyFitsArea
  <1>6. EffFollowsTask' /\ AckedIsCurrent' /\ ArrivedWhereAssigned'
    BY <1>1 DEF IInv, EffFollowsTask, AckedIsCurrent, ArrivedWhereAssigned, Clean
  <1>7. QED
    BY <1>3, <1>4, <1>5, <1>6 DEF IInv

(* Incidents, tasks and rows once found are found again, rows in the same  *)
(* team.                                                                   *)
Persist ==
  \A i \in Incidents :
    status[i] # "none" =>
      /\ status'[i] # "none"
      /\ \A t \in Teams : task[i][t] # Nil => task'[i][t] # Nil
      /\ \A m \in Members :
           asg[i][m] # Nil => asg'[i][m] # Nil /\ asg'[i][m].team = asg[i][m].team

(* No row is cleared of having been written from an outdated reading, or   *)
(* late; what the tracker is about to write then stays in order.           *)
LateStays ==
  /\ staleRow \subseteq staleRow'
  /\ \A i \in Incidents, m \in Members :
       asg[i][m] # Nil /\ asg[i][m].late => asg'[i][m].late
LEMMA ReportsStay ==
  ASSUME TypeOK, ReportsOK, Persist, LateStays,
         \A m \in Members : report'[m] \in {report[m], Nil}
  PROVE  ReportsOK'
  <1> SUFFICES ASSUME NEW m \in Members, report[m] # Nil, report'[m] = report[m]
               PROVE  LET c == report[m] IN
                      /\ status'[c.inc] # "none"
                      /\ asg'[c.inc][m] # Nil
                      /\ c.state \in NextPhases(c.from) \cup {c.from}
                      /\ <<c.inc, m>> \notin staleRow' /\ ~asg'[c.inc][m].late =>
                           c.arrivedIn = IF c.state \in Judged THEN c.area ELSE Nil
    BY DEF ReportsOK, Clean
  <1> DEFINE c == report[m]
  <1>1. c.inc \in Incidents
    BY DEF TypeOK, Report
  <1>2. /\ status[c.inc] # "none" /\ asg[c.inc][m] # Nil
        /\ c.state \in NextPhases(c.from) \cup {c.from}
        /\ Clean(c.inc, m) /\ ~asg[c.inc][m].late =>
             c.arrivedIn = IF c.state \in Judged THEN c.area ELSE Nil
    BY ZenonT(60) DEF ReportsOK
  <1> HIDE DEF c
  <1>3. status'[c.inc] # "none" /\ asg'[c.inc][m] # Nil
    BY <1>1, <1>2, ZenonT(60) DEF Persist
  <1>4. <<c.inc, m>> \notin staleRow' /\ ~asg'[c.inc][m].late
        => Clean(c.inc, m) /\ ~asg[c.inc][m].late
    <2> SUFFICES ASSUME <<c.inc, m>> \notin staleRow', ~asg'[c.inc][m].late
                 PROVE  Clean(c.inc, m) /\ ~asg[c.inc][m].late
      OBVIOUS
    <2>1. <<c.inc, m>> \notin staleRow
      BY DEF LateStays
    <2>2. ~asg[c.inc][m].late
      BY <1>1, <1>2, ZenonT(60) DEF LateStays
    <2>3. QED
      BY <1>2, <2>1, <2>2, ZenonT(60) DEF Clean
  <1>5. QED
    BY <1>2, <1>3, <1>4, ZenonT(60) DEF c

(* The effective values of a row are those that its override and the task  *)
(* of its team make; and a step that leaves no row worse in this respect.  *)
EffRight(i, m) ==
  asg[i][m] # Nil =>
    LET r == asg[i][m] IN
    /\ task[i][r.team] # Nil
    /\ r.eff = Effective(r.override, task[i][r.team].work)
EffStep == \A i \in Incidents, m \in Members : EffRight(i, m) => EffRight(i, m)'

(* Such a step keeps the invariant on the rows that are not marked.        *)
LEMMA EffStepFollows ==
  ASSUME EffFollowsTask, EffStep, staleRow' = staleRow
  PROVE  EffFollowsTask'
  <1> SUFFICES ASSUME NEW i \in Incidents, NEW m \in Members, Clean(i, m)'
               PROVE  LET n == asg'[i][m] IN
                      /\ task'[i][n.team] # Nil
                      /\ n.eff = Effective(n.override, task'[i][n.team].work)
    BY DEF EffFollowsTask
  <1>1. EffRight(i, m)
    BY ZenonT(60) DEF EffFollowsTask, EffRight, Clean
  <1>2. EffRight(i, m)'
    BY <1>1, ZenonT(60) DEF EffStep
  <1>3. QED
    BY <1>2, ZenonT(60) DEF EffRight, Clean

(* What a request relies on survives any step of the others that persists. *)
LEMMA RequestKept ==
  ASSUME NEW b \in Admins, req'[b] \in Request, RequestOK(req'[b]), Persist
  PROVE  RequestOK(req[b])'
  <1> DEFINE r == req'[b]
  <1>1. r \in Request /\ RequestOK(r)
    OBVIOUS
  <1>2. r.inc # Nil => status'[r.inc] # "none"
    BY <1>1 DEF RequestOK, Persist, Request
  <1>3. OpenRequestOK(req[b])'
    BY <1>1 DEF RequestOK, OpenRequestOK
  <1>4. TaskRequestOK(req[b])'
    BY <1>1 DEF RequestOK, TaskRequestOK
  <1>5. CloseRequestOK(req[b])'
    BY <1>1 DEF RequestOK, CloseRequestOK
  <1>6. AddRequestOK(req[b])'
    BY <1>1 DEF RequestOK, AddRequestOK, Persist, Request
  <1>7. OverrideRequestOK(req[b])'
    BY <1>1 DEF RequestOK, OverrideRequestOK, Persist, Request
  <1>8. PlanRequestOK(req[b])'
    BY <1>1 DEF RequestOK, PlanRequestOK, Persist, Request
  <1>9. QED
    BY <1>2, <1>3, <1>4, <1>5, <1>6, <1>7, <1>8 DEF RequestOK

(* A step that leaves every request alone and only adds to the rows they   *)
(* have read keeps what is required of them.                               *)
LEMMA RequestsStay ==
  ASSUME TypeOK, RequestsOK, Persist, UNCHANGED req
  PROVE  RequestsOK'
  <1> SUFFICES ASSUME NEW b \in Admins PROVE RequestOK(req[b])'
    BY DEF RequestsOK
  <1>1. req'[b] \in Request /\ RequestOK(req'[b])
    BY DEF RequestsOK, TypeOK
  <1>2. QED
    BY <1>1, RequestKept

(* The same of all requests, when request a has moved on to r.             *)
LEMMA RequestsKept ==
  ASSUME IInv, Persist, NEW a \in Admins, NEW r \in Request, RequestOK(r),
         req' = [req EXCEPT ![a] = r]
  PROVE  RequestsOK' /\ req' \in [Admins -> Request]
  <1>1. req' \in [Admins -> Request]
    BY DEF IInv, TypeOK
  <1>2. ASSUME NEW b \in Admins PROVE RequestOK(req'[b]) /\ req'[b] \in Request
    BY <1>1 DEF IInv, RequestsOK, TypeOK
  <1>3. ASSUME NEW b \in Admins PROVE RequestOK(req[b])'
    BY <1>2, RequestKept
  <1>4. QED
    BY <1>1, <1>3 DEF RequestsOK

-----------------------------------------------------------------------------
(***************************************************************************)
(* The steps that only read                                                *)
(***************************************************************************)
(* The reads of POST /a/incidents keep the invariant.                      *)
LEMMA OpenReads ==
  ASSUME IInv, NEW a \in Admins
  PROVE  /\ \A f \in OpenForms : OpenBegin(a, f) => IInv'
         /\ \A t \in Teams : OpenResolve(a, t) => IInv'
         /\ OpenPoints(a) => IInv'
  <1>1. ASSUME NEW f \in OpenForms, OpenBegin(a, f) PROVE IInv'
    <2> DEFINE r == [Idle EXCEPT !.pc = "open_resolve", !.open = f, !.todo = Listed(f.tasks)]
    <2>1. r \in Request
      BY IdleType, ZenonT(120) DEF Request, PCs, TaskPCs, Listed
    <2>2. RequestOK(r)
      <3>1. r.pc = "open_resolve" /\ r.open = f /\ r.todo = Listed(f.tasks) /\ r.inc = Nil
        BY IdleType DEF Idle, Request
      <3>2. f # Nil
        BY StoreAssumption
      <3> HIDE DEF r
      <3>3. OpenRequestOK(r)
        BY <3>1, <3>2 DEF OpenRequestOK, Listed
      <3>4. QED
        BY <3>1, <3>3 DEF RequestOK, TaskRequestOK, AddRequestOK, OverrideRequestOK,
           CloseRequestOK, PlanRequestOK, TaskPCs
    <2>3. QED
      BY <1>1, <2>1, <2>2, ContinueKeeps DEF OpenBegin
  <1>2. ASSUME NEW t \in Teams, OpenResolve(a, t) PROVE IInv'
    <2> DEFINE q == req[a]
               r == ReadPlan(q, t, "open_points")
    <2>1. q \in Request /\ RequestOK(q) /\ q.pc = "open_resolve" /\ t \in q.todo
      BY <1>2 DEF IInv, TypeOK, RequestsOK, OpenResolve
    <2>2. /\ r \in Request
          /\ r.pc = "open_points" /\ r.team = t /\ r.half # Nil /\ r.inc = q.inc
          /\ r.open = q.open /\ r.todo = q.todo /\ r.snaps = q.snaps /\ r.torn = q.torn
      <3>1. "open_points" \in PCs /\ TypeOK
        BY DEF PCs, IInv
      <3>2. QED
        BY <2>1, <3>1, ReadPlanType
    <2> HIDE DEF q, r
    <2>3. RequestOK(r)
      BY <2>1, <2>2, StoreAssumption DEF RequestOK, OpenRequestOK, TaskRequestOK, AddRequestOK,
         OverrideRequestOK, CloseRequestOK, PlanRequestOK, TaskPCs, Resolved
    <2>4. Continue(a, r)
      BY <1>2 DEF OpenResolve, q, r
    <2>5. QED
      BY <2>2, <2>3, <2>4, ContinueKeeps
  <1>3. ASSUME OpenPoints(a) PROVE IInv'
    <2> DEFINE q == req[a]
               t == q.team
               p == ReadPoints(q, t, q.open.tasks[t].area)
               r == [p EXCEPT !.pc = "open_resolve", !.team = Nil, !.todo = @ \ {t}]
    <2>1. q \in Request /\ RequestOK(q) /\ q.pc = "open_points"
      BY <1>3 DEF IInv, TypeOK, RequestsOK, OpenPoints
    <2>2. q.open \in OpenForms /\ t \in q.todo /\ t \in Teams /\ q.half # Nil /\ q.todo \subseteq Teams
      BY <2>1, StoreAssumption DEF RequestOK, OpenRequestOK, Request
    <2>3. q.open.tasks[t] \in Work /\ q.open.tasks[t].area \in Areas
      <3>1. q.open.tasks[t] \in Work
        BY <2>1, <2>2, StoreAssumption DEF RequestOK, OpenRequestOK
      <3>2. QED
        BY <3>1 DEF Work
    <2>4. /\ p \in Request /\ Resolved(p, t, q.open.tasks[t].area)
          /\ \A u \in Teams : u # t => p.snaps[u] = q.snaps[u]
          /\ q.torn \subseteq p.torn
          /\ p.inc = q.inc /\ p.open = q.open /\ p.todo = q.todo
      <3>1. TypeOK
        BY DEF IInv
      <3>1a. /\ \A u \in Teams : u # t => p.snaps[u] = q.snaps[u]
             /\ q.torn \subseteq p.torn
        <4> DEFINE ar == q.open.tasks[t].area
                   sn == Resolve(q.half, plan[t], ar)
                   tn == plan[t].area = q.half.area
        <4>1. p = ReadPoints(q, t, ar)
          OBVIOUS
        <4> HIDE DEF p, q, t, ar
        <4>2. /\ p.snaps = [q.snaps EXCEPT ![t] = sn]
              /\ p.torn = IF tn THEN q.torn ELSE q.torn \cup {t}
          BY <2>1, <2>2, <4>1, ReadPointsSnaps
        <4> HIDE DEF sn, tn
        <4>3. QED
          BY <2>1, <4>2 DEF Request
      <3> DEFINE ar == q.open.tasks[t].area
      <3>2. ar \in Areas /\ p = ReadPoints(q, t, ar)
        BY <2>3
      <3> HIDE DEF t, q, p, ar
      <3>3. QED
        BY <2>1, <2>2, <3>1, <3>1a, <3>2, ReadPointsType DEF ar
    <2> HIDE DEF p
    <2>5. /\ r \in Request
          /\ r.pc = "open_resolve" /\ r.inc = p.inc /\ r.open = p.open /\ r.todo = p.todo \ {t}
          /\ r.snaps = p.snaps /\ r.torn = p.torn
      <3>1. p.todo \ {t} \in SUBSET Teams
        BY <2>4 DEF Request
      <3>2. r \in Request
        BY <2>4, <3>1, ZenonT(120) DEF Request, PCs, TaskPCs
      <3>3. QED
        BY <2>4, <3>2 DEF Request
    <2>6. \A u \in Teams \ r.todo : r.open.tasks[u] # Nil => Resolved(r, u, r.open.tasks[u].area)
      <3> SUFFICES ASSUME NEW u \in Teams \ r.todo, q.open.tasks[u] # Nil
                   PROVE  Resolved(r, u, q.open.tasks[u].area)
        BY <2>4, <2>5, ZenonT(60)
      <3>1. CASE u = t
        <4>1. Resolved(r, t, q.open.tasks[t].area)
          BY <2>4, <2>5, ZenonT(60) DEF Resolved
        <4> HIDE DEF r, t, q
        <4>2. QED
          BY <3>1, <4>1
      <3>2. CASE u # t
        <4>1. Resolved(q, u, q.open.tasks[u].area)
          BY <2>1, <2>4, <2>5, <3>2, ZenonT(60) DEF RequestOK, OpenRequestOK
        <4>2. r.snaps[u] = q.snaps[u]
          <5>1. q.snaps \in [Teams -> Snap \cup {Nil}]
            BY <2>1, ZenonT(60) DEF Request
          <5> HIDE DEF r, q, t
          <5>2. QED
            BY <2>4, <2>5, <3>2, <5>1
        <4>3. u \notin r.torn => u \notin q.torn
          BY <2>4, <2>5, ZenonT(60)
        <4>4. QED
          BY <4>1, <4>2, <4>3, ZenonT(60) DEF Resolved
      <3>3. QED
        BY <3>1, <3>2
    <2>7. RequestOK(r)
      <3>1. /\ q.inc # Nil => status[q.inc] # "none"
            /\ q.open # Nil /\ \A u \in q.todo : q.open.tasks[u] # Nil
        BY <2>1, ZenonT(60) DEF RequestOK, OpenRequestOK
      <3>2. OpenRequestOK(r)
        <4> HIDE DEF r, q
        <4>1. QED
          BY <2>4, <2>5, <2>6, <3>1 DEF OpenRequestOK
      <3> HIDE DEF r, q
      <3>3. QED
        BY <2>4, <2>5, <3>1, <3>2 DEF RequestOK, TaskRequestOK, AddRequestOK, OverrideRequestOK,
           CloseRequestOK, PlanRequestOK, TaskPCs
    <2>8. Continue(a, r)
      BY <1>3, ZenonT(60) DEF OpenPoints, p
    <2> HIDE DEF r
    <2>9. QED
      BY <2>5, <2>7, <2>8, ContinueKeeps
  <1>4. QED
    BY <1>1, <1>2, <1>3

(* The reads of PUT /a/incidents/current/teams/{no} keep it.               *)
LEMMA TaskReads ==
  ASSUME IInv, NEW a \in Admins
  PROVE  /\ \A t \in Teams, w \in TaskForms : TaskBegin(a, t, w) => IInv'
         /\ TaskResolve(a) => IInv'
         /\ TaskPoints(a) => IInv'
  <1>1. ASSUME NEW t \in Teams, NEW w \in TaskForms, TaskBegin(a, t, w) PROVE IInv'
    <2>1. PICK i \in Incidents :
            /\ Active(i)
            /\ Continue(a, [Idle EXCEPT !.pc = "task_resolve", !.inc = i,
                                        !.team = t, !.ask = w])
      BY <1>1, ZenonT(120) DEF TaskBegin
    <2> DEFINE r == [Idle EXCEPT !.pc = "task_resolve", !.inc = i, !.team = t, !.ask = w]
    <2>2. w \in Work /\ w \in Override
      BY StoreAssumption DEF Work, Override
    <2>3. r \in Request
      BY <2>2, IdleType, ZenonT(120) DEF Request, PCs, TaskPCs
    <2>4. RequestOK(r)
      BY <2>1, <2>2, StoreAssumption, IdleType DEF RequestOK, OpenRequestOK, TaskRequestOK,
         AddRequestOK,
         OverrideRequestOK, CloseRequestOK, PlanRequestOK, TaskPCs, Idle, Request, Active
    <2>5. QED
      BY <2>1, <2>3, <2>4, ContinueKeeps
  <1>2. ASSUME TaskResolve(a) PROVE IInv'
    <2> DEFINE q == req[a]
               t == q.team
               r == ReadPlan(q, t, "task_points")
    <2>1. q \in Request /\ RequestOK(q) /\ q.pc = "task_resolve"
      BY <1>2 DEF IInv, TypeOK, RequestsOK, TaskResolve
    <2>2. t \in Teams /\ q.ask \in Work /\ q.inc # Nil /\ t # Nil
      BY <2>1, StoreAssumption DEF RequestOK, TaskRequestOK, TaskPCs, Request
    <2>3. /\ r \in Request
          /\ r.pc = "task_points" /\ r.team = t /\ r.half # Nil /\ r.inc = q.inc /\ r.ask = q.ask
      <3>1. "task_points" \in PCs /\ TypeOK
        BY DEF PCs, TaskPCs, IInv
      <3> HIDE DEF t, q
      <3>2. QED
        BY <2>1, <2>2, <3>1, ReadPlanType
    <2>4. Continue(a, r)
      BY <1>2 DEF TaskResolve
    <2> HIDE DEF q, r, t
    <2>5. RequestOK(r)
      BY <2>1, <2>2, <2>3 DEF RequestOK, OpenRequestOK, TaskRequestOK, AddRequestOK,
         OverrideRequestOK, CloseRequestOK, PlanRequestOK, TaskPCs
    <2>6. QED
      BY <2>3, <2>4, <2>5, ContinueKeeps
  <1>3. ASSUME TaskPoints(a) PROVE IInv'
    <2> DEFINE q == req[a]
               t == q.team
               p == ReadPoints(q, t, q.ask.area)
               r == [p EXCEPT !.pc = "task_tx"]
    <2>1. q \in Request /\ RequestOK(q) /\ q.pc = "task_points"
      BY <1>3 DEF IInv, TypeOK, RequestsOK, TaskPoints
    <2>2. t \in Teams /\ q.ask \in Work /\ q.ask.area \in Areas /\ q.inc # Nil /\ t # Nil
          /\ q.half # Nil
      BY <2>1, StoreAssumption DEF RequestOK, TaskRequestOK, TaskPCs, Request, Work
    <2>3. /\ p \in Request /\ Resolved(p, t, q.ask.area)
          /\ p.inc = q.inc /\ p.ask = q.ask /\ p.team = t
      <3>1. TypeOK
        BY DEF IInv
      <3> DEFINE ar == q.ask.area
      <3>2. ar \in Areas /\ p = ReadPoints(q, t, ar) /\ t = q.team
        BY <2>2
      <3> HIDE DEF t, q, p, ar
      <3>3. QED
        BY <2>1, <2>2, <3>1, <3>2, ReadPointsType DEF ar
    <2> HIDE DEF p
    <2>4. /\ r \in Request
          /\ r.pc = "task_tx" /\ r.inc = p.inc /\ r.ask = p.ask /\ r.team = p.team
          /\ r.snaps = p.snaps /\ r.torn = p.torn
      <3>1. r \in Request
        BY <2>3, ZenonT(120) DEF Request, PCs, TaskPCs
      <3>2. QED
        BY <2>3, <3>1 DEF Request
    <2>5. Continue(a, r)
      BY <1>3 DEF TaskPoints, p
    <2> HIDE DEF q, r, t
    <2>6. Resolved(r, r.team, r.ask.area)
      BY <2>3, <2>4 DEF Resolved
    <2>7. RequestOK(r)
      BY <2>1, <2>2, <2>3, <2>4, <2>6 DEF RequestOK, OpenRequestOK, TaskRequestOK, AddRequestOK,
         OverrideRequestOK, CloseRequestOK, PlanRequestOK, TaskPCs
    <2>8. QED
      BY <2>4, <2>5, <2>7, ContinueKeeps
  <1>4. QED
    BY <1>1, <1>2, <1>3

(* The reads of POST /a/incidents/current/members keep it.                 *)
LEMMA AddReads ==
  ASSUME IInv, NEW a \in Admins
  PROVE  /\ \A m \in Members, t \in Teams, o \in OverrideForms : AddBegin(a, m, t, o) => IInv'
         /\ AddReadTask(a) => IInv'
  <1>1. ASSUME NEW m \in Members, NEW t \in Teams, NEW o \in OverrideForms,
               AddBegin(a, m, t, o)
        PROVE  IInv'
    <2>1. PICK i \in Incidents :
            /\ Active(i)
            /\ Continue(a, [Idle EXCEPT !.pc = "add_task", !.inc = i, !.member = m,
                                        !.team = t, !.ask = o])
      BY <1>1, ZenonT(120) DEF AddBegin
    <2> DEFINE r == [Idle EXCEPT !.pc = "add_task", !.inc = i, !.member = m,
                                 !.team = t, !.ask = o]
    <2>0. o \in Override
      BY StoreAssumption
    <2>2. r \in Request
      BY <2>0, IdleType, ZenonT(120) DEF Request, PCs, TaskPCs
    <2>3. RequestOK(r)
      BY <2>1, StoreAssumption, IdleType DEF RequestOK, OpenRequestOK, TaskRequestOK, AddRequestOK,
         OverrideRequestOK, CloseRequestOK, PlanRequestOK, TaskPCs, Idle, Request, Active
    <2>4. QED
      BY <2>1, <2>2, <2>3, ContinueKeeps
  <1>2. ASSUME AddReadTask(a) PROVE IInv'
    <2> DEFINE q  == req[a]
               tt == task[q.inc][q.team]
               k  == TaskAsRead(tt)
               r  == IF tt = Nil THEN Idle ELSE [q EXCEPT !.pc = "add_insert", !.task = k]
    <2>1. q \in Request /\ RequestOK(q) /\ q.pc = "add_task"
      BY <1>2 DEF IInv, TypeOK, RequestsOK, AddReadTask
    <2>2. q.inc \in Incidents /\ q.team \in Teams
      BY <2>1 DEF RequestOK, AddRequestOK, Request
    <2>3. tt \in Task \cup {Nil}
      BY <2>2 DEF IInv, TypeOK
    <2>4. r \in Request
      <3>1. CASE tt = Nil
        BY <3>1, IdleType
      <3>2. CASE tt # Nil
        <4>1. k \in TaskReading
          BY <2>3, <3>2, ReadingTypes
        <4> HIDE DEF k
        <4>2. [q EXCEPT !.pc = "add_insert", !.task = k] \in Request
          BY <4>1, <2>1, ZenonT(120) DEF Request, PCs, TaskPCs
        <4>3. QED
          BY <3>2, <4>2
      <3>3. QED
        BY <3>1, <3>2
    <2>5. RequestOK(r)
      <3>1. CASE tt = Nil
        BY <3>1, IdleOK
      <3>2. CASE tt # Nil
        <4>1. k \in TaskReading /\ k # Nil
          BY <2>3, <3>2, ReadingTypes
        <4>2. r = [q EXCEPT !.pc = "add_insert", !.task = k]
          BY <3>2
        <4> HIDE DEF k, r
        <4>3. /\ r.pc = "add_insert" /\ r.task = k /\ r.inc = q.inc /\ r.team = q.team
              /\ r.member = q.member
          BY <2>1, <4>2 DEF Request
        <4> HIDE DEF q
        <4>4. q.inc # Nil /\ q.team # Nil /\ q.member # Nil /\ status[q.inc] # "none"
          BY <2>1, ZenonT(60) DEF RequestOK, AddRequestOK
        <4>5. QED
          BY <3>2, <4>1, <4>3, <4>4 DEF RequestOK, OpenRequestOK, TaskRequestOK, AddRequestOK,
             OverrideRequestOK, CloseRequestOK, PlanRequestOK, TaskPCs
      <3>3. QED
        BY <3>1, <3>2
    <2>6. QED
      BY <1>2, <2>4, <2>5, ContinueKeeps DEF AddReadTask
  <1>3. QED
    BY <1>1, <1>2

(* The reads of PUT /a/incidents/current/members/{id} keep it.             *)
LEMMA OverrideReads ==
  ASSUME IInv, NEW a \in Admins
  PROVE  /\ \A m \in Members, o \in OverrideForms : OverrideBegin(a, m, o) => IInv'
         /\ OverrideReadTask(a) => IInv'
         /\ OverrideReadRow(a) => IInv'
  <1>1. ASSUME NEW m \in Members, NEW o \in OverrideForms, OverrideBegin(a, m, o)
        PROVE  IInv'
    <2>1. PICK i \in Incidents :
            /\ Active(i)
            /\ Continue(a, [Idle EXCEPT !.pc = "over_task", !.inc = i, !.member = m, !.ask = o])
      BY <1>1, ZenonT(120) DEF OverrideBegin
    <2> DEFINE r == [Idle EXCEPT !.pc = "over_task", !.inc = i, !.member = m, !.ask = o]
    <2>2. o \in Override
      BY StoreAssumption
    <2>3. r \in Request
      BY <2>2, IdleType, ZenonT(120) DEF Request, PCs, TaskPCs
    <2>4. RequestOK(r)
      BY <2>1, StoreAssumption, IdleType DEF RequestOK, OpenRequestOK, TaskRequestOK, AddRequestOK,
         OverrideRequestOK, CloseRequestOK, PlanRequestOK, TaskPCs, Idle, Request, Active
    <2>5. QED
      BY <2>1, <2>3, <2>4, ContinueKeeps
  <1>2. ASSUME OverrideReadTask(a) PROVE IInv'
    <2> DEFINE q  == req[a]
               w  == asg[q.inc][q.member]
               tt == task[q.inc][w.team]
               k  == TaskAsRead(tt)
               r  == [q EXCEPT !.pc = "over_row", !.team = w.team, !.task = k]
    <2>1. q \in Request /\ RequestOK(q) /\ q.pc = "over_task"
      BY <1>2, ZenonT(60) DEF IInv, TypeOK, RequestsOK, OverrideReadTask
    <2>2. q.inc \in Incidents /\ q.member \in Members
      BY <2>1 DEF RequestOK, OverrideRequestOK, Request
    <2>3. CASE w = Nil
      BY <1>2, <2>3, IdleType, IdleOK, ContinueKeeps DEF OverrideReadTask
    <2>4. CASE w # Nil
      <3>1. w.team \in Teams
        BY <2>2, <2>4 DEF IInv, TypeOK, Row
      <3>2. k \in TaskReading /\ k # Nil
        <4>1. tt \in Task
          BY <2>2, <2>4, <3>1 DEF IInv, TypeOK, RowsHaveTasks
        <4>2. QED
          BY <4>1, ReadingTypes, ZenonT(60)
      <3>3. r \in Request
        <4> HIDE DEF k
        <4>1. QED
          BY <2>1, <3>1, <3>2, ZenonT(120) DEF Request, PCs, TaskPCs
      <3>4. RequestOK(r)
        <4>1. /\ r.pc = "over_row" /\ r.inc = q.inc /\ r.member = q.member
              /\ r.team = w.team /\ r.task = k
          <5> HIDE DEF k, w
          <5>1. QED
            BY <2>1 DEF Request
        <4>2. q.inc # Nil /\ q.member # Nil /\ status[q.inc] # "none"
          BY <2>1, ZenonT(60) DEF RequestOK, OverrideRequestOK
        <4>3. w = asg[q.inc][q.member] /\ k # Nil
          BY <3>2, ZenonT(60)
        <4> HIDE DEF r, q, w, k
        <4>4. QED
          BY <2>4, <4>1, <4>2, <4>3 DEF RequestOK, OpenRequestOK, TaskRequestOK, AddRequestOK,
             OverrideRequestOK, CloseRequestOK, PlanRequestOK, TaskPCs
      <3>5. QED
        BY <1>2, <2>4, <3>3, <3>4, ContinueKeeps, ZenonT(120) DEF OverrideReadTask
    <2>5. QED
      BY <2>3, <2>4
  <1>3. ASSUME OverrideReadRow(a) PROVE IInv'
    <2> DEFINE q == req[a]
               w == asg[q.inc][q.member]
               k == RowAsRead(w)
               r == [q EXCEPT !.pc = "over_write", !.row = k]
    <2>1. q \in Request /\ RequestOK(q) /\ q.pc = "over_row"
      BY <1>3 DEF IInv, TypeOK, RequestsOK, OverrideReadRow
    <2>2. q.inc \in Incidents /\ q.member \in Members /\ w \in Row
      BY <2>1 DEF RequestOK, OverrideRequestOK, Request, IInv, TypeOK
    <2>2a. k \in RowReading /\ k # Nil
      BY <2>2, ReadingTypes
    <2>2b. Continue(a, r)
      BY <1>3 DEF OverrideReadRow
    <2> HIDE DEF k, w
    <2>3. r \in Request
      BY <2>1, <2>2a, ZenonT(120) DEF Request, PCs, TaskPCs
    <2>4. RequestOK(r)
      BY <2>1, <2>2a DEF RequestOK, OpenRequestOK, TaskRequestOK, AddRequestOK,
         OverrideRequestOK, CloseRequestOK, PlanRequestOK, TaskPCs, Request
    <2>5. QED
      BY <2>2b, <2>3, <2>4, ContinueKeeps
  <1>4. QED
    BY <1>1, <1>2, <1>3

(* The read of POST /a/incidents/current/close keeps it.                   *)
LEMMA CloseReads ==
  ASSUME IInv, NEW a \in Admins, CloseBegin(a)
  PROVE  IInv'
  <1>1. PICK i \in Incidents :
          /\ Active(i)
          /\ Continue(a, [Idle EXCEPT !.pc = "close_write", !.inc = i])
    BY ZenonT(120) DEF CloseBegin
  <1> DEFINE r == [Idle EXCEPT !.pc = "close_write", !.inc = i]
  <1>2. r \in Request
    BY IdleType, ZenonT(120) DEF Request, PCs, TaskPCs
  <1>3. RequestOK(r)
    BY <1>1, StoreAssumption, IdleType DEF RequestOK, OpenRequestOK, TaskRequestOK, AddRequestOK,
         OverrideRequestOK, CloseRequestOK, PlanRequestOK, TaskPCs, Idle, Request, Active
  <1>4. QED
    BY <1>1, <1>2, <1>3, ContinueKeeps

(* When a team of a plan request has been treated, what is left is in      *)
(* order.                                                                  *)
LEMMA NextTeamOK ==
  ASSUME NEW r \in Request, NEW t \in Teams, RequestOK(r),
         r.pc \in {"plan_task", "plan_resolve", "plan_points", "plan_tx"}
  PROVE  NextTeam(r, t) \in Request /\ RequestOK(NextTeam(r, t))
  <1>1. CASE r.todo = {t}
    BY <1>1, IdleOK, NextTeamType, ZenonT(120) DEF NextTeam
  <1>2. CASE r.todo # {t}
    <2>1. /\ NextTeam(r, t).pc = "plan_task"
          /\ NextTeam(r, t).inc = r.inc
      BY <1>2 DEF NextTeam, Request
    <2>2. QED
      BY <2>1, NextTeamType DEF RequestOK, OpenRequestOK, TaskRequestOK, AddRequestOK,
         OverrideRequestOK, CloseRequestOK, PlanRequestOK, TaskPCs
  <1>3. QED
    BY <1>1, <1>2

(* The reads of PUT /a/team-plans and a request cut short keep it.         *)
LEMMA PlanReads ==
  ASSUME IInv, NEW a \in Admins
  PROVE  /\ PlanActive(a) => IInv'
         /\ \A t \in Teams : RefreshReadTask(a, t) => IInv'
         /\ RefreshResolve(a) => IInv'
         /\ RefreshPoints(a) => IInv'
         /\ Abort(a) => IInv'
  <1> DEFINE q == req[a]
  <1>0. q \in Request /\ RequestOK(q)
    BY DEF IInv, TypeOK, RequestsOK
  <1>1. ASSUME PlanActive(a) PROVE IInv'
    <2>1. CASE \E i \in Incidents : Active(i)
      <3>1. PICK i \in Incidents :
              /\ Active(i)
              /\ Continue(a, [q EXCEPT !.pc = "plan_task", !.inc = i])
        BY <1>1, <2>1, ZenonT(120) DEF PlanActive
      <3> DEFINE r == [q EXCEPT !.pc = "plan_task", !.inc = i]
      <3>2. r \in Request
        BY <1>0, ZenonT(120) DEF Request, PCs, TaskPCs
      <3>3. RequestOK(r)
        BY <1>0, <3>1, StoreAssumption DEF RequestOK, OpenRequestOK, TaskRequestOK, AddRequestOK,
         OverrideRequestOK, CloseRequestOK, PlanRequestOK, TaskPCs, Request, Active
      <3>4. QED
        BY <3>1, <3>2, <3>3, ContinueKeeps
    <2>2. CASE ~ \E i \in Incidents : Active(i)
      BY <1>1, <2>2, IdleType, IdleOK, ContinueKeeps DEF PlanActive
    <2>3. QED
      BY <2>1, <2>2
  <1>2. ASSUME NEW t \in Teams, RefreshReadTask(a, t) PROVE IInv'
    <2> DEFINE tt == task[q.inc][t]
               k  == TaskAsRead(tt)
               r  == [q EXCEPT !.pc = "plan_resolve", !.team = t, !.task = k]
    <2>1. q.pc = "plan_task" /\ t \in q.todo
      BY <1>2 DEF RefreshReadTask
    <2>2. q.inc \in Incidents /\ tt \in Task \cup {Nil}
      BY <1>0, <2>1 DEF RequestOK, PlanRequestOK, Request, IInv, TypeOK
    <2>3. CASE tt = Nil
      BY <1>0, <1>2, <2>1, <2>3, NextTeamOK, ContinueKeeps DEF RefreshReadTask
    <2>4. CASE tt # Nil
      <3>0. k \in TaskReading /\ k # Nil
        BY <2>2, <2>4, ReadingTypes
      <3>0a. Continue(a, r)
        BY <1>2, <2>4 DEF RefreshReadTask
      <3> HIDE DEF k
      <3>1. r \in Request
        BY <1>0, <3>0, ZenonT(120) DEF Request, PCs, TaskPCs
      <3>1a. /\ r.pc = "plan_resolve" /\ r.team = t /\ r.task = k /\ r.inc = q.inc
             /\ r.todo = q.todo
        BY <1>0 DEF Request
      <3> HIDE DEF r, q
      <3>1b. q.inc # Nil /\ status[q.inc] # "none"
        BY <1>0, <2>1 DEF RequestOK, PlanRequestOK
      <3>2. RequestOK(r)
        BY <2>1, <2>4, <3>0, <3>1a, <3>1b DEF RequestOK, OpenRequestOK, TaskRequestOK,
           AddRequestOK, OverrideRequestOK, CloseRequestOK, PlanRequestOK, TaskPCs
      <3>3. QED
        BY <3>0a, <3>1, <3>2, ContinueKeeps
    <2>5. QED
      BY <2>3, <2>4
  <1>3. ASSUME RefreshResolve(a) PROVE IInv'
    <2> DEFINE t == q.team
               r == ReadPlan(q, t, "plan_points")
    <2>1. q.pc = "plan_resolve"
      BY <1>3 DEF RefreshResolve
    <2>2. t \in Teams /\ t \in q.todo /\ q.task # Nil /\ q.inc # Nil /\ task[q.inc][t] # Nil
      BY <1>0, <2>1 DEF RequestOK, PlanRequestOK, Request
    <2>3. /\ r \in Request
          /\ r.pc = "plan_points" /\ r.team = t /\ r.half # Nil /\ r.inc = q.inc
          /\ r.todo = q.todo /\ r.task = q.task
      <3>1. "plan_points" \in PCs /\ TypeOK
        BY DEF PCs, IInv
      <3> HIDE DEF t, q
      <3>2. QED
        BY <1>0, <2>2, <3>1, ReadPlanType
    <2>4. Continue(a, r)
      BY <1>3 DEF RefreshResolve
    <2> HIDE DEF q, r, t
    <2>5. RequestOK(r)
      BY <1>0, <2>2, <2>3 DEF RequestOK, OpenRequestOK, TaskRequestOK, AddRequestOK,
         OverrideRequestOK, CloseRequestOK, PlanRequestOK, TaskPCs
    <2>6. QED
      BY <2>3, <2>4, <2>5, ContinueKeeps
  <1>3a. ASSUME RefreshPoints(a) PROVE IInv'
    <2> DEFINE t == q.team
               p == ReadPoints(q, t, q.task.work.area)
               r == [p EXCEPT !.pc = "plan_tx"]
    <2>1. q.pc = "plan_points"
      BY <1>3a DEF RefreshPoints
    <2>2. /\ t \in Teams /\ t \in q.todo /\ q.task # Nil /\ q.inc # Nil /\ task[q.inc][t] # Nil
          /\ q.half # Nil
      BY <1>0, <2>1 DEF RequestOK, PlanRequestOK, Request
    <2>3. q.task.work.area \in Areas
      <3>1. q.task \in TaskReading
        BY <1>0, <2>2 DEF Request
      <3>2. QED
        BY <3>1 DEF TaskReading, Work
    <2>4. /\ p \in Request /\ Resolved(p, t, q.task.work.area)
          /\ p.inc = q.inc /\ p.task = q.task /\ p.team = t /\ p.todo = q.todo
      <3>1. TypeOK
        BY DEF IInv
      <3> DEFINE ar == q.task.work.area
      <3>2. ar \in Areas /\ p = ReadPoints(q, t, ar) /\ t = q.team
        BY <2>3
      <3> HIDE DEF t, q, p, ar
      <3>3. QED
        BY <1>0, <2>2, <3>1, <3>2, ReadPointsType DEF ar
    <2>5. CASE p.snaps[t] = q.task.snap
      <3>1. Continue(a, NextTeam(q, t))
        BY <1>3a, <2>5 DEF RefreshPoints
      <3> HIDE DEF q, t, p
      <3>2. QED
        BY <1>0, <2>1, <2>2, <3>1, NextTeamOK, ContinueKeeps
    <2>6. CASE p.snaps[t] # q.task.snap
      <3>1. Continue(a, r)
        BY <1>3a, <2>6 DEF RefreshPoints
      <3> HIDE DEF p
      <3>2. /\ r \in Request
            /\ r.pc = "plan_tx" /\ r.inc = p.inc /\ r.task = p.task /\ r.team = p.team
            /\ r.snaps = p.snaps /\ r.torn = p.torn /\ r.todo = p.todo
        <4>1. r \in Request
          BY <2>4, ZenonT(120) DEF Request, PCs, TaskPCs
        <4>2. QED
          BY <2>4, <4>1 DEF Request
      <3> HIDE DEF q, r, t
      <3>3. Resolved(r, r.team, r.task.work.area)
        BY <2>4, <3>2 DEF Resolved
      <3>4. RequestOK(r)
        BY <1>0, <2>2, <2>4, <3>2, <3>3 DEF RequestOK, OpenRequestOK, TaskRequestOK, AddRequestOK,
           OverrideRequestOK, CloseRequestOK, PlanRequestOK, TaskPCs
      <3>5. QED
        BY <3>1, <3>2, <3>4, ContinueKeeps
    <2>7. QED
      BY <2>5, <2>6
  <1>4. ASSUME Abort(a) PROVE IInv'
    BY <1>4, IdleType, IdleOK, ContinueKeeps DEF Abort
  <1>5. QED
    BY <1>1, <1>2, <1>3, <1>3a, <1>4

-----------------------------------------------------------------------------
(***************************************************************************)
(* The steps that write                                                    *)
(***************************************************************************)
(* The transaction of Open keeps the invariant, refused or not.            *)
LEMMA OpenWrites ==
  ASSUME IInv, NEW a \in Admins, OpenCommit(a)
  PROVE  IInv' /\ EffStep
  <1> DEFINE f == req[a].open
  <1>1. req[a] \in Request /\ RequestOK(req[a]) /\ req[a].pc = "open_resolve" /\ req[a].todo = {}
    BY DEF IInv, TypeOK, RequestsOK, OpenCommit
  <1>2. CASE IndexRefuses
    <2>1. Continue(a, Idle)
      BY <1>2 DEF OpenCommit, Finish, Continue
    <2>2. EffStep
      BY <2>1, ZenonT(60) DEF Continue, EffStep, EffRight
    <2>3. QED
      BY <2>1, <2>2, IdleType, IdleOK, ContinueKeeps
  <1>3. CASE ~IndexRefuses
    <2>1. PICK i \in Incidents :
            /\ status[i] = "none"
            /\ status' = [status EXCEPT ![i] = "active"]
            /\ task' = [task EXCEPT ![i] = [t \in Teams |->
                 IF f.tasks[t] = Nil THEN Nil
                 ELSE [work |-> f.tasks[t], snap |-> req[a].snaps[t], version |-> 1]]]
            /\ asg' = [asg EXCEPT ![i] = [m \in Members |->
                 IF Roster[m] = Nil THEN Nil
                 ELSE IF f.tasks[Roster[m]] = Nil THEN Nil
                 ELSE NewRow(Roster[m], f.overrides[m], f.tasks[Roster[m]])]]
            /\ staleTask' = staleTask \cup ({i} \X req[a].torn)
      BY <1>3 DEF OpenCommit
    <2>2. /\ f \in OpenForms
          /\ f.tasks \in [Teams -> Work \cup {Nil}]
          /\ f.overrides \in [Members -> Override]
      BY <1>1, StoreAssumption DEF RequestOK, OpenRequestOK, Request
    <2>3. \A t \in Teams : f.tasks[t] # Nil =>
            /\ f.tasks[t] \in Work
            /\ req[a].snaps[t] \in Snap
            /\ t \notin req[a].torn => FitsArea(req[a].snaps[t], f.tasks[t].area)
      <3> SUFFICES ASSUME NEW t \in Teams, f.tasks[t] # Nil
                   PROVE  /\ f.tasks[t] \in Work
                          /\ req[a].snaps[t] \in Snap
                          /\ t \notin req[a].torn => FitsArea(req[a].snaps[t], f.tasks[t].area)
        OBVIOUS
      <3>1. Resolved(req[a], t, f.tasks[t].area)
        BY <1>1, ZenonT(60) DEF RequestOK, OpenRequestOK
      <3>2. req[a].snaps[t] \in Snap \cup {Nil}
        BY <1>1 DEF Request
      <3>3. f.tasks[t] \in Work
        BY <2>2
      <3>4. QED
        BY <3>1, <3>2, <3>3, ZenonT(60) DEF Resolved
    <2>4. ASSUME NEW t \in Teams
          PROVE  /\ task'[i][t] \in Task \cup {Nil}
                 /\ task'[i][t] = Nil <=> f.tasks[t] = Nil
                 /\ task'[i][t] # Nil =>
                      /\ task'[i][t].work = f.tasks[t]
                      /\ t \notin req[a].torn =>
                           FitsArea(task'[i][t].snap, task'[i][t].work.area)
      <3>1. CASE f.tasks[t] = Nil
        BY <2>1, <3>1 DEF IInv, TypeOK
      <3>2. CASE f.tasks[t] # Nil
        <4> DEFINE new == [work |-> f.tasks[t], snap |-> req[a].snaps[t], version |-> 1]
        <4>1. task'[i][t] = new
          BY <2>1, <3>2 DEF IInv, TypeOK
        <4>2. new \in Task
          BY <2>3, <3>2 DEF Task
        <4>3. QED
          BY <4>1, <4>2, <2>3, <3>2, StoreAssumption
      <3>3. QED
        BY <3>1, <3>2
    <2>5. ASSUME NEW m \in Members
          PROVE  /\ asg'[i][m] \in Row \cup {Nil}
                 /\ asg'[i][m] # Nil =>
                      LET r == asg'[i][m] IN
                      /\ task'[i][r.team] # Nil
                      /\ r.eff = Effective(r.override, task'[i][r.team].work)
                      /\ r.ack = r.ver
                      /\ r.seen = r.eff
                      /\ r.state \notin Judged
                      /\ r.arrivedIn = Nil
                      /\ ~r.late
      <3>1. asg'[i][m] = IF Roster[m] = Nil THEN Nil
                 ELSE IF f.tasks[Roster[m]] = Nil THEN Nil
                 ELSE NewRow(Roster[m], f.overrides[m], f.tasks[Roster[m]])
        BY <2>1 DEF IInv, TypeOK
      <3>2. CASE Roster[m] # Nil /\ f.tasks[Roster[m]] # Nil
        <4>1. Roster[m] \in Teams
          BY <3>2, StoreAssumption
        <4>2. f.tasks[Roster[m]] \in Work /\ f.overrides[m] \in Override
          BY <4>1, <3>2, <2>2
        <4>3. asg'[i][m] = NewRow(Roster[m], f.overrides[m], f.tasks[Roster[m]])
          BY <3>1, <3>2
        <4>4. task'[i][Roster[m]] # Nil /\ task'[i][Roster[m]].work = f.tasks[Roster[m]]
          BY <4>1, <3>2, <2>4
        <4> DEFINE r == NewRow(Roster[m], f.overrides[m], f.tasks[Roster[m]])
        <4>5. /\ r \in Row /\ r.team = Roster[m] /\ r.override = f.overrides[m]
              /\ r.eff = Effective(f.overrides[m], f.tasks[Roster[m]])
          <5> HIDE DEF f
          <5>1. QED
            BY <4>1, <4>2, NewRowType
        <4>6. r.ack = r.ver /\ r.seen = r.eff /\ r.state \notin Judged /\ r.arrivedIn = Nil
              /\ ~r.late
          BY ZenonT(120) DEF NewRow, Judged
        <4> HIDE DEF r
        <4>7. QED
          BY <4>3, <4>4, <4>5, <4>6, ZenonT(120) DEF r
      <3>3. CASE ~ (Roster[m] # Nil /\ f.tasks[Roster[m]] # Nil)
        <4>1. asg'[i][m] = Nil
          BY <3>1, <3>3
        <4>2. QED
          BY <4>1
      <3>4. QED
        BY <3>2, <3>3
    <2>6. \A j \in Incidents \ {i} : status'[j] = status[j] /\ task'[j] = task[j] /\ asg'[j] = asg[j]
      BY <2>1 DEF IInv, TypeOK
    <2>7. /\ UNCHANGED <<plan, report, phone, staleRow>> /\ req' = [req EXCEPT ![a] = Idle]
          /\ staleTask' = staleTask \cup ({i} \X req[a].torn)
      BY <2>1 DEF OpenCommit, Finish
    <2>7a. staleTask' \subseteq Incidents \X Teams /\ staleTask \subseteq staleTask'
      <3>1. req[a].torn \in SUBSET Teams
        BY <1>1 DEF Request
      <3>2. QED
        BY <2>7, <3>1 DEF IInv, TypeOK
    <2>8. Persist
      BY <2>1, <2>6 DEF Persist
    <2>8a. ReportsOK'
      <3>1. ASSUME NEW m \in Members, report[m] # Nil, NEW j, j = report[m].inc
            PROVE  status'[j] = status[j] /\ asg'[j] = asg[j]
        <4>1. j \in Incidents /\ status[j] # "none"
          BY <3>1 DEF IInv, TypeOK, ReportsOK, Report
        <4>2. QED
          BY <2>1, <2>6, <4>1
      <3>2. report' = report /\ staleRow' = staleRow
        BY <2>7
      <3>3. QED
        BY <3>1, <3>2, ZenonT(60) DEF ReportsOK, Clean, IInv
    <2>9. RequestsOK' /\ req' \in [Admins -> Request]
      BY <2>7, <2>8, IdleType, IdleOK, RequestsKept, ZenonT(120)
    <2>10. TypeOK'
      <3>1. task' \in [Incidents -> [Teams -> Task \cup {Nil}]]
        <4>1. task'[i] \in [Teams -> Task \cup {Nil}]
          BY <2>1, <2>4 DEF IInv, TypeOK
        <4>2. QED
          BY <2>1, <4>1 DEF IInv, TypeOK
      <3>2. asg' \in [Incidents -> [Members -> Row \cup {Nil}]]
        <4>1. asg'[i] \in [Members -> Row \cup {Nil}]
          BY <2>1, <2>5, ZenonT(120) DEF IInv, TypeOK
        <4>2. QED
          BY <2>1, <4>1 DEF IInv, TypeOK
      <3>3. QED
        BY <2>1, <2>7, <2>7a, <2>9, <3>1, <3>2 DEF IInv, TypeOK
    <2>11. RowsHaveTasks'
      BY <2>5, <2>6 DEF IInv, RowsHaveTasks
    <2>12. OneActive'
      BY <1>3, <2>1, <2>6 DEF IInv, TypeOK, OneActive, IndexRefuses, Active
    <2>13. PhonesBehind'
      <3> DEFINE Level(j, n, r) == /\ phone[n].ver <= r.ver
                                   /\ phone[n].ver = r.ver => phone[n].eff = r.eff
      <3>1. ASSUME NEW n \in Members, phone[n] # Nil, NEW j, j = phone[n].inc
            PROVE  /\ status'[j] # "none" /\ asg'[j][n] # Nil
                   /\ <<j, n>> \notin staleRow' => Level(j, n, asg'[j][n])
        <4>1. j \in Incidents
          BY <3>1 DEF IInv, TypeOK, PhoneCopy
        <4>2. /\ status[j] # "none" /\ asg[j][n] # Nil
              /\ <<j, n>> \notin staleRow => Level(j, n, asg[j][n])
          BY <3>1 DEF IInv, PhonesBehind, Clean
        <4>3. j # i
          BY <2>1, <4>2
        <4>4. status'[j] = status[j] /\ asg'[j] = asg[j] /\ staleRow' = staleRow
          BY <2>6, <2>7, <4>1, <4>3
        <4> HIDE DEF Level
        <4>5. QED
          BY <4>2, <4>4
      <3>2. phone' = phone
        BY <2>7
      <3>3. QED
        BY <3>1, <3>2 DEF PhonesBehind, Clean
    <2>13a. EffStep
      <3> SUFFICES ASSUME NEW j \in Incidents, NEW m \in Members, EffRight(j, m)
                   PROVE  EffRight(j, m)'
        BY DEF EffStep
      <3>1. CASE j = i
        BY <2>5, <3>1, ZenonT(60) DEF EffRight
      <3>2. CASE j # i
        <4>1. task'[j] = task[j] /\ asg'[j] = asg[j]
          BY <2>6, <3>2
        <4>2. QED
          BY <4>1, ZenonT(60) DEF EffRight
      <3>3. QED
        BY <3>1, <3>2
    <2>14. EffFollowsTask'
      BY <2>7, <2>13a, EffStepFollows DEF IInv
    <2>15. AckedIsCurrent'
      <3>1. \A m \in Members : asg'[i][m] # Nil => asg'[i][m].ver \in Nat
        BY <2>5 DEF Row
      <3>2. QED
        BY <2>5, <2>6, <2>7, <3>1 DEF IInv, AckedIsCurrent, Clean
    <2>16. ArrivedWhereAssigned'
      <3> SUFFICES ASSUME NEW j \in Incidents, NEW m \in Members, Clean(j, m)', ~asg'[j][m].late
                   PROVE  ArrivalHeld(asg'[j][m])
        BY DEF ArrivedWhereAssigned, ArrivalHeld
      <3>1. CASE j = i
        BY <2>5, <3>1 DEF Clean, ArrivalHeld
      <3>2. CASE j # i
        <4>1. asg'[j] = asg[j] /\ staleRow' = staleRow
          BY <2>6, <2>7, <3>2
        <4>2. QED
          BY <4>1, ZenonT(60) DEF IInv, ArrivedWhereAssigned, Clean
      <3>3. QED
        BY <3>1, <3>2
    <2>17. RallyFitsArea'
      <3> SUFFICES ASSUME NEW j \in Incidents, NEW t \in Teams,
                          task'[j][t] # Nil, <<j, t>> \notin staleTask'
                   PROVE  FitsArea(task'[j][t].snap, task'[j][t].work.area)
        BY DEF RallyFitsArea, FitsArea
      <3>1. CASE j = i
        <4>1. t \notin req[a].torn
          BY <2>7, <3>1
        <4>2. QED
          BY <2>4, <3>1, <4>1
      <3>2. CASE j # i
        <4>1. task'[j] = task[j] /\ <<j, t>> \notin staleTask
          BY <2>6, <2>7a, <3>2
        <4>2. QED
          BY <4>1, ZenonT(60) DEF IInv, RallyFitsArea
      <3>3. QED
        BY <3>1, <3>2
    <2>18. QED
      BY <2>8a, <2>9, <2>10, <2>11, <2>12, <2>13, <2>13a, <2>14, <2>15, <2>16, <2>17 DEF IInv
  <1>4. QED
    BY <1>2, <1>3

(* The UPDATE of Close keeps it.                                           *)
LEMMA CloseWrites ==
  ASSUME IInv, NEW a \in Admins, CloseWrite(a)
  PROVE  IInv'
  <1> DEFINE i == req[a].inc
  <1>1. i \in Incidents
    BY DEF IInv, TypeOK, RequestsOK, RequestOK, CloseRequestOK, CloseWrite, Request
  <1>2. /\ status' = [status EXCEPT ![i] = "closed"]
        /\ req' = [req EXCEPT ![a] = Idle]
        /\ UNCHANGED <<task, asg, plan, report, phone, staleRow, staleTask>>
    BY DEF CloseWrite, Finish
  <1>3. \A j \in Incidents : status'[j] = IF j = i THEN "closed" ELSE status[j]
    BY <1>2 DEF IInv, TypeOK
  <1>4. Persist
    BY <1>2, <1>3 DEF Persist
  <1>5. RequestsOK' /\ req' \in [Admins -> Request]
    BY <1>2, <1>4, IdleType, IdleOK, RequestsKept, ZenonT(120)
  <1>6. TypeOK'
    BY <1>2, <1>5, ZenonT(120) DEF IInv, TypeOK
  <1>7. RowsHaveTasks' /\ OneActive' /\ RallyFitsArea'
    BY <1>2, <1>3 DEF IInv, RowsHaveTasks, OneActive, Active, RallyFitsArea
  <1>8. PhonesBehind'
    BY <1>2, <1>3 DEF IInv, TypeOK, PhonesBehind, Clean, PhoneCopy
  <1>9. EffFollowsTask' /\ AckedIsCurrent' /\ ArrivedWhereAssigned'
    BY <1>2 DEF IInv, EffFollowsTask, AckedIsCurrent, ArrivedWhereAssigned, Clean
  <1>10. ReportsOK'
    <2>1. LateStays /\ TypeOK /\ ReportsOK
      BY <1>2 DEF LateStays, IInv
    <2>2. QED
      BY <1>2, <1>4, <2>1, ReportsStay
  <1>11. QED
    BY <1>5, <1>6, <1>7, <1>8, <1>9, <1>10 DEF IInv

(* Saving the plans keeps it.                                              *)
LEMMA PlanWrites ==
  ASSUME IInv, NEW a \in Admins, NEW f \in PlanForms, PlanSave(a, f)
  PROVE  IInv'
  <1> DEFINE r == [Idle EXCEPT !.pc = "plan_active", !.todo = Listed(f)]
  <1>1. r \in Request
    BY IdleType, ZenonT(120) DEF Request, PCs, TaskPCs, Listed
  <1>2. RequestOK(r)
    BY IdleType DEF RequestOK, OpenRequestOK, TaskRequestOK, AddRequestOK,
         OverrideRequestOK, CloseRequestOK, PlanRequestOK, TaskPCs, Idle, Request
  <1>3. /\ req' = [req EXCEPT ![a] = r]
        /\ UNCHANGED <<status, task, asg, report, phone, staleRow, staleTask>>
    BY DEF PlanSave
  <1>4. plan' \in [Teams -> Plan]
    <2>1. f \in [Teams -> Plan \cup {Nil}]
      BY StoreAssumption
    <2>2. QED
      BY <2>1 DEF PlanSave, IInv, TypeOK
  <1>5. Persist
    BY <1>3 DEF Persist
  <1>6. RequestsOK' /\ req' \in [Admins -> Request]
    BY <1>1, <1>2, <1>3, <1>5, RequestsKept, ZenonT(120)
  <1>7. TypeOK'
    BY <1>3, <1>4, <1>6 DEF IInv, TypeOK
  <1>8. RowsHaveTasks' /\ OneActive' /\ RallyFitsArea' /\ PhonesBehind' /\ ReportsOK'
    BY <1>3 DEF IInv, RowsHaveTasks, OneActive, Active, RallyFitsArea, PhonesBehind, ReportsOK, Clean
  <1>9. EffFollowsTask' /\ AckedIsCurrent' /\ ArrivedWhereAssigned'
    BY <1>3 DEF IInv, EffFollowsTask, AckedIsCurrent, ArrivedWhereAssigned, Clean
  <1>10. QED
    BY <1>6, <1>7, <1>8, <1>9 DEF IInv

(* Retask recomputes the effective values, and counts and voids only when  *)
(* they change.                                                            *)
LEMMA RetaskRow ==
  ASSUME NEW r \in Row, NEW w \in Work
  PROVE  LET n == Retask(r, w) IN
         /\ n \in Row
         /\ n.team = r.team
         /\ n.override = r.override
         /\ n.ack = r.ack
         /\ n.seen = r.seen
         /\ n.late = r.late
         /\ n.eff.mission = IF r.override.mission = Nil THEN w.mission ELSE r.eff.mission
         /\ n.eff.area = IF r.override.area = Nil THEN w.area ELSE r.eff.area
         /\ n.ver = IF n.eff = r.eff THEN r.ver ELSE r.ver + 1
         /\ IF n.eff.area # r.eff.area /\ r.state \in Judged
            THEN n.state = "MOVING" /\ n.arrivedIn = Nil
            ELSE n.state = r.state /\ n.arrivedIn = r.arrivedIn
  <1> DEFINE new   == [mission |-> IF r.override.mission = Nil THEN w.mission ELSE r.eff.mission,
                       area    |-> IF r.override.area = Nil THEN w.area ELSE r.eff.area]
             moved == IF new.area # r.eff.area THEN VoidArrival(r) ELSE r
             n     == Retask(r, w)
  <1>1. new \in Work
    BY DEF Row, Work, Override
  <1>2. /\ moved \in Row
        /\ moved.team = r.team /\ moved.override = r.override
        /\ moved.ack = r.ack /\ moved.seen = r.seen /\ moved.late = r.late
        /\ IF new.area # r.eff.area /\ r.state \in Judged
           THEN moved.state = "MOVING" /\ moved.arrivedIn = Nil
           ELSE moved.state = r.state /\ moved.arrivedIn = r.arrivedIn
    BY ZenonT(120) DEF Row, VoidArrival, States
  <1>3. CASE new = r.eff
    BY <1>1, <1>3 DEF Retask
  <1>4. CASE new # r.eff
    <2>1. n = [moved EXCEPT !.eff = new, !.ver = r.ver + 1]
      BY <1>4 DEF Retask
    <2>2. r.ver + 1 \in Nat
      BY DEF Row
    <2>3. n \in Row /\ n.eff = new /\ n.ver = r.ver + 1
      BY <1>1, <1>2, <2>1, <2>2, ZenonT(120) DEF Row
    <2>4. n.team = moved.team /\ n.override = moved.override /\ n.ack = moved.ack
          /\ n.seen = moved.seen /\ n.state = moved.state /\ n.arrivedIn = moved.arrivedIn
          /\ n.late = moved.late
      BY <1>2, <2>1 DEF Row
    <2>5. QED
      BY <1>2, <1>4, <2>3, <2>4
  <1>5. QED
    BY <1>3, <1>4

(* The rows after a change of a team's task: those of the team recomputed, *)
(* the others as they were.                                                *)
LEMMA TaskWrites ==
  ASSUME IInv, NEW a \in Admins, TaskCommit(a)
  PROVE  IInv' /\ EffStep
  <1> DEFINE q == req[a]
             i == q.inc
             t == q.team
             w == q.ask
  <1>1. q \in Request /\ RequestOK(q) /\ q.pc = "task_tx"
    BY DEF IInv, TypeOK, RequestsOK, TaskCommit
  <1>2. /\ i \in Incidents /\ t \in Teams /\ w \in Work
        /\ q.snaps[t] \in Snap /\ q.torn \subseteq Teams
        /\ t \notin q.torn => FitsArea(q.snaps[t], w.area)
    <2>1. /\ q.torn \in SUBSET Teams
          /\ i \in Incidents \cup {Nil} /\ t \in Teams \cup {Nil} /\ q.snaps \in [Teams -> Snap \cup {Nil}]
      BY <1>1, ZenonT(120) DEF Request
    <2>2. /\ i # Nil /\ t # Nil /\ w \in Work /\ q.snaps[t] # Nil
          /\ t \notin q.torn => FitsArea(q.snaps[t], w.area)
      BY <1>1, ZenonT(120) DEF RequestOK, TaskRequestOK, TaskPCs, Resolved
    <2> HIDE DEF i, t, w, q
    <2>3. QED
      BY <2>1, <2>2
  <1>3. /\ UNCHANGED <<status, plan, report, phone, staleRow>> /\ req' = [req EXCEPT ![a] = Idle]
        /\ staleTask' = staleTask \cup ({i} \X q.torn)
    BY ZenonT(120) DEF TaskCommit, Finish
  <1>4. /\ task' \in [Incidents -> [Teams -> Task \cup {Nil}]]
        /\ \A j \in Incidents, u \in Teams : <<j, u>> # <<i, t>> => task'[j][u] = task[j][u]
        /\ task'[i][t] = Nil <=> task[i][t] = Nil
        /\ task'[i][t] # Nil =>
             task'[i][t].work = w /\ task'[i][t].snap = q.snaps[t]
    <2> DEFINE new == [work |-> w, snap |-> q.snaps[t], version |-> task[i][t].version + 1]
    <2>1. task' = [task EXCEPT ![i][t] = IF task[i][t] = Nil THEN Nil ELSE new]
      BY DEF TaskCommit
    <2>2. task[i][t] # Nil => new \in Task /\ new # Nil
      <3>1. task[i][t] # Nil => task[i][t].version + 1 \in Nat
        BY <1>2 DEF IInv, TypeOK, Task
      <3>2. QED
        BY <1>2, <3>1, StoreAssumption DEF Task
    <2> DEFINE set == IF task[i][t] = Nil THEN Nil ELSE new
    <2>3. set \in Task \cup {Nil} /\ (set = Nil <=> task[i][t] = Nil)
      BY <2>2
    <2>4. task' \in [Incidents -> [Teams -> Task \cup {Nil}]] /\ task'[i][t] = set
          /\ \A j \in Incidents, u \in Teams : <<j, u>> # <<i, t>> => task'[j][u] = task[j][u]
      <3>1. task' = [task EXCEPT ![i][t] = set]
        BY <2>1, ZenonT(60)
      <3> HIDE DEF set, i, t
      <3>2. QED
        BY <1>2, <2>3, <3>1 DEF IInv, TypeOK
    <2>5. task[i][t] # Nil => set = new /\ new.work = w /\ new.snap = q.snaps[t]
      BY ZenonT(60)
    <2> HIDE DEF set, new
    <2>6. QED
      BY <1>2, <2>3, <2>4, <2>5
  <1>5. \A j \in Incidents, m \in Members :
          asg'[j][m] = IF j = i /\ m \in TeamRows(i, t) THEN Retask(asg[j][m], w) ELSE asg[j][m]
    BY <1>2 DEF TaskCommit, IInv, TypeOK
  <1>6. asg' \in [Incidents -> [Members -> Row \cup {Nil}]]
    <2>1. asg' = [asg EXCEPT ![i] = [m \in Members |->
            IF m \in TeamRows(i, t) THEN Retask(asg[i][m], w) ELSE asg[i][m]]]
      BY DEF TaskCommit
    <2>2. \A m \in TeamRows(i, t) : Retask(asg[i][m], w) \in Row
      BY <1>2, RetaskRow DEF TeamRows, IInv, TypeOK
    <2>3. QED
      BY <1>2, <2>1, <2>2 DEF IInv, TypeOK
  <1> HIDE DEF i, t, w
  <1>7. ASSUME NEW j \in Incidents, NEW m \in Members
        PROVE  /\ asg'[j][m] = Nil <=> asg[j][m] = Nil
               /\ asg[j][m] # Nil =>
                    LET r == asg[j][m]
                        n == asg'[j][m]
                    IN  /\ r \in Row /\ n \in Row
                        /\ n.team = r.team /\ n.override = r.override
                        /\ n.ack = r.ack /\ n.seen = r.seen /\ n.late = r.late
                        /\ IF j = i /\ r.team = t
                           THEN /\ n.eff.mission = IF r.override.mission = Nil THEN w.mission ELSE r.eff.mission
                                /\ n.eff.area = IF r.override.area = Nil THEN w.area ELSE r.eff.area
                           ELSE n.eff = r.eff
                        /\ n.ver = IF n.eff = r.eff THEN r.ver ELSE r.ver + 1
                        /\ IF n.eff.area # r.eff.area /\ r.state \in Judged
                           THEN n.state = "MOVING" /\ n.arrivedIn = Nil
                           ELSE n.state = r.state /\ n.arrivedIn = r.arrivedIn
    <2>1. asg[j][m] # Nil => asg[j][m] \in Row
      BY DEF IInv, TypeOK
    <2>2. CASE j = i /\ m \in TeamRows(i, t)
      BY <1>2, <1>5, <2>1, <2>2, RetaskRow, StoreAssumption DEF TeamRows
    <2>3. CASE ~ (j = i /\ m \in TeamRows(i, t))
      BY <1>5, <2>1, <2>3 DEF TeamRows
    <2>4. QED
      BY <2>2, <2>3
  <1>8. Persist
    BY <1>2, <1>3, <1>4, <1>7 DEF Persist
  <1>9. RequestsOK' /\ req' \in [Admins -> Request]
    BY <1>3, <1>8, IdleType, IdleOK, RequestsKept, ZenonT(120)
  <1>9a. staleTask' \subseteq Incidents \X Teams /\ staleTask \subseteq staleTask'
    BY <1>2, <1>3 DEF IInv, TypeOK
  <1>9b. ReportsOK'
    <2>1. LateStays /\ TypeOK /\ ReportsOK
      BY <1>3, <1>7 DEF LateStays, IInv
    <2>2. QED
      BY <1>3, <1>8, <2>1, ReportsStay
  <1>10. TypeOK'
    BY <1>3, <1>4, <1>6, <1>9, <1>9a DEF IInv, TypeOK
  <1>11. RowsHaveTasks'
    BY <1>2, <1>4, <1>7 DEF IInv, RowsHaveTasks, Row
  <1>12. OneActive'
    BY <1>3 DEF IInv, OneActive, Active
  <1>13. RallyFitsArea'
    <2> SUFFICES ASSUME NEW j \in Incidents, NEW u \in Teams,
                        task'[j][u] # Nil, <<j, u>> \notin staleTask'
                 PROVE  FitsArea(task'[j][u].snap, task'[j][u].work.area)
      BY DEF RallyFitsArea, FitsArea
    <2>1. CASE j = i /\ u = t
      <3>1. t \notin q.torn
        BY <1>3, <2>1
      <3>2. QED
        BY <1>2, <1>4, <2>1, <3>1, ZenonT(60)
    <2>2. CASE ~ (j = i /\ u = t)
      <3>1. task'[j][u] = task[j][u] /\ <<j, u>> \notin staleTask
        BY <1>4, <1>9a, <2>2
      <3>2. QED
        BY <3>1, ZenonT(60) DEF IInv, RallyFitsArea
    <2>3. QED
      BY <2>1, <2>2
  <1>13a. EffStep
    <2> SUFFICES ASSUME NEW j \in Incidents, NEW m \in Members, EffRight(j, m),
                        asg'[j][m] # Nil
                 PROVE  LET n == asg'[j][m] IN
                        /\ task'[j][n.team] # Nil
                        /\ n.eff = Effective(n.override, task'[j][n.team].work)
      BY ZenonT(60) DEF EffStep, EffRight
    <2> DEFINE r == asg[j][m]
               n == asg'[j][m]
    <2>1. r # Nil /\ r \in Row /\ n \in Row /\ n.team = r.team /\ r.team \in Teams
      BY <1>7 DEF Row
    <2>2. task[j][r.team] # Nil /\ r.eff = Effective(r.override, task[j][r.team].work)
      BY <2>1, ZenonT(60) DEF EffRight
    <2>3. task'[j][n.team] # Nil
      BY <1>2, <1>4, <2>1, <2>2
    <2>4. CASE j = i /\ r.team = t
      <3>1. task'[j][n.team].work = w
        BY <1>4, <2>1, <2>3, <2>4
      <3>2. n.eff = [mission |-> n.eff.mission, area |-> n.eff.area]
        BY <2>1 DEF Row, Work
      <3>3. /\ n.override = r.override
            /\ n.eff.mission = IF r.override.mission = Nil THEN w.mission ELSE r.eff.mission
            /\ n.eff.area = IF r.override.area = Nil THEN w.area ELSE r.eff.area
        BY <1>7, <2>1, <2>4
      <3>4. /\ r.eff.mission = IF r.override.mission = Nil THEN task[j][r.team].work.mission
                               ELSE r.override.mission
            /\ r.eff.area = IF r.override.area = Nil THEN task[j][r.team].work.area
                            ELSE r.override.area
        BY <2>2 DEF Effective
      <3>5. /\ n.eff.mission = IF n.override.mission = Nil THEN w.mission ELSE n.override.mission
            /\ n.eff.area = IF n.override.area = Nil THEN w.area ELSE n.override.area
        BY <3>3, <3>4
      <3>6. n.eff = Effective(n.override, w)
        BY <3>2, <3>5 DEF Effective
      <3>7. QED
        BY <2>3, <3>1, <3>6
    <2>5. CASE ~ (j = i /\ r.team = t)
      BY <1>2, <1>4, <1>7, <2>1, <2>2, <2>5
    <2>6. QED
      BY <2>3, <2>4, <2>5
  <1>14. EffFollowsTask'
    BY <1>3, <1>13a, EffStepFollows DEF IInv
  <1>15. AckedIsCurrent'
    BY <1>3, <1>7 DEF IInv, AckedIsCurrent, Clean, Row
  <1>16. ArrivedWhereAssigned'
    <2> SUFFICES ASSUME NEW j \in Incidents, NEW m \in Members, Clean(j, m)', ~asg'[j][m].late
                 PROVE  ArrivalHeld(asg'[j][m])
      BY DEF ArrivedWhereAssigned, ArrivalHeld
    <2>1. asg[j][m] # Nil /\ Clean(j, m) /\ ~asg[j][m].late
      BY <1>3, <1>7 DEF Clean
    <2>2. ArrivalHeld(asg[j][m])
      BY <2>1, ZenonT(60) DEF IInv, ArrivedWhereAssigned
    <2>3. QED
      BY <1>7, <2>1, <2>2 DEF ArrivalHeld, Judged
  <1>17. PhonesBehind'
    <2> SUFFICES ASSUME NEW m \in Members, phone[m] # Nil
                 PROVE  LET c == phone[m]
                            n == asg'[c.inc][m]
                        IN  /\ status[c.inc] # "none"
                            /\ n # Nil
                            /\ Clean(c.inc, m)' => /\ c.ver <= n.ver
                                                   /\ c.ver = n.ver => c.eff = n.eff
      BY <1>3 DEF PhonesBehind
    <2>1. phone[m] \in PhoneCopy /\ phone[m].inc \in Incidents /\ phone[m].ver \in Nat
      BY DEF IInv, TypeOK, PhoneCopy
    <2>2. QED
      <3> DEFINE c == phone[m]
                 r == asg[c.inc][m]
      <3>1. r # Nil /\ r.ver \in Nat
        BY <1>7, <2>1 DEF IInv, PhonesBehind, Row
      <3>2. QED
        BY <1>3, <1>7, <2>1, <3>1 DEF IInv, PhonesBehind, Clean
  <1>18. QED
    BY <1>9, <1>9b, <1>10, <1>11, <1>12, <1>13, <1>13a, <1>14, <1>15, <1>16, <1>17 DEF IInv

(* A step that writes one row, found or new, of an incident: what has to   *)
(* be shown of the new row n.                                              *)
RowIsRight(i, m, n) ==
  /\ n \in Row
  /\ task[i][n.team] # Nil
  /\ asg[i][m] # Nil => n.team = asg[i][m].team
  /\ <<i, m>> \notin staleRow' =>
       /\ n.eff = Effective(n.override, task[i][n.team].work)
       /\ n.ack <= n.ver
       /\ n.ack = n.ver => n.seen = n.eff
       /\ ~n.late => ArrivalHeld(n)
  /\ asg[i][m] # Nil /\ asg[i][m].late => n.late

(* What such a step leaves: the row written, the others as they were, and  *)
(* every part of the invariant that speaks of rows, tasks and incidents.   *)
RowWritten(i, m, n) ==
  /\ asg' \in [Incidents -> [Members -> Row \cup {Nil}]]
  /\ asg'[i][m] = n
  /\ \A j \in Incidents, k \in Members : <<j, k>> # <<i, m>> => asg'[j][k] = asg[j][k]
  /\ staleRow' \subseteq Incidents \X Members
  /\ Persist /\ LateStays
  /\ RowsHaveTasks' /\ OneActive' /\ EffFollowsTask'
  /\ AckedIsCurrent' /\ ArrivedWhereAssigned' /\ RallyFitsArea'

(* A step that writes one row, as the invariant asks of rows, keeps what   *)
(* it says of rows, tasks and incidents.                                   *)
LEMMA RowWrites ==
  ASSUME IInv, NEW i \in Incidents, NEW m \in Members, NEW n, RowIsRight(i, m, n),
         UNCHANGED <<status, task, plan, staleTask>>,
         staleRow' \in {staleRow, staleRow \cup {<<i, m>>}},
         asg' = [asg EXCEPT ![i][m] = n]
  PROVE  RowWritten(i, m, n)
  <1>1. n \in Row /\ n # Nil
    BY StoreAssumption DEF RowIsRight
  <1>2. asg' \in [Incidents -> [Members -> Row \cup {Nil}]] /\ asg'[i][m] = n
    BY <1>1 DEF IInv, TypeOK
  <1>3. \A j \in Incidents, k \in Members : <<j, k>> # <<i, m>> => asg'[j][k] = asg[j][k]
    BY DEF IInv, TypeOK
  <1>4. staleRow' \subseteq Incidents \X Members
    BY DEF IInv, TypeOK
  <1>5. Persist
    BY <1>1, <1>2, <1>3 DEF Persist, RowIsRight
  <1>6. RowsHaveTasks' /\ OneActive' /\ RallyFitsArea'
    <2>1. RowsHaveTasks'
      BY <1>2, <1>3 DEF IInv, RowsHaveTasks, RowIsRight
    <2>2. QED
      BY <2>1 DEF IInv, OneActive, Active, RallyFitsArea
  <1>7. ASSUME NEW j \in Incidents, NEW k \in Members, <<j, k>> # <<i, m>>, Clean(j, k)'
        PROVE  Clean(j, k) /\ asg'[j][k] = asg[j][k]
    BY <1>3, <1>7 DEF Clean
  <1>8. Clean(i, m)' => <<i, m>> \notin staleRow'
    BY DEF Clean
  <1>9. EffFollowsTask'
    BY <1>2, <1>7, <1>8 DEF IInv, EffFollowsTask, RowIsRight
  <1>10. AckedIsCurrent'
    BY <1>2, <1>7, <1>8 DEF IInv, AckedIsCurrent, RowIsRight
  <1>11. ArrivedWhereAssigned'
    <2> SUFFICES ASSUME NEW j \in Incidents, NEW k \in Members, Clean(j, k)', ~asg'[j][k].late
                 PROVE  ArrivalHeld(asg'[j][k])
      BY DEF ArrivedWhereAssigned, ArrivalHeld
    <2>1. CASE <<j, k>> # <<i, m>>
      <3>1. Clean(j, k) /\ asg'[j][k] = asg[j][k]
        BY <1>7, <2>1
      <3>2. QED
        BY <3>1, ZenonT(60) DEF IInv, ArrivedWhereAssigned
    <2>2. CASE <<j, k>> = <<i, m>>
      BY <1>2, <1>8, <2>2 DEF RowIsRight
    <2>3. QED
      BY <2>1, <2>2
  <1>12. LateStays
    BY <1>2, <1>3 DEF LateStays, RowIsRight
  <1>13. QED
    BY <1>2, <1>3, <1>4, <1>5, <1>6, <1>9, <1>10, <1>11, <1>12 DEF RowWritten

(* Such a step leaves the phones behind when the row's version only grows, *)
(* with the work.                                                          *)
LEMMA PhonesStayBehind ==
  ASSUME IInv, NEW i \in Incidents, NEW m \in Members, NEW n \in Row,
         UNCHANGED <<status, phone>>,
         staleRow' \in {staleRow, staleRow \cup {<<i, m>>}},
         asg'[i][m] = n,
         \A j \in Incidents, k \in Members : <<j, k>> # <<i, m>> => asg'[j][k] = asg[j][k],
         asg[i][m] # Nil /\ <<i, m>> \notin staleRow' =>
           \/ n.ver = asg[i][m].ver /\ n.eff = asg[i][m].eff
           \/ n.ver = asg[i][m].ver + 1
  PROVE  PhonesBehind'
  <1> SUFFICES ASSUME NEW k \in Members, phone[k] # Nil
               PROVE  LET c == phone[k]
                          r == asg'[c.inc][k]
                      IN  /\ status[c.inc] # "none"
                          /\ r # Nil
                          /\ Clean(c.inc, k)' => /\ c.ver <= r.ver
                                                 /\ c.ver = r.ver => c.eff = r.eff
    BY DEF PhonesBehind
  <1>1. phone[k] \in PhoneCopy /\ phone[k].inc \in Incidents /\ phone[k].ver \in Nat
    BY DEF IInv, TypeOK, PhoneCopy
  <1>2. CASE <<phone[k].inc, k>> # <<i, m>>
    BY <1>1, <1>2 DEF IInv, PhonesBehind, Clean
  <1>3. CASE <<phone[k].inc, k>> = <<i, m>>
    <2>1. asg[i][m] # Nil /\ asg[i][m].ver \in Nat
      BY <1>1, <1>3 DEF IInv, PhonesBehind, TypeOK, Row
    <2>2. n # Nil
      BY StoreAssumption
    <2>3. QED
      BY <1>1, <1>3, <2>1, <2>2 DEF IInv, PhonesBehind, Clean
  <1>4. QED
    BY <1>2, <1>3

(* AddMember's INSERT keeps the invariant.                                 *)
LEMMA AddWrites ==
  ASSUME IInv, NEW a \in Admins, AddInsert(a)
  PROVE  IInv'
  <1> DEFINE q == req[a]
             i == q.inc
             m == q.member
             t == q.team
             n == NewRow(t, q.ask, q.task.work)
  <1>1. /\ q \in Request /\ RequestOK(q) /\ q.pc = "add_insert"
        /\ i \in Incidents /\ m \in Members /\ t \in Teams
        /\ q.task \in TaskReading /\ task[i][t] # Nil /\ q.ask \in Override
    BY DEF IInv, TypeOK, RequestsOK, AddInsert, RequestOK, AddRequestOK, Request
  <1>2. CASE asg[i][m] # Nil
    <2>1. asg' = asg
      BY <1>1, <1>2, ZenonT(120) DEF AddInsert, IInv, TypeOK
    <2>2. Continue(a, Idle)
      BY <1>2, <2>1 DEF AddInsert, Finish, Continue
    <2>3. QED
      BY <2>2, IdleType, IdleOK, ContinueKeeps
  <1>3. CASE asg[i][m] = Nil
    <2>1. /\ asg' = [asg EXCEPT ![i][m] = n]
          /\ staleRow' = IF task[i][t].work # q.task.work \/ ~Active(i)
                         THEN staleRow \cup {<<i, m>>} ELSE staleRow
          /\ UNCHANGED <<status, task, plan, report, phone, staleTask>>
          /\ req' = [req EXCEPT ![a] = Idle]
      BY <1>3 DEF AddInsert, Finish
    <2>2. q.task.work \in Work
      BY <1>1 DEF TaskReading
    <2>3. RowIsRight(i, m, n)
      <3>1. <<i, m>> \notin staleRow' => q.task.work = task[i][t].work
        BY <2>1
      <3>2. n \in Row /\ n.team = t /\ n.eff = Effective(q.ask, q.task.work) /\ n.override = q.ask
            /\ ~n.late
        BY <1>1, <2>2, NewRowType
      <3>3. n.ack = 1 /\ n.ver = 1 /\ n.seen = n.eff /\ n.state \notin Judged /\ n.arrivedIn = Nil
        BY DEF NewRow, Judged
      <3>4. QED
        BY <1>1, <1>3, <3>1, <3>2, <3>3 DEF RowIsRight, ArrivalHeld
    <2>4. /\ asg' \in [Incidents -> [Members -> Row \cup {Nil}]]
          /\ asg'[i][m] = n
          /\ \A j \in Incidents, k \in Members : <<j, k>> # <<i, m>> => asg'[j][k] = asg[j][k]
          /\ staleRow' \subseteq Incidents \X Members
          /\ Persist /\ LateStays /\ RowsHaveTasks' /\ OneActive' /\ EffFollowsTask'
          /\ AckedIsCurrent' /\ ArrivedWhereAssigned' /\ RallyFitsArea'
      <3>1. staleRow' \in {staleRow, staleRow \cup {<<i, m>>}}
        BY <2>1
      <3>2. UNCHANGED <<status, task, plan, staleTask>>
        BY <2>1
      <3>3. i \in Incidents /\ m \in Members /\ asg' = [asg EXCEPT ![i][m] = n]
        BY <1>1, <2>1
      <3> HIDE DEF n, i, m
      <3>4. RowWritten(i, m, n)
        BY <2>3, <3>1, <3>2, <3>3, RowWrites, ZenonT(120)
      <3>5. QED
        BY <3>4, ZenonT(120) DEF RowWritten
    <2>5. RequestsOK' /\ req' \in [Admins -> Request]
      BY <2>1, <2>4, IdleType, IdleOK, RequestsKept, ZenonT(120)
    <2>6. PhonesBehind'
      <3>1. n \in Row
        BY <2>3, ZenonT(60) DEF RowIsRight
      <3>2. staleRow' \in {staleRow, staleRow \cup {<<i, m>>}} /\ UNCHANGED <<status, phone>>
        BY <2>1
      <3>3. /\ asg'[i][m] = n
            /\ \A j \in Incidents, k \in Members : <<j, k>> # <<i, m>> => asg'[j][k] = asg[j][k]
        BY <2>4
      <3> HIDE DEF n, i, m
      <3>4. QED
        BY <1>1, <1>3, <3>1, <3>2, <3>3, PhonesStayBehind, ZenonT(120)
    <2>6a. ReportsOK'
      <3>1. TypeOK /\ ReportsOK /\ report' = report
        BY <2>1 DEF IInv
      <3>2. QED
        BY <2>4, <3>1, ReportsStay
    <2>7. TypeOK'
      BY <2>1, <2>4, <2>5 DEF IInv, TypeOK
    <2>8. QED
      BY <2>4, <2>5, <2>6, <2>6a, <2>7 DEF IInv
  <1>4. QED
    BY <1>2, <1>3

(* Overwrite writes the new override and values on a row, and counts and   *)
(* voids as the reading r of that row calls for.                           *)
LEMMA OverwriteRow ==
  ASSUME NEW row \in Row, NEW r \in RowReading, NEW o \in Override, NEW w \in Work
  PROVE  LET n == Overwrite(row, r, o, w) IN
         /\ n \in Row /\ n.team = row.team /\ n.override = o
         /\ n.eff = Effective(o, w) /\ n.ack = row.ack /\ n.seen = row.seen
         /\ n.late = row.late
         /\ n.ver = IF n.eff # r.eff THEN r.ver + 1 ELSE r.ver
         /\ IF n.eff.area # r.eff.area /\ r.state \in Judged
            THEN n.state = "MOVING" /\ n.arrivedIn = Nil
            ELSE n.state = row.state /\ n.arrivedIn = row.arrivedIn
  <1> DEFINE n       == Overwrite(row, r, o, w)
             new     == Effective(o, w)
             v       == IF new # r.eff THEN r.ver + 1 ELSE r.ver
             written == [row EXCEPT !.override = o, !.eff = new, !.ver = v]
  <1>0. new \in Work
    BY DEF Effective, Work, Override
  <1>1. v \in Nat
    BY DEF RowReading
  <1>2. /\ written \in Row /\ written.team = row.team /\ written.override = o
        /\ written.eff = new /\ written.ack = row.ack /\ written.seen = row.seen
        /\ written.ver = v /\ written.state = row.state
        /\ written.arrivedIn = row.arrivedIn /\ written.late = row.late
    BY <1>0, <1>1, ZenonT(120) DEF Row
  <1>3. n = IF new.area # r.eff.area /\ r.state \in Judged
            THEN [written EXCEPT !.state = "MOVING", !.arrivedIn = Nil]
            ELSE written
    BY DEF Overwrite
  <1> HIDE DEF written, n, v
  <1>4. CASE new.area # r.eff.area /\ r.state \in Judged
    <2>1. n = [written EXCEPT !.state = "MOVING", !.arrivedIn = Nil]
      BY <1>3, <1>4
    <2>2. n \in Row
      BY <1>2, <2>1, ZenonT(120) DEF Row, States
    <2>3. QED
      BY <1>2, <1>4, <2>1, <2>2 DEF Row, v, n
  <1>5. CASE ~ (new.area # r.eff.area /\ r.state \in Judged)
    BY <1>2, <1>3, <1>5 DEF v, n
  <1>6. QED
    BY <1>4, <1>5

(* UpdateMemberOverride's UPDATE keeps it: computed from a reading that    *)
(* still holds it gives what it should, and otherwise the row becomes one  *)
(* of staleRow.                                                            *)
LEMMA OverrideWrites ==
  ASSUME IInv, NEW a \in Admins, OverrideWrite(a)
  PROVE  IInv'
  <1> DEFINE q == req[a]
             i == q.inc
             m == q.member
             row == asg[i][m]
             r == q.row
             w == q.task.work
             n == Overwrite(row, r, q.ask, w)
  <1>1. /\ q \in Request /\ RequestOK(q) /\ q.pc = "over_write"
        /\ i \in Incidents /\ m \in Members
        /\ q.task \in TaskReading /\ q.ask \in Override /\ r \in RowReading
        /\ row \in Row /\ row.team = q.team
    BY DEF IInv, TypeOK, RequestsOK, OverrideWrite, RequestOK, OverrideRequestOK, Request
  <1>2. /\ asg' = [asg EXCEPT ![i][m] = n]
        /\ staleRow' = IF OutdatedOverride(a) THEN staleRow \cup {<<i, m>>} ELSE staleRow
        /\ UNCHANGED <<status, task, plan, report, phone, staleTask>>
        /\ req' = [req EXCEPT ![a] = Idle]
    BY DEF OverrideWrite, Finish
  <1>3. staleRow' \in {staleRow, staleRow \cup {<<i, m>>}}
    BY <1>2
  <1>5. /\ n \in Row /\ n.team = row.team /\ n.override = q.ask
        /\ n.eff = Effective(q.ask, w) /\ n.ack = row.ack /\ n.seen = row.seen
        /\ n.late = row.late
        /\ n.ver = IF n.eff # r.eff THEN r.ver + 1 ELSE r.ver
        /\ IF n.eff.area # r.eff.area /\ r.state \in Judged
           THEN n.state = "MOVING" /\ n.arrivedIn = Nil
           ELSE n.state = row.state /\ n.arrivedIn = row.arrivedIn
    <2>1. w \in Work
      BY <1>1 DEF TaskReading
    <2> HIDE DEF w, row, r
    <2>2. QED
      BY <1>1, <2>1, OverwriteRow
  <1>6. ~OutdatedOverride(a) =>
          /\ task[i][row.team].work = w
          /\ row.eff = r.eff
          /\ row.ver = r.ver
          /\ row.state \in Judged => r.state \in Judged
    BY <1>1 DEF OutdatedOverride
  <1>7. <<i, m>> \notin staleRow' => ~OutdatedOverride(a) /\ <<i, m>> \notin staleRow
    BY <1>2
  <1>8. row # Nil /\ row = asg[i][m] /\ row.team \in Teams
    BY <1>1, StoreAssumption DEF Row
  <1> HIDE DEF n, row, r, w, i, m
  <1>9. RowIsRight(i, m, n)
    <2>1. task[i][n.team] # Nil
      BY <1>1, <1>5, <1>8 DEF IInv, RowsHaveTasks
    <2>2. ASSUME <<i, m>> \notin staleRow'
          PROVE  /\ n.eff = Effective(n.override, task[i][n.team].work)
                 /\ n.ack <= n.ver
                 /\ n.ack = n.ver => n.seen = n.eff
                 /\ ~n.late => ArrivalHeld(n)
      <3>1. Clean(i, m)
        BY <1>7, <1>8, <2>2 DEF Clean
      <3>2. /\ row.ack <= row.ver
            /\ row.ack = row.ver => row.seen = row.eff
            /\ ~row.late => ArrivalHeld(row)
        BY <1>1, <1>8, <3>1 DEF IInv, AckedIsCurrent, ArrivedWhereAssigned
      <3>3. row.ack \in Nat /\ row.ver \in Nat
        BY <1>1 DEF Row
      <3>4. n.eff = Effective(n.override, task[i][n.team].work)
        BY <1>5, <1>6, <1>7, <2>2
      <3>5. n.ack <= n.ver /\ (n.ack = n.ver => n.seen = n.eff)
        BY <1>5, <1>6, <1>7, <2>2, <3>2, <3>3
      <3>6. ~n.late => ArrivalHeld(n)
        BY <1>5, <1>6, <1>7, <2>2, <3>2 DEF Judged, ArrivalHeld
      <3>7. QED
        BY <3>4, <3>5, <3>6, ZenonT(120)
    <2>3. QED
      BY <1>5, <1>8, <2>1, <2>2 DEF RowIsRight
  <1>10. ~OutdatedOverride(a) => \/ n.ver = row.ver /\ n.eff = row.eff
                                 \/ n.ver = row.ver + 1
    BY <1>5, <1>6
  <1>11. /\ asg' \in [Incidents -> [Members -> Row \cup {Nil}]]
         /\ asg'[i][m] = n
         /\ \A j \in Incidents, k \in Members : <<j, k>> # <<i, m>> => asg'[j][k] = asg[j][k]
         /\ staleRow' \subseteq Incidents \X Members
         /\ Persist /\ LateStays /\ RowsHaveTasks' /\ OneActive' /\ EffFollowsTask'
         /\ AckedIsCurrent' /\ ArrivedWhereAssigned' /\ RallyFitsArea'
    <2>1. i \in Incidents /\ m \in Members /\ asg' = [asg EXCEPT ![i][m] = n]
      BY <1>1, <1>2
    <2>2. UNCHANGED <<status, task, plan, staleTask>>
      BY <1>2
    <2> HIDE DEF n, i, m
    <2>3. RowWritten(i, m, n)
      BY <1>3, <1>9, <2>1, <2>2, RowWrites, ZenonT(120)
    <2>4. QED
      BY <2>3, ZenonT(120) DEF RowWritten
  <1>12. RequestsOK' /\ req' \in [Admins -> Request]
    BY <1>2, <1>11, IdleType, IdleOK, RequestsKept, ZenonT(120)
  <1>13. PhonesBehind'
    <2>1. n \in Row /\ UNCHANGED <<status, phone>>
      BY <1>2, <1>5
    <2>2. asg[i][m] # Nil /\ <<i, m>> \notin staleRow' =>
           \/ n.ver = asg[i][m].ver /\ n.eff = asg[i][m].eff
           \/ n.ver = asg[i][m].ver + 1
      BY <1>7, <1>8, <1>10
    <2>3. i \in Incidents /\ m \in Members
      BY <1>1
    <2> HIDE DEF n, i, m
    <2>4. QED
      BY <1>3, <1>11, <2>1, <2>2, <2>3, PhonesStayBehind
  <1>13a. ReportsOK'
    <2>1. TypeOK /\ ReportsOK /\ report' = report
      BY <1>2 DEF IInv
    <2>2. QED
      BY <1>11, <2>1, ReportsStay
  <1>14. TypeOK'
    BY <1>2, <1>11, <1>12 DEF IInv, TypeOK
  <1>15. QED
    BY <1>11, <1>12, <1>13, <1>13a, <1>14 DEF IInv

(* What the tracker judges of a row is a step from what the row is.        *)
LEMMA TrackerJudges ==
  ASSUME IInv, NEW m \in Members, NEW s \in States, TrackerJudge(m, s)
  PROVE  IInv'
  <1>1. PICK i \in Incidents :
          /\ Active(i)
          /\ asg[i][m] # Nil
          /\ s \in NextPhases(asg[i][m].state) \cup {asg[i][m].state}
          /\ report' = [report EXCEPT ![m] =
               [inc |-> i, from |-> asg[i][m].state, area |-> asg[i][m].eff.area, state |-> s,
                arrivedIn |-> IF s = "ARRIVED" /\ s # asg[i][m].state
                              THEN asg[i][m].eff.area ELSE asg[i][m].arrivedIn]]
          /\ UNCHANGED <<status, task, asg, plan, req, phone, staleRow, staleTask>>
    BY ZenonT(120) DEF TrackerJudge
  <1> DEFINE r == asg[i][m]
             d == IF s = "ARRIVED" /\ s # r.state THEN r.eff.area ELSE r.arrivedIn
             c == [inc |-> i, from |-> r.state, area |-> r.eff.area, state |-> s,
                   arrivedIn |-> d]
  <1>2. r \in Row
    BY <1>1 DEF IInv, TypeOK
  <1>3. r.eff.area \in Areas /\ r.arrivedIn \in Areas \cup {Nil} /\ r.state \in States
    BY <1>2 DEF Row, Work
  <1>4. d \in Areas \cup {Nil}
    BY <1>3
  <1>5. report' = [report EXCEPT ![m] = c]
    BY <1>1, ZenonT(60)
  <1>6. Clean(i, m) /\ ~r.late => d = IF s \in Judged THEN r.eff.area ELSE Nil
    <2> SUFFICES ASSUME Clean(i, m), ~r.late
                 PROVE  d = IF s \in Judged THEN r.eff.area ELSE Nil
      OBVIOUS
    <2>1. r.arrivedIn = IF r.state \in Judged THEN r.eff.area ELSE Nil
      BY ZenonT(60) DEF IInv, ArrivedWhereAssigned, ArrivalHeld
    <2>2. s \in NextPhases(r.state) \cup {r.state}
      BY <1>1
    <2>3. /\ s \notin Judged => r.state \notin Judged
          /\ s \in Judged => s = "ARRIVED" \/ s = r.state \/ r.state = "ARRIVED"
      <3> HIDE DEF r
      <3>1. QED
        BY <1>3, <2>2 DEF NextPhases, States, Judged
    <2> HIDE DEF r
    <2>4. QED
      BY <2>1, <2>3 DEF Judged
  <1> HIDE DEF d
  <1>7. c \in Report /\ c # Nil
    <2>1. c \in Report
      BY <1>3, <1>4 DEF Report
    <2>2. QED
      BY <2>1, StoreAssumption, ZenonT(60)
  <1>8. /\ c.inc = i /\ c.from = r.state /\ c.area = r.eff.area /\ c.state = s
        /\ c.arrivedIn = d
    OBVIOUS
  <1>9. r = asg[i][m]
    OBVIOUS
  <1> HIDE DEF c, r
  <1>10. report' \in [Members -> Report \cup {Nil}] /\ report'[m] = c
         /\ \A k \in Members : k # m => report'[k] = report[k]
    BY <1>5, <1>7 DEF IInv, TypeOK
  <1>11. TypeOK'
    BY <1>1, <1>10 DEF IInv, TypeOK
  <1>12. RequestsOK'
    <2>1. Persist
      BY <1>1 DEF Persist
    <2>2. QED
      BY <1>1, <2>1, RequestsStay DEF IInv
  <1>13. ReportsOK'
    <2> SUFFICES ASSUME NEW k \in Members, report'[k] # Nil
                 PROVE  LET e == report'[k] IN
                        /\ status[e.inc] # "none"
                        /\ asg[e.inc][k] # Nil
                        /\ e.state \in NextPhases(e.from) \cup {e.from}
                        /\ Clean(e.inc, k) /\ ~asg[e.inc][k].late =>
                             e.arrivedIn = IF e.state \in Judged THEN e.area ELSE Nil
      BY <1>1 DEF ReportsOK, Clean
    <2>1. CASE k = m
      <3>1. report'[k] = c
        BY <1>10, <2>1
      <3>2. status[i] # "none"
        BY <1>1 DEF Active
      <3>3. asg[i][m] # Nil /\ s \in NextPhases(r.state) \cup {r.state}
        BY <1>1, <1>9
      <3>4. QED
        BY <1>6, <1>8, <1>9, <2>1, <3>1, <3>2, <3>3, ZenonT(60)
    <2>2. CASE k # m
      <3>1. report'[k] = report[k]
        BY <1>10, <2>2
      <3>2. QED
        BY <3>1, ZenonT(60) DEF IInv, ReportsOK
    <2>3. QED
      BY <2>1, <2>2
  <1>14. RowsHaveTasks' /\ OneActive' /\ PhonesBehind' /\ RallyFitsArea'
    BY <1>1 DEF IInv, RowsHaveTasks, OneActive, Active, PhonesBehind, Clean, RallyFitsArea
  <1>15. EffFollowsTask' /\ AckedIsCurrent' /\ ArrivedWhereAssigned'
    BY <1>1 DEF IInv, EffFollowsTask, AckedIsCurrent, ArrivedWhereAssigned, Clean
  <1>16. QED
    BY <1>11, <1>12, <1>13, <1>14, <1>15 DEF IInv

(* What it writes is right if the row is still the one that was judged;    *)
(* else the row is one that was written late.                              *)
LEMMA TrackerWrites ==
  ASSUME IInv, NEW m \in Members, TrackerWrite(m)
  PROVE  IInv'
  <1> DEFINE c == report[m]
             i == c.inc
             r == asg[i][m]
             d == IF StateOnly(c) THEN r.arrivedIn ELSE c.arrivedIn
             l == r.late \/ r.state # c.from \/ r.eff.area # c.area
             n == [r EXCEPT !.state = c.state, !.arrivedIn = d, !.late = l]
  <1>1. c \in Report /\ c # Nil
    BY DEF TrackerWrite, IInv, TypeOK
  <1>2. /\ status[i] # "none" /\ r # Nil /\ c.state \in NextPhases(c.from) \cup {c.from}
        /\ Clean(i, m) /\ ~r.late => c.arrivedIn = IF c.state \in Judged THEN c.area ELSE Nil
    BY <1>1, ZenonT(60) DEF IInv, ReportsOK
  <1>3. i \in Incidents /\ c.state \in States /\ c.from \in States
        /\ c.arrivedIn \in Areas \cup {Nil} /\ c.area \in Areas
    BY <1>1 DEF Report
  <1>4. r \in Row
    BY <1>2, <1>3 DEF IInv, TypeOK
  <1>5. d \in Areas \cup {Nil} /\ l \in BOOLEAN
    BY <1>3, <1>4 DEF Row
  <1>6. /\ asg' = [asg EXCEPT ![i][m] = n]
        /\ report' = [report EXCEPT ![m] = Nil]
        /\ UNCHANGED <<status, task, plan, req, phone, staleRow, staleTask>>
    <2>1. asg' = [asg EXCEPT ![i][m] = n]
      BY ZenonT(60) DEF TrackerWrite
    <2>2. QED
      BY <2>1, ZenonT(60) DEF TrackerWrite
  <1>7. n \in Row /\ n.team = r.team /\ n.override = r.override /\ n.eff = r.eff
        /\ n.ver = r.ver /\ n.ack = r.ack /\ n.seen = r.seen /\ n.state = c.state
        /\ n.arrivedIn = d /\ n.late = l
    <2> HIDE DEF r, d, l, c
    <2>1. n \in Row
      BY <1>3, <1>4, <1>5, ZenonT(120) DEF Row
    <2>2. QED
      BY <1>4, <2>1 DEF Row
  <1>8. Clean(i, m) /\ ~l => d = IF c.state \in Judged THEN r.eff.area ELSE Nil
    <2> SUFFICES ASSUME Clean(i, m), ~l
                 PROVE  d = IF c.state \in Judged THEN r.eff.area ELSE Nil
      OBVIOUS
    <2>1. ~r.late /\ r.state = c.from /\ r.eff.area = c.area
      OBVIOUS
    <2>2. r.arrivedIn = IF r.state \in Judged THEN r.eff.area ELSE Nil
      BY <1>3, <2>1, ZenonT(60) DEF IInv, ArrivedWhereAssigned, ArrivalHeld
    <2>3. c.arrivedIn = IF c.state \in Judged THEN c.area ELSE Nil
      BY <1>2, <2>1
    <2>4. c.state \in {"LOGGED_IN", "LOC_DENIED"} => c.from \notin Judged
      <3> HIDE DEF c, r
      <3>1. QED
        BY <1>2, <1>3 DEF NextPhases, States, Judged
    <2>5. CASE StateOnly(c)
      <3>1. d = r.arrivedIn
        BY <2>5
      <3> HIDE DEF d, r, c
      <3>2. QED
        BY <2>1, <2>2, <2>4, <2>5, <3>1 DEF StateOnly, Judged
    <2>6. CASE ~StateOnly(c)
      <3>1. d = c.arrivedIn
        BY <2>6
      <3> HIDE DEF d, r, c
      <3>2. QED
        BY <2>1, <2>3, <3>1
    <2>7. QED
      BY <2>5, <2>6
  <1>9. r = asg[i][m] /\ (r.late => l) /\ i = report[m].inc
    OBVIOUS
  <1> HIDE DEF n, d, l, r, i, c
  <1>10. RowIsRight(i, m, n)
    <2>1. task[i][n.team] # Nil
      BY <1>2, <1>3, <1>7, <1>9 DEF IInv, RowsHaveTasks
    <2>2. ASSUME <<i, m>> \notin staleRow'
          PROVE  /\ n.eff = Effective(n.override, task[i][n.team].work)
                 /\ n.ack <= n.ver
                 /\ n.ack = n.ver => n.seen = n.eff
                 /\ ~n.late => ArrivalHeld(n)
      <3>1. Clean(i, m)
        BY <1>2, <1>6, <1>9, <2>2 DEF Clean
      <3>2. ~n.late => ArrivalHeld(n)
        BY <1>7, <1>8, <3>1 DEF ArrivalHeld
      <3>3. QED
        <4>1. /\ asg[i][m].eff = Effective(asg[i][m].override, task[i][asg[i][m].team].work)
              /\ asg[i][m].ack <= asg[i][m].ver
              /\ asg[i][m].ack = asg[i][m].ver => asg[i][m].seen = asg[i][m].eff
          BY <1>3, <3>1, ZenonT(60) DEF IInv, EffFollowsTask, AckedIsCurrent
        <4>2. QED
          BY <1>7, <1>9, <3>2, <4>1, ZenonT(60)
    <2>3. asg[i][m].late => n.late
      BY <1>7, <1>9, ZenonT(60)
    <2>4. n \in Row /\ n.team = asg[i][m].team
      BY <1>7, <1>9
    <2>5. QED
      BY <2>1, <2>2, <2>3, <2>4, ZenonT(60) DEF RowIsRight
  <1>11. staleRow' \in {staleRow, staleRow \cup {<<i, m>>}}
    BY <1>6
  <1>12. /\ asg' \in [Incidents -> [Members -> Row \cup {Nil}]]
         /\ asg'[i][m] = n
         /\ \A j \in Incidents, k \in Members : <<j, k>> # <<i, m>> => asg'[j][k] = asg[j][k]
         /\ staleRow' \subseteq Incidents \X Members
         /\ Persist /\ LateStays /\ RowsHaveTasks' /\ OneActive' /\ EffFollowsTask'
         /\ AckedIsCurrent' /\ ArrivedWhereAssigned' /\ RallyFitsArea'
    <2>1. UNCHANGED <<status, task, plan, staleTask>> /\ asg' = [asg EXCEPT ![i][m] = n]
      BY <1>6
    <2>2. RowWritten(i, m, n)
      BY <1>3, <1>10, <1>11, <2>1, RowWrites, ZenonT(120)
    <2>3. QED
      BY <2>2, ZenonT(120) DEF RowWritten
  <1>13. PhonesBehind'
    <2>1. asg[i][m] # Nil /\ <<i, m>> \notin staleRow' =>
           \/ n.ver = asg[i][m].ver /\ n.eff = asg[i][m].eff
           \/ n.ver = asg[i][m].ver + 1
      BY <1>7, <1>9
    <2>2. UNCHANGED <<status, phone>>
      BY <1>6
    <2>3. QED
      BY <1>3, <1>7, <1>11, <1>12, <2>1, <2>2, PhonesStayBehind
  <1>14. ReportsOK' /\ report' \in [Members -> Report \cup {Nil}]
    <2>1. \A k \in Members : report'[k] \in {report[k], Nil}
      BY <1>6 DEF IInv, TypeOK
    <2>2. TypeOK /\ ReportsOK
      BY DEF IInv
    <2>3. ReportsOK'
      BY <1>12, <2>1, <2>2, ReportsStay
    <2>4. QED
      BY <1>6, <2>3 DEF IInv, TypeOK
  <1>15. TypeOK'
    BY <1>6, <1>12, <1>14 DEF IInv, TypeOK
  <1>16. RequestsOK'
    BY <1>6, <1>12, RequestsStay, ZenonT(120) DEF IInv
  <1>17. QED
    BY <1>12, <1>13, <1>14, <1>15, <1>16 DEF IInv

(* RefreshTeamPlan's transaction: new points for the task, a new version   *)
(* for the members who follow its area.                                    *)
LEMMA RefreshWrites ==
  ASSUME IInv, NEW a \in Admins, RefreshCommit(a)
  PROVE  IInv' /\ EffStep
  <1> DEFINE q == req[a]
             i == q.inc
             t == q.team
             tt == task[i][t]
             nt == [tt EXCEPT !.snap = q.snaps[t], !.version = @ + 1]
  <1>1. q \in Request /\ RequestOK(q) /\ q.pc = "plan_tx"
    BY ZenonT(60) DEF IInv, TypeOK, RequestsOK, RefreshCommit
  <1>2. /\ i \in Incidents /\ t \in Teams /\ q.task \in TaskReading /\ tt # Nil
        /\ tt \in Task /\ q.snaps[t] \in Snap
        /\ t \notin q.torn => FitsArea(q.snaps[t], q.task.work.area)
    <2>1. /\ i \in Incidents /\ t \in Teams /\ q.task \in TaskReading /\ tt # Nil
          /\ q.snaps[t] \in Snap
          /\ t \notin q.torn => FitsArea(q.snaps[t], q.task.work.area)
      <3>1. /\ i \in Incidents \cup {Nil} /\ t \in Teams \cup {Nil} /\ q.task \in TaskReading \cup {Nil}
            /\ q.snaps \in [Teams -> Snap \cup {Nil}]
        BY <1>1, ZenonT(120) DEF Request
      <3>2. /\ i # Nil /\ t # Nil /\ q.task # Nil /\ tt # Nil
            /\ q.snaps[t] # Nil
            /\ t \notin q.torn => FitsArea(q.snaps[t], q.task.work.area)
        <4>1. i # Nil /\ q.team \in q.todo /\ q.task # Nil /\ tt # Nil
          BY <1>1, ZenonT(120) DEF RequestOK, PlanRequestOK
        <4>2. Resolved(q, t, q.task.work.area)
          BY <1>1, ZenonT(120) DEF RequestOK, PlanRequestOK
        <4>3. t # Nil
          BY <1>1, <4>1, StoreAssumption DEF Request
        <4>4. QED
          BY <4>1, <4>2, <4>3, ZenonT(60) DEF Resolved
      <3> HIDE DEF i, t, tt, q
      <3>3. QED
        BY <3>1, <3>2
    <2> HIDE DEF i, t
    <2>2. QED
      BY <2>1 DEF IInv, TypeOK
  <1>3. /\ UNCHANGED <<status, plan, report, phone, staleRow>>
        /\ req' = [req EXCEPT ![a] = NextTeam(q, t)]
        /\ staleTask' \in {staleTask, staleTask \cup {<<i, t>>}}
        /\ <<i, t>> \notin staleTask' => /\ <<i, t>> \notin staleTask
                                         /\ tt.work.area = q.task.work.area
                                         /\ t \notin q.torn
    <2>1. /\ UNCHANGED <<status, plan, report, phone, staleRow>>
          /\ req' = [req EXCEPT ![a] = NextTeam(q, t)]
          /\ staleTask' = IF \/ tt.work.area # q.task.work.area
                             \/ tt.snap # q.task.snap
                             \/ t \in q.torn
                          THEN staleTask \cup {<<i, t>>} ELSE staleTask
      BY ZenonT(60) DEF RefreshCommit
    <2> HIDE DEF i, t, tt, q
    <2>2. QED
      BY <2>1
  <1>4. /\ task' \in [Incidents -> [Teams -> Task \cup {Nil}]]
        /\ \A j \in Incidents, u \in Teams : <<j, u>> # <<i, t>> => task'[j][u] = task[j][u]
        /\ task'[i][t] # Nil
        /\ task'[i][t].work = tt.work
        /\ task'[i][t].snap = q.snaps[t]
    <2>1. nt \in Task /\ nt.work = tt.work /\ nt.snap = q.snaps[t]
      <3> DEFINE sn == q.snaps[t]
                 v  == tt.version + 1
      <3>1. sn \in Snap /\ v \in Nat /\ nt = [tt EXCEPT !.snap = sn, !.version = v]
        BY <1>2 DEF Task
      <3>2. tt \in Task
        BY <1>2
      <3> HIDE DEF sn, v, nt, tt
      <3>3. nt \in Task /\ nt.work = tt.work /\ nt.snap = sn
        BY <3>1, <3>2, ZenonT(120) DEF Task
      <3>4. QED
        BY <3>3 DEF sn
    <2>2. task' = [task EXCEPT ![i][t] = nt]
      BY ZenonT(120) DEF RefreshCommit
    <2> HIDE DEF nt, tt, i, t
    <2>3. nt # Nil
      BY <2>1, StoreAssumption
    <2>4. QED
      BY <1>2, <2>1, <2>2, <2>3 DEF IInv, TypeOK
  <1>5. ASSUME NEW j \in Incidents, NEW m \in Members
        PROVE  /\ asg'[j][m] = Nil <=> asg[j][m] = Nil
               /\ asg[j][m] # Nil =>
                    LET r == asg[j][m]
                        n == asg'[j][m]
                    IN  /\ r \in Row /\ n \in Row
                        /\ n.team = r.team /\ n.override = r.override /\ n.eff = r.eff
                        /\ n.ack = r.ack /\ n.seen = r.seen
                        /\ n.state = r.state /\ n.arrivedIn = r.arrivedIn
                        /\ n.late = r.late
                        /\ n.ver \in {r.ver, r.ver + 1}
    <2> DEFINE r == asg[j][m]
               follows == m \in TeamRows(i, t) /\ r.override.area = Nil
    <2>1. r # Nil => r \in Row
      BY DEF IInv, TypeOK
    <2>2. asg'[j][m] = IF j = i /\ follows THEN [r EXCEPT !.ver = @ + 1] ELSE r
      BY <1>2, ZenonT(120) DEF RefreshCommit, IInv, TypeOK
    <2> HIDE DEF i, t
    <2>3. CASE j = i /\ follows
      <3>1. r # Nil /\ r \in Row
        BY <2>1, <2>3 DEF TeamRows
      <3>2. asg'[j][m] = [r EXCEPT !.ver = r.ver + 1]
        BY <2>2, <2>3
      <3> HIDE DEF r, follows
      <3>3. asg'[j][m] \in Row
        BY <3>1, <3>2 DEF Row
      <3>4. asg'[j][m] # Nil
        BY <3>3, StoreAssumption
      <3>5. QED
        BY <3>1, <3>2, <3>3, <3>4 DEF Row, r
    <2>4. CASE ~ (j = i /\ follows)
      BY <2>1, <2>2, <2>4
    <2>5. QED
      BY <2>3, <2>4
  <1>6. asg' \in [Incidents -> [Members -> Row \cup {Nil}]]
    <2>1. asg' = [asg EXCEPT ![i] = [m \in Members |-> asg'[i][m]]]
      BY <1>2, ZenonT(120) DEF RefreshCommit, IInv, TypeOK
    <2> HIDE DEF i, t
    <2>2. \A m \in Members : asg'[i][m] \in Row \cup {Nil}
      BY <1>2, <1>5
    <2> DEFINE rows == [m \in Members |-> asg'[i][m]]
    <2>3. rows \in [Members -> Row \cup {Nil}]
      BY <2>2
    <2>4. asg' = [asg EXCEPT ![i] = rows]
      BY <2>1, ZenonT(120)
    <2>5. asg \in [Incidents -> [Members -> Row \cup {Nil}]]
      BY ZenonT(120) DEF IInv, TypeOK
    <2> HIDE DEF rows
    <2>6. QED
      BY <1>2, <2>3, <2>4, <2>5
  <1>7. Persist
    <2> HIDE DEF i, t, tt, nt, q
    <2>1. \A j \in Incidents, u \in Teams : task[j][u] # Nil => task'[j][u] # Nil
      BY <1>4, ZenonT(60)
    <2>2. \A j \in Incidents, m \in Members :
            asg[j][m] # Nil => asg'[j][m] # Nil /\ asg'[j][m].team = asg[j][m].team
      BY <1>5, ZenonT(60)
    <2>3. QED
      BY <1>3, <2>1, <2>2, ZenonT(60) DEF Persist
  <1>8. RequestsOK' /\ req' \in [Admins -> Request]
    <2>1. NextTeam(q, t) \in Request /\ RequestOK(NextTeam(q, t))
      BY <1>1, <1>2, NextTeamOK
    <2>2. QED
      BY <1>3, <1>7, <2>1, RequestsKept, ZenonT(120)
  <1> HIDE DEF i, t, tt, nt, q
  <1>9. TypeOK'
    <2>1. staleTask' \subseteq Incidents \X Teams
      BY <1>2, <1>3 DEF IInv, TypeOK
    <2>2. QED
      BY <1>3, <1>4, <1>6, <1>8, <2>1 DEF IInv, TypeOK
  <1>10. RowsHaveTasks'
    BY <1>2, <1>4, <1>5 DEF IInv, RowsHaveTasks, Row
  <1>11. OneActive'
    BY <1>3 DEF IInv, OneActive, Active
  <1>12. RallyFitsArea'
    <2> SUFFICES ASSUME NEW j \in Incidents, NEW u \in Teams,
                        task'[j][u] # Nil, <<j, u>> \notin staleTask'
                 PROVE  FitsArea(task'[j][u].snap, task'[j][u].work.area)
      BY DEF RallyFitsArea, FitsArea
    <2>1. CASE <<j, u>> = <<i, t>>
      <3>1. j = i /\ u = t
        BY <2>1
      <3>2. tt.work.area = q.task.work.area /\ t \notin q.torn
        BY <1>3, <3>1
      <3>3. QED
        BY <1>2, <1>4, <3>1, <3>2, ZenonT(120)
    <2>2. CASE <<j, u>> # <<i, t>>
      <3>1. task'[j][u] = task[j][u] /\ <<j, u>> \notin staleTask
        BY <1>3, <1>4, <2>2, ZenonT(120)
      <3>2. QED
        BY <3>1, ZenonT(60) DEF IInv, RallyFitsArea
    <2>3. QED
      BY <2>1, <2>2
  <1>12a. EffStep
    <2> SUFFICES ASSUME NEW j \in Incidents, NEW m \in Members, EffRight(j, m),
                        asg'[j][m] # Nil
                 PROVE  LET n == asg'[j][m] IN
                        /\ task'[j][n.team] # Nil
                        /\ n.eff = Effective(n.override, task'[j][n.team].work)
      BY ZenonT(60) DEF EffStep, EffRight
    <2> DEFINE r == asg[j][m]
    <2>1. r # Nil /\ r \in Row /\ r.team \in Teams
      BY <1>5 DEF Row
    <2>2. task[j][r.team] # Nil /\ r.eff = Effective(r.override, task[j][r.team].work)
      BY <2>1, ZenonT(60) DEF EffRight
    <2>3. task'[j][r.team] # Nil /\ task'[j][r.team].work = task[j][r.team].work
      BY <1>2, <1>4, <2>1, <2>2 DEF tt
    <2>4. asg'[j][m].team = r.team /\ asg'[j][m].override = r.override /\ asg'[j][m].eff = r.eff
      BY <1>5, <2>1, ZenonT(60)
    <2> HIDE DEF r
    <2>5. QED
      BY <2>2, <2>3, <2>4, ZenonT(60)
  <1>13. EffFollowsTask'
    BY <1>3, <1>12a, EffStepFollows DEF IInv
  <1>14. AckedIsCurrent'
    BY <1>3, <1>5 DEF IInv, AckedIsCurrent, Clean, Row
  <1>15. ArrivedWhereAssigned'
    <2> SUFFICES ASSUME NEW j \in Incidents, NEW m \in Members, Clean(j, m)', ~asg'[j][m].late
                 PROVE  ArrivalHeld(asg'[j][m])
      BY DEF ArrivedWhereAssigned, ArrivalHeld
    <2>1. asg[j][m] # Nil /\ Clean(j, m) /\ ~asg[j][m].late
      BY <1>3, <1>5 DEF Clean
    <2>2. ArrivalHeld(asg[j][m])
      BY <2>1, ZenonT(60) DEF IInv, ArrivedWhereAssigned
    <2>3. QED
      BY <1>5, <2>1, <2>2 DEF ArrivalHeld
  <1>15a. ReportsOK'
    <2>1. LateStays /\ TypeOK /\ ReportsOK
      BY <1>3, <1>5 DEF LateStays, IInv
    <2>2. QED
      BY <1>3, <1>7, <2>1, ReportsStay
  <1>16. PhonesBehind'
    <2> SUFFICES ASSUME NEW m \in Members, phone[m] # Nil
                 PROVE  LET c == phone[m]
                            n == asg'[c.inc][m]
                        IN  /\ status[c.inc] # "none"
                            /\ n # Nil
                            /\ Clean(c.inc, m)' => /\ c.ver <= n.ver
                                                   /\ c.ver = n.ver => c.eff = n.eff
      BY <1>3 DEF PhonesBehind
    <2>1. phone[m] \in PhoneCopy /\ phone[m].inc \in Incidents /\ phone[m].ver \in Nat
      BY DEF IInv, TypeOK, PhoneCopy
    <2>2. QED
      <3> DEFINE c == phone[m]
                 r == asg[c.inc][m]
                 n == asg'[c.inc][m]
      <3>1. status[c.inc] # "none" /\ r # Nil /\ (Clean(c.inc, m) => c.ver <= r.ver /\ (c.ver = r.ver => c.eff = r.eff))
        BY ZenonT(120) DEF IInv, PhonesBehind
      <3>2. /\ n # Nil /\ n.eff = r.eff /\ n.ver \in {r.ver, r.ver + 1} /\ r.ver \in Nat
            /\ Clean(c.inc, m)' => Clean(c.inc, m)
        <4>1. r \in Row /\ n.eff = r.eff /\ n.ver \in {r.ver, r.ver + 1} /\ n \in Row
          BY <1>5, <2>1, <3>1, ZenonT(60)
        <4>2. n # Nil
          BY <1>5, <2>1, <3>1, ZenonT(60)
        <4>3. r.ver \in Nat
          BY <4>1, ZenonT(60) DEF Row
        <4>4. Clean(c.inc, m)' => Clean(c.inc, m)
          BY <1>3, <3>1, ZenonT(60) DEF Clean
        <4>5. QED
          BY <4>1, <4>2, <4>3, <4>4, ZenonT(60)
      <3> HIDE DEF c, r, n
      <3>3. status[c.inc] # "none" /\ n # Nil /\ (Clean(c.inc, m)' => c.ver <= n.ver /\ (c.ver = n.ver => c.eff = n.eff))
        BY <2>1, <3>1, <3>2 DEF c
      <3>4. QED
        BY <3>3 DEF c, n
  <1>17. QED
    BY <1>8, <1>9, <1>10, <1>11, <1>12, <1>12a, <1>13, <1>14, <1>15, <1>15a, <1>16 DEF IInv

(* The phone of m shows the row as it is.                                  *)
LEMMA Fetches ==
  ASSUME IInv, NEW m \in Members, Fetch(m)
  PROVE  IInv'
  <1>1. PICK i \in Incidents :
          /\ Active(i)
          /\ asg[i][m] # Nil
          /\ phone' = [phone EXCEPT ![m] =
                         [inc |-> i, ver |-> asg[i][m].ver, eff |-> asg[i][m].eff]]
          /\ UNCHANGED <<status, task, asg, plan, req, report, staleRow, staleTask>>
    BY ZenonT(120) DEF Fetch
  <1>2. asg[i][m] \in Row
    BY <1>1 DEF IInv, TypeOK
  <1>3. [inc |-> i, ver |-> asg[i][m].ver, eff |-> asg[i][m].eff] \in PhoneCopy
    BY <1>2 DEF Row, PhoneCopy
  <1>4. TypeOK'
    BY <1>1, <1>3, ZenonT(120) DEF IInv, TypeOK
  <1>5. RequestsOK'
    <2> SUFFICES ASSUME NEW b \in Admins PROVE RequestOK(req[b])'
      BY DEF RequestsOK
    <2>1. RequestOK(req'[b])
      BY <1>1 DEF IInv, RequestsOK
    <2>2. RequestOK(req[b])'
      BY <2>1, <1>1, SameOK, ZenonT(60)
    <2>3. QED
      BY <2>2
  <1>6. RowsHaveTasks' /\ OneActive' /\ RallyFitsArea' /\ ReportsOK'
    BY <1>1 DEF IInv, RowsHaveTasks, OneActive, Active, RallyFitsArea, ReportsOK, Clean
  <1>7. EffFollowsTask' /\ AckedIsCurrent' /\ ArrivedWhereAssigned'
    BY <1>1 DEF IInv, EffFollowsTask, AckedIsCurrent, ArrivedWhereAssigned, Clean
  <1>8. PhonesBehind'
    <2> SUFFICES ASSUME NEW k \in Members, phone'[k] # Nil
                 PROVE  LET c == phone'[k]
                            r == asg[c.inc][k]
                        IN  /\ status[c.inc] # "none"
                            /\ r # Nil
                            /\ Clean(c.inc, k) => /\ c.ver <= r.ver
                                                  /\ c.ver = r.ver => c.eff = r.eff
      BY <1>1 DEF PhonesBehind, Clean
    <2>1. CASE k = m
      <3>1. phone'[m] = [inc |-> i, ver |-> asg[i][m].ver, eff |-> asg[i][m].eff]
        BY <1>1 DEF IInv, TypeOK
      <3>2. asg[i][m].ver \in Nat /\ status[i] # "none"
        BY <1>1, <1>2 DEF Row, Active
      <3>3. QED
        BY <1>1, <2>1, <3>1, <3>2
    <2>2. CASE k # m
      <3>1. phone'[k] = phone[k]
        BY <1>1, <2>2 DEF IInv, TypeOK
      <3>2. QED
        BY <3>1 DEF IInv, PhonesBehind
    <2>3. QED
      BY <2>1, <2>2
  <1>9. QED
    BY <1>4, <1>5, <1>6, <1>7, <1>8 DEF IInv

(* An acknowledgement of what the phone shows: of the row's work if it is  *)
(* level with it, and if it is of this incident.                           *)
LEMMA Acks ==
  ASSUME IInv, NEW m \in Members, Ack(m)
  PROVE  IInv'
  <1>1. PICK i \in Incidents :
          /\ Active(i)
          /\ asg[i][m] # Nil
          /\ phone[m] # Nil
          /\ asg' = [asg EXCEPT ![i][m].ack = phone[m].ver, ![i][m].seen = phone[m].eff]
          /\ phone' = [phone EXCEPT ![m] = Nil]
          /\ staleRow' = IF phone[m].inc # i THEN staleRow \cup {<<i, m>>} ELSE staleRow
          /\ UNCHANGED <<status, task, plan, req, report, staleTask>>
    BY ZenonT(120) DEF Ack
  <1> DEFINE r == asg[i][m]
             c == phone[m]
             n == [r EXCEPT !.ack = c.ver, !.seen = c.eff]
  <1>2. r \in Row /\ c \in PhoneCopy
    BY <1>1 DEF IInv, TypeOK
  <1>3. asg' = [asg EXCEPT ![i][m] = n]
    BY <1>1, <1>2, ZenonT(120) DEF IInv, TypeOK, Row
  <1>4. /\ n \in Row
        /\ n.team = r.team /\ n.override = r.override /\ n.eff = r.eff /\ n.ver = r.ver
        /\ n.ack = c.ver /\ n.seen = c.eff /\ n.state = r.state /\ n.arrivedIn = r.arrivedIn
        /\ n.late = r.late
    <2>1. c.ver \in Nat /\ c.eff \in Work
      BY <1>2 DEF PhoneCopy
    <2>2. r \in Row
      BY <1>2
    <2> HIDE DEF r, c
    <2>3. QED
      BY <2>1, <2>2, ZenonT(120) DEF Row
  <1>5. staleRow' \in {staleRow, staleRow \cup {<<i, m>>}} /\ UNCHANGED <<status, task, plan, staleTask>>
    BY <1>1
  <1>6. RowIsRight(i, m, n)
    <2>1. task[i][n.team] # Nil
      BY <1>1, <1>4 DEF IInv, RowsHaveTasks
    <2>2. ASSUME <<i, m>> \notin staleRow'
          PROVE  /\ n.eff = Effective(n.override, task[i][n.team].work)
                 /\ n.ack <= n.ver
                 /\ n.ack = n.ver => n.seen = n.eff
                 /\ ~n.late => ArrivalHeld(n)
      <3>1. Clean(i, m) /\ c.inc = i
        BY <1>1, <2>2 DEF Clean
      <3>2. c.ver <= r.ver /\ (c.ver = r.ver => c.eff = r.eff)
        BY <1>1, <3>1 DEF IInv, PhonesBehind
      <3>3. ~n.late => ArrivalHeld(n)
        <4>1. ~r.late => ArrivalHeld(r)
          BY <3>1, ZenonT(60) DEF IInv, ArrivedWhereAssigned
        <4> HIDE DEF n, r
        <4>2. QED
          BY <1>4, <4>1 DEF ArrivalHeld
      <3>4. n.eff = Effective(n.override, task[i][n.team].work)
        BY <1>4, <3>1 DEF IInv, EffFollowsTask
      <3>5. QED
        BY <1>4, <3>2, <3>3, <3>4
    <2>3. asg[i][m].late => n.late
      BY <1>4, ZenonT(60)
    <2>4. n \in Row /\ n.team = asg[i][m].team
      BY <1>4
    <2>5. QED
      BY <2>1, <2>2, <2>3, <2>4, ZenonT(60) DEF RowIsRight
  <1>7. /\ asg' \in [Incidents -> [Members -> Row \cup {Nil}]]
        /\ asg'[i][m] = n
        /\ \A j \in Incidents, k \in Members : <<j, k>> # <<i, m>> => asg'[j][k] = asg[j][k]
        /\ staleRow' \subseteq Incidents \X Members
        /\ Persist /\ LateStays /\ RowsHaveTasks' /\ OneActive' /\ EffFollowsTask'
        /\ AckedIsCurrent' /\ ArrivedWhereAssigned' /\ RallyFitsArea'
    <2> HIDE DEF n, r, c
    <2>1. RowWritten(i, m, n)
      BY <1>3, <1>5, <1>6, RowWrites, ZenonT(120)
    <2>2. QED
      BY <2>1, ZenonT(120) DEF RowWritten
  <1>8. /\ phone' \in [Members -> PhoneCopy \cup {Nil}]
        /\ \A k \in Members : phone'[k] # Nil => k # m /\ phone'[k] = phone[k]
    BY <1>1 DEF IInv, TypeOK
  <1>9. PhonesBehind'
    <2> SUFFICES ASSUME NEW k \in Members, phone'[k] # Nil
                 PROVE  LET d == phone'[k]
                            s == asg'[d.inc][k]
                        IN  /\ status[d.inc] # "none"
                            /\ s # Nil
                            /\ <<d.inc, k>> \notin staleRow' =>
                                 d.ver <= s.ver /\ (d.ver = s.ver => d.eff = s.eff)
      BY <1>5 DEF PhonesBehind, Clean
    <2>1. k # m /\ phone'[k] = phone[k] /\ phone[k] \in PhoneCopy /\ phone[k].inc \in Incidents
      BY <1>8 DEF IInv, TypeOK, PhoneCopy
    <2>2. asg'[phone[k].inc][k] = asg[phone[k].inc][k]
      BY <1>7, <2>1
    <2>3. <<phone[k].inc, k>> \notin staleRow' => <<phone[k].inc, k>> \notin staleRow
      BY <1>5
    <2>4. QED
      BY <2>1, <2>2, <2>3 DEF IInv, PhonesBehind, Clean
  <1>10. TypeOK'
    <2>1. /\ staleRow' \subseteq Incidents \X Members
          /\ asg' \in [Incidents -> [Members -> Row \cup {Nil}]]
      BY <1>7
    <2>2. UNCHANGED <<status, task, plan, req, report, staleTask>>
      BY <1>1
    <2> HIDE DEF n, r, c
    <2>3. QED
      BY <1>8, <2>1, <2>2 DEF IInv, TypeOK
  <1>11. RequestsOK'
    BY <1>1, <1>7, RequestsStay DEF IInv
  <1>12. ReportsOK'
    <2>1. TypeOK /\ ReportsOK /\ report' = report
      BY <1>1 DEF IInv
    <2>2. QED
      BY <1>7, <2>1, ReportsStay
  <1>13. QED
    BY <1>7, <1>9, <1>10, <1>11, <1>12 DEF IInv

-----------------------------------------------------------------------------
(***************************************************************************)
(* The theorems                                                            *)
(***************************************************************************)
(* The invariant holds of the empty database.                              *)
LEMMA InitInv == Init => IInv
  <1> SUFFICES ASSUME Init PROVE IInv
    OBVIOUS
  <1>1. TypeOK
    BY IdleType DEF Init, TypeOK, Plan, NoPlan
  <1>2. RequestsOK
    BY IdleOK DEF Init, RequestsOK
  <1>3. RowsHaveTasks /\ OneActive /\ PhonesBehind /\ ReportsOK /\ RallyFitsArea
    BY DEF Init, RowsHaveTasks, OneActive, Active, PhonesBehind, ReportsOK, RallyFitsArea
  <1>4. EffFollowsTask /\ AckedIsCurrent /\ ArrivedWhereAssigned
    BY DEF Init, EffFollowsTask, AckedIsCurrent, ArrivedWhereAssigned, Clean
  <1>5. QED
    BY <1>1, <1>2, <1>3, <1>4 DEF IInv

(* It survives a step that changes nothing.                                *)
LEMMA StutterInv == IInv /\ UNCHANGED vars => IInv'
  <1> SUFFICES ASSUME IInv, UNCHANGED vars PROVE IInv'
    OBVIOUS
  <1>1. TypeOK' /\ RowsHaveTasks' /\ OneActive' /\ PhonesBehind' /\ ReportsOK' /\ RallyFitsArea'
    BY DEF vars, IInv, TypeOK, RowsHaveTasks, OneActive, Active, PhonesBehind, ReportsOK, Clean,
           RallyFitsArea
  <1>2. EffFollowsTask' /\ AckedIsCurrent' /\ ArrivedWhereAssigned'
    BY DEF vars, IInv, EffFollowsTask, AckedIsCurrent, ArrivedWhereAssigned, Clean
  <1>3. RequestsOK'
    BY DEF vars, IInv, RequestsOK, RequestOK, OpenRequestOK, TaskRequestOK, AddRequestOK,
       OverrideRequestOK, CloseRequestOK, PlanRequestOK, TaskPCs
  <1>4. QED
    BY <1>1, <1>2, <1>3 DEF IInv

(* It survives every step of an administrator's request.                   *)
LEMMA AdminInv ==
  ASSUME IInv, NEW a \in Admins, AdminStep(a)
  PROVE  IInv'
  <1>1. CASE \/ \E f \in OpenForms : OpenBegin(a, f)
             \/ \E t \in Teams : OpenResolve(a, t)
             \/ OpenPoints(a)
    BY <1>1, OpenReads
  <1>2. CASE OpenCommit(a)
    BY <1>2, OpenWrites
  <1>3. CASE \/ \E t \in Teams, w \in TaskForms : TaskBegin(a, t, w)
             \/ TaskResolve(a)
             \/ TaskPoints(a)
    BY <1>3, TaskReads
  <1>4. CASE TaskCommit(a)
    BY <1>4, TaskWrites
  <1>5. CASE \/ \E m \in Members, t \in Teams, o \in OverrideForms : AddBegin(a, m, t, o)
             \/ AddReadTask(a)
    BY <1>5, AddReads
  <1>6. CASE AddInsert(a)
    BY <1>6, AddWrites
  <1>7. CASE \/ \E m \in Members, o \in OverrideForms : OverrideBegin(a, m, o)
             \/ OverrideReadTask(a)
             \/ OverrideReadRow(a)
    BY <1>7, OverrideReads
  <1>8. CASE OverrideWrite(a)
    BY <1>8, OverrideWrites
  <1>9. CASE CloseBegin(a)
    BY <1>9, CloseReads
  <1>10. CASE CloseWrite(a)
    BY <1>10, CloseWrites
  <1>11. CASE \E f \in PlanForms : PlanSave(a, f)
    BY <1>11, PlanWrites
  <1>12. CASE \/ PlanActive(a)
              \/ \E t \in Teams : RefreshReadTask(a, t)
              \/ RefreshResolve(a)
              \/ RefreshPoints(a)
              \/ Abort(a)
    BY <1>12, PlanReads
  <1>13. CASE RefreshCommit(a)
    BY <1>13, RefreshWrites
  <1>14. QED
    BY <1>1, <1>2, <1>3, <1>4, <1>5, <1>6, <1>7, <1>8, <1>9, <1>10, <1>11, <1>12, <1>13
       DEF AdminStep, Serve

(* It is inductive.                                                        *)
LEMMA StepInv == IInv /\ [Next]_vars => IInv'
  <1> SUFFICES ASSUME IInv, [Next]_vars PROVE IInv'
    OBVIOUS
  <1>1. CASE \E a \in Admins : AdminStep(a)
    BY <1>1, AdminInv
  <1>2. CASE \E m \in Members, s \in Phases : TrackerJudge(m, s)
    BY <1>2, TrackerJudges, StoreAssumption
  <1>2a. CASE \E m \in Members : TrackerWrite(m)
    BY <1>2a, TrackerWrites
  <1>3. CASE \E m \in Phones : Fetch(m)
    BY <1>3, Fetches, StoreAssumption
  <1>4. CASE \E m \in Phones : Ack(m)
    BY <1>4, Acks, StoreAssumption
  <1>5. CASE UNCHANGED vars
    BY <1>5, StutterInv
  <1>6. QED
    BY <1>1, <1>2, <1>2a, <1>3, <1>4, <1>5 DEF Next

(* The inductive invariant holds of every run.                             *)
THEOREM Invariant == Spec => []IInv
  BY InitInv, StepInv, PTL DEF Spec

(* Every variable keeps its type, and every request in flight its own.     *)
THEOREM TypeCorrect == Spec => []TypeOK
  <1>1. IInv => TypeOK
    BY DEF IInv
  <1>2. QED
    BY <1>1, Invariant, PTL

(* Two administrators never have two incidents running (the unique index   *)
(* on status = 'active'), however their requests overlap.                  *)
THEOREM AtMostOneActive == Spec => []OneActive
  <1>1. IInv => OneActive
    BY DEF IInv
  <1>2. QED
    BY <1>1, Invariant, PTL

(* The stored effective values are those of the overrides and the team     *)
(* task wherever no write rested on an outdated reading.                   *)
THEOREM EffectiveValues == Spec => []EffFollowsTask
  <1>1. IInv => EffFollowsTask
    BY DEF IInv
  <1>2. QED
    BY <1>1, Invariant, PTL

(* Who is shown as having acknowledged the current version has seen the    *)
(* current work.                                                           *)
THEOREM AcknowledgedWork == Spec => []AckedIsCurrent
  <1>1. IInv => AckedIsCurrent
    BY DEF IInv
  <1>2. QED
    BY <1>1, Invariant, PTL

(* An arrival on record is one in the member's present area.               *)
THEOREM ArrivalArea == Spec => []ArrivedWhereAssigned
  <1>1. IInv => ArrivedWhereAssigned
    BY DEF IInv
  <1>2. QED
    BY <1>1, Invariant, PTL

(* A task's rally point and checkpoints belong to its area.                *)
THEOREM RallyArea == Spec => []RallyFitsArea
  <1>1. IInv => RallyFitsArea
    BY DEF IInv
  <1>2. QED
    BY <1>1, Invariant, PTL

-----------------------------------------------------------------------------
(***************************************************************************)
(* What a step does to one incident: the action properties                 *)
(***************************************************************************)
(* The steps of a request that read: they write no table but, in PlanSave, *)
(* the plans.                                                              *)
Reads(a) ==
  \/ \E f \in OpenForms : OpenBegin(a, f)
  \/ \E t \in Teams : OpenResolve(a, t)
  \/ OpenPoints(a)
  \/ \E t \in Teams, w \in TaskForms : TaskBegin(a, t, w)
  \/ TaskResolve(a)
  \/ TaskPoints(a)
  \/ \E m \in Members, t \in Teams, o \in OverrideForms : AddBegin(a, m, t, o)
  \/ AddReadTask(a)
  \/ \E m \in Members, o \in OverrideForms : OverrideBegin(a, m, o)
  \/ OverrideReadTask(a)
  \/ OverrideReadRow(a)
  \/ CloseBegin(a)
  \/ \E f \in PlanForms : PlanSave(a, f)
  \/ PlanActive(a)
  \/ \E t \in Teams : RefreshReadTask(a, t)
  \/ RefreshResolve(a)
  \/ RefreshPoints(a)
  \/ Abort(a)

(* They leave the tables and the record of stale writings alone.           *)
LEMMA ReadsOnly ==
  ASSUME NEW a \in Admins, Reads(a)
  PROVE  UNCHANGED <<status, task, asg, staleRow, staleTask>>
  <1>1. CASE \/ \E f \in OpenForms : OpenBegin(a, f)
             \/ \E t \in Teams : OpenResolve(a, t)
             \/ OpenPoints(a)
             \/ \E t \in Teams, w \in TaskForms : TaskBegin(a, t, w)
             \/ TaskResolve(a)
             \/ TaskPoints(a)
    BY <1>1, ZenonT(60) DEF OpenBegin, OpenResolve, OpenPoints, TaskBegin, TaskResolve,
       TaskPoints, Continue
  <1>2. CASE \/ \E m \in Members, t \in Teams, o \in OverrideForms : AddBegin(a, m, t, o)
             \/ AddReadTask(a)
             \/ \E m \in Members, o \in OverrideForms : OverrideBegin(a, m, o)
             \/ OverrideReadTask(a)
             \/ OverrideReadRow(a)
    BY <1>2, ZenonT(60) DEF AddBegin, AddReadTask, OverrideBegin, OverrideReadTask,
       OverrideReadRow, Continue
  <1>3. CASE \/ CloseBegin(a)
             \/ \E f \in PlanForms : PlanSave(a, f)
             \/ \E t \in Teams : RefreshReadTask(a, t)
             \/ RefreshResolve(a)
             \/ RefreshPoints(a)
             \/ Abort(a)
    BY <1>3, ZenonT(60) DEF CloseBegin, PlanSave, RefreshReadTask, RefreshResolve, RefreshPoints,
       Abort, Continue
  <1>4. CASE PlanActive(a)
    BY <1>4, ZenonT(60) DEF PlanActive, Continue
  <1>5. QED
    BY <1>1, <1>2, <1>3, <1>4 DEF Reads

(* An administrator's step reads, or is one of the six that write.         *)
LEMMA StepKinds ==
  ASSUME NEW a \in Admins, AdminStep(a)
  PROVE  \/ Reads(a) \/ OpenCommit(a) \/ TaskCommit(a) \/ AddInsert(a)
         \/ OverrideWrite(a) \/ CloseWrite(a) \/ RefreshCommit(a)
  BY ZenonT(60) DEF AdminStep, Serve, Reads

(* A step writes the tables of one incident, opened by then, or of none.   *)
Touches(i) ==
  /\ status'[i] # "none"
  /\ \A j \in Incidents \ {i} :
       status'[j] = status[j] /\ task'[j] = task[j] /\ asg'[j] = asg[j]
NoTables == UNCHANGED <<status, task, asg>>

(* Every step of an administrator is of this kind ...                      *)
LEMMA ServeTouches ==
  ASSUME IInv, NEW a \in Admins, AdminStep(a)
  PROVE  NoTables \/ \E i \in Incidents : Touches(i)
  <1> DEFINE i == req[a].inc
  <1>1. req[a] \in Request /\ RequestOK(req[a])
    BY DEF IInv, TypeOK, RequestsOK
  <1>2. i # Nil => i \in Incidents /\ status[i] # "none"
    BY <1>1 DEF Request, RequestOK
  <1>3. CASE OpenCommit(a)
    <2>1. CASE IndexRefuses
      BY <1>3, <2>1 DEF OpenCommit, NoTables
    <2>2. CASE ~IndexRefuses
      <3> DEFINE f == req[a].open
      <3>1. PICK j \in Incidents :
            /\ status' = [status EXCEPT ![j] = "active"]
            /\ task' = [task EXCEPT ![j] = [t \in Teams |->
                 IF f.tasks[t] = Nil THEN Nil
                 ELSE [work |-> f.tasks[t], snap |-> req[a].snaps[t], version |-> 1]]]
            /\ asg' = [asg EXCEPT ![j] = [m \in Members |->
                 IF Roster[m] = Nil THEN Nil
                 ELSE IF f.tasks[Roster[m]] = Nil THEN Nil
                 ELSE NewRow(Roster[m], f.overrides[m], f.tasks[Roster[m]])]]
        BY <1>3, <2>2 DEF OpenCommit
      <3>2. Touches(j)
        BY <3>1 DEF Touches, IInv, TypeOK
      <3>3. QED
        BY <3>2
    <2>3. QED
      BY <2>1, <2>2
  <1>4. CASE TaskCommit(a)
    <2>1. i # Nil
      BY <1>1, <1>4 DEF TaskCommit, RequestOK, TaskRequestOK, TaskPCs
    <2>2. Touches(i)
      BY <1>2, <1>4, <2>1 DEF TaskCommit, Touches, IInv, TypeOK
    <2>3. QED
      BY <1>2, <2>1, <2>2
  <1>5. CASE AddInsert(a)
    <2>1. i # Nil
      BY <1>1, <1>5 DEF AddInsert, RequestOK, AddRequestOK
    <2>2. Touches(i)
      BY <1>2, <1>5, <2>1 DEF AddInsert, Touches, IInv, TypeOK
    <2>3. QED
      BY <1>2, <2>1, <2>2
  <1>6. CASE OverrideWrite(a)
    <2>1. i # Nil
      BY <1>1, <1>6 DEF OverrideWrite, RequestOK, OverrideRequestOK
    <2>2. Touches(i)
      BY <1>2, <1>6, <2>1 DEF OverrideWrite, Touches, IInv, TypeOK
    <2>3. QED
      BY <1>2, <2>1, <2>2
  <1>7. CASE CloseWrite(a)
    <2>1. i # Nil
      BY <1>1, <1>7 DEF CloseWrite, RequestOK, CloseRequestOK
    <2>2. Touches(i)
      BY <1>2, <1>7, <2>1 DEF CloseWrite, Touches, IInv, TypeOK
    <2>3. QED
      BY <1>2, <2>1, <2>2
  <1>8. CASE RefreshCommit(a)
    <2>1. i # Nil
      <3>1. req[a].pc = "plan_tx"
        BY <1>8, ZenonT(60) DEF RefreshCommit
      <3>2. QED
        BY <1>1, <3>1, ZenonT(60) DEF RequestOK, PlanRequestOK
    <2>2. Touches(i)
      <3> DEFINE tt == task[i][req[a].team]
                 nt == [tt EXCEPT !.snap = req[a].snaps[req[a].team], !.version = @ + 1]
                 rows == [m \in Members |->
                            IF m \in TeamRows(i, req[a].team) /\ asg[i][m].override.area = Nil
                            THEN [asg[i][m] EXCEPT !.ver = @ + 1] ELSE asg[i][m]]
      <3>1. /\ task' = [task EXCEPT ![i][req[a].team] = nt]
            /\ asg' = [asg EXCEPT ![i] = rows] /\ status' = status
        BY <1>8, ZenonT(60) DEF RefreshCommit
      <3> HIDE DEF tt, nt, rows, i
      <3>2. QED
        BY <1>2, <2>1, <3>1 DEF Touches, IInv, TypeOK
    <2>3. QED
      BY <1>2, <2>1, <2>2
  <1>9. CASE Reads(a)
    BY <1>9, ReadsOnly DEF NoTables
  <1>10. QED
    BY <1>3, <1>4, <1>5, <1>6, <1>7, <1>8, <1>9, StepKinds

(* ... and of the tracker and the phones.                                  *)
LEMMA StepTouches ==
  ASSUME IInv, [Next]_vars
  PROVE  NoTables \/ \E i \in Incidents : Touches(i)
  <1>1. CASE \E a \in Admins : AdminStep(a)
    BY <1>1, ServeTouches
  <1>2. CASE \E m \in Members : TrackerWrite(m)
    <2>1. PICK m \in Members : TrackerWrite(m)
      BY <1>2
    <2> DEFINE i == report[m].inc
    <2>2. PICK n :
            /\ report[m] # Nil
            /\ asg' = [asg EXCEPT ![i][m] = n]
            /\ UNCHANGED <<status, task>>
      BY <2>1, ZenonT(60) DEF TrackerWrite
    <2>3. i \in Incidents /\ status[i] # "none"
      BY <2>2 DEF IInv, TypeOK, ReportsOK, Report
    <2> HIDE DEF i
    <2>4. Touches(i)
      BY <2>2, <2>3 DEF Touches, IInv, TypeOK
    <2>5. QED
      BY <2>3, <2>4
  <1>3. CASE \/ \E m \in Phones : Fetch(m)
             \/ \E m \in Members, s \in Phases : TrackerJudge(m, s)
    BY <1>3, ZenonT(60) DEF Fetch, TrackerJudge, NoTables
  <1>4. CASE \E m \in Phones : Ack(m)
    <2>1. PICK m \in Phones : Ack(m)
      BY <1>4
    <2>2. PICK i \in Incidents :
            /\ Active(i)
            /\ asg' = [asg EXCEPT ![i][m].ack = phone[m].ver, ![i][m].seen = phone[m].eff]
            /\ UNCHANGED <<status, task>>
      BY <2>1, ZenonT(60) DEF Ack
    <2>3. Touches(i)
      BY <2>2 DEF Touches, Active, IInv, TypeOK
    <2>4. QED
      BY <2>3
  <1>5. CASE UNCHANGED vars
    BY <1>5 DEF vars, NoTables
  <1>6. QED
    BY <1>1, <1>2, <1>3, <1>4, <1>5 DEF Next

(* So nothing is written for an incident before it is opened.              *)
LEMMA UnopenedKept ==
  ASSUME IInv, Unopened, [Next]_vars
  PROVE  Unopened'
  <1>1. CASE NoTables
    BY <1>1 DEF NoTables, Unopened
  <1>2. CASE \E i \in Incidents : Touches(i)
    BY <1>2 DEF Touches, Unopened
  <1>3. QED
    BY <1>1, <1>2, StepTouches

(* How a request may move on: to the transaction of a refresh only with    *)
(* points that differ, for no more teams and for the same member, and to a *)
(* new snapshot only by resolving a plan.                                  *)
MoveOK(q, r) ==
  /\ RefreshDue(r) /\ Purpose(r) /\ Narrows(q, r)
  /\ \A t \in Teams : r.snaps[t] \notin {q.snaps[t], Nil} /\ q.half = plan[t]
                      => FromPlan(plan[t], r.snaps[t])

(* Resolving gives the plan's points, or the defaults.                     *)
LEMMA ResolveFrom == \A p, ar : FromPlan(p, Resolve(p, p, ar))
  BY DEF FromPlan, Resolve

(* A request may end, or begin, ...                                        *)
LEMMA MoveIdle == \A q : MoveOK(q, Idle)
  BY DEF MoveOK, RefreshDue, Purpose, Narrows, Idle, NoSnaps

LEMMA MoveBegin ==
  ASSUME NEW q, NEW r, q.pc = "idle", r.pc # "plan_tx", r.snaps = NoSnaps, Purpose(r)
  PROVE  MoveOK(q, r)
  BY DEF MoveOK, RefreshDue, Narrows, NoSnaps

(* ... or go on with what it was asked for, or less.                       *)
GoesOn(q, r) ==
  /\ r.member = q.member /\ r.inc = q.inc /\ r.todo \subseteq q.todo
  /\ r.pc \in TaskPCs <=> q.pc \in TaskPCs
  /\ q.pc \in TaskPCs => r.team = q.team
  /\ q.pc \in MemberPCs => r.pc \in MemberPCs
  /\ r.pc # "plan_active"
LEMMA MoveOn ==
  ASSUME NEW q, NEW r, Purpose(q), GoesOn(q, r), r.pc # "plan_tx",
         r.snaps \in {NoSnaps, q.snaps}
  PROVE  MoveOK(q, r)
  <1>1. Narrows(q, r)
    BY DEF GoesOn, Narrows, Reach
  <1>2. Purpose(r)
    BY DEF GoesOn, Purpose
  <1>3. QED
    BY <1>1, <1>2 DEF MoveOK, RefreshDue, NoSnaps

(* The second statement of a reading of a plan adds a snapshot from it.    *)
LEMMA MovePoints ==
  ASSUME TypeOK, NEW q \in Request, NEW t \in Teams, NEW ar \in Areas, q.half # Nil,
         Purpose(q), NEW r, GoesOn(q, r), RefreshDue(r),
         r.snaps = ReadPoints(q, t, ar).snaps
  PROVE  MoveOK(q, r)
  <1>1. Narrows(q, r) /\ Purpose(r)
    BY DEF GoesOn, Narrows, Reach, Purpose
  <1> DEFINE s == Resolve(q.half, plan[t], ar)
  <1>2. r.snaps = [q.snaps EXCEPT ![t] = s]
    <2>1. ReadPoints(q, t, ar).snaps = [q.snaps EXCEPT ![t] = s]
      BY DEF ReadPoints, Request
    <2>2. QED
      BY <2>1, ZenonT(60)
  <1>3. q.half = plan[t] => FromPlan(plan[t], s)
    BY ResolveFrom, ZenonT(60)
  <1> HIDE DEF s
  <1>4. \A u \in Teams : r.snaps[u] = IF u = t THEN s ELSE q.snaps[u]
    BY <1>2 DEF Request
  <1>5. \A u \in Teams : r.snaps[u] \notin {q.snaps[u], Nil} /\ q.half = plan[u]
                        => FromPlan(plan[u], r.snaps[u])
    BY <1>3, <1>4
  <1>6. QED
    BY <1>1, <1>5, ZenonT(60) DEF MoveOK

(* A refresh that has treated a team goes on to the others, or ends.       *)
LEMMA MoveNext ==
  ASSUME NEW q \in Request, NEW t \in Teams, Purpose(q),
         q.pc \in {"plan_task", "plan_points", "plan_tx"}
  PROVE  MoveOK(q, NextTeam(q, t))
  <1>1. CASE q.todo = {t}
    BY <1>1, MoveIdle DEF NextTeam
  <1>2. CASE q.todo # {t}
    <2> DEFINE r == [q EXCEPT !.pc = "plan_task", !.team = Nil, !.task = Nil, !.half = Nil,
                             !.snaps = NoSnaps, !.torn = {}, !.todo = q.todo \ {t}]
    <2>1. NextTeam(q, t) = r
      BY <1>2 DEF NextTeam
    <2>2. /\ r.pc = "plan_task" /\ r.member = q.member /\ r.inc = q.inc
          /\ r.todo = q.todo \ {t} /\ r.snaps = NoSnaps
      BY DEF Request
    <2> HIDE DEF r
    <2>3. GoesOn(q, r)
      BY <2>2 DEF GoesOn, TaskPCs, MemberPCs
    <2>4. QED
      BY <2>1, <2>2, <2>3, MoveOn
  <1>3. QED
    BY <1>1, <1>2

(* Every step moves one request on, in one of these ways.                  *)
LEMMA RequestMoves ==
  ASSUME SInv, NEW a \in Admins, AdminStep(a)
  PROVE  /\ MoveOK(req[a], req'[a])
         /\ \A b \in Admins \ {a} : req'[b] = req[b]
  <1> DEFINE q == req[a]
             Moves(r) == req' = [req EXCEPT ![a] = r]
             Goal == \E r : Moves(r) /\ MoveOK(q, r)
  <1>a. \A r : Moves(r) /\ MoveOK(q, r) => Goal
    <2> HIDE DEF q, Moves
    <2>1. QED
      BY ZenonT(60)
  <1> HIDE DEF Goal
  <1>b. SUFFICES Goal
    <2>1. PICK r : Moves(r) /\ MoveOK(q, r)
      BY ZenonT(60) DEF Goal
    <2>2. QED
      BY <2>1 DEF SInv, IInv, TypeOK
  <1>1. q \in Request /\ RequestOK(q) /\ Purpose(q) /\ TypeOK
    BY DEF SInv, IInv, TypeOK, RequestsOK
  <1>2. \A r : Continue(a, r) => Moves(r)
    BY ZenonT(60) DEF Continue
  <1>3. Moves(Idle) => Goal
    <2> HIDE DEF Moves, q
    <2>1. QED
      BY <1>a, MoveIdle
  <1>4. CASE \/ OpenCommit(a) \/ TaskCommit(a) \/ AddInsert(a) \/ OverrideWrite(a)
             \/ CloseWrite(a) \/ Abort(a)
    <2>1. Moves(Idle)
      BY <1>4, ZenonT(60) DEF OpenCommit, TaskCommit, AddInsert, OverrideWrite, CloseWrite,
         Finish, Abort, Continue
    <2>2. QED
      BY <1>3, <2>1
  <1>5. CASE RefreshCommit(a)
    <2>1. Moves(NextTeam(q, q.team)) /\ q.pc = "plan_tx"
      BY <1>5, ZenonT(60) DEF RefreshCommit
    <2>2. q.team \in Teams
      BY <1>1, <2>1, ZenonT(60) DEF RequestOK, PlanRequestOK, Request
    <2> HIDE DEF Moves, q
    <2>3. MoveOK(q, NextTeam(q, q.team))
      BY <1>1, <2>1, <2>2, MoveNext
    <2>4. QED
      BY <1>a, <2>1, <2>3
  <1>6. CASE \E f \in OpenForms : OpenBegin(a, f)
    <2>1. PICK f \in OpenForms : OpenBegin(a, f)
      BY <1>6
    <2> DEFINE r == [Idle EXCEPT !.pc = "open_resolve", !.open = f, !.todo = Listed(f.tasks)]
    <2>2. Moves(r) /\ q.pc = "idle"
      BY <2>1, ZenonT(60) DEF OpenBegin, Continue
    <2>3. r.pc = "open_resolve" /\ r.snaps = NoSnaps /\ r.member = Nil
      BY DEF Idle
    <2> HIDE DEF r, q, Moves
    <2>4. MoveOK(q, r)
      BY <2>2, <2>3, MoveBegin DEF Purpose
    <2>5. QED
      BY <1>a, <2>2, <2>4
  <1>7. CASE \E t \in Teams, w \in TaskForms : TaskBegin(a, t, w)
    <2>1. PICK t \in Teams, w \in TaskForms : TaskBegin(a, t, w)
      BY <1>7
    <2>2. PICK i \in Incidents :
            Continue(a, [Idle EXCEPT !.pc = "task_resolve", !.inc = i, !.team = t, !.ask = w])
      BY <2>1, ZenonT(60) DEF TaskBegin
    <2> DEFINE r == [Idle EXCEPT !.pc = "task_resolve", !.inc = i, !.team = t, !.ask = w]
    <2>3. Moves(r) /\ q.pc = "idle"
      BY <2>1, <2>2, ZenonT(60) DEF TaskBegin, Continue
    <2>4. r.pc = "task_resolve" /\ r.snaps = NoSnaps /\ r.member = Nil
      BY DEF Idle
    <2> HIDE DEF r, q, Moves
    <2>5. MoveOK(q, r)
      BY <2>3, <2>4, MoveBegin DEF Purpose
    <2>6. QED
      BY <1>a, <2>3, <2>5
  <1>8. CASE \E m \in Members, t \in Teams, o \in OverrideForms : AddBegin(a, m, t, o)
    <2>1. PICK m \in Members, t \in Teams, o \in OverrideForms : AddBegin(a, m, t, o)
      BY <1>8
    <2>2. PICK i \in Incidents :
            Continue(a, [Idle EXCEPT !.pc = "add_task", !.inc = i, !.member = m,
                                     !.team = t, !.ask = o])
      BY <2>1, ZenonT(60) DEF AddBegin
    <2> DEFINE r == [Idle EXCEPT !.pc = "add_task", !.inc = i, !.member = m,
                                 !.team = t, !.ask = o]
    <2>3. Moves(r) /\ q.pc = "idle"
      BY <2>1, <2>2, ZenonT(60) DEF AddBegin, Continue
    <2>4. r.pc = "add_task" /\ r.snaps = NoSnaps
      BY DEF Idle
    <2> HIDE DEF r, q, Moves
    <2>5. MoveOK(q, r)
      BY <2>3, <2>4, MoveBegin DEF Purpose, MemberPCs
    <2>6. QED
      BY <1>a, <2>3, <2>5
  <1>9. CASE \E m \in Members, o \in OverrideForms : OverrideBegin(a, m, o)
    <2>1. PICK m \in Members, o \in OverrideForms : OverrideBegin(a, m, o)
      BY <1>9
    <2>2. PICK i \in Incidents :
            Continue(a, [Idle EXCEPT !.pc = "over_task", !.inc = i, !.member = m, !.ask = o])
      BY <2>1, ZenonT(60) DEF OverrideBegin
    <2> DEFINE r == [Idle EXCEPT !.pc = "over_task", !.inc = i, !.member = m, !.ask = o]
    <2>3. Moves(r) /\ q.pc = "idle"
      BY <2>1, <2>2, ZenonT(60) DEF OverrideBegin, Continue
    <2>4. r.pc = "over_task" /\ r.snaps = NoSnaps
      BY DEF Idle
    <2> HIDE DEF r, q, Moves
    <2>5. MoveOK(q, r)
      BY <2>3, <2>4, MoveBegin DEF Purpose, MemberPCs
    <2>6. QED
      BY <1>a, <2>3, <2>5
  <1>10. CASE CloseBegin(a)
    <2>2. PICK i \in Incidents :
            Continue(a, [Idle EXCEPT !.pc = "close_write", !.inc = i])
      BY <1>10, ZenonT(60) DEF CloseBegin
    <2> DEFINE r == [Idle EXCEPT !.pc = "close_write", !.inc = i]
    <2>3. Moves(r) /\ q.pc = "idle"
      BY <1>10, <2>2, ZenonT(60) DEF CloseBegin, Continue
    <2>4. r.pc = "close_write" /\ r.snaps = NoSnaps /\ r.member = Nil
      BY DEF Idle
    <2> HIDE DEF r, q, Moves
    <2>5. MoveOK(q, r)
      BY <2>3, <2>4, MoveBegin DEF Purpose
    <2>6. QED
      BY <1>a, <2>3, <2>5
  <1>11. CASE \E f \in PlanForms : PlanSave(a, f)
    <2>1. PICK f \in PlanForms : PlanSave(a, f)
      BY <1>11
    <2> DEFINE r == [Idle EXCEPT !.pc = "plan_active", !.todo = Listed(f)]
    <2>3. Moves(r) /\ q.pc = "idle"
      BY <2>1, ZenonT(60) DEF PlanSave
    <2>4. r.pc = "plan_active" /\ r.snaps = NoSnaps /\ r.member = Nil /\ r.inc = Nil
      BY DEF Idle
    <2> HIDE DEF r, q, Moves
    <2>5. MoveOK(q, r)
      BY <2>3, <2>4, MoveBegin DEF Purpose
    <2>6. QED
      BY <1>a, <2>3, <2>5
  <1>12. CASE \E t \in Teams : OpenResolve(a, t)
    <2>1. PICK t \in Teams : OpenResolve(a, t)
      BY <1>12
    <2> DEFINE r == ReadPlan(q, t, "open_points")
    <2>2. Moves(r) /\ q.pc = "open_resolve"
      BY <2>1, ZenonT(60) DEF OpenResolve, Continue
    <2> HIDE DEF q, Moves
    <2>3. "open_points" \in PCs
      BY DEF PCs
    <2>4. /\ r.pc = "open_points" /\ r.inc = q.inc /\ r.member = q.member
          /\ r.todo = q.todo /\ r.snaps = q.snaps
      BY <1>1, <2>3, ReadPlanType
    <2> HIDE DEF r
    <2>5. GoesOn(q, r)
      BY <2>2, <2>4 DEF GoesOn, TaskPCs, MemberPCs
    <2>6. MoveOK(q, r)
      BY <1>1, <2>2, <2>4, <2>5, MoveOn
    <2>7. QED
      BY <1>a, <2>2, <2>6
  <1>13. CASE TaskResolve(a)
    <2> DEFINE r == ReadPlan(q, q.team, "task_points")
    <2>2. Moves(r) /\ q.pc = "task_resolve"
      BY <1>13, ZenonT(60) DEF TaskResolve, Continue
    <2> HIDE DEF q, Moves
    <2>3. "task_points" \in PCs /\ q.team \in Teams
      BY <1>1, <2>2 DEF PCs, TaskPCs, RequestOK, TaskRequestOK, Request
    <2>4. /\ r.pc = "task_points" /\ r.inc = q.inc /\ r.member = q.member
          /\ r.todo = q.todo /\ r.snaps = q.snaps /\ r.team = q.team
      BY <1>1, <2>3, ReadPlanType
    <2> HIDE DEF r
    <2>5. GoesOn(q, r)
      BY <2>2, <2>4 DEF GoesOn, TaskPCs, MemberPCs
    <2>6. MoveOK(q, r)
      BY <1>1, <2>2, <2>4, <2>5, MoveOn
    <2>7. QED
      BY <1>a, <2>2, <2>6
  <1>14. CASE RefreshResolve(a)
    <2> DEFINE r == ReadPlan(q, q.team, "plan_points")
    <2>2. Moves(r) /\ q.pc = "plan_resolve"
      BY <1>14, ZenonT(60) DEF RefreshResolve, Continue
    <2> HIDE DEF q, Moves
    <2>3. "plan_points" \in PCs /\ q.team \in Teams
      BY <1>1, <2>2 DEF PCs, RequestOK, PlanRequestOK, Request
    <2>4. /\ r.pc = "plan_points" /\ r.inc = q.inc /\ r.member = q.member
          /\ r.todo = q.todo /\ r.snaps = q.snaps
      BY <1>1, <2>3, ReadPlanType
    <2> HIDE DEF r
    <2>5. GoesOn(q, r)
      BY <2>2, <2>4 DEF GoesOn, TaskPCs, MemberPCs
    <2>6. MoveOK(q, r)
      BY <1>1, <2>2, <2>4, <2>5, MoveOn
    <2>7. QED
      BY <1>a, <2>2, <2>6
  <1>15. CASE OpenPoints(a)
    <2> DEFINE t  == q.team
               ar == q.open.tasks[t].area
               p  == ReadPoints(q, t, ar)
               r  == [p EXCEPT !.pc = "open_resolve", !.team = Nil, !.todo = @ \ {t}]
    <2>1. Moves(r) /\ q.pc = "open_points"
      BY <1>15, ZenonT(60) DEF OpenPoints, Continue
    <2> HIDE DEF Moves, q
    <2>2. t \in Teams /\ q.half # Nil /\ ar \in Areas
      <3>1. /\ q.open \in OpenForms /\ t \in q.todo /\ q.half # Nil
            /\ \A u \in q.todo : q.open.tasks[u] # Nil
        BY <1>1, <2>1 DEF RequestOK, OpenRequestOK, Request
      <3>2. t \in Teams /\ q.open.tasks \in [Teams -> Work \cup {Nil}]
        BY <1>1, <3>1, StoreAssumption DEF Request
      <3>3. q.open.tasks[t] \in Work
        BY <3>1, <3>2
      <3>4. QED
        BY <3>1, <3>2, <3>3 DEF Work
    <2> HIDE DEF p, t, ar
    <2>3. p = ReadPoints(q, t, ar)
      BY DEF p
    <2>4. /\ p \in Request
          /\ p.inc = q.inc /\ p.member = q.member /\ p.todo = q.todo
      BY <1>1, <2>2, <2>3, ReadPointsType
    <2>5. /\ r.pc = "open_resolve" /\ r.inc = p.inc /\ r.member = p.member
          /\ r.todo = p.todo \ {t} /\ r.snaps = p.snaps
      BY <2>4 DEF Request
    <2> HIDE DEF r
    <2>6. GoesOn(q, r) /\ RefreshDue(r)
      BY <2>1, <2>4, <2>5 DEF GoesOn, TaskPCs, MemberPCs, RefreshDue
    <2>7. MoveOK(q, r)
      BY <1>1, <2>2, <2>3, <2>5, <2>6, MovePoints
    <2>8. QED
      BY <1>a, <2>1, <2>7
  <1>16. CASE TaskPoints(a)
    <2> DEFINE t  == q.team
               ar == q.ask.area
               p  == ReadPoints(q, t, ar)
               r  == [p EXCEPT !.pc = "task_tx"]
    <2>1. Moves(r) /\ q.pc = "task_points"
      BY <1>16, ZenonT(60) DEF TaskPoints, Continue
    <2> HIDE DEF Moves, q
    <2>2. t \in Teams /\ q.half # Nil /\ ar \in Areas
      BY <1>1, <2>1, StoreAssumption DEF RequestOK, TaskRequestOK, TaskPCs, Request, Work
    <2> HIDE DEF p, t, ar
    <2>3. p = ReadPoints(q, t, ar) /\ t = q.team
      BY DEF p, t
    <2>4. /\ p \in Request /\ p.team = q.team
          /\ p.inc = q.inc /\ p.member = q.member /\ p.todo = q.todo
      BY <1>1, <2>2, <2>3, ReadPointsType
    <2>5. /\ r.pc = "task_tx" /\ r.inc = p.inc /\ r.member = p.member
          /\ r.todo = p.todo /\ r.snaps = p.snaps /\ r.team = p.team
      BY <2>4 DEF Request
    <2> HIDE DEF r
    <2>6. GoesOn(q, r) /\ RefreshDue(r)
      BY <2>1, <2>4, <2>5 DEF GoesOn, TaskPCs, MemberPCs, RefreshDue
    <2>7. MoveOK(q, r)
      BY <1>1, <2>2, <2>3, <2>5, <2>6, MovePoints
    <2>8. QED
      BY <1>a, <2>1, <2>7
  <1>17. CASE RefreshPoints(a)
    <2> DEFINE t  == q.team
               ar == q.task.work.area
               p  == ReadPoints(q, t, ar)
               r  == [p EXCEPT !.pc = "plan_tx"]
    <2>1. /\ Moves(IF p.snaps[t] = q.task.snap THEN NextTeam(q, t) ELSE r)
          /\ q.pc = "plan_points"
      BY <1>17, ZenonT(60) DEF RefreshPoints, Continue
    <2> HIDE DEF Moves, q
    <2>2. t \in Teams /\ q.half # Nil /\ ar \in Areas
      <3>1. q.task \in TaskReading
        BY <1>1, <2>1 DEF RequestOK, PlanRequestOK, Request
      <3>2. QED
        BY <1>1, <2>1, <3>1 DEF RequestOK, PlanRequestOK, Request, TaskReading, Work
    <2> HIDE DEF p, t, ar
    <2>3. p = ReadPoints(q, t, ar) /\ t = q.team
      BY DEF p, t
    <2>4. /\ p \in Request /\ p.task = q.task /\ p.team = t
          /\ p.inc = q.inc /\ p.member = q.member /\ p.todo = q.todo
      BY <1>1, <2>2, <2>3, ReadPointsType
    <2>5. /\ r.pc = "plan_tx" /\ r.inc = p.inc /\ r.member = p.member
          /\ r.todo = p.todo /\ r.snaps = p.snaps /\ r.task = p.task /\ r.team = p.team
      BY <2>4 DEF Request
    <2> HIDE DEF r
    <2>6. CASE p.snaps[t] = q.task.snap
      <3>1. Moves(NextTeam(q, t))
        BY <2>1, <2>6
      <3>2. MoveOK(q, NextTeam(q, t))
        BY <1>1, <2>1, <2>2, MoveNext
      <3>3. QED
        BY <1>a, <3>1, <3>2
    <2>7. CASE p.snaps[t] # q.task.snap
      <3>1. Moves(r)
        BY <2>1, <2>7
      <3>2. GoesOn(q, r) /\ RefreshDue(r)
        BY <2>1, <2>4, <2>5, <2>7 DEF GoesOn, TaskPCs, MemberPCs, RefreshDue
      <3>3. MoveOK(q, r)
        BY <1>1, <2>2, <2>3, <2>5, <3>2, MovePoints
      <3>4. QED
        BY <1>a, <3>1, <3>3
    <2>8. QED
      BY <2>6, <2>7
  <1>18. CASE AddReadTask(a)
    <2> DEFINE tt == task[q.inc][q.team]
               k  == TaskAsRead(tt)
               r  == [q EXCEPT !.pc = "add_insert", !.task = k]
    <2>1. Moves(IF tt = Nil THEN Idle ELSE r) /\ q.pc = "add_task"
      BY <1>18, ZenonT(60) DEF AddReadTask, Continue
    <2> HIDE DEF Moves, q, tt, k
    <2>2. /\ r.pc = "add_insert" /\ r.member = q.member /\ r.inc = q.inc /\ r.todo = q.todo
          /\ r.snaps = q.snaps
      BY <1>1 DEF Request
    <2> HIDE DEF r
    <2>3. GoesOn(q, r)
      BY <2>1, <2>2 DEF GoesOn, TaskPCs, MemberPCs
    <2>4. MoveOK(q, r)
      BY <1>1, <2>2, <2>3, MoveOn
    <2>5. QED
      BY <1>3, <1>a, <2>1, <2>4
  <1>19. CASE OverrideReadTask(a)
    <2> DEFINE w == asg[q.inc][q.member]
               k == TaskAsRead(task[q.inc][w.team])
               r == [q EXCEPT !.pc = "over_row", !.team = w.team, !.task = k]
    <2>1. Moves(IF w = Nil THEN Idle ELSE r) /\ q.pc = "over_task"
      BY <1>19, ZenonT(60) DEF OverrideReadTask, Continue
    <2> HIDE DEF Moves, q, w, k
    <2>2. /\ r.pc = "over_row" /\ r.member = q.member /\ r.inc = q.inc /\ r.todo = q.todo
          /\ r.snaps = q.snaps
      BY <1>1 DEF Request
    <2> HIDE DEF r
    <2>3. GoesOn(q, r)
      BY <2>1, <2>2 DEF GoesOn, TaskPCs, MemberPCs
    <2>4. MoveOK(q, r)
      BY <1>1, <2>2, <2>3, MoveOn
    <2>5. QED
      BY <1>3, <1>a, <2>1, <2>4
  <1>20. CASE OverrideReadRow(a)
    <2> DEFINE k == RowAsRead(asg[q.inc][q.member])
               r == [q EXCEPT !.pc = "over_write", !.row = k]
    <2>1. Moves(r) /\ q.pc = "over_row"
      BY <1>20, ZenonT(60) DEF OverrideReadRow, Continue
    <2> HIDE DEF Moves, q, k
    <2>2. /\ r.pc = "over_write" /\ r.member = q.member /\ r.inc = q.inc /\ r.todo = q.todo
          /\ r.snaps = q.snaps
      BY <1>1 DEF Request
    <2> HIDE DEF r
    <2>3. GoesOn(q, r)
      BY <2>1, <2>2 DEF GoesOn, TaskPCs, MemberPCs
    <2>4. MoveOK(q, r)
      BY <1>1, <2>1, <2>2, <2>3, MoveOn
    <2>5. QED
      BY <1>a, <2>1, <2>4
  <1>21. CASE PlanActive(a)
    <2>1. CASE \E i \in Incidents : Active(i)
      <3>1. PICK i \in Incidents : Continue(a, [q EXCEPT !.pc = "plan_task", !.inc = i])
        BY <1>21, <2>1, ZenonT(60) DEF PlanActive
      <3> DEFINE r == [q EXCEPT !.pc = "plan_task", !.inc = i]
      <3>2. Moves(r) /\ q.pc = "plan_active"
        BY <1>21, <3>1, ZenonT(60) DEF PlanActive, Continue
      <3> HIDE DEF Moves, q
      <3>3. /\ r.pc = "plan_task" /\ r.member = q.member /\ r.todo = q.todo
            /\ r.snaps = q.snaps
        BY <1>1 DEF Request
      <3>4. q.inc = Nil /\ q.member = Nil
        BY <1>1, <3>2 DEF Purpose, MemberPCs
      <3> HIDE DEF r
      <3>5. Narrows(q, r) /\ Purpose(r) /\ RefreshDue(r)
        BY <3>2, <3>3, <3>4 DEF Narrows, Reach, TaskPCs, Purpose, RefreshDue
      <3>6. MoveOK(q, r)
        BY <3>3, <3>5 DEF MoveOK
      <3>7. QED
        BY <1>a, <3>2, <3>6
    <2>2. CASE ~ \E i \in Incidents : Active(i)
      <3>1. Moves(Idle)
        BY <1>21, <2>2, ZenonT(60) DEF PlanActive, Continue
      <3>2. QED
        BY <1>3, <3>1
    <2>3. QED
      BY <2>1, <2>2
  <1>22. CASE \E t \in Teams : RefreshReadTask(a, t)
    <2>1. PICK t \in Teams : RefreshReadTask(a, t)
      BY <1>22
    <2> DEFINE tt == task[q.inc][t]
               k  == TaskAsRead(tt)
               r  == [q EXCEPT !.pc = "plan_resolve", !.team = t, !.task = k]
    <2>2. Moves(IF tt = Nil THEN NextTeam(q, t) ELSE r) /\ q.pc = "plan_task"
      BY <2>1, ZenonT(60) DEF RefreshReadTask, Continue
    <2> HIDE DEF Moves, q, tt, k
    <2>3. /\ r.pc = "plan_resolve" /\ r.member = q.member /\ r.inc = q.inc /\ r.todo = q.todo
          /\ r.snaps = q.snaps
      BY <1>1 DEF Request
    <2> HIDE DEF r
    <2>4. GoesOn(q, r)
      BY <2>2, <2>3 DEF GoesOn, TaskPCs, MemberPCs
    <2>5. MoveOK(q, r)
      BY <1>1, <2>3, <2>4, MoveOn
    <2>6. MoveOK(q, NextTeam(q, t))
      BY <1>1, <2>2, MoveNext
    <2>7. QED
      BY <1>a, <2>2, <2>5, <2>6
  <1>23. CASE Reads(a)
    BY <1>4, <1>6, <1>7, <1>8, <1>9, <1>10, <1>11, <1>12, <1>13, <1>14, <1>15, <1>16, <1>17,
       <1>18, <1>19, <1>20, <1>21, <1>22, <1>23, ZenonT(60) DEF Reads
  <1>24. QED
    BY <1>4, <1>5, <1>23, StepKinds

(* The stronger invariant is inductive.                                    *)
LEMMA StrongStep == SInv /\ [Next]_vars => SInv'
  <1> SUFFICES ASSUME SInv, [Next]_vars PROVE SInv'
    OBVIOUS
  <1>1. IInv' /\ Unopened'
    BY StepInv, UnopenedKept DEF SInv
  <1>2. ASSUME NEW b \in Admins PROVE RefreshDue(req'[b]) /\ Purpose(req'[b])
    <2>1. CASE \E a \in Admins : AdminStep(a)
      BY <2>1, RequestMoves DEF SInv, MoveOK
    <2>2. CASE ~ \E a \in Admins : AdminStep(a)
      <3>1. CASE \/ \E m \in Members, s \in Phases : TrackerJudge(m, s)
                 \/ \E m \in Members : TrackerWrite(m)
                 \/ \E m \in Phones : Fetch(m)
                 \/ \E m \in Phones : Ack(m)
        BY <3>1, ZenonT(60) DEF TrackerJudge, TrackerWrite, Fetch, Ack, SInv
      <3>2. CASE UNCHANGED vars
        BY <3>2 DEF vars, SInv
      <3>3. QED
        BY <2>2, <3>1, <3>2 DEF Next
    <2>3. QED
      BY <2>1, <2>2
  <1>3. QED
    BY <1>1, <1>2 DEF SInv, RefreshDue, Purpose

LEMMA StrongInit == Init => SInv
  <1>1. Init => Unopened /\ \A a \in Admins : RefreshDue(req[a]) /\ Purpose(req[a])
    BY DEF Init, Unopened, RefreshDue, Purpose, Idle
  <1>2. QED
    BY <1>1, InitInv DEF SInv

(* The inductive invariant holds of every run, and so does what a step of  *)
(* the action properties rests on besides.                                 *)
THEOREM StrongInvariant == Spec => []SInv
  <1>1. QED
    BY StrongInit, StrongStep, PTL DEF Spec

(* What a request has read of a task, of the row it is about to write, and *)
(* of a plan whose checkpoints come next, is what the tables hold.         *)
Reading == {"add_insert", "over_row", "over_write", "plan_resolve", "plan_points", "plan_tx"}
Halves  == {"open_points", "task_points", "plan_points"}
ReadingHolds(r) ==
  /\ r.pc \in Reading => r.task = TaskAsRead(task[r.inc][r.team])
  /\ r.pc = "over_write" => LET n == asg[r.inc][r.member] IN
                            r.row.eff = n.eff /\ r.row.ver = n.ver
  /\ r.pc \in Halves => r.half = plan[r.team]
  /\ r.torn = {}

(* What the two action properties say of a step, row by row; and what they *)
(* say without the exception of the readings that no longer hold.          *)
VersionMoves(i, m) ==
  LET r == asg[i][m]
      n == asg'[i][m]
  IN  \/ n.ver = r.ver /\ n.eff = r.eff
      \/ /\ n.ver = r.ver + 1
         /\ n.eff # r.eff \/ task'[i][r.team].snap # task[i][r.team].snap
VersionStep(i, m) ==
  /\ asg[i][m] # Nil
  /\ <<i, m>> \notin staleRow' /\ <<i, asg[i][m].team>> \notin staleTask'
  => VersionMoves(i, m)
RowsExact == \A i \in Incidents, m \in Members : asg[i][m] # Nil => VersionMoves(i, m)
RowsStep == \A i \in Incidents, m \in Members : VersionStep(i, m)

(* The rows a step changes are those its request is about; the tracker and *)
(* the phones change one row.                                              *)
Changed(i, m) == asg[i][m] # Nil /\ asg'[i][m] # asg[i][m]
NoneChanged   == \A i \in Incidents, m \in Members : ~Changed(i, m)
RowsOf(q)     == \A i \in Incidents, m \in Members : Changed(i, m) => Concerns(q, i, m)
OneChanged    == \E i \in Incidents, m \in Members :
                   \A j \in Incidents, k \in Members : Changed(j, k) => j = i /\ k = m

(* A step that writes no row satisfies all ...                             *)
LEMMA NoRowStep == UNCHANGED asg => RowsStep /\ RowsExact /\ NoneChanged
  BY DEF RowsStep, RowsExact, VersionStep, VersionMoves, NoneChanged, Changed

(* ... and one that writes a single row, if it does for that row.          *)
LEMMA OneRowStep ==
  ASSUME NEW i \in Incidents, NEW m \in Members, VersionStep(i, m),
         \A j \in Incidents, k \in Members : <<j, k>> # <<i, m>> => asg'[j][k] = asg[j][k]
  PROVE  RowsStep /\ (VersionMoves(i, m) => RowsExact)
  <1>0. ASSUME NEW j \in Incidents, NEW k \in Members, <<j, k>> # <<i, m>>
        PROVE  VersionMoves(j, k)
    <2>1. asg'[j][k] = asg[j][k]
      BY <1>0
    <2>2. QED
      BY <2>1 DEF VersionMoves
  <1>1. ASSUME NEW j \in Incidents, NEW k \in Members PROVE VersionStep(j, k)
    BY <1>0, ZenonT(60) DEF VersionStep
  <1>1a. VersionMoves(i, m) => RowsExact
    BY <1>0, ZenonT(60) DEF RowsExact
  <1>2. QED
    BY <1>1, <1>1a DEF RowsStep

(* Opening writes only rows that were not there.                           *)
LEMMA OpenRows ==
  ASSUME SInv, NEW a \in Admins, OpenCommit(a)
  PROVE  RowsStep /\ RowsExact /\ NoneChanged
  <1>1. CASE IndexRefuses
    BY <1>1, NoRowStep DEF OpenCommit
  <1>2. CASE ~IndexRefuses
    <2> DEFINE f == req[a].open
    <2>1. PICK i \in Incidents :
            /\ status[i] = "none"
            /\ asg' = [asg EXCEPT ![i] = [m \in Members |->
                 IF Roster[m] = Nil THEN Nil
                 ELSE IF f.tasks[Roster[m]] = Nil THEN Nil
                 ELSE NewRow(Roster[m], f.overrides[m], f.tasks[Roster[m]])]]
      BY <1>2 DEF OpenCommit
    <2>2. \A j \in Incidents, m \in Members : asg[j][m] # Nil => asg'[j][m] = asg[j][m]
      BY <2>1 DEF SInv, IInv, TypeOK, Unopened
    <2>3. QED
      BY <2>2, ZenonT(60) DEF RowsStep, RowsExact, VersionStep, VersionMoves, NoneChanged, Changed
  <1>3. QED
    BY <1>1, <1>2

(* A new task moves the versions of its team, where the values change.     *)
LEMMA TaskRows ==
  ASSUME SInv, NEW a \in Admins, TaskCommit(a)
  PROVE  RowsStep /\ RowsExact /\ RowsOf(req[a])
  <1> DEFINE i == req[a].inc
             t == req[a].team
             w == req[a].ask
  <1>1. i \in Incidents /\ w \in Work
    BY DEF SInv, IInv, TypeOK, RequestsOK, TaskCommit, RequestOK, TaskRequestOK, TaskPCs, Request
  <1>1a. req[a].pc = "task_tx" /\ req[a].member = Nil
    BY DEF SInv, TaskCommit, Purpose, MemberPCs
  <1>2. \A j \in Incidents, m \in Members :
          asg'[j][m] = IF j = i /\ m \in TeamRows(i, t) THEN Retask(asg[j][m], w) ELSE asg[j][m]
    BY <1>1 DEF TaskCommit, SInv, IInv, TypeOK
  <1>2a. RowsOf(req[a])
    <2>1. ASSUME NEW j \in Incidents, NEW m \in Members, Changed(j, m)
          PROVE  req[a].inc = j /\ asg[j][m].team = req[a].team
      BY <1>2, <2>1 DEF Changed, TeamRows
    <2>2. QED
      BY <1>1a, <2>1 DEF RowsOf, Concerns, Reach, TaskPCs
  <1> HIDE DEF i, t, w
  <1>3. ASSUME NEW j \in Incidents, NEW m \in Members PROVE VersionMoves(j, m)
    <2>1. CASE j = i /\ m \in TeamRows(i, t)
      <3>1. asg[j][m] \in Row
        BY <2>1 DEF TeamRows, SInv, IInv, TypeOK
      <3>2. /\ asg'[j][m].ver = IF asg'[j][m].eff = asg[j][m].eff
                                THEN asg[j][m].ver ELSE asg[j][m].ver + 1
        BY <1>1, <1>2, <2>1, <3>1, RetaskRow
      <3>3. QED
        BY <3>2 DEF VersionMoves
    <2>2. CASE ~ (j = i /\ m \in TeamRows(i, t))
      BY <1>2, <2>2 DEF VersionMoves
    <2>3. QED
      BY <2>1, <2>2
  <1>4. QED
    BY <1>2a, <1>3, ZenonT(60) DEF RowsStep, RowsExact, VersionStep

(* A member added to an incident is new to it, or left as he was.          *)
LEMMA AddRows ==
  ASSUME SInv, NEW a \in Admins, AddInsert(a)
  PROVE  RowsStep /\ RowsExact /\ NoneChanged
  <1> DEFINE i == req[a].inc
             m == req[a].member
  <1>1. i \in Incidents /\ m \in Members
    BY DEF SInv, IInv, TypeOK, RequestsOK, AddInsert, RequestOK, AddRequestOK, Request
  <1>2. \A j \in Incidents, k \in Members : asg[j][k] # Nil => asg'[j][k] = asg[j][k]
    BY <1>1 DEF AddInsert, SInv, IInv, TypeOK
  <1>3. QED
    BY <1>2, ZenonT(60) DEF RowsStep, RowsExact, VersionStep, VersionMoves, NoneChanged, Changed

(* An override moves its member's version with his values, when what it    *)
(* was computed from still holds.                                          *)
LEMMA OverrideRows ==
  ASSUME SInv, NEW a \in Admins, OverrideWrite(a)
  PROVE  RowsStep /\ (ReadingHolds(req[a]) => RowsExact) /\ RowsOf(req[a])
  <1> DEFINE q == req[a]
             i == q.inc
             m == q.member
             row == asg[i][m]
             r == q.row
             w == q.task.work
             n == Overwrite(row, r, q.ask, w)
  <1>1. /\ i \in Incidents /\ m \in Members /\ w \in Work /\ q.ask \in Override
        /\ r \in RowReading /\ row \in Row
    BY DEF SInv, IInv, TypeOK, RequestsOK, OverrideWrite, RequestOK, OverrideRequestOK,
       Request, TaskReading
  <1>2. /\ asg' = [asg EXCEPT ![i][m] = n]
        /\ <<i, m>> \notin staleRow' => row.eff = r.eff /\ row.ver = r.ver
    <2>1. /\ asg' = [asg EXCEPT ![i][m] = n]
          /\ staleRow' = IF OutdatedOverride(a) THEN staleRow \cup {<<i, m>>} ELSE staleRow
      BY ZenonT(60) DEF OverrideWrite
    <2>2. ~OutdatedOverride(a) => row.eff = r.eff /\ row.ver = r.ver
      BY ZenonT(60) DEF OutdatedOverride
    <2> HIDE DEF i, m, n, row, r
    <2>3. QED
      BY <2>1, <2>2
  <1>3. n.ver = IF n.eff # r.eff THEN r.ver + 1 ELSE r.ver
    <2> HIDE DEF q, i, m, row, r, w
    <2>1. QED
      BY <1>1, OverwriteRow
  <1>4. /\ asg'[i][m] = n
        /\ \A j \in Incidents, k \in Members : <<j, k>> # <<i, m>> => asg'[j][k] = asg[j][k]
    <2> HIDE DEF n, i, m
    <2>1. QED
      BY <1>1, <1>2 DEF SInv, IInv, TypeOK
  <1>5. row.eff = r.eff /\ row.ver = r.ver => VersionMoves(i, m)
    <2> HIDE DEF n, i, m, r
    <2>1. QED
      BY <1>3, <1>4 DEF VersionMoves
  <1>6. VersionStep(i, m)
    <2> HIDE DEF n, i, m, r, row
    <2>1. QED
      BY <1>2, <1>5, ZenonT(60) DEF VersionStep
  <1>7. ReadingHolds(q) => row.eff = r.eff /\ row.ver = r.ver
    BY ZenonT(60) DEF ReadingHolds, OverrideWrite
  <1>8. RowsStep /\ (VersionMoves(i, m) => RowsExact)
    <2> HIDE DEF i, m, n
    <2>1. QED
      BY <1>1, <1>4, <1>6, OneRowStep
  <1>9. RowsOf(q)
    <2>1. ASSUME NEW j \in Incidents, NEW k \in Members, Changed(j, k) PROVE j = i /\ k = m
      <3> HIDE DEF i, m, n
      <3>1. QED
        BY <1>4, <2>1 DEF Changed
    <2>2. row.team \in Teams /\ m # Nil
      BY <1>1, StoreAssumption DEF Row
    <2> HIDE DEF q
    <2>3. QED
      BY <2>1, <2>2 DEF RowsOf, Concerns, Reach
  <1>10. QED
    BY <1>5, <1>7, <1>8, <1>9, ZenonT(60)

(* A refresh moves the versions of its team, with the team's points.       *)
LEMMA RefreshRows ==
  ASSUME SInv, NEW a \in Admins, RefreshCommit(a)
  PROVE  RowsStep /\ (ReadingHolds(req[a]) => RowsExact) /\ RowsOf(req[a])
  <1> DEFINE q == req[a]
             i == q.inc
             t == q.team
             tt == task[i][t]
             F == {m \in TeamRows(i, t) : asg[i][m].override.area = Nil}
  <1>1. i \in Incidents /\ t \in Teams /\ tt \in Task
    <2>1. q \in Request /\ RequestOK(q) /\ q.pc = "plan_tx"
      BY ZenonT(60) DEF SInv, IInv, TypeOK, RequestsOK, RefreshCommit
    <2>2. i \in Incidents /\ t \in Teams /\ tt # Nil
      BY <2>1, ZenonT(60) DEF RequestOK, PlanRequestOK, Request
    <2>3. QED
      BY <2>2 DEF SInv, IInv, TypeOK
  <1>2. /\ task' = [task EXCEPT ![i][t] = [tt EXCEPT !.snap = q.snaps[t], !.version = @ + 1]]
        /\ asg' = [asg EXCEPT ![i] = [m \in Members |->
             IF m \in F THEN [asg[i][m] EXCEPT !.ver = @ + 1] ELSE asg[i][m]]]
        /\ <<i, t>> \notin staleTask' => tt.snap = q.task.snap
        /\ q.snaps[t] # q.task.snap
    <2>1. /\ task' = [task EXCEPT ![i][t] = [tt EXCEPT !.snap = q.snaps[t], !.version = @ + 1]]
          /\ q.pc = "plan_tx"
          /\ staleTask' = IF \/ tt.work.area # q.task.work.area
                             \/ tt.snap # q.task.snap
                             \/ t \in q.torn
                          THEN staleTask \cup {<<i, t>>} ELSE staleTask
      BY ZenonT(60) DEF RefreshCommit
    <2>2. asg' = [asg EXCEPT ![i] = [m \in Members |->
             IF m \in F THEN [asg[i][m] EXCEPT !.ver = @ + 1] ELSE asg[i][m]]]
      <3> DEFINE next(m) == [asg[i][m] EXCEPT !.ver = @ + 1]
                 rows == [m \in Members |-> IF m \in F THEN next(m) ELSE asg[i][m]]
                 read == [m \in Members |->
                            IF m \in TeamRows(i, t) /\ asg[i][m].override.area = Nil
                            THEN next(m) ELSE asg[i][m]]
      <3>1. asg' = [asg EXCEPT ![i] = read]
        BY ZenonT(60) DEF RefreshCommit
      <3>2. read = rows
        <4>1. \A m \in Members : m \in F <=> m \in TeamRows(i, t) /\ asg[i][m].override.area = Nil
          BY ZenonT(60)
        <4> HIDE DEF next, F, i, t
        <4>2. QED
          BY <4>1
      <3> HIDE DEF read
      <3>3. QED
        BY <3>1, <3>2, ZenonT(60)
    <2>3. q.snaps[t] # q.task.snap
      BY <2>1, ZenonT(60) DEF SInv, RefreshDue
    <2>4. <<i, t>> \notin staleTask' => tt.snap = q.task.snap
      <3> HIDE DEF i, t, tt, q
      <3>1. QED
        BY <2>1
    <2>5. QED
      BY <2>1, <2>2, <2>3, <2>4, ZenonT(60)
  <1>3. tt.snap = q.task.snap => task'[i][t].snap # task[i][t].snap
    <2>1. task'[i][t] = [tt EXCEPT !.snap = q.snaps[t], !.version = @ + 1]
      <3> HIDE DEF tt, i, t, q
      <3>1. QED
        BY <1>1, <1>2 DEF SInv, IInv, TypeOK
    <2>2. task'[i][t].snap = q.snaps[t]
      <3>1. [tt EXCEPT !.snap = q.snaps[t], !.version = @ + 1].snap = q.snaps[t]
        <4> HIDE DEF tt
        <4>1. QED
          BY <1>1 DEF Task
      <3> HIDE DEF tt
      <3>2. QED
        BY <2>1, <3>1
    <2> HIDE DEF i, t, q
    <2>3. QED
      BY <1>2, <2>2 DEF tt
  <1>4. \A j \in Incidents, m \in Members :
          asg'[j][m] = IF j = i /\ m \in F THEN [asg[i][m] EXCEPT !.ver = @ + 1]
                       ELSE asg[j][m]
    <2> HIDE DEF i, F
    <2>1. QED
      BY <1>1, <1>2 DEF SInv, IInv, TypeOK
  <1>5. \A m \in Members : m \in F => asg[i][m] \in Row /\ asg[i][m].team = t
    BY <1>1 DEF TeamRows, SInv, IInv, TypeOK
  <1>5a. ReadingHolds(q) => tt.snap = q.task.snap
    <2>1. q.pc = "plan_tx"
      BY ZenonT(60) DEF RefreshCommit
    <2> SUFFICES ASSUME ReadingHolds(q) PROVE tt.snap = q.task.snap
      OBVIOUS
    <2>2. q.task = TaskAsRead(tt)
      BY <2>1, ZenonT(60) DEF ReadingHolds, Reading
    <2>3. TaskAsRead(tt).snap = tt.snap
      BY DEF TaskAsRead
    <2>4. QED
      BY <2>2, <2>3, ZenonT(60)
  <1>5c. t \in q.todo /\ q.pc = "plan_tx" /\ q.member = Nil
    <2>1. q.pc = "plan_tx" /\ RequestOK(q) /\ Purpose(q)
      BY ZenonT(60) DEF RefreshCommit, SInv, IInv, RequestsOK
    <2>2. QED
      BY <2>1 DEF RequestOK, PlanRequestOK, Purpose, MemberPCs
  <1> DEFINE moves == task'[i][t].snap # task[i][t].snap
  <1>5b. (ReadingHolds(q) => moves) /\ (<<i, t>> \notin staleTask' => moves)
    <2> HIDE DEF moves, i, t, tt, q
    <2>1. QED
      BY <1>2, <1>3, <1>5a, ZenonT(60) DEF moves
  <1> HIDE DEF i, t, tt, q, F
  <1>6. ASSUME NEW j \in Incidents, NEW m \in Members
        PROVE  \/ VersionMoves(j, m)
               \/ ~moves /\ j = i /\ asg[j][m].team = t
    <2>1. CASE j = i /\ m \in F
      <3> DEFINE r == asg[j][m]
      <3>1. r \in Row /\ r.team = t /\ asg'[j][m] = [r EXCEPT !.ver = @ + 1]
        BY <1>4, <1>5, <2>1
      <3>2. [r EXCEPT !.ver = @ + 1].ver = r.ver + 1
        <4>1. r \in Row
          BY <3>1
        <4> HIDE DEF r
        <4>2. QED
          BY <4>1 DEF Row
      <3>3. asg'[j][m].ver = asg[j][m].ver + 1 /\ asg[j][m].team = t
        BY <3>1, <3>2
      <3>4. QED
        BY <2>1, <3>3 DEF VersionMoves
    <2>2. CASE ~ (j = i /\ m \in F)
      <3>1. asg'[j][m] = asg[j][m]
        BY <1>4, <2>2, ZenonT(60)
      <3>2. QED
        BY <3>1 DEF VersionMoves
    <2>3. QED
      BY <2>1, <2>2
  <1>7. RowsOf(q)
    <2>1. \A j \in Incidents, m \in Members : Changed(j, m) => j = i /\ asg[j][m].team = t
      BY <1>4, <1>5, ZenonT(60) DEF Changed
    <2>2. i = q.inc
      BY DEF i
    <2>3. QED
      BY <1>5c, <2>1, <2>2 DEF RowsOf, Concerns, Reach, TaskPCs
  <1>8. \A j \in Incidents, m \in Members : VersionStep(j, m)
    BY <1>5b, <1>6, ZenonT(60) DEF VersionStep
  <1>9. moves => RowsExact
    BY <1>6, ZenonT(60) DEF RowsExact
  <1>10. QED
    BY <1>5b, <1>7, <1>8, <1>9, ZenonT(60) DEF RowsStep, q

(* A row rewritten with its team, its version and its work.                *)
WorkKept(i, m) ==
  LET r == asg[i][m]
      n == asg'[i][m]
  IN  /\ n = Nil <=> r = Nil
      /\ n.team = r.team /\ n.override = r.override /\ n.ver = r.ver /\ n.eff = r.eff
RowsWorkKept == \A i \in Incidents, m \in Members : WorkKept(i, m)
LEMMA SameWorkRow ==
  ASSUME SInv, NEW i \in Incidents, NEW m \in Members, NEW n \in Row,
         asg[i][m] # Nil, n.ver = asg[i][m].ver, n.eff = asg[i][m].eff,
         n.team = asg[i][m].team, n.override = asg[i][m].override,
         asg' = [asg EXCEPT ![i][m] = n]
  PROVE  RowsStep /\ RowsExact /\ RowsWorkKept /\ OneChanged
  <1>1. /\ asg'[i][m] = n /\ n # Nil
        /\ \A j \in Incidents, k \in Members : <<j, k>> # <<i, m>> => asg'[j][k] = asg[j][k]
    BY StoreAssumption DEF SInv, IInv, TypeOK
  <1>2. VersionMoves(i, m) /\ VersionStep(i, m)
    BY <1>1, ZenonT(60) DEF VersionMoves, VersionStep
  <1>3. ASSUME NEW j \in Incidents, NEW k \in Members PROVE WorkKept(j, k)
    <2>1. CASE <<j, k>> = <<i, m>>
      BY <1>1, <2>1 DEF WorkKept
    <2>2. CASE <<j, k>> # <<i, m>>
      BY <1>1, <2>2, ZenonT(60) DEF WorkKept
    <2>3. QED
      BY <2>1, <2>2
  <1>4. OneChanged
    BY <1>1, ZenonT(60) DEF OneChanged, Changed
  <1>5. QED
    BY <1>1, <1>2, <1>3, <1>4, OneRowStep, ZenonT(60) DEF RowsWorkKept

(* The tracker and the phones change neither version nor work.             *)
LEMMA TrackerRows ==
  ASSUME SInv, NEW m \in Members, TrackerWrite(m) \/ Ack(m)
  PROVE  RowsStep /\ RowsExact /\ RowsWorkKept /\ OneChanged
  <1>1. CASE Ack(m)
    <2>1. PICK i \in Incidents :
            /\ asg[i][m] # Nil /\ phone[m] # Nil
            /\ asg' = [asg EXCEPT ![i][m].ack = phone[m].ver, ![i][m].seen = phone[m].eff]
      BY <1>1, ZenonT(60) DEF Ack
    <2> DEFINE r == asg[i][m]
               n == [r EXCEPT !.ack = phone[m].ver, !.seen = phone[m].eff]
    <2>2. r \in Row /\ phone[m].ver \in Nat /\ phone[m].eff \in Work
      BY <2>1 DEF SInv, IInv, TypeOK, PhoneCopy
    <2>3. asg' = [asg EXCEPT ![i][m] = n]
      BY <2>1, <2>2, ZenonT(120) DEF SInv, IInv, TypeOK, Row
    <2>4. n \in Row /\ n.ver = r.ver /\ n.eff = r.eff /\ n.team = r.team /\ n.override = r.override
      BY <2>2, ZenonT(120) DEF Row
    <2> HIDE DEF n
    <2>5. QED
      BY <2>1, <2>3, <2>4, SameWorkRow, ZenonT(60)
  <1>2. CASE TrackerWrite(m)
    <2> DEFINE c == report[m]
               i == c.inc
               r == asg[i][m]
               arr == IF StateOnly(c) THEN r.arrivedIn ELSE c.arrivedIn
               late == r.late \/ r.state # c.from \/ r.eff.area # c.area
               n == [r EXCEPT !.state = c.state, !.arrivedIn = arr, !.late = late]
    <2>1. c # Nil /\ asg' = [asg EXCEPT ![i][m] = n]
      BY <1>2, ZenonT(60) DEF TrackerWrite
    <2>2. c \in Report /\ r # Nil
      BY <2>1, ZenonT(60) DEF SInv, IInv, TypeOK, ReportsOK
    <2>3. i \in Incidents /\ c.state \in States /\ c.arrivedIn \in Areas \cup {Nil}
      BY <2>2 DEF Report
    <2>4. r \in Row
      BY <2>2, <2>3 DEF SInv, IInv, TypeOK
    <2>5. arr \in Areas \cup {Nil}
      BY <2>3, <2>4 DEF Row
    <2>6. late \in BOOLEAN
      BY <2>4 DEF Row
    <2> HIDE DEF arr, late, i, r, c
    <2>7. n \in Row /\ n.ver = r.ver /\ n.eff = r.eff /\ n.team = r.team /\ n.override = r.override
      BY <2>3, <2>4, <2>5, <2>6, ZenonT(120) DEF Row
    <2> HIDE DEF n
    <2>8. QED
      BY <2>1, <2>2, <2>3, <2>7, SameWorkRow, ZenonT(60) DEF r
  <1>3. QED
    BY <1>1, <1>2

(* An administrator's step satisfies all three, and the request is over,   *)
(* or at another statement, once it has written a row.                     *)
LEMMA AdminRows ==
  ASSUME SInv, NEW a \in Admins, AdminStep(a)
  PROVE  /\ RowsStep /\ (ReadingHolds(req[a]) => RowsExact)
         /\ RowsOf(req[a])
         /\ req' = req => NoneChanged
  <1>1. NoneChanged => RowsOf(req[a])
    BY ZenonT(60) DEF NoneChanged, RowsOf
  <1>2. CASE Reads(a)
    BY <1>1, <1>2, ReadsOnly, NoRowStep
  <1>3. CASE CloseWrite(a)
    BY <1>1, <1>3, NoRowStep DEF CloseWrite
  <1>4. CASE OpenCommit(a)
    BY <1>1, <1>4, OpenRows
  <1>5. CASE AddInsert(a)
    BY <1>1, <1>5, AddRows
  <1>6. CASE TaskCommit(a)
    <2>1. req[a].pc = "task_tx" /\ req' = [req EXCEPT ![a] = Idle]
      BY <1>6, ZenonT(60) DEF TaskCommit, Finish
    <2>2. req' # req
      BY <2>1 DEF Idle, SInv, IInv, TypeOK
    <2>3. QED
      BY <1>6, <2>2, TaskRows
  <1>7. CASE OverrideWrite(a)
    <2>1. req[a].pc = "over_write" /\ req' = [req EXCEPT ![a] = Idle]
      BY <1>7, ZenonT(60) DEF OverrideWrite, Finish
    <2>2. req' # req
      BY <2>1 DEF Idle, SInv, IInv, TypeOK
    <2>3. QED
      BY <1>7, <2>2, OverrideRows
  <1>8. CASE RefreshCommit(a)
    <2> DEFINE r == NextTeam(req[a], req[a].team)
    <2>1. req[a].pc = "plan_tx" /\ req' = [req EXCEPT ![a] = r]
      BY <1>8, ZenonT(60) DEF RefreshCommit
    <2>2. r.pc \in {"idle", "plan_task"}
      BY DEF NextTeam, Idle, SInv, IInv, TypeOK, Request
    <2> HIDE DEF r
    <2>3. req' # req
      BY <2>1, <2>2 DEF SInv, IInv, TypeOK
    <2>4. QED
      BY <1>8, <2>3, RefreshRows
  <1>9. QED
    BY <1>2, <1>3, <1>4, <1>5, <1>6, <1>7, <1>8, StepKinds

(* A step of the tracker or a phone leaves the requests alone.             *)
LEMMA OtherRows ==
  ASSUME SInv, [Next]_vars, ~ \E a \in Admins : AdminStep(a)
  PROVE  /\ RowsStep /\ RowsExact
         /\ NoneChanged \/ OneChanged
         /\ req' = req
  <1>1. CASE \/ \E m \in Members : TrackerWrite(m)
             \/ \E m \in Phones : Ack(m)
    <2>1. req' = req
      BY <1>1, ZenonT(60) DEF TrackerWrite, Ack
    <2>2. QED
      BY <1>1, <2>1, TrackerRows, StoreAssumption
  <1>2. CASE \/ \E m \in Phones : Fetch(m)
             \/ \E m \in Members, s \in Phases : TrackerJudge(m, s)
    <2>1. UNCHANGED <<asg, req>>
      BY <1>2, ZenonT(60) DEF Fetch, TrackerJudge
    <2>2. QED
      BY <2>1, NoRowStep
  <1>3. CASE UNCHANGED vars
    BY <1>3, NoRowStep DEF vars
  <1>4. QED
    BY <1>1, <1>2, <1>3 DEF Next

(* So every step satisfies the first, and without exception when the       *)
(* readings of the requests still hold.                                    *)
LEMMA StepRows ==
  ASSUME SInv, [Next]_vars
  PROVE  RowsStep /\ ((\A a \in Admins : ReadingHolds(req[a])) => RowsExact)
  BY AdminRows, OtherRows, ZenonT(60)

(* A member's version moves with his values or his team's points, by one,  *)
(* and never without them, in any step that rests on no outdated reading.  *)
THEOREM VersionsCount == Spec => VersionCountsChanges
  <1>1. SInv /\ [Next]_vars =>
          [\A i \in Incidents, m \in Members :
             /\ asg[i][m] # Nil
             /\ <<i, m>> \notin staleRow' /\ <<i, asg[i][m].team>> \notin staleTask'
             => LET r == asg[i][m]
                    n == asg'[i][m]
                IN  \/ n.ver = r.ver /\ n.eff = r.eff
                    \/ /\ n.ver = r.ver + 1
                       /\ n.eff # r.eff \/ task'[i][r.team].snap # task[i][r.team].snap]_vars
    BY StepRows, ZenonT(60) DEF RowsStep, VersionStep, VersionMoves
  <1>2. QED
    BY <1>1, StrongInvariant, PTL DEF Spec, VersionCountsChanges

(* A request writes, in all its statements, only rows of the incident and  *)
(* the teams, or the member, it was asked for.                             *)
THEOREM TeamsApart == Spec => OtherTeamsUntouched
  <1> DEFINE changed == {im \in Incidents \X Members :
                           /\ asg[im[1]][im[2]] # Nil
                           /\ asg'[im[1]][im[2]] # asg[im[1]][im[2]]}
             Apart == /\ req' = req => \A c, d \in changed : c = d
                      /\ \A a \in Admins :
                           /\ Narrows(req[a], req'[a])
                           /\ req'[a] # req[a] =>
                                \A c \in changed : Concerns(req[a], c[1], c[2])
  <1>1. ASSUME NEW c \in changed
        PROVE  c[1] \in Incidents /\ c[2] \in Members /\ Changed(c[1], c[2]) /\ c = <<c[1], c[2]>>
    BY DEF Changed
  <1>2. ASSUME NEW r PROVE Narrows(r, r)
    BY DEF Narrows
  <1>3. ASSUME SInv, NEW a \in Admins, AdminStep(a) PROVE Apart
    <2>1. /\ RowsOf(req[a]) /\ (req' = req => NoneChanged)
      BY <1>3, AdminRows
    <2>2. Narrows(req[a], req'[a]) /\ \A b \in Admins \ {a} : req'[b] = req[b]
      BY <1>3, RequestMoves DEF MoveOK
    <2>3. \A c \in changed : Concerns(req[a], c[1], c[2])
      BY <1>1, <2>1, ZenonT(60) DEF RowsOf
    <2>4. req' = req => changed = {}
      <3> HIDE DEF changed
      <3>1. QED
        BY <1>1, <2>1 DEF NoneChanged
    <2> HIDE DEF changed
    <2>5. ASSUME NEW b \in Admins
          PROVE  /\ Narrows(req[b], req'[b])
                 /\ req'[b] # req[b] => \A c \in changed : Concerns(req[b], c[1], c[2])
      BY <1>2, <2>2, <2>3, ZenonT(60)
    <2>6. QED
      BY <2>4, <2>5
  <1>4. ASSUME SInv, [Next]_vars, ~ \E a \in Admins : AdminStep(a) PROVE Apart
    <2>1. (NoneChanged \/ OneChanged) /\ req' = req
      BY <1>4, OtherRows
    <2>2. ASSUME NEW c \in changed, NEW d \in changed PROVE c = d
      <3> HIDE DEF changed
      <3>1. CASE NoneChanged
        BY <1>1, <3>1 DEF NoneChanged
      <3>2. CASE OneChanged
        BY <1>1, <3>2 DEF OneChanged
      <3>3. QED
        BY <2>1, <3>1, <3>2
    <2> HIDE DEF changed
    <2>3. QED
      BY <1>2, <2>1, <2>2
  <1>5. SInv /\ [Next]_vars => Apart
    <2> HIDE DEF Apart
    <2>1. QED
      BY <1>3, <1>4, ZenonT(60)
  <1>6. SInv /\ [Next]_vars => [Apart]_vars
    BY <1>5
  <1>7. QED
    BY <1>6, StrongInvariant, PTL DEF Spec, OtherTeamsUntouched

-----------------------------------------------------------------------------
(***************************************************************************)
(* One request at a time                                                   *)
(***************************************************************************)
(* No two administrators have requests in flight together.                 *)
Busy(a) == req[a].pc # "idle"
Alone   == \A a, b \in Admins : Busy(a) /\ Busy(b) => a = b

(* The values of every row, and the points of every task, are those of the *)
(* team's task: EffFollowsTask and RallyFitsArea with no marked exception. *)
ValuesExact ==
  /\ \A i \in Incidents, m \in Members : EffRight(i, m)
  /\ \A i \in Incidents, t \in Teams :
       task[i][t] # Nil => FitsArea(task[i][t].snap, task[i][t].work.area)

(* What every step with one request at a time keeps.                       *)
ReadingsHold == \A a \in Admins : ReadingHolds(req[a])
SerialInv ==
  /\ SInv
  /\ \A i \in Incidents, m \in Members : EffRight(i, m)
  /\ ReadingsHold
  /\ staleTask = {}

(* A statement that reads leaves the request with what the tables hold.    *)
LEMMA ReadsHold ==
  ASSUME SInv, NEW a \in Admins, Reads(a), ReadingHolds(req[a])
  PROVE  /\ ReadingHolds(req'[a])
         /\ \A b \in Admins \ {a} : req'[b] = req[b]
  <1> DEFINE q == req[a]
             Moves(r) == req' = [req EXCEPT ![a] = r]
             Free(r) == r.pc \notin Reading \cup Halves /\ r.torn = {}
             Goal == /\ ReadingHolds(req'[a])
                     /\ \A b \in Admins \ {a} : req'[b] = req[b]
  <1>0. req \in [Admins -> Request] /\ TypeOK
    BY DEF SInv, IInv, TypeOK
  <1>1. TypeOK /\ q \in Request /\ RequestOK(q) /\ ReadingHolds(q) /\ q.torn = {}
    BY <1>0 DEF SInv, IInv, RequestsOK, ReadingHolds
  <1>2. \A r : Moves(r) /\ ReadingHolds(r) => Goal
    <2> HIDE DEF q
    <2>1. QED
      BY <1>0
  <1>3. \A r : Moves(r) /\ Free(r) => Goal
    <2>1. \A r : Free(r) => ReadingHolds(r)
      BY DEF ReadingHolds, Reading, Halves
    <2> HIDE DEF Moves, Free, Goal
    <2>2. QED
      BY <1>2, <2>1, ZenonT(60)
  <1>3a. Free(Idle) /\ \A t : Free(NextTeam(q, t))
    BY <1>1 DEF NextTeam, Idle, Request, Reading, Halves
  <1> HIDE DEF Goal, Free
  <1>4. \A ar : q.pc \in Halves => ReadPoints(q, q.team, ar).torn = {}
    <2> SUFFICES ASSUME NEW ar, q.pc \in Halves PROVE ReadPoints(q, q.team, ar).torn = {}
      OBVIOUS
    <2>1. q.half = plan[q.team]
      BY <1>1 DEF ReadingHolds
    <2> HIDE DEF q
    <2>2. QED
      BY <1>1, <2>1 DEF ReadPoints, Request
  <1>5. \A t, ar : LET p == ReadPoints(q, t, ar) IN
          /\ \A pc : [p EXCEPT !.pc = pc].pc = pc /\ [p EXCEPT !.pc = pc].torn = p.torn
          /\ \A pc, u, td : LET r == [p EXCEPT !.pc = pc, !.team = u, !.todo = td] IN
                             r.pc = pc /\ r.torn = p.torn
    <2> HIDE DEF q
    <2>1. QED
      BY <1>1 DEF ReadPoints, Request
  <1>6. ASSUME NEW f \in OpenForms, OpenBegin(a, f) PROVE Goal
    <2> DEFINE r == [Idle EXCEPT !.pc = "open_resolve", !.open = f, !.todo = Listed(f.tasks)]
    <2>2. Moves(r)
      BY <1>6, ZenonT(60) DEF OpenBegin, Continue
    <2>3. Free(r)
      BY DEF Idle, Free, Reading, Halves
    <2> HIDE DEF Moves, r
    <2>4. QED
      BY <1>3, <2>2, <2>3
  <1>7. ASSUME NEW t \in Teams, OpenResolve(a, t) PROVE Goal
    <2> DEFINE r == ReadPlan(q, t, "open_points")
    <2>1. Moves(r) /\ q.pc = "open_resolve"
      BY <1>7, ZenonT(60) DEF OpenResolve, Continue
    <2> HIDE DEF q, Moves
    <2>2. "open_points" \in PCs /\ t \in Teams
      BY <1>1, <2>1 DEF PCs, TaskPCs, RequestOK, TaskRequestOK, PlanRequestOK, Request
    <2>3. /\ r.pc = "open_points" /\ r.team = t /\ r.half = plan[t] /\ r.torn = q.torn
          /\ r.task = q.task /\ r.inc = q.inc
      BY <1>1, <2>2, ReadPlanType
    <2> HIDE DEF r
    <2>4. ReadingHolds(r)
      BY <1>1, <2>1, <2>3 DEF ReadingHolds, Reading, Halves
    <2>5. QED
      BY <1>2, <2>1, <2>4
  <1>7a. ASSUME OpenPoints(a) PROVE Goal
    <2> DEFINE t == q.team
               p == ReadPoints(q, t, q.open.tasks[t].area)
               r == [p EXCEPT !.pc = "open_resolve", !.team = Nil, !.todo = p.todo \ {t}]
    <2>1. Moves(r) /\ q.pc = "open_points"
      BY <1>7a, ZenonT(60) DEF OpenPoints, Continue
    <2>2. p.torn = {}
      BY <1>4, <2>1 DEF Halves
    <2> HIDE DEF p
    <2>3. r.pc = "open_resolve" /\ r.torn = p.torn
      BY <1>5 DEF p
    <2> HIDE DEF Moves, r
    <2>4. QED
      BY <1>3, <2>1, <2>2, <2>3 DEF Free, Reading, Halves
  <1>8. ASSUME NEW t \in Teams, NEW w \in TaskForms, TaskBegin(a, t, w) PROVE Goal
    <2>1. PICK i \in Incidents : Continue(a, [Idle EXCEPT !.pc = "task_resolve", !.inc = i, !.team = t, !.ask = w])
      BY <1>8, ZenonT(60) DEF TaskBegin
    <2> DEFINE r == [Idle EXCEPT !.pc = "task_resolve", !.inc = i, !.team = t, !.ask = w]
    <2>2. Moves(r)
      BY <2>1, ZenonT(60) DEF Continue
    <2>3. Free(r)
      BY DEF Idle, Free, Reading, Halves
    <2> HIDE DEF Moves, r
    <2>4. QED
      BY <1>3, <2>2, <2>3
  <1>9. ASSUME TaskResolve(a) PROVE Goal
    <2> DEFINE r == ReadPlan(q, q.team, "task_points")
    <2>1. Moves(r) /\ q.pc = "task_resolve"
      BY <1>9, ZenonT(60) DEF TaskResolve, Continue
    <2> HIDE DEF q, Moves
    <2>2. "task_points" \in PCs /\ q.team \in Teams
      BY <1>1, <2>1 DEF PCs, TaskPCs, RequestOK, TaskRequestOK, PlanRequestOK, Request
    <2>3. /\ r.pc = "task_points" /\ r.team = q.team /\ r.half = plan[q.team] /\ r.torn = q.torn
          /\ r.task = q.task /\ r.inc = q.inc
      BY <1>1, <2>2, ReadPlanType
    <2> HIDE DEF r
    <2>4. ReadingHolds(r)
      BY <1>1, <2>1, <2>3 DEF ReadingHolds, Reading, Halves
    <2>5. QED
      BY <1>2, <2>1, <2>4
  <1>9a. ASSUME TaskPoints(a) PROVE Goal
    <2> DEFINE t == q.team
               p == ReadPoints(q, t, q.ask.area)
               r == [p EXCEPT !.pc = "task_tx"]
    <2>1. Moves(r) /\ q.pc = "task_points"
      BY <1>9a, ZenonT(60) DEF TaskPoints, Continue
    <2>2. p.torn = {}
      BY <1>4, <2>1 DEF Halves
    <2> HIDE DEF p
    <2>3. r.pc = "task_tx" /\ r.torn = p.torn
      BY <1>5 DEF p
    <2> HIDE DEF Moves, r
    <2>4. QED
      BY <1>3, <2>1, <2>2, <2>3 DEF Free, Reading, Halves
  <1>10. ASSUME NEW m \in Members, NEW t \in Teams, NEW o \in OverrideForms, 
              AddBegin(a, m, t, o)
        PROVE  Goal
    <2>1. PICK i \in Incidents : Continue(a, [Idle EXCEPT !.pc = "add_task", !.inc = i, !.member = m, !.team = t,
                                !.ask = o])
      BY <1>10, ZenonT(60) DEF AddBegin
    <2> DEFINE r == [Idle EXCEPT !.pc = "add_task", !.inc = i, !.member = m, !.team = t,
                                !.ask = o]
    <2>2. Moves(r)
      BY <2>1, ZenonT(60) DEF Continue
    <2>3. Free(r)
      BY DEF Idle, Free, Reading, Halves
    <2> HIDE DEF Moves, r
    <2>4. QED
      BY <1>3, <2>2, <2>3
  <1>11. ASSUME AddReadTask(a) PROVE Goal
    <2> DEFINE tt == task[q.inc][q.team]
               k  == TaskAsRead(tt)
               r  == [q EXCEPT !.pc = "add_insert", !.task = k]
    <2>1. Moves(IF tt = Nil THEN Idle ELSE r)
      BY <1>11, ZenonT(60) DEF AddReadTask, Continue
    <2>2. r.pc = "add_insert" /\ r.task = k /\ r.inc = q.inc /\ r.team = q.team /\ r.torn = q.torn
      <3> HIDE DEF k
      <3>1. QED
        BY <1>1 DEF Request
    <2> HIDE DEF r, q, Moves
    <2>3. ReadingHolds(r)
      BY <1>1, <2>2 DEF ReadingHolds, Reading, Halves
    <2> HIDE DEF tt
    <2>4. QED
      BY <1>2, <1>3, <1>3a, <2>1, <2>3
  <1>12. ASSUME NEW m \in Members, NEW o \in OverrideForms, 
              OverrideBegin(a, m, o)
        PROVE  Goal
    <2>1. PICK i \in Incidents : Continue(a, [Idle EXCEPT !.pc = "over_task", !.inc = i, !.member = m, !.ask = o])
      BY <1>12, ZenonT(60) DEF OverrideBegin
    <2> DEFINE r == [Idle EXCEPT !.pc = "over_task", !.inc = i, !.member = m, !.ask = o]
    <2>2. Moves(r)
      BY <2>1, ZenonT(60) DEF Continue
    <2>3. Free(r)
      BY DEF Idle, Free, Reading, Halves
    <2> HIDE DEF Moves, r
    <2>4. QED
      BY <1>3, <2>2, <2>3
  <1>13. ASSUME OverrideReadTask(a) PROVE Goal
    <2> DEFINE row == asg[q.inc][q.member]
               t   == row.team
               k   == TaskAsRead(task[q.inc][t])
               r   == [q EXCEPT !.pc = "over_row", !.team = t, !.task = k]
    <2>1. Moves(IF row = Nil THEN Idle ELSE r)
      BY <1>13, ZenonT(60) DEF OverrideReadTask, Continue
    <2>2. r.pc = "over_row" /\ r.task = k /\ r.inc = q.inc /\ r.team = t /\ r.torn = q.torn
      <3> HIDE DEF k, t
      <3>1. QED
        BY <1>1 DEF Request
    <2> HIDE DEF r, q, Moves, t
    <2>3. ReadingHolds(r)
      BY <1>1, <2>2 DEF ReadingHolds, Reading, Halves
    <2> HIDE DEF row
    <2>4. QED
      BY <1>2, <1>3, <1>3a, <2>1, <2>3
  <1>14. ASSUME OverrideReadRow(a) PROVE Goal
    <2> DEFINE k == RowAsRead(asg[q.inc][q.member])
               r == [q EXCEPT !.pc = "over_write", !.row = k]
    <2>1. Moves(r) /\ q.pc = "over_row"
      BY <1>14, ZenonT(60) DEF OverrideReadRow, Continue
    <2>2. /\ r.pc = "over_write" /\ r.row = k /\ r.inc = q.inc /\ r.member = q.member
          /\ r.task = q.task /\ r.team = q.team /\ r.torn = q.torn
      <3> HIDE DEF k
      <3>1. QED
        BY <1>1 DEF Request
    <2> HIDE DEF r, q, Moves
    <2>3. k.eff = asg[q.inc][q.member].eff /\ k.ver = asg[q.inc][q.member].ver
      BY DEF RowAsRead
    <2>4. q.task = TaskAsRead(task[q.inc][q.team])
      BY <1>1, <2>1 DEF ReadingHolds, Reading
    <2> HIDE DEF k
    <2>5. ReadingHolds(r)
      BY <1>1, <2>2, <2>3, <2>4 DEF ReadingHolds, Reading, Halves
    <2>6. QED
      BY <1>2, <2>1, <2>5
  <1>15. ASSUME CloseBegin(a) PROVE Goal
    <2>1. PICK i \in Incidents : Continue(a, [Idle EXCEPT !.pc = "close_write", !.inc = i])
      BY <1>15, ZenonT(60) DEF CloseBegin
    <2> DEFINE r == [Idle EXCEPT !.pc = "close_write", !.inc = i]
    <2>2. Moves(r)
      BY <2>1, ZenonT(60) DEF Continue
    <2>3. Free(r)
      BY DEF Idle, Free, Reading, Halves
    <2> HIDE DEF Moves, r
    <2>4. QED
      BY <1>3, <2>2, <2>3
  <1>16. ASSUME NEW f \in PlanForms, PlanSave(a, f) PROVE Goal
    <2> DEFINE r == [Idle EXCEPT !.pc = "plan_active", !.todo = Listed(f)]
    <2>2. Moves(r)
      BY <1>16, ZenonT(60) DEF PlanSave, Continue
    <2>3. Free(r)
      BY DEF Idle, Free, Reading, Halves
    <2> HIDE DEF Moves, r
    <2>4. QED
      BY <1>3, <2>2, <2>3
  <1>17. ASSUME PlanActive(a) PROVE Goal
    <2>1. Moves(Idle) \/ \E i \in Incidents : Moves([q EXCEPT !.pc = "plan_task", !.inc = i])
      BY <1>17, ZenonT(60) DEF PlanActive, Continue
    <2>2. \A i : Free([q EXCEPT !.pc = "plan_task", !.inc = i])
      BY <1>1 DEF Request, Reading, Halves, Free
    <2> HIDE DEF Moves, q
    <2>3. QED
      BY <1>3, <1>3a, <2>1, <2>2, ZenonT(60)
  <1>18. ASSUME NEW t \in Teams, RefreshReadTask(a, t) PROVE Goal
    <2> DEFINE tt == task[q.inc][t]
               k  == TaskAsRead(tt)
               r  == [q EXCEPT !.pc = "plan_resolve", !.team = t, !.task = k]
    <2>1. Moves(IF tt = Nil THEN NextTeam(q, t) ELSE r)
      BY <1>18, ZenonT(60) DEF RefreshReadTask, Continue
    <2>2. r.pc = "plan_resolve" /\ r.task = k /\ r.inc = q.inc /\ r.team = t /\ r.torn = q.torn
      <3> HIDE DEF k
      <3>1. QED
        BY <1>1 DEF Request
    <2> HIDE DEF r, q, Moves
    <2>3. ReadingHolds(r)
      BY <1>1, <2>2 DEF ReadingHolds, Reading, Halves
    <2> HIDE DEF tt
    <2>4. QED
      BY <1>2, <1>3, <1>3a, <2>1, <2>3
  <1>19. ASSUME RefreshResolve(a) PROVE Goal
    <2> DEFINE r == ReadPlan(q, q.team, "plan_points")
    <2>1. Moves(r) /\ q.pc = "plan_resolve"
      BY <1>19, ZenonT(60) DEF RefreshResolve, Continue
    <2> HIDE DEF q, Moves
    <2>2. "plan_points" \in PCs /\ q.team \in Teams
      BY <1>1, <2>1 DEF PCs, TaskPCs, RequestOK, TaskRequestOK, PlanRequestOK, Request
    <2>3. /\ r.pc = "plan_points" /\ r.team = q.team /\ r.half = plan[q.team] /\ r.torn = q.torn
          /\ r.task = q.task /\ r.inc = q.inc
      BY <1>1, <2>2, ReadPlanType
    <2> HIDE DEF r
    <2>4. ReadingHolds(r)
      BY <1>1, <2>1, <2>3 DEF ReadingHolds, Reading, Halves
    <2>5. QED
      BY <1>2, <2>1, <2>4
  <1>19a. ASSUME RefreshPoints(a) PROVE Goal
    <2> DEFINE t == q.team
               p == ReadPoints(q, t, q.task.work.area)
               r == [p EXCEPT !.pc = "plan_tx"]
    <2>1. /\ Moves(IF p.snaps[t] = q.task.snap THEN NextTeam(q, t) ELSE r)
          /\ q.pc = "plan_points"
      BY <1>19a, ZenonT(60) DEF RefreshPoints, Continue
    <2>2. p.torn = {}
      BY <1>4, <2>1 DEF Halves
    <2> HIDE DEF q
    <2>3. /\ r.pc = "plan_tx" /\ r.torn = p.torn
          /\ r.task = q.task /\ r.inc = q.inc /\ r.team = q.team
      BY <1>1 DEF ReadPoints, Request
    <2>4. q.task = TaskAsRead(task[q.inc][q.team])
      BY <1>1, <2>1 DEF ReadingHolds, Reading
    <2> HIDE DEF Moves, r, p, t
    <2>5. ReadingHolds(r)
      BY <2>2, <2>3, <2>4 DEF ReadingHolds, Reading, Halves
    <2>6. QED
      BY <1>2, <1>3, <1>3a, <2>1, <2>5
  <1>20. ASSUME Abort(a) PROVE Goal
    <2>1. Moves(Idle)
      BY <1>20, ZenonT(60) DEF Abort, Continue
    <2> HIDE DEF Moves
    <2>2. QED
      BY <1>3, <1>3a, <2>1
  <1>21. Goal
    BY <1>6, <1>7, <1>7a, <1>8, <1>9, <1>9a, <1>10, <1>11, <1>12, <1>13, <1>14, <1>15, <1>16,
       <1>17, <1>18, <1>19, <1>19a, <1>20, ZenonT(60) DEF Reads
  <1>22. QED
    BY <1>21 DEF Goal

(* Only saving plans changes them, and it has read nothing yet.            *)
LEMMA ReadsPlan ==
  ASSUME SInv, NEW a \in Admins, Reads(a)
  PROVE  \/ plan' = plan
         \/ Busy(a)' /\ req'[a].pc \notin Reading \cup Halves /\ req'[a].torn = {}
  <1>1. CASE \E f \in PlanForms : PlanSave(a, f)
    <2>1. PICK f \in PlanForms : PlanSave(a, f)
      BY <1>1
    <2> DEFINE r == [Idle EXCEPT !.pc = "plan_active", !.todo = Listed(f)]
    <2>2. req' = [req EXCEPT ![a] = r]
      BY <2>1, ZenonT(60) DEF PlanSave
    <2>3. r.pc = "plan_active" /\ r.torn = {}
      BY DEF Idle
    <2> HIDE DEF r
    <2>4. QED
      BY <2>2, <2>3 DEF SInv, IInv, TypeOK, Busy, Reading, Halves
  <1>2. CASE ~ \E f \in PlanForms : PlanSave(a, f)
    <2>1. CASE \/ \E f \in OpenForms : OpenBegin(a, f)
               \/ \E t \in Teams : OpenResolve(a, t)
               \/ OpenPoints(a)
               \/ \E t \in Teams, w \in TaskForms : TaskBegin(a, t, w)
               \/ TaskResolve(a)
               \/ TaskPoints(a)
               \/ \E m \in Members, t \in Teams, o \in OverrideForms : AddBegin(a, m, t, o)
               \/ AddReadTask(a)
      BY <2>1, ZenonT(60) DEF OpenBegin, OpenResolve, OpenPoints, TaskBegin, TaskResolve,
         TaskPoints, AddBegin, AddReadTask, Continue
    <2>2. CASE \/ \E m \in Members, o \in OverrideForms : OverrideBegin(a, m, o)
               \/ OverrideReadTask(a)
               \/ OverrideReadRow(a)
               \/ CloseBegin(a)
               \/ \E t \in Teams : RefreshReadTask(a, t)
               \/ RefreshResolve(a)
               \/ RefreshPoints(a)
               \/ Abort(a)
      BY <2>2, ZenonT(60) DEF OverrideBegin, OverrideReadTask, OverrideReadRow, CloseBegin,
         RefreshReadTask, RefreshResolve, RefreshPoints, Abort, Continue
    <2>3. CASE PlanActive(a)
      BY <2>3, ZenonT(60) DEF PlanActive, Continue
    <2>4. QED
      BY <1>2, <2>1, <2>2, <2>3, ZenonT(60) DEF Reads
  <1>3. QED
    BY <1>1, <1>2

(* A statement that writes belongs to a request in flight, and leaves it   *)
(* with no reading.                                                        *)
Writes(a) == \/ OpenCommit(a) \/ TaskCommit(a) \/ AddInsert(a)
             \/ OverrideWrite(a) \/ CloseWrite(a) \/ RefreshCommit(a)
LEMMA WritesEnd ==
  ASSUME SInv, NEW a \in Admins, Writes(a)
  PROVE  /\ Busy(a)
         /\ req'[a].pc \notin Reading \cup Halves /\ req'[a].torn = {}
         /\ \A b \in Admins \ {a} : req'[b] = req[b]
  <1>1. req \in [Admins -> Request] /\ req[a] \in Request
    BY DEF SInv, IInv, TypeOK
  <1>2. CASE OpenCommit(a) \/ TaskCommit(a) \/ AddInsert(a) \/ OverrideWrite(a) \/ CloseWrite(a)
    <2>1. Finish(a) /\ req[a].pc \in {"open_resolve", "task_tx", "add_insert", "over_write", "close_write"}
      <3>1. Finish(a)
        BY <1>2, ZenonT(60) DEF OpenCommit, TaskCommit, AddInsert, OverrideWrite, CloseWrite
      <3>2. \/ req[a].pc = "open_resolve" \/ req[a].pc = "task_tx" \/ req[a].pc = "add_insert"
            \/ req[a].pc = "over_write" \/ req[a].pc = "close_write"
        BY <1>2, ZenonT(60) DEF OpenCommit, TaskCommit, AddInsert, OverrideWrite, CloseWrite
      <3>3. QED
        BY <3>1, <3>2
    <2>2. QED
      BY <1>1, <2>1 DEF Finish, Busy, Idle, Reading, Halves
  <1>3. CASE RefreshCommit(a)
    <2> DEFINE r == NextTeam(req[a], req[a].team)
    <2>1. req' = [req EXCEPT ![a] = r] /\ req[a].pc = "plan_tx"
      BY <1>3, ZenonT(60) DEF RefreshCommit
    <2>2. r.pc \notin Reading \cup Halves /\ r.torn = {}
      BY <1>1 DEF NextTeam, Idle, Request, Reading, Halves
    <2> HIDE DEF r
    <2>3. QED
      BY <1>1, <2>1, <2>2 DEF Busy
  <1>4. QED
    BY <1>2, <1>3 DEF Writes

(* With one request at a time, what the requests have read stays so.       *)
LEMMA ReadingsKept ==
  ASSUME SInv, ReadingsHold, Alone, Alone', [Next]_vars
  PROVE  ReadingsHold'
  <1>1. ASSUME UNCHANGED <<task, asg, plan>>, \A b \in Admins : ReadingHolds(req'[b])
        PROVE  ReadingsHold'
    BY <1>1, ZenonT(60) DEF ReadingsHold, ReadingHolds
  <1>1a. ASSUME NEW a \in Admins, \A b \in Admins \ {a} : req'[b] = req[b],
                req'[a].pc \notin Reading \cup Halves, req'[a].torn = {},
                Busy(a) \/ Busy(a)'
         PROVE  ReadingsHold'
    <2>1. ASSUME NEW b \in Admins
          PROVE  req'[b].pc \notin Reading \cup Halves /\ req'[b].torn = {}
      <3>1. CASE b = a
        BY <1>1a, <3>1
      <3>2. CASE b # a
        <4>1. req'[b] = req[b] /\ req[b].torn = {}
          BY <1>1a, <3>2, ZenonT(60) DEF ReadingsHold, ReadingHolds
        <4>2. req'[b].pc = "idle"
          BY <1>1a, <3>2, <4>1 DEF Alone, Busy
        <4>3. QED
          BY <4>1, <4>2 DEF Reading, Halves
      <3>3. QED
        BY <3>1, <3>2
    <2>2. QED
      BY <2>1 DEF ReadingsHold, ReadingHolds, Reading, Halves
  <1>2. CASE \E a \in Admins : AdminStep(a)
    <2>1. PICK a \in Admins : AdminStep(a)
      BY <1>2
    <2>2. CASE Reads(a)
      <3>1. ReadingHolds(req'[a]) /\ \A b \in Admins \ {a} : req'[b] = req[b]
        BY <2>2, ReadsHold, ZenonT(60) DEF ReadingsHold
      <3>2. \A b \in Admins : ReadingHolds(req'[b])
        <4>1. ASSUME NEW b \in Admins, b # a PROVE ReadingHolds(req'[b])
          <5>1. req'[b] = req[b] /\ ReadingHolds(req[b])
            BY <3>1, <4>1, ZenonT(60) DEF ReadingsHold
          <5>2. QED
            BY <5>1, ZenonT(60)
        <4>2. QED
          BY <3>1, <4>1, ZenonT(60)
      <3>3. CASE plan' = plan
        BY <1>1, <2>2, <3>2, <3>3, ReadsOnly
      <3>4. CASE plan' # plan
        BY <1>1a, <2>2, <3>1, <3>4, ReadsPlan
      <3>5. QED
        BY <3>3, <3>4
    <2>3. CASE Writes(a)
      BY <1>1a, <2>3, WritesEnd
    <2>4. QED
      BY <2>1, <2>2, <2>3, StepKinds DEF Writes
  <1>3. CASE \/ \E m \in Members : TrackerWrite(m)
             \/ \E m \in Phones : Ack(m)
    <2>1. RowsWorkKept
      BY <1>3, TrackerRows, StoreAssumption
    <2>2. UNCHANGED <<task, plan, req>>
      BY <1>3, ZenonT(60) DEF TrackerWrite, Ack
    <2>3. ASSUME NEW b \in Admins PROVE ReadingHolds(req[b])'
      <3> DEFINE r == req[b]
      <3>1. ReadingHolds(r) /\ r \in Request /\ RequestOK(r)
        BY ZenonT(60) DEF ReadingsHold, SInv, IInv, TypeOK, RequestsOK
      <3>2. /\ r.pc \in Reading => r.task = TaskAsRead(task'[r.inc][r.team])
            /\ r.pc \in Halves => r.half = plan'[r.team]
            /\ r.torn = {}
        BY <2>2, <3>1, ZenonT(60) DEF ReadingHolds
      <3>3. ASSUME r.pc = "over_write"
            PROVE  r.row.eff = asg'[r.inc][r.member].eff /\ r.row.ver = asg'[r.inc][r.member].ver
        <4>1. r.inc \in Incidents /\ r.member \in Members
          <5>1. r.inc # Nil /\ r.member # Nil
            BY <3>1, <3>3, ZenonT(60) DEF RequestOK, OverrideRequestOK
          <5>2. r.inc \in Incidents \cup {Nil} /\ r.member \in Members \cup {Nil}
            BY <3>1, ZenonT(60) DEF Request
          <5>3. QED
            BY <5>1, <5>2
        <4>2. WorkKept(r.inc, r.member)
          BY <2>1, <4>1, ZenonT(60) DEF RowsWorkKept
        <4>3. r.row.eff = asg[r.inc][r.member].eff /\ r.row.ver = asg[r.inc][r.member].ver
          BY <3>1, <3>3, ZenonT(60) DEF ReadingHolds
        <4>4. QED
          BY <4>2, <4>3, ZenonT(60) DEF WorkKept
      <3>4. req'[b] = r
        BY <2>2
      <3> HIDE DEF r
      <3>5. QED
        BY <3>2, <3>3, <3>4, ZenonT(60) DEF ReadingHolds
    <2>4. QED
      BY <2>3 DEF ReadingsHold
  <1>4. CASE \/ \E m \in Phones : Fetch(m)
             \/ \E m \in Members, s \in Phases : TrackerJudge(m, s)
             \/ UNCHANGED vars
    <2>1. UNCHANGED <<task, asg, plan, req>>
      <3>1. CASE \/ \E m \in Phones : Fetch(m)
                 \/ \E m \in Members, s \in Phases : TrackerJudge(m, s)
        BY <3>1, ZenonT(60) DEF Fetch, TrackerJudge
      <3>2. CASE UNCHANGED vars
        BY <3>2 DEF vars
      <3>3. QED
        BY <1>4, <3>1, <3>2
    <2>2. QED
      BY <1>1, <2>1 DEF ReadingsHold
  <1>5. QED
    BY <1>2, <1>3, <1>4 DEF Next

(* A member added gets the values of the task as it is ...                 *)
LEMMA AddExact ==
  ASSUME SInv, NEW a \in Admins, AddInsert(a), ReadingHolds(req[a])
  PROVE  EffStep
  <1> DEFINE q == req[a]
             i == q.inc
             m == q.member
             t == q.team
             n == NewRow(t, q.ask, q.task.work)
  <1>1. q \in Request /\ RequestOK(q) /\ q.pc = "add_insert"
    BY ZenonT(60) DEF SInv, IInv, TypeOK, RequestsOK, AddInsert
  <1>2. /\ i # Nil /\ m # Nil /\ t # Nil /\ q.task # Nil /\ task[i][t] # Nil
        /\ q.task = TaskAsRead(task[i][t])
    BY <1>1, ZenonT(60) DEF RequestOK, AddRequestOK, ReadingHolds, Reading
  <1>3. /\ i \in Incidents \cup {Nil} /\ m \in Members \cup {Nil} /\ t \in Teams \cup {Nil}
        /\ q.ask \in Override /\ q.task \in TaskReading \cup {Nil}
    BY <1>1, ZenonT(60) DEF Request
  <1>4. asg' = [asg EXCEPT ![i][m] = IF asg[i][m] = Nil THEN n ELSE asg[i][m]] /\ task' = task
    BY ZenonT(60) DEF AddInsert
  <1>5. /\ i \in Incidents /\ m \in Members /\ t \in Teams /\ q.task.work \in Work
    <2> HIDE DEF i, m, t, q
    <2>1. QED
      BY <1>2, <1>3 DEF TaskReading
  <1>5a. q.task.work = task[i][t].work
    BY <1>2 DEF TaskAsRead
  <1>6. n.team = t /\ n.override = q.ask /\ n.eff = Effective(q.ask, q.task.work)
    <2> HIDE DEF q, t
    <2>1. QED
      BY <1>3, <1>5, NewRowType
  <1>7. /\ asg[i][m] = Nil => asg'[i][m] = n
        /\ \A j \in Incidents, k \in Members :
             <<j, k>> # <<i, m>> \/ asg[j][k] # Nil => asg'[j][k] = asg[j][k]
    <2> HIDE DEF i, m, n
    <2>1. asg \in [Incidents -> [Members -> Row \cup {Nil}]]
      BY ZenonT(60) DEF SInv, IInv, TypeOK
    <2>2. QED
      BY <1>4, <1>5, <2>1
  <1> HIDE DEF q, i, m, t, n
  <1>8. ASSUME NEW j \in Incidents, NEW k \in Members, EffRight(j, k) PROVE EffRight(j, k)'
    <2>1. CASE <<j, k>> # <<i, m>> \/ asg[j][k] # Nil
      <3>1. asg'[j][k] = asg[j][k]
        BY <1>7, <2>1, ZenonT(60)
      <3>2. QED
        BY <1>4, <1>8, <3>1, ZenonT(60) DEF EffRight
    <2>2. CASE <<j, k>> = <<i, m>> /\ asg[j][k] = Nil
      <3>1. j = i /\ k = m /\ asg'[j][k] = n
        BY <1>7, <2>2
      <3>2. QED
        BY <1>2, <1>4, <1>5a, <1>6, <3>1, ZenonT(60) DEF EffRight
    <2>3. QED
      BY <2>1, <2>2, ZenonT(60)
  <1>9. QED
    BY <1>8 DEF EffStep

(* ... and so does one whose override is written.                          *)
LEMMA OverrideExact ==
  ASSUME SInv, NEW a \in Admins, OverrideWrite(a), ReadingHolds(req[a])
  PROVE  EffStep
  <1> DEFINE q == req[a]
             i == q.inc
             m == q.member
             row == asg[i][m]
             r == q.row
             w == q.task.work
             n == Overwrite(row, r, q.ask, w)
  <1>1. q \in Request /\ RequestOK(q) /\ q.pc = "over_write"
    BY ZenonT(60) DEF SInv, IInv, TypeOK, RequestsOK, OverrideWrite
  <1>2. /\ i # Nil /\ m # Nil /\ q.task # Nil /\ r # Nil /\ row # Nil
        /\ row.team = q.team /\ q.task = TaskAsRead(task[i][q.team])
    BY <1>1, ZenonT(60) DEF RequestOK, OverrideRequestOK, ReadingHolds, Reading
  <1>3. /\ i \in Incidents \cup {Nil} /\ m \in Members \cup {Nil} /\ r \in RowReading \cup {Nil}
        /\ q.ask \in Override /\ q.task \in TaskReading \cup {Nil}
    BY <1>1, ZenonT(60) DEF Request
  <1>4. asg' = [asg EXCEPT ![i][m] = n] /\ task' = task
    BY ZenonT(60) DEF OverrideWrite
  <1>5. i \in Incidents /\ m \in Members /\ r \in RowReading /\ row \in Row /\ w \in Work
    <2>1. i \in Incidents /\ m \in Members /\ r \in RowReading /\ q.task \in TaskReading
      <3> HIDE DEF i, m, r, q
      <3>1. QED
        BY <1>2, <1>3
    <2>2. w \in Work
      <3> HIDE DEF q
      <3>1. QED
        BY <2>1 DEF TaskReading
    <2>3. row \in Row
      <3> HIDE DEF i, m
      <3>1. QED
        BY <1>2, <2>1 DEF SInv, IInv, TypeOK
    <2>4. QED
      BY <2>1, <2>2, <2>3
  <1>6. n.team = row.team /\ n.override = q.ask /\ n.eff = Effective(q.ask, w)
    <2> HIDE DEF q, row, r, w
    <2>1. QED
      BY <1>3, <1>5, OverwriteRow
  <1>7. /\ asg'[i][m] = n
        /\ \A j \in Incidents, k \in Members : <<j, k>> # <<i, m>> => asg'[j][k] = asg[j][k]
    <2> HIDE DEF i, m, n
    <2>1. asg \in [Incidents -> [Members -> Row \cup {Nil}]]
      BY ZenonT(60) DEF SInv, IInv, TypeOK
    <2>2. QED
      BY <1>4, <1>5, <2>1
  <1>8. task[i][row.team] # Nil /\ n.eff = Effective(n.override, task[i][row.team].work)
    <2>1. w = task[i][row.team].work
      BY <1>2 DEF TaskAsRead
    <2>2. task[i][row.team] # Nil
      <3> HIDE DEF i, m
      <3>1. QED
        BY <1>2, <1>5 DEF SInv, IInv, RowsHaveTasks
    <2>3. QED
      BY <1>6, <2>1, <2>2, ZenonT(60)
  <1> HIDE DEF q, i, m, row, r, w, n
  <1>9. ASSUME NEW j \in Incidents, NEW k \in Members, EffRight(j, k) PROVE EffRight(j, k)'
    <2>1. CASE <<j, k>> # <<i, m>>
      <3>1. asg'[j][k] = asg[j][k]
        BY <1>7, <2>1, ZenonT(60)
      <3>2. QED
        BY <1>4, <1>9, <3>1, ZenonT(60) DEF EffRight
    <2>2. CASE <<j, k>> = <<i, m>>
      <3>1. j = i /\ k = m /\ asg'[j][k] = n
        BY <1>7, <2>2
      <3>2. QED
        BY <1>4, <1>6, <1>8, <3>1, ZenonT(60) DEF EffRight
    <2>3. QED
      BY <2>1, <2>2, ZenonT(60)
  <1>10. QED
    BY <1>9 DEF EffStep

(* So does every step.                                                     *)
LEMMA StepExact ==
  ASSUME SInv, ReadingsHold, [Next]_vars
  PROVE  EffStep
  <1>0. UNCHANGED <<task, asg>> => EffStep
    BY ZenonT(60) DEF EffStep, EffRight
  <1>1. CASE \E a \in Admins : AdminStep(a)
    <2>1. PICK a \in Admins : AdminStep(a)
      BY <1>1
    <2>2. ReadingHolds(req[a]) /\ IInv
      BY ZenonT(60) DEF ReadingsHold, SInv
    <2>3. CASE Reads(a) \/ CloseWrite(a)
      <3>1. UNCHANGED <<task, asg>>
        BY <2>3, ReadsOnly, ZenonT(60) DEF CloseWrite
      <3>2. QED
        BY <1>0, <3>1
    <2>4. CASE OpenCommit(a)
      BY <2>2, <2>4, OpenWrites
    <2>5. CASE TaskCommit(a)
      BY <2>2, <2>5, TaskWrites
    <2>6. CASE RefreshCommit(a)
      BY <2>2, <2>6, RefreshWrites
    <2>7. CASE AddInsert(a)
      BY <2>2, <2>7, AddExact
    <2>8. CASE OverrideWrite(a)
      BY <2>2, <2>8, OverrideExact
    <2>9. QED
      BY <2>1, <2>3, <2>4, <2>5, <2>6, <2>7, <2>8, StepKinds
  <1>2. CASE \/ \E m \in Members : TrackerWrite(m)
             \/ \E m \in Phones : Ack(m)
    <2>1. RowsWorkKept
      BY <1>2, TrackerRows, StoreAssumption
    <2>2. UNCHANGED task
      BY <1>2, ZenonT(60) DEF TrackerWrite, Ack
    <2>3. ASSUME NEW i \in Incidents, NEW m \in Members, EffRight(i, m) PROVE EffRight(i, m)'
      <3>1. WorkKept(i, m)
        BY <2>1, ZenonT(60) DEF RowsWorkKept
      <3>2. QED
        BY <2>2, <2>3, <3>1, ZenonT(60) DEF WorkKept, EffRight
    <2>4. QED
      BY <2>3 DEF EffStep
  <1>3. CASE \/ \E m \in Phones : Fetch(m)
             \/ \E m \in Members, s \in Phases : TrackerJudge(m, s)
             \/ UNCHANGED vars
    <2>1. UNCHANGED <<task, asg>>
      <3>1. CASE \/ \E m \in Phones : Fetch(m)
                 \/ \E m \in Members, s \in Phases : TrackerJudge(m, s)
        BY <3>1, ZenonT(60) DEF Fetch, TrackerJudge
      <3>2. CASE UNCHANGED vars
        BY <3>2 DEF vars
      <3>3. QED
        BY <1>3, <3>1, <3>2
    <2>2. QED
      BY <1>0, <2>1
  <1>4. QED
    BY <1>1, <1>2, <1>3 DEF Next

(* No plan is copied on a reading that no longer holds.                    *)
LEMMA NoneStale ==
  ASSUME ReadingsHold, [Next]_vars
  PROVE  staleTask' = staleTask
  <1>1. CASE \E a \in Admins : AdminStep(a)
    <2>1. PICK a \in Admins : AdminStep(a)
      BY <1>1
    <2>2. CASE Reads(a)
      BY <2>2, ReadsOnly
    <2>3. CASE AddInsert(a) \/ OverrideWrite(a) \/ CloseWrite(a)
      BY <2>3, ZenonT(60) DEF AddInsert, OverrideWrite, CloseWrite
    <2>3a. CASE OpenCommit(a) \/ TaskCommit(a)
      <3>1. staleTask' = staleTask \/ \E i : staleTask' = staleTask \cup ({i} \X req[a].torn)
        BY <2>3a, ZenonT(60) DEF OpenCommit, TaskCommit
      <3>2. req[a].torn = {}
        BY ZenonT(60) DEF ReadingsHold, ReadingHolds
      <3>3. QED
        BY <3>1, <3>2
    <2>4. CASE RefreshCommit(a)
      <3> DEFINE q  == req[a]
                 tt == task[q.inc][q.team]
      <3>1. /\ q.pc = "plan_tx"
            /\ staleTask' = IF \/ tt.work.area # q.task.work.area
                               \/ tt.snap # q.task.snap
                               \/ q.team \in q.torn
                            THEN staleTask \cup {<<q.inc, q.team>>} ELSE staleTask
        BY <2>4, ZenonT(60) DEF RefreshCommit
      <3>2. q.task = TaskAsRead(tt) /\ q.torn = {}
        BY <3>1, ZenonT(60) DEF ReadingsHold, ReadingHolds, Reading
      <3> HIDE DEF q, tt
      <3>3. QED
        BY <3>1, <3>2 DEF TaskAsRead
    <2>5. QED
      BY <2>1, <2>2, <2>3, <2>3a, <2>4, StepKinds
  <1>2. CASE \/ \E m \in Members, s \in Phases : TrackerJudge(m, s)
             \/ \E m \in Members : TrackerWrite(m)
             \/ \E m \in Phones : Fetch(m)
             \/ \E m \in Phones : Ack(m)
    BY <1>2, ZenonT(60) DEF TrackerJudge, TrackerWrite, Fetch, Ack
  <1>3. CASE UNCHANGED vars
    BY <1>3 DEF vars
  <1>4. QED
    BY <1>1, <1>2, <1>3 DEF Next

(* That invariant holds at first, and every step keeps it.                 *)
LEMMA SerialInit == Init => SerialInv
  <1> SUFFICES ASSUME Init PROVE SerialInv
    OBVIOUS
  <1>1. \A i \in Incidents, m \in Members : EffRight(i, m)
    BY DEF Init, EffRight
  <1>2. ReadingsHold /\ staleTask = {}
    BY DEF Init, ReadingsHold, ReadingHolds, Reading, Halves, Idle
  <1>3. QED
    BY <1>1, <1>2, StrongInit DEF SerialInv

LEMMA SerialStep == SerialInv /\ Alone /\ Alone' /\ [Next]_vars => SerialInv'
  <1> SUFFICES ASSUME SerialInv, Alone, Alone', [Next]_vars PROVE SerialInv'
    OBVIOUS
  <1>1. SInv /\ ReadingsHold /\ staleTask = {} /\ \A i \in Incidents, m \in Members : EffRight(i, m)
    BY DEF SerialInv
  <1>2. SInv'
    BY <1>1, StrongStep
  <1>3. ReadingsHold'
    BY <1>1, ReadingsKept
  <1>4. (\A i \in Incidents, m \in Members : EffRight(i, m))'
    BY <1>1, StepExact, ZenonT(60) DEF EffStep
  <1>5. staleTask' = {}
    BY <1>1, NoneStale
  <1>6. QED
    BY <1>2, <1>3, <1>4, <1>5 DEF SerialInv

(* With one request at a time nothing drifts: every row has the values its *)
(* override and its team's task make, and every task the points for its    *)
(* area, with no exception.  Requests that overlap (Store.SetOverride,     *)
(* Store.AddMember, RefreshTeamPlan: a read, then a write that does not    *)
(* check it; PlanStore.List: two statements) are the only way to part them.*)
THEOREM SerialValues == Spec /\ []Alone => []ValuesExact
  <1>1. SerialInv => ValuesExact
    <2> SUFFICES ASSUME SerialInv PROVE ValuesExact
      OBVIOUS
    <2>1. RallyFitsArea /\ staleTask = {} /\ \A i \in Incidents, m \in Members : EffRight(i, m)
      BY ZenonT(60) DEF SerialInv, SInv, IInv
    <2>2. QED
      BY <2>1 DEF ValuesExact, RallyFitsArea
  <1>2. QED
    BY <1>1, SerialInit, SerialStep, PTL DEF Spec

(* And then mission_ver counts exactly: no step of anyone moves it without *)
(* a change to tell the member of, changes his work without moving it, or  *)
(* moves it by more than one.                                              *)
THEOREM SerialVersions ==
  Spec /\ []Alone => [][\A i \in Incidents, m \in Members :
                          asg[i][m] # Nil => VersionMoves(i, m)]_vars
  <1>1. SerialInv /\ [Next]_vars =>
          [\A i \in Incidents, m \in Members : asg[i][m] # Nil => VersionMoves(i, m)]_vars
    <2> SUFFICES ASSUME SerialInv, [Next]_vars PROVE RowsExact
      BY DEF RowsExact
    <2>1. QED
      BY StepRows DEF SerialInv, ReadingsHold
  <1>2. QED
    BY <1>1, SerialInit, SerialStep, PTL DEF Spec

-----------------------------------------------------------------------------
(***************************************************************************)
(* The plans in force (module PlanWatch)                                   *)
(***************************************************************************)
(* A step of the observed program is one of the program.                   *)
LEMMA WatchIsNext == [WatchNext]_<<vars, watch>> => [Next]_vars
  BY ZenonT(60) DEF WatchNext, Next, AdminStep

(* A request that has a team to refresh is at one of five statements.      *)
LEMMA RefreshSteps ==
  ASSUME NEW a \in Admins, Serve(a), Awaiting(a) # {}
  PROVE  \/ PlanActive(a)
         \/ \E t \in Teams : RefreshReadTask(a, t)
         \/ RefreshResolve(a)
         \/ RefreshPoints(a)
         \/ RefreshCommit(a)
  <1>1. req[a].pc \in {"plan_active", "plan_task", "plan_resolve", "plan_points", "plan_tx"}
    BY DEF Awaiting
  <1>2. ( \/ \E f \in OpenForms : OpenBegin(a, f)
          \/ \E t \in Teams : OpenResolve(a, t)
          \/ OpenPoints(a)
          \/ OpenCommit(a)
          \/ \E t \in Teams, w \in TaskForms : TaskBegin(a, t, w)
          \/ TaskResolve(a)
          \/ TaskPoints(a)
          \/ TaskCommit(a))
        => req[a].pc \in {"idle", "open_resolve", "open_points", "task_resolve", "task_points",
                          "task_tx"}
    BY ZenonT(60) DEF OpenBegin, OpenResolve, OpenPoints, OpenCommit, TaskBegin, TaskResolve,
       TaskPoints, TaskCommit
  <1>3. ( \/ \E m \in Members, t \in Teams, o \in OverrideForms : AddBegin(a, m, t, o)
          \/ AddReadTask(a)
          \/ AddInsert(a)
          \/ \E m \in Members, o \in OverrideForms : OverrideBegin(a, m, o)
          \/ OverrideReadTask(a)
          \/ OverrideReadRow(a)
          \/ OverrideWrite(a))
        => req[a].pc \in {"idle", "add_task", "add_insert", "over_task", "over_row", "over_write"}
    BY ZenonT(60) DEF AddBegin, AddReadTask, AddInsert, OverrideBegin, OverrideReadTask,
       OverrideReadRow, OverrideWrite
  <1>4. ( \/ CloseBegin(a)
          \/ CloseWrite(a)
          \/ \E f \in PlanForms : PlanSave(a, f))
        => req[a].pc \in {"idle", "close_write"}
    BY ZenonT(60) DEF CloseBegin, CloseWrite, PlanSave
  <1>5. /\ req[a].pc \notin {"idle", "open_resolve", "open_points", "task_resolve", "task_points",
                             "task_tx"}
        /\ req[a].pc \notin {"idle", "add_task", "add_insert", "over_task", "over_row", "over_write"}
        /\ req[a].pc \notin {"idle", "close_write"}
    BY <1>1
  <1>6. QED
    BY <1>2, <1>3, <1>4, <1>5, ZenonT(60) DEF Serve

(* Going on to the next team keeps the teams that are left.                *)
LEMMA NextTeamAwaits ==
  ASSUME NEW r \in Request, NEW t, NEW u, t # u, t \in r.todo
  PROVE  /\ NextTeam(r, u).pc = "plan_task"
         /\ NextTeam(r, u).inc = r.inc
         /\ t \in NextTeam(r, u).todo
  <1>1. r.todo # {u}
    OBVIOUS
  <1>2. QED
    BY <1>1 DEF NextTeam, Request

(* A request that still comes to a team's points still does after a step   *)
(* of its own, unless it has found them to be the plan's.                  *)
LEMMA OwnDue ==
  ASSUME SInv, NEW a \in Admins, NEW i \in Incidents, NEW t \in Teams,
         Due(a, i, t), Serve(a), Active(i), task[i][t] # Nil, task'[i][t] = task[i][t]
  PROVE  InForce(i, t)' \/ Due(a, i, t)'
  <1> DEFINE q == req[a]
  <1>1. q \in Request /\ RequestOK(q) /\ req \in [Admins -> Request]
    BY DEF SInv, IInv, TypeOK, RequestsOK
  <1>2. /\ t \in q.todo
        /\ q.pc \in {"plan_active", "plan_task", "plan_resolve", "plan_points", "plan_tx"}
        /\ q.pc = "plan_active" \/ q.inc = i
        /\ ReadAsIs(q, i, t)
    BY DEF Due, Awaiting
  <1> DEFINE Moves(r)  == req' = [req EXCEPT ![a] = r]
             Waits(r) == /\ r.pc \in {"plan_task", "plan_resolve", "plan_points", "plan_tx"}
                         /\ r.inc = i /\ t \in r.todo
                         /\ \/ r.pc = "plan_task" \/ r.team # t
                            \/ /\ task[i][t].work.area = r.task.work.area
                               /\ task[i][t].snap = r.task.snap
                               /\ r.pc = "plan_points" => r.half = plan[t]
  <1>3. \A r : Moves(r) /\ Waits(r) /\ plan' = plan => Due(a, i, t)'
    BY <1>1 DEF Due, Awaiting, ReadAsIs
  <1>4. ASSUME NEW u, u # t, q.pc # "plan_active" PROVE Waits(NextTeam(q, u))
    BY <1>1, <1>2, <1>4, NextTeamAwaits
  <1>5. CASE PlanActive(a)
    <2>1. PICK j \in Incidents :
            /\ Active(j)
            /\ Continue(a, [q EXCEPT !.pc = "plan_task", !.inc = j])
      BY <1>5, ZenonT(60) DEF PlanActive
    <2>2. j = i
      BY <2>1 DEF SInv, IInv, OneActive
    <2> DEFINE r == [q EXCEPT !.pc = "plan_task", !.inc = i]
    <2>3. Moves(r) /\ plan' = plan
      BY <2>1, <2>2 DEF Continue
    <2>4. Waits(r)
      BY <1>1, <1>2 DEF Request
    <2> HIDE DEF Moves, Waits, r
    <2>5. QED
      BY <1>3, <2>3, <2>4
  <1>6. CASE \E u \in Teams : RefreshReadTask(a, u)
    <2>1. PICK u \in Teams : RefreshReadTask(a, u)
      BY <1>6
    <2> DEFINE tt == task[q.inc][u]
               k  == TaskAsRead(tt)
               r  == [q EXCEPT !.pc = "plan_resolve", !.team = u, !.task = k]
    <2>2. q.pc = "plan_task" /\ q.inc = i
      BY <1>2, <2>1 DEF RefreshReadTask
    <2>3. CASE tt = Nil
      <3>1. u # t
        BY <2>2, <2>3
      <3>2. Moves(NextTeam(q, u)) /\ plan' = plan
        BY <2>1, <2>3 DEF RefreshReadTask, Continue
      <3>3. Waits(NextTeam(q, u))
        BY <1>4, <2>2, <3>1
      <3> HIDE DEF Moves, Waits
      <3>4. QED
        BY <1>3, <3>2, <3>3
    <2>4. CASE tt # Nil
      <3>1. Moves(r) /\ plan' = plan
        BY <2>1, <2>4 DEF RefreshReadTask, Continue
      <3>2. Waits(r)
        <4>1. k.work = tt.work /\ k.snap = tt.snap
          BY DEF TaskAsRead
        <4>2. /\ r.pc = "plan_resolve" /\ r.team = u /\ r.task = k
              /\ r.inc = q.inc /\ r.todo = q.todo
          <5> HIDE DEF k, q
          <5>1. QED
            BY <1>1 DEF Request
        <4> HIDE DEF k, r, q
        <4>3. QED
          BY <1>2, <2>2, <4>1, <4>2
      <3> HIDE DEF Moves, Waits, r
      <3>3. QED
        BY <1>3, <3>1, <3>2
    <2>5. QED
      BY <2>3, <2>4
  <1>7. CASE RefreshResolve(a)
    <2> DEFINE u == q.team
               r == ReadPlan(q, u, "plan_points")
    <2>1. q.pc = "plan_resolve" /\ Moves(r) /\ plan' = plan
      BY <1>7, ZenonT(60) DEF RefreshResolve, Continue
    <2>2. q.inc = i /\ u \in Teams /\ "plan_points" \in PCs /\ TypeOK
      BY <1>1, <1>2, <2>1 DEF RequestOK, PlanRequestOK, Request, PCs, SInv, IInv
    <2> HIDE DEF q
    <2>3. /\ r.pc = "plan_points" /\ r.team = u /\ r.half = plan[u]
          /\ r.inc = q.inc /\ r.todo = q.todo /\ r.task = q.task
      BY <1>1, <2>2, ReadPlanType
    <2> HIDE DEF r, Moves
    <2>4. Waits(r)
      BY <1>2, <2>1, <2>2, <2>3 DEF ReadAsIs
    <2> HIDE DEF Waits
    <2>5. QED
      BY <1>3, <2>1, <2>4
  <1>7a. CASE RefreshPoints(a)
    <2> DEFINE u == q.team
               p == ReadPoints(q, u, q.task.work.area)
               r == [p EXCEPT !.pc = "plan_tx"]
               s == Resolve(q.half, plan[u], q.task.work.area)
    <2>1. /\ Moves(IF p.snaps[u] = q.task.snap THEN NextTeam(q, u) ELSE r)
          /\ q.pc = "plan_points" /\ plan' = plan
      BY <1>7a, ZenonT(60) DEF RefreshPoints, Continue
    <2>2. q.inc = i /\ u \in Teams
      BY <1>1, <1>2, <2>1 DEF RequestOK, PlanRequestOK, Request
    <2>3. p.snaps[u] = s
      <3>1. p.snaps = [q.snaps EXCEPT ![u] = s]
        <4> HIDE DEF q
        <4>1. QED
          BY <1>1 DEF ReadPoints, Request
      <3> HIDE DEF p, s, q
      <3>2. QED
        BY <1>1, <2>2, <3>1 DEF Request
    <2>4. CASE p.snaps[u] = q.task.snap
      <3>1. Moves(NextTeam(q, u))
        BY <2>1, <2>4
      <3>2. CASE u = t
        <4>1. /\ task[i][t].work.area = q.task.work.area /\ task[i][t].snap = q.task.snap
              /\ q.half = plan[t]
          BY <1>2, <2>1, <3>2 DEF ReadAsIs
        <4>2. task[i][t].snap = Resolve(plan[t], plan[t], task[i][t].work.area)
          <5> HIDE DEF p, q
          <5>1. QED
            BY <2>3, <2>4, <3>2, <4>1, ZenonT(60)
        <4>3. QED
          BY <2>1, <4>2 DEF InForce, Resolve, Checkpoints
      <3>3. CASE u # t
        <4>1. Waits(NextTeam(q, u))
          BY <1>4, <2>1, <3>3
        <4> HIDE DEF Moves, Waits
        <4>2. QED
          BY <1>3, <2>1, <3>1, <4>1
      <3>4. QED
        BY <3>2, <3>3
    <2>5. CASE p.snaps[u] # q.task.snap
      <3>1. Moves(r)
        BY <2>1, <2>5
      <3>2. Waits(r)
        <4> HIDE DEF q
        <4>1. /\ r.pc = "plan_tx" /\ r.team = u /\ r.inc = q.inc /\ r.todo = q.todo
              /\ r.task = q.task
          BY <1>1 DEF ReadPoints, Request
        <4> HIDE DEF r
        <4>2. QED
          BY <1>2, <2>1, <2>2, <4>1 DEF ReadAsIs
      <3> HIDE DEF Moves, Waits, r
      <3>3. QED
        BY <1>3, <2>1, <3>1, <3>2
    <2>6. QED
      BY <2>4, <2>5
  <1>8. CASE RefreshCommit(a)
    <2> DEFINE u == q.team
    <2>1. q.pc = "plan_tx" /\ q.inc = i /\ u \in Teams
      <3>1. q.pc = "plan_tx"
        BY <1>8, ZenonT(60) DEF RefreshCommit
      <3>2. QED
        BY <1>1, <1>2, <3>1 DEF RequestOK, PlanRequestOK, Request
    <2>2. u # t
      <3>1. ASSUME u = t PROVE FALSE
        <4>1. task'[i][t].version = task[i][t].version + 1
          <5>1. task[i][t] \in Task
            BY DEF SInv, IInv, TypeOK
          <5> DEFINE tt == task[i][t]
                     nt == [tt EXCEPT !.snap = q.snaps[t], !.version = @ + 1]
          <5>2. task' = [task EXCEPT ![i][t] = nt]
            BY <1>8, <2>1, <3>1 DEF RefreshCommit
          <5>3. nt.version = tt.version + 1
            <6> HIDE DEF q, tt
            <6>1. QED
              BY <5>1 DEF Task, tt
          <5> HIDE DEF q, nt
          <5>4. task'[i][t] = nt
            BY <5>2 DEF SInv, IInv, TypeOK
          <5>5. QED
            BY <5>3, <5>4
        <4>2. task[i][t].version \in Nat
          BY DEF SInv, IInv, TypeOK, Task
        <4>3. QED
          BY <4>1, <4>2
      <3>2. QED
        BY <3>1
    <2>3. Moves(NextTeam(q, u)) /\ plan' = plan
      BY <1>8, ZenonT(60) DEF RefreshCommit
    <2>4. Waits(NextTeam(q, u))
      BY <1>4, <2>1, <2>2
    <2> HIDE DEF Moves, Waits
    <2>5. QED
      BY <1>3, <2>3, <2>4
  <1>9. Awaiting(a) # {}
    BY DEF Due
  <1>10. QED
    BY <1>5, <1>6, <1>7, <1>7a, <1>8, <1>9, RefreshSteps

(* What another request comes to does not depend on who else takes a step, *)
(* short of saving the team's plan.                                        *)
LEMMA OthersDue ==
  ASSUME NEW a \in Admins, NEW b \in Admins \ {a}, NEW i \in Incidents, NEW t \in Teams,
         Due(b, i, t), req'[b] = req[b], task'[i][t] = task[i][t],
         plan'[t] = plan[t]
  PROVE  Due(b, i, t)'
  BY DEF Due, Awaiting, ReadAsIs

(* Whoever writes a task writes the points he resolved, and no plan.       *)
LEMMA TaskWritten ==
  ASSUME SInv, NEW a \in Admins, AdminStep(a), NEW i \in Incidents, NEW t \in Teams,
         task'[i][t] # task[i][t], task'[i][t] # Nil
  PROVE  /\ task'[i][t].snap = req[a].snaps[t]
         /\ UNCHANGED plan
         /\ req[a].snaps[t] # Nil
  <1> DEFINE q == req[a]
  <1>1. q \in Request /\ RequestOK(q)
    BY DEF SInv, IInv, TypeOK, RequestsOK
  <1>2. CASE OpenCommit(a)
    <2>1. CASE IndexRefuses
      BY <1>2, <2>1 DEF OpenCommit
    <2>2. CASE ~IndexRefuses
      <3> DEFINE f == q.open
      <3>1. PICK j \in Incidents :
              task' = [task EXCEPT ![j] = [u \in Teams |->
                   IF f.tasks[u] = Nil THEN Nil
                   ELSE [work |-> f.tasks[u], snap |-> q.snaps[u], version |-> 1]]]
        BY <1>2, <2>2 DEF OpenCommit
      <3>2. f.tasks[t] # Nil /\ task'[i][t] = [work |-> f.tasks[t], snap |-> q.snaps[t], version |-> 1]
        <4> HIDE DEF q, f
        <4>1. QED
          BY <3>1 DEF SInv, IInv, TypeOK
      <3>3. q.snaps[t] # Nil
        BY <1>1, <1>2, <3>2 DEF OpenCommit, RequestOK, OpenRequestOK, Resolved
      <3>4. QED
        BY <1>2, <3>2, <3>3 DEF OpenCommit
    <2>3. QED
      BY <2>1, <2>2
  <1>3. CASE TaskCommit(a)
    <2> DEFINE new == [work |-> q.ask, snap |-> q.snaps[q.team],
                       version |-> task[q.inc][q.team].version + 1]
    <2>1. task' = [task EXCEPT ![q.inc][q.team] = IF task[q.inc][q.team] = Nil THEN Nil ELSE new]
      BY <1>3, ZenonT(60) DEF TaskCommit
    <2>2. q.team = t /\ task'[i][t] = new
      <3> HIDE DEF q, new
      <3>1. QED
        BY <2>1 DEF SInv, IInv, TypeOK
    <2>3. q.snaps[t] # Nil
      <3>1. q.pc = "task_tx"
        BY <1>3, ZenonT(60) DEF TaskCommit
      <3>2. q.snaps[q.team] # Nil
        BY <1>1, <3>1, ZenonT(60) DEF RequestOK, TaskRequestOK, Resolved
      <3>3. QED
        BY <2>2, <3>2, ZenonT(60)
    <2>4. QED
      BY <1>3, <2>2, <2>3 DEF TaskCommit
  <1>4. CASE RefreshCommit(a)
    <2> DEFINE tt == task[q.inc][q.team]
               sn == q.snaps[q.team]
               nt == [tt EXCEPT !.snap = sn, !.version = @ + 1]
    <2>1. task' = [task EXCEPT ![q.inc][q.team] = nt]
      BY <1>4, ZenonT(60) DEF RefreshCommit
    <2>2. q.inc = i /\ q.team = t /\ task'[i][t] = nt
      <3> HIDE DEF q, nt
      <3>1. QED
        BY <2>1 DEF SInv, IInv, TypeOK
    <2>3. q.snaps[t] # Nil /\ task[i][t] # Nil
      BY <1>1, <1>4, <2>2 DEF RefreshCommit, RequestOK, PlanRequestOK, Resolved
    <2>4. nt.snap = sn
      <3>1. tt \in Task
        BY <2>2, <2>3 DEF SInv, IInv, TypeOK
      <3> HIDE DEF tt, sn
      <3>2. QED
        BY <3>1 DEF Task
    <2> HIDE DEF nt, sn, tt
    <2>5. QED
      BY <1>4, <2>2, <2>3, <2>4 DEF RefreshCommit, sn
  <1>5. CASE AddInsert(a) \/ OverrideWrite(a) \/ CloseWrite(a) \/ Reads(a)
    BY <1>5, ReadsOnly DEF AddInsert, OverrideWrite, CloseWrite
  <1>6. QED
    BY <1>2, <1>3, <1>4, <1>5, StepKinds

(* Only OpenCommit makes an incident active.                               *)
LEMMA ActiveBefore ==
  ASSUME SInv, NEW a \in Admins, AdminStep(a), NEW i \in Incidents, Active(i)', ~Active(i)
  PROVE  \A t \in Teams : task[i][t] = Nil
  <1>1. CASE OpenCommit(a)
    <2>1. CASE IndexRefuses
      BY <1>1, <2>1 DEF OpenCommit, Active
    <2>2. CASE ~IndexRefuses
      <3>1. PICK j \in Incidents : status[j] = "none" /\ status' = [status EXCEPT ![j] = "active"]
        BY <1>1, <2>2, ZenonT(60) DEF OpenCommit
      <3>2. status[i] = "none"
        BY <3>1 DEF Active, SInv, IInv, TypeOK
      <3>3. QED
        BY <3>2 DEF SInv, Unopened
    <2>3. QED
      BY <2>1, <2>2
  <1>2. CASE CloseWrite(a)
    <2>1. status' = [status EXCEPT ![req[a].inc] = "closed"]
      BY <1>2 DEF CloseWrite
    <2>2. QED
      BY <2>1 DEF Active, SInv, IInv, TypeOK
  <1>3. CASE TaskCommit(a) \/ AddInsert(a) \/ OverrideWrite(a) \/ RefreshCommit(a)
    <2>1. status' = status
      BY <1>3, ZenonT(60) DEF TaskCommit, AddInsert, OverrideWrite, RefreshCommit
    <2>2. QED
      BY <2>1 DEF Active
  <1>4. CASE Reads(a)
    BY <1>4, ReadsOnly DEF Active
  <1>5. QED
    BY <1>1, <1>2, <1>3, <1>4, StepKinds

(* What is remembered of the plans keeps its type, and every snapshot that *)
(* a request keeps is still the plan it was resolved from, in one piece.   *)
LEMMA SnapsKept ==
  ASSUME WInv, NEW a \in Admins, AdminStep(a), Resolves(a)
  PROVE  /\ resolved' \in [Admins -> [Teams -> Plan \cup {Nil}]]
         /\ SnapsResolved'
  <1> DEFINE q == req[a]
             n == req'[a]
             R == [t \in Teams |->
                     CASE n.snaps[t] = q.snaps[t]             -> resolved[a][t]
                       [] n.snaps[t] \notin {Nil, q.snaps[t]} ->
                            IF q.half = plan[t] THEN plan[t] ELSE Nil
                       [] OTHER                               -> Nil]
  <1>1. resolved' = [resolved EXCEPT ![a] = R]
    BY DEF Resolves
  <1>2. /\ resolved \in [Admins -> [Teams -> Plan \cup {Nil}]]
        /\ \A t \in Teams : plan[t] \in Plan
    BY DEF WInv, WatchTypeOK, SInv, IInv, TypeOK
  <1>3. ASSUME NEW t \in Teams
        PROVE  /\ R[t] \in Plan \cup {Nil}
               /\ n.snaps[t] = q.snaps[t] => R[t] = resolved[a][t]
               /\ n.snaps[t] \notin {Nil, q.snaps[t]} =>
                    R[t] = Nil \/ (R[t] = plan[t] /\ q.half = plan[t])
    <2> HIDE DEF q, n
    <2>1. R[t] = CASE n.snaps[t] = q.snaps[t]             -> resolved[a][t]
                   [] n.snaps[t] \notin {Nil, q.snaps[t]} ->
                        IF q.half = plan[t] THEN plan[t] ELSE Nil
                   [] OTHER                               -> Nil
      OBVIOUS
    <2>2. QED
      BY <1>2, <2>1
  <1> HIDE DEF R
  <1>4. R \in [Teams -> Plan \cup {Nil}]
    <2>1. R = [t \in Teams |-> R[t]]
      BY DEF R
    <2>2. QED
      BY <1>3, <2>1
  <1>5. /\ resolved' \in [Admins -> [Teams -> Plan \cup {Nil}]]
        /\ resolved'[a] = R
        /\ \A b \in Admins \ {a} : resolved'[b] = resolved[b]
    BY <1>1, <1>2, <1>4
  <1>6. MoveOK(q, n) /\ \A b \in Admins \ {a} : req'[b] = req[b]
    BY RequestMoves DEF WInv, SInv
  <1>7. ASSUME NEW b \in Admins, NEW t \in Teams, req'[b].snaps[t] # Nil, resolved'[b][t] # Nil
        PROVE  FromPlan(resolved'[b][t], req'[b].snaps[t])
    <2>1. CASE b # a
      <3>1. req'[b] = req[b] /\ resolved'[b] = resolved[b]
        BY <1>5, <1>6, <2>1
      <3>2. QED
        BY <1>7, <3>1 DEF WInv, SnapsResolved
    <2>2. CASE b = a /\ n.snaps[t] = q.snaps[t]
      <3>1. resolved'[a][t] = resolved[a][t]
        BY <1>3, <1>5, <2>2
      <3>2. QED
        BY <1>7, <2>2, <3>1 DEF WInv, SnapsResolved
    <2>3. CASE b = a /\ n.snaps[t] # q.snaps[t]
      <3>1. resolved'[a][t] = plan[t] /\ q.half = plan[t]
        BY <1>3, <1>5, <1>7, <2>3
      <3>2. FromPlan(plan[t], n.snaps[t])
        BY <1>6, <1>7, <2>3, <3>1 DEF MoveOK
      <3>3. QED
        BY <2>3, <3>1, <3>2
    <2>4. QED
      BY <2>1, <2>2, <2>3
  <1>8. QED
    BY <1>5, <1>7 DEF SnapsResolved, FromPlan

(* After a step that may let some teams lag, a team not in force lags if   *)
(* it did before or may now.                                               *)
LEMMA LagsStay ==
  ASSUME NEW S, Lags(S), NEW i \in Incidents, NEW t \in Teams, task'[i][t] # Nil,
         <<i, t>> \in lagging \cup S
  PROVE  InForce(i, t)' \/ <<i, t>> \in lagging'
  BY DEF Lags

(* A task just written shows the plan, or was written from an outdated     *)
(* reading.                                                                *)
LEMMA WrittenInForce ==
  ASSUME WInv, NEW a \in Admins, AdminStep(a), RallyFitsArea', TypeOK',
         NEW i \in Incidents, NEW t \in Teams,
         task'[i][t] # task[i][t], task'[i][t] # Nil, <<i, t>> \notin Outdated(a)
  PROVE  InForce(i, t)'
  <1>1. resolved[a][t] = plan[t] /\ <<i, t>> \notin staleTask'
    BY DEF Outdated
  <1>2. /\ task'[i][t].snap = req[a].snaps[t]
        /\ plan' = plan /\ req[a].snaps[t] # Nil
    BY TaskWritten DEF WInv
  <1>3. plan[t] # Nil
    BY StoreAssumption DEF WInv, SInv, IInv, TypeOK
  <1>4. FromPlan(plan[t], task'[i][t].snap)
    BY <1>1, <1>2, <1>3 DEF WInv, SnapsResolved
  <1>5. task'[i][t].snap.area = task'[i][t].work.area
    BY <1>1 DEF RallyFitsArea, FitsArea
  <1>6. task'[i][t].snap = Resolve(plan[t], plan[t], task'[i][t].work.area)
    BY <1>4, <1>5, ZenonT(60) DEF FromPlan
  <1>7. QED
    BY <1>2, <1>6 DEF InForce, Resolve, Checkpoints

(* A plan changes only by a save, whose request then comes to the team.    *)
LEMMA PlanMoves ==
  ASSUME SInv, NEW a \in Admins, AdminStep(a), NEW i \in Incidents, NEW t \in Teams
  PROVE  plan'[t] = plan[t] \/ Due(a, i, t)'
  <1>1. CASE \E f \in PlanForms : PlanSave(a, f)
    <2>1. PICK f \in PlanForms : PlanSave(a, f)
      BY <1>1
    <2> DEFINE r == [Idle EXCEPT !.pc = "plan_active", !.todo = Listed(f)]
    <2>2. /\ plan' = [u \in Teams |-> IF f[u] = Nil THEN plan[u] ELSE f[u]]
          /\ req' = [req EXCEPT ![a] = r]
      BY <2>1 DEF PlanSave
    <2>3. r.pc = "plan_active" /\ r.todo = Listed(f)
      BY DEF Idle
    <2> HIDE DEF r
    <2>4. req'[a].pc = "plan_active" /\ req'[a].todo = Listed(f)
      BY <2>2, <2>3 DEF SInv, IInv, TypeOK
    <2>5. CASE f[t] = Nil
      BY <2>2, <2>5
    <2>6. CASE f[t] # Nil
      BY <2>4, <2>6 DEF Due, Awaiting, ReadAsIs, Listed
    <2>7. QED
      BY <2>5, <2>6
  <1>2. CASE OpenCommit(a) \/ TaskCommit(a) \/ AddInsert(a)
             \/ OverrideWrite(a) \/ CloseWrite(a) \/ RefreshCommit(a)
    BY <1>2, ZenonT(60)
    DEF OpenCommit, TaskCommit, AddInsert, OverrideWrite, CloseWrite, RefreshCommit
  <1>3. CASE \/ \E f \in OpenForms : OpenBegin(a, f)
             \/ \E u \in Teams : OpenResolve(a, u)
             \/ OpenPoints(a)
             \/ \E u \in Teams, w \in TaskForms : TaskBegin(a, u, w)
             \/ TaskResolve(a)
             \/ TaskPoints(a)
    BY <1>3, ZenonT(60) DEF OpenBegin, OpenResolve, OpenPoints, TaskBegin, TaskResolve,
       TaskPoints, Continue
  <1>4. CASE \/ \E m \in Members, u \in Teams, o \in OverrideForms : AddBegin(a, m, u, o)
             \/ AddReadTask(a)
             \/ \E m \in Members, o \in OverrideForms : OverrideBegin(a, m, o)
             \/ OverrideReadTask(a)
             \/ OverrideReadRow(a)
    BY <1>4, ZenonT(60)
    DEF AddBegin, AddReadTask, OverrideBegin, OverrideReadTask, OverrideReadRow, Continue
  <1>5. CASE \/ CloseBegin(a)
             \/ PlanActive(a)
             \/ \E u \in Teams : RefreshReadTask(a, u)
             \/ RefreshResolve(a)
             \/ RefreshPoints(a)
             \/ Abort(a)
    BY <1>5, ZenonT(60)
    DEF CloseBegin, PlanActive, RefreshReadTask, RefreshResolve, RefreshPoints, Abort, Continue
  <1>6. QED
    BY <1>1, <1>2, <1>3, <1>4, <1>5, ZenonT(60) DEF AdminStep, Serve

(* A step that leaves a task as it is keeps a request coming to it, or     *)
(* notes that the refresh was cut short.                                   *)
LEMMA StillComes ==
  ASSUME WInv, NEW a \in Admins, NEW S, Lags(S),
         \/ Serve(a)
         \/ Abort(a) /\ S = Incidents \X Awaiting(a),
         NEW i \in Incidents, NEW t \in Teams, Active(i),
         task[i][t] # Nil, task'[i][t] = task[i][t]
  PROVE  \/ InForce(i, t)'
         \/ <<i, t>> \in lagging'
         \/ \E b \in Admins : Due(b, i, t)'
  <1>1. SInv /\ AdminStep(a)
    BY DEF WInv, AdminStep
  <1>2. CASE plan'[t] # plan[t]
    BY <1>1, <1>2, PlanMoves
  <1>3. CASE <<i, t>> \in lagging
    BY <1>3, LagsStay
  <1>3a. CASE InForce(i, t) /\ plan'[t] = plan[t]
    BY <1>3a DEF InForce, Resolve, Checkpoints
  <1>4. CASE (\E b \in Admins : Due(b, i, t)) /\ plan'[t] = plan[t]
    <2>1. PICK b \in Admins : Due(b, i, t)
      BY <1>4
    <2>2. CASE b # a
      <3>1. req'[b] = req[b]
        BY <1>1, <2>2, RequestMoves DEF SInv
      <3>2. Due(b, i, t)'
        BY <1>4, <2>1, <2>2, <3>1, OthersDue
      <3>3. QED
        BY <3>2
    <2>3. CASE b = a /\ Serve(a)
      <3>1. InForce(i, t)' \/ Due(a, i, t)'
        BY <1>1, <2>1, <2>3, OwnDue
      <3>2. QED
        BY <3>1
    <2>4. CASE b = a /\ Abort(a) /\ S = Incidents \X Awaiting(a)
      <3>1. <<i, t>> \in S
        BY <2>1, <2>4 DEF Due
      <3>2. QED
        BY <3>1, LagsStay
    <2>5. QED
      BY <2>2, <2>3, <2>4
  <1>5. QED
    BY <1>2, <1>3, <1>3a, <1>4 DEF WInv, RefreshComes

(* The invariant of the observed program is kept by one request's step ... *)
LEMMA WatchedStep ==
  ASSUME WInv, SInv', NEW a \in Admins, Resolves(a), NEW S, Lags(S),
         \/ Serve(a) /\ S = Outdated(a)
         \/ Abort(a) /\ S = Incidents \X Awaiting(a)
  PROVE  WInv'
  <1>1. SInv /\ AdminStep(a) /\ RallyFitsArea' /\ TypeOK'
    BY DEF WInv, SInv, IInv, AdminStep
  <1>2. resolved' \in [Admins -> [Teams -> Plan \cup {Nil}]] /\ SnapsResolved'
    BY <1>1, SnapsKept
  <1>3. lagging' \subseteq Incidents \X Teams
    <2>1. S \subseteq Incidents \X Teams
      <3>1. Awaiting(a) \subseteq Teams
        <4>1. req[a] \in Request
          BY <1>1 DEF SInv, IInv, TypeOK
        <4>2. QED
          BY <4>1 DEF Awaiting, Request
      <3>2. QED
        BY <3>1 DEF Outdated
    <2>2. lagging \subseteq Incidents \X Teams
      BY DEF WInv, WatchTypeOK
    <2>3. lagging' \subseteq lagging \cup S
      BY DEF Lags
    <2>4. QED
      BY <2>1, <2>2, <2>3
  <1>4. ASSUME NEW i \in Incidents, NEW t \in Teams, Active(i)', task'[i][t] # Nil
        PROVE  InForce(i, t)' \/ <<i, t>> \in lagging' \/ \E b \in Admins : Due(b, i, t)'
    <2>1. CASE task'[i][t] = task[i][t]
      <3>1. Active(i)
        BY <1>1, <1>4, <2>1, ActiveBefore
      <3>2. QED
        BY <1>4, <2>1, <3>1, StillComes
    <2>2. CASE task'[i][t] # task[i][t] /\ Abort(a)
      BY <2>2, ZenonT(60) DEF Abort, Continue
    <2>3. CASE task'[i][t] # task[i][t] /\ S = Outdated(a)
      <3>1. CASE <<i, t>> \in Outdated(a)
        BY <1>4, <2>3, <3>1, LagsStay
      <3>2. CASE <<i, t>> \notin Outdated(a)
        BY <1>1, <1>4, <2>3, <3>2, WrittenInForce
      <3>3. QED
        BY <3>1, <3>2
    <2>4. QED
      BY <2>1, <2>2, <2>3
  <1>5. RefreshComes'
    BY <1>4 DEF RefreshComes
  <1>6. QED
    BY <1>2, <1>3, <1>5 DEF WInv, WatchTypeOK

(* ... hence by every step, and it holds at the start.                     *)
LEMMA WatchStep == WInv /\ [WatchNext]_<<vars, watch>> => WInv'
  <1> SUFFICES ASSUME WInv, [WatchNext]_<<vars, watch>> PROVE WInv'
    OBVIOUS
  <1>1. SInv'
    BY WatchIsNext, StrongStep DEF WInv
  <1>2. CASE \E a \in Admins : Serve(a) /\ Resolves(a) /\ Lags(Outdated(a))
    BY <1>1, <1>2, WatchedStep
  <1>3. CASE \E a \in Admins : Abort(a) /\ Resolves(a) /\ Lags(Incidents \X Awaiting(a))
    BY <1>1, <1>3, WatchedStep
  <1>4. CASE UNCHANGED <<vars, watch>>
    <2>1. UNCHANGED <<status, task, plan, req, resolved, lagging>>
      BY <1>4 DEF vars, watch
    <2>2. \A a \in Admins, i \in Incidents, t \in Teams : Due(a, i, t)' <=> Due(a, i, t)
      BY <2>1 DEF Due, Awaiting, ReadAsIs
    <2>3. \A i \in Incidents, t \in Teams :
            (InForce(i, t)' <=> InForce(i, t)) /\ (Active(i)' <=> Active(i))
      BY <2>1 DEF InForce, Resolve, Checkpoints, Active
    <2>4. RefreshComes'
      BY <2>1, <2>2, <2>3 DEF RefreshComes, WInv
    <2>5. WatchTypeOK' /\ SnapsResolved'
      BY <2>1 DEF WatchTypeOK, SnapsResolved, FromPlan, WInv
    <2>6. QED
      BY <1>1, <2>4, <2>5 DEF WInv
  <1>5. QED
    BY <1>2, <1>3, <1>4 DEF WatchNext

LEMMA WatchStart == WatchInit => WInv
  <1> SUFFICES ASSUME WatchInit PROVE WInv
    OBVIOUS
  <1>1. SInv
    BY StrongInit DEF WatchInit
  <1>2. WatchTypeOK
    BY DEF WatchInit, WatchTypeOK
  <1>3. SnapsResolved
    BY DEF WatchInit, Init, Idle, NoSnaps, SnapsResolved
  <1>4. RefreshComes
    BY DEF WatchInit, Init, Active, RefreshComes
  <1>5. QED
    BY <1>1, <1>2, <1>3, <1>4 DEF WInv

(* What is observed is the program, and nothing it could not do.           *)
THEOREM Observed == WatchSpec => Spec
  <1>1. WatchInit => Init
    BY DEF WatchInit
  <1>2. QED
    BY <1>1, WatchIsNext, PTL DEF WatchSpec, Spec

(* The observed program keeps its invariant: whenever a team's points are  *)
(* not its plan's, some request has still to come to them, or what made    *)
(* the difference is on record.                                            *)
THEOREM WatchInvariant == WatchSpec => []WInv
  <1>1. QED
    BY WatchStart, WatchStep, PTL DEF WatchSpec

(* The running incident shows the plans that are saved, for any number of  *)
(* administrators saving, opening and changing teams at once.              *)
THEOREM PlansInForce == WatchSpec => []PlanInForce
  <1>1. WInv => PlanInForce
    BY DEF WInv, RefreshComes, PlanInForce, Due
  <1>2. QED
    BY <1>1, WatchInvariant, PTL
================================================================================
