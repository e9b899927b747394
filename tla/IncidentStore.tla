----------------------------- MODULE IncidentStore -----------------------------
(***************************************************************************)
(* The incident, its team tasks and its assignment rows, and what the      *)
(* administrators' requests do to them: internal/incident/store.go, called *)
(* by the handlers of internal/httpapi/admin_incident.go and               *)
(* team_plan_api.go.                                                       *)
(*                                                                         *)
(* The database has one connection (internal/store/store.go), so a SQL     *)
(* statement, or a transaction, is one atomic step; but a handler issues   *)
(* several, and requests of other administrators, of the members' phones   *)
(* and of the tracker take effect in between.  A request is a record       *)
(* req[a] holding its program counter and everything it has read so far.   *)
(* A client may go away, or a statement fail, between any two (Abort).     *)
(*                                                                         *)
(* Mission texts, areas and plan points are opaque values.  The points of  *)
(* a plan, its rally point and its checkpoints, are one value, and differ  *)
(* from those of a plan for another area; Nil means the defaults of the    *)
(* area.  A reading of a plan may mix two: the rally point comes from one  *)
(* statement, the checkpoints from the next.                               *)
(***************************************************************************)
EXTENDS Integers, FiniteSets

CONSTANTS
  Admins,         \* administrators, one request at a time each
  Members,        \* people on the roster
  Teams,          \* team numbers
  Missions,       \* mission texts
  Areas,          \* active areas
  Points,         \* rally points and checkpoints a plan may hold
  Roster,         \* Roster[m]: the team of active member m, Nil if inactive
  Nil,            \* SQL NULL, or no row
  Incidents,      \* bound: the ids of the incidents opened, 1 .. k
  OpenForms,      \* the requests of POST /a/incidents: [tasks, overrides]
  TaskForms,      \* of PUT /a/incidents/current/teams/{no}
  OverrideForms,  \* of PUT and POST /a/incidents/current/members
  PlanForms,      \* of PUT /a/team-plans: plans per team, Nil = not listed
  Phases,         \* the phases the tracker records
  Phones,         \* the members whose phones are in use
  MaxVer,         \* bound: versions of a task, a row
  AllowAbort      \* whether requests may be cut short

Override == [mission : Missions \cup {Nil}, area : Areas \cup {Nil}]
Work     == [mission : Missions, area : Areas]
Plan     == [area : Areas \cup {Nil}, points : Points \cup {Nil}]
Snap     == [area : Areas, rally : Points \cup {Nil}, checks : Plan]
Task     == [work : Work, snap : Snap, version : Nat]
States   == {"NOTIFIED", "LOGGED_IN", "LOC_DENIED", "MOVING", "ARRIVED", "LEFT"}
Judged   == {"ARRIVED", "LEFT"}

(* A row of `assignment'.  Three fields are history: arrivedIn, the area   *)
(* the recorded arrival is for (Nil when arrived_at is NULL); seen, the    *)
(* work that the acknowledged version stood for; late, whether the tracker *)
(* ever wrote what it had judged of the row before the row changed.        *)
Row == [team : Teams, override : Override, eff : Work, ver : Nat, ack : Nat,
        state : States, arrivedIn : Areas \cup {Nil}, seen : Work, late : BOOLEAN]

(* What requests go by of the tasks and rows they read.                    *)
TaskReading == [work : Work, snap : Snap]
RowReading  == [eff : Work, ver : Nat, state : States]

(* What the tracker has judged and not yet written: the phase, and what    *)
(* the member's phase, area and arrival were when it did.                  *)
Report == [inc : Incidents, from : States, area : Areas, state : States,
           arrivedIn : Areas \cup {Nil}]

(* What a phone shows of the member's row.                                 *)
PhoneCopy == [inc : Incidents, ver : Nat, eff : Work]

ASSUME StoreAssumption ==
  /\ Nil \notin Missions \cup Areas \cup Points \cup Teams \cup Members \cup Incidents
  /\ Nil \notin Work \cup Task \cup Row \cup TaskReading \cup RowReading \cup Plan 
                  \cup Snap \cup Report \cup PhoneCopy \cup OpenForms
  /\ Roster \in [Members -> Teams \cup {Nil}]
  /\ Incidents \subseteq Nat \ {0}
  /\ OpenForms \subseteq [tasks : [Teams -> Work \cup {Nil}],
                          overrides : [Members -> Override]]
  /\ TaskForms \subseteq Work
  /\ OverrideForms \subseteq Override
  /\ PlanForms \subseteq [Teams -> Plan \cup {Nil}]
  /\ Phases \subseteq States
  /\ Phones \subseteq Members
  /\ MaxVer \in Nat
  /\ AllowAbort \in BOOLEAN

VARIABLES
  status,     \* incident.status: [Incidents -> {"none", "active", "closed"}]
  task,       \* team_task: [Incidents -> [Teams -> Task or Nil]]
  asg,        \* assignment: [Incidents -> [Members -> Row or Nil]]
  plan,       \* team_plan with its checkpoints: [Teams -> Plan]
  req,        \* the request each administrator has in flight
  report,     \* what the tracker is about to write of each member
              \* bound: one report of a member under way at a time
  phone,      \* what each phone last fetched with GET /f/me, not yet acked
  staleRow,   \* history: rows <<i, m>> written from an outdated reading
  staleTask   \* history: tasks <<i, t>> written from an outdated reading

db      == <<status, task, asg, plan>>
history == <<staleRow, staleTask>>
vars    == <<status, task, asg, plan, req, report, phone, staleRow, staleTask>>

(***************************************************************************)
(* Requests                                                                *)
(***************************************************************************)
TaskPCs == {"task_resolve", "task_points", "task_tx"}
PCs == {"idle", "open_resolve", "open_points", "add_task", "add_insert",
        "over_task", "over_row", "over_write", "close_write", "plan_active",
        "plan_task", "plan_resolve", "plan_points", "plan_tx"} \cup TaskPCs

Request ==
  [pc     : PCs,
   inc    : Incidents \cup {Nil},       \* the incident GetActive returned
   team   : Teams \cup {Nil},
   member : Members \cup {Nil},
   open   : OpenForms \cup {Nil},
   ask    : Override,                   \* the values asked for
   todo   : SUBSET Teams,               \* teams the request has still to treat
   task   : TaskReading \cup {Nil},     \* team_task as read
   row    : RowReading \cup {Nil},      \* assignment as read
   half   : Plan \cup {Nil},            \* team_plan as read, checkpoint not yet
   snaps  : [Teams -> Snap \cup {Nil}], \* plans as resolved
   torn   : SUBSET Teams]               \* history: saved for another area in between

TaskAsRead(tt) == [work |-> tt.work, snap |-> tt.snap]
RowAsRead(r)   == [eff |-> r.eff, ver |-> r.ver, state |-> r.state]
NoSnaps == [t \in Teams |-> Nil]
Idle ==
  [pc |-> "idle", inc |-> Nil, team |-> Nil, member |-> Nil, open |-> Nil,
   ask |-> [mission |-> Nil, area |-> Nil], todo |-> {}, task |-> Nil,
   row |-> Nil, half |-> Nil, snaps |-> NoSnaps, torn |-> {}]

Active(i) == status[i] = "active"

(* One statement of request a: it goes on as r, and changes nothing else.  *)
Continue(a, r) ==
  /\ req' = [req EXCEPT ![a] = r]
  /\ UNCHANGED <<status, task, asg, plan, report, phone, staleRow, staleTask>>

Finish(a) == req' = [req EXCEPT ![a] = Idle]

(* resolveTeamSnapshot: PlanStore.List reads team_plan, which gives p, and *)
(* checkpoint in a statement of its own, which gives the checkpoints of q. *)
(* The plan counts if it is for this area, else the defaults of the area.  *)
NoPlan == [area |-> Nil, points |-> Nil]
Checkpoints(q) == IF q.points = Nil THEN NoPlan ELSE q
Resolve_AnyArea(p, q, ar) ==   \* mutant: the plan's area is not compared
  [area |-> ar, rally |-> p.points, checks |-> Checkpoints(q)]
Resolve(p, q, ar) ==
  IF p.area = ar
  THEN [area |-> ar, rally |-> p.points, checks |-> Checkpoints(q)]
  ELSE [area |-> ar, rally |-> Nil, checks |-> NoPlan]

(* The two statements, of a request for team t that then goes on at pc.    *)
ReadPlan(r, t, pc) == [r EXCEPT !.pc = pc, !.team = t, !.half = plan[t]]
ReadPoints(r, t, ar) ==
  [r EXCEPT !.half = Nil, !.snaps[t] = Resolve(r.half, plan[t], ar),
            !.torn = IF plan[t].area = r.half.area THEN @ ELSE @ \cup {t}]

(* The effective values: the personal override, else the team's.           *)
Effective_OverrideOnly(o, w) == o   \* mutant: no fallback to the team's values
Effective(o, w) ==
  [mission |-> IF o.mission = Nil THEN w.mission ELSE o.mission,
   area    |-> IF o.area = Nil THEN w.area ELSE o.area]

NewRow(t, o, w) ==
  [team |-> t, override |-> o, eff |-> Effective(o, w), ver |-> 1, ack |-> 1,
   state |-> "NOTIFIED", arrivedIn |-> Nil, seen |-> Effective(o, w), late |-> FALSE]

(* A new effective area voids a recorded arrival.                          *)
VoidArrival_Not(r) == r   \* mutant: the arrival is kept
VoidArrival(r) ==
  IF r.state \in Judged
  THEN [r EXCEPT !.state = "MOVING", !.arrivedIn = Nil]
  ELSE r

(***************************************************************************)
(* POST /a/incidents                                                       *)
(***************************************************************************)
Listed(f) == {t \in Teams : f[t] # Nil}

OpenBegin(a, f) ==
  /\ req[a].pc = "idle"
  /\ Listed(f.tasks) # {}
  /\ Continue(a, [Idle EXCEPT !.pc = "open_resolve", !.open = f,
                              !.todo = Listed(f.tasks)])

OpenResolve(a, t) ==
  /\ req[a].pc = "open_resolve"
  /\ t \in req[a].todo
  /\ Continue(a, ReadPlan(req[a], t, "open_points"))

OpenPoints(a) ==
  LET t == req[a].team IN
  /\ req[a].pc = "open_points"
  /\ Continue(a, [ReadPoints(req[a], t, req[a].open.tasks[t].area)
                    EXCEPT !.pc = "open_resolve", !.team = Nil, !.todo = @ \ {t}])

(* The unique index on status = 'active' refuses a second active incident. *)
IndexRefuses_Never == FALSE   \* mutant: no such index
IndexRefuses == \E j \in Incidents : Active(j)

(* The transaction; ids are handed out in order.                           *)
OpenCommit(a) ==
  LET f == req[a].open IN
  /\ req[a].pc = "open_resolve"
  /\ req[a].todo = {}
  /\ IF IndexRefuses
     THEN UNCHANGED <<status, task, asg, staleTask>>
     ELSE \E i \in Incidents :
            /\ status[i] = "none"
            /\ \A j \in Incidents : j < i => status[j] # "none"
            /\ status' = [status EXCEPT ![i] = "active"]
            /\ task' = [task EXCEPT ![i] = [t \in Teams |->
                 IF f.tasks[t] = Nil THEN Nil
                 ELSE [work |-> f.tasks[t], snap |-> req[a].snaps[t], version |-> 1]]]
            /\ asg' = [asg EXCEPT ![i] = [m \in Members |->
                 IF Roster[m] = Nil THEN Nil
                 ELSE IF f.tasks[Roster[m]] = Nil THEN Nil
                 ELSE NewRow(Roster[m], f.overrides[m], f.tasks[Roster[m]])]]
            /\ staleTask' = staleTask \cup ({i} \X req[a].torn)
  /\ Finish(a)
  /\ UNCHANGED <<plan, report, phone, staleRow>>

(***************************************************************************)
(* PUT /a/incidents/current/teams/{no}                                     *)
(***************************************************************************)
TaskBegin(a, t, w) ==
  /\ req[a].pc = "idle"
  /\ \E i \in Incidents :
       /\ Active(i)
       /\ Continue(a, [Idle EXCEPT !.pc = "task_resolve", !.inc = i,
                                   !.team = t, !.ask = w])

TaskResolve(a) ==
  /\ req[a].pc = "task_resolve"
  /\ Continue(a, ReadPlan(req[a], req[a].team, "task_points"))

TaskPoints(a) ==
  /\ req[a].pc = "task_points"
  /\ Continue(a, [ReadPoints(req[a], req[a].team, req[a].ask.area) EXCEPT !.pc = "task_tx"])

(* A member of the team gets the new values where no override holds; a     *)
(* member whose values do change gets a new version, and loses an arrival  *)
(* if the area changed.                                                    *)
Retask_All(r, w) ==   \* mutant: overrides are not spared
  IF w = r.eff THEN r
  ELSE [(IF w.area # r.eff.area THEN VoidArrival(r) ELSE r) EXCEPT !.eff = w, !.ver = r.ver + 1]
Retask_Silent(r, w) ==   \* mutant: mission_ver stays
  LET new == Effective(r.override, w)
  IN  [(IF new.area # r.eff.area THEN VoidArrival(r) ELSE r) EXCEPT !.eff = new]
Retask_Always(r, w) ==   \* mutant: mission_ver moves without a change
  LET new == Effective(r.override, w)
  IN  [(IF new.area # r.eff.area THEN VoidArrival(r) ELSE r) EXCEPT !.eff = new, !.ver = r.ver + 1]
Retask(r, w) ==
  LET new   == [mission |-> IF r.override.mission = Nil THEN w.mission ELSE r.eff.mission,
                area    |-> IF r.override.area = Nil THEN w.area ELSE r.eff.area]
      moved == IF new.area # r.eff.area THEN VoidArrival(r) ELSE r
  IN  IF new = r.eff THEN r ELSE [moved EXCEPT !.eff = new, !.ver = r.ver + 1]

TeamRows_All(i, t) == {m \in Members : asg[i][m] # Nil}   \* mutant: every team's rows
TeamRows(i, t) == {m \in Members : asg[i][m] # Nil /\ asg[i][m].team = t}
Room(i, t) == /\ task[i][t] # Nil => task[i][t].version < MaxVer
              /\ \A m \in TeamRows(i, t) : asg[i][m].ver < MaxVer

TaskCommit(a) ==
  LET i == req[a].inc
      t == req[a].team
  IN  /\ req[a].pc = "task_tx"
      /\ Room(i, t)
      /\ task' = [task EXCEPT ![i][t] =
           IF @ = Nil THEN Nil
           ELSE [work |-> req[a].ask, snap |-> req[a].snaps[t],
                 version |-> @.version + 1]]
      /\ asg' = [asg EXCEPT ![i] = [m \in Members |->
           IF m \in TeamRows(i, t) THEN Retask(asg[i][m], req[a].ask) ELSE asg[i][m]]]
      /\ staleTask' = staleTask \cup ({i} \X req[a].torn)
      /\ Finish(a)
      /\ UNCHANGED <<status, plan, report, phone, staleRow>>

(***************************************************************************)
(* POST /a/incidents/current/members                                       *)
(***************************************************************************)
AddBegin(a, m, t, o) ==
  /\ req[a].pc = "idle"
  /\ \E i \in Incidents :
       /\ Active(i)
       /\ Continue(a, [Idle EXCEPT !.pc = "add_task", !.inc = i, !.member = m,
                                   !.team = t, !.ask = o])

(* A team that is not part of the incident is refused.                     *)
AddReadTask(a) ==
  LET tt == task[req[a].inc][req[a].team] IN
  /\ req[a].pc = "add_task"
  /\ Continue(a, IF tt = Nil THEN Idle
                 ELSE [req[a] EXCEPT !.pc = "add_insert", !.task = TaskAsRead(tt)])

(* INSERT; the primary key refuses a member who already has a row.         *)
AddInsert(a) ==
  LET i   == req[a].inc
      m   == req[a].member
      t   == req[a].team
      new == asg[i][m] = Nil
  IN  /\ req[a].pc = "add_insert"
      /\ asg' = [asg EXCEPT ![i][m] =
           IF new THEN NewRow(t, req[a].ask, req[a].task.work) ELSE @]
      /\ staleRow' = IF new /\ (task[i][t].work # req[a].task.work \/ ~Active(i))
                     THEN staleRow \cup {<<i, m>>} ELSE staleRow
      /\ Finish(a)
      /\ UNCHANGED <<status, task, plan, report, phone, staleTask>>

(***************************************************************************)
(* PUT /a/incidents/current/members/{id}                                   *)
(***************************************************************************)
OverrideBegin(a, m, o) ==
  /\ req[a].pc = "idle"
  /\ \E i \in Incidents :
       /\ Active(i)
       /\ Continue(a, [Idle EXCEPT !.pc = "over_task", !.inc = i, !.member = m,
                                   !.ask = o])

(* getAssignmentTeam and GetTeamTask; a row never changes its team.        *)
OverrideReadTask(a) ==
  LET i == req[a].inc
      r == asg[i][req[a].member]
  IN  /\ req[a].pc = "over_task"
      /\ Continue(a, IF r = Nil THEN Idle
                     ELSE [req[a] EXCEPT !.pc = "over_row", !.team = r.team,
                                         !.task = TaskAsRead(task[i][r.team])])

OverrideReadRow(a) ==
  LET r == asg[req[a].inc][req[a].member] IN
  /\ req[a].pc = "over_row"
  /\ Continue(a, [req[a] EXCEPT !.pc = "over_write",
                    !.row = RowAsRead(r)])

(* The UPDATE writes values and a version computed from the reading r, on  *)
(* whatever the row has become since.                                      *)
Overwrite_Always(row, r, o, w) ==   \* mutant: mission_ver moves without a change
  LET new     == Effective(o, w)
      written == [row EXCEPT !.override = o, !.eff = new, !.ver = r.ver + 1]
  IN  IF new.area # r.eff.area /\ r.state \in Judged
      THEN [written EXCEPT !.state = "MOVING", !.arrivedIn = Nil]
      ELSE written
Overwrite_Silent(row, r, o, w) ==   \* mutant: mission_ver stays
  LET new     == Effective(o, w)
      written == [row EXCEPT !.override = o, !.eff = new]
  IN  IF new.area # r.eff.area /\ r.state \in Judged
      THEN [written EXCEPT !.state = "MOVING", !.arrivedIn = Nil]
      ELSE written
Overwrite(row, r, o, w) ==
  LET new     == Effective(o, w)
      written == [row EXCEPT !.override = o, !.eff = new,
                             !.ver = IF new # r.eff THEN r.ver + 1 ELSE r.ver]
  IN  IF new.area # r.eff.area /\ r.state \in Judged
      THEN [written EXCEPT !.state = "MOVING", !.arrivedIn = Nil]
      ELSE written

(* What the request read is no longer what it writes on.                   *)
OutdatedOverride(a) ==
  LET i   == req[a].inc
      row == asg[i][req[a].member]
      r   == req[a].row
  IN  \/ ~Active(i)
      \/ task[i][req[a].team].work # req[a].task.work
      \/ row.eff # r.eff
      \/ row.ver # r.ver
      \/ row.state \in Judged /\ r.state \notin Judged

OverrideWrite(a) ==
  LET i == req[a].inc
      m == req[a].member
  IN  /\ req[a].pc = "over_write"
      /\ req[a].row.ver < MaxVer
      /\ asg' = [asg EXCEPT ![i][m] =
                   Overwrite(@, req[a].row, req[a].ask, req[a].task.work)]
      /\ staleRow' = IF OutdatedOverride(a) THEN staleRow \cup {<<i, m>>} ELSE staleRow
      /\ Finish(a)
      /\ UNCHANGED <<status, task, plan, report, phone, staleTask>>

(***************************************************************************)
(* POST /a/incidents/current/close                                         *)
(***************************************************************************)
CloseBegin(a) ==
  /\ req[a].pc = "idle"
  /\ \E i \in Incidents :
       /\ Active(i)
       /\ Continue(a, [Idle EXCEPT !.pc = "close_write", !.inc = i])

CloseWrite(a) ==
  /\ req[a].pc = "close_write"
  /\ status' = [status EXCEPT ![req[a].inc] = "closed"]
  /\ Finish(a)
  /\ UNCHANGED <<task, asg, plan, report, phone, staleRow, staleTask>>

(***************************************************************************)
(* PUT /a/team-plans: the plans are saved in one transaction, then copied  *)
(* into the running incident one team at a time (refreshActivePlans).      *)
(***************************************************************************)
PlanSave(a, f) ==
  /\ req[a].pc = "idle"
  /\ Listed(f) # {}
  /\ plan' = [t \in Teams |-> IF f[t] = Nil THEN plan[t] ELSE f[t]]
  /\ req' = [req EXCEPT ![a] = [Idle EXCEPT !.pc = "plan_active", !.todo = Listed(f)]]
  /\ UNCHANGED <<status, task, asg, report, phone, staleRow, staleTask>>

PlanActive(a) ==
  /\ req[a].pc = "plan_active"
  /\ IF \E i \in Incidents : Active(i)
     THEN \E i \in Incidents :
            /\ Active(i)
            /\ Continue(a, [req[a] EXCEPT !.pc = "plan_task", !.inc = i])
     ELSE Continue(a, Idle)

(* The request after team t has been treated.                              *)
NextTeam_Stop(r, t) == Idle   \* mutant: only one team is refreshed
NextTeam(r, t) ==
  IF r.todo = {t} THEN Idle
  ELSE [r EXCEPT !.pc = "plan_task", !.team = Nil, !.task = Nil, !.half = Nil,
                 !.snaps = NoSnaps, !.torn = {}, !.todo = @ \ {t}]

RefreshReadTask(a, t) ==
  LET tt == task[req[a].inc][t] IN
  /\ req[a].pc = "plan_task"
  /\ t \in req[a].todo
  /\ Continue(a, IF tt = Nil THEN NextTeam(req[a], t)
                 ELSE [req[a] EXCEPT !.pc = "plan_resolve", !.team = t,
                                         !.task = TaskAsRead(tt)])

RefreshResolve(a) ==
  /\ req[a].pc = "plan_resolve"
  /\ Continue(a, ReadPlan(req[a], req[a].team, "plan_points"))

(* Nothing is written when the task already has the plan's points.         *)
RefreshPoints(a) ==
  LET t == req[a].team
      r == ReadPoints(req[a], t, req[a].task.work.area)
  IN  /\ req[a].pc = "plan_points"
      /\ Continue(a, IF r.snaps[t] = req[a].task.snap THEN NextTeam(req[a], t)
                     ELSE [r EXCEPT !.pc = "plan_tx"])

RefreshCommit(a) ==
  LET i == req[a].inc
      t == req[a].team
      tt == task[i][t]
      follows(m) == m \in TeamRows(i, t) /\ asg[i][m].override.area = Nil
  IN  /\ req[a].pc = "plan_tx"
      /\ Room(i, t)
      /\ task' = [task EXCEPT ![i][t] = [tt EXCEPT !.snap = req[a].snaps[t],
                                                   !.version = @ + 1]]
      /\ asg' = [asg EXCEPT ![i] = [m \in Members |->
           IF follows(m) THEN [asg[i][m] EXCEPT !.ver = @ + 1] ELSE asg[i][m]]]
      /\ staleTask' = IF \/ tt.work.area # req[a].task.work.area
                         \/ tt.snap # req[a].task.snap
                         \/ t \in req[a].torn
                      THEN staleTask \cup {<<i, t>>} ELSE staleTask
      /\ req' = [req EXCEPT ![a] = NextTeam(req[a], t)]
      /\ UNCHANGED <<status, plan, report, phone, staleRow>>

(* The client disconnects, or a statement fails.                           *)
Abort(a) ==
  /\ AllowAbort
  /\ req[a].pc # "idle"
  /\ Continue(a, Idle)

(***************************************************************************)
(* The rest of the server, as far as it writes these tables                *)
(***************************************************************************)
(* The tracker judges under its lock, on the phase and area it has in      *)
(* memory (ProcessFix, MarkLoggedIn, ConsentDenied) ...                    *)
NextPhases(s) ==
  CASE s = "NOTIFIED"   -> {"LOGGED_IN", "LOC_DENIED", "MOVING"}
    [] s = "LOGGED_IN"  -> {"LOC_DENIED", "MOVING"}
    [] s = "LOC_DENIED" -> {"MOVING"}
    [] s = "MOVING"     -> {"ARRIVED"}
    [] s = "ARRIVED"    -> {"LEFT"}
    [] s = "LEFT"       -> {"ARRIVED"}

(* A request other than a report, or one that changes nothing, writes the  *)
(* column state alone (tracker.go:194, :429).                              *)
StateOnly(c) == c.state = c.from \/ c.state \in {"LOGGED_IN", "LOC_DENIED"}

TrackerJudge(m, s) ==
  \E i \in Incidents :
    LET r == asg[i][m] IN
    /\ Active(i)
    /\ r # Nil
    /\ report[m] = Nil
    /\ s \in NextPhases(r.state) \cup {r.state}
    /\ report' = [report EXCEPT ![m] =
         [inc |-> i, from |-> r.state, area |-> r.eff.area, state |-> s,
          arrivedIn |-> IF s = "ARRIVED" /\ s # r.state THEN r.eff.area ELSE r.arrivedIn]]
    /\ UNCHANGED <<status, task, asg, plan, req, phone, staleRow, staleTask>>

(* ... and writes after it, whatever the row has become since (syncFlush). *)
(* A record in memory that is older than the row is a judgement made       *)
(* earlier; module Tracker has the records, their reloads and the writes   *)
(* that fail.                                                              *)
TrackerWrite(m) ==
  LET c == report[m]
      r == asg[c.inc][m]
  IN  /\ c # Nil
      /\ asg' = [asg EXCEPT ![c.inc][m] =
           [r EXCEPT !.state = c.state,
                     !.arrivedIn = IF StateOnly(c) THEN r.arrivedIn ELSE c.arrivedIn,
                     !.late = r.late \/ r.state # c.from \/ r.eff.area # c.area]]
      /\ report' = [report EXCEPT ![m] = Nil]
      /\ UNCHANGED <<status, task, plan, req, phone, staleRow, staleTask>>

(* GET /f/me gives the phone the member's work and its version ...         *)
Fetch(m) ==
  \E i \in Incidents :
    /\ Active(i)
    /\ asg[i][m] # Nil
    /\ phone' = [phone EXCEPT ![m] = [inc |-> i, ver |-> asg[i][m].ver, eff |-> asg[i][m].eff]]
    /\ UNCHANGED <<status, task, asg, plan, req, report, staleRow, staleTask>>

(* ... which it acknowledges with POST /f/ack {mv}.  The request does not  *)
(* name an incident: it is written to the row of the one active now.       *)
Ack(m) ==
  \E i \in Incidents :
    /\ Active(i)
    /\ asg[i][m] # Nil
    /\ phone[m] # Nil
    /\ asg' = [asg EXCEPT ![i][m].ack = phone[m].ver, ![i][m].seen = phone[m].eff]
    /\ phone' = [phone EXCEPT ![m] = Nil]
    /\ staleRow' = IF phone[m].inc # i THEN staleRow \cup {<<i, m>>} ELSE staleRow
    /\ UNCHANGED <<status, task, plan, req, report, staleTask>>

Init ==
  /\ status = [i \in Incidents |-> "none"]
  /\ task = [i \in Incidents |-> [t \in Teams |-> Nil]]
  /\ asg = [i \in Incidents |-> [m \in Members |-> Nil]]
  /\ plan = [t \in Teams |-> NoPlan]
  /\ req = [a \in Admins |-> Idle]
  /\ report = [m \in Members |-> Nil]
  /\ phone = [m \in Members |-> Nil]
  /\ staleRow = {}
  /\ staleTask = {}

Serve(a) ==
  \/ \E f \in OpenForms : OpenBegin(a, f)
  \/ \E t \in Teams : OpenResolve(a, t)
  \/ OpenPoints(a)
  \/ OpenCommit(a)
  \/ \E t \in Teams, w \in TaskForms : TaskBegin(a, t, w)
  \/ TaskResolve(a)
  \/ TaskPoints(a)
  \/ TaskCommit(a)
  \/ \E m \in Members, t \in Teams, o \in OverrideForms : AddBegin(a, m, t, o)
  \/ AddReadTask(a)
  \/ AddInsert(a)
  \/ \E m \in Members, o \in OverrideForms : OverrideBegin(a, m, o)
  \/ OverrideReadTask(a)
  \/ OverrideReadRow(a)
  \/ OverrideWrite(a)
  \/ CloseBegin(a)
  \/ CloseWrite(a)
  \/ \E f \in PlanForms : PlanSave(a, f)
  \/ PlanActive(a)
  \/ \E t \in Teams : RefreshReadTask(a, t)
  \/ RefreshResolve(a)
  \/ RefreshPoints(a)
  \/ RefreshCommit(a)
AdminStep(a) == Serve(a) \/ Abort(a)

Next ==
  \/ \E a \in Admins : AdminStep(a)
  \/ \E m \in Members, s \in Phases : TrackerJudge(m, s)
  \/ \E m \in Members : TrackerWrite(m)
  \/ \E m \in Phones : Fetch(m)
  \/ \E m \in Phones : Ack(m)

Spec == Init /\ [][Next]_vars

(***************************************************************************)
(* Properties                                                              *)
(***************************************************************************)
(* Every variable keeps its type: what the tables, the requests and the    *)
(* phones may hold, with no task or row that lacks an effective value.     *)
TypeOK ==
  /\ status \in [Incidents -> {"none", "active", "closed"}]
  /\ task \in [Incidents -> [Teams -> Task \cup {Nil}]]
  /\ asg \in [Incidents -> [Members -> Row \cup {Nil}]]
  /\ plan \in [Teams -> Plan]
  /\ req \in [Admins -> Request]
  /\ report \in [Members -> Report \cup {Nil}]
  /\ phone \in [Members -> PhoneCopy \cup {Nil}]
  /\ staleRow \subseteq Incidents \X Members
  /\ staleTask \subseteq Incidents \X Teams

(* At most one incident is active, whatever two administrators open at the *)
(* same time.                                                              *)
OneActive == \A i, j \in Incidents : Active(i) /\ Active(j) => i = j

Clean(i, m) == asg[i][m] # Nil /\ <<i, m>> \notin staleRow

(* The stored effective values are what the overrides and the team task    *)
(* make them (columns eff_mission, eff_area_id), in every row that was     *)
(* never written from an outdated reading: of these columns, requests that *)
(* overlap are the only way to break it.                                   *)
EffFollowsTask ==
  \A i \in Incidents, m \in Members :
    Clean(i, m) =>
      LET r == asg[i][m] IN
      /\ task[i][r.team] # Nil
      /\ r.eff = Effective(r.override, task[i][r.team].work)

(* A member shown as having acknowledged the current version has seen the  *)
(* current work: no change is ever taken for acknowledged.                 *)
AckedIsCurrent ==
  \A i \in Incidents, m \in Members :
    Clean(i, m) =>
      LET r == asg[i][m] IN
      /\ r.ack <= r.ver
      /\ r.ack = r.ver => r.seen = r.eff

(* An arrival is always one in the area the member is assigned to now: the *)
(* requests that move a member void it (docs/SPEC.md 5.3), in every order  *)
(* with each other and with the tracker's reports.  Excepted are rows that *)
(* were written from an outdated reading, or by a report judged before the *)
(* row changed (late): only the next reload tells the tracker.             *)
ArrivalHeld(r) == r.arrivedIn = IF r.state \in Judged THEN r.eff.area ELSE Nil
ArrivedWhereAssigned ==
  \A i \in Incidents, m \in Members :
    Clean(i, m) /\ ~asg[i][m].late => ArrivalHeld(asg[i][m])

(* A team's rally point and its checkpoints are those for the team's area, *)
(* unless a refresh wrote them over a task that had moved, or the plan was *)
(* saved for another area between the two statements that read it.         *)
FitsArea(s, ar) == s.area = ar /\ (s.checks.points # Nil => s.checks.area = ar)
RallyFitsArea ==
  \A i \in Incidents, t \in Teams :
    task[i][t] # Nil /\ <<i, t>> \notin staleTask =>
      FitsArea(task[i][t].snap, task[i][t].work.area)

(* mission_ver counts the changes a member has to be told of: it moves     *)
(* with the effective values or the team's plan, by one, and never         *)
(* without them (docs/SPEC.md 5.3 rule 2; RefreshTeamPlan).                *)
VersionCountsChanges ==
  [][\A i \in Incidents, m \in Members :
       /\ asg[i][m] # Nil
       /\ <<i, m>> \notin staleRow' /\ <<i, asg[i][m].team>> \notin staleTask'
       => LET r == asg[i][m]
              n == asg'[i][m]
          IN  \/ n.ver = r.ver /\ n.eff = r.eff
              \/ /\ n.ver = r.ver + 1
                 /\ n.eff # r.eff \/ task'[i][r.team].snap # task[i][r.team].snap]_vars

(* What is done to one team's task or member disturbs no other team        *)
(* (docs/SPEC.md 5.3 rule 5, acceptance case R2), however many statements  *)
(* the request takes: a statement changes rows of the request's incident   *)
(* and of the teams, or the member, that it was asked for and has still to *)
(* treat, and these never become more on the way.  What the tracker or a   *)
(* phone writes is one row.                                                *)
Reach(r) == IF r.member # Nil THEN Teams ELSE IF r.pc \in TaskPCs THEN {r.team} ELSE r.todo
Concerns(r, i, m) ==
  r.inc = i /\ asg[i][m].team \in Reach(r) /\ r.member \in {Nil, m}
Narrows(r, n) ==
  r.pc # "idle" /\ n.pc # "idle" =>
    Reach(n) \subseteq Reach(r) /\ n.member = r.member /\ r.inc \in {Nil, n.inc}
OtherTeamsUntouched ==
  [][LET changed == {im \in Incidents \X Members :
                       /\ asg[im[1]][im[2]] # Nil
                       /\ asg'[im[1]][im[2]] # asg[im[1]][im[2]]}
     IN  /\ req' = req => \A c, d \in changed : c = d
         /\ \A a \in Admins :
              /\ Narrows(req[a], req'[a])
              /\ req'[a] # req[a] => \A c \in changed : Concerns(req[a], c[1], c[2])]_vars

(***************************************************************************)
(* The inductive invariant: what a request at a given point of its handler *)
(* may rely on, and the relation between the rows and the phones.          *)
(***************************************************************************)
(* The rows and tasks a request has found exist for ever.                  *)
Resolved(r, t, ar) ==
  r.snaps[t] # Nil /\ r.snaps[t].area = ar /\ (t \notin r.torn => FitsArea(r.snaps[t], ar))

OpenRequestOK(r) ==
  /\ r.pc \in {"open_resolve", "open_points"} =>
       /\ r.open # Nil
       /\ \A t \in r.todo : r.open.tasks[t] # Nil
       /\ \A t \in Teams \ r.todo :
            r.open.tasks[t] # Nil => Resolved(r, t, r.open.tasks[t].area)
  /\ r.pc = "open_points" => r.team \in r.todo /\ r.half # Nil

TaskRequestOK(r) ==
  /\ r.pc \in TaskPCs => r.inc # Nil /\ r.team # Nil /\ r.ask \in Work
  /\ r.pc = "task_points" => r.half # Nil
  /\ r.pc = "task_tx" => Resolved(r, r.team, r.ask.area)

AddRequestOK(r) ==
  /\ r.pc \in {"add_task", "add_insert"} =>
       r.inc # Nil /\ r.team # Nil /\ r.member # Nil
  /\ r.pc = "add_insert" => r.task # Nil /\ task[r.inc][r.team] # Nil

OverrideRequestOK(r) ==
  /\ r.pc \in {"over_task", "over_row", "over_write"} => r.inc # Nil /\ r.member # Nil
  /\ r.pc \in {"over_row", "over_write"} =>
       /\ r.task # Nil
       /\ asg[r.inc][r.member] # Nil
       /\ asg[r.inc][r.member].team = r.team
  /\ r.pc = "over_write" => r.row # Nil

CloseRequestOK(r) == r.pc = "close_write" => r.inc # Nil

PlanRequestOK(r) ==
  /\ r.pc \in {"plan_task", "plan_resolve", "plan_points", "plan_tx"} => r.inc # Nil
  /\ r.pc \in {"plan_resolve", "plan_points", "plan_tx"} =>
       r.team \in r.todo /\ r.task # Nil /\ task[r.inc][r.team] # Nil
  /\ r.pc = "plan_points" => r.half # Nil
  /\ r.pc = "plan_tx" => Resolved(r, r.team, r.task.work.area)

RequestOK(r) ==
  /\ r.inc # Nil => status[r.inc] # "none"
  /\ OpenRequestOK(r)
  /\ TaskRequestOK(r)
  /\ AddRequestOK(r)
  /\ OverrideRequestOK(r)
  /\ CloseRequestOK(r)
  /\ PlanRequestOK(r)

RequestsOK == \A a \in Admins : RequestOK(req[a])

RowsHaveTasks ==
  \A i \in Incidents, m \in Members :
    asg[i][m] # Nil => task[i][asg[i][m].team] # Nil

(* A phone is never ahead of its row, and level with it only if it shows   *)
(* the work the row has now.                                               *)
PhonesBehind ==
  \A m \in Members :
    phone[m] # Nil =>
      LET c == phone[m]
          r == asg[c.inc][m]
      IN  /\ status[c.inc] # "none"
          /\ r # Nil
          /\ Clean(c.inc, m) => /\ c.ver <= r.ver
                                /\ c.ver = r.ver => c.eff = r.eff

(* What the tracker is about to write is a step from what it judged; and,  *)
(* of a row never written late, it holds the arrival for the area judged.  *)
ReportsOK ==
  \A m \in Members :
    report[m] # Nil =>
      LET c == report[m] IN
      /\ status[c.inc] # "none"
      /\ asg[c.inc][m] # Nil
      /\ c.state \in NextPhases(c.from) \cup {c.from}
      /\ Clean(c.inc, m) /\ ~asg[c.inc][m].late =>
           c.arrivedIn = IF c.state \in Judged THEN c.area ELSE Nil

IInv ==
  /\ TypeOK
  /\ RequestsOK
  /\ RowsHaveTasks
  /\ OneActive
  /\ PhonesBehind
  /\ ReportsOK
  /\ EffFollowsTask
  /\ AckedIsCurrent
  /\ ArrivedWhereAssigned
  /\ RallyFitsArea

(* An incident not yet opened has no rows and no tasks; a refresh goes on  *)
(* to its transaction only with points that differ from those it read; and *)
(* a request names a member only if it is about him, and an incident only  *)
(* once it has asked for the active one.                                   *)
Unopened ==
  \A i \in Incidents :
    status[i] = "none" => /\ \A m \in Members : asg[i][m] = Nil
                          /\ \A t \in Teams : task[i][t] = Nil
RefreshDue(r) == r.pc = "plan_tx" => r.snaps[r.team] # r.task.snap
MemberPCs == {"add_task", "add_insert", "over_task", "over_row", "over_write"}
Purpose(r) == /\ r.member # Nil => r.pc \in MemberPCs
              /\ r.pc = "plan_active" => r.inc = Nil
SInv == IInv /\ Unopened /\ \A a \in Admins : RefreshDue(req[a]) /\ Purpose(req[a])

(***************************************************************************)
(* What the documents say without exception                                *)
(***************************************************************************)
(* docs/SPEC.md 5.2: a closed incident is read-only.                       *)
ClosedIsReadOnly ==
  [][\A i \in Incidents :
       status[i] = "closed" => task'[i] = task[i] /\ asg'[i] = asg[i]]_vars

(* docs/SPEC.md 5.3 rule 3: a member who is moved to another area is       *)
(* MOVING, his arrival gone.  A report judged before and written after it  *)
(* brings the arrival back.                                                *)
MovedArriveAnew ==
  \A i \in Incidents, m \in Members : asg[i][m] # Nil => ArrivalHeld(asg[i][m])

(* docs/SPEC_AREA_EDITOR.md 3.5: rally point and checkpoints are those of  *)
(* the team's plan if it is for the team's area, else the area's defaults. *)
PointsAlwaysFit ==
  \A i \in Incidents, t \in Teams :
    task[i][t] # Nil => FitsArea(task[i][t].snap, task[i][t].work.area)
=============================================================================
