------------------------------- MODULE PlanWatch -------------------------------
(***************************************************************************)
(* Module IncidentStore observed, to say when the running incident must    *)
(* show the plans that are saved.  Nothing of the observed program changes;*)
(* the tracker and the phones write neither plans nor tasks and are left   *)
(* out.                                                                    *)
(***************************************************************************)
EXTENDS IncidentStore

VARIABLES
  resolved,  \* [Admins -> [Teams -> the plan that his request resolved, Nil if it
             \* has none in hand or the plan was saved between its two statements]]
  lagging    \* <<i, t>>: t's points were last written from a plan, or for an area,
             \* that was no longer t's, or a refresh of t was cut short

watch == <<resolved, lagging>>

InForce(i, t) == task[i][t].snap = Resolve(plan[t], plan[t], task[i][t].work.area)
(* The teams a request has still to refresh.                               *)
Awaiting(a) == IF req[a].pc \in {"plan_active", "plan_task", "plan_resolve",
                                 "plan_points", "plan_tx"}
               THEN req[a].todo ELSE {}

Lags(more) ==
  lagging' = {it \in lagging \cup more : task'[it[1]][it[2]] # Nil
                                       /\ ~InForce(it[1], it[2])'}
(* What a's request has just written from an outdated reading.             *)
Outdated(a) ==
  {it \in Incidents \X Teams :
     /\ task'[it[1]][it[2]] # task[it[1]][it[2]]
     /\ resolved[a][it[2]] # plan[it[2]] \/ it \in staleTask'}
Resolves(a) ==
  resolved' = [resolved EXCEPT ![a] = [t \in Teams |->
    CASE req'[a].snaps[t] = req[a].snaps[t]             -> @[t]
      [] req'[a].snaps[t] \notin {Nil, req[a].snaps[t]} ->
           IF req[a].half = plan[t] THEN plan[t] ELSE Nil
      [] OTHER                                          -> Nil]]

WatchInit ==
  /\ Init
  /\ resolved = [a \in Admins |-> [t \in Teams |-> Nil]]
  /\ lagging = {}
WatchNext ==
  \/ \E a \in Admins : Serve(a) /\ Resolves(a) /\ Lags(Outdated(a))
  \/ \E a \in Admins : Abort(a) /\ Resolves(a) /\ Lags(Incidents \X Awaiting(a))
WatchSpec == WatchInit /\ [][WatchNext]_<<vars, watch>>
-----------------------------------------------------------------------------
(* The running incident shows the plans that are saved: a team's points    *)
(* are those of its plan as soon as no request has it still to refresh     *)
(* (refreshActivePlans), unless another request wrote them from an older   *)
(* plan -- an opening that resolved its snapshots before the plan was      *)
(* saved, store.go:117, or one between whose two statements it was saved   *)
(* -- or the refresh was cut short.                                        *)
PlanInForce ==
  \A i \in Incidents, t \in Teams :
    Active(i) /\ task[i][t] # Nil
    => \/ InForce(i, t)
       \/ <<i, t>> \in lagging
       \/ \E a \in Admins : t \in Awaiting(a)
-----------------------------------------------------------------------------
(***************************************************************************)
(* The inductive invariant.  A snapshot kept in a request is the plan that *)
(* it resolved, for the area it resolved it for, if it was read in one     *)
(* piece; and a team whose points are not its plan's has a request that    *)
(* still comes to it: one that has found this incident, or is about to,    *)
(* and that has read task and plan as they are now if it has come to them. *)
(***************************************************************************)
FromPlan(p, s) == s = Resolve(p, p, s.area)

WatchTypeOK ==
  /\ resolved \in [Admins -> [Teams -> Plan \cup {Nil}]]
  /\ lagging \subseteq Incidents \X Teams

SnapsResolved ==
  \A a \in Admins, t \in Teams :
    req[a].snaps[t] # Nil /\ resolved[a][t] # Nil => FromPlan(resolved[a][t], req[a].snaps[t])

ReadAsIs(r, i, t) ==
  /\ r.pc \in {"plan_resolve", "plan_points", "plan_tx"} /\ r.team = t =>
       task[i][t].work.area = r.task.work.area /\ task[i][t].snap = r.task.snap
  /\ r.pc = "plan_points" /\ r.team = t => r.half = plan[t]
Due(a, i, t) ==
  /\ t \in Awaiting(a)
  /\ req[a].pc = "plan_active" \/ req[a].inc = i
  /\ ReadAsIs(req[a], i, t)
RefreshComes ==
  \A i \in Incidents, t \in Teams :
    Active(i) /\ task[i][t] # Nil
    => InForce(i, t) \/ <<i, t>> \in lagging \/ \E a \in Admins : Due(a, i, t)

WInv == SInv /\ WatchTypeOK /\ SnapsResolved /\ RefreshComes
=============================================================================
