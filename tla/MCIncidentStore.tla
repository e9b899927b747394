---------------------------- MODULE MCIncidentStore ----------------------------
(***************************************************************************)
(* Small instances of module IncidentStore: members p1 and p2, teams 1     *)
(* and 2, one mission x, areas A and B, one plan point rally.              *)
(***************************************************************************)
EXTENDS IncidentStore, TLC

CONSTANTS p1, p2, x, A, B, rally

Do(m, ar) == [mission |-> m, area |-> ar]
Follow    == Do(Nil, Nil)

(* p1 is in team 1 and p2 in team 2; or all in team 1; or all in team 2.   *)
OneEach  == [m \in Members |-> IF m = p1 THEN 1 ELSE 2]
AllInOne == [m \in Members |-> 1]
AllInTwo == [m \in Members |-> 2]

(* Every team is called up for x in A, nobody with values of his own.      *)
CallUp == {[tasks     |-> [t \in Teams |-> Do(x, A)],
            overrides |-> [m \in Members |-> Follow]]}
(* Two call-ups: team 1 only, p1 in an area of his own; or everyone.       *)
CallUps == CallUp \cup
  {[tasks     |-> [t \in Teams |-> IF t = 1 THEN Do(x, A) ELSE Nil],
    overrides |-> [m \in Members |-> IF m = p1 THEN Do(Nil, B) ELSE Follow]]}

AreaTasks        == {Do(x, A), Do(x, B)}
AreaOverrides    == {Follow, Do(Nil, B)}
OwnArea          == {Do(Nil, B)}
MoveToB          == {Do(x, B)}
NoForms          == {}

Alike == Permutations(Admins)

(* The plan of team 1 is for area A or for area B; that of 2 is set.       *)
PlanFor(ar) == [area |-> ar, points |-> rally]
Plans  == {[t \in Teams |-> IF t = 1 THEN PlanFor(A) ELSE Nil],
           [t \in Teams |-> IF t = 1 THEN PlanFor(B) ELSE PlanFor(A)]}
OnePlan == {[t \in Teams |-> IF t = 2 THEN PlanFor(A) ELSE Nil]}
=============================================================================
