------------------------------- MODULE Presence -------------------------------
(***************************************************************************)
(* What the tracker promises about ONE assigned member: the phases of      *)
(* docs/SPEC.md 5.1 and the transitions in the table of 6.2, stated over   *)
(* the evidence itself.  `evidence' is the sequence of judged fixes (valid *)
(* and not implausible) received since the member's phase last changed.  A *)
(* phase changes when the trailing run of agreeing fixes spans the         *)
(* required time; no counter appears here.  Module Judge models the        *)
(* counters of internal/tracker/judge.go and is shown to implement this.   *)
(*                                                                         *)
(* One sentence of 6.2 is NOT part of this promise, because the code does  *)
(* not keep it: arrived_at is to be recorded only once (docs/SPEC.md:503). *)
(* The code records each arrival, a return included (judge.go:238), and so *)
(* does Observe; ArrivalRecordedOnce in Judge is the document's sentence.  *)
(***************************************************************************)
EXTENDS Integers, Sequences

CONSTANTS
  ArriveGap,   \* seconds two inside fixes must span to count as an arrival
  LeaveGap,    \* seconds two outside fixes must span to count as a departure
  Times        \* the timestamps fixes may carry

VARIABLES
  state,       \* assignment.state
  arrivedAt,   \* assignment.arrived_at, 0 when NULL
  evidence     \* judged fixes since the phase last changed: [zone, ts]

presenceVars == <<state, arrivedAt, evidence>>

Waiting == {"NOTIFIED", "LOGGED_IN", "LOC_DENIED"}
EnRoute == {"MOVING", "LEFT"}
States  == Waiting \cup EnRoute \cup {"ARRIVED"}

(* "in": on or inside the boundary; "out": beyond it by more than the      *)
(* margin max(30 m, accuracy); "near": the band between, which counts for  *)
(* neither arrival nor departure.                                          *)
Zones == {"in", "near", "out"}

(* First element of the trailing run of fixes whose zone is z.             *)
RunStart(ev, z) ==
  CHOOSE i \in 1 .. Len(ev) :
    /\ \A k \in i .. Len(ev) : ev[k].zone = z
    /\ i = 1 \/ ev[i - 1].zone # z

(* At least two consecutive fixes in zone z, the last of them `gap' or     *)
(* more seconds after the first.                                           *)
Settled(ev, z, gap) ==
  /\ Len(ev) > 1
  /\ ev[Len(ev)].zone = z
  /\ RunStart(ev, z) < Len(ev)
  /\ ev[Len(ev)].ts - ev[RunStart(ev, z)].ts >= gap

Init ==
  /\ state = "NOTIFIED"
  /\ arrivedAt = 0
  /\ evidence = <<>>

(* The first authenticated request of the incident.                        *)
Contact ==
  /\ state = "NOTIFIED"
  /\ state' = "LOGGED_IN"
  /\ UNCHANGED <<arrivedAt, evidence>>

(* The member refuses to share a position.                                 *)
Refuse ==
  /\ state \in {"NOTIFIED", "LOGGED_IN"}
  /\ state' = "LOC_DENIED"
  /\ UNCHANGED <<arrivedAt, evidence>>

(* A judged fix: it may start the movement, and it may settle an arrival   *)
(* (arrived_at becomes the time of the FIRST fix of the run, also when the *)
(* member had arrived before, left, and now returns) or a departure.       *)
Observe(z, ts) ==
  LET phase == IF state \in Waiting THEN "MOVING" ELSE state
      ev    == Append(evidence, [zone |-> z, ts |-> ts])
  IN  \/ /\ phase \in EnRoute
         /\ Settled(ev, "in", ArriveGap)
         /\ state' = "ARRIVED"
         /\ arrivedAt' = ev[RunStart(ev, "in")].ts
         /\ evidence' = <<>>
      \/ /\ phase = "ARRIVED"
         /\ Settled(ev, "out", LeaveGap)
         /\ state' = "LEFT"
         /\ evidence' = <<>>
         /\ UNCHANGED arrivedAt
      \/ /\ ~ (phase \in EnRoute /\ Settled(ev, "in", ArriveGap))
         /\ ~ (phase = "ARRIVED" /\ Settled(ev, "out", LeaveGap))
         /\ state' = phase
         /\ evidence' = ev
         /\ UNCHANGED arrivedAt

(* The member's area is changed: an arrival in the old area is void.       *)
NewArea ==
  /\ state' = IF state \in {"ARRIVED", "LEFT"} THEN "MOVING" ELSE state
  /\ arrivedAt' = IF state \in {"ARRIVED", "LEFT"} THEN 0 ELSE arrivedAt
  /\ evidence' = <<>>

(* Live state is rebuilt from the database: the evidence must start over.  *)
Rebuild ==
  /\ evidence' = <<>>
  /\ UNCHANGED <<state, arrivedAt>>

Next ==
  \/ Contact
  \/ Refuse
  \/ \E z \in Zones, ts \in Times : Observe(z, ts)
  \/ NewArea
  \/ Rebuild

Spec == Init /\ [][Next]_presenceVars
=============================================================================
