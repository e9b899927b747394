--------------------------------- MODULE Outbox --------------------------------
(***************************************************************************)
(* What the administrator may rely on when reading `sms_log': a text is    *)
(* put down once, its report moves forward only, and one reported as sent  *)
(* by the gateway has been accepted by the gateway.  Module Messages       *)
(* implements this (SPEC 9.3, 9.4).                                        *)
(***************************************************************************)
CONSTANTS Batches, Members, Nil

VARIABLES
  report,   \* [Batches -> [Members -> Nil, "prepared", "failed" or "sent"]]
  trusted,  \* the batches the operator sends and reports on
  accepted  \* the pairs <<b, m>> the gateway has accepted a text of

Reports == {Nil, "prepared", "failed", "sent"}
Texts   == Batches \X Members
Empty   == [m \in Members |-> Nil]

OutboxTypeOK ==
  /\ report \in [Batches -> [Members -> Reports]]
  /\ trusted \subseteq Batches
  /\ accepted \subseteq Texts

OutboxInit ==
  /\ report = [b \in Batches |-> Empty]
  /\ trusted = {}
  /\ accepted = {}

PutDown(b, to, manual) ==
  /\ report[b] = Empty
  /\ report' = [report EXCEPT ![b] = [m \in Members |-> IF m \in to THEN "prepared" ELSE Nil]]
  /\ trusted' = IF manual THEN trusted \cup {b} ELSE trusted
  /\ UNCHANGED accepted

Accept(b, m) ==
  /\ report[b][m] \in {"prepared", "failed"}
  /\ b \notin trusted
  /\ accepted' = accepted \cup {<<b, m>>}
  /\ UNCHANGED <<report, trusted>>

ReportFailed(b, m) ==
  /\ report[b][m] \in {"prepared", "failed"}
  /\ b \notin trusted
  /\ report' = [report EXCEPT ![b][m] = "failed"]
  /\ UNCHANGED <<trusted, accepted>>

ReportSent(b, m) ==
  /\ report[b][m] \in {"prepared", "failed"}
  /\ <<b, m>> \in accepted
  /\ report' = [report EXCEPT ![b][m] = "sent"]
  /\ UNCHANGED <<trusted, accepted>>

Confirm(b) ==
  /\ b \in trusted
  /\ report' = [report EXCEPT ![b] = [m \in Members |-> IF @[m] = Nil THEN Nil ELSE "sent"]]
  /\ UNCHANGED <<trusted, accepted>>

OutboxNext ==
  \E b \in Batches :
    \/ \E to \in SUBSET Members, manual \in BOOLEAN : PutDown(b, to, manual)
    \/ \E m \in Members : Accept(b, m) \/ ReportFailed(b, m) \/ ReportSent(b, m)
    \/ Confirm(b)

OutboxSpec == OutboxInit /\ [][OutboxNext]_<<report, trusted, accepted>>
================================================================================
