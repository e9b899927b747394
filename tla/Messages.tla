-------------------------------- MODULE Messages -------------------------------
(***************************************************************************)
(* internal/sms and httpapi/admin_sms.go: the texts that call the members  *)
(* up and stand them down.  An administrator's request checks the          *)
(* incident, resolves its recipients, puts down one row of `sms_log' each, *)
(* sends the first pass through the gateway while the administrator waits, *)
(* records the results, and leaves what failed to a background goroutine.  *)
(*                                                                         *)
(* There is one incident.  Requests are numbered as they begin: a number   *)
(* is its batch's id, and stands for sms_log.ts, which is the time the     *)
(* request began.  A step is one SQL statement or transaction, or one text *)
(* handed to the gateway.  Requests the handler refuses have no effect and *)
(* are left out.                                                           *)
(***************************************************************************)
EXTENDS Integers, FiniteSets

CONSTANTS
  Members,     \* the members assigned to the incident
  MaxBatches,  \* bound: the requests made
  Kinds,       \* of "open", "close", "resend": those that occur
  MaxRetries,  \* HTTPProvider.MaxRetries, 2 by default
  MaxFaults,   \* bound: answers lost, administrators gone, crashes, failed writes
  Nil

ASSUME MessagesAssumption ==
  /\ Kinds \subseteq {"open", "close", "resend"}
  /\ MaxBatches \in Nat /\ MaxRetries \in Nat /\ MaxFaults \in Nat
  /\ Nil \notin Nat \cup Members
  /\ Nil \notin {"prepared", "failed", "sent"}

Batches == 1 .. MaxBatches

VARIABLES
  status,     \* incident.status
  job,        \* the request, then the goroutine, of each batch
  row,        \* sms_log.status: [Batches -> [Members -> status or Nil]]
  faults,     \* faults used up
  accepted,   \* history: <<b, m>>: the gateway took a text of b for m
  tries,      \* history: texts of b for m handed to the gateway
  unsaved     \* history: <<b, m>>: an answer was lost on its way or not recorded

vars == <<status, job, row, faults, accepted, tries, unsaved>>

(* "listed" stands for all, not_logged_in and team:N.                      *)
Targets == {"listed", "failed"}
Status  == {Nil, "prepared", "failed", "sent"}
PCs     == {"free", "checked", "picked", "resolved", "first", "retry", "done", "lost"}
Job ==
  [pc      : PCs,
   kind    : Kinds \cup {Nil},
   via     : {"manual", "http", Nil},
   target  : Targets \cup {Nil},
   from    : Batches \cup {Nil},   \* the batch whose failures are texted again
   live    : BOOLEAN,              \* history: that batch was not through with them
   to      : SUBSET Members,       \* recipients
   pending : SUBSET Members,       \* recipients of this pass
   results : [Members -> {Nil, "sent", "failed"}],  \* of this pass
   torecord : SUBSET Members,      \* results of this pass not yet recorded
   attempt : Nat]
NoResults == [m \in Members |-> Nil]
Free == [pc |-> "free", kind |-> Nil, via |-> Nil, target |-> Nil,
         from |-> Nil, live |-> FALSE, to |-> {}, pending |-> {},
         results |-> NoResults, torecord |-> {}, attempt |-> 0]

At(b, pc) == job[b].pc = pc
Sending(b) == job[b].pc \in {"first", "retry"}
Move(b, j) == job' = [job EXCEPT ![b] = j]
HasRows(b) == \E m \in Members : row[b][m] # Nil

(* sendOnePass: the next pass goes to the members of s.                    *)
Pass(j, pc, s) ==
  [j EXCEPT !.pc = pc, !.to = {}, !.pending = s, !.torecord = s, !.results = NoResults]
(* The request and its goroutine have come to an end.                      *)
Over(j, pc) == [Pass(j, pc, {}) EXCEPT !.attempt = 0]

Init ==
  /\ status = "active"
  /\ job = [b \in Batches |-> Free]
  /\ row = [b \in Batches |-> NoResults]
  /\ faults = 0
  /\ accepted = {} /\ unsaved = {}
  /\ tries = [b \in Batches |-> [m \in Members |-> 0]]

(***************************************************************************)
(* POST /a/incidents/{id}/sms                                              *)
(***************************************************************************)
Upcoming(b) == At(b, "free") /\ \A c \in 1 .. b - 1 : ~At(c, "free")
Begin(b, kind, via, target) ==
  /\ Upcoming(b)
  /\ status = "closed" => kind = "close"
  /\ Move(b, [Free EXCEPT !.pc = "checked", !.kind = kind, !.via = via,
                          !.target = target])
  /\ UNCHANGED <<status, row, faults, accepted, tries, unsaved>>

(* ListAssignments, of which the target keeps all, the members of a team   *)
(* or those not logged in: any subset.                                     *)
Resolve(b, to) ==
  /\ At(b, "checked") /\ job[b].target = "listed"
  /\ Move(b, [job[b] EXCEPT !.pc = "resolved", !.to = to])
  /\ UNCHANGED <<status, row, faults, accepted, tries, unsaved>>

(* LastFailedMemberIDs: the latest http batch of the kind, by ts, that has *)
(* rows at all.                                                            *)
Candidates(kind) ==
  {c \in Batches : job[c].kind = kind /\ job[c].via = "http" /\ HasRows(c)}
PickLast(b) ==
  /\ At(b, "checked") /\ job[b].target = "failed"
  /\ \/ /\ Candidates(job[b].kind) = {}
        /\ Move(b, [job[b] EXCEPT !.pc = "resolved"])
     \/ \E c \in Candidates(job[b].kind) :
          /\ \A d \in Candidates(job[b].kind) : d =< c
          /\ Move(b, [job[b] EXCEPT !.pc = "picked", !.from = c])
  /\ UNCHANGED <<status, row, faults, accepted, tries, unsaved>>

ReadFailed_All(b) ==   \* mutant: everyone of that batch
  /\ At(b, "picked")
  /\ LET c == job[b].from
     IN Move(b, [job[b] EXCEPT !.pc = "resolved", !.live = Sending(c),
                               !.to = {m \in Members : row[c][m] # Nil}])
  /\ UNCHANGED <<status, row, faults, accepted, tries, unsaved>>
ReadFailed(b) ==
  /\ At(b, "picked")
  /\ LET c == job[b].from
     IN Move(b, [job[b] EXCEPT !.pc = "resolved", !.live = Sending(c),
                               !.to = {m \in Members : row[c][m] = "failed"}])
  /\ UNCHANGED <<status, row, faults, accepted, tries, unsaved>>

(* The rows are one transaction; a manual batch then waits for mark-sent.  *)
Prepare(b) ==
  /\ At(b, "resolved")
  /\ LET j == job[b]
     IN /\ row' = [row EXCEPT ![b] = [m \in Members |-> IF m \in j.to THEN "prepared" ELSE Nil]]
        /\ Move(b, IF j.via = "manual" \/ j.to = {} THEN Over(j, "done")
                   ELSE Pass(j, "first", j.to))
  /\ UNCHANGED <<status, faults, accepted, tries, unsaved>>

(***************************************************************************)
(* The gateway                                                             *)
(***************************************************************************)
(* One text.  The answer may be lost on its way back: a timeout is a       *)
(* failure even if the text was accepted.                                  *)
SendOne(b, m, taken, answer) ==
  LET j == job[b]
  IN  /\ Sending(b)
      /\ m \in j.pending /\ j.results[m] = Nil
      /\ answer = "sent" => taken
      /\ tries' = [tries EXCEPT ![b][m] = @ + 1]
      /\ accepted' = IF taken THEN accepted \cup {<<b, m>>} ELSE accepted
      /\ IF taken /\ answer = "failed"
         THEN faults < MaxFaults /\ faults' = faults + 1 /\ unsaved' = unsaved \cup {<<b, m>>}
         ELSE UNCHANGED <<faults, unsaved>>
      /\ Move(b, [j EXCEPT !.results[m] = answer])
      /\ UNCHANGED <<status, row>>

(* wg.Wait, then the results one by one.                                   *)
Result(b, m) == Sending(b) /\ (\A x \in job[b].pending : job[b].results[x] # Nil)
                           /\ m \in job[b].torecord

(* After the last of them Prepare hands its failures to SendWithRetries,   *)
(* which makes a pass at once, and up to MaxRetries more.                  *)
FailedOf(j) == {m \in j.pending : j.results[m] = "failed"}
Onward_OneMore(j, m) ==   \* mutant: > for >=
  IF j.torecord # {m} THEN [j EXCEPT !.torecord = @ \ {m}]
  ELSE IF FailedOf(j) = {} \/ (j.pc = "retry" /\ j.attempt > MaxRetries) THEN Over(j, "done")
  ELSE [Pass(j, "retry", FailedOf(j)) EXCEPT !.attempt = IF j.pc = "first" THEN 0 ELSE @ + 1]
Onward(j, m) ==
  IF j.torecord # {m} THEN [j EXCEPT !.torecord = @ \ {m}]
  ELSE IF FailedOf(j) = {} \/ (j.pc = "retry" /\ j.attempt >= MaxRetries) THEN Over(j, "done")
  ELSE [Pass(j, "retry", FailedOf(j)) EXCEPT !.attempt = IF j.pc = "first" THEN 0 ELSE @ + 1]

Record_Batch(b, m) ==   \* mutant: no member_id in the WHERE
  /\ Result(b, m)
  /\ row' = [row EXCEPT ![b] = [x \in Members |-> IF @[x] = Nil THEN Nil ELSE job[b].results[m]]]
  /\ Move(b, Onward(job[b], m))
  /\ UNCHANGED <<status, faults, accepted, tries, unsaved>>
Record_Failures(b, m) ==   \* mutant: only what failed is recorded
  /\ Result(b, m)
  /\ row' = IF job[b].results[m] = "failed" THEN [row EXCEPT ![b][m] = "failed"] ELSE row
  /\ Move(b, Onward(job[b], m))
  /\ UNCHANGED <<status, faults, accepted, tries, unsaved>>
Record(b, m) ==
  /\ Result(b, m)
  /\ row' = [row EXCEPT ![b][m] = job[b].results[m]]
  /\ Move(b, Onward(job[b], m))
  /\ UNCHANGED <<status, faults, accepted, tries, unsaved>>

(* The background goroutine drops the error of a failed UPDATE.            *)
RecordFails(b, m) ==
  /\ Result(b, m) /\ At(b, "retry")
  /\ faults < MaxFaults /\ faults' = faults + 1
  /\ unsaved' = unsaved \cup {<<b, m>>}
  /\ Move(b, Onward(job[b], m))
  /\ UNCHANGED <<status, row, accepted, tries>>

(***************************************************************************)
(* What else happens                                                       *)
(***************************************************************************)
(* The administrator's connection goes, and with it r.Context(): before    *)
(* the rows are committed nothing is left of the request; afterwards the   *)
(* results can be neither obtained nor recorded, and nothing is retried.   *)
Dropped(j) ==
  CASE j.pc \in {"checked", "picked", "resolved"} -> Over(j, "done")
    [] j.pc \in {"first", "retry"} -> Over(j, "lost")
    [] OTHER -> j
Leave(b) ==
  /\ faults < MaxFaults /\ faults' = faults + 1
  /\ job[b].pc \in {"checked", "picked", "resolved", "first"}
  /\ Move(b, Dropped(job[b]))
  /\ UNCHANGED <<status, row, accepted, tries, unsaved>>

(* A restart: requests and goroutines are gone, the rows stay.             *)
Crash ==
  /\ faults < MaxFaults /\ faults' = faults + 1
  /\ job' = [b \in Batches |-> Dropped(job[b])]
  /\ UNCHANGED <<status, row, accepted, tries, unsaved>>

(* POST .../sms/{batchId}/mark-sent                                        *)
MarkSent(b) ==
  /\ HasRows(b) /\ job[b].via = "manual"
  /\ row' = [row EXCEPT ![b] = [m \in Members |-> IF @[m] = Nil THEN Nil ELSE "sent"]]
  /\ UNCHANGED <<status, job, faults, accepted, tries, unsaved>>

Close ==
  /\ status = "active" /\ status' = "closed"
  /\ UNCHANGED <<job, row, faults, accepted, tries, unsaved>>

Work(b) ==   \* what a server that keeps running does for b
  \/ \E to \in SUBSET Members : Resolve(b, to)
  \/ PickLast(b)
  \/ ReadFailed(b)
  \/ Prepare(b)
  \/ \E m \in Members, taken \in BOOLEAN, answer \in {"sent", "failed"} :
       SendOne(b, m, taken, answer)
  \/ \E m \in Members : Record(b, m)

Next ==
  \/ \E b \in Batches :
       \/ \E kind \in Kinds, via \in {"manual", "http"}, target \in Targets :
            Begin(b, kind, via, target)
       \/ Work(b)
       \/ \E m \in Members : RecordFails(b, m)
       \/ Leave(b)
       \/ MarkSent(b)
  \/ Crash
  \/ Close

(* Every call of the gateway ends within its ten seconds, and a goroutine  *)
(* keeps running; administrators and members owe the system nothing.       *)
Fairness == \A b \in Batches : WF_vars(Work(b))

Spec     == Init /\ [][Next]_vars
FairSpec == Spec /\ Fairness

(***************************************************************************)
(* Properties                                                              *)
(***************************************************************************)
TypeOK ==
  /\ status \in {"active", "closed"}
  /\ job \in [Batches -> Job]
  /\ row \in [Batches -> [Members -> Status]]
  /\ faults \in Nat
  /\ accepted \subseteq Batches \X Members
  /\ unsaved \subseteq Batches \X Members
  /\ tries \in [Batches -> [Members -> Nat]]

(* A text is handed to the gateway at most MaxRetries + 2 times, and one   *)
(* reported as failed for good was tried exactly that often, unless a      *)
(* result went unrecorded: no text is given up on early, and none is sent  *)
(* for ever (SendWithRetries, after the pass of Prepare).                  *)
EveryTryIsMade ==
  \A b \in Batches, m \in Members :
    /\ tries[b][m] =< MaxRetries + 2
    /\ (At(b, "done") /\ row[b][m] = "failed" /\ <<b, m>> \notin unsaved)
         => tries[b][m] = MaxRetries + 2

(* Texting the failures of a batch again does not text anyone twice, if    *)
(* the batch was no longer retrying when they were read: of the two rows   *)
(* at most one is sent (LastFailedMemberIDs).                              *)
ResendReachesOnce ==
  \A b \in Batches, m \in Members :
    (job[b].from # Nil /\ ~job[b].live /\ row[b][m] = "sent")
       => row[job[b].from][m] # "sent"

(* `sms_log' keeps the promise of module Outbox: one row per text and no   *)
(* way back from sent, which means what it says.                           *)
Promise == INSTANCE Outbox WITH
  report  <- row,
  trusted <- {b \in Batches : job[b].via = "manual" /\ HasRows(b)},
  accepted <- accepted
KeepsPromise == Promise!OutboxSpec

(* A text put down for the gateway gets a result, unless the server was    *)
(* restarted or its administrator left while the first pass was running.   *)
EveryTextSettles ==
  \A b \in Batches :
    (job[b].via = "http" /\ \E m \in Members : row[b][m] = "prepared")
       ~> (At(b, "lost") \/ \A m \in Members : row[b][m] # "prepared")

(* docs/SPEC.md:902 and http_provider.go:32: a failed text is retried      *)
(* MaxRetries times, twice by default.                                     *)
TwoRetries == \A b \in Batches, m \in Members : tries[b][m] =< 1 + MaxRetries
================================================================================
