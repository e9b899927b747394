---------------------------- MODULE Messages_proofs ----------------------------
(***************************************************************************)
(* Proofs about module Messages: for any members, numbers of requests,     *)
(* retries and faults, every try is made, a resend reaches nobody twice,   *)
(* and `sms_log' keeps the promise of Outbox.                              *)
(***************************************************************************)
EXTENDS Messages, TLAPS

USE SMTT(60)

Asking == {"free", "checked", "picked", "resolved"}
Ended  == {"done", "lost"}

(* The passes a batch has behind it.                                       *)
Before(j) == IF j.pc = "first" THEN 0 ELSE j.attempt + 1

(* What is known of a member whom the pass of batch b is to reach, and of  *)
(* one it is not.                                                          *)
InPass(b, m) ==
  LET j == job[b] IN
  /\ tries[b][m] = Before(j) + (IF j.results[m] = Nil THEN 0 ELSE 1)
  /\ (m \in j.torecord \/ j.results[m] = "failed") => row[b][m] \in {"prepared", "failed"}
  /\ (m \notin j.torecord /\ row[b][m] = "failed" /\ <<b, m>> \notin unsaved)
       => j.results[m] = "failed"
  /\ j.results[m] = "sent" => <<b, m>> \in accepted
PassedBy(b, m) ==
  /\ tries[b][m] =< Before(job[b])
  /\ row[b][m] = "failed" => <<b, m>> \in unsaved

(* A request asks before it puts rows down, and a batch under way keeps    *)
(* count of its passes and of the results it has still to record.          *)
PassOK(b) ==
  LET j == job[b] IN
  /\ j.via # "manual"
  /\ Before(j) =< MaxRetries + 1
  /\ j.torecord \subseteq j.pending
  /\ j.torecord # j.pending => \A m \in j.pending : j.results[m] # Nil
  /\ \A m \in j.pending : InPass(b, m)
  /\ \A m \in Members \ j.pending : PassedBy(b, m)
BatchOK(b) ==
  /\ job[b].pc \in {"free", "checked"} => job[b].from = Nil
  /\ job[b].pc \in Asking => \A m \in Members : row[b][m] = Nil /\ tries[b][m] = 0
  /\ Sending(b) => PassOK(b)

(* A batch that texts the failures of another which was through with them: *)
(* its rows are rows that failed there, and stay so.                       *)
ResendOK(b) ==
  LET c == job[b].from IN
  c # Nil =>
    /\ c # b /\ job[c].via = "http" /\ HasRows(c)
    /\ \A m \in Members :
         /\ ~job[b].live
         /\ row[b][m] # Nil \/ (At(b, "resolved") /\ m \in job[b].to)
         => row[c][m] = "failed" /\ job[c].pc \in Ended

(* EveryTryIsMade, of one batch.                                           *)
TriesOK(b) ==
  \A m \in Members :
    /\ tries[b][m] =< MaxRetries + 2
    /\ (At(b, "done") /\ row[b][m] = "failed" /\ <<b, m>> \notin unsaved)
         => tries[b][m] = MaxRetries + 2

(* The inductive invariant.                                                *)
IInv ==
  /\ TypeOK
  /\ \A b \in Batches : BatchOK(b)
  /\ \A b \in Batches : ResendOK(b)
  /\ \A b \in Batches : TriesOK(b)

-----------------------------------------------------------------------------
(***************************************************************************)
(* Requests                                                                *)
(***************************************************************************)
(* What Pass, Over and Onward make of a request.                           *)
LEMMA PassFields ==
  ASSUME NEW j \in Job, NEW pc \in PCs, NEW s \in SUBSET Members
  PROVE  LET p == Pass(j, pc, s) IN
         /\ p \in Job
         /\ p.pc = pc /\ p.kind = j.kind /\ p.via = j.via /\ p.from = j.from /\ p.live = j.live
         /\ p.to = {} /\ p.pending = s /\ p.torecord = s /\ p.results = NoResults
         /\ p.attempt = j.attempt
  <1>1. NoResults \in [Members -> {Nil, "sent", "failed"}]
    BY DEF NoResults
  <1>2. Pass(j, pc, s) \in Job
    BY <1>1, ZenonT(60) DEF Pass, Job
  <1> HIDE DEF NoResults
  <1>3. QED
    BY <1>2 DEF Pass, Job

LEMMA OverFields ==
  ASSUME NEW j \in Job, NEW pc \in PCs
  PROVE  LET p == Over(j, pc) IN
         /\ p \in Job
         /\ p.pc = pc /\ p.kind = j.kind /\ p.via = j.via /\ p.from = j.from /\ p.live = j.live
  <1> DEFINE q == Pass(j, pc, {})
  <1>1. q \in Job /\ q.pc = pc /\ q.kind = j.kind /\ q.via = j.via /\ q.from = j.from /\ q.live = j.live
    BY PassFields
  <1> HIDE DEF q
  <1>2. [q EXCEPT !.attempt = 0] \in Job
    BY <1>1 DEF Job
  <1>3. QED
    BY <1>1, <1>2 DEF Over, Job, q

LEMMA OnwardFields ==
  ASSUME NEW j \in Job, NEW m \in Members, j.pc \in {"first", "retry"}
  PROVE  LET n == Onward(j, m) IN
         /\ n \in Job
         /\ n.kind = j.kind /\ n.via = j.via /\ n.from = j.from /\ n.live = j.live
         /\ \/ /\ j.torecord # {m}
               /\ n.pc = j.pc /\ n.pending = j.pending /\ n.results = j.results
               /\ n.attempt = j.attempt /\ n.torecord = j.torecord \ {m}
            \/ /\ j.torecord = {m}
               /\ n.pc = "done"
               /\ FailedOf(j) = {} \/ (j.pc = "retry" /\ j.attempt >= MaxRetries)
            \/ /\ j.torecord = {m}
               /\ n.pc = "retry" /\ n.pending = FailedOf(j) /\ n.torecord = FailedOf(j)
               /\ n.results = NoResults
               /\ n.attempt = IF j.pc = "first" THEN 0 ELSE j.attempt + 1
               /\ j.pc = "retry" => j.attempt < MaxRetries
  <1> DEFINE n == Onward(j, m)
             failed == FailedOf(j)
             p == Pass(j, "retry", failed)
             k == IF j.pc = "first" THEN 0 ELSE j.attempt + 1
  <1>1. failed \in SUBSET Members /\ "retry" \in PCs /\ "done" \in PCs
        /\ j.torecord \in SUBSET Members /\ k \in Nat /\ j.attempt \in Nat /\ MaxRetries \in Nat
    BY MessagesAssumption DEF FailedOf, PCs, Job
  <1>2. CASE j.torecord # {m}
    <2>1. n = [j EXCEPT !.torecord = @ \ {m}]
      BY <1>2 DEF Onward
    <2>2. [j EXCEPT !.torecord = @ \ {m}] \in Job
      BY <1>1, ZenonT(60) DEF Job
    <2>3. QED
      BY <1>2, <2>1, <2>2 DEF Job
  <1>3. CASE /\ j.torecord = {m}
             /\ failed = {} \/ (j.pc = "retry" /\ j.attempt >= MaxRetries)
    <2>1. n = Over(j, "done")
      BY <1>3 DEF Onward
    <2>2. QED
      BY <1>1, <1>3, <2>1, OverFields
  <1>4. CASE /\ j.torecord = {m}
             /\ ~(failed = {} \/ (j.pc = "retry" /\ j.attempt >= MaxRetries))
    <2>1. n = [p EXCEPT !.attempt = IF j.pc = "first" THEN 0 ELSE @ + 1]
      BY <1>4 DEF Onward
    <2>2. /\ p \in Job
          /\ p.pc = "retry" /\ p.kind = j.kind /\ p.via = j.via /\ p.from = j.from
          /\ p.live = j.live /\ p.pending = failed /\ p.torecord = failed
          /\ p.results = NoResults /\ p.attempt = j.attempt
      BY <1>1, PassFields
    <2> HIDE DEF p, failed
    <2>3. n = [p EXCEPT !.attempt = k]
      BY <2>1, <2>2, ZenonT(60) DEF Job
    <2>4. n \in Job
      BY <1>1, <2>2, <2>3, ZenonT(60) DEF Job
    <2>5. n.kind = p.kind /\ n.via = p.via /\ n.from = p.from /\ n.live = p.live /\ n.pc = p.pc
          /\ n.pending = p.pending /\ n.torecord = p.torecord /\ n.results = p.results
          /\ n.attempt = k
      BY <2>2, <2>3 DEF Job
    <2>6. j.pc = "retry" => j.attempt < MaxRetries
      BY <1>1, <1>4 DEF failed
    <2> HIDE DEF n
    <2>7. QED
      BY <1>4, <2>2, <2>4, <2>5, <2>6 DEF failed, n
  <1>5. QED
    BY <1>2, <1>3, <1>4

-----------------------------------------------------------------------------
(***************************************************************************)
(* A step of one batch                                                     *)
(***************************************************************************)
(* What other batches rely on: rows stay once they are there, and those of *)
(* a batch the gateway is through with do not change.                      *)
Steady(b) ==
  /\ HasRows(b) => HasRows(b)' /\ job'[b].via = job[b].via
  /\ (job[b].pc \in Ended /\ job[b].via = "http") => job'[b].pc \in Ended /\ row'[b] = row[b]

(* A batch texts the failures of the same batch as before, and nobody new. *)
Texted(b, m) == row[b][m] # Nil \/ (At(b, "resolved") /\ m \in job[b].to)
SameResend(b) ==
  /\ job'[b].from = job[b].from /\ job'[b].live = job[b].live
  /\ \A m \in Members : Texted(b, m)' => Texted(b, m)

LEMMA ResendKeeps ==
  ASSUME TypeOK, NEW b \in Batches, \A c \in Batches : Steady(c), ResendOK(b), SameResend(b)
  PROVE  ResendOK(b)'
  <1> DEFINE c == job[b].from
  <1>1. CASE c = Nil
    BY <1>1 DEF ResendOK, SameResend
  <1>2. CASE c # Nil
    <2>1. c \in Batches
      BY <1>2 DEF TypeOK, Job
    <2>2. job'[b].from = c /\ Steady(c)
      BY <2>1 DEF SameResend
    <2>3. c # b /\ job'[c].via = "http" /\ HasRows(c)'
      BY <1>2, <2>2 DEF ResendOK, Steady
    <2>4. ASSUME NEW m \in Members, ~job'[b].live, Texted(b, m)'
          PROVE  row'[c][m] = "failed" /\ job'[c].pc \in Ended
      <3>1. ~job[b].live /\ Texted(b, m)
        BY <2>4 DEF SameResend
      <3>2. row[c][m] = "failed" /\ job[c].pc \in Ended /\ job[c].via = "http"
        BY <1>2, <3>1 DEF ResendOK, Texted
      <3>3. QED
        BY <2>2, <3>2 DEF Steady
    <2>5. QED
      BY <2>2, <2>3, <2>4 DEF ResendOK, Texted, HasRows, At
  <1>3. QED
    BY <1>1, <1>2

(* A batch that a step leaves alone.                                       *)
LEMMA OtherKeeps ==
  ASSUME NEW c \in Batches, job'[c] = job[c], row'[c] = row[c], tries'[c] = tries[c],
         accepted \subseteq accepted', unsaved \subseteq unsaved',
         BatchOK(c), TriesOK(c)
  PROVE  BatchOK(c)' /\ TriesOK(c)' /\ Steady(c) /\ SameResend(c)
  <1>1. TriesOK(c)'
    BY DEF TriesOK, At
  <1>2. Steady(c) /\ SameResend(c)
    BY DEF Steady, SameResend, Texted, HasRows, At
  <1>3. Sending(c)' => PassOK(c)'
    <2> SUFFICES ASSUME Sending(c)' PROVE PassOK(c)'
      OBVIOUS
    <2>1. PassOK(c)
      BY DEF BatchOK, Sending
    <2>2. \A m \in job[c].pending : InPass(c, m)'
      BY <2>1 DEF PassOK, InPass, Before
    <2>3. \A m \in Members \ job[c].pending : PassedBy(c, m)'
      BY <2>1 DEF PassOK, PassedBy, Before
    <2>4. QED
      BY <2>1, <2>2, <2>3 DEF PassOK, Before
  <1>4. BatchOK(c)'
    BY <1>3 DEF BatchOK, Sending
  <1>5. QED
    BY <1>1, <1>2, <1>4

LEMMA OneBatch ==
  ASSUME IInv, TypeOK', NEW b \in Batches,
         \A c \in Batches \ {b} : job'[c] = job[c] /\ row'[c] = row[c] /\ tries'[c] = tries[c],
         accepted \subseteq accepted', unsaved \subseteq unsaved',
         Steady(b), BatchOK(b)', SameResend(b) \/ ResendOK(b)', TriesOK(b)'
  PROVE  IInv'
  <1>1. ASSUME NEW c \in Batches
        PROVE  BatchOK(c)' /\ TriesOK(c)' /\ Steady(c) /\ (c = b \/ SameResend(c))
    <2>1. CASE c = b
      BY <2>1
    <2>2. CASE c # b
      BY <2>2, OtherKeeps DEF IInv
    <2>3. QED
      BY <2>1, <2>2
  <1>2. ASSUME NEW c \in Batches
        PROVE  ResendOK(c)'
    <2>1. CASE SameResend(c)
      BY <1>1, <2>1, ResendKeeps DEF IInv
    <2>2. CASE c = b /\ ResendOK(b)'
      BY <2>2
    <2>3. QED
      BY <1>1, <2>1, <2>2
  <1>3. QED
    BY <1>1, <1>2 DEF IInv

LEMMA MoveTypes ==
  ASSUME TypeOK, NEW b \in Batches, NEW j \in Job, Move(b, j)
  PROVE  /\ job' \in [Batches -> Job] /\ job'[b] = j
         /\ \A c \in Batches \ {b} : job'[c] = job[c]
  BY DEF TypeOK, Move

-----------------------------------------------------------------------------
(***************************************************************************)
(* Requests that ask                                                       *)
(***************************************************************************)
LEMMA AskKeeps ==
  ASSUME IInv, NEW b \in Batches, NEW j \in Job, Move(b, j),
         UNCHANGED <<status, row, accepted, tries, unsaved>>, faults' \in Nat,
         job[b].pc \in Asking, j.pc \in {"checked", "picked", "resolved", "done"},
         j.pc = "checked" => j.from = Nil,
         SameResend(b) \/ ResendOK(b)'
  PROVE  IInv'
  <1>1. TypeOK /\ BatchOK(b)
    BY DEF IInv
  <1>2. /\ job' \in [Batches -> Job] /\ job'[b] = j
        /\ \A c \in Batches \ {b} : job'[c] = job[c]
    BY <1>1, MoveTypes
  <1>3. TypeOK'
    BY <1>1, <1>2 DEF TypeOK
  <1>4. \A m \in Members : row[b][m] = Nil /\ tries[b][m] = 0
    BY <1>1 DEF BatchOK
  <1>5. BatchOK(b)'
    BY <1>2, <1>4 DEF BatchOK, Sending
  <1>6. TriesOK(b)'
    BY <1>4, MessagesAssumption DEF TriesOK
  <1>7. Steady(b)
    BY <1>4 DEF Steady, HasRows, Asking, Ended
  <1>8. QED
    BY <1>2, <1>3, <1>5, <1>6, <1>7, OneBatch

LEMMA BeginKeeps ==
  ASSUME IInv, NEW b \in Batches, NEW kind \in Kinds, NEW via \in {"manual", "http"},
         NEW target \in Targets, Begin(b, kind, via, target)
  PROVE  IInv'
  <1> DEFINE j == [Free EXCEPT !.pc = "checked", !.kind = kind, !.via = via, !.target = target]
  <1>1. TypeOK /\ At(b, "free") /\ Move(b, j)
        /\ UNCHANGED <<status, row, faults, accepted, tries, unsaved>>
        /\ (status = "closed" => kind = "close")
    BY DEF IInv, Begin, Upcoming
  <1>2. Free \in Job
    BY DEF Free, Job, NoResults, PCs
  <1>3. j \in Job /\ j.pc = "checked" /\ j.from = Nil /\ j.kind = kind
    <2>1. j \in Job
      BY <1>2, ZenonT(60) DEF Job, PCs
    <2>2. QED
      BY <1>2, <2>1 DEF Job, Free
  <1> HIDE DEF j
  <1>4. job'[b] = j
    BY <1>1, <1>3, MoveTypes
  <1>6. ResendOK(b)'
    BY <1>3, <1>4 DEF ResendOK
  <1>7. faults' \in Nat
    BY <1>1 DEF TypeOK
  <1>8. QED
    BY <1>1, <1>3, <1>6, <1>7, AskKeeps DEF Asking, At

(* A request that knows its kind goes on asking.                           *)
LEMMA GoOnAsking ==
  ASSUME IInv, NEW b \in Batches, NEW j \in Job, Move(b, j),
         UNCHANGED <<status, row, accepted, tries, unsaved>>, faults' \in Nat,
         job[b].pc \in Asking \ {"free"}, j.pc \in {"picked", "resolved", "done"},
         j.kind = job[b].kind, SameResend(b) \/ ResendOK(b)'
  PROVE  IInv'
  BY AskKeeps DEF IInv, TypeOK

LEMMA ResolveKeeps ==
  ASSUME IInv, NEW b \in Batches, NEW to \in SUBSET Members, Resolve(b, to)
  PROVE  IInv'
  <1> DEFINE j == [job[b] EXCEPT !.pc = "resolved", !.to = to]
  <1>1. job[b] \in Job /\ At(b, "checked") /\ Move(b, j)
        /\ UNCHANGED <<status, row, faults, accepted, tries, unsaved>>
        /\ faults \in Nat /\ BatchOK(b)
    BY DEF IInv, TypeOK, Resolve
  <1>2. j \in Job
    BY <1>1, ZenonT(60) DEF Job, PCs
  <1>3. j.pc = "resolved" /\ j.kind = job[b].kind /\ j.from = Nil
    BY <1>1 DEF Job, BatchOK, At
  <1> HIDE DEF j
  <1>4. ResendOK(b)'
    BY <1>1, <1>2, <1>3, MoveTypes DEF IInv, ResendOK
  <1>5. QED
    BY <1>1, <1>2, <1>3, <1>4, GoOnAsking DEF Asking, At

LEMMA PickLastKeeps ==
  ASSUME IInv, NEW b \in Batches, PickLast(b)
  PROVE  IInv'
  <1>1. TypeOK /\ job[b] \in Job /\ At(b, "checked") /\ BatchOK(b)
        /\ UNCHANGED <<status, row, faults, accepted, tries, unsaved>> /\ faults \in Nat
    <2>1. TypeOK /\ BatchOK(b)
      BY DEF IInv
    <2>2. At(b, "checked") /\ UNCHANGED <<status, row, faults, accepted, tries, unsaved>>
      BY ZenonT(60) DEF PickLast
    <2>3. QED
      BY <2>1, <2>2 DEF TypeOK
  <1>2. CASE Move(b, [job[b] EXCEPT !.pc = "resolved"])
    <2> DEFINE j == [job[b] EXCEPT !.pc = "resolved"]
    <2>1. j \in Job
      BY <1>1, ZenonT(60) DEF Job, PCs
    <2>2. j.pc = "resolved" /\ j.kind = job[b].kind /\ j.from = Nil
      BY <1>1 DEF Job, BatchOK, At
    <2> HIDE DEF j
    <2>3. Move(b, j)
      BY <1>2 DEF j
    <2>4. ResendOK(b)'
      BY <1>1, <2>1, <2>2, <2>3, MoveTypes DEF ResendOK
    <2>5. QED
      BY <1>1, <2>1, <2>2, <2>3, <2>4, GoOnAsking DEF Asking, At
  <1>3. ASSUME NEW c \in Candidates(job[b].kind), Move(b, [job[b] EXCEPT !.pc = "picked", !.from = c])
        PROVE  IInv'
    <2> DEFINE j == [job[b] EXCEPT !.pc = "picked", !.from = c]
    <2>1. c \in Batches /\ job[c].via = "http" /\ HasRows(c)
      BY <1>3 DEF Candidates
    <2>2. \A m \in Members : row[b][m] = Nil
      BY <1>1 DEF BatchOK, Asking, At
    <2>3. c # b
      BY <2>1, <2>2 DEF HasRows
    <2>4. j \in Job
      BY <1>1, <2>1, ZenonT(60) DEF Job, PCs
    <2>5. j.pc = "picked" /\ j.kind = job[b].kind /\ j.from = c
      BY <1>1 DEF Job
    <2>6. Move(b, j)
      BY <1>3
    <2> HIDE DEF j
    <2>7. job'[b] = j /\ job'[c] = job[c]
      BY <1>1, <2>6, <2>1, <2>3, <2>4, MoveTypes
    <2>8. ResendOK(b)'
      BY <1>1, <2>1, <2>2, <2>3, <2>5, <2>7 DEF ResendOK, HasRows, At
    <2>9. QED
      BY <1>1, <2>6, <2>4, <2>5, <2>8, GoOnAsking DEF Asking, At
  <1>4. QED
    BY <1>2, <1>3, ZenonT(60) DEF PickLast

LEMMA ReadFailedKeeps ==
  ASSUME IInv, NEW b \in Batches, ReadFailed(b)
  PROVE  IInv'
  <1> DEFINE c == job[b].from
             to == {m \in Members : row[c][m] = "failed"}
             j == [job[b] EXCEPT !.pc = "resolved", !.live = Sending(c), !.to = to]
  <1>1. TypeOK /\ job[b] \in Job /\ At(b, "picked") /\ BatchOK(b) /\ ResendOK(b) /\ Move(b, j)
        /\ UNCHANGED <<status, row, faults, accepted, tries, unsaved>> /\ faults \in Nat
    BY DEF IInv, TypeOK, ReadFailed
  <1>2. Sending(c) \in BOOLEAN /\ to \in SUBSET Members /\ "resolved" \in PCs
    BY DEF Sending, PCs
  <1>3. j \in Job
    BY <1>1, <1>2, ZenonT(60) DEF Job
  <1>4. j.pc = "resolved" /\ j.kind = job[b].kind /\ j.from = c /\ j.live = Sending(c) /\ j.to = to
    BY <1>1 DEF Job
  <1> HIDE DEF j
  <1>5. job'[b] = j
    BY <1>1, <1>3, MoveTypes
  <1>6. ResendOK(b)'
    <2>1. CASE c = Nil
      BY <1>4, <1>5, <2>1 DEF ResendOK
    <2>2. CASE c # Nil
      <3>1. c \in Batches /\ c # b /\ job[c].via = "http" /\ HasRows(c)
        BY <1>1, <2>2 DEF ResendOK, Job
      <3>2. job'[c] = job[c]
        BY <1>1, <1>3, <3>1, MoveTypes
      <3>3. ~Sending(c) => job[c].pc \in Ended
        <4>1. job[c].pc \notin Asking
          BY <3>1 DEF IInv, BatchOK, HasRows
        <4>2. QED
          BY <1>1, <3>1, <4>1 DEF TypeOK, Job, PCs, Asking, Sending, Ended
      <3>4. \A m \in Members : row[b][m] = Nil
        BY <1>1 DEF BatchOK, Asking, At
      <3>5. QED
        BY <1>1, <1>4, <1>5, <2>2, <3>1, <3>2, <3>3, <3>4 DEF ResendOK, HasRows, At
    <2>3. QED
      BY <2>1, <2>2
  <1>7. QED
    BY <1>1, <1>3, <1>4, <1>6, GoOnAsking DEF Asking, At

-----------------------------------------------------------------------------
(***************************************************************************)
(* The rows and the gateway                                                *)
(***************************************************************************)
LEMMA PrepareKeeps ==
  ASSUME IInv, NEW b \in Batches, Prepare(b)
  PROVE  IInv'
  <1> DEFINE j == job[b]
             n == IF j.via = "manual" \/ j.to = {} THEN Over(j, "done") ELSE Pass(j, "first", j.to)
  <1>1. /\ TypeOK /\ j \in Job /\ BatchOK(b) /\ ResendOK(b)
        /\ At(b, "resolved") /\ Move(b, n)
        /\ row' = [row EXCEPT ![b] = [m \in Members |-> IF m \in j.to THEN "prepared" ELSE Nil]]
        /\ UNCHANGED <<status, faults, accepted, tries, unsaved>>
    BY DEF IInv, TypeOK, Prepare
  <1>2. /\ n \in Job /\ n.kind = j.kind /\ n.via = j.via /\ n.from = j.from /\ n.live = j.live
        /\ \/ n.pc = "done"
           \/ /\ n.pc = "first" /\ j.via # "manual" /\ n.pending = j.to /\ n.torecord = j.to
              /\ n.results = NoResults
    <2>1. "done" \in PCs /\ "first" \in PCs /\ j.to \in SUBSET Members
      BY <1>1 DEF PCs, Job
    <2>2. CASE j.via = "manual" \/ j.to = {}
      BY <1>1, <2>1, <2>2, OverFields
    <2>3. CASE ~(j.via = "manual" \/ j.to = {})
      BY <1>1, <2>1, <2>3, PassFields
    <2>4. QED
      BY <2>2, <2>3
  <1> HIDE DEF n
  <1>3. /\ job' \in [Batches -> Job] /\ job'[b] = n
        /\ \A c \in Batches \ {b} : job'[c] = job[c]
    BY <1>1, <1>2, MoveTypes
  <1>4. /\ row' \in [Batches -> [Members -> Status]]
        /\ row'[b] = [m \in Members |-> IF m \in j.to THEN "prepared" ELSE Nil]
        /\ \A c \in Batches \ {b} : row'[c] = row[c]
    BY <1>1 DEF TypeOK, Status
  <1>5. TypeOK'
    BY <1>1, <1>3, <1>4 DEF TypeOK
  <1>6. \A m \in Members : row[b][m] = Nil /\ tries[b][m] = 0
    BY <1>1 DEF BatchOK, Asking, At
  <1>7. Sending(b)' => PassOK(b)'
    <2> SUFFICES ASSUME Sending(b)' PROVE PassOK(b)'
      OBVIOUS
    <2>1. /\ n.pc = "first" /\ n.via # "manual" /\ n.pending = j.to /\ n.torecord = j.to
          /\ n.results = NoResults
      BY <1>2, <1>3 DEF Sending
    <2>2. \A m \in n.pending : InPass(b, m)'
      <3> SUFFICES ASSUME NEW m \in n.pending PROVE InPass(b, m)'
        OBVIOUS
      <3>1. m \in Members /\ NoResults[m] = Nil
        BY <1>1, <2>1 DEF Job, NoResults
      <3>2. row'[b][m] = "prepared" /\ tries'[b][m] = 0
        BY <1>1, <1>4, <1>6, <2>1, <3>1
      <3>3. QED
        BY <1>3, <2>1, <3>1, <3>2, MessagesAssumption DEF InPass, Before
    <2>3. \A m \in Members \ n.pending : PassedBy(b, m)'
      BY <1>1, <1>3, <1>4, <1>6, <2>1, MessagesAssumption DEF PassedBy, Before
    <2>4. QED
      BY <1>3, <2>1, <2>2, <2>3, MessagesAssumption DEF PassOK, Before
  <1>8. BatchOK(b)'
    BY <1>2, <1>3, <1>7 DEF BatchOK, Asking
  <1>9. TriesOK(b)'
    BY <1>1, <1>4, <1>6, MessagesAssumption DEF TriesOK
  <1>10. Steady(b)
    BY <1>1, <1>2, <1>3, <1>6 DEF Steady, HasRows, Ended, At
  <1>11. SameResend(b)
    BY <1>1, <1>2, <1>3, <1>4 DEF SameResend, Texted, At
  <1>12. QED
    BY <1>1, <1>3, <1>4, <1>5, <1>8, <1>9, <1>10, <1>11, OneBatch

LEMMA SendOneKeeps ==
  ASSUME IInv, NEW b \in Batches, NEW m \in Members, NEW taken \in BOOLEAN,
         NEW answer \in {"sent", "failed"}, SendOne(b, m, taken, answer)
  PROVE  IInv'
  <1> DEFINE j == job[b]
             n == [j EXCEPT !.results[m] = answer]
  <1>1. /\ TypeOK /\ j \in Job /\ BatchOK(b) /\ ResendOK(b) /\ TriesOK(b)
        /\ Sending(b) /\ m \in j.pending /\ j.results[m] = Nil
        /\ answer = "sent" => taken
        /\ Move(b, n)
        /\ tries' = [tries EXCEPT ![b][m] = @ + 1]
        /\ accepted' = IF taken THEN accepted \cup {<<b, m>>} ELSE accepted
        /\ unsaved \subseteq unsaved' /\ unsaved' \subseteq unsaved \cup {<<b, m>>} /\ faults' \in Nat
        /\ UNCHANGED <<status, row>>
    BY DEF IInv, TypeOK, SendOne
  <1>2. n \in Job
    BY <1>1, ZenonT(60) DEF Job
  <1>3. /\ n.pc = j.pc /\ n.kind = j.kind /\ n.via = j.via /\ n.from = j.from /\ n.live = j.live
        /\ n.to = j.to /\ n.pending = j.pending /\ n.torecord = j.torecord /\ n.attempt = j.attempt
        /\ n.results = [j.results EXCEPT ![m] = answer] /\ j.results \in [Members -> {Nil, "sent", "failed"}]
    BY <1>1 DEF Job
  <1> HIDE DEF n
  <1>4. /\ job' \in [Batches -> Job] /\ job'[b] = n
        /\ \A c \in Batches \ {b} : job'[c] = job[c]
    BY <1>1, <1>2, MoveTypes
  <1>5. /\ tries' \in [Batches -> [Members -> Nat]] /\ tries'[b] = [tries[b] EXCEPT ![m] = @ + 1]
        /\ tries[b] \in [Members -> Nat] /\ \A c \in Batches \ {b} : tries'[c] = tries[c]
    BY <1>1 DEF TypeOK
  <1>6. accepted \subseteq accepted' /\ (taken => <<b, m>> \in accepted') /\ TypeOK'
    BY <1>1, <1>4, <1>5 DEF TypeOK
  <1>7. PassOK(b) /\ j.torecord = j.pending /\ j.pending \subseteq Members /\ Before(j) \in Nat
    BY <1>1 DEF BatchOK, PassOK, Job, Before
  <1>8. InPass(b, m)'
    <2>1. InPass(b, m) /\ tries[b][m] = Before(j)
      BY <1>1, <1>5, <1>7 DEF PassOK, InPass
    <2>2. n.results[m] = answer /\ tries'[b][m] = Before(j) + 1 /\ answer # Nil
      BY <1>3, <1>5, <2>1, MessagesAssumption
    <2>3. QED
      BY <1>1, <1>3, <1>4, <1>6, <1>7, <2>1, <2>2 DEF InPass, Before
  <1>9. ASSUME NEW x \in Members \ {m}
        PROVE  /\ x \in j.pending => InPass(b, x)'
               /\ x \notin j.pending => PassedBy(b, x)'
    <2>1. n.results[x] = j.results[x] /\ tries'[b][x] = tries[b][x]
      BY <1>3, <1>5
    <2>2. CASE x \in j.pending
      <3>1. InPass(b, x)
        BY <1>7, <2>2 DEF PassOK
      <3>2. InPass(b, x)'
        BY <1>1, <1>3, <1>4, <1>6, <2>1, <3>1 DEF InPass, Before
      <3>3. QED
        BY <2>2, <3>2
    <2>3. CASE x \notin j.pending
      <3>1. PassedBy(b, x)
        BY <1>7, <2>3 DEF PassOK
      <3>2. PassedBy(b, x)'
        BY <1>1, <1>3, <1>4, <2>1, <3>1 DEF PassedBy, Before
      <3>3. QED
        BY <2>3, <3>2
    <2>4. QED
      BY <2>2, <2>3
  <1>10. PassOK(b)'
    BY <1>1, <1>3, <1>4, <1>7, <1>8, <1>9 DEF PassOK, Before
  <1>11. BatchOK(b)'
    BY <1>1, <1>3, <1>4, <1>10 DEF BatchOK, Sending, Asking
  <1>12. TriesOK(b)'
    <2>1. tries'[b][m] =< MaxRetries + 2
      BY <1>3, <1>4, <1>5, <1>7, <1>8, MessagesAssumption DEF PassOK, InPass, Before
    <2>2. ASSUME NEW x \in Members \ {m} PROVE tries'[b][x] =< MaxRetries + 2
      <3>1. tries'[b][x] = tries[b][x]
        BY <1>5
      <3>2. tries[b][x] =< MaxRetries + 2
        BY <1>1, ZenonT(60) DEF TriesOK
      <3>3. QED
        BY <3>1, <3>2
    <2>3. ~At(b, "done")'
      BY <1>1, <1>3, <1>4 DEF At, Sending
    <2>4. QED
      BY <2>1, <2>2, <2>3 DEF TriesOK, At
  <1>13. Steady(b) /\ SameResend(b)
    BY <1>1, <1>3, <1>4 DEF Steady, HasRows, Ended, At, Sending, SameResend, Texted
  <1>14. QED
    BY <1>1, <1>4, <1>5, <1>6, <1>11, <1>12, <1>13, OneBatch

(* A result has been looked at, and was recorded or not.                   *)
LEMMA ResultKeeps ==
  ASSUME IInv, NEW b \in Batches, NEW m \in Members, Result(b, m), Move(b, Onward(job[b], m)),
         \/ row' = [row EXCEPT ![b][m] = job[b].results[m]] /\ unsaved' = unsaved
         \/ row' = row /\ unsaved' = unsaved \cup {<<b, m>>},
         faults' \in Nat, UNCHANGED <<status, accepted, tries>>
  PROVE  IInv'
  <1> DEFINE j == job[b]
             n == Onward(j, m)
  <1>1. /\ TypeOK /\ j \in Job /\ BatchOK(b) /\ ResendOK(b) /\ TriesOK(b)
        /\ Sending(b) /\ PassOK(b) /\ m \in j.torecord /\ m \in j.pending /\ j.torecord \subseteq j.pending
        /\ \A x \in j.pending : j.results[x] \in {"sent", "failed"}
        /\ j.pending \subseteq Members /\ j.attempt \in Nat /\ j.pc \in {"first", "retry"}
    BY DEF IInv, TypeOK, BatchOK, PassOK, Result, Sending, Job
  <1>2. /\ n \in Job
        /\ n.kind = j.kind /\ n.via = j.via /\ n.from = j.from /\ n.live = j.live
        /\ \/ /\ j.torecord # {m}
              /\ n.pc = j.pc /\ n.pending = j.pending /\ n.results = j.results
              /\ n.attempt = j.attempt /\ n.torecord = j.torecord \ {m}
           \/ /\ j.torecord = {m}
              /\ n.pc = "done"
              /\ FailedOf(j) = {} \/ (j.pc = "retry" /\ j.attempt >= MaxRetries)
           \/ /\ j.torecord = {m}
              /\ n.pc = "retry" /\ n.pending = FailedOf(j) /\ n.torecord = FailedOf(j)
              /\ n.results = NoResults
              /\ n.attempt = IF j.pc = "first" THEN 0 ELSE j.attempt + 1
              /\ j.pc = "retry" => j.attempt < MaxRetries
    BY <1>1, OnwardFields
  <1> HIDE DEF n
  <1>3. /\ job' \in [Batches -> Job] /\ job'[b] = n
        /\ \A c \in Batches \ {b} : job'[c] = job[c]
    BY <1>1, <1>2, MoveTypes DEF n
  <1>4. /\ row' \in [Batches -> [Members -> Status]] /\ \A c \in Batches \ {b} : row'[c] = row[c]
        /\ \A x \in Members \ {m} : row'[b][x] = row[b][x]
        /\ \/ row'[b][m] = j.results[m]
           \/ row'[b][m] = row[b][m] /\ <<b, m>> \in unsaved'
        /\ unsaved \subseteq unsaved' /\ unsaved' \subseteq Batches \X Members
    <2>1. /\ row \in [Batches -> [Members -> Status]] /\ unsaved \subseteq Batches \X Members
          /\ j.results[m] \in Status
      BY <1>1 DEF TypeOK, Status
    <2>2. CASE row' = [row EXCEPT ![b][m] = j.results[m]] /\ unsaved' = unsaved
      BY <2>1, <2>2
    <2>3. CASE row' = row /\ unsaved' = unsaved \cup {<<b, m>>}
      BY <2>1, <2>3
    <2>4. QED
      BY <2>2, <2>3
  <1>5. TypeOK'
    BY <1>1, <1>3, <1>4 DEF TypeOK
  <1>6. InPass(b, m) /\ row[b][m] \in {"prepared", "failed"} /\ row'[b][m] # Nil
    BY <1>1, <1>4, MessagesAssumption DEF PassOK, InPass
  (* What the pass leaves behind for each member.                          *)
  <1>7. ASSUME NEW x \in j.pending, x \notin j.torecord \ {m}
        PROVE  /\ tries[b][x] = Before(j) + 1
               /\ j.results[x] = "failed" => row'[b][x] \in {"prepared", "failed"}
               /\ row'[b][x] = "failed" /\ <<b, x>> \notin unsaved' => j.results[x] = "failed"
    <2>1. x \in Members /\ InPass(b, x) /\ j.results[x] # Nil
      BY <1>1, MessagesAssumption DEF PassOK
    <2>2. tries[b][x] = Before(j) + 1
      BY <2>1 DEF InPass
    <2>3. CASE x = m
      BY <1>4, <1>6, <2>2, <2>3
    <2>4. CASE x # m
      <3>1. row'[b][x] = row[b][x] /\ x \notin j.torecord
        BY <1>4, <1>7, <2>1, <2>4
      <3>2. QED
        BY <1>4, <2>1, <2>2, <3>1 DEF InPass
    <2>5. QED
      BY <2>3, <2>4
  <1>8. ASSUME NEW x \in Members \ j.pending
        PROVE  /\ tries[b][x] =< Before(j)
               /\ row'[b][x] = "failed" => <<b, x>> \in unsaved'
    BY <1>1, <1>4 DEF PassOK, PassedBy
  <1>9. Before(j) \in Nat /\ Before(j) =< MaxRetries + 1 /\ MaxRetries \in Nat
    BY <1>1, MessagesAssumption DEF PassOK, Before
  <1>10. Sending(b)' => PassOK(b)'
    <2> SUFFICES ASSUME Sending(b)' PROVE PassOK(b)'
      OBVIOUS
    <2>1. CASE j.torecord # {m}
      <3>1. /\ n.pc = j.pc /\ n.pending = j.pending /\ n.results = j.results
            /\ n.attempt = j.attempt /\ n.torecord = j.torecord \ {m}
        BY <1>2, <2>1
      <3>2. ASSUME NEW x \in j.pending PROVE InPass(b, x)'
        <4>1. x \in Members /\ InPass(b, x) /\ tries'[b][x] = tries[b][x]
          BY <1>1 DEF PassOK
        <4>2. CASE x \in j.torecord \ {m}
          <5>1. row'[b][x] = row[b][x]
            BY <1>4, <4>2, <4>1
          <5>2. QED
            BY <1>3, <1>4, <3>1, <4>1, <4>2, <5>1 DEF InPass, Before
        <4>3. CASE x \notin j.torecord \ {m}
          <5>1. j.results[x] # Nil
            BY <1>1, MessagesAssumption
          <5>2. QED
            BY <1>3, <1>7, <3>1, <4>1, <4>3, <5>1 DEF InPass, Before
        <4>4. QED
          BY <4>2, <4>3
      <3>3. ASSUME NEW x \in Members \ j.pending PROVE PassedBy(b, x)'
        BY <1>3, <1>8, <3>1 DEF PassedBy, Before
      <3>4. \A x \in j.pending : j.results[x] # Nil
        BY <1>1, MessagesAssumption
      <3>5. QED
        BY <1>1, <1>2, <1>3, <1>9, <3>1, <3>2, <3>3, <3>4 DEF PassOK, Before
    <2>2. CASE j.torecord = {m}
      <3>1. /\ n.pc = "retry" /\ n.pending = FailedOf(j) /\ n.torecord = FailedOf(j)
            /\ n.results = NoResults /\ n.attempt = IF j.pc = "first" THEN 0 ELSE j.attempt + 1
            /\ j.pc = "retry" => j.attempt < MaxRetries
        BY <1>2, <1>3, <2>2 DEF Sending
      <3>2. Before(n) = Before(j) + 1 /\ Before(n) =< MaxRetries + 1
        BY <1>1, <1>9, <3>1 DEF Before
      <3>3. ASSUME NEW x \in FailedOf(j) PROVE InPass(b, x)'
        <4>1. x \in j.pending /\ x \in Members /\ j.results[x] = "failed"
          BY <1>1 DEF FailedOf
        <4>2. x \notin j.torecord \ {m}
          BY <2>2
        <4>3. tries[b][x] = Before(j) + 1 /\ row'[b][x] \in {"prepared", "failed"}
          BY <1>7, <4>1, <4>2, ZenonT(60)
        <4>4. NoResults[x] = Nil
          BY <4>1 DEF NoResults
        <4>5. QED
          BY <1>3, <1>9, <3>1, <3>2, <4>3, <4>4, MessagesAssumption DEF InPass
      <3>4. ASSUME NEW x \in Members \ FailedOf(j) PROVE PassedBy(b, x)'
        <4>1. CASE x \in j.pending
          <5>1. j.results[x] # "failed"
            BY <3>4, <4>1 DEF FailedOf
          <5>2. tries[b][x] = Before(j) + 1 /\ (row'[b][x] = "failed" => <<b, x>> \in unsaved')
            BY <1>7, <2>2, <4>1, <5>1
          <5>3. QED
            BY <1>3, <1>9, <3>2, <5>2 DEF PassedBy
        <4>2. CASE x \notin j.pending
          <5>1. tries[b][x] =< Before(j) /\ tries[b][x] \in Nat
            <6>1. tries \in [Batches -> [Members -> Nat]]
              BY <1>1 DEF TypeOK
            <6>2. QED
              BY <1>8, <4>2, <6>1, ZenonT(60)
          <5>2. QED
            BY <1>3, <1>8, <1>9, <3>2, <4>2, <5>1 DEF PassedBy
        <4>3. QED
          BY <4>1, <4>2
      <3>5. n.via # "manual"
        BY <1>1, <1>2 DEF PassOK
      <3>6. QED
        BY <1>3, <3>1, <3>2, <3>3, <3>4, <3>5 DEF PassOK
    <2>3. QED
      BY <2>1, <2>2
  <1>11. BatchOK(b)'
    BY <1>1, <1>2, <1>3, <1>10 DEF BatchOK, Asking
  <1>12. TriesOK(b)'
    <2> SUFFICES ASSUME NEW x \in Members, At(b, "done")', row'[b][x] = "failed", <<b, x>> \notin unsaved'
                 PROVE  tries[b][x] = MaxRetries + 2
      BY <1>1 DEF TriesOK, At
    <2>1. j.torecord = {m} /\ (FailedOf(j) = {} \/ (j.pc = "retry" /\ j.attempt >= MaxRetries))
      BY <1>1, <1>2, <1>3 DEF At
    <2>2. x \in j.pending
      BY <1>8
    <2>3. j.results[x] = "failed" /\ tries[b][x] = Before(j) + 1
      BY <1>7, <2>1, <2>2
    <2>4. x \in FailedOf(j)
      BY <2>2, <2>3 DEF FailedOf
    <2>5. QED
      BY <1>1, <1>9, <2>1, <2>3, <2>4 DEF Before
  <1>13. Steady(b) /\ SameResend(b)
    <2>1. HasRows(b)'
      BY <1>6 DEF HasRows
    <2>2. n.pc # "resolved" /\ row[b][m] # Nil /\ j.pc \notin Ended
      BY <1>1, <1>2, <1>6, MessagesAssumption DEF Ended
    <2>3. \A x \in Members : Texted(b, x)' => Texted(b, x)
      BY <1>3, <1>4, <2>2 DEF Texted, At
    <2>4. QED
      BY <1>1, <1>2, <1>3, <2>1, <2>2, <2>3 DEF Steady, SameResend, At
  <1>14. QED
    BY <1>1, <1>3, <1>4, <1>5, <1>11, <1>12, <1>13, OneBatch

LEMMA RecordKeeps ==
  ASSUME IInv, NEW b \in Batches, NEW m \in Members, Record(b, m) \/ RecordFails(b, m)
  PROVE  IInv'
  <1>1. CASE Record(b, m)
    <2>1. faults' \in Nat
      BY <1>1 DEF Record, IInv, TypeOK
    <2>2. QED
      BY <1>1, <2>1, ResultKeeps, ZenonT(60) DEF Record
  <1>2. CASE RecordFails(b, m)
    <2>1. faults' \in Nat
      BY <1>2 DEF RecordFails, IInv, TypeOK
    <2>2. QED
      BY <1>2, <2>1, ResultKeeps, ZenonT(60) DEF RecordFails
  <1>3. QED
    BY <1>1, <1>2

-----------------------------------------------------------------------------
(***************************************************************************)
(* What else happens                                                       *)
(***************************************************************************)
(* A request that is dropped.                                              *)
LEMMA DroppedFields ==
  ASSUME NEW j \in Job
  PROVE  LET d == Dropped(j) IN
         /\ d \in Job
         /\ d.kind = j.kind /\ d.via = j.via /\ d.from = j.from /\ d.live = j.live
         /\ \/ j.pc \in {"checked", "picked", "resolved"} /\ d.pc = "done"
            \/ j.pc \in {"first", "retry"} /\ d.pc = "lost"
            \/ j.pc \in {"free", "done", "lost"} /\ d = j
  <1>0. "done" \in PCs /\ "lost" \in PCs /\ j.pc \in PCs
    BY DEF PCs, Job
  <1>1. CASE j.pc \in {"checked", "picked", "resolved"}
    <2>1. Dropped(j) = Over(j, "done")
      BY <1>1 DEF Dropped
    <2>2. QED
      BY <1>0, <1>1, <2>1, OverFields
  <1>2. CASE j.pc \in {"first", "retry"}
    <2>1. Dropped(j) = Over(j, "lost")
      BY <1>2 DEF Dropped
    <2>2. QED
      BY <1>0, <1>2, <2>1, OverFields
  <1>3. CASE j.pc \in {"free", "done", "lost"}
    <2>1. Dropped(j) = j
      BY <1>3 DEF Dropped
    <2>2. QED
      BY <1>3, <2>1
  <1>4. QED
    BY <1>0, <1>1, <1>2, <1>3 DEF PCs

(* Any batch may be dropped, whatever it was doing.                        *)
LEMMA DropKeeps ==
  ASSUME IInv, NEW b \in Batches, job'[b] = job[b] \/ job'[b] = Dropped(job[b]),
         UNCHANGED <<status, row, accepted, tries, unsaved>>
  PROVE  BatchOK(b)' /\ TriesOK(b)' /\ Steady(b) /\ SameResend(b)
  <1> DEFINE j == job[b]
             d == Dropped(j)
  <1>1. j \in Job /\ BatchOK(b) /\ TriesOK(b)
    BY DEF IInv, TypeOK
  <1>2. CASE job'[b] = j
    BY <1>1, <1>2, OtherKeeps
  <1>3. CASE job'[b] = d /\ d # j
    <2>1. /\ d.kind = j.kind /\ d.via = j.via /\ d.from = j.from /\ d.live = j.live
          /\ \/ j.pc \in {"checked", "picked", "resolved"} /\ d.pc = "done"
             \/ j.pc \in {"first", "retry"} /\ d.pc = "lost"
      BY <1>1, <1>3, DroppedFields
    <2> HIDE DEF d
    <2>2. BatchOK(b)'
      BY <1>3, <2>1 DEF BatchOK, Sending, Asking
    <2>3. TriesOK(b)'
      <3>1. CASE d.pc = "done"
        <4>1. \A m \in Members : row[b][m] = Nil
          BY <1>1, <2>1, <3>1 DEF BatchOK, Asking
        <4>2. QED
          BY <1>1, <4>1, MessagesAssumption DEF TriesOK
      <3>2. CASE d.pc # "done"
        BY <1>1, <1>3, <3>2 DEF TriesOK, At
      <3>3. QED
        BY <3>1, <3>2
    <2>4. Steady(b) /\ SameResend(b)
      BY <1>1, <1>3, <2>1 DEF Steady, HasRows, Ended, At, SameResend, Texted
    <2>5. QED
      BY <2>2, <2>3, <2>4
  <1>4. QED
    BY <1>2, <1>3

LEMMA LeaveKeeps ==
  ASSUME IInv, NEW b \in Batches, Leave(b)
  PROVE  IInv'
  <1> DEFINE j == Dropped(job[b])
  <1>1. /\ TypeOK /\ job[b] \in Job /\ Move(b, j) /\ faults' \in Nat
        /\ UNCHANGED <<status, row, accepted, tries, unsaved>>
    BY DEF IInv, TypeOK, Leave
  <1>2. j \in Job
    BY <1>1, DroppedFields
  <1> HIDE DEF j
  <1>3. /\ job' \in [Batches -> Job] /\ job'[b] = j
        /\ \A c \in Batches \ {b} : job'[c] = job[c]
    BY <1>1, <1>2, MoveTypes
  <1>4. TypeOK'
    BY <1>1, <1>3 DEF TypeOK
  <1>5. BatchOK(b)' /\ TriesOK(b)' /\ Steady(b) /\ SameResend(b)
    BY <1>1, <1>3, DropKeeps DEF j
  <1>6. QED
    BY <1>1, <1>3, <1>4, <1>5, OneBatch

LEMMA CrashKeeps ==
  ASSUME IInv, Crash
  PROVE  IInv'
  <1>1. /\ TypeOK /\ faults' \in Nat
        /\ job' = [b \in Batches |-> Dropped(job[b])]
        /\ UNCHANGED <<status, row, accepted, tries, unsaved>>
    BY DEF IInv, TypeOK, Crash
  <1>2. \A b \in Batches : job'[b] = Dropped(job[b])
    BY <1>1
  <1>3. \A b \in Batches : Dropped(job[b]) \in Job
    BY <1>1, DroppedFields DEF TypeOK
  <1>4. TypeOK'
    BY <1>1, <1>3 DEF TypeOK
  <1>5. ASSUME NEW b \in Batches
        PROVE  BatchOK(b)' /\ TriesOK(b)' /\ Steady(b) /\ SameResend(b)
    BY <1>1, <1>2, DropKeeps
  <1>6. ASSUME NEW b \in Batches
        PROVE  ResendOK(b)'
    BY <1>5, ResendKeeps DEF IInv
  <1>7. QED
    BY <1>4, <1>5, <1>6 DEF IInv

LEMMA MarkSentKeeps ==
  ASSUME IInv, NEW b \in Batches, MarkSent(b)
  PROVE  IInv'
  <1> DEFINE sent == [m \in Members |-> IF row[b][m] = Nil THEN Nil ELSE "sent"]
  <1>1. /\ TypeOK /\ BatchOK(b) /\ TriesOK(b)
        /\ HasRows(b) /\ job[b].via = "manual"
        /\ row' = [row EXCEPT ![b] = sent]
        /\ UNCHANGED <<status, job, faults, accepted, tries, unsaved>>
    BY DEF IInv, TypeOK, MarkSent
  <1>2. /\ row' \in [Batches -> [Members -> Status]] /\ row'[b] = sent
        /\ \A c \in Batches \ {b} : row'[c] = row[c]
    BY <1>1 DEF TypeOK, Status
  <1>3. TypeOK'
    BY <1>1, <1>2 DEF TypeOK
  <1>4. job[b].pc \notin Asking /\ ~Sending(b)
    BY <1>1 DEF BatchOK, PassOK, HasRows
  <1>5. BatchOK(b)'
    BY <1>1, <1>4 DEF BatchOK, Sending, Asking
  <1>6. \A m \in Members : (row'[b][m] = Nil <=> row[b][m] = Nil) /\ row'[b][m] # "failed"
    BY <1>2, MessagesAssumption
  <1>7. TriesOK(b)'
    BY <1>1, <1>6 DEF TriesOK
  <1>8. Steady(b) /\ SameResend(b)
    BY <1>1, <1>6 DEF Steady, HasRows, At, SameResend, Texted
  <1>9. QED
    BY <1>1, <1>2, <1>3, <1>5, <1>7, <1>8, OneBatch

LEMMA CloseKeeps ==
  ASSUME IInv, Close \/ UNCHANGED vars
  PROVE  IInv'
  <1>1. UNCHANGED <<job, row, faults, accepted, tries, unsaved>>
        /\ status' \in {"active", "closed"} /\ TypeOK
    BY DEF Close, vars, IInv, TypeOK
  <1>2. TypeOK'
    BY <1>1 DEF TypeOK
  <1>3. ASSUME NEW b \in Batches
        PROVE  BatchOK(b)' /\ TriesOK(b)' /\ Steady(b) /\ SameResend(b)
    BY <1>1, OtherKeeps DEF IInv
  <1>4. ASSUME NEW b \in Batches
        PROVE  ResendOK(b)'
    BY <1>1, <1>3, ResendKeeps DEF IInv
  <1>5. QED
    BY <1>2, <1>3, <1>4 DEF IInv

-----------------------------------------------------------------------------
(***************************************************************************)
(* The invariant                                                           *)
(***************************************************************************)
LEMMA InitOK ==
  ASSUME Init
  PROVE  IInv
  <1>1. Free \in Job
    BY DEF Free, Job, NoResults, PCs
  <1>2. TypeOK
    BY <1>1 DEF Init, TypeOK, NoResults, Status
  <1>3. ASSUME NEW b \in Batches
        PROVE  /\ job[b].pc = "free" /\ job[b].from = Nil
               /\ \A m \in Members : row[b][m] = Nil /\ tries[b][m] = 0
    BY DEF Init, Free, NoResults
  <1>4. ASSUME NEW b \in Batches
        PROVE  BatchOK(b) /\ ResendOK(b) /\ TriesOK(b)
    <2>1. BatchOK(b) /\ ResendOK(b)
      BY <1>3 DEF BatchOK, ResendOK, At, Sending
    <2>2. TriesOK(b)
      BY <1>3, MessagesAssumption DEF TriesOK
    <2>3. QED
      BY <2>1, <2>2
  <1>5. QED
    BY <1>2, <1>4 DEF IInv

LEMMA StepInv ==
  ASSUME IInv, [Next]_vars
  PROVE  IInv'
  <1>1. ASSUME NEW b \in Batches, NEW kind \in Kinds, NEW via \in {"manual", "http"},
               NEW target \in Targets, Begin(b, kind, via, target)
        PROVE  IInv'
    BY <1>1, BeginKeeps
  <1>2. ASSUME NEW b \in Batches, Work(b)
        PROVE  IInv'
    <2>1. CASE \E to \in SUBSET Members : Resolve(b, to)
      BY <2>1, ResolveKeeps
    <2>2. CASE PickLast(b) \/ ReadFailed(b) \/ Prepare(b)
      BY <2>2, PickLastKeeps, ReadFailedKeeps, PrepareKeeps
    <2>3. CASE \E m \in Members, taken \in BOOLEAN, answer \in {"sent", "failed"} :
                 SendOne(b, m, taken, answer)
      BY <2>3, SendOneKeeps
    <2>4. CASE \E m \in Members : Record(b, m)
      BY <2>4, RecordKeeps
    <2>5. QED
      BY <1>2, <2>1, <2>2, <2>3, <2>4, ZenonT(60) DEF Work
  <1>3. ASSUME NEW b \in Batches,
               (\E m \in Members : RecordFails(b, m)) \/ Leave(b) \/ MarkSent(b)
        PROVE  IInv'
    BY <1>3, RecordKeeps, LeaveKeeps, MarkSentKeeps
  <1>4. CASE Crash \/ Close \/ UNCHANGED vars
    BY <1>4, CrashKeeps, CloseKeeps
  <1>5. QED
    BY <1>1, <1>2, <1>3, <1>4, ZenonT(60) DEF Next

(* The invariant above holds throughout.                                   *)
THEOREM Invariant == Spec => []IInv
  <1>1. Init => IInv
    BY InitOK
  <1>2. IInv /\ [Next]_vars => IInv'
    BY StepInv
  <1>3. QED
    BY <1>1, <1>2, PTL DEF Spec

(* The variables keep their types.                                         *)
THEOREM TypeCorrect == Spec => []TypeOK
  <1>1. IInv => TypeOK
    BY DEF IInv
  <1>2. QED
    BY <1>1, Invariant, PTL

(* A text is handed to the gateway at most MaxRetries + 2 times, and one   *)
(* that failed for good exactly that often, unless a result went           *)
(* unrecorded (SendWithRetries after the pass of Prepare).                 *)
THEOREM TriesAreMade == Spec => []EveryTryIsMade
  <1>1. IInv => EveryTryIsMade
    BY ZenonT(60) DEF IInv, TriesOK, EveryTryIsMade
  <1>2. QED
    BY <1>1, Invariant, PTL

(* Texting the failures of a batch again reaches nobody twice, if the      *)
(* batch was through when they were read (LastFailedMemberIDs).            *)
THEOREM ResendReaches == Spec => []ResendReachesOnce
  <1>1. ASSUME IInv PROVE ResendReachesOnce
    <2> SUFFICES ASSUME NEW b \in Batches, NEW m \in Members,
                        job[b].from # Nil, ~job[b].live, row[b][m] = "sent"
                 PROVE  row[job[b].from][m] # "sent"
      BY DEF ResendReachesOnce
    <2>1. row[job[b].from][m] = "failed"
      BY <1>1, MessagesAssumption DEF IInv, ResendOK
    <2>2. QED
      BY <2>1
  <1>2. QED
    BY <1>1, Invariant, PTL

-----------------------------------------------------------------------------
(***************************************************************************)
(* The promise of module Outbox                                            *)
(***************************************************************************)
(* The batches an operator sends and reports on.                           *)
Trusted == {b \in Batches : job[b].via = "manual" /\ HasRows(b)}

(* A request is not made over once it has rows.                            *)
LEMMA SameTrusted ==
  ASSUME \A b \in Batches : HasRows(b)' <=> HasRows(b),
         \A b \in Batches : HasRows(b) => job'[b].via = job[b].via
  PROVE  Trusted' = Trusted
  BY DEF Trusted

(* A step that takes a request on and leaves the rows is no step of the    *)
(* promise.                                                                *)
LEMMA AskStutters ==
  ASSUME TypeOK, row' = row, accepted' = accepted, NEW b \in Batches, NEW j \in Job, Move(b, j),
         j.via = job[b].via \/ ~HasRows(b)
  PROVE  UNCHANGED <<row, Trusted, accepted>>
  <1>1. job'[b] = j /\ \A c \in Batches \ {b} : job'[c] = job[c]
    BY MoveTypes
  <1>2. \A c \in Batches : HasRows(c) => job'[c].via = job[c].via
    BY <1>1
  <1>3. \A c \in Batches : HasRows(c)' <=> HasRows(c)
    BY DEF HasRows
  <1>4. QED
    BY <1>2, <1>3, SameTrusted

LEMMA BeginStutters ==
  ASSUME IInv, NEW b \in Batches, NEW kind \in Kinds, NEW via \in {"manual", "http"},
         NEW target \in Targets, Begin(b, kind, via, target)
  PROVE  UNCHANGED <<row, Trusted, accepted>>
  <1> DEFINE j == [Free EXCEPT !.pc = "checked", !.kind = kind, !.via = via, !.target = target]
  <1>1. TypeOK /\ BatchOK(b) /\ At(b, "free") /\ Move(b, j) /\ row' = row /\ accepted' = accepted
    BY DEF IInv, Begin, Upcoming
  <1>2. Free \in Job
    BY DEF Free, Job, NoResults, PCs
  <1>3. j \in Job
    BY <1>2, ZenonT(60) DEF Job, PCs
  <1> HIDE DEF j
  <1>4. ~HasRows(b)
    BY <1>1 DEF BatchOK, HasRows, Asking, At
  <1>5. QED
    BY <1>1, <1>3, <1>4, AskStutters

LEMMA AnswerStutters ==
  ASSUME IInv, NEW b \in Batches,
         (\E to \in SUBSET Members : Resolve(b, to)) \/ PickLast(b) \/ ReadFailed(b)
  PROVE  UNCHANGED <<row, Trusted, accepted>>
  <1>1. TypeOK /\ job[b] \in Job
    BY DEF IInv, TypeOK
  <1>2. ASSUME NEW to \in SUBSET Members, Resolve(b, to)
        PROVE  UNCHANGED <<row, Trusted, accepted>>
    <2> DEFINE j == [job[b] EXCEPT !.pc = "resolved", !.to = to]
    <2>1. Move(b, j) /\ row' = row /\ accepted' = accepted
      BY <1>2, ZenonT(60) DEF Resolve
    <2>2. j \in Job
      BY <1>1, ZenonT(60) DEF Job, PCs
    <2>3. j.via = job[b].via
      BY <1>1 DEF Job
    <2> HIDE DEF j
    <2>4. QED
      BY <1>1, <2>1, <2>2, <2>3, AskStutters
  <1>3. CASE PickLast(b)
    <2>1. row' = row /\ accepted' = accepted
      BY <1>3, ZenonT(60) DEF PickLast
    <2>2. CASE Move(b, [job[b] EXCEPT !.pc = "resolved"])
      <3> DEFINE j == [job[b] EXCEPT !.pc = "resolved"]
      <3>1. j \in Job
        BY <1>1, ZenonT(60) DEF Job, PCs
      <3>2. j.via = job[b].via /\ Move(b, j)
        BY <1>1, <2>2 DEF Job
      <3> HIDE DEF j
      <3>3. QED
        BY <1>1, <2>1, <3>1, <3>2, AskStutters
    <2>3. ASSUME NEW c \in Candidates(job[b].kind), Move(b, [job[b] EXCEPT !.pc = "picked", !.from = c])
          PROVE  UNCHANGED <<row, Trusted, accepted>>
      <3> DEFINE j == [job[b] EXCEPT !.pc = "picked", !.from = c]
      <3>1. c \in Batches
        BY <2>3 DEF Candidates
      <3>2. j \in Job
        BY <1>1, <3>1, ZenonT(60) DEF Job, PCs
      <3>3. j.via = job[b].via
        BY <1>1 DEF Job
      <3>4. Move(b, j)
        BY <2>3
      <3> HIDE DEF j
      <3>5. QED
        BY <1>1, <2>1, <3>2, <3>3, <3>4, AskStutters
    <2>4. QED
      BY <1>3, <2>2, <2>3, ZenonT(60) DEF PickLast
  <1>4. CASE ReadFailed(b)
    <2> DEFINE c == job[b].from
               to == {m \in Members : row[c][m] = "failed"}
               j == [job[b] EXCEPT !.pc = "resolved", !.live = Sending(c), !.to = to]
    <2>1. Move(b, j) /\ row' = row /\ accepted' = accepted
      BY <1>4 DEF ReadFailed
    <2>2. Sending(c) \in BOOLEAN /\ to \in SUBSET Members /\ "resolved" \in PCs
      BY DEF Sending, PCs
    <2>3. j \in Job
      BY <1>1, <2>2, ZenonT(60) DEF Job
    <2>4. j.via = job[b].via
      BY <1>1 DEF Job
    <2> HIDE DEF j
    <2>5. QED
      BY <1>1, <2>1, <2>3, <2>4, AskStutters
  <1>5. QED
    BY <1>2, <1>3, <1>4

(* Rows are put down once, together.                                       *)
LEMMA PreparePutsDown ==
  ASSUME IInv, NEW b \in Batches, Prepare(b)
  PROVE  \E to \in SUBSET Members, manual \in BOOLEAN : Promise!PutDown(b, to, manual)
  <1> DEFINE j == job[b]
             n == IF j.via = "manual" \/ j.to = {} THEN Over(j, "done") ELSE Pass(j, "first", j.to)
             manual == j.via = "manual" /\ j.to # {}
  <1>1. /\ TypeOK /\ j \in Job /\ BatchOK(b) /\ At(b, "resolved") /\ Move(b, n)
        /\ row' = [row EXCEPT ![b] = [m \in Members |-> IF m \in j.to THEN "prepared" ELSE Nil]]
        /\ accepted' = accepted /\ j.to \in SUBSET Members
    BY DEF IInv, TypeOK, Prepare, Job
  <1>2. n \in Job /\ n.via = j.via
    <2>1. "done" \in PCs /\ "first" \in PCs
      BY DEF PCs
    <2>2. CASE j.via = "manual" \/ j.to = {}
      BY <1>1, <2>1, <2>2, OverFields
    <2>3. CASE ~(j.via = "manual" \/ j.to = {})
      BY <1>1, <2>1, <2>3, PassFields
    <2>4. QED
      BY <2>2, <2>3
  <1> HIDE DEF n
  <1>3. job'[b].via = j.via /\ \A c \in Batches \ {b} : job'[c] = job[c]
    BY <1>1, <1>2, MoveTypes
  <1>4. row[b] = [m \in Members |-> Nil] /\ ~HasRows(b)
    BY <1>1 DEF TypeOK, BatchOK, Asking, At, HasRows
  <1>5. /\ row'[b] = [m \in Members |-> IF m \in j.to THEN "prepared" ELSE Nil]
        /\ \A c \in Batches \ {b} : row'[c] = row[c]
    BY <1>1 DEF TypeOK
  <1>6. HasRows(b)' <=> j.to # {}
    BY <1>1, <1>5, MessagesAssumption DEF HasRows
  <1>7. \A c \in Batches \ {b} : (HasRows(c)' <=> HasRows(c)) /\ job'[c].via = job[c].via
    BY <1>3, <1>5 DEF HasRows
  <1>8. Trusted' = IF manual THEN Trusted \cup {b} ELSE Trusted
    BY <1>3, <1>4, <1>6, <1>7 DEF Trusted
  <1>9. manual \in BOOLEAN
    OBVIOUS
  <1> HIDE DEF manual
  <1>10. Promise!PutDown(b, j.to, manual)
    <2>1. row[b] = Promise!Empty
      BY <1>4 DEF Promise!Empty
    <2>2. row' = [row EXCEPT ![b] = [m \in Members |-> IF m \in j.to THEN "prepared" ELSE Nil]]
      BY <1>1
    <2>3. accepted' = accepted
      BY <1>1
    <2>4. {c \in Batches : job[c].via = "manual" /\ HasRows(c)}'
            = IF manual THEN {c \in Batches : job[c].via = "manual" /\ HasRows(c)} \cup {b}
              ELSE {c \in Batches : job[c].via = "manual" /\ HasRows(c)}
      BY <1>8, ZenonT(60) DEF Trusted
    <2>5. QED
      BY <2>1, <2>2, <2>3, <2>4, ZenonT(60) DEF Promise!PutDown
  <1>11. j.to \in SUBSET Members
    BY <1>1
  <1> HIDE DEF j
  <1>12. QED
    BY <1>9, <1>10, <1>11, ZenonT(60) DEF Promise!PutDown

(* The gateway accepts a text that waits for it, or turns it down.         *)
LEMMA SendOneAccepts ==
  ASSUME IInv, NEW b \in Batches, NEW m \in Members, NEW taken \in BOOLEAN,
         NEW answer \in {"sent", "failed"}, SendOne(b, m, taken, answer)
  PROVE  Promise!Accept(b, m) \/ UNCHANGED <<row, Trusted, accepted>>
  <1> DEFINE j == job[b]
             n == [j EXCEPT !.results[m] = answer]
  <1>1. /\ TypeOK /\ j \in Job /\ PassOK(b) /\ m \in j.pending /\ j.results[m] = Nil
        /\ Move(b, n) /\ row' = row
        /\ accepted' = IF taken THEN accepted \cup {<<b, m>>} ELSE accepted
    BY DEF IInv, TypeOK, BatchOK, SendOne
  <1>2. n \in Job
    BY <1>1, ZenonT(60) DEF Job
  <1>3. n.via = j.via
    BY <1>1 DEF Job
  <1> HIDE DEF n
  <1>4. job'[b].via = j.via /\ \A c \in Batches \ {b} : job'[c] = job[c]
    BY <1>1, <1>2, <1>3, MoveTypes
  <1>5. \A c \in Batches : (HasRows(c)' <=> HasRows(c)) /\ job'[c].via = job[c].via
    BY <1>1, <1>4 DEF HasRows
  <1>6. Trusted' = Trusted
    BY <1>5, SameTrusted
  <1>7. row[b][m] \in {"prepared", "failed"}
    <2>1. m \in j.torecord /\ InPass(b, m)
      BY <1>1 DEF PassOK
    <2>2. QED
      BY <2>1 DEF InPass
  <1>8. b \notin Trusted
    BY <1>1 DEF Trusted, PassOK
  <1>9. CASE taken
    <2>1. Promise!Accept(b, m)
      BY <1>1, <1>6, <1>7, <1>8, <1>9 DEF Promise!Accept, Trusted
    <2>2. QED
      BY <2>1
  <1>10. CASE ~taken
    BY <1>1, <1>6, <1>10
  <1>11. QED
    BY <1>9, <1>10

(* A result recorded is the gateway's answer.                              *)
LEMMA RecordReports ==
  ASSUME IInv, NEW b \in Batches, NEW m \in Members, Record(b, m)
  PROVE  Promise!ReportFailed(b, m) \/ Promise!ReportSent(b, m)
  <1> DEFINE j == job[b]
             n == Onward(j, m)
  <1>1. /\ TypeOK /\ j \in Job /\ PassOK(b) /\ Sending(b) /\ m \in j.torecord
        /\ \A x \in j.pending : j.results[x] # Nil
        /\ Move(b, n) /\ row' = [row EXCEPT ![b][m] = j.results[m]] /\ accepted' = accepted
    BY DEF IInv, TypeOK, BatchOK, Record, Result
  <1>2. InPass(b, m) /\ j.results[m] \in {"sent", "failed"} /\ j.via # "manual"
    BY <1>1 DEF PassOK, Job
  <1>3. n \in Job /\ n.via = j.via
    BY <1>1, OnwardFields DEF Sending
  <1> HIDE DEF n
  <1>4. job'[b].via = j.via /\ \A c \in Batches \ {b} : job'[c] = job[c]
    BY <1>1, <1>3, MoveTypes
  <1>5. row[b][m] \in {"prepared", "failed"}
    BY <1>1, <1>2 DEF InPass
  <1>6. row'[b][m] = j.results[m] /\ \A c \in Batches \ {b} : row'[c] = row[c]
    BY <1>1 DEF TypeOK
  <1>7. HasRows(b) /\ HasRows(b)'
    BY <1>2, <1>5, <1>6, MessagesAssumption DEF HasRows
  <1>8. \A c \in Batches : HasRows(c)' <=> HasRows(c)
    BY <1>6, <1>7 DEF HasRows
  <1>9. Trusted' = Trusted
    BY <1>4, <1>8, SameTrusted
  <1>10. b \notin Trusted
    BY <1>2 DEF Trusted
  <1>11. CASE j.results[m] = "failed"
    <2>1. Promise!ReportFailed(b, m)
      BY <1>1, <1>5, <1>9, <1>10, <1>11 DEF Promise!ReportFailed, Trusted
    <2>2. QED
      BY <2>1
  <1>12. CASE j.results[m] = "sent"
    <2>1. <<b, m>> \in accepted
      BY <1>2, <1>12 DEF InPass
    <2>2. Promise!ReportSent(b, m)
      BY <1>1, <1>5, <1>9, <1>12, <2>1 DEF Promise!ReportSent, Trusted
    <2>3. QED
      BY <2>2
  <1>13. QED
    BY <1>2, <1>11, <1>12

(* A goroutine that fails to record, an administrator who leaves and a     *)
(* restart touch no row.                                                   *)
LEMMA LossStutters ==
  ASSUME IInv,
         \/ \E b \in Batches : (\E m \in Members : RecordFails(b, m)) \/ Leave(b)
         \/ Crash \/ Close \/ UNCHANGED vars
  PROVE  UNCHANGED <<row, Trusted, accepted>>
  <1>1. TypeOK
    BY DEF IInv
  <1>2. ASSUME NEW b \in Batches, NEW m \in Members, RecordFails(b, m)
        PROVE  UNCHANGED <<row, Trusted, accepted>>
    <2> DEFINE n == Onward(job[b], m)
    <2>1. Move(b, n) /\ Sending(b) /\ job[b] \in Job /\ row' = row /\ accepted' = accepted
      BY <1>1, <1>2 DEF RecordFails, Result, TypeOK
    <2>2. n \in Job /\ n.via = job[b].via
      BY <2>1, OnwardFields DEF Sending
    <2> HIDE DEF n
    <2>3. QED
      BY <1>1, <2>1, <2>2, AskStutters
  <1>3. ASSUME NEW b \in Batches, Leave(b)
        PROVE  UNCHANGED <<row, Trusted, accepted>>
    <2> DEFINE n == Dropped(job[b])
    <2>1. Move(b, n) /\ job[b] \in Job /\ row' = row /\ accepted' = accepted
      BY <1>1, <1>3 DEF Leave, TypeOK
    <2>2. n \in Job /\ n.via = job[b].via
      BY <2>1, DroppedFields
    <2> HIDE DEF n
    <2>3. QED
      BY <1>1, <2>1, <2>2, AskStutters
  <1>4. CASE Crash
    <2>1. row' = row /\ accepted' = accepted /\ job' = [b \in Batches |-> Dropped(job[b])]
      BY <1>4 DEF Crash
    <2>2. ASSUME NEW b \in Batches PROVE job'[b].via = job[b].via
      <3>1. job[b] \in Job /\ job'[b] = Dropped(job[b])
        BY <1>1, <2>1 DEF TypeOK
      <3>2. QED
        BY <3>1, DroppedFields
    <2>3. \A b \in Batches : HasRows(b)' <=> HasRows(b)
      BY <2>1 DEF HasRows
    <2>4. QED
      BY <2>1, <2>2, <2>3, SameTrusted
  <1>5. CASE Close \/ UNCHANGED vars
    <2>1. row' = row /\ accepted' = accepted /\ job' = job
      BY <1>5 DEF Close, vars
    <2>2. \A b \in Batches : HasRows(b)' <=> HasRows(b)
      BY <2>1 DEF HasRows
    <2>3. QED
      BY <2>1, <2>2, SameTrusted
  <1>6. QED
    BY <1>2, <1>3, <1>4, <1>5

(* The operator reports a batch of his own.                                *)
LEMMA MarkSentConfirms ==
  ASSUME IInv, NEW b \in Batches, MarkSent(b)
  PROVE  Promise!Confirm(b)
  <1>1. /\ row \in [Batches -> [Members -> Status]] /\ HasRows(b) /\ job[b].via = "manual"
        /\ row' = [row EXCEPT ![b] = [m \in Members |-> IF @[m] = Nil THEN Nil ELSE "sent"]]
        /\ job' = job /\ accepted' = accepted
    BY DEF IInv, TypeOK, MarkSent
  <1>2. \A c \in Batches \ {b} : row'[c] = row[c]
    BY <1>1
  <1>3. \A m \in Members : row'[b][m] = Nil <=> row[b][m] = Nil
    BY <1>1, MessagesAssumption
  <1>4. \A c \in Batches : HasRows(c)' <=> HasRows(c)
    BY <1>2, <1>3 DEF HasRows
  <1>5. Trusted' = Trusted
    BY <1>1, <1>4, SameTrusted
  <1>6. b \in Trusted
    BY <1>1 DEF Trusted
  <1>7. QED
    BY <1>1, <1>5, <1>6 DEF Promise!Confirm, Trusted

LEMMA StepKeepsPromise ==
  ASSUME IInv, [Next]_vars
  PROVE  Promise!OutboxNext \/ UNCHANGED <<row, Trusted, accepted>>
  <1>1. ASSUME NEW b \in Batches, NEW kind \in Kinds, NEW via \in {"manual", "http"},
               NEW target \in Targets, Begin(b, kind, via, target)
        PROVE  UNCHANGED <<row, Trusted, accepted>>
    BY <1>1, BeginStutters
  <1>2. ASSUME NEW b \in Batches, Work(b)
        PROVE  Promise!OutboxNext \/ UNCHANGED <<row, Trusted, accepted>>
    <2>1. CASE (\E to \in SUBSET Members : Resolve(b, to)) \/ PickLast(b) \/ ReadFailed(b)
      BY <2>1, AnswerStutters
    <2>2. CASE Prepare(b)
      BY <2>2, PreparePutsDown, ZenonT(60) DEF Promise!OutboxNext
    <2>3. CASE \E m \in Members, taken \in BOOLEAN, answer \in {"sent", "failed"} :
                 SendOne(b, m, taken, answer)
      BY <2>3, SendOneAccepts, ZenonT(60) DEF Promise!OutboxNext
    <2>4. CASE \E m \in Members : Record(b, m)
      BY <2>4, RecordReports, ZenonT(60) DEF Promise!OutboxNext
    <2>5. QED
      BY <1>2, <2>1, <2>2, <2>3, <2>4, ZenonT(60) DEF Work
  <1>3. ASSUME NEW b \in Batches, MarkSent(b)
        PROVE  Promise!OutboxNext
    BY <1>3, MarkSentConfirms, ZenonT(60) DEF Promise!OutboxNext
  <1>4. CASE \/ \E b \in Batches : (\E m \in Members : RecordFails(b, m)) \/ Leave(b)
             \/ Crash \/ Close \/ UNCHANGED vars
    BY <1>4, LossStutters
  <1>5. QED
    BY <1>1, <1>2, <1>3, <1>4, ZenonT(60) DEF Next

(* `sms_log' keeps the promise of Outbox, for any numbers: one row per     *)
(* text, no way back from sent, and a row sent by the gateway is a text    *)
(* that the gateway accepted.                                              *)
THEOREM PromiseKept == Spec => KeepsPromise
  <1>1. Init => Promise!OutboxInit
    <2> SUFFICES ASSUME Init PROVE Promise!OutboxInit
      OBVIOUS
    <2>1. \A b \in Batches : ~HasRows(b)
      BY DEF Init, HasRows, NoResults
    <2>2. QED
      BY <2>1 DEF Init, NoResults, Promise!OutboxInit, Promise!Empty
  <1>2. IInv /\ [Next]_vars
          => [Promise!OutboxNext]_<<row, {b \in Batches : job[b].via = "manual" /\ HasRows(b)}, accepted>>
    BY StepKeepsPromise DEF Trusted
  <1>3. QED
    BY <1>1, <1>2, Invariant, PTL DEF Spec, KeepsPromise, Promise!OutboxSpec
================================================================================
