--------------------------------- MODULE Board ---------------------------------
(***************************************************************************)
(* The administrator's board: the change feed of internal/tracker (epoch,  *)
(* seq, seqAt), the handlers of GET /a/snapshot and GET /a/delta, and the  *)
(* page web/a/a.js that polls them.                                        *)
(*                                                                         *)
(* The handler reads epoch and seq, the incident and the live records one  *)
(* after the other, with no lock around the three; the page may have two   *)
(* fetches under way, because it also takes a snapshot after each of its   *)
(* own edits and starts a new timer whenever it is shown or hidden.        *)
(* A position is a point of a line in steps of five metres.                *)
(***************************************************************************)
EXTENDS Integers, FiniteSets

CONSTANTS
  Members,     \* the members on call
  Nil,         \* no incident, no record, no position
  Polls,       \* fetches of the polling loop under way at a time
  OwnFetches,  \* snapshots after an edit of this page under way at a time
  Points,      \* the points of the line
  Validities,  \* whether reports are valid and plausible: a subset of BOOLEAN
  MaxInc,      \* bound: incidents opened
  MaxSeq,      \* bound: changes of the feed
  MaxEpoch,    \* bound: starts of the process
  MaxActs      \* bound: edits made on this page, and times it is shown or hidden

Fetches   == Polls \cup OwnFetches
Incidents == 1 .. MaxInc
Phases    == {"NOTIFIED", "LOGGED_IN", "LOC_DENIED", "MOVING"}

(* A row of the board, as toSnapshot makes it of a live record.            *)
Shown == [state : Phases, pos : Points \cup {Nil}, pending : BOOLEAN]
Live  == [state : Phases, pos : Points \cup {Nil}, pending : BOOLEAN,
          seqAt : 0 .. MaxSeq]
toSnapshot(l) == [state |-> l.state, pos |-> l.pos, pending |-> l.pending]
NoRows == [m \in Members |-> Nil]

ASSUME BoardAssumption ==
  /\ Points \subseteq Nat /\ Validities \subseteq BOOLEAN
  /\ Nil \notin Points \cup Incidents \cup Shown \cup Live
  /\ Polls \cap OwnFetches = {}
  /\ {MaxInc, MaxActs} \subseteq Nat /\ {MaxSeq, MaxEpoch} \subseteq Nat \ {0}

VARIABLES
  inc,       \* the active incident on record
  lastInc,   \* incidents opened so far
  tracked,   \* t.incidentID
  reload,    \* whether a change of the incident is yet to be reloaded
  live,      \* t.live
  epoch, seq,
  page,      \* board: epoch, seq, incident and m of a.js
  timer,     \* board.pollTimer is set
  fetch,     \* the fetches under way
  acts,      \* edits made on this page, and times it was shown or hidden
  gap,       \* history: a delta was applied to a page behind its base
  broken     \* history: the snapshot after a resync failed

server == <<inc, lastInc, tracked, reload, live, epoch, seq>>
client == <<page, timer, acts, gap>>
vars   == <<server, client, fetch, broken>>

(* kind: a delta of the polling loop, the snapshot a resync leads to, or   *)
(* the snapshot after an edit.                                             *)
Fetch ==
  [pc    : {"none", "sent", "incident", "rows", "answer"},
   kind  : {"poll", "resynced", "edit"},
   epoch : 0 .. MaxEpoch, since : 0 .. MaxSeq,
   seq   : 0 .. MaxSeq, inc : Incidents \cup {Nil},
   rows  : [Members -> Shown \cup {Nil}]]
Free == [pc |-> "none", kind |-> "poll", epoch |-> 0, since |-> 0, seq |-> 0,
         inc |-> Nil, rows |-> NoRows]
Full(f) == f.kind # "poll"

TypeOK ==
  /\ {inc, tracked} \subseteq Incidents \cup {Nil}
  /\ lastInc \in 0 .. MaxInc
  /\ {reload, timer, gap, broken} \subseteq BOOLEAN
  /\ live \in [Members -> Live \cup {Nil}]
  /\ epoch \in 1 .. MaxEpoch /\ seq \in 0 .. MaxSeq
  /\ page \in [epoch : 1 .. MaxEpoch, seq : 0 .. MaxSeq,
               inc : Incidents \cup {Nil}, m : [Members -> Shown \cup {Nil}]]
  /\ fetch \in [Fetches -> Fetch]
  /\ acts \in 0 .. MaxActs

(* A page that has just been loaded, with no incident under way.           *)
Init ==
  /\ inc = Nil /\ lastInc = 0 /\ tracked = Nil /\ reload = FALSE
  /\ live = NoRows /\ epoch = 1 /\ seq = 0
  /\ page = [epoch |-> 1, seq |-> 0, inc |-> Nil, m |-> NoRows]
  /\ timer = TRUE /\ fetch = [x \in Fetches |-> Free]
  /\ acts = 0 /\ gap = FALSE /\ broken = FALSE

(***************************************************************************)
(* What changes the live records                                           *)
(***************************************************************************)
(* bumpSeq, and the record marked with the new number.                     *)
Announce(m, l) ==
  /\ seq < MaxSeq
  /\ seq' = seq + 1
  /\ live' = [live EXCEPT ![m] = [l EXCEPT !.seqAt = seq + 1]]
Keep(m, l) == live' = [live EXCEPT ![m] = l] /\ UNCHANGED seq

LoggedIn(l) == IF l.state = "NOTIFIED" THEN [l EXCEPT !.state = "LOGGED_IN"] ELSE l
Far(p, q) == p - q >= 2 \/ q - p >= 2

(* ProcessFix: which reports are announced.                                *)
Announced(old, new) ==
  \/ new.state # LoggedIn(old).state
  \/ old.state = "NOTIFIED"
  \/ old.pos = Nil
  \/ Far(old.pos, new.pos)

(* POST /f/fix of a member.  A valid report makes a waiting member move.   *)
ProcessFix(m) ==
  /\ live[m] # Nil
  /\ \E p \in Points, valid \in Validities :
       LET l == [LoggedIn(live[m]) EXCEPT !.state = IF valid THEN "MOVING" ELSE @, !.pos = p] IN
       IF Announced(live[m], l) THEN Announce(m, l) ELSE Keep(m, l)
  /\ UNCHANGED <<inc, lastInc, tracked, reload, epoch, client, fetch, broken>>

(* GET /f/me of a member.                                                  *)
MarkLoggedIn(m) ==
  /\ live[m] # Nil
  /\ Announce(m, LoggedIn(live[m]))
  /\ UNCHANGED <<inc, lastInc, tracked, reload, epoch, client, fetch, broken>>

(* POST /f/ack and POST /f/consent {granted: false}: no number is drawn.   *)
Ack(m) ==
  /\ live[m] # Nil
  /\ Keep(m, [live[m] EXCEPT !.pending = FALSE])
  /\ UNCHANGED <<inc, lastInc, tracked, reload, epoch, client, fetch, broken>>

ConsentDenied(m) ==
  /\ live[m] # Nil
  /\ live[m].state \in {"NOTIFIED", "LOGGED_IN"}
  /\ Keep(m, [live[m] EXCEPT !.state = "LOC_DENIED"])
  /\ UNCHANGED <<inc, lastInc, tracked, reload, epoch, client, fetch, broken>>

(* The statements that open, change or close the incident; the reload of   *)
(* the tracker is a later step of the same request.                        *)
Open ==
  /\ inc = Nil /\ lastInc < MaxInc
  /\ inc' = lastInc + 1 /\ lastInc' = lastInc + 1
Change == inc # Nil /\ ~reload /\ UNCHANGED <<inc, lastInc>>
Close  == inc # Nil /\ inc' = Nil /\ UNCHANGED lastInc
Edit ==
  /\ Open \/ Change \/ Close
  /\ reload' = TRUE
  /\ UNCHANGED <<tracked, live, epoch, seq>>

(* The rows a reload may find: a member just called up or added, or the    *)
(* known one with a task changed or not.                                   *)
Loaded(m) ==
  IF inc # tracked \/ live[m] = Nil
  THEN {[state |-> "NOTIFIED", pos |-> Nil, pending |-> TRUE, seqAt |-> 0]}
  ELSE {live[m], [live[m] EXCEPT !.pending = TRUE]}

(* LoadActive.  Every record is marked with one new number; with no        *)
(* incident the table is emptied and no number is drawn.                   *)
LoadActive(tables) ==
  /\ tracked' = inc
  /\ IF inc = Nil
     THEN live' = NoRows /\ UNCHANGED seq
     ELSE /\ seq < MaxSeq
          /\ seq' = seq + 1
          /\ \E table \in tables :
               live' = [m \in Members |-> [table[m] EXCEPT !.seqAt = seq + 1]]

Tables == {table \in [Members -> UNION {Loaded(m) : m \in Members}] :
             \A m \in Members : table[m] \in Loaded(m)}
Reload ==
  /\ reload /\ reload' = FALSE
  /\ LoadActive(Tables)
  /\ UNCHANGED <<inc, lastInc, epoch, client, fetch, broken>>

(***************************************************************************)
(* GET /a/snapshot and GET /a/delta                                        *)
(***************************************************************************)
Put(x, f) == fetch' = [fetch EXCEPT ![x] = f]
Serving(x, pc) == fetch[x].pc = pc /\ UNCHANGED <<server, client, broken>>

(* handleDelta refuses a number drawn by another process, and fetchDelta   *)
(* asks for a snapshot instead.                                            *)
Refuse(f) == ~Full(f) /\ f.epoch # epoch
Resync(x) ==
  /\ Serving(x, "sent") /\ Refuse(fetch[x])
  /\ Put(x, [Free EXCEPT !.pc = "sent", !.kind = "resynced"])

(* buildBoardPayload: the number first ...                                 *)
ReadSeq(x) ==
  /\ Serving(x, "sent") /\ ~Refuse(fetch[x])
  /\ Put(x, [fetch[x] EXCEPT !.pc = "incident", !.epoch = epoch, !.seq = seq])

(* ... then the incident; with none, the answer is empty ...               *)
ReadIncident(x) ==
  /\ Serving(x, "incident")
  /\ Put(x, [fetch[x] EXCEPT !.pc = IF inc = Nil THEN "answer" ELSE "rows", !.inc = inc])

(* ... then the live records, all of them or those marked later than       *)
(* since.                                                                  *)
SnapshotSince(since) == {m \in Members : live[m] # Nil /\ live[m].seqAt > since}
SnapshotAll == {m \in Members : live[m] # Nil}
ReadRows(x) ==
  LET them == IF Full(fetch[x]) THEN SnapshotAll ELSE SnapshotSince(fetch[x].since) IN
  /\ Serving(x, "rows")
  /\ Put(x, [fetch[x] EXCEPT !.pc = "answer",
                             !.rows = [m \in Members |-> IF m \in them THEN toSnapshot(live[m]) ELSE Nil]])

(***************************************************************************)
(* The page                                                                *)
(***************************************************************************)
(* What becomes of the polling loop at the end of a fetch: the next timer  *)
(* is set after a delta, answered or not, and after a snapshot that        *)
(* followed a resync and was answered.                                     *)
Reschedules_Answered(x, answered) == answered /\ fetch[x].kind # "edit"   \* mutant: not after a lost delta
Reschedules(x, answered) ==
  fetch[x].kind = "poll" \/ (fetch[x].kind = "resynced" /\ answered)

(* The timer: fetchDelta.                                                  *)
Poll(x) ==
  /\ timer /\ x \in Polls /\ fetch[x].pc = "none"
  /\ timer' = FALSE
  /\ Put(x, [Free EXCEPT !.pc = "sent", !.epoch = page.epoch, !.since = page.seq])
  /\ UNCHANGED <<server, page, acts, gap, broken>>

(* visibilitychange: the timer is set anew, whatever is under way.         *)
Toggle ==
  /\ acts < MaxActs /\ acts' = acts + 1
  /\ timer' = TRUE /\ broken' = FALSE
  /\ UNCHANGED <<server, page, gap, fetch>>

(* An edit made on this page has been answered: fetchSnapshot.             *)
OwnEdit(x) ==
  /\ x \in OwnFetches /\ fetch[x].pc = "none"
  /\ acts < MaxActs /\ acts' = acts + 1
  /\ Put(x, [Free EXCEPT !.pc = "sent", !.kind = "edit"])
  /\ UNCHANGED <<server, page, timer, gap, broken>>

(* applyBoard.  epoch and seq are taken from whatever answer arrives; the  *)
(* rows are cleared by a full answer only.                                 *)
applyBoard_Ahead(f) ==   \* mutant: the page's number only grows
  page' = [epoch |-> f.epoch, seq |-> IF f.seq > page.seq THEN f.seq ELSE page.seq, inc |-> f.inc,
           m |-> [m \in Members |-> IF f.rows[m] # Nil THEN f.rows[m]
                                    ELSE IF Full(f) THEN Nil ELSE page.m[m]]]
applyBoard(f) ==
  page' = [epoch |-> f.epoch, seq |-> f.seq, inc |-> f.inc,
           m |-> [m \in Members |-> IF f.rows[m] # Nil THEN f.rows[m]
                                    ELSE IF Full(f) THEN Nil ELSE page.m[m]]]
Arrive(x) ==
  LET f == fetch[x] IN
  /\ f.pc = "answer"
  /\ applyBoard(f)
  /\ timer' = (timer \/ Reschedules(x, TRUE))
  /\ gap' = IF Full(f) THEN FALSE ELSE gap \/ page.epoch # f.epoch \/ page.seq < f.since
  /\ Put(x, Free)
  /\ UNCHANGED <<server, acts, broken>>

(* A request or its answer is lost, or the answer is an error.  A GET      *)
(* changes nothing at the server, so it is the answer that is lost here.   *)
Lost(x) ==
  /\ fetch[x].pc = "answer"
  /\ timer' = (timer \/ Reschedules(x, FALSE))
  /\ broken' = (broken \/ fetch[x].kind = "resynced")
  /\ Put(x, Free)
  /\ UNCHANGED <<server, page, acts, gap>>

(* The process is started again: a new epoch, numbers from zero, and the   *)
(* active incident loaded before the first request is served.  Requests    *)
(* that were being served are lost.                                        *)
BeingServed == {x \in Fetches : fetch[x].pc \in {"incident", "rows"}}
Restart ==
  /\ epoch < MaxEpoch /\ epoch' = epoch + 1
  /\ reload' = FALSE /\ tracked' = inc
  /\ IF inc = Nil
     THEN live' = NoRows /\ seq' = 0
     ELSE /\ seq' = 1
          /\ \E table \in Tables :
               live' = [m \in Members |-> [table[m] EXCEPT !.seqAt = 1]]
  /\ fetch' = [x \in Fetches |-> IF x \in BeingServed THEN Free ELSE fetch[x]]
  /\ timer' = (timer \/ \E x \in BeingServed : Reschedules(x, FALSE))
  /\ broken' = (broken \/ \E x \in BeingServed : fetch[x].kind = "resynced")
  /\ UNCHANGED <<inc, lastInc, page, acts, gap>>

MemberStep == \E m \in Members :
  ProcessFix(m) \/ MarkLoggedIn(m) \/ Ack(m) \/ ConsentDenied(m)
Administrator == Edit /\ UNCHANGED <<client, fetch, broken>>
Serve(x) == Resync(x) \/ ReadSeq(x) \/ ReadIncident(x) \/ ReadRows(x)

Next ==
  \/ MemberStep \/ Administrator \/ Reload \/ Restart \/ Toggle
  \/ \E x \in Fetches : Serve(x) \/ Arrive(x) \/ Poll(x) \/ OwnEdit(x) \/ Lost(x)

Spec == Init /\ [][Next]_vars

(* The browser runs a timer that is set, requests are served, and a page   *)
(* that asks again and again is answered some time.  Nobody has to report, *)
(* to edit, or to look at the page; and a reload need not come, because it *)
(* may fail or its handler return before it (admin_incident.go:514-517).   *)
FairSpec ==
  /\ Spec
  /\ \A x \in Polls : WF_vars(Poll(x)) /\ WF_vars(Serve(x)) /\ SF_vars(Arrive(x))

(***************************************************************************)
(* Properties                                                              *)
(***************************************************************************)
(* What a record says and the row on the page does not.  A refusal, an     *)
(* acknowledgement and a move of less than ten metres are not announced.   *)
Misses(m) ==
  \/ page.m[m] = Nil
  \/ page.m[m].state # live[m].state /\ live[m].state # "LOC_DENIED"
  \/ page.m[m].pos = Nil /\ live[m].pos # Nil
  \/ ~page.m[m].pending /\ live[m].pending

(* A page that has reached a number misses nothing announced up to that    *)
(* number, whatever changed between the three readings of a handler and in *)
(* whatever order two answers arrived -- unless a delta was put on a page  *)
(* that an older answer had set back behind its base.                      *)
BoardIsCurrent ==
  page.epoch = epoch /\ ~gap /\ ~reload =>
    \A m \in Members :
      live[m] # Nil /\ live[m].seqAt <= page.seq => ~Misses(m)

(* When changes stop, the page comes to show them: the incident that is    *)
(* active, or that none is, and every member of it, across lost answers    *)
(* and restarts -- unless the snapshot after a resync was lost, which ends *)
(* the polling loop (a.js:368-371), or the tracker was never told of what  *)
(* an administrator changed.                                               *)
Behind(m) == page.inc # inc \/ (live[m] # Nil /\ Misses(m))
ChangesArrive ==
  \A m \in Members : Behind(m) ~> (~Behind(m) \/ gap \/ broken \/ reload)

(* Something is always left that will poll again.                          *)
PollingGoesOn ==
  timer \/ \E x \in Fetches : fetch[x].pc # "none" /\ fetch[x].kind # "edit"
================================================================================
