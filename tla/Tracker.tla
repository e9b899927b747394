-------------------------------- MODULE Tracker --------------------------------
(***************************************************************************)
(* internal/tracker/tracker.go: the live records in memory, the rows of    *)
(* `assignment' they mirror, and everything that runs between the two at   *)
(* the same time: the members' requests, the administrators' changes with  *)
(* the reload (LoadActive) that follows each, the two-second batch writer  *)
(* of cmd/server/main.go, and a crash of the process.                      *)
(*                                                                         *)
(* A step holds t.mu, or is one SQL statement or transaction.  A request   *)
(* keeps a pointer to its live record across its steps, and a reload       *)
(* replaces all records: heap[g] is the table the g-th reload built.       *)
(* Whether a report changes the phase is module Judge's business: here any *)
(* change it can make may happen.                                          *)
(***************************************************************************)
EXTENDS Integers, FiniteSets

CONSTANTS
  Members,     \* the members on call
  Workers,     \* goroutines serving requests
  Areas,       \* areas a member may be assigned to
  Nil,         \* no row, no incident, no position
  Origin,      \* the position 0, 0
  Incidents,   \* bound: ids 1 .. k of the incidents opened
  MaxSent,     \* bound: reports a member sends
  MaxVer,      \* bound: mission versions of a row
  MaxLoads,    \* bound: reloads, restarts included
  Settings     \* which of all this one behaviour has, see Setting

Waiting  == {"NOTIFIED", "LOGGED_IN", "LOC_DENIED"}
Judged   == {"ARRIVED", "LEFT"}
States   == Waiting \cup {"MOVING"} \cup Judged
AllKinds == {"fix", "me", "deny", "ack", "reassign", "close"}

(* A position is named by the incident and the number of its report.       *)
Reports   == Incidents \X (1 .. MaxSent)
Positions == Reports \cup {Nil, Origin}

(* The columns of `assignment' that matter here.  judged is history: the   *)
(* area in which an arrival on record was judged.                          *)
Row  == [state : States, pos : Positions, ack : 1 .. MaxVer, ver : 1 .. MaxVer,
         area : Areas, judged : Areas \cup {Nil}]
Live == [state : States, pos : Positions, ack : 1 .. MaxVer, ver : 1 .. MaxVer,
         area : Areas, dirty : BOOLEAN]
Tables == [Members -> Live \cup {Nil}]
Rows   == [Members -> Row \cup {Nil}]

(* The requests that come in a behaviour, whether statements fail and the  *)
(* process crashes in it, and its bounds.                                  *)
Setting == [kinds : SUBSET AllKinds, fail : BOOLEAN, incidents : SUBSET Incidents,
            sent : 0 .. MaxSent, loads : 0 .. MaxLoads]

ASSUME TrackerAssumption ==
  /\ Nil \notin Members \cup Areas \cup Incidents \cup Reports \cup Row \cup Live \cup Rows
  /\ Nil # Origin /\ Origin \notin Reports
  /\ Incidents \subseteq Nat
  /\ MaxSent \in Nat /\ MaxVer \in Nat \ {0} /\ MaxLoads \in Nat
  /\ Settings \subseteq Setting

VARIABLES
  status,     \* incident.status
  row,        \* assignment: [Incidents -> [Members -> Row or Nil]]
  heap,       \* the tables of live records, by reload
  cur,        \* t.live is heap[cur]
  tracked,    \* t.incidentID, Nil for 0
  work,       \* the request each worker is serving
  flush,      \* what the batch writer has taken and not yet written
  sent,       \* reports each member has sent
  setting,    \* one of Settings, the same throughout
  raced,      \* history: members whose row or record met an outdated write
  contacted,  \* history: <<i, m>>: a /f/me or /f/fix of m in incident i was
              \* answered by a tracker that held m's record of i, and no
              \* refusal of m in i went astray since (DenyWrite)
  unheard     \* history: <<i, m>>: a /f/me of m in incident i was answered
              \* and the tracker had no record of m, or another incident's

vars == <<status, row, heap, cur, tracked, work, flush, sent, setting, raced,
          contacted, unheard>>

PCs == {"idle", "login", "login_write", "sync_copy", "sync_write", "sync_clear",
        "deny_write", "ack_write", "load_active", "load_rows", "load_swap"}
Request ==
  [pc   : PCs,
   m    : Members \cup {Nil},
   gen  : 0 .. MaxLoads,           \* the table its record is in
   inc  : Incidents \cup {Nil},    \* the incident it was told of
   snap : Live \cup {Nil},         \* its copy of the record
   rows : Rows \cup {Nil},         \* a reload's reading
   mv   : 0 .. MaxVer]
Idle == [pc |-> "idle", m |-> Nil, gen |-> 0, inc |-> Nil, snap |-> Nil,
         rows |-> Nil, mv |-> 0]

NoTable == [m \in Members |-> Nil]
NoFlush == [inc |-> Nil, pos |-> NoTable]

Rec(m)   == heap[cur][m]
Active(i) == status[i] = "active"
ActiveInc == IF \E i \in Incidents : Active(i)
             THEN CHOOSE i \in Incidents : Active(i) ELSE Nil

(* NewLive, for each row of a reading.                                     *)
TableOf_NoPhase(rows) ==   \* mutant: the phase on record is not taken over
  [m \in Members |->
     IF rows[m] = Nil THEN Nil
     ELSE [state |-> "LOGGED_IN", pos |-> rows[m].pos, ack |-> rows[m].ack,
           ver |-> rows[m].ver, area |-> rows[m].area, dirty |-> FALSE]]
TableOf(rows) ==
  [m \in Members |->
     IF rows[m] = Nil THEN Nil
     ELSE [state |-> rows[m].state, pos |-> rows[m].pos, ack |-> rows[m].ack,
           ver |-> rows[m].ver, area |-> rows[m].area, dirty |-> FALSE]]

Starts(w, kind) == work[w].pc = "idle" /\ kind \in setting.kinds
Goto(w, r) == work' = [work EXCEPT ![w] = r]
SetRec(m, l) == heap' = [heap EXCEPT ![cur][m] = l]
(* The request for m that has just left the lock with a copy of its record.*)
Holding(pc, m, snap) ==
  [Idle EXCEPT !.pc = pc, !.m = m, !.gen = cur, !.inc = tracked, !.snap = snap]

(* A copy of the record that is not what the record and the row are about  *)
(* when it is written to incident i.                                       *)
Outdated(w, i) ==
  LET m == work[w].m
      s == work[w].snap
  IN  \/ work[w].gen # cur
      \/ ~Active(i)
      \/ Rec(m).state # s.state
      \/ row[i][m].area # s.area
      \/ row[i][m].ver # s.ver

PutState(r, s) ==
  [r EXCEPT !.state = s.state, !.judged = IF s.state \in Judged THEN s.area ELSE Nil]

RacedBy(w, i) == IF Outdated(w, i) THEN raced \cup {work[w].m} ELSE raced

(***************************************************************************)
(* POST /f/fix                                                             *)
(***************************************************************************)
(* The phases ApplyFix can leave behind, the first of them with no         *)
(* transition.                                                             *)
Outcomes_Event(s) ==   \* mutant: the event's name for the phase
  {s} \cup CASE s \in Waiting   -> {"MOVING"}
             [] s = "MOVING"    -> {"arrived"}
             [] OTHER           -> {}
Outcomes(s) ==
  {s} \cup CASE s \in Waiting   -> {"MOVING"}
             [] s = "MOVING"    -> {"ARRIVED"}
             [] s = "ARRIVED"   -> {"LEFT"}
             [] s = "LEFT"      -> {"ARRIVED"}

NeedSync_Transition(m, known, s) == s # known   \* mutant: not for a first contact
NeedSync(m, known, s) == s # known \/ Rec(m).state = "NOTIFIED"

(* ProcessFix, under the lock.  A transition, or the first contact, is     *)
(* written before the answer.                                              *)
ProcessFix(w, m) ==
  LET known == IF Rec(m).state = "NOTIFIED" THEN "LOGGED_IN" ELSE Rec(m).state IN
  /\ Starts(w, "fix")
  /\ Rec(m) # Nil
  /\ sent[m] < setting.sent
  /\ \E s \in Outcomes(known) :
       /\ SetRec(m, [Rec(m) EXCEPT !.state = s, !.pos = <<tracked, sent[m] + 1>>,
                                   !.dirty = TRUE])
       /\ IF NeedSync(m, known, s)
          THEN /\ Goto(w, Holding("sync_copy", m, Nil))
               /\ UNCHANGED contacted
          ELSE /\ contacted' = contacted \cup {<<tracked, m>>}
               /\ UNCHANGED work
  /\ sent' = [sent EXCEPT ![m] = @ + 1]
  /\ UNCHANGED <<setting, status, row, cur, tracked, flush, raced, unheard>>

(* syncFlush: the copy, the UPDATE, and the end of the batch writer's      *)
(* interest in the record.                                                 *)
SyncCopy(w) ==
  /\ work[w].pc = "sync_copy"
  /\ Goto(w, [work[w] EXCEPT !.pc = "sync_write", !.snap = heap[work[w].gen][work[w].m]])
  /\ UNCHANGED <<setting, status, row, heap, cur, tracked, flush, sent, raced,
                 contacted, unheard>>

SyncWrite(w) ==
  LET i == work[w].inc
      m == work[w].m
      s == work[w].snap
  IN  /\ work[w].pc = "sync_write"
      /\ row' = [row EXCEPT ![i][m] = [PutState(@, s) EXCEPT !.pos = s.pos]]
      /\ Goto(w, [work[w] EXCEPT !.pc = "sync_clear"])
      /\ raced' = RacedBy(w, i)
      /\ UNCHANGED <<setting, status, heap, cur, tracked, flush, sent,
                     contacted, unheard>>

SyncClear(w) ==
  LET g == work[w].gen
      m == work[w].m
  IN  /\ work[w].pc = "sync_clear"
      /\ heap' = [heap EXCEPT ![g][m].dirty = FALSE]
      /\ Goto(w, Idle)
      /\ contacted' = contacted \cup {<<work[w].inc, m>>}
      /\ UNCHANGED <<setting, status, row, cur, tracked, flush, sent, raced, unheard>>

(***************************************************************************)
(* GET /f/me, POST /f/consent, POST /f/ack (GET /f/sync only reads)        *)
(***************************************************************************)
(* handleMemberMe: the active incident and the member's assignment in it   *)
(* are read from the database, then GetLive looks at memory.  Whatever it  *)
(* finds there, the answer is 200 with the task: also while the tracker    *)
(* has no record of the member yet, or still the last incident's ...       *)
Me(w, m) ==
  LET i == ActiveInc IN
  /\ Starts(w, "me")
  /\ i # Nil /\ row[i][m] # Nil
  /\ IF Rec(m) # Nil /\ Rec(m).state = "NOTIFIED"
     THEN /\ Goto(w, [Idle EXCEPT !.pc = "login", !.m = m, !.inc = i])
          /\ UNCHANGED <<contacted, unheard>>
     ELSE /\ IF Rec(m) # Nil /\ tracked = i
             THEN contacted' = contacted \cup {<<i, m>>} /\ UNCHANGED unheard
             ELSE unheard' = unheard \cup {<<i, m>>} /\ UNCHANGED contacted
          /\ UNCHANGED work
  /\ UNCHANGED <<setting, status, row, heap, cur, tracked, flush, sent, raced>>

(* ... and MarkLoggedIn, which locks again; the record may have gone, or   *)
(* the incident be another by now.                                         *)
MarkLoggedIn(w) ==
  LET m == work[w].m
      l == IF Rec(m).state = "NOTIFIED"
           THEN [Rec(m) EXCEPT !.state = "LOGGED_IN", !.dirty = TRUE] ELSE Rec(m)
  IN  /\ work[w].pc = "login"
      /\ IF Rec(m) = Nil
         THEN Goto(w, Idle) /\ UNCHANGED heap
         ELSE Goto(w, Holding("login_write", m, l)) /\ SetRec(m, l)
      /\ unheard' = IF Rec(m) = Nil \/ tracked # work[w].inc
                    THEN unheard \cup {<<work[w].inc, m>>} ELSE unheard
      /\ UNCHANGED <<setting, status, row, cur, tracked, flush, sent, raced,
                     contacted>>

LoginWrite(w) ==
  LET i == work[w].inc
      m == work[w].m
  IN  /\ work[w].pc = "login_write"
      /\ row' = [row EXCEPT ![i][m] = PutState(@, work[w].snap)]
      /\ Goto(w, Idle)
      /\ raced' = RacedBy(w, i)
      /\ contacted' = contacted \cup {<<i, m>>}
      /\ UNCHANGED <<setting, status, heap, cur, tracked, flush, sent, unheard>>

(* ConsentDenied.  The incident is read again, without the lock, when the  *)
(* row is written.                                                         *)
ConsentDenied(w, m) ==
  LET l == IF Rec(m).state \in {"NOTIFIED", "LOGGED_IN"}
           THEN [Rec(m) EXCEPT !.state = "LOC_DENIED", !.dirty = TRUE] ELSE Rec(m)
  IN  /\ Starts(w, "deny")
      /\ Rec(m) # Nil
      /\ SetRec(m, l)
      /\ Goto(w, Holding("deny_write", m, l))
      /\ UNCHANGED <<setting, status, row, cur, tracked, flush, sent, raced,
                     contacted, unheard>>

HasRow(m) == tracked # Nil /\ row[tracked][m] # Nil

DenyWrite(w) ==
  LET m == work[w].m IN
  /\ work[w].pc = "deny_write"
  /\ IF HasRow(m)
     THEN /\ row' = [row EXCEPT ![tracked][m] = PutState(@, work[w].snap)]
          /\ raced' = RacedBy(w, tracked)
     ELSE UNCHANGED <<row, raced>>
  /\ Goto(w, Idle)
  /\ contacted' = IF tracked = work[w].inc THEN contacted
                  ELSE contacted \ {<<work[w].inc, m>>}
  /\ UNCHANGED <<setting, status, heap, cur, tracked, flush, sent, unheard>>

(* The phone acknowledges a version it was shown.                          *)
Ack(w, m, v) ==
  /\ Starts(w, "ack")
  /\ Rec(m) # Nil
  /\ ActiveInc # Nil /\ row[ActiveInc][m] # Nil /\ v <= row[ActiveInc][m].ver
  /\ SetRec(m, [Rec(m) EXCEPT !.ack = IF v > @ THEN v ELSE @, !.dirty = TRUE])
  /\ Goto(w, [Idle EXCEPT !.pc = "ack_write", !.m = m, !.mv = v])
  /\ UNCHANGED <<setting, status, row, cur, tracked, flush, sent, raced,
                 contacted, unheard>>

AckWrite(w) ==
  LET m == work[w].m IN
  /\ work[w].pc = "ack_write"
  /\ row' = IF HasRow(m) THEN [row EXCEPT ![tracked][m].ack = work[w].mv] ELSE row
  /\ Goto(w, Idle)
  /\ UNCHANGED <<setting, status, heap, cur, tracked, flush, sent, raced,
                 contacted, unheard>>

(***************************************************************************)
(* The administrators, as far as the rows show it (module IncidentStore),  *)
(* and the reload that ends each of their requests                         *)
(***************************************************************************)
Reload_Not(w) == Goto(w, Idle)   \* mutant: LoadActive is not called
Reload(w) == Goto(w, [Idle EXCEPT !.pc = "load_active"])

Open(w, a) ==
  /\ work[w].pc = "idle"
  /\ ActiveInc = Nil
  /\ \E i \in setting.incidents :
       /\ status[i] = "none"
       /\ \A j \in Incidents : j < i => status[j] # "none"
       /\ status' = [status EXCEPT ![i] = "active"]
       /\ row' = [row EXCEPT ![i] = [m \in Members |->
            [state |-> "NOTIFIED", pos |-> Nil, ack |-> 1, ver |-> 1, area |-> a,
             judged |-> Nil]]]
  /\ Reload(w)
  /\ UNCHANGED <<setting, heap, cur, tracked, flush, sent, raced, contacted, unheard>>

AfterMove_Same(s) == s   \* mutant: the arrival is kept
AfterMove(s) == IF s \in Judged THEN "MOVING" ELSE s

(* New work for a member: a new version, and in a new area an arrival is   *)
(* void.                                                                   *)
Reassign(w, m, a) ==
  /\ Starts(w, "reassign")
  /\ \E i \in Incidents :
       LET r == row[i][m] IN
       /\ Active(i)
       /\ r.ver < MaxVer
       /\ row' = [row EXCEPT ![i][m] =
            IF a = r.area THEN [r EXCEPT !.ver = @ + 1]
            ELSE [r EXCEPT !.area = a, !.ver = @ + 1, !.judged = Nil,
                           !.state = AfterMove(@)]]
  /\ Reload(w)
  /\ UNCHANGED <<setting, status, heap, cur, tracked, flush, sent, raced,
                 contacted, unheard>>

Close(w) ==
  /\ Starts(w, "close")
  /\ \E i \in Incidents : Active(i) /\ status' = [status EXCEPT ![i] = "closed"]
  /\ Reload(w)
  /\ UNCHANGED <<setting, row, heap, cur, tracked, flush, sent, raced,
                 contacted, unheard>>

(* LoadActive: the active incident, its rows, and the swap.                *)
LoadActive(w) ==
  /\ work[w].pc = "load_active"
  /\ Goto(w, IF ActiveInc = Nil THEN [work[w] EXCEPT !.pc = "load_swap"]
             ELSE [work[w] EXCEPT !.pc = "load_rows", !.inc = ActiveInc])
  /\ UNCHANGED <<setting, status, row, heap, cur, tracked, flush, sent, raced,
                 contacted, unheard>>

LoadRows(w) ==
  /\ work[w].pc = "load_rows"
  /\ Goto(w, [work[w] EXCEPT !.pc = "load_swap", !.rows = row[work[w].inc]])
  /\ UNCHANGED <<setting, status, row, heap, cur, tracked, flush, sent, raced,
                 contacted, unheard>>

(* The tables no request holds any more are gone.                          *)
Swap(table, held) ==
  /\ cur < setting.loads
  /\ cur' = cur + 1
  /\ heap' = [g \in 0 .. MaxLoads |->
                IF g = cur + 1 THEN table
                ELSE IF g \in held THEN heap[g] ELSE NoTable]

(* A row that still shows an arrival judged for another area.              *)
Misjudged(i) ==
  {m \in Members : row[i][m] # Nil /\ row[i][m].state \in Judged
                   /\ row[i][m].judged # row[i][m].area}

LoadSwap(w) ==
  LET i    == work[w].inc
      rows == work[w].rows
      held == {work[v].gen : v \in {u \in Workers : work[u].pc # "idle"}}
  IN  /\ work[w].pc = "load_swap"
      /\ Swap(IF i = Nil THEN NoTable ELSE TableOf(rows), held)
      /\ tracked' = i
      /\ raced' = IF i # ActiveInc THEN Members
                  ELSE IF i = Nil THEN {}
                  ELSE Misjudged(i) \cup {m \in Members : rows[m] # row[i][m]}
      /\ Goto(w, Idle)
      /\ UNCHANGED <<setting, status, row, flush, sent, contacted, unheard>>

(***************************************************************************)
(* FlushDirty, every two seconds                                           *)
(***************************************************************************)
Dirty == {m \in Members : Rec(m) # Nil /\ Rec(m).dirty}
Taken == {m \in Members : flush.pos[m] # Nil}

(* A record without a position is written with the zeros it holds.         *)
FlushTake ==
  /\ flush = NoFlush
  /\ Dirty # {}
  /\ flush' = [inc |-> tracked,
               pos |-> [m \in Members |->
                          IF m \notin Dirty THEN Nil
                          ELSE IF Rec(m).pos = Nil THEN Origin ELSE Rec(m).pos]]
  /\ heap' = [heap EXCEPT ![cur] = [m \in Members |->
                IF m \in Dirty THEN [Rec(m) EXCEPT !.dirty = FALSE] ELSE Rec(m)]]
  /\ UNCHANGED <<setting, status, row, cur, tracked, work, sent, raced,
                 contacted, unheard>>

FlushTarget_Now ==   \* mutant: t.incidentID is read again, after the lock
  IF tracked = Nil THEN flush.inc ELSE tracked
FlushTarget == flush.inc

FlushCommit ==
  LET i == FlushTarget IN
  /\ flush # NoFlush
  /\ row' = [row EXCEPT ![i] = [m \in Members |->
       IF m \in Taken THEN [row[i][m] EXCEPT !.pos = flush.pos[m]] ELSE row[i][m]]]
  /\ flush' = NoFlush
  /\ UNCHANGED <<setting, status, heap, cur, tracked, work, sent, raced,
                 contacted, unheard>>

(***************************************************************************)
(* Failures                                                                *)
(***************************************************************************)
FlushFail ==
  /\ setting.fail
  /\ flush # NoFlush
  /\ flush' = NoFlush
  /\ UNCHANGED <<setting, status, row, heap, cur, tracked, work, sent, raced,
                 contacted, unheard>>

(* A statement fails, or the client is gone and its context with it.       *)
Fail(w) ==
  LET writing == {"sync_write", "login_write", "deny_write"}
      loading == {"load_active", "load_rows", "load_swap"}
      pc      == work[w].pc
  IN  /\ setting.fail
      /\ pc \in writing \cup loading \cup {"sync_clear", "ack_write"}
      /\ pc = "load_swap" => work[w].inc # Nil
      /\ raced' = IF pc \in loading THEN Members
                  ELSE IF pc \in writing THEN raced \cup {work[w].m}
                  ELSE raced
      /\ Goto(w, Idle)
      /\ UNCHANGED <<setting, status, row, heap, cur, tracked, flush, sent,
                     contacted, unheard>>

(* The process dies; its successor loads the active incident before it     *)
(* serves anyone.                                                          *)
Restart ==
  /\ setting.fail
  /\ Swap(IF ActiveInc = Nil THEN NoTable ELSE TableOf(row[ActiveInc]), {})
  /\ tracked' = ActiveInc
  /\ work' = [w \in Workers |-> Idle]
  /\ flush' = NoFlush
  /\ raced' = IF ActiveInc = Nil THEN {} ELSE Misjudged(ActiveInc)
  /\ UNCHANGED <<setting, status, row, sent, contacted, unheard>>

Init ==
  /\ status = [i \in Incidents |-> "none"]
  /\ row = [i \in Incidents |-> NoTable]
  /\ heap = [g \in 0 .. MaxLoads |-> NoTable]
  /\ cur = 0
  /\ tracked = Nil
  /\ work = [w \in Workers |-> Idle]
  /\ flush = NoFlush
  /\ sent = [m \in Members |-> 0]
  /\ setting \in Settings
  /\ raced = {}
  /\ contacted = {}
  /\ unheard = {}

MemberStep(w) ==
  \/ \E m \in Members : ProcessFix(w, m)
  \/ SyncCopy(w)
  \/ SyncWrite(w)
  \/ SyncClear(w)
  \/ \E m \in Members : Me(w, m)
  \/ MarkLoggedIn(w)
  \/ LoginWrite(w)
  \/ \E m \in Members : ConsentDenied(w, m)
  \/ DenyWrite(w)
  \/ \E m \in Members, v \in 1 .. MaxVer : Ack(w, m, v)
  \/ AckWrite(w)

AdminStep(w) ==
  \/ \E a \in Areas : Open(w, a)
  \/ \E m \in Members, a \in Areas : Reassign(w, m, a)
  \/ Close(w)
  \/ LoadActive(w)
  \/ LoadRows(w)
  \/ LoadSwap(w)

Next ==
  \/ \E w \in Workers : MemberStep(w) \/ AdminStep(w) \/ Fail(w)
  \/ FlushTake
  \/ FlushCommit
  \/ FlushFail
  \/ Restart

Spec == Init /\ [][Next]_vars

(***************************************************************************)
(* Properties                                                              *)
(***************************************************************************)
(* Every variable keeps its type: what the rows, the live records and the  *)
(* requests may hold.                                                      *)
TypeOK ==
  /\ status \in [Incidents -> {"none", "active", "closed"}]
  /\ row \in [Incidents -> Rows]
  /\ heap \in [0 .. MaxLoads -> Tables]
  /\ cur \in 0 .. MaxLoads
  /\ tracked \in Incidents \cup {Nil}
  /\ work \in [Workers -> Request]
  /\ flush \in [inc : Incidents \cup {Nil}, pos : [Members -> Positions]]
  /\ sent \in [Members -> 0 .. MaxSent]
  /\ setting \in Settings
  /\ raced \subseteq Members
  /\ contacted \subseteq Incidents \X Members
  /\ unheard \subseteq Incidents \X Members

Quiet == \A w \in Workers : work[w].pc = "idle"
Reloading == \E w \in Workers : work[w].pc \in {"load_active", "load_rows", "load_swap"}
Writing(m) ==
  \E w \in Workers :
    work[w].m = m /\ work[w].pc \in {"sync_copy", "sync_write", "login_write", "deny_write"}

Agree(m) ==
  LET i == tracked IN
  IF i = Nil \/ row[i][m] = Nil THEN Rec(m) = Nil
  ELSE /\ Rec(m) # Nil
       /\ Rec(m).state = row[i][m].state
       /\ Rec(m).area = row[i][m].area
       /\ Rec(m).ver = row[i][m].ver

(* Memory follows the rows through transitions, first contacts, refusals,  *)
(* reassignments, openings and closings: once a reload is over and no      *)
(* write for a member is under way, the tracker holds the active incident  *)
(* and the member's phase, area and version, unless an outdated write or   *)
(* reading (Outdated, LoadSwap) has come between since the last reload.    *)
MemoryMatchesRows ==
  \A m \in Members \ raced :
    ~Reloading /\ ~Writing(m) => tracked = ActiveInc /\ Agree(m)

(* A position reported during one incident is never written to the row of  *)
(* another, however late syncFlush or the batch writer gets to it.         *)
PositionsStayHome ==
  \A i \in Incidents, m \in Members :
    row[i][m] # Nil /\ row[i][m].pos \in Reports => row[i][m].pos[1] = i

(* The row of the active incident shows an arrival only for the area the   *)
(* member is assigned to, again unless an outdated write came between.     *)
ArrivedHere ==
  \A m \in Members \ raced, i \in Incidents :
    Active(i) /\ row[i][m].state \in Judged => row[i][m].judged = row[i][m].area

(* A member whose GET /f/me or POST /f/fix was answered by a tracker that  *)
(* held his record of the incident does not stay NOTIFIED on record: the   *)
(* row has left that phase, or the write that makes it leave is under way. *)
(* GET /f/me is also answered without a record, before the reload that     *)
(* follows the opening: that member stays NOTIFIED until he calls again    *)
(* (`unheard', and AnswerLogsIn below).                                    *)
(* Not when the process crashes: a second report is answered while the     *)
(* first one's transition is yet to be written, and after the crash nobody *)
(* writes it.  Nor when a late reload swaps the incident under a refusal,  *)
(* which is then written to another incident or to none: a report answered *)
(* in between rested on that refusal alone.                                *)
ContactLogsIn ==
  \A i \in Incidents, m \in Members :
    Active(i) /\ <<i, m>> \in contacted /\ ~Writing(m) /\ ~setting.fail
    => row[i][m].state # "NOTIFIED"

(***************************************************************************)
(* What the documents say without exception                                *)
(***************************************************************************)
(* docs/SPEC.md 5.1 and tracker.go:177-179: the first authenticated        *)
(* request of an incident makes the member LOGGED_IN.  The document means  *)
(* GET /f/sync as well, which in the code changes nothing.                 *)
AnswerLogsIn ==
  \A i \in Incidents, m \in Members :
    Active(i) /\ <<i, m>> \in contacted \cup unheard /\ ~Writing(m) /\ ~setting.fail
    => row[i][m].state # "NOTIFIED"

(* tracker.go:59-62: with LoadActive at startup and after every change by  *)
(* an administrator `the in-memory state and the DB never drift': whenever *)
(* no request is being served they agree.                                  *)
NeverDrifts == Quiet => tracked = ActiveInc /\ \A m \in Members : Agree(m)
=============================================================================
