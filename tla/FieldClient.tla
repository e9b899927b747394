------------------------------- MODULE FieldClient -----------------------------
(***************************************************************************)
(* web/f/f.js and web/shared/geo.js: one member's phone, and as much of    *)
(* the server as answers it (httpapi/member_api.go, Tracker.Sync).         *)
(*                                                                         *)
(* Everything the page waits for is a record of its own: a load of /f/me,  *)
(* the consent, the acknowledgement, the heartbeat of each location loop   *)
(* and the positions in flight.  The server processes a call when it is    *)
(* made; its answer is under way for any time, is overtaken by others, or  *)
(* lost, as the call itself may be.  Distances and intervals are left out: *)
(* a timer that is set may go off, and the phone may move whenever its     *)
(* watch is on.                                                            *)
(***************************************************************************)
EXTENDS Integers, FiniteSets

CONSTANTS
  MaxInc,      \* bound: incidents opened
  MaxVer,      \* bound: versions of the mission, in each incident
  Loops,       \* bound: location loops alive at the same time
  Posts,       \* bound: positions in flight, slots
  MaxCalls,    \* bound: calls under way when the watch or the member makes another
  MaxFaults,   \* bound: calls lost; or one session or twelve hours run out, or one reload
  Nil

ASSUME FieldClientAssumption ==
  /\ MaxInc \in Nat /\ MaxVer \in Nat \ {0} /\ MaxCalls \in Nat /\ MaxFaults \in Nat
  /\ Nil \notin Nat \cup Loops \cup Posts

Incidents == 1 .. MaxInc

VARIABLES
  server,     \* what concerns this member at the server
  page,       \* `state', the visible view, the dialogs and the recheck timer
  agreed,     \* localStorage: incidents whose sheet was answered
  loop,       \* the LocationLoop objects
  post,       \* POST /f/fix in flight
  call,       \* the other calls in flight
  faults,     \* faults used up
  seen,       \* history: the latest version of the active incident on the page
  late,       \* history: a stopped loop's answer hit the page of another loop
  crossed     \* history: an acknowledgement was served after its incident

vars == <<server, page, agreed, loop, post, call, faults, seen, late, crossed>>

Server ==
  [inc    : Incidents \cup {0},  \* the active incident
   next   : Nat,                 \* the id of the incident opened next
   on     : BOOLEAN,             \* whether the member is assigned to it
   ver    : 1 .. MaxVer,         \* assignment.mission_ver, ack_ver
   ack    : 1 .. MaxVer,
   denied : BOOLEAN,             \* assignment.state = LOC_DENIED
   recent : BOOLEAN,             \* the last incident closed within 12 hours
   auth   : BOOLEAN]             \* the phone's session is valid
Sts == {"LIVE", "LOC_DENIED", "CLOSED", "IDLE", "NONE"}   \* LIVE: any other
Page ==
  [view    : {"login", "main", "idle"},
   closed  : BOOLEAN,               \* state.st = CLOSED
   ackVer  : 1 .. MaxVer,
   ackOf   : Incidents \cup {0},    \* history: the incident ackVer is of
   modal   : BOOLEAN,               \* ackModal
   sheet   : Incidents \cup {0},    \* consentSheet
   recheck : BOOLEAN,               \* recheckTimer
   loop    : Loops \cup {Nil}]
Answer ==
  [st : Sts \cup {"401", "fail"}, inc : Incidents \cup {0}, ver : 0 .. MaxVer, ack : 0 .. MaxVer]
Loop ==
  [on      : BOOLEAN,               \* not stopped
   idle    : BOOLEAN,               \* collectingOnly
   beat    : {"off", "set", "read", "sync"},   \* timer set; awaiting a reading, an answer
   sent    : BOOLEAN,               \* a position was sent since the last beat
   retry   : BOOLEAN,               \* retryTimer
   stray   : Nat,                   \* retry timers retryTimer no longer names
   ans     : Answer \cup {Nil},     \* under way to the heartbeat's sync
   doubled : BOOLEAN]               \* history: two positions at once were on
                                    \* their way or waiting to be sent again
Call == [pc : {"none", "boot", "recheck", "granted", "refused", "me", "ack"},
         mv : 0 .. MaxVer, ans : Answer \cup {Nil}]   \* the answer under way

Failed  == [st |-> "fail", inc |-> 0, ver |-> 0, ack |-> 0]
NoLoop  == [on |-> FALSE, idle |-> FALSE, beat |-> "off", sent |-> FALSE,
            retry |-> FALSE, stray |-> 0, ans |-> Nil, doubled |-> FALSE]
NoCall  == [pc |-> "none", mv |-> 0, ans |-> Nil]
NewPage == [view |-> "login", closed |-> FALSE, ackVer |-> 1, ackOf |-> 0,
            modal |-> FALSE, sheet |-> 0, recheck |-> FALSE, loop |-> Nil]
NoCalls == [k \in {"load", "consent", "ack"} |-> NoCall]

(***************************************************************************)
(* The server                                                              *)
(***************************************************************************)
Assigned(s) == s.inc # 0 /\ s.on

(* handleMemberMe, Sync and notAssignedResult.                             *)
Reply(s) ==
  CASE ~s.auth -> [Failed EXCEPT !.st = "401"]
    [] s.auth /\ Assigned(s) ->
         [st |-> IF s.denied THEN "LOC_DENIED" ELSE "LIVE",
          inc |-> s.inc, ver |-> s.ver, ack |-> s.ack]
    [] s.auth /\ s.inc # 0 /\ ~s.on -> [Failed EXCEPT !.st = "NONE"]
    [] s.auth /\ s.inc = 0 -> [Failed EXCEPT !.st = IF s.recent THEN "CLOSED" ELSE "IDLE"]

Init ==
  /\ \E auth \in BOOLEAN :
       server = [inc |-> 0, next |-> 1, on |-> FALSE, ver |-> 1, ack |-> 1,
                 denied |-> FALSE, recent |-> FALSE, auth |-> auth]
  /\ page = NewPage
  /\ agreed = {} /\ seen = 0
  /\ loop = [l \in Loops |-> NoLoop]
  /\ post = [p \in Posts |-> Nil]
  /\ call = [NoCalls EXCEPT !["load"] = [NoCall EXCEPT !.pc = "boot", !.ans = Reply(server)]]
  /\ faults = 0 /\ late = FALSE /\ crossed = FALSE

Answering(s) == s.auth /\ Assigned(s)
Moved(s)     == IF Answering(s) THEN [s EXCEPT !.denied = FALSE] ELSE s     \* ProcessFix
Denied(s)    == IF Answering(s) THEN [s EXCEPT !.denied = TRUE] ELSE s      \* ConsentDenied
Acked(s, mv) == IF Answering(s) THEN [s EXCEPT !.ack = mv] ELSE s           \* Ack

Office(s) ==
  /\ server' = s
  /\ UNCHANGED <<page, agreed, loop, post, call, faults, seen, late, crossed>>
OpenIncident(on) ==
  /\ server.inc = 0 /\ server.next \in Incidents
  /\ Office([server EXCEPT !.inc = server.next, !.next = @ + 1, !.on = on])
AddMember == server.inc # 0 /\ ~server.on /\ Office([server EXCEPT !.on = TRUE])
ChangeMission ==
  Assigned(server) /\ server.ver < MaxVer /\ Office([server EXCEPT !.ver = @ + 1])
(* Closing leaves nothing to answer from: the next incident has new rows.  *)
CloseIncident ==
  /\ server.inc # 0
  /\ server' = [server EXCEPT !.inc = 0, !.recent = @ \/ server.on, !.on = FALSE,
                              !.ver = 1, !.ack = 1, !.denied = FALSE]
  /\ seen' = 0
  /\ UNCHANGED <<page, agreed, loop, post, call, faults, late, crossed>>
EndSession  == server.auth /\ server' = [server EXCEPT !.auth = FALSE]
TwelveHours == server.recent /\ server' = [server EXCEPT !.recent = FALSE]
Lapse ==
  /\ EndSession \/ TwelveHours
  /\ faults = 0 /\ faults' = MaxFaults
  /\ UNCHANGED <<page, agreed, loop, post, call, seen, late, crossed>>

UnderWayNow ==
  Cardinality({k \in DOMAIN call : call[k].pc # "none"}) + Cardinality({p \in Posts : post[p] # Nil})
    + Cardinality({l \in Loops : loop[l].beat \in {"read", "sync"}})
Calm == UnderWayNow =< MaxCalls

(* Any call is answered, or lost on one of its two ways: what the server   *)
(* is afterwards, and what the phone is told.                              *)
Ways(effect) ==
  {<<effect, Reply(effect)>>} \cup (IF faults < MaxFaults THEN {server, effect} \X {Failed} ELSE {})
Take(way) ==
  /\ server' = way[1]
  /\ faults' = IF way[2] = Failed THEN faults + 1 ELSE faults

(***************************************************************************)
(* LocationLoop                                                            *)
(***************************************************************************)
Stop(lp) == [lp EXCEPT !.on = FALSE, !.idle = FALSE, !.sent = FALSE, !.retry = FALSE,
                       !.beat = IF @ = "set" THEN "off" ELSE @]
Rebeat(lp) == [lp EXCEPT !.beat = IF lp.on THEN "set" ELSE "off", !.sent = FALSE, !.ans = Nil]

(* _scheduleRetry: retryTimer is overwritten even if it is still set.      *)
Retry_Stopped(lp) ==   \* mutant: `stopped' is not looked at
  [lp EXCEPT !.retry = TRUE, !.stray = IF lp.retry THEN @ + 1 ELSE @]
Retry(lp) ==
  IF lp.on THEN [lp EXCEPT !.retry = TRUE, !.stray = IF lp.retry THEN @ + 1 ELSE @] ELSE lp

(* _applyResponse and the branches for 401, as far as the loop goes, ...   *)
LoopAfter_Idle(lp, a) ==   \* mutant: the end of the incident is one more wait
  IF a.st = "401" THEN Stop(lp)
  ELSE IF ~lp.on THEN lp ELSE [lp EXCEPT !.idle = a.st \in {"CLOSED", "IDLE", "NONE"}]
LoopAfter(lp, a) ==
  IF a.st \in {"CLOSED", "401"} THEN Stop(lp)
  ELSE IF ~lp.on THEN lp ELSE [lp EXCEPT !.idle = a.st \in {"IDLE", "NONE"}]

(* ... and as far as the page goes: onStop, onUnauthorized, applyPollResult*)
PageAfter_Deaf(a) ==   \* mutant: the version is taken over, and no dialog opened
  CASE a.st = "CLOSED" -> [page EXCEPT !.closed = TRUE, !.loop = Nil, !.recheck = TRUE]
    [] a.st = "401"    -> [page EXCEPT !.view = "login", !.loop = Nil]
    [] a.st \in Sts \ {"CLOSED"} -> [page EXCEPT !.closed = FALSE]
PageAfter(a) ==
  CASE a.st = "CLOSED" -> [page EXCEPT !.closed = TRUE, !.loop = Nil, !.recheck = TRUE]
    [] a.st = "401"    -> [page EXCEPT !.view = "login", !.loop = Nil]
    [] a.st \in Sts \ {"CLOSED"} ->
         [page EXCEPT !.closed = FALSE, !.modal = @ \/ a.ver > page.ackVer]
Misses(l, a) == a.st \in {"CLOSED", "401"} /\ page.loop \notin {l, Nil}

UnderWay(l) == {p \in Posts : post[p] # Nil /\ post[p].loop = l}

(* _send, from the watch, the heartbeat or a retry timer, and handleMemberFix. *)
Send(p, l, lp) ==
  /\ post[p] = Nil
  /\ loop' = [loop EXCEPT ![l] =
       [lp EXCEPT !.doubled = @ \/ UnderWay(l) # {} \/ lp.retry \/ lp.stray > 0]]
  /\ \E way \in Ways(Moved(server)) :
       /\ Take(way)
       /\ post' = [post EXCEPT ![p] = [loop |-> l, ans |-> way[2]]]
  /\ UNCHANGED <<page, agreed, call, seen, late, crossed>>

Watch(p, l) == Calm /\ loop[l].on /\ ~loop[l].idle /\ Send(p, l, [loop[l] EXCEPT !.sent = TRUE])
RetryFires(p, l) ==
  \/ loop[l].retry /\ Send(p, l, [loop[l] EXCEPT !.retry = FALSE, !.sent = TRUE])
  \/ loop[l].stray > 0 /\ Send(p, l, [loop[l] EXCEPT !.stray = @ - 1, !.sent = TRUE])

FixArrives(p) ==
  /\ post[p] # Nil
  /\ LET l == post[p].loop
         a == post[p].ans
     IN  IF a.st = "fail"
         THEN loop' = [loop EXCEPT ![l] = Retry(@)] /\ UNCHANGED <<page, late>>
         ELSE /\ loop' = [loop EXCEPT ![l] = LoopAfter(@, a)]
              /\ page' = PageAfter(a)
              /\ late' = (late \/ Misses(l, a))
  /\ post' = [post EXCEPT ![p] = Nil]
  /\ UNCHANGED <<server, agreed, call, faults, seen, crossed>>

AskState(l) ==
  /\ \E way \in Ways(server) :
       Take(way) /\ loop' = [loop EXCEPT ![l].beat = "sync", ![l].ans = way[2]]
  /\ UNCHANGED <<page, agreed, post, call, seen, late, crossed>>

(* _heartbeat: due unless a position was sent since the last one (a change *)
(* of the interval in between is left out); it then waits for a reading.   *)
Beat(l) ==
  /\ loop[l].beat = "set"
  /\ IF loop[l].idle THEN AskState(l)
     ELSE /\ loop' = [loop EXCEPT ![l] = IF @.sent THEN Rebeat(@) ELSE [@ EXCEPT !.beat = "read"]]
          /\ UNCHANGED <<server, page, agreed, post, call, faults, seen, late, crossed>>

(* The reading comes, and is sent unless _maybeSend finds the loop stopped *)
(* or idle by now; or it fails within its ten seconds, and the state is    *)
(* asked for whatever has become of the loop.                              *)
ReadingComes(p, l) ==
  /\ loop[l].beat = "read"
  /\ IF loop[l].on /\ ~loop[l].idle THEN Send(p, l, Rebeat(loop[l]))
     ELSE /\ loop' = [loop EXCEPT ![l] = Rebeat(@)]
          /\ UNCHANGED <<server, page, agreed, post, call, faults, seen, late, crossed>>
ReadingFails(l) == loop[l].beat = "read" /\ AskState(l)

SyncArrives(l) ==
  /\ loop[l].beat = "sync"
  /\ LET a == loop[l].ans
     IN  IF a.st = "fail"
         THEN loop' = [loop EXCEPT ![l] = Rebeat(@)] /\ UNCHANGED <<page, late>>
         ELSE /\ loop' = [loop EXCEPT ![l] = Rebeat(LoopAfter(@, a))]
              /\ page' = PageAfter(a)
              /\ late' = (late \/ Misses(l, a))
  /\ UNCHANGED <<server, agreed, post, call, faults, seen, crossed>>

(***************************************************************************)
(* The page                                                                *)
(***************************************************************************)
Waits(k) == call[k].pc # "none"
Done(k)  == call' = [call EXCEPT ![k] = NoCall]
Make(k, c, effect) ==
  \E way \in Ways(effect) : Take(way) /\ call' = [call EXCEPT ![k] = [c EXCEPT !.ans = way[2]]]

(* startLoopIfNeeded, in whichever object is free.                         *)
Fresh(l) == ~loop[l].on /\ loop[l].beat = "off" /\ loop[l].stray = 0 /\ UnderWay(l) = {}
Start_Always(pg) ==   \* mutant: a running loop is replaced
  LET l == CHOOSE l \in Loops : Fresh(l)
  IN  /\ \E x \in Loops : Fresh(x)
      /\ loop' = [loop EXCEPT ![l] = [NoLoop EXCEPT !.on = TRUE, !.beat = "set"]]
      /\ page' = [pg EXCEPT !.loop = l]
Start(pg) ==
  LET l == CHOOSE l \in Loops : Fresh(l)
  IN  IF pg.loop # Nil THEN page' = pg /\ UNCHANGED loop
      ELSE /\ \E x \in Loops : Fresh(x)
           /\ loop' = [loop EXCEPT ![l] = [NoLoop EXCEPT !.on = TRUE, !.beat = "set"]]
           /\ page' = [pg EXCEPT !.loop = l]

(* loadMe, with maybeShowConsentSheet.                                     *)
Idled_Silent(a) ==   \* mutant: it is not asked again
  [page EXCEPT !.closed = a.st = "CLOSED", !.view = "idle"]
Idled(a) == [page EXCEPT !.closed = a.st = "CLOSED", !.view = "idle", !.recheck = TRUE]
Shown(a) == [page EXCEPT !.closed = FALSE, !.view = "main", !.recheck = FALSE,
                         !.ackVer = a.ack, !.ackOf = a.inc]
Display(a) == seen' = IF a.inc = server.inc /\ a.ver > seen THEN a.ver ELSE seen
LoadMe(a) ==
  IF a.inc = 0
  THEN page' = Idled(a) /\ UNCHANGED <<loop, seen>>
  ELSE /\ Display(a)
       /\ CASE a.st = "LOC_DENIED" -> page' = Shown(a) /\ UNCHANGED loop
            [] a.st # "LOC_DENIED" /\ a.inc \in agreed -> Start(Shown(a))
            [] a.st # "LOC_DENIED" /\ a.inc \notin agreed ->
                 page' = [Shown(a) EXCEPT !.sheet = a.inc] /\ UNCHANGED loop

(* The recheck timer, or the page becoming visible.                        *)
Recheck ==
  /\ page.recheck /\ ~Waits("load")
  /\ page' = [page EXCEPT !.recheck = FALSE]
  /\ Make("load", [NoCall EXCEPT !.pc = "recheck"], server)
  /\ UNCHANGED <<agreed, loop, post, seen, late, crossed>>

LoadArrives ==
  /\ Waits("load")
  /\ LET a == call["load"].ans
         again == call["load"].pc = "recheck"
     IN  CASE a.st = "401" ->
                page' = [page EXCEPT !.view = "login"] /\ UNCHANGED <<loop, seen>>
           [] a.st = "fail" ->
                page' = (IF again THEN [page EXCEPT !.recheck = TRUE] ELSE page)
                /\ UNCHANGED <<loop, seen>>
           [] a.st \in Sts ->
                IF again /\ a.inc = 0 /\ page.closed /\ page.view = "main"
                THEN page' = [page EXCEPT !.recheck = TRUE] /\ UNCHANGED <<loop, seen>>
                ELSE LoadMe(a)
  /\ Done("load")
  /\ UNCHANGED <<server, agreed, post, faults, late, crossed>>

Login ==
  /\ Calm /\ page.view = "login" /\ ~Waits("load")
  /\ Make("load", [NoCall EXCEPT !.pc = "boot"], [server EXCEPT !.auth = TRUE])
  /\ UNCHANGED <<page, agreed, loop, post, seen, late, crossed>>

Reload ==
  /\ faults = 0 /\ faults' = MaxFaults
  /\ page' = NewPage
  /\ loop' = [l \in Loops |-> NoLoop] /\ post' = [p \in Posts |-> Nil]
  /\ call' = [NoCalls EXCEPT !["load"] = [NoCall EXCEPT !.pc = "boot", !.ans = Reply(server)]]
  /\ UNCHANGED <<server, agreed, seen, late, crossed>>

(* The button of the sheet, then the browser's own question.               *)
Consent(granted) ==
  /\ Calm /\ page.sheet # 0 /\ ~Waits("consent")
  /\ agreed' = agreed \cup {page.sheet}
  /\ page' = [page EXCEPT !.sheet = 0]
  /\ IF granted THEN Make("consent", [NoCall EXCEPT !.pc = "granted"], server)
     ELSE Make("consent", [NoCall EXCEPT !.pc = "refused"], Denied(server))
  /\ UNCHANGED <<loop, post, seen, late, crossed>>
ConsentArrives ==
  /\ Waits("consent")
  /\ CASE call["consent"].ans.st \in {"401", "fail"} -> UNCHANGED <<page, loop>>
       [] call["consent"].ans.st \in Sts /\ call["consent"].pc = "granted" -> Start(page)
       [] call["consent"].ans.st \in Sts /\ call["consent"].pc = "refused" ->
            page' = [page EXCEPT !.closed = FALSE] /\ UNCHANGED loop
  /\ Done("consent")
  /\ UNCHANGED <<server, agreed, post, faults, seen, late, crossed>>

(* The button of ackModal: GET /f/me, show it, POST /f/ack.                *)
AckClick ==
  /\ Calm /\ page.modal /\ ~Waits("ack")
  /\ Make("ack", [NoCall EXCEPT !.pc = "me"], server)
  /\ UNCHANGED <<page, agreed, loop, post, seen, late, crossed>>
AckFetched_Unshown ==   \* mutant: the page goes on showing what it showed
  /\ call["ack"].pc = "me" /\ call["ack"].ans.inc # 0
  /\ LET a == call["ack"].ans
     IN  /\ Make("ack", [pc |-> "ack", mv |-> a.ver, ans |-> Nil], Acked(server, a.ver))
         /\ crossed' = (crossed \/ a.inc # server.inc)
  /\ UNCHANGED <<page, agreed, loop, post, seen, late>>
AckFetched ==
  /\ call["ack"].pc = "me"
  /\ LET a == call["ack"].ans
     IN  IF a.inc = 0   \* failed, or without a task
         THEN Done("ack") /\ UNCHANGED <<server, faults, seen, crossed>>
         ELSE /\ Display(a)
              /\ Make("ack", [pc |-> "ack", mv |-> a.ver, ans |-> Nil], Acked(server, a.ver))
              /\ crossed' = (crossed \/ a.inc # server.inc)
  /\ UNCHANGED <<page, agreed, loop, post, late>>
AckArrives ==
  /\ call["ack"].pc = "ack"
  /\ page' = IF call["ack"].ans.st \in {"401", "fail"} THEN page
             ELSE [page EXCEPT !.ackVer = call["ack"].mv, !.ackOf = call["ack"].ans.inc,
                                 !.modal = FALSE]
  /\ Done("ack")
  /\ UNCHANGED <<server, agreed, loop, post, faults, seen, late, crossed>>

(***************************************************************************)
(* What goes on by itself: timers that are set, calls under way.           *)
(***************************************************************************)
Timers(l) ==
  \/ Beat(l) \/ ReadingFails(l) \/ SyncArrives(l)
  \/ \E p \in Posts : ReadingComes(p, l)
Calls ==
  \/ Recheck
  \/ LoadArrives \/ ConsentArrives \/ AckFetched \/ AckArrives
Next ==
  \/ \E on \in BOOLEAN : OpenIncident(on)
  \/ AddMember \/ ChangeMission \/ CloseIncident \/ Lapse
  \/ \E l \in Loops : Timers(l)
  \/ \E l \in Loops, p \in Posts : Watch(p, l) \/ RetryFires(p, l)
  \/ \E p \in Posts : FixArrives(p)
  \/ Calls
  \/ Login \/ Reload
  \/ \E granted \in BOOLEAN : Consent(granted)
  \/ AckClick

Fairness ==
  /\ \A l \in Loops : WF_vars(Timers(l))
  /\ \A p \in Posts : WF_vars(FixArrives(p))
  /\ WF_vars(Calls)

Spec     == Init /\ [][Next]_vars
FairSpec == Spec /\ Fairness

(***************************************************************************)
(* Properties                                                              *)
(***************************************************************************)
TypeOK ==
  /\ server \in Server /\ page \in Page
  /\ agreed \subseteq Incidents
  /\ loop \in [Loops -> Loop]
  /\ post \in [Posts -> [loop : Loops, ans : Answer \cup {Nil}] \cup {Nil}]
  /\ call \in [{"load", "consent", "ack"} -> Call]
  /\ faults \in Nat /\ seen \in 0 .. MaxVer
  /\ late \in BOOLEAN /\ crossed \in BOOLEAN

(* A stopped loop leaves no timer behind (stop), unless two of its         *)
(* positions were under way or waiting at the same time: the second retry  *)
(* then hides the first.                                                   *)
StoppedIsQuiet ==
  \A l \in Loops : (~loop[l].on /\ ~loop[l].doubled)
                      => ~loop[l].retry /\ loop[l].stray = 0 /\ loop[l].beat # "set"

(* At most one loop runs (startLoopIfNeeded), unless the answer to a loop  *)
(* already stopped arrived while its successor was running, and made the   *)
(* page forget the successor.                                              *)
OneLoop == late \/ Cardinality({l \in Loops : loop[l].on}) =< 1

(* A version the server holds as acknowledged has been on the member's     *)
(* screen, unless an acknowledgement was served after its incident.        *)
AckedWasShown ==
  (Assigned(server) /\ server.ack > 1 /\ ~crossed) => server.ack =< seen

(* A running loop brings every change of the mission to the member's       *)
(* attention (SPEC 6.1, R18): it polls until the dialog is open, or the    *)
(* version is both on the screen and acknowledged.  Not if what the page   *)
(* has acknowledged is a version of another incident, and as high:         *)
(* applyPollResult compares numbers only (EveryChangeIsSeen).  Nor if an   *)
(* acknowledgement was served after its incident, and counts for a version *)
(* the next one had yet to reach.                                          *)
ChangeIsSeen ==
  \A v \in 2 .. MaxVer :
    (page.loop # Nil /\ Assigned(server) /\ server.ver = v /\ server.auth)
      ~> \/ page.modal \/ (page.ackVer >= v /\ (seen >= v \/ page.ackOf # server.inc \/ crossed))
         \/ page.loop = Nil \/ ~Assigned(server) \/ server.ver # v \/ ~server.auth

(* Every running loop ends when the incident does (SPEC 8.1.5), as long as *)
(* the server remembers the incident: also one the page has forgotten.     *)
ClosingStopsLoops ==
  ((\E l \in Loops : loop[l].on) /\ server.inc = 0 /\ server.recent /\ server.auth)
    ~> ((\A l \in Loops : ~loop[l].on) \/ server.inc # 0 \/ ~server.recent \/ ~server.auth)

(* A page that waits for an incident leaves the waiting view when there is *)
(* one, without a reload (scheduleRecheck; SPEC appendix, defect 9).       *)
IncidentIsFound ==
  (page.view = "idle" /\ Answering(server)) ~> (page.view # "idle" \/ ~Answering(server))

(* Positions are taken for an incident only after its sheet was answered   *)
(* (maybeShowConsentSheet; SPEC 8.1.1, 11.3).                              *)
ConsentFirst ==
  [][\A p \in Posts : (post[p] = Nil /\ post'[p] # Nil /\ post'[p].ans.inc # 0)
                         => post'[p].ans.inc \in agreed]_vars

(***************************************************************************)
(* What the documents say without exception                                *)
(***************************************************************************)
(* docs/SPEC.md:586: whenever the version is above the one acknowledged,   *)
(* the dialog is opened first (R18: so too on a phone that lies still).  In*)
(* the code a version acknowledged in an earlier incident counts too.      *)
EveryChangeIsSeen ==
  \A v \in 2 .. MaxVer :
    (page.loop # Nil /\ Assigned(server) /\ server.ver = v /\ server.auth)
      ~> \/ page.modal \/ (page.ackVer >= v /\ seen >= v)
         \/ page.loop = Nil \/ ~Assigned(server) \/ server.ver # v \/ ~server.auth

(* docs/SPEC.md:754, f.js:287-289: after the stop GET /f/sync is no longer *)
(* called.  A reading that fails after it still calls it.                  *)
StopEndsCalls ==
  [][\A l \in Loops : (loop[l].beat # "sync" /\ loop'[l].beat = "sync") => loop[l].on]_vars
================================================================================
