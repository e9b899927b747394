--------------------------- MODULE FieldClient_proofs ---------------------------
(***************************************************************************)
(* Proofs about module FieldClient: for any loops, slots and bounds, a     *)
(* stopped location loop leaves no timer behind, at most one loop runs,    *)
(* and a version held as acknowledged was on the member's screen.          *)
(***************************************************************************)
EXTENDS FieldClient, TLAPS, FiniteSetTheorems

USE SMTT(60)

Keys == {"load", "consent", "ack"}
InFlight == [loop : Loops, ans : Answer \cup {Nil}] \cup {Nil}

(* An answer that is about an incident says which version it shows.        *)
AnsOK(a) == a \in Answer /\ (a.inc # 0 => a.ver \in 1 .. MaxVer /\ a.ack \in 1 .. MaxVer)

ServerOK == server \in Server
PostOK(p) == post[p] # Nil => post[p].loop \in Loops /\ AnsOK(post[p].ans)
Kind(k) ==
  CASE k = "load" -> {"boot", "recheck"} [] k = "consent" -> {"granted", "refused"} [] k = "ack" -> {"me", "ack"}
CallOK(k) ==
  /\ call[k].pc # "none" => call[k].pc \in Kind(k) /\ AnsOK(call[k].ans)
  /\ call[k].pc = "ack" => call[k].mv \in 1 .. MaxVer
RestOK ==
  /\ agreed \subseteq Incidents /\ faults \in Nat /\ seen \in 0 .. MaxVer
  /\ late \in BOOLEAN /\ crossed \in BOOLEAN

(* A retry timer that is no longer named, or that is set while a position  *)
(* is under way, was preceded by two positions at once.                    *)
QuietOK(l) ==
  /\ loop[l].stray > 0 => loop[l].doubled
  /\ loop[l].retry /\ UnderWay(l) # {} => loop[l].doubled
  /\ \A p, q \in UnderWay(l) : p = q \/ loop[l].doubled
  /\ ~loop[l].on => ~loop[l].retry /\ loop[l].beat # "set"
  /\ loop[l].beat = "sync" => AnsOK(loop[l].ans)

(* A loop that runs is the one the page knows.                             *)
OwnedOK(l) == ~late /\ loop[l].on => page.loop = l

(* What is acknowledged was seen, whether or not an incident is active and *)
(* the member is assigned to it.                                           *)
ShownOK == ~crossed => server.ack =< 1 \/ server.ack =< seen

(* The inductive invariant.                                                *)
IInv ==
  /\ ServerOK /\ page \in Page /\ RestOK /\ ShownOK
  /\ loop \in [Loops -> Loop] /\ \A l \in Loops : QuietOK(l) /\ OwnedOK(l)
  /\ post \in [Posts -> InFlight] /\ \A p \in Posts : PostOK(p)
  /\ call \in [Keys -> Call] /\ \A k \in Keys : CallOK(k)

-----------------------------------------------------------------------------
(***************************************************************************)
(* The server and its answers                                              *)
(***************************************************************************)
LEMMA Numbers ==
  /\ MaxInc \in Nat /\ MaxVer \in Nat \ {0} /\ MaxFaults \in Nat
  /\ 0 \in 0 .. MaxVer /\ 1 \in 0 .. MaxVer /\ 1 \in 1 .. MaxVer /\ Nil \notin Loops
  /\ 0 \notin Incidents
  BY FieldClientAssumption DEF Incidents

(* A change of the server that leaves the incident, its version and its    *)
(* acknowledgement alone.                                                  *)
Same(s) ==
  /\ s \in Server /\ s.inc = server.inc /\ s.ver = server.ver
  /\ s.ack = server.ack

LEMMA SameSelf == ASSUME ServerOK PROVE Same(server)
  BY DEF Same, ServerOK

LEMMA MovedSame == ASSUME ServerOK PROVE Same(Moved(server))
  <1> DEFINE s == [server EXCEPT !.denied = FALSE]
  <1>1. s \in Server
    BY ZenonT(60) DEF ServerOK, Server
  <1>2. s.inc = server.inc /\ s.ver = server.ver /\ s.ack = server.ack
    BY DEF ServerOK, Server
  <1> HIDE DEF s
  <1>3. Moved(server) \in {s, server}
    BY DEF Moved, s
  <1>4. QED
    BY <1>1, <1>2, <1>3, SameSelf DEF Same

LEMMA DeniedSame == ASSUME ServerOK PROVE Same(Denied(server))
  <1> DEFINE s == [server EXCEPT !.denied = TRUE]
  <1>1. s \in Server
    BY ZenonT(60) DEF ServerOK, Server
  <1>2. s.inc = server.inc /\ s.ver = server.ver /\ s.ack = server.ack
    BY DEF ServerOK, Server
  <1> HIDE DEF s
  <1>3. Denied(server) \in {s, server}
    BY DEF Denied, s
  <1>4. QED
    BY <1>1, <1>2, <1>3, SameSelf DEF Same

LEMMA LoginSame == ASSUME ServerOK PROVE Same([server EXCEPT !.auth = TRUE])
  <1> DEFINE s == [server EXCEPT !.auth = TRUE]
  <1>1. s \in Server
    BY ZenonT(60) DEF ServerOK, Server
  <1>2. s.inc = server.inc /\ s.ver = server.ver /\ s.ack = server.ack
    BY DEF ServerOK, Server
  <1> HIDE DEF s
  <1>3. QED
    BY <1>1, <1>2 DEF Same, s

LEMMA FailedOK == AnsOK(Failed) /\ Failed.st = "fail"
  BY Numbers DEF AnsOK, Failed, Answer, Sts

LEMMA ReplyOK ==
  ASSUME NEW s \in Server
  PROVE  AnsOK(Reply(s))
  <1> DEFINE bare(st) == [st |-> st, inc |-> 0, ver |-> 0, ack |-> 0]
             full(st) == [st |-> st, inc |-> s.inc, ver |-> s.ver, ack |-> s.ack]
  <1>1. \A st \in {"401", "NONE", "CLOSED", "IDLE"} : AnsOK(bare(st)) /\ [Failed EXCEPT !.st = st] = bare(st)
    BY Numbers DEF AnsOK, Answer, Sts, Failed
  <1>2. \A st \in {"LIVE", "LOC_DENIED"} : AnsOK(full(st))
    BY Numbers DEF AnsOK, Answer, Sts, Server
  <1> HIDE DEF bare, full
  <1>3. Reply(s) \in {bare("401"), bare("NONE"), bare("CLOSED"), bare("IDLE"), full("LIVE"), full("LOC_DENIED")}
    <2>1. CASE ~s.auth
      BY <1>1, <2>1 DEF Reply
    <2>2. CASE s.auth /\ Assigned(s)
      <3>1. s.inc # 0 /\ s.on
        BY <2>2 DEF Assigned
      <3>2. Reply(s) = full(IF s.denied THEN "LOC_DENIED" ELSE "LIVE")
        BY <2>2, <3>1, ZenonT(60) DEF Reply, full
      <3>3. QED
        BY <3>2
    <2>3. CASE s.auth /\ s.inc # 0 /\ ~s.on
      BY <1>1, <2>3 DEF Reply, Assigned
    <2>4. CASE s.auth /\ s.inc = 0
      <3>1. Reply(s) = [Failed EXCEPT !.st = IF s.recent THEN "CLOSED" ELSE "IDLE"]
        BY <2>4 DEF Reply, Assigned
      <3>2. QED
        BY <1>1, <3>1
    <2>5. QED
      BY <2>1, <2>2, <2>3, <2>4 DEF Assigned
  <1>4. QED
    BY <1>1, <1>2, <1>3

(* Whatever becomes of a call, the server is as before or as the call      *)
(* makes it, and the phone is told something.                              *)
LEMMA WaysTaken ==
  ASSUME RestOK, NEW effect \in Server, NEW way \in Ways(effect), Take(way)
  PROVE  server' \in {server, effect} /\ AnsOK(way[2]) /\ faults' \in Nat
  <1>1. way \in {<<effect, Reply(effect)>>} \cup ({server, effect} \X {Failed})
    BY DEF Ways
  <1>2. way[1] \in {server, effect} /\ way[2] \in {Reply(effect), Failed}
    BY <1>1
  <1>3. server' = way[1] /\ faults' \in {faults, faults + 1}
    BY DEF Take
  <1>4. QED
    BY <1>2, <1>3, ReplyOK, FailedOK DEF RestOK

(* Such a step leaves the server in order.                                 *)
LEMMA SameKeeps ==
  ASSUME ServerOK, ShownOK, RestOK, NEW s, Same(s), server' \in {server, s},
         seen' \in 0 .. MaxVer, seen =< seen', crossed => crossed', crossed' \in BOOLEAN
  PROVE  ServerOK' /\ ShownOK'
  <1>1. /\ server' \in Server /\ server'.inc = server.inc /\ server'.ver = server.ver
        /\ server'.ack = server.ack
    BY DEF Same, ServerOK
  <1>2. seen \in Nat /\ seen' \in Nat /\ server.ack \in Nat
    BY Numbers DEF RestOK, ServerOK, Server
  <1>3. QED
    BY <1>1, <1>2 DEF ServerOK, ShownOK

(* What a step does not touch stays in order.                              *)
LEMMA PostsStay ==
  ASSUME IInv, UNCHANGED post
  PROVE  post' \in [Posts -> InFlight] /\ (\A p \in Posts : PostOK(p)') /\ \A l \in Loops : UnderWay(l)' = UnderWay(l)
  BY DEF IInv, PostOK, UnderWay

LEMMA CallsStay ==
  ASSUME IInv, UNCHANGED call
  PROVE  call' \in [Keys -> Call] /\ \A k \in Keys : CallOK(k)'
  BY DEF IInv, CallOK

LEMMA LoopsStay ==
  ASSUME IInv, UNCHANGED <<loop, post, late>>, page'.loop = page.loop
  PROVE  loop' \in [Loops -> Loop] /\ \A l \in Loops : QuietOK(l)' /\ OwnedOK(l)'
  <1>1. \A l \in Loops : UnderWay(l)' = UnderWay(l) /\ QuietOK(l) /\ OwnedOK(l)
    BY PostsStay DEF IInv
  <1>2. QED
    BY <1>1 DEF IInv, QuietOK, OwnedOK

-----------------------------------------------------------------------------
(***************************************************************************)
(* One loop                                                                *)
(***************************************************************************)
Settled(lp) == ~lp.on => ~lp.retry /\ lp.beat # "set"

(* n is lp after an answer: nothing is started or hidden by it.            *)
Follows(lp, n) ==
  /\ n \in Loop /\ Settled(n)
  /\ n.on => lp.on
  /\ n.doubled = lp.doubled /\ n.stray = lp.stray
  /\ n.retry => lp.retry
  /\ n.beat = "sync" => lp.beat = "sync" /\ n.ans = lp.ans

LEMMA StopFollows ==
  ASSUME NEW lp \in Loop
  PROVE  Follows(lp, Stop(lp)) /\ ~Stop(lp).on
  <1> DEFINE n == Stop(lp)
  <1>1. n \in Loop
    <2>1. [lp EXCEPT !.on = FALSE, !.idle = FALSE, !.sent = FALSE, !.retry = FALSE, !.beat = "off"] \in Loop
      BY ZenonT(60) DEF Loop
    <2>2. [lp EXCEPT !.on = FALSE, !.idle = FALSE, !.sent = FALSE, !.retry = FALSE, !.beat = lp.beat] \in Loop
      <3>1. lp.beat \in {"off", "set", "read", "sync"}
        BY DEF Loop
      <3>2. QED
        BY <3>1, ZenonT(60) DEF Loop
    <2>3. CASE lp.beat = "set"
      BY <2>1, <2>3 DEF Stop
    <2>4. CASE lp.beat # "set"
      BY <2>2, <2>4 DEF Stop
    <2>5. QED
      BY <2>3, <2>4
  <1>2. /\ n.on = FALSE /\ n.retry = FALSE /\ n.stray = lp.stray /\ n.doubled = lp.doubled /\ n.ans = lp.ans
        /\ n.beat = IF lp.beat = "set" THEN "off" ELSE lp.beat
    BY DEF Stop, Loop
  <1> HIDE DEF n
  <1>3. QED
    BY <1>1, <1>2 DEF Follows, Settled, n

LEMMA SameFollows ==
  ASSUME NEW lp \in Loop, Settled(lp)
  PROVE  Follows(lp, lp)
  BY DEF Follows

LEMMA LoopAfterFollows ==
  ASSUME NEW lp \in Loop, Settled(lp), NEW a
  PROVE  Follows(lp, LoopAfter(lp, a)) /\ (a.st \in {"CLOSED", "401"} => ~LoopAfter(lp, a).on)
  <1>1. CASE a.st \in {"CLOSED", "401"}
    BY <1>1, StopFollows DEF LoopAfter
  <1>2. CASE a.st \notin {"CLOSED", "401"} /\ ~lp.on
    BY <1>2, SameFollows DEF LoopAfter
  <1>3. CASE a.st \notin {"CLOSED", "401"} /\ lp.on
    <2> DEFINE n == [lp EXCEPT !.idle = a.st \in {"IDLE", "NONE"}]
    <2>1. n \in Loop
      <3>1. (a.st \in {"IDLE", "NONE"}) \in BOOLEAN
        OBVIOUS
      <3>2. QED
        BY <3>1, ZenonT(60) DEF Loop
    <2>2. /\ n.on = lp.on /\ n.retry = lp.retry /\ n.stray = lp.stray /\ n.doubled = lp.doubled
          /\ n.ans = lp.ans /\ n.beat = lp.beat
      BY DEF Loop
    <2>3. LoopAfter(lp, a) = n
      BY <1>3 DEF LoopAfter
    <2> HIDE DEF n
    <2>4. Settled(n) /\ Follows(lp, n)
      BY <1>3, <2>1, <2>2, ZenonT(60) DEF Follows, Settled
    <2>5. QED
      BY <1>3, <2>3, <2>4
  <1>4. QED
    BY <1>1, <1>2, <1>3

LEMMA RebeatFollows ==
  ASSUME NEW lp \in Loop, Settled(lp)
  PROVE  Follows(lp, Rebeat(lp)) /\ Rebeat(lp).beat # "sync" /\ Rebeat(lp).on = lp.on /\ Rebeat(lp).retry = lp.retry
  <1> DEFINE n == [lp EXCEPT !.beat = IF lp.on THEN "set" ELSE "off", !.sent = FALSE, !.ans = Nil]
  <1>1. n \in Loop
    <2>1. (IF lp.on THEN "set" ELSE "off") \in {"off", "set", "read", "sync"}
      OBVIOUS
    <2>2. QED
      BY <2>1, ZenonT(60) DEF Loop
  <1>2. /\ n.on = lp.on /\ n.retry = lp.retry /\ n.stray = lp.stray /\ n.doubled = lp.doubled
        /\ n.beat = IF lp.on THEN "set" ELSE "off"
    BY DEF Loop
  <1>3. Rebeat(lp) = n
    BY DEF Rebeat
  <1> HIDE DEF n
  <1>4. QED
    BY <1>1, <1>2, <1>3 DEF Follows, Settled

(* One loop changes, and the page takes it up, goes on with it or drops    *)
(* the one it has.                                                         *)
LEMMA LoopChanges ==
  ASSUME IInv, NEW l \in Loops, NEW n \in Loop, loop' = [loop EXCEPT ![l] = n],
         \A x \in Loops \ {l} : UnderWay(x)' \subseteq UnderWay(x),
         QuietOK(l)',
         \/ page'.loop = page.loop /\ late' = late /\ (n.on => loop[l].on)
         \/ page'.loop = Nil /\ ~n.on /\ late' = (late \/ page.loop \notin {l, Nil})
         \/ page.loop = Nil /\ page'.loop = l /\ late' = late
  PROVE  loop' \in [Loops -> Loop] /\ \A x \in Loops : QuietOK(x)' /\ OwnedOK(x)'
  <1>1. loop \in [Loops -> Loop] /\ \A x \in Loops : QuietOK(x) /\ OwnedOK(x)
    BY DEF IInv
  <1>2. loop' \in [Loops -> Loop] /\ loop'[l] = n /\ \A x \in Loops \ {l} : loop'[x] = loop[x]
    BY <1>1
  <1>3. \A x \in Loops \ {l} : QuietOK(x)'
    <2> SUFFICES ASSUME NEW x \in Loops \ {l} PROVE QuietOK(x)'
      OBVIOUS
    <2>1. QuietOK(x) /\ loop'[x] = loop[x] /\ UnderWay(x)' \subseteq UnderWay(x)
      BY <1>1, <1>2
    <2>2. QED
      BY <2>1 DEF QuietOK
  <1>4. \A x \in Loops : OwnedOK(x)'
    <2> SUFFICES ASSUME NEW x \in Loops, ~late', loop'[x].on PROVE page'.loop = x
      BY DEF OwnedOK
    <2>1. ~late
      BY ZenonT(60)
    <2>2. \A y \in Loops : loop[y].on => page.loop = y
      BY <1>1, <2>1 DEF OwnedOK
    <2>3. CASE page'.loop = page.loop /\ late' = late /\ (n.on => loop[l].on)
      BY <1>2, <2>2, <2>3, ZenonT(60)
    <2>4. CASE page'.loop = Nil /\ ~n.on /\ late' = (late \/ page.loop \notin {l, Nil})
      <3>1. page.loop \in {l, Nil}
        BY <2>4, ZenonT(60)
      <3>2. x # l /\ loop[x].on
        BY <1>2, <2>4, ZenonT(60)
      <3>3. QED
        BY <2>2, <3>1, <3>2, Numbers
    <2>5. CASE page.loop = Nil /\ page'.loop = l /\ late' = late
      BY <1>2, <2>2, <2>5, Numbers
    <2>6. QED
      BY <2>3, <2>4, <2>5
  <1>5. QED
    BY <1>2, <1>3, <1>4

(* So it stays, if it follows what it was and nothing new is under way.    *)
LEMMA FollowerIsQuiet ==
  ASSUME IInv, NEW l \in Loops, NEW n, Follows(loop[l], n), loop' = [loop EXCEPT ![l] = n],
         UnderWay(l)' \subseteq UnderWay(l)
  PROVE  QuietOK(l)'
  <1>1. QuietOK(l) /\ loop'[l] = n
    BY DEF IInv
  <1>2. QED
    BY <1>1 DEF QuietOK, Follows, Settled

LEMMA LoopSettled ==
  ASSUME IInv, NEW l \in Loops
  PROVE  loop[l] \in Loop /\ Settled(loop[l]) /\ QuietOK(l) /\ OwnedOK(l)
  BY DEF IInv, QuietOK, Settled

-----------------------------------------------------------------------------
(***************************************************************************)
(* What the actions have in common                                         *)
(***************************************************************************)
LEMMA RestStays ==
  ASSUME IInv, UNCHANGED <<server, agreed, faults, seen, crossed>>, late' \in BOOLEAN
  PROVE  ServerOK' /\ RestOK' /\ ShownOK'
  BY ZenonT(60) DEF IInv, ServerOK, RestOK, ShownOK

LEMMA PageMembers ==
  ASSUME page \in Page
  PROVE  /\ \A v \in {"login", "main", "idle"}, c \in BOOLEAN :
              [page EXCEPT !.closed = c, !.view = v] \in Page
         /\ \A b \in BOOLEAN : [page EXCEPT !.recheck = b] \in Page
         /\ [page EXCEPT !.view = "login"] \in Page
         /\ [page EXCEPT !.sheet = 0] \in Page
         /\ [page EXCEPT !.closed = FALSE] \in Page
  BY ZenonT(60) DEF Page

LEMMA PageAfterOK ==
  ASSUME page \in Page, NEW a, AnsOK(a), a.st # "fail"
  PROVE  /\ PageAfter(a) \in Page
         /\ a.st \in {"CLOSED", "401"} => PageAfter(a).loop = Nil
         /\ a.st \notin {"CLOSED", "401"} => PageAfter(a).loop = page.loop
  <1>1. CASE a.st = "CLOSED"
    <2> DEFINE n == [page EXCEPT !.closed = TRUE, !.loop = Nil, !.recheck = TRUE]
    <2>1. n \in Page
      BY ZenonT(60) DEF Page
    <2>2. n.loop = Nil
      BY DEF Page
    <2>3. PageAfter(a) = n
      BY <1>1, ZenonT(60) DEF PageAfter
    <2> HIDE DEF n
    <2>4. QED
      BY <1>1, <2>1, <2>2, <2>3
  <1>2. CASE a.st = "401"
    <2> DEFINE n == [page EXCEPT !.view = "login", !.loop = Nil]
    <2>1. n \in Page
      BY ZenonT(60) DEF Page
    <2>2. n.loop = Nil
      BY DEF Page
    <2>3. "401" # "CLOSED" /\ "401" \notin Sts
      BY DEF Sts
    <2>4. PageAfter(a) = n
      BY <1>2, <2>3, ZenonT(60) DEF PageAfter
    <2> HIDE DEF n
    <2>5. QED
      BY <1>2, <2>1, <2>2, <2>4
  <1>3. CASE a.st \notin {"CLOSED", "401"}
    <2> DEFINE m == page.modal \/ a.ver > page.ackVer
               n == [page EXCEPT !.closed = FALSE, !.modal = m]
    <2>1. a.ver \in 0 .. MaxVer /\ a.st \in Sts \ {"CLOSED"}
      BY <1>3 DEF AnsOK, Answer
    <2>2. m \in BOOLEAN
      OBVIOUS
    <2>3. PageAfter(a) = n
      BY <1>3, <2>1, ZenonT(60) DEF PageAfter
    <2> HIDE DEF m
    <2>4. n \in Page
      BY <2>1, <2>2, ZenonT(60) DEF Page
    <2>5. n.loop = page.loop
      BY DEF Page
    <2> HIDE DEF n
    <2>6. QED
      BY <1>3, <2>3, <2>4, <2>5
  <1>4. QED
    BY <1>1, <1>2, <1>3

(* An answer other than a failure reaches a loop and its page.             *)
LEMMA AnswerReaches ==
  ASSUME IInv, NEW l \in Loops, NEW a, AnsOK(a), a.st # "fail", NEW n,
         Follows(loop[l], n), a.st \in {"CLOSED", "401"} => ~n.on,
         loop' = [loop EXCEPT ![l] = n], page' = PageAfter(a), late' = (late \/ Misses(l, a)),
         \A x \in Loops : UnderWay(x)' \subseteq UnderWay(x)
  PROVE  /\ page' \in Page /\ late' \in BOOLEAN
         /\ loop' \in [Loops -> Loop] /\ \A x \in Loops : QuietOK(x)' /\ OwnedOK(x)'
  <1>1. page \in Page
    BY DEF IInv
  <1>2. /\ page' \in Page
        /\ a.st \in {"CLOSED", "401"} => page'.loop = Nil
        /\ a.st \notin {"CLOSED", "401"} => page'.loop = page.loop
    BY <1>1, PageAfterOK
  <1>3. late \in BOOLEAN /\ late' \in BOOLEAN
    BY ZenonT(60) DEF IInv, RestOK, Misses
  <1>4. QuietOK(l)'
    BY FollowerIsQuiet, ZenonT(60)
  <1>5. n \in Loop /\ (n.on => loop[l].on)
    BY DEF Follows
  <1>6. \/ page'.loop = page.loop /\ late' = late /\ (n.on => loop[l].on)
        \/ page'.loop = Nil /\ ~n.on /\ late' = (late \/ page.loop \notin {l, Nil})
        \/ page.loop = Nil /\ page'.loop = l /\ late' = late
    <2>1. CASE a.st \in {"CLOSED", "401"}
      <3>1. late' = (late \/ page.loop \notin {l, Nil})
        BY <2>1, ZenonT(60) DEF Misses
      <3>2. QED
        BY <1>2, <2>1, <3>1
    <2>2. CASE a.st \notin {"CLOSED", "401"}
      <3>1. late' = late
        BY <1>3, <2>2, ZenonT(60) DEF Misses
      <3>2. QED
        BY <1>2, <1>5, <2>2, <3>1
    <2>3. QED
      BY <2>1, <2>2
  <1>7. \A x \in Loops \ {l} : UnderWay(x)' \subseteq UnderWay(x)
    OBVIOUS
  <1>8. loop' \in [Loops -> Loop] /\ \A x \in Loops : QuietOK(x)' /\ OwnedOK(x)'
    BY <1>4, <1>5, <1>6, <1>7, LoopChanges, ZenonT(60)
  <1>9. QED
    BY <1>2, <1>3, <1>8

-----------------------------------------------------------------------------
(***************************************************************************)
(* A position's answer                                                     *)
(***************************************************************************)
LEMMA RetryOK ==
  ASSUME NEW lp \in Loop
  PROVE  /\ Retry(lp) \in Loop
         /\ ~lp.on => Retry(lp) = lp
         /\ Retry(lp).on = lp.on /\ Retry(lp).doubled = lp.doubled /\ Retry(lp).beat = lp.beat
         /\ Retry(lp).ans = lp.ans /\ (Retry(lp).stray > 0 => lp.stray > 0 \/ lp.retry)
  <1>1. CASE ~lp.on
    BY <1>1 DEF Retry
  <1>2. CASE lp.on
    <2> DEFINE s == IF lp.retry THEN lp.stray + 1 ELSE lp.stray
               n == [lp EXCEPT !.retry = TRUE, !.stray = s]
    <2>1. s \in Nat /\ (s > 0 => lp.stray > 0 \/ lp.retry)
      BY DEF Loop
    <2>2. Retry(lp) = n
      BY <1>2 DEF Retry
    <2> HIDE DEF s
    <2>3. n \in Loop
      BY <2>1, ZenonT(60) DEF Loop
    <2>4. n.on = lp.on /\ n.doubled = lp.doubled /\ n.beat = lp.beat /\ n.ans = lp.ans /\ n.stray = s
      BY DEF Loop
    <2> HIDE DEF n
    <2>5. QED
      BY <1>2, <2>1, <2>2, <2>3, <2>4
  <1>3. QED
    BY <1>1, <1>2

LEMMA FixArrivesKeeps ==
  ASSUME IInv, NEW p \in Posts, FixArrives(p)
  PROVE  IInv'
  <1>0. PICK l, a : l = post[p].loop /\ a = post[p].ans
    OBVIOUS
  <1>1. post \in [Posts -> InFlight] /\ l \in Loops /\ AnsOK(a) /\ post[p] # Nil
    BY <1>0 DEF IInv, FixArrives, PostOK
  <1>2. post' = [post EXCEPT ![p] = Nil]
    BY DEF FixArrives
  <1>3. /\ post' \in [Posts -> InFlight] /\ post'[p] = Nil
        /\ \A q \in Posts \ {p} : post'[q] = post[q]
    BY <1>1, <1>2 DEF InFlight
  <1>4. \A q \in Posts : PostOK(q)'
    BY <1>3 DEF IInv, PostOK
  <1>5. (\A x \in Loops : UnderWay(x)' \subseteq UnderWay(x)) /\ UnderWay(l)' = UnderWay(l) \ {p} /\ p \in UnderWay(l)
    <2>1. p \in UnderWay(l)
      BY <1>0, <1>1 DEF UnderWay
    <2>2. \A x \in Loops : UnderWay(x)' \subseteq UnderWay(x)
      BY <1>3, ZenonT(60) DEF UnderWay
    <2>3. p \notin UnderWay(l)'
      BY <1>3, ZenonT(60) DEF UnderWay
    <2>4. \A q \in Posts \ {p} : q \in UnderWay(l)' <=> q \in UnderWay(l)
      BY <1>3 DEF UnderWay
    <2>5. UnderWay(l) \subseteq Posts /\ UnderWay(l)' \subseteq Posts
      BY ZenonT(60) DEF UnderWay
    <2>6. QED
      BY <2>1, <2>2, <2>3, <2>4, <2>5
  <1>6. UNCHANGED <<server, agreed, call, faults, seen, crossed>>
    BY DEF FixArrives
  <1>7. call' \in [Keys -> Call] /\ \A k \in Keys : CallOK(k)'
    BY <1>6, CallsStay
  <1>8. loop[l] \in Loop /\ Settled(loop[l]) /\ QuietOK(l)
    BY <1>1, LoopSettled
  <1>9. late' \in BOOLEAN /\ page' \in Page /\ loop' \in [Loops -> Loop] /\ \A x \in Loops : QuietOK(x)' /\ OwnedOK(x)'
    <2>1. CASE a.st = "fail"
      <3>1. loop' = [loop EXCEPT ![l] = Retry(loop[l])] /\ page' = page /\ late' = late
        BY <1>0, <2>1, ZenonT(60) DEF FixArrives
      <3>0. PICK n : n = Retry(loop[l])
        OBVIOUS
      <3>2. /\ n \in Loop /\ (~loop[l].on => n = loop[l])
            /\ n.on = loop[l].on /\ n.doubled = loop[l].doubled /\ n.beat = loop[l].beat
            /\ n.ans = loop[l].ans /\ (n.stray > 0 => loop[l].stray > 0 \/ loop[l].retry)
        BY <1>8, <3>0, RetryOK
      <3>3. loop'[l] = n
        BY <1>1, <3>0, <3>1 DEF IInv
      <3>4. QuietOK(l)'
        <4>1. UnderWay(l) # {} /\ (\A q \in UnderWay(l) : q = p \/ loop[l].doubled)
          BY <1>5, <1>8 DEF QuietOK
        <4>2. n.stray > 0 => n.doubled
          BY <1>8, <3>2, <4>1 DEF QuietOK
        <4>3. UnderWay(l)' # {} => n.doubled
          BY <1>5, <3>2, <4>1
        <4>4. \A q, r \in UnderWay(l)' : q = r \/ n.doubled
          BY <4>3
        <4>5. ~n.on => ~n.retry /\ n.beat # "set"
          BY <1>8, <3>2 DEF Settled
        <4>6. n.beat = "sync" => AnsOK(n.ans)
          BY <1>8, <3>2 DEF QuietOK
        <4>7. QED
          BY <3>3, <4>2, <4>3, <4>4, <4>5, <4>6, ZenonT(60) DEF QuietOK, AnsOK
      <3>5. loop' = [loop EXCEPT ![l] = n]
        BY <3>0, <3>1
      <3>6. page'.loop = page.loop /\ late' = late /\ (n.on => loop[l].on)
        BY <3>1, <3>2
      <3>7. \A x \in Loops \ {l} : UnderWay(x)' \subseteq UnderWay(x)
        BY <1>5
      <3>8. loop' \in [Loops -> Loop] /\ \A x \in Loops : QuietOK(x)' /\ OwnedOK(x)'
        BY <1>1, <3>2, <3>4, <3>5, <3>6, <3>7, LoopChanges, ZenonT(60)
      <3>9. QED
        BY <3>1, <3>8 DEF IInv, RestOK
    <2>2. CASE a.st # "fail"
      <3>1. /\ loop' = [loop EXCEPT ![l] = LoopAfter(loop[l], a)] /\ page' = PageAfter(a)
            /\ late' = (late \/ Misses(l, a))
        BY <1>0, <2>2, ZenonT(60) DEF FixArrives
      <3>2. Follows(loop[l], LoopAfter(loop[l], a)) /\ (a.st \in {"CLOSED", "401"} => ~LoopAfter(loop[l], a).on)
        BY <1>8, LoopAfterFollows
      <3>3. QED
        BY <1>1, <1>5, <2>2, <3>1, <3>2, AnswerReaches, ZenonT(60)
    <2>3. QED
      BY <2>1, <2>2
  <1>10. ServerOK' /\ RestOK' /\ ShownOK'
    BY <1>6, <1>9, RestStays
  <1>11. QED
    BY <1>3, <1>4, <1>7, <1>9, <1>10 DEF IInv

LEMMA SyncArrivesKeeps ==
  ASSUME IInv, NEW l \in Loops, SyncArrives(l)
  PROVE  IInv'
  <1>0. PICK a : a = loop[l].ans
    OBVIOUS
  <1>1. loop[l].beat = "sync" /\ UNCHANGED <<server, agreed, post, call, faults, seen, crossed>>
    BY DEF SyncArrives
  <1>2. loop[l] \in Loop /\ Settled(loop[l]) /\ QuietOK(l) /\ AnsOK(a)
    BY <1>0, <1>1, LoopSettled DEF QuietOK
  <1>3. post' \in [Posts -> InFlight] /\ (\A p \in Posts : PostOK(p)') /\ \A x \in Loops : UnderWay(x)' = UnderWay(x)
    BY <1>1, PostsStay
  <1>4. call' \in [Keys -> Call] /\ \A k \in Keys : CallOK(k)'
    BY <1>1, CallsStay
  <1>5. late' \in BOOLEAN /\ page' \in Page /\ loop' \in [Loops -> Loop] /\ \A x \in Loops : QuietOK(x)' /\ OwnedOK(x)'
    <2>1. CASE a.st = "fail"
      <3>1. loop' = [loop EXCEPT ![l] = Rebeat(loop[l])] /\ page' = page /\ late' = late
        BY <1>0, <2>1, ZenonT(60) DEF SyncArrives
      <3>2. Follows(loop[l], Rebeat(loop[l])) /\ Rebeat(loop[l]).on = loop[l].on
        BY <1>2, RebeatFollows
      <3>3. QuietOK(l)'
        <4>1. UnderWay(l)' \subseteq UnderWay(l)
          BY <1>3
        <4>2. QED
          BY <3>1, <3>2, <4>1, FollowerIsQuiet, ZenonT(60)
      <3>4. Rebeat(loop[l]) \in Loop
        BY <3>2 DEF Follows
      <3>5. /\ page'.loop = page.loop /\ late' = late /\ (Rebeat(loop[l]).on => loop[l].on)
            /\ \A x \in Loops \ {l} : UnderWay(x)' \subseteq UnderWay(x)
        BY <1>3, <3>1, <3>2
      <3>6. loop' \in [Loops -> Loop] /\ \A x \in Loops : QuietOK(x)' /\ OwnedOK(x)'
        BY <3>1, <3>3, <3>4, <3>5, LoopChanges, ZenonT(60)
      <3>7. QED
        BY <3>1, <3>6 DEF IInv, RestOK
    <2>2. CASE a.st # "fail"
      <3>0. PICK m, n : m = LoopAfter(loop[l], a) /\ n = Rebeat(m)
        OBVIOUS
      <3>1. /\ loop' = [loop EXCEPT ![l] = n] /\ page' = PageAfter(a)
            /\ late' = (late \/ Misses(l, a))
        BY <1>0, <2>2, <3>0, ZenonT(60) DEF SyncArrives
      <3>2. Follows(loop[l], m) /\ (a.st \in {"CLOSED", "401"} => ~m.on)
        BY <1>2, <3>0, LoopAfterFollows
      <3>3. m \in Loop /\ Settled(m)
        BY <3>2 DEF Follows
      <3>4. Follows(m, n) /\ n.on = m.on
        BY <3>0, <3>3, RebeatFollows
      <3>5. Follows(loop[l], n) /\ (a.st \in {"CLOSED", "401"} => ~n.on)
        BY <3>2, <3>4 DEF Follows
      <3>6. \A x \in Loops : UnderWay(x)' \subseteq UnderWay(x)
        BY <1>3
      <3>7. QED
        BY <1>2, <2>2, <3>1, <3>5, <3>6, AnswerReaches, ZenonT(60)
    <2>3. QED
      BY <2>1, <2>2
  <1>6. ServerOK' /\ RestOK' /\ ShownOK'
    BY <1>1, <1>5, RestStays
  <1>7. QED
    BY <1>3, <1>4, <1>5, <1>6 DEF IInv

-----------------------------------------------------------------------------
(***************************************************************************)
(* Sending a position or asking for the state                              *)
(***************************************************************************)
(* A call whose effect leaves the incident alone, whatever becomes of it.  *)
LEMMA QuietCall ==
  ASSUME IInv, NEW s, Same(s), NEW way \in Ways(s), Take(way),
         UNCHANGED <<agreed, seen, crossed>>, late' \in BOOLEAN
  PROVE  ServerOK' /\ RestOK' /\ ShownOK' /\ AnsOK(way[2])
  <1>1. s \in Server
    BY DEF Same
  <1>2. RestOK /\ ServerOK /\ ShownOK
    BY DEF IInv
  <1>3. server' \in {server, s} /\ AnsOK(way[2]) /\ faults' \in Nat
    BY <1>1, <1>2, WaysTaken
  <1>4. RestOK'
    BY <1>2, <1>3, ZenonT(60) DEF RestOK
  <1>5. seen' \in 0 .. MaxVer /\ seen =< seen' /\ (crossed => crossed') /\ crossed' \in BOOLEAN
    <2>1. seen' \in 0 .. MaxVer /\ seen =< seen'
      BY <1>2, Numbers DEF RestOK
    <2>2. (crossed => crossed') /\ crossed' \in BOOLEAN
      BY <1>2, ZenonT(60) DEF RestOK
    <2>3. QED
      BY <2>1, <2>2
  <1>6. ServerOK' /\ ShownOK'
    BY <1>2, <1>3, <1>5, SameKeeps, ZenonT(60)
  <1>7. QED
    BY <1>3, <1>4, <1>6

LEMMA SendKeeps ==
  ASSUME IInv, NEW p \in Posts, NEW l \in Loops, NEW lp \in Loop, Settled(lp),
         lp.on => loop[l].on, lp.beat = "sync" => AnsOK(lp.ans),
         lp.doubled = loop[l].doubled, Send(p, l, lp)
  PROVE  IInv'
  <1> DEFINE d == lp.doubled \/ UnderWay(l) # {} \/ lp.retry \/ lp.stray > 0
  <1>1. PICK n : n = [lp EXCEPT !.doubled = d]
    BY ZenonT(60)
  <1>2. d \in BOOLEAN
    BY DEF Loop
  <1>3. /\ post[p] = Nil /\ loop' = [loop EXCEPT ![l] = n]
        /\ UNCHANGED <<page, agreed, call, seen, late, crossed>>
    BY <1>1 DEF Send
  <1>4. PICK way \in Ways(Moved(server)) :
          Take(way) /\ post' = [post EXCEPT ![p] = [loop |-> l, ans |-> way[2]]]
    BY ZenonT(60) DEF Send
  <1>5. (lp.retry => d) /\ (lp.stray > 0 => d) /\ (UnderWay(l) # {} => d)
    OBVIOUS
  <1> HIDE DEF d
  <1>6. n \in Loop
    BY <1>1, <1>2, ZenonT(60) DEF Loop
  <1>7. /\ n.on = lp.on /\ n.retry = lp.retry /\ n.stray = lp.stray /\ n.beat = lp.beat
        /\ n.ans = lp.ans /\ n.doubled = d
    BY <1>1 DEF Loop
  <1>8. late \in BOOLEAN /\ late' \in BOOLEAN /\ page' \in Page /\ page'.loop = page.loop /\ late' = late
    BY <1>3, ZenonT(60) DEF IInv, RestOK
  <1>9. UNCHANGED <<agreed, seen, crossed>> /\ Same(Moved(server))
    BY <1>3, MovedSame DEF IInv
  <1>10. ServerOK' /\ RestOK' /\ ShownOK' /\ AnsOK(way[2])
    BY <1>4, <1>8, <1>9, QuietCall, ZenonT(60)
  <1>11. call' \in [Keys -> Call] /\ \A k \in Keys : CallOK(k)'
    BY <1>3, CallsStay
  <1>12. PICK r : r = [loop |-> l, ans |-> way[2]]
    BY ZenonT(60)
  <1>13. r \in InFlight /\ r.loop = l /\ r.ans = way[2]
    BY <1>10, <1>12 DEF AnsOK, InFlight
  <1>14. post' \in [Posts -> InFlight] /\ post'[p] = r /\ \A q \in Posts \ {p} : post'[q] = post[q]
    BY <1>4, <1>12, <1>13 DEF IInv
  <1>15. \A q \in Posts : PostOK(q)'
    <2>1. PostOK(p)'
      BY <1>10, <1>13, <1>14 DEF PostOK, AnsOK
    <2>2. \A q \in Posts \ {p} : PostOK(q)'
      BY <1>14 DEF IInv, PostOK
    <2>3. QED
      BY <2>1, <2>2
  <1>16. /\ \A x \in Loops \ {l} : UnderWay(x)' \subseteq UnderWay(x)
         /\ UnderWay(l)' \subseteq UnderWay(l) \cup {p}
    BY <1>13, <1>14 DEF UnderWay
  <1>17. QuietOK(l)'
    <2>1. loop'[l] = n /\ \A q, x \in UnderWay(l) : q = x \/ n.doubled
      BY <1>3, <1>5, <1>7 DEF IInv
    <2>2. \A q, x \in UnderWay(l)' : q = x \/ n.doubled
      BY <1>5, <1>7, <1>16
    <2>3. (n.stray > 0 => n.doubled) /\ (n.retry => n.doubled) /\ (~n.on => ~n.retry /\ n.beat # "set")
      BY <1>5, <1>7 DEF Settled
    <2>4. n.beat = "sync" => AnsOK(n.ans)
      BY <1>7
    <2>5. QED
      BY <2>1, <2>2, <2>3, <2>4, ZenonT(60) DEF QuietOK, AnsOK
  <1>18. page'.loop = page.loop /\ late' = late /\ (n.on => loop[l].on)
    BY <1>7, <1>8
  <1>19. loop' \in [Loops -> Loop] /\ \A x \in Loops : QuietOK(x)' /\ OwnedOK(x)'
    BY <1>3, <1>6, <1>16, <1>17, <1>18, LoopChanges, ZenonT(60)
  <1>20. QED
    BY <1>8, <1>10, <1>11, <1>14, <1>15, <1>19 DEF IInv

LEMMA WatchKeeps ==
  ASSUME IInv, NEW p \in Posts, NEW l \in Loops, Watch(p, l)
  PROVE  IInv'
  <1>1. PICK lp : lp = [loop[l] EXCEPT !.sent = TRUE]
    BY ZenonT(60)
  <1>2. loop[l] \in Loop /\ Settled(loop[l]) /\ QuietOK(l)
    BY LoopSettled
  <1>3. lp \in Loop
    BY <1>1, <1>2, ZenonT(60) DEF Loop
  <1>4. /\ lp.on = loop[l].on /\ lp.retry = loop[l].retry /\ lp.beat = loop[l].beat
        /\ lp.ans = loop[l].ans /\ lp.doubled = loop[l].doubled
    BY <1>1, <1>2 DEF Loop
  <1>5. Settled(lp) /\ (lp.on => loop[l].on) /\ (lp.beat = "sync" => AnsOK(lp.ans))
    BY <1>2, <1>4 DEF Settled, QuietOK
  <1>6. Send(p, l, lp)
    BY <1>1 DEF Watch
  <1>7. QED
    BY <1>3, <1>4, <1>5, <1>6, SendKeeps, ZenonT(60)

LEMMA RetryFiresKeeps ==
  ASSUME IInv, NEW p \in Posts, NEW l \in Loops, RetryFires(p, l)
  PROVE  IInv'
  <1>1. loop[l] \in Loop /\ Settled(loop[l]) /\ QuietOK(l)
    BY LoopSettled
  <1>2. CASE loop[l].retry /\ Send(p, l, [loop[l] EXCEPT !.retry = FALSE, !.sent = TRUE])
    <2>1. PICK lp : lp = [loop[l] EXCEPT !.retry = FALSE, !.sent = TRUE]
      OBVIOUS
    <2>2. lp \in Loop
      BY <1>1, <2>1, ZenonT(60) DEF Loop
    <2>3. /\ lp.on = loop[l].on /\ lp.retry = FALSE /\ lp.beat = loop[l].beat
          /\ lp.ans = loop[l].ans /\ lp.doubled = loop[l].doubled
      BY <1>1, <2>1 DEF Loop
    <2>4. Settled(lp) /\ (lp.on => loop[l].on) /\ (lp.beat = "sync" => AnsOK(lp.ans))
      BY <1>1, <2>3 DEF Settled, QuietOK
    <2>5. Send(p, l, lp)
      BY <1>2, <2>1
    <2>6. QED
      BY <2>2, <2>3, <2>4, <2>5, SendKeeps, ZenonT(60)
  <1>3. CASE loop[l].stray > 0 /\ Send(p, l, [loop[l] EXCEPT !.stray = loop[l].stray - 1, !.sent = TRUE])
    <2>0. PICK s : s = loop[l].stray - 1
      BY ZenonT(60)
    <2>1. PICK lp : s = loop[l].stray - 1 /\ lp = [loop[l] EXCEPT !.stray = s, !.sent = TRUE]
      BY <2>0, ZenonT(60)
    <2>2. s \in Nat
      BY <1>1, <1>3, <2>1 DEF Loop
    <2>3. lp \in Loop
      BY <1>1, <2>1, <2>2, ZenonT(60) DEF Loop
    <2>4. /\ lp.on = loop[l].on /\ lp.retry = loop[l].retry /\ lp.beat = loop[l].beat
          /\ lp.ans = loop[l].ans /\ lp.doubled = loop[l].doubled
      BY <1>1, <2>1 DEF Loop
    <2>5. Settled(lp) /\ (lp.on => loop[l].on) /\ (lp.beat = "sync" => AnsOK(lp.ans))
      BY <1>1, <2>4 DEF Settled, QuietOK
    <2>6. Send(p, l, lp)
      BY <1>3, <2>1
    <2>7. QED
      BY <2>3, <2>4, <2>5, <2>6, SendKeeps, ZenonT(60)
  <1>4. QED
    BY <1>2, <1>3 DEF RetryFires

LEMMA AskStateKeeps ==
  ASSUME IInv, NEW l \in Loops, loop[l].beat \in {"set", "read"}, AskState(l)
  PROVE  IInv'
  <1>1. loop[l] \in Loop /\ Settled(loop[l]) /\ QuietOK(l)
    BY LoopSettled
  <1>2. UNCHANGED <<page, agreed, post, call, seen, late, crossed>>
    BY DEF AskState
  <1>3. PICK way \in Ways(server) :
          Take(way) /\ loop' = [loop EXCEPT ![l].beat = "sync", ![l].ans = way[2]]
    BY ZenonT(60) DEF AskState
  <1>4. PICK n : n = [loop[l] EXCEPT !.beat = "sync", !.ans = way[2]]
    OBVIOUS
  <1>5. loop' = [loop EXCEPT ![l] = n]
    <2>1. PICK m : m = [loop[l] EXCEPT !.beat = "sync"]
      BY ZenonT(60)
    <2>2. [loop EXCEPT ![l] = m][l] = m
      BY DEF IInv
    <2>3. n = [m EXCEPT !.ans = way[2]]
      BY <1>4, <2>1, ZenonT(60)
    <2>4. loop' = [[loop EXCEPT ![l] = m] EXCEPT ![l] = n]
      BY <1>3, <2>1, <2>2, <2>3, ZenonT(60)
    <2>5. DOMAIN loop = Loops
      BY DEF IInv
    <2>6. PICK f : f = [loop EXCEPT ![l] = m]
      BY ZenonT(60)
    <2>7. f = [x \in Loops |-> IF x = l THEN m ELSE loop[x]]
      BY <2>5, <2>6, ZenonT(60)
    <2>8. [f EXCEPT ![l] = n] = [x \in Loops |-> IF x = l THEN n ELSE loop[x]]
      BY <2>7
    <2>9. [loop EXCEPT ![l] = n] = [x \in Loops |-> IF x = l THEN n ELSE loop[x]]
      BY <2>5, ZenonT(60)
    <2>10. QED
      BY <2>4, <2>6, <2>8, <2>9, ZenonT(60)
  <1>6. Same(server) /\ late \in BOOLEAN /\ late' \in BOOLEAN /\ late' = late
    BY <1>2, SameSelf, ZenonT(60) DEF IInv, RestOK
  <1>7. UNCHANGED <<agreed, seen, crossed>>
    BY <1>2
  <1>8. ServerOK' /\ RestOK' /\ ShownOK' /\ AnsOK(way[2])
    BY <1>3, <1>6, <1>7, QuietCall, ZenonT(60)
  <1>9. n \in Loop
    <2>1. way[2] \in Answer \cup {Nil}
      BY <1>8 DEF AnsOK
    <2>2. QED
      BY <1>1, <1>4, <2>1, ZenonT(60) DEF Loop
  <1>10. /\ n.on = loop[l].on /\ n.retry = loop[l].retry /\ n.stray = loop[l].stray
         /\ n.beat = "sync" /\ n.ans = way[2] /\ n.doubled = loop[l].doubled
    BY <1>1, <1>4 DEF Loop
  <1>11. post' \in [Posts -> InFlight] /\ (\A p \in Posts : PostOK(p)') /\ \A x \in Loops : UnderWay(x)' = UnderWay(x)
    BY <1>2, PostsStay
  <1>12. call' \in [Keys -> Call] /\ \A k \in Keys : CallOK(k)'
    BY <1>2, CallsStay
  <1>13. QuietOK(l)'
    <2>1. loop'[l] = n /\ UnderWay(l)' = UnderWay(l)
      BY <1>5, <1>11 DEF IInv
    <2>2. QED
      BY <1>1, <1>8, <1>10, <2>1, ZenonT(60) DEF QuietOK, Settled, AnsOK
  <1>14. page' \in Page /\ page'.loop = page.loop /\ late' = late /\ (n.on => loop[l].on)
    BY <1>2, <1>6, <1>10 DEF IInv
  <1>15. \A x \in Loops \ {l} : UnderWay(x)' \subseteq UnderWay(x)
    BY <1>11
  <1>16. loop' \in [Loops -> Loop] /\ \A x \in Loops : QuietOK(x)' /\ OwnedOK(x)'
    BY <1>5, <1>9, <1>13, <1>14, <1>15, LoopChanges, ZenonT(60)
  <1>17. QED
    BY <1>8, <1>11, <1>12, <1>14, <1>16 DEF IInv

(* A loop that turns by itself follows what it was.                        *)
LEMMA LoopTurns ==
  ASSUME IInv, NEW l \in Loops, NEW n, Follows(loop[l], n), loop' = [loop EXCEPT ![l] = n],
         UNCHANGED <<server, page, agreed, post, call, faults, seen, late, crossed>>
  PROVE  IInv'
  <1>1. post' \in [Posts -> InFlight] /\ (\A q \in Posts : PostOK(q)') /\ \A x \in Loops : UnderWay(x)' = UnderWay(x)
    BY PostsStay
  <1>2. call' \in [Keys -> Call] /\ \A k \in Keys : CallOK(k)'
    BY CallsStay
  <1>3. late' \in BOOLEAN /\ page' \in Page /\ page'.loop = page.loop /\ late' = late
    BY ZenonT(60) DEF IInv, RestOK
  <1>4. UnderWay(l)' \subseteq UnderWay(l)
    BY <1>1
  <1>5. QuietOK(l)'
    BY <1>4, FollowerIsQuiet, ZenonT(60)
  <1>6. n \in Loop /\ (n.on => loop[l].on)
    BY DEF Follows
  <1>7. \A x \in Loops \ {l} : UnderWay(x)' \subseteq UnderWay(x)
    BY <1>1
  <1>8. loop' \in [Loops -> Loop] /\ \A x \in Loops : QuietOK(x)' /\ OwnedOK(x)'
    BY <1>3, <1>5, <1>6, <1>7, LoopChanges, ZenonT(60)
  <1>9. UNCHANGED <<server, agreed, faults, seen, crossed>>
    OBVIOUS
  <1>10. ServerOK' /\ RestOK' /\ ShownOK'
    BY <1>3, <1>9, RestStays, ZenonT(60)
  <1>11. QED
    BY <1>1, <1>2, <1>3, <1>8, <1>10 DEF IInv

LEMMA BeatKeeps ==
  ASSUME IInv, NEW l \in Loops, Beat(l)
  PROVE  IInv'
  <1>1. loop[l] \in Loop /\ Settled(loop[l]) /\ QuietOK(l) /\ loop[l].beat = "set"
    BY LoopSettled DEF Beat
  <1>2. PICK n : n = Rebeat(loop[l])
    OBVIOUS
  <1>3. Follows(loop[l], n)
    BY <1>1, <1>2, RebeatFollows
  <1>4. PICK m : m = [loop[l] EXCEPT !.beat = "read"]
    BY ZenonT(60)
  <1>5. Follows(loop[l], m)
    <2>1. m \in Loop
      BY <1>1, <1>4, ZenonT(60) DEF Loop
    <2>2. /\ m.on = loop[l].on /\ m.retry = loop[l].retry /\ m.stray = loop[l].stray
          /\ m.doubled = loop[l].doubled /\ m.beat = "read"
      BY <1>1, <1>4 DEF Loop
    <2>3. QED
      BY <1>1, <2>1, <2>2 DEF Follows, Settled
  <1>6. CASE loop[l].idle
    <2>1. AskState(l)
      BY <1>6 DEF Beat
    <2>2. QED
      BY <1>1, <2>1, AskStateKeeps, ZenonT(60)
  <1>7. CASE ~loop[l].idle
    <2>1. UNCHANGED <<server, page, agreed, post, call, faults, seen, late, crossed>>
      BY <1>7, ZenonT(60) DEF Beat
    <2>2. loop' = [loop EXCEPT ![l] = IF loop[l].sent THEN n ELSE m]
      BY <1>2, <1>4, <1>7, ZenonT(60) DEF Beat
    <2>3. CASE loop[l].sent
      <3>1. loop' = [loop EXCEPT ![l] = n]
        BY <2>2, <2>3, ZenonT(60)
      <3>2. QED
        BY <1>3, <2>1, <3>1, LoopTurns, ZenonT(60)
    <2>4. CASE ~loop[l].sent
      <3>1. loop' = [loop EXCEPT ![l] = m]
        BY <2>2, <2>4, ZenonT(60)
      <3>2. QED
        BY <1>5, <2>1, <3>1, LoopTurns, ZenonT(60)
    <2>5. QED
      BY <2>3, <2>4
  <1>8. QED
    BY <1>6, <1>7

LEMMA ReadingKeeps ==
  ASSUME IInv, NEW l \in Loops, ReadingFails(l) \/ \E p \in Posts : ReadingComes(p, l)
  PROVE  IInv'
  <1>1. loop[l] \in Loop /\ Settled(loop[l]) /\ QuietOK(l) /\ loop[l].beat = "read"
    BY LoopSettled DEF ReadingComes, ReadingFails
  <1>2. CASE ReadingFails(l)
    <2>1. AskState(l)
      BY <1>2 DEF ReadingFails
    <2>2. QED
      BY <1>1, <2>1, AskStateKeeps, ZenonT(60)
  <1>3. CASE \E p \in Posts : ReadingComes(p, l)
    <2>1. PICK p \in Posts : ReadingComes(p, l)
      BY <1>3
    <2>2. PICK n : n = Rebeat(loop[l])
      OBVIOUS
    <2>3. Follows(loop[l], n) /\ n.beat # "sync" /\ n.on = loop[l].on
      BY <1>1, <2>2, RebeatFollows
    <2>4. CASE Send(p, l, n)
      <3>1. n \in Loop /\ Settled(n) /\ (n.on => loop[l].on) /\ n.doubled = loop[l].doubled
        BY <2>3 DEF Follows
      <3>2. n.beat = "sync" => AnsOK(n.ans)
        BY <2>3
      <3>3. QED
        BY <2>4, <3>1, <3>2, SendKeeps, ZenonT(60)
    <2>5. CASE /\ loop' = [loop EXCEPT ![l] = n]
               /\ UNCHANGED <<server, page, agreed, post, call, faults, seen, late, crossed>>
      BY <2>3, <2>5, LoopTurns, ZenonT(60)
    <2>6. QED
      BY <2>1, <2>2, <2>4, <2>5, ZenonT(60) DEF ReadingComes
  <1>4. QED
    BY <1>2, <1>3

-----------------------------------------------------------------------------
(***************************************************************************)
(* The office, and time                                                    *)
(***************************************************************************)
LEMMA PhoneStays ==
  ASSUME IInv, UNCHANGED <<page, loop, post, call, late>>, ServerOK', RestOK', ShownOK'
  PROVE  IInv'
  <1>1. post' \in [Posts -> InFlight] /\ \A p \in Posts : PostOK(p)'
    BY PostsStay
  <1>2. call' \in [Keys -> Call] /\ \A k \in Keys : CallOK(k)'
    BY CallsStay
  <1>3. loop' \in [Loops -> Loop] /\ \A l \in Loops : QuietOK(l)' /\ OwnedOK(l)'
    BY LoopsStay
  <1>4. page' \in Page
    BY DEF IInv
  <1>5. QED
    BY <1>1, <1>2, <1>3, <1>4 DEF IInv

LEMMA OfficeKeeps ==
  ASSUME IInv, NEW s, Office(s), s \in Server, s.ack = server.ack
  PROVE  IInv'
  <1>1. UNCHANGED <<page, agreed, loop, post, call, faults, seen, late, crossed>> /\ server' = s
    BY DEF Office
  <1>2. RestOK'
    BY <1>1, ZenonT(60) DEF IInv, RestOK
  <1>3. ServerOK'
    BY <1>1 DEF ServerOK
  <1>4. ShownOK'
    BY <1>1, ZenonT(60) DEF IInv, ShownOK
  <1>5. QED
    BY <1>1, <1>2, <1>3, <1>4, PhoneStays

LEMMA OpenIncidentKeeps ==
  ASSUME IInv, NEW on \in BOOLEAN, OpenIncident(on)
  PROVE  IInv'
  <1>1. PICK next : next = server.next + 1
    BY ZenonT(60)
  <1>2. PICK inc : inc = server.next
    BY ZenonT(60)
  <1>3. PICK s : s = [server EXCEPT !.inc = inc, !.next = next, !.on = on]
    BY ZenonT(60)
  <1>4. Office(s) /\ inc \in Incidents
    BY <1>1, <1>2, <1>3, ZenonT(60) DEF OpenIncident
  <1>5. server \in Server /\ next \in Nat
    BY <1>1 DEF IInv, ServerOK, Server
  <1>6. s \in Server
    BY <1>3, <1>4, <1>5, ZenonT(60) DEF Server
  <1>7. s.ack = server.ack
    BY <1>3, <1>5 DEF Server
  <1>8. QED
    BY <1>4, <1>6, <1>7, OfficeKeeps

LEMMA CloseIncidentKeeps ==
  ASSUME IInv, CloseIncident
  PROVE  IInv'
  <1>1. server \in Server
    BY DEF IInv, ServerOK
  <1>2. PICK r : r = (server.recent \/ server.on)
    BY ZenonT(60)
  <1>3. r \in BOOLEAN
    BY <1>2
  <1>4. PICK s : s = [server EXCEPT !.inc = 0, !.recent = r, !.on = FALSE,
                              !.ver = 1, !.ack = 1, !.denied = FALSE]
    BY ZenonT(60)
  <1>5. s \in Server
    BY <1>1, <1>3, <1>4, Numbers, ZenonT(60) DEF Server
  <1>6. s.ack = 1
    BY <1>1, <1>4 DEF Server
  <1>7. server' = s /\ seen' = 0
    BY <1>2, <1>4, ZenonT(60) DEF CloseIncident
  <1>8. UNCHANGED <<page, agreed, loop, post, call, faults, late, crossed>>
    BY DEF CloseIncident
  <1>9. ServerOK' /\ ShownOK'
    BY <1>5, <1>6, <1>7 DEF ServerOK, ShownOK
  <1>10. RestOK'
    BY <1>7, <1>8, Numbers, ZenonT(60) DEF IInv, RestOK
  <1>11. QED
    BY <1>8, <1>9, <1>10, PhoneStays

LEMMA OfficeActsKeep ==
  ASSUME IInv, AddMember \/ ChangeMission
  PROVE  IInv'
  <1>1. server \in Server
    BY DEF IInv, ServerOK
  <1>2. CASE AddMember
    <2>1. PICK s : s = [server EXCEPT !.on = TRUE]
      BY ZenonT(60)
    <2>2. s \in Server
      BY <1>1, <2>1, ZenonT(60) DEF Server
    <2>3. s.ack = server.ack /\ Office(s)
      BY <1>1, <1>2, <2>1 DEF AddMember, Server
    <2>4. QED
      BY <2>2, <2>3, OfficeKeeps
  <1>3. CASE ChangeMission
    <2>1. PICK ver : ver = server.ver + 1
      BY ZenonT(60)
    <2>2. ver \in 1 .. MaxVer
      BY <1>1, <1>3, <2>1, Numbers DEF ChangeMission, Server
    <2>3. PICK s : s = [server EXCEPT !.ver = ver]
      BY ZenonT(60)
    <2>4. s \in Server
      BY <1>1, <2>2, <2>3, ZenonT(60) DEF Server
    <2>5. s.ack = server.ack
      BY <1>1, <2>3 DEF Server
    <2>6. Office(s)
      BY <1>3, <2>1, <2>3, ZenonT(60) DEF ChangeMission
    <2>7. QED
      BY <2>4, <2>5, <2>6, OfficeKeeps
  <1>4. QED
    BY <1>2, <1>3

LEMMA LapseKeeps ==
  ASSUME IInv, Lapse
  PROVE  IInv'
  <1>1. /\ UNCHANGED <<page, agreed, loop, post, call, seen, late, crossed>>
        /\ faults' = MaxFaults
    BY DEF Lapse
  <1>2. PICK s \in {[server EXCEPT !.auth = FALSE], [server EXCEPT !.recent = FALSE]} : server' = s
    BY ZenonT(60) DEF Lapse, EndSession, TwelveHours
  <1>3. Same(s)
    <2>1. server \in Server
      BY DEF IInv, ServerOK
    <2>2. CASE s = [server EXCEPT !.auth = FALSE]
      <3>1. s \in Server
        BY <2>1, <2>2, ZenonT(60) DEF Server
      <3>2. QED
        BY <2>1, <2>2, <3>1 DEF Server, Same
    <2>3. CASE s = [server EXCEPT !.recent = FALSE]
      <3>1. s \in Server
        BY <2>1, <2>3, ZenonT(60) DEF Server
      <3>2. QED
        BY <2>1, <2>3, <3>1 DEF Server, Same
    <2>4. QED
      BY <2>2, <2>3
  <1>4. RestOK'
    BY <1>1, Numbers, ZenonT(60) DEF IInv, RestOK
  <1>5. ServerOK' /\ ShownOK'
    <2>1. ServerOK /\ ShownOK /\ RestOK /\ server' \in {server, s}
      BY <1>2 DEF IInv
    <2>2. seen' \in 0 .. MaxVer /\ seen =< seen'
      BY <1>1, <2>1, Numbers DEF RestOK
    <2>3. (crossed => crossed') /\ crossed' \in BOOLEAN
      BY <1>1, <2>1, ZenonT(60) DEF RestOK
    <2>4. QED
      BY <1>3, <2>1, <2>2, <2>3, SameKeeps, ZenonT(60)
  <1>6. QED
    BY <1>1, <1>4, <1>5, PhoneStays

-----------------------------------------------------------------------------
(***************************************************************************)
(* The page's calls                                                        *)
(***************************************************************************)
LEMMA CallMade ==
  ASSUME IInv, NEW k \in Keys, NEW c \in Call, c.pc \in Kind(k), c.pc = "ack" => c.mv \in 1 .. MaxVer,
         NEW a, AnsOK(a), call' = [call EXCEPT ![k] = [c EXCEPT !.ans = a]]
  PROVE  call' \in [Keys -> Call] /\ \A x \in Keys : CallOK(x)'
  <1>1. PICK n : n = [c EXCEPT !.ans = a]
    BY ZenonT(60)
  <1>2. a \in Answer \cup {Nil}
    BY DEF AnsOK
  <1>3. n \in Call
    BY <1>1, <1>2, ZenonT(60) DEF Call
  <1>4. n.pc = c.pc /\ n.mv = c.mv /\ n.ans = a
    BY <1>1 DEF Call
  <1>5. call' \in [Keys -> Call] /\ call'[k] = n /\ \A x \in Keys \ {k} : call'[x] = call[x]
    BY <1>1, <1>3 DEF IInv
  <1>6. \A x \in Keys \ {k} : CallOK(x)'
    BY <1>5 DEF IInv, CallOK
  <1>7. CallOK(k)'
    BY <1>4, <1>5, ZenonT(60) DEF CallOK, AnsOK, Kind
  <1>8. QED
    BY <1>5, <1>6, <1>7

LEMMA CallDone ==
  ASSUME IInv, NEW k \in Keys, Done(k)
  PROVE  call' \in [Keys -> Call] /\ \A x \in Keys : CallOK(x)'
  <1>1. NoCall \in Call /\ NoCall.pc = "none"
    BY Numbers DEF NoCall, Call
  <1>2. call' \in [Keys -> Call] /\ call'[k] = NoCall /\ \A x \in Keys \ {k} : call'[x] = call[x]
    BY <1>1 DEF IInv, Done
  <1>3. \A x \in Keys \ {k} : CallOK(x)'
    BY <1>2 DEF IInv, CallOK
  <1>4. CallOK(k)'
    BY <1>1, <1>2 DEF CallOK
  <1>5. QED
    BY <1>2, <1>3, <1>4

LEMMA KindIs ==
  /\ Kind("load") = {"boot", "recheck"} /\ Kind("consent") = {"granted", "refused"}
  /\ Kind("ack") = {"me", "ack"}
  BY DEF Kind

LEMMA Kinds ==
  ASSUME NEW k \in Keys, NEW pc \in Kind(k), pc # "ack"
  PROVE  /\ [NoCall EXCEPT !.pc = pc] \in Call
         /\ [NoCall EXCEPT !.pc = pc].pc # "ack" /\ [NoCall EXCEPT !.pc = pc].pc \in Kind(k)
  <1>1. pc \in {"boot", "recheck", "granted", "refused", "me", "ack"}
    BY KindIs DEF Keys
  <1>2. QED
    BY <1>1, Numbers DEF NoCall, Call

(* A call that leaves the incident alone and the loops as they are.        *)
LEMMA MakeKeeps ==
  ASSUME IInv, NEW k \in Keys, NEW c \in Call, c.pc # "ack", c.pc \in Kind(k), NEW s, Same(s), Make(k, c, s),
         page' \in Page, page'.loop = page.loop, agreed' \subseteq Incidents,
         UNCHANGED <<loop, post, seen, late, crossed>>
  PROVE  IInv'
  <1>1. PICK way \in Ways(s) : Take(way) /\ call' = [call EXCEPT ![k] = [c EXCEPT !.ans = way[2]]]
    BY ZenonT(60) DEF Make
  <1>2. s \in Server /\ RestOK /\ ServerOK /\ ShownOK
    BY DEF IInv, Same
  <1>3. server' \in {server, s} /\ AnsOK(way[2]) /\ faults' \in Nat
    BY <1>1, <1>2, WaysTaken
  <1>4. RestOK'
    BY <1>2, <1>3, ZenonT(60) DEF RestOK
  <1>5. seen' \in 0 .. MaxVer /\ seen =< seen'
    BY <1>2, Numbers DEF RestOK
  <1>6. (crossed => crossed') /\ crossed' \in BOOLEAN
    BY <1>2, ZenonT(60) DEF RestOK
  <1>7. ServerOK' /\ ShownOK'
    BY <1>2, <1>3, <1>5, <1>6, SameKeeps, ZenonT(60)
  <1>8. call' \in [Keys -> Call] /\ \A x \in Keys : CallOK(x)'
    BY <1>1, <1>3, CallMade, ZenonT(60)
  <1>9. post' \in [Posts -> InFlight] /\ \A p \in Posts : PostOK(p)'
    BY PostsStay
  <1>10. loop' \in [Loops -> Loop] /\ \A l \in Loops : QuietOK(l)' /\ OwnedOK(l)'
    BY LoopsStay
  <1>11. QED
    BY <1>4, <1>7, <1>8, <1>9, <1>10 DEF IInv

LEMMA RecheckKeeps ==
  ASSUME IInv, Recheck
  PROVE  IInv'
  <1>1. page \in Page /\ Same(server) /\ agreed \subseteq Incidents
    BY SameSelf DEF IInv, RestOK
  <1>2. page' = [page EXCEPT !.recheck = FALSE] /\ UNCHANGED <<agreed, loop, post, seen, late, crossed>>
    BY DEF Recheck
  <1>3. page' \in Page
    BY <1>1, <1>2, ZenonT(60) DEF Page
  <1>4. page'.loop = page.loop
    BY <1>1, <1>2 DEF Page
  <1>5. Make("load", [NoCall EXCEPT !.pc = "recheck"], server) /\ "load" \in Keys
    BY DEF Recheck, Keys
  <1>6. /\ [NoCall EXCEPT !.pc = "recheck"] \in Call
        /\ [NoCall EXCEPT !.pc = "recheck"].pc # "ack" /\ [NoCall EXCEPT !.pc = "recheck"].pc \in Kind("load")
    <2>1. "recheck" \in Kind("load") /\ "recheck" # "ack"
      BY KindIs
    <2>2. "load" \in Keys
      BY DEF Keys
    <2>3. QED
      BY <2>1, <2>2, Kinds, ZenonT(60)
  <1>7. agreed' \subseteq Incidents
    BY <1>1, <1>2
  <1>8. QED
    BY <1>1, <1>2, <1>3, <1>4, <1>5, <1>6, <1>7, MakeKeeps, ZenonT(60)

LEMMA LoginKeeps ==
  ASSUME IInv, Login
  PROVE  IInv'
  <1>1. page \in Page /\ Same([server EXCEPT !.auth = TRUE]) /\ agreed \subseteq Incidents
    BY LoginSame DEF IInv, RestOK
  <1>2. UNCHANGED <<page, agreed, loop, post, seen, late, crossed>>
    BY DEF Login
  <1>3. page' \in Page /\ page'.loop = page.loop /\ agreed' \subseteq Incidents
    BY <1>1, <1>2
  <1>4. Make("load", [NoCall EXCEPT !.pc = "boot"], [server EXCEPT !.auth = TRUE]) /\ "load" \in Keys
    BY DEF Login, Keys
  <1>5. /\ [NoCall EXCEPT !.pc = "boot"] \in Call
        /\ [NoCall EXCEPT !.pc = "boot"].pc # "ack" /\ [NoCall EXCEPT !.pc = "boot"].pc \in Kind("load")
    <2>1. "boot" \in Kind("load") /\ "boot" # "ack"
      BY KindIs
    <2>2. "load" \in Keys
      BY DEF Keys
    <2>3. QED
      BY <2>1, <2>2, Kinds, ZenonT(60)
  <1>6. QED
    BY <1>1, <1>2, <1>3, <1>4, <1>5, MakeKeeps, ZenonT(60)

LEMMA AckClickKeeps ==
  ASSUME IInv, AckClick
  PROVE  IInv'
  <1>1. page \in Page /\ Same(server) /\ agreed \subseteq Incidents
    BY SameSelf DEF IInv, RestOK
  <1>2. UNCHANGED <<page, agreed, loop, post, seen, late, crossed>>
    BY DEF AckClick
  <1>3. page' \in Page /\ page'.loop = page.loop /\ agreed' \subseteq Incidents
    BY <1>1, <1>2
  <1>4. Make("ack", [NoCall EXCEPT !.pc = "me"], server) /\ "ack" \in Keys
    BY DEF AckClick, Keys
  <1>5. /\ [NoCall EXCEPT !.pc = "me"] \in Call
        /\ [NoCall EXCEPT !.pc = "me"].pc # "ack" /\ [NoCall EXCEPT !.pc = "me"].pc \in Kind("ack")
    <2>1. "me" \in Kind("ack") /\ "me" # "ack"
      BY KindIs
    <2>2. "ack" \in Keys
      BY DEF Keys
    <2>3. QED
      BY <2>1, <2>2, Kinds, ZenonT(60)
  <1>6. QED
    BY <1>1, <1>2, <1>3, <1>4, <1>5, MakeKeeps, ZenonT(60)

LEMMA ConsentKeeps ==
  ASSUME IInv, NEW granted \in BOOLEAN, Consent(granted)
  PROVE  IInv'
  <1>1. page \in Page /\ agreed \subseteq Incidents /\ page.sheet \in Incidents
    BY DEF IInv, RestOK, Consent, Page
  <1>2. /\ page' = [page EXCEPT !.sheet = 0] /\ agreed' = agreed \cup {page.sheet}
        /\ UNCHANGED <<loop, post, seen, late, crossed>>
    BY DEF Consent
  <1>3. page' \in Page
    BY <1>1, <1>2, ZenonT(60) DEF Page
  <1>4. page'.loop = page.loop /\ agreed' \subseteq Incidents
    BY <1>1, <1>2 DEF Page
  <1>5. PICK pc \in {"granted", "refused"}, s \in {server, Denied(server)} :
          Make("consent", [NoCall EXCEPT !.pc = pc], s)
    BY ZenonT(60) DEF Consent
  <1>6. Same(s) /\ "consent" \in Keys
    BY SameSelf, DeniedSame DEF IInv, Keys
  <1>7. /\ [NoCall EXCEPT !.pc = pc] \in Call
        /\ [NoCall EXCEPT !.pc = pc].pc # "ack" /\ [NoCall EXCEPT !.pc = pc].pc \in Kind("consent")
    <2>1. pc \in Kind("consent") /\ pc # "ack"
      BY KindIs
    <2>2. "consent" \in Keys
      BY DEF Keys
    <2>3. QED
      BY <2>1, <2>2, Kinds, ZenonT(60)
  <1>8. QED
    BY <1>2, <1>3, <1>4, <1>5, <1>6, <1>7, MakeKeeps, ZenonT(60)

-----------------------------------------------------------------------------
(***************************************************************************)
(* The answers to them                                                     *)
(***************************************************************************)
LEMMA NoLoopIs ==
  /\ NoLoop \in Loop /\ NoLoop.on = FALSE /\ NoLoop.retry = FALSE /\ NoLoop.stray = 0
  /\ NoLoop.beat = "off" /\ NoLoop.doubled = FALSE
  BY DEF NoLoop, Loop

LEMMA StartKeeps ==
  ASSUME IInv, NEW pg \in Page, pg.loop = page.loop, Start(pg), UNCHANGED <<post, late>>
  PROVE  page' \in Page /\ loop' \in [Loops -> Loop] /\ \A l \in Loops : QuietOK(l)' /\ OwnedOK(l)'
  <1>1. \A x \in Loops : UnderWay(x)' = UnderWay(x)
    BY PostsStay
  <1>2. CASE pg.loop # Nil
    <2>1. page' = pg /\ loop' = loop
      BY <1>2, ZenonT(60) DEF Start
    <2>2. page'.loop = page.loop
      BY <2>1
    <2>3. QED
      BY <2>1, <2>2, LoopsStay
  <1>3. CASE pg.loop = Nil
    <2>1. PICK l : l = CHOOSE x \in Loops : Fresh(x)
      BY ZenonT(60)
    <2>2. \E x \in Loops : Fresh(x)
      BY <1>3, ZenonT(60) DEF Start
    <2>3. l \in Loops /\ Fresh(l)
      BY <2>1, <2>2, ZenonT(60)
    <2>4. PICK n : n = [NoLoop EXCEPT !.on = TRUE, !.beat = "set"]
      BY ZenonT(60)
    <2>5. loop' = [loop EXCEPT ![l] = n] /\ page' = [pg EXCEPT !.loop = l]
      BY <1>3, <2>1, <2>4, ZenonT(60) DEF Start
    <2>6. n \in Loop /\ n.on = TRUE /\ n.retry = FALSE /\ n.stray = 0 /\ n.beat = "set"
      <3>1. n \in Loop
        BY <2>4, NoLoopIs, ZenonT(60) DEF Loop
      <3>2. QED
        BY <2>4, <3>1, NoLoopIs DEF Loop
    <2>7. page' \in Page
      BY <2>3, <2>5, ZenonT(60) DEF Page
    <2>8. page'.loop = l
      BY <2>5 DEF Page
    <2>9. UnderWay(l)' = {} /\ \A x \in Loops \ {l} : UnderWay(x)' \subseteq UnderWay(x)
      BY <1>1, <2>3 DEF Fresh
    <2>10. QuietOK(l)'
      <3>1. loop'[l] = n
        BY <2>3, <2>5 DEF IInv
      <3>2. QED
        BY <2>6, <2>9, <3>1 DEF QuietOK
    <2>11. page.loop = Nil /\ page'.loop = l /\ late' = late
      BY <1>3, <2>8
    <2>12. loop' \in [Loops -> Loop] /\ \A x \in Loops : QuietOK(x)' /\ OwnedOK(x)'
      BY <2>3, <2>5, <2>6, <2>9, <2>10, <2>11, LoopChanges, ZenonT(60)
    <2>13. QED
      BY <2>7, <2>12
  <1>4. QED
    BY <1>2, <1>3

LEMMA DisplayShows ==
  ASSUME RestOK, NEW a, AnsOK(a), Display(a)
  PROVE  seen' \in 0 .. MaxVer /\ seen =< seen' /\ (a.inc = server.inc => a.ver =< seen')
  <1>1. seen \in 0 .. MaxVer /\ a.ver \in 0 .. MaxVer
    BY DEF RestOK, AnsOK, Answer
  <1>2. QED
    BY <1>1, Numbers DEF Display

LEMMA ShownPage ==
  ASSUME page \in Page, NEW a, AnsOK(a), a.inc # 0
  PROVE  /\ Shown(a) \in Page /\ Shown(a).loop = page.loop
         /\ [Shown(a) EXCEPT !.sheet = a.inc] \in Page
         /\ [Shown(a) EXCEPT !.sheet = a.inc].loop = page.loop
  <1>1. a.inc \in Incidents /\ a.inc \in Incidents \cup {0} /\ a.ack \in 1 .. MaxVer
    BY Numbers DEF AnsOK, Answer
  <1>4. PICK n : n = Shown(a)
    BY ZenonT(60)
  <1>5. n = [page EXCEPT !.closed = FALSE, !.view = "main", !.recheck = FALSE,
                         !.ackVer = a.ack, !.ackOf = a.inc]
    BY <1>4 DEF Shown
  <1>6. n \in Page
    BY <1>1, <1>5, ZenonT(60) DEF Page
  <1>7. n.loop = page.loop
    BY <1>5 DEF Page
  <1>8. [n EXCEPT !.sheet = a.inc] \in Page
    BY <1>1, <1>6, ZenonT(60) DEF Page
  <1>9. [n EXCEPT !.sheet = a.inc].loop = page.loop
    BY <1>6, <1>7 DEF Page
  <1>10. QED
    BY <1>4, <1>6, <1>7, <1>8, <1>9

LEMMA IdledPage ==
  ASSUME page \in Page, NEW a
  PROVE  Idled(a) \in Page /\ Idled(a).loop = page.loop
  <1>1. PICK c : c = (a.st = "CLOSED")
    BY ZenonT(60)
  <1>2. c \in BOOLEAN
    BY <1>1
  <1>3. PICK n : n = [page EXCEPT !.closed = c, !.view = "idle", !.recheck = TRUE]
    BY ZenonT(60)
  <1>4. Idled(a) = n
    BY <1>1, <1>3 DEF Idled
  <1>5. n \in Page
    BY <1>2, <1>3, ZenonT(60) DEF Page
  <1>6. n.loop = page.loop
    BY <1>3 DEF Page
  <1>7. QED
    BY <1>4, <1>5, <1>6

LEMMA LoadMeKeeps ==
  ASSUME IInv, NEW a, AnsOK(a), LoadMe(a), UNCHANGED <<post, late>>
  PROVE  /\ page' \in Page /\ seen' \in 0 .. MaxVer /\ seen =< seen'
         /\ loop' \in [Loops -> Loop] /\ \A l \in Loops : QuietOK(l)' /\ OwnedOK(l)'
  <1>1. page \in Page /\ RestOK
    BY DEF IInv
  <1>2. CASE a.inc = 0
    <2>1. page' = Idled(a) /\ UNCHANGED <<loop, seen>>
      BY <1>2, ZenonT(60) DEF LoadMe
    <2>2. page' \in Page /\ page'.loop = page.loop
      BY <1>1, <2>1, IdledPage
    <2>3. seen' \in 0 .. MaxVer /\ seen =< seen'
      BY <1>1, <2>1, Numbers DEF RestOK
    <2>4. QED
      BY <2>1, <2>2, <2>3, LoopsStay
  <1>3. CASE a.inc # 0
    <2>1. Display(a)
      BY <1>3, ZenonT(60) DEF LoadMe
    <2>2. seen' \in 0 .. MaxVer /\ seen =< seen'
      BY <1>1, <2>1, DisplayShows
    <2>3. /\ Shown(a) \in Page /\ Shown(a).loop = page.loop
          /\ [Shown(a) EXCEPT !.sheet = a.inc] \in Page
          /\ [Shown(a) EXCEPT !.sheet = a.inc].loop = page.loop
      BY <1>1, <1>3, ShownPage
    <2>4. \/ page' \in {Shown(a), [Shown(a) EXCEPT !.sheet = a.inc]} /\ UNCHANGED loop
          \/ Start(Shown(a))
      BY <1>3, ZenonT(60) DEF LoadMe
    <2>5. CASE page' \in {Shown(a), [Shown(a) EXCEPT !.sheet = a.inc]} /\ UNCHANGED loop
      <3>1. page' \in Page /\ page'.loop = page.loop
        BY <2>3, <2>5, ZenonT(60)
      <3>2. QED
        BY <2>2, <2>5, <3>1, LoopsStay
    <2>6. CASE Start(Shown(a))
      <3>1. page' \in Page /\ loop' \in [Loops -> Loop] /\ \A l \in Loops : QuietOK(l)' /\ OwnedOK(l)'
        BY <2>3, <2>6, StartKeeps, ZenonT(60)
      <3>2. QED
        BY <2>2, <3>1
    <2>7. QED
      BY <2>4, <2>5, <2>6
  <1>4. QED
    BY <1>2, <1>3

LEMMA LoadArrivesKeeps ==
  ASSUME IInv, LoadArrives
  PROVE  IInv'
  <1>1. PICK a : a = call["load"].ans
    BY ZenonT(60)
  <1>2. page \in Page /\ RestOK /\ ServerOK /\ ShownOK
    BY DEF IInv
  <1>3. Waits("load") /\ Done("load") /\ UNCHANGED <<server, agreed, post, faults, late, crossed>>
    BY ZenonT(60) DEF LoadArrives
  <1>4. AnsOK(a) /\ "load" \in Keys
    BY <1>1, <1>3 DEF IInv, CallOK, Waits, Keys
  <1>5. call' \in [Keys -> Call] /\ \A k \in Keys : CallOK(k)'
    BY <1>3, <1>4, CallDone
  <1>6. \/ page' \in {page, [page EXCEPT !.view = "login"], [page EXCEPT !.recheck = TRUE]} /\ UNCHANGED <<loop, seen>>
        \/ LoadMe(a)
    <2>1. CASE a.st = "401"
      BY <1>1, <2>1, ZenonT(60) DEF LoadArrives, Sts
    <2>2. CASE a.st = "fail"
      BY <1>1, <2>2, ZenonT(60) DEF LoadArrives, Sts
    <2>3. CASE a.st \in Sts
      <3>1. a.st # "401" /\ a.st # "fail"
        BY <2>3 DEF Sts
      <3>2. QED
        BY <1>1, <2>3, <3>1, ZenonT(60) DEF LoadArrives
    <2>4. QED
      BY <1>4, <2>1, <2>2, <2>3 DEF AnsOK, Answer
  <1>7. /\ page' \in Page /\ seen' \in 0 .. MaxVer /\ seen =< seen'
        /\ loop' \in [Loops -> Loop] /\ \A l \in Loops : QuietOK(l)' /\ OwnedOK(l)'
    <2>1. CASE /\ page' \in {page, [page EXCEPT !.view = "login"], [page EXCEPT !.recheck = TRUE]}
               /\ UNCHANGED <<loop, seen>>
      <3>1. page' \in Page
        BY <1>2, <2>1, PageMembers, ZenonT(60)
      <3>2. page'.loop = page.loop
        BY <1>2, <2>1 DEF Page
      <3>3. seen' \in 0 .. MaxVer /\ seen =< seen'
        BY <1>2, <2>1, Numbers DEF RestOK
      <3>4. QED
        BY <1>3, <2>1, <3>1, <3>2, <3>3, LoopsStay
    <2>2. CASE LoadMe(a)
      BY <1>3, <1>4, <2>2, LoadMeKeeps, ZenonT(60)
    <2>3. QED
      BY <1>6, <2>1, <2>2
  <1>8. post' \in [Posts -> InFlight] /\ \A p \in Posts : PostOK(p)'
    BY <1>3, PostsStay
  <1>9. (crossed => crossed') /\ crossed' \in BOOLEAN
    BY <1>2, <1>3, ZenonT(60) DEF RestOK
  <1>10. Same(server) /\ server' \in {server, server}
    BY <1>2, <1>3, SameSelf
  <1>11. ServerOK' /\ ShownOK'
    BY <1>2, <1>7, <1>9, <1>10, SameKeeps, ZenonT(60)
  <1>12. RestOK'
    BY <1>2, <1>3, <1>7, ZenonT(60) DEF RestOK
  <1>13. QED
    BY <1>5, <1>7, <1>8, <1>11, <1>12 DEF IInv

LEMMA ConsentArrivesKeeps ==
  ASSUME IInv, ConsentArrives
  PROVE  IInv'
  <1>1. PICK a : a = call["consent"].ans
    BY ZenonT(60)
  <1>2. page \in Page /\ late \in BOOLEAN
    BY DEF IInv, RestOK
  <1>3. Waits("consent") /\ Done("consent") /\ UNCHANGED <<server, agreed, post, faults, seen, late, crossed>>
    BY ZenonT(60) DEF ConsentArrives
  <1>4. "consent" \in Keys /\ AnsOK(a) /\ call["consent"].pc \in {"granted", "refused"}
    BY <1>1, <1>3, KindIs DEF IInv, CallOK, Waits, Keys
  <1>5. call' \in [Keys -> Call] /\ \A k \in Keys : CallOK(k)'
    BY <1>3, <1>4, CallDone
  <1>6. post' \in [Posts -> InFlight] /\ \A p \in Posts : PostOK(p)'
    BY <1>3, PostsStay
  <1>7. ServerOK' /\ RestOK' /\ ShownOK'
    <2>1. UNCHANGED <<server, agreed, faults, seen, crossed>> /\ late' \in BOOLEAN
      BY <1>2, <1>3, ZenonT(60)
    <2>2. QED
      BY <2>1, RestStays
  <1>8. \/ UNCHANGED <<page, loop>>
        \/ Start(page)
        \/ page' = [page EXCEPT !.closed = FALSE] /\ UNCHANGED loop
    <2>1. a.st \in {"401", "fail"} \cup Sts /\ (a.st \in Sts => a.st \notin {"401", "fail"})
      BY <1>4 DEF AnsOK, Answer, Sts
    <2>2. CASE a.st \in {"401", "fail"}
      <3>1. a.st \notin Sts
        BY <2>1, <2>2
      <3>2. QED
        BY <1>1, <2>2, <3>1, ZenonT(60) DEF ConsentArrives
    <2>3. CASE a.st \in Sts /\ call["consent"].pc = "granted"
      BY <1>1, <2>1, <2>3, ZenonT(60) DEF ConsentArrives
    <2>4. CASE a.st \in Sts /\ call["consent"].pc = "refused"
      BY <1>1, <2>1, <2>4, ZenonT(60) DEF ConsentArrives
    <2>5. QED
      BY <1>4, <2>1, <2>2, <2>3, <2>4
  <1>9. page' \in Page /\ loop' \in [Loops -> Loop] /\ \A l \in Loops : QuietOK(l)' /\ OwnedOK(l)'
    <2>1. CASE UNCHANGED <<page, loop>>
      BY <1>2, <1>3, <2>1, LoopsStay
    <2>2. CASE Start(page)
      BY <1>2, <1>3, <2>2, StartKeeps, ZenonT(60)
    <2>3. CASE page' = [page EXCEPT !.closed = FALSE] /\ UNCHANGED loop
      <3>1. page' \in Page
        BY <1>2, <2>3, PageMembers, ZenonT(60)
      <3>2. page'.loop = page.loop
        BY <1>2, <2>3 DEF Page
      <3>3. QED
        BY <1>3, <2>3, <3>1, <3>2, LoopsStay
    <2>4. QED
      BY <1>8, <2>1, <2>2, <2>3
  <1>10. QED
    BY <1>5, <1>6, <1>7, <1>9 DEF IInv

LEMMA AckedServer ==
  ASSUME ServerOK, NEW v \in 1 .. MaxVer
  PROVE  /\ Acked(server, v) \in Server /\ Acked(server, v).inc = server.inc
         /\ Acked(server, v).ver = server.ver
         /\ Acked(server, v).ack \in {server.ack, v}
  <1>1. PICK s : s = [server EXCEPT !.ack = v]
    BY ZenonT(60)
  <1>2. s \in Server
    BY <1>1, ZenonT(60) DEF ServerOK, Server
  <1>3. s.inc = server.inc /\ s.ver = server.ver /\ s.ack = v
    BY <1>1 DEF ServerOK, Server
  <1>4. Acked(server, v) \in {s, server}
    BY <1>1 DEF Acked
  <1>5. QED
    BY <1>2, <1>3, <1>4 DEF ServerOK

LEMMA AckFetchedKeeps ==
  ASSUME IInv, AckFetched
  PROVE  IInv'
  <1>1. PICK a : a = call["ack"].ans
    BY ZenonT(60)
  <1>2. page \in Page /\ RestOK /\ ServerOK /\ ShownOK /\ late \in BOOLEAN
    BY DEF IInv, RestOK
  <1>3. call["ack"].pc = "me" /\ UNCHANGED <<page, agreed, loop, post, late>>
    BY DEF AckFetched
  <1>4. "ack" \in Keys /\ AnsOK(a)
    BY <1>1, <1>3 DEF IInv, CallOK, Keys
  <1>5. post' \in [Posts -> InFlight] /\ \A p \in Posts : PostOK(p)'
    BY <1>3, PostsStay
  <1>6. page' \in Page /\ loop' \in [Loops -> Loop] /\ \A l \in Loops : QuietOK(l)' /\ OwnedOK(l)'
    BY <1>2, <1>3, LoopsStay
  <1>7. CASE a.inc = 0
    <2>1. Done("ack") /\ UNCHANGED <<server, faults, seen, crossed>>
      BY <1>1, <1>7, ZenonT(60) DEF AckFetched
    <2>2. call' \in [Keys -> Call] /\ \A k \in Keys : CallOK(k)'
      BY <1>4, <2>1, CallDone
    <2>3. UNCHANGED <<server, agreed, faults, seen, crossed>> /\ late' \in BOOLEAN
      BY <1>2, <1>3, <2>1, ZenonT(60)
    <2>4. ServerOK' /\ RestOK' /\ ShownOK'
      BY <2>3, RestStays
    <2>5. QED
      BY <1>5, <1>6, <2>2, <2>4 DEF IInv
  <1>8. CASE a.inc # 0
    <2>1. PICK s : s = Acked(server, a.ver)
      BY ZenonT(60)
    <2>2. PICK c : c = [pc |-> "ack", mv |-> a.ver, ans |-> Nil]
      BY ZenonT(60)
    <2>3. Display(a) /\ Make("ack", c, s) /\ crossed' = (crossed \/ a.inc # server.inc)
      BY <1>1, <1>8, <2>1, <2>2, ZenonT(60) DEF AckFetched
    <2>4. a.ver \in 1 .. MaxVer /\ a.ver \in 0 .. MaxVer
      BY <1>4, <1>8, Numbers DEF AnsOK, Answer
    <2>5. seen' \in 0 .. MaxVer /\ seen =< seen' /\ (a.inc = server.inc => a.ver =< seen')
      BY <1>2, <1>4, <2>3, DisplayShows
    <2>6. s \in Server /\ s.ack \in {server.ack, a.ver}
      BY <1>2, <2>1, <2>4, AckedServer
    <2>7. PICK way \in Ways(s) : Take(way) /\ call' = [call EXCEPT !["ack"] = [c EXCEPT !.ans = way[2]]]
      BY <2>3, ZenonT(60) DEF Make
    <2>8. server' \in {server, s} /\ AnsOK(way[2]) /\ faults' \in Nat
      BY <1>2, <2>6, <2>7, WaysTaken
    <2>9. c \in Call /\ c.pc = "ack" /\ c.mv \in 1 .. MaxVer
      BY <2>2, <2>4 DEF Call
    <2>10. c.pc \in Kind("ack") /\ (c.pc = "ack" => c.mv \in 1 .. MaxVer)
      BY <2>9, KindIs
    <2>11. call' \in [Keys -> Call] /\ \A k \in Keys : CallOK(k)'
      BY <1>4, <2>7, <2>8, <2>9, <2>10, CallMade, ZenonT(60)
    <2>12. crossed \in BOOLEAN /\ crossed' \in BOOLEAN /\ (~crossed' => ~crossed /\ a.inc = server.inc)
      BY <1>2, <2>3, ZenonT(60) DEF RestOK
    <2>13. RestOK'
      BY <1>2, <1>3, <2>5, <2>8, <2>12, ZenonT(60) DEF RestOK
    <2>14. server' \in Server /\ server'.ack \in {server.ack, a.ver}
      BY <1>2, <2>6, <2>8 DEF ServerOK
    <2>15. ServerOK'
      BY <2>14 DEF ServerOK
    <2>16. ShownOK'
      <3> SUFFICES ASSUME ~crossed' PROVE server'.ack =< 1 \/ server'.ack =< seen'
        BY DEF ShownOK
      <3>1. ~crossed /\ a.inc = server.inc
        BY <2>12, ZenonT(60)
      <3>2. server.ack =< 1 \/ server.ack =< seen
        BY <1>2, <3>1 DEF ShownOK
      <3>3. seen \in Nat /\ seen' \in Nat /\ server.ack \in Nat
        BY <1>2, <2>5, Numbers DEF RestOK, ServerOK, Server
      <3>4. QED
        BY <2>5, <2>14, <3>1, <3>2, <3>3
    <2>17. QED
      BY <1>5, <1>6, <2>11, <2>13, <2>15, <2>16 DEF IInv
  <1>9. QED
    BY <1>7, <1>8

LEMMA AckArrivesKeeps ==
  ASSUME IInv, AckArrives
  PROVE  IInv'
  <1>1. PICK v, o : v = call["ack"].mv /\ o = call["ack"].ans.inc
    BY ZenonT(60)
  <1>2. page \in Page /\ late \in BOOLEAN
    BY DEF IInv, RestOK
  <1>3. PICK n : n = [page EXCEPT !.ackVer = v, !.ackOf = o, !.modal = FALSE]
    BY ZenonT(60)
  <1>4. /\ call["ack"].pc = "ack" /\ Done("ack")
        /\ UNCHANGED <<server, agreed, loop, post, faults, seen, late, crossed>>
        /\ page' \in {page, n}
    BY <1>1, <1>3 DEF AckArrives
  <1>5. "ack" \in Keys /\ v \in 1 .. MaxVer /\ o \in Incidents \cup {0}
    <2>1. "ack" \in Keys /\ CallOK("ack")
      BY DEF IInv, Keys
    <2>2. v \in 1 .. MaxVer /\ AnsOK(call["ack"].ans)
      BY <1>1, <1>4, <2>1 DEF CallOK
    <2>3. QED
      BY <1>1, <2>1, <2>2 DEF AnsOK, Answer
  <1>6. n \in Page
    BY <1>2, <1>3, <1>5, ZenonT(60) DEF Page
  <1>7. n.loop = page.loop
    BY <1>2, <1>3 DEF Page
  <1>8. page' \in Page /\ page'.loop = page.loop
    BY <1>2, <1>4, <1>6, <1>7, ZenonT(60)
  <1>9. call' \in [Keys -> Call] /\ \A k \in Keys : CallOK(k)'
    BY <1>4, <1>5, CallDone
  <1>10. post' \in [Posts -> InFlight] /\ \A p \in Posts : PostOK(p)'
    BY <1>4, PostsStay
  <1>11. loop' \in [Loops -> Loop] /\ \A l \in Loops : QuietOK(l)' /\ OwnedOK(l)'
    BY <1>4, <1>8, LoopsStay
  <1>12. UNCHANGED <<server, agreed, faults, seen, crossed>> /\ late' \in BOOLEAN
    BY <1>2, <1>4, ZenonT(60)
  <1>13. ServerOK' /\ RestOK' /\ ShownOK'
    BY <1>12, RestStays
  <1>14. QED
    BY <1>8, <1>9, <1>10, <1>11, <1>13 DEF IInv

-----------------------------------------------------------------------------
(***************************************************************************)
(* A page that has just been loaded                                        *)
(***************************************************************************)
LEMMA FirstCalls ==
  ASSUME NEW s \in Server, NEW cs, cs = [NoCalls EXCEPT !["load"] = [NoCall EXCEPT !.pc = "boot", !.ans = Reply(s)]]
  PROVE  /\ cs \in [Keys -> Call]
         /\ \A k \in Keys : (cs[k].pc # "none" => cs[k].pc \in Kind(k) /\ AnsOK(cs[k].ans)) /\ cs[k].pc # "ack"
  <1>1. PICK a : a = Reply(s)
    BY ZenonT(60)
  <1>2. AnsOK(a) /\ a \in Answer \cup {Nil}
    BY <1>1, ReplyOK DEF AnsOK
  <1>3. PICK n : n = [NoCall EXCEPT !.pc = "boot", !.ans = a]
    BY ZenonT(60)
  <1>4. NoCall \in Call /\ NoCall.pc = "none"
    BY Numbers DEF NoCall, Call
  <1>5. n \in Call
    BY <1>2, <1>3, <1>4, ZenonT(60) DEF Call
  <1>6. n.pc = "boot" /\ n.ans = a
    BY <1>3, <1>4 DEF Call
  <1>7. cs = [NoCalls EXCEPT !["load"] = n]
    BY <1>1, <1>3
  <1>8. cs["load"] = n /\ cs \in [Keys -> Call] /\ \A k \in Keys \ {"load"} : cs[k] = NoCall
    BY <1>4, <1>5, <1>7 DEF NoCalls, Keys
  <1>9. \A k \in Keys : k = "load" \/ k # "load"
    OBVIOUS
  <1>10. QED
    BY <1>2, <1>4, <1>6, <1>8, <1>9, KindIs, ZenonT(60)

LEMMA NewPageIs == NewPage \in Page /\ NewPage.loop = Nil
  BY Numbers DEF NewPage, Page

LEMMA FirstLoops ==
  ASSUME NEW ls, ls = [l \in Loops |-> NoLoop], NEW ps, ps = [p \in Posts |-> Nil]
  PROVE  /\ ls \in [Loops -> Loop] /\ ps \in [Posts -> InFlight]
         /\ (\A l \in Loops : ls[l] = NoLoop) /\ \A p \in Posts : ps[p] = Nil
  BY NoLoopIs DEF InFlight

LEMMA ReloadKeeps ==
  ASSUME IInv, Reload
  PROVE  IInv'
  <1>1. /\ page' = NewPage /\ faults' = MaxFaults
        /\ loop' = [l \in Loops |-> NoLoop] /\ post' = [p \in Posts |-> Nil]
        /\ call' = [NoCalls EXCEPT !["load"] = [NoCall EXCEPT !.pc = "boot", !.ans = Reply(server)]]
        /\ UNCHANGED <<server, agreed, seen, late, crossed>>
    BY DEF Reload
  <1>2. ServerOK /\ server \in Server /\ RestOK /\ ShownOK
    BY DEF IInv, ServerOK
  <1>3. ServerOK' /\ ShownOK'
    BY <1>1, <1>2, ZenonT(60) DEF ServerOK, ShownOK
  <1>4. RestOK'
    BY <1>1, <1>2, Numbers, ZenonT(60) DEF RestOK
  <1>5. page' \in Page
    BY <1>1, NewPageIs
  <1>6. /\ loop' \in [Loops -> Loop] /\ post' \in [Posts -> InFlight]
        /\ (\A l \in Loops : loop'[l] = NoLoop) /\ \A p \in Posts : post'[p] = Nil
    BY <1>1, FirstLoops
  <1>7. /\ call' \in [Keys -> Call]
        /\ \A k \in Keys : (call'[k].pc # "none" => call'[k].pc \in Kind(k) /\ AnsOK(call'[k].ans)) /\ call'[k].pc # "ack"
    BY <1>1, <1>2, FirstCalls, ZenonT(60)
  <1>8. \A k \in Keys : CallOK(k)'
    BY <1>7, ZenonT(60) DEF CallOK, AnsOK, Kind
  <1>9. (\A p \in Posts : PostOK(p)') /\ \A l \in Loops : UnderWay(l)' = {}
    BY <1>6 DEF PostOK, UnderWay
  <1>10. \A l \in Loops : QuietOK(l)' /\ OwnedOK(l)'
    BY <1>6, <1>9, NoLoopIs DEF QuietOK, OwnedOK
  <1>11. QED
    BY <1>3, <1>4, <1>5, <1>6, <1>7, <1>8, <1>9, <1>10 DEF IInv

LEMMA InitOK == Init => IInv
  <1> SUFFICES ASSUME Init PROVE IInv
    OBVIOUS
  <1>1. PICK auth \in BOOLEAN :
          server = [inc |-> 0, next |-> 1, on |-> FALSE, ver |-> 1, ack |-> 1,
                    denied |-> FALSE, recent |-> FALSE, auth |-> auth]
    BY ZenonT(60) DEF Init
  <1>2. server \in Server /\ server.ack = 1
    BY <1>1, Numbers DEF Server
  <1>3. ServerOK /\ ShownOK
    BY <1>2, Numbers DEF ServerOK, ShownOK
  <1>4. RestOK
    <2>1. agreed = {} /\ seen = 0 /\ faults = 0 /\ late = FALSE /\ crossed = FALSE
      BY ZenonT(60) DEF Init
    <2>2. agreed \subseteq Incidents /\ seen \in 0 .. MaxVer /\ faults \in Nat
      BY <2>1, Numbers
    <2>3. QED
      BY <2>1, <2>2, ZenonT(60) DEF RestOK
  <1>5. page \in Page
    BY NewPageIs DEF Init
  <1>6. /\ loop \in [Loops -> Loop] /\ post \in [Posts -> InFlight]
        /\ (\A l \in Loops : loop[l] = NoLoop) /\ \A p \in Posts : post[p] = Nil
    BY FirstLoops DEF Init
  <1>7. /\ call \in [Keys -> Call]
        /\ \A k \in Keys : (call[k].pc # "none" => call[k].pc \in Kind(k) /\ AnsOK(call[k].ans)) /\ call[k].pc # "ack"
    <2>1. call = [NoCalls EXCEPT !["load"] = [NoCall EXCEPT !.pc = "boot", !.ans = Reply(server)]]
      BY DEF Init
    <2>2. QED
      BY <1>2, <2>1, FirstCalls, ZenonT(60)
  <1>8. \A k \in Keys : CallOK(k)
    BY <1>7, ZenonT(60) DEF CallOK
  <1>9. (\A p \in Posts : PostOK(p)) /\ \A l \in Loops : UnderWay(l) = {}
    BY <1>6 DEF PostOK, UnderWay
  <1>10. \A l \in Loops : QuietOK(l) /\ OwnedOK(l)
    BY <1>6, <1>9, NoLoopIs DEF QuietOK, OwnedOK
  <1>11. QED
    BY <1>3, <1>4, <1>5, <1>6, <1>7, <1>8, <1>9, <1>10 DEF IInv

LEMMA StutterOK == ASSUME IInv, UNCHANGED vars PROVE IInv'
  <1>1. UNCHANGED <<page, loop, post, call, late>> /\ UNCHANGED <<server, agreed, faults, seen, crossed>>
    BY DEF vars
  <1>2. late' \in BOOLEAN
    BY <1>1, ZenonT(60) DEF IInv, RestOK
  <1>3. ServerOK' /\ RestOK' /\ ShownOK'
    BY <1>1, <1>2, RestStays
  <1>4. QED
    BY <1>1, <1>3, PhoneStays

LEMMA StepOK == IInv /\ [Next]_vars => IInv'
  <1> SUFFICES ASSUME IInv, [Next]_vars PROVE IInv'
    OBVIOUS
  <1>1. ASSUME NEW on \in BOOLEAN, OpenIncident(on) PROVE IInv'
    BY <1>1, OpenIncidentKeeps
  <1>2. CASE AddMember \/ ChangeMission \/ CloseIncident
    BY <1>2, OfficeActsKeep, CloseIncidentKeeps
  <1>3. CASE Lapse
    BY <1>3, LapseKeeps
  <1>4. ASSUME NEW l \in Loops, Timers(l) PROVE IInv'
    BY <1>4, SyncArrivesKeeps, BeatKeeps, ReadingKeeps DEF Timers
  <1>5. ASSUME NEW l \in Loops, NEW p \in Posts, Watch(p, l) \/ RetryFires(p, l) PROVE IInv'
    BY <1>5, WatchKeeps, RetryFiresKeeps
  <1>6. ASSUME NEW p \in Posts, FixArrives(p) PROVE IInv'
    BY <1>6, FixArrivesKeeps
  <1>7. CASE Calls
    BY <1>7, RecheckKeeps, LoadArrivesKeeps, ConsentArrivesKeeps, AckFetchedKeeps,
       AckArrivesKeeps DEF Calls
  <1>8. CASE Login
    BY <1>8, LoginKeeps
  <1>9. CASE Reload
    BY <1>9, ReloadKeeps
  <1>10. ASSUME NEW granted \in BOOLEAN, Consent(granted) PROVE IInv'
    BY <1>10, ConsentKeeps
  <1>11. CASE AckClick
    BY <1>11, AckClickKeeps
  <1>12. CASE UNCHANGED vars
    BY <1>12, StutterOK
  <1>13. QED
    BY <1>1, <1>2, <1>3, <1>4, <1>5, <1>6, <1>7, <1>8, <1>9, <1>10, <1>11, <1>12,
       ZenonT(60) DEF Next

-----------------------------------------------------------------------------
(* What IInv says of the server, the phone and every call under way holds  *)
(* in every state.                                                         *)
THEOREM Invariant == Spec => []IInv
  BY InitOK, StepOK, PTL DEF Spec

(* Every variable stays in its type: an answer carries a mission's version *)
(* of the office, a slot a position of one of the loops.                   *)
THEOREM TypeCorrect == Spec => []TypeOK
  <1>1. IInv => TypeOK
    BY ZenonT(60) DEF IInv, ServerOK, RestOK, TypeOK, InFlight, Keys
  <1>2. QED
    BY <1>1, Invariant, PTL

(* A stopped loop has no timer set (stop), unless two of its positions     *)
(* were under way or waiting at the same time.                             *)
THEOREM QuietTheorem == Spec => []StoppedIsQuiet
  <1>1. IInv => StoppedIsQuiet
    <2> SUFFICES ASSUME IInv, NEW l \in Loops, ~loop[l].on, ~loop[l].doubled
                 PROVE  ~loop[l].retry /\ loop[l].stray = 0 /\ loop[l].beat # "set"
      BY DEF StoppedIsQuiet
    <2>1. QuietOK(l) /\ loop[l].stray \in Nat
      BY DEF IInv, Loop
    <2>2. QED
      BY <2>1 DEF QuietOK
  <1>2. QED
    BY <1>1, Invariant, PTL

(* At most one location loop runs (startLoopIfNeeded), unless a late       *)
(* answer to a stopped one made the page forget its successor.             *)
THEOREM OneLoopTheorem == Spec => []OneLoop
  <1>1. IInv => OneLoop
    <2> SUFFICES ASSUME IInv, ~late PROVE Cardinality({l \in Loops : loop[l].on}) =< 1
      BY ZenonT(60) DEF OneLoop
    <2> DEFINE on == {l \in Loops : loop[l].on}
    <2>1. on \subseteq {page.loop}
      BY DEF IInv, OwnedOK
    <2> HIDE DEF on
    <2>0. PICK x : x = page.loop
      BY ZenonT(60)
    <2>2. IsFiniteSet({page.loop}) /\ Cardinality({page.loop}) = 1
      BY <2>0, FS_Singleton, ZenonT(60)
    <2>3. Cardinality(on) =< Cardinality({page.loop})
      BY <2>1, <2>2, FS_Subset
    <2>4. QED
      BY <2>2, <2>3 DEF on
  <1>2. QED
    BY <1>1, Invariant, PTL

(* A version the server holds as acknowledged was on the member's screen,  *)
(* unless an acknowledgement was served after its incident.                *)
THEOREM AckedTheorem == Spec => []AckedWasShown
  <1>1. IInv => AckedWasShown
    <2> SUFFICES ASSUME IInv, Assigned(server), server.ack > 1, ~crossed PROVE server.ack =< seen
      BY ZenonT(60) DEF AckedWasShown
    <2>1. server.inc # 0 /\ ShownOK /\ server.ack \in Nat
      BY Numbers DEF Assigned, IInv, ServerOK, Server
    <2>2. QED
      BY <2>1 DEF ShownOK
  <1>2. QED
    BY <1>1, Invariant, PTL
================================================================================
