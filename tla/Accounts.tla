-------------------------------- MODULE Accounts --------------------------------
(***************************************************************************)
(* internal/auth and the handlers that use it: the accounts of the         *)
(* administrators and of the members, their sessions, and what closing an  *)
(* incident does to those.  A step is one SQL statement; between two       *)
(* statements of a request any other request may run.                      *)
(*                                                                         *)
(* Passwords, tokens and the login limiter are left out: a login is a      *)
(* right password.  Who asks is not recorded; that he may is the           *)
(* middleware's business.  era[a] counts the times a's sessions were to    *)
(* end: password changes, resets, deactivations.                           *)
(***************************************************************************)
EXTENDS Integers, Sequences, FiniteSets

CONSTANTS
  Admins, Members,
  Workers,      \* goroutines serving requests
  Enrolled,     \* [Admins \cup Members -> "admin", "operator", "member" or Nil]: at first
  Forms,        \* updates of an administrator: sequences of changes
  Scenes,       \* sets of the kinds of request that come in one behaviour
  AdminTTL,     \* 12 hours
  AdminIdle,    \* 2 hours
  MemberTTL,    \* 24 hours
  Grace,        \* 1 hour after the end of an incident
  MaxTime,      \* bound: the clock
  MaxEra,       \* bound: era
  MaxCloses,    \* bound: incidents closed
  Nil

Subjects == Admins \cup Members
Row == [role : {"admin", "operator", "member"}, active : BOOLEAN]

ASSUME AccountsAssumption ==
  /\ Admins \cap Members = {}
  /\ IsFiniteSet(Admins)
  /\ {AdminTTL, AdminIdle, MemberTTL, Grace, MaxTime, MaxEra, MaxCloses} \subseteq Nat
  /\ Enrolled \in [Subjects -> {"admin", "operator", "member", Nil}]
  /\ \A a \in Members : Enrolled[a] \in {"member", Nil}
  /\ \A a \in Admins : Enrolled[a] # "member"
  /\ \E a \in Admins : Enrolled[a] = "admin"
  /\ Forms \subseteq {<<v>> : v \in {"promote", "demote", "activate", "deactivate"}}
       \cup {<<r, v>> : r \in {"promote", "demote"}, v \in {"activate", "deactivate"}}
  /\ Nil \notin Subjects \cup Row \cup {"admin", "operator", "member"}

VARIABLES
  account,   \* admin_user and member: [role, active], or Nil
  session,   \* the rows of `session'
  status,    \* incident.status of the latest incident
  clock,
  call,      \* the request each worker serves
  scene,     \* the kinds of request that come
  era,       \* history, see above
  owned,     \* history: <<a, e>>: era e of a ended by a change of his own
  ended,     \* history: the times at which incidents were closed
  kept,      \* history: subjects whose sessions were to be deleted and were not
  uncapped,  \* history: closings after which the sessions were not capped
  outran     \* history: an administrator was removed on an outdated reading

accountVars == <<account, session, status, clock, call, scene, era, owned, ended,
                 kept, uncapped, outran>>

Changes == {"promote", "demote", "activate", "deactivate", "details"}
PCs  == {"free", "login", "find", "count", "write", "own", "revoke", "details", "cap"}
Call ==
  [pc    : PCs,
   who   : Subjects \cup {Nil},
   at    : Nat,            \* the time the request began
   todo  : Seq(Changes),   \* what is left to do of an update
   stale : BOOLEAN,        \* history: an account changed since it was read
   nth   : Nat]            \* history: the closing that this request made
Session ==
  [who    : Subjects,
   exp    : Nat,           \* expires_at
   seen   : Nat,           \* last_seen_at
   era    : Nat,           \* history: era of the subject when it was created
   closes : Nat]           \* history: incidents closed when it was created
Free == [pc |-> "free", who |-> Nil, at |-> 0, todo |-> <<>>, stale |-> FALSE, nth |-> 0]

At(w, pc) == call[w].pc = pc
Comes(w, kind) == At(w, "free") /\ kind \in scene
Move(w, c) == call' = [call EXCEPT ![w] = c]
Has(a) == account[a] # Nil
RowOf(role) == IF role = Nil THEN Nil ELSE [role |-> role, active |-> TRUE]
Least(i, j) == IF i < j THEN i ELSE j

Init ==
  /\ account = [a \in Subjects |-> RowOf(Enrolled[a])]
  /\ session = {}
  /\ status = "active"
  /\ clock = 0
  /\ call = [w \in Workers |-> Free]
  /\ scene \in Scenes
  /\ era = [a \in Subjects |-> 0]
  /\ owned = {}
  /\ ended = <<>>
  /\ kept = {}
  /\ uncapped = {}
  /\ outran = FALSE

(***************************************************************************)
(* Sessions.                                                               *)
(***************************************************************************)
(* handleAdminLogin, handleMemberLogin: the account is read, the password  *)
(* compared, which takes long, and the session put down.                   *)
LoginRead(w, a) ==
  /\ Comes(w, IF a \in Admins THEN "admin_login" ELSE "login")
  /\ Has(a) /\ account[a].active
  /\ Move(w, [Free EXCEPT !.pc = "login", !.who = a, !.at = clock])
  /\ UNCHANGED <<account, session, status, clock, scene, era, owned, ended, kept,
                 uncapped, outran>>

TTL(a) == IF a \in Admins THEN AdminTTL ELSE MemberTTL
LoginCreate(w) ==
  /\ At(w, "login")
  /\ LET q == call[w] IN
     session' = session \cup
       {[who |-> q.who, exp |-> q.at + TTL(q.who), seen |-> q.at,
         era |-> era[q.who], closes |-> Len(ended)]}
  /\ Move(w, Free)
  /\ UNCHANGED <<account, status, clock, scene, era, owned, ended, kept, uncapped, outran>>

Logout(s) ==
  /\ "logout" \in scene
  /\ session' = session \ {s}
  /\ UNCHANGED <<account, status, clock, call, scene, era, owned, ended, kept, uncapped, outran>>

(* SessionStore.Validate, before every request that needs a session.       *)
Dead(s) == \/ clock >= s.exp
           \/ s.who \in Admins /\ clock - s.seen > AdminIdle
Validate(s) ==
  /\ session' = (session \ {s}) \cup (IF Dead(s) THEN {} ELSE {[s EXCEPT !.seen = clock]})
  /\ session' # session
  /\ UNCHANGED <<account, status, clock, call, scene, era, owned, ended, kept, uncapped, outran>>

(* Whose requests the middleware lets pass.                                *)
Admitted(a) == /\ Has(a) /\ account[a].active
               /\ \E s \in session : s.who = a /\ ~Dead(s)

(* RevokeAllForSubject, the statement after a deactivation or a reset.     *)
Revoke_Members(w) ==   \* mutant: the kind of session is always "member"
  /\ At(w, "revoke")
  /\ LET q == call[w] IN
     /\ session' = {s \in session : s.who # q.who \/ q.who \notin Members}
     /\ kept' = kept \ {q.who}
     /\ Move(w, IF q.todo = <<>> THEN Free ELSE [q EXCEPT !.pc = "details"])
  /\ UNCHANGED <<account, status, clock, scene, era, owned, ended, uncapped, outran>>
Revoke(w) ==
  /\ At(w, "revoke")
  /\ LET q == call[w] IN
     /\ session' = {s \in session : s.who # q.who}
     /\ kept' = kept \ {q.who}
     /\ Move(w, IF q.todo = <<>> THEN Free ELSE [q EXCEPT !.pc = "details"])
  /\ UNCHANGED <<account, status, clock, scene, era, owned, ended, uncapped, outran>>

(***************************************************************************)
(* Administrators: handleAdminUpdate changes the role, then whether the    *)
(* account is active.                                                      *)
(***************************************************************************)
ActiveAdmin(a) == Has(a) /\ account[a].role = "admin" /\ account[a].active
Removes(c) == c \in {"demote", "deactivate"}
(* SetActive(true) writes at once, all other changes read first.           *)
PcOf(c) == IF c = "activate" THEN "write" ELSE "find"
Changed(r, c) ==
  CASE c = "promote"    -> [r EXCEPT !.role = "admin"]
    [] c = "demote"     -> [r EXCEPT !.role = "operator"]
    [] c = "activate"   -> [r EXCEPT !.active = TRUE]
    [] c = "deactivate" -> [r EXCEPT !.active = FALSE]

AdminUpdate(w, a, form) ==
  /\ Comes(w, "admins")
  /\ Has(a)
  /\ Move(w, [Free EXCEPT !.pc = PcOf(Head(form)), !.who = a, !.todo = form])
  /\ UNCHANGED <<account, session, status, clock, scene, era, owned, ended, kept,
                 uncapped, outran>>

(* FindByID: only the removal of an active admin is counted.               *)
Find(w) ==
  /\ At(w, "find")
  /\ LET q == call[w] IN
     Move(w, [q EXCEPT !.stale = FALSE,
                       !.pc = IF Removes(Head(q.todo)) /\ ActiveAdmin(q.who)
                              THEN "count" ELSE "write"])
  /\ UNCHANGED <<account, session, status, clock, scene, era, owned, ended, kept,
                 uncapped, outran>>

(* CountActiveAdmins; the last one is not removed.                         *)
TooFew_None ==   \* mutant: < for <=
  Cardinality({a \in Admins : ActiveAdmin(a)}) < 1
TooFew == Cardinality({a \in Admins : ActiveAdmin(a)}) =< 1
Count(w) ==
  /\ At(w, "count")
  /\ Move(w, IF TooFew THEN Free ELSE [call[w] EXCEPT !.pc = "write"])
  /\ UNCHANGED <<account, session, status, clock, scene, era, owned, ended, kept,
                 uncapped, outran>>

AdminWrite(w) ==
  /\ At(w, "write")
  /\ LET q    == call[w]
         c    == Head(q.todo)
         rest == Tail(q.todo)
         next == CASE rest # <<>> -> [q EXCEPT !.pc = PcOf(Head(rest)), !.todo = rest, !.stale = FALSE]
                   [] rest = <<>> /\ c = "deactivate" -> [q EXCEPT !.pc = "revoke", !.todo = rest]
                   [] OTHER -> Free
     IN /\ c = "deactivate" => era[q.who] < MaxEra
        /\ account' = [account EXCEPT ![q.who] = Changed(@, c)]
        /\ era' = [era EXCEPT ![q.who] = IF c = "deactivate" THEN @ + 1 ELSE @]
        /\ outran' = (outran \/ (Removes(c) /\ q.stale))
        /\ call' = [x \in Workers |->
                      IF x = w THEN next
                      ELSE [call[x] EXCEPT !.stale = At(x, "count") \/ At(x, "write")]]
  /\ UNCHANGED <<session, status, clock, scene, owned, ended, kept, uncapped>>

(* AdminStore.Create, by the command line or by an administrator.          *)
AdminCreate(a, role) ==
  /\ "create" \in scene
  /\ ~Has(a)
  /\ account' = [account EXCEPT ![a] = RowOf(role)]
  /\ UNCHANGED <<session, status, clock, call, scene, era, owned, ended, kept, uncapped, outran>>

(***************************************************************************)
(* Members.                                                                *)
(***************************************************************************)
(* handleMemberUpdate: v is the new value of active, Nil if it stays.      *)
(* The roster's fields are written last, at "details": there, module Setup *)
(* takes over.                                                             *)
MemberUpdate(w, m, v) ==
  /\ Comes(w, "members")
  /\ Has(m)
  /\ IF v = Nil THEN UNCHANGED account
                ELSE account' = [account EXCEPT ![m].active = v]
  /\ v = FALSE => era[m] < MaxEra
  /\ era' = [era EXCEPT ![m] = IF v = FALSE THEN @ + 1 ELSE @]
  /\ Move(w, [Free EXCEPT !.pc = IF v = FALSE THEN "revoke" ELSE "details",
                          !.who = m, !.todo = <<"details">>])
  /\ UNCHANGED <<session, status, clock, scene, owned, ended, kept, uncapped, outran>>

Details(w) ==
  /\ At(w, "details")
  /\ Move(w, Free)
  /\ UNCHANGED <<account, session, status, clock, scene, era, owned, ended, kept,
                 uncapped, outran>>

(* handleMemberPasswordReset                                               *)
PasswordReset(w, m) ==
  /\ Comes(w, "reset")
  /\ Has(m) /\ era[m] < MaxEra
  /\ era' = [era EXCEPT ![m] = @ + 1]
  /\ Move(w, [Free EXCEPT !.pc = "revoke", !.who = m])
  /\ UNCHANGED <<account, session, status, clock, scene, owned, ended, kept, uncapped, outran>>

(* handleMemberPassword: the member changes his own; the old password is   *)
(* compared with the one the middleware read.  No session is deleted.      *)
OwnPassword(w, m) ==
  /\ Comes(w, "own")
  /\ Admitted(m)
  /\ Move(w, [Free EXCEPT !.pc = "own", !.who = m])
  /\ UNCHANGED <<account, session, status, clock, scene, era, owned, ended, kept,
                 uncapped, outran>>
OwnWrite(w) ==
  /\ At(w, "own")
  /\ LET m == call[w].who IN
     /\ era[m] < MaxEra
     /\ owned' = owned \cup {<<m, era[m]>>}
     /\ era' = [era EXCEPT ![m] = @ + 1]
  /\ Move(w, Free)
  /\ UNCHANGED <<account, session, status, clock, scene, ended, kept, uncapped, outran>>

(* roster.Store.Create                                                     *)
Enrol(m) ==
  /\ ~Has(m)
  /\ account' = [account EXCEPT ![m] = RowOf("member")]
  /\ UNCHANGED <<session, status, clock, scene, era, owned, ended, kept, uncapped, outran>>

(***************************************************************************)
(* Incidents.                                                              *)
(***************************************************************************)
(* handleIncidentClose: the incident's transaction, then the cap on the    *)
(* members' sessions, reckoned from the time the request began.            *)
Close(w) ==
  /\ Comes(w, "close")
  /\ status = "active" /\ Len(ended) < MaxCloses
  /\ status' = "closed"
  /\ ended' = Append(ended, clock)
  /\ Move(w, [Free EXCEPT !.pc = "cap", !.at = clock, !.nth = Len(ended) + 1])
  /\ UNCHANGED <<account, session, clock, scene, era, owned, kept, uncapped, outran>>

(* ExpireMemberSessionsBy                                                  *)
Cap_Now(w) ==   \* mutant: an hour from when the statement runs
  /\ At(w, "cap")
  /\ session' = {IF s.who \in Members
                 THEN [s EXCEPT !.exp = Least(@, clock + Grace)] ELSE s : s \in session}
  /\ Move(w, Free)
  /\ UNCHANGED <<account, status, clock, scene, era, owned, ended, kept, uncapped, outran>>
Cap(w) ==
  /\ At(w, "cap")
  /\ session' = {IF s.who \in Members
                 THEN [s EXCEPT !.exp = Least(@, call[w].at + Grace)] ELSE s : s \in session}
  /\ Move(w, Free)
  /\ UNCHANGED <<account, status, clock, scene, era, owned, ended, kept, uncapped, outran>>

Open ==
  /\ status = "closed"
  /\ status' = "active"
  /\ UNCHANGED <<account, session, clock, call, scene, era, owned, ended, kept, uncapped, outran>>

(* A statement fails, or the process ends: the rest of the request is      *)
(* lost.  Once the incident is closed nothing caps the sessions again.     *)
Fail(w) ==
  /\ ~At(w, "free")
  /\ kept' = IF At(w, "revoke") THEN kept \cup {call[w].who} ELSE kept
  /\ uncapped' = IF At(w, "cap") THEN uncapped \cup {call[w].nth} ELSE uncapped
  /\ Move(w, Free)
  /\ UNCHANGED <<account, session, status, clock, scene, era, owned, ended, outran>>

Tick ==
  /\ "time" \in scene
  /\ clock < MaxTime
  /\ clock' = clock + 1
  /\ UNCHANGED <<account, session, status, call, scene, era, owned, ended, kept,
                 uncapped, outran>>

(* All but MemberUpdate, Details, Fail and Enrol: those module Setup takes  *)
(* further.                                                                *)
Handle(w) ==
  \/ \E a \in Subjects : LoginRead(w, a)
  \/ LoginCreate(w) \/ Revoke(w) \/ Find(w) \/ Count(w) \/ AdminWrite(w)
  \/ \E a \in Admins, form \in Forms : AdminUpdate(w, a, form)
  \/ \E m \in Members : PasswordReset(w, m) \/ OwnPassword(w, m)
  \/ OwnWrite(w) \/ Close(w) \/ Cap(w)
Other ==
  \/ \E s \in session : Logout(s) \/ Validate(s)
  \/ \E a \in Admins, role \in {"admin", "operator"} : AdminCreate(a, role)
  \/ Open \/ Tick

Next ==
  \/ \E w \in Workers :
       \/ Handle(w) \/ Details(w) \/ Fail(w)
       \/ \E m \in Members, v \in {TRUE, FALSE, Nil} : MemberUpdate(w, m, v)
  \/ \E m \in Members : Enrol(m) /\ UNCHANGED call
  \/ Other

Spec == Init /\ [][Next]_accountVars
-----------------------------------------------------------------------------
TypeOK ==
  /\ account \in [Subjects -> Row \cup {Nil}]
  /\ session \subseteq Session
  /\ status \in {"active", "closed"}
  /\ clock \in Nat
  /\ call \in [Workers -> Call]
  /\ era \in [Subjects -> Nat]
  /\ ended \in Seq(Nat)
  /\ kept \subseteq Subjects
  /\ uncapped \subseteq Nat
  /\ outran \in BOOLEAN

(* There is always an active administrator (docs/SPEC.md:650), unless two  *)
(* removals overlapped: the count and the write of SetActive and           *)
(* UpdateRole are separate statements, and nothing else can leave none.    *)
AnAdminRemains == outran \/ \E a \in Admins : ActiveAdmin(a)

(* A session that was there when a member or administrator was             *)
(* deactivated, or his password reset, is gone once that request is over   *)
(* (docs/SPEC.md:986), unless its last statement failed.                   *)
EndedByOther(s) == \E e \in s.era .. era[s.who] - 1 : <<s.who, e>> \notin owned
RevokePending(a) == \E w \in Workers : At(w, "revoke") /\ call[w].who = a
ResetEndsSessions ==
  \A s \in session :
    EndedByOther(s) => s.who \in kept \/ RevokePending(s.who)

(* A member's session that was there when an incident was closed ends      *)
(* within the hour, whatever happens to it later (admin_incident.go:513),  *)
(* unless the capping statement failed.                                    *)
CapPending(n) == \E w \in Workers : At(w, "cap") /\ call[w].nth = n
SessionsEndWithIncident ==
  \A s \in session, n \in 1 .. Len(ended) :
    s.who \in Members /\ s.closes < n
    => \/ s.exp =< ended[n] + Grace
       \/ n \in uncapped
       \/ CapPending(n)
=============================================================================
