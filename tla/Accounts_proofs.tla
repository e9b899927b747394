---------------------------- MODULE Accounts_proofs ----------------------------
(***************************************************************************)
(* Proofs about module Accounts: for any administrators, members, workers, *)
(* forms and lifetimes, an administrator remains, a reset ends sessions,   *)
(* and so does the close of an incident, with the exceptions the           *)
(* properties name; and, while no two updates of an administrator overlap, *)
(* an administrator remains without exception.                             *)
(***************************************************************************)
EXTENDS Accounts, FiniteSetTheorems, TLAPS

(* Every step that names no prover goes to the SMT solver, with time to    *)
(* spare on a slow machine.                                                *)
USE SMTT(60)

AdminChanges == {"promote", "demote", "activate", "deactivate"}

(* A form changes the role first and the activity last.                    *)
AdminForms == {<<v>> : v \in AdminChanges}
              \cup {<<r, v>> : r \in {"promote", "demote"}, v \in {"activate", "deactivate"}}

(* What a request relies on at each of its statements.                     *)
CallOK(q, accounts, closings) ==
  /\ q.pc \in {"login", "own", "revoke"} => q.who \in Subjects
  /\ q.pc \in {"find", "count", "write"} =>
       q.who \in Admins /\ accounts[q.who] # Nil /\ q.todo \in AdminForms
  /\ q.pc = "cap" => q.nth \in 1 .. Len(closings) /\ q.at = closings[q.nth]
CallsOK == \A w \in Workers : CallOK(call[w], account, ended)

(* A removal about to be written, on a count nothing has changed since,    *)
(* leaves another administrator.                                           *)
OthersRemain ==
  \A w \in Workers :
    LET q == call[w] IN
    /\ At(w, "write") /\ Removes(Head(q.todo)) /\ ~q.stale
    /\ ActiveAdmin(q.who)
    => \E a \in Admins \ {q.who} : ActiveAdmin(a)

(* The inductive invariant.                                                *)
IInv == TypeOK /\ CallsOK /\ AnAdminRemains /\ OthersRemain
        /\ ResetEndsSessions /\ SessionsEndWithIncident

-----------------------------------------------------------------------------
(***************************************************************************)
(* Forms                                                                   *)
(***************************************************************************)
(* The first change of a form, and what is left of it.                     *)
LEMMA FormFacts ==
  ASSUME NEW f \in AdminForms
  PROVE  /\ f \in Seq(Changes) /\ Head(f) \in AdminChanges /\ Tail(f) \in Seq(Changes)
         /\ Tail(f) # <<>> => Tail(f) \in AdminForms /\ Head(f) \in {"promote", "demote"}
                              /\ Head(Tail(f)) \in {"activate", "deactivate"}
  <1>1. CASE f \in {<<v>> : v \in AdminChanges}
    <2>1. PICK v \in AdminChanges : f = <<v>>
      BY <1>1
    <2>2. Tail(f) = <<>> /\ Head(f) = v
      BY <2>1
    <2>3. QED
      BY <2>1, <2>2 DEF AdminChanges, Changes
  <1>2. CASE f \in {<<r, v>> : r \in {"promote", "demote"}, v \in {"activate", "deactivate"}}
    <2>1. PICK r \in {"promote", "demote"}, v \in {"activate", "deactivate"} : f = <<r, v>>
      BY <1>2
    <2>2. Tail(f) = <<v>> /\ Head(f) = r /\ Head(<<v>>) = v
      BY <2>1
    <2>3. <<v>> \in AdminForms
      BY DEF AdminForms, AdminChanges
    <2>4. QED
      BY <2>1, <2>2, <2>3 DEF AdminChanges, Changes
  <1>3. QED
    BY <1>1, <1>2 DEF AdminForms

-----------------------------------------------------------------------------
(***************************************************************************)
(* Types                                                                   *)
(***************************************************************************)
(* A request relies on no less after a step that forgets no account and    *)
(* only adds closings.                                                     *)
LEMMA StillOK ==
  ASSUME NEW q, NEW acc, NEW then, NEW cl \in Seq(Nat), NEW cl2 \in Seq(Nat),
         CallOK(q, acc, cl),
         \A a \in Subjects : acc[a] # Nil => then[a] # Nil,
         Len(cl) =< Len(cl2), \A n \in 1 .. Len(cl) : cl2[n] = cl[n]
  PROVE  CallOK(q, then, cl2)
  <1>1. q.pc = "cap" => q.nth \in 1 .. Len(cl2) /\ q.at = cl2[q.nth]
    BY DEF CallOK
  <1>2. QED
    BY <1>1 DEF CallOK, Subjects

(* So a step that moves one request to where it may be keeps all of them.  *)
LEMMA MoveKeeps ==
  ASSUME TypeOK, CallsOK, NEW w \in Workers, NEW c \in Call,
         Move(w, c), CallOK(c, account', ended'), ended' \in Seq(Nat),
         \A a \in Subjects : account[a] # Nil => account'[a] # Nil,
         Len(ended) =< Len(ended'), \A n \in 1 .. Len(ended) : ended'[n] = ended[n]
  PROVE  call' \in [Workers -> Call] /\ CallsOK'
  <1>1. call' \in [Workers -> Call]
    BY DEF TypeOK, Move
  <1>2. ASSUME NEW x \in Workers PROVE CallOK(call'[x], account', ended')
    <2>1. CASE x = w
      BY <2>1 DEF TypeOK, Move
    <2>2. CASE x # w
      <3>1. call'[x] = call[x] /\ CallOK(call[x], account, ended)
        BY <2>2 DEF TypeOK, CallsOK, Move
      <3>2. ended \in Seq(Nat)
        BY DEF TypeOK
      <3>3. QED
        BY <3>1, <3>2, StillOK, ZenonT(60)
    <2>3. QED
      BY <2>1, <2>2
  <1>3. QED
    BY <1>1, <1>2 DEF CallsOK

(* The same when accounts and closings stay.                               *)
LEMMA MoveOnly ==
  ASSUME TypeOK, CallsOK, NEW w \in Workers, NEW c \in Call,
         Move(w, c), CallOK(c, account, ended), UNCHANGED <<account, ended>>
  PROVE  call' \in [Workers -> Call] /\ CallsOK'
  <1>1. ended \in Seq(Nat) /\ Len(ended) \in Nat
    BY DEF TypeOK
  <1>2. QED
    BY <1>1, MoveKeeps

(* Requests that change nothing but where they are.                        *)
LEMMA ReadKeeps ==
  ASSUME TypeOK, CallsOK, NEW w \in Workers, NEW c \in Call,
         CallOK(c, account, ended), Move(w, c),
         UNCHANGED <<account, session, status, clock, era, ended, kept, uncapped, outran>>
  PROVE  TypeOK' /\ CallsOK'
  <1>1. call' \in [Workers -> Call] /\ CallsOK'
    BY MoveOnly
  <1>2. QED
    BY <1>1 DEF TypeOK

LEMMA FreeOK == Free \in Call /\ \A acc, cl : CallOK(Free, acc, cl)
  BY DEF Free, Call, PCs, CallOK, Changes

(* Where each kind of request begins, and where it goes on.                *)
LEMMA CallBegun ==
  ASSUME NEW a \in Subjects, NEW n \in Nat, NEW pc \in {"login", "own", "revoke"},
         NEW acc, NEW cl
  PROVE  LET c == [Free EXCEPT !.pc = pc, !.who = a]
             d == [Free EXCEPT !.pc = pc, !.who = a, !.at = n]
         IN  /\ c \in Call /\ CallOK(c, acc, cl)
             /\ d \in Call /\ CallOK(d, acc, cl)
  <1>1. <<>> \in Seq(Changes) /\ pc \in PCs
    BY DEF PCs
  <1> DEFINE c == [Free EXCEPT !.pc = pc, !.who = a]
             d == [Free EXCEPT !.pc = pc, !.who = a, !.at = n]
  <1>2. c \in Call /\ d \in Call
    BY <1>1, ZenonT(120) DEF Free, Call
  <1>3. c.pc = pc /\ c.who = a /\ d.pc = pc /\ d.who = a
    BY DEF Free
  <1>4. CallOK(c, acc, cl) /\ CallOK(d, acc, cl)
    <2> HIDE DEF c, d
    <2>1. QED
      BY <1>3 DEF CallOK
  <1>5. QED
    BY <1>2, <1>4

LEMMA CallGoesOn ==
  ASSUME NEW q \in Call, NEW pc \in PCs, NEW stale \in BOOLEAN
  PROVE  [q EXCEPT !.stale = stale, !.pc = pc] \in Call /\ [q EXCEPT !.pc = pc] \in Call
         /\ [q EXCEPT !.stale = stale] \in Call
  BY ZenonT(120) DEF Call

(* Logins, and requests that only read.                                    *)
LEMMA ReadsKeepTypes ==
  ASSUME TypeOK, CallsOK, NEW w \in Workers,
         \/ \E a \in Subjects : LoginRead(w, a)
         \/ \E a \in Admins, form \in Forms : AdminUpdate(w, a, form)
         \/ Find(w) \/ Count(w) \/ Details(w)
         \/ \E m \in Members : OwnPassword(w, m)
  PROVE  TypeOK' /\ CallsOK'
  <1> DEFINE q == call[w]
  <1>1. q \in Call /\ CallOK(q, account, ended)
    BY DEF TypeOK, CallsOK
  <1>2. ASSUME NEW a \in Subjects, LoginRead(w, a)
        PROVE  TypeOK' /\ CallsOK'
    <2> DEFINE c == [Free EXCEPT !.pc = "login", !.who = a, !.at = clock]
    <2>1. c \in Call /\ CallOK(c, account, ended)
      BY CallBegun, ZenonT(60) DEF TypeOK
    <2>2. Move(w, c) /\ UNCHANGED <<account, session, status, clock, era, ended, kept, uncapped, outran>>
      BY <1>2, ZenonT(60) DEF LoginRead
    <2> HIDE DEF c
    <2>3. QED
      BY <2>1, <2>2, ReadKeeps
  <1>3. ASSUME NEW a \in Admins, NEW form \in Forms, AdminUpdate(w, a, form)
        PROVE  TypeOK' /\ CallsOK'
    <2> DEFINE p == PcOf(Head(form))
               c == [Free EXCEPT !.pc = p, !.who = a, !.todo = form]
    <2>1. form \in AdminForms
      BY AccountsAssumption DEF AdminForms, AdminChanges
    <2>2. form \in Seq(Changes) /\ p \in {"write", "find"} /\ p \in PCs /\ a \in Subjects
      BY <2>1, FormFacts DEF PcOf, PCs, Subjects
    <2>3. c \in Call
      <3> HIDE DEF p
      <3>1. QED
        BY <2>2, ZenonT(120) DEF Free, Call
    <2>4. c.pc = p /\ c.who = a /\ c.todo = form
      BY DEF Free
    <2>5. account[a] # Nil
      BY <1>3, ZenonT(60) DEF AdminUpdate, Has
    <2>6. Move(w, c) /\ UNCHANGED <<account, session, status, clock, era, ended, kept, uncapped, outran>>
      BY <1>3, ZenonT(60) DEF AdminUpdate
    <2> HIDE DEF c, p
    <2>7. CallOK(c, account, ended)
      BY <2>1, <2>2, <2>4, <2>5 DEF CallOK
    <2>8. QED
      BY <2>3, <2>6, <2>7, ReadKeeps
  <1>4. CASE Find(w)
    <2> DEFINE p == IF Removes(Head(q.todo)) /\ ActiveAdmin(q.who) THEN "count" ELSE "write"
               c == [q EXCEPT !.stale = FALSE, !.pc = p]
    <2>1. p \in PCs /\ p \in {"count", "write"}
      BY DEF PCs
    <2>2. c \in Call
      <3> HIDE DEF p
      <3>1. QED
        BY <1>1, <2>1, CallGoesOn, ZenonT(60)
    <2>3. c.pc = p /\ c.who = q.who /\ c.todo = q.todo
      BY <1>1 DEF Call
    <2>4. Move(w, c) /\ UNCHANGED <<account, session, status, clock, era, ended, kept, uncapped, outran>>
      BY <1>4 DEF Find
    <2>5. q.pc = "find"
      BY <1>4 DEF Find, At
    <2> HIDE DEF c, p
    <2>6. CallOK(c, account, ended)
      BY <1>1, <2>1, <2>3, <2>5 DEF CallOK
    <2>7. QED
      BY <2>2, <2>4, <2>6, ReadKeeps
  <1>5. CASE Count(w)
    <2> DEFINE c == IF TooFew THEN Free ELSE [q EXCEPT !.pc = "write"]
    <2>1. Move(w, c) /\ UNCHANGED <<account, session, status, clock, era, ended, kept, uncapped, outran>>
      BY <1>5 DEF Count
    <2>2. c \in Call /\ CallOK(c, account, ended)
      <3> DEFINE d == [q EXCEPT !.pc = "write"]
      <3>1. "write" \in PCs
        BY DEF PCs
      <3>2. d \in Call
        BY <1>1, <3>1, CallGoesOn, ZenonT(60)
      <3>3. d.pc = "write" /\ d.who = q.who /\ d.todo = q.todo /\ q.pc = "count"
        BY <1>1, <1>5 DEF Call, Count, At
      <3> HIDE DEF d
      <3>4. CallOK(d, account, ended)
        BY <1>1, <3>3 DEF CallOK
      <3>5. QED
        BY <3>2, <3>4, FreeOK DEF d
    <2> HIDE DEF c
    <2>3. QED
      BY <2>1, <2>2, ReadKeeps
  <1>6. CASE Details(w)
    <2>1. Move(w, Free) /\ UNCHANGED <<account, session, status, clock, era, ended, kept, uncapped, outran>>
      BY <1>6 DEF Details
    <2>2. QED
      BY <2>1, ReadKeeps, FreeOK
  <1>7. ASSUME NEW m \in Members, OwnPassword(w, m)
        PROVE  TypeOK' /\ CallsOK'
    <2> DEFINE c == [Free EXCEPT !.pc = "own", !.who = m]
    <2>1. m \in Subjects /\ 0 \in Nat
      BY DEF Subjects
    <2>2. c \in Call /\ CallOK(c, account, ended)
      BY <2>1, CallBegun, ZenonT(60)
    <2>3. Move(w, c) /\ UNCHANGED <<account, session, status, clock, era, ended, kept, uncapped, outran>>
      BY <1>7, ZenonT(60) DEF OwnPassword
    <2> HIDE DEF c
    <2>4. QED
      BY <2>2, <2>3, ReadKeeps
  <1>8. QED
    BY <1>2, <1>3, <1>4, <1>5, <1>6, <1>7

(* Statements on sessions, and those of members.                           *)
LEMMA SessionsKeepTypes ==
  ASSUME TypeOK, CallsOK, NEW w \in Workers,
         LoginCreate(w) \/ Revoke(w) \/ Cap(w) \/ OwnWrite(w) \/ Fail(w)
         \/ \E m \in Members : PasswordReset(w, m)
  PROVE  TypeOK' /\ CallsOK'
  <1> DEFINE q == call[w]
  <1>1. q \in Call /\ CallOK(q, account, ended)
    BY DEF TypeOK, CallsOK
  <1>a. q.at \in Nat /\ q.nth \in Nat /\ q.who \in Subjects \cup {Nil}
    BY <1>1, ZenonT(60) DEF Call
  <1>b. Move(w, Free) /\ UNCHANGED <<account, ended>> => call' \in [Workers -> Call] /\ CallsOK'
    BY MoveOnly, FreeOK
  <1>2. CASE LoginCreate(w)
    <2> DEFINE s == [who |-> q.who, exp |-> q.at + TTL(q.who), seen |-> q.at,
                     era |-> era[q.who], closes |-> Len(ended)]
    <2>1. q.who \in Subjects
      BY <1>1, <1>2 DEF LoginCreate, At, CallOK
    <2>2. q.at + TTL(q.who) \in Nat /\ era[q.who] \in Nat /\ Len(ended) \in Nat
      <3>1. TTL(q.who) \in Nat
        BY AccountsAssumption DEF TTL
      <3>2. era[q.who] \in Nat /\ Len(ended) \in Nat
        BY <2>1 DEF TypeOK
      <3>3. QED
        BY <1>a, <3>1, <3>2
    <2>3. s \in Session
      BY <1>a, <2>1, <2>2, ZenonT(60) DEF Session
    <2>4. session' = session \cup {s} /\ Move(w, Free)
          /\ UNCHANGED <<account, status, clock, era, ended, kept, uncapped, outran>>
      BY <1>2, ZenonT(60) DEF LoginCreate
    <2> HIDE DEF s
    <2>5. QED
      BY <1>b, <2>3, <2>4 DEF TypeOK
  <1>3. CASE Revoke(w)
    <2> DEFINE d == [q EXCEPT !.pc = "details"]
               c == IF q.todo = <<>> THEN Free ELSE d
    <2>1. q.who \in Subjects
      BY <1>1, <1>3 DEF Revoke, At, CallOK
    <2>2. d \in Call /\ d.pc = "details" /\ d.who = q.who
      BY <1>1, ZenonT(60) DEF Call, PCs
    <2>3. c \in Call /\ CallOK(c, account, ended)
      <3> HIDE DEF d
      <3>1. CallOK(d, account, ended)
        BY <2>1, <2>2 DEF CallOK
      <3>2. QED
        BY <2>2, <3>1, FreeOK
    <2>4. Move(w, c) /\ session' = {s \in session : s.who # q.who} /\ kept' = kept \ {q.who}
          /\ UNCHANGED <<account, status, clock, era, ended, uncapped, outran>>
      BY <1>3, ZenonT(60) DEF Revoke
    <2> HIDE DEF c, d
    <2>5. call' \in [Workers -> Call] /\ CallsOK'
      BY <2>3, <2>4, MoveOnly
    <2>6. QED
      BY <2>4, <2>5 DEF TypeOK
  <1>4. CASE Cap(w)
    <2> DEFINE capped(s) == IF s.who \in Members
                            THEN [s EXCEPT !.exp = Least(@, q.at + Grace)] ELSE s
    <2>1. session' = {capped(s) : s \in session} /\ Move(w, Free)
          /\ UNCHANGED <<account, status, clock, era, ended, kept, uncapped, outran>>
      BY <1>4, ZenonT(60) DEF Cap
    <2>2. ASSUME NEW s \in session PROVE capped(s) \in Session
      <3>1. s \in Session /\ s.exp \in Nat
        BY DEF TypeOK, Session
      <3>2. Least(s.exp, q.at + Grace) \in Nat
        BY <1>a, <3>1, AccountsAssumption DEF Least
      <3>3. [s EXCEPT !.exp = Least(s.exp, q.at + Grace)] \in Session
        BY <3>1, <3>2, ZenonT(60) DEF Session
      <3>4. QED
        BY <3>1, <3>3
    <2> HIDE DEF capped
    <2>3. QED
      BY <1>b, <2>1, <2>2 DEF TypeOK
  <1>5. CASE OwnWrite(w)
    <2>1. era' = [era EXCEPT ![q.who] = @ + 1] /\ Move(w, Free)
          /\ UNCHANGED <<account, session, status, clock, ended, kept, uncapped, outran>>
      BY <1>5, ZenonT(60) DEF OwnWrite
    <2>2. q.who \in Subjects
      BY <1>1, <1>5 DEF OwnWrite, At, CallOK
    <2>3. era' \in [Subjects -> Nat]
      <3> HIDE DEF q
      <3>1. QED
        BY <2>1, <2>2 DEF TypeOK
    <2>4. QED
      BY <1>b, <2>1, <2>3 DEF TypeOK
  <1>6. CASE Fail(w)
    <2>1. Move(w, Free)
          /\ UNCHANGED <<account, session, status, clock, era, ended, outran>>
      BY <1>6, ZenonT(60) DEF Fail
    <2>2. At(w, "revoke") => q.who \in Subjects
      BY <1>1 DEF At, CallOK
    <2>3. /\ kept' = IF At(w, "revoke") THEN kept \cup {q.who} ELSE kept
          /\ uncapped' = IF At(w, "cap") THEN uncapped \cup {q.nth} ELSE uncapped
          /\ kept \subseteq Subjects /\ uncapped \subseteq Nat
      BY <1>6, ZenonT(60) DEF Fail, TypeOK
    <2>4. kept' \subseteq Subjects /\ uncapped' \subseteq Nat
      <3> HIDE DEF q
      <3>1. kept' \subseteq Subjects
        BY <2>2, <2>3, ZenonT(60)
      <3>2. uncapped' \subseteq Nat
        BY <1>a, <2>3, ZenonT(60)
      <3>3. QED
        BY <3>1, <3>2
    <2>5. QED
      BY <1>b, <2>1, <2>4 DEF TypeOK
  <1>7. ASSUME NEW m \in Members, PasswordReset(w, m)
        PROVE  TypeOK' /\ CallsOK'
    <2> DEFINE c == [Free EXCEPT !.pc = "revoke", !.who = m]
    <2>1. m \in Subjects /\ 0 \in Nat
      BY DEF Subjects
    <2>2. c \in Call /\ CallOK(c, account, ended)
      BY <2>1, CallBegun, ZenonT(60)
    <2>3. Move(w, c) /\ era' = [era EXCEPT ![m] = @ + 1]
          /\ UNCHANGED <<account, session, status, clock, ended, kept, uncapped, outran>>
      BY <1>7, ZenonT(60) DEF PasswordReset
    <2> HIDE DEF c
    <2>4. era' \in [Subjects -> Nat]
      BY <2>1, <2>3 DEF TypeOK
    <2>5. call' \in [Workers -> Call] /\ CallsOK'
      BY <2>2, <2>3, MoveOnly
    <2>6. QED
      BY <2>3, <2>4, <2>5 DEF TypeOK
  <1>8. QED
    BY <1>2, <1>3, <1>4, <1>5, <1>6, <1>7

(* Statements on accounts.                                                 *)
LEMMA ChangedFacts ==
  ASSUME NEW r \in Row, NEW c \in AdminChanges
  PROVE  Changed(r, c) \in Row
  <1>1. [r EXCEPT !.role = "admin"] \in Row /\ [r EXCEPT !.role = "operator"] \in Row
        /\ [r EXCEPT !.active = TRUE] \in Row /\ [r EXCEPT !.active = FALSE] \in Row
    BY ZenonT(60) DEF Row
  <1>2. QED
    BY <1>1 DEF Changed, AdminChanges

LEMMA AdminWriteTypes ==
  ASSUME TypeOK, CallsOK, NEW w \in Workers, AdminWrite(w)
  PROVE  /\ TypeOK' /\ CallsOK'
         /\ LET q == call[w]
                c == Head(q.todo)
            IN  /\ q.pc = "write" /\ q.who \in Admins /\ account[q.who] \in Row
                /\ c \in AdminChanges
                /\ account' = [account EXCEPT ![q.who] = Changed(@, c)]
                /\ call'[w].pc = "write" => ~Removes(Head(call'[w].todo))
                /\ c = "deactivate" => call'[w].pc = "revoke" /\ call'[w].who = q.who
  <1> DEFINE q == call[w]
             c == Head(q.todo)
             rest == Tail(q.todo)
             go   == [q EXCEPT !.pc = PcOf(Head(rest)), !.todo = rest, !.stale = FALSE]
             end  == [q EXCEPT !.pc = "revoke", !.todo = rest]
             next == CASE rest # <<>> -> go
                       [] rest = <<>> /\ c = "deactivate" -> end
                       [] OTHER -> Free
  <1>1. q \in Call /\ CallOK(q, account, ended) /\ q.pc = "write"
    BY DEF TypeOK, CallsOK, AdminWrite, At
  <1>2. q.who \in Admins /\ account[q.who] # Nil /\ q.todo \in AdminForms
    BY <1>1 DEF CallOK
  <1>3. /\ c \in AdminChanges /\ rest \in Seq(Changes)
        /\ rest # <<>> => rest \in AdminForms /\ c # "deactivate"
                          /\ Head(rest) \in {"activate", "deactivate"}
    BY <1>2, FormFacts
  <1>4. account[q.who] \in Row /\ q.who \in Subjects
    BY <1>2 DEF TypeOK, Subjects
  <1>5. next \in Call /\ CallOK(next, account, ended)
        /\ (next.pc = "write" => ~Removes(Head(next.todo)))
        /\ (c = "deactivate" => next.pc = "revoke" /\ next.who = q.who)
    <2>1. CASE rest # <<>>
      <3>1. next = go
        <4> HIDE DEF go, end, rest
        <4>1. QED
          BY <2>1
      <3>2. PcOf(Head(rest)) \in PCs /\ PcOf(Head(rest)) \in {"find", "write"}
            /\ (PcOf(Head(rest)) = "write" => ~Removes(Head(rest)))
        BY <1>3, <2>1 DEF PcOf, PCs, Removes
      <3>3. go \in Call
        BY <1>1, <1>3, <3>2, ZenonT(60) DEF Call
      <3>4. go.pc = PcOf(Head(rest)) /\ go.todo = rest /\ go.who = q.who
        BY <1>1, ZenonT(60) DEF Call
      <3> HIDE DEF go, next, q, rest
      <3>5. CallOK(go, account, ended)
        BY <1>2, <1>3, <2>1, <3>2, <3>4 DEF CallOK
      <3>6. QED
        BY <1>3, <2>1, <3>1, <3>2, <3>3, <3>4, <3>5
    <2>2. CASE rest = <<>> /\ c = "deactivate"
      <3>1. next = end
        <4> HIDE DEF go, end, rest, c
        <4>1. QED
          BY <2>2
      <3>2. "revoke" \in PCs
        BY DEF PCs
      <3>3. end \in Call /\ end.pc = "revoke" /\ end.who = q.who
        BY <1>1, <1>3, <3>2, ZenonT(60) DEF Call
      <3> HIDE DEF end, next
      <3>4. CallOK(end, account, ended)
        BY <1>4, <3>3 DEF CallOK
      <3>5. QED
        BY <3>1, <3>3, <3>4
    <2>3. CASE rest = <<>> /\ c # "deactivate"
      <3>1. next = Free
        <4> HIDE DEF go, end, rest, c
        <4>1. QED
          BY <2>3
      <3>2. Free.pc = "free"
        BY DEF Free
      <3> HIDE DEF next
      <3>3. QED
        BY <2>3, <3>1, <3>2, FreeOK
    <2> HIDE DEF next, rest, c, q
    <2>4. QED
      BY <2>1, <2>2, <2>3
  <1>6. /\ account' = [account EXCEPT ![q.who] = Changed(@, c)]
        /\ era' = [era EXCEPT ![q.who] = IF c = "deactivate" THEN @ + 1 ELSE @]
        /\ outran' = (outran \/ (Removes(c) /\ q.stale))
        /\ call' = [x \in Workers |->
                      IF x = w THEN next
                      ELSE [call[x] EXCEPT !.stale = At(x, "count") \/ At(x, "write")]]
        /\ UNCHANGED <<session, status, clock, ended, kept, uncapped>>
    BY ZenonT(60) DEF AdminWrite
  <1> HIDE DEF next, rest
  <1>7. account' \in [Subjects -> Row \cup {Nil}]
        /\ \A a \in Subjects : account[a] # Nil => account'[a] # Nil
    <2>1. Changed(account[q.who], c) \in Row
      BY <1>3, <1>4, ChangedFacts
    <2>2. Nil \notin Row
      BY AccountsAssumption
    <2> HIDE DEF q, c
    <2>3. QED
      BY <1>4, <1>6, <2>1, <2>2 DEF TypeOK
  <1>8. era' \in [Subjects -> Nat]
    <2> HIDE DEF q, c
    <2>1. QED
      BY <1>4, <1>6 DEF TypeOK
  <1>9. outran' \in BOOLEAN
    <2>1. q.stale \in BOOLEAN
      BY <1>1, ZenonT(60) DEF Call
    <2>2. QED
      BY <1>6, <2>1, ZenonT(60) DEF TypeOK
  <1>10. ASSUME NEW x \in Workers
         PROVE  call'[x] \in Call /\ CallOK(call'[x], account', ended')
    <2>1. ended \in Seq(Nat) /\ ended' = ended
      BY <1>6 DEF TypeOK
    <2>2. CASE x = w
      <3>1. call'[x] = next
        BY <1>6, <2>2
      <3>2. QED
        BY <1>5, <1>7, <2>1, <3>1, StillOK
    <2>3. CASE x # w
      <3> DEFINE s == At(x, "count") \/ At(x, "write")
                 d == [call[x] EXCEPT !.stale = s]
      <3>1. call[x] \in Call /\ CallOK(call[x], account, ended) /\ s \in BOOLEAN
        BY DEF TypeOK, CallsOK, At
      <3>2. call'[x] = d
        BY <1>6, <2>3, ZenonT(60)
      <3>3. d \in Call /\ d.pc = call[x].pc /\ d.who = call[x].who /\ d.todo = call[x].todo
            /\ d.nth = call[x].nth /\ d.at = call[x].at
        <4> HIDE DEF s
        <4>1. QED
          BY <3>1, ZenonT(60) DEF Call
      <3> HIDE DEF d
      <3>4. CallOK(d, account, ended)
        BY <3>1, <3>3 DEF CallOK
      <3>5. QED
        BY <1>7, <2>1, <3>2, <3>3, <3>4, StillOK
    <2>4. QED
      BY <2>2, <2>3
  <1>11. call' \in [Workers -> Call] /\ CallsOK'
    <2>1. call' \in [Workers -> Call]
      BY <1>6, <1>10, ZenonT(60)
    <2>2. QED
      BY <1>10, <2>1 DEF CallsOK
  <1>12. call'[w] = next
    BY <1>6
  <1>13. TypeOK'
    BY <1>6, <1>7, <1>8, <1>9, <1>11 DEF TypeOK
  <1>14. QED
    BY <1>1, <1>2, <1>3, <1>4, <1>5, <1>6, <1>11, <1>12, <1>13

(* The row of a new account.                                               *)
LEMMA RowOfRole ==
  ASSUME NEW role \in {"admin", "operator", "member"}
  PROVE  RowOf(role) = [role |-> role, active |-> TRUE] /\ RowOf(role) \in Row
  <1>1. role # Nil
    BY AccountsAssumption
  <1>2. RowOf(role) = [role |-> role, active |-> TRUE]
    BY <1>1, ZenonT(60) DEF RowOf
  <1>3. QED
    BY <1>2 DEF Row

(* An account that is created.                                             *)
LEMMA CreateTypes ==
  ASSUME TypeOK, CallsOK, UNCHANGED <<call, session, status, clock, era, ended, kept,
                                      uncapped, outran>>,
         NEW a \in Subjects, ~Has(a), NEW role \in {"admin", "operator", "member"},
         account' = [account EXCEPT ![a] = RowOf(role)]
  PROVE  /\ TypeOK' /\ CallsOK'
         /\ \A b \in Subjects : account[b] # Nil => account'[b] = account[b]
  <1>1. RowOf(role) \in Row
    BY RowOfRole, ZenonT(60)
  <1>2. account' \in [Subjects -> Row \cup {Nil}]
        /\ \A b \in Subjects : account[b] # Nil => account'[b] = account[b]
    BY <1>1 DEF TypeOK, Has
  <1>3. \A b \in Subjects : account[b] # Nil => account'[b] # Nil
    BY <1>2
  <1>4. ASSUME NEW x \in Workers PROVE CallOK(call[x], account', ended)
    <2>1. CallOK(call[x], account, ended)
      BY DEF CallsOK
    <2>2. QED
      BY <1>3, <2>1 DEF CallOK, Subjects
  <1>5. call' = call /\ ended' = ended
    OBVIOUS
  <1>6. CallsOK'
    BY <1>4, <1>5, ZenonT(60) DEF CallsOK
  <1>7. QED
    BY <1>2, <1>6 DEF TypeOK

LEMMA MemberUpdateTypes ==
  ASSUME TypeOK, CallsOK, NEW w \in Workers, NEW m \in Members, NEW v \in {TRUE, FALSE, Nil},
         MemberUpdate(w, m, v)
  PROVE  /\ TypeOK' /\ CallsOK'
         /\ \A b \in Subjects \ {m} : account'[b] = account[b]
         /\ v = FALSE => call'[w].pc = "revoke" /\ call'[w].who = m
         /\ v # FALSE => call'[w].pc = "details"
  <1> DEFINE p == IF v = FALSE THEN "revoke" ELSE "details"
             c == [Free EXCEPT !.pc = p, !.who = m, !.todo = <<"details">>]
             r == [account[m] EXCEPT !.active = v]
             e == IF v = FALSE THEN era[m] + 1 ELSE era[m]
  <1>1. m \in Subjects /\ account[m] # Nil /\ <<"details">> \in Seq(Changes)
    BY DEF Subjects, MemberUpdate, Has, Changes
  <1>2. p \in PCs /\ (v = FALSE => p = "revoke") /\ (v # FALSE => p = "details")
    BY ZenonT(60) DEF PCs
  <1>3. c \in Call /\ c.pc = p /\ c.who = m
    <2> HIDE DEF p
    <2>1. QED
      BY <1>1, <1>2, ZenonT(60) DEF Free, Call
  <1>4. /\ Move(w, c)
        /\ IF v = Nil THEN account' = account ELSE account' = [account EXCEPT ![m] = r]
        /\ era' = [era EXCEPT ![m] = e]
        /\ UNCHANGED <<session, status, clock, ended, kept, uncapped, outran>>
    BY ZenonT(60) DEF MemberUpdate
  <1>5. account[m] \in Row /\ era[m] \in Nat
    BY <1>1 DEF TypeOK
  <1>6. v # Nil => v \in BOOLEAN
    BY ZenonT(60)
  <1>7. v # Nil => r \in Row
    BY <1>5, <1>6, ZenonT(60) DEF Row
  <1>8. e \in Nat
    <2>1. era[m] + 1 \in Nat
      BY <1>5
    <2>2. QED
      BY <1>5, <2>1, ZenonT(60)
  <1> HIDE DEF c, p, r, e
  <1>9. /\ account' \in [Subjects -> Row \cup {Nil}]
        /\ \A b \in Subjects : account[b] # Nil => account'[b] # Nil
        /\ \A b \in Subjects \ {m} : account'[b] = account[b]
    <2>1. Nil \notin Row
      BY AccountsAssumption
    <2>2. CASE v = Nil
      BY <1>4, <2>2 DEF TypeOK
    <2>3. CASE v # Nil
      <3>1. account' = [account EXCEPT ![m] = r] /\ r \in Row
        BY <1>4, <1>7, <2>3, ZenonT(60)
      <3>2. QED
        BY <1>1, <2>1, <3>1 DEF TypeOK
    <2>4. QED
      BY <2>2, <2>3
  <1>10. era' \in [Subjects -> Nat]
    BY <1>1, <1>4, <1>8 DEF TypeOK
  <1>11. call' \in [Workers -> Call] /\ CallsOK'
    <2>1. CallOK(c, account', ended')
      BY <1>1, <1>2, <1>3, ZenonT(60) DEF CallOK
    <2>2. ended' \in Seq(Nat) /\ Len(ended) =< Len(ended')
          /\ \A n \in 1 .. Len(ended) : ended'[n] = ended[n]
      <3>1. ended' = ended /\ ended \in Seq(Nat)
        BY <1>4 DEF TypeOK
      <3>2. QED
        BY <3>1
    <2>3. QED
      BY <1>3, <1>4, <1>9, <2>1, <2>2, MoveKeeps
  <1>12. call'[w] = c
    BY <1>4, ZenonT(60) DEF Move, TypeOK
  <1>13. TypeOK'
    BY <1>4, <1>9, <1>10, <1>11 DEF TypeOK
  <1>14. QED
    BY <1>2, <1>3, <1>9, <1>11, <1>12, <1>13, ZenonT(60)

LEMMA CloseTypes ==
  ASSUME TypeOK, CallsOK, NEW w \in Workers, Close(w)
  PROVE  /\ TypeOK' /\ CallsOK'
         /\ call'[w].pc = "cap" /\ call'[w].nth = Len(ended)'
  <1> DEFINE c == [Free EXCEPT !.pc = "cap", !.at = clock, !.nth = Len(ended) + 1]
  <1>1. clock \in Nat /\ ended \in Seq(Nat) /\ Len(ended) \in Nat /\ "cap" \in PCs
    BY DEF TypeOK, PCs
  <1>2. c \in Call /\ c.pc = "cap" /\ c.at = clock /\ c.nth = Len(ended) + 1
    <2>1. Len(ended) + 1 \in Nat /\ <<>> \in Seq(Changes)
      BY <1>1
    <2>2. QED
      BY <1>1, <2>1, ZenonT(60) DEF Free, Call
  <1>3. /\ Move(w, c) /\ status' = "closed" /\ ended' = Append(ended, clock)
        /\ UNCHANGED <<account, session, clock, era, kept, uncapped, outran>>
    BY ZenonT(60) DEF Close
  <1> HIDE DEF c
  <1>4. /\ ended' \in Seq(Nat) /\ Len(ended') = Len(ended) + 1 /\ ended'[Len(ended) + 1] = clock
        /\ \A n \in 1 .. Len(ended) : ended'[n] = ended[n]
    BY <1>1, <1>3
  <1>5. call' \in [Workers -> Call] /\ CallsOK'
    <2>1. CallOK(c, account', ended')
      BY <1>1, <1>2, <1>4 DEF CallOK
    <2>2. Len(ended) =< Len(ended') /\ \A a \in Subjects : account[a] # Nil => account'[a] # Nil
      BY <1>1, <1>3, <1>4
    <2>3. QED
      BY <1>2, <1>3, <1>4, <2>1, <2>2, MoveKeeps
  <1>6. call'[w] = c
    BY <1>3, ZenonT(60) DEF Move, TypeOK
  <1>7. TypeOK'
    BY <1>1, <1>3, <1>4, <1>5 DEF TypeOK
  <1>8. QED
    BY <1>2, <1>4, <1>5, <1>6, <1>7

LEMMA OtherTypes ==
  ASSUME TypeOK, CallsOK,
         (\E s \in session : Logout(s) \/ Validate(s)) \/ Open \/ Tick
  PROVE  TypeOK' /\ CallsOK'
  <1>1. UNCHANGED <<account, call, era, ended, kept, uncapped, outran>>
    BY ZenonT(60) DEF Logout, Validate, Open, Tick
  <1>2. CallsOK'
    BY <1>1 DEF CallsOK
  <1>3. clock' \in Nat /\ status' \in {"active", "closed"}
    BY DEF TypeOK, Logout, Validate, Open, Tick
  <1>4. session' \subseteq Session
    <2>1. ASSUME NEW s \in session PROVE [s EXCEPT !.seen = clock] \in Session
      <3>1. s \in Session /\ clock \in Nat
        BY DEF TypeOK
      <3>2. QED
        BY <3>1, ZenonT(60) DEF Session
    <2>2. ASSUME NEW s \in session, Validate(s) PROVE session' \subseteq Session
      <3>1. session' \subseteq session \cup {[s EXCEPT !.seen = clock]}
        BY <2>2, ZenonT(60) DEF Validate
      <3>2. QED
        BY <2>1, <3>1, ZenonT(60) DEF TypeOK
    <2>3. ASSUME NEW s \in session, Logout(s) PROVE session' \subseteq Session
      BY <2>3 DEF TypeOK, Logout
    <2>4. Open \/ Tick => session' = session
      BY DEF Open, Tick
    <2>5. QED
      BY <2>2, <2>3, <2>4 DEF TypeOK
  <1>5. QED
    BY <1>1, <1>2, <1>3, <1>4 DEF TypeOK

(* Every step keeps the types, and what the requests rely on.              *)
LEMMA TypeStep ==
  ASSUME TypeOK, CallsOK, Next
  PROVE  TypeOK' /\ CallsOK'
  <1>1. ASSUME NEW w \in Workers, Handle(w)
        PROVE  TypeOK' /\ CallsOK'
    <2>1. \/ \E a \in Subjects : LoginRead(w, a)
          \/ \E a \in Admins, form \in Forms : AdminUpdate(w, a, form)
          \/ Find(w) \/ Count(w) \/ Details(w)
          \/ \E m \in Members : OwnPassword(w, m)
          \/ LoginCreate(w) \/ Revoke(w) \/ Cap(w) \/ OwnWrite(w) \/ Fail(w)
          \/ \E m \in Members : PasswordReset(w, m)
          \/ AdminWrite(w) \/ Close(w)
      BY <1>1, ZenonT(60) DEF Handle
    <2>2. QED
      BY <2>1, ReadsKeepTypes, SessionsKeepTypes, AdminWriteTypes, CloseTypes, ZenonT(60)
  <1>2. ASSUME NEW w \in Workers, Details(w) \/ Fail(w)
        PROVE  TypeOK' /\ CallsOK'
    BY <1>2, ReadsKeepTypes, SessionsKeepTypes, ZenonT(60)
  <1>3. ASSUME NEW w \in Workers, NEW m \in Members, NEW v \in {TRUE, FALSE, Nil},
               MemberUpdate(w, m, v)
        PROVE  TypeOK' /\ CallsOK'
    BY <1>3, MemberUpdateTypes, ZenonT(60)
  <1>4. ASSUME NEW m \in Members, Enrol(m), UNCHANGED call
        PROVE  TypeOK' /\ CallsOK'
    <2>1. m \in Subjects
      BY DEF Subjects
    <2>2. QED
      BY <1>4, <2>1, CreateTypes, ZenonT(60) DEF Enrol
  <1>5. ASSUME NEW a \in Admins, NEW role \in {"admin", "operator"}, AdminCreate(a, role)
        PROVE  TypeOK' /\ CallsOK'
    <2>1. a \in Subjects /\ role \in {"admin", "operator", "member"}
      BY DEF Subjects
    <2>2. QED
      BY <1>5, <2>1, CreateTypes, ZenonT(60) DEF AdminCreate
  <1>6. CASE (\E s \in session : Logout(s) \/ Validate(s)) \/ Open \/ Tick
    BY <1>6, OtherTypes, ZenonT(60)
  <1>7. QED
    BY <1>1, <1>2, <1>3, <1>4, <1>5, <1>6, ZenonT(60) DEF Next, Other

LEMMA TypeInit ==
  ASSUME Init
  PROVE  TypeOK /\ CallsOK
  <1>1. account \in [Subjects -> Row \cup {Nil}]
    <2>1. account = [a \in Subjects |-> RowOf(Enrolled[a])]
      BY DEF Init
    <2>2. ASSUME NEW a \in Subjects PROVE RowOf(Enrolled[a]) \in Row \cup {Nil}
      <3>1. Enrolled[a] \in {"admin", "operator", "member", Nil}
        BY AccountsAssumption
      <3>2. CASE Enrolled[a] = Nil
        BY <3>2 DEF RowOf
      <3>3. CASE Enrolled[a] # Nil
        BY <3>1, <3>3, RowOfRole
      <3>4. QED
        BY <3>2, <3>3
    <2>3. QED
      BY <2>1, <2>2
  <1>2. call \in [Workers -> Call] /\ CallsOK
    BY FreeOK, ZenonT(60) DEF Init, CallsOK
  <1>3. session \subseteq Session /\ status \in {"active", "closed"}
        /\ kept \subseteq Subjects /\ uncapped \subseteq Nat /\ outran \in BOOLEAN
    BY ZenonT(60) DEF Init
  <1>4. clock \in Nat /\ era \in [Subjects -> Nat] /\ ended \in Seq(Nat)
    <2>1. clock = 0 /\ era = [a \in Subjects |-> 0] /\ ended = <<>>
      BY ZenonT(60) DEF Init
    <2>2. QED
      BY <2>1
  <1>5. QED
    BY <1>1, <1>2, <1>3, <1>4, ZenonT(60) DEF TypeOK

-----------------------------------------------------------------------------
(***************************************************************************)
(* An administrator remains                                                *)
(***************************************************************************)
(* A count of more than one leaves someone else.                           *)
LEMMA CountLeaves ==
  ASSUME ~TooFew, NEW a
  PROVE  \E b \in Admins \ {a} : ActiveAdmin(b)
  <1> DEFINE A == {b \in Admins : ActiveAdmin(b)}
  <1>1. IsFiniteSet(Admins)
    BY AccountsAssumption
  <1>2. IsFiniteSet(A) /\ Cardinality(A) \in Nat
    BY <1>1, FS_Subset, FS_CardinalityType
  <1>3. ~(Cardinality(A) =< 1)
    BY DEF TooFew
  <1>4. SUFFICES ASSUME A \subseteq {a} PROVE FALSE
    BY ZenonT(60)
  <1>5. IsFiniteSet({a}) /\ Cardinality({a}) = 1
    BY FS_Singleton, ZenonT(60)
  <1>6. Cardinality(A) =< Cardinality({a})
    BY <1>4, <1>5, FS_Subset
  <1>7. QED
    BY <1>3, <1>5, <1>6

(* What a step that writes no account keeps.                               *)
LEMMA NobodyRemoved ==
  ASSUME TypeOK, OthersRemain, AnAdminRemains,
         \A a \in Admins : ActiveAdmin(a) => ActiveAdmin(a)',
         outran => outran',
         \A x \in Workers :
           (At(x, "write") /\ Removes(Head(call[x].todo)) /\ ~call[x].stale /\ ActiveAdmin(call[x].who))'
           => \/ /\ At(x, "write") /\ Removes(Head(call[x].todo)) /\ ~call[x].stale
                 /\ ActiveAdmin(call[x].who) /\ call'[x].who = call[x].who
              \/ \E b \in Admins \ {call'[x].who} : ActiveAdmin(b)
  PROVE  OthersRemain' /\ AnAdminRemains'
  <1>1. AnAdminRemains'
    BY ZenonT(60) DEF AnAdminRemains
  <1>2. ASSUME NEW x \in Workers,
               (At(x, "write") /\ Removes(Head(call[x].todo)) /\ ~call[x].stale
                /\ ActiveAdmin(call[x].who))'
        PROVE  \E a \in Admins \ {call'[x].who} : ActiveAdmin(a)'
    <2>1. \E b \in Admins \ {call'[x].who} : ActiveAdmin(b)
      BY <1>2, ZenonT(60) DEF OthersRemain
    <2>2. QED
      BY <2>1, ZenonT(60)
  <1>3. OthersRemain'
    BY <1>2, ZenonT(60) DEF OthersRemain
  <1>4. QED
    BY <1>1, <1>3

LEMMA MoveFacts ==
  ASSUME TypeOK, NEW w \in Workers, NEW c, Move(w, c)
  PROVE  call'[w] = c /\ \A x \in Workers \ {w} : call'[x] = call[x]
  BY DEF TypeOK, Move

(* A request that moves on without touching an administrator's account.    *)
LEMMA MoveRemoves ==
  ASSUME TypeOK, CallsOK, OthersRemain, AnAdminRemains, NEW w \in Workers, NEW c, Move(w, c),
         \/ c.pc # "write" \/ ~Removes(Head(c.todo)) \/ ~ActiveAdmin(c.who)
         \/ \E b \in Admins \ {c.who} : ActiveAdmin(b),
         c.pc = "write" => c.who \in Admins,
         \A a \in Admins : account'[a] = account[a], outran' = outran
  PROVE  OthersRemain' /\ AnAdminRemains'
  <1>1. \A a \in Admins : ActiveAdmin(a)' <=> ActiveAdmin(a)
    BY DEF ActiveAdmin, Has
  <1>2. ASSUME NEW x \in Workers,
               (At(x, "write") /\ Removes(Head(call[x].todo)) /\ ~call[x].stale
                /\ ActiveAdmin(call[x].who))'
        PROVE  \/ /\ At(x, "write") /\ Removes(Head(call[x].todo)) /\ ~call[x].stale
                  /\ ActiveAdmin(call[x].who) /\ call'[x].who = call[x].who
               \/ \E b \in Admins \ {call'[x].who} : ActiveAdmin(b)
    <2>0. call'[w] = c /\ \A y \in Workers \ {w} : call'[y] = call[y]
      BY MoveFacts
    <2>1. CASE x = w
      <3>1. call'[x] = c /\ c.pc = "write" /\ Removes(Head(c.todo)) /\ ActiveAdmin(c.who)'
        BY <1>2, <2>0, <2>1, ZenonT(60) DEF At, Removes
      <3>2. ActiveAdmin(c.who)
        BY <1>1, <3>1, ZenonT(60)
      <3>3. QED
        BY <3>1, <3>2, ZenonT(60)
    <2>2. CASE x # w
      <3>1. call'[x] = call[x] /\ CallOK(call[x], account, ended)
        BY <2>0, <2>2, ZenonT(60) DEF CallsOK
      <3>2. At(x, "write") /\ Removes(Head(call[x].todo)) /\ ~call[x].stale
            /\ ActiveAdmin(call[x].who)'
        BY <1>2, <3>1, ZenonT(60) DEF At, Removes
      <3>3. call[x].who \in Admins
        BY <3>1, <3>2 DEF CallOK, At
      <3>4. QED
        BY <1>1, <3>1, <3>2, <3>3, ZenonT(60)
    <2>3. QED
      BY <2>1, <2>2
  <1>3. QED
    BY <1>1, <1>2, NobodyRemoved, ZenonT(60)

LEMMA MovesPass ==
  ASSUME TypeOK, NEW w \in Workers,
         \/ \E a \in Subjects : LoginRead(w, a)
         \/ LoginCreate(w) \/ Revoke(w) \/ OwnWrite(w) \/ Close(w) \/ Cap(w)
         \/ Details(w) \/ Fail(w)
         \/ \E m \in Members : PasswordReset(w, m) \/ OwnPassword(w, m)
  PROVE  /\ UNCHANGED <<account, outran>>
         /\ \E c : Move(w, c) /\ c.pc # "write"
  <1>0. Free.pc = "free"
    BY DEF Free
  <1>1. ASSUME NEW a \in Subjects, LoginRead(w, a)
        PROVE  UNCHANGED <<account, outran>> /\ \E c : Move(w, c) /\ c.pc # "write"
    <2> DEFINE c == [Free EXCEPT !.pc = "login", !.who = a, !.at = clock]
    <2>1. Move(w, c) /\ UNCHANGED <<account, outran>>
      BY <1>1, ZenonT(60) DEF LoginRead
    <2>2. c.pc # "write"
      BY DEF Free
    <2>3. QED
      BY <2>1, <2>2, ZenonT(60)
  <1>2. CASE LoginCreate(w) \/ OwnWrite(w) \/ Cap(w) \/ Details(w) \/ Fail(w)
    <2>1. Move(w, Free) /\ UNCHANGED <<account, outran>>
      BY <1>2, ZenonT(60) DEF LoginCreate, OwnWrite, Cap, Details, Fail
    <2>2. QED
      BY <1>0, <2>1
  <1>3. CASE Revoke(w)
    <2> DEFINE d == [call[w] EXCEPT !.pc = "details"]
               c == IF call[w].todo = <<>> THEN Free ELSE d
    <2>1. Move(w, c) /\ UNCHANGED <<account, outran>>
      BY <1>3, ZenonT(60) DEF Revoke
    <2>2. c = Free \/ c = d
      BY ZenonT(60)
    <2>3. d.pc = "details"
      BY DEF TypeOK, Call
    <2> HIDE DEF c, d
    <2>4. c.pc # "write"
      BY <1>0, <2>2, <2>3
    <2>5. QED
      BY <2>1, <2>4, ZenonT(60)
  <1>4. CASE Close(w)
    <2> DEFINE c == [Free EXCEPT !.pc = "cap", !.at = clock, !.nth = Len(ended) + 1]
    <2>1. Move(w, c) /\ UNCHANGED <<account, outran>>
      BY <1>4, ZenonT(60) DEF Close
    <2>2. c.pc # "write"
      BY DEF Free
    <2>3. QED
      BY <2>1, <2>2, ZenonT(60)
  <1>5. ASSUME NEW m \in Members, PasswordReset(w, m) \/ OwnPassword(w, m)
        PROVE  UNCHANGED <<account, outran>> /\ \E c : Move(w, c) /\ c.pc # "write"
    <2> DEFINE c == [Free EXCEPT !.pc = "revoke", !.who = m]
               d == [Free EXCEPT !.pc = "own", !.who = m]
    <2>1. (Move(w, c) \/ Move(w, d)) /\ UNCHANGED <<account, outran>>
      BY <1>5, ZenonT(60) DEF PasswordReset, OwnPassword
    <2>2. c.pc # "write" /\ d.pc # "write"
      BY DEF Free
    <2>3. QED
      BY <2>1, <2>2, ZenonT(60)
  <1>6. QED
    BY <1>1, <1>2, <1>3, <1>4, <1>5, ZenonT(60)

(* The statements of an update that only read.                             *)
LEMMA ReadsRemove ==
  ASSUME TypeOK, CallsOK, OthersRemain, AnAdminRemains, NEW w \in Workers,
         \/ Find(w) \/ Count(w)
         \/ \E a \in Admins, form \in Forms : AdminUpdate(w, a, form)
  PROVE  OthersRemain' /\ AnAdminRemains'
  <1> DEFINE q == call[w]
  <1>1. q \in Call /\ CallOK(q, account, ended)
    BY DEF TypeOK, CallsOK
  <1>2. CASE Find(w)
    <2> DEFINE p == IF Removes(Head(q.todo)) /\ ActiveAdmin(q.who) THEN "count" ELSE "write"
               c == [q EXCEPT !.stale = FALSE, !.pc = p]
    <2>1. Move(w, c) /\ UNCHANGED <<account, outran>>
      BY <1>2, ZenonT(60) DEF Find
    <2>2. c.pc = p /\ c.who = q.who /\ c.todo = q.todo
      BY <1>1, ZenonT(60) DEF Call
    <2>3. p = "write" => ~(Removes(Head(q.todo)) /\ ActiveAdmin(q.who))
      BY ZenonT(60)
    <2>4. q.who \in Admins
      BY <1>1, <1>2 DEF CallOK, Find, At
    <2> HIDE DEF c, p
    <2>5. \A a \in Admins : account'[a] = account[a]
      BY <2>1
    <2>6. QED
      BY <2>1, <2>2, <2>3, <2>4, <2>5, MoveRemoves, ZenonT(60)
  <1>3. CASE Count(w)
    <2> DEFINE d == [q EXCEPT !.pc = "write"]
               c == IF TooFew THEN Free ELSE d
    <2>1. Move(w, c) /\ UNCHANGED <<account, outran>>
      BY <1>3, ZenonT(60) DEF Count
    <2>2. d.who = q.who /\ Free.pc = "free"
      BY <1>1 DEF Call, Free
    <2>3. q.who \in Admins
      BY <1>1, <1>3 DEF CallOK, Count, At
    <2>4. (c = Free /\ TooFew) \/ (c = d /\ ~TooFew)
      BY ZenonT(60)
    <2> HIDE DEF c, d
    <2>5. \A a \in Admins : account'[a] = account[a]
      BY <2>1
    <2>6. CASE TooFew
      <3>1. c.pc # "write"
        BY <2>2, <2>4, <2>6
      <3>2. QED
        BY <2>1, <2>5, <3>1, MoveRemoves, ZenonT(60)
    <2>7. CASE ~TooFew
      <3>1. \E b \in Admins \ {c.who} : ActiveAdmin(b)
        BY <2>7, CountLeaves
      <3>2. c.who \in Admins
        BY <2>2, <2>3, <2>4, <2>7
      <3>3. QED
        BY <2>1, <2>5, <3>1, <3>2, MoveRemoves, ZenonT(60)
    <2>8. QED
      BY <2>6, <2>7
  <1>4. ASSUME NEW a \in Admins, NEW form \in Forms, AdminUpdate(w, a, form)
        PROVE  OthersRemain' /\ AnAdminRemains'
    <2> DEFINE p == PcOf(Head(form))
               c == [Free EXCEPT !.pc = p, !.who = a, !.todo = form]
    <2>1. Move(w, c) /\ UNCHANGED <<account, outran>>
      BY <1>4, ZenonT(60) DEF AdminUpdate
    <2>2. c.pc = p /\ c.who = a /\ c.todo = form
      BY DEF Free
    <2>3. p = "write" => ~Removes(Head(form))
      BY DEF PcOf, Removes
    <2> HIDE DEF c, p
    <2>4. \A b \in Admins : account'[b] = account[b]
      BY <2>1
    <2>5. QED
      BY <2>1, <2>2, <2>3, <2>4, MoveRemoves, ZenonT(60)
  <1>5. QED
    BY <1>2, <1>3, <1>4, ZenonT(60)

(* The write itself.                                                       *)
LEMMA WriteRemoves ==
  ASSUME TypeOK, CallsOK, OthersRemain, AnAdminRemains, NEW w \in Workers, AdminWrite(w)
  PROVE  OthersRemain' /\ AnAdminRemains'
  <1> DEFINE q == call[w]
             c == Head(q.todo)
  <1>1. /\ q.pc = "write" /\ q.who \in Admins /\ account[q.who] \in Row
        /\ c \in AdminChanges
        /\ account' = [account EXCEPT ![q.who] = Changed(@, c)]
        /\ call'[w].pc = "write" => ~Removes(Head(call'[w].todo))
    BY AdminWriteTypes, ZenonT(60)
  <1>2. outran' = (outran \/ (Removes(c) /\ q.stale))
    BY ZenonT(60) DEF AdminWrite
  <1>3. ASSUME NEW x \in Workers, x # w
        PROVE  At(x, "write")' => call'[x].stale
    <2> DEFINE s == At(x, "count") \/ At(x, "write")
    <2>1. call'[x] = [call[x] EXCEPT !.stale = s]
      BY <1>3, ZenonT(60) DEF AdminWrite
    <2>2. call[x] \in Call
      BY DEF TypeOK
    <2>3. call'[x].pc = call[x].pc /\ call'[x].stale = s
      BY <2>1, <2>2, ZenonT(60) DEF Call
    <2>4. QED
      BY <2>3, ZenonT(60) DEF At
  <1>4. OthersRemain'
    <2>1. ASSUME NEW x \in Workers
          PROVE  ~(At(x, "write") /\ Removes(Head(call[x].todo)) /\ ~call[x].stale)'
      <3>1. CASE x = w
        BY <1>1, <3>1, ZenonT(60) DEF At, Removes
      <3>2. CASE x # w
        BY <1>3, <3>2, ZenonT(60)
      <3>3. QED
        BY <3>1, <3>2
    <2>2. QED
      BY <2>1, ZenonT(60) DEF OthersRemain
  <1>5. \A a \in Admins \ {q.who} : ActiveAdmin(a)' <=> ActiveAdmin(a)
    <2>1. \A a \in Subjects \ {q.who} : account'[a] = account[a]
      <3> HIDE DEF q, c
      <3>1. QED
        BY <1>1 DEF TypeOK
    <2>2. QED
      BY <2>1 DEF ActiveAdmin, Has, Subjects
  <1>6. ASSUME NEW a \in Admins, a = q.who, ~Removes(c), ActiveAdmin(a)
        PROVE  ActiveAdmin(a)'
    <2> DEFINE r == account[a]
    <2>1. account'[a] = Changed(r, c)
      <3> HIDE DEF c
      <3>1. a \in Subjects
        BY DEF Subjects
      <3> HIDE DEF q
      <3>2. QED
        BY <1>1, <1>6, <3>1 DEF TypeOK
    <2>2. Changed(r, c) # Nil
      BY <1>1, <1>6, ChangedFacts, AccountsAssumption
    <2>3. r.role = "admin" /\ r.active /\ r \in Row
      BY <1>1, <1>6, ZenonT(60) DEF ActiveAdmin
    <2>4. c = "promote" \/ c = "activate"
      BY <1>1, <1>6 DEF Removes, AdminChanges
    <2>5. [r EXCEPT !.role = "admin"].role = "admin" /\ [r EXCEPT !.role = "admin"].active = r.active
          /\ [r EXCEPT !.active = TRUE].role = r.role /\ [r EXCEPT !.active = TRUE].active = TRUE
      BY <2>3, ZenonT(60) DEF Row
    <2>6. Changed(r, c) = [r EXCEPT !.role = "admin"] \/ Changed(r, c) = [r EXCEPT !.active = TRUE]
      BY <2>4 DEF Changed
    <2> HIDE DEF r
    <2>7. Changed(r, c).role = "admin" /\ Changed(r, c).active
      BY <2>3, <2>5, <2>6, ZenonT(60)
    <2>8. QED
      BY <2>1, <2>2, <2>7, ZenonT(60) DEF ActiveAdmin, Has
  <1>7. AnAdminRemains'
    <2>1. CASE outran
      BY <1>2, <2>1, ZenonT(60) DEF AnAdminRemains
    <2>2. CASE ~outran /\ ~(Removes(c) /\ ActiveAdmin(q.who))
      <3>1. PICK a \in Admins : ActiveAdmin(a)
        BY <2>2, ZenonT(60) DEF AnAdminRemains
      <3>2. CASE a = q.who
        <4>1. ~Removes(c)
          BY <2>2, <3>1, <3>2, ZenonT(60)
        <4>2. QED
          BY <1>6, <3>1, <3>2, <4>1, ZenonT(60) DEF AnAdminRemains
      <3>3. CASE a # q.who
        BY <1>5, <3>1, <3>3, ZenonT(60) DEF AnAdminRemains
      <3>4. QED
        BY <3>2, <3>3
    <2>3. CASE Removes(c) /\ ActiveAdmin(q.who) /\ ~q.stale
      <3>1. \E a \in Admins \ {q.who} : ActiveAdmin(a)
        BY <1>1, <2>3, ZenonT(60) DEF OthersRemain, At
      <3>2. QED
        BY <1>5, <3>1, ZenonT(60) DEF AnAdminRemains
    <2>4. CASE Removes(c) /\ q.stale
      BY <1>2, <2>4, ZenonT(60) DEF AnAdminRemains
    <2>5. QED
      BY <2>1, <2>2, <2>3, <2>4, ZenonT(60)
  <1>8. QED
    BY <1>4, <1>7

(* Accounts created, and steps that change no request.                     *)
LEMMA NobodyMoves ==
  ASSUME TypeOK, CallsOK, OthersRemain, AnAdminRemains, call' = call, outran' = outran,
         \A a \in Admins : account[a] # Nil => account'[a] = account[a]
  PROVE  OthersRemain' /\ AnAdminRemains'
  <1>1. \A a \in Admins : ActiveAdmin(a) => ActiveAdmin(a)'
    BY DEF ActiveAdmin, Has
  <1>2. ASSUME NEW x \in Workers,
               (At(x, "write") /\ Removes(Head(call[x].todo)) /\ ~call[x].stale
                /\ ActiveAdmin(call[x].who))'
        PROVE  /\ At(x, "write") /\ Removes(Head(call[x].todo)) /\ ~call[x].stale
               /\ ActiveAdmin(call[x].who) /\ call'[x].who = call[x].who
    <2>1. CallOK(call[x], account, ended) /\ call'[x] = call[x]
      BY ZenonT(60) DEF CallsOK
    <2>2. At(x, "write") /\ Removes(Head(call[x].todo)) /\ ~call[x].stale
          /\ ActiveAdmin(call[x].who)'
      BY <1>2, <2>1, ZenonT(60) DEF At, Removes
    <2>3. call[x].who \in Admins /\ account[call[x].who] # Nil
      BY <2>1, <2>2 DEF CallOK, At
    <2>4. PICK a \in Admins : a = call[x].who
      BY <2>3
    <2>5. call'[x].who = a
      BY <2>1, <2>4
    <2>6. ActiveAdmin(a)'
      BY <1>2, <2>5, ZenonT(60) DEF ActiveAdmin, Has
    <2>7. ActiveAdmin(a)
      BY <2>3, <2>4, <2>6 DEF ActiveAdmin, Has
    <2>8. QED
      BY <2>1, <2>2, <2>4, <2>7, ZenonT(60)
  <1>3. QED
    BY <1>1, <1>2, NobodyRemoved, ZenonT(60)

LEMMA AdminStep ==
  ASSUME TypeOK, CallsOK, OthersRemain, AnAdminRemains, Next
  PROVE  OthersRemain' /\ AnAdminRemains'
  <1>1. ASSUME NEW w \in Workers,
               \/ \E a \in Subjects : LoginRead(w, a)
               \/ LoginCreate(w) \/ Revoke(w) \/ OwnWrite(w) \/ Close(w) \/ Cap(w)
               \/ Details(w) \/ Fail(w)
               \/ \E m \in Members : PasswordReset(w, m) \/ OwnPassword(w, m)
        PROVE  OthersRemain' /\ AnAdminRemains'
    <2>1. UNCHANGED <<account, outran>> /\ \E c : Move(w, c) /\ c.pc # "write"
      BY <1>1, MovesPass, ZenonT(60)
    <2>2. PICK c : Move(w, c) /\ c.pc # "write"
      BY <2>1
    <2>3. outran' = outran /\ \A a \in Admins : account'[a] = account[a]
      BY <2>1
    <2>4. QED
      BY <2>2, <2>3, MoveRemoves, ZenonT(60)
  <1>2. ASSUME NEW w \in Workers, NEW m \in Members, NEW v \in {TRUE, FALSE, Nil},
               MemberUpdate(w, m, v)
        PROVE  OthersRemain' /\ AnAdminRemains'
    <2> DEFINE p == IF v = FALSE THEN "revoke" ELSE "details"
               c == [Free EXCEPT !.pc = p, !.who = m, !.todo = <<"details">>]
    <2>1. Move(w, c) /\ outran' = outran
      BY <1>2, ZenonT(60) DEF MemberUpdate
    <2>2. c.pc # "write"
      <3>1. p # "write"
        BY ZenonT(60)
      <3> HIDE DEF p
      <3>2. QED
        BY <3>1 DEF Free
    <2>3. \A b \in Subjects \ {m} : account'[b] = account[b]
      BY <1>2, MemberUpdateTypes, ZenonT(60)
    <2>4. \A a \in Admins : account'[a] = account[a]
      BY <2>3, AccountsAssumption DEF Subjects
    <2> HIDE DEF c
    <2>5. QED
      BY <2>1, <2>2, <2>4, MoveRemoves, ZenonT(60)
  <1>3. ASSUME NEW a \in Subjects, NEW role \in {"admin", "operator", "member"},
               ~Has(a), account' = [account EXCEPT ![a] = RowOf(role)],
               UNCHANGED <<call, session, status, clock, era, ended, kept, uncapped, outran>>
        PROVE  OthersRemain' /\ AnAdminRemains'
    <2>1. \A b \in Subjects : account[b] # Nil => account'[b] = account[b]
      BY <1>3, CreateTypes, ZenonT(60)
    <2>2. \A b \in Admins : account[b] # Nil => account'[b] = account[b]
      BY <2>1 DEF Subjects
    <2>3. QED
      BY <1>3, <2>2, NobodyMoves, ZenonT(60)
  <1>4. ASSUME NEW m \in Members, Enrol(m), UNCHANGED call
        PROVE  OthersRemain' /\ AnAdminRemains'
    <2>1. m \in Subjects
      BY DEF Subjects
    <2>2. QED
      BY <1>3, <1>4, <2>1, ZenonT(60) DEF Enrol
  <1>5. ASSUME NEW a \in Admins, NEW role \in {"admin", "operator"}, AdminCreate(a, role)
        PROVE  OthersRemain' /\ AnAdminRemains'
    <2>1. a \in Subjects /\ role \in {"admin", "operator", "member"}
      BY DEF Subjects
    <2>2. QED
      BY <1>3, <1>5, <2>1, ZenonT(60) DEF AdminCreate
  <1>6. CASE (\E s \in session : Logout(s) \/ Validate(s)) \/ Open \/ Tick
    <2>1. UNCHANGED <<account, call, outran>>
      BY <1>6, ZenonT(60) DEF Logout, Validate, Open, Tick
    <2>2. call' = call /\ outran' = outran
          /\ \A a \in Admins : account[a] # Nil => account'[a] = account[a]
      BY <2>1
    <2>3. QED
      BY <2>2, NobodyMoves, ZenonT(60)
  <1>7. ASSUME NEW w \in Workers, Handle(w)
        PROVE  OthersRemain' /\ AnAdminRemains'
    BY <1>1, <1>7, ReadsRemove, WriteRemoves, ZenonT(60) DEF Handle
  <1>8. QED
    BY <1>1, <1>2, <1>4, <1>5, <1>6, <1>7, ZenonT(60) DEF Next, Other

-----------------------------------------------------------------------------
(***************************************************************************)
(* Sessions                                                                *)
(***************************************************************************)
(* What a step must see to for the sessions of a subject to end: none is   *)
(* moved to a later era, an era ends with a change of his own or with      *)
(* someone to delete the sessions, and who is to delete them stays or does.*)
LEMMA ErasEnd ==
  ASSUME TypeOK, TypeOK', ResetEndsSessions,
         \A s \in session' : \/ \E r \in session : r.who = s.who /\ r.era = s.era
                             \/ s.era = era'[s.who],
         owned \subseteq owned',
         \A a \in Subjects : \/ era'[a] = era[a]
                             \/ a \in kept' \/ RevokePending(a)'
                             \/ era'[a] = era[a] + 1 /\ <<a, era[a]>> \in owned',
         \A a \in Subjects : a \in kept \/ RevokePending(a)
                             => \/ a \in kept' \/ RevokePending(a)'
                                \/ \A s \in session' : s.who # a
  PROVE  ResetEndsSessions'
  <1>1. ASSUME NEW s \in session', EndedByOther(s)'
        PROVE  s.who \in kept' \/ RevokePending(s.who)'
    <2>1. s.who \in Subjects /\ s.era \in Nat
      BY DEF TypeOK, Session
    <2> DEFINE a == s.who
    <2>2. era[a] \in Nat /\ era'[a] \in Nat
      BY <2>1 DEF TypeOK
    <2>3. PICK e \in s.era .. era'[a] - 1 : <<a, e>> \notin owned'
      BY <1>1 DEF EndedByOther
    <2>4. s.era # era'[a]
      BY <2>1, <2>2, <2>3
    <2>5. PICK r \in session : r.who = a /\ r.era = s.era
      BY <2>4
    <2>6. CASE e \in r.era .. era[a] - 1
      <3>1. EndedByOther(r)
        BY <2>3, <2>5, <2>6 DEF EndedByOther
      <3>2. a \in kept \/ RevokePending(a)
        BY <2>5, <3>1 DEF ResetEndsSessions
      <3>3. QED
        BY <2>1, <3>2
    <2>7. CASE e \notin r.era .. era[a] - 1
      <3>1. era'[a] # era[a]
        BY <2>2, <2>3, <2>5, <2>7
      <3>2. era'[a] = era[a] + 1 => e = era[a]
        BY <2>1, <2>2, <2>3, <2>5, <2>7
      <3>3. \/ a \in kept' \/ RevokePending(a)'
            \/ era'[a] = era[a] + 1 /\ <<a, era[a]>> \in owned'
        BY <2>1, <3>1
      <3>4. ~(era'[a] = era[a] + 1 /\ <<a, era[a]>> \in owned')
        BY <2>3, <3>2
      <3>5. QED
        BY <3>3, <3>4
    <2>8. QED
      BY <2>6, <2>7
  <1>2. QED
    BY <1>1, ZenonT(60) DEF ResetEndsSessions

(* The same of the sessions that an incident outlives.                     *)
LEMMA ClosesEnd ==
  ASSUME TypeOK, TypeOK', SessionsEndWithIncident, ended' = ended, uncapped \subseteq uncapped',
         \A s \in session' :
           \/ \E r \in session : r.who = s.who /\ r.closes = s.closes /\ s.exp =< r.exp
           \/ s.closes = Len(ended),
         \A n \in 1 .. Len(ended) : CapPending(n)
           => \/ CapPending(n)' \/ n \in uncapped'
              \/ \A s \in session' : s.who \in Members => s.exp =< ended[n] + Grace
  PROVE  SessionsEndWithIncident'
  <1>1. ASSUME NEW s \in session', NEW n \in 1 .. Len(ended), s.who \in Members, s.closes < n
        PROVE  s.exp =< ended[n] + Grace \/ n \in uncapped' \/ CapPending(n)'
    <2>1. s.exp \in Nat /\ s.closes \in Nat /\ Len(ended) \in Nat /\ ended[n] \in Nat /\ Grace \in Nat
      <3>1. Grace \in Nat
        BY AccountsAssumption
      <3>2. s.exp \in Nat /\ s.closes \in Nat
        BY <1>1, ZenonT(60) DEF TypeOK, Session
      <3>3. Len(ended) \in Nat /\ ended[n] \in Nat
        BY DEF TypeOK
      <3>4. QED
        BY <3>1, <3>2, <3>3
    <2>2. s.closes # Len(ended)
      BY <1>1, <2>1
    <2>3. PICK r \in session : r.who = s.who /\ r.closes = s.closes /\ s.exp =< r.exp
      BY <2>2
    <2>4. r.exp \in Nat
      BY DEF TypeOK, Session
    <2>5. r.exp =< ended[n] + Grace \/ n \in uncapped \/ CapPending(n)
      BY <1>1, <2>3, ZenonT(60) DEF SessionsEndWithIncident
    <2>6. CASE r.exp =< ended[n] + Grace
      BY <2>1, <2>3, <2>4, <2>6
    <2>7. CASE n \in uncapped \/ CapPending(n)
      BY <1>1, <2>7
    <2>8. QED
      BY <2>5, <2>6, <2>7
  <1>2. QED
    BY <1>1, ZenonT(60) DEF SessionsEndWithIncident

(* Who is to delete or to cap sessions stays until he moves.               *)
LEMMA PendingStays ==
  ASSUME TypeOK, NEW w \in Workers, NEW c, Move(w, c)
  PROVE  /\ \A a : RevokePending(a) => RevokePending(a)' \/ (At(w, "revoke") /\ call[w].who = a)
         /\ \A n : CapPending(n) => CapPending(n)' \/ (At(w, "cap") /\ call[w].nth = n)
         /\ \A a : c.pc = "revoke" /\ c.who = a => RevokePending(a)'
         /\ \A n : c.pc = "cap" /\ c.nth = n => CapPending(n)'
  <1>0. call'[w] = c /\ \A x \in Workers \ {w} : call'[x] = call[x]
    BY MoveFacts
  <1>1. ASSUME NEW a, RevokePending(a)
        PROVE  RevokePending(a)' \/ (At(w, "revoke") /\ call[w].who = a)
    BY <1>0, <1>1 DEF RevokePending, At
  <1>2. ASSUME NEW n, CapPending(n)
        PROVE  CapPending(n)' \/ (At(w, "cap") /\ call[w].nth = n)
    BY <1>0, <1>2 DEF CapPending, At
  <1>3. \A a : c.pc = "revoke" /\ c.who = a => RevokePending(a)'
    BY <1>0 DEF RevokePending, At
  <1>4. \A n : c.pc = "cap" /\ c.nth = n => CapPending(n)'
    BY <1>0 DEF CapPending, At
  <1>5. QED
    BY <1>1, <1>2, <1>3, <1>4

(* Requests that have nothing to do with sessions yet.                     *)
LEMMA MovesEnd ==
  ASSUME TypeOK, TypeOK', ResetEndsSessions, SessionsEndWithIncident,
         NEW w \in Workers, NEW c, Move(w, c), ~At(w, "revoke"), ~At(w, "cap"),
         UNCHANGED <<session, era, owned, ended, kept, uncapped>>
  PROVE  ResetEndsSessions' /\ SessionsEndWithIncident'
  <1>1. /\ \A a : RevokePending(a) => RevokePending(a)'
        /\ \A n : CapPending(n) => CapPending(n)'
    BY PendingStays
  <1>2. session' = session /\ era' = era /\ owned' = owned /\ ended' = ended /\ kept' = kept
        /\ uncapped' = uncapped
    OBVIOUS
  <1>3. \A s \in session' : s.exp \in Nat
    BY DEF TypeOK, Session
  <1>4. ResetEndsSessions'
    BY <1>1, <1>2, ErasEnd
  <1>5. SessionsEndWithIncident'
    BY <1>1, <1>2, <1>3, ClosesEnd
  <1>6. QED
    BY <1>4, <1>5

(* A session that ends, or was looked at.                                  *)
LEMMA SessionsShrink ==
  ASSUME TypeOK, TypeOK', ResetEndsSessions, SessionsEndWithIncident,
         UNCHANGED <<call, era, owned, ended, kept, uncapped>>,
         \A s \in session' : \E r \in session :
           r.who = s.who /\ r.era = s.era /\ r.closes = s.closes /\ s.exp = r.exp
  PROVE  ResetEndsSessions' /\ SessionsEndWithIncident'
  <1>1. /\ \A a : RevokePending(a) => RevokePending(a)'
        /\ \A n : CapPending(n) => CapPending(n)'
    BY DEF RevokePending, CapPending, At
  <1>2. era' = era /\ owned' = owned /\ ended' = ended /\ kept' = kept /\ uncapped' = uncapped
    OBVIOUS
  <1>3. \A s \in session' : s.exp \in Nat
    BY DEF TypeOK, Session
  <1>4. ResetEndsSessions'
    BY <1>1, <1>2, ErasEnd
  <1>5. \A s \in session' : \E r \in session : r.who = s.who /\ r.closes = s.closes /\ s.exp =< r.exp
    BY <1>3
  <1>6. SessionsEndWithIncident'
    BY <1>1, <1>2, <1>5, ClosesEnd
  <1>7. QED
    BY <1>4, <1>6

(* A session put down belongs to the present era and incident.             *)
LEMMA LoginEnds ==
  ASSUME TypeOK, TypeOK', ResetEndsSessions, SessionsEndWithIncident,
         NEW w \in Workers, LoginCreate(w)
  PROVE  ResetEndsSessions' /\ SessionsEndWithIncident'
  <1> DEFINE q == call[w]
             n == [who |-> q.who, exp |-> q.at + TTL(q.who), seen |-> q.at,
                   era |-> era[q.who], closes |-> Len(ended)]
  <1>1. /\ session' = session \cup {n} /\ Move(w, Free)
        /\ era' = era /\ owned' = owned /\ ended' = ended /\ kept' = kept /\ uncapped' = uncapped
    BY ZenonT(60) DEF LoginCreate
  <1>2. n.who = q.who /\ n.era = era[q.who] /\ n.closes = Len(ended)
    OBVIOUS
  <1> HIDE DEF n
  <1>3. /\ \A a : RevokePending(a) => RevokePending(a)'
        /\ \A k : CapPending(k) => CapPending(k)'
    BY <1>1, PendingStays DEF LoginCreate, At
  <1>4. \A s \in session : s.exp \in Nat
    BY DEF TypeOK, Session
  <1>5. ResetEndsSessions'
    <2>1. \A s \in session' : \/ \E r \in session : r.who = s.who /\ r.era = s.era
                              \/ s.era = era'[s.who]
      BY <1>1, <1>2
    <2>2. QED
      BY <1>1, <1>3, <2>1, ErasEnd
  <1>6. SessionsEndWithIncident'
    <2>1. \A s \in session' :
            \/ \E r \in session : r.who = s.who /\ r.closes = s.closes /\ s.exp =< r.exp
            \/ s.closes = Len(ended)
      BY <1>1, <1>2, <1>4
    <2>2. QED
      BY <1>1, <1>3, <2>1, ClosesEnd
  <1>7. QED
    BY <1>5, <1>6

(* RevokeAllForSubject does what was pending.                              *)
LEMMA RevokeEnds ==
  ASSUME TypeOK, TypeOK', ResetEndsSessions, SessionsEndWithIncident,
         NEW w \in Workers, Revoke(w)
  PROVE  ResetEndsSessions' /\ SessionsEndWithIncident'
  <1> DEFINE q == call[w]
             c == IF q.todo = <<>> THEN Free ELSE [q EXCEPT !.pc = "details"]
  <1>1. /\ session' = {s \in session : s.who # q.who} /\ kept' = kept \ {q.who} /\ Move(w, c)
        /\ era' = era /\ owned' = owned /\ ended' = ended /\ uncapped' = uncapped
        /\ q.pc = "revoke"
    BY ZenonT(60) DEF Revoke, At
  <1> HIDE DEF c
  <1>2. /\ \A a : RevokePending(a) => RevokePending(a)' \/ a = q.who
        /\ \A n : CapPending(n) => CapPending(n)'
    BY <1>1, PendingStays DEF At
  <1>3. \A s \in session : s.exp \in Nat
    BY DEF TypeOK, Session
  <1>4. ResetEndsSessions'
    <2>1. \A a \in Subjects : a \in kept \/ RevokePending(a)
            => a \in kept' \/ RevokePending(a)' \/ \A s \in session' : s.who # a
      BY <1>1, <1>2
    <2>2. \A s \in session' : \E r \in session : r.who = s.who /\ r.era = s.era
      BY <1>1
    <2>3. QED
      BY <1>1, <2>1, <2>2, ErasEnd
  <1>5. SessionsEndWithIncident'
    <2>1. \A s \in session' : \E r \in session : r.who = s.who /\ r.closes = s.closes /\ s.exp =< r.exp
      BY <1>1, <1>3
    <2>2. QED
      BY <1>1, <1>2, <2>1, ClosesEnd
  <1>6. QED
    BY <1>4, <1>5

(* ExpireMemberSessionsBy caps what the close left pending: its time is    *)
(* that of the close.                                                      *)
LEMMA CapEnds ==
  ASSUME TypeOK, TypeOK', CallsOK, ResetEndsSessions, SessionsEndWithIncident,
         NEW w \in Workers, Cap(w)
  PROVE  ResetEndsSessions' /\ SessionsEndWithIncident'
  <1> DEFINE q == call[w]
             capped(s) == IF s.who \in Members
                          THEN [s EXCEPT !.exp = Least(@, q.at + Grace)] ELSE s
  <1>1. /\ session' = {capped(s) : s \in session} /\ Move(w, Free) /\ q.pc = "cap"
        /\ era' = era /\ owned' = owned /\ ended' = ended /\ kept' = kept /\ uncapped' = uncapped
    BY ZenonT(60) DEF Cap, At
  <1>2. q.nth \in 1 .. Len(ended) /\ q.at = ended[q.nth] /\ q.at \in Nat /\ Grace \in Nat
    BY <1>1, AccountsAssumption DEF CallsOK, CallOK, TypeOK, Call
  <1>3. ASSUME NEW s \in session
        PROVE  /\ capped(s).who = s.who /\ capped(s).era = s.era /\ capped(s).closes = s.closes
               /\ capped(s).exp =< s.exp
               /\ s.who \in Members => capped(s).exp =< q.at + Grace
    <2> DEFINE e == Least(s.exp, q.at + Grace)
               d == [s EXCEPT !.exp = e]
    <2>1. s \in Session /\ s.exp \in Nat
      BY DEF TypeOK, Session
    <2>2. e =< s.exp /\ e =< q.at + Grace
      BY <1>2, <2>1 DEF Least
    <2>3. d.who = s.who /\ d.era = s.era /\ d.closes = s.closes /\ d.exp = e
      <3> HIDE DEF e
      <3>1. QED
        BY <2>1, ZenonT(60) DEF Session
    <2>4. (s.who \in Members => capped(s) = d) /\ (s.who \notin Members => capped(s) = s)
      BY ZenonT(60)
    <2> HIDE DEF capped, d, e
    <2>5. QED
      BY <2>1, <2>2, <2>3, <2>4
  <1> HIDE DEF capped
  <1>4. /\ \A a : RevokePending(a) => RevokePending(a)'
        /\ \A n : CapPending(n) => CapPending(n)' \/ n = q.nth
    BY <1>1, PendingStays DEF At
  <1>5. ResetEndsSessions'
    <2>1. \A s \in session' : \E r \in session : r.who = s.who /\ r.era = s.era
      BY <1>1, <1>3
    <2>2. QED
      BY <1>1, <1>4, <2>1, ErasEnd
  <1>6. SessionsEndWithIncident'
    <2>1. \A s \in session' : \E r \in session : r.who = s.who /\ r.closes = s.closes /\ s.exp =< r.exp
      BY <1>1, <1>3
    <2>2. \A s \in session' : s.who \in Members => s.exp =< ended[q.nth] + Grace
      BY <1>1, <1>2, <1>3
    <2>3. QED
      BY <1>1, <1>4, <2>1, <2>2, ClosesEnd
  <1>7. QED
    BY <1>5, <1>6

(* A request cut short is among the exceptions; a change of one's own is   *)
(* one too.                                                                *)
LEMMA FailEnds ==
  ASSUME TypeOK, TypeOK', ResetEndsSessions, SessionsEndWithIncident,
         NEW w \in Workers, Fail(w)
  PROVE  ResetEndsSessions' /\ SessionsEndWithIncident'
  <1> DEFINE q == call[w]
  <1>1. /\ Move(w, Free) /\ session' = session
        /\ era' = era /\ owned' = owned /\ ended' = ended
        /\ kept' = IF At(w, "revoke") THEN kept \cup {q.who} ELSE kept
        /\ uncapped' = IF At(w, "cap") THEN uncapped \cup {q.nth} ELSE uncapped
    BY ZenonT(60) DEF Fail
  <1>2. kept \subseteq kept' /\ uncapped \subseteq uncapped'
        /\ (At(w, "revoke") => q.who \in kept') /\ (At(w, "cap") => q.nth \in uncapped')
    BY <1>1
  <1>3. /\ \A a : RevokePending(a) => RevokePending(a)' \/ a \in kept'
        /\ \A n : CapPending(n) => CapPending(n)' \/ n \in uncapped'
    BY <1>1, <1>2, PendingStays
  <1>4. \A s \in session : s.exp \in Nat
    BY DEF TypeOK, Session
  <1>5. ResetEndsSessions'
    BY <1>1, <1>2, <1>3, ErasEnd
  <1>6. SessionsEndWithIncident'
    BY <1>1, <1>2, <1>3, <1>4, ClosesEnd
  <1>7. QED
    BY <1>5, <1>6

LEMMA OwnEnds ==
  ASSUME TypeOK, TypeOK', CallsOK, ResetEndsSessions, SessionsEndWithIncident,
         NEW w \in Workers, OwnWrite(w)
  PROVE  ResetEndsSessions' /\ SessionsEndWithIncident'
  <1> DEFINE m == call[w].who
  <1>1. /\ Move(w, Free) /\ session' = session /\ ended' = ended /\ kept' = kept
        /\ uncapped' = uncapped /\ call[w].pc = "own"
        /\ owned' = owned \cup {<<m, era[m]>>} /\ era' = [era EXCEPT ![m] = @ + 1]
    BY ZenonT(60) DEF OwnWrite, At
  <1>2. /\ \A a : RevokePending(a) => RevokePending(a)'
        /\ \A n : CapPending(n) => CapPending(n)'
    BY <1>1, PendingStays DEF At
  <1> HIDE DEF m
  <1>3. \A a \in Subjects : \/ era'[a] = era[a]
                            \/ era'[a] = era[a] + 1 /\ <<a, era[a]>> \in owned'
    BY <1>1 DEF TypeOK
  <1>4. \A s \in session : s.exp \in Nat
    BY DEF TypeOK, Session
  <1>5. ResetEndsSessions'
    BY <1>1, <1>2, <1>3, ErasEnd
  <1>6. SessionsEndWithIncident'
    BY <1>1, <1>2, <1>4, ClosesEnd
  <1>7. QED
    BY <1>5, <1>6

(* An era that ends by someone else leaves a request to delete the         *)
(* sessions.                                                               *)
LEMMA EraEnds ==
  ASSUME TypeOK, TypeOK', ResetEndsSessions, SessionsEndWithIncident,
         NEW a \in Subjects, \A b \in Subjects \ {a} : era'[b] = era[b],
         era'[a] = era[a] \/ RevokePending(a)',
         \A b : RevokePending(b) => RevokePending(b)',
         \A n : CapPending(n) => CapPending(n)',
         UNCHANGED <<session, owned, ended, kept, uncapped>>
  PROVE  ResetEndsSessions' /\ SessionsEndWithIncident'
  <1>1. session' = session /\ owned' = owned /\ ended' = ended /\ kept' = kept
        /\ uncapped' = uncapped
    OBVIOUS
  <1>2. \A b \in Subjects : era'[b] = era[b] \/ RevokePending(b)'
    <2>1. ASSUME NEW b \in Subjects PROVE era'[b] = era[b] \/ RevokePending(b)'
      <3>1. CASE b = a
        <4>1. CASE era'[a] = era[a]
          BY <3>1, <4>1
        <4>2. CASE RevokePending(a)'
          BY <3>1, <4>2 DEF RevokePending, At
        <4>3. QED
          BY <4>1, <4>2
      <3>2. CASE b # a
        BY <3>2
      <3>3. QED
        BY <3>1, <3>2
    <2>2. QED
      BY <2>1
  <1>3. \A s \in session : s.exp \in Nat
    BY DEF TypeOK, Session
  <1>4. ResetEndsSessions'
    BY <1>1, <1>2, ErasEnd
  <1>5. SessionsEndWithIncident'
    BY <1>1, <1>3, ClosesEnd
  <1>6. QED
    BY <1>4, <1>5

LEMMA ResetEnds ==
  ASSUME TypeOK, TypeOK', ResetEndsSessions, SessionsEndWithIncident,
         NEW w \in Workers, NEW m \in Members, PasswordReset(w, m)
  PROVE  ResetEndsSessions' /\ SessionsEndWithIncident'
  <1> DEFINE c == [Free EXCEPT !.pc = "revoke", !.who = m]
  <1>1. /\ Move(w, c) /\ era' = [era EXCEPT ![m] = @ + 1] /\ call[w].pc = "free"
        /\ UNCHANGED <<session, owned, ended, kept, uncapped>>
    BY ZenonT(60) DEF PasswordReset, Comes, At
  <1>2. c.pc = "revoke" /\ c.who = m
    BY DEF Free
  <1> HIDE DEF c
  <1>3. /\ RevokePending(m)'
        /\ \A a : RevokePending(a) => RevokePending(a)'
        /\ \A n : CapPending(n) => CapPending(n)'
    BY <1>1, <1>2, PendingStays DEF At
  <1>4. m \in Subjects /\ \A b \in Subjects \ {m} : era'[b] = era[b]
    BY <1>1 DEF TypeOK, Subjects
  <1>5. QED
    BY <1>1, <1>3, <1>4, EraEnds

LEMMA UpdateEnds ==
  ASSUME TypeOK, TypeOK', CallsOK, ResetEndsSessions, SessionsEndWithIncident,
         NEW w \in Workers, NEW m \in Members, NEW v \in {TRUE, FALSE, Nil}, MemberUpdate(w, m, v)
  PROVE  ResetEndsSessions' /\ SessionsEndWithIncident'
  <1> DEFINE p == IF v = FALSE THEN "revoke" ELSE "details"
             c == [Free EXCEPT !.pc = p, !.who = m, !.todo = <<"details">>]
             e == IF v = FALSE THEN era[m] + 1 ELSE era[m]
  <1>1. /\ Move(w, c) /\ era' = [era EXCEPT ![m] = e] /\ call[w].pc = "free"
        /\ UNCHANGED <<session, owned, ended, kept, uncapped>>
    BY ZenonT(60) DEF MemberUpdate, Comes, At
  <1>2. c.pc = p /\ c.who = m
    <2> HIDE DEF p
    <2>1. QED
      BY DEF Free
  <1>3. p = "revoke" \/ e = era[m]
    BY ZenonT(60)
  <1> HIDE DEF c, p, e
  <1>4. /\ p = "revoke" => RevokePending(m)'
        /\ \A a : RevokePending(a) => RevokePending(a)'
        /\ \A n : CapPending(n) => CapPending(n)'
    BY <1>1, <1>2, PendingStays DEF At
  <1>5. m \in Subjects /\ era'[m] = e /\ \A b \in Subjects \ {m} : era'[b] = era[b]
    BY <1>1 DEF TypeOK, Subjects
  <1>6. era'[m] = era[m] \/ RevokePending(m)'
    BY <1>3, <1>4, <1>5
  <1>7. QED
    BY <1>1, <1>4, <1>5, <1>6, EraEnds

LEMMA WriteEnds ==
  ASSUME TypeOK, TypeOK', CallsOK, ResetEndsSessions, SessionsEndWithIncident,
         NEW w \in Workers, AdminWrite(w)
  PROVE  ResetEndsSessions' /\ SessionsEndWithIncident'
  <1> DEFINE q == call[w]
             c == Head(q.todo)
             e == IF c = "deactivate" THEN era[q.who] + 1 ELSE era[q.who]
  <1>1. /\ q.pc = "write" /\ q.who \in Admins
        /\ c = "deactivate" => call'[w].pc = "revoke" /\ call'[w].who = q.who
    BY AdminWriteTypes, ZenonT(60)
  <1>2. /\ era' = [era EXCEPT ![q.who] = e]
        /\ UNCHANGED <<session, owned, ended, kept, uncapped>>
    BY ZenonT(60) DEF AdminWrite
  <1>3. ASSUME NEW x \in Workers, x # w
        PROVE  call'[x].pc = call[x].pc /\ call'[x].who = call[x].who /\ call'[x].nth = call[x].nth
    <2> DEFINE s == At(x, "count") \/ At(x, "write")
    <2>1. call'[x] = [call[x] EXCEPT !.stale = s]
      BY <1>3, ZenonT(60) DEF AdminWrite
    <2>2. call[x] \in Call
      BY DEF TypeOK
    <2> HIDE DEF s
    <2>3. QED
      BY <2>1, <2>2, ZenonT(60) DEF Call
  <1>4. /\ \A a : RevokePending(a) => RevokePending(a)'
        /\ \A n : CapPending(n) => CapPending(n)'
    <2>1. ASSUME NEW a, RevokePending(a) PROVE RevokePending(a)'
      <3>1. PICK x \in Workers : call[x].pc = "revoke" /\ call[x].who = a
        BY <2>1 DEF RevokePending, At
      <3>2. x # w
        BY <1>1, <3>1
      <3>3. QED
        BY <1>3, <3>1, <3>2 DEF RevokePending, At
    <2>2. ASSUME NEW n, CapPending(n) PROVE CapPending(n)'
      <3>1. PICK x \in Workers : call[x].pc = "cap" /\ call[x].nth = n
        BY <2>2 DEF CapPending, At
      <3>2. x # w
        BY <1>1, <3>1
      <3>3. QED
        BY <1>3, <3>1, <3>2 DEF CapPending, At
    <2>3. QED
      BY <2>1, <2>2
  <1>5. PICK a \in Subjects : a = q.who
    BY <1>1 DEF Subjects
  <1>6. c # "deactivate" => e = era[a]
    BY <1>5, ZenonT(60)
  <1> HIDE DEF e, q, c
  <1>7. era'[a] = e /\ \A b \in Subjects \ {a} : era'[b] = era[b]
    BY <1>2, <1>5 DEF TypeOK
  <1>8. era'[a] = era[a] \/ RevokePending(a)'
    <2>1. CASE c = "deactivate"
      BY <1>1, <1>5, <2>1 DEF RevokePending, At
    <2>2. CASE c # "deactivate"
      BY <1>6, <1>7, <2>2
    <2>3. QED
      BY <2>1, <2>2
  <1>9. QED
    BY <1>2, <1>4, <1>7, <1>8, EraEnds

(* A close leaves the cap pending.                                         *)
LEMMA CloseEnds ==
  ASSUME TypeOK, TypeOK', CallsOK, ResetEndsSessions, SessionsEndWithIncident,
         NEW w \in Workers, Close(w)
  PROVE  ResetEndsSessions' /\ SessionsEndWithIncident'
  <1> DEFINE c == [Free EXCEPT !.pc = "cap", !.at = clock, !.nth = Len(ended) + 1]
  <1>1. /\ Move(w, c) /\ ended' = Append(ended, clock) /\ call[w].pc = "free"
        /\ session' = session /\ era' = era /\ owned' = owned /\ kept' = kept
        /\ uncapped' = uncapped
    BY ZenonT(60) DEF Close, Comes, At
  <1>2. c.pc = "cap" /\ c.nth = Len(ended) + 1
    BY DEF Free
  <1> HIDE DEF c
  <1>3. /\ \A n : n = Len(ended) + 1 => CapPending(n)'
        /\ \A a : RevokePending(a) => RevokePending(a)'
        /\ \A n : CapPending(n) => CapPending(n)'
    <2>1. \A n : n = Len(ended) + 1 => CapPending(n)'
      BY <1>1, <1>2, PendingStays
    <2>2. \A a : RevokePending(a) => RevokePending(a)'
      BY <1>1, PendingStays DEF At
    <2>3. \A n : CapPending(n) => CapPending(n)'
      BY <1>1, PendingStays DEF At
    <2>4. QED
      BY <2>1, <2>2, <2>3
  <1>4. ResetEndsSessions'
    BY <1>1, <1>3, ErasEnd
  <1>5. /\ ended \in Seq(Nat) /\ Len(ended) \in Nat /\ Len(ended') = Len(ended) + 1
        /\ \A n \in 1 .. Len(ended) : ended'[n] = ended[n]
    BY <1>1 DEF TypeOK
  <1>6. ASSUME NEW s \in session', NEW n \in 1 .. Len(ended'), s.who \in Members, s.closes < n
        PROVE  s.exp =< ended'[n] + Grace \/ n \in uncapped' \/ CapPending(n)'
    <2>1. CASE n = Len(ended) + 1
      BY <1>3, <2>1
    <2>2. CASE n # Len(ended) + 1
      <3>1. n \in 1 .. Len(ended) /\ s \in session
        BY <1>1, <1>5, <2>2
      <3>2. s.exp =< ended[n] + Grace \/ n \in uncapped \/ CapPending(n)
        BY <1>6, <3>1, ZenonT(60) DEF SessionsEndWithIncident
      <3>3. CapPending(n) => CapPending(n)'
        BY <1>3
      <3>4. QED
        BY <1>1, <1>5, <3>1, <3>2, <3>3
    <2>3. QED
      BY <2>1, <2>2
  <1>7. SessionsEndWithIncident'
    BY <1>6 DEF SessionsEndWithIncident
  <1>8. QED
    BY <1>4, <1>7

LEMMA SessionStep ==
  ASSUME TypeOK, TypeOK', CallsOK, ResetEndsSessions, SessionsEndWithIncident, Next
  PROVE  ResetEndsSessions' /\ SessionsEndWithIncident'
  <1>1. ASSUME NEW w \in Workers,
               \/ \E a \in Subjects : LoginRead(w, a)
               \/ \E a \in Admins, form \in Forms : AdminUpdate(w, a, form)
               \/ Find(w) \/ Count(w) \/ Details(w)
               \/ \E m \in Members : OwnPassword(w, m)
        PROVE  ResetEndsSessions' /\ SessionsEndWithIncident'
    <2>1. ~At(w, "revoke") /\ ~At(w, "cap")
      <3>1. \/ call[w].pc = "free" \/ call[w].pc = "find" \/ call[w].pc = "count"
            \/ call[w].pc = "details"
        BY <1>1, ZenonT(60)
           DEF LoginRead, AdminUpdate, Find, Count, Details, OwnPassword, Comes, At
      <3>2. QED
        BY <3>1 DEF At
    <2>2. UNCHANGED <<session, era, owned, ended, kept, uncapped>> /\ \E c : Move(w, c)
      BY <1>1, ZenonT(60) DEF LoginRead, AdminUpdate, Find, Count, Details, OwnPassword
    <2>3. PICK c : Move(w, c)
      BY <2>2
    <2>4. QED
      BY <2>1, <2>2, <2>3, MovesEnd
  <1>2. CASE \/ \E s \in session : Logout(s) \/ Validate(s)
             \/ \E a \in Admins, role \in {"admin", "operator"} : AdminCreate(a, role)
             \/ \E m \in Members : Enrol(m) /\ UNCHANGED call
             \/ Open \/ Tick
    <2>1. UNCHANGED <<call, era, owned, ended, kept, uncapped>>
      BY <1>2, ZenonT(60) DEF Logout, Validate, AdminCreate, Enrol, Open, Tick
    <2>2. \/ session' \subseteq session
          \/ \E s \in session : session' \subseteq session \cup {[s EXCEPT !.seen = clock]}
      <3>1. CASE \E s \in session : Validate(s)
        BY <3>1, ZenonT(60) DEF Validate
      <3>2. CASE ~ \E s \in session : Validate(s)
        BY <1>2, <3>2 DEF Logout, AdminCreate, Enrol, Open, Tick
      <3>3. QED
        BY <3>1, <3>2
    <2>3. ASSUME NEW s \in session
          PROVE  LET d == [s EXCEPT !.seen = clock]
                 IN  d.who = s.who /\ d.era = s.era /\ d.closes = s.closes /\ d.exp = s.exp
      <3>1. s \in Session
        BY DEF TypeOK
      <3>2. QED
        BY <3>1, ZenonT(60) DEF Session
    <2>4. \A s \in session' : \E r \in session :
            r.who = s.who /\ r.era = s.era /\ r.closes = s.closes /\ s.exp = r.exp
      <3>1. CASE session' \subseteq session
        BY <3>1
      <3>2. ASSUME NEW s \in session, session' \subseteq session \cup {[s EXCEPT !.seen = clock]}
            PROVE  \A t \in session' : \E r \in session :
                     r.who = t.who /\ r.era = t.era /\ r.closes = t.closes /\ t.exp = r.exp
        <4> DEFINE d == [s EXCEPT !.seen = clock]
        <4>1. d.who = s.who /\ d.era = s.era /\ d.closes = s.closes /\ d.exp = s.exp
          BY <2>3, ZenonT(60)
        <4>2. session' \subseteq session \cup {d}
          BY <3>2
        <4> HIDE DEF d
        <4>3. QED
          BY <4>1, <4>2
      <3>3. QED
        BY <2>2, <3>1, <3>2
    <2>5. QED
      BY <2>1, <2>4, SessionsShrink
  <1>3. ASSUME NEW w \in Workers, NEW m \in Members, NEW v \in {TRUE, FALSE, Nil},
               MemberUpdate(w, m, v)
        PROVE  ResetEndsSessions' /\ SessionsEndWithIncident'
    BY <1>3, UpdateEnds, ZenonT(60)
  <1>4. ASSUME NEW w \in Workers, Handle(w) \/ Details(w) \/ Fail(w)
        PROVE  ResetEndsSessions' /\ SessionsEndWithIncident'
    <2>1. CASE LoginCreate(w) \/ Revoke(w) \/ Cap(w) \/ Close(w)
      BY <2>1, LoginEnds, RevokeEnds, CapEnds, CloseEnds, ZenonT(60)
    <2>2. CASE OwnWrite(w) \/ AdminWrite(w) \/ Fail(w)
               \/ \E m \in Members : PasswordReset(w, m)
      BY <2>2, OwnEnds, WriteEnds, FailEnds, ResetEnds, ZenonT(60)
    <2>3. QED
      BY <1>1, <1>4, <2>1, <2>2, ZenonT(60) DEF Handle
  <1>5. QED
    BY <1>2, <1>3, <1>4, ZenonT(60) DEF Next, Other

-----------------------------------------------------------------------------
(***************************************************************************)
(* Theorems                                                                *)
(***************************************************************************)
LEMMA Initially ==
  ASSUME Init
  PROVE  IInv
  <1>1. TypeOK /\ CallsOK
    BY TypeInit
  <1>2. AnAdminRemains
    <2>1. PICK a \in Admins : Enrolled[a] = "admin"
      BY AccountsAssumption
    <2>2. a \in Subjects /\ account[a] = RowOf("admin")
      BY <2>1 DEF Init, Subjects
    <2>3. RowOf("admin") = [role |-> "admin", active |-> TRUE] /\ RowOf("admin") \in Row
      BY RowOfRole
    <2>4. account[a] # Nil
      BY <2>2, <2>3, AccountsAssumption
    <2>5. QED
      BY <2>2, <2>3, <2>4 DEF AnAdminRemains, ActiveAdmin, Has
  <1>3. OthersRemain
    BY DEF Init, OthersRemain, At, Free
  <1>4. ResetEndsSessions /\ SessionsEndWithIncident
    BY ZenonT(60) DEF Init, ResetEndsSessions, SessionsEndWithIncident
  <1>5. QED
    BY <1>1, <1>2, <1>3, <1>4 DEF IInv

LEMMA Inductive ==
  ASSUME IInv, [Next]_accountVars
  PROVE  IInv'
  <1>1. CASE Next
    <2>1. TypeOK' /\ CallsOK'
      BY <1>1, TypeStep DEF IInv
    <2>2. OthersRemain' /\ AnAdminRemains'
      BY <1>1, AdminStep DEF IInv
    <2>3. ResetEndsSessions' /\ SessionsEndWithIncident'
      BY <1>1, <2>1, SessionStep DEF IInv
    <2>4. QED
      BY <2>1, <2>2, <2>3 DEF IInv
  <1>2. CASE UNCHANGED accountVars
    BY <1>2, ZenonT(120) DEF accountVars, IInv, TypeOK, CallsOK, CallOK, AnAdminRemains,
       OthersRemain, ResetEndsSessions, SessionsEndWithIncident, ActiveAdmin, Has, At,
       EndedByOther, RevokePending, CapPending
  <1>3. QED
    BY <1>1, <1>2

(* The inductive invariant holds throughout.                               *)
THEOREM Invariant == Spec => []IInv
  BY Initially, Inductive, PTL DEF Spec

(* Every variable keeps its type: account, session, call and the others.   *)
THEOREM TypeCorrect == Spec => []TypeOK
  <1>1. IInv => TypeOK
    BY DEF IInv
  <1>2. QED
    BY <1>1, Invariant, PTL

(* No sequence of removals leaves the system without an active             *)
(* administrator, unless one of them wrote on an outdated count.           *)
THEOREM AdminRemains == Spec => []AnAdminRemains
  <1>1. IInv => AnAdminRemains
    BY DEF IInv
  <1>2. QED
    BY <1>1, Invariant, PTL

(* A reset or a deactivation ends the sessions that were there.            *)
THEOREM SessionsEndWithReset == Spec => []ResetEndsSessions
  <1>1. IInv => ResetEndsSessions
    BY DEF IInv
  <1>2. QED
    BY <1>1, Invariant, PTL

(* The close of an incident ends the members' sessions within the hour.    *)
THEOREM SessionsEndWithClose == Spec => []SessionsEndWithIncident
  <1>1. IInv => SessionsEndWithIncident
    BY DEF IInv
  <1>2. QED
    BY <1>1, Invariant, PTL
-----------------------------------------------------------------------------
(***************************************************************************)
(* One update of an administrator at a time                                *)
(***************************************************************************)
(* No two requests are between the reading and the writing of an update.   *)
Updating(w) == call[w].pc \in {"find", "count", "write"}
OneEdit    == \A v, w \in Workers : Updating(v) /\ Updating(w) => v = w

(* Nothing has changed since it was read, and nothing was written so.      *)
Fresh == ~outran /\ \A w \in Workers : call[w].stale = FALSE

(* A request that moves on as one whose reading stands.                    *)
LEMMA FreshMove ==
  ASSUME TypeOK, Fresh, NEW w \in Workers, NEW c, Move(w, c), c.stale = FALSE, outran' = outran
  PROVE  Fresh'
  BY DEF TypeOK, Fresh, Move

(* The write of an update leaves it so, when no other update is about.     *)
LEMMA FreshWrite ==
  ASSUME TypeOK, Fresh, OneEdit, NEW w \in Workers, AdminWrite(w)
  PROVE  Fresh'
  <1> DEFINE q    == call[w]
             c    == Head(q.todo)
             rest == Tail(q.todo)
             on   == [q EXCEPT !.pc = PcOf(Head(rest)), !.todo = rest, !.stale = FALSE]
             end  == [q EXCEPT !.pc = "revoke", !.todo = rest]
             next == CASE rest # <<>> -> on
                       [] rest = <<>> /\ c = "deactivate" -> end
                       [] OTHER -> Free
  <1>1. /\ outran' = (outran \/ (Removes(c) /\ q.stale))
        /\ call' = [x \in Workers |->
                      IF x = w THEN next
                      ELSE [call[x] EXCEPT !.stale = At(x, "count") \/ At(x, "write")]]
        /\ At(w, "write")
    BY ZenonT(60) DEF AdminWrite
  <1>2. \A x \in Workers : call[x] \in Call /\ call[x].stale = FALSE
    BY ZenonT(60) DEF Fresh, TypeOK
  <1>3. on.stale = FALSE /\ end.stale = FALSE /\ Free.stale = FALSE
    <2>1. q \in Call /\ q.stale = FALSE
      BY <1>2
    <2> HIDE DEF rest, q
    <2>2. QED
      BY <2>1 DEF Call, Free
  <1>4. next.stale = FALSE
    <2> HIDE DEF on, end, rest, c, q
    <2>1. next \in {on, end, Free}
      OBVIOUS
    <2> HIDE DEF next
    <2>2. QED
      BY <1>3, <2>1
  <1>5. ASSUME NEW x \in Workers, x # w
        PROVE  [call[x] EXCEPT !.stale = At(x, "count") \/ At(x, "write")].stale = FALSE
    <2>1. ~At(x, "count") /\ ~At(x, "write")
      BY <1>1, <1>5 DEF OneEdit, Updating, At
    <2>2. call[x] \in Call
      BY <1>2
    <2> DEFINE b == At(x, "count") \/ At(x, "write")
    <2>3. b = FALSE
      BY <2>1
    <2> HIDE DEF b
    <2>4. [call[x] EXCEPT !.stale = b].stale = FALSE
      BY <2>2, <2>3, ZenonT(60) DEF Call
    <2>5. QED
      BY <2>4 DEF b
  <1>6. ASSUME NEW x \in Workers PROVE call'[x].stale = FALSE
    <2> HIDE DEF next
    <2>1. CASE x = w
      BY <1>1, <1>4, <2>1, ZenonT(60)
    <2>2. CASE x # w
      BY <1>1, <1>5, <2>2, ZenonT(60)
    <2>3. QED
      BY <2>1, <2>2, ZenonT(60)
  <1>7. ~outran'
    BY <1>1, <1>2, ZenonT(60) DEF Fresh
  <1>8. QED
    BY <1>6, <1>7, ZenonT(60) DEF Fresh

(* So does every other step.                                               *)
LEMMA FreshStep ==
  ASSUME TypeOK, Fresh, OneEdit, [Next]_accountVars
  PROVE  Fresh'
  <1>1. \A w \in Workers : call[w] \in Call /\ call[w].stale = FALSE
    BY ZenonT(60) DEF Fresh, TypeOK
  <1>2. UNCHANGED <<call, outran>> => Fresh'
    BY DEF Fresh
  <1>3. Free.stale = FALSE
    BY DEF Free
  <1>3a. \A w \in Workers : \A c :
           Move(w, c) /\ c.stale = FALSE /\ outran' = outran => Fresh'
    BY FreshMove, ZenonT(60)
  <1>4. ASSUME NEW w \in Workers, NEW a \in Subjects, LoginRead(w, a) PROVE Fresh'
    <2>1. Move(w, [Free EXCEPT !.pc = "login", !.who = a, !.at = clock]) /\ outran' = outran
      BY <1>4, ZenonT(60) DEF LoginRead
    <2>2. [Free EXCEPT !.pc = "login", !.who = a, !.at = clock].stale = FALSE
      BY DEF Free
    <2>3. QED
      BY <1>3a, <2>1, <2>2, ZenonT(60)
  <1>5. ASSUME NEW w \in Workers, LoginCreate(w) \/ OwnWrite(w) \/ Cap(w) \/ Details(w) \/ Fail(w)
        PROVE  Fresh'
    <2>1. Move(w, Free) /\ outran' = outran
      BY <1>5, ZenonT(60) DEF LoginCreate, OwnWrite, Cap, Details, Fail
    <2>2. QED
      BY <1>3, <1>3a, <2>1, ZenonT(60)
  <1>6. ASSUME NEW w \in Workers, Revoke(w) \/ Count(w) PROVE Fresh'
    <2>1. PICK c \in {Free, [call[w] EXCEPT !.pc = "details"], [call[w] EXCEPT !.pc = "write"]} :
            Move(w, c) /\ outran' = outran
      <3>1. CASE Revoke(w)
        <4>1. /\ Move(w, IF call[w].todo = <<>> THEN Free ELSE [call[w] EXCEPT !.pc = "details"])
              /\ outran' = outran
          BY <3>1, ZenonT(60) DEF Revoke
        <4>2. QED
          BY <4>1, ZenonT(60)
      <3>2. CASE Count(w)
        <4>1. /\ Move(w, IF TooFew THEN Free ELSE [call[w] EXCEPT !.pc = "write"])
              /\ outran' = outran
          BY <3>2, ZenonT(60) DEF Count
        <4>2. QED
          BY <4>1, ZenonT(60)
      <3>3. QED
        BY <1>6, <3>1, <3>2
    <2>2. c.stale = FALSE
      BY <1>1, <1>3 DEF Call
    <2>3. QED
      BY <1>3a, <2>1, <2>2, ZenonT(60)
  <1>7. ASSUME NEW w \in Workers, Find(w) PROVE Fresh'
    <2> DEFINE p == IF Removes(Head(call[w].todo)) /\ ActiveAdmin(call[w].who)
                    THEN "count" ELSE "write"
    <2>1. Move(w, [call[w] EXCEPT !.stale = FALSE, !.pc = p]) /\ outran' = outran
      BY <1>7, ZenonT(60) DEF Find
    <2> HIDE DEF p
    <2>2. [call[w] EXCEPT !.stale = FALSE, !.pc = p].stale = FALSE
      BY <1>1 DEF Call
    <2>3. QED
      BY <1>3a, <2>1, <2>2, ZenonT(60)
  <1>8. ASSUME NEW w \in Workers, NEW a, NEW form, AdminUpdate(w, a, form) PROVE Fresh'
    <2>1. /\ Move(w, [Free EXCEPT !.pc = PcOf(Head(form)), !.who = a, !.todo = form])
          /\ outran' = outran
      BY <1>8, ZenonT(60) DEF AdminUpdate
    <2>2. [Free EXCEPT !.pc = PcOf(Head(form)), !.who = a, !.todo = form].stale = FALSE
      BY DEF Free
    <2>3. QED
      BY <1>3a, <2>1, <2>2, ZenonT(60)
  <1>9. ASSUME NEW w \in Workers, NEW m \in Members, PasswordReset(w, m) \/ OwnPassword(w, m)
        PROVE  Fresh'
    <2>1. PICK p \in {"revoke", "own"} : Move(w, [Free EXCEPT !.pc = p, !.who = m])
      BY <1>9, ZenonT(60) DEF PasswordReset, OwnPassword
    <2>2. [Free EXCEPT !.pc = p, !.who = m].stale = FALSE
      BY DEF Free
    <2>3. outran' = outran
      BY <1>9, ZenonT(60) DEF PasswordReset, OwnPassword
    <2>4. QED
      BY <1>3a, <2>1, <2>2, <2>3, ZenonT(60)
  <1>10. ASSUME NEW w \in Workers, Close(w) PROVE Fresh'
    <2>1. /\ Move(w, [Free EXCEPT !.pc = "cap", !.at = clock, !.nth = Len(ended) + 1])
          /\ outran' = outran
      BY <1>10, ZenonT(60) DEF Close
    <2>2. [Free EXCEPT !.pc = "cap", !.at = clock, !.nth = Len(ended) + 1].stale = FALSE
      BY DEF Free
    <2>3. QED
      BY <1>3a, <2>1, <2>2, ZenonT(60)
  <1>11. ASSUME NEW w \in Workers, NEW m \in Members, NEW v \in {TRUE, FALSE, Nil},
                MemberUpdate(w, m, v)
         PROVE  Fresh'
    <2> DEFINE p == IF v = FALSE THEN "revoke" ELSE "details"
    <2>1. /\ Move(w, [Free EXCEPT !.pc = p, !.who = m, !.todo = <<"details">>])
          /\ outran' = outran
      BY <1>11, ZenonT(60) DEF MemberUpdate
    <2> HIDE DEF p
    <2>2. [Free EXCEPT !.pc = p, !.who = m, !.todo = <<"details">>].stale = FALSE
      BY DEF Free
    <2>3. QED
      BY <1>3a, <2>1, <2>2, ZenonT(60)
  <1>12. ASSUME NEW w \in Workers, Handle(w) PROVE Fresh'
    BY <1>4, <1>5, <1>6, <1>7, <1>8, <1>9, <1>10, <1>12, FreshWrite, ZenonT(60) DEF Handle
  <1>13. ASSUME Other PROVE Fresh'
    BY <1>2, <1>13, ZenonT(60) DEF Other, Logout, Validate, AdminCreate, Open, Tick
  <1>14. ASSUME NEW m \in Members, Enrol(m), UNCHANGED call PROVE Fresh'
    BY <1>2, <1>14, ZenonT(60) DEF Enrol
  <1>15. CASE UNCHANGED accountVars
    BY <1>2, <1>15 DEF accountVars
  <1>16. QED
    BY <1>5, <1>11, <1>12, <1>13, <1>14, <1>15, ZenonT(60) DEF Next

(* Without overlapping updates an active administrator always remains: the *)
(* count and the write of SetActive and UpdateRole, two statements, can    *)
(* only miss each other's administrator when two such requests overlap;    *)
(* logins, members' requests, failures and new accounts do no harm.        *)
THEOREM SerialRemovals == Spec /\ []OneEdit => [](\E a \in Admins : ActiveAdmin(a))
  <1>1. Init => Fresh
    BY DEF Init, Fresh, Free
  <1>2. IInv /\ Fresh /\ OneEdit /\ [Next]_accountVars => Fresh'
    BY FreshStep DEF IInv
  <1>3. IInv /\ Fresh => \E a \in Admins : ActiveAdmin(a)
    BY DEF IInv, Fresh, AnAdminRemains
  <1>4. QED
    BY <1>1, <1>2, <1>3, Invariant, PTL DEF Spec
=============================================================================
