------------------------------ MODULE Setup_proofs ------------------------------
(***************************************************************************)
(* Proofs about module Setup: for any roster, files and workers, an area   *)
(* in use keeps its shape, what was asked for last stands, and a preview   *)
(* is applied once, with the exceptions the properties name; and what      *)
(* module Accounts promises holds under the setup pages' requests too.     *)
(***************************************************************************)
EXTENDS Setup, Accounts_proofs

USE SMTT(60)

(* The lines of a preview, and what a commit may rely on: the row that an  *)
(* update or a change is for exists.                                       *)
AreaLine ==
  [status : {"error", "update", "new"}, area : AreaIds \cup {Nil}, name : Names, shape : Shapes]
RosterLine ==
  [status : {"error", "new", "unchanged", "changed"}, who : Members \cup {Nil},
   form : MemberRecord \cup {Nobody}]
PlanLine == [status : {"error", "ok"}, team : Teams, area : AreaIds \cup {0}]
Line == AreaLine \cup RosterLine \cup PlanLine

Known == {m \in Members : person[m] # Nil}
AreaLines   == {r \in AreaLine : r.status = "update" => r.area \in Rows}
RosterLines ==
  {r \in RosterLine :
     /\ r.status = "new" => r.form \in MemberRecord
     /\ r.status = "changed" => r.form \in MemberRecord /\ r.who \in Known}

Kept == [kind : {"roster", "area", "plan"}, rows : Seq(Line), at : Nat] \cup {Nil}
Form == [mobile : Mobiles \cup {Nil}, login : Logins \cup {Nil}, home : AreaIds \cup {0, Nil}]
WorkPCs == {"none", "area_write", "del_refs", "switch_off", "area_rows", "plan_save",
            "roster_rows", "read", "write", "login"}
Work ==
  [pc : WorkPCs,
   area : AreaIds \cup {Nil}, name : Names \cup {Nil}, shape : Shapes \cup {Nil}, late : BOOLEAN,
   rows : Seq(Line), who : Members \cup {Nil}, form : Form, read : Form, stale : BOOLEAN,
   created : SUBSET Members]

(* An area in use is known, and whoever writes it has been marked late.    *)
AreasOK ==
  /\ area \in [AreaIds -> AreaRecord \cup {Nil}]
  /\ tasks \cup effs \subseteq Rows /\ overtaken \subseteq AreaIds
  /\ DOMAIN asUsed = AreaIds
  /\ \A a \in AreaIds : asUsed[a] # Nil => InUse(a) /\ (area[a].shape = asUsed[a] \/ a \in overtaken)

(* Every member is an account and the other way round.                     *)
RosterOK ==
  /\ person \in [Members -> MemberRecord \cup {Nil}] /\ want \in [Members -> MemberRecord \cup {Nil}]
  /\ \A m \in Members : (person[m] = Nil <=> account[m] = Nil) /\ (person[m] = Nil <=> want[m] = Nil)
  /\ \A m \in Members : person[m] = want[m] \/ m \in clobbered

(* A preview that can still be taken has not been.                         *)
BookOK ==
  /\ made \in Nat /\ book \in [Tokens -> Kept] /\ applied \in [Tokens -> {0, 1}]
  /\ \A t \in Tokens : (t > made => book[t] = Nil) /\ (t > made \/ book[t] # Nil => applied[t] = 0)
PreviewOK(t) ==
  /\ book[t] # Nil /\ book[t].kind = "area" => book[t].rows \in Seq(AreaLines)
  /\ book[t] # Nil /\ book[t].kind = "roster" => book[t].rows \in Seq(RosterLines)

(* What the statements of a request rely on.                               *)
AreaWork(d) ==
  /\ d.pc = "area_write" =>
       d.area \in Rows /\ d.name \in Names /\ d.shape \in Shapes /\ (InUse(d.area) => d.late)
  /\ d.pc \in {"del_refs", "switch_off"} => d.area \in Rows
  /\ d.pc \in {"area_write", "area_rows"} => d.rows \in Seq(AreaLines)
UpToDate(d) == d.read.mobile = person[d.who].mobile /\ d.read.home = person[d.who].home
RosterWork(d) ==
  /\ d.pc \in {"roster_rows", "read", "write", "login"} => d.rows \in Seq(RosterLines)
  /\ d.pc \in {"read", "write", "login"} => d.who \in Known
  /\ d.pc \in {"read", "write", "login"} /\ d.rows # <<>> => d.form.login \in Logins
  /\ d.pc = "write" => d.read \in MemberRecord /\ (~d.stale => UpToDate(d))
  /\ d.pc = "login" => d.rows # <<>>

DesksOK == desk \in [Workers -> Work] /\ \A w \in Workers : AreaWork(desk[w]) /\ RosterWork(desk[w])
BooksOK == BookOK /\ \A t \in Tokens : PreviewOK(t)

(* The inductive invariant.                                                *)
SetupInv == IInv /\ AreasOK /\ RosterOK /\ BooksOK /\ DesksOK

-----------------------------------------------------------------------------
(***************************************************************************)
(* The accounts                                                            *)
(***************************************************************************)
(* A request of the setup pages begins: Accounts has no such step.         *)
Begun(w) ==
  /\ At(w, "free") /\ Move(w, [Free EXCEPT !.pc = "details"])
  /\ UNCHANGED <<account, session, status, clock, scene, era, owned, ended, kept, uncapped, outran>>

LEMMA BegunKeeps ==
  ASSUME IInv, NEW w \in Workers, Begun(w)
  PROVE  IInv'
  <1>1. PICK c : c = [Free EXCEPT !.pc = "details"]
    BY ZenonT(60)
  <1>2. c \in Call /\ c.pc = "details"
    <2>1. "details" \in PCs
      BY DEF PCs
    <2>2. Free \in Call
      BY FreeOK
    <2>3. c \in Call
      BY <1>1, <2>1, <2>2, ZenonT(60) DEF Call
    <2>4. c.pc = "details"
      BY <1>1, <2>2 DEF Call
    <2>5. QED
      BY <2>3, <2>4
  <1>3. CallOK(c, account, ended)
    BY <1>2 DEF CallOK
  <1>4. Move(w, c) /\ UNCHANGED <<account, session, status, clock, era, owned, ended, kept, uncapped, outran>>
    BY <1>1 DEF Begun
  <1>5. TypeOK /\ CallsOK /\ OthersRemain /\ AnAdminRemains /\ ResetEndsSessions /\ SessionsEndWithIncident
    BY DEF IInv
  <1>6. TypeOK' /\ CallsOK'
    BY <1>2, <1>3, <1>4, <1>5, ReadKeeps, ZenonT(60)
  <1>7. OthersRemain' /\ AnAdminRemains'
    <2>1. c.pc # "write" /\ outran' = outran /\ \A a \in Admins : account'[a] = account[a]
      BY <1>2, <1>4
    <2>2. QED
      BY <1>4, <1>5, <2>1, MoveRemoves, ZenonT(60)
  <1>8. ResetEndsSessions' /\ SessionsEndWithIncident'
    <2>1. ~At(w, "revoke") /\ ~At(w, "cap")
      BY DEF Begun, At
    <2>2. UNCHANGED <<session, era, owned, ended, kept, uncapped>>
      BY <1>4
    <2>3. QED
      BY <1>4, <1>5, <1>6, <2>1, <2>2, MovesEnd, ZenonT(60)
  <1>9. QED
    BY <1>6, <1>7, <1>8 DEF IInv

LEMMA NextKeeps == ASSUME IInv, Next PROVE IInv'
  BY Inductive

LEMMA IdleKeeps == ASSUME IInv, UNCHANGED accountVars PROVE IInv'
  BY Inductive

(* How the steps of Setup appear to Accounts.                              *)
LEMMA BeginIs ==
  ASSUME NEW w \in Workers, NEW kind, NEW d, Begin(w, kind, d)
  PROVE  Begun(w) /\ Sit(w, d) /\ UNCHANGED account
  BY DEF Begin, Begun, Comes

LEMMA StayIs ==
  ASSUME NEW w \in Workers, NEW d, Stay(w, d)
  PROVE  UNCHANGED accountVars /\ Sit(w, d) /\ UNCHANGED account
  BY DEF Stay, accountVars

LEMMA EndIs ==
  ASSUME NEW w \in Workers, End(w)
  PROVE  Next /\ Sit(w, None) /\ UNCHANGED account
  <1>1. Details(w) /\ Sit(w, None)
    BY DEF End
  <1>2. UNCHANGED account
    BY <1>1 DEF Details
  <1>3. QED
    BY <1>1, <1>2, ZenonT(60) DEF Next

(* No step of Accounts but Enrol makes or removes a member.                *)
SameMembers == \A m \in Members : account'[m] = Nil <=> account[m] = Nil

LEMMA HandleMembers ==
  ASSUME IInv, NEW w \in Workers, Handle(w)
  PROVE  SameMembers
  <1>1. CASE UNCHANGED account
    BY <1>1 DEF SameMembers
  <1>2. CASE AdminWrite(w)
    <2>1. call[w].pc = "write" /\ call[w].who \in Admins
      BY <1>2 DEF AdminWrite, At, IInv, CallsOK, CallOK
    <2>2. PICK r : account' = [account EXCEPT ![call[w].who] = r]
      BY <1>2, ZenonT(60) DEF AdminWrite
    <2>3. \A m \in Members : m # call[w].who
      BY <2>1, AccountsAssumption
    <2>4. \A m \in Members : account'[m] = account[m]
      BY <2>2, <2>3 DEF IInv, TypeOK, Subjects
    <2>5. QED
      BY <2>4 DEF SameMembers
  <1>3. UNCHANGED account \/ AdminWrite(w)
    BY ZenonT(60) DEF Handle, LoginRead, LoginCreate, Revoke, Find, Count, AdminUpdate,
       PasswordReset, OwnPassword, OwnWrite, Close, Cap
  <1>4. QED
    BY <1>1, <1>2, <1>3

LEMMA OtherMembers ==
  ASSUME IInv, Other
  PROVE  SameMembers
  <1>1. CASE UNCHANGED account
    BY <1>1 DEF SameMembers
  <1>2. ASSUME NEW a \in Admins, NEW role \in {"admin", "operator"}, AdminCreate(a, role)
        PROVE  SameMembers
    <2>1. account' = [account EXCEPT ![a] = RowOf(role)]
      BY <1>2 DEF AdminCreate
    <2>2. \A m \in Members : m # a
      BY AccountsAssumption
    <2>3. \A m \in Members : account'[m] = account[m]
      BY <2>1, <2>2 DEF IInv, TypeOK, Subjects
    <2>4. QED
      BY <2>3 DEF SameMembers
  <1>3. UNCHANGED account \/ \E a \in Admins, role \in {"admin", "operator"} : AdminCreate(a, role)
    BY ZenonT(60) DEF Other, Logout, Validate, Open, Tick
  <1>4. QED
    BY <1>1, <1>2, <1>3

LEMMA UpdateMembers ==
  ASSUME IInv, NEW w \in Workers, NEW m \in Members, NEW v \in {TRUE, FALSE, Nil}, MemberUpdate(w, m, v)
  PROVE  SameMembers /\ Next /\ Has(m)
  <1>1. TypeOK /\ CallsOK
    BY DEF IInv
  <1>2. m \in Subjects /\ Has(m)
    BY DEF Subjects, MemberUpdate
  <1>3. \A b \in Subjects \ {m} : account'[b] = account[b]
    BY <1>1, MemberUpdateTypes, ZenonT(60)
  <1>7. account'[m] # Nil
    <2>1. CASE v = Nil
      BY <1>2, <2>1, ZenonT(60) DEF MemberUpdate, Has
    <2>2. CASE v # Nil
      <3>1. PICK x : x = [account[m] EXCEPT !.active = v]
        BY ZenonT(60)
      <3>2. account' = [account EXCEPT ![m] = x]
        BY <2>2, <3>1, ZenonT(60) DEF MemberUpdate
      <3>3. account[m] \in Row /\ v \in BOOLEAN
        <4>1. account[m] \in Row
          BY <1>1, <1>2 DEF TypeOK, Has
        <4>2. v \in BOOLEAN
          BY <2>2, ZenonT(60)
        <4>3. QED
          BY <4>1, <4>2, ZenonT(60)
      <3>4. x \in Row
        BY <3>1, <3>3, ZenonT(60) DEF Row
      <3>5. account'[m] = x
        BY <1>1, <1>2, <3>2 DEF TypeOK
      <3>6. Nil \notin Row
        BY AccountsAssumption
      <3>7. QED
        BY <3>4, <3>5, <3>6, ZenonT(60)
    <2>3. QED
      BY <2>1, <2>2
  <1>4. SameMembers
    BY <1>2, <1>3, <1>7 DEF SameMembers, Subjects, Has
  <1>5. Next
    BY ZenonT(60) DEF Next
  <1>6. QED
    BY <1>2, <1>4, <1>5

-----------------------------------------------------------------------------
(***************************************************************************)
(* What a step leaves in order                                             *)
(***************************************************************************)
LEMMA SetupFacts ==
  /\ MaxArea \in Nat \ {0} /\ MaxPreviews \in Nat \ {0} /\ 0 \in Nat
  /\ Nil \notin Nat /\ Nil \notin AreaIds /\ Nil \notin Names /\ Nil \notin Shapes /\ Nil \notin Mobiles
  /\ Nil \notin Logins /\ Nil \notin AreaRecord /\ Nil \notin MemberRecord
  /\ AreaIds \subseteq Nat /\ Tokens \subseteq Nat
  BY SetupAssumption DEF AreaIds, Tokens

LEMMA NoneIs ==
  /\ None \in Work /\ None.pc = "none" /\ None.rows = <<>> /\ None.late = FALSE /\ None.stale = FALSE
  /\ None.created = {} /\ Nobody \in Form
  <1>1. Nobody \in Form
    BY DEF Nobody, Form
  <1>2. <<>> \in Seq(Line)
    OBVIOUS
  <1>3. QED
    BY <1>1, <1>2 DEF None, Work, WorkPCs

LEMMA IdleWork == \A d : d.pc = "none" => AreaWork(d) /\ RosterWork(d)
  BY DEF AreaWork, RosterWork

(* Rows only come; areas in use, numbers and homes stay.                   *)
Grows ==
  /\ Rows \subseteq Rows' /\ Known \subseteq Known'
  /\ UNCHANGED <<tasks, effs>>
  /\ \A m \in Known : person'[m].mobile = person[m].mobile /\ person'[m].home = person[m].home

LEMMA StillGrows == ASSUME UNCHANGED <<area, person, tasks, effs>> PROVE Grows /\ Rows' = Rows /\ Known' = Known
  BY DEF Grows, Rows, Known

LEMMA SeqGrows == ASSUME NEW S, NEW T, S \subseteq T, NEW q \in Seq(S) PROVE q \in Seq(T)
  OBVIOUS

LEMMA LinesGrow ==
  ASSUME Rows \subseteq Rows', Known \subseteq Known'
  PROVE  AreaLines \subseteq AreaLines' /\ RosterLines \subseteq RosterLines'
  BY DEF AreaLines, RosterLines

LEMMA WorkStays ==
  ASSUME Grows, NEW d, AreaWork(d), RosterWork(d)
  PROVE  AreaWork(d)' /\ RosterWork(d)'
  <1>1. AreaLines \subseteq AreaLines' /\ RosterLines \subseteq RosterLines'
    BY LinesGrow DEF Grows
  <1>2. d.rows \in Seq(AreaLines) => d.rows \in Seq(AreaLines')
    BY <1>1, SeqGrows
  <1>3. d.rows \in Seq(RosterLines) => d.rows \in Seq(RosterLines')
    BY <1>1, SeqGrows
  <1>4. Rows \subseteq Rows' /\ tasks' = tasks /\ effs' = effs
    BY DEF Grows
  <1>5. AreaWork(d)'
    BY <1>2, <1>4, ZenonT(60) DEF AreaWork, InUse
  <1>6. d.who \in Known => d.who \in Known' /\ (UpToDate(d) => UpToDate(d)')
    BY DEF Grows, UpToDate
  <1>7. RosterWork(d)'
    BY <1>3, <1>6, ZenonT(60) DEF RosterWork
  <1>8. QED
    BY <1>5, <1>7

(* One worker moves on, the others find everything as before.              *)
LEMMA DeskMoves ==
  ASSUME DesksOK, Grows, NEW w \in Workers, NEW d \in Work, Sit(w, d),
         AreaWork(d)', RosterWork(d)'
  PROVE  DesksOK'
  <1>1. desk' \in [Workers -> Work] /\ desk'[w] = d /\ \A x \in Workers \ {w} : desk'[x] = desk[x]
    BY DEF DesksOK, Sit
  <1>2. ASSUME NEW x \in Workers PROVE (AreaWork(desk[x]) /\ RosterWork(desk[x]))'
    <2>1. CASE x = w
      <3>1. desk'[x] = d
        BY <1>1, <2>1
      <3>2. QED
        BY <3>1, ZenonT(60) DEF AreaWork, RosterWork, UpToDate
    <2>2. CASE x # w
      <3>1. PICK e : e = desk[x]
        BY ZenonT(60)
      <3>2. desk'[x] = e
        BY <1>1, <2>2, <3>1
      <3>3. AreaWork(e) /\ RosterWork(e)
        BY <3>1, ZenonT(60) DEF DesksOK
      <3>4. AreaWork(e)' /\ RosterWork(e)'
        BY <3>3, WorkStays, ZenonT(60)
      <3>5. QED
        BY <3>2, <3>4, ZenonT(60) DEF AreaWork, RosterWork, UpToDate
    <2>3. QED
      BY <2>1, <2>2
  <1>3. QED
    BY <1>1, <1>2 DEF DesksOK

LEMMA DeskEnds ==
  ASSUME DesksOK, Grows, NEW w \in Workers, Sit(w, None)
  PROVE  DesksOK'
  <1>1. None \in Work /\ None.pc = "none"
    BY NoneIs
  <1>2. AreaWork(None)' /\ RosterWork(None)'
    BY <1>1 DEF AreaWork, RosterWork
  <1>3. QED
    BY <1>1, <1>2, DeskMoves, ZenonT(60)

LEMMA DesksStay ==
  ASSUME DesksOK, Grows, UNCHANGED desk
  PROVE  DesksOK'
  <1>1. ASSUME NEW x \in Workers PROVE (AreaWork(desk[x]) /\ RosterWork(desk[x]))'
    <2>1. PICK e : e = desk[x]
      BY ZenonT(60)
    <2>2. desk'[x] = e
      BY <2>1
    <2>3. AreaWork(e) /\ RosterWork(e)
      BY <2>1, ZenonT(60) DEF DesksOK
    <2>4. AreaWork(e)' /\ RosterWork(e)'
      BY <2>3, WorkStays, ZenonT(60)
    <2>5. QED
      BY <2>2, <2>4, ZenonT(60) DEF AreaWork, RosterWork, UpToDate
  <1>2. QED
    BY <1>1 DEF DesksOK

LEMMA BooksStay ==
  ASSUME BooksOK, UNCHANGED bookVars, Rows \subseteq Rows', Known \subseteq Known'
  PROVE  BooksOK'
  <1>1. AreaLines \subseteq AreaLines' /\ RosterLines \subseteq RosterLines'
    BY LinesGrow
  <1>2. book' = book /\ made' = made /\ applied' = applied
    BY DEF bookVars
  <1>3. BookOK'
    BY <1>2 DEF BooksOK, BookOK
  <1>4. ASSUME NEW t \in Tokens PROVE PreviewOK(t)'
    <2>1. PreviewOK(t) /\ book'[t] = book[t]
      BY <1>2 DEF BooksOK
    <2>2. book[t].rows \in Seq(AreaLines) => book[t].rows \in Seq(AreaLines')
      BY <1>1, SeqGrows
    <2>3. book[t].rows \in Seq(RosterLines) => book[t].rows \in Seq(RosterLines')
      BY <1>1, SeqGrows
    <2>4. QED
      BY <2>1, <2>2, <2>3, ZenonT(60) DEF PreviewOK
  <1>5. QED
    BY <1>3, <1>4 DEF BooksOK

LEMMA AreasStay == ASSUME AreasOK, UNCHANGED areaVars PROVE AreasOK'
  <1>1. area' = area /\ tasks' = tasks /\ effs' = effs /\ asUsed' = asUsed /\ overtaken' = overtaken
    BY DEF areaVars
  <1>2. Rows' = Rows /\ \A a : InUse(a)' <=> InUse(a)
    BY <1>1 DEF Rows, InUse
  <1>3. QED
    BY <1>1, <1>2 DEF AreasOK

LEMMA RosterStays ==
  ASSUME RosterOK, SameMembers, UNCHANGED <<person, want, clobbered>>
  PROVE  RosterOK'
  BY DEF RosterOK, SameMembers

LEMMA RosterStill ==
  ASSUME RosterOK, UNCHANGED account, UNCHANGED rosterVars
  PROVE  RosterOK'
  <1>1. SameMembers /\ UNCHANGED <<person, want, clobbered>>
    BY DEF SameMembers, rosterVars
  <1>2. QED
    BY <1>1, RosterStays

-----------------------------------------------------------------------------
(***************************************************************************)
(* Areas                                                                   *)
(***************************************************************************)
(* The table of areas changes.                                             *)
LEMMA AreaChanges ==
  ASSUME AreasOK, area' \in [AreaIds -> AreaRecord \cup {Nil}], UNCHANGED <<tasks, effs, asUsed>>,
         overtaken \subseteq overtaken', overtaken' \subseteq AreaIds, Rows \subseteq Rows',
         \A a \in Rows : area'[a].shape = area[a].shape \/ ~InUse(a) \/ a \in overtaken'
  PROVE  AreasOK'
  <1>1. \A a : InUse(a)' <=> InUse(a)
    BY DEF InUse
  <1>2. tasks' \cup effs' \subseteq Rows' /\ DOMAIN asUsed' = AreaIds
    BY DEF AreasOK
  <1>3. ASSUME NEW a \in AreaIds, asUsed'[a] # Nil
        PROVE  InUse(a)' /\ (area'[a].shape = asUsed'[a] \/ a \in overtaken')
    <2>1. InUse(a) /\ (area[a].shape = asUsed[a] \/ a \in overtaken)
      BY <1>3 DEF AreasOK
    <2>2. a \in Rows
      BY <2>1 DEF AreasOK, InUse
    <2>3. QED
      BY <1>1, <2>1, <2>2
  <1>4. QED
    BY <1>2, <1>3 DEF AreasOK

LEMMA InsertAdds ==
  ASSUME area \in [AreaIds -> AreaRecord \cup {Nil}], NEW n \in Names, NEW s \in Shapes, Insert(n, s)
  PROVE  /\ area' \in [AreaIds -> AreaRecord \cup {Nil}] /\ Rows \subseteq Rows'
         /\ \A a \in Rows : area'[a] = area[a]
  <1>1. PICK r : r = [name |-> n, shape |-> s, active |-> TRUE]
    BY ZenonT(60)
  <1>2. r \in AreaRecord
    BY <1>1 DEF AreaRecord
  <1>3. PICK a \in AreaIds \ Rows : area' = [area EXCEPT ![a] = r]
    BY <1>1, ZenonT(60) DEF Insert
  <1>4. QED
    BY <1>2, <1>3, SetupFacts DEF Rows

LEMMA ReplaceKeeps ==
  ASSUME area \in [AreaIds -> AreaRecord \cup {Nil}], NEW a \in Rows, NEW n \in Names, NEW s \in Shapes,
         Replace(a, n, s)
  PROVE  /\ area' \in [AreaIds -> AreaRecord \cup {Nil}] /\ Rows' = Rows
         /\ \A b \in Rows \ {a} : area'[b] = area[b]
  <1>1. CASE area' = area
    BY <1>1 DEF Rows
  <1>2. CASE area' = [area EXCEPT ![a].name = n, ![a].shape = s]
    <2>1. PICK m : m = [area[a] EXCEPT !.name = n]
      BY ZenonT(60)
    <2>2. a \in AreaIds /\ area[a] \in AreaRecord
      BY DEF Rows
    <2>3. m \in AreaRecord
      BY <2>1, <2>2, ZenonT(60) DEF AreaRecord
    <2>4. PICK r : r = [m EXCEPT !.shape = s]
      BY ZenonT(60)
    <2>5. r \in AreaRecord
      BY <2>3, <2>4, ZenonT(60) DEF AreaRecord
    <2>6. PICK f : f = [area EXCEPT ![a] = m]
      BY ZenonT(60)
    <2>7. f[a] = m /\ DOMAIN f = AreaIds /\ \A b \in AreaIds \ {a} : f[b] = area[b]
      BY <2>2, <2>6
    <2>8. area' = [f EXCEPT ![a] = r]
      BY <1>2, <2>1, <2>4, <2>6, <2>7, ZenonT(60)
    <2>9. f \in [AreaIds -> AreaRecord \cup {Nil}]
      BY <2>3, <2>6, ZenonT(60)
    <2>10. area' \in [AreaIds -> AreaRecord \cup {Nil}] /\ area'[a] = r /\ \A b \in AreaIds \ {a} : area'[b] = area[b]
      BY <2>2, <2>5, <2>7, <2>8, <2>9
    <2>11. r # Nil /\ area[a] # Nil
      BY <2>2, <2>5, SetupFacts
    <2>12. Rows' = Rows
      BY <2>10, <2>11 DEF Rows
    <2>13. QED
      BY <2>10, <2>12 DEF Rows
  <1>3. QED
    BY <1>1, <1>2, ZenonT(60) DEF Replace

AreaSetTo(a, r) == area' = [area EXCEPT ![a] = r]
LEMMA AreaSetIs ==
  ASSUME area \in [AreaIds -> AreaRecord \cup {Nil}], NEW a \in AreaIds, NEW r \in AreaRecord, AreaSetTo(a, r)
  PROVE  /\ area' \in [AreaIds -> AreaRecord \cup {Nil}] /\ area'[a] = r
         /\ \A b \in AreaIds \ {a} : area'[b] = area[b]
  BY DEF AreaSetTo

LEMMA RowsStay ==
  ASSUME NEW a \in AreaIds, area[a] # Nil, area'[a] # Nil, \A b \in AreaIds \ {a} : area'[b] = area[b]
  PROVE  Rows' = Rows
  BY DEF Rows

LEMMA OffKeeps ==
  ASSUME area \in [AreaIds -> AreaRecord \cup {Nil}], NEW a \in Rows,
         area' = [area EXCEPT ![a].active = FALSE]
  PROVE  /\ area' \in [AreaIds -> AreaRecord \cup {Nil}] /\ Rows' = Rows
         /\ \A b \in Rows : area'[b].shape = area[b].shape
  <1>1. PICK r : r = [area[a] EXCEPT !.active = FALSE]
    BY ZenonT(60)
  <1>2. a \in AreaIds /\ area[a] \in AreaRecord
    BY DEF Rows
  <1>3. r \in AreaRecord
    BY <1>1, <1>2, ZenonT(60) DEF AreaRecord
  <1>4. r.shape = area[a].shape
    BY <1>1, <1>2 DEF AreaRecord
  <1>5. AreaSetTo(a, r)
    BY <1>1 DEF AreaSetTo
  <1>6. area' \in [AreaIds -> AreaRecord \cup {Nil}] /\ area'[a] = r /\ \A b \in AreaIds \ {a} : area'[b] = area[b]
    BY <1>2, <1>3, <1>5, AreaSetIs, ZenonT(60)
  <1>7. r # Nil /\ area[a] # Nil
    BY <1>2, <1>3, SetupFacts
  <1>8. Rows' = Rows
    BY <1>2, <1>6, <1>7, RowsStay, ZenonT(60)
  <1>9. area'[a].shape = area[a].shape /\ \A b \in Rows \ {a} : area'[b].shape = area[b].shape
    BY <1>4, <1>6 DEF Rows
  <1>10. QED
    BY <1>6, <1>8, <1>9, ZenonT(60)

(* Putting the parts together: only areas and desks change.                *)
LEMMA PartsKeep ==
  ASSUME SetupInv, IInv', UNCHANGED <<account, person>>, UNCHANGED rosterVars, UNCHANGED bookVars,
         AreasOK', UNCHANGED <<tasks, effs>>, Rows \subseteq Rows',
         \/ UNCHANGED desk
         \/ \E w \in Workers : Sit(w, None)
         \/ \E w \in Workers, d \in Work : Sit(w, d) /\ AreaWork(d)' /\ RosterWork(d)'
  PROVE  SetupInv'
  <1>1. AreasOK /\ RosterOK /\ BooksOK /\ DesksOK
    BY DEF SetupInv
  <1>2. Grows
    BY DEF Grows, Known
  <1>3. RosterOK' /\ BooksOK'
    BY <1>1, <1>2, RosterStill, BooksStay DEF Grows
  <1>4. DesksOK'
    BY <1>1, <1>2, DesksStay, DeskEnds, DeskMoves, ZenonT(60)
  <1>5. QED
    BY <1>3, <1>4 DEF SetupInv

LEMMA AreaCreateKeeps ==
  ASSUME SetupInv, NEW n \in Names, NEW s \in Shapes, AreaCreate(n, s)
  PROVE  SetupInv'
  <1>1. /\ Insert(n, s) /\ UNCHANGED accountVars /\ UNCHANGED <<tasks, effs, asUsed, overtaken>>
        /\ UNCHANGED rosterVars /\ UNCHANGED bookVars /\ UNCHANGED desk
    BY DEF AreaCreate
  <1>2. IInv /\ AreasOK
    BY DEF SetupInv
  <1>3. IInv'
    BY <1>1, <1>2, IdleKeeps
  <1>4. area' \in [AreaIds -> AreaRecord \cup {Nil}] /\ Rows \subseteq Rows' /\ \A a \in Rows : area'[a] = area[a]
    BY <1>1, <1>2, InsertAdds, ZenonT(60) DEF AreasOK
  <1>5. AreasOK'
    BY <1>1, <1>2, <1>4, AreaChanges DEF AreasOK
  <1>6. UNCHANGED <<account, person>> /\ UNCHANGED <<tasks, effs>>
    BY <1>1 DEF accountVars, rosterVars
  <1>7. QED
    BY <1>1, <1>3, <1>4, <1>5, <1>6, PartsKeep, ZenonT(60)

(* One field of a piece of work changes.                                   *)
PcSet(d, v, e) == e = [d EXCEPT !.pc = v]
AreaSet(d, v, e) == e = [d EXCEPT !.area = v]
NameSet(d, v, e) == e = [d EXCEPT !.name = v]
ShapeSet(d, v, e) == e = [d EXCEPT !.shape = v]
LateSet(d, e) == e = [d EXCEPT !.late = TRUE]
RowsSet(d, v, e) == e = [d EXCEPT !.rows = v]
WhoSet(d, v, e) == e = [d EXCEPT !.who = v]
FormSet(d, v, e) == e = [d EXCEPT !.form = v]
ReadSet(d, v, e) == e = [d EXCEPT !.read = v]
StaleSet(d, v, e) == e = [d EXCEPT !.stale = v]
CreatedSet(d, v, e) == e = [d EXCEPT !.created = v]

LEMMA SetPc ==
  ASSUME NEW d \in Work, NEW v \in WorkPCs, NEW e, PcSet(d, v, e)
  PROVE  /\ e \in Work /\ e.pc = v
         /\ e.area = d.area /\ e.name = d.name /\ e.shape = d.shape /\ e.late = d.late
         /\ e.rows = d.rows /\ e.who = d.who /\ e.form = d.form /\ e.read = d.read
         /\ e.stale = d.stale /\ e.created = d.created
  <1>1. e \in Work
    BY ZenonT(60) DEF Work, PcSet
  <1>2. /\ e.pc = v
        /\ e.area = d.area /\ e.name = d.name /\ e.shape = d.shape /\ e.late = d.late
        /\ e.rows = d.rows /\ e.who = d.who /\ e.form = d.form /\ e.read = d.read
        /\ e.stale = d.stale /\ e.created = d.created
    BY DEF Work, PcSet
  <1>3. QED
    BY <1>1, <1>2, ZenonT(60)

LEMMA SetArea ==
  ASSUME NEW d \in Work, NEW v \in AreaIds \cup {Nil}, NEW e, AreaSet(d, v, e)
  PROVE  /\ e \in Work /\ e.area = v
         /\ e.pc = d.pc /\ e.name = d.name /\ e.shape = d.shape /\ e.late = d.late
         /\ e.rows = d.rows /\ e.who = d.who /\ e.form = d.form /\ e.read = d.read
         /\ e.stale = d.stale /\ e.created = d.created
  <1>1. e \in Work
    BY ZenonT(60) DEF Work, AreaSet
  <1>2. /\ e.area = v
        /\ e.pc = d.pc /\ e.name = d.name /\ e.shape = d.shape /\ e.late = d.late
        /\ e.rows = d.rows /\ e.who = d.who /\ e.form = d.form /\ e.read = d.read
        /\ e.stale = d.stale /\ e.created = d.created
    BY DEF Work, AreaSet
  <1>3. QED
    BY <1>1, <1>2, ZenonT(60)

LEMMA SetName ==
  ASSUME NEW d \in Work, NEW v \in Names \cup {Nil}, NEW e, NameSet(d, v, e)
  PROVE  /\ e \in Work /\ e.name = v
         /\ e.pc = d.pc /\ e.area = d.area /\ e.shape = d.shape /\ e.late = d.late
         /\ e.rows = d.rows /\ e.who = d.who /\ e.form = d.form /\ e.read = d.read
         /\ e.stale = d.stale /\ e.created = d.created
  <1>1. e \in Work
    BY ZenonT(60) DEF Work, NameSet
  <1>2. /\ e.name = v
        /\ e.pc = d.pc /\ e.area = d.area /\ e.shape = d.shape /\ e.late = d.late
        /\ e.rows = d.rows /\ e.who = d.who /\ e.form = d.form /\ e.read = d.read
        /\ e.stale = d.stale /\ e.created = d.created
    BY DEF Work, NameSet
  <1>3. QED
    BY <1>1, <1>2, ZenonT(60)

LEMMA SetShape ==
  ASSUME NEW d \in Work, NEW v \in Shapes \cup {Nil}, NEW e, ShapeSet(d, v, e)
  PROVE  /\ e \in Work /\ e.shape = v
         /\ e.pc = d.pc /\ e.area = d.area /\ e.name = d.name /\ e.late = d.late
         /\ e.rows = d.rows /\ e.who = d.who /\ e.form = d.form /\ e.read = d.read
         /\ e.stale = d.stale /\ e.created = d.created
  <1>1. e \in Work
    BY ZenonT(60) DEF Work, ShapeSet
  <1>2. /\ e.shape = v
        /\ e.pc = d.pc /\ e.area = d.area /\ e.name = d.name /\ e.late = d.late
        /\ e.rows = d.rows /\ e.who = d.who /\ e.form = d.form /\ e.read = d.read
        /\ e.stale = d.stale /\ e.created = d.created
    BY DEF Work, ShapeSet
  <1>3. QED
    BY <1>1, <1>2, ZenonT(60)

LEMMA SetLate ==
  ASSUME NEW d \in Work, NEW e, LateSet(d, e)
  PROVE  /\ e \in Work /\ e.late
         /\ e.pc = d.pc /\ e.area = d.area /\ e.name = d.name /\ e.shape = d.shape
         /\ e.rows = d.rows /\ e.who = d.who /\ e.form = d.form /\ e.read = d.read
         /\ e.stale = d.stale /\ e.created = d.created
  <1>1. e \in Work
    BY ZenonT(60) DEF Work, LateSet
  <1>2. /\ e.late
        /\ e.pc = d.pc /\ e.area = d.area /\ e.name = d.name /\ e.shape = d.shape
        /\ e.rows = d.rows /\ e.who = d.who /\ e.form = d.form /\ e.read = d.read
        /\ e.stale = d.stale /\ e.created = d.created
    BY DEF Work, LateSet
  <1>3. QED
    BY <1>1, <1>2, ZenonT(60)

LEMMA SetRows ==
  ASSUME NEW d \in Work, NEW v \in Seq(Line), NEW e, RowsSet(d, v, e)
  PROVE  /\ e \in Work /\ e.rows = v
         /\ e.pc = d.pc /\ e.area = d.area /\ e.name = d.name /\ e.shape = d.shape
         /\ e.late = d.late /\ e.who = d.who /\ e.form = d.form /\ e.read = d.read
         /\ e.stale = d.stale /\ e.created = d.created
  <1>1. e \in Work
    BY ZenonT(60) DEF Work, RowsSet
  <1>2. /\ e.rows = v
        /\ e.pc = d.pc /\ e.area = d.area /\ e.name = d.name /\ e.shape = d.shape
        /\ e.late = d.late /\ e.who = d.who /\ e.form = d.form /\ e.read = d.read
        /\ e.stale = d.stale /\ e.created = d.created
    BY DEF Work, RowsSet
  <1>3. QED
    BY <1>1, <1>2, ZenonT(60)

LEMMA SetWho ==
  ASSUME NEW d \in Work, NEW v \in Members \cup {Nil}, NEW e, WhoSet(d, v, e)
  PROVE  /\ e \in Work /\ e.who = v
         /\ e.pc = d.pc /\ e.area = d.area /\ e.name = d.name /\ e.shape = d.shape
         /\ e.late = d.late /\ e.rows = d.rows /\ e.form = d.form /\ e.read = d.read
         /\ e.stale = d.stale /\ e.created = d.created
  <1>1. e \in Work
    BY ZenonT(60) DEF Work, WhoSet
  <1>2. /\ e.who = v
        /\ e.pc = d.pc /\ e.area = d.area /\ e.name = d.name /\ e.shape = d.shape
        /\ e.late = d.late /\ e.rows = d.rows /\ e.form = d.form /\ e.read = d.read
        /\ e.stale = d.stale /\ e.created = d.created
    BY DEF Work, WhoSet
  <1>3. QED
    BY <1>1, <1>2, ZenonT(60)

LEMMA SetForm ==
  ASSUME NEW d \in Work, NEW v \in Form, NEW e, FormSet(d, v, e)
  PROVE  /\ e \in Work /\ e.form = v
         /\ e.pc = d.pc /\ e.area = d.area /\ e.name = d.name /\ e.shape = d.shape
         /\ e.late = d.late /\ e.rows = d.rows /\ e.who = d.who /\ e.read = d.read
         /\ e.stale = d.stale /\ e.created = d.created
  <1>1. e \in Work
    BY ZenonT(60) DEF Work, FormSet
  <1>2. /\ e.form = v
        /\ e.pc = d.pc /\ e.area = d.area /\ e.name = d.name /\ e.shape = d.shape
        /\ e.late = d.late /\ e.rows = d.rows /\ e.who = d.who /\ e.read = d.read
        /\ e.stale = d.stale /\ e.created = d.created
    BY DEF Work, FormSet
  <1>3. QED
    BY <1>1, <1>2, ZenonT(60)

LEMMA SetRead ==
  ASSUME NEW d \in Work, NEW v \in Form, NEW e, ReadSet(d, v, e)
  PROVE  /\ e \in Work /\ e.read = v
         /\ e.pc = d.pc /\ e.area = d.area /\ e.name = d.name /\ e.shape = d.shape
         /\ e.late = d.late /\ e.rows = d.rows /\ e.who = d.who /\ e.form = d.form
         /\ e.stale = d.stale /\ e.created = d.created
  <1>1. e \in Work
    BY ZenonT(60) DEF Work, ReadSet
  <1>2. /\ e.read = v
        /\ e.pc = d.pc /\ e.area = d.area /\ e.name = d.name /\ e.shape = d.shape
        /\ e.late = d.late /\ e.rows = d.rows /\ e.who = d.who /\ e.form = d.form
        /\ e.stale = d.stale /\ e.created = d.created
    BY DEF Work, ReadSet
  <1>3. QED
    BY <1>1, <1>2, ZenonT(60)

LEMMA SetStale ==
  ASSUME NEW d \in Work, NEW v \in BOOLEAN, NEW e, StaleSet(d, v, e)
  PROVE  /\ e \in Work /\ e.stale = v
         /\ e.pc = d.pc /\ e.area = d.area /\ e.name = d.name /\ e.shape = d.shape
         /\ e.late = d.late /\ e.rows = d.rows /\ e.who = d.who /\ e.form = d.form
         /\ e.read = d.read /\ e.created = d.created
  <1>1. e \in Work
    BY ZenonT(60) DEF Work, StaleSet
  <1>2. /\ e.stale = v
        /\ e.pc = d.pc /\ e.area = d.area /\ e.name = d.name /\ e.shape = d.shape
        /\ e.late = d.late /\ e.rows = d.rows /\ e.who = d.who /\ e.form = d.form
        /\ e.read = d.read /\ e.created = d.created
    BY DEF Work, StaleSet
  <1>3. QED
    BY <1>1, <1>2, ZenonT(60)

LEMMA SetCreated ==
  ASSUME NEW d \in Work, NEW v \in SUBSET Members, NEW e, CreatedSet(d, v, e)
  PROVE  /\ e \in Work /\ e.created = v
         /\ e.pc = d.pc /\ e.area = d.area /\ e.name = d.name /\ e.shape = d.shape
         /\ e.late = d.late /\ e.rows = d.rows /\ e.who = d.who /\ e.form = d.form
         /\ e.read = d.read /\ e.stale = d.stale
  <1>1. e \in Work
    BY ZenonT(60) DEF Work, CreatedSet
  <1>2. /\ e.created = v
        /\ e.pc = d.pc /\ e.area = d.area /\ e.name = d.name /\ e.shape = d.shape
        /\ e.late = d.late /\ e.rows = d.rows /\ e.who = d.who /\ e.form = d.form
        /\ e.read = d.read /\ e.stale = d.stale
    BY DEF Work, CreatedSet
  <1>3. QED
    BY <1>1, <1>2, ZenonT(60)

(* The work that a request on an area begins with.                         *)
Pointer(pc, a, d) == d = [None EXCEPT !.pc = pc, !.area = a]
LEMMA AreaPointer ==
  ASSUME NEW a \in AreaIds, NEW pc \in {"del_refs", "switch_off"}, NEW d, Pointer(pc, a, d)
  PROVE  d \in Work /\ d.pc = pc /\ d.area = a
  <1>1. PICK e : PcSet(None, pc, e)
    BY ZenonT(60) DEF PcSet
  <1>2. None \in Work /\ pc \in WorkPCs /\ a \in AreaIds \cup {Nil}
    BY NoneIs DEF WorkPCs
  <1>3. e \in Work /\ e.pc = pc
    BY <1>1, <1>2, SetPc, ZenonT(60)
  <1>4. AreaSet(e, a, d)
    BY <1>1, ZenonT(60) DEF PcSet, AreaSet, Pointer
  <1>5. QED
    BY <1>2, <1>3, <1>4, SetArea

Filled(b, a, n, s, d) == d = [b EXCEPT !.pc = "area_write", !.area = a, !.name = n, !.shape = s]
LEMMA AreaForm ==
  ASSUME NEW b \in Work, NEW a \in AreaIds, NEW n \in Names, NEW s \in Shapes, NEW d, Filled(b, a, n, s, d)
  PROVE  /\ d \in Work /\ d.pc = "area_write" /\ d.area = a /\ d.name = n /\ d.shape = s
         /\ d.rows = b.rows /\ d.late = b.late
  <1>1. PICK x : PcSet(b, "area_write", x)
    BY ZenonT(60) DEF PcSet
  <1>2. PICK y : AreaSet(x, a, y)
    BY ZenonT(60) DEF AreaSet
  <1>3. PICK z : NameSet(y, n, z)
    BY ZenonT(60) DEF NameSet
  <1>4. ShapeSet(z, s, d)
    BY <1>1, <1>2, <1>3, ZenonT(60) DEF PcSet, AreaSet, NameSet, ShapeSet, Filled
  <1>5. "area_write" \in WorkPCs /\ a \in AreaIds \cup {Nil} /\ n \in Names \cup {Nil} /\ s \in Shapes \cup {Nil}
    BY DEF WorkPCs
  <1>6. x \in Work /\ x.pc = "area_write" /\ x.rows = b.rows /\ x.late = b.late
    BY <1>1, <1>5, SetPc
  <1>7. y \in Work /\ y.pc = "area_write" /\ y.area = a /\ y.rows = b.rows /\ y.late = b.late
    BY <1>2, <1>5, <1>6, SetArea
  <1>8. /\ z \in Work /\ z.pc = "area_write" /\ z.area = a /\ z.name = n
        /\ z.rows = b.rows /\ z.late = b.late
    BY <1>3, <1>5, <1>7, SetName
  <1>9. QED
    BY <1>4, <1>5, <1>8, SetShape

LEMMA AreaUpdateKeeps ==
  ASSUME SetupInv, NEW w \in Workers, NEW a \in AreaIds, NEW n \in Names, NEW s \in Shapes,
         AreaUpdate(w, a, n, s)
  PROVE  SetupInv'
  <1>1. PICK d : Filled(None, a, n, s, d)
    BY ZenonT(60) DEF Filled
  <1>2. /\ a \in Rows /\ ~InUse(a) /\ Begin(w, "areas", d)
        /\ UNCHANGED areaVars /\ UNCHANGED rosterVars /\ UNCHANGED bookVars
    BY <1>1 DEF AreaUpdate, Filled
  <1>3. d \in Work /\ d.pc = "area_write" /\ d.area = a /\ d.name = n /\ d.shape = s /\ d.rows = <<>>
    BY <1>1, NoneIs, AreaForm
  <1>4. Begun(w) /\ Sit(w, d) /\ UNCHANGED account
    BY <1>2, BeginIs
  <1>5. IInv /\ AreasOK
    BY DEF SetupInv
  <1>6. IInv' /\ AreasOK'
    BY <1>2, <1>4, <1>5, BegunKeeps, AreasStay
  <1>7. UNCHANGED <<account, person>> /\ UNCHANGED <<tasks, effs>> /\ Rows' = Rows /\ area' = area
    BY <1>2, <1>4 DEF areaVars, rosterVars, Rows
  <1>8. AreaWork(d)' /\ RosterWork(d)'
    BY <1>2, <1>3, <1>7 DEF AreaWork, RosterWork, InUse
  <1>9. QED
    BY <1>2, <1>3, <1>4, <1>6, <1>7, <1>8, PartsKeep, ZenonT(60)

LEMMA AreaDeleteKeeps ==
  ASSUME SetupInv, NEW w \in Workers, NEW a \in AreaIds, AreaDelete(w, a)
  PROVE  SetupInv'
  <1>1. PICK d : Pointer("del_refs", a, d)
    BY ZenonT(60) DEF Pointer
  <1>2. /\ a \in Rows /\ Begin(w, "areas", d)
        /\ UNCHANGED areaVars /\ UNCHANGED rosterVars /\ UNCHANGED bookVars
    BY <1>1 DEF AreaDelete, Pointer
  <1>3. d \in Work /\ d.pc = "del_refs" /\ d.area = a
    BY <1>1, AreaPointer, ZenonT(60)
  <1>4. Begun(w) /\ Sit(w, d) /\ UNCHANGED account
    BY <1>2, BeginIs
  <1>5. IInv /\ AreasOK
    BY DEF SetupInv
  <1>6. IInv' /\ AreasOK'
    BY <1>2, <1>4, <1>5, BegunKeeps, AreasStay
  <1>7. UNCHANGED <<account, person>> /\ UNCHANGED <<tasks, effs>> /\ Rows' = Rows
    BY <1>2, <1>4 DEF areaVars, rosterVars, Rows
  <1>8. AreaWork(d)' /\ RosterWork(d)'
    BY <1>2, <1>3, <1>7 DEF AreaWork, RosterWork
  <1>9. QED
    BY <1>2, <1>3, <1>4, <1>6, <1>7, <1>8, PartsKeep, ZenonT(60)

LEMMA DeleteRefsKeeps ==
  ASSUME SetupInv, NEW w \in Workers, DeleteRefs(w)
  PROVE  SetupInv'
  <1>1. PICK d : PcSet(desk[w], "switch_off", d)
    BY ZenonT(60) DEF PcSet
  <1>2. desk[w].pc = "del_refs" /\ desk[w] \in Work /\ desk[w].area \in Rows
    BY DEF DeleteRefs, Doing, SetupInv, DesksOK, AreaWork
  <1>3. UNCHANGED areaVars /\ UNCHANGED rosterVars /\ UNCHANGED bookVars
    BY DEF DeleteRefs
  <1>4. "switch_off" \in WorkPCs
    BY DEF WorkPCs
  <1>5. d \in Work /\ d.pc = "switch_off" /\ d.area \in Rows
    BY <1>1, <1>2, <1>4, SetPc
  <1>6. IInv /\ AreasOK
    BY DEF SetupInv
  <1>7. AreasOK' /\ UNCHANGED <<tasks, effs>> /\ Rows' = Rows
    BY <1>3, <1>6, AreasStay DEF areaVars, Rows
  <1>8. (End(w) \/ Stay(w, d))
    BY <1>1, ZenonT(60) DEF DeleteRefs, PcSet
  <1>9. IInv' /\ UNCHANGED account /\ (Sit(w, None) \/ Sit(w, d))
    BY <1>6, <1>8, EndIs, StayIs, NextKeeps, IdleKeeps
  <1>10. UNCHANGED <<account, person>>
    BY <1>3, <1>9 DEF rosterVars
  <1>11. AreaWork(d)' /\ RosterWork(d)'
    BY <1>5, <1>7 DEF AreaWork, RosterWork
  <1>12. QED
    BY <1>3, <1>5, <1>7, <1>9, <1>10, <1>11, PartsKeep, ZenonT(60)

LEMMA AreaCopyKeeps ==
  ASSUME SetupInv, NEW w \in Workers, NEW a \in AreaIds, NEW n \in Names, NEW s \in Shapes,
         AreaCopy(w, a, n, s)
  PROVE  SetupInv'
  <1>1. PICK d : Pointer("switch_off", a, d)
    BY ZenonT(60) DEF Pointer
  <1>2. /\ a \in Rows /\ Insert(n, s) /\ Begin(w, "areas", d)
        /\ UNCHANGED <<tasks, effs, asUsed, overtaken>> /\ UNCHANGED rosterVars /\ UNCHANGED bookVars
    BY <1>1 DEF AreaCopy, Pointer
  <1>3. d \in Work /\ d.pc = "switch_off" /\ d.area = a
    BY <1>1, AreaPointer, ZenonT(60)
  <1>4. Begun(w) /\ Sit(w, d) /\ UNCHANGED account
    BY <1>2, BeginIs
  <1>5. IInv /\ AreasOK
    BY DEF SetupInv
  <1>6. area' \in [AreaIds -> AreaRecord \cup {Nil}] /\ Rows \subseteq Rows' /\ \A b \in Rows : area'[b] = area[b]
    BY <1>2, <1>5, InsertAdds, ZenonT(60) DEF AreasOK
  <1>7. IInv' /\ AreasOK'
    BY <1>2, <1>4, <1>5, <1>6, BegunKeeps, AreaChanges DEF AreasOK
  <1>8. UNCHANGED <<account, person>> /\ UNCHANGED <<tasks, effs>>
    BY <1>2, <1>4 DEF rosterVars
  <1>9. AreaWork(d)' /\ RosterWork(d)'
    BY <1>2, <1>3, <1>6 DEF AreaWork, RosterWork
  <1>10. QED
    BY <1>2, <1>3, <1>4, <1>6, <1>7, <1>8, <1>9, PartsKeep, ZenonT(60)

LEMMA SwitchOffKeeps ==
  ASSUME SetupInv, NEW w \in Workers, SwitchOff(w)
  PROVE  SetupInv'
  <1>1. PICK a : a = desk[w].area
    BY ZenonT(60)
  <1>2. a \in Rows
    BY <1>1 DEF SwitchOff, Doing, SetupInv, DesksOK, AreaWork
  <1>3. /\ area' = [area EXCEPT ![a].active = FALSE] /\ End(w)
        /\ UNCHANGED <<tasks, effs, asUsed, overtaken>> /\ UNCHANGED rosterVars /\ UNCHANGED bookVars
    BY <1>1 DEF SwitchOff
  <1>4. Next /\ Sit(w, None) /\ UNCHANGED account
    BY <1>3, EndIs
  <1>5. IInv /\ AreasOK
    BY DEF SetupInv
  <1>6. area' \in [AreaIds -> AreaRecord \cup {Nil}] /\ Rows' = Rows /\ \A b \in Rows : area'[b].shape = area[b].shape
    BY <1>2, <1>3, <1>5, OffKeeps, ZenonT(60) DEF AreasOK
  <1>7. IInv' /\ AreasOK'
    BY <1>3, <1>4, <1>5, <1>6, NextKeeps, AreaChanges DEF AreasOK
  <1>8. UNCHANGED <<account, person>> /\ UNCHANGED <<tasks, effs>> /\ Rows \subseteq Rows'
    BY <1>3, <1>4, <1>6 DEF rosterVars
  <1>9. QED
    BY <1>3, <1>4, <1>7, <1>8, PartsKeep, ZenonT(60)

(* The import goes on with its next row.                                   *)
RowNext(d, pc, e) == e = NextRow(d, pc)
LEMMA NextRowIs ==
  ASSUME NEW d \in Work, d.rows # <<>>, NEW pc \in WorkPCs, NEW e, RowNext(d, pc, e)
  PROVE  e \in Work /\ e.pc = pc /\ e.rows = Tail(d.rows) /\ e.created = d.created
  <1>1. PICK x : PcSet(None, pc, x)
    BY ZenonT(60) DEF PcSet
  <1>2. PICK q : q = Tail(d.rows)
    BY ZenonT(60)
  <1>3. PICK y : RowsSet(x, q, y)
    BY ZenonT(60) DEF RowsSet
  <1>4. CreatedSet(y, d.created, e)
    BY <1>1, <1>2, <1>3, ZenonT(60) DEF PcSet, RowsSet, CreatedSet, RowNext, NextRow
  <1>5. q \in Seq(Line) /\ d.created \in SUBSET Members
    BY <1>2 DEF Work
  <1>6. None \in Work
    BY NoneIs
  <1>7. x \in Work /\ x.pc = pc
    BY <1>1, <1>6, SetPc
  <1>8. y \in Work /\ y.pc = pc /\ y.rows = q
    BY <1>3, <1>5, <1>7, SetRows
  <1>9. e \in Work /\ e.pc = pc /\ e.rows = q /\ e.created = d.created
    BY <1>4, <1>5, <1>8, SetCreated
  <1>10. QED
    BY <1>2, <1>9

LEMMA NextRowWorks ==
  ASSUME NEW S, NEW d, d.rows # <<>>, d.rows \in Seq(S), NEW e, e.rows = Tail(d.rows)
  PROVE  e.rows \in Seq(S)
  OBVIOUS

LEMMA AreaWriteKeeps ==
  ASSUME SetupInv, NEW w \in Workers, AreaWrite(w)
  PROVE  SetupInv'
  <1>1. PICK d : d = desk[w]
    BY ZenonT(60)
  <1>2. PICK e : RowNext(d, "area_rows", e)
    BY ZenonT(60) DEF RowNext
  <1>3. IInv /\ AreasOK /\ DesksOK
    BY DEF SetupInv
  <1>4. d.pc = "area_write" /\ d \in Work
    BY <1>1, <1>3 DEF AreaWrite, Doing, DesksOK
  <1>5. AreaWork(d)
    BY <1>1, <1>3, ZenonT(60) DEF DesksOK
  <1>6. /\ d.area \in Rows /\ d.name \in Names /\ d.shape \in Shapes /\ (InUse(d.area) => d.late)
        /\ d.rows \in Seq(AreaLines)
    BY <1>4, <1>5 DEF AreaWork
  <1>7. /\ Replace(d.area, d.name, d.shape)
        /\ overtaken' = IF d.late THEN overtaken \cup {d.area} ELSE overtaken
        /\ UNCHANGED <<tasks, effs, asUsed>> /\ UNCHANGED rosterVars /\ UNCHANGED bookVars
    BY <1>1, ZenonT(60) DEF AreaWrite
  <1>8. (d.rows = <<>> /\ End(w)) \/ (d.rows # <<>> /\ Stay(w, e))
    BY <1>1, <1>2, ZenonT(60) DEF AreaWrite, RowNext
  <1>9. /\ area' \in [AreaIds -> AreaRecord \cup {Nil}] /\ Rows' = Rows
        /\ \A b \in Rows \ {d.area} : area'[b] = area[b]
    <2>1. area \in [AreaIds -> AreaRecord \cup {Nil}]
      BY <1>3 DEF AreasOK
    <2>2. QED
      BY <1>6, <1>7, <2>1, ReplaceKeeps, ZenonT(60)
  <1>10. /\ overtaken \subseteq overtaken' /\ overtaken' \subseteq AreaIds
         /\ InUse(d.area) => d.area \in overtaken'
    BY <1>3, <1>6, <1>7 DEF AreasOK, Rows
  <1>11. \A a \in Rows : area'[a].shape = area[a].shape \/ ~InUse(a) \/ a \in overtaken'
    BY <1>9, <1>10
  <1>12. AreasOK'
    BY <1>3, <1>7, <1>9, <1>10, <1>11, AreaChanges
  <1>13. IInv' /\ UNCHANGED account /\ (Sit(w, None) \/ (d.rows # <<>> /\ Sit(w, e)))
    BY <1>3, <1>8, EndIs, StayIs, NextKeeps, IdleKeeps
  <1>14. UNCHANGED <<account, person>> /\ UNCHANGED <<tasks, effs>> /\ Rows \subseteq Rows'
    BY <1>7, <1>9, <1>13 DEF rosterVars
  <1>15. CASE Sit(w, None)
    BY <1>7, <1>12, <1>13, <1>14, <1>15, PartsKeep, ZenonT(60)
  <1>16. CASE d.rows # <<>> /\ Sit(w, e)
    <2>1. "area_rows" \in WorkPCs
      BY DEF WorkPCs
    <2>2. e \in Work /\ e.pc = "area_rows" /\ e.rows = Tail(d.rows)
      BY <1>2, <1>4, <1>16, <2>1, NextRowIs
    <2>3. AreaLines' = AreaLines
      BY <1>9 DEF AreaLines
    <2>4. e.rows \in Seq(AreaLines')
      BY <1>6, <1>16, <2>2, <2>3, NextRowWorks
    <2>5. AreaWork(e)' /\ RosterWork(e)'
      BY <2>2, <2>4 DEF AreaWork, RosterWork
    <2>6. QED
      BY <1>7, <1>12, <1>13, <1>14, <1>16, <2>2, <2>5, PartsKeep, ZenonT(60)
  <1>17. QED
    BY <1>13, <1>15, <1>16

(* What the incident refers to changes: whoever is about to write one of   *)
(* these areas is marked late.                                             *)
LEMMA DeployKeeps ==
  ASSUME SetupInv, NEW T \in SUBSET Rows, NEW E \in SUBSET Rows, Deploy(T, E)
  PROVE  SetupInv'
  <1>1. IInv /\ AreasOK /\ RosterOK /\ BooksOK /\ DesksOK
    BY DEF SetupInv
  <1>2. /\ tasks' = T /\ effs' = E /\ overtaken' = overtaken \cap (T \cup E)
        /\ UNCHANGED accountVars /\ area' = area /\ UNCHANGED rosterVars /\ UNCHANGED bookVars
    BY DEF Deploy
  <1>3. asUsed' = [a \in AreaIds |->
                     IF a \notin T \cup E THEN Nil
                     ELSE IF InUse(a) THEN asUsed[a] ELSE area[a].shape]
    BY ZenonT(60) DEF Deploy
  <1>4. desk' = [w \in Workers |->
                   IF desk[w].pc = "area_write" /\ desk[w].area \in T \cup E
                   THEN [desk[w] EXCEPT !.late = TRUE] ELSE desk[w]]
    BY ZenonT(60) DEF Deploy
  <1>5. IInv' /\ UNCHANGED account /\ UNCHANGED person
    BY <1>1, <1>2, IdleKeeps DEF accountVars, rosterVars
  <1>6. Rows' = Rows /\ Known' = Known
    BY <1>2, <1>5 DEF Rows, Known
  <1>7. RosterOK' /\ BooksOK'
    BY <1>1, <1>2, <1>5, <1>6, RosterStill, BooksStay
  <1>8. \A a : InUse(a)' <=> a \in T \cup E
    BY <1>2 DEF InUse
  <1>9. AreasOK'
    <2>1. /\ area' \in [AreaIds -> AreaRecord \cup {Nil}] /\ tasks' \cup effs' \subseteq Rows'
          /\ overtaken' \subseteq AreaIds /\ DOMAIN asUsed' = AreaIds
      BY <1>1, <1>2, <1>3, <1>6 DEF AreasOK
    <2>2. ASSUME NEW a \in AreaIds, asUsed'[a] # Nil
          PROVE  InUse(a)' /\ (area'[a].shape = asUsed'[a] \/ a \in overtaken')
      <3>1. a \in T \cup E
        BY <1>3, <2>2
      <3>2. CASE InUse(a)
        <4>1. asUsed'[a] = asUsed[a]
          BY <1>3, <3>1, <3>2
        <4>2. area[a].shape = asUsed[a] \/ a \in overtaken
          BY <1>1, <2>2, <4>1 DEF AreasOK
        <4>3. QED
          BY <1>2, <1>8, <3>1, <4>1, <4>2
      <3>3. CASE ~InUse(a)
        <4>1. asUsed'[a] = area[a].shape
          BY <1>3, <3>1, <3>3
        <4>2. QED
          BY <1>2, <1>8, <3>1, <4>1
      <3>4. QED
        BY <3>2, <3>3
    <2>3. QED
      BY <2>1, <2>2 DEF AreasOK
  <1>10. DesksOK'
    <2>1. AreaLines' = AreaLines /\ RosterLines' = RosterLines
      BY <1>6 DEF AreaLines, RosterLines
    <2>2. ASSUME NEW w \in Workers
          PROVE  desk'[w] \in Work /\ AreaWork(desk[w])' /\ RosterWork(desk[w])'
      <3>1. PICK d : d = desk[w]
        BY ZenonT(60)
      <3>2. PICK e : LateSet(d, e)
        BY ZenonT(60) DEF LateSet
      <3>3. PICK n : n = desk'[w]
        BY ZenonT(60)
      <3>4. d \in Work
        BY <1>1, <3>1 DEF DesksOK
      <3>5. AreaWork(d) /\ RosterWork(d)
        BY <1>1, <3>1, ZenonT(60) DEF DesksOK
      <3>6. /\ e \in Work /\ e.late /\ e.pc = d.pc /\ e.area = d.area /\ e.name = d.name
            /\ e.shape = d.shape /\ e.rows = d.rows /\ e.who = d.who /\ e.form = d.form
            /\ e.read = d.read /\ e.stale = d.stale
        BY <3>2, <3>4, SetLate
      <3>7. n = IF d.pc = "area_write" /\ d.area \in T \cup E THEN e ELSE d
        BY <1>4, <3>1, <3>2, <3>3, ZenonT(60) DEF LateSet
      <3>8. /\ n \in Work /\ n.pc = d.pc /\ n.area = d.area /\ n.name = d.name
            /\ n.shape = d.shape /\ n.rows = d.rows /\ n.who = d.who /\ n.form = d.form
            /\ n.read = d.read /\ n.stale = d.stale
            /\ d.pc = "area_write" /\ d.area \in T \cup E => n.late
        BY <3>4, <3>6, <3>7
      <3>9. AreaWork(n)'
        BY <1>6, <1>8, <2>1, <3>5, <3>8 DEF AreaWork
      <3>10. UpToDate(n)' <=> UpToDate(d)
        BY <1>5, <3>8 DEF UpToDate
      <3>11. RosterWork(n)'
        BY <1>6, <2>1, <3>5, <3>8, <3>10 DEF RosterWork
      <3>12. QED
        BY <3>3, <3>8, <3>9, <3>11, ZenonT(60) DEF AreaWork, RosterWork, UpToDate
    <2>3. desk' \in [Workers -> Work]
      BY <1>4, <2>2
    <2>4. QED
      BY <2>2, <2>3 DEF DesksOK
  <1>11. QED
    BY <1>5, <1>7, <1>9, <1>10 DEF SetupInv

-----------------------------------------------------------------------------
(***************************************************************************)
(* Previews                                                                *)
(***************************************************************************)
RosterFileRow == [mobile : Mobiles, login : Logins, home : Names \cup {Nil}]
AreaFileRow   == [name : Names, shape : Shapes]
PlanFileRow   == [team : Teams, home : Names \cup {Nil}]

LEMMA SeqOf == ASSUME NEW S, NEW n \in Nat, NEW f \in [1 .. n -> S] PROVE f \in Seq(S)
  OBVIOUS

LEMMA AreaOfIs ==
  ASSUME NEW n \in Names \cup {Nil}, ~Unknown(n)
  PROVE  AreaOf(n) \in AreaIds \cup {0} /\ (n # Nil => AreaOf(n) \in Rows)
  <1>1. CASE n = Nil
    BY <1>1 DEF AreaOf
  <1>2. CASE n # Nil
    <2>1. Named(n) # {} /\ AreaOf(n) = CHOOSE a \in Named(n) : TRUE
      BY <1>2 DEF Unknown, AreaOf
    <2>2. AreaOf(n) \in Named(n)
      BY <2>1, ZenonT(60)
    <2>3. QED
      BY <2>2 DEF Named, Live, Rows
  <1>3. QED
    BY <1>1, <1>2

LEMMA RosterRowIs ==
  ASSUME NEW r \in RosterFileRow
  PROVE  RosterRow(r) \in RosterLines
  <1>1. PICK f : f = [mobile |-> r.mobile, login |-> r.login, home |-> AreaOf(r.home)]
    BY ZenonT(60)
  <1>2. PICK m : m = CHOOSE x \in Holder(r.mobile) : TRUE
    BY ZenonT(60)
  <1>3. r.mobile \in Mobiles /\ r.login \in Logins /\ r.home \in Names \cup {Nil}
    BY DEF RosterFileRow
  <1>4. ~Unknown(r.home) => f \in MemberRecord
    <2>1. ~Unknown(r.home) => AreaOf(r.home) \in {0} \cup AreaIds
      BY <1>3, AreaOfIs
    <2>2. QED
      BY <1>1, <1>3, <2>1 DEF MemberRecord
  <1>5. Holder(r.mobile) # {} => m \in Known
    <2>1. Holder(r.mobile) # {} => m \in Holder(r.mobile)
      BY <1>2, ZenonT(60)
    <2>2. QED
      BY <2>1 DEF Holder, Known
  <1>6. PICK v : v = RosterRow(r)
    BY ZenonT(60)
  <1>7. CASE Unknown(r.home)
    <2>1. v = [status |-> "error", who |-> Nil, form |-> Nobody]
      BY <1>6, <1>7, ZenonT(60) DEF RosterRow
    <2>2. QED
      BY <1>6, <2>1 DEF RosterLines, RosterLine
  <1>8. CASE ~Unknown(r.home) /\ Holder(r.mobile) = {}
    <2>1. v = [status |-> "new", who |-> Nil, form |-> f]
      BY <1>1, <1>6, <1>8, ZenonT(60) DEF RosterRow
    <2>2. QED
      BY <1>4, <1>6, <1>8, <2>1 DEF RosterLines, RosterLine
  <1>9. CASE ~Unknown(r.home) /\ Holder(r.mobile) # {}
    <2>1. v = [status |-> IF person[m] = f THEN "unchanged" ELSE "changed", who |-> m, form |-> f]
      BY <1>1, <1>2, <1>6, <1>9, ZenonT(60) DEF RosterRow
    <2>2. m \in Members /\ m \in Known /\ f \in MemberRecord
      BY <1>4, <1>5, <1>9 DEF Known
    <2>3. PICK s : s = IF person[m] = f THEN "unchanged" ELSE "changed"
      BY ZenonT(60)
    <2>4. s \in {"unchanged", "changed"} /\ v = [status |-> s, who |-> m, form |-> f]
      BY <2>1, <2>3, ZenonT(60)
    <2>5. QED
      BY <1>6, <2>2, <2>4 DEF RosterLines, RosterLine
  <1>10. QED
    BY <1>7, <1>8, <1>9

LEMMA AreaRowIs ==
  ASSUME NEW file \in Seq(AreaFileRow), NEW i \in DOMAIN file
  PROVE  AreaRow(file, i) \in AreaLines
  <1>1. PICK r : r = file[i]
    BY ZenonT(60)
  <1>2. r \in AreaFileRow /\ r.name \in Names /\ r.shape \in Shapes
    <2>1. r \in AreaFileRow
      BY <1>1
    <2>2. QED
      BY <2>1 DEF AreaFileRow
  <1>3. PICK known \in BOOLEAN : known <=> Named(r.name) # {}
    BY ZenonT(60)
  <1>4. known => AreaOf(r.name) \in Rows
    <2>1. r.name # Nil
      BY <1>2, SetupFacts
    <2>2. known => ~Unknown(r.name)
      BY <1>3, ZenonT(60) DEF Unknown
    <2>3. QED
      BY <1>2, <2>1, <2>2, AreaOfIs
  <1>5. PICK y : y = IF Named(r.name) # {} THEN AreaOf(r.name) ELSE Nil
    BY ZenonT(60)
  <1>6. PICK x : x = CASE \/ \E j \in 1 .. i - 1 : file[j].name = r.name
                          \/ Named(r.name) # {} /\ InUse(AreaOf(r.name)) -> "error"
                       [] OTHER -> IF Named(r.name) # {} THEN "update" ELSE "new"
    BY ZenonT(60)
  <1>7. AreaRow(file, i) = [status |-> x, area |-> y, name |-> r.name, shape |-> r.shape]
    BY <1>1, <1>5, <1>6, ZenonT(60) DEF AreaRow
  <1>8. x \in {"error", "update", "new"} /\ (x = "update" => known)
    BY <1>3, <1>6, ZenonT(60)
  <1>9. y \in AreaIds \cup {Nil} /\ (x = "update" => y \in Rows)
    <2>1. CASE known
      <3>1. y = AreaOf(r.name)
        BY <1>3, <1>5, <2>1, ZenonT(60)
      <3>2. QED
        BY <1>4, <2>1, <3>1 DEF Rows
    <2>2. CASE ~known
      <3>1. y = Nil
        BY <1>3, <1>5, <2>2, ZenonT(60)
      <3>2. QED
        BY <1>8, <2>2, <3>1, ZenonT(60)
    <2>3. QED
      BY <2>1, <2>2, ZenonT(60)
  <1>10. QED
    BY <1>2, <1>7, <1>8, <1>9 DEF AreaLines, AreaLine

LEMMA PlanRowIs ==
  ASSUME NEW file \in Seq(PlanFileRow), NEW i \in DOMAIN file
  PROVE  PlanRow(file, i) \in PlanLine
  <1>1. PICK r : r = file[i]
    BY ZenonT(60)
  <1>2. r.team \in Teams /\ r.home \in Names \cup {Nil}
    <2>1. r \in PlanFileRow
      BY <1>1
    <2>2. QED
      BY <2>1 DEF PlanFileRow
  <1>3. \/ PlanRow(file, i) = [status |-> "error", team |-> r.team, area |-> 0]
        \/ /\ ~Unknown(r.home)
           /\ PlanRow(file, i) = [status |-> "ok", team |-> r.team, area |-> AreaOf(r.home)]
    BY <1>1, ZenonT(60) DEF PlanRow
  <1>4. ~Unknown(r.home) => AreaOf(r.home) \in AreaIds \cup {0}
    BY <1>2, AreaOfIs
  <1>5. QED
    BY <1>2, <1>3, <1>4 DEF PlanLine

(* What each kind of upload is read as.                                    *)
LEMMA ParsedIs ==
  /\ \A f \in RosterFiles : Parsed("roster", f) \in Seq(RosterLines)
  /\ \A f \in AreaFiles : Parsed("area", f) \in Seq(AreaLines)
  /\ \A f \in PlanFiles : Parsed("plan", f) \in Seq(PlanLine)
  <1>1. ASSUME NEW f \in RosterFiles PROVE Parsed("roster", f) \in Seq(RosterLines)
    <2>1. f \in Seq(RosterFileRow)
      BY SetupAssumption, ZenonT(60) DEF RosterFileRow
    <2>2. DOMAIN f = 1 .. Len(f) /\ Len(f) \in Nat /\ \A i \in DOMAIN f : f[i] \in RosterFileRow
      BY <2>1
    <2>3. Parsed("roster", f) = [i \in DOMAIN f |-> RosterRow(f[i])]
      BY ZenonT(60) DEF Parsed
    <2>4. \A i \in DOMAIN f : RosterRow(f[i]) \in RosterLines
      BY <2>2, RosterRowIs
    <2>5. Parsed("roster", f) \in [1 .. Len(f) -> RosterLines]
      BY <2>2, <2>3, <2>4
    <2>6. QED
      BY <2>2, <2>5, SeqOf
  <1>2. ASSUME NEW f \in AreaFiles PROVE Parsed("area", f) \in Seq(AreaLines)
    <2>1. f \in Seq(AreaFileRow)
      BY SetupAssumption, ZenonT(60) DEF AreaFileRow
    <2>2. DOMAIN f = 1 .. Len(f) /\ Len(f) \in Nat
      BY <2>1
    <2>3. Parsed("area", f) = [i \in DOMAIN f |-> AreaRow(f, i)]
      BY ZenonT(60) DEF Parsed
    <2>4. \A i \in DOMAIN f : AreaRow(f, i) \in AreaLines
      BY <2>1, AreaRowIs
    <2>5. Parsed("area", f) \in [1 .. Len(f) -> AreaLines]
      BY <2>2, <2>3, <2>4
    <2>6. QED
      BY <2>2, <2>5, SeqOf
  <1>3. ASSUME NEW f \in PlanFiles PROVE Parsed("plan", f) \in Seq(PlanLine)
    <2>1. f \in Seq(PlanFileRow)
      BY SetupAssumption, ZenonT(60) DEF PlanFileRow
    <2>2. DOMAIN f = 1 .. Len(f) /\ Len(f) \in Nat
      BY <2>1
    <2>3. Parsed("plan", f) = [i \in DOMAIN f |-> PlanRow(f, i)]
      BY ZenonT(60) DEF Parsed
    <2>4. \A i \in DOMAIN f : PlanRow(f, i) \in PlanLine
      BY <2>1, PlanRowIs
    <2>5. Parsed("plan", f) \in [1 .. Len(f) -> PlanLine]
      BY <2>2, <2>3, <2>4
    <2>6. QED
      BY <2>2, <2>5, SeqOf
  <1>4. QED
    BY <1>1, <1>2, <1>3

(* Only the book of previews changes.                                      *)
LEMMA BookChanges ==
  ASSUME SetupInv, BooksOK', UNCHANGED accountVars, UNCHANGED areaVars, UNCHANGED rosterVars, UNCHANGED desk
  PROVE  SetupInv'
  <1>1. IInv /\ AreasOK /\ RosterOK /\ DesksOK
    BY DEF SetupInv
  <1>2. UNCHANGED account /\ UNCHANGED <<area, person, tasks, effs>>
    BY DEF accountVars, areaVars, rosterVars
  <1>3. IInv' /\ AreasOK' /\ RosterOK' /\ DesksOK'
    BY <1>1, <1>2, IdleKeeps, AreasStay, RosterStill, StillGrows, DesksStay
  <1>4. QED
    BY <1>3 DEF SetupInv

LEMMA SameLines == ASSUME UNCHANGED <<area, person>> PROVE AreaLines' = AreaLines /\ RosterLines' = RosterLines
  BY DEF AreaLines, RosterLines, Rows, Known

LEMMA PreviewKeeps ==
  ASSUME SetupInv, NEW kind \in {"roster", "area", "plan"}, NEW file, Preview(kind, file),
         kind = "roster" => Parsed(kind, file) \in Seq(RosterLines),
         kind = "area" => Parsed(kind, file) \in Seq(AreaLines),
         kind = "plan" => Parsed(kind, file) \in Seq(PlanLine)
  PROVE  SetupInv'
  <1>1. PICK q : q = Parsed(kind, file)
    BY ZenonT(60)
  <1>2. PICK p : p = [kind |-> kind, rows |-> q, at |-> clock]
    BY ZenonT(60)
  <1>3. IInv /\ BookOK /\ \A t \in Tokens : PreviewOK(t)
    BY DEF SetupInv, BooksOK
  <1>4. /\ made' = made + 1 /\ applied' = applied /\ UNCHANGED accountVars /\ UNCHANGED areaVars
        /\ UNCHANGED rosterVars /\ UNCHANGED desk
    BY DEF Preview
  <1>5. book' = [t \in Tokens |->
                   IF t = made + 1 THEN p
                   ELSE IF book[t] # Nil /\ book[t].kind = kind /\ Expired(book[t]) THEN Nil
                   ELSE book[t]]
    BY <1>1, <1>2, ZenonT(60) DEF Preview
  <1>6. \A t \in Tokens : \/ (book'[t] = p /\ t = made + 1)
                         \/ book'[t] = Nil
                         \/ (book'[t] = book[t] /\ t # made + 1)
    BY <1>5, ZenonT(60)
  <1>7. clock \in Nat
    BY <1>3 DEF IInv, TypeOK
  <1>8. q \in Seq(Line)
    <2>1. RosterLines \subseteq Line /\ AreaLines \subseteq Line /\ PlanLine \subseteq Line
      BY DEF RosterLines, AreaLines, Line
    <2>2. QED
      BY <1>1, <2>1, SeqGrows
  <1>9. p \in Kept /\ p.kind = kind /\ p.rows = q
    BY <1>2, <1>7, <1>8 DEF Kept
  <1>10. BookOK'
    <2>1. made \in Nat /\ book \in [Tokens -> Kept] /\ applied \in [Tokens -> {0, 1}] /\ Nil \in Kept
      BY <1>3 DEF BookOK, Kept
    <2>2. DOMAIN book' = Tokens
      BY <1>5
    <2>3. \A t \in Tokens : book'[t] \in Kept
      BY <1>6, <1>9, <2>1
    <2>4. book' \in [Tokens -> Kept]
      BY <1>5, <2>2, <2>3
    <2>5. ASSUME NEW t \in Tokens
          PROVE  (t > made' => book'[t] = Nil) /\ (t > made' \/ book'[t] # Nil => applied'[t] = 0)
      <3>1. t \in Nat
        BY SetupFacts
      <3>2. (t > made => book[t] = Nil) /\ (t > made \/ book[t] # Nil => applied[t] = 0)
        BY <1>3 DEF BookOK
      <3>3. QED
        BY <1>4, <1>6, <2>1, <3>1, <3>2
    <2>6. QED
      BY <1>4, <2>1, <2>4, <2>5 DEF BookOK
  <1>11. AreaLines' = AreaLines /\ RosterLines' = RosterLines
    BY <1>4, SameLines DEF areaVars, rosterVars
  <1>12. ASSUME NEW t \in Tokens PROVE PreviewOK(t)'
    <2>1. PreviewOK(t)
      BY <1>3
    <2>2. CASE book'[t] = p
      BY <1>1, <1>9, <1>11, <2>2 DEF PreviewOK
    <2>3. CASE book'[t] = Nil
      BY <2>3 DEF PreviewOK
    <2>4. CASE book'[t] = book[t]
      BY <1>11, <2>1, <2>4 DEF PreviewOK
    <2>5. QED
      BY <1>6, <2>2, <2>3, <2>4
  <1>13. BooksOK'
    BY <1>10, <1>12 DEF BooksOK
  <1>14. QED
    BY <1>4, <1>13, BookChanges

(* A preview is gone; if it was taken, it counts.                          *)
LEMMA TakenKeeps ==
  ASSUME BooksOK, NEW t \in Tokens, Taken(t), book[t] # Nil, UNCHANGED <<made, area, person>>,
         applied' = applied \/ applied' = [applied EXCEPT ![t] = @ + 1]
  PROVE  BooksOK'
  <1>1. BookOK /\ \A u \in Tokens : PreviewOK(u)
    BY DEF BooksOK
  <1>2. made \in Nat /\ book \in [Tokens -> Kept] /\ applied \in [Tokens -> {0, 1}] /\ Nil \in Kept
    BY <1>1 DEF BookOK, Kept
  <1>3. book' \in [Tokens -> Kept] /\ book'[t] = Nil /\ \A u \in Tokens \ {t} : book'[u] = book[u]
    BY <1>2 DEF Taken
  <1>4. applied[t] = 0 /\ ~(t > made)
    BY <1>1 DEF BookOK
  <1>5. applied' \in [Tokens -> {0, 1}] /\ \A u \in Tokens \ {t} : applied'[u] = applied[u]
    BY <1>2, <1>4
  <1>6. BookOK'
    BY <1>1, <1>2, <1>3, <1>4, <1>5 DEF BookOK
  <1>7. AreaLines' = AreaLines /\ RosterLines' = RosterLines
    BY SameLines
  <1>8. \A u \in Tokens : PreviewOK(u)'
    BY <1>1, <1>3, <1>7 DEF PreviewOK
  <1>9. QED
    BY <1>6, <1>8 DEF BooksOK

LEMMA TakeExpiredKeeps ==
  ASSUME SetupInv, NEW t \in Tokens, TakeExpired(t)
  PROVE  SetupInv'
  <1>1. /\ book[t] # Nil /\ Taken(t) /\ UNCHANGED accountVars /\ UNCHANGED areaVars
        /\ UNCHANGED rosterVars /\ UNCHANGED desk /\ UNCHANGED made /\ applied' = applied
    BY DEF TakeExpired
  <1>2. UNCHANGED <<made, area, person>> /\ BooksOK
    BY <1>1 DEF areaVars, rosterVars, SetupInv
  <1>3. BooksOK'
    BY <1>1, <1>2, TakenKeeps, ZenonT(60)
  <1>4. QED
    BY <1>1, <1>3, BookChanges

LEMMA RestartKeeps ==
  ASSUME SetupInv, Restart
  PROVE  SetupInv'
  <1>1. /\ book' = [t \in Tokens |-> Nil] /\ UNCHANGED accountVars /\ UNCHANGED areaVars
        /\ UNCHANGED rosterVars /\ UNCHANGED desk /\ made' = made /\ applied' = applied
    BY DEF Restart
  <1>2. BooksOK'
    BY <1>1 DEF SetupInv, BooksOK, BookOK, PreviewOK, Kept
  <1>3. QED
    BY <1>1, <1>2, BookChanges

(* A commit begins with the rows of the preview it takes.                  *)
Uploaded(pc, q, d) == d = [None EXCEPT !.pc = pc, !.rows = q]
LEMMA TakeKeeps ==
  ASSUME SetupInv, NEW w \in Workers, NEW t \in Tokens, NEW kind, NEW pc, Take(w, t, kind, pc),
         <<kind, pc>> \in {<<"roster", "roster_rows">>, <<"area", "area_rows">>, <<"plan", "plan_save">>}
  PROVE  SetupInv'
  <1>1. PICK q : q = book[t].rows
    BY ZenonT(60)
  <1>2. PICK d : Uploaded(pc, q, d)
    BY ZenonT(60) DEF Uploaded
  <1>3. IInv /\ AreasOK /\ RosterOK /\ BooksOK /\ DesksOK
    BY DEF SetupInv
  <1>4. /\ book[t] # Nil /\ book[t].kind = kind /\ Taken(t) /\ applied' = [applied EXCEPT ![t] = @ + 1]
        /\ UNCHANGED areaVars /\ UNCHANGED rosterVars /\ UNCHANGED made
    BY DEF Take
  <1>5. Begin(w, Import(kind), d)
    BY <1>1, <1>2, ZenonT(60) DEF Take, Uploaded
  <1>6. Begun(w) /\ Sit(w, d) /\ UNCHANGED account
    BY <1>5, BeginIs
  <1>7. UNCHANGED <<area, person, tasks, effs>>
    BY <1>4 DEF areaVars, rosterVars
  <1>8. IInv' /\ AreasOK' /\ RosterOK' /\ Grows
    BY <1>3, <1>4, <1>6, <1>7, BegunKeeps, AreasStay, RosterStill, StillGrows
  <1>9. BooksOK'
    <2>1. UNCHANGED <<made, area, person>>
      BY <1>4, <1>7
    <2>2. QED
      BY <1>3, <1>4, <2>1, TakenKeeps, ZenonT(60)
  <1>10. /\ q \in Seq(Line) /\ (kind = "area" => q \in Seq(AreaLines))
         /\ (kind = "roster" => q \in Seq(RosterLines))
    <2>1. book[t] \in Kept /\ PreviewOK(t)
      BY <1>3 DEF BooksOK, BookOK
    <2>2. QED
      BY <1>1, <1>4, <2>1 DEF PreviewOK, Kept
  <1>11. d \in Work /\ d.pc = pc /\ d.rows = q
    <2>1. PICK x : PcSet(None, pc, x)
      BY ZenonT(60) DEF PcSet
    <2>2. RowsSet(x, q, d)
      BY <1>2, <2>1, ZenonT(60) DEF PcSet, RowsSet, Uploaded
    <2>3. pc \in WorkPCs /\ None \in Work
      BY NoneIs DEF WorkPCs
    <2>4. x \in Work /\ x.pc = pc
      BY <2>1, <2>3, SetPc
    <2>5. QED
      BY <1>10, <2>2, <2>4, SetRows
  <1>12. AreaLines' = AreaLines /\ RosterLines' = RosterLines
    BY <1>7, SameLines
  <1>13. AreaWork(d)' /\ RosterWork(d)'
    BY <1>10, <1>11, <1>12 DEF AreaWork, RosterWork
  <1>14. DesksOK'
    BY <1>3, <1>6, <1>8, <1>11, <1>13, DeskMoves, ZenonT(60)
  <1>15. QED
    BY <1>8, <1>9, <1>14 DEF SetupInv

LEMMA AreaImportKeeps ==
  ASSUME SetupInv, NEW w \in Workers, AreaImportRow(w)
  PROVE  SetupInv'
  <1>1. PICK d : d = desk[w]
    BY ZenonT(60)
  <1>2. PICK r : r = Head(d.rows)
    BY ZenonT(60)
  <1>3. PICK e : RowNext(d, "area_rows", e)
    BY ZenonT(60) DEF RowNext
  <1>4. PICK u : Filled(d, r.area, r.name, r.shape, u)
    BY ZenonT(60) DEF Filled
  <1>5. IInv /\ AreasOK /\ DesksOK
    BY DEF SetupInv
  <1>6. d.pc = "area_rows" /\ d \in Work
    BY <1>1, <1>5 DEF AreaImportRow, Doing, DesksOK
  <1>7. AreaWork(d)
    BY <1>1, <1>5, ZenonT(60) DEF DesksOK
  <1>8. d.rows \in Seq(AreaLines)
    BY <1>6, <1>7 DEF AreaWork
  <1>9. d.rows # <<>> => r \in AreaLines
    BY <1>2, <1>8
  <1>10. d.rows # <<>> => r.name \in Names /\ r.shape \in Shapes /\ (r.status = "update" => r.area \in Rows)
    BY <1>9 DEF AreaLines, AreaLine
  <1>11. /\ UNCHANGED <<tasks, effs, asUsed, overtaken>> /\ UNCHANGED rosterVars /\ UNCHANGED bookVars
    BY DEF AreaImportRow
  <1>12. \/ d.rows = <<>> /\ End(w) /\ area' = area
         \/ /\ d.rows # <<>> /\ Stay(w, e) /\ (area' = area \/ Insert(r.name, r.shape))
         \/ /\ d.rows # <<>> /\ r.status = "update" /\ ~InUse(r.area) /\ Stay(w, u) /\ area' = area
    BY <1>1, <1>2, <1>3, <1>4, ZenonT(60) DEF AreaImportRow, RowNext, Filled
  <1>13. IInv' /\ UNCHANGED account /\ (Sit(w, None) \/ Sit(w, e) \/ Sit(w, u))
    BY <1>5, <1>12, EndIs, StayIs, NextKeeps, IdleKeeps
  <1>14. /\ area' \in [AreaIds -> AreaRecord \cup {Nil}] /\ Rows \subseteq Rows'
         /\ \A a \in Rows : area'[a] = area[a]
    <2>1. area \in [AreaIds -> AreaRecord \cup {Nil}]
      BY <1>5 DEF AreasOK
    <2>2. CASE area' = area
      BY <2>1, <2>2 DEF Rows
    <2>3. CASE d.rows # <<>> /\ Insert(r.name, r.shape)
      BY <1>10, <2>1, <2>3, InsertAdds, ZenonT(60)
    <2>4. QED
      BY <1>12, <2>2, <2>3
  <1>15. AreasOK'
    BY <1>5, <1>11, <1>14, AreaChanges DEF AreasOK
  <1>16. UNCHANGED <<account, person>> /\ UNCHANGED <<tasks, effs>>
    BY <1>11, <1>13 DEF rosterVars
  <1>17. AreaLines \subseteq AreaLines'
    BY <1>14, <1>16, LinesGrow DEF Known
  <1>18. CASE Sit(w, None)
    BY <1>11, <1>13, <1>14, <1>15, <1>16, <1>18, PartsKeep, ZenonT(60)
  <1>19. CASE d.rows # <<>> /\ Sit(w, e)
    <2>1. "area_rows" \in WorkPCs
      BY DEF WorkPCs
    <2>2. e \in Work /\ e.pc = "area_rows" /\ e.rows = Tail(d.rows)
      BY <1>3, <1>6, <1>19, <2>1, NextRowIs
    <2>3. e.rows \in Seq(AreaLines')
      BY <1>8, <1>17, <1>19, <2>2, NextRowWorks, SeqGrows
    <2>4. AreaWork(e)' /\ RosterWork(e)'
      BY <2>2, <2>3 DEF AreaWork, RosterWork
    <2>5. QED
      BY <1>11, <1>13, <1>14, <1>15, <1>16, <1>19, <2>2, <2>4, PartsKeep, ZenonT(60)
  <1>20. CASE d.rows # <<>> /\ r.status = "update" /\ ~InUse(r.area) /\ Sit(w, u)
    <2>1. r.area \in Rows /\ r.area \in AreaIds /\ r.name \in Names /\ r.shape \in Shapes
      BY <1>10, <1>20 DEF Rows
    <2>2. /\ u \in Work /\ u.pc = "area_write" /\ u.area = r.area /\ u.name = r.name
          /\ u.shape = r.shape /\ u.rows = d.rows
      BY <1>4, <1>6, <2>1, AreaForm
    <2>3. u.rows \in Seq(AreaLines')
      BY <1>8, <1>17, <2>2, SeqGrows
    <2>4. ~InUse(r.area)'
      BY <1>11, <1>20 DEF InUse
    <2>5. AreaWork(u)' /\ RosterWork(u)'
      BY <1>14, <2>1, <2>2, <2>3, <2>4 DEF AreaWork, RosterWork, InUse
    <2>6. QED
      BY <1>11, <1>13, <1>14, <1>15, <1>16, <1>20, <2>2, <2>5, PartsKeep, ZenonT(60)
  <1>21. \/ Sit(w, None) \/ (d.rows # <<>> /\ Sit(w, e))
         \/ (d.rows # <<>> /\ r.status = "update" /\ ~InUse(r.area) /\ Sit(w, u))
    BY <1>12, EndIs, StayIs
  <1>22. QED
    BY <1>18, <1>19, <1>20, <1>21

LEMMA PlanSaveKeeps ==
  ASSUME SetupInv, NEW w \in Workers, PlanSave(w)
  PROVE  SetupInv'
  <1>1. End(w) /\ UNCHANGED areaVars /\ UNCHANGED rosterVars /\ UNCHANGED bookVars
    BY DEF PlanSave
  <1>2. IInv /\ AreasOK
    BY DEF SetupInv
  <1>3. Next /\ Sit(w, None) /\ UNCHANGED account
    BY <1>1, EndIs
  <1>4. IInv' /\ AreasOK'
    BY <1>1, <1>2, <1>3, NextKeeps, AreasStay
  <1>5. UNCHANGED <<account, person>> /\ UNCHANGED <<tasks, effs>> /\ Rows \subseteq Rows'
    BY <1>1, <1>3 DEF areaVars, rosterVars, Rows
  <1>6. QED
    BY <1>1, <1>3, <1>4, <1>5, PartsKeep, ZenonT(60)

-----------------------------------------------------------------------------
(***************************************************************************)
(* The roster                                                              *)
(***************************************************************************)
(* A member is added: a row and an account, and the row is as asked for.   *)
LEMMA AddKeeps ==
  ASSUME IInv, RosterOK, NEW f \in MemberRecord, Add(f), UNCHANGED call, UNCHANGED clobbered
  PROVE  /\ IInv' /\ RosterOK' /\ NewMember \in Members
         /\ \A m \in Known : person'[m] = person[m] /\ m \in Known'
  <1>1. PICK m : m = NewMember
    BY ZenonT(60)
  <1>2. m \in Members /\ ~Has(m)
    BY <1>1, ZenonT(60) DEF Add, Room, NewMember
  <1>3. Enrol(m) /\ person' = [person EXCEPT ![m] = f] /\ want' = [want EXCEPT ![m] = f]
    BY <1>1 DEF Add
  <1>4. Next
    BY <1>2, <1>3, ZenonT(60) DEF Next
  <1>5. IInv'
    BY <1>4, NextKeeps
  <1>6. person \in [Members -> MemberRecord \cup {Nil}] /\ want \in [Members -> MemberRecord \cup {Nil}]
    BY DEF RosterOK
  <1>7. account \in [Subjects -> Row \cup {Nil}] /\ m \in Subjects
    BY <1>2 DEF IInv, TypeOK, Subjects
  <1>8. PICK n : n = RowOf("member")
    BY ZenonT(60)
  <1>9. n # Nil
    <2>1. Nil \notin Row
      BY AccountsAssumption
    <2>2. n \in Row
      BY <1>8, RowOfRole
    <2>3. QED
      BY <2>1, <2>2
  <1>10. account' = [account EXCEPT ![m] = n]
    BY <1>3, <1>8 DEF Enrol
  <1>11. account'[m] # Nil /\ \A x \in Members \ {m} : account'[x] = account[x]
    BY <1>7, <1>9, <1>10 DEF Subjects
  <1>12. /\ person' \in [Members -> MemberRecord \cup {Nil}] /\ want' \in [Members -> MemberRecord \cup {Nil}]
         /\ person'[m] = f /\ want'[m] = f
         /\ \A x \in Members \ {m} : person'[x] = person[x] /\ want'[x] = want[x]
    BY <1>2, <1>3, <1>6
  <1>13. f # Nil
    BY SetupFacts
  <1>14. RosterOK'
    BY <1>2, <1>11, <1>12, <1>13 DEF RosterOK
  <1>15. m \notin Known
    BY <1>2 DEF RosterOK, Known, Has
  <1>16. QED
    BY <1>1, <1>2, <1>5, <1>12, <1>14, <1>15 DEF Known

(* Putting the parts together: rows of the roster come.                    *)
LEMMA RosterGrows ==
  ASSUME SetupInv, IInv', RosterOK', UNCHANGED areaVars, UNCHANGED bookVars,
         \A m \in Known : m \in Known' /\ person'[m].mobile = person[m].mobile /\ person'[m].home = person[m].home,
         \/ UNCHANGED desk
         \/ \E w \in Workers : Sit(w, None)
         \/ \E w \in Workers, d \in Work : Sit(w, d) /\ AreaWork(d)' /\ RosterWork(d)'
  PROVE  SetupInv'
  <1>1. AreasOK /\ BooksOK /\ DesksOK
    BY DEF SetupInv
  <1>2. UNCHANGED <<area, tasks, effs>>
    BY DEF areaVars
  <1>3. Grows
    BY <1>2 DEF Grows, Rows
  <1>4. AreasOK' /\ BooksOK'
    BY <1>1, <1>3, AreasStay, BooksStay DEF Grows
  <1>5. DesksOK'
    BY <1>1, <1>3, DesksStay, DeskEnds, DeskMoves, ZenonT(60)
  <1>6. QED
    BY <1>4, <1>5 DEF SetupInv

LEMMA MemberCreateKeeps ==
  ASSUME SetupInv, NEW f \in AddForms, MemberCreate(f)
  PROVE  SetupInv'
  <1>1. /\ Add(f) /\ UNCHANGED call /\ UNCHANGED clobbered /\ UNCHANGED areaVars
        /\ UNCHANGED bookVars /\ UNCHANGED desk
    BY DEF MemberCreate
  <1>2. f \in MemberRecord
    BY SetupAssumption, ZenonT(60)
  <1>3. IInv /\ RosterOK
    BY DEF SetupInv
  <1>4. IInv' /\ RosterOK' /\ \A m \in Known : person'[m] = person[m] /\ m \in Known'
    BY <1>1, <1>2, <1>3, AddKeeps, ZenonT(60)
  <1>5. \A m \in Known : m \in Known' /\ person'[m].mobile = person[m].mobile /\ person'[m].home = person[m].home
    BY <1>4
  <1>6. QED
    BY <1>1, <1>4, <1>5, RosterGrows, ZenonT(60)

(* The accounts move on, the roster's rows stay.                           *)
LEMMA RosterWaits ==
  ASSUME SetupInv, IInv', SameMembers, UNCHANGED areaVars, UNCHANGED bookVars,
         UNCHANGED <<person, want, clobbered>>,
         \/ UNCHANGED desk
         \/ \E w \in Workers : Sit(w, None)
         \/ \E w \in Workers, d \in Work : Sit(w, d) /\ AreaWork(d)' /\ RosterWork(d)'
  PROVE  SetupInv'
  <1>1. RosterOK
    BY DEF SetupInv
  <1>2. RosterOK'
    BY <1>1, RosterStays
  <1>3. \A m \in Known : m \in Known' /\ person'[m].mobile = person[m].mobile /\ person'[m].home = person[m].home
    BY DEF Known
  <1>4. QED
    BY <1>2, <1>3, RosterGrows, ZenonT(60)

LEMMA BreakKeeps ==
  ASSUME SetupInv, NEW w \in Workers, Break(w)
  PROVE  SetupInv'
  <1>1. Fail(w) /\ Sit(w, None) /\ UNCHANGED areaVars /\ UNCHANGED rosterVars /\ UNCHANGED bookVars
    BY DEF Break
  <1>2. Next
    BY <1>1, ZenonT(60) DEF Next
  <1>3. IInv'
    BY <1>2, NextKeeps DEF SetupInv
  <1>4. SameMembers /\ UNCHANGED <<person, want, clobbered>>
    BY <1>1 DEF SameMembers, Fail, rosterVars
  <1>5. QED
    BY <1>1, <1>3, <1>4, RosterWaits, ZenonT(60)

LEMMA OfAccountsKeeps ==
  ASSUME SetupInv, OfAccounts
  PROVE  SetupInv'
  <1>1. (\E w \in Workers : Handle(w)) \/ Other
    BY DEF OfAccounts
  <1>2. UNCHANGED areaVars /\ UNCHANGED rosterVars /\ UNCHANGED bookVars /\ UNCHANGED desk
    BY DEF OfAccounts, setupVars
  <1>3. Next
    BY <1>1, ZenonT(60) DEF Next
  <1>4. IInv
    BY DEF SetupInv
  <1>5. IInv' /\ SameMembers
    BY <1>1, <1>3, <1>4, NextKeeps, HandleMembers, OtherMembers
  <1>6. UNCHANGED <<person, want, clobbered>>
    BY <1>2 DEF rosterVars
  <1>7. QED
    BY <1>2, <1>5, <1>6, RosterWaits, ZenonT(60)

(* An edit begins: whose row, and the form.                                *)
Editing(m, f, d) == d = [None EXCEPT !.pc = "read", !.who = m, !.form = f]
LEMMA MemberPutKeeps ==
  ASSUME SetupInv, NEW w \in Workers, NEW m \in Members, NEW v \in {TRUE, FALSE, Nil}, NEW f \in PutForms,
         MemberPut(w, m, v, f)
  PROVE  SetupInv'
  <1>1. PICK d : Editing(m, f, d)
    BY ZenonT(60) DEF Editing
  <1>2. /\ MemberUpdate(w, m, v) /\ Sit(w, d) /\ UNCHANGED areaVars /\ UNCHANGED rosterVars
        /\ UNCHANGED bookVars
    BY <1>1 DEF MemberPut, Editing
  <1>3. IInv /\ RosterOK
    BY DEF SetupInv
  <1>4. SameMembers /\ Next /\ Has(m)
    BY <1>2, <1>3, UpdateMembers, ZenonT(60)
  <1>5. IInv'
    BY <1>3, <1>4, NextKeeps
  <1>6. UNCHANGED <<person, want, clobbered>>
    BY <1>2 DEF rosterVars
  <1>7. m \in Known'
    BY <1>3, <1>4, <1>6 DEF Known, RosterOK, Has
  <1>8. f \in Form
    <2>1. f \in [mobile : Mobiles \cup {Nil}, login : {Nil}, home : AreaIds \cup {0, Nil}]
      BY SetupAssumption, ZenonT(60)
    <2>2. QED
      BY <2>1 DEF Form
  <1>9. d \in Work /\ d.pc = "read" /\ d.who = m /\ d.form = f /\ d.rows = <<>>
    <2>1. PICK x : PcSet(None, "read", x)
      BY ZenonT(60) DEF PcSet
    <2>2. PICK y : WhoSet(x, m, y)
      BY ZenonT(60) DEF WhoSet
    <2>3. FormSet(y, f, d)
      BY <1>1, <2>1, <2>2, ZenonT(60) DEF PcSet, WhoSet, FormSet, Editing
    <2>4. None \in Work /\ None.rows = <<>> /\ "read" \in WorkPCs /\ m \in Members \cup {Nil}
      BY NoneIs DEF WorkPCs
    <2>5. x \in Work /\ x.pc = "read" /\ x.rows = <<>>
      BY <2>1, <2>4, SetPc
    <2>6. y \in Work /\ y.pc = "read" /\ y.rows = <<>> /\ y.who = m
      BY <2>2, <2>4, <2>5, SetWho
    <2>7. QED
      BY <1>8, <2>3, <2>6, SetForm
  <1>10. AreaWork(d)' /\ RosterWork(d)'
    BY <1>7, <1>9 DEF AreaWork, RosterWork
  <1>11. QED
    BY <1>2, <1>4, <1>5, <1>6, <1>9, <1>10, RosterWaits, ZenonT(60)

Reading(b, r, d) == d = [b EXCEPT !.pc = "write", !.read = r, !.stale = FALSE]
LEMMA MemberReadKeeps ==
  ASSUME SetupInv, NEW w \in Workers, MemberRead(w)
  PROVE  SetupInv'
  <1>1. PICK b : b = desk[w]
    BY ZenonT(60)
  <1>2. PICK r : r = person[b.who]
    BY ZenonT(60)
  <1>3. PICK d : Reading(b, r, d)
    BY ZenonT(60) DEF Reading
  <1>4. IInv /\ RosterOK /\ DesksOK
    BY DEF SetupInv
  <1>5. Stay(w, d) /\ UNCHANGED areaVars /\ UNCHANGED rosterVars /\ UNCHANGED bookVars
    BY <1>1, <1>2, <1>3, ZenonT(60) DEF MemberRead, Reading
  <1>6. b.pc = "read" /\ b \in Work
    BY <1>1, <1>4 DEF MemberRead, Doing, DesksOK
  <1>7. RosterWork(b)
    BY <1>1, <1>4, ZenonT(60) DEF DesksOK
  <1>8. b.who \in Known /\ b.rows \in Seq(RosterLines) /\ (b.rows # <<>> => b.form.login \in Logins)
    BY <1>6, <1>7 DEF RosterWork
  <1>9. r \in MemberRecord
    BY <1>2, <1>4, <1>8 DEF RosterOK, Known
  <1>10. r \in Form
    BY <1>9 DEF MemberRecord, Form
  <1>11. UNCHANGED accountVars /\ Sit(w, d) /\ UNCHANGED account
    BY <1>5, StayIs
  <1>12. IInv' /\ SameMembers
    BY <1>4, <1>11, IdleKeeps DEF SameMembers
  <1>13. UNCHANGED <<person, want, clobbered>> /\ UNCHANGED <<area, person>>
    BY <1>5 DEF rosterVars, areaVars
  <1>14. /\ d \in Work /\ d.pc = "write" /\ d.read = r /\ d.who = b.who /\ d.form = b.form
         /\ d.rows = b.rows
    <2>1. PICK x : PcSet(b, "write", x)
      BY ZenonT(60) DEF PcSet
    <2>2. PICK y : ReadSet(x, r, y)
      BY ZenonT(60) DEF ReadSet
    <2>3. StaleSet(y, FALSE, d)
      BY <1>3, <2>1, <2>2, ZenonT(60) DEF PcSet, ReadSet, StaleSet, Reading
    <2>4. "write" \in WorkPCs
      BY DEF WorkPCs
    <2>5. x \in Work /\ x.pc = "write" /\ x.who = b.who /\ x.form = b.form /\ x.rows = b.rows
      BY <1>6, <2>1, <2>4, SetPc
    <2>6. /\ y \in Work /\ y.pc = "write" /\ y.who = b.who /\ y.form = b.form /\ y.rows = b.rows
          /\ y.read = r
      BY <1>10, <2>2, <2>5, SetRead
    <2>7. PICK z \in BOOLEAN : z = FALSE
      BY ZenonT(60)
    <2>8. StaleSet(y, z, d)
      BY <2>3, <2>7, ZenonT(60)
    <2>9. QED
      BY <2>6, <2>8, SetStale
  <1>15. AreaLines' = AreaLines /\ RosterLines' = RosterLines /\ Known' = Known
    BY <1>13, SameLines DEF Known
  <1>16. UpToDate(d)'
    BY <1>2, <1>13, <1>14 DEF UpToDate
  <1>17. AreaWork(d)' /\ RosterWork(d)'
    BY <1>8, <1>9, <1>14, <1>15, <1>16 DEF AreaWork, RosterWork
  <1>18. QED
    BY <1>5, <1>11, <1>12, <1>13, <1>14, <1>17, RosterWaits, ZenonT(60)

LEMMA SameRecord ==
  ASSUME NEW a \in MemberRecord, NEW b \in MemberRecord, a.mobile = b.mobile, a.login = b.login, a.home = b.home
  PROVE  a = b
  BY DEF MemberRecord

(* A row with another mobile number and home; a row with another login id. *)
Moved(p, x, y, v) == v = [p EXCEPT !.mobile = x, !.home = y]
LEMMA MovedIs ==
  ASSUME NEW p \in MemberRecord, NEW x \in Mobiles, NEW y \in {0} \cup AreaIds, NEW v, Moved(p, x, y, v)
  PROVE  v \in MemberRecord /\ v.mobile = x /\ v.login = p.login /\ v.home = y
  <1>1. PICK q : q = [p EXCEPT !.mobile = x]
    BY ZenonT(60)
  <1>2. q \in MemberRecord
    BY <1>1, ZenonT(60) DEF MemberRecord
  <1>3. q.mobile = x /\ q.login = p.login
    BY <1>1 DEF MemberRecord
  <1>4. v = [q EXCEPT !.home = y]
    BY <1>1, ZenonT(60) DEF Moved
  <1>5. v \in MemberRecord
    BY <1>2, <1>4, ZenonT(60) DEF MemberRecord
  <1>6. v.mobile = q.mobile /\ v.login = q.login /\ v.home = y
    BY <1>2, <1>4 DEF MemberRecord
  <1>7. QED
    BY <1>3, <1>5, <1>6

Roster == [Members -> MemberRecord \cup {Nil}]
Asked(f, m, x, y, g) == g = [f EXCEPT ![m].mobile = Or(x, @), ![m].home = Or(y, @)]
LEMMA AskedIs ==
  ASSUME NEW f \in Roster, NEW m \in Members, f[m] \in MemberRecord,
         NEW x \in Mobiles \cup {Nil}, NEW y \in AreaIds \cup {0, Nil}, NEW g, Asked(f, m, x, y, g)
  PROVE  /\ g \in Roster /\ g[m] \in MemberRecord
         /\ g[m].mobile = Or(x, f[m].mobile) /\ g[m].login = f[m].login /\ g[m].home = Or(y, f[m].home)
         /\ \A n \in Members \ {m} : g[n] = f[n]
  <1>1. PICK a : a = Or(x, f[m].mobile)
    BY ZenonT(60)
  <1>2. PICK b : b = Or(y, f[m].home)
    BY ZenonT(60)
  <1>3. a \in Mobiles /\ b \in {0} \cup AreaIds
    BY <1>1, <1>2 DEF Or, MemberRecord
  <1>4. PICK u : u = [f[m] EXCEPT !.mobile = a]
    BY ZenonT(60)
  <1>5. u \in MemberRecord
    BY <1>3, <1>4, ZenonT(60) DEF MemberRecord
  <1>6. u.mobile = a /\ u.login = f[m].login /\ u.home = f[m].home
    BY <1>4 DEF MemberRecord
  <1>7. PICK h : h = [f EXCEPT ![m] = u]
    BY ZenonT(60)
  <1>8. h[m] = u /\ h \in Roster /\ \A n \in Members \ {m} : h[n] = f[n]
    BY <1>5, <1>7 DEF Roster
  <1>9. PICK v : v = [u EXCEPT !.home = b]
    BY ZenonT(60)
  <1>10. v \in MemberRecord
    BY <1>3, <1>5, <1>9, ZenonT(60) DEF MemberRecord
  <1>11. v.mobile = u.mobile /\ v.login = u.login /\ v.home = b
    BY <1>5, <1>9 DEF MemberRecord
  <1>12. g = [h EXCEPT ![m].home = Or(y, @)]
    BY <1>1, <1>4, <1>7, ZenonT(60) DEF Asked
  <1>13. Or(y, h[m].home) = b
    BY <1>2, <1>6, <1>8
  <1>14. g = [h EXCEPT ![m] = v]
    BY <1>8, <1>9, <1>12, <1>13, ZenonT(60)
  <1>15. g[m] = v /\ g \in Roster /\ \A n \in Members \ {m} : g[n] = h[n]
    BY <1>8, <1>10, <1>14 DEF Roster
  <1>16. QED
    BY <1>1, <1>2, <1>6, <1>8, <1>10, <1>11, <1>15

LoginSet(f, m, l, g) == g = [f EXCEPT ![m].login = l]
LEMMA LoginIs ==
  ASSUME NEW f \in Roster, NEW m \in Members, f[m] \in MemberRecord, NEW l \in Logins, NEW g, LoginSet(f, m, l, g)
  PROVE  /\ g \in Roster /\ g[m] \in MemberRecord
         /\ g[m].mobile = f[m].mobile /\ g[m].login = l /\ g[m].home = f[m].home
         /\ \A n \in Members \ {m} : g[n] = f[n]
  <1>1. PICK u : u = [f[m] EXCEPT !.login = l]
    BY ZenonT(60)
  <1>2. u \in MemberRecord
    BY <1>1, ZenonT(60) DEF MemberRecord
  <1>3. u.mobile = f[m].mobile /\ u.login = l /\ u.home = f[m].home
    BY <1>1 DEF MemberRecord
  <1>4. g = [f EXCEPT ![m] = u]
    BY <1>1, ZenonT(60) DEF LoginSet
  <1>5. g[m] = u /\ g \in Roster /\ \A n \in Members \ {m} : g[n] = f[n]
    BY <1>2, <1>4 DEF Roster
  <1>6. QED
    BY <1>2, <1>3, <1>5

LEMMA RosterLoginKeeps ==
  ASSUME SetupInv, NEW w \in Workers, RosterLogin(w)
  PROVE  SetupInv'
  <1>1. PICK d : d = desk[w]
    BY ZenonT(60)
  <1>2. PICK e : RowNext(d, "roster_rows", e)
    BY ZenonT(60) DEF RowNext
  <1>3. PICK m : m = d.who
    BY ZenonT(60)
  <1>4. PICK l : l = d.form.login
    BY ZenonT(60)
  <1>5. IInv /\ RosterOK /\ DesksOK
    BY DEF SetupInv
  <1>6. d.pc = "login" /\ d \in Work
    BY <1>1, <1>5 DEF RosterLogin, Doing, DesksOK
  <1>7. RosterWork(d)
    BY <1>1, <1>5, ZenonT(60) DEF DesksOK
  <1>8. m \in Known /\ d.rows \in Seq(RosterLines) /\ d.rows # <<>> /\ l \in Logins
    BY <1>3, <1>4, <1>6, <1>7 DEF RosterWork
  <1>9. UNCHANGED areaVars /\ UNCHANGED clobbered /\ UNCHANGED bookVars
    BY DEF RosterLogin
  <1>10. \/ LoginSet(person, m, l, person') /\ LoginSet(want, m, l, want') /\ Stay(w, e)
         \/ UNCHANGED <<person, want>> /\ End(w)
    BY <1>1, <1>2, <1>3, <1>4, ZenonT(60) DEF RosterLogin, RowNext, LoginSet
  <1>11. CASE UNCHANGED <<person, want>> /\ End(w)
    <2>1. Next /\ Sit(w, None) /\ UNCHANGED account
      BY <1>11, EndIs
    <2>2. IInv' /\ SameMembers
      BY <1>5, <2>1, NextKeeps DEF SameMembers
    <2>3. UNCHANGED <<person, want, clobbered>>
      BY <1>9, <1>11
    <2>4. QED
      BY <1>9, <2>1, <2>2, <2>3, RosterWaits, ZenonT(60)
  <1>12. CASE LoginSet(person, m, l, person') /\ LoginSet(want, m, l, want') /\ Stay(w, e)
    <2>1. UNCHANGED accountVars /\ Sit(w, e) /\ UNCHANGED account
      BY <1>12, StayIs
    <2>2. IInv'
      BY <1>5, <2>1, IdleKeeps
    <2>3. /\ person \in Roster /\ want \in Roster /\ m \in Members
          /\ person[m] \in MemberRecord /\ want[m] \in MemberRecord
      BY <1>5, <1>8 DEF RosterOK, Known, Roster
    <2>4. /\ person' \in Roster /\ person'[m] \in MemberRecord
          /\ person'[m].mobile = person[m].mobile /\ person'[m].login = l /\ person'[m].home = person[m].home
          /\ \A n \in Members \ {m} : person'[n] = person[n]
      BY <1>8, <1>12, <2>3, LoginIs
    <2>5. /\ want' \in Roster /\ want'[m] \in MemberRecord
          /\ want'[m].mobile = want[m].mobile /\ want'[m].login = l /\ want'[m].home = want[m].home
          /\ \A n \in Members \ {m} : want'[n] = want[n]
      BY <1>8, <1>12, <2>3, LoginIs
    <2>6. person[m] = want[m] => person'[m] = want'[m]
      BY <2>4, <2>5, SameRecord
    <2>7. person'[m] # Nil /\ want'[m] # Nil /\ person[m] # Nil /\ want[m] # Nil
      BY <2>3, <2>4, <2>5, SetupFacts
    <2>8. RosterOK'
      BY <1>5, <1>9, <2>1, <2>4, <2>5, <2>6, <2>7 DEF RosterOK, Roster
    <2>9. \A n \in Known : n \in Known' /\ person'[n].mobile = person[n].mobile /\ person'[n].home = person[n].home
      BY <2>4, <2>7 DEF Known
    <2>10. e \in Work /\ e.pc = "roster_rows" /\ e.rows = Tail(d.rows)
      <3>1. "roster_rows" \in WorkPCs
        BY DEF WorkPCs
      <3>2. QED
        BY <1>2, <1>6, <1>8, <3>1, NextRowIs
    <2>11. RosterLines \subseteq RosterLines'
      <3>1. Rows \subseteq Rows' /\ Known \subseteq Known'
        BY <1>9, <2>9 DEF Rows, areaVars
      <3>2. QED
        BY <3>1, LinesGrow
    <2>12. e.rows \in Seq(RosterLines')
      BY <1>8, <2>10, <2>11, NextRowWorks, SeqGrows
    <2>13. AreaWork(e)' /\ RosterWork(e)'
      BY <2>10, <2>12 DEF AreaWork, RosterWork
    <2>14. QED
      BY <1>9, <2>1, <2>2, <2>8, <2>9, <2>10, <2>13, RosterGrows, ZenonT(60)
  <1>13. QED
    BY <1>10, <1>11, <1>12

Changing(d, m, g, u) == u = [d EXCEPT !.pc = "read", !.who = m, !.form = g]
LEMMA RosterImportKeeps ==
  ASSUME SetupInv, NEW w \in Workers, RosterImportRow(w)
  PROVE  SetupInv'
  <1>1. PICK d : d = desk[w]
    BY ZenonT(60)
  <1>2. PICK r : r = Head(d.rows)
    BY ZenonT(60)
  <1>3. PICK e : RowNext(d, "roster_rows", e)
    BY ZenonT(60) DEF RowNext
  <1>4. PICK c : CreatedSet(d, d.created \cup {NewMember}, c)
    BY ZenonT(60) DEF CreatedSet
  <1>5. PICK k : RowNext(c, "roster_rows", k)
    BY ZenonT(60) DEF RowNext
  <1>6. PICK g : g = [r.form EXCEPT !.mobile = Nil]
    BY ZenonT(60)
  <1>7. PICK u : Changing(d, r.who, g, u)
    BY ZenonT(60) DEF Changing
  <1>8. IInv /\ RosterOK /\ DesksOK
    BY DEF SetupInv
  <1>9. d.pc = "roster_rows" /\ d \in Work
    BY <1>1, <1>8 DEF RosterImportRow, Doing, DesksOK
  <1>10. RosterWork(d)
    BY <1>1, <1>8, ZenonT(60) DEF DesksOK
  <1>11. d.rows \in Seq(RosterLines)
    BY <1>9, <1>10 DEF RosterWork
  <1>12. d.rows # <<>> => r \in RosterLines
    BY <1>2, <1>11
  <1>13. UNCHANGED areaVars /\ UNCHANGED clobbered /\ UNCHANGED bookVars
    BY DEF RosterImportRow
  <1>14. "roster_rows" \in WorkPCs /\ "read" \in WorkPCs
    BY DEF WorkPCs
  <1>15. \/ End(w) /\ UNCHANGED <<person, want>>
         \/ d.rows # <<>> /\ r.status = "new" /\ Add(r.form) /\ Sit(w, k) /\ UNCHANGED call
         \/ d.rows # <<>> /\ r.status = "changed" /\ Stay(w, u) /\ UNCHANGED <<person, want>>
         \/ d.rows # <<>> /\ Stay(w, e) /\ UNCHANGED <<person, want>>
    BY <1>1, <1>2, <1>3, <1>4, <1>5, <1>6, <1>7, ZenonT(60)
       DEF RosterImportRow, RowNext, CreatedSet, Changing
  <1>16. CASE End(w) /\ UNCHANGED <<person, want>>
    <2>1. Next /\ Sit(w, None) /\ UNCHANGED account
      BY <1>16, EndIs
    <2>2. IInv' /\ SameMembers
      BY <1>8, <2>1, NextKeeps DEF SameMembers
    <2>3. UNCHANGED <<person, want, clobbered>>
      BY <1>13, <1>16
    <2>4. QED
      BY <1>13, <2>1, <2>2, <2>3, RosterWaits, ZenonT(60)
  <1>17. CASE d.rows # <<>> /\ r.status = "new" /\ Add(r.form) /\ Sit(w, k) /\ UNCHANGED call
    <2>1. r.form \in MemberRecord
      BY <1>12, <1>17 DEF RosterLines
    <2>2. IInv' /\ RosterOK' /\ NewMember \in Members /\ \A m \in Known : person'[m] = person[m] /\ m \in Known'
      BY <1>8, <1>13, <1>17, <2>1, AddKeeps, ZenonT(60)
    <2>3. \A m \in Known : m \in Known' /\ person'[m].mobile = person[m].mobile /\ person'[m].home = person[m].home
      BY <2>2
    <2>4. d.created \cup {NewMember} \in SUBSET Members
      BY <1>9, <2>2 DEF Work
    <2>5. c \in Work /\ c.rows = d.rows
      BY <1>4, <1>9, <2>4, SetCreated
    <2>6. k \in Work /\ k.pc = "roster_rows" /\ k.rows = Tail(d.rows)
      BY <1>5, <1>14, <1>17, <2>5, NextRowIs
    <2>7. Rows \subseteq Rows' /\ Known \subseteq Known'
      BY <1>13, <2>2 DEF Rows, areaVars
    <2>8. RosterLines \subseteq RosterLines'
      BY <2>7, LinesGrow
    <2>9. k.rows \in Seq(RosterLines')
      BY <1>11, <1>17, <2>6, <2>8, NextRowWorks, SeqGrows
    <2>10. AreaWork(k)' /\ RosterWork(k)'
      BY <2>6, <2>9 DEF AreaWork, RosterWork
    <2>11. QED
      BY <1>13, <1>17, <2>2, <2>3, <2>6, <2>10, RosterGrows, ZenonT(60)
  <1>18. ASSUME Stay(w, e) \/ Stay(w, u), UNCHANGED <<person, want>>
         PROVE  /\ IInv' /\ SameMembers /\ UNCHANGED <<person, want, clobbered>>
                /\ RosterLines' = RosterLines /\ Known' = Known
    <2>1. UNCHANGED accountVars /\ UNCHANGED account
      BY <1>18, StayIs
    <2>2. IInv' /\ SameMembers
      BY <1>8, <2>1, IdleKeeps DEF SameMembers
    <2>3. UNCHANGED <<area, person>>
      BY <1>13, <1>18 DEF areaVars
    <2>4. QED
      BY <1>13, <1>18, <2>2, <2>3, SameLines DEF Known
  <1>19. CASE d.rows # <<>> /\ r.status = "changed" /\ Stay(w, u) /\ UNCHANGED <<person, want>>
    <2>1. r.form \in MemberRecord /\ r.who \in Known
      BY <1>12, <1>19 DEF RosterLines
    <2>2. g \in Form /\ g.login \in Logins
      <3>1. r.form \in Form /\ r.form.login \in Logins /\ Nil \in Mobiles \cup {Nil}
        BY <2>1 DEF MemberRecord, Form
      <3>2. g \in Form
        BY <1>6, <3>1, ZenonT(60) DEF Form
      <3>3. g.login = r.form.login
        BY <1>6, <3>1 DEF Form
      <3>4. QED
        BY <3>1, <3>2, <3>3
    <2>3. u \in Work /\ u.pc = "read" /\ u.who = r.who /\ u.form = g /\ u.rows = d.rows
      <3>1. PICK x : PcSet(d, "read", x)
        BY ZenonT(60) DEF PcSet
      <3>2. PICK y : WhoSet(x, r.who, y)
        BY ZenonT(60) DEF WhoSet
      <3>3. FormSet(y, g, u)
        BY <1>7, <3>1, <3>2, ZenonT(60) DEF PcSet, WhoSet, FormSet, Changing
      <3>4. r.who \in Members \cup {Nil}
        BY <2>1 DEF Known
      <3>5. x \in Work /\ x.pc = "read" /\ x.rows = d.rows
        BY <1>9, <1>14, <3>1, SetPc
      <3>6. y \in Work /\ y.pc = "read" /\ y.rows = d.rows /\ y.who = r.who
        BY <3>2, <3>4, <3>5, SetWho
      <3>7. QED
        BY <2>2, <3>3, <3>6, SetForm
    <2>4. /\ IInv' /\ SameMembers /\ UNCHANGED <<person, want, clobbered>>
          /\ RosterLines' = RosterLines /\ Known' = Known
      BY <1>18, <1>19
    <2>5. AreaWork(u)' /\ RosterWork(u)'
      BY <1>11, <2>1, <2>2, <2>3, <2>4 DEF AreaWork, RosterWork
    <2>6. Sit(w, u)
      BY <1>19, StayIs
    <2>7. QED
      BY <1>13, <2>3, <2>4, <2>5, <2>6, RosterWaits, ZenonT(60)
  <1>20. CASE d.rows # <<>> /\ Stay(w, e) /\ UNCHANGED <<person, want>>
    <2>1. e \in Work /\ e.pc = "roster_rows" /\ e.rows = Tail(d.rows)
      BY <1>3, <1>9, <1>14, <1>20, NextRowIs
    <2>2. /\ IInv' /\ SameMembers /\ UNCHANGED <<person, want, clobbered>>
          /\ RosterLines' = RosterLines
      BY <1>18, <1>20
    <2>3. e.rows \in Seq(RosterLines')
      BY <1>11, <1>20, <2>1, <2>2, NextRowWorks
    <2>4. AreaWork(e)' /\ RosterWork(e)'
      BY <2>1, <2>3 DEF AreaWork, RosterWork
    <2>5. Sit(w, e)
      BY <1>20, StayIs
    <2>6. QED
      BY <1>13, <2>1, <2>2, <2>4, <2>5, RosterWaits, ZenonT(60)
  <1>21. QED
    BY <1>15, <1>16, <1>17, <1>19, <1>20

(* The row is written back: from a reading that is still true, or the      *)
(* member is among those whose row was clobbered.                          *)
LEMMA MemberWriteKeeps ==
  ASSUME SetupInv, NEW w \in Workers, MemberWrite(w)
  PROVE  SetupInv'
  <1>1. PICK d : d = desk[w]
    BY ZenonT(60)
  <1>2. PICK m : m = d.who
    BY ZenonT(60)
  <1>3. PICK x : x = Or(d.form.mobile, d.read.mobile)
    BY ZenonT(60)
  <1>4. PICK y : y = Or(d.form.home, d.read.home)
    BY ZenonT(60)
  <1>5. PICK v : Moved(person[m], x, y, v)
    BY ZenonT(60) DEF Moved
  <1>6. PICK u : PcSet(d, "login", u)
    BY ZenonT(60) DEF PcSet
  <1>7. IInv /\ AreasOK /\ RosterOK /\ BooksOK /\ DesksOK
    BY DEF SetupInv
  <1>8. d.pc = "write" /\ d \in Work
    BY <1>1, <1>7 DEF MemberWrite, Doing, DesksOK
  <1>9. RosterWork(d)
    BY <1>1, <1>7, ZenonT(60) DEF DesksOK
  <1>10. /\ m \in Known /\ d.rows \in Seq(RosterLines) /\ (d.rows # <<>> => d.form.login \in Logins)
         /\ d.read \in MemberRecord
         /\ ~d.stale => d.read.mobile = person[m].mobile /\ d.read.home = person[m].home
    BY <1>2, <1>8, <1>9 DEF RosterWork, UpToDate
  <1>11. UNCHANGED areaVars /\ UNCHANGED bookVars
    BY DEF MemberWrite
  <1>12. CASE End(w) /\ UNCHANGED <<person, want, clobbered>>
    <2>1. Next /\ Sit(w, None) /\ UNCHANGED account
      BY <1>12, EndIs
    <2>2. IInv' /\ SameMembers
      BY <1>7, <2>1, NextKeeps DEF SameMembers
    <2>3. QED
      BY <1>11, <1>12, <2>1, <2>2, RosterWaits, ZenonT(60)
  <1>13. CASE ~(End(w) /\ UNCHANGED <<person, want, clobbered>>)
    <2>1. /\ person' = [person EXCEPT ![m] = v]
          /\ Asked(want, m, d.form.mobile, d.form.home, want')
          /\ clobbered' = IF d.stale THEN clobbered \cup {m} ELSE clobbered
          /\ IF d.rows # <<>> THEN UNCHANGED accountVars ELSE Details(w)
      BY <1>1, <1>2, <1>3, <1>4, <1>5, <1>13, ZenonT(60) DEF MemberWrite, Written, Moved, Asked
    <2>2. desk' = [z \in Workers |->
                     CASE z = w /\ d.rows # <<>> -> u
                       [] z = w /\ ~(d.rows # <<>>) -> None
                       [] z # w -> [desk[z] EXCEPT !.stale = @ \/ (desk[z].pc = "write" /\ desk[z].who = m)]]
      BY <1>1, <1>2, <1>6, <1>13, ZenonT(60) DEF MemberWrite, PcSet
    <2>3. IInv' /\ UNCHANGED account
      <3>1. CASE d.rows # <<>>
        <4>1. UNCHANGED accountVars
          BY <2>1, <3>1
        <4>2. QED
          BY <1>7, <4>1, IdleKeeps DEF accountVars
      <3>2. CASE d.rows = <<>>
        <4>1. Details(w)
          BY <2>1, <3>2
        <4>2. Next
          BY <4>1, ZenonT(60) DEF Next
        <4>3. QED
          BY <1>7, <4>1, <4>2, NextKeeps DEF Details
      <3>3. QED
        BY <3>1, <3>2
    <2>4. /\ person \in Roster /\ want \in Roster /\ m \in Members
          /\ person[m] \in MemberRecord /\ want[m] \in MemberRecord
      BY <1>7, <1>10 DEF RosterOK, Known, Roster
    <2>5. d.form.mobile \in Mobiles \cup {Nil} /\ d.form.home \in AreaIds \cup {0, Nil}
      BY <1>8 DEF Work, Form
    <2>6. x \in Mobiles /\ y \in {0} \cup AreaIds
      BY <1>3, <1>4, <1>10, <2>5 DEF Or, MemberRecord
    <2>7. v \in MemberRecord /\ v.mobile = x /\ v.login = person[m].login /\ v.home = y
      BY <1>5, <2>4, <2>6, MovedIs
    <2>8. person' \in Roster /\ person'[m] = v /\ \A n \in Members \ {m} : person'[n] = person[n]
      BY <2>1, <2>4, <2>7 DEF Roster
    <2>9. /\ want' \in Roster /\ want'[m] \in MemberRecord
          /\ want'[m].mobile = Or(d.form.mobile, want[m].mobile) /\ want'[m].login = want[m].login
          /\ want'[m].home = Or(d.form.home, want[m].home)
          /\ \A n \in Members \ {m} : want'[n] = want[n]
      BY <2>1, <2>4, <2>5, AskedIs
    <2>10. clobbered \subseteq clobbered' /\ (d.stale => m \in clobbered')
      BY <2>1
    <2>11. person'[m] = want'[m] \/ m \in clobbered'
      <3>1. CASE d.stale \/ m \in clobbered
        BY <2>10, <3>1
      <3>2. CASE ~d.stale /\ m \notin clobbered
        <4>1. person[m] = want[m]
          BY <1>7, <2>4, <3>2 DEF RosterOK
        <4>2. d.read.mobile = want[m].mobile /\ d.read.home = want[m].home
          BY <1>10, <3>2, <4>1
        <4>3. v.mobile = want'[m].mobile /\ v.home = want'[m].home /\ v.login = want'[m].login
          BY <1>3, <1>4, <2>7, <2>9, <4>1, <4>2
        <4>4. v = want'[m]
          BY <2>7, <2>9, <4>3, SameRecord
        <4>5. QED
          BY <2>8, <4>4
      <3>3. QED
        BY <3>1, <3>2, ZenonT(60)
    <2>12. person'[m] # Nil /\ want'[m] # Nil /\ person[m] # Nil /\ want[m] # Nil
      BY <2>4, <2>7, <2>8, <2>9, SetupFacts
    <2>13. RosterOK'
      BY <1>7, <2>3, <2>8, <2>9, <2>10, <2>11, <2>12 DEF RosterOK, Roster
    <2>14. Known' = Known
      BY <2>8, <2>12 DEF Known
    <2>15. Rows' = Rows /\ UNCHANGED <<area, tasks, effs>>
      BY <1>11 DEF areaVars, Rows
    <2>16. AreaLines' = AreaLines /\ RosterLines' = RosterLines
      BY <2>14, <2>15 DEF AreaLines, RosterLines
    <2>17. AreasOK' /\ BooksOK'
      BY <1>7, <1>11, <2>14, <2>15, AreasStay, BooksStay
    <2>18. ASSUME NEW z \in Workers
           PROVE  desk'[z] \in Work /\ AreaWork(desk[z])' /\ RosterWork(desk[z])'
      <3>1. PICK n : n = desk'[z]
        BY ZenonT(60)
      <3>2. CASE z = w /\ d.rows # <<>>
        <4>1. n = u
          BY <2>2, <3>1, <3>2, ZenonT(60)
        <4>2. "login" \in WorkPCs
          BY DEF WorkPCs
        <4>3. u \in Work /\ u.pc = "login" /\ u.rows = d.rows /\ u.who = m /\ u.form = d.form
          BY <1>2, <1>6, <1>8, <4>2, SetPc
        <4>4. AreaWork(n)' /\ RosterWork(n)'
          BY <1>10, <2>14, <2>16, <3>2, <4>1, <4>3 DEF AreaWork, RosterWork
        <4>5. QED
          BY <3>1, <4>1, <4>3, <4>4, ZenonT(60) DEF AreaWork, RosterWork, UpToDate
      <3>3. CASE z = w /\ d.rows = <<>>
        <4>1. n = None
          BY <2>2, <3>1, <3>3, ZenonT(60)
        <4>2. n \in Work /\ n.pc = "none"
          BY <4>1, NoneIs
        <4>3. AreaWork(n)' /\ RosterWork(n)'
          BY <4>2 DEF AreaWork, RosterWork
        <4>4. QED
          BY <3>1, <4>2, <4>3, ZenonT(60) DEF AreaWork, RosterWork, UpToDate
      <3>4. CASE z # w
        <4>1. PICK b : b = desk[z]
          BY ZenonT(60)
        <4>2. PICK s \in BOOLEAN : s <=> (b.stale \/ (b.pc = "write" /\ b.who = m))
          BY ZenonT(60)
        <4>3. b \in Work
          BY <1>7, <4>1 DEF DesksOK
        <4>4. AreaWork(b) /\ RosterWork(b)
          BY <1>7, <4>1, ZenonT(60) DEF DesksOK
        <4>5. s = (b.stale \/ (b.pc = "write" /\ b.who = m))
          BY <4>2, ZenonT(60)
        <4>6. StaleSet(b, s, n)
          BY <2>2, <3>1, <3>4, <4>1, <4>5, ZenonT(60) DEF StaleSet
        <4>7. /\ n \in Work /\ n.stale = s /\ n.pc = b.pc /\ n.area = b.area /\ n.name = b.name
              /\ n.shape = b.shape /\ n.late = b.late /\ n.rows = b.rows /\ n.who = b.who
              /\ n.form = b.form /\ n.read = b.read
          BY <4>3, <4>6, SetStale
        <4>8. AreaWork(n)'
          <5>1. AreaWork(n)
            BY <4>4, <4>7, ZenonT(60) DEF AreaWork
          <5>2. QED
            BY <2>15, <2>16, <5>1, ZenonT(60) DEF AreaWork, InUse
        <4>9. ~n.stale /\ n.pc = "write" => n.who # m /\ ~b.stale
          BY <4>2, <4>7, ZenonT(60)
        <4>10. ~n.stale /\ n.pc = "write" => UpToDate(n)'
          <5>1. SUFFICES ASSUME ~n.stale, n.pc = "write" PROVE UpToDate(n)'
            OBVIOUS
          <5>2. n.who \in Known /\ n.who # m /\ UpToDate(b)
            BY <4>4, <4>7, <4>9, <5>1 DEF RosterWork
          <5>3. person'[n.who] = person[n.who]
            BY <2>8, <5>2 DEF Known
          <5>4. QED
            BY <4>7, <5>2, <5>3 DEF UpToDate
        <4>11. /\ n.pc \in {"roster_rows", "read", "write", "login"} => n.rows \in Seq(RosterLines)
               /\ n.pc \in {"read", "write", "login"} => n.who \in Known
               /\ n.pc \in {"read", "write", "login"} /\ n.rows # <<>> => n.form.login \in Logins
               /\ n.pc = "write" => n.read \in MemberRecord
               /\ n.pc = "login" => n.rows # <<>>
          BY <4>4, <4>7, ZenonT(60) DEF RosterWork
        <4>12. RosterWork(n)'
          BY <2>14, <2>16, <4>10, <4>11, ZenonT(60) DEF RosterWork
        <4>13. QED
          BY <3>1, <4>7, <4>8, <4>12, ZenonT(60) DEF AreaWork, RosterWork, UpToDate
      <3>5. QED
        BY <3>2, <3>3, <3>4
    <2>19. DOMAIN desk' = Workers
      BY <2>2, ZenonT(60)
    <2>20. desk' \in [Workers -> Work]
      <3>1. desk' = [z \in Workers |-> desk'[z]]
        BY <2>2, <2>19, ZenonT(60)
      <3>2. QED
        BY <2>18, <3>1
    <2>21. DesksOK'
      BY <2>18, <2>20 DEF DesksOK
    <2>22. QED
      BY <2>3, <2>13, <2>17, <2>21 DEF SetupInv
  <1>14. QED
    BY <1>12, <1>13

-----------------------------------------------------------------------------
(***************************************************************************)
(* The theorems                                                            *)
(***************************************************************************)
LEMMA SetupBegins == SetupInit => SetupInv
  <1> SUFFICES ASSUME SetupInit PROVE SetupInv
    OBVIOUS
  <1>1. Init /\ IInv
    BY Initially DEF SetupInit
  <1>2. AreasOK
    <2>1. PICK n \in Names : n = CHOOSE x \in Names : TRUE
      BY SetupAssumption, ZenonT(60)
    <2>2. PICK s \in Shapes : s = CHOOSE x \in Shapes : TRUE
      BY SetupAssumption, ZenonT(60)
    <2>3. PICK r : r = [name |-> n, shape |-> s, active |-> TRUE]
      BY ZenonT(60)
    <2>4. r \in AreaRecord
      BY <2>3 DEF AreaRecord
    <2>5. area = [a \in AreaIds |-> IF a = 1 THEN r ELSE Nil]
      BY <2>1, <2>2, <2>3, ZenonT(60) DEF SetupInit
    <2>6. tasks = {} /\ effs = {} /\ overtaken = {} /\ asUsed = [a \in AreaIds |-> Nil]
      BY DEF SetupInit
    <2>7. QED
      BY <2>4, <2>5, <2>6 DEF AreasOK
  <1>3. RosterOK
    <2>1. person = Roll /\ want = Roll
      BY DEF SetupInit
    <2>2. Roll \in [Members -> MemberRecord \cup {Nil}] /\ \A m \in Members : Roll[m] = Nil <=> Enrolled[m] = Nil
      BY SetupAssumption, ZenonT(60)
    <2>3. ASSUME NEW m \in Members PROVE account[m] = Nil <=> Enrolled[m] = Nil
      <3>1. account[m] = RowOf(Enrolled[m])
        BY <1>1 DEF Init, Subjects
      <3>2. Nil \notin Row
        BY AccountsAssumption
      <3>3. CASE Enrolled[m] = Nil
        BY <3>1, <3>3 DEF RowOf
      <3>4. CASE Enrolled[m] # Nil
        <4>1. Enrolled[m] \in {"member", Nil}
          BY AccountsAssumption
        <4>2. Enrolled[m] \in {"admin", "operator", "member"}
          BY <3>4, <4>1
        <4>3. account[m] \in Row
          BY <3>1, <4>2, RowOfRole
        <4>4. QED
          BY <3>2, <3>4, <4>3
      <3>5. QED
        BY <3>3, <3>4
    <2>4. QED
      BY <2>1, <2>2, <2>3 DEF RosterOK
  <1>4. BooksOK
    <2>1. book = [t \in Tokens |-> Nil] /\ made = 0 /\ applied = [t \in Tokens |-> 0]
      BY DEF SetupInit
    <2>2. QED
      BY <2>1 DEF BooksOK, BookOK, PreviewOK, Kept
  <1>5. DesksOK
    <2>1. desk = [w \in Workers |-> None]
      BY DEF SetupInit
    <2>2. PICK n : n = None
      BY ZenonT(60)
    <2>3. n \in Work /\ n.pc = "none"
      BY <2>2, NoneIs
    <2>4. AreaWork(n) /\ RosterWork(n)
      BY <2>3 DEF AreaWork, RosterWork
    <2>5. desk \in [Workers -> Work] /\ \A w \in Workers : desk[w] = n
      BY <2>1, <2>2, <2>3
    <2>6. \A w \in Workers : AreaWork(desk[w]) /\ RosterWork(desk[w])
      BY <2>4, <2>5
    <2>7. QED
      BY <2>5, <2>6 DEF DesksOK
  <1>6. QED
    BY <1>1, <1>2, <1>3, <1>4, <1>5 DEF SetupInv

LEMMA ImportsKeep == ASSUME SetupInv, OfImports PROVE SetupInv'
  <1>1. ASSUME NEW f \in RosterFiles, Preview("roster", f) PROVE SetupInv'
    BY <1>1, ParsedIs, PreviewKeeps, ZenonT(60)
  <1>2. ASSUME NEW f \in AreaFiles, Preview("area", f) PROVE SetupInv'
    BY <1>2, ParsedIs, PreviewKeeps, ZenonT(60)
  <1>3. ASSUME NEW f \in PlanFiles, Preview("plan", f) PROVE SetupInv'
    BY <1>3, ParsedIs, PreviewKeeps, ZenonT(60)
  <1>4. ASSUME NEW t \in Tokens, NEW w \in Workers, Commit(w, t) PROVE SetupInv'
    <2>1. CASE Take(w, t, "roster", "roster_rows")
      BY <2>1, TakeKeeps, ZenonT(60)
    <2>2. CASE Take(w, t, "area", "area_rows")
      BY <2>2, TakeKeeps, ZenonT(60)
    <2>3. CASE Take(w, t, "plan", "plan_save")
      BY <2>3, TakeKeeps, ZenonT(60)
    <2>4. QED
      BY <1>4, <2>1, <2>2, <2>3 DEF Commit
  <1>5. QED
    BY <1>1, <1>2, <1>3, <1>4, TakeExpiredKeeps, AreaImportKeeps, PlanSaveKeeps,
       RosterImportKeeps, RosterLoginKeeps, ZenonT(60) DEF OfImports

LEMMA SetupStep == SetupInv /\ [SetupNext]_<<accountVars, setupVars>> => SetupInv'
  <1> SUFFICES ASSUME SetupInv, [SetupNext]_<<accountVars, setupVars>> PROVE SetupInv'
    OBVIOUS
  <1>1. CASE OfAreas
    BY <1>1, AreaCreateKeeps, AreaUpdateKeeps, AreaCopyKeeps, AreaDeleteKeeps, AreaWriteKeeps,
       DeleteRefsKeeps, SwitchOffKeeps, DeployKeeps, ZenonT(60) DEF OfAreas
  <1>2. CASE OfRoster
    BY <1>2, MemberCreateKeeps, MemberPutKeeps, MemberReadKeeps, MemberWriteKeeps, ZenonT(60)
       DEF OfRoster
  <1>3. CASE UNCHANGED <<accountVars, setupVars>>
    <2>1. UNCHANGED accountVars /\ UNCHANGED areaVars /\ UNCHANGED rosterVars /\ UNCHANGED bookVars /\ UNCHANGED desk
      BY <1>3 DEF setupVars
    <2>2. IInv' /\ SameMembers
      BY <2>1, IdleKeeps DEF SetupInv, SameMembers, accountVars
    <2>3. UNCHANGED <<person, want, clobbered>>
      BY <2>1 DEF rosterVars
    <2>4. QED
      BY <2>1, <2>2, <2>3, RosterWaits, ZenonT(60)
  <1>4. SetupNext \/ UNCHANGED <<accountVars, setupVars>>
    OBVIOUS
  <1>5. QED
    BY <1>1, <1>2, <1>3, <1>4, OfAccountsKeeps, ImportsKeep, BreakKeeps, RestartKeeps, ZenonT(60)
       DEF SetupNext

(* The invariant holds in every behaviour.                                 *)
THEOREM SetupInvariant == SetupSpec => []SetupInv
  BY SetupBegins, SetupStep, PTL DEF SetupSpec

(* An area in use keeps the shape it came into use with, unless it was     *)
(* overtaken.                                                              *)
THEOREM FrozenTheorem == SetupSpec => []UsedAreaIsFrozen
  <1>1. SetupInv => UsedAreaIsFrozen
    BY DEF SetupInv, AreasOK, UsedAreaIsFrozen
  <1>2. QED
    BY <1>1, SetupInvariant, PTL

(* A member's row is what was last asked for, unless it was clobbered.     *)
THEOREM EditsTheorem == SetupSpec => []EditsStand
  <1>1. SetupInv => EditsStand
    BY DEF SetupInv, RosterOK, EditsStand
  <1>2. QED
    BY <1>1, SetupInvariant, PTL

(* No preview is applied twice.                                            *)
THEOREM OnceTheorem == SetupSpec => []ImportsApplyOnce
  <1>1. SetupInv => ImportsApplyOnce
    BY DEF SetupInv, BooksOK, BookOK, ImportsApplyOnce
  <1>2. QED
    BY <1>1, SetupInvariant, PTL

(* What Accounts promises holds under the setup pages' requests as well:   *)
(* an administrator remains, and sessions end when they are to.            *)
THEOREM AccountsHold == SetupSpec => [](AnAdminRemains /\ ResetEndsSessions /\ SessionsEndWithIncident)
  <1>1. SetupInv => AnAdminRemains /\ ResetEndsSessions /\ SessionsEndWithIncident
    BY DEF SetupInv, IInv
  <1>2. QED
    BY <1>1, SetupInvariant, PTL
================================================================================
