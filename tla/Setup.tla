--------------------------------- MODULE Setup ---------------------------------
(***************************************************************************)
(* The setup pages: areas (internal/area/store.go), the roster             *)
(* (internal/roster/store.go) and the three spreadsheet imports            *)
(* (roster/import.go, area/import.go, incident/plan_import.go), together   *)
(* with the accounts the roster's rows are (module Accounts).              *)
(*                                                                         *)
(* A step is one SQL statement, or one turn of the lock around a table of  *)
(* previews.  Geometry is a shape; of a member's fields there are the      *)
(* mobile number, by which an import knows him, the login id and the home  *)
(* area.  The running incident appears as the areas it refers to.          *)
(***************************************************************************)
EXTENDS Accounts

CONSTANTS
  MaxArea,      \* bound: rows of `area', numbered as they are inserted
  Names, Shapes, Teams, Mobiles, Logins,
  Roll,         \* the roster at first: [Members -> [mobile, login, home] or Nil]
  AddForms,     \* members added: [mobile, login, home]
  PutForms,     \* edits of a member: the same, Nil where a field is to stay
  RosterFiles,  \* uploads: sequences of [mobile, login, home: a name or Nil]
  AreaFiles,    \* uploads: sequences of [name, shape]
  PlanFiles,    \* uploads: sequences of [team, home: a name or Nil]
  PreviewTTL,   \* 10 minutes
  MaxPreviews,  \* bound: previews made
  MaxDeploys    \* bound: changes of what the incident refers to

AreaIds == 1 .. MaxArea
Tokens  == 1 .. MaxPreviews
AreaRecord   == [name : Names, shape : Shapes, active : BOOLEAN]
MemberRecord == [mobile : Mobiles, login : Logins, home : {0} \cup AreaIds]

ASSUME SetupAssumption ==
  /\ {PreviewTTL, MaxDeploys} \subseteq Nat /\ {MaxArea, MaxPreviews} \subseteq Nat \ {0}
  /\ Names # {} /\ Shapes # {}
  /\ Roll \in [Members -> MemberRecord \cup {Nil}]
  /\ \A m \in Members : Roll[m] = Nil <=> Enrolled[m] = Nil
  /\ AddForms \subseteq MemberRecord
  /\ PutForms \subseteq
       [mobile : Mobiles \cup {Nil}, login : {Nil}, home : AreaIds \cup {0, Nil}]
  /\ RosterFiles \subseteq Seq([mobile : Mobiles, login : Logins, home : Names \cup {Nil}])
  /\ AreaFiles \subseteq Seq([name : Names, shape : Shapes])
  /\ PlanFiles \subseteq Seq([team : Teams, home : Names \cup {Nil}])
  /\ Nil \notin Nat \cup Names \cup Shapes \cup Mobiles \cup Logins \cup AreaRecord \cup MemberRecord

VARIABLES
  area,      \* the rows of `area': [name, shape, active], or Nil
  tasks,     \* areas in the active incident's team_task rows
  effs,      \* areas in its assignment.eff_area_id
  person,    \* the rows of `member': [mobile, login, home], or Nil; home 0 is none
  plan,      \* team_plan.area_id
  book,      \* previews by token: [kind, rows, at], or Nil
  made,      \* previews made
  desk,      \* what a worker at "details" is doing
  deploys,   \* deploys used up
  asUsed,    \* history: the shape an area had when it came into use, or Nil
  overtaken, \* history: areas written though they had come into use since the check
  want,      \* history: the fields as last asked for
  clobbered, \* history: members written from a reading that was no longer true
  unseen,    \* history: members whose first password has not been shown
  applied    \* history: commits that took a preview

areaVars   == <<area, tasks, effs, deploys, asUsed, overtaken>>
rosterVars == <<person, want, clobbered, unseen>>
bookVars   == <<book, made, applied>>
setupVars  == <<areaVars, rosterVars, bookVars, plan, desk>>

Nobody  == [mobile |-> Nil, login |-> Nil, home |-> Nil]
None == [pc |-> "none", area |-> Nil, name |-> Nil, shape |-> Nil, late |-> FALSE,
         rows |-> <<>>, who |-> Nil, form |-> Nobody, read |-> Nobody,
         stale |-> FALSE, created |-> {}]

Sit(w, d) == desk' = [desk EXCEPT ![w] = d]
Doing(w, pc) == At(w, "details") /\ desk[w].pc = pc
(* A request begins, goes on, ends.                                        *)
Begin(w, kind, d) ==
  /\ Comes(w, kind)
  /\ Move(w, [Free EXCEPT !.pc = "details"])
  /\ Sit(w, d)
  /\ UNCHANGED <<account, session, status, clock, scene, era, owned, ended, kept,
                 uncapped, outran>>
Stay(w, d) == Sit(w, d) /\ UNCHANGED accountVars
End(w)     == Details(w) /\ Sit(w, None)
(* The next row of the file an import is working through.                  *)
NextRow(d, pc) ==
  [None EXCEPT !.pc = pc, !.rows = Tail(d.rows), !.created = d.created]

SetupInit ==
  /\ Init
  /\ area = [a \in AreaIds |-> IF a = 1 THEN [name |-> CHOOSE n \in Names : TRUE,
                                              shape |-> CHOOSE s \in Shapes : TRUE,
                                              active |-> TRUE]
                               ELSE Nil]
  /\ tasks = {} /\ effs = {}
  /\ person = Roll
  /\ plan = [t \in Teams |-> 0]
  /\ book = [t \in Tokens |-> Nil] /\ made = 0
  /\ desk = [w \in Workers |-> None]
  /\ deploys = 0
  /\ asUsed = [a \in AreaIds |-> Nil] /\ overtaken = {}
  /\ want = person /\ clobbered = {} /\ unseen = {}
  /\ applied = [t \in Tokens |-> 0]

(***************************************************************************)
(* Areas.                                                                  *)
(***************************************************************************)
Live(a)  == area[a] # Nil /\ area[a].active
Rows     == {a \in AreaIds : area[a] # Nil}
InUse_Tasks(a) == a \in tasks   \* mutant: no assignment of its own is asked for
InUse(a) == a \in tasks \/ a \in effs
(* The unique index on the names of active areas.                          *)
NameFree(n, a) == \A b \in AreaIds \ {a} : Live(b) => area[b].name # n
(* upsert: INSERT of a new row, UPDATE of row a.  A taken name changes     *)
(* nothing.                                                                *)
CanInsert(n) == NameFree(n, 0)
Insert(n, s) ==
  \E a \in AreaIds \ Rows :
    /\ \A b \in AreaIds \ Rows : a =< b
    /\ area' = [area EXCEPT ![a] = [name |-> n, shape |-> s, active |-> TRUE]]
Replace(a, n, s) ==
  area' = IF area[a].active => NameFree(n, a)
          THEN [area EXCEPT ![a].name = n, ![a].shape = s] ELSE area

AreaCreate(n, s) ==
  /\ "areas" \in scene
  /\ CanInsert(n)
  /\ Insert(n, s)
  /\ UNCHANGED <<accountVars, tasks, effs, deploys, asUsed, overtaken, rosterVars,
                 bookVars, plan, desk>>

(* UpdateCircle, UpdatePolygon, UpdateGrid: the check, then the write.     *)
AreaUpdate(w, a, n, s) ==
  /\ a \in Rows /\ ~InUse(a)
  /\ Begin(w, "areas", [None EXCEPT !.pc = "area_write", !.area = a, !.name = n, !.shape = s])
  /\ UNCHANGED <<areaVars, rosterVars, bookVars, plan>>
AreaWrite(w) ==
  /\ Doing(w, "area_write")
  /\ LET d == desk[w] IN
     /\ Replace(d.area, d.name, d.shape)
     /\ overtaken' = IF d.late THEN overtaken \cup {d.area} ELSE overtaken
     /\ IF d.rows = <<>> THEN End(w) ELSE Stay(w, NextRow(d, "area_rows"))
  /\ UNCHANGED <<tasks, effs, deploys, asUsed, rosterVars, bookVars, plan>>

(* Deactivate: two checks, then the write.                                 *)
AreaDelete(w, a) ==
  /\ a \in Rows /\ ~InUse(a)
  /\ Begin(w, "areas", [None EXCEPT !.pc = "del_refs", !.area = a])
  /\ UNCHANGED <<areaVars, rosterVars, bookVars, plan>>
Referenced(a) == \E m \in Members : person[m] # Nil /\ person[m].home = a
DeleteRefs(w) ==
  /\ Doing(w, "del_refs")
  /\ IF Referenced(desk[w].area) THEN End(w) ELSE Stay(w, [desk[w] EXCEPT !.pc = "switch_off"])
  /\ UNCHANGED <<areaVars, rosterVars, bookVars, plan>>

(* CopyCircle, CopyPolygon: the new row, then the source switched off,     *)
(* whoever refers to it.                                                   *)
AreaCopy(w, a, n, s) ==
  /\ a \in Rows /\ CanInsert(n)
  /\ Insert(n, s)
  /\ Begin(w, "areas", [None EXCEPT !.pc = "switch_off", !.area = a])
  /\ UNCHANGED <<tasks, effs, deploys, asUsed, overtaken, rosterVars, bookVars, plan>>
SwitchOff(w) ==
  /\ Doing(w, "switch_off")
  /\ area' = [area EXCEPT ![desk[w].area].active = FALSE]
  /\ End(w)
  /\ UNCHANGED <<tasks, effs, deploys, asUsed, overtaken, rosterVars, bookVars, plan>>

(* The incident is called up, changed or closed: it refers to the areas T  *)
(* and E now.                                                              *)
Deploy(T, E) ==
  /\ "incident" \in scene
  /\ deploys < MaxDeploys
  /\ <<T, E>> # <<tasks, effs>>
  /\ deploys' = deploys + 1
  /\ tasks' = T /\ effs' = E
  /\ asUsed' = [a \in AreaIds |->
                  IF a \notin T \cup E THEN Nil
                  ELSE IF InUse(a) THEN asUsed[a] ELSE area[a].shape]
  /\ overtaken' = overtaken \cap (T \cup E)
  /\ desk' = [w \in Workers |->
                IF desk[w].pc = "area_write" /\ desk[w].area \in T \cup E
                THEN [desk[w] EXCEPT !.late = TRUE] ELSE desk[w]]
  /\ UNCHANGED <<accountVars, area, rosterVars, bookVars, plan>>

(***************************************************************************)
(* Previews: the rows read from an upload, with what they are to do, kept  *)
(* under a token for one commit.                                           *)
(***************************************************************************)
Named(n) == {a \in AreaIds : Live(a) /\ area[a].name = n}
AreaOf(n) == IF n = Nil THEN 0 ELSE CHOOSE a \in Named(n) : TRUE
Unknown(n) == n # Nil /\ Named(n) = {}
Holder(mobile) == {m \in Members : person[m] # Nil /\ person[m].mobile = mobile}

(* roster parseRow                                                         *)
RosterRow(r) ==
  LET f == [mobile |-> r.mobile, login |-> r.login, home |-> AreaOf(r.home)]
      m == CHOOSE x \in Holder(r.mobile) : TRUE
  IN CASE Unknown(r.home)       -> [status |-> "error", who |-> Nil, form |-> Nobody]
       [] ~Unknown(r.home) /\ Holder(r.mobile) = {} -> [status |-> "new", who |-> Nil, form |-> f]
       [] OTHER -> [status |-> IF person[m] = f THEN "unchanged" ELSE "changed",
                    who |-> m, form |-> f]
(* area parseRow, and the names that occur twice                           *)
AreaRow(file, i) ==
  LET r == file[i]
      known == Named(r.name) # {}
  IN [status |-> CASE \/ \E j \in 1 .. i - 1 : file[j].name = r.name
                      \/ known /\ InUse(AreaOf(r.name)) -> "error"
                   [] OTHER -> IF known THEN "update" ELSE "new",
      area |-> IF known THEN AreaOf(r.name) ELSE Nil, name |-> r.name, shape |-> r.shape]
(* plan parseTeam: a team that occurs twice is wrong both times            *)
PlanRow(file, i) ==
  LET r == file[i] IN
  IF Unknown(r.home) \/ \E j \in DOMAIN file : j # i /\ file[j].team = r.team
  THEN [status |-> "error", team |-> r.team, area |-> 0]
  ELSE [status |-> "ok", team |-> r.team, area |-> AreaOf(r.home)]
Parsed(kind, file) ==
  [i \in DOMAIN file |-> CASE kind = "roster" -> RosterRow(file[i])
                           [] kind = "area"   -> AreaRow(file, i)
                           [] kind = "plan"   -> PlanRow(file, i)]

Expired(p) == clock - p.at > PreviewTTL
Import(kind) == kind \o "_import"
(* Preview and Put: older previews of the kind are swept away.  Abstracted:*)
(* the rows are classified in one step; parseRow asks for the area and the *)
(* member by a SELECT each, row after row.  A classification may be out of *)
(* date at the commit either way, and the commit asks again what it may    *)
(* write: here step by step.                                               *)
Preview(kind, file) ==
  /\ Import(kind) \in scene
  /\ made < MaxPreviews
  /\ made' = made + 1
  /\ book' = [t \in Tokens |->
                IF t = made + 1 THEN [kind |-> kind, rows |-> Parsed(kind, file), at |-> clock]
                ELSE IF book[t] # Nil /\ book[t].kind = kind /\ Expired(book[t]) THEN Nil
                ELSE book[t]]
  /\ UNCHANGED <<accountVars, areaVars, rosterVars, plan, desk, applied>>

(* Take, and the lock in the roster's Commit, which does not ask how old   *)
(* the preview is.                                                         *)
Taken_Left(t) == book' = book   \* mutant: the token stays
Taken(t) == book' = [book EXCEPT ![t] = Nil]
Take(w, t, kind, pc) ==
  /\ book[t] # Nil /\ book[t].kind = kind
  /\ kind = "roster" \/ ~Expired(book[t])
  /\ Taken(t)
  /\ applied' = [applied EXCEPT ![t] = @ + 1]
  /\ Begin(w, Import(kind), [None EXCEPT !.pc = pc, !.rows = book[t].rows])
  /\ UNCHANGED <<areaVars, rosterVars, plan, made>>
Commit(w, t) ==
  \/ Take(w, t, "roster", "roster_rows")
  \/ Take(w, t, "area", "area_rows")
  \/ Take(w, t, "plan", "plan_save")
TakeExpired(t) ==
  /\ book[t] # Nil /\ book[t].kind # "roster" /\ Expired(book[t])
  /\ Taken(t)
  /\ UNCHANGED <<accountVars, areaVars, rosterVars, plan, desk, made, applied>>

(* area Commit: a row that cannot be saved is reported, the next follows.  *)
AreaImportRow(w) ==
  /\ Doing(w, "area_rows")
  /\ LET d == desk[w]
         r == Head(d.rows)
     IN \/ /\ d.rows = <<>>
           /\ End(w)
           /\ UNCHANGED area
        \/ /\ d.rows # <<>> /\ r.status = "new"
           /\ IF CanInsert(r.name) THEN Insert(r.name, r.shape) ELSE UNCHANGED area
           /\ Stay(w, NextRow(d, "area_rows"))
        \/ /\ d.rows # <<>> /\ r.status = "update"
           /\ Stay(w, IF InUse(r.area) THEN NextRow(d, "area_rows")
                      ELSE [d EXCEPT !.pc = "area_write", !.area = r.area,
                                     !.name = r.name, !.shape = r.shape])
           /\ UNCHANGED area
        \/ /\ d.rows # <<>> /\ r.status = "error"
           /\ Stay(w, NextRow(d, "area_rows"))
           /\ UNCHANGED area
  /\ UNCHANGED <<tasks, effs, deploys, asUsed, overtaken, rosterVars, bookVars, plan>>

(* plan Commit: one SaveBatch for the rows without errors.  Its way into   *)
(* the running incident is module IncidentStore's PlanSave.                *)
PlanSave(w) ==
  /\ Doing(w, "plan_save")
  /\ LET saved == {r \in {desk[w].rows[i] : i \in DOMAIN desk[w].rows} : r.status = "ok"} IN
     plan' = [t \in Teams |-> IF \E r \in saved : r.team = t
                              THEN (CHOOSE r \in saved : r.team = t).area ELSE plan[t]]
  /\ End(w)
  /\ UNCHANGED <<areaVars, rosterVars, bookVars>>

(***************************************************************************)
(* The roster.                                                             *)
(***************************************************************************)
MobileFree(m, x) == \A n \in Members \ {m} : person[n] # Nil => person[n].mobile # x
LoginFree(m, x)  == \A n \in Members \ {m} : person[n] # Nil => person[n].login # x
CanAdd(f) == MobileFree(Nil, f.mobile) /\ LoginFree(Nil, f.login)
NewMember == CHOOSE m \in Members : ~Has(m)
Room == \E m \in Members : ~Has(m)
Add(f) ==
  /\ Room
  /\ Enrol(NewMember)
  /\ person' = [person EXCEPT ![NewMember] = f]
  /\ want' = [want EXCEPT ![NewMember] = f]

(* handleMemberCreate: the answer shows the password.                      *)
MemberCreate(f) ==
  /\ "add" \in scene
  /\ CanAdd(f)
  /\ Add(f)
  /\ UNCHANGED <<call, areaVars, clobbered, unseen, bookVars, plan, desk>>

(* handleMemberUpdate, with the fields that are to change, the others Nil: *)
(* those are read and written back by Store.Update.                        *)
MemberPut(w, m, v, f) ==
  /\ MemberUpdate(w, m, v)
  /\ Sit(w, [None EXCEPT !.pc = "read", !.who = m, !.form = f])
  /\ UNCHANGED <<areaVars, rosterVars, bookVars, plan>>
MemberRead(w) ==
  /\ Doing(w, "read")
  /\ Stay(w, [desk[w] EXCEPT !.pc = "write", !.read = person[desk[w].who], !.stale = FALSE])
  /\ UNCHANGED <<areaVars, rosterVars, bookVars, plan>>

Or(new, old) == IF new = Nil THEN old ELSE new
(* The UPDATE of Store.Update: login_id is not among its columns.          *)
Written_Row(d) ==   \* mutant: every column is written back
  [d.read EXCEPT !.mobile = Or(d.form.mobile, @), !.home = Or(d.form.home, @)]
Written(d) ==
  [person[d.who] EXCEPT !.mobile = Or(d.form.mobile, d.read.mobile),
                        !.home   = Or(d.form.home, d.read.home)]
MemberWrite(w) ==
  /\ Doing(w, "write")
  /\ LET d == desk[w]
         m == d.who
         importing == d.rows # <<>>
     IN \/ /\ ~MobileFree(m, Written(d).mobile)
           /\ End(w)
           /\ UNCHANGED <<person, want, clobbered>>
        \/ /\ MobileFree(m, Written(d).mobile)
           /\ person' = [person EXCEPT ![m] = Written(d)]
           /\ want' = [want EXCEPT ![m].mobile = Or(d.form.mobile, @),
                                   ![m].home   = Or(d.form.home, @)]
           /\ clobbered' = IF d.stale THEN clobbered \cup {m} ELSE clobbered
           /\ desk' = [x \in Workers |->
                         CASE x = w /\ importing -> [d EXCEPT !.pc = "login"]
                           [] x = w /\ ~importing -> None
                           [] x # w -> [desk[x] EXCEPT !.stale = @ \/ (desk[x].pc = "write" /\ desk[x].who = m)]]
           /\ IF importing THEN UNCHANGED accountVars ELSE Details(w)
  /\ UNCHANGED <<areaVars, unseen, bookVars, plan>>

(* roster Commit, row by row.  The first failure ends it, and the answer   *)
(* with the passwords of those created before is not given.                *)
RosterImportRow(w) ==
  /\ Doing(w, "roster_rows")
  /\ LET d == desk[w]
         r == Head(d.rows)
         m == NewMember
     IN \/ /\ d.rows = <<>>
           /\ unseen' = unseen \ d.created
           /\ End(w)
           /\ UNCHANGED <<person, want>>
        \/ /\ d.rows # <<>> /\ r.status = "new" /\ CanAdd(r.form)
           /\ Add(r.form)
           /\ unseen' = unseen \cup {m}
           /\ Sit(w, NextRow([d EXCEPT !.created = @ \cup {m}], "roster_rows"))
           /\ UNCHANGED call
        \/ /\ d.rows # <<>> /\ r.status = "new" /\ ~CanAdd(r.form)
           /\ End(w)
           /\ UNCHANGED <<person, want, unseen>>
        \/ /\ d.rows # <<>> /\ r.status = "changed"
           /\ Stay(w, [d EXCEPT !.pc = "read", !.who = r.who,
                                !.form = [r.form EXCEPT !.mobile = Nil]])
           /\ UNCHANGED <<person, want, unseen>>
        \/ /\ d.rows # <<>> /\ r.status \in {"unchanged", "error"}
           /\ Stay(w, NextRow(d, "roster_rows"))
           /\ UNCHANGED <<person, want, unseen>>
  /\ UNCHANGED <<areaVars, clobbered, bookVars, plan>>

(* The statement after a changed row: its login id.                        *)
RosterLogin(w) ==
  /\ Doing(w, "login")
  /\ LET d == desk[w]
         l == d.form.login
     IN \/ /\ LoginFree(d.who, l)
           /\ person' = [person EXCEPT ![d.who].login = l]
           /\ want' = [want EXCEPT ![d.who].login = l]
           /\ Stay(w, NextRow(d, "roster_rows"))
        \/ /\ ~LoginFree(d.who, l)
           /\ End(w)
           /\ UNCHANGED <<person, want>>
  /\ UNCHANGED <<areaVars, clobbered, unseen, bookVars, plan>>

(* A statement fails; the process restarts, and forgets the previews.      *)
Break(w) == Fail(w) /\ Sit(w, None) /\ UNCHANGED <<areaVars, rosterVars, bookVars, plan>>
Restart ==
  /\ \A w \in Workers : At(w, "free")
  /\ made > 0
  /\ book' = [t \in Tokens |-> Nil]
  /\ UNCHANGED <<accountVars, areaVars, rosterVars, plan, desk, made, applied>>

OfAccounts == ((\E w \in Workers : Handle(w)) \/ Other) /\ UNCHANGED setupVars
OfAreas ==
  \/ \E n \in Names, s \in Shapes : AreaCreate(n, s)
  \/ \E w \in Workers, a \in AreaIds :
       \/ \E n \in Names, s \in Shapes : AreaUpdate(w, a, n, s) \/ AreaCopy(w, a, n, s)
       \/ AreaDelete(w, a)
  \/ \E w \in Workers : AreaWrite(w) \/ DeleteRefs(w) \/ SwitchOff(w)
  \/ \E T, E \in SUBSET Rows : Deploy(T, E)
OfImports ==
  \/ \E f \in RosterFiles : Preview("roster", f)
  \/ \E f \in AreaFiles : Preview("area", f)
  \/ \E f \in PlanFiles : Preview("plan", f)
  \/ \E t \in Tokens : TakeExpired(t) \/ \E w \in Workers : Commit(w, t)
  \/ \E w \in Workers :
       AreaImportRow(w) \/ PlanSave(w) \/ RosterImportRow(w) \/ RosterLogin(w)
OfRoster ==
  \/ \E f \in AddForms : MemberCreate(f)
  \/ \E w \in Workers :
       \/ \E m \in Members, v \in {TRUE, FALSE, Nil}, f \in PutForms : MemberPut(w, m, v, f)
       \/ MemberRead(w) \/ MemberWrite(w)

SetupNext == OfAccounts \/ OfAreas \/ OfImports \/ OfRoster
             \/ (\E w \in Workers : Break(w)) \/ Restart
SetupSpec == SetupInit /\ [][SetupNext]_<<accountVars, setupVars>>
-----------------------------------------------------------------------------
(* An area the running incident refers to keeps the shape it had when it   *)
(* came into use: every judgement of the incident is by the same shape     *)
(* (area.ErrAreaInUse).  The check and the write are two statements, so    *)
(* the exception is an area that came into use between them.               *)
UsedAreaIsFrozen ==
  \A a \in AreaIds :
    asUsed[a] # Nil => area[a].shape = asUsed[a] \/ a \in overtaken

(* A member's row is what was last asked for, field by field: neither a    *)
(* form that leaves a field out nor an import undoes what another request  *)
(* has written, unless it had read the row before and wrote it after.      *)
EditsStand ==
  \A m \in Members : person[m] = want[m] \/ m \in clobbered

(* The rows of a preview are applied once, however often commit is asked   *)
(* for (xlsxin.go:87: a single-use token).                                 *)
ImportsApplyOnce == \A t \in Tokens : applied[t] =< 1

(* docs/SPEC.md:642 and :978: the first password of a new account is shown *)
(* once, in the answer to the request that creates it.                     *)
PasswordsAreShown ==
  \A m \in unseen : \E w \in Workers : At(w, "details") /\ m \in desk[w].created
=============================================================================
