# emergency_callup: a verification project

TLA+ models of the call-up server (`cmd/server`, `internal/`, `web/`), their model
checking with TLC, and theorems about them proved with TLAPS. Source paths are
relative to the repository root.

    tlc -workers 2 -config judge.cfg MCJudge      # a run: <name>.cfg with the MC module below
    tlapm IncidentStore_proofs.tla                # a proof module

## 1. The system

An administrator opens an *incident*; every active member of the teams called up gets an
*assignment* (mission, area). Members log in on their phones, see the mission, acknowledge it
and report positions; the server judges who has arrived and who has left, and the
administrators follow it on a board. One Go process, one SQLite database with **one
connection** (`internal/store/store.go:49`), and a table of live records in memory.

### Inventory

| component | state it keeps | operations | what is hard | what makes it correct |
|---|---|---|---|---|
| Presence judgement `tracker/judge.go` | one `Live` per member: phase, arrival and departure counters, suspicion, last valid fix | ApplyFix, MarkLoggedIn, MarkLocDenied, NewLive | counters lost at any reload, late and reordered reports, exact time gaps, the margin between two boundaries | arrives after an unbroken inside run of 10 s, leaves after an unbroken outside run of 30 s, nothing lost that was promised |
| Incident store `incident/store.go` | `incident`, `team_task`, `assignment` | Open, UpdateTeamTask, UpdateMemberOverride, AddMember, RefreshTeamPlan, Close, UpdateMeta | handlers of several statements interleave; requests stop half way | one active incident, effective values follow the task and the overrides, versions count changes, an arrival is for the area assigned now |
| Team plans `incident/plan.go`, `httpapi/team_plan_api.go` | `team_plan`, `checkpoint` | SaveBatch, refreshActivePlans | applied team by team to a running incident | the incident shows the saved plan; points are for the team's area |
| Tracker `tracker/tracker.go` | table of live records, tracked incident, `seq`, `epoch` | ProcessFix, MarkLoggedIn, ConsentDenied, Ack, LoadActive, FlushDirty, SnapshotSince | reads and writes of the database outside the lock; pointers into replaced tables; failures between memory and row | memory and rows agree; positions stay in their incident |
| Interval and load `tracker/interval.go` | two rings of latencies and request times | NextInterval, Record, Overloaded | partly filled rings, limits of the window | the interval grows under load and shrinks near the boundary |
| Board `web/a/a.js`, `httpapi/admin_incident.go` | a copy of the members, `epoch`, `seq` | snapshot, delta, apply | answers overlap and arrive out of order | the board converges to the server |
| Field client `web/f/f.js`, `web/shared` | login, mission, clock offset, watch, retry timers | me, fix, sync, ack, consent | timers racing answers, stop and resume | asks again until acknowledged; never reports after `stop` |
| Accounts `auth/*.go`, `httpapi/*_auth.go` | `admin_user`, sessions, failure counters | login, logout, deactivate, demote, expire | check-then-act on the last administrator; a login in flight while sessions are cut | an active administrator remains; no session outlives its right |
| Messages `sms/*.go` | `sms_log`, background retries | Prepare, resend, mark | a resend during a retry, restarts | every message ends sent or failed, bounded attempts |
| Areas `area/*.go` | `area` | create, update, deactivate, geometry | in-use test then update | an area in use does not change |
| Roster and imports `roster/*.go`, `incident/plan_import.go` | `member`, previews | preview, commit | single-use token, row by row commit | a preview is applied once |
| Persistence `store/*.go` | schema, backups | migrate, backup, prune | crash between steps | assumed: one connection, transactions, unique indexes |
| Settings, audit, transit, geocoding, spreadsheets, simulator | key-value data, log, caches | read, append | little, but for the single-use previews | the previews are in `Setup`, the rest is plain input and output |

The components meet in five places: the **rows of `assignment`** (written by the store's
requests, by the tracker's synchronous and batch writes and by acknowledgements), the **reload**
`LoadActive` that every administrators' change ends with, the **versions** (`mission_ver`, `ack_ver`)
by which phones learn of changes, the **feed** (`epoch`, `seq`) by which boards do, and the **areas**,
which incidents, plans and members refer to and which may change only while unused.

PROJECT.json lists every hazard with its line, and the properties that cover it or why none does.

## 2. Modules

| module | models | |
|---|---|---|
| `Judge` | `internal/tracker/judge.go` for one member, with the sequential part of the tracker around it | |
| `Presence` | what the judgement promises, over the evidence and without counters | abstract specification of `Judge` |
| `IncidentStore` | the store's requests, one action per SQL statement or transaction, with the tracker's judging and writing and the phones | |
| `PlanWatch` | when the incident must show the saved plans | observes `IncidentStore` |
| `Tracker` | memory against rows: locks, statements, reloads, the batch writer, failures, restarts | |
| `Board` | the change feed of the tracker, snapshot and delta, and the page `web/a/a.js` | composes server and page |
| `FieldClient` | the page `web/f/f.js` with `web/shared/geo.js`, and the server as one member sees it | composes page, calls in flight and server |
| `Messages` | `internal/sms` and its handlers: batches, passes, retries, resends, crashes | |
| `Outbox` | what an administrator may rely on when reading `sms_log` | abstract specification of `Messages` |
| `Accounts` | administrators, members and their sessions, statement by statement | |
| `Setup` | areas, plans, the roster and the three imports | extends `Accounts` |
| `MC*` | small instances | |
| `*_proofs` | theorems | |

### Judge and Presence

`live` is the struct `Live`, `stored` the columns of the row it mirrors. `ApplyFix` is
translated in the order of the code: validity, plausibility, clearing of the suspicion,
departure, zone, counters. Positions are metres on a line, areas are intervals: distance, speed
and signed distance keep their meaning, and the floating-point geometry is left out. A counter
the code only compares with zero is merged with the timestamp it guards. `ProcessFix` writes the
row when the code does (a transition or a first contact), `FlushDirty` writes the suspect flag
only, `Reload` and `Reassign` rebuild the record from the row. Three history variables exist for the
properties: `evidence`, the judged reports since the phase last changed; `calm`, plausible
reports in a row; `recorded`, the event the step put in the log.

`Presence` says the same without counters: a phase changes exactly when the trailing run of
agreeing reports spans the required gap. It states what the code keeps, which is not all of `docs/SPEC.md` 6.2: the
arrival time is that of the *latest* arrival, where the document has the first (`ArrivalRecordedOnce`, section 3).
`PresenceSpec` is the refinement, by `INSTANCE Presence WITH state <- live.state, ...`.

### IncidentStore and PlanWatch

With one connection a statement, or a transaction, is atomic; a handler issues several and
anything may happen between them. `req[a]` holds administrator `a`'s program counter and
everything read so far (`task`, `row`, `half`, `snaps`); a write uses those readings on whatever the row
has become. `Abort` is a client that went away or a failing statement. Missions, areas and plan
points are opaque; the points of one plan are one value, `Nil` standing for the defaults of the area.

*A plan is read in two statements* (`PlanStore.List`: `team_plan`, then `checkpoint`), so each request that resolves one has
two steps (`OpenResolve` and `OpenPoints`, `TaskResolve` and `TaskPoints`, `RefreshResolve` and `RefreshPoints`). `half` is what the first
returned; `Resolve(p, q, area)` makes the snapshot of the first reading's rally point and the second's checkpoints. A batch saved
in between mixes two plans; if they are for different areas the team is in the history `torn`.

*The tracker judges, and writes later.* `TrackerJudge` takes phase and area as they are in memory and puts the outcome in
`report[m]`; `TrackerWrite` writes it, with no condition, to what the row has become. A record in memory that has not been reloaded
since an administrator moved the member is, for the row, a judgement made before the move.

Three fields of a row are history: `arrivedIn`, the area the recorded arrival is for; `seen`, the work the acknowledged version
stood for; `late`, whether a report judged before the row changed was ever written to it. `staleRow` and
`staleTask` collect rows and tasks written from a reading that was no longer true, or in two pieces. The invariants hold for all
others, so each says which overlaps can break it: of the effective values only administrators' requests that overlap
(`EffFollowsTask`); of the acknowledgements those, and a phone's acknowledgement that crosses to the next incident (`AckedIsCurrent`); of the
arrivals the former and late reports (`ArrivedWhereAssigned`); of the plan's points a refresh that meets a task change, and a plan
saved between the two statements that read it (`RallyFitsArea`). The phones (`Fetch`, `Ack`) and the tracker take part as far as
they write these tables.

`PlanWatch` adds two variables and changes nothing (`Observed` is the theorem): which plan a request resolved its snapshot from (none, if
it was saved between the two statements), and which teams
have been left with points of an older plan or of another area, by whom. It turns "the incident shows the saved plan" into a statement
that holds while requests overlap.

### Tracker

A step holds `t.mu`, or is one statement or transaction. `heap[g]` is the table the g-th reload
built and `cur` the one in use: a request keeps a pointer into its table, which a reload may
have replaced. What a report does to the phase is nondeterministic (any step of `Judge`), so the
module is about the copies only. An administrator's change to the rows is one step, followed by the three of the reload
(`LoadActive`, `LoadRows`, `LoadSwap`); module `IncidentStore` has the statements inside it. `raced`
collects the members for whom an outdated copy was written, or a reload read something
that changed before its swap; the next consistent reload clears it. `contacted` remembers who
was answered by a tracker that held his record, `unheard` who was answered without one: `GET /f/me` gives a member his task
also between the commit of the opening and the reload (`member_api.go:74-98`), and then nothing is written. `setting` fixes what one behaviour contains (the kinds of request, whether statements fail) so that two
instances share one run.

### Board

The server half is the tracker reduced to its feed: `epoch`, `seq`, and for every live record the number it was last
announced at (`seqAt`). A fetch is a record of its own with a program counter: the handler reads number, incident and
records in three steps without a lock, then the answer is under way. `page` is the `board` object of `a.js`, `timer` its polling
timer; two chains of fetches may exist, because a snapshot follows every edit and showing the tab sets a
new timer. `gap` is history: a delta was applied to a page that an older answer had set back. `broken` is history: the loop ended because
the snapshot after a resynchronisation was lost.

### FieldClient

Everything the page waits for is a record: a load of `/f/me`, the consent, the acknowledgement, the
heartbeat of each `LocationLoop` (the reading it waits for, and the `GET /f/sync` it falls back to), the positions in flight. A call is served when it is made; its answer may arrive at any later time, be
overtaken, or be lost, as the call may be (`Ways`). `loop[l]` is a `LocationLoop` object with its timers; a timer that is overwritten
without being cleared is counted in `stray`. The office opens, changes and closes incidents in between, and the session may run out.
`late`, `crossed` and `doubled` are history and name the races a property has to except.

### Messages and Outbox

A request of `POST /a/incidents/{id}/sms` is a batch: check, recipients, rows (one transaction), the first pass while the
administrator waits, the results one by one, and the background passes. The gateway takes a text or does not, and its answer may be
lost: accepted and reported failed. Requests and goroutines die with a crash or with the administrator's connection;
the rows stay. `Outbox` knows no passes: a text is put down once, its report only moves forward, one reported sent was accepted.
`KeepsPromise` is the refinement.

### Accounts and Setup

`call[w]` is the request a goroutine serves, one SQL statement per step. A login is a read of the account, the comparison of the password
(which takes long), and the insertion of the session. `era[a]` counts the times `a`'s sessions were to end and a session
remembers the era it was created in; `kept`, `uncapped` and `outran` name the statements that failed or overlapped.

`Setup` extends it with the rows that the setup pages write. A request that is past the account's columns is at `"details"`, and `desk[w]` says
what it does there: the same members are edited by forms, by their own requests and by imports. Geometry is a shape. The running incident
appears as the set of areas it refers to (`tasks`, `effs`), changed by `Deploy`; `IncidentStore` has the statements
inside. A preview is a token in `book`; `Commit` takes it under the lock and then works through its rows. `Preview` reads and
classifies an upload in one step, where the code issues several statements for each row: what a preview says may be outdated by the
next step anyhow, and the commits look again.

## 3. What is checked

Deadlock is checked in `judge` and `judge_log`; the other configurations switch it off, because
a bounded instance stops when ids, versions, reports, batches or reloads are used up.

| run | question | instance | states |
|---|---|---|---|
| `judge` | do the counters implement the rules over the evidence, is nothing lost at a reload | 2 areas, 7 kinds of report (inside, margin, outside, vague, invalid, late, leap), 50 s in steps of 10 s, 3 judged reports per phase | 0.23 M |
| `store_overlap` | what overlapping requests and reports can do to one row | 2 administrators, 1 member, area tasks and overrides, arrivals judged and written, a phone, 3 versions | 7.1 M |
| `store_lifecycle` | opening, closing, adding, planning and acknowledging across two incidents; the inductive invariant `SInv` of the proofs | 2 administrators, 2 incidents, 2 teams, 1 plan, 1 phone, aborts | 2.1 M |
| `store_plan` | plans of two teams, for one area or the other, against moves and openings | 2 administrators, 2 teams, 2 members, 2 areas, aborts | 4.0 M |
| `tracker` | does memory follow the rows | 2 workers; either 2 incidents, 3 reloads and every kind of request but refusals, or failing statements, refusals and restarts with 2 reports and 2 reloads | 2.0 M |
| `board` | does a board show what was announced, and come to show it | 1 member, 1 page with 2 fetches, 2 epochs, 2 changes, 1 edit or toggle | 1.1 M |
| `phone` | do the loops stop, does a change reach the member | 1 page, 2 loop objects, 2 incidents, a change in each, 1 position in flight, 2 lost calls | 0.63 M |
| `messages` | does every text get its tries and a result | 2 batches, 2 members, 1 retry, 1 fault | 0.46 M |
| `setup` | accounts, sessions, areas, roster and imports | 3 administrators, 2 members, 2 goroutines, pairs of kinds of request | 0.81 M |

Runs that end in a counterexample on purpose are described under "Where the code and its documents disagree".

The bounds, and why they are enough. Two requests in flight show every two-party race of the code; the readings
a request makes are at most four, and every pair of positions of two requests is reached. Of each member one report at a time is between judgement and write. Two incidents
are needed for a request, a page or a write that crosses a close and an opening. Three versions leave room for a
change before and a change after an outdated write. Two areas are all that an area change compares; the mission goes through the
same statements as the area, so one mission is enough. Requests are cut short (`Abort`) in
`store_lifecycle` and in `store_plan`, where stopping half way leaves teams behind that a property speaks of; in `store_overlap` one that stands
still while the other administrator goes on comes to the same.
In `judge` the ten-second step makes the 10 s and 30 s gaps exact (equal, below and
above), the late report makes timestamps run backwards, and three judged reports per phase are
enough for a run of two, broken and started again. Reloads are bounded by `MaxLoads`; each
reload ends one administrator's change or a restart. Two batches are a batch and its resend; one retry tells the pass of `Prepare`,
the pass at once and a later one apart. In `phone` two loop objects are a stopped loop with a call still under way and its successor;
a version in each incident that needs acknowledging makes versions of two incidents comparable;
`MaxCalls = 0` keeps the watch and the member's taps from adding calls while others are under way, timers still do. In `setup` the
constant `Scenes` lists which kinds of request meet: every pair that touches common rows, and each clock-dependent one with time; three
of them together reach nothing two do not, since every property speaks of one write against one reading. The bounds of time there
(two ticks, an hour's grace of one, a day of three) order the deadlines as the code does.

**Properties.** `EffFollowsTask`, `AckedIsCurrent` and `ArrivedWhereAssigned` relate a row to its
team's task, to what a phone has shown and to the arrival on record. `VersionCountsChanges` is
what the phones rely on: `mission_ver` moves by one, and exactly with a change worth telling.
`OtherTeamsUntouched` is the acceptance case R2 over all the statements of a request: each writes only rows of the
request's incident and of the teams, or the member, it was asked for and has still to treat, and these never become more on the way. `RallyFitsArea` and `PlanInForce` are the plans'.
`MemoryMatchesRows` is the tracker's: with no reload and no write for the member under way,
memory agrees with the active incident's row. `ContactLogsIn`: whoever was answered by `/f/me` or
`/f/fix`, by a tracker that held his record of the incident, is not on record as never seen. It is not claimed where statements fail: a second report is answered while the first one's
transition is still unwritten, and after a crash nobody writes it. `PositionsStayHome` and `ArrivedHere` keep incidents
and areas apart. `DeparturesCounted` and `SuspicionStands` count over long sequences of legal reports.
`BoardIsCurrent`: a page that has reached a number misses nothing announced up to it. `StoppedIsQuiet`, `OneLoop` and `AckedWasShown` are the
phone's. `EveryTryIsMade` and `ResendReachesOnce` bound what is sent to whom.
`AnAdminRemains`, `ResetEndsSessions` and `SessionsEndWithIncident` say which single overlap or failure can break a promise about
accounts, and that nothing else can. `UsedAreaIsFrozen`, `EditsStand` and `ImportsApplyOnce` do so for the setup pages.

**Fairness.** Only what runs by itself is fair; nobody has to report, edit, tap or look.

* `Messages`: weak fairness of the work on each batch. A call of the gateway ends within its timeout of ten seconds
  (`http_provider.go`) and a goroutine goes on until its passes are over (`service.go:101`). Hence `EveryTextSettles`.
* `FieldClient`: weak fairness of each loop's timer and answers, of the answers to positions, and of the page's own calls: the browser fires
  timers that are set and every `fetch` ends, answered or failed. The member's taps, the watch and the retries' sends are not
  fair: the heartbeat alone must do. Hence `ChangeIsSeen`, `ClosingStopsLoops`, `IncidentIsFound`.
* `Board`: weak fairness of the timer and of serving; *strong* fairness of the arrival of
  an answer, because an answer may also be lost: a page that asks for ever is answered some time. Losses are not bounded. The reload
  that ends an edit is *not* fair: it may fail, and a close whose cap on the sessions fails returns before it
  (`admin_incident.go:514-517`). `ChangesArrive` promises what the tracker was told of.

`Judge`, `IncidentStore`, `PlanWatch`, `Tracker`, `Accounts` and `Setup` state no fairness: what they promise holds in every state or step.

### Where the code and its documents disagree

Three runs end in a counterexample on purpose:

* `judge_log`, `SuspicionRecorded`: a report that raises the suspicion causes no transition, so its
  event `suspect_fix` is dropped (`internal/tracker/tracker.go:155,169`), though it is a listed event (`docs/SPEC.md:354`).
* `phone_consent`, `ConsentFirst`: `applyPollResult` (`web/f/f.js:299`) looks at the state and version of an answer and not at its
  incident. When one incident closes and the next opens between two polls, the loop goes on reporting for an incident whose consent
  sheet its member has not seen; `docs/SPEC.md:585` has the page load again when `iv` differs, `:1011` takes consent for every incident.
* `messages_retries`, `TwoRetries`: the pass of `Prepare` is followed by one at once and then by `MaxRetries` more
  (`internal/sms/http_provider.go:96`): a text that keeps failing is sent four times; `docs/SPEC.md:902` says two retries, 30 s apart.

Ten more statements of the documents are defined in the modules and refuted by TLC, but have no run of their own; naming one as an
INVARIANT or PROPERTY in the configuration of the run in parentheses shows the counterexample:

* `ArrivalRecordedOnce` (`Judge`, `judge`, PROPERTY): a member who left and returns gets a new `arrived_at` (`judge.go:238`); `docs/SPEC.md:503` says
  it is recorded once.
* `ClosedIsReadOnly` (`IncidentStore`, `store_overlap`, PROPERTY): a request that found the incident active writes to it after it was closed;
  `docs/SPEC.md:417` says a closed incident is read-only.
* `MovedArriveAnew` (`IncidentStore`, `store_overlap`, INVARIANT): a report judged in the old area and written after the member was moved brings
  his arrival back (`tracker.go:132-175, 258-299`); `docs/SPEC.md` 5.3 rule 3 makes whoever is moved MOVING. The next reload takes the arrival
  into memory.
* `PointsAlwaysFit` (`IncidentStore`, `store_plan`, INVARIANT): a batch of plans saved between the two statements of `PlanStore.List`
  (`plan.go:68, 104`) gives a team the old rally point with checkpoints for another area, as does a refresh that meets a move
  (`store.go:407-452`); `docs/SPEC_AREA_EDITOR.md` 3.5 takes both from the plan for the team's area.
* `NeverDrifts` (`Tracker`, `tracker`, INVARIANT): two reloads that read in one order and swap in the other leave memory
  behind the database; the comment at `internal/tracker/tracker.go:59-62` says it never drifts.
* `AnswerLogsIn` (`Tracker`, `tracker`, INVARIANT): a member answered before the reload that follows the opening stays NOTIFIED
  (`member_api.go:74-98`); `docs/SPEC.md` 5.1 and the comment at `tracker.go:177-179` make the first request of an incident the login. The document
  means `GET /f/sync` too, which never makes a member LOGGED_IN.
* `EveryChangeIsSeen` (`FieldClient`, `phone`, PROPERTY): version 2 acknowledged in one incident counts in the next, whose version 2 opens no dialog
  (`f.js:299-308`); `docs/SPEC.md:586` opens it whenever the version is above the one acknowledged.
* `StopEndsCalls` (`FieldClient`, `phone`, PROPERTY): a heartbeat whose reading fails after `stop()` still sends `GET /f/sync` (`geo.js:207-216`);
  `docs/SPEC.md:754` and the comment at `f.js:287-289` say it is not called any more.
* `PollingGoesOn` (`Board`, `board`, INVARIANT): the snapshot that follows a resynchronisation sets the next timer only when it is answered
  (`web/a/a.js:366-371, 426-429`); if it is lost nothing polls until the tab is shown again. `docs/SPEC.md:822-823` and R13 (`:1201`) have the board recover.
* `PasswordsAreShown` (`Setup`, `setup`, INVARIANT): an import that fails half way has created members whose first passwords were never shown
  (`internal/roster/import.go:318-323`); `docs/SPEC.md:642, :978` show each once.

Met while reading, without a definition of their own:

* Of two overlapping overrides the later write undoes the earlier (`store.go:495-505`); `staleRow` marks it.
* The tests of an override and of a plan refresh are made on readings: a member given an area of his own
  in between is notified of a plan that is not his, and a team that moved gets the points of its old area (`staleTask`).
* An acknowledgement may lower `ack_ver`, or reach the next incident's row (`tracker.go:414`).
* The batch writer writes zeros for a record that is dirty without a position (`FlushTake`), may put back
  an older position, or lose a newer one to `SyncClear`; `docs/SPEC.md:548` allows a loss of two seconds.
* A refusal draws no number from the feed (`ConsentDenied`), though `docs/SPEC.md:531` counts every change: boards learn of it with the
  member's next announced change. A delta applied to a page that an older answer set back leaves old rows (`a.js:382`), and a delta never
  removes a row (`a.js:392`).
* A consent that is lost on its way never starts the loop (`f.js:246`), and a member in LOC_DENIED has none to bring him back
  (`docs/SPEC.md:577` expects polling).
* A change of one's own password ends no other session (`handleMemberPassword`; `docs/SPEC.md:986`). If the cap on sessions at the close fails,
  nothing does it again (`admin_incident.go:513-517`), and a login in flight over a reset or a close leaves a session behind it:
  `ResetEndsSessions` and `SessionsEndWithIncident` speak of the sessions that were there.
* The commit of the roster import does not look at the token's age, as the other two do; a copy of an area switches the original off even
  while members' home areas refer to it (`area/store.go:417`).

## 4. What is proved

TLC sees the instances above; the theorems hold for **every** value of the constants: any number of administrators, members,
teams, areas, goroutines, loops, fetches and batches, any reports, forms, files and clocks, any bounds. Every safety invariant and
action property of the runs that pass, and both refinements, are theorems; all obligations of the eight proof modules are discharged.
Each proof has the same form: an inductive invariant, one lemma per action (for long handlers one per statement) that it is kept, a
lemma that splits `Next`, and the property as its consequence.

| module | theorems | inductive invariant |
|---|---|---|
| `IncidentStore_proofs` | `TypeCorrect`, `AtMostOneActive`, `EffectiveValues`, `AcknowledgedWork`, `ArrivalArea`, `RallyArea`; the action properties `VersionsCount`, `TeamsApart`; without overlaps `SerialValues`, `SerialVersions`; of `PlanWatch`: `Observed`, `PlansInForce` | `IInv`, `SInv`, `SerialInv`, `WInv` |
| `Judge_proofs` | `TypeCorrect`, `NothingToLose`, `ArrivalTime`; the action properties `Departures`, `Suspicion`; the refinement `CountersImplementRules` | `IInv`, `PInv` |
| `Tracker_proofs` | `TypeCorrect`, `HomeTheorem`, `MemoryFollows`, `ArrivedTheorem`, `ContactTheorem` | `IInv` |
| `Messages_proofs` | `TypeCorrect`, `TriesAreMade`, `ResendReaches`; the refinement `PromiseKept` | `IInv` |
| `Board_proofs` | `TypeCorrect`, `CurrentTheorem` | `IInv` |
| `FieldClient_proofs` | `TypeCorrect`, `QuietTheorem`, `OneLoopTheorem`, `AckedTheorem` | `IInv` |
| `Accounts_proofs` | `TypeCorrect`, `AdminRemains`, `SessionsEndWithReset`, `SessionsEndWithClose`; without overlaps `SerialRemovals` | `IInv`, `Fresh` |
| `Setup_proofs` | `FrozenTheorem`, `EditsTheorem`, `OnceTheorem`, and `AccountsHold` | `SetupInv` |

### Assumptions

`StoreAssumption`, `JudgeAssumption`, `TrackerAssumption`, `MessagesAssumption`, `BoardAssumption`, `FieldClientAssumption`, `AccountsAssumption`
and `SetupAssumption` say that the constants have their types and that `Nil` is none of their values. Beyond that: the clock starts later than a
report may lie back and does not run past its bound before it starts (`JudgeAssumption`); the two ways a board asks do not share fetches (`BoardAssumption`); of the accounts
enrolled at first one is an administrator, and administrators are finitely many (`AccountsAssumption`); a member is on the roster exactly when he
has an account (`SetupAssumption`). Every run's module extends the module whose assumption it is, so TLC evaluates all of them.

### The arguments

**Incident store.** The properties are not inductive by themselves, because a write trusts what its request read earlier. `IInv` adds
`RequestsOK`, what a request may rely on at each program counter (the task and row it found still exist, the snapshot it resolved is for the
area it will write, in both its parts unless it is in `torn`); `RowsHaveTasks`, a row's team is part of its incident, so an effective value always exists; and `PhonesBehind`, a
phone's copy is never ahead of its row, and level with it only if it shows the same work, without which an acknowledgement could stand
for work never seen; and `ReportsOK`, what the tracker is about to write is a step from the phase it judged and, of a row never written late,
holds the arrival for the area it judged, without which a write could bring an arrival nobody made. There is one lemma per request for its reading statements (`OpenReads`, `TaskReads`, ..., with `ContinueKeeps` in common) and one per
writing statement (`OpenWrites`, `TaskWrites`, `OverrideWrites`, ..., and `TrackerJudges` and `TrackerWrites`), each with one step per conjunct it can disturb.

The action properties need `SInv`: an incident not opened has no rows (else opening would change some, `Unopened`), and a refresh reaches
its transaction only with points other than those it read (`RefreshDue`): without it a version could be counted for nothing. `Purpose` says that a request
names a member only if it is about him and an incident only once it has asked for the active one. The lemmas above them
say, row by row, what each writing statement does to a row of its team and to a row of another (`AdminRows`, `OtherRows`), and `RequestMoves` that
no statement widens what its request is about (`Narrows`); `TeamsApart` is their sum.

`SerialValues` and `SerialVersions` say where the drift comes from. `EffFollowsTask`, `RallyFitsArea` and `VersionCountsChanges` except rows and tasks written from an
outdated reading; under `[]Alone` (no two administrators' requests in flight together; the tracker and the phones go on as they like) the same holds with **no** exception.
`SerialInv` adds `ReadingsHold`: what a request that is about to write has read is still what the tables hold. A step of another
request is all that can break it, the second half of a plan's reading included (`half` is still the plan, nothing is `torn`). So serialising the administrators'
requests would be enough to keep effective values, points and versions exact. It would not be enough for `ArrivedWhereAssigned`: reports are written late
without any overlap of administrators.

`PlansInForce` is the theorem about *absence*: nothing forgets a team. `WInv` says who comes to it: a team of the running incident whose points are not
its plan's has a request that has it among those still to do, that has found this incident or is about to look for it, and that has read the task as
it is now if it has read it at all (`Due`, `RefreshComes`); or it is in `lagging`, with the request that missed or overtook it. `SnapsResolved` ties
the snapshot in a request's hands to the plan it was resolved from.

**Judgement.** `IInv` adds `ClearCounts`, which ties the clearing count to the reports in a row: without it nothing says that the
flag falls at the second one. `Judgement` and `Applied` say what one report can do to a record, `Processed` what the whole handler does. The
refinement needs `PInv`: the counter of the phase the member is in is zero when the last judged report is not in its zone, and else the time of the *first*
report of the trailing run (`EvidenceCounts`); `OneBeginning` says that a run begins in one place, which identifies it with what `Presence` chooses. `EnRouteSettles`
and `ArrivedSettles` then match the two arms of the judgement with a settling of `Presence`, everything else stutters or restarts.

**Tracker.** A goroutine keeps pointers, numbers and copies over steps that others take. `WorkOK` says what each may be relied on for: the record is of the
incident the request took with it, current only if its table is, and what has been copied has left NOTIFIED. `AgreeOK` is `MemoryMatchesRows`
strengthened to hold in the middle of a write, where only the phase may differ; `ContactOK` is `ContactLogsIn` extended to a member who is past NOTIFIED
in memory and would be answered at once: the write that is to come must be one for *this* incident.

**Messages.** `BatchOK` counts: a text of the pass under way was handed over once for every pass before, and once more if its result is there.
`ResendOK` follows a failure from one batch to the batch that texts it again: where the first was through with them it stays failed there.
`PromiseKept` maps every step to one of `Outbox` or a stutter.

**Board.** `PageOK` says that the page covers every record announced up to its number; `FetchOK` says the same of an answer under way: it covers what was announced after its
base and up to its number and is silent about the rest, so that applying it to a page at least as new as its base loses nothing.

**Field client.** `QuietOK` says when a second retry timer can hide the first: only after two positions were under way at once. `OwnedOK`
says that a loop that runs is the one the page knows, unless a late answer made it forget. `ShownOK` speaks of every incident the server may have, not
only of one the member is assigned to.

**Accounts and setup.** `IInv` adds `CallsOK` (whose account a request is about, and that the time a cap is reckoned from is that of its
close) and `OthersRemain`: a removal about to be written on a count that nothing has changed since leaves another administrator (`CountLeaves` is the step from the
`Cardinality` to the write). `ErasEnd` and `ClosesEnd` say what a step must see to for sessions to end. `SerialRemovals` drops the exception instead: under `[]OneEdit` (no two updates of an administrator overlap) no count is ever outdated (`Fresh`), whatever logins, resets, failures and
members' requests come between. `Setup_proofs` reuses these lemmas for the actions the two
share and proves of its own that the requests of the setup pages keep them, so `AccountsHold` states the promises of `Accounts` for the composed `SetupSpec`. `SetupInv` adds
what a commit may rely on: an area in use is known and whoever is about to write it is marked late, a reading that is still up to date
is what the row has, a preview that can be taken has not been applied.

### What the proofs changed

Each invariant was also checked by TLC: `SInv` in `store_lifecycle`; the others by naming them in the configurations of the runs,
where they hold in every state reached (`WInv` in `store_plan`, `EvidenceCounts` in `judge`, the rest in the run of their module). Attempts that failed for a reason corrected the models:

* `ContactLogsIn` was false with three goroutines: a late reload can swap the incident under a refusal, and a report answered in between rested
  on it alone. The history variable `contacted` and the text of the property now say so.
* `RosterRow` of `Setup` and `Resolves` of `PlanWatch` had `CASE` arms that overlapped, which leaves the choice open; they are disjoint now, in the order of the code. `Insert` takes
  the first free id as a guard, without a choice from what may be empty.
* `Judge` allowed a clock that had run past its bound before it started.

**Only model-checked:** liveness (`EveryTextSettles`, `ChangeIsSeen`, `ClosingStopsLoops`, `IncidentIsFound`, `ChangesArrive`), which rests on fairness
and is out of this prover's reach, and the counterexamples of section 3. Induction over data and recursive operators, also out of reach, are not needed: no module uses recursion.

## 5. Not modelled

Wording and validation of requests; floating-point geometry and the update of grids, which has the guards of circles; rate limits, the
login limiter and the pool of hashing workers (a lock around counters, which unit tests reach); `NextInterval` and the load monitor, which
change only how often a phone reports, and the models leave that open; `UpdateMeta` (the incident's text and its version `iv`),
`DeleteOldFixes`, the incident draft and `ApplyMissionChange` of `judge.go`, which only tests call; migrations and backups; settings,
transit lines, geocoding, reading and writing of spreadsheets, the simulator and the drawing of the setup pages. In
`Tracker` a plan refresh is not among the requests: it reloads only when a plan was applied. Renewal of cookies and the change of an administrator's own
password are left out of `Accounts`; the clock offset, the password form and the map out of `FieldClient`; the summary counts out of `Board`.

## 6. Plan

Done: the presence judgement, the incident store and its plans, the tracker, the board, the field client, messages, accounts, areas,
roster and imports; every safety property, action property and refinement of the runs is proved. Left, in this order:

1. **Pace**: `NextInterval` and the rings of `LoadMonitor` over bounded inputs, against a reference definition.
2. **Persistence**: migrations and backups with a crash at every step.
3. `UpdateMeta` with `iv`, to compose with `FieldClient`.
4. **Composition theorems**: that an administrator's change in `Tracker`, one step there, is what the statements of `IncidentStore` amount to
   when they do not overlap, and likewise `Deploy` of `Setup`.
