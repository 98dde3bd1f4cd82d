# Domotic — specification, model checking and proofs

Domotic is one Go binary that gathers Netatmo, Somfy TaHoma, Philips Hue and
Shelly devices behind a REST API, keeps their state in SQLite, runs *scenes*
(scheduled sequences of commands) and serves an Angular interface.  This
directory holds TLA+ modules translated from its source, the TLC
configurations that check them on small instances, and proofs, for every value
of the constants, that TLAPS checks.

Paths below are relative to `src/`; `engine.go` alone is
`backend/internal/scenes/engine.go`.

    tlc -config engine.cfg MCSceneEngine          # one run
    tlapm SceneEngineProofs.tla                   # one module's proofs

`PROJECT.json` lists the components, the runs and their properties, the mutants
(for each checked property a plausible bug of the code that violates it), the
lines of source each definition stands for, the findings, the hazards and the
theorems.

## 1. The system

### Processes and how they interact

One process.  `cmd/domotic/main.go` opens the database, builds the clients,
starts three things that run until the stop, and stops them in order:

* the **HTTP server**: one goroutine per request (`internal/api`);
* the **poller**: one goroutine per loop of a source (`internal/poller`);
* the **scene engine**: one goroutine for `Run`, one per execution, one per
  retry (`internal/scenes`).

They meet in four places: the **database** (one connection, WAL: each statement
or transaction is atomic, two calls in a row are not), the engine's **mutex**,
the channels **`reload`** of the engine and **`nudges`** of the poller (each of
capacity one, written without blocking), and the **context** the stop cancels.
The browser keeps copies of what the API answered.

### Components

| Component | State | Operations | What is hard | What makes it correct |
|---|---|---|---|---|
| Scene engine (`scenes/engine.go`: `Trigger`, `finish`, `Run`) | `root`, `runs` (token and cancel per scene) under a mutex, `wg`; column `last_status` | launch, relaunch, end, stop | decisions under the mutex, writes outside it; tokens reused; crashes | the last order wins; *running* means something runs; a stop waits for executions |
| Scene execution (`execute`, `control.Send`, `Record`) | the step, two counters, the retries | step, wait, send, retry, record, verdict | retries in the background, cancellation at any point, lost answers | each command counted once; the verdict matches what was carried out; nothing driven after the return |
| Scheduler (`Run`, `nextDue`, `catchUp`) | a cursor, a timer; column `last_run_at` | sleep, wake, launch, catch up, reload | reload against timer, suspend, restart, failing reads | no occurrence twice, none lost within the window, none too late |
| Schedules (`scenes/schedule.go`) | none | `Next`, `Prev`, `NextRun`, `lastDue` | offsets across midnight, changes of hour, polar days | first and last of all the instants |
| Targets and validation (`resolve.go`, `validate.go`) | none | `Resolve`, `Validate` | capabilities lost after the scene was written | a device is driven once per step, and only one that can obey |
| Scene and room order (`store/scenes.go`, `store/rooms.go`) | columns `position` | create, reorder, list | NULL positions, reorder against create | a new scene comes last; an order is kept |
| Devices store (`store/devices.go`) | table `device` | upsert, update state, mark unreachable, room override | three writers for one row | no write of one source undone by an older reading |
| History store (`store/commands.go`, measurements) | tables of history | record, list, purge | retention | pages neither skip nor repeat |
| Opening, migrations (`store`) | schema version | open, migrate | — | scripts run once, in order |
| Poller (`poller/poller.go`) | last outcome per source, one `nudges` slot per source | tick, nudge, status, shutdown | a nudge during a poll | a nudge gives one more poll; the stop ends every loop |
| Netatmo (`internal/netatmo`, `store/tokens.go`) | tokens in memory and in the database | refresh, exchange | the refresh token rotates at each use | the token stored is the last one received |
| TaHoma (`internal/tahoma`) | the listener id | register, fetch, invalidate, unregister | the box forgets an idle listener | no state stays stale once the listener is back |
| Hue (`internal/hue`) | the stream and its watchdog | stream, inventory, execute | partial events merged with a full inventory | the stored state is one the bridge had, at last the current one |
| Hue pairing (`hue/pair.go`) | none | a loop until the button is pressed | — | ends |
| Shelly (`internal/shelly`) | the modules already seen | fetch, execute | a module that disappears, a restart | an absent module is shown unreachable |
| HTTP API (`internal/api`) | none but OAuth states | scenes, devices, rooms, history, authorisation | handlers concurrent with loops | a change signals the loop it concerns |
| Process (`cmd/domotic/main.go`) | — | start, stop, subcommands | order of the stop, its deadlines | the database closes last |
| Configuration (`internal/config`) | none | load, validate | — | — |
| Embedded web (`backend/web`) | none | static files | — | — |
| Frontend stores (`frontend/src/app/core`) | signals with pending changes | refresh, command, reorder, remove | answers out of order, optimistic updates | the view ends as the server is |
| Frontend pages | drafts and previews | edit, preview, save | previews out of order | the preview shown is the draft's |

The hazards found while reading, each at its line and with the properties that
cover it or the module planned for it, are in `PROJECT.json`.

## 2. Plan

The scene engine comes first: it is where goroutines, mutex, database, clock and
restart all meet, and where a wrong interleaving opens a shutter.  Then the
loops that write what the interface shows, then what the interface makes of it.

| # | Module | Models | Abstract statement | State |
|---|---|---|---|---|
| 1 | `SceneEngine` (+ `SceneEngineProofs`) | launches, relaunches, issues, start, stop, crash | last order wins, running is backed | done, proved |
| 2 | `SceneExecution` (+ `SceneExecutionProofs`) | what an execution does | each command counted once, the history complete | done, safety proved |
| 3 | `SceneScheduler` (+ `SceneSchedulerProofs`) | the loop of `Run` | launched at most once, in time | done, safety proved |
| 4 | `ScheduleNext` (proofs in `SceneSchedulerProofs`) | `occurrence`, `Next`, `Prev` | first and last of a set of instants | done, proved |
| 5 | `SceneTabs` (+ `ScenePagesProofs`) | the scenes in their order, their handlers, the page's copy | an order only an order changes; a copy that is the server's list | done, proved |
| 6 | `SceneTargets`, `SceneEditor` (proofs in `ScenePagesProofs`) | `Resolve`, `Validate`; the dialog, its previews and its recording | the set of devices a selector denotes (`Exact`) | done, proved |
| 7 | `HueSync` (+ `HueSyncProofs`) | stream, watchdog, inventory, merge, row | the row is the light's state once nothing is under way | done, safety proved |
| 8 | `TahomaListener` (+ `TahomaListenerProofs`) | listener, setup, events, row, stop, crash | no listener leaks; the row's states are the box's once nothing is under way | done, safety proved |
| 9 | `ShellyPoll` (+ `ShellyPollProofs`) | `tick`, `Nudge`, polls, silent modules | `Mirror`: rows lag behind and never go back | done, safety and refinement proved |
| 10 | `NetatmoTokens` (+ `NetatmoTokensProofs`) | rotation, authorisation, crash, the two requests and their writes | the token stored is the one Netatmo refreshes | done, safety proved |
| 11 | the page of the devices (`devices.store.ts`) | the same exchanges as `SceneTabs`, for devices and rooms | the copy is the server's list | not modelled yet |

Composition.  `SceneEngine` leaves `execute` as one step that returns any
outcome: `SceneExecution` is what happens inside, and its theorem that nothing is
driven once `execute` has returned is what `SceneEngine` assumes when it lets
`Run` return.  `SceneScheduler` treats `Trigger` as one step for the same reason,
and a schedule as a set of instants: `ScheduleNext` is how that set is made.
`SceneEditor` extends `SceneTargets`, which `SceneExecution` takes as the list of
devices of a step.  `HueSync`, `TahomaListener` and `NetatmoTokens` each hold the
two writers that share a row; `ShellyPoll`, whose row has one writer,
implements `Mirror`, which the others do not: an older value may overwrite a
newer one there.

## 3. What is modelled, and how it corresponds

### SceneEngine

Each call of `Trigger` is an element of `Launches`, whose `pc` says between
which two points of the code its goroutine is:

| `pc` | The goroutine is | Next action |
|---|---|---|
| `idle` | not called yet | `Load`: `GetScene` finds the row |
| `loaded` | before `e.mu.Lock()` | `Lock`: takes the mutex, tests `root`; refused, it gives it back |
| `checked` | inside the critical section | `Register`: cancels the entry replaced, new token, `wg.Add`, unlock |
| `registered` | between the unlock and `StartSceneRun` | `StartRun` |
| `executing` | in `execute` | `Execute`: any outcome, none when its context is done |
| `executed` | before the mutex of `finish` | `FinishCurrent` or `FinishSuperseded`, by the token |
| `released` | between that unlock and `FinishSceneRun` | `FinishRun` |
| `done` | over | |

`phase` follows the process and `Run`: `down`, `starting`, `rooted` (the context
is published), `serving` (the table was swept), `returned`.  `Stop` is
`srv.Shutdown` then the cancellation; `Return` is the end of `Run` after
`wg.Wait`; `Exit` closes the database; `Crash` may happen at any point and keeps
only the columns.

`swept`, `latest`, `raced`, `unwritten` and `inside` are history.  `raced`
collects the scenes for which one of the two windows the code leaves open was
crossed: a launch registered while another goroutine of the same scene still had
to write `last_status` outside the mutex, or an execution leaving its entry while
an older one of the same scene was not over.  Without `raced` the properties are
false, which `engine_last_order` shows for the order of the launches; with it they
hold and are proved.  `unwritten` collects the scenes whose issue could not be
written: `FinishSceneRun` may fail, which is logged and nothing else, and the
scene keeps the *running* of its beginning until its next launch or the next
start.  `StartSceneRun` may fail too, and leaves what the table said.  `inside` is
the launch that held the mutex when the context was cancelled.

### SceneExecution

One call of `execute`.  The steps of `Program` are waits or actions; an action
carries the devices `Resolve` finds.  An attempt is a call of `control.Send`:
`armed` (a retry waiting for its thirty seconds), `sent`, `obeyed` by the box,
`succeeded` or `failed`, then `Return` records it and counts it or arms its
retry.  `Answer` may fail a command the box obeyed (a lost answer).
The line of history may fail to be written, which `Record` only logs:
`unrecorded` (history) keeps those attempts, which are judged as the others.
`Refusing` are the devices whose source is not configured or that refuse the
command, which `retryable` excludes.  `Cancel` may come at any point.

### SceneScheduler

Time is in ticks; a schedule is a set of instants.  `Boot` reads the clock once
(`now` is given both to `catchUp` and to the cursor); `Read` is `nextDue` and the
computation of the sleep; `WakeForReload`, `WakeTooEarly` and `WakeWhenDue` are
the branches of the `select`; `Launch` is one call of `Trigger` of the list being
launched; `Fired` moves the cursor.  `Tick` advances clock and timer, `Suspend`
only the clock: Go's timers follow the monotonic clock, which stands still while
the machine sleeps.  `Edit`, `Delete` and `RunScene` are the API's handlers.
`Halt` stops the service at any point and forgets everything but the table.
When the scenes cannot be read, a start catches nothing up, and `Trigger` launches
nothing: the error is logged and the cursor moves on.  `dropped` (history) keeps
those occurrences until the next start.

### ScheduleNext

`Midnight`, `Elapsed`, `Weekday`, `Sunrise`, `Sunset` and `Polar` give what the
time zone database, the calendar and the ephemeris say of each civil day.
`Occurrence` is the instant a schedule has on a day, `NextInstant` and
`PrevInstant` the searches over nine days, `NextRun` and `LastDue` the first and
last over the enabled schedules.  `Walk` moves a cursor from one occurrence to
the next as the loop of `Run` does.  The properties compare the searches with
the set of *all* the instants.  `Days` is any stretch of days, and `Queried` those
that have eight more on each side.  `Recurring` and `InOrder` say what the
schedules of a week do of themselves: fall due every eight days, and in the order
of the days.

### SceneTargets

Pure operators.  `Designated` is the list of ids a step names, directly or
through its rooms, those of a room by `OfRoom`; `ConsiderAll` goes through it as
the loops of `resolve.go` do, each turn of which (`Consider`) keeps what was seen,
the targets and what was set aside with its reason.  The loops are recursive
functions, which the proofs can reason about.  `Validate` and the
operators under it are the tests of `validate.go`, clock times being minutes,
`Empty` or `Malformed`.  `Exact` states what the result must be without loops, and
`DrivesRelay` whether some action is meant for a relay that can obey it.

### SceneEditor

The dialog of `scene-editor.ts`: `visible`, `editedId`, `draft`, `saving`,
`preview`, `timer` are its fields.  Each control of `scene-editor.html` is an
action: those that call `changed()` arm the timer again (steps added, removed or
moved, `SetCommand` with the default parameters it brings, `SetColor`,
`SetTargets`), those that are only bound to the draft do not (`SetAmount`: a
brightness, a temperature, the minutes of a wait; `SetName`; `SetSchedules`).
`ToSpec` is `toSpec`: the name trimmed (`Bare` is the table of that), the minutes
alone of a wait, an action without minutes, the days in order, neither offset nor
bounds of a fixed hour, no hour of a solar one, 0 for an offset left empty.  A
request is a record of `calls` that goes from *resolve* to *resolved* or from *save*
to *saved*; serving it and its arrival are separate actions, so answers come in any
order and to a dialog that was closed, or opened on another scene, meanwhile.
`Save` is not stopped by a Save under way: the button turns, but the form can still
be submitted.  `Warned` is the warning of a relay, which the dialog gives only when
there is a schedule.  `crossed` (history) says the draft, the dialog or the scene
changed while an answer to *Save* was awaited, and `shown` which request the
preview answers.

### SceneTabs

`table` is the table *scene*; the actions from `CreateScene` to `SetSceneOrder`
are the store's statements and transactions.  A handler is two or three of them
in a row: the write (`Serve...`), the read of the scenes (`ReadList`,
`ReadView`), the read of the devices (`DescribeAll`); other pages write in
between.  `list` is the signal of `scenes.store.ts` and `...Arrives` what each
answer does to it.  The page sends the ids it shows, moved or not, twice when it shows a
scene twice, which the handler refuses; other pages send any order, complete,
partial or empty.  A list is the scenes by their rank, the number of those that
come before.  `version` counts the changes of the database, `seen`
(history) is the version the copy shows when it is known.

### HueSync

`light` is the light at the bridge, `row` its row.  `Handle` and `MergeWrite` are
the two halves of `mergeHueState` (the read, then the write); `ReadLights`,
`ReadLinks` and `Upsert` the three steps of an inventory.  A stream is *closed*,
*open* or *dead* (cut without a word, which only the watchdog ends).  The value of
a part counts its changes, so that an older value can be told.  `exposed`
(history) records the four ways a row may stay stale until the inventory of
every fifteen minutes: a change while no stream is open and no inventory is
still to read it, an inventory that failed, an older value written over a newer,
an event that is lost (`EventLost`: a message that cannot be decoded is skipped, a
row that cannot be read is logged; `MergeWriteFails`: so is one that cannot be
written).  A stored state that cannot be decoded has its parts `Missing`: the
merge starts again from what the event carries.

### TahomaListener

`listeners` and `pending` are the box's; `id`, `pc` and `second` are
`EventListener.Fetch` between its requests; `batch` what `applyEvents` has left to
apply; `setup` the loop of the inventory.  Each request may fail before it
reaches the box, after (its answer is lost), or be taken for an expired listener.
`Stop`, `Shutdown` and `Crash` end the process, `Boot` starts the next one.
`orphans` (history) are the listeners no process can release, `exposed` as above:
a fault, an event whose states could not be written (`ApplyFails`), or an event and
an inventory applied in the order opposite to that in
which they were read (`Ahead`: the row or the event has a newer value than the
inventory; `Behind`: an older one).

### ShellyPoll and Mirror

`poll` is one turn of `refreshShelly`: the modules still to ask, those read, what
was seen, those still to mark.  `modules` is the client's memory, which a
`Restart` empties.  `silent` (history) holds the modules the last poll could not
read.  `Mirror` is the abstract specification: things change, copies catch up and
never go back; `Rows` instantiates it with the channels and their rows.

### NetatmoTokens

Tokens are numbered as Netatmo issues them; the refresh token is good for one use,
so only the last (`issued`) can be refreshed.  `poll` is `refreshNetatmo`: which
request it makes, with which token, at which step (the token is read again for
each request).  `Exchange` and `SaveExchanged` are the callback of an
authorisation, `SaveExchangedFails` the one whose token could not be stored.
`overtaken` (history) says that an authorisation was stored since the loop last read
or stored a token, `lost` (history) that an answer, a write, a crash or the race
of the two writers lost the token Netatmo would refresh.

Definitions ending in a word such as `Unmarked`, `Unsaved` or `Closed`, next to
an action of a longer body and used by no next-state relation, are the plausible
bugs that `PROJECT.json` lists as mutants.

## 4. Runs

| Run | Instance | What it shows |
|---|---|---|
| `engine` | 2 API launches and a scheduled one of one scene, 2 process starts, a stop that may give up on a handler, fairness | entries are live executions; outside the windows, and but for a write that failed, the last order wins, its issue is the one recorded, and no *running* is left without an execution, across crashes and sweeps; `Run` returns, after the executions, but for one handler at most; each launch let through ends |
| `engine_last_order` | 4 launches of one process | the finding of section 7 |
| `execution` | 3 steps, 3 devices: one slow, one refusing; with fairness | counts, verdict, history, order of the steps, silence after the return, which always comes |
| `scheduler_due` | 2 scenes, instants {2, 4}, 5 ticks, 2 disturbances | at most once; missed occurrences caught up by the loop and by a start, but for a reload or a failed read |
| `scheduler_progress` | the same without suspend nor failures, fair | an instant ahead of the cursor is dealt with |
| `schedule_search` | one or two of eleven schedules, every hour of nine days | the searches find the first and the last instant, under stated conditions, and a walk leaves none out |
| `hue` | 2 parts, 3 changes, 2 faults | a quiet system shows the light as it is, and catches up by itself, but for `exposed` |
| `tahoma` | 2 states, 2 listeners tolerated, 2 changes, 2 faults, 1 restart | the same for the states a row has; no listener leaks; a listener is found again |
| `shelly` | 2 modules, 2 switches, 2 faults | silent modules are shown so, the others catch up while their neighbours fail; the rows implement `Mirror` |
| `tokens` | 2 authorisations, 2 expiries, 2 readings, 2 faults | access is kept, a request goes out with the stored token unless an authorisation overtook it, the loop ends healthy |
| `editor` | 4 devices, drafts of 2 steps, 3 commands, 2 requests at a time, 3 moves | the preview tells the targets of the draft, the warning of a relay comes when it must, what is recorded is known to `Resolve`, a dialog that closes has recorded what it shows |
| `library` | 2 scenes at first, 2 descriptions, 2 requests at a time, 3 events | positions are distinct, a copy that followed shows the server's list, only an order changes the order |

**Bounds, and why they are enough.**

* *Launches.*  Every window is between two launches of one scene; a third covers
  the relaunch of a relaunch, and the scheduler's launch, which `Run` makes itself.
  The token is reused after a chain of four (two overlapping, the second ends, a
  third takes token 1, a fourth no longer finds an entry), which the violation run
  has.  Scenes share only the mutex and the process, so one scene suffices for the
  properties of a scene; the proofs cover any number.
* *`Outcome`* is {success, failed}: the engine copies the issue of an execution
  and never tests it beyond its being empty.
* *`MaxBoots`* bounds process starts: two show a state left by a crash read by
  the next start.  Restart `n + 1` sees nothing of `n - 1` but the table.
* *`Evening`* drives the lamp on both sides of a wait, so that a retry of the
  first step can meet the last; the slow shutter and the refusing heater share a
  step with it.
* *`MaxTime`, `Grace`, `Floor`, `MaxSleep`, `MaxDisturbances`.*  The window (5
  minutes), the second `Run` goes back and the hour it sleeps at most become 2, 1
  and 3 ticks: only their order matters, and instants lie two ticks apart, so
  that an instant may be within the window, at its edge and past it, with the
  next one due meanwhile, and the sleep may end early.  Two disturbances suffice
  for a reload that meets a suspend, or a launch by hand before a restart.  (The
  code's second is shorter than any gap between two instants, which are whole
  minutes.)
* *Hours instead of minutes* in `ScheduleNext`: offsets (3 hours) and changes of
  hour (1 hour) are whole numbers of the unit.  The two changes of hour and a
  polar day are brought within nine days; eight more on each side hold every day
  a search may reach.
* *Changes and faults* (`hue`, `tahoma`, `shelly`, `tokens`).  Two changes make an
  older value and a newer one; two faults let a second one hit what makes up for
  the first (a cut during the inventory a cut asked for, a crash after a lost
  answer).  Two parts, so that an event may carry one and not the other; two
  modules, so that one fails while the other answers; two listeners, so that one
  orphan leaves room and two do not; two authorisations, so that one may cross the
  other's rotation.  One case of `tahoma` takes a third change, an event older than
  the inventory about a state that a later event has removed from the row; the
  theorem covers it, and the run with `MaxChanges = 3` agrees, in three minutes.
* *Moves, events and requests* (`editor`, `library`).  Two requests under way are what it
  takes for answers to cross, or for a form to be submitted twice; three moves hold an
  opening and two edits, or an edit and a change elsewhere, each of them before or
  after a preview or a Save, three events hold two requests and a change elsewhere.
  The relay is first in the room of one of the two descriptions (`FirstRooms`); it
  reaches the other by an event.

Deadlock is checked in `hue`, `shelly` and `tokens`, whose loops never stop.
`CHECK_DEADLOCK FALSE` elsewhere: an execution ends, a launch is made once, the
clock, the moves and the number of starts are bounded, so those instances stop.

**Fairness.**  Weak, on the steps of goroutines and of `Run`, which the Go
runtime schedules; on the failure or the answer of a call, which the clients'
timeouts guarantee; on the clock.  Never on a request, an edit, a launch, a
stop, a crash, a restart, or on a box obeying.  In `engine` weak fairness
is on each goroutine: the mutex of Go is handed over in the end, and the instances have a finite number of launches to compete for it.

For the loops of the poller: each goes on while the process is up (`Progress` and
`Inventory`, `EventLoop`, `Poll`, `Loop`).  In `HueSync` the watchdog fires, the
stream is opened again after its backoff and a nudge is served; the ticker of
fifteen minutes is left out of the fairness on purpose, so that `CatchesUp` is
about the nudges and not about what the ticker alone repairs.  In `ShellyPoll` the
ticker is what runs the poll, the only source without events.  In
`TahomaListener` the box recycles the listeners nobody polls, which is what a
process that was refused one counts on.  In `NetatmoTokens` an accepted
authorisation is saved, unless that fails; nobody has to authorise.  No fairness on a module
that comes back or a link that recovers; a request goes wrong only by a fault,
and faults are bounded, so that each behaviour has a last one.

**Assumptions on the environment.**  An identifier of scene is never reused
(`AUTOINCREMENT`).  The wall clock never goes back.  A box does not carry out a
command after its caller gave up on the call.  A wait is of one minute at least
(`validate.go`), and a retry starts after thirty seconds, so that a retry of an
earlier step is over after a wait unless its box takes up to thirty seconds to
fail, as TaHoma's may (`Slow`): `StepsInOrder` excludes these.

## 5. Proofs

Eight modules hold theorems.  The assumptions on the constants are those named in
the modules (`SceneEngineAssumption`, `SceneSchedulerAssumption`,
`SceneExecutionAssumption`: sets, sequences and naturals; `OutcomeAssumption`:
*interrupted* and *running* are not outcomes of an execution; `PartAssumption`: a
light can be turned on; `ScheduleNextAssumption`: days follow each other and begin
one after the other, hours and offsets are numbers; `SceneEditorAssumption`: each
device has an id of its own, the primary key of its table, and the scene recorded
at first had been validated, a trimmed name has nothing left to trim;
`SceneTabsAssumption`: names are ranked, some scene can be described), which TLC evaluates in each run of their module.  Three theorems,
`FirstAhead`, `LastBehind` and `WalkIsComplete`, have a hypothesis of their own,
given below.  Nothing is assumed of the bounds: the
theorems hold for any number of launches, changes, faults and restarts.  Each
follows one pattern: an invariant stronger than what is claimed, one lemma that the
initial states satisfy it, one that each action keeps it, and the temporal step.

**`SceneEngineProofs`.**  `TypeCorrect`, `EntriesAreLive`,
`LastOrderWinsOutsideWindows`, `RunningIsBackedOutsideWindows`,
`IssueOfLatestOutsideWindows`.  None of the last three is inductive.  The
invariant proved is

    IInv == TypeOK /\ MutexInv /\ EntryIsLive /\ CancelInv
            /\ \A s \in Scenes \ raced : OrderlyScene(s)

`MutexInv`: the only launch inside the critical section holds the mutex.
`CancelInv`: only registered executions are cancelled, and one that returned no
issue has its context done.  `OrderlyScene(s)` ties the entry of a scene to the
last launch registered: as long as no window was crossed, the entry, when there
is one, is that launch and its token is the greatest of the live ones, so that
`finish` tells it from the superseded ones; when there is none, either nothing
goes on or the issue is being written.  `EntriesAreLive` needs no `raced`:
even when a token is reused, what is deleted is an entry, never made to point at
something over.  One lemma per action that disturbs `OrderlyScene`, a frame lemma
for the others.

The scenes of `unwritten` are left out of what is claimed, not of the invariant:
a failed write changes neither the entry nor the executions, and `OrderlyScene` says
what the table has only for the others.

`StopWaitsForExecutions` has an invariant of its own, `Drained`: once the context
is done a launch that is not yet inside the critical section is refused, so that
only the one that was inside when it was cancelled can still enter `e.wg`; the
scheduler's launch is over when `Run` returns, since `Run` makes it itself before it
waits.  No hypothesis is made on `srv.Shutdown`, which gives up on a handler after
ten seconds (main.go:147): the one execution this may leave behind is named.

**`SceneSchedulerProofs`.**  `TypeCorrect`, `LaunchedAtMostOnce`,
`MissedIsCaughtUp`.  At most once rests on two different facts.
Inside a process, the cursor: what was launched is behind it (or is the instant
being launched, with its remaining scenes in `plan`).  Across a restart,
`last_run_at`: an occurrence that was launched has a scene whose last run is at
its instant or later, unless the launch could not be noted.  The invariant is

    IInv == TypeOK /\ RunsArePast /\ SleepsAhead /\ FiresDue /\ PlansAreDue
            /\ PlansAreNew /\ LaunchesAreTraced /\ AtMostOnce

`MissedIsCaughtUp` needs three more parts, the converse ones.  `Foreseen`: from the
time `nextDue` has answered, no instant ahead of the cursor is before `next`, but
those of the scenes edited since, and the scenes of `next` are in `due`, so that
moving the cursor to `next` jumps over nothing.  `NoneForgotten`: once awake,
unless it is too late, each of those scenes is planned, launched, or could not be
read.  `CatchingUp`: during a start the last instant of each scene, when it is
within the window and was not run since, is planned, launched, or could not be
read; a start that ends has nothing left in its plan.

The same module has the searches of `ScheduleNext`: `FirstAhead`, `LastBehind`,
`WalkIsComplete`, for any calendar, any changes of hour, any hours of the sun and
any schedules.  The state only keeps the scene and where the search starts
(`WalkInv`); the work is in the searches.  `NextOf`: the least day found among nine
has the least of *all* the instants ahead, because a later day has a later instant
and the ninth day cannot be reached without meeting one.  `PrevOf`: the same
backwards, with instants carried past midnight.  `FirstOfAll` and `LastOfAll`: the
first of the firsts is the first.  `NoneBetween`: an instant of a schedule falls on
its day or the day after at the latest, so that the search that starts there starts
no later than the day of the next one.  `FirstAhead` assumes `Recurring` (a schedule
of every Monday does fall due within eight days; one at sunrise under a polar night
does not, and `Next` gives up on it), `WalkIsComplete` assumes `InOrder`,
`LastBehind` both; `MCScheduleNext` has TLC evaluate both for each schedule of the
run.  That a set of numbers with a bound has a least element comes from the naturals
being well founded (`WFMin`), since the induction theorems cannot be used.

**`SceneExecutionProofs`.**  `TypeCorrect`, `NothingOnceDone`, `HistoryComplete`,
`SuccessComplete`.  What a verdict says is about commands that were sent long
before, so the invariant follows each of them: `Followed` (a command owed was
acknowledged, is being attempted, or is still among the targets to drive, as long
as nothing was counted as failed), `Carried` (an attempt that succeeds was obeyed),
`Traced` (what a box obeyed is in the history, or its line could not be written, or
its attempt is not over), `Quiet` (targets are left only inside an action, and
no attempt once done), `Judged` (a success has no failure).

`CountsAgree` and `InOrder` rest on a second invariant, `OInv`, which has this one
as a part.  A count goes wrong when two attempts of one command go on at once:
`Apart` (a command has one attempt, in progress or to come), `Reading` (attempts
and targets are of commands owed, by the steps read), `Finite` (cardinalities add
up).  The order goes wrong when a retry of an earlier step comes after what a later
step did: `Fresh` (no wait lies between the step of an attempt and the one in
progress, but on a slow box), `Past` and `Onward` (what a device carried out last
is not of a step after the one in progress, nor, when waits separate its steps,
after that of an attempt in progress).

**`NetatmoTokensProofs`.**  `TypeCorrect`, `AccessKept`, `StoredBeforeUse`.  Two
writers save tokens without knowing of each other; what makes it work is the
order in which Netatmo issues them.  `Ordered`: what is stored and what the loop
holds are no newer than `issued`, an authorisation in progress is the last one
and newer than both.  `Held`: until `lost`, the last token is stored or in the
hands of a writer about to save it.  Unless an authorisation overtook the loop, what
it is about to use is what is stored, which is what `StoredBeforeUse` says.

**`ShellyPollProofs`.**  `TypeCorrect`, `SilentIsUnreachable`, `RowsAreMirrors`.
`Between`: what was read of a module lies between its row and its channel, which
makes a write go forward only; each step of the poll is then a step of `Mirror` or
leaves its variables alone.  `Followed`: a module the client has met is, during a
poll, to be asked, read, to be marked, or marked.

**`TahomaListenerProofs`.**  `TypeCorrect`, `ListenersAreReleased`,
`AccurateWhenQuiet`.  A listener is registered only when none is held
(`pc = "register" => id = 0`), identifiers are never given again, and an orphan is
not the listener in use.  For the row, what has to be followed is the last value of
each state, as long as nothing exposes it:

    AInv == IInv /\ Queued /\ Bounded /\ NewestQueued /\ SeenOrTold /\ AheadLast /\ RowOrTold

`Bounded`: nothing is newer than the device.  `NewestQueued`: in the queue of
events an older value of a state is followed by its last one.  `SeenOrTold`: while
an inventory is about to be written, it has the last value of a state, or an event
on its way does, or the row is already ahead of it, which will be noticed;
`AheadLast`: the events ahead of an inventory are the last of the queue.
`RowOrTold`: outside an inventory, the row has the last value, or an event does.
The first attempt at this proof failed for a good reason: an event older than the
inventory, applied after it, replaced the whole row by an older value, without
the history saying so (section 7).

**`HueSyncProofs`.**  `AccurateWhenQuiet`: the same argument, with a merge
where TaHoma replaces.  `NewestSent` and `NewestMerging`: the last event of a part
tells its last value, whether it is still in the stream or being merged.
`PartsHeld`, `LightSeen` and `LinkHeld`: as long as nothing was missed, the last
value of each part and the link are on their way, in the row, or in an inventory
about to be written.  What was missed is `Missed`: a cut, a nudge not yet served, an
event of another kind, each of which is followed by an inventory.

**`ScenePagesProofs`.**  Three parts.

*Resolution.*  `ResolveIsExact`: for any action and any devices, the loops of
`Resolve` yield what `Exact` says without loops.  Induction over lists has to go
another way round than by the library's theorems, which take an operator: a
recursive function has a course (`LoopIs`), and what holds at first and is kept by
each turn holds after all of them (`UpTo`), or there would be a first turn after
which it does not.  `OfRoomIs`, `DesignatedIs` and `AllConsidered` follow each
loop this way; what the last keeps is `Sorted`: what was seen is told once, as a
target or as set aside, by its reason.

*The editor.*  `PreviewTells`, `RelaysAnnounced`, `RecordedKnown`,
`ClosedRecorded`.  The invariant is

    EInv == Types /\ Previewed /\ SavesDraft /\ Recorded

`Previewed`: unless the timer is armed, the last request asked for has the steps of
the draft but for the numbers of its fields, which no resolution reads, and so has
the preview when it shows that request; it is the numbers of the requests, not the
order of the answers, that tell the preview to keep.  `SavesDraft`: each *Save* under
way, be there one or two, carries what `toSpec` makes of the draft, or left it in the
store, as long as nothing crossed it.  `Recorded`: what is in the table was accepted
by `Validate`.  What `toSpec` changes is invisible to what is claimed: `SentSame` (the
steps sent have the targets and the action of those of the draft), `ToSpecIs` (it
keeps the fields each kind has, and is a list of steps and of schedules).
`RelaysAreDriven`: the loops of `touchesRelays` find a relay exactly when
`DrivesRelay` does.

*The list.*  `PositionsDistinct`, `KnownCopy`, `OrderKept`.  A copy is true
because of what the database *was* when each answer was read, which no variable
remembers.  The invariant says that a history exists:

    TInv == TabsTypes /\ list \in Seq(Entry) /\ PositionsAreDistinct
            /\ \E tables, relays : Explained(tables, relays)

where `tables[k]` and `relays[k]` are what version `k` was.  The copy tells the
version it is known to show (`TrueOf`); the answer of a request tells the version
it read, its relays as they were then or since, because the devices are read last
(`Traced`); and what a request wrote is the one change between two versions
(`WroteOnce`), which is what the page repeats on its copy: added last, replaced,
or removed.  TLC agreed to this invariant with the history kept in a variable
before it was proved.  A list sorted by rank is the only one whose scenes come one
after the other: when every scene has a position, the copy, whose scenes are those
of the database and in the order of their positions, is therefore the list itself.

**Model-checked only.**  Liveness (`StopReturns`, `LaunchEnds`, `Terminates`,
`DueIsProcessed`, `CatchesUp`, `ListenerIsRestored`, `EndsHealthy`), which is out
of the prover's reach.  Every other property that a passing run checks is a theorem.

## 6. What is not modelled

`PROJECT.json` gives the reason for each component.  Planned: section 2.  Left
out for good: the conversion of colours and the ephemeris (floating point), TLS
pinning and digest authentication (cryptography), configuration and migrations
(sequential, run once, with tests), the pairing of a Hue bridge (a loop around a
button), the embedded web server, the presentation.  The order of the rooms and
the daily purge of the histories are single transactions that nothing else
writes; the listings read one snapshot and change nothing.

Within the modelled parts:

* The button of the dashboard and the switch of a schedule, which `toSpec` copies,
  are left out of `SceneEditor`, and the *running* status of the scenes out of
  `SceneTabs`.
* `Describe` and the listings are inside the reads of `SceneTabs`; error messages
  and logs are left out.
* `ListDevices` failing in an execution is, as in the code, a step skipped and
  counted nowhere (`Skip`), which `SuccessIsComplete` leaves out by speaking of
  the steps that were read.
* A TaHoma device has no reachability in `TahomaListener`, and a Shelly module one
  channel: its channels are written and marked together.
* Each device has a row of its own and each loop treats them alike, so one light
  and one TaHoma device are modelled; what relates two devices is the batch of an
  inventory, one transaction.
* The stop of the poller is in `TahomaListener`, where it has something to
  release; `SceneEngine` has the stop of the engine and of the server.

## 7. Findings

One run is violated, against a sentence of the repository.

| Run | The code | The sentence |
|---|---|---|
| `engine_last_order` | tokens restart at 1 once the entry is gone: a superseded execution that ends late bears the token of a newer one and deletes its entry; a relaunch then cancels nothing and two executions go on | "relancer une scène en cours annule l'exécution précédente — le dernier ordre donné l'emporte" (engine.go:5-6) |

Disagreements also met while modelling, without a run of their own: the
properties concerned name most of them as exceptions (a history variable, or an
*unless*), so that the runs show nothing else breaks the property.

* `StartSceneRun` and `FinishSceneRun` are outside the mutex (engine.go:232, 271):
  a superseded launch may write *running* after the issue of its relaunch, against
  "la relance écrira sa propre issue" (engine.go:262).  Exception: `raced`.
* The context is published before the table is swept (engine.go:99): an API launch
  in between is marked *interrupted* while it runs, against "Appelée au démarrage,
  avant tout lancement" (store/scenes.go:187).  Exception: `RunningIsBackedUnlessRaced`.
* After a suspend, a reload moves the cursor to one second ago, past an instant the
  late timer has not served (engine.go:131), against "manquée de moins de cinq
  minutes (redémarrage, mise en veille), elle est rattrapée" (engine.go:27).
  Exception: `MissedIsCaughtUpUnlessReload`.
* `catchUp` does not know when a schedule was written (engine.go:202): a scene given
  an hour just past is launched by a restart, against "le service était arrêté à ce
  moment-là" (engine.go:178).
* `Next` starts from the civil day of the cursor (schedule.go:71) and misses an
  instant carried over from the day before, against "le prochain déclenchement
  strictement postérieur à after" (schedule.go:68).  Exception: the condition of
  `NextIsFirstWithinDays`.
* When the Hue stream is cut, the inventory is asked for before the stream is open
  again (poller.go:404): what changes in between waits for the quarter of an hour.
  Exception: `exposed`.
* `applyEvents` replaces the whole state of a TaHoma device by what one event
  carries (poller.go:309, store/devices.go:134): the other states leave the row
  until the next inventory.  Exception: `QuietIsAccurate` speaks of the states a
  row has.
* An event fetched before an inventory is written and applied after it
  (poller.go:309) puts older values back over those of the inventory.  Exception:
  `exposed`.
* The TaHoma inventory serves "à détecter les ajouts, suppressions et renommages"
  (poller.go:231), and `UpsertDevices` never deletes a row (store/devices.go:95): a device that is gone stays shown.
* A new scene does not come last when some scene has no position
  (store/scenes.go:109): it is then the only one ranked, or among them.
  Exception: the condition of `OrderIsKept`.
* The loop may save the token of its refresh over the one of an authorisation that
  ended meanwhile (tokensource.go:46, client.go:71).  Exception: `lost`.
* The answer to *Save* closes whatever the editor shows by then
  (scene-editor.ts:214): an edit made while waiting is lost.  Exception: `crossed`.
* The form of the editor can be submitted again while it is being recorded
  (scene-editor.html:9): a new scene is then created twice.  No property tells.
* Failures that are logged and lost: the issue of an execution (engine.go:271,
  exception `unwritten`), a line of history (control.go:120, `unrecorded`), the
  launch of a scene that cannot be read (engine.go:144, `dropped`), an event of Hue
  or of TaHoma (hue/events.go:114, poller.go:316, 465 and 482, `exposed`).  The
  repository says so of the second (control.go:98) and of the unreadable Hue message
  (hue/events.go:118).
* "Relire périodiquement cette vue" (devices.store.ts:11): `refresh` is called when
  the application opens, by its button and after a command, by no timer.
