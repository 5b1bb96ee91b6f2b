# VentoPanel in TLA+

VentoPanel is a hosting panel: a Go API with its background workers, PostgreSQL
and Redis, that manages servers over SSH and deploys sites to them, and a Next.js
frontend. These modules specify the concurrent core of the backend and the pages of
the frontend that have something to get wrong; the TLC configurations check them on
small instances, and the `*_proofs` modules prove every safety property that a run checks,
for every value of the constants. Sources are named relative to the repository's root.

    tlc -workers 2 -config SiteDeploy_runs.cfg SiteDeploy.tla
    tlc -workers 2 -config MCPages.cfg MCPages.tla
    tlapm SiteDeploy_proofs.tla

## The system

One process (`cmd/api/main.go`) runs the HTTP API, ten Asynq workers and three
schedulers. All lasting state is in PostgreSQL and Redis; whole rows are read,
worked with for minutes, and written back by a single `UPDATE ... WHERE id`, with
no version column and no transaction around the work.

| component | state | operations | what is hard | what makes it correct |
|---|---|---|---|---|
| lifecycle tables (`internal/domain/lifecycle`) | none | `Ensure*Transition` | who judges which status | only moves of the table |
| site deploys (`service/deploy`, `worker`) | `sites` row, task log, Redis lock, Asynq task | enqueue, execute | parallel runs, crash and redelivery, failing writes, operator edits | one run at a time, lawful moves, truthful logs, no lost edit, nothing stuck |
| certificate issue (`service/ssl`) | `sites` row, its own lock and task ID | enqueue, execute | overlaps deploys | never replaces a deploy's outcome unnoticed |
| provisioning (`service/provision`) | `servers` row, lock, task ID | enqueue, execute | overlaps renewal, connect, edits | ready means installed; not stuck |
| connection test, server CRUD (`service/server`) | `servers` row, status events | connect, update, delete | no lock | writes only what is its own |
| renewal (`service/ssl`) | `servers` row, counters | daily batch, execute | batch stops at an error; stale copies | writes only the renewal columns |
| status events (`repository/postgres/status_event_repository.go`) | append-only table | write, list by cursor | written after the row | the events lead to the status |
| SSH pool (`internal/filemanager/pool.go`) | map of entries with a mutex and a connection each | get, invalidate | invalidation during use, leaks, streams that share | what Get found stands; calls return |
| metrics and log streams (`transport/http`) | retry counter, line count | sample or poll until the client leaves | reconnecting, lost or repeated lines | ends or recovers |
| uptime monitor (`service/uptime`) | check rows, streaks and incidents in memory | check cycle, prune | restarts, changing settings, failed queries | alerts confirmed and alternating; outages reported |
| backup (`service/backup`) | archives on disk | run, list, prune | two runs at once, no snapshot | every finished run leaves its archive |
| terminal (`transport/http/terminal_handler.go`) | websocket, SSH session, two goroutines | copy both ways | who waits for whom at the end | the handler ends |
| rekey (`cmd/rekey`) | encrypted columns | one pass over the rows | interruption, a live panel | every row readable with the new key |
| users, teams, settings, env, tokens, domains, nginx, files, dashboard | rows, remote files | single statements | little | |
| live pages (`frontend/app/(dashboard)/logs`, `monitor`, `sites/[id]`, `terminal`) | selection, light, a connection, retry counter and timer | start, stop, select, reconnect, leave | requests and timers that come back after a stop or a departure | one stream per page, no light without a source (but the terminal's), an end when nothing answers |
| query panels (the lists, cards and tables of `frontend/app` and `components`) | the cache of query answers | operations, polls, refresh | answers read before a write and delivered after it | what the user was told of is shown |
| forms and editors (settings, backup schedule, dialogs, vhost and file editor) | the draft | open, type, save, close | effects that fill a form again; tables that take their dialog with them; saving what was never loaded | typed text goes in the named cases only; nothing saved blind |
| file manager page (`frontend/app/(dashboard)/files/page.tsx`) | directory and server in the URL, ticks, dialog, listings | navigate, tick, ask, confirm | state that outlives a change of the URL | acts on what was listed; lists what it was told |
| browser session (`frontend/lib/api.ts`, `app/login`, layout, two-factor section) | the token in `localStorage`, the tab's cache, two-factor of the user | sign in and out, requests, setup and codes | tabs that share the token, browsers that share the user; late answers and refusals | settles on the user who is signed in; the badge is true unless a named event led it astray |

How they interact: HTTP handlers and the webhook queue tasks in Asynq; workers
execute them under Redis locks, run remote commands through
`internal/infra/ssh`, and write rows, logs and status events; deploys queue the
certificate job; deploys require a provisioned server; the monitor reads the site
rows; streams and the file manager share the pool. The frontend calls the API with
the stored token, holds its event streams open, and learns of the workers' writes by
polling.

## Modules

| module | models | state, and where it is in the code |
|---|---|---|
| `Lifecycle` | `lifecycle/status.go` | the two tables as sets of pairs |
| `SerialDeploys` | abstract: what deploys promise of one site's status | |
| `SiteDeploy` | `EnqueueDeploy`, `ExecuteDeploy`, the deploy handler, PUT and DELETE of the site | `site` the row, `lock` the key `lock:site:deploy:<id>`, `task`/`tries` Asynq's task, `pc`/`snap`/`ret` the locals of a run, `log` the task log |
| `SitePipeline` | `SiteDeploy` with `ExecuteIssue` | `issueLock`, `issueTask`, `issueCopy`, ... the same for the certificate job |
| `ServerOps` | `ExecuteProvision`, `ExecuteRenew`, `Connect`, PUT and DELETE of the server | `server` the row, per job `lock`, `task`, `tries`, `pc`, `copy`, `event`; `trail` the status events |
| `SSHPool` | `SSHPool.Get`, `Invalidate`, the loops of the metrics and log handlers | `slot` the map, `holder` the mutexes, `conn` and `state` the connections, `using` and `errors` the handlers' locals |
| `Uptime` | `CheckAll`, `checkSite`, `Prune` | `checks` the rows, `failStreak`, `okStreak`, `incident` the `siteNotifyState`, `cfg` the cycle's settings |
| `LiveStreams` | the log viewer, the monitor, the container log of a site, the web terminal | `view` the page, `pre` its preflights, `open`/`dest`/`ref` the connections and `esRef`, `abortRef` or `wsRef`, `retry`, `timer`, `lost` the reconnects, `light` what the page says |
| `QueryCache` | what the pages rely on of the query library, as operators on one entry | `data`, `flight`, `got`, `fresh`, `failed` of an entry |
| `Panels` | 32 operations on the panels that show a query: what each invalidates, what is polled | `panel` the one on screen, `entry` its query, `muts` the operations under way |
| `Drafts` | seven forms and editors | `draft` the form's state, `query` or `clicked` the row it is filled from, `saves` |
| `FilesPage` | the file manager page | `here` the URL, `listing` the queries, `ticked`, `dialog`, `captured`, `reqs` |
| `Session` | login, second step, logout, `apiFetch`, layout guard, two-factor section | `stash` the stored token, `issued`/`dead` the tokens, `attempt` the request of the login page, `seen` the cache, `calls` the requests of the section (sent, handled, answered), `badge` and `step` what it shows, `totp` the column |
| `MCPages` | the frontend's five modules, for TLC | `part` the one that a behaviour is about; it never changes |
| `MCServerOps`, `MCSitePipeline`, `MCUptime` | constants and symmetry for TLC | |
| `SiteDeploy_proofs`, `SitePipeline_proofs`, `ServerOps_proofs`, `SSHPool_proofs`, `Uptime_proofs`, `LiveStreams_proofs`, `Session_proofs` | theorems and proofs about the module of that name | |
| `Queries_proofs` | the same about `Panels`, `Drafts` and `FilesPage` | |

`SitePipeline` extends `SiteDeploy`: it adds the certificate job's variables and
conjoins to every deploy step what the job's copy sees of it.

A job is one action per call to PostgreSQL, Redis or the remote machine, since a
crash, a failing call or another actor can come between any two; code between two
calls belongs to the action of the first. The error branches of a call are
disjuncts of its action. `CallFails` lets a call fail because of the state (a row
that is gone, a move the table lacks), or by a fault, of which there are at most
`MaxFaults`. What follows a write without changing modelled state (notification
texts, metrics) is left out. Operators marked *Mutant* are not part of any
specification: each is a plausible defect of the action after it, and shows that
the property it is meant for is able to fail.

In the frontend an action is one handler up to its first `await`, one answer, one
timer or one callback: the browser runs them one at a time, and what varies is their
order. `QueryCache` is modelled from how the pages use the library and what
`components/providers.tsx` sets: an invalidation replaces a request that is under way,
a poll joins it, an equal answer keeps its identity, so that effects do not run. Texts,
names and tokens are numbers or members of small sets; a text that was typed is never
equal to another.

History variables, which the code does not have: `stale` (someone else wrote the
row since this run read it), `edits`, `faults`, `crashes` (which also bound), `gap`
and `trail` in `ServerOps`, `misses` in `SSHPool`, `sent` and `fresh` in `Uptime`, `owed`
in `Panels`, `based` and `lists` in `Drafts`, `told` in `FilesPage`, `astray` in `Session`.

## What is assumed of the environment

* PostgreSQL and Redis execute each statement atomically; a failing call has no
  effect. (Not modelled: a statement that took effect although its answer was lost.)
* Asynq delivers a queued task to one worker at a time, retries an error until
  `MaxRetry`, archives what has failed for good or returned `SkipRetry`, and after
  the death of the process delivers the task again. It may charge a retry for
  that; the models do not, and `MaxCrashes` bounds the difference.
* A shutdown that finds a task running is the same as a crash: the worker returns
  the task to the queue after a grace period and the process ends.
* The lock's TTL ends after its owner is gone. Whether it can end during a run is
  the constant `RunsOutliveLock`. The code does not exclude it (remote commands have
  no time limit), so what needs it to be FALSE says so, and `SiteDeploy_overlap`
  shows what happens otherwise.

## Runs

| run | instance | shows |
|---|---|---|
| `SiteDeploy_runs` | 2 tasks, 1 retry each, 1 operator write, 1 fault, 1 crash, fair | the safety of deploys and `ImplementsSerialDeploys`; tasks settle, the lock comes free, no run silently leaves the site deploying that it marked so (424 thousand states) |
| `SitePipeline_safety` | 2 deploys, the issue job with a retry, 1 edit, 1 fault, 1 crash (3.1 million) | what two writers under two locks keep |
| `ServerOps_safety` | provision, renew, 1 connect, 1 edit, 1 fault, 1 crash (4 million) | readiness, own columns, audit trail |
| `ServerOps_liveness` | provision with a retry, renew, 1 connect, 1 fault, 1 crash, fair (865 thousand) | not stuck provisioning; task IDs come free |
| `SSHPool_sharing` | 1 metrics stream, 1 log tail, 2 troubles, outages, fair | the pool under its users |
| `Uptime_alerts` | thresholds on both sides of `ClampInt`'s limits, 3 settings, 1 restart, 1 fault, fair | alerts |
| `MCPages` | see below (1.1 million) | each part of the frontend: one stream per page that ends when nothing answers, answers that catch up, drafts lost in three named cases only and never saved blind, file requests on listed items, a session that settles, a true badge |
| `SiteDeploy_overlap` | 2 tasks, runs may outlive the lock | **violated**: runs overlap |
| `SiteDeploy_alert` | 1 task, 1 crash | **violated**: an alert of a deploy that never happened |
| `SitePipeline_lifecycle` | 1 deploy and the issue job, nothing failing but certbot and the build | **violated**: deploy_failed becomes deployed |
| `SSHPool_pingpong` | 2 metrics streams, 1 cut | **violated**: the streams reconnect without limit |
| `LiveStreams_unmount` | the log viewer, 1 server, fair | **violated**: a stream is opened after the page was left |

Why the bounds are enough. Two deploys are the fewest that overlap, and the lock
does not tell a third from the second; a retry brings the first back after the
second. One fault with one crash covers each return path in each context; with two
faults a write of the outcome and the retry can both fail, which the liveness
properties exclude by name (the task is archived). One edit makes an old copy differ
from the row. A site's form carries every status of the table, since it sends the one it
was opened with; a server's carries, in `ServerOps_safety`, the status a server starts with,
the one that a provisioning run is in and the one that it ends in. For the pool, names of entries and
connections are reused as soon as nobody refers to them; there is one entry per
client and a spare one, and at least two more connections than twice the clients, which the
assumption states and `FreshEntry` and `FreshConn` need. In `Uptime` a streak beyond the
largest threshold is not told from a longer one, and rows are pruned after every
insert, which is the earliest that the daily prune can be.

`MCPages`. The five parts share no variable, and `part`, chosen at first and never changed,
says which of them a behaviour is about; the others rest in an initial state. It is five
checks in one, each under the fairness that its own module states, and says nothing of how
pages follow one another: a page that is left and come back to is in its own module
(`Leave` and `Return` of `Panels`, `CloseForm` and `Opening` of `Drafts`, `Link` and `Load`
of `Session`). The bounds are: streams, 2 servers (a switch), 2 connections (a second
stream, should there be one), 1 reconnect before giving up, 3 acts, 2 changes of the world
(away and back); panels, all of them, 2 operations and 1 upset (a poll between two writes, a
failure, a worker, a departure); drafts, all forms, 3 texts (the stored one, the user's,
another's), 2 saves, 2 visits, 1 mishap; files, 2 directories of one server and one of
another, 2 names, all six requests, 1 at a time, 1 change of the URL or failure; session, 2
users, one with two-factor, 2 tokens, 3 requests of the section (setup, a code that enables,
one that disables), 1 miss (a poll that is lost, a page loaded by hand, two-factor
changed elsewhere). `SessionBound` cuts behaviours that have gone astray, which the badge's
property no longer looks at: they go on with one request of the section or miss at most.

`CHECK_DEADLOCK FALSE`: a system whose tasks are all settled and whose operator has
used up the bounds stops, rightly; a page that nobody touches does too.

### The five disagreements

* `SiteDeploy_overlap`. `service/deploy/service.go:126`: "the distributed lock
  inside ExecuteDeploy prevents parallel runs". The key lives for 15 minutes, is
  not renewed, and is deleted by whoever finishes first.
* `SiteDeploy_alert`. A held lock makes `ExecuteDeploy` return nil, the handler takes
  nil for a deploy. After a crash the lock held is the dead run's own: the task is
  acknowledged and announced as deployed, the site stays deploying.
* `SitePipeline_lifecycle`. The job validates on its copy: the certificate job
  started while the site was deployed, a deploy failed meanwhile, and the job writes
  deployed over deploy_failed.
* `SSHPool_pingpong`. `metrics_handler.go:50`: "reconnects up to maxMetricRetries
  times". A reconnect resets the counter before any sample was taken over the new
  connection, and invalidating it closes the connection for all streams.
* `LiveStreams_unmount`. `frontend/app/(dashboard)/logs/page.tsx:188`: "Stop stream on
  unmount." The cleanup closes what is open. A preflight that is awaited at that moment
  (lines 172-184) goes on to open a stream, and nobody is left to close it.

## Fairness

`WF(Run(t))`: a worker that is free takes queued tasks, and a run goes on; this
includes that remote commands return, which the code leaves to the remote machine.
`WF(LockExpires)`: Redis removes a key at its TTL. In `SSHPool` a handler goes on
because its ticker fires and its requests return, and `SF` of taking an entry's
mutex is Go's mutex, which hands over to a waiter that starved for a millisecond. In
`Uptime` the ticker fires, and each ping has a timeout of ten seconds. In the
frontend, requests are answered or fail, answers are handled, timers fire,
polls of a page on screen go on (`refetchInterval`), a connection to what does
not answer fails, and the tab loads what `window.location` was set to. No
fairness for operators, users, other tabs, faults, crashes, networks, or the
clients that leave.

## What is proved

For any values of the constants, from the assumption that each module states on them.

**Deploys** (`SiteDeploy_proofs`), all but the first if `~RunsOutliveLock`:

| theorem | states |
|---|---|
| `TypeCorrect` | `Spec => []TypeOK` |
| `MutualExclusion` | `Spec => []OneRunAtATime` |
| `CopiesAreFresh` | `Spec => []CopyIsFresh` |
| `StatusChangesAreLegal` | `Spec => LegalStatusChange` |
| `EditsSurvive` | `Spec => NoLostEdit` |
| `LogIsTruthful` | `Spec => LogTellsTheTruth` |
| `DeploysAreSerial` | `Spec => ImplementsSerialDeploys`, that is `Serial!Spec` |

`OneRunAtATime` is not inductive: it does not say that the key is taken while a run
goes on. `RunOwnsLock`, that a run between acquiring and releasing is the one the
key stands for, is, with `TypeOK`: a run starts only where there is no owner, no step
takes the key from a live owner (a crash ends the runs with it; the TTL, by
assumption, comes too late), and two runs cannot both be the owner. `CopyIsFresh` is
inductive on top of it: the row is written by the owner, whose copy it then is, or by
an operator, who makes every copy stale. A run's write is judged on its copy
(`RowWrites`), the copy is the row, so the move is lawful for the row and the other
columns are the row's own: the two action properties. A run that is about to return
nil holds the outcome in its copy (`OutcomeInCopy`), which is the row: the log tells
the truth. For the refinement, `PhaseOf` and `TouchedBy` are the abstract state as
functions of the runs' steps; since one run at most is between `Load` and its
outcome, they are that run's (`OneSaving`) or those of nobody (`NobodySaving`), and every
step is looked at in turn: `Load` looks, the first save announces, the last concludes, a
failed one or a crash gives up, an operator touches, the others stutter.

**Deploys next to the certificate job** (`SitePipeline_proofs`):

| theorem | states | if `~RunsOutliveLock` |
|---|---|---|
| `PipelineTypeCorrect` | `PipelineSpec => []PipelineTypeOK` | |
| `PipelineMutualExclusion` | `PipelineSpec => []OneRunAtATime` | yes |
| `WritesAreLegal` | `PipelineSpec => LegalUnlessOvertaken` | yes |
| `DeletionIsFinal` | `PipelineSpec => DeletedStaysDeleted` | |
| `SettledIsConcluded` | `PipelineSpec => []QuietMeansConcluded` | |

Every step is a deploy step of which the job's copy takes notice, the death of the
process, or a step of the job (`StepKinds`). For the first kind the lemmas of
`SiteDeploy_proofs` are cited again; what remains is what the job adds. `SharedRow` is
`RunOwnsLock` and `CopyIsFresh` with the same of the job's copy: whoever writes the
row makes the other's copy stale. `DeletionIsFinal` needs no lock: a save of a row
that is gone fails whatever the copy says. `QuietMeansConcluded` is not inductive, as
it says nothing while a task is under way. `OwedIfUntouched` is: a row that says
deploying has a run that is going to conclude it, and such a run holds "deploying"
in its copy, so that its move is lawful. It does not need the lock either: of two runs
that overlap, each that has announced itself concludes. And the job cannot write
"deploying" or stand in the way, since its own moves start from its copy and end in
deployed or ssl_pending. `RunsAreActive` then says that a run belongs to a task that is
not settled.

**The server's jobs** (`ServerOps_proofs`):

| theorem | states | inductive invariant |
|---|---|---|
| `TypeCorrect` | `TypeOK` | with `HoldsLive`: a job that goes on with a row holds one that was there |
| `JobsWriteTheirOwn` | `WritesOwnColumns` | `CopiesMatch`: a copy that will yet be written, and that nobody overtook, equals the row |
| `ReadyIsInstalled` | `ReadyMeansInstalled` | `ReadyIsEarned`: the same of all copies, and a run about to save its success has run all commands |
| `TrailIsTrue` | `TrailLeadsHere` | `Balanced`, with `CopiesMatch` and `EventsLive` |

`TrailLeadsHere` speaks of moments at which no event is owed. In between, a row has
been written whose event is not yet recorded, by several jobs at a time and in another
order. `Balanced` counts both: for each status, the recorded entries less the exits,
plus those of the events that jobs still hold, are what the present and the first status
ask for. A save moves the status and makes an event at once, an event that is recorded
goes from one side of the sum to the other, and what is lost sets `gap`.

**The pool** (`SSHPool_proofs`): `TypeCorrect` (`TypeOK`) and `LockedEntryMine`
(`LockedEntryIsMine`), by `PoolInv`. Its parts: a Get holds the mutex of its entry and
nobody else does (`GetHolds`); no two entries that are referred to store the same
connection (`OwnConns`), so that an Invalidate that closes what a removed entry stored
never closes the connection of the entry in use; a stream's counters stay under the limit
while it runs (`StreamsCount`); who is about to close an entry has one (`CloseHas`).
`FreshEntryIsFree` and `FreshConnIsFree` show by counting that there is always a name that
nobody refers to, so that reusing names loses nothing.

**The monitor** (`Uptime_proofs`):

| theorem | states | inductive invariant |
|---|---|---|
| `TypeCorrect` | `TypeOK` | |
| `AlertsDoAlternate` | `AlertsAlternate` | `FlagMeansAnnounced`: between checks the incident flag says that this process's last alert was "down" |
| `DownAlertsAreConfirmed` | `DownIsConfirmed` | `StreakIsStored`: the latest rows hold as many failures as the streak in memory claims |

**The frontend** (`LiveStreams_proofs`, `Queries_proofs`, `Session_proofs`), each part by its own
specification:

| theorem | states | inductive invariant |
|---|---|---|
| `StreamsTypeCorrect`, `NeverTwoStreams`, `NoDeadLight` | `StreamsTypeOK`, `OneStream`, `LiveHasASource` | `StreamsInv`: the three together |
| `NeverRestsOnTheOld` | `AtRestUpToDate` | `PanelsInv`: an answer on its way was read after the newest write told of, nothing is owed while nothing is shown; rests on `UnpolledRefresh`, a fact about the table of operations |
| `PanelsTypeCorrect` | `PanelsTypeOK` | what the row has been written to, and the operations that may yet write it, number no more than the operations and upsets so far |
| `NothingSavedBlind` | `NoBlindSave` | `DraftsInv`: open dialogs are filled, loading forms with an answer are filled, one without has seen its request fail |
| `TypingIsKept` | `TypedTextStands` | with `FileLoadsOnce`: no answer is on its way to a file's editor once something can be typed; `TextGoes`: a table that is gone has taken what was typed, so that the dialog that comes back loses nothing more |
| `DraftsTypeCorrect` | `DraftsTypeOK` | what a form is filled with was read, typed or never loaded |
| `OnlyListedIsTouched`, `ListingsAreUpToDate` | `OnlyListedItems`, `ListingUpToDate` | `FilesInv`: answers are positions in a history that only grows; the open dialog names what was listed |
| `FilesTypeCorrect` | `FilesTypeOK` | the changes of a directory and the items still to be done are no more than the requests had items |
| `BadgeTellsTheTruth` | `BadgeIsTrue` | `SessionInv`: unless the session went astray, there is one request of the section at most, a code that was accepted has set the column and its token says so, a setup is under way only where two-factor is off, and without such a code the stored token's claim and the badge are the column |
| `SessionTypeCorrect` | `SessionTypeOK` | `RefsOK`: tokens are only added, and what is stored, sent or waited for is one of them |

`PagesTypeOK`, the invariant of the run, is the conjunction of the five type invariants, each of
which is proved of its part.

Two assumptions on constants are there for counting: the handlers that use a pool at a time
are finitely many (`PoolAssumption`), and so are the names of files
(`FilesAssumption`): a file system bounds their length.

### What the properties leave out by name

Some properties hold only up to behaviour that the code does have. Each names it in its
comment:

* `NotStuckDeploying` speaks of a site that a run marked. The form sends the status it
  was opened with (`site-form.tsx:73`) and the service checks nothing: a form that was opened
  during a deploy and is saved after it puts deploying back, and nothing moves the row on. The
  form of the model does so too.
* `LiveHasASource` leaves the terminal out: its badge says "connected" of any server that is
  selected (`terminal/page.tsx:65-71`), also when the socket has closed.
* `TypedTextStands` has three cases in which the code loses what was typed: another row of the
  query that an open form follows (the refetch after its own save can bring one), a change of the
  list of servers under a site's form, and a failed poll of a table, which takes the dialog from
  the screen and fills it anew from the row that was clicked when the next one succeeds
  (`sites-table.tsx:73`).
* `BadgeIsTrue` ends when the session goes `astray`, once in the life of the tab: a request of the
  section sent beside another or with somebody else's token; the section mounted, a page loaded
  or the user signed out during one; a request lost, or a token that could not be issued; a
  switch elsewhere, or a token from before a switch stored by another tab. In each the
  badge can be wrong until the next sign-in. A sign-in is handled by the server when it is
  answered: only a switch in between could tell the two moments apart.
* `HomeSettles` counts it as settled when a late refusal ends a new session or a late code
  restores an old token.
* `DownIsConfirmed` speaks of a monitor whose queries have not failed.
* `WritesOwnColumns` and `ReadyMeansInstalled` speak of copies that nobody overtook, and of
  rows that only jobs wrote.

**Only model-checked**: liveness, which is out of the prover's reach:
`NotStuckDeploying`, `TasksSettle`, `LockComesFree`, `NotStuckProvisioning`,
`IdComesFree`, `CallsReturn`, `LoneStreamRecovers`, `StreamsEndWhenDown`,
`OutageIsReported`, `RecoveryIsReported`, `StreamsGiveUp`, `ReadYourWrites`, `HomeSettles`.

## Not modelled

`PROJECT.json` lists every component with its status and every hazard with its line.

* **Backup service**: archives on disk, named by the second and written by single requests and one
  schedule; the page that asks for them is in `Panels`, its form in `Drafts`.
* **Terminal handler**: two goroutines that copy bytes until a side closes; the browser's
  end is in `LiveStreams`.
* **Rekey tool**: run by hand, once per change of key; what a panel that is still on the old
  key reads and writes beside it is not modelled.
* **Team access, environment variables, domains, tokens, templates** (the server's side): one
  statement per request on rows that nobody else writes. The cards that edit them are in `Panels`.
* **File service and nginx handler**: remote commands, one request at a time, no state in
  the panel. The pages are in `FilesPage`, `Panels` and `Drafts`.
* **Dashboards, audit and observability views, other pages and components**: read-only
  views of one query each, navigation and layout.
* **`RollbackSite` and `RestartContainer` on the server**: they take no lock and write no row that
  a deploy writes; the container they share is on the remote machine, of which the
  panel keeps no state.
* **The renewal batch** and its counters, and **which lines a log poll emits**: a
  loop over rows that stops at its first error, and the counting of lines by `awk`.
* Hashes, signatures, one-time codes, parsing, texts and layout.
