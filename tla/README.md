# Verification of the COGNIT framework

The repository is a fork of OpenNebula with three components of the COGNIT
project on top. This directory holds TLA+ specifications of those components and
of FireEdge, the web console that most of the fork's own code belongs to, the TLC
models that check them on small instances, and TLAPS proofs of the
most important results for all instances. `PROJECT.json` lists the runs, the
mutants that show each property can fail, the source lines behind every
definition, the hazards, the findings and the theorems.

Paths below are relative to `src/src/`.

## The system

```
 device ──HTTP──> cognit-frontend ──INSERT/UPDATE──┐
                   │        │                      v
                   │        └─ oneflow scale ─> FaaS roles      device_cluster_assignment
                   │                              ^                  (one SQLite table)
              documents, clusters                 │                ^          ^
               (OpenNebula)                       │                │          │
                   ^                              │                │          │
                   └──────── cognit-optimizer ────┘── UPDATE ──────┘          │
                                                                              │
              cognit-devices-estimated-load ── UPDATE estimated_load ─────────┘
```

* **cognit-frontend** (FastAPI). A device uploads its application requirements
  (an OpenNebula document) and asks for its edge cluster. The first time, the
  frontend picks the closest matching cluster, scales that cluster's FaaS role
  up by one and inserts a row. Later it answers from the row, unless the
  requirements changed. The handlers are `async def` without an `await`, so one
  request runs at a time.
* **cognit-optimizer** (loop). Reads the table, keeps rows whose document still
  exists, places the devices on clusters with a MILP, scales up, then down, and
  moves the rows of the clusters that were scaled.
* **cognit-devices-estimated-load** (loop). Reads the metrics of the OneFlow
  services, stores CPU sums and forecasts, and writes each device's estimated
  load to the table.

All three delete rows not seen for `DB_CLEANUP_DAYS`. They share no lock:
`_write_lock` belongs to one process, and SQLite only serialises statements. So
a step of one process may fall between any two steps of another; most of this
project is about that. The processes are started by systemd or by control scripts.

* **FireEdge** (`fireedge/`) is a single-page application and the server behind
  it, in four layers:

```
 buttons, dialogs, forms ──> endpoints ──> HTTP ──> router ──> XML-RPC core
   (PageSubmit)              of the slice          (RequestPath)  or a function
        ^                        │                                of the server
        └── isLoading, messages  v
                             cached views <── hook socket
                              (OneApiCache)
```

  A page uses an *endpoint* of the API slice. The endpoint names a *command*; one
  table of commands is read by the browser, which builds the request from it, and
  by the server, which builds its routes and the argument list of the call. The
  answer goes into a cache with a detail view and a list view of each object. The
  cache is kept fresh by tags, by optimistic patches and by events.

## Modules

| Module | Part of the code | State and actions |
|---|---|---|
| `CognitState` | `db_manager.py` (frontend), cluster search | The table (a partial function from device and flavour to row), documents, cluster pool, FaaS cardinalities, the date; the SQL statements as operators |
| `Frontend` | `cognit-frontend/src` | `fe`: the request in service with its locals; one action per shared access of each handler |
| `Optimizer` | `cognit-optimizer/src` | `opt`: the cycle in progress with its locals; `pending`: `_pending_scaledowns` |
| `CognitSystem` | the three processes together | Composition, environment, fairness, properties |
| `AssignmentTable` | what the table promises its readers | The abstract specification of `CognitSystem`: a row is written whole and for a suitable cluster, renewed, or purged when it has expired |
| `CognitClaims` | comments, docstrings, README | What the repository says and the code does not keep |
| `SchemaInit` | both `init_db` methods, systemd units | The table's key, and the next SQL statement of every starting process |
| `EstimatedLoad` | `estimated_load_daemon.py` | Loads per row, collected metrics, devices still to update; cycles that break off |
| `StorageGrid` | `system_metrics.py` (time series) | Clock, last timestamps in memory, newest rows on disk |
| `RecordRetention` | `cleanup_old_records` | Clock, the text of `last_seen`, the text comparison |
| `DaemonControl` | `bin/cognit-*-server` | Processes, lock and pid file, the next line of the script |
| `OneApiCommands` | `fireedge/src/server/utils/constants/commands` | The command table: method and parameters, each with its place and type |
| `ServerRoutes` | `fireedge/src/server/routes/api/**/routes.js` | The routes that functions of the server answer |
| `OneApiEndpoints` | `fireedge/src/modules/features/OneApi` | The endpoint table: command, parameters handed on, patches, tags |
| `RequestPath` | `request.js`, `rest.js`, `oneApi.js`; `entrypoints/Api`, `worker.js` | One request: what was asked, the HTTP request, the call, its verdict, status and reply |
| `DirectCall` | what an endpoint promises a page | The abstract specification of `RequestPath`: the call meant is made at most once, and the reply agrees with it |
| `OneApiCache` | `common.js`, `socket.js`, `onQueryStarted`; RTK Query (external) | One object in the core and in both views; queries, changes, undos and events in flight |
| `PagePrograms` | `components/Tables/*/actions.js`, `containers/*/{Create,Instantiate,...}.js` | The handlers of 26 tables and of the routed forms: stages of calls, what is unwrapped, awaited, announced |
| `PageTask` | the handlers as a whole: what one submission does | No state: the calls planned, the next stage, what an answer does to a submission and what it tells the user |
| `PageSubmit` | `Forms/ButtonToTriggerForm.js`, `FormStepper`, `DialogForm.js`, `useFetch.js`, `GlobalActions/Action.js`, `General/slice.js`, `middleware.js` | Extends `PageTask`: the selection, the open dialog or form, the clicks that wait for their timer, the submissions under way, `loading`, `isLoading`, the session |
| `MC_*` | | Constants for TLC |
| `*_proofs` | | Theorems |

Definitions keep the names of the code where they model a function. Locals of a
process are a record whose fields depend on its `pc`, so a state holds no
leftovers of an earlier request or cycle.

What the models abstract:

* A requirement is a device, a flavour and a *want*, which stands for
  confidentiality, providers and geolocation together. `Admits` and `Dist` say
  which clusters meet a want and how far they are. A want in `NoGeo` has no
  geolocation, on which `clusters_ids_get` raises.
* The MILP is the set of placements its constraints admit (`Allocations`). The
  optimizer gives every device capacity 1, so the number of VMs of a cluster is
  the number of its devices. Energy only chooses among these placements.
* Time in the core is the date. `RecordRetention` models the comparison of an
  ISO timestamp with an SQLite one as text, and lemma `TextLeqIsDate` proves
  that it compares dates; this is what `Expired` in `CognitState` uses.
* A scale call succeeds, fails or times out, the latter two with or without
  effect; an answer 202 counts as applied at once. The service and the role of a
  cluster are found by name, and no cluster's name is assumed to contain
  another's (`oneflow_scaler.py` looks for a substring).
* Loads are percentages, rounded down.
* In `RequestPath` a value is where it comes from (the caller, the session's
  filter, the selected zone, a default). Of a default its type is kept, because
  the server converts to it.
* In `OneApiCache` the content of an object is the change that last wrote it. A
  change of owner patches names that are looked up in the stored lists of users
  and groups; a page without these lists patches nothing, so `MC_OneApiCache` has
  the combinations with and without the patch. The list of providers is mapped
  before it is stored, so a lost response makes its query fail.
* In `PageSubmit` the input of a form is the set of calls its handler has to
  make, any set the form admits. The answers to a call are those its handler
  tells apart. A run of stages that are alike is one stage in the model
  (`MC_PageSubmit`), handlers with the same shape are checked once, and a button
  whose options are all options of another one is left to that one. Left out:
  the conditions on the state of a row that disable a button, and validation. Of
  what a dialog tells the user, success and the login page are kept.
  `VirtualRouters/Create.js` has no route.

The lookup and the write in PUT and DELETE are one step, because only the
frontend writes documents and it serves one request at a time.

## Runs

Passing runs:

| Run | Question | Bounds |
|---|---|---|
| `races` | Do rows stay consistent, and do targets cover the placement, under every interleaving of a request, a cycle, errors, timeouts and crashes? | 1 device, 1 flavour, 2 wants, 2 clusters, 2 documents with 2 versions each, one date; 2 million states |
| `flavours` | Are devices moved only to clusters that serve them? Does the placement of one row ever end up in another? | 2 flavours, 2 documents, 3 wants that admit different clusters (one without geolocation), up to 2 FaaS VMs per role, one removable cluster, no faults; 410,000 states |
| `converge` | Can a cleanup take a row from under a request, or an INSERT meet a row? Does a settled requirement reach the table (liveness)? Do the processes change the table as `AssignmentTable` allows? | 1 document with 2 versions, rows kept for the day they were seen, 2 days, errors and crashes; 48,000 states |
| `schema` | Does the table get its key, and then keep it and its rows? | 3 processes, 2 restarts by an administrator |
| `load` | Does every row get a load, between 0 and 1, although updates fail and cycles break off? | 2 devices, 2 flavours, 2 services; queue empty or not, no or 2 VMs, CPU above one per device |
| `grid` | Are timestamps of the series increasing and not in the future? | 1 service (services are independent), interval 2, gap 5, clock to 11 |
| `cleanup` | What is the exact retention period in UTC? | 2 rows, days of 4 ticks, 1 day of retention, 4 days, offset 0 (the theorems cover the other time zones) |
| `control` | Does the script lose or double a daemon that nobody stopped? | 3 pids; a daemon that ends some time after SIGINT, or never |
| `requests` | Does a request reach the command its endpoint names, once, with the caller's values and in the caller's zone? Does the reply agree with the outcome? | every endpoint, command and route; all parameters, none but the id, no filter or no zone; 3 zones, one of them unknown to the server; 35,000 states |
| `cache` | Once everything has arrived, do the views show what the core has? | the 59 combinations of tags and patches that occur, 2 changes, at most 2 changes or losses (`MaxDeeds`), 2 openings (`MaxOpens`), symmetry of the changes; 2.4 million states |
| `pages` | Do handlers serve every row, make their calls in the right order, and tell the user? When do two of them overlap? Is a button ever left disabled? | the 30 shapes of button that occur and have options no other one has, 2 rows, 1 list entry, 2 copies, 2 submissions at a time (`MaxTasks`) with 4 calls (`MaxCalls`), symmetry of the rows and of the copies; 410,000 states |

One device is enough for `races` and `converge`: the code never relates two
rows, except in the MILP's capacity, and the races are between processes that
handle the same row. Two rows of one device matter in `flavours`, because the
optimizer scales per cluster and flavour. Two versions of two documents give
every case of `ec_fe` and of the upload: no row, same requirement in the same or
another document, other requirement. The constants `Faults` and `Removable` say
which faults of the environment a run includes: `races` has all of `Faults`,
`converge` errors and crashes, `flavours` the removal of a cluster. `MaxDocs`,
`MaxVersions`, `MaxDay`, `MaxVMs`, `MaxRestarts`, `MaxNow` and `MaxTime` are
bounds of the models alone.
The bounded runs of the core stop when the bounds are reached, and a request or a
page may be done, so deadlock is not checked there; in `schema`, `load`,
`cleanup` and `control` it is.

The FireEdge runs take the tables of the program whole, so a wrong entry is
found wherever it is. Two changes give every order of their answers and undos.
Two submissions give every overlap `isLoading` can cause, and two rows or copies
a call that is refused while another is accepted. Background queries are one at
a time: a second one would only clear the same flag again.

### Findings

`claim_reply` checks one statement of the repository, and TLC finds a behaviour
of the code that breaks it: a device gets a cluster that does not meet its
requirements, because the optimizer wrote a decision made for an earlier
document into the row, and the frontend serves the row as a cache hit.

The models reproduce further differences between the code and its comments, for
which no run is kept. In the COGNIT components:

* A device deletes its document when it stops; its next upload gets 404 for as
  long as the old row is kept (`main.py:64`).
* A device placed on a cluster whose VM count equals the target is not moved:
  only scaled clusters have their rows updated (`cluster_scaler.py:236`).
* `stop` does not stop the optimizer or the load daemon
  (`cognit-optimizer-server:109`; line 99 says "Function that stops the
  daemon/service"). A background command of a script ignores SIGINT, and Python
  leaves it ignored (`OnInt = "ignored"` in `DaemonControl`). The script removes
  the lock and the pid file all the same, so the daemon runs on, unknown to the
  script, and the next start adds another one.
* With two flavours on a cluster, each gets the VM count of the whole cluster as
  its target (`cluster_scaler.py:200`; the docstring says clusters are scaled to
  their `n_vms`).
* A timed-out scale-down is not retried in a cycle that ends early
  (`optimizer_adapter.py:86`; "re-queued for retry at the next cycle").
* A start may drop a table that has the right key and rows in it: it examined the
  key before another start recreated the table (frontend `db_manager.py:81`).
  `SettledStays` says from when on this cannot happen.
* A row gets the load of another flavour of the same device
  (load daemon `db_manager.py:175`; "Update devices with that flavour").
* The time grid jumps without a crash or a long gap, since the duration of each
  cycle adds up (`system_metrics.py:39`; "rows differ by exactly interval_seconds").
* On a host west of UTC, rows are deleted before their time (frontend
  `db_manager.py:105`). The theorems of `RecordRetention_proofs` say on which
  side of UTC each bound holds.
* `restart` runs the new daemon beside the old one for as long as that takes to
  end (`cognit-optimizer-server:109`). `OneUnstopped` is what does hold.

In FireEdge (paths relative to `fireedge/src/modules/`):

* A lost response fulfils the call with an empty object (`utils/rest.js:88`),
  where the endpoints say "Fails when response isn't code 200" (`vm.js:154`). So
  a follow-up can be sent for an object whose id is `{}`.
* `removeResourceOnPool` discards the array it filters, so a list changes only
  through its tags. An answer that comes late overwrites the newer entry of the
  list; a query in flight is not repeated when it is invalidated; and two patches
  that are undone out of order leave a value the core never had. The exceptions
  in `RepeatedViewsAgree` and `PatchedViewsAgree` name the cases.
* Some tags carry the whole argument instead of its id and invalidate nothing
  (`enableDriver`, `disableDriver`, `changeImageType`, `restoreBackup`,
  `recoverService`, `changeVMGroupOwnership`, `removeVMGroup`).
  `changeProviderPermissions` overwrites a list entry by undefined, and the
  patch of `renameProvider` writes nothing to the detail view.
* `updateVrTemplate` takes its command from the wrong table and gets 404.
* After a 401, `middleware.js:35` ignores further ones until some other failure
  was seen. A session that expires again is neither noticed nor announced.
* `isLoading` is one flag for all requests: the answer to any of them enables the
  button of a form whose handler is waiting. `MobileStepper` ignores it. A handler
  whose dialog was closed hides, when it ends, whatever dialog its button has
  opened since, and clears a newer selection.
* `fetchRequest` waits for a timer before it disables its button
  (`hooks/useFetch.js:171`), so a second click before that starts the handler
  again on the same rows. `OverlapHasACause` lists this and the other ways in
  which two handlers of a button come to run at a time.
* RESTORE of several VMs serves the first one (`Tables/Vms/actions.js:529`): its
  option says `selected: { max: 1 }`, which is only looked at on a button.
  `EveryRowIsServed` names it as its exception.
* Forms for clusters, groups, VM groups and marketplace apps announce success
  although calls they do not unwrap were refused. `SuccessIsEarned` is about
  those they unwrap. The first backup job (ID 0) is not announced.
* Handlers that call another resource's endpoint, or pass the wrong id:
  `Vrs/actions.js:78` (VM templates), CHANGE_CLUSTER of network templates, RETRY
  of clusters. The table of datastores removes a datastore from its old cluster
  although the new one refused it.

## Fairness

* `converge`: strong fairness of each step of a request and of each device's
  question, weak fairness of the request as a whole. A request in service is not
  suspended; a device keeps asking; and a crash, which systemd repairs
  (`Restart=on-failure`), does not hit the same step every time. Weak fairness of
  the steps would not do: a process that crashes at the same point of every
  request never finishes one. The optimizer and the load daemon get no fairness:
  the property holds whether they run or not.
* `schema`: weak fairness of each statement and of systemd's restart, and one
  fact about time. `RestartSec=5` is much longer than a start, so when a failed
  start is repeated, the starts under way at its failure are over (`waits`).
  Without it TLC shows a livelock: the daemon recreates the old table between
  another start's DROP and CREATE, again and again.
* `load`: weak fairness of the loop, strong fairness of each UPDATE, which may
  fail when the database is locked, but not for ever. A cycle may break off
  (`Restart`: a read that raises in `estimated_load_daemon.py:85`, or a kill; the
  unit has `Restart=on-failure`), any number of times but not for ever: a daemon
  that dies in every cycle writes nothing, so what kills it has to be repaired
  some day.
* The other runs check safety only, and need none.

## Proofs

Every safety property a passing run checks is also proved for all instances. The
assumptions are named in the modules, and TLC evaluates them on the constants and tables of the runs: types of the constants;
in `StorageGrid`, that the sleep and the maximal gap are at least the interval,
as they are in the unit file and the default configuration; in the FireEdge
modules, what the tables of the program have in common.

* **`CognitSystem_proofs`**: `SystemTypeOK`, `SystemRowMatchesKey`,
  `SystemSnapshotIsHistorical`, `SystemInsertNeverConflicts`,
  `SystemMissOnlyIfExpired`, `SystemTargetCoversAllocation`,
  `SystemMovedToServingCluster`, `SystemPlacedForOwnDocument` and
  `SystemKeepsContract`, for any devices, flavours, clusters, bounds and
  faults. The first five are not inductive as they stand, because a row may be
  written from a copy. `Inv` says of every place a row or requirement is carried
  through that it is as good as the table: the copies of the optimizer (`OptOK`)
  and the locals of the request (`FeOK`) are rows and requirements that a
  document has held (`DocsHeld`). `NewOK` and `SeenOK` relate the request to the
  table: only the frontend adds rows, so a key found absent stays absent; nobody
  else makes a row's `seen` older, so a row read by a request disappears only
  when it has expired. The next two rest on `Serving`, which follows one cycle
  of the optimizer: its targets cover its placement after the pending
  scale-downs are merged in, so a pair of cluster and flavour it has scaled and
  placed devices on keeps a VM; the frontend only scales up, so the pair still
  runs when the rows are moved, or its cluster was removed.

  `PlacedForOwnDocument` is about the cluster of a row. `claim_reply` shows that
  the cluster need not meet the requirement the row has now; what does hold is
  that some document has been one of the row's device and flavour, and has allowed
  the cluster. The optimizer takes rows, documents, clusters and solution from
  four different moments, so the invariant `Placing` follows the cluster through
  all of them: the frontend's choice (`FePlaced`), the optimizer's copies, its
  feasible clusters, its allocation and the writes left to do (`OptPlaced`).
  Documents keep their history in `held`, which only grows, so what suited a row
  once goes on doing so (lemma `NextGrows`).

  `SystemKeepsContract` is the refinement: with the table for `rows`, `held` for
  `known` and the date for `date`, every step of the system is a step of
  `AssignmentTable` or leaves its variables alone. A cleanup of any process is the
  purge (`CleanupIsPurge`), a cache hit renews (`TouchRenews`), INSERT and UPDATE
  assign (`InsertAssigns`, `UpdateAssigns`); an UPDATE that finds no row is a
  stutter. That a stale write of the optimizer is still a whole row with a
  suitable cluster needs `Inv` and `Placing`.
* **`LoadDaemon_proofs`**: `GridTypeOK`, `GridNeverAhead` and `GridIncreases` for
  the time series, `LoadTypeOK` for the loads.
  The inductive invariant of the series bounds the last timestamp of a service
  that is still to be stored by the clock minus the interval: a sleep lies between
  two stores. `TypeOK` of `EstimatedLoad` is inductive; its content is that the
  computed load stays between 0 and 1 (`LoadInRange`), for a count of zero too,
  and that the devices of a flavour can be counted. The module reaches
  `EstimatedLoad` through an INSTANCE, so `LoadAssumption` is a hypothesis of
  these lemmas.
* **`SchemaInit_proofs`**: `SchemaTypeOK` and `SchemaSettledStays`, for any
  number of processes.
* **`RecordRetention_proofs`**: `DeletesOnlyOldEast` and `DeletesWithinADayWest`.
  A row is deleted only at an age above the retention period plus the offset of
  the time zone, and kept only below a day more. So a host east of UTC deletes
  late and one west of it early.
* **`DaemonControl_proofs`**: `ControlNoOrphan` and `ControlOneUnstopped`, for
  any set of pids, and whether the daemon handles SIGINT or ignores it. The
  properties speak of the pid file between two commands. The invariant says what
  holds at every line of the script: a daemon nobody has stopped is the one the
  pid file names, the one in `LASTPID`, or there is none; and the lock is there
  whenever the pid file is, because `setup` looks at the pid only if it is.
* **`RequestPath_proofs`**: `PathImplementsDirectCall`, that every behaviour of
  `RequestPath` is one of `DirectCall`; `PathTypeOK`, that a call has an argument
  for each parameter of its command and goes to a known zone; and `PathReached`,
  that no listed request with the parameters of its path gets 404 from the
  router. They hold for any tables that satisfy four assumptions: every parameter
  has a place it can travel in (`PlacesAssumption`), a request that is routed is
  routed to the command it was built from (`RoutesAssumption`), the path of a
  command consists of listed parameters (`PathsAssumption`), and `None` is none
  of the values (`NoneAssumption`). The argument follows a value from the caller
  through path, query string or body into the argument list, one lemma for each
  way; the invariant says that the call made is the one that was meant. `Reached`
  follows the path the other way: lemma `HasRoute` matches the request segment by
  segment with the route of its own command.
* **`OneApiCache_proofs`**: `CacheTypeOK`, `CacheRepeatedViewsAgree` and
  `CachePatchedViewsAgree`, for any number of changes, openings and losses, and
  any endpoints that satisfy `KindsAssumption`: every query provides a tag, a
  list that lacks the object included, and a mutation that removes an object
  patches no view. The properties speak of the state at rest; the invariant says
  what holds on the way there. While a view is owed the truth (`Owes`), no stale
  answer is on its way, and the view has a query in flight, agrees, or will be
  invalidated by a change that is still waiting. A view that relies on a patch
  (`Relies`) holds the patch, the truth, or a value that the undo replaces by the
  truth, and its change is the only one waiting (`Alone`). `InStore` makes the
  tags reliable: a view with data can be found by them, and one with a subscriber stays in the
  store, except a list whose query has failed. `GoneIsGone` says that
  an object once removed stays removed, so a refused detail is never stale.
* **`PageSubmit_proofs`**: `PagesTypeOK`, `PagesLoadingClears`,
  `PagesOverlapHasACause`, `PagesSuccessIsEarned`, `PagesFollowUpsOnNew`,
  `PagesEveryRowIsServed` and `PagesNoSilentEnd`, for any rows, any number of
  submissions, and any buttons and handlers that satisfy `ButtonsAssumption`,
  `HandlersAssumption`, `CallsAssumption`, `FreshAssumption` and `RowsAreServed`
  (for example: a call that is unwrapped is awaited, a call about a new object
  comes after one that creates it, and a button for several rows makes calls
  about rows). The invariant has two layers. `TaskOK` is about one
  submission, whatever else goes on: what its handler has checked was accepted,
  the stages before the current one are made and awaited, and a call of a chain
  that is missing comes after one in flight. The second layer relates the
  submissions of a button to the dialog, the selection and `isLoading`; its part
  `FetchOK` says that a button is disabled from the timer of a click on, and that
  the clicks of a button that is left are dropped together.

In the longer proof modules `USE Zenon` makes first-order reasoning the default,
and the steps that need arithmetic, records or sequences name `SMT`.

Only model-checked: everything about liveness (`RequirementsConverge`,
`SchemaConverges`, `RowGetsLoad`), which is out of the proof system's reach.
`ReplyMeetsRequirements` is the claim that fails.

## Not modelled

`PROJECT.json` lists every part with its status. The reasons, by group:

* **FireEdge's layout, field definitions, validation schemas, columns, tabs and
  charts**, which are most of its lines: they describe what is drawn and hold no
  state that other code relies on. The tabs of the detail views and the settings
  page send single calls, whose path `requests` covers. What a function of the
  FireEdge server does inside is one step with any answer.
* **The rest of OpenNebula** (VM life cycle, images, networks, quotas, access
  control, hooks, monitoring, Raft, federation, scheduler plans, OneFlow): code of
  the upstream project, which the COGNIT components use through the API. They
  appear where that use makes them visible: documents, the cluster pool and the
  FaaS roles in `CognitState`, and any answer to a call in `RequestPath`. Raft and
  the OneFlow life cycle would be the next modules to write.
* **Drivers, bindings, command line, packaging**: I/O, generated code or
  sequential tools.
* **Tokens and the function registry** of the frontend, and the energy part of
  the MILP, do not touch the table the processes share.
