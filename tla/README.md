# llm_server_manager: TLA+ models, checks and proofs

This directory models the Go daemon of this repository (module `llamamanager`) and the
parts of its web UI that keep state: a manager that runs one `llama-server` child at a
time, an HTTP control API with a rate limiter, a config file that can be edited through
the API or on disk, a registry of remote managers ("workers"), an OpenAI-compatible
proxy in front of all of them, and the browser pages that poll and change all this.
File and line references are to `src/`.

    tlc -config Manager.cfg MCServerManager     # model-check
    tlapm RouterProofs.tla                      # check proofs

## 1. The system

| Part | Source | State it keeps | Operations |
|---|---|---|---|
| Server manager | `manager/manager.go`, `models/models.go` | the slot `sm.server` (model, pid, status), `sm.configs`, `sm.cancelFunc`, one goroutine `launchServer` per accepted start (`crashCount`, `registeredPID`), the child processes | `StartModel`, `StopModel`/`StopCurrent`, `GetCurrentServer`, `ReloadConfigs`, the launcher's loop |
| Application lifecycle | `server/server.go`, `main.go` | how far `Start`/`Shutdown` have come | signal, drain (30 s), end of the watcher, `StopCurrent`, exit; daemon re-exec and PID file |
| Config store and reload | `handlers/handlers.go` (`SaveConfig`), `server/server.go` (`WatchConfig`, `reloadConfig`), `config/config.go` | the file, `saveMu`, `reloadMu`, fsnotify events, the debounce timer | `PUT /api/v1/config`, the watcher's reload, edits by other programs |
| Fleet registry | `fleet/fleet.go`, `fleet/client.go` | the workers, a 2 s cache of probes by URL | `Reload`, `Snapshot(s)`, `Resolve`, calls to a worker |
| Proxy router | `proxy/proxy.go`, `proxy/handler.go` | routing table and its age, rebuilds in flight | `resolve`, `refresh`, `invalidate`, `rebuild`, `HandleGeneration` with one retry, the list |
| Rate limiter | `server/server.go` | limiters by `RemoteAddr`, the time of the last cleanup | `getLimiter`, `cleanup`, `limit` |
| Control API | `handlers/handlers.go`, `server/server.go` | none of its own | the handlers that call the parts above; API key, CORS, size caps |
| Metrics | `metrics/*.go` | the last CPU counters, a 2 s cache of the GPU state | sampling on request |
| Config editor | `webui/src/views/ConfigEditor.svelte`, `webui/src/lib/api.ts` | the text, the version it started from, banners, requests in flight | load, typing, polls, save, overwrite, reload, settings |
| Machine store | `webui/src/lib/store.ts`, `proxy.ts`, `views/*.svelte` | what the UI knows of each machine: status, fleet view, proxy | refreshes by timers and after actions, start, stop, the proxy switch |
| CLI | `tools/cli` | none | one request per command |

How they interact:

* The handlers, the proxy and `Shutdown` call the manager from their own
  goroutines; the launcher goroutines run beside them.  `sm.mutex` covers single
  critical sections, never a whole operation: `StopModel` reads the pid under the
  lock and cancels, kills and clears after it; a launcher spawns, checks its
  context and claims the slot in separate steps.
* A save and the watcher both call `reloadConfig`, which installs the file in the
  manager, in the fleet registry and in the proxy switch.  `saveMu` orders saves,
  `reloadMu` orders reloads, and nothing orders other programs that write the file.
* The proxy reads the slot and the fleet registry to rebuild its table.
* `Shutdown` waits for the requests, then for the watcher, then stops the slot;
  launchers and children it does not wait for.

* The rate limiter is in front of all handlers; its map is locked for the lookup, and
  the token is taken after the unlock.
* A browser page asks a manager for everything and is answered later, in any order, while
  the user goes on; a save carries the ETag of the version it started from (`If-Match`).

What is hard: interleavings of launchers, stops and polls (a stale pid, a context
cancelled too late or of the wrong launch, a restart racing a stop), the shutdown
racing all of them, the file being written by several parties while it is read,
caches that answer with the past, callers that hang up while others share their result,
answers that arrive after the page has moved on, counters that go backwards, and an entry
that is swept while somebody holds it.  The list of hazards, each at its line, is in
`PROJECT.json`.

What makes each part correct:

* manager: no live process is out of reach; at most one launch may still spawn;
  the slot never forgets or replaces a live process; crash loops end; a stop
  leaves the slot;
* lifecycle: what the shutdown saw in the slot is dead when the daemon has exited,
  nothing new takes the slot meanwhile, and the daemon does exit;
* config: manager, fleet and proxy switch always agree on one version, never an
  older one than before; a save with `If-Match` replaces the text it names, except what
  another program writes between its check and its rename; a file at rest is
  applied; saves are answered;
* fleet: a caller that is still there is told "offline" only of a worker that has failed or
  has been asked with a wrong key; every view is answered; a reload settles;
* proxy: a request is sent only where a model of its name has listened, one rebuild per
  name runs at a time, a listed name resolves, a stale target is retried once and with a
  table made after the failure, and every request gets exactly one answer;
* rate limiter: every address has one token bucket, and neither cleanups nor
  concurrent requests show; the map is swept;
* config editor: no save that was not forced overwrites a version the user has not had in
  front of them, with the same exception; a change on disk is shown or announced in the end;
* machine store: the page comes to show what the machine runs and whether its proxy is on,
  however requests overlap; the switch keeps what others have written before its save is
  checked;
* CPU sampler: what it reports is a percentage, and measured against counters read not long
  ago.

## 2. Modules

| Module | What it is |
|---|---|
| `ServerManager` | the manager at the grain of its critical sections |
| `ServingSlot` | abstract specification of the slot: `Serve`, `Go`, `Release` |
| `App` | `ServerManager` with the HTTP drain and the shutdown sequence around it |
| `ConfigStore` | the config file, saves, watcher and reloads |
| `Fleet` | the registry of workers, its cache and the probes |
| `Router` | `Fleet` with the local slot, the routing table and the proxied requests |
| `Exchange` | abstract specification of a proxied request |
| `RateLimiter` | the map of limiters and the requests that use it |
| `TokenBucket` | abstract specification of a rate limiter |
| `ConfigEditor` | the editor page with its requests and the files behind it |
| `MachineStore` | the UI's store of one machine with the pages that refresh it |
| `CpuSampler` | the CPU sampler and the kernel's counters |
| `MC*` | constants of the runs |
| `*Proofs` | theorems about the module of that name, checked by TLAPS |

Definitions named "Mutant" in the modules are wrong variants of the definition
that follows them.  No specification uses them; each shows that a property fails
when the code is changed that way.

### ServerManager

A *launch* is one accepted `StartModel` together with its goroutine and its context;
`Launches` bounds how many there are.  A process id is `<<launch, attempt>>`, where the
attempt is the launch's `crashCount`; the code's pid 0 is `NoPid`.  The operating
system is assumed not to reuse a pid while somebody still remembers it.

| Variable | Code |
|---|---|
| `server` | `sm.server` (nil = `NoServer`): the pid, the status, and which launch created the record (the code's `ModelConfig`, made unique) |
| `configs` | the models in `sm.configs` that pass `validateModelConfig` |
| `cancelFunc`, `cancelled` | whose context `sm.cancelFunc` cancels; the contexts that are done |
| `pc`, `crashes`, `registered` | where a launcher is, its `crashCount` and `registeredPID` |
| `proc` | the process of the launcher's current attempt: none, alive, dying (killed), exited or crashed (zombie), reaped |
| `stopPc`, `stopPid`, `stopLaunch` | the callers of `StopModel` and what they read under the lock |
| `panicked` | the nil dereference in `launchServer`, which ends the daemon |

Every critical section of `sm.mutex`, every check of a context and every system call is
one step; the 1-10 s back-off is not modelled as time, the launcher may simply stay
between `LaunchMark` and `LaunchTop`.  `StopCancel` reads and calls `sm.cancelFunc` in
one step.  That loses nothing: a `StartModel` that slips in between has cancelled the
context that was read.  `crashCount` in the code goes one beyond `maxRetries` before the
launcher gives up; the model keeps the number of restarts.  `GetCurrentServer` is a
step only when it changes something.

`ServingSlot` says what all this should amount to: a process is in the slot or not, it
enters once, and it leaves only after it has ended or been killed.  `SlotSpec` is the
refinement: `serving` is the pid in the slot, `served` the pids that ever registered,
`gone` the processes that ended or were sent SIGKILL.

### App

`App` extends `ServerManager`: while `phase = "serving"` requests come in and generations
stream; the signal starts `Shutdown`, whose steps are `Drained` or `DrainTimeout`,
`LookAtSlot`, `StopSlot` or `StopRefused`, and `Exit`.  After `exited` or `aborted` no
goroutine takes a step; children do.  Requests already in flight are allowed to
reach the manager until the drain is over.  The caller of `StopCurrent` is one of
`Stoppers`.  `streaming` stands for any request that can outlast the 30 seconds, above all a
generation; calls of the manager's own operations cannot.  Watcher reloads end with `Drained`
(`watcherWg.Wait` sits between it and the look at the slot; the model lets no reload
in after the drain, which changes nothing that the slot depends on).

### ConfigStore

A text stands for the bytes of the file and for their ETag.  `Loadable` texts are
those `config.Reload` takes, `Acceptable` ones those that pass `SaveConfig`'s checks;
they differ in both directions: a duplicate model name loads with a warning but is
refused by a save, and bytes after the JSON value pass the save's decoder but do not
load.  `version` numbers the writes, and no action looks at it.  A half-written file is an
`EditFile` with a text that does not load.  `saveMu` and `reloadMu` are held across the
steps the code holds them for; a save runs its reload while it holds `saveMu`.
Events are kept in one flag, since the watcher's only reaction is to restart the
timer; removals make no event the watcher keeps.  The check and the rename of a save are
steps of their own, and `overtaken` is history: another program has written the file since
the save's check.  `watch` is over when `WatchConfig` has failed to get its watcher or the
watcher's goroutine has ended; events come only while it is on.  Reads that fail for other
reasons than content are left out, and an error the watcher only logs (server.go:325-329) is
taken to lose no event of the file: the queue of inotify does not overflow.

### Fleet

| Variable | Code |
|---|---|
| `workers` | `Registry.workers`, in config order; entries that `Load` skips are not in it |
| `cache` | `Registry.cache`; an entry older than the TTL is `NoSnapshot` (`Expire`) |
| `reloading` | `Reload` has swapped the workers (fleet.go) and not yet dropped the cache |
| `remote` | the workers themselves: up or not, what they run, and whether their config still shows it as launched |
| `probes` | the goroutines of `Snapshots`, one per worker and caller: look at the cache, ask, write |
| `asking`, `gone` | views being handled, and those whose client has hung up |
| `flaky` | history: workers that have failed to answer |

`Registry.mu` covers single lookups and writes, so a probe's lookup, its call and its
write are steps of their own, as are the two halves of `Reload`.  Callers are viewers
(`/fleet`, `/workers`) and, in `Router`, requests that rebuild the table.  A worker is a
manager of its own: models start, crash and are stopped there at any time, and a start or
stop passed on by the coordinator is one of these.  Of a worker's models only the active
one matters.

### Router

`Router` extends `Fleet`, so probes of the registry, the local slot and the requests
interleave freely.

| Variable | Code |
|---|---|
| `local` | what `GetCurrentServer` shows: model and status |
| `table`, `entries`, `fresh` | `Router.table`, the list's names, and whether `builtAt` is less than the TTL ago |
| `inflight` | `Router.inflight`: the request that rebuilds for a name, and whether its channel is closed |
| `req` | the requests: where they are, the name, the attempt, the target, what the rebuild has read, and the answer |
| `ran` | history: which model has listened where |
| `moves` | bound on what happens on the machines |

`tgt` is the first target; the list of further ones is never used by the code.
`resolve` is one step when the table is fresh and has the name; otherwise the request
joins or leads a rebuild: read the slot, take the snapshots (which may probe), install
the table, close the group, look again.  The upstream's behaviour is a choice: it answers,
fails before anything is written (which is retried once), or fails later.

### RateLimiter

| Variable | Code |
|---|---|
| `now` | time, in units of one token (100 ms at 10 requests per second) |
| `limiters` | the map: tokens and time of the last `Allow` (from `x/time/rate`), `lastUsed` |
| `lastCleanup` | the time of the last cleanup |
| `addr`, `since`, `verdict` | the requests: `RemoteAddr`, when they left `getLimiter`, passed or refused |
| `passed` | history: how many requests of an address have got through since the time `From` |

A request holds its limiter outside the lock between `getLimiter` and `Allow`; `MaxStall`
bounds that time, and `IntervalAssumption` says that a limiter unused for an interval has
filled up: with 20 tokens of burst and five minutes this leaves the scheduler 298 s.
`TokenBucket` is one bucket per client and one token per unit of time.  `BucketSpec` is the
refinement with the address as the client: an address that is not in the map has a full
bucket.

### ConfigEditor

A text stands for its bytes and its ETag.  `text`, `savedText`, `diskEtag`, `external`,
`dismissedEtag`, `conflict`, `loading`, `loadError`, `saving` and `checking` are the
component's variables of these names; `machine` is the page's route; `file` has the files of
the machines.  `calls` are requests in flight: `load` and `reloadFromDisk` may overlap
themselves (`Loads`, `Reloads` bound how often), a poll (`"check"`) and a save do not.  A save that
the page has given up on by its timeout may still be done by the manager (`Lates`).
History: `seen` has the texts that have been in the text area, `typed` says that it holds
typing that is neither saved nor given up.  A save compares (`SaveCheck`) and writes (`SaveWrite`)
in two steps, under the lock that keeps other saves of that file out; an outside edit between
them makes the save `"overtaken"`, which only the properties look at.  The banners' buttons,
`Revert`, the settings dialog and the change of machine are actions; unmounting the page and removing a machine are left
out, since nothing of the page is read after them.

### MachineStore

One machine, as `statuses`, `fleetViews` and `proxies` have it.  `run`, `file`, `up` and `legacy` are the
machine itself: what it runs, its config, whether it can be reached, and whether it is
an old version without fleet and proxy.  `view` is the page on the screen,
`refreshInFlight`, `pollingStatus` and `busy` the flags of those names.  `calls` are requests
in flight; what a page asks next, depending on the answer, is in `Then`.  Requests of both
pages, of actions and of the switch overlap; whoever is answered last writes last.
A save compares and writes in two steps, as in `ConfigEditor`.  A start or stop takes effect when
it is sent, a save is applied when it is written (`ConfigStore` covers the delay), and the list of
models and saves done after their timeout are left out.

### CpuSampler

`busy` and `idle` are the kernel's counters; `idle` contains iowait, which may go back.
`prevTotal`, `prevIdle`, `primed`, `lastAt` and `lastUsage` are the fields of `cpuSampler`.  A request that
naps in `freshSample` has `pc = "nap"`; the mutex is held exactly while one does, and every
other call is one step.  `Word` stands for 2^64: differences are taken modulo `Word`, as the
code's unsigned subtraction does, and shares only afterwards.  `base` and `span` are history:
when the baseline was read, and how old it was when a usage was measured against it.  When no tick
has passed since the baseline the usage is `lastUsage` again, whose own age nothing bounds.

## 3. Runs

Passing:

| Run | Bounds | Shows |
|---|---|---|
| `manager` | 2 starts of 2 models, 1 caller that stops again and again, 1 restart each, reloads that remove and add a model | `StopEndsItsProcess`, `NoOrphan`, `OneLiveContext`, `SlotSpec`, `OrphanKilled`, `LaunchSettles`, `StoppingEnds` |
| `app_shutdown` | 2 starts, 1 stop beside the shutdown's own, 1 restart each | `HeldIsGone`, `NothingStartsAfterDrain`, `ShutdownEnds` |
| `config_store` | 2 saves at once, 2 writes, 4 texts | `NothingIsMissed`, `PartsAgree`, `SavesDoNotCollide`, `ReloadsGoForward`, `SettledIsApplied`, `SaveAnswered` |
| `fleet` | 1 worker machine, 2 viewers, lists with skipped entries, another name and a wrong key | `HealthyNotOffline`, `ViewAnswered`, `ReloadSettles` |
| `router` | 2 requests, the local machine and 1 worker, 2 models (a launch_cmd with a port, a standard one with an alias), 2 moves | `WaitersAreLed`, `SingleFlight`, `ListedIsRouted`, `SentWhereItRan`, `RetryIsRenewed`, `ExchangeSpec`, `RequestAnswered` |
| `rate_limiter` | 2 requests, 2 addresses of one host, burst 2, interval 3, stall 1, 9 units of time, a window from 5 on | `WindowBound`, `HeldIsListed`, `MapIsSwept`, `BucketSpec` |
| `editor` | 2 machines, 3 texts (one invalid), 1 load, reload and late save in flight, 3 steps of the user and others | `PollingIsOwed`, `ShownHasEtag`, `UnseenIsKept`, `FileIsNoticed` |
| `machine_store` | 1 model, 2 contents of the rest of the file, 2 refreshes, 1 action, 1 change in flight, 2 steps of the user and others | `StoreTypeOK`, `ToggleKeepsOthers`, `StatusSettles`, `SwitchSettles` |
| `cpu_sampler` | 2 requests, counters to 2, 5 units of time, gap 2, nap 1 | `UsageIsShare`, `WindowIsRecent` |

Why the bounds suffice:

* Two launches are one that is being replaced and its successor, which is where every
  race of the manager lives (`OneLiveContext` says that older ones are all cancelled); the
  stopper may call again and again, and in `app_shutdown` it runs beside the shutdown's own
  stop, so two stops read the same pid there.  One restart exercises the crash path, the
  second claim and the limit.
* In `config_store` two writes are a save against a save and a save against an edit, each
  with the watcher's reload.
* One worker is enough for the registry: probes of different URLs share nothing, and
  two viewers are one that fills the cache and one that reads it or hangs up.  In the
  router the local machine is the second machine, and two requests are leader and follower,
  or two leaders for different names.  Two moves are enough for a model to go and another
  one to come while a request holds a target.
* The limiter's cleanup needs time for a bucket to empty, an interval to pass and the
  address to come back: 9 units with an interval of 3.  The window of `WindowBound` begins in the
  middle, when buckets are full, empty, or gone from the map.
* Three steps in the editor are an outside edit, typing and a save in any order, or a change
  of machine between two of them.  Two in the store are an action or switch
  that races a change of the machine or of the page.
* The counters need to go forward and back once, within and beyond the gap.

All safety properties are proved without these bounds (section 5).
Deadlock is checked for `cpu_sampler` only: everywhere else starts, writes and moves are
bounded and a behaviour may come to rest; the liveness properties say in which states.

Runs in which TLC finds a property violated, each a disagreement of the code with its own comments
or docs, quoted in `PROJECT.json`:

| Run | What the code does |
|---|---|
| `nil_slot` | A stop between `StartModel` and the launcher's first statement clears the slot; the launcher's `sm.server.Status = ...` (manager.go:185) dereferences nil and the daemon dies. |
| `stuck_starting` | A stop reads the pid of a launch whose process has just ended by itself; that launcher clears the slot and the next start takes it; the stop now cancels the new launch, just after its spawn (491). Its launcher kills the process and clears by the fresh pid (252), but the record still has pid 0; the stop clears by the pid it had read. The record says starting, without a process and without a launcher, and every start is refused until somebody stops it once more. |
| `typed_lost` | What is typed while a save is on its way is taken for saved when it is answered (ConfigEditor.svelte:169), and a poll that finds what another program has written meanwhile replaces it without a banner (106). The run has a step more than `editor`: typing, saving, typing on and the edit. |

Further behaviours worth knowing.  For these a configuration produces a trace:

| Configuration | What the code does |
|---|---|
| `BadStopReturnsStopped` (`MCServerManager`) | A stop reads pid 0, the launcher passes its context check, the stop cancels, the launcher claims, the stop clears by pid 0 in vain and returns success; the model runs on (manager.go:491). |
| `BadRestartKeepsSlot` (`MCServerManager`) | A status poll between the reaping of a crashed process (276) and the mark of its restart (304) frees the slot; the restarted process finds no record and is killed (82). |
| `BadActiveAsLaunched` (`MCFleet`) | A worker whose config was edited lists its running model with the new port and alias (handlers.go:139). |
| `BadPerHostLimit` (`MCRateLimiter`) | The limiter counts by host and port, so each connection of a host has a bucket of its own (server.go:110). |
| `BadLoadKeepsTyped` (`MCConfigEditor`) | Saving the machine's settings reloads the page and discards what was typed (ConfigEditor.svelte:88). |

The models contain these as well:

* manager: a stopped launcher may find the next start's record, whose pid is still 0, and
  register its own process in it (262); a stop's cancel may hit the start after the one it
  read (491); two processes may live for a moment, because the slot is freed before the old
  one is gone; a launcher being killed and its successor share the log's file handle
  (217) and a killed orphan is not waited for (250), both outside the model;
* lifecycle: a generation that streams longer than 30 s makes `Shutdown` return before it
  stops the model (server.go:481); a process spawned just before the shutdown's cancel
  outlives the daemon, because `Shutdown` does not wait for launchers;
* config: a saved body with bytes after its JSON value is written and can never be
  loaded (handlers.go:491, 569); an editor's write between the If-Match check and the
  rename is overwritten unseen (535-613), by saves of the editor page and of the switch as
  well; the daemon goes on without a watcher when it cannot get one (server.go:256-273); an
  edit between `New` and `WatchConfig` is not applied until the next one (`MaxEarly` bounds these and
  is 0 in the runs);
* proxy: another request's `invalidate` between a rebuild and the second lookup gives a 404
  for a model that runs (proxy.go:117); an older rebuild for another name may install its
  table last (214); the retry does not look whether its target still warms up
  (handler.go:225); a port taken over by another model between table and request answers
  in its place;
* editor: Revert and Reload work during a save (170), and the error page of a failed load
  stays although polls succeed (80);
* store: a poll answered late overwrites what the switch has just read (proxy.ts:26); the
  fleet view is null after any failure, not only for an old machine as
  store.ts:55-57 says;
* sampler: when the counters have gone back, a request may report the value before
  (sampler_linux.go:60), and a first request after hours of silence reports the share of
  the last window before them if no tick passes in its 100 ms (89); the comment at 67-69 has
  "current CPU load".

## 4. Fairness

* `ServerManager`: weak fairness of every launcher and every stop that has begun, since
  the Go scheduler runs what can run, and of the end of a killed process, since
  SIGKILL cannot be refused.  Nobody has to start, stop, poll or reload, and a healthy
  process need not end.
* `App`: the same for launchers and stops, and for the shutdown sequence, whose only
  unbounded wait has a timeout; not for the signal nor for the end of a generation.
* `ConfigStore`: saves that have begun, the watcher, its timer and the delivery of events;
  nobody has to write, and the watcher may fail to begin and need not end.
* `Fleet`: probes and replies, since goroutines run and calls end by their timeout, the
  TTL of the cache, and the second half of a reload; nothing of machines, clients and
  editors of the config.
* `Router`: each request goes on, together with the probes it waits for; the upstream answers
  or fails, as its transport's timeouts see to, and nothing is assumed of the machines.
* `ConfigEditor`, `MachineStore`: requests are answered or time out, and the page on the screen
  polls.  `FileIsNoticed` also needs strong fairness of the answer to the poll: a manager that is asked
  again and again answers in the end.  In the store a machine that is up fails to answer
  at most `MaxWork` times.
* `RateLimiter` and `CpuSampler` state no fairness: their properties are safety.

## 5. Proofs

All proofs hold for any values of the constants that satisfy the named assumptions, which
TLC evaluates in the runs.  Each safety property `P` below is proved as `Spec => []P` (or `Spec => P`
for an action property or refinement) from an inductive invariant that implies it.

**`ServerManagerProofs`** (`ConstantsAssumption`: the model values for nil, pid 0 and no launch are
none of the real ones, and the constants have the shapes their comments say) proves
`NoOrphan`, `OneLiveContext`, `StopEndsItsProcess` and `SlotSpec`, the refinement of `ServingSlot`.
`NoOrphan` is not inductive.  A clear by pid is harmless only because of what the pid
can be at that moment: a launcher clears by a pid whose process is reaped, killed or was
never started, a stop clears by a pid it has killed.  The inductive invariant `IInv` states
this: `RegistrationInv` (which attempt `registered` names at every program counter),
`ProcInv` (the process state at every program counter, and that a live process that is
waited for is in the slot), `ClaimedInv` (the pids in the slot and in the hands of stops
have been claimed) and `StopInv` (a stop never kills pid 0, and at its clear its pid is
gone).  Each action preserves each part.  The refinement follows step by step from `IInv`:
claims are `Serve`, ends and kills are `Go`, clears are `Release`, everything else stutters.

The same module (there also `ShutdownerAssumption`) proves that `App` implements `ServerManager`, so
that the manager's `IInv` holds in it; then `NothingStartsAfterDrain` and `HeldIsGone`.
`StoppingInv` says that a server is stopping only while the stop that will clear it is at
work, `DrainedInv` that after the drain no request is, and that the shutdown stops once,
`HeldInv` that the process the shutdown has seen is in the slot, in its hands or gone.

**`ConfigStoreProofs`** (`ConfigAssumption`) proves `PartsAgree`, `ReloadsGoForward`,
`SavesDoNotCollide` and `NothingIsMissed`.  `LockInv` ties the two mutexes to the program counters,
`StageInv` says which parts have been replaced at each stage of a reload, `BodyInv` and `CheckedInv`
what a save knows after its checks, `AgeInv` that what a reload has read is no older than what is
installed and loads, and `InstalledInv` how far the holder of `reloadMu` has installed its
file, and that the parts agree without one.  `NothingIsMissed` also needs that one version has one
text (`VersionInv`: a reload that has read the file's version has read its text) and that only early
edits come before the watcher (`EarlyInv`).

**`FleetProofs`** (`FleetAssumption`) proves `HealthyNotOffline`.  `BlameInv`
follows a failure from the worker to the probe that met it, into the cache, and to the
probes that read it there: wherever "unreachable" or "unauthorized" is, the worker has failed or
the key was wrong, and "cancelled" stays with the caller that went away.

**`RouterProofs`** (also `RouterAssumption`) proves `SingleFlight`, `WaitersAreLed`, `ListedIsRouted`,
`RetryIsRenewed`, `ExchangeSpec` (the refinement of `Exchange`), `SentWhereItRan`, and that
`HealthyNotOffline` also holds when rebuilds of the table share cache and probes with the views.
`AttemptInv` counts what has been sent against the attempts, `LeaderInv` keeps a group in flight until
its leader releases it, `RenewedInv` says that a table that is not too old on the second
attempt was installed after the first.  `GroupInv` and `WaitInv` say where a group's leader is while it
is open and when it is closed, and that nobody is left waiting at a closed one.
`SentWhereItRan` needs to know where every target comes from: `RanInv` follows it from the machines
(`RemoteInv`, `ListeningInv`) through cache and probes (`CacheInv`, `ProbesInv`, `NearInv`) into the
table (`TableInv`) and the request (`SendInv`).  It has the hypothesis `AsConfigured`: no worker's
config is edited under a running model, and no model has port 0, for which manager.go:347-349 and
client.go:241-246 disagree.  The configuration `BadActiveAsLaunched` shows that the first part is
needed.

**`RateLimiterProofs`** (`BurstAssumption`, `TimesAssumption`, `IntervalAssumption`) proves `HeldIsListed`,
`MapIsSwept`, `BucketSpec` and `WindowBound`.  `TimesInv` says that no limiter is from the future or has
let a request through long after it was last taken from the map, `WaitingInv` that a limiter which a
request is about to ask is in the map and was taken from it not long ago.  For the window,
`WindowInv` adds what an address has spent to what its bucket holds: a request moves one token
from the second to the first, a cleanup drops full buckets only, and time alone adds to the sum.

**`ConfigEditorProofs`** (`EditorAssumption`) proves `ShownHasEtag`, `UnseenIsKept` and `PollingIsOwed`.
`SeenInv` says that the text and the version it started from have been in the text area,
`CallsInv` that a save in flight, also one the page has given up, carries the ETag of such a
version or is forced, and `PutInv` that the page waits for a save only while one is in flight.
`UnseenIsKept` needs that a save which has been checked and not overtaken still finds the file it
compared (`CheckedInv`): saves keep each other out, and another program that writes makes it overtaken.
`PollingIsOwed` is inductive: loads overlap, so the last one to be answered has to take `loading` down.

**`MachineStoreProofs`** (`StoreAssumption`) proves `StoreTypeOK`, which contains that the flags are up only
while a request will take them down, and `ToggleKeepsOthers`: `ReadInv` says that an answered
question for the config has a version, `SaveInv` that the save carries it, `CheckedInv` that from
its check to its rename the file is that version unless the save has been overtaken.  `OldAnswersRunOut` follows the
answers that the machine has overtaken (`Old`) through every step of the page.

**`CpuSamplerProofs`** (`SamplerAssumption`) proves `UsageIsShare` and `WindowIsRecent`, from
`ShareInv` (only iowait goes back, so the baseline's busy ticks are none too many) and
`ClockInv` (the baseline is older than `lastAt` says by a nap at most, and one request naps at a time).
`WindowIsRecent` bounds the age of the baseline, not that of a share that is repeated.

Each module also proves its type invariant (`TypeOK`, `AppTypeOK`, `FleetTypeOK`, `RouterTypeOK`,
`EditorTypeOK`, `SamplerTypeOK`, `StoreTypeOK`); only the last of them is in a run.

Liveness, which needs fairness and `ENABLED`, is outside what the prover handles and stays with
TLC.  What is proved is the part of it that is safety: that somebody is always there to go
on, or that a number of steps left only ever falls.  Fairness of those steps is then all that is missing.

| Liveness (TLC) | Its safety part (proved) |
|---|---|
| `OrphanKilled` | `NoOrphan`: it is with a launcher at one of four steps, none of which waits, and `LaunchersEnd` |
| `LaunchSettles` | `LaunchersEnd`: 13 steps at most for each attempt a launcher may make, and nobody sets it back |
| `StoppingEnds` | `StoppingHasStopper`: while the slot says stopping, the stop that will clear it is at work |
| `ShutdownEnds` | `ShutdownIsShort`: seven steps at most from the signal on |
| `SettledIsApplied` | `NothingIsMissed`: an event, the timer or a reload is on its way to the last write |
| `SaveAnswered` | `NoCircularWait`: a save waits for a reload at most, whose owner waits for nobody |
| `ViewAnswered` | `ViewsEnd`: three steps at most of each of its probes |
| `ReloadSettles` | `DroppedDieOut`: what has left list, cache and probes does not come back |
| `RequestAnswered` | `WaitersAreLed`, and `RequestsEnd`: 22 steps at most |
| `FileIsNoticed` | `PollingIsOwed`: what is in the way of a poll is a request in flight |
| `StatusSettles`, `SwitchSettles` | `OldAnswersRunOut`: at rest, answers that are not true any more only get fewer, and only they make the store wrong |

That the violations exist is only model-checked.

## 6. Not modelled, and plan

Not modelled:

* GPU state (`metrics/gpu.go`): one mutex is held for the whole sampling, so a cached value
  and its age cannot be seen apart; the rest is parsing of the vendor tools' output.
* Memory and load, the macOS sampler: functions of what the system says.
* Web UI: telemetry charts, the list of machines and its settings, presentation.
* Reading and saving a worker's config through the coordinator: a passthrough to the worker's own store.
* The daemon's re-exec and PID file, the embedded UI, the CLI: no state that anything interleaves with.
* Command lines, validation messages, log files, file modes, HTTP headers, bodies and
  streaming, CORS and key checks: data that the properties do not tell apart.
  Parsing is abstracted to which texts load and which are accepted.

What the plan has left:

* `Router` over `ServerManager` instead of over a slot that changes as it likes: the
  proxy's view of a restart.
