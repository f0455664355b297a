# Sablier in TLA+

Sablier starts workloads (containers, services, deployments, units) on demand
and stops them after a period of inactivity. A request creates or renews a
*session* per instance; the session store drops a session when its time is
over, and Sablier then asks the provider to stop the instance. This directory
holds TLA+ models of that machinery, the TLC configurations that check them on
small instances, and TLAPS proofs of the results that hold for every instance.
Paths are relative to the repository.

1. [The system](#the-system)
2. [Modules and code](#modules-and-code)
3. [Runs](#runs)
4. [Disagreements between code and documentation](#disagreements-between-code-and-documentation)
5. [Proofs](#proofs)
6. [What is not modelled](#what-is-not-modelled)
7. [Plan](#plan)

## The system

| Part | State | Operations | Hard part | What makes it correct |
|---|---|---|---|---|
| `pkg/tinykv` | map of entries, heap of timeouts, `onExpire` | Put, Get, Delete, SetOnExpire, Stop, expiration loop, JSON | renewed and deleted entries leave dead timeouts in the heap; the scan handles half of the heap at a time; callbacks run outside the mutex | every entry expires after its deadline, never before, and is notified once; a renewal is never undone |
| `pkg/store/{inmemory,valkey}` | a tinykv, or a Valkey server | Get, Put, Delete, OnExpire | expirations arrive asynchronously | what `SessionStore.tla` says |
| `pkg/sablier/instance_request.go` | `pendingStarts`, one goroutine per start | InstanceRequest | the lock is released around inspect and start; failed starts are kept for the next request | one start in flight, every failure reported, retries possible |
| `instance_expired.go`, the event loop of `sabliercmd/start.go` | stop goroutines, event channel | stop on expiration, forget on stopped event | expirations and late events race with starts and new requests | no instance runs without a session |
| `instance_dependency.go` | `depStarts`, per-start memo, errgroups | startWithDependencies | goroutine tree over a graph; starts share dependencies; cycles; timeouts | dependencies first, each started once, no deadlock, no stragglers |
| `anti_affinity.go` | index of labels, `suppressed`, `affinityMu` | hold, reconcile, suppress, restore | evaluates sessions other goroutines change; restores through the path that triggers reconciliation | suppressed exactly while an antagonist is active |
| `group_registry.go`, `group_watch.go` | instances by group, anti-affinity index | Set, Remove, Sync, events, ticker | events and periodic list in any order | converges to the provider's labels |
| `session_request.go`, `session.go` | a map filled by one goroutine per instance | group requests, blocking requests | timeout against readiness | answers once everything is ready, or at the timeout |
| `autostop.go`, `autowarm.go` | none | react to instances started by others, by events and by a ticker | own starts look like external ones; streams end | no instance stays up without a session |
| `running_hours*.go` | none | windows over days, ticker | wrap over midnight | an instance is up in its window |
| `sabliercmd/start.go`, `storage.go` | the process, a file | start-up, load, shutdown, save | expirations before the callback is set; a crash at any moment | what a crash leaves running is found again |
| `pkg/provider/{docker,podman,dockerswarm}` | the platform's | start, stop, inspect, list, events | a call is several requests; connections drop | a call that succeeds leaves the workload as asked; stops are told once |
| `pkg/provider/kubernetes` | the platform's | the same, for three kinds of workloads | optimistic updates; the redis-operator undoes a scale unless it is paused | the same, and the operator is not left paused |
| `pkg/provider/systemd` | label cache | the same, by jobs | a job cancels another; unit files change | the same, and the cache holds what the files say |
| `pkg/provider/proxmoxlxc` | cache of nodes, pending tasks | the same, by tasks and polling | inspections that clear, and retry, what other calls set up | the same, and a container that is up is reported ready |
| `pkg/provider/internal/mobyevents` | a connection | dial, consume, redial | the consumer leaves while an event is offered | what `EventStream.tla` says |
| `pkg/metrics`, `pkg/webhook` | gauges, queue | record, dispatch | bounded queue | counts and deliveries match events |
| `internal/api`, `internal/server` | none | HTTP handlers | – | maps requests to sessions |

Threads: one goroutine per HTTP request and requested instance, one per start,
one per edge of a dependency graph during a start, one per expiration, the
expiration loop of tinykv, the stopped-event loop, GroupWatch, the optional
auto-stop, auto-warm and running-hours watchers, and one per triggered
reconciliation. They share the store (its own mutex), `pendingStarts` and
`depStarts` (`pendingMu`), the anti-affinity state (`affinityMu` for a whole
reconciliation, another mutex for the index and marks) and the registry.
`PROJECT.json` lists where this can go wrong, line by line, under `hazards`.

## Modules and code

In every module a step is what one goroutine does between two points where
another can intervene: a critical section, a call of the store, a call of the
provider, a wait. Provider calls may fail where the configuration's `Faults`
allow it; a call that fails may or may not have had its effect where the
provider interface leaves that open.

**SessionStore** is what the rest of Sablier relies on: a session is there
until it is deleted, replaced, or overdue; an overdue session is removed and
handed to the callback by the same step, exactly once, if a callback was
registered; it is eventually removed. No mention of heaps or scans.

**TinyKV** models `pkg/tinykv/tinykv.go`. `kv`, `heap`, `onExpire`, `stop` are
the fields of `store`; `loop`, `c`, `expired` the program counter and locals of
`expireLoop`/`expireFunc`. `Put`, `Delete`, `GetExpired` (the branch of `Get`
that changes state), `SetOnExpire`, `Stop` are one step each (they hold the
mutex). The scan is split into iterations (`ExpireBegin`, `ExpirePop`,
`ExpireBreak`, `ExpireValidate`) because it reads the clock again in each; the
mutex is held throughout, which the guard `Unlocked` of the others expresses.
`Notify` is the callback's goroutine. The heap is a set here: `Roots` are the
timeouts that may be at its root. `KeepsPromise` is the refinement of
SessionStore.

**TimeoutHeap** is the array behind it, `timeout_heap.go`: `timeheapPush` and
`timeheapPop` begin, and every step of `timeheapup` and `timeheapdown` is one
iteration of their loops; `sift` says which loop runs and where. The code's test
for an overflowing index (`timeout_heap.go:67`) is left out: it concerns arrays
that do not fit into memory. **Algorithms** runs this, or the searches of
DependencyGraph, or RunningHours, on bounded inputs: they share nothing, and one
run covers the three.

**SingleFlight** is what a start promises: idle, starting, started or failed,
and back. **InstanceRequest** models `instance_request.go`,
`instance_expired.go` and the stopped-event handler. `pendingStarts` points to
objects of the pool `starts`, as the Go map holds pointers, so that the
goroutine of an old start meets the entry of a newer one. `Get`,
`CheckPending`, `InspectBeforeStart`, `Register`, `ConsumePendingError`,
`InspectStatus`, `Put` are the steps of a request (the second half of
`requestStart` takes the lock again after the unlocked inspect);
`StartSucceeds`, `StartFails`, `CleanUp` those of the start goroutine; `Expire`,
`StopExpired`, `RemoveInstance` the end of a session. `result` is what the last
call of a request returned: a state, the error of a start, or another error.
Time is left out: a session may expire at any moment.

**DependencyStart** models `instance_dependency.go`. A *flow* is one
`startWithDependencies`; within it there is one goroutine per edge, with its
program counter in `branch[f][<<n, d>>]`, the `dependencyMemo` in `memo[f]`,
and `above[f][n]`, the errgroup contexts a node's calls run under (a failure
anywhere above cancels them). `pending` and `depStarts` are the shared maps.
`Resolve` contains the graph traversal and cycle search in declarative form;
**DependencyGraph** has those two recursions as the code has them: `stack` holds
the calls in progress, each with its place in its loop over the dependencies, and
a step of `resolveDependencyGraph` or `visit` is one iteration of the innermost
loop, or its return. `declared` gives the dependencies in the order the provider
lists them, `unreadable` the instances whose dependencies it cannot tell, which
stay the same during one start. `StartWithDependencies` begins, `CycleBegin` and
`CycleEnd` are the call of `dependencyGraphCycle` and its negative answer.

**AntiAffinity** models `anti_affinity.go` and the part of `group_watch.go`
that keeps its index. `rec` is the one reconciliation that holds `affinityMu`:
it copies the index, evaluates groups with one `Get` per member (`Evaluate`),
then for each instance suppresses (`SuppressStop`, `SuppressDelete`) or
restores it (`Act`, the caller `Restorer`, `RestoreEnd`). `triggered` is the
goroutine of `triggerAntiAffinityReconcile`; `watch` is GroupWatch with its
events (`HandleEvent`, `Forget`) and its ticker (`WatchTick`, `Rebuild`, where
the list may fail or leave instances out and an inspect may fail). Requests are
reduced to hold, Get, dispatch and Put, each of which may return an error. The
group's members are seen through their sessions only (`Tracked`), which is all
the code reads of them. `env`, chosen once, says what clients, operators and
faults may do.

**BlockingRequest** models `session_request.go` and `session.go`. `handler` is
`requestReadySession`, `poller` its goroutine with the locals `timer`, `delay`
and `started`; `readiness`, `errch` and `last` are the channels and the
published session. A `requestSession` is one `Ask` per name, in any order,
after which the map (`asking.got`) is looked at (`FirstSession`,
`PollerDecides`). Instances are reduced to what `instanceRequest` says of them,
and change between any two of these steps.

**GroupRegistry** models `group_registry.go` and what `group_watch.go` does to
it: `data` is the map of member lists, as bags (the code looks at the order of
a list nowhere, but a member may be in it twice), `set`, `sync` and `remove` are
its operations, `HandleGroupEvent` one event, and `ReadGroups`, `SyncNext`,
`SyncEnd`, `Prune`, `ReconcileEnd` the periodic reconciliation, one iteration
of its loops at a time. `InstanceGroups` are the lists the providers return as
successes: with the fault `skip` they leave out any instances, as Proxmox does
with the containers of a node that does not answer
(`proxmoxlxc/proxmox_lxc.go:173`) and systemd with units that are not loaded or
whose file cannot be read (`systemd/unit_list.go:62`, `:78`).

**RunningHours** models `running_hours.go`, the watcher and the extension in
`instanceRequest`: `WindowAt` and `runningHoursRemaining` are the functions of
that name on minutes, `Reconcile` and `WatchRequest` the two halves of a tick
(the time is read before the request is made), `Request` a client's request.

**Lifecycle** models the process around one instance: `Start`
(`setupStorage`, `OnExpire`, `Serve`, `Shutdown`, `Save`), a `Kill` between any
two steps, the request path reduced to its dispatch and its `Put`, expirations
and stopped events, and the watchers of `autostop.go` and `autowarm.go` with
every call of the store and of the provider a step of its own (`IsPending`,
`IsRegistered`, `StopUnregistered`, `SeedGet`, `SeedInspect`, `SeedPut`). `news`
holds events that were not read yet, so that each may be overtaken; `open` the
streams that were not lost. A session that is past its deadline when the file is
read is dropped by `UnmarshalJSON`; here it is restored and expires before
`OnExpire`, with the same effect.

**ProviderCalls** is what the models of providers share: one workload (`work`),
the calls of `InstanceStart` and `InstanceStop` in flight (`calls`), a
subscription (`stream`), and the options and labels, chosen once (`cfg`). A step
of a call is one request to the platform; `clean` and `fresh` record whether
anybody else wrote the workload since the call began, or since it read the
object it is going to update. `asked` is what the last call that returned
without an error, undisturbed, was to bring about, until something else touches
the workload: the properties compare it with `work`. Resource limits are reduced
to two fields, one whose invalid value is an error for Docker and one whose
invalid entries are skipped, and to the profile each was last set by.

**DockerProvider** (with Podman as `PodmanNew`), **SwarmProvider**,
**KubernetesProvider**, **SystemdProvider** and **ProxmoxProvider** each have
the functions of their package as operators of the same name, the states their
platform goes through, and `Awake` and `Asleep`, what a start and a stop are to
achieve by the documentation. Where the code does something else, a definition
beside them says so and the properties name it as an exception: `OnlyLimited` of
Docker, and the ghost `lapse` in `work` of Proxmox (the last call was undone by
a task of the provider's own, or was not done and nobody is told) and of
Kubernetes (whoever was to resume the redis-operator failed to). For systemd
`fell` records that the unit went down since the last poll, independently of
what the comparison of polls makes of it. **MobyEvents** is the goroutine of
`mobyevents.go` under the first two. **Providers** picks one by `cfg.provider`,
as `setupProvider` does, and states what all of them owe to the rest of Sablier;
**EventStream** is the contract in the comment of `InstanceEventStream`, of
which every provider's stream has to be a refinement.

**MC…** modules give the constants their values; **…Proofs** hold theorems.

## Runs

Passing runs:

| Run | Instance | Checks |
|---|---|---|
| `tinykv` | 2 keys, 3 puts, clock to 3, durations 0 and 2 | `StoredEntryHasTimeout`, `OnlyOverdueNotified`, `NotifiedByItsRemoval`, refinement of SessionStore with liveness (`KeepsPromise`) |
| `algorithms` | heaps of up to 7 elements, deadlines 1..4; every graph on 3 instances, each instance readable or not; every window and choice of days, days of 4 minutes, weeks of 2 days, 3 days | `HeapOrdered`, `HeapKeepsElements`; `ResolvesReachable`, `FindsCycles`; `WindowIsRight`, `LastsToWindowEnd`, `HeldWarm` |
| `request` | 2 requests, 2 start objects, all faults, instances started and stopped by others | `OneStartInFlight`, refinement of SingleFlight with liveness (`KeepsSingleFlight`), `RequestsReturn`, `FailureIsReported` |
| `affinity` | one instance that backs off from a group of one member; either clients ask for both and starts and stops fail, or the instance is relabelled, destroyed and recreated and everything fails | `RestoresOnlySuppressed`, `ReconcileReturns`, `MarkIsCleared` (where labels stay, and requests and lists do not fail) |
| `dependencies` | 2 managed instances, 9 graphs (shared dependency, diamond, triangle, two cycles, chain, fork, pair, a migration), each with its faults | `OneDependencyStart`, `HandledOnce`, `NoStragglers`, `StartedInOrder`, `StartsEnd`, `StartsSucceed` |
| `blocking` | up to 2 instances, each required or optional, frequencies below and above the first delay, all faults | `OptionalNeverGates`, `TimeoutExplained`, `NoBusyLoop`, `PollerEnds`, `ReadyIsNoticed` |
| `groups` | an instance that keeps its labels, one that does not, 2 groups, lost events, failed scans, lists that leave instances out | `GroupsAreFit`, `MembersAreKept`, `Converges` |
| `providers` | 37 configurations of the five providers; two overlapping calls, or one caller and a subscription | `SettledAsAsked`, `StatusSettles`, `StoppedEventIsReal`, `EveryStopIsSeen`, `OperatorNotLeftPaused`, `CacheIsFresh`, refinement of EventStream (`KeepsStreamContract`) |
| `lifecycle` | every choice of watcher, scan at start-up and storage file; one unread event per type, one stop under way | `NoOrphan` |

Bounds. Two keys and three puts give a renewal with a shorter or a longer
deadline next to another key, and enough dead timeouts for the scan to stop half
way; duration 0 is the boundary of the strict comparison. Seven elements are
three full levels of the heap: a sift crosses two levels, with one child, two
children and equal deadlines. Graphs on three instances have an instance reached
by two paths, self-loops and cycles away from the root; a list names a
dependency once, the theorems cover repetitions too. Instances share nothing in
the request path, so one is enough; with two requests one replaces a failed
start while the other still joins or reports it, and the theorems cover any
number; two start objects suffice because an object is garbage as soon as its
goroutine is over and no entry points to it. In anti-affinity one antagonist
suffices because a reconciliation only asks whether some member is active; a
second group adds a conjunct, no new interleaving. Where everything changes and
fails clients do not ask: the sessions of start-up and those of restores are
enough to suppress and restore, and the theorem covers the combination. The
dependency graphs are the shapes in which goroutines meet: across flows
(shared), within a flow (diamond, triangle, where one node is at two depths),
and the two kinds of cycle; there nothing fails and every start must succeed. In
the chain and the fork calls fail and the timeout fires, in the pair the
dependency also stops or never boots. A session verdict needs a member that
decides and one that does not, so two instances cover a blocking request; the
theorems cover any number. In the registry, members of a group meet only in its
list: one that stays and one that comes and goes show every order. Days of four
minutes hold windows that cross, touch and avoid midnight, and a week of two
days has its own boundary within the three days. A provider's calls meet at one
workload, and what one finds is the other's, an operator's or the platform's
doing: two callers give every overlap of a start and a stop, of two starts and
of two stops. Calls do not read what the stream reads, so the configurations
with a subscription have one caller. Two unread messages on a connection give a
stop that is followed by a start and overtaken by it; two versions of a unit
file a change between a look at its time and the read. One instance is enough in
Lifecycle: the watchers handle each by itself. `MaxWire`, `MaxEdits`,
`MaxStops`, `MaxEvents`, `MaxNotices`, `MaxTime`, `MaxPuts`, `MaxLen` bound
counters and queues, and occur only in guards. Deadlock is checked except in
`tinykv`, where the clock stops at its bound and the loop may have been stopped.

Fairness. Goroutines of the Go runtime run eventually: weak fairness of every
step of a request, of a start, of a stop, of the expiration loop. Provider
calls return, with success or failure, because they run under a context with a
deadline (`InstanceStartTimeout`) or a client timeout; events are delivered
when no fault says otherwise. Taking `affinityMu` has strong fairness: it is
free infinitely often but not continuously, and `sync.Mutex` hands itself to a
waiter that starved for a millisecond. `GroupWatch`'s ticker fires forever.
Nothing obliges clients to come back, a session to be requested, an instance
to be started or relabelled by others, except in `PollingSpec`, which says that
a waiting client asks again: the waiting page reloads itself, and a blocking
request polls. The timeout of a start fires if the start lasts, in the graphs
that have it; in the others a start must succeed without it.

A `select` with several ready cases chooses at random, so a case that is ready
again and again is taken in the end: strong fairness of handling an event and of
reading the groups in GroupRegistry (where a call of `InstanceGroups` also
returns a list now and then; `Converges` adds that from some time on the labels
stay and these lists are complete), and of the quit case in BlockingRequest. The
timeout of a blocking request and the departure of its client are never assumed.

In Providers the steps of a call, of the goroutine behind a stream and of its
consumer are weakly fair, as are the polls, the scans of GroupWatch and the
inspections clients cause by polling, and the platform gets on with its work. A
call that waits for it may also end with its context. Connections that drop,
operators and crashes are never obliged to act, or to stop acting. In Lifecycle
goroutines run and the tickers tick; the calls a watcher and a request make may
fail, but not for ever (strong fairness of `RequestPut`, `StopUnregistered` and
the steps of `seedSession`).

Each property has a mutant in `PROJECT.json`: an operator beside the definition
it replaces (`PutKeepsOldTimeout`, `RegisterUnchecked`, `EnsureUnshared`, …)
that makes the mistake the property is there to catch.

## Disagreements between code and documentation

These runs are expected to end in a counterexample. Each checks what a comment,
a test or a page of the documentation says; `PROJECT.json` quotes the lines.

* `request_retry` – after a failed start has been reported, the session keeps
  its status `starting`. Later requests take the branch for stored sessions,
  inspect the stopped instance and renew the session: as long as clients poll,
  nobody starts the instance again, although "entry cleared for retry".
* `docker_restart` (`StartKept` for a container with limits for its active
  profile and no idle replicas) – the container is stopped when its session
  expires, but a start only applies the limits, returns no error and leaves it
  down (`docker/container_start.go:41`), although
  `docs/content/how-to-guides/scaling-resources/scale-mode.md:60` says that
  Sablier "restarts it on demand".
* `proxmox_supersede` (`StopKept` for a plain container) – a stop that finds the
  container not up yet forgets the start task that works on it, returns no error,
  and the task brings the container up, although "the stop supersedes it"
  (`proxmoxlxc/container_stop.go:40`).

Behaviour met while modelling that has no run:

* a restore whose request is held, because an antagonist became active in the
  meantime, returns no error and clears the mark: the instance is not restored
  when that antagonist goes (`anti_affinity.go:231`; the comment at `:138` says
  that suppressed instances "are restored once none of their antagonists remain
  active");
* a second start that inspected a migration while it was running starts it again
  after it completed (`instance_dependency.go:227`; the comment at `:165` says
  that "Sablier never restarts a migration that has already done its work");
  hence the migration of the run has one dependent;
* a start that is over before its request has written the session is not known
  to `isStartedByUs` (`autostop.go:63`, whose comment speaks of "all timing
  windows"): the auto-stop watcher stops it. The ticker's scan does not look at
  pending starts at all, and `seedSession` may overwrite a session that was
  written after its look;
* expirations while the server drains run under a cancelled context, so that
  their stop fails; `storage.go:16` mentions a periodic flush that is not there;
* Docker: a container with idle replicas that is down for another reason stays
  down, as in `docker_restart` (`OnlyLimited`);
* Kubernetes: the channels of a stream are never closed and its handlers send
  without looking at the context, although
  `pkg/sablier/provider.go:27` asks for closed
  channels after a cancellation; `KeepsStreamContract` holds Kubernetes to the
  rest of the contract only (`Contract` hides the cancellation);
* Kubernetes: a failed read or write of the redis-operator's annotation is only
  logged and leaves the operator paused; so does a start that has scaled up and
  then fails to set the limits of its active profile, since the deferred function
  of `instance_start.go:62` resumes the operator only when the whole start
  succeeded, although its comment speaks of "a successful scale-up" and
  `instance_stop.go:71` says that the operator "is never left paused with pods
  still running". `OperatorNotLeftPaused` has these two as its only exceptions
  (`lapse`);
* lists that a provider shortens without an error: group members that were left
  out are pruned, and requests for the group miss them until the next complete
  list (for systemd, as long as the unit is not loaded). `MembersAreKept` names
  this as the one way in which a member is lost. The anti-affinity index drops
  such instances in the same way, and once it is empty the ticker does not
  rebuild it (`group_watch.go:65`);
* systemd: a unit that is unloaded between two polls gives a removed event and no
  stopped one; stopped events are made up for a unit that is down when a poll
  sees it for the first time (the first poll of a stream, a unit that was loaded),
  and for one that is down in another way than before (`systemctl reset-failed`,
  `clean`). `StoppedEventIsReal` names these as the only ones;
* Proxmox: a start is a no-op while the stop task of a call that gave up still
  runs; a stop does not look at whether its task failed
  (`container_stop.go:59`); an inspection that asked for one start task may
  forget the entry of a later one, whose failure nobody is told (`lapse` is raised
  in these cases and in that of `proxmox_supersede`, and `SettledAsAsked` has no
  other exception for Proxmox); the retry in `InstanceInspect` starts a container
  again that was stopped meanwhile; a node that a scan cannot reach makes its
  containers look stopped, which deletes their sessions (`StoppedEventIsReal`
  holds for configurations without skipped nodes);
* a session that expires while its start is in flight is stopped too early
  (`instance_expired.go:46` does not look at `pendingStarts`): the start
  completes afterwards and the instance runs with no session, until a watcher
  finds it (`NoOrphan`); the warming watcher takes the entry that a failed start
  left for a start of its own, and waits for a request to collect it;
* the same for an instance that is suppressed while its start is in flight: it
  comes up, stays marked, and is not looked at again while its antagonist is
  active (`anti_affinity.go:174`, `:199`);
* an instance whose anti-affinity label is removed while it is suppressed
  leaves the index and is never restored (`anti_affinity.go:171`);
* a dependent defers to a start that has already failed, because its entry
  stays in `pendingStarts` until its error is collected
  (`instance_dependency.go:208`), and polls until its own timeout;
* a client whose session would last beyond the end of a running-hours window
  loses the rest of it: the watcher's next request replaces the session by one
  that ends with the window (`running_hours_watch.go:62`);
* a name asked for both as required and as `optional:` gates a blocking request
  or not, depending on which goroutine writes the map last
  (`session_request.go:57`).

## Proofs

All proofs are for every value of the constants that satisfies the modules'
named assumptions: sets of instances, functions of the right shape, model values
outside those sets. `ConfigsAssumption` of Providers says what options and labels
a configuration has, any combination of them being allowed, and that only a
StatefulSet has a redis-operator; `CallerAssumption` that `"nobody"`, the owner
of a systemd job no call made, is not a caller. Nothing is assumed finite except
where said.

* **TinyKVProofs.** `TypeCorrect`, `TimeoutNeverLost`, `NeverNotifiedEarly`,
  `NotifiedOnce`, and `Refinement`: every behaviour is one of SessionStore
  without its fairness. The inductive invariant adds to the checked properties
  that pointers are fresh (identities below `puts`), that an entry sits under
  its own key, and that what was handed to the callback is out of the map; the
  last is what makes a notification unique across renewals.
  For TimeoutHeap, `HeapIsOrdered` and `HeapIsAPriorityQueue`: for any deadlines
  and lengths the array is ordered whenever no loop runs, no timeout is lost, and
  the one popped is a minimum of all, which is what `Roots` of TinyKV takes for
  granted. `UpOrdered` and `DownOrdered` say what is ordered within a loop: all
  but the element on its way, whose children already agree with its parent; and
  that the popped element waits at the end, less than nothing. That the root of an
  ordered heap is a minimum (`RootIsMinimum`) is shown by a least counterexample.
* **InstanceRequestProofs.** `SingleStart`: one start in flight whatever the
  requests, faults and outside events. Needs that an object in use is the
  entry of its instance (`InUseIsEntry`), which in turn needs
  `DoneEntryFailed`: a request may overwrite an entry only when its goroutine
  is over. `SuccessIsCleanedUp`, `TypeCorrect`, and the safety part of the
  refinement of SingleFlight. `FailuresAreHandedOver`, the safety part of
  `FailureIsReported`: an error of a start leaves the map only with a request that
  returns it or a new start that replaces it, and is returned once.
* **AntiAffinityProofs.** `RestoreIsGuarded`: a restore happens under
  `affinityMu` and for a marked instance only, although marks are also dropped
  by events. The invariant ties the program counters of the reconciliation,
  the watcher and the restoring request together.
* **DependencyStartProofs.** `SingleDependencyStart`, `MemoIsKept`, and
  `NothingLeftBehind`: for every graph, when a start moves on to the instance
  or gives up, no goroutine of it is left. The strengthening is `Rooted`: every
  active goroutine hangs below a node that is being handled, up to the root.
  It holds because a start with a cycle below it launches nothing, so the
  argument uses acyclicity of the graph below a flow. `DependenciesComeFirst`:
  `StartedInOrder` for every graph, set of flows, and failure of a start or an
  inspection. The strengthening `Ordered` says that a goroutine that ended well
  found its dependency in the declared condition, and that a node's start comes
  after the success of all goroutines of its group; `Life` which states an
  instance can be in where nothing fails by itself. The theorem is about graphs
  that are `Lasting`: a one-shot that somebody waits for to run or to have
  completed may leave that state again, since another flow may run it once more
  (see the second item of the list above). For a one-shot with a single dependent
  only TLC shows `StartedInOrder`.
  For DependencyGraph, `GraphIsResolved` and `CyclesAreFound`: for any
  declarations the two searches compute what they should. `ResolveInv`: a
  dependency of a node in the graph is in the graph, or the node's call has it
  still before it. `PathInv`: the calls in progress are a path, of exactly the
  nodes that are being visited, so meeting one of them closes a cycle;
  `VisitedInv` and `VisitedAcyclic`: what a visited node depends on is visited,
  and no set of visited nodes holds a cycle, since a node gets this colour after
  all it depends on. `SearchesMoveOn` is the variant: a step leaves fewer
  dependencies to look at, or as many and a call less, so that the recursion ends
  on every finite graph, as the comment of `resolveDependencyGraph` claims.
  `SearchesOfAFlow` connects the modules: `Reachable` and `Cyclic` of
  DependencyStart are what the searches answer.
* **BlockingRequestProofs.** `OptionalIsBestEffort`, `TimeoutsAreExplained`,
  `NeverBusy`, for any set of instances. The invariant says that at most one of
  handler and goroutine collects a session, which names are in the map while it
  does (`Collected`), and what may lie on the channels (`Sent`): an answer is
  right because the session was complete when it was sent.

* **RunningHoursProofs.** `WindowsAreRight` (the arithmetic over midnight and
  over the end of the week agrees with the declarative windows, for any length of
  day and week), `SessionsLast`, `InstanceIsHeldWarm`. The last needs `WarmInv`:
  while no tick is due, what the watcher is about to ask for is the rest of the
  window of this very minute, and a session it asked for is not over.
* **GroupRegistryProofs.** `RegistryIsFit` and `NoMemberIsLost`, for any set of
  instances, groups and interleaving of events with the loops of the
  reconciliation. `KeptInv`: no event is about an instance whose labels stay, and
  the reconciliation under way has read its present labels or has it left out;
  in the latter case alone is the instance pruned.
* **ProvidersProofs.** For every configuration of the five providers and any
  number of callers: `CallsSettle`, `OperatorIsResumed`, `LabelsStayFresh`,
  `StopsAreReal`, and `StreamsKeepContract`, the safety part of the refinement of
  EventStream. `CallsOK` is the part all providers share: at most one call is
  clean, and none is under way once `asked` says what it settled. Every step of
  a call has one of a few shapes (`GoesTo`, `Returns`, `Stay`), proved once; what
  is left is about the workload. `DockerFits`, `SystemdFits` and `Way` say what a
  call's step tells of the branches it took; `PausedInv` that a
  paused operator with pods running is in the hands of a call that will resume it,
  or that one failed to; `StopHolds` and `StartHolds` what stays true after a clean
  call of Proxmox, unless it lapsed. For the streams,
  `owed` is at least the number of stops among the unread messages plus the event
  on offer (`Told`), where a message is a stop by what the provider makes of it
  when it reads it: for Kubernetes by comparison with the version before
  (`StopsAfter`), for Proxmox by comparison of two polls, which needs that a
  container that is down and was up at the last poll has fallen since
  (`FallsAreKept`) and that one that is nowhere is down (`Placed`). For systemd
  every message that a unit is down carries a reason (`UnitMessages`), since one
  that was not down at the last poll and is now has fallen (`FallIsKept`).

Only model-checked: liveness and the fairness parts of the three refinements
(`KeepsPromise`, `KeepsSingleFlight`, `KeepsStreamContract`, and
`RequestsReturn`, the progress in `FailureIsReported`, `ReconcileReturns`,
`MarkIsCleared`, `StartsEnd`, `StartsSucceed`, `PollerEnds`, `ReadyIsNoticed`,
`Converges`, `StatusSettles`, `EveryStopIsSeen`, `NoOrphan`), which the prover
cannot do. That the searches end follows from `SearchesMoveOn` by well-founded
induction, which is not carried out in the prover either.

## What is not modelled

* The Valkey store (`pkg/store/valkey`): nothing in the repository constructs it;
  `setupStorage` always makes the in-memory store.
* The platforms behind the providers and their client libraries (Docker, the
  Kubernetes API server and informers, systemd, Proxmox): they are modelled from
  how the code uses them, and marked external.
* The metrics recorder and the webhook dispatcher observe the other parts and
  feed nothing back; the HTTP handlers translate the calls that are modelled.
* Names, labels and their parsing: the models take what the parsed labels say.
* Wire formats, HTTP routing, themes, configuration, tracing, logging and
  generators of documentation: no state of their own that the properties
  could be about.
* In the modules above: real time (sessions expire nondeterministically except
  in TinyKV and RunningHours), days on which clocks change, metrics and webhook
  calls, log messages; the deadlines in the file of sessions.

## Plan

1. *Done:* store (SessionStore, TinyKV, TimeoutHeap), request path
   (SingleFlight, InstanceRequest), dependencies (DependencyStart,
   DependencyGraph), anti-affinity (AntiAffinity), sessions of several
   instances (BlockingRequest), groups (GroupRegistry), running hours
   (RunningHours), the five providers and their event streams (Providers and the
   modules below it, EventStream), all with proofs.
2. *Done:* the process, its file and the watchers (Lifecycle), model-checked.
3. Proofs: the safety that `NoOrphan` rests on in Lifecycle; `StartedInOrder` for
   one-shots with a single dependent.
4. Webhook dispatcher (retries, a delivery per endpoint) and metrics recorder
   (gauges never negative) as observers of the request path; the decisions of
   the HTTP handlers.
