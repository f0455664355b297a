----------------------------- MODULE Lifecycle ------------------------------
(***************************************************************************)
(* The life of a Sablier process (Start in pkg/sabliercmd/start.go) around *)
(* one instance: the session is restored from a file, expirations are      *)
(* subscribed to, stopped events remove the session, watchers stop or      *)
(* adopt what was started without Sablier, and on a signal the session is  *)
(* saved again.  Between any two steps the process may be killed, and the  *)
(* instance may be started or stopped by others.                           *)
(*                                                                         *)
(* The model asks what becomes of an instance that runs and has no         *)
(* session, for nothing will ever stop it: no session, no expiration.      *)
(***************************************************************************)
EXTENDS Naturals

CONSTANTS
    MaxEvents,  \* bound on the events of one kind that were not read yet
    MaxStops    \* bound on the stops of expired sessions under way

VARIABLES
    opts,      \* watch: "none", "stop" (AutoStopExternallyStarted) or "warm";
               \* onStartup: AutoStopOnStartup; file: Storage.File is set
    proc,      \* "off", "restored", "startup", "serving" or "draining"
    disk,      \* the file: "none", "empty", "session" or "torn"
    session,   \* the store has a session
    hook,      \* the store has Sablier's expiration callback
    up,        \* the instance: "down", "starting" or "ready"
    start,     \* the entry of pendingStarts: "none", "running", "done" (its
               \* goroutine is about to remove it) or "failed"
    request,   \* a request for the instance: "idle", or "put" when its start
               \* was dispatched and the session was not written yet
    stops,     \* goroutines of onInstanceExpired that have to stop it
    news,      \* events that were not read yet, by their type
    open,      \* types of events whose stream has not been closed
    watcher    \* where the watcher (or the scan at startup) is

vars == <<opts, proc, disk, session, hook, up, start, request, stops, news,
          open, watcher>>

Options ==
    [watch : {"none", "stop", "warm"}, onStartup : BOOLEAN, file : BOOLEAN]

Volatile ==
    /\ hook' = FALSE /\ start' = "none" /\ request' = "idle" /\ stops' = 0
    /\ news' = [stopped |-> 0, started |-> 0]
    /\ open' = {"stopped", "started"}
    /\ watcher' = "idle"

Init ==
    /\ opts \in Options
    /\ proc = "off" /\ disk = "none" /\ session = FALSE /\ hook = FALSE
    /\ up \in {"down", "ready"}
    /\ start = "none" /\ request = "idle" /\ stops = 0
    /\ news = [stopped |-> 0, started |-> 0]
    /\ open = {"stopped", "started"} /\ watcher = "idle"

Alive == proc # "off"

-----------------------------------------------------------------------------
(* The instance: who changes its state, and which events that leads to.    *)

(* The event of type is put on its stream, if somebody subscribed. *)
Tell(type, subscribed) ==
    IF subscribed /\ type \in open
    THEN news[type] < MaxEvents /\ news' = [news EXCEPT ![type] = @ + 1]
    ELSE UNCHANGED news

ComeUp ==
    /\ up = "down"
    /\ up' = "starting"
    /\ Tell("started", proc = "serving" /\ opts.watch # "none")

GoDown ==
    /\ up # "down"
    /\ up' = "down"
    /\ Tell("stopped", proc \in {"startup", "serving"})

Ready ==
    /\ up = "starting" /\ up' = "ready"
    /\ UNCHANGED <<opts, proc, disk, session, hook, start, request, stops,
                   news, open, watcher>>

(* Somebody else starts or stops it, or it ends by itself. *)
Operate ==
    /\ ComeUp \/ GoDown
    /\ UNCHANGED <<opts, proc, disk, session, hook, start, request, stops,
                   open, watcher>>

(* InstanceStop, called with the context of the process: it has to fail    *)
(* when that is cancelled, and may fail otherwise.                         *)
Stopped ==
    /\ proc # "draining"
    /\ IF up = "down" THEN UNCHANGED <<up, news>> ELSE GoDown

-----------------------------------------------------------------------------
(* Start. *)

(* setupStorage: loadFromFile restores the sessions.  A missing file is    *)
(* created; from one that cannot be read nothing is restored.              *)
setupStorage ==
    /\ proc = "off"
    /\ proc' = "restored"
    /\ session' = (opts.file /\ disk = "session")
    /\ disk' = IF opts.file /\ disk = "none" THEN "empty" ELSE disk
    /\ UNCHANGED <<opts, hook, up, start, request, stops, news, open, watcher>>

(* OnExpire, after the sessions were restored; the subscription to stopped *)
(* events; and StopAllUnregisteredInstances begins, if it is configured.   *)
OnExpire ==
    /\ proc = "restored"
    /\ proc' = "startup" /\ hook' = TRUE
    /\ watcher' = IF opts.onStartup /\ up # "down" THEN "scan" ELSE "idle"
    /\ UNCHANGED <<opts, disk, session, up, start, request, stops, news, open>>

(* The watchers and the server are started. *)
Serve ==
    /\ proc = "startup" /\ watcher = "idle"
    /\ proc' = "serving"
    /\ UNCHANGED <<opts, disk, session, hook, up, start, request, stops, news,
                   open, watcher>>

(* A signal, or the end of the HTTP server: the context is cancelled, so   *)
(* that watchers stop and event streams close.                             *)
Shutdown ==
    /\ proc = "serving"
    /\ proc' = "draining"
    /\ news' = [stopped |-> 0, started |-> 0] /\ open' = {}
    /\ UNCHANGED <<opts, disk, session, hook, up, start, request, stops,
                   watcher>>

Exit ==
    /\ proc' = "off"
    /\ session' = FALSE
    /\ Volatile
    /\ UNCHANGED <<opts, up>>

(* The server has drained its requests; saveToFile, whose failure is only  *)
(* logged, and the end of the process.                                     *)
Save ==
    /\ proc = "draining" /\ request = "idle"
    /\ disk' = IF ~opts.file THEN disk ELSE IF session THEN "session" ELSE "empty"
    /\ Exit

(* The process is killed; the file it was writing is torn. *)
Kill ==
    /\ Alive
    /\ \/ UNCHANGED disk
       \/ proc = "draining" /\ opts.file /\ disk' = "torn"
    /\ Exit

-----------------------------------------------------------------------------
(* Requests, as InstanceRequest models them in detail.                     *)

(* requestStart: dispatch a start, join the one under way, or report that  *)
(* the one before has failed.                                              *)
RequestStart ==
    /\ proc = "serving" /\ request = "idle" /\ ~session
    /\ \/ start = "none" /\ start' = "running" /\ request' = "put"
       \/ start \in {"running", "done"} /\ request' = "put" /\ UNCHANGED start
       \/ start = "failed" /\ start' = "none" /\ UNCHANGED request
    /\ UNCHANGED <<opts, proc, disk, session, hook, up, stops, news, open,
                   watcher>>

(* consumePendingError, while the session is not ready. *)
RequestPoll ==
    /\ proc = "serving" /\ request = "idle" /\ session
    /\ start = "failed" /\ start' = "none"
    /\ UNCHANGED <<opts, proc, disk, session, hook, up, request, stops, news,
                   open, watcher>>

(* The Put after the dispatch; when it fails there is no session. *)
RequestPut ==
    /\ request = "put" /\ request' = "idle"
    /\ session' = TRUE
    /\ UNCHANGED <<opts, proc, disk, hook, up, start, stops, news, open,
                   watcher>>

PutFails ==
    /\ request = "put" /\ request' = "idle"
    /\ UNCHANGED <<opts, proc, disk, session, hook, up, start, stops, news,
                   open, watcher>>

(* The goroutine of the start: it calls the provider, under a context of   *)
(* its own, and then removes its entry, unless it failed.                  *)
StartRuns ==
    /\ start = "running"
    /\ \/ /\ start' = "done"
          /\ IF up = "down" THEN ComeUp ELSE UNCHANGED <<up, news>>
       \/ start' = "failed" /\ UNCHANGED <<up, news>>
    /\ UNCHANGED <<opts, proc, disk, session, hook, request, stops, open,
                   watcher>>

StartEnds ==
    /\ start = "done" /\ start' = "none"
    /\ UNCHANGED <<opts, proc, disk, session, hook, up, request, stops, news,
                   open, watcher>>

-----------------------------------------------------------------------------
(* Expirations and stopped events. *)

(* The store drops the session and calls whoever has registered by then.   *)
Expire ==
    /\ session
    /\ Alive
    /\ session' = FALSE
    /\ stops' = IF hook THEN stops + 1 ELSE stops
    /\ stops' <= MaxStops
    /\ UNCHANGED <<opts, proc, disk, hook, up, start, request, news, open,
                   watcher>>

(* onInstanceExpired: the stop, or its failure (the instance cannot be     *)
(* inspected, is not enabled any more, or is not stopped).                 *)
onInstanceExpired ==
    /\ stops > 0 /\ stops' = stops - 1
    /\ Stopped \/ UNCHANGED <<up, news>>
    /\ UNCHANGED <<opts, proc, disk, session, hook, start, request, open,
                   watcher>>

(* The loop over stopped events: RemoveInstance. *)
RemoveInstance ==
    /\ news.stopped > 0
    /\ news' = [news EXCEPT !.stopped = @ - 1]
    /\ session' = FALSE
    /\ UNCHANGED <<opts, proc, disk, hook, up, start, request, stops, open,
                   watcher>>

(* A stream ends for good; the loop over stopped events ends with it. *)
StreamLost ==
    /\ proc = "serving"
    /\ \E type \in open :
        open' = open \ {type} /\ news' = [news EXCEPT ![type] = 0]
    /\ UNCHANGED <<opts, proc, disk, session, hook, up, start, request, stops,
                   watcher>>

-----------------------------------------------------------------------------
(* The watcher: WatchAndStopExternallyStarted or                           *)
(* WatchAndWarmExternallyStarted, and the scan at startup.                 *)

Watch(at, to) ==
    /\ watcher = at /\ watcher' = to
    /\ UNCHANGED <<opts, proc, disk, hook, start, request, stops, open>>

Idle == proc = "serving" /\ opts.watch # "none"

(* A started event. *)
WatchEvent ==
    /\ Idle /\ news.started > 0
    /\ news' = [news EXCEPT !.started = @ - 1]
    /\ Watch("idle", "pending")
    /\ UNCHANGED <<session, up>>

(* Mutant of WatchTick: the watcher ends with its stream. *)
WatchTickWhileOpen ==
    /\ Idle /\ up # "down" /\ "started" \in open
    /\ Watch("idle", IF opts.watch = "stop" THEN "scan" ELSE "pending")
    /\ UNCHANGED <<session, up, news>>

(* The ticker, which goes on when the stream is lost: list what runs.      *)
(* StopAllUnregisteredInstances looks only for a session,                  *)
(* WarmAllUnregisteredInstances at the pending starts too.                 *)
WatchTick ==
    /\ Idle /\ up # "down"
    /\ Watch("idle", IF opts.watch = "stop" THEN "scan" ELSE "pending")
    /\ UNCHANGED <<session, up, news>>

(* isStartedByUs: first the pending starts, then the session. *)
IsPending ==
    /\ Watch("pending", IF start # "none" THEN "idle" ELSE "get")
    /\ UNCHANGED <<session, up, news>>

IsRegistered ==
    /\ \/ Watch("get", IF session THEN "idle" ELSE "act")
       \/ Watch("scan", IF session THEN "idle" ELSE "act")
    /\ UNCHANGED <<session, up, news>>

Stopping == proc = "startup" \/ opts.watch = "stop"

(* stopFunc. *)
StopUnregistered ==
    /\ Stopping
    /\ Watch("act", "idle")
    /\ Stopped
    /\ UNCHANGED session

(* seedSession: look for a session again, inspect, and write one.  The     *)
(* store is not locked meanwhile.                                          *)
SeedGet ==
    /\ ~Stopping
    /\ Watch("act", IF session THEN "idle" ELSE "inspect")
    /\ UNCHANGED <<session, up, news>>

SeedInspect ==
    /\ Watch("inspect", IF up = "ready" THEN "put" ELSE "idle")
    /\ UNCHANGED <<session, up, news>>

SeedPut ==
    /\ Watch("put", "idle")
    /\ session' = TRUE
    /\ UNCHANGED <<up, news>>

(* A call of the provider or of the store fails: the watcher logs that. *)
WatchFails ==
    /\ watcher \in {"act", "inspect", "put"}
    /\ Watch(watcher, "idle")
    /\ UNCHANGED <<session, up, news>>

WatchStep ==
    \/ IsPending \/ IsRegistered \/ StopUnregistered \/ SeedGet
    \/ SeedInspect \/ SeedPut

-----------------------------------------------------------------------------
Next ==
    \/ Ready \/ Operate
    \/ setupStorage \/ OnExpire \/ Serve \/ Shutdown \/ Save \/ Kill
    \/ RequestStart \/ RequestPoll \/ RequestPut \/ PutFails
    \/ StartRuns \/ StartEnds
    \/ Expire \/ onInstanceExpired \/ RemoveInstance \/ StreamLost
    \/ WatchEvent \/ WatchTick \/ WatchStep \/ WatchFails

(* Goroutines run and the ticker ticks; calls of the provider and of the   *)
(* store do not fail for ever.                                             *)
Spec ==
    /\ Init /\ [][Next]_vars
    /\ WF_vars(StartRuns) /\ WF_vars(StartEnds) /\ SF_vars(RequestPut)
    /\ WF_vars(onInstanceExpired) /\ WF_vars(RemoveInstance)
    /\ WF_vars(WatchTick) /\ WF_vars(WatchStep)
    /\ SF_vars(StopUnregistered)
    /\ SF_vars(SeedGet) /\ SF_vars(SeedInspect) /\ SF_vars(SeedPut)

-----------------------------------------------------------------------------
Orphan == up = "ready" /\ ~session

(* Whatever leaves an instance running without a session - a stop that     *)
(* failed or came before the start it was to undo, a stopped event that    *)
(* came late and removed the session of a newer request, an expiration     *)
(* while nobody listened, a process that was killed, a file that was torn, *)
(* somebody else - with a watcher it does not stay so: it gets a session   *)
(* or is stopped, even when the stream of events is lost.  The warming     *)
(* watcher takes an entry that a failed start has left for one of          *)
(* Sablier's own starts, and waits for a request to remove it.             *)
NoOrphan ==
    (Orphan /\ proc = "serving" /\ opts.watch # "none") ~>
        \/ ~Orphan \/ proc # "serving"
        \/ opts.watch = "warm" /\ start = "failed"

=============================================================================
