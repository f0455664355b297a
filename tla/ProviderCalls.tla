---------------------------- MODULE ProviderCalls ---------------------------
(***************************************************************************)
(* What the providers (pkg/provider/...) have in common, as Sablier uses   *)
(* them: calls of InstanceStart and InstanceStop on one workload, which    *)
(* several goroutines may make at the same time (an expiration's stop and  *)
(* a new request's start), and one subscription to the provider's events.  *)
(*                                                                         *)
(* A call is a sequence of steps, each of them one call of the platform's  *)
(* API; between two of them the other call, the platform or its operators  *)
(* may act.  Every module of a provider EXTENDS this one.                  *)
(***************************************************************************)
EXTENDS Naturals, Sequences

CONSTANTS
    Caller,   \* goroutines that call the provider
    MaxWire   \* bound on the platform's messages that were not read yet

VARIABLES
    cfg,     \* options of the provider and labels of the workload
    work,    \* the workload, as the platform keeps it
    calls,   \* the call each caller is in
    asked,   \* what the workload was last asked to do: "start" or "stop", by
             \* a call that returned no error and that nothing interfered
             \* with; "none" as soon as anything else touches the workload
    stream   \* the subscription and the goroutine that serves it

vars == <<cfg, work, calls, asked, stream>>

(* Kinds of resource limits: those whose label must be valid (CPU, memory) *)
(* and those whose invalid entries are skipped (devices).                  *)
Field == {"cpu", "io"}

(* The profile a call applies, the limits its labels name, what the limits *)
(* are once the valid ones of them were applied, and whether they were.    *)
Profile(op) == IF op = "start" THEN "active" ELSE "idle"

Named(op) == IF op = "start" THEN cfg.activeRes ELSE cfg.idleRes

Applied(op) ==
    [f \in Field |-> IF f \in Named(op) \ cfg.invalid THEN Profile(op)
                     ELSE work.limits[f]]

HasLimits(op) == work.limits = Applied(op)

-----------------------------------------------------------------------------
(* Calls. *)

(* clean: nothing interfered so far; fresh: what the call read is still    *)
(* the current version; undo: a failure has something to take back; seen:  *)
(* what the call remembers.                                                *)
NoCall == [op |-> "none", step |-> "idle", clean |-> FALSE, fresh |-> FALSE,
           undo |-> FALSE, seen |-> 0]

At(c, op, step) == calls[c].op = op /\ calls[c].step = step

(* A call begins.  cfg.callers are the goroutines that make calls: calls    *)
(* that overlap and events that overtake calls can be explored separately. *)
Begin(c, op) ==
    LET others == {d \in Caller \ {c} : calls[d] # NoCall} IN
    /\ calls[c] = NoCall
    /\ c \in cfg.callers
    /\ calls' = [d \in Caller |->
            IF d = c
            THEN [NoCall EXCEPT !.op = op, !.step = "begin",
                                !.clean = others = {}]
            ELSE [calls[d] EXCEPT !.clean = FALSE]]
    /\ asked' = "none"
    /\ UNCHANGED <<cfg, work, stream>>

Goto(c, step) ==
    /\ calls' = [calls EXCEPT ![c].step = step]
    /\ UNCHANGED <<cfg, asked>>

(* Read an object whose update the platform refuses if it was written in   *)
(* the meantime.                                                           *)
ReadAndGoto(c, step) ==
    /\ calls' = [calls EXCEPT ![c].step = step, ![c].fresh = TRUE]
    /\ UNCHANGED <<cfg, asked>>

(* What a write of the workload does to the calls in flight. *)
Interfere(cs, except) ==
    [d \in Caller |-> IF d \in except \/ cs[d] = NoCall THEN cs[d]
                      ELSE [cs[d] EXCEPT !.clean = FALSE, !.fresh = FALSE]]

(* Like Goto, by a step that wrote the workload. *)
WroteAndGoto(c, step) ==
    /\ calls' = Interfere([calls EXCEPT ![c].step = step], {c})
    /\ UNCHANGED <<cfg, asked>>

Return(c, ok) ==
    /\ calls' = [calls EXCEPT ![c] = NoCall]
    /\ asked' = IF ok /\ calls[c].clean THEN calls[c].op ELSE "none"
    /\ UNCHANGED cfg

(* Like Return, by a step that wrote the workload. *)
WroteAndReturn(c, ok) ==
    /\ calls' = Interfere([calls EXCEPT ![c] = NoCall], {})
    /\ asked' = IF ok /\ calls[c].clean THEN calls[c].op ELSE "none"
    /\ UNCHANGED cfg

(* The platform cannot be reached, or refuses: the call returns the error. *)
Fail(c) ==
    /\ calls[c] # NoCall
    /\ Return(c, FALSE)
    /\ UNCHANGED <<work, stream>>

(* Somebody else, or the workload itself, changes what calls rely on. *)
Disturb ==
    /\ calls' = Interfere(calls, {})
    /\ asked' = "none"
    /\ UNCHANGED cfg

(* The platform carries on with what it was told, and may write the object *)
(* a call has read.                                                        *)
Progress ==
    /\ calls' = [c \in Caller |-> [calls[c] EXCEPT !.fresh = FALSE]]
    /\ UNCHANGED <<cfg, asked>>

-----------------------------------------------------------------------------
(* The subscription, as its consumer sees it. *)

Wants(type) == type \in cfg.types

(* A stream before anything happened; with no types nobody subscribed. *)
NewStream == [chan |-> IF cfg.types = {} THEN "closed" ELSE "open",
              cancelled |-> FALSE, out |-> "none", owed |-> 0]

(* The consumer takes the event that is offered.  owed counts the stops    *)
(* the stream has yet to tell of.                                          *)
Receive ==
    /\ stream.out # "none"
    /\ ~stream.cancelled
    /\ stream' = [stream EXCEPT
            !.out = "none",
            !.owed = IF stream.out = "stopped" /\ @ > 0 THEN @ - 1 ELSE @]
    /\ UNCHANGED <<cfg, work, calls, asked>>

(* The consumer's context is cancelled; it stops reading. *)
Cancel ==
    /\ stream.chan = "open"
    /\ ~stream.cancelled
    /\ stream' = [stream EXCEPT !.cancelled = TRUE]
    /\ UNCHANGED <<cfg, work, calls, asked>>

(* The deferred close of both channels. *)
Closed == [stream EXCEPT !.chan = "closed", !.out = "none", !.owed = 0]
=============================================================================
