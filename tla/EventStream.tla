---------------------------- MODULE EventStream -----------------------------
(***************************************************************************)
(* What the comment on InstanceEventStream (pkg/sablier/provider.go)       *)
(* promises the consumers of a provider's events: events come one at a     *)
(* time on a channel that is open until the consumer's context is          *)
(* cancelled or the stream fails for good; then it is closed, once, and    *)
(* nothing is sent any more.  A cancelled stream is closed in the end, so  *)
(* that nobody waits on it for ever.                                       *)
(***************************************************************************)
VARIABLES
    chan,       \* "open" or "closed": the channels Events and Err
    cancelled,  \* the consumer's context
    out         \* the event a sender offers, or "none"

vars == <<chan, cancelled, out>>

Init == chan = "open" /\ ~cancelled /\ out = "none"

Send ==
    /\ chan = "open" /\ out = "none"
    /\ out' \in {"created", "started", "stopped", "removed"}
    /\ UNCHANGED <<chan, cancelled>>

Receive == out # "none" /\ out' = "none" /\ UNCHANGED <<chan, cancelled>>

Cancel == ~cancelled /\ cancelled' /\ UNCHANGED <<chan, out>>

(* The end: after a cancellation, or with a terminal error. *)
Close ==
    /\ chan = "open"
    /\ chan' = "closed" /\ out' = "none"
    /\ UNCHANGED cancelled

Next == Send \/ Receive \/ Cancel \/ Close

Spec == Init /\ [][Next]_vars /\ WF_vars(cancelled /\ Close)
=============================================================================
