---------------------------- MODULE SingleFlight ----------------------------
(***************************************************************************)
(* What requestStart promises of the starts of an instance: they do not    *)
(* overlap, each one ends, one that succeeded is cleaned up before another *)
(* begins, and one that failed is remembered until the failure is reported *)
(* to a request or another start takes its place.                          *)
(***************************************************************************)
CONSTANT Instance

VARIABLE phase  \* [Instance -> {"idle", "starting", "started", "failed"}]

Init == phase = [i \in Instance |-> "idle"]

Move(i, from, to) ==
    /\ phase[i] \in from
    /\ phase' = [phase EXCEPT ![i] = to]

Begin(i)   == Move(i, {"idle", "failed"}, "starting")
Succeed(i) == Move(i, {"starting"}, "started")
Fail(i)    == Move(i, {"starting"}, "failed")
CleanUp(i) == Move(i, {"started"}, "idle")
Report(i)  == Move(i, {"failed"}, "idle")

Next == \E i \in Instance :
            Begin(i) \/ Succeed(i) \/ Fail(i) \/ CleanUp(i) \/ Report(i)

SafetySpec == Init /\ [][Next]_phase

Fairness == \A i \in Instance : /\ WF_phase(Succeed(i) \/ Fail(i))
                                /\ WF_phase(CleanUp(i))

Spec == SafetySpec /\ Fairness
=============================================================================
