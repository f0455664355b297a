-------------------------- MODULE ProvidersProofs ---------------------------
(***************************************************************************)
(* For every set of callers and every configuration: a call that returned  *)
(* without an error, undisturbed, left the workload as it was asked to;    *)
(* the redis-operator does not stay paused; the label cache of systemd     *)
(* does not go stale; a stopped event stands for a stop, and the streams   *)
(* take only the steps that the contract of InstanceEventStream allows.    *)
(*                                                                         *)
(* The invariant has a part about the calls, the same for every provider,  *)
(* and a part for each of them. A call is seen through the shape of its    *)
(* steps: it goes on to another step, it returns, or it stays while the    *)
(* platform moves; the rest of the proof is about the workload. The second *)
(* half is about the streams: owed is at least the number of stops among   *)
(* the messages on the wire, plus one while a stopped event is on offer.   *)
(***************************************************************************)
EXTENDS Providers, FiniteSetTheorems, TLAPS

(* The records that calls holds.                                           *)
Step == {"idle", "begin", "apply", "unpause", "resume", "start", "stop", "wait",
         "pause", "read", "update", "owner", "skip", "getScale", "setScale",
         "limits", "fetch", "unskip", "restore", "labels", "enqueue", "done",
         "failed", "submit", "clear"}

Call == [op : {"none", "start", "stop", "inspect"}, step : Step,
         clean : BOOLEAN, fresh : BOOLEAN, undo : BOOLEAN, seen : Nat]

Changes(c) == calls[c].op \in {"start", "stop"}

(* At most one call is clean, that is has had the workload for itself, and *)
(* none is under way once asked says what a clean one settled.             *)
CallsOK ==
    /\ calls \in [Caller -> Call]
    /\ asked \in {"none", "start", "stop"}
    /\ \A c \in Caller : calls[c].op = "none" => calls[c] = NoCall
    /\ \A c \in Caller : calls[c].op = "inspect" => cfg.provider = "proxmox"
    /\ \A c \in Caller : calls[c].clean => Changes(c)
    /\ \A c, d \in Caller : calls[c].clean /\ d # c => ~Changes(d)
    /\ asked # "none" => \A c \in Caller : ~Changes(c)

(* The shapes of a step: c goes on to s, c returns, every call stays where *)
(* it is, every call stays under way.                                      *)
GoesTo(c, s) ==
    /\ calls' \in [Caller -> Call]
    /\ \A d \in Caller :
        /\ calls'[d].op = calls[d].op
        /\ calls'[d].step = IF d = c THEN s ELSE calls[d].step
        /\ calls'[d].undo = calls[d].undo
        /\ d # c => calls'[d].seen = calls[d].seen
        /\ calls'[d].clean => calls[d].clean
        /\ d # c /\ calls[d] = NoCall => calls'[d] = NoCall
    /\ asked' = asked
    /\ cfg' = cfg

Returns(c, ok) ==
    /\ calls' \in [Caller -> Call]
    /\ calls'[c] = NoCall
    /\ \A d \in Caller \ {c} :
        /\ calls'[d].op = calls[d].op
        /\ calls'[d].step = calls[d].step
        /\ calls'[d].undo = calls[d].undo
        /\ calls'[d].seen = calls[d].seen
        /\ calls'[d].clean => calls[d].clean
        /\ calls[d] = NoCall => calls'[d] = NoCall
    /\ asked' = IF ok /\ calls[c].clean THEN calls[c].op ELSE "none"
    /\ cfg' = cfg

Stay ==
    /\ calls' \in [Caller -> Call]
    /\ \A d \in Caller :
        /\ calls'[d].op = calls[d].op
        /\ calls'[d].step = calls[d].step
        /\ calls'[d].undo = calls[d].undo
        /\ calls'[d].seen = calls[d].seen
        /\ calls'[d].clean => calls[d].clean
        /\ calls[d] = NoCall => calls'[d] = NoCall
    /\ cfg' = cfg

Runs ==
    /\ calls' \in [Caller -> Call]
    /\ \A d \in Caller :
        /\ calls'[d].op = calls[d].op
        /\ calls'[d].clean => calls[d].clean
        /\ calls[d] = NoCall => calls'[d] = NoCall
    /\ cfg' = cfg

(* A step that writes the workload ends what is clean.                     *)
NoneClean(except) == \A d \in Caller \ except : ~calls'[d].clean

LEMMA NoCallType == NoCall \in Call /\ NoCall.op = "none" /\ NoCall.step = "idle" /\ NoCall.clean = FALSE
        /\ NoCall.undo = FALSE
  BY DEF NoCall, Call, Step

LEMMA SameCall ==
  ASSUME NEW r \in Call, NEW s \in Call,
         r.op = s.op, r.step = s.step, r.clean = s.clean, r.fresh = s.fresh,
         r.undo = s.undo, r.seen = s.seen
  PROVE  r = s
  BY DEF Call

LEMMA NoCallExcept ==
  /\ [NoCall EXCEPT !.fresh = FALSE] = NoCall
  /\ [NoCall EXCEPT !.clean = FALSE] = NoCall
<1> DEFINE r == [NoCall EXCEPT !.fresh = FALSE]
           s == [NoCall EXCEPT !.clean = FALSE]
<1>1. r \in Call /\ s \in Call /\ NoCall \in Call
  BY DEF NoCall, Call, Step
<1>2. /\ r.op = NoCall.op /\ r.step = NoCall.step /\ r.clean = NoCall.clean
      /\ r.fresh = NoCall.fresh /\ r.undo = NoCall.undo /\ r.seen = NoCall.seen
  BY DEF NoCall
<1>3. /\ s.op = NoCall.op /\ s.step = NoCall.step /\ s.clean = NoCall.clean
      /\ s.fresh = NoCall.fresh /\ s.undo = NoCall.undo /\ s.seen = NoCall.seen
  BY DEF NoCall
<1> HIDE DEF r, s
<1>4. r = NoCall
  BY ONLY <1>1, <1>2, SameCall
<1>5. s = NoCall
  BY ONLY <1>1, <1>3, SameCall
<1> QED  BY <1>4, <1>5 DEF r, s

LEMMA GotoGoes ==
  ASSUME calls \in [Caller -> Call], NEW c \in Caller, NEW s \in Step, Goto(c, s)
  PROVE  GoesTo(c, s)
  BY DEF Goto, GoesTo, Call

LEMMA ReadAndGotoGoes ==
  ASSUME calls \in [Caller -> Call], NEW c \in Caller, NEW s \in Step, ReadAndGoto(c, s)
  PROVE  GoesTo(c, s)
  BY DEF ReadAndGoto, GoesTo, Call

LEMMA WroteAndGotoGoes ==
  ASSUME calls \in [Caller -> Call], NEW c \in Caller, NEW s \in Step, WroteAndGoto(c, s)
  PROVE  GoesTo(c, s) /\ NoneClean({c})
  BY NoCallType DEF WroteAndGoto, Interfere, GoesTo, NoneClean, Call

LEMMA ReturnReturns ==
  ASSUME calls \in [Caller -> Call], NEW c \in Caller, NEW ok, Return(c, ok)
  PROVE  Returns(c, ok)
  BY NoCallType DEF Return, Returns

LEMMA WroteAndReturnReturns ==
  ASSUME calls \in [Caller -> Call], NEW c \in Caller, NEW ok, WroteAndReturn(c, ok)
  PROVE  Returns(c, ok) /\ NoneClean({})
  BY NoCallType DEF WroteAndReturn, Interfere, Returns, NoneClean, Call

LEMMA DisturbStays ==
  ASSUME calls \in [Caller -> Call], Disturb
  PROVE  Stay /\ NoneClean({}) /\ asked' = "none"
  BY NoCallType DEF Disturb, Interfere, Stay, NoneClean, Call

LEMMA ProgressStays ==
  ASSUME calls \in [Caller -> Call], Progress
  PROVE  Stay /\ asked' = asked
<1>1. ASSUME NEW d \in Caller
      PROVE  calls'[d] = [calls[d] EXCEPT !.fresh = FALSE]
  BY DEF Progress
<1>2. \A d \in Caller : calls[d] = NoCall => calls'[d] = NoCall
  BY <1>1, NoCallExcept
<1>3. calls' \in [Caller -> Call]
  BY DEF Progress, Call
<1> QED
  BY <1>1, <1>2, <1>3 DEF Progress, Stay, Call

LEMMA UnchangedStays ==
  ASSUME calls \in [Caller -> Call], UNCHANGED <<cfg, calls>>
  PROVE  Stay
  BY DEF Stay

LEMMA GoesOK ==
  ASSUME CallsOK, NEW c \in Caller, NEW s, GoesTo(c, s), calls[c].op # "none"
  PROVE  CallsOK'
  BY NoCallType DEF CallsOK, GoesTo, Changes

LEMMA ReturnsOK ==
  ASSUME CallsOK, NEW c \in Caller, NEW ok, Returns(c, ok)
  PROVE  CallsOK'
  BY NoCallType DEF CallsOK, Returns, Changes

LEMMA StayOK ==
  ASSUME CallsOK, Stay, asked' \in {"none", asked}
  PROVE  CallsOK'
  BY NoCallType DEF CallsOK, Stay, Changes

LEMMA RunsOK ==
  ASSUME CallsOK, Runs, asked' \in {"none", asked}
  PROVE  CallsOK'
  BY NoCallType DEF CallsOK, Runs, Changes

LEMMA BeginOK ==
  ASSUME CallsOK, NEW c \in Caller, NEW op \in {"start", "stop"}, Begin(c, op)
  PROVE  /\ CallsOK'
         /\ calls[c] = NoCall
         /\ calls'[c].op = op /\ calls'[c].step = "begin" /\ calls'[c].undo = FALSE
         /\ \A d \in Caller \ {c} :
                /\ calls'[d].op = calls[d].op /\ calls'[d].step = calls[d].step
                /\ calls'[d].undo = calls[d].undo /\ calls'[d].seen = calls[d].seen
                /\ ~calls'[d].clean
         /\ asked' = "none"
         /\ UNCHANGED <<cfg, work, stream>>
<1>1. calls[c] = NoCall /\ asked' = "none" /\ UNCHANGED <<cfg, work, stream>>
  BY DEF Begin
<1>2. \E b \in BOOLEAN :
        /\ b => \A d \in Caller \ {c} : calls[d] = NoCall
        /\ calls'[c] = [NoCall EXCEPT !.op = op, !.step = "begin", !.clean = b]
  <2> DEFINE b == {d \in Caller \ {c} : calls[d] # NoCall} = {}
  <2>1. calls'[c] = [NoCall EXCEPT !.op = op, !.step = "begin", !.clean = b]
    BY DEF Begin
  <2> QED  BY <2>1
<1>3. ASSUME NEW d \in Caller \ {c}
      PROVE  calls'[d] = [calls[d] EXCEPT !.clean = FALSE]
  BY <1>1 DEF Begin
<1>4. calls'[c] \in Call /\ calls'[c].op = op /\ calls'[c].step = "begin"
      /\ calls'[c].undo = FALSE /\ calls'[c].clean \in BOOLEAN
      /\ (calls'[c].clean => \A d \in Caller \ {c} : calls[d] = NoCall)
  <2>1. PICK b \in BOOLEAN :
        /\ b => \A d \in Caller \ {c} : calls[d] = NoCall
        /\ calls'[c] = [NoCall EXCEPT !.op = op, !.step = "begin", !.clean = b]
    BY <1>2
  <2> DEFINE r == [NoCall EXCEPT !.op = op, !.step = "begin", !.clean = b]
  <2>2. r \in Call /\ r.op = op /\ r.step = "begin" /\ r.undo = FALSE /\ r.clean = b
    BY DEF NoCall, Call, Step
  <2> HIDE DEF r
  <2>3. calls'[c] = r
    BY <2>1 DEF r
  <2> QED  BY <2>1, <2>2, <2>3
<1>5. ASSUME NEW d \in Caller \ {c}
      PROVE  /\ calls'[d] \in Call
             /\ calls'[d].op = calls[d].op /\ calls'[d].step = calls[d].step
             /\ calls'[d].undo = calls[d].undo /\ calls'[d].seen = calls[d].seen
             /\ calls'[d].clean = FALSE
             /\ calls[d] = NoCall => calls'[d] = NoCall
  <2>1. calls[d] \in Call
    BY DEF CallsOK
  <2> QED  BY <1>3, <2>1, NoCallExcept DEF Call
<1>6. calls' \in [Caller -> Call]
  BY <1>4, <1>5 DEF Begin
<1>7. CallsOK'
  BY <1>1, <1>4, <1>5, <1>6, NoCallType DEF CallsOK, Changes
<1> QED
  BY <1>1, <1>4, <1>5, <1>7

-----------------------------------------------------------------------------
(* Docker and Podman.                                                      *)
LEMMA DockerShapes ==
  ASSUME CallsOK
  PROVE  /\ \A c \in Caller, s \in Step : Docker!Goto(c, s) => GoesTo(c, s)
         /\ \A c \in Caller, s \in Step :
                Docker!WroteAndGoto(c, s) => GoesTo(c, s) /\ NoneClean({c})
         /\ \A c \in Caller, ok \in BOOLEAN : Docker!Return(c, ok) => Returns(c, ok)
         /\ \A c \in Caller, ok \in BOOLEAN :
                Docker!WroteAndReturn(c, ok) => Returns(c, ok) /\ NoneClean({})
         /\ Docker!Disturb => Stay /\ NoneClean({}) /\ asked' = "none"
         /\ Docker!Progress => Stay /\ asked' = asked
<1>1. calls \in [Caller -> Call]
  BY DEF CallsOK
<1>2. \A c \in Caller, s \in Step : Docker!Goto(c, s) => Goto(c, s)
  BY DEF Docker!Goto, Goto
<1>3. \A c \in Caller, s \in Step : Docker!WroteAndGoto(c, s) => WroteAndGoto(c, s)
  BY DEF Docker!WroteAndGoto, WroteAndGoto, Docker!Interfere, Interfere, Docker!NoCall, NoCall
<1>4. \A c \in Caller, ok \in BOOLEAN : Docker!Return(c, ok) => Return(c, ok)
  BY DEF Docker!Return, Return, Docker!NoCall, NoCall
<1>5. \A c \in Caller, ok \in BOOLEAN : Docker!WroteAndReturn(c, ok) => WroteAndReturn(c, ok)
  BY DEF Docker!WroteAndReturn, WroteAndReturn, Docker!Interfere, Interfere, Docker!NoCall,
     NoCall
<1>6. Docker!Disturb => Disturb
  BY DEF Docker!Disturb, Disturb, Docker!Interfere, Interfere, Docker!NoCall, NoCall
<1>7. Docker!Progress => Progress
  BY DEF Docker!Progress, Progress
<1> QED
  BY <1>1, <1>2, <1>3, <1>4, <1>5, <1>6, <1>7, GotoGoes, WroteAndGotoGoes,
     ReturnReturns, WroteAndReturnReturns, DisturbStays, ProgressStays

(* The limits of a workload, by field: none, or those of a profile.        *)
Limits == [Field -> {"none", "active", "idle"}]

DockerWork ==
    [state : {"created", "running", "paused", "restarting", "removing", "exited",
              "dead", "gone"},
     health : {"none", "starting", "healthy", "unhealthy"},
     code : {0, 1}, limits : Limits]

(* What the branches InstanceStart and InstanceStop took say of the        *)
(* configuration.                                                          *)
DockerFits(op, step) ==
    /\ op = "start" /\ step \in {"unpause", "resume", "start"}
            => cfg.activeRes = {} /\ cfg.idle = 0
    /\ op = "start" /\ step = "apply" => cfg.activeRes # {}
    /\ op = "stop" /\ step = "apply" => cfg.idle >= 1
    /\ op = "stop" /\ step \in {"stop", "wait"} => cfg.idle = 0 /\ cfg.strategy = "stop"
    /\ op = "stop" /\ step = "pause" => cfg.idle = 0 /\ cfg.strategy = "pause"

(* What a start achieves: in scale mode only the limits. *)
DockerStarted ==
    /\ Docker!HasLimits("start")
    /\ cfg.idle = 0 /\ cfg.activeRes = {} => Docker!Up

DockerInv ==
    /\ cfg \in DockerConfig
    /\ work \in DockerWork
    /\ \A c \in Caller : DockerFits(calls[c].op, calls[c].step)
    /\ asked = "start" => DockerStarted
    /\ asked = "stop" => Docker!Asleep

LEMMA DockerGoes ==
  ASSUME CallsOK, DockerInv, NEW c \in Caller, Changes(c), NEW s, GoesTo(c, s),
         DockerFits(calls[c].op, s), work' \in DockerWork
  PROVE  CallsOK' /\ DockerInv'
<1>1. CallsOK'
  BY GoesOK DEF Changes
<1>2. asked' = "none"
  BY DEF CallsOK, GoesTo
<1>3. \A d \in Caller : DockerFits(calls[d].op, calls[d].step)'
  BY DEF DockerInv, GoesTo, DockerFits
<1> QED
  BY <1>1, <1>2, <1>3 DEF DockerInv, GoesTo

LEMMA DockerReturns ==
  ASSUME CallsOK, DockerInv, NEW c \in Caller, NEW ok \in BOOLEAN, Returns(c, ok),
         work' \in DockerWork,
         ok /\ calls[c].op = "start" => DockerStarted',
         ok /\ calls[c].op = "stop" => Docker!Asleep'
  PROVE  CallsOK' /\ DockerInv'
<1>1. CallsOK'
  BY ReturnsOK
<1>2. \A d \in Caller : DockerFits(calls[d].op, calls[d].step)'
  BY NoCallType DEF DockerInv, Returns, DockerFits
<1> QED
  BY <1>1, <1>2 DEF DockerInv, Returns

LEMMA DockerStays ==
  ASSUME CallsOK, DockerInv, Stay, work' \in DockerWork,
         asked' # "none" => asked' = asked,
         asked' = "start" /\ DockerStarted => DockerStarted',
         asked' = "stop" /\ Docker!Asleep => Docker!Asleep'
  PROVE  CallsOK' /\ DockerInv'
<1>1. CallsOK'
  BY StayOK
<1>2. \A d \in Caller : DockerFits(calls[d].op, calls[d].step)'
  BY DEF DockerInv, Stay, DockerFits
<1> QED
  BY <1>1, <1>2 DEF DockerInv, Stay

LEMMA NothingToApply ==
  ASSUME work.limits \in Limits, NEW op \in {"start", "stop"}, Named(op) = {}
  PROVE  HasLimits(op)
  BY DEF Limits, HasLimits, Applied

LEMMA AppliedType ==
  ASSUME work.limits \in Limits, NEW op \in {"start", "stop"}
  PROVE  Applied(op) \in Limits
  BY DEF Limits, Applied, Profile, Field

LEMMA AppliedStays ==
  ASSUME work.limits \in Limits, NEW op \in {"start", "stop"}, cfg' = cfg,
         work'.limits = Applied(op)
  PROVE  HasLimits(op)'
  BY DEF Limits, HasLimits, Applied, Profile, Named

LEMMA DockerLimits ==
  \A op : /\ Docker!Applied(op) = Applied(op)
          /\ Docker!HasLimits(op) = HasLimits(op)
          /\ Docker!HasLimits(op)' = HasLimits(op)'
  BY DEF Docker!Applied, Applied, Docker!Named, Named, Docker!Profile, Profile, Docker!Field,
     Field,
     Docker!HasLimits, HasLimits

LEMMA DockerAsleep ==
  ASSUME cfg \in DockerConfig, cfg' = cfg
  PROVE  /\ cfg.idle >= 1 => (Docker!Asleep' <=> HasLimits("stop")')
         /\ cfg.idle = 0 /\ cfg.strategy = "pause" => (Docker!Asleep' <=> work'.state = "paused")
         /\ cfg.idle = 0 /\ cfg.strategy = "stop" => (Docker!Asleep' <=> ~Docker!Running(work'))
<1>1. CASE cfg.idle >= 1
  <2>1. cfg.idle # 0 /\ cfg'.idle # 0 /\ cfg'.idle >= 1
    BY <1>1 DEF DockerConfig
  <2> QED  BY <1>1, <2>1, DockerLimits DEF Docker!Asleep
<1>2. CASE cfg.idle = 0 /\ cfg.strategy = "pause"
  <2>1. ~(cfg.idle >= 1) /\ ~(cfg'.idle >= 1)
    BY <1>2
  <2> QED  BY <1>2, <2>1, DockerLimits DEF Docker!Asleep
<1>3. CASE cfg.idle = 0 /\ cfg.strategy = "stop"
  <2>1. ~(cfg.idle >= 1) /\ ~(cfg'.idle >= 1)
    BY <1>3
  <2> QED  BY <1>3, <2>1, DockerLimits DEF Docker!Asleep
<1> QED  BY <1>1, <1>2, <1>3

LEMMA DockerSame ==
  ASSUME cfg' = cfg, work' = work
  PROVE  (DockerStarted' <=> DockerStarted) /\ (Docker!Asleep' <=> Docker!Asleep)
  BY DEF DockerStarted, Docker!Asleep, Docker!HasLimits, Docker!Applied,
     Docker!Named, Docker!Up, Docker!Running

LEMMA DockerStartSingle ==
  ASSUME CallsOK, DockerInv, NEW c \in Caller, Docker!startSingle(c)
  PROVE  CallsOK' /\ DockerInv'
<1>1. /\ calls[c].op = "start" /\ Changes(c)
      /\ work' = work /\ work' \in DockerWork
  BY DEF Docker!startSingle, Docker!At, Changes, DockerInv
<1>2. CASE Docker!Return(c, FALSE)
  BY <1>1, <1>2, DockerShapes, DockerReturns
<1>3. CASE cfg.activeRes # {} /\ Docker!Goto(c, "apply")
  BY <1>1, <1>3, DockerShapes, DockerGoes DEF DockerFits, Step
<1>4. CASE /\ cfg.activeRes = {} /\ Docker!Return(c, TRUE)
           /\ cfg.idle = 0 => Docker!Up
  <2>1. DockerStarted
    BY <1>4, NothingToApply, DockerLimits DEF Named, DockerInv, DockerWork, DockerStarted
  <2>2. DockerStarted'
    BY <2>1, <1>4, <1>1, DockerSame DEF Docker!Return
  <2> QED  BY <1>1, <1>4, <2>2, DockerShapes, DockerReturns
<1>5. CASE /\ cfg.activeRes = {} /\ cfg.idle = 0
           /\ Docker!Goto(c, IF cfg.strategy = "pause" THEN "unpause" ELSE "start")
  <2> DEFINE s == IF cfg.strategy = "pause" THEN "unpause" ELSE "start"
  <2>1. s \in Step /\ DockerFits(calls[c].op, s)
    BY <1>1, <1>5 DEF Step, DockerFits
  <2>2. GoesTo(c, s)
    BY <1>5, <2>1, DockerShapes
  <2> HIDE DEF s
  <2> QED  BY <1>1, <2>1, <2>2, DockerGoes
<1>6. cfg.idle >= 1 => cfg.idle # 0
  BY DEF DockerInv, DockerConfig
<1> QED
  BY <1>2, <1>3, <1>4, <1>5, <1>6, Zenon DEF Docker!startSingle, Docker!Up

LEMMA DockerStartSteps ==
  ASSUME CallsOK, DockerInv, NEW c \in Caller,
         \/ Docker!dockerUnpause(c) \/ Docker!ContainerUnpause(c)
         \/ Docker!dockerStart(c)
  PROVE  CallsOK' /\ DockerInv'
<1>1. /\ calls[c].op = "start" /\ Changes(c)
      /\ cfg.activeRes = {} /\ cfg.idle = 0
      /\ work \in DockerWork
  BY DEF Docker!dockerUnpause, Docker!ContainerUnpause, Docker!dockerStart,
     Docker!At, Changes, DockerInv, DockerFits
<1>2. ASSUME work' \in DockerWork, cfg' = cfg, work'.state \in {"running", "restarting"}
      PROVE  DockerStarted'
  <2>1. HasLimits("start")'
    BY <1>1, <1>2 DEF HasLimits, Applied, Named, DockerWork, Limits
  <2> QED
    BY <1>2, <2>1, DockerLimits DEF DockerStarted, Docker!Up, Docker!Running
<1>3. CASE Docker!Return(c, FALSE) /\ UNCHANGED <<work, stream>>
  BY <1>1, <1>3, DockerShapes, DockerReturns
<1>4. CASE Docker!dockerUnpause(c) /\ ~(Docker!Return(c, FALSE) /\ UNCHANGED <<work, stream>>)
  <2> DEFINE s == IF work.state = "paused" THEN "resume" ELSE "start"
  <2>1. work' = work /\ s \in Step /\ DockerFits(calls[c].op, s) /\ Docker!Goto(c, s)
    BY <1>1, <1>4, Zenon DEF Step, DockerFits, Docker!dockerUnpause
  <2>2. GoesTo(c, s)
    BY <2>1, DockerShapes
  <2> HIDE DEF s
  <2> QED  BY <1>1, <2>1, <2>2, DockerGoes
<1>5. CASE Docker!WroteAndReturn(c, TRUE) /\ work' \in DockerWork /\ work'.state = "running"
  BY <1>1, <1>2, <1>5, DockerShapes, DockerReturns DEF Returns
<1>6. CASE Docker!ContainerUnpause(c) /\ ~(Docker!Return(c, FALSE) /\ UNCHANGED <<work, stream>>)
  <2>1. Docker!WroteAndReturn(c, TRUE) /\ work' = [work EXCEPT !.state = "running"]
    BY <1>6 DEF Docker!ContainerUnpause, Docker!SetState
  <2> QED  BY <1>1, <2>1, <1>5 DEF DockerWork
<1>7. CASE Docker!dockerStart(c)
  <2>1. CASE work.state \in {"created", "exited"}
    <3>1. Docker!WroteAndReturn(c, TRUE) /\ work' = Docker!Booted
      BY <1>7, <2>1, Zenon DEF Docker!dockerStart, Docker!SetState
    <3> QED  BY <1>1, <3>1, <1>5 DEF DockerWork, Docker!Booted
  <2>2. CASE work.state \notin {"created", "exited"}
    <3> DEFINE ok == work.state \in {"running", "restarting"}
    <3>1. Docker!Return(c, ok) /\ UNCHANGED <<work, stream>>
      BY <1>7, <2>2, Zenon DEF Docker!dockerStart
    <3>4. ok \in BOOLEAN
      OBVIOUS
    <3>3. ok => DockerStarted'
      BY <1>1, <1>2, <3>1 DEF Docker!Return
    <3> HIDE DEF ok
    <3>2. Returns(c, ok)
      BY <3>1, <3>4, DockerShapes
    <3> QED  BY <1>1, <3>1, <3>2, <3>3, <3>4, DockerReturns
  <2> QED  BY <2>1, <2>2
<1> QED
  BY <1>3, <1>4, <1>6, <1>7, Zenon DEF Docker!dockerUnpause, Docker!ContainerUnpause

LEMMA DockerApplyResources ==
  ASSUME CallsOK, DockerInv, NEW c \in Caller, Docker!applyResources(c)
  PROVE  CallsOK' /\ DockerInv'
<1>1. /\ calls[c].step = "apply" /\ work \in DockerWork
      /\ calls[c].op \in {"none", "start", "stop", "inspect"}
  BY DEF Docker!applyResources, DockerInv, CallsOK, Call
<1>2. CASE Docker!Return(c, FALSE) /\ UNCHANGED work
  BY <1>1, <1>2, DockerShapes, DockerReturns
<1>3. CASE ~(Docker!Return(c, FALSE) /\ UNCHANGED work)
  <2> PICK op : op = calls[c].op
    OBVIOUS
  <2>1. work' = [work EXCEPT !.limits = Applied(op)] /\ Docker!WroteAndReturn(c, TRUE)
    BY <1>3, DockerLimits, Zenon DEF Docker!applyResources
  <2>2. Returns(c, TRUE)
    BY <2>1, DockerShapes
  <2>3. work' \in DockerWork
    BY <1>1, <2>1 DEF DockerWork, Limits, Applied, Profile
  <2>4. op \in {"start", "stop"} => HasLimits(op)'
    BY <1>1, <2>1, <2>2, AppliedStays DEF DockerWork, Returns
  <2>5. op = "start" => DockerStarted'
    BY <1>1, <2>2, <2>4, DockerLimits DEF DockerInv, DockerFits, DockerStarted, Returns
  <2>6. op = "stop" => Docker!Asleep'
    BY <1>1, <2>2, <2>4, DockerAsleep DEF DockerInv, DockerFits, Returns
  <2> QED  BY <1>1, <2>2, <2>3, <2>5, <2>6, DockerReturns
<1> QED
  BY <1>2, <1>3, Zenon DEF Docker!applyResources

LEMMA DockerStopSteps ==
  ASSUME CallsOK, DockerInv, NEW c \in Caller,
         \/ Docker!InstanceStop(c) \/ Docker!dockerStop(c)
         \/ Docker!ContainerWait(c) \/ Docker!dockerPause(c)
  PROVE  CallsOK' /\ DockerInv'
<1>1. /\ calls[c].op = "stop" /\ Changes(c) /\ work \in DockerWork /\ cfg \in DockerConfig
      /\ DockerFits(calls[c].op, calls[c].step)
  BY DEF Docker!InstanceStop, Docker!dockerStop, Docker!ContainerWait,
     Docker!dockerPause, Docker!At, Changes, DockerInv
<1>2. CASE Docker!Return(c, FALSE) /\ UNCHANGED work
  BY <1>1, <1>2, DockerShapes, DockerReturns
<1>3. ASSUME NEW s \in {"apply", "stop", "pause", "wait"}, Docker!Goto(c, s), UNCHANGED work,
             DockerFits(calls[c].op, s)
      PROVE  CallsOK' /\ DockerInv'
  BY <1>1, <1>3, DockerShapes, DockerGoes DEF Step
<1>4. CASE Docker!InstanceStop(c)
  <2>1. cfg.idle \in Nat /\ cfg.strategy \in {"stop", "pause"} /\ UNCHANGED work
    BY <1>1, <1>4 DEF DockerConfig, Docker!InstanceStop
  <2>2. CASE cfg.idle >= 1 /\ Docker!Goto(c, "apply")
    BY <1>1, <2>1, <2>2, <1>3 DEF DockerFits
  <2>3. CASE cfg.idle >= 1 /\ cfg.idleRes = {} /\ Docker!Return(c, TRUE)
    <3>1. HasLimits("stop")
      BY <1>1, <2>3, NothingToApply DEF Named, DockerWork
    <3>2. cfg' = cfg
      BY <2>3 DEF Docker!Return
    <3>3. HasLimits("stop")'
      BY <3>1, <3>2, <2>1 DEF HasLimits, Applied, Named
    <3>4. Docker!Asleep'
      BY <1>1, <2>3, <3>2, <3>3, DockerAsleep
    <3> QED  BY <1>1, <2>1, <2>3, <3>4, DockerShapes, DockerReturns
  <2>4. CASE cfg.idle = 0 /\ Docker!Goto(c, cfg.strategy)
    BY <1>1, <2>1, <2>4, <1>3 DEF DockerFits
  <2> QED
    BY <1>4, <1>2, <2>1, <2>2, <2>3, <2>4, Zenon DEF Docker!InstanceStop
<1>5. CASE Docker!dockerStop(c)
  <2>1. DockerFits(calls[c].op, "wait")
    BY <1>1, <1>5 DEF DockerFits, Docker!dockerStop, Docker!At
  <2>2. CASE Docker!Goto(c, "wait") /\ UNCHANGED work
    BY <2>1, <2>2, <1>3
  <2>3. CASE /\ Docker!WroteAndGoto(c, "wait")
             /\ \E code \in {0, 1} : work' = Docker!Exited("exited", code)
    <3>1. work' \in DockerWork
      BY <1>1, <2>3 DEF DockerWork, Docker!Exited
    <3> QED  BY <1>1, <2>1, <2>3, <3>1, DockerShapes, DockerGoes DEF Step
  <2> QED
    BY <1>5, <1>2, <2>2, <2>3 DEF Docker!dockerStop, Docker!SetState
<1>6. CASE Docker!ContainerWait(c)
  <2>1. UNCHANGED work /\ ~Docker!Running(work) /\ Docker!Return(c, Docker!Exists)
        /\ cfg.idle = 0 /\ cfg.strategy = "stop" /\ Docker!Exists \in BOOLEAN
    BY <1>1, <1>6 DEF Docker!ContainerWait, Docker!At, DockerFits, Docker!Exists
  <2>2. Docker!Asleep'
    BY <1>1, <2>1, DockerAsleep DEF Docker!Return, Docker!Running
  <2> QED  BY <1>1, <2>1, <2>2, DockerShapes, DockerReturns
<1>7. CASE Docker!dockerPause(c)
  <2>1. CASE work.state = "running"
    <3>1. work' = [work EXCEPT !.state = "paused"] /\ Docker!WroteAndReturn(c, TRUE)
      BY <1>7, <2>1 DEF Docker!dockerPause
    <3>2. work' \in DockerWork /\ work'.state = "paused" /\ cfg' = cfg
      BY <1>1, <3>1 DEF DockerWork, Docker!WroteAndReturn
    <3>3. Docker!Asleep'
      BY <1>1, <1>7, <3>2, DockerAsleep DEF DockerFits, Docker!dockerPause, Docker!At
    <3> QED  BY <1>1, <3>1, <3>2, <3>3, DockerShapes, DockerReturns
  <2>2. CASE work.state # "running"
    BY <1>2, <1>7, <2>2 DEF Docker!dockerPause
  <2> QED  BY <2>1, <2>2
<1> QED
  BY <1>4, <1>5, <1>6, <1>7

LEMMA DockerEnvironment ==
  ASSUME CallsOK, DockerInv, Docker!Settle \/ Docker!Environment
  PROVE  CallsOK' /\ DockerInv'
<1>1. work \in DockerWork /\ cfg \in DockerConfig
  BY DEF DockerInv
<1>2. \A w \in DockerWork, code \in {0, 1} :
        /\ \A st \in {"exited", "restarting", "removing"} :
                [w EXCEPT !.state = st, !.health = "none", !.code = code] \in DockerWork
        /\ \A st \in {"running", "paused", "gone", "dead", "created"} :
                [w EXCEPT !.state = st] \in DockerWork
        /\ \A h \in {"healthy", "unhealthy"} : [w EXCEPT !.health = h] \in DockerWork
  BY DEF DockerWork
<1>3. Docker!Booted \in DockerWork
  BY <1>1 DEF DockerWork, Docker!Booted
<1>4. CASE Docker!Disturb /\ work' \in DockerWork
  BY <1>4, DockerShapes, DockerStays
<1>5. ASSUME Docker!Progress, work' \in DockerWork, work'.limits = work.limits,
             Docker!Running(work) /\ Docker!Running(work'),
             work.state # "paused" /\ work'.state # "paused"
      PROVE  CallsOK' /\ DockerInv'
  <2>1. Stay /\ asked' = asked /\ cfg' = cfg
    BY <1>5, DockerShapes DEF Stay
  <2>2. DockerStarted => DockerStarted'
    BY <1>5, <2>1 DEF DockerStarted, Docker!HasLimits, Docker!Applied,
       Docker!Named, Docker!Up, Docker!Running
  <2>3. Docker!Asleep => Docker!Asleep'
    <3>1. HasLimits("stop") => HasLimits("stop")'
      BY <1>5, <2>1 DEF HasLimits, Applied, Named
    <3>2. Docker!Asleep => cfg.idle >= 1 /\ HasLimits("stop")
      BY <1>1, <1>5, DockerLimits DEF Docker!Asleep, DockerConfig
    <3> QED  BY <1>1, <2>1, <3>1, <3>2, DockerAsleep
  <2> QED  BY <1>5, <2>1, <2>2, <2>3, DockerStays
<1>6. CASE Docker!Heal
  <2>1. /\ Docker!Progress /\ work.state = "running"
        /\ work' = [work EXCEPT !.health = "healthy"]
    BY <1>6 DEF Docker!Heal, Docker!SetState
  <2>2. work' \in DockerWork /\ work'.state = work.state /\ work'.limits = work.limits
    BY <1>1, <2>1 DEF DockerWork
  <2> QED  BY <1>5, <2>1, <2>2 DEF Docker!Running
<1>7. CASE Docker!Restart
  BY <1>1, <1>3, <1>5, <1>7 DEF Docker!Restart, Docker!SetState, DockerWork, Docker!Running,
     Docker!Booted
<1>8. CASE Docker!Sicken
  BY <1>1, <1>2, <1>4, <1>8 DEF Docker!Sicken, Docker!SetState
<1>9. CASE Docker!Crash
  BY <1>1, <1>2, <1>4, <1>9 DEF Docker!Crash, Docker!SetState, Docker!Exited
<1>10. CASE Docker!Operate
  <2>1. work' \in DockerWork
    BY <1>1, <1>2, <1>3, <1>10 DEF Docker!Operate, Docker!SetState, Docker!Exited
  <2> QED  BY <2>1, <1>4, <1>10 DEF Docker!Operate
<1>11. CASE Docker!Drop
  BY <1>1, <1>11, DockerSame, DockerStays, UnchangedStays
     DEF Docker!Drop, Docker!Streaming, CallsOK
<1> QED
  BY <1>6, <1>7, <1>8, <1>9, <1>10, <1>11 DEF Docker!Settle, Docker!Environment

LEMMA DockerStep ==
  ASSUME CallsOK, DockerInv, Next
  PROVE  CallsOK' /\ DockerInv'
<1>1. cfg.provider = "docker" /\ work \in DockerWork
  BY DEF DockerInv, DockerConfig
<1>2. CASE UNCHANGED <<cfg, work, calls, asked>>
  BY <1>1, <1>2, DockerSame, DockerStays, UnchangedStays DEF CallsOK
<1>3. ASSUME NEW c \in Caller, NEW op \in {"start", "stop"}, Begin(c, op)
      PROVE  CallsOK' /\ DockerInv'
  BY <1>1, <1>3, BeginOK DEF DockerInv, DockerFits
<1>4. ASSUME NEW c \in Caller, Fail(c)
      PROVE  CallsOK' /\ DockerInv'
  BY <1>1, <1>4, ReturnReturns, DockerReturns DEF Fail, CallsOK
<1>5. ASSUME NEW c \in Caller, Docker!CallStep(c)
      PROVE  CallsOK' /\ DockerInv'
  BY <1>5, DockerStartSingle, DockerStartSteps, DockerApplyResources, DockerStopSteps
     DEF Docker!CallStep
<1>6. CASE Docker!ServeDocker \/ Docker!Close \/ Receive \/ Cancel
  BY <1>2, <1>6 DEF Docker!ServeDocker, Docker!Serve, Docker!Dial, Docker!Redial,
     Docker!Consume, Docker!Close, Docker!Streaming, Receive, Cancel
<1> QED
  BY <1>1, <1>3, <1>4, <1>5, <1>6, DockerEnvironment
     DEF Next, Is, CallStep, CallFails, Serve, Poll, Close, Scan, Inspect, Settle,
         Environment

-----------------------------------------------------------------------------
(* Docker Swarm.                                                           *)
LEMMA SwarmShapes ==
  ASSUME CallsOK
  PROVE  /\ \A c \in Caller, s \in Step : Swarm!Goto(c, s) => GoesTo(c, s)
         /\ \A c \in Caller, s \in Step : Swarm!ReadAndGoto(c, s) => GoesTo(c, s)
         /\ \A c \in Caller, ok \in BOOLEAN : Swarm!Return(c, ok) => Returns(c, ok)
         /\ \A c \in Caller, ok \in BOOLEAN :
                Swarm!WroteAndReturn(c, ok) => Returns(c, ok) /\ NoneClean({})
         /\ Swarm!Disturb => Stay /\ NoneClean({}) /\ asked' = "none"
         /\ Swarm!Progress => Stay /\ asked' = asked
<1>1. calls \in [Caller -> Call]
  BY DEF CallsOK
<1>2. \A c \in Caller, s \in Step : Swarm!Goto(c, s) => Goto(c, s)
  BY DEF Swarm!Goto, Goto
<1>3. \A c \in Caller, s \in Step : Swarm!ReadAndGoto(c, s) => ReadAndGoto(c, s)
  BY DEF Swarm!ReadAndGoto, ReadAndGoto
<1>4. \A c \in Caller, ok \in BOOLEAN : Swarm!Return(c, ok) => Return(c, ok)
  BY DEF Swarm!Return, Return, Swarm!NoCall, NoCall
<1>5. \A c \in Caller, ok \in BOOLEAN : Swarm!WroteAndReturn(c, ok) => WroteAndReturn(c, ok)
  BY DEF Swarm!WroteAndReturn, WroteAndReturn, Swarm!Interfere, Interfere, Swarm!NoCall, NoCall
<1>6. Swarm!Disturb => Disturb
  BY DEF Swarm!Disturb, Disturb, Swarm!Interfere, Interfere, Swarm!NoCall, NoCall
<1>7. Swarm!Progress => Progress
  BY DEF Swarm!Progress, Progress
<1> QED
  BY <1>1, <1>2, <1>3, <1>4, <1>5, <1>6, <1>7, GotoGoes, ReadAndGotoGoes,
     ReturnReturns, WroteAndReturnReturns, DisturbStays, ProgressStays

SwarmWork ==
    [exists : BOOLEAN, replicas : Nat, tasks : Nat, limits : Limits]

SwarmInv ==
    /\ cfg \in SwarmConfig
    /\ work \in SwarmWork
    /\ asked = "start" => Swarm!Awake
    /\ asked = "stop" => Swarm!Asleep

LEMMA SwarmLimits ==
  \A op : /\ Swarm!Applied(op) = Applied(op)
          /\ Swarm!HasLimits(op) = HasLimits(op)
          /\ Swarm!HasLimits(op)' = HasLimits(op)'
  BY DEF Swarm!Applied, Applied, Swarm!Named, Named, Swarm!Profile, Profile, Swarm!Field,
     Field,
     Swarm!HasLimits, HasLimits

LEMMA SwarmSame ==
  ASSUME cfg' = cfg, work'.replicas = work.replicas, work'.limits = work.limits
  PROVE  (Swarm!Awake' <=> Swarm!Awake) /\ (Swarm!Asleep' <=> Swarm!Asleep)
  BY DEF Swarm!Awake, Swarm!Asleep, Swarm!HasLimits, Swarm!Applied, Swarm!Named

LEMMA SwarmReturns ==
  ASSUME CallsOK, SwarmInv, NEW c \in Caller, NEW ok \in BOOLEAN, Returns(c, ok),
         work' \in SwarmWork,
         ok /\ calls[c].op = "start" => Swarm!Awake',
         ok /\ calls[c].op = "stop" => Swarm!Asleep'
  PROVE  CallsOK' /\ SwarmInv'
  BY ReturnsOK DEF SwarmInv, Returns

LEMMA SwarmStays ==
  ASSUME CallsOK, SwarmInv, Stay, work' \in SwarmWork,
         \/ asked' = "none"
         \/ asked' = asked /\ work'.replicas = work.replicas /\ work'.limits = work.limits
  PROVE  CallsOK' /\ SwarmInv'
  BY StayOK, SwarmSame DEF SwarmInv, Stay

LEMMA SwarmCallSteps ==
  ASSUME CallsOK, SwarmInv, NEW c \in Caller, Swarm!CallStep(c)
  PROVE  CallsOK' /\ SwarmInv'
<1>1. work \in SwarmWork /\ cfg \in SwarmConfig
  BY DEF SwarmInv
<1>2. Changes(c)
  BY <1>1, NoCallType DEF Swarm!CallStep, Swarm!InstanceStart, Swarm!InstanceStop,
     Swarm!ReadService, Swarm!ServiceUpdateScale, Swarm!At, CallsOK, Changes, Call,
     SwarmConfig
<1>3. CASE Swarm!Return(c, FALSE) /\ UNCHANGED <<work, stream>>
  BY <1>1, <1>3, SwarmShapes, SwarmReturns
<1>4. ASSUME NEW s \in {"read", "update"}, GoesTo(c, s), UNCHANGED <<work, stream>>
      PROVE  CallsOK' /\ SwarmInv'
  BY <1>1, <1>2, <1>4, GoesOK DEF GoesTo, SwarmInv, Changes, CallsOK
<1>5. CASE Swarm!ReadLabels(c)
  BY <1>3, <1>4, <1>5, SwarmShapes DEF Swarm!ReadLabels, Step
<1>6. CASE Swarm!ReadService(c)
  BY <1>3, <1>4, <1>6, SwarmShapes DEF Swarm!ReadService, Step
<1>7. CASE Swarm!ServiceUpdateScale(c)
  <2> PICK op : op = calls[c].op
    OBVIOUS
  <2>1. CASE /\ work' = [work EXCEPT
                    !.replicas = IF op = "start" THEN cfg.active ELSE cfg.idle,
                    !.limits = Applied(op)]
             /\ \E ok \in BOOLEAN : Swarm!WroteAndReturn(c, ok)
    <3>1. PICK ok \in BOOLEAN : Returns(c, ok)
      BY <2>1, SwarmShapes
    <3>2. op \in {"start", "stop"}
      BY <1>2 DEF Changes
    <3>3. work' \in SwarmWork
      BY <1>1, <2>1, <3>2, AppliedType DEF SwarmWork, SwarmConfig
    <3>4. work'.limits = Applied(op)
      BY <1>1, <2>1 DEF SwarmWork
    <3>5. HasLimits(op)' /\ cfg' = cfg
      BY <1>1, <3>1, <3>2, <3>4, AppliedStays DEF SwarmWork, Returns
    <3>6. op = "start" => Swarm!Awake'
      BY <1>1, <2>1, <3>5, SwarmLimits DEF Swarm!Awake, SwarmWork
    <3>7. op = "stop" => Swarm!Asleep'
      BY <1>1, <2>1, <3>5, SwarmLimits DEF Swarm!Asleep, SwarmWork
    <3> QED  BY <3>1, <3>3, <3>6, <3>7, SwarmReturns
  <2> QED
    BY <1>3, <1>7, <2>1, SwarmLimits, Zenon DEF Swarm!ServiceUpdateScale, Swarm!SetService
<1> QED
  BY <1>5, <1>6, <1>7 DEF Swarm!CallStep, Swarm!InstanceStart, Swarm!InstanceStop

LEMMA SwarmStep ==
  ASSUME CallsOK, SwarmInv, Next
  PROVE  CallsOK' /\ SwarmInv'
<1>1. cfg.provider = "swarm" /\ work \in SwarmWork
  BY DEF SwarmInv, SwarmConfig
<1>2. CASE UNCHANGED <<cfg, work, calls, asked>>
  BY <1>1, <1>2, SwarmStays, UnchangedStays DEF CallsOK
<1>3. ASSUME NEW c \in Caller, NEW op \in {"start", "stop"}, Begin(c, op)
      PROVE  CallsOK' /\ SwarmInv'
  BY <1>1, <1>3, BeginOK DEF SwarmInv
<1>4. ASSUME NEW c \in Caller, Fail(c)
      PROVE  CallsOK' /\ SwarmInv'
  BY <1>1, <1>4, ReturnReturns, SwarmReturns DEF Fail, CallsOK
<1>5. CASE Swarm!ServeSwarm \/ Swarm!Close \/ Receive \/ Cancel
  BY <1>2, <1>5 DEF Swarm!ServeSwarm, Swarm!Serve, Swarm!Dial, Swarm!Redial,
     Swarm!Consume, Swarm!Close, Swarm!Streaming, Receive, Cancel
<1>6. CASE Swarm!Settle
  <2>1. /\ work' \in SwarmWork /\ work'.replicas = work.replicas
        /\ work'.limits = work.limits
    BY <1>1, <1>6 DEF Swarm!Settle, SwarmWork
  <2> QED  BY <1>6, <2>1, SwarmShapes, SwarmStays DEF Swarm!Settle
<1>7. CASE Swarm!TaskEnds \/ Swarm!Operate
  <2>1. work' \in SwarmWork
    <3>1. CASE Swarm!TaskEnds
      BY <1>1, <3>1 DEF Swarm!TaskEnds, SwarmWork
    <3>2. CASE Swarm!Operate
      <4>1. \A n \in 0..2 : [work EXCEPT !.replicas = n] \in SwarmWork
        BY <1>1 DEF SwarmWork
      <4>2. [work EXCEPT !.exists = FALSE, !.replicas = 0, !.tasks = 0] \in SwarmWork
        BY <1>1 DEF SwarmWork
      <4>3. [work EXCEPT !.exists = TRUE] \in SwarmWork
        BY <1>1 DEF SwarmWork
      <4> QED  BY <3>2, <4>1, <4>2, <4>3, Zenon DEF Swarm!Operate, Swarm!SetService
    <3> QED  BY <1>7, <3>1, <3>2
  <2> QED  BY <1>7, <2>1, SwarmShapes, SwarmStays DEF Swarm!TaskEnds, Swarm!Operate
<1>8. CASE Swarm!Drop
  BY <1>2, <1>8 DEF Swarm!Drop, Swarm!Streaming
<1> QED
  BY <1>1, <1>3, <1>4, <1>5, <1>6, <1>7, <1>8, SwarmCallSteps
     DEF Next, Is, CallStep, CallFails, Serve, Poll, Close, Scan, Inspect, Settle,
         Environment, Swarm!Environment

-----------------------------------------------------------------------------
(* Kubernetes.                                                             *)
LEMMA KubernetesShapes ==
  ASSUME CallsOK
  PROVE  /\ \A c \in Caller, s \in Step : Kubernetes!Goto(c, s) => GoesTo(c, s)
         /\ \A c \in Caller, s \in Step : Kubernetes!ReadAndGoto(c, s) => GoesTo(c, s)
         /\ \A c \in Caller, s \in Step :
                Kubernetes!WroteAndGoto(c, s) => GoesTo(c, s) /\ NoneClean({c})
         /\ \A c \in Caller, ok \in BOOLEAN : Kubernetes!Return(c, ok) => Returns(c, ok)
         /\ \A c \in Caller, ok \in BOOLEAN :
                Kubernetes!WroteAndReturn(c, ok) => Returns(c, ok) /\ NoneClean({})
         /\ Kubernetes!Disturb => Stay /\ NoneClean({}) /\ asked' = "none"
         /\ Kubernetes!Progress => Stay /\ asked' = asked
<1>1. calls \in [Caller -> Call]
  BY DEF CallsOK
<1>2. \A c \in Caller, s \in Step : Kubernetes!Goto(c, s) => Goto(c, s)
  BY DEF Kubernetes!Goto, Goto
<1>8. \A c \in Caller, s \in Step : Kubernetes!ReadAndGoto(c, s) => ReadAndGoto(c, s)
  BY DEF Kubernetes!ReadAndGoto, ReadAndGoto
<1>3. \A c \in Caller, s \in Step : Kubernetes!WroteAndGoto(c, s) => WroteAndGoto(c, s)
  BY DEF Kubernetes!WroteAndGoto, WroteAndGoto, Kubernetes!Interfere, Interfere,
     Kubernetes!NoCall, NoCall
<1>4. \A c \in Caller, ok \in BOOLEAN : Kubernetes!Return(c, ok) => Return(c, ok)
  BY DEF Kubernetes!Return, Return, Kubernetes!NoCall, NoCall
<1>5. \A c \in Caller, ok \in BOOLEAN : Kubernetes!WroteAndReturn(c, ok) => WroteAndReturn(c, ok)
  BY DEF Kubernetes!WroteAndReturn, WroteAndReturn, Kubernetes!Interfere, Interfere,
     Kubernetes!NoCall, NoCall
<1>6. Kubernetes!Disturb => Disturb
  BY DEF Kubernetes!Disturb, Disturb, Kubernetes!Interfere, Interfere, Kubernetes!NoCall,
     NoCall
<1>7. Kubernetes!Progress => Progress
  BY DEF Kubernetes!Progress, Progress
<1> QED
  BY <1>1, <1>2, <1>3, <1>4, <1>5, <1>6, <1>7, <1>8, GotoGoes, ReadAndGotoGoes,
     WroteAndGotoGoes,
     ReturnReturns, WroteAndReturnReturns, DisturbStays, ProgressStays

KubernetesWork ==
    [exists : BOOLEAN, replicas : Nat, ready : Nat, skip : BOOLEAN, lapse : BOOLEAN,
     limits : Limits]

(* An object of the redis-operator is never removed, and is marked for the *)
(* operator to skip only where InstanceStop scales it to nothing.          *)
KubernetesObject ==
    /\ work \in KubernetesWork
    /\ cfg.redis => work.exists
    /\ work.skip => cfg.redis /\ cfg.idle = 0

(* How a call came to its step.                                            *)
Way(op, step, undo) ==
    /\ step \notin {"idle", "begin"} => cfg.kind # "cnpgcluster"
    /\ step \in {"owner", "skip"} => op = "stop" /\ cfg.idle = 0
    /\ step = "skip" => cfg.redis
    /\ step = "limits" /\ op = "stop" => cfg.idle >= 1
    /\ step \in {"fetch", "unskip"} => op = "start"
    /\ undo => op = "stop" /\ cfg.idle = 0 /\ step \in {"getScale", "setScale", "restore"}

Target(op) == IF op = "start" THEN Kubernetes!activeReplicas ELSE cfg.idle

(* What a clean call has done to the object by the time of its step.       *)
Scaled(op, step) ==
    /\ step \in {"limits", "fetch", "unskip"} => work.replicas = Target(op)
    /\ step \in {"fetch", "unskip"} => HasLimits("start")

(* A call that is to take the annotation off again: a start that is past   *)
(* the scale-up, or a stop that could not scale down and undoes its own.   *)
Unpauses(d) ==
    \/ calls[d].step \in {"fetch", "unskip"} \/ calls[d].undo
    \/ calls[d].op = "start" /\ calls[d].step = "limits"

(* A paused operator with pods running is in the hands of such a call, or  *)
(* one of them has failed to resume it.                                    *)
PausedInv ==
    work.skip /\ work.replicas > 0 => work.lapse \/ \E d \in Caller : Unpauses(d)

KubernetesInv ==
    /\ cfg \in KubernetesConfig
    /\ cfg.redis => cfg.kind = "statefulset"
    /\ KubernetesObject
    /\ \A d \in Caller :
        /\ Way(calls[d].op, calls[d].step, calls[d].undo)
        /\ calls[d].clean => Scaled(calls[d].op, calls[d].step)
    /\ PausedInv
    /\ asked = "start" => Kubernetes!Awake
    /\ asked = "stop" => Kubernetes!Asleep

LEMMA KubernetesLimits ==
  \A op : /\ Kubernetes!Applied(op) = Applied(op)
          /\ Kubernetes!HasLimits(op) = HasLimits(op)
          /\ Kubernetes!HasLimits(op)' = HasLimits(op)'
  BY DEF Kubernetes!Applied, Applied, Kubernetes!Named, Named, Kubernetes!Profile, Profile,
     Kubernetes!Field, Field,
     Kubernetes!HasLimits, HasLimits

LEMMA ScaledSame ==
  ASSUME cfg' = cfg, work'.replicas = work.replicas, work'.limits = work.limits
  PROVE  /\ \A op, step : Scaled(op, step)' <=> Scaled(op, step)
         /\ Kubernetes!Awake' <=> Kubernetes!Awake
         /\ Kubernetes!Asleep' <=> Kubernetes!Asleep
  BY DEF Scaled, Target, HasLimits, Applied, Named, Kubernetes!activeReplicas,
     Kubernetes!Awake, Kubernetes!Asleep, Kubernetes!Cluster, Kubernetes!HasLimits,
     Kubernetes!Applied, Kubernetes!Named

LEMMA KubernetesGoes ==
  ASSUME CallsOK, KubernetesInv, NEW c \in Caller, Changes(c),
         NEW op, op = calls[c].op, NEW s, GoesTo(c, s),
         KubernetesObject', Way(op, s, calls[c].undo),
         calls[c].clean => Scaled(op, s)',
         \/ NoneClean({c})
         \/ work'.replicas = work.replicas /\ work'.limits = work.limits,
         PausedInv'
  PROVE  CallsOK' /\ KubernetesInv'
<1>1. CallsOK' /\ asked' = "none" /\ cfg' = cfg
  BY GoesOK DEF Changes, CallsOK, GoesTo
<1>2. ASSUME NEW d \in Caller
      PROVE  Way(calls[d].op, calls[d].step, calls[d].undo)'
  BY <1>1 DEF GoesTo, KubernetesInv, Way
<1>3. ASSUME NEW d \in Caller, calls'[d].clean
      PROVE  Scaled(calls[d].op, calls[d].step)'
  <2>1. CASE d = c
    BY <1>3, <2>1 DEF GoesTo, Scaled, Target
  <2>2. CASE d # c
    <3>1. calls[d].clean /\ Scaled(calls[d].op, calls[d].step)
      BY <1>3, <2>2 DEF GoesTo, KubernetesInv
    <3>2. Scaled(calls[d].op, calls[d].step)'
      BY <1>1, <1>3, <2>2, <3>1, ScaledSame DEF NoneClean, GoesTo, Scaled, Target, HasLimits,
         Applied, Named, Kubernetes!activeReplicas
    <3> QED  BY <3>2
  <2> QED  BY <2>1, <2>2
<1> QED
  BY <1>1, <1>2, <1>3 DEF KubernetesInv

LEMMA KubernetesReturns ==
  ASSUME CallsOK, KubernetesInv, NEW c \in Caller, NEW ok \in BOOLEAN, Returns(c, ok),
         KubernetesObject',
         ok /\ calls[c].clean /\ calls[c].op = "start" => Kubernetes!Awake',
         ok /\ calls[c].clean /\ calls[c].op = "stop" => Kubernetes!Asleep',
         \/ NoneClean({})
         \/ work'.replicas = work.replicas /\ work'.limits = work.limits,
         PausedInv'
  PROVE  CallsOK' /\ KubernetesInv'
<1>1. CallsOK' /\ cfg' = cfg
  BY ReturnsOK DEF Returns
<1>2. ASSUME NEW d \in Caller
      PROVE  Way(calls[d].op, calls[d].step, calls[d].undo)'
  BY <1>1, NoCallType DEF Returns, KubernetesInv, Way
<1>3. ASSUME NEW d \in Caller, calls'[d].clean
      PROVE  Scaled(calls[d].op, calls[d].step)'
  <2>1. /\ d # c /\ ~NoneClean({}) /\ calls[d].clean
        /\ Scaled(calls[d].op, calls[d].step)
    BY <1>3, NoCallType DEF Returns, NoneClean, KubernetesInv
  <2> QED  BY <1>1, <2>1, ScaledSame DEF Returns, Scaled, Target, HasLimits, Applied, Named,
     Kubernetes!activeReplicas
<1> QED
  BY <1>1, <1>2, <1>3 DEF KubernetesInv, Returns

LEMMA KubernetesStays ==
  ASSUME CallsOK, KubernetesInv, Stay, KubernetesObject',
         \/ NoneClean({}) /\ asked' = "none"
         \/ /\ asked' = asked
            /\ work'.replicas = work.replicas /\ work'.limits = work.limits,
         work'.skip => work.skip /\ (work'.replicas = 0 \/ work'.replicas = work.replicas),
         work'.lapse = work.lapse
  PROVE  CallsOK' /\ KubernetesInv'
<1>1. CallsOK' /\ cfg' = cfg
  BY StayOK DEF Stay
<1>2. ASSUME NEW d \in Caller
      PROVE  Way(calls[d].op, calls[d].step, calls[d].undo)'
  BY <1>1 DEF Stay, KubernetesInv, Way
<1>3. ASSUME NEW d \in Caller, calls'[d].clean
      PROVE  Scaled(calls[d].op, calls[d].step)'
  <2>1. /\ ~NoneClean({}) /\ calls[d].clean
        /\ Scaled(calls[d].op, calls[d].step)
    BY <1>3 DEF Stay, NoneClean, KubernetesInv
  <2> QED  BY <1>1, <2>1, ScaledSame DEF Stay, Scaled, Target, HasLimits, Applied, Named,
     Kubernetes!activeReplicas
<1>4. PausedInv'
  BY <1>1 DEF KubernetesInv, PausedInv, Unpauses, Stay, KubernetesObject, KubernetesWork
<1> QED
  BY <1>1, <1>2, <1>3, <1>4, ScaledSame DEF KubernetesInv

LEMMA PausedKept ==
  ASSUME KubernetesInv, NEW c \in Caller, cfg' = cfg, work' = work,
         \/ \E s : GoesTo(c, s) /\ (Unpauses(c) => s \in {"fetch", "unskip"} \/ calls[c].undo)
         \/ \E ok : Returns(c, ok) /\ ~Unpauses(c)
  PROVE  PausedInv'
  BY DEF KubernetesInv, PausedInv, Unpauses, GoesTo, Returns

LEMMA KubernetesReads ==
  ASSUME CallsOK, KubernetesInv, NEW c \in Caller,
         \/ Kubernetes!InstanceStart(c) \/ Kubernetes!InstanceStop(c)
         \/ Kubernetes!redisOperatorOwner(c) \/ Kubernetes!GetScale(c)
  PROVE  CallsOK' /\ KubernetesInv'
<1>1. /\ work' = work /\ cfg \in KubernetesConfig
      /\ Way(calls[c].op, calls[c].step, calls[c].undo) /\ KubernetesObject
  BY DEF Kubernetes!InstanceStart, Kubernetes!InstanceStop, Kubernetes!getWorkloadLabels,
     Kubernetes!redisOperatorOwner, Kubernetes!GetScale, KubernetesInv
<1>2. Changes(c)
  BY <1>1, NoCallType DEF Kubernetes!InstanceStart, Kubernetes!InstanceStop,
     Kubernetes!redisOperatorOwner, Kubernetes!GetScale, Kubernetes!At, CallsOK, Changes, Call, KubernetesConfig
<1>3. ASSUME NEW s \in {"owner", "skip", "getScale", "setScale"}, GoesTo(c, s),
             Way(calls[c].op, s, calls[c].undo),
             ~(calls[c].step \in {"limits", "fetch", "unskip"})
      PROVE  CallsOK' /\ KubernetesInv'
  <2>1. cfg' = cfg /\ KubernetesObject'
    BY <1>1, <1>3 DEF KubernetesObject, GoesTo
  <2>2. PausedInv'
    BY <1>1, <1>3, <2>1, PausedKept DEF Unpauses
  <2>3. \A op : Scaled(op, s)'
    BY <1>3 DEF Scaled
  <2> QED  BY <1>1, <1>2, <1>3, <2>1, <2>2, <2>3, KubernetesGoes
<1>4. CASE Kubernetes!InstanceStart(c) \/ Kubernetes!InstanceStop(c)
  <2>1. /\ calls[c].step = "begin" /\ calls[c].undo = FALSE /\ cfg.kind # "cnpgcluster"
        /\ \E s \in {"getScale", "owner"} :
            /\ s = "owner" => calls[c].op = "stop" /\ cfg.idle = 0
            /\ Kubernetes!Goto(c, s)
    <3>1. calls[c].step = "begin" /\ calls[c].undo = FALSE /\ cfg.kind # "cnpgcluster"
      BY <1>1, <1>4 DEF Way, Kubernetes!InstanceStart, Kubernetes!InstanceStop, Kubernetes!At,
         Kubernetes!getWorkloadLabels, Kubernetes!Cluster, CallsOK, Call
    <3>2. CASE Kubernetes!InstanceStart(c)
      BY <3>1, <3>2 DEF Kubernetes!InstanceStart, Kubernetes!getWorkloadLabels
    <3>3. CASE Kubernetes!InstanceStop(c)
      BY <3>1, <3>3, Zenon DEF Kubernetes!InstanceStop, Kubernetes!getWorkloadLabels,
         Kubernetes!ToZero
    <3> QED  BY <1>4, <3>1, <3>2, <3>3
  <2> QED  BY <1>1, <1>3, <2>1, KubernetesShapes DEF Way, Step
<1>5. CASE Kubernetes!redisOperatorOwner(c)
  <2>1. \E s \in {"skip", "getScale"} : (s = "skip" => cfg.redis) /\ Kubernetes!Goto(c, s)
    BY <1>5, Zenon DEF Kubernetes!redisOperatorOwner
  <2>2. calls[c].step = "owner"
    BY <1>5 DEF Kubernetes!redisOperatorOwner
  <2> QED  BY <1>1, <1>3, <2>1, <2>2, KubernetesShapes DEF Way, Step
<1>6. CASE Kubernetes!GetScale(c)
  <2>1. calls[c].step = "getScale" /\ Kubernetes!ReadAndGoto(c, "setScale")
    BY <1>6 DEF Kubernetes!GetScale
  <2> QED  BY <1>1, <1>3, <2>1, KubernetesShapes DEF Way, Step
<1> QED
  BY <1>4, <1>5, <1>6

LEMMA KubernetesFails ==
  ASSUME CallsOK, KubernetesInv, NEW c \in Caller, Kubernetes!FailKubernetes(c)
  PROVE  CallsOK' /\ KubernetesInv'
<1>1. /\ cfg \in KubernetesConfig /\ KubernetesObject /\ PausedInv
      /\ Way(calls[c].op, calls[c].step, calls[c].undo)
      /\ calls[c].step \in {"begin", "getScale", "setScale", "limits"}
      /\ calls[c].undo \in BOOLEAN
  BY DEF Kubernetes!FailKubernetes, KubernetesInv, CallsOK, Call
<1>2. Changes(c)
  BY <1>1, NoCallType DEF CallsOK, Changes, Call, KubernetesConfig
<1>3. CASE calls[c].undo
  <2>1. Kubernetes!Goto(c, "restore") /\ calls[c].op = "stop" /\ work' = work
    BY <1>1, <1>3 DEF Way, Kubernetes!FailKubernetes, Kubernetes!At
  <2>2. GoesTo(c, "restore") /\ Way(calls[c].op, "restore", calls[c].undo)
    BY <1>1, <1>3, <2>1, KubernetesShapes DEF Way, Step
  <2>3. cfg' = cfg /\ KubernetesObject'
    BY <1>1, <2>1, <2>2 DEF KubernetesObject, GoesTo
  <2>4. PausedInv'
    BY <1>3, <2>1, <2>2, <2>3, PausedKept
  <2>5. \A op : Scaled(op, "restore")'
    BY DEF Scaled
  <2> QED  BY <1>2, <2>1, <2>2, <2>3, <2>4, <2>5, KubernetesGoes
<1>4. CASE ~calls[c].undo
  <2>1. Kubernetes!Return(c, FALSE)
    BY <1>4 DEF Kubernetes!FailKubernetes
  <2>2. Returns(c, FALSE) /\ cfg' = cfg
    BY <2>1, KubernetesShapes DEF Returns
  <2>3. CASE Kubernetes!At(c, "start", "limits")
    <3>1. work' = [work EXCEPT !.lapse = work.skip]
      BY <2>3 DEF Kubernetes!FailKubernetes, Kubernetes!NotResumed
    <3>2. /\ work' \in KubernetesWork /\ work'.replicas = work.replicas
          /\ work'.limits = work.limits /\ work'.exists = work.exists
          /\ work'.skip = work.skip /\ work'.lapse = work.skip
      BY <1>1, <3>1 DEF KubernetesObject, KubernetesWork
    <3>3. KubernetesObject' /\ PausedInv'
      BY <1>1, <2>2, <3>2 DEF KubernetesObject, PausedInv
    <3> QED  BY <2>2, <3>2, <3>3, KubernetesReturns
  <2>4. CASE ~Kubernetes!At(c, "start", "limits")
    <3>1. work' = work /\ ~Unpauses(c)
      BY <1>1, <1>4, <2>4 DEF Kubernetes!FailKubernetes, Unpauses, Kubernetes!At
    <3>2. KubernetesObject' /\ PausedInv'
      BY <1>1, <2>2, <3>1, PausedKept DEF KubernetesObject
    <3> QED  BY <2>2, <3>1, <3>2, KubernetesReturns
  <2> QED  BY <2>3, <2>4
<1> QED  BY <1>1, <1>3, <1>4

LEMMA KubernetesHibernate ==
  ASSUME CallsOK, KubernetesInv, NEW c \in Caller, Kubernetes!clusterHibernate(c)
  PROVE  CallsOK' /\ KubernetesInv'
<1>1. /\ cfg \in KubernetesConfig /\ cfg.kind = "cnpgcluster" /\ ~cfg.redis
      /\ KubernetesObject /\ work.skip = FALSE
  BY DEF Kubernetes!clusterHibernate, Kubernetes!Cluster, KubernetesInv, KubernetesObject,
     KubernetesWork, KubernetesConfig
<1>2. Changes(c)
  BY <1>1, NoCallType DEF Kubernetes!clusterHibernate, CallsOK, Changes, Call,
     KubernetesConfig
<1>3. CASE Kubernetes!Return(c, FALSE) /\ UNCHANGED <<work, stream>>
  <2>1. Returns(c, FALSE) /\ cfg' = cfg
    BY <1>3, KubernetesShapes DEF Returns
  <2> QED  BY <1>1, <1>3, <2>1, KubernetesReturns DEF KubernetesObject, PausedInv
<1>4. CASE /\ work' = [work EXCEPT
                !.replicas = IF calls[c].op = "start" THEN cfg.active ELSE 0]
           /\ Kubernetes!WroteAndReturn(c, TRUE)
  <2>1. Returns(c, TRUE) /\ NoneClean({}) /\ cfg' = cfg
    BY <1>4, KubernetesShapes DEF Returns
  <2>2. /\ work' \in KubernetesWork /\ work'.skip = FALSE
        /\ work'.replicas = IF calls[c].op = "start" THEN cfg.active ELSE 0
    BY <1>1, <1>4 DEF KubernetesObject, KubernetesWork, KubernetesConfig
  <2>3. KubernetesObject' /\ PausedInv'
    BY <1>1, <2>1, <2>2 DEF KubernetesObject, PausedInv
  <2>4. /\ calls[c].op = "start" => Kubernetes!Awake'
        /\ calls[c].op = "stop" => Kubernetes!Asleep'
    BY <1>1, <2>1, <2>2 DEF Kubernetes!Awake, Kubernetes!Asleep, Kubernetes!Cluster
  <2> QED  BY <2>1, <2>3, <2>4, KubernetesReturns
<1> QED
  BY <1>3, <1>4, Zenon DEF Kubernetes!clusterHibernate, Kubernetes!Write

LEMMA KubernetesSkips ==
  ASSUME CallsOK, KubernetesInv, NEW c \in Caller, Kubernetes!SkipReconcile(c)
  PROVE  CallsOK' /\ KubernetesInv'
<1>1. /\ calls[c].step = "skip" /\ cfg' = cfg /\ asked' = asked
      /\ KubernetesObject /\ cfg \in KubernetesConfig
      /\ calls[c].op = "stop" /\ cfg.idle = 0 /\ cfg.redis /\ cfg.kind # "cnpgcluster"
  BY DEF Kubernetes!SkipReconcile, KubernetesInv, Way
<1>2. calls \in [Caller -> Call] /\ asked = "none"
  BY <1>1 DEF CallsOK, Changes
<1>3. \A d \in Caller :
        calls'[d] = IF d = c THEN [calls[c] EXCEPT !.step = "getScale", !.undo = TRUE]
                    ELSE calls[d]
  BY <1>2 DEF Kubernetes!SkipReconcile
<1>4. /\ calls'[c] \in Call
      /\ calls'[c].op = calls[c].op /\ calls'[c].step = "getScale"
      /\ calls'[c].undo = TRUE /\ calls'[c].clean = calls[c].clean
  BY <1>2, <1>3 DEF Call, Step
<1>5. calls' \in [Caller -> Call]
  BY <1>2, <1>3, <1>4 DEF Kubernetes!SkipReconcile
<1>6. CallsOK'
  BY <1>1, <1>2, <1>3, <1>4, <1>5 DEF CallsOK, Changes
<1>7. /\ work' \in KubernetesWork /\ work'.exists = work.exists
      /\ work'.replicas = work.replicas /\ work'.limits = work.limits
  BY <1>1 DEF Kubernetes!SkipReconcile, KubernetesObject, KubernetesWork
<1>8. KubernetesObject' /\ PausedInv'
  BY <1>1, <1>4, <1>7 DEF KubernetesObject, PausedInv, Unpauses
<1>9. ASSUME NEW d \in Caller
      PROVE  /\ Way(calls[d].op, calls[d].step, calls[d].undo)'
             /\ calls'[d].clean => Scaled(calls[d].op, calls[d].step)'
  <2>1. CASE d = c
    BY <1>1, <1>4, <2>1 DEF Way, Scaled
  <2>2. CASE d # c
    <3>1. calls'[d] = calls[d] /\ Way(calls[d].op, calls[d].step, calls[d].undo)
          /\ (calls[d].clean => Scaled(calls[d].op, calls[d].step))
      BY <1>3, <2>2 DEF KubernetesInv
    <3> QED  BY <1>1, <1>7, <3>1 DEF Way, Scaled, Target, HasLimits, Applied, Named,
                 Kubernetes!activeReplicas
  <2> QED  BY <2>1, <2>2
<1> QED
  BY <1>1, <1>2, <1>6, <1>8, <1>9 DEF KubernetesInv

LEMMA KubernetesUpdates ==
  ASSUME CallsOK, KubernetesInv, NEW c \in Caller, Kubernetes!UpdateScale(c)
  PROVE  CallsOK' /\ KubernetesInv'
<1>1. /\ calls[c].step = "setScale" /\ KubernetesObject /\ cfg \in KubernetesConfig
      /\ cfg.kind # "cnpgcluster" /\ (cfg.redis => cfg.kind = "statefulset")
      /\ Way(calls[c].op, calls[c].step, calls[c].undo)
  BY DEF Kubernetes!UpdateScale, KubernetesInv, Way
<1>2. calls[c].op \in {"start", "stop"} /\ Changes(c) /\ calls[c].undo \in BOOLEAN
  BY <1>1, NoCallType DEF CallsOK, Changes, Call, KubernetesConfig
<1> PICK op : op = calls[c].op
  OBVIOUS
<1>3. work' = [work EXCEPT !.replicas = Target(op)]
  BY DEF Kubernetes!UpdateScale, Kubernetes!Write, Target
<1>4. cfg' = cfg
  BY DEF Kubernetes!UpdateScale, Kubernetes!WroteAndGoto, Kubernetes!WroteAndReturn
<1>5. Target(op) \in Nat
  BY <1>1 DEF Target, KubernetesConfig, Kubernetes!activeReplicas
<1>6. /\ work' \in KubernetesWork /\ work'.replicas = Target(op)
      /\ work'.exists = work.exists /\ work'.skip = work.skip
      /\ work'.limits = work.limits
  BY <1>1, <1>3, <1>5 DEF KubernetesObject, KubernetesWork
<1>7. KubernetesObject' /\ Target(op)' = Target(op)
  BY <1>1, <1>4, <1>6 DEF KubernetesObject, Target, Kubernetes!activeReplicas
<1>8. op = "stop" => PausedInv'
  BY <1>1, <1>4, <1>6 DEF PausedInv, KubernetesObject, Target
<1>9. CASE Kubernetes!AfterScale(c) = "done"
  <2>1. Returns(c, TRUE) /\ NoneClean({})
    BY <1>9, KubernetesShapes DEF Kubernetes!UpdateScale
  <2>2. \/ op = "start" /\ cfg.activeRes = {} /\ cfg.kind # "statefulset"
        \/ op = "stop" /\ (cfg.idle = 0 \/ cfg.idleRes = {})
    BY <1>1, <1>2, <1>9 DEF Kubernetes!AfterScale, Kubernetes!ToZero, Kubernetes!Named
  <2>3. op = "start" => PausedInv'
    BY <1>1, <1>4, <1>6, <2>2 DEF PausedInv, KubernetesObject
  <2>4. op = "start" => Kubernetes!Awake'
    <3>1. op = "start" => HasLimits("start")'
      BY <1>4, <1>6, <2>2 DEF HasLimits, Applied, Named, KubernetesWork, Limits
    <3> QED
      BY <1>1, <1>4, <1>6, <1>7, <3>1, KubernetesLimits
         DEF Kubernetes!Awake, Kubernetes!Cluster, Target, Kubernetes!activeReplicas
  <2>5. op = "stop" => Kubernetes!Asleep'
    <3>1. op = "stop" /\ cfg.idleRes = {} => HasLimits("stop")'
      BY <1>4, <1>6, <2>2 DEF HasLimits, Applied, Named, KubernetesWork, Limits
    <3> QED
      BY <1>1, <1>4, <1>6, <2>2, <3>1, KubernetesLimits
         DEF Kubernetes!Asleep, Kubernetes!Cluster, Target, KubernetesConfig
  <2> QED  BY <1>2, <1>7, <1>8, <2>1, <2>3, <2>4, <2>5, KubernetesReturns
<1>10. CASE Kubernetes!AfterScale(c) # "done"
  <2>1. \E s \in {"limits", "fetch"} :
            /\ Kubernetes!AfterScale(c) = s
            /\ s = "limits" => (op = "start" /\ cfg.activeRes # {})
                                \/ (op = "stop" /\ cfg.idle # 0)
            /\ s = "fetch" => op = "start" /\ cfg.activeRes = {}
    BY <1>1, <1>2, <1>10 DEF Kubernetes!AfterScale, Kubernetes!ToZero, Kubernetes!Named
  <2>2. PICK s \in {"limits", "fetch"} :
            /\ Kubernetes!AfterScale(c) = s
            /\ s = "limits" => (op = "start" /\ cfg.activeRes # {})
                                \/ (op = "stop" /\ cfg.idle # 0)
            /\ s = "fetch" => op = "start" /\ cfg.activeRes = {}
    BY <2>1
  <2>3. GoesTo(c, s) /\ NoneClean({c})
    BY <1>10, <2>2, KubernetesShapes DEF Kubernetes!UpdateScale, Step
  <2>4. Way(op, s, calls[c].undo)
    BY <1>1, <1>2, <2>2 DEF Way, KubernetesConfig
  <2>5. s = "fetch" => HasLimits("start")'
    BY <1>4, <1>6, <2>2 DEF HasLimits, Applied, Named, KubernetesWork, Limits
  <2>6. Scaled(op, s)'
    BY <1>6, <1>7, <2>2, <2>5 DEF Scaled
  <2>7. op = "start" => PausedInv'
    BY <1>4, <2>2, <2>3 DEF PausedInv, Unpauses, GoesTo
  <2> QED  BY <1>2, <1>7, <1>8, <2>2, <2>3, <2>4, <2>6, <2>7, KubernetesGoes
<1> QED  BY <1>9, <1>10

LEMMA KubernetesResources ==
  ASSUME CallsOK, KubernetesInv, NEW c \in Caller, Kubernetes!scaleResources(c)
  PROVE  CallsOK' /\ KubernetesInv'
<1>1. /\ calls[c].step = "limits" /\ KubernetesObject /\ cfg \in KubernetesConfig
      /\ cfg.kind # "cnpgcluster" /\ (cfg.redis => cfg.kind = "statefulset")
      /\ Way(calls[c].op, calls[c].step, calls[c].undo)
  BY DEF Kubernetes!scaleResources, KubernetesInv, Way
<1>2. /\ calls[c].op \in {"start", "stop"} /\ Changes(c) /\ calls[c].undo = FALSE
  BY <1>1, NoCallType DEF CallsOK, Changes, Call, KubernetesConfig, Way
<1> PICK op : op = calls[c].op
  OBVIOUS
<1>3. work' = [work EXCEPT !.limits = Applied(op)] /\ cfg' = cfg
  BY KubernetesLimits DEF Kubernetes!scaleResources, Kubernetes!WroteAndGoto,
     Kubernetes!WroteAndReturn
<1>4. /\ work' \in KubernetesWork /\ work'.replicas = work.replicas
      /\ work'.exists = work.exists /\ work'.skip = work.skip
      /\ work'.limits = Applied(op)
  BY <1>1, <1>2, <1>3, AppliedType DEF KubernetesObject, KubernetesWork
<1>5. HasLimits(op)' /\ KubernetesObject' /\ Target(op)' = Target(op)
  BY <1>1, <1>2, <1>3, <1>4, AppliedStays DEF KubernetesObject, KubernetesWork, Target,
     Kubernetes!activeReplicas
<1>6. calls[c].clean => work'.replicas = Target(op)
  BY <1>1, <1>4 DEF KubernetesInv, Scaled
<1>7. CASE op = "start" /\ cfg.kind = "statefulset"
  <2>1. GoesTo(c, "fetch") /\ NoneClean({c})
    BY <1>7, KubernetesShapes DEF Kubernetes!scaleResources, Step
  <2>2. Way(op, "fetch", calls[c].undo) /\ PausedInv'
    BY <1>1, <1>2, <1>7, <2>1 DEF Way, PausedInv, Unpauses, GoesTo
  <2>3. calls[c].clean => Scaled(op, "fetch")'
    BY <1>5, <1>6, <1>7 DEF Scaled
  <2> QED  BY <1>2, <1>5, <2>1, <2>2, <2>3, KubernetesGoes
<1>8. CASE ~(op = "start" /\ cfg.kind = "statefulset")
  <2>1. Returns(c, TRUE) /\ NoneClean({})
    BY <1>8, KubernetesShapes DEF Kubernetes!scaleResources
  <2>2. PausedInv'
    BY <1>1, <1>2, <1>3, <1>4, <1>8 DEF PausedInv, KubernetesObject, Way, KubernetesConfig
  <2>3. calls[c].clean /\ op = "start" => Kubernetes!Awake'
    BY <1>1, <1>3, <1>5, <1>6, KubernetesLimits
       DEF Kubernetes!Awake, Kubernetes!Cluster, Target, Kubernetes!activeReplicas
  <2>4. calls[c].clean /\ op = "stop" => Kubernetes!Asleep'
    BY <1>1, <1>3, <1>5, <1>6, KubernetesLimits
       DEF Kubernetes!Asleep, Kubernetes!Cluster, Target
  <2> QED  BY <1>2, <1>5, <2>1, <2>2, <2>3, <2>4, KubernetesReturns
<1> QED  BY <1>7, <1>8

LEMMA KubernetesUnpauses ==
  ASSUME CallsOK, KubernetesInv, NEW c \in Caller,
         \/ Kubernetes!FetchOwner(c) \/ Kubernetes!UnskipReconcile(c)
         \/ Kubernetes!RestoreReconcile(c)
  PROVE  CallsOK' /\ KubernetesInv'
<1>1. /\ calls[c].step \in {"fetch", "unskip", "restore"}
      /\ KubernetesObject /\ cfg \in KubernetesConfig
      /\ cfg.kind # "cnpgcluster" /\ (cfg.redis => cfg.kind = "statefulset")
      /\ Way(calls[c].op, calls[c].step, calls[c].undo)
  BY DEF Kubernetes!FetchOwner, Kubernetes!UnskipReconcile, Kubernetes!RestoreReconcile,
     KubernetesInv, Way
<1>2. /\ Changes(c) /\ calls[c].undo \in BOOLEAN
      /\ calls[c].step \in {"fetch", "unskip"} => calls[c].op = "start"
  BY <1>1, NoCallType DEF CallsOK, Changes, Call, KubernetesConfig, Way
<1>3. /\ work' \in KubernetesWork /\ work'.replicas = work.replicas
      /\ work'.exists = work.exists /\ (work'.skip => work.skip)
      /\ work'.limits = work.limits
  BY <1>1 DEF Kubernetes!FetchOwner, Kubernetes!UnskipReconcile,
     Kubernetes!RestoreReconcile, Kubernetes!Resume, Kubernetes!NotResumed,
     KubernetesObject, KubernetesWork
<1>4. cfg' = cfg
  BY DEF Kubernetes!FetchOwner, Kubernetes!UnskipReconcile, Kubernetes!RestoreReconcile,
     Kubernetes!Goto, Kubernetes!Return
<1>5. KubernetesObject'
  BY <1>1, <1>3, <1>4 DEF KubernetesObject
<1>6. calls[c].clean /\ calls[c].step \in {"fetch", "unskip"}
        => Kubernetes!Awake' /\ Scaled("start", "unskip")'
  <2>1. calls[c].clean /\ calls[c].step \in {"fetch", "unskip"}
            => Scaled("start", "unskip")
    BY <1>2 DEF KubernetesInv, Scaled
  <2>2. Scaled("start", "unskip")' => Kubernetes!Awake'
    BY <1>1, <1>4, KubernetesLimits DEF Scaled, Target, Kubernetes!Awake, Kubernetes!Cluster
  <2>3. Scaled("start", "unskip") => Scaled("start", "unskip")'
    BY <1>3, <1>4, ScaledSame
  <2> QED  BY <2>1, <2>2, <2>3
<1>7. CASE Kubernetes!FetchOwner(c) /\ Kubernetes!Goto(c, "unskip")
  <2>1. GoesTo(c, "unskip") /\ calls[c].step = "fetch"
    BY <1>7, KubernetesShapes DEF Step, Kubernetes!FetchOwner
  <2>2. PausedInv'
    BY <1>4, <2>1 DEF PausedInv, Unpauses, GoesTo
  <2>3. Way(calls[c].op, "unskip", calls[c].undo)
    BY <1>1, <1>2, <2>1 DEF Way
  <2> QED  BY <1>2, <1>3, <1>5, <1>6, <2>1, <2>2, <2>3, KubernetesGoes
<1>8. ASSUME NEW ok \in BOOLEAN, Kubernetes!Return(c, ok),
             ok => calls[c].step \in {"fetch", "unskip"},
             ~work'.skip \/ work'.lapse
      PROVE  CallsOK' /\ KubernetesInv'
  <2>1. Returns(c, ok)
    BY <1>8, KubernetesShapes
  <2>2. PausedInv'
    BY <1>4, <1>8 DEF PausedInv
  <2> QED  BY <1>2, <1>3, <1>5, <1>6, <1>8, <2>1, <2>2, KubernetesReturns
<1>9. CASE Kubernetes!FetchOwner(c) /\ ~Kubernetes!Goto(c, "unskip")
  <2>1. /\ Kubernetes!Return(c, TRUE) /\ calls[c].step = "fetch"
        /\ Kubernetes!NotResumed
    BY <1>9 DEF Kubernetes!FetchOwner
  <2>2. ~work'.skip \/ work'.lapse
    BY <1>1, <2>1 DEF Kubernetes!NotResumed, KubernetesObject, KubernetesWork
  <2> QED  BY <1>8, <2>1, <2>2
<1>10. CASE Kubernetes!UnskipReconcile(c)
  <2>1. ~work'.skip \/ work'.lapse
    BY <1>1, <1>10 DEF Kubernetes!UnskipReconcile, Kubernetes!Resume, KubernetesObject,
       KubernetesWork
  <2> QED  BY <1>8, <1>10, <2>1 DEF Kubernetes!UnskipReconcile
<1>11. CASE Kubernetes!RestoreReconcile(c)
  <2>1. ~work'.skip \/ work'.lapse
    BY <1>1, <1>11 DEF Kubernetes!RestoreReconcile, Kubernetes!Resume, KubernetesObject,
       KubernetesWork
  <2> QED  BY <1>8, <1>11, <2>1 DEF Kubernetes!RestoreReconcile
<1> QED  BY <1>7, <1>9, <1>10, <1>11

LEMMA KubernetesStep ==
  ASSUME CallsOK, KubernetesInv, Next
  PROVE  CallsOK' /\ KubernetesInv'
<1>1. cfg.provider = "kubernetes" /\ KubernetesObject /\ cfg \in KubernetesConfig
  BY DEF KubernetesInv, KubernetesConfig
<1>2. CASE UNCHANGED <<cfg, work, calls, asked>>
  BY <1>1, <1>2, KubernetesStays, UnchangedStays DEF CallsOK, KubernetesObject
<1>3. ASSUME NEW c \in Caller, NEW op \in {"start", "stop"}, Begin(c, op)
      PROVE  CallsOK' /\ KubernetesInv'
  <2>1. /\ CallsOK' /\ calls[c] = NoCall /\ asked' = "none" /\ cfg' = cfg /\ work' = work
        /\ calls'[c].op = op /\ calls'[c].step = "begin" /\ calls'[c].undo = FALSE
        /\ \A d \in Caller \ {c} :
                /\ calls'[d].op = calls[d].op /\ calls'[d].step = calls[d].step
                /\ calls'[d].undo = calls[d].undo /\ ~calls'[d].clean
    BY <1>3, BeginOK
  <2>2. KubernetesObject'
    BY <1>1, <2>1 DEF KubernetesObject
  <2>3. PausedInv'
    <3>1. ~Unpauses(c)
      BY <2>1, NoCallType DEF Unpauses
    <3> QED  BY <2>1, <3>1 DEF KubernetesInv, PausedInv, Unpauses
  <2>4. ASSUME NEW d \in Caller
        PROVE  /\ Way(calls[d].op, calls[d].step, calls[d].undo)'
               /\ calls'[d].clean => Scaled(calls[d].op, calls[d].step)'
    <3>1. CASE d = c
      BY <2>1, <3>1 DEF Way, Scaled
    <3>2. CASE d # c
      BY <2>1, <3>2 DEF KubernetesInv, Way
    <3> QED  BY <3>1, <3>2
  <2> QED  BY <2>1, <2>2, <2>3, <2>4 DEF KubernetesInv
<1>4. CASE Kubernetes!Serve \/ Kubernetes!Relist \/ Receive \/ Cancel
  BY <1>2, <1>4 DEF Kubernetes!Serve, Kubernetes!Handle, Kubernetes!Offer,
     Kubernetes!Relist, Kubernetes!Streaming, Receive, Cancel
<1>5. CASE Kubernetes!Settle
  <2>1. /\ work' \in KubernetesWork /\ work'.replicas = work.replicas
        /\ work'.limits = work.limits /\ work'.skip = work.skip
        /\ work'.exists = work.exists /\ work'.lapse = work.lapse
    <3> DEFINE n == IF work.ready < work.replicas THEN work.ready + 1 ELSE work.ready - 1
    <3>1. work \in KubernetesWork /\ n \in Nat /\ work' = [work EXCEPT !.ready = n]
      BY <1>1, <1>5 DEF Kubernetes!Settle, KubernetesObject, KubernetesWork
    <3> HIDE DEF n
    <3> QED  BY <3>1 DEF KubernetesWork
  <2>2. Stay /\ asked' = asked /\ cfg' = cfg
    BY <1>5, KubernetesShapes DEF Kubernetes!Settle, Stay
  <2> QED  BY <1>1, <2>1, <2>2, KubernetesStays DEF KubernetesObject
<1>6. CASE Kubernetes!Disturb /\ work' \in KubernetesWork /\ (cfg.redis => work'.exists)
           /\ work'.lapse = work.lapse
           /\ (work'.skip => work.skip /\ (work'.replicas = 0 \/ work'.replicas = work.replicas))
  <2>1. Stay /\ NoneClean({}) /\ asked' = "none" /\ cfg' = cfg
    BY <1>6, KubernetesShapes DEF Stay
  <2> QED  BY <1>1, <1>6, <2>1, KubernetesStays DEF KubernetesObject
<1>7. CASE Kubernetes!PodEnds
  <2>1. /\ work' \in KubernetesWork /\ work'.replicas = work.replicas
        /\ work'.skip = work.skip /\ work'.exists = work.exists
        /\ work'.lapse = work.lapse
    BY <1>1, <1>7 DEF Kubernetes!PodEnds, KubernetesObject, KubernetesWork
  <2> QED  BY <1>1, <1>6, <1>7, <2>1 DEF Kubernetes!PodEnds, KubernetesObject
<1>8. CASE Kubernetes!OperatorReconciles
  <2>1. /\ work' = [work EXCEPT !.replicas = 1] /\ work.skip = FALSE /\ work.exists
        /\ Kubernetes!Disturb
    BY <1>1, <1>8 DEF Kubernetes!OperatorReconciles, Kubernetes!Write, KubernetesObject,
       KubernetesWork
  <2>2. work' \in KubernetesWork /\ ~work'.skip /\ work'.exists /\ work'.lapse = work.lapse
    BY <1>1, <2>1 DEF KubernetesObject, KubernetesWork
  <2> QED  BY <1>6, <2>1, <2>2
<1>9. CASE Kubernetes!Operate
  <2>1. ~cfg.redis /\ ~work.skip /\ Kubernetes!Disturb
    BY <1>1, <1>9 DEF Kubernetes!Operate, KubernetesObject
  <2>2. work' \in KubernetesWork /\ work'.skip = work.skip /\ work'.lapse = work.lapse
    <3>1. /\ work \in KubernetesWork
          /\ \/ \E n \in {0, 1} : work' = [work EXCEPT !.replicas = n]
             \/ work' = [work EXCEPT !.exists = FALSE, !.replicas = 0, !.ready = 0]
             \/ work' = [work EXCEPT !.exists = TRUE]
      BY <1>1, <1>9, Zenon DEF Kubernetes!Operate, Kubernetes!Write, KubernetesObject
    <3>2. CASE \E n \in {0, 1} : work' = [work EXCEPT !.replicas = n]
      BY <3>1, <3>2 DEF KubernetesWork
    <3>3. CASE work' = [work EXCEPT !.exists = FALSE, !.replicas = 0, !.ready = 0]
      BY <3>1, <3>3 DEF KubernetesWork
    <3>4. CASE work' = [work EXCEPT !.exists = TRUE]
      BY <3>1, <3>4 DEF KubernetesWork
    <3> QED  BY <3>1, <3>2, <3>3, <3>4
  <2> QED  BY <1>6, <2>1, <2>2
<1>10. ASSUME NEW c \in Caller, Kubernetes!CallStep(c) \/ Kubernetes!FailKubernetes(c)
       PROVE  CallsOK' /\ KubernetesInv'
  BY <1>10, KubernetesHibernate, KubernetesReads, KubernetesFails, KubernetesSkips, KubernetesUpdates,
     KubernetesResources, KubernetesUnpauses DEF Kubernetes!CallStep
<1> QED
  BY <1>1, <1>3, <1>4, <1>5, <1>7, <1>8, <1>9, <1>10
     DEF Next, Is, CallStep, CallFails, Serve, Poll, Close, Scan, Inspect, Settle,
         Environment, Kubernetes!Environment

-----------------------------------------------------------------------------
(* Systemd.                                                                *)
LEMMA SystemdShapes ==
  ASSUME CallsOK
  PROVE  /\ \A c \in Caller, s \in Step : Systemd!Goto(c, s) => GoesTo(c, s)
         /\ \A c \in Caller, s \in Step :
                Systemd!WroteAndGoto(c, s) => GoesTo(c, s) /\ NoneClean({c})
         /\ \A c \in Caller, ok \in BOOLEAN : Systemd!Return(c, ok) => Returns(c, ok)
         /\ \A c \in Caller, ok \in BOOLEAN :
                Systemd!WroteAndReturn(c, ok) => Returns(c, ok) /\ NoneClean({})
         /\ Systemd!Disturb => Stay /\ NoneClean({}) /\ asked' = "none"
         /\ Systemd!Progress => Stay /\ asked' = asked
<1>1. calls \in [Caller -> Call]
  BY DEF CallsOK
<1>2. \A c \in Caller, s \in Step : Systemd!Goto(c, s) => Goto(c, s)
  BY DEF Systemd!Goto, Goto
<1>3. \A c \in Caller, s \in Step : Systemd!WroteAndGoto(c, s) => WroteAndGoto(c, s)
  BY DEF Systemd!WroteAndGoto, WroteAndGoto, Systemd!Interfere, Interfere, Systemd!NoCall,
     NoCall
<1>4. \A c \in Caller, ok \in BOOLEAN : Systemd!Return(c, ok) => Return(c, ok)
  BY DEF Systemd!Return, Return, Systemd!NoCall, NoCall
<1>5. \A c \in Caller, ok \in BOOLEAN : Systemd!WroteAndReturn(c, ok) => WroteAndReturn(c, ok)
  BY DEF Systemd!WroteAndReturn, WroteAndReturn, Systemd!Interfere, Interfere,
     Systemd!NoCall, NoCall
<1>6. Systemd!Disturb => Disturb
  BY DEF Systemd!Disturb, Disturb, Systemd!Interfere, Interfere, Systemd!NoCall, NoCall
<1>7. Systemd!Progress => Progress
  BY DEF Systemd!Progress, Progress
<1> QED
  BY <1>1, <1>2, <1>3, <1>4, <1>5, <1>6, <1>7, GotoGoes, WroteAndGotoGoes,
     ReturnReturns, WroteAndReturnReturns, DisturbStays, ProgressStays

UnitFile == [mtime : Nat, enabled : BOOLEAN]

UnitStates == {"inactive", "activating", "active", "deactivating", "failed", "reloading",
               "maintenance"}

SystemdWork ==
    [state : UnitStates, loaded : BOOLEAN, fell : BOOLEAN, job : {"none", "start", "stop"}, by : Caller \cup {"nobody"},
     limits : Limits, file : UnitFile, cache : UnitFile]

(* The job of a clean call has been done.                                  *)
JobDone(op) ==
    /\ work.job = "none"
    /\ op = "start" => work.state \in {"active", "reloading"}
    /\ op = "stop" => work.state \in Systemd!Down

(* A unit without a job is left alone, but for the end of a reload or of a *)
(* clean.                                                                  *)
Rests ==
    /\ work'.job = "none"
    /\ work.state \in {"active", "reloading"} => work'.state \in {"active", "reloading"}
    /\ work.state \in Systemd!Down => work'.state \in Systemd!Down

(* What a call's step says of the unit, of the job it waits for and of the *)
(* time of the unit file it has seen.                                      *)
SystemdFits(d) ==
    /\ calls[d].op = "stop" /\ calls[d].step = "apply" => cfg.idle # 0
    /\ calls[d].op = "stop" /\ calls[d].step \in {"enqueue", "wait", "done"} => cfg.idle = 0
    /\ calls[d].step = "labels" => calls[d].seen <= work.file.mtime
    /\ work.by = d => calls[d].step = "wait" /\ calls[d].op = work.job
    /\ calls[d].step = "wait" => work.by = d
    /\ calls[d].clean /\ calls[d].step = "done" => JobDone(calls[d].op)
    /\ /\ calls[d].clean /\ calls[d].op = "start"
       /\ calls[d].step \in {"enqueue", "wait", "done"}
       /\ cfg.activeRes \cup cfg.idleRes # {}
       => work.limits = Systemd!Cleared("start")

(* The cache is not ahead of the file, so that an edit always outdates it. *)
SystemdCache ==
    /\ work.cache.mtime <= work.file.mtime
    /\ Systemd!CacheIsFresh

SystemdAsked ==
    /\ asked = "start" => Systemd!Awake /\ work.job = "none"
    /\ asked = "stop" => Systemd!Asleep /\ (cfg.idle = 0 => work.job = "none")

SystemdInv ==
    /\ cfg \in SystemdConfig
    /\ work \in SystemdWork
    /\ SystemdCache
    /\ \A d \in Caller : SystemdFits(d)
    /\ SystemdAsked

(* What another actor may do while d is under way.                         *)
Leaves(d) ==
    /\ calls'[d].op = calls[d].op /\ calls'[d].step = calls[d].step
    /\ calls'[d].seen = calls[d].seen
    /\ calls'[d].clean => calls[d].clean
    /\ cfg' = cfg
    /\ work'.file.mtime >= work.file.mtime
    /\ work'.by = d <=> work.by = d
    /\ work.by = d => work'.job = work.job
    /\ calls'[d].clean => work'.limits = work.limits
    /\ calls'[d].clean /\ work.job = "none" => Rests

LEMMA ClearedSame ==
  ASSUME cfg' = cfg, work'.limits = work.limits
  PROVE  /\ Systemd!Cleared("start")' = Systemd!Cleared("start")
         /\ Systemd!Cleared("stop")' = Systemd!Cleared("stop")
  BY DEF Systemd!Cleared, Systemd!Named

LEMMA ClearedStays ==
  ASSUME NEW op \in {"start", "stop"}, cfg' = cfg, work.limits \in Limits,
         work'.limits = Systemd!Cleared(op)
  PROVE  work'.limits = Systemd!Cleared(op)' /\ Systemd!Cleared(op) \in Limits
<1>1. Systemd!Cleared(op) \in Limits
  BY DEF Systemd!Cleared, Systemd!Named, Systemd!Profile, Limits, Field, Systemd!Field
<1>2. Systemd!Cleared(op)' = Systemd!Cleared(op)
  BY DEF Systemd!Cleared, Systemd!Named, Systemd!Field, Field, Limits
<1> QED  BY <1>1, <1>2

LEMMA SystemdOther ==
  ASSUME work \in SystemdWork, work' \in SystemdWork, CallsOK, CallsOK', NEW d \in Caller, SystemdFits(d), Leaves(d)
  PROVE  SystemdFits(d)'
<1>1. calls[d].step = "labels" => calls[d].seen <= work'.file.mtime
  BY DEF SystemdFits, Leaves, SystemdWork, UnitFile, CallsOK, Call
<1>2. ASSUME calls'[d].clean, calls'[d].step = "done"
      PROVE  JobDone(calls[d].op)'
  <2>1. JobDone(calls[d].op) /\ calls'[d].op = calls[d].op
    BY <1>2 DEF SystemdFits, Leaves
  <2>2. Rests
    BY <1>2, <2>1 DEF Leaves, JobDone
  <2> QED  BY <2>1, <2>2 DEF JobDone, Rests
<1>3. calls'[d].clean => Systemd!Cleared("start")' = Systemd!Cleared("start")
  BY ClearedSame DEF Leaves
<1> QED  BY <1>1, <1>2, <1>3 DEF SystemdFits, Leaves

LEMMA SystemdSettled ==
  ASSUME SystemdAsked, work \in SystemdWork, cfg' = cfg,
         \/ asked' = "none"
         \/ /\ asked' = asked /\ work'.limits = work.limits
            /\ work.job = "none" => Rests
  PROVE  SystemdAsked'
<1>1. CASE asked' = "none"
  BY <1>1 DEF SystemdAsked
<1>2. CASE asked' # "none"
  BY <1>2, ClearedSame DEF SystemdAsked, Systemd!Awake, Systemd!Asleep, Rests
<1> QED  BY <1>1, <1>2

LEMMA SystemdGoes ==
  ASSUME CallsOK, SystemdInv, NEW c \in Caller, Changes(c), NEW s, GoesTo(c, s),
         work' \in SystemdWork, SystemdCache', SystemdFits(c)',
         work'.by = work.by, work'.job = work.job, work'.state = work.state,
         work'.file = work.file,
         NoneClean({c}) \/ work'.limits = work.limits
  PROVE  CallsOK' /\ SystemdInv'
<1>1. CallsOK' /\ asked' = "none" /\ cfg' = cfg
  BY GoesOK DEF Changes, CallsOK, GoesTo
<1>2. ASSUME NEW d \in Caller \ {c}
      PROVE  SystemdFits(d)'
  <2>1. Leaves(d)
    BY <1>1 DEF Leaves, Rests, GoesTo, NoneClean, SystemdInv, SystemdWork, UnitFile
  <2> QED  BY <1>1, <2>1, SystemdOther DEF SystemdInv
<1>3. SystemdAsked'
  BY <1>1 DEF SystemdAsked
<1> QED
  BY <1>1, <1>2, <1>3 DEF SystemdInv

LEMMA SystemdReturns ==
  ASSUME CallsOK, SystemdInv, NEW c \in Caller, NEW ok \in BOOLEAN, Returns(c, ok),
         work' \in SystemdWork, SystemdCache', SystemdAsked',
         work'.by = IF work.by = c THEN "nobody" ELSE work.by,
         work'.job = work.job, work'.state = work.state, work'.file = work.file,
         NoneClean({}) \/ work'.limits = work.limits
  PROVE  CallsOK' /\ SystemdInv'
<1>1. CallsOK' /\ cfg' = cfg
  BY ReturnsOK DEF Returns
<1>2. ASSUME NEW d \in Caller \ {c}
      PROVE  SystemdFits(d)'
  <2>1. Leaves(d)
    BY <1>1, CallerAssumption DEF Leaves, Rests, Returns, NoneClean, SystemdInv, SystemdWork,
       UnitFile
  <2> QED  BY <1>1, <2>1, SystemdOther DEF SystemdInv
<1>3. SystemdFits(c)'
  BY NoCallType, CallerAssumption DEF SystemdFits, Returns
<1> QED
  BY <1>1, <1>2, <1>3 DEF SystemdInv

LEMMA SystemdStats ==
  ASSUME CallsOK, SystemdInv, NEW c \in Caller,
         Systemd!InstanceStart(c) \/ Systemd!InstanceStop(c)
  PROVE  CallsOK' /\ SystemdInv'
<1>1. /\ Changes(c) /\ calls[c].step = "begin" /\ Systemd!Stat(c)
  BY DEF Systemd!InstanceStart, Systemd!InstanceStop, Systemd!At, Changes
<1>2. /\ work \in SystemdWork /\ SystemdCache /\ cfg \in SystemdConfig
      /\ work' = work /\ cfg' = cfg /\ asked' = asked
  BY <1>1 DEF SystemdInv, Systemd!Stat
<1>3. calls \in [Caller -> Call] /\ work.file.mtime \in Nat
  BY <1>2 DEF CallsOK, SystemdWork, UnitFile
<1>4. \A d \in Caller :
        calls'[d] = IF d = c
                    THEN [calls[c] EXCEPT !.step = "labels", !.seen = work.file.mtime]
                    ELSE calls[d]
  BY <1>1, <1>3 DEF Systemd!Stat
<1>5. /\ calls'[c] \in Call
      /\ calls'[c].op = calls[c].op /\ calls'[c].step = "labels"
      /\ calls'[c].undo = calls[c].undo /\ calls'[c].clean = calls[c].clean
      /\ calls'[c].seen = work.file.mtime
  BY <1>3, <1>4 DEF Call, Step
<1>6. calls' \in [Caller -> Call]
  BY <1>1, <1>3, <1>4, <1>5 DEF Systemd!Stat
<1>7. GoesTo(c, "labels")
  BY <1>2, <1>4, <1>5, <1>6 DEF GoesTo
<1>8. work.by # c
  BY <1>1 DEF SystemdInv, SystemdFits
<1>9. SystemdFits(c)' /\ SystemdCache'
  BY <1>2, <1>3, <1>5, <1>8 DEF SystemdFits, SystemdCache, Systemd!CacheIsFresh
<1> QED
  BY <1>1, <1>2, <1>7, <1>9, SystemdGoes

LEMMA SystemdLabels ==
  ASSUME CallsOK, SystemdInv, NEW c \in Caller, Systemd!scaleConfig(c)
  PROVE  CallsOK' /\ SystemdInv'
<1>1. /\ calls[c].step = "labels" /\ work \in SystemdWork /\ cfg \in SystemdConfig
      /\ work' = [work EXCEPT !.cache = Systemd!Remember(c)]
      /\ SystemdCache /\ SystemdFits(c)
  BY DEF SystemdInv, Systemd!scaleConfig
<1>2. Changes(c) /\ calls[c].op \in {"start", "stop"} /\ calls[c].seen \in Nat
  BY <1>1, NoCallType DEF CallsOK, Changes, Call, SystemdConfig
<1>3. work.by # c /\ calls[c].seen <= work.file.mtime
  BY <1>1 DEF SystemdFits
<1>4. Systemd!Remember(c) \in {work.cache,
            [mtime |-> calls[c].seen, enabled |-> work.file.enabled]}
  BY DEF Systemd!Remember
<1>5. Systemd!Remember(c) \in UnitFile
  BY <1>1, <1>2, <1>4 DEF SystemdWork, UnitFile
<1>6. /\ work' \in SystemdWork /\ work'.by = work.by /\ work'.job = work.job
      /\ work'.state = work.state /\ work'.file = work.file
      /\ work'.limits = work.limits /\ work'.cache = Systemd!Remember(c)
  BY <1>1, <1>5 DEF SystemdWork
<1>7. SystemdCache'
  BY <1>1, <1>2, <1>3, <1>4, <1>6
     DEF SystemdCache, Systemd!CacheIsFresh, SystemdWork, UnitFile
<1>8. CASE Systemd!Goto(c, Systemd!AfterLabels(c))
  <2>1. PICK s \in {"enqueue", "apply"} :
            /\ s = Systemd!AfterLabels(c)
            /\ calls[c].op = "start" /\ s = "enqueue" => cfg.activeRes \cup cfg.idleRes = {}
            /\ calls[c].op = "stop" => (cfg.idle = 0 <=> s = "enqueue")
    BY <1>2 DEF Systemd!AfterLabels
  <2>2. GoesTo(c, s)
    BY <1>8, <2>1, SystemdShapes DEF Step
  <2>3. SystemdFits(c)'
    BY <1>2, <1>3, <1>6, <2>1, <2>2 DEF SystemdFits, GoesTo
  <2> QED  BY <1>2, <1>6, <1>7, <2>2, <2>3, SystemdGoes
<1>9. CASE Systemd!Return(c, FALSE)
  <2>1. Returns(c, FALSE) /\ SystemdAsked'
    BY <1>9, SystemdShapes DEF Returns, SystemdAsked
  <2> QED  BY <1>3, <1>6, <1>7, <2>1, SystemdReturns
<1> QED
  BY <1>8, <1>9 DEF Systemd!scaleConfig

LEMMA SystemdResources ==
  ASSUME CallsOK, SystemdInv, NEW c \in Caller, Systemd!applyResources(c)
  PROVE  CallsOK' /\ SystemdInv'
<1>1. /\ calls[c].step = "apply" /\ work \in SystemdWork /\ cfg \in SystemdConfig
      /\ SystemdCache /\ SystemdFits(c)
  BY DEF SystemdInv, Systemd!applyResources
<1>2. Changes(c) /\ calls[c].op \in {"start", "stop"}
  BY <1>1, NoCallType DEF CallsOK, Changes, Call, SystemdConfig
<1>3. work.by # c
  BY <1>1 DEF SystemdFits
<1>4. CASE Systemd!Return(c, FALSE) /\ UNCHANGED work
  <2>1. Returns(c, FALSE) /\ SystemdAsked' /\ SystemdCache'
    BY <1>1, <1>4, SystemdShapes
       DEF Returns, SystemdAsked, SystemdCache, Systemd!CacheIsFresh
  <2> QED  BY <1>1, <1>3, <1>4, <2>1, SystemdReturns
<1> PICK op : op = calls[c].op
  OBVIOUS
<1>5. CASE ~(Systemd!Return(c, FALSE) /\ UNCHANGED work)
  <2>1. /\ work' = [work EXCEPT !.limits = Systemd!Cleared(op)]
        /\ IF op = "start" THEN Systemd!WroteAndGoto(c, "enqueue")
           ELSE Systemd!WroteAndReturn(c, TRUE)
    BY <1>5, Zenon DEF Systemd!applyResources
  <2>2. work'.limits = Systemd!Cleared(op)
    BY <1>1, <2>1 DEF SystemdWork
  <2>3. cfg' = cfg
    BY <2>1 DEF Systemd!WroteAndGoto, Systemd!WroteAndReturn
  <2>4. work'.limits = Systemd!Cleared(op)' /\ work'.limits \in Limits
    BY <1>1, <1>2, <2>2, <2>3, ClearedStays DEF SystemdWork
  <2>5. /\ work' \in SystemdWork /\ work'.by = work.by /\ work'.job = work.job
        /\ work'.state = work.state /\ work'.file = work.file
        /\ work'.cache = work.cache
    BY <1>1, <2>1, <2>2, <2>4 DEF SystemdWork
  <2>6. SystemdCache'
    BY <1>1, <2>5 DEF SystemdCache, Systemd!CacheIsFresh
  <2>7. CASE op = "start"
    <3>1. GoesTo(c, "enqueue") /\ NoneClean({c})
      BY <2>1, <2>7, SystemdShapes DEF Step
    <3>2. SystemdFits(c)'
      BY <1>3, <2>4, <2>5, <2>7, <3>1 DEF SystemdFits, GoesTo
    <3> QED  BY <1>2, <2>5, <2>6, <3>1, <3>2, SystemdGoes
  <2>8. CASE op = "stop"
    <3>1. Returns(c, TRUE) /\ NoneClean({})
      BY <2>1, <2>8, SystemdShapes
    <3>2. cfg.idle # 0
      BY <1>1, <2>8 DEF SystemdFits
    <3>3. Systemd!Asleep'
      BY <2>3, <2>4, <2>8, <3>2 DEF Systemd!Asleep
    <3>4. SystemdAsked'
      BY <2>3, <2>8, <3>1, <3>2, <3>3 DEF SystemdAsked, Returns
    <3> QED  BY <1>3, <2>5, <2>6, <3>1, <3>4, SystemdReturns
  <2> QED  BY <1>2, <2>7, <2>8
<1> QED  BY <1>4, <1>5

LEMMA SystemdEnqueues ==
  ASSUME CallsOK, SystemdInv, NEW c \in Caller,
         Systemd!startUnit(c) \/ Systemd!stopUnit(c)
  PROVE  CallsOK' /\ SystemdInv'
<1>1. /\ calls[c].op \in {"start", "stop"} /\ Changes(c) /\ calls[c].step = "enqueue"
      /\ Systemd!Enqueue(c)
      /\ work \in SystemdWork /\ cfg \in SystemdConfig /\ SystemdCache /\ SystemdFits(c)
  BY DEF Systemd!startUnit, Systemd!stopUnit, Systemd!At, Changes, SystemdInv
<1>2. /\ calls \in [Caller -> Call] /\ work.by # c
      /\ cfg' = cfg /\ asked' = asked /\ asked = "none"
  BY <1>1 DEF CallsOK, SystemdFits, Systemd!Enqueue
<1> PICK op : op = calls[c].op
  OBVIOUS
<1>3. PICK x \in {"done", "wait"} :
        /\ x = "done" => Systemd!Nothing(op)
        /\ work' = [work EXCEPT !.job = IF x = "done" THEN "none" ELSE op,
                                !.by = IF x = "done" THEN "nobody" ELSE c,
                                !.loaded = TRUE]
        /\ calls' = Systemd!Interfere([Systemd!Ended(calls, "failed") EXCEPT
                                            ![c].step = x], {c})
  <2>1. CASE Systemd!Nothing(op)
    BY <1>1, <2>1 DEF Systemd!Enqueue
  <2>2. CASE ~Systemd!Nothing(op)
    BY <1>1, <2>2 DEF Systemd!Enqueue
  <2> QED  BY <2>1, <2>2
<1>4. /\ work' \in SystemdWork
      /\ work'.job = IF x = "done" THEN "none" ELSE op
      /\ work'.by = IF x = "done" THEN "nobody" ELSE c
      /\ work'.state = work.state /\ work'.limits = work.limits
      /\ work'.file = work.file /\ work'.cache = work.cache
  BY <1>1, <1>3 DEF SystemdWork
<1> DEFINE cs == [Systemd!Ended(calls, "failed") EXCEPT ![c].step = x]
<1>5. \A d \in Caller :
        cs[d] = IF d = c THEN [calls[c] EXCEPT !.step = x]
                ELSE IF d = work.by THEN [calls[d] EXCEPT !.step = "failed"] ELSE calls[d]
  BY <1>2 DEF Systemd!Ended
<1>15. calls' = Systemd!Interfere(cs, {c})
  BY <1>3
<1> HIDE DEF cs
<1>6. \A d \in Caller :
        calls'[d] = IF d = c \/ cs[d] = NoCall THEN cs[d]
                    ELSE [cs[d] EXCEPT !.clean = FALSE, !.fresh = FALSE]
  BY <1>15 DEF Systemd!Interfere, Systemd!NoCall, NoCall
<1>7. DOMAIN calls' = Caller /\ calls' = [d \in Caller |-> calls'[d]]
  BY <1>15 DEF Systemd!Interfere
<1>8. /\ calls'[c] \in Call /\ calls'[c].op = op /\ calls'[c].step = x
      /\ calls'[c].clean = calls[c].clean
  <2>1. calls'[c] = [calls[c] EXCEPT !.step = x] /\ calls[c] \in Call
    BY <1>2, <1>5, <1>6
  <2> QED  BY <2>1 DEF Call, Step
<1>9. ASSUME NEW d \in Caller \ {c}
      PROVE  /\ calls'[d] \in Call /\ calls'[d].op = calls[d].op
             /\ calls'[d].step = IF d = work.by THEN "failed" ELSE calls[d].step
             /\ calls'[d].seen = calls[d].seen /\ calls'[d].clean = FALSE
             /\ calls[d] = NoCall => calls'[d] = NoCall
  <2>1. calls[d] \in Call /\ (d = work.by => calls[d].step = "wait")
    BY <1>2 DEF SystemdInv, SystemdFits
  <2>2. cs[d] \in Call /\ cs[d].op = calls[d].op /\ cs[d].seen = calls[d].seen
        /\ cs[d].step = (IF d = work.by THEN "failed" ELSE calls[d].step)
        /\ (calls[d] = NoCall => cs[d] = NoCall)
    <3>1. CASE d = work.by
      <4>1. cs[d] = [calls[d] EXCEPT !.step = "failed"] /\ calls[d].step = "wait"
        BY <1>5, <2>1, <3>1
      <4> QED  BY <2>1, <3>1, <4>1, NoCallType DEF Call, Step
    <3>2. CASE d # work.by
      BY <1>5, <2>1, <3>2
    <3> QED  BY <3>1, <3>2
  <2> QED  BY <1>6, <2>2, NoCallType DEF Call
<1>10. Runs
  <2>1. calls' \in [Caller -> Call]
    BY <1>7, <1>8, <1>9
  <2> QED  BY <1>1, <1>2, <1>8, <1>9, <2>1, NoCallType DEF Runs
<1>11. CallsOK'
  BY <1>2, <1>10, RunsOK
<1>12. SystemdFits(c)'
  <2>1. x = "done" => JobDone(op)'
    BY <1>3, <1>4 DEF JobDone, Systemd!Nothing, Systemd!Down
  <2>2. Systemd!Cleared("start")' = Systemd!Cleared("start")
    BY <1>2, <1>4, ClearedSame
  <2> QED
    BY <1>1, <1>2, <1>3, <1>4, <1>8, <2>1, <2>2, CallerAssumption DEF SystemdFits
<1>13. ASSUME NEW d \in Caller \ {c}
       PROVE  SystemdFits(d)'
  <2>1. SystemdFits(d)
    BY DEF SystemdInv
  <2> QED
    BY <1>2, <1>4, <1>9, <2>1, CallerAssumption DEF SystemdFits
<1>14. SystemdCache' /\ SystemdAsked'
  BY <1>1, <1>2, <1>4 DEF SystemdCache, Systemd!CacheIsFresh, SystemdAsked
<1> QED
  BY <1>1, <1>2, <1>4, <1>11, <1>12, <1>13, <1>14 DEF SystemdInv

LEMMA SystemdWaits ==
  ASSUME CallsOK, SystemdInv, NEW c \in Caller, Systemd!waitUnitJob(c)
  PROVE  CallsOK' /\ SystemdInv'
<1>1. /\ calls[c].step \in {"done", "failed"} /\ work' = work
      /\ Systemd!Return(c, calls[c].step = "done")
      /\ work \in SystemdWork /\ cfg \in SystemdConfig /\ SystemdCache /\ SystemdFits(c)
  BY DEF SystemdInv, Systemd!waitUnitJob
<1>2. work.by # c
  BY <1>1 DEF SystemdFits
<1>3. PICK ok \in BOOLEAN : (ok <=> calls[c].step = "done") /\ Systemd!Return(c, ok)
  BY <1>1
<1>4. Returns(c, ok) /\ cfg' = cfg
  BY <1>3, SystemdShapes DEF Returns
<1>5. SystemdCache'
  BY <1>1 DEF SystemdCache, Systemd!CacheIsFresh
<1>6. SystemdAsked'
  <2>1. CASE ok /\ calls[c].clean
    <3>1. JobDone(calls[c].op) /\ Changes(c)
      BY <1>1, <1>3, <2>1 DEF SystemdFits, CallsOK
    <3>2. asked' = calls[c].op
      BY <1>4, <2>1 DEF Returns
    <3>3. Systemd!Cleared("start")' = Systemd!Cleared("start")
      BY <1>1, <1>4, ClearedSame
    <3>4. calls[c].op = "start" => Systemd!Awake' /\ work'.job = "none"
      BY <1>1, <1>3, <1>4, <2>1, <3>1, <3>3 DEF SystemdFits, JobDone, Systemd!Awake
    <3>5. calls[c].op = "stop" => Systemd!Asleep' /\ work'.job = "none"
      BY <1>1, <1>3, <1>4, <2>1, <3>1 DEF SystemdFits, JobDone, Systemd!Asleep
    <3> QED  BY <3>2, <3>4, <3>5 DEF SystemdAsked
  <2>2. CASE ~(ok /\ calls[c].clean)
    BY <1>4, <2>2 DEF SystemdAsked, Returns
  <2> QED  BY <2>1, <2>2
<1> QED
  BY <1>1, <1>2, <1>4, <1>5, <1>6, SystemdReturns

LEMMA SystemdFails ==
  ASSUME CallsOK, SystemdInv, NEW c \in Caller, Systemd!FailSystemd(c)
  PROVE  CallsOK' /\ SystemdInv'
<1>1. /\ work \in SystemdWork /\ SystemdCache /\ Returns(c, FALSE)
      /\ work' = [work EXCEPT !.by = IF work.by = c THEN "nobody" ELSE work.by]
  BY SystemdShapes DEF SystemdInv, Systemd!FailSystemd
<1>2. /\ work' \in SystemdWork /\ work'.by = (IF work.by = c THEN "nobody" ELSE work.by)
      /\ work'.job = work.job /\ work'.state = work.state /\ work'.file = work.file
      /\ work'.limits = work.limits /\ work'.cache = work.cache
  BY <1>1 DEF SystemdWork
<1>3. SystemdCache' /\ SystemdAsked'
  BY <1>1, <1>2 DEF SystemdCache, Systemd!CacheIsFresh, SystemdAsked, Returns
<1> QED
  BY <1>1, <1>2, <1>3, SystemdReturns

LEMMA SystemdStays ==
  ASSUME CallsOK, SystemdInv, Stay, work' \in SystemdWork, SystemdCache',
         work'.by = work.by, work.by # "nobody" => work'.job = work.job,
         work'.file.mtime >= work.file.mtime,
         \/ NoneClean({}) /\ asked' = "none"
         \/ /\ asked' = asked /\ work'.limits = work.limits
            /\ work.job = "none" => Rests
  PROVE  CallsOK' /\ SystemdInv'
<1>1. CallsOK' /\ cfg' = cfg
  BY StayOK DEF Stay
<1>2. ASSUME NEW d \in Caller
      PROVE  SystemdFits(d)'
  <2>1. Leaves(d)
    BY <1>1, CallerAssumption DEF Leaves, Stay, NoneClean
  <2> QED  BY <1>1, <2>1, SystemdOther DEF SystemdInv
<1>3. SystemdAsked'
  BY <1>1, SystemdSettled DEF SystemdInv
<1> QED
  BY <1>1, <1>2, <1>3 DEF SystemdInv

(* A unit that enters another state: nothing else of it changes but fell.  *)
LEMMA UnitEnters ==
  ASSUME work \in SystemdWork, NEW state \in UnitStates
  PROVE  /\ Systemd!Entered(state) \in SystemdWork
         /\ Systemd!Entered(state).state = state
         /\ \E b \in BOOLEAN : Systemd!Entered(state) = [work EXCEPT !.state = state, !.fell = b]
         /\ Systemd!Entered(state).job = work.job /\ Systemd!Entered(state).by = work.by
         /\ Systemd!Entered(state).limits = work.limits
         /\ Systemd!Entered(state).file = work.file
         /\ Systemd!Entered(state).cache = work.cache
         /\ Systemd!Entered(state).loaded = work.loaded
<1> DEFINE b == \/ work.fell
                \/ /\ Systemd!Wants("stopped") /\ stream.chan = "open"
                   /\ work.state \notin Systemd!Down /\ state \in Systemd!Down
<1>1. Systemd!Entered(state) = [work EXCEPT !.state = state, !.fell = b] /\ b \in BOOLEAN
  BY DEF Systemd!Entered, SystemdWork
<1> HIDE DEF b
<1> QED  BY <1>1 DEF SystemdWork

LEMMA NobodyWaits ==
  ASSUME CallsOK, SystemdInv, work.job = "none"
  PROVE  work.by = "nobody"
  BY NoCallType DEF CallsOK, SystemdInv, SystemdFits, SystemdWork

LEMMA SystemdFinishes ==
  ASSUME CallsOK, SystemdInv, NEW state, NEW result, Systemd!Finish(state, result),
         \/ state = "active" /\ result = "done" /\ work.job = "start"
         \/ state = "inactive" /\ result = "done" /\ work.job = "stop"
         \/ state = "failed" /\ result = "failed" /\ work.job = "start"
  PROVE  CallsOK' /\ SystemdInv'
<1>1. /\ work \in SystemdWork /\ cfg \in SystemdConfig /\ SystemdCache /\ SystemdAsked
      /\ work' = [Systemd!Entered(state) EXCEPT !.job = "none", !.by = "nobody"]
      /\ cfg' = cfg /\ asked' = asked /\ calls \in [Caller -> Call]
  BY DEF SystemdInv, Systemd!Finish, CallsOK
<1>2. /\ work' \in SystemdWork /\ work'.state = state /\ work'.job = "none"
      /\ work'.by = "nobody" /\ work'.limits = work.limits /\ work'.file = work.file
      /\ work'.cache = work.cache
  <2>1. state \in UnitStates
    BY DEF UnitStates
  <2>2. PICK b \in BOOLEAN :
            work' = [work EXCEPT !.state = state, !.fell = b, !.job = "none", !.by = "nobody"]
    BY <1>1, <2>1, UnitEnters
  <2> QED  BY <1>1, <2>1, <2>2 DEF SystemdWork
<1>3. /\ DOMAIN calls' = Caller /\ calls' = [d \in Caller |-> calls'[d]]
      /\ \A d \in Caller :
            calls'[d] = IF d = work.by THEN [calls[d] EXCEPT !.step = result] ELSE calls[d]
  BY DEF Systemd!Finish, Systemd!Ended
<1>4. ASSUME NEW d \in Caller, d = work.by
      PROVE  /\ calls'[d] \in Call /\ calls'[d].op = calls[d].op
             /\ calls'[d].step = result /\ calls'[d].clean = calls[d].clean
             /\ calls[d].step = "wait" /\ calls[d].op = work.job /\ calls[d] # NoCall
  <2>1. /\ calls[d].step = "wait" /\ calls[d].op = work.job /\ calls[d] \in Call
        /\ calls'[d] = [calls[d] EXCEPT !.step = result] /\ result \in Step
    BY <1>1, <1>3, <1>4 DEF SystemdInv, SystemdFits, Step
  <2> QED  BY <2>1, NoCallType DEF Call
<1>5. ASSUME NEW d \in Caller, d # work.by
      PROVE  calls'[d] = calls[d]
  BY <1>3, <1>5
<1>6. Runs
  <2>1. calls' \in [Caller -> Call]
    BY <1>1, <1>3, <1>4, <1>5
  <2> QED  BY <1>1, <1>4, <1>5, <2>1 DEF Runs
<1>7. CallsOK'
  BY <1>1, <1>6, RunsOK
<1>8. ASSUME NEW d \in Caller, d # work.by
      PROVE  SystemdFits(d)'
  <2>1. Leaves(d)
    BY <1>1, <1>2, <1>5, <1>8, CallerAssumption DEF Leaves, Rests, SystemdWork, UnitFile
  <2> QED  BY <1>1, <1>2, <1>7, <2>1, SystemdOther DEF SystemdInv
<1>9. ASSUME NEW d \in Caller, d = work.by
      PROVE  SystemdFits(d)'
  <2>1. SystemdFits(d)
    BY DEF SystemdInv
  <2>2. result = "done" => JobDone(calls[d].op)'
    BY <1>2, <1>4, <1>9 DEF JobDone, Systemd!Down
  <2>3. Systemd!Cleared("start")' = Systemd!Cleared("start")
    BY <1>1, <1>2, ClearedSame
  <2> QED
    BY <1>1, <1>2, <1>4, <1>9, <2>1, <2>2, <2>3, CallerAssumption DEF SystemdFits
<1>10. SystemdAsked' /\ SystemdCache'
  BY <1>1, <1>2, SystemdSettled DEF SystemdCache, Systemd!CacheIsFresh
<1> QED
  BY <1>1, <1>2, <1>7, <1>8, <1>9, <1>10 DEF SystemdInv

LEMMA SystemdStep ==
  ASSUME CallsOK, SystemdInv, Next
  PROVE  CallsOK' /\ SystemdInv'
<1>1. /\ cfg.provider = "systemd" /\ work \in SystemdWork /\ SystemdCache
      /\ cfg \in SystemdConfig /\ work.file.mtime \in Nat
  BY DEF SystemdInv, SystemdConfig, SystemdWork, UnitFile
<1>2. CASE UNCHANGED <<cfg, work, calls, asked>>
  <2>1. SystemdCache'
    BY <1>1, <1>2 DEF SystemdCache, Systemd!CacheIsFresh
  <2> QED  BY <1>1, <1>2, <2>1, SystemdStays, UnchangedStays DEF CallsOK, Rests
<1>3. ASSUME NEW c \in Caller, NEW op \in {"start", "stop"}, Begin(c, op)
      PROVE  CallsOK' /\ SystemdInv'
  <2>1. /\ CallsOK' /\ calls[c] = NoCall /\ asked' = "none" /\ cfg' = cfg /\ work' = work
        /\ calls'[c].op = op /\ calls'[c].step = "begin"
        /\ \A d \in Caller \ {c} :
                /\ calls'[d].op = calls[d].op /\ calls'[d].step = calls[d].step
                /\ calls'[d].seen = calls[d].seen /\ ~calls'[d].clean
    BY <1>3, BeginOK
  <2>2. SystemdFits(c)'
    <3>1. work.by # c
      BY <2>1, NoCallType DEF SystemdInv, SystemdFits
    <3> QED  BY <2>1, <3>1 DEF SystemdFits
  <2>3. ASSUME NEW d \in Caller \ {c}
        PROVE  SystemdFits(d)'
    BY <2>1 DEF SystemdInv, SystemdFits
  <2>4. SystemdCache' /\ SystemdAsked'
    BY <1>1, <2>1 DEF SystemdCache, Systemd!CacheIsFresh, SystemdAsked
  <2> QED  BY <1>1, <2>1, <2>2, <2>3, <2>4 DEF SystemdInv
<1>4. CASE Systemd!Forward \/ Systemd!Poll \/ Systemd!Close \/ Receive \/ Cancel
  <2>1. UNCHANGED <<cfg, calls, asked>> /\ (work' = work \/ work' = [work EXCEPT !.fell = FALSE])
    BY <1>4 DEF Systemd!Forward, Systemd!Poll, Systemd!Close, Systemd!Streaming, Receive,
       Cancel
  <2>2. CASE work' = [work EXCEPT !.fell = FALSE]
    <3>1. /\ work' \in SystemdWork /\ work'.by = work.by /\ work'.job = work.job
          /\ work'.limits = work.limits /\ work'.file = work.file
          /\ work'.cache = work.cache /\ work'.state = work.state
      BY <1>1, <2>2 DEF SystemdWork
    <3>2. SystemdCache' /\ (work.job = "none" => Rests)
      BY <1>1, <3>1 DEF SystemdCache, Systemd!CacheIsFresh, Rests
    <3> QED  BY <1>1, <2>1, <3>1, <3>2, SystemdStays, UnchangedStays DEF CallsOK
  <2> QED  BY <1>2, <2>1, <2>2
<1>5. ASSUME NEW state \in UnitStates, Systemd!Become(state),
             \/ work.job # "none"
             \/ work.state = "reloading" /\ state = "active"
             \/ work.state = "maintenance" /\ state = "inactive"
      PROVE  CallsOK' /\ SystemdInv'
  <2>1. Stay /\ asked' = asked /\ work' = Systemd!Entered(state)
    BY <1>5, SystemdShapes DEF Systemd!Become
  <2>2. /\ work' \in SystemdWork /\ work'.by = work.by /\ work'.job = work.job
        /\ work'.limits = work.limits /\ work'.file = work.file
        /\ work'.cache = work.cache /\ work'.state = state
    BY <1>1, <2>1, UnitEnters
  <2>3. SystemdCache'
    BY <1>1, <2>2 DEF SystemdCache, Systemd!CacheIsFresh
  <2>4. work.job = "none" => Rests
    BY <1>5, <2>2 DEF Rests, Systemd!Down
  <2> QED  BY <1>1, <1>5, <2>1, <2>2, <2>3, <2>4, SystemdStays
<1>6. CASE Systemd!Settle
  <2>1. \/ \E state \in UnitStates :
                /\ Systemd!Become(state)
                /\ \/ work.job # "none"
                   \/ work.state = "reloading" /\ state = "active"
                   \/ work.state = "maintenance" /\ state = "inactive"
        \/ work.job = "start" /\ Systemd!Finish("active", "done")
        \/ work.job = "stop" /\ Systemd!Finish("inactive", "done")
    BY <1>6, Zenon DEF Systemd!Settle, UnitStates
  <2> QED  BY <1>5, <2>1, SystemdFinishes
<1>7. ASSUME Systemd!Disturb, work.job = "none", work' \in SystemdWork,
             work'.by = work.by, work'.file = work.file, work'.cache = work.cache
      PROVE  CallsOK' /\ SystemdInv'
  <2>1. SystemdCache'
    BY <1>1, <1>7 DEF SystemdCache, Systemd!CacheIsFresh
  <2> QED  BY <1>1, <1>7, <2>1, NobodyWaits, SystemdShapes, SystemdStays
<1>8. CASE Systemd!Crash
  <2>1. CASE Systemd!Finish("failed", "failed") /\ work.job = "start"
    BY <2>1, SystemdFinishes
  <2>2. CASE /\ Systemd!Disturb /\ work.job = "none"
             /\ \E s \in {"inactive", "failed"} : work' = Systemd!Entered(s)
    <3>1. PICK s \in UnitStates : work' = Systemd!Entered(s)
      BY <2>2 DEF UnitStates
    <3>2. /\ work' \in SystemdWork /\ work'.by = work.by /\ work'.file = work.file
          /\ work'.cache = work.cache
      BY <1>1, <3>1, UnitEnters
    <3> QED  BY <1>7, <2>2, <3>2
  <2> QED  BY <1>8, <2>1, <2>2 DEF Systemd!Crash
<1>9. CASE Systemd!Operate
  <2> DEFINE free == [f \in Field |-> "none"]
  <2>1. free \in Limits
    BY DEF Limits
  <2>2. /\ Systemd!Disturb /\ work.job = "none"
        /\ \/ work' = [work EXCEPT !.job = "start", !.loaded = TRUE]
           \/ work' = [work EXCEPT !.job = "stop"]
           \/ \E s \in {"reloading", "inactive"} : work' = Systemd!Entered(s)
           \/ work' = [Systemd!Entered("maintenance") EXCEPT !.loaded = TRUE]
           \/ work' = [work EXCEPT !.loaded = FALSE]
           \/ work' = [work EXCEPT !.limits = free]
    BY <1>9, Zenon DEF Systemd!Operate, Systemd!Field, Field
  <2> HIDE DEF free
  <2>3. /\ work' \in SystemdWork /\ work'.by = work.by /\ work'.file = work.file
        /\ work'.cache = work.cache
    <3>1. CASE work' = [work EXCEPT !.job = "start", !.loaded = TRUE]
      BY <1>1, <3>1 DEF SystemdWork
    <3>2. CASE work' = [work EXCEPT !.job = "stop"]
      BY <1>1, <3>2 DEF SystemdWork
    <3>3. CASE \E s \in {"reloading", "inactive"} : work' = Systemd!Entered(s)
      <4>1. PICK s \in UnitStates : work' = Systemd!Entered(s)
        BY <3>3 DEF UnitStates
      <4> QED  BY <1>1, <4>1, UnitEnters
    <3>6. CASE work' = [Systemd!Entered("maintenance") EXCEPT !.loaded = TRUE]
      <4>1. "maintenance" \in UnitStates
        BY DEF UnitStates
      <4>2. PICK b \in BOOLEAN :
                work' = [work EXCEPT !.state = "maintenance", !.fell = b, !.loaded = TRUE]
        BY <1>1, <3>6, <4>1, UnitEnters
      <4> QED  BY <1>1, <4>1, <4>2 DEF SystemdWork
    <3>4. CASE work' = [work EXCEPT !.loaded = FALSE]
      BY <1>1, <3>4 DEF SystemdWork
    <3>5. CASE work' = [work EXCEPT !.limits = free]
      BY <1>1, <2>1, <3>5 DEF SystemdWork
    <3> QED  BY <2>2, <3>1, <3>2, <3>3, <3>4, <3>5, <3>6
  <2> QED  BY <1>7, <2>2, <2>3
<1>10. CASE Systemd!EditFile
  <2>1. PICK e \in BOOLEAN :
            work' = [work EXCEPT !.file = [mtime |-> work.file.mtime + 1, enabled |-> e]]
    BY <1>10 DEF Systemd!EditFile
  <2>2. [mtime |-> work.file.mtime + 1, enabled |-> e] \in UnitFile
    BY <1>1 DEF UnitFile
  <2>3. /\ work' \in SystemdWork /\ work'.by = work.by /\ work'.job = work.job
        /\ work'.file.mtime = work.file.mtime + 1 /\ work'.cache = work.cache
    BY <1>1, <2>1, <2>2 DEF SystemdWork
  <2>4. SystemdCache'
    BY <1>1, <2>3 DEF SystemdCache, Systemd!CacheIsFresh, SystemdWork, UnitFile
  <2>5. Stay /\ NoneClean({}) /\ asked' = "none"
    BY <1>10, SystemdShapes DEF Systemd!EditFile
  <2> QED  BY <1>1, <2>3, <2>4, <2>5, SystemdStays
<1>11. ASSUME NEW c \in Caller, Systemd!CallStep(c) \/ Systemd!FailSystemd(c)
       PROVE  CallsOK' /\ SystemdInv'
  BY <1>11, SystemdStats, SystemdLabels, SystemdResources, SystemdEnqueues,
     SystemdWaits, SystemdFails DEF Systemd!CallStep
<1> QED
  BY <1>1, <1>3, <1>4, <1>6, <1>8, <1>9, <1>10, <1>11
     DEF Next, Is, CallStep, CallFails, Serve, Poll, Close, Scan, Inspect, Settle,
         Environment, Systemd!Environment

-----------------------------------------------------------------------------
(* Proxmox.                                                                *)
LEMMA ProxmoxShapes ==
  ASSUME CallsOK
  PROVE  /\ \A c \in Caller, s \in Step :
                Proxmox!WroteAndGoto(c, s) => GoesTo(c, s) /\ NoneClean({c})
         /\ \A c \in Caller, ok \in BOOLEAN : Proxmox!Return(c, ok) => Returns(c, ok)
         /\ \A c \in Caller, ok \in BOOLEAN :
                Proxmox!WroteAndReturn(c, ok) => Returns(c, ok) /\ NoneClean({})
         /\ Proxmox!Disturb => Stay /\ NoneClean({}) /\ asked' = "none"
         /\ Proxmox!Progress => Stay /\ asked' = asked
<1>1. calls \in [Caller -> Call]
  BY DEF CallsOK
<1>3. \A c \in Caller, s \in Step : Proxmox!WroteAndGoto(c, s) => WroteAndGoto(c, s)
  BY DEF Proxmox!WroteAndGoto, WroteAndGoto, Proxmox!Interfere, Interfere, Proxmox!NoCall,
     NoCall
<1>4. \A c \in Caller, ok \in BOOLEAN : Proxmox!Return(c, ok) => Return(c, ok)
  BY DEF Proxmox!Return, Return, Proxmox!NoCall, NoCall
<1>5. \A c \in Caller, ok \in BOOLEAN : Proxmox!WroteAndReturn(c, ok) => WroteAndReturn(c, ok)
  BY DEF Proxmox!WroteAndReturn, WroteAndReturn, Proxmox!Interfere, Interfere,
     Proxmox!NoCall, NoCall
<1>6. Proxmox!Disturb => Disturb
  BY DEF Proxmox!Disturb, Disturb, Proxmox!Interfere, Interfere, Proxmox!NoCall, NoCall
<1>7. Proxmox!Progress => Progress
  BY DEF Proxmox!Progress, Progress
<1> QED
  BY <1>1, <1>3, <1>4, <1>5, <1>6, <1>7, WroteAndGotoGoes,
     ReturnReturns, WroteAndReturnReturns, DisturbStays, ProgressStays

ProxmoxWork ==
    [node : {0, 1, 2}, up : BOOLEAN, ip : BOOLEAN, task : {"none", "start", "stop"},
     fell : BOOLEAN, lapse : BOOLEAN, cache : {0, 1, 2},
     pending : {"none", "running", "ok", "failed"}]

(* While a clean stop waits, the container is down or its task takes it    *)
(* down, which no start task undoes.                                       *)
StopWorks == work.lapse \/ work.task = "stop" \/ (work.task = "none" /\ ~work.up)

(* What holds after a clean stop and after a clean start until something   *)
(* else touches the container: a start task is watched, so that it is      *)
(* known when it fails.                                                    *)
StopHolds == work.lapse \/ (~work.up /\ work.task # "start")

StartHolds ==
    \/ work.lapse
    \/ work.up /\ work.task # "stop"
    \/ work.task = "start" /\ work.pending = "running"
    \/ work.pending = "failed"

ProxmoxInv ==
    /\ cfg \in ProxmoxConfig
    /\ work \in ProxmoxWork
    /\ work.task = "start" => ~work.up
    /\ \A d \in Caller : calls[d].clean /\ At(d, "stop", "wait") => StopWorks
    /\ asked = "start" => StartHolds
    /\ asked = "stop" => StopHolds

(* What a step that is not about the container's tasks leaves alone.       *)
SameTasks ==
    /\ work' \in ProxmoxWork
    /\ work'.task = work.task /\ work'.up = work.up
    /\ work'.pending = work.pending /\ work'.lapse = work.lapse

LEMMA ProxmoxGoes ==
  ASSUME CallsOK, ProxmoxInv, NEW c \in Caller, Changes(c), NEW s, GoesTo(c, s),
         work' \in ProxmoxWork, work'.task = "start" => ~work'.up,
         calls[c].op = "stop" /\ s = "wait" => StopWorks'
  PROVE  CallsOK' /\ ProxmoxInv'
<1>1. CallsOK' /\ asked' = "none" /\ cfg' = cfg
  BY GoesOK DEF Changes, CallsOK, GoesTo
<1>2. ASSUME NEW d \in Caller, calls'[d].clean, At(d, "stop", "wait")'
      PROVE  StopWorks'
  BY <1>2 DEF GoesTo, At, CallsOK
<1> QED
  BY <1>1, <1>2 DEF ProxmoxInv

LEMMA ProxmoxReturns ==
  ASSUME CallsOK, ProxmoxInv, NEW c \in Caller, NEW ok \in BOOLEAN, Returns(c, ok),
         Changes(c) \/ SameTasks, work' \in ProxmoxWork, work'.task = "start" => ~work'.up,
         ok /\ calls[c].clean /\ calls[c].op = "start" => StartHolds',
         ok /\ calls[c].clean /\ calls[c].op = "stop" => StopHolds'
  PROVE  CallsOK' /\ ProxmoxInv'
<1>1. CallsOK' /\ cfg' = cfg
  BY ReturnsOK DEF Returns
<1>2. ASSUME NEW d \in Caller, calls'[d].clean, At(d, "stop", "wait")'
      PROVE  StopWorks'
  <2>1. d # c /\ calls[d].clean /\ At(d, "stop", "wait")
    BY <1>2, NoCallType DEF Returns, At
  <2>2. SameTasks /\ StopWorks
    BY <2>1 DEF CallsOK, ProxmoxInv
  <2> QED  BY <2>2 DEF SameTasks, StopWorks
<1> QED
  BY <1>1, <1>2 DEF ProxmoxInv, Returns

LEMMA ProxmoxStays ==
  ASSUME CallsOK, ProxmoxInv, Stay, work' \in ProxmoxWork,
         work'.task = "start" => ~work'.up,
         \/ NoneClean({}) /\ asked' = "none"
         \/ /\ asked' = asked
            /\ StopWorks => StopWorks'
            /\ asked = "start" /\ StartHolds => StartHolds'
            /\ asked = "stop" /\ StopHolds => StopHolds'
  PROVE  CallsOK' /\ ProxmoxInv'
<1>1. CallsOK' /\ cfg' = cfg
  BY StayOK DEF Stay
<1>2. ASSUME NEW d \in Caller, calls'[d].clean, At(d, "stop", "wait")'
      PROVE  StopWorks'
  BY <1>2 DEF Stay, NoneClean, At, ProxmoxInv
<1> QED
  BY <1>1, <1>2 DEF ProxmoxInv

LEMMA GotoWithGoes ==
  ASSUME CallsOK, work \in ProxmoxWork, NEW c \in Caller, NEW s \in Step, Proxmox!GotoWith(c, s)
  PROVE  GoesTo(c, s)
<1>1. /\ calls \in [Caller -> Call] /\ work.node \in Nat /\ cfg' = cfg /\ asked' = asked
  BY DEF CallsOK, ProxmoxWork, Proxmox!GotoWith
<1>2. \A d \in Caller :
        calls'[d] = IF d = c THEN [calls[c] EXCEPT !.step = s, !.seen = work.node]
                    ELSE calls[d]
  BY <1>1 DEF Proxmox!GotoWith
<1>3. /\ calls'[c] \in Call
      /\ calls'[c].op = calls[c].op /\ calls'[c].step = s
      /\ calls'[c].undo = calls[c].undo /\ calls'[c].clean = calls[c].clean
  BY <1>1, <1>2 DEF Call
<1>4. calls' \in [Caller -> Call]
  BY <1>1, <1>2, <1>3 DEF Proxmox!GotoWith
<1> QED
  BY <1>1, <1>2, <1>3, <1>4 DEF GoesTo

LEMMA ProxmoxCallSteps ==
  ASSUME CallsOK, ProxmoxInv, NEW c \in Caller,
         \/ Proxmox!NotFound(c) \/ Proxmox!InstanceStart(c) \/ Proxmox!Submit(c)
         \/ Proxmox!InstanceStop(c) \/ Proxmox!SubmitStop(c) \/ Proxmox!Wait(c)
  PROVE  CallsOK' /\ ProxmoxInv'
<1>1. work \in ProxmoxWork /\ cfg \in ProxmoxConfig /\ (work.task = "start" => ~work.up)
  BY DEF ProxmoxInv
<1>2. \/ Proxmox!InstanceStart(c) \/ Proxmox!InstanceStop(c) \/ Proxmox!Submit(c)
      \/ Proxmox!SubmitStop(c) \/ Proxmox!Wait(c)
      => Changes(c)
  BY DEF Proxmox!InstanceStart, Proxmox!Submit, Proxmox!InstanceStop, Proxmox!SubmitStop,
     Proxmox!Wait, Proxmox!Find, Proxmox!At, Changes
<1>3. work.node \in {0, 1, 2} /\ work.cache \in {0, 1, 2} /\ work.up \in BOOLEAN
  BY <1>1 DEF ProxmoxWork
<1>4. CASE Proxmox!Return(c, FALSE) /\ SameTasks
  BY <1>1, <1>4, ProxmoxShapes, ProxmoxReturns DEF SameTasks
<1>5. CASE Proxmox!NotFound(c)
  <2>1. PICK n \in Proxmox!Resolved : work' = [work EXCEPT !.cache = n]
    BY <1>5 DEF Proxmox!NotFound
  <2>2. n \in {0, 1, 2}
    BY <1>3, <2>1 DEF Proxmox!Resolved, Proxmox!scanContainers, Proxmox!Nowhere
  <2>3. SameTasks
    BY <1>1, <2>1, <2>2 DEF ProxmoxWork, SameTasks
  <2> QED  BY <1>4, <1>5, <2>3 DEF Proxmox!NotFound
<1>6. CASE Proxmox!InstanceStart(c)
  <2>1. CASE work.up
    <3> DEFINE b == work.task = "stop"
    <3>1. work' = [work EXCEPT !.cache = work.node, !.lapse = b] /\ Proxmox!Return(c, TRUE)
      BY <1>6, <2>1 DEF Proxmox!InstanceStart
    <3>2. b \in BOOLEAN /\ (b <=> work.task = "stop")
      OBVIOUS
    <3> HIDE DEF b
    <3>3. /\ work' \in ProxmoxWork /\ work'.task = work.task /\ work'.up = work.up
          /\ work'.lapse = b
      BY <1>1, <1>3, <3>1, <3>2 DEF ProxmoxWork
    <3>4. StartHolds' /\ calls[c].op = "start"
      BY <1>6, <2>1, <3>2, <3>3
         DEF StartHolds, Proxmox!InstanceStart, Proxmox!Find, Proxmox!At
    <3> QED  BY <1>1, <1>2, <1>6, <3>1, <3>3, <3>4, ProxmoxShapes, ProxmoxReturns
  <2>2. CASE ~work.up
    <3>1. work' = [work EXCEPT !.cache = work.node] /\ Proxmox!GotoWith(c, "submit")
      BY <1>6, <2>2 DEF Proxmox!InstanceStart
    <3>2. work' \in ProxmoxWork /\ work'.up = work.up
      BY <1>1, <1>3, <3>1 DEF ProxmoxWork
    <3>3. GoesTo(c, "submit")
      BY <1>1, <3>1, GotoWithGoes DEF Step
    <3> QED  BY <1>2, <1>6, <2>2, <3>2, <3>3, ProxmoxGoes
  <2> QED  BY <2>1, <2>2
<1>7. CASE Proxmox!InstanceStop(c)
  <2>1. CASE ~work.up
    <3> DEFINE b == work.task = "start"
    <3>1. /\ work' = [work EXCEPT !.cache = work.node, !.pending = "none", !.lapse = b]
          /\ Proxmox!Return(c, TRUE)
      BY <1>7, <2>1 DEF Proxmox!InstanceStop
    <3>2. b \in BOOLEAN /\ (b <=> work.task = "start")
      OBVIOUS
    <3> HIDE DEF b
    <3>3. /\ work' \in ProxmoxWork /\ work'.task = work.task /\ work'.up = work.up
          /\ work'.lapse = b
      BY <1>1, <1>3, <3>1, <3>2 DEF ProxmoxWork
    <3>4. StopHolds' /\ calls[c].op = "stop"
      BY <1>7, <2>1, <3>2, <3>3
         DEF StopHolds, Proxmox!InstanceStop, Proxmox!Find, Proxmox!At
    <3> QED  BY <1>1, <1>2, <1>7, <3>1, <3>3, <3>4, ProxmoxShapes, ProxmoxReturns
  <2>2. CASE work.up
    <3>1. /\ work' = [work EXCEPT !.cache = work.node, !.pending = "none"]
          /\ Proxmox!GotoWith(c, "submit")
      BY <1>7, <2>2 DEF Proxmox!InstanceStop
    <3>2. work' \in ProxmoxWork /\ work'.up = work.up /\ work'.task = work.task
      BY <1>1, <1>3, <3>1 DEF ProxmoxWork
    <3>3. GoesTo(c, "submit")
      BY <1>1, <3>1, GotoWithGoes DEF Step
    <3> QED  BY <1>1, <1>2, <1>7, <3>2, <3>3, ProxmoxGoes
  <2> QED  BY <2>1, <2>2
<1>8. CASE Proxmox!Submit(c)
  <2>1. calls[c].op = "start"
    BY <1>8 DEF Proxmox!Submit, Proxmox!At
  <2>2. CASE /\ ~work.up
             /\ work' = [work EXCEPT !.task = "start", !.pending = "running", !.lapse = FALSE]
             /\ Proxmox!WroteAndReturn(c, TRUE)
    <3>1. /\ work' \in ProxmoxWork /\ work'.task = "start" /\ work'.pending = "running"
          /\ work'.up = work.up
      BY <1>1, <2>2 DEF ProxmoxWork
    <3> QED  BY <1>2, <1>8, <2>1, <2>2, <3>1, ProxmoxShapes, ProxmoxReturns DEF StartHolds
  <2>3. CASE /\ work' = [work EXCEPT !.pending = "failed", !.lapse = FALSE]
             /\ Proxmox!Return(c, TRUE)
    <3>1. /\ work' \in ProxmoxWork /\ work'.task = work.task /\ work'.pending = "failed"
          /\ work'.up = work.up
      BY <1>1, <2>3 DEF ProxmoxWork
    <3> QED  BY <1>1, <1>2, <1>8, <2>1, <2>3, <3>1, ProxmoxShapes, ProxmoxReturns DEF StartHolds
  <2>4. CASE UNCHANGED work /\ Proxmox!Return(c, FALSE)
    BY <1>1, <1>4, <2>4 DEF SameTasks
  <2> QED  BY <1>8, <2>2, <2>3, <2>4 DEF Proxmox!Submit
<1>9. CASE Proxmox!SubmitStop(c)
  <2>1. CASE /\ work' = [work EXCEPT !.task = "stop", !.lapse = FALSE]
             /\ Proxmox!WroteAndGoto(c, "wait")
    <3>1. work' \in ProxmoxWork /\ StopWorks' /\ work'.task = "stop"
      BY <1>1, <2>1 DEF ProxmoxWork, StopWorks
    <3> QED  BY <1>2, <1>9, <2>1, <3>1, ProxmoxShapes, ProxmoxGoes DEF Step
  <2>2. CASE UNCHANGED work /\ Proxmox!Return(c, FALSE)
    BY <1>1, <1>4, <2>2 DEF SameTasks
  <2> QED  BY <1>9, <2>1, <2>2 DEF Proxmox!SubmitStop
<1>10. CASE Proxmox!Wait(c)
  <2>1. /\ calls[c].op = "stop" /\ calls[c].step = "wait" /\ work.task # "stop"
        /\ Proxmox!Return(c, TRUE) /\ work' = work
    BY <1>10 DEF Proxmox!Wait, Proxmox!At
  <2>2. calls[c].clean => StopHolds'
    BY <2>1 DEF ProxmoxInv, StopWorks, At, StopHolds
  <2> QED  BY <1>1, <1>2, <1>10, <2>1, <2>2, ProxmoxShapes, ProxmoxReturns
<1> QED
  BY <1>5, <1>6, <1>7, <1>8, <1>9, <1>10

LEMMA ProxmoxInspects ==
  ASSUME CallsOK, ProxmoxInv, NEW c \in Caller, Proxmox!checkPendingTask(c)
  PROVE  CallsOK' /\ ProxmoxInv'
<1>1. /\ work \in ProxmoxWork /\ cfg \in ProxmoxConfig /\ calls[c] = NoCall
      /\ cfg' = cfg /\ asked' = asked /\ calls \in [Caller -> Call]
  BY DEF ProxmoxInv, Proxmox!checkPendingTask, Proxmox!NoCall, NoCall, CallsOK
<1>2. PICK n \in Proxmox!Resolved : work' = [work EXCEPT !.cache = n]
  BY DEF Proxmox!checkPendingTask
<1>3. n \in {0, 1, 2}
  BY <1>1, <1>2 DEF Proxmox!Resolved, Proxmox!scanContainers, Proxmox!Nowhere, ProxmoxWork
<1>4. SameTasks
  BY <1>1, <1>2, <1>3 DEF ProxmoxWork, SameTasks
<1> DEFINE b == work.pending = "failed"
           r == [NoCall EXCEPT !.op = "inspect", !.step = "clear", !.undo = b]
<1>5. r \in Call /\ r.op = "inspect" /\ r.step = "clear" /\ r.clean = FALSE
  BY DEF NoCall, Call, Step
<1>6. calls' = [calls EXCEPT ![c] = r]
  BY DEF Proxmox!checkPendingTask, Proxmox!NoCall, NoCall
<1> HIDE DEF r
<1>7. CallsOK'
  BY <1>1, <1>5, <1>6, NoCallType DEF CallsOK, Changes, ProxmoxConfig
<1> QED
  BY <1>1, <1>4, <1>5, <1>6, <1>7
     DEF ProxmoxInv, SameTasks, StopWorks, At, StartHolds, StopHolds

LEMMA ProxmoxClears ==
  ASSUME CallsOK, ProxmoxInv, NEW c \in Caller, Proxmox!ClearPending(c)
  PROVE  CallsOK' /\ ProxmoxInv'
<1> DEFINE lapse == work.lapse \/ (~calls[c].undo /\ work.pending \in {"running", "failed"})
<1>1. /\ work \in ProxmoxWork /\ cfg \in ProxmoxConfig /\ calls[c].op = "inspect"
      /\ cfg' = cfg /\ calls \in [Caller -> Call] /\ (work.task = "start" => ~work.up)
      /\ work' = [work EXCEPT !.pending = "none", !.lapse = lapse]
  BY DEF ProxmoxInv, Proxmox!ClearPending, Proxmox!At, CallsOK
<1>5. lapse \in BOOLEAN
  BY <1>1 DEF ProxmoxWork
<1> HIDE DEF lapse
<1>2. /\ work' \in ProxmoxWork /\ work'.task = work.task /\ work'.up = work.up
      /\ work'.lapse = lapse
  BY <1>1, <1>5 DEF ProxmoxWork
<1>3. CASE calls[c].undo
  <2> DEFINE b == \A d \in Caller \ {c} : calls[d] = NoCall
             r == [NoCall EXCEPT !.op = "start", !.step = "begin", !.clean = b]
             cs == [calls EXCEPT ![c] = r]
  <2>1. r \in Call /\ r.op = "start" /\ r.step = "begin"
        /\ (r.clean => \A d \in Caller \ {c} : calls[d] = NoCall)
    <3>1. b \in BOOLEAN /\ (b => \A d \in Caller \ {c} : calls[d] = NoCall)
      OBVIOUS
    <3> HIDE DEF b
    <3> QED  BY <3>1 DEF NoCall, Call, Step
  <2>2. asked' = "none" /\ calls' = Interfere(cs, {c})
    BY <1>3 DEF Proxmox!ClearPending, Proxmox!NoCall, NoCall, Proxmox!Interfere, Interfere
  <2> HIDE DEF r
  <2>3. cs[c] = r /\ \A d \in Caller \ {c} : cs[d] = calls[d]
    BY <1>1
  <2> HIDE DEF cs
  <2>4. /\ DOMAIN calls' = Caller /\ calls' = [d \in Caller |-> calls'[d]]
        /\ calls'[c] = r
        /\ \A d \in Caller \ {c} :
                calls'[d] = IF calls[d] = NoCall THEN calls[d]
                            ELSE [calls[d] EXCEPT !.clean = FALSE, !.fresh = FALSE]
    BY <2>2, <2>3 DEF Interfere
  <2>5. ASSUME NEW d \in Caller \ {c}
        PROVE  /\ calls'[d] \in Call /\ calls'[d].op = calls[d].op
               /\ calls'[d].clean = FALSE
               /\ calls[d] = NoCall => calls'[d] = NoCall
    <3>1. calls[d] \in Call
      BY <1>1
    <3>2. CASE calls[d] = NoCall
      BY <2>4, <3>2, NoCallType
    <3>3. CASE calls[d] # NoCall
      <4>1. calls'[d] = [calls[d] EXCEPT !.clean = FALSE, !.fresh = FALSE]
        BY <2>4, <3>3
      <4> QED  BY <3>1, <3>3, <4>1 DEF Call
    <3> QED  BY <3>2, <3>3
  <2>6. calls' \in [Caller -> Call]
    BY <2>1, <2>4, <2>5
  <2>7. CallsOK'
    <3>1. /\ cfg.provider = "proxmox" /\ calls'[c].op = "start"
          /\ (calls'[c].clean => \A d \in Caller \ {c} : calls[d] = NoCall)
      BY <1>1, <2>1, <2>4 DEF ProxmoxConfig
    <3>2. \A d \in Caller : calls'[d].op = "none" => calls'[d] = NoCall
      BY <2>5, <3>1 DEF CallsOK
    <3>3. \A d \in Caller : calls'[d].clean => d = c
      BY <2>5
    <3>4. \A d \in Caller \ {c} : calls'[c].clean => calls'[d].op = "none"
      BY <2>5, <3>1, NoCallType
    <3> QED  BY <1>1, <2>2, <2>6, <3>1, <3>2, <3>3, <3>4 DEF CallsOK, Changes
  <2>8. ASSUME NEW d \in Caller, calls'[d].clean, At(d, "stop", "wait")'
        PROVE  StopWorks'
    BY <2>1, <2>4, <2>5, <2>8 DEF At
  <2> QED  BY <1>1, <1>2, <2>2, <2>7, <2>8 DEF ProxmoxInv
<1>4. CASE ~calls[c].undo
  <2>1. calls' = [calls EXCEPT ![c] = NoCall] /\ asked' = asked
    BY <1>4 DEF Proxmox!ClearPending, Proxmox!NoCall, NoCall
  <2>2. CallsOK'
    BY <1>1, <2>1, NoCallType DEF CallsOK, Changes
  <2>3. work.lapse => work'.lapse
    BY <1>2 DEF lapse
  <2>4. work.pending \in {"running", "failed"} => work'.lapse
    BY <1>2, <1>4 DEF lapse
  <2>5. asked = "start" => StartHolds'
    BY <1>2, <2>3, <2>4 DEF ProxmoxInv, StartHolds
  <2>6. asked = "stop" => StopHolds'
    BY <1>2, <2>3 DEF ProxmoxInv, StopHolds
  <2>7. StopWorks => StopWorks'
    BY <1>2, <2>3 DEF StopWorks
  <2> QED
    BY <1>1, <1>2, <2>1, <2>2, <2>5, <2>6, <2>7, NoCallType DEF ProxmoxInv, At
<1> QED  BY <1>3, <1>4

LEMMA ProxmoxPlatform ==
  ASSUME CallsOK, ProxmoxInv,
         \/ Proxmox!Settle \/ Proxmox!StartFails \/ Proxmox!StopFails \/ Proxmox!Operate
  PROVE  CallsOK' /\ ProxmoxInv'
<1>1. work \in ProxmoxWork /\ cfg \in ProxmoxConfig /\ (work.task = "start" => ~work.up)
  BY DEF ProxmoxInv
<1>2. CASE Proxmox!Disturb /\ work' \in ProxmoxWork /\ work'.task = "none"
  BY <1>2, ProxmoxShapes, ProxmoxStays
<1>3. CASE Proxmox!TaskEnds
  <2>1. Stay /\ asked' = asked
    BY <1>3, ProxmoxShapes DEF Proxmox!TaskEnds
  <2>2. CASE work.task = "start"
    <3> DEFINE p == IF work.pending = "running" THEN "ok" ELSE work.pending
    <3>1. /\ p \in {"none", "running", "ok", "failed"}
          /\ work' = [work EXCEPT !.task = "none", !.up = TRUE, !.pending = p]
      BY <1>1, <1>3, <2>2 DEF Proxmox!TaskEnds, ProxmoxWork
    <3> HIDE DEF p
    <3>2. work' \in ProxmoxWork /\ work'.up = TRUE /\ work'.task = "none"
          /\ work'.lapse = work.lapse
      BY <1>1, <3>1 DEF ProxmoxWork
    <3>3. StartHolds' /\ (StopWorks => StopWorks') /\ (StopHolds => StopHolds')
      BY <2>2, <3>2 DEF StartHolds, StopWorks, StopHolds
    <3> QED  BY <2>1, <3>2, <3>3, ProxmoxStays
  <2>3. CASE work.task = "stop"
    <3> DEFINE f == Proxmox!Wants("stopped")
    <3>1. /\ f \in BOOLEAN
          /\ work' = [work EXCEPT !.task = "none", !.up = FALSE, !.ip = FALSE, !.fell = f]
      BY <1>1, <1>3, <2>3 DEF Proxmox!TaskEnds, ProxmoxWork, Proxmox!Wants
    <3> HIDE DEF f
    <3>2. work' \in ProxmoxWork /\ work'.up = FALSE /\ work'.task = "none"
          /\ work'.lapse = work.lapse /\ work'.pending = work.pending
      BY <1>1, <3>1 DEF ProxmoxWork
    <3>3. StopHolds' /\ StopWorks' /\ (StartHolds => StartHolds')
      BY <2>3, <3>2 DEF StartHolds, StopWorks, StopHolds
    <3> QED  BY <2>1, <3>2, <3>3, ProxmoxStays
  <2> QED  BY <1>3, <2>2, <2>3 DEF Proxmox!TaskEnds
<1>4. CASE work' = [work EXCEPT !.ip = TRUE] /\ Proxmox!Progress
  <2>1. SameTasks
    BY <1>1, <1>4 DEF ProxmoxWork, SameTasks
  <2>2. Stay /\ asked' = asked
    BY <1>4, ProxmoxShapes
  <2> QED
    BY <1>1, <2>1, <2>2, ProxmoxStays DEF SameTasks, StopWorks, StartHolds, StopHolds
<1>5. CASE Proxmox!StartFails
  <2> DEFINE p == IF work.pending = "running" THEN "failed" ELSE work.pending
  <2>1. /\ p \in {"none", "running", "ok", "failed"}
        /\ work.pending \in {"running", "failed"} => p = "failed"
        /\ work' = [work EXCEPT !.task = "none", !.pending = p]
        /\ work.task = "start" /\ Stay /\ asked' = asked
    BY <1>1, <1>5, ProxmoxShapes DEF Proxmox!StartFails, ProxmoxWork
  <2> HIDE DEF p
  <2>2. /\ work' \in ProxmoxWork /\ work'.task = "none" /\ work'.pending = p
        /\ work'.up = work.up /\ work'.lapse = work.lapse
    BY <1>1, <2>1 DEF ProxmoxWork
  <2>3. /\ StartHolds => StartHolds'
        /\ StopHolds => StopHolds'
        /\ StopWorks => StopWorks'
    BY <1>1, <2>1, <2>2 DEF StartHolds, StopWorks, StopHolds
  <2> QED  BY <2>1, <2>2, <2>3, ProxmoxStays
<1>7. CASE Proxmox!StopFails
  <2>1. Stay /\ asked' = asked /\ work' = [work EXCEPT !.task = "none", !.lapse = TRUE]
    BY <1>7, ProxmoxShapes DEF Proxmox!StopFails
  <2>2. work' \in ProxmoxWork /\ work'.task = "none" /\ work'.lapse
    BY <1>1, <2>1 DEF ProxmoxWork
  <2> QED  BY <2>1, <2>2, ProxmoxStays DEF StartHolds, StopWorks, StopHolds
<1>6. CASE Proxmox!Operate
  <2> DEFINE f == Proxmox!Wants("stopped")
             m == CHOOSE n \in Proxmox!Node : n # work.node
             o == IF work.node = Proxmox!Nowhere THEN 1 ELSE Proxmox!Nowhere
  <2>1. f \in BOOLEAN /\ m \in {0, 1, 2} /\ o \in {0, 1, 2}
    <3>1. \E n \in Proxmox!Node : n # work.node
      BY <1>1 DEF Proxmox!Node, ProxmoxWork
    <3>2. m \in Proxmox!Node
      BY <3>1
    <3> QED  BY <3>2 DEF Proxmox!Node, Proxmox!Nowhere, Proxmox!Wants
  <2>2. /\ work.task = "none"
        /\ \/ work' = [work EXCEPT !.up = FALSE, !.ip = FALSE, !.fell = f]
           \/ work' = [work EXCEPT !.node = m]
           \/ work' = [work EXCEPT !.node = o]
    BY <1>6 DEF Proxmox!Operate
  <2> HIDE DEF f, m, o
  <2>3. work' \in ProxmoxWork /\ work'.task = "none"
    <3>1. CASE work' = [work EXCEPT !.up = FALSE, !.ip = FALSE, !.fell = f]
      BY <1>1, <2>1, <2>2, <3>1 DEF ProxmoxWork
    <3>2. CASE work' = [work EXCEPT !.node = m]
      BY <1>1, <2>1, <2>2, <3>2 DEF ProxmoxWork
    <3>3. CASE work' = [work EXCEPT !.node = o]
      BY <1>1, <2>1, <2>2, <3>3 DEF ProxmoxWork
    <3> QED  BY <2>2, <3>1, <3>2, <3>3
  <2> QED  BY <1>2, <1>6, <2>3 DEF Proxmox!Operate
<1> QED
  BY <1>3, <1>4, <1>5, <1>6, <1>7 DEF Proxmox!Settle

LEMMA ProxmoxStep ==
  ASSUME CallsOK, ProxmoxInv, Next
  PROVE  CallsOK' /\ ProxmoxInv'
<1>1. /\ cfg.provider = "proxmox" /\ work \in ProxmoxWork /\ cfg \in ProxmoxConfig
      /\ work.task = "start" => ~work.up
  BY DEF ProxmoxInv, ProxmoxConfig
<1>2. CASE UNCHANGED <<cfg, calls, asked>> /\ SameTasks
  BY <1>1, <1>2, ProxmoxStays, UnchangedStays
     DEF CallsOK, SameTasks, StopWorks, StartHolds, StopHolds
<1>3. ASSUME NEW c \in Caller, NEW op \in {"start", "stop"}, Begin(c, op)
      PROVE  CallsOK' /\ ProxmoxInv'
  BY <1>1, <1>3, BeginOK DEF ProxmoxInv, At
<1>4. ASSUME NEW c \in Caller, Proxmox!FailProxmox(c)
      PROVE  CallsOK' /\ ProxmoxInv'
  BY <1>1, <1>4, ProxmoxShapes, ProxmoxReturns
     DEF Proxmox!FailProxmox, Proxmox!Fail, Changes
<1>5. CASE Proxmox!Close \/ Proxmox!PollFails \/ Receive \/ Cancel
  BY <1>1, <1>2, <1>5 DEF Proxmox!Close, Proxmox!PollFails, Proxmox!Polling,
     Proxmox!Streaming, Receive, Cancel, SameTasks
<1>6. CASE Proxmox!Scan \/ Proxmox!ScanSkips
  <2>1. PICK n \in {0, 1, 2} : work' = [work EXCEPT !.cache = n]
    BY <1>1, <1>6 DEF Proxmox!Scan, Proxmox!ScanSkips, Proxmox!Remember, Proxmox!Nowhere,
       ProxmoxWork
  <2>2. SameTasks
    BY <1>1, <2>1 DEF ProxmoxWork, SameTasks
  <2> QED  BY <1>2, <1>6, <2>2 DEF Proxmox!Scan, Proxmox!ScanSkips, Proxmox!Remember
<1>7. CASE Proxmox!Poll \/ Proxmox!InitialScan
  <2>1. CASE work' = work
    BY <1>1, <1>2, <1>7, <2>1 DEF SameTasks, Proxmox!Poll, Proxmox!InitialScan,
       Proxmox!Polling, Proxmox!Streaming
  <2>2. CASE work' # work
    <3>1. PICK n \in Proxmox!scanContainers :
              work' = [work EXCEPT !.cache = n, !.fell = FALSE]
      BY <1>7, <2>2 DEF Proxmox!Poll, Proxmox!InitialScan
    <3>2. n \in {0, 1, 2}
      BY <1>1, <3>1 DEF Proxmox!scanContainers, Proxmox!Nowhere, ProxmoxWork
    <3>3. SameTasks
      BY <1>1, <3>1, <3>2 DEF ProxmoxWork, SameTasks
    <3> QED
      BY <1>2, <1>7, <3>3 DEF Proxmox!Poll, Proxmox!InitialScan, Proxmox!Polling,
         Proxmox!Streaming
  <2> QED  BY <2>1, <2>2
<1>8. ASSUME NEW c \in Caller, Proxmox!CallStep(c)
      PROVE  CallsOK' /\ ProxmoxInv'
  BY <1>8, ProxmoxCallSteps, ProxmoxClears DEF Proxmox!CallStep
<1> QED
  BY <1>1, <1>3, <1>4, <1>5, <1>6, <1>7, <1>8, ProxmoxInspects, ProxmoxPlatform
     DEF Next, Is, CallStep, CallFails, Serve, Poll, Close, Scan, Inspect, Settle,
         Environment, Proxmox!Environment

-----------------------------------------------------------------------------
(* The provider that the configuration names keeps its part.               *)
Inv ==
    /\ CallsOK
    /\ DockerInv \/ SwarmInv \/ KubernetesInv \/ SystemdInv \/ ProxmoxInv

LEMMA InvInit == Init => Inv
<1> SUFFICES ASSUME Init PROVE Inv
  OBVIOUS
<1>1. cfg \in Configs
  BY DEF Init
<1>2. [f \in Field |-> "none"] \in Limits
  BY DEF Limits
<1>3. CASE calls = [c \in Caller |-> NoCall] /\ asked = "none"
  <2>1. CallsOK
    BY <1>3, NoCallType DEF CallsOK, Changes
  <2>2. \A c \in Caller : calls[c] = NoCall
    BY <1>3
  <2>3. CASE cfg \in DockerConfig
    <3> DEFINE s == IF cfg.idle >= 1 THEN "running" ELSE "created"
    <3>1. cfg.provider = "docker"
      BY <2>3 DEF DockerConfig
    <3>2. Docker!InitDocker
      BY <3>1 DEF Init, Is
    <3>3. work = [state |-> s, health |-> "none", code |-> 0,
                  limits |-> [f \in Field |-> "none"]]
      BY <3>2 DEF Docker!InitDocker, Docker!Field, Field
    <3>4. s \in {"running", "created"}
      OBVIOUS
    <3> HIDE DEF s
    <3>5. work \in DockerWork
      BY <1>2, <3>3, <3>4 DEF DockerWork
    <3> QED  BY <1>3, <2>1, <2>2, <2>3, <3>5, NoCallType DEF Inv, DockerInv, DockerFits
  <2>4. CASE cfg \in SwarmConfig
    <3>1. cfg.provider = "swarm"
      BY <2>4 DEF SwarmConfig
    <3>2. Swarm!InitSwarm
      BY <3>1 DEF Init, Is
    <3>3. work \in SwarmWork
      BY <1>2, <3>2 DEF Swarm!InitSwarm, SwarmWork, Swarm!Field, Field
    <3> QED  BY <1>3, <2>1, <2>4, <3>3 DEF Inv, SwarmInv
  <2>5. CASE cfg \in KubernetesConfig
    <3>1. cfg.provider = "kubernetes"
      BY <2>5 DEF KubernetesConfig
    <3>2. Kubernetes!InitKubernetes
      BY <3>1 DEF Init, Is
    <3> DEFINE b == cfg.redis /\ cfg.idle = 0
    <3>3. work = [exists |-> TRUE, replicas |-> 0, ready |-> 0, skip |-> b,
                  lapse |-> FALSE, limits |-> [f \in Field |-> "none"]]
      BY <3>2 DEF Kubernetes!InitKubernetes, Kubernetes!Field, Field
    <3>4. b \in BOOLEAN /\ (b => cfg.redis /\ cfg.idle = 0)
      OBVIOUS
    <3> HIDE DEF b
    <3>5. KubernetesObject /\ PausedInv
      BY <1>2, <3>3, <3>4 DEF KubernetesObject, KubernetesWork, PausedInv
    <3>6. cfg.redis => cfg.kind = "statefulset"
      BY <1>1, <3>1, ConfigsAssumption
    <3>7. ASSUME NEW d \in Caller
          PROVE  /\ Way(calls[d].op, calls[d].step, calls[d].undo)
                 /\ ~calls[d].clean
      BY <2>2, NoCallType DEF Way
    <3> QED  BY <1>3, <2>1, <2>5, <3>5, <3>6, <3>7 DEF Inv, KubernetesInv
  <2>6. CASE cfg \in SystemdConfig
    <3>1. cfg.provider = "systemd"
      BY <2>6 DEF SystemdConfig
    <3>2. Systemd!InitSystemd
      BY <3>1 DEF Init, Is
    <3>3. work = [state |-> "inactive", loaded |-> TRUE, fell |-> FALSE, job |-> "none",
                  by |-> "nobody", limits |-> [f \in Field |-> "none"],
                  file |-> [mtime |-> 1, enabled |-> TRUE],
                  cache |-> [mtime |-> 0, enabled |-> FALSE]]
      BY <3>2 DEF Systemd!InitSystemd, Systemd!Field, Field
    <3>4. work \in SystemdWork
      BY <1>2, <3>3 DEF SystemdWork, UnitStates, UnitFile
    <3>5. SystemdCache
      BY <3>3 DEF SystemdCache, Systemd!CacheIsFresh
    <3>6. ASSUME NEW d \in Caller
          PROVE  SystemdFits(d)
      BY <2>2, <3>3, NoCallType, CallerAssumption DEF SystemdFits
    <3> QED  BY <1>3, <2>1, <2>6, <3>4, <3>5, <3>6 DEF Inv, SystemdInv, SystemdAsked
  <2>7. CASE cfg \in ProxmoxConfig
    <3>1. cfg.provider = "proxmox"
      BY <2>7 DEF ProxmoxConfig
    <3>2. Proxmox!InitProxmox
      BY <3>1 DEF Init, Is
    <3>3. work \in ProxmoxWork /\ work.task = "none"
      BY <3>2 DEF Proxmox!InitProxmox, ProxmoxWork, Proxmox!Nowhere
    <3> QED  BY <1>3, <2>1, <2>2, <2>7, <3>3, NoCallType DEF Inv, ProxmoxInv
  <2> QED
    BY <1>1, <2>3, <2>4, <2>5, <2>6, <2>7, ConfigsAssumption
<1> QED
  BY <1>1, <1>3, ConfigsAssumption
     DEF Init, Is, Docker!InitDocker, Swarm!InitSwarm, Kubernetes!InitKubernetes,
         Systemd!InitSystemd, Proxmox!InitProxmox, Docker!NoCall, Swarm!NoCall,
         Kubernetes!NoCall, Systemd!NoCall, Proxmox!NoCall, NoCall, DockerConfig,
         SwarmConfig, KubernetesConfig, SystemdConfig, ProxmoxConfig

LEMMA InvNext == Inv /\ [Next]_vars => Inv'
<1>1. ASSUME Inv, Next PROVE Inv'
  BY <1>1, DockerStep, SwarmStep, KubernetesStep, SystemdStep, ProxmoxStep DEF Inv
<1>2. ASSUME Inv, UNCHANGED vars PROVE Inv'
  <2>1. UNCHANGED <<cfg, calls, asked, work>>
    BY <1>2 DEF vars
  <2>2. CallsOK /\ Stay
    BY <1>2, <2>1, UnchangedStays DEF Inv, CallsOK
  <2>3. CASE DockerInv
    BY <2>1, <2>2, <2>3, DockerStays, DockerSame DEF Inv, DockerInv
  <2>4. CASE SwarmInv
    BY <2>1, <2>2, <2>4, SwarmStays DEF Inv, SwarmInv
  <2>5. CASE KubernetesInv
    <3>1. KubernetesObject'
      BY <2>1, <2>5 DEF KubernetesInv, KubernetesObject
    <3> QED  BY <2>1, <2>2, <2>5, <3>1, KubernetesStays DEF Inv
  <2>6. CASE SystemdInv
    <3>1. work' \in SystemdWork /\ SystemdCache' /\ work'.file.mtime >= work.file.mtime
      BY <2>1, <2>6 DEF SystemdInv, SystemdCache, Systemd!CacheIsFresh, SystemdWork, UnitFile
    <3> QED  BY <2>1, <2>2, <2>6, <3>1, SystemdStays DEF Inv, Rests
  <2>7. CASE ProxmoxInv
    <3>1. (StopWorks' <=> StopWorks) /\ (StartHolds' <=> StartHolds)
          /\ (StopHolds' <=> StopHolds)
      BY <2>1 DEF StopWorks, StartHolds, StopHolds
    <3> QED  BY <2>1, <2>2, <2>7, <3>1, ProxmoxStays DEF Inv, ProxmoxInv
  <2> QED  BY <1>2, <2>3, <2>4, <2>5, <2>6, <2>7 DEF Inv
<1> QED  BY <1>1, <1>2

(* Whatever the provider, the labels and the interleaving of calls: when a *)
(* start or a stop returned without an error and nothing touched the       *)
(* workload meanwhile, the workload is what the call was to make of it; or *)
(* it was a start in Docker's scale mode, which did set the limits, or a   *)
(* task of Proxmox the call did not look at got in the way.                *)
THEOREM CallsSettle == Spec => []SettledAsAsked
<1>1. ASSUME Inv, Is("docker") PROVE SettledAsAsked
  <2>1. DockerInv
    BY <1>1 DEF Inv, Is, SwarmInv, KubernetesInv, SystemdInv, ProxmoxInv, SwarmConfig,
       KubernetesConfig, SystemdConfig, ProxmoxConfig
  <2>2. DockerStarted => Docker!Awake \/ Docker!OnlyLimited
    BY <2>1 DEF DockerInv, DockerConfig, DockerStarted, Docker!Awake, Docker!OnlyLimited
  <2> QED
    BY <1>1, <2>1, <2>2 DEF DockerInv, SettledAsAsked, StartKept, StopKept, Is
<1>2. ASSUME Inv, Is("proxmox") PROVE SettledAsAsked
  <2>1. ProxmoxInv
    BY <1>2 DEF Inv, Is, DockerInv, SwarmInv, KubernetesInv, SystemdInv, DockerConfig,
       SwarmConfig, KubernetesConfig, SystemdConfig
  <2>2. StartHolds => work.lapse \/ Proxmox!Awake
    BY DEF StartHolds, Proxmox!Awake, Proxmox!Up
  <2>3. StopHolds => work.lapse \/ Proxmox!Asleep
    BY DEF StopHolds, Proxmox!Asleep
  <2> QED
    BY <1>2, <2>1, <2>2, <2>3 DEF ProxmoxInv, SettledAsAsked, StartKept, StopKept, Is
<1>3. ASSUME Inv, ~Is("docker"), ~Is("proxmox") PROVE SettledAsAsked
  BY <1>3 DEF Inv, DockerInv, SwarmInv, KubernetesInv, SystemdInv, SystemdAsked, ProxmoxInv,
     SettledAsAsked, StartKept, StopKept, Is, DockerConfig, SwarmConfig, KubernetesConfig,
     SystemdConfig, ProxmoxConfig
<1>4. Inv => SettledAsAsked
  BY <1>1, <1>2, <1>3
<1> QED  BY <1>4, InvInit, InvNext, PTL DEF Spec

(* The redis-operator that InstanceStop pauses does not stay paused once   *)
(* pods run and the calls are over, unless the start or the failed stop    *)
(* that was to resume it failed to: its request for the owner or for the   *)
(* annotation, or the start's limits after the scale-up.                   *)
THEOREM OperatorIsResumed == Spec => []OperatorNotLeftPaused
<1>1. ASSUME Inv, Is("kubernetes") PROVE Kubernetes!OperatorNotLeftPaused
  <2>1. KubernetesInv
    BY <1>1 DEF Inv, Is, DockerInv, SwarmInv, SystemdInv, ProxmoxInv, DockerConfig,
       SwarmConfig, SystemdConfig, ProxmoxConfig
  <2>2. ASSUME NEW d \in Caller, Unpauses(d) PROVE calls[d] # Kubernetes!NoCall
    BY <2>2, NoCallType DEF Unpauses, NoCall, Kubernetes!NoCall
  <2> QED
    BY <2>1, <2>2 DEF KubernetesInv, PausedInv, Kubernetes!OperatorNotLeftPaused
<1> QED  BY <1>1, InvInit, InvNext, PTL DEF Spec, OperatorNotLeftPaused

(* The label cache of the systemd provider, filled by a look at the file's *)
(* time and a later read of its labels, never holds the labels of an old   *)
(* file under the time of the new one.                                     *)
THEOREM LabelsStayFresh == Spec => []CacheIsFresh
<1>1. Inv => CacheIsFresh
  BY DEF Inv, CacheIsFresh, Is, DockerInv, SwarmInv, KubernetesInv, SystemdInv,
     SystemdCache, ProxmoxInv, DockerConfig, SwarmConfig, KubernetesConfig, ProxmoxConfig
<1> QED  BY <1>1, InvInit, InvNext, PTL DEF Spec

-----------------------------------------------------------------------------
(* Counting the messages of a kind that are on the wire. *)

Stops(w, S) == {i \in 1..Len(w) : w[i] \in S}

LEMMA SomeOfInterval ==
  ASSUME NEW n \in Nat, NEW A \in SUBSET (1..n)
  PROVE  IsFiniteSet(A) /\ Cardinality(A) \in Nat
<1>1. IsFiniteSet(1..n)
  BY ONLY n \in Nat, FS_Interval
<1>2. IsFiniteSet(A)
  BY <1>1, FS_Subset, Zenon
<1> QED  BY <1>2, FS_CardinalityType, Zenon

LEMMA ShiftCounts ==
  ASSUME NEW n \in Nat, NEW A \in SUBSET (1..(n + 1)),
         NEW B, B = {i \in 1..n : i + 1 \in A}
  PROVE  /\ IsFiniteSet(A) /\ Cardinality(A) \in Nat
         /\ IsFiniteSet(B) /\ Cardinality(B) \in Nat
         /\ Cardinality(A) = Cardinality(B) + (IF 1 \in A THEN 1 ELSE 0)
<1>1. IsFiniteSet(A) /\ Cardinality(A) \in Nat
  <2>1. n + 1 \in Nat
    OBVIOUS
  <2> QED  BY <2>1, SomeOfInterval
<1>2. IsFiniteSet(B) /\ Cardinality(B) \in Nat
  <2>1. B \in SUBSET (1..n)
    OBVIOUS
  <2> QED  BY <2>1, SomeOfInterval
<1>3. ExistsBijection(B, A \ {1})
  <2> DEFINE f == [i \in B |-> i + 1]
  <2>1. f \in [B -> A \ {1}]
    OBVIOUS
  <2>2. \A i, j \in B : f[i] = f[j] => i = j
    OBVIOUS
  <2>3. ASSUME NEW a \in A \ {1} PROVE \E i \in B : f[i] = a
    <3>1. a - 1 \in B /\ f[a - 1] = a
      OBVIOUS
    <3> QED  BY <3>1
  <2> QED  BY <2>1, <2>2, <2>3, Zenon DEF ExistsBijection, Bijection, Injection, Surjection,
              IsInjective
<1>4. Cardinality(A \ {1}) = Cardinality(B)
  BY <1>2, <1>3, FS_Bijection
<1>5. Cardinality(A \ {1}) = IF 1 \in A THEN Cardinality(A) - 1 ELSE Cardinality(A)
  BY <1>1, FS_RemoveElement
<1> QED  BY <1>1, <1>2, <1>4, <1>5

LEMMA StopsType ==
  ASSUME NEW T, NEW w \in Seq(T), NEW S
  PROVE  IsFiniteSet(Stops(w, S)) /\ Cardinality(Stops(w, S)) \in Nat
<1>1. Len(w) \in Nat /\ Stops(w, S) \in SUBSET (1..Len(w))
  BY DEF Stops
<1> QED  BY <1>1, SomeOfInterval

LEMMA StopsOfTail ==
  ASSUME NEW T, NEW w \in Seq(T), w # <<>>, NEW S
  PROVE  /\ Tail(w) \in Seq(T) /\ Head(w) \in T
         /\ Cardinality(Stops(w, S))
                = Cardinality(Stops(Tail(w), S)) + (IF Head(w) \in S THEN 1 ELSE 0)
<1>1. /\ Tail(w) \in Seq(T) /\ Len(Tail(w)) = Len(w) - 1 /\ Len(w) \in Nat /\ Len(w) >= 1
      /\ \A i \in 1..(Len(w) - 1) : Tail(w)[i] = w[i + 1]
      /\ Head(w) = w[1] /\ Head(w) \in T
  OBVIOUS
<1> DEFINE n == Len(w) - 1
<1>2. n \in Nat /\ Stops(w, S) \in SUBSET (1..(n + 1))
  BY <1>1 DEF Stops
<1>3. Stops(Tail(w), S) = {i \in 1..n : i + 1 \in Stops(w, S)}
  BY <1>1 DEF Stops
<1>4. 1 \in Stops(w, S) <=> Head(w) \in S
  BY <1>1 DEF Stops
<1> HIDE DEF n
<1>5. Cardinality(Stops(w, S))
        = Cardinality(Stops(Tail(w), S)) + (IF 1 \in Stops(w, S) THEN 1 ELSE 0)
  BY <1>2, <1>3, ShiftCounts
<1> QED  BY <1>1, <1>4, <1>5

LEMMA StopsOfAppend ==
  ASSUME NEW T, NEW w \in Seq(T), NEW m \in T, NEW S
  PROVE  /\ w \o <<m>> \in Seq(T)
         /\ Cardinality(Stops(w \o <<m>>, S))
                = Cardinality(Stops(w, S)) + (IF m \in S THEN 1 ELSE 0)
<1> DEFINE v == w \o <<m>>
<1>1. /\ v \in Seq(T) /\ Len(v) = Len(w) + 1 /\ Len(w) \in Nat
      /\ \A i \in 1..Len(w) : v[i] = w[i]
      /\ v[Len(w) + 1] = m
  OBVIOUS
<1> HIDE DEF v
<1>2. Stops(v, S) = IF m \in S THEN Stops(w, S) \cup {Len(w) + 1} ELSE Stops(w, S)
  BY <1>1 DEF Stops
<1>3. Len(w) + 1 \notin Stops(w, S)
  BY <1>1 DEF Stops
<1>4. IsFiniteSet(Stops(w, S)) /\ Cardinality(Stops(w, S)) \in Nat
  BY StopsType
<1>5. Cardinality(Stops(w, S) \cup {Len(w) + 1}) = Cardinality(Stops(w, S)) + 1
  BY <1>3, <1>4, FS_AddElement
<1> QED  BY <1>1, <1>2, <1>4, <1>5 DEF v

LEMMA StopsOfNothing ==
  /\ \A S : Cardinality(Stops(<<>>, S)) = 0
  /\ \A T : <<>> \in Seq(T)
  BY FS_EmptySet DEF Stops

LEMMA NothingAdded ==
  ASSUME NEW T, NEW w \in Seq(T)
  PROVE  w \o <<>> = w
  OBVIOUS

-----------------------------------------------------------------------------
(* What every step may do to a stream, as its consumer sees it. *)

Events == EventTypes \cup {"none"}

StreamStep ==
    /\ cfg' = cfg
    /\ stream'.cancelled # stream.cancelled =>
            /\ stream'.cancelled = TRUE
            /\ stream'.chan = stream.chan /\ stream'.out = stream.out
    /\ stream'.chan # stream.chan =>
            /\ stream.chan = "open" /\ stream'.chan = "closed"
            /\ stream'.out = "none" /\ stream'.cancelled = stream.cancelled
    /\ stream'.out # stream.out =>
            \/ stream'.out = "none"
            \/ stream.chan = "open" /\ stream.out = "none" /\ stream'.out \in EventTypes

StreamOK ==
    /\ stream.chan \in {"open", "closed"}
    /\ stream.cancelled \in BOOLEAN
    /\ stream.out \in Events
    /\ stream.chan = "closed" => stream.out = "none"
    /\ cfg.types = {} => stream.chan = "closed" /\ stream.cancelled = FALSE

Told(n) == stream.owed \in Nat /\ stream.owed >= n + (IF stream.out = "stopped" THEN 1 ELSE 0)

-----------------------------------------------------------------------------
(* The streams of Docker and Swarm. *)

MobyStream(T) ==
    [chan : {"open", "closed"}, cancelled : BOOLEAN, out : Events, owed : Nat,
     conn : {"dial", "open", "backoff", "closed"}, wire : Seq(T)]

MobyInv(T, S) ==
    /\ stream \in MobyStream(T)
    /\ Told(Cardinality(Stops(stream.wire, S)))

LEMMA MobyQuiet ==
  ASSUME NEW T, NEW S, stream \in MobyStream(T), StreamOK, MobyInv(T, S),
         cfg' = cfg, stream' = stream
  PROVE  MobyInv(T, S)' /\ StreamOK' /\ StreamStep
  BY DEF MobyInv, Told, StreamOK, StreamStep

LEMMA MobyEmit ==
  ASSUME NEW T, NEW S, StreamOK, MobyInv(T, S), cfg' = cfg, NEW m \in T,
         NEW falls \in {0, 1}, m \in S => falls = 1,
         stream' = [stream EXCEPT !.wire = @ \o <<m>>, !.owed = @ + falls]
  PROVE  MobyInv(T, S)' /\ StreamOK' /\ StreamStep
<1>1. stream \in MobyStream(T) /\ stream.wire \in Seq(T)
  BY DEF MobyInv, MobyStream
<1>2. /\ stream.wire \o <<m>> \in Seq(T)
      /\ Cardinality(Stops(stream.wire \o <<m>>, S))
             = Cardinality(Stops(stream.wire, S)) + (IF m \in S THEN 1 ELSE 0)
      /\ Cardinality(Stops(stream.wire, S)) \in Nat
  BY <1>1, StopsOfAppend, StopsType
<1>3. /\ stream' \in MobyStream(T)
      /\ stream'.chan = stream.chan /\ stream'.cancelled = stream.cancelled
      /\ stream'.out = stream.out /\ stream'.owed = stream.owed + falls
      /\ stream'.wire = stream.wire \o <<m>>
  <2> DEFINE v == stream.wire \o <<m>>
             k == stream.owed + falls
  <2>1. v \in Seq(T) /\ k \in Nat /\ stream' = [stream EXCEPT !.wire = v, !.owed = k]
    BY <1>1, <1>2 DEF MobyStream
  <2> HIDE DEF v, k
  <2>2. /\ stream' \in MobyStream(T)
        /\ stream'.chan = stream.chan /\ stream'.cancelled = stream.cancelled
        /\ stream'.out = stream.out /\ stream'.owed = k /\ stream'.wire = v
    BY <1>1, <2>1 DEF MobyStream
  <2> QED  BY <2>2 DEF v, k
<1>4. Told(Cardinality(Stops(stream.wire, S)))'
  BY <1>2, <1>3 DEF MobyInv, Told
<1> QED
  BY <1>3, <1>4 DEF MobyInv, StreamOK, StreamStep

LEMMA MobyEmitNothing ==
  ASSUME NEW T, NEW S, StreamOK, MobyInv(T, S), cfg' = cfg, NEW falls \in {0, 1},
         stream' = [stream EXCEPT !.wire = @ \o <<>>, !.owed = @ + falls]
  PROVE  MobyInv(T, S)' /\ StreamOK' /\ StreamStep
<1>1. stream \in MobyStream(T) /\ stream.wire \in Seq(T)
  BY DEF MobyInv, MobyStream
<1>2. stream.wire \o <<>> = stream.wire /\ Cardinality(Stops(stream.wire, S)) \in Nat
  BY <1>1, NothingAdded, StopsType
<1>3. /\ stream' \in MobyStream(T)
      /\ stream'.chan = stream.chan /\ stream'.cancelled = stream.cancelled
      /\ stream'.out = stream.out /\ stream'.owed = stream.owed + falls
      /\ stream'.wire = stream.wire
  <2> DEFINE k == stream.owed + falls
  <2>1. k \in Nat /\ stream' = [stream EXCEPT !.wire = stream.wire, !.owed = k]
    BY <1>1, <1>2 DEF MobyStream
  <2> HIDE DEF k
  <2>2. /\ stream' \in MobyStream(T)
        /\ stream'.chan = stream.chan /\ stream'.cancelled = stream.cancelled
        /\ stream'.out = stream.out /\ stream'.owed = k /\ stream'.wire = stream.wire
    BY <1>1, <2>1 DEF MobyStream
  <2> QED  BY <2>2 DEF k
<1> QED
  BY <1>2, <1>3 DEF MobyInv, StreamOK, StreamStep, Told

(* The goroutine and the consumer. *)
MobyServes(event) ==
    \/ stream.chan = "open" /\ stream' = [stream EXCEPT !.conn = "open"]
    \/ stream.chan = "open" /\ stream' = [stream EXCEPT !.conn = "dial"]
    \/ /\ stream.chan = "open" /\ stream.out = "none" /\ stream.wire # <<>>
       /\ stream' = [stream EXCEPT !.wire = Tail(@), !.out = event]
    \/ /\ stream.chan = "open" /\ stream.out = "none"
       /\ stream' = [stream EXCEPT !.conn = "backoff", !.wire = <<>>, !.owed = 0]
    \/ /\ stream.chan = "open"
       /\ stream' = [[stream EXCEPT !.chan = "closed", !.out = "none", !.owed = 0]
                        EXCEPT !.conn = "closed", !.wire = <<>>]
    \/ Receive \/ Cancel

LEMMA MobyServe ==
  ASSUME NEW T, NEW S, StreamOK, MobyInv(T, S), cfg' = cfg, NEW event \in Events,
         stream.wire # <<>> => (event = "stopped" => Head(stream.wire) \in S),
         MobyServes(event)
  PROVE  MobyInv(T, S)' /\ StreamOK' /\ StreamStep
<1>1. /\ stream \in MobyStream(T) /\ stream.wire \in Seq(T) /\ stream.owed \in Nat
      /\ stream.owed >= Cardinality(Stops(stream.wire, S))
                            + (IF stream.out = "stopped" THEN 1 ELSE 0)
  BY DEF MobyInv, MobyStream, Told
<1>2. Cardinality(Stops(stream.wire, S)) \in Nat /\ Cardinality(Stops(<<>>, S)) = 0
      /\ <<>> \in Seq(T)
  BY <1>1, StopsType, StopsOfNothing
<1>3. CASE stream' = [stream EXCEPT !.conn = "open"] \/ stream' = [stream EXCEPT !.conn = "dial"]
  <2>1. /\ stream' \in MobyStream(T)
        /\ stream'.chan = stream.chan /\ stream'.cancelled = stream.cancelled
        /\ stream'.out = stream.out /\ stream'.owed = stream.owed
        /\ stream'.wire = stream.wire
    BY <1>1, <1>3 DEF MobyStream
  <2> QED  BY <1>1, <2>1 DEF MobyInv, StreamOK, StreamStep, Told
<1>4. CASE /\ stream.chan = "open" /\ stream.out = "none" /\ stream.wire # <<>>
           /\ stream' = [stream EXCEPT !.wire = Tail(@), !.out = event]
  <2>1. /\ Tail(stream.wire) \in Seq(T)
        /\ Cardinality(Stops(stream.wire, S)) = Cardinality(Stops(Tail(stream.wire), S))
              + (IF Head(stream.wire) \in S THEN 1 ELSE 0)
        /\ Cardinality(Stops(Tail(stream.wire), S)) \in Nat
    BY <1>1, <1>4, StopsOfTail, StopsType
  <2>2. /\ stream' \in MobyStream(T)
        /\ stream'.chan = stream.chan /\ stream'.cancelled = stream.cancelled
        /\ stream'.out = event /\ stream'.owed = stream.owed
        /\ stream'.wire = Tail(stream.wire)
    BY <1>1, <1>4, <2>1 DEF MobyStream
  <2>3. Told(Cardinality(Stops(stream.wire, S)))'
    BY <1>1, <1>4, <2>1, <2>2 DEF Told
  <2> QED  BY <1>4, <2>2, <2>3 DEF MobyInv, StreamOK, StreamStep, Events
<1>5. CASE /\ stream.out = "none"
           /\ stream' = [stream EXCEPT !.conn = "backoff", !.wire = <<>>, !.owed = 0]
  <2>1. /\ stream' \in MobyStream(T)
        /\ stream'.chan = stream.chan /\ stream'.cancelled = stream.cancelled
        /\ stream'.out = stream.out /\ stream'.owed = 0 /\ stream'.wire = <<>>
    BY <1>1, <1>2, <1>5 DEF MobyStream
  <2> QED  BY <1>2, <1>5, <2>1 DEF MobyInv, StreamOK, StreamStep, Told
<1>6. CASE /\ stream.chan = "open"
           /\ stream' = [[stream EXCEPT !.chan = "closed", !.out = "none", !.owed = 0]
                            EXCEPT !.conn = "closed", !.wire = <<>>]
  <2>1. /\ stream' \in MobyStream(T)
        /\ stream'.chan = "closed" /\ stream'.cancelled = stream.cancelled
        /\ stream'.out = "none" /\ stream'.owed = 0 /\ stream'.wire = <<>>
    BY <1>1, <1>2, <1>6 DEF MobyStream, Events
  <2> QED  BY <1>2, <1>6, <2>1 DEF MobyInv, StreamOK, StreamStep, Told, Events
<1>7. CASE Receive
  <2> DEFINE n == IF stream.out = "stopped" /\ stream.owed > 0 THEN stream.owed - 1
                  ELSE stream.owed
  <2>1. n \in Nat /\ n >= Cardinality(Stops(stream.wire, S))
    BY <1>1, <1>2
  <2>2. stream' = [stream EXCEPT !.out = "none", !.owed = n]
    BY <1>7 DEF Receive
  <2> HIDE DEF n
  <2>3. /\ stream' \in MobyStream(T)
        /\ stream'.chan = stream.chan /\ stream'.cancelled = stream.cancelled
        /\ stream'.out = "none" /\ stream'.owed = n /\ stream'.wire = stream.wire
    BY <1>1, <2>1, <2>2 DEF MobyStream, Events
  <2> QED  BY <1>2, <2>1, <2>3 DEF MobyInv, StreamOK, StreamStep, Told, Events
<1>8. CASE Cancel
  <2>1. stream' = [stream EXCEPT !.cancelled = TRUE] /\ stream.chan = "open"
    BY <1>8 DEF Cancel
  <2>2. /\ stream' \in MobyStream(T)
        /\ stream'.chan = stream.chan /\ stream'.cancelled = TRUE
        /\ stream'.out = stream.out /\ stream'.owed = stream.owed
        /\ stream'.wire = stream.wire
    BY <1>1, <2>1 DEF MobyStream
  <2> QED  BY <1>1, <2>1, <2>2 DEF MobyInv, StreamOK, StreamStep, Told
<1> QED  BY <1>3, <1>4, <1>5, <1>6, <1>7, <1>8 DEF MobyServes

(* Docker and Podman. *)

DockerMessages == {"die", "start", "create", "destroy"}

LEMMA DockerMessage ==
  ASSUME NEW action
  PROVE  \/ Docker!Message(action) = <<>>
         \/ /\ action \in DockerMessages /\ Docker!Message(action) = <<action>>
            /\ action = "die" => Docker!Wants("stopped")
  BY DEF Docker!Message, Docker!EventType, DockerMessages

LEMMA DockerWrites ==
  ASSUME StreamOK, MobyInv(DockerMessages, {"die"}), cfg' = cfg, NEW w, NEW action,
         Docker!SetState(w, action),
         action = "die" => Docker!Alive(work) /\ ~Docker!Alive(w)
  PROVE  MobyInv(DockerMessages, {"die"})' /\ StreamOK' /\ StreamStep
<1> DEFINE falls == IF Docker!Wants("stopped") /\ Docker!Alive(work) /\ ~Docker!Alive(w)
                    THEN 1 ELSE 0
<1>1. \/ stream' = stream
      \/ stream' = [stream EXCEPT !.wire = @ \o Docker!Message(action), !.owed = @ + falls]
  BY DEF Docker!SetState, Docker!Emit
<1>2. /\ falls \in {0, 1}
      /\ Docker!Wants("stopped") /\ action = "die" => falls = 1
  OBVIOUS
<1> HIDE DEF falls
<1>3. stream \in MobyStream(DockerMessages)
  BY DEF MobyInv
<1>4. CASE stream' = stream
  BY <1>3, <1>4, MobyQuiet
<1>5. CASE /\ Docker!Message(action) = <<>>
           /\ stream' = [stream EXCEPT !.wire = @ \o Docker!Message(action), !.owed = @ + falls]
  <2>1. stream' = [stream EXCEPT !.wire = @ \o <<>>, !.owed = @ + falls]
    BY <1>5
  <2> QED  BY <1>2, <2>1, MobyEmitNothing
<1>6. CASE /\ action \in DockerMessages /\ Docker!Message(action) = <<action>>
           /\ action = "die" => Docker!Wants("stopped")
           /\ stream' = [stream EXCEPT !.wire = @ \o Docker!Message(action), !.owed = @ + falls]
  <2>1. stream' = [stream EXCEPT !.wire = @ \o <<action>>, !.owed = @ + falls]
    BY <1>6
  <2>2. action \in {"die"} => falls = 1
    BY <1>2, <1>6
  <2> QED  BY <1>2, <1>6, <2>1, <2>2, MobyEmit
<1> QED  BY <1>1, <1>4, <1>5, <1>6, DockerMessage

DockerStream == MobyInv(DockerMessages, {"die"})

LEMMA DockerCallStreams ==
  ASSUME DockerInv, StreamOK, DockerStream, NEW c \in Caller, Docker!CallStep(c)
  PROVE  DockerStream' /\ StreamOK' /\ StreamStep
<1>1. cfg' = cfg
  BY Zenon DEF Docker!CallStep, Docker!startSingle, Docker!dockerUnpause,
     Docker!ContainerUnpause,
     Docker!dockerStart, Docker!applyResources, Docker!InstanceStop, Docker!dockerStop,
     Docker!ContainerWait, Docker!dockerPause, Docker!Goto, Docker!Return,
     Docker!WroteAndGoto, Docker!WroteAndReturn
<1>2. CASE stream' = stream
  BY <1>1, <1>2, MobyQuiet DEF DockerStream, MobyInv
<1>3. ASSUME NEW w, NEW action, Docker!SetState(w, action),
             action = "die" => Docker!Alive(work) /\ ~Docker!Alive(w)
      PROVE  DockerStream' /\ StreamOK' /\ StreamStep
  BY <1>1, <1>3, DockerWrites DEF DockerStream
<1>4. CASE Docker!ContainerUnpause(c) \/ Docker!dockerStart(c)
  <2>1. \/ stream' = stream
        \/ Docker!SetState([work EXCEPT !.state = "running"], "unpause")
        \/ Docker!SetState(Docker!Booted, "start")
    BY <1>4, Zenon DEF Docker!ContainerUnpause, Docker!dockerStart
  <2> QED  BY <1>2, <1>3, <2>1, Zenon
<1>5. CASE Docker!dockerStop(c)
  <2>1. \/ stream' = stream
        \/ \E code \in {0, 1} :
             Docker!SetState(Docker!Exited("exited", code),
                             IF Docker!Alive(work) THEN "die" ELSE "stop")
    BY <1>5, Zenon DEF Docker!dockerStop
  <2>2. CASE stream' = stream
    BY <1>2, <2>2
  <2>3. ASSUME NEW code \in {0, 1},
               Docker!SetState(Docker!Exited("exited", code),
                               IF Docker!Alive(work) THEN "die" ELSE "stop")
        PROVE  DockerStream' /\ StreamOK' /\ StreamStep
    <3>1. ~Docker!Alive(Docker!Exited("exited", code))
      BY DEF Docker!Alive, Docker!Exited, DockerInv, DockerWork
    <3>2. CASE Docker!Alive(work)
      BY <1>3, <2>3, <3>1, <3>2
    <3>3. CASE ~Docker!Alive(work)
      BY <1>3, <2>3, <3>3
    <3> QED  BY <3>2, <3>3
  <2> QED  BY <2>1, <2>2, <2>3
<1>6. CASE \/ Docker!startSingle(c) \/ Docker!dockerUnpause(c) \/ Docker!applyResources(c)
           \/ Docker!InstanceStop(c) \/ Docker!ContainerWait(c) \/ Docker!dockerPause(c)
  BY <1>2, <1>6, Zenon DEF Docker!startSingle, Docker!dockerUnpause, Docker!applyResources,
     Docker!InstanceStop, Docker!ContainerWait, Docker!dockerPause
<1> QED  BY <1>4, <1>5, <1>6 DEF Docker!CallStep

LEMMA DockerPlatformStreams ==
  ASSUME DockerInv, StreamOK, DockerStream,
         \/ Docker!Heal \/ Docker!Restart \/ Docker!Sicken \/ Docker!Crash \/ Docker!Operate
  PROVE  DockerStream' /\ StreamOK' /\ StreamStep
<1>1. cfg' = cfg
  BY Zenon DEF Docker!Heal, Docker!Restart, Docker!Sicken, Docker!Crash, Docker!Operate,
     Docker!Progress, Docker!Disturb
<1>2. ASSUME NEW w, NEW action, Docker!SetState(w, action),
             action = "die" => Docker!Alive(work) /\ ~Docker!Alive(w)
      PROVE  DockerStream' /\ StreamOK' /\ StreamStep
  BY <1>1, <1>2, DockerWrites DEF DockerStream
<1>3. \A to \in {"exited", "restarting", "removing"}, code \in {0, 1} :
        ~Docker!Alive(Docker!Exited(to, code))
  BY DEF Docker!Alive, Docker!Exited, DockerInv, DockerWork
<1>4. CASE Docker!Heal \/ Docker!Restart \/ Docker!Sicken
  BY <1>2, <1>4, Zenon DEF Docker!Heal, Docker!Restart, Docker!Sicken
<1>5. CASE Docker!Crash
  <2>1. PICK to \in {"exited", "restarting"}, code \in {0, 1} :
            Docker!SetState(Docker!Exited(to, code), "die")
    BY <1>5 DEF Docker!Crash
  <2>2. Docker!Alive(work)
    BY <1>5 DEF Docker!Crash, Docker!Alive
  <2> QED  BY <1>2, <1>3, <2>1, <2>2
<1>6. ASSUME NEW to \in {"exited", "removing"}, NEW other \in {"stop", "rm"},
             Docker!SetState(Docker!Exited(to, 0), IF Docker!Alive(work) THEN "die" ELSE other)
      PROVE  DockerStream' /\ StreamOK' /\ StreamStep
  <2>1. CASE Docker!Alive(work)
    BY <1>2, <1>3, <1>6, <2>1
  <2>2. CASE ~Docker!Alive(work)
    BY <1>2, <1>6, <2>2
  <2> QED  BY <2>1, <2>2
<1>7. CASE Docker!Operate
  <2>1. \/ Docker!SetState(Docker!Booted, "start")
        \/ Docker!SetState([work EXCEPT !.state = "paused"], "pause")
        \/ Docker!SetState([work EXCEPT !.state = "running"], "unpause")
        \/ Docker!SetState(Docker!Exited("exited", 0), IF Docker!Alive(work) THEN "die" ELSE "stop")
        \/ Docker!SetState(Docker!Exited("removing", 0), IF Docker!Alive(work) THEN "die" ELSE "rm")
        \/ Docker!SetState([work EXCEPT !.state = "gone"], "destroy")
        \/ Docker!SetState([work EXCEPT !.state = "dead"], "rm")
        \/ Docker!SetState([work EXCEPT !.state = "created"], "create")
    BY <1>7, Zenon DEF Docker!Operate
  <2>2. /\ "start" # "die" /\ "pause" # "die" /\ "unpause" # "die" /\ "destroy" # "die"
        /\ "rm" # "die" /\ "create" # "die"
    OBVIOUS
  <2>3. CASE Docker!SetState(Docker!Exited("exited", 0), IF Docker!Alive(work) THEN "die" ELSE "stop")
    BY <1>6, <2>3
  <2>4. CASE Docker!SetState(Docker!Exited("removing", 0), IF Docker!Alive(work) THEN "die" ELSE "rm")
    BY <1>6, <2>4
  <2> QED  BY <1>2, <2>1, <2>2, <2>3, <2>4, Zenon
<1> QED  BY <1>4, <1>5, <1>7

LEMMA DockerStreams ==
  ASSUME CallsOK, DockerInv, StreamOK, DockerStream, Next
  PROVE  DockerStream' /\ StreamOK' /\ StreamStep
<1>1. cfg.provider = "docker" /\ stream \in MobyStream(DockerMessages)
  BY DEF DockerInv, DockerConfig, DockerStream, MobyInv
<1>2. CASE cfg' = cfg /\ stream' = stream
  BY <1>1, <1>2, MobyQuiet DEF DockerStream
<1>3. CASE \E c \in Caller : Begin(c, "start") \/ Begin(c, "stop") \/ Fail(c)
  BY <1>2, <1>3 DEF Begin, Fail, Return
<1>4. CASE Docker!ServeDocker \/ Docker!Close \/ Docker!Drop \/ Receive \/ Cancel
  <2> DEFINE head == IF stream.wire # <<>> THEN Docker!BuildEvent(Head(stream.wire)) ELSE "none"
  <2>1. stream.wire # <<>> => Head(stream.wire) \in DockerMessages
    BY <1>1 DEF MobyStream
  <2>2. /\ head \in Events
        /\ stream.wire # <<>> => (head = "stopped" => Head(stream.wire) \in {"die"})
    BY <2>1 DEF Docker!BuildEvent, Docker!EventType, DockerMessages, Events, EventTypes
  <2>3. stream.wire # <<>> => Docker!BuildEvent(Head(stream.wire)) = head
    OBVIOUS
  <2> HIDE DEF head
  <2>4. cfg' = cfg
    BY <1>4, Zenon DEF Docker!ServeDocker, Docker!Serve, Docker!Dial, Docker!Redial,
       Docker!Consume,
       Docker!Close, Docker!Drop, Docker!Streaming, Receive, Cancel
  <2>5. CASE Docker!ServeDocker
    <3>1. MobyServes(head)
      BY <2>3, <2>5 DEF Docker!ServeDocker, Docker!Serve, Docker!Dial, Docker!Redial,
         Docker!Consume,
         Docker!Streaming, MobyServes
    <3> QED  BY <2>2, <2>4, <3>1, MobyServe DEF DockerStream
  <2>6. CASE Docker!Close \/ Docker!Drop \/ Receive \/ Cancel
    <3>1. MobyServes(head)
      BY <2>6 DEF Docker!Close, Docker!Closed, Docker!Drop, Docker!Streaming, MobyServes
    <3> QED  BY <2>2, <2>4, <3>1, MobyServe DEF DockerStream
  <2> QED  BY <1>4, <2>5, <2>6
<1> QED
  BY <1>1, <1>3, <1>4, DockerCallStreams, DockerPlatformStreams
     DEF Next, Is, CallStep, CallFails, Serve, Poll, Close, Scan, Inspect, Settle,
         Environment, Docker!Settle, Docker!Environment

-----------------------------------------------------------------------------
(* Docker Swarm. *)

SwarmMessages == {"remove", "create", "toZero", "fromZero", "update"}

SwarmStops == {kind \in SwarmMessages : Swarm!Falls(kind) = 1}

SwarmStream == MobyInv(SwarmMessages, SwarmStops)

LEMMA SwarmWrites ==
  ASSUME StreamOK, NEW S, S = SwarmStops, MobyInv(SwarmMessages, S), cfg' = cfg,
         NEW w, Swarm!SetService(w)
  PROVE  MobyInv(SwarmMessages, S)' /\ StreamOK' /\ StreamStep
<1>1. PICK kind \in SwarmMessages, falls \in {0, 1} :
        /\ kind = Swarm!Kind(w) /\ falls = Swarm!Falls(kind)
  BY DEF Swarm!Kind, Swarm!Falls, SwarmMessages
<1>2. \/ stream' = stream
      \/ stream' = [stream EXCEPT !.wire = @ \o <<kind>>, !.owed = @ + falls]
  BY <1>1 DEF Swarm!SetService, Swarm!Emit
<1>3. kind \in S => falls = 1
  BY <1>1 DEF SwarmStops
<1>4. CASE stream' = stream
  BY <1>4, MobyQuiet DEF MobyInv
<1>5. CASE stream' = [stream EXCEPT !.wire = @ \o <<kind>>, !.owed = @ + falls]
  BY <1>3, <1>5, MobyEmit
<1> QED  BY <1>2, <1>4, <1>5

LEMMA SwarmStreams ==
  ASSUME CallsOK, SwarmInv, StreamOK, SwarmStream, Next
  PROVE  SwarmStream' /\ StreamOK' /\ StreamStep
<1>1. cfg.provider = "swarm" /\ stream \in MobyStream(SwarmMessages)
  BY DEF SwarmInv, SwarmConfig, SwarmStream, MobyInv
<1>2. PICK S : S = SwarmStops
  OBVIOUS
<1>3. MobyInv(SwarmMessages, S)
  BY <1>2 DEF SwarmStream
<1>4. ASSUME cfg' = cfg, MobyInv(SwarmMessages, S)' /\ StreamOK' /\ StreamStep
      PROVE  SwarmStream' /\ StreamOK' /\ StreamStep
  <2>1. SwarmStops' = S
    BY <1>2, <1>4 DEF SwarmStops, Swarm!Falls, Swarm!Wants
  <2> QED  BY <1>4, <2>1 DEF SwarmStream, MobyInv, Told
<1>5. CASE cfg' = cfg /\ stream' = stream
  <2>1. MobyInv(SwarmMessages, S)' /\ StreamOK' /\ StreamStep
    BY <1>1, <1>3, <1>5, MobyQuiet
  <2> QED  BY <1>4, <1>5, <2>1
<1>6. ASSUME cfg' = cfg, NEW w, Swarm!SetService(w)
      PROVE  SwarmStream' /\ StreamOK' /\ StreamStep
  <2>1. MobyInv(SwarmMessages, S)' /\ StreamOK' /\ StreamStep
    BY <1>2, <1>3, <1>6, SwarmWrites
  <2> QED  BY <1>4, <1>6, <2>1
<1>7. CASE \E c \in Caller : Begin(c, "start") \/ Begin(c, "stop") \/ Fail(c)
  BY <1>5, <1>7 DEF Begin, Fail, Return
<1>8. ASSUME NEW c \in Caller, Swarm!CallStep(c)
      PROVE  SwarmStream' /\ StreamOK' /\ StreamStep
  <2>1. cfg' = cfg
    BY <1>8, Zenon DEF Swarm!CallStep, Swarm!InstanceStart, Swarm!InstanceStop,
       Swarm!ReadLabels,
       Swarm!ReadService, Swarm!ServiceUpdateScale, Swarm!Goto, Swarm!ReadAndGoto, Swarm!Return,
       Swarm!WroteAndReturn
  <2>2. stream' = stream \/ \E w : Swarm!SetService(w)
    BY <1>8, Zenon DEF Swarm!CallStep, Swarm!InstanceStart, Swarm!InstanceStop,
       Swarm!ReadLabels,
       Swarm!ReadService, Swarm!ServiceUpdateScale
  <2> QED  BY <1>5, <1>6, <2>1, <2>2
<1>9. CASE Swarm!Settle \/ Swarm!TaskEnds
  BY <1>5, <1>9 DEF Swarm!Settle, Swarm!TaskEnds, Swarm!Progress, Swarm!Disturb
<1>10. CASE Swarm!Operate
  <2>1. cfg' = cfg /\ \E w : Swarm!SetService(w)
    BY <1>10, Zenon DEF Swarm!Operate, Swarm!Disturb
  <2> QED  BY <1>6, <2>1
<1>11. CASE Swarm!ServeSwarm \/ Swarm!Close \/ Swarm!Drop \/ Receive \/ Cancel
  <2> DEFINE head == IF stream.wire # <<>> THEN Swarm!BuildEvent(Head(stream.wire)) ELSE "none"
  <2>1. stream.wire # <<>> => Head(stream.wire) \in SwarmMessages
    BY <1>1 DEF MobyStream
  <2>2. /\ head \in Events
        /\ stream.wire # <<>> => (head = "stopped" => Head(stream.wire) \in S)
    BY <1>2, <2>1 DEF Swarm!BuildEvent, Swarm!Falls, SwarmMessages, SwarmStops, Events,
       EventTypes
  <2>3. stream.wire # <<>> => Swarm!BuildEvent(Head(stream.wire)) = head
    OBVIOUS
  <2> HIDE DEF head
  <2>4. cfg' = cfg
    BY <1>11, Zenon DEF Swarm!ServeSwarm, Swarm!Serve, Swarm!Dial, Swarm!Redial, Swarm!Consume,
       Swarm!Close, Swarm!Drop, Swarm!Streaming, Receive, Cancel
  <2>5. MobyServes(head)
    <3>1. CASE Swarm!ServeSwarm
      BY <2>3, <3>1 DEF Swarm!ServeSwarm, Swarm!Serve, Swarm!Dial, Swarm!Redial, Swarm!Consume,
         Swarm!Streaming, MobyServes
    <3>2. CASE Swarm!Close \/ Swarm!Drop \/ Receive \/ Cancel
      BY <3>2 DEF Swarm!Close, Swarm!Closed, Swarm!Drop, Swarm!Streaming, MobyServes
    <3> QED  BY <1>11, <3>1, <3>2
  <2>6. MobyInv(SwarmMessages, S)' /\ StreamOK' /\ StreamStep
    BY <1>3, <2>2, <2>4, <2>5, MobyServe
  <2> QED  BY <1>4, <2>4, <2>6
<1> QED
  BY <1>1, <1>7, <1>8, <1>9, <1>10, <1>11
     DEF Next, Is, CallStep, CallFails, Serve, Poll, Close, Scan, Inspect, Settle,
         Environment, Swarm!Environment

-----------------------------------------------------------------------------
(* systemd. *)

Stopping(m) == Systemd!Wants("stopped") /\ m.status \in Systemd!Down

(* What is on the wire: a unit is told to be down for a reason only. *)
UnitMessages ==
    {m \in [status : UnitStates \cup {"gone"}, due : BOOLEAN] : Stopping(m) => m.due}

UnitStops == {m \in UnitMessages : Stopping(m)}

UnitStreams(T) ==
    [chan : {"open", "closed"}, cancelled : BOOLEAN, out : Events, owed : Nat,
     old : UnitStates \cup {"unknown"}, wire : Seq(T), due : BOOLEAN]

(* A unit that was not down at the last poll and is now has gone down. *)
FallIsKept ==
    /\ Systemd!Wants("stopped") /\ stream.chan = "open"
    /\ stream.old \in UnitStates \ Systemd!Down
    /\ work.state \in Systemd!Down
    => work.fell

SystemdStream ==
    /\ stream \in UnitStreams(UnitMessages)
    /\ Told(Cardinality(Stops(stream.wire, UnitStops)))
    /\ stream.out = "stopped" => stream.due
    /\ FallIsKept

(* A step of the unit that does not hide a stop. *)
FallStays ==
    /\ work.fell => work'.fell
    /\ /\ Systemd!Wants("stopped") /\ stream.chan = "open"
       /\ work.state \notin Systemd!Down /\ work'.state \in Systemd!Down
       => work'.fell

LEMMA UnitMoves ==
  ASSUME work \in SystemdWork, NEW state \in UnitStates
  PROVE  /\ work' = Systemd!Entered(state) => FallStays
         /\ work' = [Systemd!Entered(state) EXCEPT !.job = "none", !.by = "nobody"]
                => FallStays
         /\ work' = [Systemd!Entered(state) EXCEPT !.loaded = TRUE] => FallStays
<1> DEFINE b == \/ work.fell
                \/ /\ Systemd!Wants("stopped") /\ stream.chan = "open"
                   /\ work.state \notin Systemd!Down /\ state \in Systemd!Down
<1>1. Systemd!Entered(state) = [work EXCEPT !.state = state, !.fell = b] /\ b \in BOOLEAN
  BY DEF Systemd!Entered, SystemdWork
<1>2. /\ work.fell => b
      /\ /\ Systemd!Wants("stopped") /\ stream.chan = "open"
         /\ work.state \notin Systemd!Down /\ state \in Systemd!Down
         => b
  OBVIOUS
<1> HIDE DEF b
<1>3. ASSUME \/ work' = Systemd!Entered(state)
             \/ work' = [Systemd!Entered(state) EXCEPT !.job = "none", !.by = "nobody"]
             \/ work' = [Systemd!Entered(state) EXCEPT !.loaded = TRUE]
      PROVE  work'.state = state /\ work'.fell = b
  BY <1>1, <1>3 DEF SystemdWork
<1> QED  BY <1>2, <1>3 DEF FallStays

LEMMA OneOfOne ==
  ASSUME NEW x
  PROVE  (CHOOSE s \in {x} : TRUE) = x
<1>1. \E s \in {x} : TRUE
  OBVIOUS
<1>2. (CHOOSE s \in {x} : TRUE) \in {x}
  BY <1>1, Zenon
<1> QED  BY <1>2

LEMMA AppendsOne ==
  ASSUME NEW T, NEW w \in Seq(T), NEW m \in T
  PROVE  Append(w, m) = w \o <<m>>
  OBVIOUS

LEMMA SystemdPolls ==
  ASSUME SystemdInv, StreamOK, SystemdStream, Systemd!Poll
  PROVE  SystemdStream' /\ StreamOK' /\ StreamStep
<1>1. PICK T, S : T = UnitMessages /\ S = UnitStops
  OBVIOUS
<1>2. /\ stream \in UnitStreams(T) /\ stream.wire \in Seq(T) /\ stream.owed \in Nat
      /\ stream.old \in UnitStates \cup {"unknown"} /\ stream.chan = "open"
      /\ work \in SystemdWork /\ work.state \in UnitStates /\ cfg' = cfg
  BY <1>1 DEF SystemdStream, UnitStreams, SystemdInv, SystemdWork, Systemd!Poll,
     Systemd!Streaming
<1>3. UnitMessages' = T /\ UnitStops' = S
  BY <1>1, <1>2 DEF UnitMessages, UnitStops, Stopping, Systemd!Wants
<1> DEFINE now   == IF work.loaded /\ cfg.match THEN work.state ELSE "unknown"
           old   == stream.old
           news  == Systemd!Changed(old, now)
           sees  == Systemd!Wants("stopped") /\ now # old /\ now \in Systemd!Down
           falls == IF sees THEN 1 ELSE 0
           due   == Systemd!Due(old, now)
           m     == [status |-> CHOOSE s \in news : TRUE, due |-> due]
           w     == IF news = {} THEN stream.wire ELSE stream.wire \o <<m>>
           k     == stream.owed + falls
<1>4. /\ now \in UnitStates \cup {"unknown"} /\ falls \in {0, 1} /\ k \in Nat
      /\ now # "unknown" => now = work.state
  BY <1>2
<1>5. due \in BOOLEAN
  BY <1>2 DEF Systemd!Due, SystemdWork
<1>6. Systemd!Wants("stopped") /\ sees => due
  <2>1. CASE old \in UnitStates \ Systemd!Down
    BY <1>2, <1>4, <2>1 DEF SystemdStream, FallIsKept, Systemd!Due, Systemd!Down, UnitStates
  <2>2. CASE old \in Systemd!Down \/ old = "unknown"
    BY <2>2 DEF Systemd!Due
  <2> QED  BY <1>2, <2>1, <2>2
<1>7. ASSUME news # {}
      PROVE  m \in T /\ (m \in S => falls = 1)
  <2>1. \/ news = {now} /\ now \in UnitStates /\ now # old
        \/ news = {"gone"}
    BY <1>2, <1>4, <1>7 DEF Systemd!Changed, Systemd!unitStatusChanged
  <2>2. CASE news = {now} /\ now \in UnitStates /\ now # old
    <3>1. m = [status |-> now, due |-> due]
      BY <2>2, OneOfOne
    <3>2. Stopping(m) => sees /\ Systemd!Wants("stopped")
      BY <2>2, <3>1 DEF Stopping
    <3> HIDE DEF now, due, sees
    <3> QED  BY <1>1, <1>5, <1>6, <2>2, <3>1, <3>2 DEF UnitMessages, UnitStops
  <2>3. CASE news = {"gone"}
    <3>1. m = [status |-> "gone", due |-> due]
      BY <2>3, OneOfOne
    <3>2. ~Stopping(m)
      BY <3>1 DEF Stopping, Systemd!Down
    <3> HIDE DEF now, due, sees
    <3> QED  BY <1>1, <1>5, <3>1, <3>2 DEF UnitMessages, UnitStops
  <2> QED  BY <2>1, <2>2, <2>3
<1>8. stream' = [stream EXCEPT !.old = now, !.wire = w, !.owed = k]
  <2>1. news # {} => Append(stream.wire, m) = stream.wire \o <<m>>
    BY <1>2, <1>7, AppendsOne
  <2>2. stream' = [stream EXCEPT
                    !.old = now,
                    !.wire = IF news = {} THEN stream.wire ELSE Append(stream.wire, m),
                    !.owed = IF sees THEN stream.owed + 1 ELSE stream.owed]
    BY DEF Systemd!Poll
  <2>3. (IF sees THEN stream.owed + 1 ELSE stream.owed) = k
    BY <1>2
  <2> HIDE DEF now, m, news, sees, k
  <2> QED  BY <2>1, <2>2, <2>3
<1>9. work' = [work EXCEPT !.fell = FALSE]
  BY DEF Systemd!Poll
<1>10. /\ w \in Seq(T) /\ Cardinality(Stops(stream.wire, S)) \in Nat
       /\ Cardinality(Stops(w, S)) \in Nat
       /\ Cardinality(Stops(w, S)) <= Cardinality(Stops(stream.wire, S)) + falls
  <2>1. Cardinality(Stops(stream.wire, S)) \in Nat
    BY <1>2, StopsType
  <2>2. CASE news = {}
    BY <1>2, <1>4, <2>1, <2>2
  <2>3. CASE news # {}
    <3>1. w = stream.wire \o <<m>> /\ m \in T /\ (m \in S => falls = 1)
      BY <1>7, <2>3
    <3> HIDE DEF w, m, news, falls
    <3>2. /\ w \in Seq(T)
          /\ Cardinality(Stops(w, S)) = Cardinality(Stops(stream.wire, S))
                                            + (IF m \in S THEN 1 ELSE 0)
      BY <1>2, <3>1, StopsOfAppend
    <3> QED  BY <1>4, <2>1, <3>1, <3>2
  <2> QED  BY <2>2, <2>3
<1>11. stream.owed >= Cardinality(Stops(stream.wire, S)) + (IF stream.out = "stopped" THEN 1 ELSE 0)
  BY <1>1 DEF SystemdStream, Told
<1>12. k = stream.owed + falls
  OBVIOUS
<1> HIDE DEF now, news, sees, falls, due, m, w, k
<1>13. /\ stream' \in UnitStreams(T)
       /\ stream'.chan = stream.chan /\ stream'.cancelled = stream.cancelled
       /\ stream'.out = stream.out /\ stream'.owed = k /\ stream'.wire = w
       /\ stream'.old = now /\ stream'.due = stream.due
  BY <1>2, <1>4, <1>8, <1>10 DEF UnitStreams
<1>14. Told(Cardinality(Stops(stream.wire, UnitStops)))'
  BY <1>2, <1>3, <1>4, <1>10, <1>11, <1>12, <1>13 DEF Told
<1>15. FallIsKept'
  <2>1. work'.state = work.state
    BY <1>2, <1>9 DEF SystemdWork
  <2>2. "unknown" \notin UnitStates
    BY DEF UnitStates
  <2> QED  BY <1>4, <1>13, <2>1, <2>2 DEF FallIsKept
<1> QED
  BY <1>2, <1>3, <1>13, <1>14, <1>15 DEF SystemdStream, StreamOK, StreamStep

LEMMA SystemdServes ==
  ASSUME SystemdInv, StreamOK, SystemdStream,
         Systemd!Forward \/ Systemd!Close \/ Receive \/ Cancel
  PROVE  SystemdStream' /\ StreamOK' /\ StreamStep
<1>1. PICK T, S : T = UnitMessages /\ S = UnitStops
  OBVIOUS
<1>2. /\ stream \in UnitStreams(T) /\ stream.wire \in Seq(T)
      /\ stream.owed \in Nat /\ cfg' = cfg
  BY <1>1 DEF SystemdStream, UnitStreams, Systemd!Forward, Systemd!Close, Systemd!Streaming,
     Receive, Cancel
<1>3. UnitMessages' = T /\ UnitStops' = S
  BY <1>1, <1>2 DEF UnitMessages, UnitStops, Stopping, Systemd!Wants
<1>4. /\ Cardinality(Stops(stream.wire, S)) \in Nat
      /\ stream.owed >= Cardinality(Stops(stream.wire, S)) + (IF stream.out = "stopped" THEN 1 ELSE 0)
      /\ Cardinality(Stops(<<>>, S)) = 0 /\ <<>> \in Seq(T)
  BY <1>1, <1>2, StopsType, StopsOfNothing DEF SystemdStream, Told
<1>9. (stream.out = "stopped" => stream.due) /\ FallIsKept
  BY DEF SystemdStream
<1>10. ASSUME work' = work, stream'.chan = stream.chan, stream'.old = stream.old
       PROVE  FallIsKept'
  BY <1>2, <1>9, <1>10 DEF FallIsKept, Systemd!Wants
<1>5. CASE Systemd!Forward
  <2>1. PICK event, m : event = Systemd!buildEvent(m.status) /\ m = Head(stream.wire)
    OBVIOUS
  <2>2. /\ stream.chan = "open" /\ stream.out = "none" /\ stream.wire # <<>> /\ work' = work
        /\ stream' = [stream EXCEPT !.wire = Tail(@), !.out = event, !.due = m.due]
    BY <1>5, <2>1 DEF Systemd!Forward, Systemd!Streaming
  <2>3. /\ Tail(stream.wire) \in Seq(T) /\ m \in T
        /\ Cardinality(Stops(stream.wire, S)) = Cardinality(Stops(Tail(stream.wire), S))
              + (IF m \in S THEN 1 ELSE 0)
    BY <1>2, <2>1, <2>2, StopsOfTail
  <2>7. Cardinality(Stops(Tail(stream.wire), S)) \in Nat
    BY <2>3, StopsType
  <2>4. event \in Events /\ (event = "stopped" => m \in S /\ m.due) /\ m.due \in BOOLEAN
    BY <1>1, <2>1, <2>3 DEF Systemd!buildEvent, UnitStops, UnitMessages, Stopping, Events,
       EventTypes
  <2>5. /\ stream' \in UnitStreams(T)
        /\ stream'.chan = stream.chan /\ stream'.cancelled = stream.cancelled
        /\ stream'.out = event /\ stream'.owed = stream.owed /\ stream'.due = m.due
        /\ stream'.wire = Tail(stream.wire) /\ stream'.old = stream.old
    BY <1>2, <2>2, <2>3, <2>4 DEF UnitStreams
  <2>6. Told(Cardinality(Stops(stream.wire, UnitStops)))'
    BY <1>2, <1>3, <1>4, <2>2, <2>3, <2>4, <2>5, <2>7 DEF Told
  <2> QED
    BY <1>2, <1>3, <1>10, <2>2, <2>4, <2>5, <2>6 DEF SystemdStream, StreamOK, StreamStep, Events
<1>6. CASE Systemd!Close
  <2>1. /\ stream.chan = "open"
        /\ stream' = [[stream EXCEPT !.chan = "closed", !.out = "none", !.owed = 0]
                         EXCEPT !.wire = <<>>, !.old = "unknown"]
    BY <1>6 DEF Systemd!Close, Systemd!Streaming, Systemd!Closed
  <2>2. /\ stream' \in UnitStreams(T)
        /\ stream'.chan = "closed" /\ stream'.cancelled = stream.cancelled
        /\ stream'.out = "none" /\ stream'.owed = 0 /\ stream'.wire = <<>>
    BY <1>2, <1>4, <2>1 DEF UnitStreams, Events
  <2>3. Told(Cardinality(Stops(stream.wire, UnitStops)))'
    BY <1>3, <1>4, <2>2 DEF Told
  <2> QED
    BY <1>2, <1>3, <2>1, <2>2, <2>3
       DEF SystemdStream, FallIsKept, StreamOK, StreamStep, Events
<1>7. CASE Receive
  <2> DEFINE n == IF stream.out = "stopped" /\ stream.owed > 0 THEN stream.owed - 1
                  ELSE stream.owed
  <2>1. n \in Nat /\ n >= Cardinality(Stops(stream.wire, S))
    BY <1>2, <1>4
  <2>2. stream' = [stream EXCEPT !.out = "none", !.owed = n] /\ work' = work
    BY <1>7 DEF Receive
  <2> HIDE DEF n
  <2>3. /\ stream' \in UnitStreams(T)
        /\ stream'.chan = stream.chan /\ stream'.cancelled = stream.cancelled
        /\ stream'.out = "none" /\ stream'.owed = n /\ stream'.wire = stream.wire
        /\ stream'.old = stream.old
    BY <1>2, <2>1, <2>2 DEF UnitStreams, Events
  <2>4. Told(Cardinality(Stops(stream.wire, UnitStops)))'
    BY <1>3, <1>4, <2>1, <2>3 DEF Told
  <2> QED
    BY <1>2, <1>3, <1>10, <2>2, <2>3, <2>4 DEF SystemdStream, StreamOK, StreamStep, Events
<1>8. CASE Cancel
  <2>1. stream' = [stream EXCEPT !.cancelled = TRUE] /\ stream.chan = "open" /\ work' = work
    BY <1>8 DEF Cancel
  <2>2. /\ stream' \in UnitStreams(T)
        /\ stream'.chan = stream.chan /\ stream'.cancelled = TRUE
        /\ stream'.out = stream.out /\ stream'.owed = stream.owed
        /\ stream'.wire = stream.wire /\ stream'.old = stream.old /\ stream'.due = stream.due
    BY <1>2, <2>1 DEF UnitStreams
  <2>3. Told(Cardinality(Stops(stream.wire, UnitStops)))'
    BY <1>2, <1>3, <1>4, <2>2 DEF Told
  <2> QED
    BY <1>2, <1>3, <1>9, <1>10, <2>1, <2>2, <2>3 DEF SystemdStream, StreamOK, StreamStep
<1> QED  BY <1>5, <1>6, <1>7, <1>8

LEMMA SystemdStreams ==
  ASSUME CallsOK, SystemdInv, StreamOK, SystemdStream, Next
  PROVE  SystemdStream' /\ StreamOK' /\ StreamStep
<1>1. cfg.provider = "systemd" /\ work \in SystemdWork
  BY DEF SystemdInv, SystemdConfig
<1>2. ASSUME cfg' = cfg, stream' = stream, FallStays
      PROVE  SystemdStream' /\ StreamOK' /\ StreamStep
  BY <1>2 DEF SystemdStream, UnitMessages, UnitStops, Stopping, FallIsKept, FallStays,
     Systemd!Wants, Told, StreamOK, StreamStep
<1>3. CASE \E c \in Caller : Begin(c, "start") \/ Begin(c, "stop")
  BY <1>2, <1>3 DEF Begin, FallStays
<1>4. ASSUME NEW c \in Caller, Systemd!CallStep(c) \/ Systemd!FailSystemd(c)
      PROVE  cfg' = cfg /\ stream' = stream /\ FallStays
  <2>1. CASE Systemd!CallStep(c)
    <3>1. CASE Systemd!InstanceStart(c) \/ Systemd!InstanceStop(c)
      BY <3>1 DEF Systemd!InstanceStart, Systemd!InstanceStop, Systemd!Stat, FallStays
    <3>4. CASE Systemd!startUnit(c) \/ Systemd!stopUnit(c)
      <4>1. /\ cfg' = cfg /\ stream' = stream
            /\ \/ work' = [work EXCEPT !.job = "none", !.by = "nobody", !.loaded = TRUE]
               \/ \E op : work' = [work EXCEPT !.job = op, !.by = c, !.loaded = TRUE]
        BY <3>4, Zenon DEF Systemd!startUnit, Systemd!stopUnit, Systemd!Enqueue
      <4>2. work'.state = work.state /\ work'.fell = work.fell
        BY <1>1, <4>1 DEF SystemdWork
      <4> QED  BY <4>1, <4>2 DEF FallStays
    <3>2. CASE Systemd!scaleConfig(c)
      <4>1. /\ cfg' = cfg /\ stream' = stream
            /\ work' = [work EXCEPT !.cache = Systemd!Remember(c)]
        BY <3>2 DEF Systemd!scaleConfig, Systemd!Goto, Systemd!Return
      <4>2. work'.state = work.state /\ work'.fell = work.fell
        BY <1>1, <4>1 DEF SystemdWork
      <4> QED  BY <4>1, <4>2 DEF FallStays
    <3>3. CASE Systemd!applyResources(c) \/ Systemd!waitUnitJob(c)
      <4>1. /\ cfg' = cfg /\ stream' = stream
            /\ work' = work \/ \E l : work' = [work EXCEPT !.limits = l]
        BY <3>3, Zenon DEF Systemd!applyResources, Systemd!waitUnitJob, Systemd!Return,
           Systemd!WroteAndGoto, Systemd!WroteAndReturn
      <4>2. work'.state = work.state /\ work'.fell = work.fell
        BY <1>1, <4>1 DEF SystemdWork
      <4> QED  BY <4>1, <4>2 DEF FallStays
    <3> QED  BY <2>1, <3>1, <3>2, <3>3, <3>4 DEF Systemd!CallStep
  <2>2. CASE Systemd!FailSystemd(c)
    <3>1. /\ cfg' = cfg /\ stream' = stream
          /\ \E b : work' = [work EXCEPT !.by = b]
      BY <2>2, Zenon DEF Systemd!FailSystemd, Systemd!Return
    <3>2. work'.state = work.state /\ work'.fell = work.fell
      BY <1>1, <3>1 DEF SystemdWork
    <3> QED  BY <3>1, <3>2 DEF FallStays
  <2> QED  BY <1>4, <2>1, <2>2
<1>6. ASSUME NEW state \in UnitStates,
             \/ work' = Systemd!Entered(state)
             \/ work' = [Systemd!Entered(state) EXCEPT !.job = "none", !.by = "nobody"]
             \/ work' = [Systemd!Entered(state) EXCEPT !.loaded = TRUE]
      PROVE  FallStays
  BY <1>1, <1>6, UnitMoves
<1>7. CASE Systemd!Settle \/ Systemd!Crash
  <2>1. cfg' = cfg /\ stream' = stream
    BY <1>7 DEF Systemd!Settle, Systemd!Crash, Systemd!Become, Systemd!Finish,
       Systemd!Progress, Systemd!Disturb
  <2>2. \E state \in {"inactive", "activating", "active", "deactivating", "failed"} :
            \/ work' = Systemd!Entered(state)
            \/ work' = [Systemd!Entered(state) EXCEPT !.job = "none", !.by = "nobody"]
    BY <1>7, Zenon DEF Systemd!Settle, Systemd!Crash, Systemd!Become, Systemd!Finish
  <2> QED  BY <1>2, <1>6, <2>1, <2>2 DEF UnitStates
<1>8. CASE Systemd!Operate \/ Systemd!EditFile
  <2>1. cfg' = cfg /\ stream' = stream
    BY <1>8 DEF Systemd!Operate, Systemd!EditFile, Systemd!Disturb
  <2>2. \/ \E state \in {"reloading", "inactive"} : work' = Systemd!Entered(state)
        \/ work' = [Systemd!Entered("maintenance") EXCEPT !.loaded = TRUE]
        \/ work' = [work EXCEPT !.job = "start", !.loaded = TRUE]
        \/ work' = [work EXCEPT !.job = "stop"]
        \/ work' = [work EXCEPT !.loaded = FALSE]
        \/ \E l : work' = [work EXCEPT !.limits = l]
        \/ \E f : work' = [work EXCEPT !.file = f]
    BY <1>8, Zenon DEF Systemd!Operate, Systemd!EditFile
  <2>3. CASE \/ \E state \in {"reloading", "inactive"} : work' = Systemd!Entered(state)
             \/ work' = [Systemd!Entered("maintenance") EXCEPT !.loaded = TRUE]
    BY <1>2, <1>6, <2>1, <2>3 DEF UnitStates
  <2>4. CASE work'.state = work.state /\ work'.fell = work.fell
    BY <1>2, <2>1, <2>4 DEF FallStays
  <2> QED  BY <1>1, <2>2, <2>3, <2>4 DEF SystemdWork
<1> QED
  BY <1>1, <1>2, <1>3, <1>4, <1>7, <1>8, SystemdPolls, SystemdServes
     DEF Next, Is, CallStep, CallFails, Serve, Poll, Close, Scan, Inspect, Settle,
         Environment, Systemd!Environment

-----------------------------------------------------------------------------
(* Kubernetes: the versions of the object that the informer has not seen   *)
(* yet, and the stops between each of them and the one before.             *)

Versions == {"gone", "off", "on"}

Drops == {p \in Versions \X Versions : Kubernetes!Falls(p[1], p[2]) = 1}

StopsAfter(first, w, D) ==
    {i \in 1..Len(w) : <<IF i = 1 THEN first ELSE w[i - 1], w[i]>> \in D}

VersionStreams ==
    [chan : {"open", "closed"}, cancelled : BOOLEAN, out : Events, owed : Nat,
     wire : Seq(Versions), known : Versions, todo : Seq(EventTypes)]

(* The stops a stream has yet to tell, besides the event on offer. *)
KubernetesOwes(D) ==
    Cardinality(StopsAfter(stream.known, stream.wire, D))
        + Cardinality(Stops(stream.todo, {"stopped"}))

KubernetesStream ==
    /\ stream \in VersionStreams
    /\ Told(KubernetesOwes(Drops))

LEMMA StopsAfterType ==
  ASSUME NEW T, NEW first \in T, NEW w \in Seq(T), NEW D
  PROVE  Cardinality(StopsAfter(first, w, D)) \in Nat
<1>1. Len(w) \in Nat /\ StopsAfter(first, w, D) \in SUBSET (1..Len(w))
  BY DEF StopsAfter
<1> QED  BY <1>1, SomeOfInterval

LEMMA StopsAfterTail ==
  ASSUME NEW T, NEW first \in T, NEW w \in Seq(T), w # <<>>, NEW D
  PROVE  /\ Tail(w) \in Seq(T) /\ Head(w) \in T
         /\ Cardinality(StopsAfter(first, w, D))
                = Cardinality(StopsAfter(Head(w), Tail(w), D))
                    + (IF <<first, Head(w)>> \in D THEN 1 ELSE 0)
<1>1. /\ Tail(w) \in Seq(T) /\ Len(Tail(w)) = Len(w) - 1 /\ Len(w) \in Nat /\ Len(w) >= 1
      /\ \A i \in 1..(Len(w) - 1) : Tail(w)[i] = w[i + 1]
      /\ Head(w) = w[1] /\ Head(w) \in T
  OBVIOUS
<1> DEFINE n == Len(w) - 1
           A == StopsAfter(first, w, D)
           B == StopsAfter(Head(w), Tail(w), D)
<1>2. n \in Nat /\ A \in SUBSET (1..(n + 1))
  BY <1>1 DEF StopsAfter
<1>3. B = {i \in 1..n : i + 1 \in A}
  <2>1. ASSUME NEW i \in 1..n
        PROVE  i \in B <=> i + 1 \in A
    <3>1. /\ Tail(w)[i] = w[i + 1] /\ i + 1 \in 1..Len(w) /\ i + 1 # 1 /\ (i + 1) - 1 = i
          /\ i \in 1..Len(Tail(w)) /\ i \in Nat
      BY <1>1
    <3>2. (IF i = 1 THEN Head(w) ELSE Tail(w)[i - 1]) = w[i]
      <4>1. CASE i = 1
        BY <1>1, <4>1
      <4>2. CASE i # 1
        <5>1. i - 1 \in 1..(Len(w) - 1) /\ (i - 1) + 1 = i
          BY <1>1, <4>2
        <5> QED  BY <1>1, <4>2, <5>1
      <4> QED  BY <4>1, <4>2
    <3>3. i \in B <=> <<w[i], w[i + 1]>> \in D
      BY <3>1, <3>2 DEF StopsAfter
    <3>4. i + 1 \in A <=> <<w[i], w[i + 1]>> \in D
      BY <3>1 DEF StopsAfter
    <3> QED  BY <3>3, <3>4
  <2>2. B \subseteq 1..n
    BY <1>1 DEF StopsAfter
  <2> QED  BY <2>1, <2>2
<1>4. 1 \in A <=> <<first, Head(w)>> \in D
  BY <1>1 DEF StopsAfter
<1> HIDE DEF n, A, B
<1>5. Cardinality(A) = Cardinality(B) + (IF 1 \in A THEN 1 ELSE 0)
  BY <1>2, <1>3, ShiftCounts
<1> QED  BY <1>1, <1>4, <1>5 DEF A, B

LastOf(first, w) == IF w = <<>> THEN first ELSE w[Len(w)]

LEMMA StopsAfterAppend ==
  ASSUME NEW T, NEW first \in T, NEW w \in Seq(T), NEW m \in T, NEW D
  PROVE  /\ Append(w, m) \in Seq(T)
         /\ Cardinality(StopsAfter(first, Append(w, m), D))
                = Cardinality(StopsAfter(first, w, D))
                    + (IF <<LastOf(first, w), m>> \in D THEN 1 ELSE 0)
<1> DEFINE v == Append(w, m)
           A == StopsAfter(first, w, D)
           n == Len(w)
<1>1. /\ v \in Seq(T) /\ Len(v) = n + 1 /\ n \in Nat
      /\ \A i \in 1..n : v[i] = w[i]
      /\ v[n + 1] = m
  OBVIOUS
<1>2. LastOf(first, w) = IF n + 1 = 1 THEN first ELSE v[(n + 1) - 1]
  <2>1. CASE w = <<>>
    BY <1>1, <2>1 DEF LastOf
  <2>2. CASE w # <<>>
    <3>1. n >= 1 /\ (n + 1) - 1 = n /\ n \in 1..n
      BY <1>1, <2>2
    <3> QED  BY <1>1, <2>2, <3>1 DEF LastOf
  <2> QED  BY <2>1, <2>2
<1> HIDE DEF v, n
<1>3. StopsAfter(first, v, D)
        = IF <<LastOf(first, w), m>> \in D THEN A \cup {n + 1} ELSE A
  <2>1. ASSUME NEW i \in 1..n
        PROVE  i \in StopsAfter(first, v, D) <=> i \in A
    <3>1. (IF i = 1 THEN first ELSE v[i - 1]) = (IF i = 1 THEN first ELSE w[i - 1])
      <4>1. CASE i # 1
        <5>1. i - 1 \in 1..n
          BY <1>1, <4>1
        <5> QED  BY <1>1, <5>1
      <4> QED  BY <4>1
    <3>2. i \in 1..Len(v) /\ i \in 1..Len(w) /\ v[i] = w[i]
      BY <1>1 DEF n
    <3> QED  BY <3>1, <3>2 DEF StopsAfter
  <2>2. n + 1 \in StopsAfter(first, v, D) <=> <<LastOf(first, w), m>> \in D
    BY <1>1, <1>2 DEF StopsAfter
  <2>3. StopsAfter(first, v, D) \subseteq (1..n) \cup {n + 1} /\ A \subseteq 1..n
    BY <1>1 DEF StopsAfter, n
  <2> DEFINE C == StopsAfter(first, v, D)
  <2> HIDE DEF A, C
  <2>4. \A i \in 1..n : i \in C <=> i \in A
    BY <2>1 DEF C
  <2>5. n + 1 \in C <=> <<LastOf(first, w), m>> \in D
    BY <2>2 DEF C
  <2>6. C \subseteq (1..n) \cup {n + 1} /\ A \subseteq 1..n
    BY <2>3 DEF C
  <2>7. C = IF n + 1 \in C THEN A \cup {n + 1} ELSE A
    <3>1. n + 1 \in C => C = A \cup {n + 1}
      BY ONLY <2>4, <2>6
    <3>2. n + 1 \notin C => C = A
      BY ONLY <2>4, <2>6
    <3> QED  BY <3>1, <3>2
  <2> QED  BY <2>5, <2>7, Zenon DEF C
<1>4. n + 1 \notin A /\ IsFiniteSet(A) /\ Cardinality(A) \in Nat
  <2>1. A \in SUBSET (1..n)
    BY DEF StopsAfter, n
  <2>2. IsFiniteSet(A) /\ Cardinality(A) \in Nat
    BY <1>1, <2>1, SomeOfInterval
  <2> HIDE DEF A
  <2> QED  BY <1>1, <2>1, <2>2
<1> HIDE DEF A
<1>5. Cardinality(A \cup {n + 1}) = Cardinality(A) + 1
  BY <1>4, FS_AddElement
<1> QED  BY <1>1, <1>3, <1>4, <1>5 DEF v, A

LEMMA StopsAfterNothing ==
  \A first, D : Cardinality(StopsAfter(first, <<>>, D)) = 0
  BY FS_EmptySet DEF StopsAfter

LEMMA CountOfOne ==
  ASSUME NEW e \in EventTypes
  PROVE  /\ <<e>> \in Seq(EventTypes)
         /\ Cardinality(Stops(<<e>>, {"stopped"})) = IF e = "stopped" THEN 1 ELSE 0
<1>1. <<e>> \in Seq(EventTypes) /\ Len(<<e>>) = 1 /\ <<e>>[1] = e
  OBVIOUS
<1>2. Stops(<<e>>, {"stopped"}) = IF e = "stopped" THEN {1} ELSE {}
  BY <1>1 DEF Stops
<1>3. Cardinality({1}) = 1 /\ Cardinality({}) = 0
  BY FS_Singleton, FS_EmptySet
<1> QED  BY <1>1, <1>2, <1>3

(* The handlers tell of a stop only where there was one. *)
LEMMA KubernetesHandler ==
  ASSUME cfg \in KubernetesConfig, NEW old \in Versions, NEW new \in Versions,
         NEW events, events = Kubernetes!Handler(old, new)
  PROVE  /\ events \in Seq(EventTypes)
         /\ Cardinality(Stops(events, {"stopped"})) \in Nat
         /\ Cardinality(Stops(events, {"stopped"})) <= IF <<old, new>> \in Drops THEN 1 ELSE 0
<1>1. /\ <<>> \in Seq(EventTypes) /\ Cardinality(Stops(<<>>, {"stopped"})) = 0
      /\ "removed" \in EventTypes /\ "stopped" \in EventTypes
      /\ "created" \in EventTypes /\ "started" \in EventTypes
  BY StopsOfNothing DEF EventTypes
<1>2. CASE events = <<>>
  BY <1>1, <1>2
<1>3. ASSUME NEW e \in EventTypes, events = <<e>>, e = "stopped" => <<old, new>> \in Drops
      PROVE  /\ events \in Seq(EventTypes)
             /\ Cardinality(Stops(events, {"stopped"})) \in Nat
             /\ Cardinality(Stops(events, {"stopped"})) <= IF <<old, new>> \in Drops THEN 1 ELSE 0
  BY <1>3, CountOfOne
<1>5. Wants("stopped") /\ ((old = "on" /\ new = "off") \/ (old # "gone" /\ new = "gone"))
         => <<old, new>> \in Drops
  BY DEF Drops, Kubernetes!Falls, Kubernetes!Wants, Wants
<1>6. \/ events = <<>>
      \/ \E e \in {"created", "started"} : events = <<e>>
      \/ events = <<"stopped">> /\ Wants("stopped") /\ old = "on" /\ new = "off"
      \/ /\ events = Kubernetes!Told("removed") \o Kubernetes!Told("stopped")
         /\ old # "gone" /\ new = "gone"
  <2>1. /\ Kubernetes!Told("created") \in {<<>>, <<"created">>}
        /\ Kubernetes!Told("started") \in {<<>>, <<"started">>}
        /\ \/ Kubernetes!Told("stopped") = <<>>
           \/ Wants("stopped") /\ Kubernetes!Told("stopped") = <<"stopped">>
    BY DEF Kubernetes!Told, Kubernetes!Wants, Wants
  <2> DEFINE created == Kubernetes!Told("created")
             started == Kubernetes!Told("started")
             stopped == Kubernetes!Told("stopped")
             removed == Kubernetes!Told("removed") \o Kubernetes!Told("stopped")
  <2>2. events = Kubernetes!deploymentEventHandler(old, new) \/ events = Kubernetes!watchClusters(old, new)
    BY DEF Kubernetes!Handler, Kubernetes!statefulSetEventHandler, Kubernetes!Cluster,
       KubernetesConfig
  <2>3. \/ events = <<>> \/ events = created \/ events = started
        \/ events = stopped /\ old = "on" /\ new = "off"
        \/ events = removed /\ old # "gone" /\ new = "gone"
    <3>1. CASE events = Kubernetes!deploymentEventHandler(old, new)
      <4> HIDE DEF created, started, stopped, removed
      <4>1. \/ events = <<>> \/ events = created \/ events = started
            \/ events = stopped /\ old = "on" /\ new = "off"
            \/ events = removed /\ old # "gone" /\ new = "gone"
        BY <3>1 DEF Kubernetes!deploymentEventHandler, Versions, created, started, stopped,
           removed
      <4> QED  BY <4>1
    <3>2. CASE events = Kubernetes!watchClusters(old, new)
      BY <3>1, <3>2 DEF Kubernetes!watchClusters, Versions
    <3> QED  BY <2>2, <3>1, <3>2
  <2> HIDE DEF removed
  <2> QED  BY <2>1, <2>3 DEF removed
<1>7. CASE events = Kubernetes!Told("removed") \o Kubernetes!Told("stopped")
           /\ old # "gone" /\ new = "gone"
  <2>1. PICK a, b : a = Kubernetes!Told("removed") /\ b = Kubernetes!Told("stopped")
    OBVIOUS
  <2>2. a \in Seq(EventTypes) /\ Cardinality(Stops(a, {"stopped"})) = 0
    <3>1. a = <<>> \/ a = <<"removed">>
      BY <2>1 DEF Kubernetes!Told
    <3>2. <<"removed">> \in Seq(EventTypes) /\ Cardinality(Stops(<<"removed">>, {"stopped"})) = 0
      BY <1>1, CountOfOne
    <3> QED  BY <1>1, <3>1, <3>2
  <2>3. \/ b = <<>>
        \/ Wants("stopped") /\ b = <<"stopped">>
    BY <2>1 DEF Kubernetes!Told, Kubernetes!Wants, Wants
  <2>4. events = a \o b
    BY <1>7, <2>1
  <2>5. CASE b = <<>>
    <3>1. events = a
      BY <2>2, <2>4, <2>5, NothingAdded
    <3> QED  BY <2>2, <3>1
  <2>6. CASE Wants("stopped") /\ b = <<"stopped">>
    <3>1. PICK s : s = "stopped" /\ s \in EventTypes
      BY <1>1
    <3>2. /\ a \o <<s>> \in Seq(EventTypes)
          /\ Cardinality(Stops(a \o <<s>>, {"stopped"}))
               = Cardinality(Stops(a, {"stopped"})) + (IF s \in {"stopped"} THEN 1 ELSE 0)
      BY <2>2, <3>1, StopsOfAppend
    <3>3. events = a \o <<s>>
      BY <2>4, <2>6, <3>1
    <3>4. <<old, new>> \in Drops
      BY <1>5, <1>7, <2>6
    <3>5. events \in Seq(EventTypes) /\ Cardinality(Stops(events, {"stopped"})) = 1
      BY <2>2, <3>1, <3>2, <3>3
    <3> QED  BY <3>4, <3>5
  <2> QED  BY <2>3, <2>5, <2>6
<1>8. CASE \E e \in {"created", "started"} : events = <<e>>
  BY <1>1, <1>3, <1>8
<1>9. CASE events = <<"stopped">> /\ Wants("stopped") /\ old = "on" /\ new = "off"
  <2>1. <<old, new>> \in Drops
    BY ONLY <1>5, <1>9, Zenon
  <2>2. events = <<"stopped">> /\ "stopped" \in EventTypes
    BY <1>1, <1>9
  <2> QED  BY <1>3, <2>1, <2>2
<1> QED  BY <1>2, <1>6, <1>7, <1>8, <1>9

LEMMA KubernetesWrites ==
  ASSUME StreamOK, KubernetesStream, cfg' = cfg, NEW w, Kubernetes!Write(w)
  PROVE  KubernetesStream' /\ StreamOK' /\ StreamStep
<1>1. /\ stream \in VersionStreams /\ stream.wire \in Seq(Versions) /\ stream.known \in Versions
      /\ stream.owed \in Nat /\ stream.todo \in Seq(EventTypes)
  BY DEF KubernetesStream, VersionStreams
<1>2. PICK D : D = Drops
  OBVIOUS
<1>3. Drops' = D
  BY <1>2 DEF Drops, Kubernetes!Falls, Kubernetes!Wants
<1>4. CASE stream' = stream
  BY <1>3, <1>4, <1>2 DEF KubernetesStream, KubernetesOwes, Told, StreamOK, StreamStep
<1>5. CASE stream' # stream
  <2>1. PICK now \in Versions : now = Kubernetes!Seen(w)
    BY DEF Kubernetes!Seen, Versions
  <2>2. PICK last \in Versions : last = Kubernetes!Last /\ last = LastOf(stream.known, stream.wire)
    <3>1. LastOf(stream.known, stream.wire) \in Versions
      BY <1>1 DEF LastOf
    <3> QED  BY <3>1 DEF Kubernetes!Last, LastOf
  <2>3. PICK falls \in {0, 1} :
            /\ falls = Kubernetes!Falls(last, now)
            /\ <<last, now>> \in D => falls = 1
    BY <1>2 DEF Kubernetes!Falls, Drops
  <2>4. stream' = [stream EXCEPT !.wire = Append(@, now), !.owed = @ + falls]
    BY <1>5, <2>1, <2>2, <2>3 DEF Kubernetes!Write
  <2> DEFINE v == Append(stream.wire, now)
             k == stream.owed + falls
  <2>5. /\ v \in Seq(Versions)
        /\ Cardinality(StopsAfter(stream.known, v, D))
             = Cardinality(StopsAfter(stream.known, stream.wire, D))
                 + (IF <<last, now>> \in D THEN 1 ELSE 0)
    BY <1>1, <2>1, <2>2, StopsAfterAppend
  <2>6. k \in Nat /\ k = stream.owed + falls /\ stream' = [stream EXCEPT !.wire = v, !.owed = k]
    BY <1>1, <2>3, <2>4
  <2> HIDE DEF v, k
  <2>7. /\ stream' \in VersionStreams
        /\ stream'.chan = stream.chan /\ stream'.cancelled = stream.cancelled
        /\ stream'.out = stream.out /\ stream'.owed = k /\ stream'.wire = v
        /\ stream'.known = stream.known /\ stream'.todo = stream.todo
    BY <1>1, <2>5, <2>6 DEF VersionStreams
  <2>8. /\ Cardinality(StopsAfter(stream.known, stream.wire, D)) \in Nat
        /\ Cardinality(Stops(stream.todo, {"stopped"})) \in Nat
    BY <1>1, StopsAfterType, StopsType
  <2>9. k >= Cardinality(StopsAfter(stream.known, v, D)) + Cardinality(Stops(stream.todo, {"stopped"}))
                + (IF stream.out = "stopped" THEN 1 ELSE 0)
    BY <1>1, <1>2, <2>3, <2>5, <2>6, <2>8 DEF KubernetesStream, KubernetesOwes, Told
  <2>10. Told(KubernetesOwes(Drops))'
    BY <1>3, <2>6, <2>7, <2>9 DEF KubernetesOwes, Told
  <2> QED  BY <2>7, <2>10 DEF KubernetesStream, StreamOK, StreamStep
<1> QED  BY <1>4, <1>5

LEMMA KubernetesServes ==
  ASSUME cfg \in KubernetesConfig, StreamOK, KubernetesStream, cfg' = cfg,
         \/ Kubernetes!Handle \/ Kubernetes!Offer \/ Kubernetes!Relist \/ Receive \/ Cancel
  PROVE  KubernetesStream' /\ StreamOK' /\ StreamStep
<1>1. /\ stream \in VersionStreams /\ stream.wire \in Seq(Versions) /\ stream.known \in Versions
      /\ stream.owed \in Nat /\ stream.todo \in Seq(EventTypes)
  BY DEF KubernetesStream, VersionStreams
<1>2. PICK D : D = Drops
  OBVIOUS
<1>3. Drops' = D
  BY <1>2 DEF Drops, Kubernetes!Falls, Kubernetes!Wants
<1> DEFINE falls == Cardinality(StopsAfter(stream.known, stream.wire, D))
           told == Cardinality(Stops(stream.todo, {"stopped"}))
           one == IF stream.out = "stopped" THEN 1 ELSE 0
<1>4. /\ falls \in Nat /\ told \in Nat
      /\ stream.owed >= (falls + told) + one
      /\ Cardinality(Stops(<<>>, {"stopped"})) = 0 /\ <<>> \in Seq(EventTypes)
      /\ <<>> \in Seq(Versions) /\ Cardinality(StopsAfter(stream.known, <<>>, D)) = 0
  BY <1>1, <1>2, StopsAfterType, StopsType, StopsOfNothing, StopsAfterNothing
     DEF KubernetesStream, KubernetesOwes, Told
<1>5. CASE Kubernetes!Handle
  <2>1. PICK events : events = Kubernetes!Handler(stream.known, Head(stream.wire))
    OBVIOUS
  <2>2. /\ stream.chan = "open" /\ stream.out = "none" /\ stream.todo = <<>> /\ stream.wire # <<>>
        /\ stream' = [stream EXCEPT !.wire = Tail(@), !.known = Head(stream.wire), !.todo = events]
    BY <1>5, <2>1 DEF Kubernetes!Handle, Kubernetes!Streaming
  <2>13. stream.wire # <<>> /\ Head(stream.wire) \in Versions /\ Tail(stream.wire) \in Seq(Versions)
    BY <1>1, <2>2, StopsAfterTail
  <2>3. PICK head \in Versions : head = Head(stream.wire)
    BY ONLY <2>13, Zenon
  <2>4. PICK tail \in Seq(Versions) : tail = Tail(stream.wire)
    BY ONLY <2>13, Zenon
  <2>5. falls = Cardinality(StopsAfter(head, tail, D)) + (IF <<stream.known, head>> \in D THEN 1 ELSE 0)
    BY <1>1, <2>2, <2>3, <2>4, StopsAfterTail
  <2>6. /\ events \in Seq(EventTypes)
        /\ Cardinality(Stops(events, {"stopped"})) \in Nat
        /\ Cardinality(Stops(events, {"stopped"})) <= IF <<stream.known, head>> \in D THEN 1 ELSE 0
    BY <1>1, <1>2, <2>1, <2>3, KubernetesHandler
  <2>7. stream' = [stream EXCEPT !.wire = tail, !.known = head, !.todo = events]
    BY <2>2, <2>3, <2>4
  <2>8. /\ stream' \in VersionStreams
        /\ stream'.chan = stream.chan /\ stream'.cancelled = stream.cancelled
        /\ stream'.out = stream.out /\ stream'.owed = stream.owed /\ stream'.wire = tail
        /\ stream'.known = head /\ stream'.todo = events
    BY <1>1, <2>6, <2>7 DEF VersionStreams
  <2>9. Cardinality(StopsAfter(head, tail, D)) \in Nat
    BY <2>3, <2>4, StopsAfterType
  <2>10. told = 0 /\ one = 0
    BY <1>4, <2>2
  <2>11. stream.owed >= (Cardinality(StopsAfter(head, tail, D)) + Cardinality(Stops(events, {"stopped"}))) + 0
    <3> HIDE DEF falls, told, one
    <3> QED  BY <1>1, <1>4, <2>5, <2>6, <2>9, <2>10
  <2>12. Told(KubernetesOwes(Drops))'
    BY <1>1, <1>3, <2>2, <2>8, <2>11 DEF KubernetesOwes, Told
  <2> QED  BY <2>8, <2>12 DEF KubernetesStream, StreamOK, StreamStep
<1>6. CASE Kubernetes!Offer
  <2>1. /\ stream.chan = "open" /\ stream.out = "none" /\ stream.todo # <<>>
        /\ stream' = [stream EXCEPT !.out = Head(stream.todo), !.todo = Tail(@)]
    BY <1>6 DEF Kubernetes!Offer, Kubernetes!Streaming
  <2>9. stream.todo # <<>> /\ Head(stream.todo) \in EventTypes /\ Tail(stream.todo) \in Seq(EventTypes)
    BY <1>1, <2>1, StopsOfTail
  <2>2. PICK head \in EventTypes : head = Head(stream.todo)
    BY ONLY <2>9, Zenon
  <2>3. PICK tail \in Seq(EventTypes) : tail = Tail(stream.todo)
    BY ONLY <2>9, Zenon
  <2>4. told = Cardinality(Stops(tail, {"stopped"})) + (IF head \in {"stopped"} THEN 1 ELSE 0)
    BY <1>1, <2>1, <2>2, <2>3, StopsOfTail
  <2>5. /\ stream' \in VersionStreams
        /\ stream'.chan = stream.chan /\ stream'.cancelled = stream.cancelled
        /\ stream'.out = head /\ stream'.owed = stream.owed /\ stream'.wire = stream.wire
        /\ stream'.known = stream.known /\ stream'.todo = tail
    BY <1>1, <2>1, <2>2, <2>3 DEF VersionStreams, Events
  <2>6. Cardinality(Stops(tail, {"stopped"})) \in Nat
    BY <2>3, StopsType
  <2>7. stream.owed >= (falls + Cardinality(Stops(tail, {"stopped"}))) + (IF head = "stopped" THEN 1 ELSE 0)
    <3>1. one = 0
      BY <2>1
    <3> HIDE DEF falls, told, one
    <3> QED  BY <1>1, <1>4, <2>4, <2>6, <3>1
  <2>8. Told(KubernetesOwes(Drops))'
    BY <1>1, <1>3, <2>5, <2>7 DEF KubernetesOwes, Told
  <2> QED  BY <2>1, <2>2, <2>5, <2>8 DEF KubernetesStream, StreamOK, StreamStep, Events
<1>7. CASE Kubernetes!Relist
  <2>1. PICK now \in Versions : now = Kubernetes!Seen(work)
    BY DEF Kubernetes!Seen, Versions
  <2>2. PICK k \in {0, 1} : /\ k = Kubernetes!Falls(stream.known, now)
                            /\ <<stream.known, now>> \in D => k = 1
    BY <1>1, <1>2 DEF Kubernetes!Falls, Drops
  <2>3. PICK v \in Seq(Versions) :
            /\ v = <<>> \/ v = Append(<<>>, now)
            /\ stream' = [stream EXCEPT !.wire = v, !.owed = k]
    <3>1. stream' = [stream EXCEPT !.wire = IF now = stream.known THEN <<>> ELSE <<now>>, !.owed = k]
      BY <1>7, <2>1, <2>2 DEF Kubernetes!Relist
    <3>2. <<now>> \in Seq(Versions) /\ <<now>> = Append(<<>>, now)
      OBVIOUS
    <3> QED  BY <1>4, <3>1, <3>2
  <2>4. stream.todo = <<>> /\ stream.out = "none" /\ stream.chan = "open"
    BY <1>7 DEF Kubernetes!Relist, Kubernetes!Streaming
  <2>5. Cardinality(StopsAfter(stream.known, v, D)) \in Nat /\ Cardinality(StopsAfter(stream.known, v, D)) <= k
    <3>1. CASE v = <<>>
      BY <1>4, <2>2, <3>1
    <3>2. CASE v = Append(<<>>, now)
      <4>1. PICK e \in Seq(Versions) : e = <<>>
        BY <1>4
      <4>2. Cardinality(StopsAfter(stream.known, Append(e, now), D))
              = Cardinality(StopsAfter(stream.known, e, D))
                  + (IF <<LastOf(stream.known, e), now>> \in D THEN 1 ELSE 0)
        BY <1>1, StopsAfterAppend
      <4>3. LastOf(stream.known, e) = stream.known
        BY <4>1 DEF LastOf
      <4>4. Cardinality(StopsAfter(stream.known, v, D))
              = 0 + (IF <<stream.known, now>> \in D THEN 1 ELSE 0)
        BY <1>4, <3>2, <4>1, <4>2, <4>3
      <4> QED  BY <2>2, <4>4
    <3> QED  BY <2>3, <3>1, <3>2
  <2>6. /\ stream' \in VersionStreams
        /\ stream'.chan = stream.chan /\ stream'.cancelled = stream.cancelled
        /\ stream'.out = stream.out /\ stream'.owed = k /\ stream'.wire = v
        /\ stream'.known = stream.known /\ stream'.todo = stream.todo
    <3>1. k \in Nat /\ stream' = [stream EXCEPT !.wire = v, !.owed = k]
      BY <2>2, <2>3
    <3> QED  BY ONLY <1>1, <3>1, v \in Seq(Versions) DEF VersionStreams
  <2>7. Told(KubernetesOwes(Drops))'
    <3>1. k \in Nat /\ k >= Cardinality(StopsAfter(stream.known, v, D)) + 0
      BY <2>2, <2>5
    <3>2. Cardinality(StopsAfter(stream.known, stream.wire, Drops))'
             = Cardinality(StopsAfter(stream.known, v, D))
      BY <1>3, <2>6
    <3>3. Cardinality(Stops(stream.todo, {"stopped"}))' = 0 /\ stream'.out # "stopped"
      BY <1>4, <2>4, <2>6
    <3> QED  BY <2>5, <2>6, <3>1, <3>2, <3>3 DEF KubernetesOwes, Told
  <2> QED  BY <2>6, <2>7 DEF KubernetesStream, StreamOK, StreamStep
<1>8. CASE Receive
  <2> DEFINE n == IF stream.out = "stopped" /\ stream.owed > 0 THEN stream.owed - 1
                  ELSE stream.owed
  <2>1. n \in Nat /\ n >= falls + told
    <3> HIDE DEF falls, told
    <3> QED  BY <1>1, <1>4
  <2>2. stream' = [stream EXCEPT !.out = "none", !.owed = n]
    BY <1>8 DEF Receive
  <2> HIDE DEF n
  <2>3. /\ stream' \in VersionStreams
        /\ stream'.chan = stream.chan /\ stream'.cancelled = stream.cancelled
        /\ stream'.out = "none" /\ stream'.owed = n /\ stream'.wire = stream.wire
        /\ stream'.known = stream.known /\ stream'.todo = stream.todo
    BY <1>1, <2>1, <2>2 DEF VersionStreams, Events
  <2>4. Told(KubernetesOwes(Drops))'
    BY <1>3, <1>4, <2>1, <2>3 DEF KubernetesOwes, Told
  <2> QED  BY <2>3, <2>4 DEF KubernetesStream, StreamOK, StreamStep, Events
<1>9. CASE Cancel
  <2>1. stream' = [stream EXCEPT !.cancelled = TRUE] /\ stream.chan = "open"
    BY <1>9 DEF Cancel
  <2>2. /\ stream' \in VersionStreams
        /\ stream'.chan = stream.chan /\ stream'.cancelled = TRUE
        /\ stream'.out = stream.out /\ stream'.owed = stream.owed /\ stream'.wire = stream.wire
        /\ stream'.known = stream.known /\ stream'.todo = stream.todo
    BY <1>1, <2>1 DEF VersionStreams
  <2>3. Told(KubernetesOwes(Drops))'
    BY <1>1, <1>3, <1>4, <2>2 DEF KubernetesOwes, Told
  <2> QED  BY <2>1, <2>2, <2>3 DEF KubernetesStream, StreamOK, StreamStep
<1> QED  BY <1>5, <1>6, <1>7, <1>8, <1>9

LEMMA KubernetesStreams ==
  ASSUME CallsOK, KubernetesInv, StreamOK, KubernetesStream, Next
  PROVE  KubernetesStream' /\ StreamOK' /\ StreamStep
<1>1. cfg.provider = "kubernetes" /\ cfg \in KubernetesConfig
  BY DEF KubernetesInv, KubernetesConfig
<1>2. CASE cfg' = cfg /\ stream' = stream
  <2>1. Drops' = Drops
    BY <1>2 DEF Drops, Kubernetes!Falls, Kubernetes!Wants
  <2> QED  BY <1>2, <2>1 DEF KubernetesStream, KubernetesOwes, Told, StreamOK, StreamStep
<1>3. CASE \E c \in Caller : Begin(c, "start") \/ Begin(c, "stop")
  BY <1>2, <1>3 DEF Begin
<1>4. ASSUME NEW c \in Caller, Kubernetes!CallStep(c) \/ Kubernetes!FailKubernetes(c)
      PROVE  cfg' = cfg /\ (stream' = stream \/ \E w : Kubernetes!Write(w))
  <2>1. CASE Kubernetes!clusterHibernate(c)
    BY <2>1, Zenon DEF Kubernetes!clusterHibernate, Kubernetes!Return,
       Kubernetes!WroteAndReturn
  <2>2. CASE Kubernetes!UpdateScale(c)
    BY <2>2, Zenon DEF Kubernetes!UpdateScale, Kubernetes!WroteAndGoto,
       Kubernetes!WroteAndReturn
  <2>3. CASE \/ Kubernetes!InstanceStart(c) \/ Kubernetes!InstanceStop(c) \/ Kubernetes!redisOperatorOwner(c)
             \/ Kubernetes!SkipReconcile(c) \/ Kubernetes!GetScale(c)
    BY <2>3, Zenon DEF Kubernetes!InstanceStart, Kubernetes!InstanceStop,
       Kubernetes!getWorkloadLabels,
       Kubernetes!redisOperatorOwner, Kubernetes!SkipReconcile, Kubernetes!GetScale,
       Kubernetes!Goto, Kubernetes!ReadAndGoto
  <2>4. CASE \/ Kubernetes!scaleResources(c) \/ Kubernetes!FetchOwner(c)
             \/ Kubernetes!UnskipReconcile(c) \/ Kubernetes!RestoreReconcile(c) \/ Kubernetes!FailKubernetes(c)
    BY <2>4, Zenon DEF Kubernetes!scaleResources, Kubernetes!FetchOwner,
       Kubernetes!UnskipReconcile,
       Kubernetes!RestoreReconcile, Kubernetes!FailKubernetes,
       Kubernetes!Goto, Kubernetes!Return, Kubernetes!WroteAndGoto, Kubernetes!WroteAndReturn
  <2> QED  BY <1>4, <2>1, <2>2, <2>3, <2>4 DEF Kubernetes!CallStep
<1>5. CASE Kubernetes!Settle \/ Kubernetes!PodEnds
  BY <1>2, <1>5 DEF Kubernetes!Settle, Kubernetes!PodEnds, Kubernetes!Progress,
     Kubernetes!Disturb
<1>6. CASE Kubernetes!OperatorReconciles \/ Kubernetes!Operate
  <2>1. cfg' = cfg /\ \E w : Kubernetes!Write(w)
    BY <1>6, Zenon DEF Kubernetes!OperatorReconciles, Kubernetes!Operate, Kubernetes!Disturb
  <2> QED  BY <2>1, KubernetesWrites
<1>7. CASE Kubernetes!Serve \/ Kubernetes!Relist \/ Receive \/ Cancel
  <2>1. cfg' = cfg
    BY <1>7, Zenon DEF Kubernetes!Serve, Kubernetes!Handle, Kubernetes!Offer,
       Kubernetes!Relist,
       Kubernetes!Streaming, Receive, Cancel
  <2> QED  BY <1>1, <1>7, <2>1, KubernetesServes DEF Kubernetes!Serve
<1>8. ASSUME NEW c \in Caller, Kubernetes!CallStep(c) \/ Kubernetes!FailKubernetes(c)
      PROVE  KubernetesStream' /\ StreamOK' /\ StreamStep
  BY <1>2, <1>4, <1>8, KubernetesWrites
<1> QED
  BY <1>1, <1>3, <1>5, <1>6, <1>7, <1>8
     DEF Next, Is, CallStep, CallFails, Serve, Poll, Close, Scan, Inspect, Settle,
         Environment, Kubernetes!Environment

-----------------------------------------------------------------------------
(* Proxmox.  The stream compares two polls; what a call found, where the   *)
(* container is and what fell since the last poll are part of the argument. *)

PollStreams ==
    [chan : {"open", "closed"}, cancelled : BOOLEAN, out : Events, owed : Nat,
     seeded : BOOLEAN, known : BOOLEAN, errors : Nat]

Located == \A d \in Caller : At(d, "start", "submit") => calls[d].seen # 0

Placed == work.node = 0 => work.task = "none" /\ work.up = FALSE

FallsAreKept == stream.known /\ ~work.up /\ "stopped" \in cfg.types => work.fell

ProxmoxStream ==
    /\ stream \in PollStreams
    /\ ~cfg.skips => Told(0)
    /\ Located /\ Placed /\ FallsAreKept

SamePlace ==
    /\ work'.node = work.node /\ work'.up = work.up
    /\ work'.task = work.task /\ work'.fell = work.fell

LEMMA ProxmoxQuiet ==
  ASSUME StreamOK, ProxmoxStream, cfg' = cfg, stream' = stream, Located',
         SamePlace \/ (Placed' /\ FallsAreKept')
  PROVE  ProxmoxStream' /\ StreamOK' /\ StreamStep
<1>1. Placed' /\ FallsAreKept'
  BY DEF ProxmoxStream, SamePlace, Placed, FallsAreKept
<1> QED  BY <1>1 DEF ProxmoxStream, Told, StreamOK, StreamStep

LEMMA LocatedGoes ==
  ASSUME Located, NEW c \in Caller, NEW s, GoesTo(c, s),
         calls[c].op = "start" /\ s = "submit" => calls'[c].seen # 0
  PROVE  Located'
  BY DEF Located, GoesTo, At

LEMMA LocatedReturns ==
  ASSUME Located, NEW c \in Caller, NEW ok, Returns(c, ok)
  PROVE  Located'
  BY NoCallType DEF Located, Returns, At

LEMMA LocatedStays ==
  ASSUME Located, Stay
  PROVE  Located'
  BY DEF Located, Stay, At

LEMMA ProxmoxCallStreams ==
  ASSUME CallsOK, ProxmoxInv, StreamOK, ProxmoxStream, NEW c \in Caller,
         \/ Proxmox!NotFound(c) \/ Proxmox!InstanceStart(c) \/ Proxmox!Submit(c)
         \/ Proxmox!InstanceStop(c) \/ Proxmox!SubmitStop(c) \/ Proxmox!Wait(c)
         \/ Proxmox!FailProxmox(c)
  PROVE  ProxmoxStream' /\ StreamOK' /\ StreamStep
<1>1. work \in ProxmoxWork /\ Located /\ Placed /\ FallsAreKept
  BY DEF ProxmoxInv, ProxmoxStream
<1>3. CASE stream' = stream /\ SamePlace /\ \E ok \in BOOLEAN : Proxmox!Return(c, ok)
  <2>1. PICK ok \in BOOLEAN : Returns(c, ok)
    BY <1>3, ProxmoxShapes
  <2>2. cfg' = cfg /\ Located'
    BY <1>1, <2>1, LocatedReturns DEF Returns
  <2> QED  BY <1>3, <2>2, ProxmoxQuiet
<1>4. CASE /\ stream' = stream /\ SamePlace /\ work.node # 0
           /\ Proxmox!GotoWith(c, "submit")
  <2>1. GoesTo(c, "submit") /\ calls'[c].seen = work.node
    BY <1>1, <1>4, GotoWithGoes DEF Step, Proxmox!GotoWith, CallsOK, Call
  <2>2. cfg' = cfg /\ Located'
    BY <1>1, <1>4, <2>1, LocatedGoes DEF GoesTo
  <2> QED  BY <1>4, <2>2, ProxmoxQuiet
<1>5. CASE Proxmox!NotFound(c)
  <2>1. PICK n : work' = [work EXCEPT !.cache = n]
    BY <1>5 DEF Proxmox!NotFound
  <2>2. SamePlace
    BY <1>1, <2>1 DEF SamePlace, ProxmoxWork
  <2> QED  BY <1>3, <1>5, <2>2 DEF Proxmox!NotFound
<1>6. CASE Proxmox!InstanceStart(c) \/ Proxmox!InstanceStop(c)
  <2>1. /\ stream' = stream /\ work.node # 0
        /\ \/ work' = [work EXCEPT !.cache = work.node]
           \/ work' = [work EXCEPT !.cache = work.node, !.pending = "none"]
           \/ \E b : work' = [work EXCEPT !.cache = work.node, !.lapse = b]
           \/ \E b : work' = [work EXCEPT !.cache = work.node, !.pending = "none",
                                         !.lapse = b]
        /\ Proxmox!Return(c, TRUE) \/ Proxmox!GotoWith(c, "submit")
    BY <1>6, Zenon DEF Proxmox!InstanceStart, Proxmox!InstanceStop, Proxmox!Find, Proxmox!Nowhere
  <2>2. SamePlace
    BY <1>1, <2>1 DEF SamePlace, ProxmoxWork
  <2> QED  BY <1>3, <1>4, <2>1, <2>2
<1>7. CASE Proxmox!Submit(c)
  <2>1. stream' = stream /\ At(c, "start", "submit")
    BY <1>7 DEF Proxmox!Submit, Proxmox!At, At
  <2>2. CASE /\ Proxmox!Holds(c)
             /\ work' = [work EXCEPT !.task = "start", !.pending = "running", !.lapse = FALSE]
             /\ Proxmox!WroteAndReturn(c, TRUE)
    <3>1. Returns(c, TRUE)
      BY <2>2, ProxmoxShapes
    <3>2. cfg' = cfg /\ Located'
      BY <1>1, <3>1, LocatedReturns DEF Returns
    <3>3. work.node # 0
      BY <1>1, <2>1, <2>2 DEF Located, Proxmox!Holds
    <3>4. work'.node = work.node /\ work'.up = work.up /\ work'.fell = work.fell
      BY <1>1, <2>2 DEF ProxmoxWork
    <3>5. Placed' /\ FallsAreKept'
      BY <1>1, <2>1, <3>2, <3>3, <3>4 DEF Placed, FallsAreKept
    <3> QED  BY <2>1, <3>2, <3>5, ProxmoxQuiet
  <2>3. CASE /\ work' \in {work, [work EXCEPT !.pending = "failed", !.lapse = FALSE]}
             /\ \E ok \in BOOLEAN : Proxmox!Return(c, ok)
    <3>1. SamePlace
      BY <1>1, <2>3 DEF SamePlace, ProxmoxWork
    <3> QED  BY <1>3, <2>1, <2>3, <3>1
  <2> QED  BY <1>7, <2>2, <2>3 DEF Proxmox!Submit
<1>8. CASE Proxmox!SubmitStop(c)
  <2>1. stream' = stream /\ calls[c].op = "stop"
    BY <1>8 DEF Proxmox!SubmitStop, Proxmox!At
  <2>2. CASE /\ work.up /\ work' = [work EXCEPT !.task = "stop", !.lapse = FALSE]
             /\ Proxmox!WroteAndGoto(c, "wait")
    <3>1. GoesTo(c, "wait")
      BY <2>2, ProxmoxShapes DEF Step
    <3>2. cfg' = cfg /\ Located'
      BY <1>1, <2>1, <3>1, LocatedGoes DEF GoesTo
    <3>3. work'.node = work.node /\ work'.up = work.up /\ work'.fell = work.fell
      BY <1>1, <2>2 DEF ProxmoxWork
    <3>4. Placed' /\ FallsAreKept'
      BY <1>1, <2>1, <2>2, <3>2, <3>3 DEF Placed, FallsAreKept
    <3> QED  BY <2>1, <3>2, <3>4, ProxmoxQuiet
  <2>3. CASE work' = work /\ Proxmox!Return(c, FALSE)
    BY <1>3, <2>1, <2>3 DEF SamePlace
  <2> QED  BY <1>8, <2>2, <2>3 DEF Proxmox!SubmitStop
<1>9. CASE Proxmox!Wait(c) \/ Proxmox!FailProxmox(c)
  <2>1. work' = work /\ stream' = stream
        /\ (Proxmox!Return(c, TRUE) \/ Proxmox!Return(c, FALSE))
    BY <1>9 DEF Proxmox!Wait, Proxmox!FailProxmox, Proxmox!Fail
  <2> QED  BY <1>3, <2>1 DEF SamePlace
<1> QED
  BY <1>5, <1>6, <1>7, <1>8, <1>9

LEMMA ProxmoxInspectStreams ==
  ASSUME CallsOK, ProxmoxInv, StreamOK, ProxmoxStream, NEW c \in Caller,
         Proxmox!checkPendingTask(c) \/ Proxmox!ClearPending(c)
  PROVE  ProxmoxStream' /\ StreamOK' /\ StreamStep
<1>1. /\ work \in ProxmoxWork /\ Located /\ calls \in [Caller -> Call]
      /\ cfg' = cfg /\ stream' = stream
  BY DEF ProxmoxInv, ProxmoxStream, CallsOK, Proxmox!checkPendingTask, Proxmox!ClearPending
<1>2. PICK n, p : \/ work' = [work EXCEPT !.cache = n]
                  \/ work' = [work EXCEPT !.pending = "none", !.lapse = p]
  BY Zenon DEF Proxmox!checkPendingTask, Proxmox!ClearPending
<1>3. SamePlace
  BY <1>1, <1>2 DEF ProxmoxWork, SamePlace
<1>4. ASSUME NEW d \in Caller
      PROVE  \/ ~At(d, "start", "submit")'
             \/ At(d, "start", "submit") /\ calls'[d].seen = calls[d].seen
  <2>1. calls[d] \in Call
    BY <1>1
  <2>2. CASE d # c
    <3>1. \/ calls'[d] = calls[d]
          \/ calls'[d] = [calls[d] EXCEPT !.clean = FALSE, !.fresh = FALSE]
      BY <1>1, <2>2 DEF Proxmox!checkPendingTask, Proxmox!ClearPending, Proxmox!Interfere
    <3>2. /\ calls'[d].op = calls[d].op /\ calls'[d].step = calls[d].step
          /\ calls'[d].seen = calls[d].seen
      BY <2>1, <3>1 DEF Call
    <3> QED  BY <3>2 DEF At
  <2>3. CASE d = c
    <3>1. CASE Proxmox!checkPendingTask(c)
      <4> DEFINE b == work.pending = "failed"
                 r == [NoCall EXCEPT !.op = "inspect", !.step = "clear", !.undo = b]
      <4>1. r.step = "clear"
        BY DEF NoCall
      <4>2. calls' = [calls EXCEPT ![c] = r]
        BY <3>1 DEF Proxmox!checkPendingTask, Proxmox!NoCall, NoCall
      <4> HIDE DEF r
      <4> QED  BY <1>1, <2>3, <4>1, <4>2 DEF At
    <3>2. CASE Proxmox!ClearPending(c) /\ calls[c].undo
      <4> DEFINE b == \A e \in Caller \ {c} : calls[e] = NoCall
                 r == [NoCall EXCEPT !.op = "start", !.step = "begin", !.clean = b]
      <4>1. r.step = "begin"
        BY DEF NoCall
      <4>2. calls' = Interfere([calls EXCEPT ![c] = r], {c})
        BY <3>2 DEF Proxmox!ClearPending, Proxmox!NoCall, NoCall, Proxmox!Interfere, Interfere
      <4> HIDE DEF r
      <4> QED  BY <1>1, <2>3, <4>1, <4>2 DEF At, Interfere
    <3>3. CASE Proxmox!ClearPending(c) /\ ~calls[c].undo
      <4>1. calls' = [calls EXCEPT ![c] = NoCall]
        BY <3>3 DEF Proxmox!ClearPending, Proxmox!NoCall, NoCall
      <4> QED  BY <1>1, <2>3, <4>1, NoCallType DEF At
    <3> QED  BY <3>1, <3>2, <3>3
  <2> QED  BY <2>2, <2>3
<1>5. Located'
  BY <1>1, <1>4 DEF Located, At
<1> QED  BY <1>1, <1>3, <1>5, ProxmoxQuiet

LEMMA ProxmoxPolls ==
  ASSUME ProxmoxInv, StreamOK, ProxmoxStream, Proxmox!Poll
  PROVE  ProxmoxStream' /\ StreamOK' /\ StreamStep
<1>1. /\ work \in ProxmoxWork /\ stream \in PollStreams /\ Located /\ Placed /\ FallsAreKept
      /\ cfg \in ProxmoxConfig /\ stream.chan = "open" /\ stream.out = "none"
      /\ UNCHANGED <<cfg, calls>> /\ stream.owed \in Nat /\ work.up \in BOOLEAN
      /\ stream.known \in BOOLEAN /\ cfg.skips \in BOOLEAN
  BY DEF ProxmoxInv, ProxmoxStream, PollStreams, ProxmoxWork, ProxmoxConfig, Proxmox!Poll,
     Proxmox!Polling, Proxmox!Streaming
<1>2. PICK found \in Proxmox!scanContainers :
        /\ work' = [work EXCEPT !.cache = found, !.fell = FALSE]
        /\ stream' = [stream EXCEPT
                !.errors = 0, !.known = (found # 0 /\ work.up),
                !.out = CASE stream.known /\ ~(found # 0 /\ work.up) /\ Wants("stopped") -> "stopped"
                          [] ~stream.known /\ (found # 0 /\ work.up) /\ Wants("started") -> "started"
                          [] OTHER -> "none",
                !.owed = IF work.fell /\ stream.known /\ ~work.up /\ Wants("stopped")
                         THEN stream.owed + 1 ELSE stream.owed]
  BY DEF Proxmox!Poll, Proxmox!Nowhere, Proxmox!Wants, Wants
<1> DEFINE now == found # 0 /\ work.up
           event == CASE stream.known /\ ~now /\ Wants("stopped") -> "stopped"
                      [] ~stream.known /\ now /\ Wants("started") -> "started"
                      [] OTHER -> "none"
           n == IF work.fell /\ stream.known /\ ~work.up /\ Wants("stopped")
                THEN stream.owed + 1 ELSE stream.owed
<1>3. /\ now \in BOOLEAN /\ n \in Nat /\ n >= stream.owed
      /\ event \in {"none", "started", "stopped"}
      /\ now => work.up
  BY <1>1
<1>4. ~cfg.skips /\ event = "stopped" => n > 0
  <2>1. ASSUME ~cfg.skips, event = "stopped" PROVE n > 0
    <3>1. found = work.node
      BY <1>2, <2>1 DEF Proxmox!scanContainers
    <3>2. stream.known /\ ~now /\ "stopped" \in cfg.types
      BY <2>1 DEF Wants
    <3>3. ~work.up
      BY <1>1, <3>1, <3>2 DEF Placed
    <3>4. work.fell
      BY <1>1, <3>2, <3>3 DEF FallsAreKept
    <3> QED  BY <1>1, <3>2, <3>3, <3>4 DEF Wants
  <2> QED  BY <2>1
<1>5. stream' = [stream EXCEPT !.errors = 0, !.known = now, !.out = event, !.owed = n]
  BY <1>2
<1>6. work'.node = work.node /\ work'.up = work.up /\ work'.task = work.task
  BY <1>1, <1>2 DEF ProxmoxWork
<1> HIDE DEF now, event, n
<1>7. /\ stream' \in PollStreams
      /\ stream'.chan = stream.chan /\ stream'.cancelled = stream.cancelled
      /\ stream'.out = event /\ stream'.owed = n /\ stream'.known = now
  BY <1>1, <1>3, <1>5 DEF PollStreams, Events, EventTypes
<1>8. (~cfg.skips => Told(0))'
  BY <1>1, <1>3, <1>4, <1>7 DEF Told
<1>9. Located' /\ Placed' /\ FallsAreKept'
  BY <1>1, <1>3, <1>6, <1>7 DEF Located, At, Placed, FallsAreKept
<1> QED
  BY <1>1, <1>3, <1>7, <1>8, <1>9 DEF ProxmoxStream, StreamOK, StreamStep, Events, EventTypes

LEMMA ProxmoxSeeds ==
  ASSUME ProxmoxInv, StreamOK, ProxmoxStream, Proxmox!InitialScan
  PROVE  ProxmoxStream' /\ StreamOK' /\ StreamStep
<1>1. /\ work \in ProxmoxWork /\ stream \in PollStreams /\ Located /\ Placed /\ FallsAreKept
      /\ UNCHANGED <<cfg, calls>> /\ stream.owed \in Nat /\ work.up \in BOOLEAN
      /\ ~cfg.skips => Told(0)
  BY DEF ProxmoxInv, ProxmoxStream, PollStreams, ProxmoxWork, Proxmox!InitialScan,
     Proxmox!Polling, Proxmox!Streaming
<1>2. CASE stream' = [stream EXCEPT !.seeded = TRUE] /\ work' = work
  <2>1. /\ stream' \in PollStreams
        /\ stream'.chan = stream.chan /\ stream'.cancelled = stream.cancelled
        /\ stream'.out = stream.out /\ stream'.owed = stream.owed /\ stream'.known = stream.known
    BY <1>1, <1>2 DEF PollStreams
  <2> QED  BY <1>1, <1>2, <2>1
             DEF ProxmoxStream, Located, At, Placed, FallsAreKept, StreamOK, StreamStep, Told
<1>3. ASSUME NEW found, NEW now \in BOOLEAN, now => work.up,
             work' = [work EXCEPT !.cache = found, !.fell = FALSE],
             stream' = [stream EXCEPT !.seeded = TRUE, !.known = now]
      PROVE  ProxmoxStream' /\ StreamOK' /\ StreamStep
  <2>1. /\ stream' \in PollStreams
        /\ stream'.chan = stream.chan /\ stream'.cancelled = stream.cancelled
        /\ stream'.out = stream.out /\ stream'.owed = stream.owed /\ stream'.known = now
    BY <1>1, <1>3 DEF PollStreams
  <2>2. work'.node = work.node /\ work'.up = work.up /\ work'.task = work.task
    BY <1>1, <1>3 DEF ProxmoxWork
  <2> QED  BY <1>1, <1>3, <2>1, <2>2
             DEF ProxmoxStream, Located, At, Placed, FallsAreKept, StreamOK, StreamStep, Told
<1>4. CASE \E found \in Proxmox!scanContainers :
            /\ work' = [work EXCEPT !.cache = found, !.fell = FALSE]
            /\ stream' = [stream EXCEPT !.seeded = TRUE,
                                        !.known = found # Proxmox!Nowhere /\ work.up]
  <2>1. PICK found :
            /\ work' = [work EXCEPT !.cache = found, !.fell = FALSE]
            /\ stream' = [stream EXCEPT !.seeded = TRUE,
                                        !.known = found # Proxmox!Nowhere /\ work.up]
    BY <1>4
  <2> DEFINE now == found # Proxmox!Nowhere /\ work.up
  <2>2. now \in BOOLEAN /\ (now => work.up)
        /\ stream' = [stream EXCEPT !.seeded = TRUE, !.known = now]
    BY <1>1, <2>1
  <2> HIDE DEF now
  <2> QED  BY <1>3, <2>1, <2>2
<1> QED  BY <1>2, <1>4 DEF Proxmox!InitialScan

LEMMA ProxmoxServes ==
  ASSUME ProxmoxInv, StreamOK, ProxmoxStream,
         Proxmox!PollFails \/ Proxmox!Close \/ Receive \/ Cancel
  PROVE  ProxmoxStream' /\ StreamOK' /\ StreamStep
<1>1. /\ stream \in PollStreams /\ Located /\ Placed /\ FallsAreKept
      /\ UNCHANGED <<cfg, calls, work>> /\ stream.owed \in Nat /\ stream.errors \in Nat
      /\ ~cfg.skips => Told(0)
  BY DEF ProxmoxStream, PollStreams, Proxmox!PollFails, Proxmox!Close,
     Proxmox!Polling, Proxmox!Streaming, Receive, Cancel
<1>2. Located' /\ Placed'
  BY <1>1 DEF Located, At, Placed
<1>3. CASE /\ stream.chan = "open"
           /\ stream' = [[stream EXCEPT !.chan = "closed", !.out = "none", !.owed = 0]
                            EXCEPT !.errors = 0, !.known = FALSE]
  <2>1. /\ stream' \in PollStreams
        /\ stream'.chan = "closed" /\ stream'.cancelled = stream.cancelled
        /\ stream'.out = "none" /\ stream'.owed = 0 /\ stream'.known = FALSE
    BY <1>1, <1>3 DEF PollStreams, Events
  <2> QED  BY <1>1, <1>2, <1>3, <2>1
             DEF ProxmoxStream, FallsAreKept, StreamOK, StreamStep, Told, Events
<1>4. CASE stream' = [stream EXCEPT !.errors = stream.errors + 1]
  <2> DEFINE k == stream.errors + 1
  <2>1. k \in Nat /\ stream' = [stream EXCEPT !.errors = k]
    BY <1>1, <1>4
  <2> HIDE DEF k
  <2>2. /\ stream' \in PollStreams
        /\ stream'.chan = stream.chan /\ stream'.cancelled = stream.cancelled
        /\ stream'.out = stream.out /\ stream'.owed = stream.owed /\ stream'.known = stream.known
    BY <1>1, <2>1 DEF PollStreams
  <2> QED  BY <1>1, <1>2, <2>2
             DEF ProxmoxStream, FallsAreKept, StreamOK, StreamStep, Told
<1>5. CASE Receive
  <2> DEFINE n == IF stream.out = "stopped" /\ stream.owed > 0 THEN stream.owed - 1
                  ELSE stream.owed
  <2>1. n \in Nat
    BY <1>1
  <2>2. stream' = [stream EXCEPT !.out = "none", !.owed = n]
    BY <1>5 DEF Receive
  <2> HIDE DEF n
  <2>3. /\ stream' \in PollStreams
        /\ stream'.chan = stream.chan /\ stream'.cancelled = stream.cancelled
        /\ stream'.out = "none" /\ stream'.owed = n /\ stream'.known = stream.known
    BY <1>1, <2>1, <2>2 DEF PollStreams, Events
  <2> QED  BY <1>1, <1>2, <2>1, <2>3
             DEF ProxmoxStream, FallsAreKept, StreamOK, StreamStep, Told, Events
<1>6. CASE Cancel
  <2>1. stream' = [stream EXCEPT !.cancelled = TRUE] /\ stream.chan = "open"
    BY <1>6 DEF Cancel
  <2>2. /\ stream' \in PollStreams
        /\ stream'.chan = stream.chan /\ stream'.cancelled = TRUE
        /\ stream'.out = stream.out /\ stream'.owed = stream.owed /\ stream'.known = stream.known
    BY <1>1, <2>1 DEF PollStreams
  <2> QED  BY <1>1, <1>2, <2>1, <2>2
             DEF ProxmoxStream, FallsAreKept, StreamOK, StreamStep, Told
<1> QED
  BY <1>3, <1>4, <1>5, <1>6
     DEF Proxmox!PollFails, Proxmox!Close, Proxmox!Polling, Proxmox!Streaming, Proxmox!Closed

LEMMA ProxmoxPlatformStreams ==
  ASSUME CallsOK, ProxmoxInv, StreamOK, ProxmoxStream,
         \/ Proxmox!Settle \/ Proxmox!StartFails \/ Proxmox!StopFails \/ Proxmox!Operate
         \/ Proxmox!Scan \/ Proxmox!ScanSkips
  PROVE  ProxmoxStream' /\ StreamOK' /\ StreamStep
<1>1. /\ work \in ProxmoxWork /\ Located /\ Placed /\ FallsAreKept /\ stream' = stream
  BY DEF ProxmoxInv, ProxmoxStream, Proxmox!Settle, Proxmox!StartFails, Proxmox!StopFails,
     Proxmox!Operate, Proxmox!Scan, Proxmox!ScanSkips, Proxmox!Remember
<1>2. CASE Stay /\ (SamePlace \/ (Placed' /\ FallsAreKept'))
  <2>1. Located' /\ cfg' = cfg
    BY <1>1, <1>2, LocatedStays DEF Stay
  <2> QED  BY <1>1, <1>2, <2>1, ProxmoxQuiet
<1>3. CASE Proxmox!Scan \/ Proxmox!ScanSkips
  <2>1. PICK n : work' = [work EXCEPT !.cache = n]
    BY <1>3 DEF Proxmox!Scan, Proxmox!ScanSkips, Proxmox!Remember
  <2>2. SamePlace
    BY <1>1, <2>1 DEF SamePlace, ProxmoxWork
  <2>3. Stay
    BY <1>3, UnchangedStays DEF CallsOK, Proxmox!Scan, Proxmox!ScanSkips, Proxmox!Remember
  <2> QED  BY <1>2, <2>2, <2>3
<1>4. \/ Proxmox!Settle \/ Proxmox!StartFails \/ Proxmox!StopFails \/ Proxmox!Operate
      => Stay
  BY ProxmoxShapes DEF Proxmox!Settle, Proxmox!TaskEnds, Proxmox!StartFails,
     Proxmox!StopFails, Proxmox!Operate
<1>5. CASE Proxmox!Settle
  <2>1. Stay /\ cfg' = cfg
    BY <1>4, <1>5 DEF Stay
  <2>2. CASE work.task = "start" /\ Proxmox!TaskEnds
    <3>1. PICK p : work' = [work EXCEPT !.task = "none", !.up = TRUE, !.pending = p]
      BY <2>2 DEF Proxmox!TaskEnds
    <3>2. work'.node = work.node /\ work'.up = TRUE
      BY <1>1, <3>1 DEF ProxmoxWork
    <3>3. work.node # 0
      BY <1>1, <2>2 DEF Placed
    <3> QED  BY <1>2, <2>1, <3>2, <3>3 DEF Placed, FallsAreKept
  <2>3. CASE work.task = "stop" /\ Proxmox!TaskEnds
    <3> DEFINE f == Proxmox!Wants("stopped")
    <3>1. /\ f \in BOOLEAN /\ ("stopped" \in cfg.types => f)
          /\ work' = [work EXCEPT !.task = "none", !.up = FALSE, !.ip = FALSE, !.fell = f]
      BY <2>3 DEF Proxmox!TaskEnds, Proxmox!Wants
    <3> HIDE DEF f
    <3>2. work'.task = "none" /\ work'.up = FALSE /\ work'.fell = f
      BY <1>1, <3>1 DEF ProxmoxWork
    <3> QED  BY <1>2, <2>1, <3>1, <3>2 DEF Placed, FallsAreKept
  <2>4. CASE work' = [work EXCEPT !.ip = TRUE]
    <3>1. SamePlace
      BY <1>1, <2>4 DEF SamePlace, ProxmoxWork
    <3> QED  BY <1>2, <2>1, <3>1
  <2> QED  BY <1>5, <2>2, <2>3, <2>4 DEF Proxmox!Settle, Proxmox!TaskEnds
<1>6. CASE Proxmox!StartFails \/ Proxmox!StopFails
  <2>1. \/ \E p : work' = [work EXCEPT !.task = "none", !.pending = p]
        \/ work' = [work EXCEPT !.task = "none", !.lapse = TRUE]
    BY <1>6, Zenon DEF Proxmox!StartFails, Proxmox!StopFails
  <2>2. work'.node = work.node /\ work'.up = work.up /\ work'.task = "none"
        /\ work'.fell = work.fell
    BY <1>1, <2>1 DEF ProxmoxWork
  <2>3. Stay /\ cfg' = cfg
    BY <1>4, <1>6 DEF Stay
  <2> QED  BY <1>1, <1>2, <2>2, <2>3 DEF Placed, FallsAreKept
<1>7. CASE Proxmox!Operate
  <2>1. Stay /\ cfg' = cfg /\ work.task = "none"
    BY <1>4, <1>7 DEF Stay, Proxmox!Operate
  <2>2. CASE work' = [work EXCEPT !.up = FALSE, !.ip = FALSE, !.fell = Proxmox!Wants("stopped")]
    <3> DEFINE f == Proxmox!Wants("stopped")
    <3>1. /\ f \in BOOLEAN /\ ("stopped" \in cfg.types => f)
          /\ work' = [work EXCEPT !.up = FALSE, !.ip = FALSE, !.fell = f]
      BY <2>2 DEF Proxmox!Wants
    <3> HIDE DEF f
    <3>2. work'.task = work.task /\ work'.up = FALSE /\ work'.fell = f
      BY <1>1, <3>1 DEF ProxmoxWork
    <3> QED  BY <1>2, <2>1, <3>1, <3>2 DEF Placed, FallsAreKept
  <2>3. CASE /\ work.node # 0
             /\ work' = [work EXCEPT !.node = CHOOSE n \in Proxmox!Node : n # work.node]
    <3>1. PICK m : m = CHOOSE n \in Proxmox!Node : n # work.node
      OBVIOUS
    <3>2. m \in Proxmox!Node
      <4>1. \E n \in Proxmox!Node : n # work.node
        BY <1>1 DEF Proxmox!Node, ProxmoxWork
      <4> QED  BY <3>1, <4>1
    <3>3. work' = [work EXCEPT !.node = m] /\ m # 0
      BY <2>3, <3>1, <3>2 DEF Proxmox!Node
    <3>4. work'.node # 0 /\ work'.up = work.up /\ work'.fell = work.fell
      BY <1>1, <3>3 DEF ProxmoxWork
    <3> QED  BY <1>1, <1>2, <2>1, <3>4 DEF Placed, FallsAreKept
  <2>4. ASSUME ~work.up, NEW o, work' = [work EXCEPT !.node = o]
        PROVE  ProxmoxStream' /\ StreamOK' /\ StreamStep
    <3>1. work.up = FALSE
      BY <1>1, <2>4 DEF ProxmoxWork
    <3>2. work'.up = work.up /\ work'.fell = work.fell /\ work'.task = work.task
      BY <1>1, <2>4 DEF ProxmoxWork
    <3> QED  BY <1>1, <1>2, <2>1, <3>1, <3>2 DEF Placed, FallsAreKept
  <2> QED  BY <1>7, <2>2, <2>3, <2>4 DEF Proxmox!Operate, Proxmox!Nowhere
<1> QED  BY <1>3, <1>5, <1>6, <1>7

LEMMA ProxmoxStreams ==
  ASSUME CallsOK, ProxmoxInv, StreamOK, ProxmoxStream, Next
  PROVE  ProxmoxStream' /\ StreamOK' /\ StreamStep
<1>1. cfg.provider = "proxmox"
  BY DEF ProxmoxInv, ProxmoxConfig
<1>2. ASSUME NEW c \in Caller, NEW op \in {"start", "stop"}, Begin(c, op)
      PROVE  ProxmoxStream' /\ StreamOK' /\ StreamStep
  <2>1. SamePlace /\ cfg' = cfg /\ stream' = stream
    BY <1>2 DEF Begin, SamePlace
  <2>2. Located'
    BY <1>2, BeginOK DEF ProxmoxStream, Located, At
  <2> QED  BY <2>1, <2>2, ProxmoxQuiet
<1> QED
  BY <1>1, <1>2, ProxmoxCallStreams, ProxmoxInspectStreams, ProxmoxPolls, ProxmoxSeeds,
     ProxmoxServes, ProxmoxPlatformStreams
     DEF Next, Is, CallStep, CallFails, Serve, Poll, Close, Scan, Inspect, Settle,
         Environment, Proxmox!Environment, Proxmox!CallStep

-----------------------------------------------------------------------------
StreamInv ==
    /\ CallsOK /\ StreamOK
    /\ \/ DockerInv /\ DockerStream
       \/ SwarmInv /\ SwarmStream
       \/ KubernetesInv /\ KubernetesStream
       \/ SystemdInv /\ SystemdStream
       \/ ProxmoxInv /\ ProxmoxStream

LEMMA StreamInvNext ==
  ASSUME StreamInv, [Next]_vars
  PROVE  StreamInv' /\ StreamStep
<1>1. CASE Next
  BY <1>1, DockerStep, SwarmStep, KubernetesStep, SystemdStep, ProxmoxStep,
     DockerStreams, SwarmStreams, KubernetesStreams, SystemdStreams, ProxmoxStreams
     DEF StreamInv
<1>2. CASE UNCHANGED vars
  <2>1. Inv'
    BY <1>2, InvNext DEF StreamInv, Inv
  <2>2. UNCHANGED <<cfg, calls, asked, work, stream>>
    BY <1>2 DEF vars
  <2>3. StreamOK' /\ StreamStep
    BY <2>2 DEF StreamInv, StreamOK, StreamStep
  <2>4. /\ DockerInv' <=> Inv' /\ cfg.provider = "docker"
        /\ SwarmInv' <=> Inv' /\ cfg.provider = "swarm"
        /\ KubernetesInv' <=> Inv' /\ cfg.provider = "kubernetes"
        /\ SystemdInv' <=> Inv' /\ cfg.provider = "systemd"
        /\ ProxmoxInv' <=> Inv' /\ cfg.provider = "proxmox"
    BY <2>1, <2>2 DEF Inv, DockerInv, SwarmInv, KubernetesInv, SystemdInv, ProxmoxInv,
       DockerConfig, SwarmConfig, KubernetesConfig, SystemdConfig, ProxmoxConfig
  <2>5. /\ DockerStream => DockerStream'
        /\ SwarmStream => SwarmStream'
        /\ KubernetesStream => KubernetesStream'
        /\ SystemdStream => SystemdStream'
        /\ ProxmoxStream => ProxmoxStream'
    <3>1. DockerStream => DockerStream'
      BY <2>2 DEF DockerStream, MobyInv, Told
    <3>2. /\ SwarmStops' = SwarmStops /\ Drops' = Drops /\ UnitStops' = UnitStops
          /\ UnitMessages' = UnitMessages
      BY <2>2 DEF SwarmStops, Swarm!Falls, Swarm!Wants, Drops, Kubernetes!Falls,
         Kubernetes!Wants, UnitStops, UnitMessages, Stopping, Systemd!Wants
    <3>3. SwarmStream => SwarmStream'
      BY <2>2, <3>2 DEF SwarmStream, MobyInv, Told
    <3>4. KubernetesStream => KubernetesStream'
      BY <2>2, <3>2 DEF KubernetesStream, KubernetesOwes, Told
    <3>5. SystemdStream => SystemdStream'
      BY <2>2, <3>2 DEF SystemdStream, Told, FallIsKept, Systemd!Wants
    <3>6. ProxmoxStream => ProxmoxStream'
      BY <2>2 DEF ProxmoxStream, Told, Located, At, Placed, FallsAreKept
    <3> QED  BY <3>1, <3>3, <3>4, <3>5, <3>6
  <2>6. /\ DockerInv => cfg.provider = "docker"
        /\ SwarmInv => cfg.provider = "swarm"
        /\ KubernetesInv => cfg.provider = "kubernetes"
        /\ SystemdInv => cfg.provider = "systemd"
        /\ ProxmoxInv => cfg.provider = "proxmox"
    BY DEF DockerInv, SwarmInv, KubernetesInv, SystemdInv, ProxmoxInv,
       DockerConfig, SwarmConfig, KubernetesConfig, SystemdConfig, ProxmoxConfig
  <2>7. CallsOK'
    BY <2>1 DEF Inv
  <2> QED  BY <2>1, <2>3, <2>4, <2>5, <2>6, <2>7 DEF StreamInv
<1> QED  BY <1>1, <1>2

LEMMA StreamInvInit ==
  ASSUME Init
  PROVE  /\ StreamInv /\ stream.cancelled = FALSE /\ stream.out = "none"
         /\ cfg.types # {} => stream.chan = "open"
<1> DEFINE ch == IF cfg.types = {} THEN "closed" ELSE "open"
<1>1. Inv /\ cfg \in Configs /\ ch \in {"open", "closed"} /\ (cfg.types = {} => ch = "closed")
      /\ (cfg.types # {} => ch = "open")
  BY InvInit DEF Init
<1>2. NewStream.chan = ch
  BY DEF NewStream
<1>3. ASSUME NEW S PROVE Cardinality(Stops(<<>>, S)) = 0
  BY StopsOfNothing
<1> HIDE DEF ch
<1>4. CASE DockerInv \/ SwarmInv
  <2>1. stream = [chan |-> ch, cancelled |-> FALSE, out |-> "none", owed |-> 0,
                  conn |-> "dial", wire |-> <<>>]
    BY <1>2, <1>4 DEF Init, Is, DockerInv, SwarmInv, DockerConfig, SwarmConfig,
       Docker!InitDocker, Swarm!InitSwarm, Docker!NewMobyStream, Swarm!NewMobyStream,
       Docker!NewStream, Swarm!NewStream, NewStream
  <2>2. \A T, S : MobyInv(T, S)
    BY <1>1, <1>3, <2>1 DEF MobyInv, MobyStream, Told, Events
  <2>3. StreamOK /\ stream.cancelled = FALSE /\ stream.out = "none"
    BY <1>1, <2>1 DEF StreamOK, Events
  <2>4. stream.chan = ch
    BY <2>1
  <2> QED  BY <1>1, <1>4, <2>2, <2>3, <2>4 DEF StreamInv, Inv, DockerStream, SwarmStream
<1>5. CASE KubernetesInv
  <2>1. PICK w : w = <<"off">> /\ w \in Seq(Versions) /\ Len(w) = 1 /\ w[1] = "off"
    <3>1. "off" \in Versions
      BY DEF Versions
    <3>2. <<"off">> \in Seq(Versions) /\ Len(<<"off">>) = 1 /\ <<"off">>[1] = "off"
      BY <3>1
    <3> QED  BY <3>2
  <2>2. stream = [chan |-> ch, cancelled |-> FALSE, out |-> "none", owed |-> 0,
                  wire |-> w, known |-> "gone", todo |-> <<>>]
    BY <1>2, <1>5, <2>1 DEF Init, Is, KubernetesInv, KubernetesConfig,
       Kubernetes!InitKubernetes, Kubernetes!NewStream, NewStream
  <2>3. /\ stream \in VersionStreams /\ stream.owed = 0 /\ stream.out = "none"
        /\ stream.wire = w /\ stream.known = "gone" /\ stream.todo = <<>>
        /\ stream.chan = ch /\ stream.cancelled = FALSE
    BY <1>1, <2>1, <2>2 DEF VersionStreams, Versions, Events
  <2>4. <<"gone", "off">> \notin Drops
    BY DEF Drops, Kubernetes!Falls
  <2>5. StopsAfter("gone", w, Drops) = {}
    <3>1. ASSUME NEW i \in 1..Len(w) PROVE i = 1 /\ w[i] = "off"
      BY <2>1, <3>1
    <3>2. ASSUME NEW i \in StopsAfter("gone", w, Drops) PROVE FALSE
      <4>1. i = 1 /\ w[i] = "off" /\ <<IF i = 1 THEN "gone" ELSE w[i - 1], w[i]>> \in Drops
        BY <3>1, <3>2 DEF StopsAfter
      <4>2. <<IF i = 1 THEN "gone" ELSE w[i - 1], w[i]>> = <<"gone", "off">>
        BY <4>1
      <4> QED  BY <2>4, <4>1, <4>2
    <3> QED  BY <3>2
  <2>6. KubernetesOwes(Drops) = 0
    <3>1. Cardinality(Stops(stream.todo, {"stopped"})) = 0
      BY <1>3, <2>3
    <3>2. Cardinality(StopsAfter(stream.known, stream.wire, Drops)) = 0
      BY <2>3, <2>5, FS_EmptySet
    <3> QED  BY <3>1, <3>2 DEF KubernetesOwes
  <2>7. StreamOK /\ KubernetesStream
    <3>1. Told(KubernetesOwes(Drops))
      BY <2>3, <2>6 DEF Told
    <3>2. StreamOK
      BY <1>1, <2>3 DEF StreamOK, Events
    <3> QED  BY <2>3, <3>1, <3>2 DEF KubernetesStream
  <2> QED  BY <1>1, <1>5, <2>3, <2>7 DEF StreamInv, Inv
<1>6. CASE SystemdInv
  <2>1. stream = [chan |-> ch, cancelled |-> FALSE, out |-> "none", owed |-> 0,
                  old |-> "unknown", wire |-> <<>>, due |-> TRUE]
    BY <1>2, <1>6 DEF Init, Is, SystemdInv, SystemdConfig,
       Systemd!InitSystemd, Systemd!NewStream, NewStream
  <2>3. "unknown" \notin UnitStates
    BY DEF UnitStates
  <2>2. StreamOK /\ SystemdStream /\ stream.cancelled = FALSE /\ stream.out = "none"
        /\ stream.chan = ch
    BY <1>1, <1>3, <2>1, <2>3
       DEF StreamOK, SystemdStream, UnitStreams, Told, FallIsKept, Events
  <2> QED  BY <1>1, <1>6, <2>2 DEF StreamInv, Inv
<1>7. CASE ProxmoxInv
  <2>1. Proxmox!InitProxmox
    BY <1>7 DEF Init, Is, ProxmoxInv, ProxmoxConfig
  <2>2. /\ stream = [chan |-> ch, cancelled |-> FALSE, out |-> "none", owed |-> 0,
                     seeded |-> FALSE, known |-> FALSE, errors |-> 0]
        /\ work.node = 1
        /\ \A c \in Caller : calls[c] = NoCall
    BY <1>2, <2>1 DEF Proxmox!InitProxmox, Proxmox!NewStream, NewStream, Proxmox!NoCall, NoCall
  <2>3. Located /\ Placed /\ FallsAreKept
    BY <2>2, NoCallType DEF Located, At, Placed, FallsAreKept
  <2>4. StreamOK /\ ProxmoxStream /\ stream.cancelled = FALSE /\ stream.out = "none"
        /\ stream.chan = ch
    BY <1>1, <2>2, <2>3 DEF StreamOK, ProxmoxStream, PollStreams, Told, Events
  <2> QED  BY <1>1, <1>7, <2>4 DEF StreamInv, Inv
<1> QED  BY <1>1, <1>4, <1>5, <1>6, <1>7 DEF Inv

(* A stopped event on offer stands for a stop of the workload that has not *)
(* been told yet, whatever interleaving of calls, platform, drops of the   *)
(* connection and polls led to it.  A unit of systemd is told as stopped   *)
(* when it went down since the poll before or, which the code does too, is *)
(* down at the first poll that sees it or down in another way than before; *)
(* for Proxmox the theorem says nothing when scans may leave out a node.   *)
THEOREM StopsAreReal == Spec => []StoppedEventIsReal
<1>1. Init => StreamInv
  BY StreamInvInit
<1>2. StreamInv /\ [Next]_vars => StreamInv'
  BY StreamInvNext
<1>3. ASSUME StreamInv PROVE StoppedEventIsReal
  <2>6. Is("systemd") => SystemdInv /\ SystemdStream
    BY <1>3 DEF StreamInv, Is, DockerInv, SwarmInv, KubernetesInv, ProxmoxInv,
       DockerConfig, SwarmConfig, KubernetesConfig, ProxmoxConfig
  <2>7. stream.out = "stopped" /\ Is("systemd") => stream.due
    BY <2>6 DEF SystemdStream
  <2>1. CASE DockerStream
    <3>1. Cardinality(Stops(stream.wire, {"die"})) \in Nat
      BY <2>1, StopsType DEF DockerStream, MobyInv, MobyStream
    <3> QED  BY <2>1, <2>7, <3>1 DEF DockerStream, MobyInv, Told, StoppedEventIsReal
  <2>2. CASE SwarmStream
    <3>1. Cardinality(Stops(stream.wire, SwarmStops)) \in Nat
      BY <2>2, StopsType DEF SwarmStream, MobyInv, MobyStream
    <3> QED  BY <2>2, <2>7, <3>1 DEF SwarmStream, MobyInv, Told, StoppedEventIsReal
  <2>3. CASE KubernetesStream
    <3>1. /\ stream.wire \in Seq(Versions) /\ stream.known \in Versions
          /\ stream.todo \in Seq(EventTypes)
      BY <2>3 DEF KubernetesStream, VersionStreams
    <3>2. /\ Cardinality(StopsAfter(stream.known, stream.wire, Drops)) \in Nat
          /\ Cardinality(Stops(stream.todo, {"stopped"})) \in Nat
      BY <3>1, StopsType, StopsAfterType
    <3> QED  BY <2>3, <2>7, <3>2 DEF KubernetesStream, KubernetesOwes, Told, StoppedEventIsReal
  <2>4. CASE SystemdStream
    <3>1. Cardinality(Stops(stream.wire, UnitStops)) \in Nat
      BY <2>4, StopsType DEF SystemdStream, UnitStreams
    <3> QED  BY <2>4, <2>7, <3>1 DEF SystemdStream, Told, StoppedEventIsReal
  <2>5. CASE ProxmoxInv /\ ProxmoxStream
    <3>1. Is("proxmox") /\ cfg.skips \in BOOLEAN
      BY <2>5 DEF ProxmoxInv, ProxmoxConfig, Is
    <3> QED  BY <2>5, <2>7, <3>1 DEF ProxmoxStream, Told, StoppedEventIsReal
  <2> QED  BY <1>3, <2>1, <2>2, <2>3, <2>4, <2>5 DEF StreamInv
<1> QED  BY <1>1, <1>2, <1>3, PTL DEF Spec

(* Every step of a provider is, for the consumer of its events, a step of  *)
(* the InstanceEventStream contract or none: one event at a time, the      *)
(* channel closed at most once, nothing sent afterwards.  This is          *)
(* KeepsStreamContract without its fairness.                               *)
THEOREM StreamsKeepContract ==
  Spec => Contract!Init /\ [][Contract!Next]_(Contract!vars)
<1>1. Init => StreamInv /\ Contract!Init
  BY StreamInvInit DEF Contract!Init, StreamInv, StreamOK
<1>2. StreamInv /\ [Next]_vars => StreamInv'
  BY StreamInvNext
<1>3. ASSUME StreamInv, [Next]_vars
      PROVE  [Contract!Next]_(Contract!vars)
  <2>1. StreamStep /\ StreamOK /\ StreamOK' /\ cfg' = cfg
    BY <1>3, StreamInvNext DEF StreamInv, StreamStep
  <2>2. CASE cfg.types = {}
    <3>1. stream'.cancelled = stream.cancelled /\ stream'.out = stream.out
      BY <2>1, <2>2 DEF StreamOK
    <3> QED  BY <2>1, <2>2, <3>1 DEF Contract!vars, Is
  <2>3. CASE cfg.types # {}
    <3>1. CASE stream'.chan # stream.chan
      BY <2>1, <2>3, <3>1 DEF StreamStep, Contract!Next, Contract!Close, Is
    <3>2. CASE stream'.chan = stream.chan /\ stream'.cancelled # stream.cancelled
      <4>1. stream'.cancelled = TRUE /\ stream.cancelled = FALSE /\ stream'.out = stream.out
        BY <2>1, <3>2 DEF StreamStep, StreamOK
      <4>2. CASE Is("kubernetes")
        BY <2>1, <2>3, <3>2, <4>1, <4>2 DEF Contract!vars, Is
      <4>3. CASE ~Is("kubernetes")
        BY <2>1, <2>3, <3>2, <4>1, <4>3 DEF Contract!Next, Contract!Cancel, Is
      <4> QED  BY <4>2, <4>3
    <3>3. CASE stream'.chan = stream.chan /\ stream'.cancelled = stream.cancelled
      <4>1. CASE stream'.out = stream.out
        BY <2>1, <2>3, <3>3, <4>1 DEF Contract!vars, Is
      <4>2. CASE stream'.out # stream.out /\ stream'.out = "none"
        BY <2>1, <2>3, <3>3, <4>2 DEF Contract!Next, Contract!Receive, Is
      <4>3. CASE stream'.out # stream.out /\ stream'.out # "none"
        BY <2>1, <2>3, <3>3, <4>3 DEF StreamStep, EventTypes, Contract!Next, Contract!Send, Is
      <4> QED  BY <4>1, <4>2, <4>3
    <3> QED  BY <3>1, <3>2, <3>3
  <2> QED  BY <2>2, <2>3
<1> QED  BY <1>1, <1>2, <1>3, PTL DEF Spec
=============================================================================
