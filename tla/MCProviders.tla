---------------------------- MODULE MCProviders -----------------------------
(***************************************************************************)
(* The configurations for model checking Providers: for every provider one *)
(* for each option that changes what its code does.                        *)
(***************************************************************************)
EXTENDS Providers, TLC

All == {"created", "started", "stopped", "removed"}

(* A configuration that differs from base; with a subscription, one        *)
(* goroutine makes all calls, or none does where the operators do it all.  *)
With(base, over) ==
    over @@ [base EXCEPT !.callers = IF "types" \in DOMAIN over
                                     THEN {CHOOSE c \in Caller : TRUE} ELSE @]

Container ==
    [provider |-> "docker", podman |-> FALSE, strategy |-> "stop",
     honor |-> TRUE, restart |-> FALSE, check |-> TRUE, idle |-> 0,
     activeRes |-> {}, idleRes |-> {}, invalid |-> {}, types |-> {},
     callers |-> Caller]

Service ==
    [provider |-> "swarm", replicated |-> TRUE, active |-> 2, idle |-> 0,
     activeRes |-> {}, idleRes |-> {}, invalid |-> {}, types |-> {},
     callers |-> Caller]

Deployment ==
    [provider |-> "kubernetes", kind |-> "deployment", redis |-> FALSE,
     first |-> FALSE, labelled |-> FALSE, active |-> 1, named |-> 1,
     idle |-> 0, activeRes |-> {}, idleRes |-> {}, invalid |-> {},
     types |-> {}, flaky |-> FALSE,
     callers |-> Caller]

Unit ==
    [provider |-> "systemd", match |-> TRUE, edited |-> FALSE, idle |-> 0,
     activeRes |-> {}, idleRes |-> {}, invalid |-> {}, types |-> {},
     callers |-> Caller]

Lxc == [provider |-> "proxmox", skips |-> FALSE, types |-> {},
     callers |-> Caller]

DockerConfigs == {
    Container,
    With(Container, [strategy |-> "pause", restart |-> TRUE]),
    With(Container, [podman |-> TRUE, honor |-> FALSE, types |-> {"stopped"}]),
    With(Container, [types |-> All]),
    With(Container, [strategy |-> "pause", restart |-> TRUE, check |-> FALSE,
                     types |-> {"stopped"}]),
    With(Container, [idle |-> 1, activeRes |-> {"cpu", "io"},
                     idleRes |-> {"cpu"}, invalid |-> {"io"}]),
    With(Container, [idle |-> 1, activeRes |-> {"cpu"}, idleRes |-> {"cpu"},
                     invalid |-> {"cpu"}]),
    With(Container, [activeRes |-> {"cpu"}]),
    With(Container, [idle |-> 1])}

SwarmConfigs == {
    With(Service, [activeRes |-> {"cpu"}, idleRes |-> {"cpu"}]),
    With(Service, [replicated |-> FALSE]),
    With(Service, [idle |-> 1, active |-> 1, activeRes |-> {"cpu", "io"},
                   invalid |-> {"io"}]),
    With(Service, [active |-> 1, types |-> {"stopped"}]),
    With(Service, [active |-> 1, types |-> All])}

KubernetesConfigs == {
    With(Deployment, [named |-> 2, first |-> TRUE, activeRes |-> {"cpu"}]),
    With(Deployment, [idle |-> 1, labelled |-> TRUE, active |-> 2,
                      activeRes |-> {"cpu"}, idleRes |-> {"cpu"}]),
    With(Deployment, [activeRes |-> {"cpu"}, invalid |-> {"cpu"}]),
    With(Deployment, [types |-> {"stopped"}]),
    With(Deployment, [kind |-> "statefulset", redis |-> TRUE]),
    With(Deployment, [kind |-> "statefulset", redis |-> TRUE, flaky |-> TRUE]),
    With(Deployment, [kind |-> "statefulset", redis |-> TRUE,
                      activeRes |-> {"cpu"}]),
    With(Deployment, [kind |-> "statefulset", redis |-> TRUE, idle |-> 1]),
    With(Deployment, [kind |-> "statefulset", activeRes |-> {"cpu"}]),
    With(Deployment, [kind |-> "statefulset", types |-> All]),
    With(Deployment, [kind |-> "cnpgcluster", active |-> 2]),
    With(Deployment, [kind |-> "cnpgcluster", types |-> All])}

SystemdConfigs == {
    With(Unit, [edited |-> TRUE]),
    With(Unit, [idle |-> 1, activeRes |-> {"cpu"}, idleRes |-> {"cpu", "io"}]),
    With(Unit, [activeRes |-> {"cpu"}, idleRes |-> {"cpu", "io"},
                invalid |-> {"cpu"}]),
    With(Unit, [types |-> {"stopped"}, callers |-> {}]),
    With(Unit, [types |-> All, callers |-> {}]),
    With(Unit, [match |-> FALSE, types |-> All])}

ProxmoxConfigs == {
    Lxc,
    With(Lxc, [skips |-> TRUE, types |-> All]),
    With(Lxc, [types |-> {"stopped"}]),
    With(Lxc, [types |-> {"created"}])}

MCConfigs ==
    DockerConfigs \cup SwarmConfigs \cup KubernetesConfigs
        \cup SystemdConfigs \cup ProxmoxConfigs

(* A container without idle replicas but with limits for its active        *)
(* profile, and an LXC container: for what the documentation says of them. *)
LimitedContainer == {With(Container, [activeRes |-> {"cpu"}])}

PlainLxc == {Lxc}
=============================================================================
