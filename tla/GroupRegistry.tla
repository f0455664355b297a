--------------------------- MODULE GroupRegistry ----------------------------
(***************************************************************************)
(* pkg/sablier/group_registry.go, and the goroutine of group_watch.go that *)
(* keeps it in step with the labels at the provider: it handles created,   *)
(* updated and removed events, and every 30 seconds reads all groups and   *)
(* applies them, instance by instance.  Requests for a group read the      *)
(* registry between any two of these steps.                                *)
(*                                                                         *)
(* Nothing depends on the order of a group's members, so the list of them  *)
(* is kept as a bag: how often each instance is in it.                     *)
(*                                                                         *)
(* The anti-affinity index, which the same goroutine keeps, is in          *)
(* AntiAffinity.tla.                                                       *)
(***************************************************************************)
EXTENDS Naturals, Sequences

CONSTANTS
    Instance,
    Group,
    Changing,    \* instances that are created, relabelled and removed
    MaxNotices,  \* bound on the undelivered events
    Faults       \* subset of {"notice", "list", "skip"}

ASSUME GroupRegistryAssumption ==
    /\ Changing \subseteq Instance
    /\ MaxNotices \in Nat
    /\ Faults \subseteq {"notice", "list", "skip"}

VARIABLES
    data,     \* groupRegistry.data: the members of the groups that have any
    present,  \* the instances the provider has
    labels,   \* and their groups
    notices,  \* undelivered events
    watch     \* GroupWatch: what reconcileGroups has read and not applied yet

vars == <<data, present, labels, notices, watch>>

Event == [type : {"created", "updated", "removed"}, inst : Instance,
          groups : SUBSET Group]

(* In "sync", desired holds newInstanceToGroups and todo the instances     *)
(* left; in "prune", todo holds the rest of InstanceSnapshot.              *)
Watcher == [pc : {"idle", "sync", "prune"}, desired : [Instance -> SUBSET Group],
            todo : SUBSET Instance]

TypeOK ==
    /\ DOMAIN data \subseteq Group
    /\ \A g \in DOMAIN data : data[g] \in [Instance -> Nat]
    /\ present \subseteq Instance
    /\ labels \in [Instance -> SUBSET Group]
    /\ notices \in Seq(Event)
    /\ watch \in Watcher

NoGroups == [i \in Instance |-> {}]

IdleWatch == [pc |-> "idle", desired |-> NoGroups, todo |-> {}]

-----------------------------------------------------------------------------
(* groupRegistry.  A group that is not in the map has no members. *)

NoMembers == [i \in Instance |-> 0]

Members(d, g) == IF g \in DOMAIN d THEN d[g] ELSE NoMembers

groupsOf(d, i) == {g \in DOMAIN d : d[g][i] > 0}

(* append, and the loop of removeFromGroup, which drops every occurrence. *)
With(m, i) == [m EXCEPT ![i] = @ + 1]

Without(m, i) == [m EXCEPT ![i] = 0]

(* The map with members m for the groups gs; removeFromGroup deletes a     *)
(* group that has lost its last member.                                    *)
WithMembers(m, gs) == [g \in {h \in gs : m[h] # NoMembers} |-> m[g]]

(* Mutant of sync: memberships are added without a look at the others. *)
SyncAppends(d, i, groups) ==
    LET gs == DOMAIN d \cup groups
    IN  WithMembers([g \in gs |-> IF g \in groups THEN With(Members(d, g), i)
                                  ELSE Without(Members(d, g), i)], gs)

(* groupRegistry.Sync: the instance belongs to exactly these groups. *)
sync(d, i, groups) ==
    LET gs == DOMAIN d \cup groups
    IN  WithMembers([g \in gs |->
            IF g \in groups \ groupsOf(d, i) THEN With(Members(d, g), i)
            ELSE IF g \in groupsOf(d, i) \ groups THEN Without(d[g], i)
            ELSE d[g]], gs)

(* groupRegistry.Remove *)
remove(d, i) == sync(d, i, {})

(* groupRegistry.Set: the registry is what the list says. *)
set(list) ==
    WithMembers([g \in Group |->
        [i \in Instance |-> IF g \in list[i] THEN 1 ELSE 0]], Group)

(* The labels at the provider. *)
Provided == [i \in Instance |-> IF i \in present THEN labels[i] ELSE {}]

(* The lists provider.InstanceGroups may return as a success.  Proxmox     *)
(* leaves out the containers of a node that does not answer, systemd the   *)
(* units that are not loaded or whose file cannot be read; neither says so *)
(* (fault "skip").                                                         *)
InstanceGroups ==
    {[i \in Instance |-> IF i \in skipped THEN {} ELSE Provided[i]] :
        skipped \in IF "skip" \in Faults THEN SUBSET present ELSE {{}}}

(* What is in the registry. *)
Registered == [i \in Instance |-> groupsOf(data, i)]

(* start.go: the initial scan fills the registry (groupRegistry.Set), or   *)
(* fails; GroupWatch begins with a reconciliation of its own.              *)
Init ==
    /\ present = Instance
    /\ labels \in [Instance -> SUBSET Group]
    /\ notices = << >>
    /\ watch = IdleWatch
    /\ \/ \E list \in InstanceGroups : data = set(list)
       \/ "list" \in Faults /\ data = << >>

-----------------------------------------------------------------------------
(* The provider. *)

Notify(type, i, groups) ==
    \/ /\ Len(notices) < MaxNotices
       /\ notices' = Append(notices, [type |-> type, inst |-> i, groups |-> groups])
    \/ "notice" \in Faults /\ UNCHANGED notices

Create(i, groups) ==
    /\ i \in Changing \ present
    /\ present' = present \cup {i}
    /\ labels' = [labels EXCEPT ![i] = groups]
    /\ Notify("created", i, groups)
    /\ UNCHANGED <<data, watch>>

Relabel(i, groups) ==
    /\ i \in Changing \cap present
    /\ groups # labels[i]
    /\ labels' = [labels EXCEPT ![i] = groups]
    /\ Notify("updated", i, groups)
    /\ UNCHANGED <<data, present, watch>>

Destroy(i) ==
    /\ i \in Changing \cap present
    /\ present' = present \ {i}
    /\ labels' = [labels EXCEPT ![i] = {}]
    /\ Notify("removed", i, {})
    /\ UNCHANGED <<data, watch>>

-----------------------------------------------------------------------------
(* GroupWatch. *)

(* handleGroupEvent: a created instance without groups is not looked up,   *)
(* an updated one without groups, or a removed one, leaves every group.    *)
HandleGroupEvent ==
    /\ watch.pc = "idle"
    /\ notices # << >>
    /\ LET e == Head(notices)
       IN  data' = IF e.type = "created" /\ e.groups = {} THEN data
                   ELSE IF e.type = "removed" \/ e.groups = {} THEN remove(data, e.inst)
                   ELSE sync(data, e.inst, e.groups)
    /\ notices' = Tail(notices)
    /\ UNCHANGED <<present, labels, watch>>

(* reconcileGroups reads the groups; the registry stays as it is if that   *)
(* fails.                                                                  *)
ReadGroups ==
    /\ watch.pc = "idle"
    /\ \E list \in InstanceGroups :
          watch' = [pc |-> "sync", desired |-> list,
                    todo |-> {i \in Instance : list[i] # {}}]
    /\ UNCHANGED <<data, present, labels, notices>>

(* Mutant of SyncNext: the instance leaves its groups before it joins the  *)
(* new ones.                                                               *)
SyncInTwoSteps(i) ==
    /\ watch.pc = "sync"
    /\ i \in watch.todo
    /\ IF groupsOf(data, i) = {}
       THEN /\ data' = sync(data, i, watch.desired[i])
            /\ watch' = [watch EXCEPT !.todo = @ \ {i}]
       ELSE data' = remove(data, i) /\ UNCHANGED watch
    /\ UNCHANGED <<present, labels, notices>>

(* One iteration of the first loop. *)
SyncNext(i) ==
    /\ watch.pc = "sync"
    /\ i \in watch.todo
    /\ data' = sync(data, i, watch.desired[i])
    /\ watch' = [watch EXCEPT !.todo = @ \ {i}]
    /\ UNCHANGED <<present, labels, notices>>

(* Mutant of SyncEnd: complete removals are not detected. *)
SyncEndNoPrune ==
    /\ watch.pc = "sync"
    /\ watch.todo = {}
    /\ watch' = IdleWatch
    /\ UNCHANGED <<data, present, labels, notices>>

(* The end of the first loop, and InstanceSnapshot for the second. *)
SyncEnd ==
    /\ watch.pc = "sync"
    /\ watch.todo = {}
    /\ watch' = [watch EXCEPT !.pc = "prune",
                    !.todo = {i \in Instance : Registered[i] # {} /\ watch.desired[i] = {}}]
    /\ UNCHANGED <<data, present, labels, notices>>

(* One iteration of the second loop: i is in no group any more. *)
Prune(i) ==
    /\ watch.pc = "prune"
    /\ i \in watch.todo
    /\ data' = remove(data, i)
    /\ watch' = [watch EXCEPT !.todo = @ \ {i}]
    /\ UNCHANGED <<present, labels, notices>>

ReconcileEnd ==
    /\ watch.pc = "prune"
    /\ watch.todo = {}
    /\ watch' = IdleWatch
    /\ UNCHANGED <<data, present, labels, notices>>

ReconcileStep ==
    \/ \E i \in Instance : SyncNext(i) \/ Prune(i)
    \/ SyncEnd
    \/ ReconcileEnd

Next ==
    \/ \E i \in Instance : \/ \E groups \in SUBSET Group : Create(i, groups) \/ Relabel(i, groups)
                           \/ Destroy(i)
    \/ HandleGroupEvent
    \/ ReadGroups
    \/ ReconcileStep

SafetySpec == Init /\ [][Next]_vars

(* The goroutine runs.  Its select chooses at random between an event and  *)
(* the ticker, and a call of InstanceGroups returns a list, complete or    *)
(* not, now and then.                                                      *)
Fairness ==
    /\ WF_vars(ReconcileStep)
    /\ SF_vars(HandleGroupEvent)
    /\ SF_vars(ReadGroups)

Spec == SafetySpec /\ Fairness

-----------------------------------------------------------------------------
(* Properties. *)

(* RequestSessionGroup relies on it: a group that is found has a member,   *)
(* and starts none of them twice.                                          *)
GroupsAreFit ==
    \A g \in DOMAIN data :
        /\ \E i \in Instance : data[g][i] > 0
        /\ \A i \in Instance : data[g][i] <= 1

(* The list that is being applied leaves i out although i has labels. *)
Omitted(i) == watch.pc # "idle" /\ watch.desired[i] = {} /\ labels[i] # {}

(* An instance whose labels do not change and that is in its groups stays  *)
(* in all of them through every step, whatever happens to the others: no   *)
(* request for a group misses it in the middle of a reconciliation.  The   *)
(* only thing that takes it out is the pruning after a list that left it   *)
(* out without an error.                                                   *)
MembersAreKept ==
    [][\A i \in Instance \ Changing :
          Registered[i] = labels[i] /\ ~Omitted(i) => Registered'[i] = labels[i]]_vars

(* From some time on the labels stay and the lists that are read are       *)
(* complete.                                                               *)
Steady ==
    <>[][/\ UNCHANGED <<present, labels>>
         /\ ReadGroups => watch'.desired = Provided]_vars

(* Events may be lost, late, or overtaken by a reconciliation, and lists   *)
(* may have left instances out: once the labels stay as they are and the   *)
(* lists are complete, the registry comes to agree with the labels.        *)
Converges == Steady => <>[](Registered = Provided)
=============================================================================
