------------------------ MODULE GroupRegistryProofs -------------------------
(***************************************************************************)
(* Proofs about GroupRegistry.tla, for any instances and groups and        *)
(* whatever events are lost: a group that is found is fit to be requested, *)
(* and an instance whose labels stay leaves its groups only by a list that *)
(* left it out.                                                            *)
(***************************************************************************)
EXTENDS GroupRegistry, TLAPS

(* What a registry is, as a value. *)
Registry(d) ==
    /\ DOMAIN d \subseteq Group
    /\ \A g \in DOMAIN d : d[g] \in [Instance -> Nat]
    /\ d = [g \in DOMAIN d |-> d[g]]

(* GroupsAreFit, of a value. *)
Fit(d) ==
    \A g \in DOMAIN d :
        /\ \E i \in Instance : d[g][i] > 0
        /\ \A i \in Instance : d[g][i] <= 1

(* A list that is not empty has a member. *)
LEMMA SomeMember ==
    ASSUME NEW m \in [Instance -> Nat], m # NoMembers
    PROVE  \E i \in Instance : m[i] > 0
<1>1. PICK i \in Instance : m[i] # 0
  BY DEF NoMembers
<1>2. QED
  BY <1>1

(* groupRegistry.Sync, group by group: the lists it leaves. *)
LEMMA SyncLists ==
    ASSUME NEW d, Registry(d), NEW i \in Instance, NEW groups \in SUBSET Group
    PROVE  /\ Registry(sync(d, i, groups))
           /\ \A g \in DOMAIN sync(d, i, groups) :
                /\ sync(d, i, groups)[g] # NoMembers
                /\ sync(d, i, groups)[g] =
                    IF g \in groups \ groupsOf(d, i) THEN With(Members(d, g), i)
                    ELSE IF g \in groupsOf(d, i) \ groups THEN Without(d[g], i)
                    ELSE d[g]
           /\ groups \subseteq DOMAIN sync(d, i, groups)
           /\ \A g \in DOMAIN d : \A j \in Instance \ {i} :
                d[g][j] > 0 => g \in DOMAIN sync(d, i, groups)
<1> DEFINE gs == DOMAIN d \cup groups
           m == [g \in gs |->
                    IF g \in groups \ groupsOf(d, i) THEN With(Members(d, g), i)
                    ELSE IF g \in groupsOf(d, i) \ groups THEN Without(d[g], i)
                    ELSE d[g]]
           s == sync(d, i, groups)
<1>1. s = [g \in {h \in gs : m[h] # NoMembers} |-> m[g]]
  BY DEF sync, WithMembers
<1>2. gs \subseteq Group
  BY DEF Registry
<1>3. ASSUME NEW g \in gs
      PROVE  /\ m[g] \in [Instance -> Nat]
             /\ g \in groups => m[g][i] > 0
             /\ \A j \in Instance \ {i} : g \in DOMAIN d => m[g][j] = d[g][j]
  <2>1. Members(d, g) \in [Instance -> Nat]
    BY DEF Members, NoMembers, Registry
  <2>2. CASE g \in groups \ groupsOf(d, i)
    BY <2>1, <2>2 DEF With, Members
  <2>3. CASE g \in groupsOf(d, i) \ groups
    BY <2>3 DEF Without, groupsOf, Registry
  <2>4. CASE g \in DOMAIN d /\ g \notin groups \ groupsOf(d, i) /\ g \notin groupsOf(d, i) \ groups
    BY <2>4 DEF groupsOf, Registry
  <2>5. QED
    BY <2>2, <2>3, <2>4 DEF groupsOf
<1> HIDE DEF m, gs, s
<1>4. DOMAIN s = {h \in gs : m[h] # NoMembers} /\ \A g \in DOMAIN s : s[g] = m[g]
  BY <1>1
<1>5. Registry(s)
  BY <1>1, <1>2, <1>3, <1>4 DEF Registry
<1>6. groups \subseteq DOMAIN s
  <2>1. ASSUME NEW g \in groups
        PROVE  g \in gs /\ m[g] # NoMembers
    BY <1>3 DEF gs, NoMembers
  <2>2. QED
    BY <1>4, <2>1
<1>7. \A g \in DOMAIN d : \A j \in Instance \ {i} : d[g][j] > 0 => g \in DOMAIN s
  <2>1. ASSUME NEW g \in DOMAIN d, NEW j \in Instance \ {i}, d[g][j] > 0
        PROVE  g \in gs /\ m[g] # NoMembers
    <3>1. g \in gs
      BY DEF gs
    <3>2. m[g][j] > 0
      BY <1>3, <2>1, <3>1
    <3>3. QED
      BY <3>1, <3>2 DEF NoMembers
  <2>2. QED
    BY <1>4, <2>1
<1>8. QED
  BY <1>4, <1>5, <1>6, <1>7 DEF m, s

(* The same, instance by instance: how often each is in a list. *)
LEMMA SyncCounts ==
    ASSUME NEW d, Registry(d), NEW i \in Instance, NEW groups \in SUBSET Group,
           NEW g \in DOMAIN sync(d, i, groups), NEW j \in Instance
    PROVE  sync(d, i, groups)[g][j] =
            IF j # i THEN (IF g \in DOMAIN d THEN d[g][j] ELSE 0)
            ELSE IF g \notin groups THEN 0
            ELSE IF g \in groupsOf(d, i) THEN d[g][i] ELSE 1
<1> DEFINE s == sync(d, i, groups)
<1>1. s[g] = IF g \in groups \ groupsOf(d, i) THEN With(Members(d, g), i)
             ELSE IF g \in groupsOf(d, i) \ groups THEN Without(d[g], i)
             ELSE d[g]
  BY SyncLists
<1>2. g \in DOMAIN d => d[g] \in [Instance -> Nat]
  BY DEF Registry
<1>3. g \in DOMAIN d \cup groups
  BY DEF sync, WithMembers
<1> HIDE DEF s
<1>4. CASE g \in groups \ groupsOf(d, i)
  <2>1. s[g] = With(Members(d, g), i)
    BY <1>1, <1>4
  <2>2. Members(d, g) \in [Instance -> Nat] /\ Members(d, g)[i] = 0
    BY <1>2, <1>4 DEF Members, NoMembers, groupsOf
  <2>3. s[g][j] = IF j = i THEN 1 ELSE Members(d, g)[j]
    BY <2>1, <2>2 DEF With
  <2>4. QED
    BY <2>3, <1>4 DEF s, Members, NoMembers
<1>5. CASE g \in groupsOf(d, i) \ groups
  BY <1>1, <1>2, <1>5 DEF s, Without, groupsOf
<1>6. CASE g \in DOMAIN d /\ g \notin groups \ groupsOf(d, i) /\ g \notin groupsOf(d, i) \ groups
  BY <1>1, <1>2, <1>6 DEF s, groupsOf
<1>7. QED
  BY <1>3, <1>4, <1>5, <1>6 DEF groupsOf

(* The instance is then in exactly these groups ... *)
LEMMA SyncedIsExact ==
    ASSUME NEW d, Registry(d), NEW i \in Instance, NEW groups \in SUBSET Group
    PROVE  groupsOf(sync(d, i, groups), i) = groups
<1> DEFINE s == sync(d, i, groups)
<1>1. ASSUME NEW g \in DOMAIN s
      PROVE  s[g][i] > 0 <=> g \in groups
  BY SyncCounts DEF groupsOf
<1>2. groups \subseteq DOMAIN s
  BY SyncLists
<1> HIDE DEF s
<1>3. QED
  BY <1>1, <1>2 DEF groupsOf, s

(* ... and the others are where they were. *)
LEMMA OthersStay ==
    ASSUME NEW d, Registry(d), NEW i \in Instance, NEW groups \in SUBSET Group,
           NEW j \in Instance \ {i}
    PROVE  groupsOf(sync(d, i, groups), j) = groupsOf(d, j)
<1> DEFINE s == sync(d, i, groups)
<1>1. ASSUME NEW g \in DOMAIN s
      PROVE  s[g][j] > 0 <=> g \in groupsOf(d, j)
  BY SyncCounts DEF groupsOf
<1>2. groupsOf(d, j) \subseteq DOMAIN s
  BY SyncLists DEF groupsOf
<1> HIDE DEF s
<1>3. QED
  BY <1>1, <1>2 DEF groupsOf, s

(* Sync makes no duplicates and leaves no empty group. *)
LEMMA SyncIsFit ==
    ASSUME NEW d, Registry(d), Fit(d), NEW i \in Instance, NEW groups \in SUBSET Group
    PROVE  Fit(sync(d, i, groups))
<1> DEFINE s == sync(d, i, groups)
<1>1. ASSUME NEW g \in DOMAIN s
      PROVE  \E j \in Instance : s[g][j] > 0
  BY SyncLists, SomeMember DEF Registry
<1>2. ASSUME NEW g \in DOMAIN s, NEW j \in Instance
      PROVE  s[g][j] <= 1
  BY SyncCounts DEF Registry, Fit, groupsOf
<1> HIDE DEF s
<1>3. QED
  BY <1>1, <1>2 DEF Fit, s

-----------------------------------------------------------------------------
(* The states. *)

TypeInv == TypeOK /\ Registry(data)

(* Every step that changes the registry is a Sync of one instance. *)
LEMMA RegistrySteps ==
    ASSUME TypeInv, [Next]_vars
    PROVE  \/ data' = data
           \/ \E i \in Instance, groups \in SUBSET Group :
                /\ data' = sync(data, i, groups)
                /\ \/ watch.pc = "idle" /\ notices # << >> /\ i = notices[1].inst
                   \/ watch.pc = "sync" /\ groups = watch.desired[i]
                   \/ watch.pc = "prune" /\ i \in watch.todo /\ groups = {}
<1>1. CASE HandleGroupEvent
  <2>1. notices \in Seq(Event) /\ notices # << >>
    BY <1>1 DEF HandleGroupEvent, TypeInv, TypeOK
  <2>2. Head(notices) = notices[1] /\ notices[1] \in Event
    BY <2>1
  <2>3. notices[1].inst \in Instance /\ notices[1].groups \in SUBSET Group
    BY <2>2 DEF Event
  <2>4. QED
    BY <1>1, <2>1, <2>2, <2>3 DEF HandleGroupEvent, remove
<1>2. ASSUME NEW i \in Instance, SyncNext(i)
      PROVE  watch.desired[i] \in SUBSET Group
  BY DEF TypeInv, TypeOK, Watcher
<1>3. CASE \E i \in Instance : SyncNext(i)
  BY <1>2, <1>3 DEF SyncNext
<1>4. CASE \E i \in Instance : Prune(i)
  BY <1>4 DEF Prune, remove
<1>5. QED
  BY <1>1, <1>3, <1>4
  DEF Next, vars, Create, Relabel, Destroy, ReadGroups, ReconcileStep, SyncEnd, ReconcileEnd

(* The variables have their types. *)
LEMMA TypeInvariant == SafetySpec => []TypeInv
<1>1. Init => TypeInv
  <2> SUFFICES ASSUME Init
               PROVE  TypeInv
    OBVIOUS
  <2>1. Registry(data)
    <3>1. CASE data = << >>
      BY <3>1 DEF Registry
    <3>2. ASSUME NEW list, data = set(list)
          PROVE  Registry(data)
      BY <3>2 DEF set, WithMembers, Registry
    <3>3. QED
      BY <3>1, <3>2 DEF Init
  <2>2. watch \in Watcher
    BY DEF Init, IdleWatch, NoGroups, Watcher
  <2>3. QED
    BY <2>1, <2>2 DEF Init, TypeInv, TypeOK, Registry
<1>2. TypeInv /\ [Next]_vars => TypeInv'
  <2> SUFFICES ASSUME TypeInv, [Next]_vars
               PROVE  TypeInv'
    OBVIOUS
  <2>1. Registry(data')
    BY RegistrySteps, SyncLists DEF TypeInv
  <2>2. present' \subseteq Instance /\ labels' \in [Instance -> SUBSET Group]
    BY DEF TypeInv, TypeOK, Next, vars, Create, Relabel, Destroy, HandleGroupEvent,
           ReadGroups, ReconcileStep, SyncNext, Prune, SyncEnd, ReconcileEnd
  <2>3. notices' \in Seq(Event)
    <3>1. ASSUME NEW type \in {"created", "updated", "removed"}, NEW i \in Instance,
                 NEW groups \in SUBSET Group, Notify(type, i, groups)
          PROVE  notices' \in Seq(Event)
      <4>1. [type |-> type, inst |-> i, groups |-> groups] \in Event
        BY DEF Event
      <4>2. QED
        BY <3>1, <4>1 DEF Notify, TypeInv, TypeOK
    <3>2. CASE HandleGroupEvent
      BY <3>2 DEF HandleGroupEvent, TypeInv, TypeOK
    <3>3. CASE notices' = notices
      BY <3>3 DEF TypeInv, TypeOK
    <3>4. QED
      BY <3>1, <3>2, <3>3
      DEF Next, vars, Create, Relabel, Destroy,
          ReadGroups, ReconcileStep, SyncNext, Prune, SyncEnd, ReconcileEnd
  <2>4. watch' \in Watcher
    <3>1. ASSUME NEW list \in InstanceGroups
          PROVE  list \in [Instance -> SUBSET Group]
      BY DEF InstanceGroups, Provided, TypeInv, TypeOK
    <3>2. CASE ReadGroups
      BY <3>1, <3>2 DEF ReadGroups, Watcher
    <3>3. CASE ReconcileStep
      <4>1. watch \in Watcher
        BY DEF TypeInv, TypeOK
      <4>2. ASSUME NEW i \in Instance, SyncNext(i) \/ Prune(i)
            PROVE  watch' \in Watcher
        BY <4>1, <4>2 DEF SyncNext, Prune, Watcher
      <4>3. CASE SyncEnd
        BY <4>1, <4>3 DEF SyncEnd, Watcher
      <4>4. CASE ReconcileEnd
        BY <4>4 DEF ReconcileEnd, IdleWatch, NoGroups, Watcher
      <4>5. QED
        BY <3>3, <4>2, <4>3, <4>4 DEF ReconcileStep
    <3>4. CASE watch' = watch
      BY <3>4 DEF TypeInv, TypeOK
    <3>5. QED
      BY <3>2, <3>3, <3>4 DEF Next, vars, Create, Relabel, Destroy, HandleGroupEvent
  <2>5. QED
    BY <2>1, <2>2, <2>3, <2>4 DEF TypeInv, TypeOK, Registry
<1>3. QED
  BY <1>1, <1>2, PTL DEF SafetySpec

(* A group that is found has members, each of them once, whatever events   *)
(* and reconciliations did to it (group_registry.go).                      *)
THEOREM RegistryIsFit == SafetySpec => []GroupsAreFit
<1>1. Init => GroupsAreFit
  <2> SUFFICES ASSUME Init, NEW g \in DOMAIN data
               PROVE  /\ \E i \in Instance : data[g][i] > 0
                      /\ \A i \in Instance : data[g][i] <= 1
    BY DEF GroupsAreFit
  <2>1. PICK list : /\ data[g] = [i \in Instance |-> IF g \in list[i] THEN 1 ELSE 0]
                    /\ data[g] # NoMembers
    <3>1. data # << >>
      OBVIOUS
    <3>2. QED
      BY <3>1 DEF Init, set, WithMembers
  <2>2. QED
    BY <2>1, SomeMember
<1>2. TypeInv /\ GroupsAreFit /\ [Next]_vars => GroupsAreFit'
  <2> SUFFICES ASSUME TypeInv, GroupsAreFit, [Next]_vars
               PROVE  GroupsAreFit'
    OBVIOUS
  <2>1. Fit(data)
    BY DEF GroupsAreFit, Fit
  <2>2. Fit(data')
    BY <2>1, RegistrySteps, SyncIsFit DEF TypeInv
  <2>3. QED
    BY <2>2 DEF GroupsAreFit, Fit
<1>3. QED
  BY <1>1, <1>2, TypeInvariant, PTL DEF SafetySpec

(* What is known of an instance whose labels stay: no event is about it,   *)
(* and the reconciliation under way has read its present labels, or a list *)
(* that left it out.                                                       *)
KeptInv ==
    /\ \A k \in 1..Len(notices) : notices[k].inst \in Changing
    /\ \A i \in Instance \ Changing :
        /\ i \in present
        /\ watch.pc # "idle" => watch.desired[i] \in {labels[i], {}}
        /\ watch.pc = "prune" /\ i \in watch.todo => watch.desired[i] = {}

LEMMA KeptInvariant == SafetySpec => []KeptInv
<1>1. Init => KeptInv
  BY DEF Init, KeptInv, IdleWatch
<1>2. TypeInv /\ KeptInv /\ [Next]_vars => KeptInv'
  <2> SUFFICES ASSUME TypeInv, KeptInv, [Next]_vars
               PROVE  KeptInv'
    OBVIOUS
  <2> USE GroupRegistryAssumption
  <2>1. ASSUME NEW i \in Changing, NEW type, NEW groups, Notify(type, i, groups)
        PROVE  \A k \in 1..Len(notices') : notices'[k].inst \in Changing
    <3>1. notices \in Seq(Event)
      BY DEF TypeInv, TypeOK
    <3>2. QED
      BY <2>1, <3>1 DEF Notify, KeptInv
  <2>2. \A k \in 1..Len(notices') : notices'[k].inst \in Changing
    <3>1. CASE HandleGroupEvent
      <4>1. notices \in Seq(Event) /\ notices # << >> /\ notices' = Tail(notices)
        BY <3>1 DEF HandleGroupEvent, TypeInv, TypeOK
      <4>2. QED
        BY <4>1 DEF KeptInv
    <3>2. CASE notices' = notices
      BY <3>2 DEF KeptInv
    <3>3. QED
      BY <2>1, <3>1, <3>2
      DEF Next, vars, Create, Relabel, Destroy,
          ReadGroups, ReconcileStep, SyncNext, Prune, SyncEnd, ReconcileEnd
  <2>3. ASSUME NEW i \in Instance \ Changing
        PROVE  /\ i \in present' /\ labels'[i] = labels[i]
               /\ watch'.pc # "idle" => watch'.desired[i] \in {labels[i], {}}
               /\ watch'.pc = "prune" /\ i \in watch'.todo => watch'.desired[i] = {}
    <3>1. i \in present' /\ labels'[i] = labels[i]
      BY DEF KeptInv, TypeInv, TypeOK, Next, vars, Create, Relabel, Destroy, HandleGroupEvent,
             ReadGroups, ReconcileStep, SyncNext, Prune, SyncEnd, ReconcileEnd
    <3>2. CASE ReadGroups
      BY <3>1, <3>2 DEF ReadGroups, InstanceGroups, Provided, KeptInv
    <3>3. CASE ReconcileStep
      <4>1. watch \in Watcher
        BY DEF TypeInv, TypeOK
      <4>2. ASSUME NEW j \in Instance, SyncNext(j) \/ Prune(j)
            PROVE  watch'.desired = watch.desired /\ watch'.pc = watch.pc /\ watch'.todo \subseteq watch.todo
        BY <4>1, <4>2 DEF SyncNext, Prune, Watcher
      <4>3. CASE \E j \in Instance : SyncNext(j) \/ Prune(j)
        BY <3>1, <4>2, <4>3 DEF KeptInv
      <4>4. CASE SyncEnd
        BY <3>1, <4>1, <4>4 DEF SyncEnd, Watcher, KeptInv
      <4>5. CASE ReconcileEnd
        BY <3>1, <4>5 DEF ReconcileEnd, IdleWatch
      <4>6. QED
        BY <3>3, <4>3, <4>4, <4>5 DEF ReconcileStep
    <3>4. CASE watch' = watch
      BY <3>1, <3>4 DEF KeptInv
    <3>5. QED
      BY <3>1, <3>2, <3>3, <3>4 DEF Next, vars, Create, Relabel, Destroy, HandleGroupEvent
  <2>4. QED
    BY <2>2, <2>3 DEF KeptInv
<1>3. QED
  BY <1>1, <1>2, TypeInvariant, PTL DEF SafetySpec

(* An instance whose labels do not change stays in its groups through      *)
(* every step, whatever happens to the others, but for the pruning after a *)
(* list that left it out (group_watch.go).                                 *)
THEOREM NoMemberIsLost == SafetySpec => MembersAreKept
<1>1. ASSUME TypeInv, KeptInv, [Next]_vars, NEW i \in Instance \ Changing,
             Registered[i] = labels[i], ~Omitted(i)
      PROVE  Registered'[i] = labels[i]
  <2>1. groupsOf(data, i) = labels[i] /\ Registry(data) /\ labels[i] \in SUBSET Group
    BY <1>1 DEF Registered, TypeInv, TypeOK
  <2>2. SUFFICES groupsOf(data', i) = labels[i]
    BY DEF Registered
  <2>3. ASSUME NEW j \in Instance, NEW groups \in SUBSET Group,
               data' = sync(data, j, groups), j # i
        PROVE  groupsOf(data', i) = labels[i]
    BY <2>1, <2>3, OthersStay
  <2>4. ASSUME NEW groups \in SUBSET Group, data' = sync(data, i, groups),
               groups = labels[i]
        PROVE  groupsOf(data', i) = labels[i]
    BY <2>1, <2>4, SyncedIsExact
  <2>5. notices # << >> => notices[1].inst # i
    BY <1>1 DEF KeptInv, TypeInv, TypeOK
  <2>6. watch.pc # "idle" => watch.desired[i] = labels[i]
    BY <1>1 DEF KeptInv, Omitted
  <2>7. watch.pc = "prune" /\ i \in watch.todo => labels[i] = {}
    BY <1>1, <2>6 DEF KeptInv
  <2>8. QED
    BY <1>1, <2>1, <2>3, <2>4, <2>5, <2>6, <2>7, RegistrySteps
<1>2. TypeInv /\ KeptInv /\ [Next]_vars =>
        [\A i \in Instance \ Changing :
            Registered[i] = labels[i] /\ ~Omitted(i) => Registered'[i] = labels[i]]_vars
  BY <1>1
<1>3. QED
  BY <1>2, TypeInvariant, KeptInvariant, PTL DEF SafetySpec, MembersAreKept
=============================================================================
