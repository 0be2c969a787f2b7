-------------------------- MODULE IgConnectionProofs -------------------------
(***************************************************************************)
(* What connect, parameter and create_pin make, for any hierarchy, any     *)
(* request and any names.                                                  *)
(*                                                                         *)
(* First the hierarchy alone (IgHierarchy): its types, that the comparison *)
(* with the root made by ig_lib_check_cycle is enough to keep it free of   *)
(* cycles, that the climb of ig_lib_gen_hierarchy always ends, and that it *)
(* implements a forest.                                                    *)
(*                                                                         *)
(* Then IgConnection: the modules above a module (DownTheHierarchy is the  *)
(* induction all else rests on), what the climbs of a request are, what    *)
(* merging them into a tree and reducing it leaves (each node has one      *)
(* parent, and each object at most the nodes that pass by it), which       *)
(* objects come out of it, that these are what the request asks for, and   *)
(* what entering them does to the database.                                *)
(***************************************************************************)
EXTENDS IgConnection, Recursion, SequenceTheorems, FiniteSetTheorems

(* The tables, flags, back-references and queues keep their types. *)
THEOREM HierarchyTypeCorrect == HierarchySpec => []HierarchyTypeOK
<1>1. HierarchyInit => HierarchyTypeOK
  BY DEF HierarchyInit, HierarchyTypeOK
<1>2. HierarchyTypeOK /\ [HierarchyNext]_hierarchyVars => HierarchyTypeOK'
  <2> SUFFICES ASSUME HierarchyTypeOK, [HierarchyNext]_hierarchyVars
               PROVE  HierarchyTypeOK'
    OBVIOUS
  <2>1. ASSUME NEW m \in Name, NEW isResource \in BOOLEAN, AddModule(m, isResource)
        PROVE  HierarchyTypeOK'
    BY <2>1 DEF HierarchyTypeOK, AddModule
  <2>2. ASSUME NEW i \in Name, NEW type \in Name, NEW host \in Name,
               Enter(i, type, host)
        PROVE  /\ instances' \in [Name -> Instance \cup {NULL}]
               /\ child_instances' \in [Name -> Seq(Name)]
               /\ mod_instances' \in [Name -> Seq(Name)]
               /\ UNCHANGED <<modules, resource>>
    <3>1. [module |-> type, parent |-> host] \in Instance
      BY DEF Instance
    <3>2. \A s \in Seq(Name) : Append(s, i) \in Seq(Name)
      OBVIOUS
    <3> QED BY <2>2, <3>1, <3>2 DEF HierarchyTypeOK, Enter
  <2>3. ASSUME NEW type \in Name, NEW host \in Name, AddDefaultInstance(type, host)
        PROVE  HierarchyTypeOK'
    <3>1. Enter(type, type, host)
      BY <2>3 DEF AddDefaultInstance
    <3>2. default_parent' \in [Name -> Name \cup {NULL}]
      BY <2>3 DEF AddDefaultInstance, HierarchyTypeOK
    <3> QED BY <3>1, <3>2, <2>2 DEF HierarchyTypeOK
  <2>4. ASSUME NEW i \in Name, NEW type \in Name, NEW host \in Name,
               AddResourceInstance(i, type, host)
        PROVE  HierarchyTypeOK'
    <3>1. Enter(i, type, host) /\ UNCHANGED default_parent
      BY <2>4 DEF AddResourceInstance
    <3> QED BY <3>1, <2>2 DEF HierarchyTypeOK
  <2>5. CASE Reset
    BY <2>5 DEF HierarchyTypeOK, Reset
  <2>6. CASE UNCHANGED hierarchyVars
    BY <2>6 DEF HierarchyTypeOK, hierarchyVars
  <2> QED BY <2>1, <2>3, <2>4, <2>5, <2>6 DEF HierarchyNext
<1> QED BY <1>1, <1>2, PTL DEF HierarchySpec

-----------------------------------------------------------------------------
(* Up(m) is the least set of names that contains m and is closed upwards. *)
LEMMA UpIsLeast ==
  ASSUME NEW m \in Name, default_parent \in [Name -> Name \cup {NULL}]
  PROVE  /\ m \in Up(m)
         /\ ClosedUpwards(Up(m))
         /\ \A S \in SUBSET Name : m \in S /\ ClosedUpwards(S) => Up(m) \subseteq S
<1>1. m \in Up(m)
  BY DEF Up
<1>2. ASSUME NEW x \in Up(m), default_parent[x] # NULL
      PROVE  default_parent[x] \in Up(m)
  <2>1. x \in Name /\ default_parent[x] \in Name
    BY <1>2 DEF Up
  <2>2. ASSUME NEW S \in SUBSET Name, m \in S, ClosedUpwards(S)
        PROVE  default_parent[x] \in S
    BY <1>2, <2>2 DEF Up, ClosedUpwards
  <2> QED BY <2>1, <2>2 DEF Up
<1>3. ClosedUpwards(Up(m))
  BY <1>2 DEF ClosedUpwards
<1> QED BY <1>1, <1>3 DEF Up

(* The climb from m visits m and then what the climb from its parent does. *)
LEMMA UpStep ==
  ASSUME NEW m \in Name, default_parent \in [Name -> Name \cup {NULL}],
         default_parent[m] \in Name
  PROVE  Up(m) \subseteq {m} \cup Up(default_parent[m])
<1> DEFINE S == {m} \cup Up(default_parent[m])
<1>1. S \in SUBSET Name /\ m \in S
  BY DEF Up
<1>2. ClosedUpwards(S)
  BY UpIsLeast DEF ClosedUpwards
<1> QED BY <1>1, <1>2, UpIsLeast

(* The climb from a module without parent stays there. *)
LEMMA UpOfRoot ==
  ASSUME NEW m \in Name, default_parent \in [Name -> Name \cup {NULL}],
         default_parent[m] = NULL
  PROVE  Up(m) = {m}
<1>1. ClosedUpwards({m})
  BY DEF ClosedUpwards
<1> QED BY <1>1, UpIsLeast

(* A climb meets at most one module without parent: it is a chain. *)
LEMMA OneRoot ==
  ASSUME NEW m \in Name, default_parent \in [Name -> Name \cup {NULL}],
         NEW r \in Up(m), NEW s \in Up(m),
         default_parent[r] = NULL, default_parent[s] = NULL
  PROVE  r = s
<1> DEFINE S == {x \in Up(m) : r \in Up(x)}
<1>1. S \in SUBSET Name /\ m \in S
  BY UpIsLeast DEF Up
<1>2. ASSUME NEW x \in S, default_parent[x] # NULL
      PROVE  default_parent[x] \in S
  <2>1. x \in Name /\ default_parent[x] \in Name /\ default_parent[x] \in Up(m)
    BY <1>2, UpIsLeast DEF Up, ClosedUpwards
  <2>2. r \in Up(default_parent[x])
    BY <1>2, <2>1, UpStep
  <2> QED BY <2>1, <2>2
<1>3. ClosedUpwards(S)
  BY <1>2 DEF ClosedUpwards
<1>4. s \in S
  BY <1>1, <1>3, UpIsLeast
<1>5. s \in Name /\ Up(s) = {s}
  BY UpOfRoot DEF Up
<1> QED BY <1>4, <1>5

(* What the comparison in ig_lib_check_cycle decides: a module without     *)
(* parent that is not the root above p is nowhere above p.                 *)
LEMMA CheckCycleIsExact ==
  ASSUME NEW c \in Name, NEW p \in Name,
         default_parent \in [Name -> Name \cup {NULL}],
         default_parent[c] = NULL, ~ WouldCycle(c, p)
  PROVE  c \notin Up(p)
<1> SUFFICES ASSUME c \in Up(p) PROVE FALSE
  OBVIOUS
<1>1. Root(p) \in Up(p) /\ default_parent[Root(p)] = NULL
  BY DEF Root
<1>2. Root(p) = c
  BY <1>1, OneRoot
<1> QED BY <1>2 DEF WouldCycle

(* Placing c in p keeps the hierarchy free of cycles when c is not above p. *)
LEMMA PlacingKeepsAcyclic ==
  ASSUME NEW c \in Name, NEW p \in Name,
         default_parent \in [Name -> Name \cup {NULL}],
         Acyclic, c \notin Up(p),
         default_parent' = [default_parent EXCEPT ![c] = p]
  PROVE  Acyclic'
<1> SUFFICES ASSUME NEW S \in SUBSET Name, S # {},
                    \A m \in S : default_parent'[m] \in S
             PROVE  FALSE
  BY DEF Acyclic
<1>1. \A m \in S : m # c => default_parent[m] \in S
  OBVIOUS
<1>2. CASE c \notin S
  <2>1. \A m \in S : default_parent[m] \in S
    BY <1>1, <1>2
  <2> QED BY <2>1 DEF Acyclic
<1>3. CASE c \in S
  <2> DEFINE B == S \cap Up(p)
  <2>1. p \in S
    BY <1>3
  <2>2. p \in B /\ B \in SUBSET Name
    BY <2>1, UpIsLeast
  <2>3. \A m \in B : default_parent[m] \in B
    <3> SUFFICES ASSUME NEW m \in B PROVE default_parent[m] \in B
      OBVIOUS
    <3>1. default_parent[m] \in S
      BY <1>1
    <3>2. default_parent[m] \in Up(p)
      BY <3>1, UpIsLeast, NameAssumption DEF ClosedUpwards
    <3> QED BY <3>1, <3>2
  <2> QED BY <2>2, <2>3 DEF Acyclic
<1> QED BY <1>2, <1>3

(* The hierarchy never closes a cycle, whatever modules are created and in *)
(* whatever order they are placed (ig_lib_add_instance).                   *)
THEOREM HierarchyAcyclic == HierarchySpec => []Acyclic
<1>1. HierarchyInit => Acyclic
  BY NameAssumption DEF HierarchyInit, Acyclic
<1>2. HierarchyTypeOK /\ Acyclic /\ [HierarchyNext]_hierarchyVars => Acyclic'
  <2> SUFFICES ASSUME HierarchyTypeOK, Acyclic, [HierarchyNext]_hierarchyVars
               PROVE  Acyclic'
    OBVIOUS
  <2> USE DEF HierarchyTypeOK
  <2>1. ASSUME NEW type \in Name, NEW host \in Name, AddDefaultInstance(type, host)
        PROVE  Acyclic'
    <3>1. type \notin Up(host)
      BY <2>1, CheckCycleIsExact DEF AddDefaultInstance
    <3>2. default_parent' = [default_parent EXCEPT ![type] = host]
      BY <2>1 DEF AddDefaultInstance
    <3> QED BY <3>1, <3>2, PlacingKeepsAcyclic
  <2>2. CASE Reset
    BY <2>2, NameAssumption DEF Reset, Acyclic
  <2>3. CASE UNCHANGED default_parent
    BY <2>3 DEF Acyclic
  <2> QED BY <2>1, <2>2, <2>3
       DEF HierarchyNext, AddModule, AddResourceInstance, hierarchyVars
<1> QED BY <1>1, <1>2, HierarchyTypeCorrect, PTL DEF HierarchySpec

(* In a hierarchy without cycles every climb ends, at one top module. *)
LEMMA AcyclicClimbEnds ==
  ASSUME HierarchyTypeOK, Acyclic
  PROVE  ClimbEnds
<1> USE DEF HierarchyTypeOK
<1> SUFFICES ASSUME NEW m \in Name
             PROVE  \E r \in Up(m) : default_parent[r] = NULL
  BY OneRoot DEF ClimbEnds
<1>1. Up(m) # {} /\ Up(m) \in SUBSET Name
  BY UpIsLeast DEF Up
<1>2. PICK r \in Up(m) : default_parent[r] \notin Up(m)
  BY <1>1 DEF Acyclic
<1> QED BY <1>2, UpIsLeast DEF ClosedUpwards

(* The endless loop of ig_lib_gen_hierarchy is left from every module. *)
THEOREM HierarchyClimbEnds == HierarchySpec => []ClimbEnds
BY HierarchyTypeCorrect, HierarchyAcyclic, AcyclicClimbEnds, PTL

-----------------------------------------------------------------------------
(* A module that the climb from p does not meet has p nowhere below it. *)
LEMMA NotAboveNotBelow ==
  ASSUME NEW c \in Name, NEW p \in Name,
         default_parent \in [Name -> Name \cup {NULL}], c \notin Up(p)
  PROVE  p \notin Forest!Below(c)
<1> DEFINE S == {x \in Name : c \in Up(x)}
<1>1. c \in S /\ S \in SUBSET Name
  BY UpIsLeast
<1>2. ASSUME NEW y \in Name, default_parent[y] \in S
      PROVE  y \in S
  <2>1. default_parent[y] \in Name /\ default_parent[y] \in Up(y)
    BY <1>2, UpIsLeast, NameAssumption DEF ClosedUpwards
  <2>2. Up(default_parent[y]) \subseteq Up(y)
    <3>1. ClosedUpwards(Up(y)) /\ Up(y) \in SUBSET Name
      BY UpIsLeast DEF Up
    <3> QED BY <2>1, <3>1, UpIsLeast
  <2> QED BY <1>2, <2>2
<1>3. p \notin S
  OBVIOUS
<1> HIDE DEF S
<1> QED BY <1>1, <1>2, <1>3 DEF Forest!Below

(* The database implements the forest: every command is a step of the      *)
(* forest, or (a resource module, an instance of one) leaves it alone.     *)
THEOREM HierarchyImplementsForest == HierarchySpec => ImplementsForest
<1>1. HierarchyInit => Forest!ForestInit
  BY DEF HierarchyInit, Forest!ForestInit
<1>2. HierarchyTypeOK /\ [HierarchyNext]_hierarchyVars
        => [Forest!ForestNext]_(Forest!forestVars)
  <2> SUFFICES ASSUME HierarchyTypeOK, [HierarchyNext]_hierarchyVars
               PROVE  Forest!ForestNext \/ UNCHANGED Forest!forestVars
    OBVIOUS
  <2> USE DEF HierarchyTypeOK
  <2>1. ASSUME NEW m \in Name, NEW isResource \in BOOLEAN, AddModule(m, isResource)
        PROVE  Forest!Grow(m) \/ UNCHANGED Forest!forestVars
    <3>1. CASE isResource
      BY <2>1, <3>1 DEF AddModule, Forest!forestVars
    <3>2. CASE ~ isResource
      BY <2>1, <3>2 DEF AddModule, Forest!Grow
    <3> QED BY <3>1, <3>2
  <2>2. ASSUME NEW type \in Name, NEW host \in Name, AddDefaultInstance(type, host)
        PROVE  Forest!Place(type, host)
    <3>1. type \notin Up(host)
      BY <2>2, CheckCycleIsExact DEF AddDefaultInstance
    <3>2. host \notin Forest!Below(type)
      BY <3>1, NotAboveNotBelow
    <3> QED BY <2>2, <3>2 DEF AddDefaultInstance, Enter, Forest!Place
  <2>3. ASSUME NEW i \in Name, NEW type \in Name, NEW host \in Name,
               AddResourceInstance(i, type, host)
        PROVE  UNCHANGED Forest!forestVars
    BY <2>3 DEF AddResourceInstance, Enter, Forest!forestVars
  <2>4. CASE Reset
    BY <2>4 DEF Reset, Forest!ForestNext, Forest!Clear
  <2>5. CASE UNCHANGED hierarchyVars
    BY <2>5 DEF hierarchyVars, Forest!forestVars
  <2> QED BY <2>1, <2>2, <2>3, <2>4, <2>5 DEF HierarchyNext, Forest!ForestNext
<1> QED BY <1>1, <1>2, HierarchyTypeCorrect, PTL DEF HierarchySpec, ImplementsForest, Forest!ForestSpec

-----------------------------------------------------------------------------
(* Where an element is found in a queue after a push to its tail. *)
LEMMA EnteredAppend ==
  ASSUME NEW s \in Seq(Name), NEW i \in Name, NEW j \in Name
  PROVE  Entered(Append(s, i), j) =
           IF j = i THEN Entered(s, j) \cup {Len(s) + 1} ELSE Entered(s, j)
<1>1. /\ DOMAIN Append(s, i) = 1 .. (Len(s) + 1)
      /\ DOMAIN s = 1 .. Len(s)
      /\ Len(s) \in Nat
      /\ \A k \in 1 .. Len(s) : Append(s, i)[k] = s[k]
      /\ Append(s, i)[Len(s) + 1] = i
  OBVIOUS
<1>2. 1 .. (Len(s) + 1) = (1 .. Len(s)) \cup {Len(s) + 1}
  BY <1>1
<1> QED BY <1>1, <1>2 DEF Entered

(* Nothing is in an empty queue.                                           *)
LEMMA EnteredEmpty == \A i : Entered(<<>>, i) = {}
BY DEF Entered

(* Queue by queue, each instance is listed once, at its owner. *)
Lists(queue, owner) ==
  \A j, m \in Name : /\ \A k, l \in Entered(queue[m], j) : k = l
                     /\ Entered(queue[m], j) # {} <=> owner[j] = m

ParentOf == [i \in Name |-> IF instances[i] = NULL THEN NULL ELSE instances[i].parent]
ModuleOf == [i \in Name |-> IF instances[i] = NULL THEN NULL ELSE instances[i].module]

(* Appending an entry to the queue of its owner keeps queues and owners in *)
(* step.                                                                   *)
LEMMA PushKeepsLists ==
  ASSUME NEW queue \in [Name -> Seq(Name)], NEW owner \in [Name -> Name \cup {NULL}],
         NEW o \in Name, NEW i \in Name, owner[i] = NULL, Lists(queue, owner)
  PROVE  Lists([queue EXCEPT ![o] = Append(@, i)], [owner EXCEPT ![i] = o])
<1> DEFINE q == [queue EXCEPT ![o] = Append(@, i)]
           w == [owner EXCEPT ![i] = o]
<1> SUFFICES ASSUME NEW j \in Name, NEW m \in Name
             PROVE  /\ \A k, l \in Entered(q[m], j) : k = l
                    /\ Entered(q[m], j) # {} <=> w[j] = m
  BY DEF Lists
<1>1. CASE m # o
  <2>1. q[m] = queue[m]
    BY <1>1
  <2>2. w[j] = m <=> owner[j] = m
    BY <1>1, NameAssumption
  <2> QED BY <2>1, <2>2 DEF Lists
<1>2. CASE m = o
  <2>1. q[m] = Append(queue[m], i) /\ queue[m] \in Seq(Name)
    BY <1>2
  <2>2. CASE j = i
    <3>1. Entered(queue[m], j) = {}
      BY <2>2, NameAssumption DEF Lists
    <3>2. Entered(q[m], j) = {Len(queue[m]) + 1}
      BY <2>1, <2>2, <3>1, EnteredAppend
    <3> QED BY <1>2, <2>2, <3>2
  <2>3. CASE j # i
    <3>1. Entered(q[m], j) = Entered(queue[m], j)
      BY <2>1, <2>3, EnteredAppend
    <3> QED BY <2>3, <3>1 DEF Lists
  <2> QED BY <2>2, <2>3
<1> QED BY <1>1, <1>2

(* QueuesAgree is two instances of Lists.                                  *)
LEMMA QueuesAgreeAsLists ==
  HierarchyTypeOK =>
    /\ QueuesAgree <=> /\ Lists(child_instances, ParentOf)
                       /\ Lists(mod_instances, ModuleOf)
    /\ ParentOf \in [Name -> Name \cup {NULL}]
    /\ ModuleOf \in [Name -> Name \cup {NULL}]
<1> SUFFICES ASSUME HierarchyTypeOK
             PROVE  /\ QueuesAgree <=> /\ Lists(child_instances, ParentOf)
                                       /\ Lists(mod_instances, ModuleOf)
                    /\ ParentOf \in [Name -> Name \cup {NULL}]
                    /\ ModuleOf \in [Name -> Name \cup {NULL}]
  OBVIOUS
<1>1. \A i \in Name : instances[i] # NULL =>
        instances[i].parent \in Name /\ instances[i].module \in Name
  BY DEF HierarchyTypeOK, Instance
<1> QED BY <1>1, NameAssumption DEF QueuesAgree, Lists, ParentOf, ModuleOf

(* An instance is pushed to the queues of its parent and of its module.  *)
LEMMA EnterKeepsQueues ==
  ASSUME HierarchyTypeOK, QueuesAgree, NEW i \in Name, NEW type \in Name,
         NEW host \in Name, Enter(i, type, host), HierarchyTypeOK'
  PROVE  QueuesAgree'
<1> DEFINE inst == [module |-> type, parent |-> host]
<1>e. inst # NULL /\ inst.module = type /\ inst.parent = host
  BY NameAssumption DEF Instance
<1>i. instances[i] = NULL /\ instances' = [instances EXCEPT ![i] = inst]
  BY DEF Enter
<1> HIDE DEF inst
<1>1. ParentOf' = [ParentOf EXCEPT ![i] = host] /\ ParentOf[i] = NULL
  BY <1>e, <1>i DEF HierarchyTypeOK, ParentOf
<1>2. ModuleOf' = [ModuleOf EXCEPT ![i] = type] /\ ModuleOf[i] = NULL
  BY <1>e, <1>i DEF HierarchyTypeOK, ModuleOf
<1>3. Lists(child_instances', ParentOf')
  BY <1>1, PushKeepsLists, QueuesAgreeAsLists DEF HierarchyTypeOK, Enter
<1>4. Lists(mod_instances', ModuleOf')
  BY <1>2, PushKeepsLists, QueuesAgreeAsLists DEF HierarchyTypeOK, Enter
<1>5. HierarchyTypeOK' => (QueuesAgree <=> /\ Lists(child_instances, ParentOf)
                                           /\ Lists(mod_instances, ModuleOf))'
  BY QueuesAgreeAsLists, PTL
<1> QED BY <1>3, <1>4, <1>5

(* AddDefaultInstance and AddResourceInstance, on what the table says of   *)
(* its modules; no other step but a reset writes to the table.             *)
LEMMA EnterKeepsEntries ==
  ASSUME HierarchyTypeOK, DefaultsInTable, EntriesLive,
         NEW i \in Name, NEW type \in modules, NEW host \in modules,
         Enter(i, type, host),
         IF type \in resource
         THEN default_parent' = default_parent
         ELSE i = type /\ default_parent' = [default_parent EXCEPT ![type] = host]
  PROVE  DefaultsInTable' /\ EntriesLive'
<1> DEFINE inst == [module |-> type, parent |-> host]
<1>e. inst # NULL /\ inst.module = type /\ inst.parent = host
  BY NameAssumption DEF Instance, HierarchyTypeOK
<1>i. /\ instances[i] = NULL /\ instances' = [instances EXCEPT ![i] = inst]
      /\ host \notin resource /\ modules' = modules /\ resource' = resource
  BY DEF Enter
<1> HIDE DEF inst
<1>1. EntriesLive'
  BY <1>e, <1>i DEF EntriesLive, HierarchyTypeOK
<1>2. ASSUME NEW m \in Name, m \notin modules \ resource
      PROVE  default_parent'[m] = NULL
  BY <1>2 DEF DefaultsInTable, HierarchyTypeOK
<1>3. ASSUME NEW m \in modules \ resource
      PROVE  default_parent'[m] = IF instances'[m] # NULL /\ instances'[m].module = m
                                  THEN instances'[m].parent ELSE NULL
  BY <1>e, <1>i DEF DefaultsInTable, HierarchyTypeOK
<1> QED BY <1>1, <1>2, <1>3, <1>i DEF DefaultsInTable, HierarchyTypeOK

(* Queues, table, back-references and default instances always agree.      *)
THEOREM HierarchyTablesAgree == HierarchySpec => []TablesAgree
<1> USE DEF TablesAgree
<1>1. HierarchyInit => TablesAgree
  BY EnteredEmpty DEF HierarchyInit, QueuesAgree, DefaultsInTable, EntriesLive
<1>2. HierarchyTypeOK /\ HierarchyTypeOK' /\ TablesAgree
        /\ [HierarchyNext]_hierarchyVars => TablesAgree'
  <2> SUFFICES ASSUME HierarchyTypeOK, HierarchyTypeOK', TablesAgree,
                      [HierarchyNext]_hierarchyVars
               PROVE  TablesAgree'
    OBVIOUS
  <2>1. ASSUME NEW m \in Name, NEW isResource \in BOOLEAN, AddModule(m, isResource)
        PROVE  TablesAgree'
    <3>1. QueuesAgree'
      BY <2>1 DEF AddModule, QueuesAgree
    <3>2. EntriesLive'
      BY <2>1 DEF AddModule, EntriesLive, HierarchyTypeOK
    <3>3. DefaultsInTable'
      BY <2>1 DEF AddModule, DefaultsInTable, EntriesLive, HierarchyTypeOK
    <3> QED BY <3>1, <3>2, <3>3
  <2>2. ASSUME NEW type \in Name, NEW host \in Name, AddDefaultInstance(type, host)
        PROVE  TablesAgree'
    <3>1. Enter(type, type, host) /\ type \in modules \ resource /\ host \in modules
      BY <2>2 DEF AddDefaultInstance
    <3>2. QueuesAgree'
      BY <3>1, EnterKeepsQueues
    <3>3. default_parent' = [default_parent EXCEPT ![type] = host]
      BY <2>2 DEF AddDefaultInstance
    <3> QED BY <3>1, <3>2, <3>3, EnterKeepsEntries
  <2>3. ASSUME NEW i \in Name, NEW type \in Name, NEW host \in Name,
               AddResourceInstance(i, type, host)
        PROVE  TablesAgree'
    <3>1. /\ Enter(i, type, host) /\ type \in resource /\ host \in modules
          /\ default_parent' = default_parent
      BY <2>3 DEF AddResourceInstance
    <3>2. QueuesAgree'
      BY <3>1, EnterKeepsQueues
    <3>3. type \in modules
      BY <3>1 DEF HierarchyTypeOK
    <3> QED BY <3>1, <3>2, <3>3, EnterKeepsEntries
  <2>4. CASE Reset
    BY <2>4, EnteredEmpty DEF Reset, QueuesAgree, DefaultsInTable, EntriesLive
  <2>5. CASE UNCHANGED hierarchyVars
    BY <2>5, SMTT(20) DEF hierarchyVars, QueuesAgree, DefaultsInTable, EntriesLive
  <2> QED BY <2>1, <2>2, <2>3, <2>4, <2>5 DEF HierarchyNext
<1> QED BY <1>1, <1>2, HierarchyTypeCorrect, PTL DEF HierarchySpec

-----------------------------------------------------------------------------
(* A placed module is never moved or taken out again: ig_lib_add_instance  *)
(* refuses a default instance that has a parent, and only a reset ends it. *)
THEOREM HierarchyPlacedForGood == HierarchySpec => PlacedForGood
<1>1. HierarchyTypeOK /\ [HierarchyNext]_hierarchyVars => [StaysPlaced]_hierarchyVars
  <2> SUFFICES ASSUME HierarchyTypeOK, HierarchyNext, NEW n \in Name,
                      default_parent[n] # NULL
               PROVE  default_parent'[n] = default_parent[n] \/ modules' = {}
    BY DEF StaysPlaced
  <2>1. ASSUME NEW type \in Name, NEW host \in Name, AddDefaultInstance(type, host)
        PROVE  default_parent'[n] = default_parent[n]
    BY <2>1 DEF AddDefaultInstance, HierarchyTypeOK
  <2>2. CASE Reset
    BY <2>2 DEF Reset
  <2> QED BY <2>1, <2>2 DEF HierarchyNext, AddModule, AddResourceInstance
<1> QED BY <1>1, HierarchyTypeCorrect, PTL DEF HierarchySpec, PlacedForGood

-----------------------------------------------------------------------------
(* A set that has each module whose parent it has has them all. *)
LEMMA DownTheHierarchy ==
  ASSUME HierarchyTypeOK, Acyclic, NEW T,
         \A m \in Name : default_parent[m] = NULL \/ default_parent[m] \in T => m \in T
  PROVE  Name \subseteq T
<1> DEFINE Out == Name \ T
<1>1. CASE Out = {}
  BY <1>1
<1>2. CASE Out # {}
  <2>1. PICK m \in Out : default_parent[m] \notin Out
    BY <1>2 DEF Acyclic
  <2> QED BY <2>1 DEF HierarchyTypeOK
<1> QED BY <1>1, <1>2

(* Above satisfies the recursion that defines it.                          *)
LEMMA AboveStep ==
  ASSUME HierarchyTypeOK
  PROVE  Above = [m \in Name |-> {m} \cup IF default_parent[m] = NULL THEN {} ELSE Above[default_parent[m]]]
<1> USE DEF HierarchyTypeOK
<1> DEFINE f == [m \in Name |-> Up(m)]
<1>1. ASSUME NEW m \in Name
      PROVE Up(m) = {m} \cup IF default_parent[m] = NULL THEN {} ELSE Up(default_parent[m])
  <2>1. CASE default_parent[m] = NULL
    BY <2>1, UpOfRoot
  <2>2. CASE default_parent[m] # NULL
    <3>1. default_parent[m] \in Name /\ default_parent[m] \in Up(m) /\ m \in Up(m)
      BY <2>2, UpIsLeast DEF ClosedUpwards
    <3>2. Up(m) \in SUBSET Name /\ ClosedUpwards(Up(m))
      BY UpIsLeast DEF Up
    <3>3. Up(default_parent[m]) \subseteq Up(m)
      BY <3>1, <3>2, UpIsLeast
    <3> QED BY <3>1, <3>3, <2>2, UpStep
  <2> QED BY <2>1, <2>2
<1>2. f = [m \in Name |-> {m} \cup IF default_parent[m] = NULL THEN {} ELSE f[default_parent[m]]]
  BY <1>1
<1> HIDE DEF f
<1> QED BY <1>2 DEF Above

(* What is above a module, climb by climb. *)
LEMMA AboveFacts ==
  ASSUME HierarchyTypeOK, Acyclic
  PROVE  /\ Above \in [Name -> SUBSET Name]
         /\ \A m \in Name : Above[m] = Up(m)
         /\ \A m \in Name : m \in Above[m]
         /\ \A m \in Name : default_parent[m] = NULL => Above[m] = {m}
         /\ \A m \in Name : default_parent[m] # NULL =>
              default_parent[m] \in Name /\ Above[m] = {m} \cup Above[default_parent[m]]
         /\ \A m \in Name : \A x \in Above[m] : default_parent[x] # NULL => default_parent[x] \in Above[m]
<1> USE DEF HierarchyTypeOK
<1> DEFINE Same == {m \in Name : Above[m] = Up(m)}
<1>1. ASSUME NEW m \in Name, default_parent[m] = NULL \/ default_parent[m] \in Same
      PROVE  m \in Same
  <2>1. CASE default_parent[m] = NULL
    BY <2>1, AboveStep, UpOfRoot
  <2>2. CASE default_parent[m] # NULL
    <3>1. default_parent[m] \in Name /\ default_parent[m] \in Up(m) /\ m \in Up(m)
      BY <2>2, UpIsLeast DEF ClosedUpwards
    <3>2. Up(m) \in SUBSET Name /\ ClosedUpwards(Up(m))
      BY UpIsLeast DEF Up
    <3>3. Up(default_parent[m]) \subseteq Up(m)
      BY <3>1, <3>2, UpIsLeast
    <3>4. Up(m) = {m} \cup Up(default_parent[m])
      BY <3>1, <3>3, <2>2, UpStep
    <3>5. Above[m] = {m} \cup Above[default_parent[m]]
      BY <2>2, AboveStep
    <3>6. Above[default_parent[m]] = Up(default_parent[m])
      BY <2>2, <1>1
    <3> QED BY <3>4, <3>5, <3>6
  <2> QED BY <2>1, <2>2
<1>2. \A m \in Name : Above[m] = Up(m)
  <2> HIDE DEF Same
  <2>1. Name \subseteq Same
    BY <1>1, DownTheHierarchy
  <2> QED BY <2>1 DEF Same
<1>3. \A m \in Name : Above[m] \in SUBSET Name
  BY <1>2 DEF Up
<1>4. DOMAIN Above = Name /\ Above = [m \in Name |-> Above[m]]
  BY AboveStep
<1>5. Above \in [Name -> SUBSET Name]
  BY <1>3, <1>4
<1>6. \A m \in Name : \A x \in Above[m] : default_parent[x] # NULL => default_parent[x] \in Above[m]
  <2> SUFFICES ASSUME NEW m \in Name, NEW x \in Above[m], default_parent[x] # NULL
               PROVE  default_parent[x] \in Above[m]
    OBVIOUS
  <2>1. ClosedUpwards(Up(m)) /\ Above[m] = Up(m)
    BY <1>2, UpIsLeast
  <2> QED BY <2>1 DEF ClosedUpwards
<1>7. \A m \in Name : default_parent[m] # NULL =>
              default_parent[m] \in Name /\ Above[m] = {m} \cup Above[default_parent[m]]
  BY AboveStep
<1>8. \A m \in Name : default_parent[m] = NULL => Above[m] = {m}
  BY AboveStep
<1>9. \A m \in Name : m \in Above[m]
  BY <1>2, UpIsLeast
<1> QED BY <1>2, <1>5, <1>6, <1>7, <1>8, <1>9

(* Being above is a partial order in which what is above a module is a     *)
(* chain.                                                                  *)
LEMMA AboveOrder ==
  ASSUME HierarchyTypeOK, Acyclic, NEW m \in Name
  PROVE  /\ \A x \in Above[m] : x \in Name /\ Above[x] \subseteq Above[m]
         /\ \A x \in Above[m] : m \in Above[x] => x = m
         /\ \A x, y \in Above[m] : x \in Above[y] \/ y \in Above[x]
<1> USE DEF HierarchyTypeOK
<1>f. /\ Above \in [Name -> SUBSET Name]
      /\ \A n \in Name : n \in Above[n]
      /\ \A n \in Name : default_parent[n] = NULL => Above[n] = {n}
      /\ \A n \in Name : default_parent[n] # NULL =>
              default_parent[n] \in Name /\ Above[n] = {n} \cup Above[default_parent[n]]
  BY AboveFacts
<1> HIDE DEF HierarchyTypeOK
<1> DEFINE Good == {n \in Name : /\ \A x \in Above[n] : x \in Name /\ Above[x] \subseteq Above[n]
                                 /\ \A x, y \in Above[n] : x \in Above[y] \/ y \in Above[x]}
<1>1. ASSUME NEW n \in Name, default_parent[n] = NULL \/ default_parent[n] \in Good
      PROVE  n \in Good
  <2>1. CASE default_parent[n] = NULL
    BY <2>1, <1>f
  <2>2. CASE default_parent[n] # NULL
    <3> DEFINE p == default_parent[n]
    <3>1. p \in Name /\ Above[n] = {n} \cup Above[p] /\ p \in Good
      BY <1>1, <1>f, <2>2
    <3> HIDE DEF p
    <3>2. \A x \in Above[n] : x \in Name /\ Above[x] \subseteq Above[n]
      BY <3>1
    <3>3. \A x, y \in Above[n] : x \in Above[y] \/ y \in Above[x]
      BY <3>1
    <3> QED BY <3>2, <3>3
  <2> QED BY <2>1, <2>2
<1>2. Name \subseteq Good
  <2> HIDE DEF Good
  <2> QED BY <1>1, DownTheHierarchy
<1>3. ASSUME NEW x \in Above[m], m \in Above[x], x # m
      PROVE  FALSE
  <2>1. x \in Name
    BY <1>f
  <2> DEFINE S == {y \in Above[m] : m \in Above[y]}
  <2>2. S \subseteq Name /\ m \in S
    BY <1>f
  <2>3. ASSUME NEW y \in S PROVE default_parent[y] \in S
    <3>1. y \in Name /\ y \in Above[m] /\ m \in Above[y] /\ Above[y] \subseteq Above[m]
      BY <2>2, <1>2
    <3>2. default_parent[y] # NULL
      <4>1. CASE y = m
        BY <4>1, <1>3, <1>f
      <4>2. CASE y # m
        BY <4>2, <3>1, <1>f
      <4> QED BY <4>1, <4>2
    <3>3. default_parent[y] \in Name /\ Above[y] = {y} \cup Above[default_parent[y]]
      BY <3>1, <3>2, <1>f
    <3>4. default_parent[y] \in Above[m]
      BY <3>3, <3>1, <1>f
    <3>5. m \in Above[default_parent[y]]
      <4>1. CASE y = m
        <5>1. x \in Above[default_parent[y]]
          BY <3>3, <4>1, <1>3
        <5>2. Above[x] \subseteq Above[default_parent[y]]
          BY <5>1, <3>3, <1>2
        <5> QED BY <5>2, <1>3
      <4>2. CASE y # m
        BY <4>2, <3>3, <3>1
      <4> QED BY <4>1, <4>2
    <3> QED BY <3>4, <3>5
  <2> HIDE DEF S
  <2> QED BY <2>2, <2>3 DEF Acyclic
<1> QED BY <1>2, <1>3

-----------------------------------------------------------------------------
(* The nodes at an object next below those in N. *)
NextOf(N, type, of) == UNION {Children(n, type, of) : n \in N}

(* The nodes at m, from those at the module around it. *)
InstancesAt(s, climbs, m, around) ==
  IF default_parent[m] = NULL THEN TreeRoot(s, climbs, m)
  ELSE NextOf(around.module, "instance", m)
NodesAt(s, climbs, m, around) ==
  [instance |-> InstancesAt(s, climbs, m, around),
   module   |-> NextOf(InstancesAt(s, climbs, m, around), "module", m)]

(* The nodes at a module and at all above it. *)
IsMerge(s, climbs, f, m) ==
  f = [x \in Above[m] |-> NodesAt(s, climbs, x, f[default_parent[x]])]

(* Two mergings agree wherever both are defined.                           *)
LEMMA OneMerge ==
  ASSUME HierarchyTypeOK, Acyclic, NEW s, NEW climbs, NEW m \in Name, NEW n \in Name,
         NEW f, NEW g, IsMerge(s, climbs, f, m), IsMerge(s, climbs, g, n),
         NEW x \in Above[m] \cap Above[n]
  PROVE  f[x] = g[x]
<1>f. /\ Above \in [Name -> SUBSET Name]
      /\ \A y \in Name : \A z \in Above[y] : default_parent[z] # NULL => default_parent[z] \in Above[y]
  BY AboveFacts
<1> DEFINE Same == {y \in Name : y \in Above[m] \cap Above[n] => f[y] = g[y]}
<1>1. ASSUME NEW y \in Name, default_parent[y] = NULL \/ default_parent[y] \in Same
      PROVE  y \in Same
  <2> SUFFICES ASSUME y \in Above[m], y \in Above[n] PROVE f[y] = g[y]
    OBVIOUS
  <2>1. /\ f[y] = NodesAt(s, climbs, y, f[default_parent[y]])
        /\ g[y] = NodesAt(s, climbs, y, g[default_parent[y]])
    BY DEF IsMerge
  <2>2. CASE default_parent[y] = NULL
    BY <2>1, <2>2 DEF NodesAt, InstancesAt
  <2>3. CASE default_parent[y] # NULL
    <3>1. f[default_parent[y]] = g[default_parent[y]]
      BY <1>1, <1>f, <2>3
    <3> QED BY <2>1, <3>1
  <2> QED BY <2>2, <2>3
<1>2. Name \subseteq Same
  <2> HIDE DEF Same
  <2> QED BY <1>1, DownTheHierarchy
<1> QED BY <1>2, <1>f

(* The merging exists down to any module.                                  *)
LEMMA MergeExists ==
  ASSUME HierarchyTypeOK, Acyclic, NEW s, NEW climbs, NEW m \in Name
  PROVE  \E f : IsMerge(s, climbs, f, m)
<1>f. /\ Above \in [Name -> SUBSET Name]
      /\ \A y \in Name : y \in Above[y]
      /\ \A y \in Name : default_parent[y] = NULL => Above[y] = {y}
      /\ \A y \in Name : default_parent[y] # NULL =>
              default_parent[y] \in Name /\ Above[y] = {y} \cup Above[default_parent[y]]
      /\ \A y \in Name : \A z \in Above[y] : default_parent[z] # NULL => default_parent[z] \in Above[y]
  BY AboveFacts
<1> DEFINE Good == {y \in Name : \E f : IsMerge(s, climbs, f, y)}
<1>1. ASSUME NEW y \in Name, default_parent[y] = NULL \/ default_parent[y] \in Good
      PROVE  y \in Good
  <2>1. CASE default_parent[y] = NULL
    <3> DEFINE f == [x \in {y} |-> NodesAt(s, climbs, y, {})]
    <3>1. \A u, v : NodesAt(s, climbs, y, u) = NodesAt(s, climbs, y, v)
      BY <2>1 DEF NodesAt, InstancesAt
    <3>2. f = [x \in {y} |-> NodesAt(s, climbs, x, f[default_parent[x]])]
      <4> DEFINE h == [x \in {y} |-> NodesAt(s, climbs, x, f[default_parent[x]])]
      <4>1. h[y] = NodesAt(s, climbs, y, f[default_parent[y]])
        OBVIOUS
      <4>2. h[y] = NodesAt(s, climbs, y, {})
        BY <4>1, <3>1
      <4> QED BY <4>2
    <3>3. Above[y] = {y}
      BY <1>f, <2>1
    <3> HIDE DEF f
    <3>4. IsMerge(s, climbs, f, y)
      BY <3>2, <3>3 DEF IsMerge
    <3> QED BY <3>4
  <2>2. CASE default_parent[y] # NULL
    <3> DEFINE p == default_parent[y]
    <3>1. p \in Name /\ Above[y] = {y} \cup Above[p] /\ p \in Above[p] /\ p \in Good
      BY <1>1, <1>f, <2>2
    <3>2. PICK g : IsMerge(s, climbs, g, p)
      BY <3>1
    <3>3. y \notin Above[p]
      <4>1. p \in Above[y]
        BY <3>1
      <4>2. y \in Above[p] => p = y
        BY <4>1, <3>1, AboveOrder
      <4>3. p # y
        BY Acyclic, <3>1 DEF Acyclic
      <4> QED BY <4>2, <4>3
    <3> DEFINE f == [x \in Above[y] |-> IF x = y THEN NodesAt(s, climbs, y, g[p]) ELSE g[x]]
    <3>4. ASSUME NEW x \in Above[y]
          PROVE  f[x] = NodesAt(s, climbs, x, f[default_parent[x]])
      <4>1. CASE x = y
        BY <4>1, <3>1, <3>3
      <4>2. CASE x # y
        <5>1. x \in Above[p] /\ x \in Name
          BY <4>2, <3>1, <1>f
        <5>2. g[x] = NodesAt(s, climbs, x, g[default_parent[x]])
          BY <5>1, <3>2 DEF IsMerge
        <5>3. CASE default_parent[x] = NULL
          <6>1. \A u, v : NodesAt(s, climbs, x, u) = NodesAt(s, climbs, x, v)
            BY <5>3 DEF NodesAt, InstancesAt
          <6>2. f[x] = g[x]
            BY <4>2
          <6> HIDE DEF f
          <6> QED BY <6>1, <5>2, <6>2
        <5>4. CASE default_parent[x] # NULL
          <6>1. default_parent[x] \in Above[p]
            BY <5>1, <5>4, <3>1, <1>f
          <6>2. f[default_parent[x]] = g[default_parent[x]]
            BY <6>1, <3>1, <3>3
          <6> QED BY <4>2, <5>2, <6>2
        <5> QED BY <5>3, <5>4
      <4> QED BY <4>1, <4>2
    <3>5. f = [x \in Above[y] |-> f[x]]
      OBVIOUS
    <3> HIDE DEF f
    <3>6. IsMerge(s, climbs, f, y)
      BY <3>4, <3>5 DEF IsMerge
    <3> QED BY <3>6
  <2> QED BY <2>1, <2>2
<1>2. Name \subseteq Good
  <2> HIDE DEF Good
  <2> QED BY <1>1, DownTheHierarchy
<1> QED BY <1>2

(* Merge does at every module what it says. *)
LEMMA MergeStep ==
  ASSUME HierarchyTypeOK, Acyclic, NEW s, NEW climbs
  PROVE  Merge(s, climbs) =
           [m \in Name |-> NodesAt(s, climbs, m, Merge(s, climbs)[default_parent[m]])]
<1>f. /\ Above \in [Name -> SUBSET Name]
      /\ \A y \in Name : y \in Above[y]
      /\ \A y \in Name : \A z \in Above[y] : default_parent[z] # NULL => default_parent[z] \in Above[y]
      /\ \A y \in Name : default_parent[y] # NULL => default_parent[y] \in Name
  BY AboveFacts
<1> DEFINE of(m) == CHOOSE f : IsMerge(s, climbs, f, m)
           at == [m \in Name |-> of(m)[m]]
<1>1. \A m \in Name : IsMerge(s, climbs, of(m), m)
  BY MergeExists
<1>2. ASSUME NEW m \in Name
      PROVE  at[m] = NodesAt(s, climbs, m, at[default_parent[m]])
  <2>1. at[m] = NodesAt(s, climbs, m, of(m)[default_parent[m]])
    <3>1. IsMerge(s, climbs, of(m), m) /\ m \in Above[m]
      BY <1>1, <1>f
    <3> HIDE DEF of
    <3> QED BY <3>1 DEF IsMerge
  <2> HIDE DEF of
  <2>2. CASE default_parent[m] = NULL
    <3>1. \A u, v : NodesAt(s, climbs, m, u) = NodesAt(s, climbs, m, v)
      BY <2>2 DEF NodesAt, InstancesAt
    <3> HIDE DEF at
    <3> QED BY <3>1, <2>1
  <2>3. CASE default_parent[m] # NULL
    <3> DEFINE p == default_parent[m]
    <3>1. p \in Name /\ p \in Above[p] /\ p \in Above[m]
      BY <2>3, <1>f
    <3> HIDE DEF p
    <3>2. of(m)[p] = of(p)[p]
      BY <3>1, <1>1, OneMerge
    <3>3. at[p] = of(m)[p]
      BY <3>1, <3>2
    <3> QED BY <2>1, <3>3 DEF p
  <2> QED BY <2>2, <2>3
<1>3. at = [m \in Name |-> at[m]]
  OBVIOUS
<1> HIDE DEF at
<1>4. at = [m \in Name |-> NodesAt(s, climbs, m, at[default_parent[m]])]
  BY <1>2, <1>3
<1> QED BY <1>4 DEF Merge, NodesAt, InstancesAt, NextOf

-----------------------------------------------------------------------------
(* The children of a node at one object share out its climbs. *)
LEMMA ChildrenShare ==
  ASSUME NEW n, NEW type, NEW of
  PROVE  /\ \A x \in Children(n, type, of) :
              /\ x.type = type /\ x.of = of
              /\ x.climbs # {} /\ x.climbs \subseteq n.climbs
              /\ \A c \in x.climbs : PassesBy(c, type, of)
         /\ \A x, y \in Children(n, type, of) : x.climbs \cap y.climbs # {} => x = y
         /\ \A c \in n.climbs : PassesBy(c, type, of) =>
              \E x \in Children(n, type, of) : c \in x.climbs
<1> DEFINE S == {c \in n.climbs : PassesBy(c, type, of)}
           first == LocalName(FirstOf(type, S), type, of)
           with(c) == Together(first, LocalName(c, type, of))
           G == {{c \in S : with(c) = x} : x \in {with(c) : c \in S}}
           N == {Merged(type, of, T, HandsDown(n)) : T \in G}
<1>1. Children(n, type, of) = N
  BY Zenon DEF Children, Groups
<1>2. /\ \A T \in G : T # {} /\ T \subseteq S
      /\ \A T, U \in G : T \cap U # {} => T = U
      /\ \A c \in S : \E T \in G : c \in T
  <2> HIDE DEF S, with
  <2>1. \A T \in G : T # {} /\ T \subseteq S
    OBVIOUS
  <2>2. ASSUME NEW T \in G, NEW U \in G, NEW c \in T, c \in U  PROVE T = U
    BY <2>2
  <2>3. ASSUME NEW c \in S  PROVE \E T \in G : c \in T
    <3>1. {d \in S : with(d) = with(c)} \in G /\ c \in {d \in S : with(d) = with(c)}
      OBVIOUS
    <3> QED BY <3>1
  <2> QED BY <2>1, <2>2, <2>3
<1> HIDE DEF G
<1>3. \A T \in G : LET x == Merged(type, of, T, HandsDown(n))
                   IN  x.type = type /\ x.of = of /\ x.climbs = T
  BY DEF Merged
<1>4. ASSUME NEW x \in N
      PROVE  /\ x.type = type /\ x.of = of
             /\ x.climbs \in G /\ x = Merged(type, of, x.climbs, HandsDown(n))
  BY <1>3
<1>5. \A T \in G : \E x \in N : x.climbs = T
  BY <1>3
<1> HIDE DEF N
<1>6. \A x \in N : /\ x.type = type /\ x.of = of
                   /\ x.climbs # {} /\ x.climbs \subseteq n.climbs
                   /\ \A c \in x.climbs : PassesBy(c, type, of)
  BY <1>2, <1>4
<1>7. \A x, y \in N : x.climbs \cap y.climbs # {} => x = y
  BY <1>2, <1>4
<1>8. \A c \in n.climbs : PassesBy(c, type, of) => \E x \in N : c \in x.climbs
  BY <1>2, <1>5
<1> QED BY <1>1, <1>6, <1>7, <1>8

(* What is known of the nodes N at one object in the climbs C.             *)
Layer(N, type, of, C) ==
  /\ \A x \in N : /\ x.type = type /\ x.of = of
                  /\ x.climbs # {} /\ x.climbs \subseteq C
                  /\ \A c \in x.climbs : PassesBy(c, type, of)
  /\ \A x, y \in N : x.climbs \cap y.climbs # {} => x = y

Full(N, type, of, C) == \A c \in C : PassesBy(c, type, of) => \E x \in N : c \in x.climbs

(* One level of the merging: good nodes have good children, and full       *)
(* levels full ones.                                                       *)
LEMMA NextLayer ==
  ASSUME NEW N, NEW above, NEW around, NEW C, Layer(N, above, around, C), NEW type, NEW of
  PROVE  /\ Layer(NextOf(N, type, of), type, of, C)
         /\ \A x \in NextOf(N, type, of) : \E n \in N : x.climbs \subseteq n.climbs
         /\ /\ Full(N, above, around, C)
            /\ \A c \in C : PassesBy(c, type, of) => PassesBy(c, above, around)
            => Full(NextOf(N, type, of), type, of, C)
<1> DEFINE M == NextOf(N, type, of)
<1>1. \A x : x \in M <=> \E n \in N : x \in Children(n, type, of)
  BY DEF NextOf
<1> HIDE DEF M
<1>2. ASSUME NEW x \in M
      PROVE  /\ x.type = type /\ x.of = of
             /\ x.climbs # {} /\ x.climbs \subseteq C
             /\ \A c \in x.climbs : PassesBy(c, type, of)
             /\ \E n \in N : x.climbs \subseteq n.climbs
  <2>1. PICK n \in N : x \in Children(n, type, of)
    BY <1>1
  <2>2. n.climbs \subseteq C
    BY DEF Layer
  <2> QED BY <2>1, <2>2, ChildrenShare
<1>3. ASSUME NEW x \in M, NEW y \in M, x.climbs \cap y.climbs # {}
      PROVE  x = y
  <2>1. PICK n \in N : x \in Children(n, type, of)
    BY <1>1
  <2>2. PICK k \in N : y \in Children(k, type, of)
    BY <1>1
  <2>3. x.climbs \subseteq n.climbs /\ y.climbs \subseteq k.climbs
    BY <2>1, <2>2, ChildrenShare
  <2>4. n = k
    BY <1>3, <2>3 DEF Layer
  <2> QED BY <1>3, <2>1, <2>2, <2>4, ChildrenShare
<1>4. ASSUME Full(N, above, around, C), NEW c \in C, PassesBy(c, type, of), PassesBy(c, above, around)
      PROVE  \E x \in M : c \in x.climbs
  <2>1. PICK n \in N : c \in n.climbs
    BY <1>4 DEF Full
  <2>2. PICK x \in Children(n, type, of) : c \in x.climbs
    BY <1>4, <2>1, ChildrenShare
  <2> QED BY <1>1, <2>2
<1> QED BY <1>2, <1>3, <1>4 DEF Layer, Full, M

(* The climbs follow the hierarchy. *)
GoodClimbs(C) ==
  \A c \in C : /\ c.from \in Name /\ c.from \in modules \ resource /\ c.modules = Above[c.from]
               /\ c.leaf # NULL => /\ c.leaf \in Name /\ instances[c.leaf] # NULL
                                   /\ instances[c.leaf].parent = c.from
                                   /\ instances[c.leaf].module \in resource

Rooted(C) == \E r \in Name : default_parent[r] = NULL /\ \A c \in C : r \in c.modules

(* So all nodes of a module and of its default instance are good, by       *)
(* DownTheHierarchy.                                                       *)
LEMMA MergeLayers ==
  ASSUME HierarchyTypeOK, Acyclic, NEW s, NEW C, C # {}, GoodClimbs(C), NEW m \in Name
  PROVE  LET at == Merge(s, C)
         IN  /\ Layer(at[m].instance, "instance", m, C)
             /\ Layer(at[m].module, "module", m, C)
             /\ Rooted(C) => Full(at[m].instance, "instance", m, C) /\ Full(at[m].module, "module", m, C)
<1> DEFINE at == Merge(s, C)
           Good == {x \in Name : /\ Layer(at[x].instance, "instance", x, C)
                                 /\ Layer(at[x].module, "module", x, C)
                                 /\ Rooted(C) => /\ Full(at[x].instance, "instance", x, C)
                                                 /\ Full(at[x].module, "module", x, C)}
<1>f. /\ Above \in [Name -> SUBSET Name]
      /\ \A y \in Name : y \in Above[y]
      /\ \A y \in Name : \A z \in Above[y] : default_parent[z] # NULL => default_parent[z] \in Above[y]
      /\ \A y \in Name : default_parent[y] # NULL => default_parent[y] \in Name
  BY AboveFacts
<1>p. /\ \A c, x : PassesBy(c, "instance", x) <=> x \in c.modules
      /\ \A c, x : PassesBy(c, "module", x) <=> x \in c.modules
  BY DEF PassesBy
<1>1. ASSUME NEW x \in Name, default_parent[x] = NULL \/ default_parent[x] \in Good
      PROVE  x \in Good
  <2> DEFINE N == at[x].instance
  <2>1. /\ N = InstancesAt(s, C, x, at[default_parent[x]])
        /\ at[x].module = NextOf(N, "module", x)
    <3>1. at[x] = NodesAt(s, C, x, at[default_parent[x]])
      BY MergeStep
    <3> QED BY <3>1 DEF NodesAt
  <2> HIDE DEF at, N
  <2>2. Layer(N, "instance", x, C) /\ (Rooted(C) => Full(N, "instance", x, C))
    <3>1. CASE default_parent[x] = NULL
      <4>1. N = TreeRoot(s, C, x)
        BY <2>1, <3>1 DEF InstancesAt
      <4>2. CASE \A c \in C : x \in c.modules
        <5> DEFINE r == Merged("instance", x, C, <<s>>)
        <5>1. N = {r} /\ r.type = "instance" /\ r.of = x /\ r.climbs = C
          BY <4>1, <4>2 DEF TreeRoot, Merged
        <5> HIDE DEF r
        <5> QED BY <5>1, <4>2, <1>p DEF Layer, Full
      <4>3. CASE ~ \A c \in C : x \in c.modules
        <5>1. N = {}
          BY <4>1, <4>3 DEF TreeRoot
        <5>2. ASSUME Rooted(C), NEW c \in C, x \in c.modules
              PROVE  FALSE
          <6>1. PICK r \in Name : default_parent[r] = NULL /\ \A d \in C : r \in d.modules
            BY <5>2 DEF Rooted
          <6>2. c.from \in Name /\ r \in Up(c.from) /\ x \in Up(c.from)
            BY <5>2, <6>1, AboveFacts DEF GoodClimbs
          <6>3. r = x
            BY <6>1, <6>2, <3>1, OneRoot DEF HierarchyTypeOK
          <6> QED BY <6>1, <6>3, <4>3
        <5> QED BY <5>1, <5>2, <1>p DEF Layer, Full
      <4> QED BY <4>2, <4>3
    <3>2. CASE default_parent[x] # NULL
      <4> DEFINE p == default_parent[x]
      <4>1. p \in Good /\ p \in Name
        BY <1>1, <3>2, <1>f
      <4>2. N = NextOf(at[p].module, "instance", x)
        BY <2>1, <3>2 DEF InstancesAt
      <4>3. \A c \in C : x \in c.modules => p \in c.modules
        BY <1>f, <3>2 DEF GoodClimbs
      <4> HIDE DEF p
      <4>4. /\ Layer(at[p].module, "module", p, C)
            /\ Rooted(C) => Full(at[p].module, "module", p, C)
        BY <4>1
      <4>5. \A c \in C : PassesBy(c, "instance", x) => PassesBy(c, "module", p)
        BY <4>3, <1>p
      <4> QED BY <4>2, <4>4, <4>5, NextLayer
    <3> QED BY <3>1, <3>2
  <2>3. \A c \in C : PassesBy(c, "module", x) => PassesBy(c, "instance", x)
    BY <1>p
  <2>4. Layer(at[x].module, "module", x, C) /\ (Rooted(C) => Full(at[x].module, "module", x, C))
    BY <2>1, <2>2, <2>3, NextLayer
  <2> QED BY <2>2, <2>4 DEF N
<1>2. Name \subseteq Good
  <2> HIDE DEF Good
  <2> QED BY <1>1, DownTheHierarchy
<1> QED BY <1>2

-----------------------------------------------------------------------------
(* The nodes of the tree at one object. *)
LeavesAt(s, C, i) == NextOf(Merge(s, C)[instances[i].parent].module, "leaf", i)

(* Where the nodes of a tree come from.                                    *)
LEMMA TreeParts ==
  ASSUME HierarchyTypeOK, Acyclic, NEW s, NEW C, C # {}, GoodClimbs(C), NEW n
  PROVE  n \in Tree(s, C) <=>
           \/ \E m \in Name : n \in Merge(s, C)[m].instance
           \/ \E m \in Name : n \in Merge(s, C)[m].module
           \/ \E c \in C : c.leaf # NULL /\ n \in LeavesAt(s, C, c.leaf)
<1> DEFINE at == Merge(s, C)
           leaves(c) == IF c.leaf = NULL THEN {} ELSE NextOf(at[c.from].module, "leaf", c.leaf)
<1> DEFINE U == UNION {at[m].instance \cup at[m].module : m \in Name}
           V == UNION {leaves(c) : c \in C}
<1>1. Tree(s, C) = U \cup V
  BY DEF Tree, NextOf
<1>2. ASSUME NEW c \in C, c.leaf # NULL
      PROVE  leaves(c) = LeavesAt(s, C, c.leaf)
  BY <1>2 DEF LeavesAt, GoodClimbs
<1>3. \A c \in C : c.leaf = NULL => leaves(c) = {}
  OBVIOUS
<1> HIDE DEF at, leaves
<1>u. n \in U <=> \/ \E m \in Name : n \in at[m].instance
                  \/ \E m \in Name : n \in at[m].module
  BY Zenon
<1>v. n \in V <=> \E c \in C : n \in leaves(c)
  BY Zenon
<1> HIDE DEF U, V
<1>4. n \in Tree(s, C) <=> \/ \E m \in Name : n \in at[m].instance
                           \/ \E m \in Name : n \in at[m].module
                           \/ \E c \in C : n \in leaves(c)
  <2>1. n \in Tree(s, C) <=> n \in U \/ n \in V
    BY <1>1
  <2> QED BY <2>1, <1>u, <1>v
<1> QED BY <1>2, <1>3, <1>4 DEF at

(* A leaf is the only object with its name in the climbs. *)
LEMMA LeafLayer ==
  ASSUME HierarchyTypeOK, Acyclic, NEW s, NEW C, C # {}, GoodClimbs(C),
         NEW c \in C, c.leaf # NULL
  PROVE  /\ Layer(LeavesAt(s, C, c.leaf), "leaf", c.leaf, C)
         /\ \A x \in LeavesAt(s, C, c.leaf) : \E p \in Merge(s, C)[c.from].module : x.climbs \subseteq p.climbs
         /\ Rooted(C) => Full(LeavesAt(s, C, c.leaf), "leaf", c.leaf, C)
<1> DEFINE i == c.leaf
           m == c.from
           N == Merge(s, C)[m].module
<1>1. m \in Name /\ i \in Name /\ instances[i].parent = m
  BY DEF GoodClimbs
<1>2. Layer(N, "module", m, C) /\ (Rooted(C) => Full(N, "module", m, C))
  BY <1>1, MergeLayers
<1>3. ASSUME NEW d \in C, PassesBy(d, "leaf", i)
      PROVE  PassesBy(d, "module", m)
  <2>1. d.leaf = i /\ d.leaf # NULL
    BY <1>3 DEF PassesBy
  <2>2. d.from = m /\ d.modules = Above[m]
    BY <1>1, <2>1 DEF GoodClimbs
  <2> QED BY <2>2, <1>1, AboveFacts DEF PassesBy
<1>4. LeavesAt(s, C, c.leaf) = NextOf(N, "leaf", i)
  BY <1>1 DEF LeavesAt
<1> HIDE DEF i, N, m
<1>5. /\ Layer(NextOf(N, "leaf", i), "leaf", i, C)
      /\ \A x \in NextOf(N, "leaf", i) : \E y \in N : x.climbs \subseteq y.climbs
      /\ Rooted(C) => Full(NextOf(N, "leaf", i), "leaf", i, C)
  <2>1. Layer(N, "module", m, C)
    BY <1>2
  <2>2. /\ Layer(NextOf(N, "leaf", i), "leaf", i, C)
        /\ \A x \in NextOf(N, "leaf", i) : \E y \in N : x.climbs \subseteq y.climbs
    BY <2>1, NextLayer
  <2>3. Full(N, "module", m, C) => Full(NextOf(N, "leaf", i), "leaf", i, C)
    BY <2>1, <1>3, NextLayer
  <2> QED BY <2>2, <2>3, <1>2
<1> QED BY <1>4, <1>5 DEF i, N, m

(* The nodes of a tree: what they stand for, and that the climbs tell      *)
(* those at one object apart.                                              *)
LEMMA TreeNodes ==
  ASSUME HierarchyTypeOK, Acyclic, NEW s, NEW C, C # {}, GoodClimbs(C)
  PROVE  /\ \A n \in Tree(s, C) :
              /\ n.type \in {"instance", "module", "leaf"} /\ n.of \in Name
              /\ n.climbs # {} /\ n.climbs \subseteq C
              /\ \A c \in n.climbs : PassesBy(c, n.type, n.of)
              /\ n.type = "leaf" => /\ instances[n.of] # NULL
                                    /\ instances[n.of].parent \in Name
                                    /\ instances[n.of].module \in resource
         /\ \A n, k \in Tree(s, C) :
              n.type = k.type /\ n.of = k.of /\ n.climbs \cap k.climbs # {} => n = k
<1> DEFINE T == Tree(s, C)
           At(type, of) == IF type = "leaf" THEN LeavesAt(s, C, of)
                           ELSE IF type = "module" THEN Merge(s, C)[of].module
                           ELSE Merge(s, C)[of].instance
<1>1. ASSUME NEW n \in T
      PROVE  /\ n.type \in {"instance", "module", "leaf"} /\ n.of \in Name
             /\ n \in At(n.type, n.of)
             /\ Layer(At(n.type, n.of), n.type, n.of, C)
  <2>1. CASE \E m \in Name : n \in Merge(s, C)[m].instance
    <3>1. PICK m \in Name : n \in Merge(s, C)[m].instance
      BY <2>1
    <3>2. Layer(Merge(s, C)[m].instance, "instance", m, C)
      BY MergeLayers
    <3>3. n.type = "instance" /\ n.of = m
      BY <3>1, <3>2 DEF Layer
    <3> QED BY <3>1, <3>2, <3>3
  <2>2. CASE \E m \in Name : n \in Merge(s, C)[m].module
    <3>1. PICK m \in Name : n \in Merge(s, C)[m].module
      BY <2>2
    <3>2. Layer(Merge(s, C)[m].module, "module", m, C)
      BY MergeLayers
    <3>3. n.type = "module" /\ n.of = m
      BY <3>1, <3>2 DEF Layer
    <3> QED BY <3>1, <3>2, <3>3
  <2>3. CASE \E c \in C : c.leaf # NULL /\ n \in LeavesAt(s, C, c.leaf)
    <3>1. PICK c \in C : c.leaf # NULL /\ n \in LeavesAt(s, C, c.leaf)
      BY <2>3
    <3>2. Layer(LeavesAt(s, C, c.leaf), "leaf", c.leaf, C) /\ c.leaf \in Name
      BY <3>1, LeafLayer DEF GoodClimbs
    <3>3. n.type = "leaf" /\ n.of = c.leaf
      BY <3>1, <3>2 DEF Layer
    <3> QED BY <3>1, <3>2, <3>3
  <2> QED BY <2>1, <2>2, <2>3, TreeParts
<1> HIDE DEF At
<1>2. ASSUME NEW n \in T
      PROVE  /\ n.climbs # {} /\ n.climbs \subseteq C
             /\ \A c \in n.climbs : PassesBy(c, n.type, n.of)
  BY <1>1 DEF Layer
<1>3. ASSUME NEW n \in T, n.type = "leaf"
      PROVE  /\ instances[n.of] # NULL /\ instances[n.of].parent \in Name
             /\ instances[n.of].module \in resource
  <2>1. PICK c \in C : c \in n.climbs /\ PassesBy(c, "leaf", n.of)
    BY <1>2, <1>3
  <2>2. c.leaf = n.of /\ n.of \in Name
    BY <2>1, <1>1 DEF PassesBy
  <2>3. n.of # NULL
    BY <2>2, NameAssumption
  <2> QED BY <2>2, <2>3 DEF GoodClimbs
<1>4. ASSUME NEW n \in T, NEW k \in T, n.type = k.type, n.of = k.of, n.climbs \cap k.climbs # {}
      PROVE  n = k
  <2>1. n \in At(n.type, n.of) /\ k \in At(n.type, n.of) /\ Layer(At(n.type, n.of), n.type, n.of, C)
    BY <1>1, <1>4
  <2> QED BY <2>1, <1>4 DEF Layer
<1> QED BY <1>1, <1>2, <1>3, <1>4

-----------------------------------------------------------------------------
(* The two equations of the merging, at one module.                        *)
LEMMA MergeParts ==
  ASSUME HierarchyTypeOK, Acyclic, NEW s, NEW C, NEW m \in Name
  PROVE  LET at == Merge(s, C)
         IN  /\ at[m].module = NextOf(at[m].instance, "module", m)
             /\ default_parent[m] = NULL => at[m].instance = TreeRoot(s, C, m)
             /\ default_parent[m] # NULL =>
                  at[m].instance = NextOf(at[default_parent[m]].module, "instance", m)
<1> DEFINE at == Merge(s, C)
<1>1. at[m] = NodesAt(s, C, m, at[default_parent[m]])
  BY MergeStep
<1> HIDE DEF at
<1>2. /\ at[m].instance = InstancesAt(s, C, m, at[default_parent[m]])
      /\ at[m].module = NextOf(at[m].instance, "module", m)
  BY <1>1 DEF NodesAt
<1> QED BY <1>2 DEF InstancesAt, at

(* A tree begins at a module that all climbs reach. *)
LEMMA TreeIsRooted ==
  ASSUME HierarchyTypeOK, Acyclic, NEW s, NEW C, C # {}, GoodClimbs(C), Tree(s, C) # {}
  PROVE  Rooted(C)
<1> SUFFICES ASSUME ~ Rooted(C) PROVE FALSE
  OBVIOUS
<1> DEFINE at == Merge(s, C)
           Empty == {m \in Name : at[m].instance = {} /\ at[m].module = {}}
<1>1. ASSUME NEW m \in Name, default_parent[m] = NULL \/ default_parent[m] \in Empty
      PROVE  m \in Empty
  <2>1. at[m].instance = {}
    <3>1. CASE default_parent[m] = NULL
      <4>1. at[m].instance = TreeRoot(s, C, m)
        BY <3>1, MergeParts
      <4>2. ~ \A c \in C : m \in c.modules
        BY <3>1 DEF Rooted
      <4> QED BY <4>1, <4>2 DEF TreeRoot
    <3>2. CASE default_parent[m] # NULL
      <4>1. at[m].instance = NextOf(at[default_parent[m]].module, "instance", m)
        BY <3>2, MergeParts
      <4>2. at[default_parent[m]].module = {}
        BY <1>1, <3>2
      <4> QED BY <4>1, <4>2 DEF NextOf
    <3> QED BY <3>1, <3>2
  <2>2. at[m].module = NextOf(at[m].instance, "module", m)
    BY MergeParts
  <2>3. at[m].module = {}
    BY <2>1, <2>2 DEF NextOf
  <2> QED BY <2>1, <2>3
<1>2. Name \subseteq Empty
  <2> HIDE DEF Empty
  <2> QED BY <1>1, DownTheHierarchy
<1>3. PICK n : n \in Tree(s, C)
  OBVIOUS
<1>4. ASSUME NEW c \in C, c.leaf # NULL PROVE LeavesAt(s, C, c.leaf) = {}
  <2>1. instances[c.leaf].parent \in Empty
    BY <1>2, <1>4 DEF GoodClimbs
  <2> QED BY <2>1 DEF LeavesAt, NextOf
<1>5. \A m \in Name : at[m].instance = {} /\ at[m].module = {}
  BY <1>2
<1> HIDE DEF at
<1>6. \/ \E m \in Name : n \in at[m].instance
      \/ \E m \in Name : n \in at[m].module
      \/ \E c \in C : c.leaf # NULL /\ n \in LeavesAt(s, C, c.leaf)
  BY <1>3, TreeParts DEF at
<1> QED BY <1>4, <1>5, <1>6

(* The trees are full: at every object there are nodes for all climbs that *)
(* pass by it.                                                             *)
LEMMA TreeIsFull ==
  ASSUME HierarchyTypeOK, Acyclic, NEW s, NEW C, C # {}, GoodClimbs(C), Rooted(C),
         NEW c \in C, NEW type \in {"instance", "module", "leaf"}, NEW of \in Name,
         PassesBy(c, type, of)
  PROVE  \E n \in Tree(s, C) : n.type = type /\ n.of = of /\ c \in n.climbs
<1>1. CASE type = "instance"
  <2>1. of \in c.modules
    BY <1>1 DEF PassesBy
  <2>2. /\ Full(Merge(s, C)[of].instance, "instance", of, C)
        /\ Layer(Merge(s, C)[of].instance, "instance", of, C)
    BY MergeLayers
  <2>3. PICK n \in Merge(s, C)[of].instance : c \in n.climbs
    BY <1>1, <2>2 DEF Full
  <2>4. n \in Tree(s, C)
    BY <2>3, TreeParts
  <2> QED BY <1>1, <2>2, <2>3, <2>4 DEF Layer
<1>2. CASE type = "module"
  <2>2. /\ Full(Merge(s, C)[of].module, "module", of, C)
        /\ Layer(Merge(s, C)[of].module, "module", of, C)
    BY MergeLayers
  <2>3. PICK n \in Merge(s, C)[of].module : c \in n.climbs
    BY <1>2, <2>2 DEF Full
  <2>4. n \in Tree(s, C)
    BY <2>3, TreeParts
  <2> QED BY <1>2, <2>2, <2>3, <2>4 DEF Layer
<1>3. CASE type = "leaf"
  <2>1. c.leaf = of /\ c.leaf # NULL
    BY <1>3, NameAssumption DEF PassesBy
  <2>2. /\ Full(LeavesAt(s, C, of), "leaf", of, C)
        /\ Layer(LeavesAt(s, C, of), "leaf", of, C)
    BY <2>1, LeafLayer
  <2>3. PICK n \in LeavesAt(s, C, of) : c \in n.climbs
    BY <1>3, <2>2 DEF Full
  <2>4. n \in Tree(s, C)
    BY <2>1, <2>3, TreeParts
  <2> QED BY <1>3, <2>2, <2>3, <2>4 DEF Layer
<1> QED BY <1>1, <1>2, <1>3

(* Every node but the root of a tree is below one at the object around.    *)
LEMMA TreeParent ==
  ASSUME HierarchyTypeOK, Acyclic, NEW s, NEW C, C # {}, GoodClimbs(C),
         NEW n \in Tree(s, C), n.type = "instance" => default_parent[n.of] # NULL
  PROVE  \E p \in Tree(s, C) : IsParent(p, n)
<1>0. Tree(s, C) # {}
  OBVIOUS
<1>t. /\ \A k \in Tree(s, C) :
           /\ k.type \in {"instance", "module", "leaf"} /\ k.of \in Name
           /\ k.climbs # {} /\ k.climbs \subseteq C
           /\ \A c \in k.climbs : PassesBy(c, k.type, k.of)
  BY TreeNodes
<1>1. ASSUME NEW N, NEW type, NEW of, Layer(N, type, of, C), NEW M, M = NextOf(N, n.type, n.of),
             n \in M, \A p \in N : p \in Tree(s, C), Around(n) = <<type, of>>
      PROVE  \E p \in Tree(s, C) : IsParent(p, n)
  <2>1. PICK p \in N : n \in Children(p, n.type, n.of)
    BY <1>1 DEF NextOf
  <2>2. n.climbs \subseteq p.climbs
    BY <2>1, ChildrenShare
  <2>3. p.type = type /\ p.of = of
    BY <1>1 DEF Layer
  <2> QED BY <1>1, <2>2, <2>3 DEF IsParent
<1>2. ASSUME NEW m \in Name, n \in Merge(s, C)[m].instance
      PROVE  \E p \in Tree(s, C) : IsParent(p, n)
  <2>1. n.type = "instance" /\ n.of = m
    BY <1>2, MergeLayers DEF Layer
  <2> DEFINE p == default_parent[m]
             N == Merge(s, C)[p].module
  <2>2. p # NULL /\ p \in Name /\ Around(n) = <<"module", p>>
    BY <2>1 DEF HierarchyTypeOK, Around
  <2>3. Layer(N, "module", p, C) /\ \A x \in N : x \in Tree(s, C)
    BY <2>2, MergeLayers, TreeParts
  <2>4. Merge(s, C)[m].instance = NextOf(N, "instance", m)
    BY <2>2, MergeParts
  <2> HIDE DEF p, N
  <2> QED BY <1>1, <1>2, <2>1, <2>2, <2>3, <2>4
<1>3. ASSUME NEW m \in Name, n \in Merge(s, C)[m].module
      PROVE  \E p \in Tree(s, C) : IsParent(p, n)
  <2>1. n.type = "module" /\ n.of = m
    BY <1>3, MergeLayers DEF Layer
  <2> DEFINE N == Merge(s, C)[m].instance
  <2>2. Around(n) = <<"instance", m>>
    BY <2>1 DEF Around
  <2>3. Layer(N, "instance", m, C) /\ \A x \in N : x \in Tree(s, C)
    BY MergeLayers, TreeParts
  <2>4. Merge(s, C)[m].module = NextOf(N, "module", m)
    BY MergeParts
  <2> HIDE DEF N
  <2> QED BY <1>1, <1>3, <2>1, <2>2, <2>3, <2>4
<1>4. ASSUME NEW c \in C, c.leaf # NULL, n \in LeavesAt(s, C, c.leaf)
      PROVE  \E p \in Tree(s, C) : IsParent(p, n)
  <2>1. n.type = "leaf" /\ n.of = c.leaf
    BY <1>4, LeafLayer DEF Layer
  <2> DEFINE p == instances[c.leaf].parent
             N == Merge(s, C)[p].module
  <2>2. p \in Name /\ Around(n) = <<"module", p>>
    BY <2>1, <1>4 DEF GoodClimbs, Around
  <2>3. Layer(N, "module", p, C) /\ \A x \in N : x \in Tree(s, C)
    BY <2>2, MergeLayers, TreeParts
  <2>4. LeavesAt(s, C, c.leaf) = NextOf(N, "leaf", c.leaf)
    BY DEF LeavesAt
  <2> HIDE DEF p, N
  <2> QED BY <1>1, <1>4, <2>1, <2>2, <2>3, <2>4
<1> QED BY <1>2, <1>3, <1>4, TreeParts

-----------------------------------------------------------------------------
(* What is needed to know of the tree of the climbs C. *)
IsTree(T, C) ==
  /\ \A n \in T : /\ n.type \in {"instance", "module", "leaf"} /\ n.of \in Name
                  /\ n.climbs # {} /\ n.climbs \subseteq C
                  /\ \A c \in n.climbs : PassesBy(c, n.type, n.of)
                  /\ n.type = "leaf" => /\ instances[n.of] # NULL
                                        /\ instances[n.of].parent \in Name
                                        /\ instances[n.of].module \in resource
  /\ \A n, k \in T : n.type = k.type /\ n.of = k.of /\ n.climbs \cap k.climbs # {} => n = k
  /\ \A c \in C, type \in {"instance", "module", "leaf"}, of \in Name :
       PassesBy(c, type, of) => \E n \in T : n.type = type /\ n.of = of /\ c \in n.climbs
  /\ \A n \in T : (n.type = "instance" => default_parent[n.of] # NULL) => \E p \in T : IsParent(p, n)

(* What the merging yields is a tree: each node but the root has one       *)
(* parent.                                                                 *)
LEMMA TreeIsTree ==
  ASSUME HierarchyTypeOK, Acyclic, NEW s, NEW C, C # {}, GoodClimbs(C), Tree(s, C) # {}
  PROVE  IsTree(Tree(s, C), C)
<1>1. Rooted(C)
  BY TreeIsRooted
<1>2. /\ \A n \in Tree(s, C) :
           /\ n.type \in {"instance", "module", "leaf"} /\ n.of \in Name
           /\ n.climbs # {} /\ n.climbs \subseteq C
           /\ \A c \in n.climbs : PassesBy(c, n.type, n.of)
           /\ n.type = "leaf" => /\ instances[n.of] # NULL
                                 /\ instances[n.of].parent \in Name
                                 /\ instances[n.of].module \in resource
      /\ \A n, k \in Tree(s, C) :
           n.type = k.type /\ n.of = k.of /\ n.climbs \cap k.climbs # {} => n = k
  BY TreeNodes
<1>3. \A c \in C, type \in {"instance", "module", "leaf"}, of \in Name :
        PassesBy(c, type, of) => \E n \in Tree(s, C) : n.type = type /\ n.of = of /\ c \in n.climbs
  BY <1>1, TreeIsFull
<1>4. \A n \in Tree(s, C) : (n.type = "instance" => default_parent[n.of] # NULL) =>
                               \E p \in Tree(s, C) : IsParent(p, n)
  BY TreeParent
<1> HIDE DEF PassesBy, IsParent
<1> QED BY <1>2, <1>3, <1>4 DEF IsTree

(* The module that an object is, or is in. *)
ModuleAt(n) == IF n.type = "leaf" THEN instances[n.of].parent ELSE n.of

(* The object of n is that of r or below it. *)
Beneath(n, r) ==
  IF r.type = "leaf" THEN n.type = "leaf" /\ n.of = r.of
  ELSE r.of \in Above[ModuleAt(n)] /\ ~ (r.type = "module" /\ n.type = "instance" /\ n.of = r.of)

(* What is beneath an object either is it or is around-wise beneath it.    *)
LEMMA BeneathStep ==
  ASSUME HierarchyTypeOK, Acyclic, NEW T, NEW C, IsTree(T, C),
         NEW n \in T, NEW r \in T, Beneath(n, r), ~ (n.type = r.type /\ n.of = r.of)
  PROVE  /\ n.type = "instance" => default_parent[n.of] # NULL
         /\ \A p \in T : IsParent(p, n) => Beneath(p, r)
<1>n. /\ n.type \in {"instance", "module", "leaf"} /\ n.of \in Name
      /\ n.type = "leaf" => instances[n.of].parent \in Name
  BY DEF IsTree
<1>r. r.type \in {"instance", "module"} /\ r.of \in Above[ModuleAt(n)]
      /\ ~ (r.type = "module" /\ n.type = "instance" /\ n.of = r.of)
  BY DEF Beneath, IsTree
<1>1. CASE n.type = "instance"
  <2>1. r.of # n.of /\ r.of \in Above[n.of]
    BY <1>1, <1>r DEF ModuleAt
  <2>2. default_parent[n.of] # NULL /\ r.of \in Above[default_parent[n.of]]
    BY <2>1, <1>n, AboveFacts
  <2>3. ASSUME NEW p \in T, IsParent(p, n) PROVE Beneath(p, r)
    <3>1. p.type = "module" /\ p.of = default_parent[n.of]
      BY <2>3, <1>1 DEF IsParent, Around
    <3> QED BY <3>1, <2>2, <1>r DEF Beneath, ModuleAt
  <2> QED BY <2>2, <2>3
<1>2. CASE n.type = "module"
  <2>1. ASSUME NEW p \in T, IsParent(p, n) PROVE Beneath(p, r)
    <3>1. p.type = "instance" /\ p.of = n.of
      BY <2>1, <1>2 DEF IsParent, Around
    <3> QED BY <3>1, <1>2, <1>r DEF Beneath, ModuleAt
  <2> QED BY <2>1, <1>2
<1>3. CASE n.type = "leaf"
  <2>1. ASSUME NEW p \in T, IsParent(p, n) PROVE Beneath(p, r)
    <3>1. p.type = "module" /\ p.of = instances[n.of].parent
      BY <2>1, <1>3 DEF IsParent, Around
    <3> QED BY <3>1, <1>3, <1>r DEF Beneath, ModuleAt
  <2> QED BY <2>1, <1>3
<1> QED BY <1>n, <1>1, <1>2, <1>3

(* Of two nodes that share a climb the lower one has no climb of its own.  *)
LEMMA TreeNests ==
  ASSUME HierarchyTypeOK, Acyclic, NEW T, NEW C, IsTree(T, C),
         NEW n \in T, NEW r \in T, Beneath(n, r), n.climbs \cap r.climbs # {}
  PROVE  n.climbs \subseteq r.climbs
<1> DEFINE Nests(y) == Beneath(y, r) /\ y.climbs \cap r.climbs # {} => y.climbs \subseteq r.climbs
           Good == {m \in Name : \A y \in T : ModuleAt(y) = m => Nests(y)}
<1>t. /\ \A y \in T : /\ y.type \in {"instance", "module", "leaf"} /\ y.of \in Name
                      /\ y.climbs # {}
                      /\ ModuleAt(y) \in Name
      /\ \A y, k \in T : y.type = k.type /\ y.of = k.of /\ y.climbs \cap k.climbs # {} => y = k
      /\ \A y \in T : (y.type = "instance" => default_parent[y.of] # NULL) => \E p \in T : IsParent(p, y)
  BY DEF IsTree, ModuleAt
<1>1. ASSUME NEW y \in T, \A p \in T : IsParent(p, y) => Nests(p)
      PROVE  Nests(y)
  <2> SUFFICES ASSUME Beneath(y, r), y.climbs \cap r.climbs # {}
               PROVE  y.climbs \subseteq r.climbs
    OBVIOUS
  <2>1. CASE y.type = r.type /\ y.of = r.of
    BY <2>1, <1>t
  <2>2. CASE ~ (y.type = r.type /\ y.of = r.of)
    <3>1. PICK p \in T : IsParent(p, y)
      BY <2>2, <1>t, BeneathStep
    <3>2. Beneath(p, r)
      BY <2>2, <3>1, BeneathStep
    <3>3. y.climbs \subseteq p.climbs
      BY <3>1 DEF IsParent
    <3> QED BY <3>1, <3>2, <3>3, <1>1
  <2> QED BY <2>1, <2>2
<1> HIDE DEF Nests
<1>2. ASSUME NEW m \in Name, default_parent[m] = NULL \/ default_parent[m] \in Good
      PROVE  m \in Good
  <2>1. ASSUME NEW y \in T, ModuleAt(y) = m, y.type = "instance" PROVE Nests(y)
    <3>1. ASSUME NEW p \in T, IsParent(p, y) PROVE Nests(p)
      <4>1. p.type = "module" /\ p.of = default_parent[m] /\ p.of \in Name
        BY <2>1, <3>1, <1>t DEF IsParent, Around, ModuleAt
      <4>2. ModuleAt(p) = default_parent[m] /\ default_parent[m] # NULL
        BY <4>1, NameAssumption DEF ModuleAt
      <4> QED BY <1>2, <4>2
    <3> QED BY <3>1, <1>1
  <2>2. ASSUME NEW y \in T, ModuleAt(y) = m, y.type = "module" PROVE Nests(y)
    <3>1. ASSUME NEW p \in T, IsParent(p, y) PROVE Nests(p)
      <4>1. p.type = "instance" /\ p.of = m
        BY <2>2, <3>1 DEF IsParent, Around, ModuleAt
      <4> QED BY <4>1, <2>1 DEF ModuleAt
    <3> QED BY <3>1, <1>1
  <2>3. ASSUME NEW y \in T, ModuleAt(y) = m, y.type = "leaf" PROVE Nests(y)
    <3>1. ASSUME NEW p \in T, IsParent(p, y) PROVE Nests(p)
      <4>1. p.type = "module" /\ p.of = m
        BY <2>3, <3>1 DEF IsParent, Around, ModuleAt
      <4> QED BY <4>1, <2>2 DEF ModuleAt
    <3> QED BY <3>1, <1>1
  <2> QED BY <2>1, <2>2, <2>3, <1>t
<1>3. Name \subseteq Good
  <2> HIDE DEF Good
  <2> QED BY <1>2, DownTheHierarchy
<1>4. Nests(n)
  BY <1>3, <1>t
<1> QED BY <1>4 DEF Nests

(* In a tree, to be under a node is to share its climbs and to be placed   *)
(* below it.                                                               *)
LEMMA UnderIsBeneath ==
  ASSUME NEW T, NEW C, IsTree(T, C), NEW n \in T, NEW r \in T
  PROVE  Under(n, r) <=> n.climbs \subseteq r.climbs /\ Beneath(n, r)
<1>1. CASE r.type = "leaf"
  <2>1. Under(n, r) => n = r /\ Beneath(n, r)
    BY <1>1 DEF Under, Beneath
  <2>2. Beneath(n, r) /\ n.climbs \subseteq r.climbs => n = r
    BY <1>1 DEF Beneath, IsTree
  <2>3. n = r => Under(n, r)
    BY <1>1 DEF Under
  <2> QED BY <2>1, <2>2, <2>3
<1>2. CASE r.type # "leaf"
  BY <1>2 DEF Under, Beneath, ModuleAt
<1> QED BY <1>1, <1>2

(* Reduce keeps all that is under what it keeps, and what it keeps begins  *)
(* at a node that is explicit or branches.                                 *)
LEMMA ReduceKeeps ==
  ASSUME HierarchyTypeOK, Acyclic, NEW T, NEW C, IsTree(T, C)
  PROVE  /\ Reduce(T) \subseteq T
         /\ \A r \in T : Stops(T, r) => r \in Reduce(T)
         /\ \A n \in Reduce(T), x \in T : IsParent(n, x) => x \in Reduce(T)
         /\ \A n \in Reduce(T) : IsRoot(Reduce(T), n) => Stops(T, n)
<1>a. \A m \in Name : m \in Above[m]
  BY AboveFacts
<1>t. /\ \A y \in T : /\ y.type \in {"instance", "module", "leaf"} /\ y.of \in Name
                      /\ y.climbs # {}
                      /\ ModuleAt(y) \in Name
      /\ \A y, k \in T : y.type = k.type /\ y.of = k.of /\ y.climbs \cap k.climbs # {} => y = k
      /\ \A y \in T : (y.type = "instance" => default_parent[y.of] # NULL) => \E p \in T : IsParent(p, y)
  BY DEF IsTree, ModuleAt
<1>1. \A n : n \in Reduce(T) <=> n \in T /\ \E r \in T : Stops(T, r) /\ Under(n, r)
  BY Zenon DEF Reduce
<1>2. ASSUME NEW r \in T, Stops(T, r) PROVE r \in Reduce(T)
  <2>1. Beneath(r, r)
    BY <1>t, <1>a DEF Beneath, ModuleAt
  <2> QED BY <1>1, <1>2, <2>1, UnderIsBeneath
<1>3. ASSUME NEW n \in Reduce(T), NEW x \in T, IsParent(n, x)
      PROVE  x \in Reduce(T)
  <2>1. PICK r \in T : n \in T /\ Stops(T, r) /\ Under(n, r)
    BY <1>1
  <2>2. n.climbs \subseteq r.climbs /\ Beneath(n, r) /\ x.climbs \subseteq n.climbs
    BY <2>1, <1>3, UnderIsBeneath DEF IsParent
  <2>3. r.type # "leaf"
    <3>1. n.type # "leaf"
      BY <1>3, <1>t DEF IsParent, Around
    <3> QED BY <3>1, <2>2 DEF Beneath
  <2>4. r.of \in Above[ModuleAt(x)]
    <3>1. r.of \in Above[n.of] /\ n.of \in Name
      BY <2>1, <2>2, <2>3, <1>3, <1>t DEF Beneath, IsParent, Around, ModuleAt
    <3>2. n.of \in Above[ModuleAt(x)]
      <4>1. CASE x.type = "instance"
        <5>1. n.of = default_parent[x.of]
          BY <4>1, <1>3 DEF IsParent, Around
        <5> QED BY <4>1, <5>1, <3>1, <1>t, NameAssumption, AboveFacts DEF ModuleAt
      <4>2. CASE x.type # "instance"
        <5>1. n.of = ModuleAt(x)
          BY <4>2, <1>3, <1>t DEF IsParent, Around, ModuleAt
        <5> QED BY <5>1, <3>1, <1>a
      <4> QED BY <4>1, <4>2
    <3> QED BY <3>1, <3>2, <1>t, AboveOrder
  <2>5. ~ (r.type = "module" /\ x.type = "instance" /\ x.of = r.of)
    <3> SUFFICES ASSUME r.type = "module", x.type = "instance", x.of = r.of PROVE FALSE
      OBVIOUS
    <3>1. n.of = default_parent[x.of] /\ n.type = "module"
      BY <1>3 DEF IsParent, Around
    <3>2. x.of \in Above[n.of] /\ n.of \in Name /\ x.of \in Name
      BY <2>1, <2>2, <3>1, <1>t DEF Beneath, ModuleAt
    <3>3. n.of \in Above[x.of]
      BY <3>1, <3>2, <1>a, NameAssumption, AboveFacts
    <3>4. n.of = x.of
      BY <3>2, <3>3, AboveOrder
    <3>5. {x.of} \in SUBSET Name /\ \A m \in {x.of} : default_parent[m] \in {x.of}
      BY <3>1, <3>2, <3>4
    <3> QED BY <3>5 DEF Acyclic
  <2>6. Beneath(x, r) /\ x.climbs \subseteq r.climbs
    BY <2>2, <2>3, <2>4, <2>5 DEF Beneath
  <2> QED BY <2>1, <2>6, <1>1, UnderIsBeneath
<1>4. ASSUME NEW n \in Reduce(T), IsRoot(Reduce(T), n)
      PROVE  Stops(T, n)
  <2>1. PICK r \in T : n \in T /\ Stops(T, r) /\ Under(n, r)
    BY <1>1
  <2>2. n.climbs \subseteq r.climbs /\ Beneath(n, r)
    BY <2>1, UnderIsBeneath
  <2>3. CASE n.type = r.type /\ n.of = r.of
    BY <2>1, <2>2, <2>3, <1>t
  <2>4. CASE ~ (n.type = r.type /\ n.of = r.of)
    <3>1. PICK p \in T : IsParent(p, n)
      BY <2>1, <2>2, <2>4, <1>t, BeneathStep
    <3>2. Beneath(p, r)
      BY <2>1, <2>2, <2>4, <3>1, BeneathStep
    <3>3. p.climbs \cap r.climbs # {}
      BY <2>1, <2>2, <3>1, <1>t DEF IsParent
    <3>4. p.climbs \subseteq r.climbs
      BY <3>2, <3>3, TreeNests
    <3>5. p \in Reduce(T)
      BY <2>1, <3>2, <3>4, <1>1, UnderIsBeneath
    <3> QED BY <3>1, <3>5, <1>4 DEF IsRoot
  <2> QED BY <2>3, <2>4
<1> QED BY <1>1, <1>2, <1>3, <1>4

-----------------------------------------------------------------------------
HierarchyInv == HierarchyTypeOK /\ Acyclic /\ TablesAgree

(* A request, and one that the commands accept. *)
IsRequest(request) ==
  /\ Numbers(request) # {} /\ Ends(request) \subseteq Endpoint
  /\ \E n \in Nat : Numbers(request) \subseteq 0 .. n
  /\ request.source = NULL \/ request.source \in Ends(request)
  /\ request.bidir \in BOOLEAN

GoodRequest(request) ==
  /\ IsRequest(request)
  /\ \A e \in Ends(request) : Known(e)

(* The climb of an endpoint begins in a module of the database. *)
LEMMA HostIsModule ==
  ASSUME HierarchyInv, NEW e \in Endpoint, Known(e), HasClimb(e)
  PROVE  /\ Host(e) \in modules \ resource /\ Host(e) \in Name
         /\ ~ OfResource(e) => Host(e) = e.of
         /\ OfResource(e) => /\ e.of \in Name /\ instances[e.of] # NULL
                             /\ instances[e.of].parent = Host(e)
                             /\ instances[e.of].module \in resource
<1> USE DEF HierarchyInv
<1>t. /\ modules \subseteq Name /\ e.of \in Name /\ e.type \in {"module", "instance"}
      /\ \A i \in Name : instances[i] # NULL =>
           /\ instances[i].module \in modules /\ instances[i].parent \in modules
           /\ instances[i].parent \notin resource
           /\ instances[i].module \notin resource => i = instances[i].module
  BY DEF HierarchyTypeOK, TablesAgree, EntriesLive, Endpoint
<1>1. CASE e.type = "module"
  BY <1>1, <1>t DEF Known, HasClimb, Host, OfResource, Generated
<1>2. CASE e.type = "instance"
  <2>1. instances[e.of] # NULL /\ Generated(e) = instances[e.of].module
    BY <1>2 DEF Known, Generated
  <2>2. CASE OfResource(e)
    BY <2>1, <2>2, <1>t DEF Host, OfResource
  <2>3. CASE ~ OfResource(e)
    BY <2>1, <2>3, <1>t DEF Host, OfResource
  <2> QED BY <2>2, <2>3
<1> QED BY <1>1, <1>2, <1>t

(* The climbs of a request that can be entered.                            *)
LEMMA ClimbsAreGood ==
  ASSUME HierarchyInv, NEW request, GoodRequest(request), \A e \in Ends(request) : HasClimb(e)
  PROVE  Climbs(request) # {} /\ GoodClimbs(Climbs(request))
<1>1. \A k \in Numbers(request) : EndAt(request, k) \in Ends(request)
  BY DEF Ends
<1>2. ASSUME NEW k \in Numbers(request)
      PROVE  LET c == Climb(request, k)
             IN  /\ c.from \in Name /\ c.from \in modules \ resource /\ c.modules = Above[c.from]
                 /\ c.leaf # NULL => /\ c.leaf \in Name /\ instances[c.leaf] # NULL
                                     /\ instances[c.leaf].parent = c.from
                                     /\ instances[c.leaf].module \in resource
  <2> DEFINE e == EndAt(request, k)
  <2>1. e \in Endpoint /\ Known(e) /\ HasClimb(e)
    BY <1>1 DEF GoodRequest, IsRequest
  <2>2. /\ Climb(request, k).modules = Above[Host(e)]
        /\ Climb(request, k).from = Host(e)
        /\ Climb(request, k).leaf = IF OfResource(e) THEN e.of ELSE NULL
    BY DEF Climb
  <2> HIDE DEF e
  <2> QED BY <2>1, <2>2, HostIsModule
<1>3. Climbs(request) # {}
  BY DEF Climbs, GoodRequest, IsRequest
<1>4. \A c \in Climbs(request) : \E k \in Numbers(request) : c = Climb(request, k)
  BY DEF Climbs
<1> QED BY <1>2, <1>3, <1>4 DEF GoodClimbs

-----------------------------------------------------------------------------
(* R is what is left of the tree T. *)
IsReduced(R, T, C) ==
  /\ IsTree(T, C) /\ GoodClimbs(C) /\ R = Reduce(T)

(* The tree of a request, if there is one, is a reduced tree of its        *)
(* climbs.                                                                 *)
LEMMA TreeOfRequest ==
  ASSUME HierarchyInv, NEW request, GoodRequest(request), NEW s, TreeOf(s, request) # {}
  PROVE  /\ \A e \in Ends(request) : HasClimb(e)
         /\ IsReduced(TreeOf(s, request), Tree(s, Climbs(request)), Climbs(request))
<1>1. /\ \A e \in Ends(request) : HasClimb(e)
      /\ TreeOf(s, request) = Reduce(Tree(s, Climbs(request)))
  BY DEF TreeOf
<1>2. Climbs(request) # {} /\ GoodClimbs(Climbs(request))
  BY <1>1, ClimbsAreGood
<1>3. Tree(s, Climbs(request)) # {}
  BY <1>1 DEF Reduce
<1> QED BY <1>1, <1>2, <1>3, TreeIsTree DEF IsReduced, HierarchyInv

(* What is used of a reduced tree. *)
LEMMA ReducedFacts ==
  ASSUME HierarchyInv, NEW R, NEW T, NEW C, IsReduced(R, T, C)
  PROVE  /\ \A n \in R : /\ n.type \in {"instance", "module", "leaf"} /\ n.of \in Name
                         /\ n.climbs # {} /\ n.climbs \subseteq C
                         /\ \A c \in n.climbs : PassesBy(c, n.type, n.of)
                         /\ n.type = "leaf" => /\ instances[n.of] # NULL
                                               /\ instances[n.of].parent \in Name
                                               /\ instances[n.of].module \in resource
         /\ \A n, k \in R : n.type = k.type /\ n.of = k.of /\ n.climbs \cap k.climbs # {} => n = k
         /\ \A n \in R : ~ IsRoot(R, n) => Parent(R, n) \in R /\ IsParent(Parent(R, n), n)
         /\ \A n, p \in R : IsParent(p, n) => ~ IsRoot(R, n) /\ Parent(R, n) = p
         /\ \A n \in R : n.type = "instance" =>
              \A c \in n.climbs : \E x \in R : IsParent(n, x) /\ c \in x.climbs /\ x.type = "module" /\ x.of = n.of
         /\ \A n \in R : ~ IsRoot(R, n) =>
              LET p == Parent(R, n)
              IN  /\ n.type = "module" => p.type = "instance" /\ p.of = n.of
                  /\ n.type = "instance" => p.type = "module" /\ p.of = default_parent[n.of]
                  /\ n.type = "leaf" => p.type = "module" /\ p.of = instances[n.of].parent
<1>1. IsTree(T, C) /\ R = Reduce(T)
  BY DEF IsReduced
<1>2. /\ R \subseteq T
      /\ \A n \in R, x \in T : IsParent(n, x) => x \in R
  BY <1>1, ReduceKeeps DEF HierarchyInv
<1>3. \A n \in R : /\ n.type \in {"instance", "module", "leaf"} /\ n.of \in Name
                   /\ n.climbs # {} /\ n.climbs \subseteq C
                   /\ \A c \in n.climbs : PassesBy(c, n.type, n.of)
                   /\ n.type = "leaf" => /\ instances[n.of] # NULL
                                         /\ instances[n.of].parent \in Name
                                         /\ instances[n.of].module \in resource
  BY <1>1, <1>2 DEF IsTree
<1>4. \A n, k \in R : n.type = k.type /\ n.of = k.of /\ n.climbs \cap k.climbs # {} => n = k
  BY <1>1, <1>2 DEF IsTree
<1>5. \A n \in R : ~ IsRoot(R, n) => Parent(R, n) \in R /\ IsParent(Parent(R, n), n)
  BY DEF IsRoot, Parent
<1>6. ASSUME NEW n \in R, NEW p \in R, IsParent(p, n)
      PROVE  ~ IsRoot(R, n) /\ Parent(R, n) = p
  <2>1. ~ IsRoot(R, n)
    BY <1>6 DEF IsRoot
  <2>2. Parent(R, n) \in R /\ IsParent(Parent(R, n), n)
    BY <2>1, <1>5
  <2>3. /\ p.type = Parent(R, n).type /\ p.of = Parent(R, n).of
        /\ n.climbs \subseteq p.climbs /\ n.climbs \subseteq Parent(R, n).climbs
    BY <1>6, <2>2 DEF IsParent
  <2>4. p.climbs \cap Parent(R, n).climbs # {}
    BY <2>3, <1>3
  <2> QED BY <2>1, <2>2, <2>3, <2>4, <1>4
<1>7. ASSUME NEW n \in R, n.type = "instance", NEW c \in n.climbs
      PROVE  \E x \in R : IsParent(n, x) /\ c \in x.climbs /\ x.type = "module" /\ x.of = n.of
  <2>1. PassesBy(c, "module", n.of) /\ c \in C /\ n.of \in Name
    <3>1. PassesBy(c, n.type, n.of) /\ c \in C /\ n.of \in Name
      BY <1>3, <1>7
    <3> QED BY <3>1, <1>7 DEF PassesBy
  <2>2. PICK x \in T : x.type = "module" /\ x.of = n.of /\ c \in x.climbs
    BY <2>1, <1>1 DEF IsTree
  <2>3. PICK p \in T : IsParent(p, x)
    BY <2>2, <1>1 DEF IsTree
  <2>4. p.type = "instance" /\ p.of = n.of /\ c \in p.climbs
    BY <2>2, <2>3 DEF IsParent, Around
  <2>5. p = n
    BY <2>4, <1>7, <1>1, <1>2 DEF IsTree
  <2> QED BY <2>2, <2>3, <2>5, <1>2
<1>8. ASSUME NEW n \in R, ~ IsRoot(R, n)
      PROVE  LET p == Parent(R, n)
              IN  /\ n.type = "module" => p.type = "instance" /\ p.of = n.of
                  /\ n.type = "instance" => p.type = "module" /\ p.of = default_parent[n.of]
                  /\ n.type = "leaf" => p.type = "module" /\ p.of = instances[n.of].parent
  BY <1>5, <1>8 DEF IsParent, Around
<1> QED BY <1>3, <1>4, <1>5, <1>6, <1>7, <1>8

-----------------------------------------------------------------------------
(* The object of a signal that a node becomes, and the name it hands down. *)
SignalName(tree, n) == NameOf(tree, n, TRUE)
SignalAt(tree, n, s) ==
  SignalObject(n, IF IsRoot(tree, n) THEN NoName ELSE SignalName(tree, Parent(tree, n)), IsRoot(tree, n), s)

(* Objects, node by node.                                                  *)
LEMMA ObjectsOfSignal ==
  ASSUME NEW tree, NEW s
  PROVE  Objects(tree, s, TRUE) = {[node |-> n, object |-> SignalAt(tree, n, s)] : n \in tree}
BY DEF Objects, SignalAt, SignalName

(* What a node of a signal's tree becomes, and the name it hands down.     *)
LEMMA SignalObjects ==
  ASSUME HierarchyInv, NEW R, NEW T, NEW C, IsReduced(R, T, C), NEW n \in R, NEW s
  PROVE  LET o == SignalAt(R, n, s)
         IN  /\ o = Item(o.kind, n.of, SignalName(R, n), o.conn, o.dir, o.invert, s)
             /\ n.type # "module" =>
                  /\ o.kind = "pin" /\ o.dir = PortDir(n.dir) /\ o.invert = n.invert
                  /\ ~ IsRoot(R, n) => o.conn = SignalName(R, Parent(R, n))
                  /\ SignalName(R, n) = IF n.force THEN n.name ELSE PinName(n.name, n.dir)
             /\ n.type = "module" /\ IsRoot(R, n) =>
                  /\ o.kind = "declaration" /\ o.conn = NoName /\ o.dir = "none"
                  /\ SignalName(R, n) = IF n.force THEN n.name ELSE Suffixed(n.name, "s")
             /\ n.type = "module" /\ ~ IsRoot(R, n) =>
                  /\ o.kind = "port" /\ o.conn = NoName /\ o.dir = PortDir(n.dir)
                  /\ SignalName(R, n) = SignalName(R, Parent(R, n))
<1>1. CASE n.type # "module"
  <2>1. SignalName(R, n) = SignalObject(n, NoName, IsRoot(R, n), NULL).name
    BY <1>1 DEF SignalName, NameOf
  <2>2. SignalName(R, n) = IF n.force THEN n.name ELSE PinName(n.name, n.dir)
    BY <1>1, <2>1 DEF SignalObject, Item
  <2> HIDE DEF NameOf
  <2> DEFINE outer == IF IsRoot(R, n) THEN NoName ELSE SignalName(R, Parent(R, n))
  <2>3. SignalAt(R, n, s) = Item("pin", n.of, SignalName(R, n), outer, PortDir(n.dir), n.invert, s)
    BY <1>1, <2>2 DEF SignalObject, SignalAt
  <2>7. SignalAt(R, n, s).kind = "pin" /\ SignalAt(R, n, s).conn = outer
        /\ SignalAt(R, n, s).dir = PortDir(n.dir) /\ SignalAt(R, n, s).invert = n.invert
    BY <2>3 DEF Item
  <2> QED BY <1>1, <2>2, <2>3, <2>7
<1>2. CASE n.type = "module" /\ IsRoot(R, n)
  <2>1. SignalName(R, n) = SignalObject(n, NoName, TRUE, NULL).name
    BY <1>2 DEF SignalName, NameOf
  <2>2. SignalName(R, n) = IF n.force THEN n.name ELSE Suffixed(n.name, "s")
    BY <1>2, <2>1 DEF SignalObject, Item
  <2> HIDE DEF NameOf
  <2>3. SignalAt(R, n, s) = Item("declaration", n.of, SignalName(R, n), NoName, "none", FALSE, s)
    BY <1>2, <2>2 DEF SignalObject, SignalAt
  <2>7. SignalAt(R, n, s).kind = "declaration" /\ SignalAt(R, n, s).conn = NoName
        /\ SignalAt(R, n, s).dir = "none" /\ SignalAt(R, n, s).invert = FALSE
    BY <2>3 DEF Item
  <2> QED BY <1>2, <2>2, <2>3, <2>7
<1>3. CASE n.type = "module" /\ ~ IsRoot(R, n)
  <2> DEFINE p == Parent(R, n)
  <2>1. p \in R /\ p.type = "instance" /\ p.of = n.of
    BY <1>3, ReducedFacts
  <2>2. SignalName(R, n) = SignalObject(p, NoName, IsRoot(R, p), NULL).name
    BY <1>3 DEF SignalName, NameOf
  <2> HIDE DEF p
  <2>3. SignalName(R, p) = SignalObject(p, NoName, IsRoot(R, p), NULL).name
    BY <2>1 DEF SignalName, NameOf
  <2> HIDE DEF NameOf
  <2>4. SignalAt(R, n, s) = Item("port", n.of, SignalName(R, p), NoName, PortDir(n.dir), FALSE, s)
    BY <1>3 DEF SignalAt, SignalObject, p
  <2>5. SignalAt(R, n, s) = Item("port", n.of, SignalName(R, n), NoName, PortDir(n.dir), FALSE, s)
    BY <2>2, <2>3, <2>4
  <2>6. SignalName(R, n) = SignalName(R, p)
    BY <2>2, <2>3
  <2>7. SignalAt(R, n, s).kind = "port" /\ SignalAt(R, n, s).conn = NoName
        /\ SignalAt(R, n, s).dir = PortDir(n.dir) /\ SignalAt(R, n, s).invert = FALSE
    BY <2>5 DEF Item
  <2> HIDE DEF p
  <2> QED BY <1>3, <2>5, <2>6, <2>7 DEF p
<1> QED BY <1>1, <1>2, <1>3

(* Only pins are inverted. *)
LEMMA ModuleNotInverted ==
  ASSUME NEW R, NEW n, n.type = "module", NEW s
  PROVE  SignalAt(R, n, s).invert = FALSE
<1>1. CASE IsRoot(R, n)
  BY <1>1 DEF SignalAt, SignalObject, Item
<1>2. CASE ~ IsRoot(R, n)
  BY <1>2 DEF SignalAt, SignalObject, Item
<1> QED BY <1>1, <1>2

-----------------------------------------------------------------------------
(* All modules around a generated module are generated ones. *)
LEMMA AboveGenerated ==
  ASSUME HierarchyInv, NEW m \in modules \ resource
  PROVE  Above[m] \subseteq modules \ resource
<1> USE DEF HierarchyInv
<1> DEFINE Good == {x \in Name : x \in modules \ resource => Above[x] \subseteq modules \ resource}
<1>1. ASSUME NEW x \in Name, default_parent[x] = NULL \/ default_parent[x] \in Good
      PROVE  x \in Good
  <2> SUFFICES ASSUME x \in modules \ resource PROVE Above[x] \subseteq modules \ resource
    OBVIOUS
  <2>1. CASE default_parent[x] = NULL
    BY <2>1, AboveFacts
  <2>2. CASE default_parent[x] # NULL
    <3>1. default_parent[x] \in modules \ resource
      BY <2>2 DEF TablesAgree, DefaultsInTable, EntriesLive
    <3>2. Above[x] = {x} \cup Above[default_parent[x]]
      BY <2>2, AboveFacts
    <3> QED BY <1>1, <2>2, <3>1, <3>2
  <2> QED BY <2>1, <2>2
<1>2. Name \subseteq Good
  <2> HIDE DEF Good
  <2> QED BY <1>1, DownTheHierarchy
<1> QED BY <1>2 DEF HierarchyTypeOK

(* Default instances and modules in a tree are generated modules of the    *)
(* database.                                                               *)
LEMMA NodesLive ==
  ASSUME HierarchyInv, NEW R, NEW T, NEW C, IsReduced(R, T, C), NEW n \in R
  PROVE  n.type # "leaf" => n.of \in modules \ resource
<1> SUFFICES ASSUME n.type # "leaf" PROVE n.of \in modules \ resource
  OBVIOUS
<1>1. PICK c \in n.climbs : c \in C /\ PassesBy(c, n.type, n.of)
  BY ReducedFacts
<1>2. n.of \in c.modules
  BY <1>1 DEF PassesBy
<1>3. c.from \in modules \ resource /\ c.modules = Above[c.from]
  BY <1>1 DEF IsReduced, GoodClimbs
<1> QED BY <1>2, <1>3, AboveGenerated

-----------------------------------------------------------------------------
(* The names that objects of one kind have at one object. *)
Held(k, m) == {x.name : x \in {y \in items : y.kind = k /\ y.of = m}}

IsItem(o) == o = Item(o.kind, o.of, o.name, o.conn, o.dir, o.invert, o.net)

(* Of the objects wanted each is entered, or its Object-ID is taken by     *)
(* another.                                                                *)
LEMMA EnteredIds ==
  ASSUME NEW wanted, NEW entered \in Enterable(wanted)
  PROVE  /\ entered \subseteq wanted
         /\ \A w \in entered : Id(w.object) \notin Ids(items)
         /\ \A v, w \in entered : Id(v.object) = Id(w.object) => v = w
         /\ \A w \in wanted : Id(w.object) \in Ids(items)
                              \/ \E v \in entered : Id(v.object) = Id(w.object)
<1> DEFINE free   == Free(wanted)
           alone  == {w \in free : Rivals(free, w) = {w}}
           others == free \ alone
<1>1. PICK S : /\ S \in {T \in SUBSET others : \A w \in others : \E v \in T : T \cap Rivals(free, w) = {v}}
               /\ entered = alone \cup S
  BY DEF Enterable
<1>2. S \subseteq others /\ \A w \in others : \E v \in S : S \cap Rivals(free, w) = {v}
  BY <1>1
<1>3. free \subseteq wanted /\ \A w \in wanted : w \in free <=> Id(w.object) \notin Ids(items)
  BY DEF Free
<1>4. \A w, v : v \in Rivals(free, w) <=> v \in free /\ Id(v.object) = Id(w.object)
  BY DEF Rivals
<1> HIDE DEF free
<1>5. entered \subseteq free
  BY <1>1, <1>2
<1>6. ASSUME NEW v \in entered, NEW w \in entered, Id(v.object) = Id(w.object) PROVE v = w
  <2>1. v \in Rivals(free, w) /\ w \in Rivals(free, v) /\ v \in Rivals(free, v) /\ w \in Rivals(free, w)
    BY <1>4, <1>5, <1>6
  <2>2. CASE v \in alone
    BY <2>1, <2>2
  <2>3. CASE w \in alone
    BY <2>1, <2>3
  <2>4. CASE v \in S /\ w \in S
    <3>1. PICK u \in S : S \cap Rivals(free, w) = {u}
      BY <2>4, <1>2
    <3>2. v \in {u} /\ w \in {u}
      BY <3>1, <2>1, <2>4
    <3> QED BY <3>2
  <2> QED BY <1>1, <2>2, <2>3, <2>4
<1>7. ASSUME NEW w \in wanted, Id(w.object) \notin Ids(items)
      PROVE  \E v \in entered : Id(v.object) = Id(w.object)
  <2>1. w \in free
    BY <1>3, <1>7
  <2>2. CASE w \in alone
    BY <2>2, <1>1
  <2>3. CASE w \in others
    <3>1. PICK u \in S : S \cap Rivals(free, w) = {u}
      BY <2>3, <1>2
    <3> QED BY <3>1, <1>4, <1>1
  <2> QED BY <2>1, <2>2, <2>3
<1> QED BY <1>3, <1>5, <1>6, <1>7

(* After a command, done or failed, exactly the names held before and      *)
(* those wanted are held.                                                  *)
LEMMA CreatedNames ==
  ASSUME NEW wanted, NEW entered \in Enterable(wanted), Create(wanted, entered),
         \A w \in wanted : IsItem(w.object)
  PROVE  \A k, m, name :
           name \in Held(k, m)' <=>
             \/ name \in Held(k, m)
             \/ \E w \in wanted : w.object.kind = k /\ w.object.of = m /\ w.object.name = name
<1> DEFINE put(w) == IF entered = wanted THEN w.object ELSE [w.object EXCEPT !.net = NULL]
<1>1. items' = items \cup {put(w) : w \in entered}
  BY DEF Create
<1>2. \A w \in wanted : /\ put(w).kind = w.object.kind /\ put(w).of = w.object.of
                        /\ put(w).name = w.object.name
  BY DEF IsItem, Item
<1>3. \A x : Id(x) = <<x.kind, x.of, x.name>>
  BY DEF Id
<1>4. \A k, m, name : <<k, m, name>> \in Ids(items) <=> \E x \in items : x.kind = k /\ x.of = m /\ x.name = name
  BY <1>3 DEF Ids
<1> HIDE DEF put
<1>5. \A k, m, name : name \in Held(k, m) <=> \E x \in items : x.kind = k /\ x.of = m /\ x.name = name
  BY DEF Held
<1>6. \A k, m, name : name \in Held(k, m)' <=> \E x \in items' : x.kind = k /\ x.of = m /\ x.name = name
  BY DEF Held
<1> SUFFICES ASSUME NEW k, NEW m, NEW name
             PROVE  name \in Held(k, m)' <=>
                      \/ name \in Held(k, m)
                      \/ \E w \in wanted : w.object.kind = k /\ w.object.of = m /\ w.object.name = name
  OBVIOUS
<1>7. name \in Held(k, m) => name \in Held(k, m)'
  BY <1>1, <1>5, <1>6
<1>8. ASSUME NEW w \in wanted, w.object.kind = k, w.object.of = m, w.object.name = name
      PROVE  name \in Held(k, m)'
  <2>1. CASE Id(w.object) \in Ids(items)
    BY <2>1, <1>3, <1>4, <1>5, <1>7, <1>8
  <2>2. CASE \E v \in entered : Id(v.object) = Id(w.object)
    <3>1. PICK v \in entered : Id(v.object) = Id(w.object)
      BY <2>2
    <3>2. v.object.kind = k /\ v.object.of = m /\ v.object.name = name
      BY <3>1, <1>3, <1>8
    <3>3. v \in wanted
      BY EnteredIds
    <3>4. put(v) \in items' /\ put(v).kind = k /\ put(v).of = m /\ put(v).name = name
      BY <3>2, <3>3, <1>1, <1>2
    <3> QED BY <3>4, <1>6
  <2> QED BY <2>1, <2>2, EnteredIds
<1>9. ASSUME name \in Held(k, m)', name \notin Held(k, m)
      PROVE  \E w \in wanted : w.object.kind = k /\ w.object.of = m /\ w.object.name = name
  <2>1. PICK x \in items' : x.kind = k /\ x.of = m /\ x.name = name
    BY <1>6, <1>9
  <2>2. PICK w \in entered : x = put(w)
    BY <2>1, <1>1, <1>5, <1>9
  <2>3. w \in wanted
    BY EnteredIds
  <2> QED BY <2>1, <2>2, <2>3, <1>2
<1> QED BY <1>7, <1>8, <1>9

-----------------------------------------------------------------------------
(* The commands do to the hierarchy what IgHierarchy says, or nothing. *)
THEOREM ConnectionOnHierarchy == ConnectionSpec => HierarchySpec
<1>1. ConnectionInit => HierarchyInit
  BY DEF ConnectionInit
<1>2. [ConnectionNext]_connectionVars => [HierarchyNext]_hierarchyVars
  <2> SUFFICES ASSUME [ConnectionNext]_connectionVars
               PROVE  HierarchyNext \/ UNCHANGED hierarchyVars
    OBVIOUS
  <2>1. CASE Grow(Name)
    BY <2>1 DEF Grow, HierarchyNext
  <2>2. ASSUME NEW s \in Signal, NEW request \in Request, Connect(s, request)
        PROVE  UNCHANGED hierarchyVars
    BY <2>2 DEF Connect
  <2>3. ASSUME NEW s \in Signal, NEW targets, Parameterize(s, targets)
        PROVE  UNCHANGED hierarchyVars
    BY <2>3 DEF Parameterize
  <2>4. ASSUME NEW i, NEW name, NEW dir, CreatePin(i, name, dir)
        PROVE  UNCHANGED hierarchyVars
    BY <2>4 DEF CreatePin
  <2>5. CASE ResetAll
    BY <2>5 DEF ResetAll, HierarchyNext
  <2>6. CASE UNCHANGED connectionVars
    BY <2>6 DEF connectionVars
  <2> QED BY <2>1, <2>2, <2>3, <2>4, <2>5, <2>6 DEF ConnectionNext, Commands
<1> QED BY <1>1, <1>2, PTL DEF ConnectionSpec, HierarchySpec

(* The invariants of the hierarchy hold under the commands on connections. *)
LEMMA ConnectionHierarchy == ConnectionSpec => []HierarchyInv
BY ConnectionOnHierarchy, HierarchyTypeCorrect, HierarchyAcyclic, HierarchyTablesAgree, PTL DEF HierarchyInv

-----------------------------------------------------------------------------
(* What connect and parameter accept is a request in the sense of the      *)
(* lemmas.                                                                 *)
LEMMA GoodRequests ==
  /\ \A request \in Request : IsRequest(request)
  /\ \A targets \in Targets(1 .. MaxEnds) :
       IsRequest([source |-> NULL, targets |-> targets, bidir |-> FALSE])
<1>1. ASSUME NEW request, NEW ns, request.targets \in Targets(ns), ns \subseteq Nat,
             request.source = NULL \/ request.source \in Endpoint,
             request.source = NULL => 0 \notin ns, request.bidir \in BOOLEAN
      PROVE  IsRequest(request)
  <2>1. PICK n \in ns : request.targets \in [1 .. n -> Endpoint]
    BY <1>1 DEF Targets
  <2>2. n \in Nat
    BY <1>1
  <2>3. Numbers(request) = (1 .. n) \cup IF request.source = NULL THEN {} ELSE {0}
    BY <2>1 DEF Numbers
  <2>4. Numbers(request) \subseteq 0 .. n
    BY <2>2, <2>3
  <2>5. Numbers(request) # {}
    <3>1. CASE request.source = NULL
      <4>1. n # 0
        BY <1>1, <3>1
      <4>2. 1 \in 1 .. n
        BY <2>2, <4>1
      <4> QED BY <2>3, <4>2
    <3>2. CASE request.source # NULL
      BY <2>3, <3>2
    <3> QED BY <3>1, <3>2
  <2>6. \A k \in Numbers(request) : EndAt(request, k) \in Endpoint
    BY <1>1, <2>1, <2>2, <2>3 DEF EndAt
  <2>7. request.source # NULL => request.source \in Ends(request)
    BY <2>3 DEF Ends, EndAt
  <2> QED BY <1>1, <2>2, <2>4, <2>5, <2>6, <2>7 DEF IsRequest, Ends
<1>2. 0 .. MaxTargets \subseteq Nat /\ 1 .. MaxEnds \subseteq Nat /\ 0 \notin 1 .. MaxEnds
  BY BoundsAssumption
<1>3. \A request \in Request : IsRequest(request)
  <2> SUFFICES ASSUME NEW request \in Request PROVE IsRequest(request)
    OBVIOUS
  <2>1. CASE request \in [source : Endpoint, targets : Targets(0 .. MaxTargets), bidir : {FALSE}]
    <3>1. /\ request.source \in Endpoint /\ request.source # NULL
          /\ request.targets \in Targets(0 .. MaxTargets) /\ request.bidir \in BOOLEAN
      BY <2>1, ConnectionAssumption
    <3> QED BY <3>1, <1>1, <1>2
  <2>2. CASE request \in [source : {NULL}, targets : Targets(1 .. MaxEnds), bidir : {TRUE}]
    <3>1. /\ request.source = NULL
          /\ request.targets \in Targets(1 .. MaxEnds) /\ request.bidir \in BOOLEAN
      BY <2>2
    <3> QED BY <3>1, <1>1, <1>2
  <2> QED BY <2>1, <2>2 DEF Request
<1>4. ASSUME NEW targets \in Targets(1 .. MaxEnds)
      PROVE  IsRequest([source |-> NULL, targets |-> targets, bidir |-> FALSE])
  <2> DEFINE request == [source |-> NULL, targets |-> targets, bidir |-> FALSE]
  <2>1. request.source = NULL /\ request.targets = targets /\ request.bidir \in BOOLEAN
    OBVIOUS
  <2> HIDE DEF request
  <2>2. IsRequest(request)
    BY <1>1, <1>2, <2>1
  <2> QED BY <2>2 DEF request
<1> QED BY <1>3, <1>4

-----------------------------------------------------------------------------
(* Objects are in modules of the database.  A failed command may leave a   *)
(* pin of a module that is placed nowhere.                                 *)
LiveItem(x) ==
  /\ IsItem(x) /\ x.of \in Name /\ x.kind \in SignalKinds \cup ParameterKinds
  /\ x.kind = "port" => x.of \in modules \ resource
  /\ x.kind = "pin" => instances[x.of] # NULL \/ x.of \in modules \ resource

(* The objects that a command wants. *)
WantedBy(s, request) == Objects(TreeOf(s, request), s, TRUE)

(* The objects a signal wants are in the database's reach; pins and ports  *)
(* are wanted by the same names.                                           *)
LEMMA WantedSignals ==
  ASSUME HierarchyInv, NEW s, NEW request, GoodRequest(request), TreeOf(s, request) # {}
  PROVE  /\ \A w \in WantedBy(s, request) :
              LiveItem(w.object) /\ w.object.net = s /\ w.object.kind \in SignalKinds
         /\ \A m \in Name : \A name : ~ (instances[m] # NULL /\ instances[m].module \in resource) =>
              (\E w \in WantedBy(s, request) : w.object.kind = "pin" /\ w.object.of = m /\ w.object.name = name)
              <=> (\E w \in WantedBy(s, request) : w.object.kind = "port" /\ w.object.of = m /\ w.object.name = name)
<1> DEFINE R == TreeOf(s, request)
           C == Climbs(request)
           T == Tree(s, C)
<1>r. IsReduced(R, T, C)
  BY TreeOfRequest
<1> HIDE DEF R, C, T
<1>1. WantedBy(s, request) = {[node |-> n, object |-> SignalAt(R, n, s)] : n \in R}
  BY ObjectsOfSignal DEF WantedBy, R
<1>2. \A n \in R : /\ n.type \in {"instance", "module", "leaf"} /\ n.of \in Name
                   /\ n.type = "leaf" => instances[n.of] # NULL /\ instances[n.of].module \in resource
                   /\ n.type # "leaf" => n.of \in modules \ resource
  BY <1>r, ReducedFacts, NodesLive
<1>3. ASSUME NEW n \in R
      PROVE  LET o == SignalAt(R, n, s)
             IN  /\ IsItem(o) /\ o.net = s
                 /\ o.of = n.of /\ o.name = SignalName(R, n)
                 /\ n.type # "module" => o.kind = "pin"
                 /\ n.type = "module" /\ IsRoot(R, n) => o.kind = "declaration"
                 /\ n.type = "module" /\ ~ IsRoot(R, n) =>
                      /\ o.kind = "port"
                      /\ SignalName(R, n) = SignalName(R, Parent(R, n))
  <2> DEFINE o == SignalAt(R, n, s)
  <2>1. /\ o = Item(o.kind, n.of, SignalName(R, n), o.conn, o.dir, o.invert, s)
        /\ n.type # "module" => o.kind = "pin"
        /\ n.type = "module" /\ IsRoot(R, n) => o.kind = "declaration"
        /\ n.type = "module" /\ ~ IsRoot(R, n) =>
             o.kind = "port" /\ SignalName(R, n) = SignalName(R, Parent(R, n))
    BY <1>r, SignalObjects
  <2> HIDE DEF o
  <2>2. o.of = n.of /\ o.name = SignalName(R, n) /\ o.net = s
    BY <2>1 DEF Item
  <2>3. IsItem(o)
    BY <2>1, <2>2 DEF IsItem
  <2> QED BY <2>1, <2>2, <2>3 DEF o
<1>4. /\ \A w \in WantedBy(s, request) : \E n \in R : w.object = SignalAt(R, n, s)
      /\ \A n \in R : \E w \in WantedBy(s, request) : w.object = SignalAt(R, n, s)
  <2> DEFINE at(n) == [node |-> n, object |-> SignalAt(R, n, s)]
  <2>1. \A n \in R : at(n) \in WantedBy(s, request) /\ at(n).object = SignalAt(R, n, s)
    BY <1>1
  <2>2. \A w \in WantedBy(s, request) : \E n \in R : w = at(n)
    BY <1>1
  <2>3. \A w \in WantedBy(s, request) : \E n \in R : w.object = SignalAt(R, n, s)
    BY <2>1, <2>2
  <2> QED BY <2>1, <2>3
<1>5. ASSUME NEW w \in WantedBy(s, request)
      PROVE  LiveItem(w.object) /\ w.object.net = s /\ w.object.kind \in SignalKinds
  <2>1. PICK n \in R : w.object = SignalAt(R, n, s)
    BY <1>4
  <2> QED BY <2>1, <1>2, <1>3 DEF LiveItem, SignalKinds
<1>6. ASSUME NEW m \in Name, NEW name, ~ (instances[m] # NULL /\ instances[m].module \in resource),
             NEW w \in WantedBy(s, request), w.object.kind = "pin", w.object.of = m, w.object.name = name
      PROVE  \E v \in WantedBy(s, request) : v.object.kind = "port" /\ v.object.of = m /\ v.object.name = name
  <2>1. PICK n \in R : w.object = SignalAt(R, n, s)
    BY <1>4
  <2>2. n.of = m /\ name = SignalName(R, n) /\ n.type = "instance"
    BY <2>1, <1>2, <1>3, <1>6
  <2>3. PICK c : c \in n.climbs
    BY <1>r, ReducedFacts
  <2>4. PICK x \in R : IsParent(n, x) /\ x.type = "module" /\ x.of = n.of
    BY <1>r, <2>2, <2>3, ReducedFacts
  <2>5. ~ IsRoot(R, x) /\ Parent(R, x) = n
    BY <1>r, <2>4, ReducedFacts
  <2>6. PICK v \in WantedBy(s, request) : v.object = SignalAt(R, x, s)
    BY <1>4
  <2>7. v.object.kind = "port" /\ v.object.of = m /\ v.object.name = name
    BY <2>2, <2>4, <2>5, <2>6, <1>3
  <2> QED BY <2>7
<1>7. ASSUME NEW m \in Name, NEW name, 
             NEW w \in WantedBy(s, request), w.object.kind = "port", w.object.of = m, w.object.name = name
      PROVE  \E v \in WantedBy(s, request) : v.object.kind = "pin" /\ v.object.of = m /\ v.object.name = name
  <2>1. PICK n \in R : w.object = SignalAt(R, n, s)
    BY <1>4
  <2>2. n.of = m /\ n.type = "module" /\ ~ IsRoot(R, n) /\ name = SignalName(R, Parent(R, n))
    BY <2>1, <1>2, <1>3, <1>7
  <2>3. Parent(R, n) \in R /\ Parent(R, n).type = "instance" /\ Parent(R, n).of = m
    BY <1>r, <2>2, ReducedFacts
  <2>4. PICK v \in WantedBy(s, request) : v.object = SignalAt(R, Parent(R, n), s)
    BY <2>3, <1>4
  <2> QED BY <2>2, <2>3, <2>4, <1>3
<1> DEFINE Some(k, m, name) ==
              \E w \in WantedBy(s, request) :
                w.object.kind = k /\ w.object.of = m /\ w.object.name = name
<1>8. \A m \in Name : \A name : ~ (instances[m] # NULL /\ instances[m].module \in resource) =>
        (Some("pin", m, name) => Some("port", m, name))
  BY <1>6
<1>9. \A m \in Name : \A name : Some("port", m, name) => Some("pin", m, name)
  BY <1>7
<1>10. \A m \in Name : \A name : ~ (instances[m] # NULL /\ instances[m].module \in resource) =>
         (Some("pin", m, name) <=> Some("port", m, name))
  <2> HIDE DEF Some
  <2> QED BY <1>8, <1>9
<1> QED BY <1>5, <1>10

-----------------------------------------------------------------------------
(* The object of a parameter that a node becomes. *)
ParameterName(tree, n) == NameOf(tree, n, FALSE)
ParameterAt(tree, n, s) ==
  ParameterObject(n, IF IsRoot(tree, n) THEN NoName ELSE ParameterName(tree, Parent(tree, n)), IsRoot(tree, n), s)

(* Objects, node by node.                                                  *)
LEMMA ObjectsOfParameter ==
  ASSUME NEW tree, NEW s
  PROVE  Objects(tree, s, FALSE) = {[node |-> n, object |-> ParameterAt(tree, n, s)] : n \in tree}
BY DEF Objects, ParameterAt, ParameterName

ParametersWantedBy(s, request) == Objects(TreeOf(s, request), s, FALSE)

(* The objects a parameter wants are in the database's reach.              *)
LEMMA WantedParameters ==
  ASSUME HierarchyInv, NEW s, NEW request, GoodRequest(request), TreeOf(s, request) # {}
  PROVE  \A w \in ParametersWantedBy(s, request) :
           LiveItem(w.object) /\ w.object.net = s /\ w.object.kind \in ParameterKinds
<1> DEFINE R == TreeOf(s, request)
<1>1. IsReduced(R, Tree(s, Climbs(request)), Climbs(request))
  BY TreeOfRequest
<1> HIDE DEF R
<1>2. ASSUME NEW n \in R
      PROVE  LET o == ParameterAt(R, n, s)
             IN  LiveItem(o) /\ o.net = s /\ o.kind \in ParameterKinds
  <2>1. n.of \in Name
    BY <1>1, ReducedFacts
  <2>2. LET o == ParameterAt(R, n, s)
        IN  IsItem(o) /\ o.net = s /\ o.kind \in ParameterKinds /\ o.of = n.of
    BY DEF ParameterAt, ParameterObject, Item, IsItem, ParameterKinds
  <2> QED BY <2>1, <2>2 DEF LiveItem, ParameterKinds
<1>3. ASSUME NEW w \in ParametersWantedBy(s, request)
      PROVE  \E n \in R : w.object = ParameterAt(R, n, s)
  <2> DEFINE at(n) == [node |-> n, object |-> ParameterAt(R, n, s)]
  <2>1. ParametersWantedBy(s, request) = {at(n) : n \in R}
    BY ObjectsOfParameter DEF ParametersWantedBy, R
  <2>2. PICK n \in R : w = at(n)
    BY <2>1
  <2>3. at(n).object = ParameterAt(R, n, s)
    OBVIOUS
  <2> QED BY <2>2, <2>3
<1> QED BY <1>2, <1>3

-----------------------------------------------------------------------------
(* What the command connect does to the tables: nothing, when it is refused *)
(* or its tree was freed, or it enters what is wanted.                     *)
LEMMA ConnectStep ==
  ASSUME HierarchyInv, NEW s \in Signal, NEW request \in Request, Connect(s, request)
  PROVE  /\ GoodRequest(request)
         /\ \/ UNCHANGED <<items, nets>>
            \/ /\ nets[s] = NULL /\ TreeOf(s, request) # {}
               /\ \E entered \in Enterable(WantedBy(s, request)) :
                    /\ Create(WantedBy(s, request), entered)
                    /\ nets' = [nets EXCEPT ![s] = Entry(WantedBy(s, request), entered, request)]
         /\ UNCHANGED <<hierarchyVars, generics>>
<1>1. GoodRequest(request)
  BY GoodRequests DEF Connect, GoodRequest
<1>2. CASE nets[s] # NULL \/ TreeOf(s, request) = {}
  BY <1>1, <1>2 DEF Connect
<1>3. CASE nets[s] = NULL /\ TreeOf(s, request) # {} /\ Freed(TreeOf(s, request))
  BY <1>1, <1>3 DEF Connect
<1>4. CASE nets[s] = NULL /\ TreeOf(s, request) # {} /\ ~ Freed(TreeOf(s, request))
  BY <1>1, <1>4 DEF Connect, WantedBy
<1> QED BY <1>2, <1>3, <1>4

(* What parameter does to the tables.                                      *)
LEMMA ParameterizeStep ==
  ASSUME HierarchyInv, NEW s \in Signal, NEW targets \in Targets(1 .. MaxEnds), Parameterize(s, targets)
  PROVE  LET request == [source |-> NULL, targets |-> targets, bidir |-> FALSE]
         IN  /\ GoodRequest(request)
             /\ \/ UNCHANGED <<items, generics>>
                \/ /\ generics[s] = NULL /\ TreeOf(s, request) # {}
                   /\ \E entered \in Enterable(ParametersWantedBy(s, request)) :
                        /\ Create(ParametersWantedBy(s, request), entered)
                        /\ generics' = [generics EXCEPT ![s] =
                                          Entry(ParametersWantedBy(s, request), entered, request)]
             /\ UNCHANGED <<hierarchyVars, nets>>
<1> DEFINE request == [source |-> NULL, targets |-> targets, bidir |-> FALSE]
<1>1. GoodRequest(request)
  BY GoodRequests DEF Parameterize, GoodRequest
<1>2. CASE generics[s] # NULL \/ TreeOf(s, request) = {}
  BY <1>1, <1>2 DEF Parameterize
<1>3. CASE generics[s] = NULL /\ TreeOf(s, request) # {} /\ Freed(TreeOf(s, request))
  BY <1>1, <1>3 DEF Parameterize
<1>4. CASE generics[s] = NULL /\ TreeOf(s, request) # {} /\ ~ Freed(TreeOf(s, request))
  BY <1>1, <1>4 DEF Parameterize, ParametersWantedBy
<1> QED BY <1>2, <1>3, <1>4

(* Entering live objects leaves all objects live.                          *)
LEMMA CreatedLive ==
  ASSUME NEW wanted, NEW entered \in Enterable(wanted), Create(wanted, entered),
         \A x \in items : LiveItem(x), \A w \in wanted : LiveItem(w.object), UNCHANGED hierarchyVars
  PROVE  \A x \in items' : LiveItem(x)'
<1>1. ASSUME NEW x, LiveItem(x) PROVE LiveItem(x)'
  BY <1>1 DEF LiveItem, hierarchyVars, IsItem
<1>2. ASSUME NEW w \in wanted PROVE LiveItem([w.object EXCEPT !.net = NULL])
  <2>1. LiveItem(w.object)
    OBVIOUS
  <2> QED BY <2>1 DEF LiveItem, IsItem, Item
<1>3. entered \subseteq wanted
  BY EnteredIds
<1> QED BY <1>1, <1>2, <1>3 DEF Create

-----------------------------------------------------------------------------
InStep(m) == Held("pin", m) = Held("port", m)

(* The property, module by module.                                         *)
LEMMA PinsInStepAt ==
  PinsInStep <=> \A m \in modules \ resource :
                   instances[m] = NULL \/ instances[m].module = m => InStep(m)
BY DEF PinsInStep, InStep, Held

PinsInv == (\A x \in items : LiveItem(x)) /\ PinsInStep

(* The same in the next state.                                             *)
LEMMA PinsInStepNext ==
  (PinsInStep <=> \A m \in modules \ resource :
                   instances[m] = NULL \/ instances[m].module = m => InStep(m))'
BY PinsInStepAt, PTL

(* What the commands that grow the hierarchy leave alone. *)
LEMMA GrowFacts ==
  ASSUME HierarchyInv, HierarchyInv', Grow(Name)
  PROVE  /\ modules \subseteq modules' /\ resource \subseteq resource'
         /\ modules \ resource \subseteq modules' \ resource'
         /\ \A i \in Name : instances[i] # NULL => instances'[i] = instances[i]
         /\ \A m \in Name : default_parent[m] # NULL => default_parent'[m] = default_parent[m]
         /\ \A i \in Name : instances'[i] # NULL /\ instances[i] = NULL =>
              instances'[i].module \in modules /\ (instances'[i].module = i \/ instances'[i].module \in resource)
         /\ \A m \in modules' \ modules : m \in Name
         /\ UNCHANGED <<items, nets, generics, reply>>
<1> USE DEF HierarchyInv
<1>t. HierarchyTypeOK /\ HierarchyTypeOK'
  BY DEF HierarchyInv
<1>1. ASSUME NEW m \in Name, NEW isResource \in BOOLEAN, AddModule(m, isResource)
      PROVE  /\ modules \subseteq modules' /\ resource \subseteq resource'
             /\ modules \ resource \subseteq modules' \ resource'
             /\ UNCHANGED <<instances, default_parent>>
  BY <1>1, <1>t DEF AddModule, HierarchyTypeOK
<1>2. ASSUME NEW i \in Name, NEW type \in Name, NEW parent \in Name, Enter(i, type, parent)
      PROVE  /\ UNCHANGED <<modules, resource>>
             /\ \A j \in Name : instances[j] # NULL => instances'[j] = instances[j]
             /\ \A j \in Name : instances'[j] # NULL /\ instances[j] = NULL => j = i /\ instances'[j].module = type
  BY <1>2, <1>t DEF Enter, HierarchyTypeOK
<1>3. ASSUME NEW type \in Name, NEW parent \in Name, AddDefaultInstance(type, parent)
      PROVE  /\ Enter(type, type, parent) /\ type \in modules
             /\ \A m \in Name : default_parent[m] # NULL => default_parent'[m] = default_parent[m]
  BY <1>3, <1>t DEF AddDefaultInstance, HierarchyTypeOK
<1>4. ASSUME NEW i \in Name, NEW type \in Name, NEW parent \in Name, AddResourceInstance(i, type, parent)
      PROVE  /\ Enter(i, type, parent) /\ type \in resource /\ type \in modules
             /\ UNCHANGED default_parent
  BY <1>4, <1>t DEF AddResourceInstance, HierarchyTypeOK
<1>5. UNCHANGED <<items, nets, generics, reply>>
  BY DEF Grow
<1>6. modules' \subseteq Name
  BY <1>t DEF HierarchyTypeOK
<1>7. CASE \E m \in Name, isResource \in BOOLEAN : AddModule(m, isResource)
  BY <1>1, <1>5, <1>6, <1>7
<1>8. CASE \E type, parent \in Name : AddDefaultInstance(type, parent)
  BY <1>2, <1>3, <1>5, <1>6, <1>8
<1>9. CASE \E i, type, parent \in Name : AddResourceInstance(i, type, parent)
  BY <1>2, <1>4, <1>5, <1>6, <1>9
<1> QED BY <1>7, <1>8, <1>9 DEF Grow

(* Pins and ports stay in step when the hierarchy grows, ...               *)
LEMMA PinsInvGrow ==
  ASSUME HierarchyInv, HierarchyInv', PinsInv, Grow(Name)
  PROVE  PinsInv'
<1> DEFINE L == \A x \in items : LiveItem(x)
<1>1. ASSUME NEW x \in items
      PROVE  LiveItem(x)'
  <2>1. LiveItem(x)
    BY DEF PinsInv
  <2> QED BY <2>1, GrowFacts DEF LiveItem, IsItem
<1>2. \A k, m : Held(k, m)' = Held(k, m)
  BY GrowFacts DEF Held
<1>3. ASSUME NEW m \in modules' \ resource', instances'[m] = NULL \/ instances'[m].module = m
      PROVE  InStep(m)
  <2>1. CASE m \in modules
    <3>1. m \in Name /\ m \in modules \ resource
      BY <2>1, <1>3, GrowFacts DEF HierarchyInv, HierarchyTypeOK
    <3>2. instances[m] = NULL \/ instances[m].module = m
      BY <3>1, <1>3, GrowFacts
    <3> QED BY <3>1, <3>2, PinsInStepAt DEF PinsInv
  <2>2. CASE m \notin modules
    <3>1. m \in Name
      BY <2>2, <1>3, GrowFacts
    <3>2. instances[m] = NULL
      <4>1. ASSUME instances[m] # NULL PROVE FALSE
        <5>1. instances'[m] = instances[m] /\ instances[m].module = m
          BY <3>1, <4>1, <1>3, GrowFacts
        <5>2. instances[m].module \in modules
          BY <3>1, <4>1 DEF HierarchyInv, TablesAgree, EntriesLive
        <5> QED BY <5>1, <5>2, <2>2
      <4> QED BY <4>1
    <3>3. \A x \in items : x.of = m => x.kind # "pin" /\ x.kind # "port"
      BY <2>2, <3>2 DEF PinsInv, LiveItem
    <3>4. Held("pin", m) = {} /\ Held("port", m) = {}
      BY <3>3 DEF Held
    <3> QED BY <3>4 DEF InStep
  <2> QED BY <2>1, <2>2
<1>4. PinsInStep'
  <2> QED BY PinsInStepNext, <1>2, <1>3 DEF InStep
<1>5. items' = items
  BY GrowFacts
<1> QED BY <1>1, <1>4, <1>5 DEF PinsInv

(* ... under connect, ...                                                  *)
LEMMA PinsInvConnect ==
  ASSUME HierarchyInv, HierarchyInv', PinsInv, NEW s \in Signal, NEW request \in Request, Connect(s, request)
  PROVE  PinsInv'
<1> DEFINE W == WantedBy(s, request)
<1>1. CASE UNCHANGED items
  <2>1. UNCHANGED hierarchyVars
    BY ConnectStep
  <2> QED BY <1>1, <2>1 DEF PinsInv, PinsInStep, LiveItem, IsItem, hierarchyVars
<1>2. CASE TreeOf(s, request) # {} /\ \E entered \in Enterable(W) : Create(W, entered)
  <2>1. PICK entered \in Enterable(W) : Create(W, entered)
    BY <1>2
  <2>2. GoodRequest(request) /\ UNCHANGED hierarchyVars
    BY ConnectStep
  <2>3. \A w \in W : LiveItem(w.object) /\ IsItem(w.object)
    BY <1>2, <2>2, WantedSignals DEF LiveItem
  <2>4. \A x \in items' : LiveItem(x)'
    BY <2>1, <2>2, <2>3, CreatedLive DEF PinsInv
  <2>5. ASSUME NEW m \in modules \ resource, instances[m] = NULL \/ instances[m].module = m
        PROVE  InStep(m)'
    <3>1. m \in Name /\ ~ (instances[m] # NULL /\ instances[m].module \in resource)
      BY <2>5 DEF HierarchyInv, HierarchyTypeOK
    <3>2. InStep(m)
      BY <2>5, PinsInStepAt DEF PinsInv
    <3> DEFINE Some(k, name) == \E w \in W : w.object.kind = k /\ w.object.of = m /\ w.object.name = name
    <3>3. \A name : Some("pin", name) <=> Some("port", name)
      BY <3>1, <1>2, <2>2, WantedSignals
    <3>4. \A k, name : name \in Held(k, m)' <=> name \in Held(k, m) \/ Some(k, name)
      BY <2>1, <2>3, CreatedNames
    <3> HIDE DEF Some
    <3>5. \A name : name \in Held("pin", m)' <=> name \in Held("port", m)'
      BY <3>2, <3>3, <3>4 DEF InStep
    <3> QED BY <3>5 DEF InStep
  <2>6. PinsInStep'
    BY <2>2, <2>5, PinsInStepNext DEF hierarchyVars
  <2> QED BY <2>4, <2>6 DEF PinsInv
<1> QED BY <1>1, <1>2, ConnectStep

(* ... and under parameter.                                                *)
LEMMA PinsInvParameterize ==
  ASSUME HierarchyInv, HierarchyInv', PinsInv, NEW s \in Signal,
         NEW targets \in Targets(1 .. MaxEnds), Parameterize(s, targets)
  PROVE  PinsInv'
<1> DEFINE request == [source |-> NULL, targets |-> targets, bidir |-> FALSE]
           W == ParametersWantedBy(s, request)
<1>0. UNCHANGED hierarchyVars /\ GoodRequest(request)
  BY ParameterizeStep
<1>1. CASE UNCHANGED items
  BY <1>0, <1>1 DEF PinsInv, PinsInStep, LiveItem, IsItem, hierarchyVars
<1>2. CASE TreeOf(s, request) # {} /\ \E entered \in Enterable(W) : Create(W, entered)
  <2>1. PICK entered \in Enterable(W) : Create(W, entered)
    BY <1>2
  <2>3. \A w \in W : LiveItem(w.object) /\ IsItem(w.object) /\ w.object.kind \notin {"pin", "port"}
    BY <1>0, <1>2, WantedParameters DEF LiveItem, ParameterKinds
  <2> HIDE DEF W
  <2>4. \A x \in items' : LiveItem(x)'
    BY <1>0, <2>1, <2>3, CreatedLive DEF PinsInv
  <2>5. \A m, name : /\ name \in Held("pin", m)' <=> name \in Held("pin", m)
                     /\ name \in Held("port", m)' <=> name \in Held("port", m)
    BY <2>1, <2>3, CreatedNames
  <2>6. \A m : InStep(m) => InStep(m)'
    <3> SUFFICES ASSUME NEW m, InStep(m) PROVE InStep(m)'
      OBVIOUS
    <3>1. \A name : name \in Held("pin", m)' <=> name \in Held("port", m)'
      BY <2>5 DEF InStep
    <3> QED BY <3>1 DEF InStep
  <2>8. PinsInStep'
    BY <1>0, <2>6, PinsInStepNext, PinsInStepAt DEF PinsInv, hierarchyVars
  <2> QED BY <2>4, <2>8 DEF PinsInv
<1> QED BY <1>1, <1>2, ParameterizeStep

(* The command create_pin finds the port missing whenever the pin is.      *)
LEMMA PinsInvCreatePin ==
  ASSUME HierarchyInv, HierarchyInv', PinsInv, NEW i \in Name, NEW name, NEW dir, CreatePin(i, name, dir)
  PROVE  PinsInv'
<1> DEFINE m    == instances[i].module
           pin  == Item("pin", i, name, name, "none", FALSE, NULL)
           port == Item("port", m, name, NoName, dir, FALSE, NULL)
<1>0. /\ instances[i] # NULL /\ UNCHANGED hierarchyVars
      /\ Id(pin) \notin Ids(items)
      /\ items' = items \cup {pin} \cup {x \in {port} : m \notin resource /\ Id(port) \notin Ids(items)}
  BY DEF CreatePin
<1>1. /\ m \in modules /\ i \in Name
      /\ m \notin resource => i = m
  BY <1>0 DEF HierarchyInv, TablesAgree, EntriesLive
<1>2. /\ pin.kind = "pin" /\ pin.of = i /\ pin.name = name /\ IsItem(pin)
      /\ port.kind = "port" /\ port.of = m /\ port.name = name /\ IsItem(port)
  BY DEF Item, IsItem
<1> HIDE DEF pin, port
<1>3. \A k, o, nm : <<k, o, nm>> \in Ids(items) <=> \E x \in items : x.kind = k /\ x.of = o /\ x.name = nm
  BY DEF Ids, Id
<1>4. Id(pin) = <<"pin", i, name>> /\ Id(port) = <<"port", m, name>>
  BY <1>2 DEF Id
<1> HIDE DEF m
<1>5. \A k, o, nm : nm \in Held(k, o) <=> \E x \in items : x.kind = k /\ x.of = o /\ x.name = nm
  BY DEF Held
<1>6. \A k, o, nm : nm \in Held(k, o)' <=> \E x \in items' : x.kind = k /\ x.of = o /\ x.name = nm
  BY DEF Held
<1>7. name \notin Held("pin", i)
  BY <1>0, <1>3, <1>4, <1>5
<1>8. \A x \in items' : LiveItem(x)'
  <2>1. \A x : LiveItem(x) => LiveItem(x)'
    BY <1>0 DEF LiveItem, IsItem, hierarchyVars
  <2>2. LiveItem(pin)
    BY <1>0, <1>1, <1>2 DEF LiveItem, SignalKinds
  <2>3. m \notin resource => LiveItem(port)
    BY <1>0, <1>1, <1>2 DEF LiveItem, SignalKinds, HierarchyInv, HierarchyTypeOK
  <2>4. \A x \in items' : LiveItem(x)
    BY <2>2, <2>3, <1>0 DEF PinsInv
  <2> QED BY <2>1, <2>4
<1>9. ASSUME NEW o \in modules \ resource, instances[o] = NULL \/ instances[o].module = o
      PROVE  InStep(o)'
  <2>1. InStep(o)
    BY <1>9, PinsInStepAt DEF PinsInv
  <2>2. CASE o # i
    <3>1. o = m => m \in resource
      BY <1>1, <2>2
    <3>2. \A k, nm : nm \in Held(k, o)' <=> nm \in Held(k, o)
      BY <1>0, <1>2, <1>5, <1>6, <1>9, <2>2, <3>1
    <3>3. \A nm : nm \in Held("pin", o)' <=> nm \in Held("port", o)'
      BY <2>1, <3>2 DEF InStep
    <3> QED BY <3>3 DEF InStep
  <2>3. CASE o = i
    <3>1. m = i /\ m \notin resource
      BY <1>0, <1>9, <2>3 DEF m
    <3>2. name \notin Held("port", i)
      BY <1>7, <2>1, <2>3 DEF InStep
    <3>3. items' = items \cup {pin, port}
      BY <1>0, <1>3, <1>4, <1>5, <3>1, <3>2
    <3>4. \A nm : /\ nm \in Held("pin", i)' <=> nm \in Held("pin", i) \/ nm = name
                  /\ nm \in Held("port", i)' <=> nm \in Held("port", i) \/ nm = name
      BY <1>2, <1>5, <1>6, <3>1, <3>3
    <3>5. \A nm : nm \in Held("pin", o)' <=> nm \in Held("port", o)'
      BY <2>1, <2>3, <3>4 DEF InStep
    <3> QED BY <3>5 DEF InStep
  <2> QED BY <2>2, <2>3
<1>11. PinsInStep'
  BY <1>0, <1>9, PinsInStepNext DEF hierarchyVars
<1> QED BY <1>8, <1>11 DEF PinsInv

(* Pins of default instances and the ports of their modules stay in step,  *)
(* whatever is entered by commands that are made or fail.  A command that  *)
(* frees its tree is the last step of ConnectionSpec: of what the code     *)
(* does with the freed tree nothing is claimed.                            *)
THEOREM ConnectionPinsInStep == ConnectionSpec => []PinsInStep
<1>1. ConnectionInit => PinsInv
  BY DEF ConnectionInit, PinsInv, PinsInStep
<1>2. HierarchyInv /\ HierarchyInv' /\ PinsInv /\ [ConnectionNext]_connectionVars => PinsInv'
  <2> SUFFICES ASSUME HierarchyInv, HierarchyInv', PinsInv, [ConnectionNext]_connectionVars
               PROVE  PinsInv'
    OBVIOUS
  <2>1. CASE Grow(Name)
    BY <2>1, PinsInvGrow
  <2>2. ASSUME NEW s \in Signal, NEW request \in Request, Connect(s, request)
        PROVE  PinsInv'
    BY <2>2, PinsInvConnect
  <2>3. ASSUME NEW s \in Signal, NEW targets \in Targets(1 .. MaxEnds), Parameterize(s, targets)
        PROVE  PinsInv'
    BY <2>3, PinsInvParameterize
  <2>4. ASSUME NEW i \in Name, NEW w \in Writing, NEW dir, CreatePin(i, w.name, dir)
        PROVE  PinsInv'
    BY <2>4, PinsInvCreatePin
  <2>5. CASE ResetAll
    BY <2>5 DEF ResetAll, Reset, PinsInv, PinsInStep
  <2>6. CASE UNCHANGED connectionVars
    BY <2>6 DEF connectionVars, hierarchyVars, PinsInv, PinsInStep, LiveItem, IsItem
  <2> QED BY <2>1, <2>2, <2>3, <2>4, <2>5, <2>6 DEF ConnectionNext, Commands
<1>3. PinsInv => PinsInStep
  BY DEF PinsInv
<1> QED BY <1>1, <1>2, <1>3, ConnectionHierarchy, PTL DEF ConnectionSpec

-----------------------------------------------------------------------------
(* Every node of a tree is the head of its climbs merged.                  *)
IsMerged(n) == \E inherited : n = Merged(n.type, n.of, n.climbs, inherited)

(* Each child is the merging of its climbs, ...                            *)
LEMMA ChildrenMerged ==
  ASSUME NEW n, NEW type, NEW of, NEW x \in Children(n, type, of)
  PROVE  IsMerged(x)
<1>1. PICK S : x = Merged(type, of, S, HandsDown(n))
  BY DEF Children
<1>2. x.type = type /\ x.of = of /\ x.climbs = S
  BY <1>1 DEF Merged
<1> QED BY <1>1, <1>2 DEF IsMerged

(* ... and so is each node of a tree.                                      *)
LEMMA TreeMerged ==
  ASSUME HierarchyTypeOK, Acyclic, NEW s, NEW C, C # {}, GoodClimbs(C), NEW n \in Tree(s, C)
  PROVE  IsMerged(n)
<1>1. ASSUME NEW N, NEW type, NEW of, n \in NextOf(N, type, of) PROVE IsMerged(n)
  BY <1>1, ChildrenMerged DEF NextOf
<1>2. ASSUME NEW m \in Name, n \in Merge(s, C)[m].instance PROVE IsMerged(n)
  <2>1. CASE default_parent[m] = NULL
    <3>1. n \in TreeRoot(s, C, m)
      BY <1>2, <2>1, MergeParts
    <3>2. n = Merged("instance", m, C, <<s>>)
      BY <3>1 DEF TreeRoot
    <3>3. n.type = "instance" /\ n.of = m /\ n.climbs = C
      BY <3>2 DEF Merged
    <3> QED BY <3>2, <3>3 DEF IsMerged
  <2>2. CASE default_parent[m] # NULL
    BY <1>1, <1>2, <2>2, MergeParts
  <2> QED BY <2>1, <2>2
<1>3. ASSUME NEW m \in Name, n \in Merge(s, C)[m].module PROVE IsMerged(n)
  BY <1>1, <1>3, MergeParts
<1>4. ASSUME NEW c \in C, n \in LeavesAt(s, C, c.leaf) PROVE IsMerged(n)
  BY <1>1, <1>4 DEF LeavesAt
<1> QED BY <1>2, <1>3, <1>4, TreeParts

(* What a merged node says of its climbs.                                  *)
LEMMA MergedFacts ==
  ASSUME NEW n, IsMerged(n)
  PROVE  /\ n.dir = DirOf(n.type, n.climbs)
         /\ n.explicit <=> \E c \in n.climbs : ExplicitAt(c, n.type, n.of)
         /\ n.invert = \E c \in n.climbs : GivenAt(c, n.type, n.of) /\ c.as.invert
<1>1. PICK inherited : n = Merged(n.type, n.of, n.climbs, inherited)
  BY DEF IsMerged
<1>2. ASSUME NEW type, NEW of, NEW S
      PROVE  LET m == Merged(type, of, S, inherited)
             IN  /\ m.dir = DirOf(type, S)
                 /\ m.explicit = (\E c \in S : ExplicitAt(c, type, of))
                 /\ m.invert = (\E c \in S : GivenAt(c, type, of) /\ c.as.invert)
  BY DEF Merged
<1> DEFINE m == Merged(n.type, n.of, n.climbs, inherited)
<1>3. /\ m.dir = DirOf(n.type, n.climbs)
      /\ m.explicit = (\E c \in n.climbs : ExplicitAt(c, n.type, n.of))
      /\ m.invert = (\E c \in n.climbs : GivenAt(c, n.type, n.of) /\ c.as.invert)
  BY <1>2, Zenon
<1> HIDE DEF m
<1>4. n = m
  BY <1>1 DEF m
<1>5. n.dir = m.dir /\ n.explicit = m.explicit /\ n.invert = m.invert
  BY <1>4
<1> QED BY <1>3, <1>5, Zenon

(* Nodes with the same climbs have the same direction.                     *)
LEMMA DirOfClimbs ==
  ASSUME NEW n, NEW x, IsMerged(n), IsMerged(x), n.climbs = x.climbs
  PROVE  n.dir = x.dir
BY MergedFacts DEF DirOf

-----------------------------------------------------------------------------
(* A leaf has the module it is in above it in what is left of a tree, and  *)
(* a tree begins at an instance only to branch there.                      *)
LEMMA RootsOfReduced ==
  ASSUME HierarchyInv, NEW R, NEW T, NEW C, IsReduced(R, T, C), \A n \in T : IsMerged(n),
         NEW n \in R, IsRoot(R, n)
  PROVE  /\ n.type # "leaf"
         /\ n.type = "instance" => \E x, y \in R : x # y /\ IsParent(n, x) /\ IsParent(n, y)
<1>1. IsTree(T, C) /\ GoodClimbs(C) /\ R = Reduce(T) /\ Stops(T, n) /\ n \in T
  BY ReduceKeeps DEF IsReduced, HierarchyInv
<1>2. n.type # "leaf"
  <2> SUFFICES ASSUME n.type = "leaf" PROVE FALSE
    OBVIOUS
  <2>1. PICK p \in T : IsParent(p, n)
    BY <1>1 DEF IsTree
  <2>2. PICK c \in n.climbs : c \in C /\ PassesBy(c, "leaf", n.of)
    BY <1>1 DEF IsTree
  <2>3. c.leaf = n.of /\ n.of \in Name
    BY <1>1, <2>2 DEF PassesBy, IsTree
  <2>4. c.from = instances[n.of].parent
    BY <1>1, <2>2, <2>3, NameAssumption DEF GoodClimbs
  <2>5. p.type = "module" /\ p.of = c.from /\ c \in p.climbs
    BY <2>1, <2>2, <2>4 DEF IsParent, Around
  <2>6. p.explicit
    <3>1. ExplicitAt(c, p.type, p.of)
      BY <2>5 DEF ExplicitAt
    <3> QED BY <2>5, <3>1, MergedFacts
  <2>7. p \in R
    BY <2>6, <1>1, ReduceKeeps DEF Stops, HierarchyInv
  <2> QED BY <2>1, <2>7 DEF IsRoot
<1>3. ASSUME n.type = "instance"
      PROVE  \E x, y \in R : x # y /\ IsParent(n, x) /\ IsParent(n, y)
  <2>1. ~ n.explicit
    <3>1. \A c : ~ ExplicitAt(c, n.type, n.of)
      BY <1>3 DEF ExplicitAt
    <3> QED BY <3>1, <1>1, MergedFacts
  <2>2. PICK x \in T, y \in T : IsParent(n, x) /\ IsParent(n, y) /\ x # y
    BY <2>1, <1>1 DEF Stops
  <2>3. x \in R /\ y \in R
    BY <2>2, <1>1, ReduceKeeps DEF HierarchyInv
  <2> QED BY <2>2, <2>3
<1> QED BY <1>2, <1>3

-----------------------------------------------------------------------------
(* No two objects are wanted under one Object-ID. *)
IdsApart(wanted) == \A v, w \in wanted : Id(v.object) = Id(w.object) => v = w

(* What is wanted, node by node.                                           *)
LEMMA WantedAt ==
  ASSUME NEW s, NEW request
  PROVE  LET R == TreeOf(s, request)
         IN  /\ \A w \in WantedBy(s, request) : w.node \in R /\ w.object = SignalAt(R, w.node, s)
             /\ \A n \in R : [node |-> n, object |-> SignalAt(R, n, s)] \in WantedBy(s, request)
<1> DEFINE R == TreeOf(s, request)
           at(n) == [node |-> n, object |-> SignalAt(R, n, s)]
<1>1. WantedBy(s, request) = {at(n) : n \in R}
  BY ObjectsOfSignal DEF WantedBy
<1>2. \A n : at(n).node = n /\ at(n).object = SignalAt(R, n, s)
  OBVIOUS
<1> HIDE DEF R
<1> QED BY <1>1, <1>2 DEF R

(* When all objects of a signal can be made, the part of the tree that is  *)
(* left begins at a module, and instances and their modules are one to one *)
(* in it, with the same climbs and so with the same directions.            *)
LEMMA ModulesBelowInstances ==
  ASSUME HierarchyInv, NEW s, NEW request, GoodRequest(request), TreeOf(s, request) # {},
         IdsApart(WantedBy(s, request))
  PROVE  LET R == TreeOf(s, request)
         IN  /\ \A n \in R : IsRoot(R, n) => n.type = "module"
             /\ \A n \in R : n.type = "instance" =>
                  \E x \in R : IsParent(n, x) /\ x.type = "module" /\ x.of = n.of /\ x.dir = n.dir
             /\ \A n, x \in R : n.type = "instance" /\ IsParent(n, x) => x.dir = n.dir
<1> DEFINE R == TreeOf(s, request)
           C == Climbs(request)
           T == Tree(s, C)
<1>1. IsReduced(R, T, C) /\ \A n \in T : IsMerged(n)
  BY TreeOfRequest, ClimbsAreGood, TreeMerged DEF HierarchyInv
<1>2. \A w \in WantedBy(s, request) : w.node \in R /\ w.object = SignalAt(R, w.node, s)
  BY WantedAt
<1>3. \A n \in R : [node |-> n, object |-> SignalAt(R, n, s)] \in WantedBy(s, request)
  BY WantedAt
<1> HIDE DEF R, C, T
<1>4. R \subseteq T
  BY <1>1, ReduceKeeps DEF IsReduced, HierarchyInv
<1>5. ASSUME NEW n \in R, n.type = "instance", NEW x \in R, NEW y \in R, IsParent(n, x), IsParent(n, y)
      PROVE  x = y
  <2>1. ASSUME NEW z \in R, IsParent(n, z)
        PROVE  LET o == SignalAt(R, z, s) IN o.kind = "port" /\ o.of = n.of /\ o.name = SignalName(R, n)
    <3>1. z.type = "module" /\ z.of = n.of
      <4>1. <<"instance", n.of>> = Around(z) /\ z.type \in {"instance", "module", "leaf"}
        BY <1>1, <1>5, <2>1, ReducedFacts DEF IsParent
      <4> QED BY <4>1 DEF Around
    <3>2. ~ IsRoot(R, z) /\ Parent(R, z) = n
      BY <1>1, <1>5, <2>1, ReducedFacts
    <3> DEFINE o == SignalAt(R, z, s)
    <3>3. /\ o = Item(o.kind, z.of, SignalName(R, z), o.conn, o.dir, o.invert, s)
          /\ o.kind = "port" /\ SignalName(R, z) = SignalName(R, Parent(R, z))
      BY <1>1, <3>1, <3>2, SignalObjects
    <3> HIDE DEF o
    <3>4. o.of = z.of /\ o.name = SignalName(R, z)
      BY <3>3 DEF Item
    <3> QED BY <3>1, <3>2, <3>3, <3>4 DEF o
  <2> DEFINE v == [node |-> x, object |-> SignalAt(R, x, s)]
             w == [node |-> y, object |-> SignalAt(R, y, s)]
  <2>2. Id(v.object) = Id(w.object)
    BY <1>5, <2>1 DEF Id
  <2>3. v = w
    BY <1>3, <2>2 DEF IdsApart
  <2> QED BY <2>3
<1>6. ASSUME NEW n \in R, IsRoot(R, n) PROVE n.type = "module"
  <2>1. n.type # "leaf"
    BY <1>1, <1>6, RootsOfReduced
  <2>2. n.type # "instance"
    BY <1>1, <1>5, <1>6, RootsOfReduced
  <2> QED BY <2>1, <2>2, <1>1, ReducedFacts
<1>7. ASSUME NEW n \in R, n.type = "instance", NEW x \in R, IsParent(n, x) PROVE x.dir = n.dir
  <2>1. \A c \in n.climbs : \E y \in R : IsParent(n, y) /\ c \in y.climbs
    BY <1>1, <1>7, ReducedFacts
  <2>2. n.climbs \subseteq x.climbs
    BY <1>5, <1>7, <2>1
  <2>3. x.climbs \subseteq n.climbs
    BY <1>7 DEF IsParent
  <2>4. n.climbs = x.climbs
    BY <2>2, <2>3
  <2> QED BY <1>1, <1>4, <1>7, <2>4, DirOfClimbs
<1>8. ASSUME NEW n \in R, n.type = "instance"
      PROVE  \E x \in R : IsParent(n, x) /\ x.type = "module" /\ x.of = n.of /\ x.dir = n.dir
  <2>1. PICK c : c \in n.climbs
    BY <1>1, ReducedFacts
  <2>2. PICK x \in R : IsParent(n, x) /\ x.type = "module" /\ x.of = n.of
    BY <1>1, <1>8, <2>1, ReducedFacts
  <2> QED BY <2>2, <1>7, <1>8
<1> QED BY <1>6, <1>7, <1>8 DEF R

-----------------------------------------------------------------------------
(* What is known of the objects of a net of which all could be made.       *)
PinAndPort(O, k, l) ==
  \A x \in O : x.kind = k /\ instances[x.of] # NULL /\ instances[x.of].module \notin resource =>
    \E y \in O : y.kind = l /\ y.of = x.of /\ y.name = x.name /\ y.dir = x.dir

Wired(O) ==
  /\ \A x \in O : x.of \in Name /\ (x.kind \in {"pin", "port"} => instances[x.of] # NULL)
  /\ \A x \in O : x.kind = "pin" =>
       \E y \in O : y.kind \in {"port", "declaration"} /\ y.of = instances[x.of].parent /\ y.name = x.conn
  /\ PinAndPort(O, "pin", "port") /\ PinAndPort(O, "port", "pin")

(* If no two objects wanted share an Object-ID, the pins are connected and *)
(* match the ports.                                                        *)
LEMMA WiredWhenApart ==
  ASSUME HierarchyInv, NEW s, NEW request, GoodRequest(request), TreeOf(s, request) # {},
         IdsApart(WantedBy(s, request))
  PROVE  Wired({w.object : w \in WantedBy(s, request)})
<1> DEFINE R == TreeOf(s, request)
           C == Climbs(request)
           T == Tree(s, C)
           O == {w.object : w \in WantedBy(s, request)}
<1>1. IsReduced(R, T, C)
  BY TreeOfRequest
<1>2. /\ \A o \in O : \E n \in R : o = SignalAt(R, n, s)
      /\ \A n \in R : SignalAt(R, n, s) \in O
  <2>1. \A w \in WantedBy(s, request) : w.node \in R /\ w.object = SignalAt(R, w.node, s)
    BY WantedAt
  <2>2. ASSUME NEW n \in R PROVE SignalAt(R, n, s) \in O
    <3> DEFINE w == [node |-> n, object |-> SignalAt(R, n, s)]
    <3>1. w \in WantedBy(s, request) /\ w.object = SignalAt(R, n, s)
      BY WantedAt
    <3> QED BY <3>1
  <2> QED BY <2>1, <2>2
<1>3. /\ \A n \in R : IsRoot(R, n) => n.type = "module"
      /\ \A n \in R : n.type = "instance" =>
           \E x \in R : IsParent(n, x) /\ x.type = "module" /\ x.of = n.of /\ x.dir = n.dir
      /\ \A n, x \in R : n.type = "instance" /\ IsParent(n, x) => x.dir = n.dir
  BY ModulesBelowInstances
<1> HIDE DEF R, C, T, O
<1>4. ASSUME NEW n \in R
      PROVE  LET o == SignalAt(R, n, s)
             IN  /\ o.of = n.of /\ o.name = SignalName(R, n) /\ o.of \in Name
                 /\ n.type # "module" =>
                      o.kind = "pin" /\ o.dir = PortDir(n.dir) /\ o.conn = SignalName(R, Parent(R, n))
                 /\ n.type = "module" /\ IsRoot(R, n) => o.kind = "declaration"
                 /\ n.type = "module" /\ ~ IsRoot(R, n) =>
                      /\ o.kind = "port" /\ o.dir = PortDir(n.dir)
                      /\ SignalName(R, n) = SignalName(R, Parent(R, n))
  <2> DEFINE o == SignalAt(R, n, s)
  <2>1. /\ o = Item(o.kind, n.of, SignalName(R, n), o.conn, o.dir, o.invert, s)
        /\ n.type # "module" =>
             /\ o.kind = "pin" /\ o.dir = PortDir(n.dir)
             /\ ~ IsRoot(R, n) => o.conn = SignalName(R, Parent(R, n))
        /\ n.type = "module" /\ IsRoot(R, n) => o.kind = "declaration"
        /\ n.type = "module" /\ ~ IsRoot(R, n) =>
             /\ o.kind = "port" /\ o.dir = PortDir(n.dir)
             /\ SignalName(R, n) = SignalName(R, Parent(R, n))
    BY <1>1, SignalObjects
  <2>2. n.type # "module" => ~ IsRoot(R, n)
    BY <1>3
  <2> HIDE DEF o
  <2>3. o.of = n.of /\ o.name = SignalName(R, n)
    BY <2>1 DEF Item
  <2>4. n.of \in Name
    BY <1>1, ReducedFacts
  <2> QED BY <2>1, <2>2, <2>3, <2>4 DEF o
<1>5. ASSUME NEW n \in R, ~ IsRoot(R, n)
      PROVE  /\ Parent(R, n) \in R /\ IsParent(Parent(R, n), n)
             /\ instances[n.of] # NULL
             /\ n.type # "module" => Parent(R, n).type = "module" /\ Parent(R, n).of = instances[n.of].parent
             /\ n.type # "leaf" => instances[n.of].module = n.of
             /\ n.type = "leaf" => instances[n.of].module \in resource
             /\ n.type = "module" => Parent(R, n).type = "instance" /\ Parent(R, n).of = n.of
  <2> DEFINE p == Parent(R, n)
  <2>1. /\ p \in R /\ IsParent(p, n) /\ p.of \in Name /\ n.of \in Name
        /\ n.type \in {"instance", "module", "leaf"}
        /\ n.type = "leaf" => instances[n.of] # NULL /\ instances[n.of].module \in resource
        /\ n.type = "module" => p.type = "instance" /\ p.of = n.of
        /\ n.type = "instance" => p.type = "module" /\ p.of = default_parent[n.of]
        /\ n.type = "leaf" => p.type = "module" /\ p.of = instances[n.of].parent
        /\ n.type # "leaf" => n.of \in modules \ resource
    BY <1>1, <1>5, ReducedFacts, NodesLive
  <2>2. p.type = "instance" => ~ IsRoot(R, p)
    BY <1>3, <2>1
  <2>3. n.type = "module" => Parent(R, p) \in R /\ Parent(R, p).of = default_parent[p.of] /\ Parent(R, p).of \in Name
    BY <1>1, <2>1, <2>2, ReducedFacts
  <2>4. n.type # "leaf" => default_parent[n.of] # NULL
    BY <2>1, <2>3, NameAssumption
  <2>5. n.type # "leaf" => /\ instances[n.of] # NULL /\ instances[n.of].module = n.of
                           /\ instances[n.of].parent = default_parent[n.of]
    BY <2>1, <2>4 DEF HierarchyInv, TablesAgree, DefaultsInTable
  <2> QED BY <2>1, <2>5
<1>6. ASSUME NEW x \in O
      PROVE  x.of \in Name /\ (x.kind \in {"pin", "port"} => instances[x.of] # NULL)
  <2>1. PICK n \in R : x = SignalAt(R, n, s)
    BY <1>2
  <2> QED BY <2>1, <1>3, <1>4, <1>5
<1>7. ASSUME NEW x \in O, x.kind = "pin"
      PROVE  \E y \in O : y.kind \in {"port", "declaration"} /\ y.of = instances[x.of].parent /\ y.name = x.conn
  <2>1. PICK n \in R : x = SignalAt(R, n, s)
    BY <1>2
  <2>2. n.type # "module" /\ ~ IsRoot(R, n)
    BY <2>1, <1>3, <1>4, <1>7
  <2>3. Parent(R, n) \in R /\ SignalAt(R, Parent(R, n), s) \in O
    BY <1>2, <1>5, <2>2
  <2> DEFINE y == SignalAt(R, Parent(R, n), s)
  <2>4. y.kind \in {"port", "declaration"} /\ y.of = instances[x.of].parent /\ y.name = x.conn
    BY <2>1, <2>2, <2>3, <1>4, <1>5
  <2> QED BY <2>3, <2>4
<1>8. PinAndPort(O, "pin", "port")
  <2> SUFFICES ASSUME NEW x \in O, x.kind = "pin", instances[x.of].module \notin resource
               PROVE  \E y \in O : y.kind = "port" /\ y.of = x.of /\ y.name = x.name /\ y.dir = x.dir
    BY DEF PinAndPort
  <2>1. PICK n \in R : x = SignalAt(R, n, s)
    BY <1>2
  <2>2. n.type = "instance"
    <3>1. n.type # "module" /\ n.of = x.of
      BY <2>1, <1>4
    <3>2. n.type # "leaf"
      BY <3>1, <1>3, <1>5
    <3> QED BY <3>1, <3>2, <1>1, ReducedFacts
  <2>3. PICK z \in R : IsParent(n, z) /\ z.type = "module" /\ z.of = n.of /\ z.dir = n.dir
    BY <2>2, <1>3
  <2>4. ~ IsRoot(R, z) /\ Parent(R, z) = n
    BY <1>1, <2>3, ReducedFacts
  <2>5. SignalAt(R, z, s) \in O
    BY <1>2
  <2> WITNESS SignalAt(R, z, s) \in O
  <2> QED BY <2>1, <2>2, <2>3, <2>4, <1>4
<1>9. PinAndPort(O, "port", "pin")
  <2> SUFFICES ASSUME NEW x \in O, x.kind = "port"
               PROVE  \E y \in O : y.kind = "pin" /\ y.of = x.of /\ y.name = x.name /\ y.dir = x.dir
    BY DEF PinAndPort
  <2>1. PICK n \in R : x = SignalAt(R, n, s)
    BY <1>2
  <2>2. n.type = "module" /\ ~ IsRoot(R, n)
    BY <2>1, <1>4
  <2> DEFINE p == Parent(R, n)
  <2>3. p \in R /\ p.type = "instance" /\ p.of = n.of /\ IsParent(p, n) /\ n.dir = p.dir
    BY <2>2, <1>3, <1>5
  <2>4. SignalAt(R, p, s) \in O
    BY <2>3, <1>2
  <2> HIDE DEF p
  <2>5. SignalName(R, n) = SignalName(R, p)
    BY <2>2, <1>4 DEF p
  <2> WITNESS SignalAt(R, p, s) \in O
  <2> QED BY <2>1, <2>2, <2>3, <2>5, <1>4
<1> QED BY <1>6, <1>7, <1>8, <1>9 DEF Wired, O

-----------------------------------------------------------------------------
(* The objects of the nets and generics after the objects of s were made.  *)
LEMMA CreatedObjects ==
  ASSUME NEW wanted, NEW entered \in Enterable(wanted), Create(wanted, entered), NEW s \in Signal,
         \A w \in wanted : IsItem(w.object) /\ w.object.net = s
  PROVE  /\ \A t \in Signal \ {s} : \A K : ObjectsOf(t, K)' = ObjectsOf(t, K)
         /\ \A K : (\A w \in wanted : w.object.kind \notin K) => ObjectsOf(s, K)' = ObjectsOf(s, K)
         /\ entered # wanted => \A K : ObjectsOf(s, K)' = ObjectsOf(s, K)
         /\ entered = wanted =>
              \A K : (\A w \in wanted : w.object.kind \in K) =>
                ObjectsOf(s, K)' = ObjectsOf(s, K) \cup {w.object : w \in wanted}
<1> DEFINE made(w) == IF entered = wanted THEN w.object ELSE [w.object EXCEPT !.net = NULL]
<1>1. items' = items \cup {made(w) : w \in entered}
  BY DEF Create
<1>2. entered \subseteq wanted
  BY EnteredIds
<1>3. ASSUME NEW w \in entered
      PROVE  /\ entered = wanted => made(w) = w.object /\ made(w).net = s
             /\ entered # wanted => made(w).net = NULL
  <2>1. IsItem(w.object) /\ w.object.net = s
    BY <1>2
  <2>2. [w.object EXCEPT !.net = NULL].net = NULL
    BY <2>1 DEF IsItem, Item
  <2> QED BY <2>1, <2>2
<1>4. \A t \in Signal : t # NULL
  BY ConnectionAssumption
<1> HIDE DEF made
<1>5. \A t, K : ObjectsOf(t, K) = {x \in items : x.net = t /\ x.kind \in K}
  BY DEF ObjectsOf
<1>6. \A t, K : ObjectsOf(t, K)' = {x \in items' : x.net = t /\ x.kind \in K}
  BY DEF ObjectsOf
<1>7. ASSUME NEW t \in Signal \ {s}, NEW K PROVE ObjectsOf(t, K)' = ObjectsOf(t, K)
  <2>1. \A w \in entered : made(w).net # t
    BY <1>3, <1>4
  <2> QED BY <2>1, <1>1, <1>5, <1>6
<1>8. ASSUME entered # wanted, NEW K PROVE ObjectsOf(s, K)' = ObjectsOf(s, K)
  <2>1. \A w \in entered : made(w).net # s
    BY <1>3, <1>4, <1>8
  <2> QED BY <2>1, <1>1, <1>5, <1>6
<1>9. ASSUME NEW K, \A w \in wanted : w.object.kind \notin K PROVE ObjectsOf(s, K)' = ObjectsOf(s, K)
  <2>1. CASE entered = wanted
    <3>1. \A w \in entered : made(w).kind \notin K
      BY <1>2, <1>3, <1>9, <2>1
    <3> QED BY <3>1, <1>1, <1>5, <1>6
  <2> QED BY <2>1, <1>8
<1>10. ASSUME entered = wanted, NEW K, \A w \in wanted : w.object.kind \in K
       PROVE  ObjectsOf(s, K)' = ObjectsOf(s, K) \cup {w.object : w \in wanted}
  <2>1. \A w \in wanted : made(w) = w.object /\ w.object.net = s
    BY <1>3, <1>10
  <2>2. items' = items \cup {w.object : w \in wanted}
    BY <1>1, <1>10, <2>1
  <2> QED BY <2>1, <2>2, <1>5, <1>6, <1>10
<1> QED BY <1>7, <1>8, <1>9, <1>10

-----------------------------------------------------------------------------
NetsTyped == nets \in [Signal -> NetEntry \cup {NULL}] /\ generics \in [Signal -> NetEntry \cup {NULL}]

(* The entry of a net or generic, and when it counts as made.              *)
LEMMA EntryTyped ==
  ASSUME NEW request \in Request \cup ParameterRequest, NEW wanted, NEW entered
  PROVE  LET e == Entry(wanted, entered, request)
         IN  /\ e \in NetEntry /\ e # NULL /\ e.request = request
             /\ Made(e) <=> entered = wanted
<1> DEFINE e == Entry(wanted, entered, request)
<1>1. e \in NetEntry /\ e.request = request /\ (e.made <=> entered = wanted)
  BY DEF Entry, NetEntry
<1>2. e # NULL
  BY <1>1, ConnectionAssumption
<1> QED BY <1>1, <1>2 DEF Made

(* What a step may do to the net s: it is reset, it stays with its         *)
(* objects, or it is connected.                                            *)
NetGone(s)  == nets'[s] = NULL /\ ObjectsOf(s, SignalKinds)' = {}
NetStays(s) == nets'[s] = nets[s] /\ ObjectsOf(s, SignalKinds)' = ObjectsOf(s, SignalKinds)

Connected(s, request) ==
  LET wanted == WantedBy(s, request)
  IN  /\ GoodRequest(request) /\ TreeOf(s, request) # {} /\ UNCHANGED hierarchyVars
      /\ nets[s] = NULL /\ nets'[s] # NULL /\ nets'[s].request = request
      /\ Made(nets'[s]) =>
           /\ IdsApart(wanted)
           /\ ObjectsOf(s, SignalKinds)' = ObjectsOf(s, SignalKinds) \cup {w.object : w \in wanted}

(* What connect does to one net, ...                                       *)
LEMMA NetsOfConnect ==
  ASSUME HierarchyInv, NetsTyped, NEW t \in Signal, NEW request \in Request, Connect(t, request),
         NEW s \in Signal
  PROVE  /\ NetsTyped'
         /\ NetStays(s) \/ Connected(s, request)
<1> DEFINE W == WantedBy(t, request)
<1>0. GoodRequest(request) /\ UNCHANGED <<hierarchyVars, generics>>
  BY ConnectStep
<1>1. CASE UNCHANGED <<items, nets>>
  BY <1>0, <1>1 DEF NetsTyped, NetStays, ObjectsOf
<1>2. CASE /\ nets[t] = NULL /\ TreeOf(t, request) # {}
           /\ \E entered \in Enterable(W) :
                Create(W, entered) /\ nets' = [nets EXCEPT ![t] = Entry(W, entered, request)]
  <2>1. PICK entered \in Enterable(W) :
          Create(W, entered) /\ nets' = [nets EXCEPT ![t] = Entry(W, entered, request)]
    BY <1>2
  <2>2. \A w \in W : IsItem(w.object) /\ w.object.net = t /\ w.object.kind \in SignalKinds
    BY <1>0, <1>2, WantedSignals DEF LiveItem
  <2>3. LET e == Entry(W, entered, request)
        IN  /\ e \in NetEntry /\ e # NULL /\ e.request = request
            /\ Made(e) <=> entered = W
    BY EntryTyped
  <2>4. /\ nets'[t] = Entry(W, entered, request)
        /\ s # t => nets'[s] = nets[s]
        /\ NetsTyped'
    BY <2>1, <2>3, <1>0 DEF NetsTyped
  <2>5. entered = W => IdsApart(W)
    BY EnteredIds DEF IdsApart
  <2> HIDE DEF W
  <2>6. CASE s # t
    <3>1. ObjectsOf(s, SignalKinds)' = ObjectsOf(s, SignalKinds)
      BY <2>1, <2>2, <2>6, CreatedObjects
    <3> QED BY <3>1, <2>4, <2>6 DEF NetStays
  <2>7. CASE s = t
    <3>1. entered = W => ObjectsOf(t, SignalKinds)' = ObjectsOf(t, SignalKinds) \cup {w.object : w \in W}
      BY <2>1, <2>2, CreatedObjects
    <3> QED BY <3>1, <1>0, <1>2, <2>3, <2>4, <2>5, <2>7 DEF Connected, W
  <2> QED BY <2>4, <2>6, <2>7
<1> QED BY <1>1, <1>2, ConnectStep

(* ... parameter, ...                                                      *)
LEMMA NetsOfParameterize ==
  ASSUME HierarchyInv, NetsTyped, NEW t \in Signal, NEW targets \in Targets(1 .. MaxEnds),
         Parameterize(t, targets), NEW s \in Signal
  PROVE  NetsTyped' /\ NetStays(s) /\ UNCHANGED hierarchyVars
<1> DEFINE request == [source |-> NULL, targets |-> targets, bidir |-> FALSE]
           W == ParametersWantedBy(t, request)
<1>0. GoodRequest(request) /\ UNCHANGED <<hierarchyVars, nets>>
  BY ParameterizeStep
<1>1. CASE UNCHANGED <<items, generics>>
  BY <1>0, <1>1 DEF NetsTyped, NetStays, ObjectsOf
<1>2. CASE /\ generics[t] = NULL /\ TreeOf(t, request) # {}
           /\ \E entered \in Enterable(W) :
                Create(W, entered) /\ generics' = [generics EXCEPT ![t] = Entry(W, entered, request)]
  <2>1. PICK entered \in Enterable(W) :
          Create(W, entered) /\ generics' = [generics EXCEPT ![t] = Entry(W, entered, request)]
    BY <1>2
  <2>2. \A w \in W : IsItem(w.object) /\ w.object.net = t /\ w.object.kind \in ParameterKinds
    BY <1>0, <1>2, WantedParameters DEF LiveItem
  <2>3. request \in ParameterRequest
    BY DEF ParameterRequest
  <2> HIDE DEF request
  <2>4. Entry(W, entered, request) \in NetEntry
    BY <2>3, EntryTyped
  <2>5. NetsTyped'
    BY <2>1, <2>4, <1>0 DEF NetsTyped
  <2> HIDE DEF W
  <2>6. \A w \in W : w.object.kind \notin SignalKinds
    BY <2>2 DEF SignalKinds, ParameterKinds
  <2>7. ObjectsOf(s, SignalKinds)' = ObjectsOf(s, SignalKinds)
    BY <2>1, <2>2, <2>6, CreatedObjects
  <2> QED BY <2>5, <2>7, <1>0 DEF NetStays
<1> QED BY <1>1, <1>2, ParameterizeStep

(* ... and create_pin.                                                     *)
LEMMA NetsOfCreatePin ==
  ASSUME NetsTyped, NEW i, NEW name, NEW dir, CreatePin(i, name, dir), NEW s \in Signal
  PROVE  /\ NetsTyped' /\ NetStays(s) /\ UNCHANGED hierarchyVars
         /\ \A K : ObjectsOf(s, K)' = ObjectsOf(s, K)
<1>1. /\ UNCHANGED <<hierarchyVars, nets, generics>>
      /\ \E new : items' = items \cup new /\ \A x \in new : x.net = NULL
  <2> DEFINE m    == instances[i].module
             pin  == Item("pin", i, name, name, "none", FALSE, NULL)
             port == Item("port", m, name, NoName, dir, FALSE, NULL)
             new  == {pin} \cup {x \in {port} : m \notin resource /\ Id(port) \notin Ids(items)}
  <2>1. pin.net = NULL /\ port.net = NULL
    BY DEF Item
  <2>2. UNCHANGED <<hierarchyVars, nets, generics>> /\ items' = items \cup new
    BY DEF CreatePin
  <2>3. \A x \in new : x.net = NULL
    <3> HIDE DEF pin, port
    <3> QED BY <2>1
  <2> HIDE DEF new
  <2> QED BY <2>2, <2>3
<1>2. PICK new : items' = items \cup new /\ \A x \in new : x.net = NULL
  BY <1>1
<1>3. s # NULL
  BY ConnectionAssumption
<1>4. \A K : ObjectsOf(s, K)' = ObjectsOf(s, K)
  BY <1>2, <1>3 DEF ObjectsOf
<1> QED BY <1>1, <1>4 DEF NetsTyped, NetStays

(* What any step does to one net: it goes, it stays, or it is connected.   *)
LEMMA NetSteps ==
  ASSUME HierarchyInv, HierarchyInv', NetsTyped, [ConnectionNext]_connectionVars, NEW s \in Signal
  PROVE  /\ NetsTyped'
         /\ \/ NetGone(s)
            \/ NetStays(s) /\ (Grow(Name) \/ UNCHANGED hierarchyVars)
            \/ \E request \in Request : Connected(s, request)
<1>1. CASE Grow(Name)
  BY <1>1, GrowFacts DEF NetsTyped, NetStays, ObjectsOf
<1>2. ASSUME NEW t \in Signal, NEW request \in Request, Connect(t, request)
      PROVE  /\ NetsTyped' /\ UNCHANGED hierarchyVars
             /\ NetStays(s) \/ \E r \in Request : Connected(s, r)
  <2>1. UNCHANGED hierarchyVars
    BY <1>2, ConnectStep
  <2>2. NetsTyped' /\ (NetStays(s) \/ Connected(s, request))
    BY <1>2, NetsOfConnect
  <2> QED BY <2>1, <2>2
<1>3. ASSUME NEW t \in Signal, NEW targets \in Targets(1 .. MaxEnds), Parameterize(t, targets)
      PROVE  NetsTyped' /\ NetStays(s) /\ UNCHANGED hierarchyVars
  BY <1>3, NetsOfParameterize
<1>4. ASSUME NEW i \in Name, NEW w \in Writing, NEW dir, CreatePin(i, w.name, dir)
      PROVE  NetsTyped' /\ NetStays(s) /\ UNCHANGED hierarchyVars
  BY <1>4, NetsOfCreatePin
<1>5. CASE ResetAll
  BY <1>5 DEF ResetAll, NetsTyped, NetGone, ObjectsOf
<1>6. CASE UNCHANGED connectionVars
  BY <1>6 DEF connectionVars, NetsTyped, NetStays, ObjectsOf
<1> QED BY <1>1, <1>2, <1>3, <1>4, <1>5, <1>6 DEF ConnectionNext, Commands

-----------------------------------------------------------------------------
(* Of a net nothing is there before it is connected; of one made all is    *)
(* wired.                                                                  *)
NetWired(s) ==
  /\ nets[s] = NULL => ObjectsOf(s, SignalKinds) = {}
  /\ Made(nets[s]) => Wired(ObjectsOf(s, SignalKinds))

(* Wiring survives growth of the hierarchy, ...                            *)
LEMMA WiredGrows ==
  ASSUME HierarchyInv, HierarchyInv', Grow(Name), NEW O, Wired(O)
  PROVE  Wired(O)'
<1>1. /\ \A x \in O : x.of \in Name /\ (x.kind \in {"pin", "port"} => instances[x.of] # NULL)
      /\ \A x \in O : x.kind = "pin" =>
           \E y \in O : y.kind \in {"port", "declaration"} /\ y.of = instances[x.of].parent /\ y.name = x.conn
  BY DEF Wired
<1>2. /\ \A i \in Name : instances[i] # NULL => instances'[i] = instances[i]
      /\ \A i \in Name : instances[i] # NULL /\ instances[i].module \notin resource' => instances[i].module \notin resource
  BY GrowFacts
<1>3. ASSUME NEW k \in {"pin", "port"}, NEW l, PinAndPort(O, k, l) PROVE PinAndPort(O, k, l)'
  <2> SUFFICES ASSUME NEW x \in O, x.kind = k, instances'[x.of].module \notin resource'
               PROVE  \E y \in O : y.kind = l /\ y.of = x.of /\ y.name = x.name /\ y.dir = x.dir
    BY DEF PinAndPort
  <2>1. instances[x.of] # NULL /\ instances[x.of].module \notin resource
    BY <1>1, <1>2
  <2> QED BY <2>1, <1>3 DEF PinAndPort
<1>4. \A x \in O : x.of \in Name /\ (x.kind \in {"pin", "port"} => instances'[x.of] # NULL)
  BY <1>1, <1>2
<1>5. \A x \in O : x.kind = "pin" =>
        \E y \in O : y.kind \in {"port", "declaration"} /\ y.of = instances'[x.of].parent /\ y.name = x.conn
  BY <1>1, <1>2
<1> QED BY <1>3, <1>4, <1>5 DEF Wired

(* ... and whatever leaves the hierarchy alone.                            *)
LEMMA WiredStays ==
  ASSUME NEW O, Wired(O), UNCHANGED hierarchyVars
  PROVE  Wired(O)'
BY DEF Wired, PinAndPort, hierarchyVars

(* A wired net stays wired.                                                *)
LEMMA NetWiredStep ==
  ASSUME HierarchyInv, HierarchyInv', NetsTyped, [ConnectionNext]_connectionVars,
         NEW s \in Signal, NetWired(s)
  PROVE  NetWired(s)'
<1>1. CASE NetGone(s)
  BY <1>1 DEF NetGone, NetWired, Made
<1>2. CASE NetStays(s) /\ (Grow(Name) \/ UNCHANGED hierarchyVars)
  <2>1. nets'[s] = nets[s] /\ ObjectsOf(s, SignalKinds)' = ObjectsOf(s, SignalKinds)
    BY <1>2 DEF NetStays
  <2>2. ASSUME NEW O, Wired(O) PROVE Wired(O)'
    BY <1>2, <2>2, WiredGrows, WiredStays
  <2>3. Made(nets[s]) => Wired(ObjectsOf(s, SignalKinds))'
    <3> SUFFICES ASSUME Made(nets[s]) PROVE Wired(ObjectsOf(s, SignalKinds))'
      OBVIOUS
    <3>1. PICK O : O = ObjectsOf(s, SignalKinds)' /\ O = ObjectsOf(s, SignalKinds)
      BY <2>1
    <3>2. Wired(O)'
      BY <2>2, <3>1 DEF NetWired
    <3> QED BY <3>1, <3>2 DEF Wired, PinAndPort
  <2> QED BY <2>1, <2>3 DEF NetWired
<1>3. ASSUME NEW request \in Request, Connected(s, request)
      PROVE  NetWired(s)'
  <2> SUFFICES ASSUME Made(nets'[s]) PROVE Wired(ObjectsOf(s, SignalKinds))'
    BY <1>3 DEF NetWired, Connected
  <2> DEFINE W == WantedBy(s, request)
  <2>1. /\ GoodRequest(request) /\ TreeOf(s, request) # {} /\ UNCHANGED hierarchyVars
        /\ IdsApart(W) /\ ObjectsOf(s, SignalKinds)' = ObjectsOf(s, SignalKinds) \cup {w.object : w \in W}
        /\ nets[s] = NULL
    BY <1>3 DEF Connected
  <2>2. ObjectsOf(s, SignalKinds) = {}
    BY <2>1 DEF NetWired
  <2> HIDE DEF W
  <2>3. PICK O : O = {w.object : w \in W} /\ O = ObjectsOf(s, SignalKinds)'
    BY <2>1, <2>2
  <2>4. Wired(O)
    BY <2>1, <2>3, WiredWhenApart DEF W
  <2>5. Wired(O)'
    BY <2>1, <2>4, WiredStays
  <2> QED BY <2>3, <2>5 DEF Wired, PinAndPort
<1> QED BY <1>1, <1>2, <1>3, NetSteps

NetsInv == NetsTyped /\ \A s \in Signal : NetWired(s)

(* Every net that was made is wired.                                       *)
LEMMA ConnectionNets == ConnectionSpec => []NetsInv
<1>1. ConnectionInit => NetsInv
  BY DEF ConnectionInit, NetsInv, NetsTyped, NetWired, ObjectsOf, Made
<1>2. HierarchyInv /\ HierarchyInv' /\ NetsInv /\ [ConnectionNext]_connectionVars => NetsInv'
  <2> SUFFICES ASSUME HierarchyInv, HierarchyInv', NetsInv, [ConnectionNext]_connectionVars
               PROVE  NetsInv'
    OBVIOUS
  <2>1. NetsTyped'
    <3>1. CASE Signal = {}
      <4>1. UNCHANGED <<nets, generics>> \/ ResetAll
        BY <3>1 DEF ConnectionNext, Commands, Grow, CreatePin, connectionVars
      <4> QED BY <4>1 DEF ResetAll, NetsTyped, NetsInv
    <3> QED BY <3>1, NetSteps DEF NetsInv
  <2>2. \A s \in Signal : NetWired(s)'
    BY NetWiredStep DEF NetsInv
  <2> QED BY <2>1, <2>2 DEF NetsInv
<1> QED BY <1>1, <1>2, ConnectionHierarchy, PTL DEF ConnectionSpec

(* A pin is connected in the module around it, in every net.               *)
THEOREM ConnectionPinsConnected == ConnectionSpec => []PinsConnected
<1>1. NetsInv => PinsConnected
  <2> SUFFICES ASSUME NetsInv, NEW s \in Signal, Made(nets[s]), NEW x \in ObjectsOf(s, {"pin"})
               PROVE  /\ instances[x.of] # NULL
                      /\ \E y \in ObjectsOf(s, {"port", "declaration"}) :
                           y.of = instances[x.of].parent /\ y.name = x.conn
    BY DEF PinsConnected
  <2> DEFINE O == ObjectsOf(s, SignalKinds)
  <2>1. Wired(O) /\ x \in O /\ x.kind = "pin"
    BY DEF NetsInv, NetWired, ObjectsOf, SignalKinds
  <2>2. \A y \in O : y.kind \in {"port", "declaration"} => y \in ObjectsOf(s, {"port", "declaration"})
    BY DEF ObjectsOf
  <2> HIDE DEF O
  <2> QED BY <2>1, <2>2 DEF Wired
<1> QED BY <1>1, ConnectionNets, PTL

(* Pins of an instance are the ports of its module, in every net.          *)
THEOREM ConnectionPinsMatchPorts == ConnectionSpec => []PinsMatchPorts
<1>1. HierarchyInv /\ NetsInv => PinsMatchPorts
  <2> SUFFICES ASSUME HierarchyInv, NetsInv, NEW s \in Signal, NEW i \in Name,
                      Made(nets[s]), instances[i] # NULL, instances[i].module \notin resource
               PROVE  LET ports == {x \in ObjectsOf(s, {"port"}) : x.of = instances[i].module}
                          pins  == {x \in ObjectsOf(s, {"pin"}) : x.of = i}
                      IN  {<<x.name, x.dir>> : x \in ports} = {<<x.name, x.dir>> : x \in pins}
    BY DEF PinsMatchPorts
  <2> DEFINE O == ObjectsOf(s, SignalKinds)
             ports == {x \in ObjectsOf(s, {"port"}) : x.of = instances[i].module}
             pins  == {x \in ObjectsOf(s, {"pin"}) : x.of = i}
  <2>1. Wired(O)
    BY DEF NetsInv, NetWired
  <2>2. instances[i].module = i
    BY DEF HierarchyInv, TablesAgree, EntriesLive
  <2>3. /\ \A x : x \in ports <=> x \in O /\ x.kind = "port" /\ x.of = i
        /\ \A x : x \in pins <=> x \in O /\ x.kind = "pin" /\ x.of = i
    BY <2>2 DEF ObjectsOf, SignalKinds
  <2> HIDE DEF O, ports, pins
  <2>4. \A x \in ports : \E y \in pins : y.name = x.name /\ y.dir = x.dir
    BY <2>1, <2>3 DEF Wired, PinAndPort
  <2>5. \A x \in pins : \E y \in ports : y.name = x.name /\ y.dir = x.dir
    BY <2>1, <2>3 DEF Wired, PinAndPort
  <2>6. {<<x.name, x.dir>> : x \in ports} = {<<x.name, x.dir>> : x \in pins}
    BY <2>4, <2>5
  <2> QED BY <2>6 DEF ports, pins
<1> QED BY <1>1, ConnectionHierarchy, ConnectionNets, PTL

-----------------------------------------------------------------------------
(* A set of natural numbers below a bound has a least and a greatest one.  *)
LEMMA LeastAndGreatest ==
  ASSUME NEW n \in Nat, NEW S, S \subseteq 0 .. n, S # {}
  PROVE  /\ \E x \in S : \A y \in S : x <= y
         /\ \E x \in S : \A y \in S : x >= y
<1>1. ASSUME NEW U, U \subseteq Nat, U # {} PROVE \E x \in U : \A y \in U : x <= y
  BY <1>1, LeastOf
<1>0. S \subseteq Nat /\ \A y \in S : y <= n
  OBVIOUS
<1>2. \E x \in S : \A y \in S : x <= y
  BY <1>0, <1>1
<1> DEFINE U == {n - y : y \in S}
<1>3. U \subseteq Nat /\ U # {}
  <2>1. \A y \in S : n - y \in Nat
    BY <1>0
  <2> QED BY <2>1
<1>4. PICK u \in U : \A y \in U : u <= y
  <2> HIDE DEF U
  <2> QED BY <1>1, <1>3
<1>5. PICK x \in S : u = n - x
  BY <1>4
<1>6. \A y \in S : n - x <= n - y
  BY <1>4, <1>5
<1>7. ASSUME NEW y \in S PROVE x >= y
  <2>1. x \in Nat /\ y \in Nat /\ n - x <= n - y
    BY <1>0, <1>6
  <2> HIDE DEF U
  <2> QED BY <2>1
<1> QED BY <1>2, <1>7

(* The first and the last of some climbs are among them. *)
LEMMA FirstAndLast ==
  ASSUME NEW request, IsRequest(request), NEW S, S \subseteq Climbs(request), S # {}, NEW type
  PROVE  FirstOf(type, S) \in S /\ LastOf(type, S) \in S
<1>1. PICK n \in Nat : Numbers(request) \subseteq 0 .. n
  BY DEF IsRequest
<1> DEFINE N == {c.number : c \in S}
<1>2. N \subseteq 0 .. n /\ N # {}
  <2>1. \A c \in S : c.number \in 0 .. n
    BY <1>1 DEF Climbs, Climb
  <2> QED BY <2>1
<1>3. /\ \E x \in N : \A y \in N : x <= y
      /\ \E x \in N : \A y \in N : x >= y
  <2> HIDE DEF N
  <2> QED BY <1>2, LeastAndGreatest
<1>4. PICK c \in S : \A d \in S : c.number <= d.number
  BY <1>3
<1>5. PICK e \in S : \A d \in S : e.number >= d.number
  BY <1>3
<1>6. CASE type = "module"
  BY <1>4, <1>5, <1>6 DEF FirstOf, LastOf
<1>7. CASE type # "module"
  BY <1>4, <1>5, <1>7 DEF FirstOf, LastOf
<1> QED BY <1>6, <1>7

-----------------------------------------------------------------------------
(* Nothing is named in two ways by the climbs C.                           *)
NamesAgree(C) ==
  \A c, d \in C, type \in {"instance", "module", "leaf"}, of \in Name :
    LocalName(c, type, of) # NoName /\ LocalName(d, type, of) # NoName =>
      c.as.name = d.as.name /\ c.as.force = d.as.force

Lone(N) == \A x, y \in N : x = y

(* If no object is named in two ways, a node has one child at each object, *)
(* ...                                                                     *)
LEMMA LoneChildren ==
  ASSUME NEW request, IsRequest(request), NamesAgree(Climbs(request)),
         NEW n, n.climbs \subseteq Climbs(request),
         NEW type \in {"instance", "module", "leaf"}, NEW of \in Name
  PROVE  Lone(Children(n, type, of))
<1> DEFINE S == {c \in n.climbs : PassesBy(c, type, of)}
           first == LocalName(FirstOf(type, S), type, of)
           with(c) == Together(first, LocalName(c, type, of))
<1>1. Children(n, type, of) = {Merged(type, of, G, HandsDown(n)) : G \in Groups(type, of, S)}
  BY DEF Children
<1>2. Groups(type, of, S) = {{c \in S : with(c) = x} : x \in {with(c) : c \in S}}
  BY DEF Groups
<1>3. \A c \in S : with(c) = first
  <2> SUFFICES ASSUME NEW c \in S PROVE with(c) = first
    OBVIOUS
  <2>1. FirstOf(type, S) \in S /\ S \subseteq Climbs(request)
    BY FirstAndLast
  <2>2. /\ LocalName(c, type, of) \in {NoName, c.as.name}
        /\ first \in {NoName, FirstOf(type, S).as.name}
    BY DEF LocalName
  <2>3. NoName \in {first, LocalName(c, type, of)} \/ LocalName(c, type, of) = first
    BY <2>1, <2>2 DEF NamesAgree
  <2> HIDE DEF first
  <2> QED BY <2>3 DEF Together
<1> HIDE DEF S, with
<1>4. \A G \in Groups(type, of, S) : G = S
  BY <1>2, <1>3
<1> QED BY <1>1, <1>4 DEF Lone

(* ... and a level of one node is followed by levels of one.               *)
LEMMA LoneNext ==
  ASSUME NEW request, IsRequest(request), NamesAgree(Climbs(request)),
         NEW N, Lone(N), \A n \in N : n.climbs \subseteq Climbs(request),
         NEW type \in {"instance", "module", "leaf"}, NEW of \in Name
  PROVE  Lone(NextOf(N, type, of))
<1>1. \A n \in N : Lone(Children(n, type, of))
  BY LoneChildren
<1> QED BY <1>1 DEF Lone, NextOf

(* Then there is one node at each object. *)
LEMMA LoneNodes ==
  ASSUME HierarchyInv, NEW request, GoodRequest(request), \A e \in Ends(request) : HasClimb(e),
         NamesAgree(Climbs(request)), NEW s,
         NEW n \in Tree(s, Climbs(request)), NEW k \in Tree(s, Climbs(request)),
         n.type = k.type, n.of = k.of
  PROVE  n = k
<1> DEFINE C == Climbs(request)
           at == Merge(s, C)
           Good == {m \in Name : Lone(at[m].instance) /\ Lone(at[m].module)}
<1>1. C # {} /\ GoodClimbs(C) /\ HierarchyTypeOK /\ Acyclic /\ IsRequest(request)
  BY ClimbsAreGood DEF HierarchyInv, GoodRequest
<1>2. \A m \in Name :
        /\ Layer(at[m].instance, "instance", m, C)
        /\ Layer(at[m].module, "module", m, C)
        /\ at[m].module = NextOf(at[m].instance, "module", m)
        /\ default_parent[m] = NULL => at[m].instance = TreeRoot(s, C, m)
        /\ default_parent[m] # NULL => at[m].instance = NextOf(at[default_parent[m]].module, "instance", m)
  BY <1>1, MergeLayers, MergeParts
<1> HIDE DEF at, C
<1>3. ASSUME NEW m \in Name, default_parent[m] = NULL \/ default_parent[m] \in Good
      PROVE  m \in Good
  <2>1. Lone(at[m].instance)
    <3>1. CASE default_parent[m] = NULL
      <4>1. Lone(TreeRoot(s, C, m))
        BY DEF TreeRoot, Lone
      <4> QED BY <4>1, <3>1, <1>2
    <3>2. CASE default_parent[m] # NULL
      <4>1. default_parent[m] \in Name /\ Lone(at[default_parent[m]].module)
        BY <3>2, <1>3
      <4>2. \A x \in at[default_parent[m]].module : x.climbs \subseteq C
        BY <4>1, <1>2 DEF Layer
      <4> QED BY <4>1, <4>2, <3>2, <1>1, <1>2, LoneNext DEF C
    <3> QED BY <3>1, <3>2
  <2>2. Lone(at[m].module)
    <3>1. \A x \in at[m].instance : x.climbs \subseteq C
      BY <1>2 DEF Layer
    <3> QED BY <2>1, <3>1, <1>1, <1>2, LoneNext DEF C
  <2> QED BY <2>1, <2>2
<1>4. \A m \in Name : Lone(at[m].instance) /\ Lone(at[m].module)
  <2>1. Name \subseteq Good
    <3> HIDE DEF Good
    <3> QED BY <1>1, <1>3, DownTheHierarchy
  <2> QED BY <2>1
<1>5. ASSUME NEW c \in C, c.leaf # NULL
      PROVE  /\ Lone(LeavesAt(s, C, c.leaf))
             /\ \A x \in LeavesAt(s, C, c.leaf) : x.type = "leaf" /\ x.of = c.leaf
  <2>1. c.from \in Name /\ c.leaf \in Name /\ instances[c.leaf].parent = c.from
    BY <1>1, <1>5 DEF GoodClimbs
  <2>2. LeavesAt(s, C, c.leaf) = NextOf(at[c.from].module, "leaf", c.leaf)
    BY <2>1 DEF LeavesAt, at
  <2>3. \A x \in at[c.from].module : x.climbs \subseteq C
    BY <2>1, <1>2 DEF Layer
  <2>4. Lone(NextOf(at[c.from].module, "leaf", c.leaf))
    BY <2>1, <2>3, <1>1, <1>4, LoneNext DEF C
  <2>5. Layer(LeavesAt(s, C, c.leaf), "leaf", c.leaf, C)
    BY <1>1, <1>5, LeafLayer
  <2> QED BY <2>2, <2>4, <2>5 DEF Layer
<1>6. ASSUME NEW x \in Tree(s, C)
      PROVE  \/ x.type = "instance" /\ \E m \in Name : x.of = m /\ x \in at[m].instance
             \/ x.type = "module" /\ \E m \in Name : x.of = m /\ x \in at[m].module
             \/ x.type = "leaf" /\ \E c \in C : c.leaf # NULL /\ x.of = c.leaf /\ x \in LeavesAt(s, C, c.leaf)
  <2>1. \/ \E m \in Name : x \in at[m].instance
        \/ \E m \in Name : x \in at[m].module
        \/ \E c \in C : c.leaf # NULL /\ x \in LeavesAt(s, C, c.leaf)
    BY <1>1, TreeParts DEF at
  <2> QED BY <2>1, <1>2, <1>5 DEF Layer
<1>7. n \in Tree(s, C) /\ k \in Tree(s, C)
  BY DEF C
<1> QED BY <1>4, <1>5, <1>6, <1>7 DEF Lone

-----------------------------------------------------------------------------
(* A finite set with at most one element, and the names at one object.     *)
LEMMA AtMostOne ==
  ASSUME NEW S, IsFiniteSet(S), Cardinality(S) <= 1
  PROVE  Lone(S)
<1>1. Cardinality(S) \in Nat
  BY FS_CardinalityType
<1>2. CASE Cardinality(S) = 0
  BY <1>2, FS_EmptySet DEF Lone
<1>3. CASE Cardinality(S) = 1
  <2>1. PICK x : S = {x}
    BY <1>3, FS_Singleton
  <2> QED BY <2>1 DEF Lone
<1> QED BY <1>1, <1>2, <1>3

(* A set of values of finitely many arguments is finite.                   *)
LEMMA FiniteImage ==
  ASSUME NEW S, IsFiniteSet(S), NEW f, NEW T, T \subseteq {f[x] : x \in S}
  PROVE  IsFiniteSet(T)
<1> DEFINE U == {f[x] : x \in S}
           g == [x \in S |-> f[x]]
<1>1. g \in Surjection(S, U)
  BY DEF Surjection
<1>2. IsFiniteSet(U)
  <2> HIDE DEF U, g
  <2> QED BY <1>1, FS_Surjection
<1> QED BY <1>2, FS_Subset

(* Cardinality at most one, said without cardinalities.                    *)
LEMMA NamesLone ==
  ASSUME NEW request, IsRequest(request), NEW S, S \subseteq Ends(request), Cardinality(Names(S)) <= 1
  PROVE  Lone(Names(S))
<1>1. PICK n \in Nat : Numbers(request) \subseteq 0 .. n
  BY DEF IsRequest
<1>2. IsFiniteSet(Numbers(request))
  <2>1. IsFiniteSet(0 .. n)
    BY FS_Interval
  <2> QED BY <1>1, <2>1, FS_Subset
<1> DEFINE f == [k \in Numbers(request) |->
                  [name |-> EndAt(request, k).as.name, force |-> EndAt(request, k).as.force]]
<1>3. Names(S) \subseteq {f[k] : k \in Numbers(request)}
  <2> SUFFICES ASSUME NEW e \in S
               PROVE  [name |-> e.as.name, force |-> e.as.force] \in {f[k] : k \in Numbers(request)}
    BY DEF Names
  <2>1. PICK k \in Numbers(request) : e = EndAt(request, k)
    BY DEF Ends
  <2>2. f[k] = [name |-> e.as.name, force |-> e.as.force]
    BY <2>1
  <2> QED BY <2>2
<1> HIDE DEF f
<1>4. IsFiniteSet(Names(S))
  BY <1>2, <1>3, FiniteImage
<1> QED BY <1>4, AtMostOne

NamesAt(request, m) == Names(AtModule(request, m))
NamesOfLeaf(request, i) == Names(AtLeaf(request, i))

(* NamedOnce, said without cardinalities.                                  *)
LEMMA NamedOnceLone ==
  ASSUME NEW request, IsRequest(request), NamedOnce(request)
  PROVE  \A m \in Name : Lone(NamesAt(request, m)) /\ Lone(NamesOfLeaf(request, m))
<1>1. \A m : AtModule(request, m) \subseteq Ends(request) /\ AtLeaf(request, m) \subseteq Ends(request)
  BY DEF AtModule, AtLeaf
<1> QED BY <1>1, NamesLone DEF NamedOnce, NamesAt, NamesOfLeaf

-----------------------------------------------------------------------------
(* The climbs of a request that are at an object, and its endpoints there. *)
EndOf(request, c) == EndAt(request, c.number)

IsClimbOf(request, c, e) ==
  /\ e \in Ends(request) /\ c.as = e.as /\ c.as \in Writing
  /\ c.from = Host(e) /\ c.from \in Name /\ c.modules = Above[Host(e)]
  /\ c.dir = DirAt(request, c.number) /\ c.number \in Numbers(request)
  /\ OfResource(e) => c.leaf = e.of /\ c.leaf # NULL
  /\ ~ OfResource(e) => c.leaf = NULL

(* Climbs and endpoints correspond.                                        *)
LEMMA ClimbsOfEnds ==
  ASSUME HierarchyInv, NEW request, GoodRequest(request), \A e \in Ends(request) : HasClimb(e)
  PROVE  /\ \A c \in Climbs(request) : IsClimbOf(request, c, EndOf(request, c))
         /\ \A e \in Ends(request) : \E c \in Climbs(request) : EndOf(request, c) = e
         /\ \A k \in Numbers(request) : \E c \in Climbs(request) : c.number = k
<1>1. Ends(request) \subseteq Endpoint /\ \A e \in Ends(request) : e.of \in Name /\ e.as \in Writing /\ Host(e) \in Name
  BY HostIsModule DEF GoodRequest, IsRequest, Endpoint
<1>2. ASSUME NEW c \in Climbs(request)
      PROVE  IsClimbOf(request, c, EndOf(request, c))
  <2>1. PICK k \in Numbers(request) : c = Climb(request, k)
    BY DEF Climbs
  <2>2. c.number = k /\ EndOf(request, c) = EndAt(request, k) /\ EndAt(request, k) \in Ends(request)
    BY <2>1 DEF Climb, EndOf, Ends
  <2>3. /\ c.as = EndAt(request, k).as /\ c.from = Host(EndAt(request, k))
        /\ c.modules = Above[Host(EndAt(request, k))] /\ c.dir = DirAt(request, k)
        /\ c.leaf = IF OfResource(EndAt(request, k)) THEN EndAt(request, k).of ELSE NULL
    BY <2>1 DEF Climb
  <2> QED BY <1>1, <2>2, <2>3, NameAssumption DEF IsClimbOf
<1>3. ASSUME NEW k \in Numbers(request)
      PROVE  \E c \in Climbs(request) : c.number = k
  <2>1. Climb(request, k) \in Climbs(request)
    BY DEF Climbs
  <2>2. Climb(request, k).number = k
    BY DEF Climb
  <2> QED BY <2>1, <2>2
<1>4. \A e \in Ends(request) : \E c \in Climbs(request) : EndOf(request, c) = e
  BY <1>3 DEF EndOf, Ends
<1> QED BY <1>2, <1>3, <1>4

(* The climbs that an object's node has its name from.                     *)
LEMMA GivenEnds ==
  ASSUME HierarchyInv, NEW request, GoodRequest(request), \A e \in Ends(request) : HasClimb(e),
         NEW m \in Name
  PROVE  /\ \A c \in Climbs(request), type \in {"instance", "module"} :
              GivenAt(c, type, m) <=> EndOf(request, c) \in AtModule(request, m)
         /\ \A c \in Climbs(request) :
              GivenAt(c, "leaf", m) <=> EndOf(request, c) \in AtLeaf(request, m)
<1>1. \A c \in Climbs(request) : IsClimbOf(request, c, EndOf(request, c))
  BY ClimbsOfEnds
<1>2. ASSUME NEW c \in Climbs(request), NEW type \in {"instance", "module"}
      PROVE  GivenAt(c, type, m) <=> EndOf(request, c) \in AtModule(request, m)
  BY <1>1 DEF GivenAt, AtModule, IsClimbOf
<1>3. ASSUME NEW c \in Climbs(request)
      PROVE  GivenAt(c, "leaf", m) <=> EndOf(request, c) \in AtLeaf(request, m)
  BY <1>1, NameAssumption DEF GivenAt, AtLeaf, IsClimbOf
<1> QED BY <1>2, <1>3

(* Endpoints that are named once give climbs that agree.                   *)
LEMMA NamedOnceAgrees ==
  ASSUME HierarchyInv, NEW request, GoodRequest(request), \A e \in Ends(request) : HasClimb(e),
         NamedOnce(request)
  PROVE  NamesAgree(Climbs(request))
<1> SUFFICES ASSUME NEW c \in Climbs(request), NEW d \in Climbs(request),
                    NEW type \in {"instance", "module", "leaf"}, NEW of \in Name,
                    LocalName(c, type, of) # NoName, LocalName(d, type, of) # NoName
             PROVE  c.as.name = d.as.name /\ c.as.force = d.as.force
  BY DEF NamesAgree
<1>1. GivenAt(c, type, of) /\ GivenAt(d, type, of) /\ c.as.name # NoName /\ d.as.name # NoName
  BY DEF LocalName
<1> DEFINE S == IF type = "leaf" THEN AtLeaf(request, of) ELSE AtModule(request, of)
<1>2. EndOf(request, c) \in S /\ EndOf(request, d) \in S
  BY <1>1, GivenEnds
<1>3. c.as = EndOf(request, c).as /\ d.as = EndOf(request, d).as
  BY ClimbsOfEnds DEF IsClimbOf
<1>4. Lone(Names(S))
  BY NamedOnceLone DEF NamesAt, NamesOfLeaf, GoodRequest
<1> HIDE DEF S
<1>5. /\ [name |-> c.as.name, force |-> c.as.force] \in Names(S)
      /\ [name |-> d.as.name, force |-> d.as.force] \in Names(S)
  BY <1>1, <1>2, <1>3 DEF Names
<1>6. [name |-> c.as.name, force |-> c.as.force] = [name |-> d.as.name, force |-> d.as.force]
  BY <1>4, <1>5 DEF Lone
<1> QED BY <1>6

-----------------------------------------------------------------------------
(* T is the tree of a request in which nothing is named in two ways.       *)
IsLoneTree(request, s, T) ==
  /\ GoodRequest(request) /\ \A e \in Ends(request) : HasClimb(e)
  /\ NamedOnce(request) /\ T = Tree(s, Climbs(request)) /\ T # {}

(* In such a tree there is one node for each object the climbs pass by.    *)
LEMMA LoneTreeFacts ==
  ASSUME HierarchyInv, NEW request, NEW s, NEW T, IsLoneTree(request, s, T)
  PROVE  LET C == Climbs(request)
         IN  /\ C # {} /\ GoodClimbs(C) /\ IsTree(T, C)
             /\ \A n, k \in T : n.type = k.type /\ n.of = k.of => n = k
             /\ \A n \in T : n.climbs = {c \in C : PassesBy(c, n.type, n.of)}
             /\ \A type \in {"instance", "module", "leaf"}, of \in Name :
                  (\E c \in C : PassesBy(c, type, of)) => \E n \in T : n.type = type /\ n.of = of
<1> DEFINE C == Climbs(request)
<1>1. C # {} /\ GoodClimbs(C) /\ IsTree(T, C)
  BY ClimbsAreGood, TreeIsTree DEF IsLoneTree, HierarchyInv
<1>2. \A n, k \in T : n.type = k.type /\ n.of = k.of => n = k
  BY NamedOnceAgrees, LoneNodes DEF IsLoneTree
<1> HIDE DEF C
<1>3. ASSUME NEW n \in T PROVE n.climbs = {c \in C : PassesBy(c, n.type, n.of)}
  <2>1. n.climbs \subseteq C /\ \A c \in n.climbs : PassesBy(c, n.type, n.of)
    BY <1>1 DEF IsTree
  <2>2. ASSUME NEW c \in C, PassesBy(c, n.type, n.of) PROVE c \in n.climbs
    <3>1. PICK k \in T : k.type = n.type /\ k.of = n.of /\ c \in k.climbs
      <4>1. n.type \in {"instance", "module", "leaf"} /\ n.of \in Name
        BY <1>1 DEF IsTree
      <4> QED BY <4>1, <1>1, <2>2 DEF IsTree
    <3> QED BY <3>1, <1>2
  <2> QED BY <2>1, <2>2
<1>4. \A type \in {"instance", "module", "leaf"}, of \in Name :
        (\E c \in C : PassesBy(c, type, of)) => \E n \in T : n.type = type /\ n.of = of
  BY <1>1 DEF IsTree
<1> QED BY <1>1, <1>2, <1>3, <1>4 DEF C

-----------------------------------------------------------------------------
(* What a node of a tree is merged under.                                  *)
LEMMA ChildOf ==
  ASSUME NEW n, NEW type, NEW of, NEW x \in Children(n, type, of)
  PROVE  /\ x.type = type /\ x.of = of /\ x.climbs \subseteq n.climbs
         /\ x = Merged(x.type, x.of, x.climbs, HandsDown(n))
<1>1. PICK S : x = Merged(type, of, S, HandsDown(n))
  BY DEF Children
<1>2. x.type = type /\ x.of = of /\ x.climbs = S
  BY <1>1 DEF Merged
<1>3. x.climbs \subseteq n.climbs
  BY ChildrenShare
<1> QED BY <1>1, <1>2, <1>3

(* A node is the root, or the merging of its climbs under the name of its  *)
(* parent.                                                                 *)
LEMMA TreeInherits ==
  ASSUME HierarchyTypeOK, Acyclic, NEW s, NEW C, C # {}, GoodClimbs(C), NEW n \in Tree(s, C)
  PROVE  \/ /\ n.type = "instance" /\ default_parent[n.of] = NULL
            /\ n = Merged(n.type, n.of, n.climbs, <<s>>)
         \/ \E p \in Tree(s, C) : /\ IsParent(p, n)
                                  /\ n = Merged(n.type, n.of, n.climbs, HandsDown(p))
<1> DEFINE at == Merge(s, C)
<1>1. ASSUME NEW m \in Name, default_parent[m] = NULL, n \in at[m].instance
      PROVE  /\ n.type = "instance" /\ n.of = m
             /\ n = Merged(n.type, n.of, n.climbs, <<s>>)
  <2>1. n \in TreeRoot(s, C, m)
    BY <1>1, MergeParts
  <2>2. n = Merged("instance", m, C, <<s>>)
    BY <2>1 DEF TreeRoot
  <2>3. n.type = "instance" /\ n.of = m /\ n.climbs = C
    BY <2>2 DEF Merged
  <2> QED BY <2>2, <2>3
<1>2. \A m \in Name : /\ Layer(at[m].instance, "instance", m, C)
                      /\ Layer(at[m].module, "module", m, C)
  BY MergeLayers
<1>3. \A m \in Name : at[m].instance \subseteq Tree(s, C) /\ at[m].module \subseteq Tree(s, C)
  BY TreeParts
<1>4. \A N, type, of : n \in NextOf(N, type, of) =>
        \E p \in N : /\ n.type = type /\ n.of = of /\ n.climbs \subseteq p.climbs
                     /\ n = Merged(n.type, n.of, n.climbs, HandsDown(p))
  BY ChildOf DEF NextOf
<1>5. ASSUME NEW m \in Name, default_parent[m] # NULL, n \in at[m].instance
      PROVE  \E p \in Tree(s, C) : /\ IsParent(p, n)
                                   /\ n = Merged(n.type, n.of, n.climbs, HandsDown(p))
  <2>1. default_parent[m] \in Name /\ n \in NextOf(at[default_parent[m]].module, "instance", m)
    BY <1>5, MergeParts DEF HierarchyTypeOK
  <2>2. PICK p \in at[default_parent[m]].module :
          /\ n.type = "instance" /\ n.of = m /\ n.climbs \subseteq p.climbs
          /\ n = Merged(n.type, n.of, n.climbs, HandsDown(p))
    BY <2>1, <1>4
  <2>3. p.type = "module" /\ p.of = default_parent[m] /\ p \in Tree(s, C)
    BY <2>1, <1>2, <1>3 DEF Layer
  <2>4. IsParent(p, n)
    BY <2>2, <2>3 DEF IsParent, Around
  <2> QED BY <2>2, <2>3, <2>4
<1>6. ASSUME NEW m \in Name, n \in at[m].module
      PROVE  \E p \in Tree(s, C) : /\ IsParent(p, n)
                                   /\ n = Merged(n.type, n.of, n.climbs, HandsDown(p))
  <2>1. n \in NextOf(at[m].instance, "module", m)
    BY <1>6, MergeParts
  <2>2. PICK p \in at[m].instance :
          /\ n.type = "module" /\ n.of = m /\ n.climbs \subseteq p.climbs
          /\ n = Merged(n.type, n.of, n.climbs, HandsDown(p))
    BY <2>1, <1>4
  <2>3. p.type = "instance" /\ p.of = m /\ p \in Tree(s, C)
    BY <1>2, <1>3 DEF Layer
  <2>4. IsParent(p, n)
    BY <2>2, <2>3 DEF IsParent, Around
  <2> QED BY <2>2, <2>3, <2>4
<1>7. ASSUME NEW c \in C, c.leaf # NULL, n \in LeavesAt(s, C, c.leaf)
      PROVE  \E p \in Tree(s, C) : /\ IsParent(p, n)
                                   /\ n = Merged(n.type, n.of, n.climbs, HandsDown(p))
  <2>1. c.from \in Name /\ instances[c.leaf].parent = c.from
    BY <1>7 DEF GoodClimbs
  <2>2. PICK p \in at[c.from].module :
          /\ n.type = "leaf" /\ n.of = c.leaf /\ n.climbs \subseteq p.climbs
          /\ n = Merged(n.type, n.of, n.climbs, HandsDown(p))
    BY <2>1, <1>4, <1>7 DEF LeavesAt
  <2>3. p.type = "module" /\ p.of = c.from /\ p \in Tree(s, C)
    BY <2>1, <1>2, <1>3 DEF Layer
  <2>4. IsParent(p, n)
    BY <2>1, <2>2, <2>3 DEF IsParent, Around
  <2> QED BY <2>2, <2>3, <2>4
<1>8. \/ \E m \in Name : n \in at[m].instance
      \/ \E m \in Name : n \in at[m].module
      \/ \E c \in C : c.leaf # NULL /\ n \in LeavesAt(s, C, c.leaf)
  BY TreeParts
<1> HIDE DEF at
<1> QED BY <1>1, <1>5, <1>6, <1>7, <1>8

-----------------------------------------------------------------------------
(* The endpoints at the object of a node. *)
EndsAt(request, type, of) == IF type = "leaf" THEN AtLeaf(request, of) ELSE AtModule(request, of)

(* The names given to a node are those of the endpoints at its object.     *)
LEMMA GivenToNode ==
  ASSUME HierarchyInv, NEW request, NEW s, NEW T, IsLoneTree(request, s, T), NEW n \in T
  PROVE  /\ \A c \in n.climbs : GivenAt(c, n.type, n.of) =>
              /\ EndOf(request, c) \in EndsAt(request, n.type, n.of)
              /\ c.as = EndOf(request, c).as
         /\ \A e \in EndsAt(request, n.type, n.of) : \E c \in n.climbs :
              GivenAt(c, n.type, n.of) /\ EndOf(request, c) = e /\ c.as = e.as
<1> DEFINE C == Climbs(request)
<1>1. /\ GoodRequest(request) /\ \A e \in Ends(request) : HasClimb(e)
      /\ n.type \in {"instance", "module", "leaf"} /\ n.of \in Name
      /\ n.climbs = {c \in C : PassesBy(c, n.type, n.of)}
  BY LoneTreeFacts DEF IsLoneTree, IsTree
<1>2. /\ \A c \in C : IsClimbOf(request, c, EndOf(request, c))
      /\ \A e \in Ends(request) : \E c \in C : EndOf(request, c) = e
  BY <1>1, ClimbsOfEnds
<1>3. \A c \in C : GivenAt(c, n.type, n.of) <=> EndOf(request, c) \in EndsAt(request, n.type, n.of)
  BY <1>1, GivenEnds DEF EndsAt
<1>4. \A c \in C : GivenAt(c, n.type, n.of) => c \in n.climbs
  <2> SUFFICES ASSUME NEW c \in C, GivenAt(c, n.type, n.of) PROVE PassesBy(c, n.type, n.of)
    BY <1>1
  <2>1. c.from \in Above[c.from] /\ c.modules = Above[c.from]
    BY <1>2, AboveFacts DEF IsClimbOf, HierarchyInv
  <2> QED BY <2>1 DEF GivenAt, PassesBy
<1>5. EndsAt(request, n.type, n.of) \subseteq Ends(request)
  BY DEF EndsAt, AtLeaf, AtModule
<1> HIDE DEF C
<1>6. \A c \in n.climbs : c \in C
  BY <1>1
<1> QED BY <1>2, <1>3, <1>4, <1>5, <1>6 DEF IsClimbOf

(* The name of a node that climbs were merged into. *)
LEMMA MergedName ==
  ASSUME NEW type, NEW of, NEW S, NEW inherited, NEW n, n = Merged(type, of, S, inherited)
  PROVE  LET named == {c \in S : LocalName(c, type, of) # NoName}
             last == LastOf(type, named)
         IN  /\ n.name = IF named = {} THEN inherited ELSE last.as.name
             /\ n.force <=> named # {} /\ last.as.force
<1> DEFINE named == {c \in S : LocalName(c, type, of) # NoName}
           last == LastOf(type, named)
<1>1. /\ n.name = IF named = {} THEN inherited ELSE last.as.name
      /\ n.force = (named # {} /\ last.as.force)
  BY Zenon DEF Merged
<1> HIDE DEF named, last
<1>2. n.force <=> named # {} /\ last.as.force
  BY <1>1, Zenon
<1>3. n.name = IF named = {} THEN inherited ELSE last.as.name
  BY <1>1
<1> QED BY <1>2, <1>3 DEF named, last

(* With no name given the inherited one is taken, otherwise that given.    *)
LEMMA NodeName ==
  ASSUME HierarchyInv, NEW request, NEW s, NEW T, IsLoneTree(request, s, T), NEW n \in T,
         NEW inherited, n = Merged(n.type, n.of, n.climbs, inherited)
  PROVE  LET N == Names(EndsAt(request, n.type, n.of))
         IN  /\ N = {} => n.name = inherited /\ ~ n.force
             /\ \A x \in N : n.name = x.name /\ (n.force <=> x.force) /\ x.name # NoName
             /\ Lone(N)
<1> DEFINE N == Names(EndsAt(request, n.type, n.of))
           named == {c \in n.climbs : LocalName(c, n.type, n.of) # NoName}
           last == LastOf(n.type, named)
<1>1. /\ n.name = IF named = {} THEN inherited ELSE last.as.name
      /\ n.force <=> named # {} /\ last.as.force
  <2> HIDE DEF named, last
  <2> DEFINE type == n.type
             of == n.of
             S == n.climbs
  <2>1. n = Merged(type, of, S, inherited)
    OBVIOUS
  <2>2. named = {c \in S : LocalName(c, type, of) # NoName} /\ last = LastOf(type, named)
    BY DEF named, last
  <2> HIDE DEF type, of, S
  <2> QED BY <2>1, <2>2, MergedName
<1>2. \A c \in named : [name |-> c.as.name, force |-> c.as.force] \in N
  <2> SUFFICES ASSUME NEW c \in n.climbs, LocalName(c, n.type, n.of) # NoName
               PROVE  [name |-> c.as.name, force |-> c.as.force] \in N
    OBVIOUS
  <2>1. GivenAt(c, n.type, n.of) /\ c.as.name # NoName
    BY DEF LocalName
  <2>2. PICK e \in EndsAt(request, n.type, n.of) : c.as = e.as
    BY <2>1, GivenToNode
  <2> QED BY <2>1, <2>2 DEF Names
<1>3. ASSUME NEW x \in N PROVE named # {} /\ x.name # NoName
  <2>1. PICK e \in EndsAt(request, n.type, n.of) :
          e.as.name # NoName /\ x = [name |-> e.as.name, force |-> e.as.force]
    BY DEF Names
  <2>2. PICK c \in n.climbs : GivenAt(c, n.type, n.of) /\ c.as = e.as
    BY GivenToNode
  <2>3. c \in named
    BY <2>1, <2>2 DEF LocalName
  <2> QED BY <2>1, <2>3
<1>4. Lone(N)
  <2>1. n.of \in Name /\ IsRequest(request) /\ NamedOnce(request)
    BY LoneTreeFacts DEF IsLoneTree, IsTree, GoodRequest
  <2> QED BY <2>1, NamedOnceLone DEF EndsAt, NamesAt, NamesOfLeaf
<1>5. named # {} => last \in named
  <2>1. named \subseteq Climbs(request) /\ IsRequest(request)
    BY LoneTreeFacts DEF IsLoneTree, GoodRequest
  <2> HIDE DEF named
  <2> QED BY <2>1, FirstAndLast
<1> HIDE DEF N, named, last
<1>6. ASSUME NEW x \in N PROVE n.name = x.name /\ (n.force <=> x.force)
  <2>1. named # {} /\ [name |-> last.as.name, force |-> last.as.force] \in N
    BY <1>2, <1>3, <1>5, <1>6
  <2>2. x = [name |-> last.as.name, force |-> last.as.force]
    BY <1>4, <1>6, <2>1 DEF Lone
  <2>3. x.name = last.as.name /\ x.force = last.as.force
    BY <2>2
  <2> QED BY <1>1, <2>1, <2>3
<1>7. N = {} => n.name = inherited /\ ~ n.force
  <2>1. N = {} => named = {}
    BY <1>2
  <2> QED BY <1>1, <2>1
<1> QED BY <1>3, <1>4, <1>6, <1>7 DEF N

(* A node is inverted if an endpoint at its object is.                     *)
LEMMA NodeInvert ==
  ASSUME HierarchyInv, NEW request, NEW s, NEW T, IsLoneTree(request, s, T), NEW n \in T
  PROVE  n.invert = Inverted(EndsAt(request, n.type, n.of))
<1>1. n.invert = (\E c \in n.climbs : GivenAt(c, n.type, n.of) /\ c.as.invert)
  <2>1. IsMerged(n)
    BY LoneTreeFacts, TreeMerged DEF IsLoneTree, HierarchyInv
  <2> QED BY <2>1, MergedFacts
<1>2. (\E c \in n.climbs : GivenAt(c, n.type, n.of) /\ c.as.invert)
      <=> \E e \in EndsAt(request, n.type, n.of) : e.as.invert
  BY GivenToNode
<1> QED BY <1>1, <1>2, Zenon DEF Inverted

(* The direction of a pin is that of the signal at its instance.           *)
LEMMA NodeDirection ==
  ASSUME HierarchyInv, NEW request, NEW s, NEW T, IsLoneTree(request, s, T), NEW n \in T
  PROVE  PortDir(n.dir) =
           Direction(request, IF n.type = "leaf" THEN AtLeaf(request, n.of) ELSE Within(request, n.of))
<1> DEFINE C == Climbs(request)
           E == IF n.type = "leaf" THEN AtLeaf(request, n.of) ELSE Within(request, n.of)
           dirs == {c.dir : c \in n.climbs}
<1>1. /\ GoodRequest(request) /\ IsRequest(request) /\ \A e \in Ends(request) : HasClimb(e)
      /\ n.type \in {"instance", "module", "leaf"} /\ n.of \in Name
      /\ n.climbs = {c \in C : PassesBy(c, n.type, n.of)} /\ n.climbs # {}
  BY LoneTreeFacts DEF IsLoneTree, IsTree, GoodRequest
<1>2. /\ \A c \in C : IsClimbOf(request, c, EndOf(request, c))
      /\ \A e \in Ends(request) : \E c \in C : EndOf(request, c) = e
      /\ \A k \in Numbers(request) : \E c \in C : c.number = k
  BY <1>1, ClimbsOfEnds
<1>3. n.dir = DirOf(n.type, n.climbs)
  <2>1. IsMerged(n)
    BY LoneTreeFacts, TreeMerged DEF IsLoneTree, HierarchyInv
  <2> QED BY <2>1, MergedFacts
<1>4. \A c \in C : PassesBy(c, n.type, n.of) <=> EndOf(request, c) \in E
  <2> SUFFICES ASSUME NEW c \in C
               PROVE  PassesBy(c, n.type, n.of) <=> EndOf(request, c) \in E
    OBVIOUS
  <2>1. CASE n.type = "leaf"
    BY <1>1, <1>2, <2>1, NameAssumption DEF PassesBy, AtLeaf, IsClimbOf
  <2>2. CASE n.type # "leaf"
    BY <1>1, <1>2, <2>2 DEF PassesBy, Within, IsClimbOf
  <2> QED BY <2>1, <2>2
<1>5. E \subseteq Ends(request)
  BY DEF AtLeaf, Within
<1> HIDE DEF E, C
<1>6. n.dir = IF \E d \in dirs : dirs \subseteq {d, "default"}
              THEN CHOOSE d \in dirs : dirs \subseteq {d, "default"} ELSE "bidir"
  BY <1>3 DEF DirOf
<1>7. dirs # {}
  BY <1>1
<1>8. CASE request.bidir
  <2>1. \A c \in n.climbs : c.dir = "bidir"
    BY <1>1, <1>2, <1>8 DEF IsClimbOf, DirAt
  <2>2. dirs = {"bidir"}
    BY <1>7, <2>1
  <2>3. n.dir = "bidir"
    <3> HIDE DEF dirs
    <3> QED BY <1>6, <2>2
  <2> QED BY <1>8, <2>3 DEF PortDir, Direction, E
<1>9. CASE ~ request.bidir
  <2>1. \A c \in C : c.dir = IF c.number = 0 THEN "up" ELSE "default"
    BY <1>2, <1>9 DEF IsClimbOf, DirAt
  <2>2. (\E e \in E : e = request.source) <=> "up" \in dirs
    <3>1. ASSUME request.source \in E PROVE "up" \in dirs
      <4>1. request.source # NULL /\ 0 \in Numbers(request)
        <5>1. request.source \in Endpoint
          BY <1>1, <1>5, <3>1 DEF IsRequest
        <5> QED BY <5>1, ConnectionAssumption DEF Numbers
      <4>2. PICK c \in C : c.number = 0
        BY <4>1, <1>2
      <4>3. EndOf(request, c) = request.source
        BY <4>2 DEF EndOf, EndAt
      <4>4. c \in n.climbs /\ c.dir = "up"
        BY <4>2, <4>3, <3>1, <1>1, <1>4, <2>1 DEF C
      <4> QED BY <4>4
    <3>2. ASSUME "up" \in dirs PROVE request.source \in E
      <4>1. PICK c \in n.climbs : c.dir = "up"
        BY <3>2
      <4>2. c \in C /\ c.number = 0 /\ EndOf(request, c) \in E
        BY <4>1, <1>1, <1>4, <2>1 DEF C
      <4> QED BY <4>2 DEF EndOf, EndAt
    <3> QED BY <3>1, <3>2
  <2>3. dirs \subseteq {"up", "default"}
    BY <1>1, <2>1 DEF C
  <2> HIDE DEF dirs
  <2>4. CASE "up" \in dirs
    <3>1. \A d \in dirs : dirs \subseteq {d, "default"} <=> d = "up"
      BY <2>3, <2>4
    <3>2. n.dir = "up"
      BY <1>6, <2>4, <3>1
    <3> QED BY <1>9, <2>2, <2>4, <3>2 DEF PortDir, Direction, E
  <2>5. CASE "up" \notin dirs
    <3>1. dirs = {"default"}
      BY <2>3, <2>5, <1>7
    <3>2. n.dir = "default"
      BY <1>6, <3>1
    <3> QED BY <1>9, <2>2, <2>5, <3>2 DEF PortDir, Direction, E
  <2> QED BY <2>4, <2>5
<1> QED BY <1>8, <1>9

-----------------------------------------------------------------------------
(* What names are made of. *)
Letters == Signal \cup UNION {Range(w.name) : w \in Writing}

(* Written names are sequences over one set.                               *)
LEMMA WritingNames == \A w \in Writing : w.name \in Seq(Letters)
<1> SUFFICES ASSUME NEW w \in Writing PROVE w.name \in Seq(Letters)
  OBVIOUS
<1>1. Range(w.name) \subseteq Letters
  BY DEF Letters
<1>2. w.name \in Seq(Range(w.name))
  BY WritingAssumption
<1> DEFINE A == Range(w.name)
<1> HIDE DEF A
<1>3. A \subseteq Letters /\ w.name \in Seq(A)
  BY <1>1, <1>2 DEF A
<1> QED BY <1>3

(* rm_suffix_pinport takes away what Stem does. *)
LEMMA Stems ==
  ASSUME NEW A, NEW q \in Seq(A), q # NoName
  PROVE  RmSuffix(q) = Stem(q) /\ Stem(q) \in Seq(A)
<1>1. Len(q) \in Nat /\ Len(q) # 0
  BY EmptySeq DEF NoName
<1>2. CASE Len(q) = 1
  <2>1. SubSeq(q, 1, 1) = q
    BY <1>2, SubSeqFull
  <2> QED BY <1>2, <2>1 DEF RmSuffix, Stem
<1>3. CASE Len(q) # 1
  <2>1. RmSuffix(q) = Stem(q)
    BY <1>1, <1>3 DEF RmSuffix, Stem, Front
  <2>2. SubSeq(q, 1, Len(q) - 1) \in Seq(A)
    <3>1. \A i \in 1 .. Len(q) - 1 : q[i] \in A
      BY <1>1
    <3> QED BY <1>1, <3>1, SubSeqProperties
  <2> QED BY <1>1, <1>3, <2>1, <2>2 DEF Stem
<1> QED BY <1>2, <1>3

(* Adding a suffix is concatenation.                                       *)
LEMMA WithSuffix ==
  ASSUME NEW A, NEW q \in Seq(A), NEW d
  PROVE  Suffixed(q, d) = q \o <<d>> /\ q \o <<>> = q
<1>1. q \o <<>> = q
  BY ConcatEmptySeq
<1>2. Append(q, d) = q \o <<d>>
  OBVIOUS
<1> QED BY <1>1, <1>2 DEF Suffixed

-----------------------------------------------------------------------------
(* The name handed down in a module is that of the innermost namer.        *)
Namers(request, m) == {x \in Above[m] : NamesAt(request, x) # {}}

HandsDownName(x) == IF x.force THEN Stem(x.name) ELSE x.name

FromNamers(request, N, s) ==
  LET inner == CHOOSE x \in N : N \subseteq Above[x]
      n     == CHOOSE x \in NamesAt(request, inner) : TRUE
  IN  IF N = {} THEN <<s>> ELSE HandsDownName(n)

(* The name handed down, by the set of modules that give one.              *)
LEMMA ByNamers ==
  ASSUME NEW request, NEW m, NEW s
  PROVE  HandedDown(request, m, s) = FromNamers(request, Namers(request, m), s)
BY DEF HandedDown, FromNamers, HandsDownName, Namers, NamesAt

(* Of the modules that give a name the innermost exists and decides.       *)
LEMMA InnerNamer ==
  ASSUME HierarchyTypeOK, Acyclic, NEW request, NEW s, NEW m \in Name
  PROVE  /\ Namers(request, m) = {} => HandedDown(request, m, s) = <<s>>
         /\ Namers(request, m) # {} => \E x \in Namers(request, m) : Namers(request, m) \subseteq Above[x]
         /\ \A x \in Namers(request, m) : Namers(request, m) \subseteq Above[x] =>
              \A n \in NamesAt(request, x) : Lone(NamesAt(request, x)) =>
                HandedDown(request, m, s) = HandsDownName(n)
<1> DEFINE N == Namers(request, m)
           inner == CHOOSE x \in N : N \subseteq Above[x]
           n == CHOOSE x \in NamesAt(request, inner) : TRUE
<1>1. HandedDown(request, m, s) = IF N = {} THEN <<s>> ELSE HandsDownName(n)
  BY ByNamers DEF FromNamers
<1>2. N # {} => \E x \in N : N \subseteq Above[x]
  <2> DEFINE T == {y \in Name : Namers(request, y) # {} =>
                     \E x \in Namers(request, y) : Namers(request, y) \subseteq Above[x]}
  <2>1. ASSUME NEW y \in Name, default_parent[y] = NULL \/ default_parent[y] \in T
        PROVE  y \in T
    <3>1. Namers(request, y) \subseteq Above[y] /\ y \in Above[y]
      BY AboveFacts DEF Namers
    <3>2. CASE y \in Namers(request, y)
      BY <3>1, <3>2
    <3>3. CASE y \notin Namers(request, y)
      <4>1. CASE default_parent[y] = NULL
        <5>1. Namers(request, y) = {}
          BY <3>1, <3>3, <4>1, AboveFacts
        <5> QED BY <5>1
      <4>2. CASE default_parent[y] # NULL
        <5>1. Namers(request, y) = Namers(request, default_parent[y])
          BY <3>3, <4>2, AboveFacts DEF Namers
        <5> QED BY <5>1, <4>2, <2>1
      <4> QED BY <4>1, <4>2
    <3> QED BY <3>2, <3>3
  <2>2. Name \subseteq T
    <3> HIDE DEF T
    <3> QED BY <2>1, DownTheHierarchy
  <2> QED BY <2>2
<1>3. ASSUME NEW x \in N, N \subseteq Above[x] PROVE inner = x
  <2>1. inner \in N /\ N \subseteq Above[inner]
    BY <1>3
  <2>2. N \subseteq Above[m]
    BY DEF Namers
  <2> HIDE DEF N, inner
  <2>3. x \in Above[inner] /\ inner \in Above[x] /\ x \in Name
    BY <1>3, <2>1, <2>2, AboveOrder
  <2>4. inner \in Name
    BY <2>1, <2>2, AboveOrder
  <2> QED BY <2>3, <2>4, AboveOrder
<1>4. ASSUME NEW x \in N, N \subseteq Above[x], NEW k \in NamesAt(request, x), Lone(NamesAt(request, x))
      PROVE  HandedDown(request, m, s) = HandsDownName(k)
  <2>1. inner = x
    BY <1>3, <1>4
  <2>2. n \in NamesAt(request, x)
    BY <1>4, <2>1
  <2>3. n = k
    BY <1>4, <2>2 DEF Lone
  <2>4. N # {}
    BY <1>4
  <2> HIDE DEF N, inner, n
  <2> QED BY <1>1, <2>3, <2>4
<1> HIDE DEF inner, n
<1> QED BY <1>1, <1>2, <1>4 DEF N

(* Step by step down the hierarchy. *)
LEMMA HandedDownSteps ==
  ASSUME HierarchyTypeOK, Acyclic, NEW request, NEW s, NEW m \in Name
  PROVE  /\ NamesAt(request, m) = {} =>
              HandedDown(request, m, s) =
                IF default_parent[m] = NULL THEN <<s>> ELSE HandedDown(request, default_parent[m], s)
         /\ \A n \in NamesAt(request, m) : Lone(NamesAt(request, m)) =>
              HandedDown(request, m, s) = HandsDownName(n)
<1>1. ASSUME NamesAt(request, m) = {}, default_parent[m] = NULL
      PROVE  HandedDown(request, m, s) = <<s>>
  <2>1. Namers(request, m) = {}
    BY <1>1, AboveFacts DEF Namers
  <2> QED BY <2>1, InnerNamer
<1>2. ASSUME NamesAt(request, m) = {}, default_parent[m] # NULL
      PROVE  HandedDown(request, m, s) = HandedDown(request, default_parent[m], s)
  <2>1. default_parent[m] \in Name /\ Above[m] = {m} \cup Above[default_parent[m]]
    BY <1>2, AboveFacts
  <2>2. Namers(request, m) = Namers(request, default_parent[m])
    BY <1>2, <2>1 DEF Namers
  <2> QED BY <2>2, ByNamers
<1>3. ASSUME NEW n \in NamesAt(request, m), Lone(NamesAt(request, m))
      PROVE  HandedDown(request, m, s) = HandsDownName(n)
  <2>1. m \in Namers(request, m) /\ Namers(request, m) \subseteq Above[m]
    BY <1>3, AboveFacts DEF Namers
  <2> QED BY <1>3, <2>1, InnerNamer
<1> QED BY <1>1, <1>2, <1>3

(* It is a name. *)
LEMMA HandedDownIsName ==
  ASSUME HierarchyInv, NEW request, IsRequest(request), NamedOnce(request), NEW s \in Signal, NEW m \in Name
  PROVE  HandedDown(request, m, s) \in Seq(Letters)
<1>1. <<s>> \in Seq(Letters)
  BY DEF Letters
<1>2. ASSUME Namers(request, m) # {} PROVE HandedDown(request, m, s) \in Seq(Letters)
  <2>1. PICK x \in Namers(request, m) : Namers(request, m) \subseteq Above[x]
    BY <1>2, InnerNamer DEF HierarchyInv
  <2>2. x \in Name /\ NamesAt(request, x) # {}
    BY AboveOrder DEF Namers, HierarchyInv
  <2>3. PICK n \in NamesAt(request, x) : TRUE
    BY <2>2
  <2>4. HandedDown(request, m, s) = HandsDownName(n)
    BY <2>1, <2>2, InnerNamer, NamedOnceLone DEF HierarchyInv
  <2>5. n.name \in Seq(Letters) /\ n.name # NoName
    <3>1. PICK e \in AtModule(request, x) :
            e.as.name # NoName /\ n = [name |-> e.as.name, force |-> e.as.force]
      BY DEF NamesAt, Names
    <3>2. e \in Endpoint
      BY DEF AtModule, IsRequest
    <3> QED BY <3>1, <3>2, WritingNames DEF Endpoint
  <2> QED BY <2>4, <2>5, Stems DEF HandsDownName
<1> QED BY <1>1, <1>2, InnerNamer DEF HierarchyInv

-----------------------------------------------------------------------------
(* All endpoints are below some module. *)
Joined(request) == \E r \in Name : \A e \in Ends(request) : r \in Above[Host(e)]

HostsPlaced(request) == Ends(request) # {} /\ \A e \in Ends(request) : Host(e) \in Name

(* There is an innermost module around all endpoints. *)
LEMMA TopFacts ==
  ASSUME HierarchyTypeOK, Acyclic, NEW request, HostsPlaced(request), Joined(request)
  PROVE  /\ Top(request) \in Name
         /\ \A x \in Name : x \in Above[Top(request)] <=> \A e \in Ends(request) : x \in Above[Host(e)]
<1> DEFINE Common == {x \in Name : \A e \in Ends(request) : x \in Above[Host(e)]}
           Q == {x \in Name : Above[x] \cap Common # {} =>
                   \E t \in Common : Above[x] \cap Common \subseteq Above[t]}
<1>1. ASSUME NEW x \in Name, default_parent[x] = NULL \/ default_parent[x] \in Q
      PROVE  x \in Q
  <2>1. CASE x \in Common
    <3>1. Above[x] \cap Common \subseteq Above[x]
      OBVIOUS
    <3> QED BY <2>1, <3>1
  <2>2. CASE x \notin Common /\ default_parent[x] = NULL
    <3>1. Above[x] \cap Common = {}
      BY <2>2, AboveFacts
    <3> QED BY <3>1
  <2>3. CASE x \notin Common /\ default_parent[x] # NULL
    <3>1. Above[x] \cap Common = Above[default_parent[x]] \cap Common
      BY <2>3, AboveFacts
    <3> HIDE DEF Common
    <3> QED BY <3>1, <2>3, <1>1
  <2> QED BY <2>1, <2>2, <2>3
<1>2. Name \subseteq Q
  <2> HIDE DEF Q
  <2> QED BY <1>1, DownTheHierarchy
<1>3. PICK e \in Ends(request) : Host(e) \in Name
  BY DEF HostsPlaced
<1>4. Common \subseteq Above[Host(e)] /\ Common # {}
  BY <1>3 DEF Joined
<1>5. PICK t \in Common : Common \subseteq Above[t]
  <2>1. Above[Host(e)] \cap Common = Common
    BY <1>4
  <2>2. Host(e) \in Q
    BY <1>2, <1>3
  <2> HIDE DEF Common
  <2> QED BY <1>4, <2>1, <2>2
<1>6. Above[t] \subseteq Common
  <2> SUFFICES ASSUME NEW x \in Above[t] PROVE x \in Common
    OBVIOUS
  <2>1. t \in Name /\ \A f \in Ends(request) : Host(f) \in Name /\ t \in Above[Host(f)]
    BY <1>5 DEF HostsPlaced
  <2>2. x \in Name
    BY <2>1, AboveOrder
  <2>3. \A f \in Ends(request) : x \in Above[Host(f)]
    BY <2>1, AboveOrder
  <2> QED BY <2>2, <2>3
<1>7. t \in Name /\ Above[t] = Common
  BY <1>5, <1>6
<1>8. Top(request) \in Name /\ Above[Top(request)] = Common
  BY <1>7 DEF Top
<1> QED BY <1>8

(* From a module down to one below it there is a next one. *)
LEMMA NextBelow ==
  ASSUME HierarchyTypeOK, Acyclic, NEW m \in Name, NEW t \in Above[m], t # m
  PROVE  \E z \in Above[m] : z \in Name /\ default_parent[z] = t
<1> DEFINE Q == {x \in Name : t \in Above[x] /\ t # x => \E z \in Above[x] : z \in Name /\ default_parent[z] = t}
<1>1. ASSUME NEW x \in Name, default_parent[x] = NULL \/ default_parent[x] \in Q
      PROVE  x \in Q
  <2> SUFFICES ASSUME t \in Above[x], t # x
               PROVE  \E z \in Above[x] : z \in Name /\ default_parent[z] = t
    OBVIOUS
  <2>1. default_parent[x] # NULL /\ t \in Above[default_parent[x]] /\ x \in Above[x]
        /\ Above[default_parent[x]] \subseteq Above[x]
    BY AboveFacts
  <2>2. CASE t = default_parent[x]
    BY <2>1, <2>2
  <2>3. CASE t # default_parent[x]
    BY <2>1, <2>3, <1>1
  <2> QED BY <2>2, <2>3
<1>2. Name \subseteq Q
  <2> HIDE DEF Q
  <2> QED BY <1>1, DownTheHierarchy
<1> QED BY <1>2

(* No module is above its parent. *)
LEMMA NotAboveParent ==
  ASSUME HierarchyTypeOK, Acyclic, NEW m \in Name, default_parent[m] # NULL
  PROVE  m \notin Above[default_parent[m]]
<1> SUFFICES ASSUME m \in Above[default_parent[m]] PROVE FALSE
  OBVIOUS
<1>1. default_parent[m] \in Name /\ default_parent[m] \in Above[m]
  BY AboveFacts
<1>2. default_parent[m] = m
  BY <1>1, AboveOrder
<1>3. {m} \in SUBSET Name /\ {m} # {}
  OBVIOUS
<1> QED BY <1>2, <1>3 DEF Acyclic

(* On the way up from a module, two modules below the same one are the     *)
(* same.                                                                   *)
LEMMA OneNextBelow ==
  ASSUME HierarchyTypeOK, Acyclic, NEW m \in Name, NEW y \in Above[m], NEW z \in Above[m],
         default_parent[y] = default_parent[z], default_parent[y] # NULL
  PROVE  y = z
<1>1. y \in Name /\ z \in Name /\ (y \in Above[z] \/ z \in Above[y])
  BY AboveOrder
<1>2. y \notin Above[default_parent[z]] /\ z \notin Above[default_parent[y]]
  BY <1>1, NotAboveParent
<1> QED BY <1>1, <1>2, AboveFacts

-----------------------------------------------------------------------------
(* A request with such a tree has a common top module, and its hosts are   *)
(* placed below it.                                                        *)
LEMMA LoneTreeHosts ==
  ASSUME HierarchyInv, NEW request, NEW s, NEW T, IsLoneTree(request, s, T)
  PROVE  HostsPlaced(request) /\ Joined(request)
<1> DEFINE C == Climbs(request)
<1>1. C # {} /\ GoodClimbs(C) /\ HierarchyTypeOK /\ Acyclic
  BY LoneTreeFacts DEF HierarchyInv
<1>2. /\ \A c \in C : IsClimbOf(request, c, EndOf(request, c))
      /\ \A e \in Ends(request) : \E c \in C : EndOf(request, c) = e
  BY ClimbsOfEnds DEF IsLoneTree
<1>3. Tree(s, C) # {}
  BY DEF IsLoneTree
<1> HIDE DEF C
<1>4. PICK r \in Name : \A c \in C : r \in c.modules
  BY <1>1, <1>3, TreeIsRooted DEF Rooted
<1>5. \A e \in Ends(request) : Host(e) \in Name /\ r \in Above[Host(e)]
  BY <1>2, <1>4 DEF IsClimbOf
<1>6. Ends(request) # {}
  BY <1>1, <1>2 DEF IsClimbOf
<1> QED BY <1>5, <1>6 DEF HostsPlaced, Joined

(* Where the climbs of a request are with respect to the innermost module  *)
(* around all endpoints.                                                   *)
LEMMA ClimbsOfTop ==
  ASSUME HierarchyInv, NEW request, NEW s, NEW T, IsLoneTree(request, s, T)
  PROVE  LET C == Climbs(request)
             t == Top(request)
         IN  /\ t \in Name
             /\ \A c \in C : c.from \in Name /\ c.modules = Above[c.from] /\ t \in Above[c.from]
             /\ \A x \in Name : x \in Above[t] <=> \A c \in C : x \in Above[c.from]
             /\ \A c \in C : \A x \in Above[c.from] : x \in Above[t] \/ t \in Above[x]
<1> DEFINE C == Climbs(request)
           t == Top(request)
<1>1. /\ t \in Name
      /\ \A x \in Name : x \in Above[t] <=> \A e \in Ends(request) : x \in Above[Host(e)]
  BY LoneTreeHosts, TopFacts DEF HierarchyInv
<1>2. /\ \A c \in C : IsClimbOf(request, c, EndOf(request, c))
      /\ \A e \in Ends(request) : \E c \in C : EndOf(request, c) = e
  BY ClimbsOfEnds DEF IsLoneTree
<1> HIDE DEF C, t
<1>3. \A c \in C : c.from \in Name /\ c.modules = Above[c.from] /\ c.from = Host(EndOf(request, c))
                   /\ EndOf(request, c) \in Ends(request)
  BY <1>2 DEF IsClimbOf
<1>4. \A x \in Name : x \in Above[t] <=> \A c \in C : x \in Above[c.from]
  BY <1>1, <1>2, <1>3
<1>5. \A c \in C : t \in Above[c.from]
  BY <1>1, <1>4, AboveFacts DEF HierarchyInv
<1>6. \A c \in C : \A x \in Above[c.from] : x \in Above[t] \/ t \in Above[x]
  BY <1>3, <1>5, AboveOrder DEF HierarchyInv
<1> QED BY <1>1, <1>3, <1>4, <1>5, <1>6 DEF C, t

IsTopNode(request, n) == n.type = "module" /\ n.of = Top(request)

(* At that module the reduction stops: an endpoint is there or the tree    *)
(* branches.                                                               *)
LEMMA TopNodeStops ==
  ASSUME HierarchyInv, NEW request, NEW s, NEW T, IsLoneTree(request, s, T)
  PROVE  \E n \in T : IsTopNode(request, n) /\ n.climbs = Climbs(request) /\ Stops(T, n)
<1> DEFINE C == Climbs(request)
           t == Top(request)
<1>0. HierarchyTypeOK /\ Acyclic
  BY DEF HierarchyInv
<1>1. /\ t \in Name
      /\ \A c \in C : c.from \in Name /\ c.modules = Above[c.from] /\ t \in Above[c.from]
      /\ \A x \in Name : x \in Above[t] <=> \A c \in C : x \in Above[c.from]
  BY ClimbsOfTop
<1>2. /\ C # {}
      /\ \A n \in T : n.climbs = {c \in C : PassesBy(c, n.type, n.of)}
      /\ \A type \in {"instance", "module", "leaf"}, of \in Name :
           (\E c \in C : PassesBy(c, type, of)) => \E n \in T : n.type = type /\ n.of = of
  BY LoneTreeFacts
<1>3. \A n \in T : IsMerged(n)
  BY LoneTreeFacts, TreeMerged, <1>0 DEF IsLoneTree
<1> HIDE DEF C, t
<1>4. \A c \in C : \A x : PassesBy(c, "module", x) <=> x \in Above[c.from]
  BY <1>1 DEF PassesBy
<1>5. \A c \in C : \A x : PassesBy(c, "instance", x) <=> x \in Above[c.from]
  BY <1>1 DEF PassesBy
<1>6. PICK n \in T : n.type = "module" /\ n.of = t
  BY <1>1, <1>2, <1>4
<1>7. n.climbs = C
  <2>1. n.climbs = {c \in C : PassesBy(c, n.type, n.of)}
    BY <1>2
  <2>2. \A c \in C : PassesBy(c, n.type, n.of)
    BY <1>1, <1>4, <1>6
  <2> QED BY <2>1, <2>2
<1>8. CASE \E c \in C : c.from = t
  <2>1. n.explicit
    BY <1>3, <1>6, <1>7, <1>8, MergedFacts DEF ExplicitAt
  <2> QED BY <1>6, <1>7, <2>1 DEF Stops, IsTopNode, C, t
<1>9. CASE \A c \in C : c.from # t
  <2>1. \A c \in C : \E z \in Above[c.from] : z \in Name /\ default_parent[z] = t
    BY <1>0, <1>1, <1>9, NextBelow
  <2>2. PICK c \in C : TRUE
    BY <1>2
  <2>3. PICK z \in Above[c.from] : z \in Name /\ default_parent[z] = t
    BY <2>1, <2>2
  <2>4. z \notin Above[t]
    BY <1>0, <1>1, <2>3, NotAboveParent, NameAssumption
  <2>5. PICK d \in C : z \notin Above[d.from]
    BY <1>1, <2>3, <2>4
  <2>6. PICK y \in Above[d.from] : y \in Name /\ default_parent[y] = t
    BY <2>1, <2>5
  <2>7. PICK p \in T : p.type = "instance" /\ p.of = z
    BY <1>2, <1>5, <2>3
  <2>8. PICK q \in T : q.type = "instance" /\ q.of = y
    BY <1>2, <1>5, <2>6
  <2>9. IsParent(n, p) /\ IsParent(n, q)
    <3>1. p.climbs \subseteq C /\ q.climbs \subseteq C
      BY <1>2
    <3> QED BY <3>1, <1>6, <1>7, <2>3, <2>6, <2>7, <2>8 DEF IsParent, Around
  <2>10. p # q
    BY <2>5, <2>6, <2>7, <2>8
  <2>11. Stops(T, n)
    BY <2>9, <2>10 DEF Stops
  <2> QED BY <1>6, <1>7, <2>11 DEF IsTopNode, C, t
<1> QED BY <1>8, <1>9

(* Above it the tree neither branches nor has an endpoint. *)
LEMMA StopsBelowTop ==
  ASSUME HierarchyInv, NEW request, NEW s, NEW T, IsLoneTree(request, s, T),
         NEW top \in T, IsTopNode(request, top), NEW r \in T, Stops(T, r)
  PROVE  Beneath(r, top)
<1> DEFINE C == Climbs(request)
           t == Top(request)
<1>0. HierarchyTypeOK /\ Acyclic
  BY DEF HierarchyInv
<1>1. /\ t \in Name
      /\ \A c \in C : c.from \in Name /\ c.modules = Above[c.from] /\ t \in Above[c.from]
      /\ \A x \in Name : x \in Above[t] <=> \A c \in C : x \in Above[c.from]
      /\ \A c \in C : \A x \in Above[c.from] : x \in Above[t] \/ t \in Above[x]
  BY ClimbsOfTop
<1>2. /\ C # {} /\ GoodClimbs(C) /\ IsTree(T, C)
      /\ \A n, k \in T : n.type = k.type /\ n.of = k.of => n = k
      /\ \A n \in T : n.climbs = {c \in C : PassesBy(c, n.type, n.of)}
  BY LoneTreeFacts
<1>3. \A n \in T : n.type \in {"instance", "module", "leaf"} /\ n.of \in Name /\ n.climbs # {}
  BY <1>2 DEF IsTree
<1>4. IsMerged(r)
  BY LoneTreeFacts, TreeMerged, <1>0 DEF IsLoneTree
<1>5. top.type = "module" /\ top.of = t
  BY DEF IsTopNode
<1> HIDE DEF C, t
<1>6. \A c \in C : \A type \in {"instance", "module"} : \A x : PassesBy(c, type, x) <=> x \in Above[c.from]
  BY <1>1 DEF PassesBy
<1>7. \A n \in T : \A c \in n.climbs : c \in C /\ PassesBy(c, n.type, n.of)
  BY <1>2
<1>8. PICK a \in r.climbs : a \in C /\ PassesBy(a, r.type, r.of)
  BY <1>3, <1>7
<1>9. CASE r.type = "leaf"
  <2>1. a.leaf = r.of /\ a.leaf # NULL
    BY <1>3, <1>8, <1>9, NameAssumption DEF PassesBy
  <2>2. ModuleAt(r) = a.from
    BY <1>2, <1>8, <1>9, <2>1 DEF GoodClimbs, ModuleAt
  <2> QED BY <1>1, <1>5, <1>8, <1>9, <2>2 DEF Beneath
<1>10. CASE r.type # "leaf" /\ t \in Above[r.of]
  <2> SUFFICES ASSUME r.type = "instance", r.of = t PROVE FALSE
    BY <1>5, <1>10 DEF Beneath, ModuleAt
  <2>1. ~ r.explicit
    BY <1>4, MergedFacts DEF ExplicitAt
  <2>2. PICK x \in T, y \in T : IsParent(r, x) /\ IsParent(r, y) /\ x # y
    BY <2>1 DEF Stops
  <2>3. x.type = "module" /\ x.of = t /\ y.type = "module" /\ y.of = t
    BY <1>3, <2>2 DEF IsParent, Around
  <2> QED BY <1>2, <2>2, <2>3
<1>11. CASE r.type # "leaf" /\ t \notin Above[r.of]
  <2> DEFINE m == r.of
  <2>0. m \in Name /\ r.type \in {"instance", "module"}
    BY <1>3, <1>11
  <2>1. m \in Above[a.from] /\ m \in Above[t]
    BY <1>1, <1>6, <1>8, <1>11, <2>0
  <2>2. \A c \in C : c.from # m
    BY <1>1, <1>11
  <2>3. ~ r.explicit
    <3>1. \A c \in r.climbs : ~ ExplicitAt(c, r.type, r.of)
      BY <1>3, <1>7, <1>11, <2>2 DEF ExplicitAt
    <3> QED BY <1>4, <3>1, MergedFacts
  <2>4. PICK x \in T, y \in T : IsParent(r, x) /\ IsParent(r, y) /\ x # y
    BY <2>3 DEF Stops
  <2>5. CASE r.type = "instance"
    <3>1. x.type = "module" /\ x.of = m /\ y.type = "module" /\ y.of = m
      BY <1>3, <2>4, <2>5 DEF IsParent, Around
    <3> QED BY <1>2, <2>4, <3>1
  <2>6. CASE r.type = "module"
    <3>1. ASSUME NEW z \in T, IsParent(r, z)
          PROVE  z.type = "instance" /\ default_parent[z.of] = m /\ z.of \in Above[t]
      <4>1. PICK c \in z.climbs : c \in C /\ PassesBy(c, z.type, z.of)
        BY <1>3, <1>7
      <4>2. z.type # "leaf"
        <5> SUFFICES ASSUME z.type = "leaf" PROVE FALSE
          OBVIOUS
        <5>1. c.leaf = z.of /\ c.leaf # NULL /\ instances[z.of].parent = m
          BY <1>3, <3>1, <4>1, <2>6, NameAssumption DEF PassesBy, IsParent, Around
        <5>2. c.from = m
          BY <1>2, <4>1, <5>1 DEF GoodClimbs
        <5> QED BY <2>2, <4>1, <5>2
      <4>3. z.type = "instance" /\ default_parent[z.of] = m /\ z.of \in Name
        BY <1>3, <3>1, <4>2, <2>6 DEF IsParent, Around
      <4>4. z.of \in Above[c.from]
        BY <1>6, <4>1, <4>3
      <4>5. CASE t \in Above[z.of]
        <5>1. Above[z.of] = {z.of} \cup Above[m]
          BY <1>0, <2>0, <4>3, AboveFacts, NameAssumption
        <5>2. t = z.of
          BY <1>11, <4>5, <5>1
        <5> QED BY <1>0, <1>1, <4>3, <5>2, AboveFacts
      <4> QED BY <1>1, <4>1, <4>3, <4>4, <4>5
    <3>2. x.of = y.of
      BY <1>0, <1>1, <2>0, <2>4, <3>1, OneNextBelow, NameAssumption
    <3> QED BY <1>2, <2>4, <3>1, <3>2
  <2> QED BY <2>0, <2>5, <2>6
<1> QED BY <1>9, <1>10, <1>11

(* What is left is what is below that module, and the module itself.       *)
LEMMA LoneReduced ==
  ASSUME HierarchyInv, NEW request, NEW s, NEW T, IsLoneTree(request, s, T)
  PROVE  \E top \in T : /\ IsTopNode(request, top) /\ top.climbs = Climbs(request)
                        /\ \A n \in T : n \in Reduce(T) <=> Beneath(n, top)
<1>0. HierarchyTypeOK /\ Acyclic
  BY DEF HierarchyInv
<1>1. PICK top \in T : IsTopNode(request, top) /\ top.climbs = Climbs(request) /\ Stops(T, top)
  BY TopNodeStops
<1>2. IsTree(T, Climbs(request)) /\ \A n \in T : n.climbs \subseteq Climbs(request)
  BY LoneTreeFacts DEF IsTree
<1>3. \A n, r \in T : Under(n, r) <=> n.climbs \subseteq r.climbs /\ Beneath(n, r)
  BY <1>2, UnderIsBeneath
<1>4. ASSUME NEW n \in T, Beneath(n, top) PROVE n \in Reduce(T)
  <2>1. Under(n, top)
    BY <1>1, <1>2, <1>3, <1>4
  <2> QED BY <1>1, <2>1 DEF Reduce
<1>5. ASSUME NEW n \in Reduce(T) PROVE n \in T /\ Beneath(n, top)
  <2>1. PICK r \in T : n \in T /\ Stops(T, r) /\ Under(n, r)
    BY DEF Reduce
  <2>2. Beneath(n, r) /\ Beneath(r, top)
    BY <1>1, <1>3, <2>1, StopsBelowTop
  <2>3. r.type \in {"instance", "module", "leaf"} /\ r.of \in Name /\ n.of \in Name
        /\ top.type = "module" /\ top.of = Top(request) /\ ModuleAt(n) \in Name
        /\ n.type \in {"instance", "module", "leaf"}
    BY <1>1, <1>2, <2>1 DEF IsTree, IsTopNode, ModuleAt
  <2>4. r.type = "leaf" => Beneath(n, top)
    BY <2>2, <2>3 DEF Beneath, ModuleAt
  <2>5. ASSUME r.type # "leaf" PROVE Beneath(n, top)
    <3>1. r.of \in Above[ModuleAt(n)] /\ top.of \in Above[r.of]
          /\ ~ (r.type = "module" /\ n.type = "instance" /\ n.of = r.of)
          /\ ~ (r.type = "instance" /\ r.of = top.of)
      BY <2>2, <2>3, <2>5 DEF Beneath, ModuleAt
    <3>2. top.of \in Above[ModuleAt(n)]
      BY <1>0, <2>3, <3>1, AboveOrder
    <3>3. ~ (n.type = "instance" /\ n.of = top.of)
      <4> SUFFICES ASSUME n.type = "instance", n.of = top.of PROVE FALSE
        OBVIOUS
      <4>1. r.of = top.of
        BY <1>0, <2>3, <3>1, AboveOrder DEF ModuleAt
      <4> QED BY <2>3, <2>5, <3>1, <4>1
    <3> QED BY <2>3, <3>2, <3>3 DEF Beneath
  <2> QED BY <2>1, <2>4, <2>5
<1> QED BY <1>1, <1>4, <1>5

-----------------------------------------------------------------------------
(* The tree of such a request, reduced: a module node at the innermost     *)
(* module around all endpoints, two nodes at every module the signal       *)
(* enters and one at every leaf.                                           *)
IsLoneReduced(request, R, top) ==
  /\ top \in R /\ IsTopNode(request, top) /\ Top(request) \in Name
  /\ Crossed(request) \subseteq Name /\ Top(request) \notin Crossed(request)
  /\ \A n \in R : IsRoot(R, n) <=> n = top
  /\ \A n, k \in R : n.type = k.type /\ n.of = k.of => n = k
  /\ \A n \in R : /\ n.type = "instance" => n.of \in Crossed(request)
                  /\ n.type = "module" /\ n # top => n.of \in Crossed(request)
                  /\ n.type = "leaf" => n.of \in Leaves(request)
  /\ \A m \in Crossed(request) : /\ \E n \in R : n.type = "instance" /\ n.of = m
                                 /\ \E n \in R : n.type = "module" /\ n.of = m
  /\ \A i \in Leaves(request) : \E n \in R : n.type = "leaf" /\ n.of = i

(* Such a tree, reduced, is what is at and below the innermost module      *)
(* around all endpoints.                                                   *)
LEMMA LoneReducedShape ==
  ASSUME HierarchyInv, NEW request, NEW s, NEW T, IsLoneTree(request, s, T)
  PROVE  \E top \in T : IsLoneReduced(request, Reduce(T), top)
<1> DEFINE C == Climbs(request)
           t == Top(request)
           R == Reduce(T)
<1>0. HierarchyTypeOK /\ Acyclic
  BY DEF HierarchyInv
<1>1. /\ t \in Name
      /\ \A c \in C : c.from \in Name /\ c.modules = Above[c.from] /\ t \in Above[c.from]
      /\ \A c \in C : \A x \in Above[c.from] : x \in Above[t] \/ t \in Above[x]
  BY ClimbsOfTop
<1>2. /\ IsTree(T, C)
      /\ \A n, k \in T : n.type = k.type /\ n.of = k.of => n = k
      /\ \A type \in {"instance", "module", "leaf"}, of \in Name :
           (\E c \in C : PassesBy(c, type, of)) => \E n \in T : n.type = type /\ n.of = of
  BY LoneTreeFacts
<1>3. PICK top \in T : IsTopNode(request, top) /\ \A n \in T : n \in R <=> Beneath(n, top)
  BY LoneReduced
<1>4. /\ \A c \in C : IsClimbOf(request, c, EndOf(request, c))
      /\ \A e \in Ends(request) : \E c \in C : EndOf(request, c) = e
  BY ClimbsOfEnds DEF IsLoneTree
<1>5. R \subseteq T
  BY <1>0, <1>2, ReduceKeeps
<1> HIDE DEF C, t, R
<1>6. top.type = "module" /\ top.of = t
  BY <1>3 DEF IsTopNode, t
<1>7. \A n \in T : /\ n.type \in {"instance", "module", "leaf"} /\ n.of \in Name
                   /\ \E c \in C : c \in n.climbs /\ PassesBy(c, n.type, n.of)
                   /\ n.type = "leaf" => instances[n.of] # NULL /\ instances[n.of].parent \in Name
  BY <1>2 DEF IsTree
<1>8. t \in Above[t]
  BY <1>0, <1>1, AboveFacts
<1>9. top \in R
  BY <1>1, <1>3, <1>6, <1>8 DEF Beneath, ModuleAt
<1>10. \A n \in R : n.type # "leaf" =>
         t \in Above[n.of] /\ ~ (n.type = "instance" /\ n.of = t)
  BY <1>3, <1>5, <1>6 DEF Beneath, ModuleAt
<1>11. \A n \in R : IsRoot(R, n) <=> n = top
  <2>1. ASSUME NEW n \in R, n # top PROVE ~ IsRoot(R, n)
    <3>1. n \in T /\ top \in T /\ Beneath(n, top) /\ ~ (n.type = top.type /\ n.of = top.of)
      BY <1>2, <1>3, <1>5, <2>1
    <3>2. /\ n.type = "instance" => default_parent[n.of] # NULL
          /\ \A p \in T : IsParent(p, n) => Beneath(p, top)
      BY <1>0, <1>2, <3>1, BeneathStep
    <3>3. PICK p \in T : IsParent(p, n)
      BY <1>2, <3>1, <3>2 DEF IsTree
    <3>4. p \in R
      BY <1>3, <3>2, <3>3
    <3> QED BY <3>3, <3>4 DEF IsRoot
  <2>2. ASSUME NEW p \in R, IsParent(p, top) PROVE FALSE
    <3>1. p.type = "instance" /\ p.of = t
      BY <1>6, <2>2 DEF IsParent, Around
    <3> QED BY <1>10, <3>1
  <2> QED BY <2>1, <2>2 DEF IsRoot
<1>12. \A c \in C : \A x : PassesBy(c, "instance", x) <=> x \in Above[c.from]
  BY <1>1 DEF PassesBy
<1>13. \A c \in C : \A x : PassesBy(c, "module", x) <=> x \in Above[c.from]
  BY <1>1 DEF PassesBy
<1>14. \A x : x \in Crossed(request) <=> x \notin Above[t] /\ \E c \in C : x \in Above[c.from]
  BY <1>4 DEF Crossed, IsClimbOf, t
<1>15. \A x \in Crossed(request) : x \in Name /\ t \in Above[x] /\ x # t
  BY <1>0, <1>1, <1>8, <1>14, AboveOrder
<1>16. ASSUME NEW n \in R, n.type # "leaf", n # top PROVE n.of \in Crossed(request)
  <2>1. PICK c \in C : c \in n.climbs /\ PassesBy(c, n.type, n.of)
    BY <1>5, <1>7
  <2>2. n.of \in Above[c.from] /\ n.of \in Name /\ t \in Above[n.of] /\ n.of # t
    BY <1>2, <1>5, <1>6, <1>7, <1>10, <1>12, <1>13, <1>16, <2>1
  <2>3. n.of \notin Above[t]
    BY <1>0, <1>1, <2>2, AboveOrder
  <2> QED BY <1>14, <2>2, <2>3
<1>17. ASSUME NEW n \in R, n.type = "leaf" PROVE n.of \in Leaves(request)
  <2>1. PICK c \in C : c.leaf = n.of
    BY <1>5, <1>7, <1>17 DEF PassesBy
  <2>2. n.of # NULL
    BY <1>5, <1>7, NameAssumption
  <2> QED BY <1>4, <2>1, <2>2 DEF IsClimbOf, Leaves
<1>18. ASSUME NEW m \in Crossed(request), NEW type \in {"instance", "module"}
       PROVE  \E n \in R : n.type = type /\ n.of = m
  <2>1. PICK c \in C : m \in Above[c.from]
    BY <1>14
  <2>2. PassesBy(c, type, m)
    BY <1>12, <1>13, <2>1
  <2>3. PICK n \in T : n.type = type /\ n.of = m
    BY <1>2, <1>15, <2>2
  <2> QED BY <1>3, <1>6, <1>15, <2>3 DEF Beneath, ModuleAt
<1>19. ASSUME NEW i \in Leaves(request) PROVE \E n \in R : n.type = "leaf" /\ n.of = i
  <2>1. PICK e \in Ends(request) : OfResource(e) /\ e.of = i
    BY DEF Leaves
  <2>2. PICK c \in C : EndOf(request, c) = e
    BY <1>4
  <2>3. c.leaf = i /\ c.leaf # NULL /\ c.from = Host(e)
    BY <1>4, <2>1, <2>2 DEF IsClimbOf
  <2>4. i \in Name /\ instances[i].parent = c.from
    BY <2>3, LoneTreeFacts DEF GoodClimbs, C
  <2>5. PICK n \in T : n.type = "leaf" /\ n.of = i
    <3>1. PassesBy(c, "leaf", i)
      BY <2>3 DEF PassesBy
    <3> QED BY <1>2, <2>4, <3>1
  <2> QED BY <1>1, <1>3, <1>6, <2>4, <2>5 DEF Beneath, ModuleAt
<1>20. Top(request) \in Name /\ Crossed(request) \subseteq Name /\ Top(request) \notin Crossed(request)
  BY <1>1, <1>15 DEF t
<1>21. \A n, k \in R : n.type = k.type /\ n.of = k.of => n = k
  BY <1>2, <1>5
<1>22. \A n \in R : /\ n.type = "instance" => n.of \in Crossed(request)
                    /\ n.type = "module" /\ n # top => n.of \in Crossed(request)
                    /\ n.type = "leaf" => n.of \in Leaves(request)
  BY <1>6, <1>16, <1>17
<1> QED BY <1>3, <1>9, <1>11, <1>18, <1>19, <1>20, <1>21, <1>22 DEF IsLoneReduced, R

-----------------------------------------------------------------------------
(* A node at which a name was given hands this one down. *)
LEMMA NamedHandsDown ==
  ASSUME HierarchyInv, NEW request, NEW s, NEW T, IsLoneTree(request, s, T), NEW n \in T,
         NEW inherited, n = Merged(n.type, n.of, n.climbs, inherited)
  PROVE  /\ Names(EndsAt(request, n.type, n.of)) = {} => HandsDown(n) = inherited
         /\ \A x \in Names(EndsAt(request, n.type, n.of)) : HandsDown(n) = HandsDownName(x)
<1> DEFINE N == Names(EndsAt(request, n.type, n.of))
<1>1. /\ N = {} => n.name = inherited /\ ~ n.force
      /\ \A x \in N : n.name = x.name /\ (n.force <=> x.force) /\ x.name # NoName
  BY NodeName
<1>2. \A x \in N : x.name \in Seq(Letters)
  <2>1. \A e \in EndsAt(request, n.type, n.of) : e \in Endpoint
    BY DEF EndsAt, AtLeaf, AtModule, IsLoneTree, GoodRequest, IsRequest
  <2>2. \A e \in EndsAt(request, n.type, n.of) : e.as \in Writing
    BY <2>1 DEF Endpoint
  <2> QED BY <2>2, WritingNames DEF Names
<1> HIDE DEF N
<1>3. ASSUME NEW x \in N PROVE HandsDown(n) = HandsDownName(x)
  <2>1. RmSuffix(x.name) = Stem(x.name)
    BY <1>1, <1>2, Stems
  <2> QED BY <1>1, <2>1 DEF HandsDown, HandsDownName
<1>4. N = {} => HandsDown(n) = inherited
  BY <1>1 DEF HandsDown
<1> QED BY <1>3, <1>4 DEF N

(* A node hands down the innermost name given at it or above. *)
LEMMA NodeHandsDown ==
  ASSUME HierarchyInv, NEW request, NEW s, NEW T, IsLoneTree(request, s, T)
  PROVE  \A m \in Name : \A n \in T : n.type \in {"instance", "module"} /\ n.of = m =>
           HandsDown(n) = HandedDown(request, m, s)
<1> DEFINE Hands(m) == \A n \in T : n.type \in {"instance", "module"} /\ n.of = m =>
                         HandsDown(n) = HandedDown(request, m, s)
           S == {m \in Name : Hands(m)}
<1>0. HierarchyTypeOK /\ Acyclic
  BY DEF HierarchyInv
<1>1. \A n \in T : /\ n.type \in {"instance", "module", "leaf"} /\ n.of \in Name
  BY LoneTreeFacts DEF IsTree
<1>2. ASSUME NEW n \in T
      PROVE  \/ /\ n.type = "instance" /\ default_parent[n.of] = NULL
                /\ n = Merged(n.type, n.of, n.climbs, <<s>>)
             \/ \E p \in T : IsParent(p, n) /\ n = Merged(n.type, n.of, n.climbs, HandsDown(p))
  <2>1. T = Tree(s, Climbs(request)) /\ Climbs(request) # {} /\ GoodClimbs(Climbs(request))
    BY LoneTreeFacts DEF IsLoneTree
  <2> QED BY <1>0, <2>1, TreeInherits
<1>3. \A m \in Name : Lone(NamesAt(request, m))
  BY NamedOnceLone DEF IsLoneTree, GoodRequest
<1>4. ASSUME NEW m \in Name, default_parent[m] = NULL \/ default_parent[m] \in S
      PROVE  m \in S
  <2>1. \A n \in T : n.of = m /\ n.type \in {"instance", "module"} =>
          Names(EndsAt(request, n.type, n.of)) = NamesAt(request, m)
    BY DEF EndsAt, NamesAt
  <2>2. ASSUME NEW n \in T, n.of = m, n.type \in {"instance", "module"}, NEW x \in NamesAt(request, m)
        PROVE  HandsDown(n) = HandedDown(request, m, s)
    <3>1. PICK inherited : n = Merged(n.type, n.of, n.climbs, inherited)
      BY <1>2
    <3>2. HandsDown(n) = HandsDownName(x)
      BY <2>1, <2>2, <3>1, NamedHandsDown
    <3>3. HandedDown(request, m, s) = HandsDownName(x)
      BY <1>0, <1>3, <2>2, HandedDownSteps
    <3> QED BY <3>2, <3>3
  <2>3. ASSUME NEW n \in T, n.of = m, n.type = "instance", NamesAt(request, m) = {}
        PROVE  HandsDown(n) = HandedDown(request, m, s)
    <3>1. HandedDown(request, m, s) = IF default_parent[m] = NULL THEN <<s>> ELSE HandedDown(request, default_parent[m], s)
      BY <1>0, <2>3, HandedDownSteps
    <3>2. CASE default_parent[m] = NULL /\ n = Merged(n.type, n.of, n.climbs, <<s>>)
      BY <2>1, <2>3, <3>1, <3>2, NamedHandsDown
    <3>3. CASE \E p \in T : IsParent(p, n) /\ n = Merged(n.type, n.of, n.climbs, HandsDown(p))
      <4>1. PICK p \in T : IsParent(p, n) /\ n = Merged(n.type, n.of, n.climbs, HandsDown(p))
        BY <3>3
      <4>2. p.type = "module" /\ p.of = default_parent[m] /\ p.of \in Name
        BY <1>1, <2>3, <4>1 DEF IsParent, Around
      <4>3. HandsDown(p) = HandedDown(request, default_parent[m], s)
        BY <1>4, <4>2, NameAssumption
      <4>4. HandsDown(n) = HandsDown(p)
        BY <2>1, <2>3, <4>1, NamedHandsDown
      <4> QED BY <3>1, <4>2, <4>3, <4>4, NameAssumption
    <3> QED BY <1>2, <2>3, <3>2, <3>3
  <2>4. ASSUME NEW n \in T, n.of = m, n.type = "module", NamesAt(request, m) = {}
        PROVE  HandsDown(n) = HandedDown(request, m, s)
    <3>1. PICK p \in T : IsParent(p, n) /\ n = Merged(n.type, n.of, n.climbs, HandsDown(p))
      BY <1>2, <2>4
    <3>2. p.type = "instance" /\ p.of = m
      BY <2>4, <3>1 DEF IsParent, Around
    <3>3. HandsDown(p) = HandedDown(request, m, s)
      BY <2>3, <2>4, <3>2
    <3>4. HandsDown(n) = HandsDown(p)
      BY <2>1, <2>4, <3>1, NamedHandsDown
    <3> QED BY <3>3, <3>4
  <2> QED BY <2>2, <2>3, <2>4
<1>5. Name \subseteq S
  <2> HIDE DEF S
  <2> QED BY <1>0, <1>4, DownTheHierarchy
<1> QED BY <1>5

(* No name is given above the innermost module around all endpoints. *)
LEMMA NoNameAboveTop ==
  ASSUME HierarchyInv, NEW request, NEW s, NEW T, IsLoneTree(request, s, T),
         NamesAt(request, Top(request)) = {}
  PROVE  HandedDown(request, Top(request), s) = <<s>>
<1> DEFINE t == Top(request)
<1>0. HierarchyTypeOK /\ Acyclic
  BY DEF HierarchyInv
<1>1. t \in Name /\ \A x \in Name : x \in Above[t] <=> \A e \in Ends(request) : x \in Above[Host(e)]
  BY <1>0, LoneTreeHosts, TopFacts
<1> HIDE DEF t
<1>2. ASSUME NEW x \in Above[t], NEW e \in AtModule(request, x) PROVE x = t
  <2>1. e \in Ends(request) /\ Host(e) = x
    BY <1>2 DEF AtModule
  <2>2. t \in Above[x]
    BY <1>0, <1>1, <2>1, AboveFacts
  <2> QED BY <1>0, <1>1, <2>2, AboveOrder
<1>3. \A x \in Above[t] : NamesAt(request, x) = {}
  <2> SUFFICES ASSUME NEW x \in Above[t], NEW y \in NamesAt(request, x) PROVE FALSE
    OBVIOUS
  <2>1. PICK e \in AtModule(request, x) : TRUE
    BY DEF NamesAt, Names
  <2>2. x = t
    BY <1>2, <2>1
  <2> QED BY <2>2 DEF t
<1>4. Namers(request, t) = {}
  BY <1>3 DEF Namers
<1> QED BY <1>0, <1>1, <1>4, InnerNamer DEF t

NodeInherits(request, n, s) ==
  IF n.type = "leaf" THEN HandedDown(request, instances[n.of].parent, s) ELSE Inherited(request, n.of, s)

(* The name of a node where none was given, and that one is a name. *)
LEMMA UnnamedNode ==
  ASSUME HierarchyInv, NEW request, NEW s \in Signal, NEW T, IsLoneTree(request, s, T),
         NEW top, IsLoneReduced(request, Reduce(T), top), NEW n \in Reduce(T)
  PROVE  /\ NodeInherits(request, n, s) \in Seq(Letters)
         /\ Names(EndsAt(request, n.type, n.of)) = {} => n.name = NodeInherits(request, n, s) /\ ~ n.force
<1> DEFINE t == Top(request)
           R == Reduce(T)
<1>0. HierarchyTypeOK /\ Acyclic
  BY DEF HierarchyInv
<1>1. n \in T /\ IsTree(T, Climbs(request))
  BY <1>0, LoneTreeFacts, ReduceKeeps
<1>2. /\ n.type \in {"instance", "module", "leaf"} /\ n.of \in Name
      /\ n.type = "leaf" => instances[n.of].parent \in Name
  BY <1>1 DEF IsTree
<1>3. \A m \in Name : HandedDown(request, m, s) \in Seq(Letters)
  BY HandedDownIsName DEF IsLoneTree, GoodRequest
<1>4. \A m \in Crossed(request) : m \in Name /\ m # t /\ default_parent[m] \in Name
  <2> SUFFICES ASSUME NEW m \in Crossed(request) PROVE m \in Name /\ m # t /\ default_parent[m] \in Name
    OBVIOUS
  <2>1. m \in Name /\ m # t /\ t \in Name
    BY DEF IsLoneReduced
  <2>2. PICK e \in Ends(request) : m \in Above[Host(e)] /\ m \notin Above[t]
    BY DEF Crossed
  <2>3. Host(e) \in Name /\ t \in Above[Host(e)]
    <3>1. HostsPlaced(request) /\ Joined(request)
      BY LoneTreeHosts
    <3>2. t \in Above[t]
      BY <1>0, <2>1, AboveFacts
    <3> QED BY <1>0, <2>1, <3>1, <3>2, TopFacts DEF HostsPlaced
  <2>4. t \in Above[m]
    BY <1>0, <2>2, <2>3, AboveOrder
  <2> QED BY <1>0, <2>1, <2>4, AboveFacts
<1> HIDE DEF R, t
<1>5. /\ n.type = "instance" => n.of \in Crossed(request)
      /\ n.type = "module" => n.of = t \/ n.of \in Crossed(request)
  BY <1>1 DEF IsLoneReduced, IsTopNode, t
<1>6. NodeInherits(request, n, s) \in Seq(Letters)
  <2>1. <<s>> \in Seq(Letters)
    BY DEF Letters
  <2> QED BY <1>2, <1>3, <1>4, <1>5, <2>1 DEF NodeInherits, Inherited, t
<1>7. ASSUME Names(EndsAt(request, n.type, n.of)) = {}
      PROVE  n.name = NodeInherits(request, n, s) /\ ~ n.force
  <2>1. \A inherited : n = Merged(n.type, n.of, n.climbs, inherited) => n.name = inherited /\ ~ n.force
    BY <1>1, <1>7, NodeName
  <2>2. \/ /\ n.type = "instance" /\ default_parent[n.of] = NULL
           /\ n = Merged(n.type, n.of, n.climbs, <<s>>)
        \/ \E p \in T : IsParent(p, n) /\ n = Merged(n.type, n.of, n.climbs, HandsDown(p))
    <3>1. T = Tree(s, Climbs(request)) /\ Climbs(request) # {} /\ GoodClimbs(Climbs(request))
      BY LoneTreeFacts DEF IsLoneTree
    <3> QED BY <1>0, <1>1, <3>1, TreeInherits
  <2>3. PICK p \in T : IsParent(p, n) /\ n = Merged(n.type, n.of, n.climbs, HandsDown(p))
    BY <1>4, <1>5, <2>2, NameAssumption
  <2>4. p.type \in {"instance", "module"} => HandsDown(p) = HandedDown(request, p.of, s)
    BY <1>1, NodeHandsDown DEF IsTree
  <2>5. n.name = HandsDown(p) /\ ~ n.force
    BY <2>1, <2>3
  <2>6. CASE n.type = "leaf"
    <3>1. p.type = "module" /\ p.of = instances[n.of].parent
      BY <2>3, <2>6 DEF IsParent, Around
    <3> QED BY <2>4, <2>5, <2>6, <3>1 DEF NodeInherits
  <2>7. CASE n.type = "instance"
    <3>1. p.type = "module" /\ p.of = default_parent[n.of]
      BY <2>3, <2>7 DEF IsParent, Around
    <3>2. n.of # t
      BY <1>4, <1>5, <2>7
    <3> QED BY <2>4, <2>5, <2>7, <3>1, <3>2 DEF NodeInherits, Inherited, t
  <2>8. CASE n.type = "module"
    <3>1. p.type = "instance" /\ p.of = n.of
      BY <2>3, <2>8 DEF IsParent, Around
    <3>2. NamesAt(request, n.of) = {}
      BY <1>7, <2>8 DEF EndsAt, NamesAt
    <3>3. n.of = t => HandedDown(request, n.of, s) = <<s>>
      BY <3>2, NoNameAboveTop DEF t
    <3>4. n.of # t => HandedDown(request, n.of, s) = HandedDown(request, default_parent[n.of], s)
      BY <1>0, <1>2, <1>4, <1>5, <2>8, <3>2, HandedDownSteps, NameAssumption
    <3> QED BY <2>4, <2>5, <2>8, <3>1, <3>3, <3>4 DEF NodeInherits, Inherited, t
  <2> QED BY <1>2, <2>6, <2>7, <2>8
<1> QED BY <1>6, <1>7

(* The local name of a node, with a suffix unless it is forced. *)
LEMMA NodeNameAt ==
  ASSUME HierarchyInv, NEW request, NEW s \in Signal, NEW T, IsLoneTree(request, s, T),
         NEW top, IsLoneReduced(request, Reduce(T), top), NEW n \in Reduce(T)
  PROVE  LET S == EndsAt(request, n.type, n.of)
             I == NodeInherits(request, n, s)
         IN  /\ n.name = NameAt(S, I, <<>>)
             /\ \A d : (IF n.force THEN n.name ELSE Suffixed(n.name, d)) = NameAt(S, I, <<d>>)
<1> DEFINE S == EndsAt(request, n.type, n.of)
           I == NodeInherits(request, n, s)
<1>0. HierarchyTypeOK /\ Acyclic
  BY DEF HierarchyInv
<1>1. n \in T
  BY <1>0, LoneTreeFacts, ReduceKeeps
<1>2. I \in Seq(Letters) /\ (Names(S) = {} => n.name = I /\ ~ n.force)
  BY UnnamedNode
<1>3. PICK inherited : n = Merged(n.type, n.of, n.climbs, inherited)
  <2>1. T = Tree(s, Climbs(request)) /\ Climbs(request) # {} /\ GoodClimbs(Climbs(request))
    BY LoneTreeFacts DEF IsLoneTree
  <2>2. \/ /\ n.type = "instance" /\ default_parent[n.of] = NULL
           /\ n = Merged(n.type, n.of, n.climbs, <<s>>)
        \/ \E p \in T : IsParent(p, n) /\ n = Merged(n.type, n.of, n.climbs, HandsDown(p))
    BY <1>0, <1>1, <2>1, TreeInherits
  <2>3. CASE n = Merged(n.type, n.of, n.climbs, <<s>>)
    BY <2>3
  <2>4. CASE \E p \in T : n = Merged(n.type, n.of, n.climbs, HandsDown(p))
    BY <2>4
  <2> QED BY <2>2, <2>3, <2>4
<1>4. \A x \in Names(S) : n.name = x.name /\ (n.force <=> x.force)
  BY <1>1, <1>3, NodeName
<1>5. \A x \in Names(S) : x.name \in Seq(Letters)
  <2>1. \A e \in S : e \in Endpoint
    BY DEF EndsAt, AtLeaf, AtModule, IsLoneTree, GoodRequest, IsRequest
  <2>2. \A e \in S : e.as \in Writing
    BY <2>1 DEF Endpoint
  <2> QED BY <2>2, WritingNames DEF Names
<1> HIDE DEF S, I
<1>6. n.name \in Seq(Letters)
  BY <1>2, <1>4, <1>5
<1>7. n.name \o <<>> = n.name /\ \A d : Suffixed(n.name, d) = n.name \o <<d>>
  BY <1>6, WithSuffix
<1>8. ASSUME Names(S) = {}
      PROVE  n.name = NameAt(S, I, <<>>) /\ \A d : (IF n.force THEN n.name ELSE Suffixed(n.name, d)) = NameAt(S, I, <<d>>)
  BY <1>2, <1>7, <1>8 DEF NameAt
<1>9. ASSUME Names(S) # {}
      PROVE  n.name = NameAt(S, I, <<>>) /\ \A d : (IF n.force THEN n.name ELSE Suffixed(n.name, d)) = NameAt(S, I, <<d>>)
  <2> DEFINE x == CHOOSE y \in Names(S) : TRUE
  <2>1. x \in Names(S)
    BY <1>9
  <2>2. \A suffix : NameAt(S, I, suffix) = IF x.force THEN x.name ELSE x.name \o suffix
    BY <1>9 DEF NameAt
  <2> HIDE DEF x
  <2>3. n.name = x.name /\ (n.force <=> x.force)
    BY <1>4, <2>1
  <2>4. NameAt(S, I, <<>>) = n.name
    BY <1>7, <2>2, <2>3
  <2>5. \A d : NameAt(S, I, <<d>>) = IF n.force THEN n.name ELSE n.name \o <<d>>
    BY <2>2, <2>3
  <2> QED BY <1>7, <2>4, <2>5
<1> QED BY <1>8, <1>9 DEF S, I

-----------------------------------------------------------------------------
(* What a request asks for, place by place. *)
TopItem(request, s, isSignal) ==
  Item(IF isSignal THEN "declaration" ELSE "parameter", Top(request),
       NameIn(request, Top(request), s, isSignal), NoName, "none", FALSE, s)

WayItem(request, s, isSignal, m) ==
  Item(IF isSignal THEN "pin" ELSE "adjustment", m, NameIn(request, m, s, isSignal),
       NameIn(request, default_parent[m], s, isSignal),
       IF isSignal THEN Direction(request, Within(request, m)) ELSE "none",
       isSignal /\ Inverted(AtModule(request, m)), s)

InnerItem(request, s, isSignal, m) ==
  Item(IF isSignal THEN "port" ELSE "parameter", m, NameIn(request, m, s, isSignal), NoName,
       IF isSignal THEN Direction(request, Within(request, m)) ELSE "none", FALSE, s)

LeafName(request, s, isSignal, i) ==
  NameAt(AtLeaf(request, i), HandedDown(request, instances[i].parent, s),
         Suffix(isSignal, Direction(request, AtLeaf(request, i))))

LeafItem(request, s, isSignal, i) ==
  Item(IF isSignal THEN "pin" ELSE "adjustment", i, LeafName(request, s, isSignal, i),
       NameIn(request, instances[i].parent, s, isSignal),
       IF isSignal THEN Direction(request, AtLeaf(request, i)) ELSE "none",
       isSignal /\ Inverted(AtLeaf(request, i)), s)

(* Asked, part by part.                                                    *)
LEMMA AskedParts ==
  ASSUME NEW request, NEW s, NEW isSignal
  PROVE  Asked(request, s, isSignal) =
           {TopItem(request, s, isSignal)}
           \cup {WayItem(request, s, isSignal, m) : m \in Crossed(request)}
           \cup {InnerItem(request, s, isSignal, m) : m \in Crossed(request)}
           \cup {LeafItem(request, s, isSignal, i) : i \in Leaves(request)}
BY DEF Asked, TopItem, WayItem, InnerItem, LeafItem, LeafName

(* The object of a node is that of its place. *)
Fits(request, s, isSignal, n, top, o) ==
  /\ n = top => o = TopItem(request, s, isSignal)
  /\ n.type = "instance" => o = WayItem(request, s, isSignal, n.of)
  /\ n.type = "module" /\ n # top => o = InnerItem(request, s, isSignal, n.of)
  /\ n.type = "leaf" => o = LeafItem(request, s, isSignal, n.of)

(* If every node has the object of its place, all objects together are     *)
(* those asked for.                                                        *)
LEMMA AllFit ==
  ASSUME NEW request, NEW s, NEW isSignal, NEW R, NEW top, IsLoneReduced(request, R, top),
         \A n \in R : n.type \in {"instance", "module", "leaf"},
         NEW O, NEW o, O = {o[n] : n \in R},
         \A n \in R : Fits(request, s, isSignal, n, top, o[n])
  PROVE  O = Asked(request, s, isSignal)
<1> DEFINE A == {TopItem(request, s, isSignal)}
           B == {WayItem(request, s, isSignal, m) : m \in Crossed(request)}
           D == {InnerItem(request, s, isSignal, m) : m \in Crossed(request)}
           E == {LeafItem(request, s, isSignal, i) : i \in Leaves(request)}
<1>1. Asked(request, s, isSignal) = A \cup B \cup D \cup E
  BY AskedParts
<1>2. top \in R /\ top.type = "module"
  BY DEF IsLoneReduced, IsTopNode
<1>3. A \subseteq O
  BY <1>2 DEF Fits
<1>4. B \subseteq O
  <2> SUFFICES ASSUME NEW m \in Crossed(request) PROVE WayItem(request, s, isSignal, m) \in O
    OBVIOUS
  <2>1. PICK n \in R : n.type = "instance" /\ n.of = m
    BY DEF IsLoneReduced
  <2> QED BY <2>1 DEF Fits
<1>5. D \subseteq O
  <2> SUFFICES ASSUME NEW m \in Crossed(request) PROVE InnerItem(request, s, isSignal, m) \in O
    OBVIOUS
  <2>1. PICK n \in R : n.type = "module" /\ n.of = m
    BY DEF IsLoneReduced
  <2>2. n # top
    BY <2>1 DEF IsLoneReduced, IsTopNode
  <2> QED BY <2>1, <2>2 DEF Fits
<1>6. E \subseteq O
  <2> SUFFICES ASSUME NEW i \in Leaves(request) PROVE LeafItem(request, s, isSignal, i) \in O
    OBVIOUS
  <2>1. PICK n \in R : n.type = "leaf" /\ n.of = i
    BY DEF IsLoneReduced
  <2> QED BY <2>1 DEF Fits
<1>7. ASSUME NEW n \in R PROVE o[n] \in A \cup B \cup D \cup E
  <2>1. n = top => o[n] \in A
    BY DEF Fits
  <2>2. n.type = "instance" => o[n] \in B
    BY DEF Fits, IsLoneReduced
  <2>3. n.type = "module" /\ n # top => o[n] \in D
    BY DEF Fits, IsLoneReduced
  <2>4. n.type = "leaf" => o[n] \in E
    BY DEF Fits, IsLoneReduced
  <2> HIDE DEF A, B, D, E
  <2> QED BY <2>1, <2>2, <2>3, <2>4
<1> HIDE DEF A, B, D, E
<1> QED BY <1>1, <1>3, <1>4, <1>5, <1>6, <1>7

(* What the names, directions and inversions of the nodes rest on. *)
NodePlace(request, R, T, top, n) ==
  /\ n \in T /\ IsReduced(R, T, Climbs(request))
  /\ n.type \in {"instance", "module", "leaf"} /\ n.of \in Name
  /\ n.type # "leaf" => EndsAt(request, n.type, n.of) = AtModule(request, n.of)
  /\ n.type = "leaf" => EndsAt(request, n.type, n.of) = AtLeaf(request, n.of)
  /\ n.type = "instance" => n.of # Top(request)
  /\ n.type = "module" /\ n # top => n.of # Top(request)
  /\ IsRoot(R, n) <=> n = top
  /\ n # top => /\ Parent(R, n) \in R
                /\ n.type = "module" => Parent(R, n).type = "instance" /\ Parent(R, n).of = n.of
                /\ n.type = "instance" =>
                     Parent(R, n).type = "module" /\ Parent(R, n).of = default_parent[n.of]
                /\ n.type = "leaf" =>
                     Parent(R, n).type = "module" /\ Parent(R, n).of = instances[n.of].parent

(* Every node of a reduced tree has its place in the request.              *)
LEMMA LoneReducedNodes ==
  ASSUME HierarchyInv, NEW request, NEW s \in Signal, NEW T, IsLoneTree(request, s, T),
         NEW R, R = Reduce(T), NEW top, IsLoneReduced(request, R, top), NEW n \in R
  PROVE  NodePlace(request, R, T, top, n)
<1>1. IsReduced(R, T, Climbs(request))
  BY LoneTreeFacts DEF IsReduced
<1>2. n \in T
  BY <1>1, ReduceKeeps DEF IsReduced, HierarchyInv
<1>3. n.type \in {"instance", "module", "leaf"} /\ n.of \in Name
  BY <1>1, <1>2 DEF IsReduced, IsTree
<1>4. IsRoot(R, n) <=> n = top
  BY DEF IsLoneReduced
<1>5. /\ n.type = "instance" => n.of # Top(request)
      /\ n.type = "module" /\ n # top => n.of # Top(request)
  BY DEF IsLoneReduced
<1>6. ASSUME n # top
      PROVE  /\ Parent(R, n) \in R
             /\ n.type = "module" => Parent(R, n).type = "instance" /\ Parent(R, n).of = n.of
             /\ n.type = "instance" =>
                  Parent(R, n).type = "module" /\ Parent(R, n).of = default_parent[n.of]
             /\ n.type = "leaf" =>
                  Parent(R, n).type = "module" /\ Parent(R, n).of = instances[n.of].parent
  BY <1>1, <1>4, <1>6, ReducedFacts
<1> QED BY <1>1, <1>2, <1>3, <1>4, <1>5, <1>6 DEF EndsAt, NodePlace

-----------------------------------------------------------------------------
(* The name of a pin, and of the declaration. *)
LEMMA OwnSignalName ==
  ASSUME HierarchyInv, NEW request, NEW s \in Signal, NEW T, IsLoneTree(request, s, T),
         NEW R, R = Reduce(T), NEW top, IsLoneReduced(request, R, top), NEW n \in R
  PROVE  /\ n = top \/ n.type = "instance" => SignalName(R, n) = NameIn(request, n.of, s, TRUE)
         /\ n.type = "leaf" => SignalName(R, n) = LeafName(request, s, TRUE, n.of)
<1>1. /\ n \in T /\ IsReduced(R, T, Climbs(request))
      /\ n.type \in {"instance", "module", "leaf"} /\ n.of \in Name
      /\ n.type # "leaf" => EndsAt(request, n.type, n.of) = AtModule(request, n.of)
      /\ n.type = "leaf" => EndsAt(request, n.type, n.of) = AtLeaf(request, n.of)
      /\ n.type = "instance" => n.of # Top(request)
      /\ IsRoot(R, n) <=> n = top
  BY LoneReducedNodes DEF NodePlace
<1>2. top.type = "module" /\ top.of = Top(request)
  BY DEF IsLoneReduced, IsTopNode
<1> DEFINE S == EndsAt(request, n.type, n.of)
           I == NodeInherits(request, n, s)
<1>3. \A d : (IF n.force THEN n.name ELSE Suffixed(n.name, d)) = NameAt(S, I, <<d>>)
  BY NodeNameAt
<1>4. PortDir(n.dir) =
        Direction(request, IF n.type = "leaf" THEN AtLeaf(request, n.of) ELSE Within(request, n.of))
  BY <1>1, NodeDirection
<1>5. /\ n.type # "module" => SignalName(R, n) = IF n.force THEN n.name ELSE PinName(n.name, n.dir)
      /\ n.type = "module" /\ IsRoot(R, n) =>
           SignalName(R, n) = IF n.force THEN n.name ELSE Suffixed(n.name, "s")
  BY <1>1, SignalObjects
<1>6. n.type # "module" => SignalName(R, n) = NameAt(S, I, <<DirSuffix[PortDir(n.dir)]>>)
  BY <1>3, <1>5 DEF PinName
<1>7. n = top => SignalName(R, n) = NameAt(S, I, <<"s">>)
  BY <1>1, <1>2, <1>3, <1>5
<1> HIDE DEF S, I
<1>8. ASSUME n = top PROVE SignalName(R, n) = NameIn(request, n.of, s, TRUE)
  BY <1>1, <1>2, <1>7, <1>8 DEF NameIn, NodeInherits, S, I
<1>9. ASSUME n.type = "instance" PROVE SignalName(R, n) = NameIn(request, n.of, s, TRUE)
  BY <1>1, <1>4, <1>6, <1>9 DEF NameIn, NodeInherits, Suffix, S, I
<1>10. ASSUME n.type = "leaf" PROVE SignalName(R, n) = LeafName(request, s, TRUE, n.of)
  BY <1>1, <1>4, <1>6, <1>10 DEF LeafName, NodeInherits, Suffix, S, I
<1> QED BY <1>8, <1>9, <1>10

(* The name of a signal at a node is the one asked for there.              *)
LEMMA SignalNames ==
  ASSUME HierarchyInv, NEW request, NEW s \in Signal, NEW T, IsLoneTree(request, s, T),
         NEW R, R = Reduce(T), NEW top, IsLoneReduced(request, R, top), NEW n \in R,
         n.type # "leaf"
  PROVE  SignalName(R, n) = NameIn(request, n.of, s, TRUE)
<1>1. CASE n = top \/ n.type = "instance"
  BY <1>1, OwnSignalName
<1>2. CASE n # top /\ n.type # "instance"
  <2>1. /\ n.type = "module" /\ ~ IsRoot(R, n) /\ IsReduced(R, T, Climbs(request))
        /\ Parent(R, n) \in R /\ Parent(R, n).type = "instance" /\ Parent(R, n).of = n.of
    BY <1>2, LoneReducedNodes DEF NodePlace
  <2>2. SignalName(R, n) = SignalName(R, Parent(R, n))
    BY <2>1, SignalObjects
  <2>3. SignalName(R, Parent(R, n)) = NameIn(request, Parent(R, n).of, s, TRUE)
    BY <2>1, OwnSignalName
  <2> QED BY <2>1, <2>2, <2>3
<1> QED BY <1>1, <1>2

(* The objects a connection wants are those its request asks for. *)
LEMMA SignalsFit ==
  ASSUME HierarchyInv, NEW request, NEW s \in Signal, NEW T, IsLoneTree(request, s, T),
         NEW R, R = Reduce(T), NEW top, IsLoneReduced(request, R, top), NEW n \in R
  PROVE  Fits(request, s, TRUE, n, top, SignalAt(R, n, s))
<1> DEFINE o == SignalAt(R, n, s)
           p == Parent(R, n)
           W == IF n.type = "leaf" THEN AtLeaf(request, n.of) ELSE Within(request, n.of)
<1>1. /\ n \in T /\ IsReduced(R, T, Climbs(request))
      /\ n.type \in {"instance", "module", "leaf"} /\ n.of \in Name
      /\ n.type # "leaf" => EndsAt(request, n.type, n.of) = AtModule(request, n.of)
      /\ n.type = "leaf" => EndsAt(request, n.type, n.of) = AtLeaf(request, n.of)
      /\ IsRoot(R, n) <=> n = top
      /\ n # top => /\ p \in R
                    /\ n.type = "module" => p.type = "instance" /\ p.of = n.of
                    /\ n.type = "instance" => p.type = "module" /\ p.of = default_parent[n.of]
                    /\ n.type = "leaf" => p.type = "module" /\ p.of = instances[n.of].parent
  BY LoneReducedNodes DEF NodePlace
<1>2. top.type = "module" /\ top.of = Top(request)
  BY DEF IsLoneReduced, IsTopNode
<1>3. /\ o = Item(o.kind, n.of, SignalName(R, n), o.conn, o.dir, o.invert, s)
      /\ n.type # "module" => /\ o.kind = "pin" /\ o.dir = PortDir(n.dir) /\ o.invert = n.invert
                              /\ ~ IsRoot(R, n) => o.conn = SignalName(R, p)
      /\ n.type = "module" /\ IsRoot(R, n) => o.kind = "declaration" /\ o.conn = NoName /\ o.dir = "none"
      /\ n.type = "module" /\ ~ IsRoot(R, n) => o.kind = "port" /\ o.conn = NoName /\ o.dir = PortDir(n.dir)
  BY <1>1, SignalObjects
<1>4. n.type = "module" => o.invert = FALSE
  BY ModuleNotInverted
<1>5. PortDir(n.dir) = Direction(request, W)
  BY <1>1, NodeDirection
<1>6. n.invert = Inverted(EndsAt(request, n.type, n.of))
  BY <1>1, NodeInvert
<1>7. n.type # "leaf" => SignalName(R, n) = NameIn(request, n.of, s, TRUE)
  BY SignalNames
<1>8. n.type = "leaf" => SignalName(R, n) = LeafName(request, s, TRUE, n.of)
  BY OwnSignalName
<1>9. n # top /\ p.type # "leaf" => SignalName(R, p) = NameIn(request, p.of, s, TRUE)
  BY <1>1, SignalNames
<1> HIDE DEF o, p
<1>10. ASSUME n = top PROVE o = TopItem(request, s, TRUE)
  BY <1>1, <1>2, <1>3, <1>4, <1>7, <1>10 DEF TopItem
<1>11. ASSUME n.type = "module", n # top PROVE o = InnerItem(request, s, TRUE, n.of)
  BY <1>1, <1>3, <1>4, <1>5, <1>7, <1>11 DEF InnerItem
<1>12. \A S : (TRUE /\ Inverted(S)) = Inverted(S)
  BY DEF Inverted
<1>13. ASSUME n.type = "instance" PROVE o = WayItem(request, s, TRUE, n.of)
  <2>1. o.invert = Inverted(AtModule(request, n.of)) /\ o.dir = Direction(request, Within(request, n.of))
    BY <1>1, <1>3, <1>5, <1>6, <1>13
  <2>2. o.conn = NameIn(request, default_parent[n.of], s, TRUE)
    BY <1>1, <1>2, <1>3, <1>9, <1>13
  <2>3. o = Item("pin", n.of, NameIn(request, n.of, s, TRUE), o.conn, o.dir, o.invert, s)
    BY <1>3, <1>7, <1>13
  <2> QED BY <1>12, <2>1, <2>2, <2>3 DEF WayItem
<1>14. ASSUME n.type = "leaf" PROVE o = LeafItem(request, s, TRUE, n.of)
  <2>1. o.invert = Inverted(AtLeaf(request, n.of)) /\ o.dir = Direction(request, AtLeaf(request, n.of))
    BY <1>1, <1>3, <1>5, <1>6, <1>14
  <2>2. o.conn = NameIn(request, instances[n.of].parent, s, TRUE)
    BY <1>1, <1>2, <1>3, <1>9, <1>14
  <2>3. o = Item("pin", n.of, LeafName(request, s, TRUE, n.of), o.conn, o.dir, o.invert, s)
    BY <1>3, <1>8, <1>14
  <2> QED BY <1>12, <2>1, <2>2, <2>3 DEF LeafItem
<1> QED BY <1>10, <1>11, <1>13, <1>14 DEF Fits, o

-----------------------------------------------------------------------------
(* A request of which nothing is named in two ways leads to such a tree.   *)
LEMMA LoneTreeOf ==
  ASSUME HierarchyInv, NEW request, NEW s \in Signal, GoodRequest(request),
         TreeOf(s, request) # {}, NamedOnce(request)
  PROVE  \E T, top : /\ IsLoneTree(request, s, T) /\ TreeOf(s, request) = Reduce(T)
                     /\ IsLoneReduced(request, TreeOf(s, request), top)
<1> DEFINE T == Tree(s, Climbs(request))
<1>1. (\A e \in Ends(request) : HasClimb(e)) /\ TreeOf(s, request) = Reduce(T)
  BY TreeOfRequest DEF IsReduced
<1>2. T # {}
  BY <1>1 DEF Reduce
<1>3. IsLoneTree(request, s, T)
  BY <1>1, <1>2 DEF IsLoneTree
<1> HIDE DEF T
<1>4. PICK top \in T : IsLoneReduced(request, Reduce(T), top)
  BY <1>3, LoneReducedShape
<1> QED BY <1>1, <1>3, <1>4

(* What connect wants is what is asked for.                                *)
LEMMA WantedAsAsked ==
  ASSUME HierarchyInv, NEW request, NEW s \in Signal, GoodRequest(request),
         TreeOf(s, request) # {}, NamedOnce(request)
  PROVE  {w.object : w \in WantedBy(s, request)} = Asked(request, s, TRUE)
<1>1. PICK T, top : /\ IsLoneTree(request, s, T) /\ TreeOf(s, request) = Reduce(T)
                    /\ IsLoneReduced(request, TreeOf(s, request), top)
  BY LoneTreeOf
<1>2. PICK R : R = TreeOf(s, request)
  OBVIOUS
<1>3. IsLoneTree(request, s, T) /\ R = Reduce(T) /\ IsLoneReduced(request, R, top)
  BY <1>1, <1>2
<1>4. ASSUME NEW n \in R
      PROVE  n.type \in {"instance", "module", "leaf"} /\ Fits(request, s, TRUE, n, top, SignalAt(R, n, s))
  <2>1. NodePlace(request, R, T, top, n)
    BY <1>3, LoneReducedNodes
  <2>2. Fits(request, s, TRUE, n, top, SignalAt(R, n, s))
    BY <1>3, SignalsFit
  <2> QED BY <2>1, <2>2 DEF NodePlace
<1> DEFINE o == [n \in R |-> SignalAt(R, n, s)]
           W == WantedBy(s, request)
           O == {w.object : w \in W}
<1>5. W = {[node |-> n, object |-> o[n]] : n \in R}
  <2>1. Objects(R, s, TRUE) = {[node |-> n, object |-> SignalAt(R, n, s)] : n \in R}
    BY ObjectsOfSignal
  <2>2. Objects(R, s, TRUE) = W
    BY <1>2 DEF WantedBy
  <2>3. \A n \in R : o[n] = SignalAt(R, n, s)
    OBVIOUS
  <2> HIDE DEF o, W
  <2> QED BY <2>1, <2>2, <2>3
<1>6. \A n \in R : Fits(request, s, TRUE, n, top, o[n])
  BY <1>4
<1> HIDE DEF o, W
<1>7. /\ \A n \in R : \E w \in W : w.object = o[n]
      /\ \A w \in W : \E n \in R : w.object = o[n]
  <2>1. \A n \in R : [node |-> n, object |-> o[n]] \in W /\ [node |-> n, object |-> o[n]].object = o[n]
    BY <1>5
  <2>2. \A n \in R : \E w \in W : w.object = o[n]
    BY <2>1
  <2>3. \A w \in W : \E n \in R : w.object = o[n]
    BY <1>5
  <2> QED BY <2>2, <2>3
<1>8. O = {o[n] : n \in R}
  BY <1>7
<1> HIDE DEF O
<1>9. O = Asked(request, s, TRUE)
  BY <1>3, <1>4, <1>6, <1>8, AllFit
<1> QED BY <1>9 DEF O, W

(* A parameter keeps its local name, but a module has that of the          *)
(* adjustment above it.                                                    *)
LEMMA ParameterNames ==
  ASSUME HierarchyInv, NEW request, NEW s \in Signal, NEW T, IsLoneTree(request, s, T),
         NEW R, R = Reduce(T), NEW top, IsLoneReduced(request, R, top), NEW n \in R
  PROVE  /\ n.type # "module" \/ n = top => ParameterName(R, n) = n.name
         /\ n.type = "module" /\ n # top => ParameterName(R, n) = Parent(R, n).name
<1>1. NodePlace(request, R, T, top, n)
  BY LoneReducedNodes
<1>2. top.type = "module"
  BY DEF IsLoneReduced, IsTopNode
<1>3. ASSUME n.type # "module" \/ n = top PROVE ParameterName(R, n) = n.name
  <2>1. n.type # "module" \/ IsRoot(R, n)
    BY <1>1, <1>3 DEF NodePlace
  <2>2. ParameterName(R, n) = ParameterObject(n, NoName, IsRoot(R, n), NULL).name
    BY <2>1 DEF ParameterName, NameOf
  <2> QED BY <2>1, <2>2 DEF ParameterObject, Item
<1>4. ASSUME n.type = "module", n # top PROVE ParameterName(R, n) = Parent(R, n).name
  <2>1. ~ IsRoot(R, n) /\ Parent(R, n).type = "instance"
    BY <1>1, <1>4 DEF NodePlace
  <2>2. ParameterName(R, n) = ParameterObject(Parent(R, n), NoName, IsRoot(R, Parent(R, n)), NULL).name
    BY <1>4, <2>1 DEF ParameterName, NameOf
  <2> QED BY <2>1, <2>2 DEF ParameterObject, Item
<1> QED BY <1>3, <1>4

(* The local name of a parameter is the one asked for, ...                 *)
LEMMA OwnParameterName ==
  ASSUME HierarchyInv, NEW request, NEW s \in Signal, NEW T, IsLoneTree(request, s, T),
         NEW R, R = Reduce(T), NEW top, IsLoneReduced(request, R, top), NEW n \in R,
         n.type # "module" \/ n = top
  PROVE  /\ n.type = "leaf" => n.name = LeafName(request, s, FALSE, n.of)
         /\ n.type # "leaf" => n.name = NameIn(request, n.of, s, FALSE)
<1>1. NodePlace(request, R, T, top, n)
  BY LoneReducedNodes
<1>2. n.name = NameAt(EndsAt(request, n.type, n.of), NodeInherits(request, n, s), <<>>)
  BY NodeNameAt
<1>3. ASSUME n.type = "leaf" PROVE n.name = LeafName(request, s, FALSE, n.of)
  BY <1>1, <1>2, <1>3 DEF LeafName, NodeInherits, Suffix, NodePlace
<1>4. ASSUME n.type # "leaf" PROVE n.name = NameIn(request, n.of, s, FALSE)
  <2>1. NameIn(request, n.of, s, FALSE) = NameAt(AtModule(request, n.of), Inherited(request, n.of, s), <<>>)
    BY DEF NameIn, Suffix
  <2> QED BY <1>1, <1>2, <1>4, <2>1 DEF NodeInherits, NodePlace
<1> QED BY <1>3, <1>4

(* ... and so is the name in any module.                                   *)
LEMMA ParameterPlaces ==
  ASSUME HierarchyInv, NEW request, NEW s \in Signal, NEW T, IsLoneTree(request, s, T),
         NEW R, R = Reduce(T), NEW top, IsLoneReduced(request, R, top), NEW n \in R,
         n.type # "leaf"
  PROVE  ParameterName(R, n) = NameIn(request, n.of, s, FALSE)
<1>1. NodePlace(request, R, T, top, n)
  BY LoneReducedNodes
<1>2. CASE n.type # "module" \/ n = top
  <2>1. ParameterName(R, n) = n.name
    BY <1>2, ParameterNames
  <2>2. n.name = NameIn(request, n.of, s, FALSE)
    BY <1>2, OwnParameterName
  <2> QED BY <2>1, <2>2
<1>3. CASE n.type = "module" /\ n # top
  <2> DEFINE p == Parent(R, n)
  <2>1. p \in R /\ p.type = "instance" /\ p.of = n.of
    BY <1>1, <1>3 DEF NodePlace
  <2>2. ParameterName(R, n) = p.name
    BY <1>3, ParameterNames
  <2> HIDE DEF p
  <2>3. p.name = NameIn(request, p.of, s, FALSE)
    BY <2>1, OwnParameterName
  <2> QED BY <2>1, <2>2, <2>3
<1> QED BY <1>2, <1>3

(* Each node of a parameter's tree becomes the object of its place.        *)
LEMMA ParametersFit ==
  ASSUME HierarchyInv, NEW request, NEW s \in Signal, NEW T, IsLoneTree(request, s, T),
         NEW R, R = Reduce(T), NEW top, IsLoneReduced(request, R, top), NEW n \in R
  PROVE  Fits(request, s, FALSE, n, top, ParameterAt(R, n, s))
<1> DEFINE o == ParameterAt(R, n, s)
           p == Parent(R, n)
<1>0. NodePlace(request, R, T, top, n)
  BY LoneReducedNodes
<1>1. /\ n.type \in {"instance", "module", "leaf"}
      /\ IsRoot(R, n) <=> n = top
      /\ n # top => /\ p \in R
                    /\ n.type = "module" => p.type = "instance" /\ p.of = n.of
                    /\ n.type = "instance" => p.type = "module" /\ p.of = default_parent[n.of]
                    /\ n.type = "leaf" => p.type = "module" /\ p.of = instances[n.of].parent
  BY <1>0 DEF NodePlace
<1>2. top.type = "module" /\ top.of = Top(request)
  BY DEF IsLoneReduced, IsTopNode
<1>3. n.type # "module" \/ n = top =>
        /\ n.type = "leaf" => n.name = LeafName(request, s, FALSE, n.of)
        /\ n.type # "leaf" => n.name = NameIn(request, n.of, s, FALSE)
  BY OwnParameterName
<1>4. n # top => ParameterName(R, p) = NameIn(request, p.of, s, FALSE)
  <2> SUFFICES ASSUME n # top PROVE ParameterName(R, p) = NameIn(request, p.of, s, FALSE)
    OBVIOUS
  <2>1. p \in R /\ p.type # "leaf"
    BY <1>1
  <2> HIDE DEF p
  <2> QED BY <2>1, ParameterPlaces
<1>5. ASSUME n = top PROVE o = TopItem(request, s, FALSE)
  BY <1>1, <1>2, <1>3, <1>5 DEF TopItem, ParameterAt, ParameterObject
<1>6. ASSUME n.type = "module", n # top PROVE o = InnerItem(request, s, FALSE, n.of)
  <2>1. o = Item("parameter", n.of, ParameterName(R, p), NoName, "none", FALSE, s)
    BY <1>1, <1>6 DEF ParameterAt, ParameterObject
  <2> QED BY <1>1, <1>4, <1>6, <2>1 DEF InnerItem
<1>7. \A S : (FALSE /\ Inverted(S)) = FALSE
  OBVIOUS
<1>8. ASSUME n.type # "module" PROVE o = Item("adjustment", n.of, n.name, ParameterName(R, p), "none", FALSE, s)
  BY <1>1, <1>2, <1>8 DEF ParameterAt, ParameterObject
<1> HIDE DEF o, p
<1>9. ASSUME n.type = "instance" PROVE o = WayItem(request, s, FALSE, n.of)
  <2>1. n # top /\ n.name = NameIn(request, n.of, s, FALSE)
    BY <1>2, <1>3, <1>9
  <2>2. ParameterName(R, p) = NameIn(request, default_parent[n.of], s, FALSE)
    BY <1>1, <1>4, <1>9, <2>1
  <2> QED BY <1>7, <1>8, <1>9, <2>1, <2>2 DEF WayItem
<1>10. ASSUME n.type = "leaf" PROVE o = LeafItem(request, s, FALSE, n.of)
  <2>1. n # top /\ n.name = LeafName(request, s, FALSE, n.of)
    BY <1>2, <1>3, <1>10
  <2>2. ParameterName(R, p) = NameIn(request, instances[n.of].parent, s, FALSE)
    BY <1>1, <1>4, <1>10, <2>1
  <2> QED BY <1>7, <1>8, <1>10, <2>1, <2>2 DEF LeafItem
<1> QED BY <1>5, <1>6, <1>9, <1>10 DEF Fits, o

(* What parameter wants is what is asked for.                              *)
LEMMA ParametersAsAsked ==
  ASSUME HierarchyInv, NEW request, NEW s \in Signal, GoodRequest(request),
         TreeOf(s, request) # {}, NamedOnce(request)
  PROVE  {w.object : w \in ParametersWantedBy(s, request)} = Asked(request, s, FALSE)
<1>1. PICK T, top : /\ IsLoneTree(request, s, T) /\ TreeOf(s, request) = Reduce(T)
                    /\ IsLoneReduced(request, TreeOf(s, request), top)
  BY LoneTreeOf
<1>2. PICK R : R = TreeOf(s, request)
  OBVIOUS
<1>3. IsLoneTree(request, s, T) /\ R = Reduce(T) /\ IsLoneReduced(request, R, top)
  BY <1>1, <1>2
<1>4. ASSUME NEW n \in R
      PROVE  n.type \in {"instance", "module", "leaf"} /\ Fits(request, s, FALSE, n, top, ParameterAt(R, n, s))
  <2>1. NodePlace(request, R, T, top, n)
    BY <1>3, LoneReducedNodes
  <2>2. Fits(request, s, FALSE, n, top, ParameterAt(R, n, s))
    BY <1>3, ParametersFit
  <2> QED BY <2>1, <2>2 DEF NodePlace
<1> DEFINE o == [n \in R |-> ParameterAt(R, n, s)]
           W == ParametersWantedBy(s, request)
           O == {w.object : w \in W}
<1>5. W = {[node |-> n, object |-> o[n]] : n \in R}
  <2>1. Objects(R, s, FALSE) = {[node |-> n, object |-> ParameterAt(R, n, s)] : n \in R}
    BY ObjectsOfParameter
  <2>2. Objects(R, s, FALSE) = W
    BY <1>2 DEF ParametersWantedBy
  <2>3. \A n \in R : o[n] = ParameterAt(R, n, s)
    OBVIOUS
  <2> HIDE DEF o, W
  <2> QED BY <2>1, <2>2, <2>3
<1>6. \A n \in R : Fits(request, s, FALSE, n, top, o[n])
  BY <1>4
<1> HIDE DEF o, W
<1>7. /\ \A n \in R : \E w \in W : w.object = o[n]
      /\ \A w \in W : \E n \in R : w.object = o[n]
  <2>1. \A n \in R : [node |-> n, object |-> o[n]] \in W /\ [node |-> n, object |-> o[n]].object = o[n]
    BY <1>5
  <2>2. \A n \in R : \E w \in W : w.object = o[n]
    BY <2>1
  <2>3. \A w \in W : \E n \in R : w.object = o[n]
    BY <1>5
  <2> QED BY <2>2, <2>3
<1>8. O = {o[n] : n \in R}
  BY <1>7
<1> HIDE DEF O
<1>9. O = Asked(request, s, FALSE)
  BY <1>3, <1>4, <1>6, <1>8, AllFit
<1> QED BY <1>9 DEF O, W

-----------------------------------------------------------------------------
(* The hierarchy only gains modules, instances and placements. *)
Larger ==
  /\ modules \subseteq modules' /\ resource \subseteq resource'
  /\ modules \ resource \subseteq modules' \ resource'
  /\ \A i \in Name : instances[i] # NULL => instances'[i] = instances[i]
  /\ \A m \in Name : default_parent[m] # NULL => default_parent'[m] = default_parent[m]

(* No step but reset takes anything from the hierarchy.                    *)
LEMMA LargerSteps ==
  ASSUME HierarchyInv, HierarchyInv', Grow(Name) \/ UNCHANGED hierarchyVars
  PROVE  Larger
<1>1. CASE Grow(Name)
  BY <1>1, GrowFacts DEF Larger
<1>2. CASE UNCHANGED hierarchyVars
  BY <1>2 DEF Larger, hierarchyVars
<1> QED BY <1>1, <1>2

(* The same in the next state. *)
LEMMA AboveFactsAlways ==
  HierarchyTypeOK /\ Acyclic =>
    /\ \A m \in Name : m \in Above[m]
    /\ \A m \in Name : default_parent[m] # NULL => Above[m] = {m} \cup Above[default_parent[m]]
    /\ \A m \in Name : \A x \in Above[m] : x \in Name /\ Above[x] \subseteq Above[m]
    /\ \A m \in Name : \A x \in Above[m] : m \in Above[x] => x = m
BY AboveFacts, AboveOrder

(* The facts about Above, in the next state.                               *)
LEMMA AboveFactsNext ==
  (HierarchyTypeOK /\ Acyclic =>
    /\ \A m \in Name : m \in Above[m]
    /\ \A m \in Name : default_parent[m] # NULL => Above[m] = {m} \cup Above[default_parent[m]]
    /\ \A m \in Name : \A x \in Above[m] : x \in Name /\ Above[x] \subseteq Above[m]
    /\ \A m \in Name : \A x \in Above[m] : m \in Above[x] => x = m)'
BY AboveFactsAlways, PTL

(* Whatever is added to the hierarchy, the climbs only get longer at their *)
(* upper ends.                                                             *)
LEMMA AboveGrows ==
  ASSUME HierarchyInv, HierarchyInv', Larger
  PROVE  /\ \A m \in Name : Above[m] \subseteq Above'[m]
         /\ \A m \in Name : \A a \in Above[m] : Above'[m] = Above[m] \cup Above'[a]
<1> DEFINE Grown(m) == \A a \in Above[m] : Above'[m] = Above[m] \cup Above'[a]
           S == {m \in Name : Grown(m)}
<1>0. HierarchyTypeOK /\ Acyclic
  BY DEF HierarchyInv
<1>1. /\ \A m \in Name : m \in Above[m]
      /\ \A m \in Name : default_parent[m] = NULL => Above[m] = {m}
      /\ \A m \in Name : default_parent[m] # NULL =>
           default_parent[m] \in Name /\ Above[m] = {m} \cup Above[default_parent[m]]
  BY <1>0, AboveFacts
<1>2. HierarchyTypeOK' /\ Acyclic'
  BY DEF HierarchyInv
<1>3. /\ \A m \in Name : m \in Above'[m]
      /\ \A m \in Name : default_parent'[m] # NULL => Above'[m] = {m} \cup Above'[default_parent'[m]]
  BY <1>2, AboveFactsNext
<1>4. \A m \in Name : default_parent[m] # NULL => default_parent'[m] = default_parent[m]
  BY DEF Larger
<1>5. ASSUME NEW m \in Name, default_parent[m] = NULL \/ default_parent[m] \in S
      PROVE  m \in S
  <2>1. CASE default_parent[m] = NULL
    BY <1>1, <1>3, <2>1
  <2>2. CASE default_parent[m] # NULL
    <3> DEFINE d == default_parent[m]
    <3>1. d \in Name /\ Above[m] = {m} \cup Above[d] /\ Above'[m] = {m} \cup Above'[d] /\ d \in Above[d]
      BY <1>1, <1>3, <1>4, <2>2
    <3>2. \A a \in Above[d] : Above'[d] = Above[d] \cup Above'[a]
      BY <1>5, <2>2
    <3> HIDE DEF d
    <3>3. ASSUME NEW a \in Above[m] PROVE Above'[m] = Above[m] \cup Above'[a]
      <4>1. CASE a = m
        <5>1. Above'[d] = Above[d] \cup Above'[d]
          BY <3>1, <3>2
        <5> QED BY <3>1, <4>1, <5>1
      <4>2. CASE a \in Above[d]
        <5>1. Above'[d] = Above[d] \cup Above'[a]
          BY <3>2, <4>2
        <5> QED BY <3>1, <5>1
      <4> QED BY <3>1, <4>1, <4>2
    <3> QED BY <3>3
  <2> QED BY <2>1, <2>2
<1>6. Name \subseteq S
  <2> HIDE DEF S
  <2> QED BY <1>0, <1>5, DownTheHierarchy
<1>7. \A m \in Name : Grown(m)
  BY <1>6
<1>8. \A m \in Name : Above[m] \subseteq Above'[m]
  <2> SUFFICES ASSUME NEW m \in Name PROVE Above[m] \subseteq Above'[m]
    OBVIOUS
  <2>1. Above'[m] = Above[m] \cup Above'[m]
    BY <1>1, <1>7
  <2> QED BY <2>1
<1> QED BY <1>7, <1>8

(* The endpoints of a request stay where they are. *)
EndsStay(request) ==
  \A e \in Ends(request) : /\ Host(e)' = Host(e) /\ Host(e) \in Name
                           /\ OfResource(e)' <=> OfResource(e)
                           /\ OfResource(e) => /\ e.of \in Name /\ instances'[e.of] = instances[e.of]
                                               /\ instances[e.of].parent = Host(e)

(* Endpoints keep their hosts, their kind and the modules above them.      *)
LEMMA EndsStayPut ==
  ASSUME HierarchyInv, HierarchyInv', Larger, NEW request, GoodRequest(request),
         \A e \in Ends(request) : HasClimb(e)
  PROVE  /\ EndsStay(request)
         /\ GoodRequest(request)' /\ \A e \in Ends(request) : HasClimb(e)'
<1>1. /\ modules \subseteq modules' /\ resource \subseteq resource'
      /\ modules \ resource \subseteq modules' \ resource'
      /\ \A i \in Name : instances[i] # NULL => instances'[i] = instances[i]
  BY DEF Larger
<1>2. ASSUME NEW e \in Ends(request)
      PROVE  /\ Generated(e)' = Generated(e) /\ Generated(e) \in modules /\ Known(e)'
             /\ e.type = "instance" => e.of \in Name /\ instances[e.of] # NULL /\ instances'[e.of] = instances[e.of]
  <2>1. Known(e) /\ e \in Endpoint
    BY DEF GoodRequest, IsRequest
  <2>2. e.type \in {"module", "instance"} /\ e.of \in Name
    BY <2>1 DEF Endpoint
  <2>3. CASE e.type = "module"
    BY <1>1, <2>1, <2>3 DEF Generated, Known
  <2>4. CASE e.type = "instance"
    <3>1. instances[e.of] # NULL /\ instances'[e.of] = instances[e.of]
      BY <1>1, <2>1, <2>2, <2>4 DEF Known
    <3>2. instances[e.of].module \in modules
      BY <2>2, <3>1 DEF HierarchyInv, TablesAgree, EntriesLive
    <3> QED BY <2>2, <2>4, <3>1, <3>2 DEF Generated, Known
  <2> QED BY <2>2, <2>3, <2>4
<1>3. ASSUME NEW e \in Ends(request)
      PROVE  /\ Host(e)' = Host(e) /\ Host(e) \in Name
             /\ OfResource(e)' <=> OfResource(e)
             /\ OfResource(e) => /\ e.of \in Name /\ instances'[e.of] = instances[e.of]
                                 /\ instances[e.of].parent = Host(e)
             /\ HasClimb(e)'
  <2>1. OfResource(e)' <=> OfResource(e)
    BY <1>1, <1>2 DEF OfResource
  <2>2. OfResource(e) => e.type = "instance"
    BY DEF HasClimb
  <2>3. Host(e)' = Host(e)
    BY <1>2, <2>1, <2>2 DEF Host
  <2>4. Known(e) /\ e \in Endpoint
    BY DEF GoodRequest, IsRequest
  <2>5. Host(e) \in Name /\ (OfResource(e) => instances[e.of].parent = Host(e))
    BY <2>4, HostIsModule
  <2> QED BY <1>2, <2>1, <2>2, <2>3, <2>5 DEF HasClimb
<1>4. GoodRequest(request)'
  BY <1>2 DEF GoodRequest, IsRequest
<1> QED BY <1>3, <1>4 DEF EndsStay

-----------------------------------------------------------------------------
(* Which module is the top of a request, ...                               *)
LEMMA TopIs ==
  \A request : \A t \in Name :
    HierarchyTypeOK /\ Acyclic /\ HostsPlaced(request)
    /\ (\A x \in Name : x \in Above[t] <=> \A e \in Ends(request) : x \in Above[Host(e)])
    => Top(request) = t /\ Joined(request)
<1> SUFFICES ASSUME NEW request, NEW t \in Name, HierarchyTypeOK, Acyclic, HostsPlaced(request),
                    \A x \in Name : x \in Above[t] <=> \A e \in Ends(request) : x \in Above[Host(e)]
             PROVE  Top(request) = t /\ Joined(request)
  OBVIOUS
<1>1. t \in Above[t]
  BY AboveFacts
<1>2. Joined(request)
  BY <1>1 DEF Joined
<1>3. /\ Top(request) \in Name
      /\ \A x \in Name : x \in Above[Top(request)] <=> \A e \in Ends(request) : x \in Above[Host(e)]
  BY <1>2, TopFacts
<1> DEFINE u == Top(request)
<1> HIDE DEF u
<1>4. u \in Name /\ u \in Above[u] /\ \A x \in Name : x \in Above[u] <=> x \in Above[t]
  BY <1>3, AboveFacts DEF u
<1>5. u \in Above[t] /\ t \in Above[u]
  BY <1>1, <1>4
<1> QED BY <1>2, <1>5, AboveOrder DEF u

(* ... and in the next state.                                              *)
LEMMA TopIsNext ==
  (\A request : \A t \in Name :
    HierarchyTypeOK /\ Acyclic /\ HostsPlaced(request)
    /\ (\A x \in Name : x \in Above[t] <=> \A e \in Ends(request) : x \in Above[Host(e)])
    => Top(request) = t /\ Joined(request))'
BY TopIs, PTL

(* A request whose endpoints are joined, in a step that adds to the        *)
(* hierarchy.                                                              *)
Grows(request) ==
  /\ HierarchyInv /\ HierarchyInv' /\ Larger /\ GoodRequest(request)
  /\ \A e \in Ends(request) : HasClimb(e)
  /\ Joined(request)

(* The modules around the innermost one shared, and those the signal       *)
(* enters, of the one hierarchy and of the other.                          *)
LEMMA TopStays ==
  ASSUME NEW request, Grows(request)
  PROVE  /\ EndsStay(request) /\ Joined(request)' /\ Top(request)' = Top(request)
         /\ Top(request) \in Name
         /\ \A x \in Name : x \in Above[Top(request)] <=> \A e \in Ends(request) : x \in Above[Host(e)]
         /\ \A e \in Ends(request) : /\ Host(e) \in Name /\ Top(request) \in Above[Host(e)]
                                     /\ Above'[Host(e)] = Above[Host(e)] \cup Above'[Top(request)]
<1> DEFINE t == Top(request)
<1>0. HierarchyTypeOK /\ Acyclic /\ HierarchyTypeOK' /\ Acyclic'
  BY DEF Grows, HierarchyInv
<1>1. EndsStay(request)
  BY EndsStayPut DEF Grows
<1>2. Ends(request) # {}
  BY DEF Grows, GoodRequest, IsRequest, Ends
<1>3. HostsPlaced(request)
  BY <1>1, <1>2 DEF HostsPlaced, EndsStay
<1>4. t \in Name /\ \A x \in Name : x \in Above[t] <=> \A e \in Ends(request) : x \in Above[Host(e)]
  BY <1>0, <1>3, TopFacts DEF Grows
<1>5. t \in Above[t]
  BY <1>0, <1>4, AboveFacts
<1> HIDE DEF t
<1>6. \A e \in Ends(request) : Host(e) \in Name /\ Host(e)' = Host(e) /\ t \in Above[Host(e)]
  BY <1>1, <1>4, <1>5 DEF EndsStay
<1>7. \A e \in Ends(request) : Above'[Host(e)] = Above[Host(e)] \cup Above'[t]
  BY <1>6, AboveGrows DEF Grows
<1>8. Ends(request)' = Ends(request)
  BY DEF Ends, EndAt, Numbers
<1>9. ASSUME NEW x \in Name PROVE x \in Above'[t] <=> \A e \in Ends(request) : x \in Above'[Host(e)]
  <2>1. x \in Above[t] => x \in Above'[t]
    BY <1>4, AboveGrows DEF Grows
  <2> QED BY <1>2, <1>4, <1>7, <2>1
<1>10. HostsPlaced(request)'
  BY <1>2, <1>6, <1>8 DEF HostsPlaced
<1>11. \A x \in Name : x \in Above'[t] <=> \A e \in Ends(request)' : x \in Above'[Host(e)']
  BY <1>6, <1>8, <1>9
<1>12. PICK u \in Name : u = t
  BY <1>4
<1>13. Top(request)' = u /\ Joined(request)'
  <2>1. \A x \in Name : x \in Above'[u] <=> \A e \in Ends(request)' : x \in Above'[Host(e)']
    BY <1>11, <1>12
  <2> QED BY <1>0, <1>10, <2>1, TopIsNext
<1> QED BY <1>1, <1>4, <1>6, <1>7, <1>12, <1>13 DEF t

-----------------------------------------------------------------------------
(* The modules where the names, directions and inversions are looked up. *)
Reached(request) == Crossed(request) \cup {Top(request)}

(* The modules a signal enters are below its top, and keep their parents.  *)
LEMMA CrossedFacts ==
  ASSUME NEW request, Grows(request)
  PROVE  LET t == Top(request)
         IN  /\ \A m \in Name : m \in Crossed(request) <=>
                  m \notin Above[t] /\ \E e \in Ends(request) : m \in Above[Host(e)]
             /\ Crossed(request) \subseteq Name
             /\ \A m \in Crossed(request) : /\ t \in Above[m] /\ m # t
                                            /\ default_parent[m] \in Reached(request)
                                            /\ default_parent'[m] = default_parent[m]
             /\ \A e \in Ends(request) : Host(e) \in Reached(request)
<1> DEFINE t == Top(request)
<1>0. HierarchyTypeOK /\ Acyclic
  BY DEF Grows, HierarchyInv
<1>1. /\ t \in Name
      /\ \A e \in Ends(request) : Host(e) \in Name /\ t \in Above[Host(e)]
  BY TopStays
<1> HIDE DEF t
<1>2. \A m : m \in Crossed(request) <=> m \notin Above[t] /\ \E e \in Ends(request) : m \in Above[Host(e)]
  BY DEF Crossed, t
<1>3. t \in Above[t]
  BY <1>0, <1>1, AboveFacts
<1>4. ASSUME NEW e \in Ends(request), NEW m \in Above[Host(e)]
      PROVE  m \in Name /\ (m \in Crossed(request) \/ m \in Above[t])
             /\ (t \in Above[m] => m \in Crossed(request) \cup {t})
  <2>1. m \in Name
    BY <1>0, <1>1, AboveOrder
  <2>2. m \in Above[t] /\ t \in Above[m] => m = t
    BY <1>0, <1>1, AboveOrder
  <2> QED BY <1>2, <2>1, <2>2
<1>5. ASSUME NEW m \in Crossed(request)
      PROVE  /\ m \in Name /\ t \in Above[m] /\ m # t
             /\ default_parent[m] \in Crossed(request) \cup {t}
             /\ default_parent'[m] = default_parent[m]
  <2>1. PICK e \in Ends(request) : m \in Above[Host(e)] /\ m \notin Above[t]
    BY <1>2
  <2>2. m \in Name /\ m # t /\ t \in Above[m]
    BY <1>0, <1>1, <1>3, <1>4, <2>1, AboveOrder
  <2>3. default_parent[m] \in Name /\ Above[m] = {m} \cup Above[default_parent[m]]
    BY <1>0, <2>2, AboveFacts
  <2>4. default_parent[m] \in Above[m] /\ t \in Above[default_parent[m]]
    BY <1>0, <2>2, <2>3, AboveFacts
  <2>5. default_parent[m] \in Above[Host(e)]
    BY <1>0, <1>1, <2>1, <2>4, AboveOrder
  <2>6. default_parent'[m] = default_parent[m]
    BY <2>2, <2>3, NameAssumption DEF Grows, Larger
  <2> QED BY <1>4, <2>2, <2>4, <2>5, <2>6
<1>6. \A e \in Ends(request) : Host(e) \in Crossed(request) \cup {t}
  BY <1>0, <1>1, <1>4, AboveFacts
<1> QED BY <1>2, <1>5, <1>6 DEF Reached, t

(* Nothing changes at and below the innermost module the endpoints share. *)
LEMMA PlacesStay ==
  ASSUME NEW request, Grows(request)
  PROVE  /\ Crossed(request)' = Crossed(request) /\ Leaves(request)' = Leaves(request)
         /\ \A m \in Name : AtModule(request, m)' = AtModule(request, m)
         /\ \A i \in Name : AtLeaf(request, i)' = AtLeaf(request, i)
         /\ \A m \in Crossed(request) : Within(request, m)' = Within(request, m)
<1> DEFINE t == Top(request)
<1>0. HierarchyTypeOK /\ Acyclic /\ HierarchyTypeOK' /\ Acyclic'
  BY DEF Grows, HierarchyInv
<1>1. /\ t \in Name /\ Top(request)' = t
      /\ \A e \in Ends(request) : /\ Host(e) \in Name /\ t \in Above[Host(e)]
                                  /\ Above'[Host(e)] = Above[Host(e)] \cup Above'[t]
  BY TopStays
<1>2. \A e \in Ends(request) : Host(e)' = Host(e) /\ (OfResource(e)' <=> OfResource(e))
  BY TopStays DEF EndsStay
<1>3. Ends(request)' = Ends(request)
  BY DEF Ends, EndAt, Numbers
<1>4. \A m \in Crossed(request) : m \in Name /\ t \in Above[m] /\ m # t
  BY CrossedFacts
<1> HIDE DEF t
<1>5. Above[t] \subseteq Above'[t] /\ \A m \in Crossed(request) : m \notin Above'[t]
  <2>1. \A m \in Crossed(request) : t \in Above'[m]
    BY <1>4, AboveGrows DEF Grows
  <2> QED BY <1>0, <1>1, <1>4, <2>1, AboveGrows, AboveFactsNext DEF Grows
<1>6. Crossed(request)' = Crossed(request)
  <2>1. Crossed(request) = (UNION {Above[Host(e)] : e \in Ends(request)}) \ Above[t]
    BY DEF Crossed, t
  <2>2. Crossed(request)' = (UNION {Above'[Host(e)] : e \in Ends(request)}) \ Above'[t]
    <3>1. Crossed(request)' = (UNION {Above'[Host(e)'] : e \in Ends(request)'}) \ Above'[Top(request)']
      BY DEF Crossed
    <3> QED BY <1>1, <1>2, <1>3, <3>1
  <2>3. ASSUME NEW m \in Crossed(request) PROVE m \in Crossed(request)'
    BY <1>1, <1>5, <2>1, <2>2, <2>3
  <2>4. ASSUME NEW m \in Crossed(request)' PROVE m \in Crossed(request)
    BY <1>1, <1>5, <2>1, <2>2, <2>4
  <2> QED BY <2>3, <2>4
<1>7. Leaves(request)' = Leaves(request)
  BY <1>2, <1>3 DEF Leaves
<1>8. \A m \in Name : AtModule(request, m)' = AtModule(request, m)
  BY <1>2, <1>3 DEF AtModule
<1>9. \A i \in Name : AtLeaf(request, i)' = AtLeaf(request, i)
  BY <1>2, <1>3 DEF AtLeaf
<1>10. ASSUME NEW m \in Crossed(request) PROVE Within(request, m)' = Within(request, m)
  <2>1. \A e \in Ends(request) : m \in Above'[Host(e)] <=> m \in Above[Host(e)]
    BY <1>1, <1>5
  <2>2. Within(request, m)' = {e \in Ends(request) : m \in Above'[Host(e)]}
    BY <1>2, <1>3 DEF Within
  <2> QED BY <2>1, <2>2 DEF Within
<1> QED BY <1>6, <1>7, <1>8, <1>9, <1>10

-----------------------------------------------------------------------------
(* InnerNamer, in a form that holds of any state, ...                      *)
LEMMA InnerNamerAlways ==
  \A request, s : \A m \in Name : HierarchyTypeOK /\ Acyclic =>
    /\ Namers(request, m) = {} => HandedDown(request, m, s) = <<s>>
    /\ Namers(request, m) # {} => \E x \in Namers(request, m) : Namers(request, m) \subseteq Above[x]
    /\ \A x \in Namers(request, m) : Namers(request, m) \subseteq Above[x] =>
         \A n \in NamesAt(request, x) : Lone(NamesAt(request, x)) =>
           HandedDown(request, m, s) = HandsDownName(n)
<1> SUFFICES ASSUME NEW request, NEW s, NEW m \in Name, HierarchyTypeOK, Acyclic
             PROVE  /\ Namers(request, m) = {} => HandedDown(request, m, s) = <<s>>
                    /\ Namers(request, m) # {} => \E x \in Namers(request, m) : Namers(request, m) \subseteq Above[x]
                    /\ \A x \in Namers(request, m) : Namers(request, m) \subseteq Above[x] =>
                         \A n \in NamesAt(request, x) : Lone(NamesAt(request, x)) =>
                           HandedDown(request, m, s) = HandsDownName(n)
  OBVIOUS
<1> QED BY InnerNamer

(* ... and of the next.                                                    *)
LEMMA InnerNamerNext ==
  (\A request, s : \A m \in Name : HierarchyTypeOK /\ Acyclic =>
    /\ Namers(request, m) = {} => HandedDown(request, m, s) = <<s>>
    /\ Namers(request, m) # {} => \E x \in Namers(request, m) : Namers(request, m) \subseteq Above[x]
    /\ \A x \in Namers(request, m) : Namers(request, m) \subseteq Above[x] =>
         \A n \in NamesAt(request, x) : Lone(NamesAt(request, x)) =>
           HandedDown(request, m, s) = HandsDownName(n))'
BY InnerNamerAlways, PTL

(* The modules a signal reaches are below its top.                         *)
LEMMA ReachedFacts ==
  ASSUME NEW request, Grows(request), NEW m \in Reached(request)
  PROVE  m \in Name /\ Top(request) \in Above[m]
<1>1. Top(request) \in Name /\ HierarchyTypeOK /\ Acyclic
  BY TopStays DEF Grows, HierarchyInv
<1> QED BY <1>1, CrossedFacts, AboveFacts DEF Reached

(* The modules that name the signal at and above a module stay the same. *)
LEMMA NamersStay ==
  ASSUME NEW request, Grows(request), NEW m \in Reached(request)
  PROVE  /\ \A x \in Name : NamesAt(request, x)' = NamesAt(request, x)
         /\ Namers(request, m)' = Namers(request, m)
<1> DEFINE t == Top(request)
<1>0. HierarchyTypeOK /\ Acyclic /\ HierarchyTypeOK' /\ Acyclic'
  BY DEF Grows, HierarchyInv
<1>1. m \in Name /\ t \in Above[m] /\ t \in Name
  BY ReachedFacts, TopStays
<1>2. \A x \in Name : NamesAt(request, x)' = NamesAt(request, x)
  BY PlacesStay DEF NamesAt, Names
<1>3. \A e \in Ends(request) : t \in Above[Host(e)]
  BY TopStays
<1> HIDE DEF t
<1>4. Above'[m] = Above[m] \cup Above'[t] /\ Above[t] \subseteq Above'[t]
  BY <1>1, AboveGrows DEF Grows
<1>5. ASSUME NEW x \in Above'[t], NamesAt(request, x) # {} PROVE x = t
  <2>1. x \in Name
    BY <1>0, <1>1, AboveFactsNext
  <2>2. PICK e \in AtModule(request, x) : TRUE
    BY <1>5 DEF NamesAt, Names
  <2>3. t \in Above[x]
    BY <1>3, <2>2 DEF AtModule
  <2>4. t \in Above'[x]
    BY <2>1, <2>3, AboveGrows DEF Grows
  <2> QED BY <1>0, <1>1, <2>4, AboveFactsNext
<1>6. \A x \in Above'[m] : x \in Name
  BY <1>0, <1>1, AboveFactsNext
<1>7. Namers(request, m)' = {x \in Above'[m] : NamesAt(request, x)' # {}}
  BY DEF Namers
<1>8. {x \in Above'[m] : NamesAt(request, x)' # {}} = {x \in Above[m] : NamesAt(request, x) # {}}
  BY <1>1, <1>2, <1>4, <1>5, <1>6
<1> QED BY <1>2, <1>7, <1>8 DEF Namers

(* Growth of the hierarchy changes no name that is handed down, ...        *)
LEMMA HandedDownStays ==
  ASSUME NEW request, Grows(request), NamedOnce(request), NEW m \in Reached(request), NEW s
  PROVE  HandedDown(request, m, s)' = HandedDown(request, m, s)
<1> DEFINE N == Namers(request, m)
<1>0. HierarchyTypeOK /\ Acyclic /\ HierarchyTypeOK' /\ Acyclic'
  BY DEF Grows, HierarchyInv
<1>1. m \in Name
  BY ReachedFacts
<1>2. /\ \A x \in Name : NamesAt(request, x)' = NamesAt(request, x)
      /\ N' = N
  BY NamersStay
<1>3. /\ N = {} => HandedDown(request, m, s) = <<s>>
      /\ N # {} => \E x \in N : N \subseteq Above[x]
      /\ \A x \in N : N \subseteq Above[x] =>
           \A n \in NamesAt(request, x) : Lone(NamesAt(request, x)) =>
             HandedDown(request, m, s) = HandsDownName(n)
  BY <1>0, <1>1, InnerNamer
<1>4. /\ N' = {} => HandedDown(request, m, s)' = <<s>>
      /\ \A x \in N' : N' \subseteq Above'[x] =>
           \A n \in NamesAt(request, x)' : Lone(NamesAt(request, x)') =>
             HandedDown(request, m, s)' = HandsDownName(n)
  BY <1>0, <1>1, InnerNamerNext DEF Lone, HandsDownName
<1>5. \A x \in N : x \in Name /\ NamesAt(request, x) # {} /\ Lone(NamesAt(request, x))
  <2>1. \A x \in N : x \in Name /\ NamesAt(request, x) # {}
    BY <1>0, <1>1, AboveOrder DEF Namers
  <2>2. \A x \in Name : Lone(NamesAt(request, x))
    BY NamedOnceLone DEF Grows, GoodRequest
  <2> QED BY <2>1, <2>2
<1> HIDE DEF N
<1>6. CASE N = {}
  BY <1>2, <1>3, <1>4, <1>6
<1>7. CASE N # {}
  <2>1. PICK x \in N : N \subseteq Above[x]
    BY <1>3, <1>7
  <2>2. PICK n \in NamesAt(request, x) : TRUE
    BY <1>5, <2>1
  <2>3. HandedDown(request, m, s) = HandsDownName(n)
    BY <1>3, <1>5, <2>1, <2>2
  <2>4. N \subseteq Above'[x] /\ x \in Name
    BY <1>5, <2>1, AboveGrows DEF Grows
  <2>5. NamesAt(request, x)' = NamesAt(request, x) /\ x \in N' /\ N' \subseteq Above'[x]
    BY <1>2, <2>1, <2>4
  <2>6. HandedDown(request, m, s)' = HandsDownName(n)
    BY <1>4, <1>5, <2>1, <2>2, <2>5
  <2> QED BY <2>3, <2>6
<1> QED BY <1>6, <1>7

-----------------------------------------------------------------------------
(* ... no name in a module the signal reaches, ...                         *)
LEMMA NameInStays ==
  ASSUME NEW request, Grows(request), NamedOnce(request), NEW m \in Reached(request), NEW s, NEW isSignal
  PROVE  NameIn(request, m, s, isSignal)' = NameIn(request, m, s, isSignal)
<1> DEFINE t == Top(request)
<1>1. m \in Name /\ (m \in Crossed(request) \/ m = t)
  BY ReachedFacts DEF Reached
<1>2. t' = t
  BY TopStays
<1>3. AtModule(request, m)' = AtModule(request, m)
  BY <1>1, PlacesStay
<1>4. m # t => /\ default_parent'[m] = default_parent[m] /\ default_parent[m] \in Reached(request)
               /\ Within(request, m)' = Within(request, m)
  BY <1>1, CrossedFacts, PlacesStay
<1>5. Inherited(request, m, s)' = Inherited(request, m, s)
  <2>1. CASE m = t
    BY <1>2, <2>1 DEF Inherited
  <2>2. CASE m # t
    <3> DEFINE d == default_parent[m]
    <3>1. d \in Reached(request) /\ d' = d
      BY <1>4, <2>2
    <3>2. PICK p \in Reached(request) : p = d /\ p = d'
      BY <3>1
    <3>3. HandedDown(request, p, s)' = HandedDown(request, p, s)
      BY HandedDownStays
    <3> QED BY <1>2, <2>2, <3>2, <3>3 DEF Inherited
  <2> QED BY <2>1, <2>2
<1> HIDE DEF t
<1>6. CASE m = t
  <2>1. NameIn(request, m, s, isSignal) =
          NameAt(AtModule(request, m), Inherited(request, m, s), IF isSignal THEN <<"s">> ELSE <<>>)
    BY <1>6 DEF NameIn, t
  <2>2. NameIn(request, m, s, isSignal)' =
          NameAt(AtModule(request, m)', Inherited(request, m, s)', IF isSignal THEN <<"s">> ELSE <<>>)
    BY <1>2, <1>6 DEF NameIn, NameAt, Names, t
  <2> QED BY <1>3, <1>5, <2>1, <2>2
<1>7. CASE m # t
  <2>1. NameIn(request, m, s, isSignal) =
          NameAt(AtModule(request, m), Inherited(request, m, s),
                 Suffix(isSignal, Direction(request, Within(request, m))))
    BY <1>7 DEF NameIn, t
  <2>2. NameIn(request, m, s, isSignal)' =
          NameAt(AtModule(request, m)', Inherited(request, m, s)',
                 Suffix(isSignal, Direction(request, Within(request, m)')))
    BY <1>2, <1>7 DEF NameIn, NameAt, Names, Suffix, Direction, t
  <2> QED BY <1>3, <1>4, <1>5, <1>7, <2>1, <2>2
<1> QED BY <1>6, <1>7

(* ... no place of an instance of a resource module, ...                   *)
LEMMA LeafPlaces ==
  ASSUME NEW request, Grows(request), NEW i \in Leaves(request)
  PROVE  /\ i \in Name /\ instances'[i] = instances[i] /\ instances[i].parent \in Reached(request)
         /\ AtLeaf(request, i)' = AtLeaf(request, i)
<1>1. PICK e \in Ends(request) : OfResource(e) /\ e.of = i
  BY DEF Leaves
<1>2. i \in Name /\ instances'[i] = instances[i] /\ instances[i].parent = Host(e)
  BY <1>1, TopStays DEF EndsStay
<1> QED BY <1>2, CrossedFacts, PlacesStay

(* ... and so no object asked for on the way, ...                          *)
LEMMA WayItemStays ==
  ASSUME NEW request, Grows(request), NamedOnce(request), NEW s, NEW isSignal, NEW m \in Crossed(request)
  PROVE  /\ WayItem(request, s, isSignal, m)' = WayItem(request, s, isSignal, m)
         /\ InnerItem(request, s, isSignal, m)' = InnerItem(request, s, isSignal, m)
<1>1. /\ m \in Name /\ m \in Reached(request)
      /\ default_parent[m] \in Reached(request) /\ default_parent'[m] = default_parent[m]
      /\ Within(request, m)' = Within(request, m) /\ AtModule(request, m)' = AtModule(request, m)
  BY CrossedFacts, PlacesStay DEF Reached
<1>2. NameIn(request, m, s, isSignal)' = NameIn(request, m, s, isSignal)
  BY <1>1, NameInStays
<1>3. NameIn(request, default_parent[m], s, isSignal)' = NameIn(request, default_parent[m], s, isSignal)
  <2>1. PICK p \in Reached(request) : p = default_parent[m] /\ p = default_parent'[m]
    BY <1>1
  <2>2. NameIn(request, p, s, isSignal)' = NameIn(request, p, s, isSignal)
    BY NameInStays
  <2> QED BY <2>1, <2>2 DEF NameIn, Inherited
<1>4. Direction(request, Within(request, m))' = Direction(request, Within(request, m))
  BY <1>1 DEF Direction
<1>5. Inverted(AtModule(request, m))' = Inverted(AtModule(request, m))
  BY <1>1 DEF Inverted
<1> QED BY <1>2, <1>3, <1>4, <1>5 DEF WayItem, InnerItem, Item

(* ... nor at an instance of a resource module.                            *)
LEMMA LeafItemStays ==
  ASSUME NEW request, Grows(request), NamedOnce(request), NEW s, NEW isSignal, NEW i \in Leaves(request)
  PROVE  LeafItem(request, s, isSignal, i)' = LeafItem(request, s, isSignal, i)
<1>1. /\ i \in Name /\ instances'[i] = instances[i]
      /\ AtLeaf(request, i)' = AtLeaf(request, i)
  BY LeafPlaces
<1>2. PICK p \in Reached(request) : p = instances[i].parent /\ p = instances'[i].parent
  BY LeafPlaces
<1>3. NameIn(request, p, s, isSignal)' = NameIn(request, p, s, isSignal)
  BY NameInStays
<1>4. HandedDown(request, p, s)' = HandedDown(request, p, s)
  BY HandedDownStays
<1>5. Direction(request, AtLeaf(request, i))' = Direction(request, AtLeaf(request, i))
  BY <1>1 DEF Direction
<1>6. Inverted(AtLeaf(request, i))' = Inverted(AtLeaf(request, i))
  BY <1>1 DEF Inverted
<1>7. NameIn(request, instances[i].parent, s, isSignal)' = NameIn(request, instances[i].parent, s, isSignal)
  BY <1>2, <1>3 DEF NameIn, Inherited
<1>8. HandedDown(request, instances[i].parent, s)' = HandedDown(request, instances[i].parent, s)
  BY <1>2, <1>4 DEF HandedDown
<1>9. LeafName(request, s, isSignal, i)' = LeafName(request, s, isSignal, i)
  <2>1. LeafName(request, s, isSignal, i)' =
          NameAt(AtLeaf(request, i)', HandedDown(request, instances[i].parent, s)',
                 Suffix(isSignal, Direction(request, AtLeaf(request, i))'))
    BY DEF LeafName, NameAt, Names, Suffix
  <2> QED BY <1>1, <1>5, <1>8, <2>1 DEF LeafName
<1> QED BY <1>5, <1>6, <1>7, <1>9 DEF LeafItem, Item

(* AskedParts in the next state.                                           *)
LEMMA AskedPartsNext ==
  ASSUME NEW request, NEW s, NEW isSignal
  PROVE  (Asked(request, s, isSignal) =
           {TopItem(request, s, isSignal)}
           \cup {WayItem(request, s, isSignal, m) : m \in Crossed(request)}
           \cup {InnerItem(request, s, isSignal, m) : m \in Crossed(request)}
           \cup {LeafItem(request, s, isSignal, i) : i \in Leaves(request)})'
<1>1. Asked(request, s, isSignal) =
           {TopItem(request, s, isSignal)}
           \cup {WayItem(request, s, isSignal, m) : m \in Crossed(request)}
           \cup {InnerItem(request, s, isSignal, m) : m \in Crossed(request)}
           \cup {LeafItem(request, s, isSignal, i) : i \in Leaves(request)}
  BY AskedParts
<1> QED BY <1>1, PTL

(* What a request asks for does not depend on what is added later. *)
LEMMA AskedStays ==
  ASSUME NEW request, Grows(request), NamedOnce(request), NEW s, NEW isSignal
  PROVE  Asked(request, s, isSignal)' = Asked(request, s, isSignal)
<1>1. Crossed(request)' = Crossed(request) /\ Leaves(request)' = Leaves(request)
  BY PlacesStay
<1>2. TopItem(request, s, isSignal)' = TopItem(request, s, isSignal)
  <2>1. PICK t \in Reached(request) : t = Top(request) /\ t = Top(request)'
    BY TopStays DEF Reached
  <2>2. NameIn(request, t, s, isSignal)' = NameIn(request, t, s, isSignal)
    BY NameInStays
  <2>3. NameIn(request, Top(request), s, isSignal)' = NameIn(request, Top(request), s, isSignal)
    BY <2>1, <2>2 DEF NameIn, Inherited
  <2> QED BY <2>1, <2>3 DEF TopItem, Item
<1>3. \A m \in Crossed(request) : /\ WayItem(request, s, isSignal, m)' = WayItem(request, s, isSignal, m)
                                  /\ InnerItem(request, s, isSignal, m)' = InnerItem(request, s, isSignal, m)
  BY WayItemStays
<1>4. \A i \in Leaves(request) : LeafItem(request, s, isSignal, i)' = LeafItem(request, s, isSignal, i)
  BY LeafItemStays
<1>5. {WayItem(request, s, isSignal, m) : m \in Crossed(request)}' = {WayItem(request, s, isSignal, m) : m \in Crossed(request)}
  BY <1>1, <1>3
<1>6. {InnerItem(request, s, isSignal, m) : m \in Crossed(request)}' = {InnerItem(request, s, isSignal, m) : m \in Crossed(request)}
  BY <1>1, <1>3
<1>7. {LeafItem(request, s, isSignal, i) : i \in Leaves(request)}' = {LeafItem(request, s, isSignal, i) : i \in Leaves(request)}
  BY <1>1, <1>4
<1> QED BY <1>2, <1>5, <1>6, <1>7, AskedParts, AskedPartsNext

(* Growth of the hierarchy does not make a request ambiguous.              *)
LEMMA NamedOnceStays ==
  ASSUME NEW request, Grows(request)
  PROVE  NamedOnce(request)' <=> NamedOnce(request)
BY PlacesStay DEF NamedOnce, Names

-----------------------------------------------------------------------------
(* A request that led to a tree. *)
Settled(request) ==
  GoodRequest(request) /\ (\A e \in Ends(request) : HasClimb(e)) /\ Joined(request)

(* A request that led to a tree is settled: later growth does not move its *)
(* endpoints.                                                              *)
LEMMA TreeSettles ==
  ASSUME HierarchyInv, NEW request, NEW s, GoodRequest(request), TreeOf(s, request) # {}
  PROVE  Settled(request)
<1> DEFINE C == Climbs(request)
           T == Tree(s, C)
<1>1. (\A e \in Ends(request) : HasClimb(e)) /\ TreeOf(s, request) = Reduce(T)
  BY TreeOfRequest DEF IsReduced
<1>2. T # {}
  BY <1>1 DEF Reduce
<1>3. C # {} /\ GoodClimbs(C)
  BY <1>1, ClimbsAreGood
<1>4. /\ \A c \in C : IsClimbOf(request, c, EndOf(request, c))
      /\ \A e \in Ends(request) : \E c \in C : EndOf(request, c) = e
  BY <1>1, ClimbsOfEnds
<1> HIDE DEF C
<1>5. PICK r \in Name : \A c \in C : r \in c.modules
  BY <1>2, <1>3, TreeIsRooted DEF Rooted, HierarchyInv
<1>6. \A e \in Ends(request) : r \in Above[Host(e)]
  BY <1>4, <1>5 DEF IsClimbOf
<1> QED BY <1>1, <1>6 DEF Settled, Joined

(* The objects O are those the entry's request asks for. *)
AskedFor(entry, s, isSignal, O) ==
  Made(entry) => /\ Settled(entry.request)
                 /\ NamedOnce(entry.request) => O = Asked(entry.request, s, isSignal)

(* What an entry asks for does not change as the hierarchy grows.          *)
LEMMA AskedForStays ==
  ASSUME HierarchyInv, HierarchyInv', Grow(Name) \/ UNCHANGED hierarchyVars,
         NEW entry, NEW s, NEW isSignal, NEW O, AskedFor(entry, s, isSignal, O)
  PROVE  AskedFor(entry, s, isSignal, O)'
<1> SUFFICES ASSUME Made(entry)
             PROVE  /\ Settled(entry.request)'
                    /\ NamedOnce(entry.request)' => O = Asked(entry.request, s, isSignal)'
  BY DEF AskedFor, Made
<1> DEFINE r == entry.request
<1>1. Settled(r) /\ (NamedOnce(r) => O = Asked(r, s, isSignal))
  BY DEF AskedFor
<1> HIDE DEF r
<1>2. Grows(r)
  BY <1>1, LargerSteps DEF Grows, Settled
<1>3. Joined(r)'
  BY <1>2, TopStays
<1>4. GoodRequest(r)' /\ (\A e \in Ends(r) : HasClimb(e)')
  BY <1>2, EndsStayPut DEF Grows
<1>5. Ends(r)' = Ends(r)
  BY DEF Ends, EndAt, Numbers, r
<1>6. Settled(r)'
  BY <1>3, <1>4, <1>5 DEF Settled
<1>7. NamedOnce(r)' => O = Asked(r, s, isSignal)'
  BY <1>1, <1>2, NamedOnceStays, AskedStays
<1> QED BY <1>6, <1>7 DEF r

NetAsked(s) ==
  /\ nets[s] = NULL => ObjectsOf(s, SignalKinds) = {}
  /\ AskedFor(nets[s], s, TRUE, ObjectsOf(s, SignalKinds))

(* A net that is as asked stays so.                                        *)
LEMMA NetAskedStep ==
  ASSUME HierarchyInv, HierarchyInv', NetsTyped, [ConnectionNext]_connectionVars,
         NEW s \in Signal, NetAsked(s)
  PROVE  NetAsked(s)'
<1>1. CASE NetGone(s)
  BY <1>1 DEF NetGone, NetAsked, AskedFor, Made
<1>2. CASE NetStays(s) /\ (Grow(Name) \/ UNCHANGED hierarchyVars)
  <2>1. PICK O : O = ObjectsOf(s, SignalKinds) /\ O = ObjectsOf(s, SignalKinds)'
    BY <1>2 DEF NetStays
  <2>2. PICK e : e = nets[s] /\ e = nets'[s]
    BY <1>2 DEF NetStays
  <2>3. AskedFor(e, s, TRUE, O)'
    BY <1>2, <2>1, <2>2, AskedForStays DEF NetAsked
  <2>4. AskedFor(nets[s], s, TRUE, ObjectsOf(s, SignalKinds))'
    BY <2>1, <2>2, <2>3 DEF AskedFor, Made
  <2> QED BY <2>1, <2>2, <2>4 DEF NetAsked
<1>3. ASSUME NEW request \in Request, Connected(s, request)
      PROVE  NetAsked(s)'
  <2>0. PICK O : O = {w.object : w \in WantedBy(s, request)}
    OBVIOUS
  <2>1. /\ GoodRequest(request) /\ TreeOf(s, request) # {} /\ UNCHANGED hierarchyVars
        /\ nets[s] = NULL /\ nets'[s] # NULL /\ nets'[s].request = request
        /\ Made(nets'[s]) => ObjectsOf(s, SignalKinds)' = ObjectsOf(s, SignalKinds) \cup O
    BY <1>3, <2>0 DEF Connected
  <2>2. Settled(request)
    BY <2>1, TreeSettles
  <2>3. NamedOnce(request) => O = Asked(request, s, TRUE)
    BY <2>0, <2>1, WantedAsAsked
  <2>4. PICK e : e = nets'[s]
    OBVIOUS
  <2>5. ASSUME Made(e) PROVE AskedFor(e, s, TRUE, O)'
    <3>1. AskedFor(e, s, TRUE, O)
      BY <2>1, <2>2, <2>3, <2>4 DEF AskedFor
    <3> QED BY <2>1, <3>1, AskedForStays
  <2>6. Made(e) => ObjectsOf(s, SignalKinds)' = O
    BY <2>1, <2>4 DEF NetAsked
  <2>7. AskedFor(nets[s], s, TRUE, ObjectsOf(s, SignalKinds))'
    BY <2>4, <2>5, <2>6 DEF AskedFor, Made
  <2> QED BY <2>1, <2>7 DEF NetAsked
<1> QED BY <1>1, <1>2, <1>3, NetSteps

(* The first state, ...                                                    *)
LEMMA NetsTypedInit == ConnectionInit => NetsTyped /\ \A s \in Signal : NetAsked(s)
BY DEF ConnectionInit, NetsTyped, NetAsked, AskedFor, ObjectsOf, Made

(* ... and every step, keep the tables typed.                              *)
LEMMA NetsTypedStep ==
  ASSUME HierarchyInv, HierarchyInv', NetsTyped, [ConnectionNext]_connectionVars
  PROVE  NetsTyped'
<1>1. CASE Signal = {}
  <2>1. UNCHANGED <<nets, generics>> \/ ResetAll
    BY <1>1 DEF ConnectionNext, Commands, Grow, CreatePin, connectionVars
  <2> QED BY <2>1 DEF ResetAll, NetsTyped
<1> QED BY <1>1, NetSteps

NetsAskedInv == NetsTyped /\ \A s \in Signal : NetAsked(s)

(* The objects of a net are exactly those its request asks for, whichever  *)
(* order the endpoints came in, however the climbs were merged and cut and *)
(* whatever was added to the hierarchy since.                              *)
THEOREM ConnectionNetsAsAsked == ConnectionSpec => []NetsAsAsked
<1>1. ConnectionInit => NetsAskedInv
  BY NetsTypedInit DEF NetsAskedInv
<1>2. HierarchyInv /\ HierarchyInv' /\ NetsAskedInv /\ [ConnectionNext]_connectionVars => NetsAskedInv'
  <2> SUFFICES ASSUME HierarchyInv, HierarchyInv', NetsAskedInv, [ConnectionNext]_connectionVars
               PROVE  NetsAskedInv'
    OBVIOUS
  <2>1. NetsTyped'
    BY NetsTypedStep DEF NetsAskedInv
  <2>2. \A s \in Signal : NetAsked(s)'
    BY NetAskedStep DEF NetsAskedInv
  <2> QED BY <2>1, <2>2 DEF NetsAskedInv
<1>3. NetsAskedInv => NetsAsAsked
  BY DEF NetsAskedInv, NetAsked, AskedFor, NetsAsAsked
<1> QED BY <1>1, <1>2, <1>3, ConnectionHierarchy, PTL DEF ConnectionSpec

-----------------------------------------------------------------------------
(* What a step may do to the generic s: it is reset, it stays with its     *)
(* objects, or it is parameterized.                                        *)
GenericGone(s)  == generics'[s] = NULL /\ ObjectsOf(s, ParameterKinds)' = {}
GenericStays(s) ==
  generics'[s] = generics[s] /\ ObjectsOf(s, ParameterKinds)' = ObjectsOf(s, ParameterKinds)

Parameterized(s, request) ==
  /\ GoodRequest(request) /\ TreeOf(s, request) # {} /\ UNCHANGED hierarchyVars
  /\ generics[s] = NULL /\ generics'[s] # NULL /\ generics'[s].request = request
  /\ Made(generics'[s]) =>
       ObjectsOf(s, ParameterKinds)' =
         ObjectsOf(s, ParameterKinds) \cup {w.object : w \in ParametersWantedBy(s, request)}

(* What parameter does to one generic, ...                                 *)
LEMMA GenericsOfParameterize ==
  ASSUME HierarchyInv, NetsTyped, NEW t \in Signal, NEW targets \in Targets(1 .. MaxEnds),
         Parameterize(t, targets), NEW s \in Signal
  PROVE  (GenericStays(s) /\ UNCHANGED hierarchyVars) \/ \E request : Parameterized(s, request)
<1>0. PICK request : request = [source |-> NULL, targets |-> targets, bidir |-> FALSE]
  OBVIOUS
<1> DEFINE W == ParametersWantedBy(t, request)
<1>1. /\ GoodRequest(request)
      /\ \/ UNCHANGED <<items, generics>>
         \/ /\ generics[t] = NULL /\ TreeOf(t, request) # {}
            /\ \E entered \in Enterable(W) :
                 Create(W, entered) /\ generics' = [generics EXCEPT ![t] = Entry(W, entered, request)]
      /\ UNCHANGED <<hierarchyVars, nets>>
  BY <1>0, ParameterizeStep
<1>2. CASE UNCHANGED <<items, generics>>
  BY <1>1, <1>2 DEF GenericStays, ObjectsOf
<1>3. CASE /\ generics[t] = NULL /\ TreeOf(t, request) # {}
           /\ \E entered \in Enterable(W) :
                Create(W, entered) /\ generics' = [generics EXCEPT ![t] = Entry(W, entered, request)]
  <2>1. PICK entered \in Enterable(W) :
          Create(W, entered) /\ generics' = [generics EXCEPT ![t] = Entry(W, entered, request)]
    BY <1>3
  <2>2. \A w \in W : IsItem(w.object) /\ w.object.net = t /\ w.object.kind \in ParameterKinds
    BY <1>1, <1>3, WantedParameters DEF LiveItem
  <2>3. request \in ParameterRequest
    BY <1>0 DEF ParameterRequest
  <2>4. LET e == Entry(W, entered, request)
        IN  /\ e \in NetEntry /\ e # NULL /\ e.request = request
            /\ Made(e) <=> entered = W
    BY <2>3, EntryTyped
  <2>5. /\ generics'[t] = Entry(W, entered, request)
        /\ s # t => generics'[s] = generics[s]
    BY <2>1 DEF NetsTyped
  <2> HIDE DEF W
  <2>6. CASE s # t
    <3>1. ObjectsOf(s, ParameterKinds)' = ObjectsOf(s, ParameterKinds)
      BY <2>1, <2>2, <2>6, CreatedObjects
    <3> QED BY <3>1, <1>1, <2>5, <2>6 DEF GenericStays
  <2>7. CASE s = t
    <3>1. entered = W => ObjectsOf(t, ParameterKinds)' = ObjectsOf(t, ParameterKinds) \cup {w.object : w \in W}
      BY <2>1, <2>2, CreatedObjects
    <3>2. Parameterized(s, request)
      BY <3>1, <1>1, <1>3, <2>4, <2>5, <2>7 DEF Parameterized, W
    <3> QED BY <3>2
  <2> QED BY <2>6, <2>7
<1> QED BY <1>1, <1>2, <1>3

(* ... and that connect does nothing to it.                                *)
LEMMA GenericsOfConnect ==
  ASSUME HierarchyInv, NEW t \in Signal, NEW request \in Request, Connect(t, request), NEW s \in Signal
  PROVE  GenericStays(s) /\ UNCHANGED hierarchyVars
<1> DEFINE W == WantedBy(t, request)
<1>0. GoodRequest(request) /\ UNCHANGED <<hierarchyVars, generics>>
  BY ConnectStep
<1>1. CASE UNCHANGED <<items, nets>>
  BY <1>0, <1>1 DEF GenericStays, ObjectsOf
<1>2. CASE /\ nets[t] = NULL /\ TreeOf(t, request) # {}
           /\ \E entered \in Enterable(W) :
                Create(W, entered) /\ nets' = [nets EXCEPT ![t] = Entry(W, entered, request)]
  <2>1. PICK entered \in Enterable(W) : Create(W, entered)
    BY <1>2
  <2>2. \A w \in W : IsItem(w.object) /\ w.object.net = t /\ w.object.kind \in SignalKinds
    BY <1>0, <1>2, WantedSignals DEF LiveItem
  <2> HIDE DEF W
  <2>3. \A w \in W : w.object.kind \notin ParameterKinds
    BY <2>2 DEF SignalKinds, ParameterKinds
  <2>4. ObjectsOf(s, ParameterKinds)' = ObjectsOf(s, ParameterKinds)
    BY <2>1, <2>2, <2>3, CreatedObjects
  <2> QED BY <2>4, <1>0 DEF GenericStays
<1> QED BY <1>1, <1>2, ConnectStep

(* What any step does to one generic: it goes, it stays, or it is made.    *)
LEMMA GenericSteps ==
  ASSUME HierarchyInv, HierarchyInv', NetsTyped, [ConnectionNext]_connectionVars, NEW s \in Signal
  PROVE  \/ GenericGone(s)
         \/ GenericStays(s) /\ (Grow(Name) \/ UNCHANGED hierarchyVars)
         \/ \E request : Parameterized(s, request)
<1>1. CASE Grow(Name)
  BY <1>1, GrowFacts DEF GenericStays, ObjectsOf
<1>2. ASSUME NEW t \in Signal, NEW request \in Request, Connect(t, request)
      PROVE  GenericStays(s) /\ UNCHANGED hierarchyVars
  BY <1>2, GenericsOfConnect
<1>3. ASSUME NEW t \in Signal, NEW targets \in Targets(1 .. MaxEnds), Parameterize(t, targets)
      PROVE  (GenericStays(s) /\ UNCHANGED hierarchyVars) \/ \E request : Parameterized(s, request)
  BY <1>3, GenericsOfParameterize
<1>4. ASSUME NEW i \in Name, NEW w \in Writing, NEW dir, CreatePin(i, w.name, dir)
      PROVE  GenericStays(s) /\ UNCHANGED hierarchyVars
  <2>1. UNCHANGED hierarchyVars /\ ObjectsOf(s, ParameterKinds)' = ObjectsOf(s, ParameterKinds)
    BY <1>4, NetsOfCreatePin
  <2> QED BY <1>4, <2>1 DEF CreatePin, GenericStays
<1>5. CASE ResetAll
  BY <1>5 DEF ResetAll, GenericGone, ObjectsOf
<1>6. CASE UNCHANGED connectionVars
  BY <1>6 DEF connectionVars, GenericStays, ObjectsOf
<1> QED BY <1>1, <1>2, <1>3, <1>4, <1>5, <1>6 DEF ConnectionNext, Commands

GenericAsked(s) ==
  /\ generics[s] = NULL => ObjectsOf(s, ParameterKinds) = {}
  /\ AskedFor(generics[s], s, FALSE, ObjectsOf(s, ParameterKinds))

(* A generic that is as asked stays so.                                    *)
LEMMA GenericAskedStep ==
  ASSUME HierarchyInv, HierarchyInv', NetsTyped, [ConnectionNext]_connectionVars,
         NEW s \in Signal, GenericAsked(s)
  PROVE  GenericAsked(s)'
<1>1. CASE GenericGone(s)
  BY <1>1 DEF GenericGone, GenericAsked, AskedFor, Made
<1>2. CASE GenericStays(s) /\ (Grow(Name) \/ UNCHANGED hierarchyVars)
  <2>1. PICK O : O = ObjectsOf(s, ParameterKinds) /\ O = ObjectsOf(s, ParameterKinds)'
    BY <1>2 DEF GenericStays
  <2>2. PICK e : e = generics[s] /\ e = generics'[s]
    BY <1>2 DEF GenericStays
  <2>3. AskedFor(e, s, FALSE, O)'
    BY <1>2, <2>1, <2>2, AskedForStays DEF GenericAsked
  <2>4. AskedFor(generics[s], s, FALSE, ObjectsOf(s, ParameterKinds))'
    BY <2>1, <2>2, <2>3 DEF AskedFor, Made
  <2> QED BY <2>1, <2>2, <2>4 DEF GenericAsked
<1>3. ASSUME NEW request, Parameterized(s, request)
      PROVE  GenericAsked(s)'
  <2>0. PICK O : O = {w.object : w \in ParametersWantedBy(s, request)}
    OBVIOUS
  <2>1. /\ GoodRequest(request) /\ TreeOf(s, request) # {} /\ UNCHANGED hierarchyVars
        /\ generics[s] = NULL /\ generics'[s] # NULL /\ generics'[s].request = request
        /\ Made(generics'[s]) => ObjectsOf(s, ParameterKinds)' = ObjectsOf(s, ParameterKinds) \cup O
    BY <1>3, <2>0 DEF Parameterized
  <2>2. Settled(request)
    BY <2>1, TreeSettles
  <2>3. NamedOnce(request) => O = Asked(request, s, FALSE)
    BY <2>0, <2>1, ParametersAsAsked
  <2>4. PICK e : e = generics'[s]
    OBVIOUS
  <2>5. ASSUME Made(e) PROVE AskedFor(e, s, FALSE, O)'
    <3>1. AskedFor(e, s, FALSE, O)
      BY <2>1, <2>2, <2>3, <2>4 DEF AskedFor
    <3> QED BY <2>1, <3>1, AskedForStays
  <2>6. Made(e) => ObjectsOf(s, ParameterKinds)' = O
    BY <2>1, <2>4 DEF GenericAsked
  <2>7. AskedFor(generics[s], s, FALSE, ObjectsOf(s, ParameterKinds))'
    BY <2>4, <2>5, <2>6 DEF AskedFor, Made
  <2> QED BY <2>1, <2>7 DEF GenericAsked
<1> QED BY <1>1, <1>2, <1>3, GenericSteps

GenericsAskedInv == NetsTyped /\ \A s \in Signal : GenericAsked(s)

(* The adjustments and parameters of a generic are exactly those its       *)
(* request asks for.                                                       *)
THEOREM ConnectionGenericsAsAsked == ConnectionSpec => []GenericsAsAsked
<1>1. ConnectionInit => GenericsAskedInv
  BY DEF ConnectionInit, NetsTyped, GenericsAskedInv, GenericAsked, AskedFor, ObjectsOf, Made
<1>2. HierarchyInv /\ HierarchyInv' /\ GenericsAskedInv /\ [ConnectionNext]_connectionVars => GenericsAskedInv'
  <2> SUFFICES ASSUME HierarchyInv, HierarchyInv', GenericsAskedInv, [ConnectionNext]_connectionVars
               PROVE  GenericsAskedInv'
    OBVIOUS
  <2>1. NetsTyped'
    BY NetsTypedStep DEF GenericsAskedInv
  <2>2. \A s \in Signal : GenericAsked(s)'
    BY GenericAskedStep DEF GenericsAskedInv
  <2> QED BY <2>1, <2>2 DEF GenericsAskedInv
<1>3. GenericsAskedInv => GenericsAsAsked
  BY DEF GenericsAskedInv, GenericAsked, AskedFor, GenericsAsAsked
<1> QED BY <1>1, <1>2, <1>3, ConnectionHierarchy, PTL DEF ConnectionSpec

-----------------------------------------------------------------------------
(* A tree comes out exactly when there is a module around all endpoints. *)
LEMMA TreeWhenTop ==
  ASSUME HierarchyInv, NEW request, NEW s, GoodRequest(request), NamedOnce(request)
  PROVE  TreeOf(s, request) # {} <=> HasTop(request)
<1> DEFINE C == Climbs(request)
           T == Tree(s, C)
<1>0. HierarchyTypeOK /\ Acyclic
  BY DEF HierarchyInv
<1>1. TreeOf(s, request) # {} => HasTop(request)
  BY TreeSettles DEF Settled, Joined, HasTop
<1>2. ASSUME HasTop(request) PROVE TreeOf(s, request) # {}
  <2>1. \A e \in Ends(request) : HasClimb(e)
    BY <1>2 DEF HasTop
  <2>2. PICK r \in Name : \A e \in Ends(request) : r \in Above[Host(e)]
    BY <1>2 DEF HasTop
  <2>3. C # {} /\ GoodClimbs(C) /\ \A c \in C : IsClimbOf(request, c, EndOf(request, c))
    BY <2>1, ClimbsAreGood, ClimbsOfEnds
  <2> HIDE DEF C
  <2>4. PICK top \in Above[r] : default_parent[top] = NULL
    <3>1. ClimbEnds
      BY <1>0, AcyclicClimbEnds
    <3> QED BY <1>0, <3>1, AboveFacts DEF ClimbEnds
  <2>5. top \in Name
    BY <1>0, <2>2, <2>4, AboveOrder
  <2>6. ASSUME NEW c \in C PROVE top \in c.modules
    <3>1. r \in Above[c.from] /\ c.modules = Above[c.from] /\ c.from \in Name
      BY <2>2, <2>3, <2>6 DEF IsClimbOf
    <3> QED BY <1>0, <2>4, <3>1, AboveOrder
  <2>7. Rooted(C)
    BY <2>4, <2>5, <2>6 DEF Rooted
  <2>8. PICK c \in C : c.from \in Name /\ PassesBy(c, "module", c.from)
    BY <1>0, <2>3, AboveFacts DEF GoodClimbs, PassesBy
  <2>9. T # {}
    BY <1>0, <2>3, <2>7, <2>8, TreeIsFull
  <2>10. IsLoneTree(request, s, T)
    BY <2>1, <2>9 DEF IsLoneTree, C
  <2> HIDE DEF T
  <2>11. Reduce(T) # {}
    BY <2>10, LoneReducedShape DEF IsLoneReduced
  <2> QED BY <2>1, <2>11 DEF TreeOf, T, C
<1> QED BY <1>1, <1>2

(* Every node of a tree gets the object of its place. *)
AllInPlace(request, s, isSignal, R, top, o) == \A n \in R : Fits(request, s, isSignal, n, top, o[n])

(* No two nodes of such a tree need one Object-ID. *)
LEMMA PlacesApart ==
  ASSUME HierarchyInv, NEW request, NEW s \in Signal, NEW T, IsLoneTree(request, s, T),
         NEW R, R = Reduce(T), NEW top, IsLoneReduced(request, R, top), NEW isSignal, NEW o,
         AllInPlace(request, s, isSignal, R, top, o)
  PROVE  \A n, k \in R : Id(o[n]) = Id(o[k]) => n = k
<1> SUFFICES ASSUME NEW n \in R, NEW k \in R, Id(o[n]) = Id(o[k]) PROVE n = k
  OBVIOUS
<1>0. Fits(request, s, isSignal, n, top, o[n]) /\ Fits(request, s, isSignal, k, top, o[k])
  BY DEF AllInPlace
<1>1. NodePlace(request, R, T, top, n) /\ NodePlace(request, R, T, top, k)
  BY LoneReducedNodes
<1>2. top.type = "module" /\ top.of = Top(request)
  BY DEF IsLoneReduced, IsTopNode
<1>3. IsReduced(R, T, Climbs(request))
  BY <1>1 DEF NodePlace
<1>4. ASSUME NEW x \in R, NEW q, Fits(request, s, isSignal, x, top, q), NodePlace(request, R, T, top, x)
      PROVE  /\ q.of = x.of
             /\ x.type # "module" <=> q.kind \in {"pin", "adjustment"}
             /\ x.type = "module" <=> q.kind \in {"declaration", "parameter", "port"}
  <2>1. x.type \in {"instance", "module", "leaf"}
    BY <1>4 DEF NodePlace
  <2>2. CASE x = top
    BY <1>2, <1>4, <2>2 DEF Fits, TopItem, Item
  <2>3. CASE x.type = "instance"
    BY <1>4, <2>3 DEF Fits, WayItem, Item
  <2>4. CASE x.type = "module" /\ x # top
    BY <1>4, <2>4 DEF Fits, InnerItem, Item
  <2>5. CASE x.type = "leaf"
    BY <1>4, <2>5 DEF Fits, LeafItem, Item
  <2> QED BY <2>1, <2>2, <2>3, <2>4, <2>5
<1>5. n.of = k.of /\ (n.type = "module" <=> k.type = "module")
  <2>1. o[n].kind = o[k].kind /\ o[n].of = o[k].of
    BY DEF Id
  <2>2. o[n].of = n.of /\ (n.type = "module" <=> o[n].kind \in {"declaration", "parameter", "port"})
    BY <1>0, <1>1, <1>4
  <2>3. o[k].of = k.of /\ (k.type = "module" <=> o[k].kind \in {"declaration", "parameter", "port"})
    BY <1>0, <1>1, <1>4
  <2> QED BY <2>1, <2>2, <2>3
<1>6. ASSUME NEW x \in R, NEW y \in R, x.of = y.of, x.type = "instance", y.type = "leaf",
             NodePlace(request, R, T, top, x)
      PROVE  FALSE
  <2>1. y.of \in Name /\ instances[y.of].module \in resource
    BY <1>3, <1>6, ReducedFacts
  <2>2. x.of \in modules \ resource
    BY <1>3, <1>6, NodesLive
  <2>3. default_parent[x.of] # NULL
    <3>1. Parent(R, x) \in R /\ Parent(R, x).of = default_parent[x.of]
      BY <1>2, <1>6 DEF NodePlace
    <3>2. Parent(R, x).of \in Name
      BY <1>3, <3>1, ReducedFacts
    <3> QED BY <3>1, <3>2, NameAssumption
  <2>4. instances[x.of].module = x.of
    BY <1>6, <2>1, <2>2, <2>3 DEF HierarchyInv, TablesAgree, DefaultsInTable
  <2> QED BY <1>6, <2>1, <2>2, <2>4
<1>7. n.type = k.type
  <2>1. n.type \in {"instance", "module", "leaf"} /\ k.type \in {"instance", "module", "leaf"}
    BY <1>1 DEF NodePlace
  <2>2. ~ (n.type = "instance" /\ k.type = "leaf")
    BY <1>1, <1>5, <1>6
  <2>3. ~ (k.type = "instance" /\ n.type = "leaf")
    BY <1>1, <1>5, <1>6
  <2> QED BY <1>5, <2>1, <2>2, <2>3
<1> QED BY <1>5, <1>7 DEF IsLoneReduced

(* A command whose objects do not compete fails exactly if an Object-ID    *)
(* was taken.                                                              *)
LEMMA OutcomeOf ==
  ASSUME NEW W, NEW entered \in Enterable(W), IdsApart(W), NEW A, A = {w.object : w \in W}
  PROVE  Outcome(W, entered) = IF Ids(A) \cap Ids(items) # {} THEN "failed" ELSE "made"
<1>1. /\ entered \subseteq W
      /\ \A w \in entered : Id(w.object) \notin Ids(items)
      /\ \A w \in W : Id(w.object) \in Ids(items) \/ \E v \in entered : Id(v.object) = Id(w.object)
  BY EnteredIds
<1>2. \A i : i \in Ids(A) <=> \E w \in W : i = Id(w.object)
  BY DEF Ids
<1>3. entered = W => Ids(A) \cap Ids(items) = {}
  BY <1>1, <1>2
<1>4. ASSUME Ids(A) \cap Ids(items) = {} PROVE entered = W
  <2>1. ASSUME NEW w \in W PROVE w \in entered
    <3>1. PICK v \in entered : Id(v.object) = Id(w.object)
      BY <1>1, <1>2, <1>4
    <3> QED BY <1>1, <3>1 DEF IdsApart
  <2> QED BY <1>1, <2>1
<1> QED BY <1>3, <1>4 DEF Outcome

-----------------------------------------------------------------------------
(* The objects of a net that is named once do not compete, ...             *)
LEMMA WantedApart ==
  ASSUME HierarchyInv, NEW request, NEW s \in Signal, GoodRequest(request),
         TreeOf(s, request) # {}, NamedOnce(request)
  PROVE  IdsApart(WantedBy(s, request))
<1>1. PICK T, top : /\ IsLoneTree(request, s, T) /\ TreeOf(s, request) = Reduce(T)
                    /\ IsLoneReduced(request, TreeOf(s, request), top)
  BY LoneTreeOf
<1>2. PICK R : R = TreeOf(s, request)
  OBVIOUS
<1>3. IsLoneTree(request, s, T) /\ R = Reduce(T) /\ IsLoneReduced(request, R, top)
  BY <1>1, <1>2
<1> DEFINE o == [n \in R |-> SignalAt(R, n, s)]
           W == WantedBy(s, request)
<1>4. W = {[node |-> n, object |-> o[n]] : n \in R}
  <2>1. Objects(R, s, TRUE) = {[node |-> n, object |-> SignalAt(R, n, s)] : n \in R}
    BY ObjectsOfSignal
  <2>2. Objects(R, s, TRUE) = W
    BY <1>2 DEF WantedBy
  <2>3. \A n \in R : o[n] = SignalAt(R, n, s)
    OBVIOUS
  <2> HIDE DEF o, W
  <2> QED BY <2>1, <2>2, <2>3
<1>5. \A n \in R : Fits(request, s, TRUE, n, top, o[n])
  <2> SUFFICES ASSUME NEW n \in R PROVE Fits(request, s, TRUE, n, top, SignalAt(R, n, s))
    OBVIOUS
  <2> QED BY <1>3, SignalsFit
<1> HIDE DEF o, W
<1>6. \A n, k \in R : Id(o[n]) = Id(o[k]) => n = k
  <2>1. PICK O : O = o
    OBVIOUS
  <2>2. AllInPlace(request, s, TRUE, R, top, O)
    BY <1>5, <2>1 DEF AllInPlace
  <2>3. \A isSignal, f : AllInPlace(request, s, isSignal, R, top, f) =>
          \A n, k \in R : Id(f[n]) = Id(f[k]) => n = k
    BY <1>3, PlacesApart
  <2>4. \A n, k \in R : Id(O[n]) = Id(O[k]) => n = k
    BY <2>2, <2>3
  <2> QED BY <2>1, <2>4
<1>7. \A w \in W : \E n \in R : w = [node |-> n, object |-> o[n]] /\ w.object = o[n]
  BY <1>4
<1> QED BY <1>6, <1>7 DEF IdsApart, W

(* ... nor do those of a generic.                                          *)
LEMMA ParametersApart ==
  ASSUME HierarchyInv, NEW request, NEW s \in Signal, GoodRequest(request),
         TreeOf(s, request) # {}, NamedOnce(request)
  PROVE  IdsApart(ParametersWantedBy(s, request))
<1>1. PICK T, top : /\ IsLoneTree(request, s, T) /\ TreeOf(s, request) = Reduce(T)
                    /\ IsLoneReduced(request, TreeOf(s, request), top)
  BY LoneTreeOf
<1>2. PICK R : R = TreeOf(s, request)
  OBVIOUS
<1>3. IsLoneTree(request, s, T) /\ R = Reduce(T) /\ IsLoneReduced(request, R, top)
  BY <1>1, <1>2
<1> DEFINE o == [n \in R |-> ParameterAt(R, n, s)]
           W == ParametersWantedBy(s, request)
<1>4. W = {[node |-> n, object |-> o[n]] : n \in R}
  <2>1. Objects(R, s, FALSE) = {[node |-> n, object |-> ParameterAt(R, n, s)] : n \in R}
    BY ObjectsOfParameter
  <2>2. Objects(R, s, FALSE) = W
    BY <1>2 DEF ParametersWantedBy
  <2>3. \A n \in R : o[n] = ParameterAt(R, n, s)
    OBVIOUS
  <2> HIDE DEF o, W
  <2> QED BY <2>1, <2>2, <2>3
<1>5. \A n \in R : Fits(request, s, FALSE, n, top, o[n])
  <2> SUFFICES ASSUME NEW n \in R PROVE Fits(request, s, FALSE, n, top, ParameterAt(R, n, s))
    OBVIOUS
  <2> QED BY <1>3, ParametersFit
<1> HIDE DEF o, W
<1>6. \A n, k \in R : Id(o[n]) = Id(o[k]) => n = k
  <2>1. PICK O : O = o
    OBVIOUS
  <2>2. AllInPlace(request, s, FALSE, R, top, O)
    BY <1>5, <2>1 DEF AllInPlace
  <2>3. \A isSignal, f : AllInPlace(request, s, isSignal, R, top, f) =>
          \A n, k \in R : Id(f[n]) = Id(f[k]) => n = k
    BY <1>3, PlacesApart
  <2>4. \A n, k \in R : Id(O[n]) = Id(O[k]) => n = k
    BY <2>2, <2>3
  <2> QED BY <2>1, <2>4
<1>7. \A w \in W : \E n \in R : w = [node |-> n, object |-> o[n]] /\ w.object = o[n]
  BY <1>4
<1> QED BY <1>6, <1>7 DEF IdsApart, W

(* A tree that branches at its root names its top module in two ways.      *)
LEMMA NamedOnceNotFreed ==
  ASSUME HierarchyInv, NEW request, NEW s \in Signal, GoodRequest(request),
         TreeOf(s, request) # {}, NamedOnce(request)
  PROVE  ~ Freed(TreeOf(s, request))
<1>1. PICK T, top : /\ IsLoneTree(request, s, T) /\ TreeOf(s, request) = Reduce(T)
                    /\ IsLoneReduced(request, TreeOf(s, request), top)
  BY LoneTreeOf
<1>2. PICK R : R = TreeOf(s, request)
  OBVIOUS
<1>3. IsLoneTree(request, s, T) /\ R = Reduce(T) /\ IsLoneReduced(request, R, top)
  BY <1>1, <1>2
<1>4. ASSUME NEW n \in R, n.type = "instance" PROVE default_parent[n.of] # NULL
  <2>1. NodePlace(request, R, T, top, n)
    BY <1>3, LoneReducedNodes
  <2>2. n # top
    BY <1>3, <1>4 DEF IsLoneReduced, IsTopNode
  <2>3. Parent(R, n) \in R /\ Parent(R, n).of = default_parent[n.of]
    BY <1>4, <2>1, <2>2 DEF NodePlace
  <2>4. Parent(R, n).of \in Name
    BY <2>1, <2>3, ReducedFacts DEF NodePlace
  <2> QED BY <2>3, <2>4, NameAssumption
<1> QED BY <1>2, <1>4 DEF Freed

(* The answer a request of which nothing is named in two ways should get.  *)
Answer(table, s, request, isSignal) ==
  IF table[s] # NULL \/ ~ HasTop(request) THEN "refused"
  ELSE IF Ids(Asked(request, s, isSignal)) \cap Ids(items) # {} THEN "failed" ELSE "made"

(* connect answers as it should, ...                                       *)
LEMMA ConnectAnswers ==
  ASSUME HierarchyInv, NEW s \in Signal, NEW request \in Request, Connect(s, request), NamedOnce(request)
  PROVE  reply' = Reply("connect", s, request, Answer(nets, s, request, TRUE))
<1>0. GoodRequest(request)
  BY ConnectStep
<1>1. TreeOf(s, request) # {} <=> HasTop(request)
  BY <1>0, TreeWhenTop
<1>2. \/ /\ nets[s] # NULL \/ TreeOf(s, request) = {}
         /\ reply' = Reply("connect", s, request, "refused")
      \/ /\ nets[s] = NULL /\ TreeOf(s, request) # {}
         /\ \E entered \in Enterable(WantedBy(s, request)) :
              reply' = Reply("connect", s, request, Outcome(WantedBy(s, request), entered))
  <2>1. CASE nets[s] = NULL /\ TreeOf(s, request) # {}
    <3>1. ~ Freed(TreeOf(s, request))
      BY <1>0, <2>1, NamedOnceNotFreed
    <3> QED BY <2>1, <3>1 DEF Connect, WantedBy
  <2>2. CASE nets[s] # NULL \/ TreeOf(s, request) = {}
    BY <2>2 DEF Connect, Unwalked
  <2> QED BY <2>1, <2>2
<1>3. CASE /\ nets[s] # NULL \/ TreeOf(s, request) = {}
           /\ reply' = Reply("connect", s, request, "refused")
  BY <1>1, <1>3 DEF Answer
<1>4. CASE /\ nets[s] = NULL /\ TreeOf(s, request) # {}
           /\ \E entered \in Enterable(WantedBy(s, request)) :
                reply' = Reply("connect", s, request, Outcome(WantedBy(s, request), entered))
  <2> DEFINE W == WantedBy(s, request)
  <2>1. PICK entered \in Enterable(W) : reply' = Reply("connect", s, request, Outcome(W, entered))
    BY <1>4
  <2>2. IdsApart(W) /\ Asked(request, s, TRUE) = {w.object : w \in W}
    BY <1>0, <1>4, WantedApart, WantedAsAsked
  <2> HIDE DEF W
  <2>3. Outcome(W, entered) = IF Ids(Asked(request, s, TRUE)) \cap Ids(items) # {} THEN "failed" ELSE "made"
    BY <2>2, OutcomeOf
  <2> QED BY <1>1, <1>4, <2>1, <2>3 DEF Answer
<1> QED BY <1>2, <1>3, <1>4

(* ... and so does parameter.                                              *)
LEMMA ParameterizeAnswers ==
  ASSUME HierarchyInv, NEW s \in Signal, NEW targets \in Targets(1 .. MaxEnds), Parameterize(s, targets),
         NEW request, request = [source |-> NULL, targets |-> targets, bidir |-> FALSE],
         NamedOnce(request)
  PROVE  reply' = Reply("parameter", s, request, Answer(generics, s, request, FALSE))
<1>0. GoodRequest(request)
  BY ParameterizeStep
<1>1. TreeOf(s, request) # {} <=> HasTop(request)
  BY <1>0, TreeWhenTop
<1>2. \/ /\ generics[s] # NULL \/ TreeOf(s, request) = {}
         /\ reply' = Reply("parameter", s, request, "refused")
      \/ /\ generics[s] = NULL /\ TreeOf(s, request) # {}
         /\ \E entered \in Enterable(ParametersWantedBy(s, request)) :
              reply' = Reply("parameter", s, request, Outcome(ParametersWantedBy(s, request), entered))
  <2>1. CASE generics[s] = NULL /\ TreeOf(s, request) # {}
    <3>1. ~ Freed(TreeOf(s, request))
      BY <1>0, <2>1, NamedOnceNotFreed
    <3> QED BY <2>1, <3>1 DEF Parameterize, ParametersWantedBy
  <2>2. CASE generics[s] # NULL \/ TreeOf(s, request) = {}
    BY <2>2 DEF Parameterize, Unwalked
  <2> QED BY <2>1, <2>2
<1>3. CASE /\ generics[s] # NULL \/ TreeOf(s, request) = {}
           /\ reply' = Reply("parameter", s, request, "refused")
  BY <1>1, <1>3 DEF Answer
<1>4. CASE /\ generics[s] = NULL /\ TreeOf(s, request) # {}
           /\ \E entered \in Enterable(ParametersWantedBy(s, request)) :
                reply' = Reply("parameter", s, request, Outcome(ParametersWantedBy(s, request), entered))
  <2> DEFINE W == ParametersWantedBy(s, request)
  <2>1. PICK entered \in Enterable(W) : reply' = Reply("parameter", s, request, Outcome(W, entered))
    BY <1>4
  <2>2. IdsApart(W) /\ Asked(request, s, FALSE) = {w.object : w \in W}
    BY <1>0, <1>4, ParametersApart, ParametersAsAsked
  <2> HIDE DEF W
  <2>3. Outcome(W, entered) = IF Ids(Asked(request, s, FALSE)) \cap Ids(items) # {} THEN "failed" ELSE "made"
    BY <2>2, OutcomeOf
  <2> QED BY <1>1, <1>4, <2>1, <2>3 DEF Answer
<1> QED BY <1>2, <1>3, <1>4

(* The answer names the request.                                           *)
LEMMA ConnectReply ==
  ASSUME NEW s, NEW request, Connect(s, request)
  PROVE  reply'.request = request
<1>1. \E x : reply' = Reply("connect", s, request, x)
  <2> DEFINE tree == IF nets[s] = NULL THEN TreeOf(s, request) ELSE {}
  <2>1. CASE tree = {} \/ Freed(tree)
    BY <2>1 DEF Connect
  <2>2. CASE ~ (tree = {} \/ Freed(tree))
    BY <2>2 DEF Connect
  <2> QED BY <2>1, <2>2
<1> QED BY <1>1 DEF Reply

(* The same of parameter.                                                  *)
LEMMA ParameterizeReply ==
  ASSUME NEW s, NEW targets, Parameterize(s, targets),
         NEW request, request = [source |-> NULL, targets |-> targets, bidir |-> FALSE]
  PROVE  reply'.request = request
<1>1. \E x : reply' = Reply("parameter", s, request, x)
  <2> DEFINE tree == IF generics[s] = NULL THEN TreeOf(s, request) ELSE {}
  <2>1. CASE tree = {} \/ Freed(tree)
    BY <2>1 DEF Parameterize
  <2>2. CASE ~ (tree = {} \/ Freed(tree))
    BY <2>2 DEF Parameterize
  <2> QED BY <2>1, <2>2
<1> QED BY <1>1 DEF Reply

(* What a step of the system answers, as the property says it.             *)
Justified ==
  reply' \notin {reply, NoReply} /\ NamedOnce(reply'.request) =>
    LET r == reply'
        isSignal == r.command = "connect"
        taken == (IF isSignal THEN nets ELSE generics)[r.signal] # NULL
    IN  r.outcome = IF taken \/ ~ HasTop(r.request) THEN "refused"
                    ELSE IF Ids(Asked(r.request, r.signal, isSignal)) \cap Ids(items) # {}
                    THEN "failed" ELSE "made"

(* No step gives another answer.                                           *)
LEMMA JustifiedStep ==
  ASSUME HierarchyInv, [ConnectionNext]_connectionVars
  PROVE  Justified
<1> SUFFICES ASSUME reply' \notin {reply, NoReply}, NamedOnce(reply'.request)
             PROVE  LET r == reply'
                        isSignal == r.command = "connect"
                        taken == (IF isSignal THEN nets ELSE generics)[r.signal] # NULL
                    IN  r.outcome = IF taken \/ ~ HasTop(r.request) THEN "refused"
                                    ELSE IF Ids(Asked(r.request, r.signal, isSignal)) \cap Ids(items) # {}
                                    THEN "failed" ELSE "made"
  BY DEF Justified
<1>1. CASE \E s \in Signal, request \in Request : Connect(s, request)
  <2>1. PICK s \in Signal, request \in Request : Connect(s, request)
    BY <1>1
  <2>2. reply'.request = request
    BY <2>1, ConnectReply
  <2>3. reply' = Reply("connect", s, request, Answer(nets, s, request, TRUE))
    BY <2>1, <2>2, ConnectAnswers
  <2>4. /\ reply'.command = "connect" /\ reply'.signal = s
        /\ reply'.outcome = Answer(nets, s, request, TRUE)
    BY <2>3 DEF Reply
  <2>5. (reply'.command = "connect") = TRUE
    BY <2>4
  <2> QED BY <2>2, <2>4, <2>5 DEF Answer
<1>2. CASE \E s \in Signal, targets \in Targets(1 .. MaxEnds) : Parameterize(s, targets)
  <2>1. PICK s \in Signal, targets \in Targets(1 .. MaxEnds) : Parameterize(s, targets)
    BY <1>2
  <2>2. PICK request : request = [source |-> NULL, targets |-> targets, bidir |-> FALSE]
    OBVIOUS
  <2>3. reply'.request = request
    BY <2>1, <2>2, ParameterizeReply
  <2>4. reply' = Reply("parameter", s, request, Answer(generics, s, request, FALSE))
    BY <2>1, <2>2, <2>3, ParameterizeAnswers
  <2>5. /\ reply'.command = "parameter" /\ reply'.signal = s
        /\ reply'.outcome = Answer(generics, s, request, FALSE)
    BY <2>4 DEF Reply
  <2>6. (reply'.command = "connect") = FALSE
    BY <2>5
  <2> QED BY <2>3, <2>5, <2>6 DEF Answer
<1>3. CASE \/ Grow(Name) \/ ResetAll \/ UNCHANGED connectionVars
           \/ \E i \in Name, w \in Writing, dir \in {"in", "out", "bidir"} : CreatePin(i, w.name, dir)
  BY <1>3 DEF Grow, ResetAll, CreatePin, connectionVars
<1> QED BY <1>1, <1>2, <1>3 DEF ConnectionNext, Commands

(* A command is refused only if the name is taken or no module is around   *)
(* all endpoints, and fails only if an Object-ID it needs is taken.        *)
THEOREM ConnectionAnswersJustified == ConnectionSpec => AnswersJustified
<1>1. HierarchyInv /\ [ConnectionNext]_connectionVars => [Justified]_connectionVars
  BY JustifiedStep
<1>2. QED
  BY <1>1, ConnectionHierarchy, PTL DEF ConnectionSpec, AnswersJustified, Justified
=============================================================================
