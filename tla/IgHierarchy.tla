----------------------------- MODULE IgHierarchy -----------------------------
(***************************************************************************)
(* The module hierarchy of the icglue database (lib/ig_lib.c, reached by   *)
(* the Tcl commands create_module, create_instance and reset).             *)
(*                                                                         *)
(* A generated module owns a default instance of the same name, the only   *)
(* instance it can ever have; a resource module (a macro, a memory) may be *)
(* instantiated any number of times, under names of their own, and holds   *)
(* no instances itself.  All instances share the table instances_by_name.  *)
(* An object is identified by its name: the database refuses a second      *)
(* module, and a second instance, of one name.                             *)
(***************************************************************************)
EXTENDS IgNull, Sequences

CONSTANT Name        \* names given to modules and to instances

Instance == [module : Name, parent : Name]

ASSUME NameAssumption == NULL \notin Name \cup Instance

VARIABLES
  modules,          \* keys of modules_by_name
  resource,         \* the modules whose resource flag is set
  instances,        \* instances_by_name: name -> [module, parent], or NULL
  default_parent,   \* parent of the module's default instance, or NULL
  child_instances,  \* per module: the instances inside it, in queue order
  mod_instances     \* per module: its own instances, in queue order

hierarchyVars == <<modules, resource, instances, default_parent,
                   child_instances, mod_instances>>

HierarchyInit ==
  /\ modules = {}
  /\ resource = {}
  /\ instances = [n \in Name |-> NULL]
  /\ default_parent = [m \in Name |-> NULL]
  /\ child_instances = [m \in Name |-> <<>>]
  /\ mod_instances = [m \in Name |-> <<>>]

-----------------------------------------------------------------------------
(* ig_lib_gen_hierarchy: the climb from a module through its default       *)
(* instance to the module around it, until an instance has no parent.      *)

ClosedUpwards(S) == \A x \in S : default_parent[x] \in S \cup {NULL}

Up(m) == {x \in Name : \A S \in SUBSET Name :
                          m \in S /\ ClosedUpwards(S) => x \in S}

Root(m) == CHOOSE r \in Up(m) : default_parent[r] = NULL

(* Faults, to see the properties fail: only the parent itself, or only the *)
(* module next above it, is compared.                                      *)
WouldCycle_ParentOnly(child, parent) == child = parent
WouldCycle_NextAbove(child, parent) == default_parent[parent] = child

(* ig_lib_check_cycle: placing child in parent closes a cycle exactly when *)
(* child is the root above parent.                                         *)
WouldCycle(child, parent) == Root(parent) = child

-----------------------------------------------------------------------------
(* ig_lib_add_module *)
AddModule(m, isResource) ==
  /\ m \notin modules
  /\ modules' = modules \cup {m}
  /\ resource' = IF isResource THEN resource \cup {m} ELSE resource
  /\ UNCHANGED <<instances, default_parent, child_instances, mod_instances>>

(* Fault: the instance is pushed to the queue of the module it is of.      *)
Enter_WrongQueue(i, type, parent) ==
  /\ instances[i] = NULL
  /\ parent \notin resource
  /\ instances' = [instances EXCEPT ![i] = [module |-> type, parent |-> parent]]
  /\ child_instances' = [child_instances EXCEPT ![type] = Append(@, i)]
  /\ mod_instances' = [mod_instances EXCEPT ![type] = Append(@, i)]
  /\ UNCHANGED <<modules, resource>>

(* The part of ig_lib_add_instance that both kinds of module share. *)
Enter(i, type, parent) ==
  /\ instances[i] = NULL
  /\ parent \notin resource
  /\ instances' = [instances EXCEPT ![i] = [module |-> type, parent |-> parent]]
  /\ child_instances' = [child_instances EXCEPT ![parent] = Append(@, i)]
  /\ mod_instances' = [mod_instances EXCEPT ![type] = Append(@, i)]
  /\ UNCHANGED <<modules, resource>>

(* ig_lib_add_instance of a generated module: its default instance is      *)
(* given a parent, once.                                                   *)
AddDefaultInstance(type, parent) ==
  /\ type \in modules \ resource
  /\ parent \in modules
  /\ default_parent[type] = NULL
  /\ ~ WouldCycle(type, parent)
  /\ Enter(type, type, parent)
  /\ default_parent' = [default_parent EXCEPT ![type] = parent]

(* ig_lib_add_instance of a resource module. *)
AddResourceInstance(i, type, parent) ==
  /\ type \in resource
  /\ parent \in modules
  /\ Enter(i, type, parent)
  /\ UNCHANGED default_parent

(* Fault: the module tables survive a reset. *)
Reset_KeepsModules ==
  /\ UNCHANGED <<modules, resource>>
  /\ instances' = [n \in Name |-> NULL]
  /\ default_parent' = [m \in Name |-> NULL]
  /\ child_instances' = [m \in Name |-> <<>>]
  /\ mod_instances' = [m \in Name |-> <<>>]

(* ig_lib_db_clear, as the hierarchy sees it: every table is emptied. *)
Reset ==
  /\ modules' = {}
  /\ resource' = {}
  /\ instances' = [n \in Name |-> NULL]
  /\ default_parent' = [m \in Name |-> NULL]
  /\ child_instances' = [m \in Name |-> <<>>]
  /\ mod_instances' = [m \in Name |-> <<>>]

HierarchyNext ==
  \/ \E m \in Name, isResource \in BOOLEAN : AddModule(m, isResource)
  \/ \E type, parent \in Name : AddDefaultInstance(type, parent)
  \/ \E i, type, parent \in Name : AddResourceInstance(i, type, parent)
  \/ Reset

HierarchySpec == HierarchyInit /\ [][HierarchyNext]_hierarchyVars

-----------------------------------------------------------------------------
(* Type correctness of the tables, flags, back-references and queues. *)
HierarchyTypeOK ==
  /\ modules \subseteq Name
  /\ resource \subseteq modules
  /\ instances \in [Name -> Instance \cup {NULL}]
  /\ default_parent \in [Name -> Name \cup {NULL}]
  /\ child_instances \in [Name -> Seq(Name)]
  /\ mod_instances \in [Name -> Seq(Name)]

(* No set of modules is closed under "is placed in": whatever the order of *)
(* the create_instance commands, the one comparison with the root that     *)
(* ig_lib_check_cycle makes keeps the hierarchy free of cycles.            *)
Acyclic == \A S \in SUBSET Name :
             S # {} => \E m \in S : default_parent[m] \notin S

(* The climb of ig_lib_gen_hierarchy, an endless loop in the code, stops   *)
(* from every module, and at one top module only.                          *)
ClimbEnds == \A m \in Name :
               \E r \in Up(m) : /\ default_parent[r] = NULL
                                /\ \A s \in Up(m) : default_parent[s] = NULL => s = r

(* The two queues an instance is pushed to and the back-references of the  *)
(* instance tell the same story: every table entry is in the queue of its  *)
(* parent and of its module, once, and in no other.                        *)
Entered(queue, i) == {k \in DOMAIN queue : queue[k] = i}

QueuesAgree ==
  \A i, m \in Name :
    /\ \A k, l \in Entered(child_instances[m], i) : k = l
    /\ \A k, l \in Entered(mod_instances[m], i) : k = l
    /\ Entered(child_instances[m], i) # {}
         <=> instances[i] # NULL /\ instances[i].parent = m
    /\ Entered(mod_instances[m], i) # {}
         <=> instances[i] # NULL /\ instances[i].module = m

(* A default instance has a parent exactly when the table holds it under   *)
(* its module's name; a resource instance that took this name keeps the    *)
(* module from being placed but is never mistaken for its default instance.*)
DefaultsInTable ==
  \A m \in Name :
    /\ m \in modules \ resource =>
         default_parent[m] = IF instances[m] # NULL /\ instances[m].module = m
                             THEN instances[m].parent ELSE NULL
    /\ m \notin modules \ resource => default_parent[m] = NULL

(* An entry refers to modules the database holds, and no resource module   *)
(* holds instances.                                                        *)
EntriesLive ==
  \A i \in Name : instances[i] # NULL =>
    /\ {instances[i].module, instances[i].parent} \subseteq modules
    /\ instances[i].parent \notin resource
    /\ instances[i].module \notin resource => i = instances[i].module

(* Tables, queues, flags and back-references describe one hierarchy. *)
TablesAgree == QueuesAgree /\ DefaultsInTable /\ EntriesLive

(* A module once placed stays where it is: only a reset, which takes all   *)
(* modules with it, ends a placement.                                      *)
StaysPlaced ==
  \A m \in Name : default_parent[m] # NULL =>
                    default_parent'[m] = default_parent[m] \/ modules' = {}

PlacedForGood == [][StaysPlaced]_hierarchyVars

(* The generated modules with their parents implement the forest.          *)
Forest == INSTANCE IgDesignForest WITH node <- modules \ resource,
                                       up <- default_parent

ImplementsForest == Forest!ForestSpec
=============================================================================
