--------------------------- MODULE IgDesignProofs ----------------------------
(***************************************************************************)
(* What scripts build a design with and see of it, for any names and any   *)
(* heap.                                                                   *)
(*                                                                         *)
(* First the hierarchy as the tables, queues and back-references of the    *)
(* objects hold it (IgObjects), which implements a forest.  Then what the  *)
(* commands that list objects return (IgQueries): DatabaseInv is ObjInv    *)
(* with one more fact, that all objects a script can meet are registered,  *)
(* and from it the lists agree.                                            *)
(***************************************************************************)
EXTENDS IgQueries, IgObjectsProofs, SequenceTheorems

(* The tables, the default instances and their parents make a forest.      *)
Modules == {a \in Addr : kind[a] = "module"}

(* What the refinement mapping is while no reset is under way: every       *)
(* module is in the tables under a name of its own, and its default        *)
(* instance is in a module or nowhere.                                     *)
ForestMap ==
  /\ Nodes = {NameOf(a) : a \in Modules} /\ Nodes \subseteq ModName
  /\ \A a, b \in Modules : NameOf(a) = NameOf(b) => a = b
  /\ \A a \in Modules :
       LET i == default_instance[a]
       IN  /\ i \in Addr /\ kind[i] = "instance" /\ parent[i] \in Modules \cup {NULL}
           /\ PlacedIn[NameOf(a)] = IF parent[i] = NULL THEN NULL ELSE NameOf(parent[i])
  /\ \A n \in ModName \ Nodes : PlacedIn[n] = NULL
  /\ PlacedIn = [n \in ModName |-> PlacedIn[n]]

(* Between resets each module is in the tables of modules. *)
LEMMA ModuleInTables ==
  ASSUME ObjInv, ~ clearing, NEW a \in Modules
  PROVE  /\ Ref(DB, "modules_by_name", NameOf(a), a) \in refs
         /\ Ref(DB, "modules_by_id", id[a], a) \in refs
         /\ NameOf(a) \in ModName /\ a \notin Elements(freeing)
<1>1. /\ a \in Addr /\ kind[a] = "module" /\ Live(a) /\ Shaped("module", id[a])
      /\ "module" \in Kind /\ "module" \in OwnTables
      /\ IdTable("module") = "modules_by_id" /\ NameTable("module") = "modules_by_name"
  BY Kinds, TableNames DEF Modules, Live, ObjInv, ObjectsShaped
<1>2. id[a] \in Seq(Kind \cup ModName \cup Local \cup Code \cup Reg \cup Net)
      /\ Len(id[a]) = 2 /\ id[a][2] \in ModName
  BY <1>1 DEF Shaped, Ids
<1>3. a \notin Elements(freeing)
  <2>1. freeing = <<>> \/ (Len(freeing) = 1 /\ kind[freeing[1]] # "module")
    BY DEF ObjInv, FreeingOK
  <2>2. freeing \in Seq(Addr)
    BY DEF ObjInv, HeapTypeOK
  <2> QED
    BY <1>1, <2>1, <2>2 DEF Elements
<1>4. PICK r \in refs : r.obj = a /\ Sound(r)
  BY <1>1, <1>3 DEF ObjInv, CountsOK, HoldersOf
<1>5. r.holder = DB
  <2>1. r.holder # DB => BackReferenceOf(r)
    BY DEF ObjInv, QueuesOK
  <2> QED
    BY <1>1, <1>4, <2>1, Kinds DEF BackReferenceOf
<1>6. r \in TableRefs("module", id[a], a)
  BY <1>1, <1>4, <1>5 DEF Sound
<1>7. EntryOf(r, "module", id[a])
  <2>1. ~ \E s \in failed : EntryOf(r, "net", <<"net", s>>)
    BY <1>1, <1>4, <1>6, NetEntries DEF EntryOf
  <2> QED
    BY <1>1, <1>4, <1>5, <2>1 DEF ObjInv, TablesOK
<1>8. TableRefs("module", id[a], a) \subseteq refs
  BY <1>4, <1>7 DEF EntryOf
<1> QED
  BY <1>1, <1>2, <1>3, <1>8, TableRefsAre DEF NameOf

(* No two modules have one name, and the table of names leads to them.     *)
LEMMA ModuleNames ==
  ASSUME ObjInv, ~ clearing
  PROVE  /\ \A a, b \in Modules : NameOf(a) = NameOf(b) => a = b
         /\ \A a \in Modules : AddrOf(NameOf(a)) = a
         /\ Nodes = {NameOf(a) : a \in Modules} /\ Nodes \subseteq ModName
<1>1. ASSUME NEW a \in Modules, NEW b \in Modules, NameOf(a) = NameOf(b)
      PROVE  a = b
  <2> DEFINE q == Ref(DB, "modules_by_name", NameOf(a), a)
             r == Ref(DB, "modules_by_name", NameOf(b), b)
  <2>1. q \in refs /\ r \in refs
    BY ModuleInTables
  <2>2. /\ q.holder = DB /\ r.holder = DB /\ q.slot = r.slot /\ q.key = r.key
        /\ q.obj = a /\ r.obj = b
    BY <1>1, RefFields
  <2> HIDE DEF q, r
  <2>3. q.obj = r.obj
    BY <2>1, <2>2 DEF ObjInv, TablesOK
  <2> QED
    BY <2>2, <2>3
<1>2. ASSUME NEW a \in Modules
      PROVE  AddrOf(NameOf(a)) = a
  <2>1. Found("modules_by_id", a)
    BY ModuleInTables, RefFields DEF Found
  <2>2. \A b \in Addr : kind[b] = "module" /\ NameOf(b) = NameOf(a) => b = a
    BY <1>1 DEF Modules
  <2>3. a \in Addr /\ kind[a] = "module"
    BY DEF Modules
  <2> QED
    BY <2>1, <2>2, <2>3 DEF AddrOf
<1>3. ASSUME NEW n
      PROVE  n \in Nodes <=> \E a \in Modules : n = NameOf(a)
  <2>1. Nodes = {NameOf(r.obj) : r \in {s \in refs : s.holder = DB /\ s.slot = "modules_by_name"
                                                    /\ kind[s.obj] = "module"}}
    BY DEF Nodes
  <2>2. ASSUME n \in Nodes
        PROVE  \E a \in Modules : n = NameOf(a)
    <3>1. PICK r \in refs : kind[r.obj] = "module" /\ n = NameOf(r.obj)
      BY <2>1, <2>2
    <3> QED
      BY <3>1 DEF Modules, ObjInv, HeapTypeOK
  <2>3. ASSUME NEW a \in Modules, n = NameOf(a)
        PROVE  n \in Nodes
    <3>1. PICK r \in refs : r.holder = DB /\ r.slot = "modules_by_name" /\ r.obj = a
      BY ModuleInTables, RefFields
    <3> QED
      BY <2>1, <2>3, <3>1 DEF Modules
  <2> QED
    BY <2>2, <2>3
<1>4. Nodes = {NameOf(a) : a \in Modules}
  BY <1>3
<1> QED
  BY <1>1, <1>2, <1>4, ModuleInTables

(* A default instance is placed in a module or nowhere. *)
LEMMA DefaultParent ==
  ASSUME ObjInv, ~ clearing, NEW a \in Modules
  PROVE  /\ default_instance[a] \in Addr /\ kind[default_instance[a]] = "instance"
         /\ parent[default_instance[a]] \in Modules \cup {NULL}
<1> DEFINE i == default_instance[a]
<1>1. a \in Addr /\ kind[a] = "module" /\ a \notin Elements(freeing)
  BY ModuleInTables DEF Modules
<1>2. i \in Addr /\ kind[i] = "instance"
  BY <1>1, FreedOnceInv DEF FreedOnce, ObjInv, InstancesOK
<1> HIDE DEF i
<1>3. ASSUME parent[i] # NULL
      PROVE  parent[i] \in Modules
  <2> DEFINE r == Ref(parent[i], "child_instances", NULL, i)
  <2>1. r \in refs /\ parent[i] \in Addr
    BY <1>2, <1>3, ParentQueues DEF ObjInv, QueuesOK, HeapTypeOK
  <2>2. r.holder = parent[i] /\ r.slot = "child_instances" /\ r.holder # DB
    BY <2>1, RefFields, HolderAssumption
  <2> HIDE DEF r
  <2>3. Live(parent[i]) /\ "child_instances" \in Elements(Queues[kind[parent[i]]])
    BY <2>1, <2>2 DEF ObjInv, QueuesOK
  <2>4. kind[parent[i]] \in Kind
    BY <2>1, <2>3 DEF ObjInv, HeapTypeOK, Live
  <2> QED
    BY <2>1, <2>3, <2>4, QueueSlots, Kinds DEF Modules
<1> QED
  BY <1>2, <1>3 DEF i

(* The mapping is as ForestMap says. *)
LEMMA ForestMapHolds == ObjInv /\ ~ clearing => ForestMap
<1> SUFFICES ASSUME ObjInv, ~ clearing
             PROVE  ForestMap
  OBVIOUS
<1>1. ASSUME NEW a \in Modules
      PROVE  LET i == default_instance[a]
             IN  PlacedIn[NameOf(a)] = IF parent[i] = NULL THEN NULL ELSE NameOf(parent[i])
  <2>1. NameOf(a) \in Nodes /\ NameOf(a) \in ModName /\ AddrOf(NameOf(a)) = a
    BY ModuleNames
  <2> QED
    BY <2>1 DEF PlacedIn
<1>2. \A n \in ModName \ Nodes : PlacedIn[n] = NULL
  BY DEF PlacedIn
<1>3. PlacedIn = [n \in ModName |-> PlacedIn[n]]
  BY DEF PlacedIn
<1> QED
  BY <1>1, <1>2, <1>3, ModuleNames, DefaultParent DEF ForestMap

LEMMA ForestMapNext == ObjInv' /\ ~ clearing' => ForestMap'
BY ForestMapHolds, PTL

(* Without nodes nothing is placed. *)
LEMMA NothingPlaced == Nodes = {} => PlacedIn = [n \in ModName |-> NULL]
BY DEF PlacedIn

LEMMA NothingPlacedNext == Nodes' = {} => PlacedIn' = [n \in ModName |-> NULL]
BY DEF PlacedIn

(* A step in which modules stay as they are and where they are, and new    *)
(* ones are placed nowhere.                                                *)
LEMMA ForestGrown ==
  ASSUME ObjInv, ObjInv', ~ clearing, ~ clearing', Modules \subseteq Modules',
         \A a \in Modules :
           LET i == default_instance[a]
           IN  id'[a] = id[a] /\ default_instance'[a] = i /\ parent'[i] = parent[i],
         \A a \in Modules' \ Modules : parent'[default_instance'[a]] = NULL
  PROVE  /\ Nodes' = Nodes \cup {NameOf(a)' : a \in Modules' \ Modules}
         /\ PlacedIn' = PlacedIn
<1>1. ForestMap /\ ForestMap'
  BY ForestMapHolds, ForestMapNext
<1>2. \A a \in Modules : NameOf(a)' = NameOf(a)
  BY DEF NameOf
<1>3. /\ Nodes = {NameOf(a) : a \in Modules}
      /\ Nodes' = {NameOf(a)' : a \in Modules'}
  BY <1>1 DEF ForestMap
<1>4. ASSUME NEW n \in ModName
      PROVE  PlacedIn'[n] = PlacedIn[n]
  <2>1. CASE n \in Nodes
    <3>1. PICK a \in Modules : n = NameOf(a)
      BY <1>3, <2>1
    <3> DEFINE i == default_instance[a]
    <3>2. /\ parent[i] \in Modules \cup {NULL}
          /\ PlacedIn[n] = IF parent[i] = NULL THEN NULL ELSE NameOf(parent[i])
      BY <1>1, <3>1 DEF ForestMap
    <3>3. a \in Modules' /\ NameOf(a)' = n /\ default_instance'[a] = i /\ parent'[i] = parent[i]
      BY <1>2, <3>1
    <3>4. PlacedIn'[NameOf(a)'] = IF parent'[default_instance'[a]] = NULL THEN NULL
                                  ELSE NameOf(parent[i])'
      BY <1>1, <3>3 DEF ForestMap
    <3> QED
      BY <1>2, <3>2, <3>3, <3>4
  <2>2. CASE n \notin Nodes
    <3>1. PlacedIn[n] = NULL
      BY <1>1, <2>2 DEF ForestMap
    <3>2. CASE n \notin Nodes'
      BY <1>1, <3>1, <3>2 DEF ForestMap
    <3>3. ASSUME NEW a \in Modules', n = NameOf(a)'
          PROVE  PlacedIn'[n] = NULL
      <4>1. a \notin Modules
        BY <1>2, <1>3, <2>2, <3>3
      <4> QED
        BY <1>1, <3>3, <4>1 DEF ForestMap
    <3> QED
      BY <1>3, <3>1, <3>2, <3>3
  <2> QED
    BY <2>1, <2>2
<1>5. PlacedIn' = PlacedIn
  <2>1. /\ PlacedIn = [n \in ModName |-> PlacedIn[n]]
        /\ PlacedIn' = [n \in ModName |-> PlacedIn'[n]]
    BY <1>1 DEF ForestMap
  <2> QED
    BY <1>4, <2>1
<1> QED
  BY <1>2, <1>3, <1>5

(* Objects of other types are made at free addresses, where neither a      *)
(* module nor its default instance is.                                     *)
LEMMA ForestKeptByNew ==
  ASSUME ObjInv, ObjInv', ~ clearing, ~ clearing', NEW S, NEW at \in Placements(S),
         \A x \in S : x.kind \in Kind \ {"module"},
         kind' = [a \in Addr |-> IF a \in DOMAIN at THEN at[a].kind ELSE kind[a]],
         id' = [a \in Addr |-> IF a \in DOMAIN at THEN at[a].id ELSE id[a]],
         parent' = [a \in Addr |-> IF a \in DOMAIN at THEN at[a].parent ELSE parent[a]],
         UNCHANGED default_instance
  PROVE  UNCHANGED HeapForest!forestVars
<1>1. /\ \A a \in DOMAIN at : a \in Addr /\ kind[a] = "free" /\ at[a] \in S
  BY PlacementFacts DEF FreeAddr
<1>2. ForestMap
  BY ForestMapHolds
<1>3. ASSUME NEW a \in Modules
      PROVE  /\ a \in Addr \ DOMAIN at /\ default_instance[a] \in Addr \ DOMAIN at
  <2>1. kind[default_instance[a]] = "instance" /\ default_instance[a] \in Addr
    BY <1>2 DEF ForestMap
  <2> QED
    BY <1>1, <2>1 DEF Modules
<1>4. Modules' = Modules
  <2>1. \A a \in Addr : kind'[a] = "module" <=> kind[a] = "module"
    BY <1>1
  <2> QED
    BY <2>1 DEF Modules
<1>5. \A a \in Modules : LET i == default_instance[a]
                         IN  id'[a] = id[a] /\ default_instance'[a] = i /\ parent'[i] = parent[i]
  BY <1>3
<1> QED
  <2>1. {NameOf(a)' : a \in Modules' \ Modules} = {}
    BY <1>4
  <2> QED
    BY <1>4, <1>5, <2>1, ForestGrown DEF HeapForest!forestVars

(* Items of an object are neither modules nor instances. *)
LEMMA ItemsKeepForest ==
  ASSUME ObjInv, ObjInv', Idle, NEW S, AddItems(S),
         \A x \in S : x.kind \in Kind \ {"module"}
  PROVE  UNCHANGED HeapForest!forestVars
<1>1. PICK at \in Placements(S) : Allocate(at)
  BY DEF AddItems
<1>2. ~ clearing /\ ~ clearing' /\ UNCHANGED default_instance
  BY DEF AddItems, Idle
<1> QED
  BY <1>1, <1>2, ForestKeptByNew DEF Allocate

(* The commands that make anything else than a module. *)
LEMMA BuildKeepsForest ==
  ASSUME ObjInv, ObjInv', Build,
         ~ \E n \in ModName : CreateModule(n),
         ~ \E t, p \in Addr : PlaceModule(t, p)
  PROVE  UNCHANGED HeapForest!forestVars
<1>0. \A k, o, n : Item(k, o, n).kind = k
  BY ObjectFields DEF Item
<1>1. ASSUME NEW n \in ModName, CreateResourceModule(n)
      PROVE  UNCHANGED HeapForest!forestVars
  <2> DEFINE x == Object("resource", <<"module", n>>, NULL, RefsTaken.resource)
  <2>1. PICK at \in Placements({x}) : Allocate(at)
    BY <1>1 DEF CreateResourceModule
  <2>2. x.kind \in Kind \ {"module"}
    BY ObjectFields, Kinds
  <2>3. ~ clearing /\ ~ clearing' /\ UNCHANGED default_instance
    BY <1>1 DEF CreateResourceModule, Idle
  <2> HIDE DEF x
  <2> QED
    BY <2>1, <2>2, <2>3, ForestKeptByNew DEF Allocate
<1>2. ASSUME NEW n \in ModName, NEW t \in Addr, NEW p \in Addr, PlaceResource(n, t, p)
      PROVE  UNCHANGED HeapForest!forestVars
  <2> DEFINE x == Object("instance", <<"instance", id[p][2], n>>, p, RefsTaken.instance)
  <2>1. PICK at \in Placements({x}) : Allocate(at)
    BY <1>2 DEF PlaceResource
  <2>2. x.kind \in Kind \ {"module"}
    BY ObjectFields, Kinds
  <2>3. ~ clearing /\ ~ clearing' /\ UNCHANGED default_instance
    BY <1>2 DEF PlaceResource, Idle
  <2> HIDE DEF x
  <2> QED
    BY <2>1, <2>2, <2>3, ForestKeptByNew DEF Allocate
<1>3. ASSUME NEW i \in Addr, NEW n \in Local, CreatePin(i, n)
      PROVE  UNCHANGED HeapForest!forestVars
  <2>1. Idle /\ \E S \in SUBSET {Item("pin", i, n), Item("port", module[i], n)} : AddItems(S)
    BY <1>3 DEF CreatePin
  <2> QED
    BY <1>0, <2>1, ItemsKeepForest, Kinds
<1>4. ASSUME NEW o \in Addr, NEW n \in Reg, AddRegfile(o, n) \/ AddEntry(o, n) \/ AddRegister(o, n)
      PROVE  UNCHANGED HeapForest!forestVars
  <2>1. Idle /\ \E k \in {"regfile", "entry", "register"} : AddItems({Item(k, o, n)})
    BY <1>4 DEF AddRegfile, AddEntry, AddRegister
  <2> QED
    BY <1>0, <2>1, ItemsKeepForest, Kinds
<1>5. ASSUME NEW m \in Addr, NEW n \in Code, AddCodesection(m, n)
      PROVE  UNCHANGED HeapForest!forestVars
  <2> DEFINE x == Item("codesection", m, n)
  <2>1. PICK at \in Placements({x}) :
          /\ kind'   = [a \in Addr |-> IF a \in DOMAIN at THEN x.kind   ELSE kind[a]]
          /\ id'     = [a \in Addr |-> IF a \in DOMAIN at THEN x.id     ELSE id[a]]
          /\ parent' = [a \in Addr |-> IF a \in DOMAIN at THEN x.parent ELSE parent[a]]
    BY <1>5 DEF AddCodesection
  <2>2. x.kind \in Kind \ {"module"}
    BY <1>0, Kinds
  <2>3. ~ clearing /\ ~ clearing' /\ UNCHANGED default_instance
    BY <1>5 DEF AddCodesection, Idle
  <2> HIDE DEF x
  <2>4. \A a \in DOMAIN at : at[a] = x
    BY <2>2, PlacementFacts
  <2>5. /\ kind'   = [a \in Addr |-> IF a \in DOMAIN at THEN at[a].kind   ELSE kind[a]]
        /\ id'     = [a \in Addr |-> IF a \in DOMAIN at THEN at[a].id     ELSE id[a]]
        /\ parent' = [a \in Addr |-> IF a \in DOMAIN at THEN at[a].parent ELSE parent[a]]
    BY <2>1, <2>4
  <2> QED
    BY <2>2, <2>3, <2>5, ForestKeptByNew
<1>6. ASSUME NEW s \in Net, NEW p \in Addr, NEW i \in Addr, NEW n \in Local,
             Connect(s, p, i, n) \/ ConnectFails(s, p, i, n)
      PROVE  UNCHANGED HeapForest!forestVars
  <2>1. \A x \in Points(p, i, n) \cup {NetObject(s)} : x.kind \in Kind \ {"module"}
    BY <1>0, ObjectFields, Kinds DEF Points, NetObject
  <2>2. \A x \in Points(p, i, n) : [x EXCEPT !.taken = @ + 1].kind = x.kind
    BY DEF Points, Item, Object
  <2>3. \E S : /\ \A x \in S : x.kind \in Kind \ {"module"}
               /\ \E at \in Placements(S) : Allocate(at)
    <3>1. CASE Connect(s, p, i, n)
      <4> DEFINE S == {[x EXCEPT !.taken = @ + 1] : x \in Points(p, i, n)} \cup {NetObject(s)}
      <4>1. \E at \in Placements(S) : Allocate(at)
        BY <3>1 DEF Connect
      <4>2. \A x \in S : x.kind \in Kind \ {"module"}
        BY <2>1, <2>2
      <4> QED
        BY <4>1, <4>2
    <3>2. CASE ConnectFails(s, p, i, n)
      <4> DEFINE S == {x \in Points(p, i, n) : ~ Exists(x)} \cup {NetObject(s)}
      <4>1. \E at \in Placements(S) : Allocate(at)
        BY <3>2 DEF ConnectFails
      <4>2. \A x \in S : x.kind \in Kind \ {"module"}
        BY <2>1
      <4> QED
        BY <4>1, <4>2
    <3> QED
      BY <1>6, <3>1, <3>2
  <2>4. ~ clearing /\ ~ clearing' /\ UNCHANGED default_instance
    BY <1>6 DEF Connect, ConnectFails, Idle
  <2> QED
    BY <2>3, <2>4, ForestKeptByNew DEF Allocate
<1> QED
  BY <1>1, <1>2, <1>3, <1>4, <1>5, <1>6 DEF Build

(* A new module is a new node, placed nowhere. *)
LEMMA CreateModuleGrows ==
  ASSUME ObjInv, ObjInv', NEW n \in ModName, CreateModule(n)
  PROVE  HeapForest!Grow(n)
<1> DEFINE m == Object("module", <<"module", n>>, NULL, RefsTaken.module)
           i == Object("instance", <<"instance", n>>, NULL, 1)
<1>1. PICK at \in Placements({m, i}), ma \in FreeAddr, ia \in FreeAddr :
        /\ {ma, ia} \subseteq DOMAIN at /\ at[ma] = m /\ at[ia] = i
        /\ Allocate(at)
        /\ default_instance' = [default_instance EXCEPT ![ma] = ia]
  BY DEF CreateModule
<1>2. ~ clearing /\ ~ clearing' /\ ~ Holds("modules_by_name", n)
  BY DEF CreateModule, Idle
<1>3. /\ m.kind = "module" /\ m.id = <<"module", n>> /\ m.parent = NULL
      /\ i.kind = "instance" /\ i.id = <<"instance", n>> /\ i.parent = NULL
      /\ "module" \in Kind /\ "instance" \in Kind
  BY ObjectFields, Kinds
<1> HIDE DEF m, i
<1>4. /\ DOMAIN at = {ma, ia} /\ ma # ia /\ ma \in Addr /\ ia \in Addr
      /\ kind[ma] = "free" /\ kind[ia] = "free"
  <2>1. /\ \A a \in DOMAIN at : at[a] \in {m, i}
        /\ \A a, b \in DOMAIN at : at[a] = at[b] => a = b
    BY <1>3, PlacementFacts
  <2> QED
    BY <1>1, <1>3, <2>1 DEF FreeAddr
<1>5. /\ kind'[ma] = "module" /\ id'[ma] = <<"module", n>>
      /\ kind'[ia] = "instance" /\ parent'[ia] = NULL
      /\ \A a \in Addr \ {ma, ia} : kind'[a] = kind[a] /\ id'[a] = id[a] /\ parent'[a] = parent[a]
  BY <1>1, <1>3, <1>4 DEF Allocate
<1>6. /\ default_instance'[ma] = ia
      /\ \A a \in Addr \ {ma} : default_instance'[a] = default_instance[a]
  BY <1>1, <1>4 DEF ObjInv, HeapTypeOK
<1>7. Modules' = Modules \cup {ma} /\ ma \notin Modules /\ ia \notin Modules
  BY <1>4, <1>5 DEF Modules
<1>8. ForestMap
  BY <1>2, ForestMapHolds
<1>9. ASSUME NEW a \in Modules
      PROVE  LET j == default_instance[a]
             IN  id'[a] = id[a] /\ default_instance'[a] = j /\ parent'[j] = parent[j]
  <2>1. /\ default_instance[a] \in Addr /\ kind[default_instance[a]] = "instance"
        /\ a \in Addr \ {ma, ia}
    BY <1>7, <1>8 DEF ForestMap, Modules
  <2> QED
    BY <1>4, <1>5, <1>6, <2>1
<1>10. Nodes' = Nodes \cup {n} /\ PlacedIn' = PlacedIn
  <2>1. NameOf(ma)' = n
    BY <1>5 DEF NameOf
  <2>2. {NameOf(a)' : a \in Modules' \ Modules} = {n}
    BY <1>7, <2>1
  <2>3. \A a \in Modules' \ Modules : parent'[default_instance'[a]] = NULL
    BY <1>5, <1>6, <1>7
  <2> QED
    BY <1>2, <1>7, <1>9, <2>2, <2>3, ForestGrown
<1>11. n \notin Nodes
  <2> SUFFICES ASSUME NEW a \in Modules, n = NameOf(a) PROVE FALSE
    BY <1>8 DEF ForestMap
  <2> QED
    BY <1>2, ModuleInTables, RefFields DEF Holds, Entries
<1> QED
  BY <1>10, <1>11 DEF HeapForest!Grow

(* A module that the climb from p does not meet is not below p: the        *)
(* modules outside a set closed under "is in" are closed under "contains". *)
LEMMA NotAboveNotBelowHeap ==
  ASSUME ObjInv, ~ clearing, NEW t \in Modules, NEW p \in Modules, t \notin Above(p)
  PROVE  NameOf(p) \notin HeapForest!Below(NameOf(t))
<1>1. ForestMap
  BY ForestMapHolds
<1>2. PICK S \in SUBSET Modules :
        /\ p \in S /\ t \notin S
        /\ \A y \in S : parent[default_instance[y]] \in S \cup {NULL}
  BY DEF Above, Modules
<1> DEFINE U == ModName \ {NameOf(y) : y \in S}
<1>3. NameOf(t) \in U /\ NameOf(p) \notin U
  <2>1. \A y \in S : NameOf(y) # NameOf(t)
    BY <1>1, <1>2 DEF ForestMap
  <2> QED
    BY <1>1, <1>2, <2>1 DEF ForestMap
<1>4. ASSUME NEW n \in ModName, PlacedIn[n] \in U
      PROVE  n \in U
  <2> SUFFICES ASSUME NEW y \in S, n = NameOf(y) PROVE FALSE
    OBVIOUS
  <2> DEFINE i == default_instance[y]
  <2>1. PlacedIn[n] = IF parent[i] = NULL THEN NULL ELSE NameOf(parent[i])
    BY <1>1 DEF ForestMap
  <2>2. parent[i] \in S \cup {NULL}
    BY <1>2
  <2> QED
    BY <1>4, <2>1, <2>2, ModNameAssumption
<1> HIDE DEF U
<1>5. U \in SUBSET ModName
  BY DEF U
<1> QED
  BY <1>3, <1>4, <1>5 DEF HeapForest!Below

(* Placing a module is a placement of the forest. *)
LEMMA PlaceModulePlaces ==
  ASSUME ObjInv, ObjInv', NEW t \in Addr, NEW p \in Addr, PlaceModule(t, p)
  PROVE  HeapForest!Place(NameOf(t), NameOf(p))
<1>1. /\ ~ clearing /\ ~ clearing' /\ t \in Modules /\ p \in Modules /\ t \notin Above(p)
      /\ parent[default_instance[t]] = NULL
      /\ parent' = [parent EXCEPT ![default_instance[t]] = p]
      /\ UNCHANGED <<kind, id, default_instance>>
  BY DEF PlaceModule, Idle, Modules
<1>2. ForestMap /\ ForestMap'
  BY <1>1, ForestMapHolds, ForestMapNext
<1>3. Modules' = Modules /\ \A a : NameOf(a)' = NameOf(a)
  BY <1>1 DEF Modules, NameOf
<1>4. Nodes' = Nodes
  <2>1. Nodes = {NameOf(a) : a \in Modules} /\ Nodes' = {NameOf(a)' : a \in Modules'}
    BY <1>2 DEF ForestMap
  <2> QED
    BY <1>3, <2>1
<1>5. NameOf(t) \in Nodes /\ NameOf(p) \in Nodes /\ Nodes \subseteq ModName
  BY <1>1, <1>2 DEF ForestMap
<1>6. PlacedIn[NameOf(t)] = NULL
  BY <1>1, <1>2 DEF ForestMap
<1>7. \A a, b \in Modules : default_instance[a] = default_instance[b] => a = b
  <2>1. \A a \in Modules : module[default_instance[a]] = a
    <3> TAKE a \in Modules
    <3>1. a \in Addr /\ kind[a] = "module" /\ a \notin Elements(freeing)
      BY <1>1, ModuleInTables DEF Modules
    <3> QED
      BY <3>1, FreedOnceInv DEF FreedOnce
  <2> QED
    BY <2>1
<1>8. ASSUME NEW n \in ModName
      PROVE  PlacedIn'[n] = IF n = NameOf(t) THEN NameOf(p) ELSE PlacedIn[n]
  <2>1. CASE n \notin Nodes
    BY <1>2, <1>4, <1>5, <2>1 DEF ForestMap
  <2>2. ASSUME NEW a \in Modules, n = NameOf(a)
        PROVE  PlacedIn'[n] = IF n = NameOf(t) THEN NameOf(p) ELSE PlacedIn[n]
    <3> DEFINE i == default_instance[a]
    <3>1. /\ i \in Addr /\ parent[i] \in Modules \cup {NULL}
          /\ PlacedIn[n] = IF parent[i] = NULL THEN NULL ELSE NameOf(parent[i])
          /\ n = NameOf(t) => a = t
      BY <1>1, <1>2, <2>2 DEF ForestMap
    <3>2. PlacedIn'[n] = IF parent'[i] = NULL THEN NULL ELSE NameOf(parent'[i])
      <4>1. a \in Modules' /\ NameOf(a)' = n /\ default_instance'[a] = i
        BY <1>1, <1>3, <2>2
      <4>2. PlacedIn'[NameOf(a)'] = IF parent'[i] = NULL THEN NULL ELSE id'[parent'[i]][2]
        BY <1>2, <4>1 DEF ForestMap, NameOf
      <4> QED
        BY <1>1, <4>1, <4>2 DEF NameOf
    <3>3. CASE a = t
      <4>1. parent'[i] = p /\ p # NULL
        BY <1>1, <3>1, <3>3, HolderAssumption DEF ObjInv, HeapTypeOK, Modules
      <4> QED
        BY <2>2, <3>2, <3>3, <4>1
    <3>4. CASE a # t
      <4>1. parent'[i] = parent[i]
        BY <1>1, <1>7, <3>1, <3>4 DEF ObjInv, HeapTypeOK
      <4> QED
        BY <3>1, <3>2, <3>4, <4>1
    <3> QED
      BY <3>3, <3>4
  <2> QED
    BY <1>2, <2>1, <2>2 DEF ForestMap
<1>9. PlacedIn' = [PlacedIn EXCEPT ![NameOf(t)] = NameOf(p)]
  <2>1. /\ PlacedIn = [n \in ModName |-> PlacedIn[n]]
        /\ PlacedIn' = [n \in ModName |-> PlacedIn'[n]]
    BY <1>2 DEF ForestMap
  <2> QED
    BY <1>8, <2>1
<1>10. NameOf(p) \notin HeapForest!Below(NameOf(t))
  BY <1>1, NotAboveNotBelowHeap
<1> QED
  BY <1>4, <1>5, <1>6, <1>9, <1>10 DEF HeapForest!Place

(* The steps of a reset: all is gone for the forest when it begins. *)
LEMMA ClearForest ==
  ASSUME ObjInv, ObjInv', Clear
  PROVE  HeapForest!Clear \/ UNCHANGED HeapForest!forestVars
<1>1. clearing => Nodes = {} /\ PlacedIn = [n \in ModName |-> NULL]
  BY NothingPlaced DEF Nodes
<1>2. clearing' => Nodes' = {} /\ PlacedIn' = [n \in ModName |-> NULL]
  BY NothingPlacedNext DEF Nodes
<1>3. CASE clearing /\ clearing'
  BY <1>1, <1>2, <1>3 DEF HeapForest!forestVars
<1>4. CASE ResetBegins
  BY <1>2, <1>4 DEF ResetBegins, HeapForest!Clear
<1>5. CASE ResetDone
  <2>1. /\ clearing /\ ~ clearing' /\ freeing = <<>> /\ UNCHANGED <<refs, kind, id>>
        /\ \A t \in Elements(TableOrder) : InSlot(DB, t) = {}
    BY <1>5 DEF ResetDone, heapVars
  <2>2. "modules_by_name" \in Elements(TableOrder)
    BY SlotLists DEF TableSlots
  <2>3. \A r \in refs : ~ (r.holder = DB /\ r.slot = "modules_by_name")
    BY <2>1, <2>2 DEF InSlot
  <2>4. Nodes' = {}
    BY <2>1, <2>3 DEF Nodes
  <2> QED
    BY <1>1, <2>1, <2>4, NothingPlacedNext DEF HeapForest!forestVars
<1>6. ASSUME Release, ~ clearing
      PROVE  UNCHANGED HeapForest!forestVars
  <2>1. freeing # <<>> /\ freeing \in Seq(Addr)
    BY <1>6 DEF Release, ObjInv, HeapTypeOK
  <2>2. PICK o \in Addr : o = freeing[1] /\ kind[o] \in {"net", "codesection"}
    BY <1>6, <2>1 DEF ObjInv, FreeingOK
  <2>3. /\ kind' = [kind EXCEPT ![o] = "free"] /\ id' = [id EXCEPT ![o] = <<>>]
        /\ parent' = [parent EXCEPT ![o] = NULL]
        /\ default_instance' = [default_instance EXCEPT ![o] = NULL]
        /\ ~ clearing'
    BY <1>6, <2>2 DEF Release
  <2>4. /\ \A a \in Addr \ {o} : /\ kind'[a] = kind[a] /\ id'[a] = id[a] /\ parent'[a] = parent[a]
                                 /\ default_instance'[a] = default_instance[a]
        /\ kind'[o] = "free"
    BY <2>3 DEF ObjInv, HeapTypeOK
  <2>5. Modules' = Modules /\ o \notin Modules
    BY <2>2, <2>4 DEF Modules
  <2>6. ASSUME NEW a \in Modules
        PROVE  LET i == default_instance[a]
               IN  id'[a] = id[a] /\ default_instance'[a] = i /\ parent'[i] = parent[i]
    <3>1. kind[default_instance[a]] = "instance" /\ default_instance[a] \in Addr
      BY <1>6, ForestMapHolds DEF ForestMap
    <3> QED
      BY <2>2, <2>4, <2>5, <3>1 DEF Modules
  <2>7. {NameOf(a)' : a \in Modules' \ Modules} = {}
    BY <2>5
  <2> QED
    BY <1>6, <2>3, <2>5, <2>6, <2>7, ForestGrown DEF HeapForest!forestVars
<1>7. CASE ClearEntry \/ FreeChild
  <2>1. clearing /\ clearing'
    BY <1>7, FreeingChildren DEF ClearEntry, FreeChild
  <2> QED
    BY <1>3, <2>1
<1>8. CASE Release /\ clearing
  BY <1>3, <1>8 DEF Release
<1> QED
  BY <1>4, <1>5, <1>6, <1>7, <1>8 DEF Clear

(* What create_module, create_instance and reset do to tables, queues and  *)
(* objects is what the forest promises: a module that exists is found,     *)
(* placed at most once, never below itself, and stays where it is until a  *)
(* reset, whatever else is made, connected and freed around it.            *)
THEOREM ObjectsImplementForest == ObjectSpec => HeapImplementsForest
<1>1. ObjectInit => HeapForest!ForestInit
  <2> SUFFICES ASSUME ObjectInit PROVE HeapForest!ForestInit
    OBVIOUS
  <2>1. Nodes = {}
    BY DEF ObjectInit, Nodes
  <2> QED
    BY <2>1, NothingPlaced DEF HeapForest!ForestInit
<1>2. ObjInv /\ ObjInv' /\ [ObjectNext]_objectVars => [HeapForest!ForestNext]_(HeapForest!forestVars)
  <2> SUFFICES ASSUME ObjInv, ObjInv', [ObjectNext]_objectVars
               PROVE  HeapForest!ForestNext \/ UNCHANGED HeapForest!forestVars
    OBVIOUS
  <2>1. CASE UNCHANGED objectVars
    BY <2>1 DEF objectVars, heapVars, HeapForest!forestVars, Nodes, PlacedIn, AddrOf, NameOf, Found
  <2>2. CASE Clear
    BY <2>2, ClearForest DEF HeapForest!ForestNext
  <2>3. ASSUME NEW n \in ModName, CreateModule(n)
        PROVE  HeapForest!ForestNext
    BY <2>3, CreateModuleGrows DEF HeapForest!ForestNext
  <2>4. ASSUME NEW t \in Addr, NEW p \in Addr, PlaceModule(t, p)
        PROVE  HeapForest!ForestNext
    <3>1. HeapForest!Place(NameOf(t), NameOf(p))
      BY <2>4, PlaceModulePlaces
    <3>2. NameOf(t) \in ModName /\ NameOf(p) \in ModName
      BY <2>4, ModuleInTables DEF PlaceModule, Idle, Modules
    <3> QED
      BY <3>1, <3>2 DEF HeapForest!ForestNext
  <2> QED
    BY <2>1, <2>2, <2>3, <2>4, BuildKeepsForest DEF ObjectNext
<1> QED
  BY <1>1, <1>2, ObjectInvariant, PTL
     DEF ObjectSpec, HeapImplementsForest, HeapForest!ForestSpec

-----------------------------------------------------------------------------
(* A step keeps the registration of what is there when it registers what   *)
(* it makes or places.                                                     *)
LEMMA PlacesGrow ==
  ASSUME ObjInv, PlacesOK, ~ clearing, NEW N,
         \A a \in Addr \ N :
           /\ kind'[a] = kind[a] /\ id'[a] = id[a] /\ parent'[a] = parent[a]
           /\ Live(a) /\ TableRefs(kind[a], id[a], a) \subseteq refs =>
                \/ TableRefs(kind[a], id[a], a) \subseteq refs'
                \/ kind[a] = "codesection" /\ Holds("objects_by_id", id[a])',
         \A i : Holds("objects_by_id", i) => Holds("objects_by_id", i)',
         \A a \in Addr : a \in N /\ Present(a)' => Registered(a)',
         \A r \in refs' \ refs : /\ r.slot = "default_instance" => r.obj \in Addr /\ ~ Live(r.obj)
                                 /\ r.slot = "pins" => parent[r.holder] # NULL
  PROVE  PlacesOK'
<1>1. ASSUME NEW a \in Addr, Present(a)'
      PROVE  Registered(a)'
  <2>1. CASE a \in N
    BY <1>1, <2>1
  <2>2. CASE a \notin N
    <3>1. Present(a) /\ Live(a)
      BY <1>1, <2>2 DEF Present, Live
    <3>2. Registered(a)
      BY <3>1 DEF PlacesOK
    <3> QED
      BY <2>2, <3>1, <3>2 DEF Registered
  <2> QED
    BY <2>1, <2>2
<1>2. ASSUME NEW r \in refs', r.slot = "default_instance", NEW q \in refs', q.slot = "pins",
             q.holder = r.obj
      PROVE  FALSE
  <2>1. CASE r \in refs
    <3>1. r.obj \in Addr /\ r.holder # DB
      BY <2>1, <1>2, RefFacts DEF TableSlots
    <3>2. parent[r.obj] = NULL
      BY <1>2, <2>1, <3>1, ParentQueues, Kinds DEF ObjInv, QueuesOK, BackReferenceOf
    <3>3. q \in refs
      BY <1>2, <3>2
    <3> QED
      BY <1>2, <2>1, <3>3 DEF PlacesOK, InSlot
  <2>2. CASE r \notin refs
    <3>1. r.obj \in Addr /\ ~ Live(r.obj) /\ parent[r.obj] = NULL
      BY <1>2, <2>2 DEF ObjInv, ObjectsShaped
    <3>2. q \in refs
      BY <1>2, <3>1
    <3> QED
      BY <1>2, <3>1, <3>2, HolderAssumption DEF ObjInv, QueuesOK
  <2> QED
    BY <2>1, <2>2
<1> QED
  BY <1>1, <1>2 DEF PlacesOK, InSlot

(* Making objects that get their entries and places. *)
LEMMA NewPlaces ==
  ASSUME ObjInv, PlacesOK, ~ clearing, NEW S, NEW at \in Placements(S),
         \A x \in S : /\ x.kind \in Kind
                      /\ x.kind \in DOMAIN ParentQueue \ {"instance"} => x.parent # NULL,
         kind' = [a \in Addr |-> IF a \in DOMAIN at THEN at[a].kind ELSE kind[a]],
         id' = [a \in Addr |-> IF a \in DOMAIN at THEN at[a].id ELSE id[a]],
         parent' = [a \in Addr |-> IF a \in DOMAIN at THEN at[a].parent ELSE parent[a]],
         \A a \in DOMAIN at : \/ at[a].kind = "instance" /\ at[a].parent = NULL
                              \/ TableRefs(at[a].kind, at[a].id, a) \subseteq refs',
         \A a \in Addr : Live(a) /\ TableRefs(kind[a], id[a], a) \subseteq refs =>
                \/ TableRefs(kind[a], id[a], a) \subseteq refs'
                \/ kind[a] = "codesection" /\ Holds("objects_by_id", id[a])',
         \A i : Holds("objects_by_id", i) => Holds("objects_by_id", i)',
         \A r \in refs' \ refs : /\ r.slot = "default_instance" => r.obj \in DOMAIN at
                                 /\ r.slot = "pins" => parent[r.holder] # NULL
  PROVE  PlacesOK'
<1>1. /\ \A a \in DOMAIN at : a \in Addr /\ kind[a] = "free" /\ at[a] \in S
  BY PlacementFacts DEF FreeAddr
<1>2. \A a \in DOMAIN at : kind'[a] = at[a].kind /\ id'[a] = at[a].id /\ parent'[a] = at[a].parent
  BY <1>1
<1>3. \A a \in Addr \ DOMAIN at : kind'[a] = kind[a] /\ id'[a] = id[a] /\ parent'[a] = parent[a]
  OBVIOUS
<1>4. ASSUME NEW a \in DOMAIN at, Present(a)'
      PROVE  Registered(a)'
  <2>1. ~ (at[a].kind = "instance" /\ at[a].parent = NULL)
    BY <1>2, <1>4 DEF Present
  <2> QED
    BY <1>1, <1>2, <2>1 DEF Registered
<1>5. \A r \in refs' \ refs : r.slot = "default_instance" => r.obj \in Addr /\ ~ Live(r.obj)
  BY <1>1 DEF Live
<1> QED
  BY <1>3, <1>4, <1>5, PlacesGrow

(* Making items, when pins go to instances that are placed. *)
LEMMA ItemPlaces ==
  ASSUME ObjInv, PlacesOK, ~ clearing, NEW S, AddItems(S),
         \A x \in S : /\ x.kind \in DOMAIN ParentQueue \ {"instance"} /\ x.parent # NULL
                      /\ x.kind = "pin" => parent[x.parent] # NULL
  PROVE  PlacesOK'
<1>1. PICK at \in Placements(S) :
        Allocate(at) /\ refs' = refs \cup NewTableRefs(at) \cup NewQueueRefs(at)
  BY DEF AddItems
<1>2. \A x \in S : x.kind \in Kind
  BY Kinds
<1>3. \A a \in DOMAIN at : at[a] \in S
  BY <1>2, PlacementFacts
<1>4. ASSUME NEW r \in refs' \ refs
      PROVE  /\ r.slot # "default_instance"
             /\ r.slot = "pins" => parent[r.holder] # NULL
  <2>1. ASSUME NEW a \in DOMAIN at, r \in TableRefs(at[a].kind, at[a].id, a)
        PROVE  r.slot \notin {"default_instance", "pins"}
    BY <1>2, <1>3, <2>1, TableRef DEF TableSlots
  <2>2. ASSUME NEW a \in DOMAIN at, r = Ref(at[a].parent, ParentQueue[at[a].kind], NULL, a)
        PROVE  /\ r.slot # "default_instance"
               /\ r.slot = "pins" => parent[r.holder] # NULL
    BY <1>3, <2>2, RefFields, ParentQueues, Kinds
  <2> QED
    BY <1>1, <2>1, <2>2 DEF NewTableRefs, NewQueueRefs
<1>5. \A a \in DOMAIN at : TableRefs(at[a].kind, at[a].id, a) \subseteq refs'
  BY <1>1 DEF NewTableRefs
<1>6. refs \subseteq refs' /\ \A i : Holds("objects_by_id", i) => Holds("objects_by_id", i)'
  BY <1>1 DEF Holds, Entries
<1> QED
  BY <1>1, <1>2, <1>4, <1>5, <1>6, NewPlaces DEF Allocate

(* Each command that makes objects registers them. *)
LEMMA CreateModuleRegisters ==
  ASSUME ObjInv, PlacesOK, NEW n \in ModName, CreateModule(n)
  PROVE  PlacesOK'
<1> DEFINE m == Object("module", <<"module", n>>, NULL, RefsTaken.module)
           i == Object("instance", <<"instance", n>>, NULL, 1)
<1>1. PICK at \in Placements({m, i}), ma \in FreeAddr, ia \in FreeAddr :
        /\ {ma, ia} \subseteq DOMAIN at /\ at[ma] = m /\ at[ia] = i
        /\ Allocate(at)
        /\ refs' = refs \cup TableRefs("module", m.id, ma)
                        \cup {Ref(ma, "default_instance", NULL, ia)}
  BY DEF CreateModule
<1>2. ~ clearing
  BY DEF CreateModule, Idle
<1>3. /\ m.kind = "module" /\ m.id = <<"module", n>> /\ i.kind = "instance" /\ i.parent = NULL
      /\ {"module", "instance"} \subseteq Kind \ (DOMAIN ParentQueue \ {"instance"})
  BY ObjectFields, Kinds
<1> HIDE DEF m, i
<1>4. \A a \in DOMAIN at : a = ma \/ at[a] = i
  BY <1>1, <1>3, PlacementFacts
<1>5. \A r \in refs' \ refs : /\ r.slot = "default_instance" => r.obj \in DOMAIN at
                              /\ r.slot # "pins"
  <2>1. \A r \in TableRefs("module", m.id, ma) : r.slot \in TableSlots
    BY <1>3, TableRef
  <2> QED
    BY <1>1, <2>1, RefFields DEF TableSlots
<1>6. \A a \in DOMAIN at : \/ at[a].kind = "instance" /\ at[a].parent = NULL
                           \/ TableRefs(at[a].kind, at[a].id, a) \subseteq refs'
  BY <1>1, <1>3, <1>4
<1>7. refs \subseteq refs' /\ \A k : Holds("objects_by_id", k) => Holds("objects_by_id", k)'
  BY <1>1 DEF Holds, Entries
<1>8. \A x \in {m, i} : /\ x.kind \in Kind
                        /\ x.kind \in DOMAIN ParentQueue \ {"instance"} => x.parent # NULL
  BY <1>3
<1> QED
  BY <1>1, <1>2, <1>5, <1>6, <1>7, <1>8, NewPlaces DEF Allocate

LEMMA CreateResourceModuleRegisters ==
  ASSUME ObjInv, PlacesOK, NEW n \in ModName, CreateResourceModule(n)
  PROVE  PlacesOK'
<1> DEFINE x == Object("resource", <<"module", n>>, NULL, RefsTaken.resource)
<1>1. PICK at \in Placements({x}) : Allocate(at) /\ refs' = refs \cup NewTableRefs(at)
  BY DEF CreateResourceModule
<1>2. ~ clearing
  BY DEF CreateResourceModule, Idle
<1>3. x.kind = "resource" /\ "resource" \in Kind \ DOMAIN ParentQueue
  BY ObjectFields, Kinds
<1> HIDE DEF x
<1>4. \A a \in DOMAIN at : at[a] = x
  BY <1>3, PlacementFacts
<1>5. \A r \in refs' \ refs : r.slot \notin {"default_instance", "pins"}
  BY <1>1, <1>3, <1>4, TableRef DEF NewTableRefs, TableSlots
<1>6. /\ \A a \in DOMAIN at : TableRefs(at[a].kind, at[a].id, a) \subseteq refs'
      /\ refs \subseteq refs' /\ \A k : Holds("objects_by_id", k) => Holds("objects_by_id", k)'
  BY <1>1 DEF NewTableRefs, Holds, Entries
<1> QED
  BY <1>1, <1>2, <1>3, <1>5, <1>6, NewPlaces DEF Allocate

LEMMA PlaceResourceRegisters ==
  ASSUME ObjInv, PlacesOK, NEW n \in ModName, NEW t \in Addr, NEW p \in Addr,
         PlaceResource(n, t, p)
  PROVE  PlacesOK'
<1> DEFINE x == Object("instance", <<"instance", id[p][2], n>>, p, RefsTaken.instance)
<1>1. PICK at \in Placements({x}) : \E i \in DOMAIN at :
        /\ Allocate(at)
        /\ refs' = refs \cup NewTableRefs(at) \cup NewQueueRefs(at)
                       \cup {Ref(t, "mod_instances", NULL, i)}
  BY DEF PlaceResource
<1>2. ~ clearing
  BY DEF PlaceResource, Idle
<1>3. x.kind = "instance" /\ "instance" \in Kind
  BY ObjectFields, Kinds
<1> HIDE DEF x
<1>4. \A a \in DOMAIN at : at[a] = x
  BY <1>3, PlacementFacts
<1>5. \A r \in refs' \ refs : r.slot \notin {"default_instance", "pins"}
  <2>1. \A a \in DOMAIN at : \A r \in TableRefs(at[a].kind, at[a].id, a) : r.slot \in TableSlots
    BY <1>3, <1>4, TableRef
  <2>2. \A r \in NewQueueRefs(at) : r.slot = "child_instances"
    BY <1>3, <1>4, RefFields, ParentQueues DEF NewQueueRefs
  <2> QED
    BY <1>1, <2>1, <2>2, RefFields DEF NewTableRefs, TableSlots
<1>6. /\ \A a \in DOMAIN at : TableRefs(at[a].kind, at[a].id, a) \subseteq refs'
      /\ refs \subseteq refs' /\ \A k : Holds("objects_by_id", k) => Holds("objects_by_id", k)'
  BY <1>1 DEF NewTableRefs, Holds, Entries
<1> QED
  BY <1>1, <1>2, <1>3, <1>5, <1>6, NewPlaces DEF Allocate

LEMMA CreatePinRegisters ==
  ASSUME ObjInv, PlacesOK, NEW i \in Addr, NEW n \in Local, CreatePin(i, n)
  PROVE  PlacesOK'
<1> DEFINE pin  == Item("pin", i, n)
           port == Item("port", module[i], n)
           S    == IF kind[module[i]] = "module" /\ ~ Exists(port) THEN {pin, port} ELSE {pin}
<1>1. ~ clearing /\ Found("instances_by_name", i) /\ AddItems(S)
  BY DEF CreatePin, Idle
<1>2. parent[i] # NULL /\ i # NULL /\ module[i] # NULL
  BY <1>1, InstanceFacts, HolderAssumption
<1>3. pin.kind = "pin" /\ pin.parent = i /\ port.kind = "port" /\ port.parent = module[i]
  BY ObjectFields DEF Item
<1> HIDE DEF pin, port
<1> QED
  BY <1>1, <1>2, <1>3, ItemPlaces, Kinds

LEMMA RegfileRegisters ==
  ASSUME ObjInv, PlacesOK, NEW o \in Addr, NEW n \in Reg,
         AddRegfile(o, n) \/ AddEntry(o, n) \/ AddRegister(o, n)
  PROVE  PlacesOK'
<1>1. PICK k \in {"regfile", "entry", "register"} : AddItems({Item(k, o, n)})
  BY DEF AddRegfile, AddEntry, AddRegister
<1>2. ~ clearing /\ o # NULL
  BY HolderAssumption DEF AddRegfile, AddEntry, AddRegister, Idle
<1>3. Item(k, o, n).kind = k /\ Item(k, o, n).parent = o
  BY ObjectFields DEF Item
<1> QED
  BY <1>1, <1>2, <1>3, ItemPlaces, Kinds

(* A codesection that takes over an entry leaves the Object-ID in the      *)
(* table; no other object gives it away.                                   *)
LEMMA AddCodesectionRegisters ==
  ASSUME ObjInv, PlacesOK, NEW m \in Addr, NEW n \in Code, AddCodesection(m, n)
  PROVE  PlacesOK'
<1> DEFINE x   == Item("codesection", m, n)
           old == Entries("objects_by_id", x.id)
<1>1. PICK at \in Placements({x}) :
        /\ kind'   = [a \in Addr |-> IF a \in DOMAIN at THEN x.kind   ELSE kind[a]]
        /\ id'     = [a \in Addr |-> IF a \in DOMAIN at THEN x.id     ELSE id[a]]
        /\ parent' = [a \in Addr |-> IF a \in DOMAIN at THEN x.parent ELSE parent[a]]
        /\ refs' = (refs \ old) \cup NewTableRefs(at) \cup NewQueueRefs(at)
  BY DEF AddCodesection
<1>2. ~ clearing /\ m # NULL /\ kind[m] = "module" /\ Live(m)
  BY HolderAssumption DEF AddCodesection, Idle, Live
<1>3. /\ x.kind = "codesection" /\ x.parent = m /\ Shaped("codesection", x.id)
      /\ "codesection" \in Kind
  BY <1>2, ItemAllowed, QueueSlots, ParentQueues, Kinds DEF Allowed
<1>4. \A r \in old : r \in refs /\ r.holder = DB /\ r.slot = "objects_by_id" /\ r.key = x.id
  BY DEF Entries
<1>5. \A r \in refs : r.holder = DB /\ r.slot = "objects_by_id" /\ r.key = x.id => r \in old
  BY DEF Entries
<1>0. PICK y : y = x.id
  OBVIOUS
<1> HIDE DEF x, old
<1>6. /\ \A a \in DOMAIN at : at[a] = x
      /\ \E a \in DOMAIN at : TRUE
  BY <1>3, PlacementFacts
<1>7. \A a \in DOMAIN at : TableRefs("codesection", x.id, a) = {Ref(DB, "objects_by_id", x.id, a)}
  BY <1>3, TableRefsAre, TableNames
<1>8. \A a \in DOMAIN at : Ref(DB, "objects_by_id", x.id, a) \in refs'
  BY <1>1, <1>3, <1>6, <1>7 DEF NewTableRefs
<1>9. Holds("objects_by_id", y)'
  BY <1>0, <1>6, <1>8, RefFields DEF Holds, Entries
<1>10. \A r \in refs' \ refs : r.slot \notin {"default_instance", "pins"}
  <2>1. \A r \in NewTableRefs(at) : r.slot = "objects_by_id"
    BY <1>3, <1>6, <1>7, RefFields DEF NewTableRefs
  <2>2. \A r \in NewQueueRefs(at) : r.slot = "code"
    BY <1>3, <1>6, RefFields, ParentQueues DEF NewQueueRefs
  <2> QED
    BY <1>1, <2>1, <2>2
<1>11. \A i : Holds("objects_by_id", i) => Holds("objects_by_id", i)'
  BY <1>0, <1>1, <1>4, <1>9 DEF Holds, Entries
<1>12. ASSUME NEW a \in Addr, Live(a), TableRefs(kind[a], id[a], a) \subseteq refs,
              ~ (TableRefs(kind[a], id[a], a) \subseteq refs')
       PROVE  kind[a] = "codesection" /\ Holds("objects_by_id", id[a])'
  <2>1. PICK r \in TableRefs(kind[a], id[a], a) : r \in old
    BY <1>1, <1>12
  <2>2. kind[a] \in Kind /\ Shaped(kind[a], id[a])
    BY <1>12 DEF ObjInv, HeapTypeOK, ObjectsShaped, Live
  <2>3. id[a] = x.id
    BY <1>4, <2>1, <2>2, TableRef
  <2>4. Tag(kind[a]) = "codesection"
    BY <1>3, <2>2, <2>3 DEF Shaped, Tag
  <2>5. a \notin DOMAIN at
    BY <1>3, <1>12, PlacementFacts DEF FreeAddr, Live
  <2>6. id'[a] = y
    BY <1>0, <1>1, <2>3, <2>5
  <2> QED
    BY <1>9, <2>4, <2>6 DEF Tag
<1>13. /\ kind'   = [a \in Addr |-> IF a \in DOMAIN at THEN at[a].kind   ELSE kind[a]]
       /\ id'     = [a \in Addr |-> IF a \in DOMAIN at THEN at[a].id     ELSE id[a]]
       /\ parent' = [a \in Addr |-> IF a \in DOMAIN at THEN at[a].parent ELSE parent[a]]
  BY <1>1, <1>6
<1>14. \A a \in DOMAIN at : TableRefs(at[a].kind, at[a].id, a) \subseteq refs'
  BY <1>3, <1>6, <1>7, <1>8
<1> QED
  BY <1>2, <1>3, <1>10, <1>11, <1>12, <1>13, <1>14, NewPlaces

(* Placing a module registers its default instance. *)
LEMMA PlaceModuleRegisters ==
  ASSUME ObjInv, PlacesOK, NEW t \in Addr, NEW p \in Addr, PlaceModule(t, p)
  PROVE  PlacesOK'
<1>1. ~ clearing /\ kind[t] = "module" /\ kind' = kind /\ id' = id
  BY DEF PlaceModule, Idle
<1>2. PICK i \in Addr : i = default_instance[t] /\ kind[i] = "instance"
  BY <1>1, ForestMapHolds DEF ForestMap, Modules
<1> DEFINE d == Ref(t, "default_instance", NULL, i)
           T == TableRefs("instance", id[i], i)
<1>3. /\ parent' = [parent EXCEPT ![i] = p]
      /\ refs' = (refs \ {d}) \cup {Ref(p, "child_instances", NULL, i),
                                    Ref(t, "mod_instances", NULL, i)} \cup T
  BY <1>2 DEF PlaceModule
<1>4. d.holder = t /\ d.slot = "default_instance"
  BY RefFields
<1>5. \A r \in T : r.holder = DB /\ r.slot \in TableSlots
  BY TableRef, Kinds
<1>6. DB \notin Addr /\ NULL \notin Addr
  BY HolderAssumption
<1>7. parent'[i] = p /\ \A a \in Addr \ {i} : parent'[a] = parent[a]
  BY <1>3 DEF ObjInv, HeapTypeOK
<1> HIDE DEF d, T
<1>8. ASSUME NEW a \in Addr, Live(a), TableRefs(kind[a], id[a], a) \subseteq refs
      PROVE  TableRefs(kind[a], id[a], a) \subseteq refs'
  <2>1. \A r \in TableRefs(kind[a], id[a], a) : r.holder = DB
    BY <1>8, TableRef DEF ObjInv, HeapTypeOK, Live
  <2> QED
    BY <1>3, <1>4, <1>6, <1>8, <2>1
<1>9. Registered(i)'
  BY <1>1, <1>2, <1>3, <1>6, <1>7 DEF Registered, T
<1>10. \A k : Holds("objects_by_id", k) => Holds("objects_by_id", k)'
  BY <1>3, <1>4, <1>6 DEF Holds, Entries
<1>11. \A r \in refs' \ refs : r.slot \notin {"default_instance", "pins"}
  BY <1>3, <1>5, RefFields DEF TableSlots
<1>12. \A a \in Addr : a \in {i} /\ Present(a)' => Registered(a)'
  BY <1>9
<1> QED
  BY <1>1, <1>7, <1>8, <1>10, <1>11, <1>12, PlacesGrow

(* Making a net with points, each of its parent, registers them all.      *)
LEMMA NetPlaces ==
  ASSUME ObjInv, PlacesOK, ~ clearing, NEW S, NEW at \in Placements(S),
         \A x \in S : \/ x.kind = "net"
                      \/ /\ x.kind \in {"declaration", "pin", "port"} /\ x.parent # NULL
                         /\ x.kind = "pin" => parent[x.parent] # NULL,
         \A x, y \in S : x.kind = "net" /\ y.kind = "net" => x = y,
         Allocate(at), NEW o \in DOMAIN at, at[o].kind = "net", NEW J,
         refs' = refs \cup NewTableRefs(at)
                      \cup {Ref(at[a].parent, ParentQueue[at[a].kind], NULL, a) :
                                a \in DOMAIN at \ {o}}
                      \cup {Ref(o, "objects", NULL, a) : a \in J}
  PROVE  PlacesOK'
<1>1. \A x \in S : /\ x.kind \in Kind
                   /\ x.kind \in DOMAIN ParentQueue \ {"instance"} => x.parent # NULL
  BY Kinds
<1>2. /\ \A a \in DOMAIN at : at[a] \in S
      /\ \A a, b \in DOMAIN at : at[a] = at[b] => a = b
  BY <1>1, PlacementFacts
<1>3. ASSUME NEW r \in refs' \ refs
      PROVE  /\ r.slot # "default_instance"
             /\ r.slot = "pins" => parent[r.holder] # NULL
  <2>1. ASSUME NEW a \in DOMAIN at, r \in TableRefs(at[a].kind, at[a].id, a)
        PROVE  r.slot \notin {"default_instance", "pins"}
    BY <1>1, <1>2, <2>1, TableRef DEF TableSlots
  <2>2. ASSUME NEW a \in DOMAIN at \ {o}, r = Ref(at[a].parent, ParentQueue[at[a].kind], NULL, a)
        PROVE  /\ r.slot # "default_instance"
               /\ r.slot = "pins" => parent[r.holder] # NULL
    <3>1. at[a].kind # "net"
      BY <1>2
    <3> QED
      BY <1>2, <2>2, <3>1, RefFields, ParentQueues
  <2>3. ASSUME NEW a, r = Ref(o, "objects", NULL, a)
        PROVE  r.slot = "objects"
    BY <2>3, RefFields
  <2> QED
    BY <2>1, <2>2, <2>3 DEF NewTableRefs
<1>4. /\ \A a \in DOMAIN at : TableRefs(at[a].kind, at[a].id, a) \subseteq refs'
      /\ refs \subseteq refs' /\ \A k : Holds("objects_by_id", k) => Holds("objects_by_id", k)'
  BY DEF NewTableRefs, Holds, Entries
<1> QED
  BY <1>1, <1>3, <1>4, NewPlaces DEF Allocate

(* A connect registers the signal and the points it makes, even when it    *)
(* fails; their pin is of an instance found by name.                       *)
LEMMA ConnectRegisters ==
  ASSUME ObjInv, PlacesOK, NEW s \in Net, NEW p \in Addr, NEW i \in Addr, NEW n \in Local,
         Connect(s, p, i, n) \/ ConnectFails(s, p, i, n)
  PROVE  PlacesOK'
<1>1. ~ clearing /\ Found("instances_by_name", i) /\ parent[i] = p
  BY DEF Connect, ConnectFails, Idle
<1>2. parent[i] # NULL /\ i # NULL /\ module[i] # NULL /\ p # NULL
  BY <1>1, InstanceFacts, HolderAssumption
<1>3. \A k, o, m : Item(k, o, m).kind = k /\ Item(k, o, m).parent = o
  BY ObjectFields DEF Item
<1>4. /\ NetObject(s).kind = "net"
      /\ \A x \in Points(p, i, n) :
           /\ x.kind \in {"declaration", "pin", "port"} /\ x.parent # NULL
           /\ x.kind = "pin" => parent[x.parent] # NULL
  BY <1>2, <1>3, ObjectFields DEF Points, NetObject
<1>5. \A x \in Points(p, i, n) :
        /\ [x EXCEPT !.taken = @ + 1].kind = x.kind
        /\ [x EXCEPT !.taken = @ + 1].parent = x.parent
  BY DEF Points, Item, Object
<1>6. CASE Connect(s, p, i, n)
  <2> DEFINE S == {[x EXCEPT !.taken = @ + 1] : x \in Points(p, i, n)} \cup {NetObject(s)}
  <2>1. PICK at \in Placements(S) : \E o \in DOMAIN at :
          LET items == DOMAIN at \ {o}
              at_i  == [a \in items |-> at[a]]
          IN  /\ at[o].kind = "net" /\ Allocate(at)
              /\ refs' = refs \cup NewTableRefs(at) \cup NewQueueRefs(at_i)
                             \cup {Ref(o, "objects", NULL, a) : a \in items}
    BY <1>6 DEF Connect
  <2>2. PICK o \in DOMAIN at :
          LET items == DOMAIN at \ {o}
              at_i  == [a \in items |-> at[a]]
          IN  /\ at[o].kind = "net" /\ Allocate(at)
              /\ refs' = refs \cup NewTableRefs(at) \cup NewQueueRefs(at_i)
                             \cup {Ref(o, "objects", NULL, a) : a \in items}
    BY <2>1
  <2>3. \A y \in S : \/ y = NetObject(s)
                     \/ \E x \in Points(p, i, n) : y.kind = x.kind /\ y.parent = x.parent
    <3> SUFFICES ASSUME NEW x \in Points(p, i, n), NEW y, y = [x EXCEPT !.taken = @ + 1]
                 PROVE  y.kind = x.kind /\ y.parent = x.parent
      OBVIOUS
    <3> QED
      BY <1>5
  <2> DEFINE at_i == [a \in DOMAIN at \ {o} |-> at[a]]
  <2>4. NewQueueRefs(at_i)
          = {Ref(at[a].parent, ParentQueue[at[a].kind], NULL, a) : a \in DOMAIN at \ {o}}
    BY DEF NewQueueRefs
  <2> HIDE DEF S
  <2>5. /\ \A x \in S : \/ x.kind = "net"
                        \/ /\ x.kind \in {"declaration", "pin", "port"} /\ x.parent # NULL
                           /\ x.kind = "pin" => parent[x.parent] # NULL
        /\ \A x, y \in S : x.kind = "net" /\ y.kind = "net" => x = y
    BY <1>4, <2>3
  <2> QED
    BY <1>1, <2>2, <2>4, <2>5, NetPlaces, ZenonT(40)
<1>7. CASE ConnectFails(s, p, i, n)
  <2> DEFINE S == {x \in Points(p, i, n) : ~ Exists(x)} \cup {NetObject(s)}
  <2>1. PICK at \in Placements(S) : \E o \in DOMAIN at :
          LET at_i == [a \in DOMAIN at \ {o} |-> at[a]]
          IN  /\ at[o].kind = "net" /\ Allocate(at)
              /\ refs' = refs \cup NewTableRefs(at) \cup NewQueueRefs(at_i)
    BY <1>7 DEF ConnectFails
  <2>2. PICK o \in DOMAIN at :
          LET at_i == [a \in DOMAIN at \ {o} |-> at[a]]
          IN  /\ at[o].kind = "net" /\ Allocate(at)
              /\ refs' = refs \cup NewTableRefs(at) \cup NewQueueRefs(at_i)
    BY <2>1
  <2> DEFINE at_i == [a \in DOMAIN at \ {o} |-> at[a]]
  <2> DEFINE J == {}
  <2>3. NewQueueRefs(at_i)
          = {Ref(at[a].parent, ParentQueue[at[a].kind], NULL, a) : a \in DOMAIN at \ {o}}
    BY DEF NewQueueRefs
  <2>4. /\ \A x \in S : \/ x.kind = "net"
                        \/ /\ x.kind \in {"declaration", "pin", "port"} /\ x.parent # NULL
                           /\ x.kind = "pin" => parent[x.parent] # NULL
        /\ \A x, y \in S : x.kind = "net" /\ y.kind = "net" => x = y
    BY <1>4
  <2>5. refs' = refs \cup NewTableRefs(at)
                   \cup {Ref(at[a].parent, ParentQueue[at[a].kind], NULL, a) : a \in DOMAIN at \ {o}}
                   \cup {Ref(o, "objects", NULL, a) : a \in J}
    BY <2>2, <2>3
  <2>6. at[o].kind = "net" /\ Allocate(at)
    BY <2>2
  <2> HIDE DEF S, J
  <2> QED
    BY <1>1, <2>4, <2>5, <2>6, NetPlaces
<1> QED
  BY <1>6, <1>7

(* When the tables are empty, only the default instances that were not     *)
(* placed are left.                                                        *)
LEMMA OnlyUnplacedLeft ==
  ASSUME ObjInv, PlacesOK, freeing = <<>>, \A r \in refs : r.holder # DB
  PROVE  \A a \in Addr : ~ Present(a)
<1>1. ASSUME NEW a \in Addr, Live(a)
      PROVE  \E r \in refs : /\ r.obj = a /\ r.holder # DB /\ BackReferenceOf(r)
                             /\ r.slot # "default_instance" =>
                                  /\ r.holder \in Addr /\ Live(r.holder)
                                  /\ r.slot \in Elements(Queues[kind[r.holder]])
  <2>1. PICK r \in refs : r.obj = a
    BY <1>1, HeldWhenIdle
  <2> QED
    BY <2>1, RefFacts DEF ObjInv, QueuesOK
<1>2. \A a \in Addr : Live(a) => kind[a] \in Kind \ {"module", "resource"}
  BY ModulesByTables DEF ObjInv, HeapTypeOK, Live
<1>3. \A a \in Addr : kind[a] # "net"
  BY <1>1, Kinds DEF BackReferenceOf, Live
<1>4. \A a \in Addr : kind[a] \notin {"port", "declaration", "codesection", "regfile"}
  <2> SUFFICES ASSUME NEW a \in Addr, kind[a] \in {"port", "declaration", "codesection", "regfile"}
               PROVE  FALSE
    OBVIOUS
  <2>1. PICK r \in refs : /\ r.obj = a /\ BackReferenceOf(r)
                          /\ r.slot # "default_instance" =>
                                  /\ r.holder \in Addr /\ Live(r.holder)
                                  /\ r.slot \in Elements(Queues[kind[r.holder]])
    BY <1>1 DEF Live
  <2>2. r.slot \in {"objects", "ports", "decls", "code", "regfiles"}
    BY <2>1, ParentQueues DEF BackReferenceOf
  <2> QED
    BY <1>2, <1>3, <2>1, <2>2, QueueSlots, Kinds
<1>5. ASSUME NEW a \in Addr, kind[a] = "instance"
      PROVE  /\ parent[a] = NULL
             /\ \E r \in refs : r.obj = a /\ r.slot = "default_instance"
  <2>1. PICK r \in refs : /\ r.obj = a /\ BackReferenceOf(r)
                          /\ r.slot # "default_instance" =>
                                  /\ r.holder \in Addr /\ Live(r.holder)
                                  /\ r.slot \in Elements(Queues[kind[r.holder]])
    BY <1>1, <1>5 DEF Live
  <2>2. r.slot \in {"default_instance", "mod_instances", "child_instances"}
    BY <1>5, <2>1, ParentQueues DEF BackReferenceOf
  <2>3. r.slot = "default_instance"
    BY <1>2, <2>1, <2>2, QueueSlots, Kinds
  <2> QED
    BY <1>5, <2>1, <2>3, ParentQueues DEF BackReferenceOf
<1>6. ASSUME NEW a \in Addr, kind[a] \in {"pin", "entry", "register"}
      PROVE  FALSE
  <2>1. \A b \in Addr : kind[b] \in {"pin", "entry", "register"} =>
          \E r \in refs : /\ r.obj = b /\ r.holder \in Addr /\ Live(r.holder)
                          /\ r.slot \in {"pins", "entries", "regs"}
                          /\ r.slot = ParentQueue[kind[b]]
                          /\ r.slot \in Elements(Queues[kind[r.holder]])
    <3> SUFFICES ASSUME NEW b \in Addr, kind[b] \in {"pin", "entry", "register"}
                 PROVE  \E r \in refs : /\ r.obj = b /\ r.holder \in Addr /\ Live(r.holder)
                          /\ r.slot \in {"pins", "entries", "regs"}
                          /\ r.slot = ParentQueue[kind[b]]
                          /\ r.slot \in Elements(Queues[kind[r.holder]])
      OBVIOUS
    <3>1. PICK r \in refs : /\ r.obj = b /\ BackReferenceOf(r)
                            /\ r.slot # "default_instance" =>
                                  /\ r.holder \in Addr /\ Live(r.holder)
                                  /\ r.slot \in Elements(Queues[kind[r.holder]])
      BY <1>1 DEF Live
    <3>2. r.slot # "objects"
      BY <1>2, <1>3, <3>1, QueueSlots, Kinds
    <3>3. r.slot = ParentQueue[kind[b]]
      BY <3>1, <3>2 DEF BackReferenceOf
    <3> QED
      BY <3>1, <3>3, ParentQueues
  <2>2. \A b \in Addr : kind[b] # "pin"
    <3> SUFFICES ASSUME NEW b \in Addr, kind[b] = "pin" PROVE FALSE
      OBVIOUS
    <3>1. PICK r \in refs : /\ r.obj = b /\ r.holder \in Addr /\ Live(r.holder) /\ r.slot = "pins"
                            /\ "pins" \in Elements(Queues[kind[r.holder]])
      BY <2>1, ParentQueues
    <3>2. kind[r.holder] = "instance"
      BY <1>2, <3>1, QueueSlots, Kinds
    <3> QED
      BY <1>5, <3>1, <3>2 DEF PlacesOK, InSlot
  <2>3. \A b \in Addr : kind[b] # "entry"
    BY <1>2, <1>4, <2>1, ParentQueues, QueueSlots, Kinds
  <2>4. \A b \in Addr : kind[b] # "register"
    BY <1>2, <2>1, <2>3, ParentQueues, QueueSlots, Kinds
  <2> QED
    BY <1>6, <2>2, <2>3, <2>4
<1>7. \A a \in Addr : Live(a) => kind[a] = "instance"
  BY <1>2, <1>3, <1>4, <1>6, Kinds
<1> QED
  BY <1>5, <1>7 DEF Present

(* Nothing is registered anew in a reset, and at its end nothing is left   *)
(* to be registered.                                                       *)
LEMMA ClearKeepsPlaces ==
  ASSUME ObjInv, PlacesOK, Clear
  PROVE  PlacesOK'
<1>1. ASSUME refs' \subseteq refs
      PROVE  \A r \in refs' : r.slot = "default_instance" => InSlot(r.obj, "pins")' = {}
  BY <1>1 DEF PlacesOK, InSlot
<1>2. CASE ResetBegins
  <2>1. clearing' /\ refs' \subseteq refs
    BY <1>2 DEF ResetBegins
  <2> QED
    BY <1>1, <2>1 DEF PlacesOK
<1>3. CASE ClearEntry
  <2>1. clearing' /\ refs' \subseteq refs
    BY <1>3 DEF ClearEntry
  <2> QED
    BY <1>1, <2>1 DEF PlacesOK
<1>4. CASE FreeChild
  <2>1. freeing # <<>> /\ freeing \in Seq(Addr)
    BY <1>4 DEF FreeChild, ObjInv, HeapTypeOK
  <2>2. freeing[1] \in Elements(freeing)
    BY <2>1 DEF Elements
  <2>3. refs' \subseteq refs /\ clearing' = clearing
        /\ \E q \in Elements(Queues[kind[freeing[1]]]) : InSlot(freeing[1], q) # {}
    BY <1>4 DEF FreeChild
  <2>4. clearing
    BY <2>1, <2>3, QueueSlots DEF ObjInv, FreeingOK
  <2> QED
    BY <1>1, <2>3, <2>4 DEF PlacesOK, ObjInv, HeapTypeOK
<1>5. CASE Release
  <2>1. freeing # <<>> /\ freeing \in Seq(Addr)
    BY <1>5 DEF Release, ObjInv, HeapTypeOK
  <2>2. PICK o \in Addr : o = freeing[1]
    BY <2>1
  <2>3. /\ kind' = [kind EXCEPT ![o] = "free"] /\ id' = [id EXCEPT ![o] = <<>>]
        /\ parent' = [parent EXCEPT ![o] = NULL]
        /\ refs' = refs /\ clearing' = clearing
    BY <1>5, <2>2 DEF Release
  <2>4. /\ kind'[o] = "free"
        /\ \A a \in Addr \ {o} : kind'[a] = kind[a] /\ id'[a] = id[a] /\ parent'[a] = parent[a]
    BY <2>3 DEF ObjInv, HeapTypeOK
  <2>5. \A a \in Addr : Present(a)' => a # o /\ Present(a)
    BY <2>4 DEF Present, Live
  <2>6. \A a \in Addr : a # o /\ Registered(a) => Registered(a)'
    BY <2>3, <2>4 DEF Registered, Holds, Entries
  <2> QED
    BY <1>1, <2>3, <2>5, <2>6 DEF PlacesOK
<1>6. CASE ResetDone
  <2>1. /\ freeing = <<>> /\ refs' = refs /\ kind' = kind /\ parent' = parent
        /\ \A t \in Elements(TableOrder) : InSlot(DB, t) = {}
    BY <1>6 DEF ResetDone, heapVars
  <2>2. \A r \in refs : r.holder # DB
    <3> SUFFICES ASSUME NEW r \in refs, r.holder = DB PROVE FALSE
      OBVIOUS
    <3>1. r.slot \in Elements(TableOrder) /\ r.obj \in InSlot(DB, r.slot)
      BY RefFacts, SlotLists DEF InSlot
    <3> QED
      BY <2>1, <3>1
  <2>3. \A a \in Addr : ~ Present(a)'
    BY <2>1, <2>2, OnlyUnplacedLeft DEF Present, Live
  <2> QED
    BY <1>1, <2>1, <2>3 DEF PlacesOK
<1> QED
  BY <1>2, <1>3, <1>4, <1>5, <1>6 DEF Clear

(* Whatever the commands and resets, the objects are kept as ObjInv says,  *)
(* and between resets every one that a script meets is in its tables and   *)
(* in the queue of its parent.                                             *)
THEOREM DatabaseInvariant == ObjectSpec => []DatabaseInv
<1>1. ASSUME ObjectInit
      PROVE  PlacesOK
  BY <1>1 DEF ObjectInit, PlacesOK, Present, Live
<1>2. ASSUME ObjInv, PlacesOK, [ObjectNext]_objectVars
      PROVE  PlacesOK'
  <2>1. CASE Build
    BY <1>2, <2>1, CreateModuleRegisters, CreateResourceModuleRegisters, PlaceModuleRegisters,
       PlaceResourceRegisters, CreatePinRegisters, AddCodesectionRegisters, RegfileRegisters,
       ConnectRegisters DEF Build
  <2>2. CASE Clear
    BY <1>2, <2>2, ClearKeepsPlaces
  <2>3. CASE UNCHANGED objectVars
    BY <1>2, <2>3 DEF objectVars, heapVars, PlacesOK, Present, Registered, Live, InSlot,
       Holds, Entries
  <2> QED
    BY <1>2, <2>1, <2>2, <2>3 DEF ObjectNext
<1> QED
  BY <1>1, <1>2, ObjectInvariant, PTL DEF ObjectSpec, DatabaseInv

-----------------------------------------------------------------------------
(* Between commands, none of which failed to connect a signal. *)
Settled == DatabaseInv /\ Idle /\ failed = {}

(* The Object-IDs of what a script meets of some types. *)
IdsOf(K) == {id[a] : a \in {b \in Addr : Present(b) /\ kind[b] \in K}}

(* Nothing else than a placed instance has entries or pins. *)
LEMMA PlacedWhenHeld ==
  ASSUME Settled, NEW a \in Addr, kind[a] = "instance", parent[a] = NULL
  PROVE  /\ \A r \in refs : r.obj = a => r.slot = "default_instance"
         /\ InSlot(a, "pins") = {}
<1>1. DatabaseInv /\ ObjInv /\ PlacesOK /\ ~ clearing /\ failed = {}
  BY DEF Settled, DatabaseInv, Idle
<1>2. module[a] \in Addr
  BY <1>1 DEF ObjInv, InstancesOK, HeapTypeOK
<1>3. Ref(module[a], "mod_instances", NULL, a) \notin refs
  <2> DEFINE d == Ref(module[a], "mod_instances", NULL, a)
  <2>1. d.slot = "mod_instances" /\ d.obj = a
    BY RefFields
  <2> HIDE DEF d
  <2>2. d \notin refs
    BY <1>1, <2>1 DEF ObjInv, InstancesOK
  <2> QED
    BY <2>2 DEF d
<1>4. Ref(module[a], "default_instance", NULL, a) \in refs
  BY <1>1, <1>2, <1>3, HolderAssumption DEF ObjInv, QueuesOK
<1>5. PICK d \in refs : d.slot = "default_instance" /\ d.obj = a
  BY <1>4, RefFields
<1>6. HoldersOf(a) = {d}
  BY <1>1, <1>5 DEF ObjInv, InstancesOK
<1>7. \A r \in refs : r \in HoldersOf(r.obj)
  BY <1>1, RefFacts
<1> QED
  BY <1>1, <1>5, <1>6, <1>7 DEF PlacesOK

(* A table leads to an object that a script meets and that is in all of    *)
(* its tables.                                                             *)
LEMMA SettledEntry ==
  ASSUME Settled, NEW r \in refs, r.holder = DB
  PROVE  /\ r.obj \in Addr /\ Present(r.obj) /\ kind[r.obj] \in Kind
         /\ r \in TableRefs(kind[r.obj], id[r.obj], r.obj)
         /\ TableRefs(kind[r.obj], id[r.obj], r.obj) \subseteq refs
<1>1. ObjInv /\ ~ clearing /\ failed = {}
  BY DEF Settled, DatabaseInv, Idle
<1>2. /\ r.obj \in Addr /\ Live(r.obj) /\ EntryOf(r, kind[r.obj], id[r.obj])
      /\ kind[r.obj] \in Kind
  BY <1>1, RefFacts DEF ObjInv, TablesOK, HeapTypeOK, Live
<1>3. Present(r.obj)
  <2>1. r.slot # "default_instance"
    BY <1>1, RefFacts DEF TableSlots
  <2> QED
    BY <1>2, <2>1, PlacedWhenHeld DEF Present
<1> QED
  BY <1>1, <1>2, <1>3 DEF EntryOf

(* What a script meets of a type other than codesections is in its tables. *)
LEMMA InTables ==
  ASSUME Settled, NEW a \in Addr, Present(a), kind[a] # "codesection"
  PROVE  /\ kind[a] \in Kind /\ TableRefs(kind[a], id[a], a) \subseteq refs
         /\ Lookup("objects_by_id", id[a]) = {a}
         /\ kind[a] \in OwnTables => /\ Lookup(IdTable(kind[a]), id[a]) = {a}
                                     /\ Lookup(NameTable(kind[a]), id[a][Len(id[a])]) = {a}
<1>1. ObjInv /\ PlacesOK /\ ~ clearing /\ failed = {}
  BY DEF Settled, DatabaseInv, Idle
<1>2. Registered(a) /\ kind[a] \in Kind
  BY <1>1 DEF PlacesOK, ObjInv, HeapTypeOK, Live, Present
<1>3. TableRefs(kind[a], id[a], a) \subseteq refs
  BY <1>2 DEF Registered
<1>4. ASSUME NEW t, NEW k, Ref(DB, t, k, a) \in TableRefs(kind[a], id[a], a)
      PROVE  Lookup(t, k) = {a}
  <2>1. PICK q \in refs : q.holder = DB /\ q.slot = t /\ q.key = k /\ q.obj = a
    BY <1>3, <1>4, RefFields
  <2>2. \A r \in refs : r.holder = DB /\ r.slot = t /\ r.key = k => r.obj = a
    BY <1>1, <2>1 DEF ObjInv, TablesOK
  <2> QED
    BY <2>1, <2>2 DEF Lookup, Entries
<1>5. /\ Ref(DB, "objects_by_id", id[a], a) \in TableRefs(kind[a], id[a], a)
      /\ kind[a] \in OwnTables =>
           /\ Ref(DB, IdTable(kind[a]), id[a], a) \in TableRefs(kind[a], id[a], a)
           /\ Ref(DB, NameTable(kind[a]), id[a][Len(id[a])], a) \in TableRefs(kind[a], id[a], a)
  BY <1>2, TableRefsAre
<1> QED
  BY <1>2, <1>3, <1>4, <1>5

(* A place in a queue is one of an object that a script meets in a queue   *)
(* of an object that a script meets.                                       *)
LEMMA SettledPlace ==
  ASSUME Settled, NEW r \in refs, r.slot \notin TableSlots \cup {"default_instance"}
  PROVE  /\ r = Ref(r.holder, r.slot, NULL, r.obj)
         /\ r.holder \in Addr /\ Present(r.holder)
         /\ kind[r.holder] \in Kind /\ r.slot \in Elements(Queues[kind[r.holder]])
         /\ r.obj \in Addr /\ Present(r.obj) /\ BackReferenceOf(r)
<1>1. ObjInv /\ PlacesOK /\ ~ clearing /\ failed = {}
  BY DEF Settled, DatabaseInv, Idle
<1>2. /\ r = Ref(r.holder, r.slot, r.key, r.obj)
      /\ r.holder \in Addr /\ r.holder # DB /\ r.obj \in Addr
  BY <1>1, RefFacts
<1>3. /\ r.key = NULL /\ Live(r.obj) /\ BackReferenceOf(r)
      /\ Live(r.holder) /\ r.slot \in Elements(Queues[kind[r.holder]])
  BY <1>1, <1>2 DEF ObjInv, QueuesOK
<1>4. kind[r.holder] \in Kind
  BY <1>1, <1>2, <1>3 DEF ObjInv, HeapTypeOK, Live
<1>5. Present(r.obj)
  BY <1>2, <1>3, PlacedWhenHeld DEF Present
<1>6. Present(r.holder)
  <2> SUFFICES ASSUME kind[r.holder] = "instance", parent[r.holder] = NULL PROVE FALSE
    BY <1>3 DEF Present
  <2>1. r.slot = "pins"
    BY <1>3, QueueSlots
  <2> QED
    BY <1>2, <2>1, PlacedWhenHeld DEF InSlot
<1> QED
  BY <1>2, <1>3, <1>4, <1>5, <1>6

(* The children of a type are what is in the queues for that type. *)
LEMMA ChildOf ==
  ASSUME Settled, NEW k \in DOMAIN ParentQueue
  PROVE  /\ \A a \in Addr : Present(a) /\ kind[a] = k =>
              \E r \in refs : /\ r.slot = ParentQueue[k] /\ r.obj = a
                              /\ r.holder = parent[a] /\ r.holder \in Addr
         /\ \A r \in refs : r.slot = ParentQueue[k] =>
              kind[r.obj] = k /\ r.obj \in Addr /\ Present(r.obj)
<1>1. ObjInv /\ PlacesOK /\ ~ clearing
  BY DEF Settled, DatabaseInv, Idle
<1>2. ASSUME NEW a \in Addr, Present(a), kind[a] = k
      PROVE  \E r \in refs : /\ r.slot = ParentQueue[k] /\ r.obj = a
                             /\ r.holder = parent[a] /\ r.holder \in Addr
  <2>1. parent[a] # NULL /\ parent[a] \in Addr
    BY <1>1, <1>2 DEF PlacesOK, Registered, ObjInv, HeapTypeOK
  <2>2. Ref(parent[a], ParentQueue[k], NULL, a) \in refs
    BY <1>1, <1>2, <2>1 DEF ObjInv, QueuesOK
  <2> QED
    BY <2>1, <2>2, RefFields
<1>3. ASSUME NEW r \in refs, r.slot = ParentQueue[k]
      PROVE  kind[r.obj] = k /\ r.obj \in Addr /\ Present(r.obj)
  <2>1. ParentQueue[k] \notin TableSlots \cup {"default_instance", "mod_instances", "objects"}
    BY ParentQueues, Kinds DEF TableSlots
  <2>2. r.obj \in Addr /\ Present(r.obj) /\ BackReferenceOf(r)
    BY <1>3, <2>1, SettledPlace
  <2>3. kind[r.obj] \in DOMAIN ParentQueue /\ ParentQueue[kind[r.obj]] = ParentQueue[k]
    BY <1>3, <2>1, <2>2 DEF BackReferenceOf
  <2> QED
    BY <2>2, <2>3, ParentQueues, Kinds
<1> QED
  BY <1>2, <1>3

-----------------------------------------------------------------------------
(* The tables that a command with -all reads, and the types in them. *)
KindsOf ==
  [get_modules |-> {"module", "resource"}, get_instances |-> {"instance"},
   get_regfiles |-> {"regfile"}, get_nets |-> {"net"}]

LEMMA QueryTables ==
  /\ DOMAIN Tables = {"get_modules", "get_instances", "get_regfiles", "get_nets"}
  /\ \A cmd \in DOMAIN Tables :
       /\ KindsOf[cmd] \subseteq OwnTables
       /\ \A k \in KindsOf[cmd] : /\ IdTable(k) = Tables[cmd].by_id
                                  /\ NameTable(k) = Tables[cmd].by_name
       /\ \A k \in OwnTables \ KindsOf[cmd] : /\ IdTable(k) # Tables[cmd].by_id
                                              /\ NameTable(k) # Tables[cmd].by_id
                                              /\ IdTable(k) # Tables[cmd].by_name
                                              /\ NameTable(k) # Tables[cmd].by_name
       /\ Tables[cmd].by_id # Tables[cmd].by_name
       /\ {Tables[cmd].by_id, Tables[cmd].by_name} \subseteq TableSlots \ {"objects_by_id"}
<1>1. DOMAIN Tables = {"get_modules", "get_instances", "get_regfiles", "get_nets"}
  BY DEF Tables
<1>2. /\ Tables["get_modules"].by_id = "modules_by_id"
      /\ Tables["get_modules"].by_name = "modules_by_name"
      /\ Tables["get_instances"].by_id = "instances_by_id"
      /\ Tables["get_instances"].by_name = "instances_by_name"
      /\ Tables["get_regfiles"].by_id = "regfiles_by_id"
      /\ Tables["get_regfiles"].by_name = "regfiles_by_name"
      /\ Tables["get_nets"].by_id = "nets_by_id"
      /\ Tables["get_nets"].by_name = "nets_by_name"
  BY DEF Tables
<1>3. /\ KindsOf["get_modules"] = {"module", "resource"}
      /\ KindsOf["get_instances"] = {"instance"}
      /\ KindsOf["get_regfiles"] = {"regfile"} /\ KindsOf["get_nets"] = {"net"}
  BY DEF KindsOf
<1> QED
  BY <1>1, <1>2, <1>3, TableNames DEF TableSlots

(* With -all a command lists what a script meets of its types, and with    *)
(* -name what has that name.                                               *)
LEMMA AllListed ==
  ASSUME Settled, NEW cmd \in DOMAIN Tables
  PROVE  /\ All(cmd) = IdsOf(KindsOf[cmd])
         /\ \A a \in Addr : Present(a) /\ kind[a] \in KindsOf[cmd] =>
              /\ Lookup(Tables[cmd].by_id, id[a]) = {a}
              /\ Lookup(Tables[cmd].by_name, id[a][Len(id[a])]) = {a}
         /\ \A n : \A a \in Lookup(Tables[cmd].by_name, n) :
              a \in Addr /\ Present(a) /\ kind[a] \in KindsOf[cmd]
<1>1. \A a \in Addr : Present(a) /\ kind[a] \in KindsOf[cmd] =>
        /\ Lookup(Tables[cmd].by_id, id[a]) = {a}
        /\ Lookup(Tables[cmd].by_name, id[a][Len(id[a])]) = {a}
  BY InTables, QueryTables, TableNames
<1>2. ASSUME NEW r \in refs, r.holder = DB, r.slot \in {Tables[cmd].by_id, Tables[cmd].by_name}
      PROVE  r.obj \in Addr /\ Present(r.obj) /\ kind[r.obj] \in KindsOf[cmd]
  <2>1. /\ r.obj \in Addr /\ Present(r.obj) /\ kind[r.obj] \in Kind
        /\ r \in TableRefs(kind[r.obj], id[r.obj], r.obj)
    BY <1>2, SettledEntry
  <2>2. /\ kind[r.obj] \in OwnTables
        /\ r.slot \in {IdTable(kind[r.obj]), NameTable(kind[r.obj])}
    BY <1>2, <2>1, TableRef, QueryTables
  <2> QED
    BY <1>2, <2>1, <2>2, QueryTables
<1>3. \A n : \A a \in Lookup(Tables[cmd].by_name, n) :
        a \in Addr /\ Present(a) /\ kind[a] \in KindsOf[cmd]
  BY <1>2 DEF Lookup, Entries
<1>4. InSlot(DB, Tables[cmd].by_id) = {a \in Addr : Present(a) /\ kind[a] \in KindsOf[cmd]}
  <2>1. \A a \in InSlot(DB, Tables[cmd].by_id) :
          a \in Addr /\ Present(a) /\ kind[a] \in KindsOf[cmd]
    BY <1>2 DEF InSlot
  <2>2. \A a \in Addr : Present(a) /\ kind[a] \in KindsOf[cmd] =>
          a \in InSlot(DB, Tables[cmd].by_id)
    <3> SUFFICES ASSUME NEW a \in Addr, Present(a), kind[a] \in KindsOf[cmd]
                 PROVE  a \in InSlot(DB, Tables[cmd].by_id)
      OBVIOUS
    <3>1. a \in Lookup(Tables[cmd].by_id, id[a])
      BY <1>1
    <3> QED
      BY <3>1 DEF Lookup, Entries, InSlot
  <2> QED
    BY <2>1, <2>2
<1>5. All(cmd) = IdsOf(KindsOf[cmd])
  BY <1>4 DEF All, IdsOf
<1> QED
  BY <1>1, <1>3, <1>5

(* The names in a table lead to all that it lists. *)
LEMMA NamesLead ==
  ASSUME Settled, NEW cmd \in DOMAIN Tables
  PROVE  All(cmd) = UNION {Named(cmd, n) : n \in {i[Len(i)] : i \in All(cmd)}}
<1>1. ASSUME NEW i \in All(cmd)
      PROVE  i \in Named(cmd, i[Len(i)])
  <2>1. PICK a \in Addr : Present(a) /\ kind[a] \in KindsOf[cmd] /\ i = id[a]
    BY AllListed DEF IdsOf
  <2>2. Lookup(Tables[cmd].by_name, i[Len(i)]) = {a}
    BY <2>1, AllListed
  <2> QED
    BY <2>1, <2>2 DEF Named
<1>2. ASSUME NEW n, NEW i \in Named(cmd, n)
      PROVE  i \in All(cmd)
  <2>1. PICK a \in Lookup(Tables[cmd].by_name, n) : i = id[a]
    BY DEF Named
  <2>2. a \in Addr /\ Present(a) /\ kind[a] \in KindsOf[cmd]
    BY AllListed
  <2> QED
    BY <2>1, <2>2, AllListed DEF IdsOf
<1> QED
  BY <1>1, <1>2

(* The queues of modules, by command. *)
LEMMA ModuleQueues ==
  /\ DOMAIN ModuleQueue = {"get_ports", "get_declarations", "get_codesections",
                           "get_instances", "get_instantiation", "get_regfiles"}
  /\ ModuleQueue["get_ports"] = "ports" /\ ModuleQueue["get_declarations"] = "decls"
  /\ ModuleQueue["get_codesections"] = "code"
  /\ ModuleQueue["get_instances"] = "child_instances"
  /\ ModuleQueue["get_instantiation"] = "mod_instances"
  /\ ModuleQueue["get_regfiles"] = "regfiles"
BY DEF ModuleQueue

(* Of a module, a command lists what is in that queue of it. *)
LEMMA OfModule ==
  ASSUME Settled, NEW cmd \in DOMAIN ModuleQueue, NEW m \in Addr, Present(m),
         kind[m] \in {"module", "resource"}
  PROVE  Of(cmd, id[m]) = {id[a] : a \in InSlot(m, ModuleQueue[cmd])}
<1> DEFINE mod == {x \in Lookup("modules_by_id", id[m]) : kind[x] = "module" \/ cmd \notin NotOfResources}
<1>1. Lookup("modules_by_id", id[m]) = {m}
  BY InTables, TableNames
<1>2. ChildList(cmd, id[m]) = InSlots(mod, ModuleQueue[cmd])
  BY ModuleQueues DEF ChildList
<1>3. CASE kind[m] = "module" \/ cmd \notin NotOfResources
  <2>1. mod = {m}
    BY <1>1, <1>3
  <2> QED
    BY <1>2, <2>1 DEF Of, InSlots
<1>4. CASE kind[m] = "resource" /\ cmd \in NotOfResources
  <2>1. mod = {}
    BY <1>1, <1>4
  <2>2. ModuleQueue[cmd] \in {"decls", "code", "child_instances", "regfiles"}
    BY <1>4, ModuleQueues DEF NotOfResources
  <2>3. InSlot(m, ModuleQueue[cmd]) = {}
    <3> SUFFICES ASSUME NEW r \in refs, r.holder = m, r.slot = ModuleQueue[cmd] PROVE FALSE
      BY DEF InSlot
    <3>1. r.slot \in Elements(Queues["resource"])
      BY <1>4, <2>2, SettledPlace DEF TableSlots
    <3> QED
      BY <2>2, <3>1, QueueSlots
  <2> QED
    BY <1>2, <2>1, <2>3 DEF Of, InSlots
<1> QED
  BY <1>3, <1>4

(* Going down from all the modules by a command meets what is in any queue *)
(* of that name.                                                           *)
LEMMA OfAllModules ==
  ASSUME Settled, NEW cmd \in DOMAIN ModuleQueue
  PROVE  OfAll(cmd, All("get_modules"))
           = {id[r.obj] : r \in {q \in refs : q.slot = ModuleQueue[cmd]}}
<1>1. All("get_modules") = IdsOf({"module", "resource"})
  BY AllListed, QueryTables DEF KindsOf
<1>2. ASSUME NEW x \in OfAll(cmd, All("get_modules"))
      PROVE  \E r \in refs : r.slot = ModuleQueue[cmd] /\ x = id[r.obj]
  <2>1. PICK m \in Addr : Present(m) /\ kind[m] \in {"module", "resource"} /\ x \in Of(cmd, id[m])
    BY <1>1 DEF OfAll, IdsOf
  <2>2. PICK a \in InSlot(m, ModuleQueue[cmd]) : x = id[a]
    BY <2>1, OfModule
  <2> QED
    BY <2>2 DEF InSlot
<1>3. ASSUME NEW r \in refs, r.slot = ModuleQueue[cmd]
      PROVE  id[r.obj] \in OfAll(cmd, All("get_modules"))
  <2>1. r.slot \notin TableSlots \cup {"default_instance"}
    BY <1>3, ModuleQueues DEF TableSlots
  <2>2. /\ r.holder \in Addr /\ Present(r.holder) /\ kind[r.holder] \in Kind
        /\ r.slot \in Elements(Queues[kind[r.holder]])
    BY <2>1, SettledPlace
  <2>3. kind[r.holder] \in {"module", "resource"}
    BY <1>3, <2>2, ModuleQueues, QueueSlots, Kinds
  <2>4. id[r.obj] \in Of(cmd, id[r.holder])
    BY <1>3, <2>2, <2>3, OfModule DEF InSlot
  <2> QED
    BY <1>1, <2>2, <2>3, <2>4 DEF OfAll, IdsOf
<1> QED
  BY <1>2, <1>3

(* Children of a type are listed by the command for their queue. *)
LEMMA ChildrenListed ==
  ASSUME Settled, NEW cmd \in DOMAIN ModuleQueue, NEW k \in DOMAIN ParentQueue,
         ModuleQueue[cmd] = ParentQueue[k]
  PROVE  OfAll(cmd, All("get_modules")) = IdsOf({k})
<1>1. OfAll(cmd, All("get_modules")) = {id[r.obj] : r \in {q \in refs : q.slot = ParentQueue[k]}}
  BY OfAllModules
<1>2. \A x : x \in IdsOf({k}) <=> \E a \in Addr : Present(a) /\ kind[a] = k /\ x = id[a]
  BY DEF IdsOf
<1>3. ASSUME NEW x
      PROVE  x \in IdsOf({k}) <=> \E r \in refs : r.slot = ParentQueue[k] /\ x = id[r.obj]
  <2>1. ASSUME NEW a \in Addr, Present(a), kind[a] = k
        PROVE  \E r \in refs : r.slot = ParentQueue[k] /\ id[a] = id[r.obj]
    BY <2>1, ChildOf
  <2>2. ASSUME NEW r \in refs, r.slot = ParentQueue[k]
        PROVE  \E a \in Addr : Present(a) /\ kind[a] = k /\ id[r.obj] = id[a]
    BY <2>2, ChildOf
  <2>3. x \in IdsOf({k}) => \E r \in refs : r.slot = ParentQueue[k] /\ x = id[r.obj]
    BY <1>2, <2>1
  <2>4. (\E r \in refs : r.slot = ParentQueue[k] /\ x = id[r.obj]) => x \in IdsOf({k})
    BY <1>2, <2>2
  <2> QED
    BY <2>3, <2>4
<1> QED
  BY <1>1, <1>3

(* The instances of all modules are the instances in them. *)
LEMMA InstancesListed ==
  ASSUME Settled
  PROVE  /\ OfAll("get_instantiation", All("get_modules")) = IdsOf({"instance"})
         /\ \A a \in Addr : Present(a) /\ kind[a] = "instance" =>
              /\ Ref(module[a], "mod_instances", NULL, a) \in refs
              /\ module[a] \in Addr /\ Present(module[a])
              /\ kind[module[a]] \in {"module", "resource"}
         /\ \A r \in refs : r.slot = "mod_instances" =>
              /\ r.obj \in Addr /\ Present(r.obj) /\ kind[r.obj] = "instance"
              /\ module[r.obj] = r.holder
<1>1. ObjInv /\ PlacesOK /\ ~ clearing
  BY DEF Settled, DatabaseInv, Idle
<1>2. ASSUME NEW a \in Addr, Present(a), kind[a] = "instance"
      PROVE  /\ Ref(module[a], "mod_instances", NULL, a) \in refs
             /\ module[a] \in Addr /\ Present(module[a])
             /\ kind[module[a]] \in {"module", "resource"}
  <2>1. parent[a] # NULL /\ module[a] # NULL /\ module[a] \in Addr
    BY <1>1, <1>2 DEF Present, ObjInv, InstancesOK, HeapTypeOK
  <2>2. Ref(module[a], "default_instance", NULL, a) \notin refs
    <3> DEFINE d == Ref(module[a], "default_instance", NULL, a)
    <3>1. d.slot = "default_instance" /\ d.obj = a /\ d.holder = module[a]
      BY RefFields
    <3>2. module[a] # DB
      BY <2>1, HolderAssumption
    <3> HIDE DEF d
    <3>3. d \notin refs
      BY <1>1, <1>2, <2>1, <3>1, <3>2, ParentQueues DEF ObjInv, QueuesOK, BackReferenceOf
    <3> QED
      BY <3>3 DEF d
  <2>3. Ref(module[a], "mod_instances", NULL, a) \in refs
    BY <1>1, <2>1, <2>2 DEF ObjInv, QueuesOK
  <2>4. PICK r \in refs : r.slot = "mod_instances" /\ r.holder = module[a]
    BY <2>3, RefFields
  <2>5. /\ Present(r.holder) /\ kind[r.holder] \in Kind
        /\ r.slot \in Elements(Queues[kind[r.holder]])
    BY <2>4, SettledPlace DEF TableSlots
  <2> QED
    BY <2>1, <2>3, <2>4, <2>5, QueueSlots, Kinds
<1>3. ASSUME NEW r \in refs, r.slot = "mod_instances"
      PROVE  /\ r.obj \in Addr /\ Present(r.obj) /\ kind[r.obj] = "instance"
             /\ module[r.obj] = r.holder
  BY <1>3, SettledPlace, ParentQueues, Kinds DEF TableSlots, BackReferenceOf
<1>4. OfAll("get_instantiation", All("get_modules"))
        = {id[r.obj] : r \in {q \in refs : q.slot = "mod_instances"}}
  BY OfAllModules, ModuleQueues
<1>5. \A x : x \in IdsOf({"instance"}) <=>
                \E a \in Addr : Present(a) /\ kind[a] = "instance" /\ x = id[a]
  BY DEF IdsOf
<1>6. \A a \in Addr : Present(a) /\ kind[a] = "instance" =>
        \E r \in refs : r.slot = "mod_instances" /\ r.obj = a
  BY <1>2, RefFields
<1>7. ASSUME NEW x
      PROVE  x \in IdsOf({"instance"}) <=> \E r \in refs : r.slot = "mod_instances" /\ x = id[r.obj]
  <2>1. ASSUME NEW a \in Addr, Present(a), kind[a] = "instance"
        PROVE  \E r \in refs : r.slot = "mod_instances" /\ id[a] = id[r.obj]
    BY <1>6, <2>1
  <2>2. ASSUME NEW r \in refs, r.slot = "mod_instances"
        PROVE  \E a \in Addr : Present(a) /\ kind[a] = "instance" /\ id[r.obj] = id[a]
    BY <1>3, <2>2
  <2> QED
    BY <1>5, <2>1, <2>2
<1>8. OfAll("get_instantiation", All("get_modules")) = IdsOf({"instance"})
  BY <1>4, <1>7
<1> QED
  BY <1>2, <1>3, <1>8

(* The Object-IDs of the children of a type. *)
PartsOf(m, k) == {id[a] : a \in InSlot(m, ParentQueue[k])}

(* Going down once more, from holders of one type. *)
LEMMA NestedListed ==
  ASSUME Settled, NEW cmd, NEW h, NEW k \in DOMAIN ParentQueue,
         \A l \in Kind : ParentQueue[k] \in Elements(Queues[l]) => l = h,
         \A m \in Addr : Present(m) /\ kind[m] = h =>
            Of(cmd, id[m]) = PartsOf(m, k)
  PROVE  OfAll(cmd, IdsOf({h})) = IdsOf({k})
<1>1. ASSUME NEW x \in OfAll(cmd, IdsOf({h}))
      PROVE  x \in IdsOf({k})
  <2>1. PICK m \in Addr : Present(m) /\ kind[m] = h /\ x \in Of(cmd, id[m])
    BY DEF OfAll, IdsOf
  <2>2. PICK a \in InSlot(m, ParentQueue[k]) : x = id[a]
    BY <2>1 DEF PartsOf
  <2>3. PICK r \in refs : r.slot = ParentQueue[k] /\ r.obj = a
    BY DEF InSlot
  <2> QED
    BY <2>2, <2>3, ChildOf DEF IdsOf
<1>2. ASSUME NEW x \in IdsOf({k})
      PROVE  x \in OfAll(cmd, IdsOf({h}))
  <2>1. PICK a \in Addr : Present(a) /\ kind[a] = k /\ x = id[a]
    BY <1>2 DEF IdsOf
  <2>2. PICK r \in refs : r.slot = ParentQueue[k] /\ r.obj = a
    BY <2>1, ChildOf
  <2>3. r.slot \notin TableSlots \cup {"default_instance"}
    BY <2>2, ParentQueues, Kinds DEF TableSlots
  <2>4. r.holder \in Addr /\ Present(r.holder) /\ kind[r.holder] = h
    BY <2>2, <2>3, SettledPlace
  <2>5. x \in Of(cmd, id[r.holder])
    BY <2>1, <2>2, <2>4 DEF InSlot, PartsOf
  <2> QED
    BY <2>4, <2>5 DEF OfAll, IdsOf
<1> QED
  BY <1>1, <1>2

(* Pins of instances, entries of regfiles and registers of entries. *)
LEMMA PartsListed ==
  ASSUME Settled
  PROVE  /\ OfAll("get_pins", IdsOf({"instance"})) = IdsOf({"pin"})
         /\ OfAll("get_regfile_entries", IdsOf({"regfile"})) = IdsOf({"entry"})
         /\ OfAll("get_regfile_regs", IdsOf({"entry"})) = IdsOf({"register"})
<1>1. /\ \A l \in Kind : ParentQueue["pin"] \in Elements(Queues[l]) => l = "instance"
      /\ \A l \in Kind : ParentQueue["entry"] \in Elements(Queues[l]) => l = "regfile"
      /\ \A l \in Kind : ParentQueue["register"] \in Elements(Queues[l]) => l = "entry"
      /\ {"pin", "entry", "register"} \subseteq DOMAIN ParentQueue
  BY Kinds, QueueSlots, ParentQueues
<1>2. ASSUME NEW m \in Addr, Present(m), kind[m] = "instance"
      PROVE  Of("get_pins", id[m]) = PartsOf(m, "pin")
  <2>1. Lookup("instances_by_id", id[m]) = {m}
    BY <1>2, InTables, TableNames
  <2>2. ChildList("get_pins", id[m]) = InSlots({m}, "pins")
    BY <2>1, ModuleQueues DEF ChildList
  <2> QED
    BY <2>2, ParentQueues DEF Of, InSlots, PartsOf
<1>3. ASSUME NEW m \in Addr, Present(m), kind[m] = "regfile"
      PROVE  Of("get_regfile_entries", id[m]) = PartsOf(m, "entry")
  <2>1. OfKind("regfile", id[m]) = {m}
    BY <1>3, InTables DEF OfKind
  <2>2. ChildList("get_regfile_entries", id[m]) = InSlots({m}, "entries")
    BY <2>1, ModuleQueues DEF ChildList
  <2> QED
    BY <2>2, ParentQueues DEF Of, InSlots, PartsOf
<1>4. ASSUME NEW m \in Addr, Present(m), kind[m] = "entry"
      PROVE  Of("get_regfile_regs", id[m]) = PartsOf(m, "register")
  <2>1. OfKind("entry", id[m]) = {m}
    BY <1>4, InTables DEF OfKind
  <2>2. ChildList("get_regfile_regs", id[m]) = InSlots({m}, "regs")
    BY <2>1, ModuleQueues DEF ChildList
  <2> QED
    BY <2>2, ParentQueues DEF Of, InSlots, PartsOf
<1>5. OfAll("get_pins", IdsOf({"instance"})) = IdsOf({"pin"})
  BY <1>1, <1>2, NestedListed, ZenonT(40)
<1>6. OfAll("get_regfile_entries", IdsOf({"regfile"})) = IdsOf({"entry"})
  BY <1>1, <1>3, NestedListed, ZenonT(40)
<1>7. OfAll("get_regfile_regs", IdsOf({"entry"})) = IdsOf({"register"})
  BY <1>1, <1>4, NestedListed, ZenonT(40)
<1> QED
  BY <1>5, <1>6, <1>7

(* What a script meets that goes down from all the modules are the objects *)
(* that it can meet.                                                       *)
LEMMA WalkMeetsAll ==
  ASSUME Settled
  PROVE  /\ OfAll("get_instances", All("get_modules")) = All("get_instances")
         /\ OfAll("get_regfiles", All("get_modules")) = All("get_regfiles")
         /\ OfAll("get_instantiation", All("get_modules")) = All("get_instances")
         /\ Walked = {id[a] : a \in {b \in Addr : Present(b)}}
<1>1. /\ All("get_modules") = IdsOf({"module", "resource"})
      /\ All("get_instances") = IdsOf({"instance"})
      /\ All("get_regfiles") = IdsOf({"regfile"}) /\ All("get_nets") = IdsOf({"net"})
  BY AllListed, QueryTables DEF KindsOf
<1>2. /\ OfAll("get_ports", All("get_modules")) = IdsOf({"port"})
      /\ OfAll("get_declarations", All("get_modules")) = IdsOf({"declaration"})
      /\ OfAll("get_codesections", All("get_modules")) = IdsOf({"codesection"})
      /\ OfAll("get_instances", All("get_modules")) = IdsOf({"instance"})
      /\ OfAll("get_regfiles", All("get_modules")) = IdsOf({"regfile"})
  BY ChildrenListed, ModuleQueues, ParentQueues, Kinds
<1>3. /\ OfAll("get_pins", IdsOf({"instance"})) = IdsOf({"pin"})
      /\ OfAll("get_regfile_entries", IdsOf({"regfile"})) = IdsOf({"entry"})
      /\ OfAll("get_regfile_regs", IdsOf({"entry"})) = IdsOf({"register"})
  BY PartsListed
<1>4. Walked = UNION {IdsOf({"module", "resource"}), IdsOf({"regfile"}), IdsOf({"entry"}),
                      IdsOf({"register"}), IdsOf({"instance"}), IdsOf({"pin"}), IdsOf({"port"}),
                      IdsOf({"declaration"}), IdsOf({"codesection"}), IdsOf({"net"})}
  BY <1>1, <1>2, <1>3 DEF Walked
<1>5. \A a \in Addr : Present(a) => kind[a] \in Kind
  BY DEF Present, Live, Settled, DatabaseInv, ObjInv, HeapTypeOK
<1>6. ASSUME NEW x
      PROVE  x \in Walked <=> \E a \in Addr : Present(a) /\ x = id[a]
  <2>1. \A K : x \in IdsOf(K) <=> \E a \in Addr : Present(a) /\ kind[a] \in K /\ x = id[a]
    BY DEF IdsOf
  <2>2. x \in Walked => \E a \in Addr : Present(a) /\ x = id[a]
    BY <1>4, <2>1
  <2>3. ASSUME NEW a \in Addr, Present(a), x = id[a]
        PROVE  x \in Walked
    <3>1. \A K : kind[a] \in K => x \in IdsOf(K)
      BY <2>1, <2>3
    <3>2. kind[a] \in {"module", "resource"} => x \in IdsOf({"module", "resource"})
      BY <3>1
    <3>3. \A k : kind[a] = k => x \in IdsOf({k})
      BY <3>1
    <3> QED
      BY <1>4, <1>5, <2>3, <3>2, <3>3, Kinds
  <2> QED
    BY <2>2, <2>3
<1>7. Walked = {id[a] : a \in {b \in Addr : Present(b)}}
  BY <1>6
<1> QED
  BY <1>1, <1>2, <1>7, InstancesListed

(* Every object that a script meets has an entry under its Object-ID, be   *)
(* it that of a codesection that replaced it.                              *)
LEMMA WalkMeetsEntries ==
  ASSUME Settled
  PROVE  Walked = {r.key : r \in {s \in refs : s.slot = "objects_by_id"}}
<1>1. Walked = {id[a] : a \in {b \in Addr : Present(b)}}
  BY WalkMeetsAll
<1>2. ObjInv /\ PlacesOK /\ ~ clearing
  BY DEF Settled, DatabaseInv, Idle
<1>3. ASSUME NEW a \in Addr, Present(a)
      PROVE  \E r \in refs : r.slot = "objects_by_id" /\ r.key = id[a]
  <2>1. Holds("objects_by_id", id[a])
    <3>1. CASE kind[a] = "codesection" /\ Holds("objects_by_id", id[a])
      BY <3>1
    <3>2. CASE TableRefs(kind[a], id[a], a) \subseteq refs
      <4>1. kind[a] \in Kind
        BY <1>2, <1>3 DEF Present, Live, ObjInv, HeapTypeOK
      <4>2. Ref(DB, "objects_by_id", id[a], a) \in refs
        BY <3>2, <4>1, TableRefsAre
      <4> QED
        BY <4>2, RefFields DEF Holds, Entries
    <3> QED
      BY <1>2, <1>3, <3>1, <3>2 DEF PlacesOK, Registered
  <2> QED
    BY <2>1 DEF Holds, Entries
<1>4. ASSUME NEW r \in refs, r.slot = "objects_by_id"
      PROVE  r.obj \in Addr /\ Present(r.obj) /\ r.key = id[r.obj]
  <2>1. r.holder = DB
    BY <1>2, <1>4, RefFacts DEF TableSlots
  <2> QED
    BY <1>4, <2>1, SettledEntry, TableRef
<1> QED
  BY <1>1, <1>3, <1>4

(* Instances are of the module that lists them. *)
LEMMA InstantiationsAgree ==
  ASSUME Settled, NEW i \in All("get_instances"), NEW m \in All("get_modules")
  PROVE  i \in Of("get_instantiation", m) <=> Of("get_modules", i) = {m}
<1>1. PICK a \in Addr : Present(a) /\ kind[a] = "instance" /\ i = id[a]
  BY AllListed, QueryTables DEF KindsOf, IdsOf
<1>2. PICK x \in Addr : Present(x) /\ kind[x] \in {"module", "resource"} /\ m = id[x]
  BY AllListed, QueryTables DEF KindsOf, IdsOf
<1>3. Lookup("instances_by_id", i) = {a}
  BY <1>1, InTables, TableNames
<1>4. \A b \in Addr : Present(b) /\ kind[b] = "instance" /\ id[b] = i => b = a
  <2>1. \A b \in Addr : Present(b) /\ kind[b] = "instance" /\ id[b] = i =>
          Lookup("instances_by_id", i) = {b}
    BY InTables, TableNames
  <2> QED
    BY <1>3, <2>1
<1>5. \A b \in Addr : Present(b) /\ kind[b] \in {"module", "resource"} /\ id[b] = m => b = x
  <2>1. \A b \in Addr : Present(b) /\ kind[b] \in {"module", "resource"} =>
          Lookup("modules_by_id", id[b]) = {b}
    BY InTables, TableNames
  <2> QED
    BY <1>2, <2>1
<1>6. /\ Ref(module[a], "mod_instances", NULL, a) \in refs
      /\ module[a] \in Addr /\ Present(module[a])
      /\ kind[module[a]] \in {"module", "resource"}
  BY <1>1, InstancesListed
<1>7. Of("get_modules", i) = {id[module[a]]}
  <2>1. ChildList("get_modules", i) = {module[a]}
    BY <1>3, ModuleQueues DEF ChildList
  <2> QED
    BY <2>1 DEF Of
<1>8. Of("get_modules", i) = {m} <=> module[a] = x
  BY <1>2, <1>5, <1>6, <1>7
<1>9. Of("get_instantiation", m) = {id[b] : b \in InSlot(x, "mod_instances")}
  BY <1>2, OfModule, ModuleQueues
<1>10. i \in Of("get_instantiation", m) <=> a \in InSlot(x, "mod_instances")
  <2>1. \A b \in InSlot(x, "mod_instances") : b \in Addr /\ Present(b) /\ kind[b] = "instance"
    BY InstancesListed DEF InSlot
  <2> QED
    BY <1>1, <1>4, <1>9, <2>1
<1>11. a \in InSlot(x, "mod_instances") <=> module[a] = x
  <2>1. a \in InSlot(x, "mod_instances") => module[a] = x
    BY InstancesListed DEF InSlot
  <2>2. a \in InSlot(module[a], "mod_instances")
    BY <1>6, RefFields DEF InSlot
  <2> QED
    BY <2>1, <2>2
<1> QED
  BY <1>8, <1>10, <1>11

(* Signals are listed at their objects and the objects at their signal. *)
LEMMA NetsAgree ==
  ASSUME Settled, NEW n \in All("get_nets")
  PROVE  {o \in Walked : Of("get_nets", o) = {n}} = get_net_objects(n)
<1>0. ObjInv /\ PlacesOK /\ ~ clearing
  BY DEF Settled, DatabaseInv, Idle
<1>1. PICK v \in Addr : Present(v) /\ kind[v] = "net" /\ n = id[v]
  BY AllListed, QueryTables DEF KindsOf, IdsOf
<1>2. Lookup("nets_by_id", n) = {v}
  BY <1>1, InTables, TableNames
<1>3. get_net_objects(n) = {id[a] : a \in InSlot(v, "objects")}
  BY <1>2 DEF get_net_objects, InSlots
<1>4. ASSUME NEW a \in Addr, Present(a), net[a] # NULL
      PROVE  /\ kind[a] \in {"port", "pin", "declaration"} /\ a \in InSlot(net[a], "objects")
             /\ net[a] \in Addr /\ Present(net[a]) /\ kind[net[a]] = "net"
  <2>1. Ref(net[a], "objects", NULL, a) \in refs /\ net[a] \in Addr
    BY <1>0, <1>4 DEF ObjInv, QueuesOK, HeapTypeOK
  <2>2. PICK r \in refs : r.holder = net[a] /\ r.slot = "objects" /\ r.obj = a
    BY <2>1, RefFields
  <2>3. /\ Present(r.holder) /\ kind[r.holder] \in Kind
        /\ r.slot \in Elements(Queues[kind[r.holder]]) /\ BackReferenceOf(r)
    BY <2>2, SettledPlace DEF TableSlots
  <2>4. kind[r.holder] = "net"
    BY <2>2, <2>3, QueueSlots, Kinds
  <2>5. kind[a] \in {"port", "pin", "declaration"}
    BY <2>2, <2>3, ParentQueues, Kinds DEF BackReferenceOf
  <2> QED
    BY <2>1, <2>2, <2>3, <2>4, <2>5 DEF InSlot
<1>5. ASSUME NEW a \in InSlot(v, "objects")
      PROVE  a \in Addr /\ Present(a) /\ net[a] = v
  <2>1. PICK r \in refs : r.holder = v /\ r.slot = "objects" /\ r.obj = a
    BY DEF InSlot
  <2>2. r.obj \in Addr /\ Present(r.obj) /\ BackReferenceOf(r)
    BY <2>1, SettledPlace DEF TableSlots
  <2> QED
    BY <2>1, <2>2, ParentQueues, Kinds DEF BackReferenceOf
<1>6. ASSUME NEW a \in Addr, Present(a), a \in Lookup("objects_by_id", id[a])
      PROVE  Of("get_nets", id[a]) = IF net[a] = NULL THEN {} ELSE {id[net[a]]}
  <2>1. Lookup("objects_by_id", id[a]) = {a}
    BY <1>0, <1>6 DEF Lookup, Entries, ObjInv, TablesOK
  <2> DEFINE J == UNION {OfKind(k, id[a]) : k \in {"port", "pin", "declaration"}}
  <2>2. ChildList("get_nets", id[a]) = {net[b] : b \in J} \ {NULL}
    BY ModuleQueues DEF ChildList
  <2>3. J \subseteq {a} /\ (kind[a] \in {"port", "pin", "declaration"} => J = {a})
    BY <2>1 DEF OfKind
  <2>4. CASE net[a] = NULL
    <3>1. ChildList("get_nets", id[a]) = {}
      BY <2>2, <2>3, <2>4
    <3> QED
      BY <2>4, <3>1 DEF Of
  <2>5. CASE net[a] # NULL
    <3>1. J = {a}
      BY <1>4, <1>6, <2>3, <2>5
    <3>2. ChildList("get_nets", id[a]) = {net[a]}
      BY <2>2, <2>5, <3>1
    <3> QED
      BY <2>5, <3>2 DEF Of
  <2> QED
    BY <2>4, <2>5
<1>7. ASSUME NEW a \in Addr, Present(a), a \in Lookup("objects_by_id", id[a])
      PROVE  Of("get_nets", id[a]) = {n} <=> net[a] = v
  <2>1. ASSUME net[a] # NULL, id[net[a]] = n
        PROVE  net[a] = v
    <3>1. Lookup("nets_by_id", id[net[a]]) = {net[a]}
      BY <1>4, <1>7, <2>1, InTables, TableNames
    <3> QED
      BY <1>2, <2>1, <3>1
  <2>2. v # NULL
    BY HolderAssumption
  <2> QED
    BY <1>1, <1>6, <1>7, <2>1, <2>2
<1>8. ASSUME NEW o \in Walked, Of("get_nets", o) = {n}
      PROVE  o \in get_net_objects(n)
  <2>1. PICK r \in refs : r.slot = "objects_by_id" /\ o = r.key
    BY WalkMeetsEntries
  <2>2. r.holder = DB
    BY <1>0, <2>1, RefFacts DEF TableSlots
  <2>3. r.obj \in Addr /\ Present(r.obj) /\ r.key = id[r.obj]
    BY <2>1, <2>2, SettledEntry, TableRef
  <2>4. r.obj \in Lookup("objects_by_id", id[r.obj])
    BY <2>1, <2>2, <2>3 DEF Lookup, Entries
  <2>5. net[r.obj] = v
    BY <1>7, <1>8, <2>1, <2>3, <2>4
  <2>6. r.obj \in InSlot(v, "objects")
    BY <1>4, <2>3, <2>5, HolderAssumption
  <2> QED
    BY <1>3, <2>1, <2>3, <2>6
<1>9. ASSUME NEW a \in InSlot(v, "objects")
      PROVE  id[a] \in Walked /\ Of("get_nets", id[a]) = {n}
  <2>1. a \in Addr /\ Present(a) /\ net[a] = v
    BY <1>5
  <2>2. kind[a] # "codesection"
    BY <1>4, <2>1, HolderAssumption
  <2>3. Lookup("objects_by_id", id[a]) = {a}
    BY <2>1, <2>2, InTables
  <2> QED
    BY <1>7, <2>1, <2>3, WalkMeetsAll
<1> QED
  BY <1>3, <1>8, <1>9

(* Between commands the lists of objects that scripts get from tables,     *)
(* queues and back-references agree, after any history.                    *)
THEOREM ObjectQueriesAgree == ObjectSpec => []QueriesAgree
<1>1. ASSUME Settled
      PROVE  /\ Walked = {r.key : r \in {s \in refs : s.slot = "objects_by_id"}}
             /\ OfAll("get_instances", All("get_modules")) = All("get_instances")
             /\ OfAll("get_regfiles", All("get_modules")) = All("get_regfiles")
             /\ OfAll("get_instantiation", All("get_modules")) = All("get_instances")
  BY <1>1, WalkMeetsAll, WalkMeetsEntries
<1>2. ASSUME Settled
      PROVE  \A i \in All("get_instances") : \A m \in All("get_modules") :
               i \in Of("get_instantiation", m) <=> Of("get_modules", i) = {m}
  BY <1>2, InstantiationsAgree
<1>3. ASSUME Settled
      PROVE  \A n \in All("get_nets") :
               {o \in Walked : Of("get_nets", o) = {n}} = get_net_objects(n)
  BY <1>3, NetsAgree
<1>4. ASSUME Settled
      PROVE  \A cmd \in DOMAIN Tables :
               All(cmd) = UNION {Named(cmd, n) : n \in {i[Len(i)] : i \in All(cmd)}}
  BY <1>4, NamesLead
<1>5. DatabaseInv => QueriesAgree
  BY <1>1, <1>2, <1>3, <1>4 DEF Settled, QueriesAgree
<1> QED
  BY <1>5, DatabaseInvariant, PTL
=============================================================================
