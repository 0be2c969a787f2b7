--------------------------- MODULE IgObjectsProofs ---------------------------
(***************************************************************************)
(* The objects of IgObjects are counted, linked and freed correctly, for   *)
(* every heap, every set of names and every sequence of commands.          *)
(*                                                                         *)
(* The inductive invariant ObjInv is in IgObjectsInv.  Its preservation is *)
(* proved once for each of the two ways in which the heap changes: a       *)
(* growing step (GrowStep) makes or places objects and gives them their    *)
(* references, a dropping step (DropStep) removes one reference in a       *)
(* reset.  Each command is then shown to be such a step; placing a module, *)
(* replacing a codesection, a failing connect, and the release of memory   *)
(* are what has cases of its own.                                          *)
(***************************************************************************)
EXTENDS IgObjectsInv, FiniteSetTheorems, NaturalsInduction, WellFoundedInduction, TLAPS

(* Types, queues and counts, as tables.                                    *)
LEMMA Kinds ==
  /\ Kind = {"module", "resource", "instance", "regfile", "entry", "net", "port",
             "pin", "declaration", "codesection", "register"}
  /\ DOMAIN ParentQueue = {"port", "pin", "declaration", "codesection", "regfile",
                           "entry", "register", "instance"}
BY DEF Kind, Queues, ParentQueue

(* The queues an object of each type has. *)
LEMMA QueueSlots ==
  /\ Elements(Queues["module"]) = {"ports", "mod_instances", "decls", "code",
                                   "child_instances", "regfiles"}
  /\ Elements(Queues["resource"]) = {"ports", "mod_instances"}
  /\ Elements(Queues["instance"]) = {"pins"}
  /\ Elements(Queues["regfile"]) = {"entries"}
  /\ Elements(Queues["entry"]) = {"regs"}
  /\ Elements(Queues["net"]) = {"objects"}
  /\ \A k \in {"port", "pin", "declaration", "codesection", "register"} :
        Elements(Queues[k]) = {}
<1>1. /\ Elements(<<"ports", "mod_instances">>) = {"ports", "mod_instances"}
      /\ Elements(<<"pins">>) = {"pins"}
      /\ Elements(<<"entries">>) = {"entries"}
      /\ Elements(<<"regs">>) = {"regs"}
      /\ Elements(<<"objects">>) = {"objects"}
      /\ Elements(<<>>) = {}
  BY DEF Elements
<1>2. Elements(<<"ports", "mod_instances", "decls", "code", "child_instances", "regfiles">>)
      = {"ports", "mod_instances", "decls", "code", "child_instances", "regfiles"}
  BY DEF Elements
<1>3. QED
  BY <1>1, <1>2 DEF Queues

(* The queue of its parent that an object of each type is put into. *)
LEMMA ParentQueues ==
  /\ ParentQueue["port"] = "ports" /\ ParentQueue["pin"] = "pins"
  /\ ParentQueue["declaration"] = "decls" /\ ParentQueue["codesection"] = "code"
  /\ ParentQueue["regfile"] = "regfiles" /\ ParentQueue["entry"] = "entries"
  /\ ParentQueue["register"] = "regs" /\ ParentQueue["instance"] = "child_instances"
BY DEF ParentQueue

(* How many references are taken for a new object of each type. *)
LEMMA Takens ==
  /\ RefsTaken["module"] = 3 /\ RefsTaken["resource"] = 3 /\ RefsTaken["net"] = 3
  /\ RefsTaken["instance"] = 5 /\ RefsTaken["regfile"] = 4
  /\ \A k \in {"entry", "register", "port", "pin", "declaration", "codesection"} :
        RefsTaken[k] = 2
BY DEF RefsTaken

(* The allocation orders the new objects of a command by type. *)
LEMMA Ranks == \A k \in Kind : Rank[k] \in Nat
BY Kinds DEF Rank

(* A reference is told by its four fields. *)
LEMMA RefFields ==
  \A h, s, k, o : /\ Ref(h, s, k, o).holder = h
                  /\ Ref(h, s, k, o).slot = s
                  /\ Ref(h, s, k, o).key = k
                  /\ Ref(h, s, k, o).obj = o
BY DEF Ref

OwnTables == {"module", "resource", "instance", "regfile", "net"}

IdTable(k) ==
  CASE k \in {"module", "resource"} -> "modules_by_id"
    [] k = "instance"               -> "instances_by_id"
    [] k = "regfile"                -> "regfiles_by_id"
    [] OTHER                        -> "nets_by_id"

NameTable(k) ==
  CASE k \in {"module", "resource"} -> "modules_by_name"
    [] k = "instance"               -> "instances_by_name"
    [] k = "regfile"                -> "regfiles_by_name"
    [] OTHER                        -> "nets_by_name"

(* The table entries of an object: of three tables for types that have     *)
(* tables of their own, of objects_by_id for the others.                   *)
LEMMA TableRefsAre ==
  ASSUME NEW k \in Kind, NEW i, NEW a
  PROVE  TableRefs(k, i, a) =
           IF k \in OwnTables THEN {Ref(DB, "objects_by_id", i, a), Ref(DB, IdTable(k), i, a),
                                Ref(DB, NameTable(k), i[Len(i)], a)}
                          ELSE {Ref(DB, "objects_by_id", i, a)}
BY Kinds DEF TableRefs, IdTable, NameTable, OwnTables

TableSlots == {"objects_by_id", "modules_by_id", "modules_by_name", "instances_by_id",
               "instances_by_name", "regfiles_by_id", "regfiles_by_name", "nets_by_id",
               "nets_by_name"}

(* What a table entry of an object looks like. *)
LEMMA TableRef ==
  ASSUME NEW k \in Kind, NEW i, NEW a, NEW r \in TableRefs(k, i, a)
  PROVE  /\ r.holder = DB /\ r.obj = a /\ r = Ref(DB, r.slot, r.key, a)
         /\ r.slot \in TableSlots
         /\ r.slot \in {"objects_by_id", IdTable(k)} => r.key = i
         /\ r.slot = NameTable(k) => r.key = i[Len(i)]
         /\ r.slot \in {"objects_by_id", IdTable(k), NameTable(k)}
         /\ r.slot # "objects_by_id" => k \in OwnTables
BY TableRefsAre, RefFields, Kinds DEF IdTable, NameTable, TableSlots

(* The two tables of each type that has them. *)
LEMMA TableNames ==
  /\ IdTable("module") = "modules_by_id" /\ NameTable("module") = "modules_by_name"
  /\ IdTable("resource") = "modules_by_id" /\ NameTable("resource") = "modules_by_name"
  /\ IdTable("instance") = "instances_by_id" /\ NameTable("instance") = "instances_by_name"
  /\ IdTable("regfile") = "regfiles_by_id" /\ NameTable("regfile") = "regfiles_by_name"
  /\ IdTable("net") = "nets_by_id" /\ NameTable("net") = "nets_by_name"
  /\ OwnTables = {"module", "resource", "instance", "regfile", "net"}
BY DEF IdTable, NameTable, OwnTables

(* An entry in a table of nets, or under the Object-ID of a net, is one of *)
(* a net.                                                                  *)
LEMMA NetEntries ==
  ASSUME NEW k \in Kind, NEW i, Shaped(k, i), NEW a, NEW s,
         NEW r \in TableRefs(k, i, a), r \in TableRefs("net", <<"net", s>>, a)
  PROVE  k = "net" /\ i = <<"net", s>>
<1>1. <<"net", s>>[1] = "net" /\ <<"net", s>>[Len(<<"net", s>>)] = s /\ Len(<<"net", s>>) = 2
  OBVIOUS
<1>2. "net" \in Kind
  BY Kinds
<1>3. i \in Seq(Kind \cup ModName \cup Local \cup Code \cup Reg \cup Net) /\ i[1] = Tag(k)
  BY DEF Shaped, Ids
<1>4. r.slot \in {"objects_by_id", IdTable("net"), NameTable("net")}
  BY <1>2, TableRef
<1>5. CASE r.slot = "objects_by_id"
  <2>1. i = <<"net", s>>
    BY <1>2, <1>5, TableRef
  <2> QED
    BY <2>1, <1>1, <1>3, Kinds DEF Tag
<1>6. CASE r.slot # "objects_by_id"
  <2>1. k = "net"
    <3>1. r.slot \in {"nets_by_id", "nets_by_name"}
      BY <1>4, <1>6, TableNames
    <3>2. k \in OwnTables /\ r.slot \in {IdTable(k), NameTable(k)}
      BY <1>6, TableRef
    <3> QED
      BY <3>1, <3>2, TableNames
  <2>2. r.slot = IdTable("net") => i = <<"net", s>>
    BY <2>1, <1>2, TableRef
  <2>3. r.slot = NameTable("net") => i[Len(i)] = s
    BY <2>1, <1>1, <1>2, TableRef
  <2>4. Len(i) = 2 /\ i[1] = "net"
    BY <2>1, <1>3 DEF Shaped, Tag
  <2>5. i[2] = s => i = <<"net", s>>
    BY <2>4, <1>3
  <2> QED
    BY <2>1, <2>2, <2>3, <2>4, <2>5, <1>4, <1>6
<1> QED
  BY <1>5, <1>6

(* How many references an object is given.                                 *)
Given(k, i, p, m, n, a) ==
  (IF k = "instance" /\ p = NULL THEN {} ELSE TableRefs(k, i, a))
  \cup (IF p = NULL THEN {} ELSE {Ref(p, ParentQueue[k], NULL, a)})
  \cup (IF n = NULL THEN {} ELSE {Ref(n, "objects", NULL, a)})
  \cup (IF m = NULL THEN {}
        ELSE {Ref(m, IF p = NULL THEN "default_instance" ELSE "mod_instances", NULL, a)})

Count(k, p, m, n) ==
  (IF k = "instance" /\ p = NULL THEN 0 ELSE IF k \in OwnTables THEN 3 ELSE 1)
  + (IF p = NULL THEN 0 ELSE 1) + (IF n = NULL THEN 0 ELSE 1) + (IF m = NULL THEN 0 ELSE 1)

(* Adding an element to a finite set adds one to its cardinality. *)
LEMMA AddOne ==
  ASSUME NEW S, IsFiniteSet(S), NEW x, x \notin S
  PROVE  IsFiniteSet(S \cup {x}) /\ Cardinality(S \cup {x}) = Cardinality(S) + 1
BY FS_AddElement

(* How many table entries an object has. *)
LEMMA TableCount ==
  ASSUME NEW k \in Kind, NEW i, NEW a
  PROVE  /\ IsFiniteSet(TableRefs(k, i, a))
         /\ Cardinality(TableRefs(k, i, a)) = IF k \in OwnTables THEN 3 ELSE 1
<1> DEFINE x == Ref(DB, "objects_by_id", i, a)
           y == Ref(DB, IdTable(k), i, a)
           z == Ref(DB, NameTable(k), i[Len(i)], a)
<1>1. IsFiniteSet({x}) /\ Cardinality({x}) = 1
  BY FS_Singleton
<1>2. x.slot # y.slot /\ x.slot # z.slot /\ y.slot # z.slot
  BY RefFields DEF IdTable, NameTable
<1>3. y \notin {x} /\ z \notin {x} \cup {y}
  BY <1>2
<1> HIDE DEF x, y, z
<1>4. IsFiniteSet({x} \cup {y}) /\ Cardinality({x} \cup {y}) = 2
  BY <1>1, <1>3, AddOne
<1>5. IsFiniteSet({x} \cup {y} \cup {z}) /\ Cardinality({x} \cup {y} \cup {z}) = 3
  BY <1>3, <1>4, AddOne
<1>6. TableRefs(k, i, a) = IF k \in OwnTables THEN {x} \cup {y} \cup {z} ELSE {x}
  BY TableRefsAre DEF x, y, z
<1> QED
  BY <1>1, <1>5, <1>6

(* The references an object is given are as many as are taken for it. *)
LEMMA GivenCount ==
  ASSUME NEW k \in Kind, NEW i, NEW p, NEW m, NEW n, NEW a, DB \notin {p, m, n},
         p # NULL => k \in DOMAIN ParentQueue
  PROVE  /\ IsFiniteSet(Given(k, i, p, m, n, a))
         /\ Cardinality(Given(k, i, p, m, n, a)) = Count(k, p, m, n)
<1> DEFINE T == IF k = "instance" /\ p = NULL THEN {} ELSE TableRefs(k, i, a)
           P == IF p = NULL THEN {} ELSE {Ref(p, ParentQueue[k], NULL, a)}
           N == IF n = NULL THEN {} ELSE {Ref(n, "objects", NULL, a)}
           M == IF m = NULL THEN {}
                ELSE {Ref(m, IF p = NULL THEN "default_instance" ELSE "mod_instances", NULL, a)}
           t == IF k = "instance" /\ p = NULL THEN 0 ELSE IF k \in OwnTables THEN 3 ELSE 1
<1>1. IsFiniteSet(T) /\ Cardinality(T) = t /\ \A r \in T : r.holder = DB
  BY TableCount, TableRef, FS_EmptySet
<1>2. \A r \in P \cup N \cup M : r.holder # DB
  BY RefFields
<1>3. /\ \A r \in P : r.slot \notin {"objects", "default_instance", "mod_instances"}
      /\ \A r \in N : r.slot = "objects"
      /\ \A r \in M : r.slot \in {"default_instance", "mod_instances"}
  BY RefFields, ParentQueues, Kinds
<1>4. /\ P = {} \/ \E x : P = {x}
      /\ N = {} \/ \E x : N = {x}
      /\ M = {} \/ \E x : M = {x}
      /\ p = NULL <=> P = {}
      /\ n = NULL <=> N = {}
      /\ m = NULL <=> M = {}
  OBVIOUS
<1>5. Given(k, i, p, m, n, a) = T \cup P \cup N \cup M
  BY DEF Given
<1>6. Count(k, p, m, n) = t + (IF P = {} THEN 0 ELSE 1) + (IF N = {} THEN 0 ELSE 1)
                            + (IF M = {} THEN 0 ELSE 1)
  BY <1>4 DEF Count
<1>7. t \in Nat
  OBVIOUS
<1> HIDE DEF T, P, N, M, t
<1>8. IsFiniteSet(T \cup P) /\ Cardinality(T \cup P) = t + (IF P = {} THEN 0 ELSE 1)
  BY <1>1, <1>2, <1>4, <1>7, AddOne
<1>9. /\ IsFiniteSet(T \cup P \cup N)
      /\ Cardinality(T \cup P \cup N) = t + (IF P = {} THEN 0 ELSE 1) + (IF N = {} THEN 0 ELSE 1)
  <2>1. \A x \in N : x \notin T \cup P
    BY <1>1, <1>2, <1>3
  <2> QED
    BY <2>1, <1>4, <1>7, <1>8, AddOne
<1>10. /\ IsFiniteSet(T \cup P \cup N \cup M)
       /\ Cardinality(T \cup P \cup N \cup M)
           = t + (IF P = {} THEN 0 ELSE 1) + (IF N = {} THEN 0 ELSE 1) + (IF M = {} THEN 0 ELSE 1)
  <2>1. \A x \in M : x \notin T \cup P \cup N
    BY <1>1, <1>2, <1>3
  <2>2. CASE M = {}
    BY <2>2, <1>7, <1>9
  <2>3. ASSUME NEW x, M = {x}
        PROVE  /\ IsFiniteSet(T \cup P \cup N \cup M)
               /\ Cardinality(T \cup P \cup N \cup M) = Cardinality(T \cup P \cup N) + 1
    BY <2>1, <2>3, <1>9, AddOne
  <2> QED
    BY <2>2, <2>3, <1>4, <1>7, <1>9
<1> QED
  BY <1>5, <1>6, <1>10

(* Where a reference that an object is given comes from. *)
LEMMA GivenRefs ==
  ASSUME NEW k \in Kind, NEW i, NEW p, NEW m, NEW n, NEW a, DB \notin {p, m, n},
         NEW r \in Given(k, i, p, m, n, a)
  PROVE  /\ r = Ref(r.holder, r.slot, r.key, a) /\ r.obj = a
         /\ r.holder = DB => /\ r \in TableRefs(k, i, a)
                             /\ TableRefs(k, i, a) \subseteq Given(k, i, p, m, n, a)
                             /\ ~ (k = "instance" /\ p = NULL)
         /\ r.holder # DB =>
              /\ r.key = NULL
              /\ \/ p # NULL /\ r.holder = p /\ r.slot = ParentQueue[k]
                 \/ n # NULL /\ r.holder = n /\ r.slot = "objects"
                 \/ m # NULL /\ p = NULL /\ r.holder = m /\ r.slot = "default_instance"
                 \/ m # NULL /\ p # NULL /\ r.holder = m /\ r.slot = "mod_instances"
<1>1. CASE r.holder = DB
  <2>1. r \in TableRefs(k, i, a) /\ ~ (k = "instance" /\ p = NULL)
    BY <1>1, RefFields DEF Given
  <2>2. TableRefs(k, i, a) \subseteq Given(k, i, p, m, n, a)
    BY <2>1 DEF Given
  <2> QED
    BY <1>1, <2>1, <2>2, TableRef
<1>2. CASE r.holder # DB
  <2>1. r \notin TableRefs(k, i, a)
    BY <1>2, TableRef
  <2> QED
    BY <1>2, <2>1, RefFields DEF Given
<1> QED
  BY <1>1, <1>2

-----------------------------------------------------------------------------
(* Commands make objects and give them references.                         *)
GivenTo(a) == Given(kind[a], id[a], parent[a], module[a], net[a], a)

HeapTyped ==
  /\ kind \in [Addr -> Kind \cup {"free"}]
  /\ id \in [Addr -> Ids]
  /\ refcount \in [Addr -> Nat]
  /\ parent \in [Addr -> Addr \cup {NULL}]
  /\ module \in [Addr -> Addr \cup {NULL}]
  /\ net \in [Addr -> Addr \cup {NULL}]
  /\ default_instance \in [Addr -> Addr \cup {NULL}]

(* Object a, just made along with the objects of N. *)
Made(N, a) ==
  /\ kind[a] \in Kind /\ Shaped(kind[a], id[a])
  /\ refcount[a] = Count(kind[a], parent[a], module[a], net[a])
  /\ parent[a] # NULL => /\ kind[a] \in DOMAIN ParentQueue /\ Live(parent[a])
                         /\ ParentQueue[kind[a]] \in Elements(Queues[kind[parent[a]]])
  /\ net[a] # NULL => kind[a] \in {"port", "pin", "declaration"} /\ kind[net[a]] = "net"
  /\ module[a] # NULL => kind[a] = "instance" /\ kind[module[a]] \in {"module", "resource"}
  /\ kind[a] = "instance" => module[a] # NULL
  /\ default_instance[a] # NULL => kind[a] = "module"
  /\ kind[a] = "module" =>
       LET i == default_instance[a]
       IN  i \in N /\ module[i] = a /\ id[i] = <<"instance", id[a][2]>>

(* The objects of N are made, or placed, and the references X go away. *)
Growing(N, X) ==
  /\ Idle /\ UNCHANGED clearing /\ HeapTyped'
  /\ N \subseteq Addr /\ X \subseteq refs
  /\ \A a \in N : Live(a) => kind'[a] = kind[a] /\ id'[a] = id[a] /\ module'[a] = module[a]
  /\ \A r \in refs \ X : r.obj \in N => ~ Sound(r)
  /\ \A r \in X : /\ Sound(r)
                  /\ \/ r.slot = "default_instance" /\ r.obj \in N
                     \/ /\ r.slot = "objects_by_id" /\ r.holder = DB
                        /\ kind[r.obj] = "codesection" /\ r.obj \notin N
  /\ \A q, r \in X : q = r
  /\ refs' = (refs \ X) \cup UNION {GivenTo(a)' : a \in N}
  /\ \A a \in Addr \ N :
       /\ kind'[a] = kind[a] /\ id'[a] = id[a] /\ parent'[a] = parent[a]
       /\ module'[a] = module[a] /\ net'[a] = net[a]
       /\ default_instance'[a] = default_instance[a]
       /\ refcount'[a] = IF \E r \in X : r.obj = a THEN refcount[a] - 1 ELSE refcount[a]
  /\ \A a \in N : Made(N, a)'
  /\ \A a \in N : \A r \in GivenTo(a)' : r.holder = DB =>
       /\ \A q \in refs \ X : q.holder = DB /\ q.slot = r.slot => q.key # r.key
       /\ \A b \in N : \A q \in GivenTo(b)' :
            q.holder = DB /\ q.slot = r.slot /\ q.key = r.key => a = b
  /\ \/ /\ freeing' = <<>> /\ failed' = failed
        /\ \A r \in X : r.obj \in N \/ refcount[r.obj] > 1
     \/ \E o \in N, s \in Net :
          /\ freeing' = <<o>> /\ failed' = failed \cup {s} /\ X = {}
          /\ ~ Live(o) /\ kind'[o] = "net" /\ id'[o] = <<"net", s>>
          /\ \A a \in N : net'[a] # o
     \/ \E r \in X :
          /\ freeing' = <<r.obj>> /\ failed' = failed
          /\ r.obj \notin N /\ refcount[r.obj] <= 1

(* The references after a growing step: those of before without X, and the *)
(* ones that the objects of N are given.                                   *)
LEMMA GrowRefs ==
  ASSUME ObjInv, NEW N, NEW X, Growing(N, X)
  PROVE  /\ \A a \in N : DB \notin {parent'[a], module'[a], net'[a]} /\ kind'[a] \in Kind
         /\ \A a \in N : \A r \in GivenTo(a)' : r.obj = a
         /\ \A r : r \in refs' <=> \/ r \in refs \ X
                                   \/ r.obj \in N /\ r \in GivenTo(r.obj)'
         /\ \A r \in refs : r.holder # DB => Live(r.obj) /\ Sound(r)
         /\ \A r \in refs : r.holder # DB => r.slot \notin TableSlots
         /\ \A r \in refs : r.holder = DB => r.slot \in TableSlots
<1>1. \A a \in N : DB \notin {parent'[a], module'[a], net'[a]} /\ kind'[a] \in Kind
  <2>1. HeapTyped' /\ N \subseteq Addr /\ \A a \in N : Made(N, a)'
    BY DEF Growing
  <2> QED
    BY <2>1, HolderAssumption DEF HeapTyped, Made
<1>2. ASSUME NEW a \in N, NEW r \in GivenTo(a)'
      PROVE  r.obj = a
  BY <1>1, GivenRefs DEF GivenTo
<1>3. refs' = (refs \ X) \cup UNION {GivenTo(a)' : a \in N}
  BY DEF Growing
<1>4. \A r \in refs : r.holder # DB => Live(r.obj) /\ Sound(r)
  BY DEF ObjInv, QueuesOK, Sound
<1>5. \A r \in refs : r.holder # DB => r.slot \notin TableSlots
  BY Kinds, ParentQueues DEF ObjInv, QueuesOK, BackReferenceOf, TableSlots
<1>6. ASSUME NEW r \in refs, r.holder = DB
      PROVE  r.slot \in TableSlots
  <2>1. "net" \in Kind
    BY Kinds
  <2>2. \/ Live(r.obj) /\ r \in TableRefs(kind[r.obj], id[r.obj], r.obj)
        \/ \E s \in failed : r \in TableRefs("net", <<"net", s>>, r.obj)
    BY <1>6 DEF ObjInv, TablesOK, EntryOf
  <2>3. Live(r.obj) => kind[r.obj] \in Kind
    BY DEF ObjInv, HeapTypeOK, Live
  <2> QED
    BY <2>1, <2>2, <2>3, TableRef
<1> QED
  BY <1>1, <1>2, <1>3, <1>4, <1>5, <1>6

(* The holders of each object after a growing step. *)
LEMMA GrowHolders ==
  ASSUME ObjInv, NEW N, NEW X, Growing(N, X)
  PROVE  /\ \A a \in Addr \ N : HoldersOf(a)' = HoldersOf(a) \ X
         /\ \A a \in N : HoldersOf(a)' = GivenTo(a)'
<1>1. ASSUME NEW a \in Addr \ N, NEW r
      PROVE  r \in HoldersOf(a)' <=> r \in HoldersOf(a) \ X
  <2>1. kind'[a] = kind[a] /\ id'[a] = id[a]
    BY DEF Growing
  <2>2. r.obj = a => (r \in refs' <=> r \in refs \ X)
    BY GrowRefs
  <2>3. r.obj = a => (Sound(r)' <=> Sound(r))
    BY <2>1 DEF Sound, Live
  <2> QED
    BY <2>2, <2>3 DEF HoldersOf
<1>2. ASSUME NEW a \in N, NEW r \in HoldersOf(a)'
      PROVE  r \in GivenTo(a)'
  <2>1. r \in refs' /\ r.obj = a /\ Sound(r)'
    BY DEF HoldersOf
  <2>2. CASE r \in refs \ X
    <3>1. ~ Sound(r)
      BY <2>1, <2>2 DEF Growing
    <3>2. r.holder = DB
      BY <2>2, <3>1, GrowRefs
    <3>3. PICK s \in failed : r \in TableRefs("net", <<"net", s>>, a)
      BY <2>1, <2>2, <3>1, <3>2 DEF ObjInv, TablesOK, EntryOf, Sound
    <3>4. r \in TableRefs(kind'[a], id'[a], a)
      BY <2>1, <3>2 DEF Sound
    <3>5. kind'[a] \in Kind /\ Shaped(kind'[a], id'[a])
      BY DEF Growing, Made
    <3>6. kind'[a] = "net"
      BY <3>3, <3>4, <3>5, NetEntries
    <3> QED
      BY <3>4, <3>6 DEF GivenTo, Given
  <2> QED
    BY <2>1, <2>2, GrowRefs
<1>3. ASSUME NEW a \in N, NEW r \in GivenTo(a)'
      PROVE  r \in HoldersOf(a)'
  <2>1. r.obj = a /\ r \in refs'
    BY GrowRefs
  <2>2. kind'[a] \in Kind /\ DB \notin {parent'[a], module'[a], net'[a]}
    BY GrowRefs
  <2>3. r.holder = DB => r \in TableRefs(kind'[a], id'[a], a)
    BY <2>2, GivenRefs DEF GivenTo
  <2>4. Live(a)'
    BY <2>2, Kinds DEF Live
  <2> QED
    BY <2>1, <2>3, <2>4 DEF HoldersOf, Sound
<1> QED
  <2>1. \A a \in N : HoldersOf(a)' = GivenTo(a)'
    <3> TAKE a \in N
    <3>1. \A r : r \in HoldersOf(a)' <=> r \in GivenTo(a)'
      BY <1>2, <1>3
    <3> QED
      BY <3>1
  <2>2. \A a \in Addr \ N : HoldersOf(a)' = HoldersOf(a) \ X
    <3> TAKE a \in Addr \ N
    <3>1. \A r : r \in HoldersOf(a)' <=> r \in HoldersOf(a) \ X
      BY <1>1
    <3> QED
      BY <3>1
  <2> QED
    BY <2>1, <2>2

(* A growing step keeps the types of the heap. *)
LEMMA GrowTyped ==
  ASSUME ObjInv, NEW N, NEW X, Growing(N, X)
  PROVE  HeapTypeOK' /\ ObjectsShaped'
<1>1. HeapTyped' /\ clearing' \in BOOLEAN
  BY DEF Growing, ObjInv, HeapTypeOK
<1>2. N \subseteq Addr
  BY DEF Growing
<1>3. ASSUME NEW r \in refs'
      PROVE  r = Ref(r.holder, r.slot, r.key, r.obj) /\ r.holder \in Addr \cup {DB} /\ r.obj \in Addr
  <2>1. CASE r \in refs \ X
    BY <2>1 DEF ObjInv, HeapTypeOK
  <2>2. CASE r.obj \in N /\ r \in GivenTo(r.obj)'
    <3> DEFINE a == r.obj
    <3>1. kind'[a] \in Kind /\ DB \notin {parent'[a], module'[a], net'[a]}
      BY <2>2, GrowRefs
    <3>2. {parent'[a], module'[a], net'[a]} \subseteq Addr \cup {NULL}
      BY <1>1, <1>2, <2>2 DEF HeapTyped
    <3>3. r \in Given(kind'[a], id'[a], parent'[a], module'[a], net'[a], a)
      BY <2>2 DEF GivenTo
    <3> HIDE DEF a
    <3>4. /\ r = Ref(r.holder, r.slot, r.key, a)
          /\ r.holder = DB \/ r.holder \in {parent'[a], module'[a], net'[a]} \ {NULL}
      BY <3>1, <3>3, GivenRefs
    <3> QED
      BY <2>2, <1>2, <3>2, <3>4 DEF a
  <2> QED
    BY <2>1, <2>2, GrowRefs
<1>4. freeing' \in Seq(Addr) /\ failed' \subseteq Net
  <2>1. failed \subseteq Net /\ X \subseteq refs /\ \A r \in refs : r.obj \in Addr
    BY DEF ObjInv, HeapTypeOK, Growing
  <2>2. <<>> \in Seq(Addr) /\ \A o \in Addr : <<o>> \in Seq(Addr)
    OBVIOUS
  <2>3. \/ freeing' = <<>> /\ failed' = failed
        \/ \E o \in N, s \in Net : freeing' = <<o>> /\ failed' = failed \cup {s}
        \/ \E r \in X : freeing' = <<r.obj>> /\ failed' = failed
    BY DEF Growing
  <2>4. freeing' \in Seq(Addr)
    BY <1>2, <2>1, <2>2, <2>3
  <2>5. failed' \subseteq Net
    BY <2>1, <2>3
  <2> QED
    BY <2>4, <2>5
<1>5. ObjectsShaped'
  <2> SUFFICES ASSUME NEW a \in Addr
               PROVE  /\ Live(a)' => Shaped(kind'[a], id'[a])
                      /\ ~ Live(a)' => /\ parent'[a] = NULL /\ module'[a] = NULL
                                       /\ net'[a] = NULL /\ default_instance'[a] = NULL
    BY DEF ObjectsShaped
  <2>1. CASE a \in N
    BY <2>1, Kinds DEF Growing, Made, Live
  <2>2. CASE a \notin N
    BY <2>2 DEF Growing, ObjInv, ObjectsShaped, Live
  <2> QED
    BY <2>1, <2>2
<1> QED
  BY <1>1, <1>3, <1>4, <1>5 DEF HeapTypeOK, HeapTyped

(* A growing step keeps the tables in order: new entries have new keys. *)
LEMMA GrowTables ==
  ASSUME ObjInv, NEW N, NEW X, Growing(N, X)
  PROVE  TablesOK'
<1>0. "net" \in Kind /\ N \subseteq Addr /\ X \subseteq refs
  BY Kinds DEF Growing
<1>1. ~ clearing /\ ~ clearing'
  BY DEF Growing, Idle
<1>2. ASSUME NEW r \in refs \ X, NEW k \in Kind, NEW i, Shaped(k, i),
             r \in TableRefs(k, i, r.obj), TableRefs(k, i, r.obj) \subseteq refs
      PROVE  TableRefs(k, i, r.obj) \subseteq refs'
  <2>1. ASSUME NEW q \in X, q \in TableRefs(k, i, r.obj)
        PROVE  FALSE
    <3>1. q.obj = r.obj /\ q.holder = DB /\ q.slot \in TableSlots
      BY <2>1, TableRef
    <3>2. /\ Sound(q) /\ kind[q.obj] = "codesection"
      BY <3>1 DEF Growing, TableSlots
    <3>3. q \in TableRefs("codesection", id[q.obj], q.obj) /\ Shaped("codesection", id[q.obj])
      BY <1>0, <3>1, <3>2 DEF Sound, ObjInv, ObjectsShaped, HeapTypeOK
    <3>4. q.slot = "objects_by_id"
      BY <3>1 DEF Growing, TableSlots
    <3>5. "codesection" \in Kind /\ "codesection" \notin OwnTables
      BY Kinds DEF OwnTables
    <3>6. i = q.key /\ id[q.obj] = q.key
      BY <2>1, <3>3, <3>4, <3>5, TableRef
    <3>7. Tag(k) = "codesection"
      BY <1>2, <3>3, <3>6 DEF Shaped, Tag
    <3>8. k = "codesection"
      BY <3>7, Kinds DEF Tag
    <3>9. TableRefs(k, i, r.obj) = {q}
      BY <2>1, <3>5, <3>8, TableRefsAre
    <3> QED
      BY <1>2, <2>1, <3>9
  <2> QED
    BY <1>2, <2>1, GrowRefs
<1>3. ASSUME NEW r \in refs', r.holder = DB
      PROVE  \/ Live(r.obj)' /\ EntryOf(r, kind[r.obj], id[r.obj])'
             \/ \E s \in failed' : EntryOf(r, "net", <<"net", s>>)'
  <2>1. CASE r \in refs \ X
    <3>1. CASE Live(r.obj) /\ EntryOf(r, kind[r.obj], id[r.obj])
      <4>1. r \in TableRefs(kind[r.obj], id[r.obj], r.obj) /\ r.obj \in Addr
        BY <2>1, <3>1 DEF EntryOf, ObjInv, HeapTypeOK
      <4>2. Sound(r)
        BY <3>1, <4>1 DEF Sound
      <4>3. kind'[r.obj] = kind[r.obj] /\ id'[r.obj] = id[r.obj]
        BY <2>1, <4>1, <4>2 DEF Growing
      <4>4. kind[r.obj] \in Kind /\ Shaped(kind[r.obj], id[r.obj])
        BY <3>1, <4>1 DEF ObjInv, ObjectsShaped, HeapTypeOK, Live
      <4>5. TableRefs(kind[r.obj], id[r.obj], r.obj) \subseteq refs'
        BY <1>1, <1>2, <2>1, <3>1, <4>1, <4>4 DEF EntryOf
      <4> QED
        BY <3>1, <4>1, <4>3, <4>5 DEF EntryOf, Live
    <3>2. ASSUME NEW s \in failed, EntryOf(r, "net", <<"net", s>>)
          PROVE  \E t \in failed' : EntryOf(r, "net", <<"net", t>>)'
      <4>1. s \in failed' /\ s \in Net
        BY DEF Growing, ObjInv, HeapTypeOK
      <4>2. Shaped("net", <<"net", s>>)
        BY <1>0, <4>1 DEF Shaped, Ids, Tag
      <4>3. TableRefs("net", <<"net", s>>, r.obj) \subseteq refs'
        BY <1>0, <1>1, <1>2, <2>1, <3>2, <4>2 DEF EntryOf
      <4> QED
        BY <3>2, <4>1, <4>3 DEF EntryOf
    <3> QED
      BY <1>3, <2>1, <3>1, <3>2 DEF ObjInv, TablesOK
  <2>2. CASE r.obj \in N /\ r \in GivenTo(r.obj)'
    <3> DEFINE a == r.obj
    <3>1. kind'[a] \in Kind /\ DB \notin {parent'[a], module'[a], net'[a]}
      BY <2>2, GrowRefs
    <3>2. r \in Given(kind'[a], id'[a], parent'[a], module'[a], net'[a], a)
      BY <2>2 DEF GivenTo
    <3>3. /\ r \in TableRefs(kind'[a], id'[a], a)
          /\ TableRefs(kind'[a], id'[a], a) \subseteq GivenTo(a)'
      BY <1>3, <3>1, <3>2, GivenRefs DEF GivenTo
    <3>4. GivenTo(a)' \subseteq refs'
      BY <2>2, GrowRefs
    <3> QED
      BY <3>1, <3>3, <3>4, Kinds DEF EntryOf, Live
  <2> QED
    BY <2>1, <2>2, GrowRefs
<1>4. ASSUME NEW q \in refs', NEW r \in refs', q.holder = DB, r.holder = DB,
             q.slot = r.slot, q.key = r.key
      PROVE  q.obj = r.obj
  <2>1. CASE q \in refs \ X /\ r \in refs \ X
    BY <1>4, <2>1 DEF ObjInv, TablesOK
  <2>2. CASE q \in refs \ X /\ r.obj \in N /\ r \in GivenTo(r.obj)'
    BY <1>4, <2>2 DEF Growing
  <2>3. CASE r \in refs \ X /\ q.obj \in N /\ q \in GivenTo(q.obj)'
    BY <1>4, <2>3 DEF Growing
  <2>4. CASE /\ q.obj \in N /\ q \in GivenTo(q.obj)'
             /\ r.obj \in N /\ r \in GivenTo(r.obj)'
    BY <1>4, <2>4 DEF Growing
  <2> QED
    BY <2>1, <2>2, <2>3, <2>4, GrowRefs
<1>5. ASSUME NEW s \in failed'
      PROVE  Holds("nets_by_name", s)'
  <2>1. CASE s \in failed
    <3>1. PICK r \in refs : r.holder = DB /\ r.slot = "nets_by_name" /\ r.key = s
      BY <2>1 DEF ObjInv, TablesOK, Holds, Entries
    <3>2. r \notin X
      BY <3>1 DEF Growing
    <3> QED
      BY <3>1, <3>2, GrowRefs DEF Holds, Entries
  <2>2. ASSUME NEW o \in N, kind'[o] = "net", id'[o] = <<"net", s>>
        PROVE  Holds("nets_by_name", s)'
    <3> DEFINE r == Ref(DB, "nets_by_name", s, o)
    <3>1. r \in TableRefs("net", <<"net", s>>, o)
      BY <1>0, TableRefsAre, TableNames
    <3>2. r \in GivenTo(o)'
      BY <2>2, <3>1 DEF GivenTo, Given
    <3>3. r \in refs'
      BY <3>2, GrowRefs
    <3> QED
      BY <3>3, RefFields DEF Holds, Entries
  <2> QED
    BY <2>1, <2>2 DEF Growing
<1> QED
  BY <1>1, <1>3, <1>4, <1>5 DEF TablesOK

(* A growing step keeps queues and back-references in step. *)
LEMMA GrowQueues ==
  ASSUME ObjInv, NEW N, NEW X, Growing(N, X)
  PROVE  QueuesOK'
<1>0. N \subseteq Addr /\ X \subseteq refs /\ DB \notin Addr /\ NULL \notin Addr
  BY HolderAssumption DEF Growing
<1>1. \A h \in Addr : Live(h) => kind'[h] = kind[h]
  BY DEF Growing
<1>2. ASSUME NEW r \in refs', r.holder # DB
      PROVE  /\ r.key = NULL /\ Live(r.obj)' /\ BackReferenceOf(r)'
             /\ r.slot # "default_instance" =>
                  Live(r.holder)' /\ r.slot \in Elements(Queues[kind'[r.holder]])
  <2>1. CASE r \in refs \ X
    <3>0. Sound(r)
      BY <1>2, <2>1, GrowRefs
    <3>1. r.holder \in Addr /\ r.obj \in Addr \ N
      <4>1. r.holder \in Addr /\ r.obj \in Addr
        BY <1>2, <2>1 DEF ObjInv, HeapTypeOK
      <4>2. r.obj \notin N
        BY <2>1, <3>0 DEF Growing
      <4> QED
        BY <4>1, <4>2
    <3>2. /\ r.key = NULL /\ Live(r.obj) /\ BackReferenceOf(r)
          /\ r.slot # "default_instance" =>
               Live(r.holder) /\ r.slot \in Elements(Queues[kind[r.holder]])
      BY <1>2, <2>1 DEF ObjInv, QueuesOK
    <3>3. /\ kind'[r.obj] = kind[r.obj] /\ parent'[r.obj] = parent[r.obj]
          /\ module'[r.obj] = module[r.obj] /\ net'[r.obj] = net[r.obj]
      BY <3>1 DEF Growing
    <3>4. BackReferenceOf(r)'
      BY <3>2, <3>3 DEF BackReferenceOf
    <3> QED
      BY <1>1, <3>1, <3>2, <3>3, <3>4 DEF Live
  <2>2. CASE r.obj \in N /\ r \in GivenTo(r.obj)'
    <3> DEFINE a == r.obj
    <3>1. kind'[a] \in Kind /\ DB \notin {parent'[a], module'[a], net'[a]}
      BY <2>2, GrowRefs
    <3>2. r \in Given(kind'[a], id'[a], parent'[a], module'[a], net'[a], a)
      BY <2>2 DEF GivenTo
    <3>3. Made(N, a)'
      BY <2>2 DEF Growing
    <3> HIDE DEF a
    <3>4. /\ r.key = NULL
          /\ \/ parent'[a] # NULL /\ r.holder = parent'[a] /\ r.slot = ParentQueue[kind'[a]]
             \/ net'[a] # NULL /\ r.holder = net'[a] /\ r.slot = "objects"
             \/ /\ module'[a] # NULL /\ parent'[a] = NULL
                /\ r.holder = module'[a] /\ r.slot = "default_instance"
             \/ /\ module'[a] # NULL /\ parent'[a] # NULL
                /\ r.holder = module'[a] /\ r.slot = "mod_instances"
      BY <1>2, <3>1, <3>2, GivenRefs
    <3>5. Live(a)'
      BY <3>1, Kinds DEF Live
    <3>6. BackReferenceOf(r)'
      BY <3>3, <3>4 DEF Made, BackReferenceOf, a
    <3>7. r.slot # "default_instance" =>
            Live(r.holder)' /\ r.slot \in Elements(Queues[kind'[r.holder]])
      BY <3>3, <3>4, QueueSlots DEF Made, Live
    <3> QED
      BY <3>4, <3>5, <3>6, <3>7 DEF a
  <2> QED
    BY <2>1, <2>2, GrowRefs
<1>3. ASSUME NEW a \in Addr
      PROVE  /\ parent'[a] # NULL => Ref(parent'[a], ParentQueue[kind'[a]], NULL, a) \in refs'
             /\ net'[a] # NULL    => Ref(net'[a], "objects", NULL, a) \in refs'
             /\ module'[a] # NULL => \/ Ref(module'[a], "mod_instances", NULL, a) \in refs'
                                    \/ Ref(module'[a], "default_instance", NULL, a) \in refs'
  <2>1. CASE a \in N
    <3>1. \A r : r \in GivenTo(a)' => r \in refs'
      BY <2>1, GrowRefs
    <3> QED
      BY <3>1 DEF GivenTo, Given
  <2>2. CASE a \notin N
    <3>1. /\ kind'[a] = kind[a] /\ parent'[a] = parent[a]
          /\ module'[a] = module[a] /\ net'[a] = net[a]
      BY <2>2 DEF Growing
    <3>2. ASSUME NEW h \in Addr, NEW s, Ref(h, s, NULL, a) \in refs
          PROVE  Ref(h, s, NULL, a) \in refs'
      <4>1. Ref(h, s, NULL, a) \notin X
        BY <1>0, <2>2, RefFields DEF Growing
      <4> QED
        BY <3>2, <4>1, GrowRefs
    <3>3. {parent[a], module[a], net[a]} \subseteq Addr \cup {NULL}
      BY DEF ObjInv, HeapTypeOK
    <3> QED
      BY <3>1, <3>2, <3>3 DEF ObjInv, QueuesOK
  <2> QED
    BY <2>1, <2>2
<1> QED
  BY <1>2, <1>3 DEF QueuesOK

(* A growing step keeps what instances and modules know of each other. *)
LEMMA GrowInstances ==
  ASSUME ObjInv, NEW N, NEW X, Growing(N, X)
  PROVE  InstancesOK'
<1>0. N \subseteq Addr /\ X \subseteq refs /\ DB \notin Addr /\ NULL \notin Addr
  BY HolderAssumption DEF Growing
<1>1. ~ clearing /\ ~ clearing' /\ Elements(freeing) = {}
  BY DEF Growing, Idle, Elements
<1>2. ASSUME NEW a \in N
      PROVE  /\ Made(N, a)' /\ kind'[a] \in Kind
             /\ \A r \in GivenTo(a)' :
                  /\ r.slot = "default_instance" => GivenTo(a)' = {r}
                  /\ r.slot = "mod_instances" => parent'[a] # NULL
  <2>1. Made(N, a)' /\ kind'[a] \in Kind /\ DB \notin {parent'[a], module'[a], net'[a]}
    <3>1. Made(N, a)'
      BY DEF Growing
    <3> QED
      BY <3>1, GrowRefs
  <2>2. ASSUME NEW r \in Given(kind'[a], id'[a], parent'[a], module'[a], net'[a], a),
               r.slot \in {"default_instance", "mod_instances"}
        PROVE  /\ module'[a] # NULL
               /\ r.slot = "default_instance" => parent'[a] = NULL
               /\ r.slot = "mod_instances" => parent'[a] # NULL
    <3>1. r.holder # DB
      BY <2>1, <2>2, GivenRefs, TableRef DEF TableSlots
    <3>2. parent'[a] # NULL => ParentQueue[kind'[a]] \notin {"default_instance", "mod_instances"}
      BY <2>1, Kinds, ParentQueues DEF Made
    <3> QED
      BY <2>1, <2>2, <3>1, <3>2, GivenRefs
  <2>3. ASSUME NEW r \in GivenTo(a)', r.slot = "default_instance"
        PROVE  GivenTo(a)' = {r}
    <3>1. module'[a] # NULL /\ parent'[a] = NULL
      BY <2>2, <2>3 DEF GivenTo
    <3>2. kind'[a] = "instance" /\ net'[a] = NULL
      BY <2>1, <3>1 DEF Made
    <3> QED
      BY <2>3, <3>1, <3>2 DEF GivenTo, Given
  <2> QED
    BY <2>1, <2>2, <2>3 DEF GivenTo
<1>3. ASSUME NEW r \in refs', r.slot = "default_instance"
      PROVE  HoldersOf(r.obj)' = {r}
  <2>1. CASE r \in refs \ X
    <3>1. Sound(r) /\ r.obj \in Addr
      BY <1>3, <2>1, GrowRefs DEF ObjInv, HeapTypeOK, TableSlots
    <3>2. r.obj \notin N
      BY <2>1, <3>1 DEF Growing
    <3>3. HoldersOf(r.obj) = {r}
      BY <1>3, <2>1 DEF ObjInv, InstancesOK
    <3> QED
      BY <2>1, <3>1, <3>2, <3>3, GrowHolders
  <2>2. CASE r.obj \in N /\ r \in GivenTo(r.obj)'
    BY <1>2, <1>3, <2>2, GrowHolders
  <2> QED
    BY <2>1, <2>2, GrowRefs
<1>4. ASSUME NEW r \in refs', r.slot = "mod_instances"
      PROVE  parent'[r.obj] # NULL
  <2>1. CASE r \in refs \ X
    <3>1. Sound(r) /\ r.obj \in Addr
      BY <1>4, <2>1, GrowRefs DEF ObjInv, HeapTypeOK, TableSlots
    <3>2. r.obj \notin N
      BY <2>1, <3>1 DEF Growing
    <3>3. parent'[r.obj] = parent[r.obj]
      BY <3>1, <3>2 DEF Growing
    <3> QED
      BY <1>1, <1>4, <2>1, <3>3 DEF ObjInv, InstancesOK
  <2>2. CASE r.obj \in N /\ r \in GivenTo(r.obj)'
    BY <1>2, <1>4, <2>2
  <2> QED
    BY <2>1, <2>2, GrowRefs
<1>5. ASSUME NEW a \in Addr
      PROVE  /\ kind'[a] = "instance" => module'[a] # NULL
             /\ default_instance'[a] # NULL => kind'[a] = "module"
  <2>1. CASE a \in N
    BY <1>2, <2>1 DEF Made
  <2>2. CASE a \notin N
    <3>1. /\ kind'[a] = kind[a] /\ module'[a] = module[a]
          /\ default_instance'[a] = default_instance[a]
      BY <2>2 DEF Growing
    <3> QED
      BY <1>1, <3>1 DEF ObjInv, InstancesOK
  <2> QED
    BY <2>1, <2>2
<1>6. ASSUME NEW m \in Addr, kind'[m] = "module"
      PROVE  LET i == default_instance'[m]
             IN  /\ i \in Addr
                 /\ \/ Ref(m, "mod_instances", NULL, i) \in refs'
                    \/ Ref(m, "default_instance", NULL, i) \in refs'
                 /\ id'[i] = <<"instance", id'[m][2]>>
  <2>1. ASSUME NEW i \in N, module'[i] = m
        PROVE  \/ Ref(m, "mod_instances", NULL, i) \in refs'
               \/ Ref(m, "default_instance", NULL, i) \in refs'
    <3>1. \A r : r \in GivenTo(i)' => r \in refs'
      BY <2>1, GrowRefs
    <3>2. m # NULL
      BY <1>0
    <3> QED
      BY <2>1, <3>1, <3>2 DEF GivenTo, Given
  <2> DEFINE i == default_instance'[m]
  <2>2. CASE m \in N
    <3>1. i \in N /\ module'[i] = m /\ id'[i] = <<"instance", id'[m][2]>>
      BY <1>2, <1>6, <2>2 DEF Made
    <3> QED
      BY <1>0, <2>1, <3>1
  <2>3. CASE m \notin N
    <3>1. kind[m] = "module" /\ id'[m] = id[m] /\ default_instance[m] = i
      BY <1>6, <2>3 DEF Growing
    <3> HIDE DEF i
    <3>2. /\ i \in Addr
          /\ \/ Ref(m, "mod_instances", NULL, i) \in refs
             \/ Ref(m, "default_instance", NULL, i) \in refs
          /\ id[i] = <<"instance", id[m][2]>>
      BY <1>1, <3>1 DEF ObjInv, InstancesOK
    <3>3. PICK s \in {"mod_instances", "default_instance"} : Ref(m, s, NULL, i) \in refs
      BY <3>2
    <3> DEFINE r == Ref(m, s, NULL, i)
    <3>4. r \in refs /\ r.holder = m /\ r.obj = i /\ r.slot = s /\ r.holder # DB
      BY <1>0, <3>3, RefFields
    <3>5. Live(i) /\ BackReferenceOf(r)
      BY <3>4 DEF ObjInv, QueuesOK
    <3>6. module[i] = m
      BY <3>4, <3>5, ParentQueues, Kinds DEF BackReferenceOf
    <3>7. id'[i] = id[i] /\ (i \in N => module'[i] = m)
      BY <3>2, <3>5, <3>6 DEF Growing
    <3>8. CASE i \in N
      BY <2>1, <3>1, <3>2, <3>7, <3>8 DEF i
    <3>9. CASE i \notin N
      <4>1. r \notin X
        BY <1>0, <3>4, <3>9 DEF Growing
      <4>2. Ref(m, s, NULL, i) \in refs'
        BY <3>4, <4>1, GrowRefs
      <4> QED
        BY <3>1, <3>2, <3>3, <3>7, <4>2 DEF i
    <3> QED
      BY <3>8, <3>9
  <2> QED
    BY <2>2, <2>3
<1> QED
  BY <1>1, <1>3, <1>4, <1>5, <1>6 DEF InstancesOK

(* A growing step keeps the counts exact. *)
LEMMA GrowCounts ==
  ASSUME ObjInv, NEW N, NEW X, Growing(N, X)
  PROVE  CountsOK'
<1>0. HeapTyped' /\ N \subseteq Addr /\ X \subseteq refs
  BY DEF Growing
<1> SUFFICES ASSUME NEW a \in Addr, Live(a)'
             PROVE  /\ IsFiniteSet(HoldersOf(a)')
                    /\ refcount'[a] = Cardinality(HoldersOf(a)')
                    /\ HoldersOf(a)' = {} => a \in Elements(freeing')
  BY DEF CountsOK, Elements
<1>1. CASE a \in N
  <2>1. Made(N, a)'
    BY <1>1 DEF Growing
  <2>2. kind'[a] \in Kind /\ DB \notin {parent'[a], module'[a], net'[a]}
    BY <1>1, GrowRefs
  <2>3. HoldersOf(a)' = GivenTo(a)'
    BY <1>1, GrowHolders
  <2>4. parent'[a] # NULL => kind'[a] \in DOMAIN ParentQueue
    BY <2>1 DEF Made
  <2>5. /\ IsFiniteSet(HoldersOf(a)')
        /\ Cardinality(HoldersOf(a)') = Count(kind'[a], parent'[a], module'[a], net'[a])
    BY <2>2, <2>3, <2>4, GivenCount DEF GivenTo
  <2>6. refcount'[a] = Count(kind'[a], parent'[a], module'[a], net'[a])
    BY <2>1 DEF Made
  <2>7. Count(kind'[a], parent'[a], module'[a], net'[a]) > 0
    <3>1. kind'[a] = "instance" => module'[a] # NULL
      BY <2>1 DEF Made
    <3> QED
      BY <3>1 DEF Count
  <2>8. HoldersOf(a)' # {}
    BY <2>5, <2>7, FS_EmptySet
  <2> QED
    BY <2>5, <2>6, <2>8
<1>2. CASE a \notin N
  <2>1. HoldersOf(a)' = HoldersOf(a) \ X
    BY <1>2, GrowHolders
  <2>2. kind'[a] = kind[a] /\ Live(a)
    BY <1>2 DEF Growing, Live
  <2>3. /\ IsFiniteSet(HoldersOf(a)) /\ refcount[a] = Cardinality(HoldersOf(a))
        /\ HoldersOf(a) # {} /\ refcount[a] \in Nat
    BY <2>2 DEF ObjInv, CountsOK, HeapTypeOK, Growing, Idle, Elements
  <2>4. refcount'[a] = IF \E r \in X : r.obj = a THEN refcount[a] - 1 ELSE refcount[a]
    BY <1>2 DEF Growing
  <2>5. CASE \A r \in X : r.obj # a
    <3>1. HoldersOf(a) \ X = HoldersOf(a)
      BY <2>5 DEF HoldersOf
    <3> QED
      BY <2>1, <2>3, <2>4, <2>5, <3>1
  <2>6. ASSUME NEW r \in X, r.obj = a
        PROVE  /\ IsFiniteSet(HoldersOf(a)')
               /\ refcount'[a] = Cardinality(HoldersOf(a)')
               /\ HoldersOf(a)' = {} => a \in Elements(freeing')
    <3>1. X = {r} /\ Sound(r) /\ r \in refs
      BY DEF Growing
    <3>2. r \in HoldersOf(a)
      BY <2>6, <3>1 DEF HoldersOf
    <3>3. /\ IsFiniteSet(HoldersOf(a)')
          /\ Cardinality(HoldersOf(a)') = Cardinality(HoldersOf(a)) - 1
      BY <2>1, <2>3, <3>1, <3>2, FS_RemoveElement
    <3>4. refcount'[a] = refcount[a] - 1
      BY <2>4, <2>6
    <3>5. ASSUME HoldersOf(a)' = {}
          PROVE  a \in Elements(freeing')
      <4>1. refcount[a] = 1
        BY <2>3, <3>3, <3>5, FS_EmptySet
      <4>2. freeing' = <<a>>
        BY <1>2, <2>6, <3>1, <4>1 DEF Growing
      <4> QED
        BY <4>2 DEF Elements
    <3> QED
      BY <2>3, <3>3, <3>4, <3>5
  <2> QED
    BY <2>5, <2>6
<1> QED
  BY <1>1, <1>2

(* The elements of a sequence of one element. *)
LEMMA Single ==
  ASSUME NEW o
  PROVE  /\ Elements(<<o>>) = {o} /\ Len(<<o>>) = 1 /\ <<o>>[1] = o
         /\ \A j, k \in DOMAIN <<o>> : j = k
BY DEF Elements

(* After a growing step at most one object is being freed, and it has no   *)
(* holder or is the net whose command failed.                              *)
LEMMA GrowFreeing ==
  ASSUME ObjInv, NEW N, NEW X, Growing(N, X)
  PROVE  FreeingOK'
<1>0. N \subseteq Addr /\ X \subseteq refs /\ ~ clearing /\ ~ clearing'
  BY DEF Growing, Idle
<1>1. CASE freeing' = <<>>
  BY <1>1 DEF FreeingOK, Elements
<1>2. ASSUME NEW o \in N, NEW s \in Net, freeing' = <<o>>, failed' = failed \cup {s},
             ~ Live(o), kind'[o] = "net", id'[o] = <<"net", s>>, \A a \in N : net'[a] # o
      PROVE  FreeingOK'
  <2>1. ASSUME NEW r \in refs', r.holder = o, r.slot = "objects"
        PROVE  FALSE
    <3>0. o # DB /\ o \in Addr
      BY <1>0, HolderAssumption
    <3>1. CASE r \in refs \ X
      BY <1>2, <2>1, <3>0, <3>1 DEF ObjInv, QueuesOK
    <3>2. CASE r.obj \in N /\ r \in GivenTo(r.obj)'
      <4> DEFINE a == r.obj
      <4>1. kind'[a] \in Kind /\ DB \notin {parent'[a], module'[a], net'[a]}
        BY <3>2, GrowRefs
      <4>2. r \in Given(kind'[a], id'[a], parent'[a], module'[a], net'[a], a)
        BY <3>2 DEF GivenTo
      <4>3. net'[a] # o /\ Made(N, a)'
        BY <1>2, <3>2 DEF Growing
      <4>4. parent'[a] # NULL => ParentQueue[kind'[a]] # "objects"
        BY <4>3, ParentQueues, Kinds DEF Made
      <4> HIDE DEF a
      <4> QED
        BY <2>1, <3>0, <4>1, <4>2, <4>3, <4>4, GivenRefs
    <3> QED
      BY <3>1, <3>2, GrowRefs
  <2>2. InSlot(o, "objects")' = {}
    BY <2>1 DEF InSlot
  <2>3. Live(o)'
    BY <1>2 DEF Live
  <2> QED
    BY <1>0, <1>2, <2>2, <2>3, Single DEF FreeingOK
<1>3. ASSUME NEW r \in X, freeing' = <<r.obj>>, r.obj \notin N, refcount[r.obj] <= 1
      PROVE  FreeingOK'
  <2> DEFINE a == r.obj
  <2>1. X = {r} /\ Sound(r) /\ r \in refs /\ kind[a] = "codesection" /\ a \in Addr
    BY <1>3 DEF Growing, ObjInv, HeapTypeOK
  <2>2. Live(a) /\ r \in HoldersOf(a)
    BY <2>1 DEF Live, HoldersOf
  <2>3. kind'[a] = "codesection" /\ Live(a)'
    BY <1>3, <2>1 DEF Growing, Live
  <2>4. IsFiniteSet(HoldersOf(a)) /\ refcount[a] = Cardinality(HoldersOf(a))
    BY <2>1, <2>2 DEF ObjInv, CountsOK
  <2>5. HoldersOf(a) = {r}
    <3>1. /\ IsFiniteSet(HoldersOf(a) \ {r})
          /\ Cardinality(HoldersOf(a) \ {r}) = Cardinality(HoldersOf(a)) - 1
      BY <2>2, <2>4, FS_RemoveElement
    <3>2. Cardinality(HoldersOf(a)) \in Nat /\ Cardinality(HoldersOf(a) \ {r}) \in Nat
      BY <2>4, <3>1, FS_CardinalityType
    <3>3. Cardinality(HoldersOf(a) \ {r}) = 0
      BY <1>3, <2>4, <3>1, <3>2
    <3> QED
      BY <2>2, <3>1, <3>3, FS_EmptySet
  <2>6. HoldersOf(a)' = {}
    BY <1>3, <2>1, <2>5, GrowHolders
  <2>7. InSlot(a, "objects")' = {}
    <3>1. ASSUME NEW q \in refs', q.holder = a, q.slot = "objects"
          PROVE  FALSE
      <4>1. q.slot \in Elements(Queues[kind'[a]])
        BY <2>1, <3>1, GrowQueues, HolderAssumption DEF QueuesOK
      <4> QED
        BY <2>3, <3>1, <4>1, QueueSlots
    <3> QED
      BY <3>1 DEF InSlot
  <2> QED
    BY <1>3, <2>3, <2>6, <2>7, Single DEF FreeingOK
<1> QED
  BY <1>1, <1>2, <1>3 DEF Growing

(* Making or placing objects keeps the invariant.                          *)
LEMMA GrowStep ==
  ASSUME ObjInv, NEW N, NEW X, Growing(N, X)
  PROVE  ObjInv'
BY GrowTyped, GrowTables, GrowQueues, GrowInstances, GrowCounts, GrowFreeing DEF ObjInv

-----------------------------------------------------------------------------
(* What the commands make is allowed, and new in the tables.               *)
Allowed(x) ==
  /\ x.kind \in Kind /\ Shaped(x.kind, x.id)
  /\ x.parent \in Addr \cup {NULL} /\ x.taken \in Nat
  /\ x.parent # NULL => /\ x.kind \in DOMAIN ParentQueue /\ Live(x.parent)
                        /\ ParentQueue[x.kind] \in Elements(Queues[kind[x.parent]])

Fresh(k, i, X) ==
  \A a : \A r \in TableRefs(k, i, a) : \A q \in refs \ X :
    q.holder = DB /\ q.slot = r.slot => q.key # r.key

(* The fields of an object to be made. *)
LEMMA ObjectFields ==
  \A k, i, o, n : /\ Object(k, i, o, n).kind = k /\ Object(k, i, o, n).id = i
                  /\ Object(k, i, o, n).parent = o /\ Object(k, i, o, n).taken = n
BY DEF Object

(* A placement gives each new object a free address of its own. *)
LEMMA PlacementFacts ==
  ASSUME NEW S, \A x \in S : x.kind \in Kind, NEW at \in Placements(S)
  PROVE  /\ DOMAIN at \subseteq FreeAddr
         /\ \A a \in DOMAIN at : at[a] \in S
         /\ \A x \in S : \E a \in DOMAIN at : at[a] = x
         /\ \A a, b \in DOMAIN at : at[a] = at[b] => a = b
<1> DEFINE lowest == {a \in FreeAddr :
                        Cardinality({b \in FreeAddr : b < a}) < Cardinality(S)}
<1>1. /\ at \in [lowest -> S]
      /\ \A x \in S : \E a \in lowest : at[a] = x
      /\ \A a, b \in lowest : a < b => Rank[at[a].kind] < Rank[at[b].kind]
  BY DEF Placements
<1>2. lowest \subseteq FreeAddr /\ FreeAddr \subseteq Nat
  BY AddrAssumption DEF FreeAddr
<1> HIDE DEF lowest
<1>3. \A a \in lowest : Rank[at[a].kind] \in Nat
  BY <1>1, Ranks
<1>4. ASSUME NEW a \in lowest, NEW b \in lowest, at[a] = at[b]
      PROVE  a = b
  <2>1. ~ (a < b) /\ ~ (b < a)
    BY <1>1, <1>3, <1>4
  <2> QED
    BY <1>2, <2>1
<1> QED
  BY <1>1, <1>2, <1>4

(* A table entry is one of an Object-ID of its type. *)
LEMMA EntryFacts ==
  ASSUME ObjInv, NEW q \in refs, q.holder = DB
  PROVE  \E k \in Kind, i \in Ids :
           /\ Shaped(k, i) /\ q \in TableRefs(k, i, q.obj)
           /\ ~ clearing => TableRefs(k, i, q.obj) \subseteq refs
<1>1. CASE Live(q.obj) /\ EntryOf(q, kind[q.obj], id[q.obj])
  BY <1>1 DEF ObjInv, HeapTypeOK, ObjectsShaped, EntryOf, Live
<1>2. ASSUME NEW s \in failed, EntryOf(q, "net", <<"net", s>>)
      PROVE  \E k \in Kind, i \in Ids :
               /\ Shaped(k, i) /\ q \in TableRefs(k, i, q.obj)
               /\ ~ clearing => TableRefs(k, i, q.obj) \subseteq refs
  <2>1. "net" \in Kind /\ s \in Net
    BY Kinds DEF ObjInv, HeapTypeOK
  <2>2. Shaped("net", <<"net", s>>) /\ <<"net", s>> \in Ids
    BY <2>1 DEF Shaped, Ids, Tag
  <2> QED
    BY <1>2, <2>1, <2>2 DEF EntryOf
<1> QED
  BY <1>1, <1>2 DEF ObjInv, TablesOK

(* Entries of objects of different types have different keys.              *)
LEMMA KeysApart ==
  ASSUME NEW k \in Kind, NEW i, Shaped(k, i), NEW a, NEW r \in TableRefs(k, i, a),
         NEW l \in Kind, NEW j, Shaped(l, j), NEW b, NEW q \in TableRefs(l, j, b),
         q.slot = r.slot, q.key = r.key
  PROVE  Tag(k) = Tag(l)
<1>1. CASE r.slot = "objects_by_id"
  <2>1. i = j
    BY <1>1, TableRef
  <2> QED
    BY <2>1 DEF Shaped
<1>2. CASE r.slot # "objects_by_id"
  <2>1. k \in OwnTables /\ l \in OwnTables
    BY <1>2, TableRef
  <2>2. r.slot \in {IdTable(k), NameTable(k)} /\ r.slot \in {IdTable(l), NameTable(l)}
    BY <1>2, TableRef
  <2> QED
    BY <2>1, <2>2, TableNames DEF Tag
<1> QED
  BY <1>1, <1>2

(* A name that its table does not hold is new in the tables of Object-IDs  *)
(* too.                                                                    *)
LEMMA FreshByName ==
  ASSUME ObjInv, ~ clearing, NEW k \in OwnTables, NEW i, Shaped(k, i),
         ~ Holds(NameTable(k), i[Len(i)]), NEW X
  PROVE  Fresh(k, i, X)
<1>0. k \in Kind
  BY Kinds DEF OwnTables
<1> SUFFICES ASSUME NEW a, NEW r \in TableRefs(k, i, a), NEW q \in refs,
                    q.holder = DB, q.slot = r.slot, q.key = r.key
             PROVE  FALSE
  BY DEF Fresh
<1>1. PICK l \in Kind, j \in Ids : /\ Shaped(l, j) /\ q \in TableRefs(l, j, q.obj)
                                /\ TableRefs(l, j, q.obj) \subseteq refs
  BY EntryFacts
<1>2. Tag(k) = Tag(l)
  BY <1>0, <1>1, KeysApart
<1>3. l \in OwnTables /\ NameTable(l) = NameTable(k) /\ IdTable(l) = IdTable(k)
  BY <1>2, TableNames, Kinds DEF Tag
<1>4. Ref(DB, NameTable(k), j[Len(j)], q.obj) \in refs
  BY <1>1, <1>3, TableRefsAre
<1>5. j[Len(j)] # i[Len(i)]
  BY <1>4, RefFields DEF Holds, Entries
<1>6. r.slot \in {"objects_by_id", IdTable(k), NameTable(k)}
  BY <1>0, TableRef
<1>7. CASE r.slot = NameTable(k)
  BY <1>0, <1>1, <1>3, <1>5, <1>7, TableRef
<1>8. CASE r.slot \in {"objects_by_id", IdTable(k)}
  BY <1>0, <1>1, <1>3, <1>5, <1>8, TableRef
<1> QED
  BY <1>6, <1>7, <1>8

(* An Object-ID that objects_by_id does not hold is new for types that     *)
(* only have that table.                                                   *)
LEMMA FreshById ==
  ASSUME NEW k \in Kind \ OwnTables, NEW i, NEW X,
         \A q \in Entries("objects_by_id", i) : q \in X
  PROVE  Fresh(k, i, X)
<1> SUFFICES ASSUME NEW a, NEW r \in TableRefs(k, i, a), NEW q \in refs \ X,
                    q.holder = DB, q.slot = r.slot, q.key = r.key
             PROVE  FALSE
  BY DEF Fresh
<1>1. r.slot = "objects_by_id" /\ r.key = i
  BY TableRefsAre, RefFields
<1> QED
  BY <1>1 DEF Entries

(* An item's Object-ID extends that of its owner by its name. *)
LEMMA ItemShaped ==
  ASSUME ObjInv, NEW k \in DOMAIN ParentQueue, NEW o \in Addr, Live(o), NEW n,
         n \in ModName \cup Local \cup Code \cup Reg
  PROVE  /\ Shaped(k, ObjectId(k, o, n))
         /\ ObjectId(k, o, n)[Len(ObjectId(k, o, n))] = n
<1> DEFINE V == Kind \cup ModName \cup Local \cup Code \cup Reg \cup Net
<1>1. k \in Kind /\ k \notin {"module", "resource", "net"} /\ Tag(k) = k
  BY Kinds DEF Tag
<1>2. id[o] \in Seq(V) /\ id[o] # <<>>
  BY DEF ObjInv, ObjectsShaped, Shaped, Ids
<1>3. n \in V /\ k \in V
  BY <1>1
<1> HIDE DEF V
<1>4. CASE k = "pin"
  <2> DEFINE i == <<k, id[o][Len(id[o])], n>>
  <2>1. id[o][Len(id[o])] \in V
    BY <1>2
  <2>2. i \in Seq(V) /\ i[1] = k /\ Len(i) = 3 /\ i[3] = n
    BY <1>3, <2>1
  <2>3. ObjectId(k, o, n) = i
    BY <1>4 DEF ObjectId
  <2> QED
    BY <1>1, <2>2, <2>3 DEF Shaped, Ids, V
<1>5. CASE k # "pin"
  <2> DEFINE t == Tail(id[o])
             i == <<k>> \o t \o <<n>>
  <2>1. t \in Seq(V) /\ Len(t) \in Nat
    BY <1>2
  <2> HIDE DEF t
  <2>2. i \in Seq(V) /\ i[1] = k /\ Len(i) = Len(t) + 2 /\ i[Len(t) + 2] = n
    BY <1>3, <2>1
  <2>3. ObjectId(k, o, n) = i
    BY <1>5 DEF ObjectId, t
  <2>4. i # <<>>
    BY <2>1, <2>2
  <2> HIDE DEF i
  <2> QED
    BY <1>1, <2>2, <2>3, <2>4 DEF Shaped, Ids, V
<1> QED
  BY <1>4, <1>5

(* The set S of new objects is allocated at at, X goes away.               *)
Put(S, at, X) ==
  /\ Idle /\ UNCHANGED clearing
  /\ \A x \in S : Allowed(x)
  /\ \A x \in S : (x.kind = "instance" /\ x.parent = NULL) \/ Fresh(x.kind, x.id, X)
  /\ \A x, y \in S : Tag(x.kind) = Tag(y.kind) => x = y
  /\ at \in Placements(S)
  /\ kind'   = [a \in Addr |-> IF a \in DOMAIN at THEN at[a].kind   ELSE kind[a]]
  /\ id'     = [a \in Addr |-> IF a \in DOMAIN at THEN at[a].id     ELSE id[a]]
  /\ parent' = [a \in Addr |-> IF a \in DOMAIN at THEN at[a].parent ELSE parent[a]]
  /\ module' \in [Addr -> Addr \cup {NULL}]
  /\ net' \in [Addr -> Addr \cup {NULL}]
  /\ default_instance' \in [Addr -> Addr \cup {NULL}]
  /\ \A a \in Addr \ DOMAIN at :
       /\ module'[a] = module[a] /\ net'[a] = net[a]
       /\ default_instance'[a] = default_instance[a]

(* What Put leaves alone and what it sets. *)
LEMMA PutFacts ==
  ASSUME ObjInv, NEW S, NEW at, NEW X, Put(S, at, X)
  PROVE  /\ DOMAIN at \subseteq Addr
         /\ \A a \in DOMAIN at :
              /\ ~ Live(a) /\ at[a] \in S
              /\ kind'[a] = at[a].kind /\ id'[a] = at[a].id /\ parent'[a] = at[a].parent
              /\ parent[a] = NULL /\ module[a] = NULL /\ net[a] = NULL
              /\ default_instance[a] = NULL
              /\ DB \notin {parent'[a], module'[a], net'[a]}
         /\ \A a \in Addr \ DOMAIN at :
              kind'[a] = kind[a] /\ id'[a] = id[a] /\ parent'[a] = parent[a]
         /\ \A x \in S : \E a \in DOMAIN at : at[a] = x
         /\ \A a, b \in DOMAIN at : at[a] = at[b] => a = b
         /\ \A a \in Addr : Live(a) => kind'[a] = kind[a] /\ Live(a)' /\ a \notin DOMAIN at
<1>1. \A x \in S : x.kind \in Kind /\ x.parent \in Addr \cup {NULL}
  BY DEF Put, Allowed
<1>2. at \in Placements(S)
  BY DEF Put
<1>3. /\ DOMAIN at \subseteq FreeAddr
      /\ \A a \in DOMAIN at : at[a] \in S
      /\ \A x \in S : \E a \in DOMAIN at : at[a] = x
      /\ \A a, b \in DOMAIN at : at[a] = at[b] => a = b
  BY <1>1, <1>2, PlacementFacts
<1>4. DOMAIN at \subseteq Addr /\ \A a \in DOMAIN at : ~ Live(a)
  BY <1>3 DEF FreeAddr, Live
<1>5. \A a \in Addr :
        /\ kind'[a] = IF a \in DOMAIN at THEN at[a].kind ELSE kind[a]
        /\ id'[a] = IF a \in DOMAIN at THEN at[a].id ELSE id[a]
        /\ parent'[a] = IF a \in DOMAIN at THEN at[a].parent ELSE parent[a]
  BY DEF Put
<1>6. \A a \in DOMAIN at : /\ parent[a] = NULL /\ module[a] = NULL /\ net[a] = NULL
                           /\ default_instance[a] = NULL
  BY <1>4 DEF ObjInv, ObjectsShaped
<1>7. \A a \in Addr : module'[a] # DB /\ net'[a] # DB
  BY HolderAssumption DEF Put
<1>8. \A a \in DOMAIN at : parent'[a] # DB
  BY <1>1, <1>3, <1>4, <1>5, HolderAssumption
<1>9. \A a \in Addr : Live(a) => kind'[a] = kind[a] /\ Live(a)' /\ a \notin DOMAIN at
  BY <1>4, <1>5 DEF Live
<1> QED
  BY <1>3, <1>4, <1>5, <1>6, <1>7, <1>8, <1>9

(* Making objects is a growing step. *)
LEMMA PutGrows ==
  ASSUME ObjInv, NEW S, NEW at, NEW X \in SUBSET refs, Put(S, at, X),
         refcount' \in [Addr -> Nat],
         \A a \in Addr \ DOMAIN at :
           refcount'[a] = IF \E r \in X : r.obj = a THEN refcount[a] - 1 ELSE refcount[a],
         \A a \in DOMAIN at : Made(DOMAIN at, a)',
         refs' = (refs \ X) \cup UNION {GivenTo(a)' : a \in DOMAIN at},
         \A r \in X : Sound(r) /\ r.slot = "objects_by_id" /\ r.holder = DB
                     /\ kind[r.obj] = "codesection",
         \A q, r \in X : q = r,
         \/ /\ freeing' = <<>> /\ failed' = failed
            /\ \A r \in X : refcount[r.obj] > 1
         \/ \E o \in DOMAIN at, s \in Net :
              /\ freeing' = <<o>> /\ failed' = failed \cup {s} /\ X = {}
              /\ kind'[o] = "net" /\ id'[o] = <<"net", s>>
              /\ \A a \in DOMAIN at : net'[a] # o
         \/ \E r \in X :
              /\ freeing' = <<r.obj>> /\ failed' = failed /\ refcount[r.obj] <= 1
  PROVE  ObjInv'
<1> DEFINE N == DOMAIN at
<1>1. /\ N \subseteq Addr
      /\ \A a \in N : /\ ~ Live(a) /\ at[a] \in S
                      /\ kind'[a] = at[a].kind /\ id'[a] = at[a].id /\ parent'[a] = at[a].parent
      /\ \A a \in Addr \ N : kind'[a] = kind[a] /\ id'[a] = id[a] /\ parent'[a] = parent[a]
      /\ \A a, b \in N : at[a] = at[b] => a = b
      /\ \A a \in N : DB \notin {parent'[a], module'[a], net'[a]}
  BY PutFacts
<1>2. /\ \A x \in S : Allowed(x)
      /\ \A x \in S : (x.kind = "instance" /\ x.parent = NULL) \/ Fresh(x.kind, x.id, X)
      /\ \A x, y \in S : Tag(x.kind) = Tag(y.kind) => x = y
      /\ Idle /\ UNCHANGED clearing
  BY DEF Put
<1>3. HeapTyped'
  <2>1. kind' \in [Addr -> Kind \cup {"free"}]
    BY <1>1, <1>2 DEF Put, Allowed, ObjInv, HeapTypeOK
  <2>2. id' \in [Addr -> Ids]
    BY <1>1, <1>2 DEF Put, Allowed, Shaped, ObjInv, HeapTypeOK
  <2>3. parent' \in [Addr -> Addr \cup {NULL}]
    BY <1>1, <1>2 DEF Put, Allowed, ObjInv, HeapTypeOK
  <2>4. /\ module' \in [Addr -> Addr \cup {NULL}]
        /\ net' \in [Addr -> Addr \cup {NULL}]
        /\ default_instance' \in [Addr -> Addr \cup {NULL}]
    BY DEF Put
  <2> QED
    BY <2>1, <2>2, <2>3, <2>4 DEF HeapTyped
<1>4. \A a \in Addr \ N : /\ module'[a] = module[a] /\ net'[a] = net[a]
                          /\ default_instance'[a] = default_instance[a]
  BY DEF Put
<1>5. ASSUME NEW a \in N, NEW r \in GivenTo(a)', r.holder = DB
      PROVE  /\ kind'[a] \in Kind /\ Shaped(kind'[a], id'[a])
             /\ r \in TableRefs(kind'[a], id'[a], a)
             /\ Fresh(kind'[a], id'[a], X)
  <2>1. kind'[a] \in Kind /\ Shaped(kind'[a], id'[a])
    BY <1>1, <1>2 DEF Allowed
  <2>2. /\ r \in TableRefs(kind'[a], id'[a], a)
        /\ ~ (kind'[a] = "instance" /\ parent'[a] = NULL)
    BY <1>1, <1>5, <2>1, GivenRefs DEF GivenTo
  <2> QED
    BY <1>1, <1>2, <2>1, <2>2
<1>6. ASSUME NEW a \in N, NEW r \in GivenTo(a)', r.holder = DB,
             NEW q \in refs \ X, q.holder = DB, q.slot = r.slot
      PROVE  q.key # r.key
  BY <1>5, <1>6 DEF Fresh
<1>7. ASSUME NEW a \in N, NEW r \in GivenTo(a)', r.holder = DB,
             NEW b \in N, NEW q \in GivenTo(b)', q.holder = DB, q.slot = r.slot, q.key = r.key
      PROVE  a = b
  <2>1. Tag(kind'[a]) = Tag(kind'[b])
    BY <1>5, <1>7, KeysApart
  <2> QED
    BY <1>1, <1>2, <2>1
<1>8. \A r \in X : r.obj \notin N
  BY <1>1 DEF Sound
<1>9. Growing(N, X)
  <2>1. \A a \in N : ~ Live(a)
    BY <1>1
  <2>2. \A r \in refs \ X : r.obj \in N => ~ Sound(r)
    BY <2>1 DEF Sound
  <2> HIDE DEF N
  <2>3. \/ /\ freeing' = <<>> /\ failed' = failed
           /\ \A r \in X : r.obj \in N \/ refcount[r.obj] > 1
        \/ \E o \in N, s \in Net :
             /\ freeing' = <<o>> /\ failed' = failed \cup {s} /\ X = {}
             /\ ~ Live(o) /\ kind'[o] = "net" /\ id'[o] = <<"net", s>>
             /\ \A a \in N : net'[a] # o
        \/ \E r \in X :
             /\ freeing' = <<r.obj>> /\ failed' = failed
             /\ r.obj \notin N /\ refcount[r.obj] <= 1
    BY <2>1, <1>8 DEF N
  <2>4. /\ \A a \in N : \A r \in GivenTo(a)' : r.holder = DB =>
             /\ \A q \in refs \ X : q.holder = DB /\ q.slot = r.slot => q.key # r.key
             /\ \A b \in N : \A q \in GivenTo(b)' :
                  q.holder = DB /\ q.slot = r.slot /\ q.key = r.key => a = b
    BY <1>6, <1>7
  <2>5. \A a \in Addr \ N :
          /\ kind'[a] = kind[a] /\ id'[a] = id[a] /\ parent'[a] = parent[a]
          /\ module'[a] = module[a] /\ net'[a] = net[a]
          /\ default_instance'[a] = default_instance[a]
          /\ refcount'[a] = IF \E r \in X : r.obj = a THEN refcount[a] - 1 ELSE refcount[a]
    BY <1>1, <1>4 DEF N
  <2>6. /\ refs' = (refs \ X) \cup UNION {GivenTo(a)' : a \in N}
        /\ \A a \in N : Made(N, a)'
        /\ \A q, r \in X : q = r
        /\ \A r \in X : /\ Sound(r) /\ r.slot = "objects_by_id" /\ r.holder = DB
                        /\ kind[r.obj] = "codesection"
    BY DEF N
  <2> QED
    BY <1>1, <1>2, <1>3, <1>8, <2>1, <2>2, <2>3, <2>4, <2>5, <2>6 DEF Growing
<1> QED
  BY <1>9, GrowStep

(* New objects without module and net.                                     *)
LEMMA ItemsStep ==
  ASSUME ObjInv, Idle, NEW S, NEW at \in Placements(S), Allocate(at),
         UNCHANGED <<module, net, default_instance, clearing, freeing, failed>>,
         \A x \in S : /\ Allowed(x) /\ Fresh(x.kind, x.id, {})
                     /\ x.kind \notin {"module", "instance"}
                     /\ x.taken = Count(x.kind, x.parent, NULL, NULL),
         \A x, y \in S : Tag(x.kind) = Tag(y.kind) => x = y,
         refs' = refs \cup NewTableRefs(at)
                      \cup UNION {IF at[a].parent = NULL THEN {}
                                  ELSE {Ref(at[a].parent, ParentQueue[at[a].kind], NULL, a)} :
                                    a \in DOMAIN at}
  PROVE  ObjInv'
<1>1. Put(S, at, {})
  BY DEF Put, Allocate, ObjInv, HeapTypeOK
<1> DEFINE N == DOMAIN at
<1>2. /\ N \subseteq Addr
      /\ \A a \in N : /\ ~ Live(a) /\ at[a] \in S
                      /\ kind'[a] = at[a].kind /\ id'[a] = at[a].id /\ parent'[a] = at[a].parent
                      /\ module'[a] = NULL /\ net'[a] = NULL /\ default_instance'[a] = NULL
      /\ \A a \in Addr : Live(a) => kind'[a] = kind[a] /\ Live(a)'
  BY <1>1, PutFacts
<1>3. refcount' \in [Addr -> Nat] /\ \A a \in N : refcount'[a] = at[a].taken
  BY <1>2 DEF Allocate, Allowed, ObjInv, HeapTypeOK
<1>4. ASSUME NEW a \in N
      PROVE  Made(N, a)'
  <2>1. /\ Allowed(at[a]) /\ at[a].kind \notin {"module", "instance"}
        /\ at[a].taken = Count(at[a].kind, at[a].parent, NULL, NULL)
    BY <1>2
  <2>2. /\ kind'[a] = at[a].kind /\ id'[a] = at[a].id /\ parent'[a] = at[a].parent
        /\ module'[a] = NULL /\ net'[a] = NULL /\ default_instance'[a] = NULL
        /\ refcount'[a] = at[a].taken
    BY <1>2, <1>3
  <2>3. parent'[a] # NULL => /\ kind'[a] \in DOMAIN ParentQueue
                             /\ parent'[a] \in Addr /\ Live(parent'[a])
                             /\ ParentQueue[kind'[a]] \in Elements(Queues[kind[parent'[a]]])
    BY <2>1, <2>2 DEF Allowed
  <2>4. parent'[a] # NULL => kind'[parent'[a]] = kind[parent'[a]]
    BY <1>2, <2>3
  <2> QED
    BY <2>1, <2>2, <2>3, <2>4 DEF Made, Allowed, Live
<1>5. \A a \in N : GivenTo(a)' = TableRefs(at[a].kind, at[a].id, a) \cup
                      (IF at[a].parent = NULL THEN {}
                       ELSE {Ref(at[a].parent, ParentQueue[at[a].kind], NULL, a)})
  BY <1>2 DEF GivenTo, Given
<1>6. refs' = (refs \ {}) \cup UNION {GivenTo(a)' : a \in N}
  <2> DEFINE Q(a) == IF at[a].parent = NULL THEN {}
                     ELSE {Ref(at[a].parent, ParentQueue[at[a].kind], NULL, a)}
             T(a) == TableRefs(at[a].kind, at[a].id, a)
  <2>1. refs' = refs \cup (UNION {T(a) : a \in N}) \cup (UNION {Q(a) : a \in N})
    BY DEF NewTableRefs
  <2>2. \A a \in N : GivenTo(a)' = T(a) \cup Q(a)
    BY <1>5
  <2> HIDE DEF N, Q, T
  <2>3. (UNION {T(a) : a \in N}) \cup (UNION {Q(a) : a \in N}) = UNION {GivenTo(a)' : a \in N}
    BY <2>2
  <2> QED
    BY <2>1, <2>3
<1>7. \A a \in Addr \ N : refcount'[a] = refcount[a]
  BY DEF Allocate
<1>8. freeing' = <<>> /\ failed' = failed
  BY DEF Idle
<1> QED
  BY <1>1, <1>3, <1>4, <1>6, <1>7, <1>8, PutGrows

(* Making items in queues of objects that live keeps the invariant. *)
LEMMA AddItemsStep ==
  ASSUME ObjInv, Idle, NEW S, AddItems(S),
         \A x \in S : /\ Allowed(x) /\ Fresh(x.kind, x.id, {}) /\ x.parent # NULL
                     /\ x.kind \notin {"module", "instance"}
                     /\ x.taken = RefsTaken[x.kind],
         \A x, y \in S : Tag(x.kind) = Tag(y.kind) => x = y
  PROVE  ObjInv'
<1>1. PICK at \in Placements(S) :
        Allocate(at) /\ refs' = refs \cup NewTableRefs(at) \cup NewQueueRefs(at)
  BY DEF AddItems
<1>2. UNCHANGED <<module, net, default_instance, clearing, freeing, failed>>
  BY DEF AddItems
<1>3. \A x \in S : x.kind \in Kind
  BY DEF Allowed
<1>4. \A a \in DOMAIN at : at[a] \in S
  BY <1>3, PlacementFacts
<1>5. ASSUME NEW x \in S
      PROVE  x.taken = Count(x.kind, x.parent, NULL, NULL)
  <2>1. x.kind \in DOMAIN ParentQueue \ {"instance"} /\ x.parent # NULL
    BY DEF Allowed
  <2> QED
    BY <2>1, Takens, Kinds DEF Count, OwnTables
<1>6. NewQueueRefs(at) = UNION {IF at[a].parent = NULL THEN {}
                                ELSE {Ref(at[a].parent, ParentQueue[at[a].kind], NULL, a)} :
                                  a \in DOMAIN at}
  <2> DEFINE q(a) == Ref(at[a].parent, ParentQueue[at[a].kind], NULL, a)
             Q(a) == IF at[a].parent = NULL THEN {} ELSE {q(a)}
  <2>1. NewQueueRefs(at) = {q(a) : a \in DOMAIN at}
    BY DEF NewQueueRefs
  <2>2. \A a \in DOMAIN at : Q(a) = {q(a)}
    BY <1>4
  <2> HIDE DEF q, Q
  <2>3. {q(a) : a \in DOMAIN at} = UNION {Q(a) : a \in DOMAIN at}
    BY <2>2
  <2> QED
    BY <2>1, <2>3 DEF Q, q
<1> QED
  BY <1>1, <1>2, <1>5, <1>6, ItemsStep

(* ig_lib_add_module for a resource keeps the invariant. *)
LEMMA CreateResourceModuleStep ==
  ASSUME ObjInv, NEW n \in ModName, CreateResourceModule(n)
  PROVE  ObjInv'
<1> DEFINE x == Object("resource", <<"module", n>>, NULL, RefsTaken.resource)
<1>1. PICK at \in Placements({x}) : Allocate(at) /\ refs' = refs \cup NewTableRefs(at)
  BY DEF CreateResourceModule
<1>2. /\ Idle /\ ~ clearing /\ ~ Holds("modules_by_name", n)
      /\ UNCHANGED <<module, net, default_instance, clearing, freeing, failed>>
  BY DEF CreateResourceModule, Idle
<1>3. /\ x.kind = "resource" /\ x.id = <<"module", n>> /\ x.parent = NULL /\ x.taken = 3
  BY ObjectFields, Takens
<1>4. "resource" \in Kind /\ "module" \in Kind /\ "resource" \in OwnTables
  BY Kinds, TableNames
<1>5. Shaped("resource", <<"module", n>>)
  BY <1>4 DEF Shaped, Ids, Tag
<1>6. Fresh("resource", <<"module", n>>, {})
  <2>1. <<"module", n>>[Len(<<"module", n>>)] = n /\ NameTable("resource") = "modules_by_name"
    BY TableNames
  <2> QED
    BY <1>2, <1>4, <1>5, <2>1, FreshByName
<1>7. Allowed(x) /\ x.taken = Count(x.kind, x.parent, NULL, NULL)
  BY <1>3, <1>4, <1>5 DEF Allowed, Count
<1> HIDE DEF x
<1>8. \A a \in DOMAIN at : at[a] = x
  BY <1>3, <1>4, PlacementFacts
<1>9. UNION {IF at[a].parent = NULL THEN {}
             ELSE {Ref(at[a].parent, ParentQueue[at[a].kind], NULL, a)} : a \in DOMAIN at} = {}
  BY <1>3, <1>8
<1> QED
  BY <1>1, <1>2, <1>3, <1>6, <1>7, <1>9, ItemsStep

(* An item of an object that lives may be made. *)
LEMMA ItemAllowed ==
  ASSUME ObjInv, NEW k \in DOMAIN ParentQueue, NEW o \in Addr, Live(o),
         ParentQueue[k] \in Elements(Queues[kind[o]]), NEW n,
         n \in ModName \cup Local \cup Code \cup Reg
  PROVE  /\ Allowed(Item(k, o, n))
         /\ Item(k, o, n).kind = k /\ Item(k, o, n).id = ObjectId(k, o, n)
         /\ Item(k, o, n).parent = o /\ Item(k, o, n).parent # NULL
         /\ Item(k, o, n).taken = RefsTaken[k]
<1>1. /\ Item(k, o, n).kind = k /\ Item(k, o, n).id = ObjectId(k, o, n)
      /\ Item(k, o, n).parent = o /\ Item(k, o, n).taken = RefsTaken[k]
  BY ObjectFields DEF Item
<1>2. Shaped(k, ObjectId(k, o, n)) /\ o # NULL /\ k \in Kind /\ RefsTaken[k] \in Nat
  BY ItemShaped, HolderAssumption, Kinds, Takens
<1> QED
  BY <1>1, <1>2 DEF Allowed

(* What a table of instances or of regfiles leads to is of that type and   *)
(* is held by the table.                                                   *)
LEMMA FoundKind ==
  ASSUME ObjInv, NEW k \in {"instance", "regfile"}, NEW a \in Addr, NEW table,
         table \in {IdTable(k), NameTable(k)}, Found(table, a)
  PROVE  kind[a] = k /\ Live(a) /\ \E r \in HoldersOf(a) : r.holder = DB
<1>1. PICK r \in refs : r.holder = DB /\ r.slot = table /\ r.obj = a
  BY DEF Found
<1>2. ASSUME NEW l \in Kind, NEW i, r \in TableRefs(l, i, a)
      PROVE  l = k
  <2>1. l \in OwnTables /\ table \in {IdTable(l), NameTable(l)}
    BY <1>1, <1>2, TableRef, TableNames
  <2> QED
    BY <2>1, TableNames
<1>3. Live(a) /\ r \in TableRefs(kind[a], id[a], a)
  <2>1. "net" \in Kind
    BY Kinds
  <2> QED
    BY <1>1, <1>2, <2>1 DEF ObjInv, TablesOK, EntryOf
<1>4. kind[a] = k
  BY <1>2, <1>3 DEF ObjInv, HeapTypeOK, Live
<1> QED
  BY <1>1, <1>3, <1>4 DEF HoldersOf, Sound

(* An instance found by name lives, is placed and has a module. *)
LEMMA InstanceFacts ==
  ASSUME ObjInv, ~ clearing, NEW i \in Addr, Found("instances_by_name", i)
  PROVE  /\ kind[i] = "instance" /\ Live(i) /\ parent[i] # NULL
         /\ module[i] \in Addr /\ kind[module[i]] \in {"module", "resource"}
<1>1. kind[i] = "instance" /\ Live(i)
  BY FoundKind, TableNames
<1>2. PICK r \in HoldersOf(i) : r.holder = DB
  BY FoundKind, TableNames
<1>3. module[i] \in Addr
  BY <1>1 DEF ObjInv, InstancesOK, HeapTypeOK
<1>4. Ref(module[i], "default_instance", NULL, i) \notin refs
  <2> DEFINE d == Ref(module[i], "default_instance", NULL, i)
  <2>1. d.slot = "default_instance" /\ d.obj = i /\ d.holder = module[i]
    BY RefFields
  <2> HIDE DEF d
  <2>2. d \in refs => HoldersOf(i) = {d}
    BY <2>1 DEF ObjInv, InstancesOK
  <2> QED
    BY <1>2, <1>3, <2>1, <2>2, HolderAssumption DEF d
<1>5. Ref(module[i], "mod_instances", NULL, i) \in refs
  BY <1>3, <1>4, HolderAssumption DEF ObjInv, QueuesOK
<1>6. /\ Live(module[i]) /\ "mod_instances" \in Elements(Queues[kind[module[i]]])
      /\ parent[i] # NULL
  <2> DEFINE d == Ref(module[i], "mod_instances", NULL, i)
  <2>1. d \in refs /\ d.slot = "mod_instances" /\ d.holder = module[i] /\ d.obj = i
    BY <1>5, RefFields
  <2> HIDE DEF d
  <2> QED
    BY <1>3, <2>1, HolderAssumption DEF ObjInv, QueuesOK, InstancesOK
<1>7. kind[module[i]] \in Kind
  BY <1>3, <1>6 DEF ObjInv, HeapTypeOK, Live
<1> QED
  BY <1>1, <1>3, <1>6, <1>7, QueueSlots, Kinds

(* ig_lib_add_pin keeps the invariant. *)
LEMMA CreatePinStep ==
  ASSUME ObjInv, NEW i \in Addr, NEW n \in Local, CreatePin(i, n)
  PROVE  ObjInv'
<1> DEFINE pin  == Item("pin", i, n)
           port == Item("port", module[i], n)
           S    == IF kind[module[i]] = "module" /\ ~ Exists(port) THEN {pin, port} ELSE {pin}
<1>1. Idle /\ ~ clearing /\ Found("instances_by_name", i) /\ ~ Exists(pin) /\ AddItems(S)
  BY DEF CreatePin, Idle
<1>2. /\ kind[i] = "instance" /\ Live(i)
      /\ module[i] \in Addr /\ kind[module[i]] \in {"module", "resource"}
  BY <1>1, InstanceFacts
<1>3. Allowed(pin) /\ pin.kind = "pin" /\ pin.taken = RefsTaken[pin.kind] /\ pin.parent # NULL
  BY <1>2, ItemAllowed, QueueSlots, ParentQueues, Kinds
<1>4. kind[module[i]] = "module" =>
        Allowed(port) /\ port.kind = "port" /\ port.taken = RefsTaken[port.kind] /\ port.parent # NULL
  BY <1>2, ItemAllowed, QueueSlots, ParentQueues, Kinds DEF Live
<1> HIDE DEF pin, port
<1>5. \A x : ~ Exists(x) /\ x.kind \in {"pin", "port"} => Fresh(x.kind, x.id, {})
  BY FreshById, Kinds, TableNames DEF Exists, Holds
<1>6. \A x \in S : /\ Allowed(x) /\ Fresh(x.kind, x.id, {}) /\ x.parent # NULL
                   /\ x.kind \notin {"module", "instance"}
                   /\ x.taken = RefsTaken[x.kind]
  BY <1>1, <1>3, <1>4, <1>5
<1>7. \A x, y \in S : Tag(x.kind) = Tag(y.kind) => x = y
  BY <1>3, <1>4 DEF Tag
<1> HIDE DEF S
<1> QED
  BY <1>1, <1>6, <1>7, AddItemsStep

(* Making one item with a new Object-ID keeps the invariant. *)
LEMMA OneItemStep ==
  ASSUME ObjInv, Idle, NEW k \in DOMAIN ParentQueue \ {"instance"}, NEW o \in Addr, Live(o),
         ParentQueue[k] \in Elements(Queues[kind[o]]), NEW n,
         n \in ModName \cup Local \cup Code \cup Reg,
         Fresh(k, ObjectId(k, o, n), {}), AddItems({Item(k, o, n)})
  PROVE  ObjInv'
<1> DEFINE x == Item(k, o, n)
<1>1. Allowed(x) /\ x.kind = k /\ x.id = ObjectId(k, o, n) /\ x.taken = RefsTaken[k]
      /\ x.parent # NULL
  BY ItemAllowed
<1> HIDE DEF x
<1>2. k \notin {"module", "instance"}
  BY Kinds
<1>3. AddItems({x})
  BY DEF x
<1> QED
  BY <1>1, <1>2, <1>3, AddItemsStep

(* Making a regfile keeps the invariant. *)
LEMMA AddRegfileStep ==
  ASSUME ObjInv, NEW m \in Addr, NEW n \in Reg, AddRegfile(m, n)
  PROVE  ObjInv'
<1>1. /\ Idle /\ ~ clearing /\ kind[m] = "module" /\ ~ Holds("regfiles_by_name", n)
      /\ AddItems({Item("regfile", m, n)})
  BY DEF AddRegfile, Idle
<1>2. /\ Live(m) /\ "regfile" \in DOMAIN ParentQueue \ {"instance"} /\ "regfile" \in OwnTables
      /\ ParentQueue["regfile"] \in Elements(Queues[kind[m]])
      /\ NameTable("regfile") = "regfiles_by_name"
  BY <1>1, Kinds, ParentQueues, QueueSlots, TableNames DEF Live
<1>3. Fresh("regfile", ObjectId("regfile", m, n), {})
  BY <1>1, <1>2, ItemShaped, FreshByName
<1> QED
  BY <1>1, <1>2, <1>3, OneItemStep

(* Making an entry of a regfile keeps the invariant. *)
LEMMA AddEntryStep ==
  ASSUME ObjInv, NEW rf \in Addr, NEW n \in Reg, AddEntry(rf, n)
  PROVE  ObjInv'
<1>1. /\ Idle /\ Found("regfiles_by_id", rf) /\ ~ Exists(Item("entry", rf, n))
      /\ AddItems({Item("entry", rf, n)})
  BY DEF AddEntry
<1>2. kind[rf] = "regfile" /\ Live(rf)
  BY <1>1, FoundKind, TableNames
<1>3. /\ "entry" \in DOMAIN ParentQueue \ {"instance"} /\ "entry" \in Kind \ OwnTables
      /\ ParentQueue["entry"] \in Elements(Queues[kind[rf]])
  BY <1>2, Kinds, ParentQueues, QueueSlots, TableNames
<1>4. Item("entry", rf, n).id = ObjectId("entry", rf, n)
  BY ObjectFields DEF Item
<1>5. Fresh("entry", ObjectId("entry", rf, n), {})
  BY <1>1, <1>3, <1>4, FreshById DEF Exists, Holds
<1> QED
  BY <1>1, <1>2, <1>3, <1>5, OneItemStep

(* Making a register of an entry keeps the invariant. *)
LEMMA AddRegisterStep ==
  ASSUME ObjInv, NEW e \in Addr, NEW n \in Reg, AddRegister(e, n)
  PROVE  ObjInv'
<1>1. /\ Idle /\ kind[e] = "entry" /\ ~ Exists(Item("register", e, n))
      /\ AddItems({Item("register", e, n)})
  BY DEF AddRegister
<1>2. Live(e)
  BY <1>1 DEF Live
<1>3. /\ "register" \in DOMAIN ParentQueue \ {"instance"} /\ "register" \in Kind \ OwnTables
      /\ ParentQueue["register"] \in Elements(Queues[kind[e]])
  BY <1>1, Kinds, ParentQueues, QueueSlots, TableNames
<1>4. Item("register", e, n).id = ObjectId("register", e, n)
  BY ObjectFields DEF Item
<1>5. Fresh("register", ObjectId("register", e, n), {})
  BY <1>1, <1>3, <1>4, FreshById DEF Exists, Holds
<1> QED
  BY <1>1, <1>2, <1>3, <1>5, OneItemStep

(* Placing a resource makes an instance and keeps the invariant. *)
LEMMA PlaceResourceStep ==
  ASSUME ObjInv, NEW n \in ModName, NEW t \in Addr, NEW p \in Addr, PlaceResource(n, t, p)
  PROVE  ObjInv'
<1> DEFINE x == Object("instance", <<"instance", id[p][2], n>>, p, RefsTaken.instance)
<1>0. PICK at \in Placements({x}) : \E i \in DOMAIN at :
        /\ Allocate(at)
        /\ module' = [module EXCEPT ![i] = t]
        /\ refs' = refs \cup NewTableRefs(at) \cup NewQueueRefs(at)
                       \cup {Ref(t, "mod_instances", NULL, i)}
  BY DEF PlaceResource
<1>1. PICK i \in DOMAIN at :
        /\ Allocate(at)
        /\ module' = [module EXCEPT ![i] = t]
        /\ refs' = refs \cup NewTableRefs(at) \cup NewQueueRefs(at)
                       \cup {Ref(t, "mod_instances", NULL, i)}
  BY <1>0
<1>2. /\ Idle /\ ~ clearing /\ freeing = <<>> /\ kind[t] = "resource" /\ kind[p] = "module"
      /\ ~ Holds("instances_by_name", n)
      /\ UNCHANGED <<net, default_instance, clearing, freeing, failed>>
  BY DEF PlaceResource, Idle
<1>3. Live(t) /\ Live(p) /\ p # NULL /\ t # NULL
  BY <1>2, HolderAssumption DEF Live
<1>4. /\ "instance" \in Kind /\ "instance" \in OwnTables /\ "instance" \in DOMAIN ParentQueue
      /\ ParentQueue["instance"] \in Elements(Queues[kind[p]])
      /\ NameTable("instance") = "instances_by_name"
  BY <1>2, Kinds, QueueSlots, ParentQueues, TableNames
<1>5. /\ Shaped("instance", <<"instance", id[p][2], n>>)
      /\ <<"instance", id[p][2], n>>[Len(<<"instance", id[p][2], n>>)] = n
  <2> DEFINE V == Kind \cup ModName \cup Local \cup Code \cup Reg \cup Net
  <2>1. id[p] \in Seq(V) /\ Len(id[p]) = 2
    BY <1>2, <1>3 DEF ObjInv, ObjectsShaped, Shaped, Ids
  <2>2. id[p][2] \in V /\ "instance" \in V /\ n \in V
    BY <1>4, <2>1
  <2> HIDE DEF V
  <2>3. <<"instance", id[p][2], n>> \in Seq(V)
    BY <2>2
  <2> QED
    BY <2>3 DEF Shaped, Ids, Tag, V
<1>6. /\ x.kind = "instance" /\ x.id = <<"instance", id[p][2], n>> /\ x.parent = p /\ x.taken = 5
  BY ObjectFields, Takens
<1> HIDE DEF x
<1>7. Allowed(x) /\ Fresh(x.kind, x.id, {})
  <2>1. Allowed(x)
    BY <1>3, <1>4, <1>5, <1>6 DEF Allowed
  <2>2. Fresh("instance", <<"instance", id[p][2], n>>, {})
    BY <1>2, <1>4, <1>5, FreshByName
  <2> QED
    BY <2>1, <2>2, <1>6
<1>8. /\ DOMAIN at \subseteq Addr /\ DOMAIN at = {i} /\ at[i] = x /\ i \in Addr
  <2>1. /\ DOMAIN at \subseteq FreeAddr /\ \A a \in DOMAIN at : at[a] = x
        /\ \A a, b \in DOMAIN at : at[a] = at[b] => a = b
    BY <1>4, <1>6, PlacementFacts
  <2> QED
    BY <2>1 DEF FreeAddr
<1>9. Put({x}, at, {})
  <2>1. module' \in [Addr -> Addr \cup {NULL}] /\ \A a \in Addr \ {i} : module'[a] = module[a]
    BY <1>1, <1>8 DEF ObjInv, HeapTypeOK
  <2> QED
    BY <1>1, <1>2, <1>7, <1>8, <2>1 DEF Put, Allocate, ObjInv, HeapTypeOK
<1>10. /\ kind'[i] = "instance" /\ id'[i] = x.id /\ parent'[i] = p /\ module'[i] = t
       /\ net'[i] = NULL /\ default_instance'[i] = NULL
       /\ kind'[p] = "module" /\ kind'[t] = "resource"
  <2>1. module'[i] = t
    BY <1>1, <1>8 DEF ObjInv, HeapTypeOK
  <2>2. /\ kind'[i] = x.kind /\ id'[i] = x.id /\ parent'[i] = x.parent
        /\ net[i] = NULL /\ default_instance[i] = NULL
        /\ kind'[p] = kind[p] /\ kind'[t] = kind[t]
    BY <1>3, <1>8, <1>9, PutFacts
  <2> QED
    BY <1>2, <1>6, <2>1, <2>2
<1>11. refcount' \in [Addr -> Nat] /\ refcount'[i] = 5 /\ \A a \in Addr \ {i} : refcount'[a] = refcount[a]
  BY <1>1, <1>6, <1>8 DEF Allocate, ObjInv, HeapTypeOK
<1>12. Made({i}, i)'
  <2>1. Count("instance", p, t, NULL) = 5
    BY <1>3, <1>4 DEF Count
  <2> QED
    BY <1>2, <1>3, <1>4, <1>5, <1>6, <1>10, <1>11, <2>1 DEF Made, Live
<1>13. refs' = (refs \ {}) \cup UNION {GivenTo(a)' : a \in DOMAIN at}
  <2>1. GivenTo(i)' = TableRefs("instance", x.id, i) \cup {Ref(p, ParentQueue["instance"], NULL, i)}
                     \cup {Ref(t, "mod_instances", NULL, i)}
    BY <1>3, <1>10 DEF GivenTo, Given
  <2>2. NewTableRefs(at) = TableRefs("instance", x.id, i)
    BY <1>6, <1>8 DEF NewTableRefs
  <2>3. NewQueueRefs(at) = {Ref(p, ParentQueue["instance"], NULL, i)}
    BY <1>6, <1>8 DEF NewQueueRefs
  <2>4. UNION {GivenTo(a)' : a \in DOMAIN at} = GivenTo(i)'
    BY <1>8
  <2> QED
    BY <1>1, <2>1, <2>2, <2>3, <2>4
<1> QED
  BY <1>2, <1>8, <1>9, <1>11, <1>12, <1>13, PutGrows

(* ig_lib_add_module keeps the invariant: the module gets a default        *)
(* instance that its tables do not hold yet.                               *)
LEMMA CreateModuleStep ==
  ASSUME ObjInv, NEW n \in ModName, CreateModule(n)
  PROVE  ObjInv'
<1> DEFINE m == Object("module", <<"module", n>>, NULL, RefsTaken.module)
           i == Object("instance", <<"instance", n>>, NULL, 1)
<1>1. PICK at \in Placements({m, i}), ma \in FreeAddr, ia \in FreeAddr :
        /\ {ma, ia} \subseteq DOMAIN at /\ at[ma] = m /\ at[ia] = i
        /\ Allocate(at)
        /\ module' = [module EXCEPT ![ia] = ma]
        /\ default_instance' = [default_instance EXCEPT ![ma] = ia]
        /\ refs' = refs \cup TableRefs("module", m.id, ma)
                       \cup {Ref(ma, "default_instance", NULL, ia)}
  BY DEF CreateModule
<1>2. /\ Idle /\ ~ clearing /\ freeing = <<>> /\ ~ Holds("modules_by_name", n)
      /\ UNCHANGED <<net, clearing, freeing, failed>>
  BY DEF CreateModule, Idle
<1>3. /\ m.kind = "module" /\ m.id = <<"module", n>> /\ m.parent = NULL /\ m.taken = 3
      /\ i.kind = "instance" /\ i.id = <<"instance", n>> /\ i.parent = NULL /\ i.taken = 1
  BY ObjectFields, Takens
<1>4. /\ "module" \in Kind /\ "module" \in OwnTables /\ "instance" \in Kind
      /\ NameTable("module") = "modules_by_name"
      /\ Shaped("module", <<"module", n>>) /\ Shaped("instance", <<"instance", n>>)
      /\ <<"module", n>>[Len(<<"module", n>>)] = n /\ <<"module", n>>[2] = n
  BY Kinds, TableNames DEF Shaped, Ids, Tag
<1>5. Fresh("module", <<"module", n>>, {})
  BY <1>2, <1>4, FreshByName
<1>6. Allowed(m) /\ Allowed(i)
  BY <1>3, <1>4 DEF Allowed
<1> HIDE DEF m, i
<1>7. /\ DOMAIN at = {ma, ia} /\ ma # ia /\ ma \in Addr /\ ia \in Addr /\ ma # NULL /\ ia # NULL
  <2>1. /\ \A a \in DOMAIN at : at[a] \in {m, i}
        /\ \A a, b \in DOMAIN at : at[a] = at[b] => a = b
    BY <1>3, <1>4, PlacementFacts
  <2> QED
    BY <1>1, <1>3, <2>1, HolderAssumption DEF FreeAddr
<1>8. Put({m, i}, at, {})
  <2>1. /\ module' \in [Addr -> Addr \cup {NULL}]
        /\ default_instance' \in [Addr -> Addr \cup {NULL}]
        /\ \A a \in Addr \ DOMAIN at :
              module'[a] = module[a] /\ default_instance'[a] = default_instance[a]
    BY <1>1, <1>7 DEF ObjInv, HeapTypeOK
  <2>2. \A x, y \in {m, i} : Tag(x.kind) = Tag(y.kind) => x = y
    BY <1>3 DEF Tag
  <2>3. \A x \in {m, i} : (x.kind = "instance" /\ x.parent = NULL) \/ Fresh(x.kind, x.id, {})
    BY <1>3, <1>5
  <2> QED
    BY <1>1, <1>2, <1>6, <2>1, <2>2, <2>3 DEF Put, Allocate, ObjInv, HeapTypeOK
<1>9. /\ kind'[ma] = "module" /\ id'[ma] = <<"module", n>> /\ parent'[ma] = NULL
      /\ kind'[ia] = "instance" /\ id'[ia] = <<"instance", n>> /\ parent'[ia] = NULL
      /\ module'[ma] = NULL /\ module'[ia] = ma
      /\ net'[ma] = NULL /\ net'[ia] = NULL
      /\ default_instance'[ma] = ia /\ default_instance'[ia] = NULL
  <2>1. /\ module'[ia] = ma /\ module'[ma] = module[ma]
        /\ default_instance'[ma] = ia /\ default_instance'[ia] = default_instance[ia]
    BY <1>1, <1>7 DEF ObjInv, HeapTypeOK
  <2>2. \A a \in {ma, ia} : /\ kind'[a] = at[a].kind /\ id'[a] = at[a].id /\ parent'[a] = at[a].parent
                            /\ module[a] = NULL /\ net[a] = NULL /\ default_instance[a] = NULL
    BY <1>7, <1>8, PutFacts
  <2> QED
    BY <1>1, <1>2, <1>3, <2>1, <2>2
<1>10. /\ refcount' \in [Addr -> Nat] /\ refcount'[ma] = 3 /\ refcount'[ia] = 1
       /\ \A a \in Addr \ {ma, ia} : refcount'[a] = refcount[a]
  BY <1>1, <1>3, <1>7 DEF Allocate, ObjInv, HeapTypeOK
<1>11. Made({ma, ia}, ma)'
  <2>1. Count("module", NULL, NULL, NULL) = 3
    BY <1>4 DEF Count
  <2> QED
    BY <1>4, <1>9, <1>10, <2>1 DEF Made
<1>12. Made({ma, ia}, ia)'
  <2>1. Count("instance", NULL, ma, NULL) = 1
    BY <1>7 DEF Count
  <2> QED
    BY <1>4, <1>7, <1>9, <1>10, <2>1 DEF Made
<1>13. refs' = (refs \ {}) \cup UNION {GivenTo(a)' : a \in DOMAIN at}
  <2>1. GivenTo(ma)' = TableRefs("module", m.id, ma)
    BY <1>3, <1>9 DEF GivenTo, Given
  <2>2. GivenTo(ia)' = {Ref(ma, "default_instance", NULL, ia)}
    BY <1>7, <1>9 DEF GivenTo, Given
  <2>3. UNION {GivenTo(a)' : a \in DOMAIN at} = GivenTo(ma)' \cup GivenTo(ia)'
    BY <1>7
  <2> QED
    BY <1>1, <2>1, <2>2, <2>3
<1> QED
  BY <1>2, <1>7, <1>8, <1>10, <1>11, <1>12, <1>13, PutGrows

(* Placing a module gives its default instance table entries and moves it  *)
(* from the module's default_instance to two queues.                       *)
LEMMA PlaceModuleStep ==
  ASSUME ObjInv, NEW t \in Addr, NEW p \in Addr, PlaceModule(t, p)
  PROVE  ObjInv'
<1>0. kind[t] = "module" /\ t \notin Elements(freeing)
  BY DEF PlaceModule, Idle, Elements
<1>00. PICK i \in Addr : i = default_instance[t]
  BY <1>0 DEF ObjInv, InstancesOK
<1> DEFINE d == Ref(t, "default_instance", NULL, i)
<1>1. /\ Idle /\ ~ clearing /\ freeing = <<>> /\ kind[t] = "module" /\ kind[p] = "module"
      /\ ~ Holds("instances_by_name", id[t][2])
      /\ parent[i] = NULL
      /\ parent' = [parent EXCEPT ![i] = p]
      /\ refcount' = [refcount EXCEPT ![i] = @ + PlacingTakes]
      /\ refs' = (refs \ {d}) \cup {Ref(p, "child_instances", NULL, i),
                                   Ref(t, "mod_instances", NULL, i)}
                              \cup TableRefs("instance", id[i], i)
      /\ UNCHANGED <<kind, id, module, net, default_instance, clearing, freeing, failed>>
  BY <1>00 DEF PlaceModule, Idle
<1>2. /\ Live(t) /\ Live(p) /\ p # NULL /\ t # NULL /\ p # DB /\ t # DB
  BY <1>1, HolderAssumption DEF Live
<1>3. /\ i \in Addr
      /\ Ref(t, "mod_instances", NULL, i) \in refs \/ d \in refs
      /\ id[i] = <<"instance", id[t][2]>>
  BY <1>0, <1>00 DEF ObjInv, InstancesOK
<1>4. Ref(t, "mod_instances", NULL, i) \notin refs
  <2> DEFINE r == Ref(t, "mod_instances", NULL, i)
  <2>1. r.slot = "mod_instances" /\ r.obj = i
    BY RefFields
  <2> HIDE DEF r
  <2> QED
    BY <1>1, <2>1 DEF ObjInv, InstancesOK, r
<1>5. /\ d \in refs /\ d.holder = t /\ d.obj = i /\ d.slot = "default_instance"
  BY <1>3, <1>4, RefFields
<1> HIDE DEF d
<1>6. /\ HoldersOf(i) = {d} /\ Sound(d) /\ Live(i) /\ kind[i] = "instance" /\ module[i] = t
  <2>1. HoldersOf(i) = {d}
    BY <1>5 DEF ObjInv, InstancesOK
  <2>2. Live(i) /\ BackReferenceOf(d)
    BY <1>2, <1>5 DEF ObjInv, QueuesOK
  <2> QED
    BY <1>5, <2>1, <2>2, ParentQueues, Kinds DEF BackReferenceOf, HoldersOf
<1>7. net[i] = NULL
  <2> DEFINE r == Ref(net[i], "objects", NULL, i)
  <2>1. r.holder = net[i] /\ r.obj = i /\ r.slot = "objects"
    BY RefFields
  <2> HIDE DEF r
  <2>2. net[i] # NULL => r \in refs /\ net[i] \in Addr
    BY <1>3 DEF ObjInv, QueuesOK, HeapTypeOK, r
  <2>3. net[i] # NULL => BackReferenceOf(r)
    BY <2>1, <2>2, HolderAssumption DEF ObjInv, QueuesOK
  <2> QED
    BY <1>6, <2>1, <2>3, ParentQueues, Kinds DEF BackReferenceOf
<1>8. refcount[i] = 1
  <2>1. refcount[i] = Cardinality({d})
    BY <1>3, <1>6 DEF ObjInv, CountsOK
  <2> QED
    BY <2>1, FS_Singleton
<1>9. /\ refcount' \in [Addr -> Nat] /\ refcount'[i] = 5 /\ parent'[i] = p
      /\ parent' \in [Addr -> Addr \cup {NULL}]
      /\ \A a \in Addr \ {i} : refcount'[a] = refcount[a] /\ parent'[a] = parent[a]
  BY <1>1, <1>3, <1>8 DEF PlacingTakes, ObjInv, HeapTypeOK
<1>10. HeapTyped'
  BY <1>1, <1>9 DEF HeapTyped, ObjInv, HeapTypeOK
<1>11. "instance" \in Kind /\ "instance" \in OwnTables /\ NameTable("instance") = "instances_by_name"
  BY Kinds, TableNames
<1>12. Shaped("instance", id[i])
  BY <1>3, <1>6 DEF ObjInv, ObjectsShaped
<1>13. Fresh("instance", id[i], {d})
  <2>1. id[i][Len(id[i])] = id[t][2]
    BY <1>3
  <2> QED
    BY <1>1, <1>11, <1>12, <2>1, FreshByName
<1>14. default_instance[i] = NULL
  BY <1>3, <1>6 DEF ObjInv, InstancesOK
<1>15. Made({i}, i)'
  <2>1. Count("instance", p, t, NULL) = 5
    BY <1>2, <1>11 DEF Count
  <2>2. "instance" \in DOMAIN ParentQueue /\ ParentQueue["instance"] \in Elements(Queues["module"])
    BY Kinds, ParentQueues, QueueSlots
  <2> QED
    BY <1>1, <1>2, <1>6, <1>7, <1>9, <1>11, <1>12, <1>14, <2>1, <2>2 DEF Made, Live
<1>16. GivenTo(i)' = {Ref(p, "child_instances", NULL, i), Ref(t, "mod_instances", NULL, i)}
                     \cup TableRefs("instance", id[i], i)
  BY <1>1, <1>2, <1>6, <1>7, <1>9, ParentQueues DEF GivenTo, Given
<1>17. \A r \in GivenTo(i)' : r.holder = DB => r \in TableRefs("instance", id[i], i)
  BY <1>2, <1>16, RefFields
<1>18. Growing({i}, {d})
  <2>1. \A r \in refs \ {d} : r.obj = i => ~ Sound(r)
    BY <1>6 DEF HoldersOf
  <2>2. \A r \in GivenTo(i)' : r.holder = DB =>
          \A q \in refs \ {d} : q.holder = DB /\ q.slot = r.slot => q.key # r.key
    BY <1>13, <1>17 DEF Fresh
  <2>3. refs' = (refs \ {d}) \cup UNION {GivenTo(a)' : a \in {i}}
    <3>1. UNION {GivenTo(a)' : a \in {i}} = GivenTo(i)'
      OBVIOUS
    <3> QED
      BY <1>1, <1>16, <3>1
  <2>4. freeing' = <<>> /\ failed' = failed
    BY <1>1
  <2>5. \A a \in Addr \ {i} :
          /\ kind'[a] = kind[a] /\ id'[a] = id[a] /\ parent'[a] = parent[a]
          /\ module'[a] = module[a] /\ net'[a] = net[a]
          /\ default_instance'[a] = default_instance[a]
          /\ refcount'[a] = IF \E r \in {d} : r.obj = a THEN refcount[a] - 1 ELSE refcount[a]
    BY <1>1, <1>5, <1>9
  <2> QED
    BY <1>1, <1>3, <1>5, <1>6, <1>10, <1>15, <2>1, <2>2, <2>3, <2>4, <2>5 DEF Growing
<1> QED
  BY <1>18, GrowStep

(* A codesection whose Object-ID is taken replaces the entry of the one    *)
(* before, which stays in its queue or is freed.                           *)
LEMMA AddCodesectionStep ==
  ASSUME ObjInv, NEW m \in Addr, NEW n \in Code, AddCodesection(m, n)
  PROVE  ObjInv'
<1> DEFINE x   == Item("codesection", m, n)
           old == Entries("objects_by_id", x.id)
<1>1. PICK at \in Placements({x}) :
        /\ kind'   = [a \in Addr |-> IF a \in DOMAIN at THEN x.kind   ELSE kind[a]]
        /\ id'     = [a \in Addr |-> IF a \in DOMAIN at THEN x.id     ELSE id[a]]
        /\ parent' = [a \in Addr |-> IF a \in DOMAIN at THEN x.parent ELSE parent[a]]
        /\ refcount' = [a \in Addr |->
             IF a \in DOMAIN at THEN x.taken
             ELSE IF \E r \in old : r.obj = a THEN refcount[a] - 1 ELSE refcount[a]]
        /\ freeing' = IF \E r \in old : refcount[r.obj] <= 1
                      THEN <<(CHOOSE r \in old : TRUE).obj>>
                      ELSE freeing
        /\ refs' = (refs \ old) \cup NewTableRefs(at) \cup NewQueueRefs(at)
  BY DEF AddCodesection
<1>2. /\ Idle /\ ~ clearing /\ freeing = <<>> /\ kind[m] = "module" /\ Live(m)
      /\ UNCHANGED <<module, net, default_instance, clearing, failed>>
  BY DEF AddCodesection, Idle, Live
<1>3. /\ "codesection" \in DOMAIN ParentQueue /\ "codesection" \in Kind \ OwnTables
      /\ ParentQueue["codesection"] \in Elements(Queues[kind[m]])
  BY <1>2, Kinds, QueueSlots, ParentQueues, TableNames
<1>4. /\ Allowed(x) /\ x.kind = "codesection" /\ x.parent = m /\ m # NULL /\ x.taken = 2
      /\ Shaped("codesection", x.id)
  BY <1>2, <1>3, ItemAllowed, Takens DEF Allowed
<1> HIDE DEF x
<1>5. Fresh("codesection", x.id, old)
  BY <1>3, FreshById
<1>6. \A r \in old : /\ r \in refs /\ r.holder = DB /\ r.slot = "objects_by_id" /\ r.key = x.id
  BY DEF Entries
<1>7. \A q, r \in old : q = r
  <2>1. \A q, r \in old : q.obj = r.obj
    BY <1>6 DEF ObjInv, TablesOK
  <2>2. \A r \in refs : r = Ref(r.holder, r.slot, r.key, r.obj)
    BY DEF ObjInv, HeapTypeOK
  <2> QED
    BY <1>6, <2>1, <2>2
<1>8. ASSUME NEW r \in old
      PROVE  Sound(r) /\ kind[r.obj] = "codesection"
  <2>1. \A k \in Kind : \A i : Shaped(k, i) /\ r \in TableRefs(k, i, r.obj) => k = "codesection"
    <3> SUFFICES ASSUME NEW k \in Kind, NEW i, Shaped(k, i), r \in TableRefs(k, i, r.obj)
                 PROVE  k = "codesection"
      OBVIOUS
    <3>1. i = x.id
      BY <1>6, TableRef
    <3> QED
      BY <1>4, <3>1, Kinds DEF Shaped, Tag
  <2>2. "net" \in Kind /\ \A s \in failed : Shaped("net", <<"net", s>>)
    BY Kinds DEF Shaped, Ids, Tag, ObjInv, HeapTypeOK
  <2>3. Live(r.obj) /\ r \in TableRefs(kind[r.obj], id[r.obj], r.obj)
    BY <1>6, <2>1, <2>2 DEF ObjInv, TablesOK, EntryOf
  <2>4. kind[r.obj] \in Kind /\ Shaped(kind[r.obj], id[r.obj])
    BY <1>6, <2>3 DEF ObjInv, ObjectsShaped, HeapTypeOK, Live
  <2> QED
    BY <2>1, <2>3, <2>4 DEF Sound
<1> HIDE DEF old
<1>9. /\ DOMAIN at \subseteq Addr /\ \A a \in DOMAIN at : at[a] = x
  <2>1. /\ DOMAIN at \subseteq FreeAddr /\ \A a \in DOMAIN at : at[a] = x
    BY <1>3, <1>4, PlacementFacts
  <2> QED
    BY <2>1 DEF FreeAddr
<1>10. Put({x}, at, old)
  <2>1. /\ kind'   = [a \in Addr |-> IF a \in DOMAIN at THEN at[a].kind   ELSE kind[a]]
        /\ id'     = [a \in Addr |-> IF a \in DOMAIN at THEN at[a].id     ELSE id[a]]
        /\ parent' = [a \in Addr |-> IF a \in DOMAIN at THEN at[a].parent ELSE parent[a]]
    BY <1>1, <1>9
  <2> QED
    BY <1>2, <1>4, <1>5, <2>1 DEF Put, ObjInv, HeapTypeOK
<1>11. ASSUME NEW r \in old
       PROVE  refcount[r.obj] \in Nat /\ refcount[r.obj] >= 1
  <2>1. r \in HoldersOf(r.obj) /\ r.obj \in Addr /\ Live(r.obj)
    BY <1>6, <1>8 DEF HoldersOf, Sound, ObjInv, HeapTypeOK
  <2>2. /\ IsFiniteSet(HoldersOf(r.obj)) /\ refcount[r.obj] = Cardinality(HoldersOf(r.obj))
        /\ refcount[r.obj] \in Nat
    BY <2>1 DEF ObjInv, CountsOK, HeapTypeOK
  <2>3. Cardinality(HoldersOf(r.obj)) # 0
    BY <2>1, <2>2, FS_EmptySet
  <2> QED
    BY <2>2, <2>3
<1>12. /\ refcount' \in [Addr -> Nat] /\ \A a \in DOMAIN at : refcount'[a] = 2
       /\ \A a \in Addr \ DOMAIN at :
             refcount'[a] = IF \E r \in old : r.obj = a THEN refcount[a] - 1 ELSE refcount[a]
  BY <1>1, <1>4, <1>9, <1>11 DEF ObjInv, HeapTypeOK
<1>13. ASSUME NEW a \in DOMAIN at
       PROVE  /\ kind'[a] = "codesection" /\ id'[a] = x.id /\ parent'[a] = m
              /\ module'[a] = NULL /\ net'[a] = NULL /\ default_instance'[a] = NULL
              /\ kind'[m] = "module"
  BY <1>2, <1>4, <1>9, <1>10, PutFacts
<1>14. ASSUME NEW a \in DOMAIN at
       PROVE  Made(DOMAIN at, a)'
  <2>1. Count("codesection", m, NULL, NULL) = 2
    BY <1>3, <1>4 DEF Count
  <2> QED
    BY <1>2, <1>3, <1>4, <1>12, <1>13, <2>1 DEF Made, Live
<1>15. refs' = (refs \ old) \cup UNION {GivenTo(a)' : a \in DOMAIN at}
  <2> DEFINE N == DOMAIN at
             T(a) == TableRefs("codesection", x.id, a)
             q(a) == Ref(m, ParentQueue["codesection"], NULL, a)
  <2>1. \A a \in N : GivenTo(a)' = T(a) \cup {q(a)}
    BY <1>4, <1>13 DEF GivenTo, Given
  <2>2. NewTableRefs(at) = UNION {T(a) : a \in N}
    BY <1>4, <1>9 DEF NewTableRefs
  <2>3. NewQueueRefs(at) = {q(a) : a \in N}
    BY <1>4, <1>9 DEF NewQueueRefs
  <2>4. refs' = (refs \ old) \cup NewTableRefs(at) \cup NewQueueRefs(at)
    BY <1>1
  <2> HIDE DEF N, T, q
  <2>5. UNION {GivenTo(a)' : a \in N} = (UNION {T(a) : a \in N}) \cup {q(a) : a \in N}
    BY <2>1
  <2> QED
    BY <2>2, <2>3, <2>4, <2>5 DEF N
<1>16. \/ freeing' = <<>> /\ \A r \in old : refcount[r.obj] > 1
       \/ \E r \in old : freeing' = <<r.obj>> /\ refcount[r.obj] <= 1
  <2>1. CASE \E r \in old : refcount[r.obj] <= 1
    <3>1. PICK r \in old : refcount[r.obj] <= 1
      BY <2>1
    <3>2. (CHOOSE q \in old : TRUE) = r
      BY <1>7, <3>1
    <3> QED
      BY <1>1, <3>1, <3>2
  <2>2. CASE ~ \E r \in old : refcount[r.obj] <= 1
    BY <1>1, <1>2, <1>11, <2>2
  <2> QED
    BY <2>1, <2>2
<1>17. old \in SUBSET refs /\ failed' = failed
  BY <1>2, <1>6
<1> QED
  BY <1>6, <1>7, <1>8, <1>10, <1>12, <1>14, <1>15, <1>16, <1>17, PutGrows

(* What a connection makes at a module and its instance.                   *)
LEMMA PointsFacts ==
  ASSUME ObjInv, ~ clearing, NEW p \in Addr, NEW i \in Addr, NEW n \in Local,
         Found("instances_by_name", i), parent[i] = p
  PROVE  /\ \A x \in Points(p, i, n) :
              /\ Allowed(x) /\ x.kind \in {"declaration", "pin", "port"}
              /\ x.parent # NULL /\ x.taken = 2
              /\ ~ Exists(x) => Fresh(x.kind, x.id, {})
              /\ x = Object(x.kind, x.id, x.parent, x.taken)
         /\ \A x, y \in Points(p, i, n) : x.kind = y.kind => x = y
<1> DEFINE decl == Item("declaration", p, n)
           pin  == Item("pin", i, n)
           port == Item("port", module[i], n)
<1>1. /\ kind[i] = "instance" /\ Live(i)
      /\ module[i] \in Addr /\ kind[module[i]] \in {"module", "resource"}
  BY InstanceFacts
<1>2. kind[p] = "module" /\ Live(p)
  <2> DEFINE r == Ref(p, "child_instances", NULL, i)
  <2>1. r.holder = p /\ r.slot = "child_instances" /\ p # DB /\ p # NULL
    BY RefFields, HolderAssumption
  <2>2. r \in refs
    BY <1>1, <2>1, ParentQueues DEF ObjInv, QueuesOK
  <2> HIDE DEF r
  <2>3. Live(p) /\ "child_instances" \in Elements(Queues[kind[p]])
    BY <2>1, <2>2 DEF ObjInv, QueuesOK
  <2>4. kind[p] \in Kind
    BY <2>3 DEF ObjInv, HeapTypeOK, Live
  <2> QED
    BY <2>3, <2>4, QueueSlots, Kinds
<1>3. /\ Allowed(decl) /\ decl.kind = "declaration" /\ decl.parent # NULL /\ decl.taken = 2
      /\ Allowed(pin) /\ pin.kind = "pin" /\ pin.parent # NULL /\ pin.taken = 2
  BY <1>1, <1>2, ItemAllowed, QueueSlots, ParentQueues, Kinds, Takens
<1>4. kind[module[i]] = "module" =>
        Allowed(port) /\ port.kind = "port" /\ port.parent # NULL /\ port.taken = 2
  BY <1>1, ItemAllowed, QueueSlots, ParentQueues, Kinds, Takens DEF Live
<1>5. \A k, i_1, o, m : Object(k, i_1, o, m) =
        Object(Object(k, i_1, o, m).kind, Object(k, i_1, o, m).id,
               Object(k, i_1, o, m).parent, Object(k, i_1, o, m).taken)
  BY ObjectFields
<1>6. \A x \in {decl, pin, port} : x = Object(x.kind, x.id, x.parent, x.taken)
  BY <1>5 DEF Item
<1>7. \A x \in Points(p, i, n) : \/ x \in {decl, pin}
                                 \/ x = port /\ kind[module[i]] = "module"
  BY DEF Points
<1> HIDE DEF decl, pin, port
<1>8. \A x : ~ Exists(x) /\ x.kind \in {"declaration", "pin", "port"} => Fresh(x.kind, x.id, {})
  BY FreshById, Kinds, TableNames DEF Exists, Holds
<1> QED
  BY <1>3, <1>4, <1>6, <1>7, <1>8

(* A net whose name is new may be made. *)
LEMMA NetAllowed ==
  ASSUME ObjInv, ~ clearing, NEW s \in Net, ~ Holds("nets_by_name", s)
  PROVE  /\ Allowed(NetObject(s)) /\ Fresh("net", <<"net", s>>, {})
         /\ NetObject(s).kind = "net" /\ NetObject(s).id = <<"net", s>>
         /\ NetObject(s).parent = NULL /\ NetObject(s).taken = 3
<1>1. /\ NetObject(s).kind = "net" /\ NetObject(s).id = <<"net", s>>
      /\ NetObject(s).parent = NULL /\ NetObject(s).taken = 3
  BY ObjectFields, Takens DEF NetObject
<1>2. "net" \in Kind /\ "net" \in OwnTables /\ NameTable("net") = "nets_by_name"
  BY Kinds, TableNames
<1>3. Shaped("net", <<"net", s>>) /\ <<"net", s>>[Len(<<"net", s>>)] = s
  BY <1>2 DEF Shaped, Ids, Tag
<1>4. Fresh("net", <<"net", s>>, {})
  BY <1>2, <1>3, FreshByName
<1> QED
  BY <1>1, <1>2, <1>3, <1>4 DEF Allowed

(* A net is made, with the points S; those of J are its objects.           *)
NetMade(s, S, at, o, J) ==
  /\ Idle /\ ~ Holds("nets_by_name", s)
  /\ \A x \in S : /\ Allowed(x) /\ x.kind \in {"declaration", "pin", "port"}
                  /\ x.parent # NULL /\ Fresh(x.kind, x.id, {})
  /\ \A x, y \in S : x.kind = y.kind => x = y
  /\ at \in Placements(S \cup {NetObject(s)}) /\ Allocate(at)
  /\ o \in DOMAIN at /\ at[o].kind = "net"
  /\ J = DOMAIN at \ {o} \/ J = {}
  /\ \A a \in DOMAIN at \ {o} : at[a].taken = IF a \in J THEN 3 ELSE 2
  /\ UNCHANGED <<module, default_instance, clearing>>
  /\ net' = [a \in Addr |-> IF a \in J THEN o ELSE net[a]]
  /\ refs' = refs \cup NewTableRefs(at)
                  \cup {Ref(at[a].parent, ParentQueue[at[a].kind], NULL, a) : a \in DOMAIN at \ {o}}
                  \cup {Ref(o, "objects", NULL, a) : a \in J}
  /\ \/ freeing' = <<>> /\ failed' = failed
     \/ freeing' = <<o>> /\ failed' = failed \cup {s} /\ J = {}

(* Making a net with its points keeps the invariant, whether the points    *)
(* were joined to it or the command failed.                                *)
LEMMA NetStep ==
  ASSUME ObjInv, NEW s \in Net, NEW S, NEW at, NEW o, NEW J, NetMade(s, S, at, o, J)
  PROVE  ObjInv'
<1>0. /\ Idle /\ ~ Holds("nets_by_name", s)
      /\ \A x \in S : /\ Allowed(x) /\ x.kind \in {"declaration", "pin", "port"}
                      /\ x.parent # NULL /\ Fresh(x.kind, x.id, {})
      /\ \A x, y \in S : x.kind = y.kind => x = y
      /\ at \in Placements(S \cup {NetObject(s)}) /\ Allocate(at)
      /\ o \in DOMAIN at /\ at[o].kind = "net"
      /\ J = DOMAIN at \ {o} \/ J = {}
      /\ \A a \in DOMAIN at \ {o} : at[a].taken = IF a \in J THEN 3 ELSE 2
      /\ UNCHANGED <<module, default_instance, clearing>>
      /\ net' = [a \in Addr |-> IF a \in J THEN o ELSE net[a]]
      /\ refs' = refs \cup NewTableRefs(at)
                      \cup {Ref(at[a].parent, ParentQueue[at[a].kind], NULL, a) : a \in DOMAIN at \ {o}}
                      \cup {Ref(o, "objects", NULL, a) : a \in J}
      /\ \/ freeing' = <<>> /\ failed' = failed
         \/ freeing' = <<o>> /\ failed' = failed \cup {s} /\ J = {}
  BY DEF NetMade
<1> DEFINE N == DOMAIN at
           U == S \cup {NetObject(s)}
<1>1. /\ Allowed(NetObject(s)) /\ Fresh("net", <<"net", s>>, {})
      /\ NetObject(s).kind = "net" /\ NetObject(s).id = <<"net", s>>
      /\ NetObject(s).parent = NULL /\ NetObject(s).taken = 3 /\ ~ clearing
  BY <1>0, NetAllowed DEF Idle
<1>2. \A x \in U : Allowed(x)
  BY <1>0, <1>1
<1>3. \A x, y \in U : Tag(x.kind) = Tag(y.kind) => x = y
  BY <1>0, <1>1 DEF Tag
<1>4. N \subseteq FreeAddr /\ \A a \in N : at[a] \in U
  BY <1>0, <1>2, PlacementFacts DEF Allowed
<1>5. /\ N \subseteq Addr /\ J \subseteq N \ {o} /\ o \in Addr /\ o # NULL /\ o # DB
      /\ at[o] = NetObject(s) /\ \A a \in N \ {o} : at[a] \in S
  <2>1. \A a, b \in N : at[a] = at[b] => a = b
    BY <1>0, <1>2, PlacementFacts DEF Allowed
  <2>2. N \subseteq Addr
    BY <1>4 DEF FreeAddr
  <2>3. at[o] = NetObject(s)
    BY <1>0, <1>4
  <2> QED
    BY <1>0, <1>4, <2>1, <2>2, <2>3, HolderAssumption
<1>6. Put(U, at, {})
  <2>1. \A x \in U : Fresh(x.kind, x.id, {})
    BY <1>0, <1>1
  <2>2. net' \in [Addr -> Addr \cup {NULL}] /\ \A a \in Addr \ N : net'[a] = net[a]
    BY <1>0, <1>5 DEF ObjInv, HeapTypeOK
  <2> QED
    BY <1>0, <1>2, <1>3, <2>1, <2>2 DEF Put, Allocate, ObjInv, HeapTypeOK
<1>7. ASSUME NEW a \in N
      PROVE  /\ kind'[a] = at[a].kind /\ id'[a] = at[a].id /\ parent'[a] = at[a].parent
             /\ module'[a] = NULL /\ net'[a] = (IF a \in J THEN o ELSE NULL)
             /\ default_instance'[a] = NULL /\ ~ Live(a)
  <2>1. /\ kind'[a] = at[a].kind /\ id'[a] = at[a].id /\ parent'[a] = at[a].parent
        /\ module[a] = NULL /\ net[a] = NULL /\ default_instance[a] = NULL /\ ~ Live(a)
    BY <1>6, PutFacts
  <2>2. module' = module /\ default_instance' = default_instance
    BY <1>0
  <2>3. net'[a] = IF a \in J THEN o ELSE net[a]
    BY <1>0, <1>5
  <2> QED
    BY <2>1, <2>2, <2>3
<1>8. refcount' \in [Addr -> Nat] /\ \A a \in N : refcount'[a] = at[a].taken
  BY <1>0, <1>2, <1>4, <1>5 DEF Allocate, Allowed, ObjInv, HeapTypeOK
<1>9. ASSUME NEW a \in N \ {o}
      PROVE  Made(N, a)'
  <2>1. /\ Allowed(at[a]) /\ at[a].kind \in {"declaration", "pin", "port"}
        /\ at[a].parent # NULL /\ at[a].taken = IF a \in J THEN 3 ELSE 2
    BY <1>0, <1>5
  <2>2. /\ kind'[a] = at[a].kind /\ id'[a] = at[a].id /\ parent'[a] = at[a].parent
        /\ module'[a] = NULL /\ default_instance'[a] = NULL
        /\ refcount'[a] = at[a].taken
        /\ net'[a] = IF a \in J THEN o ELSE NULL
    BY <1>7, <1>8
  <2>3. /\ kind'[a] \in DOMAIN ParentQueue /\ parent'[a] \in Addr /\ Live(parent'[a])
        /\ ParentQueue[kind'[a]] \in Elements(Queues[kind[parent'[a]]])
    BY <2>1, <2>2 DEF Allowed
  <2>4. kind'[parent'[a]] = kind[parent'[a]]
    BY <1>6, <2>3, PutFacts
  <2>5. kind'[o] = "net"
    BY <1>0, <1>7
  <2>6. refcount'[a] = Count(kind'[a], parent'[a], module'[a], net'[a])
    BY <1>5, <2>1, <2>2, TableNames DEF Count
  <2> QED
    BY <2>1, <2>2, <2>3, <2>4, <2>5, <2>6 DEF Made, Allowed, Live
<1>10. Made(N, o)'
  <2>1. /\ kind'[o] = "net" /\ id'[o] = <<"net", s>> /\ parent'[o] = NULL
        /\ module'[o] = NULL /\ net'[o] = NULL /\ default_instance'[o] = NULL
        /\ refcount'[o] = 3
    BY <1>0, <1>1, <1>5, <1>7, <1>8
  <2>2. Count("net", NULL, NULL, NULL) = 3
    BY TableNames DEF Count
  <2>3. "net" \in Kind /\ Shaped("net", <<"net", s>>)
    BY <1>1 DEF Allowed
  <2> QED
    BY <2>1, <2>2, <2>3 DEF Made
<1>11. refs' = (refs \ {}) \cup UNION {GivenTo(a)' : a \in N}
  <2> DEFINE T(a) == TableRefs(at[a].kind, at[a].id, a)
             q(a) == Ref(at[a].parent, ParentQueue[at[a].kind], NULL, a)
             e(a) == Ref(o, "objects", NULL, a)
  <2>1. \A a \in N \ {o} : GivenTo(a)' = T(a) \cup {q(a)} \cup (IF a \in J THEN {e(a)} ELSE {})
    <3> SUFFICES ASSUME NEW a \in N \ {o}
                 PROVE  GivenTo(a)' = T(a) \cup {q(a)} \cup (IF a \in J THEN {e(a)} ELSE {})
      OBVIOUS
    <3>1. at[a].parent # NULL /\ at[a].kind # "instance" /\ o # NULL
      BY <1>0, <1>5
    <3>2. /\ kind'[a] = at[a].kind /\ id'[a] = at[a].id /\ parent'[a] = at[a].parent
          /\ module'[a] = NULL /\ net'[a] = (IF a \in J THEN o ELSE NULL)
      BY <1>7
    <3> QED
      BY <3>1, <3>2 DEF GivenTo, Given
  <2>2. GivenTo(o)' = T(o)
    <3>1. /\ kind'[o] = at[o].kind /\ id'[o] = at[o].id /\ parent'[o] = NULL
          /\ module'[o] = NULL /\ net'[o] = NULL /\ at[o].kind = "net"
      BY <1>0, <1>1, <1>5, <1>7
    <3> QED
      BY <3>1 DEF GivenTo, Given
  <2>3. NewTableRefs(at) = UNION {T(a) : a \in N}
    BY DEF NewTableRefs
  <2>4. refs' = refs \cup (UNION {T(a) : a \in N}) \cup {q(a) : a \in N \ {o}} \cup {e(a) : a \in J}
    BY <1>0, <2>3
  <2>5. J \subseteq N \ {o} /\ o \in N
    BY <1>0, <1>5
  <2> HIDE DEF N, T, q, e
  <2>6. UNION {GivenTo(a)' : a \in N}
          = (UNION {T(a) : a \in N}) \cup {q(a) : a \in N \ {o}} \cup {e(a) : a \in J}
    BY <2>1, <2>2, <2>5
  <2> QED
    BY <2>4, <2>6
<1>12. \A a \in Addr \ N : refcount'[a] = refcount[a]
  BY <1>0 DEF Allocate
<1>13. /\ kind'[o] = "net" /\ id'[o] = <<"net", s>>
  BY <1>0, <1>1, <1>5, <1>7
<1>14. J = {} => \A a \in N : net'[a] # o
  BY <1>5, <1>7
<1> QED
  <2>1. /\ refcount' \in [Addr -> Nat]
        /\ \A a \in Addr \ N :
             refcount'[a] = IF \E r \in {} : r.obj = a THEN refcount[a] - 1 ELSE refcount[a]
        /\ \A a \in N : Made(N, a)'
    BY <1>8, <1>9, <1>10, <1>12
  <2>2. \/ freeing' = <<>> /\ failed' = failed
        \/ /\ freeing' = <<o>> /\ failed' = failed \cup {s}
           /\ kind'[o] = "net" /\ id'[o] = <<"net", s>>
           /\ \A a \in N : net'[a] # o
    BY <1>0, <1>13, <1>14
  <2> QED
    BY <1>0, <1>6, <1>11, <2>1, <2>2, PutGrows

(* ig_lib_connection keeps the invariant. *)
LEMMA ConnectStep ==
  ASSUME ObjInv, NEW s \in Net, NEW p \in Addr, NEW i \in Addr, NEW n \in Local,
         Connect(s, p, i, n)
  PROVE  ObjInv'
<1> DEFINE S == {[x EXCEPT !.taken = @ + 1] : x \in Points(p, i, n)}
<1>1. PICK at \in Placements(S \cup {NetObject(s)}) : \E o \in DOMAIN at :
        LET items == DOMAIN at \ {o}
            at_i  == [a \in items |-> at[a]]
        IN  /\ at[o].kind = "net"
            /\ Allocate(at)
            /\ net' = [a \in Addr |-> IF a \in items THEN o ELSE net[a]]
            /\ refs' = refs \cup NewTableRefs(at) \cup NewQueueRefs(at_i)
                           \cup {Ref(o, "objects", NULL, a) : a \in items}
  BY DEF Connect
<1>2. PICK o \in DOMAIN at :
        LET items == DOMAIN at \ {o}
            at_i  == [a \in items |-> at[a]]
        IN  /\ at[o].kind = "net"
            /\ Allocate(at)
            /\ net' = [a \in Addr |-> IF a \in items THEN o ELSE net[a]]
            /\ refs' = refs \cup NewTableRefs(at) \cup NewQueueRefs(at_i)
                           \cup {Ref(o, "objects", NULL, a) : a \in items}
  BY <1>1
<1>3. /\ Idle /\ ~ clearing /\ freeing = <<>> /\ Found("instances_by_name", i) /\ parent[i] = p
      /\ ~ Holds("nets_by_name", s)
      /\ \A x \in Points(p, i, n) : ~ Exists(x)
      /\ UNCHANGED <<module, default_instance, clearing, freeing, failed>>
  BY DEF Connect, Idle
<1>4. \A y \in S : \E x \in Points(p, i, n) :
        /\ y.kind = x.kind /\ y.id = x.id /\ y.parent = x.parent /\ y.taken = 3
        /\ y = Object(x.kind, x.id, x.parent, 3)
  <2> SUFFICES ASSUME NEW x \in Points(p, i, n), NEW y, y = [x EXCEPT !.taken = @ + 1]
               PROVE  /\ y.kind = x.kind /\ y.id = x.id /\ y.parent = x.parent /\ y.taken = 3
                      /\ y = Object(x.kind, x.id, x.parent, 3)
    OBVIOUS
  <2>1. x.taken = 2 /\ x = Object(x.kind, x.id, x.parent, x.taken)
    BY <1>3, PointsFacts
  <2> QED
    BY <2>1 DEF Object
<1>5. \A x \in Points(p, i, n) :
        /\ Allowed(x) /\ x.kind \in {"declaration", "pin", "port"}
        /\ x.parent # NULL /\ Fresh(x.kind, x.id, {})
  BY <1>3, PointsFacts
<1>6. \A x, y \in Points(p, i, n) : x.kind = y.kind => x = y
  BY <1>3, PointsFacts
<1> HIDE DEF S
<1>7. \A y \in S : /\ Allowed(y) /\ y.kind \in {"declaration", "pin", "port"}
                   /\ y.parent # NULL /\ Fresh(y.kind, y.id, {})
  BY <1>4, <1>5 DEF Allowed
<1>8. \A x, y \in S : x.kind = y.kind => x = y
  BY <1>4, <1>6
<1> DEFINE J == DOMAIN at \ {o}
           at_i == [a \in J |-> at[a]]
<1>9. NewQueueRefs(at_i) = {Ref(at[a].parent, ParentQueue[at[a].kind], NULL, a) : a \in J}
  BY DEF NewQueueRefs
<1>10. \A a \in J : at[a].taken = 3
  <2>1. /\ \A x \in S \cup {NetObject(s)} : x.kind \in Kind
        /\ NetObject(s).kind = "net"
    BY <1>3, <1>7, NetAllowed DEF Allowed
  <2>2. /\ \A a \in DOMAIN at : at[a] \in S \cup {NetObject(s)}
        /\ \A a, b \in DOMAIN at : at[a] = at[b] => a = b
    BY <2>1, PlacementFacts
  <2>3. at[o] = NetObject(s)
    BY <1>2, <1>7, <2>2
  <2> QED
    BY <1>4, <2>2, <2>3
<1>11. /\ at[o].kind = "net" /\ Allocate(at)
       /\ net' = [a \in Addr |-> IF a \in J THEN o ELSE net[a]]
       /\ refs' = refs \cup NewTableRefs(at)
                       \cup {Ref(at[a].parent, ParentQueue[at[a].kind], NULL, a) : a \in J}
                       \cup {Ref(o, "objects", NULL, a) : a \in J}
  BY <1>2, <1>9
<1>12. freeing' = <<>> /\ failed' = failed
  BY <1>3
<1>13. NetMade(s, S, at, o, J)
  BY <1>3, <1>7, <1>8, <1>10, <1>11, <1>12 DEF NetMade
<1> QED
  BY <1>13, NetStep

(* A connect that fails keeps the invariant: its net, freed with entries   *)
(* that lead to it, is the one exception it allows.                        *)
LEMMA ConnectFailsStep ==
  ASSUME ObjInv, NEW s \in Net, NEW p \in Addr, NEW i \in Addr, NEW n \in Local,
         ConnectFails(s, p, i, n)
  PROVE  ObjInv'
<1> DEFINE S == {x \in Points(p, i, n) : ~ Exists(x)}
<1>1. PICK at \in Placements(S \cup {NetObject(s)}) : \E o \in DOMAIN at :
        LET at_i == [a \in DOMAIN at \ {o} |-> at[a]]
        IN  /\ at[o].kind = "net"
            /\ Allocate(at)
            /\ refs' = refs \cup NewTableRefs(at) \cup NewQueueRefs(at_i)
            /\ freeing' = FreedOnFailure(o, DOMAIN at_i)
  BY DEF ConnectFails
<1>2. PICK o \in DOMAIN at :
        LET at_i == [a \in DOMAIN at \ {o} |-> at[a]]
        IN  /\ at[o].kind = "net"
            /\ Allocate(at)
            /\ refs' = refs \cup NewTableRefs(at) \cup NewQueueRefs(at_i)
            /\ freeing' = FreedOnFailure(o, DOMAIN at_i)
  BY <1>1
<1>3. /\ Idle /\ ~ clearing /\ Found("instances_by_name", i) /\ parent[i] = p
      /\ ~ Holds("nets_by_name", s) /\ failed' = failed \cup {s}
      /\ UNCHANGED <<module, net, default_instance, clearing>>
  BY DEF ConnectFails, Idle
<1>4. \A x \in S : /\ Allowed(x) /\ x.kind \in {"declaration", "pin", "port"}
                   /\ x.parent # NULL /\ Fresh(x.kind, x.id, {}) /\ x.taken = 2
  BY <1>3, PointsFacts
<1>5. \A x, y \in S : x.kind = y.kind => x = y
  BY <1>3, PointsFacts
<1> HIDE DEF S
<1> DEFINE I == DOMAIN at \ {o}
           at_i == [a \in I |-> at[a]]
<1>6. NewQueueRefs(at_i) = {Ref(at[a].parent, ParentQueue[at[a].kind], NULL, a) : a \in I}
  BY DEF NewQueueRefs
<1>7. \A a \in I : at[a].taken = 2
  <2>1. /\ \A x \in S \cup {NetObject(s)} : x.kind \in Kind
        /\ NetObject(s).kind = "net"
    BY <1>3, <1>4, NetAllowed DEF Allowed
  <2>2. /\ \A a \in DOMAIN at : at[a] \in S \cup {NetObject(s)}
        /\ \A a, b \in DOMAIN at : at[a] = at[b] => a = b
    BY <2>1, PlacementFacts
  <2>3. at[o] = NetObject(s)
    BY <1>2, <1>4, <2>2
  <2> QED
    BY <1>4, <2>2, <2>3
<1>8. /\ at[o].kind = "net" /\ Allocate(at)
      /\ refs' = refs \cup NewTableRefs(at)
                      \cup {Ref(at[a].parent, ParentQueue[at[a].kind], NULL, a) : a \in I}
                      \cup {Ref(o, "objects", NULL, a) : a \in {}}
      /\ freeing' = <<o>>
  BY <1>2, <1>6 DEF FreedOnFailure
<1>9. net' = [a \in Addr |-> IF a \in {} THEN o ELSE net[a]]
  BY <1>3 DEF ObjInv, HeapTypeOK
<1>10. NetMade(s, S, at, o, {})
  BY <1>3, <1>4, <1>5, <1>7, <1>8, <1>9 DEF NetMade
<1> QED
  BY <1>10, NetStep

-----------------------------------------------------------------------------
(* The references of a state in which the invariant holds.                 *)
LEMMA RefFacts ==
  ASSUME ObjInv
  PROVE  /\ \A r \in refs : /\ r = Ref(r.holder, r.slot, r.key, r.obj)
                            /\ r.obj \in Addr /\ r.holder \in Addr \cup {DB}
         /\ \A r \in refs : r.holder # DB => r.slot \notin TableSlots /\ r \in HoldersOf(r.obj)
         /\ \A r \in refs : r.holder = DB => r.slot \in TableSlots
         /\ \A r \in refs : r \in HoldersOf(r.obj) \/ \E s \in failed : EntryOf(r, "net", <<"net", s>>)
<1>1. \A r \in refs : /\ r = Ref(r.holder, r.slot, r.key, r.obj)
                      /\ r.obj \in Addr /\ r.holder \in Addr \cup {DB}
  BY DEF ObjInv, HeapTypeOK
<1>2. \A r \in refs : r.holder # DB => r.slot \notin TableSlots
  BY Kinds, ParentQueues DEF ObjInv, QueuesOK, BackReferenceOf, TableSlots
<1>3. \A r \in refs : r.holder # DB => r \in HoldersOf(r.obj)
  BY DEF ObjInv, QueuesOK, HoldersOf, Sound
<1>4. \A r \in refs : r.holder = DB =>
        \/ Live(r.obj) /\ r \in TableRefs(kind[r.obj], id[r.obj], r.obj)
        \/ \E s \in failed : EntryOf(r, "net", <<"net", s>>)
  BY DEF ObjInv, TablesOK, EntryOf
<1>5. ASSUME NEW r \in refs, r.holder = DB
      PROVE  r.slot \in TableSlots
  <2>1. "net" \in Kind
    BY Kinds
  <2>2. Live(r.obj) => kind[r.obj] \in Kind
    BY <1>1 DEF ObjInv, HeapTypeOK, Live
  <2> QED
    BY <1>4, <1>5, <2>1, <2>2, TableRef DEF EntryOf
<1>6. \A r \in refs : r \in HoldersOf(r.obj) \/ \E s \in failed : EntryOf(r, "net", <<"net", s>>)
  BY <1>3, <1>4 DEF HoldersOf, Sound
<1> QED
  BY <1>1, <1>2, <1>3, <1>5, <1>6

(* Pushing an element that is not there keeps the elements apart. *)
LEMMA PushFacts ==
  ASSUME NEW S, NEW s \in Seq(S), NEW c \in S
  PROVE  /\ <<c>> \o s \in Seq(S) /\ Elements(<<c>> \o s) = Elements(s) \cup {c}
         /\ \/ c \in Elements(s)
            \/ \E j, k \in DOMAIN s : s[j] = s[k] /\ j # k
            \/ \A j, k \in DOMAIN (<<c>> \o s) : (<<c>> \o s)[j] = (<<c>> \o s)[k] => j = k
<1> DEFINE t == <<c>> \o s
<1>1. t \in Seq(S) /\ Len(t) = Len(s) + 1 /\ t[1] = c /\ Len(s) \in Nat
  OBVIOUS
<1>2. \A j \in 1 .. Len(s) : t[j + 1] = s[j]
  OBVIOUS
<1>3. \A j \in 2 .. Len(t) : j - 1 \in 1 .. Len(s) /\ t[j] = s[j - 1]
  BY <1>1, <1>2
<1>4. DOMAIN t = 1 .. Len(t) /\ DOMAIN s = 1 .. Len(s)
  BY <1>1
<1> HIDE DEF t
<1>5. \A j \in DOMAIN t : j = 1 \/ j \in 2 .. Len(t)
  BY <1>1, <1>4
<1>6. \A x : x \in Elements(t) <=> x \in Elements(s) \cup {c}
  <2>1. ASSUME NEW x \in Elements(t)
        PROVE  x \in Elements(s) \cup {c}
    <3>1. PICK j \in DOMAIN t : x = t[j]
      BY DEF Elements
    <3>2. j \in 2 .. Len(t) => j - 1 \in DOMAIN s /\ x = s[j - 1]
      BY <1>3, <1>4, <3>1
    <3> QED
      BY <1>1, <1>5, <3>1, <3>2 DEF Elements
  <2>2. ASSUME NEW x \in Elements(s)
        PROVE  x \in Elements(t)
    <3>1. PICK j \in 1 .. Len(s) : x = s[j]
      BY <1>4 DEF Elements
    <3>2. j + 1 \in DOMAIN t /\ t[j + 1] = x
      BY <1>1, <1>2, <1>4, <3>1
    <3> QED
      BY <3>2 DEF Elements
  <2>3. c \in Elements(t)
    BY <1>1, <1>4 DEF Elements
  <2> QED
    BY <2>1, <2>2, <2>3
<1>7. ASSUME c \notin Elements(s), \A j, k \in DOMAIN s : s[j] = s[k] => j = k,
             NEW j \in DOMAIN t, NEW k \in DOMAIN t, t[j] = t[k]
      PROVE  j = k
  <2>1. \A l \in 2 .. Len(t) : t[l] # c
    BY <1>3, <1>4, <1>7 DEF Elements
  <2>2. CASE j \in 2 .. Len(t) /\ k \in 2 .. Len(t)
    <3>1. j - 1 = k - 1
      BY <1>3, <1>4, <1>7, <2>2
    <3> QED
      BY <2>2, <3>1
  <2> QED
    BY <1>1, <1>5, <1>7, <2>1, <2>2
<1>8. /\ t \in Seq(S) /\ Elements(t) = Elements(s) \cup {c}
      /\ \/ c \in Elements(s)
         \/ \E j, k \in DOMAIN s : s[j] = s[k] /\ j # k
         \/ \A j, k \in DOMAIN t : t[j] = t[k] => j = k
  BY <1>1, <1>6, <1>7
<1> QED
  BY <1>8 DEF t

(* Popping the first of elements that are apart removes it. *)
LEMMA PopFacts ==
  ASSUME NEW S, NEW s \in Seq(S), s # <<>>, \A j, k \in DOMAIN s : s[j] = s[k] => j = k
  PROVE  /\ s[1] \in S /\ s[1] \in Elements(s)
         /\ Tail(s) \in Seq(S) /\ Elements(Tail(s)) = Elements(s) \ {s[1]}
         /\ \A j, k \in DOMAIN Tail(s) : Tail(s)[j] = Tail(s)[k] => j = k
         /\ Len(s) = 1 => Tail(s) = <<>>
<1> DEFINE t == Tail(s)
<1>1. t \in Seq(S) /\ Len(t) = Len(s) - 1 /\ Len(s) \in Nat \ {0}
  OBVIOUS
<1>2. \A j \in 1 .. Len(t) : t[j] = s[j + 1] /\ j + 1 \in 1 .. Len(s)
  BY <1>1
<1>3. \A j \in 2 .. Len(s) : j - 1 \in 1 .. Len(t) /\ t[j - 1] = s[j]
  BY <1>1, <1>2
<1>4. DOMAIN t = 1 .. Len(t) /\ DOMAIN s = 1 .. Len(s) /\ 1 \in DOMAIN s /\ s[1] \in S
  BY <1>1
<1> HIDE DEF t
<1>5. Len(s) = 1 => t = <<>>
  <2>1. \A q \in Seq(S) : Len(q) = 0 => q = <<>>
    OBVIOUS
  <2> QED
    BY <1>1, <2>1
<1>6. \A x : x \in Elements(t) <=> x \in Elements(s) \ {s[1]}
  <2>1. ASSUME NEW x \in Elements(t)
        PROVE  x \in Elements(s) \ {s[1]}
    <3>1. PICK j \in 1 .. Len(t) : x = t[j]
      BY <1>4 DEF Elements
    <3>2. x = s[j + 1] /\ j + 1 \in DOMAIN s /\ j + 1 # 1
      BY <1>2, <1>4, <3>1
    <3>3. s[j + 1] # s[1]
      BY <1>4, <3>2
    <3> QED
      BY <3>2, <3>3 DEF Elements
  <2>2. ASSUME NEW x \in Elements(s), x # s[1]
        PROVE  x \in Elements(t)
    <3>1. PICK j \in 1 .. Len(s) : x = s[j]
      BY <1>4 DEF Elements
    <3>2. j \in 2 .. Len(s)
      BY <1>1, <2>2, <3>1
    <3>3. j - 1 \in DOMAIN t /\ t[j - 1] = x
      BY <1>3, <1>4, <3>1, <3>2
    <3> QED
      BY <3>3 DEF Elements
  <2> QED
    BY <2>1, <2>2
<1>7. ASSUME NEW j \in DOMAIN t, NEW k \in DOMAIN t, t[j] = t[k]
      PROVE  j = k
  <2>1. s[j + 1] = s[k + 1] /\ j + 1 \in DOMAIN s /\ k + 1 \in DOMAIN s
    BY <1>2, <1>4, <1>7
  <2>2. j + 1 = k + 1
    BY <2>1
  <2> QED
    BY <1>4, <2>2
<1>8. s[1] \in Elements(s)
  BY <1>4 DEF Elements
<1> QED
  BY <1>1, <1>4, <1>5, <1>6, <1>7, <1>8 DEF t

(* One reference goes away in a reset, with the back-reference that        *)
(* belongs to it.                                                          *)
Dropping(r) ==
  /\ clearing /\ r \in refs /\ refs' = refs \ {r} /\ Unref(r)
  /\ r.holder = DB \/ r.holder \in Elements(freeing)
  /\ r.slot # "default_instance"
  /\ UNCHANGED <<kind, id, default_instance, clearing, failed>>
  /\ module' \in [Addr -> Addr \cup {NULL}]
  /\ net' \in [Addr -> Addr \cup {NULL}]
  /\ parent' \in [Addr -> Addr \cup {NULL}]
  /\ \A a \in Addr :
       /\ module'[a] = IF r = Ref(module[a], "mod_instances", NULL, a) THEN NULL ELSE module[a]
       /\ net'[a] = IF r = Ref(net[a], "objects", NULL, a) THEN NULL ELSE net[a]
       /\ parent'[a] = IF r = Ref(parent[a], ParentQueue[kind[a]], NULL, a) THEN NULL
                       ELSE parent[a]

(* Dropping a reference lowers the count of its object by one, and the     *)
(* object is freed exactly when no holder is left.                         *)
LEMMA DropCounts ==
  ASSUME ObjInv, NEW r, Dropping(r)
  PROVE  /\ r.obj \in Addr /\ Live(r.obj) /\ r.obj \notin Elements(freeing)
         /\ \A a : HoldersOf(a)' = HoldersOf(a) \ {r}
         /\ r \in HoldersOf(r.obj)
         /\ IsFiniteSet(HoldersOf(r.obj)')
         /\ refcount[r.obj] >= 1 /\ refcount' \in [Addr -> Nat]
         /\ refcount'[r.obj] = Cardinality(HoldersOf(r.obj)')
         /\ \A a \in Addr \ {r.obj} : refcount'[a] = refcount[a]
         /\ refcount[r.obj] <= 1 <=> HoldersOf(r.obj)' = {}
         /\ freeing' = IF refcount[r.obj] <= 1 THEN <<r.obj>> \o freeing ELSE freeing
<1> DEFINE c == r.obj
<1>1. failed = {} /\ r \in refs /\ clearing
  BY DEF Dropping, ObjInv, TablesOK
<1>2. r \in HoldersOf(c) /\ c \in Addr /\ Live(c)
  BY <1>1, RefFacts DEF HoldersOf, Sound
<1>3. c \notin Elements(freeing)
  BY <1>1, <1>2 DEF ObjInv, FreeingOK
<1>4. ASSUME NEW a
      PROVE  HoldersOf(a)' = HoldersOf(a) \ {r}
  <2>1. \A q : q \in refs' <=> q \in refs /\ q # r
    BY DEF Dropping
  <2>2. \A q : Sound(q)' <=> Sound(q)
    BY DEF Dropping, Sound, Live
  <2>3. \A q : q \in HoldersOf(a)' <=> q \in HoldersOf(a) \ {r}
    BY <2>1, <2>2 DEF HoldersOf
  <2> QED
    BY <2>3
<1>5. IsFiniteSet(HoldersOf(c)) /\ refcount[c] = Cardinality(HoldersOf(c)) /\ refcount[c] \in Nat
  BY <1>2 DEF ObjInv, CountsOK, HeapTypeOK
<1>6. /\ IsFiniteSet(HoldersOf(c)') /\ Cardinality(HoldersOf(c)') = refcount[c] - 1
      /\ Cardinality(HoldersOf(c)') \in Nat
  <2>1. HoldersOf(c)' = HoldersOf(c) \ {r}
    BY <1>4
  <2>2. /\ IsFiniteSet(HoldersOf(c) \ {r})
        /\ Cardinality(HoldersOf(c) \ {r}) = Cardinality(HoldersOf(c)) - 1
    BY <1>2, <1>5, FS_RemoveElement
  <2> QED
    BY <1>5, <2>1, <2>2, FS_CardinalityType
<1>7. /\ refcount' = [refcount EXCEPT ![c] = @ - 1]
      /\ freeing' = IF refcount[c] <= 1 THEN <<c>> \o freeing ELSE freeing
  BY DEF Dropping, Unref
<1>8. refcount \in [Addr -> Nat]
  BY DEF ObjInv, HeapTypeOK
<1>9. refcount[c] <= 1 <=> HoldersOf(c)' = {}
  BY <1>5, <1>6, FS_EmptySet
<1> HIDE DEF c
<1>10. /\ refcount[c] >= 1 /\ refcount' \in [Addr -> Nat] /\ refcount'[c] = refcount[c] - 1
       /\ \A a \in Addr \ {c} : refcount'[a] = refcount[a]
  BY <1>2, <1>5, <1>6, <1>7, <1>8
<1> QED
  BY <1>2, <1>3, <1>4, <1>6, <1>7, <1>9, <1>10 DEF c

(* Dropping a reference with its back-reference keeps the invariant. *)
LEMMA DropStep ==
  ASSUME ObjInv, NEW r, Dropping(r)
  PROVE  ObjInv'
<1> DEFINE c == r.obj
<1>1. /\ r \in refs /\ clearing /\ clearing' /\ failed = {} /\ failed' = {}
      /\ kind' = kind /\ id' = id /\ default_instance' = default_instance
      /\ \A q : q \in refs' <=> q \in refs /\ q # r
      /\ r.slot # "default_instance"
      /\ r.holder = DB \/ r.holder \in Elements(freeing)
  BY DEF Dropping, ObjInv, TablesOK
<1>2. /\ c \in Addr /\ Live(c) /\ c \notin Elements(freeing)
      /\ \A a : HoldersOf(a)' = HoldersOf(a) \ {r}
      /\ r \in HoldersOf(c)
      /\ IsFiniteSet(HoldersOf(c)')
      /\ refcount[c] >= 1 /\ refcount' \in [Addr -> Nat]
      /\ refcount'[c] = Cardinality(HoldersOf(c)')
      /\ \A a \in Addr \ {c} : refcount'[a] = refcount[a]
      /\ refcount[c] <= 1 <=> HoldersOf(c)' = {}
      /\ freeing' = IF refcount[c] <= 1 THEN <<c>> \o freeing ELSE freeing
  BY DropCounts
<1>3. /\ freeing \in Seq(Addr) /\ \A j, k \in DOMAIN freeing : freeing[j] = freeing[k] => j = k
      /\ freeing' \in Seq(Addr) /\ \A j, k \in DOMAIN freeing' : freeing'[j] = freeing'[k] => j = k
      /\ Elements(freeing)' = IF HoldersOf(c)' = {} THEN Elements(freeing) \cup {c}
                                                    ELSE Elements(freeing)
  <2>1. /\ freeing \in Seq(Addr)
        /\ \A j, k \in DOMAIN freeing : freeing[j] = freeing[k] => j = k
    BY DEF ObjInv, HeapTypeOK, FreeingOK
  <2>2. Elements(freeing)' = Elements(freeing')
    BY DEF Elements
  <2>3. CASE HoldersOf(c)' = {}
    <3>1. freeing' = <<c>> \o freeing
      BY <1>2, <2>3
    <3>2. /\ <<c>> \o freeing \in Seq(Addr)
          /\ Elements(<<c>> \o freeing) = Elements(freeing) \cup {c}
          /\ \A j, k \in DOMAIN (<<c>> \o freeing) :
               (<<c>> \o freeing)[j] = (<<c>> \o freeing)[k] => j = k
      BY <1>2, <2>1, PushFacts
    <3> QED
      BY <2>1, <2>2, <2>3, <3>1, <3>2
  <2>4. CASE HoldersOf(c)' # {}
    <3>1. freeing' = freeing
      BY <1>2, <2>4
    <3> QED
      BY <2>1, <2>2, <2>4, <3>1
  <2> QED
    BY <2>3, <2>4
<1>4. HeapTypeOK'
  <2>1. /\ kind' \in [Addr -> Kind \cup {"free"}] /\ id' \in [Addr -> Ids]
        /\ default_instance' \in [Addr -> Addr \cup {NULL}]
        /\ \A q \in refs' : /\ q = Ref(q.holder, q.slot, q.key, q.obj)
                            /\ q.holder \in Addr \cup {DB} /\ q.obj \in Addr
        /\ clearing' \in BOOLEAN /\ failed' \subseteq Net
    BY <1>1 DEF ObjInv, HeapTypeOK
  <2> QED
    BY <1>2, <1>3, <2>1 DEF HeapTypeOK, Dropping
<1>5. \A a \in Addr :
        /\ module'[a] = IF r = Ref(module[a], "mod_instances", NULL, a) THEN NULL ELSE module[a]
        /\ net'[a] = IF r = Ref(net[a], "objects", NULL, a) THEN NULL ELSE net[a]
        /\ parent'[a] = IF r = Ref(parent[a], ParentQueue[kind[a]], NULL, a) THEN NULL
                        ELSE parent[a]
  BY DEF Dropping
<1> HIDE DEF c
<1>6. ObjectsShaped'
  BY <1>1, <1>5 DEF ObjectsShaped, ObjInv, Live
<1>7. TablesOK'
  BY <1>1 DEF TablesOK, ObjInv, EntryOf, Live
<1>8. QueuesOK'
  <2>1. ASSUME NEW q \in refs', q.holder # DB
        PROVE  /\ q.key = NULL /\ Live(q.obj)' /\ BackReferenceOf(q)'
               /\ q.slot # "default_instance" =>
                    Live(q.holder)' /\ q.slot \in Elements(Queues[kind'[q.holder]])
    <3>1. /\ q \in refs /\ q # r /\ q.key = NULL /\ Live(q.obj) /\ BackReferenceOf(q)
          /\ q = Ref(q.holder, q.slot, NULL, q.obj) /\ q.obj \in Addr
          /\ q.slot # "default_instance" =>
               Live(q.holder) /\ q.slot \in Elements(Queues[kind[q.holder]])
      BY <1>1, <2>1, RefFacts DEF ObjInv, QueuesOK
    <3>2. q.slot = "default_instance" => q.obj # c
      BY <1>1, <1>2, <3>1 DEF ObjInv, InstancesOK
    <3>3. /\ q.slot = "mod_instances" /\ module[q.obj] = q.holder => module'[q.obj] = q.holder
          /\ q.slot = "objects" /\ net[q.obj] = q.holder => net'[q.obj] = q.holder
          /\ q.slot = ParentQueue[kind[q.obj]] /\ parent[q.obj] = q.holder =>
               parent'[q.obj] = q.holder
      BY <1>5, <3>1
    <3>4. q.slot = "default_instance" => /\ module'[q.obj] = module[q.obj]
                                         /\ parent[q.obj] = NULL => parent'[q.obj] = NULL
      BY <1>5, <3>1, <3>2, RefFields DEF c
    <3> QED
      BY <1>1, <3>1, <3>3, <3>4 DEF BackReferenceOf, Live
  <2>2. ASSUME NEW a \in Addr
        PROVE  /\ parent'[a] # NULL => Ref(parent'[a], ParentQueue[kind'[a]], NULL, a) \in refs'
               /\ net'[a] # NULL    => Ref(net'[a], "objects", NULL, a) \in refs'
               /\ module'[a] # NULL => \/ Ref(module'[a], "mod_instances", NULL, a) \in refs'
                                       \/ Ref(module'[a], "default_instance", NULL, a) \in refs'
    <3>1. /\ parent[a] # NULL => Ref(parent[a], ParentQueue[kind[a]], NULL, a) \in refs
          /\ net[a] # NULL    => Ref(net[a], "objects", NULL, a) \in refs
          /\ module[a] # NULL => \/ Ref(module[a], "mod_instances", NULL, a) \in refs
                                 \/ Ref(module[a], "default_instance", NULL, a) \in refs
      BY DEF ObjInv, QueuesOK
    <3>2. r # Ref(module[a], "default_instance", NULL, a)
      BY <1>1, RefFields
    <3> QED
      BY <1>1, <1>5, <3>1, <3>2
  <2> QED
    BY <2>1, <2>2 DEF QueuesOK
<1>9. InstancesOK'
  <2>1. \A q \in refs' : q.slot = "default_instance" => HoldersOf(q.obj)' = {q}
    BY <1>1, <1>2 DEF ObjInv, InstancesOK
  <2>2. \A m \in Addr : default_instance'[m] # NULL => kind'[m] = "module"
    BY <1>1 DEF ObjInv, InstancesOK
  <2>3. ASSUME NEW m \in Addr, kind'[m] = "module", m \notin Elements(freeing)'
        PROVE  LET i == default_instance'[m]
               IN  /\ i \in Addr
                   /\ \/ Ref(m, "mod_instances", NULL, i) \in refs'
                      \/ Ref(m, "default_instance", NULL, i) \in refs'
                   /\ id'[i] = <<"instance", id'[m][2]>>
    <3>1. m \notin Elements(freeing) /\ m # DB
      BY <1>3, <2>3, HolderAssumption
    <3>2. \A s, i : r # Ref(m, s, NULL, i)
      BY <1>1, <3>1, RefFields
    <3> QED
      BY <1>1, <2>3, <3>1, <3>2 DEF ObjInv, InstancesOK
  <2> QED
    BY <1>1, <2>1, <2>2, <2>3 DEF InstancesOK
<1>10. CountsOK'
  <2> SUFFICES ASSUME NEW a \in Addr, Live(a)'
               PROVE  /\ IsFiniteSet(HoldersOf(a)')
                      /\ refcount'[a] = Cardinality(HoldersOf(a)')
                      /\ HoldersOf(a)' = {} => a \in Elements(freeing)'
    BY DEF CountsOK
  <2>1. CASE a = c
    BY <1>2, <1>3, <2>1
  <2>2. CASE a # c
    <3>1. HoldersOf(a)' = HoldersOf(a)
      <4>1. r \notin HoldersOf(a)
        BY <2>2 DEF HoldersOf, c
      <4> QED
        BY <1>2, <4>1
    <3>2. Live(a)
      BY <1>1 DEF Live
    <3> QED
      BY <1>2, <1>3, <2>2, <3>1, <3>2 DEF ObjInv, CountsOK
  <2> QED
    BY <2>1, <2>2
<1>11. FreeingOK'
  <2>1. \A a \in Elements(freeing)' : Live(a)' /\ HoldersOf(a)' = {}
    <3> SUFFICES ASSUME NEW a \in Elements(freeing)'
                 PROVE  Live(a)' /\ HoldersOf(a)' = {}
      OBVIOUS
    <3>1. CASE a = c
      BY <1>1, <1>2, <1>3, <3>1 DEF Live
    <3>2. CASE a \in Elements(freeing)
      BY <1>1, <1>2, <3>2 DEF ObjInv, FreeingOK, Live
    <3> QED
      BY <1>3, <3>1, <3>2
  <2> QED
    BY <1>1, <1>3, <2>1 DEF FreeingOK
<1> QED
  BY <1>4, <1>6, <1>7, <1>8, <1>9, <1>10, <1>11 DEF ObjInv

(* A set of natural numbers has a least element.                           *)
LEMMA LeastNat ==
  ASSUME NEW T \in SUBSET Nat, T # {}
  PROVE  \E n \in T : \A k \in T : n <= k
<1> DEFINE R == OpToRel(<, Nat)
<1>1. IsWellFoundedOn(R, Nat)
  BY NatLessThanWellFounded
<1> HIDE DEF R
<1>2. PICK n \in T : \A k \in T : <<k, n>> \notin R
  BY <1>1, WFMin
<1>3. ASSUME NEW k \in T
      PROVE  n <= k
  <2>1. ~ (k < n)
    BY <1>2 DEF R, OpToRel
  <2>2. k \in Nat /\ n \in Nat
    OBVIOUS
  <2> QED
    BY <2>1, <2>2
<1> QED
  BY <1>3

(* The first filled slot is one of the list and is filled.                 *)
LEMMA FirstFilledFacts ==
  ASSUME NEW o, NEW slots, NEW l \in Nat, DOMAIN slots = 1 .. l, \E q \in Elements(slots) : InSlot(o, q) # {}
  PROVE  FirstFilled(o, slots) \in Elements(slots) /\ InSlot(o, FirstFilled(o, slots)) # {}
<1> DEFINE T == {k \in DOMAIN slots : InSlot(o, slots[k]) # {}}
<1>1. T \in SUBSET Nat /\ T # {}
  <2>1. PICK j \in DOMAIN slots : InSlot(o, slots[j]) # {}
    BY DEF Elements
  <2>2. j \in T
    BY <2>1
  <2>3. \A k \in T : k \in 1 .. l
    OBVIOUS
  <2> HIDE DEF T
  <2> QED
    BY <2>2, <2>3
<1>2. PICK n \in T : \A k \in T : n <= k
  BY <1>1, LeastNat
<1>3. \A j \in 1 .. n - 1 : j \in DOMAIN slots /\ j \notin T
  BY <1>1, <1>2
<1>4. n \in DOMAIN slots /\ InSlot(o, slots[n]) # {} /\ \A j \in 1 .. n - 1 : InSlot(o, slots[j]) = {}
  BY <1>3
<1> DEFINE first == CHOOSE k \in DOMAIN slots :
                      /\ InSlot(o, slots[k]) # {}
                      /\ \A j \in 1 .. k - 1 : InSlot(o, slots[j]) = {}
<1>5. first \in DOMAIN slots /\ InSlot(o, slots[first]) # {}
  <2> HIDE DEF T
  <2> QED
    BY <1>4
<1>6. FirstFilled(o, slots) = slots[first]
  BY DEF FirstFilled
<1> QED
  BY <1>5, <1>6 DEF Elements

(* Tables and queues are told apart by their slots. *)
LEMMA SlotLists ==
  /\ Elements(TableOrder) = TableSlots
  /\ \A k \in Kind : \E l \in Nat : DOMAIN Queues[k] = 1 .. l
  /\ \A k \in Kind : \A q \in Elements(Queues[k]) : q # "default_instance" /\ q \notin TableSlots
<1>1. Elements(TableOrder) = TableSlots
  <2>1. DOMAIN TableOrder = 1 .. 9
    BY DEF TableOrder
  <2>2. /\ TableOrder[1] = "modules_by_id" /\ TableOrder[2] = "modules_by_name"
        /\ TableOrder[3] = "instances_by_id" /\ TableOrder[4] = "instances_by_name"
        /\ TableOrder[5] = "regfiles_by_id" /\ TableOrder[6] = "regfiles_by_name"
        /\ TableOrder[7] = "nets_by_id" /\ TableOrder[8] = "nets_by_name"
        /\ TableOrder[9] = "objects_by_id"
    BY DEF TableOrder
  <2>3. 1 .. 9 = {1, 2, 3, 4, 5, 6, 7, 8, 9}
    OBVIOUS
  <2> QED
    BY <2>1, <2>2, <2>3 DEF Elements, TableSlots
<1>2. ASSUME NEW k \in Kind
      PROVE  \E l \in Nat : DOMAIN Queues[k] = 1 .. l
  <2>1. /\ DOMAIN Queues["module"] = 1 .. 6 /\ DOMAIN Queues["resource"] = 1 .. 2
        /\ \A j \in {"instance", "regfile", "entry", "net"} : DOMAIN Queues[j] = 1 .. 1
        /\ \A j \in {"port", "pin", "declaration", "codesection", "register"} :
             DOMAIN Queues[j] = 1 .. 0
    BY DEF Queues
  <2> QED
    BY <2>1, Kinds
<1>3. \A k \in Kind : \A q \in Elements(Queues[k]) : q # "default_instance" /\ q \notin TableSlots
  BY Kinds, QueueSlots DEF TableSlots
<1> QED
  BY <1>1, <1>2, <1>3

(* Removing an entry of a table in a reset keeps the invariant. *)
LEMMA ClearEntryStep ==
  ASSUME ObjInv, ClearEntry
  PROVE  ObjInv'
<1>1. PICK r \in refs : r.holder = DB /\ refs' = refs \ {r} /\ Unref(r)
  BY DEF ClearEntry
<1>2. clearing /\ UNCHANGED <<kind, id, parent, module, net, default_instance, clearing, failed>>
  BY DEF ClearEntry
<1>3. r.slot # "default_instance"
  BY <1>1, RefFacts DEF TableSlots
<1>4. \A a \in Addr : \A s : /\ r # Ref(module[a], s, NULL, a) /\ r # Ref(net[a], s, NULL, a)
                             /\ r # Ref(parent[a], s, NULL, a)
  BY <1>1, RefFields, HolderAssumption DEF ObjInv, HeapTypeOK
<1>5. Dropping(r)
  BY <1>1, <1>2, <1>3, <1>4 DEF Dropping, ObjInv, HeapTypeOK
<1> QED
  BY <1>5, DropStep

(* Children are only unreferenced in a reset: a net that the command       *)
(* connect frees has no objects yet and a codesection has no queue.        *)
LEMMA FreeingChildren ==
  ASSUME ObjInv, freeing # <<>>, \E q \in Elements(Queues[kind[freeing[1]]]) : InSlot(freeing[1], q) # {}
  PROVE  clearing
<1> SUFFICES ASSUME ~ clearing PROVE FALSE
  OBVIOUS
<1>1. kind[freeing[1]] \in {"net", "codesection"} /\ InSlot(freeing[1], "objects") = {}
  BY DEF ObjInv, FreeingOK
<1> QED
  BY <1>1, QueueSlots

(* A free function that empties a queue keeps the invariant. *)
LEMMA FreeChildStep ==
  ASSUME ObjInv, FreeChild
  PROVE  ObjInv'
<1>0. freeing # <<>> /\ freeing \in Seq(Addr)
  BY DEF FreeChild, ObjInv, HeapTypeOK
<1>1. PICK o \in Addr : o = freeing[1] /\ o \in Elements(freeing) /\ Live(o) /\ kind[o] \in Kind
  <2>1. freeing[1] \in Elements(freeing) /\ freeing[1] \in Addr
    BY <1>0 DEF Elements
  <2> QED
    BY <2>1 DEF ObjInv, FreeingOK, HeapTypeOK, Live
<1> DEFINE queue == FirstFilled(o, Queues[kind[o]])
<1>2. /\ \E q \in Elements(Queues[kind[o]]) : InSlot(o, q) # {}
      /\ \E r \in refs :
           /\ r.holder = o /\ r.slot = queue
           /\ module' = IF queue = "mod_instances" THEN Cut(module, r.obj, o) ELSE module
           /\ net' = IF queue = "objects" THEN Cut(net, r.obj, o) ELSE net
           /\ parent' = IF queue \in {"mod_instances", "objects"}
                        THEN parent ELSE Cut(parent, r.obj, o)
           /\ refs' = refs \ {r}
           /\ Unref(r)
      /\ UNCHANGED <<kind, id, default_instance, clearing, failed>>
  BY <1>1 DEF FreeChild
<1>3. clearing /\ queue \in Elements(Queues[kind[o]])
  <2>1. \E l \in Nat : DOMAIN Queues[kind[o]] = 1 .. l
    BY <1>1, SlotLists
  <2> QED
    BY <1>0, <1>1, <1>2, <2>1, FreeingChildren, FirstFilledFacts
<1> HIDE DEF queue
<1>4. PICK r \in refs :
        /\ r.holder = o /\ r.slot = queue
        /\ module' = IF queue = "mod_instances" THEN Cut(module, r.obj, o) ELSE module
        /\ net' = IF queue = "objects" THEN Cut(net, r.obj, o) ELSE net
        /\ parent' = IF queue \in {"mod_instances", "objects"}
                     THEN parent ELSE Cut(parent, r.obj, o)
        /\ refs' = refs \ {r}
        /\ Unref(r)
  BY <1>2
<1> DEFINE c == r.obj
<1>5. /\ r = Ref(o, queue, NULL, c) /\ c \in Addr /\ o # DB /\ o # NULL
      /\ BackReferenceOf(r) /\ queue # "default_instance"
  <2>1. o # DB /\ o # NULL
    BY HolderAssumption
  <2>2. queue # "default_instance"
    BY <1>1, <1>3, SlotLists
  <2> QED
    BY <1>4, <2>1, <2>2, RefFacts DEF ObjInv, QueuesOK
<1> HIDE DEF c
<1>6. \/ queue = "mod_instances" /\ kind[c] = "instance" /\ module[c] = o
      \/ queue = "objects" /\ kind[c] \in {"port", "pin", "declaration"} /\ net[c] = o
      \/ /\ kind[c] \in DOMAIN ParentQueue /\ parent[c] = o
         /\ queue = ParentQueue[kind[c]] /\ queue \notin {"mod_instances", "objects"}
  BY <1>4, <1>5, ParentQueues, Kinds DEF BackReferenceOf, c
<1>7. /\ module \in [Addr -> Addr \cup {NULL}] /\ net \in [Addr -> Addr \cup {NULL}]
      /\ parent \in [Addr -> Addr \cup {NULL}]
  BY DEF ObjInv, HeapTypeOK
<1>8. \A f \in [Addr -> Addr \cup {NULL}] :
        /\ Cut(f, c, o) \in [Addr -> Addr \cup {NULL}]
        /\ \A a \in Addr : Cut(f, c, o)[a] = IF a = c /\ f[a] = o THEN NULL ELSE f[a]
  BY <1>5 DEF Cut
<1>9. /\ module' \in [Addr -> Addr \cup {NULL}] /\ net' \in [Addr -> Addr \cup {NULL}]
      /\ parent' \in [Addr -> Addr \cup {NULL}]
  BY <1>4, <1>7, <1>8 DEF c
<1>10. ASSUME NEW a \in Addr, NEW h, NEW q
       PROVE  r = Ref(h, q, NULL, a) <=> h = o /\ q = queue /\ a = c
  BY <1>5, RefFields
<1>11. ASSUME NEW a \in Addr
       PROVE  /\ module'[a] = IF r = Ref(module[a], "mod_instances", NULL, a) THEN NULL ELSE module[a]
              /\ net'[a] = IF r = Ref(net[a], "objects", NULL, a) THEN NULL ELSE net[a]
  BY <1>4, <1>7, <1>8, <1>10 DEF c
<1>12. ASSUME NEW a \in Addr
       PROVE  parent'[a] = IF r = Ref(parent[a], ParentQueue[kind[a]], NULL, a) THEN NULL
                           ELSE parent[a]
  <2>1. CASE queue \in {"mod_instances", "objects"}
    <3>1. ParentQueue[kind[c]] # queue
      BY <1>6, <2>1, ParentQueues
    <3> QED
      BY <1>4, <1>10, <2>1, <3>1
  <2>2. CASE queue \notin {"mod_instances", "objects"}
    <3>1. parent' = Cut(parent, c, o) /\ ParentQueue[kind[c]] = queue
      BY <1>4, <1>6, <2>2 DEF c
    <3> QED
      BY <1>7, <1>8, <1>10, <3>1
  <2> QED
    BY <2>1, <2>2
<1>13. Dropping(r)
  BY <1>1, <1>2, <1>3, <1>4, <1>5, <1>9, <1>11, <1>12 DEF Dropping
<1> QED
  BY <1>13, DropStep

(* Releasing an object, with a net's entries left behind outside of a      *)
(* reset, keeps the invariant.                                             *)
LEMMA ReleaseStep ==
  ASSUME ObjInv, Release
  PROVE  ObjInv'
<1>0. freeing # <<>> /\ freeing \in Seq(Addr)
  BY DEF Release, ObjInv, HeapTypeOK
<1>1. \A j, k \in DOMAIN freeing : freeing[j] = freeing[k] => j = k
  BY DEF ObjInv, FreeingOK
<1>2. PICK o \in Addr : o = freeing[1] /\ o \in Elements(freeing)
  BY <1>0, <1>1, PopFacts
<1>3. /\ \A q \in Elements(Queues[kind[o]]) : InSlot(o, q) = {}
      /\ kind' = [kind EXCEPT ![o] = "free"] /\ id' = [id EXCEPT ![o] = <<>>]
      /\ refcount' = [refcount EXCEPT ![o] = 0] /\ parent' = [parent EXCEPT ![o] = NULL]
      /\ module' = [module EXCEPT ![o] = NULL] /\ net' = [net EXCEPT ![o] = NULL]
      /\ default_instance' = [default_instance EXCEPT ![o] = NULL]
      /\ freeing' = Tail(freeing)
      /\ refs' = refs /\ clearing' = clearing /\ failed' = failed
  BY <1>2 DEF Release
<1>4. HeapTypeOK
  BY DEF ObjInv
<1>5. /\ kind'[o] = "free" /\ parent'[o] = NULL /\ module'[o] = NULL /\ net'[o] = NULL
      /\ default_instance'[o] = NULL
      /\ \A a \in Addr \ {o} :
           /\ kind'[a] = kind[a] /\ id'[a] = id[a] /\ parent'[a] = parent[a]
           /\ module'[a] = module[a] /\ net'[a] = net[a] /\ refcount'[a] = refcount[a]
           /\ default_instance'[a] = default_instance[a]
  BY <1>3, <1>4 DEF HeapTypeOK
<1>6. /\ freeing' \in Seq(Addr) /\ Elements(freeing)' = Elements(freeing) \ {o}
      /\ \A j, k \in DOMAIN freeing' : freeing'[j] = freeing'[k] => j = k
      /\ Len(freeing) = 1 => freeing' = <<>>
  <2>1. Elements(freeing)' = Elements(freeing')
    BY DEF Elements
  <2> QED
    BY <1>0, <1>1, <1>2, <1>3, <2>1, PopFacts
<1>7. HeapTypeOK'
  <2>1. /\ kind' \in [Addr -> Kind \cup {"free"}] /\ refcount' \in [Addr -> Nat]
        /\ parent' \in [Addr -> Addr \cup {NULL}] /\ module' \in [Addr -> Addr \cup {NULL}]
        /\ net' \in [Addr -> Addr \cup {NULL}]
        /\ default_instance' \in [Addr -> Addr \cup {NULL}]
    BY <1>3, <1>4 DEF HeapTypeOK
  <2>2. id' \in [Addr -> Ids]
    <3>1. <<>> \in Ids
      BY DEF Ids
    <3> QED
      BY <1>3, <1>4, <3>1 DEF HeapTypeOK
  <2> QED
    BY <1>3, <1>4, <1>6, <2>1, <2>2 DEF HeapTypeOK
(* Only stale entries of failed nets lead to o.                            *)
<1>8. ASSUME NEW r \in refs, r.obj = o
      PROVE  r.holder = DB /\ \E s \in failed : EntryOf(r, "net", <<"net", s>>)
  <2>1. /\ Live(o)
        /\ \/ HoldersOf(o) = {}
           \/ kind[o] = "net" /\ \E s \in failed : id[o] = <<"net", s>>
    BY <1>2 DEF ObjInv, FreeingOK
  <2>2. CASE HoldersOf(o) = {}
    BY <1>8, <2>2, RefFacts
  <2>3. ASSUME kind[o] = "net", NEW s \in failed, id[o] = <<"net", s>>
        PROVE  r.holder = DB /\ \E t \in failed : EntryOf(r, "net", <<"net", t>>)
    <3>1. r.holder = DB
      <4>1. r.holder # DB => BackReferenceOf(r)
        BY DEF ObjInv, QueuesOK
      <4> QED
        BY <1>8, <2>3, <4>1, Kinds DEF BackReferenceOf
    <3>2. \/ EntryOf(r, "net", <<"net", s>>)
          \/ \E t \in failed : EntryOf(r, "net", <<"net", t>>)
      BY <1>8, <2>3, <3>1 DEF ObjInv, TablesOK
    <3> QED
      BY <3>1, <3>2
  <2> QED
    BY <2>1, <2>2, <2>3
<1>9. ASSUME NEW r \in refs, r.holder = o
      PROVE  r.slot = "default_instance"
  <2>1. o # DB
    BY HolderAssumption
  <2>2. r.slot # "default_instance" => r.slot \in Elements(Queues[kind[o]])
    BY <1>9, <2>1 DEF ObjInv, QueuesOK
  <2>3. r.obj \in InSlot(o, r.slot)
    BY <1>9 DEF InSlot
  <2> QED
    BY <1>3, <2>2, <2>3
<1>10. ObjectsShaped'
  BY <1>5 DEF ObjInv, ObjectsShaped, Live
<1>11. TablesOK'
  <2>1. ASSUME NEW r \in refs', r.holder = DB
        PROVE  \/ Live(r.obj)' /\ EntryOf(r, kind[r.obj], id[r.obj])'
               \/ \E s \in failed' : EntryOf(r, "net", <<"net", s>>)'
    <3>1. \A k, i : EntryOf(r, k, i)' <=> EntryOf(r, k, i)
      BY <1>3 DEF EntryOf
    <3>2. r \in refs /\ r.obj \in Addr
      BY <1>3, <2>1, RefFacts
    <3>3. CASE r.obj = o
      BY <1>3, <1>8, <3>1, <3>2, <3>3
    <3>4. CASE r.obj # o
      <4>1. kind'[r.obj] = kind[r.obj] /\ id'[r.obj] = id[r.obj]
        BY <1>5, <3>2, <3>4
      <4>2. \/ Live(r.obj) /\ EntryOf(r, kind[r.obj], id[r.obj])
            \/ \E s \in failed : EntryOf(r, "net", <<"net", s>>)
        BY <2>1, <3>2 DEF ObjInv, TablesOK
      <4>3. EntryOf(r, kind[r.obj], id[r.obj])' <=> EntryOf(r, kind[r.obj], id[r.obj])
        BY <1>3, <4>1 DEF EntryOf
      <4> QED
        BY <1>3, <3>1, <4>1, <4>2, <4>3 DEF Live
    <3> QED
      BY <3>3, <3>4
  <2>2. /\ \A q, r \in refs' : q.holder = DB /\ r.holder = DB /\ q.slot = r.slot /\ q.key = r.key
                                 => q.obj = r.obj
        /\ \A s \in failed' : Holds("nets_by_name", s)'
        /\ clearing' => failed' = {}
    BY <1>3 DEF ObjInv, TablesOK, Holds, Entries
  <2> QED
    BY <2>1, <2>2 DEF TablesOK
<1>12. QueuesOK'
  <2>1. ASSUME NEW r \in refs', r.holder # DB
        PROVE  /\ r.key = NULL /\ Live(r.obj)' /\ BackReferenceOf(r)'
               /\ r.slot # "default_instance" =>
                    Live(r.holder)' /\ r.slot \in Elements(Queues[kind'[r.holder]])
    <3>1. /\ r \in refs /\ r.obj \in Addr \ {o} /\ r.holder \in Addr
          /\ r.key = NULL /\ Live(r.obj) /\ BackReferenceOf(r)
          /\ r.slot # "default_instance" =>
               /\ r.holder # o
               /\ Live(r.holder) /\ r.slot \in Elements(Queues[kind[r.holder]])
      BY <1>3, <1>8, <1>9, <2>1, RefFacts DEF ObjInv, QueuesOK
    <3> QED
      BY <1>5, <3>1 DEF BackReferenceOf, Live
  <2>2. \A a \in Addr \ {o} :
          /\ parent'[a] # NULL => Ref(parent'[a], ParentQueue[kind'[a]], NULL, a) \in refs'
          /\ net'[a] # NULL    => Ref(net'[a], "objects", NULL, a) \in refs'
          /\ module'[a] # NULL => \/ Ref(module'[a], "mod_instances", NULL, a) \in refs'
                                  \/ Ref(module'[a], "default_instance", NULL, a) \in refs'
    BY <1>3, <1>5 DEF ObjInv, QueuesOK
  <2> QED
    BY <1>5, <2>1, <2>2 DEF QueuesOK
<1>13. \A a \in Addr \ {o} : HoldersOf(a)' = HoldersOf(a)
  <2> TAKE a \in Addr \ {o}
  <2>1. \A r : r \in HoldersOf(a)' <=> r \in HoldersOf(a)
    BY <1>3, <1>5 DEF HoldersOf, Sound, Live
  <2> QED
    BY <2>1
<1>14. \A r \in refs : r.slot \in {"default_instance", "mod_instances"} => r.obj \in Addr \ {o}
  BY <1>8, RefFacts DEF TableSlots
<1>15. InstancesOK'
  <2>1. ASSUME NEW r \in refs', r.slot = "default_instance"
        PROVE  HoldersOf(r.obj)' = {r}
    BY <1>3, <1>13, <1>14, <2>1 DEF ObjInv, InstancesOK
  <2>2. ASSUME NEW r \in refs', r.slot = "mod_instances", ~ clearing'
        PROVE  parent'[r.obj] # NULL
    BY <1>3, <1>5, <1>14, <2>2 DEF ObjInv, InstancesOK
  <2>3. \A a \in Addr : kind'[a] = "instance" /\ ~ clearing' => module'[a] # NULL
    BY <1>3, <1>5 DEF ObjInv, InstancesOK
  <2>4. \A m \in Addr : default_instance'[m] # NULL => kind'[m] = "module"
    BY <1>5 DEF ObjInv, InstancesOK
  <2>5. ASSUME NEW m \in Addr, kind'[m] = "module", m \notin Elements(freeing)'
        PROVE  LET i == default_instance'[m]
               IN  /\ i \in Addr
                   /\ \/ Ref(m, "mod_instances", NULL, i) \in refs'
                      \/ Ref(m, "default_instance", NULL, i) \in refs'
                   /\ id'[i] = <<"instance", id'[m][2]>>
    <3>1. /\ m # o /\ kind[m] = "module" /\ m \notin Elements(freeing)
          /\ default_instance'[m] = default_instance[m] /\ id'[m] = id[m]
      BY <1>5, <1>6, <2>5
    <3>2. PICK i \in Addr : i = default_instance[m]
      BY <3>1 DEF ObjInv, InstancesOK
    <3>3. /\ \/ Ref(m, "mod_instances", NULL, i) \in refs
             \/ Ref(m, "default_instance", NULL, i) \in refs
          /\ id[i] = <<"instance", id[m][2]>>
      BY <3>1, <3>2 DEF ObjInv, InstancesOK
    <3>4. i # o
      BY <1>14, <3>3, RefFields
    <3> QED
      BY <1>3, <1>5, <3>1, <3>2, <3>3, <3>4
  <2> QED
    BY <2>1, <2>2, <2>3, <2>4, <2>5 DEF InstancesOK
<1>16. CountsOK'
  <2> SUFFICES ASSUME NEW a \in Addr, Live(a)'
               PROVE  /\ IsFiniteSet(HoldersOf(a)')
                      /\ refcount'[a] = Cardinality(HoldersOf(a)')
                      /\ HoldersOf(a)' = {} => a \in Elements(freeing)'
    BY DEF CountsOK
  <2>1. a # o /\ Live(a)
    BY <1>5 DEF Live
  <2> QED
    BY <1>5, <1>6, <1>13, <2>1 DEF ObjInv, CountsOK
<1>17. FreeingOK'
  <2>1. ASSUME NEW a \in Elements(freeing)'
        PROVE  /\ Live(a)'
               /\ \/ HoldersOf(a)' = {}
                  \/ kind'[a] = "net" /\ ~ clearing' /\ \E s \in failed' : id'[a] = <<"net", s>>
    <3>1. a \in Elements(freeing) /\ a # o
      BY <1>6
    <3>2. a \in Addr
      BY <1>0, <3>1 DEF Elements
    <3> QED
      BY <1>3, <1>5, <1>13, <3>1, <3>2 DEF ObjInv, FreeingOK, Live
  <2>2. ~ clearing' => freeing' = <<>>
    BY <1>0, <1>3, <1>6 DEF ObjInv, FreeingOK
  <2> QED
    BY <1>6, <2>1, <2>2 DEF FreeingOK
<1> QED
  BY <1>7, <1>10, <1>11, <1>12, <1>15, <1>16, <1>17 DEF ObjInv

(* Starting a reset keeps the invariant. *)
LEMMA ResetStep ==
  ASSUME ObjInv, ResetBegins
  PROVE  ObjInv'
<1>1. /\ ~ clearing /\ clearing' /\ freeing = <<>> /\ freeing' = freeing
      /\ failed = {} /\ failed' = failed /\ refs' = refs
      /\ kind' = kind /\ id' = id /\ refcount' = refcount /\ parent' = parent
      /\ module' = module /\ net' = net /\ default_instance' = default_instance
  BY DEF ResetBegins, Idle, heapVars
<1>2. \A a : HoldersOf(a)' = HoldersOf(a) /\ (Live(a)' <=> Live(a))
  BY <1>1 DEF HoldersOf, Sound, Live
<1>3. HeapTypeOK' /\ ObjectsShaped'
  BY <1>1 DEF ObjInv, HeapTypeOK, ObjectsShaped, Live
<1>4. TablesOK'
  BY <1>1 DEF ObjInv, TablesOK, EntryOf, Live
<1>5. QueuesOK'
  BY <1>1 DEF ObjInv, QueuesOK, BackReferenceOf, Live
<1>6. InstancesOK'
  BY <1>1, <1>2 DEF ObjInv, InstancesOK
<1>7. CountsOK'
  BY <1>1, <1>2 DEF ObjInv, CountsOK
<1>8. FreeingOK'
  BY <1>1 DEF FreeingOK, Elements
<1> QED
  BY <1>3, <1>4, <1>5, <1>6, <1>7, <1>8 DEF ObjInv

(* Between commands every object has a holder. *)
LEMMA HeldWhenIdle ==
  ASSUME ObjInv, freeing = <<>>, NEW a \in Addr, Live(a)
  PROVE  \E r \in HoldersOf(a) : r \in refs /\ r.obj = a
<1>1. Elements(freeing) = {}
  BY DEF Elements
<1>2. HoldersOf(a) # {}
  BY <1>1 DEF ObjInv, CountsOK
<1> QED
  BY <1>2 DEF HoldersOf

(* Modules are only held by tables: when those are empty none is left.     *)
LEMMA ModulesByTables ==
  ASSUME ObjInv, freeing = <<>>, \A r \in refs : r.holder # DB
  PROVE  \A a \in Addr : kind[a] \notin {"module", "resource"}
<1> SUFFICES ASSUME NEW a \in Addr, kind[a] \in {"module", "resource"}
             PROVE  FALSE
  OBVIOUS
<1>1. Live(a)
  BY DEF Live
<1>2. PICK r \in refs : r.obj = a
  BY <1>1, HeldWhenIdle
<1>3. BackReferenceOf(r)
  BY DEF ObjInv, QueuesOK
<1> QED
  BY <1>2, <1>3, Kinds DEF BackReferenceOf

(* Ending a reset keeps the invariant: only orphans are left. *)
LEMMA ResetDoneStep ==
  ASSUME ObjInv, ResetDone
  PROVE  ObjInv'
<1>1. /\ clearing /\ ~ clearing' /\ freeing = <<>> /\ freeing' = freeing
      /\ \A t \in Elements(TableOrder) : InSlot(DB, t) = {}
      /\ failed' = failed /\ refs' = refs
      /\ kind' = kind /\ id' = id /\ refcount' = refcount /\ parent' = parent
      /\ module' = module /\ net' = net /\ default_instance' = default_instance
      /\ clearing' \in BOOLEAN
  BY DEF ResetDone, heapVars
<1>2. \A r \in refs : r.holder # DB
  <2> SUFFICES ASSUME NEW r \in refs, r.holder = DB PROVE FALSE
    OBVIOUS
  <2>1. r.slot \in Elements(TableOrder) /\ r.obj \in InSlot(DB, r.slot)
    BY RefFacts, SlotLists DEF InSlot
  <2> QED
    BY <1>1, <2>1
<1>3. \A a : HoldersOf(a)' = HoldersOf(a) /\ (Live(a)' <=> Live(a))
  BY <1>1 DEF HoldersOf, Sound, Live
<1>4. failed = {}
  BY <1>1 DEF ObjInv, TablesOK
<1>5. HeapTypeOK' /\ ObjectsShaped'
  BY <1>1 DEF ObjInv, HeapTypeOK, ObjectsShaped, Live
<1>6. TablesOK'
  BY <1>1, <1>2, <1>4 DEF TablesOK
<1>7. QueuesOK'
  BY <1>1 DEF ObjInv, QueuesOK, BackReferenceOf, Live
<1>8. ASSUME NEW r \in refs, r.slot # "default_instance"
      PROVE  /\ r.slot \in Elements(Queues[kind[r.holder]])
             /\ kind[r.holder] \in Kind \ {"module", "resource"}
  <2>1. r.holder \in Addr /\ Live(r.holder) /\ r.slot \in Elements(Queues[kind[r.holder]])
    BY <1>2, <1>8, RefFacts DEF ObjInv, QueuesOK
  <2> QED
    BY <1>1, <1>2, <2>1, ModulesByTables DEF ObjInv, HeapTypeOK, Live
<1>9. \A r \in refs : r.slot \notin {"mod_instances", "child_instances"}
  BY <1>8, QueueSlots, Kinds
<1>10. ASSUME NEW a \in Addr, kind[a] = "instance"
       PROVE  module[a] # NULL
  <2>1. Live(a)
    BY <1>10 DEF Live
  <2>2. PICK r \in refs : r.obj = a
    BY <1>1, <2>1, HeldWhenIdle
  <2>3. BackReferenceOf(r) /\ r.holder # NULL
    BY <1>2, RefFacts, HolderAssumption DEF ObjInv, QueuesOK
  <2> QED
    BY <1>9, <1>10, <2>2, <2>3, ParentQueues DEF BackReferenceOf
<1>11. InstancesOK'
  <2>1. \A r \in refs : r.slot = "default_instance" => HoldersOf(r.obj)' = {r}
    BY <1>3 DEF ObjInv, InstancesOK
  <2>2. /\ \A m \in Addr : default_instance[m] # NULL => kind[m] = "module"
        /\ \A m \in Addr : kind[m] = "module" /\ m \notin Elements(freeing) =>
             LET i == default_instance[m]
             IN  /\ i \in Addr
                 /\ \/ Ref(m, "mod_instances", NULL, i) \in refs
                    \/ Ref(m, "default_instance", NULL, i) \in refs
                 /\ id[i] = <<"instance", id[m][2]>>
    BY DEF ObjInv, InstancesOK
  <2> QED
    BY <1>1, <1>9, <1>10, <2>1, <2>2 DEF InstancesOK
<1>12. CountsOK'
  BY <1>1, <1>3 DEF ObjInv, CountsOK
<1>13. FreeingOK'
  BY <1>1 DEF FreeingOK, Elements
<1> QED
  BY <1>5, <1>6, <1>7, <1>11, <1>12, <1>13 DEF ObjInv

(* A step that changes nothing keeps the invariant. *)
LEMMA ObjStutter ==
  ASSUME ObjInv, UNCHANGED objectVars
  PROVE  ObjInv'
<1>1. /\ kind' = kind /\ id' = id /\ refcount' = refcount /\ parent' = parent
      /\ module' = module /\ net' = net /\ default_instance' = default_instance
      /\ refs' = refs /\ clearing' = clearing /\ freeing' = freeing /\ failed' = failed
  BY DEF objectVars, heapVars
<1>2. \A a : HoldersOf(a)' = HoldersOf(a) /\ (Live(a)' <=> Live(a))
  BY <1>1 DEF HoldersOf, Sound, Live
<1>3. HeapTypeOK' /\ ObjectsShaped'
  BY <1>1 DEF ObjInv, HeapTypeOK, ObjectsShaped, Live
<1>4. TablesOK'
  BY <1>1 DEF ObjInv, TablesOK, EntryOf, Live, Holds, Entries
<1>5. QueuesOK'
  BY <1>1 DEF ObjInv, QueuesOK, BackReferenceOf, Live
<1>6. InstancesOK'
  BY <1>1, <1>2 DEF ObjInv, InstancesOK
<1>7. CountsOK'
  BY <1>1, <1>2 DEF ObjInv, CountsOK
<1>8. FreeingOK'
  BY <1>1, <1>2 DEF ObjInv, FreeingOK, InSlot, Elements
<1> QED
  BY <1>3, <1>4, <1>5, <1>6, <1>7, <1>8 DEF ObjInv

(* The invariant holds of an empty database. *)
LEMMA ObjInit ==
  ASSUME ObjectInit
  PROVE  ObjInv
<1>1. /\ refs = {} /\ failed = {} /\ freeing = <<>> /\ ~ clearing
      /\ \A a \in Addr : /\ kind[a] = "free" /\ parent[a] = NULL /\ module[a] = NULL
                         /\ net[a] = NULL /\ default_instance[a] = NULL
  BY DEF ObjectInit
<1>2. HeapTypeOK
  <2>1. <<>> \in Ids
    BY DEF Ids
  <2>2. /\ clearing \in BOOLEAN /\ freeing \in Seq(Addr) /\ failed \subseteq Net
        /\ refs = {}
    <3>1. clearing = FALSE /\ freeing = <<>> /\ failed = {} /\ refs = {}
      BY DEF ObjectInit
    <3>2. <<>> \in Seq(Addr)
      OBVIOUS
    <3> QED
      BY <3>1, <3>2
  <2>3. /\ kind \in [Addr -> Kind \cup {"free"}] /\ id \in [Addr -> Ids]
        /\ refcount \in [Addr -> Nat] /\ parent \in [Addr -> Addr \cup {NULL}]
        /\ module \in [Addr -> Addr \cup {NULL}] /\ net \in [Addr -> Addr \cup {NULL}]
        /\ default_instance \in [Addr -> Addr \cup {NULL}]
    BY <2>1 DEF ObjectInit
  <2> QED
    BY <2>2, <2>3 DEF HeapTypeOK
<1>3. ObjectsShaped /\ TablesOK /\ QueuesOK
  BY <1>1 DEF ObjectsShaped, TablesOK, QueuesOK, Live
<1>4. InstancesOK /\ CountsOK /\ FreeingOK
  BY <1>1 DEF InstancesOK, CountsOK, FreeingOK, Live, Elements
<1> QED
  BY <1>2, <1>3, <1>4 DEF ObjInv

(* The inductive invariant holds in every state of every command and of    *)
(* every reset, for any heap and any names.                                *)
THEOREM ObjectInvariant == ObjectSpec => []ObjInv
<1>1. ASSUME ObjInv, [ObjectNext]_objectVars
      PROVE  ObjInv'
  <2>1. CASE Build
    BY <1>1, <2>1, CreateModuleStep, CreateResourceModuleStep, PlaceModuleStep,
       PlaceResourceStep, CreatePinStep, AddCodesectionStep, AddRegfileStep, AddEntryStep,
       AddRegisterStep, ConnectStep, ConnectFailsStep DEF Build
  <2>2. CASE Clear
    BY <1>1, <2>2, ResetStep, ClearEntryStep, ResetDoneStep, FreeChildStep, ReleaseStep DEF Clear
  <2>3. CASE UNCHANGED objectVars
    BY <1>1, <2>3, ObjStutter
  <2> QED
    BY <1>1, <2>1, <2>2, <2>3 DEF ObjectNext
<1> QED
  BY <1>1, ObjInit, PTL DEF ObjectSpec

-----------------------------------------------------------------------------
(* Counts are exact. *)
LEMMA CountsExact ==
  ASSUME ObjInv PROVE RefcountExact
BY DEF ObjInv, CountsOK, RefcountExact

(* Nothing dangles: the entries of failed nets apart, a reference is       *)
(* sound.                                                                  *)
LEMMA NoDangling ==
  ASSUME ObjInv PROVE NoDanglingReference
<1> SUFFICES ASSUME NEW r \in refs
             PROVE  \/ Sound(r)
                    \/ r.holder = DB /\ \E s \in failed : r.key \in {s, <<"net", s>>}
  BY DEF NoDanglingReference
<1>1. CASE r \in HoldersOf(r.obj)
  BY <1>1 DEF HoldersOf
<1>2. ASSUME NEW s \in failed, EntryOf(r, "net", <<"net", s>>)
      PROVE  r.holder = DB /\ r.key \in {s, <<"net", s>>}
  <2>1. <<"net", s>>[Len(<<"net", s>>)] = s /\ "net" \in Kind
    BY Kinds
  <2>2. r \in TableRefs("net", <<"net", s>>, r.obj)
    BY <1>2 DEF EntryOf
  <2> DEFINE i == <<"net", s>>
  <2>3. i[Len(i)] = s
    BY <2>1
  <2>4. r \in TableRefs("net", i, r.obj)
    BY <2>2
  <2> HIDE DEF i
  <2>5. r.holder = DB /\ r.key \in {i, s}
    BY <2>1, <2>3, <2>4, TableRef
  <2> QED
    BY <2>5 DEF i
<1> QED
  BY <1>1, <1>2, RefFacts

(* A default instance whose module still leads to it is that of a module.  *)
LEMMA DefaultHolder ==
  ASSUME ObjInv, NEW r \in refs, r.slot = "default_instance"
  PROVE  Orphan(r.obj) \/ Live(r.holder)
<1>1. r.holder # DB /\ r.holder \in Addr /\ r.obj \in Addr /\ r \in HoldersOf(r.obj)
  BY RefFacts DEF TableSlots
<1>2. BackReferenceOf(r)
  BY <1>1 DEF ObjInv, QueuesOK
<1>3. kind[r.obj] = "instance"
  BY <1>2, ParentQueues, Kinds DEF BackReferenceOf
<1>4. CASE default_instance[r.holder] = r.obj
  <2>1. kind[r.holder] = "module"
    BY <1>1, <1>4, HolderAssumption DEF ObjInv, InstancesOK
  <2> QED
    BY <2>1 DEF Live
<1> QED
  BY <1>1, <1>3, <1>4 DEF Orphan

(* The holder of a reference lives unless the object is an orphan. *)
LEMMA HolderLives ==
  ASSUME ObjInv, NEW r \in refs, r.holder # DB
  PROVE  Orphan(r.obj) \/ Live(r.holder)
BY DefaultHolder DEF ObjInv, QueuesOK

(* A back-reference is matched by a queue entry, whose holder lives. *)
LEMMA BackReferences ==
  ASSUME ObjInv PROVE BackReferencesLive
<1> SUFFICES ASSUME NEW a \in Addr, ~ Orphan(a), NEW b \in {parent[a], module[a], net[a]}, b # NULL
             PROVE  Live(b)
  BY DEF BackReferencesLive, BackReferenceLive
<1>1. b \in Addr /\ b # DB
  BY HolderAssumption DEF ObjInv, HeapTypeOK
<1>2. \E s : Ref(b, s, NULL, a) \in refs
  BY DEF ObjInv, QueuesOK
<1> QED
  BY <1>1, <1>2, HolderLives, RefFields

(* A queue holds what leads back to its owner, and nothing else. *)
LEMMA QueuesMatch ==
  ASSUME ObjInv PROVE QueuesMatchBackReferences
BY DEF ObjInv, QueuesOK, BackReferenceOf, QueuesMatchBackReferences

(* What is being freed lives and is there once; a module not being freed   *)
(* has its default instance.                                               *)
LEMMA FreedOnceInv ==
  ASSUME ObjInv PROVE FreedOnce
<1>1. \A k \in DOMAIN freeing : Live(freeing[k])
  BY DEF ObjInv, FreeingOK, Elements
<1>2. ASSUME NEW m \in Addr, kind[m] = "module", m \notin Elements(freeing)
      PROVE  kind[default_instance[m]] = "instance" /\ module[default_instance[m]] = m
  <2>1. PICK i \in Addr : i = default_instance[m]
    BY <1>2 DEF ObjInv, InstancesOK
  <2>2. \E s \in {"mod_instances", "default_instance"} : Ref(m, s, NULL, i) \in refs
    BY <1>2, <2>1 DEF ObjInv, InstancesOK
  <2>3. PICK r \in refs : r.holder = m /\ r.slot \in {"mod_instances", "default_instance"} /\ r.obj = i
    BY <2>2, RefFields
  <2>4. BackReferenceOf(r)
    BY <2>3, HolderAssumption DEF ObjInv, QueuesOK
  <2> QED
    BY <2>1, <2>3, <2>4, ParentQueues, Kinds DEF BackReferenceOf
<1> QED
  BY <1>1, <1>2 DEF ObjInv, FreeingOK, FreedOnce

(* Between commands each object that is no orphan is held by a table or by *)
(* an object that lives.                                                   *)
LEMMA NothingLeaks ==
  ASSUME ObjInv PROVE NothingLeaksButOrphans
<1> SUFFICES ASSUME Idle, NEW a \in Addr, Live(a), ~ Orphan(a)
             PROVE  \E r \in HoldersOf(a) : r.holder = DB \/ Live(r.holder)
  BY DEF NothingLeaksButOrphans
<1>1. PICK r \in HoldersOf(a) : r \in refs /\ r.obj = a
  BY HeldWhenIdle DEF Idle
<1> QED
  BY <1>1, HolderLives

(* Reference counts are exact: ig_obj_ref and ig_obj_unref have been       *)
(* called once per table entry, queue entry and default_instance pointer   *)
(* that leads to the object, in every state of every command and of every  *)
(* reset, for any number of objects.                                       *)
THEOREM ObjectRefcountsExact == ObjectSpec => []RefcountExact
BY ObjectInvariant, CountsExact, PTL

(* No table and no queue leads to freed memory or to an object of another  *)
(* Object-ID, but for the entries of a net whose connect failed.           *)
THEOREM ObjectNoneDangling == ObjectSpec => []NoDanglingReference
BY ObjectInvariant, NoDangling, PTL

(* The pointers that code follows upwards -- a pin's instance, an          *)
(* instance's module and parent, a pin's net -- always lead to objects     *)
(* that are still allocated, during a reset too.                           *)
THEOREM ObjectBackReferencesLive == ObjectSpec => []BackReferencesLive
BY ObjectInvariant, BackReferences, PTL

(* The parent, net and module pointers of an object agree with the queues  *)
(* that hold it in every state of every command and reset.                 *)
THEOREM ObjectQueuesMatch == ObjectSpec => []QueuesMatchBackReferences
BY ObjectInvariant, QueuesMatch, PTL

(* No free function is entered twice for an object, and ig_module_free     *)
(* always finds the default instance it reads: the reset's order of tables *)
(* and queues does not matter.                                             *)
THEOREM ObjectsFreedOnce == ObjectSpec => []FreedOnce
BY ObjectInvariant, FreedOnceInv, PTL

(* Whatever sequence of commands and resets is run, memory that nothing    *)
(* leads to belongs to default instances of modules that were never        *)
(* placed.                                                                 *)
THEOREM ObjectOnlyOrphansLeak == ObjectSpec => []NothingLeaksButOrphans
BY ObjectInvariant, NothingLeaks, PTL
=============================================================================
