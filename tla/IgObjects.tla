------------------------------ MODULE IgObjects ------------------------------
(***************************************************************************)
(* The lifetime of the objects of the icglue database: how the commands    *)
(* allocate them, which tables and queues hold a counted reference to them *)
(* (lib/ig_data.c, lib/ig_lib.c, the commands of lib/ig_tcl.c), and the    *)
(* cascade of unreferences by which reset frees them.                      *)
(*                                                                         *)
(* A counted reference is a record of the set refs: who holds it (the      *)
(* database or an object), in which table or queue, under which key.       *)
(* Addresses are reused, lowest first: nothing compares them otherwise.    *)
(*                                                                         *)
(* Parameters, adjustments and generics are kept by the same code as       *)
(* ports, pins and nets under other names and are not repeated here.       *)
(***************************************************************************)
EXTENDS IgNull, Naturals, Sequences, FiniteSets

CONSTANTS Addr,      \* heap addresses: a set of numbers
          ModName,   \* names of modules and instances
          Local,     \* names of ports, pins and declarations
          Code,      \* names of codesections
          Reg,       \* names of regfiles, their entries and registers
          Net,       \* names of signals
          DB         \* the database, as a holder of references

ASSUME AddrAssumption == Addr \subseteq Nat /\ IsFiniteSet(Addr)
ASSUME HolderAssumption == {DB, NULL} \cap Addr = {} /\ DB # NULL
ASSUME ModNameAssumption == NULL \notin ModName

VARIABLES
  kind,              \* type of the object at an address, or "free"
  id,                \* its Object-ID
  refcount,          \* its reference count
  parent,            \* back-reference to the object around it
  module,            \* instances: back-reference to the module
  net,               \* ports, pins, declarations: back-reference to the net
  default_instance,  \* generated modules: the default instance
  refs,              \* the counted references
  clearing,          \* reset is emptying the tables
  freeing,           \* the objects being freed, innermost first
  failed             \* signals whose command connect failed half way

heapVars == <<kind, id, refcount, parent, module, net, default_instance>>
objectVars == <<heapVars, refs, clearing, freeing, failed>>

-----------------------------------------------------------------------------
(* Object types and the queues freed with them, in the order of the free   *)
(* functions of ig_data.c.                                                 *)
Queues ==
  [module      |-> <<"ports", "mod_instances", "decls", "code",
                     "child_instances", "regfiles">>,
   resource    |-> <<"ports", "mod_instances">>,
   instance    |-> <<"pins">>,
   regfile     |-> <<"entries">>,
   entry       |-> <<"regs">>,
   net         |-> <<"objects">>,
   port        |-> <<>>,
   pin         |-> <<>>,
   declaration |-> <<>>,
   codesection |-> <<>>,
   register    |-> <<>>]

Kind == DOMAIN Queues

(* The queue of its parent that an object is pushed to. *)
ParentQueue ==
  [port |-> "ports", pin |-> "pins", declaration |-> "decls",
   codesection |-> "code", regfile |-> "regfiles", entry |-> "entries",
   register |-> "regs", instance |-> "child_instances"]

(* ig_lib_db_clear: the tables in the order they are emptied. *)
TableOrder ==
  <<"modules_by_id", "modules_by_name", "instances_by_id", "instances_by_name",
    "regfiles_by_id", "regfiles_by_name", "nets_by_id", "nets_by_name",
    "objects_by_id">>

Ref(holder, slot, key, obj) ==
  [holder |-> holder, slot |-> slot, key |-> key, obj |-> obj]

(* The table entries an object of kind k is given. *)
TableRefs(k, i, a) ==
  LET name == i[Len(i)]
      own(byId, byName) == {Ref(DB, byId, i, a), Ref(DB, byName, name, a)}
  IN  {Ref(DB, "objects_by_id", i, a)} \cup
      CASE k \in {"module", "resource"} -> own("modules_by_id", "modules_by_name")
        [] k = "instance"               -> own("instances_by_id", "instances_by_name")
        [] k = "regfile"                -> own("regfiles_by_id", "regfiles_by_name")
        [] k = "net"                    -> own("nets_by_id", "nets_by_name")
        [] OTHER                        -> {}

(* Fault: a net is counted once too often. *)
RefsTaken_NetOnceMore ==
  [module |-> 3, resource |-> 3, instance |-> 5, regfile |-> 4, net |-> 4,
   entry |-> 2, register |-> 2, port |-> 2, pin |-> 2, declaration |-> 2,
   codesection |-> 2]

(* The calls of ig_obj_ref that the functions adding an object make. *)
RefsTaken ==
  [module |-> 3, resource |-> 3, instance |-> 5, regfile |-> 4, net |-> 3,
   entry |-> 2, register |-> 2, port |-> 2, pin |-> 2, declaration |-> 2,
   codesection |-> 2]

-----------------------------------------------------------------------------
(* g_hash_table_lookup *)
Entries(table, key) == {r \in refs : r.holder = DB /\ r.slot = table /\ r.key = key}
Holds(table, key)   == Entries(table, key) # {}
Found(table, a)     == \E r \in refs : r.holder = DB /\ r.slot = table /\ r.obj = a

InSlot(o, slot) == {r.obj : r \in {s \in refs : s.holder = o /\ s.slot = slot}}
Elements(seq)   == {seq[k] : k \in DOMAIN seq}

(* ig_obj_init: the Object-ID is made of the type and of the names in the  *)
(* list of parents; a pin's list has its instance only.                    *)
ObjectId(k, o, n) == IF k = "pin" THEN <<k, id[o][Len(id[o])], n>>
                                  ELSE <<k>> \o Tail(id[o]) \o <<n>>

(* A new object: type, Object-ID, parent, references taken. *)
Object(k, i, o, n) == [kind |-> k, id |-> i, parent |-> o, taken |-> n]
Item(k, o, n)      == Object(k, ObjectId(k, o, n), o, RefsTaken[k])
Exists(x)          == Holds("objects_by_id", x.id)

FreeAddr == {a \in Addr : kind[a] = "free"}

Rank == [module |-> 1, resource |-> 1, instance |-> 2, declaration |-> 3, pin |-> 4,
         port |-> 5, net |-> 6, codesection |-> 7, regfile |-> 7, entry |-> 7,
         register |-> 7]

(* Where the allocator puts a set of new objects, one of a kind. *)
Placements(S) ==
  LET lowest == {a \in FreeAddr :
                   Cardinality({b \in FreeAddr : b < a}) < Cardinality(S)}
  IN  {at \in [lowest -> S] :
         /\ \A x \in S : \E a \in lowest : at[a] = x
         /\ \A a, b \in lowest : a < b => Rank[at[a].kind] < Rank[at[b].kind]}

(* The fields a new object is initialised with. *)
Allocate(at) ==
  /\ kind'     = [a \in Addr |-> IF a \in DOMAIN at THEN at[a].kind   ELSE kind[a]]
  /\ id'       = [a \in Addr |-> IF a \in DOMAIN at THEN at[a].id     ELSE id[a]]
  /\ parent'   = [a \in Addr |-> IF a \in DOMAIN at THEN at[a].parent ELSE parent[a]]
  /\ refcount' = [a \in Addr |-> IF a \in DOMAIN at THEN at[a].taken  ELSE refcount[a]]

(* The table entries and the queue places of new objects with a parent. *)
NewTableRefs(at) == UNION {TableRefs(at[a].kind, at[a].id, a) : a \in DOMAIN at}
NewQueueRefs(at) == {Ref(at[a].parent, ParentQueue[at[a].kind], NULL, a) : a \in DOMAIN at}

Idle == ~ clearing /\ freeing = <<>>

ObjectInit ==
  /\ kind = [a \in Addr |-> "free"]
  /\ id = [a \in Addr |-> <<>>]
  /\ refcount = [a \in Addr |-> 0]
  /\ parent = [a \in Addr |-> NULL]
  /\ module = [a \in Addr |-> NULL]
  /\ net = [a \in Addr |-> NULL]
  /\ default_instance = [a \in Addr |-> NULL]
  /\ refs = {}
  /\ clearing = FALSE
  /\ freeing = <<>>
  /\ failed = {}

-----------------------------------------------------------------------------
(* ig_lib_add_module of a resource module *)
CreateResourceModule(n) ==
  /\ Idle
  /\ ~ Holds("modules_by_name", n)
  /\ \E at \in Placements({Object("resource", <<"module", n>>, NULL, RefsTaken.resource)}) :
       /\ Allocate(at)
       /\ refs' = refs \cup NewTableRefs(at)
  /\ UNCHANGED <<module, net, default_instance, clearing, freeing, failed>>

(* ig_lib_add_module of a generated module: ig_module_new also makes the   *)
(* default instance and takes one reference to it.                         *)
CreateModule(n) ==
  /\ Idle
  /\ ~ Holds("modules_by_name", n)
  /\ LET m == Object("module", <<"module", n>>, NULL, RefsTaken.module)
         i == Object("instance", <<"instance", n>>, NULL, 1)
     IN  \E at \in Placements({m, i}), ma, ia \in FreeAddr :
           /\ {ma, ia} \subseteq DOMAIN at /\ at[ma] = m /\ at[ia] = i
           /\ Allocate(at)
           /\ module' = [module EXCEPT ![ia] = ma]
           /\ default_instance' = [default_instance EXCEPT ![ma] = ia]
           /\ refs' = refs \cup TableRefs("module", m.id, ma)
                          \cup {Ref(ma, "default_instance", NULL, ia)}
  /\ UNCHANGED <<net, clearing, freeing, failed>>

(* Fault: the climb stops at once. *)
Above_ItselfOnly(m) == {m}

(* ig_lib_check_cycle, on the heap: the modules met climbing from m; one   *)
(* without parent among them is the root (IgHierarchyProofs!OneRoot).      *)
Above(m) ==
  LET mods == {a \in Addr : kind[a] = "module"}
  IN  {x \in mods : \A S \in SUBSET mods :
         /\ m \in S
         /\ \A y \in S : parent[default_instance[y]] \in S \cup {NULL}
         => x \in S}

(* Fault: the default instance is counted for each queue. *)
PlacingTakes_BothQueues == 2 + 3

(* The default instance is pushed to two queues but only one reference is  *)
(* taken for them: that of ig_module_new now stands for the other.         *)
PlacingTakes == 1 + 3

(* ig_lib_add_instance of a generated module *)
PlaceModule(t, p) ==
  /\ Idle
  /\ Found("modules_by_id", t) /\ kind[t] = "module"
  /\ Found("modules_by_id", p) /\ kind[p] = "module"
  /\ LET i == default_instance[t]
     IN  /\ ~ Holds("instances_by_name", id[t][2])
         /\ parent[i] = NULL
         /\ t \notin Above(p)
         /\ parent' = [parent EXCEPT ![i] = p]
         /\ refcount' = [refcount EXCEPT ![i] = @ + PlacingTakes]
         /\ refs' = (refs \ {Ref(t, "default_instance", NULL, i)})
                    \cup {Ref(p, "child_instances", NULL, i),
                          Ref(t, "mod_instances", NULL, i)}
                    \cup TableRefs("instance", id[i], i)
  /\ UNCHANGED <<kind, id, module, net, default_instance, clearing, freeing, failed>>

(* ig_lib_add_instance of a resource module *)
PlaceResource(n, t, p) ==
  /\ Idle
  /\ Found("modules_by_id", t) /\ kind[t] = "resource"
  /\ Found("modules_by_id", p) /\ kind[p] = "module"
  /\ ~ Holds("instances_by_name", n)
  /\ \E at \in Placements({Object("instance", <<"instance", id[p][2], n>>, p, RefsTaken.instance)}) :
       \E i \in DOMAIN at :
         /\ Allocate(at)
         /\ module' = [module EXCEPT ![i] = t]
         /\ refs' = refs \cup NewTableRefs(at) \cup NewQueueRefs(at)
                        \cup {Ref(t, "mod_instances", NULL, i)}
  /\ UNCHANGED <<net, default_instance, clearing, freeing, failed>>

(* ig_lib_add_port, ig_lib_add_pin, ig_lib_add_regfile_entry,              *)
(* ig_lib_add_regfile_reg: the objects of S are new children.              *)
AddItems(S) ==
  /\ \E at \in Placements(S) :
       /\ Allocate(at)
       /\ refs' = refs \cup NewTableRefs(at) \cup NewQueueRefs(at)
  /\ UNCHANGED <<module, net, default_instance, clearing, freeing, failed>>

(* The command create_pin adds the pin before it tries to add the port of  *)
(* a generated module: when that exists, the command fails and the pin     *)
(* stays.                                                                  *)
CreatePin(i, n) ==
  /\ Idle
  /\ Found("instances_by_name", i)
  /\ LET pin  == Item("pin", i, n)
         port == Item("port", module[i], n)
     IN  /\ ~ Exists(pin)
         /\ AddItems(IF kind[module[i]] = "module" /\ ~ Exists(port)
                     THEN {pin, port} ELSE {pin})

(* ig_lib_add_regfile *)
AddRegfile(m, n) ==
  /\ Idle
  /\ Found("modules_by_id", m) /\ kind[m] = "module"
  /\ ~ Holds("regfiles_by_name", n)
  /\ AddItems({Item("regfile", m, n)})

AddEntry(rf, n) ==
  /\ Idle
  /\ Found("regfiles_by_id", rf)
  /\ ~ Exists(Item("entry", rf, n))
  /\ AddItems({Item("entry", rf, n)})

AddRegister(e, n) ==
  /\ Idle
  /\ Found("objects_by_id", e) /\ kind[e] = "entry"
  /\ ~ Exists(Item("register", e, n))
  /\ AddItems({Item("register", e, n)})

(* Fault: the object is freed with one reference left. *)
Unref_OneLeft(r) ==
  /\ refcount' = [refcount EXCEPT ![r.obj] = @ - 1]
  /\ freeing' = IF refcount[r.obj] <= 2 THEN <<r.obj>> \o freeing ELSE freeing

(* ig_obj_unref: the reference r goes away and with the last one the       *)
(* object; fields are changed by the caller.                               *)
Unref(r) ==
  /\ refcount' = [refcount EXCEPT ![r.obj] = @ - 1]
  /\ freeing' = IF refcount[r.obj] <= 1
                THEN <<r.obj>> \o freeing ELSE freeing

(* ig_lib_add_codesection asks no table: an entry of the same Object-ID is *)
(* replaced, and the old codesection loses a reference.                    *)
AddCodesection(m, n) ==
  /\ Idle
  /\ Found("modules_by_id", m) /\ kind[m] = "module"
  /\ LET x   == Item("codesection", m, n)
         old == Entries("objects_by_id", x.id)
     IN  \E at \in Placements({x}) :
           /\ kind'   = [a \in Addr |-> IF a \in DOMAIN at THEN x.kind   ELSE kind[a]]
           /\ id'     = [a \in Addr |-> IF a \in DOMAIN at THEN x.id     ELSE id[a]]
           /\ parent' = [a \in Addr |-> IF a \in DOMAIN at THEN x.parent ELSE parent[a]]
           /\ refcount' = [a \in Addr |->
                IF a \in DOMAIN at THEN x.taken
                ELSE IF \E r \in old : r.obj = a THEN refcount[a] - 1 ELSE refcount[a]]
           /\ freeing' = IF \E r \in old : refcount[r.obj] <= 1
                         THEN <<(CHOOSE r \in old : TRUE).obj>>
                         ELSE freeing
           /\ refs' = (refs \ old) \cup NewTableRefs(at) \cup NewQueueRefs(at)
  /\ UNCHANGED <<module, net, default_instance, clearing, failed>>

-----------------------------------------------------------------------------
(* ig_lib_connection from module p to its instance i: a declaration, a pin *)
(* and, in a generated module, a port.  (IgConnection has the names and    *)
(* the shape of the tree; a larger tree makes more objects of these kinds.)*)
Points(p, i, n) ==
  {Item("declaration", p, n), Item("pin", i, n)} \cup
  (IF kind[module[i]] = "module" THEN {Item("port", module[i], n)} ELSE {})

NetObject(s) == Object("net", <<"net", s>>, NULL, RefsTaken.net)

(* ig_lib_add_net: the net takes one more reference to each of its objects. *)
Connect(s, p, i, n) ==
  /\ Idle
  /\ Found("instances_by_name", i) /\ parent[i] = p
  /\ ~ Holds("nets_by_name", s)
  /\ \A x \in Points(p, i, n) : ~ Exists(x)
  /\ LET points == {[x EXCEPT !.taken = @ + 1] : x \in Points(p, i, n)}
     IN  \E at \in Placements(points \cup {NetObject(s)}) :
         \E o \in DOMAIN at :
           LET items == DOMAIN at \ {o}
               at_i  == [a \in items |-> at[a]]
           IN  /\ at[o].kind = "net"
               /\ Allocate(at)
               /\ net' = [a \in Addr |-> IF a \in items THEN o ELSE net[a]]
               /\ refs' = refs \cup NewTableRefs(at) \cup NewQueueRefs(at_i)
                              \cup {Ref(o, "objects", NULL, a) : a \in items}
  /\ UNCHANGED <<module, default_instance, clearing, freeing, failed>>

(* Fault: the objects the command made are freed like the net. *)
FreedOnFailure_All(o, made) == <<o>> \o CHOOSE q \in [1 .. Cardinality(made) -> made] :
                                           Elements(q) = made

(* What the command connect frees when the library has failed. *)
FreedOnFailure(o, made) == <<o>>

(* The command connect when a point exists already: the other points are   *)
(* made, the net is entered in the tables without objects, and the command *)
(* frees it.                                                               *)
ConnectFails(s, p, i, n) ==
  /\ Idle
  /\ Found("instances_by_name", i) /\ parent[i] = p
  /\ ~ Holds("nets_by_name", s)
  /\ \E x \in Points(p, i, n) : Exists(x)
  /\ LET made == {x \in Points(p, i, n) : ~ Exists(x)}
     IN  \E at \in Placements(made \cup {NetObject(s)}) :
         \E o \in DOMAIN at :
           LET at_i == [a \in DOMAIN at \ {o} |-> at[a]]
           IN  /\ at[o].kind = "net"
               /\ Allocate(at)
               /\ refs' = refs \cup NewTableRefs(at) \cup NewQueueRefs(at_i)
               /\ freeing' = FreedOnFailure(o, DOMAIN at_i)
  /\ failed' = failed \cup {s}
  /\ UNCHANGED <<module, net, default_instance, clearing>>

-----------------------------------------------------------------------------
(* The command reset: ig_lib_db_clear empties table after table.  After a  *)
(* connect that failed it would unreference the net that is gone, which    *)
(* the language leaves undefined.                                          *)
ResetBegins ==
  /\ Idle
  /\ failed = {}
  /\ clearing' = TRUE
  /\ UNCHANGED <<heapVars, refs, freeing, failed>>

(* The first of a list of tables or queues that o still holds objects in. *)
FirstFilled(o, slots) ==
  slots[CHOOSE k \in DOMAIN slots :
          /\ InSlot(o, slots[k]) # {}
          /\ \A j \in 1 .. k - 1 : InSlot(o, slots[j]) = {}]

(* g_hash_table_remove_all unreferences the objects of a table, in an      *)
(* order of its own.                                                       *)
ClearEntry ==
  /\ clearing /\ freeing = <<>>
  /\ \E t \in Elements(TableOrder) : InSlot(DB, t) # {}
  /\ \E r \in refs :
       /\ r.holder = DB /\ r.slot = FirstFilled(DB, TableOrder)
       /\ refs' = refs \ {r}
       /\ Unref(r)
  /\ UNCHANGED <<kind, id, parent, module, net, default_instance, clearing, failed>>

ResetDone ==
  /\ clearing /\ freeing = <<>>
  /\ \A t \in Elements(TableOrder) : InSlot(DB, t) = {}
  /\ clearing' = FALSE
  /\ UNCHANGED <<heapVars, refs, freeing, failed>>

(* Fault: back-references are left alone. *)
Cut_Never(f, c, o) == f

(* A back-reference of c is taken away when it leads to o. *)
Cut(f, c, o) == IF f[c] = o THEN [f EXCEPT ![c] = NULL] ELSE f

(* A free function: the queues of the object are emptied one after the     *)
(* other.  The back-reference that belongs to a queue is taken from the    *)
(* child when it points here, then the child is unreferenced.              *)
FreeChild ==
  /\ freeing # <<>>
  /\ LET o == freeing[1]
         queues == Queues[kind[o]]
     IN  /\ \E q \in Elements(queues) : InSlot(o, q) # {}
         /\ \E r \in refs :
              LET c == r.obj
                  queue == FirstFilled(o, queues)
              IN  /\ r.holder = o /\ r.slot = queue
                  /\ module' = IF queue = "mod_instances" THEN Cut(module, c, o) ELSE module
                  /\ net' = IF queue = "objects" THEN Cut(net, c, o) ELSE net
                  /\ parent' = IF queue \in {"mod_instances", "objects"}
                               THEN parent ELSE Cut(parent, c, o)
                  /\ refs' = refs \ {r}
                  /\ Unref(r)
  /\ UNCHANGED <<kind, id, default_instance, clearing, failed>>

(* The end of a free function: g_queue_free, g_slice_free. *)
Release ==
  /\ freeing # <<>>
  /\ LET o == freeing[1]
     IN  /\ \A q \in Elements(Queues[kind[o]]) : InSlot(o, q) = {}
         /\ kind' = [kind EXCEPT ![o] = "free"]
         /\ id' = [id EXCEPT ![o] = <<>>]
         /\ refcount' = [refcount EXCEPT ![o] = 0]
         /\ parent' = [parent EXCEPT ![o] = NULL]
         /\ module' = [module EXCEPT ![o] = NULL]
         /\ net' = [net EXCEPT ![o] = NULL]
         /\ default_instance' = [default_instance EXCEPT ![o] = NULL]
         /\ freeing' = Tail(freeing)
  /\ UNCHANGED <<refs, clearing, failed>>

Build ==
  \/ \E n \in ModName : CreateModule(n) \/ CreateResourceModule(n)
  \/ \E t, p \in Addr : PlaceModule(t, p)
  \/ \E n \in ModName, t, p \in Addr : PlaceResource(n, t, p)
  \/ \E i \in Addr, n \in Local : CreatePin(i, n)
  \/ \E m \in Addr, n \in Code : AddCodesection(m, n)
  \/ \E o \in Addr, n \in Reg : AddRegfile(o, n) \/ AddEntry(o, n) \/ AddRegister(o, n)
  \/ \E s \in Net, p, i \in Addr, n \in Local :
        Connect(s, p, i, n) \/ ConnectFails(s, p, i, n)

Clear == ResetBegins \/ ClearEntry \/ ResetDone \/ FreeChild \/ Release

ObjectNext == Build \/ Clear
ObjectSpec == ObjectInit /\ [][ObjectNext]_objectVars

-----------------------------------------------------------------------------
Live(a) == kind[a] # "free"

(* What a table entry leads to is an object that is given such an entry. *)
Sound(r) ==
  /\ Live(r.obj)
  /\ r.holder = DB => r \in TableRefs(kind[r.obj], id[r.obj], r.obj)

HoldersOf(a) == {r \in refs : r.obj = a /\ Sound(r)}

(* A default instance that was never placed and whose module is gone: the  *)
(* reference of ig_module_new is only ever dropped through mod_instances.  *)
Orphan(a) == /\ kind[a] = "instance"
             /\ \E r \in HoldersOf(a) : r.slot = "default_instance"
                                      /\ default_instance[r.holder] # a

(* Object-IDs. *)
Ids == Seq(Kind \cup ModName \cup Local \cup Code \cup Reg \cup Net)

(* The count kept in an object is the number of tables and queues that     *)
(* hold it: the commands take, and reset drops, as many references as they *)
(* make or remove holders, the default instance's missing one included.    *)
RefcountExact ==
  \A a \in Addr : Live(a) => refcount[a] = Cardinality(HoldersOf(a))

(* No table and no queue refers to freed memory or to another object that  *)
(* is there now, in every state and in every step of a reset, whatever the *)
(* order of the hash tables.  Only when a command connect fails does       *)
(* ig_tclc_connect free a net that the tables hold: the entries of that    *)
(* net, and no others, go stale.                                           *)
NoDanglingReference ==
  \A r \in refs : \/ Sound(r)
                  \/ r.holder = DB /\ \E s \in failed : r.key \in {s, <<"net", s>>}

(* Back-references do not count, so they have to be cut: apart from those  *)
(* of an orphan none leads to freed memory.                                *)
BackReferenceLive(a) ==
  Live(a) => \A b \in {parent[a], module[a], net[a]} : b # NULL => Live(b)

BackReferencesLive == \A a \in Addr : Orphan(a) \/ BackReferenceLive(a)

(* An object is in a queue of another one exactly while its back-reference *)
(* leads there, also half way through a free function and after a command  *)
(* connect that failed.                                                    *)
QueuesMatchBackReferences ==
  /\ \A r \in refs :
       \/ r.holder = DB \/ r.slot = "default_instance"
       \/ r.slot = "mod_instances" /\ module[r.obj] = r.holder
       \/ r.slot = "objects"       /\ net[r.obj] = r.holder
       \/ r.slot = ParentQueue[kind[r.obj]] /\ parent[r.obj] = r.holder
  /\ \A a \in Addr :
       /\ net[a] # NULL    => Ref(net[a], "objects", NULL, a) \in refs
       /\ parent[a] # NULL => Ref(parent[a], ParentQueue[kind[a]], NULL, a) \in refs

(* The free functions call each other through ig_obj_unref: none is        *)
(* entered for an object that is being freed already, and ig_module_free   *)
(* reads its default instance, which is there until then.                  *)
FreedOnce ==
  /\ \A j, k \in DOMAIN freeing : freeing[j] = freeing[k] => j = k
  /\ \A k \in DOMAIN freeing : Live(freeing[k])
  /\ \A m \in Addr :
       /\ kind[m] = "module" /\ m \notin Elements(freeing)
       => /\ kind[default_instance[m]] = "instance"
          /\ module[default_instance[m]] = m

(* Between commands every object can be reached from the tables by its     *)
(* holders, or is an orphan; after a reset nothing but orphans is left.    *)
NothingLeaksButOrphans ==
  Idle => \A a \in Addr : Live(a) =>
            \/ Orphan(a)
            \/ \E r \in HoldersOf(a) : r.holder = DB \/ Live(r.holder)

NameOf(a) == id[a][2]
AddrOf(n) == CHOOSE a \in Addr : kind[a] = "module" /\ NameOf(a) = n
                                 /\ Found("modules_by_id", a)

(* The names under which the tables hold generated modules. *)
Nodes == IF clearing THEN {}
         ELSE {NameOf(r.obj) : r \in {s \in refs : s.holder = DB /\ s.slot = "modules_by_name"
                                                  /\ kind[s.obj] = "module"}}

(* The name of the module that the default instance of module n is in. *)
PlacedIn == [n \in ModName |->
  LET i == default_instance[AddrOf(n)]
  IN  IF n \in Nodes /\ parent[i] # NULL THEN NameOf(parent[i]) ELSE NULL]

HeapForest == INSTANCE IgDesignForest WITH
  Name <- ModName, node <- Nodes, up <- PlacedIn

(* The hierarchy seen through the tables implements the forest; a reset    *)
(* takes effect when it begins, as nothing runs before it ends.            *)
HeapImplementsForest == HeapForest!ForestSpec

-----------------------------------------------------------------------------
(* ig_lib.h: the tables map names and Object-IDs "to net object".          *)
NetTablesHoldNets ==
  \A r \in refs : r.slot \in {"nets_by_name", "nets_by_id"} => kind[r.obj] = "net"
=============================================================================
