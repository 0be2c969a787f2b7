---------------------------- MODULE IgObjectsInv ----------------------------
(***************************************************************************)
(* What holds of the objects in every state of every command and of every  *)
(* reset, strong enough to be kept by each of their steps.                 *)
(***************************************************************************)
EXTENDS IgObjects

(* The type that an Object-ID starts with. *)
Tag(k) == IF k = "resource" THEN "module" ELSE k

(* An Object-ID of an object of kind k. *)
Shaped(k, i) ==
  /\ i \in Ids /\ i # <<>> /\ i[1] = Tag(k)
  /\ k \in {"module", "resource", "net"} => Len(i) = 2
  /\ k \in {"module", "resource"} => i[2] \in ModName

(* Types of the heap. *)
HeapTypeOK ==
  /\ kind \in [Addr -> Kind \cup {"free"}]
  /\ id \in [Addr -> Ids]
  /\ refcount \in [Addr -> Nat]
  /\ parent \in [Addr -> Addr \cup {NULL}]
  /\ module \in [Addr -> Addr \cup {NULL}]
  /\ net \in [Addr -> Addr \cup {NULL}]
  /\ default_instance \in [Addr -> Addr \cup {NULL}]
  /\ \A r \in refs : /\ r = Ref(r.holder, r.slot, r.key, r.obj)
                     /\ r.holder \in Addr \cup {DB} /\ r.obj \in Addr
  /\ clearing \in BOOLEAN
  /\ freeing \in Seq(Addr)
  /\ failed \subseteq Net

(* Object-IDs fit the types; nothing leads from freed memory. *)
ObjectsShaped ==
  \A a \in Addr :
    /\ Live(a) => Shaped(kind[a], id[a])
    /\ ~ Live(a) => /\ parent[a] = NULL /\ module[a] = NULL
                    /\ net[a] = NULL /\ default_instance[a] = NULL

(* One of the table entries of an Object-ID; between resets all are there. *)
EntryOf(r, k, i) ==
  r \in TableRefs(k, i, r.obj) /\ (~ clearing => TableRefs(k, i, r.obj) \subseteq refs)

(* A table leads to an object that is given that entry, or to where a net  *)
(* was whose connect failed: its entries block its name until a reset.     *)
TablesOK ==
  /\ \A r \in refs : r.holder = DB =>
       \/ Live(r.obj) /\ EntryOf(r, kind[r.obj], id[r.obj])
       \/ \E s \in failed : EntryOf(r, "net", <<"net", s>>)
  /\ \A q, r \in refs :
       q.holder = DB /\ r.holder = DB /\ q.slot = r.slot /\ q.key = r.key => q.obj = r.obj
  /\ \A s \in failed : Holds("nets_by_name", s)
  /\ clearing => failed = {}

(* The back-reference that belongs to a place in a queue. *)
BackReferenceOf(r) ==
  \/ /\ r.slot = "default_instance" /\ kind[r.obj] = "instance"
     /\ module[r.obj] = r.holder /\ parent[r.obj] = NULL
  \/ r.slot = "mod_instances" /\ kind[r.obj] = "instance" /\ module[r.obj] = r.holder
  \/ r.slot = "objects" /\ kind[r.obj] \in {"port", "pin", "declaration"} /\ net[r.obj] = r.holder
  \/ /\ kind[r.obj] \in DOMAIN ParentQueue
     /\ r.slot = ParentQueue[kind[r.obj]] /\ parent[r.obj] = r.holder

(* Queues and back-references are in step, and the owner of a queue lives; *)
(* only default_instance pointers outlive their holder, those to orphans.   *)
QueuesOK ==
  /\ \A r \in refs : r.holder # DB =>
       /\ r.key = NULL /\ Live(r.obj) /\ BackReferenceOf(r)
       /\ r.slot # "default_instance" =>
            Live(r.holder) /\ r.slot \in Elements(Queues[kind[r.holder]])
  /\ \A a \in Addr :
       /\ parent[a] # NULL => Ref(parent[a], ParentQueue[kind[a]], NULL, a) \in refs
       /\ net[a] # NULL    => Ref(net[a], "objects", NULL, a) \in refs
       /\ module[a] # NULL => \/ Ref(module[a], "mod_instances", NULL, a) \in refs
                              \/ Ref(module[a], "default_instance", NULL, a) \in refs

(* A default instance that was not placed has its module as only holder,   *)
(* and a module has its default instance until it is being freed.          *)
InstancesOK ==
  /\ \A r \in refs : r.slot = "default_instance" => HoldersOf(r.obj) = {r}
  /\ \A r \in refs : r.slot = "mod_instances" /\ ~ clearing => parent[r.obj] # NULL
  /\ \A a \in Addr : kind[a] = "instance" /\ ~ clearing => module[a] # NULL
  /\ \A m \in Addr : default_instance[m] # NULL => kind[m] = "module"
  /\ \A m \in Addr : kind[m] = "module" /\ m \notin Elements(freeing) =>
       LET i == default_instance[m]
       IN  /\ i \in Addr
           /\ \/ Ref(m, "mod_instances", NULL, i) \in refs
              \/ Ref(m, "default_instance", NULL, i) \in refs
           /\ id[i] = <<"instance", id[m][2]>>

(* Counts are exact, and what nobody holds is being freed. *)
CountsOK ==
  \A a \in Addr : Live(a) =>
    /\ IsFiniteSet(HoldersOf(a))
    /\ refcount[a] = Cardinality(HoldersOf(a))
    /\ HoldersOf(a) = {} => a \in Elements(freeing)

(* Being freed are objects that live, each once, that nobody holds, or the *)
(* net of a failed connect; commands free one object, which holds nothing. *)
FreeingOK ==
  /\ \A j, k \in DOMAIN freeing : freeing[j] = freeing[k] => j = k
  /\ \A a \in Elements(freeing) :
       /\ Live(a)
       /\ \/ HoldersOf(a) = {}
          \/ kind[a] = "net" /\ ~ clearing /\ \E s \in failed : id[a] = <<"net", s>>
  /\ ~ clearing => \/ freeing = <<>>
                   \/ /\ Len(freeing) = 1
                      /\ kind[freeing[1]] \in {"net", "codesection"}
                      /\ InSlot(freeing[1], "objects") = {}

(* Types, tables, queues, counts and the objects being freed fit each      *)
(* other between any two calls that the commands and the reset make.       *)
ObjInv ==
  /\ HeapTypeOK /\ ObjectsShaped /\ TablesOK /\ QueuesOK
  /\ InstancesOK /\ CountsOK /\ FreeingOK

(* What a script meets: all but the default instances that were not placed. *)
Present(a) == Live(a) /\ ~ (kind[a] = "instance" /\ parent[a] = NULL)

(* An object is in all of its tables and in the queue of its parent; a     *)
(* codesection that was replaced has left its entry to another one.        *)
Registered(a) ==
  /\ kind[a] \in DOMAIN ParentQueue => parent[a] # NULL
  /\ \/ TableRefs(kind[a], id[a], a) \subseteq refs
     \/ kind[a] = "codesection" /\ Holds("objects_by_id", id[a])

(* Between resets what a script meets is registered; what was not placed   *)
(* has no pins, so that an instance with pins is one that it meets.        *)
PlacesOK ==
  /\ ~ clearing => \A a \in Addr : Present(a) => Registered(a)
  /\ \A r \in refs : r.slot = "default_instance" => InSlot(r.obj, "pins") = {}

(* The objects, and how scripts reach them. *)
DatabaseInv == ObjInv /\ PlacesOK
=============================================================================
