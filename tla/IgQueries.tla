----------------------------- MODULE IgQueries -----------------------------
(***************************************************************************)
(* The commands that list objects: get_modules, get_instances, get_pins,   *)
(* ... (ig_tclc_get_objs_of_obj of lib/ig_tcl.c) and get_net_objects       *)
(* (ig_tclc_get_netgen_objects).                                           *)
(*                                                                         *)
(* With -all they read the tables of the database, with -name too, with    *)
(* -of the queues and references of an object.  A query changes nothing:   *)
(* it is an operator from the state to the Object-IDs it returns, {} where *)
(* the command is an error.                                                *)
(***************************************************************************)
EXTENDS IgObjects

(* Fault: the instances in a module and those of it are taken for another. *)
ModuleQueue_Swapped ==
  [get_ports |-> "ports", get_declarations |-> "decls", get_codesections |-> "code",
   get_instances |-> "mod_instances", get_instantiation |-> "child_instances",
   get_regfiles |-> "regfiles"]

(* The queue of a module that a command with -of reads. *)
ModuleQueue ==
  [get_ports |-> "ports", get_declarations |-> "decls", get_codesections |-> "code",
   get_instances |-> "child_instances", get_instantiation |-> "mod_instances",
   get_regfiles |-> "regfiles"]

NotOfResources == {"get_declarations", "get_codesections", "get_instances", "get_regfiles"}

Lookup(table, key) == {r.obj : r \in Entries(table, key)}
OfKind(k, i) == {a \in Lookup("objects_by_id", i) : kind[a] = k}
InSlots(S, slot) == UNION {InSlot(a, slot) : a \in S}

(* The objects that the command finds -of the object with the ID i. *)
ChildList(cmd, i) ==
  LET mod  == {m \in Lookup("modules_by_id", i) : kind[m] = "module" \/ cmd \notin NotOfResources}
      inst == Lookup("instances_by_id", i)
  IN  CASE cmd \in DOMAIN ModuleQueue    -> InSlots(mod, ModuleQueue[cmd])
        [] cmd = "get_pins"              -> InSlots(inst, "pins")
        [] cmd = "get_modules"           -> {module[a] : a \in inst}
        [] cmd = "get_regfile_entries"   -> InSlots(OfKind("regfile", i), "entries")
        [] cmd = "get_regfile_regs"      -> InSlots(OfKind("entry", i), "regs")
        [] cmd = "get_nets"              ->
             {net[a] : a \in UNION {OfKind(k, i) : k \in {"port", "pin", "declaration"}}} \ {NULL}

Of(cmd, i) == {id[a] : a \in ChildList(cmd, i)}

get_net_objects(i) == {id[a] : a \in InSlots(Lookup("nets_by_id", i), "objects")}

Tables ==
  [get_modules   |-> [by_id |-> "modules_by_id",   by_name |-> "modules_by_name"],
   get_instances |-> [by_id |-> "instances_by_id", by_name |-> "instances_by_name"],
   get_regfiles  |-> [by_id |-> "regfiles_by_id",  by_name |-> "regfiles_by_name"],
   get_nets      |-> [by_id |-> "nets_by_id",      by_name |-> "nets_by_name"]]

All(cmd)         == {id[a] : a \in InSlot(DB, Tables[cmd].by_id)}
Named(cmd, name) == {id[a] : a \in Lookup(Tables[cmd].by_name, name)}

-----------------------------------------------------------------------------
(* What a script or a template meets that goes down from all the modules.  *)
OfAll(cmd, ids) == UNION {Of(cmd, i) : i \in ids}
Walked ==
  LET mods == All("get_modules")
      rfs  == OfAll("get_regfiles", mods)
      ents == OfAll("get_regfile_entries", rfs)
      inss == OfAll("get_instances", mods)
  IN  UNION {mods, rfs, ents, OfAll("get_regfile_regs", ents), inss, OfAll("get_pins", inss),
             OfAll("get_ports", mods), OfAll("get_declarations", mods),
             OfAll("get_codesections", mods), All("get_nets")}

(* Between commands the lists agree, though some come from tables, some    *)
(* from queues and some from back-references: going down from the modules  *)
(* meets exactly the objects that have an entry under their Object-ID;     *)
(* instances are listed in their module, of their module and in all        *)
(* alike, signals at their objects and the objects at their signal; and a  *)
(* name leads to the object of that name among all.                        *)
QueriesAgree ==
  Idle /\ failed = {} =>
    /\ Walked = {r.key : r \in {s \in refs : s.slot = "objects_by_id"}}
    /\ OfAll("get_instances", All("get_modules")) = All("get_instances")
    /\ OfAll("get_regfiles", All("get_modules")) = All("get_regfiles")
    /\ \A i \in All("get_instances") :
         \A m \in All("get_modules") : i \in Of("get_instantiation", m) <=> Of("get_modules", i) = {m}
    /\ OfAll("get_instantiation", All("get_modules")) = All("get_instances")
    /\ \A n \in All("get_nets") :
         {o \in Walked : Of("get_nets", o) = {n}} = get_net_objects(n)
    /\ \A cmd \in DOMAIN Tables :
         All(cmd) = UNION {Named(cmd, n) : n \in {i[Len(i)] : i \in All(cmd)}}
=============================================================================
