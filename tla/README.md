# Verification of ICGlue

TLA+ models of [ICGlue](https://github.com/AmirhosseinR/icglue), a Tcl library
for scripted hardware generation, checked with TLC and proved with TLAPS.  All
paths below are paths of the repository (`lib/ig_lib.c` is `src/lib/ig_lib.c`
in `PROJECT.json`).

1. [The system](#1-the-system)
2. [Hazards and what makes each part correct](#2-hazards-and-what-makes-each-part-correct)
3. [The modules](#3-the-modules)
4. [The runs](#4-the-runs)
5. [The proofs](#5-the-proofs)
6. [What the runs found](#6-what-the-runs-found)
7. [What is not modelled, and the plan](#7-what-is-not-modelled-and-the-plan)

## 1. The system

A user writes a *construction script*: modules in a tree (`M`), signals between
modules anywhere in that tree (`S`), parameters (`P`), register files (`R`),
code (`C`).  ICGlue keeps a database of the resulting objects and writes the
modules, register files and host software from templates.

| Part | Source | State | Operations |
|---|---|---|---|
| objects | `lib/ig_data.c`, `.h` | the objects on the heap: type, Object-ID, reference count, attributes, queues of children, back-references | a `_new` and a `_free` function for each of 14 types, `ig_obj_ref`, `ig_obj_unref`, attributes |
| database | `lib/ig_lib.c`, `.h` | eleven hash tables of counted references: objects by Object-ID, and modules, instances, regfiles, nets, generics by name and by Object-ID | `ig_lib_add_*`, `ig_lib_connection`, `ig_lib_parameter`, `ig_lib_db_clear` |
| commands | `lib/ig_tcl.c` | none of their own; one database per Tcl interpreter | `create_module`, `create_instance`, `connect`, `parameter`, `create_pin`, `add_codesection`, `add_regfile`, `reset`, attributes, queries, logger |
| logger | `lib/logger.c` | a threshold for all messages and one per message id, counters | `log_base`, `set_default_log_level`, `log_particular_level`, the counters |
| construction | `tcllib/icglue_construct.tcl` | parse stacks; attributes in the database | `M`, `S`, `P`, `C`, `R`, `SR`, `RT`, ... |
| helpers, checks | `tcllib/icglue_helpers.tcl`, `icglue_checks.tcl` | next free address of a regfile (an attribute) | queries, address and size checks |
| templates | `tcllib/icglue_templates.tcl` | generated files with the user's *keep blocks*; cache of translated templates | parse and pop keep blocks, generate a file |
| parsers | `tcllib/icglue_sng.tcl`, `icglue_verilog.tcl` | none | older language, Verilog ports |
| programs | `bin/*`, `lib/icglue.c` | the level of the options | options, script, output, exit code |
| Python registers | `templates/default/rf/static/py` | per entry a desired and a mirrored value, shared field objects; the device | writes of fields and entries, UVM-like set and update, copies; read-modify-write or subword writes |
| host registers | `templates/default/rf/static/host-cpp` | caches of writes in front of a device | the same writes in C++; gather, list and flush writes |
| register files | `templates/default/vlog/include/regfile.wtf.vh` | registers, trigger flags, permissions, handshakes, synchronizers | a step of the clock: bus accesses, answers, signals |

The parts are layered.  A construction command calls several database commands
(`ig::db::connect`, ...); a database command looks Object-IDs up in the tables,
allocates objects, pushes them to the queues of other objects, and enters them
in tables.  Templates read the database back through the query commands.
The library runs in one thread: no two commands overlap.  The register access
is generated code of another program: entries call a device, a C++ device may
stand behind a cache, and the hardware, or another user of the bus, acts between
two accesses.  What is hard is

* long *sequences* of commands: whether an instance may be placed, and where a
  signal goes, depends on all placements before; names are shared between
  kinds of objects and between commands;
* *partial failure*: `connect` and `create_pin` make several objects and may
  fail between them, and nothing is taken back;
* *reference counts*: an object is held by up to three tables and two queues;
  `reset` drops these references table by table, in the order of a hash table,
  and each last one starts a cascade of free functions;
* *order*: the endpoints of a signal are given in an order that must not matter,
  but the merge of their climbs goes by that order;
* *interleaving*: a field write is often a read and a write of the whole word,
  with the hardware and other users in between;
* *concurrency in hardware*: handshakes and read signals come from other clocks,
  through synchronizers, while the bus master goes on without pause; what ends an
  access is decided in three places that override each other;
* *stale values*: an entry keeps two values of its register, a cache keeps
  writes that the register has not seen;
* *user data between generations*: what a user wrote in a generated file has to
  survive the next generation, whatever the template and the user changed.

## 2. Hazards and what makes each part correct

`PROJECT.json` lists each hazard with its line and the properties that would
catch it.  In short:

* **Hierarchy.**  No module is placed in itself, directly or through others,
  although only one object is compared (`ig_lib_check_cycle`); the endless loop
  of `ig_lib_gen_hierarchy` is left; the table of instances, the two queues an
  instance is pushed to and its back-references tell the same; a placement is
  final.
* **Objects.**  The reference count of an object is the number of tables and
  queues that hold it, at each step of each command and in the middle of a
  reset; no table or queue leads to freed memory; nothing is freed twice; every
  back-reference is taken away in time; nothing is left behind.
* **Signals and parameters.**  A request makes exactly the declarations, pins,
  ports, parameters and adjustments that the endpoints call for, whatever their
  order and their names; a pin has its port, with the same name and direction,
  and is connected to something in the module around it; a request that is
  refused or fails has a reason.  One kind of request gets no answer: see
  `connection_freed` in section 6.
* **Register access.**  A write of some bits looks like one change of these bits
  at one instant, whether it is a read-modify-write, a subword write, gathered
  with others or listed; what was read to be written back still holds; a cache
  has room, hides nothing from a read and overtakes no write; an entry says
  rightly whether its register is up to date, and values set arrive.
* **Register files.**  A handshake keeps its four phases, and an access ends on its
  own answer, not on one left over; a read of synchronized bits is not older than
  the access; a trigger pulses once; `slverr` tells what was stored; every access
  ends; and seen from the bus the plain registers are the abstract register file
  that the software counts on.
* **Queries.**  The commands that list objects read tables, queues or
  back-references: they agree.
* **Construction.**  The tree of modules is the one that is seen on the page; entries
  at ascending addresses never share a word, and others are reported exactly; what
  is asked to be protected is.
* **Generated files.**  User code stays in its blocks, as often as it was there;
  a file that nobody edited does not change when it is generated again.
* **Messages.**  The exit code tells whether there were errors or warnings, as far
  as the thresholds let it.

## 3. The modules

    IgDesignForest          what a hierarchy promises: nodes placed once, never below themselves
      ^ implemented by
    IgHierarchy             the hierarchy as ig_lib.c keeps it     <- IgDesignProofs, MCDesign
      ^ extended by
    IgConnection            connect, parameter, create_pin on it   <- IgConnectionProofs, MCIgConnection

    IgObjects               the heap: counts, tables, queues, reset; implements IgDesignForest too
      ^ extended by                                                <- IgObjectsProofs, MCIgObjects
    IgObjectsInv            what holds of the heap in every state  <- IgObjectsProofs, MCIgObjects
    IgQueries               the commands that list objects         <- IgDesignProofs, MCIgObjects

    ModuleTree              the indented lines of the command M    <- ScriptProofs, MCDesign
    RegfileEntries          addresses and protection of entries    <- ScriptProofs, MCRegfileEntries, MCDesign
    IgLogger                messages, thresholds, the exit code    <- ScriptProofs, MCDesign
    KeepBlocks              generated files and the user's code    <- ScriptProofs, MCKeepBlocks, MCDesign

    RegisterFile            what the register access promises: masked writes at one instant
      ^ implemented by
    RegfileApb              the generated hardware, at the bus     <- RegfileApbProofs, MCRegfileApb
    RegfileDevice           simple and subword devices             <- RegfilePythonProofs, MCRegfilePython
    RegfileBitCache         gathers the fields of an entry         <- RegfileCacheProofs, MCRegfileCaches
    RegfileWordCache        lists writes                           <- RegfileCacheProofs, MCRegfileCaches

    RegfileEntry            desired and mirrored values, on a register that a device keeps its
                            promise for                            <- RegfilePythonProofs, MCRegfilePython

IgNull is the null pointer of the library, RegfileNumbers the bits of a number,
RegfileMainDev the device behind either cache; Recursion has lemmas of induction for
the proofs.

A `...Proofs` module holds theorems checked by TLAPS, an `MC...` module gives a
model its values for TLC.  `MCDesign`, `MCRegfilePython` and `MCRegfileCaches` put
models together that have no dealings with each other: a behaviour uses one of
them (`used`) and leaves the variables of the others at one value, so that the
states add up and do not multiply.  They EXTEND them, so that a run checks the very
definitions that the theorems state.

### IgDesignForest

A set of nodes and a map `up`.  `Grow` adds a node, `Place(n, p)` puts a node
that has no place below another one unless that one is below it already,
`Clear` takes everything away.  It says "below" as a closure over the whole
map, not as a climb, so that the code's single comparison has to be justified.

### IgHierarchy

An object is identified with its name, which the tables make unique.

| TLA+ | Code |
|---|---|
| `modules`, `resource` | `modules_by_name`; the field `resource` |
| `instances[i] = [module, parent]` | `instances_by_name` with the two back-references |
| `default_parent[m]` | `m->default_instance->parent` |
| `child_instances[m]`, `mod_instances[m]` | the queues of `struct ig_module` |
| `Up(m)`, `Root(m)` | the climb of `ig_lib_gen_hierarchy` and its head |
| `WouldCycle` | `ig_lib_check_cycle` |
| `AddModule`, `AddDefaultInstance`, `AddResourceInstance`, `Reset` | `ig_lib_add_module`, the two halves of `ig_lib_add_instance`, `ig_lib_db_clear` |

`Up(m)` is defined as the least set of modules that contains `m` and is closed
under "is placed in", so that the model does not presuppose that the climb ends.
`Root` chooses a module without parent in that set; `OneRoot` proves that there
is at most one, and `HierarchyClimbEnds` that there is one.

A command that the code refuses leaves the state alone and is no step.

### IgObjects

The heap is a function from addresses to the fields of an object; `refs` is the
set of counted references, each saying who holds it (the database or an object),
in which table or queue, and under which key.  `RefsTaken` counts the calls of
`ig_obj_ref` in the functions that add an object, independently of the
references these functions make, so that `RefcountExact` compares two things
the code writes separately.  `PlaceModule` has the hardest case: the default
instance of a generated module is pushed to two queues for one `ig_obj_ref`,
because `ig_module_new` has taken one already.

| TLA+ | Code |
|---|---|
| `kind`, `id`, `refcount`, `parent`, `module`, `net`, `default_instance` | fields of the structs of `ig_data.h` |
| `Allocate`, `ObjectId`, `Object`, `Item` | `ig_obj_init` and the `_new` functions |
| `TableRefs`, `ParentQueue`, `TableOrder`, `Queues` | the tables entered, the queue pushed to, the order of `ig_lib_db_clear`, the order of the free functions |
| `CreateModule` ... `AddCodesection` | the `ig_lib_add_*` functions with their commands |
| `Connect`, `ConnectFails`, `failed` | `ig_lib_connection` with `ig_lib_add_net`, what `ig_tclc_connect` does when it fails half way, and for which nets it has |
| `Reset`, `ClearEntry`, `ResetDone` | `ig_lib_db_clear`: tables in their order, entries of a table in any order |
| `freeing`, `FreeChild`, `Release`, `Cut`, `Unref` | the recursion of `ig_obj_unref`, `ig_obj_free_full` and the free functions; `freeing` is its stack |

A reset is not atomic here: each table entry and each element of a queue is a
step, and the invariants are checked between them.  The commands that build are
atomic: nothing can run in between, and they free nothing while they do.
(`AddCodesection` may free, through the table entry that it replaces.)

After a `connect` that failed the tables hold a net that was freed (section 6).
Commands go on, but a reset would unreference freed memory, which the language
leaves undefined; it is not modelled, and every property says what holds but for
the entries of `failed` nets.

The allocator takes the lowest free addresses.  No code compares addresses, so
that which address is taken cannot matter; that addresses are *reused* does,
and is kept.

`DatabaseInv` of IgObjectsInv is the inductive invariant of section 5; TLC checks it
like the others.

Left out: parameters, adjustments and generics, whose code is that of ports,
pins and nets with other names (`ig_data.c`); attributes; the string chunks.
The tree of objects a connection makes is the smallest with all three kinds
(declaration, pin, port); its shape is the subject of IgConnection.

### IgQueries

The commands of `ig_tclc_get_objs_of_obj` and `ig_tclc_get_netgen_objects` change
nothing, so that each is an operator from the state to the Object-IDs it returns:
`All` and `Named` read tables, `Of` reads a queue or a back-reference
(`ModuleQueue`, `ChildList`), as the branches of the code do.  `Walked` is what a
template meets that goes down from all the modules.  `QueriesAgree` compares these
between commands, on every state that IgObjects reaches without a failed connect.
Queries for one attribute, and those of parameters and generics, are left out.

### IgConnection

| TLA+ | Code |
|---|---|
| `Endpoint`, `Request` | what `ig_tclc_connection_parse`, `ig_tclc_connect` and `ig_tclc_parameter` accept |
| `Climb`, `Above`, `HasClimb` | `ig_lib_gen_hierarchy` from an endpoint: a list of nodes up to the top module |
| `GivenAt`, `ExplicitAt` | `copy_first` and `explicit_next`: at which nodes of the list the local name, its force and the inversion are, and which are explicit |
| `Merged`, `DirOf`, `FirstOf`, `LastOf` | `ig_lib_merge_hierarchy_list`: the fields of the node made of the heads of several lists |
| `Together`, `Groups`, `HandsDown`, `Children`, `Merge`, `Tree` | the same: which lists go into one child, with what name, and the recursion |
| `Reduce`, `Stops`, `Under`, `Freed` | `ig_lib_htree_reduce`, and when the tree it returns is the one it freed |
| `SignalObject`, `ParameterObject`, `Objects` | the two functions called for each node of the tree, and the walk |
| `Free`, `Enterable`, `Create`, `Outcome`, `Entry` | the look-ups of Object-IDs, the objects entered, `data.error`, `ig_lib_add_net` / `ig_lib_add_generic` |
| `Connect`, `Parameterize`, `CreatePin`, `ResetAll` | the commands |

A tree is a set of nodes: a node has its object and the climbs that were merged into
it, and its parent is the node at the object around its own that has these climbs too.
The recursion of the merge is a recursive function over the modules, which gives the
nodes at each.  What the code takes from the order of its lists is kept: climbs are
prepended, the source first, and turned around at every level, so that the first and the
last climb of a node are those with the least and the greatest number, or the other way
round (`FirstOf`, `LastOf`).  One thing is left open: of several nodes that need one
Object-ID the walk enters one, and `Enterable` allows each.  Such nodes exist only if an
object is named in two ways, and the command fails whichever is entered.

A name is a sequence, a base followed by suffixes; `"clk_i"` is `<<"clk", "i">>`.  That is enough to
tell which suffixes are added and removed.  Names in capitals get capital
suffixes in the code; that variant is left out.  So are sizes and values.

The properties compare what is made with `Asked`, which says what a request
calls for without trees, merges or lists: the signal enters the modules above
an endpoint but not above all, has the name given there or the one handed down,
and leaves a module when its source is inside.  `Asked` assumes that nothing is
named in two ways (`NamedOnce`); for the other requests `PinsMatchPorts` and
`PinsConnected` say what still holds of the nets that are made.

There is one place where the code leaves what a model can say.  The reduction takes
the node it stops at off the tree and frees the rest (`lib/ig_lib.c:968`).  The root,
the default instance of the top module, has no parent to be taken off from: if the
root itself has two children, the whole tree is freed, and then printed, walked and
freed again.  The root has two children when endpoints give the top module two names
that `lib/ig_lib.c:712` keeps apart.  Such a command changes nothing in the model, its
outcome is `"undefined"`, and `Commands` allows none after it: what the program does
from there, a crash or a damaged database, is left open.  `CommandsAnswer` says that
this does not happen; the run `connection_freed` shows that it does.  All other
properties of IgConnection speak of behaviours up to that point.  That matters to
`PinsInStep`, which covers commands that fail: it excepts this one.  `AnswersJustified`
includes that no request that names everything once runs into it.

`reply` records the last command and its answer.  A refused `connect` changes
nothing else; one that fails enters objects that belong to no net (`net` is
`NULL`) and takes the name of the signal.  What the entry of the name then leads
to is the subject of IgObjects (section 6); here the name stays taken.

### RegisterFile, RegfileDevice

A number is the set of the positions of its ones: `&` is `\cap`, `|` is `\cup`,
`~x` is `Flipped(x)`.  One position, `Beyond`, stands for all bits past the word,
which Python numbers have: `-1`, the default of the masks, is `Bits`.

RegisterFile is the promise: `Write` changes the masked bits that the bus can
write, `Read` answers what the word holds, `Drive` is the hardware.

| TLA+ | Code |
|---|---|
| `Keep`, `Fits`, `FirstFit`, `Direct`, `Target` | `keep_mask`, and the loops of `RegfileDevSubword.rfdev_write` over sizes and subwords; the test of `RegfileDevSimple.rfdev_write` |
| `Begin`, `WriteAtOnce`, `ReadFirst`, `WriteBack` | `rfdev_write`, entered; its bus write; the read it makes first; the bus write after that |
| `fetched`, `rmw_value` | the local variables of `rfdev_write`, per user of the bus (`Master`) |
| `Store`, `Read` | the bus access, `rfdev_write_simple` or `rfdev_write_subword`, and `read` |
| `Writable`, `WriteMask`, `Masks` | what the generated hardware lets the bus write; `write_mask`; the masks of a word's fields |

`FirstFit` chooses the place that the loops come to first, so that no recursion
is needed.  `Size` is any set of sizes of which the word's is one: the code halves
the size, which for a word of a power of two gives that set.

Assumed of the constants: the hardware lets the bus write no bit that is missing
in `write_mask` (both are generated from one table).  Two users may be in a call
at once.  Nothing in the library keeps them apart, so that `ReadStillHolds` and
the refinement hold under a condition on the program around it, `Undisturbed`: a
word that is written through a read has one user.

### RegfileBitCache, RegfileWordCache

| TLA+ | Code |
|---|---|
| `cache`, `cache_enabled` | the fields `cache` and `cache_enabled` |
| `list` | `addr_list`, `value_list`, `mask_list` up to `seqlen`; a write keeps its `unused_mask` in a fourth list, which RegisterFile does not speak of: the bits it names are not writable |
| `PassOn`, `Gather`, `StartOver`, `Put`, `Read`, `CacheEnable`, `CacheDisable` | `rfdev_write` by its branches, `rfdev_read`, `cache_enable`, `cache_disable` |
| `Landed`, `Emptied` | `cache_flush` |

The word cache has the same operations under other names (`PassOnEntry`, `ListRead`,
`ListEnable`, ...).  The device behind a cache (RegfileMainDev) is any that keeps the
promise of RegisterFile, so that its write is one step here; RegfileDevice shows that a
device does.  `seen` and `seen_list` are the refinement mappings: the registers as they
will be when what waits has arrived.

### RegfileEntry

| TLA+ | Code |
|---|---|
| `desired_value`, `mirrored_value` | `desired_value`, `mirrored_value`, of the entry and of its copies |
| `owner[f]` | the object that the closure `field.set` of field `f` refers to |
| `WriteField`, `WriteNumber`, `WriteDict`, `WriteCopy`, `Read` | `__setitem__`, `set_value` and the `entry` setter by the type of the argument, `get_value` |
| `SetField`, `Set`, `Update`, `WriteUpdate` | `field(f).set`, `set`, `update`, `write_update` |
| `ReadEntry`, `GetMirroredReg` | `read_entry`, `get_mirrored_reg` |
| `ResetDesign` | `reset`, with the design reset at the same time |
| `uses` | not in the code: which kinds of calls a test makes |

The device writes at once, as RegisterFile promises.  Assumed: the reset value
has no ones outside the writable fields, fields do not overlap.  Values are masked
to their field; that the code passes a number with bits past the word on to the
device unchanged is seen in RegfileDevice (`Beyond`).

The entry promises something only to tests of one kind: those that write directly,
or those that set and update, the latter without copies (`WritesOrSets`,
`SetsWithoutCopies`).  For the others see section 6.

### RegfileApb

One step of the clock is one action: all registers of the template take their next
values from the current ones, and the master moves on.  Peers of other clocks and
the signals that are read change between steps.

| TLA+ | Code |
|---|---|
| `Setup`, `Enable`, `Wait`, `Rest` | the phases of an APB access, as `test/resources/apb_stim/apb_stim.cpp` drives them; another access may follow at once |
| `Ready`, `Err`, `NextWritePermitted`, `NextReadPermitted` | the combinational blocks of `ready`, `slverr` and the permissions; later assignments win |
| `Stores`, `Loads`, `GoesBack`, `Registers` | the write logic of a register, of a trigger register and its flag |
| `Requesting`, `Raises`, `Lowers` | the always block of `reg_<handshake>` |
| `Synchronizers` | `sync_ack`, `sync_bits`, `sync_delay`, `ready_sync_delay_r`; the synchronizers themselves are modules of the user, `SyncDepth` registers in a row |
| `Answer(h)`, `Drive(e, bits)` | the peer of a handshake, the design around: not in the code |
| `last`, `seen` | not in the code: the access that took effect, and what an access has met, which the properties speak of |

A number is the set of the positions of its ones; a synchronized signal changes one
at a time.  Reset, registers with custom code, and handshakes without a synchronizer
are left out.  `ProtAssumption`: the register behind `prot_enable` is a plain one
without a handshake; with one, an access could lose its permission on its way.

Fairness: `WF_vars(Wait)`, the clock goes on while an access waits, and
`WF_vars(Answer(h))`, a peer answers in the end.  Both are what a clock and a working
peer do; nothing is assumed of the master's next access or of signals.  `AccessEnds`
is the only liveness property; the libraries around are sequential, every call runs
to its end, and nothing obliges a user to give another command.

### ModuleTree, RegfileEntries

`ModuleTree` is `mtree_parse`: `Deeper`, `Shallower` and `SameLevel` are its three
branches.  `ParentsAsWritten` says what the parent of a line is without stacks: the
last line above it that is indented less.

`RegfileEntries` has the two commands that make entries: `R` with explicit, next and
aligned addresses, and `RT` with a table, whose rows are gathered (`TableRead`) before
each entry is made.  `save_reg_addr` is the attribute `_save_reg_addr`;
`OverlapsWarned` is `check_regfile_addresses`, a list of the byte addresses seen.
`ascending` and `asked` are not in the code: whether no command went back, and which
entries were asked to be protected.  Registers, sizes and texts are left out.

### KeepBlocks

A generated file is the sequence of its keep comments and of the pieces of code a
user wrote; what a template writes outside of keep blocks plays no part.

| TLA+ | Code |
|---|---|
| `FormOf`, `Scanned`, `ParseKeepBlocks` | `parse_keep_blocks`, with the choice between the two forms of comments; a search for the next begin and its end is a scan, token by token |
| `Pop`, `Format`, `Listed`, `Remaining` | `pop_keep_block_content`, `format_keep_block_content`, `remaining_keep_block_contents` |
| `Ran`, `RunTemplate` | one command about keep blocks in a template, and all of them in order |
| `Templates` | which blocks a template of `templates/default` asks for, in order, and where it lists the orphaned ones |
| `Generate`, `GenerateFails` | `generate_template_output`; a block without end, an error of the template and a dry run leave the file alone |
| `Insert`, `Delete` | a user with an editor: not in the code |

A file is truncated and then written (`icglue_templates.tcl:1317`).  An interruption
in between loses the blocks, and nothing in the code could bring them back; the model
has one step there and says nothing about that.

### IgLogger

The levels of messages, the thresholds and counters of `lib/logger.c`, the commands
`logger` and `log`, and the run of `bin/icglue` around them, from its options to its
exit code (`stage`).  What is printed is left out; that it is printed or suppressed
decides the exit code.  `issued`, `highest` and `settings` are not in the code: what
messages there were, and the highest threshold there has been.  `MaxMessages` and
`MaxSettings` bound the counters.

## 4. The runs

With two workers each run ends within one and a half minutes.

| Run | Bounds | Distinct states | Shows |
|---|---|---|---|
| `design` | six parts, one per behaviour (below) | 279 thousand | hierarchy, objects and queries, keep blocks, entries of register files, trees of modules, messages |
| `connection` | 12 hierarchies, 5 writings, up to 3 endpoints, 2 signals; or 2 names from the empty database | 154 thousand | requests of any kind, a signal in the way of another, and requests among all other commands |
| `python` | 4 words of 4 bytes of 1 bit, 2 users; or an entry of 3 fields and 1 copy | 352 thousand | devices implement RegisterFile; `needs_update` is right, `write_update` arrives |
| `caches` | 2 words of 3 bits; lists of 3 | 162 thousand | both caches implement RegisterFile, overtake nothing, have room |
| `apb` | 5 entries, 2 bytes, 1 handshake for two entries, synchronizers of 2 | 160 thousand | protocols, fresh reads, triggers, `slverr`, every access ends; the hardware implements RegisterFile |
| `connection_freed`, `objects_nettables`, `apb_protected`, `keep_foot`, `table_protect`, `entry_mixed`, `entry_copies` | as above | | section 6 |

Why these bounds are enough:

* *hierarchy* (in `design`): four names.  A cycle needs at least two modules, a cycle
  that a comparison with the parent or with its parent would miss needs three; the
  fourth name allows a resource, or an instance with a name of its own, next to them.
  The theorems of section 5 cover all sizes.
* *objects* (in `design`): eight addresses, two names (symmetric), one local name,
  signal, codesection and register.  They hold two generated modules with their
  default instances, a declaration, pin, port and net; or resources with two
  instances; or one module with all its parts.  This is the least in which a default
  instance is in all its tables and queues with all kinds of children, and a reset
  meets a net and its objects in each order.  `PartsApart` keeps apart what has no
  dealings with each other: the parts of a module (codesections, register files) on
  one side, pins and nets on the other.  A reset starts from at most `MaxReset` = 6
  objects, and from all eight only where a net is among them (`ResetsWorthwhile`).
  The queries are compared in every state between commands.
* *files* (in `design`): two names of blocks, two pieces of code, files of up to
  `MaxFile` = 6 comments and pieces, three templates (one that asks for both blocks,
  for one, for none), so that a block may move to the orphans and back, stand twice,
  be empty, or lack its end.  Files have comments of one form; for files that mix
  both see section 6.
* *entries* (in `design`): three names, explicit addresses 0, 3 and 4 (aligned, not
  aligned, the next word), offsets 0 and 6, alignment to one and two words, tables of
  up to `MaxRows` = 2 rows, addresses up to `MaxAddress` = 11: the third entry can
  come between, over or after two others.
* *trees* (in `design`): `MaxLines` = 6 lines at `MaxLevel` = 4 or less.  A return to a
  level never opened, between two that were, needs four lines; with six, two such
  returns follow each other.
* *messages* (in `design`): two messages and two thresholds (`MaxMessages`,
  `MaxSettings`): an error suppressed for one id and printed for another, a threshold
  raised and lowered again.
* *requests* (in `connection`): the hierarchies are all the ones with three generated
  modules (up to renaming) and an instance of a resource in any of them; a signal
  between siblings, up, down, through a module, to a leaf, and to unconnected trees
  occurs.  One and two endpoints are written in all five ways (plain, inverted, with
  a name to keep, with a suffix in it, with a name to be given a suffix).  Two climbs
  meet once; only with three can an unnamed one stand between two named ones, so that
  a source and two targets are tried with the writings that differ there.
  `MaxTargets` and `MaxEnds` are 2.  The second signal, in one hierarchy, meets pins
  and ports that the first has made under its name.
* *sequences* (in `connection`): two names and one signal reach pins in the way, ports
  in the way and growth after a connection.  A bound `MaxLoose` limits the objects
  that belong to no net (pins made by hand and remains of failures) to two.  A refused
  reply is followed only by a reset, because it left everything else as it was.
* *devices* (in `python`): four bytes have three sizes of subwords; with bits 0, 1 and
  3 writable there are masks for which each of them is the right one, a subword of
  two that would overwrite a bit to be kept, and none; bit 2 is a status that changes
  under a read-modify-write.  Masks and values have bits past the word.  Of the four
  words two are used by one user and written in any way, two are shared and written
  without being read, one of each behind a simple device and one behind a subword
  device; `Undisturbed` is assumed.  `OneWord`: words do not influence each other, so
  that only one at a time holds ones.
* *entry* (in `python`): a field written, a field left alone and a read-only one;
  numbers past the word.  A test either writes directly and takes copies, or sets and
  updates (`Uses`).
* *caches*: two words, so that a write goes elsewhere than what waits; masks that
  overlap, are disjoint, or go beyond the writable bits; two values of `unused_mask`.
  A list of three is full, has room, and is empty.
* *apb*: an entry of each kind: a protected one that switches the protection, one with
  two trigger registers over two bytes and a reset value that is not zero, one with a
  synchronized bit, and two behind one handshake, one read and one written; an address
  of no entry.  Accesses select both bytes, one, or (between accesses) none.  In
  synchronizers of two registers an old answer and a new one can be on their way
  together.

`CHECK_DEADLOCK FALSE` is given where a run is meant to stop: `connection` after its
requests; `design` (and the runs of its parts) when addresses or names are used up
after a `connect` that failed, which no reset follows, at the bounds, and after the
exit of a run.

Each property of a passing run has a mutant: a fault in a definition
(`WouldCycle_NextAbove`, `Cut_Never`, `Fits_KeepIgnored`, `Raises_Again`, ...; each next
to the definition it replaces) that TLC must find by that property.

## 5. The proofs

Eight modules hold theorems.  All hold for every value of the constants that meets the
assumptions that the modules state, and without the bounds of section 4; the few
theorems that need more say so in their hypotheses.

| Theorem | States |
|---|---|
| *IgConnectionProofs* | |
| `HierarchyTypeCorrect` | `HierarchySpec => []HierarchyTypeOK` |
| `HierarchyAcyclic` | `HierarchySpec => []Acyclic` |
| `HierarchyClimbEnds` | `HierarchySpec => []ClimbEnds` |
| `HierarchyImplementsForest` | `HierarchySpec => ImplementsForest` |
| `HierarchyTablesAgree` | `HierarchySpec => []TablesAgree` |
| `HierarchyPlacedForGood` | `HierarchySpec => PlacedForGood` |
| `ConnectionOnHierarchy` | `ConnectionSpec => HierarchySpec` |
| `ConnectionPinsInStep` | `ConnectionSpec => []PinsInStep` |
| `ConnectionPinsConnected` | `ConnectionSpec => []PinsConnected` |
| `ConnectionPinsMatchPorts` | `ConnectionSpec => []PinsMatchPorts` |
| `ConnectionNetsAsAsked` | `ConnectionSpec => []NetsAsAsked` |
| `ConnectionGenericsAsAsked` | `ConnectionSpec => []GenericsAsAsked` |
| `ConnectionAnswersJustified` | `ConnectionSpec => AnswersJustified` |
| *IgDesignProofs* | |
| `ObjectsImplementForest` | `ObjectSpec => HeapImplementsForest` |
| `DatabaseInvariant` | `ObjectSpec => []DatabaseInv` |
| `ObjectQueriesAgree` | `ObjectSpec => []QueriesAgree` |
| *IgObjectsProofs* | |
| `ObjectInvariant` | `ObjectSpec => []ObjInv` |
| `ObjectRefcountsExact` | `ObjectSpec => []RefcountExact` |
| `ObjectNoneDangling` | `ObjectSpec => []NoDanglingReference` |
| `ObjectBackReferencesLive` | `ObjectSpec => []BackReferencesLive` |
| `ObjectQueuesMatch` | `ObjectSpec => []QueuesMatchBackReferences` |
| `ObjectsFreedOnce` | `ObjectSpec => []FreedOnce` |
| `ObjectOnlyOrphansLeak` | `ObjectSpec => []NothingLeaksButOrphans` |
| *ScriptProofs* | |
| `TreeParentsAsWritten` | `TreeSpec => []ParentsAsWritten` |
| `LoggerExitCodeTells` | `LoggerSpec => []ExitCodeTells` |
| `EntriesAscendingApart` | `EntriesSpec => []AscendingApart` |
| `EntriesOverlapsReported` | `EntriesSpec => []OverlapsReported` |
| `KeepUserCode` | for one form of comments, `ListsOrphans` and `AsksOnce`, `KeepSpec => UserCodeKept` |
| `KeepRegenerates` | for one form of comments and `OrphansLast`, `KeepSpec => RegenerateSettles` |
| *RegfilePythonProofs* | |
| `DeviceTypeCorrect` | `DeviceSpec => []DeviceTypeOK` |
| `DeviceReadStillHolds` | under `Undisturbed`, `DeviceSpec => []ReadStillHolds` |
| `DeviceImplementsRegisterFile` | under `Undisturbed`, `DeviceSpec => ImplementsRegisterFile` |
| `EntryNeedsUpdateTells` | under `WritesOrSets`, `EntrySpec => []NeedsUpdateTells` |
| `EntryWriteUpdateReaches` | under `WritesOrSets` and `SetsWithoutCopies`, `EntrySpec => []WriteUpdateReaches` |
| *RegfileCacheProofs* | |
| `BitCacheOnlyEnabledHolds` | `BitCacheSpec => []OnlyEnabledHolds` |
| `BitCacheNoWriteOvertaken` | `BitCacheSpec => NoWriteOvertaken` |
| `BitCacheImplementsRegisterFile` | `BitCacheSpec => ImplementsRegisterFile` |
| `WordCacheRoomForNext` | `WordCacheSpec => []RoomForNext` |
| `WordCacheImplementsRegisterFile` | `WordCacheSpec => WordCacheImplements` |
| *RegfileApbProofs* | |
| `ApbTypeCorrect` | `ApbSpec => []ApbTypeOK` |
| `ApbHandshakeObeyed` | `ApbSpec => HandshakeObeyed` |
| `ApbAnsweredForIt` | `ApbSpec => []AnsweredForIt` |
| `ApbReadsAreFresh` | `ApbSpec => []ReadsAreFresh` |
| `ApbErrTells` | where `Sampled[ProtEntry] = {}`, `ApbSpec => []ErrTells` |
| `ApbTriggersOnce` | under `DelayLastsLonger`, `ApbSpec => TriggersOnce` |
| `ApbImplementsRegisterFile` | `ApbSpec => ImplementsRegisterFile` |

The eighth module, Recursion, has lemmas.

### The hierarchy

The only assumption is `NameAssumption`: the null pointer is no name and no
instance.  `Up(m)` is the least closed set (`UpIsLeast`).  By leastness a
climb is a chain: it meets at most one module without parent (`OneRoot`).  Hence
the comparison of `ig_lib_check_cycle` is exact: a module to be placed has no
parent yet, so if it were anywhere on the climb from its new parent it would be
the root of that climb (`CheckCycleIsExact`).  Here the guard "is not
instantiated yet" (`ig_lib.c:239`) is essential: without it the comparison with
the root misses cycles.  A set of modules closed under "is placed in" after the
step gives one before the step, unless the module placed is on the climb
(`PlacingKeepsAcyclic`); so `Acyclic`, stated over sets, is inductive with the
types.  A finite argument is not needed: that the climb ends follows from
`Acyclic` for the set `Up(m)` itself (`AcyclicClimbEnds`).  The refinement needs
that "not on the climb" implies "not below" (`NotAboveNotBelow`).

`TablesAgree` is inductive as the conjunction of three parts: what the queues
list (`Lists`, one queue by another, with a lemma on pushing to the tail), what
the default instances say, and that entries lead to modules of the database.
None of the three is inductive alone: that a queue does not list an instance
before it is pushed follows from the table, and that a name taken by a resource
instance is not mistaken for a default instance from the flags of the modules
entries lead to.

### Connections

For any hierarchy that commands can build, any number of endpoints and any names, from
`NameAssumption`, `ConnectionAssumption` (the null pointer is no signal, endpoint or entry
of a table), `BoundsAssumption` (the bounds are numbers) and `WritingAssumption` (names are
sequences, and only a name can be forced).  The commands leave the hierarchy to IgHierarchy
(`ConnectionOnHierarchy`), so that its invariants may be used throughout.

*The induction.*  Climbs, the merge and the names handed down are recursions from a module
to the one around it.  `DownTheHierarchy` is the induction for these: a set of names with
all modules that have no parent and, with a module, all that are placed in it, is
the set of all names; for otherwise the names left out would be closed under "is placed in",
against `Acyclic`.  From it come the equations of the recursions (`AboveStep`,
`MergeParts`), and that `Above` is an order (`AboveOrder`).

*The tree.*  Each level of the merge divides the climbs of the level above by the
object they go on to and, where they are named in two ways, by the name (`NextLayer`).  So
what comes out is a tree (`TreeIsTree`): two nodes at one object share no climb, a node has
one parent, and the tree is full (`TreeIsFull`), in that every climb is in some node at each
object it passes by.  That the reduction goes *down* from the root to where the tree first
branches is said in the model without a walk (`Under`); `UnderIsBeneath` shows that both are
the same, and that what is left is again a tree with one root (`IsReduced`).  The root is
a module where nothing competes for an Object-ID; it is the default instance of the top
module exactly when the tree was freed (`Freed`), where nothing more is claimed.

*Pins and ports.*  In a reduced tree each node of a default instance has the node of its
module as a child and the other way round, with the same climbs, hence the same direction
(`DirOfClimbs`) and the same name, as the port takes that of the pin (`SignalObjects`).
If no two nodes need one Object-ID, which is so whenever everything could be entered
(`IdsApart`), the objects together are `Wired` (`WiredWhenApart`): pins meet ports and
each is connected.  `NetsInv`, that every net that was made is `Wired`, is inductive:
later commands give nothing to the net, and growth of the hierarchy moves no placed
instance.  `PinsInStep` speaks of all pins and ports, those of commands included that
answer that they failed; a behaviour ends with the command that walks a freed tree, as
above, so that the theorem says nothing of what follows that.
Its invariant `PinsInv` adds that pins are at live objects only; under a command
it follows since, of names wanted, all are held afterwards, whoever entered them
(`CreatedNames`).

*What is asked for.*  `Asked` does not mention trees.  If nothing is named in two ways, the
climbs agree on names (`NamedOnceAgrees`), so that there is one node at each object they
pass by (`LoneTreeFacts`), and what is left of the tree is `Top(request)` and what is
below it on the way to endpoints (`LoneReducedShape`).  The name at a node is that of the
innermost endpoint that gives one (`NodeHandsDown`, by induction on the hierarchy once
more), the direction and the inversion are those of the endpoints within.  With these each
node becomes the object of its place (`SignalsFit`, `ParametersFit`), all of them what is
asked for (`WantedAsAsked`, `ParametersAsAsked`), each for one place (`PlacesApart`).  Hence
`AnswersJustified`: no two nodes compete, so the walk fails only if an Object-ID was taken
before (`OutcomeOf`), the tree is not freed before the walk (`NamedOnceNotFreed`), and there
is a tree if there is a module around all endpoints (`TreeWhenTop`).

`NetsAsAsked` and `GenericsAsAsked` compare the objects with what the request asks for *now*,
when the hierarchy may have grown.  A module without a parent may have been placed since, also
the one at the top of the request.  That changes no name and no object asked for (`AskedStays`):
everything asked for is between `Top(request)` and the endpoints (`Reached`), where no parent
changes.  It needs that a request which led to a tree is `Settled`: its endpoints have their
hosts, all below one module.  With that, the invariants `NetsAskedInv` and `GenericsAskedInv`
are inductive.

### The objects

The assumptions are that addresses are finitely many numbers, that the database and
the null pointer are no address, and that the null pointer is no name.

None of the six properties of the heap is inductive.  That a free function finds
what it reads depends on what the queues of other objects hold, that on the tables,
and the order in which these are emptied is that of a hash table.  `ObjInv`
(IgObjectsInv) is what all of them follow from.  Its seven parts are types
(`HeapTypeOK`), Object-IDs (`ObjectsShaped`), who may stand in a table and under
which key (`TablesOK`), queues and back-references in step (`QueuesOK`), default
instances (`InstancesOK`), counts (`CountsOK`), and what is on the stack of free
functions (`FreeingOK`).  It holds between any two steps, also in the middle of a
reset, and it names the exceptions that the code makes: entries left by a failed
`connect`, and pointers to default instances that were never placed.

There are two kinds of steps, and one lemma for each.

* *Commands* make or place objects.  `Growing(N, X)` says what they have in common:
  objects `N` get their fields and the references of the tables and queues that they
  belong to (`GivenTo`), and at most one reference `X` goes away.  `GrowStep` shows
  that such a step keeps `ObjInv`.  The count that an object starts with is compared
  with the references it is given by counting these (`GivenCount`), which is where the one
  `ig_obj_ref` for the two queues of a placed default instance comes out right.
  For each command there remains that it is such a step (`CreateModuleStep`,
  `PlaceModuleStep`, `ConnectStep`, ...): that what it looks up is what it says it is,
  and that its keys are not taken yet.
* *A reset* takes one reference away at a time.  `Dropping(r)` says that: the
  back-reference goes with it, the count falls by one, and an object without holders
  goes on the stack.  `DropStep` shows that it keeps `ObjInv`; emptying a table
  (`ClearEntryStep`) and freeing a queue (`FreeChildStep`) are such steps.  An object is
  released only when its queues are empty (`ReleaseStep`), so that nothing holds it and
  nothing leads back to it.

`ObjectRefcountsExact` and the other five are then consequences of `ObjInv` in one
state (`CountsExact`, `NoDangling`, `BackReferences`, `QueuesMatch`, `FreedOnceInv`,
`NothingLeaks`).

`ObjectsImplementForest` maps the heap to the forest that IgHierarchy implements as
well: nodes are the names of the modules in the tables, `up` leads from the name of a
module to that of the module its default instance is in, and the forest is empty from
the beginning of a reset on.  Under the map (`ForestMap`) a placement is the forest's,
as a climb that does not meet a module shows that nothing below that module is met
(`NotAboveNotBelowHeap`).  Every other command leaves the forest alone
(`BuildKeepsForest`).

That queries agree needs more than `ObjInv`, which says what a table may lead to but
not that everything is in one.  `DatabaseInv` adds it (`PlacesOK`): between
resets all that a script can meet (`Present`) is in its tables and in the queue of its
parent (`Registered`; a codesection whose entry was replaced is the exception), and a
default instance that was not placed has no pins.  The
first part is not kept *by* a reset but is true again after it: when nothing is left to
be emptied, only default instances that were never placed are left
(`OnlyUnplacedLeft`).  `ObjectQueriesAgree` follows in one state: every object in a
queue is registered (`SettledPlace`) and the other way round (`ChildOf`), so that the
descent from the modules (`Walked`) meets the entries of `objects_by_id` and no others
(`WalkMeetsAll`, `WalkMeetsEntries`).

### Scripts and messages

`TreeParentsAsWritten`: of each entry of the two stacks of `mtree_parse` the invariant
says what the property says of a line (`EntryFits`): its parent is the last line above
that is indented less, and is on the level of the entry below; the levels rise
(`Rising`).  So whichever entry becomes the top again, also one whose level is lowered
to a level never opened (`LowerFits`), its parent is right.  Pushing (`PushFits`),
cutting (`CutFits`) and reading another line of the top's level (`LineFits`) keep this.

`LoggerExitCodeTells`: the property speaks of thresholds that were raised once and
lowered again, and of messages of long ago.  `ThresholdsInv` says that no threshold in
force is above I and the highest that was ever asked for, `CountsInv` that a message
issued at or above that has been counted and that nothing else has.

`EntriesAscendingApart`, `EntriesOverlapsReported`: what a table makes of its rows, and
the addresses that the check has seen, are defined by recursion over a list.  The
induction theorems of the library take a predicate as a parameter, which the provers
at hand cannot instantiate; Recursion states induction for *sets* of numbers
(`StepsReach`, from the least number principle, from the well-foundedness of the
naturals) and that functions defined step by step exist (`StepsExist`).  With these
`Progress`, a set of intermediate results in which the addresses rise by a word at
least if no command went back (`Upwards`), is kept along any table
(`EntriesMadeUpwards`), and the addresses seen are those of the words passed
(`OverlapsAreWarned`).  `WordsApart` and `WordAddresses` are about division by an
unknown `AddrAlign`.

### Keep blocks

For files, templates, defaults and blocks without bound.  The hypotheses: users write
comments of one form (`MixForms` is false); and of every template,

* for `KeepUserCode`: that it lists the orphaned blocks (`ListsOrphans`), as those of
  Verilog modules, SystemC and the register access in C++ of host and SoC do - others
  drop what they do not ask for -, and asks once for a block it has a default for
  (`AsksOnce`), as otherwise the second place fills with the default what the user
  emptied;
* for `KeepRegenerates`: that nothing is asked for behind the orphaned blocks
  (`OrphansLast`), which the template of Verilog modules violates (finding
  `keep_foot`), and that there is something in it, as the empty template is how the
  model notes an edit.

The three templates of the run `design` meet all of them.

The invariant is `KeepInv`: a file has comments of one form, or none that ends a block
with `pragma`.  The second part is needed since a template always writes the form
without `pragma`; a block that begins with it then never ends, so that parsing fails
and the file stays as it is (`ParsedUnended`).  Parsed without an error, a file thus has
one form (`ParsedForms`), and the parser looks for that form.

`KeepUserCode` follows the parser token by token and the template item by item, with
the lemmas of Recursion.  In a well-formed file the parser finds the keep blocks, each
once (`Passed`, `ParsedAreKeepBlocks`).  While the template runs, the copies of a block
that are left and those written are together not fewer than before, and where the
orphaned blocks are listed all are written (`CountStep`, `KeptByRun`).  Joined, the
pieces of the text lie one behind the other (`FlatPlaces`), so that each is a keep block
of the file (`TextBlock`) and there are no others (`TextBlocksOnly`).

`KeepRegenerates`: `SettleInv` adds that a file nobody edited is what its template wrote
of some blocks.  Parsing a text that was written gives back the blocks written
(`TextParsed`); the first ones are those the template asked for, in the order it asks
(`FirstNames`), so that each pop of the second run takes the first block left and
writes the same piece again (`ReplayedStep`), and what is left then is what the first
run listed (`SecondRun`).  Only that the first run may have listed empty blocks, which
write nothing and are not found again, makes the pieces differ; joined they are the
same (`Rejoined`).

### Register access

The assumptions of the devices are `SizeAssumption`, `MaskAssumption`,
`SubwordAssumption` and `NoneAssumption`: what section 3 says of word sizes, masks and
the null value.  `Undisturbed` is a hypothesis of two of the theorems, not an
assumption: without it they are false.  (`MCRegfileDevice` has it as an assumption of
its instance.)

The invariant is `DeviceInv`: types, that every call is one that
its user may make (`CallsAsked`), and `ReadStillHolds`.  The last one needs
`CallsAsked`: a word that one user has read in order to write it back is neither
`AlwaysDirect` nor shared, so that no other call is for it (`Exclusive`), and the
hardware only drives bits that do not count.  For the refinement a bus write must
change exactly the writable bits of the mask.  Of a subword that follows from its
fitting (`DirectLane`), and that the search ends at one that fits follows from the
well-foundedness of the natural numbers, used twice: for the size and for the
place (`FirstFitFits`).  Of a write-back it follows from `ReadStillHolds`.

*Bit cache*: `OnlyEnabledHolds` is inductive.  It is what makes `Landed`, which looks at
the flag, equal to `seen`, which does not (`LandedIsSeen`); a gathered write is then a
write to `seen` because the masks are disjoint (`GatherWrites`), and each other
action leaves `seen` alone or writes it directly.

*Word cache*: `RoomForNext` is inductive with the type of the list.  The registers
behind the list are a recursion over it: it has one value for each prefix
(`WrittenOneByOne`, by `StepsExist` and `StepsReach`), so that appending a write writes
last (`WrittenLast`) and what the hardware drives meanwhile goes past the list
(`DrivenBehind`).

*Entries*, under `EntryAssumption` (types, fields that do not overlap, a reset value
within the writable fields).  `Mirrored`: the mirrored value is right about the writable
fields of the register, always, and in a test that sets nothing the desired value is the
mirrored one.  The first part needs the second: a direct write of a field copies the
whole desired value.  This is where the finding `entry_mixed` breaks it.  For the second
theorem the entry must be the only object that fields set (`OnlyTheEntry`), which the
finding `entry_copies` breaks.  Both theorems thus say exactly which tests may rely on
what the documentation says of all.

### Register files

For all entries, registers, handshakes, requests and depths of synchronizers, from
`ApbAssumption` and `ProtAssumption`.

A synchronizer holds the answers of the last cycles.  `HandshakeInv`
says, for each of the four states of request and answer, that the synchronizer holds
one value throughout (`Filled`), or is being filled from its input on (`Filling`); the
request changes only when the new value has come out at the end (`Through`), and
while it waits the access goes on with its permission (`StillRequested`, here
`ProtAssumption` is needed).  For the refinement a stored write changes the selected
plain bits and nothing else, also in the cycles in which a trigger goes back.

`ApbReadsAreFresh`: `DelayInv` says that the synchronizer that measures the delay holds
one mark, and only while an access to synchronized bits is under way; that the bits up
to where the mark has come are of this access; and that the answer of a handshake is
behind the mark, so that an access that waits for both does not end on the answer
with older bits.

`ApbErrTells`: `slverr` is about the permission of the last cycle, the store about that
of another.  `PermissionInv` and `ErrInv` relate the two: a write that has stored keeps
its permission, one that has not lost it for good after its first cycle.  The theorem
needs that the entry behind `prot_enable` has no synchronized bits
(`Sampled[ProtEntry] = {}`).  With some, its write ends later than it stores, so that it
may take away its own permission: carried out, and answered with an error.  TLC shows
that case when an instance has it; `apb` has not.

`ApbTriggersOnce`: `LoadInv` says which triggers the current access has loaded, `AwayInv`
that a register away from its reset value is one of these.  The theorem needs
`DelayLastsLonger`: no entry has both triggers and synchronized bits, or synchronizers
have two stages or more.  With one stage such a write would end in the cycle in which it
loads its triggers, before they are noted.  TLC shows that case too.

### Only model-checked

* `AccessEnds` is liveness under fairness, which the provers cannot treat.
* What the runs of section 6 refute has no theorem: `ProtectedAsAsked`, `CommandsAnswer` for all
  requests, entries of tests outside the two hypotheses above.

## 6. What the runs found

Seven runs are expected to end in a violation, of something the repository says
about itself:

* `connection_freed`: a `connect` returns "*Net object of the newly created signal or an
  error*" (`lib/ig_tcl.c:1111`).  When two endpoints give the top module two names, the
  tree branches at its root, `ig_lib_htree_reduce` frees it as a whole
  (`lib/ig_lib.c:968`), and `connect` (or `parameter`) goes on with freed memory.  One
  command in any hierarchy is enough.
* `objects_nettables`: the tables map names "*to net object*" (`lib/ig_lib.h:52`).
  When a connection fails after its first objects, `connect` frees the net
  (`lib/ig_tcl.c:1222`) but the tables keep it.  `NoDanglingReference` shows that
  the damage is confined to the entries of that net.
* `entry_mixed`: `needs_update` "*Returns True if any of the fields need
  updating*" (`templates/default/rf/static/py/regfile_generics/regfile.py:367`).
  After a field was set, a direct write of another one copies the whole desired
  value to the mirrored one: the set field is taken for written.
* `entry_copies`: `write_update` is a "*wrapper function around set() fields ...
  and update()*" (`regfile.py:405`).  Fields are shared with copies, and their
  `set` belongs to the object that asked first: when that is a copy, values set
  through the entry go to the copy, and `update` sends old ones.
* `apb_protected`: a trigger register "*toggles back to its reset value directly after
  its write-cycle*" (`doxy/construct.md:267`), and the bus master of the tests waits for
  a ready without another way out (`test/resources/apb_stim/apb_stim.cpp:52`).  In a
  protected entry, the ready of a write that selects a trigger register waits for it
  to be loaded, which a write without permission never does: the access never ends.
  `AccessEnds` of the run `apb` shows that it does where triggers are not protected.
* `keep_foot`: "*When the output is regenerated the part within those blocks is kept as
  it is*" (`doxy/construct.md:395`).  The template of Verilog modules lists the blocks
  that are left before it asks for `foot` (`templates/default/vlog/template.wtf.v:38`):
  each generation writes one more copy of it.
* `table_protect`: "*For multiple registers of the same entry name, address and
  protection only need to be specified for the first one*" (`doxy/construct.md:322`).
  The protection is forgotten with the next row (`icglue_construct.tcl:2112`).

Seen while modelling, and modelled as they are, but without a run of their own:

* A second `add_codesection` of one name replaces the table entry of the first
  (`lib/ig_lib.c:297`), whose Object-ID is thus not unique; the first lives on in
  the queue of its module.
* The default instance of a module that was never placed is in no table and no
  queue; a reset leaves it behind with its back-reference (`lib/ig_data.c:563`).
  `NothingLeaksButOrphans` and `BackReferencesLive` show that this is the only
  exception, and that nothing leads to it any more.
* Of two names for one module both are kept, unless a climb without a name takes
  both in; then the last one wins (`lib/ig_lib.c:712`).  `Asked` is compared only
  for requests that name everything once.  At the top module two names lead to the
  run `connection_freed`.
* A value larger than the word is announced to be truncated but handed on as it
  is (`regfile.py:487`).  The devices cope with it, as `Value` of the run `python`
  shows.
* Comments with and without `pragma` are both accepted (`icglue_templates.tcl:1056`), but
  one begin comment with it makes the parser look for that form only: in a file that
  mixes them the others are dropped.  `UserCodeKept` is violated with `MixForms` set.
  Templates without a place for orphans (host software, Verilog shells) drop blocks
  that they do not ask for; `Templates` has those that have one.
* Tables in csv and yaml (`icglue_construct.tcl:567`, `725`) start the next address anew at
  `-addroffset`, 0 by default, where tables written as lists go on from the last one
  (`doxy/construct.md:206`): entries overlap, which is reported as a warning
  (`OverlapsReported`).
* Two codesections given one name share an Object-ID: the lists show it twice, and only
  the newer object can be reached by it.
* With the level of internal errors a script can suppress errors, and the exit code is
  then 0; with `-q` and `-l W,id` a warning of that id is printed and the exit code is
  0 all the same.  `ExitCodeTells` says where the code can be trusted.

Seen on the way, and not part of a model: the error message of `set_attribute` passes a
list for `%s` (`lib/ig_tcl.c:483`); `LOGLEVEL_DEFAULT` is to reset a threshold
(`lib/logger.h:42`) but is entered as one (`lib/logger.c:84`), which no command can do;
`mtree_process_modules` reports a module given twice only where it is the first of the
list (`lsearch ... == 0`); `icglue_sng.tcl:765` gives `parse_keep_blocks` a file extension
in the place of the comment, so that its check finds nothing; the values `x` and `X` of a
table's protection are listed as accepted and raise an error.  A string command is
"*w<NUMBITS> <address> <value> [bsel]*" (`regfile_device.py:304`), but `rfdev_write_subword`
masks the offset in the word with the number of its address bits (line 318), 2 for words of
four bytes, instead of 3: at odd bytes address and byte select are those of another subword.

## 7. What is not modelled, and the plan

* *Attributes* (`set_attribute`, `get_attribute`): one table per object, written and read
  by these commands alone; what could go wrong is a single assignment.
* *Parameters, adjustments and generics on the heap*: their code is that of ports, pins
  and nets with other names; `IgConnection` has them where they differ.
* *The other commands of the Tcl layers*: they translate options to the commands of the
  package and keep no state of their own but what is modelled.  The checks of single
  values and the helpers that format are functions of text.
* *Translation of templates*, the parsers of the older language and of Verilog, option
  parsing and the window of `bin/icglue`, schematic drawing, editor modes: text, or
  tools around the system.  The window generates again on the same database and with
  the same counters.
* *An interrupted write* of a generated file: see KeepBlocks.  Nothing else is persistent.
* *Exceptions* thrown by a device out of a flush, and a cache destroyed while writes wait:
  the library throws nothing there itself and promises nothing.
* *Adding fields and entries* to a Python register file, its block access (a loop over
  words), the string commands, the debug devices and `mem_access_t`; the older form of the Python access.
* *Of the register file*: reset, registers with custom code, handshakes without a
  synchronizer, clock gating; a protection register behind a handshake.

What could come next: adding entries and fields to Python register files, with their
checks of overlaps, and block access; parameters and generics in IgObjects if their code
departs from that of ports and nets.
