---------------------------- MODULE IgConnection ----------------------------
(***************************************************************************)
(* Signals and parameters through the hierarchy: the commands connect,     *)
(* parameter and create_pin (lib/ig_tcl.c) on ig_lib_connection and        *)
(* ig_lib_parameter (lib/ig_lib.c).                                        *)
(*                                                                         *)
(* A request names endpoints, modules or instances anywhere in the         *)
(* hierarchy.  The library climbs from each endpoint to its top module,    *)
(* merges the climbs into one tree, cuts the tree down to the part the     *)
(* signal needs, and walks what is left: a declaration in the module the   *)
(* endpoints share, and a pin and a port on every way down.                *)
(*                                                                         *)
(* A name is a sequence: a base, then the suffixes that were generated     *)
(* ("s", "i", "o", "b") or that the user wrote; <<"clk", "i">> is clk_i.   *)
(* Sizes, default values and the caps variant of suffixes are left out.    *)
(***************************************************************************)
EXTENDS IgHierarchy, Naturals, SequencesExt, FiniteSetsExt

CONSTANTS Signal,      \* names of signals and of parameters
          Writing,     \* how endpoints are written: [name, force, invert]
          MaxTargets,  \* bound on the number of targets of a source
          MaxEnds      \* bound on the number of endpoints without a source

NoName == <<>>

(* ig_tclc_connection_parse: "id", "id:name" (forced), "id:name!" (adapted *)
(* by a suffix), each of them inverted by a leading "~".                   *)
Endpoint == [type : {"module", "instance"}, of : Name, as : Writing]

(* A source and targets, or bidirectional endpoints.                       *)
Targets(ns) == UNION {[1 .. n -> Endpoint] : n \in ns}
Request == [source : Endpoint, targets : Targets(0 .. MaxTargets), bidir : {FALSE}]
           \cup [source : {NULL}, targets : Targets(1 .. MaxEnds), bidir : {TRUE}]

ParameterRequest == [source : {NULL}, targets : Targets(1 .. MaxEnds), bidir : {FALSE}]

(* What is in the tables of nets and generics: a request and whether all   *)
(* objects it needs were made.                                             *)
NetEntry == [request : Request \cup ParameterRequest, made : BOOLEAN]

ASSUME ConnectionAssumption == NULL \notin Signal \cup Endpoint \cup NetEntry
ASSUME BoundsAssumption == MaxTargets \in Nat /\ MaxEnds \in Nat

(* Only a name can be forced.                                              *)
ASSUME WritingAssumption ==
  \A w \in Writing : /\ w.name \in Seq(Range(w.name))
                     /\ w.force \in BOOLEAN /\ w.invert \in BOOLEAN
                     /\ w.force => w.name # NoName

VARIABLES
  items,     \* pins, ports, declarations, adjustments and parameters
  nets,      \* nets_by_name: signal -> [request, made], or NULL
  generics,  \* generics_by_name, likewise
  reply      \* the last command connect or parameter and what it answered

connectionVars == <<hierarchyVars, items, nets, generics, reply>>

NoReply == [outcome |-> "none"]

ConnectionInit ==
  /\ HierarchyInit
  /\ items = {}
  /\ nets = [s \in Signal |-> NULL]
  /\ generics = [s \in Signal |-> NULL]
  /\ reply = NoReply

-----------------------------------------------------------------------------
(* Names: gen_name_signal, gen_name_pinport, rm_suffix_pinport.            *)
Suffixed(name, suffix) == Append(name, suffix)

RmSuffix(name) == IF Len(name) > 1 THEN Front(name) ELSE name

PortDir(d) == CASE d = "up" -> "out" [] d = "bidir" -> "bidir" [] OTHER -> "in"
DirSuffix  == [in |-> "i", out |-> "o", bidir |-> "b"]
PinName(name, d) == Suffixed(name, DirSuffix[PortDir(d)])

-----------------------------------------------------------------------------
(* The endpoints of a request: number 0 is the source.                     *)
Numbers(request) == DOMAIN request.targets \cup IF request.source = NULL THEN {} ELSE {0}
EndAt(request, k) == IF k = 0 THEN request.source ELSE request.targets[k]
Ends(request) == {EndAt(request, k) : k \in Numbers(request)}

DirAt(request, k) == IF request.bidir THEN "bidir" ELSE IF k = 0 THEN "up" ELSE "default"

(* The generated module in which a climb begins. *)
Generated(e)  == IF e.type = "module" THEN e.of ELSE instances[e.of].module
OfResource(e) == Generated(e) \in resource
Host(e) == IF OfResource(e) THEN instances[e.of].parent ELSE Generated(e)

(* A module and the modules around it. *)
Above[m \in Name] == {m} \cup IF default_parent[m] = NULL THEN {} ELSE Above[default_parent[m]]

(* ig_lib_gen_hierarchy: a list with a node for each of these modules and  *)
(* one for its default instance above it.  An instance of a resource       *)
(* module, a leaf, comes below them.  A resource module has no way up.     *)
HasClimb(e) == OfResource(e) => e.type = "instance"

Climb(request, k) ==
  LET e == EndAt(request, k)
  IN  [number |-> k, modules |-> Above[Host(e)], from |-> Host(e),
       leaf |-> IF OfResource(e) THEN e.of ELSE NULL, as |-> e.as, dir |-> DirAt(request, k)]

Climbs(request) == {Climb(request, k) : k \in Numbers(request)}

PassesBy(c, type, of) == IF type = "leaf" THEN of = c.leaf ELSE of \in c.modules

(* Fault: copy_first is forgotten. *)
GivenAt_ModuleOnly(c, type, of) ==
  IF type = "leaf" THEN of = c.leaf ELSE c.leaf = NULL /\ of = c.from /\ type = "module"

(* The nodes with the local name, its force and the inversion of the       *)
(* endpoint: the first, and with copy_first the second.                    *)
GivenAt(c, type, of) ==
  IF type = "leaf" THEN of = c.leaf ELSE c.leaf = NULL /\ of = c.from

(* The first node is explicit; of a leaf the next one too (explicit_next). *)
ExplicitAt(c, type, of) ==
  IF type = "leaf" THEN of = c.leaf ELSE of = c.from /\ type = "module"

LocalName(c, type, of) == IF GivenAt(c, type, of) THEN c.as.name ELSE NoName

-----------------------------------------------------------------------------
(* ig_lib_merge_hierarchy_list: the heads of the climbs S become one node. *)
(* Climbs are put in front of a list, the source first, and the list is    *)
(* turned around at each level; these are instances and modules by turns.  *)
FirstOf(type, S) ==
  CHOOSE c \in S : \A d \in S : IF type = "module" THEN c.number <= d.number ELSE c.number >= d.number
LastOf(type, S) ==
  CHOOSE c \in S : \A d \in S : IF type = "module" THEN c.number >= d.number ELSE c.number <= d.number

(* Fault: the direction of the first climb is kept. *)
DirOf_First(type, S) == FirstOf(type, S).dir

DirOf(type, S) ==
  LET dirs == {c.dir : c \in S}
  IN  IF \E d \in dirs : dirs \subseteq {d, "default"}
      THEN CHOOSE d \in dirs : dirs \subseteq {d, "default"}
      ELSE "bidir"

Merged(type, of, S, inherited) ==
  LET named == {c \in S : LocalName(c, type, of) # NoName}
      last  == LastOf(type, named)
  IN  [type |-> type, of |-> of, climbs |-> S,
       name     |-> IF named = {} THEN inherited ELSE last.as.name,
       force    |-> named # {} /\ last.as.force,
       dir      |-> DirOf(type, S),
       invert   |-> \E c \in S : GivenAt(c, type, of) /\ c.as.invert,
       explicit |-> \E c \in S : ExplicitAt(c, type, of)]

(* Fault: an unnamed climb is not merged with a named one. *)
Together_SameNameOnly(first, name) == name

(* What follows in the climbs S at one object is grouped by name: all go   *)
(* with a first one without a name, those without a name with the first.   *)
Together(first, name) == IF NoName \in {first, name} THEN first ELSE name

Groups(type, of, S) ==
  LET first   == LocalName(FirstOf(type, S), type, of)
      with(c) == Together(first, LocalName(c, type, of))
  IN  {{c \in S : with(c) = x} : x \in {with(c) : c \in S}}

HandsDown(n) == IF n.force THEN RmSuffix(n.name) ELSE n.name

(* The children of the node n at an object next below it. *)
Children(n, type, of) ==
  LET S == {c \in n.climbs : PassesBy(c, type, of)}
  IN  {Merged(type, of, T, HandsDown(n)) : T \in Groups(type, of, S)}

(* All climbs begin at the same top module, whose default instance is the  *)
(* root of the tree.                                                       *)
TreeRoot(s, climbs, m) ==
  IF \A c \in climbs : m \in c.modules THEN {Merged("instance", m, climbs, <<s>>)} ELSE {}

(* The nodes at the default instance of a module and at the module.        *)
Merge(s, climbs) ==
  LET at[m \in Name] ==
        LET instance == IF default_parent[m] = NULL THEN TreeRoot(s, climbs, m)
                        ELSE UNION {Children(n, "instance", m) : n \in at[default_parent[m]].module}
        IN  [instance |-> instance,
             module   |-> UNION {Children(n, "module", m) : n \in instance}]
  IN  at

Tree(s, climbs) ==
  LET at == Merge(s, climbs)
      both(node) == node.instance \cup node.module
      leaves(c) == IF c.leaf = NULL THEN {} ELSE UNION {Children(n, "leaf", c.leaf) : n \in at[c.from].module}
  IN  (UNION {both(at[m]) : m \in Name}) \cup (UNION {leaves(c) : c \in climbs})

-----------------------------------------------------------------------------
(* The object around that of a node, in the climbs. *)
Around(n) == CASE n.type = "module"   -> <<"instance", n.of>>
               [] n.type = "instance" -> <<"module", default_parent[n.of]>>
               [] n.type = "leaf"     -> <<"module", instances[n.of].parent>>

IsParent(p, n) == <<p.type, p.of>> = Around(n) /\ n.climbs \subseteq p.climbs

(* n is r or below it. *)
Under(n, r) ==
  LET m == IF n.type = "leaf" THEN instances[n.of].parent ELSE n.of
  IN  /\ n.climbs \subseteq r.climbs
      /\ IF r.type = "leaf" THEN n = r
         ELSE r.of \in Above[m] /\ ~ (r.type = "module" /\ n.type = "instance" /\ n.of = r.of)

(* ig_lib_htree_reduce goes down from the root to the first branching or   *)
(* explicit node; what is left is the tree under it.  The node is taken    *)
(* off the tree, and the rest is freed.                                    *)
Stops(tree, n) ==
  LET children == {x \in tree : IsParent(n, x)}
  IN  n.explicit \/ \E x, y \in children : x # y

Reduce(tree) ==
  LET stops == {r \in tree : Stops(tree, r)}
  IN  {n \in tree : \E r \in stops : Under(n, r)}

(* The root cannot be taken off: when the root itself branches, what is    *)
(* left is the whole tree, and all of it is freed.  So it is when a top    *)
(* module is given two names, which keep two nodes apart under the root.   *)
Freed(tree) == \E n \in tree : n.type = "instance" /\ default_parent[n.of] = NULL

(* The tree that a request leads to; {} if it leads to none.               *)
TreeOf(s, request) ==
  IF \A e \in Ends(request) : HasClimb(e) THEN Reduce(Tree(s, Climbs(request))) ELSE {}

IsRoot(tree, n) == \A p \in tree : ~ IsParent(p, n)
Parent(tree, n) == CHOOSE p \in tree : IsParent(p, n)

-----------------------------------------------------------------------------
(* An object of the net or generic s; conn is what a pin is connected to   *)
(* and the value of an adjustment.                                         *)
Item(kind, of, name, conn, dir, invert, s) ==
  [kind |-> kind, of |-> of, name |-> name, conn |-> conn, dir |-> dir,
   invert |-> invert, net |-> s]

(* An Object-ID.  Default instances and modules go by the same name.       *)
Id(x) == <<x.kind, x.of, x.name>>
Ids(S) == {Id(x) : x \in S}

(* Fault: a pin is connected to the signal's local name. *)
SignalObject_LocalConn(n, outer, isRoot, s) ==
  CASE n.type # "module" ->
         Item("pin", n.of, IF n.force THEN n.name ELSE PinName(n.name, n.dir),
              n.name, PortDir(n.dir), n.invert, s)
    [] n.type = "module" /\ isRoot ->
         Item("declaration", n.of, IF n.force THEN n.name ELSE Suffixed(n.name, "s"),
              NoName, "none", FALSE, s)
    [] OTHER -> Item("port", n.of, outer, NoName, PortDir(n.dir), FALSE, s)

(* Fault: a port takes the local name, not that of the pin. *)
SignalObject_PortLocal(n, outer, isRoot, s) ==
  CASE n.type # "module" ->
         Item("pin", n.of, IF n.force THEN n.name ELSE PinName(n.name, n.dir),
              outer, PortDir(n.dir), n.invert, s)
    [] n.type = "module" /\ isRoot ->
         Item("declaration", n.of, IF n.force THEN n.name ELSE Suffixed(n.name, "s"),
              NoName, "none", FALSE, s)
    [] OTHER -> Item("port", n.of, n.name, NoName, PortDir(n.dir), FALSE, s)

(* ig_lib_htree_process_signal_tfunc: what a node of the tree becomes;     *)
(* outer is the name the node above hands down, NoName at the root.        *)
SignalObject(n, outer, isRoot, s) ==
  CASE n.type # "module" ->
         Item("pin", n.of, IF n.force THEN n.name ELSE PinName(n.name, n.dir),
              outer, PortDir(n.dir), n.invert, s)
    [] n.type = "module" /\ isRoot ->
         Item("declaration", n.of, IF n.force THEN n.name ELSE Suffixed(n.name, "s"),
              NoName, "none", FALSE, s)
    [] OTHER -> Item("port", n.of, outer, NoName, PortDir(n.dir), FALSE, s)

(* ig_lib_htree_process_parameter_tfunc: local names are taken as they are.*)
ParameterObject(n, outer, isRoot, s) ==
  IF n.type # "module"
  THEN Item("adjustment", n.of, n.name, outer, "none", FALSE, s)
  ELSE Item("parameter", n.of, IF isRoot THEN n.name ELSE outer, NoName, "none", FALSE, s)

(* The name a node hands down: a port has that of the pin above it.        *)
NameOf(tree, n, isSignal) ==
  LET x == IF n.type = "module" /\ ~ IsRoot(tree, n) THEN Parent(tree, n) ELSE n
      isRoot == IsRoot(tree, x)
  IN  IF isSignal THEN SignalObject(x, NoName, isRoot, NULL).name
                  ELSE ParameterObject(x, NoName, isRoot, NULL).name

(* ig_lib_htree_process_signal, ..._parameter: the objects wanted, with    *)
(* their nodes; each hands its name down.                                  *)
Objects(tree, s, isSignal) ==
  {[node |-> n, object |->
      LET isRoot == IsRoot(tree, n)
          outer  == IF isRoot THEN NoName ELSE NameOf(tree, Parent(tree, n), isSignal)
      IN  IF isSignal THEN SignalObject(n, outer, isRoot, s)
                      ELSE ParameterObject(n, outer, isRoot, s)] : n \in tree}

(* Fault: the Object-IDs of the database are not looked at. *)
Free_Blind(wanted) == wanted

Free(wanted) == LET taken == Ids(items) IN {w \in wanted : Id(w.object) \notin taken}

Rivals(free, w) == {v \in free : Id(v.object) = Id(w.object)}

(* Each object is entered unless its Object-ID is taken, which fails the   *)
(* command but does not stop the walk.  Of several nodes that need one     *)
(* Object-ID the walk comes to one first; to which is left open here.      *)
Enterable(wanted) ==
  LET free   == Free(wanted)
      alone  == {w \in free : Rivals(free, w) = {w}}
      others == free \ alone
  IN  {alone \cup S :
         S \in {T \in SUBSET others : \A w \in others : \E v \in T : T \cap Rivals(free, w) = {v}}}

(* ig_lib_add_net, ig_lib_add_generic: entered whether or not an object    *)
(* failed; the objects are given to it only if none did.                   *)
Create(wanted, entered) ==
  items' = items \cup
    {IF entered = wanted THEN w.object ELSE [w.object EXCEPT !.net = NULL] : w \in entered}

Outcome(wanted, entered) == IF entered = wanted THEN "made" ELSE "failed"

Entry(wanted, entered, request) == [request |-> request, made |-> entered = wanted]

(* The Object-IDs of the endpoints are looked up first.                    *)
Known(e) == IF e.type = "module" THEN e.of \in modules ELSE instances[e.of] # NULL

Reply(command, s, request, outcome) ==
  [command |-> command, signal |-> s, request |-> request, outcome |-> outcome]

(* Without a tree a command is refused.  A freed tree is printed, walked   *)
(* and freed again: what this does is undefined, and nothing is said of    *)
(* what comes after it (Commands).                                         *)
Unwalked(tree) == IF tree = {} THEN "refused" ELSE "undefined"

(* The command connect *)
Connect(s, request) ==
  /\ \A e \in Ends(request) : Known(e)
  /\ LET tree   == IF nets[s] = NULL THEN TreeOf(s, request) ELSE {}
         wanted == Objects(tree, s, TRUE)
     IN  IF tree = {} \/ Freed(tree)
         THEN /\ reply' = Reply("connect", s, request, Unwalked(tree))
              /\ UNCHANGED <<items, nets>>
         ELSE \E entered \in Enterable(wanted) :
                /\ Create(wanted, entered)
                /\ nets' = [nets EXCEPT ![s] = Entry(wanted, entered, request)]
                /\ reply' = Reply("connect", s, request, Outcome(wanted, entered))
  /\ UNCHANGED <<hierarchyVars, generics>>

(* The command parameter: the endpoints have no direction.                 *)
Parameterize(s, targets) ==
  LET request == [source |-> NULL, targets |-> targets, bidir |-> FALSE]
  IN  /\ \A e \in Ends(request) : Known(e)
      /\ LET tree   == IF generics[s] = NULL THEN TreeOf(s, request) ELSE {}
             wanted == Objects(tree, s, FALSE)
         IN  IF tree = {} \/ Freed(tree)
             THEN /\ reply' = Reply("parameter", s, request, Unwalked(tree))
                  /\ UNCHANGED <<items, generics>>
             ELSE \E entered \in Enterable(wanted) :
                    /\ Create(wanted, entered)
                    /\ generics' = [generics EXCEPT ![s] = Entry(wanted, entered, request)]
                    /\ reply' = Reply("parameter", s, request, Outcome(wanted, entered))
      /\ UNCHANGED <<hierarchyVars, nets>>

(* The command create_pin: the pin stays when the port cannot be added     *)
(* (PinsInStep says that this does not happen).                            *)
CreatePin(i, name, dir) ==
  /\ instances[i] # NULL
  /\ LET m    == instances[i].module
         pin  == Item("pin", i, name, name, "none", FALSE, NULL)
         port == Item("port", m, name, NoName, dir, FALSE, NULL)
     IN  /\ Id(pin) \notin Ids(items)
         /\ items' = items \cup {pin} \cup
              {x \in {port} : m \notin resource /\ Id(port) \notin Ids(items)}
  /\ UNCHANGED <<hierarchyVars, nets, generics, reply>>

(* The command reset *)
ResetAll ==
  /\ Reset
  /\ items' = {}
  /\ nets' = [s \in Signal |-> NULL]
  /\ generics' = [s \in Signal |-> NULL]
  /\ reply' = NoReply

(* The commands on some of the names, with some of the requests.           *)
Grow(names) ==
  /\ \/ \E m \in names, isResource \in BOOLEAN : AddModule(m, isResource)
     \/ \E type, parent \in names : AddDefaultInstance(type, parent)
     \/ \E i, type, parent \in names : AddResourceInstance(i, type, parent)
  /\ UNCHANGED <<items, nets, generics, reply>>

(* None comes after one whose outcome is undefined.                        *)
Commands(names, signals, requests, parameterized, pins) ==
  /\ reply.outcome # "undefined"
  /\ \/ Grow(names)
     \/ \E s \in signals, request \in requests : Connect(s, request)
     \/ \E s \in signals, targets \in parameterized : Parameterize(s, targets)
     \/ \E i \in names, w \in pins, dir \in {"in", "out", "bidir"} :
          w.name # NoName /\ CreatePin(i, w.name, dir)
     \/ ResetAll

ConnectionNext == Commands(Name, Signal, Request, Targets(1 .. MaxEnds), Writing)

ConnectionSpec == ConnectionInit /\ [][ConnectionNext]_connectionVars

-----------------------------------------------------------------------------
(* What a request asks for, said without trees, for requests in which      *)
(* nothing is named in two ways.                                           *)

HasTop(request) ==
  /\ \A e \in Ends(request) : HasClimb(e)
  /\ \E r \in Name : \A e \in Ends(request) : r \in Above[Host(e)]

(* The innermost module around all endpoints. *)
Top(request) == CHOOSE m \in Name : Above[m] = {x \in Name : \A e \in Ends(request) : x \in Above[Host(e)]}

(* The instances of resource modules. *)
Leaves(request) == {e.of : e \in {f \in Ends(request) : OfResource(f)}}

(* The modules the signal enters. *)
Crossed(request) == (UNION {Above[Host(e)] : e \in Ends(request)}) \ Above[Top(request)]

(* The endpoints at a module, and at an instance of a resource module. *)
AtModule(request, m) == {e \in Ends(request) : ~ OfResource(e) /\ Host(e) = m}
AtLeaf(request, i)   == {e \in Ends(request) : OfResource(e) /\ e.of = i}

Names(S) == {[name |-> e.as.name, force |-> e.as.force] : e \in {f \in S : f.as.name # NoName}}

NamedOnce(request) ==
  /\ \A m \in Name : Cardinality(Names(AtModule(request, m))) <= 1
  /\ \A i \in Name : Cardinality(Names(AtLeaf(request, i))) <= 1

(* The name at a place: the one given there or the one handed down, with   *)
(* the suffix unless it was forced.                                        *)
NameAt(S, inherited, suffix) ==
  IF Names(S) = {} THEN inherited \o suffix
  ELSE LET n == CHOOSE x \in Names(S) : TRUE
       IN  IF n.force THEN n.name ELSE n.name \o suffix

Stem(name) == SubSeq(name, 1, IF Len(name) = 1 THEN 1 ELSE Len(name) - 1)

(* The name handed down in the module m: the innermost given around.       *)
HandedDown(request, m, s) ==
  LET namers == {x \in Above[m] : Names(AtModule(request, x)) # {}}
      inner  == CHOOSE x \in namers : namers \subseteq Above[x]
      n      == CHOOSE x \in Names(AtModule(request, inner)) : TRUE
  IN  IF namers = {} THEN <<s>> ELSE IF n.force THEN Stem(n.name) ELSE n.name

Inherited(request, m, s) ==
  IF m = Top(request) THEN <<s>> ELSE HandedDown(request, default_parent[m], s)

(* A signal leaves a module when its source is inside. *)
Direction(request, S) ==
  IF request.bidir THEN "bidir"
  ELSE IF \E e \in S : e = request.source THEN "out" ELSE "in"

Within(request, m) == {e \in Ends(request) : m \in Above[Host(e)]}

Suffix(isSignal, d) == IF isSignal THEN <<DirSuffix[d]>> ELSE <<>>

(* The name of the signal within a module of the request. *)
NameIn(request, m, s, isSignal) ==
  NameAt(AtModule(request, m), Inherited(request, m, s),
         IF m = Top(request) THEN IF isSignal THEN <<"s">> ELSE <<>>
         ELSE Suffix(isSignal, Direction(request, Within(request, m))))

Inverted(S) == \E e \in S : e.as.invert

Asked(request, s, isSignal) ==
  LET top    == Top(request)
      dir(S) == IF isSignal THEN Direction(request, S) ELSE "none"
      name(m) == NameIn(request, m, s, isSignal)
      outer  == IF isSignal THEN "declaration" ELSE "parameter"
      onWay  == IF isSignal THEN "pin" ELSE "adjustment"
      inner  == IF isSignal THEN "port" ELSE "parameter"
      inv(S) == isSignal /\ Inverted(S)
  IN  {Item(outer, top, name(top), NoName, "none", FALSE, s)}
      \cup {Item(onWay, m, name(m), name(default_parent[m]), dir(Within(request, m)),
                 inv(AtModule(request, m)), s) : m \in Crossed(request)}
      \cup {Item(inner, m, name(m), NoName, dir(Within(request, m)), FALSE, s) :
              m \in Crossed(request)}
      \cup {LET p == instances[i].parent
                S == AtLeaf(request, i)
            IN  Item(onWay, i,
                     NameAt(S, HandedDown(request, p, s), Suffix(isSignal, Direction(request, S))),
                     name(p), dir(S), inv(S), s) : i \in Leaves(request)}

ObjectsOf(s, kinds) == {x \in items : x.net = s /\ x.kind \in kinds}
SignalKinds    == {"pin", "port", "declaration"}
ParameterKinds == {"adjustment", "parameter"}

Made(entry) == entry # NULL /\ entry.made

-----------------------------------------------------------------------------
(* The objects of a net are exactly those the request asks for: whichever  *)
(* order the endpoints came in, however the climbs were merged and cut,    *)
(* and whatever was added to the hierarchy since.                          *)
NetsAsAsked ==
  \A s \in Signal : Made(nets[s]) /\ NamedOnce(nets[s].request) =>
    ObjectsOf(s, SignalKinds) = Asked(nets[s].request, s, TRUE)

(* The same of parameters. *)
GenericsAsAsked ==
  \A s \in Signal : Made(generics[s]) /\ NamedOnce(generics[s].request) =>
    ObjectsOf(s, ParameterKinds) = Asked(generics[s].request, s, FALSE)

(* A command is refused only if the name is taken or no module is around   *)
(* all endpoints, and fails only if an Object-ID it needs is taken.  Of a  *)
(* request that names everything once no outcome is undefined.             *)
AnswersJustified ==
  [][/\ reply' \notin {reply, NoReply}
     /\ NamedOnce(reply'.request)
     => LET r == reply'
            isSignal == r.command = "connect"
            taken == (IF isSignal THEN nets ELSE generics)[r.signal] # NULL
        IN  r.outcome = IF taken \/ ~ HasTop(r.request) THEN "refused"
                        ELSE IF Ids(Asked(r.request, r.signal, isSignal)) \cap Ids(items) # {}
                        THEN "failed" ELSE "made"]_connectionVars

(* In every net that is made, named in two ways or not, the pins of the    *)
(* instance of a generated module are the ports of the module, with their  *)
(* directions.  Two names for the top module make no net: CommandsAnswer.  *)
PinsMatchPorts ==
  \A s \in Signal, i \in Name :
    Made(nets[s]) /\ instances[i] # NULL /\ instances[i].module \notin resource =>
      LET ports == {x \in ObjectsOf(s, {"port"}) : x.of = instances[i].module}
          pins  == {x \in ObjectsOf(s, {"pin"}) : x.of = i}
      IN  {<<x.name, x.dir>> : x \in ports} = {<<x.name, x.dir>> : x \in pins}

(* A pin of a net that is made is connected to a port or the declaration   *)
(* of the net in the module around it, named in two ways or not: none is   *)
(* left open.  Two names for the top module make no net: CommandsAnswer.   *)
PinsConnected ==
  \A s \in Signal : Made(nets[s]) =>
    \A x \in ObjectsOf(s, {"pin"}) :
      /\ instances[x.of] # NULL
      /\ \E y \in ObjectsOf(s, {"port", "declaration"}) :
           y.of = instances[x.of].parent /\ y.name = x.conn

(* Pins of default instances and ports of their modules are made by        *)
(* different look-ups, and either may fail alone.  They stay in step all   *)
(* the same, through commands that answer that they failed and after       *)
(* create_pin, so that create_pin never leaves a pin without its port.     *)
(* Excepted is what may follow a command that gives two names to the top   *)
(* module and walks the tree it freed: see CommandsAnswer.                 *)
PinsInStep ==
  \A m \in modules \ resource :
    LET named(kind) == {x.name : x \in {y \in items : y.kind = kind /\ y.of = m}}
    IN  instances[m] = NULL \/ instances[m].module = m => named("pin") = named("port")

(* Every command connect or parameter ends in an object or an error.  The  *)
(* code does not keep to this when endpoints give the top module two names *)
(* that the merge keeps apart: the tree branches at its root, the cut      *)
(* frees the whole of it, and the command goes on with what it has freed.  *)
CommandsAnswer == reply.outcome # "undefined"
=============================================================================
