--------------------------- MODULE MCIgConnection ---------------------------
(* IgConnection for TLC: endpoint writings, and hierarchies to start from. *)
EXTENDS IgConnection, TLC

CONSTANTS a, b, c, mem, mem_i, nm

As(name, force, invert) == [name |-> name, force |-> force, invert |-> invert]
Plain == As(NoName, FALSE, FALSE)

(* Without a name, inverted or not; with a name to keep, with or without a *)
(* suffix; with a name to be given a suffix.                               *)
Writings == {Plain, As(NoName, FALSE, TRUE), As(<<nm>>, FALSE, FALSE),
             As(<<nm>>, TRUE, FALSE), As(<<nm, "i">>, TRUE, FALSE)}
PlainOrForced == {Plain, As(<<nm>>, TRUE, FALSE)}
TwoNames == {Plain, As(<<nm>>, TRUE, FALSE), As(<<nm, "i">>, TRUE, FALSE)}

Written(writings) == {e \in Endpoint : e.as \in writings}
OneWay(sources, ends, n) == [source : sources, targets : [1 .. n -> ends], bidir : {FALSE}]

(* Of three endpoints, c and the leaf may be named by their instances.     *)
OfThree(writings) ==
  {e \in Written(writings) : e.of \in IF e.type = "module" THEN {a, b, c} ELSE {c, mem_i}}

(* Hierarchies of the generated modules a, b, c with an instance mem_i of  *)
(* the resource module mem, up to a renaming of a, b and c.                *)
Shapes == {[b |-> NULL, c |-> NULL], [b |-> a, c |-> NULL],
           [b |-> a, c |-> a], [b |-> a, c |-> b]}

Designed(shape, p) ==
  /\ modules = {a, b, c, mem}
  /\ resource = {mem}
  /\ default_parent = [n \in Name |-> IF n = b THEN shape.b ELSE IF n = c THEN shape.c ELSE NULL]
  /\ instances = [n \in Name |->
       IF n = mem_i THEN [module |-> mem, parent |-> p]
       ELSE IF default_parent[n] # NULL THEN [module |-> n, parent |-> default_parent[n]]
       ELSE NULL]
  /\ child_instances = [n \in Name |->
       LET in(o) == instances[o] # NULL /\ instances[o].parent = n
       IN  SelectSeq(<<b, c, mem_i>>, in)]
  /\ mod_instances = [n \in Name |->
       LET of(o) == instances[o] # NULL /\ instances[o].module = n
       IN  SelectSeq(<<b, c, mem_i>>, of)]

DesignInit ==
  /\ \E shape \in Shapes, p \in {a, b, c} : Designed(shape, p)
  /\ items = {}
  /\ nets = [s \in Signal |-> NULL]
  /\ generics = [s \in Signal |-> NULL]
  /\ reply = NoReply

(* One request of any kind with up to two endpoints, or with a source and  *)
(* two targets, which have two names or none, in each hierarchy.           *)
CONSTANT First, Second
Single == {q \in Request : q.bidir \/ Len(q.targets) <= 1}
AskFirst ==
  /\ mem \in modules /\ reply = NoReply
  /\ \/ \E request \in Single \cup OneWay(OfThree(PlainOrForced), OfThree(TwoNames), 2) : Connect(First, request)
     \/ \E targets \in Targets(1 .. MaxEnds) : Parameterize(First, targets)

(* In one of the hierarchies a second signal after the first.              *)
Small == OneWay(Written(PlainOrForced), Written(PlainOrForced), 1)
AskSecond ==
  /\ instances[b] # NULL /\ Designed([b |-> a, c |-> NULL], b)
  /\ nets[First] # NULL /\ nets[First].request \in Small /\ nets[Second] = NULL
  /\ reply.outcome # "refused"
  /\ \E request \in Small : Connect(Second, request)

(* Any sequence of commands on two names, from the empty database on, with *)
(* few objects that belong to no net.  A refused command changes nothing   *)
(* but the reply, so that what may follow it has been explored before it;  *)
(* only a reset follows it here.  A signal and a parameter share nothing,  *)
(* so that only one of them is made.                                       *)
CONSTANT MaxLoose
Pair == {a, b}
PairEnds == [type : {"module", "instance"}, of : Pair, as : PlainOrForced]
PairRequests == OneWay(PairEnds, PairEnds, 0) \cup OneWay(PairEnds, PairEnds, 1)
  \cup [source : {NULL}, targets : [1 .. 1 -> PairEnds], bidir : {TRUE}]
Loose(S) == {y \in S : y.net = NULL}
AnySequence ==
  /\ modules \subseteq Pair
  /\ \/ /\ reply.outcome # "refused"
        /\ Commands(Pair, {First}, PairRequests, [1 .. 1 -> PairEnds], PlainOrForced)
     \/ reply.outcome = "refused" /\ ResetAll
  /\ Cardinality(Loose(items')) <= MaxLoose
  /\ NULL \in {nets'[First], generics'[First]}

MCInit == DesignInit \/ ConnectionInit
MCSpec == MCInit /\ [][AskFirst \/ AskSecond \/ AnySequence]_connectionVars

=============================================================================
