--------------------------- MODULE IgDesignForest ---------------------------
(***************************************************************************)
(* What the module hierarchy of the icglue database promises to its users: *)
(* the generated modules form a forest.  A module is placed at most once,  *)
(* inside a module that is not below it, and stays there until the         *)
(* database is reset.  Nothing is said of tables, queues or instances:     *)
(* IgHierarchy implements this specification.                              *)
(***************************************************************************)

CONSTANTS Name,     \* the names modules are given
          NULL      \* no module

VARIABLES node,     \* the generated modules that exist
          up        \* up[m]: the module that m is placed in, or NULL

forestVars == <<node, up>>

(***************************************************************************)
(* The members of S are all below or at c when S contains c and, with      *)
(* every module placed directly in a member, that module as well.          *)
(***************************************************************************)
Below(c) == {x \in Name : \A S \in SUBSET Name :
                /\ c \in S
                /\ \A y \in Name : up[y] \in S => y \in S
                => x \in S}

ForestInit == /\ node = {}
              /\ up = [m \in Name |-> NULL]

Grow(m) == /\ m \notin node
           /\ node' = node \cup {m}
           /\ UNCHANGED up

Place(c, p) == /\ {c, p} \subseteq node
               /\ up[c] = NULL
               /\ p \notin Below(c)
               /\ up' = [up EXCEPT ![c] = p]
               /\ UNCHANGED node

Clear == /\ node' = {}
         /\ up' = [m \in Name |-> NULL]

ForestNext == \/ \E m \in Name : Grow(m)
              \/ \E c, p \in Name : Place(c, p)
              \/ Clear

ForestSpec == ForestInit /\ [][ForestNext]_forestVars
=============================================================================
