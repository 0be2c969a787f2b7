----------------------------- MODULE ModuleTree -----------------------------
(***************************************************************************)
(* mtree_parse: how the command M reads a tree of modules that is written  *)
(* as indented lines (tcllib/icglue_construct.tcl).                        *)
(*                                                                         *)
(* The parent of a line is found with two stacks that grow when a line is  *)
(* indented more than the one before, and are cut when it is indented      *)
(* less, to any level, also one between levels seen before.  Lines stand   *)
(* for their modules; those without a module are skipped by the code.      *)
(***************************************************************************)
EXTENDS Integers, Sequences

CONSTANTS MaxLevel,   \* bound: characters of indentation
          MaxLines    \* bound: lines of a tree

ASSUME TreeAssumption == MaxLevel \in Nat /\ MaxLines \in Nat

NoParent == 0         \* the empty string; a module is the number of its line

VARIABLES lines,          \* the level of each line read so far
          level_stack, parents_stack,
          cur_level,      \* -1 before the first line: "" is less than any number
          cur_parent,
          module_list     \* the parent of each module read so far
treeVars == <<lines, level_stack, parents_stack, cur_level, cur_parent, module_list>>

TreeInit ==
  /\ lines = <<>> /\ module_list = <<>>
  /\ level_stack = <<>> /\ parents_stack = <<>>
  /\ cur_level = -1 /\ cur_parent = NoParent

last_instance == Len(module_list)

-----------------------------------------------------------------------------
(* A line indented more than the one before: that one is its parent. *)
Deeper(level) ==
  /\ level > cur_level
  /\ parents_stack' = Append(parents_stack, last_instance)
  /\ level_stack' = Append(level_stack, level)
  /\ cur_parent' = last_instance
  /\ cur_level' = level

(* The levels that are kept, and the level of the line unless it is there. *)
LevelsFor(level, kept) ==
  IF kept # <<>> /\ kept[Len(kept)] = level THEN kept ELSE Append(kept, level)

(* Fault: the stack of parents is cut like the one of the levels. *)
ParentsFor_Kept(level, kept) == SubSeq(parents_stack, 1, Len(kept))

(* The stack of parents is cut to as many entries. *)
ParentsFor(level, kept) == SubSeq(parents_stack, 1, Len(LevelsFor(level, kept)))

(* A line indented less: the levels from the first one beyond its own on   *)
(* are taken away, and the last of the parents left is its parent.         *)
Shallower(level) ==
  /\ level < cur_level
  /\ \E beyond \in DOMAIN level_stack :
       LET kept == SubSeq(level_stack, 1, beyond - 1)
       IN  /\ level_stack[beyond] > level
           /\ \A k \in 1 .. beyond - 1 : level_stack[k] <= level
           /\ level_stack' = LevelsFor(level, kept)
           /\ parents_stack' = ParentsFor(level, kept)
  /\ cur_parent' = IF parents_stack' = <<>> THEN NoParent ELSE parents_stack'[Len(parents_stack')]
  /\ cur_level' = level_stack'[Len(level_stack')]

SameLevel(level) ==
  /\ level = cur_level
  /\ UNCHANGED <<level_stack, parents_stack, cur_level, cur_parent>>

ReadLine(level) ==
  /\ Len(lines) < MaxLines
  /\ Deeper(level) \/ Shallower(level) \/ SameLevel(level)
  /\ lines' = Append(lines, level)
  /\ module_list' = Append(module_list, cur_parent')

TreeNext == \E level \in 0 .. MaxLevel : ReadLine(level)

TreeSpec == TreeInit /\ [][TreeNext]_treeVars

-----------------------------------------------------------------------------
(* p is the last of the first n lines of ls that is indented less.         *)
LastBefore(p, level, ls, n) ==
  /\ p \in 0 .. n
  /\ p # NoParent => ls[p] < level
  /\ \A k \in p + 1 .. n : ls[k] >= level

(* The parent of a module is the last line above it that is indented less, *)
(* whatever was between: the tree is the one that is seen on the page.     *)
ParentsAsWritten ==
  \A k \in DOMAIN lines : LastBefore(module_list[k], lines[k], lines, k - 1)

(* The types of what is read and kept.                                     *)
TreeTypeOK ==
  /\ lines \in Seq(Nat) /\ module_list \in Seq(Nat) /\ Len(module_list) = Len(lines)
  /\ level_stack \in Seq(Nat) /\ parents_stack \in Seq(Nat)
  /\ cur_level \in Int /\ cur_parent \in Nat
=============================================================================
