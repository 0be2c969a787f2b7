------------------------------ MODULE MCDesign ------------------------------
(***************************************************************************)
(* What the construction of a design rests on, for TLC: one behaviour uses *)
(* the hierarchy, the objects, the keep blocks of generated files, the     *)
(* entries of a register file, the tree of modules a script writes, or the *)
(* messages of a run; the variables of the others keep one value.          *)
(***************************************************************************)
EXTENDS IgHierarchy, MCIgObjects, MCKeepBlocks, RegfileEntries, ModuleTree, IgLogger

DesignTemplates == {<<head, Orphans>>, <<Orphans>>, <<head, foot, Orphans>>}
DesignDefault == [i \in Id |-> IF i = head THEN <<>> ELSE <<[code |-> code]>>]

-----------------------------------------------------------------------------
VARIABLE used        \* the part of the program that the behaviour is about

DesignInit ==
  /\ HierarchyInit /\ ObjectInit /\ EntriesInit /\ TreeInit /\ KeepInit /\ LoggerInit
  /\ used \in {"hierarchy", "objects", "files", "entries", "tree", "messages"}
  /\ used # "files" => file = <<>>
  /\ used # "messages" => c_loglevel = 0

UseHierarchy ==
  /\ used = "hierarchy" /\ HierarchyNext
  /\ UNCHANGED <<used, objectVars, keepVars, entriesVars, treeVars, logVars>>
UseObjects ==
  /\ used = "objects" /\ ObjectNext
  /\ UNCHANGED <<used, hierarchyVars, keepVars, entriesVars, treeVars, logVars>>
UseFiles ==
  /\ used = "files" /\ KeepNext
  /\ UNCHANGED <<used, hierarchyVars, objectVars, entriesVars, treeVars, logVars>>
UseEntries ==
  /\ used = "entries" /\ EntriesNext
  /\ UNCHANGED <<used, hierarchyVars, objectVars, keepVars, treeVars, logVars>>
UseTree ==
  /\ used = "tree" /\ TreeNext
  /\ UNCHANGED <<used, hierarchyVars, objectVars, keepVars, entriesVars, logVars>>
UseMessages ==
  /\ used = "messages" /\ LoggerNext
  /\ UNCHANGED <<used, hierarchyVars, objectVars, keepVars, entriesVars, treeVars>>

DesignNext == UseHierarchy \/ UseObjects \/ UseFiles \/ UseEntries \/ UseTree \/ UseMessages

DesignSpec ==
  DesignInit /\ [][DesignNext]_<<hierarchyVars, objectVars, keepVars,
                                 entriesVars, treeVars, logVars, used>>

=============================================================================
