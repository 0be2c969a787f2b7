---------------------------- MODULE MCKeepBlocks ----------------------------
(* KeepBlocks for TLC: the template of Verilog modules asks for the block  *)
(* foot, which has no default, after it listed the orphaned blocks         *)
(* (templates/default/vlog/template.wtf.v).                                *)
EXTENDS KeepBlocks

CONSTANTS head, foot, code

NoDefault == [i \in Id |-> <<>>]
FootTemplates == {<<head, Orphans, foot>>}
=============================================================================
