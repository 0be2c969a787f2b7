--------------------------- MODULE MCRegfileEntry ---------------------------
(***************************************************************************)
(* RegfileEntry for TLC: a word of three bits, the writable fields cfg     *)
(* (bit 0) and mode (bit 1) and the read-only field status (bit 2).        *)
(***************************************************************************)
EXTENDS RegfileEntry, TLC

CONSTANTS cfg, mode, status

MCFieldMask == cfg :> {0} @@ mode :> {1} @@ status :> {2}
MCNumbers == {{}, {0}, {1, 2}, {0, 1, 2}, {1, 3}}

(* Tests that write directly and set as well; tests that set with copies   *)
(* taken; tests that either write and take copies, or set.                 *)
Mixed  == {{"write", "set"}}
Copied == {{"set", "copy"}}
Apart  == {{"write", "copy"}, {"set"}}
=============================================================================
