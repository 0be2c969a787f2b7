--------------------------- MODULE MCRegfilePython ---------------------------
(***************************************************************************)
(* The Python register access for TLC: a test uses either the devices, as  *)
(* in MCRegfileDevice, or an entry, as in MCRegfileEntry.                  *)
(***************************************************************************)
EXTENDS MCRegfileDevice, MCRegfileEntry

(* A test uses the one or the other; what is not used keeps one value.     *)
VARIABLE used
PythonInit ==
  /\ DeviceInit
  /\ EntryInit
  /\ \/ used = "device" /\ OneWord /\ register = {1} /\ uses = {"set"}
     \/ used = "entry" /\ \A w \in Word : hw[w] = {}

UseDevice == used = "device" /\ DeviceNext /\ UNCHANGED <<entryVars, used>>
UseEntry  == used = "entry" /\ EntryNext /\ UNCHANGED <<deviceVars, used>>

PythonSpec == PythonInit /\ [][UseDevice \/ UseEntry]_<<deviceVars, entryVars, used>>
=============================================================================
