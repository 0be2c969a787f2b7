---------------------------- MODULE RegfileEntry ----------------------------
(***************************************************************************)
(* An entry of a Python register file (regfile.py): the register in the    *)
(* hardware, behind a device that implements RegisterFile, and the desired *)
(* and mirrored values that the entry keeps of it.  A test writes fields   *)
(* or whole values directly, or sets desired values, as in UVM, and sends  *)
(* them with update; it takes copies of an entry, which have values of     *)
(* their own but share the field objects of the entry.                     *)
(*                                                                         *)
(* A number is the set of the positions of its ones, Past standing for the *)
(* positions past the word; a field value is given at its place.           *)
(***************************************************************************)
EXTENDS FiniteSets, RegfileNumbers

CONSTANTS RegisterBits, Past,
          Field,        \* field names
          FieldMask,    \* FieldMask[f]: the bits of f
          write_mask,   \* the bits of the writable fields
          Reset,        \* _reset
          Numbers,      \* numbers that are written
          Copy,         \* the copies that are taken
          Entry,        \* the entry itself
          NoOne,        \* no set function yet
          Uses          \* the calls a test may use: sets of "write", "set", "copy"

Positions == RegisterBits \cup {Past}
Object == Copy \cup {Entry}

ASSUME EntryAssumption ==
  /\ Past \notin RegisterBits /\ Entry \notin Copy /\ NoOne \notin Object
  /\ FieldMask \in [Field -> SUBSET RegisterBits]
  /\ \A f, g \in Field : f # g => FieldMask[f] \cap FieldMask[g] = {}
  /\ write_mask \subseteq RegisterBits
  /\ Reset \subseteq write_mask
  /\ Numbers \subseteq SUBSET Positions
  /\ Uses \subseteq SUBSET {"write", "set", "copy"}

VARIABLES register,     \* the register in the hardware
          desired_value, mirrored_value,    \* of the entry and its copies
          copies,       \* the copies taken so far
          owner,        \* owner[f]: the object that the set of field f sets
          uses,         \* the calls this test uses
          ended         \* the last call that matters to a property

entryVars == <<register, desired_value, mirrored_value, copies, owner, uses, ended>>

EntryInit == /\ \E driven \in SUBSET (RegisterBits \ write_mask) : register = Reset \cup driven
             /\ desired_value = [o \in Object |-> Reset]
             /\ mirrored_value = [o \in Object |-> Reset]
             /\ copies = {}
             /\ owner = [f \in Field |-> NoOne]
             /\ uses \in Uses
             /\ ended = [op |-> "none"]

IsWritable(f) == FieldMask[f] \subseteq write_mask

(* What the fields of d compose to: _fit_fieldvalue truncates each value. *)
Composed(d) == UNION {d[f] \cap FieldMask[f] : f \in DOMAIN d}

Dict == UNION {[F -> Numbers] : F \in SUBSET Field}

-----------------------------------------------------------------------------
(* RegisterEntry._set_value, and RegfileEntry._set_value, which also gives *)
(* the value to the device.                                                *)
KeepValue(o, new) == /\ desired_value' = [desired_value EXCEPT ![o] = new]
                     /\ mirrored_value' = [mirrored_value EXCEPT ![o] = new]

(* Fault: the value is only mirrored. *)
ToDevice_Dropped(value, mask) == UNCHANGED register
ToDevice(value, mask) == register' = Merge(register, value, mask \cap write_mask)

SetValue(value, mask) == /\ KeepValue(Entry, Merge(desired_value[Entry], value, mask))
                         /\ ToDevice(value, mask)

(* RegfileEntry._get_value *)
GetValue == KeepValue(Entry, register) /\ UNCHANGED register

Done == ended' = [op |-> "other"] /\ UNCHANGED uses

(* __setitem__ of the entry, of a copy *)
WriteField(f, value) ==
  /\ "write" \in uses
  /\ SetValue(value \cap FieldMask[f], FieldMask[f])
  /\ Done
  /\ UNCHANGED <<copies, owner>>

WriteFieldOfCopy(c, f, value) ==
  /\ "write" \in uses
  /\ c \in copies
  /\ KeepValue(c, Merge(desired_value[c], value, FieldMask[f]))
  /\ Done
  /\ UNCHANGED <<register, copies, owner>>

(* set_value with a number and a mask, with a dictionary, with a copy *)
WriteNumber(value, mask) ==
  /\ "write" \in uses
  /\ SetValue(value, mask)
  /\ Done
  /\ UNCHANGED <<copies, owner>>

WriteDict(d) ==
  /\ "write" \in uses
  /\ LET named == {f \in DOMAIN d : IsWritable(f)}
     IN  SetValue(Composed([f \in named |-> d[f]]), write_mask)
  /\ Done
  /\ UNCHANGED <<copies, owner>>

WriteCopy(c) ==
  /\ "write" \in uses
  /\ c \in copies
  /\ SetValue(mirrored_value[c], write_mask)
  /\ Done
  /\ UNCHANGED <<copies, owner>>

ReadRegister == /\ GetValue
                /\ Done
                /\ UNCHANGED <<copies, owner>>

-----------------------------------------------------------------------------
(* field: the first object to ask for a field gives it its set function,   *)
(* which sets the desired value of that object.                            *)
OwnerOf(o, f) == IF owner[f] = NoOne THEN o ELSE owner[f]

SetField(o, f, value) ==
  /\ "set" \in uses
  /\ o \in copies \cup {Entry}
  /\ LET t == OwnerOf(o, f)
     IN  /\ owner' = [owner EXCEPT ![f] = t]
         /\ desired_value' = [desired_value EXCEPT ![t] = Merge(@, value, FieldMask[f])]
  /\ Done
  /\ UNCHANGED <<register, mirrored_value, copies>>

(* set *)
Set(o, value) ==
  /\ "set" \in uses
  /\ o \in copies \cup {Entry}
  /\ desired_value' = [desired_value EXCEPT ![o] = value]
  /\ Done
  /\ UNCHANGED <<register, mirrored_value, copies, owner>>

(* update, once the desired values are d; a copy has no device to send to. *)
(* Fault: the device is given the mirrored value.                          *)
Send_Mirrored(o, d) ==
  /\ mirrored_value' = [mirrored_value EXCEPT ![o] = d[o]]
  /\ IF o = Entry THEN ToDevice(mirrored_value[o], write_mask) ELSE UNCHANGED register

Send(o, d) ==
  /\ mirrored_value' = [mirrored_value EXCEPT ![o] = d[o]]
  /\ IF o = Entry THEN ToDevice(d[o], write_mask) ELSE UNCHANGED register

Update(o) ==
  /\ "set" \in uses
  /\ o \in copies \cup {Entry}
  /\ Send(o, desired_value)
  /\ Done
  /\ UNCHANGED <<desired_value, copies, owner>>

(* write_update: set of each field of d, then update *)
WriteUpdate(o, d) ==
  /\ "set" \in uses
  /\ o \in copies \cup {Entry}
  /\ owner' = [f \in Field |-> IF f \in DOMAIN d THEN OwnerOf(o, f) ELSE owner[f]]
  /\ desired_value' = [t \in Object |->
       LET own == {f \in DOMAIN d : OwnerOf(o, f) = t}
       IN  Merge(desired_value[t], Composed([f \in own |-> d[f]]),
                 UNION {FieldMask[f] : f \in own})]
  /\ Send(o, desired_value')
  /\ ended' = [op |-> "write_update", object |-> o, values |-> d]
  /\ UNCHANGED <<copies, uses>>

-----------------------------------------------------------------------------
(* read_entry, which reads the register first, and get_mirrored_reg *)
Take(c, value) ==
  /\ "copy" \in uses
  /\ c \in Copy \ copies
  /\ copies' = copies \cup {c}
  /\ desired_value' = [desired_value EXCEPT ![Entry] = value, ![c] = value]
  /\ mirrored_value' = [mirrored_value EXCEPT ![Entry] = value, ![c] = value]
  /\ Done
  /\ UNCHANGED <<register, owner>>

ReadEntry(c) == Take(c, register)

GetMirroredReg(c) ==
  /\ "copy" \in uses
  /\ c \in Copy \ copies
  /\ copies' = copies \cup {c}
  /\ KeepValue(c, mirrored_value[Entry])
  /\ Done
  /\ UNCHANGED <<register, owner>>

(* reset of the entry, where the test resets the design as well *)
ResetDesign ==
  /\ register' = Merge(register, Reset, write_mask)
  /\ KeepValue(Entry, Reset)
  /\ Done
  /\ UNCHANGED <<copies, owner>>

(* The hardware drives the bits of the read-only fields. *)
DriveRegister(value) ==
  /\ register' = Merge(register, value, RegisterBits \ write_mask)
  /\ UNCHANGED <<desired_value, mirrored_value, copies, owner, uses, ended>>

EntryNext ==
  \/ \E f \in Field, value \in Numbers :
        \/ WriteField(f, value)
        \/ \E c \in Copy : WriteFieldOfCopy(c, f, value)
        \/ \E o \in Object : SetField(o, f, value)
  \/ \E value \in Numbers : \/ \E mask \in {write_mask, Positions} : WriteNumber(value, mask)
                            \/ \E o \in Object : Set(o, value)
  \/ \E d \in Dict : WriteDict(d) \/ \E o \in Object : WriteUpdate(o, d)
  \/ \E c \in Copy : WriteCopy(c) \/ ReadEntry(c) \/ GetMirroredReg(c)
  \/ \E o \in Object : Update(o)
  \/ ReadRegister
  \/ ResetDesign
  \/ \E value \in SUBSET RegisterBits : DriveRegister(value)

EntrySpec == EntryInit /\ [][EntryNext]_entryVars

-----------------------------------------------------------------------------
needs_update == desired_value[Entry] # mirrored_value[Entry]

(* When needs_update says that no field needs to be updated, the writable  *)
(* fields of the register have their desired values ("Returns True if any  *)
(* of the fields need updating").                                          *)
NeedsUpdateTells ==
  ~needs_update => desired_value[Entry] \cap write_mask = register \cap write_mask

(* write_update of the entry leaves the values in the writable fields of   *)
(* the register ("Wrapper function around set() fields defined by          *)
(* value[dict] and update()").                                             *)
WriteUpdateReaches ==
  ended.op = "write_update" /\ ended.object = Entry =>
    \A f \in DOMAIN ended.values :
       register \cap FieldMask[f] \cap write_mask = ended.values[f] \cap FieldMask[f] \cap write_mask
=============================================================================
