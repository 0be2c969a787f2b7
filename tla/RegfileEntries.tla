--------------------------- MODULE RegfileEntries ---------------------------
(***************************************************************************)
(* The addresses of the entries of a register file, as the construction    *)
(* commands R and RT give them (tcllib/icglue_construct.tcl), and the      *)
(* check that looks for entries at one address (tcllib/icglue_checks.tcl). *)
(*                                                                         *)
(* Entries get addresses explicitly or one after another; the address to   *)
(* go on from is an attribute of the register file.  A table gives one row *)
(* per register: the rows of an entry are gathered, then each entry is     *)
(* made by a command R.  The registers themselves play no part here.       *)
(***************************************************************************)
EXTENDS Integers, Sequences

CONSTANTS EntryName,       \* names of entries
          Address,         \* addresses written explicitly
          Offset,          \* the values of -addroffset
          Protect,         \* what tables say in the column protect, Blank apart
          Blank,           \* a cell of a table, or an option, that is not given
          AddrAlign,       \* addresses of one word: addralign of the register file
          RegisterAlign,   \* the values of -align
          MaxRows,         \* bound: rows of a table
          MaxAddress       \* bound: no entry is made beyond it

ASSUME EntriesAssumption ==
  /\ AddrAlign \in Nat \ {0}
  /\ RegisterAlign \subseteq Nat \ {0}
  /\ Address \cup Offset \subseteq Nat
  /\ Protect \subseteq BOOLEAN
  /\ Blank \notin EntryName \cup Nat \cup BOOLEAN

Row == [entry : EntryName \cup {Blank}, address : Address \cup {Blank},
        protect : Protect \cup {Blank}]

VARIABLES entries,         \* the entries, in the order they were made
          save_reg_addr,   \* attribute _save_reg_addr: where the next entry may go
          ascending,       \* no command went back to addresses already passed
          asked            \* the entries that the script asked to be protected
entriesVars == <<entries, save_reg_addr, ascending, asked>>

EntriesInit == entries = <<>> /\ save_reg_addr = 0 /\ ascending = TRUE /\ asked = {}

Made == {entries[k].name : k \in DOMAIN entries}
WordOf(a) == a \div AddrAlign

-----------------------------------------------------------------------------
(* regfile_aligned_addr *)
AlignedAddr(base, align) ==
  LET rem == base % align
  IN  IF rem = 0 THEN base ELSE base + align - rem

(* Fault: an entry with an explicit address counts like one without. *)
EntryMade_Counted(s, name, address, register_align, protected) ==
  LET a == IF address = Blank
           THEN AlignedAddr(s.next, AddrAlign * register_align)
           ELSE address
  IN  [entries |-> Append(s.entries, [name |-> name, address |-> a, protected |-> protected]),
       next |-> s.next + AddrAlign,
       ascending |-> s.ascending /\ a >= s.next]

(* What the command R does to the entries and to the address to go on from *)
(* (s); an entry of a name that exists ends the script.                    *)
EntryMade(s, name, address, register_align, protected) ==
  LET a == IF address = Blank
           THEN AlignedAddr(s.next, AddrAlign * register_align)
           ELSE address
  IN  [entries |-> Append(s.entries, [name |-> name, address |-> a, protected |-> protected]),
       next |-> a + AddrAlign,
       ascending |-> s.ascending /\ a >= s.next]

Now == [entries |-> entries, next |-> save_reg_addr, ascending |-> ascending]

Become(s) ==
  /\ \A k \in DOMAIN s.entries : s.entries[k].address <= MaxAddress
  /\ entries' = s.entries
  /\ save_reg_addr' = s.next
  /\ ascending' = s.ascending

R(name, address, register_align, protected) ==
  /\ name \notin Made
  /\ Become(EntryMade(Now, name, address, register_align, protected))
  /\ asked' = IF protected THEN asked \cup {name} ELSE asked

-----------------------------------------------------------------------------
(* The rows of a table become a dictionary in the order of first mention.  *)
(* A row without a name, or with the name of the row before, takes the     *)
(* address of that row when it gives none; the protection of a row is not  *)
(* remembered for the next.                                                *)
RowRead(r, row) ==
  LET name == IF row.entry = Blank THEN r.last_name ELSE row.entry
      same == name = r.last_name
      address == IF same /\ row.address = Blank THEN r.last_addr ELSE row.address
      entry == [name |-> name, address |-> address, protect |-> row.protect]
      known == {k \in 1 .. Len(r.dict) : r.dict[k].name = name}
  IN  [dict |-> IF known = {} THEN Append(r.dict, entry)
                ELSE [k \in 1 .. Len(r.dict) |-> IF k \in known THEN entry ELSE r.dict[k]],
       last_name |-> name, last_addr |-> address]

TableRead(rows) ==
  LET read[k \in 0 .. Len(rows)] ==
        IF k = 0 THEN [dict |-> <<>>, last_name |-> Blank, last_addr |-> Blank]
        ELSE RowRead(read[k - 1], rows[k])
  IN  read[Len(rows)].dict

RowNames(rows) == {rows[k].entry : k \in DOMAIN rows} \ {Blank}

(* The names whose first row says that they are protected. *)
RowsProtected(rows) ==
  {rows[k].entry : k \in {i \in DOMAIN rows :
     rows[i].protect = TRUE /\ \A j \in 1 .. i - 1 : rows[j].entry # rows[i].entry}} \ {Blank}

(* A table in csv format (rcsv_process) starts anew at the offset and adds *)
(* it to the addresses; a table written as a list (offset Blank) goes on.  *)
StartAt(s, offset) ==
  IF offset = Blank THEN s
  ELSE [s EXCEPT !.next = offset, !.ascending = @ /\ offset >= s.next]

AddressAt(address, offset) ==
  IF address = Blank \/ offset = Blank THEN address ELSE offset + address

EntriesMade(s, dict, offset) ==
  LET made[k \in 0 .. Len(dict)] ==
        IF k = 0 THEN StartAt(s, offset)
        ELSE EntryMade(made[k - 1], dict[k].name, AddressAt(dict[k].address, offset), 1,
                       dict[k].protect = TRUE)
  IN  made[Len(dict)]

RT(rows, offset) ==
  /\ rows[1].entry # Blank
  /\ RowNames(rows) \cap Made = {}
  /\ Become(EntriesMade(Now, TableRead(rows), offset))
  /\ asked' = asked \cup RowsProtected(rows)

EntriesNext ==
  \/ \E name \in EntryName, address \in Address \cup {Blank}, align \in RegisterAlign, protected \in BOOLEAN :
       R(name, address, align, protected)
  \/ \E rows \in UNION {[1 .. n -> Row] : n \in 1 .. MaxRows}, offset \in Offset \cup {Blank} :
       RT(rows, offset)

EntriesSpec == EntriesInit /\ [][EntriesNext]_entriesVars

-----------------------------------------------------------------------------
(* regfile_to_arraylist: the entries sorted by address. *)
ByAddress(e) ==
  {sorted \in [DOMAIN e -> {e[k] : k \in DOMAIN e}] :
     \A j, k \in DOMAIN e :
       j < k => sorted[j] # sorted[k] /\ sorted[j].address <= sorted[k].address}

(* check_regfile_addresses: they are looked up in the list of the          *)
(* addresses seen; all addresses of a new word are added to it.  The       *)
(* entries that it warns of, by their places in the order.                 *)
(* Fault: of an entry only its own address is remembered. *)
OverlapsWarned_Address(sorted) ==
  {k \in DOMAIN sorted : \E j \in 1 .. k - 1 : sorted[j].address = sorted[k].address}

AddressesOf(w) == {w * AddrAlign + i : i \in 0 .. AddrAlign - 1}

OverlapsWarned(sorted) ==
  LET addr_list[k \in 0 .. Len(sorted)] ==
        IF k = 0 THEN {}
        ELSE LET a == sorted[k].address
                 seen == addr_list[k - 1]
             IN  IF a \in seen THEN seen ELSE seen \cup AddressesOf(WordOf(a))
  IN  {k \in 1 .. Len(sorted) : sorted[k].address \in addr_list[k - 1]}

-----------------------------------------------------------------------------
(* Explicit addresses, aligned or not, aligned commands and tables may be  *)
(* mixed: as long as none goes back to addresses already passed, no two    *)
(* entries share a word.                                                   *)
AscendingApart ==
  ascending => \A j, k \in DOMAIN entries :
                 WordOf(entries[j].address) = WordOf(entries[k].address) => j = k

(* The check warns of exactly the entries whose word an earlier one has:   *)
(* without a warning each entry answers under its own address.             *)
OverlapsReported ==
  \A sorted \in ByAddress(entries) :
    OverlapsWarned(sorted) = {k \in DOMAIN sorted : \E j \in 1 .. k - 1 :
                                WordOf(sorted[j].address) = WordOf(sorted[k].address)}

(* What the script asked to be protected is protected: an entry whose      *)
(* command R says so, or the first of its rows in a table.                 *)
ProtectedAsAsked ==
  \A k \in DOMAIN entries : entries[k].name \in asked => entries[k].protected
=============================================================================
