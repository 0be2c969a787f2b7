----------------------------- MODULE KeepBlocks -----------------------------
(***************************************************************************)
(* The keep blocks of generated files (tcllib/icglue_templates.tcl).       *)
(*                                                                         *)
(* Code that a user writes between two special comments of a generated     *)
(* file is read back when the file is generated again, and written to the  *)
(* place where the template asks for the block of that name; what no place *)
(* of the template asks for is listed where the template puts the          *)
(* orphaned blocks.  Here a file is the sequence of its comments and of    *)
(* the pieces of code a user wrote; what a template writes outside of keep *)
(* blocks plays no part.                                                   *)
(***************************************************************************)
EXTENDS Integers, SequencesExt

CONSTANTS Id,        \* names of blocks
          UserCode,  \* pieces of code
          Templates, \* sequences of the names a template pops; Orphans where it lists the rest
          Default,   \* [Id -> contents]: what the template puts in a block not found
          Orphans,   \* marks the place of the orphaned blocks in a template
          MixForms,  \* whether users write comments of another form than the file has
          MaxFile    \* bound: comments and pieces of code of a file

Form == {"icglue", "pragma icglue"}
Piece == [code : UserCode]
Token == [begin : Form, id : Id] \cup [end : Form] \cup Piece

ASSUME KeepAssumption ==
  /\ Orphans \notin Id
  /\ Templates \subseteq Seq(Id \cup {Orphans})
  /\ Default \in [Id -> Seq(Piece)]

IsBegin(t, form) == "begin" \in DOMAIN t /\ t.begin = form
IsEnd(t, form)   == "end" \in DOMAIN t /\ t.end = form
Forms(f) == {form \in Form : \E i \in DOMAIN f : IsBegin(f[i], form) \/ IsEnd(f[i], form)}

VARIABLES file,      \* the generated file
          generated  \* the template it was generated with, <<>> once it was edited
keepVars == <<file, generated>>

(* A file that an earlier version generated, or none. *)
KeepInit == /\ file \in {<<>>} \cup {<<[begin |-> form, id |-> i], [end |-> form]>> : form \in Form, i \in Id}
            /\ generated = <<>>

-----------------------------------------------------------------------------
(* Fault: the older form of the comments is not known. *)
FormOf_Plain(f) == "icglue"

(* parse_keep_blocks.  The form of the comments is chosen once: if there   *)
(* is a begin comment with "pragma", only comments with it are looked for. *)
FormOf(f) == IF \E i \in DOMAIN f : IsBegin(f[i], "pragma icglue") THEN "pragma icglue" ELSE "icglue"

Block(id, content) == [id |-> id, content |-> content]

(* What one more token of f, the k-th, does to the block that is open (0:  *)
(* none, else where it begins) and to the blocks found.                    *)
Scanned(f, form, k, s) ==
  CASE s.open = 0 /\ IsBegin(f[k], form) -> [s EXCEPT !.open = k]
    [] s.open # 0 /\ IsEnd(f[k], form)   ->
         [open |-> 0, blocks |-> Append(s.blocks, Block(f[s.open].id, SubSeq(f, s.open + 1, k - 1)))]
    [] OTHER -> s

(* A block that does not end is an error: it is left open.                 *)
ParseKeepBlocks(f) ==
  LET scan[k \in 0 .. Len(f)] ==
        IF k = 0 THEN [open |-> 0, blocks |-> <<>>] ELSE Scanned(f, FormOf(f), k, scan[k - 1])
  IN  scan[Len(f)]

(* format_keep_block_content: always without "pragma". *)
Format(b) == <<[begin |-> "icglue", id |-> b.id]>> \o b.content \o <<[end |-> "icglue"]>>

(* pop_keep_block_content: the first block of the name, or the default.    *)
(* r holds the pieces of text written and the blocks that are left.        *)
Pop(r, id) ==
  LET k == SelectInSeq(r.blocks, LAMBDA b : b.id = id)
  IN  IF k = 0 THEN [r EXCEPT !.text = Append(@, Format(Block(id, Default[id])))]
      ELSE [text |-> Append(r.text, Format(r.blocks[k])), blocks |-> RemoveAt(r.blocks, k)]

Listed(b) == IF b.content = <<>> THEN <<>> ELSE Format(b)

(* Fault: each block is put before the others. *)
Remaining_Backwards(r) ==
  [r EXCEPT !.text = @ \o Reverse([k \in DOMAIN r.blocks |-> Listed(r.blocks[k])])]

(* remaining_keep_block_contents: they stay in the list. *)
Remaining(r) == [r EXCEPT !.text = @ \o [k \in DOMAIN r.blocks |-> Listed(r.blocks[k])]]

(* One more item of a template. *)
Ran(r, item) == IF item = Orphans THEN Remaining(r) ELSE Pop(r, item)

RunTemplate(t, blocks) ==
  LET run[k \in 0 .. Len(t)] ==
        IF k = 0 THEN [text |-> <<>>, blocks |-> blocks] ELSE Ran(run[k - 1], t[k])
  IN  FlattenSeq(run[Len(t)].text)

-----------------------------------------------------------------------------
(* generate_template_output for the language of a template. *)
Generate(t) ==
  LET parsed == ParseKeepBlocks(file)
      text   == RunTemplate(t, parsed.blocks)
  IN  /\ generated' = t
      /\ parsed.open = 0
      /\ Len(text) <= MaxFile
      /\ file' = text

(* A block without end, an error in the template and a dry run leave the   *)
(* file as it is.                                                          *)
GenerateFails(t) == UNCHANGED keepVars

(* A user adds or takes away a comment or a piece of code. *)
Insert(k, t) ==
  /\ Len(file) < MaxFile
  /\ MixForms \/ Cardinality(Forms(Append(file, t))) <= 1
  /\ file' = InsertAt(file, k, t)
  /\ generated' = <<>>

Delete(k) ==
  /\ file' = RemoveAt(file, k)
  /\ generated' = <<>>

Edit == \/ \E k \in 1 .. Len(file) + 1, t \in Token : Insert(k, t)
        \/ \E k \in DOMAIN file : Delete(k)

KeepNext == (\E t \in Templates : Generate(t) \/ GenerateFails(t)) \/ Edit

KeepSpec == KeepInit /\ [][KeepNext]_keepVars

-----------------------------------------------------------------------------
(* A keep block as the documentation shows it: a begin comment, code, and  *)
(* an end comment.                                                         *)
KeepBlock(f) ==
  {p \in (DOMAIN f) \X (DOMAIN f) :
     /\ p[1] < p[2]
     /\ "begin" \in DOMAIN f[p[1]] /\ "end" \in DOMAIN f[p[2]]
     /\ \A k \in p[1] + 1 .. p[2] - 1 : "code" \in DOMAIN f[k]}

Content(f, p) == SubSeq(f, p[1] + 1, p[2] - 1)
Contents(f, id) == {Content(f, p) : p \in {q \in KeepBlock(f) : f[q[1]].id = id}}
Copies(f, id, c) == Cardinality({p \in KeepBlock(f) : f[p[1]].id = id /\ Content(f, p) = c})

(* Each comment is that of a keep block. *)
WellFormed(f) ==
  \A k \in DOMAIN f : /\ "begin" \in DOMAIN f[k] => \E p \in KeepBlock(f) : p[1] = k
                      /\ "end" \in DOMAIN f[k] => \E p \in KeepBlock(f) : p[2] = k

(* Whatever was edited before, generating a well-formed file again keeps   *)
(* the code in each of its blocks, under its name and as often as it was   *)
(* there, and a block that a user emptied stays empty where the template   *)
(* has a place for it.                                                     *)
UserCodeKept ==
  [][\A t \in Templates :
       Generate(t) /\ WellFormed(file) =>
         \A id \in Id :
           /\ \A c \in Contents(file, id) \ {<<>>} :
                Copies(file', id, c) >= Copies(file, id, c)
           /\ Contents(file, id) = {<<>>} /\ id \in Range(t) => Contents(file', id) = {<<>>}]_keepVars

(* Generating a file again that nobody edited, with the same template,     *)
(* changes nothing.                                                        *)
RegenerateSettles ==
  [][\A t \in Templates : generated = t /\ Generate(t) => file' = file]_keepVars
=============================================================================
