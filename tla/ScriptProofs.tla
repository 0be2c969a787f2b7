---------------------------- MODULE ScriptProofs ----------------------------
(***************************************************************************)
(* What the author of a construction script relies on: that a tree of      *)
(* modules is built as it is written, that the entries of a register file  *)
(* do not share a word unnoticed, that the exit code tells how the run     *)
(* went, and that generating a file again keeps what a user wrote in it.   *)
(***************************************************************************)
EXTENDS ModuleTree, IgLogger, RegfileEntries, KeepBlocks, Recursion, SequenceTheorems, FiniteSetTheorems

(***************************************************************************)
(* The parents that mtree_parse finds, for trees of any depth and length.  *)
(* The inductive invariant says of each entry of the two stacks what the   *)
(* invariant to prove says of a line: its parent is the last line above    *)
(* that is indented less; so it is, whichever entry becomes the top again. *)
(***************************************************************************)
(* The levels of a stack rise. *)
Rising(lev) == \A i, j \in 1 .. Len(lev) : i < j => lev[i] < lev[j]

(* Entry i of the stacks lev and par after the lines ls: its parent is the *)
(* last line indented less, and has the level of the entry below.          *)
EntryFits(lev, par, ls, i) ==
  /\ LastBefore(par[i], lev[i], ls, Len(ls))
  /\ i = 1 => par[i] = NoParent
  /\ i # 1 => par[i] # NoParent /\ ls[par[i]] = lev[i - 1]

Fits(lev, par, ls) ==
  /\ lev \in Seq(Nat) /\ par \in Seq(Nat)
  /\ Len(par) = Len(lev)
  /\ Rising(lev)
  /\ \A i \in 1 .. Len(lev) : EntryFits(lev, par, ls, i)

(* The top of the stacks is the level and the parent of the last line. *)
OnTop(lev, par, level, parent) ==
  /\ lev # <<>>
  /\ lev[Len(lev)] = level
  /\ par[Len(par)] = parent

TreeInv ==
  /\ TreeTypeOK
  /\ Fits(level_stack, parents_stack, lines)
  /\ lines = <<>> => level_stack = <<>> /\ cur_level = -1
  /\ lines # <<>> => /\ OnTop(level_stack, parents_stack, cur_level, cur_parent)
                     /\ cur_level = lines[Len(lines)]
  /\ ParentsAsWritten

-----------------------------------------------------------------------------
(* Lemmas about stacks.                                                    *)

(* The first m elements of a sequence.                                     *)
LEMMA FirstElements ==
  ASSUME NEW s \in Seq(Nat), NEW m \in Nat, m <= Len(s)
  PROVE  /\ SubSeq(s, 1, m) \in Seq(Nat) /\ Len(SubSeq(s, 1, m)) = m
         /\ \A k \in 1 .. m : SubSeq(s, 1, m)[k] = s[k] /\ s[k] \in Nat
OBVIOUS

(* A deeper line is pushed with the line before it as its parent. *)
LEMMA PushFits ==
  ASSUME NEW lev, NEW par, NEW ls \in Seq(Nat), NEW level \in Nat,
         Fits(lev, par, ls),
         ls = <<>> => lev = <<>>,
         ls # <<>> => lev # <<>> /\ lev[Len(lev)] = ls[Len(ls)] /\ ls[Len(ls)] < level
  PROVE  /\ Fits(Append(lev, level), Append(par, Len(ls)), ls)
         /\ OnTop(Append(lev, level), Append(par, Len(ls)), level, Len(ls))
<1> DEFINE n == Len(lev)
           lev2 == Append(lev, level)
           par2 == Append(par, Len(ls))
<1>1. /\ lev \in Seq(Nat) /\ par \in Seq(Nat) /\ n \in Nat /\ Len(par) = n
      /\ Rising(lev) /\ \A i \in 1 .. n : EntryFits(lev, par, ls, i)
  BY DEF Fits
<1>2. /\ lev2 \in Seq(Nat) /\ par2 \in Seq(Nat) /\ Len(lev2) = n + 1 /\ Len(par2) = n + 1
      /\ lev2[n + 1] = level /\ par2[n + 1] = Len(ls) /\ Len(ls) \in Nat
      /\ \A i \in 1 .. n : lev2[i] = lev[i] /\ par2[i] = par[i] /\ lev[i] \in Nat
  BY <1>1
<1>3. \A i \in 1 .. n : lev[i] < level
  <2>1. CASE ls = <<>>
    BY <2>1, <1>1
  <2>2. CASE ls # <<>>
    <3>1. n \in 1 .. n /\ lev[n] < level
      BY <2>2, <1>1
    <3> QED  BY <3>1, <1>1, <1>2 DEF Rising
  <2> QED  BY <2>1, <2>2
<1>4. Rising(lev2)
  <2> SUFFICES ASSUME NEW i \in 1 .. n + 1, NEW j \in 1 .. n + 1, i < j
               PROVE  lev2[i] < lev2[j]
    BY <1>2 DEF Rising
  <2>1. n \in Nat
    BY <1>1
  <2>2. i \in 1 .. n /\ (j \in 1 .. n \/ j = n + 1)
    BY <2>1
  <2> QED  BY <2>2, <1>1, <1>2, <1>3 DEF Rising
<1>5. ASSUME NEW i \in 1 .. n + 1  PROVE EntryFits(lev2, par2, ls, i)
  <2>1. CASE i \in 1 .. n
    <3>1. EntryFits(lev, par, ls, i) /\ (i # 1 => i - 1 \in 1 .. n)
      BY <2>1, <1>1
    <3>2. i # 1 => lev2[i - 1] = lev[i - 1]
      BY <3>1, <1>2
    <3> QED  BY <3>1, <3>2, <2>1, <1>2 DEF EntryFits
  <2>2. CASE i = n + 1
    <3>1. LastBefore(Len(ls), level, ls, Len(ls))
      BY <1>2 DEF LastBefore, NoParent
    <3>2. i = 1 => Len(ls) = NoParent
      BY <2>2, <1>1 DEF NoParent
    <3>3. i # 1 => Len(ls) # NoParent /\ ls[Len(ls)] = lev2[i - 1]
      BY <2>2, <1>1, <1>2 DEF NoParent
    <3> QED  BY <3>1, <3>2, <3>3, <2>2, <1>2 DEF EntryFits
  <2> QED  BY <2>1, <2>2, <1>1
<1>6. Fits(lev2, par2, ls)
  BY <1>2, <1>4, <1>5 DEF Fits
<1>7. OnTop(lev2, par2, level, Len(ls))
  <2>1. n \in Nat /\ Len(lev2) = n + 1 /\ Len(par2) = n + 1
    BY <1>1, <1>2
  <2>2. lev2 # <<>>
    BY <1>1, <2>1
  <2>3. lev2[Len(lev2)] = level /\ par2[Len(par2)] = Len(ls)
    <3> HIDE DEF lev2, par2
    <3> QED  BY <1>2, <2>1
  <2> HIDE DEF lev2, par2
  <2> QED  BY <2>2, <2>3 DEF OnTop
<1> QED  BY <1>6, <1>7

(* Stacks that are cut fit. *)
LEMMA CutFits ==
  ASSUME NEW lev, NEW par, NEW ls \in Seq(Nat), Fits(lev, par, ls), NEW m \in 1 .. Len(lev)
  PROVE  /\ Fits(SubSeq(lev, 1, m), SubSeq(par, 1, m), ls)
         /\ OnTop(SubSeq(lev, 1, m), SubSeq(par, 1, m), lev[m], par[m])
<1> DEFINE lev2 == SubSeq(lev, 1, m)
           par2 == SubSeq(par, 1, m)
<1>1. /\ lev \in Seq(Nat) /\ par \in Seq(Nat) /\ Len(lev) \in Nat /\ Len(par) = Len(lev)
      /\ Rising(lev) /\ \A i \in 1 .. Len(lev) : EntryFits(lev, par, ls, i)
  BY DEF Fits
<1>2. /\ lev2 \in Seq(Nat) /\ par2 \in Seq(Nat) /\ Len(lev2) = m /\ Len(par2) = m
      /\ \A i \in 1 .. m : lev2[i] = lev[i] /\ par2[i] = par[i] /\ i \in 1 .. Len(lev)
  BY <1>1
<1>3. Rising(lev2)
  BY <1>1, <1>2 DEF Rising
<1>4. ASSUME NEW i \in 1 .. m  PROVE EntryFits(lev2, par2, ls, i)
  <2>1. EntryFits(lev, par, ls, i) /\ (i # 1 => i - 1 \in 1 .. m)
    BY <1>1, <1>2
  <2> QED  BY <2>1, <1>2 DEF EntryFits
<1>5. Fits(lev2, par2, ls)
  BY <1>2, <1>3, <1>4 DEF Fits
<1>6. OnTop(lev2, par2, lev[m], par[m])
  <2>1. Len(lev) \in Nat
    BY <1>1
  <2>2. m \in 1 .. m /\ m > 0
    BY <2>1
  <2>3. lev2[m] = lev[m] /\ par2[m] = par[m] /\ lev2 # <<>>
    BY <2>2, <1>2
  <2> QED  BY <2>3, <1>2 DEF OnTop
<1> QED  BY <1>5, <1>6

(* The level of the top may be lowered as long as it stays above the entry *)
(* below: the lines since then are all indented at least as much.          *)
LEMMA LowerFits ==
  ASSUME NEW lev, NEW par, NEW ls \in Seq(Nat), NEW level \in Nat, Fits(lev, par, ls),
         lev # <<>>, level < lev[Len(lev)],
         Len(lev) # 1 => lev[Len(lev) - 1] < level
  PROVE  /\ Fits(Append(SubSeq(lev, 1, Len(lev) - 1), level), par, ls)
         /\ OnTop(Append(SubSeq(lev, 1, Len(lev) - 1), level), par, level, par[Len(lev)])
<1> DEFINE n == Len(lev)
           lev2 == Append(SubSeq(lev, 1, n - 1), level)
<1>1. /\ lev \in Seq(Nat) /\ par \in Seq(Nat) /\ n \in Nat /\ n > 0 /\ Len(par) = n
      /\ Rising(lev) /\ \A i \in 1 .. n : EntryFits(lev, par, ls, i)
  BY DEF Fits
<1>2. /\ lev2 \in Seq(Nat) /\ Len(lev2) = n /\ lev2[n] = level
      /\ \A i \in 1 .. n - 1 : lev2[i] = lev[i] /\ lev[i] \in Nat
      /\ lev[n] \in Nat /\ Len(ls) \in Nat
  <2>1. n - 1 \in Nat /\ n - 1 <= Len(lev) /\ (n - 1) + 1 = n /\ Len(ls) \in Nat
    BY <1>1
  <2>2. lev[n] \in Nat
    BY <1>1
  <2> DEFINE cut == SubSeq(lev, 1, n - 1)
  <2>3. cut \in Seq(Nat) /\ Len(cut) = n - 1 /\ \A i \in 1 .. n - 1 : cut[i] = lev[i] /\ lev[i] \in Nat
    BY <1>1, <2>1, FirstElements
  <2> HIDE DEF cut, n
  <2>4. /\ Append(cut, level) \in Seq(Nat) /\ Len(Append(cut, level)) = n
        /\ Append(cut, level)[n] = level
        /\ \A i \in 1 .. n - 1 : Append(cut, level)[i] = cut[i]
    BY <2>1, <2>3
  <2> QED BY <2>1, <2>2, <2>3, <2>4 DEF cut, n
<1>3. \A i \in 1 .. n - 1 : lev[i] < level
  <2> SUFFICES ASSUME NEW i \in 1 .. n - 1  PROVE lev[i] < level
    OBVIOUS
  <2>0. n \in Nat /\ n > 0
    BY <1>1
  <2>1. n - 1 \in 1 .. n /\ i \in 1 .. n /\ n # 1
    BY <2>0
  <2>2. i = n - 1 \/ lev[i] < lev[n - 1]
    <3>1. i = n - 1 \/ i < n - 1
      BY <2>0
    <3>2. Rising(lev)
      BY <1>1
    <3> QED  BY <3>1, <3>2, <2>1 DEF Rising
  <2>3. lev[i] \in Nat /\ lev[n - 1] \in Nat
    <3>1. lev \in Seq(Nat) /\ n - 1 \in 1 .. Len(lev) /\ i \in 1 .. Len(lev)
      BY <1>1, <2>1
    <3> HIDE DEF n
    <3> QED  BY <3>1
  <2>4. lev[n - 1] < level
    BY <2>1
  <2> QED  BY <2>2, <2>3, <2>4
<1>4. Rising(lev2)
  <2> SUFFICES ASSUME NEW i \in 1 .. n, NEW j \in 1 .. n, i < j  PROVE lev2[i] < lev2[j]
    BY <1>2 DEF Rising
  <2>1. i \in 1 .. n - 1 /\ (j \in 1 .. n - 1 \/ j = n)
    BY <1>1
  <2> QED  BY <2>1, <1>1, <1>2, <1>3 DEF Rising
<1>5. ASSUME NEW i \in 1 .. n  PROVE EntryFits(lev2, par, ls, i)
  <2>1. EntryFits(lev, par, ls, i) /\ (i # 1 => i - 1 \in 1 .. n - 1)
    BY <1>1
  <2>2. i # 1 => lev2[i - 1] = lev[i - 1]
    BY <2>1, <1>2
  <2>3. CASE i \in 1 .. n - 1
    BY <2>1, <2>2, <2>3, <1>2 DEF EntryFits
  <2>4. CASE i = n
    <3>1. LastBefore(par[n], lev[n], ls, Len(ls))
      BY <2>1, <2>4 DEF EntryFits
    <3>2. par[n] # NoParent => ls[par[n]] < level
      BY <2>1, <2>4, <1>1 DEF EntryFits
    <3>3. ASSUME NEW k \in par[n] + 1 .. Len(ls)  PROVE ls[k] >= level
      <4>1. par[n] \in Nat /\ ls[k] >= lev[n]
        BY <3>1 DEF LastBefore
      <4>2. k \in 1 .. Len(ls) /\ ls[k] \in Nat
        BY <4>1, <1>2
      <4> QED  BY <4>1, <4>2, <1>2
    <3>4. LastBefore(par[n], level, ls, Len(ls))
      BY <3>1, <3>2, <3>3 DEF LastBefore
    <3> HIDE DEF lev2
    <3> QED  BY <3>4, <2>1, <2>2, <2>4, <1>2 DEF EntryFits
  <2> QED  BY <2>3, <2>4, <1>1
<1> HIDE DEF lev2
<1>6. Fits(lev2, par, ls)
  BY <1>1, <1>2, <1>4, <1>5 DEF Fits
<1>7. OnTop(lev2, par, level, par[n])
  BY <1>1, <1>2 DEF OnTop
<1> QED  BY <1>6, <1>7 DEF lev2

(* A line of the level on top leaves the stacks fitting. *)
LEMMA LineFits ==
  ASSUME NEW lev, NEW par, NEW ls \in Seq(Nat), NEW level \in Nat, Fits(lev, par, ls),
         lev # <<>>, lev[Len(lev)] = level
  PROVE  Fits(lev, par, Append(ls, level))
<1> DEFINE ls2 == Append(ls, level)
<1>1. /\ lev \in Seq(Nat) /\ par \in Seq(Nat) /\ Len(lev) \in Nat /\ Len(par) = Len(lev)
      /\ Rising(lev) /\ \A i \in 1 .. Len(lev) : EntryFits(lev, par, ls, i)
  BY DEF Fits
<1>2. /\ Len(ls) \in Nat /\ Len(ls2) = Len(ls) + 1 /\ ls2[Len(ls) + 1] = level
      /\ \A k \in 1 .. Len(ls) : ls2[k] = ls[k]
  OBVIOUS
<1>3. ASSUME NEW i \in 1 .. Len(lev)  PROVE EntryFits(lev, par, ls2, i)
  <2>1. EntryFits(lev, par, ls, i)
    BY <1>1
  <2>2. lev[i] <= level /\ lev[i] \in Nat
    BY <1>1 DEF Rising
  <2>3. LastBefore(par[i], lev[i], ls, Len(ls)) /\ par[i] \in 0 .. Len(ls)
    BY <2>1 DEF EntryFits, LastBefore
  <2>4. LastBefore(par[i], lev[i], ls2, Len(ls2))
    BY <2>2, <2>3, <1>2 DEF LastBefore, NoParent
  <2>5. par[i] # NoParent => ls2[par[i]] = ls[par[i]]
    BY <2>3, <1>2 DEF NoParent
  <2> QED  BY <2>1, <2>4, <2>5 DEF EntryFits
<1> QED  BY <1>1, <1>3 DEF Fits

-----------------------------------------------------------------------------
(* The three kinds of lines.                                               *)
NewTop(level) ==
  /\ Fits(level_stack', parents_stack', lines)
  /\ OnTop(level_stack', parents_stack', level, cur_parent')
  /\ cur_level' = level

LEMMA DeeperFits ==
  ASSUME TreeInv, NEW level \in Nat, Deeper(level)
  PROVE  NewTop(level)
<1>1. /\ lines \in Seq(Nat) /\ Len(module_list) = Len(lines)
      /\ Fits(level_stack, parents_stack, lines)
  BY DEF TreeInv, TreeTypeOK
<1>2. lines = <<>> => level_stack = <<>>
  BY DEF TreeInv
<1>3. lines # <<>> => /\ level_stack # <<>> /\ level_stack[Len(level_stack)] = lines[Len(lines)]
                      /\ lines[Len(lines)] < level
  <2>1. lines # <<>> => lines[Len(lines)] \in Nat
    BY <1>1
  <2> QED  BY <2>1 DEF TreeInv, OnTop, Deeper
<1>4. /\ Fits(Append(level_stack, level), Append(parents_stack, Len(lines)), lines)
      /\ OnTop(Append(level_stack, level), Append(parents_stack, Len(lines)), level, Len(lines))
  BY <1>1, <1>2, <1>3, PushFits
<1> QED  BY <1>1, <1>4 DEF NewTop, Deeper, last_instance

LEMMA SameLevelFits ==
  ASSUME TreeInv, NEW level \in Nat, SameLevel(level)
  PROVE  NewTop(level)
  BY DEF TreeInv, SameLevel, NewTop

LEMMA ShallowerFits ==
  ASSUME TreeInv, NEW level \in Nat, Shallower(level)
  PROVE  NewTop(level)
<1>1. /\ lines \in Seq(Nat) /\ Fits(level_stack, parents_stack, lines)
      /\ level_stack \in Seq(Nat) /\ parents_stack \in Seq(Nat)
      /\ Len(parents_stack) = Len(level_stack)
  BY DEF TreeInv, TreeTypeOK, Fits
<1>2. PICK beyond \in 1 .. Len(level_stack) :
        /\ level_stack[beyond] > level
        /\ \A k \in 1 .. beyond - 1 : level_stack[k] <= level
        /\ level_stack' = LevelsFor(level, SubSeq(level_stack, 1, beyond - 1))
        /\ parents_stack' = ParentsFor(level, SubSeq(level_stack, 1, beyond - 1))
  BY <1>1 DEF Shallower
<1> DEFINE kept == SubSeq(level_stack, 1, beyond - 1)
<1>3. /\ kept \in Seq(Nat) /\ Len(kept) = beyond - 1 /\ beyond \in Nat
      /\ \A k \in 1 .. beyond - 1 : kept[k] = level_stack[k] /\ level_stack[k] \in Nat
      /\ level_stack[beyond] \in Nat
  <2>1. /\ beyond \in Nat /\ beyond - 1 \in Nat /\ beyond - 1 <= Len(level_stack)
        /\ Len(level_stack) \in Nat
    BY <1>1
  <2>2. level_stack[beyond] \in Nat
    BY <1>1
  <2> QED  BY <2>1, <2>2, <1>1, FirstElements
<1>4. ASSUME NEW parent, OnTop(level_stack', parents_stack', level, parent),
             Fits(level_stack', parents_stack', lines)
      PROVE  NewTop(level)
  <2>1. parents_stack' # <<>>
    BY <1>4 DEF OnTop, Fits
  <2> QED  BY <2>1, <1>4 DEF Shallower, NewTop, OnTop
<1>5. CASE kept # <<>> /\ kept[Len(kept)] = level
  <2> DEFINE m == beyond - 1
  <2>1. m \in 1 .. Len(level_stack) /\ level_stack[m] = level
    BY <1>1, <1>3, <1>5
  <2>2. level_stack' = SubSeq(level_stack, 1, m) /\ parents_stack' = SubSeq(parents_stack, 1, m)
    BY <1>2, <1>3, <1>5 DEF LevelsFor, ParentsFor
  <2>3. /\ Fits(level_stack', parents_stack', lines)
        /\ OnTop(level_stack', parents_stack', level, parents_stack[m])
    BY <2>1, <2>2, <1>1, CutFits
  <2> QED  BY <2>3, <1>4
<1>6. CASE ~ (kept # <<>> /\ kept[Len(kept)] = level)
  <2> DEFINE lev == SubSeq(level_stack, 1, beyond)
             par == SubSeq(parents_stack, 1, beyond)
  <2>1. Fits(lev, par, lines)
    BY <1>1, CutFits
  <2>2. /\ lev \in Seq(Nat) /\ Len(lev) = beyond /\ lev # <<>> /\ lev[beyond] = level_stack[beyond]
        /\ beyond # 1 => lev[beyond - 1] = level_stack[beyond - 1]
        /\ SubSeq(lev, 1, beyond - 1) = kept
    <3>1. /\ lev \in Seq(Nat) /\ Len(lev) = beyond /\ beyond \in Nat /\ beyond > 0
          /\ \A k \in 1 .. beyond : lev[k] = level_stack[k]
      <4>1. beyond \in Nat /\ beyond > 0 /\ beyond <= Len(level_stack) /\ Len(level_stack) \in Nat
        BY <1>1
      <4> QED  BY <4>1, <1>1, FirstElements
    <3>2. /\ SubSeq(lev, 1, beyond - 1) \in Seq(Nat)
          /\ Len(SubSeq(lev, 1, beyond - 1)) = beyond - 1
          /\ \A k \in 1 .. beyond - 1 : SubSeq(lev, 1, beyond - 1)[k] = level_stack[k]
      BY <3>1
    <3>3. SubSeq(lev, 1, beyond - 1) = kept
      BY <3>1, <3>2, <1>3
    <3> QED  BY <3>1, <3>3
  <2>3. beyond # 1 => level_stack[beyond - 1] < level
    <3> SUFFICES ASSUME beyond # 1  PROVE level_stack[beyond - 1] < level
      OBVIOUS
    <3>1. beyond - 1 \in 1 .. beyond - 1
      OBVIOUS
    <3>2. kept # <<>> /\ kept[Len(kept)] = level_stack[beyond - 1]
      BY <3>1, <1>3
    <3>3. level_stack[beyond - 1] <= level /\ level_stack[beyond - 1] \in Nat
      BY <3>1, <1>2, <1>3
    <3> QED  BY <3>2, <3>3, <1>6
  <2>4. /\ Fits(Append(kept, level), par, lines)
        /\ OnTop(Append(kept, level), par, level, par[beyond])
    <3>1. level < lev[Len(lev)] /\ (Len(lev) # 1 => lev[Len(lev) - 1] < level)
      BY <2>2, <2>3, <1>2, <1>3
    <3>2. /\ Fits(Append(SubSeq(lev, 1, Len(lev) - 1), level), par, lines)
          /\ OnTop(Append(SubSeq(lev, 1, Len(lev) - 1), level), par, level, par[Len(lev)])
      BY <3>1, <2>1, <2>2, <1>1, LowerFits
    <3> QED  BY <3>2, <2>2
  <2>5. level_stack' = Append(kept, level) /\ parents_stack' = par
    <3>1. LevelsFor(level, kept) = Append(kept, level)
      BY <1>6 DEF LevelsFor
    <3>2. Len(Append(kept, level)) = beyond
      BY <1>3
    <3> QED  BY <3>1, <3>2, <1>2 DEF ParentsFor
  <2> QED  BY <2>4, <2>5, <1>4
<1> QED  BY <1>5, <1>6

-----------------------------------------------------------------------------
LEMMA InitTree == TreeInit => TreeInv
<1> SUFFICES ASSUME TreeInit  PROVE TreeInv
  OBVIOUS
<1>1. TreeTypeOK
  BY DEF TreeInit, TreeTypeOK, NoParent
<1>2. Fits(level_stack, parents_stack, lines)
  BY DEF TreeInit, Fits, Rising
<1> QED  BY <1>1, <1>2 DEF TreeInit, TreeInv, ParentsAsWritten

(* What lies above a of the first m lies among the first m. *)
LEMMA Between == \A a, m \in Nat : \A l \in a + 1 .. m : l \in 1 .. m
  OBVIOUS

LEMMA NextTree == TreeInv /\ [TreeNext]_treeVars => TreeInv'
<1> SUFFICES ASSUME TreeInv, [TreeNext]_treeVars  PROVE TreeInv'
  OBVIOUS
<1>1. CASE UNCHANGED treeVars
  BY <1>1 DEF TreeInv, treeVars, TreeTypeOK, ParentsAsWritten
<1>2. ASSUME NEW level \in 0 .. MaxLevel, ReadLine(level)  PROVE TreeInv'
  <2>1. level \in Nat
    BY TreeAssumption
  <2>2. NewTop(level)
    BY <1>2, <2>1, DeeperFits, ShallowerFits, SameLevelFits DEF ReadLine
  <2>3. /\ lines \in Seq(Nat) /\ module_list \in Seq(Nat) /\ Len(module_list) = Len(lines)
        /\ lines' = Append(lines, level) /\ module_list' = Append(module_list, cur_parent')
    BY <1>2 DEF TreeInv, TreeTypeOK, ReadLine
  <2> DEFINE n == Len(lines)
  <2>4. Fits(level_stack', parents_stack', lines')
    BY <2>1, <2>2, <2>3, LineFits DEF NewTop, OnTop
  <2>5. /\ level_stack' \in Seq(Nat) /\ parents_stack' \in Seq(Nat) /\ level_stack' # <<>>
        /\ Len(parents_stack') = Len(level_stack') /\ Len(level_stack') \in 1 .. Len(level_stack')
        /\ level_stack'[Len(level_stack')] = level /\ parents_stack'[Len(level_stack')] = cur_parent'
    BY <2>2 DEF NewTop, Fits, OnTop
  <2>6. LastBefore(cur_parent', level, lines, n)
    <3>1. EntryFits(level_stack', parents_stack', lines, Len(level_stack'))
      BY <2>2, <2>5 DEF NewTop, Fits
    <3> QED  BY <3>1, <2>5 DEF EntryFits
  <2>7. /\ n \in Nat /\ cur_parent' \in Nat
        /\ lines' \in Seq(Nat) /\ Len(lines') = n + 1 /\ lines'[n + 1] = level
        /\ module_list' \in Seq(Nat) /\ Len(module_list') = n + 1
        /\ module_list'[n + 1] = cur_parent'
        /\ \A k \in 1 .. n : lines'[k] = lines[k] /\ module_list'[k] = module_list[k]
    <3>1. cur_parent' \in Nat
      BY <2>6, <2>3 DEF LastBefore
    <3> QED  BY <3>1, <2>1, <2>3
  <2>8. TreeTypeOK'
    BY <2>1, <2>2, <2>5, <2>7 DEF TreeTypeOK, NewTop
  <2>9. ASSUME NEW k \in 1 .. n + 1
        PROVE  LastBefore(module_list'[k], lines'[k], lines', k - 1)
    <3>1. CASE k \in 1 .. n
      <4>0. k \in DOMAIN lines
        BY <3>1, <2>3
      <4>1. LastBefore(module_list[k], lines[k], lines, k - 1)
        BY <4>0 DEF TreeInv, ParentsAsWritten
      <4>2. module_list[k] \in 0 .. k - 1
        BY <4>1 DEF LastBefore
      <4>3. module_list'[k] = module_list[k] /\ lines'[k] = lines[k] /\ n \in Nat
        BY <3>1, <2>7
      <4>4. module_list[k] # NoParent => lines'[module_list[k]] < lines[k]
        <5> SUFFICES ASSUME module_list[k] # NoParent  PROVE lines'[module_list[k]] < lines[k]
          OBVIOUS
        <5>1. module_list[k] \in 1 .. n
          BY <3>1, <4>2, <4>3 DEF NoParent
        <5> QED  BY <5>1, <4>1, <2>7 DEF LastBefore
      <4>5. \A l \in module_list[k] + 1 .. k - 1 : lines'[l] >= lines[k]
        <5> SUFFICES ASSUME NEW l \in module_list[k] + 1 .. k - 1  PROVE lines'[l] >= lines[k]
          OBVIOUS
        <5>1. l \in 1 .. n
          BY <3>1, <4>2, <4>3
        <5> QED  BY <5>1, <4>1, <2>7 DEF LastBefore
      <4> QED  BY <4>2, <4>3, <4>4, <4>5 DEF LastBefore
    <3>2. CASE k = n + 1
      <4>1. cur_parent' \in 0 .. n
        BY <2>6 DEF LastBefore
      <4>2. module_list'[k] = cur_parent' /\ lines'[k] = level /\ k - 1 = n
        BY <3>2, <2>7
      <4>3. cur_parent' # NoParent => lines'[cur_parent'] < level
        <5> SUFFICES ASSUME cur_parent' # NoParent  PROVE lines'[cur_parent'] < level
          OBVIOUS
        <5>1. cur_parent' \in 1 .. n
          BY <4>1, <2>7 DEF NoParent
        <5> QED  BY <5>1, <2>6, <2>7 DEF LastBefore
      <4>4. \A l \in cur_parent' + 1 .. n : lines'[l] >= level
        <5> SUFFICES ASSUME NEW l \in cur_parent' + 1 .. n  PROVE lines'[l] >= level
          OBVIOUS
        <5>1. l \in 1 .. n
          <6>1. n \in Nat /\ cur_parent' \in Nat
            BY <2>7
          <6> HIDE DEF n
          <6> QED  BY <6>1, Between
        <5> QED  BY <5>1, <2>6, <2>7 DEF LastBefore
      <4> QED  BY <4>1, <4>2, <4>3, <4>4 DEF LastBefore
    <3> QED  BY <3>1, <3>2, <2>7
  <2>10. ParentsAsWritten'
    <3>1. DOMAIN lines' = 1 .. n + 1
      BY <2>7
    <3> QED  BY <3>1, <2>9 DEF ParentsAsWritten
  <2> QED  BY <2>2, <2>4, <2>7, <2>8, <2>10 DEF TreeInv, NewTop
<1> QED  BY <1>1, <1>2 DEF TreeNext

(* The parent of every module that the command M reads is the last line    *)
(* above it that is indented less (mtree_parse).                           *)
THEOREM TreeParentsAsWritten == TreeSpec => []ParentsAsWritten
<1>1. TreeInv => ParentsAsWritten
  BY DEF TreeInv
<1> QED  BY <1>1, InitTree, NextTree, PTL DEF TreeSpec
-----------------------------------------------------------------------------
(***************************************************************************)
(* The exit code, for any ids, messages and thresholds.  As long as no     *)
(* threshold above a level was asked for, a message of that level that was *)
(* issued has been counted; nothing is counted that was not issued; and an *)
(* internal error ends the run.                                            *)
(***************************************************************************)
LoggerTypeOK ==
  /\ log_count_print \in [Level -> Nat]
  /\ default_log_level \in Level /\ log_property \in [LogId -> Level \cup {NoLevel}]
  /\ highest \in Level /\ c_loglevel \in D .. E
  /\ issued \subseteq Level

(* icglue itself sets the threshold of Gen to I, below W. *)
UpTo(level) == level <= I \/ level <= highest
ThresholdsInv ==
  /\ UpTo(default_log_level) /\ c_loglevel <= highest
  /\ \A id \in LogId : log_property[id] = NoLevel \/ UpTo(log_property[id])

CountsInv ==
  /\ \A level \in {W, E} : level \in issued /\ highest <= level => log_count_print[level] > 0
  /\ \A level \in Level : log_count_print[level] > 0 => level \in issued
  /\ X \in issued => stage = "exited" /\ exitcode = 1

LoggerInv == LoggerTypeOK /\ ThresholdsInv /\ CountsInv /\ ExitCodeTells

LEMMA LevelRange == Level = {D, I, W, E, X} /\ D .. E = {D, I, W, E}
BY DEF Level, D, I, W, E, X

LEMMA LoggerStarts == LoggerInit => LoggerInv
<1> SUFFICES ASSUME LoggerInit PROVE LoggerInv
  OBVIOUS
<1>1. LoggerTypeOK
  BY LevelRange DEF LoggerInit, LoggerTypeOK
<1>2. ThresholdsInv
  BY LevelRange DEF LoggerInit, ThresholdsInv, UpTo, D, I, W, E
<1>3. CountsInv /\ ExitCodeTells
  BY DEF LoggerInit, CountsInv, ExitCodeTells
<1> QED BY <1>1, <1>2, <1>3 DEF LoggerInv

(* A message is counted unless its level is below a threshold. *)
LEMMA MessageStep ==
  ASSUME LoggerTypeOK, ThresholdsInv, CountsInv, NEW level \in Level, NEW id \in LogId,
         log_base(level, id), c_loglevel' = c_loglevel, X \notin issued
  PROVE  /\ LoggerTypeOK' /\ ThresholdsInv' /\ UNCHANGED <<highest, default_log_level>>
         /\ \A l \in {W, E} : l \in issued' /\ highest <= l => log_count_print'[l] > 0
         /\ \A l \in Level : log_count_print'[l] > 0 => l \in issued'
         /\ X \in issued' => level = X
<1>1. /\ issued' = issued \cup {level} /\ log_property' = log_property
      /\ highest' = highest /\ default_log_level' = default_log_level
  BY DEF log_base, thresholds
<1>2. CASE log_suppress(level, id)
  <2>1. log_count_print' = log_count_print
    BY <1>2 DEF log_base
  <2>2. level <= highest \/ level <= I
    BY <1>2, LevelRange DEF log_suppress, ThresholdsInv, UpTo, LoggerTypeOK, D, I, W, E, X
  <2>3. level \in {W, E} => ~(highest <= level)
    BY <1>2, LevelRange DEF log_suppress, ThresholdsInv, UpTo, LoggerTypeOK, D, I, W, E, X
  <2> QED BY <1>1, <2>1, <2>3 DEF LoggerTypeOK, ThresholdsInv, UpTo, CountsInv
<1>3. CASE ~ log_suppress(level, id)
  <2>1. log_count_print' = [log_count_print EXCEPT ![level] = @ + 1]
    BY <1>3 DEF log_base, Count
  <2>2. log_count_print[level] \in Nat
    BY DEF LoggerTypeOK
  <2>3. /\ log_count_print'[level] > 0
        /\ \A l \in Level \ {level} : log_count_print'[l] = log_count_print[l]
    BY <2>1, <2>2 DEF LoggerTypeOK
  <2>4. log_count_print' \in [Level -> Nat]
    BY <2>1, <2>2 DEF LoggerTypeOK
  <2>5. {W, E} \subseteq Level
    BY LevelRange
  <2> QED BY <1>1, <2>3, <2>4, <2>5 DEF LoggerTypeOK, ThresholdsInv, UpTo, CountsInv
<1> QED BY <1>2, <1>3

(* A threshold is at most the highest there has been. *)
LEMMA ThresholdStep ==
  ASSUME LoggerTypeOK, ThresholdsInv, CountsInv, NEW level \in Level, c_loglevel' = c_loglevel,
         \/ set_default_log_level(level)
         \/ \E id \in LogId : log_particular_level(id, level)
  PROVE  /\ LoggerTypeOK' /\ ThresholdsInv'
         /\ log_count_print' = log_count_print /\ issued' = issued
         /\ \A l \in {W, E} : l \in issued' /\ highest' <= l => log_count_print'[l] > 0
<1>1. /\ highest' = IF level > highest THEN level ELSE highest
      /\ log_count_print' = log_count_print /\ issued' = issued
  BY DEF set_default_log_level, log_particular_level, Threshold, counts
<1>2. highest' \in Level /\ highest <= highest' /\ level <= highest'
  BY <1>1, LevelRange DEF LoggerTypeOK, D, I, W, E, X
<1>3. \A l \in Level : UpTo(l) => UpTo(l)'
  BY <1>2, LevelRange DEF UpTo, LoggerTypeOK, D, I, W, E, X
<1>4. /\ default_log_level' \in Level /\ UpTo(default_log_level)'
      /\ log_property' \in [LogId -> Level \cup {NoLevel}]
      /\ \A id \in LogId : log_property'[id] = NoLevel \/ UpTo(log_property[id])'
  <2>1. CASE set_default_log_level(level)
    BY <1>2, <1>3, <2>1 DEF set_default_log_level, LoggerTypeOK, ThresholdsInv, UpTo
  <2>2. ASSUME NEW id \in LogId, log_particular_level(id, level)
        PROVE  /\ default_log_level' = default_log_level
               /\ log_property' = [log_property EXCEPT ![id] = level]
    BY <2>2 DEF log_particular_level
  <2> QED BY <1>2, <1>3, <2>1, <2>2 DEF LoggerTypeOK, ThresholdsInv, UpTo
<1>5. \A l \in {W, E} : highest' <= l => highest <= l
  BY <1>2, LevelRange DEF LoggerTypeOK, D, I, W, E, X
<1>6. c_loglevel <= highest'
  BY <1>2, LevelRange DEF LoggerTypeOK, ThresholdsInv, D, I, W, E, X
<1> QED BY <1>1, <1>2, <1>4, <1>5, <1>6 DEF LoggerTypeOK, ThresholdsInv, CountsInv

LEMMA LoggerStep ==
  ASSUME LoggerInv, [LoggerNext]_logVars
  PROVE  LoggerInv'
<1> USE DEF LoggerInv
<1>1. ASSUME UNCHANGED <<thresholds, counts, c_loglevel>>
      PROVE  LoggerTypeOK' /\ ThresholdsInv'
  BY <1>1 DEF thresholds, counts, LoggerTypeOK, ThresholdsInv, UpTo
<1>2. CASE UNCHANGED logVars
  BY <1>1, <1>2 DEF logVars, thresholds, counts, CountsInv, ExitCodeTells
<1>3. stage # "exited" => X \notin issued
  BY DEF CountsInv
<1>4. {W, E} \subseteq Level /\ {E, X} \subseteq Level /\ D .. E \subseteq Level /\ X \notin D .. E /\ E # X
  BY LevelRange DEF D, I, W, E, X
(* The run goes on. *)
<1>5. ASSUME stage # "exited", stage' # "exited", c_loglevel' = c_loglevel,
             NEW level \in Level, level # X, NEW id \in LogId, log_base(level, id)
      PROVE  LoggerInv'
  BY <1>3, <1>5, MessageStep DEF CountsInv, ExitCodeTells
<1>6. ASSUME stage # "exited", stage' # "exited", c_loglevel' = c_loglevel, NEW level \in Level,
             \/ set_default_log_level(level)
             \/ \E id \in LogId : log_particular_level(id, level)
      PROVE  LoggerInv'
  BY <1>3, <1>6, ThresholdStep DEF CountsInv, ExitCodeTells
<1>7. ASSUME stage # "exited", stage' # "exited", UNCHANGED <<thresholds, counts, c_loglevel>>
      PROVE  LoggerInv'
  BY <1>1, <1>3, <1>7 DEF thresholds, counts, CountsInv, ExitCodeTells
(* The run ends. *)
<1>8. ASSUME stage # "exited", Exit(1), c_loglevel' = c_loglevel,
             NEW level \in {E, X}, NEW id \in LogId, log_base(level, id)
      PROVE  LoggerInv'
  BY <1>3, <1>4, <1>8, MessageStep DEF CountsInv, ExitCodeTells, Exit
<1>9. ASSUME stage # "exited", Exit(1), UNCHANGED <<thresholds, counts, c_loglevel>>
      PROVE  LoggerInv'
  BY <1>1, <1>9 DEF thresholds, counts, CountsInv, ExitCodeTells, Exit
<1>10. CASE OutputEnds /\ c_loglevel' = c_loglevel
  <2> DEFINE seen == {l \in c_loglevel .. E : log_count_print[l] > 0}
  <2>1. /\ stage # "exited" /\ stage' = "exited" /\ exitcode' = ExitCode(seen)
        /\ UNCHANGED <<thresholds, counts>>
    BY <1>10 DEF OutputEnds, Exit
  <2>2. LoggerTypeOK' /\ ThresholdsInv' /\ issued' = issued /\ highest' = highest
        /\ log_count_print' = log_count_print
    BY <1>1, <1>10, <2>1 DEF thresholds, counts
  <2>3. \A l \in {W, E} : l \in seen => l \in issued
    BY <1>4 DEF CountsInv
  <2>4. \A l \in {W, E} : l \in issued /\ highest <= l => l \in seen
    <3> SUFFICES ASSUME NEW l \in {W, E}, l \in issued, highest <= l PROVE l \in seen
      OBVIOUS
    <3>1. log_count_print[l] > 0
      BY DEF CountsInv
    <3>2. l \in c_loglevel .. E
      BY LevelRange DEF LoggerTypeOK, ThresholdsInv, D, I, W, E, X
    <3> QED BY <3>1, <3>2
  <2> HIDE DEF seen
  <2>5. highest \in Level /\ W \in Level /\ (highest > E <=> ~(highest <= E))
        /\ (highest > W <=> ~(highest <= W))
    BY LevelRange DEF LoggerTypeOK, D, I, W, E, X
  <2>6. ExitCodeTells'
    BY <1>3, <2>1, <2>2, <2>3, <2>4, <2>5 DEF ExitCodeTells, ExitCode
  <2>7. CountsInv'
    BY <1>3, <2>1, <2>2 DEF CountsInv
  <2> QED BY <2>2, <2>6, <2>7
<1>11. CASE LoggerNext
  <2>0. c_loglevel' = c_loglevel
    BY <1>11 DEF LoggerNext
  <2>1. ASSUME NEW level \in Level, NEW id \in LogId, LogOption(level, id) PROVE LoggerInv'
    <3>1. stage # "exited" /\ stage' # "exited"
      BY <2>1 DEF LogOption, Goes
    <3>2. CASE level \in D .. E
      BY <1>6, <2>0, <2>1, <3>1, <3>2 DEF LogOption
    <3>3. CASE level \notin D .. E
      <4>1. log_base(E, "Tcl")
        BY <2>1, <3>3 DEF LogOption
      <4> QED BY <1>4, <1>5, <2>0, <3>1, <4>1, LogIdAssumption
    <3> QED BY <3>2, <3>3
  <2>2. CASE LoadTemplate \/ ScriptEnds
    BY <1>7, <2>0, <2>2 DEF LoadTemplate, ScriptEnds, Goes
  <2>3. CASE LoadTemplateFails \/ ScriptFails
    <3>1. log_base(E, "Tcl") /\ Exit(1) /\ stage # "exited"
      BY <2>3 DEF LoadTemplateFails, ScriptFails
    <3> QED BY <1>8, <2>0, <3>1, LogIdAssumption
  <2>4. ASSUME NEW level \in D .. E, NEW id \in LogId, Log(level, id) PROVE LoggerInv'
    <3>1. log_base(level, id) /\ stage # "exited" /\ stage' # "exited"
      BY <2>4 DEF Log
    <3> QED BY <1>4, <1>5, <2>0, <3>1
  <2>5. ASSUME NEW id \in LogId, InternalError(id) PROVE LoggerInv'
    <3>1. log_base(X, id) /\ Exit(1) /\ stage # "exited"
      BY <2>5 DEF InternalError, Exit
    <3> QED BY <1>8, <2>0, <3>1
  <2>6. ASSUME NEW level \in Level, Logger(level) PROVE LoggerInv'
    BY <1>6, <2>0, <2>6 DEF Logger, Goes
  <2>7. CASE OutputFails
    BY <1>9, <2>0, <2>7 DEF OutputFails
  <2>8. CASE OutputEnds
    BY <1>10, <2>0, <2>8
  <2> QED BY <1>11, <2>1, <2>2, <2>3, <2>4, <2>5, <2>6, <2>7, <2>8 DEF LoggerNext
<1> QED BY <1>2, <1>11

(* A run with an error, counted or not, does not end like one without,     *)
(* unless a script raised a threshold above the level of errors; and the   *)
(* codes 2 and 0 mean what a Makefile takes them for (generate and         *)
(* run_script of bin/icglue, log_base of lib/logger.c), whatever the ids   *)
(* and however many messages and thresholds there are.                     *)
THEOREM LoggerExitCodeTells == LoggerSpec => []ExitCodeTells
<1>1. LoggerInv => ExitCodeTells
  BY DEF LoggerInv
<1> QED BY <1>1, LoggerStarts, LoggerStep, PTL DEF LoggerSpec

-----------------------------------------------------------------------------
(***************************************************************************)
(* The addresses of a register file, for words and alignments of any size, *)
(* tables of any length and any number of entries.  What RT and the check  *)
(* of addresses do entry by entry is defined by recursion: that it has the *)
(* values the recursion says, and what holds of them, is shown by          *)
(* induction over the entries (Recursion).                                 *)
(***************************************************************************)
(* Division by a number that is not known: the provers find these facts,  *)
(* not those with a = n * (a \div n) + a % n.                              *)
LEMMA Division ==
  ASSUME NEW a \in Nat, NEW n \in Nat \ {0}
  PROVE  /\ a \div n \in Nat
         /\ a - n * (a \div n) \in 0 .. n - 1
         /\ a % n \in 0 .. n - 1
<1>1. n \in Nat /\ n > 0
  OBVIOUS
<1>2. a \div n \in Int /\ a \div n >= 0
  BY <1>1
<1>3. a - n * (a \div n) \in 0 .. n - 1
  BY <1>1
<1>4. a % n \in 0 .. n - 1
  BY <1>1
<1> QED BY <1>2, <1>3, <1>4

(* Addresses a word apart are in different words.                          *)
LEMMA WordsApart ==
  ASSUME NEW a \in Nat, NEW b \in Nat, a + AddrAlign <= b
  PROVE  WordOf(a) # WordOf(b)
<1>1. AddrAlign \in Nat \ {0}
  BY EntriesAssumption
<1>2. ASSUME WordOf(a) = WordOf(b) PROVE FALSE
  <2> DEFINE p == AddrAlign * (a \div AddrAlign)
  <2>1. p \in Int /\ a - p \in 0 .. AddrAlign - 1
    BY <1>1, Division
  <2>2. b - p \in 0 .. AddrAlign - 1
    BY <1>1, <1>2, Division DEF WordOf
  <2> HIDE DEF p
  <2> QED BY <1>1, <2>1, <2>2
<1> QED BY <1>2

LEMMA AlignedUp ==
  ASSUME NEW base \in Nat, NEW align \in Nat \ {0}
  PROVE  AlignedAddr(base, align) \in Nat /\ AlignedAddr(base, align) >= base
<1>1. base % align \in 0 .. align - 1
  BY Division
<1> QED BY <1>1 DEF AlignedAddr

LEMMA WordAddresses ==
  ASSUME NEW a \in Nat, NEW b \in Nat
  PROVE  b \in AddressesOf(WordOf(a)) <=> WordOf(b) = WordOf(a)
<1>1. AddrAlign \in Nat \ {0}
  BY EntriesAssumption
<1> DEFINE q == WordOf(a)
<1>2. q \in Nat
  BY <1>1, Division DEF WordOf
<1>3. ASSUME WordOf(b) = q PROVE b \in AddressesOf(q)
  <2> DEFINE p == AddrAlign * q
             i == b - p
  <2>1. i \in 0 .. AddrAlign - 1
    BY <1>1, <1>3, Division DEF WordOf
  <2> HIDE DEF q
  <2>2. p \in Int /\ p = q * AddrAlign
    BY <1>1, <1>2
  <2>3. b = p + i
    BY <2>2
  <2> HIDE DEF i, p
  <2> QED BY <2>1, <2>2, <2>3 DEF AddressesOf
<1>4. ASSUME b \in AddressesOf(q) PROVE WordOf(b) = q
  <2> HIDE DEF q
  <2>1. PICK i \in 0 .. AddrAlign - 1 : b = q * AddrAlign + i
    BY <1>4 DEF AddressesOf
  <2>2. (q * AddrAlign + i) \div AddrAlign = q
    BY <1>1, <1>2
  <2> QED BY <2>1, <2>2 DEF WordOf
<1> QED BY <1>3, <1>4

EntryRecord == [name : EntryName \cup {Blank}, address : Nat, protected : BOOLEAN]

(* The check remembers exactly the addresses of the words passed.          *)
LEMMA OverlapsAreWarned ==
  ASSUME NEW sorted \in Seq(EntryRecord)
  PROVE  OverlapsWarned(sorted) = {k \in DOMAIN sorted : \E j \in 1 .. k - 1 :
                                     WordOf(sorted[j].address) = WordOf(sorted[k].address)}
<1> DEFINE n == Len(sorted)
           Add(seen, k) == LET a == sorted[k].address
                           IN  IF a \in seen THEN seen ELSE seen \cup AddressesOf(WordOf(a))
           L == CHOOSE list : list = [k \in 0 .. n |-> IF k = 0 THEN {} ELSE Add(list[k - 1], k)]
           Seen(k) == UNION {AddressesOf(WordOf(sorted[j].address)) : j \in 1 .. k}
           g == [k \in 0 .. n |-> Seen(k)]
<1>1. n \in Nat /\ DOMAIN sorted = 1 .. n /\ \A k \in 1 .. n : sorted[k].address \in Nat
  <2>1. n \in Nat /\ DOMAIN sorted = 1 .. n /\ \A k \in 1 .. n : sorted[k] \in EntryRecord
    OBVIOUS
  <2> QED BY <2>1 DEF EntryRecord
<1>2. OverlapsWarned(sorted) = {k \in 1 .. n : sorted[k].address \in L[k - 1]}
  BY DEF OverlapsWarned
<1> HIDE DEF n
(* The addresses seen are those of the words seen. *)
<1>3. ASSUME NEW k \in 1 .. n
      PROVE  sorted[k].address \in Seen(k - 1) <=>
               \E j \in 1 .. k - 1 : WordOf(sorted[j].address) = WordOf(sorted[k].address)
  <2>1. \A j \in 1 .. k - 1 : j \in 1 .. n
    BY <1>1
  <2> QED BY <1>1, <2>1, WordAddresses
<1>4. ASSUME NEW k \in 1 .. n PROVE Seen(k) = Add(Seen(k - 1), k)
  <2> DEFINE new == AddressesOf(WordOf(sorted[k].address))
  <2>1. 1 .. k = (1 .. k - 1) \cup {k}
    BY <1>1
  <2>2. Seen(k) = Seen(k - 1) \cup new
    BY <2>1
  <2>3. CASE sorted[k].address \in Seen(k - 1)
    <3>1. PICK j \in 1 .. k - 1 : WordOf(sorted[j].address) = WordOf(sorted[k].address)
      BY <1>3, <2>3
    <3>2. new \subseteq Seen(k - 1)
      BY <3>1
    <3> QED BY <2>2, <2>3, <3>2
  <2>4. CASE sorted[k].address \notin Seen(k - 1)
    BY <2>2, <2>4
  <2> QED BY <2>3, <2>4
<1>5. Seen(0) = {}
  OBVIOUS
<1> HIDE DEF Seen, Add
<1>6. g = [k \in 0 .. n |-> IF k = 0 THEN {} ELSE Add(g[k - 1], k)]
  <2>1. \A k \in 0 .. n : k # 0 => k \in 1 .. n /\ k - 1 \in 0 .. n
    BY <1>1
  <2>2. \A k \in 0 .. n : g[k] = IF k = 0 THEN {} ELSE Add(g[k - 1], k)
    BY <1>4, <1>5, <2>1
  <2> QED BY <2>2
<1>7. L = [k \in 0 .. n |-> IF k = 0 THEN {} ELSE Add(L[k - 1], k)]
  BY <1>6
<1>8. \A k \in 0 .. n : L[k] = g[k]
  <2> HIDE DEF L, g
  <2>1. 0 \in 0 .. n /\ \A k \in 1 .. n : k \in 0 .. n /\ k # 0
    BY <1>1
  <2>2. \A k \in 0 .. n : /\ L[k] = IF k = 0 THEN {} ELSE Add(L[k - 1], k)
                          /\ g[k] = IF k = 0 THEN {} ELSE Add(g[k - 1], k)
    BY <1>6, <1>7
  <2> DEFINE T == {k \in 0 .. n : L[k] = g[k]}
  <2>3. 0 \in T /\ \A k \in 1 .. n : k - 1 \in T => k \in T
    BY <2>1, <2>2
  <2>4. n \in Nat
    BY <1>1
  <2> HIDE DEF T
  <2>5. 0 .. n \subseteq T
    BY <2>3, <2>4, StepsReach
  <2> QED BY <2>5 DEF T
<1>9. \A k \in 0 .. n : L[k] = Seen(k)
  BY <1>8
<1>10. \A k \in 1 .. n : L[k - 1] = Seen(k - 1)
  BY <1>1, <1>9
<1> QED BY <1>1, <1>2, <1>3, <1>10

(* Every entry made lies below the address to go on from, and above the    *)
(* entries made before it.                                                 *)
Upwards(s) ==
  \A k \in 1 .. Len(s.entries) :
    /\ s.entries[k].address + AddrAlign <= s.next
    /\ \A j \in 1 .. k - 1 : s.entries[j].address + AddrAlign <= s.entries[k].address

Progress == {s \in [entries : Seq(EntryRecord), next : Nat, ascending : BOOLEAN] :
               s.ascending => Upwards(s)}

DictRecord == [name : EntryName \cup {Blank}, address : Nat \cup {Blank},
               protect : Protect \cup {Blank}]

LEMMA EntrySteps ==
  ASSUME NEW s \in Progress, NEW n \in Nat, NEW F \in [1 .. n -> [Progress -> Progress]]
  PROVE  \E a \in [0 .. n -> Progress] : a[0] = s /\ \A k \in 1 .. n : a[k] = F[k][a[k - 1]]
BY StepsExist

LEMMA EntryMadeUpwards ==
  ASSUME NEW s \in Progress, NEW name \in EntryName \cup {Blank}, NEW address \in Nat \cup {Blank},
         NEW register_align \in Nat \ {0}, NEW protected \in BOOLEAN
  PROVE  EntryMade(s, name, address, register_align, protected) \in Progress
<1> DEFINE a == IF address = Blank THEN AlignedAddr(s.next, AddrAlign * register_align) ELSE address
           e == [name |-> name, address |-> a, protected |-> protected]
           t == EntryMade(s, name, address, register_align, protected)
<1>1. s \in [entries : Seq(EntryRecord), next : Nat, ascending : BOOLEAN] /\ (s.ascending => Upwards(s))
  BY DEF Progress
<1>2. AddrAlign \in Nat \ {0} /\ AddrAlign * register_align \in Nat \ {0}
  BY EntriesAssumption
<1>3. a \in Nat
  BY <1>1, <1>2, AlignedUp
<1>4. e \in EntryRecord /\ e.address = a
  BY <1>3 DEF EntryRecord
<1>5. t = [entries |-> Append(s.entries, e), next |-> a + AddrAlign,
           ascending |-> s.ascending /\ a >= s.next]
  BY DEF EntryMade
<1> HIDE DEF a, e, t
<1>6. t.ascending \in BOOLEAN /\ (t.ascending <=> s.ascending /\ a >= s.next)
  BY <1>5
<1>7. t \in [entries : Seq(EntryRecord), next : Nat, ascending : BOOLEAN]
  <2>1. Append(s.entries, e) \in Seq(EntryRecord) /\ a + AddrAlign \in Nat
    BY <1>1, <1>2, <1>3, <1>4
  <2> QED BY <1>5, <2>1
<1>8. ASSUME t.ascending PROVE Upwards(t)
  <2> DEFINE n == Len(s.entries)
  <2>1. /\ n \in Nat /\ Len(t.entries) = n + 1 /\ t.entries[n + 1] = e
        /\ \A k \in 1 .. n : t.entries[k] = s.entries[k] /\ s.entries[k].address \in Nat
        /\ t.next = a + AddrAlign
    <3>1. n \in Nat /\ \A k \in 1 .. n : s.entries[k] \in EntryRecord
      BY <1>1
    <3>2. \A k \in 1 .. n : s.entries[k].address \in Nat
      BY <3>1 DEF EntryRecord
    <3>3. t.entries = Append(s.entries, e) /\ t.next = a + AddrAlign
      BY <1>5
    <3> QED BY <1>1, <3>1, <3>2, <3>3
  <2>2. s.next \in Nat /\ a >= s.next
    BY <1>1, <1>6, <1>8
  <2>3. \A k \in 1 .. n : /\ s.entries[k].address + AddrAlign <= s.next
                          /\ \A j \in 1 .. k - 1 :
                               s.entries[j].address + AddrAlign <= s.entries[k].address
    BY <1>1, <1>6, <1>8 DEF Upwards
  <2> HIDE DEF n
  <2> DEFINE old(k) == s.entries[k].address
             new(k) == t.entries[k].address
  <2>4. new(n + 1) = a /\ \A k \in 1 .. n : new(k) = old(k) /\ old(k) \in Nat
    BY <1>4, <2>1
  <2>5. \A k \in 1 .. n : /\ old(k) + AddrAlign <= s.next
                          /\ \A j \in 1 .. k - 1 : old(j) + AddrAlign <= old(k)
    BY <2>3
  <2> HIDE DEF old, new
  <2>6. ASSUME NEW k \in 1 .. n + 1
        PROVE  /\ new(k) + AddrAlign <= a + AddrAlign
               /\ \A j \in 1 .. k - 1 : new(j) + AddrAlign <= new(k)
    <3>1. CASE k = n + 1
      <4>1. \A j \in 1 .. n : old(j) + AddrAlign <= a
        BY <1>2, <1>3, <2>2, <2>4, <2>5
      <4> QED BY <1>2, <1>3, <2>1, <2>4, <3>1, <4>1
    <3>2. CASE k \in 1 .. n
      <4>1. old(k) <= a /\ \A j \in 1 .. k - 1 : j \in 1 .. n
        BY <1>2, <1>3, <2>1, <2>2, <2>4, <2>5, <3>2
      <4> QED BY <1>2, <1>3, <2>4, <2>5, <3>2, <4>1
    <3> QED BY <2>1, <3>1, <3>2
  <2> QED BY <2>1, <2>6 DEF Upwards, new
<1> QED BY <1>7, <1>8 DEF Progress, t

LEMMA EntriesMadeUpwards ==
  ASSUME NEW s \in Progress, NEW dict \in Seq(DictRecord), NEW offset \in Nat \cup {Blank}
  PROVE  EntriesMade(s, dict, offset) \in Progress
<1> DEFINE n == Len(dict)
           At(k) == AddressAt(dict[k].address, offset)
           Made1(x, k) == EntryMade(x, dict[k].name, At(k), 1, dict[k].protect = TRUE)
           start == StartAt(s, offset)
           M == CHOOSE made : made = [k \in 0 .. n |-> IF k = 0 THEN start ELSE Made1(made[k - 1], k)]
           F == [k \in 1 .. n |-> [x \in Progress |-> Made1(x, k)]]
<1>1. n \in Nat /\ \A k \in 1 .. n : /\ dict[k].name \in EntryName \cup {Blank}
                                     /\ dict[k].address \in Nat \cup {Blank}
  <2>1. n \in Nat /\ \A k \in 1 .. n : dict[k] \in DictRecord
    OBVIOUS
  <2> QED BY <2>1 DEF DictRecord
<1>2. EntriesMade(s, dict, offset) = M[n]
  BY DEF EntriesMade
<1>3. start \in Progress
  <2>1. s \in [entries : Seq(EntryRecord), next : Nat, ascending : BOOLEAN] /\ (s.ascending => Upwards(s))
    BY DEF Progress
  <2>2. CASE offset = Blank
    BY <2>2 DEF StartAt
  <2>3. CASE offset \in Nat
    <3>1. offset # Blank
      BY <2>3, EntriesAssumption
    <3>2. start = [s EXCEPT !.next = offset, !.ascending = s.ascending /\ offset >= s.next]
      BY <3>1 DEF StartAt
    <3>3. /\ start.entries = s.entries /\ start.next = offset
          /\ start.ascending = (s.ascending /\ offset >= s.next)
      BY <2>1, <3>2
    <3>4. start \in [entries : Seq(EntryRecord), next : Nat, ascending : BOOLEAN]
      BY <2>1, <2>3, <3>2
    <3>5. start.ascending => Upwards(start)
      <4> SUFFICES ASSUME start.ascending PROVE Upwards(start)
        OBVIOUS
      <4>1. Upwards(s) /\ s.next <= offset
        BY <2>1, <3>3
      <4> DEFINE e == s.entries
      <4>2. \A k \in 1 .. Len(e) : e[k].address \in Nat
        <5>1. \A k \in 1 .. Len(e) : e[k] \in EntryRecord
          BY <2>1
        <5> QED BY <5>1 DEF EntryRecord
      <4>3. AddrAlign \in Nat /\ s.next \in Nat
        BY <2>1, EntriesAssumption
      <4>4. \A k \in 1 .. Len(e) : e[k].address + AddrAlign <= offset
        BY <2>3, <4>1, <4>2, <4>3 DEF Upwards
      <4> QED BY <3>3, <4>1, <4>4 DEF Upwards
    <3> QED BY <3>4, <3>5 DEF Progress
  <2> QED BY <2>2, <2>3
<1>4. \A k \in 1 .. n : \A x \in Progress : Made1(x, k) \in Progress
  <2> SUFFICES ASSUME NEW k \in 1 .. n, NEW x \in Progress PROVE Made1(x, k) \in Progress
    OBVIOUS
  <2>1. At(k) \in Nat \cup {Blank}
    BY <1>1 DEF AddressAt
  <2>2. (dict[k].protect = TRUE) \in BOOLEAN /\ 1 \in Nat \ {0}
    OBVIOUS
  <2> HIDE DEF At
  <2> QED BY <1>1, <2>1, <2>2, EntryMadeUpwards
<1> HIDE DEF n, At, Made1, start
<1>5. F \in [1 .. n -> [Progress -> Progress]] /\ \A k \in 1 .. n : \A x \in Progress : F[k][x] = Made1(x, k)
  BY <1>4
<1> HIDE DEF F
<1>6. PICK a \in [0 .. n -> Progress] : a[0] = start /\ \A k \in 1 .. n : a[k] = F[k][a[k - 1]]
  BY <1>1, <1>3, <1>5, EntrySteps
<1>7. a = [k \in 0 .. n |-> IF k = 0 THEN start ELSE Made1(a[k - 1], k)]
  <2>1. \A k \in 1 .. n : k - 1 \in 0 .. n
    BY <1>1
  <2>2. \A k \in 1 .. n : a[k] = Made1(a[k - 1], k)
    BY <1>5, <1>6, <2>1
  <2>3. \A k \in 0 .. n : a[k] = IF k = 0 THEN start ELSE Made1(a[k - 1], k)
    BY <1>1, <1>6, <2>2
  <2> QED BY <2>3
<1>8. M = [k \in 0 .. n |-> IF k = 0 THEN start ELSE Made1(M[k - 1], k)]
  BY <1>7
<1>9. \A k \in 0 .. n : M[k] = a[k]
  <2> HIDE DEF M
  <2>1. 0 \in 0 .. n /\ \A k \in 1 .. n : k \in 0 .. n /\ k # 0
    BY <1>1
  <2>2. \A k \in 0 .. n : /\ M[k] = IF k = 0 THEN start ELSE Made1(M[k - 1], k)
                          /\ a[k] = IF k = 0 THEN start ELSE Made1(a[k - 1], k)
    BY <1>7, <1>8
  <2> DEFINE T == {k \in 0 .. n : M[k] = a[k]}
  <2>3. 0 \in T /\ \A k \in 1 .. n : k - 1 \in T => k \in T
    BY <2>1, <2>2
  <2>4. n \in Nat
    BY <1>1
  <2> HIDE DEF T
  <2>5. 0 .. n \subseteq T
    BY <2>3, <2>4, StepsReach
  <2> QED BY <2>5 DEF T
<1>10. n \in 0 .. n
  BY <1>1
<1> QED BY <1>2, <1>6, <1>9, <1>10

-----------------------------------------------------------------------------
(* Tables. *)
Reading == [dict : Seq(DictRecord), last_name : EntryName \cup {Blank}, last_addr : Nat \cup {Blank}]

LEMMA RowReadType ==
  ASSUME NEW r \in Reading, NEW row \in Row
  PROVE  RowRead(r, row) \in Reading
<1> DEFINE name == IF row.entry = Blank THEN r.last_name ELSE row.entry
           same == name = r.last_name
           address == IF same /\ row.address = Blank THEN r.last_addr ELSE row.address
           entry == [name |-> name, address |-> address, protect |-> row.protect]
           known == {k \in 1 .. Len(r.dict) : r.dict[k].name = name}
           dict == IF known = {} THEN Append(r.dict, entry)
                   ELSE [k \in 1 .. Len(r.dict) |-> IF k \in known THEN entry ELSE r.dict[k]]
<1>1. /\ r.dict \in Seq(DictRecord) /\ r.last_name \in EntryName \cup {Blank}
      /\ r.last_addr \in Nat \cup {Blank}
  BY DEF Reading
<1>2. name \in EntryName \cup {Blank} /\ address \in Nat \cup {Blank} /\ row.protect \in Protect \cup {Blank}
  BY <1>1, EntriesAssumption DEF Row
<1>3. RowRead(r, row) = [dict |-> dict, last_name |-> name, last_addr |-> address]
  BY DEF RowRead
<1>4. entry \in DictRecord
  BY <1>2 DEF DictRecord
<1> HIDE DEF name, address, entry, known
<1>5. dict \in Seq(DictRecord)
  <2>1. Len(r.dict) \in Nat /\ \A k \in 1 .. Len(r.dict) : r.dict[k] \in DictRecord
    BY <1>1
  <2>2. CASE known = {}
    BY <1>1, <1>4, <2>2
  <2>3. CASE known # {}
    <3>1. dict \in [1 .. Len(r.dict) -> DictRecord]
      BY <1>4, <2>1, <2>3
    <3> QED BY <2>1, <3>1
  <2> QED BY <2>2, <2>3
<1> QED BY <1>2, <1>3, <1>5 DEF Reading

LEMMA ReadSteps ==
  ASSUME NEW s \in Reading, NEW n \in Nat, NEW F \in [1 .. n -> [Reading -> Reading]]
  PROVE  \E a \in [0 .. n -> Reading] : a[0] = s /\ \A k \in 1 .. n : a[k] = F[k][a[k - 1]]
BY StepsExist

LEMMA TableReadType ==
  ASSUME NEW rows \in Seq(Row)
  PROVE  TableRead(rows) \in Seq(DictRecord)
<1> DEFINE n == Len(rows)
           start == [dict |-> <<>>, last_name |-> Blank, last_addr |-> Blank]
           R1(r, k) == RowRead(r, rows[k])
           M == CHOOSE read : read = [k \in 0 .. n |-> IF k = 0 THEN start ELSE R1(read[k - 1], k)]
           F == [k \in 1 .. n |-> [r \in Reading |-> R1(r, k)]]
<1>1. n \in Nat /\ \A k \in 1 .. n : rows[k] \in Row
  OBVIOUS
<1>2. TableRead(rows) = M[n].dict
  BY DEF TableRead
<1>3. start \in Reading
  BY DEF Reading
<1>4. \A k \in 1 .. n : \A r \in Reading : R1(r, k) \in Reading
  BY <1>1, RowReadType
<1> HIDE DEF n, R1, start
<1>5. F \in [1 .. n -> [Reading -> Reading]] /\ \A k \in 1 .. n : \A r \in Reading : F[k][r] = R1(r, k)
  BY <1>4
<1> HIDE DEF F
<1>6. PICK a \in [0 .. n -> Reading] : a[0] = start /\ \A k \in 1 .. n : a[k] = F[k][a[k - 1]]
  BY <1>1, <1>3, <1>5, ReadSteps
<1>7. a = [k \in 0 .. n |-> IF k = 0 THEN start ELSE R1(a[k - 1], k)]
  <2>1. \A k \in 1 .. n : k - 1 \in 0 .. n
    BY <1>1
  <2>2. \A k \in 1 .. n : a[k] = R1(a[k - 1], k)
    BY <1>5, <1>6, <2>1
  <2>3. \A k \in 0 .. n : a[k] = IF k = 0 THEN start ELSE R1(a[k - 1], k)
    BY <1>1, <1>6, <2>2
  <2> QED BY <2>3
<1>8. M = [k \in 0 .. n |-> IF k = 0 THEN start ELSE R1(M[k - 1], k)]
  BY <1>7
<1>9. \A k \in 0 .. n : M[k] = a[k]
  <2> HIDE DEF M
  <2>1. 0 \in 0 .. n /\ \A k \in 1 .. n : k \in 0 .. n /\ k # 0
    BY <1>1
  <2>2. \A k \in 0 .. n : /\ M[k] = IF k = 0 THEN start ELSE R1(M[k - 1], k)
                          /\ a[k] = IF k = 0 THEN start ELSE R1(a[k - 1], k)
    BY <1>7, <1>8
  <2> DEFINE T == {k \in 0 .. n : M[k] = a[k]}
  <2>3. 0 \in T /\ \A k \in 1 .. n : k - 1 \in T => k \in T
    BY <2>1, <2>2
  <2>4. n \in Nat
    BY <1>1
  <2> HIDE DEF T
  <2>5. 0 .. n \subseteq T
    BY <2>3, <2>4, StepsReach
  <2> QED BY <2>5 DEF T
<1>10. n \in 0 .. n
  BY <1>1
<1>11. M[n] \in Reading
  BY <1>6, <1>9, <1>10
<1> QED BY <1>2, <1>11 DEF Reading

-----------------------------------------------------------------------------
EntriesInv == Now \in Progress

LEMMA EntriesStart == EntriesInit => EntriesInv
<1> SUFFICES ASSUME EntriesInit PROVE EntriesInv
  OBVIOUS
<1>1. Now = [entries |-> <<>>, next |-> 0, ascending |-> TRUE]
  BY DEF EntriesInit, Now
<1>2. Upwards(Now)
  BY <1>1 DEF Upwards
<1> QED BY <1>1, <1>2 DEF EntriesInv, Progress

LEMMA SortedType ==
  ASSUME NEW e \in Seq(EntryRecord), NEW sorted \in ByAddress(e)
  PROVE  sorted \in Seq(EntryRecord)
<1>1. Len(e) \in Nat /\ DOMAIN e = 1 .. Len(e) /\ \A k \in 1 .. Len(e) : e[k] \in EntryRecord
  OBVIOUS
<1>2. sorted \in [1 .. Len(e) -> {e[k] : k \in 1 .. Len(e)}]
  BY <1>1 DEF ByAddress
<1>3. sorted \in [1 .. Len(e) -> EntryRecord]
  BY <1>1, <1>2
<1> QED BY <1>1, <1>3

LEMMA BecomeKeeps ==
  ASSUME NEW s \in Progress, Become(s)
  PROVE  EntriesInv'
<1>1. s = [entries |-> s.entries, next |-> s.next, ascending |-> s.ascending]
  BY DEF Progress
<1>2. Now' = [entries |-> s.entries, next |-> s.next, ascending |-> s.ascending]
  BY DEF Become, Now
<1> QED BY <1>1, <1>2 DEF EntriesInv

LEMMA EntriesStep == EntriesInv /\ [EntriesNext]_entriesVars => EntriesInv'
<1> SUFFICES ASSUME EntriesInv, [EntriesNext]_entriesVars PROVE EntriesInv'
  OBVIOUS
<1>1. ASSUME NEW name \in EntryName, NEW address \in Address \cup {Blank},
             NEW align \in RegisterAlign, NEW protected \in BOOLEAN, R(name, address, align, protected)
      PROVE  EntriesInv'
  <2>1. address \in Nat \cup {Blank} /\ align \in Nat \ {0}
    BY EntriesAssumption
  <2>2. EntryMade(Now, name, address, align, protected) \in Progress
    BY <2>1, EntryMadeUpwards DEF EntriesInv
  <2> QED BY <1>1, <2>2, BecomeKeeps DEF R
<1>2. ASSUME NEW n \in 1 .. MaxRows, NEW rows \in [1 .. n -> Row], NEW offset \in Offset \cup {Blank},
             RT(rows, offset)
      PROVE  EntriesInv'
  <2>1. rows \in Seq(Row)
    <3>1. n \in Nat
      OBVIOUS
    <3> QED BY <3>1
  <2>2. offset \in Nat \cup {Blank}
    BY EntriesAssumption
  <2>3. EntriesMade(Now, TableRead(rows), offset) \in Progress
    BY <2>1, <2>2, TableReadType, EntriesMadeUpwards DEF EntriesInv
  <2> QED BY <1>2, <2>3, BecomeKeeps DEF RT
<1>3. CASE UNCHANGED entriesVars
  BY <1>3 DEF EntriesInv, Now, entriesVars
<1> QED BY <1>1, <1>2, <1>3 DEF EntriesNext

(* Entries at explicit, next and aligned addresses, one by one or in       *)
(* tables, do not share a word unless a command goes back.                 *)
THEOREM EntriesAscendingApart == EntriesSpec => []AscendingApart
<1>1. EntriesInv => AscendingApart
  <2> SUFFICES ASSUME EntriesInv, ascending, NEW j \in DOMAIN entries, NEW k \in DOMAIN entries,
                      WordOf(entries[j].address) = WordOf(entries[k].address)
               PROVE  j = k
    BY DEF AscendingApart
  <2>1. entries \in Seq(EntryRecord) /\ Upwards(Now)
    BY DEF EntriesInv, Progress, Now
  <2>2. /\ j \in 1 .. Len(entries) /\ k \in 1 .. Len(entries) /\ Len(entries) \in Nat
        /\ entries[j] \in EntryRecord /\ entries[k] \in EntryRecord
    BY <2>1
  <2>3. entries[j].address \in Nat /\ entries[k].address \in Nat
    BY <2>2 DEF EntryRecord
  <2>4. /\ j < k => entries[j].address + AddrAlign <= entries[k].address
        /\ k < j => entries[k].address + AddrAlign <= entries[j].address
    BY <2>1, <2>2 DEF Upwards, Now
  <2> QED BY <2>2, <2>3, <2>4, WordsApart
<1> QED BY <1>1, EntriesStart, EntriesStep, PTL DEF EntriesSpec

(* The check of addresses warns of every entry whose word is taken, and of *)
(* no other, for any number of entries at any addresses.                   *)
THEOREM EntriesOverlapsReported == EntriesSpec => []OverlapsReported
<1>1. EntriesInv => OverlapsReported
  <2> SUFFICES ASSUME EntriesInv, NEW sorted \in ByAddress(entries)
               PROVE  OverlapsWarned(sorted)
                        = {k \in DOMAIN sorted : \E j \in 1 .. k - 1 :
                             WordOf(sorted[j].address) = WordOf(sorted[k].address)}
    BY DEF OverlapsReported
  <2>1. entries \in Seq(EntryRecord)
    BY DEF EntriesInv, Progress, Now
  <2>2. sorted \in Seq(EntryRecord)
    BY <2>1, SortedType
  <2> QED BY <2>2, OverlapsAreWarned
<1> QED BY <1>1, EntriesStart, EntriesStep, PTL DEF EntriesSpec

-----------------------------------------------------------------------------
(***************************************************************************)
(* The keep blocks of generated files, for files and templates of any      *)
(* length.  The parser and the template run are followed token by token    *)
(* and item by item: the parser finds exactly the keep blocks of a file    *)
(* (Passed), no copy of a block is lost from those left and those written  *)
(* (CountStep), and joining the pieces puts each where it is a keep block  *)
(* again (FlatPlaces, TextBlock).                                          *)
(***************************************************************************)
(* A comment that begins a block, one that ends a block, a piece of code.  *)
Begins(t) == "begin" \in DOMAIN t
Ends(t)   == "end" \in DOMAIN t
Codes(t)  == "code" \in DOMAIN t

(* Every token is one of the three.                                        *)
LEMMA TokenKinds ==
  ASSUME NEW t \in Token
  PROVE  /\ Begins(t) => t.begin \in Form /\ t.id \in Id /\ ~ Ends(t) /\ ~ Codes(t)
         /\ Ends(t) => t.end \in Form /\ ~ Codes(t)
         /\ Codes(t) => t \in Piece
         /\ Begins(t) \/ Ends(t) \/ Codes(t)
<1>1. CASE t \in [begin : Form, id : Id]
  BY <1>1 DEF Begins, Ends, Codes
<1>2. CASE t \in [end : Form]
  BY <1>2 DEF Begins, Ends, Codes
<1>3. CASE t \in Piece
  BY <1>3 DEF Begins, Ends, Codes, Piece
<1> QED BY <1>1, <1>2, <1>3 DEF Token

(* The blocks whose contents are made of the tokens C.                     *)
Blocks(C) == [id : Id, content : Seq(C)]

(* The states of the parser.                                               *)
Scans(f) == [open : {0} \cup {i \in 1 .. Len(f) : Begins(f[i])}, blocks : Seq(Blocks(Token))]

(* What the parser of keep blocks has found stays well formed.             *)
LEMMA ScannedType ==
  ASSUME NEW f \in Seq(Token), NEW form, NEW k \in 1 .. Len(f), NEW s \in Scans(f)
  PROVE  Scanned(f, form, k, s) \in Scans(f)
<1>1. CASE s.open = 0 /\ IsBegin(f[k], form)
  <2>1. Scanned(f, form, k, s) = [s EXCEPT !.open = k]
    BY <1>1 DEF Scanned
  <2>2. Begins(f[k])
    BY <1>1 DEF IsBegin, Begins
  <2> QED BY <2>1, <2>2 DEF Scans
<1>2. CASE s.open # 0 /\ IsEnd(f[k], form)
  <2> DEFINE b == Block(f[s.open].id, SubSeq(f, s.open + 1, k - 1))
  <2>1. Scanned(f, form, k, s) = [open |-> 0, blocks |-> Append(s.blocks, b)]
    BY <1>2 DEF Scanned
  <2>2. s.open \in 1 .. Len(f) /\ Begins(f[s.open])
    BY <1>2 DEF Scans
  <2>3. f[s.open].id \in Id
    BY <2>2, TokenKinds
  <2>4. SubSeq(f, s.open + 1, k - 1) \in Seq(Token)
    BY <2>2, SubSeqProperties
  <2>5. b \in Blocks(Token)
    BY <2>3, <2>4 DEF Blocks, Block
  <2> HIDE DEF b
  <2> QED BY <2>1, <2>5 DEF Scans
<1>3. CASE ~ (s.open = 0 /\ IsBegin(f[k], form)) /\ ~ (s.open # 0 /\ IsEnd(f[k], form))
  BY <1>3 DEF Scanned
<1> QED BY <1>1, <1>2, <1>3

(* The states that the parser goes through.                                *)
Scan(a, f) ==
  /\ a \in [0 .. Len(f) -> Scans(f)]
  /\ a[0] = [open |-> 0, blocks |-> <<>>]
  /\ \A k \in 1 .. Len(f) : a[k] = Scanned(f, FormOf(f), k, a[k - 1])

(* The parser goes through a file token by token.                          *)
LEMMA ParsedStepByStep ==
  ASSUME NEW f \in Seq(Token)
  PROVE  \E a : Scan(a, f) /\ ParseKeepBlocks(f) = a[Len(f)]
<1> DEFINE n == Len(f)
           Do(k, s) == Scanned(f, FormOf(f), k, s)
           none == [open |-> 0, blocks |-> <<>>]
           S == Scans(f)
           F == [k \in 1 .. n |-> [s \in S |-> Do(k, s)]]
           scan == CHOOSE scan : scan = [k \in 0 .. n |-> IF k = 0 THEN none ELSE Do(k, scan[k - 1])]
<1>1. n \in Nat /\ none \in S
  BY DEF Scans
<1>2. \A k \in 1 .. n : \A s \in S : Do(k, s) \in S
  BY ScannedType
<1>3. ParseKeepBlocks(f) = scan[n]
  BY DEF ParseKeepBlocks
<1> HIDE DEF n, Do, none, S
<1>4. F \in [1 .. n -> [S -> S]]
  BY <1>2
<1>5. \A k \in 1 .. n : \A s \in S : F[k][s] = Do(k, s)
  OBVIOUS
<1> HIDE DEF F
<1>6. PICK a \in [0 .. n -> S] : a[0] = none /\ \A k \in 1 .. n : a[k] = F[k][a[k - 1]]
  BY <1>1, <1>4, StepsExist
<1>7. ASSUME NEW k \in 1 .. n PROVE a[k] = Do(k, a[k - 1])
  <2>1. k - 1 \in 0 .. n
    BY <1>1
  <2> QED BY <1>5, <1>6, <2>1
<1>8. a = [k \in 0 .. n |-> IF k = 0 THEN none ELSE Do(k, a[k - 1])]
  <2>1. a = [k \in 0 .. n |-> a[k]]
    OBVIOUS
  <2>2. \A k \in 0 .. n : a[k] = IF k = 0 THEN none ELSE Do(k, a[k - 1])
    BY <1>1, <1>6, <1>7
  <2> QED BY <2>1, <2>2
<1>9. scan = [k \in 0 .. n |-> IF k = 0 THEN none ELSE Do(k, scan[k - 1])]
  BY <1>8
<1> HIDE DEF scan
<1>10. 0 .. n \subseteq {k \in 0 .. n : scan[k] = a[k]}
  <2> DEFINE T == {k \in 0 .. n : scan[k] = a[k]}
  <2>1. 0 \in T
    BY <1>1, <1>6, <1>9
  <2>2. ASSUME NEW k \in 1 .. n, k - 1 \in T PROVE k \in T
    <3>1. k \in 0 .. n /\ k # 0
      BY <1>1
    <3> QED BY <1>7, <1>9, <2>2, <3>1
  <2> HIDE DEF T
  <2> QED BY <1>1, <2>1, <2>2, StepsReach DEF T
<1>11. n \in 0 .. n
  BY <1>1
<1>12. Scan(a, f)
  BY <1>6, <1>7 DEF Scan, n, Do, none, S
<1> QED BY <1>3, <1>10, <1>11, <1>12 DEF n

(* The comments of f have one form, that which is looked for.              *)
Marked(f) ==
  \A i \in 1 .. Len(f) : /\ Begins(f[i]) => IsBegin(f[i], FormOf(f))
                         /\ Ends(f[i]) => IsEnd(f[i], FormOf(f))

(* A well-formed file with comments of one form has that which is looked   *)
(* for.                                                                    *)
LEMMA OneForm ==
  ASSUME NEW f \in Seq(Token), Cardinality(Forms(f)) <= 1, WellFormed(f)
  PROVE  Marked(f)
<1>1. \A x, y \in Forms(f) : x = y
  <2>1. IsFiniteSet(Form)
    <3>1. IsFiniteSet({"icglue"})
      BY FS_Singleton
    <3>2. Form = {"icglue"} \cup {"pragma icglue"}
      BY DEF Form
    <3> QED BY <3>1, <3>2, FS_AddElement
  <2>2. IsFiniteSet(Forms(f))
    BY <2>1, FS_Subset DEF Forms
  <2>3. Cardinality(Forms(f)) \in Nat
    BY <2>2, FS_CardinalityType
  <2>4. Cardinality(Forms(f)) = 0 \/ Cardinality(Forms(f)) = 1
    BY <2>3
  <2> QED BY <2>2, <2>4, FS_EmptySet, FS_Singleton
<1>2. \A i \in 1 .. Len(f) : f[i] \in Token
  OBVIOUS
<1>3. ASSUME NEW i \in 1 .. Len(f), Begins(f[i]) PROVE f[i].begin \in Forms(f) /\ IsBegin(f[i], FormOf(f))
  <2>1. f[i].begin \in Form /\ IsBegin(f[i], f[i].begin)
    BY <1>2, <1>3, TokenKinds DEF IsBegin, Begins
  <2>2. f[i].begin \in Forms(f)
    BY <2>1 DEF Forms
  <2>3. CASE \E j \in DOMAIN f : IsBegin(f[j], "pragma icglue")
    <3>1. "pragma icglue" \in Forms(f)
      BY <2>3 DEF Forms, Form
    <3> QED BY <1>1, <2>1, <2>2, <2>3, <3>1 DEF FormOf
  <2>4. CASE ~ \E j \in DOMAIN f : IsBegin(f[j], "pragma icglue")
    <3>1. i \in DOMAIN f
      OBVIOUS
    <3>2. f[i].begin # "pragma icglue"
      BY <2>1, <2>4, <3>1
    <3>3. f[i].begin = "icglue"
      BY <2>1, <3>2 DEF Form
    <3> QED BY <2>1, <2>2, <2>4, <3>3 DEF FormOf
  <2> QED BY <2>3, <2>4
<1>4. ASSUME NEW i \in 1 .. Len(f), Ends(f[i]) PROVE IsEnd(f[i], FormOf(f))
  <2>1. f[i].end \in Form /\ IsEnd(f[i], f[i].end)
    BY <1>2, <1>4, TokenKinds DEF IsEnd, Ends
  <2>2. f[i].end \in Forms(f)
    BY <2>1 DEF Forms
  <2>3. PICK p \in KeepBlock(f) : p[2] = i
    BY <1>4 DEF WellFormed, Ends
  <2>4. p[1] \in 1 .. Len(f) /\ Begins(f[p[1]])
    BY <2>3 DEF KeepBlock, Begins
  <2>5. f[p[1]].begin \in Forms(f) /\ IsBegin(f[p[1]], FormOf(f))
    BY <1>3, <2>4
  <2>6. f[p[1]].begin = FormOf(f)
    BY <2>5 DEF IsBegin
  <2> QED BY <1>1, <2>1, <2>2, <2>5, <2>6
<1> QED BY <1>3, <1>4 DEF Marked

(* What a keep block is: a begin, code, an end.                            *)
LEMMA KeepBlockFacts ==
  ASSUME NEW f \in Seq(Token), NEW p \in KeepBlock(f)
  PROVE  /\ p[1] \in 1 .. Len(f) /\ p[2] \in 1 .. Len(f) /\ p[1] < p[2] /\ p = <<p[1], p[2]>>
         /\ Begins(f[p[1]]) /\ Ends(f[p[2]])
         /\ \A i \in 1 .. Len(f) : p[1] < i /\ i < p[2] => Codes(f[i])
<1>1. p \in (1 .. Len(f)) \X (1 .. Len(f)) /\ p[1] < p[2]
  BY DEF KeepBlock
<1>2. \A i \in p[1] + 1 .. p[2] - 1 : Codes(f[i])
  BY DEF KeepBlock, Codes
<1>3. \A i \in 1 .. Len(f) : p[1] < i /\ i < p[2] => i \in p[1] + 1 .. p[2] - 1
  BY <1>1
<1> QED BY <1>1, <1>2, <1>3 DEF KeepBlock, Begins, Ends

(* A begin and an end with nothing but code in between are a keep block.   *)
LEMMA IsKeepBlock ==
  ASSUME NEW f \in Seq(Token), NEW b \in 1 .. Len(f), NEW e \in 1 .. Len(f), b < e,
         Begins(f[b]), Ends(f[e]), \A i \in 1 .. Len(f) : b < i /\ i < e => Codes(f[i])
  PROVE  <<b, e>> \in KeepBlock(f)
<1>1. \A i \in b + 1 .. e - 1 : "code" \in DOMAIN f[i]
  BY DEF Codes
<1> QED BY <1>1 DEF KeepBlock, Begins, Ends

(* Keep blocks do not overlap.                                             *)
LEMMA KeepBlocksApart ==
  ASSUME NEW f \in Seq(Token), NEW p \in KeepBlock(f), NEW q \in KeepBlock(f)
  PROVE  /\ p[1] = q[1] => p = q
         /\ p[2] = q[2] => p = q
         /\ q[1] < p[2] /\ p[1] < q[2] => p = q
<1>1. \A i \in 1 .. Len(f) : f[i] \in Token
  OBVIOUS
<1>2. \A i \in 1 .. Len(f) : ~ (Begins(f[i]) /\ Codes(f[i])) /\ ~ (Ends(f[i]) /\ Codes(f[i]))
                             /\ ~ (Begins(f[i]) /\ Ends(f[i]))
  BY <1>1, TokenKinds
<1>3. ~ (p[1] < q[1] /\ q[1] < p[2]) /\ ~ (q[1] < p[1] /\ p[1] < q[2])
  BY <1>2, KeepBlockFacts
<1>4. ~ (p[1] < q[2] /\ q[2] < p[2]) /\ ~ (q[1] < p[2] /\ p[2] < q[2])
  BY <1>2, KeepBlockFacts
<1>5. p[1] = q[1] /\ p[2] = q[2] => p = q
  BY KeepBlockFacts
<1>6. /\ p[1] \in Int /\ p[2] \in Int /\ q[1] \in Int /\ q[2] \in Int
      /\ p[1] < p[2] /\ q[1] < q[2]
  BY KeepBlockFacts
<1> QED BY <1>3, <1>4, <1>5, <1>6

(* The blocks found are the keep blocks K, J[p] being that of p.           *)
FoundAt(f, blocks, K, J) ==
  /\ J \in [K -> 1 .. Len(blocks)]
  /\ \A p, q \in K : J[p] = J[q] => p = q
  /\ \A p \in K : blocks[J[p]] = Block(f[p[1]].id, Content(f, p))
  /\ \A j \in 1 .. Len(blocks) : \E p \in K : J[p] = j

Found(f, blocks, K) == \E J : FoundAt(f, blocks, K, J)

Behind(f, k) == {p \in KeepBlock(f) : p[2] <= k}

Passed(f, s, k) ==
  /\ s.open = 0 => \A p \in KeepBlock(f) : ~ (p[1] <= k /\ k < p[2])
  /\ s.open # 0 => s.open <= k /\ \A i \in 1 .. Len(f) : s.open < i /\ i <= k => Codes(f[i])
  /\ Found(f, s.blocks, Behind(f, k))

(* Before the first token nothing is found.                                *)
LEMMA FoundNone ==
  ASSUME NEW f
  PROVE  Found(f, <<>>, {})
<1> DEFINE J == [p \in {} |-> 1]
<1>1. J \in [{} -> 1 .. Len(<<>>)]
  OBVIOUS
<1>2. Len(<<>>) = 0 /\ 1 .. 0 = {}
  OBVIOUS
<1>3. FoundAt(f, <<>>, {}, J)
  BY <1>1, <1>2 DEF FoundAt
<1> QED BY <1>3 DEF Found

(* A block that ends is one more that is found.                            *)
LEMMA FoundOneMore ==
  ASSUME NEW f, NEW blocks \in Seq(Blocks(Token)), NEW K, Found(f, blocks, K), NEW p, p \notin K,
         NEW b \in Blocks(Token), b = Block(f[p[1]].id, Content(f, p))
  PROVE  Found(f, Append(blocks, b), K \cup {p})
<1> DEFINE n == Len(blocks)
           more == Append(blocks, b)
<1>1. PICK J \in [K -> 1 .. n] :
        /\ \A q, r \in K : J[q] = J[r] => q = r
        /\ \A q \in K : blocks[J[q]] = Block(f[q[1]].id, Content(f, q))
        /\ \A j \in 1 .. n : \E q \in K : J[q] = j
  BY DEF Found, FoundAt
<1>2. n \in Nat /\ Len(more) = n + 1 /\ more[n + 1] = b /\ \A j \in 1 .. n : more[j] = blocks[j]
  OBVIOUS
<1> HIDE DEF n, more
<1> DEFINE L == [q \in K \cup {p} |-> IF q \in K THEN J[q] ELSE n + 1]
<1>3. 1 .. n + 1 = (1 .. n) \cup {n + 1} /\ n + 1 \notin 1 .. n
  BY <1>2
<1>4. L \in [K \cup {p} -> 1 .. n + 1] /\ L[p] = n + 1 /\ \A q \in K : L[q] = J[q]
  BY <1>3
<1> HIDE DEF L
<1>5. ASSUME NEW q \in K \cup {p}, NEW r \in K \cup {p}, L[q] = L[r] PROVE q = r
  BY <1>1, <1>3, <1>4, <1>5
<1>6. ASSUME NEW q \in K \cup {p} PROVE more[L[q]] = Block(f[q[1]].id, Content(f, q))
  <2>1. CASE q \in K
    <3>1. J[q] \in 1 .. n
      BY <2>1
    <3> QED BY <1>1, <1>2, <1>4, <2>1, <3>1
  <2>2. CASE q = p
    BY <1>2, <1>4, <2>2
  <2> QED BY <2>1, <2>2
<1>7. ASSUME NEW j \in 1 .. n + 1 PROVE \E q \in K \cup {p} : L[q] = j
  BY <1>1, <1>3, <1>4
<1>8. Found(f, more, K \cup {p})
  <2>1. Len(more) = n + 1
    BY <1>2
  <2>2. FoundAt(f, more, K \cup {p}, L)
    BY <1>4, <1>5, <1>6, <1>7, <2>1 DEF FoundAt
  <2> QED BY <2>2 DEF Found
<1> QED BY <1>8 DEF more

(* One more token, read as parse_keep_blocks does.                         *)
LEMMA PassedStep ==
  ASSUME NEW f \in Seq(Token), WellFormed(f), Marked(f), NEW k \in 1 .. Len(f), NEW s \in Scans(f),
         Passed(f, s, k - 1)
  PROVE  Passed(f, Scanned(f, FormOf(f), k, s), k)
<1> DEFINE S == Scanned(f, FormOf(f), k, s)
<1>1. k \in Nat /\ Len(f) \in Nat /\ f[k] \in Token /\ \A i \in 1 .. Len(f) : f[i] \in Token
  OBVIOUS
<1>2. \A i \in 1 .. Len(f) : ~ (Begins(f[i]) /\ Codes(f[i])) /\ ~ (Ends(f[i]) /\ Codes(f[i]))
                             /\ ~ (Begins(f[i]) /\ Ends(f[i]))
  BY <1>1, TokenKinds
<1>3. \A p \in KeepBlock(f) :
        /\ p[1] \in 1 .. Len(f) /\ p[2] \in 1 .. Len(f) /\ p[1] < p[2]
        /\ Begins(f[p[1]]) /\ Ends(f[p[2]])
        /\ \A i \in 1 .. Len(f) : p[1] < i /\ i < p[2] => Codes(f[i])
  BY KeepBlockFacts
<1>4. s.open # 0 => s.open \in 1 .. Len(f) /\ Begins(f[s.open]) /\ s.open <= k - 1
  BY DEF Scans, Passed
<1>5. CASE Codes(f[k])
  <2>1. ~ Begins(f[k]) /\ ~ Ends(f[k])
    BY <1>2, <1>5
  <2>2. S = s
    BY <2>1 DEF Scanned, IsBegin, IsEnd, Begins, Ends
  <2>3. Behind(f, k) = Behind(f, k - 1)
    <3>1. \A p \in KeepBlock(f) : p[2] <= k <=> p[2] <= k - 1
      BY <1>3, <2>1
    <3> QED BY <3>1 DEF Behind
  <2>4. \A p \in KeepBlock(f) : p[1] # k /\ p[2] # k
    BY <1>3, <2>1
  <2>5. s.open = 0 => \A p \in KeepBlock(f) : ~ (p[1] <= k /\ k < p[2])
    BY <1>1, <1>3, <2>4 DEF Passed
  <2>6. s.open # 0 => s.open <= k /\ \A i \in 1 .. Len(f) : s.open < i /\ i <= k => Codes(f[i])
    BY <1>1, <1>4, <1>5 DEF Passed
  <2> QED BY <2>2, <2>3, <2>5, <2>6 DEF Passed
<1>6. CASE Begins(f[k])
  <2>1. ~ Codes(f[k]) /\ ~ Ends(f[k]) /\ IsBegin(f[k], FormOf(f))
    BY <1>2, <1>6 DEF Marked
  <2>2. ASSUME s.open # 0 PROVE FALSE
    <3>1. PICK p \in KeepBlock(f) : p[1] = s.open
      BY <1>4, <2>2 DEF WellFormed, Begins
    <3>2. ~ p[2] <= k - 1
      <4>1. p[2] \in 1 .. Len(f) /\ s.open < p[2] /\ ~ Codes(f[p[2]])
        BY <1>2, <1>3, <3>1
      <4> QED BY <2>2, <4>1 DEF Passed
    <3>3. p[2] # k
      BY <1>3, <2>1
    <3>4. p[1] < k /\ k < p[2]
      BY <1>1, <1>3, <1>4, <2>2, <3>1, <3>2, <3>3
    <3> QED BY <1>3, <2>1, <3>4
  <2>3. S = [s EXCEPT !.open = k]
    BY <2>1, <2>2 DEF Scanned
  <2>4. S.open = k /\ S.blocks = s.blocks
    BY <2>3 DEF Scans
  <2>5. Behind(f, k) = Behind(f, k - 1)
    <3>1. \A p \in KeepBlock(f) : p[2] <= k <=> p[2] <= k - 1
      BY <1>3, <2>1
    <3> QED BY <3>1 DEF Behind
  <2>6. \A i \in 1 .. Len(f) : ~ (k < i /\ i <= k)
    BY <1>1
  <2> QED BY <1>1, <2>4, <2>5, <2>6 DEF Passed
<1>7. CASE Ends(f[k])
  <2>1. ~ Codes(f[k]) /\ ~ Begins(f[k]) /\ IsEnd(f[k], FormOf(f))
    BY <1>2, <1>7 DEF Marked
  <2>2. PICK p \in KeepBlock(f) : p[2] = k
    BY <1>7 DEF WellFormed, Ends
  <2>3. p[1] \in Nat /\ p[1] <= k - 1 /\ k - 1 < p[2]
    BY <1>3, <2>2
  <2>4. s.open # 0
    BY <2>3 DEF Passed
  <2>5. s.open = p[1]
    <3>1. ~ s.open < p[1]
      BY <1>2, <1>3, <2>3, <2>4 DEF Passed
    <3>2. ~ p[1] < s.open
      BY <1>1, <1>2, <1>3, <1>4, <2>2, <2>4
    <3> QED BY <1>4, <2>3, <2>4, <3>1, <3>2
  <2> DEFINE b == Block(f[p[1]].id, Content(f, p))
  <2>6. S = [open |-> 0, blocks |-> Append(s.blocks, b)]
    BY <2>1, <2>2, <2>4, <2>5 DEF Scanned, Content, IsBegin, IsEnd
  <2>7. s.blocks \in Seq(Blocks(Token)) /\ b \in Blocks(Token)
    <3>1. Content(f, p) \in Seq(Token)
      BY <1>3, SubSeqProperties DEF Content
    <3> QED BY <1>1, <1>3, <3>1, TokenKinds DEF Blocks, Block, Scans
  <2>8. Behind(f, k) = Behind(f, k - 1) \cup {p} /\ p \notin Behind(f, k - 1)
    <3>1. \A q \in KeepBlock(f) : q[2] = k <=> q = p
      BY <2>2, KeepBlocksApart
    <3>2. \A q \in KeepBlock(f) : q[2] <= k <=> q[2] <= k - 1 \/ q[2] = k
      BY <1>1, <1>3
    <3>3. ~ (p[2] <= k - 1)
      BY <1>1, <2>2
    <3> QED BY <3>1, <3>2, <3>3 DEF Behind
  <2> HIDE DEF b
  <2>9. Found(f, Append(s.blocks, b), Behind(f, k))
    <3>1. b = Block(f[p[1]].id, Content(f, p))
      BY DEF b
    <3>2. Found(f, s.blocks, Behind(f, k - 1))
      BY DEF Passed
    <3>3. Found(f, Append(s.blocks, b), Behind(f, k - 1) \cup {p})
      BY <2>7, <2>8, <3>1, <3>2, FoundOneMore
    <3> QED BY <2>8, <3>3
  <2>10. ASSUME NEW q \in KeepBlock(f), q[1] <= k, k < q[2] PROVE FALSE
    <3>1. q[1] # k
      BY <1>3, <2>1
    <3> QED BY <1>1, <1>3, <2>1, <2>10, <3>1
  <2> QED BY <2>6, <2>9, <2>10 DEF Passed
<1> QED BY <1>1, <1>5, <1>6, <1>7, TokenKinds

(* What is parsed from a well-formed file are its keep blocks.             *)
LEMMA ParsedAreKeepBlocks ==
  ASSUME NEW f \in Seq(Token), WellFormed(f), Marked(f)
  PROVE  /\ ParseKeepBlocks(f).blocks \in Seq(Blocks(Token))
         /\ Found(f, ParseKeepBlocks(f).blocks, KeepBlock(f))
<1> DEFINE n == Len(f)
<1>1. n \in Nat
  OBVIOUS
<1>2. PICK a : Scan(a, f) /\ ParseKeepBlocks(f) = a[n]
  BY ParsedStepByStep
<1> DEFINE T == {k \in 0 .. n : Passed(f, a[k], k)}
<1>3. 0 \in T
  <2>1. \A p \in KeepBlock(f) : p[1] \in 1 .. n /\ p[2] \in 1 .. n
    BY KeepBlockFacts
  <2>2. Behind(f, 0) = {}
    BY <1>1, <2>1 DEF Behind
  <2>3. a[0].open = 0 /\ a[0].blocks = <<>>
    BY <1>2 DEF Scan
  <2>4. \A p \in KeepBlock(f) : ~ (p[1] <= 0 /\ 0 < p[2])
    BY <2>1
  <2>5. Found(f, a[0].blocks, Behind(f, 0))
    BY <2>2, <2>3, FoundNone
  <2>6. Passed(f, a[0], 0)
    BY <2>3, <2>4, <2>5 DEF Passed
  <2> QED BY <1>1, <2>6
<1>4. ASSUME NEW k \in 1 .. n, k - 1 \in T PROVE k \in T
  <2>1. a[k - 1] \in Scans(f) /\ a[k] = Scanned(f, FormOf(f), k, a[k - 1])
    BY <1>2, <1>4 DEF Scan
  <2> QED BY <1>4, <2>1, PassedStep
<1> HIDE DEF T
<1>5. n \in T
  <2>1. n \in 0 .. n
    BY <1>1
  <2> QED BY <1>1, <1>3, <1>4, <2>1, StepsReach
<1>6. Behind(f, n) = KeepBlock(f)
  <2>1. \A p \in KeepBlock(f) : p[2] <= n
    BY <1>1, KeepBlockFacts
  <2> QED BY <2>1 DEF Behind
<1>7. a[n] \in Scans(f)
  BY <1>1, <1>2 DEF Scan
<1> QED BY <1>2, <1>5, <1>6, <1>7 DEF T, Passed, Scans

(* The pieces that a template writes, of blocks whose contents are made of C. *)
Texts(C) == {<<>>} \cup {Format(b) : b \in Blocks(C)}

(* What format_keep_block_content writes, token by token.                  *)
LEMMA FormatFacts ==
  ASSUME NEW C, C \subseteq Token, NEW b \in Blocks(C)
  PROVE  LET t == Format(b)
             n == Len(b.content)
         IN  /\ b.id \in Id /\ b.content \in Seq(C) /\ n \in Nat
             /\ t \in Seq(Token) /\ Len(t) = n + 2 /\ t # <<>>
             /\ t[1] = [begin |-> "icglue", id |-> b.id]
             /\ t[n + 2] = [end |-> "icglue"]
             /\ \A i \in 1 .. n : t[i + 1] = b.content[i]
<1> DEFINE c == b.content
           first == <<[begin |-> "icglue", id |-> b.id]>>
           last == <<[end |-> "icglue"]>>
<1>1. c \in Seq(C) /\ b.id \in Id
  BY DEF Blocks
<1>2. c \in Seq(Token)
  BY <1>1
<1>3. first \in Seq(Token) /\ last \in Seq(Token) /\ Len(first) = 1 /\ Len(last) = 1
  <2>1. [begin |-> "icglue", id |-> b.id] \in Token /\ [end |-> "icglue"] \in Token
    BY <1>1 DEF Token, Form
  <2> DEFINE x == [begin |-> "icglue", id |-> b.id]
             y == [end |-> "icglue"]
  <2>2. x \in Token /\ y \in Token /\ first = <<x>> /\ last = <<y>>
    BY <2>1
  <2> HIDE DEF x, y, first, last
  <2>3. <<x>> \in Seq(Token) /\ <<y>> \in Seq(Token) /\ Len(<<x>>) = 1 /\ Len(<<y>>) = 1
    BY <2>2
  <2> QED BY <2>2, <2>3
<1>4. /\ first[1] = [begin |-> "icglue", id |-> b.id]
      /\ last[1] = [end |-> "icglue"]
  OBVIOUS
<1>5. Format(b) = (first \o c) \o last
  BY DEF Format
<1> HIDE DEF c, first, last
<1>6. /\ first \o c \in Seq(Token) /\ Len(first \o c) = Len(c) + 1
      /\ (first \o c)[1] = first[1] /\ \A i \in 1 .. Len(c) : (first \o c)[i + 1] = c[i]
  <2>1. \A r, s \in Seq(Token) :
          /\ r \o s \in Seq(Token) /\ Len(r \o s) = Len(r) + Len(s)
          /\ \A i \in 1 .. Len(r) : (r \o s)[i] = r[i]
          /\ \A i \in 1 .. Len(s) : (r \o s)[Len(r) + i] = s[i]
    OBVIOUS
  <2>2. /\ first \o c \in Seq(Token) /\ Len(first \o c) = 1 + Len(c)
        /\ \A i \in 1 .. 1 : (first \o c)[i] = first[i]
        /\ \A i \in 1 .. Len(c) : (first \o c)[1 + i] = c[i]
    BY <1>2, <1>3, <2>1
  <2>3. Len(c) \in Nat /\ 1 \in 1 .. 1 /\ \A i \in 1 .. Len(c) : 1 + i = i + 1
    BY <1>2
  <2> QED BY <2>2, <2>3
<1>7. /\ (first \o c) \o last \in Seq(Token) /\ Len((first \o c) \o last) = Len(c) + 2
      /\ \A i \in 1 .. Len(c) + 1 : ((first \o c) \o last)[i] = (first \o c)[i]
      /\ ((first \o c) \o last)[Len(c) + 2] = last[1]
  <2> DEFINE d == first \o c
  <2>1. d \in Seq(Token) /\ Len(d) = Len(c) + 1 /\ Len(c) \in Nat
    BY <1>2, <1>6
  <2> HIDE DEF d
  <2>2. /\ d \o last \in Seq(Token) /\ Len(d \o last) = Len(d) + 1
        /\ \A i \in 1 .. Len(d) : (d \o last)[i] = d[i]
        /\ (d \o last)[Len(d) + 1] = last[1]
    <3>1. \A r, s \in Seq(Token) :
            /\ r \o s \in Seq(Token) /\ Len(r \o s) = Len(r) + Len(s)
            /\ \A i \in 1 .. Len(r) : (r \o s)[i] = r[i]
            /\ \A i \in 1 .. Len(s) : (r \o s)[Len(r) + i] = s[i]
      OBVIOUS
    <3>2. 1 \in 1 .. 1
      OBVIOUS
    <3> QED BY <1>3, <2>1, <3>1, <3>2
  <2>3. (Len(c) + 1) + 1 = Len(c) + 2
    BY <2>1
  <2> QED BY <2>1, <2>2, <2>3 DEF d
<1>8. Len(c) \in Nat
  BY <1>2
<1>9. 1 \in 1 .. Len(c) + 1 /\ \A i \in 1 .. Len(c) : i + 1 \in 1 .. Len(c) + 1
  BY <1>8
<1>10. Format(b) # <<>>
  <2>1. Len(Format(b)) # 0
    BY <1>5, <1>7, <1>8
  <2> QED BY <2>1
<1> QED BY <1>1, <1>4, <1>5, <1>6, <1>7, <1>8, <1>9, <1>10 DEF c

(* The pieces of a text are sequences of tokens.                           *)
LEMMA TextsType ==
  ASSUME NEW C, C \subseteq Token
  PROVE  Texts(C) \subseteq Seq(Token)
<1>1. ASSUME NEW t \in Texts(C) PROVE t \in Seq(Token)
  <2>1. CASE t = <<>>
    BY <2>1
  <2>2. CASE \E b \in Blocks(C) : t = Format(b)
    BY <2>2, FormatFacts
  <2> QED BY <2>1, <2>2 DEF Texts
<1> QED BY <1>1

(* What has been joined after each piece.                                  *)
Flat(F, p) ==
  /\ F \in [0 .. Len(p) -> Seq(Token)]
  /\ F[0] = <<>>
  /\ \A k \in 1 .. Len(p) : F[k] = F[k - 1] \o p[k]

(* StepsExist, hidden behind two operators.                                *)
Stepping(S, first, Do, n) == n \in Nat /\ first \in S /\ Do \in [1 .. n -> [S -> S]]
StepsOf(F, S, first, Do, n) ==
  F \in [0 .. n -> S] /\ F[0] = first /\ \A k \in 1 .. n : F[k] = Do[k][F[k - 1]]

(* StepsExist in this form.                                                *)
LEMMA StepsFrom ==
  ASSUME NEW S, NEW first, NEW Do, NEW n, Stepping(S, first, Do, n)
  PROVE  \E F : StepsOf(F, S, first, Do, n)
<1>1. n \in Nat /\ first \in S /\ Do \in [1 .. n -> [S -> S]]
  BY DEF Stepping
<1>2. \E F \in [0 .. n -> S] : F[0] = first /\ \A k \in 1 .. n : F[k] = Do[k][F[k - 1]]
  BY <1>1, StepsExist
<1> QED BY <1>2 DEF StepsOf

(* The pieces of a text are joined one by one.                             *)
LEMMA FlattenedStepByStep ==
  ASSUME NEW p \in Seq(Seq(Token))
  PROVE  \E F : Flat(F, p) /\ FlattenSeq(p) = F[Len(p)]
<1> DEFINE n == Len(p)
           S == Seq(Token)
           Do == [k \in 1 .. n |-> [s \in S |-> s \o p[k]]]
           flatten == CHOOSE flatten : flatten =
                        [i \in 1 .. n |-> IF i = 1 THEN p[i] ELSE flatten[i - 1] \o p[i]]
<1>1. n \in Nat /\ <<>> \in S /\ \A k \in 1 .. n : p[k] \in S
  OBVIOUS
<1>2. FlattenSeq(p) = IF n = 0 THEN p ELSE flatten[n]
  BY DEF FlattenSeq
<1>3. n = 0 => p = <<>>
  OBVIOUS
<1> HIDE DEF n
<1>4. \A k \in 1 .. n : \A s \in S : s \o p[k] \in S
  BY <1>1
<1>5. Do \in [1 .. n -> [S -> S]] /\ \A k \in 1 .. n : \A s \in S : Do[k][s] = s \o p[k]
  BY <1>4
<1> HIDE DEF Do, S, flatten
<1>6. PICK F \in [0 .. n -> S] : F[0] = <<>> /\ \A k \in 1 .. n : F[k] = Do[k][F[k - 1]]
  <2>1. Stepping(S, <<>>, Do, n)
    BY <1>1, <1>5 DEF Stepping
  <2>2. \E F : StepsOf(F, S, <<>>, Do, n)
    BY <2>1, StepsFrom
  <2> QED BY <2>2 DEF StepsOf
<1>7. ASSUME NEW k \in 1 .. n PROVE F[k] = F[k - 1] \o p[k]
  <2>1. k - 1 \in 0 .. n
    BY <1>1
  <2> QED BY <1>5, <1>6, <2>1
<1>8. Flat(F, p)
  BY <1>6, <1>7 DEF Flat, n, S
<1>9. CASE n = 0
  BY <1>2, <1>3, <1>6, <1>8, <1>9 DEF n
<1>10. CASE n # 0
  <2>1. 1 \in 1 .. n /\ F[1] = p[1]
    <3>1. 1 \in 1 .. n
      BY <1>1, <1>10
    <3>2. F[1] = <<>> \o p[1]
      <4>1. F[1] = F[1 - 1] \o p[1]
        BY <1>7, <3>1
      <4>2. 1 - 1 = 0
        OBVIOUS
      <4> QED BY <1>6, <4>1, <4>2
    <3> QED BY <1>1, <3>1, <3>2 DEF S
  <2> DEFINE g == [i \in 1 .. n |-> F[i]]
  <2>2. g = [i \in 1 .. n |-> IF i = 1 THEN p[i] ELSE g[i - 1] \o p[i]]
    <3>1. ASSUME NEW i \in 1 .. n PROVE g[i] = IF i = 1 THEN p[i] ELSE g[i - 1] \o p[i]
      <4>1. CASE i = 1
        BY <2>1, <4>1
      <4>2. CASE i # 1
        <5>1. i - 1 \in 1 .. n
          BY <1>1, <4>2
        <5> QED BY <1>7, <4>2, <5>1
      <4> QED BY <4>1, <4>2
    <3>2. g = [i \in 1 .. n |-> g[i]]
      OBVIOUS
    <3> HIDE DEF g
    <3> QED BY <3>1, <3>2
  <2>3. flatten = [i \in 1 .. n |-> IF i = 1 THEN p[i] ELSE flatten[i - 1] \o p[i]]
    <3> HIDE DEF g
    <3> QED BY <2>2 DEF flatten
  <2> DEFINE T == {k \in 0 .. n : k # 0 => flatten[k] = F[k]}
  <2>4. 0 \in T
    BY <1>1
  <2>5. ASSUME NEW k \in 1 .. n, k - 1 \in T PROVE k \in T
    <3>1. k \in 0 .. n /\ k # 0
      BY <1>1
    <3>2. CASE k = 1
      BY <2>1, <2>3, <3>1, <3>2
    <3>3. CASE k # 1
      <4>1. k - 1 # 0 /\ k - 1 \in 1 .. n
        BY <1>1, <3>3
      <4>2. flatten[k - 1] = F[k - 1]
        BY <2>5, <4>1
      <4> QED BY <1>7, <2>3, <3>1, <3>3, <4>2
    <3> QED BY <3>2, <3>3
  <2> HIDE DEF T
  <2>6. n \in T
    <3>1. n \in 0 .. n
      BY <1>1
    <3> QED BY <1>1, <2>4, <2>5, <3>1, StepsReach
  <2>7. flatten[n] = F[n]
    BY <1>10, <2>6 DEF T
  <2> QED BY <1>2, <1>8, <1>10, <2>7 DEF n
<1> QED BY <1>9, <1>10

(* Where the tokens of the pieces are, when m pieces have been joined.     *)
Places(F, p, m) ==
  /\ \A k \in 1 .. m : Len(F[k]) = Len(F[k - 1]) + Len(p[k])
  /\ \A k \in 0 .. m : Len(F[k]) <= Len(F[m])
  /\ \A k \in 1 .. m : \A i \in 1 .. Len(p[k]) :
       /\ Len(F[k - 1]) + i \in 1 .. Len(F[m])
       /\ F[m][Len(F[k - 1]) + i] = p[k][i]
  /\ \A x \in 1 .. Len(F[m]) : \E k \in 1 .. m : \E i \in 1 .. Len(p[k]) : x = Len(F[k - 1]) + i

(* Arithmetic of the places in sequences that are joined.                  *)
LEMMA SumBounds ==
  ASSUME NEW u \in Nat, NEW w \in Nat
  PROVE  /\ u <= u + w /\ \A x \in Nat : x <= u => x <= u + w
         /\ \A x \in 1 .. u : x \in 1 .. u + w
         /\ \A x \in 1 .. w : u + x \in 1 .. u + w
         /\ \A x \in 1 .. u + w : x \notin 1 .. u => x - u \in 1 .. w /\ x = u + (x - u)
OBVIOUS

(* One more piece is joined: those before keep their places.               *)
LEMMA PlacesStep ==
  ASSUME NEW p \in Seq(Seq(Token)), NEW F, Flat(F, p), NEW m \in 1 .. Len(p), Places(F, p, m - 1)
  PROVE  Places(F, p, m)
<1> DEFINE n == Len(p)
<1>1. n \in Nat /\ m \in Nat /\ m - 1 \in 0 .. n /\ m \in 0 .. n
  OBVIOUS
<1>2. \A k \in 0 .. n : F[k] \in Seq(Token) /\ Len(F[k]) \in Nat
  <2>1. \A k \in 0 .. n : F[k] \in Seq(Token)
    BY DEF Flat
  <2> QED BY <2>1
<1>3. \A k \in 1 .. n : p[k] \in Seq(Token) /\ Len(p[k]) \in Nat /\ k - 1 \in 0 .. n
  OBVIOUS
<1>4. /\ Len(F[m]) = Len(F[m - 1]) + Len(p[m])
      /\ \A x \in 1 .. Len(F[m - 1]) : F[m][x] = F[m - 1][x]
      /\ \A i \in 1 .. Len(p[m]) : F[m][Len(F[m - 1]) + i] = p[m][i]
  <2> DEFINE s == F[m - 1]
             q == p[m]
  <2>1. s \in Seq(Token) /\ q \in Seq(Token) /\ F[m] = s \o q
    BY <1>1, <1>2, <1>3 DEF Flat
  <2> HIDE DEF s, q
  <2>2. /\ Len(s \o q) = Len(s) + Len(q)
        /\ \A x \in 1 .. Len(s) : (s \o q)[x] = s[x]
        /\ \A i \in 1 .. Len(q) : (s \o q)[Len(s) + i] = q[i]
    BY <2>1
  <2> QED BY <2>1, <2>2 DEF s, q
<1>5. \A k \in 1 .. m : k = m \/ k \in 1 .. m - 1
  BY <1>1
<1>6. \A k \in 0 .. m : k = m \/ k \in 0 .. m - 1
  BY <1>1
<1>7. PICK u \in Nat, v \in Nat, w \in Nat :
        u = Len(F[m - 1]) /\ v = Len(F[m]) /\ w = Len(p[m]) /\ v = u + w
  BY <1>1, <1>2, <1>3, <1>4
<1>8. (\A x \in 1 .. u : x \in 1 .. v) /\ (\A x \in 1 .. w : u + x \in 1 .. v)
  BY <1>7, SumBounds
<1> HIDE DEF n
<1>9. \A k \in 1 .. m : Len(F[k]) = Len(F[k - 1]) + Len(p[k])
  BY <1>4, <1>5 DEF Places
<1>10. \A k \in 0 .. m : Len(F[k]) <= Len(F[m])
  <2>1. ASSUME NEW k \in 0 .. m - 1 PROVE Len(F[k]) <= Len(F[m])
    <3>1. k \in 0 .. n
      BY <1>1 DEF n
    <3>2. PICK x \in Nat : x = Len(F[k])
      BY <1>2, <3>1 DEF n
    <3>3. x <= u
      BY <1>7, <3>2 DEF Places
    <3>4. v = Len(F[m]) /\ x <= v
      BY <1>7, <3>3, SumBounds
    <3> QED BY <3>2, <3>4
  <2>2. Len(F[m]) <= Len(F[m])
    BY <1>7
  <2> QED BY <1>6, <2>1, <2>2
<1>11. ASSUME NEW k \in 1 .. m, NEW i \in 1 .. Len(p[k])
       PROVE  Len(F[k - 1]) + i \in 1 .. Len(F[m]) /\ F[m][Len(F[k - 1]) + i] = p[k][i]
  <2>1. CASE k = m
    <3>1. i \in 1 .. w
      BY <1>7, <2>1
    <3> QED BY <1>4, <1>7, <1>8, <2>1, <3>1
  <2>2. CASE k \in 1 .. m - 1
    <3>1. /\ Len(F[k - 1]) + i \in 1 .. Len(F[m - 1])
          /\ F[m - 1][Len(F[k - 1]) + i] = p[k][i]
      BY <2>2 DEF Places
    <3>2. PICK y \in 1 .. u : y = Len(F[k - 1]) + i
      BY <1>7, <3>1
    <3> QED BY <1>4, <1>7, <1>8, <3>1, <3>2
  <2> QED BY <1>5, <2>1, <2>2
<1>12. ASSUME NEW x \in 1 .. Len(F[m])
       PROVE  \E k \in 1 .. m : \E i \in 1 .. Len(p[k]) : x = Len(F[k - 1]) + i
  <2>1. CASE x \in 1 .. Len(F[m - 1])
    <3>1. PICK k \in 1 .. m - 1 : \E i \in 1 .. Len(p[k]) : x = Len(F[k - 1]) + i
      BY <2>1 DEF Places
    <3>2. k \in 1 .. m
      BY <1>1
    <3> QED BY <3>1, <3>2
  <2>2. CASE x \notin 1 .. Len(F[m - 1])
    <3>1. x \in 1 .. v /\ x \notin 1 .. u
      BY <1>7, <2>2
    <3>2. PICK y \in 1 .. u + w : y = x /\ y \notin 1 .. u
      BY <1>7, <3>1
    <3>3. x - u \in 1 .. w /\ x = u + (x - u)
      BY <3>2, SumBounds
    <3>4. m \in 1 .. m
      BY <1>1
    <3> QED BY <1>7, <3>3, <3>4
  <2> QED BY <2>1, <2>2
<1> QED BY <1>9, <1>10, <1>11, <1>12 DEF Places

(* Every token of a text is in one of its pieces, in its place.            *)
LEMMA FlatPlaces ==
  ASSUME NEW p \in Seq(Seq(Token)), NEW F, Flat(F, p)
  PROVE  /\ Places(F, p, Len(p))
         /\ \A k \in 0 .. Len(p) : Len(F[k]) \in Nat
         /\ \A j, k \in 0 .. Len(p) : j <= k => Len(F[j]) <= Len(F[k])
<1> DEFINE n == Len(p)
<1>1. n \in Nat
  OBVIOUS
<1>2. \A k \in 0 .. n : F[k] \in Seq(Token)
  BY DEF Flat
<1>3. F[0] = <<>>
  BY DEF Flat
<1> DEFINE T == {m \in 0 .. n : Places(F, p, m)}
<1>4. 0 \in T
  <2>1. Len(F[0]) = 0
    BY <1>3
  <2>2. 1 .. 0 = {} /\ 0 .. 0 = {0} /\ 0 \in 0 .. n
    BY <1>1
  <2>3. Places(F, p, 0)
    BY <2>1, <2>2 DEF Places
  <2> QED BY <2>2, <2>3
<1>5. ASSUME NEW m \in 1 .. n, m - 1 \in T PROVE m \in T
  <2>1. Places(F, p, m)
    BY <1>5, PlacesStep
  <2>2. m \in 0 .. n
    BY <1>1
  <2> QED BY <2>1, <2>2
<1> HIDE DEF T
<1>6. 0 .. n \subseteq T
  BY <1>1, <1>4, <1>5, StepsReach
<1>7. \A m \in 0 .. n : Places(F, p, m)
  BY <1>6 DEF T
<1>8. n \in 0 .. n
  BY <1>1
<1>9. ASSUME NEW j \in 0 .. n, NEW k \in 0 .. n, j <= k PROVE Len(F[j]) <= Len(F[k])
  <2>1. j \in 0 .. k
    BY <1>9
  <2> QED BY <1>7, <2>1 DEF Places
<1> QED BY <1>2, <1>7, <1>8, <1>9

(* Where the k-th piece of a text is.                                      *)
PieceAt(F, k) == <<Len(F[k - 1]) + 1, Len(F[k])>>

(* A piece of code is no comment.                                          *)
LEMMA PiecesAreCode ==
  /\ Piece \subseteq Token
  /\ \A x \in Piece : Codes(x) /\ ~ Begins(x) /\ ~ Ends(x)
<1>1. Piece \subseteq Token
  BY DEF Token
<1>2. ASSUME NEW x \in Piece PROVE Codes(x) /\ ~ Begins(x) /\ ~ Ends(x)
  BY <1>2 DEF Piece, Codes, Begins, Ends
<1> QED BY <1>1, <1>2

(* The tokens of a formatted block.                                        *)
LEMMA FormatTokens ==
  ASSUME NEW b \in Blocks(Piece)
  PROVE  /\ Len(Format(b)) \in Nat /\ Len(Format(b)) >= 2
         /\ Begins(Format(b)[1]) /\ Format(b)[1].id = b.id
         /\ Ends(Format(b)[Len(Format(b))])
         /\ \A i \in 1 .. Len(Format(b)) : i # 1 /\ i # Len(Format(b)) => Codes(Format(b)[i])
         /\ \A i \in 1 .. Len(Format(b)) : Begins(Format(b)[i]) => i = 1
<1> DEFINE t == Format(b)
           n == Len(b.content)
<1>1. /\ b.id \in Id /\ b.content \in Seq(Piece) /\ n \in Nat
      /\ t \in Seq(Token) /\ Len(t) = n + 2
      /\ t[1] = [begin |-> "icglue", id |-> b.id]
      /\ t[n + 2] = [end |-> "icglue"]
      /\ \A i \in 1 .. n : t[i + 1] = b.content[i]
  BY FormatFacts, PiecesAreCode
<1>2. \A i \in 1 .. n : b.content[i] \in Piece
  BY <1>1
<1> HIDE DEF t
<1>3. Begins(t[1]) /\ t[1].id = b.id /\ Ends(t[n + 2]) /\ ~ Begins(t[n + 2])
  BY <1>1 DEF Begins, Ends
<1>4. ASSUME NEW i \in 1 .. Len(t), i # 1, i # Len(t) PROVE Codes(t[i]) /\ ~ Begins(t[i])
  <2>1. i - 1 \in 1 .. n /\ (i - 1) + 1 = i
    BY <1>1, <1>4
  <2>2. t[i] = b.content[i - 1] /\ b.content[i - 1] \in Piece
    BY <1>1, <1>2, <2>1
  <2> QED BY <2>2, PiecesAreCode
<1>5. \A i \in 1 .. Len(t) : Begins(t[i]) => i = 1
  BY <1>1, <1>3, <1>4
<1> HIDE DEF n
<1>6. Len(t) \in Nat /\ Len(t) >= 2
  BY <1>1
<1> QED BY <1>1, <1>3, <1>4, <1>5, <1>6 DEF t

(* Two pieces of which one is before the other do not begin together.      *)
LEMMA Grows ==
  ASSUME NEW a \in Nat, NEW b \in Nat, NEW c \in Nat, NEW d \in Nat, b = a + d, b <= c, d # 0
  PROVE  a + 1 # c + 1
OBVIOUS

(* Sequences that agree at every place are equal.                          *)
LEMMA SameElements ==
  ASSUME NEW S, NEW c \in Seq(S), NEW d \in Seq(S), Len(c) = Len(d), \A i \in 1 .. Len(c) : c[i] = d[i]
  PROVE  c = d
OBVIOUS

(* A place between the first and the last of a piece.                      *)
LEMMA Inside ==
  ASSUME NEW u \in Nat, NEW w \in Nat, NEW x \in Nat, u + 1 < x, x < u + w
  PROVE  x - u \in 1 .. w /\ x - u # 1 /\ x - u # w /\ u + (x - u) = x
OBVIOUS

(* The k-th piece lies in the text T.                                      *)
Placed(F, p, T, k) ==
  \E u \in Nat, w \in Nat :
    /\ u = Len(F[k - 1]) /\ w = Len(p[k]) /\ u + w = Len(F[k])
    /\ \A i \in 1 .. w : u + i \in 1 .. Len(T) /\ T[u + i] = p[k][i]

(* Where the k-th piece of a text is.                                      *)
LEMMA PieceFacts ==
  ASSUME NEW p \in Seq(Seq(Token)), NEW F, Flat(F, p), NEW k \in 1 .. Len(p)
  PROVE  Placed(F, p, F[Len(p)], k)
<1> DEFINE T == F[Len(p)]
<1>1. Len(p) \in Nat /\ k - 1 \in 0 .. Len(p) /\ k \in 1 .. Len(p)
  OBVIOUS
<1>2. p[k] \in Seq(Token) /\ Len(p[k]) \in Nat
  OBVIOUS
<1>3. Places(F, p, Len(p)) /\ Len(F[k - 1]) \in Nat
  BY <1>1, FlatPlaces
<1> HIDE DEF T
<1>4. /\ Len(F[k]) = Len(F[k - 1]) + Len(p[k])
      /\ \A i \in 1 .. Len(p[k]) : Len(F[k - 1]) + i \in 1 .. Len(T) /\ T[Len(F[k - 1]) + i] = p[k][i]
  BY <1>1, <1>3 DEF Places, T
<1> QED BY <1>2, <1>3, <1>4 DEF T, Placed

(* A formatted block in a text is a keep block of the file.                *)
LEMMA TextBlock ==
  ASSUME NEW p \in Seq(Seq(Token)), NEW F, Flat(F, p), NEW k \in 1 .. Len(p),
         NEW b \in Blocks(Piece), p[k] = Format(b)
  PROVE  LET T == F[Len(p)]
             q == PieceAt(F, k)
         IN  q \in KeepBlock(T) /\ T[q[1]].id = b.id /\ Content(T, q) = b.content
<1> DEFINE T == F[Len(p)]
           q == PieceAt(F, k)
           t == Format(b)
           n == Len(b.content)
<1>1. Len(p) \in Nat /\ Len(p) \in 0 .. Len(p) /\ k - 1 \in 0 .. Len(p) /\ k \in 0 .. Len(p)
  OBVIOUS
<1>2. T \in Seq(Token)
  BY <1>1 DEF Flat
<1>3. \E u \in Nat, w \in Nat :
        /\ u = Len(F[k - 1]) /\ w = Len(t) /\ u + w = Len(F[k])
        /\ \A i \in 1 .. w : u + i \in 1 .. Len(T) /\ T[u + i] = t[i]
  <2>1. Placed(F, p, T, k)
    BY PieceFacts
  <2>2. t = p[k]
    OBVIOUS
  <2> HIDE DEF T, t
  <2> QED BY <2>1, <2>2 DEF Placed
<1>4. /\ Len(t) \in Nat /\ Len(t) >= 2
      /\ Begins(t[1]) /\ t[1].id = b.id
      /\ Ends(t[Len(t)])
      /\ \A i \in 1 .. Len(t) : i # 1 /\ i # Len(t) => Codes(t[i])
  BY FormatTokens
<1>5. /\ b.content \in Seq(Piece) /\ n \in Nat /\ Len(t) = n + 2
      /\ \A i \in 1 .. n : t[i + 1] = b.content[i]
  BY FormatFacts, PiecesAreCode
<1> HIDE DEF T, t
<1>6. PICK u \in Nat, w \in Nat :
        /\ u = Len(F[k - 1]) /\ w = Len(t) /\ u + w = Len(F[k])
        /\ \A i \in 1 .. w : u + i \in 1 .. Len(T) /\ T[u + i] = t[i]
  BY <1>3
<1>7. PICK v \in Nat : v = u + w
  OBVIOUS
<1>8. w >= 2 /\ v = Len(F[k])
  BY <1>4, <1>6, <1>7
<1>9. /\ \A i \in 1 .. w : u + i \in 1 .. Len(T) /\ T[u + i] = t[i]
      /\ q = <<u + 1, v>>
  BY <1>6, <1>8 DEF PieceAt
<1>10. u + 1 \in 1 .. Len(T) /\ T[u + 1] = t[1] /\ v \in 1 .. Len(T) /\ T[v] = t[w]
  <2>1. 1 \in 1 .. w /\ w \in 1 .. w
    BY <1>8
  <2> QED BY <1>7, <1>9, <2>1
<1>11. ASSUME NEW x \in 1 .. Len(T), u + 1 < x, x < v PROVE Codes(T[x])
  <2>1. x - u \in 1 .. w /\ x - u # 1 /\ x - u # w /\ u + (x - u) = x
    <3>1. PICK y \in Nat : y = x
      OBVIOUS
    <3>2. u + 1 < y /\ y < u + w
      BY <1>7, <1>11, <3>1
    <3> QED BY <3>1, <3>2, Inside
  <2> QED BY <1>4, <1>6, <1>9, <2>1
<1>12. u + 1 < v
  BY <1>7, <1>8
<1>13. <<u + 1, v>> \in KeepBlock(T)
  BY <1>2, <1>4, <1>6, <1>10, <1>11, <1>12, IsKeepBlock
<1>14. T[u + 1].id = b.id
  BY <1>4, <1>10
<1>15. Content(T, <<u + 1, v>>) = b.content
  <2> DEFINE c == SubSeq(T, u + 2, v - 1)
  <2>1. Content(T, <<u + 1, v>>) = c
    <3>1. (u + 1) + 1 = u + 2
      OBVIOUS
    <3> QED BY <3>1 DEF Content
  <2>2. w = n + 2 /\ v = u + n + 2
    <3>1. PICK m \in Nat : m = n /\ Len(t) = m + 2
      BY <1>5
    <3>2. w = m + 2
      BY <1>6, <3>1
    <3>3. v = u + m + 2
      BY <1>7, <3>2
    <3> QED BY <3>1, <3>2, <3>3
  <2>3. Len(c) = n
    <3>1. Len(T) \in Nat /\ v <= Len(T)
      BY <1>2, <1>10
    <3> QED BY <1>2, <1>5, <2>2, <3>1
  <2>4. ASSUME NEW i \in 1 .. n PROVE c[i] = b.content[i]
    <3>1. i + 1 \in 1 .. w /\ u + (i + 1) = (u + 2) + i - 1
      BY <1>5, <2>2
    <3>2. c[i] = T[(u + 2) + i - 1]
      <4>1. Len(T) \in Nat /\ v <= Len(T)
        BY <1>2, <1>10
      <4> QED BY <1>2, <1>5, <2>2, <4>1
    <3>3. T[u + (i + 1)] = t[i + 1]
      BY <1>9, <3>1
    <3> QED BY <1>5, <3>1, <3>2, <3>3
  <2>5. c \in Seq(Token) /\ b.content \in Seq(Token)
    <3>1. v - 1 <= Len(T)
      BY <1>2, <1>10
    <3> QED BY <1>2, <1>5, PiecesAreCode, <3>1, SubSeqProperties
  <2> HIDE DEF c
  <2>6. c = b.content
    <3> DEFINE d == b.content
    <3>1. d \in Seq(Token) /\ Len(d) = Len(c) /\ \A i \in 1 .. Len(c) : c[i] = d[i]
      BY <2>3, <2>4, <2>5
    <3> HIDE DEF d
    <3> QED BY <2>5, <3>1, SameElements DEF d
  <2> QED BY <2>1, <2>6
<1> QED BY <1>9, <1>13, <1>14, <1>15 DEF T

(* All keep blocks of a generated file are such pieces.                    *)
LEMMA TextBlocksOnly ==
  ASSUME NEW p \in Seq(Seq(Token)), NEW F, Flat(F, p), \A k \in 1 .. Len(p) : p[k] \in Texts(Piece),
         NEW q \in KeepBlock(F[Len(p)])
  PROVE  \E k \in 1 .. Len(p) : \E b \in Blocks(Piece) : p[k] = Format(b) /\ q = PieceAt(F, k)
<1> DEFINE T == F[Len(p)]
<1>1. Len(p) \in Nat /\ Len(p) \in 0 .. Len(p)
  OBVIOUS
<1>2. T \in Seq(Token)
  BY <1>1 DEF Flat
<1>3. q[1] \in 1 .. Len(T) /\ Begins(T[q[1]])
  BY <1>2, KeepBlockFacts
<1>4. PICK k \in 1 .. Len(p) : \E i \in 1 .. Len(p[k]) : q[1] = Len(F[k - 1]) + i
  <2>1. Places(F, p, Len(p))
    BY FlatPlaces
  <2> QED BY <1>1, <1>3, <2>1 DEF Places
<1>5. PICK i \in 1 .. Len(p[k]) : q[1] = Len(F[k - 1]) + i
  BY <1>4
<1>6. p[k] # <<>>
  BY <1>5
<1>7. PICK b \in Blocks(Piece) : p[k] = Format(b)
  BY <1>6 DEF Texts
<1>8. T[q[1]] = p[k][i]
  <2>1. Placed(F, p, T, k)
    BY PieceFacts
  <2> HIDE DEF T
  <2> QED BY <1>5, <2>1 DEF Placed
<1>9. i = 1
  BY <1>3, <1>5, <1>7, <1>8, FormatTokens
<1>10. PieceAt(F, k) \in KeepBlock(T)
  BY <1>7, TextBlock
<1>11. PieceAt(F, k)[1] = q[1]
  BY <1>5, <1>9 DEF PieceAt
<1>12. q = PieceAt(F, k)
  BY <1>2, <1>10, <1>11, KeepBlocksApart
<1> QED BY <1>7, <1>12

(* Two pieces of a text are not in one place.                              *)
LEMMA TextBlocksApart ==
  ASSUME NEW p \in Seq(Seq(Token)), NEW F, Flat(F, p),
         NEW j \in 1 .. Len(p), NEW k \in 1 .. Len(p), p[j] # <<>>, p[k] # <<>>,
         PieceAt(F, j) = PieceAt(F, k)
  PROVE  j = k
<1>1. Len(p) \in Nat /\ Len(p) \in 0 .. Len(p) /\ j \in Nat /\ k \in Nat
  OBVIOUS
<1>2. ASSUME NEW x \in 1 .. Len(p), NEW y \in 1 .. Len(p), p[x] # <<>>, x < y
      PROVE  PieceAt(F, x) # PieceAt(F, y)
  <2>1. x - 1 \in 0 .. Len(p) /\ x \in 0 .. Len(p) /\ y - 1 \in 0 .. Len(p) /\ x <= y - 1
    BY <1>1, <1>2
  <2>2. p[x] \in Seq(Token) /\ Len(p[x]) \in Nat /\ Len(p[x]) # 0
    BY <1>2
  <2>3. Len(F[x]) = Len(F[x - 1]) + Len(p[x])
    BY FlatPlaces DEF Places
  <2>4. Len(F[x]) <= Len(F[y - 1]) /\ Len(F[x]) \in Nat /\ Len(F[x - 1]) \in Nat /\ Len(F[y - 1]) \in Nat
    BY <2>1, FlatPlaces
  <2>5. PICK a \in Nat, b \in Nat, c \in Nat, d \in Nat :
          a = Len(F[x - 1]) /\ b = Len(F[x]) /\ c = Len(F[y - 1]) /\ d = Len(p[x]) /\ b = a + d /\ b <= c /\ d # 0
    BY <2>2, <2>3, <2>4
  <2>6. a + 1 # c + 1
    BY <2>5, Grows
  <2> QED BY <2>5, <2>6 DEF PieceAt
<1> QED BY <1>1, <1>2

(* The positions of e in a sequence, and how many they are.                *)
Spots(s, e) == {i \in 1 .. Len(s) : s[i] = e}
HowOften(s, e) == Cardinality(Spots(s, e))

(* An element stands finitely often in a sequence.                         *)
LEMMA SpotsFinite ==
  ASSUME NEW S, NEW s \in Seq(S), NEW e
  PROVE  IsFiniteSet(Spots(s, e)) /\ HowOften(s, e) \in Nat
<1>1. Len(s) \in Nat
  OBVIOUS
<1>2. IsFiniteSet(1 .. Len(s))
  BY <1>1, FS_Interval
<1>3. Spots(s, e) \in SUBSET (1 .. Len(s))
  BY DEF Spots
<1> QED BY <1>2, <1>3, FS_Subset, FS_CardinalityType DEF HowOften

(* What Append does.                                                       *)
LEMMA AppendFacts ==
  ASSUME NEW S, NEW s \in Seq(S), NEW x \in S
  PROVE  /\ Append(s, x) \in Seq(S) /\ Len(s) \in Nat /\ Len(Append(s, x)) = Len(s) + 1
         /\ Append(s, x)[Len(s) + 1] = x
         /\ \A i \in 1 .. Len(s) : Append(s, x)[i] = s[i]
         /\ 1 .. Len(s) + 1 = (1 .. Len(s)) \cup {Len(s) + 1}
         /\ Len(s) + 1 \notin 1 .. Len(s)
OBVIOUS

(* How often an element is there after an Append.                          *)
LEMMA CountAppend ==
  ASSUME NEW S, NEW s \in Seq(S), NEW x \in S, NEW e
  PROVE  HowOften(Append(s, x), e) = IF x = e THEN HowOften(s, e) + 1 ELSE HowOften(s, e)
<1> DEFINE t == Append(s, x)
           n == Len(s) + 1
<1>1. /\ Len(t) = n /\ t[n] = x
      /\ \A i \in 1 .. Len(s) : t[i] = s[i]
      /\ 1 .. n = (1 .. Len(s)) \cup {n} /\ n \notin 1 .. Len(s)
  BY AppendFacts
<1> HIDE DEF t, n
<1>2. CASE x = e
  <2>1. Spots(t, e) = Spots(s, e) \cup {n} /\ n \notin Spots(s, e)
    BY <1>1, <1>2 DEF Spots
  <2> QED BY <1>2, <2>1, SpotsFinite, FS_AddElement DEF HowOften, t
<1>3. CASE x # e
  <2>1. Spots(t, e) = Spots(s, e)
    BY <1>1, <1>3 DEF Spots
  <2> QED BY <1>3, <2>1 DEF HowOften, t
<1> QED BY <1>2, <1>3

(* What joining two sequences does.                                        *)
LEMMA ConcatFacts ==
  ASSUME NEW S, NEW s \in Seq(S), NEW t \in Seq(S)
  PROVE  /\ s \o t \in Seq(S) /\ Len(s) \in Nat /\ Len(t) \in Nat /\ Len(s \o t) = Len(s) + Len(t)
         /\ \A i \in 1 .. Len(s) : (s \o t)[i] = s[i]
         /\ \A i \in 1 .. Len(t) : (s \o t)[Len(s) + i] = t[i]
OBVIOUS

(* Two places of sequences that are joined are not the same.               *)
LEMMA SumPlaces ==
  ASSUME NEW u \in Nat, NEW w \in Nat
  PROVE  /\ \A i \in 1 .. w : u + i \notin 1 .. u
         /\ \A i, j \in 1 .. w : u + i = u + j => i = j
OBVIOUS

(* Joining loses no copy.                                                  *)
LEMMA CountConcat ==
  ASSUME NEW S, NEW s \in Seq(S), NEW t \in Seq(S), NEW e
  PROVE  HowOften(s \o t, e) >= HowOften(s, e) + HowOften(t, e)
<1>1. PICK u \in Nat, w \in Nat : u = Len(s) /\ w = Len(t)
  OBVIOUS
<1> DEFINE st == s \o t
           f == [i \in Spots(t, e) |-> u + i]
           Rs == {u + i : i \in Spots(t, e)}
<1>2. /\ st \in Seq(S) /\ Len(st) = u + w
      /\ \A i \in 1 .. u : st[i] = s[i]
      /\ \A i \in 1 .. w : st[u + i] = t[i]
  BY <1>1, ConcatFacts
<1>3. Spots(s, e) \subseteq 1 .. u /\ Spots(t, e) \subseteq 1 .. w
  BY <1>1 DEF Spots
<1> HIDE DEF st
<1>4. Rs \subseteq Spots(st, e)
  BY <1>1, <1>2, <1>3, SumBounds DEF Spots
<1>5. Spots(s, e) \subseteq Spots(st, e)
  BY <1>1, <1>2, <1>3, SumBounds DEF Spots
<1>6. Spots(s, e) \cap Rs = {}
  BY <1>3, SumPlaces
<1>7. f \in Injection(Spots(t, e), Rs)
  BY <1>3, SumPlaces DEF Injection, IsInjective
<1>8. IsFiniteSet(Spots(s, e)) /\ IsFiniteSet(Spots(t, e)) /\ IsFiniteSet(Spots(st, e))
  BY <1>2, SpotsFinite
<1>9. IsFiniteSet(Rs) /\ Cardinality(Spots(t, e)) <= Cardinality(Rs)
  <2>1. IsFiniteSet(Rs)
    BY <1>4, <1>8, FS_Subset
  <2> HIDE DEF Rs, f
  <2> QED BY <1>7, <2>1, FS_Injection
<1> HIDE DEF Rs, f
<1>10. Cardinality(Spots(s, e) \cup Rs) = Cardinality(Spots(s, e)) + Cardinality(Rs)
  <2>1. Cardinality(Spots(s, e) \cup Rs) = Cardinality(Spots(s, e)) + Cardinality(Rs) - Cardinality(Spots(s, e) \cap Rs)
    BY <1>8, <1>9, FS_Union
  <2>2. Cardinality(Spots(s, e) \cap Rs) = 0
    BY <1>6, FS_EmptySet
  <2>3. Cardinality(Spots(s, e)) \in Nat /\ Cardinality(Rs) \in Nat
    BY <1>8, <1>9, FS_CardinalityType
  <2> QED BY <2>1, <2>2, <2>3
<1>11. Cardinality(Spots(s, e) \cup Rs) <= Cardinality(Spots(st, e))
  BY <1>4, <1>5, <1>8, FS_Subset
<1>12. /\ Cardinality(Spots(s, e)) \in Nat /\ Cardinality(Spots(t, e)) \in Nat
       /\ Cardinality(Rs) \in Nat /\ Cardinality(Spots(st, e)) \in Nat
  BY <1>8, <1>9, FS_CardinalityType
<1>13. Cardinality(Spots(st, e)) >= Cardinality(Spots(s, e)) + Cardinality(Spots(t, e))
  BY <1>9, <1>10, <1>11, <1>12
<1> QED BY <1>13 DEF HowOften, st

(* What removing one element does.                                         *)
LEMMA RemoveAtFacts ==
  ASSUME NEW S, NEW s \in Seq(S), NEW k \in 1 .. Len(s)
  PROVE  LET r == RemoveAt(s, k) IN
         /\ r \in Seq(S) /\ Len(s) \in Nat /\ Len(r) = Len(s) - 1
         /\ \A i \in 1 .. Len(s) - 1 : r[i] = IF i < k THEN s[i] ELSE s[i + 1]
<1> DEFINE a == SubSeq(s, 1, k - 1)
           b == SubSeq(s, k + 1, Len(s))
<1>1. PICK n \in Nat, m \in Nat : n = Len(s) /\ m = k /\ 1 <= m /\ m <= n
  OBVIOUS
<1>2. /\ a \in Seq(S) /\ Len(a) = m - 1
      /\ \A i \in 1 .. m - 1 : a[i] = s[i]
  BY <1>1, SubSeqProperties
<1>3. /\ b \in Seq(S) /\ Len(b) = n - m
      /\ \A i \in 1 .. n - m : b[i] = s[m + i]
  BY <1>1, SubSeqProperties
<1> HIDE DEF a, b
<1>4. /\ a \o b \in Seq(S) /\ Len(a \o b) = (m - 1) + (n - m)
      /\ \A i \in 1 .. m - 1 : (a \o b)[i] = a[i]
      /\ \A i \in 1 .. n - m : (a \o b)[(m - 1) + i] = b[i]
  <2>1. /\ a \o b \in Seq(S) /\ Len(a \o b) = Len(a) + Len(b)
        /\ \A i \in 1 .. Len(a) : (a \o b)[i] = a[i]
        /\ \A i \in 1 .. Len(b) : (a \o b)[Len(a) + i] = b[i]
    <3>1. a \in Seq(S) /\ b \in Seq(S)
      BY <1>2, <1>3
    <3> QED BY <3>1, ConcatFacts
  <2>2. Len(a) = m - 1 /\ Len(b) = n - m
    BY <1>2, <1>3
  <2> QED BY <2>1, <2>2
<1>5. ASSUME NEW i \in 1 .. n - 1 PROVE (a \o b)[i] = IF i < m THEN s[i] ELSE s[i + 1]
  <2>1. CASE i < m
    <3>1. i \in 1 .. m - 1
      BY <1>1, <2>1
    <3> QED BY <1>2, <1>4, <2>1, <3>1
  <2>2. CASE ~ (i < m)
    <3>1. PICK j \in Nat : j = i
      OBVIOUS
    <3>2. j - (m - 1) \in 1 .. n - m /\ (m - 1) + (j - (m - 1)) = j /\ m + (j - (m - 1)) = j + 1
      BY <1>1, <2>2, <3>1
    <3>3. (a \o b)[j] = b[j - (m - 1)]
      BY <1>4, <3>2
    <3>4. b[j - (m - 1)] = s[j + 1]
      BY <1>3, <3>2
    <3> QED BY <2>2, <3>1, <3>3, <3>4
  <2> QED BY <2>1, <2>2
<1>6. (m - 1) + (n - m) = n - 1
  OBVIOUS
<1>7. RemoveAt(s, k) = a \o b
  BY DEF RemoveAt, a, b
<1> QED BY <1>1, <1>4, <1>5, <1>6, <1>7

(* Only the copy removed is lost.                                          *)
LEMMA CountRemove ==
  ASSUME NEW S, NEW s \in Seq(S), NEW k \in 1 .. Len(s), NEW e
  PROVE  HowOften(RemoveAt(s, k), e) >= IF s[k] = e THEN HowOften(s, e) - 1 ELSE HowOften(s, e)
<1> DEFINE r == RemoveAt(s, k)
           P == Spots(s, e) \ {k}
           f == [i \in P |-> IF i < k THEN i ELSE i - 1]
<1>1. PICK n \in Nat, m \in Nat : n = Len(s) /\ m = k /\ 1 <= m /\ m <= n
  OBVIOUS
<1>2. r \in Seq(S) /\ Len(r) = n - 1 /\ \A i \in 1 .. n - 1 : r[i] = IF i < m THEN s[i] ELSE s[i + 1]
  BY <1>1, RemoveAtFacts
<1>3. Spots(s, e) \subseteq 1 .. n
  BY <1>1 DEF Spots
<1> HIDE DEF r
<1>4. ASSUME NEW i \in P PROVE f[i] \in Spots(r, e)
  <2>1. i \in 1 .. n /\ i # m /\ s[i] = e /\ i \in Nat
    BY <1>1, <1>3 DEF Spots
  <2>2. CASE i < m
    <3>1. i \in 1 .. n - 1 /\ f[i] = i
      BY <1>1, <2>1, <2>2
    <3> QED BY <1>2, <2>1, <2>2, <3>1 DEF Spots
  <2>3. CASE ~ (i < m)
    <3>1. i - 1 \in 1 .. n - 1 /\ ~ (i - 1 < m) /\ (i - 1) + 1 = i
      BY <1>1, <2>1, <2>3
    <3>2. f[i] = i - 1
      BY <1>1, <2>3
    <3> QED BY <1>2, <2>1, <3>1, <3>2 DEF Spots
  <2> QED BY <2>2, <2>3
<1>5. ASSUME NEW i \in P, NEW j \in P, f[i] = f[j] PROVE i = j
  <2>1. i \in Nat /\ j \in Nat /\ i # m /\ j # m
    BY <1>1, <1>3
  <2>2. (IF i < m THEN i ELSE i - 1) = (IF j < m THEN j ELSE j - 1)
    BY <1>1, <1>5
  <2> QED BY <2>1, <2>2
<1>6. f \in Injection(P, Spots(r, e))
  <2>1. f \in [P -> Spots(r, e)]
    BY <1>4
  <2> HIDE DEF P
  <2>2. \A i, j \in P : f[i] = f[j] => i = j
    BY <1>5
  <2> QED BY <2>1, <2>2 DEF Injection, IsInjective
<1>7. IsFiniteSet(Spots(s, e)) /\ IsFiniteSet(Spots(r, e)) /\ HowOften(s, e) \in Nat /\ HowOften(r, e) \in Nat
  BY <1>2, SpotsFinite
<1> HIDE DEF f
<1>8. Cardinality(P) <= Cardinality(Spots(r, e))
  BY <1>6, <1>7, FS_Injection
<1>9. Cardinality(P) = IF k \in Spots(s, e) THEN HowOften(s, e) - 1 ELSE HowOften(s, e)
  BY <1>7, FS_RemoveElement DEF HowOften
<1>10. k \in Spots(s, e) <=> s[k] = e
  BY DEF Spots
<1> HIDE DEF P
<1>11. HowOften(r, e) >= IF s[k] = e THEN HowOften(s, e) - 1 ELSE HowOften(s, e)
  BY <1>7, <1>8, <1>9, <1>10 DEF HowOften
<1> QED BY <1>11 DEF r

(* The states of a template that runs, with contents made of the tokens C. *)
Runs(C) == [text : Seq(Texts(C)), blocks : Seq(Blocks(C))]

(* What the template finds under a name: no block, or the k-th of those left. *)
PopsDefault(r, id, s) ==
  /\ \A j \in 1 .. Len(r.blocks) : r.blocks[j].id # id
  /\ s = [text |-> Append(r.text, Format(Block(id, Default[id]))), blocks |-> r.blocks]

PopsBlock(r, id, k, s) ==
  /\ k \in 1 .. Len(r.blocks) /\ r.blocks[k].id = id
  /\ \A j \in 1 .. Len(r.blocks) : j < k => r.blocks[j].id # id
  /\ s = [text |-> Append(r.text, Format(r.blocks[k])), blocks |-> RemoveAt(r.blocks, k)]

(* pop_keep_block_content takes the first block of the name, or the        *)
(* default.                                                                *)
LEMMA PopFacts ==
  ASSUME NEW r, r.blocks \in Seq(Blocks(Token)), DOMAIN r = {"text", "blocks"},
         r = [text |-> r.text, blocks |-> r.blocks], NEW id
  PROVE  PopsDefault(r, id, Pop(r, id)) \/ \E k \in 1 .. Len(r.blocks) : PopsBlock(r, id, k, Pop(r, id))
<1> DEFINE Same == {i \in 1 .. Len(r.blocks) : r.blocks[i].id = id}
           m == CHOOSE x \in Same : \A y \in Same : x <= y
           k == IF Same # {} THEN m ELSE 0
<1>1. Pop(r, id) = IF k = 0 THEN [r EXCEPT !.text = Append(@, Format(Block(id, Default[id])))]
                   ELSE [text |-> Append(r.text, Format(r.blocks[k])), blocks |-> RemoveAt(r.blocks, k)]
  BY DEF Pop, SelectInSeq, Min
<1>2. CASE Same = {}
  <2>1. k = 0
    BY <1>2
  <2>2. \A j \in 1 .. Len(r.blocks) : r.blocks[j].id # id
    BY <1>2
  <2> HIDE DEF k, Same
  <2>3. Pop(r, id) = [r EXCEPT !.text = Append(@, Format(Block(id, Default[id])))]
    BY <1>1, <2>1
  <2>4. Pop(r, id) = [text |-> Append(r.text, Format(Block(id, Default[id]))), blocks |-> r.blocks]
    BY <2>3
  <2> QED BY <2>2, <2>4 DEF PopsDefault
<1>3. CASE Same # {}
  <2>1. Same \in SUBSET Nat
    OBVIOUS
  <2>2. \E x \in Same : \A y \in Same : x <= y
    BY <1>3, <2>1, LeastOf
  <2>3. m \in Same /\ \A y \in Same : m <= y
    BY <2>2
  <2>4. m \in 1 .. Len(r.blocks) /\ r.blocks[m].id = id /\ k = m /\ k # 0
    BY <1>3, <2>3
  <2>5. \A j \in 1 .. Len(r.blocks) : j < m => r.blocks[j].id # id
    <3>1. ASSUME NEW j \in 1 .. Len(r.blocks), j < m, r.blocks[j].id = id PROVE FALSE
      <4>1. j \in Same
        BY <3>1
      <4> QED BY <2>3, <2>4, <3>1, <4>1
    <3> QED BY <3>1
  <2> HIDE DEF k, m, Same
  <2> QED BY <1>1, <2>4, <2>5 DEF PopsBlock
<1> QED BY <1>2, <1>3

(* So do the runs of templates, whose states it keeps well formed.         *)
LEMMA PopType ==
  ASSUME NEW C, Piece \subseteq C, C \subseteq Token, NEW r \in Runs(C), NEW id \in Id
  PROVE  /\ Pop(r, id) \in Runs(C)
         /\ PopsDefault(r, id, Pop(r, id)) \/ \E k \in 1 .. Len(r.blocks) : PopsBlock(r, id, k, Pop(r, id))
<1>1. /\ r.text \in Seq(Texts(C)) /\ r.blocks \in Seq(Blocks(C))
      /\ DOMAIN r = {"text", "blocks"} /\ r = [text |-> r.text, blocks |-> r.blocks]
  BY DEF Runs
<1>2. Blocks(C) \subseteq Blocks(Token)
  <2>1. Seq(C) \subseteq Seq(Token)
    OBVIOUS
  <2> QED BY <2>1 DEF Blocks
<1>3. r.blocks \in Seq(Blocks(Token))
  BY <1>1, <1>2
<1>4. PopsDefault(r, id, Pop(r, id)) \/ \E k \in 1 .. Len(r.blocks) : PopsBlock(r, id, k, Pop(r, id))
  BY <1>1, <1>3, PopFacts
<1>5. \A b \in Blocks(C) : Append(r.text, Format(b)) \in Seq(Texts(C))
  <2>1. ASSUME NEW b \in Blocks(C) PROVE Append(r.text, Format(b)) \in Seq(Texts(C))
    <3>1. Format(b) \in Texts(C)
      BY DEF Texts
    <3> QED BY <1>1, <3>1, AppendFacts
  <2> QED BY <2>1
<1>6. CASE PopsDefault(r, id, Pop(r, id))
  <2>1. Block(id, Default[id]) \in Blocks(C)
    <3>1. Default[id] \in Seq(C)
      BY KeepAssumption
    <3> QED BY <3>1 DEF Blocks, Block
  <2> QED BY <1>1, <1>4, <1>5, <1>6, <2>1 DEF PopsDefault, Runs
<1>7. ASSUME NEW k \in 1 .. Len(r.blocks), PopsBlock(r, id, k, Pop(r, id))
      PROVE  Pop(r, id) \in Runs(C)
  <2>1. r.blocks[k] \in Blocks(C)
    BY <1>1
  <2>2. RemoveAt(r.blocks, k) \in Seq(Blocks(C))
    BY <1>1, RemoveAtFacts
  <2> QED BY <1>1, <1>5, <1>7, <2>1, <2>2 DEF PopsBlock, Runs
<1> QED BY <1>4, <1>6, <1>7

(* What is listed of the blocks left.                                      *)
Listing(r) == [k \in DOMAIN r.blocks |-> Listed(r.blocks[k])]

(* remaining_keep_block_contents adds what is left and leaves it there.    *)
LEMMA RemainingFacts ==
  ASSUME NEW C, C \subseteq Token, NEW r \in Runs(C)
  PROVE  /\ Listing(r) \in Seq(Texts(C)) /\ Len(Listing(r)) = Len(r.blocks)
         /\ \A k \in 1 .. Len(r.blocks) : Listing(r)[k] = Listed(r.blocks[k])
         /\ Remaining(r) = [text |-> r.text \o Listing(r), blocks |-> r.blocks]
         /\ Remaining(r) \in Runs(C)
<1>1. /\ r.text \in Seq(Texts(C)) /\ r.blocks \in Seq(Blocks(C))
      /\ DOMAIN r = {"text", "blocks"} /\ r = [text |-> r.text, blocks |-> r.blocks]
  BY DEF Runs
<1>2. DOMAIN r.blocks = 1 .. Len(r.blocks) /\ Len(r.blocks) \in Nat
  BY <1>1
<1>3. \A k \in 1 .. Len(r.blocks) : Listed(r.blocks[k]) \in Texts(C)
  <2>1. ASSUME NEW k \in 1 .. Len(r.blocks) PROVE Listed(r.blocks[k]) \in Texts(C)
    <3>1. r.blocks[k] \in Blocks(C)
      BY <1>1
    <3> QED BY <3>1 DEF Listed, Texts
  <2> QED BY <2>1
<1>4. Listing(r) \in Seq(Texts(C)) /\ Len(Listing(r)) = Len(r.blocks)
  BY <1>2, <1>3 DEF Listing
<1>5. \A k \in 1 .. Len(r.blocks) : Listing(r)[k] = Listed(r.blocks[k])
  BY <1>2 DEF Listing
<1>6. Remaining(r) = [text |-> r.text \o Listing(r), blocks |-> r.blocks]
  <2>1. Remaining(r) = [r EXCEPT !.text = @ \o Listing(r)]
    BY DEF Remaining, Listing
  <2> QED BY <1>1, <2>1
<1>7. r.text \o Listing(r) \in Seq(Texts(C))
  BY <1>1, <1>4, ConcatFacts
<1> QED BY <1>1, <1>4, <1>5, <1>6, <1>7 DEF Runs

(* What a template has written and has left, after it listed the rest.     *)
LEMMA RemainingParts ==
  ASSUME NEW C, C \subseteq Token, NEW r \in Runs(C)
  PROVE  Remaining(r).text = r.text \o Listing(r) /\ Remaining(r).blocks = r.blocks
<1>1. PICK v, w : v = r.text \o Listing(r) /\ w = r.blocks
  OBVIOUS
<1>2. Remaining(r) = [text |-> v, blocks |-> w]
  BY <1>1, RemainingFacts
<1> QED BY <1>1, <1>2

(* The states that a template goes through.                                *)
RunOf(a, t, B, C) ==
  /\ a \in [0 .. Len(t) -> Runs(C)]
  /\ a[0] = [text |-> <<>>, blocks |-> B]
  /\ \A k \in 1 .. Len(t) : a[k] = Ran(a[k - 1], t[k])

(* Each item of a template keeps the states well formed.                   *)
LEMMA RanType ==
  ASSUME NEW C, Piece \subseteq C, C \subseteq Token, NEW r \in Runs(C), NEW item \in Id \cup {Orphans}
  PROVE  Ran(r, item) \in Runs(C)
BY PopType, RemainingFacts DEF Ran

(* A template runs item by item.                                           *)
LEMMA RunStepByStep ==
  ASSUME NEW C, Piece \subseteq C, C \subseteq Token,
         NEW t \in Seq(Id \cup {Orphans}), NEW B \in Seq(Blocks(C))
  PROVE  \E a : RunOf(a, t, B, C) /\ RunTemplate(t, B) = FlattenSeq(a[Len(t)].text)
<1> DEFINE n == Len(t)
           S == Runs(C)
           first == [text |-> <<>>, blocks |-> B]
           Do == [k \in 1 .. n |-> [s \in S |-> Ran(s, t[k])]]
           run == CHOOSE run : run = [k \in 0 .. n |-> IF k = 0 THEN first ELSE Ran(run[k - 1], t[k])]
<1>1. n \in Nat /\ \A k \in 1 .. n : t[k] \in Id \cup {Orphans}
  OBVIOUS
<1>2. first \in S
  BY DEF Runs
<1>3. RunTemplate(t, B) = FlattenSeq(run[n].text)
  BY DEF RunTemplate
<1>4. \A k \in 1 .. n : \A s \in S : Ran(s, t[k]) \in S
  BY <1>1, RanType
<1> HIDE DEF n, S, first
<1>5. Do \in [1 .. n -> [S -> S]] /\ \A k \in 1 .. n : \A s \in S : Do[k][s] = Ran(s, t[k])
  BY <1>4
<1> HIDE DEF Do, run
<1>6. PICK a : StepsOf(a, S, first, Do, n)
  <2>1. Stepping(S, first, Do, n)
    BY <1>1, <1>2, <1>5 DEF Stepping
  <2> QED BY <2>1, StepsFrom
<1>7. a \in [0 .. n -> S] /\ a[0] = first /\ \A k \in 1 .. n : a[k] = Do[k][a[k - 1]]
  BY <1>6 DEF StepsOf
<1>8. ASSUME NEW k \in 1 .. n PROVE a[k] = Ran(a[k - 1], t[k])
  <2>1. k - 1 \in 0 .. n
    BY <1>1
  <2> QED BY <1>5, <1>7, <2>1
<1>9. a = [k \in 0 .. n |-> IF k = 0 THEN first ELSE Ran(a[k - 1], t[k])]
  <2>1. a = [k \in 0 .. n |-> a[k]]
    BY <1>7
  <2>2. \A k \in 0 .. n : a[k] = IF k = 0 THEN first ELSE Ran(a[k - 1], t[k])
    <3>1. \A k \in 0 .. n : k # 0 => k \in 1 .. n
      BY <1>1
    <3> QED BY <1>7, <1>8, <3>1
  <2> QED BY <2>1, <2>2
<1>10. run = [k \in 0 .. n |-> IF k = 0 THEN first ELSE Ran(run[k - 1], t[k])]
  BY <1>9 DEF run
<1> DEFINE T == {k \in 0 .. n : run[k] = a[k]}
<1>11. 0 \in T
  BY <1>1, <1>7, <1>10
<1>12. ASSUME NEW k \in 1 .. n, k - 1 \in T PROVE k \in T
  <2>1. k \in 0 .. n /\ k # 0
    BY <1>1
  <2> QED BY <1>8, <1>10, <1>12, <2>1
<1> HIDE DEF T
<1>13. 0 .. n \subseteq T
  BY <1>1, <1>11, <1>12, StepsReach
<1>14. run[n] = a[n]
  <2>1. n \in 0 .. n
    BY <1>1
  <2> QED BY <1>13, <2>1 DEF T
<1>15. RunOf(a, t, B, C)
  BY <1>7, <1>8 DEF RunOf, n, S, first
<1> QED BY <1>3, <1>14, <1>15 DEF n

(* The copies of a block left and written together do not become fewer,    *)
(* and where the orphans are listed all those left are written.            *)
LEMMA CountStep ==
  ASSUME NEW C, Piece \subseteq C, C \subseteq Token, NEW r \in Runs(C), NEW item \in Id \cup {Orphans},
         NEW e \in Blocks(C), e.content # <<>>
  PROVE  LET s == Ran(r, item)
             x == Format(e)
         IN  /\ HowOften(s.text, x) + HowOften(s.blocks, e) >= HowOften(r.text, x) + HowOften(r.blocks, e)
             /\ HowOften(s.text, x) >= HowOften(r.text, x)
             /\ item = Orphans => HowOften(s.text, x) >= HowOften(r.text, x) + HowOften(r.blocks, e)
<1> DEFINE s == Ran(r, item)
           x == Format(e)
<1>1. /\ r.text \in Seq(Texts(C)) /\ r.blocks \in Seq(Blocks(C))
      /\ HowOften(r.text, x) \in Nat /\ HowOften(r.blocks, e) \in Nat
  <2>1. r.text \in Seq(Texts(C)) /\ r.blocks \in Seq(Blocks(C))
    BY DEF Runs
  <2> HIDE DEF x
  <2> QED BY <2>1, SpotsFinite
<1>2. s \in Runs(C)
  BY RanType
<1>3. /\ s.text \in Seq(Texts(C)) /\ s.blocks \in Seq(Blocks(C))
      /\ HowOften(s.text, x) \in Nat /\ HowOften(s.blocks, e) \in Nat
  <2>1. s.text \in Seq(Texts(C)) /\ s.blocks \in Seq(Blocks(C))
    BY <1>2 DEF Runs
  <2> HIDE DEF x, s
  <2> QED BY <2>1, SpotsFinite
<1>4. CASE item = Orphans
  <2>1. s = Remaining(r)
    BY <1>4 DEF Ran
  <2>2. /\ s.text = r.text \o Listing(r) /\ s.blocks = r.blocks
        /\ Listing(r) \in Seq(Texts(C)) /\ Len(Listing(r)) = Len(r.blocks)
        /\ \A k \in 1 .. Len(r.blocks) : Listing(r)[k] = Listed(r.blocks[k])
    <3> HIDE DEF s
    <3>1. /\ Listing(r) \in Seq(Texts(C)) /\ Len(Listing(r)) = Len(r.blocks)
          /\ \A k \in 1 .. Len(r.blocks) : Listing(r)[k] = Listed(r.blocks[k])
      BY RemainingFacts
    <3>2. Remaining(r).text = r.text \o Listing(r) /\ Remaining(r).blocks = r.blocks
      BY RemainingParts
    <3> QED BY <2>1, <3>1, <3>2
  <2>3. HowOften(Listing(r), x) >= HowOften(r.blocks, e) /\ HowOften(Listing(r), x) \in Nat
    <3>1. Listed(e) = x
      BY DEF Listed
    <3> HIDE DEF x
    <3>2. Spots(r.blocks, e) \subseteq Spots(Listing(r), x)
      BY <2>2, <3>1 DEF Spots
    <3>3. IsFiniteSet(Spots(Listing(r), x)) /\ IsFiniteSet(Spots(r.blocks, e)) /\ HowOften(Listing(r), x) \in Nat
      BY <1>1, <2>2, SpotsFinite
    <3>4. Cardinality(Spots(r.blocks, e)) <= Cardinality(Spots(Listing(r), x))
      BY <3>2, <3>3, FS_Subset
    <3> QED BY <1>1, <3>3, <3>4 DEF HowOften
  <2> HIDE DEF s, x
  <2>4. HowOften(r.text \o Listing(r), x) >= HowOften(r.text, x) + HowOften(Listing(r), x)
    BY <1>1, <2>2, CountConcat
  <2>5. HowOften(s.text, x) >= HowOften(r.text, x) + HowOften(Listing(r), x)
    BY <2>2, <2>4
  <2>6. HowOften(s.blocks, e) = HowOften(r.blocks, e)
    BY <2>2
  <2>7. /\ HowOften(s.text, x) >= HowOften(r.text, x) + HowOften(r.blocks, e)
        /\ HowOften(s.text, x) >= HowOften(r.text, x)
        /\ HowOften(s.text, x) + HowOften(s.blocks, e) >= HowOften(r.text, x) + HowOften(r.blocks, e)
    BY <1>1, <1>3, <2>3, <2>5, <2>6
  <2> QED BY <2>7 DEF s, x
<1>5. CASE item # Orphans
  <2>1. item \in Id /\ s = Pop(r, item)
    BY <1>5 DEF Ran
  <2>2. CASE PopsDefault(r, item, Pop(r, item))
    <3> DEFINE y == Format(Block(item, Default[item]))
    <3>1. s.text = Append(r.text, y) /\ s.blocks = r.blocks
      BY <2>1, <2>2 DEF PopsDefault
    <3>2. y \in Texts(C)
      <4>1. Default[item] \in Seq(C)
        BY <2>1, KeepAssumption
      <4>2. Block(item, Default[item]) \in Blocks(C)
        BY <2>1, <4>1 DEF Blocks, Block
      <4> QED BY <4>2 DEF Texts
    <3> HIDE DEF y, s, x
    <3>3. HowOften(s.text, x) = IF y = x THEN HowOften(r.text, x) + 1 ELSE HowOften(r.text, x)
      BY <1>1, <3>1, <3>2, CountAppend
    <3>4. /\ HowOften(s.text, x) >= HowOften(r.text, x)
          /\ HowOften(s.text, x) + HowOften(s.blocks, e) >= HowOften(r.text, x) + HowOften(r.blocks, e)
      BY <1>1, <3>1, <3>3
    <3> QED BY <1>5, <3>4 DEF s, x
  <2>3. ASSUME NEW k \in 1 .. Len(r.blocks), PopsBlock(r, item, k, Pop(r, item))
        PROVE  /\ HowOften(s.text, x) >= HowOften(r.text, x)
               /\ HowOften(s.text, x) + HowOften(s.blocks, e) >= HowOften(r.text, x) + HowOften(r.blocks, e)
    <3> DEFINE b == r.blocks[k]
               y == Format(b)
    <3>1. s.text = Append(r.text, y) /\ s.blocks = RemoveAt(r.blocks, k)
      BY <2>1, <2>3 DEF PopsBlock
    <3>2. b \in Blocks(C)
      BY <1>1
    <3>3. y \in Texts(C) /\ (b = e => y = x)
      BY <3>2 DEF Texts
    <3> HIDE DEF b, y, s, x
    <3>4. HowOften(s.text, x) = IF y = x THEN HowOften(r.text, x) + 1 ELSE HowOften(r.text, x)
      BY <1>1, <3>1, <3>3, CountAppend
    <3>5. HowOften(s.blocks, e) >= IF b = e THEN HowOften(r.blocks, e) - 1 ELSE HowOften(r.blocks, e)
      BY <1>1, <3>1, CountRemove DEF b
    <3>6. CASE b = e
      <4>1. HowOften(s.text, x) = HowOften(r.text, x) + 1 /\ HowOften(s.blocks, e) >= HowOften(r.blocks, e) - 1
        BY <3>3, <3>4, <3>5, <3>6
      <4> QED BY <1>1, <1>3, <4>1
    <3>7. CASE b # e
      <4>1. HowOften(s.text, x) >= HowOften(r.text, x) /\ HowOften(s.blocks, e) >= HowOften(r.blocks, e)
        BY <1>1, <3>4, <3>5, <3>7
      <4> QED BY <1>1, <1>3, <4>1
    <3> QED BY <3>6, <3>7
  <2>4. PopsDefault(r, item, Pop(r, item)) \/ \E k \in 1 .. Len(r.blocks) : PopsBlock(r, item, k, Pop(r, item))
    BY <2>1, PopType
  <2> QED BY <1>5, <2>2, <2>3, <2>4
<1> QED BY <1>4, <1>5

(* A template that lists the orphans writes every block with code that was *)
(* found as often as it was found.                                         *)
LEMMA KeptByRun ==
  ASSUME NEW C, Piece \subseteq C, C \subseteq Token, NEW t \in Seq(Id \cup {Orphans}),
         NEW B \in Seq(Blocks(C)), NEW a, RunOf(a, t, B, C), NEW e \in Blocks(C), e.content # <<>>,
         \E i \in 1 .. Len(t) : t[i] = Orphans
  PROVE  HowOften(a[Len(t)].text, Format(e)) >= HowOften(B, e)
<1> DEFINE n == Len(t)
           x == Format(e)
           Has(k) == \E i \in 1 .. k : t[i] = Orphans
           N == HowOften(B, e)
           ct(k) == HowOften(a[k].text, x)
           cb(k) == HowOften(a[k].blocks, e)
           T == {k \in 0 .. n : ct(k) + cb(k) >= N /\ (Has(k) => ct(k) >= N)}
<1>1. n \in Nat /\ \A k \in 1 .. n : t[k] \in Id \cup {Orphans} /\ k - 1 \in 0 .. n /\ k \in 0 .. n
  OBVIOUS
<1>2. /\ \A k \in 0 .. n : a[k] \in Runs(C)
      /\ a[0] = [text |-> <<>>, blocks |-> B]
      /\ \A k \in 1 .. n : a[k] = Ran(a[k - 1], t[k])
  BY DEF RunOf
<1> HIDE DEF x
<1>3. \A k \in 0 .. n : ct(k) \in Nat /\ cb(k) \in Nat
  <2>1. ASSUME NEW k \in 0 .. n PROVE ct(k) \in Nat /\ cb(k) \in Nat
    <3>1. a[k].text \in Seq(Texts(C)) /\ a[k].blocks \in Seq(Blocks(C))
      BY <1>2 DEF Runs
    <3> QED BY <3>1, SpotsFinite
  <2> QED BY <2>1
<1>4. N \in Nat
  BY SpotsFinite
<1>5. cb(0) = N
  BY <1>2
<1>6. \A k \in 1 .. n : /\ ct(k) + cb(k) >= ct(k - 1) + cb(k - 1)
                        /\ ct(k) >= ct(k - 1)
                        /\ t[k] = Orphans => ct(k) >= ct(k - 1) + cb(k - 1)
  <2>1. ASSUME NEW k \in 1 .. n
        PROVE  /\ ct(k) + cb(k) >= ct(k - 1) + cb(k - 1)
               /\ ct(k) >= ct(k - 1)
               /\ t[k] = Orphans => ct(k) >= ct(k - 1) + cb(k - 1)
    <3>1. PICK r \in Runs(C) : r = a[k - 1]
      BY <1>1, <1>2
    <3>2. PICK item \in Id \cup {Orphans} : item = t[k]
      BY <1>1
    <3>3. a[k] = Ran(r, item)
      BY <1>2, <3>1, <3>2
    <3>4. LET s == Ran(r, item)
          IN  /\ HowOften(s.text, x) + HowOften(s.blocks, e) >= HowOften(r.text, x) + HowOften(r.blocks, e)
              /\ HowOften(s.text, x) >= HowOften(r.text, x)
              /\ item = Orphans => HowOften(s.text, x) >= HowOften(r.text, x) + HowOften(r.blocks, e)
      BY CountStep DEF x
    <3> QED BY <3>1, <3>2, <3>3, <3>4
  <2> QED BY <2>1
<1>7. 0 \in T
  <2>1. 0 \in 0 .. n /\ ~ Has(0)
    BY <1>1
  <2> HIDE DEF N, ct, cb, Has
  <2>2. ct(0) \in Nat
    BY <1>3, <2>1
  <2> QED BY <1>4, <1>5, <2>1, <2>2
<1>8. ASSUME NEW k \in 1 .. n, k - 1 \in T PROVE k \in T
  <2>1. Has(k) => Has(k - 1) \/ t[k] = Orphans
    <3>1. \A i \in 1 .. k : i = k \/ i \in 1 .. k - 1
      BY <1>1
    <3> QED BY <3>1
  <2>2. k \in 0 .. n /\ k - 1 \in 0 .. n
    BY <1>1
  <2> HIDE DEF N, ct, cb, Has
  <2>3. ct(k - 1) \in Nat /\ cb(k - 1) \in Nat /\ ct(k) \in Nat /\ cb(k) \in Nat
    BY <1>3, <2>2
  <2>4. /\ ct(k - 1) + cb(k - 1) >= N
        /\ Has(k - 1) => ct(k - 1) >= N
        /\ ct(k) + cb(k) >= ct(k - 1) + cb(k - 1)
        /\ ct(k) >= ct(k - 1)
        /\ t[k] = Orphans => ct(k) >= ct(k - 1) + cb(k - 1)
    BY <1>6, <1>8
  <2> QED BY <1>4, <2>1, <2>2, <2>3, <2>4
<1> HIDE DEF T
<1>9. n \in T
  <2>1. 0 .. n \subseteq T
    BY <1>1, <1>7, <1>8, StepsReach
  <2>2. n \in 0 .. n
    BY <1>1
  <2> QED BY <2>1, <2>2
<1>10. Has(n)
  OBVIOUS
<1>11. ct(n) >= N
  BY <1>9, <1>10 DEF T
<1> QED BY <1>11 DEF x

(* A file has finitely many keep blocks.                                   *)
LEMMA KeepBlocksFinite ==
  ASSUME NEW f \in Seq(Token)
  PROVE  IsFiniteSet(KeepBlock(f))
<1>1. Len(f) \in Nat /\ DOMAIN f = 1 .. Len(f)
  OBVIOUS
<1>2. IsFiniteSet(1 .. Len(f))
  BY <1>1, FS_Interval
<1>3. IsFiniteSet((1 .. Len(f)) \X (1 .. Len(f)))
  BY <1>2, FS_Product
<1>4. KeepBlock(f) \in SUBSET ((1 .. Len(f)) \X (1 .. Len(f)))
  BY <1>1 DEF KeepBlock
<1> QED BY <1>3, <1>4, FS_Subset

(* Every copy of a block in a file is found by the parser.                 *)
LEMMA CopiesInFile ==
  ASSUME NEW f \in Seq(Token), NEW B \in Seq(Blocks(Token)), Found(f, B, KeepBlock(f)), NEW id, NEW c
  PROVE  Copies(f, id, c) <= HowOften(B, Block(id, c)) /\ Copies(f, id, c) \in Nat
<1> DEFINE K == {p \in KeepBlock(f) : f[p[1]].id = id /\ Content(f, p) = c}
           e == Block(id, c)
<1>1. PICK J \in [KeepBlock(f) -> 1 .. Len(B)] :
        /\ \A p, q \in KeepBlock(f) : J[p] = J[q] => p = q
        /\ \A p \in KeepBlock(f) : B[J[p]] = Block(f[p[1]].id, Content(f, p))
  BY DEF Found, FoundAt
<1> DEFINE L == [p \in K |-> J[p]]
<1>2. L \in [K -> Spots(B, e)]
  BY <1>1 DEF Spots
<1>3. \A p, q \in K : L[p] = L[q] => p = q
  BY <1>1
<1> HIDE DEF L
<1>4. L \in Injection(K, Spots(B, e))
  BY <1>2, <1>3 DEF Injection, IsInjective
<1>5. IsFiniteSet(Spots(B, e))
  BY SpotsFinite
<1>6. IsFiniteSet(K) /\ Cardinality(K) <= Cardinality(Spots(B, e))
  BY <1>4, <1>5, FS_Injection
<1>7. Cardinality(K) \in Nat
  BY <1>6, FS_CardinalityType
<1> QED BY <1>6, <1>7 DEF Copies, HowOften

(* Every copy of a block that is written is in the file.                   *)
LEMMA CopiesInText ==
  ASSUME NEW p \in Seq(Seq(Token)), NEW F, Flat(F, p), NEW b \in Blocks(Piece)
  PROVE  /\ Copies(F[Len(p)], b.id, b.content) >= HowOften(p, Format(b))
         /\ Copies(F[Len(p)], b.id, b.content) \in Nat
<1> DEFINE T == F[Len(p)]
           x == Format(b)
           K == {q \in KeepBlock(T) : T[q[1]].id = b.id /\ Content(T, q) = b.content}
           L == [k \in Spots(p, x) |-> PieceAt(F, k)]
<1>1. T \in Seq(Token)
  <2>1. Len(p) \in 0 .. Len(p)
    OBVIOUS
  <2> QED BY <2>1 DEF Flat
<1>2. ASSUME NEW k \in Spots(p, x) PROVE PieceAt(F, k) \in K
  <2>1. k \in 1 .. Len(p) /\ p[k] = Format(b)
    BY DEF Spots
  <2> QED BY <2>1, TextBlock
<1>3. ASSUME NEW j \in Spots(p, x), NEW k \in Spots(p, x), PieceAt(F, j) = PieceAt(F, k) PROVE j = k
  <2>1. j \in 1 .. Len(p) /\ k \in 1 .. Len(p) /\ p[j] = x /\ p[k] = x
    BY DEF Spots
  <2>2. x # <<>>
    BY FormatFacts, PiecesAreCode
  <2> HIDE DEF x
  <2> QED BY <1>3, <2>1, <2>2, TextBlocksApart
<1>4. L \in Injection(Spots(p, x), K)
  <2> HIDE DEF K, x
  <2> QED BY <1>2, <1>3 DEF Injection, IsInjective
<1>5. IsFiniteSet(K)
  <2>1. IsFiniteSet(KeepBlock(T))
    BY <1>1, KeepBlocksFinite
  <2> QED BY <2>1, FS_Subset
<1> HIDE DEF L
<1>6. Cardinality(Spots(p, x)) <= Cardinality(K)
  <2> HIDE DEF K, x
  <2> QED BY <1>4, <1>5, FS_Injection
<1>7. Cardinality(K) \in Nat /\ Cardinality(Spots(p, x)) \in Nat
  <2>1. Cardinality(K) \in Nat
    BY <1>5, FS_CardinalityType
  <2> HIDE DEF x, K
  <2> QED BY <2>1, SpotsFinite DEF HowOften
<1> QED BY <1>6, <1>7 DEF Copies, HowOften

(* Two blocks that are written alike are the same.                         *)
LEMMA FormatInjective ==
  ASSUME NEW C, C \subseteq Token, NEW b \in Blocks(C), NEW d \in Blocks(C), Format(b) = Format(d)
  PROVE  b = d
<1>1. PICK t : t = Format(b) /\ t = Format(d)
  OBVIOUS
<1>2. /\ b.id \in Id /\ b.content \in Seq(C) /\ Len(b.content) \in Nat /\ Len(t) = Len(b.content) + 2
      /\ t[1] = [begin |-> "icglue", id |-> b.id]
      /\ \A i \in 1 .. Len(b.content) : t[i + 1] = b.content[i]
  BY <1>1, FormatFacts
<1>3. /\ d.id \in Id /\ d.content \in Seq(C) /\ Len(d.content) \in Nat /\ Len(t) = Len(d.content) + 2
      /\ t[1] = [begin |-> "icglue", id |-> d.id]
      /\ \A i \in 1 .. Len(d.content) : t[i + 1] = d.content[i]
  BY <1>1, FormatFacts
<1>4. b.id = d.id
  <2>1. [begin |-> "icglue", id |-> b.id].id = [begin |-> "icglue", id |-> d.id].id
    BY <1>2, <1>3
  <2> QED BY <2>1
<1>5. Len(b.content) = Len(d.content)
  BY <1>2, <1>3
<1>6. b.content = d.content
  BY <1>2, <1>3, <1>5, SameElements
<1>7. b = [id |-> b.id, content |-> b.content] /\ d = [id |-> d.id, content |-> d.content]
  BY DEF Blocks
<1> QED BY <1>4, <1>6, <1>7

(* A template leaves the block empty unless a user fills it.               *)
NoDefaultOf(id) == Default[id] = <<>>

(* The blocks of a name that are left are empty, and so are those written. *)
EmptyLeft(r, id) == \A j \in 1 .. Len(r.blocks) : r.blocks[j].id = id => r.blocks[j].content = <<>>
EmptyWritten(r, id) ==
  \A i \in 1 .. Len(r.text) : \A b \in Blocks(Piece) :
    r.text[i] = Format(b) /\ b.id = id => b.content = <<>>
SomeLeft(r, id) == \E j \in 1 .. Len(r.blocks) : r.blocks[j].id = id
SomeWritten(r, id) == \E i \in 1 .. Len(r.text) : r.text[i] = Format(Block(id, <<>>))

(* One more block that is written, empty or of another name.               *)
LEMMA EmptyAppend ==
  ASSUME NEW r \in Runs(Piece), NEW id \in Id, NEW b \in Blocks(Piece), NEW s,
         s.text = Append(r.text, Format(b)), EmptyWritten(r, id), b.id = id => b.content = <<>>
  PROVE  /\ EmptyWritten(s, id)
         /\ SomeWritten(r, id) => SomeWritten(s, id)
         /\ b.id = id => SomeWritten(s, id)
<1>1. r.text \in Seq(Texts(Piece)) /\ Format(b) \in Texts(Piece)
  BY DEF Runs, Texts
<1>2. PICK y \in Texts(Piece) : y = Format(b)
  BY <1>1
<1>3. PICK n \in Nat : /\ n = Len(r.text) /\ Len(s.text) = n + 1 /\ s.text[n + 1] = y
                       /\ \A i \in 1 .. n : s.text[i] = r.text[i]
                       /\ 1 .. n + 1 = (1 .. n) \cup {n + 1}
  BY <1>1, <1>2, AppendFacts
<1>4. EmptyWritten(s, id)
  <2>1. ASSUME NEW i \in 1 .. n + 1, NEW d \in Blocks(Piece), s.text[i] = Format(d), d.id = id
        PROVE  d.content = <<>>
    <3>1. CASE i \in 1 .. n
      BY <1>3, <2>1, <3>1 DEF EmptyWritten
    <3>2. CASE i = n + 1
      <4>1. Format(d) = Format(b)
        BY <1>2, <1>3, <2>1, <3>2
      <4>2. d = b
        BY <4>1, FormatInjective, PiecesAreCode
      <4> QED BY <2>1, <4>2
    <3> QED BY <1>3, <3>1, <3>2
  <2> QED BY <1>3, <2>1 DEF EmptyWritten
<1>5. SomeWritten(r, id) => SomeWritten(s, id)
  BY <1>3 DEF SomeWritten
<1>6. b.id = id => SomeWritten(s, id)
  <2>1. ASSUME b.id = id PROVE b = Block(id, <<>>)
    <3>1. b = [id |-> b.id, content |-> b.content]
      BY DEF Blocks
    <3> QED BY <2>1, <3>1 DEF Block
  <2>2. n + 1 \in 1 .. n + 1
    OBVIOUS
  <2> QED BY <1>2, <1>3, <2>1, <2>2 DEF SomeWritten
<1> QED BY <1>4, <1>5, <1>6

(* One item of a template, where all blocks of a name are empty.           *)
LEMMA EmptiedStep ==
  ASSUME NEW r \in Runs(Piece), NEW item \in Id \cup {Orphans}, NEW id \in Id,
         EmptyLeft(r, id), EmptyWritten(r, id), item = id => SomeLeft(r, id) \/ NoDefaultOf(id)
  PROVE  LET s == Ran(r, item)
         IN  /\ EmptyLeft(s, id) /\ EmptyWritten(s, id)
             /\ item # id /\ SomeLeft(r, id) => SomeLeft(s, id)
             /\ SomeWritten(r, id) => SomeWritten(s, id)
             /\ item = id => SomeWritten(s, id)
<1> DEFINE s == Ran(r, item)
<1>1. Piece \subseteq Token
  BY PiecesAreCode
<1>2. r.text \in Seq(Texts(Piece)) /\ r.blocks \in Seq(Blocks(Piece))
  BY DEF Runs
<1>3. CASE item = Orphans
  <2>1. item # id /\ s = Remaining(r)
    BY <1>3, KeepAssumption DEF Ran
  <2>2. /\ s.text = r.text \o Listing(r) /\ s.blocks = r.blocks
        /\ Listing(r) \in Seq(Texts(Piece)) /\ Len(Listing(r)) = Len(r.blocks)
        /\ \A k \in 1 .. Len(r.blocks) : Listing(r)[k] = Listed(r.blocks[k])
    <3> HIDE DEF s
    <3>1. /\ Listing(r) \in Seq(Texts(Piece)) /\ Len(Listing(r)) = Len(r.blocks)
          /\ \A k \in 1 .. Len(r.blocks) : Listing(r)[k] = Listed(r.blocks[k])
      BY <1>1, RemainingFacts
    <3>2. Remaining(r).text = r.text \o Listing(r) /\ Remaining(r).blocks = r.blocks
      BY <1>1, RemainingParts
    <3> QED BY <2>1, <3>1, <3>2
  <2> HIDE DEF s
  <2>3. EmptyLeft(s, id) /\ (SomeLeft(r, id) => SomeLeft(s, id))
    BY <2>2 DEF EmptyLeft, SomeLeft
  <2>4. PICK u \in Nat, w \in Nat : u = Len(r.text) /\ w = Len(Listing(r))
    BY <1>2, <2>2
  <2>5. /\ Len(s.text) = u + w
        /\ \A i \in 1 .. u : s.text[i] = r.text[i]
        /\ \A i \in 1 .. w : s.text[u + i] = Listing(r)[i]
    <3>1. /\ Len(r.text \o Listing(r)) = Len(r.text) + Len(Listing(r))
          /\ \A i \in 1 .. Len(r.text) : (r.text \o Listing(r))[i] = r.text[i]
          /\ \A i \in 1 .. Len(Listing(r)) : (r.text \o Listing(r))[Len(r.text) + i] = Listing(r)[i]
      <4> DEFINE x == r.text
                 y == Listing(r)
      <4>1. x \in Seq(Texts(Piece)) /\ y \in Seq(Texts(Piece))
        BY <1>2, <2>2
      <4> HIDE DEF x, y
      <4>2. /\ Len(x \o y) = Len(x) + Len(y)
            /\ \A i \in 1 .. Len(x) : (x \o y)[i] = x[i]
            /\ \A i \in 1 .. Len(y) : (x \o y)[Len(x) + i] = y[i]
        BY <4>1, ConcatFacts
      <4> QED BY <4>2 DEF x, y
    <3> QED BY <2>2, <2>4, <3>1
  <2>6. SomeWritten(r, id) => SomeWritten(s, id)
    BY <2>4, <2>5, SumBounds DEF SomeWritten
  <2>7. EmptyWritten(s, id)
    <3>1. ASSUME NEW i \in 1 .. u + w, NEW b \in Blocks(Piece), s.text[i] = Format(b), b.id = id
          PROVE  b.content = <<>>
      <4>1. CASE i \in 1 .. u
        BY <2>4, <2>5, <3>1, <4>1 DEF EmptyWritten
      <4>2. CASE i \notin 1 .. u
        <5>1. PICK k \in 1 .. w : i = u + k
          BY <4>2, SumBounds
        <5>2. k \in 1 .. Len(r.blocks) /\ Format(b) = Listed(r.blocks[k])
          BY <2>2, <2>4, <2>5, <3>1, <5>1
        <5>3. PICK d \in Blocks(Piece) : d = r.blocks[k]
          BY <1>2, <5>2
        <5>4. Format(b) # <<>>
          BY <1>1, FormatFacts
        <5>5. Format(b) = Format(d)
          BY <5>2, <5>3, <5>4 DEF Listed
        <5>6. b = d
          BY <1>1, <5>5, FormatInjective
        <5> QED BY <3>1, <5>2, <5>3, <5>6 DEF EmptyLeft
      <4> QED BY <4>1, <4>2
    <3> QED BY <2>5, <3>1 DEF EmptyWritten
  <2> QED BY <2>1, <2>3, <2>6, <2>7 DEF s
<1>4. CASE item # Orphans
  <2>1. item \in Id /\ s = Pop(r, item)
    BY <1>4 DEF Ran
  <2>2. CASE PopsDefault(r, item, Pop(r, item))
    <3> DEFINE b == Block(item, Default[item])
    <3>1. s.text = Append(r.text, Format(b)) /\ s.blocks = r.blocks
      BY <2>1, <2>2 DEF PopsDefault
    <3>2. b \in Blocks(Piece) /\ b.id = item
      BY <2>1, KeepAssumption DEF Blocks, Block
    <3>3. b.id = id => b.content = <<>>
      <4>1. ASSUME item = id PROVE NoDefaultOf(id)
        BY <2>2, <4>1 DEF PopsDefault, SomeLeft
      <4> QED BY <3>2, <4>1 DEF Block, NoDefaultOf
    <3> HIDE DEF b, s
    <3>4. /\ EmptyWritten(s, id) /\ (SomeWritten(r, id) => SomeWritten(s, id))
          /\ item = id => SomeWritten(s, id)
      BY <3>1, <3>2, <3>3, EmptyAppend
    <3>5. EmptyLeft(s, id) /\ (SomeLeft(r, id) => SomeLeft(s, id))
      BY <3>1 DEF EmptyLeft, SomeLeft
    <3> QED BY <3>4, <3>5 DEF s
  <2>3. ASSUME NEW k \in 1 .. Len(r.blocks), PopsBlock(r, item, k, Pop(r, item))
        PROVE  /\ EmptyLeft(s, id) /\ EmptyWritten(s, id)
               /\ item # id /\ SomeLeft(r, id) => SomeLeft(s, id)
               /\ SomeWritten(r, id) => SomeWritten(s, id)
               /\ item = id => SomeWritten(s, id)
    <3> DEFINE b == r.blocks[k]
    <3>1. s.text = Append(r.text, Format(b)) /\ s.blocks = RemoveAt(r.blocks, k) /\ b.id = item
      BY <2>1, <2>3 DEF PopsBlock
    <3>2. b \in Blocks(Piece) /\ (b.id = id => b.content = <<>>)
      BY <1>2 DEF EmptyLeft
    <3>3. PICK n \in Nat :
            /\ n = Len(r.blocks) /\ Len(s.blocks) = n - 1
            /\ \A i \in 1 .. n - 1 : s.blocks[i] = IF i < k THEN r.blocks[i] ELSE r.blocks[i + 1]
      BY <1>2, <3>1, RemoveAtFacts
    <3> HIDE DEF s
    <3>4. EmptyLeft(s, id)
      <4>1. ASSUME NEW i \in 1 .. n - 1, s.blocks[i].id = id PROVE s.blocks[i].content = <<>>
        <5>1. i \in 1 .. n /\ i + 1 \in 1 .. n
          BY <3>3
        <5> QED BY <3>3, <4>1, <5>1 DEF EmptyLeft
      <4> QED BY <3>3, <4>1 DEF EmptyLeft
    <3>5. ASSUME item # id, SomeLeft(r, id) PROVE SomeLeft(s, id)
      <4>1. PICK j \in 1 .. n : r.blocks[j].id = id
        BY <3>3, <3>5 DEF SomeLeft
      <4>2. j # k /\ j \in Nat /\ k \in Nat /\ k >= 1 /\ k <= n
        BY <3>1, <3>3, <3>5, <4>1
      <4>3. CASE j < k
        <5>1. j \in 1 .. n - 1
          BY <4>2, <4>3
        <5> QED BY <3>3, <4>1, <4>3, <5>1 DEF SomeLeft
      <4>4. CASE ~ (j < k)
        <5>1. j - 1 \in 1 .. n - 1 /\ ~ (j - 1 < k) /\ (j - 1) + 1 = j
          BY <4>2, <4>4
        <5> QED BY <3>3, <4>1, <5>1 DEF SomeLeft
      <4> QED BY <4>3, <4>4
    <3> HIDE DEF b
    <3>6. /\ EmptyWritten(s, id)
          /\ SomeWritten(r, id) => SomeWritten(s, id)
          /\ item = id => SomeWritten(s, id)
      BY <3>1, <3>2, EmptyAppend
    <3> QED BY <3>4, <3>5, <3>6
  <2>4. PopsDefault(r, item, Pop(r, item)) \/ \E k \in 1 .. Len(r.blocks) : PopsBlock(r, item, k, Pop(r, item))
    BY <1>1, <2>1, PopType
  <2> QED BY <2>2, <2>3, <2>4
<1> QED BY <1>3, <1>4

(* A name of which all blocks found are empty is written, and only empty.  *)
LEMMA EmptiedByRun ==
  ASSUME NEW t \in Seq(Id \cup {Orphans}), NEW B \in Seq(Blocks(Piece)), NEW a, RunOf(a, t, B, Piece),
         NEW id \in Id,
         \A j \in 1 .. Len(B) : B[j].id = id => B[j].content = <<>>,
         \E j \in 1 .. Len(B) : B[j].id = id,
         \E i \in 1 .. Len(t) : t[i] = id,
         ~ NoDefaultOf(id) => \A i, j \in 1 .. Len(t) : t[i] = id /\ t[j] = id => i = j
  PROVE  EmptyWritten(a[Len(t)], id) /\ SomeWritten(a[Len(t)], id)
<1> DEFINE n == Len(t)
           Has(k) == \E i \in 1 .. k : t[i] = id
           Fine(k) == /\ EmptyLeft(a[k], id) /\ EmptyWritten(a[k], id)
                      /\ IF Has(k) THEN SomeWritten(a[k], id) ELSE SomeLeft(a[k], id)
           T == {k \in 0 .. n : Fine(k)}
<1>1. n \in Nat /\ \A k \in 1 .. n : t[k] \in Id \cup {Orphans} /\ k - 1 \in 0 .. n /\ k \in 0 .. n
  OBVIOUS
<1>2. /\ \A k \in 0 .. n : a[k] \in Runs(Piece)
      /\ a[0] = [text |-> <<>>, blocks |-> B]
      /\ \A k \in 1 .. n : a[k] = Ran(a[k - 1], t[k])
  BY DEF RunOf
<1>3. 0 \in T
  <2>1. 0 \in 0 .. n /\ ~ Has(0)
    BY <1>1
  <2>2. Len(a[0].text) = 0 /\ a[0].blocks = B
    BY <1>2
  <2>3. EmptyWritten(a[0], id)
    BY <2>2 DEF EmptyWritten
  <2>4. EmptyLeft(a[0], id) /\ SomeLeft(a[0], id)
    BY <2>2 DEF EmptyLeft, SomeLeft
  <2> QED BY <2>1, <2>3, <2>4
<1>4. ASSUME NEW k \in 1 .. n, k - 1 \in T PROVE k \in T
  <2>1. /\ Has(k) <=> Has(k - 1) \/ t[k] = id
        /\ t[k] = id => ~ Has(k - 1) \/ NoDefaultOf(id)
    <3>1. \A i \in 1 .. k : i = k \/ i \in 1 .. k - 1
      BY <1>1
    <3>2. \A i \in 1 .. k - 1 : i \in 1 .. n /\ i \in 1 .. k /\ i # k
      BY <1>1
    <3>3. k \in 1 .. k
      BY <1>1
    <3> QED BY <1>1, <3>1, <3>2, <3>3
  <2>2. PICK r \in Runs(Piece) : r = a[k - 1]
    BY <1>1, <1>2
  <2>3. PICK item \in Id \cup {Orphans} : item = t[k]
    BY <1>1
  <2> HIDE DEF Has
  <2>4. EmptyLeft(r, id) /\ EmptyWritten(r, id) /\ IF Has(k - 1) THEN SomeWritten(r, id) ELSE SomeLeft(r, id)
    BY <1>4, <2>2
  <2>5. item = id => SomeLeft(r, id) \/ NoDefaultOf(id)
    BY <2>1, <2>3, <2>4
  <2>6. LET s == Ran(r, item)
        IN  /\ EmptyLeft(s, id) /\ EmptyWritten(s, id)
            /\ item # id /\ SomeLeft(r, id) => SomeLeft(s, id)
            /\ SomeWritten(r, id) => SomeWritten(s, id)
            /\ item = id => SomeWritten(s, id)
    BY <2>4, <2>5, EmptiedStep
  <2>7. a[k] = Ran(r, item)
    BY <1>2, <2>2, <2>3
  <2>8. Fine(k)
    BY <2>1, <2>3, <2>4, <2>6, <2>7
  <2> QED BY <1>1, <2>8
<1> HIDE DEF T
<1>5. n \in T
  <2>1. 0 .. n \subseteq T
    BY <1>1, <1>3, <1>4, StepsReach
  <2>2. n \in 0 .. n
    BY <1>1
  <2> QED BY <2>1, <2>2
<1> QED BY <1>5 DEF T

(* What is no end of a block.                                              *)
Endless == {x \in Token : ~ Ends(x)}

(* Code is no end of a block.                                              *)
LEMMA EndlessFacts ==
  Piece \subseteq Endless /\ Endless \subseteq Token
BY PiecesAreCode DEF Endless

(* All comments of f have one form.                                        *)
LEMMA FormsAlike ==
  ASSUME NEW f, Cardinality(Forms(f)) <= 1
  PROVE  IsFiniteSet(Forms(f)) /\ \A x, y \in Forms(f) : x = y
<1>1. IsFiniteSet(Form)
  <2>1. IsFiniteSet({"icglue"})
    BY FS_Singleton
  <2>2. Form = {"icglue"} \cup {"pragma icglue"}
    BY DEF Form
  <2> QED BY <2>1, <2>2, FS_AddElement
<1>2. IsFiniteSet(Forms(f))
  BY <1>1, FS_Subset DEF Forms
<1>3. Cardinality(Forms(f)) \in Nat
  BY <1>2, FS_CardinalityType
<1>4. Cardinality(Forms(f)) = 0 \/ Cardinality(Forms(f)) = 1
  BY <1>3
<1> QED BY <1>2, <1>4, FS_EmptySet, FS_Singleton

(* What the parser has read of a file with comments of one form.           *)
ReadSoFar(f, s, k) ==
  /\ s.blocks \in Seq(Blocks(Endless))
  /\ s.open # 0 => /\ s.open \in 1 .. k
                   /\ IsBegin(f[s.open], FormOf(f))
                   /\ \A i \in 1 .. Len(f) : s.open < i /\ i <= k => f[i] \in Endless

(* One more token of such a file.                                          *)
LEMMA ReadingStep ==
  ASSUME NEW f \in Seq(Token), Cardinality(Forms(f)) <= 1, NEW k \in 1 .. Len(f), NEW s \in Scans(f),
         ReadSoFar(f, s, k - 1)
  PROVE  ReadSoFar(f, Scanned(f, FormOf(f), k, s), k)
<1> DEFINE S == Scanned(f, FormOf(f), k, s)
           form == FormOf(f)
<1>1. /\ Len(f) \in Nat /\ k \in Nat /\ DOMAIN f = 1 .. Len(f)
      /\ \A i \in 1 .. Len(f) : f[i] \in Token
  OBVIOUS
<1>2. form \in Form
  BY DEF FormOf, Form
<1> HIDE DEF form
<1>3. CASE s.open = 0 /\ IsBegin(f[k], form)
  <2>1. S = [s EXCEPT !.open = k]
    BY <1>3 DEF Scanned, form
  <2>2. S.open = k /\ S.blocks = s.blocks
    BY <2>1 DEF Scans
  <2>3. k \in 1 .. k /\ \A i \in 1 .. Len(f) : ~ (k < i /\ i <= k)
    BY <1>1
  <2> QED BY <1>3, <2>2, <2>3 DEF ReadSoFar, form
<1>4. CASE s.open # 0 /\ IsEnd(f[k], form)
  <2> DEFINE c == SubSeq(f, s.open + 1, k - 1)
             b == Block(f[s.open].id, c)
  <2>1. S = [open |-> 0, blocks |-> Append(s.blocks, b)]
    BY <1>4 DEF Scanned, form
  <2>2. PICK u \in Nat, n \in Nat : u = s.open /\ n = Len(f) /\ 1 <= u /\ u <= k - 1 /\ k <= n
    <3>1. PICK n \in Nat : n = Len(f)
      BY <1>1
    <3>2. s.open \in 1 .. k - 1
      BY <1>4 DEF ReadSoFar
    <3>3. PICK u \in Nat : u = s.open /\ 1 <= u /\ u <= k - 1
      BY <1>1, <3>2
    <3>4. k <= n
      BY <3>1
    <3> QED BY <3>1, <3>3, <3>4
  <2>3. f[u].id \in Id
    <3>1. u \in 1 .. Len(f) /\ Begins(f[u])
      BY <1>4, <2>2 DEF ReadSoFar, IsBegin, Begins
    <3> QED BY <1>1, <3>1, TokenKinds
  <2>4. c \in Seq(Endless)
    <3> DEFINE d == SubSeq(f, u + 1, k - 1)
    <3>1. d \in Seq(Token) /\ Len(d) = (k - 1) - u /\ \A i \in 1 .. (k - 1) - u : d[i] = f[u + i]
      <4>1. PICK v \in Nat, w \in Nat : v = u + 1 /\ w = k - 1 /\ 1 <= v /\ v <= w + 1 /\ w <= Len(f)
        BY <1>1, <2>2
      <4>2. SubSeq(f, v, w) \in Seq(Token) /\ Len(SubSeq(f, v, w)) = w - v + 1
            /\ \A i \in 1 .. w - v + 1 : SubSeq(f, v, w)[i] = f[v + i - 1]
        BY <4>1, SubSeqProperties
      <4>3. d = SubSeq(f, v, w)
        BY <4>1
      <4> HIDE DEF d
      <4>4. w - v + 1 = (k - 1) - u /\ \A i \in Nat : v + i - 1 = u + i
        BY <2>2, <4>1
      <4>5. ASSUME NEW i \in 1 .. (k - 1) - u PROVE d[i] = f[u + i]
        <5>1. i \in Nat /\ i \in 1 .. w - v + 1
          BY <4>4
        <5>2. d[i] = f[v + i - 1]
          BY <4>2, <4>3, <5>1
        <5> QED BY <4>4, <5>1, <5>2
      <4> QED BY <4>2, <4>3, <4>4, <4>5
    <3> HIDE DEF d
    <3>2. ASSUME NEW i \in 1 .. Len(d) PROVE d[i] \in Endless
      <4>1. PICK j \in Nat : j = i /\ 1 <= j /\ j <= (k - 1) - u
        BY <3>1, <3>2
      <4>2. PICK m \in Nat : m = u + i /\ u < m /\ m <= k - 1 /\ m \in 1 .. Len(f) /\ d[i] = f[m]
        <5>1. PICK m \in Nat : m = u + j /\ u < m /\ m <= k - 1
          BY <1>1, <2>2, <4>1
        <5>2. m \in 1 .. n
          BY <1>1, <2>2, <5>1
        <5>3. d[j] = f[u + j]
          BY <3>1, <3>2, <4>1
        <5> QED BY <2>2, <4>1, <5>1, <5>2, <5>3
      <4> QED BY <1>4, <2>2, <4>2 DEF ReadSoFar
    <3>3. d \in Seq(Endless)
      BY <3>1, <3>2
    <3> QED BY <2>2, <3>3 DEF d
  <2>5. b \in Blocks(Endless)
    BY <2>2, <2>3, <2>4 DEF Blocks, Block
  <2>6. s.blocks \in Seq(Blocks(Endless))
    BY DEF ReadSoFar
  <2> HIDE DEF b, S
  <2>7. Append(s.blocks, b) \in Seq(Blocks(Endless))
    BY <2>5, <2>6, AppendFacts
  <2>8. S.open = 0 /\ S.blocks = Append(s.blocks, b)
    BY <2>1
  <2> QED BY <2>7, <2>8 DEF ReadSoFar, S
<1>5. CASE ~ (s.open = 0 /\ IsBegin(f[k], form)) /\ ~ (s.open # 0 /\ IsEnd(f[k], form))
  <2>1. S = s
    BY <1>5 DEF Scanned, form
  <2>2. CASE s.open = 0
    BY <2>1, <2>2 DEF ReadSoFar
  <2>3. CASE s.open # 0
    <3>1. s.open \in 1 .. k - 1 /\ IsBegin(f[s.open], form)
      BY <2>3 DEF ReadSoFar, form
    <3>2. form \in Forms(f)
      BY <1>1, <1>2, <3>1 DEF Forms
    <3>3. ~ Ends(f[k])
      <4>1. ASSUME Ends(f[k]) PROVE FALSE
        <5>1. f[k].end \in Form /\ IsEnd(f[k], f[k].end)
          BY <1>1, <4>1, TokenKinds DEF IsEnd, Ends
        <5>2. f[k].end \in Forms(f)
          BY <1>1, <5>1 DEF Forms
        <5>3. f[k].end = form
          BY <3>2, <5>2, FormsAlike
        <5> QED BY <1>5, <2>3, <5>1, <5>3
      <4> QED BY <4>1
    <3>4. f[k] \in Endless
      BY <1>1, <3>3 DEF Endless
    <3>5. \A i \in 1 .. Len(f) : s.open < i /\ i <= k => f[i] \in Endless
      <4>1. \A i \in 1 .. Len(f) : i <= k => i = k \/ i <= k - 1
        BY <1>1
      <4> QED BY <2>3, <3>4, <4>1 DEF ReadSoFar
    <3>6. s.open \in 1 .. k
      BY <1>1, <3>1
    <3> QED BY <2>1, <3>1, <3>5, <3>6 DEF ReadSoFar, form
  <2> QED BY <2>2, <2>3
<1> QED BY <1>3, <1>4, <1>5

(* A block found in such a file has no end of a block inside.              *)
LEMMA ParsedEndless ==
  ASSUME NEW f \in Seq(Token), Cardinality(Forms(f)) <= 1
  PROVE  ParseKeepBlocks(f).blocks \in Seq(Blocks(Endless))
<1> DEFINE n == Len(f)
<1>1. n \in Nat
  OBVIOUS
<1>2. PICK a : Scan(a, f) /\ ParseKeepBlocks(f) = a[n]
  BY ParsedStepByStep
<1> DEFINE T == {k \in 0 .. n : ReadSoFar(f, a[k], k)}
<1>3. 0 \in T
  <2>1. a[0].open = 0 /\ a[0].blocks = <<>>
    BY <1>2 DEF Scan
  <2>2. <<>> \in Seq(Blocks(Endless))
    OBVIOUS
  <2>3. ReadSoFar(f, a[0], 0)
    BY <2>1, <2>2 DEF ReadSoFar
  <2> QED BY <1>1, <2>3
<1>4. ASSUME NEW k \in 1 .. n, k - 1 \in T PROVE k \in T
  <2>1. k \in 0 .. n /\ k - 1 \in 0 .. n
    BY <1>1
  <2>2. PICK s \in Scans(f) : s = a[k - 1]
    BY <1>2, <2>1 DEF Scan
  <2>3. ReadSoFar(f, s, k - 1)
    BY <1>4, <2>2
  <2>4. a[k] = Scanned(f, FormOf(f), k, s)
    BY <1>2, <2>2 DEF Scan
  <2>5. ReadSoFar(f, a[k], k)
    BY <2>3, <2>4, ReadingStep
  <2> QED BY <2>1, <2>5
<1> HIDE DEF T
<1>5. n \in T
  <2>1. 0 .. n \subseteq T
    BY <1>1, <1>3, <1>4, StepsReach
  <2>2. n \in 0 .. n
    BY <1>1
  <2> QED BY <2>1, <2>2
<1> QED BY <1>2, <1>5 DEF T, ReadSoFar

(* A block that begins with "pragma" does not end in a file without such   *)
(* an end.                                                                 *)
PragmaBegin(t) == IsBegin(t, "pragma icglue")
PragmaEnd(t)   == IsEnd(t, "pragma icglue")
Unended(f)     == \A i \in 1 .. Len(f) : ~ PragmaEnd(f[i])

(* Such a block stays open, which is an error.                             *)
LEMMA ParsedUnended ==
  ASSUME NEW f \in Seq(Token), Unended(f), NEW b \in 1 .. Len(f), PragmaBegin(f[b])
  PROVE  ParseKeepBlocks(f).open # 0
<1> DEFINE n == Len(f)
<1>1. n \in Nat /\ b \in DOMAIN f
  OBVIOUS
<1>2. PICK a : Scan(a, f) /\ ParseKeepBlocks(f) = a[n]
  BY ParsedStepByStep
<1>3. FormOf(f) = "pragma icglue"
  <2>1. \E i \in DOMAIN f : PragmaBegin(f[i])
    BY <1>1
  <2> QED BY <2>1 DEF FormOf, PragmaBegin
<1>4. /\ \A t : IsBegin(t, FormOf(f)) <=> PragmaBegin(t)
      /\ \A t : IsEnd(t, FormOf(f)) <=> PragmaEnd(t)
  BY <1>3 DEF PragmaBegin, PragmaEnd
<1> DEFINE T == {k \in 0 .. n : b <= k => a[k].open # 0}
<1>5. 0 \in T
  BY <1>1
<1>6. ASSUME NEW k \in 1 .. n, k - 1 \in T PROVE k \in T
  <2>1. k \in 0 .. n /\ k - 1 \in 0 .. n /\ k # 0
    BY <1>1
  <2>2. PICK s \in Scans(f) : s = a[k - 1]
    BY <1>2, <2>1 DEF Scan
  <2>3. a[k] = Scanned(f, FormOf(f), k, s)
    BY <1>2, <2>2 DEF Scan
  <2>4. ~ IsEnd(f[k], FormOf(f))
    BY <1>4 DEF Unended
  <2>5. s.open # 0 => a[k] = s
    BY <2>3, <2>4 DEF Scanned
  <2>6. s.open = 0 /\ IsBegin(f[k], FormOf(f)) => a[k].open = k
    <3>1. ASSUME s.open = 0, IsBegin(f[k], FormOf(f)) PROVE a[k].open = k
      <4>1. a[k] = [s EXCEPT !.open = k]
        BY <2>3, <3>1 DEF Scanned
      <4> QED BY <4>1 DEF Scans
    <3> QED BY <3>1
  <2>7. ASSUME b <= k PROVE a[k].open # 0
    <3>1. CASE b = k
      BY <1>4, <2>1, <2>5, <2>6, <3>1
    <3>2. CASE b # k
      <4>1. b <= k - 1
        BY <1>1, <2>7, <3>2
      <4>2. s.open # 0
        BY <1>6, <2>2, <4>1
      <4> QED BY <2>5, <4>2
    <3> QED BY <3>1, <3>2
  <2> QED BY <2>1, <2>7
<1> HIDE DEF T
<1>7. n \in T
  <2>1. 0 .. n \subseteq T
    BY <1>1, <1>5, <1>6, StepsReach
  <2>2. n \in 0 .. n
    BY <1>1
  <2> QED BY <2>1, <2>2
<1>8. b <= n
  BY <1>1
<1> QED BY <1>2, <1>7, <1>8 DEF T

(* A file has comments of one form, or those with "pragma" begin a block   *)
(* that has no end: a template writes the ends of blocks without it.       *)
KeepInv(f) == f \in Seq(Token) /\ (Cardinality(Forms(f)) <= 1 \/ Unended(f))

(* Forms within one are at most one.                                       *)
LEMMA OneFormOnly ==
  ASSUME NEW f, NEW x, Forms(f) \subseteq {x}
  PROVE  Cardinality(Forms(f)) <= 1
<1>1. IsFiniteSet({x}) /\ Cardinality({x}) = 1
  BY FS_Singleton
<1> QED BY <1>1, FS_Subset

(* A file that is parsed without an error has comments of one form.        *)
LEMMA ParsedForms ==
  ASSUME NEW f, KeepInv(f), ParseKeepBlocks(f).open = 0
  PROVE  Cardinality(Forms(f)) <= 1
<1>1. f \in Seq(Token) /\ DOMAIN f = 1 .. Len(f)
  BY DEF KeepInv
<1>2. CASE Unended(f)
  <2>1. \A i \in DOMAIN f : ~ PragmaBegin(f[i]) /\ ~ PragmaEnd(f[i])
    BY <1>1, <1>2, ParsedUnended DEF Unended
  <2>2. Forms(f) \subseteq {"icglue"}
    BY <2>1 DEF Forms, Form, PragmaBegin, PragmaEnd
  <2> QED BY <2>2, OneFormOnly
<1> QED BY <1>2 DEF KeepInv

(* The end of a block is written without "pragma".                         *)
LEMMA FormatUnended ==
  ASSUME NEW b \in Blocks(Endless), NEW i \in 1 .. Len(Format(b))
  PROVE  ~ PragmaEnd(Format(b)[i])
<1> DEFINE t == Format(b)
           n == Len(b.content)
<1>1. /\ b.content \in Seq(Endless) /\ n \in Nat
      /\ t \in Seq(Token) /\ Len(t) = n + 2
      /\ t[1] = [begin |-> "icglue", id |-> b.id]
      /\ t[n + 2] = [end |-> "icglue"]
      /\ \A j \in 1 .. n : t[j + 1] = b.content[j]
  BY EndlessFacts, FormatFacts
<1>2. \A j \in 1 .. n : b.content[j] \in Endless
  BY <1>1
<1>3. i \in 1 .. Len(t)
  OBVIOUS
<1> HIDE DEF t, n
<1>4. i = 1 \/ i = n + 2 \/ (i - 1 \in 1 .. n /\ (i - 1) + 1 = i)
  BY <1>1, <1>3
<1>5. CASE i - 1 \in 1 .. n /\ (i - 1) + 1 = i
  <2>1. t[i] \in Endless
    BY <1>1, <1>2, <1>5
  <2> QED BY <2>1 DEF Endless, Ends, PragmaEnd, IsEnd, t
<1>6. CASE i = 1
  <2>1. "end" \notin DOMAIN t[1]
    BY <1>1
  <2> QED BY <1>6, <2>1 DEF PragmaEnd, IsEnd, t
<1>7. CASE i = n + 2
  <2>1. t[n + 2].end = "icglue"
    BY <1>1
  <2> QED BY <1>7, <2>1 DEF PragmaEnd, IsEnd, t
<1> QED BY <1>4, <1>5, <1>6, <1>7

(* A generated file has no end of a block with "pragma".                   *)
LEMMA GeneratedUnended ==
  ASSUME NEW t \in Templates, NEW B \in Seq(Blocks(Endless))
  PROVE  RunTemplate(t, B) \in Seq(Token) /\ Unended(RunTemplate(t, B))
<1>1. t \in Seq(Id \cup {Orphans})
  BY KeepAssumption
<1>2. PICK a : RunOf(a, t, B, Endless) /\ RunTemplate(t, B) = FlattenSeq(a[Len(t)].text)
  BY <1>1, EndlessFacts, RunStepByStep
<1>3. PICK p \in Seq(Texts(Endless)) : p = a[Len(t)].text
  <2>1. Len(t) \in 0 .. Len(t)
    BY <1>1
  <2> QED BY <1>2, <2>1 DEF RunOf, Runs
<1>4. \A k \in 1 .. Len(p) : p[k] \in Texts(Endless)
  OBVIOUS
<1>5. p \in Seq(Seq(Token))
  <2>1. Texts(Endless) \subseteq Seq(Token)
    BY EndlessFacts, TextsType
  <2> QED BY <2>1
<1>6. PICK F : Flat(F, p) /\ FlattenSeq(p) = F[Len(p)]
  BY <1>5, FlattenedStepByStep
<1>7. PICK T : T = F[Len(p)] /\ T \in Seq(Token)
  <2>1. Len(p) \in 0 .. Len(p)
    OBVIOUS
  <2> QED BY <1>6, <2>1 DEF Flat
<1>8. Unended(T)
  <2>1. ASSUME NEW x \in 1 .. Len(T) PROVE ~ PragmaEnd(T[x])
    <3>1. Places(F, p, Len(p))
      BY <1>5, <1>6, FlatPlaces
    <3>2. PICK k \in 1 .. Len(p) : \E i \in 1 .. Len(p[k]) : x = Len(F[k - 1]) + i
      BY <1>7, <2>1, <3>1 DEF Places
    <3>3. PICK i \in 1 .. Len(p[k]) : x = Len(F[k - 1]) + i
      BY <3>2
    <3>4. T[x] = p[k][i]
      BY <1>7, <3>1, <3>3 DEF Places
    <3>5. p[k] # <<>>
      BY <3>3
    <3>6. PICK b \in Blocks(Endless) : p[k] = Format(b)
      BY <1>4, <3>5 DEF Texts
    <3> QED BY <3>3, <3>4, <3>6, FormatUnended
  <2> QED BY <2>1 DEF Unended
<1> QED BY <1>2, <1>3, <1>6, <1>7, <1>8

(* A template lists the orphaned blocks, and asks once for a block that it *)
(* has a default for.                                                      *)
ListsOrphans(t) == \E i \in 1 .. Len(t) : t[i] = Orphans
AsksOnce(t) ==
  \A i, j \in 1 .. Len(t) : t[i] \in Id /\ t[i] = t[j] /\ ~ NoDefaultOf(t[i]) => i = j

(* The tokens of f.                                                        *)
TokensOf(f) == {f[i] : i \in 1 .. Len(f)}

(* A file made of the tokens of another has no other forms.                *)
LEMMA FewerForms ==
  ASSUME NEW f \in Seq(Token), NEW g \in Seq(TokensOf(f))
  PROVE  /\ g \in Seq(Token)
         /\ Forms(g) \subseteq Forms(f)
         /\ Unended(f) => Unended(g)
<1>1. \A i \in 1 .. Len(g) : \E j \in 1 .. Len(f) : g[i] = f[j]
  BY DEF TokensOf
<1>2. DOMAIN f = 1 .. Len(f) /\ DOMAIN g = 1 .. Len(g)
  OBVIOUS
<1>3. TokensOf(f) \subseteq Token
  BY DEF TokensOf
<1> QED BY <1>1, <1>2, <1>3 DEF Forms, Unended

(* What a user inserts becomes an element.                                 *)
LEMMA InsertType ==
  ASSUME NEW S, NEW s \in Seq(S), NEW k \in 1 .. Len(s) + 1, NEW x \in S
  PROVE  InsertAt(s, k, x) \in Seq(S)
<1> DEFINE a == SubSeq(s, 1, k - 1)
           b == SubSeq(s, k, Len(s))
<1>1. PICK n \in Nat, m \in Nat : n = Len(s) /\ m = k /\ 1 <= m /\ m <= n + 1
  OBVIOUS
<1>2. a \in Seq(S) /\ b \in Seq(S) /\ <<x>> \in Seq(S)
  BY <1>1, SubSeqProperties
<1> HIDE DEF a, b
<1>3. InsertAt(s, k, x) = a \o <<x>> \o b
  BY DEF InsertAt, a, b
<1> QED BY <1>2, <1>3, ConcatFacts

(* Generating a file and editing it keep the invariant.                    *)
LEMMA KeepInvStep ==
  ASSUME ~ MixForms, KeepInv(file), [KeepNext]_keepVars
  PROVE  KeepInv(file')
<1>1. file \in Seq(Token)
  BY DEF KeepInv
<1>2. ASSUME NEW t \in Templates, Generate(t) PROVE KeepInv(file')
  <2>1. ParseKeepBlocks(file).open = 0 /\ file' = RunTemplate(t, ParseKeepBlocks(file).blocks)
    BY <1>2 DEF Generate
  <2>2. Cardinality(Forms(file)) <= 1
    BY <2>1, ParsedForms
  <2>3. ParseKeepBlocks(file).blocks \in Seq(Blocks(Endless))
    BY <1>1, <2>2, ParsedEndless
  <2> QED BY <2>1, <2>3, GeneratedUnended DEF KeepInv
<1>3. ASSUME NEW t \in Templates, GenerateFails(t) PROVE KeepInv(file')
  BY <1>3 DEF GenerateFails, keepVars
<1>4. ASSUME NEW k \in 1 .. Len(file) + 1, NEW t \in Token, Insert(k, t) PROVE KeepInv(file')
  <2> DEFINE g == Append(file, t)
  <2>1. /\ g \in Seq(Token) /\ Len(file) \in Nat /\ Len(g) = Len(file) + 1 /\ g[Len(file) + 1] = t
        /\ \A i \in 1 .. Len(file) : g[i] = file[i]
        /\ 1 .. Len(file) + 1 = (1 .. Len(file)) \cup {Len(file) + 1}
    BY <1>1, AppendFacts
  <2>2. Cardinality(Forms(g)) <= 1 /\ file' = InsertAt(file, k, t)
    BY <1>4 DEF Insert
  <2> HIDE DEF g
  <2>3. t \in TokensOf(g) /\ \A i \in 1 .. Len(file) : file[i] \in TokensOf(g)
    BY <2>1 DEF TokensOf
  <2>4. file \in Seq(TokensOf(g))
    BY <1>1, <2>3
  <2>5. file' \in Seq(TokensOf(g))
    BY <2>2, <2>3, <2>4, InsertType
  <2>6. file' \in Seq(Token) /\ Forms(file') \subseteq Forms(g)
    BY <2>1, <2>5, FewerForms
  <2>7. Cardinality(Forms(file')) <= 1
    <3>1. \A x, y \in Forms(g) : x = y
      BY <2>2, FormsAlike
    <3>2. \E x : Forms(file') \subseteq {x}
      <4>1. CASE Forms(g) = {}
        BY <2>6, <4>1
      <4>2. CASE Forms(g) # {}
        BY <2>6, <3>1, <4>2
      <4> QED BY <4>1, <4>2
    <3> QED BY <3>2, OneFormOnly
  <2> QED BY <2>6, <2>7 DEF KeepInv
<1>5. ASSUME NEW k \in DOMAIN file, Delete(k) PROVE KeepInv(file')
  <2>1. file' = RemoveAt(file, k) /\ k \in 1 .. Len(file)
    BY <1>1, <1>5 DEF Delete
  <2>2. file \in Seq(TokensOf(file))
    BY <1>1 DEF TokensOf
  <2>3. file' \in Seq(TokensOf(file))
    BY <2>1, <2>2, RemoveAtFacts
  <2>4. /\ file' \in Seq(Token) /\ Forms(file') \subseteq Forms(file)
        /\ Unended(file) => Unended(file')
    BY <1>1, <2>3, FewerForms
  <2>5. CASE Unended(file)
    BY <2>4, <2>5 DEF KeepInv
  <2>6. CASE Cardinality(Forms(file)) <= 1
    <3>1. \A x, y \in Forms(file) : x = y
      BY <2>6, FormsAlike
    <3>2. \E x : Forms(file') \subseteq {x}
      <4>1. CASE Forms(file) = {}
        BY <2>4, <4>1
      <4>2. CASE Forms(file) # {}
        BY <2>4, <3>1, <4>2
      <4> QED BY <4>1, <4>2
    <3> QED BY <2>4, <3>2, OneFormOnly DEF KeepInv
  <2> QED BY <2>5, <2>6 DEF KeepInv
<1>6. CASE UNCHANGED keepVars
  BY <1>6 DEF keepVars
<1> QED BY <1>2, <1>3, <1>4, <1>5, <1>6 DEF KeepNext, Edit

(* The file of an earlier version has comments of one form.                *)
LEMMA KeepInvInit ==
  ASSUME KeepInit
  PROVE  KeepInv(file)
<1>1. CASE file = <<>>
  <2>1. Forms(file) = {}
    BY <1>1 DEF Forms
  <2>2. Forms(file) \subseteq {"icglue"}
    BY <2>1
  <2> QED BY <1>1, <2>2, OneFormOnly DEF KeepInv
<1>2. ASSUME NEW form \in Form, NEW i \in Id, file = <<[begin |-> form, id |-> i], [end |-> form]>>
      PROVE  KeepInv(file)
  <2>1. PICK x \in Token : x = [begin |-> form, id |-> i]
    BY DEF Token
  <2>2. PICK y \in Token : y = [end |-> form]
    BY DEF Token
  <2>3. file = <<x, y>>
    BY <1>2, <2>1, <2>2
  <2>4. file \in Seq(Token) /\ DOMAIN file = {1, 2} /\ file[1] = x /\ file[2] = y
    BY <2>3
  <2>5. /\ \A z : IsBegin(x, z) => z = form
        /\ \A z : ~ IsEnd(x, z)
        /\ \A z : IsEnd(y, z) => z = form
        /\ \A z : ~ IsBegin(y, z)
    BY <2>1, <2>2 DEF IsBegin, IsEnd
  <2>6. Forms(file) \subseteq {form}
    BY <2>4, <2>5 DEF Forms
  <2> QED BY <2>4, <2>6, OneFormOnly DEF KeepInv
<1> QED BY <1>1, <1>2 DEF KeepInit

(* The blocks found in a well-formed file contain code only.               *)
LEMMA ParsedCode ==
  ASSUME NEW f \in Seq(Token), NEW B \in Seq(Blocks(Token)), Found(f, B, KeepBlock(f))
  PROVE  B \in Seq(Blocks(Piece))
<1>1. PICK J \in [KeepBlock(f) -> 1 .. Len(B)] :
        /\ \A p \in KeepBlock(f) : B[J[p]] = Block(f[p[1]].id, Content(f, p))
        /\ \A j \in 1 .. Len(B) : \E p \in KeepBlock(f) : J[p] = j
  BY DEF Found, FoundAt
<1>2. ASSUME NEW j \in 1 .. Len(B) PROVE B[j] \in Blocks(Piece)
  <2>1. PICK p \in KeepBlock(f) : B[j] = Block(f[p[1]].id, Content(f, p))
    BY <1>1
  <2>2. PICK b \in Nat, e \in Nat, n \in Nat :
          b = p[1] /\ e = p[2] /\ n = Len(f) /\ 1 <= b /\ b < e /\ e <= n
    <3>1. PICK n \in Nat : n = Len(f)
      OBVIOUS
    <3>2. p[1] \in 1 .. n /\ p[2] \in 1 .. n /\ p[1] < p[2]
      BY <3>1, KeepBlockFacts
    <3>3. PICK b \in 1 .. n, e \in 1 .. n : b = p[1] /\ e = p[2]
      BY <3>2
    <3>4. b \in Nat /\ e \in Nat /\ 1 <= b /\ b < e /\ e <= n
      BY <3>2, <3>3
    <3> QED BY <3>1, <3>3, <3>4
  <2>3. \A i \in 1 .. n : b < i /\ i < e => Codes(f[i])
    BY <2>2, KeepBlockFacts
  <2> DEFINE c == SubSeq(f, b + 1, e - 1)
  <2>4. Content(f, p) = c
    BY <2>2 DEF Content
  <2>5. c \in Seq(Token)
    BY <2>2, SubSeqProperties
  <2>6. Len(c) = (e - 1) - (b + 1) + 1 /\ \A i \in 1 .. Len(c) : c[i] = f[(b + 1) + i - 1]
    <3>1. PICK v \in Nat, w \in Nat : v = b + 1 /\ w = e - 1 /\ 1 <= v /\ v <= w + 1 /\ w <= Len(f)
      BY <2>2
    <3>2. /\ Len(SubSeq(f, v, w)) = w - v + 1
          /\ \A i \in 1 .. w - v + 1 : SubSeq(f, v, w)[i] = f[v + i - 1]
      BY <3>1, SubSeqProperties
    <3> QED BY <3>1, <3>2
  <2> HIDE DEF c
  <2>7. ASSUME NEW i \in 1 .. Len(c) PROVE c[i] \in Piece
    <3>1. PICK j1 \in Nat, l \in Nat : j1 = i /\ l = Len(c) /\ 1 <= j1 /\ j1 <= l /\ l = (e - 1) - (b + 1) + 1
      BY <2>5, <2>6
    <3>2. PICK x \in Nat : x = (b + 1) + j1 - 1
      BY <2>2, <3>1
    <3>3. b < x /\ x < e /\ x \in 1 .. n
      <4>1. x = b + j1 /\ l = e - b - 1
        BY <3>1, <3>2
      <4>2. b < x /\ x < e
        BY <3>1, <4>1
      <4>3. x <= n /\ 1 <= x
        BY <2>2, <4>2
      <4> QED BY <4>2, <4>3
    <3>4. c[i] = f[x] /\ Codes(f[x]) /\ f[x] \in Token
      BY <2>2, <2>3, <2>6, <3>1, <3>2, <3>3
    <3> QED BY <3>4, TokenKinds
  <2>8. c \in Seq(Piece)
    BY <2>5, <2>7
  <2>9. f[p[1]].id \in Id
    <3>1. p[1] \in 1 .. Len(f) /\ Begins(f[p[1]])
      BY KeepBlockFacts
    <3> QED BY <3>1, TokenKinds
  <2> QED BY <2>1, <2>4, <2>8, <2>9 DEF Blocks, Block
<1> QED BY <1>2

(* One run of generate_template_output keeps what a user wrote.            *)
LEMMA UserCodeStep ==
  ASSUME KeepInv(file), NEW t \in Templates, Generate(t), WellFormed(file), ListsOrphans(t), AsksOnce(t),
         NEW id \in Id
  PROVE  /\ \A c \in Contents(file, id) \ {<<>>} : Copies(file', id, c) >= Copies(file, id, c)
         /\ Contents(file, id) = {<<>>} /\ id \in Range(t) => Contents(file', id) = {<<>>}
<1> DEFINE B == ParseKeepBlocks(file).blocks
<1>1. file \in Seq(Token) /\ ParseKeepBlocks(file).open = 0 /\ file' = RunTemplate(t, B)
  BY DEF KeepInv, Generate
<1>2. Marked(file)
  BY <1>1, ParsedForms, OneForm
<1>3. B \in Seq(Blocks(Token)) /\ Found(file, B, KeepBlock(file))
  BY <1>1, <1>2, ParsedAreKeepBlocks
<1>4. B \in Seq(Blocks(Piece))
  BY <1>1, <1>3, ParsedCode
<1> HIDE DEF B
<1>5. t \in Seq(Id \cup {Orphans}) /\ Piece \subseteq Token
  BY KeepAssumption, PiecesAreCode
<1>6. PICK a : RunOf(a, t, B, Piece) /\ file' = FlattenSeq(a[Len(t)].text)
  BY <1>1, <1>4, <1>5, RunStepByStep
<1>7. PICK p \in Seq(Texts(Piece)) : p = a[Len(t)].text
  <2>1. Len(t) \in 0 .. Len(t)
    BY <1>5
  <2> QED BY <1>6, <2>1 DEF RunOf, Runs
<1>8. p \in Seq(Seq(Token)) /\ \A k \in 1 .. Len(p) : p[k] \in Texts(Piece)
  <2>1. Texts(Piece) \subseteq Seq(Token)
    BY <1>5, TextsType
  <2> QED BY <2>1
<1>9. PICK F : Flat(F, p) /\ file' = F[Len(p)]
  BY <1>6, <1>7, <1>8, FlattenedStepByStep
<1>10. ASSUME NEW c \in Contents(file, id), c # <<>>
       PROVE  Copies(file', id, c) >= Copies(file, id, c)
  <2> DEFINE e == Block(id, c)
  <2>1. e \in Blocks(Piece) /\ e.id = id /\ e.content = c
    <3>1. PICK q \in KeepBlock(file) : Content(file, q) = c /\ file[q[1]].id = id
      BY DEF Contents
    <3>2. PICK j \in 1 .. Len(B) : B[j] = Block(file[q[1]].id, Content(file, q))
      BY <1>3 DEF Found, FoundAt
    <3>3. B[j] = e /\ B[j] \in Blocks(Piece)
      BY <1>4, <3>1, <3>2
    <3> QED BY <3>3 DEF Block
  <2>2. Copies(file, id, c) <= HowOften(B, e) /\ Copies(file, id, c) \in Nat
    BY <1>1, <1>3, CopiesInFile
  <2> HIDE DEF e
  <2>3. HowOften(a[Len(t)].text, Format(e)) >= HowOften(B, e)
    BY <1>4, <1>5, <1>6, <1>10, <2>1, KeptByRun DEF ListsOrphans
  <2>4. Copies(file', id, c) >= HowOften(p, Format(e)) /\ Copies(file', id, c) \in Nat
    BY <1>8, <1>9, <2>1, CopiesInText
  <2>5. HowOften(B, e) \in Nat /\ HowOften(p, Format(e)) \in Nat
    BY <1>4, <1>8, SpotsFinite
  <2>6. HowOften(p, Format(e)) >= HowOften(B, e)
    BY <1>7, <2>3
  <2> QED BY <2>2, <2>4, <2>5, <2>6
<1>11. ASSUME Contents(file, id) = {<<>>}, id \in Range(t)
       PROVE  Contents(file', id) = {<<>>}
  <2>1. \A j \in 1 .. Len(B) : B[j].id = id => B[j].content = <<>>
    <3>1. ASSUME NEW j \in 1 .. Len(B), B[j].id = id PROVE B[j].content = <<>>
      <4>1. PICK q \in KeepBlock(file) : B[j] = Block(file[q[1]].id, Content(file, q))
        BY <1>3 DEF Found, FoundAt
      <4>2. file[q[1]].id = id /\ B[j].content = Content(file, q)
        BY <3>1, <4>1 DEF Block
      <4>3. Content(file, q) \in Contents(file, id)
        BY <4>2 DEF Contents
      <4> QED BY <1>11, <4>2, <4>3
    <3> QED BY <3>1
  <2>2. \E j \in 1 .. Len(B) : B[j].id = id
    <3>1. PICK q \in KeepBlock(file) : file[q[1]].id = id
      BY <1>11 DEF Contents
    <3>2. PICK j \in 1 .. Len(B) : B[j] = Block(file[q[1]].id, Content(file, q))
      BY <1>3 DEF Found, FoundAt
    <3> QED BY <3>1, <3>2 DEF Block
  <2>3. \E i \in 1 .. Len(t) : t[i] = id
    BY <1>5, <1>11 DEF Range
  <2>4. ~ NoDefaultOf(id) => \A i, j \in 1 .. Len(t) : t[i] = id /\ t[j] = id => i = j
    BY DEF AsksOnce
  <2>5. EmptyWritten(a[Len(t)], id) /\ SomeWritten(a[Len(t)], id)
    BY <1>4, <1>5, <1>6, <2>1, <2>2, <2>3, <2>4, EmptiedByRun
  <2>6. ASSUME NEW x \in Contents(file', id) PROVE x = <<>>
    <3>1. PICK q \in KeepBlock(file') : Content(file', q) = x /\ file'[q[1]].id = id
      BY DEF Contents
    <3>2. PICK k \in 1 .. Len(p), b \in Blocks(Piece) : p[k] = Format(b) /\ q = PieceAt(F, k)
      BY <1>8, <1>9, TextBlocksOnly
    <3>3. file'[q[1]].id = b.id /\ Content(file', q) = b.content
      BY <1>8, <1>9, <3>2, TextBlock
    <3> QED BY <1>7, <2>5, <3>1, <3>2, <3>3 DEF EmptyWritten
  <2>7. <<>> \in Contents(file', id)
    <3>1. PICK k \in 1 .. Len(p) : p[k] = Format(Block(id, <<>>))
      BY <1>7, <2>5 DEF SomeWritten
    <3>2. Block(id, <<>>) \in Blocks(Piece)
      BY DEF Blocks, Block
    <3>3. PICK b \in Blocks(Piece) : b = Block(id, <<>>)
      BY <3>2
    <3>4. LET q == PieceAt(F, k)
          IN  q \in KeepBlock(file') /\ file'[q[1]].id = b.id /\ Content(file', q) = b.content
      BY <1>8, <1>9, <3>1, <3>3, TextBlock
    <3>5. b.id = id /\ b.content = <<>>
      BY <3>3 DEF Block
    <3> QED BY <3>4, <3>5 DEF Contents
  <2> QED BY <2>6, <2>7
<1> QED BY <1>10, <1>11

(* Whatever a user edits and however often the file is generated again     *)
(* (parse_keep_blocks, pop_keep_block_content and                          *)
(* remaining_keep_block_contents, in generate_template_output): the code   *)
(* in the blocks of a well-formed file is kept, under its name and as      *)
(* often as it was there, and an emptied block stays empty.  This is of    *)
(* files with comments of one form and of templates that list the orphaned *)
(* blocks and ask once for a block they have a default for; none of the    *)
(* three can be left out.                                                  *)
THEOREM KeepUserCode ==
  ASSUME ~ MixForms, \A t \in Templates : ListsOrphans(t) /\ AsksOnce(t)
  PROVE  KeepSpec => UserCodeKept
<1> DEFINE Kept == \A t \in Templates :
             Generate(t) /\ WellFormed(file) =>
               \A id \in Id :
                 /\ \A c \in Contents(file, id) \ {<<>>} :
                      Copies(file', id, c) >= Copies(file, id, c)
                 /\ Contents(file, id) = {<<>>} /\ id \in Range(t) => Contents(file', id) = {<<>>}
           Good == KeepInv(file)
<1>1. KeepInit => Good
  BY KeepInvInit
<1>2. Good /\ [KeepNext]_keepVars => Good'
  BY KeepInvStep
<1>3. Good /\ [KeepNext]_keepVars => [Kept]_keepVars
  <2> SUFFICES ASSUME Good PROVE Kept
    OBVIOUS
  <2> QED BY UserCodeStep
<1>4. UserCodeKept <=> [][Kept]_keepVars
  BY DEF UserCodeKept
<1> HIDE DEF Kept, Good
<1>5. KeepInit /\ [][KeepNext]_keepVars => [][Kept]_keepVars
  BY <1>1, <1>2, <1>3, PTL
<1> QED BY <1>4, <1>5 DEF KeepSpec

(* The tokens of f behind u are those of the formatted block b.            *)
FormattedAt(f, u, b) ==
  \A i \in 1 .. Len(Format(b)) : u + i \in 1 .. Len(f) /\ f[u + i] = Format(b)[i]

(* A formatted block in a file: begin, content, end.                       *)
LEMMA FormattedContent ==
  ASSUME NEW f \in Seq(Token), NEW u \in Nat, NEW b \in Blocks(Endless), FormattedAt(f, u, b)
  PROVE  \E n \in Nat :
           /\ n = Len(b.content) /\ Len(Format(b)) = n + 2
           /\ u + 1 \in 1 .. Len(f) /\ f[u + 1] = [begin |-> "icglue", id |-> b.id]
           /\ u + n + 2 \in 1 .. Len(f) /\ f[u + n + 2] = [end |-> "icglue"]
           /\ \A i \in 1 .. n : u + i + 1 \in 1 .. Len(f) /\ f[u + i + 1] \in Endless
           /\ SubSeq(f, u + 2, u + n + 1) = b.content
<1> DEFINE t == Format(b)
<1>1. PICK n \in Nat :
        /\ n = Len(b.content) /\ b.content \in Seq(Endless)
        /\ Len(t) = n + 2 /\ t[1] = [begin |-> "icglue", id |-> b.id] /\ t[n + 2] = [end |-> "icglue"]
        /\ \A i \in 1 .. n : t[i + 1] = b.content[i]
  BY EndlessFacts, FormatFacts
<1>2. \A i \in 1 .. n + 2 : u + i \in 1 .. Len(f) /\ f[u + i] = t[i]
  BY <1>1 DEF FormattedAt
<1> HIDE DEF t
<1>3. 1 \in 1 .. n + 2 /\ n + 2 \in 1 .. n + 2 /\ u + (n + 2) = u + n + 2
  OBVIOUS
<1>4. /\ u + 1 \in 1 .. Len(f) /\ f[u + 1] = [begin |-> "icglue", id |-> b.id]
      /\ u + n + 2 \in 1 .. Len(f) /\ f[u + n + 2] = [end |-> "icglue"]
  BY <1>1, <1>2, <1>3
<1>5. ASSUME NEW i \in 1 .. n PROVE u + i + 1 \in 1 .. Len(f) /\ f[u + i + 1] = b.content[i]
  <2>1. i + 1 \in 1 .. n + 2 /\ u + (i + 1) = u + i + 1
    OBVIOUS
  <2> QED BY <1>1, <1>2, <2>1
<1>6. \A i \in 1 .. n : b.content[i] \in Endless
  BY <1>1
<1>7. SubSeq(f, u + 2, u + n + 1) = b.content
  <2>1. PICK v \in Nat, w \in Nat, m \in Nat :
          /\ v = u + 2 /\ w = u + n + 1 /\ m = Len(f)
          /\ 1 <= v /\ v <= w + 1 /\ w <= m /\ w - v + 1 = n
    <3>1. PICK m \in Nat : m = Len(f)
      OBVIOUS
    <3>2. u + n + 2 \in 1 .. m
      BY <1>4, <3>1
    <3>3. PICK v \in Nat, w \in Nat : v = u + 2 /\ w = u + n + 1
      OBVIOUS
    <3>4. 1 <= v /\ v <= w + 1 /\ w <= m /\ w - v + 1 = n
      BY <3>2, <3>3
    <3> QED BY <3>1, <3>3, <3>4
  <2>2. /\ SubSeq(f, v, w) \in Seq(Token) /\ Len(SubSeq(f, v, w)) = w - v + 1
        /\ \A i \in 1 .. w - v + 1 : SubSeq(f, v, w)[i] = f[v + i - 1]
    BY <2>1, SubSeqProperties
  <2>3. ASSUME NEW i \in 1 .. n PROVE SubSeq(f, v, w)[i] = b.content[i]
    <3>1. v + i - 1 = u + i + 1
      BY <2>1
    <3> QED BY <1>5, <2>1, <2>2, <3>1
  <2> DEFINE c == SubSeq(f, v, w)
             d == b.content
  <2>4. c \in Seq(Token) /\ d \in Seq(Token) /\ Len(c) = Len(d) /\ \A i \in 1 .. Len(c) : c[i] = d[i]
    <3>1. c \in Seq(Token) /\ Len(c) = n /\ Len(d) = n
      BY <1>1, <2>1, <2>2
    <3>2. d \in Seq(Endless)
      BY <1>1
    <3> HIDE DEF d
    <3>3. d \in Seq(Token)
      BY <3>2, EndlessFacts
    <3>4. \A i \in 1 .. n : c[i] = d[i]
      BY <2>3 DEF d
    <3> HIDE DEF c
    <3> QED BY <3>1, <3>3, <3>4
  <2> HIDE DEF c, d
  <2>5. c = d
    BY <2>4, SameElements
  <2> QED BY <2>1, <2>5 DEF c, d
<1>8. \A i \in 1 .. n : u + i + 1 \in 1 .. Len(f) /\ f[u + i + 1] \in Endless
  BY <1>5, <1>6
<1> QED BY <1>1, <1>4, <1>7, <1>8 DEF t

(* The parser reads a formatted block as the block it was.                 *)
LEMMA PieceParsed ==
  ASSUME NEW f \in Seq(Token), Marked(f), NEW a, Scan(a, f), NEW u \in Nat, NEW b \in Blocks(Endless),
         FormattedAt(f, u, b), a[u].open = 0
  PROVE  /\ a[u + Len(Format(b))].open = 0
         /\ a[u + Len(Format(b))].blocks = Append(a[u].blocks, b)
<1>1. PICK n \in Nat :
        /\ n = Len(b.content) /\ Len(Format(b)) = n + 2
        /\ u + 1 \in 1 .. Len(f) /\ f[u + 1] = [begin |-> "icglue", id |-> b.id]
        /\ u + n + 2 \in 1 .. Len(f) /\ f[u + n + 2] = [end |-> "icglue"]
        /\ \A i \in 1 .. n : u + i + 1 \in 1 .. Len(f) /\ f[u + i + 1] \in Endless
        /\ SubSeq(f, u + 2, u + n + 1) = b.content
  BY FormattedContent
<1>2. PICK x \in Nat : x = u + 1
  OBVIOUS
<1>3. PICK m \in Nat : m = Len(f)
  OBVIOUS
<1>4. \A k \in 0 .. m : a[k] \in Scans(f)
  BY <1>3 DEF Scan
<1>5. \A k \in 1 .. m : a[k] = Scanned(f, FormOf(f), k, a[k - 1])
  BY <1>3 DEF Scan
<1>6. x \in 1 .. m /\ x - 1 = u /\ u \in 0 .. m
  BY <1>1, <1>2, <1>3
<1>7. a[x].open = x /\ a[x].blocks = a[u].blocks
  <2>1. Begins(f[x])
    BY <1>1, <1>2 DEF Begins
  <2>2. IsBegin(f[x], FormOf(f))
    BY <1>3, <1>6, <2>1 DEF Marked
  <2>3. a[x] = Scanned(f, FormOf(f), x, a[u])
    BY <1>5, <1>6
  <2>4. a[x] = [a[u] EXCEPT !.open = x]
    BY <2>2, <2>3 DEF Scanned
  <2>5. a[u] \in Scans(f)
    BY <1>4, <1>6
  <2> QED BY <2>4, <2>5 DEF Scans
<1> DEFINE T == {i \in 0 .. n : a[x + i] = a[x]}
<1>8. 0 \in T
  BY <1>2
<1>9. ASSUME NEW i \in 1 .. n, i - 1 \in T PROVE i \in T
  <2>1. PICK k \in Nat : k = x + i
    BY <1>2
  <2>2. k \in 1 .. m /\ k - 1 = x + (i - 1) /\ f[k] \in Endless
    <3>1. k = u + i + 1
      BY <1>2, <2>1
    <3>2. k \in 1 .. m /\ f[k] \in Endless
      BY <1>1, <1>3, <3>1
    <3> QED BY <2>1, <3>2
  <2>3. a[k - 1] = a[x]
    BY <1>9, <2>2
  <2>4. a[k] = Scanned(f, FormOf(f), k, a[x])
    BY <1>5, <2>2, <2>3
  <2>5. ~ IsEnd(f[k], FormOf(f)) /\ a[x].open # 0
    <3>1. ~ IsEnd(f[k], FormOf(f))
      BY <2>2 DEF Endless, Ends, IsEnd
    <3> QED BY <1>6, <1>7, <3>1
  <2>6. a[k] = a[x]
    BY <2>4, <2>5 DEF Scanned
  <2> QED BY <2>1, <2>6
<1> HIDE DEF T
<1>10. n \in T
  <2>1. 0 .. n \subseteq T
    BY <1>8, <1>9, StepsReach
  <2> QED BY <2>1
<1>11. a[x + n] = a[x]
  BY <1>10 DEF T
<1>12. PICK k \in Nat : k = u + n + 2
  OBVIOUS
<1>13. k \in 1 .. m /\ k - 1 = x + n /\ x + 1 = u + 2 /\ k - 1 = u + n + 1
  <2>1. k \in 1 .. m
    BY <1>1, <1>3, <1>12
  <2>2. k - 1 = x + n /\ x + 1 = u + 2 /\ k - 1 = u + n + 1
    BY <1>2, <1>12
  <2> QED BY <2>1, <2>2
<1>14. a[k] = Scanned(f, FormOf(f), k, a[x])
  BY <1>5, <1>11, <1>13
<1>15. IsEnd(f[k], FormOf(f))
  <2>1. Ends(f[k])
    BY <1>1, <1>12 DEF Ends
  <2> QED BY <1>3, <1>13, <2>1 DEF Marked
<1>16. a[k] = [open |-> 0, blocks |-> Append(a[x].blocks, Block(f[x].id, SubSeq(f, x + 1, k - 1)))]
  <2>1. a[x].open = x /\ x # 0
    BY <1>6, <1>7
  <2> QED BY <1>14, <1>15, <2>1 DEF Scanned
<1>17. Block(f[x].id, SubSeq(f, x + 1, k - 1)) = b
  <2>1. f[x].id = b.id /\ SubSeq(f, x + 1, k - 1) = b.content
    <3>1. f[x] = [begin |-> "icglue", id |-> b.id]
      BY <1>1, <1>2
    <3>2. SubSeq(f, u + 2, u + n + 1) = b.content
      BY <1>1
    <3> QED BY <1>13, <3>1, <3>2
  <2>2. b = [id |-> b.id, content |-> b.content]
    BY DEF Blocks
  <2> QED BY <2>1, <2>2 DEF Block
<1>18. k = u + Len(Format(b))
  BY <1>1, <1>12
<1> QED BY <1>7, <1>16, <1>17, <1>18

(* What the parser finds in the first pieces of a text, piece by piece.    *)
Reparsed(bs, p) ==
  /\ bs \in [0 .. Len(p) -> Seq(Blocks(Endless))]
  /\ bs[0] = <<>>
  /\ \A k \in 1 .. Len(p) :
       /\ p[k] = <<>> => bs[k] = bs[k - 1]
       /\ \A b \in Blocks(Endless) : p[k] = Format(b) => bs[k] = Append(bs[k - 1], b)

(* Parsing a generated file gives back the blocks written.                 *)
LEMMA TextParsed ==
  ASSUME NEW p \in Seq(Seq(Token)), \A k \in 1 .. Len(p) : p[k] \in Texts(Endless),
         NEW F, Flat(F, p), NEW f, f = F[Len(p)], Marked(f)
  PROVE  \E bs : Reparsed(bs, p) /\ ParseKeepBlocks(f).blocks = bs[Len(p)]
<1> DEFINE n == Len(p)
<1>1. n \in Nat /\ \A k \in 1 .. n : k \in 0 .. n /\ k - 1 \in 0 .. n
  OBVIOUS
<1>2. f \in Seq(Token)
  BY <1>1 DEF Flat
<1>3. PICK a : Scan(a, f) /\ ParseKeepBlocks(f) = a[Len(f)]
  BY <1>2, ParsedStepByStep
<1> DEFINE bs == [k \in 0 .. n |-> a[Len(F[k])].blocks]
           Met(k) == a[Len(F[k])].open = 0 /\ bs[k] \in Seq(Blocks(Endless))
           T == {k \in 0 .. n : Met(k)}
<1>4. 0 \in T /\ bs[0] = <<>>
  <2>1. Len(F[0]) = 0
    BY DEF Flat
  <2>2. a[0] = [open |-> 0, blocks |-> <<>>]
    BY <1>3 DEF Scan
  <2>3. 0 \in 0 .. n
    BY <1>1
  <2>4. bs[0] = <<>> /\ a[Len(F[0])].open = 0
    BY <2>1, <2>2, <2>3
  <2>5. <<>> \in Seq(Blocks(Endless))
    OBVIOUS
  <2> HIDE DEF bs
  <2> QED BY <2>3, <2>4, <2>5
<1>5. ASSUME NEW k \in 1 .. n, k - 1 \in T
      PROVE  /\ k \in T
             /\ p[k] = <<>> => bs[k] = bs[k - 1]
             /\ \A b \in Blocks(Endless) : p[k] = Format(b) => bs[k] = Append(bs[k - 1], b)
  <2>1. PICK u \in Nat, w \in Nat :
          /\ u = Len(F[k - 1]) /\ w = Len(p[k]) /\ u + w = Len(F[k])
          /\ \A i \in 1 .. w : u + i \in 1 .. Len(f) /\ f[u + i] = p[k][i]
    <3>1. Placed(F, p, f, k)
      BY PieceFacts
    <3> QED BY <3>1 DEF Placed
  <2>2. k \in 0 .. n /\ k - 1 \in 0 .. n
    BY <1>1
  <2>3. bs[k] = a[u + w].blocks /\ bs[k - 1] = a[u].blocks
    BY <2>1, <2>2
  <2>4. a[u].open = 0 /\ bs[k - 1] \in Seq(Blocks(Endless))
    BY <1>5, <2>1
  <2> HIDE DEF bs
  <2>5. ASSUME p[k] = <<>> PROVE k \in T /\ bs[k] = bs[k - 1]
    <3>1. w = 0
      BY <2>1, <2>5
    <3>2. u + w = u
      BY <3>1
    <3>3. bs[k] = bs[k - 1] /\ a[u + w].open = 0
      BY <2>3, <2>4, <3>2
    <3> QED BY <2>1, <2>2, <2>4, <3>3
  <2>6. ASSUME NEW b \in Blocks(Endless), p[k] = Format(b)
        PROVE  k \in T /\ bs[k] = Append(bs[k - 1], b)
    <3>1. FormattedAt(f, u, b) /\ w = Len(Format(b))
      BY <2>1, <2>6 DEF FormattedAt
    <3>2. a[u + w].open = 0 /\ a[u + w].blocks = Append(a[u].blocks, b)
      BY <1>2, <1>3, <2>4, <3>1, PieceParsed
    <3>3. bs[k] = Append(bs[k - 1], b)
      BY <2>3, <3>2
    <3>4. Append(bs[k - 1], b) \in Seq(Blocks(Endless))
      BY <2>4, AppendFacts
    <3> QED BY <2>1, <2>2, <3>2, <3>3, <3>4
  <2>7. p[k] \in Texts(Endless)
    OBVIOUS
  <2> HIDE DEF T
  <2>8. k \in T
    BY <2>5, <2>6, <2>7 DEF Texts
  <2> QED BY <2>5, <2>6, <2>8
<1> HIDE DEF T
<1>6. 0 .. n \subseteq T
  BY <1>1, <1>4, <1>5, StepsReach
<1>7. \A k \in 0 .. n : bs[k] \in Seq(Blocks(Endless))
  BY <1>6 DEF T
<1>8. \A k \in 1 .. n : k - 1 \in T
  BY <1>1, <1>6
<1>9. bs \in [0 .. n -> Seq(Blocks(Endless))]
  <2>1. bs = [k \in 0 .. n |-> bs[k]]
    OBVIOUS
  <2> HIDE DEF bs
  <2> QED BY <1>7, <2>1
<1>10. bs[n] = ParseKeepBlocks(f).blocks
  BY <1>1, <1>3
<1> HIDE DEF bs
<1>11. Reparsed(bs, p)
  BY <1>4, <1>5, <1>8, <1>9 DEF Reparsed
<1> QED BY <1>10, <1>11

(* The sequence s begins with r.                                           *)
Extends(s, r) == Len(r) <= Len(s) /\ \A i \in 1 .. Len(r) : s[i] = r[i]

(* What extends an extension extends the first.                            *)
LEMMA ExtendsTransitive ==
  ASSUME NEW S, NEW r \in Seq(S), NEW s \in Seq(S), NEW t \in Seq(S), Extends(t, s), Extends(s, r)
  PROVE  Extends(t, r)
<1>1. PICK x \in Nat, y \in Nat, z \in Nat : x = Len(r) /\ y = Len(s) /\ z = Len(t)
  OBVIOUS
<1>2. x <= y /\ y <= z
  BY <1>1 DEF Extends
<1>3. x <= z /\ \A i \in 1 .. x : i \in 1 .. y
  BY <1>2
<1> QED BY <1>1, <1>3 DEF Extends

(* A sequence extended step by step.                                       *)
LEMMA ExtendsSteps ==
  ASSUME NEW S, NEW n \in Nat, NEW g \in [0 .. n -> Seq(S)], \A k \in 1 .. n : Extends(g[k], g[k - 1])
  PROVE  \A j, k \in 0 .. n : j <= k => Extends(g[k], g[j])
<1> DEFINE T == {k \in 0 .. n : \A j \in 0 .. k : Extends(g[k], g[j])}
<1>1. \A k \in 0 .. n : Extends(g[k], g[k])
  <2>1. \A s \in Seq(S) : Extends(s, s)
    BY DEF Extends
  <2> QED BY <2>1
<1>2. 0 \in T
  BY <1>1
<1>3. ASSUME NEW k \in 1 .. n, k - 1 \in T PROVE k \in T
  <2>1. k \in 0 .. n /\ k - 1 \in 0 .. n
    OBVIOUS
  <2>2. ASSUME NEW j \in 0 .. k PROVE Extends(g[k], g[j])
    <3>1. CASE j = k
      BY <1>1, <2>1, <3>1
    <3>2. CASE j # k
      <4>1. j \in 0 .. k - 1 /\ j \in 0 .. n
        BY <2>1, <3>2
      <4>2. Extends(g[k - 1], g[j]) /\ Extends(g[k], g[k - 1])
        BY <1>3, <4>1
      <4>3. g[j] \in Seq(S) /\ g[k - 1] \in Seq(S) /\ g[k] \in Seq(S)
        BY <2>1, <4>1
      <4> QED BY <4>2, <4>3, ExtendsTransitive
    <3> QED BY <3>1, <3>2
  <2> QED BY <2>1, <2>2
<1> HIDE DEF T
<1>4. 0 .. n \subseteq T
  BY <1>2, <1>3, StepsReach
<1>5. ASSUME NEW j \in 0 .. n, NEW k \in 0 .. n, j <= k PROVE Extends(g[k], g[j])
  <2>1. j \in 0 .. k
    BY <1>5
  <2> QED BY <1>4, <2>1 DEF T
<1> QED BY <1>5

(* Append extends a sequence.                                              *)
LEMMA AppendExtends ==
  ASSUME NEW S, NEW s \in Seq(S), NEW x \in S
  PROVE  Extends(Append(s, x), s)
BY AppendFacts DEF Extends

(* Joining extends the first of two sequences.                             *)
LEMMA ConcatExtends ==
  ASSUME NEW S, NEW s \in Seq(S), NEW t \in Seq(S)
  PROVE  Extends(s \o t, s)
<1>1. /\ Len(s) \in Nat /\ Len(t) \in Nat /\ Len(s \o t) = Len(s) + Len(t)
      /\ \A i \in 1 .. Len(s) : (s \o t)[i] = s[i]
  BY ConcatFacts
<1>2. PICK u \in Nat, w \in Nat : u = Len(s) /\ w = Len(t)
  BY <1>1
<1>3. u <= u + w
  OBVIOUS
<1> QED BY <1>1, <1>2, <1>3 DEF Extends

(* Blocks found stay where they are.                                       *)
LEMMA ReparsedFacts ==
  ASSUME NEW p \in Seq(Seq(Token)), \A k \in 1 .. Len(p) : p[k] \in Texts(Endless),
         NEW bs, Reparsed(bs, p)
  PROVE  /\ \A k \in 1 .. Len(p) : \A b \in Blocks(Endless) :
              p[k] = Format(b) => /\ bs[k] = Append(bs[k - 1], b)
                                  /\ Len(bs[k - 1]) \in Nat /\ Len(bs[k]) = Len(bs[k - 1]) + 1
                                  /\ bs[k][Len(bs[k])] = b
         /\ \A j, k \in 0 .. Len(p) : j <= k => Extends(bs[k], bs[j])
<1> DEFINE n == Len(p)
<1>1. n \in Nat /\ \A k \in 1 .. n : k \in 0 .. n /\ k - 1 \in 0 .. n
  OBVIOUS
<1>2. bs \in [0 .. n -> Seq(Blocks(Endless))]
  BY DEF Reparsed
<1>3. ASSUME NEW k \in 1 .. n, NEW b \in Blocks(Endless), p[k] = Format(b)
      PROVE  /\ bs[k] = Append(bs[k - 1], b)
             /\ Len(bs[k - 1]) \in Nat /\ Len(bs[k]) = Len(bs[k - 1]) + 1
             /\ bs[k][Len(bs[k])] = b
             /\ Extends(bs[k], bs[k - 1])
  <2>1. bs[k] = Append(bs[k - 1], b)
    BY <1>3 DEF Reparsed
  <2>2. PICK s \in Seq(Blocks(Endless)) : s = bs[k - 1]
    BY <1>1, <1>2
  <2>3. /\ Len(s) \in Nat /\ Len(Append(s, b)) = Len(s) + 1
        /\ Append(s, b)[Len(s) + 1] = b /\ Extends(Append(s, b), s)
    BY AppendFacts, AppendExtends
  <2> QED BY <2>1, <2>2, <2>3
<1>4. ASSUME NEW k \in 1 .. n PROVE Extends(bs[k], bs[k - 1])
  <2>1. CASE p[k] = <<>>
    <3>1. bs[k] = bs[k - 1]
      BY <2>1 DEF Reparsed
    <3>2. PICK s \in Seq(Blocks(Endless)) : s = bs[k - 1]
      BY <1>1, <1>2
    <3>3. Extends(s, s)
      BY DEF Extends
    <3> QED BY <3>1, <3>2, <3>3
  <2>2. CASE p[k] # <<>>
    BY <1>3, <2>2 DEF Texts
  <2> QED BY <2>1, <2>2
<1> HIDE DEF n
<1>5. \A j, k \in 0 .. n : j <= k => Extends(bs[k], bs[j])
  BY <1>1, <1>2, <1>4, ExtendsSteps
<1> QED BY <1>3, <1>5 DEF n

(* The first m pieces are those of blocks of the names that t asks for.    *)
Named(p, t, m) ==
  /\ m \in 0 .. Len(p)
  /\ \A k \in 1 .. m : \E b \in Blocks(Endless) : p[k] = Format(b) /\ b.id = t[k]

(* The first blocks found are those the template asked for, in order.      *)
LEMMA FirstNames ==
  ASSUME NEW p \in Seq(Seq(Token)), \A k \in 1 .. Len(p) : p[k] \in Texts(Endless),
         NEW bs, Reparsed(bs, p), NEW t, NEW m, Named(p, t, m)
  PROVE  LET Ds == bs[Len(p)] IN
         /\ \A k \in 0 .. m : Len(bs[k]) = k
         /\ m <= Len(Ds)
         /\ \A k \in 1 .. m : Ds[k].id = t[k] /\ Format(Ds[k]) = p[k]
<1> DEFINE n == Len(p)
           Ds == bs[n]
<1>1. n \in Nat /\ m \in Nat /\ m <= n
  BY DEF Named
<1>2. bs \in [0 .. n -> Seq(Blocks(Endless))] /\ bs[0] = <<>>
  BY DEF Reparsed
<1> DEFINE T == {k \in 0 .. m : Len(bs[k]) = k}
<1>3. 0 \in T
  BY <1>1, <1>2
<1>4. ASSUME NEW k \in 1 .. m, k - 1 \in T PROVE k \in T
  <2>1. k \in 1 .. n /\ k \in 0 .. m
    BY <1>1
  <2>2. PICK b \in Blocks(Endless) : p[k] = Format(b)
    BY DEF Named
  <2>3. Len(bs[k]) = Len(bs[k - 1]) + 1
    BY <2>1, <2>2, ReparsedFacts
  <2>4. Len(bs[k - 1]) = k - 1
    BY <1>4
  <2>5. Len(bs[k]) = k
    BY <2>1, <2>3, <2>4
  <2> QED BY <2>1, <2>5
<1> HIDE DEF T
<1>5. 0 .. m \subseteq T
  BY <1>1, <1>3, <1>4, StepsReach
<1>6. \A k \in 0 .. m : Len(bs[k]) = k
  BY <1>5 DEF T
<1>7. \A k \in 0 .. n : Extends(Ds, bs[k])
  <2>1. n \in 0 .. n /\ \A k \in 0 .. n : k <= n
    BY <1>1
  <2> QED BY <2>1, ReparsedFacts
<1>8. m <= Len(Ds)
  <2>1. m \in 0 .. n /\ m \in 0 .. m
    BY <1>1
  <2>2. Extends(Ds, bs[m]) /\ Len(bs[m]) = m
    BY <1>6, <1>7, <2>1
  <2> QED BY <2>2 DEF Extends
<1>9. ASSUME NEW k \in 1 .. m PROVE Ds[k].id = t[k] /\ Format(Ds[k]) = p[k]
  <2>1. k \in 1 .. n /\ k \in 0 .. n /\ k \in 0 .. m /\ k \in 1 .. k
    BY <1>1
  <2>2. PICK b \in Blocks(Endless) : p[k] = Format(b) /\ b.id = t[k]
    BY DEF Named
  <2>3. Len(bs[k]) = k /\ bs[k][k] = b
    <3>1. Len(bs[k]) = k
      BY <1>6, <2>1
    <3>2. bs[k][Len(bs[k])] = b
      BY <2>1, <2>2, ReparsedFacts
    <3> QED BY <3>1, <3>2
  <2>4. Ds[k] = b
    BY <1>7, <2>1, <2>3 DEF Extends
  <2> QED BY <2>2, <2>4
<1> QED BY <1>6, <1>8, <1>9

(* The pieces q are the pieces p without the empty ones.                   *)
Rewritten(q, p, Ds, m) ==
  /\ Len(q) = Len(Ds)
  /\ \A i \in 1 .. Len(Ds) : q[i] = IF i <= m THEN p[i] ELSE Listed(Ds[i])

(* Empty pieces left out, the joined text is the same.                     *)
LEMMA Rejoined ==
  ASSUME NEW p \in Seq(Seq(Token)), \A k \in 1 .. Len(p) : p[k] \in Texts(Endless),
         NEW q \in Seq(Seq(Token)), NEW bs, Reparsed(bs, p), NEW t, NEW m, Named(p, t, m),
         \A k \in 1 .. Len(p) : k <= m \/ p[k] = <<>>
            \/ \E d \in Blocks(Endless) : d.content # <<>> /\ p[k] = Format(d),
         Rewritten(q, p, bs[Len(p)], m)
  PROVE  FlattenSeq(q) = FlattenSeq(p)
<1> DEFINE n == Len(p)
           Ds == bs[n]
<1>1. n \in Nat /\ m \in Nat /\ m <= n /\ \A k \in 1 .. n : k \in 0 .. n /\ k - 1 \in 0 .. n
  BY DEF Named
<1>2. PICK F : Flat(F, p) /\ FlattenSeq(p) = F[n]
  BY FlattenedStepByStep
<1>3. PICK G : Flat(G, q) /\ FlattenSeq(q) = G[Len(q)]
  BY FlattenedStepByStep
<1>4. bs \in [0 .. n -> Seq(Blocks(Endless))] /\ bs[0] = <<>>
  BY DEF Reparsed
<1>5. \A k \in 0 .. m : Len(bs[k]) = k
  BY FirstNames
<1>6. \A k \in 0 .. n : Extends(Ds, bs[k]) /\ (m <= k => m <= Len(bs[k]))
  <2>1. n \in 0 .. n /\ m \in 0 .. n /\ m \in 0 .. m /\ \A k \in 0 .. n : k <= n
    BY <1>1
  <2>2. \A k \in 0 .. n : Extends(Ds, bs[k])
    BY <2>1, ReparsedFacts
  <2>3. ASSUME NEW k \in 0 .. n, m <= k PROVE m <= Len(bs[k])
    <3>1. Extends(bs[k], bs[m]) /\ Len(bs[m]) = m
      BY <1>5, <2>1, <2>3, ReparsedFacts
    <3> QED BY <3>1 DEF Extends
  <2> QED BY <2>2, <2>3
<1>7. \A k \in 0 .. n : Len(bs[k]) \in Nat
  BY <1>4
<1> DEFINE T == {k \in 0 .. n : G[Len(bs[k])] = F[k]}
<1>8. 0 \in T
  <2>1. Len(bs[0]) = 0
    BY <1>4
  <2>2. G[0] = <<>> /\ F[0] = <<>>
    BY <1>2, <1>3 DEF Flat
  <2> QED BY <1>1, <2>1, <2>2
<1>9. ASSUME NEW k \in 1 .. n, k - 1 \in T PROVE k \in T
  <2>1. k \in 0 .. n /\ k - 1 \in 0 .. n /\ k \in Nat
    BY <1>1
  <2>2. F[k] = F[k - 1] \o p[k] /\ F[k - 1] \in Seq(Token)
    BY <1>2, <2>1 DEF Flat
  <2>3. G[Len(bs[k - 1])] = F[k - 1]
    BY <1>9
  <2>4. CASE p[k] = <<>>
    <3>1. bs[k] = bs[k - 1]
      BY <2>4 DEF Reparsed
    <3>2. F[k] = F[k - 1]
      BY <2>2, <2>4
    <3> QED BY <2>1, <2>3, <3>1, <3>2
  <2>5. ASSUME NEW b \in Blocks(Endless), p[k] = Format(b) PROVE k \in T
    <3>1. Len(bs[k - 1]) \in Nat /\ Len(bs[k]) = Len(bs[k - 1]) + 1 /\ bs[k][Len(bs[k])] = b
      BY <2>5, ReparsedFacts
    <3>2. PICK i \in Nat : i = Len(bs[k])
      BY <1>7, <2>1
    <3>3. Len(bs[k - 1]) = i - 1 /\ i \in 1 .. Len(bs[k])
      BY <3>1, <3>2
    <3>4. i \in 1 .. Len(Ds) /\ Ds[i] = b
      <4>1. Extends(Ds, bs[k])
        BY <1>6, <2>1
      <4>2. PICK l \in Nat : l = Len(Ds)
        <5>1. n \in 0 .. n
          BY <1>1
        <5>2. Len(bs[n]) \in Nat
          BY <1>7, <5>1
        <5> QED BY <5>2
      <4>3. i <= l /\ 1 <= i
        BY <3>2, <3>3, <4>1, <4>2 DEF Extends
      <4>4. Ds[i] = b
        BY <3>1, <3>2, <3>3, <4>1 DEF Extends
      <4> QED BY <4>2, <4>3, <4>4
    <3>5. q[i] = p[k]
      <4>1. CASE k <= m
        <5>1. k \in 0 .. m
          BY <1>1, <2>1, <4>1
        <5>2. i = k
          BY <1>5, <3>2, <5>1
        <5> QED BY <3>4, <4>1, <5>2 DEF Rewritten
      <4>2. CASE ~ (k <= m)
        <5>1. m <= k - 1
          BY <1>1, <2>1, <4>2
        <5>2. m <= i - 1
          BY <1>6, <2>1, <3>3, <5>1
        <5>3. ~ (i <= m)
          BY <1>1, <5>2
        <5>4. q[i] = Listed(b)
          BY <3>4, <5>3 DEF Rewritten
        <5>5. p[k] # <<>>
          BY <2>5, EndlessFacts, FormatFacts
        <5>6. PICK d \in Blocks(Endless) : d.content # <<>> /\ p[k] = Format(d)
          BY <4>2, <5>5
        <5>7. d = b
          BY <2>5, <5>6, EndlessFacts, FormatInjective
        <5> QED BY <2>5, <5>4, <5>6, <5>7 DEF Listed
      <4> QED BY <4>1, <4>2
    <3>6. G[i] = G[i - 1] \o q[i]
      BY <1>3, <3>4 DEF Flat, Rewritten
    <3> QED BY <2>1, <2>2, <2>3, <3>2, <3>3, <3>5, <3>6
  <2>6. p[k] \in Texts(Endless)
    OBVIOUS
  <2> HIDE DEF T
  <2> QED BY <2>4, <2>5, <2>6 DEF Texts
<1> HIDE DEF T
<1>10. n \in T
  <2>1. 0 .. n \subseteq T
    BY <1>1, <1>8, <1>9, StepsReach
  <2>2. n \in 0 .. n
    BY <1>1
  <2> QED BY <2>1, <2>2
<1>11. Len(bs[n]) = Len(q)
  BY DEF Rewritten
<1> QED BY <1>2, <1>3, <1>10, <1>11 DEF T

(* A template lists the orphaned blocks, if at all, behind everything else. *)
OrphansLast(t) == \A i \in 1 .. Len(t) : t[i] = Orphans => i = Len(t)

(* How many blocks such a template asks for.                               *)
Asked(t) == IF Len(t) > 0 /\ t[Len(t)] = Orphans THEN Len(t) - 1 ELSE Len(t)

(* Before its last item such a template asks for blocks only.              *)
LEMMA AskedFacts ==
  ASSUME NEW t \in Seq(Id \cup {Orphans}), OrphansLast(t)
  PROVE  /\ Asked(t) \in 0 .. Len(t)
         /\ \A k \in 1 .. Asked(t) : k \in 1 .. Len(t) /\ t[k] \in Id
         /\ Asked(t) = Len(t) \/ (Len(t) = Asked(t) + 1 /\ Len(t) \in 1 .. Len(t) /\ t[Len(t)] = Orphans)
<1>1. PICK n \in Nat : n = Len(t)
  OBVIOUS
<1>2. \A k \in 1 .. n : t[k] \in Id \cup {Orphans}
  BY <1>1
<1>3. CASE n > 0 /\ t[n] = Orphans
  <2>1. Asked(t) = n - 1
    BY <1>1, <1>3 DEF Asked
  <2>2. n - 1 \in 0 .. n /\ n = (n - 1) + 1 /\ n \in 1 .. n /\ \A k \in 1 .. n - 1 : k \in 1 .. n /\ k # n
    BY <1>3
  <2>3. \A k \in 1 .. n - 1 : t[k] \in Id
    BY <1>1, <1>2, <2>2 DEF OrphansLast
  <2> QED BY <1>1, <1>3, <2>1, <2>2, <2>3
<1>4. CASE ~ (n > 0 /\ t[n] = Orphans)
  <2>1. Asked(t) = n
    BY <1>1, <1>4 DEF Asked
  <2>2. \A k \in 1 .. n : t[k] \in Id
    <3>1. ASSUME NEW k \in 1 .. n, t[k] = Orphans PROVE FALSE
      <4>1. k = n /\ n > 0
        BY <1>1, <3>1 DEF OrphansLast
      <4> QED BY <1>4, <3>1, <4>1
    <3> QED BY <1>2, <3>1
  <2>3. n \in 0 .. n
    OBVIOUS
  <2> QED BY <1>1, <2>1, <2>2, <2>3
<1> QED BY <1>3, <1>4

(* A pop writes a block of the name it asks for.                           *)
LEMMA PopWrites ==
  ASSUME NEW r \in Runs(Endless), NEW id \in Id
  PROVE  \E b \in Blocks(Endless) : b.id = id /\ Pop(r, id).text = Append(r.text, Format(b))
<1>1. PopsDefault(r, id, Pop(r, id)) \/ \E k \in 1 .. Len(r.blocks) : PopsBlock(r, id, k, Pop(r, id))
  BY EndlessFacts, PopType
<1>2. CASE PopsDefault(r, id, Pop(r, id))
  <2>1. Block(id, Default[id]) \in Blocks(Endless)
    <3>1. Default[id] \in Seq(Endless)
      BY KeepAssumption, EndlessFacts
    <3> QED BY <3>1 DEF Blocks, Block
  <2>2. Block(id, Default[id]).id = id
    BY DEF Block
  <2>3. Pop(r, id).text = Append(r.text, Format(Block(id, Default[id])))
    BY <1>2 DEF PopsDefault
  <2> QED BY <2>1, <2>2, <2>3
<1>3. ASSUME NEW k \in 1 .. Len(r.blocks), PopsBlock(r, id, k, Pop(r, id))
      PROVE  \E b \in Blocks(Endless) : b.id = id /\ Pop(r, id).text = Append(r.text, Format(b))
  <2>1. r.blocks[k] \in Blocks(Endless)
    BY DEF Runs
  <2> QED BY <1>3, <2>1 DEF PopsBlock
<1> QED BY <1>1, <1>2, <1>3

(* The text s has a block for each of the first k names that t asks for.   *)
Answered(s, t, k) ==
  /\ Len(s) = k
  /\ \A j \in 1 .. k : \E b \in Blocks(Endless) : s[j] = Format(b) /\ b.id = t[j]

(* One more block is written for the name asked for.                       *)
LEMMA AnsweredStep ==
  ASSUME NEW s \in Seq(Seq(Token)), NEW t, NEW k \in Nat, k > 0, Answered(s, t, k - 1),
         NEW b \in Blocks(Endless), b.id = t[k]
  PROVE  Answered(Append(s, Format(b)), t, k)
<1>1. Format(b) \in Seq(Token)
  <2>1. Format(b) \in Texts(Endless)
    BY DEF Texts
  <2> QED BY <2>1, EndlessFacts, TextsType
<1>2. Len(s) = k - 1
  BY DEF Answered
<1>3. /\ Len(Append(s, Format(b))) = Len(s) + 1 /\ Append(s, Format(b))[Len(s) + 1] = Format(b)
      /\ \A i \in 1 .. Len(s) : Append(s, Format(b))[i] = s[i]
  BY <1>1, AppendFacts
<1>4. PICK v : v = Append(s, Format(b))
  OBVIOUS
<1>5. Len(v) = k /\ v[k] = Format(b) /\ \A i \in 1 .. k - 1 : v[i] = s[i]
  BY <1>2, <1>3, <1>4
<1>6. \A j \in 1 .. k : j = k \/ j \in 1 .. k - 1
  OBVIOUS
<1>7. ASSUME NEW j \in 1 .. k PROVE \E d \in Blocks(Endless) : v[j] = Format(d) /\ d.id = t[j]
  <2>1. CASE j = k
    BY <1>5, <2>1
  <2>2. CASE j \in 1 .. k - 1
    <3>1. PICK d \in Blocks(Endless) : s[j] = Format(d) /\ d.id = t[j]
      BY <2>2 DEF Answered
    <3> QED BY <1>5, <2>2, <3>1
  <2> QED BY <1>6, <2>1, <2>2
<1> QED BY <1>4, <1>5, <1>7 DEF Answered

(* The items up to the orphaned blocks, one by one.                        *)
LEMMA PopsFirst ==
  ASSUME NEW t \in Seq(Id \cup {Orphans}), OrphansLast(t), NEW B \in Seq(Blocks(Endless)),
         NEW a, RunOf(a, t, B, Endless)
  PROVE  \A k \in 0 .. Asked(t) : Answered(a[k].text, t, k)
<1>1. PICK m \in Nat : m = Asked(t) /\ \A k \in 1 .. m : k \in 1 .. Len(t) /\ t[k] \in Id
  BY AskedFacts
<1> DEFINE T == {k \in 0 .. m : Answered(a[k].text, t, k)}
<1>2. 0 \in T
  <2>1. a[0].text = <<>>
    BY DEF RunOf
  <2>2. Answered(<<>>, t, 0)
    BY DEF Answered
  <2>3. 0 \in 0 .. m
    OBVIOUS
  <2> QED BY <2>1, <2>2, <2>3
<1>3. ASSUME NEW k \in 1 .. m, k - 1 \in T PROVE k \in T
  <2>1. k \in 1 .. Len(t) /\ t[k] \in Id /\ t[k] # Orphans
    BY <1>1, KeepAssumption
  <2>2. k - 1 \in 0 .. Len(t) /\ k \in Nat /\ k > 0 /\ k \in 0 .. m
    BY <2>1
  <2>3. PICK r \in Runs(Endless) : r = a[k - 1]
    BY <2>2 DEF RunOf
  <2>4. a[k] = Pop(r, t[k])
    BY <2>1, <2>3 DEF RunOf, Ran
  <2>5. PICK b \in Blocks(Endless) : b.id = t[k] /\ Pop(r, t[k]).text = Append(r.text, Format(b))
    BY <2>1, PopWrites
  <2>6. r.text \in Seq(Seq(Token))
    <3>1. r.text \in Seq(Texts(Endless)) /\ Texts(Endless) \subseteq Seq(Token)
      BY EndlessFacts, TextsType DEF Runs
    <3> QED BY <3>1
  <2>7. Answered(r.text, t, k - 1)
    BY <1>3, <2>3
  <2>8. Answered(Append(r.text, Format(b)), t, k)
    BY <2>2, <2>5, <2>6, <2>7, AnsweredStep
  <2> QED BY <2>2, <2>4, <2>5, <2>8
<1> HIDE DEF T
<1>4. 0 .. m \subseteq T
  BY <1>2, <1>3, StepsReach
<1> QED BY <1>1, <1>4 DEF T

(* What a run of a template writes: the blocks it asks for, then what it lists. *)
LEMMA FirstRun ==
  ASSUME NEW t \in Seq(Id \cup {Orphans}), OrphansLast(t), NEW B \in Seq(Blocks(Endless)),
         NEW a, RunOf(a, t, B, Endless), NEW p, p = a[Len(t)].text
  PROVE  /\ Named(p, t, Asked(t))
         /\ Asked(t) = Len(t) => Len(p) = Asked(t)
         /\ \A k \in 1 .. Len(p) : k <= Asked(t) \/ p[k] = <<>>
              \/ \E d \in Blocks(Endless) : d.content # <<>> /\ p[k] = Format(d)
<1>1. PICK m \in Nat, n \in Nat :
        m = Asked(t) /\ n = Len(t) /\ m <= n
        /\ (m = n \/ (n = m + 1 /\ n \in 1 .. n /\ t[n] = Orphans))
  <2>1. PICK n \in Nat : n = Len(t)
    OBVIOUS
  <2> QED BY <2>1, AskedFacts
<1>2. PICK r \in Runs(Endless) : r = a[m]
  <2>1. m \in 0 .. n
    BY <1>1
  <2> QED BY <1>1, <2>1 DEF RunOf
<1>3. Answered(r.text, t, m)
  <2>1. m \in 0 .. m
    OBVIOUS
  <2> QED BY <1>1, <1>2, <2>1, PopsFirst
<1>4. CASE m = n
  <2>1. p = r.text
    BY <1>1, <1>2, <1>4
  <2>2. Len(p) = m
    BY <1>3, <2>1 DEF Answered
  <2>3. Named(p, t, m)
    <3>1. m \in 0 .. Len(p)
      BY <2>2
    <3> QED BY <1>3, <2>1, <3>1 DEF Answered, Named
  <2>4. \A k \in 1 .. Len(p) : k <= m
    BY <2>2
  <2> QED BY <1>1, <2>2, <2>3, <2>4
<1>5. CASE n = m + 1 /\ n \in 1 .. n /\ t[n] = Orphans
  <2>1. n - 1 = m /\ m # n
    BY <1>5
  <2>2. p = r.text \o Listing(r)
    <3>1. a[n] = Remaining(r)
      BY <1>1, <1>2, <1>5, <2>1 DEF RunOf, Ran
    <3>2. Remaining(r) = [text |-> r.text \o Listing(r), blocks |-> r.blocks]
      BY EndlessFacts, RemainingFacts
    <3>3. p = a[n].text
      BY <1>1
    <3> QED BY <3>1, <3>2, <3>3
  <2>3. PICK s \in Seq(Texts(Endless)), l \in Seq(Texts(Endless)) :
          /\ s = r.text /\ l = Listing(r) /\ p = s \o l /\ Len(l) = Len(r.blocks)
          /\ \A k \in 1 .. Len(l) : l[k] = Listed(r.blocks[k])
    BY <2>2, EndlessFacts, RemainingFacts DEF Runs
  <2>4. PICK u \in Nat : u = Len(l)
    BY <2>3
  <2>5. /\ Len(p) = m + u
        /\ \A i \in 1 .. m : p[i] = s[i]
        /\ \A i \in 1 .. u : p[m + i] = l[i]
    <3>1. Len(s) = m
      BY <1>3, <2>3 DEF Answered
    <3>2. /\ Len(s \o l) = Len(s) + Len(l)
          /\ \A i \in 1 .. Len(s) : (s \o l)[i] = s[i]
          /\ \A i \in 1 .. Len(l) : (s \o l)[Len(s) + i] = l[i]
      BY ConcatFacts
    <3> QED BY <2>3, <2>4, <3>1, <3>2
  <2>6. Named(p, t, m)
    <3>1. m \in 0 .. m + u
      OBVIOUS
    <3>2. m \in 0 .. Len(p)
      BY <2>5, <3>1
    <3> QED BY <1>3, <2>3, <2>5, <3>2 DEF Answered, Named
  <2>7. ASSUME NEW k \in 1 .. m + u, ~ (k <= m)
        PROVE  p[k] = <<>> \/ \E d \in Blocks(Endless) : d.content # <<>> /\ p[k] = Format(d)
    <3>1. PICK i \in 1 .. u : k = m + i
      <4>1. k - m \in 1 .. u /\ k = m + (k - m)
        BY <2>7
      <4> QED BY <4>1
    <3>2. p[k] = Listed(r.blocks[i]) /\ i \in 1 .. Len(r.blocks)
      BY <2>3, <2>4, <2>5, <3>1
    <3>3. r.blocks[i] \in Blocks(Endless)
      BY <3>2 DEF Runs
    <3> QED BY <3>2, <3>3 DEF Listed
  <2> QED BY <1>1, <2>1, <2>5, <2>6, <2>7
<1> QED BY <1>1, <1>4, <1>5

(* Of the blocks Ds, k have been popped, and written as the pieces p.      *)
Replayed(r, p, Ds, k) ==
  \E l \in Nat :
    /\ l = Len(Ds) /\ k <= l
    /\ Len(r.text) = k /\ \A j \in 1 .. k : r.text[j] = p[j]
    /\ Len(r.blocks) = l - k /\ \A j \in 1 .. l - k : r.blocks[j] = Ds[k + j]

(* A pop of the name of the first block left takes it.                     *)
LEMMA PopTakesFirst ==
  ASSUME NEW r \in Runs(Endless), NEW id \in Id, 1 \in 1 .. Len(r.blocks), r.blocks[1].id = id
  PROVE  Pop(r, id) = [text |-> Append(r.text, Format(r.blocks[1])), blocks |-> RemoveAt(r.blocks, 1)]
<1>1. PopsDefault(r, id, Pop(r, id)) \/ \E k \in 1 .. Len(r.blocks) : PopsBlock(r, id, k, Pop(r, id))
  BY EndlessFacts, PopType
<1>2. ~ PopsDefault(r, id, Pop(r, id))
  BY DEF PopsDefault
<1>3. PICK k \in 1 .. Len(r.blocks) : PopsBlock(r, id, k, Pop(r, id))
  BY <1>1, <1>2
<1>4. k = 1
  <2>1. k \in Nat /\ k > 0
    OBVIOUS
  <2>2. ~ (1 < k)
    BY <1>3 DEF PopsBlock
  <2> QED BY <2>1, <2>2
<1> QED BY <1>3, <1>4 DEF PopsBlock

(* One more pop takes the block that the same item wrote.                  *)
LEMMA ReplayedStep ==
  ASSUME NEW r \in Runs(Endless), NEW p \in Seq(Seq(Token)), NEW Ds \in Seq(Blocks(Endless)),
         NEW k \in Nat, k > 0,
         k <= Len(Ds), Ds[k].id \in Id, Format(Ds[k]) = p[k], Replayed(r, p, Ds, k - 1)
  PROVE  Replayed(Pop(r, Ds[k].id), p, Ds, k)
<1>1. PICK l \in Nat :
        /\ l = Len(Ds) /\ k <= l
        /\ Len(r.text) = k - 1 /\ \A j \in 1 .. k - 1 : r.text[j] = p[j]
        /\ Len(r.blocks) = l - (k - 1) /\ \A j \in 1 .. l - (k - 1) : r.blocks[j] = Ds[(k - 1) + j]
  BY DEF Replayed
<1>2. PICK b \in Seq(Blocks(Endless)), s \in Seq(Texts(Endless)) : b = r.blocks /\ s = r.text
  BY DEF Runs
<1>3. 1 \in 1 .. l - (k - 1) /\ (k - 1) + 1 = k
  BY <1>1
<1>4. 1 \in 1 .. Len(b) /\ b[1] = Ds[k]
  BY <1>1, <1>2, <1>3
<1>5. PICK c \in Seq(Blocks(Endless)), v \in Seq(Texts(Endless)) :
        /\ Pop(r, Ds[k].id) = [text |-> v, blocks |-> c]
        /\ c = RemoveAt(b, 1) /\ v = Append(s, p[k])
  <2>1. Pop(r, Ds[k].id) = [text |-> Append(s, p[k]), blocks |-> RemoveAt(b, 1)]
    BY <1>2, <1>4, PopTakesFirst
  <2>2. RemoveAt(b, 1) \in Seq(Blocks(Endless))
    BY <1>4, RemoveAtFacts
  <2>3. Ds[k] \in Blocks(Endless)
    BY <1>2, <1>4
  <2>4. p[k] \in Texts(Endless)
    BY <2>3 DEF Texts
  <2>5. Append(s, p[k]) \in Seq(Texts(Endless))
    BY <2>4, AppendFacts
  <2> QED BY <2>1, <2>2, <2>5
<1>6. Len(c) = l - k /\ \A j \in 1 .. l - k : c[j] = Ds[k + j]
  <2>1. Len(c) = Len(b) - 1 /\ \A j \in 1 .. Len(b) - 1 : c[j] = IF j < 1 THEN b[j] ELSE b[j + 1]
    BY <1>4, <1>5, RemoveAtFacts
  <2>2. Len(b) = l - (k - 1)
    BY <1>1, <1>2
  <2>3. PICK w \in Nat : w = l - k
    <3>1. k <= l
      BY <1>1
    <3>2. l - k \in Nat
      BY <3>1
    <3> QED BY <3>2
  <2>4. Len(b) - 1 = w /\ l - (k - 1) = w + 1
    BY <1>1, <2>2, <2>3
  <2>5. ASSUME NEW j \in 1 .. w PROVE c[j] = Ds[k + j]
    <3>1. ~ (j < 1) /\ j + 1 \in 1 .. w + 1 /\ (k - 1) + (j + 1) = k + j
      OBVIOUS
    <3>2. c[j] = b[j + 1]
      BY <2>1, <2>4, <3>1
    <3>3. b[j + 1] = Ds[k + j]
      BY <1>1, <1>2, <2>4, <3>1
    <3> QED BY <3>2, <3>3
  <2> QED BY <2>1, <2>3, <2>4, <2>5
<1>7. Len(v) = k /\ \A j \in 1 .. k : v[j] = p[j]
  <2>1. p[k] \in Texts(Endless)
    <3>1. Ds[k] \in Blocks(Endless)
      BY <1>2, <1>4
    <3> QED BY <3>1 DEF Texts
  <2>2. Len(v) = Len(s) + 1 /\ v[Len(s) + 1] = p[k] /\ \A j \in 1 .. Len(s) : v[j] = s[j]
    BY <1>5, <2>1, AppendFacts
  <2>3. Len(s) = k - 1 /\ (k - 1) + 1 = k /\ \A j \in 1 .. k : j = k \/ j \in 1 .. k - 1
    BY <1>1, <1>2
  <2>4. \A j \in 1 .. k - 1 : s[j] = p[j]
    BY <1>1, <1>2
  <2> QED BY <2>2, <2>3, <2>4
<1>8. PICK z : z = Pop(r, Ds[k].id)
  OBVIOUS
<1>9. z = [text |-> v, blocks |-> c]
  BY <1>5, <1>8
<1>10. z.text = v /\ z.blocks = c
  BY <1>9
<1> QED BY <1>1, <1>6, <1>7, <1>8, <1>10 DEF Replayed

(* The second run of a template, on the blocks that the first one wrote.   *)
LEMMA SecondRun ==
  ASSUME NEW t \in Seq(Id \cup {Orphans}), OrphansLast(t), NEW p \in Seq(Seq(Token)),
         NEW Ds \in Seq(Blocks(Endless)),
         NEW m, m = Asked(t), m <= Len(Ds), m = Len(t) => Len(Ds) = m,
         \A k \in 1 .. m : Ds[k].id = t[k] /\ Format(Ds[k]) = p[k],
         NEW c, RunOf(c, t, Ds, Endless)
  PROVE  Rewritten(c[Len(t)].text, p, Ds, m)
<1>1. PICK l \in Nat, n \in Nat : l = Len(Ds) /\ n = Len(t)
  OBVIOUS
<1>2. /\ m \in Nat /\ m <= n /\ m <= l
      /\ \A k \in 1 .. m : k \in 1 .. n /\ t[k] \in Id
      /\ m = n \/ (n = m + 1 /\ n \in 1 .. n /\ t[n] = Orphans)
  BY <1>1, AskedFacts
<1> DEFINE T == {k \in 0 .. m : Replayed(c[k], p, Ds, k)}
<1>3. 0 \in T
  <2>1. c[0].text = <<>> /\ c[0].blocks = Ds
    BY DEF RunOf
  <2>2. l - 0 = l /\ 0 <= l /\ \A j \in 1 .. l : 0 + j = j
    OBVIOUS
  <2>3. Replayed(c[0], p, Ds, 0)
    <3>1. PICK r : r = c[0]
      OBVIOUS
    <3>2. Len(r.text) = 0 /\ Len(r.blocks) = l /\ \A j \in 1 .. l : r.blocks[j] = Ds[j]
      BY <1>1, <2>1, <3>1
    <3>3. \A j \in 1 .. 0 : r.text[j] = p[j]
      OBVIOUS
    <3>4. Len(r.blocks) = l - 0 /\ \A j \in 1 .. l - 0 : r.blocks[j] = Ds[0 + j]
      BY <2>2, <3>2
    <3>5. Replayed(r, p, Ds, 0)
      BY <1>1, <2>2, <3>2, <3>3, <3>4 DEF Replayed
    <3> QED BY <3>1, <3>5
  <2> QED BY <1>2, <2>3
<1>4. ASSUME NEW k \in 1 .. m, k - 1 \in T PROVE k \in T
  <2>1. k \in 1 .. n /\ t[k] \in Id /\ t[k] # Orphans /\ k <= l /\ k \in Nat /\ k > 0 /\ k \in 0 .. m
    BY <1>2, KeepAssumption
  <2>2. k - 1 \in 0 .. n
    BY <1>2
  <2>3. PICK r \in Runs(Endless) : r = c[k - 1]
    BY <1>1, <2>2 DEF RunOf
  <2>4. c[k] = Pop(r, Ds[k].id)
    BY <1>1, <2>1, <2>3 DEF RunOf, Ran
  <2>5. Replayed(r, p, Ds, k - 1)
    BY <1>4, <2>3
  <2>6. Ds[k].id \in Id /\ Format(Ds[k]) = p[k]
    BY <2>1
  <2>7. Replayed(Pop(r, Ds[k].id), p, Ds, k)
    BY <1>1, <2>1, <2>5, <2>6, ReplayedStep
  <2> QED BY <2>1, <2>4, <2>7
<1> HIDE DEF T
<1>5. Replayed(c[m], p, Ds, m)
  <2>1. m \in Nat
    BY <1>2
  <2>2. 0 .. m \subseteq T
    BY <1>3, <1>4, <2>1, StepsReach
  <2>3. m \in 0 .. m
    BY <2>1
  <2> QED BY <2>2, <2>3 DEF T
<1>6. PICK r \in Runs(Endless) : r = c[m]
  <2>1. m \in 0 .. n
    BY <1>2
  <2> QED BY <1>1, <2>1 DEF RunOf
<1>7. /\ Len(r.text) = m /\ \A j \in 1 .. m : r.text[j] = p[j]
      /\ Len(r.blocks) = l - m /\ \A j \in 1 .. l - m : r.blocks[j] = Ds[m + j]
  BY <1>1, <1>5, <1>6 DEF Replayed
<1>8. CASE m = n
  <2>1. c[n].text = r.text /\ l = m
    BY <1>1, <1>6, <1>8
  <2> QED BY <1>1, <1>7, <2>1 DEF Rewritten
<1>9. CASE n = m + 1 /\ n \in 1 .. n /\ t[n] = Orphans
  <2>1. n - 1 = m
    BY <1>2, <1>9
  <2>2. c[n] = Remaining(r)
    BY <1>1, <1>6, <1>9, <2>1 DEF RunOf, Ran
  <2>3. PICK s \in Seq(Texts(Endless)), x \in Seq(Texts(Endless)) :
          /\ s = r.text /\ x = Listing(r) /\ Len(x) = Len(r.blocks)
          /\ \A k \in 1 .. Len(r.blocks) : x[k] = Listed(r.blocks[k])
          /\ Remaining(r) = [text |-> r.text \o Listing(r), blocks |-> r.blocks]
    BY EndlessFacts, RemainingFacts DEF Runs
  <2>4. PICK q : q = c[n].text /\ q = s \o x
    <3>1. PICK q : q = c[n].text
      OBVIOUS
    <3>2. c[n] = [text |-> s \o x, blocks |-> r.blocks]
      BY <2>2, <2>3
    <3>3. c[n].text = s \o x
      BY <3>2
    <3> QED BY <3>1, <3>3
  <2>5. PICK u \in Nat : u = l - m
    BY <1>2
  <2>6. Len(s) = m /\ Len(x) = u
    BY <1>7, <2>3, <2>5
  <2>7. Len(q) = m + u /\ (\A i \in 1 .. m : q[i] = s[i]) /\ \A i \in 1 .. u : q[m + i] = x[i]
    <3>1. /\ Len(s \o x) = Len(s) + Len(x)
          /\ \A i \in 1 .. Len(s) : (s \o x)[i] = s[i]
          /\ \A i \in 1 .. Len(x) : (s \o x)[Len(s) + i] = x[i]
      BY ConcatFacts
    <3> QED BY <2>4, <2>6, <3>1
  <2>8. m + u = l
    BY <1>2, <2>5
  <2>9. ASSUME NEW i \in 1 .. l PROVE q[i] = IF i <= m THEN p[i] ELSE Listed(Ds[i])
    <3>1. CASE i <= m
      <4>1. i \in 1 .. m
        BY <1>2, <3>1
      <4> QED BY <1>7, <2>3, <2>7, <3>1, <4>1
    <3>2. CASE ~ (i <= m)
      <4>1. PICK j \in 1 .. u : i = m + j
        <5>1. i - m \in 1 .. u /\ i = m + (i - m)
          BY <1>2, <2>8, <3>2
        <5> QED BY <5>1
      <4>2. q[i] = x[j] /\ r.blocks[j] = Ds[i] /\ j \in 1 .. Len(r.blocks)
        BY <1>7, <2>5, <2>7, <4>1
      <4> QED BY <2>3, <3>2, <4>2
    <3> QED BY <3>1, <3>2
  <2> QED BY <1>1, <2>4, <2>7, <2>8, <2>9 DEF Rewritten
<1> QED BY <1>2, <1>8, <1>9

(* Running a template again on what it wrote writes the same.              *)
LEMMA RunsAgain ==
  ASSUME NEW t \in Templates, OrphansLast(t), NEW B \in Seq(Blocks(Endless)),
         NEW f, f = RunTemplate(t, B), Marked(f)
  PROVE  RunTemplate(t, ParseKeepBlocks(f).blocks) = f
<1>1. t \in Seq(Id \cup {Orphans})
  BY KeepAssumption
<1>2. PICK a : RunOf(a, t, B, Endless) /\ f = FlattenSeq(a[Len(t)].text)
  BY <1>1, EndlessFacts, RunStepByStep
<1>3. PICK p \in Seq(Texts(Endless)) : p = a[Len(t)].text
  <2>1. Len(t) \in 0 .. Len(t)
    BY <1>1
  <2> QED BY <1>2, <2>1 DEF RunOf, Runs
<1>4. p \in Seq(Seq(Token)) /\ \A k \in 1 .. Len(p) : p[k] \in Texts(Endless)
  <2>1. Texts(Endless) \subseteq Seq(Token)
    BY EndlessFacts, TextsType
  <2> QED BY <2>1
<1>5. PICK F : Flat(F, p) /\ f = F[Len(p)]
  BY <1>2, <1>3, <1>4, FlattenedStepByStep
<1>6. PICK bs : Reparsed(bs, p) /\ ParseKeepBlocks(f).blocks = bs[Len(p)]
  BY <1>4, <1>5, TextParsed
<1>7. PICK Ds \in Seq(Blocks(Endless)) : Ds = bs[Len(p)]
  <2>1. Len(p) \in 0 .. Len(p)
    OBVIOUS
  <2> QED BY <1>6, <2>1 DEF Reparsed
<1>8. PICK m : m = Asked(t)
  OBVIOUS
<1>9. /\ Named(p, t, m) /\ (m = Len(t) => Len(p) = m)
      /\ \A k \in 1 .. Len(p) : k <= m \/ p[k] = <<>>
           \/ \E d \in Blocks(Endless) : d.content # <<>> /\ p[k] = Format(d)
  BY <1>1, <1>2, <1>3, <1>8, FirstRun
<1>10. /\ m <= Len(Ds) /\ \A k \in 1 .. m : Ds[k].id = t[k] /\ Format(Ds[k]) = p[k]
       /\ \A k \in 0 .. m : Len(bs[k]) = k
  BY <1>4, <1>6, <1>7, <1>9, FirstNames
<1>11. m = Len(t) => Len(Ds) = m
  <2>1. m \in 0 .. m
    BY <1>1, <1>8, AskedFacts
  <2> QED BY <1>7, <1>9, <1>10, <2>1
<1>12. PICK c : RunOf(c, t, Ds, Endless) /\ RunTemplate(t, Ds) = FlattenSeq(c[Len(t)].text)
  BY <1>1, EndlessFacts, RunStepByStep
<1>13. PICK q \in Seq(Seq(Token)) : q = c[Len(t)].text
  <2>1. Len(t) \in 0 .. Len(t)
    BY <1>1
  <2>2. c[Len(t)].text \in Seq(Texts(Endless))
    BY <1>12, <2>1 DEF RunOf, Runs
  <2>3. Texts(Endless) \subseteq Seq(Token)
    BY EndlessFacts, TextsType
  <2> QED BY <2>2, <2>3
<1>14. Rewritten(q, p, Ds, m)
  BY <1>1, <1>4, <1>8, <1>10, <1>11, <1>12, <1>13, SecondRun
<1>15. FlattenSeq(q) = FlattenSeq(p)
  BY <1>4, <1>6, <1>7, <1>9, <1>14, Rejoined
<1> QED BY <1>2, <1>3, <1>6, <1>7, <1>12, <1>13, <1>15

(* A generated file that has no comment with "pragma".                     *)
LEMMA PlainMarked ==
  ASSUME NEW f \in Seq(Token), \A i \in 1 .. Len(f) : ~ PragmaBegin(f[i]) /\ ~ PragmaEnd(f[i])
  PROVE  Marked(f)
<1>1. FormOf(f) = "icglue"
  <2>1. DOMAIN f = 1 .. Len(f)
    OBVIOUS
  <2>2. \A i \in DOMAIN f : ~ PragmaBegin(f[i])
    BY <2>1
  <2> QED BY <2>2 DEF FormOf, PragmaBegin
<1>2. ASSUME NEW i \in 1 .. Len(f), Begins(f[i]) PROVE IsBegin(f[i], "icglue")
  <2>1. f[i].begin \in Form
    BY <1>2, TokenKinds
  <2> QED BY <1>2, <2>1 DEF Form, PragmaBegin, IsBegin, Begins
<1>3. ASSUME NEW i \in 1 .. Len(f), Ends(f[i]) PROVE IsEnd(f[i], "icglue")
  <2>1. f[i].end \in Form
    BY <1>3, TokenKinds
  <2> QED BY <1>3, <2>1 DEF Form, PragmaEnd, IsEnd, Ends
<1> QED BY <1>1, <1>2, <1>3 DEF Marked

(* A file that nobody edited is what its template wrote, of some blocks.   *)
WrittenBy(t, f) == \E B \in Seq(Blocks(Endless)) : f = RunTemplate(t, B)
SettleInv(f, t) == KeepInv(f) /\ (t \in Templates => WrittenBy(t, f))

(* Generating writes a file of a template; an edit is noted.               *)
LEMMA SettleInvStep ==
  ASSUME ~ MixForms, <<>> \notin Templates, SettleInv(file, generated), [KeepNext]_keepVars
  PROVE  SettleInv(file', generated')
<1>1. KeepInv(file')
  BY KeepInvStep DEF SettleInv
<1>2. ASSUME NEW t \in Templates, Generate(t) PROVE SettleInv(file', generated')
  <2>1. /\ ParseKeepBlocks(file).open = 0 /\ file' = RunTemplate(t, ParseKeepBlocks(file).blocks)
        /\ generated' = t
    BY <1>2 DEF Generate
  <2>2. file \in Seq(Token) /\ Cardinality(Forms(file)) <= 1
    BY <2>1, ParsedForms DEF SettleInv, KeepInv
  <2>3. ParseKeepBlocks(file).blocks \in Seq(Blocks(Endless))
    BY <2>2, ParsedEndless
  <2> QED BY <1>1, <2>1, <2>3 DEF SettleInv, WrittenBy
<1>3. ASSUME UNCHANGED keepVars PROVE SettleInv(file', generated')
  BY <1>3 DEF keepVars
<1>4. ASSUME generated' = <<>> PROVE SettleInv(file', generated')
  BY <1>1, <1>4 DEF SettleInv
<1> QED BY <1>2, <1>3, <1>4 DEF KeepNext, GenerateFails, Edit, Insert, Delete

(* Parsing and running the template again writes the file again.           *)
LEMMA RegenerateStep ==
  ASSUME NEW t \in Templates, OrphansLast(t), SettleInv(file, generated), generated = t, Generate(t)
  PROVE  file' = file
<1>1. /\ ParseKeepBlocks(file).open = 0 /\ file' = RunTemplate(t, ParseKeepBlocks(file).blocks)
  BY DEF Generate
<1>2. PICK B \in Seq(Blocks(Endless)) : file = RunTemplate(t, B)
  BY DEF SettleInv, WrittenBy
<1>3. file \in Seq(Token) /\ Unended(file)
  BY <1>2, GeneratedUnended
<1>4. \A i \in 1 .. Len(file) : ~ PragmaBegin(file[i])
  BY <1>1, <1>3, ParsedUnended
<1>5. Marked(file)
  BY <1>3, <1>4, PlainMarked DEF Unended
<1> QED BY <1>1, <1>2, <1>5, RunsAgain

(* Generating a file that nobody edited again, with the same template,     *)
(* changes nothing: the parser finds the blocks that were written, each    *)
(* pop takes the block it wrote, and the same blocks are left to be        *)
(* listed.  This is of files with comments of one form and of templates    *)
(* that list the orphaned blocks last, or not at all; for the template of  *)
(* Verilog modules, which asks for a block behind them, it is false.       *)
THEOREM KeepRegenerates ==
  ASSUME ~ MixForms, <<>> \notin Templates, \A t \in Templates : OrphansLast(t)
  PROVE  KeepSpec => RegenerateSettles
<1> DEFINE Settled == \A t \in Templates : generated = t /\ Generate(t) => file' = file
           Good == SettleInv(file, generated)
<1>1. KeepInit => Good
  <2> SUFFICES ASSUME KeepInit PROVE Good
    OBVIOUS
  <2>1. KeepInv(file)
    BY KeepInvInit
  <2>2. generated \notin Templates
    BY DEF KeepInit
  <2> QED BY <2>1, <2>2 DEF SettleInv
<1>2. Good /\ [KeepNext]_keepVars => Good'
  BY SettleInvStep
<1>3. Good /\ [KeepNext]_keepVars => [Settled]_keepVars
  <2> SUFFICES ASSUME Good PROVE Settled
    OBVIOUS
  <2> QED BY RegenerateStep
<1>4. RegenerateSettles <=> [][Settled]_keepVars
  BY DEF RegenerateSettles
<1> HIDE DEF Settled, Good
<1>5. KeepInit /\ [][KeepNext]_keepVars => [][Settled]_keepVars
  BY <1>1, <1>2, <1>3, PTL
<1> QED BY <1>4, <1>5 DEF KeepSpec
=============================================================================
