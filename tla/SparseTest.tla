----------------------------- MODULE SparseTest -----------------------------
(***************************************************************************)
(* t1/runme.sh: the generator of fake sparse files and a copy of what it   *)
(* made, or of any other input.                                            *)
(***************************************************************************)
EXTENDS SparseCopy

CONSTANT FileLength    \* DEFAULT_FILE_LENGTH

ASSUME LengthAssumption == FileLength \in 0..MaxLen

VARIABLES
  span,      \* is_data_span_now
  block      \* buffer_size of the generator

vars == <<copyVars, span, block>>

InitGenerate ==
  /\ pc = "generate" /\ span \in BOOLEAN /\ block \in Buffers
  /\ input = [k \in Offsets |-> 0] /\ length = 0
InitAny == Init /\ span = FALSE /\ block = 0

(* The bytes from..to - 1 of the next n are data, the others zeros.        *)
AppendBlock(n, from, to) ==
  /\ input' = [k \in Offsets |->
                 IF k \in length + from..length + to - 1 THEN 1 ELSE input[k]]
  /\ length' = length + n
  /\ UNCHANGED <<pc, source, buffer, total, skip, outputVars, block>>
Whole == FileLength - (FileLength % block)
BlocksLeft == pc = "generate" /\ block > 0 /\ length < Whole

(* Mistake: a data block does not begin a span.                            *)
DataBlockAlone ==
  /\ BlocksLeft
  /\ \E from \in IF span THEN {0} ELSE 0..block - 1 : AppendBlock(block, from, block)
  /\ UNCHANGED span
DataBlock ==
  /\ BlocksLeft
  /\ \E from \in IF span THEN {0} ELSE 0..block - 1 : AppendBlock(block, from, block)
  /\ span' = TRUE
LastOfSpan ==
  /\ BlocksLeft /\ span
  /\ \E to \in 0..block - 1 : AppendBlock(block, 0, to)
  /\ span' = FALSE
EmptyBlock ==
  /\ BlocksLeft /\ ~span
  /\ AppendBlock(block, 0, 0)
  /\ UNCHANGED span
(* The rest of the file is data.  runme.sh goes on only after status 0.    *)
Remainder ==
  /\ pc = "generate" /\ block > 0 /\ ~BlocksLeft
  /\ pc' = "copy"
  /\ input' = [k \in Offsets |-> IF k \in length..FileLength - 1 THEN 1 ELSE input[k]]
  /\ length' = FileLength
  /\ UNCHANGED <<source, buffer, total, skip, outputVars, span, block>>
(* A write fails, or the division by a block size of 0 raises SIGFPE.      *)
GenerateFails ==
  /\ pc = "generate" /\ pc' = "failed"
  /\ UNCHANGED <<inputVars, total, skip, outputVars, span, block>>

GenerateStep ==
  DataBlock \/ LastOfSpan \/ EmptyBlock \/ Remainder \/ GenerateFails
Next == GenerateStep \/ (CopyStep /\ UNCHANGED <<span, block>>)
(* Both programs run, and the writer of a pipe goes on or closes it; no    *)
(* call has to fail, except the division by 0.                             *)
Works == Next /\ (pc' = "failed" => pc = "generate" /\ block = 0)
TestSpec ==
  ((InitGenerate /\ InitCopy) \/ InitAny) /\ [][Next]_vars /\ WF_vars(Works)

-----------------------------------------------------------------------------
(* The types, and the inductive invariant of the copy from the end of the  *)
(* generator on.                                                           *)
CopyInvariant ==
  /\ span \in BOOLEAN /\ block \in Buffers \cup {0}
  /\ IF pc = "generate" THEN length \in 0..FileLength ELSE CopyIInv

(* The comment in lines 24 to 29 of the generator: spans of data go on over*)
(* the borders of blocks, and between two blocks there is one change at    *)
(* most; the file has its length and ends in data.                         *)
Changes(b) ==
  {k \in (b * block)..((b + 1) * block - 1) : k > 0 /\ input[k] # input[k - 1]}
SpansAsCommented ==
  pc \in {"copy", "close", "done"} /\ block > 0 =>
    /\ length = FileLength
    /\ \A b \in 0..FileLength \div block - 1 :
         \A j, k \in Changes(b) : j = k
    /\ \A k \in Whole..FileLength - 1 : input[k] = 1

(* Copies end, whatever the input and the block size.                      *)
CopyEnds == <>(pc \in {"done", "failed"})
=============================================================================
