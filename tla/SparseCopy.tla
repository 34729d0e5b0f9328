----------------------------- MODULE SparseCopy -----------------------------
(***************************************************************************)
(* sparser.c of t1: the copy that seeks over blocks of zeros instead of    *)
(* writing them.  The input is a file, whose reads are whole, or a pipe,   *)
(* whose reads may be short.  A byte is 0 or 1, as in the files of the     *)
(* generator; the file system allocates blocks of FsBlock bytes.           *)
(***************************************************************************)
EXTENDS Integers

CONSTANTS
  MaxLen,      \* bound on the length of the input
  Buffers,     \* the block sizes on the command line
  FsBlock

ASSUME SizesAssumption ==
  MaxLen \in Nat /\ Buffers \subseteq Nat /\ FsBlock \in Nat \ {0}

VARIABLES
  pc,             \* "copy", "close", and "done" for status 0, "failed" for 1
  input, length, source,   \* what read() delivers
  buffer,         \* buffer_size
  total, skip,    \* total_size, skip
  out, size, offset, alloc \* the output: bytes, length, position, FS blocks

inputVars == <<input, length, source, buffer>>
outputVars == <<out, size, offset, alloc>>
copyVars == <<pc, inputVars, total, skip, outputVars>>

Offsets == 0..MaxLen - 1
Byte == {0, 1}
BlockOf(k) == k \div FsBlock
BlocksOf(from, to) == {BlockOf(k) : k \in from..to - 1}

(* What is read and allocated before the first step.                       *)
InitCopy ==
  /\ source \in {"file", "pipe"} /\ buffer \in Buffers
  /\ total = 0 /\ skip = 0
  /\ out = [k \in Offsets |-> 0] /\ size = 0 /\ offset = 0 /\ alloc = {}
Init ==
  /\ pc = "copy" /\ length \in 0..MaxLen
  /\ input \in [Offsets -> Byte] /\ \A k \in Offsets : k >= length => input[k] = 0
  /\ InitCopy

(* The sizes that read() may return: with a buffer of size 0, or at the    *)
(* end of the input, only 0.                                               *)
Wanted == IF buffer < length - total THEN buffer ELSE length - total
Reads == {n \in 1..Wanted : source = "file" => n = Wanted}
(* Mistake: a block counts as empty when its first byte is 0.              *)
FirstIsEmpty(n) == input[total] = 0
IsEmpty(n) == \A k \in total..total + n - 1 : input[k] = 0

(* write() of m of the bytes at position at, behind a hole.                *)
Write(at, m) ==
  /\ out' = [k \in Offsets |->
               IF k \in at..at + m - 1 THEN input[total + k - at] ELSE out[k]]
  /\ offset' = at + m
  /\ size' = IF m > 0 THEN at + m ELSE size
  /\ alloc' = alloc \cup BlocksOf(at, at + m)

(* Mistake: blocks of zeros are written like all others.                   *)
ReadEmptyWrites ==
  /\ pc = "copy"
  /\ \E n \in Reads :
       /\ IsEmpty(n) /\ Write(offset + skip, n)
       /\ total' = total + n
  /\ UNCHANGED <<pc, inputVars, skip>>
ReadEmpty ==
  /\ pc = "copy"
  /\ \E n \in Reads :
       /\ IsEmpty(n)
       /\ total' = total + n /\ skip' = skip + n
  /\ UNCHANGED <<pc, inputVars, outputVars>>
(* Mistake: the hole counts again when the next data is written.           *)
ReadDataKeepsSkip ==
  /\ pc = "copy"
  /\ \E n \in Reads :
       /\ ~IsEmpty(n) /\ Write(offset + skip, n)
       /\ total' = total + n
  /\ UNCHANGED <<pc, inputVars, skip>>
ReadData ==
  /\ pc = "copy"
  /\ \E n \in Reads :
       /\ ~IsEmpty(n) /\ Write(offset + skip, n)
       /\ total' = total + n /\ skip' = 0
  /\ UNCHANGED <<pc, inputVars>>
(* A write that is short, or fails, ends the copy with status 1.           *)
WriteFails ==
  /\ pc = "copy" /\ pc' = "failed"
  /\ \E n \in Reads, m \in 0..Wanted :
       /\ m < n /\ ~IsEmpty(n) /\ Write(offset + skip, m)
       /\ total' = total + n /\ skip' = 0
  /\ UNCHANGED inputVars
(* Mistake: the loop waits for the whole length.                           *)
TruncateAtLength ==
  /\ pc = "copy" /\ total = length
  /\ size' = total /\ pc' = "close"
  /\ UNCHANGED <<inputVars, total, skip, out, offset, alloc>>
(* Mistake: the length is what was written.                                *)
TruncateAtOffset ==
  /\ pc = "copy" /\ Reads = {}
  /\ size' = offset /\ pc' = "close"
  /\ UNCHANGED <<inputVars, total, skip, out, offset, alloc>>
Truncate ==
  /\ pc = "copy" /\ Reads = {}
  /\ size' = total /\ pc' = "close"
  /\ UNCHANGED <<inputVars, total, skip, out, offset, alloc>>
(* read(), lseek(), ftruncate() or close() fails, or the process is killed.*)
Fails ==
  /\ pc \in {"copy", "close"} /\ pc' = "failed"
  /\ UNCHANGED <<inputVars, total, skip, outputVars>>
CloseFiles ==
  /\ pc = "close" /\ pc' = "done"
  /\ UNCHANGED <<inputVars, total, skip, outputVars>>

CopyStep ==
  ReadEmpty \/ ReadData \/ WriteFails \/ Truncate \/ Fails \/ CloseFiles
Spec == Init /\ [][CopyStep]_copyVars

-----------------------------------------------------------------------------
CopyTypeOK ==
  /\ pc \in {"copy", "close", "done", "failed"}
  /\ length \in 0..MaxLen /\ input \in [Offsets -> Byte]
  /\ source \in {"file", "pipe"} /\ buffer \in Buffers
  /\ total \in 0..length /\ skip \in 0..length
  /\ out \in [Offsets -> Byte] /\ offset \in 0..length /\ size \in 0..length
  /\ alloc \subseteq BlocksOf(0, MaxLen)

(* Whenever the copy stops, also when it is killed or the disk is full, the*)
(* output is a prefix of the input: no byte is at a wrong place.           *)
AlwaysAPrefix == \A k \in Offsets : k < size => out[k] = input[k]

(* Status 0 is a promise: the output reads like the input, also when that  *)
(* ends in zeros that were never written (lines 24 to 35 and 49).  Only a  *)
(* block size of 0 breaks it, whose copy is empty.                         *)
StatusZeroIsCopy ==
  pc = "done" =>
    /\ size = IF buffer = 0 THEN 0 ELSE length
    /\ \A k \in Offsets : k < size => out[k] = input[k]

(* t1/README.md, points 2 and 5 and the conclusion: no copy does with fewer*)
(* blocks of the file system than hold data, and whole reads into a buffer *)
(* that divides these blocks take no more.  Other buffers, and the short   *)
(* reads of a pipe, waste blocks, but none whose bytes are all as far as a *)
(* buffer from any data.                                                   *)
NonZeroBlocks == {BlockOf(k) : k \in {j \in 0..length - 1 : input[j] # 0}}
NearData(a) ==
  \E j, k \in 0..length - 1 :
    BlockOf(j) = a /\ input[k] # 0 /\ j - k < buffer /\ k - j < buffer
BlocksAsDocumented ==
  pc = "done" /\ buffer > 0 =>
    /\ NonZeroBlocks \subseteq alloc
    /\ source = "file" /\ FsBlock % buffer = 0 => alloc = NonZeroBlocks
    /\ \A a \in alloc : NearData(a)

(* What the induction needs besides: the position in the output, after the *)
(* hole that is due, is the position in the input; the hole is zeros; and  *)
(* all data that was read is in blocks of the file system.                 *)
Going == pc \in {"copy", "close", "done"}
InStep ==
  /\ pc = "copy" => size = offset
  /\ Going => offset + skip = total
  /\ pc \in {"close", "done"} =>
       size = total /\ total = IF buffer = 0 THEN 0 ELSE length
  /\ buffer = 0 => total = 0
HoleIsZero ==
  /\ \A k \in Offsets : k >= offset => out[k] = 0
  /\ Going => \A k \in Offsets : k >= offset /\ k < total => input[k] = 0
DataIsAllocated ==
  Going => \A k \in 0..total - 1 : input[k] # 0 => BlockOf(k) \in alloc
CopyIInv ==
  CopyTypeOK /\ InStep /\ HoleIsZero /\ DataIsAllocated /\ AlwaysAPrefix
=============================================================================
