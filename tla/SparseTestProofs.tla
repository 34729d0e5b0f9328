--------------------------- MODULE SparseTestProofs ---------------------------
(***************************************************************************)
(* Proofs about SparseCopy and SparseTest, for every input, block size and *)
(* FsBlock: what a copy with status 0 promises, what is left of one that   *)
(* failed, and which files the generator makes.                            *)
(***************************************************************************)
EXTENDS SparseTest, TLAPS

-----------------------------------------------------------------------------
(* What read() returns: something unless the input is at its end or the    *)
(* buffer has no room.                                                     *)
LEMMA ReadsAreBounded ==
  ASSUME length \in Nat, total \in 0..length, buffer \in Nat
  PROVE  /\ \A n \in Reads : n \in Nat \ {0} /\ total + n <= length /\ buffer # 0
         /\ Reads = {} => total = length \/ buffer = 0
<1>1. Wanted \in Nat /\ Wanted <= length - total /\ Wanted <= buffer
  BY DEF Wanted
<1>2. ASSUME NEW n \in Reads
      PROVE  n \in Nat \ {0} /\ total + n <= length /\ buffer # 0
  BY <1>1, <1>2 DEF Reads
<1>3. ASSUME Reads = {}
      PROVE  total = length \/ buffer = 0
  <2>1. Wanted \notin 1..Wanted
    BY <1>3 DEF Reads
  <2> QED BY <2>1, <1>1 DEF Wanted
<1> QED BY <1>2, <1>3

(* The blocks of a range of bytes are those of its bytes.                  *)
LEMMA BlocksOfRange ==
  ASSUME NEW from \in Int, NEW to \in Int, NEW k \in from..to - 1
  PROVE  BlockOf(k) \in BlocksOf(from, to)
BY DEF BlocksOf

(* The blocks of a range are among those of the longest file.              *)
LEMMA BlocksGrow ==
  ASSUME NEW from \in Nat, NEW to \in Int, to <= MaxLen
  PROVE  BlocksOf(from, to) \subseteq BlocksOf(0, MaxLen)
<1>1. from..to - 1 \subseteq 0..MaxLen - 1
  BY SizesAssumption
<1> QED BY <1>1 DEF BlocksOf

(* A write behind the hole that is due: what it leaves in the output, of   *)
(* which it writes m bytes.                                                *)
LEMMA WriteInStep ==
  ASSUME CopyIInv, pc = "copy", NEW n \in Reads, NEW m \in 0..n,
         Write(offset + skip, m)
  PROVE  /\ out' \in [Offsets -> Byte]
         /\ offset' = total + m /\ offset' \in 0..length
         /\ size' = IF m > 0 THEN total + m ELSE size
         /\ \A k \in Offsets : k < total + m => out'[k] = input[k]
         /\ \A k \in Offsets : k >= total + m => out'[k] = 0
         /\ alloc' = alloc \cup BlocksOf(total, total + m)
         /\ alloc' \subseteq BlocksOf(0, MaxLen)
<1> USE SizesAssumption
<1>1. /\ total \in Nat /\ length \in Nat /\ length <= MaxLen /\ skip \in Nat
      /\ offset \in Nat /\ offset + skip = total /\ size = offset
      /\ total \in 0..length /\ buffer \in Nat
      /\ input \in [Offsets -> Byte] /\ out \in [Offsets -> Byte]
  BY DEF CopyIInv, CopyTypeOK, InStep, Going
<1>2. n \in Nat \ {0} /\ total + n <= length
  BY <1>1, ReadsAreBounded
<1>3. m \in Nat /\ m <= n /\ total + m <= length
  BY <1>1, <1>2
<1>4. /\ out' = [k \in Offsets |->
                   IF k \in total..total + m - 1 THEN input[total + k - total] ELSE out[k]]
      /\ offset' = total + m
      /\ size' = IF m > 0 THEN total + m ELSE size
      /\ alloc' = alloc \cup BlocksOf(total, total + m)
  BY <1>1 DEF Write
<1>5. \A k \in Offsets : k \in Int
  BY DEF Offsets
<1>6. \A k \in Offsets :
        out'[k] = IF k >= total /\ k < total + m THEN input[k] ELSE out[k]
  BY <1>1, <1>3, <1>4, <1>5
<1>7. out' \in [Offsets -> Byte]
  BY <1>1, <1>4, <1>5, <1>3
<1>8. ASSUME NEW k \in Offsets, k < total + m
      PROVE  out'[k] = input[k]
  <2>1. CASE k >= total
    BY <2>1, <1>6, <1>8
  <2>2. CASE k < total /\ k >= offset
    <3>1. out[k] = 0 /\ input[k] = 0
      BY <2>2 DEF CopyIInv, HoleIsZero, Going
    <3> QED BY <3>1, <2>2, <1>6, <1>5, <1>1
  <2>3. CASE k < offset
    <3>1. out[k] = input[k]
      BY <2>3, <1>1 DEF CopyIInv, AlwaysAPrefix
    <3> QED BY <3>1, <2>3, <1>6, <1>5, <1>1
  <2> QED BY <2>1, <2>2, <2>3, <1>1, <1>5
<1>9. ASSUME NEW k \in Offsets, k >= total + m
      PROVE  out'[k] = 0
  <2>1. k >= offset /\ ~(k < total + m)
    BY <1>9, <1>1, <1>3, <1>5
  <2> QED BY <2>1, <1>6 DEF CopyIInv, HoleIsZero
<1>10. alloc' \subseteq BlocksOf(0, MaxLen)
  <2>1. BlocksOf(total, total + m) \subseteq BlocksOf(0, MaxLen)
    BY <1>1, <1>3, BlocksGrow
  <2> QED BY <2>1, <1>4 DEF CopyIInv, CopyTypeOK
<1> QED BY <1>1, <1>3, <1>4, <1>7, <1>8, <1>9, <1>10

-----------------------------------------------------------------------------
(* The copy starts with nothing read and nothing written.                  *)
LEMMA CopyInit == Init => CopyIInv
<1> SUFFICES ASSUME Init PROVE CopyIInv
  OBVIOUS
<1> USE SizesAssumption DEF Init, InitCopy
<1>1. CopyTypeOK
  BY DEF CopyTypeOK, Byte, BlocksOf
<1>2. InStep /\ HoleIsZero /\ DataIsAllocated /\ AlwaysAPrefix
  BY DEF InStep, HoleIsZero, DataIsAllocated, AlwaysAPrefix, Going, Offsets
<1> QED BY <1>1, <1>2 DEF CopyIInv

(* Every read, write, seek and failure keeps the invariant.                *)
LEMMA CopyInduction == CopyIInv /\ [CopyStep]_copyVars => CopyIInv'
<1> SUFFICES ASSUME CopyIInv, [CopyStep]_copyVars
             PROVE  CopyIInv'
  OBVIOUS
<1> USE SizesAssumption
<1>1. /\ total \in Nat /\ length \in Nat /\ length <= MaxLen /\ skip \in Nat
      /\ offset \in Nat /\ size \in Nat /\ buffer \in Nat /\ total \in 0..length
      /\ \A k \in Offsets : k \in Nat
  BY DEF CopyIInv, CopyTypeOK, Offsets
<1>2. CASE ReadEmpty
  <2>1. PICK n \in Reads : IsEmpty(n) /\ total' = total + n /\ skip' = skip + n
    BY <1>2 DEF ReadEmpty
  <2>2. n \in Nat \ {0} /\ total + n <= length /\ buffer # 0
    BY <1>1, ReadsAreBounded
  <2>3. /\ pc = "copy" /\ UNCHANGED <<pc, input, length, source, buffer>>
        /\ UNCHANGED <<out, size, offset, alloc>>
    BY <1>2 DEF ReadEmpty, inputVars, outputVars
  <2>4. offset + skip = total
    BY <2>3 DEF CopyIInv, InStep, Going
  <2>5. CopyTypeOK'
    BY <2>1, <2>2, <2>3, <2>4, <1>1 DEF CopyIInv, CopyTypeOK
  <2>6. InStep'
    BY <2>1, <2>2, <2>3, <2>4, <1>1 DEF CopyIInv, InStep, Going
  <2>7. \A k \in total..total + n - 1 : input[k] = 0
    BY <2>1 DEF IsEmpty
  <2>8. HoleIsZero'
    <3>1. ASSUME NEW k \in Offsets, k >= offset, k < total + n
          PROVE  input[k] = 0
      <4>1. CASE k < total
        BY <4>1, <3>1, <2>3 DEF CopyIInv, HoleIsZero, Going
      <4>2. CASE k >= total
        BY <4>2, <3>1, <2>2, <2>7, <1>1
      <4> QED BY <4>1, <4>2, <1>1
    <3> QED BY <3>1, <2>1, <2>3 DEF CopyIInv, HoleIsZero, Going
  <2>9. DataIsAllocated'
    <3>0. total' = total + n /\ input' = input
      BY <2>1, <2>3
    <3>1. ASSUME NEW k \in 0..total' - 1, input'[k] # 0
          PROVE  BlockOf(k) \in alloc'
      <4>1. k \in 0..total - 1
        BY <3>0, <3>1, <2>2, <2>7, <1>1
      <4> QED BY <4>1, <3>0, <3>1, <2>3 DEF CopyIInv, DataIsAllocated, Going
    <3> QED BY <3>1 DEF DataIsAllocated
  <2>10. AlwaysAPrefix'
    BY <2>3 DEF CopyIInv, AlwaysAPrefix
  <2> QED BY <2>5, <2>6, <2>8, <2>9, <2>10 DEF CopyIInv
<1>3. CASE ReadData
  <2>1. PICK n \in Reads : /\ Write(offset + skip, n)
                           /\ total' = total + n /\ skip' = 0
    BY <1>3 DEF ReadData
  <2>2. n \in Nat \ {0} /\ total + n <= length /\ buffer # 0
    BY <1>1, ReadsAreBounded
  <2>3. pc = "copy" /\ UNCHANGED <<pc, input, length, source, buffer>>
    BY <1>3 DEF ReadData, inputVars
  <2>4. n \in 0..n
    BY <2>2
  <2>5. /\ out' \in [Offsets -> Byte]
        /\ offset' = total + n /\ size' = total + n
        /\ \A k \in Offsets : k < total + n => out'[k] = input[k]
        /\ \A k \in Offsets : k >= total + n => out'[k] = 0
        /\ alloc' = alloc \cup BlocksOf(total, total + n)
        /\ alloc' \subseteq BlocksOf(0, MaxLen)
    BY <2>1, <2>2, <2>3, <2>4, WriteInStep
  <2>6. CopyTypeOK'
    BY <2>1, <2>2, <2>3, <2>5, <1>1 DEF CopyIInv, CopyTypeOK
  <2>7. InStep' /\ HoleIsZero' /\ AlwaysAPrefix'
    BY <2>1, <2>2, <2>3, <2>5, <1>1 DEF InStep, HoleIsZero, AlwaysAPrefix, Going
  <2>8. DataIsAllocated'
    <3>0. total' = total + n /\ input' = input
      BY <2>1, <2>3
    <3>1. ASSUME NEW k \in 0..total' - 1, input'[k] # 0
          PROVE  BlockOf(k) \in alloc'
      <4>1. CASE k \in 0..total - 1
        BY <4>1, <3>0, <3>1, <2>3, <2>5 DEF CopyIInv, DataIsAllocated, Going
      <4>2. CASE k \in total..total + n - 1
        BY <4>2, <2>2, <2>5, <1>1, BlocksOfRange
      <4> QED BY <4>1, <4>2, <3>0, <3>1, <2>2, <1>1
    <3> QED BY <3>1 DEF DataIsAllocated
  <2> QED BY <2>6, <2>7, <2>8 DEF CopyIInv
<1>4. CASE WriteFails
  <2>1. PICK n \in Reads, m \in 0..Wanted :
          m < n /\ Write(offset + skip, m) /\ total' = total + n /\ skip' = 0
    BY <1>4 DEF WriteFails
  <2>2. n \in Nat \ {0} /\ total + n <= length /\ buffer # 0
    BY <1>1, ReadsAreBounded
  <2>3. /\ pc = "copy" /\ pc' = "failed"
        /\ UNCHANGED <<input, length, source, buffer>>
    BY <1>4 DEF WriteFails, inputVars
  <2>4. m \in 0..n
    BY <2>1, <2>2, <1>1 DEF Wanted
  <2>5. /\ out' \in [Offsets -> Byte]
        /\ offset' = total + m /\ offset' \in 0..length
        /\ size' = IF m > 0 THEN total + m ELSE size
        /\ \A k \in Offsets : k < total + m => out'[k] = input[k]
        /\ \A k \in Offsets : k >= total + m => out'[k] = 0
        /\ alloc' \subseteq BlocksOf(0, MaxLen)
    BY <2>1, <2>3, <2>4, WriteInStep
  <2>6. size <= total
    BY <2>3, <1>1 DEF CopyIInv, InStep, Going
  <2>7. size' \in 0..length /\ size' <= total + m
    BY <2>4, <2>5, <2>6, <2>2, <1>1
  <2>8. CopyTypeOK'
    BY <2>1, <2>2, <2>3, <2>5, <2>7, <1>1 DEF CopyIInv, CopyTypeOK
  <2>9. InStep' /\ HoleIsZero' /\ DataIsAllocated'
    BY <2>1, <2>2, <2>3, <2>5, <1>1 DEF InStep, HoleIsZero, DataIsAllocated, Going
  <2>10. AlwaysAPrefix'
    BY <2>3, <2>4, <2>5, <2>7, <1>1 DEF AlwaysAPrefix
  <2> QED BY <2>8, <2>9, <2>10 DEF CopyIInv
<1>5. CASE Truncate
  <2>1. /\ pc = "copy" /\ pc' = "close" /\ size' = total
        /\ UNCHANGED <<input, length, source, buffer, total, skip, out, offset, alloc>>
        /\ Reads = {}
    BY <1>5 DEF Truncate, inputVars
  <2>2. total = length \/ buffer = 0
    BY <2>1, <1>1, ReadsAreBounded
  <2>3. CopyTypeOK'
    BY <2>1, <1>1 DEF CopyIInv, CopyTypeOK
  <2>4. InStep'
    BY <2>1, <2>2, <1>1 DEF CopyIInv, InStep, Going
  <2>5. HoleIsZero' /\ DataIsAllocated'
    BY <2>1 DEF CopyIInv, HoleIsZero, DataIsAllocated, Going
  <2>6. ASSUME NEW k \in Offsets, k < total
        PROVE  out[k] = input[k]
    <3>1. CASE k < offset
      BY <3>1, <2>1 DEF CopyIInv, InStep, AlwaysAPrefix
    <3>2. CASE k >= offset
      BY <3>2, <2>6, <2>1 DEF CopyIInv, HoleIsZero, Going
    <3> QED BY <3>1, <3>2, <1>1
  <2>7. AlwaysAPrefix'
    BY <2>6, <2>1 DEF AlwaysAPrefix
  <2> QED BY <2>3, <2>4, <2>5, <2>7 DEF CopyIInv
<1>6. CASE Fails \/ CloseFiles
  <2>1. /\ pc' = "failed" \/ (pc = "close" /\ pc' = "done")
        /\ UNCHANGED <<input, length, source, buffer, total, skip>>
        /\ UNCHANGED <<out, size, offset, alloc>>
    BY <1>6 DEF Fails, CloseFiles, inputVars, outputVars
  <2>2. CopyTypeOK'
    BY <2>1 DEF CopyIInv, CopyTypeOK
  <2>3. InStep' /\ HoleIsZero' /\ DataIsAllocated' /\ AlwaysAPrefix'
    BY <2>1 DEF CopyIInv, InStep, HoleIsZero, DataIsAllocated, AlwaysAPrefix, Going
  <2> QED BY <2>2, <2>3 DEF CopyIInv
<1>7. CASE UNCHANGED copyVars
  BY <1>7 DEF copyVars, inputVars, outputVars, CopyIInv, CopyTypeOK, InStep,
              HoleIsZero, DataIsAllocated, AlwaysAPrefix, Going
<1> QED BY <1>2, <1>3, <1>4, <1>5, <1>6, <1>7 DEF CopyStep

(* The induction: the input and the output stay in step.                   *)
THEOREM CopyIInvHolds == Spec => []CopyIInv
BY CopyInit, CopyInduction, PTL DEF Spec

(* Wherever the copy stops, the output is a prefix of the input.           *)
THEOREM AlwaysAPrefixHolds == Spec => []AlwaysAPrefix
<1>1. CopyIInv => AlwaysAPrefix
  BY DEF CopyIInv
<1> QED BY <1>1, CopyIInvHolds, PTL

(* A copy with status 0 reads like its input, unless the block size is 0.  *)
THEOREM StatusZeroIsCopyHolds == Spec => []StatusZeroIsCopy
<1>1. CopyIInv => StatusZeroIsCopy
  BY DEF CopyIInv, InStep, AlwaysAPrefix, StatusZeroIsCopy
<1> QED BY <1>1, CopyIInvHolds, PTL

(* A copy with status 0 and a buffer has every block that holds data.      *)
THEOREM DataHasBlocks ==
  Spec => [](pc = "done" /\ buffer > 0 => NonZeroBlocks \subseteq alloc)
<1>1. CopyIInv => (pc = "done" /\ buffer > 0 => NonZeroBlocks \subseteq alloc)
  <2> SUFFICES ASSUME CopyIInv, pc = "done", buffer > 0,
                      NEW k \in 0..length - 1, input[k] # 0
               PROVE  BlockOf(k) \in alloc
    BY DEF NonZeroBlocks
  <2>1. total = length
    BY DEF CopyIInv, InStep
  <2> QED BY <2>1 DEF CopyIInv, DataIsAllocated, Going
<1> QED BY <1>1, CopyIInvHolds, PTL

-----------------------------------------------------------------------------
(* Multiples of b: the next one is b away, and numbers are divided into    *)
(* quotient and remainder.                                                 *)
LEMMA NextMultiple ==
  ASSUME NEW b \in Nat \ {0}, NEW p \in Int, NEW q \in Int, p * b < q * b
  PROVE  (p + 1) * b <= q * b /\ p + 1 <= q
<1>1. ASSUME q <= p PROVE FALSE
  <2>1. PICK r \in Nat : p = q + r
    BY <1>1
  <2>2. r * b >= 0 /\ p * b = q * b + r * b
    BY <2>1
  <2> QED BY <2>2
<1>2. p + 1 <= q
  BY <1>1
<1>3. PICK r \in Nat : q = p + 1 + r
  BY <1>2
<1>4. r * b >= 0 /\ q * b = (p + 1) * b + r * b
  BY <1>3
<1> QED BY <1>2, <1>4

LEMMA Division ==
  ASSUME NEW n \in Nat, NEW b \in Nat \ {0}
  PROVE  /\ n \div b \in Nat /\ n % b \in 0..b - 1
         /\ n = (n \div b) * b + (n % b)
OBVIOUS

LEMMA Quotient ==
  ASSUME NEW b \in Nat \ {0}, NEW q \in Nat, NEW r \in 0..b - 1
  PROVE  (q * b + r) \div b = q
<1> DEFINE n == q * b + r
           p == n \div b
<1>1. n \in Nat
  OBVIOUS
<1>2. p \in Nat /\ n % b \in 0..b - 1 /\ n = p * b + (n % b)
  BY <1>1, Division
<1> HIDE DEF p
<1>3. p * b < (q + 1) * b /\ q * b < (p + 1) * b
  <2>1. p * b \in Int /\ q * b \in Int
    BY <1>2
  <2>2. (q + 1) * b = q * b + b /\ (p + 1) * b = p * b + b
    BY <1>2
  <2> QED BY <1>2, <2>1, <2>2
<1>4. p + 1 <= q + 1 /\ q + 1 <= p + 1
  BY <1>2, <1>3, NextMultiple
<1> QED BY <1>2, <1>4

-----------------------------------------------------------------------------
(* While the generator works, nothing is copied, the file has no data past *)
(* its length, and that is a multiple of the block size.                   *)
NothingCopied ==
  /\ source \in {"file", "pipe"} /\ buffer \in Buffers
  /\ total = 0 /\ skip = 0
  /\ out = [k \in Offsets |-> 0] /\ size = 0 /\ offset = 0 /\ alloc = {}
WholeBlocks ==
  /\ length \in 0..FileLength
  /\ block > 0 => length <= Whole /\ \E q \in Nat : length = q * block
Generating ==
  /\ NothingCopied /\ block \in Buffers /\ WholeBlocks
  /\ input \in [Offsets -> Byte]
  /\ \A k \in Offsets : k >= length => input[k] = 0
TestIInv ==
  /\ span \in BOOLEAN /\ block \in Buffers \cup {0}
  /\ pc = "generate" => Generating
  /\ pc # "generate" => CopyIInv

(* The blocks that the generator draws lots for: as many as fit.           *)
LEMMA WholeIsMultiple ==
  ASSUME block \in Nat \ {0}
  PROVE  /\ Whole = (FileLength \div block) * block
         /\ FileLength \div block \in Nat /\ Whole \in 0..FileLength
<1> DEFINE q == FileLength \div block
           r == FileLength % block
<1>1. FileLength \in Nat
  BY SizesAssumption, LengthAssumption
<1>2. q \in Nat /\ r \in 0..block - 1 /\ FileLength = q * block + r
  BY <1>1, Division
<1>3. Whole = FileLength - r
  BY DEF Whole
<1> HIDE DEF q, r
<1>4. q * block \in Nat
  BY <1>2
<1> QED BY <1>1, <1>2, <1>3, <1>4 DEF q

(* One more block: what the file is then.                                  *)
LEMMA BlockAppended ==
  ASSUME TestIInv, BlocksLeft, NEW from \in 0..block, NEW to \in 0..block,
         AppendBlock(block, from, to)
  PROVE  /\ Generating' /\ pc' = "generate" /\ block' = block
         /\ block \in Nat \ {0} /\ length \in Nat /\ length' = length + block
         /\ \A k \in Offsets :
              input'[k] = IF k >= length + from /\ k < length + to THEN 1 ELSE input[k]
<1>1. /\ pc = "generate" /\ block \in Nat \ {0} /\ length < Whole
      /\ Generating
  BY SizesAssumption DEF TestIInv, BlocksLeft, Generating
<1>2. PICK q \in Nat : length = q * block
  BY <1>1 DEF Generating, WholeBlocks
<1>3. /\ length' = length + block /\ pc' = pc /\ block' = block
      /\ input' = [k \in Offsets |->
                     IF k \in length + from..length + to - 1 THEN 1 ELSE input[k]]
      /\ UNCHANGED <<source, buffer, total, skip, out, size, offset, alloc>>
  BY DEF AppendBlock, outputVars
<1>4. length \in Nat /\ from \in Nat /\ to \in Nat /\ to <= block
  BY <1>1 DEF Generating, WholeBlocks
<1>5. length' <= Whole /\ length' = (q + 1) * block
  <2> DEFINE w == FileLength \div block
  <2>1. Whole = w * block /\ w \in Nat
    BY <1>1, WholeIsMultiple
  <2> HIDE DEF w
  <2>2. (q + 1) * block <= w * block
    BY <1>1, <1>2, <2>1, NextMultiple
  <2>3. (q + 1) * block = q * block + block
    BY <1>1
  <2> QED BY <1>2, <1>3, <2>1, <2>2, <2>3
<1>6. Whole \in 0..FileLength /\ Whole' = Whole
  BY <1>1, <1>3, WholeIsMultiple DEF Whole
<1>7. WholeBlocks'
  <2>1. length' \in 0..FileLength
    <3>1. length' \in Nat /\ length' <= Whole /\ Whole <= FileLength
      <4>1. length' = length + block /\ block \in Nat /\ length \in Nat
        BY <1>1, <1>3, <1>4
      <4>2. length' <= Whole
        BY <1>5
      <4>3. FileLength \in Nat /\ Whole \in 0..FileLength
        BY <1>6, LengthAssumption, SizesAssumption
      <4>4. length' \in Nat
        BY <4>1
      <4>5. Whole <= FileLength
        BY <4>3
      <4> QED BY <4>2, <4>4, <4>5
    <3> QED BY <3>1, <1>6, LengthAssumption, SizesAssumption
  <2>2. q + 1 \in Nat /\ length' = (q + 1) * block'
    BY <1>3, <1>5
  <2> QED BY <1>5, <1>6, <2>1, <2>2 DEF WholeBlocks
<1>8. /\ input' \in [Offsets -> Byte]
      /\ \A k \in Offsets :
           input'[k] = IF k >= length + from /\ k < length + to THEN 1 ELSE input[k]
  BY <1>1, <1>3, <1>4 DEF Generating, Byte, Offsets
<1>9. \A k \in Offsets : k >= length' => input'[k] = 0
  <2>1. \A k \in Offsets : k \in Int
    BY DEF Offsets
  <2> QED BY <1>1, <1>3, <1>4, <1>8, <2>1 DEF Generating
<1> QED BY <1>1, <1>3, <1>4, <1>7, <1>8, <1>9 DEF Generating, NothingCopied

(* The copy begins with the file that was made.                            *)
LEMMA CopyBegins ==
  ASSUME TestIInv, Remainder
  PROVE  /\ CopyIInv' /\ pc = "generate" /\ pc' = "copy"
         /\ block' = block /\ block \in Nat \ {0} /\ length = Whole /\ length' = FileLength
         /\ \A k \in Offsets :
              input'[k] = IF k >= length /\ k < FileLength THEN 1 ELSE input[k]
<1>1. /\ pc = "generate" /\ block \in Nat \ {0} /\ ~(length < Whole)
      /\ Generating
  BY SizesAssumption DEF TestIInv, Remainder, BlocksLeft, Generating
<1>2. FileLength \in 0..MaxLen /\ FileLength \in Nat /\ Whole \in 0..FileLength
  BY <1>1, WholeIsMultiple, LengthAssumption, SizesAssumption
<1>3. length = Whole /\ length \in Nat
  BY <1>1, <1>2 DEF Generating, WholeBlocks
<1>4. /\ pc' = "copy" /\ length' = FileLength /\ block' = block
      /\ input' = [k \in Offsets |-> IF k \in length..FileLength - 1 THEN 1 ELSE input[k]]
      /\ UNCHANGED <<source, buffer, total, skip, out, size, offset, alloc>>
  BY DEF Remainder, outputVars
<1>5. /\ input' \in [Offsets -> Byte]
      /\ \A k \in Offsets :
           input'[k] = IF k >= length /\ k < FileLength THEN 1 ELSE input[k]
  BY <1>1, <1>2, <1>3, <1>4 DEF Generating, Byte, Offsets
<1>6. CopyTypeOK'
  BY <1>1, <1>2, <1>4, <1>5, SizesAssumption
     DEF CopyTypeOK, Generating, NothingCopied, Byte
<1>7. InStep' /\ HoleIsZero' /\ DataIsAllocated' /\ AlwaysAPrefix'
  BY <1>1, <1>2, <1>4
     DEF InStep, HoleIsZero, DataIsAllocated, AlwaysAPrefix, Going, Generating,
         NothingCopied, Offsets
<1> QED BY <1>1, <1>3, <1>4, <1>5, <1>6, <1>7 DEF CopyIInv

(* The copy leaves the file and the generator's variables alone.           *)
LEMMA CopyReadsOnly ==
  ASSUME CopyStep \/ UNCHANGED copyVars
  PROVE  /\ UNCHANGED <<input, length, source, buffer>>
         /\ \/ UNCHANGED pc
            \/ pc \in {"copy", "close"} /\ pc' \in {"close", "done", "failed"}
<1>1. CASE ReadEmpty \/ ReadData \/ UNCHANGED copyVars
  BY <1>1 DEF ReadEmpty, ReadData, inputVars, copyVars
<1>2. CASE WriteFails \/ Truncate \/ Fails \/ CloseFiles
  BY <1>2 DEF WriteFails, Truncate, Fails, CloseFiles, inputVars
<1> QED BY <1>1, <1>2 DEF CopyStep

(* The invariant of the generator and the copy.                            *)
LEMMA TestIInvAlways == TestSpec => []TestIInv
<1>1. (InitGenerate /\ InitCopy) \/ InitAny => TestIInv
  <2>1. ASSUME InitGenerate, InitCopy
        PROVE  TestIInv
    <3>1. WholeBlocks
      <4>1. length = 0 /\ 0 \in 0..FileLength /\ block \in Nat
        BY <2>1, LengthAssumption, SizesAssumption DEF InitGenerate
      <4>2. ASSUME block > 0
            PROVE  length <= Whole /\ length = 0 * block
        BY <4>1, <4>2, WholeIsMultiple
      <4> QED BY <4>1, <4>2 DEF WholeBlocks
    <3> QED BY <2>1, <3>1
            DEF InitGenerate, InitCopy, TestIInv, Generating, NothingCopied, Byte
  <2>2. ASSUME InitAny
        PROVE  TestIInv
    <3>1. pc = "copy" /\ span = FALSE /\ block = 0 /\ CopyIInv
      BY <2>2, CopyInit DEF InitAny, Init
    <3> QED BY <3>1 DEF TestIInv
  <2> QED BY <2>1, <2>2
<1>2. TestIInv /\ [Next]_vars => TestIInv'
  <2> SUFFICES ASSUME TestIInv, [Next]_vars
               PROVE  TestIInv'
    OBVIOUS
  <2>1. CASE DataBlock
    <3>1. PICK from \in 0..block : AppendBlock(block, from, block)
      BY <2>1, SizesAssumption DEF DataBlock, TestIInv, BlocksLeft
    <3>2. block \in 0..block /\ BlocksLeft /\ span' = TRUE
      BY <2>1, SizesAssumption DEF DataBlock, TestIInv, BlocksLeft
    <3> QED BY <3>1, <3>2, BlockAppended DEF TestIInv
  <2>2. CASE LastOfSpan
    <3>1. PICK to \in 0..block : AppendBlock(block, 0, to)
      BY <2>2, SizesAssumption DEF LastOfSpan, TestIInv, BlocksLeft
    <3>2. 0 \in 0..block /\ BlocksLeft /\ span' = FALSE
      BY <2>2, SizesAssumption DEF LastOfSpan, TestIInv, BlocksLeft
    <3> QED BY <3>1, <3>2, BlockAppended DEF TestIInv
  <2>3. CASE EmptyBlock
    <3>1. 0 \in 0..block /\ BlocksLeft /\ span' = span /\ AppendBlock(block, 0, 0)
      BY <2>3, SizesAssumption DEF EmptyBlock, TestIInv, BlocksLeft
    <3> QED BY <3>1, BlockAppended DEF TestIInv
  <2>4. CASE Remainder
    <3>1. span' = span
      BY <2>4 DEF Remainder
    <3> QED BY <2>4, <3>1, CopyBegins DEF TestIInv
  <2>5. CASE GenerateFails
    <3>1. /\ Generating /\ pc' = "failed"
          /\ UNCHANGED <<input, length, source, buffer, total, skip, span, block>>
          /\ UNCHANGED <<out, size, offset, alloc>>
      BY <2>5 DEF GenerateFails, TestIInv, inputVars, outputVars
    <3>2. length \in 0..MaxLen /\ length \in Nat
      BY <3>1, LengthAssumption, SizesAssumption DEF Generating, WholeBlocks
    <3>3. CopyTypeOK'
      BY <3>1, <3>2, SizesAssumption DEF CopyTypeOK, Generating, NothingCopied, Byte
    <3>4. InStep' /\ HoleIsZero' /\ DataIsAllocated' /\ AlwaysAPrefix'
      BY <3>1 DEF InStep, HoleIsZero, DataIsAllocated, AlwaysAPrefix, Going, Generating,
                  NothingCopied, Offsets
    <3> QED BY <3>1, <3>3, <3>4 DEF TestIInv, CopyIInv
  <2>6. CASE CopyStep /\ UNCHANGED <<span, block>>
    <3>1. pc # "generate" /\ pc' # "generate"
      BY <2>6 DEF CopyStep, ReadEmpty, ReadData, WriteFails, Truncate, Fails, CloseFiles
    <3> QED BY <2>6, <3>1, CopyInduction DEF TestIInv
  <2>7. CASE UNCHANGED vars
    BY <2>7 DEF vars, copyVars, inputVars, outputVars, TestIInv, Generating, NothingCopied,
                WholeBlocks, Whole, CopyIInv, CopyTypeOK, InStep, HoleIsZero,
                DataIsAllocated, AlwaysAPrefix, Going
  <2> QED BY <2>1, <2>2, <2>3, <2>4, <2>5, <2>6, <2>7 DEF Next, GenerateStep
<1> QED BY <1>1, <1>2, PTL DEF TestSpec

(* What the generator has made so far fits the file, and from its end on   *)
(* the input and the output stay in step, for every block size.            *)
THEOREM CopyInvariantHolds == TestSpec => []CopyInvariant
<1>1. TestIInv => CopyInvariant
  BY DEF TestIInv, CopyInvariant, Generating, WholeBlocks
<1> QED BY <1>1, TestIInvAlways, PTL

(* The copy of what the generator made, or of any other input, is a prefix *)
(* of it wherever it stops, and with status 0 it is the whole.             *)
THEOREM TestedCopiesHold == TestSpec => [](AlwaysAPrefix /\ StatusZeroIsCopy)
<1>1. TestIInv => AlwaysAPrefix /\ StatusZeroIsCopy
  <2>1. ASSUME TestIInv, pc # "generate"
        PROVE  AlwaysAPrefix /\ StatusZeroIsCopy
    BY <2>1 DEF TestIInv, CopyIInv, InStep, AlwaysAPrefix, StatusZeroIsCopy
  <2>2. ASSUME TestIInv, pc = "generate"
        PROVE  AlwaysAPrefix /\ StatusZeroIsCopy
    BY <2>2 DEF TestIInv, Generating, NothingCopied, AlwaysAPrefix, StatusZeroIsCopy, Offsets
  <2> QED BY <2>1, <2>2
<1> QED BY <1>1, TestIInvAlways, PTL

-----------------------------------------------------------------------------
(* A read of a file with a buffer that divides the blocks of the file      *)
(* system begins at a multiple of the buffer, and stays within one block.  *)
Aligned == source = "file" /\ buffer > 0 /\ FsBlock % buffer = 0

LEMMA OneBlockPerRead ==
  ASSUME buffer \in Nat, Aligned, NEW t \in Nat, NEW r \in 0..buffer - 1
  PROVE  BlockOf(t * buffer + r) = BlockOf(t * buffer)
<1> USE SizesAssumption
<1> DEFINE b == buffer
           c == FsBlock \div b
           at == t * b
           q == at \div FsBlock
           s == at % FsBlock
<1>1. b \in Nat \ {0} /\ c \in Nat /\ FsBlock = c * b /\ FsBlock \in Nat \ {0}
  BY Division DEF Aligned
<1>2. at \in Nat
  BY <1>1
<1> HIDE DEF c
<1>3. q \in Nat /\ s \in 0..FsBlock - 1 /\ at = q * FsBlock + s
  <2> HIDE DEF at
  <2> QED BY <1>1, <1>2, Division
<1> HIDE DEF q, s
<1>4. s = (t - q * c) * b
  <2>1. q * FsBlock = (q * c) * b
    BY <1>1, <1>3
  <2>2. q * c \in Int
    BY <1>1, <1>3
  <2>3. (t - q * c) * b = t * b - (q * c) * b
    BY <1>1, <2>2
  <2> QED BY <1>1, <1>3, <2>1, <2>3
<1>5. s + r \in 0..FsBlock - 1
  <2> DEFINE k == t - q * c
  <2>1. k \in Int /\ s = k * b
    BY <1>1, <1>3, <1>4
  <2> HIDE DEF k
  <2>2. k * b < c * b
    BY <1>1, <1>3, <2>1
  <2>3. (k + 1) * b <= c * b
    BY <1>1, <2>1, <2>2, NextMultiple
  <2>4. (k + 1) * b = k * b + b
    BY <1>1, <2>1
  <2>5. s \in Nat /\ FsBlock \in Nat /\ s + b <= FsBlock /\ r \in Nat /\ r < b
    BY <1>1, <1>3, <2>1, <2>3, <2>4
  <2> QED BY <2>5
<1>6. at + r = q * FsBlock + (s + r)
  <2>1. q * FsBlock \in Int
    BY <1>1, <1>3
  <2> HIDE DEF at
  <2> QED BY <1>1, <1>2, <1>3, <2>1
<1>7. (at + r) \div FsBlock = q /\ at \div FsBlock = q
  BY <1>1, <1>3, <1>5, <1>6, Quotient
<1> QED BY <1>7 DEF BlockOf

(* What such a copy keeps: it is behind a whole number of reads or at the  *)
(* end, and has allocated nothing but blocks with data.                    *)
DataIn(a) == \E k \in 0..total - 1 : input[k] # 0 /\ BlockOf(k) = a
NothingMore ==
  Aligned /\ Going =>
    /\ total = length \/ \E t \in Nat : total = t * buffer
    /\ \A a \in alloc : DataIn(a)

LEMMA NothingMoreAlways == TestSpec => []NothingMore
<1>1. (InitGenerate /\ InitCopy) \/ InitAny => NothingMore
  <2> SUFFICES ASSUME InitCopy PROVE NothingMore
    BY DEF InitAny, Init
  <2>1. total = 0 * buffer /\ alloc = {}
    BY SizesAssumption DEF InitCopy
  <2> QED BY <2>1 DEF NothingMore
<1>2. TestIInv /\ NothingMore /\ [Next]_vars => NothingMore'
  <2> SUFFICES ASSUME TestIInv, NothingMore, [Next]_vars, Aligned', Going'
               PROVE  /\ total' = length' \/ \E t \in Nat : total' = t * buffer'
                      /\ \A a \in alloc' : DataIn(a)'
    BY DEF NothingMore
  <2>1. CASE pc = "generate"
    <3>1. /\ total' = 0 /\ alloc' = {} /\ buffer' = buffer /\ buffer \in Nat
      <4>1. NothingCopied
        BY <2>1 DEF TestIInv, Generating
      <4>2. UNCHANGED <<total, alloc, buffer>>
        BY <2>1 DEF Next, GenerateStep, DataBlock, LastOfSpan, EmptyBlock, Remainder,
             GenerateFails, AppendBlock, outputVars, inputVars, vars, copyVars,
             CopyStep, ReadEmpty, ReadData, WriteFails, Truncate, Fails, CloseFiles
      <4> QED BY <4>1, <4>2, SizesAssumption DEF NothingCopied
    <3>2. total' = 0 * buffer'
      BY <3>1
    <3> QED BY <3>1, <3>2
  <2>2. CASE pc # "generate"
    <3>1. CopyStep \/ UNCHANGED copyVars
      BY <2>2 DEF Next, GenerateStep, DataBlock, LastOfSpan, EmptyBlock, Remainder,
           GenerateFails, BlocksLeft, vars
    <3>2. /\ UNCHANGED <<input, length, source, buffer>> /\ Going
      BY <3>1, CopyReadsOnly DEF Going
    <3>3. /\ total \in Nat /\ length \in Nat /\ total <= length /\ length <= MaxLen
          /\ total \in 0..length
          /\ buffer \in Nat /\ buffer > 0 /\ Aligned /\ CopyIInv
      <4>1. CopyIInv /\ CopyTypeOK
        BY <2>2 DEF TestIInv, CopyIInv
      <4>2. Aligned /\ buffer > 0
        BY <3>2 DEF Aligned
      <4> QED BY <4>1, <4>2, SizesAssumption DEF CopyTypeOK
    <3>4. /\ total = length \/ \E t \in Nat : total = t * buffer
          /\ \A a \in alloc : DataIn(a)
      BY <3>2, <3>3 DEF NothingMore
    <3>5. CASE UNCHANGED <<total, alloc>>
      BY <3>2, <3>4, <3>5 DEF DataIn
    <3>6. ASSUME NEW n \in Reads, total' = total + n
          PROVE  /\ n \in Nat \ {0} /\ total + n <= length
                 /\ total' = length' \/ \E t \in Nat : total' = t * buffer'
                 /\ \A k \in total..total + n - 1 : BlockOf(k) = BlockOf(total)
                 /\ \A a : DataIn(a) => DataIn(a)'
      <4>1. n \in Nat \ {0} /\ total + n <= length
        BY <3>3, ReadsAreBounded
      <4>2. n = Wanted
        BY <3>3 DEF Reads, Aligned
      <4>3. PICK t \in Nat : total = t * buffer
        BY <3>3, <3>4, <4>1
      <4>4. n = buffer \/ total + n = length
        BY <3>3, <4>2 DEF Wanted
      <4>5. n <= buffer
        BY <3>3, <4>1, <4>2 DEF Wanted
      <4>6. total' = length' \/ total' = (t + 1) * buffer'
        <5>1. (t + 1) * buffer = t * buffer + buffer
          BY <3>3
        <5> QED BY <3>2, <3>3, <3>6, <4>3, <4>4, <5>1
      <4>7. ASSUME NEW k \in total..total + n - 1
            PROVE  BlockOf(k) = BlockOf(total)
        <5>1. k - total \in 0..buffer - 1 /\ k = total + (k - total)
          BY <3>3, <4>1, <4>5
        <5> QED BY <3>3, <4>3, <5>1, OneBlockPerRead
      <4>8. \A a : DataIn(a) => DataIn(a)'
        <5>1. 0..total - 1 \subseteq 0..total' - 1
          BY <3>3, <3>6, <4>1
        <5> QED BY <3>2, <5>1 DEF DataIn
      <4> QED BY <4>1, <4>6, <4>7, <4>8
    <3>7. CASE ReadEmpty
      BY <3>4, <3>6, <3>7 DEF ReadEmpty, outputVars
    <3>8. CASE ReadData
      <4>1. PICK n \in Reads : /\ ~IsEmpty(n) /\ Write(offset + skip, n)
                               /\ total' = total + n /\ pc = "copy"
        BY <3>8 DEF ReadData
      <4>2. /\ n \in Nat \ {0}
            /\ total' = length' \/ \E t \in Nat : total' = t * buffer'
            /\ \A k \in total..total + n - 1 : BlockOf(k) = BlockOf(total)
            /\ \A a : DataIn(a) => DataIn(a)'
        BY <3>6, <4>1
      <4>3. alloc' = alloc \cup BlocksOf(total, total + n)
        <5>1. n \in 0..n
          BY <4>2
        <5> QED BY <3>3, <4>1, <5>1, WriteInStep
      <4>4. PICK k \in total..total + n - 1 : input[k] # 0
        BY <4>1 DEF IsEmpty
      <4>5. \A a : a = BlockOf(total) => DataIn(a)'
        <5>1. k \in 0..total' - 1 /\ input'[k] # 0 /\ BlockOf(k) = BlockOf(total)
          BY <3>2, <3>3, <4>1, <4>2, <4>4
        <5> QED BY <5>1 DEF DataIn
      <4>6. ASSUME NEW a \in BlocksOf(total, total + n)
            PROVE  a = BlockOf(total)
        <5>1. a \in {BlockOf(j) : j \in total..(total + n) - 1}
          BY <4>6 DEF BlocksOf
        <5>2. PICK j \in total..(total + n) - 1 : a = BlockOf(j)
          BY <5>1
        <5>3. j \in total..total + n - 1
          BY <3>3, <4>2, <5>2
        <5> QED BY <4>2, <5>2, <5>3
      <4> QED BY <3>4, <4>2, <4>3, <4>5, <4>6
    <3>9. CASE WriteFails \/ Truncate \/ Fails \/ CloseFiles
      <4>1. UNCHANGED <<total, alloc>>
        BY <3>9 DEF WriteFails, Truncate, Fails, CloseFiles, outputVars, Going
      <4> QED BY <3>5, <4>1
    <3>10. CASE UNCHANGED copyVars
      BY <3>5, <3>10 DEF copyVars, outputVars
    <3> QED BY <3>1, <3>7, <3>8, <3>9, <3>10 DEF CopyStep
  <2> QED BY <2>1, <2>2
<1> QED BY <1>1, <1>2, TestIInvAlways, PTL DEF TestSpec

(* Every read that is written holds data, and its bytes are less than a    *)
(* buffer apart: no block is allocated far from data, however short the    *)
(* reads are.                                                              *)
AllNearData == Going => \A a \in alloc : NearData(a)

LEMMA AllNearDataAlways == TestSpec => []AllNearData
<1>1. (InitGenerate /\ InitCopy) \/ InitAny => AllNearData
  BY DEF InitAny, Init, InitCopy, AllNearData
<1>2. TestIInv /\ AllNearData /\ [Next]_vars => AllNearData'
  <2> SUFFICES ASSUME TestIInv, AllNearData, [Next]_vars, Going', NEW a \in alloc'
               PROVE  NearData(a)'
    BY DEF AllNearData
  <2>1. CASE pc = "generate"
    <3>1. alloc = {}
      BY <2>1 DEF TestIInv, Generating, NothingCopied
    <3>2. UNCHANGED alloc
      BY <2>1 DEF Next, GenerateStep, DataBlock, LastOfSpan, EmptyBlock, Remainder,
           GenerateFails, AppendBlock, outputVars, inputVars, vars, copyVars,
           CopyStep, ReadEmpty, ReadData, WriteFails, Truncate, Fails, CloseFiles
    <3> QED BY <3>1, <3>2
  <2>2. CASE pc # "generate"
    <3>1. CopyStep \/ UNCHANGED copyVars
      BY <2>2 DEF Next, GenerateStep, DataBlock, LastOfSpan, EmptyBlock, Remainder,
           GenerateFails, BlocksLeft, vars
    <3>2. UNCHANGED <<input, length, source, buffer>> /\ Going
      BY <3>1, CopyReadsOnly DEF Going
    <3>3. CopyIInv /\ total \in 0..length /\ total \in Nat /\ length \in Nat /\ buffer \in Nat
      <4>1. CopyIInv /\ CopyTypeOK
        BY <2>2 DEF TestIInv, CopyIInv
      <4> QED BY <4>1, SizesAssumption DEF CopyTypeOK
    <3>4. a \in alloc => NearData(a)'
      BY <3>2 DEF AllNearData, NearData
    <3>5. CASE ReadData
      <4>1. PICK n \in Reads : /\ ~IsEmpty(n) /\ Write(offset + skip, n)
                               /\ total' = total + n /\ pc = "copy"
        BY <3>5 DEF ReadData
      <4>2. n \in Nat \ {0} /\ total + n <= length /\ n <= buffer
        <5>1. n \in Nat \ {0} /\ total + n <= length
          BY <3>3, <4>1, ReadsAreBounded
        <5>2. n <= Wanted /\ Wanted <= buffer /\ Wanted \in Int
          BY <3>3, <4>1 DEF Reads, Wanted
        <5> QED BY <3>3, <5>1, <5>2
      <4>3. alloc' = alloc \cup BlocksOf(total, total + n)
        <5>1. n \in 0..n
          BY <4>2
        <5> QED BY <3>3, <4>1, <5>1, WriteInStep
      <4>4. PICK k \in total..total + n - 1 : input[k] # 0
        BY <4>1 DEF IsEmpty
      <4>5. ASSUME a \in BlocksOf(total, total + n)
            PROVE  NearData(a)'
        <5>1. PICK j \in total..(total + n) - 1 : BlockOf(j) = a
          BY <4>5 DEF BlocksOf
        <5>2. /\ j \in 0..length - 1 /\ k \in 0..length - 1
              /\ j - k < buffer /\ k - j < buffer
          BY <3>3, <4>2
        <5> QED BY <3>2, <4>4, <5>1, <5>2 DEF NearData
      <4> QED BY <3>4, <4>3, <4>5
    <3>6. CASE ~ReadData
      <4>1. UNCHANGED alloc
        BY <3>1, <3>6 DEF CopyStep, ReadEmpty, WriteFails, Truncate, Fails, CloseFiles,
             outputVars, copyVars, Going
      <4> QED BY <3>4, <4>1
    <3> QED BY <3>5, <3>6
  <2> QED BY <2>1, <2>2
<1> QED BY <1>1, <1>2, TestIInvAlways, PTL DEF TestSpec

(* The README of t1, for every file, buffer and block of the file system:  *)
(* a finished copy has all blocks that hold data; whole reads into a buffer*)
(* that divides these blocks take no other; and no copy takes a block that *)
(* is a buffer or more away from all data.                                 *)
THEOREM BlocksAsDocumentedHolds == TestSpec => []BlocksAsDocumented
<1>1. TestIInv /\ NothingMore /\ AllNearData => BlocksAsDocumented
  <2> SUFFICES ASSUME TestIInv, NothingMore, AllNearData, pc = "done", buffer > 0
               PROVE  /\ NonZeroBlocks \subseteq alloc
                      /\ source = "file" /\ FsBlock % buffer = 0 => alloc = NonZeroBlocks
                      /\ \A a \in alloc : NearData(a)
    BY DEF BlocksAsDocumented
  <2>1. CopyIInv /\ Going /\ total = length
    BY DEF TestIInv, CopyIInv, InStep, Going
  <2>2. NonZeroBlocks \subseteq alloc
    BY <2>1 DEF CopyIInv, DataIsAllocated, NonZeroBlocks
  <2>3. ASSUME source = "file", FsBlock % buffer = 0, NEW a \in alloc
        PROVE  a \in NonZeroBlocks
    <3>1. DataIn(a)
      BY <2>1, <2>3 DEF NothingMore, Aligned
    <3> QED BY <2>1, <3>1 DEF DataIn, NonZeroBlocks
  <2>4. \A a \in alloc : NearData(a)
    BY <2>1 DEF AllNearData
  <2> QED BY <2>2, <2>3, <2>4
<1> QED BY <1>1, TestIInvAlways, NothingMoreAlways, AllNearDataAlways, PTL

-----------------------------------------------------------------------------
(* The data changes at most once within a block that the generator has     *)
(* made, and span says how the last of them ends.                          *)
OneChange(b) == \A j, k \in Changes(b) : j = k
Spans ==
  block > 0 =>
    /\ pc = "generate" =>
         /\ length > 0 => input[length - 1] = IF span THEN 1 ELSE 0
         /\ \A b \in Nat : (b + 1) * block <= length => OneChange(b)
    /\ pc \in {"copy", "close", "done"} =>
         /\ length = FileLength
         /\ \A b \in Nat : (b + 1) * block <= Whole => OneChange(b)
         /\ \A k \in Whole..FileLength - 1 : input[k] = 1

(* Changes in a block depend only on the bytes up to its end.              *)
LEMMA SameChanges ==
  ASSUME block \in Nat \ {0}, block' = block, NEW b \in Nat,
         \A k \in 0..(b + 1) * block - 1 : input'[k] = input[k],
         OneChange(b)
  PROVE  OneChange(b)'
<1>1. b * block >= 0 /\ b * block \in Int /\ (b + 1) * block \in Int
  OBVIOUS
<1>2. ASSUME NEW k \in Changes(b)'
      PROVE  k \in Changes(b)
  <2>1. k \in (b * block)..((b + 1) * block - 1) /\ k > 0 /\ input'[k] # input'[k - 1]
    BY <1>2 DEF Changes
  <2>2. k \in 0..(b + 1) * block - 1 /\ k - 1 \in 0..(b + 1) * block - 1
    BY <1>1, <2>1
  <2> QED BY <2>1, <2>2 DEF Changes
<1> QED BY <1>2 DEF OneChange

(* A block whose bytes are v before one place, like the byte before it,    *)
(* and w from there on has one change.                                     *)
LEMMA StepIsOneChange ==
  ASSUME block \in Nat \ {0}, block' = block, NEW b \in Nat, NEW x \in Int, NEW v, NEW w,
         \A k \in (b * block)..((b + 1) * block - 1) :
           input'[k] = IF k < x THEN v ELSE w,
         b > 0 => input'[b * block - 1] = v, b * block <= x
  PROVE  OneChange(b)'
<1>1. b * block \in Nat /\ (b + 1) * block \in Int /\ (b = 0 => b * block = 0)
  OBVIOUS
<1>2. ASSUME NEW k \in Changes(b)'
      PROVE  k = x
  <2>1. k \in (b * block)..((b + 1) * block - 1) /\ k > 0 /\ input'[k] # input'[k - 1]
    BY <1>2 DEF Changes
  <2>2. input'[k] = IF k < x THEN v ELSE w
    BY <2>1
  <2>3. CASE k = b * block
    <3>1. b > 0 /\ input'[k - 1] = v
      BY <1>1, <2>1, <2>3
    <3>2. ~(k < x)
      BY <2>1, <2>2, <3>1
    <3> QED BY <1>1, <2>3, <3>2
  <2>4. CASE k # b * block
    <3>1. k - 1 \in (b * block)..((b + 1) * block - 1)
      BY <1>1, <2>1, <2>4
    <3>2. input'[k - 1] = IF k - 1 < x THEN v ELSE w
      BY <3>1
    <3>3. k \in Int /\ ~(k < x) /\ k - 1 < x
      BY <1>1, <2>1, <2>2, <3>2
    <3> QED BY <3>3
  <2> QED BY <2>3, <2>4
<1> QED BY <1>2 DEF OneChange

(* One more block keeps the spans: up to x it goes on as the file ended,   *)
(* and from x on as it ends now.                                           *)
LEMMA BlockKeepsSpans ==
  ASSUME TestIInv, Spans, BlocksLeft, NEW from \in 0..block, NEW to \in 0..block,
         AppendBlock(block, from, to),
         NEW x \in length..length + block - 1,
         \A k \in length..length + block - 1 :
           (k >= length + from /\ k < length + to) <=>
             (IF k < x THEN span ELSE span') = TRUE
  PROVE  Spans'
<1> DEFINE v == IF span THEN 1 ELSE 0
           w == IF span' THEN 1 ELSE 0
<1>1. /\ Generating /\ pc = "generate"
  BY DEF TestIInv, BlocksLeft
<1>2. /\ Generating' /\ pc' = "generate" /\ block' = block
      /\ block \in Nat \ {0} /\ length \in Nat /\ length' = length + block
      /\ from \in Nat /\ to \in Nat
      /\ \A k \in Offsets :
           input'[k] = IF k >= length + from /\ k < length + to THEN 1 ELSE input[k]
  BY BlockAppended
<1>3. PICK q \in Nat : length = q * block
  BY <1>1, <1>2 DEF Generating, WholeBlocks
<1>4. 0..length' - 1 \subseteq Offsets
  <2>1. length' \in 0..FileLength
    BY <1>2 DEF Generating, WholeBlocks
  <2>2. FileLength \in Nat /\ MaxLen \in Nat /\ FileLength <= MaxLen
    BY LengthAssumption, SizesAssumption
  <2>3. length' \in Nat /\ length' <= MaxLen
    BY <2>1, <2>2
  <2>4. ASSUME NEW k \in 0..length' - 1
        PROVE  k \in 0..MaxLen - 1
    <3> DEFINE last == length'
    <3>1. last \in Nat /\ last <= MaxLen /\ k \in 0..last - 1
      BY <2>3
    <3> HIDE DEF last
    <3> QED BY <2>2, <3>1
  <2> QED BY <2>4 DEF Offsets
<1>5. \A k \in 0..length - 1 : input'[k] = input[k]
  <2>1. \A k \in 0..length - 1 : k \in Offsets /\ ~(k >= length + from)
    BY <1>2, <1>4
  <2> QED BY <1>2, <2>1
<1>6. \A k \in length..length + block - 1 : input'[k] = IF k < x THEN v ELSE w
  <2> SUFFICES ASSUME NEW k \in length..length + block - 1
               PROVE  input'[k] = IF k < x THEN v ELSE w
    OBVIOUS
  <2>1. k \in Offsets /\ k >= length
    BY <1>2, <1>4
  <2>2. input[k] = 0
    BY <1>1, <2>1 DEF Generating
  <2>3. input'[k] = IF (IF k < x THEN span ELSE span') = TRUE THEN 1 ELSE 0
    BY <1>2, <2>1, <2>2
  <2> QED BY <2>3
<1>7. length' > 0 => input'[length' - 1] = IF span' THEN 1 ELSE 0
  <2>1. length' - 1 \in length..length + block - 1 /\ ~(length' - 1 < x)
    BY <1>2
  <2> QED BY <1>6, <2>1
<1>8. ASSUME NEW b \in Nat, (b + 1) * block <= length'
      PROVE  OneChange(b)'
  <2>1. length' = (q + 1) * block /\ (q + 1) * block < (q + 2) * block
    BY <1>2, <1>3
  <2>2. b <= q
    <3>1. (b + 1) * block < (q + 2) * block
      <4>1. (b + 1) * block \in Int /\ (q + 1) * block \in Int /\ (q + 2) * block \in Int
        BY <1>2
      <4> QED BY <1>8, <2>1, <4>1
    <3>2. b + 1 + 1 <= q + 2
      BY <1>2, <3>1, NextMultiple
    <3> QED BY <3>2
  <2>3. CASE b = q
    <3>1. (b * block)..((b + 1) * block - 1) = length..length + block - 1
      <4>1. b * block = length /\ (b + 1) * block = length + block
        BY <1>2, <1>3, <2>1, <2>3
      <4> QED BY <1>2, <4>1
    <3>2. b > 0 => input'[b * block - 1] = v
      <4>1. ASSUME b > 0
            PROVE  length > 0
        BY <1>2, <1>3, <2>3, <4>1
      <4>2. ASSUME length > 0
            PROVE  input'[length - 1] = v
        <5>1. length - 1 \in 0..length - 1 /\ input[length - 1] = v
          BY <1>1, <1>2, <4>2 DEF Spans
        <5> QED BY <1>5, <5>1
      <4> QED BY <1>3, <2>3, <4>1, <4>2
    <3>3. b * block <= x /\ x \in Int
      BY <1>2, <1>3, <2>3
    <3> QED BY <1>2, <1>6, <3>1, <3>2, <3>3, StepIsOneChange
  <2>4. CASE b < q
    <3>1. (b + 1) * block <= length
      <4>1. b * block < q * block
        <5>1. PICK d \in Nat \ {0} : q = b + d
          BY <2>4
        <5>2. d * block > 0 /\ q * block = b * block + d * block
          BY <1>2, <5>1
        <5> QED BY <1>2, <5>2
      <4> QED BY <1>2, <1>3, <4>1, NextMultiple
    <3>2. OneChange(b)
      BY <1>1, <1>2, <3>1 DEF Spans
    <3>3. \A k \in 0..(b + 1) * block - 1 : input'[k] = input[k]
      <4>1. (b + 1) * block \in Int
        BY <1>2
      <4> QED BY <1>2, <1>5, <3>1, <4>1
    <3> QED BY <1>2, <3>2, <3>3, SameChanges
  <2> QED BY <2>2, <2>3, <2>4
<1> QED BY <1>2, <1>7, <1>8 DEF Spans

LEMMA SpansAlways == TestSpec => []Spans
<1>1. (InitGenerate /\ InitCopy) \/ InitAny => Spans
  <2>1. ASSUME InitGenerate, block > 0
        PROVE  \A b \in Nat : ~((b + 1) * block <= length)
    <3> SUFFICES ASSUME NEW b \in Nat PROVE ~((b + 1) * block <= 0)
      BY <2>1 DEF InitGenerate
    <3>1. block \in Nat \ {0} /\ b * block >= 0 /\ (b + 1) * block = b * block + block
      BY <2>1, SizesAssumption DEF InitGenerate
    <3> QED BY <3>1
  <2> QED BY <2>1 DEF InitGenerate, InitAny, Spans
<1>2. TestIInv /\ Spans /\ [Next]_vars => Spans'
  <2> SUFFICES ASSUME TestIInv, Spans, [Next]_vars
               PROVE  Spans'
    OBVIOUS
  <2>0. ASSUME BlocksLeft
        PROVE  /\ block \in Nat \ {0} /\ length \in Nat /\ Generating
               /\ span \in BOOLEAN /\ pc = "generate"
    <3>1. Generating /\ span \in BOOLEAN /\ pc = "generate" /\ block > 0
      BY <2>0 DEF TestIInv, BlocksLeft
    <3> QED BY <3>1, SizesAssumption DEF Generating, WholeBlocks
  <2>1. CASE DataBlock
    <3>1. BlocksLeft /\ span' = TRUE
      BY <2>1 DEF DataBlock
    <3>2. PICK from \in IF span THEN {0} ELSE 0..block - 1 : AppendBlock(block, from, block)
      BY <2>1 DEF DataBlock
    <3>3. from \in 0..block - 1 /\ (span => from = 0)
      BY <2>0, <3>1, <3>2
    <3> DEFINE x == length + from
    <3>4. /\ x \in length..length + block - 1
          /\ \A k \in length..length + block - 1 :
               (k >= length + from /\ k < length + block) <=>
                 (IF k < x THEN span ELSE span') = TRUE
      BY <2>0, <3>1, <3>3
    <3>5. from \in 0..block /\ block \in 0..block
      BY <2>0, <3>1, <3>3
    <3> HIDE DEF x
    <3> QED BY <3>1, <3>2, <3>4, <3>5, BlockKeepsSpans
  <2>2. CASE LastOfSpan
    <3>1. BlocksLeft /\ span = TRUE /\ span' = FALSE
      BY <2>0, <2>2 DEF LastOfSpan
    <3>2. PICK to \in 0..block - 1 : AppendBlock(block, 0, to)
      BY <2>2 DEF LastOfSpan
    <3> DEFINE x == length + to
    <3>3. /\ x \in length..length + block - 1
          /\ \A k \in length..length + block - 1 :
               (k >= length + 0 /\ k < length + to) <=>
                 (IF k < x THEN span ELSE span') = TRUE
      BY <2>0, <3>1
    <3>4. to \in 0..block /\ 0 \in 0..block
      BY <2>0, <3>1
    <3> HIDE DEF x
    <3> QED BY <3>1, <3>2, <3>3, <3>4, BlockKeepsSpans
  <2>3. CASE EmptyBlock
    <3>1. BlocksLeft /\ span = FALSE /\ span' = FALSE /\ AppendBlock(block, 0, 0)
      BY <2>0, <2>3 DEF EmptyBlock
    <3>2. /\ length \in length..length + block - 1
          /\ \A k \in length..length + block - 1 :
               (k >= length + 0 /\ k < length + 0) <=>
                 (IF k < length THEN span ELSE span') = TRUE
      BY <2>0, <3>1
    <3>3. 0 \in 0..block
      BY <2>0, <3>1
    <3> QED BY <3>1, <3>2, <3>3, BlockKeepsSpans
  <2>4. CASE Remainder
    <3>1. /\ pc = "generate" /\ pc' = "copy" /\ block' = block /\ block \in Nat \ {0}
          /\ length = Whole /\ length' = FileLength /\ span' = span
          /\ \A k \in Offsets :
               input'[k] = IF k >= length /\ k < FileLength THEN 1 ELSE input[k]
      BY <2>4, CopyBegins DEF Remainder
    <3>2. /\ FileLength \in Nat /\ length \in 0..FileLength /\ 0..FileLength - 1 \subseteq Offsets
          /\ Whole' = Whole
      <4>1. FileLength \in Nat /\ MaxLen \in Nat /\ FileLength <= MaxLen
        BY LengthAssumption, SizesAssumption
      <4>2. Whole' = Whole
        BY <3>1 DEF Whole
      <4> QED BY <3>1, <4>1, <4>2, WholeIsMultiple DEF Offsets
    <3>3. \A k \in Whole..FileLength - 1 : input'[k] = 1
      BY <3>1, <3>2
    <3>4. ASSUME NEW b \in Nat, (b + 1) * block <= Whole
          PROVE  OneChange(b)'
      <4>1. OneChange(b)
        BY <3>1, <3>4 DEF Spans
      <4>2. \A k \in 0..(b + 1) * block - 1 : input'[k] = input[k]
        <5>1. (b + 1) * block \in Int
          BY <3>1
        <5> QED BY <3>1, <3>2, <3>4, <5>1
      <4> QED BY <3>1, <4>1, <4>2, SameChanges
    <3> QED BY <3>1, <3>2, <3>3, <3>4 DEF Spans
  <2>5. CASE GenerateFails
    BY <2>5 DEF GenerateFails, Spans
  <2>6. CASE (CopyStep /\ UNCHANGED <<span, block>>) \/ UNCHANGED vars
    <3>1. /\ UNCHANGED <<input, length, span, block>>
          /\ \/ pc' = pc
             \/ pc \in {"copy", "close"} /\ pc' \in {"close", "done", "failed"}
      BY <2>6, CopyReadsOnly DEF vars
    <3>2. Whole' = Whole /\ \A b : OneChange(b)' = OneChange(b)
      BY <3>1 DEF Whole, OneChange, Changes
    <3> QED BY <3>1, <3>2 DEF Spans
  <2> QED BY <2>1, <2>2, <2>3, <2>4, <2>5, <2>6 DEF Next, GenerateStep
<1> QED BY <1>1, <1>2, TestIInvAlways, PTL DEF TestSpec

(* The comment of the generator, for every block size and length: the file *)
(* has its length, there is at most one change between two borders of      *)
(* blocks, and what is left over is data.                                  *)
THEOREM SpansAsCommentedHolds == TestSpec => []SpansAsCommented
<1>1. TestIInv /\ Spans => SpansAsCommented
  <2> SUFFICES ASSUME TestIInv, Spans, pc \in {"copy", "close", "done"}, block > 0
               PROVE  /\ length = FileLength
                      /\ \A b \in 0..FileLength \div block - 1 : OneChange(b)
                      /\ \A k \in Whole..FileLength - 1 : input[k] = 1
    BY DEF SpansAsCommented, OneChange
  <2>1. block \in Nat \ {0}
    BY SizesAssumption DEF TestIInv
  <2> DEFINE w == FileLength \div block
  <2>2. Whole = w * block /\ w \in Nat
    BY <2>1, WholeIsMultiple
  <2> HIDE DEF w
  <2>3. ASSUME NEW b \in 0..w - 1
        PROVE  OneChange(b)
    <3>1. b \in Nat /\ w - b \in Nat \ {0}
      BY <2>2
    <3>2. (w - b) * block > 0 /\ w * block = b * block + (w - b) * block
      BY <2>1, <2>2, <3>1
    <3>3. b * block < w * block
      BY <2>1, <2>2, <3>1, <3>2
    <3>4. (b + 1) * block <= Whole
      BY <2>1, <2>2, <3>1, <3>3, NextMultiple
    <3> QED BY <3>1, <3>4 DEF Spans
  <2> QED BY <2>3 DEF Spans, w
<1> QED BY <1>1, TestIInvAlways, SpansAlways, PTL
=============================================================================
