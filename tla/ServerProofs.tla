---------------------------- MODULE ServerProofs ----------------------------
(***************************************************************************)
(* Proofs about the server of t4 with clients of any kind, for every set   *)
(* of clients, every pool and every buffer: the array of slots agrees with *)
(* the connections, a full buffer hangs up on nobody, and the server is an *)
(* accumulator of the lines that the clients send.                         *)
(***************************************************************************)
EXTENDS Server, NaturalsInduction, WellFoundedInduction, SequenceTheorems,
        FiniteSetTheorems, TLAPS

(* Every set of natural numbers that is not empty has a least element.     *)
LEMMA LeastElement ==
  ASSUME NEW T \in SUBSET Nat, T # {}
  PROVE  \E k \in T : \A j \in T : k <= j
<1> DEFINE Less == {jk \in Nat \X Nat : jk[1] < jk[2]}
<1>1. IsWellFoundedOn(OpToRel(<, Nat), Nat)
  BY NatLessThanWellFounded
<1>2. OpToRel(<, Nat) = Less
  BY DEF OpToRel
<1>3. PICK k \in T : \A j \in T : ~(<<j, k>> \in Less)
  <2> HIDE DEF Less
  <2> QED BY <1>1, <1>2, WFMin
<1>4. ASSUME NEW j \in T, j < k
      PROVE  FALSE
  <2>1. <<j, k>> \in Less
    BY <1>4
  <2> QED BY <1>3, <2>1
<1> QED BY <1>4

(* strchr(): the first newline of a line that has one.                     *)
LEMMA FirstNewlineExists ==
  ASSUME NEW s \in Seq(Bytes), HasNewline(s)
  PROVE  /\ FirstNewline(s) \in 1..Len(s)
         /\ s[FirstNewline(s)] = NL
         /\ \A k \in 1..(FirstNewline(s) - 1) : s[k] # NL
<1> DEFINE Hits == {k \in 1..Len(s) : s[k] = NL}
<1>1. Hits \in SUBSET Nat /\ Hits # {}
  BY DEF HasNewline
<1>2. PICK k \in Hits : \A j \in Hits : k <= j
  <2> HIDE DEF Hits
  <2> QED BY <1>1, LeastElement
<1>3. k \in 1..Len(s) /\ s[k] = NL /\ \A j \in 1..(k - 1) : s[j] # NL
  BY <1>2
<1> QED BY <1>3 DEF FirstNewline

(* What read() adds to a buffer, and what the first line leaves of it.     *)
LEMMA TakeAndDrop ==
  ASSUME NEW s \in Seq(Bytes), NEW n \in Nat
  PROVE  /\ Take(s, n) \in Seq(Bytes)
         /\ Len(Take(s, n)) <= n
         /\ n > 0 /\ Take(s, n) = <<>> => s = <<>>
         /\ Drop(s, n) \in Seq(Bytes)
         /\ n <= Len(s) => Len(Drop(s, n)) = Len(s) - n
<1> DEFINE m == IF n < Len(s) THEN n ELSE Len(s)
<1>1. m \in Nat /\ m <= n /\ m <= Len(s) /\ Len(s) \in Nat
      /\ (m = 0 => n = 0 \/ Len(s) = 0)
  OBVIOUS
<1>2. \A k \in 1..m : s[k] \in Bytes
  BY <1>1
<1>3. Take(s, n) \in Seq(Bytes) /\ Len(Take(s, n)) = m
  <2> HIDE DEF m
  <2>1. SubSeq(s, 1, m) \in Seq(Bytes)
        /\ Len(SubSeq(s, 1, m)) = IF 1 <= m THEN m - 1 + 1 ELSE 0
    BY <1>1, <1>2, SubSeqProperties
  <2> QED BY <1>1, <2>1 DEF Take, m
<1>4. \A k \in n + 1..Len(s) : s[k] \in Bytes
  OBVIOUS
<1>5. Drop(s, n) \in Seq(Bytes)
      /\ Len(Drop(s, n)) = IF n + 1 <= Len(s) THEN Len(s) - (n + 1) + 1 ELSE 0
  BY <1>4, SubSeqProperties DEF Drop
<1>6. ASSUME n > 0, Take(s, n) = <<>>
      PROVE  s = <<>>
  BY <1>1, <1>3, <1>6
<1> QED BY <1>1, <1>3, <1>5, <1>6

-----------------------------------------------------------------------------
(* The bytes of a sequence from m + 1 to n.                                *)
LEMMA PartOf ==
  ASSUME NEW s \in Seq(Bytes), NEW m \in Nat, NEW n \in Nat,
         m <= n, n <= Len(s)
  PROVE  /\ SubSeq(s, m + 1, n) \in Seq(Bytes)
         /\ Len(SubSeq(s, m + 1, n)) = n - m
         /\ \A k \in 1..n - m : SubSeq(s, m + 1, n)[k] = s[m + k]
<1>1. m + 1 \in Int /\ n \in Int /\ \A k \in m + 1..n : s[k] \in Bytes
  OBVIOUS
<1>2. /\ SubSeq(s, m + 1, n) \in Seq(Bytes)
      /\ Len(SubSeq(s, m + 1, n))
           = IF m + 1 <= n THEN n - (m + 1) + 1 ELSE 0
      /\ \A k \in 1..n - (m + 1) + 1 :
           SubSeq(s, m + 1, n)[k] = s[m + 1 + k - 1]
  BY <1>1, SubSeqProperties
<1>3. n - (m + 1) + 1 = n - m /\ \A k \in 1..n - m : m + 1 + k - 1 = m + k
  OBVIOUS
<1>4. Len(SubSeq(s, m + 1, n)) = n - m
  BY <1>2
<1>5. \A k \in 1..n - m : SubSeq(s, m + 1, n)[k] = s[m + k]
  BY <1>2, <1>3
<1> QED BY <1>2, <1>4, <1>5

(* Whole blocks in front do not change a remainder.                        *)
LEMMA FullBlocks ==
  ASSUME NEW B \in Nat, B >= 1, NEW a \in Nat, a % B = 0
  PROVE  /\ (a + B) % B = 0
         /\ \A r \in 0..B-1 : (a + r) % B = r
OBVIOUS

(* Newlines are counted one byte at a time.                                *)
LEMMA CountStep ==
  ASSUME NEW w, NEW n \in Nat
  PROVE  /\ NewlinesIn(w, 0) = 0
         /\ NewlinesIn(w, n) \in Nat
         /\ NewlinesIn(w, n + 1)
              = NewlinesIn(w, n) + (IF w[n + 1] = NL THEN 1 ELSE 0)
<1> DEFINE Ends(m) == {k \in 1..m : w[k] = NL}
<1>1. \A m \in Nat : IsFiniteSet(Ends(m))
  <2> SUFFICES ASSUME NEW m \in Nat
               PROVE  IsFiniteSet(Ends(m))
    OBVIOUS
  <2>1. IsFiniteSet(1..m)
    BY FS_Interval
  <2> QED BY <2>1, FS_Subset
<1>2. Ends(0) = {} /\ n + 1 \notin Ends(n)
  OBVIOUS
<1>3. Ends(n + 1) = IF w[n + 1] = NL THEN Ends(n) \cup {n + 1} ELSE Ends(n)
  OBVIOUS
<1> HIDE DEF Ends
<1>4. Cardinality(Ends(0)) = 0
  BY <1>2, FS_EmptySet
<1>5. Cardinality(Ends(n)) \in Nat
  BY <1>1, FS_CardinalityType
<1>6. Cardinality(Ends(n) \cup {n + 1}) = Cardinality(Ends(n)) + 1
  BY <1>1, <1>2, FS_AddElement
<1>7. \A m : NewlinesIn(w, m) = Cardinality(Ends(m))
  BY DEF NewlinesIn, Ends
<1> QED BY <1>3, <1>4, <1>5, <1>6, <1>7

(* No newline in between, the same count; one at the end, one more.        *)
LEMMA CountOver ==
  ASSUME NEW w, NEW m \in Nat, NEW n \in Nat, m <= n
  PROVE  /\ NewlinesIn(w, m) <= NewlinesIn(w, n)
         /\ (\A k \in m + 1..n : w[k] # NL)
              => NewlinesIn(w, n) = NewlinesIn(w, m)
         /\ m < n /\ w[n] = NL => NewlinesIn(w, m) < NewlinesIn(w, n)
<1>1. NewlinesIn(w, m) <= NewlinesIn(w, n)
  <2> DEFINE Ends(j) == {k \in 1..j : w[k] = NL}
  <2>1. Ends(m) \subseteq Ends(n)
    OBVIOUS
  <2>2. IsFiniteSet(Ends(n))
    <3>1. IsFiniteSet(1..n)
      BY FS_Interval
    <3> QED BY <3>1, FS_Subset
  <2>3. Cardinality(Ends(m)) <= Cardinality(Ends(n))
    <3> HIDE DEF Ends
    <3> QED BY <2>1, <2>2, FS_Subset
  <2> QED BY <2>3 DEF NewlinesIn
<1>2. ASSUME \A k \in m + 1..n : w[k] # NL
      PROVE  NewlinesIn(w, n) = NewlinesIn(w, m)
  <2>1. {k \in 1..n : w[k] = NL} = {k \in 1..m : w[k] = NL}
    BY <1>2
  <2> QED BY <2>1 DEF NewlinesIn
<1>3. ASSUME m < n, w[n] = NL
      PROVE  NewlinesIn(w, m) < NewlinesIn(w, n)
  <2>1. n - 1 \in Nat /\ m <= n - 1 /\ n - 1 + 1 = n
    BY <1>3
  <2>2. NewlinesIn(w, n) = NewlinesIn(w, n - 1) + 1
        /\ NewlinesIn(w, n - 1) \in Nat
    <3>1. NewlinesIn(w, n - 1 + 1)
            = NewlinesIn(w, n - 1) + (IF w[n - 1 + 1] = NL THEN 1 ELSE 0)
          /\ NewlinesIn(w, n - 1) \in Nat
      BY <2>1, CountStep
    <3> QED BY <1>3, <2>1, <3>1
  <2>3. NewlinesIn(w, m) <= NewlinesIn(w, n - 1)
    <3> DEFINE Ends(j) == {k \in 1..j : w[k] = NL}
    <3>1. Ends(m) \subseteq Ends(n - 1)
      BY <2>1
    <3>2. IsFiniteSet(Ends(n - 1))
      <4>1. IsFiniteSet(1..n - 1)
        BY <2>1, FS_Interval
      <4> QED BY <4>1, FS_Subset
    <3>3. Cardinality(Ends(m)) <= Cardinality(Ends(n - 1))
      <4> HIDE DEF Ends
      <4> QED BY <3>1, <3>2, FS_Subset
    <3> QED BY <3>3 DEF NewlinesIn
  <2>4. NewlinesIn(w, m) \in Nat
    BY CountStep
  <2> QED BY <2>2, <2>3, <2>4
<1> QED BY <1>1, <1>2, <1>3

(* The nth line ends at the nth newline, and there is one.                 *)
LEMMA LineEndIs ==
  ASSUME NEW w \in Seq(Bytes), NEW k \in 1..Len(w), w[k] = NL,
         NEW n, NewlinesIn(w, k) = n
  PROVE  LineEnd(w, n) = k /\ n \in 1..LineCount(w)
<1>1. \A j \in 1..Len(w) : w[j] = NL /\ NewlinesIn(w, j) = n => j = k
  <2> SUFFICES ASSUME NEW j \in 1..Len(w), w[j] = NL, NewlinesIn(w, j) = n
               PROVE  j = k
    OBVIOUS
  <2>1. ~(j < k)
    <3> SUFFICES ASSUME j < k PROVE FALSE
      OBVIOUS
    <3>1. NewlinesIn(w, j) < NewlinesIn(w, k)
      BY CountOver
    <3>2. NewlinesIn(w, j) \in Nat
      BY CountStep
    <3> QED BY <3>1, <3>2
  <2>2. ~(k < j)
    <3> SUFFICES ASSUME k < j PROVE FALSE
      OBVIOUS
    <3>1. NewlinesIn(w, k) < NewlinesIn(w, j)
      BY CountOver
    <3>2. NewlinesIn(w, k) \in Nat
      BY CountStep
    <3> QED BY <3>1, <3>2
  <2> QED BY <2>1, <2>2
<1>2. NewlinesIn(w, 0) < NewlinesIn(w, k) /\ NewlinesIn(w, 0) = 0
      /\ NewlinesIn(w, k) \in Nat
  <2>1. NewlinesIn(w, 0) = 0 /\ NewlinesIn(w, k) \in Nat
    BY CountStep
  <2>2. 0 \in Nat /\ k \in Nat /\ 0 < k
    OBVIOUS
  <2>3. NewlinesIn(w, 0) < NewlinesIn(w, k)
    BY <2>2, CountOver
  <2> QED BY <2>1, <2>3
<1>3. NewlinesIn(w, k) <= NewlinesIn(w, Len(w)) /\ NewlinesIn(w, Len(w)) \in Nat
  BY CountOver, CountStep
<1>4. n \in 1..LineCount(w) /\ n # 0
  BY <1>2, <1>3 DEF LineCount
<1>5. LineEnd(w, n) = CHOOSE j \in 1..Len(w) : w[j] = NL /\ NewlinesIn(w, j) = n
  BY <1>4 DEF LineEnd
<1>6. k \in 1..Len(w) /\ w[k] = NL /\ NewlinesIn(w, k) = n
  OBVIOUS
<1> QED BY <1>1, <1>4, <1>5, <1>6

(* Every line that is counted ends at its newline.                         *)
LEMMA LineEndExists ==
  ASSUME NEW w \in Seq(Bytes), NEW n \in 1..LineCount(w)
  PROVE  /\ LineEnd(w, n) \in 1..Len(w)
         /\ w[LineEnd(w, n)] = NL
         /\ NewlinesIn(w, LineEnd(w, n)) = n
<1> DEFINE Far == {k \in 0..Len(w) : NewlinesIn(w, k) >= n}
<1>1. Len(w) \in Nat /\ NewlinesIn(w, Len(w)) \in Nat /\ n \in Nat /\ n >= 1
      /\ NewlinesIn(w, Len(w)) >= n
  BY CountStep DEF LineCount
<1>2. Far \in SUBSET Nat /\ Len(w) \in Far
  BY <1>1
<1>3. PICK k \in Far : \A j \in Far : k <= j
  <2> HIDE DEF Far
  <2> QED BY <1>2, LeastElement
<1>4. NewlinesIn(w, 0) = 0
  BY CountStep
<1>5. k \in 1..Len(w) /\ k - 1 \in Nat /\ k - 1 \in 0..Len(w) /\ k - 1 + 1 = k
  BY <1>1, <1>3, <1>4
<1>6. NewlinesIn(w, k - 1) < n
  <2>1. k - 1 \notin Far
    BY <1>3, <1>5
  <2>2. NewlinesIn(w, k - 1) \in Nat
    BY <1>5, CountStep
  <2> QED BY <1>1, <1>5, <2>1, <2>2
<1>7. NewlinesIn(w, k) >= n
  BY <1>3
<1>8. NewlinesIn(w, k - 1 + 1)
        = NewlinesIn(w, k - 1) + (IF w[k - 1 + 1] = NL THEN 1 ELSE 0)
      /\ NewlinesIn(w, k - 1) \in Nat
  BY <1>5, CountStep
<1>9. w[k] = NL /\ NewlinesIn(w, k) = n
  BY <1>1, <1>5, <1>6, <1>7, <1>8
<1>10. LineEnd(w, n) = k
  BY <1>5, <1>9, LineEndIs
<1> QED BY <1>5, <1>9, <1>10

(* The beginning of the stream counts as the end of line 0.                *)
LEMMA LineEndFrom ==
  ASSUME NEW w \in Seq(Bytes), NEW n \in 0..LineCount(w)
  PROVE  LineEnd(w, n) \in 0..Len(w) /\ NewlinesIn(w, LineEnd(w, n)) = n
<1>1. CASE n = 0
  BY <1>1, CountStep DEF LineEnd
<1>2. CASE n # 0
  <2>1. LineCount(w) \in Nat
    BY CountStep DEF LineCount
  <2>2. n \in 1..LineCount(w)
    BY <1>2, <2>1
  <2> QED BY <2>2, LineEndExists
<1> QED BY <1>1, <1>2

(* What a client sends later changes none of its lines.                    *)
LEMMA LinesStay ==
  ASSUME NEW w \in Seq(Bytes), NEW t \in Seq(Bytes)
  PROVE  /\ LineCount(w) <= LineCount(w \o t)
         /\ \A n \in 0..LineCount(w) : LineEnd(w \o t, n) = LineEnd(w, n)
         /\ \A n \in 1..LineCount(w) :
              LinesSeen(w \o t)[n] = LinesSeen(w)[n]
<1> DEFINE v == w \o t
<1>1. /\ v \in Seq(Bytes) /\ Len(v) = Len(w) + Len(t)
      /\ Len(w) \in Nat /\ Len(t) \in Nat
      /\ \A k \in 1..Len(w) : v[k] = w[k]
  BY ConcatProperties
<1> HIDE DEF v
<1>2. ASSUME NEW m \in 0..Len(w)
      PROVE  NewlinesIn(v, m) = NewlinesIn(w, m)
  <2>1. {k \in 1..m : v[k] = NL} = {k \in 1..m : w[k] = NL}
    BY <1>1
  <2> QED BY <2>1 DEF NewlinesIn
<1>3. LineCount(w) <= LineCount(v)
      /\ LineCount(w) \in Nat /\ LineCount(v) \in Nat
  <2>1. NewlinesIn(v, Len(w)) = NewlinesIn(w, Len(w))
    BY <1>1, <1>2
  <2>2. NewlinesIn(v, Len(w)) <= NewlinesIn(v, Len(v))
    BY <1>1, CountOver
  <2>3. NewlinesIn(v, Len(w)) \in Nat /\ NewlinesIn(v, Len(v)) \in Nat
    BY <1>1, CountStep
  <2> QED BY <2>1, <2>2, <2>3 DEF LineCount
<1>4. ASSUME NEW n \in 0..LineCount(w)
      PROVE  LineEnd(v, n) = LineEnd(w, n) /\ LineEnd(w, n) \in 0..Len(w)
  <2>1. CASE n = 0
    BY <1>1, <2>1 DEF LineEnd
  <2>2. CASE n # 0
    <3>1. n \in 1..LineCount(w)
      BY <1>3, <2>2
    <3>2. /\ LineEnd(w, n) \in 1..Len(w) /\ w[LineEnd(w, n)] = NL
          /\ NewlinesIn(w, LineEnd(w, n)) = n
      BY <3>1, LineEndExists
    <3>3. /\ LineEnd(w, n) \in 1..Len(v) /\ v[LineEnd(w, n)] = NL
          /\ NewlinesIn(v, LineEnd(w, n)) = n
      BY <1>1, <1>2, <3>2
    <3>4. LineEnd(v, n) = LineEnd(w, n)
      BY <1>1, <3>3, LineEndIs
    <3> QED BY <1>1, <3>2, <3>4
  <2> QED BY <2>1, <2>2
<1>5. ASSUME NEW n \in 1..LineCount(w)
      PROVE  LinesSeen(v)[n] = LinesSeen(w)[n]
  <2>1. /\ n \in 1..LineCount(v)
        /\ n \in 0..LineCount(w) /\ n - 1 \in 0..LineCount(w)
    BY <1>3
  <2>2. LineEnd(v, n) = LineEnd(w, n) /\ LineEnd(v, n - 1) = LineEnd(w, n - 1)
        /\ LineEnd(w, n) \in 0..Len(w) /\ LineEnd(w, n - 1) \in 0..Len(w)
    BY <1>4, <2>1
  <2>3. SubSeq(v, LineEnd(w, n - 1) + 1, LineEnd(w, n) - 1)
          = SubSeq(w, LineEnd(w, n - 1) + 1, LineEnd(w, n) - 1)
    <3> DEFINE p == LineEnd(w, n - 1) + 1
               q == LineEnd(w, n) - 1
    <3>1. p \in Nat /\ p >= 1 /\ q \in Int /\ q <= Len(w)
      BY <1>1, <2>2
    <3> HIDE DEF p, q
    <3>2. \A k \in 1..q - p + 1 : p + k - 1 \in 1..Len(w)
      BY <1>1, <3>1
    <3>3. \A k \in 1..q - p + 1 : v[p + k - 1] = w[p + k - 1]
      BY <1>1, <3>2
    <3>4. SubSeq(v, p, q) = [k \in 1..q - p + 1 |-> v[p + k - 1]]
          /\ SubSeq(w, p, q) = [k \in 1..q - p + 1 |-> w[p + k - 1]]
      BY <1>1, <3>1
    <3> QED BY <3>3, <3>4 DEF p, q
  <2>4. LinesOf(v)[n] = LinesOf(w)[n]
    BY <2>1, <2>2, <2>3 DEF LinesOf
  <2>5. /\ DOMAIN LinesOf(v) = 1..LineCount(v)
        /\ DOMAIN LinesOf(w) = 1..LineCount(w)
    BY DEF LinesOf
  <2>6. /\ LinesSeen(v)[n] = Seen(LinesOf(v)[n])
        /\ LinesSeen(w)[n] = Seen(LinesOf(w)[n])
    BY <2>1, <2>5 DEF LinesSeen
  <2> QED BY <2>4, <2>6
<1> QED BY <1>3, <1>4, <1>5 DEF v

-----------------------------------------------------------------------------
(* What a slot holds of a stream w: the buffer b and the bytes u that are  *)
(* still to be read are the end of w, and in front of them, behind the     *)
(* last line that was handled, are only full buffers without a newline.    *)
Cut(w, b, u) == Len(w) - Len(u) - Len(b)
Behind(w, last, b, u) ==
  /\ last <= Cut(w, b, u)
  /\ (Cut(w, b, u) - last) % (BufferSize - 1) = 0
  /\ \A k \in last + 1..Cut(w, b, u) : w[k] # NL
  /\ \A k \in 1..Len(b) : w[Cut(w, b, u) + k] = b[k]
  /\ \A k \in 1..Len(u) : w[Len(w) - Len(u) + k] = u[k]

(* A read moves the bytes from the socket to the buffer.                   *)
LEMMA BehindRead ==
  ASSUME NEW w \in Seq(Bytes), NEW b \in Seq(Bytes), NEW u \in Seq(Bytes),
         NEW n \in Nat, NEW last \in Nat, Behind(w, last, b, u)
  PROVE  Behind(w, last, b \o Take(u, n), Drop(u, Len(Take(u, n))))
<1> DEFINE m == IF n < Len(u) THEN n ELSE Len(u)
           t == Take(u, n)
           r == Drop(u, m)
<1>1. /\ m \in Nat /\ m <= Len(u)
      /\ Len(u) \in Nat /\ Len(b) \in Nat /\ Len(w) \in Nat
  OBVIOUS
<1>2. /\ t \in Seq(Bytes) /\ Len(t) = m
      /\ \A k \in 1..m : t[k] = u[k]
  <2> HIDE DEF m
  <2>1. t = SubSeq(u, 0 + 1, m)
    BY DEF Take, m
  <2> HIDE DEF t
  <2>2. /\ SubSeq(u, 0 + 1, m) \in Seq(Bytes)
        /\ Len(SubSeq(u, 0 + 1, m)) = m - 0
        /\ \A k \in 1..m - 0 : SubSeq(u, 0 + 1, m)[k] = u[0 + k]
    BY <1>1, PartOf
  <2> QED BY <1>1, <2>1, <2>2
<1>3. /\ r \in Seq(Bytes) /\ Len(r) = Len(u) - m
      /\ \A k \in 1..Len(u) - m : r[k] = u[m + k]
  <2> HIDE DEF m
  <2>1. r = SubSeq(u, m + 1, Len(u))
    BY DEF Drop
  <2> HIDE DEF r
  <2>2. /\ SubSeq(u, m + 1, Len(u)) \in Seq(Bytes)
        /\ Len(SubSeq(u, m + 1, Len(u))) = Len(u) - m
        /\ \A k \in 1..Len(u) - m : SubSeq(u, m + 1, Len(u))[k] = u[m + k]
    BY <1>1, PartOf
  <2> QED BY <2>1, <2>2
<1> HIDE DEF m, t, r
<1>4. /\ b \o t \in Seq(Bytes) /\ Len(b \o t) = Len(b) + m
      /\ \A k \in 1..Len(b) : (b \o t)[k] = b[k]
      /\ \A k \in Len(b) + 1..Len(b) + m : (b \o t)[k] = t[k - Len(b)]
  <2>1. t \in Seq(Bytes) /\ Len(t) = m
    BY <1>2
  <2>2. /\ b \o t \in Seq(Bytes) /\ Len(b \o t) = Len(b) + Len(t)
        /\ \A k \in 1..Len(b) + Len(t) :
             (b \o t)[k] = IF k <= Len(b) THEN b[k] ELSE t[k - Len(b)]
    BY <2>1, ConcatProperties, Zenon
  <2> QED BY <1>1, <2>1, <2>2
<1>5. Cut(w, b \o t, r) = Cut(w, b, u)
  BY <1>1, <1>3, <1>4 DEF Cut
<1>6. Cut(w, b, u) = Len(w) - Len(u) - Len(b)
  BY DEF Cut
<1>7. ASSUME NEW k \in 1..Len(b \o t)
      PROVE  w[Cut(w, b, u) + k] = (b \o t)[k]
  <2>1. CASE k <= Len(b)
    BY <1>1, <1>4, <2>1 DEF Behind
  <2>2. CASE k > Len(b)
    <3>1. k - Len(b) \in 1..m /\ k \in Len(b) + 1..Len(b) + m
          /\ k - Len(b) \in 1..Len(u)
      BY <1>1, <1>4, <2>2
    <3>2. (b \o t)[k] = u[k - Len(b)]
      BY <1>2, <1>4, <3>1
    <3>3. w[Len(w) - Len(u) + (k - Len(b))] = u[k - Len(b)]
      BY <3>1 DEF Behind
    <3>4. Len(w) - Len(u) + (k - Len(b)) = Cut(w, b, u) + k
      BY <1>1, <1>6
    <3> QED BY <3>2, <3>3, <3>4
  <2> QED BY <1>1, <1>4, <2>1, <2>2
<1>8. ASSUME NEW k \in 1..Len(r)
      PROVE  w[Len(w) - Len(r) + k] = r[k]
  <2>1. m + k \in 1..Len(u) /\ k \in 1..Len(u) - m
    BY <1>1, <1>3
  <2>2. w[Len(w) - Len(u) + (m + k)] = u[m + k]
    BY <2>1 DEF Behind
  <2>3. Len(w) - Len(u) + (m + k) = Len(w) - Len(r) + k
    BY <1>1, <1>3
  <2> QED BY <1>3, <2>1, <2>2, <2>3
<1>9. Behind(w, last, b \o t, r)
  <2> HIDE DEF Cut
  <2> QED BY <1>5, <1>7, <1>8 DEF Behind
<1> QED BY <1>2, <1>9 DEF t, r

(* Clearing a full buffer leaves one more block behind.                    *)
LEMMA BehindOverflow ==
  ASSUME NEW w \in Seq(Bytes), NEW b \in Seq(Bytes), NEW u \in Seq(Bytes),
         NEW last \in Nat, Behind(w, last, b, u),
         Len(b) = BufferSize - 1, ~HasNewline(b)
  PROVE  Behind(w, last, <<>>, u)
<1> USE BufferSizeAssumption
<1> DEFINE c == Cut(w, b, u)
           d == Cut(w, <<>>, u)
<1>1. Len(w) \in Nat /\ Len(u) \in Nat /\ Len(b) \in Nat /\ Len(<<>>) = 0
  OBVIOUS
<1>2. c \in Int /\ d = c + (BufferSize - 1) /\ d = Len(w) - Len(u)
  BY <1>1 DEF Cut
<1>0. (c - last) % (BufferSize - 1) = 0
  BY DEF Behind
<1>3. /\ last <= c
      /\ \A k \in last + 1..c : w[k] # NL
      /\ \A k \in 1..Len(b) : w[c + k] = b[k]
      /\ \A k \in 1..Len(u) : w[Len(w) - Len(u) + k] = u[k]
  BY DEF Behind
<1> HIDE DEF c, d
<1>4. (d - last) % (BufferSize - 1) = 0
  <2>1. c - last \in Nat /\ BufferSize - 1 \in Nat /\ BufferSize - 1 >= 1
    BY <1>2, <1>3
  <2>2. (c - last + (BufferSize - 1)) % (BufferSize - 1) = 0
    BY <1>0, <2>1, FullBlocks
  <2>3. c - last + (BufferSize - 1) = d - last
    BY <1>2
  <2> QED BY <2>2, <2>3
<1>5. ASSUME NEW k \in last + 1..d
      PROVE  w[k] # NL
  <2>1. CASE k <= c
    BY <1>2, <1>3, <2>1
  <2>2. CASE k > c
    <3>1. k - c \in 1..Len(b) /\ c + (k - c) = k
      BY <1>2, <2>2
    <3> DEFINE j == k - c
    <3>2. j \in 1..Len(b) /\ c + j = k
      BY <3>1
    <3> HIDE DEF j
    <3>4. w[c + j] = b[j]
      BY <1>3, <3>2
    <3>3. b[j] # NL
      BY <3>2 DEF HasNewline
    <3> QED BY <3>2, <3>3, <3>4
  <2>3. k \in Int
    BY <1>2
  <2> QED BY <1>2, <2>1, <2>2, <2>3
<1>6. last <= d
  BY <1>2, <1>3
<1> QED BY <1>1, <1>3, <1>4, <1>5, <1>6 DEF Behind, d

(* What is written later is to be read later.                              *)
LEMMA BehindWrite ==
  ASSUME NEW w \in Seq(Bytes), NEW b \in Seq(Bytes), NEW u \in Seq(Bytes),
         NEW t \in Seq(Bytes), NEW last \in Nat, Behind(w, last, b, u)
  PROVE  Behind(w \o t, last, b, u \o t)
<1>1. Len(w) \in Nat /\ Len(u) \in Nat /\ Len(b) \in Nat /\ Len(t) \in Nat
  OBVIOUS
<1> DEFINE v == w \o t
           x == u \o t
<1>2. /\ Len(v) = Len(w) + Len(t)
      /\ \A k \in 1..Len(w) : v[k] = w[k]
      /\ \A k \in Len(w) + 1..Len(w) + Len(t) : v[k] = t[k - Len(w)]
  BY ConcatProperties
<1>3. /\ Len(x) = Len(u) + Len(t)
      /\ \A k \in 1..Len(u) : x[k] = u[k]
      /\ \A k \in Len(u) + 1..Len(u) + Len(t) : x[k] = t[k - Len(u)]
  BY ConcatProperties
<1> HIDE DEF v, x
<1> DEFINE c == Cut(w, b, u)
<1>4. c = Len(w) - Len(u) - Len(b) /\ Cut(v, b, x) = c
  BY <1>1, <1>2, <1>3 DEF Cut
<1>0. (c - last) % (BufferSize - 1) = 0
  BY DEF Behind
<1>5. /\ last <= c
      /\ \A k \in last + 1..c : w[k] # NL
      /\ \A k \in 1..Len(b) : w[c + k] = b[k]
      /\ \A k \in 1..Len(u) : w[Len(w) - Len(u) + k] = u[k]
  BY DEF Behind
<1> HIDE DEF c
<1>6. \A k \in last + 1..c : v[k] # NL
  <2>1. \A k \in last + 1..c : k \in 1..Len(w)
    BY <1>1, <1>4, <1>5
  <2> QED BY <1>2, <1>5, <2>1
<1>7. ASSUME NEW k \in 1..Len(b)
      PROVE  v[c + k] = b[k]
  <2>1. c + k \in 1..Len(w)
    BY <1>1, <1>4, <1>5
  <2>2. v[c + k] = w[c + k]
    BY <1>2, <2>1
  <2>3. w[c + k] = b[k]
    BY <1>5
  <2> QED BY <2>2, <2>3
<1>8. ASSUME NEW k \in 1..Len(x)
      PROVE  v[Len(v) - Len(x) + k] = x[k]
  <2>0. Len(v) - Len(x) + k = Len(w) - Len(u) + k
    BY <1>1, <1>2, <1>3
  <2>1. CASE k <= Len(u)
    <3>1. k \in 1..Len(u) /\ Len(w) - Len(u) + k \in 1..Len(w)
      BY <1>1, <1>4, <1>5, <2>1
    <3>2. v[Len(w) - Len(u) + k] = w[Len(w) - Len(u) + k]
      BY <1>2, <3>1
    <3>3. w[Len(w) - Len(u) + k] = u[k]
      BY <1>5, <3>1
    <3>4. x[k] = u[k]
      BY <1>3, <3>1
    <3> QED BY <2>0, <3>2, <3>3, <3>4
  <2>2. CASE k > Len(u)
    <3> DEFINE j == Len(w) - Len(u) + k
    <3>1. k \in Len(u) + 1..Len(u) + Len(t)
          /\ j \in Len(w) + 1..Len(w) + Len(t)
          /\ j - Len(w) = k - Len(u)
      BY <1>1, <1>3, <2>2
    <3> HIDE DEF j
    <3>2. v[j] = t[j - Len(w)]
      BY <1>2, <3>1
    <3>3. x[k] = t[k - Len(u)]
      BY <1>3, <3>1
    <3> QED BY <2>0, <3>1, <3>2, <3>3 DEF j
  <2> QED BY <1>1, <1>3, <2>1, <2>2
<1>9. Behind(v, last, b, x)
  <2> HIDE DEF Cut
  <2> QED BY <1>0, <1>4, <1>5, <1>6, <1>7, <1>8 DEF Behind
<1> QED BY <1>9 DEF v, x

(* The first line of the buffer is the next line of the stream.            *)
LEMMA BehindLine ==
  ASSUME NEW w \in Seq(Bytes), NEW b \in Seq(Bytes), NEW u \in Seq(Bytes),
         NEW n \in 0..LineCount(w), Behind(w, LineEnd(w, n), b, u),
         Len(b) <= BufferSize - 1, HasNewline(b)
  PROVE  /\ n + 1 \in 1..LineCount(w)
         /\ Take(b, FirstNewline(b) - 1) = LinesSeen(w)[n + 1]
         /\ Behind(w, LineEnd(w, n + 1), Drop(b, FirstNewline(b)), u)
<1> USE BufferSizeAssumption
<1> DEFINE c == Cut(w, b, u)
           p == FirstNewline(b)
           last == LineEnd(w, n)
           e == c + p
<1>1. Len(w) \in Nat /\ Len(u) \in Nat /\ Len(b) \in Nat
  OBVIOUS
<1>2. /\ p \in 1..Len(b) /\ b[p] = NL
      /\ \A k \in 1..(p - 1) : b[k] # NL
  BY FirstNewlineExists
<1>3. LineCount(w) \in Nat
  BY CountStep DEF LineCount
<1>4. last \in 0..Len(w) /\ NewlinesIn(w, last) = n
  BY LineEndFrom
<1>0. (c - last) % (BufferSize - 1) = 0
  BY DEF Behind
<1>5. /\ last <= c
      /\ \A k \in last + 1..c : w[k] # NL
      /\ \A k \in 1..Len(b) : w[c + k] = b[k]
      /\ \A k \in 1..Len(u) : w[Len(w) - Len(u) + k] = u[k]
  BY DEF Behind
<1>6. c = Len(w) - Len(u) - Len(b)
  BY DEF Cut
<1> HIDE DEF c, p, last
<1>7. e \in 1..Len(w) /\ w[e] = NL
  <2>1. w[c + p] = b[p]
    BY <1>1, <1>2, <1>5, <1>6
  <2> QED BY <1>1, <1>2, <1>4, <1>5, <1>6, <2>1
<1>8. ASSUME NEW k \in last + 1..e - 1
      PROVE  w[k] # NL
  <2>1. CASE k <= c
    BY <1>1, <1>4, <1>6, <1>5, <2>1
  <2>2. CASE k > c
    <3> DEFINE j == k - c
    <3>1. j \in 1..p - 1 /\ j \in 1..Len(b) /\ c + j = k
      BY <1>1, <1>2, <1>4, <1>6, <2>2
    <3> HIDE DEF j
    <3>2. w[c + j] = b[j] /\ b[j] # NL
      BY <1>2, <1>5, <3>1
    <3> QED BY <3>1, <3>2
  <2>3. k \in Int /\ c \in Int
    BY <1>1, <1>4, <1>6
  <2> QED BY <2>1, <2>2, <2>3
<1>9. e - 1 \in Nat /\ last \in Nat /\ last <= e - 1 /\ e - 1 + 1 = e
  BY <1>1, <1>2, <1>4, <1>5, <1>6
<1> HIDE DEF e
<1>10. NewlinesIn(w, e) = n + 1
  <2>1. NewlinesIn(w, e - 1) = NewlinesIn(w, last)
    BY <1>8, <1>9, CountOver
  <2>2. NewlinesIn(w, e - 1 + 1)
          = NewlinesIn(w, e - 1) + (IF w[e - 1 + 1] = NL THEN 1 ELSE 0)
    BY <1>9, CountStep
  <2> QED BY <1>4, <1>7, <1>9, <2>1, <2>2
<1>11. LineEnd(w, n + 1) = e /\ n + 1 \in 1..LineCount(w)
  BY <1>7, <1>10, LineEndIs
<1>12. Behind(w, e, Drop(b, p), u)
  <2>1. /\ Drop(b, p) \in Seq(Bytes) /\ Len(Drop(b, p)) = Len(b) - p
        /\ \A k \in 1..Len(b) - p : Drop(b, p)[k] = b[p + k]
    BY <1>1, <1>2, PartOf DEF Drop
  <2>2. Cut(w, Drop(b, p), u) = e
    BY <1>1, <1>2, <1>6, <2>1 DEF Cut, e
  <2>3. (e - e) % (BufferSize - 1) = 0
    <3>1. e - e = 0 /\ BufferSize - 1 \in Nat /\ BufferSize - 1 > 0
      BY <1>7
    <3> QED BY <3>1
  <2>4. \A k \in e + 1..e : w[k] # NL
    BY <1>7
  <2>5. ASSUME NEW k \in 1..Len(Drop(b, p))
        PROVE  w[e + k] = Drop(b, p)[k]
    <3> DEFINE j == p + k
    <3>0. k \in 1..Len(b) - p
      BY <2>1
    <3>1. j \in 1..Len(b) /\ c + j = e + k
      BY <1>1, <1>2, <1>6, <3>0 DEF e
    <3>2. Drop(b, p)[k] = b[j]
      BY <2>1, <3>0
    <3> HIDE DEF j
    <3>3. w[c + j] = b[j]
      BY <1>5, <3>1
    <3> QED BY <3>1, <3>2, <3>3
  <2>6. e <= e
    BY <1>7
  <2> QED BY <1>5, <2>2, <2>3, <2>4, <2>5, <2>6 DEF Behind
<1>13. Take(b, p - 1) = LinesSeen(w)[n + 1]
  <2> DEFINE line == SubSeq(w, last + 1, e - 1)
             skip == c - last
  <2>1. LinesSeen(w)[n + 1] = Seen(line)
    <3>1. ASSUME NEW m \in 1..LineCount(w), m = n + 1
          PROVE  LinesOf(w)[m] = line
      <4>1. LinesOf(w)[m] = SubSeq(w, LineEnd(w, m - 1) + 1, LineEnd(w, m) - 1)
        BY DEF LinesOf
      <4>2. m - 1 = n
        BY <1>3, <3>1
      <4> QED BY <1>11, <3>1, <4>1, <4>2 DEF last
    <3>2. LinesOf(w)[n + 1] = line
      BY <1>11, <3>1
    <3>3. DOMAIN LinesOf(w) = 1..LineCount(w)
      BY DEF LinesOf
    <3> HIDE DEF line
    <3> QED BY <1>11, <3>2, <3>3 DEF LinesSeen
  <2>2. skip \in Nat /\ p - 1 \in Nat /\ p - 1 <= BufferSize - 2
        /\ e - 1 - last = skip + (p - 1)
    BY <1>1, <1>2, <1>4, <1>5, <1>6 DEF e
  <2>3. /\ line \in Seq(Bytes) /\ Len(line) = skip + (p - 1)
        /\ \A k \in 1..skip + (p - 1) : line[k] = w[last + k]
    <3>1. e - 1 <= Len(w)
      BY <1>1, <1>7
    <3>2. /\ line \in Seq(Bytes) /\ Len(line) = e - 1 - last
          /\ \A k \in 1..e - 1 - last : line[k] = w[last + k]
      BY <1>1, <1>9, <3>1, PartOf, SMTT(30)
    <3> HIDE DEF line, skip
    <3> QED BY <2>2, <3>2
  <2> HIDE DEF line, skip
  <2>4. Len(line) % (BufferSize - 1) = p - 1
    <3>1. skip % (BufferSize - 1) = 0
      BY <1>0 DEF skip
    <3>2. BufferSize - 1 \in Nat /\ BufferSize - 1 >= 1
          /\ p - 1 \in 0..BufferSize - 1 - 1
      BY <2>2
    <3>3. (skip + (p - 1)) % (BufferSize - 1) = p - 1
      BY <2>2, <3>1, <3>2, FullBlocks
    <3> QED BY <2>3, <3>3
  <2>5. Seen(line) = SubSeq(line, skip + 1, skip + (p - 1))
    <3>1. Len(line) - (Len(line) % (BufferSize - 1)) = skip
      BY <2>2, <2>3, <2>4
    <3> QED BY <2>3, <3>1 DEF Seen, Drop
  <2>6. Take(b, p - 1) = SubSeq(b, 1, p - 1)
    BY <1>1, <1>2 DEF Take
  <2>7. SubSeq(line, skip + 1, skip + (p - 1))
          = [k \in 1..p - 1 |-> line[skip + k]]
    BY <2>2, <2>3
  <2>8. SubSeq(b, 1, p - 1) = [k \in 1..p - 1 |-> b[k]]
    BY <1>1, <1>2
  <2>9. ASSUME NEW k \in 1..p - 1
        PROVE  line[skip + k] = b[k]
    <3>1. skip + k \in 1..skip + (p - 1) /\ k \in 1..Len(b)
          /\ last + (skip + k) = c + k
      BY <1>1, <1>2, <1>4, <1>6, <2>2 DEF skip
    <3>2. line[skip + k] = w[last + (skip + k)]
      BY <2>3, <3>1
    <3>3. w[c + k] = b[k]
      BY <1>5, <3>1
    <3> QED BY <3>1, <3>2, <3>3
  <2> QED BY <2>1, <2>5, <2>6, <2>7, <2>8, <2>9
<1> QED BY <1>11, <1>12, <1>13 DEF p

-----------------------------------------------------------------------------
(* The slots as an array, and the three things the server does to it.      *)
Slots == [client : Clients, buf : Seq(Bytes)]

(* accept() puts a descriptor that was in no slot into the first free one. *)
LEMMA NewSlot ==
  ASSUME conns \in Seq(Slots), NEW c \in Clients,
         conns' = Append(conns, [client |-> c, buf |-> <<>>])
  PROVE  /\ conns' \in Seq(Slots)
         /\ Len(conns') = Len(conns) + 1
         /\ \A k \in 1..Len(conns) : conns'[k] = conns[k]
         /\ conns'[Len(conns) + 1] = [client |-> c, buf |-> <<>>]
<1>1. [client |-> c, buf |-> <<>>] \in Slots
  BY DEF Slots
<1> HIDE DEF Slots
<1> QED BY <1>1, AppendProperties

(* A read changes the buffer of one slot and no descriptor.                *)
LEMMA FilledSlot ==
  ASSUME conns \in Seq(Slots), NEW k \in 1..Len(conns), NEW s \in Seq(Bytes),
         KeepInBuffer(k, s)
  PROVE  /\ conns' \in Seq(Slots)
         /\ Len(conns') = Len(conns)
         /\ \A m \in 1..Len(conns) : conns'[m].client = conns[m].client
         /\ \A m \in 1..Len(conns) : m # k => conns'[m] = conns[m]
         /\ conns'[k].buf = s
<1>1. conns[k] \in Slots
  OBVIOUS
<1>2. [conns[k] EXCEPT !.buf = s] \in Slots
      /\ [conns[k] EXCEPT !.buf = s].client = conns[k].client
      /\ [conns[k] EXCEPT !.buf = s].buf = s
  BY <1>1 DEF Slots
<1>3. conns' = [conns EXCEPT ![k] = [conns[k] EXCEPT !.buf = s]]
  BY DEF KeepInBuffer
<1> HIDE DEF Slots
<1>4. conns' \in Seq(Slots) /\ Len(conns') = Len(conns)
      /\ conns'[k] = [conns[k] EXCEPT !.buf = s]
      /\ \A m \in 1..Len(conns) : m # k => conns'[m] = conns[m]
  BY <1>2, <1>3, ExceptSeq
<1> QED BY <1>2, <1>4

(* handle_close_client removes one slot; the last one takes its place.     *)
LEMMA RemovedSlot ==
  ASSUME conns \in Seq(Slots), NEW k \in 1..Len(conns), RemoveSlot(k)
  PROVE  /\ conns' \in Seq(Slots)
         /\ Len(conns') = Len(conns) - 1
         /\ \A m \in 1..Len(conns') :
              conns'[m] = IF m = k THEN conns[Len(conns)] ELSE conns[m]
<1> HIDE DEF Slots
<1> DEFINE n == Len(conns) - 1
<1>1. n \in Nat /\ Len(conns) \in Nat
  OBVIOUS
<1>2. conns' = [m \in 1..n |-> IF m = k THEN conns[Len(conns)] ELSE conns[m]]
  BY DEF RemoveSlot
<1>3. conns' \in [1..n -> Slots]
  BY <1>1, <1>2
<1>4. conns' \in Seq(Slots) /\ Len(conns') = n
  <2> HIDE DEF n
  <2> QED BY <1>1, <1>3
<1> QED BY <1>1, <1>2, <1>4

-----------------------------------------------------------------------------
(* The types, the room that is left in each buffer, and that accept() is   *)
(* called only when somebody waits.                                        *)
BuffersHaveRoom ==
  \A k \in 1..Len(conns) : Len(conns[k].buf) <= BufferSize - 2
SomebodyWaits == spc = "scan" /\ i = 0 /\ revents[0] => backlog # <<>>
TableTypeOK ==
  /\ conns \in Seq(Slots) /\ Len(conns) <= MaxClients
  /\ backlog \in Seq(Clients)
  /\ cliEnd \in [Clients -> EndStates]
  /\ srvEnd \in [Clients -> EndStates]
  /\ up \in [Clients -> Seq(Bytes)]
  /\ revents \in [0..MaxClients -> BOOLEAN]
  /\ i \in Nat
  /\ wrote \in [Clients -> Seq(Bytes)]
  /\ BuffersHaveRoom
  /\ SomebodyWaits

(* In the turn of a slot: there is room to read into, so that read() has   *)
(* nothing only when the client has sent nothing, and whatever it reads    *)
(* leaves room again.                                                      *)
LEMMA TurnOfSlot ==
  ASSUME TableTypeOK, InTurn
  PROVE  /\ i \in 1..Len(conns) /\ Client(i) \in Clients
         /\ Incoming(i) = <<>> => up[Client(i)] = <<>>
         /\ Received(i) \in Seq(Bytes)
         /\ Len(Received(i)) <= BufferSize - 1
         /\ HasNewline(Received(i))
              => Leftover \in Seq(Bytes) /\ Len(Leftover) <= BufferSize - 2
         /\ Drop(up[Client(i)], Len(Incoming(i))) \in Seq(Bytes)
<1> USE BufferSizeAssumption
<1>1. i \in 1..Len(conns) /\ conns[i] \in Slots
  BY DEF TableTypeOK, InTurn, nfds
<1>2. Client(i) \in Clients /\ Buffered(i) \in Seq(Bytes)
  BY <1>1 DEF Client, Buffered, Slots
<1>3. Len(Buffered(i)) \in Nat /\ Len(Buffered(i)) <= BufferSize - 2
  BY <1>1, <1>2 DEF TableTypeOK, BuffersHaveRoom, Buffered
<1>4. Space(i) \in Nat /\ Space(i) > 0
      /\ Len(Buffered(i)) + Space(i) = BufferSize - 1
  BY <1>3 DEF Space
<1>5. up[Client(i)] \in Seq(Bytes)
  BY <1>2 DEF TableTypeOK
<1>6. /\ Incoming(i) \in Seq(Bytes) /\ Len(Incoming(i)) <= Space(i)
      /\ Incoming(i) = <<>> => up[Client(i)] = <<>>
  BY <1>4, <1>5, TakeAndDrop DEF Incoming
<1>7. Len(Incoming(i)) \in Nat
  BY <1>6
<1>8. Received(i) \in Seq(Bytes)
      /\ Len(Received(i)) = Len(Buffered(i)) + Len(Incoming(i))
  BY <1>2, <1>6, ConcatProperties DEF Received
<1>9. Len(Received(i)) \in Nat /\ Len(Received(i)) <= BufferSize - 1
  BY <1>3, <1>4, <1>6, <1>7, <1>8
<1>10. ASSUME HasNewline(Received(i))
       PROVE  Leftover \in Seq(Bytes) /\ Len(Leftover) <= BufferSize - 2
  <2>1. FirstNewline(Received(i)) \in 1..Len(Received(i))
    BY <1>8, <1>10, FirstNewlineExists
  <2>2. Leftover \in Seq(Bytes)
        /\ Len(Leftover) = Len(Received(i)) - FirstNewline(Received(i))
    BY <1>8, <1>9, <2>1, TakeAndDrop DEF Leftover
  <2> QED BY <1>9, <2>1, <2>2
<1>11. Drop(up[Client(i)], Len(Incoming(i))) \in Seq(Bytes)
  BY <1>5, <1>7, TakeAndDrop
<1> QED BY <1>1, <1>2, <1>6, <1>8, <1>9, <1>10, <1>11

(* close() of some of the connections.                                     *)
LEMMA ClosedEnds ==
  ASSUME TableTypeOK, NEW C, CloseServerEnds(C)
  PROVE  /\ srvEnd' \in [Clients -> EndStates]
         /\ up' \in [Clients -> Seq(Bytes)]
         /\ \A c \in Clients :
              srvEnd'[c] = IF c \in C THEN "closed" ELSE srvEnd[c]
<1>1. <<>> \in Seq(Bytes)
  BY EmptySeq
<1> QED BY <1>1 DEF CloseServerEnds, EndStates, TableTypeOK

(* Where a signal moves the server.                                        *)
LEMMA SignalMoves ==
  ASSUME Terminate
  PROVE  /\ UNCHANGED <<conns, revents, i, socketVars>>
         /\ \/ spc' = spc
            \/ spc = "main" /\ spc' = "terminated"
            \/ spc = "blocked" /\ spc' = "closing"
BY DEF Terminate

(* Every step keeps the types, and a buffer never has more than it has     *)
(* room for.                                                               *)
LEMMA TableTypeInvariant == TableTypeOK /\ [ServerNext]_netVars => TableTypeOK'
<1> SUFFICES ASSUME TableTypeOK, [ServerNext]_netVars
             PROVE  TableTypeOK'
  OBVIOUS
<1> USE MaxClientsAssumption, BufferSizeAssumption
<1>1. CASE ServerStep
  <2>1. CASE \/ SetupSigactions \/ SetupSocket \/ StartUpFails \/ TestFlag
             \/ PollBlocks \/ SkipSlot \/ EndScan \/ AcceptFails \/ SendAnswer
    BY <2>1 DEF SetupSigactions, SetupSocket, StartUpFails, TestFlag,
         PollBlocks, SkipSlot, EndScan, AcceptFails, SendAnswer, socketVars,
         TableTypeOK, BuffersHaveRoom, SomebodyWaits
  <2>2. CASE PollReturns
    <3>1. \A k : Ready(k) \in BOOLEAN
      BY DEF Ready, Readable
    <3>2. revents' = [k \in 0..MaxClients |->
                        IF k < nfds THEN Ready(k) ELSE revents[k]]
      BY <2>2 DEF PollReturns
    <3>3. revents' \in [0..MaxClients -> BOOLEAN]
      BY <3>1, <3>2 DEF TableTypeOK
    <3>4. 0 < nfds /\ (Ready(0) => backlog # <<>>)
      BY DEF nfds, Ready, TableTypeOK
    <3>5. revents'[0] => backlog # <<>>
      BY <3>2, <3>4
    <3> QED
      BY <2>2, <3>3, <3>5
         DEF PollReturns, socketVars, TableTypeOK, BuffersHaveRoom,
             SomebodyWaits
  <2>3. CASE AcceptConnection
    <3>1. Head(backlog) \in Clients /\ Tail(backlog) \in Seq(Clients)
      BY <2>3, HeadTailProperties
         DEF AcceptConnection, TableTypeOK, SomebodyWaits
    <3>2. conns \in Seq(Slots)
          /\ conns' = Append(conns, [client |-> Head(backlog), buf |-> <<>>])
      BY <2>3 DEF AcceptConnection, TableTypeOK
    <3>3. conns' \in Seq(Slots) /\ Len(conns') <= MaxClients
          /\ BuffersHaveRoom'
      <4>1. /\ conns' \in Seq(Slots) /\ Len(conns') = Len(conns) + 1
            /\ \A k \in 1..Len(conns) : conns'[k] = conns[k]
            /\ conns'[Len(conns) + 1] = [client |-> Head(backlog), buf |-> <<>>]
        BY <3>1, <3>2, NewSlot
      <4>2. Len(conns) \in Nat /\ Len(conns) + 1 <= MaxClients
        BY <2>3 DEF AcceptConnection, nfds, TableTypeOK
      <4>3. ASSUME NEW k \in 1..Len(conns')
            PROVE  Len(conns'[k].buf) <= BufferSize - 2
        <5>1. CASE k \in 1..Len(conns)
          BY <4>1, <5>1 DEF TableTypeOK, BuffersHaveRoom
        <5>2. CASE k = Len(conns) + 1
          <6>1. conns'[k].buf = <<>>
            BY <4>1, <5>2
          <6>2. Len(<<>>) = 0
            OBVIOUS
          <6> QED BY <6>1, <6>2
        <5> QED BY <4>1, <4>2, <5>1, <5>2
      <4> QED BY <4>1, <4>2, <4>3 DEF BuffersHaveRoom
    <3> QED
      BY <2>3, <3>1, <3>3 DEF AcceptConnection, TableTypeOK, SomebodyWaits
  <2>4. CASE RejectConnection
    <3>1. Tail(backlog) \in Seq(Clients)
      BY <2>4, HeadTailProperties
         DEF RejectConnection, TableTypeOK, SomebodyWaits
    <3> QED
      BY <2>4, <3>1
         DEF RejectConnection, CloseServerEnds, EndStates, TableTypeOK,
             BuffersHaveRoom, SomebodyWaits
  <2>5. CASE ReadEnd
    <3>1. i \in 1..Len(conns) /\ conns \in Seq(Slots) /\ RemoveSlot(i)
      BY <2>5, TurnOfSlot DEF ReadEnd, TableTypeOK
    <3>2. /\ conns' \in Seq(Slots) /\ Len(conns') = Len(conns) - 1
          /\ \A m \in 1..Len(conns') :
               conns'[m] = IF m = i THEN conns[Len(conns)] ELSE conns[m]
      BY <3>1, RemovedSlot
    <3>3. Len(conns) \in Nat /\ Len(conns) <= MaxClients
      BY DEF TableTypeOK
    <3>4. BuffersHaveRoom' /\ Len(conns') <= MaxClients
      <4>1. ASSUME NEW k \in 1..Len(conns')
            PROVE  Len(conns'[k].buf) <= BufferSize - 2
        <5>1. PICK m \in 1..Len(conns) : conns'[k] = conns[m]
          BY <3>1, <3>2, <3>3
        <5> QED BY <5>1 DEF TableTypeOK, BuffersHaveRoom
      <4> QED BY <3>2, <3>3, <4>1 DEF BuffersHaveRoom
    <3>5. revents' \in [0..MaxClients -> BOOLEAN]
      BY <3>1, <3>3 DEF RemoveSlot, TableTypeOK
    <3> QED
      BY <2>5, <3>1, <3>2, <3>4, <3>5
         DEF ReadEnd, CloseServerEnds, EndStates, TableTypeOK, SomebodyWaits
  <2>6. CASE ReadLine \/ ReadPart \/ ReadOverflow
    <3>1. InTurn /\ conns \in Seq(Slots) /\ i \in 1..Len(conns)
      BY <2>6, TurnOfSlot
         DEF ReadLine, ReadPart, ReadOverflow, TableTypeOK
    <3>2. PICK s \in Seq(Bytes) :
            Len(s) <= BufferSize - 2 /\ KeepInBuffer(i, s)
      <4>1. CASE ReadLine
        BY <4>1, <3>1, TurnOfSlot DEF ReadLine
      <4>2. CASE ReadPart
        BY <4>2, <3>1, TurnOfSlot DEF ReadPart
      <4>3. CASE ReadOverflow
        <5>1. <<>> \in Seq(Bytes) /\ Len(<<>>) <= BufferSize - 2
          BY EmptySeq
        <5> QED BY <4>3, <5>1 DEF ReadOverflow
      <4> QED BY <2>6, <4>1, <4>2, <4>3
    <3>3. /\ conns' \in Seq(Slots) /\ Len(conns') = Len(conns)
          /\ \A m \in 1..Len(conns) : m # i => conns'[m] = conns[m]
          /\ conns'[i].buf = s
      BY <3>1, <3>2, FilledSlot
    <3>4. BuffersHaveRoom'
      BY <3>2, <3>3 DEF TableTypeOK, BuffersHaveRoom
    <3>5. up' \in [Clients -> Seq(Bytes)]
      BY <2>6, <3>1, TurnOfSlot
         DEF ReadLine, ReadPart, ReadOverflow, Consume, TableTypeOK
    <3> QED
      BY <2>6, <3>1, <3>3, <3>4, <3>5, SMTT(30)
         DEF ReadLine, ReadPart, ReadOverflow, TableTypeOK, SomebodyWaits
  <2>7. CASE SendRaisesSigpipe \/ CloseConnections \/ CloseListener
    <3>1. srvEnd' \in [Clients -> EndStates] /\ up' \in [Clients -> Seq(Bytes)]
      BY <2>7, ClosedEnds DEF SendRaisesSigpipe, CloseConnections, CloseListener
    <3>2. backlog' \in Seq(Clients)
      BY <2>7, EmptySeq
         DEF SendRaisesSigpipe, CloseConnections, CloseListener, TableTypeOK
    <3> QED
      BY <2>7, <3>1, <3>2
         DEF SendRaisesSigpipe, CloseConnections, CloseListener,
             TableTypeOK, BuffersHaveRoom, SomebodyWaits
  <2> QED
    BY <1>1, <2>1, <2>2, <2>3, <2>4, <2>5, <2>6, <2>7
       DEF ServerStep, HandleClient
<1>2. CASE Terminate
  <2>1. UNCHANGED <<conns, revents, i, backlog, cliEnd, srvEnd, wrote, up>>
        /\ (spc' = "scan" => spc = "scan")
    BY <1>2, SignalMoves DEF socketVars
  <2> QED BY <2>1 DEF TableTypeOK, BuffersHaveRoom, SomebodyWaits
<1>3. ASSUME NEW c \in Clients, Connect(c), UNCHANGED serverVars
      PROVE  TableTypeOK'
  <2>1. backlog' \in Seq(Clients) /\ backlog' # <<>>
    <3>1. backlog \in Seq(Clients) /\ backlog' = Append(backlog, c)
      BY <1>3 DEF Connect, TableTypeOK
    <3> QED BY <3>1, AppendProperties
  <2> QED
    BY <1>3, <2>1
       DEF Connect, serverVars, EndStates, TableTypeOK,
           BuffersHaveRoom, SomebodyWaits
<1>4. ASSUME NEW c \in Clients, UNCHANGED serverVars,
             NEW bytes \in Seq(Bytes), ClientSend(c, bytes)
      PROVE  TableTypeOK'
  <2>1. up[c] \o bytes \in Seq(Bytes) /\ wrote[c] \o bytes \in Seq(Bytes)
    BY ConcatProperties DEF TableTypeOK
  <2> QED
    BY <1>4, <2>1
       DEF ClientSend, serverVars, TableTypeOK, BuffersHaveRoom, SomebodyWaits
<1>5. ASSUME NEW c \in Clients, ClientReceive(c) \/ ClientClose(c),
             UNCHANGED serverVars
      PROVE  TableTypeOK'
  BY <1>5 DEF ClientReceive, ClientClose, serverVars, EndStates, TableTypeOK,
       BuffersHaveRoom, SomebodyWaits
<1>6. CASE UNCHANGED netVars
  BY <1>6 DEF netVars, serverVars, socketVars, TableTypeOK,
       BuffersHaveRoom, SomebodyWaits
<1> QED BY <1>1, <1>2, <1>3, <1>4, <1>5, <1>6 DEF ServerNext, ClientMoves

-----------------------------------------------------------------------------
(* While the server serves: no client has two slots or waits twice, none   *)
(* does both, and the open connections are those with a slot and those     *)
(* that wait.  A client has both ends or none at any time; once the slots  *)
(* are closed only the backlog is left to close.                           *)
Serving == ServerRuns /\ spc # "unlinking"
HasSlot(c) == \E k \in 1..Len(conns) : Client(k) = c
IsWaiting(c) == \E m \in 1..Len(backlog) : backlog[m] = c

OneSlotEach ==
  \A k, m \in 1..Len(conns) : Client(k) = Client(m) => k = m
OnePlaceEach ==
  \A k, m \in 1..Len(backlog) : backlog[k] = backlog[m] => k = m
OneOfBoth == \A c \in Clients : ~(HasSlot(c) /\ IsWaiting(c))
OpenAreKnown ==
  \A c \in Clients : srvEnd[c] = "open" <=> HasSlot(c) \/ IsWaiting(c)
ConnectionsAgree ==
  OneSlotEach /\ OnePlaceEach /\ OneOfBoth /\ OpenAreKnown
BothEndsOrNone == \A c \in Clients : cliEnd[c] = "none" <=> srvEnd[c] = "none"
ClosedSlots ==
  /\ \A k \in 1..Len(conns) : srvEnd[Client(k)] = "closed"
  /\ \A c \in Clients : IsWaiting(c) => srvEnd[c] # "none"

SlotIInv ==
  /\ TableTypeOK
  /\ BothEndsOrNone
  /\ Serving => ConnectionsAgree
  /\ spc = "unlinking" => ClosedSlots

(* The steps that leave the connections alone.                             *)
LEMMA ConnectionsUntouched ==
  ASSUME TableTypeOK, UNCHANGED <<backlog, srvEnd>>,
         Len(conns') = Len(conns),
         \A k \in 1..Len(conns) : conns'[k].client = conns[k].client
  PROVE  /\ ConnectionsAgree => ConnectionsAgree'
         /\ ClosedSlots => ClosedSlots'
<1>1. \A k \in 1..Len(conns) : Client(k)' = Client(k)
  BY DEF Client
<1>2. \A c : (HasSlot(c)' <=> HasSlot(c)) /\ (IsWaiting(c)' <=> IsWaiting(c))
  BY <1>1 DEF HasSlot, IsWaiting
<1>3. (OneSlotEach => OneSlotEach') /\ (OnePlaceEach => OnePlaceEach')
  BY <1>1 DEF OneSlotEach, OnePlaceEach
<1>4. (OneOfBoth => OneOfBoth') /\ (OpenAreKnown => OpenAreKnown')
  BY <1>2 DEF OneOfBoth, OpenAreKnown
<1>5. ClosedSlots => ClosedSlots'
  BY <1>1, <1>2 DEF ClosedSlots
<1> QED BY <1>3, <1>4, <1>5 DEF ConnectionsAgree

(* The first in the backlog leaves it.                                     *)
LEMMA FirstLeaves ==
  ASSUME TableTypeOK, backlog # <<>>, backlog' = Tail(backlog),
         OnePlaceEach
  PROVE  /\ Head(backlog) \in Clients /\ IsWaiting(Head(backlog))
         /\ OnePlaceEach'
         /\ \A c : IsWaiting(c)' <=> IsWaiting(c) /\ c # Head(backlog)
<1>1. backlog \in Seq(Clients)
  BY DEF TableTypeOK
<1>2. /\ Head(backlog) \in Clients /\ Head(backlog) = backlog[1]
      /\ Len(backlog) \in Nat /\ Len(backlog) > 0
      /\ Len(backlog') = Len(backlog) - 1
      /\ \A m \in 1..Len(backlog') : backlog'[m] = backlog[m + 1]
  BY <1>1, HeadTailProperties
<1>3. OnePlaceEach'
  <2> SUFFICES ASSUME NEW k \in 1..Len(backlog'), NEW m \in 1..Len(backlog'),
                      backlog'[k] = backlog'[m]
               PROVE  k = m
    BY DEF OnePlaceEach
  <2>1. backlog[k + 1] = backlog[m + 1]
    BY <1>2
  <2>2. k + 1 \in 1..Len(backlog) /\ m + 1 \in 1..Len(backlog)
    BY <1>2
  <2>3. k + 1 = m + 1
    BY <2>1, <2>2 DEF OnePlaceEach
  <2> QED BY <1>2, <2>3
<1>4. ASSUME NEW c, IsWaiting(c)'
      PROVE  IsWaiting(c) /\ c # Head(backlog)
  <2>1. PICK m \in 1..Len(backlog') : backlog'[m] = c
    BY <1>4 DEF IsWaiting
  <2>2. m + 1 \in 1..Len(backlog) /\ m + 1 # 1 /\ backlog[m + 1] = c
    BY <1>2, <2>1
  <2> QED BY <1>2, <2>2 DEF IsWaiting, OnePlaceEach
<1>5. ASSUME NEW c, IsWaiting(c), c # Head(backlog)
      PROVE  IsWaiting(c)'
  <2>1. PICK m \in 1..Len(backlog) : backlog[m] = c
    BY <1>5 DEF IsWaiting
  <2>2. m - 1 \in 1..Len(backlog')
    BY <1>2, <1>5, <2>1
  <2>3. backlog'[m - 1] = c
    BY <1>2, <2>1, <2>2
  <2> QED BY <2>2, <2>3 DEF IsWaiting
<1>6. IsWaiting(Head(backlog))
  BY <1>2 DEF IsWaiting
<1> QED BY <1>2, <1>3, <1>4, <1>5, <1>6

(* Accepting moves a connection from the backlog to a slot.                *)
LEMMA AcceptKeeps ==
  ASSUME TableTypeOK, ConnectionsAgree, AcceptConnection
  PROVE  ConnectionsAgree'
<1>1. backlog # <<>> /\ backlog' = Tail(backlog) /\ OnePlaceEach
  BY DEF AcceptConnection, TableTypeOK, SomebodyWaits, ConnectionsAgree
<1>2. /\ Head(backlog) \in Clients /\ IsWaiting(Head(backlog))
      /\ OnePlaceEach'
      /\ \A c : IsWaiting(c)' <=> IsWaiting(c) /\ c # Head(backlog)
  BY <1>1, FirstLeaves
<1>3. /\ Len(conns') = Len(conns) + 1
      /\ \A k \in 1..Len(conns) : conns'[k] = conns[k]
      /\ conns'[Len(conns) + 1] = [client |-> Head(backlog), buf |-> <<>>]
      /\ Len(conns) \in Nat
  BY <1>2, NewSlot DEF AcceptConnection, TableTypeOK
<1>4. /\ \A k \in 1..Len(conns) : Client(k)' = Client(k)
      /\ \A k \in 1..Len(conns') :
           k = Len(conns) + 1 => Client(k)' = Head(backlog)
  BY <1>3 DEF Client
<1>5. \A c : HasSlot(c)' <=> HasSlot(c) \/ c = Head(backlog)
  BY <1>3, <1>4 DEF HasSlot
<1>6. ~HasSlot(Head(backlog))
  BY <1>2 DEF ConnectionsAgree, OneOfBoth
<1>7. OneSlotEach'
  <2> SUFFICES ASSUME NEW k \in 1..Len(conns'), NEW m \in 1..Len(conns'),
                      Client(k)' = Client(m)'
               PROVE  k = m
    BY DEF OneSlotEach
  <2>1. CASE k \in 1..Len(conns) /\ m \in 1..Len(conns)
    BY <1>4, <2>1 DEF ConnectionsAgree, OneSlotEach
  <2>2. CASE k = Len(conns) + 1 /\ m \in 1..Len(conns)
    BY <1>4, <1>6, <2>2 DEF HasSlot
  <2>3. CASE m = Len(conns) + 1 /\ k \in 1..Len(conns)
    BY <1>4, <1>6, <2>3 DEF HasSlot
  <2>4. CASE k = Len(conns) + 1 /\ m = Len(conns) + 1
    BY <2>4
  <2> QED BY <1>3, <2>1, <2>2, <2>3, <2>4
<1>8. UNCHANGED srvEnd
  BY DEF AcceptConnection
<1>9. OneOfBoth' /\ OpenAreKnown'
  BY <1>2, <1>5, <1>8 DEF ConnectionsAgree, OneOfBoth, OpenAreKnown
<1> QED BY <1>2, <1>7, <1>9 DEF ConnectionsAgree

(* Turning a connection away takes it from the backlog and closes it.      *)
LEMMA RejectKeeps ==
  ASSUME TableTypeOK, ConnectionsAgree, RejectConnection
  PROVE  ConnectionsAgree'
<1>1. backlog # <<>> /\ backlog' = Tail(backlog) /\ OnePlaceEach
  BY DEF RejectConnection, TableTypeOK, SomebodyWaits, ConnectionsAgree
<1>2. /\ IsWaiting(Head(backlog)) /\ Head(backlog) \in Clients
      /\ OnePlaceEach'
      /\ \A c : IsWaiting(c)' <=> IsWaiting(c) /\ c # Head(backlog)
  BY <1>1, FirstLeaves
<1>3. UNCHANGED conns /\ CloseServerEnds({Head(backlog)})
  BY DEF RejectConnection
<1>4. \A c \in Clients :
        srvEnd'[c] = IF c = Head(backlog) THEN "closed" ELSE srvEnd[c]
  BY <1>3, ClosedEnds
<1>5. \A c : HasSlot(c)' <=> HasSlot(c)
  BY <1>3 DEF HasSlot, Client
<1>6. OneSlotEach'
  BY <1>3 DEF ConnectionsAgree, OneSlotEach, Client
<1>7. OneOfBoth' /\ OpenAreKnown'
  BY <1>2, <1>4, <1>5 DEF ConnectionsAgree, OneOfBoth, OpenAreKnown
<1> QED BY <1>2, <1>6, <1>7 DEF ConnectionsAgree

(* The swap of handle_close_client: the last slot moves to the place of    *)
(* the one that leaves.                                                    *)
LEMMA RemovalKeeps ==
  ASSUME TableTypeOK, ConnectionsAgree, ReadEnd
  PROVE  ConnectionsAgree'
<1>1. i \in 1..Len(conns) /\ Client(i) \in Clients
  BY TurnOfSlot DEF ReadEnd
<1>2. /\ Len(conns') = Len(conns) - 1 /\ Len(conns) \in Nat
      /\ \A m \in 1..Len(conns') :
           conns'[m] = IF m = i THEN conns[Len(conns)] ELSE conns[m]
  BY <1>1, RemovedSlot DEF ReadEnd, TableTypeOK
<1> DEFINE from(m) == IF m = i THEN Len(conns) ELSE m
<1>3. \A m \in 1..Len(conns') :
        from(m) \in 1..Len(conns) /\ from(m) # i /\ Client(m)' = Client(from(m))
  BY <1>1, <1>2 DEF Client
<1>4. \A k, m \in 1..Len(conns') : from(k) = from(m) => k = m
  BY <1>1, <1>2
<1>5. \A k \in 1..Len(conns) : k # i => \E m \in 1..Len(conns') : from(m) = k
  <2> SUFFICES ASSUME NEW k \in 1..Len(conns), k # i
               PROVE  \E m \in 1..Len(conns') : from(m) = k
    OBVIOUS
  <2>1. CASE k = Len(conns)
    <3>1. i \in 1..Len(conns') /\ from(i) = k
      BY <1>1, <1>2, <2>1
    <3> QED BY <3>1
  <2>2. CASE k # Len(conns)
    <3>1. k \in 1..Len(conns') /\ from(k) = k
      BY <1>2, <2>2
    <3> QED BY <3>1
  <2> QED BY <2>1, <2>2
<1> HIDE DEF from
<1>6. OneSlotEach
  BY DEF ConnectionsAgree
<1>7. OneSlotEach'
  BY <1>3, <1>4, <1>6 DEF OneSlotEach
<1>8. \A c : HasSlot(c)' <=> HasSlot(c) /\ c # Client(i)
  <2>1. ASSUME NEW c, HasSlot(c)'
        PROVE  HasSlot(c) /\ c # Client(i)
    BY <1>1, <1>3, <1>6, <2>1 DEF HasSlot, OneSlotEach
  <2>2. ASSUME NEW c, HasSlot(c), c # Client(i)
        PROVE  HasSlot(c)'
    BY <1>3, <1>5, <2>2 DEF HasSlot
  <2> QED BY <2>1, <2>2
<1>9. UNCHANGED backlog /\ CloseServerEnds({Client(i)})
  BY DEF ReadEnd
<1>10. \A c \in Clients :
         srvEnd'[c] = IF c = Client(i) THEN "closed" ELSE srvEnd[c]
  BY <1>9, ClosedEnds
<1>11. /\ \A c : IsWaiting(c)' <=> IsWaiting(c)
       /\ OnePlaceEach'
  BY <1>9 DEF IsWaiting, ConnectionsAgree, OnePlaceEach
<1>12. HasSlot(Client(i))
  BY <1>1 DEF HasSlot
<1>13. OneOfBoth' /\ OpenAreKnown'
  BY <1>1, <1>8, <1>10, <1>11, <1>12
     DEF ConnectionsAgree, OneOfBoth, OpenAreKnown
<1> QED BY <1>7, <1>11, <1>13 DEF ConnectionsAgree

(* A new connection is open and only in the backlog.                       *)
LEMMA ConnectKeeps ==
  ASSUME TableTypeOK, BothEndsOrNone, NEW c \in Clients, Connect(c),
         UNCHANGED serverVars
  PROVE  /\ ConnectionsAgree => ConnectionsAgree'
         /\ ClosedSlots => ClosedSlots'
<1>1. /\ UNCHANGED conns /\ backlog' = Append(backlog, c)
      /\ backlog \in Seq(Clients)
      /\ srvEnd[c] = "none"
      /\ srvEnd'[c] = "open"
      /\ \A d \in Clients : d # c => srvEnd'[d] = srvEnd[d]
  BY DEF Connect, serverVars, BothEndsOrNone, TableTypeOK
<1>2. /\ Len(backlog') = Len(backlog) + 1 /\ Len(backlog) \in Nat
      /\ \A m \in 1..Len(backlog) : backlog'[m] = backlog[m]
      /\ backlog'[Len(backlog) + 1] = c
  BY <1>1, AppendProperties
<1>3. \A d : (HasSlot(d)' <=> HasSlot(d))
            /\ (IsWaiting(d)' <=> IsWaiting(d) \/ d = c)
  <2>1. \A d : HasSlot(d)' <=> HasSlot(d)
    BY <1>1 DEF HasSlot, Client
  <2>2. \A d : IsWaiting(d)' <=> IsWaiting(d) \/ d = c
    BY <1>2 DEF IsWaiting
  <2> QED BY <2>1, <2>2
<1>4. ASSUME ConnectionsAgree
      PROVE  ConnectionsAgree'
  <2>1. ~HasSlot(c) /\ ~IsWaiting(c)
    BY <1>1, <1>4 DEF ConnectionsAgree, OpenAreKnown
  <2>2. OneSlotEach'
    BY <1>1, <1>4 DEF ConnectionsAgree, OneSlotEach, Client
  <2>3. OnePlaceEach'
    BY <1>2, <1>4, <2>1 DEF ConnectionsAgree, OnePlaceEach, IsWaiting
  <2>4. OneOfBoth' /\ OpenAreKnown'
    BY <1>1, <1>3, <1>4, <2>1 DEF ConnectionsAgree, OneOfBoth, OpenAreKnown
  <2> QED BY <2>2, <2>3, <2>4 DEF ConnectionsAgree
<1>5. ASSUME ClosedSlots
      PROVE  ClosedSlots'
  <2>1. ASSUME NEW k \in 1..Len(conns)
        PROVE  srvEnd'[Client(k)] = "closed"
    <3>1. conns[k] \in Slots
      BY DEF TableTypeOK
    <3>2. Client(k) \in Clients /\ srvEnd[Client(k)] = "closed"
      BY <1>5, <3>1 DEF ClosedSlots, Client, Slots
    <3> QED BY <1>1, <3>2
  <2>2. \A d \in Clients : IsWaiting(d)' => srvEnd'[d] # "none"
    BY <1>1, <1>3, <1>5 DEF ClosedSlots
  <2> QED BY <1>1, <2>1, <2>2 DEF ClosedSlots, Client
<1> QED BY <1>4, <1>5

(* The steps of the server that neither accept nor close.                  *)
QuietStep ==
  \/ SetupSigactions \/ SetupSocket \/ StartUpFails \/ TestFlag
  \/ PollBlocks \/ PollReturns \/ SkipSlot \/ EndScan \/ AcceptFails
  \/ ReadLine \/ ReadPart \/ ReadOverflow \/ SendAnswer

(* A step that neither opens nor closes leaves all connections where they  *)
(* are.                                                                    *)
LEMMA QuietStepKeepsConnections ==
  ASSUME TableTypeOK, QuietStep
  PROVE  /\ UNCHANGED <<backlog, srvEnd, cliEnd>>
         /\ Len(conns') = Len(conns)
         /\ \A k \in 1..Len(conns) : conns'[k].client = conns[k].client
         /\ spc # "unlinking" /\ spc' # "unlinking"
         /\ Serving
<1> USE DEF Serving, ServerRuns
<1>1. CASE ReadLine \/ ReadPart \/ ReadOverflow
  <2>1. InTurn /\ conns \in Seq(Slots) /\ i \in 1..Len(conns)
    BY <1>1, TurnOfSlot DEF ReadLine, ReadPart, ReadOverflow, TableTypeOK
  <2>2. PICK s \in Seq(Bytes) : KeepInBuffer(i, s)
    <3>1. CASE ReadLine
      BY <3>1, <2>1, TurnOfSlot DEF ReadLine
    <3>2. CASE ReadPart
      BY <3>2, <2>1, TurnOfSlot DEF ReadPart
    <3>3. CASE ReadOverflow
      BY <3>3, EmptySeq DEF ReadOverflow
    <3> QED BY <1>1, <3>1, <3>2, <3>3
  <2>3. /\ Len(conns') = Len(conns)
        /\ \A k \in 1..Len(conns) : conns'[k].client = conns[k].client
    BY <2>1, <2>2, FilledSlot
  <2> QED
    BY <1>1, <2>1, <2>3 DEF ReadLine, ReadPart, ReadOverflow, InTurn
<1>2. CASE ~(ReadLine \/ ReadPart \/ ReadOverflow)
  BY <1>2 DEF QuietStep, SetupSigactions, SetupSocket, StartUpFails, TestFlag,
       PollBlocks, PollReturns, SkipSlot, EndScan, AcceptFails, SendAnswer,
       socketVars
<1> QED BY <1>1, <1>2

(* Slots and backlog are the open connections in every step.               *)
LEMMA SlotInvariant == SlotIInv /\ [ServerNext]_netVars => SlotIInv'
<1> SUFFICES ASSUME SlotIInv, [ServerNext]_netVars
             PROVE  SlotIInv'
  OBVIOUS
<1>1. TableTypeOK /\ TableTypeOK' /\ BothEndsOrNone
  BY TableTypeInvariant DEF SlotIInv
<1> USE DEF Serving, ServerRuns
<1>2. ASSUME UNCHANGED <<backlog, srvEnd>>, Len(conns') = Len(conns),
             \A k \in 1..Len(conns) : conns'[k].client = conns[k].client,
             Serving' => Serving, spc' = "unlinking" => spc = "unlinking",
             \A c \in Clients : cliEnd'[c] = "none" <=> cliEnd[c] = "none"
      PROVE  SlotIInv'
  <2>1. /\ ConnectionsAgree => ConnectionsAgree'
        /\ ClosedSlots => ClosedSlots'
    BY <1>1, <1>2, ConnectionsUntouched
  <2>2. BothEndsOrNone'
    BY <1>1, <1>2 DEF BothEndsOrNone
  <2> QED BY <1>1, <1>2, <2>1, <2>2 DEF SlotIInv
<1>3. CASE ServerStep
  <2>1. CASE QuietStep
    BY <1>1, <1>2, <2>1, QuietStepKeepsConnections
  <2>3. Serving => \A c \in Clients :
          HasSlot(c) \/ IsWaiting(c) => srvEnd[c] = "open"
    BY DEF SlotIInv, ConnectionsAgree, OpenAreKnown
  <2>4. CASE AcceptConnection
    <3>1. Serving /\ spc' = "scan" /\ UNCHANGED <<cliEnd, srvEnd>>
      BY <2>4 DEF AcceptConnection
    <3>2. ConnectionsAgree'
      BY <1>1, <2>4, <3>1, AcceptKeeps DEF SlotIInv
    <3> QED BY <1>1, <3>1, <3>2 DEF SlotIInv, BothEndsOrNone
  <2>5. CASE RejectConnection
    <3>1. Serving /\ spc' = "scan" /\ UNCHANGED cliEnd
          /\ CloseServerEnds({Head(backlog)})
      BY <2>5 DEF RejectConnection
    <3>2. ConnectionsAgree'
      BY <1>1, <2>5, <3>1, RejectKeeps DEF SlotIInv
    <3>3. Head(backlog) \in Clients /\ IsWaiting(Head(backlog))
      BY <1>1, <2>5, <3>1, FirstLeaves
         DEF RejectConnection, TableTypeOK, SomebodyWaits, SlotIInv,
             ConnectionsAgree
    <3>4. BothEndsOrNone'
      BY <1>1, <2>3, <3>1, <3>3, ClosedEnds, SMTT(30) DEF BothEndsOrNone
    <3> QED BY <1>1, <3>1, <3>2, <3>4 DEF SlotIInv
  <2>6. CASE ReadEnd
    <3>1. Serving /\ spc' = "scan" /\ UNCHANGED cliEnd
          /\ CloseServerEnds({Client(i)})
      BY <2>6 DEF ReadEnd, InTurn
    <3>2. ConnectionsAgree'
      BY <1>1, <2>6, <3>1, RemovalKeeps DEF SlotIInv
    <3>3. Client(i) \in Clients /\ HasSlot(Client(i))
      BY <1>1, <2>6, TurnOfSlot DEF ReadEnd, HasSlot
    <3>4. BothEndsOrNone'
      BY <1>1, <2>3, <3>1, <3>3, ClosedEnds, SMTT(30) DEF BothEndsOrNone
    <3> QED BY <1>1, <3>1, <3>2, <3>4 DEF SlotIInv
  <2>7. CASE SendRaisesSigpipe
    <3>1. spc' = "killed" /\ UNCHANGED cliEnd
          /\ CloseServerEnds({c \in Clients : srvEnd[c] = "open"})
      BY <2>7 DEF SendRaisesSigpipe
    <3>2. BothEndsOrNone'
      BY <1>1, <3>1, ClosedEnds DEF BothEndsOrNone
    <3> QED BY <1>1, <3>1, <3>2 DEF SlotIInv
  <2>8. CASE CloseConnections
    <3>1. Serving /\ spc' = "unlinking" /\ UNCHANGED <<cliEnd, conns>>
          /\ CloseServerEnds({Client(k) : k \in 1..(nfds - 1)})
      BY <2>8 DEF CloseConnections
    <3>2. nfds - 1 = Len(conns)
      BY <1>1 DEF nfds, TableTypeOK
    <3>3. \A k \in 1..Len(conns) : Client(k) \in Clients /\ HasSlot(Client(k))
      <4> SUFFICES ASSUME NEW k \in 1..Len(conns)
                   PROVE  Client(k) \in Clients /\ HasSlot(Client(k))
        OBVIOUS
      <4>1. conns[k] \in Slots
        BY <1>1 DEF TableTypeOK
      <4> QED BY <4>1 DEF Client, HasSlot, Slots
    <3>4. \A c \in Clients :
            srvEnd'[c] = IF HasSlot(c) THEN "closed" ELSE srvEnd[c]
      BY <1>1, <3>1, <3>2, ClosedEnds DEF HasSlot
    <3>5. BothEndsOrNone'
      BY <1>1, <2>3, <3>1, <3>4 DEF BothEndsOrNone
    <3>6. \A c \in Clients : IsWaiting(c)' => srvEnd'[c] # "none"
      BY <2>3, <2>8, <3>1, <3>4 DEF CloseConnections, IsWaiting
    <3>7. ClosedSlots'
      BY <3>1, <3>3, <3>4, <3>6 DEF ClosedSlots, Client
    <3> QED BY <1>1, <3>1, <3>5, <3>7 DEF SlotIInv
  <2>9. CASE CloseListener
    <3>1. spc = "unlinking" /\ spc' = "stopped" /\ UNCHANGED cliEnd
          /\ CloseServerEnds(ToSet(backlog))
      BY <2>9 DEF CloseListener
    <3>2. \A c \in Clients :
            srvEnd'[c] = IF IsWaiting(c) THEN "closed" ELSE srvEnd[c]
      <4>1. \A c : c \in ToSet(backlog) <=> IsWaiting(c)
        <5>1. DOMAIN backlog = 1..Len(backlog)
          BY <1>1 DEF TableTypeOK
        <5> QED BY <5>1 DEF ToSet, IsWaiting
      <4> QED BY <1>1, <3>1, <4>1, ClosedEnds
    <3>3. BothEndsOrNone'
      BY <1>1, <3>1, <3>2 DEF BothEndsOrNone, SlotIInv, ClosedSlots
    <3> QED BY <1>1, <3>1, <3>3 DEF SlotIInv
  <2> QED
    BY <1>3, <2>1, <2>4, <2>5, <2>6, <2>7, <2>8, <2>9
       DEF ServerStep, HandleClient, QuietStep
<1>4. CASE Terminate
  BY <1>2, <1>4, SignalMoves DEF socketVars
<1>5. ASSUME NEW c \in Clients, Connect(c), UNCHANGED serverVars
      PROVE  SlotIInv'
  <2>1. /\ ConnectionsAgree => ConnectionsAgree'
        /\ ClosedSlots => ClosedSlots'
    BY <1>1, <1>5, ConnectKeeps
  <2>2. BothEndsOrNone'
    BY <1>1, <1>5 DEF Connect, BothEndsOrNone, TableTypeOK
  <2>3. UNCHANGED spc
    BY <1>5 DEF serverVars
  <2> QED BY <1>1, <2>1, <2>2, <2>3 DEF SlotIInv
<1>6. ASSUME NEW c \in Clients,
             ClientMoves(c), ~Connect(c), UNCHANGED serverVars
      PROVE  SlotIInv'
  BY <1>1, <1>2, <1>6
     DEF ClientMoves, ClientSend, ClientReceive,
         ClientClose, serverVars, TableTypeOK
<1>7. CASE UNCHANGED netVars
  BY <1>2, <1>7 DEF netVars, serverVars, socketVars
<1> QED BY <1>3, <1>4, <1>5, <1>6, <1>7 DEF ServerNext, ClientMoves

(* The table of connections is empty at the beginning.                     *)
LEMMA SlotIInvInitially ==
  ASSUME InitServer, InitSockets
  PROVE  SlotIInv
<1>1. <<>> \in Seq(Slots) /\ <<>> \in Seq(Clients) /\ <<>> \in Seq(Bytes)
      /\ Len(<<>>) = 0
  BY EmptySeq
<1>2. conns = <<>> /\ backlog = <<>> /\ spc = "main" /\ i = 0
  BY DEF InitServer, InitSockets
<1>3. TableTypeOK
  BY <1>1, MaxClientsAssumption
     DEF InitServer, InitSockets, EndStates, TableTypeOK,
         BuffersHaveRoom, SomebodyWaits
<1>4. BothEndsOrNone /\ ConnectionsAgree
  BY <1>1, <1>2
     DEF InitSockets, BothEndsOrNone, ConnectionsAgree, OneSlotEach,
         OnePlaceEach, OneOfBoth, OpenAreKnown, HasSlot, IsWaiting
<1> QED BY <1>2, <1>3, <1>4 DEF SlotIInv

(* The inductive invariant of the connection table, in every reachable     *)
(* state (server.c lines 101 to 163).                                      *)
THEOREM SlotIInvHolds == ServerSpec => []SlotIInv
<1>1. InitServer /\ InitSockets => SlotIInv
  BY SlotIInvInitially
<1> QED BY <1>1, SlotInvariant, PTL DEF ServerSpec

(* A sequence without repetitions has as many members as places.           *)
LEMMA CountDistinct ==
  ASSUME NEW n \in Nat, NEW f, f \in [1..n -> {f[k] : k \in 1..n}],
         \A k, m \in 1..n : f[k] = f[m] => k = m
  PROVE  Cardinality({f[k] : k \in 1..n}) = n
<1> DEFINE S == {f[k] : k \in 1..n}
<1>1. f \in Bijection(1..n, S)
  BY DEF Bijection, Injection, Surjection, IsInjective
<1>2. IsFiniteSet(1..n) /\ Cardinality(1..n) = n
  <2>1. 1 \in Int /\ n \in Int
    OBVIOUS
  <2>2. IsFiniteSet(1..n)
        /\ Cardinality(1..n) = IF 1 > n THEN 0 ELSE n - 1 + 1
    BY <2>1, FS_Interval, Zenon
  <2> QED BY <2>2
<1> QED BY <1>1, <1>2, FS_Bijection DEF ExistsBijection

(* No descriptor is leaked or closed twice: while the server serves, the   *)
(* slots and the backlog are the open connections, each once.              *)
THEOREM SlotsAreOpenConnectionsHolds == ServerSpec => []SlotsAreOpenConnections
<1>1. SlotIInv => SlotsAreOpenConnections
  <2> SUFFICES ASSUME SlotIInv, Serving
               PROVE  LET accepted == {Client(k) : k \in DOMAIN conns}
                          waiting == ToSet(backlog)
                      IN  /\ Cardinality(accepted) = Len(conns)
                          /\ Cardinality(waiting) = Len(backlog)
                          /\ accepted \cap waiting = {}
                          /\ accepted \cup waiting
                               = {c \in Clients : srvEnd[c] = "open"}
    BY DEF SlotsAreOpenConnections, Serving
  <2> DEFINE accepted == {Client(k) : k \in DOMAIN conns}
             waiting == ToSet(backlog)
  <2>1. ConnectionsAgree /\ conns \in Seq(Slots) /\ backlog \in Seq(Clients)
    BY DEF SlotIInv, TableTypeOK
  <2>2. /\ DOMAIN conns = 1..Len(conns) /\ Len(conns) \in Nat
        /\ DOMAIN backlog = 1..Len(backlog) /\ Len(backlog) \in Nat
    BY <2>1
  <2>3. Cardinality(accepted) = Len(conns)
    <3> DEFINE f == [k \in 1..Len(conns) |-> Client(k)]
    <3>1. accepted = {f[k] : k \in 1..Len(conns)}
      BY <2>2
    <3>2. \A k, m \in 1..Len(conns) : f[k] = f[m] => k = m
      BY <2>1 DEF ConnectionsAgree, OneSlotEach
    <3>3. f \in [1..Len(conns) -> {f[k] : k \in 1..Len(conns)}]
      OBVIOUS
    <3> HIDE DEF f, accepted
    <3> QED BY <2>2, <3>1, <3>2, <3>3, CountDistinct
  <2>4. Cardinality(waiting) = Len(backlog)
    <3>1. waiting = {backlog[m] : m \in 1..Len(backlog)}
      BY <2>2 DEF ToSet
    <3>2. backlog \in [1..Len(backlog) -> {backlog[m] : m \in 1..Len(backlog)}]
      BY <2>1, LenProperties
    <3> HIDE DEF waiting
    <3> QED
      BY <2>1, <2>2, <3>1, <3>2, CountDistinct
         DEF ConnectionsAgree, OnePlaceEach
  <2>5. /\ \A c : c \in accepted <=> HasSlot(c)
        /\ \A c : c \in waiting <=> IsWaiting(c)
    BY <2>2 DEF HasSlot, IsWaiting, ToSet
  <2>6. accepted \subseteq Clients /\ waiting \subseteq Clients
    <3>1. \A k \in 1..Len(conns) : Client(k) \in Clients
      <4> SUFFICES ASSUME NEW k \in 1..Len(conns)
                   PROVE  Client(k) \in Clients
        OBVIOUS
      <4>1. conns[k] \in Slots
        BY <2>1
      <4> QED BY <4>1 DEF Client, Slots
    <3>2. \A m \in 1..Len(backlog) : backlog[m] \in Clients
      BY <2>1
    <3> QED BY <2>2, <3>1, <3>2 DEF ToSet
  <2> HIDE DEF accepted, waiting
  <2>7. accepted \cap waiting = {}
        /\ accepted \cup waiting = {c \in Clients : srvEnd[c] = "open"}
    BY <2>1, <2>5, <2>6 DEF ConnectionsAgree, OneOfBoth, OpenAreKnown
  <2> QED BY <2>3, <2>4, <2>7 DEF accepted, waiting
<1> QED BY <1>1, SlotIInvHolds, PTL

-----------------------------------------------------------------------------
(* A step that closes the connection of a slot: the client has hung up and *)
(* all it sent was read, or the server ends.                               *)
LEMMA HangUpStep ==
  ASSUME SlotIInv, [ServerNext]_netVars, NEW k \in 1..Len(conns),
         srvEnd[Client(k)] = "open", srvEnd'[Client(k)] = "closed"
  PROVE  \/ cliEnd[Client(k)] = "closed" /\ up[Client(k)] = <<>>
         \/ spc' \in {"unlinking", "killed"}
<1> DEFINE Justified ==
      \/ cliEnd[Client(k)] = "closed" /\ up[Client(k)] = <<>>
      \/ spc' \in {"unlinking", "killed"}
<1>1. TableTypeOK /\ Client(k) \in Clients
  <2>1. TableTypeOK /\ conns[k] \in Slots
    BY DEF SlotIInv, TableTypeOK
  <2> QED BY <2>1 DEF Client, Slots
<1>2. CASE UNCHANGED srvEnd
  BY <1>2
<1>3. CASE ServerStep
  <2>1. CASE QuietStep \/ AcceptConnection
    <3>1. UNCHANGED srvEnd
      BY <1>1, <2>1, QuietStepKeepsConnections DEF AcceptConnection
    <3> QED BY <3>1
  <2>2. CASE RejectConnection
    <3>1. ConnectionsAgree /\ CloseServerEnds({Head(backlog)})
          /\ backlog # <<>> /\ backlog' = Tail(backlog)
      BY <2>2 DEF RejectConnection, SlotIInv, Serving, ServerRuns,
                  TableTypeOK, SomebodyWaits
    <3>2. IsWaiting(Head(backlog)) /\ HasSlot(Client(k))
      BY <1>1, <3>1, FirstLeaves DEF ConnectionsAgree, HasSlot
    <3>3. Client(k) # Head(backlog)
      BY <1>1, <3>1, <3>2 DEF ConnectionsAgree, OneOfBoth
    <3> QED BY <1>1, <3>1, <3>3, ClosedEnds
  <2>3. CASE ReadEnd
    <3>1. CloseServerEnds({Client(i)}) /\ InTurn /\ Incoming(i) = <<>>
          /\ Readable(Client(i))
      BY <2>3 DEF ReadEnd
    <3>2. Client(k) = Client(i)
      BY <1>1, <3>1, ClosedEnds
    <3>3. up[Client(i)] = <<>>
      BY <1>1, <3>1, TurnOfSlot
    <3> QED BY <3>1, <3>2, <3>3 DEF Readable
  <2>4. CASE SendRaisesSigpipe \/ CloseConnections
    BY <2>4 DEF SendRaisesSigpipe, CloseConnections
  <2>5. CASE CloseListener
    <3>1. ClosedSlots
      BY <2>5 DEF CloseListener, SlotIInv
    <3> QED BY <3>1 DEF ClosedSlots
  <2> QED
    BY <1>3, <2>1, <2>2, <2>3, <2>4, <2>5
       DEF ServerStep, HandleClient, QuietStep
<1>4. CASE Terminate
  <2>1. UNCHANGED srvEnd
    BY <1>4, SignalMoves DEF socketVars
  <2> QED BY <2>1
<1>5. ASSUME NEW c \in Clients, Connect(c), UNCHANGED serverVars
      PROVE  Justified
  BY <1>1, <1>5 DEF Connect, TableTypeOK
<1>6. ASSUME NEW c \in Clients,
             ClientMoves(c), ~Connect(c), UNCHANGED serverVars
      PROVE  Justified
  BY <1>2, <1>6 DEF ClientMoves, ClientSend,
       ClientReceive, ClientClose
<1>7. CASE UNCHANGED netVars
  BY <1>2, <1>7 DEF netVars, socketVars
<1> QED BY <1>3, <1>4, <1>5, <1>6, <1>7 DEF ServerNext, ClientMoves

(* The server never hangs up on a client for want of room in its buffer:   *)
(* it waits until the client does, unless it stops itself.                 *)
THEOREM HangsUpOnlyAtEndHolds == ServerSpec => HangsUpOnlyAtEnd
<1>1. SlotIInv /\ [ServerNext]_netVars
        => [\A k \in DOMAIN conns :
              srvEnd[Client(k)] = "open" /\ srvEnd'[Client(k)] = "closed" =>
                \/ cliEnd[Client(k)] = "closed" /\ up[Client(k)] = <<>>
                \/ spc' \in {"unlinking", "killed"}]_netVars
  <2>1. SlotIInv => DOMAIN conns = 1..Len(conns)
    BY DEF SlotIInv, TableTypeOK
  <2> QED BY <2>1, HangUpStep
<1> QED BY <1>1, SlotIInvHolds, PTL DEF ServerSpec, HangsUpOnlyAtEnd

-----------------------------------------------------------------------------
(* What the server computes stays an int, its answers and its log too, and *)
(* the scan stays within the slots.                                        *)
ScanInRange ==
  i \in 0..(Len(conns) + 1) /\ (spc = "send" => i \in 1..Len(conns))
ValueTypeOK ==
  /\ spc \in ServerLabels /\ shutdown \in BOOLEAN /\ listening \in BOOLEAN
  /\ ScanInRange
  /\ state \in Ints
  /\ down \in [Clients -> Seq(Ints)]
  /\ log \in [Clients -> Seq(Seq(Bytes))]

(* A cast to int is an int, and so is what a line adds to the total.       *)
LEMMA IntResults ==
  /\ \A n \in Int : ToInt(n) \in Ints
  /\ \A line : AddedFor(line) \in Ints
  /\ \A n \in Ints : \A line : Added(n, line) \in Ints
<1> USE IntMaxAssumption
<1>1. ASSUME NEW n \in Int
      PROVE  ToInt(n) \in Ints
  <2> DEFINE size == 2 * (IntMax + 1)
  <2>1. size \in Nat /\ size > 0 /\ n + IntMax + 1 \in Int
    OBVIOUS
  <2> HIDE DEF size
  <2>2. (n + IntMax + 1) % size \in 0..size - 1
    BY <2>1
  <2>3. ((n + IntMax + 1) % size) - (IntMax + 1) \in (-IntMax - 1)..IntMax
    BY <2>2 DEF size
  <2> QED BY <2>3 DEF ToInt, Ints, size
<1>2. ASSUME NEW line
      PROVE  AddedFor(line) \in Ints
  <2>1. ASSUME InLong(NumberOf(line))
        PROVE  ToInt(NumberOf(line)) \in Ints
    <3>1. NumberOf(line) \in Int
      BY <2>1, LongMaxAssumption DEF InLong
    <3> QED BY <1>1, <3>1
  <2>2. 0 \in Ints
    BY DEF Ints
  <2> QED BY <2>1, <2>2 DEF AddedFor
<1>3. ASSUME NEW n \in Ints, NEW line
      PROVE  Added(n, line) \in Ints
  <2>1. n + AddedFor(line) \in Int
    BY <1>2 DEF Ints
  <2> QED BY <1>1, <2>1 DEF Added
<1> QED BY <1>1, <1>2, <1>3

(* Every step keeps these types.                                           *)
LEMMA ValueTypeInvariant ==
  ASSUME TableTypeOK, ValueTypeOK, [ServerNext]_netVars
  PROVE  ValueTypeOK'
<1>0. Len(conns) \in Nat
  BY DEF TableTypeOK
<1>1. CASE ServerStep
  <2>1. CASE \/ SetupSigactions \/ SetupSocket \/ StartUpFails \/ TestFlag
             \/ PollBlocks
    BY <2>1 DEF SetupSigactions, SetupSocket, StartUpFails, TestFlag,
         PollBlocks, socketVars, ServerLabels, ValueTypeOK, ScanInRange
  <2>2. CASE \/ PollReturns \/ EndScan \/ SkipSlot \/ AcceptFails
             \/ RejectConnection
    BY <1>0, <2>2 DEF PollReturns, EndScan, SkipSlot, AcceptFails,
         RejectConnection, socketVars, nfds, ServerLabels, ValueTypeOK,
         ScanInRange
  <2>7. CASE SendRaisesSigpipe \/ CloseConnections \/ CloseListener
    BY <2>7 DEF SendRaisesSigpipe, CloseConnections, CloseListener,
         ServerLabels, ValueTypeOK, ScanInRange
  <2>3. CASE AcceptConnection
    <3>1. Len(conns') = Len(conns) + 1 /\ Len(conns) \in Nat
      BY <2>3, AppendProperties DEF AcceptConnection, TableTypeOK
    <3> QED BY <2>3, <3>1 DEF AcceptConnection, ValueTypeOK, ScanInRange
  <2>4. CASE ReadEnd
    <3>1. i \in 1..Len(conns) /\ RemoveSlot(i) /\ conns \in Seq(Slots)
      BY <2>4, TurnOfSlot DEF ReadEnd, TableTypeOK
    <3>2. Len(conns') = Len(conns) - 1 /\ Len(conns) \in Nat
      BY <3>1, RemovedSlot
    <3> QED
      BY <2>4, <3>1, <3>2 DEF ReadEnd, InTurn, ValueTypeOK, ScanInRange
  <2>5. CASE ReadLine \/ ReadPart \/ ReadOverflow
    <3>1. InTurn /\ i \in 1..Len(conns) /\ Received(i) \in Seq(Bytes)
          /\ Client(i) \in Clients /\ conns \in Seq(Slots)
      BY <2>5, TurnOfSlot DEF ReadLine, ReadPart, ReadOverflow, TableTypeOK
    <3>2. Len(conns') = Len(conns) /\ Len(conns) \in Nat
      BY <2>5, <3>1, QuietStepKeepsConnections DEF QuietStep
    <3>3. CASE ReadLine
      <4>1. state' \in Ints
        BY <3>3, IntResults DEF ReadLine, NewTotal, ValueTypeOK
      <4>2. FirstLine \in Seq(Bytes)
        <5>1. FirstNewline(Received(i)) - 1 \in Nat
          BY <3>1, <3>3, FirstNewlineExists DEF ReadLine
        <5> QED BY <3>1, <5>1, TakeAndDrop DEF FirstLine
      <4>3. Append(log[Client(i)], FirstLine) \in Seq(Seq(Bytes))
        BY <3>1, <4>2, AppendProperties DEF ValueTypeOK
      <4>4. log' \in [Clients -> Seq(Seq(Bytes))]
        BY <3>3, <4>3 DEF ReadLine, ValueTypeOK
      <4> QED
        BY <3>1, <3>2, <3>3, <4>1, <4>4
           DEF ReadLine, ServerLabels, ValueTypeOK, ScanInRange
    <3>4. CASE ReadPart \/ ReadOverflow
      BY <3>1, <3>2, <3>4
         DEF ReadPart, ReadOverflow, InTurn, ValueTypeOK, ScanInRange
    <3> QED BY <2>5, <3>3, <3>4
  <2>6. CASE SendAnswer
    <3>1. i \in 1..Len(conns) /\ Len(conns) \in Nat
      BY <2>6 DEF SendAnswer, ValueTypeOK, ScanInRange, TableTypeOK
    <3>2. Append(down[Client(i)], state) \in Seq(Ints)
      <4>1. conns[i] \in Slots
        BY <3>1 DEF TableTypeOK
      <4>2. down[Client(i)] \in Seq(Ints) /\ state \in Ints
        BY <4>1 DEF ValueTypeOK, Slots, Client
      <4> QED BY <4>2, AppendProperties
    <3>3. down' \in [Clients -> Seq(Ints)]
      BY <2>6, <3>2 DEF SendAnswer, ValueTypeOK
    <3> QED
      BY <2>6, <3>1, <3>3 DEF SendAnswer, ServerLabels, ValueTypeOK, ScanInRange
  <2> QED
    BY <1>1, <2>1, <2>2, <2>3, <2>4, <2>5, <2>6, <2>7
       DEF ServerStep, HandleClient
<1>2. CASE Terminate
  BY <1>2 DEF Terminate, socketVars, ServerLabels, ValueTypeOK, ScanInRange
<1>3. ASSUME NEW c \in Clients, ClientMoves(c), UNCHANGED serverVars
      PROVE  ValueTypeOK'
  <2>1. listening' = listening
    BY <1>3 DEF ClientMoves, Connect, ClientReceive, ClientClose, ClientSend
  <2>2. down' \in [Clients -> Seq(Ints)]
    <3>1. CASE ClientReceive(c)
      <4>1. Tail(down[c]) \in Seq(Ints)
        BY <3>1, HeadTailProperties DEF ClientReceive, ValueTypeOK
      <4> QED BY <3>1, <4>1 DEF ClientReceive, ValueTypeOK
    <3>2. CASE ClientClose(c)
      <4>1. <<>> \in Seq(Ints)
        BY EmptySeq
      <4> QED BY <3>2, <4>1 DEF ClientClose, ValueTypeOK
    <3>3. CASE UNCHANGED down
      BY <3>3 DEF ValueTypeOK
    <3> QED BY <1>3, <3>1, <3>2, <3>3 DEF ClientMoves, Connect, ClientSend
  <2> QED BY <1>3, <2>1, <2>2 DEF serverVars, ValueTypeOK, ScanInRange
<1>4. CASE UNCHANGED netVars
  BY <1>4 DEF netVars, serverVars, socketVars, ValueTypeOK, ScanInRange
<1> QED BY <1>1, <1>2, <1>3, <1>4 DEF ServerNext

-----------------------------------------------------------------------------
(* What is logged for a client are lines that it sent; the buffer of each  *)
(* slot goes on where the last of them ended; nothing was read of a client *)
(* that has no slot yet.                                                   *)
LogAgrees(c) ==
  /\ Len(log[c]) <= LineCount(wrote[c])
  /\ \A n \in 1..Len(log[c]) : log[c][n] = LinesSeen(wrote[c])[n]
LastLine(c) == LineEnd(wrote[c], Len(log[c]))
InStep(c, bytes) == Behind(wrote[c], LastLine(c), bytes, up[c])
Unread(c) == log[c] = <<>> /\ up[c] = wrote[c]

LinesIInv ==
  /\ \A c \in Clients : LogAgrees(c)
  /\ Serving =>
       /\ \A k \in 1..Len(conns) : InStep(Client(k), Buffered(k))
       /\ \A c \in Clients :
            ~HasSlot(c) /\ srvEnd[c] # "closed" => Unread(c)

(* A client that the step does not concern stays as it was.                *)
LEMMA ClientUntouched ==
  ASSUME NEW c \in Clients,
         wrote'[c] = wrote[c], log'[c] = log[c], up'[c] = up[c]
  PROVE  /\ LogAgrees(c)' <=> LogAgrees(c)
         /\ \A bytes : InStep(c, bytes)' <=> InStep(c, bytes)
         /\ Unread(c)' <=> Unread(c)
BY DEF LogAgrees, InStep, LastLine, Unread

(* The slots of the clients, and that their values have the types the      *)
(* lemmas about streams ask for.                                           *)
LEMMA SlotTypes ==
  ASSUME TableTypeOK, ValueTypeOK, NEW k \in 1..Len(conns)
  PROVE  /\ Client(k) \in Clients /\ HasSlot(Client(k))
         /\ Buffered(k) \in Seq(Bytes)
         /\ wrote[Client(k)] \in Seq(Bytes) /\ up[Client(k)] \in Seq(Bytes)
         /\ log[Client(k)] \in Seq(Seq(Bytes))
<1>1. conns[k] \in Slots
  BY DEF TableTypeOK
<1>2. Client(k) \in Clients /\ Buffered(k) \in Seq(Bytes)
  BY <1>1 DEF Client, Buffered, Slots
<1>3. HasSlot(Client(k))
  BY DEF HasSlot
<1> QED BY <1>2, <1>3 DEF TableTypeOK, ValueTypeOK

(* The read()s: the buffer of the slot goes on where the last line ended,  *)
(* and what is logged is the next line of the stream.                      *)
LEMMA ReadKeepsStep ==
  ASSUME TableTypeOK, ValueTypeOK, LinesIInv, Serving,
         ReadLine \/ ReadPart \/ ReadOverflow,
         NEW c, c = Client(i), NEW s, s = conns'[i].buf
  PROVE  LogAgrees(c)' /\ InStep(c, s)'
<1> USE BufferSizeAssumption
<1> DEFINE w == wrote[c]
           n == Len(log[c])
           u == Drop(up[c], Len(Incoming(i)))
<1>1. /\ InTurn /\ i \in 1..Len(conns) /\ conns \in Seq(Slots)
      /\ Received(i) \in Seq(Bytes) /\ Len(Received(i)) <= BufferSize - 1
      /\ u \in Seq(Bytes)
      /\ HasNewline(Received(i)) => Leftover \in Seq(Bytes)
  BY TurnOfSlot DEF ReadLine, ReadPart, ReadOverflow, TableTypeOK
<1>2. /\ c \in Clients /\ Buffered(i) \in Seq(Bytes)
      /\ w \in Seq(Bytes) /\ up[c] \in Seq(Bytes) /\ log[c] \in Seq(Seq(Bytes))
  BY <1>1, SlotTypes
<1>3. LogAgrees(c) /\ InStep(c, Buffered(i))
  BY <1>1, <1>2 DEF LinesIInv
<1>4. n \in Nat /\ n \in 0..LineCount(w) /\ LineCount(w) \in Nat
  <2>1. LineCount(w) \in Nat
    BY <1>2, CountStep DEF LineCount
  <2> QED BY <1>2, <1>3, <2>1 DEF LogAgrees
<1>5. LineEnd(w, n) \in Nat
  <2>1. LineEnd(w, n) \in 0..Len(w)
    BY <1>2, <1>4, LineEndFrom
  <2> QED BY <2>1
<1>6. Behind(w, LineEnd(w, n), Received(i), u)
  <2>1. Behind(w, LineEnd(w, n), Buffered(i), up[c])
    BY <1>3 DEF InStep, LastLine
  <2>2. Space(i) \in Nat
    <3>1. Len(Buffered(i)) <= BufferSize - 2 /\ Len(Buffered(i)) \in Nat
      BY <1>1, <1>2 DEF TableTypeOK, BuffersHaveRoom, Buffered
    <3> QED BY <3>1 DEF Space
  <2>3. Received(i) = Buffered(i) \o Take(up[c], Space(i))
        /\ u = Drop(up[c], Len(Take(up[c], Space(i))))
    BY DEF Received, Incoming
  <2> HIDE DEF w, n, u
  <2> QED BY <1>2, <1>5, <2>1, <2>2, <2>3, BehindRead
<1>7. UNCHANGED wrote /\ up'[c] = u
  BY <1>2 DEF ReadLine, ReadPart, ReadOverflow, Consume, TableTypeOK
<1> HIDE DEF w, n, u
<1>8. CASE ReadLine
  <2>1. HasNewline(Received(i)) /\ s = Leftover
    BY <1>1, <1>8, FilledSlot DEF ReadLine
  <2>2. log' = [log EXCEPT ![c] = Append(log[c], FirstLine)]
    BY <1>8 DEF ReadLine
  <2>3. log'[c] = Append(log[c], FirstLine)
    BY <1>2, <2>2 DEF ValueTypeOK
  <2>4. /\ n + 1 \in 1..LineCount(w)
        /\ FirstLine = LinesSeen(w)[n + 1]
        /\ Behind(w, LineEnd(w, n + 1), Leftover, u)
    BY <1>1, <1>2, <1>4, <1>6, <2>1, BehindLine DEF FirstLine, Leftover
  <2>5. /\ Len(log'[c]) = n + 1
        /\ \A m \in 1..n : log'[c][m] = log[c][m]
        /\ log'[c][n + 1] = FirstLine
    BY <1>2, <2>3, AppendProperties DEF n
  <2>6. LogAgrees(c)'
    <3>1. ASSUME NEW m \in 1..n + 1
          PROVE  log'[c][m] = LinesSeen(w)[m]
      <4>1. CASE m = n + 1
        BY <2>4, <2>5, <4>1
      <4>2. CASE m # n + 1
        <5>1. m \in 1..n
          BY <1>4, <4>2
        <5> QED BY <1>3, <2>5, <5>1 DEF LogAgrees, w, n
      <4> QED BY <4>1, <4>2
    <3>2. wrote'[c] = w
      BY <1>7 DEF w
    <3>3. Len(log'[c]) <= LineCount(w)
      BY <2>4, <2>5
    <3> QED BY <2>5, <3>1, <3>2, <3>3 DEF LogAgrees
  <2>7. InStep(c, s)'
    BY <1>7, <2>1, <2>4, <2>5 DEF InStep, LastLine, w
  <2> QED BY <2>6, <2>7
<1>9. CASE ReadPart
  <2>1. UNCHANGED log /\ s = Received(i)
    BY <1>1, <1>9, FilledSlot DEF ReadPart
  <2> QED
    BY <1>3, <1>6, <1>7, <2>1 DEF LogAgrees, InStep, LastLine, w, n
<1>10. CASE ReadOverflow
  <2>1. UNCHANGED log /\ s = <<>>
    BY <1>1, <1>10, FilledSlot, EmptySeq DEF ReadOverflow
  <2>2. Len(Received(i)) = BufferSize - 1 /\ ~HasNewline(Received(i))
    BY <1>1, <1>10 DEF ReadOverflow
  <2>3. Behind(w, LineEnd(w, n), <<>>, u)
    BY <1>1, <1>2, <1>5, <1>6, <2>2, BehindOverflow
  <2> QED
    BY <1>3, <1>7, <2>1, <2>3 DEF LogAgrees, InStep, LastLine, w, n
<1> QED BY <1>8, <1>9, <1>10

(* What a client sends only adds lines behind those that were handled.     *)
LEMMA SendKeepsStep ==
  ASSUME TableTypeOK, ValueTypeOK, NEW c \in Clients, UNCHANGED serverVars,
         NEW bytes \in Seq(Bytes), ClientSend(c, bytes), LogAgrees(c)
  PROVE  /\ LogAgrees(c)'
         /\ \A b \in Seq(Bytes) : InStep(c, b) => InStep(c, b)'
         /\ Unread(c) => Unread(c)'
<1> DEFINE w == wrote[c]
           v == wrote[c] \o bytes
           n == Len(log[c])
<1>1. /\ w \in Seq(Bytes) /\ up[c] \in Seq(Bytes) /\ log[c] \in Seq(Seq(Bytes))
      /\ wrote'[c] = v /\ up'[c] = up[c] \o bytes /\ log'[c] = log[c]
  BY DEF TableTypeOK, ValueTypeOK, ClientSend, serverVars
<1>2. n \in Nat /\ n \in 0..LineCount(w) /\ LineCount(w) \in Nat
  <2>1. LineCount(w) \in Nat
    BY <1>1, CountStep DEF LineCount
  <2> QED BY <1>1, <2>1 DEF LogAgrees
<1>3. /\ LineCount(w) <= LineCount(v)
      /\ LineEnd(v, n) = LineEnd(w, n)
      /\ \A m \in 1..LineCount(w) : LinesSeen(v)[m] = LinesSeen(w)[m]
  BY <1>1, <1>2, LinesStay
<1>4. LineCount(v) \in Nat
  BY <1>1, CountStep, ConcatProperties DEF LineCount
<1>5. LogAgrees(c)'
  BY <1>1, <1>2, <1>3, <1>4 DEF LogAgrees
<1>6. ASSUME NEW b \in Seq(Bytes), InStep(c, b)
      PROVE  InStep(c, b)'
  <2>1. LineEnd(w, n) \in Nat
    <3>1. LineEnd(w, n) \in 0..Len(w)
      BY <1>1, <1>2, LineEndFrom
    <3> QED BY <3>1
  <2>2. Behind(w, LineEnd(w, n), b, up[c])
    BY <1>6 DEF InStep, LastLine
  <2>3. Behind(v, LineEnd(w, n), b, up[c] \o bytes)
    BY <1>1, <2>1, <2>2, BehindWrite
  <2> QED BY <1>1, <1>3, <2>3 DEF InStep, LastLine
<1>7. Unread(c) => Unread(c)'
  BY <1>1 DEF Unread
<1> QED BY <1>5, <1>6, <1>7

(* The same holds behind every step.                                       *)
LEMMA LinesInvariant ==
  ASSUME SlotIInv, ValueTypeOK, LinesIInv, [ServerNext]_netVars
  PROVE  LinesIInv'
<1>0. /\ TableTypeOK
      /\ Serving => ConnectionsAgree
      /\ conns \in Seq(Slots) /\ Len(conns) \in Nat
  BY DEF SlotIInv, TableTypeOK
<1>1. ASSUME UNCHANGED <<wrote, log>>, ~Serving'
      PROVE  LinesIInv'
  BY <1>1 DEF LinesIInv, LogAgrees
<1>2. ASSUME UNCHANGED <<conns, wrote, log, up, srvEnd>>, Serving' => Serving
      PROVE  LinesIInv'
  BY <1>2 DEF LinesIInv, LogAgrees, InStep, LastLine, Unread, HasSlot,
       Client, Buffered
(* Each slot is in step and each client without one is unread: that is all *)
(* the other steps have to show.                                           *)
<1>3. ASSUME UNCHANGED <<wrote, log>>,
             \A k \in 1..Len(conns') : \E d, b :
               /\ d \in Clients /\ Client(k)' = d
               /\ Buffered(k)' = b /\ InStep(d, b)',
             \A d \in Clients :
               ~HasSlot(d)' /\ srvEnd'[d] # "closed" => Unread(d)'
      PROVE  LinesIInv'
  <2>1. \A d \in Clients : LogAgrees(d)'
    BY <1>3 DEF LinesIInv, LogAgrees
  <2>2. ASSUME NEW k \in 1..Len(conns')
        PROVE  InStep(Client(k), Buffered(k))'
    <3>1. PICK d, b :
            /\ d \in Clients /\ Client(k)' = d
            /\ Buffered(k)' = b /\ InStep(d, b)'
      BY <1>3
    <3> QED BY <3>1 DEF InStep, LastLine
  <2> QED BY <1>3, <2>1, <2>2 DEF LinesIInv
<1>4. CASE ServerStep
  <2>1. CASE QuietStep /\ ~(ReadLine \/ ReadPart \/ ReadOverflow)
    <3>1. UNCHANGED <<conns, wrote, log, up, srvEnd>>
      BY <2>1 DEF QuietStep, SetupSigactions, SetupSocket, StartUpFails,
           TestFlag, PollBlocks, PollReturns, SkipSlot, EndScan, AcceptFails,
           SendAnswer, socketVars
    <3>2. Serving
      BY <1>0, <2>1, QuietStepKeepsConnections
    <3> QED BY <1>2, <3>1, <3>2
  <2>2. CASE SendRaisesSigpipe \/ CloseConnections \/ CloseListener
    <3>1. UNCHANGED <<wrote, log>> /\ ~Serving'
      BY <2>2 DEF SendRaisesSigpipe, CloseConnections, CloseListener, Serving,
           ServerRuns
    <3> QED BY <1>1, <3>1
  <2>3. CASE AcceptConnection
    <3> DEFINE new == Head(backlog)
    <3>1. Serving /\ UNCHANGED <<wrote, log, up, srvEnd>>
      BY <2>3 DEF AcceptConnection, Serving, ServerRuns
    <3>2. new \in Clients /\ IsWaiting(new)
      BY <1>0, <2>3, <3>1, FirstLeaves
         DEF AcceptConnection, TableTypeOK, SomebodyWaits, ConnectionsAgree
    <3>3. /\ Len(conns') = Len(conns) + 1
          /\ \A k \in 1..Len(conns) : conns'[k] = conns[k]
          /\ conns'[Len(conns) + 1] = [client |-> new, buf |-> <<>>]
      BY <1>0, <2>3, <3>2, NewSlot DEF AcceptConnection
    <3>4. ~HasSlot(new) /\ srvEnd[new] # "closed"
      BY <1>0, <3>1, <3>2 DEF ConnectionsAgree, OneOfBoth, OpenAreKnown
    <3>5. Unread(new)
      BY <3>1, <3>2, <3>4 DEF LinesIInv
    <3>6. InStep(new, <<>>)
      <4>1. up[new] = wrote[new] /\ log[new] = <<>> /\ wrote[new] \in Seq(Bytes)
        BY <1>0, <3>2, <3>5 DEF Unread, TableTypeOK
      <4>2. LastLine(new) = 0
        <5>1. Len(log[new]) = 0
          BY <4>1, EmptySeq
        <5> QED BY <5>1 DEF LastLine, LineEnd
      <4>3. Cut(wrote[new], <<>>, up[new]) = 0
        <5>1. Len(wrote[new]) \in Nat /\ Len(<<>>) = 0
          BY <4>1, EmptySeq
        <5>2. Cut(wrote[new], <<>>, wrote[new])
                = Len(wrote[new]) - Len(wrote[new]) - Len(<<>>)
          BY DEF Cut
        <5> QED BY <4>1, <5>1, <5>2
      <4>4. (0 - 0) % (BufferSize - 1) = 0
        BY BufferSizeAssumption
      <4> QED BY <4>1, <4>2, <4>3, <4>4 DEF InStep, Behind
    <3> HIDE DEF new
    <3>7. ASSUME NEW k \in 1..Len(conns')
          PROVE  \E d, b :
                   /\ d \in Clients /\ Client(k)' = d
                   /\ Buffered(k)' = b /\ InStep(d, b)'
      <4>1. CASE k \in 1..Len(conns)
        <5>1. Client(k) \in Clients /\ InStep(Client(k), Buffered(k))
          BY <1>0, <3>1, <4>1, SlotTypes DEF LinesIInv
        <5>2. PICK d, b :
                /\ d \in Clients /\ d = Client(k) /\ b = Buffered(k)
                /\ InStep(d, b)
          BY <5>1
        <5>3. Client(k)' = d /\ Buffered(k)' = b
          BY <3>3, <4>1, <5>2 DEF Client, Buffered
        <5>4. InStep(d, b)'
          BY <3>1, <5>2 DEF InStep, LastLine
        <5> QED BY <5>2, <5>3, <5>4
      <4>2. CASE k = Len(conns) + 1
        <5>1. Client(k)' = new /\ Buffered(k)' = <<>>
          BY <3>3, <4>2 DEF Client, Buffered
        <5>2. PICK d, b : d \in Clients /\ d = new /\ b = <<>> /\ InStep(d, b)
          BY <3>2, <3>6
        <5>3. InStep(d, b)'
          BY <3>1, <5>2 DEF InStep, LastLine
        <5> QED BY <5>1, <5>2, <5>3
      <4> QED BY <1>0, <3>3, <4>1, <4>2
    <3>8. ASSUME NEW d \in Clients, ~HasSlot(d)', srvEnd'[d] # "closed"
          PROVE  Unread(d)'
      <4>1. ~HasSlot(d)
        BY <1>0, <3>3, <3>8 DEF HasSlot, Client
      <4>2. Unread(d)
        BY <3>1, <3>8, <4>1 DEF LinesIInv
      <4> QED BY <3>1, <4>2 DEF Unread
    <3> QED BY <1>3, <3>1, <3>7, <3>8
  <2>4. CASE RejectConnection
    <3> DEFINE gone == Head(backlog)
    <3>1. Serving /\ UNCHANGED <<wrote, log, conns>> /\ CloseServerEnds({gone})
      BY <2>4 DEF RejectConnection, Serving, ServerRuns
    <3>2. gone \in Clients /\ IsWaiting(gone)
      BY <1>0, <2>4, <3>1, FirstLeaves
         DEF RejectConnection, TableTypeOK, SomebodyWaits, ConnectionsAgree
    <3>3. ~HasSlot(gone)
      BY <1>0, <3>1, <3>2 DEF ConnectionsAgree, OneOfBoth
    <3> HIDE DEF gone
    <3>4. /\ srvEnd'[gone] = "closed"
          /\ \A d \in Clients :
               d # gone => up'[d] = up[d] /\ srvEnd'[d] = srvEnd[d]
      BY <3>1, <3>2 DEF CloseServerEnds
    <3>5. ASSUME NEW k \in 1..Len(conns')
          PROVE  \E d, b :
                   /\ d \in Clients /\ Client(k)' = d
                   /\ Buffered(k)' = b /\ InStep(d, b)'
      <4>1. /\ Client(k) \in Clients /\ HasSlot(Client(k))
            /\ InStep(Client(k), Buffered(k))
        BY <1>0, <3>1, SlotTypes DEF LinesIInv
      <4>2. PICK d, b :
              /\ d \in Clients /\ d = Client(k) /\ b = Buffered(k)
              /\ HasSlot(d) /\ InStep(d, b)
        BY <4>1
      <4>3. up'[d] = up[d]
        BY <3>3, <3>4, <4>2
      <4>4. InStep(d, b)'
        BY <3>1, <4>2, <4>3 DEF InStep, LastLine
      <4>5. Client(k)' = d /\ Buffered(k)' = b
        BY <3>1, <4>2 DEF Client, Buffered
      <4> QED BY <4>2, <4>4, <4>5
    <3>6. ASSUME NEW d \in Clients, ~HasSlot(d)', srvEnd'[d] # "closed"
          PROVE  Unread(d)'
      <4>1. ~HasSlot(d) /\ d # gone
        BY <3>1, <3>4, <3>6 DEF HasSlot, Client
      <4>2. Unread(d)
        BY <3>1, <3>4, <3>6, <4>1 DEF LinesIInv
      <4> QED BY <3>1, <3>4, <4>1, <4>2 DEF Unread
    <3> QED BY <1>3, <3>1, <3>5, <3>6
  <2>5. CASE ReadEnd
    <3> DEFINE gone == Client(i)
    <3>1. /\ Serving /\ UNCHANGED <<wrote, log>> /\ CloseServerEnds({gone})
          /\ RemoveSlot(i) /\ i \in 1..Len(conns)
      BY <1>0, <2>5, TurnOfSlot DEF ReadEnd, InTurn, Serving, ServerRuns
    <3>2. gone \in Clients
      BY <1>0, <3>1, SlotTypes
    <3>3. /\ Len(conns') = Len(conns) - 1
          /\ \A m \in 1..Len(conns') :
               conns'[m] = IF m = i THEN conns[Len(conns)] ELSE conns[m]
      BY <1>0, <3>1, RemovedSlot
    <3>4. /\ srvEnd'[gone] = "closed"
          /\ \A d \in Clients :
               d # gone => up'[d] = up[d] /\ srvEnd'[d] = srvEnd[d]
      BY <3>1, <3>2 DEF CloseServerEnds
    <3>5. ASSUME NEW k \in 1..Len(conns')
          PROVE  \E d, b :
                   /\ d \in Clients /\ Client(k)' = d
                   /\ Buffered(k)' = b /\ InStep(d, b)'
      <4>1. PICK m \in 1..Len(conns) : m # i /\ conns'[k] = conns[m]
        <5>1. CASE k = i
          <6>1. Len(conns) \in 1..Len(conns) /\ Len(conns) # i
            BY <1>0, <3>1, <3>3, <5>1
          <6> QED BY <3>3, <5>1, <6>1
        <5>2. CASE k # i
          BY <1>0, <3>3, <5>2
        <5> QED BY <5>1, <5>2
      <4>2. Client(m) \in Clients /\ InStep(Client(m), Buffered(m))
        BY <1>0, <3>1, SlotTypes DEF LinesIInv
      <4>3. Client(m) # gone
        BY <1>0, <3>1, <4>1 DEF ConnectionsAgree, OneSlotEach
      <4>4. PICK d, b :
              /\ d \in Clients /\ d = Client(m) /\ b = Buffered(m)
              /\ InStep(d, b)
        BY <4>2
      <4>5. up'[d] = up[d]
        BY <3>4, <4>3, <4>4
      <4>6. InStep(d, b)'
        BY <3>1, <4>4, <4>5 DEF InStep, LastLine
      <4>7. Client(k)' = d /\ Buffered(k)' = b
        BY <4>1, <4>4 DEF Client, Buffered
      <4> QED BY <4>4, <4>6, <4>7
    <3>6. ASSUME NEW d \in Clients, ~HasSlot(d)', srvEnd'[d] # "closed"
          PROVE  Unread(d)'
      <4>1. d # gone
        BY <3>4, <3>6
      <4>2. ~HasSlot(d)
        <5> SUFFICES ASSUME NEW m \in 1..Len(conns), Client(m) = d
                     PROVE  FALSE
          BY DEF HasSlot
        <5>1. m # i
          BY <4>1
        <5>2. \E k \in 1..Len(conns') : conns'[k] = conns[m]
          <6>1. CASE m = Len(conns)
            <7>1. i \in 1..Len(conns') /\ conns'[i] = conns[m]
              BY <1>0, <3>1, <3>3, <5>1, <6>1
            <7> QED BY <7>1
          <6>2. CASE m # Len(conns)
            <7>1. m \in 1..Len(conns') /\ conns'[m] = conns[m]
              BY <1>0, <3>3, <5>1, <6>2
            <7> QED BY <7>1
          <6> QED BY <6>1, <6>2
        <5> QED BY <3>6, <5>2 DEF HasSlot, Client
      <4>3. Unread(d)
        BY <3>1, <3>4, <3>6, <4>1, <4>2 DEF LinesIInv
      <4> QED BY <3>1, <3>4, <4>1, <4>3 DEF Unread
    <3> QED BY <1>3, <3>1, <3>5, <3>6
  <2>6. CASE ReadLine \/ ReadPart \/ ReadOverflow
    <3>1. /\ Serving /\ UNCHANGED <<wrote, srvEnd>>
          /\ InTurn /\ i \in 1..Len(conns) /\ Client(i) \in Clients
      BY <1>0, <2>6, TurnOfSlot
         DEF ReadLine, ReadPart, ReadOverflow, InTurn, Serving, ServerRuns
    <3>2. PICK c, s : c \in Clients /\ c = Client(i) /\ s = conns'[i].buf
      BY <3>1
    <3>3. LogAgrees(c)' /\ InStep(c, s)'
      BY <1>0, <2>6, <3>1, <3>2, ReadKeepsStep
    <3>4. /\ Len(conns') = Len(conns)
          /\ \A k \in 1..Len(conns) : conns'[k].client = conns[k].client
          /\ \A k \in 1..Len(conns) : k # i => conns'[k] = conns[k]
      <4>1. PICK t \in Seq(Bytes) : KeepInBuffer(i, t)
        BY <1>0, <2>6, <3>1, TurnOfSlot, EmptySeq
           DEF ReadLine, ReadPart, ReadOverflow
      <4> QED BY <1>0, <3>1, <4>1, FilledSlot
    <3>5. ASSUME NEW d \in Clients, d # c
          PROVE  log'[d] = log[d] /\ up'[d] = up[d] /\ wrote'[d] = wrote[d]
      BY <1>0, <2>6, <3>1, <3>2, <3>5
         DEF ReadLine, ReadPart, ReadOverflow, Consume, TableTypeOK, ValueTypeOK
    <3>6. \A d \in Clients : LogAgrees(d)'
      <4>1. \A d \in Clients : d # c => LogAgrees(d)'
        BY <3>5, ClientUntouched DEF LinesIInv
      <4> QED BY <3>3, <4>1
    <3>7. ASSUME NEW k \in 1..Len(conns')
          PROVE  InStep(Client(k), Buffered(k))'
      <4>1. CASE k = i
        <5>1. Client(k)' = c /\ Buffered(k)' = s
          BY <3>1, <3>2, <3>4, <4>1 DEF Client, Buffered
        <5> QED BY <3>3, <5>1 DEF InStep, LastLine
      <4>2. CASE k # i
        <5>1. Client(k) \in Clients /\ Client(k) # c
              /\ InStep(Client(k), Buffered(k))
          BY <1>0, <3>1, <3>2, <3>4, <4>2, SlotTypes
             DEF LinesIInv, ConnectionsAgree, OneSlotEach
        <5>2. PICK d, b :
                /\ d \in Clients /\ d = Client(k) /\ b = Buffered(k)
                /\ d # c /\ InStep(d, b)
          BY <5>1
        <5>3. InStep(d, b)'
          BY <3>5, <5>2, ClientUntouched
        <5>4. Client(k)' = d /\ Buffered(k)' = b
          BY <3>4, <4>2, <5>2 DEF Client, Buffered
        <5> QED BY <5>3, <5>4 DEF InStep, LastLine
      <4> QED BY <4>1, <4>2
    <3>8. ASSUME NEW d \in Clients, ~HasSlot(d)', srvEnd'[d] # "closed"
          PROVE  Unread(d)'
      <4>1. ~HasSlot(d) /\ d # c
        BY <3>1, <3>2, <3>4, <3>8 DEF HasSlot, Client
      <4>2. Unread(d)
        BY <3>1, <3>8, <4>1 DEF LinesIInv
      <4> QED BY <3>5, <4>1, <4>2, ClientUntouched
    <3> QED BY <3>6, <3>7, <3>8 DEF LinesIInv
  <2> QED
    BY <1>4, <2>1, <2>2, <2>3, <2>4, <2>5, <2>6
       DEF ServerStep, HandleClient, QuietStep
<1>5. CASE Terminate
  <2>1. UNCHANGED <<conns, wrote, log, up, srvEnd>> /\ (Serving' => Serving)
    BY <1>5 DEF Terminate, socketVars, Serving, ServerRuns
  <2> QED BY <1>2, <2>1
<1>6. ASSUME NEW c \in Clients, ClientMoves(c), UNCHANGED serverVars
      PROVE  LinesIInv'
  <2>0. UNCHANGED <<conns, log, spc>> /\ (Serving' <=> Serving)
    BY <1>6 DEF serverVars, Serving, ServerRuns
  <2>1. CASE ClientReceive(c) \/ ClientClose(c)
    <3>1. UNCHANGED <<wrote, up, srvEnd>>
      BY <2>1 DEF ClientReceive, ClientClose
    <3> QED BY <1>2, <2>0, <3>1
  <2>2. CASE Connect(c)
    <3>1. /\ UNCHANGED <<wrote, up>>
          /\ srvEnd[c] = "none"
          /\ \A d \in Clients : d # c => srvEnd'[d] = srvEnd[d]
      BY <2>2 DEF Connect, SlotIInv, BothEndsOrNone, TableTypeOK
    <3>2. \A d \in Clients : srvEnd'[d] # "closed" => srvEnd[d] # "closed"
      BY <3>1
    <3> QED
      BY <2>0, <3>1, <3>2 DEF LinesIInv, LogAgrees, InStep, LastLine, Unread,
           HasSlot, Client, Buffered
  <2>3. ASSUME NEW bytes \in Seq(Bytes), ClientSend(c, bytes)
        PROVE  LinesIInv'
    <3>1. /\ LogAgrees(c)'
          /\ \A b \in Seq(Bytes) : InStep(c, b) => InStep(c, b)'
          /\ Unread(c) => Unread(c)'
      BY <1>0, <1>6, <2>3, SendKeepsStep DEF LinesIInv
    <3>2. /\ UNCHANGED srvEnd
          /\ \A d \in Clients : d # c =>
               log'[d] = log[d] /\ up'[d] = up[d] /\ wrote'[d] = wrote[d]
      BY <1>0, <2>0, <2>3 DEF ClientSend, TableTypeOK
    <3>3. ASSUME NEW d \in Clients
          PROVE  /\ LogAgrees(d) => LogAgrees(d)'
                 /\ \A b \in Seq(Bytes) : InStep(d, b) => InStep(d, b)'
                 /\ Unread(d) => Unread(d)'
      <4>1. CASE d = c
        BY <3>1, <4>1
      <4>2. CASE d # c
        BY <3>2, <4>2, ClientUntouched
      <4> QED BY <4>1, <4>2
    <3>4. ASSUME Serving, NEW k \in 1..Len(conns)
          PROVE  InStep(Client(k), Buffered(k))'
      <4>1. Client(k) \in Clients /\ Buffered(k) \in Seq(Bytes)
            /\ InStep(Client(k), Buffered(k))
        BY <1>0, <3>4, SlotTypes DEF LinesIInv
      <4>2. PICK d \in Clients, b \in Seq(Bytes) :
              d = Client(k) /\ b = Buffered(k) /\ InStep(d, b)
        BY <4>1
      <4>3. InStep(d, b)'
        BY <3>3, <4>2
      <4>4. Client(k)' = d /\ Buffered(k)' = b
        BY <2>0, <4>2 DEF Client, Buffered
      <4> QED BY <4>3, <4>4 DEF InStep, LastLine
    <3>5. \A d \in Clients : HasSlot(d)' <=> HasSlot(d)
      BY <2>0 DEF HasSlot, Client
    <3>6. \A d \in Clients : LogAgrees(d)'
      BY <3>3 DEF LinesIInv
    <3>7. Serving => \A d \in Clients :
            ~HasSlot(d)' /\ srvEnd'[d] # "closed" => Unread(d)'
      BY <3>2, <3>3, <3>5 DEF LinesIInv
    <3> QED BY <2>0, <3>4, <3>6, <3>7 DEF LinesIInv
  <2> QED BY <1>6, <2>1, <2>2, <2>3 DEF ClientMoves
<1>7. CASE UNCHANGED netVars
  <2>1. UNCHANGED <<conns, wrote, log, up, srvEnd>> /\ (Serving' => Serving)
    BY <1>7 DEF netVars, serverVars, socketVars, Serving, ServerRuns
  <2> QED BY <1>2, <2>1
<1> QED BY <1>4, <1>5, <1>6, <1>7 DEF ServerNext

(* The invariants of the server, for clients of any kind.                  *)
ServerIInv == SlotIInv /\ ValueTypeOK /\ LinesIInv

(* A stream without bytes has no lines.                                    *)
LEMMA NoLines == LinesSeen(<<>>) = <<>> /\ LineCount(<<>>) = 0
<1>1. LineCount(<<>>) = 0
  <2>1. Len(<<>>) = 0
    OBVIOUS
  <2> QED BY <2>1, CountStep DEF LineCount
<1>2. DOMAIN LinesOf(<<>>) = 1..0
  BY <1>1 DEF LinesOf
<1> QED BY <1>1, <1>2 DEF LinesSeen

(* What the server keeps of each connection is in step with the bytes the  *)
(* client has sent, in every reachable state (server.c lines 134 to 204).  *)
THEOREM ServerIInvHolds == ServerSpec => []ServerIInv
<1>1. InitServer /\ InitSockets => ServerIInv
  <2> SUFFICES ASSUME InitServer, InitSockets
               PROVE  ServerIInv
    OBVIOUS
  <2>1. SlotIInv
    BY SlotIInvInitially
  <2>2. ValueTypeOK
    <3>1. <<>> \in Seq(Ints) /\ <<>> \in Seq(Seq(Bytes)) /\ Len(<<>>) = 0
      BY EmptySeq
    <3>2. 0 \in Ints
      BY IntMaxAssumption DEF Ints
    <3>3. i = 0 /\ Len(conns) = 0 /\ spc = "main" /\ state = 0
      BY <3>1 DEF InitServer
    <3>4. ScanInRange
      BY <3>3 DEF ScanInRange
    <3>5. down = [c \in Clients |-> <<>>] /\ log = [c \in Clients |-> <<>>]
      BY DEF InitServer, InitSockets
    <3>6. /\ down \in [Clients -> Seq(Ints)]
          /\ log \in [Clients -> Seq(Seq(Bytes))]
      BY <3>1, <3>5
    <3> QED BY <3>2, <3>3, <3>4, <3>6
            DEF InitServer, InitSockets, ServerLabels, ValueTypeOK
  <2>3. LinesIInv
    <3>1. Len(<<>>) = 0
      OBVIOUS
    <3>2. \A c \in Clients : wrote[c] = <<>> /\ log[c] = <<>> /\ up[c] = <<>>
      BY DEF InitServer, InitSockets
    <3>3. \A c \in Clients : LogAgrees(c) /\ Unread(c)
      BY <3>1, <3>2, NoLines DEF LogAgrees, Unread
    <3>4. Len(conns) = 0
      BY <3>1 DEF InitServer
    <3> QED BY <3>3, <3>4 DEF LinesIInv
  <2> QED BY <2>1, <2>2, <2>3 DEF ServerIInv
<1>2. ServerIInv /\ [ServerNext]_netVars => ServerIInv'
  BY SlotInvariant, ValueTypeInvariant, LinesInvariant DEF ServerIInv, SlotIInv
<1> QED BY <1>1, <1>2, PTL DEF ServerSpec

(* The types of the server and of the sockets, in every reachable state.   *)
THEOREM ServerTypeOKHolds == ServerSpec => []ServerTypeOK
<1>1. ServerIInv => ServerTypeOK
  <2> SUFFICES ASSUME ServerIInv
               PROVE  ServerTypeOK
    OBVIOUS
  <2>1. TableTypeOK /\ ValueTypeOK /\ Len(conns) \in Nat
        /\ DOMAIN conns = 1..Len(conns) /\ conns \in Seq(Slots)
    BY DEF ServerIInv, SlotIInv, TableTypeOK
  <2>2. SocketTypeOK(Bytes, Ints)
    BY <2>1 DEF SocketTypeOK, TableTypeOK, ValueTypeOK
  <2>3. ASSUME NEW k \in DOMAIN conns
        PROVE  conns[k] \in [client : Clients, buf : Seq(Bytes)]
    <3>1. conns[k] \in Slots
      BY <2>1
    <3> QED BY <3>1 DEF Slots
  <2>4. i \in 0..(MaxClients + 1)
    BY <2>1, MaxClientsAssumption DEF TableTypeOK, ValueTypeOK, ScanInRange
  <2> QED
    BY <2>1, <2>2, <2>3, <2>4 DEF TableTypeOK, ValueTypeOK, ServerTypeOK
<1> QED BY <1>1, ServerIInvHolds, PTL

-----------------------------------------------------------------------------
(* A sequence that goes on as another one is its prefix.                   *)
LEMMA PrefixIs ==
  ASSUME NEW S, NEW s \in Seq(S), NEW t \in Seq(S), Len(s) <= Len(t),
         \A k \in 1..Len(s) : s[k] = t[k]
  PROVE  IsPrefix(s, t)
<1>1. Len(s) \in Nat /\ Len(t) \in Nat
  OBVIOUS
<1>2. SubSeq(s, 1, Len(s)) = [k \in 1..Len(s) |-> s[k]]
      /\ SubSeq(t, 1, Len(s)) = [k \in 1..Len(s) |-> t[k]]
  BY <1>1
<1> QED BY <1>2 DEF IsPrefix

(* The lines of a stream are sequences of bytes.                           *)
LEMMA LinesSeenType ==
  ASSUME NEW w \in Seq(Bytes)
  PROVE  LinesSeen(w) \in Seq(Seq(Bytes)) /\ Len(LinesSeen(w)) = LineCount(w)
<1>1. LineCount(w) \in Nat /\ Len(w) \in Nat
  BY CountStep DEF LineCount
<1>2. ASSUME NEW n \in 1..LineCount(w)
      PROVE  LinesSeen(w)[n] \in Seq(Bytes)
  <2>1. LineEnd(w, n) \in 0..Len(w) /\ LineEnd(w, n - 1) \in 0..Len(w)
    <3>1. n \in 0..LineCount(w) /\ n - 1 \in 0..LineCount(w)
      BY <1>1
    <3> QED BY <3>1, LineEndFrom
  <2> DEFINE line == SubSeq(w, LineEnd(w, n - 1) + 1, LineEnd(w, n) - 1)
  <2>2. line \in Seq(Bytes)
    <3> DEFINE p == LineEnd(w, n - 1) + 1
               q == LineEnd(w, n) - 1
    <3>1. p \in Int /\ q \in Int /\ \A k \in p..q : w[k] \in Bytes
      BY <1>1, <2>1
    <3> HIDE DEF p, q
    <3> QED BY <3>1, SubSeqProperties DEF p, q
  <2>3. LinesOf(w)[n] = line /\ DOMAIN LinesOf(w) = 1..LineCount(w)
    BY DEF LinesOf
  <2> HIDE DEF line
  <2>4. Seen(line) \in Seq(Bytes)
    <3>1. Len(line) \in Nat /\ BufferSize - 1 \in Nat /\ BufferSize - 1 > 0
      BY <2>2, BufferSizeAssumption
    <3>2. Len(line) - (Len(line) % (BufferSize - 1)) \in Nat
      BY <3>1
    <3> QED BY <2>2, <3>2, TakeAndDrop DEF Seen
  <2> QED BY <2>3, <2>4 DEF LinesSeen
<1>3. LinesSeen(w) = [n \in 1..LineCount(w) |-> LinesSeen(w)[n]]
  BY DEF LinesSeen, LinesOf
<1>4. LinesSeen(w) \in [1..LineCount(w) -> Seq(Bytes)]
  <2> DEFINE lines == LinesSeen(w)
  <2>1. lines = [n \in 1..LineCount(w) |-> lines[n]]
        /\ \A n \in 1..LineCount(w) : lines[n] \in Seq(Bytes)
    BY <1>2, <1>3
  <2> HIDE DEF lines
  <2>2. lines \in [1..LineCount(w) -> Seq(Bytes)]
    BY <2>1
  <2> QED BY <2>2 DEF lines
<1> QED BY <1>1, <1>4

(* Whatever the clients send and however the reads cut it, the server logs *)
(* for each client the lines it sent, in order and each once.              *)
THEOREM LogsTheStreamHolds == ServerSpec => []LogsTheStream
<1>1. ServerIInv => LogsTheStream
  <2> SUFFICES ASSUME ServerIInv, NEW c \in Clients
               PROVE  IsPrefix(log[c], LinesSeen(wrote[c]))
    BY DEF LogsTheStream
  <2>1. log[c] \in Seq(Seq(Bytes)) /\ wrote[c] \in Seq(Bytes) /\ LogAgrees(c)
    BY DEF ServerIInv, SlotIInv, TableTypeOK, ValueTypeOK, LinesIInv
  <2>2. LinesSeen(wrote[c]) \in Seq(Seq(Bytes))
        /\ Len(LinesSeen(wrote[c])) = LineCount(wrote[c])
    BY <2>1, LinesSeenType
  <2> QED BY <2>1, <2>2, PrefixIs DEF LogAgrees
<1> QED BY <1>1, ServerIInvHolds, PTL

-----------------------------------------------------------------------------
(* A step of the server is a step of the accumulator, or none: ReadLine    *)
(* applies the next request of its client, and what a client sends are     *)
(* requests.                                                               *)
LEMMA LedgerStep ==
  ASSUME ServerIInv, ServerIInv', [ServerNext]_netVars
  PROVE  [Ledger!Next]_Ledger!accumulatorVars
<1>0. /\ TableTypeOK /\ ValueTypeOK /\ LinesIInv
      /\ TableTypeOK' /\ ValueTypeOK' /\ LinesIInv'
  BY DEF ServerIInv, SlotIInv
<1>1. ASSUME UNCHANGED <<wrote, log, state>>
      PROVE  UNCHANGED Ledger!accumulatorVars
  BY <1>1 DEF Ledger!accumulatorVars
<1>2. CASE ReadLine
  <2>1. /\ InTurn /\ Client(i) \in Clients /\ UNCHANGED wrote
        /\ log' = [log EXCEPT ![Client(i)] = Append(@, FirstLine)]
        /\ state' = Added(state, FirstLine)
    BY <1>0, <1>2, TurnOfSlot DEF ReadLine, NewTotal
  <2>2. PICK c \in Clients : c = Client(i)
    BY <2>1
  <2> DEFINE n == Len(log[c])
  <2>3. /\ log[c] \in Seq(Seq(Bytes)) /\ wrote[c] \in Seq(Bytes)
        /\ log'[c] = Append(log[c], FirstLine)
        /\ \A d \in Clients : d # c => log'[d] = log[d]
    BY <1>0, <2>1, <2>2 DEF TableTypeOK, ValueTypeOK
  <2>4. Len(log'[c]) = n + 1 /\ log'[c][n + 1] = FirstLine /\ n \in Nat
    BY <2>3, AppendProperties
  <2>5. n + 1 <= LineCount(wrote[c]) /\ FirstLine = LinesSeen(wrote[c])[n + 1]
    BY <1>0, <2>1, <2>4 DEF LinesIInv, LogAgrees
  <2>6. Len(LinesSeen(wrote[c])) = LineCount(wrote[c])
        /\ LineCount(wrote[c]) \in Nat
    <3>1. Len(LinesSeen(wrote[c])) = LineCount(wrote[c])
      BY <2>3, LinesSeenType
    <3>2. Len(wrote[c]) \in Nat
      BY <2>3
    <3>3. LineCount(wrote[c]) \in Nat
      BY <2>3, <3>2, CountStep DEF LineCount
    <3> QED BY <3>1, <3>3
  <2>7. Ledger!Apply(c)
    <3>1. n < Len(LinesSeen(wrote[c]))
      BY <2>4, <2>5, <2>6
    <3>2. [d \in Clients |-> Len(log'[d])]
            = [[d \in Clients |-> Len(log[d])] EXCEPT ![c] = n + 1]
      BY <2>3, <2>4
    <3>3. state' = Added(state, LinesSeen(wrote[c])[n + 1])
      BY <2>1, <2>5
    <3> QED BY <2>1, <3>1, <3>2, <3>3 DEF Ledger!Apply
  <2> QED BY <2>7 DEF Ledger!Next
<1>3. ASSUME NEW c \in Clients, NEW bytes \in Seq(Bytes), ClientSend(c, bytes),
             UNCHANGED serverVars
      PROVE  Ledger!Request
  <2>1. UNCHANGED <<log, state>>
    BY <1>3 DEF serverVars
  <2>2. \A d \in Clients : LinesSeen(wrote'[d]) \in Seq(Seq(Bytes))
    BY <1>0, LinesSeenType DEF TableTypeOK
  <2>3. ASSUME NEW d \in Clients
        PROVE  IsPrefix(LinesSeen(wrote[d]), LinesSeen(wrote'[d]))
    <3>0. /\ wrote[d] \in Seq(Bytes) /\ wrote'[d] \in Seq(Bytes)
          /\ LinesSeen(wrote[d]) \in Seq(Seq(Bytes))
          /\ LinesSeen(wrote'[d]) \in Seq(Seq(Bytes))
          /\ Len(LinesSeen(wrote[d])) = LineCount(wrote[d])
          /\ Len(LinesSeen(wrote'[d])) = LineCount(wrote'[d])
      BY <1>0, LinesSeenType DEF TableTypeOK
    <3>1. CASE d = c
      <4>1. wrote'[d] = wrote[d] \o bytes
        BY <1>0, <1>3, <3>1 DEF ClientSend, TableTypeOK
      <4>2. /\ LineCount(wrote[d]) <= LineCount(wrote'[d])
            /\ \A n \in 1..LineCount(wrote[d]) :
                 LinesSeen(wrote'[d])[n] = LinesSeen(wrote[d])[n]
        BY <3>0, <4>1, LinesStay
      <4> QED BY <3>0, <4>2, PrefixIs
    <3>2. CASE d # c
      <4>1. wrote'[d] = wrote[d]
        BY <1>0, <1>3, <3>2 DEF ClientSend, TableTypeOK
      <4> QED BY <3>0, <4>1, PrefixIs
    <3> QED BY <3>1, <3>2
  <2>4. [d \in Clients |-> LinesSeen(wrote'[d])]
          \in [Clients -> Seq(Seq(Bytes))]
    BY <2>2
  <2>5. [d \in Clients |-> Len(log'[d])] = [d \in Clients |-> Len(log[d])]
    BY <2>1
  <2>6. \A d \in Clients :
          Ledger!IsPrefix(LinesSeen(wrote[d]), LinesSeen(wrote'[d]))
    BY <2>3 DEF IsPrefix, Ledger!IsPrefix
  <2> QED BY <2>1, <2>4, <2>5, <2>6 DEF Ledger!Request
<1>4. CASE ServerStep /\ ~ReadLine
  <2>1. UNCHANGED <<wrote, log, state>>
    BY <1>4 DEF ServerStep, HandleClient, SetupSigactions, SetupSocket,
         StartUpFails, TestFlag, PollBlocks, PollReturns, SkipSlot, EndScan,
         AcceptConnection, RejectConnection, AcceptFails, ReadEnd, ReadPart,
         ReadOverflow, SendAnswer, SendRaisesSigpipe, CloseConnections,
         CloseListener, socketVars
  <2> QED BY <1>1, <2>1
<1>5. CASE Terminate \/ UNCHANGED netVars
  <2>1. UNCHANGED <<wrote, log, state>>
    BY <1>5 DEF Terminate, netVars, serverVars, socketVars
  <2> QED BY <1>1, <2>1
<1>6. ASSUME NEW c \in Clients, ClientMoves(c), UNCHANGED serverVars
      PROVE  [Ledger!Next]_Ledger!accumulatorVars
  <2>1. CASE Connect(c) \/ ClientReceive(c) \/ ClientClose(c)
    <3>1. UNCHANGED <<wrote, log, state>>
      BY <1>6, <2>1 DEF Connect, ClientReceive, ClientClose, serverVars
    <3> QED BY <1>1, <3>1
  <2>2. CASE \E bytes \in Seq(Bytes) : ClientSend(c, bytes)
    BY <1>3, <1>6, <2>2 DEF Ledger!Next
  <2> QED BY <1>6, <2>1, <2>2 DEF ClientMoves
<1> QED BY <1>2, <1>4, <1>5, <1>6 DEF ServerNext

(* The server implements the accumulator, with clients of any kind.        *)
THEOREM ImplementsAccumulatorHolds == ServerSpec => ImplementsAccumulator
<1>1. InitServer /\ InitSockets => Ledger!Init
  <2> SUFFICES ASSUME InitServer, InitSockets
               PROVE  Ledger!Init
    OBVIOUS
  <2>1. \A c \in Clients : wrote[c] = <<>> /\ log[c] = <<>>
    BY DEF InitServer, InitSockets
  <2>2. [c \in Clients |-> LinesSeen(wrote[c])] = [c \in Clients |-> <<>>]
    BY <2>1, NoLines
  <2>3. [c \in Clients |-> Len(log[c])] = [c \in Clients |-> 0]
    <3>1. Len(<<>>) = 0
      OBVIOUS
    <3> QED BY <2>1, <3>1
  <2> QED BY <2>2, <2>3 DEF Ledger!Init, InitServer
<1>2. ServerIInv /\ ServerIInv' /\ [ServerNext]_netVars
        => [Ledger!Next]_Ledger!accumulatorVars
  BY LedgerStep
<1> QED
  BY <1>1, <1>2, ServerIInvHolds, PTL
     DEF ServerSpec, ImplementsAccumulator, Ledger!Spec
=============================================================================
