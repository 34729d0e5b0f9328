-------------------------- MODULE ChildStartProofs --------------------------
(***************************************************************************)
(* Proofs about ChildStart, for every configuration file, every disk and   *)
(* every number of descriptors: what the parser makes of the lines, which  *)
(* file a child finds behind its descriptors, and where its messages go.   *)
(***************************************************************************)
EXTENDS ChildStart, NaturalsInduction, WellFoundedInduction, SequenceTheorems,
        FiniteSetTheorems, TLAPS

(* Every set of natural numbers that is not empty has a least element.     *)
LEMMA LeastElement ==
  ASSUME NEW T \in SUBSET Nat, T # {}
  PROVE  \E k \in T : \A j \in T : k <= j
<1> DEFINE Less == {jk \in Nat \X Nat : jk[1] < jk[2]}
<1>1. IsWellFoundedOn(OpToRel(<, Nat), Nat)
  BY NatLessThanWellFounded
<1>2. OpToRel(<, Nat) = Less
  BY DEF OpToRel
<1>3. PICK k \in T : \A j \in T : ~(<<j, k>> \in Less)
  <2> HIDE DEF Less
  <2> QED BY <1>1, <1>2, WFMin
<1>4. ASSUME NEW j \in T, j < k
      PROVE  FALSE
  <2>1. <<j, k>> \in Less
    BY <1>4
  <2> QED BY <1>3, <2>1
<1> QED BY <1>4

(* The smallest of a set of numbers.                                       *)
LEMMA MinIsLeast ==
  ASSUME NEW S \in SUBSET Nat, S # {}
  PROVE  Min(S) \in S /\ \A k \in S : Min(S) <= k
<1>1. PICK k \in S : \A j \in S : k <= j
  BY LeastElement
<1> QED BY <1>1 DEF Min

LEMMA MinOfTwo ==
  ASSUME NEW a \in Nat, NEW b \in Nat
  PROVE  Min({a, b}) = IF a <= b THEN a ELSE b
<1> DEFINE S == {a, b}
<1>1. S \in SUBSET Nat /\ S # {}
  OBVIOUS
<1>2. Min(S) \in S /\ \A k \in S : Min(S) <= k
  <2> HIDE DEF S
  <2> QED BY <1>1, MinIsLeast
<1>3. Min({a, b}) \in {a, b} /\ Min({a, b}) <= a /\ Min({a, b}) <= b
  BY <1>2
<1> QED BY <1>3

-----------------------------------------------------------------------------
(* The loop of parse(), turn by turn: made[n] is the list behind line n.   *)
Turns(lines, d, last, made) ==
  made = [n \in 0..last |->
            IF n = 0 THEN <<>> ELSE AddLine(made[n - 1], lines[n], d)]

(* There are such turns, since each is made from the one before.           *)
LEMMA TurnsExist ==
  ASSUME NEW lines, NEW d, NEW last \in Nat
  PROVE  \E made : Turns(lines, d, last, made)
<1> DEFINE T == {n \in Nat : ~\E made : Turns(lines, d, n, made)}
<1>1. SUFFICES ASSUME T # {} PROVE FALSE
  OBVIOUS
<1>2. PICK k \in T : \A j \in T : k <= j
  <2>1. T \in SUBSET Nat
    OBVIOUS
  <2> HIDE DEF T
  <2> QED BY <1>1, <2>1, LeastElement
<1>3. CASE k = 0
  <2> DEFINE made == [n \in 0..0 |-> <<>>]
  <2>1. Turns(lines, d, 0, made)
    BY DEF Turns
  <2> QED BY <1>3, <2>1
<1>4. CASE k # 0
  <2>1. k \in Nat /\ k - 1 \in Nat /\ k - 1 \notin T
    BY <1>2, <1>4
  <2>2. PICK before : Turns(lines, d, k - 1, before)
    BY <2>1
  <2> DEFINE made == [n \in 0..k |->
                        IF n = 0 THEN <<>> ELSE AddLine(before[n - 1], lines[n], d)]
  <2>3. ASSUME NEW n \in 0..k, n # 0
        PROVE  made[n - 1] = before[n - 1]
    <3>1. n - 1 \in 0..(k - 1) /\ n - 1 \in 0..k
      BY <2>1, <2>3
    <3>2. before[n - 1] = IF n - 1 = 0 THEN <<>>
                          ELSE AddLine(before[n - 1 - 1], lines[n - 1], d)
      BY <2>2, <3>1 DEF Turns
    <3> QED BY <3>1, <3>2
  <2>4. Turns(lines, d, k, made)
    BY <2>3 DEF Turns
  <2> QED BY <1>2, <2>4
<1> QED BY <1>3, <1>4

(* parse() returns the list behind the last line.                          *)
LEMMA ParseReturns ==
  ASSUME NEW lines, NEW d, Len(lines) \in Nat
  PROVE  \E made : /\ Turns(lines, d, Len(lines), made)
                   /\ Parse(lines, d) = made[Len(lines)]
<1> DEFINE made == CHOOSE f : f = [n \in 0..Len(lines) |->
                     IF n = 0 THEN <<>> ELSE AddLine(f[n - 1], lines[n], d)]
<1>1. Parse(lines, d) = made[Len(lines)]
  BY DEF Parse
<1>2. Turns(lines, d, Len(lines), made)
  BY TurnsExist DEF Turns
<1> QED BY <1>1, <1>2

(* The valid ones of the first n lines, and what they become.              *)
GoodUpTo(lines, d, n) == {m \in 1..n : Accepted(lines[m], d)}
Place(lines, d, n) == Cardinality(GoodUpTo(lines, d, n))
ItemsOf(lines, d, n) == {EntryOf(lines[m]) : m \in GoodUpTo(lines, d, n)}
Listed(lines, d, n, made) ==
  /\ made \in Seq(ItemsOf(lines, d, n))
  /\ Len(made) = IF MaxExec <= Place(lines, d, n) THEN MaxExec ELSE Place(lines, d, n)
  /\ \A m \in GoodUpTo(lines, d, n) : Place(lines, d, m) <= MaxExec =>
       made[Place(lines, d, m)] = EntryOf(lines[m])

(* A valid line is one place behind the valid lines before it.             *)
LEMMA PlaceGrows ==
  ASSUME NEW lines, NEW d, NEW n \in Nat, n # 0
  PROVE  /\ Place(lines, d, n) \in Nat /\ Place(lines, d, n - 1) \in Nat
         /\ Accepted(lines[n], d) =>
              /\ GoodUpTo(lines, d, n) = GoodUpTo(lines, d, n - 1) \cup {n}
              /\ Place(lines, d, n) = Place(lines, d, n - 1) + 1
         /\ ~Accepted(lines[n], d) => GoodUpTo(lines, d, n) = GoodUpTo(lines, d, n - 1)
<1> DEFINE Before == GoodUpTo(lines, d, n - 1)
<1>1. Before \in SUBSET (1..(n - 1)) /\ n \notin Before
  BY DEF GoodUpTo
<1>2. IsFiniteSet(Before)
  <2>1. n - 1 \in Int /\ IsFiniteSet(1..(n - 1))
    BY FS_Interval
  <2> HIDE DEF Before
  <2> QED BY <1>1, <2>1, FS_Subset
<1>3. GoodUpTo(lines, d, n) = IF Accepted(lines[n], d) THEN Before \cup {n} ELSE Before
  BY DEF GoodUpTo
<1> HIDE DEF Before
<1>4. /\ Cardinality(Before) \in Nat /\ Cardinality(Before \cup {n}) = Cardinality(Before) + 1
  BY <1>1, <1>2, FS_CardinalityType, FS_AddElement
<1> QED BY <1>3, <1>4 DEF Place, Before

(* Earlier lines have earlier places.                                      *)
LEMMA PlacesInOrder ==
  ASSUME NEW lines, NEW d, NEW n \in Nat, NEW m \in 1..n, Accepted(lines[m], d)
  PROVE  Place(lines, d, m) \in 1..Place(lines, d, n)
<1> DEFINE Up(k) == GoodUpTo(lines, d, k)
<1>1. Up(m) \subseteq Up(n) /\ m \in Up(m) /\ Up(n) \in SUBSET (1..n)
  BY DEF GoodUpTo
<1> HIDE DEF Up
<1>2. IsFiniteSet(Up(n))
  <2>1. IsFiniteSet(1..n)
    BY FS_Interval
  <2> QED BY <1>1, <2>1, FS_Subset
<1>3. /\ IsFiniteSet(Up(m)) /\ Cardinality(Up(m)) <= Cardinality(Up(n))
      /\ Cardinality(Up(m)) \in Nat /\ Cardinality(Up(n)) \in Nat
  BY <1>1, <1>2, FS_Subset, FS_CardinalityType
<1>4. Cardinality(Up(m)) # 0
  BY <1>1, <1>3, FS_EmptySet
<1> QED BY <1>3, <1>4 DEF Place, Up

(* One turn of the loop keeps the list in order.                           *)
LEMMA AddLineLists ==
  ASSUME NEW lines, NEW d, NEW n \in Nat, n # 0,
         NEW made, Listed(lines, d, n - 1, made)
  PROVE  Listed(lines, d, n, AddLine(made, lines[n], d))
<1> DEFINE P(m) == Place(lines, d, m)
           Up(m) == GoodUpTo(lines, d, m)
           new == AddLine(made, lines[n], d)
<1>1. /\ P(n) \in Nat /\ P(n - 1) \in Nat /\ n - 1 \in Nat
      /\ Accepted(lines[n], d) => Up(n) = Up(n - 1) \cup {n} /\ P(n) = P(n - 1) + 1
      /\ ~Accepted(lines[n], d) => Up(n) = Up(n - 1)
  BY PlaceGrows
<1>2. /\ made \in Seq(ItemsOf(lines, d, n - 1))
      /\ Len(made) = IF MaxExec <= P(n - 1) THEN MaxExec ELSE P(n - 1)
      /\ \A m \in Up(n - 1) : P(m) <= MaxExec => made[P(m)] = EntryOf(lines[m])
  BY DEF Listed
<1>3. \A m \in Up(n - 1) : P(m) \in 1..P(n - 1)
  BY <1>1, PlacesInOrder DEF GoodUpTo
<1>4. ItemsOf(lines, d, n - 1) \subseteq ItemsOf(lines, d, n)
  BY <1>1 DEF ItemsOf
<1>5. made \in Seq(ItemsOf(lines, d, n))
  BY <1>2, <1>4
<1> HIDE DEF P, Up, new
<1>6. CASE ~Accepted(lines[n], d)
  <2>1. new = made /\ Up(n) = Up(n - 1) /\ P(n) = P(n - 1)
    BY <1>1, <1>6 DEF new, AddLine, P, Up, Place
  <2> QED BY <1>2, <1>5, <2>1 DEF Listed, P, Up, new
<1>7. CASE Accepted(lines[n], d) /\ ~(Len(made) < MaxExec)
  <2>1. new = made
    BY <1>7 DEF new, AddLine
  <2>2. MaxExec <= P(n - 1) /\ Len(made) = MaxExec /\ P(n) = P(n - 1) + 1
    BY <1>1, <1>2, <1>7, LimitsAssumption
  <2>3. ASSUME NEW m \in Up(n), P(m) <= MaxExec
        PROVE  made[P(m)] = EntryOf(lines[m])
    <3>1. m # n
      BY <1>1, <2>2, <2>3, LimitsAssumption
    <3> QED BY <1>1, <1>2, <1>7, <2>3, <3>1
  <2>4. MaxExec <= P(n)
    BY <1>1, <2>2, LimitsAssumption
  <2> QED BY <1>5, <2>1, <2>2, <2>3, <2>4 DEF Listed, P, Up, new
<1>8. CASE Accepted(lines[n], d) /\ Len(made) < MaxExec
  <2>1. new = Append(made, EntryOf(lines[n]))
    BY <1>8 DEF new, AddLine
  <2>2. Len(made) = P(n - 1) /\ P(n) = P(n - 1) + 1 /\ P(n - 1) < MaxExec
    BY <1>1, <1>2, <1>8, LimitsAssumption
  <2>3. EntryOf(lines[n]) \in ItemsOf(lines, d, n)
    BY <1>1, <1>8 DEF ItemsOf, Up
  <2>4. /\ new \in Seq(ItemsOf(lines, d, n)) /\ Len(new) = P(n)
        /\ new[P(n)] = EntryOf(lines[n])
        /\ \A k \in 1..P(n - 1) : new[k] = made[k]
    BY <1>1, <1>5, <2>1, <2>2, <2>3
  <2>5. ASSUME NEW m \in Up(n), P(m) <= MaxExec
        PROVE  new[P(m)] = EntryOf(lines[m])
    <3>1. CASE m = n
      BY <2>4, <3>1
    <3>2. CASE m # n
      <4>1. m \in Up(n - 1)
        BY <1>1, <1>8, <3>2
      <4> QED BY <1>2, <1>3, <2>4, <2>5, <4>1
    <3> QED BY <3>1, <3>2
  <2>6. P(n) <= MaxExec /\ (MaxExec <= P(n) => MaxExec = P(n))
    BY <1>1, <2>2, LimitsAssumption
  <2> QED BY <2>4, <2>5, <2>6 DEF Listed, P, Up, new
<1> QED BY <1>6, <1>7, <1>8

(* parse() lists the valid lines of the file in their order.               *)
LEMMA ParseLists ==
  ASSUME NEW lines, Len(lines) \in Nat, NEW d
  PROVE  Listed(lines, d, Len(lines), Parse(lines, d))
<1>1. PICK made : /\ Turns(lines, d, Len(lines), made)
                  /\ Parse(lines, d) = made[Len(lines)]
  BY ParseReturns
<1> DEFINE T == {n \in 0..Len(lines) : ~Listed(lines, d, n, made[n])}
<1>2. SUFFICES ASSUME T # {} PROVE FALSE
  BY <1>1
<1>3. PICK k \in T : \A j \in T : k <= j
  <2>1. T \in SUBSET Nat
    OBVIOUS
  <2> HIDE DEF T
  <2> QED BY <1>2, <2>1, LeastElement
<1>4. made[k] = IF k = 0 THEN <<>> ELSE AddLine(made[k - 1], lines[k], d)
  BY <1>1 DEF Turns
<1>5. k # 0
  <2>1. GoodUpTo(lines, d, 0) = {}
    BY DEF GoodUpTo
  <2>2. Place(lines, d, 0) = 0
    BY <2>1, FS_EmptySet DEF Place
  <2>3. Listed(lines, d, 0, <<>>)
    BY <2>1, <2>2, LimitsAssumption DEF Listed
  <2> QED BY <1>3, <1>4, <2>3
<1>6. k \in Nat /\ Listed(lines, d, k - 1, made[k - 1])
  BY <1>3, <1>5
<1> QED BY <1>3, <1>4, <1>5, <1>6, AddLineLists

-----------------------------------------------------------------------------
(* What is fixed while myinit runs: the configuration and its entries.     *)
Loaded == pc \notin {"main", "demon", "config", "ended"}
Configured ==
  /\ file \in ConfigFiles
  /\ Loaded => items = Parse(file, validated)
  /\ pc \in {"child", "open_in", "open_out", "exec", "running", "dead"} =>
       \E k \in DOMAIN items : entry = items[k]

LEMMA ConfiguredAlways == Spec => []Configured
<1>1. Init => Configured
  BY DEF Init, Configured, Loaded
<1>2. Configured /\ [Next]_vars => Configured'
  <2> SUFFICES ASSUME Configured, [Next]_vars
               PROVE  Configured'
    OBVIOUS
  <2> USE DEF Configured, Loaded, mainVars
  <2>1. CASE Demonize \/ OpenLog \/ StartUpFails
    BY <2>1 DEF Demonize, OpenLog, StartUpFails
  <2>2. CASE LoadConfig
    BY <2>2 DEF LoadConfig
  <2>3. CASE StartEntry
    BY <2>3 DEF StartEntry, Fork
  <2>4. CASE Restart \/ RedirectLog
    BY <2>4 DEF Restart, Fork, RedirectLog
  <2>5. CASE OpenIn \/ OpenOut
    BY <2>5 DEF OpenIn, OpenOut, Exits
  <2>6. CASE Exec \/ ProgramEnds
    BY <2>6 DEF Exec, ProgramEnds, Exits
  <2>7. CASE DiskChanges \/ UNCHANGED vars
    BY <2>7 DEF DiskChanges, vars
  <2> QED BY <2>1, <2>2, <2>3, <2>4, <2>5, <2>6, <2>7 DEF Next, Step
<1> QED BY <1>1, <1>2, PTL DEF Spec

(* The words of one entry are those of its line that were kept.            *)
LEMMA EntryKeepsWords ==
  ASSUME NEW line \in Seq(STRING), Len(line) >= 3
  PROVE  LET item == EntryOf(line)
             words == item.argv \o <<item.in, item.out>>
         IN  /\ IsPrefix(words, line)
             /\ words # line => Len(words) = MaxArgs + 3
<1> DEFINE n == Min({Len(line), MaxArgs + 3})
           kept == Kept(line)
           item == EntryOf(line)
           words == item.argv \o <<item.in, item.out>>
<1>1. n = IF Len(line) <= MaxArgs + 3 THEN Len(line) ELSE MaxArgs + 3
  BY MinOfTwo, LimitsAssumption
<1>2. n \in 3..Len(line) /\ n <= MaxArgs + 3
  BY <1>1, LimitsAssumption
<1>3. kept = SubSeq(line, 1, n)
  BY DEF Kept
<1> HIDE DEF n, kept
<1>4. /\ kept \in Seq(STRING) /\ Len(kept) = n
      /\ \A k \in 1..n : kept[k] = line[k]
  BY <1>2, <1>3
<1>5. /\ item.argv = SubSeq(kept, 1, n - 2)
      /\ item.in = kept[n - 1] /\ item.out = kept[n]
  BY <1>4 DEF EntryOf, kept
<1> HIDE DEF item
<1>6. /\ item.argv \in Seq(STRING) /\ Len(item.argv) = n - 2
      /\ \A k \in 1..(n - 2) : item.argv[k] = kept[k]
  BY <1>2, <1>4, <1>5
<1>7. words = kept
  <2>1. <<item.in, item.out>> \in Seq(STRING) /\ Len(<<item.in, item.out>>) = 2
    BY <1>2, <1>4, <1>5
  <2>2. /\ words \in Seq(STRING) /\ Len(words) = n
        /\ \A k \in 1..n : words[k] = IF k <= n - 2 THEN item.argv[k]
                                      ELSE <<item.in, item.out>>[k - (n - 2)]
    BY <1>2, <1>6, <2>1
  <2>3. \A k \in 1..n : words[k] = kept[k]
    <3> SUFFICES ASSUME NEW k \in 1..n PROVE words[k] = kept[k]
      OBVIOUS
    <3>1. k \in 1..(n - 2) \/ k = n - 1 \/ k = n
      BY <1>2
    <3> QED BY <1>2, <1>5, <1>6, <2>2, <3>1
  <2> HIDE DEF words
  <2> QED BY <1>4, <2>2, <2>3
<1>8. IsPrefix(kept, line)
  BY <1>2, <1>3, <1>4 DEF IsPrefix
<1>9. kept # line => n = MaxArgs + 3
  <2>1. ASSUME n = Len(line) PROVE kept = line
    BY <1>4, <2>1
  <2> QED BY <1>1, <2>1
<1> QED BY <1>4, <1>7, <1>8, <1>9 DEF item

(* The entries are the valid lines of the file, in order, up to MAX_EXEC,  *)
(* each whole or cut behind its output file: for every file and every      *)
(* limit of words and of entries.                                          *)
THEOREM EntriesAreLinesHolds == Spec => []EntriesAreLines
<1>1. Configured => EntriesAreLines
  <2> SUFFICES ASSUME Configured, Loaded
               PROVE  /\ Len(items) = Min({MaxExec, Cardinality(GoodLines)})
                      /\ \A n \in GoodLines : Position(n) <= MaxExec =>
                           LET item == items[Position(n)]
                               words == item.argv \o <<item.in, item.out>>
                           IN  /\ IsPrefix(words, file[n])
                               /\ words # file[n] => Len(words) = MaxArgs + 3
    BY DEF EntriesAreLines, Loaded
  <2> DEFINE last == Len(file)
  <2>1. /\ file \in Seq(Seq(STRING)) /\ last \in Nat /\ DOMAIN file = 1..last
        /\ \A n \in 1..last : file[n] \in Seq(STRING)
    BY ContentsAssumption DEF Configured
  <2>2. Listed(file, validated, last, items)
    BY <2>1, ParseLists DEF Configured
  <2>3. GoodLines = GoodUpTo(file, validated, last)
    BY <2>1 DEF GoodLines, GoodUpTo
  <2>4. \A n \in GoodLines : Position(n) = Place(file, validated, n)
    <3>1. \A n \in GoodLines : {m \in GoodLines : m <= n} = GoodUpTo(file, validated, n)
      BY <2>1 DEF GoodLines, GoodUpTo
    <3> QED BY <3>1 DEF Position, Place
  <2>5. Len(items) = Min({MaxExec, Cardinality(GoodLines)})
    <3>1. Cardinality(GoodLines) = Place(file, validated, last)
      BY <2>3 DEF Place
    <3>2. Cardinality(GoodLines) \in Nat
      <4>1. IsFiniteSet(1..last) /\ GoodLines \in SUBSET (1..last)
        BY <2>1, FS_Interval DEF GoodLines
      <4> QED BY <4>1, FS_Subset, FS_CardinalityType
    <3> QED BY <2>2, <3>1, <3>2, MinOfTwo, LimitsAssumption DEF Listed
  <2>6. ASSUME NEW n \in GoodLines, Position(n) <= MaxExec
        PROVE  items[Position(n)] = EntryOf(file[n])
    BY <2>2, <2>3, <2>4, <2>6 DEF Listed
  <2>7. \A n \in GoodLines : file[n] \in Seq(STRING) /\ Len(file[n]) >= 3
    BY <2>1 DEF GoodLines, Accepted
  <2> QED BY <2>5, <2>6, <2>7, EntryKeepsWords
<1> QED BY <1>1, ConfiguredAlways, PTL

-----------------------------------------------------------------------------
(* The entry of a child was valid on the disk that parse() looked at.      *)
LEMMA EntryIsValid ==
  ASSUME Configured, pc \in {"child", "open_in", "open_out", "exec", "running", "dead"}
  PROVE  Valid(entry, validated)
<1>1. Len(file) \in Nat /\ Loaded
  BY ContentsAssumption DEF Configured, Loaded
<1>2. items \in Seq(ItemsOf(file, validated, Len(file)))
  BY <1>1, ParseLists DEF Configured, Listed
<1>3. entry \in ItemsOf(file, validated, Len(file))
  BY <1>2 DEF Configured
<1> QED BY <1>3 DEF ItemsOf, GoodUpTo, Accepted

(* As long as the disk is as validation saw it, neither open() of a child  *)
(* fails, unless the output file does not exist yet.                       *)
THEOREM ValidatedFilesOpenHolds == Spec => ValidatedFilesOpen
<1> DEFINE Opens ==
      (pc \in {"open_in", "open_out"} /\ pc' = "dead") =>
        (disk # validated \/ (pc = "open_out" /\ entry.out \notin disk.existing))
<1>1. Configured /\ [Next]_vars => [Opens]_vars
  <2> SUFFICES ASSUME Configured, Next, pc \in {"open_in", "open_out"}, pc' = "dead",
                      disk = validated
               PROVE  pc = "open_out" /\ entry.out \notin disk.existing
    OBVIOUS
  <2>1. Valid(entry, disk)
    BY EntryIsValid
  <2>2. CASE OpenIn
    BY <2>1, <2>2 DEF OpenIn, Valid
  <2>3. CASE OpenOut
    BY <2>1, <2>3 DEF OpenOut, Valid
  <2>4. OpenIn \/ OpenOut
    BY DEF Next, Step, Demonize, OpenLog, StartUpFails, LoadConfig, StartEntry, Restart,
           Fork, RedirectLog, Exec, ProgramEnds, DiskChanges
  <2> QED BY <2>2, <2>3, <2>4
<1>2. Spec => [][Opens]_vars
  BY <1>1, ConfiguredAlways, PTL DEF Spec
<1> QED BY <1>2 DEF ValidatedFilesOpen

-----------------------------------------------------------------------------
(* A table of descriptors of which 3 and more are closed.                  *)
Table(f, zero, one, two) ==
  /\ f = [d \in Fds |-> f[d]]
  /\ f[0] = zero /\ f[1] = one /\ f[2] = two
  /\ \A d \in Fds \ {0, 1, 2} : f[d] = Closed
Log == Open("log", "a")

(* Descriptors 0 to 3 exist.                                               *)
LEMMA StandardFds == {0, 1, 2, 3} \subseteq Fds /\ Fds \in SUBSET Nat
BY FdAssumption DEF Fds

(* open() takes the lowest descriptor.                                     *)
LEMMA LowestIsFree ==
  ASSUME NEW f, NEW zero, NEW one, NEW two, Table(f, zero, one, two)
  PROVE  /\ zero = Closed => Lowest(f) = 0
         /\ zero # Closed /\ one = Closed => Lowest(f) = 1
<1> DEFINE S == {d \in DOMAIN f : f[d] = Closed}
<1>1. DOMAIN f = Fds /\ f[3] = Closed
  BY StandardFds DEF Table
<1>2. S \in SUBSET Nat /\ S # {} /\ Lowest(f) = Min(S)
  BY <1>1, StandardFds DEF Lowest
<1>3. /\ zero = Closed => 0 \in S
      /\ zero # Closed => 0 \notin S
      /\ one = Closed => 1 \in S
  BY <1>1, StandardFds DEF Table
<1> HIDE DEF S
<1>4. Min(S) \in S /\ Min(S) \in Nat /\ \A k \in S : Min(S) <= k
  BY <1>2, MinIsLeast
<1>5. ASSUME zero = Closed
      PROVE  Min(S) = 0
  BY <1>3, <1>4, <1>5
<1>6. ASSUME zero # Closed, one = Closed
      PROVE  Min(S) = 1
  BY <1>3, <1>4, <1>6
<1> QED BY <1>2, <1>5, <1>6

(* One of the standard descriptors changes.                                *)
LEMMA OneChanges ==
  ASSUME NEW f, NEW zero, NEW one, NEW two, Table(f, zero, one, two), NEW what
  PROVE  /\ Table([f EXCEPT ![0] = what], what, one, two)
         /\ Table([f EXCEPT ![1] = what], zero, what, two)
         /\ Table([f EXCEPT ![2] = what], zero, one, what)
<1>1. /\ DOMAIN f = Fds /\ f[0] = zero /\ f[1] = one /\ f[2] = two
      /\ \A d \in Fds \ {0, 1, 2} : f[d] = Closed
  BY DEF Table
<1>2. ASSUME NEW k \in {0, 1, 2}, NEW g, g = [f EXCEPT ![k] = what]
      PROVE  /\ g = [d \in Fds |-> g[d]]
             /\ \A d \in Fds : g[d] = IF d = k THEN what ELSE f[d]
  BY <1>1, <1>2, StandardFds
<1>3. ASSUME NEW k \in {0, 1, 2}, NEW g, g = [f EXCEPT ![k] = what]
      PROVE  Table(g, IF k = 0 THEN what ELSE zero, IF k = 1 THEN what ELSE one,
                   IF k = 2 THEN what ELSE two)
  BY <1>1, <1>2, <1>3, StandardFds DEF Table
<1> HIDE DEF Table
<1>4. Table([f EXCEPT ![0] = what], what, one, two)
  BY <1>3
<1>5. Table([f EXCEPT ![1] = what], zero, what, two)
  BY <1>3
<1>6. Table([f EXCEPT ![2] = what], zero, one, what)
  BY <1>3
<1> QED BY <1>4, <1>5, <1>6

(* The input takes descriptor 1, is copied to 0, and 1 is free again.      *)
LEMMA InputMoves ==
  ASSUME NEW f, NEW what, Table(f, Log, Closed, Log)
  PROVE  Table(Moved(f, 0, what), what, Closed, Log)
<1>1. Lowest(f) = 1
  BY LowestIsFree DEF Log, Open, Closed
<1> DEFINE f1 == [f EXCEPT ![1] = what]
           f2 == [f1 EXCEPT ![0] = f1[1]]
           f3 == [f2 EXCEPT ![1] = Closed]
<1>2. Moved(f, 0, what) = f3
  BY <1>1 DEF Moved, Opened, Dup2, Close
<1>3. Table(f1, Log, what, Log)
  BY OneChanges
<1> HIDE DEF f1
<1>4. f1[1] = what
  BY <1>3 DEF Table
<1>5. Table(f2, what, what, Log)
  BY <1>3, <1>4, OneChanges
<1> HIDE DEF f2
<1>6. Table(f3, what, Closed, Log)
  BY <1>5, OneChanges
<1> QED BY <1>2, <1>6

(* The output takes descriptor 1, and stays there.                         *)
LEMMA OutputMoves ==
  ASSUME NEW f, NEW in, NEW what, in # Closed, Table(f, in, Closed, Log)
  PROVE  Table(Moved(f, 1, what), in, what, Log)
<1>1. Lowest(f) = 1
  BY LowestIsFree
<1> DEFINE f1 == [f EXCEPT ![1] = what]
           f2 == [f1 EXCEPT ![1] = f1[1]]
<1>2. Moved(f, 1, what) = f2
  BY <1>1 DEF Moved, Opened, Dup2
<1>3. Table(f1, in, what, Log)
  BY OneChanges
<1> HIDE DEF f1
<1>4. f1[1] = what
  BY <1>3 DEF Table
<1>5. Table(f2, in, what, Log)
  BY <1>3, <1>4, OneChanges
<1> QED BY <1>2, <1>5

(* What is behind the descriptors at each step of start_child_process.     *)
Descriptors ==
  /\ pc = "demon" => Table(parent, Closed, Closed, Closed)
  /\ pc = "config" \/ Loaded => Table(parent, Log, Closed, Closed) /\ logFd = 0
  /\ pc = "child" => Table(fds, Log, Closed, Closed)
  /\ pc = "open_in" => Table(fds, Log, Closed, Log)
  /\ pc = "open_out" => Table(fds, Open(entry.in, "r"), Closed, Log)
  /\ pc \in {"exec", "running"} =>
       Table(fds, Open(entry.in, "r"), Open(entry.out, "w"), Log)

LEMMA DescriptorsAlways == Spec => []Descriptors
<1>1. Init => Descriptors
  BY DEF Init, Descriptors, Loaded
<1>2. Descriptors /\ [Next]_vars => Descriptors'
  <2> SUFFICES ASSUME Descriptors, [Next]_vars
               PROVE  Descriptors'
    OBVIOUS
  <2> USE DEF Descriptors, Loaded, mainVars
  <2>1. CASE Demonize
    <3>1. Table([d \in Fds |-> Closed], Closed, Closed, Closed)
      BY StandardFds DEF Table
    <3> QED BY <2>1, <3>1 DEF Demonize
  <2>2. CASE OpenLog
    <3>1. Lowest(parent) = 0
      BY <2>2, LowestIsFree DEF OpenLog
    <3>2. Table([parent EXCEPT ![0] = Log], Log, Closed, Closed)
      BY <2>2, OneChanges DEF OpenLog
    <3> QED BY <2>2, <3>1, <3>2 DEF OpenLog, Opened, Log
  <2>3. CASE StartUpFails \/ LoadConfig
    BY <2>3 DEF StartUpFails, LoadConfig
  <2>4. CASE StartEntry \/ Restart
    BY <2>4 DEF StartEntry, Restart, Fork
  <2>5. CASE RedirectLog
    <3>1. fds' = [fds EXCEPT ![2] = fds[0]]
      BY <2>5 DEF RedirectLog, Dup2
    <3>2. fds[0] = Log
      BY <2>5 DEF RedirectLog, Table
    <3>3. Table([fds EXCEPT ![2] = Log], Log, Closed, Log)
      BY <2>5, OneChanges DEF RedirectLog
    <3> QED BY <2>5, <3>1, <3>2, <3>3 DEF RedirectLog
  <2>6. CASE OpenIn
    BY <2>6, InputMoves DEF OpenIn, Exits
  <2>7. CASE OpenOut
    <3>1. Open(entry.in, "r") # Closed
      BY DEF Open, Closed
    <3> QED BY <2>7, <3>1, OutputMoves DEF OpenOut, Exits
  <2>8. CASE Exec \/ ProgramEnds
    BY <2>8 DEF Exec, ProgramEnds, Exits
  <2>9. CASE DiskChanges \/ UNCHANGED vars
    BY <2>9 DEF DiskChanges, vars
  <2> QED BY <2>1, <2>2, <2>3, <2>4, <2>5, <2>6, <2>7, <2>8, <2>9 DEF Next, Step
<1> QED BY <1>1, <1>2, PTL DEF Spec

(* Whatever descriptors myinit inherited, and however many there are, a    *)
(* program finds its input as 0, its output as 1, the log as 2, and        *)
(* nothing else open.                                                      *)
THEOREM StdioAsConfiguredHolds == Spec => []StdioAsConfigured
<1>1. Descriptors => StdioAsConfigured
  <2> SUFFICES ASSUME Descriptors, pc = "running"
               PROVE  fds = [d \in Fds |->
                               CASE d = 0 -> Open(entry.in, "r")
                                 [] d = 1 -> Open(entry.out, "w")
                                 [] d = 2 -> Open("log", "a")
                                 [] OTHER -> Closed]
    BY DEF StdioAsConfigured
  <2>1. Table(fds, Open(entry.in, "r"), Open(entry.out, "w"), Log)
    BY DEF Descriptors
  <2> QED BY <2>1, StandardFds DEF Table, Log
<1> QED BY <1>1, DescriptorsAlways, PTL

(* No message of the logger gets into a file of the children: log_fd is    *)
(* the log until descriptor 0 is the input, which cannot be written.       *)
THEOREM MessagesStayOutOfDataHolds == Spec => []MessagesStayOutOfData
<1>1. Init => MessagesStayOutOfData
  BY DEF Init, MessagesStayOutOfData
<1>2. MessagesStayOutOfData /\ Descriptors /\ [Next]_vars => MessagesStayOutOfData'
  <2> SUFFICES ASSUME MessagesStayOutOfData, Descriptors, [Next]_vars
               PROVE  MessagesStayOutOfData'
    OBVIOUS
  <2> USE DEF MessagesStayOutOfData
  <2>1. CASE OpenIn
    <3>1. messages' = messages \/ messages' = messages \cup {<<"input", "log">>}
      BY <2>1, StandardFds DEF OpenIn, Descriptors, Loaded, LogFailure, Table, Log, Open
    <3> QED BY <3>1
  <2>2. ASSUME OpenOut \/ Exec
        PROVE  MessagesStayOutOfData'
    <3>1. fds[logFd][2] = "r"
      BY <2>2 DEF OpenOut, Exec, Descriptors, Loaded, Table, Open
    <3>2. \/ messages' = messages
          \/ \E kind \in {"output", "exec"} : messages' = messages \cup {<<kind, "nowhere">>}
      BY <2>2, <3>1 DEF OpenOut, Exec, LogFailure
    <3> QED BY <3>2
  <2>3. CASE UNCHANGED messages
    BY <2>3
  <2>4. OpenIn \/ OpenOut \/ Exec \/ UNCHANGED messages
    BY DEF Next, Step, Demonize, OpenLog, StartUpFails, LoadConfig, StartEntry, Restart,
           RedirectLog, ProgramEnds, DiskChanges, vars
  <2> QED BY <2>1, <2>2, <2>3, <2>4
<1> QED BY <1>1, <1>2, DescriptorsAlways, PTL DEF Spec
=============================================================================
