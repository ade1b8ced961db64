---------------------------- MODULE UploadProofs ----------------------------
(***************************************************************************)
(* What the loop of findHeaderRow computes, for every sheet and every list *)
(* of wanted columns.  The loop is the recursive function in Scan; the     *)
(* proof gives a function that says outright which row is the best one     *)
(* after i rows, the first of those with the highest score (BestAfter),    *)
(* shows that it meets the equation of the loop (LoopEquation), and that   *)
(* nothing else does (LoopIsUnique).                                       *)
(***************************************************************************)
EXTENDS Upload, FiniteSetTheorems, WellFoundedInduction, TLAPS

LEMMA Least ==
  ASSUME NEW T, T \subseteq Nat, T # {}
  PROVE  \E x \in T : \A y \in T : x <= y
<1>1. PICK x \in T : \A y \in T : ~(<<y, x>> \in OpToRel(<, Nat))
  BY NatLessThanWellFounded, WFMin
<1>2. \A y \in T : ~(y < x)
  BY <1>1 DEF OpToRel
<1> QED BY <1>2

LEMMA Greatest ==
  ASSUME NEW T, NEW n \in Nat, T \subseteq 0..n, T # {}
  PROVE  \E x \in T : \A y \in T : y <= x
<1> DEFINE U == {n - t : t \in T}
<1>1. U \subseteq Nat
  <2>1. \A t \in T : n - t \in Nat
    OBVIOUS
  <2> QED BY <2>1
<1>2. U # {}
  OBVIOUS
<1>3. PICK x \in U : \A y \in U : x <= y
  BY <1>1, <1>2, Least
<1>4. PICK z \in T : x = n - z
  BY <1>3
<1>5. ASSUME NEW y \in T PROVE y <= z
  <2>1. n - y \in U
    OBVIOUS
  <2>2. x <= n - y
    BY <1>3, <2>1
  <2> QED BY <1>4, <2>2
<1> QED BY <1>5

(* A row scores at most as many columns as are wanted, and as many as that *)
(* only when it has them all.                                              *)
LEMMA ScoreIs ==
  ASSUME NEW row, NEW want, Len(want) \in Nat
  PROVE  /\ Score(row, want) \in 0..Len(want)
         /\ Score(row, want) = Len(want) <=>
              \A k \in Indices(want) : ColumnsOf(row, want[k]) # {}
<1> DEFINE all == 1..Len(want)
           got == {k \in all : ColumnsOf(row, want[k]) # {}}
<1>1. IsFiniteSet(all) /\ Cardinality(all) = Len(want)
  BY FS_Interval
<1>2. got \in SUBSET all
  OBVIOUS
<1>3. /\ IsFiniteSet(got) /\ Cardinality(got) <= Cardinality(all)
      /\ Cardinality(got) = Cardinality(all) => got = all
  BY <1>1, <1>2, FS_Subset
<1>4. Cardinality(got) \in Nat
  BY <1>3, FS_CardinalityType
<1>5. Score(row, want) = Cardinality(got)
  BY DEF Score, Indices
<1>6. (\A k \in all : ColumnsOf(row, want[k]) # {}) <=> got = all
  OBVIOUS
<1> HIDE DEF got, all
<1>7. Score(row, want) \in 0..Len(want) /\ (Score(row, want) = Len(want) <=> got = all)
  BY <1>1, <1>3, <1>4, <1>5
<1> QED BY <1>6, <1>7 DEF all, Indices

-----------------------------------------------------------------------------
(* Row j is the first of those among the first i with the highest score.   *)
Leads(rows, want, i, j) ==
  /\ j \in 1..i
  /\ \A k \in 1..i : Score(rows[k], want) <= Score(rows[j], want)
  /\ \A k \in 1..(j - 1) : Score(rows[k], want) < Score(rows[j], want)

Leader(rows, want, i) == CHOOSE j \in Nat : Leads(rows, want, i, j)

LEMMA OneLeader ==
  ASSUME NEW rows, NEW want, Len(want) \in Nat, NEW i \in Nat,
         NEW j \in Nat, Leads(rows, want, i, j)
  PROVE  Leader(rows, want, i) = j
<1>1. ASSUME NEW h \in Nat, Leads(rows, want, i, h) PROVE h = j
  <2>1. Score(rows[h], want) \in Nat /\ Score(rows[j], want) \in Nat
    BY ScoreIs
  <2>2. h \in 1..i /\ j \in 1..i
    BY <1>1 DEF Leads
  <2>3. /\ Score(rows[h], want) <= Score(rows[j], want)
        /\ Score(rows[j], want) <= Score(rows[h], want)
    BY <1>1, <2>2 DEF Leads
  <2>4. ~(h < j)
    <3>1. h \in 1..(j - 1) => Score(rows[h], want) < Score(rows[j], want)
      BY DEF Leads
    <3> QED BY <2>1, <2>2, <2>3, <3>1
  <2>5. ~(j < h)
    <3>1. j \in 1..(h - 1) => Score(rows[j], want) < Score(rows[h], want)
      BY <1>1 DEF Leads
    <3> QED BY <2>1, <2>2, <2>3, <3>1
  <2> QED BY <2>2, <2>4, <2>5
<1> QED BY <1>1 DEF Leader

(* Row i takes the lead only if it scores more than the leader before it.  *)
LEMMA NextLeader ==
  ASSUME NEW rows, NEW want, Len(want) \in Nat, NEW i \in Nat, i > 1,
         NEW j \in Nat, Leads(rows, want, i - 1, j)
  PROVE  Leads(rows, want, i, IF Score(rows[i], want) > Score(rows[j], want) THEN i ELSE j)
<1> DEFINE S(k) == Score(rows[k], want)
<1>1. \A k : S(k) \in Nat
  BY ScoreIs
<1>2. /\ j \in 1..(i - 1)
      /\ \A k \in 1..(i - 1) : S(k) <= S(j)
      /\ \A k \in 1..(j - 1) : S(k) < S(j)
  BY DEF Leads
<1> HIDE DEF S
<1>3. CASE S(i) > S(j)
  <2>1. ASSUME NEW k \in 1..(i - 1) PROVE S(k) < S(i)
    <3>1. S(k) <= S(j)
      BY <1>2
    <3> QED BY <1>1, <1>3, <3>1
  <2>2. \A k \in 1..i : k = i \/ k \in 1..(i - 1)
    OBVIOUS
  <2>3. \A k \in 1..i : S(k) <= S(i)
    BY <1>1, <2>1, <2>2
  <2>4. Leads(rows, want, i, i)
    BY <2>1, <2>3 DEF Leads, S
  <2> QED BY <1>3, <2>4 DEF S
<1>4. CASE ~(S(i) > S(j))
  <2>1. S(i) <= S(j)
    BY <1>1, <1>4
  <2>2. \A k \in 1..i : k = i \/ k \in 1..(i - 1)
    OBVIOUS
  <2>3. \A k \in 1..i : S(k) <= S(j)
    BY <1>2, <2>1, <2>2
  <2>4. j \in 1..i
    BY <1>2
  <2>5. Leads(rows, want, i, j)
    BY <1>2, <2>3, <2>4 DEF Leads, S
  <2> QED BY <1>4, <2>5 DEF S
<1> QED BY <1>3, <1>4

LEMMA SomeLeader ==
  ASSUME NEW rows, NEW want, Len(want) \in Nat, NEW i \in Nat, i > 0
  PROVE  \E j \in Nat : Leads(rows, want, i, j)
<1> DEFINE S(k) == Score(rows[k], want)
<1>1. \A k : S(k) \in 0..Len(want)
  BY ScoreIs
<1> DEFINE scores == {S(k) : k \in 1..i}
<1>2. scores \subseteq 0..Len(want)
  BY <1>1
<1>3. scores # {}
  <2>1. S(1) \in scores
    OBVIOUS
  <2> QED BY <2>1
<1>4. PICK top \in scores : \A s \in scores : s <= top
  <2> HIDE DEF scores
  <2> QED BY <1>2, <1>3, Greatest
<1> DEFINE best == {k \in 1..i : S(k) = top}
<1>5. best # {} /\ best \subseteq Nat
  BY <1>4
<1>6. PICK j \in best : \A k \in best : j <= k
  <2> HIDE DEF best
  <2> QED BY <1>5, Least
<1>7. j \in 1..i /\ S(j) = top
  BY <1>6
<1>8. \A k \in 1..i : S(k) <= S(j)
  <2>1. \A k \in 1..i : S(k) \in scores
    OBVIOUS
  <2> QED BY <1>4, <1>7, <2>1
<1>9. ASSUME NEW k \in 1..(j - 1) PROVE S(k) < S(j)
  <2>1. k \in 1..i /\ k < j
    BY <1>7
  <2>2. k \notin best
    BY <1>6, <1>7, <2>1
  <2>3. S(k) # S(j)
    BY <1>7, <2>1, <2>2
  <2>4. S(k) <= S(j) /\ S(k) \in Nat /\ S(j) \in Nat
    BY <1>1, <1>8, <2>1
  <2> HIDE DEF S
  <2> QED BY <2>3, <2>4
<1>10. Leads(rows, want, i, j)
  BY <1>7, <1>8, <1>9 DEF Leads
<1> QED BY <1>7, <1>10

LEMMA LeaderLeads ==
  ASSUME NEW rows, NEW want, Len(want) \in Nat, NEW i \in Nat, i > 0
  PROVE  /\ Leader(rows, want, i) \in Nat
         /\ Leads(rows, want, i, Leader(rows, want, i))
BY SomeLeader DEF Leader

-----------------------------------------------------------------------------
(* The state of the loop when the best row so far is j. *)
BestIs(rows, want, j) ==
  [row |-> j, score |-> Score(rows[j], want), exact |-> Score(rows[j], want) = Len(want)]

Nothing == [row |-> 0, score |-> -1, exact |-> FALSE]

BestAfter(rows, want) ==
  [i \in 0..Len(rows) |-> IF i = 0 THEN Nothing ELSE BestIs(rows, want, Leader(rows, want, i))]

(* One turn of the loop, on row i. *)
Turn(rows, want, b, i) ==
  IF ~b.exact /\ Score(rows[i], want) > b.score THEN BestIs(rows, want, i) ELSE b

IsLoop(rows, want, f) ==
  f = [i \in 0..Len(rows) |-> IF i = 0 THEN Nothing ELSE Turn(rows, want, f[i - 1], i)]

LEMMA BestIsIs ==
  ASSUME NEW rows, NEW want, NEW j
  PROVE  /\ BestIs(rows, want, j).row = j
         /\ BestIs(rows, want, j).score = Score(rows[j], want)
         /\ BestIs(rows, want, j).exact = (Score(rows[j], want) = Len(want))
BY DEF BestIs

LEMMA NothingIs == Nothing.score = -1 /\ ~Nothing.exact
BY DEF Nothing

(* One turn takes the best after i - 1 rows to the best after i.           *)
LEMMA TurnFindsBest ==
  ASSUME NEW rows, NEW want, Len(want) \in Nat, Len(rows) \in Nat,
         NEW i \in 1..Len(rows)
  PROVE  BestAfter(rows, want)[i] = Turn(rows, want, BestAfter(rows, want)[i - 1], i)
<1> DEFINE f == BestAfter(rows, want)
<1>1. f[i] = BestIs(rows, want, Leader(rows, want, i))
  BY DEF BestAfter
<1>2. CASE i = 1
  <2>1. f[i - 1] = Nothing
    BY <1>2 DEF BestAfter
  <2>2. Score(rows[i], want) \in Nat
    BY ScoreIs
  <2>3. Turn(rows, want, Nothing, i) = BestIs(rows, want, i)
    BY <2>2, NothingIs DEF Turn
  <2>4. Leads(rows, want, i, i)
    <3>1. \A k \in 1..i : k = i
      BY <1>2
    <3>2. \A k \in 1..(i - 1) : FALSE
      BY <1>2
    <3> QED BY <2>2, <3>1, <3>2 DEF Leads
  <2>5. Leader(rows, want, i) = i
    BY <2>4, OneLeader
  <2> QED BY <1>1, <2>1, <2>3, <2>5
<1>3. CASE i # 1
  <2> DEFINE j == Leader(rows, want, i - 1)
  <2>1. i - 1 \in 0..Len(rows) /\ i - 1 # 0 /\ i - 1 \in Nat /\ i - 1 > 0
    BY <1>3
  <2>2. f[i - 1] = BestIs(rows, want, j)
    BY <2>1 DEF BestAfter
  <2>3. j \in Nat /\ Leads(rows, want, i - 1, j)
    BY <2>1, LeaderLeads
  <2>4. /\ Score(rows[i], want) \in 0..Len(want)
        /\ Score(rows[j], want) \in 0..Len(want)
    BY ScoreIs
  <2> HIDE DEF j
  <2>5. Leads(rows, want, i, IF Score(rows[i], want) > Score(rows[j], want) THEN i ELSE j)
    BY <1>3, <2>3, NextLeader
  <2>6. CASE Score(rows[i], want) > Score(rows[j], want)
    <3>1. Leader(rows, want, i) = i
      BY <2>5, <2>6, OneLeader
    <3>2. Score(rows[j], want) # Len(want)
      BY <2>4, <2>6
    <3>3. ~f[i - 1].exact /\ f[i - 1].score = Score(rows[j], want)
      <4>1. /\ BestIs(rows, want, j).score = Score(rows[j], want)
            /\ ~BestIs(rows, want, j).exact
        BY <3>2 DEF BestIs
      <4> QED BY <2>2, <4>1
    <3>4. Turn(rows, want, f[i - 1], i) = BestIs(rows, want, i)
      BY <2>6, <3>3 DEF Turn
    <3> QED BY <1>1, <3>1, <3>4
  <2>7. CASE ~(Score(rows[i], want) > Score(rows[j], want))
    <3>1. Leader(rows, want, i) = j
      BY <2>3, <2>5, <2>7, OneLeader
    <3>2. Turn(rows, want, f[i - 1], i) = f[i - 1]
      BY <2>2, <2>7, BestIsIs DEF Turn
    <3> QED BY <1>1, <2>2, <3>1, <3>2
  <2> QED BY <2>6, <2>7
<1> QED BY <1>2, <1>3

LEMMA LoopEquation ==
  ASSUME NEW rows, NEW want, Len(want) \in Nat, Len(rows) \in Nat
  PROVE  IsLoop(rows, want, BestAfter(rows, want))
<1> DEFINE f == BestAfter(rows, want)
           g == [i \in 0..Len(rows) |->
                   IF i = 0 THEN Nothing ELSE Turn(rows, want, f[i - 1], i)]
<1>1. f = [i \in 0..Len(rows) |-> f[i]]
  BY DEF BestAfter
<1>2. ASSUME NEW i \in 0..Len(rows) PROVE f[i] = g[i]
  <2>1. CASE i = 0
    BY <2>1 DEF BestAfter
  <2>2. CASE i # 0
    <3>1. i \in 1..Len(rows)
      BY <2>2
    <3>2. f[i] = Turn(rows, want, f[i - 1], i)
      BY <3>1, TurnFindsBest
    <3> QED BY <2>2, <3>2
  <2> QED BY <2>1, <2>2
<1> HIDE DEF f
<1>3. f = g
  BY <1>1, <1>2
<1> QED BY <1>3 DEF IsLoop, f

LEMMA LoopIsUnique ==
  ASSUME NEW rows, NEW want, Len(rows) \in Nat,
         NEW f, IsLoop(rows, want, f), NEW g, IsLoop(rows, want, g)
  PROVE  f = g
<1>1. /\ f = [i \in 0..Len(rows) |-> f[i]] /\ g = [i \in 0..Len(rows) |-> g[i]]
  BY DEF IsLoop
<1>2. ASSUME NEW i \in 0..Len(rows)
      PROVE  /\ f[i] = IF i = 0 THEN Nothing ELSE Turn(rows, want, f[i - 1], i)
             /\ g[i] = IF i = 0 THEN Nothing ELSE Turn(rows, want, g[i - 1], i)
  BY DEF IsLoop
<1> DEFINE differ == {i \in 0..Len(rows) : f[i] # g[i]}
<1>3. ASSUME differ # {} PROVE FALSE
  <2>1. differ \subseteq Nat
    OBVIOUS
  <2>2. PICK i \in differ : \A k \in differ : i <= k
    <3> HIDE DEF differ
    <3> QED BY <1>3, <2>1, Least
  <2>3. i \in 0..Len(rows) /\ f[i] # g[i]
    OBVIOUS
  <2>4. i # 0
    BY <1>2, <2>3
  <2>5. i - 1 \in 0..Len(rows) /\ ~(i <= i - 1)
    BY <2>3, <2>4
  <2>6. f[i - 1] = g[i - 1]
    BY <2>2, <2>5
  <2> QED BY <1>2, <2>3, <2>4, <2>6
<1>4. \A i \in 0..Len(rows) : f[i] = g[i]
  BY <1>3
<1> QED BY <1>1, <1>4

(* The loop of findHeaderRow ends with the first of the best rows.         *)
LEMMA ScanIs ==
  ASSUME NEW rows, NEW want, Len(want) \in Nat, Len(rows) \in Nat
  PROVE  Scan(rows, want) = BestAfter(rows, want)[Min({Len(rows), HeaderScanRows})]
<1>1. IsLoop(rows, want, BestAfter(rows, want))
  BY LoopEquation
<1>2. \E f : /\ IsLoop(rows, want, f)
             /\ Scan(rows, want) = f[Min({Len(rows), HeaderScanRows})]
  BY <1>1 DEF Scan, IsLoop, Turn, BestIs, Nothing
<1> QED BY <1>1, <1>2, LoopIsUnique

-----------------------------------------------------------------------------
(* The rows among the first that have every column that is wanted.         *)
FullRows(rows, want) ==
  {i \in 1..Min({Len(rows), HeaderScanRows}) :
     \A k \in Indices(want) : ColumnsOf(rows[i], want[k]) # {}}

LEMMA ScannedRows ==
  ASSUME NEW rows, Len(rows) \in Nat, HeaderScanRows \in Nat
  PROVE  Min({Len(rows), HeaderScanRows}) \in 0..Len(rows)
<1>1. CASE Len(rows) <= HeaderScanRows
  <2>1. \A y \in {Len(rows), HeaderScanRows} : Len(rows) <= y
    BY <1>1
  <2>2. Min({Len(rows), HeaderScanRows}) = Len(rows)
    BY <1>1, <2>1 DEF Min
  <2> QED BY <2>2
<1>2. CASE ~(Len(rows) <= HeaderScanRows)
  <2>1. Min({Len(rows), HeaderScanRows}) = HeaderScanRows
    BY <1>2 DEF Min
  <2> QED BY <1>2, <2>1
<1> QED BY <1>1, <1>2

(***************************************************************************)
(* findHeaderRow reports a row with nothing missing exactly if one of the  *)
(* rows it looks at has all the columns and there are columns to have, and *)
(* then it is the first such row (handlers.go:357-382).                    *)
(***************************************************************************)
THEOREM HeaderIsFirstFull ==
  ASSUME NEW rows, NEW want, Len(want) \in Nat, Len(rows) \in Nat, HeaderScanRows \in Nat
  PROVE  LET header == HeaderRow(rows, want)
             full == FullRows(rows, want)
         IN /\ header # 0 /\ Score(rows[header], want) = Len(want)
                 <=> Len(want) > 0 /\ full # {}
            /\ Len(want) > 0 /\ full # {} => header = Min(full)
<1> DEFINE n == Min({Len(rows), HeaderScanRows})
           header == HeaderRow(rows, want)
           full == FullRows(rows, want)
           S(k) == Score(rows[k], want)
<1>1. n \in 0..Len(rows)
  BY ScannedRows
<1>2. Scan(rows, want) = BestAfter(rows, want)[n]
  BY ScanIs
<1>3. \A k : S(k) \in 0..Len(want)
  BY ScoreIs
<1>4. full = {i \in 1..n : S(i) = Len(want)}
  <2>1. \A i : S(i) = Len(want) <=>
                 \A k \in Indices(want) : ColumnsOf(rows[i], want[k]) # {}
    BY ScoreIs
  <2> HIDE DEF n, S
  <2> QED BY <2>1 DEF FullRows, n
<1> HIDE DEF n, full
<1>5. CASE n = 0
  <2>1. full = {}
    BY <1>4, <1>5
  <2>2. Scan(rows, want).score = -1
    BY <1>1, <1>2, <1>5, NothingIs DEF BestAfter
  <2>3. header = 0
    BY <2>2 DEF HeaderRow
  <2> QED BY <2>1, <2>3 DEF full
<1>6. CASE n # 0
  <2> DEFINE j == Leader(rows, want, n)
  <2>1. n \in Nat /\ n > 0
    BY <1>1, <1>6
  <2>2. j \in Nat /\ Leads(rows, want, n, j)
    BY <2>1, LeaderLeads
  <2>3. Scan(rows, want) = BestIs(rows, want, j)
    BY <1>1, <1>2, <1>6 DEF BestAfter
  <2> HIDE DEF j
  <2>4. header = IF S(j) <= 0 THEN 0 ELSE j
    BY <2>3, BestIsIs DEF HeaderRow
  <2>5. /\ j \in 1..n
        /\ \A k \in 1..n : S(k) <= S(j)
        /\ \A k \in 1..(j - 1) : S(k) < S(j)
    BY <2>2 DEF Leads
  <2> HIDE DEF S, header
  <2>6. full # {} <=> S(j) = Len(want)
    <3>1. ASSUME NEW k \in full PROVE S(j) = Len(want)
      <4>1. k \in 1..n /\ S(k) = Len(want)
        BY <1>4
      <4> QED BY <1>3, <2>5, <4>1
    <3>2. S(j) = Len(want) => j \in full
      BY <1>4, <2>5
    <3> QED BY <3>1, <3>2
  <2>7. header # 0 /\ S(header) = Len(want) <=> Len(want) > 0 /\ full # {}
    BY <1>3, <2>4, <2>5, <2>6
  <2>8. ASSUME Len(want) > 0, full # {} PROVE header = Min(full)
    <3>1. S(j) = Len(want) /\ header = j
      BY <1>3, <2>4, <2>6, <2>8
    <3>2. j \in full
      BY <1>4, <2>5, <3>1
    <3>3. ASSUME NEW k \in full PROVE j <= k
      <4>1. k \in 1..n /\ S(k) = Len(want)
        BY <1>4
      <4>2. k \in 1..(j - 1) => FALSE
        BY <1>3, <2>5, <3>1, <4>1
      <4> QED BY <1>1, <2>5, <4>1, <4>2
    <3>4. full \subseteq Nat
      BY <1>1, <1>4
    <3>5. \A x \in full : (\A y \in full : x <= y) => x = j
      BY <3>2, <3>3, <3>4
    <3> QED BY <3>1, <3>2, <3>3, <3>5 DEF Min
  <2> QED BY <2>7, <2>8 DEF S, header, full
<1> QED BY <1>5, <1>6
=============================================================================
