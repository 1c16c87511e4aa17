------------------------------ MODULE FoldProofs ------------------------------
(***************************************************************************)
(* Proofs that nothing a setting is tested on reaches its choice.  Two     *)
(* experiments whose histories agree before a row (twins) give the same    *)
(* results on every window that ends before it: the signals that are       *)
(* generated, normalized, aligned and cut, the chunks that are simulated,  *)
(* the ranking and the passing settings, whatever the signal cache holds.  *)
(* So what a trial shortlists and locks is the same however the prices of  *)
(* its test change.  A lock is handed on exactly when its test passed, and *)
(* the folds of a fixed candidate pass together only when enough of them   *)
(* do, because a drawdown is a number and never a gain.                    *)
(***************************************************************************)
EXTENDS CalculationProofs, SequenceTheorems

-----------------------------------------------------------------------------
(* Parts of a sequence *)

\* A function on the first so many numbers is a sequence of its values.
LEMMA FunctionSequence ==
    ASSUME NEW n \in Nat, NEW f, f = [i \in 1..n |-> f[i]]
    PROVE  IsSequence(f) /\ Len(f) = n /\ DOMAIN f = 1..n
<1>1. DOMAIN f = 1..n
  OBVIOUS
<1>2. f \in [1..n -> Range(f)]
  BY <1>1 DEF Range
<1> QED
  BY <1>1, <1>2 DEF IsSequence

\* The first so many numbers are as many.
LEMMA NumberOfRows ==
    ASSUME NEW n \in Nat
    PROVE  Cardinality(1..n) = n
<1>1. Cardinality(1..n) = IF 1 > n THEN 0 ELSE n - 1 + 1
  BY FS_Interval
<1> QED
  BY <1>1

\* The rows of a sequence.
LEMMA SequenceRows ==
    ASSUME NEW s, IsSequence(s)
    PROVE  /\ Len(s) \in Nat /\ DOMAIN s = 1..Len(s) /\ IsFiniteSet(DOMAIN s)
           /\ \A i \in DOMAIN s : s[i] \in Range(s)
<1>1. Len(s) \in Nat /\ DOMAIN s = 1..Len(s)
  BY DEF IsSequence
<1> QED
  BY <1>1, FS_Interval DEF Range

\* What is picked of a sequence are the elements at the positions, each in its place.
LEMMA PickedElements ==
    ASSUME NEW s, IsSequence(s), NEW S \in SUBSET (DOMAIN s)
    PROVE  /\ IsSequence(Picked(s, S)) /\ Cardinality(S) \in Nat
           /\ Len(Picked(s, S)) = Cardinality(S) /\ DOMAIN Picked(s, S) = 1..Cardinality(S)
           /\ \A i \in 1..Cardinality(S) :
                  Ascending(S)[i] \in S /\ Picked(s, S)[i] = s[Ascending(S)[i]]
           /\ \A j \in S : \E i \in 1..Cardinality(S) : Picked(s, S)[i] = s[j]
<1>1. IsFiniteSet(S) /\ S \in SUBSET Int
  <2>1. DOMAIN s = 1..Len(s) /\ Len(s) \in Nat /\ IsFiniteSet(DOMAIN s)
    BY SequenceRows
  <2> QED
    BY <2>1, FS_Subset
<1>2. /\ Cardinality(S) \in Nat
      /\ Picked(s, S) = [i \in 1..Cardinality(S) |-> s[Ascending(S)[i]]]
  BY <1>1, PickedRows
<1>3. /\ \A k \in 1..Cardinality(S) : Ascending(S)[k] \in S
      /\ \A x \in S : \E k \in 1..Cardinality(S) : Ascending(S)[k] = x
  BY <1>1, AscendingLists
<1>4. \A i \in 1..Cardinality(S) : Picked(s, S)[i] = s[Ascending(S)[i]]
  BY <1>2
<1>5. Picked(s, S) = [i \in 1..Cardinality(S) |-> Picked(s, S)[i]]
  BY <1>2
<1>6. /\ IsSequence(Picked(s, S)) /\ Len(Picked(s, S)) = Cardinality(S)
      /\ DOMAIN Picked(s, S) = 1..Cardinality(S)
  BY <1>2, <1>5, FunctionSequence
<1> QED
  BY <1>2, <1>3, <1>4, <1>6

\* The elements of a part of a sequence are some of its elements.
LEMMA PartOfSequence ==
    ASSUME NEW s, IsSequence(s), NEW m \in Int, NEW n \in Int, 1 <= m, n <= Len(s)
    PROVE  /\ IsSequence(SubSeq(s, m, n)) /\ Range(SubSeq(s, m, n)) \subseteq Range(s)
           /\ Len(SubSeq(s, m, n)) = IF m <= n THEN n - m + 1 ELSE 0
           /\ \A i \in 1..(n - m + 1) : SubSeq(s, m, n)[i] = s[m + i - 1]
<1> DEFINE q == SubSeq(s, m, n)
<1>1. DOMAIN s = 1..Len(s) /\ Len(s) \in Nat /\ \A i \in DOMAIN s : s[i] \in Range(s)
  BY SequenceRows
<1>2. \A i \in m..n : s[i] \in Range(s)
  BY <1>1
<1>3. /\ q \in Seq(Range(s)) /\ Len(q) = IF m <= n THEN n - m + 1 ELSE 0
      /\ \A i \in 1..(n - m + 1) : q[i] = s[m + i - 1]
  BY <1>2, SubSeqProperties
<1> HIDE DEF q
<1>4. Len(q) \in Nat /\ DOMAIN q = 1..Len(q) /\ q = [i \in 1..Len(q) |-> q[i]]
  BY <1>3
<1>5. \A i \in DOMAIN q : q[i] \in Range(s)
  BY <1>3
<1>6. Range(q) \subseteq Range(s)
  BY <1>5 DEF Range
<1>7. IsSequence(q)
  BY <1>4, FunctionSequence
<1> QED
  BY <1>3, <1>6, <1>7 DEF q

\* The length of two sequences.
LEMMA ConcatLength ==
    ASSUME NEW a, NEW b, IsSequence(a), IsSequence(b)
    PROVE  Len(a \o b) = Len(a) + Len(b)
<1> DEFINE S == Range(a)
           T == Range(b)
<1>1. a \in Seq(S) /\ b \in Seq(T)
  BY DEF IsSequence
<1> HIDE DEF S, T
<1>2. a \in Seq(S \cup T) /\ b \in Seq(S \cup T)
  BY <1>1
<1> QED
  BY <1>2

\* The lesser of two numbers.
LEMMA MinOfTwo ==
    ASSUME NEW a \in Int, NEW b \in Int
    PROVE  Min({a, b}) \in {a, b} /\ Min({a, b}) <= a /\ Min({a, b}) <= b
<1>1. \E m \in {a, b} : \A k \in {a, b} : m <= k
  <2>1. CASE a <= b
    BY <2>1
  <2>2. CASE ~(a <= b)
    BY <2>2
  <2> QED
    BY <2>1, <2>2
<1>2. Min({a, b}) \in {a, b} /\ \A k \in {a, b} : Min({a, b}) <= k
  BY <1>1, Zenon DEF Min
<1> QED
  BY <1>2

-----------------------------------------------------------------------------
(* Turns of a loop *)

\* What one turn of a loop makes of its state: a fold after the others, a chunk of a sweep,
\* a row of a ranking.
Turn(loop, a, b, c, k, u) ==
    CASE loop = "folds" -> NextTrial(a, b, c[k], u)
      [] loop = "chunks" ->
             IF (k - 1) % c = 0
             THEN SimulateChunk(a, SubSeq(b, k, Min({k + c - 1, Len(b)})), u) ELSE u
      [] loop = "ranks" ->
             InsertAt(u, Cardinality(Where(u, LAMBDA r : ~RanksBefore(a[k], r, b))) + 1, a[k])

\* The states of a loop, one after the other.
AreTurns(f, loop, a, b, c, start, n) ==
    /\ f = [k \in 0..n |-> f[k]] /\ f[0] = start
    /\ \A k \in 1..n : f[k] = Turn(loop, a, b, c, k, f[k - 1])

\* A loop has as many states as it has turns.
LEMMA TurnsExist ==
    ASSUME NEW loop, NEW a, NEW b, NEW c, NEW start, NEW n \in Nat
    PROVE  \E f : AreTurns(f, loop, a, b, c, start, n)
<1> DEFINE A == {m \in Nat : \E f : AreTurns(f, loop, a, b, c, start, m)}
<1>1. 0 \in A
  <2>1. AreTurns([k \in 0..0 |-> start], loop, a, b, c, start, 0)
    BY DEF AreTurns
  <2> QED
    BY <2>1
<1>2. ASSUME NEW m \in Nat, m \in A PROVE m + 1 \in A
  <2>1. PICK f : AreTurns(f, loop, a, b, c, start, m)
    BY <1>2
  <2> DEFINE last == Turn(loop, a, b, c, m + 1, f[m])
             g == [k \in 0..(m + 1) |-> IF k = m + 1 THEN last ELSE f[k]]
  <2> HIDE DEF last
  <2>2. g[0] = start
    BY <2>1 DEF AreTurns
  <2>3. \A k \in 1..(m + 1) : g[k - 1] = f[k - 1]
    OBVIOUS
  <2>4. \A k \in 1..m : g[k] = f[k]
    OBVIOUS
  <2>5. g[m + 1] = last /\ g = [k \in 0..(m + 1) |-> g[k]]
    OBVIOUS
  <2> HIDE DEF g
  <2>6. ASSUME NEW k \in 1..(m + 1) PROVE g[k] = Turn(loop, a, b, c, k, g[k - 1])
    <3>1. CASE k = m + 1
      <4>1. m + 1 - 1 = m /\ g[m + 1 - 1] = f[m + 1 - 1]
        BY <2>3
      <4> QED
        BY <2>5, <3>1, <4>1 DEF last
    <3>2. CASE k # m + 1
      <4>1. k \in 1..m
        BY <3>2
      <4>2. f[k] = Turn(loop, a, b, c, k, f[k - 1])
        BY <2>1, <4>1 DEF AreTurns
      <4> QED
        BY <2>3, <2>4, <4>1, <4>2
    <3> QED
      BY <3>1, <3>2
  <2>7. AreTurns(g, loop, a, b, c, start, m + 1)
    BY <2>2, <2>5, <2>6 DEF AreTurns
  <2> QED
    BY <2>7
<1> HIDE DEF A
<1>3. n \in A
  BY <1>1, <1>2, SetInduction
<1> QED
  BY <1>3 DEF A

\* The states of the three loops, by their recursion.
AreFolds(f, x, c, w, n) ==
    f = [k \in 0..n |->
            IF k = 0 THEN [raised |-> {}, cache |-> NewSignalCache, folds |-> <<>>]
            ELSE NextTrial(x, c, w[k], f[k - 1])]

\* The states of a sweep, by its recursion.
AreChunks(f, x, s, size, n) ==
    f = [k \in 0..n |->
            IF k = 0 THEN [blocked |-> {}, results |-> <<>>, cache |-> x.cache]
            ELSE IF (k - 1) % size = 0
            THEN SimulateChunk(x, SubSeq(s, k, Min({k + size - 1, Len(s)})), f[k - 1])
            ELSE f[k - 1]]

\* The rankings of more and more rows, by their recursion.
AreRanks(f, rows, key, n) ==
    f = [k \in 0..n |->
            IF k = 0 THEN <<>>
            ELSE InsertAt(f[k - 1], Cardinality(Where(f[k - 1],
                             LAMBDA r : ~RanksBefore(rows[k], r, key))) + 1, rows[k])]

\* The states of a loop are what its recursion asks for.
LEMMA TurnsRecur ==
    ASSUME NEW f, NEW loop, NEW a, NEW b, NEW c, NEW start, NEW n \in Nat,
           f = [k \in 0..n |-> IF k = 0 THEN start ELSE Turn(loop, a, b, c, k, f[k - 1])]
    PROVE  AreTurns(f, loop, a, b, c, start, n)
<1> DEFINE E(k) == IF k = 0 THEN start ELSE Turn(loop, a, b, c, k, f[k - 1])
<1>1. f = [k \in 0..n |-> E(k)]
  OBVIOUS
<1> HIDE DEF E
<1>2. \A k \in 0..n : f[k] = E(k)
  BY <1>1
<1>3. f = [k \in 0..n |-> f[k]]
  BY <1>1
<1>4. 0 \in 0..n /\ \A k \in 1..n : k \in 0..n /\ k # 0
  OBVIOUS
<1>5. f[0] = start
  BY <1>2, <1>4 DEF E
<1>6. \A k \in 1..n : f[k] = Turn(loop, a, b, c, k, f[k - 1])
  BY <1>2, <1>4 DEF E
<1> QED
  BY <1>3, <1>5, <1>6 DEF AreTurns

\* The turns are what the recursion says of them.
LEMMA RecursionTurns ==
    ASSUME NEW f, NEW loop, NEW a, NEW b, NEW c, NEW start, NEW n \in Nat,
           AreTurns(f, loop, a, b, c, start, n)
    PROVE  f = [k \in 0..n |-> IF k = 0 THEN start ELSE Turn(loop, a, b, c, k, f[k - 1])]
<1>1. f = [k \in 0..n |-> f[k]] /\ f[0] = start
      /\ \A k \in 1..n : f[k] = Turn(loop, a, b, c, k, f[k - 1])
  BY DEF AreTurns
<1>2. \A k \in 0..n : f[k] = IF k = 0 THEN start ELSE Turn(loop, a, b, c, k, f[k - 1])
  <2> TAKE k \in 0..n
  <2>1. k = 0 \/ k \in 1..n
    OBVIOUS
  <2> QED
    BY <1>1, <2>1
<1> QED
  BY <1>1, <1>2

\* The folds of a walk-forward run are tried one after the other.
LEMMA FoldsInTurn ==
    ASSUME NEW x, NEW c, NEW w, Len(w) \in Nat
    PROVE  \E f : /\ AreTurns(f, "folds", x, c, w,
                              [raised |-> {}, cache |-> NewSignalCache, folds |-> <<>>], Len(w))
                  /\ FoldTrials(x, c, w) = f[Len(w)]
<1> DEFINE n == Len(w)
           start == [raised |-> {}, cache |-> NewSignalCache, folds |-> <<>>]
           f == CHOOSE f : AreFolds(f, x, c, w, n)
<1>1. \A k, u : Turn("folds", x, c, w, k, u) = NextTrial(x, c, w[k], u)
  BY DEF Turn
<1>2. \E g : AreFolds(g, x, c, w, n)
  <2>1. PICK g : AreTurns(g, "folds", x, c, w, start, n)
    BY TurnsExist
  <2>2. g = [k \in 0..n |-> IF k = 0 THEN start ELSE Turn("folds", x, c, w, k, g[k - 1])]
    BY <2>1, RecursionTurns
  <2> QED
    BY <1>1, <2>2 DEF AreFolds
<1>3. AreFolds(f, x, c, w, n)
  BY <1>2
<1>4. FoldTrials(x, c, w) = f[n]
  BY DEF FoldTrials, AreFolds
<1> HIDE DEF f, n, start
<1>5. f = [k \in 0..n |-> IF k = 0 THEN start ELSE Turn("folds", x, c, w, k, f[k - 1])]
  BY <1>1, <1>3 DEF AreFolds, start
<1>6. AreTurns(f, "folds", x, c, w, start, n)
  BY <1>5, TurnsRecur DEF n
<1> QED
  BY <1>4, <1>6 DEF n, start

\* The size of a chunk of a sweep.
ChunkSize(x, settings) ==
    IF x.size /= Null THEN x.size
    ELSE ChunkSettingsFor(Len(x.data.bars), Len(settings), x.memory)

\* So are the chunks of a sweep.
LEMMA ChunksInTurn ==
    ASSUME NEW x, NEW s, Len(s) \in Nat
    PROVE  \E f : /\ AreTurns(f, "chunks", x, s, ChunkSize(x, s),
                              [blocked |-> {}, results |-> <<>>, cache |-> x.cache], Len(s))
                  /\ SimulateInChunks(x, s) = f[Len(s)]
<1> DEFINE n == Len(s)
           size == ChunkSize(x, s)
           start == [blocked |-> {}, results |-> <<>>, cache |-> x.cache]
           f == CHOOSE f : AreChunks(f, x, s, size, n)
<1>1. \A k, u : Turn("chunks", x, s, size, k, u) =
           IF (k - 1) % size = 0
           THEN SimulateChunk(x, SubSeq(s, k, Min({k + size - 1, Len(s)})), u) ELSE u
  BY DEF Turn
<1>2. \E g : AreChunks(g, x, s, size, n)
  <2>1. PICK g : AreTurns(g, "chunks", x, s, size, start, n)
    BY TurnsExist
  <2>2. g = [k \in 0..n |-> IF k = 0 THEN start ELSE Turn("chunks", x, s, size, k, g[k - 1])]
    BY <2>1, RecursionTurns
  <2> HIDE DEF size, start, n
  <2>3. ASSUME NEW k \in 0..n
        PROVE  (IF k = 0 THEN start ELSE Turn("chunks", x, s, size, k, g[k - 1]))
                 = (IF k = 0 THEN start
                    ELSE IF (k - 1) % size = 0
                    THEN SimulateChunk(x, SubSeq(s, k, Min({k + size - 1, Len(s)})), g[k - 1])
                    ELSE g[k - 1])
    BY <1>1, Zenon
  <2>4. g = [k \in 0..n |->
                IF k = 0 THEN start
                ELSE IF (k - 1) % size = 0
                THEN SimulateChunk(x, SubSeq(s, k, Min({k + size - 1, Len(s)})), g[k - 1])
                ELSE g[k - 1]]
    BY <2>2, <2>3, Zenon
  <2>5. AreChunks(g, x, s, size, n)
    BY <2>4, Zenon DEF AreChunks, start
  <2> QED
    BY <2>5
<1>3. AreChunks(f, x, s, size, n)
  BY <1>2
<1>4. SimulateInChunks(x, s) = f[n]
  BY DEF SimulateInChunks, AreChunks, ChunkSize
<1> HIDE DEF f, n, start, size
<1>5. f = [k \in 0..n |-> IF k = 0 THEN start ELSE Turn("chunks", x, s, size, k, f[k - 1])]
  BY <1>1, <1>3 DEF AreChunks, start
<1>6. AreTurns(f, "chunks", x, s, size, start, n)
  BY <1>5, TurnsRecur DEF n
<1> QED
  BY <1>4, <1>6 DEF n, start, size

\* And the rows of a ranking.
LEMMA RanksInTurn ==
    ASSUME NEW rows, NEW key, Len(rows) \in Nat
    PROVE  \E f : /\ AreTurns(f, "ranks", rows, key, Null, <<>>, Len(rows))
                  /\ Ranking(rows, key) = f[Len(rows)]
<1> DEFINE n == Len(rows)
           f == CHOOSE f : AreRanks(f, rows, key, n)
<1>1. \A k, u : Turn("ranks", rows, key, Null, k, u) =
           InsertAt(u, Cardinality(Where(u, LAMBDA r : ~RanksBefore(rows[k], r, key))) + 1, rows[k])
  BY DEF Turn
<1>2. \E g : AreRanks(g, rows, key, n)
  <2>1. PICK g : AreTurns(g, "ranks", rows, key, Null, <<>>, n)
    BY TurnsExist
  <2>2. g = [k \in 0..n |-> IF k = 0 THEN <<>> ELSE Turn("ranks", rows, key, Null, k, g[k - 1])]
    BY <2>1, RecursionTurns
  <2> HIDE DEF n
  <2>3. ASSUME NEW k \in 0..n
        PROVE  (IF k = 0 THEN <<>> ELSE Turn("ranks", rows, key, Null, k, g[k - 1]))
                 = (IF k = 0 THEN <<>>
                    ELSE InsertAt(g[k - 1], Cardinality(Where(g[k - 1],
                             LAMBDA r : ~RanksBefore(rows[k], r, key))) + 1, rows[k]))
    BY <1>1, Zenon
  <2>4. g = [k \in 0..n |->
                IF k = 0 THEN <<>>
                ELSE InsertAt(g[k - 1], Cardinality(Where(g[k - 1],
                         LAMBDA r : ~RanksBefore(rows[k], r, key))) + 1, rows[k])]
    BY <2>2, <2>3, Zenon
  <2>5. AreRanks(g, rows, key, n)
    BY <2>4, Zenon DEF AreRanks
  <2> QED
    BY <2>5
<1>3. AreRanks(f, rows, key, n)
  BY <1>2
<1>4. Ranking(rows, key) = f[n]
  BY DEF Ranking, AreRanks
<1> HIDE DEF f, n
<1>5. f = [k \in 0..n |-> IF k = 0 THEN <<>> ELSE Turn("ranks", rows, key, Null, k, f[k - 1])]
  BY <1>1, <1>3 DEF AreRanks
<1>6. AreTurns(f, "ranks", rows, key, Null, <<>>, n)
  BY <1>5, TurnsRecur DEF n
<1> QED
  BY <1>4, <1>6 DEF n

\* An element that is inserted into a sequence.
LEMMA InsertedElement ==
    ASSUME NEW q, IsSequence(q), NEW i \in 1..(Len(q) + 1), NEW e
    PROVE  LET r == InsertAt(q, i, e)
           IN  IsSequence(r) /\ Len(r) = Len(q) + 1 /\ Range(r) \subseteq Range(q) \cup {e}
<1> DEFINE a == SubSeq(q, 1, i - 1)
           b == SubSeq(q, i, Len(q))
           r == InsertAt(q, i, e)
<1>1. Len(q) \in Nat
  BY SequenceRows
<1>2. /\ IsSequence(a) /\ Range(a) \subseteq Range(q)
      /\ Len(a) = IF 1 <= i - 1 THEN (i - 1) - 1 + 1 ELSE 0
  BY <1>1, PartOfSequence
<1>3. /\ IsSequence(b) /\ Range(b) \subseteq Range(q)
      /\ Len(b) = IF i <= Len(q) THEN Len(q) - i + 1 ELSE 0
  BY <1>1, PartOfSequence
<1>4. IsSequence(<<e>>) /\ Range(<<e>>) = {e}
  <2>1. <<e>> \in Seq({e}) /\ DOMAIN <<e>> = {1} /\ <<e>>[1] = e
    OBVIOUS
  <2> QED
    BY <2>1 DEF Range, IsSequence
<1>5. r = a \o <<e>> \o b
  BY DEF InsertAt
<1> HIDE DEF a, b, r
<1>6. IsSequence(a \o <<e>>) /\ Range(a \o <<e>>) = Range(a) \cup {e}
  BY <1>2, <1>4, ConcatSequence
<1>7. IsSequence(r) /\ Range(r) = Range(a) \cup {e} \cup Range(b)
  BY <1>3, <1>5, <1>6, ConcatSequence
<1>8. Len(r) = Len(a) + 1 + Len(b)
  <2>1. Len(a \o <<e>>) = Len(a) + Len(<<e>>)
    BY <1>2, <1>4, ConcatLength
  <2>2. Len(r) = Len(a \o <<e>>) + Len(b)
    BY <1>3, <1>5, <1>6, ConcatLength
  <2>3. Len(<<e>>) = 1
    OBVIOUS
  <2> QED
    BY <2>1, <2>2, <2>3
<1>9. Len(r) = Len(q) + 1
  <2>1. Len(a) = i - 1
    BY <1>1, <1>2
  <2>2. Len(b) = Len(q) - i + 1
    BY <1>1, <1>3
  <2> QED
    BY <1>1, <1>8, <2>1, <2>2
<1>10. Range(r) \subseteq Range(q) \cup {e}
  BY <1>2, <1>3, <1>7
<1> QED
  BY <1>7, <1>9, <1>10 DEF r

\* A ranking is of the rows that it is given.
LEMMA RankedRows ==
    ASSUME NEW rows, IsSequence(rows), NEW key
    PROVE  LET r == Ranking(rows, key)
           IN  IsSequence(r) /\ Len(r) = Len(rows) /\ Range(r) \subseteq Range(rows)
<1> DEFINE n == Len(rows)
<1>1. n \in Nat /\ DOMAIN rows = 1..n /\ \A i \in DOMAIN rows : rows[i] \in Range(rows)
  BY SequenceRows
<1>2. PICK f : AreTurns(f, "ranks", rows, key, Null, <<>>, n) /\ Ranking(rows, key) = f[n]
  BY <1>1, RanksInTurn
<1> DEFINE Good(k) == IsSequence(f[k]) /\ Len(f[k]) = k /\ Range(f[k]) \subseteq Range(rows)
           A == {k \in Nat : k <= n => Good(k)}
<1> HIDE DEF n
<1>3. 0 \in A
  <2>1. f[0] = <<>>
    BY <1>2 DEF AreTurns
  <2>2. IsSequence(<<>>) /\ Len(<<>>) = 0 /\ Range(<<>>) = {}
    BY DEF IsSequence, Range
  <2> QED
    BY <2>1, <2>2
<1>4. ASSUME NEW k \in Nat, k \in A PROVE k + 1 \in A
  <2> SUFFICES ASSUME k + 1 <= n PROVE Good(k + 1)
    OBVIOUS
  <2>1. k + 1 \in 1..n /\ Good(k) /\ k + 1 - 1 = k
    BY <1>1, <1>4
  <2> DEFINE u == f[k]
             e == rows[k + 1]
             S == Where(u, LAMBDA r : ~RanksBefore(e, r, key))
  <2>2. f[k + 1] = InsertAt(u, Cardinality(S) + 1, e)
    <3>1. \A j \in 1..n : f[j] = Turn("ranks", rows, key, Null, j, f[j - 1])
      BY <1>2 DEF AreTurns
    <3>2. f[k + 1] = Turn("ranks", rows, key, Null, k + 1, u)
      BY <2>1, <3>1
    <3> QED
      BY <3>2 DEF Turn
  <2>3. S \in SUBSET (DOMAIN u)
    BY DEF Where
  <2> HIDE DEF S
  <2>4. Cardinality(S) \in 0..Len(u)
    <3>1. IsFiniteSet(DOMAIN u) /\ DOMAIN u = 1..Len(u) /\ Len(u) \in Nat
      BY <2>1, SequenceRows
    <3>2. Cardinality(S) <= Cardinality(DOMAIN u) /\ IsFiniteSet(S)
      BY <2>3, <3>1, FS_Subset
    <3>3. Cardinality(S) \in Nat
      BY <3>2, FS_CardinalityType
    <3>5. Cardinality(1..Len(u)) = Len(u)
      BY <3>1, NumberOfRows
    <3> QED
      BY <3>1, <3>2, <3>3, <3>5
  <2> DEFINE p == Cardinality(S) + 1
  <2>5. p \in 1..(Len(u) + 1)
    BY <2>1, <2>4
  <2> HIDE DEF p
  <2>6. /\ IsSequence(InsertAt(u, p, e)) /\ Len(InsertAt(u, p, e)) = Len(u) + 1
        /\ Range(InsertAt(u, p, e)) \subseteq Range(u) \cup {e}
    BY <2>1, <2>5, InsertedElement
  <2>7. e \in Range(rows)
    BY <1>1, <2>1
  <2> QED
    BY <2>1, <2>2, <2>6, <2>7 DEF p
<1>5. n \in A
  <2> HIDE DEF A
  <2> QED
    BY <1>1, <1>3, <1>4, SetInduction
<1> QED
  BY <1>1, <1>2, <1>5 DEF n

-----------------------------------------------------------------------------
(* The signal cache *)

\* A cache that holds what is generated, and has what it lists.
IsCache(cache, generate) ==
    /\ IsSequence(cache.order)
    /\ \A i \in DOMAIN cache.order : cache.order[i] \in DOMAIN cache.value
    /\ \A k \in DOMAIN cache.value : cache.value[k] = generate[k]

\* Whatever the cache holds, the signals of a chunk are those that are generated.
LEMMA SignalsAreGenerated ==
    ASSUME NEW chunk, IsSequence(chunk), NEW generate, NEW cache, IsCache(cache, generate),
           NEW budget \in Nat
    PROVE  LET r == GenerateSignalsOnce(chunk, cache, budget, generate)
           IN  /\ r.signals = [i \in DOMAIN chunk |-> generate[chunk[i]]]
               /\ IsCache(r.cache, generate)
<1> DEFINE hits == {k \in Range(chunk) : k \in DOMAIN cache.value}
           missing == Kept(chunk, LAMBDA k : k \notin hits)
           Signals(k) == IF k \in hits THEN cache.value[k] ELSE generate[k]
           old == Kept(cache.order, LAMBDA k : k \notin Range(chunk))
           again == Kept(chunk, LAMBDA k : k \in hits)
           order == old \o again \o missing
           kept == SubSeq(order, Max({1, Len(order) - budget + 1}), Len(order))
           value == [k \in Range(kept) |->
                        IF k \in Range(chunk) THEN Signals(k) ELSE cache.value[k]]
           r == GenerateSignalsOnce(chunk, cache, budget, generate)
<1>1. /\ r.signals = [i \in DOMAIN chunk |-> Signals(chunk[i])]
      /\ r.cache.order = kept /\ r.cache.value = value
  BY DEF GenerateSignalsOnce
<1>2. /\ IsSequence(cache.order)
      /\ \A i \in DOMAIN cache.order : cache.order[i] \in DOMAIN cache.value
      /\ \A k \in DOMAIN cache.value : cache.value[k] = generate[k]
  BY DEF IsCache
<1>3. \A k : Signals(k) = generate[k]
  BY <1>2
<1>4. IsSequence(old) /\ \A i \in DOMAIN old : old[i] \in DOMAIN cache.value
  <2> DEFINE S == {i \in DOMAIN cache.order : cache.order[i] \notin Range(chunk)}
  <2>1. old = Picked(cache.order, S)
    BY DEF Kept, Where
  <2> HIDE DEF S, old
  <2>2. S \in SUBSET (DOMAIN cache.order)
    BY DEF S
  <2>3. /\ IsSequence(old) /\ DOMAIN old = 1..Cardinality(S)
        /\ \A i \in 1..Cardinality(S) :
               Ascending(S)[i] \in S /\ old[i] = cache.order[Ascending(S)[i]]
    BY <1>2, <2>1, <2>2, PickedElements
  <2> QED
    BY <1>2, <2>2, <2>3
<1>5. /\ IsSequence(again) /\ \A i \in DOMAIN again : again[i] \in Range(chunk)
      /\ IsSequence(missing) /\ \A i \in DOMAIN missing : missing[i] \in Range(chunk)
  <2> DEFINE S == {i \in DOMAIN chunk : chunk[i] \in hits}
             T == {i \in DOMAIN chunk : chunk[i] \notin hits}
  <2>1. again = Picked(chunk, S) /\ missing = Picked(chunk, T)
    BY DEF Kept, Where
  <2>2. S \in SUBSET (DOMAIN chunk) /\ T \in SUBSET (DOMAIN chunk)
    OBVIOUS
  <2>3. \A i \in DOMAIN chunk : chunk[i] \in Range(chunk)
    BY SequenceRows
  <2> HIDE DEF S, T, again, missing
  <2>4. /\ IsSequence(again) /\ DOMAIN again = 1..Cardinality(S)
        /\ \A i \in 1..Cardinality(S) : Ascending(S)[i] \in S /\ again[i] = chunk[Ascending(S)[i]]
    BY <2>1, <2>2, PickedElements
  <2>5. /\ IsSequence(missing) /\ DOMAIN missing = 1..Cardinality(T)
        /\ \A i \in 1..Cardinality(T) : Ascending(T)[i] \in T /\ missing[i] = chunk[Ascending(T)[i]]
    BY <2>1, <2>2, PickedElements
  <2> QED
    BY <2>2, <2>3, <2>4, <2>5
<1> HIDE DEF old, again, missing, Signals, value, hits
<1>6. /\ IsSequence(order)
      /\ \A k \in Range(order) : k \in Range(chunk) \/ k \in DOMAIN cache.value
  <2>1. IsSequence(old \o again) /\ Range(old \o again) = Range(old) \cup Range(again)
    BY <1>4, <1>5, ConcatSequence
  <2>2. IsSequence(order) /\ Range(order) = Range(old) \cup Range(again) \cup Range(missing)
    BY <1>5, <2>1, ConcatSequence
  <2>3. /\ \A k \in Range(old) : k \in DOMAIN cache.value
        /\ \A k \in Range(again) \cup Range(missing) : k \in Range(chunk)
    BY <1>4, <1>5 DEF Range
  <2> QED
    BY <2>2, <2>3
<1> HIDE DEF order
<1>7. IsSequence(kept) /\ Range(kept) \subseteq Range(order)
  <2> DEFINE m == Max({1, Len(order) - budget + 1})
  <2>1. Len(order) \in Nat
    BY <1>6, SequenceRows
  <2>2. Len(order) - budget + 1 \in Int
    BY <2>1
  <2>3. m \in {1, Len(order) - budget + 1} /\ 1 <= m
    BY <2>2, MaxOfTwo
  <2> HIDE DEF m
  <2>4. m \in Int
    BY <2>2, <2>3
  <2>5. IsSequence(SubSeq(order, m, Len(order))) /\ Range(SubSeq(order, m, Len(order))) \subseteq Range(order)
    BY <1>6, <2>1, <2>3, <2>4, PartOfSequence
  <2> QED
    BY <2>5 DEF m
<1> HIDE DEF kept
<1>8. \A k \in DOMAIN value : value[k] = generate[k]
  BY <1>2, <1>3, <1>6, <1>7 DEF value
<1>9. \A i \in DOMAIN kept : kept[i] \in DOMAIN value
  BY <1>7, SequenceRows DEF value
<1>10. r.signals = [i \in DOMAIN chunk |-> generate[chunk[i]]]
  BY <1>1, <1>3
<1> HIDE DEF r
<1>11. IsCache(r.cache, generate)
  BY <1>1, <1>7, <1>8, <1>9 DEF IsCache
<1> QED
  BY <1>10, <1>11 DEF r

-----------------------------------------------------------------------------
(* What a gate lets pass *)

\* The result of a strategy with normalized signals, and aligned.
NormalizedResult(r) == [r EXCEPT !.signals = NormalizeSignals(@)]

AlignedResult(r, execution) == AlignSignals(NormalizedResult(r), execution)

\* A validation that blocks nothing has examined everything.
LEMMA NothingBlocked ==
    ASSUME NEW data, NEW r, NEW required, NEW execution,
           ValidateForSimulation(data, r, required, execution).blocked = {}
    PROVE  /\ ValidateForSimulation(data, r, required, execution).aligned = AlignedResult(r, execution)
           /\ ValidateMarketData(data, required, execution) = {}
           /\ ValidateSignals(data, NormalizedResult(r).signals, execution) = {}
           /\ AlignedResult(r, execution) # Null
           /\ ValidateExecution(data, NormalizedResult(r).signals, AlignedResult(r, execution).signals,
                                execution) = {}
<1> DEFINE a == AlignedResult(r, execution)
           market == ValidateMarketData(data, required, execution)
           checked == ValidateSignals(data, NormalizedResult(r).signals, execution)
           filled == ValidateExecution(data, NormalizedResult(r).signals, a.signals, execution)
           early == IF market # {} THEN market ELSE checked
           failed == IF early # {} THEN early ELSE IF a = Null THEN {"mode"} ELSE filled
           v == ValidateForSimulation(data, r, required, execution)
<1>1. v = IF failed = {} THEN [blocked |-> {}, aligned |-> a]
          ELSE [blocked |-> failed, aligned |-> Null]
  BY DEF ValidateForSimulation, AlignedResult, NormalizedResult
<1>2. v.blocked = {}
  OBVIOUS
<1> HIDE DEF a, market, checked, filled, v
<1>3. failed = {} /\ v.aligned = a
  BY <1>1, <1>2
<1>4. market = {} /\ checked = {} /\ a # Null /\ filled = {}
  BY <1>3
<1> QED
  BY <1>3, <1>4 DEF a, market, checked, filled, v

\* Signals that no gate blocks are boolean, one for every bar.
LEMMA SignalsChecked ==
    ASSUME NEW data, NEW signals, NEW execution, ValidateSignals(data, signals, execution) = {},
           NEW n \in DOMAIN signals
    PROVE  signals[n].bool /\ Len(signals[n].values) = Len(data.bars)
<1>1. /\ "length" \notin ValidateSignals(data, signals, execution)
      /\ "boolean" \notin ValidateSignals(data, signals, execution)
  OBVIOUS
<1>2. ~ \E k \in DOMAIN signals : Len(signals[k].values) # Len(data.bars)
  BY <1>1 DEF ValidateSignals
<1>3. ~ \E k \in DOMAIN signals : ~signals[k].bool
  BY <1>1 DEF ValidateSignals
<1> QED
  BY <1>2, <1>3

\* The value of a signal on a bar, and what acts on it.
SignalAt(s, i) == IF s.bool THEN s.values[i] ELSE s.values[i] = 1

ActsAt(s, mode, i) ==
    IF mode = "same_bar_close" THEN SignalAt(s, i) ELSE i > 1 /\ SignalAt(s, i - 1) = TRUE

LevelAt(level, n, mode, i) ==
    IF mode = "same_bar_close" THEN level[i] ELSE IF i = 1 THEN Absent(n) ELSE level[i - 1]

\* The result of a strategy as it is filled on the rows.
Filled(r, mode, rows) ==
    [signals |-> [n \in DOMAIN r.signals |->
                     [bool |-> TRUE, values |-> [i \in rows |-> ActsAt(r.signals[n], mode, i)]]],
     levels |-> [n \in DOMAIN r.levels |-> [i \in rows |-> LevelAt(r.levels[n], n, mode, i)]],
     cap |-> r.cap, sessions |-> r.sessions]

\* A signal that the gates let pass, before it is aligned.
LEMMA SignalNormalized ==
    ASSUME NEW s, s = [bool |-> s.bool, values |-> s.values], s.bool \in BOOLEAN, IsSequence(s.values),
           NEW n \in Nat, NormalizeSignal(s).bool, Len(NormalizeSignal(s).values) = n
    PROVE  /\ NormalizeSignal(s) = [bool |-> TRUE, values |-> [i \in 1..n |-> SignalAt(s, i)]]
           /\ DOMAIN s.values = 1..n
<1>1. Len(s.values) \in Nat /\ DOMAIN s.values = 1..Len(s.values)
  BY SequenceRows
<1>2. CASE s.bool = TRUE
  <2>1. NormalizeSignal(s) = s
    BY <1>2 DEF NormalizeSignal
  <2>2. Len(s.values) = n /\ s.values = [i \in 1..n |-> s.values[i]]
    BY <1>1, <2>1 DEF IsSequence
  <2>3. [i \in 1..n |-> SignalAt(s, i)] = [i \in 1..n |-> s.values[i]]
    BY <1>2 DEF SignalAt
  <2> QED
    BY <1>1, <1>2, <2>1, <2>2, <2>3
<1>3. CASE s.bool = FALSE
  <2> DEFINE v == [i \in DOMAIN s.values |-> s.values[i] = 1]
  <2>1. NormalizeSignal(s) = [s EXCEPT !.bool = TRUE, !.values = v]
    BY <1>3 DEF NormalizeSignal
  <2>2. NormalizeSignal(s) = [bool |-> TRUE, values |-> v]
    BY <2>1
  <2>3. IsSequence(v) /\ Len(v) = Len(s.values)
    BY <1>1, FunctionSequence
  <2>4. n = Len(s.values)
    BY <2>2, <2>3
  <2>5. v = [i \in 1..n |-> SignalAt(s, i)]
    BY <1>1, <1>3, <2>4 DEF SignalAt
  <2> QED
    BY <1>1, <2>2, <2>4, <2>5
<1> QED
  BY <1>2, <1>3

\* What is validated is filled on every row, as it is or one bar later.
LEMMA ValidatedIsFilled ==
    ASSUME NEW data, IsSequence(data.bars), NEW r, IsSignalResult(r, DOMAIN data.bars),
           NEW required, NEW execution,
           ValidateForSimulation(data, r, required, execution).blocked = {}
    PROVE  /\ execution.mode \in {"same_bar_close", "next_bar_open"}
           /\ ValidateForSimulation(data, r, required, execution).aligned
                = Filled(r, execution.mode, DOMAIN data.bars)
           /\ \A n \in DOMAIN r.signals : DOMAIN r.signals[n].values = DOMAIN data.bars
<1> DEFINE norm == NormalizedResult(r)
           a == AlignedResult(r, execution)
           m == execution.mode
           N == Len(data.bars)
           plain == [n \in DOMAIN r.signals |->
                        [bool |-> TRUE, values |-> [i \in 1..N |-> SignalAt(r.signals[n], i)]]]
<1>0. norm = [r EXCEPT !.signals = NormalizeSignals(@)] /\ a = AlignSignals(norm, execution)
  BY DEF NormalizedResult, AlignedResult
<1>1. /\ ValidateForSimulation(data, r, required, execution).aligned = a
      /\ ValidateSignals(data, norm.signals, execution) = {}
      /\ a # Null
  BY NothingBlocked
<1> HIDE DEF norm, a
<1>2. N \in Nat /\ DOMAIN data.bars = 1..N
  BY SequenceRows
<1>3. /\ r = [signals |-> r.signals, levels |-> r.levels, cap |-> r.cap, sessions |-> r.sessions]
      /\ r.levels = [n \in DOMAIN r.levels |-> [i \in 1..N |-> r.levels[n][i]]]
      /\ \A n \in DOMAIN r.signals :
             /\ r.signals[n] = [bool |-> r.signals[n].bool, values |-> r.signals[n].values]
             /\ r.signals[n].bool \in BOOLEAN /\ IsSequence(r.signals[n].values)
  BY <1>2 DEF IsSignalResult
<1>4. norm = [signals |-> NormalizeSignals(r.signals), levels |-> r.levels, cap |-> r.cap,
              sessions |-> r.sessions]
  BY <1>0, <1>3
<1> HIDE DEF N
<1>5. /\ NormalizeSignals(r.signals) = plain
      /\ \A n \in DOMAIN r.signals : DOMAIN r.signals[n].values = 1..N
  <2>1. ASSUME NEW n \in DOMAIN r.signals
        PROVE  NormalizeSignal(r.signals[n]) = plain[n] /\ DOMAIN r.signals[n].values = 1..N
    <3>1. n \in DOMAIN norm.signals /\ norm.signals[n] = NormalizeSignal(r.signals[n])
      BY <1>4 DEF NormalizeSignals
    <3>2. NormalizeSignal(r.signals[n]).bool /\ Len(NormalizeSignal(r.signals[n]).values) = N
      BY <1>1, <3>1, SignalsChecked DEF N
    <3> QED
      BY <1>2, <1>3, <3>2, SignalNormalized
  <2> QED
    BY <2>1 DEF NormalizeSignals
<1>6. norm = [signals |-> plain, levels |-> r.levels, cap |-> r.cap, sessions |-> r.sessions]
  BY <1>4, <1>5
<1>7. CASE m = "same_bar_close"
  <2>1. a = norm
    BY <1>0, <1>7 DEF AlignSignals
  <2>2. Filled(r, m, 1..N) = [signals |-> plain, levels |-> r.levels, cap |-> r.cap, sessions |-> r.sessions]
    <3>1. \A n : \A i \in 1..N : ActsAt(r.signals[n], m, i) = SignalAt(r.signals[n], i)
                       /\ LevelAt(r.levels[n], n, m, i) = r.levels[n][i]
      BY <1>7 DEF ActsAt, LevelAt
    <3>2. [n \in DOMAIN r.signals |->
              [bool |-> TRUE, values |-> [i \in 1..N |-> ActsAt(r.signals[n], m, i)]]] = plain
      BY <3>1
    <3>3. [n \in DOMAIN r.levels |-> [i \in 1..N |-> LevelAt(r.levels[n], n, m, i)]] = r.levels
      BY <1>3, <3>1
    <3> QED
      BY <3>2, <3>3 DEF Filled
  <2> QED
    BY <1>1, <1>2, <1>5, <1>6, <1>7, <2>1, <2>2
<1>8. CASE m = "next_bar_open"
  <2> DEFINE shifted == [n \in DOMAIN norm.signals |-> ShiftSignal(norm.signals[n])]
             levels == [n \in DOMAIN norm.levels |-> [i \in DOMAIN norm.levels[n] |->
                           IF i = 1 THEN Absent(n) ELSE norm.levels[n][i - 1]]]
  <2>1. a = [norm EXCEPT !.signals = shifted, !.levels = levels]
    BY <1>0, <1>8 DEF AlignSignals
  <2>2. a = [signals |-> shifted, levels |-> levels, cap |-> r.cap, sessions |-> r.sessions]
    BY <1>6, <2>1
  <2>3. shifted = [n \in DOMAIN r.signals |->
            [bool |-> TRUE, values |-> [i \in 1..N |-> ActsAt(r.signals[n], m, i)]]]
    <3>1. norm.signals = plain
      BY <1>6
    <3>2. ASSUME NEW n \in DOMAIN r.signals
          PROVE  ShiftSignal(plain[n])
                   = [bool |-> TRUE, values |-> [i \in 1..N |-> ActsAt(r.signals[n], m, i)]]
      <4> DEFINE s == r.signals[n]
                 v == [i \in 1..N |-> SignalAt(s, i)]
      <4>1. plain[n] = [bool |-> TRUE, values |-> v] /\ DOMAIN v = 1..N
        OBVIOUS
      <4>2. ASSUME NEW i \in 1..N
            PROVE  (i > 1 /\ IsOn([bool |-> TRUE, values |-> v], i - 1)) = ActsAt(s, m, i)
        <5>1. CASE i > 1
          <6>1. i - 1 \in 1..N
            BY <1>2, <5>1
          <6>2. v[i - 1] = SignalAt(s, i - 1)
            BY <6>1
          <6> HIDE DEF v
          <6> QED
            BY <1>8, <5>1, <6>2 DEF IsOn, ActsAt
        <5>2. CASE ~(i > 1)
          BY <1>8, <5>2 DEF ActsAt
        <5> QED
          BY <5>1, <5>2
      <4> HIDE DEF v
      <4>3. ShiftSignal([bool |-> TRUE, values |-> v])
              = [bool |-> TRUE, values |-> [i \in 1..N |-> ActsAt(s, m, i)]]
        BY <4>1, <4>2 DEF ShiftSignal
      <4> QED
        BY <4>1, <4>3
    <3> HIDE DEF shifted, plain
    <3>3. DOMAIN plain = DOMAIN r.signals
      BY DEF plain
    <3> QED
      BY <3>1, <3>2, <3>3 DEF shifted
  <2>4. levels = [n \in DOMAIN r.levels |-> [i \in 1..N |-> LevelAt(r.levels[n], n, m, i)]]
    <3>1. norm.levels = r.levels /\ \A n \in DOMAIN r.levels : DOMAIN r.levels[n] = 1..N
      BY <1>3, <1>6
    <3>2. \A n : \A i \in 1..N :
              LevelAt(r.levels[n], n, m, i) = IF i = 1 THEN Absent(n) ELSE r.levels[n][i - 1]
      BY <1>8 DEF LevelAt
    <3>3. \A n \in DOMAIN r.levels :
              [i \in DOMAIN norm.levels[n] |-> IF i = 1 THEN Absent(n) ELSE norm.levels[n][i - 1]]
                = [i \in 1..N |-> LevelAt(r.levels[n], n, m, i)]
      BY <3>1, <3>2
    <3> QED
      BY <3>1, <3>3
  <2>5. a = Filled(r, m, 1..N)
    <3> HIDE DEF shifted, levels
    <3> QED
      BY <2>2, <2>3, <2>4 DEF Filled
  <2> QED
    BY <1>1, <1>2, <1>5, <1>8, <2>5
<1>9. m = "same_bar_close" \/ m = "next_bar_open"
  BY <1>0, <1>1 DEF AlignSignals
<1> QED
  BY <1>2, <1>5, <1>7, <1>8, <1>9

-----------------------------------------------------------------------------
(* A window of a history *)

\* What is picked of two sequences that have the same elements there is the same.
LEMMA PickedSame ==
    ASSUME NEW f, NEW g, NEW S \in SUBSET Int, IsFiniteSet(S), \A i \in S : f[i] = g[i]
    PROVE  Picked(f, S) = Picked(g, S)
<1>1. /\ Picked(f, S) = [i \in 1..Cardinality(S) |-> f[Ascending(S)[i]]]
      /\ Picked(g, S) = [i \in 1..Cardinality(S) |-> g[Ascending(S)[i]]]
  BY PickedRows
<1>2. \A k \in 1..Cardinality(S) : Ascending(S)[k] \in S
  BY AscendingLists
<1>3. \A k \in 1..Cardinality(S) : f[Ascending(S)[k]] = g[Ascending(S)[k]]
  BY <1>2
<1> QED
  BY <1>1, <1>3

\* Two results are filled alike before a row.
FilledAlike(r, t, m, N, from) ==
    \A i \in 1..N : i < from =>
        /\ \A n \in DOMAIN r.signals : ActsAt(r.signals[n], m, i) = ActsAt(t.signals[n], m, i)
        /\ \A n \in DOMAIN r.levels :
               LevelAt(r.levels[n], n, m, i) = LevelAt(t.levels[n], n, m, i)

\* Results that agree before a row are.
LEMMA FilledAgree ==
    ASSUME NEW N \in Nat, NEW from \in Int, NEW r, NEW t, AgreeBefore(r, t, from), NEW m,
           \A n \in DOMAIN r.signals : DOMAIN r.signals[n].values = 1..N,
           \A n \in DOMAIN t.signals : DOMAIN t.signals[n].values = 1..N,
           \A n \in DOMAIN r.levels : DOMAIN r.levels[n] = 1..N
    PROVE  FilledAlike(r, t, m, N, from)
<1> SUFFICES ASSUME NEW i \in 1..N, i < from
             PROVE  /\ \A n \in DOMAIN r.signals : ActsAt(r.signals[n], m, i) = ActsAt(t.signals[n], m, i)
                    /\ \A n \in DOMAIN r.levels :
                           LevelAt(r.levels[n], n, m, i) = LevelAt(t.levels[n], n, m, i)
  BY DEF FilledAlike
<1>1. ASSUME NEW n \in DOMAIN r.signals, NEW j \in 1..N, j < from
      PROVE  SignalAt(r.signals[n], j) = SignalAt(t.signals[n], j)
  <2>1. /\ n \in DOMAIN t.signals
        /\ r.signals[n].bool = t.signals[n].bool
        /\ j \in DOMAIN r.signals[n].values \cap DOMAIN t.signals[n].values =>
               r.signals[n].values[j] = t.signals[n].values[j]
    BY <1>1 DEF AgreeBefore
  <2>2. r.signals[n].values[j] = t.signals[n].values[j]
    BY <2>1
  <2> QED
    BY <2>1, <2>2 DEF SignalAt
<1>2. i - 1 < from /\ (i > 1 => i - 1 \in 1..N)
  OBVIOUS
<1>3. ASSUME NEW n \in DOMAIN r.signals
      PROVE  ActsAt(r.signals[n], m, i) = ActsAt(t.signals[n], m, i)
  <2>1. SignalAt(r.signals[n], i) = SignalAt(t.signals[n], i)
    BY <1>1
  <2>2. i > 1 => SignalAt(r.signals[n], i - 1) = SignalAt(t.signals[n], i - 1)
    BY <1>1, <1>2
  <2>3. CASE m = "same_bar_close"
    BY <2>1, <2>3 DEF ActsAt
  <2>4. CASE m # "same_bar_close"
    BY <2>2, <2>4 DEF ActsAt
  <2> QED
    BY <2>3, <2>4
<1>4. ASSUME NEW n \in DOMAIN r.levels
      PROVE  LevelAt(r.levels[n], n, m, i) = LevelAt(t.levels[n], n, m, i)
  <2>1. \A j \in 1..N : j < from => r.levels[n][j] = t.levels[n][j]
    BY DEF AgreeBefore
  <2>2. r.levels[n][i] = t.levels[n][i] /\ (i # 1 => r.levels[n][i - 1] = t.levels[n][i - 1])
    BY <1>2, <2>1
  <2> QED
    BY <2>2 DEF LevelAt
<1> QED
  BY <1>3, <1>4

\* A filled result, cut to some rows.
CutFilled(r, m, rows, S) ==
    [signals |-> [n \in DOMAIN r.signals |->
                     [bool |-> TRUE,
                      values |-> Picked([i \in rows |-> ActsAt(r.signals[n], m, i)], S)]],
     levels |-> [n \in DOMAIN r.levels |->
                     Picked([i \in rows |-> LevelAt(r.levels[n], n, m, i)], S)],
     cap |-> r.cap,
     sessions |-> IF r.sessions = Null THEN Null ELSE Picked(r.sessions, S)]

\* The rows of a range of labels.
RowsInside(index, range) ==
    {i \in DOMAIN index : range[1] <= index[i] /\ index[i] <= range[2]}

\* The filled results of a chunk, and the bars of a history with them in a window.
FilledChunk(g, chunk, m, rows) == [k \in DOMAIN chunk |-> Filled(g[chunk[k]], m, rows)]

CutChunk(d, g, chunk, m, rows, range) ==
    LET S == RowsInside(d.index, range)
    IN  [data |-> [columns |-> d.columns, index |-> Picked(d.index, S), bars |-> Picked(d.bars, S)],
         aligned |-> [k \in DOMAIN chunk |-> CutFilled(g[chunk[k]], m, rows, S)]]

\* A filled chunk, cut to a window.
LEMMA WindowOfChunk ==
    ASSUME NEW d, NEW g, NEW chunk, NEW m, NEW rows, NEW range, range # Null
    PROVE  CutToWindow(d, FilledChunk(g, chunk, m, rows), range) = CutChunk(d, g, chunk, m, rows, range)
<1> DEFINE S == RowsInside(d.index, range)
           aligned == [k \in DOMAIN chunk |-> Filled(g[chunk[k]], m, rows)]
           CutSignal(s) == [bool |-> s.bool, values |-> Picked(s.values, S)]
           CutResult(a) == [signals |-> [n \in DOMAIN a.signals |-> CutSignal(a.signals[n])],
                            levels |-> [n \in DOMAIN a.levels |-> Picked(a.levels[n], S)],
                            cap |-> a.cap,
                            sessions |-> IF a.sessions = Null THEN Null ELSE Picked(a.sessions, S)]
<1>1. CutToWindow(d, aligned, range)
        = [data |-> [columns |-> d.columns, index |-> Picked(d.index, S), bars |-> Picked(d.bars, S)],
           aligned |-> [k \in DOMAIN aligned |-> CutResult(aligned[k])]]
  BY DEF CutToWindow, RowsInside
<1> HIDE DEF S
<1>2. ASSUME NEW r PROVE CutResult(Filled(r, m, rows)) = CutFilled(r, m, rows, S)
  <2> DEFINE Acting(n) == [i \in rows |-> ActsAt(r.signals[n], m, i)]
             Level(n) == [i \in rows |-> LevelAt(r.levels[n], n, m, i)]
             signals == [n \in DOMAIN r.signals |-> [bool |-> TRUE, values |-> Acting(n)]]
             levels == [n \in DOMAIN r.levels |-> Level(n)]
             f == Filled(r, m, rows)
  <2>1. f = [signals |-> signals, levels |-> levels, cap |-> r.cap, sessions |-> r.sessions]
    BY DEF Filled
  <2>2. CutFilled(r, m, rows, S)
          = [signals |-> [n \in DOMAIN r.signals |-> [bool |-> TRUE, values |-> Picked(Acting(n), S)]],
             levels |-> [n \in DOMAIN r.levels |-> Picked(Level(n), S)],
             cap |-> r.cap,
             sessions |-> IF r.sessions = Null THEN Null ELSE Picked(r.sessions, S)]
    BY DEF CutFilled
  <2> HIDE DEF f, Acting, Level
  <2>3. /\ f.signals = signals /\ DOMAIN f.signals = DOMAIN r.signals
        /\ f.levels = levels /\ DOMAIN f.levels = DOMAIN r.levels
        /\ f.cap = r.cap /\ f.sessions = r.sessions
    BY <2>1
  <2>4. \A n \in DOMAIN r.signals : CutSignal(f.signals[n]) = [bool |-> TRUE, values |-> Picked(Acting(n), S)]
    <3> TAKE n \in DOMAIN r.signals
    <3>1. f.signals[n].bool = TRUE /\ f.signals[n].values = Acting(n)
      BY <2>3
    <3> QED
      BY <3>1
  <2>5. \A n \in DOMAIN r.levels : Picked(f.levels[n], S) = Picked(Level(n), S)
    BY <2>3
  <2> HIDE DEF CutSignal, signals, levels
  <2>6. [n \in DOMAIN f.signals |-> CutSignal(f.signals[n])]
          = [n \in DOMAIN r.signals |-> [bool |-> TRUE, values |-> Picked(Acting(n), S)]]
    BY <2>3, <2>4
  <2>7. [n \in DOMAIN f.levels |-> Picked(f.levels[n], S)]
          = [n \in DOMAIN r.levels |-> Picked(Level(n), S)]
    BY <2>3, <2>5
  <2>8. CutResult(f) = CutFilled(r, m, rows, S)
    BY <2>2, <2>3, <2>6, <2>7, Zenon
  <2> QED
    BY <2>8 DEF f
<1> HIDE DEF CutResult
<1>3. [k \in DOMAIN aligned |-> CutResult(aligned[k])]
        = [k \in DOMAIN chunk |-> CutFilled(g[chunk[k]], m, rows, S)]
  BY <1>2
<1> HIDE DEF aligned
<1>5. CutToWindow(d, aligned, range)
        = [data |-> [columns |-> d.columns, index |-> Picked(d.index, S), bars |-> Picked(d.bars, S)],
           aligned |-> [k \in DOMAIN chunk |-> CutFilled(g[chunk[k]], m, rows, S)]]
  BY <1>1, <1>3
<1> QED
  BY <1>5 DEF aligned, S, FilledChunk, CutChunk

\* Results that agree before a row are the same in a window that ends before it.
LEMMA WindowsAgree ==
    ASSUME NEW N \in Nat, NEW from \in Int, NEW r, NEW t, AgreeBefore(r, t, from), NEW m,
           \A n \in DOMAIN r.signals : DOMAIN r.signals[n].values = 1..N,
           \A n \in DOMAIN t.signals : DOMAIN t.signals[n].values = 1..N,
           \A n \in DOMAIN r.levels : DOMAIN r.levels[n] = 1..N,
           NEW S \in SUBSET (1..N), \A i \in S : i < from
    PROVE  CutFilled(r, m, 1..N, S) = CutFilled(t, m, 1..N, S)
<1>1. S \in SUBSET Int /\ IsFiniteSet(S)
  BY FS_Interval, FS_Subset
<1>2. /\ r.cap = t.cap /\ r.sessions = t.sessions
      /\ DOMAIN r.signals = DOMAIN t.signals /\ DOMAIN r.levels = DOMAIN t.levels
  BY DEF AgreeBefore
<1>3. ASSUME NEW n \in DOMAIN r.signals
      PROVE  Picked([i \in 1..N |-> ActsAt(r.signals[n], m, i)], S)
               = Picked([i \in 1..N |-> ActsAt(t.signals[n], m, i)], S)
  <2> DEFINE f == [i \in 1..N |-> ActsAt(r.signals[n], m, i)]
             h == [i \in 1..N |-> ActsAt(t.signals[n], m, i)]
  <2>1. \A i \in S : ActsAt(r.signals[n], m, i) = ActsAt(t.signals[n], m, i)
    <3>1. \A i \in S : i \in 1..N /\ i < from
      OBVIOUS
    <3>2. FilledAlike(r, t, m, N, from)
      BY FilledAgree
    <3> QED
      BY <3>1, <3>2 DEF FilledAlike
  <2>2. \A i \in S : f[i] = h[i]
    BY <2>1
  <2> HIDE DEF f, h
  <2>3. Picked(f, S) = Picked(h, S)
    BY <1>1, <2>2, PickedSame
  <2> QED
    BY <2>3 DEF f, h
<1>4. ASSUME NEW n \in DOMAIN r.levels
      PROVE  Picked([i \in 1..N |-> LevelAt(r.levels[n], n, m, i)], S)
               = Picked([i \in 1..N |-> LevelAt(t.levels[n], n, m, i)], S)
  <2> DEFINE f == [i \in 1..N |-> LevelAt(r.levels[n], n, m, i)]
             h == [i \in 1..N |-> LevelAt(t.levels[n], n, m, i)]
  <2>1. \A i \in S : LevelAt(r.levels[n], n, m, i) = LevelAt(t.levels[n], n, m, i)
    <3>1. \A i \in S : i \in 1..N /\ i < from
      OBVIOUS
    <3>2. FilledAlike(r, t, m, N, from)
      BY FilledAgree
    <3> QED
      BY <3>1, <3>2 DEF FilledAlike
  <2>2. \A i \in S : f[i] = h[i]
    BY <2>1
  <2> HIDE DEF f, h
  <2>3. Picked(f, S) = Picked(h, S)
    BY <1>1, <2>2, PickedSame
  <2> QED
    BY <2>3 DEF f, h
<1>5. [n \in DOMAIN r.signals |->
          [bool |-> TRUE, values |-> Picked([i \in 1..N |-> ActsAt(r.signals[n], m, i)], S)]]
        = [n \in DOMAIN t.signals |->
              [bool |-> TRUE, values |-> Picked([i \in 1..N |-> ActsAt(t.signals[n], m, i)], S)]]
  BY <1>2, <1>3
<1>6. [n \in DOMAIN r.levels |-> Picked([i \in 1..N |-> LevelAt(r.levels[n], n, m, i)], S)]
        = [n \in DOMAIN t.levels |-> Picked([i \in 1..N |-> LevelAt(t.levels[n], n, m, i)], S)]
  BY <1>2, <1>4
<1> QED
  BY <1>2, <1>5, <1>6 DEF CutFilled

-----------------------------------------------------------------------------
(* The chunks of a sweep *)

\* The window of a chunk, of what is generated for its settings.
ChunkWindow(x, chunk) ==
    CutChunk(x.data, x.generate, chunk, x.execution.mode, DOMAIN x.data.bars, x.range)

\* The signals of a setting have a value for every row.
CoversRows(x, k) ==
    \A n \in DOMAIN x.generate[k].signals :
        DOMAIN x.generate[k].signals[n].values = DOMAIN x.data.bars

\* A chunk that no gate blocks is the window of what is generated for its settings,
\* whatever the cache held before.
LEMMA ChunkIsPrepared ==
    ASSUME NEW x, IsExperiment(x), x.range # Null,
           NEW chunk, IsSequence(chunk), \A i \in DOMAIN chunk : chunk[i] \in x.valid,
           NEW cache, IsCache(cache, x.generate)
    PROVE  LET step == PrepareChunk(x, chunk, cache)
           IN  /\ IsCache(step.cache, x.generate)
               /\ step.blocked = {} =>
                      /\ step.cut = ChunkWindow(x, chunk)
                      /\ \A i \in DOMAIN chunk : CoversRows(x, chunk[i])
<1> DEFINE step == PrepareChunk(x, chunk, cache)
           made == GenerateSignalsOnce(chunk, cache, x.budget, x.generate)
           Checked(i) == ValidateForSimulation(x.data, made.signals[i], x.required, x.execution)
           g == x.generate
           d == x.data
           m == x.execution.mode
           rows == DOMAIN x.data.bars
<1>1. /\ x.budget \in Nat /\ IsSequence(d.bars)
      /\ \A k \in x.valid : IsSignalResult(g[k], rows)
  BY DEF IsExperiment
<1>2. made.signals = [i \in DOMAIN chunk |-> g[chunk[i]]] /\ IsCache(made.cache, g)
  BY <1>1, SignalsAreGenerated
<1>3. /\ step.cache = made.cache
      /\ step.blocked = UNION {Checked(i).blocked : i \in DOMAIN chunk}
      /\ step.blocked = {} =>
             step.cut = CutToWindow(d, [i \in DOMAIN chunk |-> Checked(i).aligned], x.range)
  <2> HIDE DEF made
  <2> QED
    BY DEF PrepareChunk, made
<1> HIDE DEF step, made
<1>4. ASSUME step.blocked = {}
      PROVE  step.cut = ChunkWindow(x, chunk) /\ \A i \in DOMAIN chunk : CoversRows(x, chunk[i])
  <2>1. ASSUME NEW i \in DOMAIN chunk
        PROVE  Checked(i).aligned = Filled(g[chunk[i]], m, rows) /\ CoversRows(x, chunk[i])
    <3>1. Checked(i).blocked = {}
      BY <1>3, <1>4
    <3>2. made.signals[i] = g[chunk[i]] /\ IsSignalResult(g[chunk[i]], rows)
      BY <1>1, <1>2
    <3>3. ValidateForSimulation(d, g[chunk[i]], x.required, x.execution).blocked = {}
      BY <3>1, <3>2
    <3>4. /\ ValidateForSimulation(d, g[chunk[i]], x.required, x.execution).aligned
                = Filled(g[chunk[i]], m, rows)
          /\ \A n \in DOMAIN g[chunk[i]].signals : DOMAIN g[chunk[i]].signals[n].values = rows
      BY <1>1, <3>2, <3>3, ValidatedIsFilled
    <3> QED
      BY <3>2, <3>4 DEF CoversRows
  <2> HIDE DEF Checked
  <2>2. [i \in DOMAIN chunk |-> Checked(i).aligned] = [i \in DOMAIN chunk |-> Filled(g[chunk[i]], m, rows)]
    BY <2>1
  <2>3. step.cut = CutToWindow(d, FilledChunk(g, chunk, m, rows), x.range)
    BY <1>3, <1>4, <2>2 DEF FilledChunk
  <2>4. step.cut = ChunkWindow(x, chunk)
    BY <2>3, WindowOfChunk DEF ChunkWindow
  <2> QED
    BY <2>1, <2>4
<1> QED
  BY <1>2, <1>3, <1>4 DEF step

\* Two experiments that differ from a row on.
AreTwins(x, y, from) ==
    IsExperiment(x) /\ IsExperiment(y) /\ from \in Int /\ DifferFrom(x, y, from)

\* The window of an experiment ends before a row.
EndsBefore(x, from) ==
    x.range # Null /\ \A i \in RowsInside(x.data.index, x.range) : i < from

\* In a window that ends before they differ, two histories have the same bars and, for the
\* same settings, the same results.
LEMMA WindowsOfTwins ==
    ASSUME NEW x, NEW y, NEW from, AreTwins(x, y, from), EndsBefore(x, from),
           NEW chunk, \A i \in DOMAIN chunk : chunk[i] \in x.valid,
           \A i \in DOMAIN chunk : CoversRows(x, chunk[i]) /\ CoversRows(y, chunk[i])
    PROVE  ChunkWindow(x, chunk) = ChunkWindow(y, chunk)
<1> DEFINE S == RowsInside(x.data.index, x.range)
           m == x.execution.mode
           N == Len(x.data.bars)
           Cut(z, k) == CutFilled(z.generate[chunk[k]], m, 1..N, S)
<1>1. /\ {"range", "valid", "execution"} \subseteq ExperimentFields \ {"data", "generate", "cache"}
      /\ from \in Int /\ DifferFrom(x, y, from) /\ IsExperiment(x) /\ IsExperiment(y)
  BY DEF ExperimentFields, AreTwins
<1>2. /\ x.range = y.range /\ x.valid = y.valid /\ x.execution = y.execution
      /\ x.data.columns = y.data.columns /\ x.data.index = y.data.index
      /\ \A i \in DOMAIN x.data.bars : i < from => x.data.bars[i] = y.data.bars[i]
      /\ \A k \in x.valid : AgreeBefore(x.generate[k], y.generate[k], from)
  BY <1>1 DEF DifferFrom
<1>3. /\ N \in Nat /\ DOMAIN x.data.bars = 1..N /\ DOMAIN y.data.bars = 1..N
      /\ DOMAIN x.data.index = 1..N
  <2>1. IsSequence(x.data.bars) /\ DOMAIN x.data.bars = DOMAIN x.data.index
    BY <1>1 DEF IsExperiment
  <2>2. DOMAIN y.data.bars = DOMAIN y.data.index
    BY <1>1 DEF IsExperiment
  <2>3. N \in Nat /\ DOMAIN x.data.bars = 1..N
    BY <2>1, SequenceRows
  <2> QED
    BY <1>2, <2>1, <2>2, <2>3
<1>4. S \in SUBSET (1..N) /\ \A i \in S : i < from
  BY <1>3 DEF RowsInside, EndsBefore
<1> HIDE DEF N, S
<1>5. S \in SUBSET Int /\ IsFiniteSet(S)
  <2>1. IsFiniteSet(1..N)
    BY <1>3, FS_Interval
  <2>2. IsFiniteSet(S)
    BY <1>4, <2>1, FS_Subset
  <2> QED
    BY <1>4, <2>2
<1>6. Picked(x.data.bars, S) = Picked(y.data.bars, S)
  <2>1. \A i \in S : x.data.bars[i] = y.data.bars[i]
    BY <1>2, <1>3, <1>4
  <2> QED
    BY <1>5, <2>1, PickedSame
<1>7. ASSUME NEW k \in DOMAIN chunk PROVE Cut(x, k) = Cut(y, k)
  <2> DEFINE r == x.generate[chunk[k]]
             t == y.generate[chunk[k]]
  <2>1. AgreeBefore(r, t, from)
    BY <1>2
  <2>2. /\ \A n \in DOMAIN r.signals : DOMAIN r.signals[n].values = 1..N
        /\ \A n \in DOMAIN t.signals : DOMAIN t.signals[n].values = 1..N
    BY <1>3 DEF CoversRows
  <2>3. \A n \in DOMAIN r.levels : DOMAIN r.levels[n] = 1..N
    <3>1. IsSignalResult(r, 1..N)
      BY <1>1, <1>3 DEF IsExperiment
    <3> HIDE DEF r
    <3>2. r.levels = [n \in DOMAIN r.levels |-> [i \in 1..N |-> r.levels[n][i]]]
      BY <3>1 DEF IsSignalResult
    <3> QED
      BY <3>2
  <2> HIDE DEF r, t
  <2>4. CutFilled(r, m, 1..N, S) = CutFilled(t, m, 1..N, S)
    BY <1>1, <1>3, <1>4, <2>1, <2>2, <2>3, WindowsAgree
  <2> QED
    BY <2>4 DEF r, t
<1> DEFINE Data(z) == [columns |-> z.data.columns, index |-> Picked(z.data.index, S),
                       bars |-> Picked(z.data.bars, S)]
           Window(z) == [data |-> Data(z), aligned |-> [k \in DOMAIN chunk |-> Cut(z, k)]]
<1>8. ChunkWindow(x, chunk) = Window(x) /\ ChunkWindow(y, chunk) = Window(y)
  BY <1>2, <1>3 DEF ChunkWindow, CutChunk, S
<1>9. Data(x) = Data(y)
  BY <1>2, <1>6
<1> HIDE DEF Cut, Data
<1>10. Window(x) = Window(y)
  BY <1>7, <1>9
<1> QED
  BY <1>8, <1>10

\* A chunk has at least one setting.
LEMMA ChunkSizeIsPositive ==
    ASSUME NEW x, IsExperiment(x), NEW s, IsSequence(s)
    PROVE  ChunkSize(x, s) \in Nat \ {0}
<1>1. CASE x.size # Null
  BY <1>1 DEF ChunkSize, IsExperiment
<1>2. CASE x.size = Null
  <2> DEFINE bars == Len(x.data.bars)
             free == x.memory.free - bars * x.memory.value * Len(s)
             each == bars * x.memory.transient
             number == free \div Max({1, each})
  <2>1. {x.memory.free, x.memory.value, x.memory.transient} \subseteq Int /\ IsSequence(x.data.bars)
    BY DEF IsExperiment
  <2>2. bars \in Nat /\ Len(s) \in Nat
    BY <2>1, SequenceRows
  <2> HIDE DEF bars
  <2>3. free \in Int /\ each \in Int
    BY <2>1, <2>2
  <2>4. ChunkSize(x, s) = Max({1, number})
    BY <1>2 DEF ChunkSize, ChunkSettingsFor, bars
  <2> HIDE DEF free, each
  <2>5. Max({1, each}) \in {1, each} /\ 1 <= Max({1, each})
    BY <2>3, MaxOfTwo
  <2>6. number \in Int
    <3> DEFINE q == Max({1, each})
    <3> HIDE DEF q
    <3>1. q \in Int /\ q > 0
      BY <2>3, <2>5 DEF q
    <3>2. free \div q \in Int
      BY <2>3, <3>1
    <3> QED
      BY <3>2 DEF q
  <2> HIDE DEF number
  <2>7. Max({1, number}) \in {1, number} /\ 1 <= Max({1, number})
    <3>1. 1 \in Int
      OBVIOUS
    <3> QED
      BY <2>6, <3>1, MaxOfTwo, Zenon
  <2> QED
    BY <2>4, <2>6, <2>7
<1> QED
  BY <1>1, <1>2

\* The chunk that starts at a setting.
ChunkFrom(s, k, size) == SubSeq(s, k, Min({k + size - 1, Len(s)}))

\* The chunk is one of the settings there are.
LEMMA ChunkOfSettings ==
    ASSUME NEW s, IsSequence(s), NEW valid, \A i \in DOMAIN s : s[i] \in valid,
           NEW k \in 1..Len(s), NEW size \in Nat \ {0}
    PROVE  /\ IsSequence(ChunkFrom(s, k, size))
           /\ \A i \in DOMAIN ChunkFrom(s, k, size) : ChunkFrom(s, k, size)[i] \in valid
<1> DEFINE n == Min({k + size - 1, Len(s)})
           c == SubSeq(s, k, n)
<1>1. Len(s) \in Nat
  BY SequenceRows
<1>2. n \in {k + size - 1, Len(s)} /\ n <= Len(s)
  <2> DEFINE last == k + size - 1
  <2>1. last \in Int /\ Len(s) \in Int
    BY <1>1
  <2> HIDE DEF last
  <2>2. Min({last, Len(s)}) \in {last, Len(s)} /\ Min({last, Len(s)}) <= Len(s)
    BY <2>1, MinOfTwo
  <2> QED
    BY <2>2 DEF last
<1> HIDE DEF n
<1>3. n \in Int /\ k \in Int /\ 1 <= k
  BY <1>1, <1>2
<1>4. IsSequence(c) /\ Range(c) \subseteq Range(s)
  BY <1>2, <1>3, PartOfSequence
<1>5. \A i \in DOMAIN c : c[i] \in Range(s)
  BY <1>4, SequenceRows
<1>6. \A e \in Range(s) : e \in valid
  BY DEF Range
<1> HIDE DEF c
<1>7. ChunkFrom(s, k, size) = c
  BY DEF ChunkFrom, c, n
<1> QED
  BY <1>4, <1>5, <1>6, <1>7

\* A chunk that no gate blocks adds the measures of its window.
LEMMA ChunkIsMeasured ==
    ASSUME NEW x, IsExperiment(x), x.range # Null,
           NEW chunk, IsSequence(chunk), \A i \in DOMAIN chunk : chunk[i] \in x.valid,
           NEW u, u.blocked = {}, IsCache(u.cache, x.generate)
    PROVE  LET r == SimulateChunk(x, chunk, u)
           IN  /\ IsCache(r.cache, x.generate)
               /\ r.blocked = {} =>
                      /\ r.results = u.results \o MeasureChunk(x, ChunkWindow(x, chunk))
                      /\ \A i \in DOMAIN chunk : CoversRows(x, chunk[i])
<1> DEFINE step == PrepareChunk(x, chunk, u.cache)
           raised == IF step.blocked /= {} THEN step.blocked ELSE SimulationErrors(x, step.cut)
           r == SimulateChunk(x, chunk, u)
<1>1. r = [blocked |-> raised, cache |-> step.cache,
           results |-> IF raised /= {} THEN u.results ELSE u.results \o MeasureChunk(x, step.cut)]
  BY DEF SimulateChunk
<1>2. /\ IsCache(step.cache, x.generate)
      /\ step.blocked = {} =>
             /\ step.cut = ChunkWindow(x, chunk)
             /\ \A i \in DOMAIN chunk : CoversRows(x, chunk[i])
  BY ChunkIsPrepared
<1> HIDE DEF step, r
<1>3. raised = {} => step.blocked = {}
  OBVIOUS
<1> HIDE DEF raised
<1>4. r.cache = step.cache /\ r.blocked = raised
      /\ (raised = {} => r.results = u.results \o MeasureChunk(x, step.cut))
  BY <1>1
<1> QED
  BY <1>2, <1>3, <1>4 DEF r

\* The cache of a sweep is sound as long as nothing is blocked.
SoundState(x, u) == u.blocked = {} => IsCache(u.cache, x.generate)

\* A turn keeps it so, does not undo what a gate blocked, and adds the measures of its chunk.
GoodTurn(x, s, size, k, u, t) ==
    /\ SoundState(x, t)
    /\ t.blocked = {} => u.blocked = {}
    /\ t.blocked = {} /\ (k - 1) % size = 0 =>
           /\ t.results = u.results \o MeasureChunk(x, ChunkWindow(x, ChunkFrom(s, k, size)))
           /\ \A i \in DOMAIN ChunkFrom(s, k, size) : CoversRows(x, ChunkFrom(s, k, size)[i])

\* A turn of the loop over a sound state is a good one.
LEMMA TurnIsSound ==
    ASSUME NEW x, IsExperiment(x), x.range # Null,
           NEW s, IsSequence(s), \A i \in DOMAIN s : s[i] \in x.valid,
           NEW k, k \in 1..Len(s), NEW size \in Nat \ {0}, NEW u, SoundState(x, u)
    PROVE  GoodTurn(x, s, size, k, u, Turn("chunks", x, s, size, k, u))
<1> DEFINE c == ChunkFrom(s, k, size)
           t == Turn("chunks", x, s, size, k, u)
           m == SimulateChunk(x, c, u)
<1>1. t = IF (k - 1) % size = 0 THEN m ELSE u
  BY DEF Turn, ChunkFrom
<1>2. IsSequence(c) /\ \A i \in DOMAIN c : c[i] \in x.valid
  BY ChunkOfSettings
<1>3. u.blocked # {} => m = u
  BY DEF SimulateChunk
<1>4. u.blocked = {} => /\ IsCache(m.cache, x.generate)
                        /\ m.blocked = {} =>
                               /\ m.results = u.results \o MeasureChunk(x, ChunkWindow(x, c))
                               /\ \A i \in DOMAIN c : CoversRows(x, c[i])
  BY <1>2, ChunkIsMeasured DEF SoundState
<1> HIDE DEF c, t, m
<1>5. SoundState(x, t) /\ (t.blocked = {} => u.blocked = {})
  BY <1>1, <1>3, <1>4 DEF SoundState
<1>6. t.blocked = {} /\ (k - 1) % size = 0 => t = m /\ u.blocked = {}
  BY <1>1, <1>5
<1> QED
  BY <1>4, <1>5, <1>6 DEF c, t, GoodTurn

\* The states of a sweep are sound.
LEMMA SweepIsSound ==
    ASSUME NEW x, IsExperiment(x), x.range # Null, IsCache(x.cache, x.generate),
           NEW s, IsSequence(s), \A i \in DOMAIN s : s[i] \in x.valid, NEW f,
           AreTurns(f, "chunks", x, s, ChunkSize(x, s),
                    [blocked |-> {}, results |-> <<>>, cache |-> x.cache], Len(s))
    PROVE  \A k \in 0..Len(s) : SoundState(x, f[k])
<1> DEFINE n == Len(s)
           size == ChunkSize(x, s)
           A == {k \in Nat : k <= n => SoundState(x, f[k])}
<1>1. n \in Nat /\ size \in Nat \ {0}
  BY SequenceRows, ChunkSizeIsPositive
<1>2. f[0] = [blocked |-> {}, results |-> <<>>, cache |-> x.cache]
  BY DEF AreTurns
<1>3. \A k \in 1..n : f[k] = Turn("chunks", x, s, size, k, f[k - 1])
  BY DEF AreTurns
<1> HIDE DEF size, n
<1>4. 0 \in A
  BY <1>2 DEF SoundState
<1>5. ASSUME NEW k \in Nat, k \in A PROVE k + 1 \in A
  <2> SUFFICES ASSUME k + 1 <= n PROVE SoundState(x, f[k + 1])
    OBVIOUS
  <2>1. k + 1 \in 1..n /\ k + 1 - 1 = k /\ SoundState(x, f[k])
    BY <1>1, <1>5
  <2>2. f[k + 1] = Turn("chunks", x, s, size, k + 1, f[k])
    BY <1>3, <2>1
  <2>3. GoodTurn(x, s, size, k + 1, f[k], Turn("chunks", x, s, size, k + 1, f[k]))
    <3> DEFINE j == k + 1
               u == f[k]
    <3>1. j \in 1..Len(s) /\ SoundState(x, u)
      BY <2>1 DEF n
    <3> HIDE DEF j, u
    <3>2. GoodTurn(x, s, size, j, u, Turn("chunks", x, s, size, j, u))
      BY <1>1, <3>1, TurnIsSound
    <3> QED
      BY <3>2 DEF j, u
  <2> QED
    BY <2>2, <2>3 DEF GoodTurn
<1> HIDE DEF A
<1>6. \A k \in Nat : k \in A
  BY <1>4, <1>5, SetInduction
<1> QED
  BY <1>1, <1>6 DEF A, n

\* What a chunk measures in a window does not depend on the history outside.
LEMMA MeasuresOfTwins ==
    ASSUME NEW x, NEW y, NEW from, AreTwins(x, y, from), EndsBefore(x, from),
           NEW chunk, \A i \in DOMAIN chunk : chunk[i] \in x.valid,
           \A i \in DOMAIN chunk : CoversRows(x, chunk[i]) /\ CoversRows(y, chunk[i])
    PROVE  MeasureChunk(x, ChunkWindow(x, chunk)) = MeasureChunk(y, ChunkWindow(y, chunk))
<1>1. ChunkWindow(x, chunk) = ChunkWindow(y, chunk)
  BY WindowsOfTwins
<1>2. {"execution", "schedule", "policy"} \subseteq ExperimentFields \ {"data", "generate", "cache"}
  BY DEF ExperimentFields
<1>3. x.execution = y.execution /\ x.schedule = y.schedule /\ x.policy = y.policy
  BY <1>2 DEF AreTwins, DifferFrom
<1> DEFINE c == ChunkWindow(x, chunk)
<1> HIDE DEF c
<1>4. MeasureChunk(x, c) = MeasureChunk(y, c)
  BY <1>3 DEF MeasureChunk
<1> QED
  BY <1>1, <1>4 DEF c

\* What twins have in common.
LEMMA TwinFields ==
    ASSUME NEW x, NEW y, NEW from, AreTwins(x, y, from)
    PROVE  /\ x.required = y.required /\ x.supplied = y.supplied /\ x.valid = y.valid
           /\ x.size = y.size /\ x.range = y.range /\ x.execution = y.execution
           /\ x.key = y.key /\ x.memory = y.memory /\ x.config = y.config
           /\ x.data.index = y.data.index /\ Len(x.data.bars) = Len(y.data.bars)
<1>1. {"required", "supplied", "valid", "size", "range", "execution", "key", "memory", "config"}
         \subseteq ExperimentFields \ {"data", "generate", "cache"}
  BY DEF ExperimentFields
<1>2. DifferFrom(x, y, from) /\ IsExperiment(x) /\ IsExperiment(y)
  BY DEF AreTwins
<1>3. /\ x.required = y.required /\ x.supplied = y.supplied /\ x.valid = y.valid
      /\ x.size = y.size /\ x.range = y.range /\ x.execution = y.execution
      /\ x.key = y.key /\ x.memory = y.memory /\ x.config = y.config
      /\ x.data.index = y.data.index
  BY <1>1, <1>2 DEF DifferFrom
<1>4. Len(x.data.bars) = Len(y.data.bars)
  <2>1. /\ IsSequence(x.data.bars) /\ DOMAIN x.data.bars = DOMAIN x.data.index
        /\ IsSequence(y.data.bars) /\ DOMAIN y.data.bars = DOMAIN y.data.index
    BY <1>2 DEF IsExperiment
  <2>2. /\ DOMAIN x.data.bars = 1..Len(x.data.bars) /\ Len(x.data.bars) \in Nat
        /\ DOMAIN y.data.bars = 1..Len(y.data.bars) /\ Len(y.data.bars) \in Nat
    BY <2>1, SequenceRows
  <2> DEFINE a == Len(x.data.bars)
             b == Len(y.data.bars)
  <2>3. 1..a = 1..b /\ a \in Nat /\ b \in Nat
    BY <1>3, <2>1, <2>2
  <2> HIDE DEF a, b
  <2>4. a = b
    <3>1. Cardinality(1..a) = a /\ Cardinality(1..b) = b
      BY <2>3, NumberOfRows
    <3> QED
      BY <2>3, <3>1
  <2> QED
    BY <2>4 DEF a, b
<1> QED
  BY <1>3, <1>4

\* Twins that no gate blocks have the same results in a window that ends before they differ.
LEMMA SweepsOfTwins ==
    ASSUME NEW x, NEW y, NEW from, AreTwins(x, y, from), EndsBefore(x, from),
           IsCache(x.cache, x.generate), IsCache(y.cache, y.generate),
           NEW s, IsSequence(s), \A i \in DOMAIN s : s[i] \in x.valid,
           SimulateInChunks(x, s).blocked = {}, SimulateInChunks(y, s).blocked = {}
    PROVE  SimulateInChunks(x, s).results = SimulateInChunks(y, s).results
<1> DEFINE n == Len(s)
           size == ChunkSize(x, s)
           Start(z) == [blocked |-> {}, results |-> <<>>, cache |-> z.cache]
<1>1. n \in Nat /\ size \in Nat \ {0}
  BY SequenceRows, ChunkSizeIsPositive DEF AreTwins
<1>2. ChunkSize(y, s) = size /\ y.range = x.range /\ y.valid = x.valid
  BY TwinFields DEF ChunkSize
<1>3. PICK f : AreTurns(f, "chunks", x, s, size, Start(x), n) /\ SimulateInChunks(x, s) = f[n]
  BY <1>1, ChunksInTurn
<1>4. PICK g : AreTurns(g, "chunks", y, s, size, Start(y), n) /\ SimulateInChunks(y, s) = g[n]
  <2>1. \E g : /\ AreTurns(g, "chunks", y, s, ChunkSize(y, s), Start(y), Len(s))
               /\ SimulateInChunks(y, s) = g[Len(s)]
    BY <1>1, ChunksInTurn
  <2> QED
    BY <1>2, <2>1
<1>5. x.range # Null /\ IsExperiment(x) /\ IsExperiment(y)
  BY DEF EndsBefore, AreTwins
<1>6. \A k \in 0..n : SoundState(x, f[k])
  BY <1>3, <1>5, SweepIsSound
<1>7. \A k \in 0..n : SoundState(y, g[k])
  <2>1. AreTurns(g, "chunks", y, s, ChunkSize(y, s), Start(y), Len(s))
    BY <1>2, <1>4
  <2>2. \A i \in DOMAIN s : s[i] \in y.valid
    BY <1>2
  <2> QED
    BY <1>2, <1>5, <2>1, <2>2, SweepIsSound
<1> HIDE DEF size
<1> DEFINE Alike(k) == f[k].blocked = {} /\ g[k].blocked = {} => f[k].results = g[k].results
           A == {k \in Nat : k <= n => Alike(k)}
<1>8. 0 \in A
  <2>1. f[0] = Start(x) /\ g[0] = Start(y)
    BY <1>3, <1>4 DEF AreTurns
  <2>2. Alike(0)
    BY <2>1
  <2> QED
    BY <2>2
<1>9. ASSUME NEW k \in Nat, k \in A PROVE k + 1 \in A
  <2> SUFFICES ASSUME k + 1 <= n, f[k + 1].blocked = {}, g[k + 1].blocked = {}
               PROVE  f[k + 1].results = g[k + 1].results
    OBVIOUS
  <2> DEFINE j == k + 1
             c == ChunkFrom(s, j, size)
             M(z) == MeasureChunk(z, ChunkWindow(z, c))
  <2>1. j \in 1..n /\ j - 1 = k /\ k \in 0..n /\ Alike(k)
    BY <1>1, <1>9
  <2>2. /\ f[j] = Turn("chunks", x, s, size, j, f[k])
        /\ g[j] = Turn("chunks", y, s, size, j, g[k])
    <3>1. \A i \in 1..n : f[i] = Turn("chunks", x, s, size, i, f[i - 1])
      BY <1>3 DEF AreTurns
    <3>2. \A i \in 1..n : g[i] = Turn("chunks", y, s, size, i, g[i - 1])
      BY <1>4 DEF AreTurns
    <3> QED
      BY <2>1, <3>1, <3>2
  <2> HIDE DEF j, M, Start, Alike, n
  <2>3. /\ f[j].blocked = {} => f[k].blocked = {}
        /\ f[j].blocked = {} /\ (j - 1) % size = 0 =>
               f[j].results = f[k].results \o M(x) /\ \A i \in DOMAIN c : CoversRows(x, c[i])
    <3>1. SoundState(x, f[k])
      BY <1>6, <2>1
    <3>2. GoodTurn(x, s, size, j, f[k], f[j])
      <4> DEFINE u == f[k]
      <4>1. j \in 1..Len(s) /\ SoundState(x, u)
        BY <2>1, <3>1 DEF n
      <4> HIDE DEF u
      <4>2. GoodTurn(x, s, size, j, u, Turn("chunks", x, s, size, j, u))
        BY <1>1, <1>5, <4>1, TurnIsSound
      <4> QED
        BY <2>2, <4>2 DEF u
    <3> QED
      BY <3>2 DEF M, GoodTurn
  <2>4. /\ g[j].blocked = {} => g[k].blocked = {}
        /\ g[j].blocked = {} /\ (j - 1) % size = 0 =>
               g[j].results = g[k].results \o M(y) /\ \A i \in DOMAIN c : CoversRows(y, c[i])
    <3>1. SoundState(y, g[k])
      BY <1>7, <2>1
    <3>2. y.range # Null /\ \A i \in DOMAIN s : s[i] \in y.valid
      BY <1>2, <1>5
    <3>3. GoodTurn(y, s, size, j, g[k], g[j])
      <4> DEFINE u == g[k]
      <4>1. j \in 1..Len(s) /\ SoundState(y, u)
        BY <2>1, <3>1 DEF n
      <4> HIDE DEF u
      <4>2. GoodTurn(y, s, size, j, u, Turn("chunks", y, s, size, j, u))
        BY <1>1, <1>5, <3>2, <4>1, TurnIsSound
      <4> QED
        BY <2>2, <4>2 DEF u
    <3> QED
      BY <3>3 DEF M, GoodTurn
  <2>5. f[j].blocked = {} /\ g[j].blocked = {}
    BY DEF j
  <2>6. f[k].results = g[k].results
    BY <2>1, <2>3, <2>4, <2>5 DEF Alike
  <2>7. CASE (j - 1) % size = 0
    <3>1. \A i \in DOMAIN c : c[i] \in x.valid
      BY <1>1, <2>1, ChunkOfSettings DEF n
    <3>2. \A i \in DOMAIN c : CoversRows(x, c[i]) /\ CoversRows(y, c[i])
      BY <2>3, <2>4, <2>5, <2>7
    <3> HIDE DEF c
    <3>3. M(x) = M(y)
      BY <3>1, <3>2, MeasuresOfTwins DEF M
    <3>4. f[j].results = f[k].results \o M(x) /\ g[j].results = g[k].results \o M(y)
      BY <2>3, <2>4, <2>5, <2>7
    <3> QED
      BY <2>6, <3>3, <3>4 DEF j
  <2>8. CASE (j - 1) % size # 0
    <3>1. f[j] = f[k] /\ g[j] = g[k]
      BY <2>2, <2>8 DEF Turn
    <3> QED
      BY <2>6, <3>1 DEF j
  <2> QED
    BY <2>7, <2>8
<1> HIDE DEF A
<1>10. n \in A
  BY <1>1, <1>8, <1>9, SetInduction
<1> QED
  BY <1>1, <1>3, <1>4, <1>10 DEF A

-----------------------------------------------------------------------------
(* The result of an experiment *)

\* A row of a result is a setting that was supplied and accepted, with what was measured.
IsRow(r, x, supplied) ==
    /\ r.row \in x.valid /\ r.row \in Range(supplied)
    /\ \E m : r = ScreenMetrics(r.row, m, x.config)

\* A result: its rows, those that passed and its cache.
IsResult(r, x, supplied) ==
    /\ IsSequence(r.ranked) /\ \A i \in DOMAIN r.ranked : IsRow(r.ranked[i], x, supplied)
    /\ Len(r.ranked) = Len(AcceptedParameters(supplied, x.valid))
    /\ IsSequence(r.passing)
    /\ \A i \in DOMAIN r.passing : IsRow(r.passing[i], x, supplied) /\ r.passing[i].passed
    /\ IsCache(r.cache, x.generate)

\* The rows that are ranked.
ScreenedRows(x, s, results) == [i \in DOMAIN s |-> ScreenMetrics(s[i], results[i], x.config)]

\* The settings of an experiment.
LEMMA AcceptedSettings ==
    ASSUME NEW x, IsExperiment(x)
    PROVE  LET s == AcceptedParameters(x.supplied, x.valid)
           IN  /\ IsSequence(s)
               /\ \A i \in DOMAIN s : s[i] \in x.valid /\ s[i] \in Range(x.supplied)
<1> DEFINE S == {i \in DOMAIN x.supplied : x.supplied[i] \in x.valid}
           p == Picked(x.supplied, S)
<1>1. AcceptedParameters(x.supplied, x.valid) = p
  BY DEF AcceptedParameters, Kept, Where
<1>2. IsSequence(x.supplied) /\ S \in SUBSET (DOMAIN x.supplied)
  BY DEF IsExperiment
<1>3. \A i \in S : x.supplied[i] \in x.valid /\ x.supplied[i] \in Range(x.supplied)
  BY <1>2, SequenceRows
<1> HIDE DEF S
<1>4. /\ IsSequence(p) /\ DOMAIN p = 1..Cardinality(S)
      /\ \A i \in 1..Cardinality(S) : Ascending(S)[i] \in S /\ p[i] = x.supplied[Ascending(S)[i]]
  BY <1>2, PickedElements
<1> HIDE DEF p
<1> QED
  BY <1>1, <1>3, <1>4

\* An experiment that no gate blocks ranks what its sweep measured.
LEMMA ExperimentParts ==
    ASSUME NEW x, ExecuteExperiment(x).blocked = {}
    PROVE  LET r == ExecuteExperiment(x)
               s == AcceptedParameters(x.supplied, x.valid)
               sweep == SimulateInChunks(x, s)
           IN  /\ ValidateMarketData(x.data, x.required, x.execution) = {} /\ sweep.blocked = {}
               /\ r.ranked = Ranking(ScreenedRows(x, s, sweep.results), x.key)
               /\ r.passing = Picked(r.ranked, {i \in DOMAIN r.ranked : r.ranked[i].passed})
               /\ r.cache = sweep.cache
<1> DEFINE r == ExecuteExperiment(x)
           market == ValidateMarketData(x.data, x.required, x.execution)
           s == AcceptedParameters(x.supplied, x.valid)
           sweep == SimulateInChunks(x, s)
           rows == ScreenedRows(x, s, sweep.results)
           ranked == Ranking(rows, x.key)
<1> DEFINE out == Kept(ranked, LAMBDA a : ~a.passed)
           best == IF s = <<>> THEN Null
                   ELSE s[BestTrial([i \in DOMAIN rows |-> rows[i].metrics.sharpe],
                                    Len(x.data.bars))]
           kept == Picked(ranked, {i \in DOMAIN ranked : ranked[i].passed})
<1>1. kept = Kept(ranked, LAMBDA a : a.passed)
  BY DEF Kept, Where
<1>2. r = IF market \cup sweep.blocked /= {} THEN [blocked |-> market \cup sweep.blocked]
          ELSE [ranked |-> ranked, passing |-> kept, screened_out |-> out,
                rejected |-> Len(x.supplied) - Len(s), cache |-> sweep.cache,
                luckiest |-> best, blocked |-> {}]
  BY <1>1 DEF ExecuteExperiment, ScreenedRows
<1>3. r.blocked = {}
  OBVIOUS
<1> HIDE DEF r, market, sweep, out, best
<1>4. market \cup sweep.blocked = {}
  BY <1>2, <1>3
<1>5. r = [ranked |-> ranked, passing |-> kept, screened_out |-> out,
           rejected |-> Len(x.supplied) - Len(s), cache |-> sweep.cache,
           luckiest |-> best, blocked |-> {}]
  BY <1>2, <1>4
<1> HIDE DEF ranked, kept, rows, s
<1>6. r.ranked = ranked /\ r.passing = kept /\ r.cache = sweep.cache
  BY <1>5
<1>7. r.passing = Picked(r.ranked, {i \in DOMAIN r.ranked : r.ranked[i].passed})
  BY <1>6 DEF kept
<1> QED
  BY <1>4, <1>6, <1>7 DEF r, market, sweep, ranked, rows, s

\* Its rows are of accepted settings, those that passed among them, and its cache is sound.
LEMMA ExperimentIsSound ==
    ASSUME NEW x, IsExperiment(x), x.range # Null, IsCache(x.cache, x.generate),
           ExecuteExperiment(x).blocked = {}
    PROVE  IsResult(ExecuteExperiment(x), x, x.supplied)
<1> DEFINE r == ExecuteExperiment(x)
           s == AcceptedParameters(x.supplied, x.valid)
           sweep == SimulateInChunks(x, s)
           rows == ScreenedRows(x, s, sweep.results)
           S == {i \in DOMAIN r.ranked : r.ranked[i].passed}
<1>1. /\ sweep.blocked = {} /\ r.ranked = Ranking(rows, x.key)
      /\ r.passing = Picked(r.ranked, S) /\ r.cache = sweep.cache
  BY ExperimentParts
<1>2. /\ IsSequence(s)
      /\ \A i \in DOMAIN s : s[i] \in x.valid /\ s[i] \in Range(x.supplied)
  BY AcceptedSettings
<1> HIDE DEF r, s
<1>3. IsCache(sweep.cache, x.generate)
  <2>1. Len(s) \in Nat
    BY <1>2, SequenceRows
  <2>2. PICK f : /\ AreTurns(f, "chunks", x, s, ChunkSize(x, s),
                             [blocked |-> {}, results |-> <<>>, cache |-> x.cache], Len(s))
                 /\ SimulateInChunks(x, s) = f[Len(s)]
    BY <2>1, ChunksInTurn
  <2>3. \A k \in 0..Len(s) : SoundState(x, f[k])
    BY <1>2, <2>2, SweepIsSound
  <2>4. SoundState(x, f[Len(s)])
    BY <2>1, <2>3
  <2> QED
    BY <1>1, <2>2, <2>4 DEF SoundState
<1> HIDE DEF sweep
<1>4. /\ IsSequence(rows) /\ Len(rows) = Len(s)
      /\ \A i \in DOMAIN rows : IsRow(rows[i], x, x.supplied)
  <2>1. Len(s) \in Nat /\ DOMAIN s = 1..Len(s)
    BY <1>2, SequenceRows
  <2>2. rows = [i \in 1..Len(s) |-> rows[i]]
    BY <2>1 DEF ScreenedRows
  <2>3. IsSequence(rows) /\ Len(rows) = Len(s) /\ DOMAIN rows = DOMAIN s
    BY <2>1, <2>2, FunctionSequence
  <2>4. ASSUME NEW i \in DOMAIN rows PROVE IsRow(rows[i], x, x.supplied)
    <3>1. rows[i] = ScreenMetrics(s[i], sweep.results[i], x.config)
      BY <2>3 DEF ScreenedRows
    <3>2. rows[i].row = s[i]
      BY <3>1 DEF ScreenMetrics
    <3>3. s[i] \in x.valid /\ s[i] \in Range(x.supplied)
      BY <1>2, <2>3
    <3> HIDE DEF rows
    <3> QED
      BY <3>1, <3>2, <3>3 DEF IsRow
  <2> QED
    BY <2>3, <2>4
<1> HIDE DEF rows
<1>5. IsSequence(r.ranked) /\ Len(r.ranked) = Len(s) /\ Range(r.ranked) \subseteq Range(rows)
  BY <1>1, <1>4, RankedRows
<1>6. \A i \in DOMAIN r.ranked : IsRow(r.ranked[i], x, x.supplied)
  <2>1. \A e \in Range(rows) : IsRow(e, x, x.supplied)
    BY <1>4 DEF Range
  <2> QED
    BY <1>5, <2>1, SequenceRows
<1>7. IsSequence(r.passing) /\ \A i \in DOMAIN r.passing : IsRow(r.passing[i], x, x.supplied) /\ r.passing[i].passed
  <2>1. S \in SUBSET (DOMAIN r.ranked) /\ \A i \in S : r.ranked[i].passed /\ IsRow(r.ranked[i], x, x.supplied)
    BY <1>6
  <2> HIDE DEF S
  <2>2. /\ IsSequence(r.passing) /\ DOMAIN r.passing = 1..Cardinality(S)
        /\ \A i \in 1..Cardinality(S) :
               Ascending(S)[i] \in S /\ r.passing[i] = r.ranked[Ascending(S)[i]]
    BY <1>1, <1>5, <2>1, PickedElements
  <2> QED
    BY <2>1, <2>2
<1> QED
  BY <1>1, <1>3, <1>5, <1>6, <1>7 DEF IsResult, r, s

\* Twins have the same result in a window that ends before they differ.
LEMMA ExperimentsOfTwins ==
    ASSUME NEW x, NEW y, NEW from, AreTwins(x, y, from), EndsBefore(x, from),
           IsCache(x.cache, x.generate), IsCache(y.cache, y.generate),
           ExecuteExperiment(x).blocked = {}, ExecuteExperiment(y).blocked = {}
    PROVE  /\ ExecuteExperiment(x).ranked = ExecuteExperiment(y).ranked
           /\ ExecuteExperiment(x).passing = ExecuteExperiment(y).passing
<1> DEFINE r == ExecuteExperiment(x)
           t == ExecuteExperiment(y)
           s == AcceptedParameters(x.supplied, x.valid)
           a == SimulateInChunks(x, s)
           b == SimulateInChunks(y, s)
<1>1. x.supplied = y.supplied /\ x.valid = y.valid /\ x.key = y.key /\ x.config = y.config
  BY TwinFields
<1>2. /\ a.blocked = {} /\ r.ranked = Ranking(ScreenedRows(x, s, a.results), x.key)
      /\ r.passing = Picked(r.ranked, {i \in DOMAIN r.ranked : r.ranked[i].passed})
  BY ExperimentParts
<1>3. /\ b.blocked = {} /\ t.ranked = Ranking(ScreenedRows(y, s, b.results), y.key)
      /\ t.passing = Picked(t.ranked, {i \in DOMAIN t.ranked : t.ranked[i].passed})
  BY <1>1, ExperimentParts
<1>4. IsSequence(s) /\ \A i \in DOMAIN s : s[i] \in x.valid
  BY AcceptedSettings DEF AreTwins
<1> HIDE DEF s, r, t
<1>5. a.results = b.results
  BY <1>2, <1>3, <1>4, SweepsOfTwins
<1> HIDE DEF a, b
<1>6. ScreenedRows(x, s, a.results) = ScreenedRows(y, s, b.results)
  BY <1>1, <1>5 DEF ScreenedRows
<1>7. r.ranked = t.ranked
  BY <1>1, <1>2, <1>3, <1>6
<1> QED
  BY <1>2, <1>3, <1>7 DEF r, t

-----------------------------------------------------------------------------
(* The result of a partition *)

\* An experiment on a partition of its history.
Partition(x, settings, part, cache) ==
    [x EXCEPT !.supplied = settings, !.cache = cache,
              !.range = <<x.data.index[part.first], x.data.index[part.last]>>]

\* Rows of an index that no splitter refuses.
IsPart(part, index) ==
    /\ IndexRefusal(index) = Null
    /\ part.first \in DOMAIN index /\ part.last \in DOMAIN index

\* It differs from the experiment in what it is given.
LEMMA PartitionFields ==
    ASSUME NEW x, IsExperiment(x), NEW s, IsSequence(s), NEW part, NEW cache
    PROVE  LET p == Partition(x, s, part, cache)
           IN  /\ IsExperiment(p)
               /\ p.supplied = s /\ p.cache = cache
               /\ p.range = <<x.data.index[part.first], x.data.index[part.last]>>
               /\ \A f \in ExperimentFields \ {"supplied", "cache", "range"} : p[f] = x[f]
<1> DEFINE p == Partition(x, s, part, cache)
           range == <<x.data.index[part.first], x.data.index[part.last]>>
<1>1. p = [x EXCEPT !.supplied = s, !.cache = cache, !.range = range]
  BY DEF Partition
<1> HIDE DEF p, range
<1>2. x = [f \in ExperimentFields |-> x[f]]
  BY DEF IsExperiment
<1>3. DOMAIN x = ExperimentFields /\ {"supplied", "cache", "range"} \subseteq ExperimentFields
  BY <1>2 DEF ExperimentFields
<1>4. p.supplied = s /\ p.cache = cache /\ p.range = range
  BY <1>1, <1>3
<1>5. \A f \in ExperimentFields \ {"supplied", "cache", "range"} : p[f] = x[f]
  BY <1>1, <1>3
<1>6. p = [f \in ExperimentFields |-> p[f]]
  BY <1>1, <1>3
<1>7. {"data", "execution", "config", "budget", "size", "memory", "valid", "generate"}
         \subseteq ExperimentFields \ {"supplied", "cache", "range"}
  BY DEF ExperimentFields
<1>8. /\ p.data = x.data /\ p.execution = x.execution /\ p.config = x.config
      /\ p.budget = x.budget /\ p.size = x.size /\ p.memory = x.memory
      /\ p.valid = x.valid /\ p.generate = x.generate
  BY <1>5, <1>7
<1>9. IsExperiment(p)
  <2> HIDE DEF p
  <2> QED
    BY <1>4, <1>6, <1>8 DEF IsExperiment
<1> QED
  BY <1>4, <1>5, <1>9 DEF p, range

\* A partition is a window.
LEMMA PartitionIsWindow ==
    ASSUME NEW x, IsExperiment(x), NEW s, IsSequence(s), NEW part, NEW cache,
           IsPart(part, x.data.index)
    PROVE  /\ Partition(x, s, part, cache).range # Null
           /\ \A from \in Int : part.last < from => EndsBefore(Partition(x, s, part, cache), from)
<1> DEFINE p == Partition(x, s, part, cache)
           index == x.data.index
<1>1. /\ p.range = <<index[part.first], index[part.last]>>
      /\ \A f \in ExperimentFields \ {"supplied", "cache", "range"} : p[f] = x[f]
  BY PartitionFields
<1>2. "data" \in ExperimentFields \ {"supplied", "cache", "range"}
  BY DEF ExperimentFields
<1>3. p.data = x.data
  BY <1>1, <1>2
<1> HIDE DEF p
<1>4. /\ IsSequence(index) /\ \A i \in DOMAIN index : index[i] \in Int
      /\ IndexRefusal(index) = Null /\ part.first \in DOMAIN index /\ part.last \in DOMAIN index
  BY DEF IsExperiment, IsPart
<1> HIDE DEF index
<1>5. p.range # Null
  <2>1. p.range \in Int \X Int
    BY <1>1, <1>4
  <2> QED
    BY <2>1, NullAssumption
<1>6. \A i, j \in DOMAIN index : i < j => index[i] < index[j]
  BY <1>4, IndexIsSorted
<1>7. Len(index) \in Nat /\ DOMAIN index = 1..Len(index)
  BY <1>4, SequenceRows
<1>8. ASSUME NEW from \in Int, part.last < from, NEW i \in RowsInside(p.data.index, p.range)
      PROVE  i < from
  <2>1. p.range[2] = index[part.last]
    BY <1>1
  <2>2. i \in DOMAIN index /\ index[i] <= index[part.last]
    BY <1>3, <2>1 DEF RowsInside, index
  <2>3. ~(part.last < i)
    BY <1>4, <1>6, <2>2
  <2>4. i \in Int /\ part.last \in Int
    BY <1>4, <1>7, <2>2
  <2> QED
    BY <1>8, <2>3, <2>4
<1> QED
  BY <1>5, <1>8 DEF EndsBefore, p

\* The result of a partition that no gate blocks is sound.
LEMMA PartitionIsSound ==
    ASSUME NEW x, IsExperiment(x), NEW s, IsSequence(s), NEW part, NEW cache,
           IsPart(part, x.data.index), IsCache(cache, x.generate),
           RunPartition(x, s, part, cache).blocked = {}
    PROVE  IsResult(RunPartition(x, s, part, cache), x, s)
<1> DEFINE p == Partition(x, s, part, cache)
<1>1. RunPartition(x, s, part, cache) = ExecuteExperiment(p)
  BY DEF RunPartition, Partition
<1>2. /\ IsExperiment(p) /\ p.supplied = s /\ p.cache = cache
      /\ \A f \in ExperimentFields \ {"supplied", "cache", "range"} : p[f] = x[f]
  BY PartitionFields
<1>3. {"valid", "config", "generate"} \subseteq ExperimentFields \ {"supplied", "cache", "range"}
  BY DEF ExperimentFields
<1>4. p.valid = x.valid /\ p.config = x.config /\ p.generate = x.generate
  BY <1>2, <1>3
<1>5. p.range # Null
  BY PartitionIsWindow
<1> HIDE DEF p
<1>6. IsResult(ExecuteExperiment(p), p, s)
  BY <1>1, <1>2, <1>4, <1>5, ExperimentIsSound
<1> QED
  BY <1>1, <1>4, <1>6 DEF IsResult, IsRow

\* Twins have the same result on a partition that ends before they differ.
LEMMA PartitionsOfTwins ==
    ASSUME NEW x, NEW y, NEW from, AreTwins(x, y, from),
           NEW s, IsSequence(s), NEW part, IsPart(part, x.data.index), part.last < from,
           NEW c, NEW d, IsCache(c, x.generate), IsCache(d, y.generate),
           RunPartition(x, s, part, c).blocked = {}, RunPartition(y, s, part, d).blocked = {}
    PROVE  /\ RunPartition(x, s, part, c).ranked = RunPartition(y, s, part, d).ranked
           /\ RunPartition(x, s, part, c).passing = RunPartition(y, s, part, d).passing
<1> DEFINE p == Partition(x, s, part, c)
           q == Partition(y, s, part, d)
<1>1. RunPartition(x, s, part, c) = ExecuteExperiment(p) /\ RunPartition(y, s, part, d) = ExecuteExperiment(q)
  BY DEF RunPartition, Partition
<1>2. from \in Int /\ DifferFrom(x, y, from) /\ IsExperiment(x) /\ IsExperiment(y)
  BY DEF AreTwins
<1>3. /\ IsExperiment(p) /\ p.supplied = s /\ p.cache = c
      /\ p.range = <<x.data.index[part.first], x.data.index[part.last]>>
      /\ \A f \in ExperimentFields \ {"supplied", "cache", "range"} : p[f] = x[f]
  BY <1>2, PartitionFields
<1>4. /\ IsExperiment(q) /\ q.supplied = s /\ q.cache = d
      /\ q.range = <<y.data.index[part.first], y.data.index[part.last]>>
      /\ \A f \in ExperimentFields \ {"supplied", "cache", "range"} : q[f] = y[f]
  BY <1>2, PartitionFields
<1>5. EndsBefore(p, from)
  BY <1>2, PartitionIsWindow
<1>6. {"data", "generate", "valid"} \subseteq ExperimentFields \ {"supplied", "cache", "range"}
  BY DEF ExperimentFields
<1>7. /\ p.data = x.data /\ p.generate = x.generate /\ p.valid = x.valid
      /\ q.data = y.data /\ q.generate = y.generate /\ q.valid = y.valid
  BY <1>3, <1>4, <1>6
<1> HIDE DEF p, q
<1>8. AreTwins(p, q, from)
  <2>1. x.data.index = y.data.index
    BY <1>2 DEF DifferFrom
  <2>2. \A f \in ExperimentFields \ {"data", "generate", "cache"} : p[f] = q[f]
    <3> TAKE f \in ExperimentFields \ {"data", "generate", "cache"}
    <3>1. x[f] = y[f]
      BY <1>2 DEF DifferFrom
    <3>2. CASE f = "supplied" \/ f = "range"
      BY <1>3, <1>4, <2>1, <3>2
    <3>3. CASE f # "supplied" /\ f # "range"
      BY <1>3, <1>4, <3>1, <3>3
    <3> QED
      BY <3>2, <3>3
  <2>3. DifferFrom(p, q, from)
    BY <1>2, <1>7, <2>2 DEF DifferFrom
  <2> QED
    BY <1>2, <1>3, <1>4, <2>3 DEF AreTwins
<1>9. IsCache(p.cache, p.generate) /\ IsCache(q.cache, q.generate)
  BY <1>3, <1>4, <1>7
<1> QED
  BY <1>1, <1>5, <1>8, <1>9, ExperimentsOfTwins

-----------------------------------------------------------------------------
(* A trial *)

\* A single setting that is valid is accepted.
LEMMA AcceptedSingle ==
    ASSUME NEW k, NEW valid, k \in valid
    PROVE  Len(AcceptedParameters(<<k>>, valid)) = 1
<1> DEFINE S == {i \in DOMAIN <<k>> : <<k>>[i] \in valid}
<1>1. AcceptedParameters(<<k>>, valid) = Picked(<<k>>, S)
  BY DEF AcceptedParameters, Kept, Where
<1>2. S = 1..1 /\ DOMAIN <<k>> = 1..1
  OBVIOUS
<1>3. IsSequence(<<k>>)
  <2>1. <<k>> \in Seq({k}) /\ Range(<<k>>) = {k}
    BY DEF Range
  <2> QED
    BY <2>1 DEF IsSequence
<1> HIDE DEF S
<1>4. S \in SUBSET (DOMAIN <<k>>)
  BY <1>2
<1>5. Len(Picked(<<k>>, S)) = Cardinality(S)
  BY <1>3, <1>4, PickedElements
<1>6. Cardinality(S) = 1
  BY <1>2, NumberOfRows
<1> QED
  BY <1>1, <1>5, <1>6

\* The settings that passed are accepted ones, and one passed unless there is a reason.
LEMMA PassingAreAccepted ==
    ASSUME NEW x, NEW s, NEW r, IsResult(r, x, s)
    PROVE  LET p == PassingParameters(r)
           IN  /\ IsSequence(p.settings) /\ \A i \in DOMAIN p.settings : p.settings[i] \in x.valid
               /\ p.why = Null => 1 \in DOMAIN p.settings
<1> DEFINE p == PassingParameters(r)
           rows == [i \in DOMAIN r.passing |-> r.passing[i].row]
           why == IF /\ r.ranked /= <<>>
                     /\ \A q \in Range(r.ranked) : q.metrics["total_return"] = Null
                                                     \/ q.metrics["total_return"] <= 0
                  THEN "lost_money" ELSE "none_passed"
<1>1. p = IF r.passing # <<>> THEN [settings |-> rows, why |-> Null]
          ELSE [settings |-> <<>>, why |-> why]
  BY DEF PassingParameters
<1>2. IsSequence(r.passing) /\ \A i \in DOMAIN r.passing : IsRow(r.passing[i], x, s)
  BY DEF IsResult
<1>3. why # Null
  BY NullAssumption
<1> HIDE DEF p, why
<1>4. CASE r.passing # <<>>
  <2>1. Len(r.passing) \in Nat /\ DOMAIN r.passing = 1..Len(r.passing)
    BY <1>2, SequenceRows
  <2>2. rows = [i \in 1..Len(r.passing) |-> rows[i]]
    BY <2>1
  <2>3. IsSequence(rows) /\ DOMAIN rows = DOMAIN r.passing
    BY <2>1, <2>2, FunctionSequence
  <2>4. \A i \in DOMAIN rows : rows[i] \in x.valid
    BY <1>2, <2>3 DEF IsRow
  <2>5. 1 \in DOMAIN rows
    <3>1. Len(r.passing) # 0
      BY <1>2, <1>4 DEF IsSequence
    <3> QED
      BY <2>1, <2>3, <3>1
  <2> HIDE DEF rows
  <2> QED
    BY <1>1, <1>4, <2>3, <2>4, <2>5 DEF p
<1>5. CASE r.passing = <<>>
  <2>1. p.settings = <<>> /\ p.why # Null
    BY <1>1, <1>3, <1>5
  <2>2. IsSequence(<<>>) /\ DOMAIN <<>> = {}
    BY DEF IsSequence, Range
  <2> QED
    BY <2>1, <2>2 DEF p
<1> QED
  BY <1>4, <1>5

\* The steps of a trial.
Training(x, w, cache) == RunPartition(x, x.supplied, w.train, cache)

Survivors(x, w, cache) == PassingParameters(Training(x, w, cache))

Short(x, w, size, cache) == Shortlist(Survivors(x, w, cache).settings, size)

Selection(x, w, size, cache) ==
    IF w.selection = Null THEN Training(x, w, cache)
    ELSE RunPartition(x, Short(x, w, size, cache), w.selection, Training(x, w, cache).cache)

Locked(x, w, size, cache) ==
    LockSelectedParameters(Selection(x, w, size, cache),
                           IF w.selection = Null THEN w.train ELSE w.selection)

Tested(x, w, size, cache) ==
    EvaluateLockedTest(x, w.test, Locked(x, w, size, cache), Selection(x, w, size, cache).cache)

\* What a trial reports.
TrialRecord(status, stage, why, short, lock, test, cache) ==
    [status |-> status, stage |-> stage, why |-> why, shortlist |-> short, lock |-> lock,
     test |-> test, cache |-> cache, raised |-> {}]

\* Where a trial ends that no gate blocks.
EndsInTraining(f, x, w, cache) ==
    /\ Survivors(x, w, cache).why # Null
    /\ f = TrialRecord("failed", "training", Survivors(x, w, cache).why, <<>>, Null, Null,
                       Training(x, w, cache).cache)

EndsInSelection(f, x, w, size, cache) ==
    /\ Survivors(x, w, cache).why = Null
    /\ Selection(x, w, size, cache).blocked = {}
    /\ "refused" \in DOMAIN Locked(x, w, size, cache)
    /\ f = TrialRecord("failed", "selection", Locked(x, w, size, cache).refused,
                       Short(x, w, size, cache), Null, Null, Selection(x, w, size, cache).cache)

EndsInTest(f, x, w, size, cache) ==
    /\ Survivors(x, w, cache).why = Null
    /\ Selection(x, w, size, cache).blocked = {}
    /\ "refused" \notin DOMAIN Locked(x, w, size, cache)
    /\ Tested(x, w, size, cache).blocked = {}
    /\ f = TrialRecord("successful", "test", Null, Short(x, w, size, cache),
                       Locked(x, w, size, cache), Tested(x, w, size, cache).ranked[1],
                       Tested(x, w, size, cache).cache)

\* A trial that raised nothing ended in one of the three ways.
LEMMA TrialSteps ==
    ASSUME NEW x, NEW w, NEW size, NEW cache, Trial(x, w, size, cache).raised = {}
    PROVE  LET f == Trial(x, w, size, cache)
           IN  /\ Training(x, w, cache).blocked = {}
               /\ \/ EndsInTraining(f, x, w, cache)
                  \/ EndsInSelection(f, x, w, size, cache)
                  \/ EndsInTest(f, x, w, size, cache)
<1> DEFINE f == Trial(x, w, size, cache)
           training == Training(x, w, cache)
           survivors == Survivors(x, w, cache)
           short == Short(x, w, size, cache)
           selection == Selection(x, w, size, cache)
           lock == Locked(x, w, size, cache)
           test == Tested(x, w, size, cache)
           Raised(blocked) == [status |-> "raised", raised |-> blocked]
<1>1. f = IF training.blocked /= {} THEN Raised(training.blocked)
          ELSE IF survivors.why /= Null
          THEN TrialRecord("failed", "training", survivors.why, <<>>, Null, Null, training.cache)
          ELSE IF selection.blocked /= {} THEN Raised(selection.blocked)
          ELSE IF "refused" \in DOMAIN lock
          THEN TrialRecord("failed", "selection", lock.refused, short, Null, Null, selection.cache)
          ELSE IF test.blocked /= {} THEN Raised(test.blocked)
          ELSE TrialRecord("successful", "test", Null, short, lock, test.ranked[1], test.cache)
  BY DEF Trial, Training, Survivors, Short, Selection, Locked, Tested, TrialRecord
<1>2. f.raised = {} /\ \A b : Raised(b).raised = b
  OBVIOUS
<1> HIDE DEF f, training, survivors, short, selection, lock, test, Raised
<1>3. training.blocked = {}
  BY <1>1, <1>2
<1>4. CASE survivors.why # Null
  <2>1. f = TrialRecord("failed", "training", survivors.why, <<>>, Null, Null, training.cache)
    BY <1>1, <1>3, <1>4
  <2> QED
    BY <1>3, <1>4, <2>1 DEF EndsInTraining, training, survivors, f
<1>5. CASE survivors.why = Null
  <2>1. selection.blocked = {}
    BY <1>1, <1>2, <1>3, <1>5
  <2>2. CASE "refused" \in DOMAIN lock
    <3>1. f = TrialRecord("failed", "selection", lock.refused, short, Null, Null, selection.cache)
      BY <1>1, <1>3, <1>5, <2>1, <2>2
    <3> QED
      BY <1>3, <1>5, <2>1, <2>2, <3>1
         DEF EndsInSelection, training, survivors, selection, lock, short, f
  <2>3. CASE "refused" \notin DOMAIN lock
    <3>1. test.blocked = {}
      BY <1>1, <1>2, <1>3, <1>5, <2>1, <2>3
    <3>2. f = TrialRecord("successful", "test", Null, short, lock, test.ranked[1], test.cache)
      BY <1>1, <1>3, <1>5, <2>1, <2>3, <3>1
    <3> QED
      BY <1>3, <1>5, <2>1, <2>3, <3>1, <3>2
         DEF EndsInTest, training, survivors, selection, lock, short, test, f
  <2> QED
    BY <2>2, <2>3
<1> QED
  BY <1>4, <1>5

\* The parts of a fold are rows of the index, and those before the test end before it.
IsFold(w, index) ==
    /\ IsPart(w.train, index) /\ IsPart(w.test, index)
    /\ w.selection # Null => IsPart(w.selection, index)
    /\ w.train.last < w.test.first /\ w.test.first <= w.test.last
    /\ w.selection # Null => w.selection.last < w.test.first

\* What a trial whose training is not blocked trains, shortlists and selects from.
LEMMA TrainingIsSound ==
    ASSUME NEW x, IsExperiment(x), NEW w, IsFold(w, x.data.index), NEW size \in Nat,
           NEW cache, IsCache(cache, x.generate), Training(x, w, cache).blocked = {}
    PROVE  /\ IsResult(Training(x, w, cache), x, x.supplied)
           /\ IsSequence(Short(x, w, size, cache))
           /\ \A i \in DOMAIN Short(x, w, size, cache) : Short(x, w, size, cache)[i] \in x.valid
<1> DEFINE a == Training(x, w, cache)
           q == Survivors(x, w, cache).settings
           n == Min({size, Len(q)})
<1>1. IsResult(a, x, x.supplied)
  <2>1. IsSequence(x.supplied) /\ IsPart(w.train, x.data.index)
    BY DEF IsExperiment, IsFold
  <2>2. a = RunPartition(x, x.supplied, w.train, cache)
    BY DEF Training
  <2> HIDE DEF a
  <2>3. RunPartition(x, x.supplied, w.train, cache).blocked = {}
    BY <2>2 DEF a
  <2> QED
    BY <2>1, <2>2, <2>3, PartitionIsSound
<1>2. IsSequence(q) /\ \A i \in DOMAIN q : q[i] \in x.valid
  BY <1>1, PassingAreAccepted DEF Survivors
<1>3. Short(x, w, size, cache) = SubSeq(q, 1, n)
  BY DEF Short, Shortlist
<1> HIDE DEF q
<1>4. Len(q) \in Nat
  BY <1>2, SequenceRows
<1>5. n \in {size, Len(q)} /\ n <= Len(q)
  <2> DEFINE l == Len(q)
  <2>1. size \in Int /\ l \in Int
    BY <1>4
  <2> HIDE DEF l
  <2>2. Min({size, l}) \in {size, l} /\ Min({size, l}) <= l
    BY <2>1, MinOfTwo
  <2> QED
    BY <2>2 DEF l
<1> HIDE DEF n
<1>6. n \in Int /\ 1 \in Int
  BY <1>4, <1>5
<1> DEFINE c == SubSeq(q, 1, n)
<1>7. IsSequence(c) /\ Range(c) \subseteq Range(q)
  BY <1>2, <1>5, <1>6, PartOfSequence
<1> HIDE DEF c
<1>8. \A i \in DOMAIN c : c[i] \in x.valid
  <2>1. \A i \in DOMAIN c : c[i] \in Range(q)
    BY <1>7, SequenceRows
  <2> QED
    BY <1>2, <1>7, <2>1 DEF Range
<1> QED
  BY <1>1, <1>3, <1>7, <1>8 DEF a, c

\* What a trial locks and hands on after a selection that is not blocked.
LEMMA SelectionIsSound ==
    ASSUME NEW x, IsExperiment(x), NEW w, IsFold(w, x.data.index), NEW size \in Nat,
           NEW cache, IsCache(cache, x.generate), Training(x, w, cache).blocked = {},
           Selection(x, w, size, cache).blocked = {}
    PROVE  LET lock == Locked(x, w, size, cache)
           IN  /\ IsCache(Selection(x, w, size, cache).cache, x.generate)
               /\ "refused" \notin DOMAIN lock =>
                      /\ lock.setting \in x.valid /\ lock.first \in Int /\ lock.last \in Int
                      /\ lock = [setting |-> lock.setting, first |-> lock.first, last |-> lock.last]
<1> DEFINE a == Training(x, w, cache)
           b == Selection(x, w, size, cache)
           s == Short(x, w, size, cache)
           p == PassingParameters(b)
           part == IF w.selection = Null THEN w.train ELSE w.selection
           lock == Locked(x, w, size, cache)
<1>1. IsResult(a, x, x.supplied) /\ IsSequence(s) /\ IsCache(a.cache, x.generate)
  BY TrainingIsSound DEF IsResult
<1>2. \E q : IsResult(b, x, q)
  <2>1. CASE w.selection = Null
    BY <1>1, <2>1 DEF Selection
  <2>2. CASE w.selection # Null
    <3>1. b = RunPartition(x, s, w.selection, a.cache) /\ b.blocked = {}
      BY <2>2 DEF Selection
    <3>2. IsPart(w.selection, x.data.index)
      BY <2>2 DEF IsFold
    <3> HIDE DEF a, b, s
    <3>3. RunPartition(x, s, w.selection, a.cache).blocked = {}
      BY <3>1
    <3>4. IsResult(RunPartition(x, s, w.selection, a.cache), x, s)
      BY <1>1, <3>2, <3>3, PartitionIsSound
    <3> QED
      BY <3>1, <3>4
  <2> QED
    BY <2>1, <2>2
<1>3. part.first \in Int /\ part.last \in Int
  <2>1. DOMAIN x.data.index \subseteq Int
    <3> DEFINE q == x.data.index
    <3>1. IsSequence(q)
      BY DEF IsExperiment
    <3> HIDE DEF q
    <3>2. DOMAIN q \subseteq Int
      BY <3>1, SequenceRows
    <3> QED
      BY <3>2 DEF q
  <2> QED
    BY <2>1 DEF IsFold, IsPart
<1>4. lock = IF p.why # Null THEN Refused(p.why)
             ELSE [setting |-> p.settings[1], first |-> part.first, last |-> part.last]
  BY DEF Locked, LockSelectedParameters
<1> HIDE DEF b, lock, part
<1>5. /\ \A i \in DOMAIN p.settings : p.settings[i] \in x.valid
      /\ p.why = Null => 1 \in DOMAIN p.settings
  BY <1>2, PassingAreAccepted
<1> HIDE DEF p
<1>6. "refused" \notin DOMAIN lock => p.why = Null
  BY <1>4 DEF Refused
<1>7. ASSUME p.why = Null
      PROVE  /\ lock.setting \in x.valid /\ lock.first \in Int /\ lock.last \in Int
             /\ lock = [setting |-> lock.setting, first |-> lock.first, last |-> lock.last]
  <2>1. lock = [setting |-> p.settings[1], first |-> part.first, last |-> part.last]
    BY <1>4, <1>7
  <2>2. p.settings[1] \in x.valid
    BY <1>5, <1>7
  <2>3. lock.setting = p.settings[1] /\ lock.first = part.first /\ lock.last = part.last
    BY <2>1
  <2> QED
    BY <1>3, <2>1, <2>2, <2>3
<1> QED
  BY <1>2, <1>6, <1>7 DEF IsResult, b, lock

\* A trial failed before its test, without a lock.
HasFailed(f) ==
    \E stage \in {"training", "selection"} : \E why, short, cache :
        f = TrialRecord("failed", stage, why, short, Null, Null, cache)

\* Or it ended with the test of the valid setting that it locked.
HasTested(f, x) ==
    \E short, setting, first, last, test, cache :
        /\ f = TrialRecord("successful", "test", Null, short,
                           [setting |-> setting, first |-> first, last |-> last], test, cache)
        /\ setting \in x.valid /\ first \in Int /\ last \in Int
        /\ IsRow(test, x, <<setting>>)

\* A trial has done one or the other, and left a sound cache.
IsTrial(f, x) == IsCache(f.cache, x.generate) /\ (HasFailed(f) \/ HasTested(f, x))

\* A trial of a fold that raised nothing is a trial.
LEMMA TrialIsSound ==
    ASSUME NEW x, IsExperiment(x), NEW w, IsFold(w, x.data.index), NEW size \in Nat,
           NEW cache, IsCache(cache, x.generate), Trial(x, w, size, cache).raised = {}
    PROVE  IsTrial(Trial(x, w, size, cache), x)
<1> DEFINE f == Trial(x, w, size, cache)
           a == Training(x, w, cache)
           b == Selection(x, w, size, cache)
           lock == Locked(x, w, size, cache)
           test == Tested(x, w, size, cache)
<1>1. /\ a.blocked = {}
      /\ EndsInTraining(f, x, w, cache) \/ EndsInSelection(f, x, w, size, cache)
             \/ EndsInTest(f, x, w, size, cache)
  BY TrialSteps
<1>2. IsCache(a.cache, x.generate)
  BY <1>1, TrainingIsSound DEF IsResult
<1>3. b.blocked = {} =>
          /\ IsCache(b.cache, x.generate)
          /\ "refused" \notin DOMAIN lock =>
                 /\ lock.setting \in x.valid /\ lock.first \in Int /\ lock.last \in Int
                 /\ lock = [setting |-> lock.setting, first |-> lock.first, last |-> lock.last]
  BY <1>1, SelectionIsSound
<1> HIDE DEF f
<1>4. CASE EndsInTraining(f, x, w, cache)
  <2>1. f = TrialRecord("failed", "training", Survivors(x, w, cache).why, <<>>, Null, Null, a.cache)
    BY <1>4 DEF EndsInTraining
  <2>2. f.cache = a.cache
    BY <2>1 DEF TrialRecord
  <2> HIDE DEF a
  <2>3. HasFailed(f)
    BY <2>1 DEF HasFailed
  <2> QED
    BY <1>2, <2>2, <2>3 DEF IsTrial, f
<1>5. CASE EndsInSelection(f, x, w, size, cache)
  <2>1. /\ f = TrialRecord("failed", "selection", lock.refused, Short(x, w, size, cache), Null, Null, b.cache)
        /\ b.blocked = {}
    BY <1>5 DEF EndsInSelection
  <2>2. f.cache = b.cache
    BY <2>1 DEF TrialRecord
  <2> HIDE DEF b, lock
  <2>3. HasFailed(f)
    BY <2>1 DEF HasFailed
  <2> QED
    BY <1>3, <2>1, <2>2, <2>3 DEF IsTrial, f
<1>6. CASE EndsInTest(f, x, w, size, cache)
  <2>1. /\ f = TrialRecord("successful", "test", Null, Short(x, w, size, cache), lock, test.ranked[1],
                           test.cache)
        /\ b.blocked = {} /\ "refused" \notin DOMAIN lock /\ test.blocked = {}
    BY <1>6 DEF EndsInTest
  <2>2. test = RunPartition(x, <<lock.setting>>, w.test, b.cache)
    BY DEF Tested, EvaluateLockedTest
  <2> HIDE DEF a, b, lock, test
  <2>3. /\ IsCache(b.cache, x.generate)
        /\ lock.setting \in x.valid /\ lock.first \in Int /\ lock.last \in Int
        /\ lock = [setting |-> lock.setting, first |-> lock.first, last |-> lock.last]
    BY <1>3, <2>1
  <2> DEFINE k == lock.setting
  <2> HIDE DEF k
  <2>4. IsSequence(<<k>>) /\ IsPart(w.test, x.data.index)
    <3>1. <<k>> \in Seq({k}) /\ Range(<<k>>) = {k}
      BY DEF Range
    <3> QED
      BY <3>1 DEF IsSequence, IsFold
  <2>5. IsResult(test, x, <<k>>)
    <3>1. RunPartition(x, <<k>>, w.test, b.cache).blocked = {}
      BY <2>1, <2>2 DEF k
    <3>2. IsResult(RunPartition(x, <<k>>, w.test, b.cache), x, <<k>>)
      BY <2>3, <2>4, <3>1, PartitionIsSound
    <3> QED
      BY <2>2, <3>2 DEF k
  <2>6. Len(test.ranked) = 1 /\ IsSequence(test.ranked)
    BY <2>3, <2>5, AcceptedSingle DEF IsResult, k
  <2>7. 1 \in DOMAIN test.ranked
    BY <2>6, SequenceRows
  <2>8. IsRow(test.ranked[1], x, <<k>>) /\ IsCache(test.cache, x.generate)
    BY <2>5, <2>7 DEF IsResult
  <2>9. f.cache = test.cache
    BY <2>1 DEF TrialRecord
  <2>10. HasTested(f, x)
    BY <2>1, <2>3, <2>8 DEF k, HasTested
  <2> QED
    BY <2>8, <2>9, <2>10 DEF IsTrial, f
<1> QED
  BY <1>1, <1>4, <1>5, <1>6 DEF f

\* The rows and the settings of an experiment.
LEMMA IndexRows ==
    ASSUME NEW x, IsExperiment(x)
    PROVE  /\ IsSequence(x.data.index) /\ DOMAIN x.data.index \subseteq Int /\ IsSequence(x.supplied)
<1>1. IsSequence(x.data.index) /\ IsSequence(x.supplied)
  BY DEF IsExperiment
<1>2. DOMAIN x.data.index = 1..Len(x.data.index) /\ Len(x.data.index) \in Nat
  BY <1>1, SequenceRows
<1>3. \A n \in Nat : 1..n \subseteq Int
  OBVIOUS
<1> QED
  BY <1>1, <1>2, <1>3

\* What is trained, shortlisted and locked does not depend on the rows of the test.
LEMMA ChoicesOfTwins ==
    ASSUME NEW x, NEW y, NEW from, AreTwins(x, y, from),
           NEW w, IsFold(w, x.data.index), w.test.first <= from, NEW size \in Nat,
           NEW c, NEW d, IsCache(c, x.generate), IsCache(d, y.generate),
           Training(x, w, c).blocked = {}, Training(y, w, d).blocked = {}
    PROVE  /\ Survivors(x, w, c) = Survivors(y, w, d)
           /\ Short(x, w, size, c) = Short(y, w, size, d)
           /\ Selection(x, w, size, c).blocked = {} /\ Selection(y, w, size, d).blocked = {} =>
                  Locked(x, w, size, c) = Locked(y, w, size, d)
<1> DEFINE s == Short(x, w, size, c)
           index == x.data.index
<1>1. /\ IsExperiment(x) /\ IsExperiment(y) /\ from \in Int
      /\ x.supplied = y.supplied /\ y.data.index = index /\ IsSequence(x.supplied)
  <2>1. IsExperiment(x) /\ IsExperiment(y) /\ from \in Int
    BY DEF AreTwins
  <2>2. x.supplied = y.supplied /\ y.data.index = x.data.index
    BY TwinFields
  <2> QED
    BY <2>1, <2>2, IndexRows
<1>2. /\ IsPart(w.train, index) /\ w.train.last < from
      /\ w.selection # Null => IsPart(w.selection, index) /\ w.selection.last < from
  <2>1. DOMAIN index \subseteq Int
    BY <1>1, IndexRows
  <2>2. w.train.last \in Int /\ w.test.first \in Int /\ (w.selection # Null => w.selection.last \in Int)
    BY <2>1 DEF IsFold, IsPart
  <2> QED
    BY <1>1, <2>2 DEF IsFold
<1>3. /\ Training(x, w, c) = RunPartition(x, x.supplied, w.train, c)
      /\ Training(y, w, d) = RunPartition(y, x.supplied, w.train, d)
  BY <1>1 DEF Training
<1>4. /\ Training(x, w, c).ranked = Training(y, w, d).ranked
      /\ Training(x, w, c).passing = Training(y, w, d).passing
  BY <1>1, <1>2, <1>3, PartitionsOfTwins
<1>5. Survivors(x, w, c) = Survivors(y, w, d)
  BY <1>4 DEF Survivors, PassingParameters
<1>6. Short(x, w, size, c) = Short(y, w, size, d)
  BY <1>5 DEF Short
<1>7. /\ IsSequence(s) /\ IsCache(Training(x, w, c).cache, x.generate)
      /\ IsCache(Training(y, w, d).cache, y.generate)
  <2>1. IsFold(w, y.data.index)
    BY <1>1
  <2> QED
    BY <1>1, <2>1, TrainingIsSound DEF IsResult
<1> HIDE DEF s, index
<1>8. ASSUME Selection(x, w, size, c).blocked = {}, Selection(y, w, size, d).blocked = {}
      PROVE  Locked(x, w, size, c) = Locked(y, w, size, d)
  <2>1. /\ Selection(x, w, size, c).ranked = Selection(y, w, size, d).ranked
        /\ Selection(x, w, size, c).passing = Selection(y, w, size, d).passing
    <3>1. CASE w.selection = Null
      BY <1>4, <3>1 DEF Selection
    <3>2. CASE w.selection # Null
      <4> DEFINE a == Training(x, w, c).cache
                 b == Training(y, w, d).cache
      <4>1. /\ Selection(x, w, size, c) = RunPartition(x, s, w.selection, a)
            /\ Selection(y, w, size, d) = RunPartition(y, s, w.selection, b)
        BY <1>6, <3>2 DEF Selection, s
      <4> HIDE DEF a, b
      <4>2. RunPartition(x, s, w.selection, a).blocked = {} /\ RunPartition(y, s, w.selection, b).blocked = {}
        BY <1>8, <4>1
      <4>3. IsCache(a, x.generate) /\ IsCache(b, y.generate) /\ IsPart(w.selection, x.data.index)
            /\ w.selection.last < from
        BY <1>2, <1>7, <3>2 DEF a, b, index
      <4> QED
        BY <1>7, <4>1, <4>2, <4>3, PartitionsOfTwins
    <3> QED
      BY <3>1, <3>2
  <2> QED
    BY <2>1 DEF Locked, LockSelectedParameters, PassingParameters
<1> QED
  BY <1>5, <1>6, <1>8

\* A record of a trial without its cache.
LEMMA TrialWithoutCache ==
    ASSUME NEW status, NEW stage, NEW why, NEW short, NEW lock, NEW test, NEW c, NEW f,
           f = TrialRecord(status, stage, why, short, lock, test, c)
    PROVE  /\ [f EXCEPT !.cache = Null] = TrialRecord(status, stage, why, short, lock, test, Null)
           /\ f.shortlist = short /\ f.lock = lock
  BY DEF TrialRecord

\* Two trials end alike: with the same choices, and with the same test when it is the same.
EndAlike(f, g, same) ==
    /\ f.shortlist = g.shortlist /\ f.lock = g.lock
    /\ same => [f EXCEPT !.cache = Null] = [g EXCEPT !.cache = Null]

\* Two records that differ in the cache and, when that does not count, in the test.
LEMMA RecordsEndAlike ==
    ASSUME NEW status, NEW stage, NEW why, NEW short, NEW lock, NEW t, NEW u, NEW c, NEW d,
           NEW same, same => t = u, NEW f, NEW g,
           f = TrialRecord(status, stage, why, short, lock, t, c),
           g = TrialRecord(status, stage, why, short, lock, u, d)
    PROVE  EndAlike(f, g, same)
<1>1. /\ [f EXCEPT !.cache = Null] = TrialRecord(status, stage, why, short, lock, t, Null)
      /\ f.shortlist = short /\ f.lock = lock
  BY TrialWithoutCache
<1>2. /\ [g EXCEPT !.cache = Null] = TrialRecord(status, stage, why, short, lock, u, Null)
      /\ g.shortlist = short /\ g.lock = lock
  BY TrialWithoutCache
<1> QED
  BY <1>1, <1>2 DEF EndAlike

\* A trial chooses the same when its test is altered, and ends the same when a later row is.
LEMMA TrialsOfTwins ==
    ASSUME NEW x, NEW y, NEW from, AreTwins(x, y, from),
           NEW w, IsFold(w, x.data.index), NEW size \in Nat,
           NEW c, NEW d, IsCache(c, x.generate), IsCache(d, y.generate),
           Trial(x, w, size, c).raised = {}, Trial(y, w, size, d).raised = {}
    PROVE  SameUpTo(Trial(x, w, size, c), Trial(y, w, size, d), w, from)
<1> DEFINE f == Trial(x, w, size, c)
           g == Trial(y, w, size, d)
           same == w.test.last < from
<1>1. from \in Int /\ w.test.first \in Int /\ w.test.last \in Int /\ w.test.first <= w.test.last
  <2>1. from \in Int /\ DOMAIN x.data.index \subseteq Int
    BY IndexRows DEF AreTwins
  <2> QED
    BY <2>1 DEF IsFold, IsPart
<1>2. CASE ~(w.test.first <= from)
  <2>1. ~(from >= w.test.first) /\ ~(w.test.last < from)
    BY <1>1, <1>2
  <2> HIDE DEF f, g
  <2> QED
    BY <2>1 DEF SameUpTo
<1>3. CASE w.test.first <= from
  <2>1. /\ Training(x, w, c).blocked = {}
        /\ EndsInTraining(f, x, w, c) \/ EndsInSelection(f, x, w, size, c) \/ EndsInTest(f, x, w, size, c)
    BY TrialSteps
  <2>2. /\ Training(y, w, d).blocked = {}
        /\ EndsInTraining(g, y, w, d) \/ EndsInSelection(g, y, w, size, d) \/ EndsInTest(g, y, w, size, d)
    BY TrialSteps
  <2>3. /\ Survivors(x, w, c) = Survivors(y, w, d)
        /\ Short(x, w, size, c) = Short(y, w, size, d)
        /\ Selection(x, w, size, c).blocked = {} /\ Selection(y, w, size, d).blocked = {} =>
               Locked(x, w, size, c) = Locked(y, w, size, d)
    BY <1>3, <2>1, <2>2, ChoicesOfTwins
  <2> HIDE DEF f, g, same
  <2>4. ASSUME EndsInTraining(f, x, w, c) PROVE EndAlike(f, g, same)
    <3>1. EndsInTraining(g, y, w, d)
      BY <2>2, <2>3, <2>4 DEF EndsInTraining, EndsInSelection, EndsInTest
    <3> DEFINE why == Survivors(x, w, c).why
               a == Training(x, w, c).cache
               b == Training(y, w, d).cache
    <3>2. /\ f = TrialRecord("failed", "training", why, <<>>, Null, Null, a)
          /\ g = TrialRecord("failed", "training", why, <<>>, Null, Null, b)
      BY <2>3, <2>4, <3>1 DEF EndsInTraining
    <3> HIDE DEF why, a, b
    <3> QED
      BY <3>2, RecordsEndAlike
  <2>5. ASSUME EndsInSelection(f, x, w, size, c) PROVE EndAlike(f, g, same)
    <3>1. EndsInSelection(g, y, w, size, d)
      BY <2>2, <2>3, <2>5 DEF EndsInTraining, EndsInSelection, EndsInTest
    <3> DEFINE why == Locked(x, w, size, c).refused
               short == Short(x, w, size, c)
               a == Selection(x, w, size, c).cache
               b == Selection(y, w, size, d).cache
    <3>2. /\ f = TrialRecord("failed", "selection", why, short, Null, Null, a)
          /\ g = TrialRecord("failed", "selection", why, short, Null, Null, b)
      BY <2>3, <2>5, <3>1 DEF EndsInSelection
    <3> HIDE DEF why, short, a, b
    <3> QED
      BY <3>2, RecordsEndAlike
  <2>6. ASSUME EndsInTest(f, x, w, size, c) PROVE EndAlike(f, g, same)
    <3>1. EndsInTest(g, y, w, size, d)
      BY <2>2, <2>3, <2>6 DEF EndsInTraining, EndsInSelection, EndsInTest
    <3> DEFINE lock == Locked(x, w, size, c)
               short == Short(x, w, size, c)
               a == Tested(x, w, size, c)
               b == Tested(y, w, size, d)
               p == Selection(x, w, size, c)
               q == Selection(y, w, size, d)
    <3>2. /\ f = TrialRecord("successful", "test", Null, short, lock, a.ranked[1], a.cache)
          /\ g = TrialRecord("successful", "test", Null, short, lock, b.ranked[1], b.cache)
          /\ p.blocked = {} /\ q.blocked = {} /\ a.blocked = {} /\ b.blocked = {}
          /\ Locked(y, w, size, d) = lock /\ "refused" \notin DOMAIN lock
      BY <2>3, <2>6, <3>1 DEF EndsInTest
    <3>3. a = RunPartition(x, <<lock.setting>>, w.test, p.cache)
      BY DEF Tested, EvaluateLockedTest
    <3>4. b = RunPartition(y, <<lock.setting>>, w.test, q.cache)
      BY <3>2 DEF Tested, EvaluateLockedTest
    <3>5. IsCache(p.cache, x.generate)
      BY <2>1, <3>2, SelectionIsSound DEF AreTwins
    <3>6. IsCache(q.cache, y.generate)
      <4>1. IsFold(w, y.data.index)
        BY TwinFields
      <4> QED
        BY <2>2, <3>2, <4>1, SelectionIsSound DEF AreTwins
    <3> HIDE DEF a, b, p, q, lock, short
    <3>7. ASSUME same PROVE a.ranked = b.ranked
      <4> DEFINE s == <<lock.setting>>
      <4>1. IsSequence(s) /\ IsPart(w.test, x.data.index) /\ w.test.last < from
        <5>1. <<lock.setting>> \in Seq({lock.setting}) /\ Range(<<lock.setting>>) = {lock.setting}
          BY DEF Range
        <5> QED
          BY <3>7, <5>1 DEF IsSequence, IsFold, same
      <4> HIDE DEF s
      <4>2. RunPartition(x, s, w.test, p.cache).blocked = {} /\ RunPartition(y, s, w.test, q.cache).blocked = {}
        BY <3>2, <3>3, <3>4 DEF s
      <4>3. RunPartition(x, s, w.test, p.cache).ranked = RunPartition(y, s, w.test, q.cache).ranked
        BY <3>5, <3>6, <4>1, <4>2, PartitionsOfTwins
      <4> QED
        BY <3>3, <3>4, <4>3 DEF s
    <3> DEFINE t == a.ranked[1]
               u == b.ranked[1]
               m == a.cache
               n == b.cache
    <3>8. same => t = u
      BY <3>7
    <3>9. /\ f = TrialRecord("successful", "test", Null, short, lock, t, m)
          /\ g = TrialRecord("successful", "test", Null, short, lock, u, n)
      BY <3>2
    <3> HIDE DEF t, u, m, n
    <3> QED
      BY <3>8, <3>9, RecordsEndAlike
  <2>7. EndAlike(f, g, same)
    BY <2>1, <2>4, <2>5, <2>6
  <2> QED
    BY <2>7 DEF EndAlike, SameUpTo, same, f, g
<1> QED
  BY <1>2, <1>3

-----------------------------------------------------------------------------
(* The folds of a run *)

\* A fold of a run is a trial, whatever the folds before it left in the cache.
IsFoldOf(f, x, w, size) ==
    \E cache : IsCache(cache, x.generate) /\ f = Trial(x, w, size, cache) /\ f.raised = {}

\* The folds that are tried so far.
TriedSoFar(u, x, w, size, k) ==
    /\ "raised" \in DOMAIN u
    /\ u.raised = {} =>
           /\ IsCache(u.cache, x.generate)
           /\ IsSequence(u.folds) /\ Len(u.folds) = k
           /\ \A j \in 1..k : IsFoldOf(u.folds[j], x, w[j], size)

\* A new cache is sound.
LEMMA EmptyCache ==
    ASSUME NEW generate
    PROVE  IsCache(NewSignalCache, generate)
  BY DEF IsCache, NewSignalCache, IsSequence, Range

\* One fold more is tried.
LEMMA NextTrialTried ==
    ASSUME NEW x, IsExperiment(x), NEW c, c.shortlist \in Nat, NEW w, NEW k \in Nat,
           IsFold(w[k + 1], x.data.index), NEW u, TriedSoFar(u, x, w, c.shortlist, k)
    PROVE  TriedSoFar(NextTrial(x, c, w[k + 1], u), x, w, c.shortlist, k + 1)
<1> DEFINE f == Trial(x, w[k + 1], c.shortlist, u.cache)
           t == NextTrial(x, c, w[k + 1], u)
<1>1. t = IF u.raised /= {} THEN u
          ELSE IF f.raised /= {} THEN [u EXCEPT !.raised = f.raised]
          ELSE [raised |-> {}, cache |-> f.cache, folds |-> Append(u.folds, f)]
  BY DEF NextTrial
<1>2. "raised" \in DOMAIN u
  BY DEF TriedSoFar
<1> HIDE DEF f, t
<1>3. CASE u.raised # {}
  <2>1. t = u
    BY <1>1, <1>3
  <2> QED
    BY <1>2, <1>3, <2>1 DEF TriedSoFar, t
<1>4. CASE u.raised = {} /\ f.raised # {}
  <2>1. t = [u EXCEPT !.raised = f.raised]
    BY <1>1, <1>4
  <2>2. t.raised # {} /\ "raised" \in DOMAIN t
    BY <1>2, <1>4, <2>1
  <2> QED
    BY <2>2 DEF TriedSoFar, t
<1>5. CASE u.raised = {} /\ f.raised = {}
  <2>1. t = [raised |-> {}, cache |-> f.cache, folds |-> Append(u.folds, f)]
    BY <1>1, <1>5
  <2>2. t.cache = f.cache /\ t.folds = Append(u.folds, f) /\ "raised" \in DOMAIN t
    BY <2>1
  <2>3. /\ IsCache(u.cache, x.generate) /\ IsSequence(u.folds) /\ Len(u.folds) = k
        /\ \A j \in 1..k : IsFoldOf(u.folds[j], x, w[j], c.shortlist)
    BY <1>5 DEF TriedSoFar
  <2>4. IsTrial(f, x)
    BY <1>5, <2>3, TrialIsSound DEF f
  <2>5. IsFoldOf(f, x, w[k + 1], c.shortlist)
    BY <1>5, <2>3 DEF IsFoldOf, f
  <2>6. /\ IsSequence(t.folds) /\ Len(t.folds) = k + 1
        /\ \A i \in 1..k : t.folds[i] = u.folds[i]
        /\ t.folds[k + 1] = f
    BY <2>2, <2>3, AppendedSequence
  <2>7. \A j \in 1..(k + 1) : IsFoldOf(t.folds[j], x, w[j], c.shortlist)
    <3> TAKE j \in 1..(k + 1)
    <3>1. CASE j = k + 1
      BY <2>5, <2>6, <3>1
    <3>2. CASE j # k + 1
      <4>1. j \in 1..k
        BY <3>2
      <4> QED
        BY <2>3, <2>6, <4>1
    <3> QED
      BY <3>1, <3>2
  <2>8. IsCache(t.cache, x.generate)
    BY <2>2, <2>4 DEF IsTrial
  <2> QED
    BY <2>2, <2>6, <2>7, <2>8 DEF TriedSoFar, t
<1> QED
  BY <1>3, <1>4, <1>5

\* The folds of a run that raised nothing are trials of its windows, one each.
LEMMA FoldsAreTrials ==
    ASSUME NEW x, IsExperiment(x), NEW c, c.shortlist \in Nat, NEW w, IsSequence(w),
           \A k \in DOMAIN w : IsFold(w[k], x.data.index), FoldTrials(x, c, w).raised = {}
    PROVE  \A k \in DOMAIN w : IsFoldOf(FoldTrials(x, c, w).folds[k], x, w[k], c.shortlist)
<1> DEFINE n == Len(w)
           start == [raised |-> {}, cache |-> NewSignalCache, folds |-> <<>>]
<1>1. n \in Nat /\ DOMAIN w = 1..n
  BY SequenceRows
<1>2. PICK f : AreTurns(f, "folds", x, c, w, start, n) /\ FoldTrials(x, c, w) = f[n]
  BY <1>1, FoldsInTurn
<1> DEFINE A == {k \in Nat : k <= n => TriedSoFar(f[k], x, w, c.shortlist, k)}
<1> HIDE DEF n
<1>3. 0 \in A
  <2>1. f[0] = start
    BY <1>2 DEF AreTurns
  <2>2. IsCache(NewSignalCache, x.generate)
    BY EmptyCache
  <2>3. IsSequence(<<>>) /\ Len(<<>>) = 0
    BY DEF IsSequence, Range
  <2>4. /\ "raised" \in DOMAIN start /\ start.cache = NewSignalCache /\ start.folds = <<>>
    OBVIOUS
  <2> HIDE DEF start
  <2>5. TriedSoFar(f[0], x, w, c.shortlist, 0)
    BY <2>1, <2>2, <2>3, <2>4 DEF TriedSoFar
  <2> QED
    BY <2>5
<1>4. ASSUME NEW k \in Nat, k \in A PROVE k + 1 \in A
  <2> SUFFICES ASSUME k + 1 <= n PROVE TriedSoFar(f[k + 1], x, w, c.shortlist, k + 1)
    OBVIOUS
  <2>1. k + 1 \in 1..n /\ k + 1 - 1 = k /\ TriedSoFar(f[k], x, w, c.shortlist, k)
    BY <1>1, <1>4
  <2>2. \A j \in 1..n : f[j] = Turn("folds", x, c, w, j, f[j - 1])
    BY <1>2 DEF AreTurns
  <2>3. f[k + 1] = Turn("folds", x, c, w, k + 1, f[k])
    BY <2>1, <2>2
  <2>4. f[k + 1] = NextTrial(x, c, w[k + 1], f[k])
    BY <2>3 DEF Turn
  <2>5. IsFold(w[k + 1], x.data.index)
    BY <1>1, <2>1
  <2> DEFINE u == f[k]
  <2>6. TriedSoFar(u, x, w, c.shortlist, k)
    BY <2>1
  <2> HIDE DEF u
  <2>7. TriedSoFar(NextTrial(x, c, w[k + 1], u), x, w, c.shortlist, k + 1)
    BY <2>5, <2>6, NextTrialTried
  <2> QED
    BY <2>4, <2>7 DEF u
<1> HIDE DEF A
<1>5. n \in A
  BY <1>1, <1>3, <1>4, SetInduction
<1>6. TriedSoFar(f[n], x, w, c.shortlist, n)
  BY <1>1, <1>5 DEF A
<1> QED
  BY <1>1, <1>2, <1>6 DEF TriedSoFar

\* The windows of a run are folds of its index.
LEMMA WindowIsFold ==
    ASSUME NEW index, NEW s, IsSequence(index), IsSequence(s), DOMAIN s = DOMAIN index,
           IndexRefusal(index) = Null, NEW c, NEW w, WindowIsCut(s, c, w)
    PROVE  IsFold(w, index)
<1>1. DOMAIN s = 1..Len(s) /\ Len(s) \in Nat
  BY SequenceRows
<1>2. /\ w.train.first \in DOMAIN index /\ w.train.last \in DOMAIN index
      /\ w.test.first \in DOMAIN index /\ w.test.last \in DOMAIN index
      /\ w.test.first <= w.test.last
  BY <1>1 DEF WindowIsCut
<1>3. CASE c.selection = 0
  <2>1. w.selection = Null /\ w.test.first = w.train.last + 1
    BY <1>3 DEF WindowIsCut
  <2>2. w.train.last < w.test.first
    BY <1>1, <1>2, <2>1
  <2> QED
    BY <1>2, <2>1, <2>2 DEF IsFold, IsPart
<1>4. CASE c.selection # 0
  <2>1. /\ w.selection # Null /\ w.selection.first \in DOMAIN index /\ w.selection.last \in DOMAIN index
        /\ w.test.first = w.selection.last + 1
        /\ w.selection.first = w.train.last + 1 /\ w.selection.first <= w.selection.last
    BY <1>1, <1>4 DEF WindowIsCut
  <2>2. w.train.last < w.test.first /\ w.selection.last < w.test.first
    BY <1>1, <1>2, <2>1
  <2> QED
    BY <1>2, <2>1, <2>2 DEF IsFold, IsPart
<1> QED
  BY <1>3, <1>4

-----------------------------------------------------------------------------
(* The stages *)

\* The windows of a stage are folds of its history.
LEMMA StageWindowsAreFolds ==
    ASSUME NEW x, IsStageCase(x), x.method \in {"walk", "low"}
    PROVE  LET built == BuildWalkForwardWindows(x.experiment.data.index, x.sessions, x.config)
           IN  "refused" \notin DOMAIN built =>
                   /\ IsSequence(built.windows)
                   /\ \A k \in DOMAIN built.windows :
                          IsFold(built.windows[k], x.experiment.data.index)
<1> DEFINE s == x.sessions
           c == x.config
           index == x.experiment.data.index
           built == BuildWalkForwardWindows(index, s, c)
<1>1. AcceptedWindows(c)
  BY DEF IsStageCase, AcceptedWindows
<1>2. /\ IsSequence(index) /\ \A i \in DOMAIN index : index[i] \in Int
      /\ DOMAIN s = DOMAIN index /\ (IndexRefusal(index) = Null => InOrder(s))
  BY StageRows
<1> HIDE DEF s, c, index
<1>3. \/ built = Refused(IndexRefusal(index))
      \/ /\ IndexRefusal(index) = Null /\ IsSequence(built.windows)
         /\ \A k \in DOMAIN built.windows : WindowIsCut(s, c, built.windows[k])
  BY <1>1, <1>2, WindowsAreBuilt
<1> HIDE DEF built
<1>4. ASSUME IndexRefusal(index) = Null, IsSequence(built.windows),
             \A k \in DOMAIN built.windows : WindowIsCut(s, c, built.windows[k]),
             NEW k \in DOMAIN built.windows
      PROVE  IsFold(built.windows[k], index)
  <2>1. IsSequence(s)
    BY <1>2, <1>4 DEF InOrder
  <2>2. WindowIsCut(s, c, built.windows[k])
    BY <1>4
  <2> DEFINE w == built.windows[k]
  <2> HIDE DEF w
  <2>3. WindowIsCut(s, c, w)
    BY <2>2 DEF w
  <2>4. IsFold(w, index)
    BY <1>2, <1>4, <2>1, <2>3, WindowIsFold
  <2> QED
    BY <2>4 DEF w
<1>5. "refused" \notin DOMAIN built =>
          IsSequence(built.windows) /\ \A k \in DOMAIN built.windows : IsFold(built.windows[k], index)
  BY <1>3, <1>4 DEF Refused
<1> QED
  BY <1>5 DEF built, s, c, index

\* A run of trials, one of every window.
IsWalk(run, e, windows, size) ==
    /\ run.windows = windows
    /\ \A k \in DOMAIN windows : IsFoldOf(run.folds[k], e, windows[k], size)

\* A walk-forward run that is not refused tried every window.
LEMMA WalkIsTrials ==
    ASSUME NEW e, IsExperiment(e), NEW s, NEW c, c.shortlist \in Nat,
           "refused" \notin DOMAIN ExecuteWalkForward(e, s, c),
           LET built == BuildWalkForwardWindows(e.data.index, s, c)
           IN  "refused" \notin DOMAIN built =>
                   /\ IsSequence(built.windows)
                   /\ \A k \in DOMAIN built.windows : IsFold(built.windows[k], e.data.index)
    PROVE  LET built == BuildWalkForwardWindows(e.data.index, s, c)
           IN  /\ "refused" \notin DOMAIN built
               /\ IsWalk(ExecuteWalkForward(e, s, c), e, built.windows, c.shortlist)
<1> DEFINE built == BuildWalkForwardWindows(e.data.index, s, c)
           w == built.windows
           tried == FoldTrials(e, c, w)
           idea == IdeaOverfitting(e, w, tried.cache)
           run == ExecuteWalkForward(e, s, c)
<1> DEFINE all == [windows |-> w, folds |-> tried.folds, summary |-> AggregateFolds(tried.folds),
                   idea |-> idea]
<1>1. run = IF "refused" \in DOMAIN built THEN built
            ELSE IF w = <<>> THEN Refused("no_folds")
            ELSE IF tried.raised \cup idea.blocked /= {} THEN Refused("raised")
            ELSE all
  BY DEF ExecuteWalkForward
<1>2. all.windows = w /\ all.folds = tried.folds
  OBVIOUS
<1> HIDE DEF tried, idea, run, all
<1>3. "refused" \notin DOMAIN run
  BY DEF run
<1>4. "refused" \notin DOMAIN built /\ tried.raised = {} /\ run = all
  BY <1>1, <1>3 DEF Refused
<1>5. IsSequence(w) /\ \A k \in DOMAIN w : IsFold(w[k], e.data.index)
  BY <1>4
<1> HIDE DEF built
<1> HIDE DEF w
<1>6. \A k \in DOMAIN w : IsFoldOf(tried.folds[k], e, w[k], c.shortlist)
  BY <1>4, <1>5, FoldsAreTrials DEF tried
<1>7. IsWalk(run, e, w, c.shortlist)
  BY <1>2, <1>4, <1>6 DEF IsWalk
<1> QED
  BY <1>4, <1>7 DEF run, built, w

\* The prices of a test do not change what a walk-forward run locks.
LEMMA WalkIgnoresTests ==
    ASSUME NEW x, IsStageCase(x), x.method = "walk",
           Completed(ExecuteWalkForward(x.experiment, x.sessions, x.config)),
           Completed(ExecuteWalkForward(x.other, x.sessions, x.config))
    PROVE  LET run == ExecuteWalkForward(x.experiment, x.sessions, x.config)
               other == ExecuteWalkForward(x.other, x.sessions, x.config)
           IN  \A k \in DOMAIN run.windows :
                   SameUpTo(run.folds[k], other.folds[k], run.windows[k], x.from)
<1> DEFINE e == x.experiment
           o == x.other
           s == x.sessions
           c == x.config
           from == x.from
           index == x.experiment.data.index
           built == BuildWalkForwardWindows(index, s, c)
           w == built.windows
           run == ExecuteWalkForward(e, s, c)
           other == ExecuteWalkForward(o, s, c)
<1>1. AreTwins(e, o, from) /\ IsExperiment(e) /\ IsExperiment(o) /\ c.shortlist \in Nat
  BY DEF IsStageCase, AreTwins
<1>2. "refused" \notin DOMAIN run /\ "refused" \notin DOMAIN other
  BY DEF Completed
<1>3. "refused" \notin DOMAIN built =>
          IsSequence(w) /\ \A k \in DOMAIN w : IsFold(w[k], index)
  BY StageWindowsAreFolds
<1>4. e.data.index = index /\ o.data.index = index
  BY <1>1, TwinFields
<1> HIDE DEF e, o, s, c, from, index
<1> HIDE DEF run, other
<1> DEFINE p == ExecuteWalkForward(e, s, c)
           q == ExecuteWalkForward(o, s, c)
<1>5. "refused" \notin DOMAIN built /\ IsWalk(run, e, w, c.shortlist)
  BY <1>1, <1>2, <1>3, <1>4, WalkIsTrials DEF run
<1>6. IsWalk(other, o, w, c.shortlist)
  BY <1>1, <1>2, <1>3, <1>4, WalkIsTrials DEF other
<1>7. \A k \in DOMAIN w : IsFold(w[k], index)
  BY <1>3, <1>5
<1> HIDE DEF w, built
<1>8. ASSUME NEW k \in DOMAIN run.windows
      PROVE  SameUpTo(run.folds[k], other.folds[k], run.windows[k], from)
  <2> DEFINE v == w[k]
  <2>1. k \in DOMAIN w /\ run.windows = w
    BY <1>5 DEF IsWalk
  <2>2. IsFold(v, index) /\ run.windows[k] = v
    BY <1>7, <2>1
  <2>3. PICK a : /\ IsCache(a, e.generate) /\ run.folds[k] = Trial(e, v, c.shortlist, a)
                 /\ run.folds[k].raised = {}
    BY <1>5, <2>1 DEF IsWalk, IsFoldOf
  <2>4. PICK b : /\ IsCache(b, o.generate) /\ other.folds[k] = Trial(o, v, c.shortlist, b)
                 /\ other.folds[k].raised = {}
    BY <1>6, <2>1 DEF IsWalk, IsFoldOf
  <2> DEFINE size == c.shortlist
  <2>5. Trial(e, v, size, a).raised = {} /\ Trial(o, v, size, b).raised = {}
    BY <2>3, <2>4
  <2>6. IsFold(v, e.data.index) /\ size \in Nat
    BY <1>1, <1>4, <2>2
  <2> HIDE DEF v, size
  <2>7. SameUpTo(Trial(e, v, size, a), Trial(o, v, size, b), v, from)
    BY <1>1, <2>3, <2>4, <2>5, <2>6, TrialsOfTwins
  <2> QED
    BY <2>2, <2>3, <2>4, <2>7 DEF size
<1> QED
  BY <1>8 DEF run, other, from, e, o, s, c

\* Unseen data is screened by other thresholds and is otherwise the same experiment.
LEMMA UnseenFields ==
    ASSUME NEW x, IsExperiment(x)
    PROVE  LET u == UnseenDataScreening(x)
           IN  /\ IsExperiment(u)
               /\ u.config = [x.config EXCEPT !.sharpe = Null]
               /\ \A f \in ExperimentFields \ {"config"} : u[f] = x[f]
<1> DEFINE u == UnseenDataScreening(x)
           config == [x.config EXCEPT !.sharpe = Null]
<1>1. u = [x EXCEPT !.config = config]
  BY DEF UnseenDataScreening
<1>2. config = [f \in DOMAIN config |-> config[f]]
  OBVIOUS
<1> HIDE DEF u, config
<1>3. x = [f \in ExperimentFields |-> x[f]]
  BY DEF IsExperiment
<1>4. DOMAIN x = ExperimentFields /\ "config" \in ExperimentFields
  BY <1>3 DEF ExperimentFields
<1>5. u.config = config /\ \A f \in ExperimentFields \ {"config"} : u[f] = x[f]
  BY <1>1, <1>4
<1>6. u = [f \in ExperimentFields |-> u[f]]
  BY <1>1, <1>4
<1>7. {"data", "execution", "supplied", "budget", "size", "memory", "valid", "generate"}
         \subseteq ExperimentFields \ {"config"}
  BY DEF ExperimentFields
<1>8. /\ u.data = x.data /\ u.execution = x.execution /\ u.supplied = x.supplied
      /\ u.budget = x.budget /\ u.size = x.size /\ u.memory = x.memory
      /\ u.valid = x.valid /\ u.generate = x.generate
  BY <1>5, <1>7
<1>9. IsExperiment(u)
  BY <1>2, <1>5, <1>6, <1>8 DEF IsExperiment
<1> QED
  BY <1>5, <1>9 DEF u, config

\* Twins stay twins under the screening of unseen data.
LEMMA UnseenTwins ==
    ASSUME NEW x, NEW y, NEW from, AreTwins(x, y, from)
    PROVE  AreTwins(UnseenDataScreening(x), UnseenDataScreening(y), from)
<1> DEFINE u == UnseenDataScreening(x)
           v == UnseenDataScreening(y)
           rest == ExperimentFields \ {"config"}
<1>1. IsExperiment(x) /\ IsExperiment(y) /\ from \in Int /\ DifferFrom(x, y, from)
  BY DEF AreTwins
<1>2. /\ IsExperiment(u) /\ u.config = [x.config EXCEPT !.sharpe = Null]
      /\ \A f \in rest : u[f] = x[f]
  BY <1>1, UnseenFields
<1>3. /\ IsExperiment(v) /\ v.config = [y.config EXCEPT !.sharpe = Null]
      /\ \A f \in rest : v[f] = y[f]
  BY <1>1, UnseenFields
<1> HIDE DEF u, v
<1>4. {"data", "generate", "valid"} \subseteq rest
  BY DEF ExperimentFields
<1>5. /\ u.data = x.data /\ u.generate = x.generate /\ u.valid = x.valid
      /\ v.data = y.data /\ v.generate = y.generate
  BY <1>2, <1>3, <1>4
<1>6. x.config = y.config
  BY TwinFields
<1>7. \A f \in ExperimentFields \ {"data", "generate", "cache"} : u[f] = v[f]
  <2> TAKE f \in ExperimentFields \ {"data", "generate", "cache"}
  <2>1. x[f] = y[f]
    BY <1>1 DEF DifferFrom
  <2>2. CASE f = "config"
    BY <1>2, <1>3, <1>6, <2>2
  <2>3. CASE f # "config"
    BY <1>2, <1>3, <2>1, <2>3
  <2> QED
    BY <2>2, <2>3
<1> HIDE DEF rest
<1>8. DifferFrom(u, v, from)
  BY <1>1, <1>5, <1>7 DEF DifferFrom
<1> QED
  BY <1>1, <1>2, <1>3, <1>8 DEF AreTwins, u, v

\* A report of a trial with the split it was made on.
WithSplit(t, split) ==
    [k \in DOMAIN t \cup {"split"} |-> IF k = "split" THEN split ELSE t[k]]

\* The cache of a report is that of its trial.
LEMMA ReportWithoutCache ==
    ASSUME NEW t, "cache" \in DOMAIN t, NEW split
    PROVE  [WithSplit(t, split) EXCEPT !.cache = Null] = WithSplit([t EXCEPT !.cache = Null], split)
<1> DEFINE a == [WithSplit(t, split) EXCEPT !.cache = Null]
           b == WithSplit([t EXCEPT !.cache = Null], split)
           D == DOMAIN t \cup {"split"}
           F(k) == IF k = "split" THEN split ELSE IF k = "cache" THEN Null ELSE t[k]
<1>1. a = [k \in D |-> F(k)]
  BY DEF WithSplit
<1>2. b = [k \in D |-> F(k)]
  BY DEF WithSplit
<1> QED
  BY <1>1, <1>2

\* The fields of a trial.
LEMMA TrialFields ==
    ASSUME NEW x, NEW t, IsTrial(t, x)
    PROVE  {"cache", "shortlist", "lock", "test", "raised", "status", "stage"} \subseteq DOMAIN t
<1>1. ASSUME NEW status, NEW stage, NEW why, NEW short, NEW lock, NEW test, NEW c,
             t = TrialRecord(status, stage, why, short, lock, test, c)
      PROVE  {"cache", "shortlist", "lock", "test", "raised", "status", "stage"} \subseteq DOMAIN t
  BY <1>1 DEF TrialRecord
<1>2. CASE HasFailed(t)
  BY <1>1, <1>2 DEF HasFailed
<1>3. CASE HasTested(t, x)
  BY <1>1, <1>3 DEF HasTested
<1> QED
  BY <1>2, <1>3 DEF IsTrial

\* What a trial has, its report has.
LEMMA ReportsOfTrials ==
    ASSUME NEW x, NEW y, NEW t, IsTrial(t, x), NEW u, IsTrial(u, y), NEW w, NEW from,
           SameUpTo(t, u, w, from), NEW split
    PROVE  SameUpTo(WithSplit(t, split), WithSplit(u, split), w, from)
<1>1. {"cache", "shortlist", "lock"} \subseteq DOMAIN t
  BY TrialFields
<1>2. {"cache", "shortlist", "lock"} \subseteq DOMAIN u
  BY TrialFields
<1> DEFINE p == WithSplit(t, split)
           q == WithSplit(u, split)
<1>3. p.shortlist = t.shortlist /\ p.lock = t.lock
  BY <1>1 DEF WithSplit
<1>4. q.shortlist = u.shortlist /\ q.lock = u.lock
  BY <1>2 DEF WithSplit
<1>5. [p EXCEPT !.cache = Null] = WithSplit([t EXCEPT !.cache = Null], split)
  BY <1>1, ReportWithoutCache
<1>6. [q EXCEPT !.cache = Null] = WithSplit([u EXCEPT !.cache = Null], split)
  BY <1>2, ReportWithoutCache
<1> HIDE DEF p, q
<1>7. from >= w.test.first => p.shortlist = q.shortlist /\ p.lock = q.lock
  BY <1>3, <1>4 DEF SameUpTo
<1>8. w.test.last < from => [p EXCEPT !.cache = Null] = [q EXCEPT !.cache = Null]
  BY <1>5, <1>6 DEF SameUpTo
<1> QED
  BY <1>7, <1>8 DEF SameUpTo, p, q

\* A run whose split is not refused is a trial of the split.
LEMMA OutOfSampleIsTrial ==
    ASSUME NEW e, IsExperiment(e), NEW s, DOMAIN s = DOMAIN e.data.index,
           IndexRefusal(e.data.index) = Null => InOrder(s),
           NEW c, SplitConfigHolds(c), {c.train, c.selection, c.test, c.minimum} \subseteq Nat,
           c.shortlist \in Nat, Completed(ExecuteOutOfSample(e, s, c))
    PROVE  LET split == SplitChronologically(e.data.index, s, c)
               u == UnseenDataScreening(e)
               t == Trial(u, split, c.shortlist, NewSignalCache)
           IN  /\ IsFold(split, e.data.index) /\ IsFold(split, u.data.index)
               /\ t.raised = {} /\ IsTrial(t, u)
               /\ ExecuteOutOfSample(e, s, c) = WithSplit(t, split)
<1> DEFINE index == e.data.index
           split == SplitChronologically(index, s, c)
           u == UnseenDataScreening(e)
           t == Trial(u, split, c.shortlist, NewSignalCache)
           run == ExecuteOutOfSample(e, s, c)
<1>1. run = IF "refused" \in DOMAIN split THEN split ELSE WithSplit(t, split)
  BY DEF ExecuteOutOfSample, WithSplit
<1>2. "raised" \in DOMAIN t
  BY DEF Trial
<1>3. IsExperiment(u) /\ u.data = e.data
  <2>1. "data" \in ExperimentFields \ {"config"}
    BY DEF ExperimentFields
  <2> QED
    BY <2>1, UnseenFields
<1> HIDE DEF u
<1>4. \/ \E why : split = Refused(why)
      \/ "refused" \notin DOMAIN split /\ IndexRefusal(index) = Null /\ SplitIsCut(s, split)
  BY SplitIsClean
<1> HIDE DEF t, run, split
<1>5. "refused" \notin DOMAIN split /\ run = WithSplit(t, split)
  BY <1>1 DEF Completed, run
<1>6. IndexRefusal(index) = Null /\ SplitIsCut(s, split)
  BY <1>4, <1>5 DEF Refused
<1>7. t.raised = {}
  <2>1. "raised" \in DOMAIN run /\ run.raised = t.raised
    BY <1>2, <1>5 DEF WithSplit
  <2> QED
    BY <2>1 DEF Completed, run
<1>8. IsFold(split, index)
  <2>1. IsSequence(s)
    BY <1>6 DEF InOrder
  <2>2. DOMAIN index = 1..Len(s)
    BY <2>1, SequenceRows
  <2> HIDE DEF index
  <2> QED
    BY <1>6, <2>2 DEF SplitIsCut, IsFold, IsPart
<1>9. IsFold(split, u.data.index)
  BY <1>3, <1>8
<1>10. IsCache(NewSignalCache, u.generate)
  BY EmptyCache
<1>11. IsTrial(t, u)
  BY <1>3, <1>7, <1>9, <1>10, TrialIsSound DEF t
<1> QED
  BY <1>5, <1>7, <1>8, <1>9, <1>11 DEF run, t, u, split

\* The prices of the test do not change what is shortlisted and locked.
LEMMA OutOfSampleIgnoresTests ==
    ASSUME NEW x, IsStageCase(x), x.method = "oos",
           Completed(ExecuteOutOfSample(x.experiment, x.sessions, x.config)),
           Completed(ExecuteOutOfSample(x.other, x.sessions, x.config))
    PROVE  LET run == ExecuteOutOfSample(x.experiment, x.sessions, x.config)
               other == ExecuteOutOfSample(x.other, x.sessions, x.config)
           IN  SameUpTo(run, other, run.split, x.from)
<1> DEFINE e == x.experiment
           o == x.other
           s == x.sessions
           c == x.config
           from == x.from
           index == x.experiment.data.index
           split == SplitChronologically(index, s, c)
           run == ExecuteOutOfSample(e, s, c)
           other == ExecuteOutOfSample(o, s, c)
<1>1. /\ AreTwins(e, o, from) /\ IsExperiment(e) /\ IsExperiment(o) /\ c.shortlist \in Nat
      /\ SplitConfigHolds(c) /\ {c.train, c.selection, c.test, c.minimum} \subseteq Nat
      /\ DOMAIN s = DOMAIN index /\ (IndexRefusal(index) = Null => InOrder(s))
  BY DEF IsStageCase, AreTwins
<1>2. e.data.index = index /\ o.data.index = index
  BY <1>1, TwinFields
<1>3. Completed(run) /\ Completed(other)
  OBVIOUS
<1> DEFINE u == UnseenDataScreening(e)
           v == UnseenDataScreening(o)
           size == c.shortlist
           cache == NewSignalCache
           t == Trial(u, split, size, cache)
           r == Trial(v, split, size, cache)
<1> HIDE DEF e, o, s, c, from, index
<1>4. /\ IsFold(split, u.data.index) /\ t.raised = {} /\ IsTrial(t, u)
      /\ run = WithSplit(t, split)
  BY <1>1, <1>2, <1>3, OutOfSampleIsTrial
<1>5. r.raised = {} /\ IsTrial(r, v) /\ other = WithSplit(r, split)
  BY <1>1, <1>2, <1>3, OutOfSampleIsTrial
<1> HIDE DEF run, other
<1>6. AreTwins(u, v, from)
  BY <1>1, UnseenTwins
<1>7. IsCache(cache, u.generate) /\ IsCache(cache, v.generate) /\ size \in Nat
  BY <1>1, EmptyCache
<1> HIDE DEF u, v, split, size, cache
<1>8. SameUpTo(t, r, split, from)
  BY <1>4, <1>5, <1>6, <1>7, TrialsOfTwins
<1> HIDE DEF t, r
<1>9. SameUpTo(run, other, split, from)
  BY <1>4, <1>5, <1>8, ReportsOfTrials
<1>10. run.split = split
  BY <1>4 DEF WithSplit
<1> QED
  BY <1>9, <1>10 DEF run, other, from, e, o, s, c

-----------------------------------------------------------------------------
(* The lock that a later stage takes *)

\* What a later stage asks of an out-of-sample report.
IsTaken(p, expected, valid) ==
    /\ p.schema = 1 /\ p.identity = expected.identity /\ p.artifact /\ p.provenance
    /\ p.execution = expected.execution
    /\ Null \notin {p.start, p.end} /\ ~(p.start > p.end)
    /\ p.lock # Null /\ p.lock.id /\ p.lock.parameters # {} /\ p.lock.parameters \subseteq valid
    /\ p.selection = "passed" /\ p.test = "passed"
    /\ FiniteMetrics(p.metrics)

\* A report is taken over when none of the refusals applies.
LEMMA ReportIsTaken ==
    ASSUME NEW p, p.kind = "out_of_sample", NEW expected, NEW valid
    PROVE  (LockRefusals(p, expected, valid) = {}) <=> IsTaken(p, expected, valid)
<1> DEFINE walk == p.kind = "walk_forward"
           chosen == IF walk THEN {f \in Range(p.folds) : f.id = p.chosen} ELSE {}
           twice == Cardinality({i \in DOMAIN p.folds : p.folds[i].id = p.chosen}) /= 1
           fold == IF walk /\ ~twice THEN CHOOSE f \in chosen : TRUE ELSE p
           reasons == {"schema", "kind", "identity", "artifact", "provenance", "execution", "bounds",
                       "fold", "fold_status", "fold_bounds", "lock", "selection", "test", "metrics"}
           Holds(r) ==
               CASE r = "schema" -> p.schema /= 1
                 [] r = "kind" -> p.kind \notin {"out_of_sample", "walk_forward"}
                 [] r = "identity" -> p.identity /= expected.identity
                 [] r = "artifact" -> ~p.artifact
                 [] r = "provenance" -> ~p.provenance
                 [] r = "execution" -> p.execution /= expected.execution
                 [] r = "bounds" -> Null \in {p.start, p.end} \/ p.start > p.end
                 [] r = "fold" -> walk /\ (p.chosen = Null \/ twice)
                 [] r = "fold_status" -> walk /\ ~twice /\ fold.status /= "successful"
                 [] r = "fold_bounds" -> walk /\ ~twice /\ (fold.start /= p.start \/ fold.end /= p.end)
                 [] r = "lock" -> \/ fold.lock = Null
                                  \/ ~fold.lock.id
                                  \/ fold.lock.parameters = {}
                                  \/ ~(fold.lock.parameters \subseteq valid)
                 [] r = "selection" -> fold.selection /= "passed"
                 [] r = "test" -> fold.test /= "passed"
                 [] r = "metrics" -> ~FiniteMetrics(fold.metrics)
<1>1. LockRefusals(p, expected, valid) = {r \in reasons : Holds(r)}
  BY DEF LockRefusals
<1>2. ~walk /\ fold = p
  OBVIOUS
<1> HIDE DEF walk, twice, fold
<1>3. /\ Holds("schema") <=> p.schema # 1
      /\ ~Holds("kind") /\ ~Holds("fold") /\ ~Holds("fold_status") /\ ~Holds("fold_bounds")
      /\ Holds("identity") <=> p.identity # expected.identity
      /\ Holds("artifact") <=> ~p.artifact
      /\ Holds("provenance") <=> ~p.provenance
      /\ Holds("execution") <=> p.execution # expected.execution
  BY <1>2
<1>4. /\ Holds("bounds") <=> Null \in {p.start, p.end} \/ p.start > p.end
      /\ Holds("lock") <=> \/ p.lock = Null \/ ~p.lock.id \/ p.lock.parameters = {}
                           \/ ~(p.lock.parameters \subseteq valid)
      /\ Holds("selection") <=> p.selection # "passed"
      /\ Holds("test") <=> p.test # "passed"
      /\ Holds("metrics") <=> ~FiniteMetrics(p.metrics)
  BY <1>2
<1> HIDE DEF Holds
<1>5. ({r \in reasons : Holds(r)} = {}) <=> \A r \in reasons : ~Holds(r)
  OBVIOUS
<1>6. (\A r \in reasons : ~Holds(r)) <=> IsTaken(p, expected, valid)
  BY <1>3, <1>4 DEF IsTaken
<1> QED
  BY <1>1, <1>5, <1>6

\* A result that passes its rules has finite metrics.
LEMMA PassedIsFinite ==
    ASSUME NEW row, NEW m, NEW config, ScreenMetrics(row, m, config).passed
    PROVE  FiniteMetrics(m)
<1> DEFINE required == RequiredMetrics \cup (IF config.win_rate = Null THEN {} ELSE {"win_rate"})
           Known(a) == a \in DOMAIN m /\ m[a] /= Null
<1>1. FailedRules(m, config) = {}
  BY DEF ScreenMetrics
<1>2. /\ ~(required \subseteq DOMAIN m) => "available" \in FailedRules(m, config)
      /\ (\E a \in required \cap DOMAIN m : ~Known(a)) => "finite" \in FailedRules(m, config)
  BY DEF FailedRules
<1>3. required \subseteq DOMAIN m /\ \A a \in required \cap DOMAIN m : Known(a)
  BY <1>1, <1>2
<1>4. {"total_return", "drawdown", "trades"} \subseteq required
  BY DEF RequiredMetrics
<1> HIDE DEF required
<1> QED
  BY <1>3, <1>4 DEF FiniteMetrics

\* A trial of a stage is taken when it locked a setting that passed its test, and the
\* setting has parameters to lock.
LEMMA TrialIsTaken ==
    ASSUME NEW valid, NEW u, u.valid = valid, NEW t, IsTrial(t, u),
           Null \notin [setting : valid, first : Int, last : Int],
           Null \notin [id : BOOLEAN, parameters : SUBSET valid],
           NEW split, split.test.first \in Nat, split.test.last \in Nat,
           split.test.first <= split.test.last, NEW free \in BOOLEAN
    PROVE  LET run == WithSplit(t, split)
           IN  (LockRefusals(OosReport(run, Published, free), Published, valid) = {})
                 = (run.status = "successful" /\ run.test.passed /\ ~free)
<1> DEFINE run == WithSplit(t, split)
           p == OosReport(run, Published, free)
<1>1. /\ run.status = t.status /\ run.stage = t.stage /\ run.lock = t.lock /\ run.test = t.test
      /\ run.split = split
  <2>1. {"status", "stage", "lock", "test"} \subseteq DOMAIN t
    BY TrialFields
  <2> QED
    BY <2>1 DEF WithSplit
<1> HIDE DEF run
<1>2. /\ p.kind = "out_of_sample" /\ p.schema = 1 /\ p.artifact /\ p.provenance
      /\ p.identity = Published.identity /\ p.execution = Published.execution
      /\ p.start = split.test.first /\ p.end = split.test.last
  BY <1>1 DEF OosReport
<1>3. /\ p.lock = IF t.lock = Null THEN Null
                  ELSE [id |-> TRUE, parameters |-> IF free THEN {} ELSE {t.lock.setting}]
      /\ p.selection = IF t.stage = "training" THEN "not_run"
                       ELSE IF t.status = "successful" THEN "passed" ELSE "screened_out"
      /\ p.test = CASE t.status = "failed" -> "not_run"
                    [] t.test.passed -> "passed"
                    [] OTHER -> "screened_out"
      /\ p.metrics = IF t.status = "failed" THEN <<>> ELSE t.test.metrics
  BY <1>1 DEF OosReport
<1> HIDE DEF p
<1>4. (LockRefusals(p, Published, valid) = {}) <=> IsTaken(p, Published, valid)
  BY <1>2, ReportIsTaken
<1>5. Null \notin {p.start, p.end} /\ ~(p.start > p.end)
  BY <1>2, NullAssumption
<1>6. ASSUME HasFailed(t)
      PROVE  t.status # "successful" /\ ~IsTaken(p, Published, valid)
  <2>1. PICK stage, why, short, cache :
            t = TrialRecord("failed", stage, why, short, Null, Null, cache)
    BY <1>6 DEF HasFailed
  <2>2. t.status = "failed"
    BY <2>1 DEF TrialRecord
  <2>3. p.selection # "passed"
    BY <1>3, <2>2
  <2> QED
    BY <2>2, <2>3 DEF IsTaken
<1>7. ASSUME HasTested(t, u)
      PROVE  /\ t.status = "successful" /\ t.test.passed \in BOOLEAN
             /\ IsTaken(p, Published, valid) <=> t.test.passed /\ ~free
  <2>1. PICK short, setting, first, last, test, cache :
            /\ t = TrialRecord("successful", "test", Null, short,
                               [setting |-> setting, first |-> first, last |-> last], test, cache)
            /\ setting \in u.valid /\ first \in Int /\ last \in Int
            /\ IsRow(test, u, <<setting>>)
    BY <1>7 DEF HasTested
  <2> DEFINE lock == [setting |-> setting, first |-> first, last |-> last]
  <2>2. t.status = "successful" /\ t.stage = "test" /\ t.lock = lock /\ t.test = test
    BY <2>1 DEF TrialRecord
  <2>3. lock # Null /\ lock.setting = setting /\ setting \in valid
    BY <2>1
  <2> HIDE DEF lock
  <2>4. PICK m : test = ScreenMetrics(test.row, m, u.config)
    BY <2>1 DEF IsRow
  <2> DEFINE row == test.row
  <2> HIDE DEF row
  <2>5. test.passed \in BOOLEAN /\ test.metrics = m
    <3>1. test = ScreenMetrics(row, m, u.config)
      BY <2>4 DEF row
    <3> QED
      BY <3>1 DEF ScreenMetrics
  <2> DEFINE keys == IF free THEN {} ELSE {setting}
  <2>6. p.lock = [id |-> TRUE, parameters |-> keys]
    BY <1>3, <2>2, <2>3
  <2>7. keys \subseteq valid /\ (keys # {} <=> ~free)
    BY <2>3
  <2> HIDE DEF keys
  <2>8. p.lock # Null /\ p.lock.id /\ p.lock.parameters = keys
    <3> DEFINE report == [id |-> TRUE, parameters |-> keys]
    <3>1. report \in [id : BOOLEAN, parameters : SUBSET valid] /\ report.id /\ report.parameters = keys
      BY <2>7
    <3> HIDE DEF report
    <3> QED
      BY <2>6, <3>1 DEF report
  <2>9. p.selection = "passed"
    BY <1>3, <2>2
  <2>10. (p.test = "passed") <=> test.passed
    BY <1>3, <2>2, <2>5
  <2>11. p.metrics = m
    BY <1>3, <2>2, <2>5
  <2>12. test.passed => FiniteMetrics(m)
    BY <2>4, PassedIsFinite
  <2>13. IsTaken(p, Published, valid) <=> keys # {} /\ p.test = "passed" /\ FiniteMetrics(p.metrics)
    BY <1>2, <1>5, <2>7, <2>8, <2>9 DEF IsTaken
  <2> QED
    BY <2>2, <2>5, <2>7, <2>10, <2>11, <2>12, <2>13
<1>8. (LockRefusals(p, Published, valid) = {})
        <=> (t.status = "successful" /\ t.test.passed /\ ~free)
  <2>1. CASE HasFailed(t)
    BY <1>4, <1>6, <2>1
  <2>2. CASE HasTested(t, u)
    BY <1>4, <1>7, <2>2
  <2> QED
    BY <2>1, <2>2 DEF IsTrial
<1> QED
  BY <1>1, <1>8 DEF p, run

\* A later stage takes the lock of a run exactly when its test passed.
LEMMA OutOfSampleIsTaken ==
    ASSUME NEW x, IsStageCase(x), x.method = "oos",
           Completed(ExecuteOutOfSample(x.experiment, x.sessions, x.config)), NEW free \in BOOLEAN
    PROVE  LET run == ExecuteOutOfSample(x.experiment, x.sessions, x.config)
           IN  (LockRefusals(OosReport(run, Published, free), Published, x.experiment.valid) = {})
                 = (run.status = "successful" /\ run.test.passed /\ ~free)
<1> DEFINE e == x.experiment
           s == x.sessions
           c == x.config
           split == SplitChronologically(e.data.index, s, c)
           u == UnseenDataScreening(e)
           t == Trial(u, split, c.shortlist, NewSignalCache)
           run == ExecuteOutOfSample(e, s, c)
<1>1. /\ IsExperiment(e) /\ c.shortlist \in Nat
      /\ SplitConfigHolds(c) /\ {c.train, c.selection, c.test, c.minimum} \subseteq Nat
      /\ DOMAIN s = DOMAIN e.data.index /\ (IndexRefusal(e.data.index) = Null => InOrder(s))
      /\ Null \notin [setting : e.valid, first : Int, last : Int]
      /\ Null \notin [id : BOOLEAN, parameters : SUBSET e.valid]
      /\ Completed(run)
  BY DEF IsStageCase
<1> HIDE DEF e, s, c
<1>2. IsFold(split, e.data.index) /\ IsTrial(t, u) /\ run = WithSplit(t, split)
  BY <1>1, OutOfSampleIsTrial
<1>3. u.valid = e.valid
  <2>1. "valid" \in ExperimentFields \ {"config"}
    BY DEF ExperimentFields
  <2> QED
    BY <1>1, <2>1, UnseenFields
<1>4. split.test.first \in Nat /\ split.test.last \in Nat /\ split.test.first <= split.test.last
  <2>1. DOMAIN e.data.index = 1..Len(e.data.index) /\ Len(e.data.index) \in Nat
    BY <1>1, IndexRows, SequenceRows
  <2>2. \A n \in Nat : 1..n \subseteq Nat
    OBVIOUS
  <2> HIDE DEF split
  <2> QED
    BY <1>2, <2>1, <2>2 DEF IsFold, IsPart
<1> HIDE DEF u, t, split, run
<1>5. (LockRefusals(OosReport(WithSplit(t, split), Published, free), Published, e.valid) = {})
        = (WithSplit(t, split).status = "successful" /\ WithSplit(t, split).test.passed /\ ~free)
  <2> DEFINE valid == e.valid
  <2>1. /\ u.valid = valid /\ IsTrial(t, u)
        /\ Null \notin [setting : valid, first : Int, last : Int]
        /\ Null \notin [id : BOOLEAN, parameters : SUBSET valid]
    BY <1>1, <1>2, <1>3
  <2> HIDE DEF valid
  <2>2. (LockRefusals(OosReport(WithSplit(t, split), Published, free), Published, valid) = {})
          = (WithSplit(t, split).status = "successful" /\ WithSplit(t, split).test.passed /\ ~free)
    BY <1>4, <2>1, TrialIsTaken
  <2> QED
    BY <2>2 DEF valid
<1>6. (LockRefusals(OosReport(run, Published, free), Published, e.valid) = {})
        = (run.status = "successful" /\ run.test.passed /\ ~free)
  BY <1>2, <1>5
<1> QED
  BY <1>6 DEF run, e, s, c

-----------------------------------------------------------------------------
(* The drawdown of a column *)

\* A bounded set of numbers that is not empty has a greatest one.
LEMMA GreatestInteger ==
    ASSUME NEW n \in Int, NEW S \in SUBSET Int, \A k \in S : k <= n, S # {}
    PROVE  Max(S) \in S /\ \A k \in S : k <= Max(S)
<1> DEFINE T == {n - k : k \in S}
<1>1. T \in SUBSET Nat /\ T # {}
  <2>1. \A k \in S : n - k \in Nat
    OBVIOUS
  <2>2. \E k : k \in S
    OBVIOUS
  <2> QED
    BY <2>1, <2>2
<1>2. PICK t \in T : \A u \in T : t <= u
  BY <1>1, LeastNumber
<1>3. PICK m \in S : t = n - m
  OBVIOUS
<1>4. ASSUME NEW k \in S PROVE m >= k
  <2>1. n - k \in T
    OBVIOUS
  <2>2. t <= n - k
    BY <1>2, <2>1
  <2> QED
    BY <1>3, <2>2
<1>5. Max(S) \in S /\ \A k \in S : Max(S) >= k
  BY <1>4 DEF Max
<1> QED
  BY <1>5

\* So many numbers are bounded.
LEMMA NumbersAreBounded ==
    ASSUME NEW n \in Nat, NEW v, \A i \in 1..n : v[i] \in Int
    PROVE  \E b \in Nat : \A i \in 1..n : -b <= v[i] /\ v[i] <= b
<1> DEFINE Bounds(b, m) == \A i \in 1..m : -b <= v[i] /\ v[i] <= b
           A == {m \in Nat : m <= n => \E b \in Nat : Bounds(b, m)}
<1>1. 0 \in A
  <2>1. Bounds(0, 0)
    OBVIOUS
  <2> HIDE DEF Bounds
  <2> QED
    BY <2>1
<1>2. ASSUME NEW m \in Nat, m \in A PROVE m + 1 \in A
  <2> SUFFICES ASSUME m + 1 <= n PROVE \E b \in Nat : Bounds(b, m + 1)
    OBVIOUS
  <2>1. PICK b \in Nat : Bounds(b, m)
    BY <1>2
  <2>2. v[m + 1] \in Int
    OBVIOUS
  <2>3. PICK d \in Nat : b <= d /\ -d <= v[m + 1] /\ v[m + 1] <= d
    <3> DEFINE e == v[m + 1]
    <3> HIDE DEF e
    <3>1. e \in Int
      BY <2>2 DEF e
    <3>2. \E d \in Nat : b <= d /\ -d <= e /\ e <= d
      <4>1. CASE e >= 0
        <5>1. b + e \in Nat /\ b <= b + e /\ -(b + e) <= e /\ e <= b + e
          BY <3>1, <4>1
        <5> QED
          BY <5>1
      <4>2. CASE e < 0
        <5>1. b - e \in Nat /\ b <= b - e /\ -(b - e) <= e /\ e <= b - e
          BY <3>1, <4>2
        <5> QED
          BY <5>1
      <4> QED
        BY <3>1, <4>1, <4>2
    <3> QED
      BY <3>2 DEF e
  <2>4. Bounds(d, m + 1)
    <3> SUFFICES ASSUME NEW i \in 1..(m + 1) PROVE -d <= v[i] /\ v[i] <= d
      OBVIOUS
    <3>1. CASE i = m + 1
      BY <2>3, <3>1
    <3>2. CASE i # m + 1
      <4>1. i \in 1..m /\ v[i] \in Int
        BY <3>2
      <4>2. -b <= v[i] /\ v[i] <= b
        BY <2>1, <4>1
      <4> QED
        BY <2>3, <4>1, <4>2
    <3> QED
      BY <3>1, <3>2
  <2> HIDE DEF Bounds
  <2> QED
    BY <2>4
<1> HIDE DEF A
<1>3. n \in A
  BY <1>1, <1>2, SetInduction
<1> QED
  BY <1>3 DEF A

\* What a value has lost on a later row, and the greatest loss.
LossesFrom(v, n, i) == {v[i] - v[j] : j \in i..n}

GreatestLoss(v, n) == Max(UNION {LossesFrom(v, n, i) : i \in 1..n})

\* The greatest loss of so many values is a number, and no gain.
LEMMA GreatestDrop ==
    ASSUME NEW n \in Nat, n >= 1, NEW v, \A i \in 1..n : v[i] \in Int
    PROVE  GreatestLoss(v, n) \in Int /\ GreatestLoss(v, n) >= 0
<1> DEFINE S == UNION {{v[i] - v[j] : j \in i..n} : i \in 1..n}
<1>1. PICK b \in Nat : \A i \in 1..n : -b <= v[i] /\ v[i] <= b
  BY NumbersAreBounded
<1>2. ASSUME NEW e \in S PROVE e \in Int /\ e <= b + b
  <2>1. PICK i \in 1..n : e \in {v[i] - v[j] : j \in i..n}
    OBVIOUS
  <2>3. PICK j \in i..n : e = v[i] - v[j]
    BY <2>1
  <2>2. v[i] \in Int /\ v[j] \in Int /\ v[i] <= b /\ -b <= v[j]
    BY <1>1
  <2> QED
    BY <2>3, <2>2
<1>3. 0 \in S
  <2>1. 1 \in 1..n /\ v[1] \in Int /\ 1 \in 1..n /\ v[1] - v[1] = 0
    OBVIOUS
  <2>2. v[1] - v[1] \in {v[1] - v[j] : j \in 1..n}
    BY <2>1
  <2> QED
    BY <2>1, <2>2
<1> HIDE DEF S
<1>4. Max(S) \in S /\ \A k \in S : k <= Max(S)
  <2>1. S \in SUBSET Int /\ b + b \in Int /\ (\A k \in S : k <= b + b) /\ S # {}
    BY <1>2, <1>3
  <2> QED
    BY <2>1, GreatestInteger
<1>5. Max(S) \in Int /\ 0 <= Max(S)
  BY <1>2, <1>3, <1>4
<1> QED
  BY <1>5 DEF S, GreatestLoss, LossesFrom

-----------------------------------------------------------------------------
(* Money in a portfolio is a number *)

\* A column of n bars whose prices and costs are numbers.
IsPriced(c, n) ==
    /\ Len(c.close) = n /\ c.cash \in Int /\ c.fee \in Int
    /\ \A i \in 1..n : c.close[i] \in Int /\ c.args["price"][i] \in Int /\ c.slippage[i] \in Int

\* A state whose cash and entry price are numbers.
IsFunded(t) ==
    /\ t = [f \in StateFields |-> t[f]]
    /\ t.cash \in Int /\ t.paid \in Int /\ t.position \in {-1, 0, 1}

\* No trade is one.
LEMMA NoTradeIsFunded ==
    ASSUME NEW cash \in Int
    PROVE  IsFunded(NoTrade(cash))
  BY DEF IsFunded, NoTrade, StateFields

\* Nothing but these fields of it matters.
LEMMA FundedFields ==
    ASSUME NEW t, DOMAIN t = StateFields, t = [f \in DOMAIN t |-> t[f]],
           t.cash \in Int, t.paid \in Int, t.position \in {-1, 0, 1}
    PROVE  IsFunded(t)
  BY DEF IsFunded

\* The cap leaves the money alone.
LEMMA CapKeepsFunds ==
    ASSUME NEW bar, NEW i, NEW cap, NEW t, IsFunded(t)
    PROVE  IsFunded(SessionCapSignal(bar, i, cap, t).state)
<1> DEFINE b == IF t.position = 0 THEN 0 ELSE t.side
           u == [t EXCEPT !.session = bar.session, !.count = 0, !.side = b]
           day == IF bar.session = t.session THEN t ELSE u
           ends == \/ day.side > 0 /\ bar.long_exit
                   \/ day.side < 0 /\ bar.short_exit
                   \/ bar.hold >= 0 /\ i - day.since >= bar.hold
           open == day.side /= 0
           v == [day EXCEPT !.side = 0]
<1>1. SessionCapSignal(bar, i, cap, t).state = IF open /\ ends THEN v ELSE day
  BY DEF SessionCapSignal
<1>2. /\ t = [f \in StateFields |-> t[f]] /\ DOMAIN t = StateFields
      /\ t.cash \in Int /\ t.paid \in Int /\ t.position \in {-1, 0, 1}
  BY DEF IsFunded
<1> HIDE DEF b, open, ends
<1>3. IsFunded(u)
  <2>1. DOMAIN u = StateFields /\ u = [f \in DOMAIN u |-> u[f]]
    BY <1>2
  <2>2. u.cash = t.cash /\ u.paid = t.paid /\ u.position = t.position
    BY <1>2 DEF StateFields
  <2> HIDE DEF u
  <2> QED
    BY <1>2, <2>1, <2>2, FundedFields
<1> HIDE DEF u
<1>4. IsFunded(day)
  BY <1>3
<1> HIDE DEF day
<1>5. IsFunded(v)
  <2>1. DOMAIN day = StateFields /\ day.cash \in Int /\ day.paid \in Int /\ day.position \in {-1, 0, 1}
    BY <1>4 DEF IsFunded
  <2>2. DOMAIN v = StateFields /\ v = [f \in DOMAIN v |-> v[f]]
    BY <2>1
  <2>3. v.cash = day.cash /\ v.paid = day.paid /\ v.position = day.position
    BY <2>1 DEF StateFields
  <2> HIDE DEF v
  <2> QED
    BY <2>1, <2>2, <2>3, FundedFields
<1> QED
  BY <1>1, <1>4, <1>5

\* Neither the signal of a bar ...
LEMMA SignalKeepsFunds ==
    ASSUME NEW c, NEW bar, NEW i, NEW t, IsFunded(t)
    PROVE  IsFunded(BarSignal(c, bar, i, t).state)
<1>1. CASE c.cap /= Null
  BY <1>1, CapKeepsFunds DEF BarSignal
<1>2. CASE c.cap = Null
  BY <1>2 DEF BarSignal
<1> QED
  BY <1>1, <1>2

\* ... nor the price it fills at makes it anything but a number ...
LEMMA FillKeepsFunds ==
    ASSUME NEW n \in Nat, NEW c, IsPriced(c, n), NEW i \in 1..n, NEW bar, NEW signal,
           IsFunded(signal.state)
    PROVE  IsFunded(EngineFill(c, signal, bar, i))
<1> DEFINE s == signal.state
           u == EngineFill(c, signal, bar, i)
           leave == \/ signal.long_exit \/ signal.short_exit
                    \/ bar.stop
                    \/ s.hold >= 0 /\ i - s.since >= s.hold
           side == IF signal.long_entry THEN 1 ELSE IF signal.short_entry THEN -1 ELSE 0
           price == c.args["price"][i]
           worse == c.slippage[i]
           Level(n_1) == IF n_1 \in DOMAIN c.args THEN c.args[n_1][i] ELSE Absent(n_1)
           left == s.cash + s.position * (price - s.paid) - worse - c.fee
           stop == Level("sl_stop")
           hold == Level("td_stop")
           paid == price + side * worse
           cash == s.cash - c.fee
           closed == [s EXCEPT !.position = 0, !.cash = left]
           opened == [s EXCEPT !.position = side, !.paid = paid, !.cash = cash,
                               !.trades = @ + 1, !.stop = stop, !.hold = hold]
<1>1. u = IF s.position /= 0 /\ leave THEN closed
          ELSE IF s.position = 0 /\ side /= 0 THEN opened ELSE s
  BY DEF EngineFill
<1>2. side \in {-1, 0, 1}
  OBVIOUS
<1>3. price \in Int /\ worse \in Int /\ c.fee \in Int
  BY DEF IsPriced
<1>4. /\ s = [f \in StateFields |-> s[f]] /\ DOMAIN s = StateFields
      /\ s.cash \in Int /\ s.paid \in Int /\ s.position \in {-1, 0, 1}
  BY DEF IsFunded
<1> HIDE DEF s, side, price, worse, leave, stop, hold
<1>5. left \in Int
  <2>1. s.position * (price - s.paid) \in Int
    BY <1>3, <1>4
  <2> QED
    BY <1>3, <1>4, <2>1
<1>6. paid \in Int /\ cash \in Int
  <2>1. side * worse \in Int
    BY <1>2, <1>3
  <2> QED
    BY <1>3, <1>4, <2>1
<1> HIDE DEF left, paid, cash
<1>7. IsFunded(closed)
  <2>1. DOMAIN closed = StateFields /\ closed = [f \in DOMAIN closed |-> closed[f]]
    BY <1>4
  <2>2. closed.cash = left /\ closed.paid = s.paid /\ closed.position = 0
    BY <1>4 DEF StateFields
  <2> HIDE DEF closed
  <2> QED
    BY <1>4, <1>5, <2>1, <2>2, FundedFields
<1>8. IsFunded(opened)
  <2>1. DOMAIN opened = StateFields /\ opened = [f \in DOMAIN opened |-> opened[f]]
    BY <1>4
  <2>2. opened.cash = cash /\ opened.paid = paid /\ opened.position = side
    BY <1>4 DEF StateFields
  <2> HIDE DEF opened
  <2> QED
    BY <1>2, <1>6, <2>1, <2>2, FundedFields
<1>9. IsFunded(s)
  BY DEF s
<1> HIDE DEF u, closed, opened
<1> QED
  BY <1>1, <1>7, <1>8, <1>9 DEF u

\* ... so a bar leaves numbers.
LEMMA BarKeepsFunds ==
    ASSUME NEW n \in Nat, NEW c, IsPriced(c, n), NEW i \in 1..n, NEW t, IsFunded(t)
    PROVE  IsFunded(NextState(c, i, t))
<1> DEFINE bar == ColumnBar(c, i, t)
           signal == BarSignal(c, bar, i, t)
           v == EngineFill(c, signal, bar, i)
           r == [v EXCEPT !.count = @ + 1, !.side = v.position, !.since = i]
<1>1. NextState(c, i, t) = IF t.position = 0 /\ v.position /= 0 THEN r ELSE v
  BY DEF NextState, RecordTrade
<1> HIDE DEF bar
<1>2. IsFunded(signal.state)
  BY SignalKeepsFunds
<1> HIDE DEF signal
<1>3. IsFunded(v)
  BY <1>2, FillKeepsFunds
<1> HIDE DEF v
<1>4. IsFunded(r)
  <2>1. DOMAIN v = StateFields /\ v.cash \in Int /\ v.paid \in Int /\ v.position \in {-1, 0, 1}
    BY <1>3 DEF IsFunded
  <2>2. DOMAIN r = StateFields /\ r = [f \in DOMAIN r |-> r[f]]
    BY <2>1
  <2>3. r.cash = v.cash /\ r.paid = v.paid /\ r.position = v.position
    BY <2>1 DEF StateFields
  <2> HIDE DEF r
  <2> QED
    BY <2>1, <2>2, <2>3, FundedFields
<1> QED
  BY <1>1, <1>3, <1>4

\* All its bars do.
LEMMA PortfolioIsFunded ==
    ASSUME NEW n \in Nat, NEW c, IsPriced(c, n)
    PROVE  \A i \in 1..n : IsFunded(Portfolio(c)[i])
<1> DEFINE s == Portfolio(c)
           A == {m \in Nat : m \in 1..n => IsFunded(s[m])}
<1>1. Len(c.close) = n
  BY DEF IsPriced
<1>2. IsPortfolio(s, c, n)
  BY <1>1, PortfolioSteps
<1> HIDE DEF s
<1>3. \A i \in 1..n : s[i] = NextState(c, i, StateBefore(c, s, i))
  BY <1>2 DEF IsPortfolio
<1>4. 0 \in A
  OBVIOUS
<1>5. ASSUME NEW m \in Nat, m \in A PROVE m + 1 \in A
  <2> SUFFICES ASSUME m + 1 \in 1..n PROVE IsFunded(s[m + 1])
    OBVIOUS
  <2>1. IsFunded(StateBefore(c, s, m + 1))
    <3>1. CASE m = 0
      <4>1. StateBefore(c, s, m + 1) = NoTrade(c.cash) /\ c.cash \in Int
        BY <3>1 DEF StateBefore, IsPriced
      <4> QED
        BY <4>1, NoTradeIsFunded
    <3>2. CASE m # 0
      <4>1. m \in 1..n /\ m + 1 # 1 /\ (m + 1) - 1 = m
        BY <3>2
      <4> QED
        BY <1>5, <4>1 DEF StateBefore
    <3> QED
      BY <3>1, <3>2
  <2> QED
    BY <1>3, <2>1, BarKeepsFunds
<1> HIDE DEF A
<1>6. \A m \in Nat : m \in A
  BY <1>4, <1>5, SetInduction
<1> QED
  BY <1>6 DEF A, s

\* The drawdown of a column is a number, and no gain.
LEMMA DrawdownIsLoss ==
    ASSUME NEW n \in Nat, n >= 1, NEW c, IsPriced(c, n),
           NEW times, Len(times) = n, DOMAIN times = 1..n, NEW schedule, NEW policy
    PROVE  LET m == ExtractMetrics(c, times, schedule, policy)
           IN  m.drawdown \in Int /\ m.drawdown <= 0
<1> DEFINE s == Portfolio(c)
           v == [i \in 1..n |-> ValueAt(c, s[i], i)]
           Fall(i) == {ValueAt(c, s[i], i) - ValueAt(c, s[j], j) : j \in i..Len(times)}
           spread == Max(UNION {Fall(i) : i \in DOMAIN times})
<1>1. \A i \in 1..n : v[i] \in Int
  <2> TAKE i \in 1..n
  <2>1. IsFunded(s[i])
    BY PortfolioIsFunded
  <2> DEFINE t == s[i]
             p == t.position
             gain == c.close[i] - t.paid
  <2>2. t.cash \in Int /\ p \in {-1, 0, 1} /\ gain \in Int
    BY <2>1 DEF IsFunded, IsPriced
  <2>3. ValueAt(c, t, i) = t.cash + p * gain
    BY DEF ValueAt
  <2>4. v[i] = ValueAt(c, t, i)
    OBVIOUS
  <2> HIDE DEF t, p, gain, v
  <2>5. p * gain \in Int
    BY <2>2
  <2> QED
    BY <2>2, <2>3, <2>4, <2>5
<1>2. spread = GreatestLoss(v, n)
  <2>1. ASSUME NEW i \in 1..n PROVE LossesFrom(v, n, i) = Fall(i)
    <3>1. \A j \in i..n : j \in 1..n
      OBVIOUS
    <3>2. \A j \in 1..n : v[j] = ValueAt(c, s[j], j)
      OBVIOUS
    <3> HIDE DEF v, s
    <3> QED
      BY <3>1, <3>2 DEF LossesFrom
  <2> HIDE DEF v, Fall
  <2>2. {LossesFrom(v, n, i) : i \in 1..n} = {Fall(i) : i \in DOMAIN times}
    BY <2>1
  <2> QED
    BY <2>2 DEF GreatestLoss
<1>3. GreatestLoss(v, n) \in Int /\ GreatestLoss(v, n) >= 0
  <2> HIDE DEF v
  <2> QED
    BY <1>1, GreatestDrop
<1>4. ExtractMetrics(c, times, schedule, policy).drawdown = -spread
  BY DEF ExtractMetrics
<1> HIDE DEF v, spread
<1> QED
  BY <1>2, <1>3, <1>4

-----------------------------------------------------------------------------
(* Prices that the gates let pass *)

\* What an experiment fills orders at, and what a fill costs.
IsPlan(e) ==
    /\ e.price_field \in {"Open", "Close"}
    /\ {e.multiplier, e.cash, e.slippage, e.slippage_points, e.slippage_ticks, e.fixed_fee}
          \subseteq Int
    /\ e.slippage_ticks # 0 => e.tick_size \in Int

\* Assumptions without a contradiction name a price and, for ticks, their size.
LEMMA AssumptionsHold ==
    ASSUME NEW e, AssumptionFailures(e) = {}
    PROVE  /\ e.price_field \in {"Open", "Close"}
           /\ e.slippage_ticks # 0 => e.tick_size # Null
<1>1. /\ "mode" \notin AssumptionFailures(e) /\ "price_field" \notin AssumptionFailures(e)
      /\ "tick_size" \notin AssumptionFailures(e)
  OBVIOUS
<1> DEFINE price == [next_bar_open |-> "Open", same_bar_close |-> "Close"]
<1>2. e.mode \in DOMAIN price
  BY <1>1 DEF AssumptionFailures
<1>3. ~(e.mode \in DOMAIN price /\ e.price_field /= price[e.mode])
  BY <1>1 DEF AssumptionFailures
<1>4. ~(e.slippage_ticks /= 0 /\ (e.tick_size = Null \/ e.tick_size <= 0))
  BY <1>1 DEF AssumptionFailures
<1>5. price[e.mode] \in {"Open", "Close"}
  BY <1>2
<1> QED
  BY <1>2, <1>3, <1>4, <1>5

\* Neither has an execution that no gate blocks.
LEMMA PlanIsPriced ==
    ASSUME NEW e,
           {e.multiplier, e.cash, e.slippage, e.slippage_points, e.slippage_ticks, e.fixed_fee}
              \subseteq Int, e.tick_size \in Int \cup {Null},
           NEW data, NEW raw, NEW aligned, ValidateExecution(data, raw, aligned, e) = {}
    PROVE  IsPlan(e)
<1>1. "assumptions" \notin ValidateExecution(data, raw, aligned, e)
  OBVIOUS
<1>2. AssumptionFailures(e) = {}
  BY <1>1 DEF ValidateExecution
<1>3. e.price_field \in {"Open", "Close"} /\ (e.slippage_ticks # 0 => e.tick_size # Null)
  BY <1>2, AssumptionsHold
<1>4. e.slippage_ticks # 0 => e.tick_size \in Int
  BY <1>3
<1>5. {e.multiplier, e.cash, e.slippage, e.slippage_points, e.slippage_ticks, e.fixed_fee}
         \subseteq Int
  OBVIOUS
<1> QED
  BY <1>3, <1>4, <1>5, Zenon DEF IsPlan

\* The prices that a plan reads are numbers.
LEMMA PricesAreNumbers ==
    ASSUME NEW x, IsExperiment(x), IsPlan(x.execution),
           ValidateMarketData(x.data, x.required, x.execution) = {}
    PROVE  \A i \in DOMAIN x.data.bars :
               /\ x.data.bars[i]["Close"] \in Int
               /\ x.data.bars[i][x.execution.price_field] \in Int
<1> DEFINE d == x.data
           e == x.execution
           required == x.required
<1>1. /\ "required_columns" \notin ValidateMarketData(d, required, e)
      /\ "prices_non_null" \notin ValidateMarketData(d, required, e)
  OBVIOUS
<1>2. \A i \in DOMAIN d.bars, c \in PriceColumns : d.bars[i][c] \in Int \cup {Null}
  BY DEF IsExperiment
<1>3. e.price_field \in {"Open", "Close"}
  BY DEF IsPlan
<1> HIDE DEF d, e, required
<1>4. (required \cup {"Close", e.price_field}) \subseteq d.columns
  BY <1>1 DEF ValidateMarketData
<1>5. ~ \E i \in DOMAIN d.bars, c \in PriceColumns \cap d.columns : d.bars[i][c] = Null
  BY <1>1 DEF ValidateMarketData
<1>6. \A c \in {"Close", e.price_field} : c \in PriceColumns /\ c \in PriceColumns \cap d.columns
  BY <1>3, <1>4 DEF PriceColumns
<1>7. \A i \in DOMAIN d.bars : \A c \in {"Close", e.price_field} : d.bars[i][c] \in Int
  BY <1>2, <1>5, <1>6
<1>8. \A i \in DOMAIN d.bars : d.bars[i]["Close"] \in Int /\ d.bars[i][e.price_field] \in Int
  BY <1>7
<1> QED
  BY <1>8 DEF d, e

\* The price column of a setting is that of the bars.
LEMMA SettingPrice ==
    ASSUME NEW data, NEW a, NEW e
    PROVE  LET args == SettingArgs(data, a, e)
           IN  /\ "price" \in DOMAIN args
               /\ args["price"] = [i \in DOMAIN data.bars |->
                                      data.bars[i][e.price_field] * e.multiplier]
<1> DEFINE source == CASE e.direction = "shortonly" ->
                            [entries |-> "short_entries", exits |-> "short_exits"]
                       [] e.direction = "longonly" ->
                            [entries |-> "entries", exits |-> "exits"]
                       [] OTHER -> [n \in SignalNames |-> n]
           present == {n \in DOMAIN source : source[n] \in DOMAIN a.signals}
           signals == [n \in present |-> a.signals[source[n]].values]
           price == [i \in DOMAIN data.bars |-> data.bars[i][e.price_field] * e.multiplier]
           stops == StopArgs(data, a, e)
           args == SettingArgs(data, a, e)
           Input(n) == CASE n \in present -> signals[n]
                         [] n = "price" -> price
                         [] OTHER -> stops[n]
<1>1. args = [n \in present \cup {"price"} \cup DOMAIN stops |-> Input(n)]
  BY DEF SettingArgs
<1>2. "price" \notin DOMAIN source
  <2>1. CASE e.direction = "shortonly"
    BY <2>1
  <2>2. CASE e.direction = "longonly"
    BY <2>2
  <2>3. CASE e.direction # "shortonly" /\ e.direction # "longonly"
    BY <2>3 DEF SignalNames
  <2> QED
    BY <2>1, <2>2, <2>3
<1> HIDE DEF source
<1>3. "price" \notin present
  BY <1>2
<1> HIDE DEF present, price, signals, stops, args
<1>4. Input("price") = price
  BY <1>3
<1>5. "price" \in DOMAIN args /\ args["price"] = Input("price")
  BY <1>1
<1> QED
  BY <1>4, <1>5 DEF args, price

\* The columns of an engine call on bars with prices are priced.
LEMMA ColumnsArePriced ==
    ASSUME NEW data, NEW aligned, NEW e, IsPlan(e), NEW n \in Nat, DOMAIN data.bars = 1..n,
           \A i \in 1..n : data.bars[i]["Close"] \in Int /\ data.bars[i][e.price_field] \in Int,
           NEW k \in DOMAIN aligned
    PROVE  IsPriced(ConstructPortfolio(data, aligned, e)[k], n)
<1> DEFINE args == [i \in DOMAIN aligned |-> SettingArgs(data, aligned[i], e)]
           keys == UNION {DOMAIN args[i] : i \in DOMAIN args}
           stacked == StackSettings(args, Len(data.bars))
           own == [key \in DOMAIN stacked |-> stacked[key][k]]
           close == [t \in DOMAIN data.bars |-> data.bars[t]["Close"] * e.multiplier]
           price == [i \in DOMAIN data.bars |-> data.bars[i][e.price_field] * e.multiplier]
           slippage == ExecutionSlippage(args[k]["price"], e)
           c == ConstructPortfolio(data, aligned, e)[k]
<1>1. c = [args |-> own, close |-> close, direction |-> e.direction, cash |-> e.cash,
           fee |-> e.fixed_fee, slippage |-> slippage, cap |-> aligned[1].cap,
           sessions |-> aligned[1].sessions]
  BY DEF ConstructPortfolio
<1>2. "price" \in DOMAIN args[k] /\ args[k]["price"] = price
  BY SettingPrice
<1>3. own["price"] = price
  <2> DEFINE First(key) == args[Min({i \in DOMAIN args : key \in DOMAIN args[i]})][key]
             Fill(key) == IF key \in SignalNames THEN FALSE ELSE Absent(key)
             Row(key) == [i \in DOMAIN args |->
                             IF key \in SharedArgs THEN First(key)
                             ELSE IF key \in DOMAIN args[i] THEN args[i][key]
                             ELSE [t \in 1..Len(data.bars) |-> Fill(key)]]
  <2>1. stacked = [key \in keys |-> Row(key)]
    BY DEF StackSettings
  <2>2. k \in DOMAIN args
    OBVIOUS
  <2> HIDE DEF args, stacked, First, Fill
  <2>3. "price" \in keys /\ "price" \notin SharedArgs
    BY <1>2, <2>2 DEF SharedArgs
  <2>4. Row("price")[k] = args[k]["price"]
    BY <1>2, <2>2, <2>3
  <2> HIDE DEF keys, Row
  <2>5. "price" \in DOMAIN stacked /\ stacked["price"] = Row("price")
    BY <2>1, <2>3
  <2> QED
    BY <1>2, <2>4, <2>5
<1>4. e.multiplier \in Int /\ e.cash \in Int /\ e.fixed_fee \in Int /\ e.slippage \in Int
  BY DEF IsPlan
<1>5. \A i \in 1..n : close[i] \in Int /\ price[i] \in Int
  <2> TAKE i \in 1..n
  <2> DEFINE p == data.bars[i]["Close"]
             q == data.bars[i][e.price_field]
  <2>1. p \in Int /\ q \in Int
    OBVIOUS
  <2>2. close[i] = p * e.multiplier /\ price[i] = q * e.multiplier
    OBVIOUS
  <2> HIDE DEF p, q, close, price
  <2> QED
    BY <1>4, <2>1, <2>2
<1>6. \A i \in 1..n : slippage[i] \in Int
  <2> DEFINE ticks == e.slippage_ticks * e.tick_size
             points == e.slippage_points + (IF e.slippage_ticks = 0 THEN 0 ELSE ticks)
  <2>1. slippage = [t \in DOMAIN price |-> (e.slippage * price[t]) \div 100 + points * e.multiplier]
    BY <1>2 DEF ExecutionSlippage
  <2>2. points \in Int
    <3>1. e.slippage_points \in Int /\ e.slippage_ticks \in Int
          /\ (e.slippage_ticks # 0 => e.tick_size \in Int)
      BY DEF IsPlan
    <3>2. e.slippage_ticks # 0 => ticks \in Int
      BY <3>1
    <3> HIDE DEF ticks
    <3> QED
      BY <3>1, <3>2
  <2>3. DOMAIN price = 1..n
    OBVIOUS
  <2> HIDE DEF points, price, slippage
  <2> TAKE i \in 1..n
  <2> DEFINE p == price[i]
             product == e.slippage * p
             rest == points * e.multiplier
  <2>4. p \in Int
    BY <1>5
  <2>5. slippage[i] = product \div 100 + rest
    BY <2>1, <2>3
  <2> HIDE DEF p
  <2>6. product \in Int /\ rest \in Int
    BY <1>4, <2>2, <2>4
  <2> HIDE DEF product, rest
  <2>7. product \div 100 + rest \in Int
    BY <2>6
  <2> QED
    BY <2>5, <2>7
<1>7. Len(close) = n
  <2>1. close = [t \in 1..n |-> close[t]]
    OBVIOUS
  <2> HIDE DEF close
  <2> QED
    BY <2>1, FunctionSequence
<1> HIDE DEF own, close, slippage, price, c
<1>8. c.close = close /\ c.args = own /\ c.slippage = slippage /\ c.cash = e.cash /\ c.fee = e.fixed_fee
  BY <1>1
<1>9. IsPriced(c, n)
  BY <1>3, <1>4, <1>5, <1>6, <1>7, <1>8 DEF IsPriced
<1> QED
  BY <1>9 DEF c

\* The drawdown of every setting of a chunk on a window of priced bars is a loss.
LEMMA MeasuresAreLosses ==
    ASSUME NEW x, IsExperiment(x), IsPlan(x.execution),
           ValidateMarketData(x.data, x.required, x.execution) = {},
           RowsInside(x.data.index, x.range) # {}, NEW chunk
    PROVE  LET m == MeasureChunk(x, ChunkWindow(x, chunk))
           IN  /\ m = [k \in DOMAIN chunk |-> m[k]]
               /\ \A k \in DOMAIN chunk : m[k].drawdown \in Int /\ m[k].drawdown <= 0
<1> DEFINE d == x.data
           e == x.execution
           S == RowsInside(d.index, x.range)
           n == Cardinality(S)
           index == Picked(d.index, S)
           bars == Picked(d.bars, S)
           cut == ChunkWindow(x, chunk)
           aligned == cut.aligned
           columns == ConstructPortfolio(cut.data, aligned, e)
           m == MeasureChunk(x, cut)
<1>1. /\ IsSequence(d.index) /\ IsSequence(d.bars) /\ DOMAIN d.bars = DOMAIN d.index
  BY DEF IsExperiment
<1>2. /\ cut.data = [columns |-> d.columns, index |-> index, bars |-> bars]
      /\ DOMAIN aligned = DOMAIN chunk
  BY DEF ChunkWindow, CutChunk
<1>3. m = [i \in DOMAIN columns |-> ExtractMetrics(columns[i], cut.data.index, x.schedule, x.policy)]
  BY DEF MeasureChunk
<1>4. DOMAIN columns = DOMAIN chunk
  BY <1>2 DEF ConstructPortfolio
<1>5. \A i \in DOMAIN d.bars : d.bars[i]["Close"] \in Int /\ d.bars[i][e.price_field] \in Int
  BY PricesAreNumbers
<1>6. S \subseteq DOMAIN d.index /\ S # {}
  BY DEF RowsInside
<1> HIDE DEF d, S, cut, e
<1>7. /\ n \in Nat /\ DOMAIN index = 1..n /\ Len(index) = n
      /\ \A j \in S : \E i \in 1..n : index[i] = d.index[j]
  BY <1>1, <1>6, PickedElements
<1>8. /\ DOMAIN bars = 1..n
      /\ \A i \in 1..n : Ascending(S)[i] \in S /\ bars[i] = d.bars[Ascending(S)[i]]
  BY <1>1, <1>6, PickedElements
<1> HIDE DEF n, index, bars
<1>9. n >= 1
  BY <1>6, <1>7
<1>10. \A i \in 1..n : bars[i]["Close"] \in Int /\ bars[i][e.price_field] \in Int
  BY <1>1, <1>5, <1>6, <1>8
<1>11. cut.data.bars = bars /\ cut.data.index = index
  BY <1>2
<1> HIDE DEF aligned
<1>12. ASSUME NEW k \in DOMAIN chunk PROVE m[k].drawdown \in Int /\ m[k].drawdown <= 0
  <2> DEFINE c == columns[k]
             data == cut.data
  <2>1. IsPlan(e)
    BY DEF e
  <2>2. k \in DOMAIN aligned /\ DOMAIN data.bars = 1..n
    BY <1>2, <1>8, <1>11
  <2>3. \A i \in 1..n : data.bars[i]["Close"] \in Int /\ data.bars[i][e.price_field] \in Int
    BY <1>10, <1>11
  <2> HIDE DEF data
  <2>4. IsPriced(ConstructPortfolio(data, aligned, e)[k], n)
    BY <1>7, <2>1, <2>2, <2>3, ColumnsArePriced
  <2>5. IsPriced(c, n)
    BY <2>4 DEF data
  <2>6. m[k] = ExtractMetrics(c, index, x.schedule, x.policy)
    BY <1>3, <1>4, <1>11
  <2> HIDE DEF c, m
  <2> DEFINE schedule == x.schedule
             policy == x.policy
             r == ExtractMetrics(c, index, schedule, policy)
  <2>7. m[k] = r
    BY <2>6
  <2> HIDE DEF schedule, policy
  <2>8. r.drawdown \in Int /\ r.drawdown <= 0
    BY <1>7, <1>9, <2>5, DrawdownIsLoss
  <2> HIDE DEF r
  <2> QED
    BY <2>7, <2>8
<1>13. m = [k \in DOMAIN chunk |-> m[k]]
  <2> HIDE DEF columns
  <2> QED
    BY <1>3, <1>4
<1> HIDE DEF m
<1> QED
  BY <1>12, <1>13 DEF m, cut

\* A chunk that is simulated has a plan.
LEMMA SimulatedHasPlan ==
    ASSUME NEW x, IsExperiment(x), NEW chunk, 1 \in DOMAIN chunk, NEW u, u.blocked = {},
           SimulateChunk(x, chunk, u).blocked = {}
    PROVE  IsPlan(x.execution)
<1> DEFINE step == PrepareChunk(x, chunk, u.cache)
           raised == IF step.blocked /= {} THEN step.blocked ELSE SimulationErrors(x, step.cut)
           results == IF raised /= {} THEN u.results ELSE u.results \o MeasureChunk(x, step.cut)
           r == SimulateChunk(x, chunk, u)
<1>1. r = IF u.blocked /= {} THEN u
          ELSE [blocked |-> raised, cache |-> step.cache, results |-> results]
  BY DEF SimulateChunk
<1>2. r.blocked = {}
  OBVIOUS
<1> HIDE DEF r, results, raised
<1>3. raised = {}
  BY <1>1, <1>2
<1>4. step.blocked = {}
  BY <1>3 DEF raised
<1> DEFINE made == GenerateSignalsOnce(chunk, u.cache, x.budget, x.generate)
           checked == [i \in DOMAIN chunk |->
                          ValidateForSimulation(x.data, made.signals[i], x.required, x.execution)]
           blocked == UNION {checked[i].blocked : i \in DOMAIN chunk}
<1>5. step.blocked = blocked
  BY DEF PrepareChunk
<1> HIDE DEF step, made
<1>6. checked[1].blocked = {}
  BY <1>4, <1>5
<1> DEFINE d == x.data
           t == made.signals[1]
           required == x.required
           e == x.execution
<1>7. ValidateForSimulation(d, t, required, e).blocked = {}
  BY <1>6
<1>8. /\ {e.multiplier, e.cash, e.slippage, e.slippage_points, e.slippage_ticks, e.fixed_fee}
            \subseteq Int
      /\ e.tick_size \in Int \cup {Null}
  BY DEF IsExperiment
<1> HIDE DEF d, t, required, e
<1>9. ValidateExecution(d, NormalizedResult(t).signals, AlignedResult(t, e).signals, e) = {}
  BY <1>7, NothingBlocked
<1>10. IsPlan(e)
  BY <1>8, <1>9, PlanIsPriced
<1> QED
  BY <1>10, Zenon DEF e

-----------------------------------------------------------------------------
(* The sweep of one setting *)

\* The first chunk of a setting has it.
LEMMA ChunkOfOne ==
    ASSUME NEW s, IsSequence(s), Len(s) = 1, NEW size \in Nat \ {0}
    PROVE  1 \in DOMAIN ChunkFrom(s, 1, size)
<1> DEFINE last == 1 + size - 1
           n == Min({last, Len(s)})
           c == SubSeq(s, 1, n)
<1>1. last \in Int /\ last >= 1 /\ Len(s) \in Int /\ Len(s) = 1
  OBVIOUS
<1>2. n \in {last, Len(s)} /\ n <= Len(s)
  <2> HIDE DEF last
  <2> QED
    BY <1>1, MinOfTwo
<1> HIDE DEF n, last
<1>3. n \in Int /\ 1 <= n /\ n <= Len(s)
  BY <1>1, <1>2
<1>4. IsSequence(c) /\ Len(c) = n
  <2>1. Len(c) = IF 1 <= n THEN n - 1 + 1 ELSE 0
    BY <1>3, PartOfSequence
  <2>2. IsSequence(c)
    BY <1>3, PartOfSequence
  <2> QED
    BY <1>3, <2>1, <2>2
<1>5. DOMAIN c = 1..n
  <2> HIDE DEF c
  <2> QED
    BY <1>4, SequenceRows
<1>6. 1 \in DOMAIN c
  BY <1>3, <1>5
<1> QED
  BY <1>6, Zenon DEF ChunkFrom, c, n, last

\* What is measured of it is in the first place.
LEMMA FirstMeasure ==
    ASSUME NEW chunk, IsSequence(chunk), 1 \in DOMAIN chunk, NEW m, m = [k \in DOMAIN chunk |-> m[k]]
    PROVE  (<<>> \o m)[1] = m[1]
<1>1. Len(chunk) \in Nat /\ DOMAIN chunk = 1..Len(chunk)
  BY SequenceRows
<1>2. IsSequence(m) /\ Len(m) = Len(chunk)
  BY <1>1, FunctionSequence
<1>3. m \in Seq(Range(m))
  BY <1>2 DEF IsSequence
<1>4. <<>> \o m = m
  BY <1>3
<1> QED
  BY <1>4

\* The drawdown that a sweep of one setting measures is a loss.
LEMMA SweepOfOne ==
    ASSUME NEW x, IsExperiment(x), x.range # Null, IsCache(x.cache, x.generate),
           ValidateMarketData(x.data, x.required, x.execution) = {},
           RowsInside(x.data.index, x.range) # {},
           NEW s, IsSequence(s), Len(s) = 1, \A i \in DOMAIN s : s[i] \in x.valid,
           SimulateInChunks(x, s).blocked = {}
    PROVE  LET m == SimulateInChunks(x, s).results[1]
           IN  m.drawdown \in Int /\ m.drawdown <= 0
<1> DEFINE size == ChunkSize(x, s)
           start == [blocked |-> {}, results |-> <<>>, cache |-> x.cache]
           c == ChunkFrom(s, 1, size)
           m == MeasureChunk(x, ChunkWindow(x, c))
<1>1. size \in Nat \ {0}
  BY ChunkSizeIsPositive
<1>2. PICK f : AreTurns(f, "chunks", x, s, size, start, Len(s)) /\ SimulateInChunks(x, s) = f[Len(s)]
  <2>1. Len(s) \in Nat
    OBVIOUS
  <2> QED
    BY <2>1, ChunksInTurn
<1>3. f[0] = start /\ f[1] = Turn("chunks", x, s, size, 1, f[0])
  <2>1. f[0] = start /\ \A k \in 1..Len(s) : f[k] = Turn("chunks", x, s, size, k, f[k - 1])
    BY <1>2 DEF AreTurns
  <2>2. 1 \in 1..Len(s) /\ 1 - 1 = 0
    OBVIOUS
  <2> HIDE DEF size, start
  <2> QED
    BY <2>1, <2>2
<1>4. SimulateInChunks(x, s) = f[1] /\ f[1].blocked = {}
  BY <1>2
<1>5. start.blocked = {} /\ start.results = <<>> /\ start.cache = x.cache
  OBVIOUS
<1> HIDE DEF size, start
<1>6. (1 - 1) % size = 0
  BY <1>1
<1>7. /\ IsSequence(c) /\ \A i \in DOMAIN c : c[i] \in x.valid
      /\ 1 \in DOMAIN c
  <2>1. 1 \in 1..Len(s)
    OBVIOUS
  <2> DEFINE valid == x.valid
  <2>2. \A i \in DOMAIN s : s[i] \in valid
    OBVIOUS
  <2> HIDE DEF valid
  <2>3. IsSequence(c) /\ \A i \in DOMAIN c : c[i] \in valid
    BY <1>1, <2>1, <2>2, ChunkOfSettings
  <2>4. 1 \in DOMAIN c
    BY <1>1, ChunkOfOne
  <2> QED
    BY <2>3, <2>4 DEF valid
<1>8. f[1] = SimulateChunk(x, c, start)
  BY <1>3, <1>6 DEF Turn, ChunkFrom
<1> HIDE DEF c
<1>9. f[1].results = start.results \o m
  BY <1>4, <1>5, <1>7, <1>8, ChunkIsMeasured
<1>10. IsPlan(x.execution)
  BY <1>4, <1>5, <1>7, <1>8, SimulatedHasPlan
<1>11. m = [k \in DOMAIN c |-> m[k]] /\ \A k \in DOMAIN c : m[k].drawdown \in Int /\ m[k].drawdown <= 0
  BY <1>10, MeasuresAreLosses
<1> HIDE DEF m
<1>12. f[1].results[1] = m[1]
  BY <1>5, <1>7, <1>9, <1>11, FirstMeasure
<1> QED
  BY <1>4, <1>7, <1>11, <1>12

\* A partition of one setting has one row, whose drawdown is a loss.
LEMMA PartitionOfOne ==
    ASSUME NEW x, IsExperiment(x), NEW s, IsSequence(s), NEW part, NEW cache,
           IsPart(part, x.data.index), part.first <= part.last, IsCache(cache, x.generate),
           RunPartition(x, s, part, cache).blocked = {},
           Len(RunPartition(x, s, part, cache).ranked) = 1
    PROVE  LET m == RunPartition(x, s, part, cache).ranked[1].metrics
           IN  m.drawdown \in Int /\ m.drawdown <= 0
<1> DEFINE p == Partition(x, s, part, cache)
           r == ExecuteExperiment(p)
           t == AcceptedParameters(p.supplied, p.valid)
           sweep == SimulateInChunks(p, t)
           rows == ScreenedRows(p, t, sweep.results)
<1>1. RunPartition(x, s, part, cache) = r
  BY DEF RunPartition, Partition
<1>2. /\ IsExperiment(p) /\ p.cache = cache
      /\ p.range = <<x.data.index[part.first], x.data.index[part.last]>>
      /\ \A f \in ExperimentFields \ {"supplied", "cache", "range"} : p[f] = x[f]
  BY PartitionFields
<1>3. p.data = x.data /\ p.generate = x.generate
  BY <1>2 DEF ExperimentFields
<1>4. p.range # Null
  BY PartitionIsWindow
<1>5. RowsInside(p.data.index, p.range) # {}
  <2> DEFINE index == x.data.index
  <2>1. /\ IsSequence(index) /\ \A i \in DOMAIN index : index[i] \in Int
        /\ IndexRefusal(index) = Null /\ part.first \in DOMAIN index /\ part.last \in DOMAIN index
    BY DEF IsExperiment, IsPart
  <2>2. p.range[1] = index[part.first] /\ p.range[2] = index[part.last] /\ p.data.index = index
    BY <1>2, <1>3
  <2> HIDE DEF index, p
  <2>3. \A i, j \in DOMAIN index : i < j => index[i] < index[j]
    BY <2>1, IndexIsSorted
  <2>4. DOMAIN index \subseteq Int
    BY <2>1, SequenceRows
  <2>5. index[part.first] <= index[part.last] /\ index[part.first] <= index[part.first]
    <3>1. part.first \in Int /\ part.last \in Int /\ index[part.first] \in Int
      BY <2>1, <2>4
    <3>2. CASE part.first = part.last
      BY <3>1, <3>2
    <3>3. CASE part.first < part.last
      <4>1. index[part.first] < index[part.last] /\ index[part.last] \in Int
        BY <2>1, <2>3, <3>3
      <4> QED
        BY <3>1, <4>1
    <3> QED
      BY <3>1, <3>2, <3>3
  <2>6. part.first \in RowsInside(p.data.index, p.range)
    BY <2>1, <2>2, <2>5 DEF RowsInside
  <2> QED
    BY <2>6
<1>6. r.blocked = {} /\ Len(r.ranked) = 1
  BY <1>1
<1> HIDE DEF p
<1>7. /\ ValidateMarketData(p.data, p.required, p.execution) = {} /\ sweep.blocked = {}
      /\ r.ranked = Ranking(rows, p.key)
  BY <1>6, ExperimentParts
<1>8. IsSequence(t) /\ \A i \in DOMAIN t : t[i] \in p.valid
  BY <1>2, AcceptedSettings
<1> HIDE DEF t
<1>9. Len(t) \in Nat /\ DOMAIN t = 1..Len(t)
  BY <1>8, SequenceRows
<1>10. IsSequence(rows) /\ Len(rows) = Len(t) /\ DOMAIN rows = DOMAIN t
  <2>1. rows = [i \in 1..Len(t) |-> rows[i]]
    BY <1>9 DEF ScreenedRows
  <2> HIDE DEF rows
  <2> QED
    BY <1>9, <2>1, FunctionSequence
<1>11. /\ IsSequence(r.ranked) /\ Len(r.ranked) = Len(t) /\ Range(r.ranked) \subseteq Range(rows)
  <2> DEFINE key == p.key
  <2>1. r.ranked = Ranking(rows, key)
    BY <1>7
  <2> HIDE DEF rows, key, r
  <2> QED
    BY <1>10, <2>1, RankedRows
<1>12. Len(t) = 1
  BY <1>6, <1>11
<1>13. r.ranked[1] = rows[1]
  <2>1. DOMAIN r.ranked = 1..1 /\ DOMAIN rows = 1..1
    <3> HIDE DEF r, rows
    <3> QED
      BY <1>9, <1>10, <1>11, <1>12, SequenceRows
  <2> HIDE DEF r, rows
  <2>2. r.ranked[1] \in Range(rows)
    BY <1>11, <2>1, SequenceRows
  <2> QED
    BY <2>1, <2>2 DEF Range
<1>14. rows[1].metrics = sweep.results[1]
  BY <1>9, <1>12 DEF ScreenedRows, ScreenMetrics
<1>15. sweep.results[1].drawdown \in Int /\ sweep.results[1].drawdown <= 0
  <2>1. IsCache(p.cache, p.generate)
    BY <1>2, <1>3
  <2> QED
    BY <1>2, <1>4, <1>5, <1>7, <1>8, <1>12, <2>1, SweepOfOne
<1> HIDE DEF r, rows, sweep
<1> QED
  BY <1>1, <1>13, <1>14, <1>15

-----------------------------------------------------------------------------
(* Folds that pass together *)

\* The drawdown that an aggregate reads bounds that of every fold.
LEMMA WorstBounds ==
    ASSUME NEW folds, IsSequence(folds),
           \A i \in DOMAIN folds : folds[i].drawdown \in Int /\ folds[i].drawdown <= 0,
           NEW f \in Range(folds)
    PROVE  LET worst == Min({g.drawdown : g \in Range(folds)})
           IN  worst \in Int /\ Abs(f.drawdown) \in Int /\ Abs(f.drawdown) <= Abs(worst)
<1> DEFINE D == {g.drawdown : g \in Range(folds)}
           n == Len(folds)
           v == [i \in 1..n |-> folds[i].drawdown]
<1>1. n \in Nat /\ DOMAIN folds = 1..n
  BY SequenceRows
<1>2. \A g \in Range(folds) : g.drawdown \in Int /\ g.drawdown <= 0
  BY DEF Range
<1>3. \A i \in 1..n : v[i] \in Int /\ v[i] = folds[i].drawdown
  BY <1>1
<1> HIDE DEF v
<1>4. PICK b \in Nat : \A i \in 1..n : -b <= v[i] /\ v[i] <= b
  <2> HIDE DEF n
  <2> QED
    BY <1>1, <1>3, NumbersAreBounded
<1>5. \A g \in Range(folds) : -b <= g.drawdown
  BY <1>1, <1>3, <1>4 DEF Range
<1>6. D \in SUBSET Int /\ D # {} /\ \A k \in D : -b <= k
  BY <1>2, <1>5
<1>7. f.drawdown \in D
  OBVIOUS
<1> HIDE DEF D
<1>8. Min(D) \in D /\ \A k \in D : Min(D) <= k
  <2> DEFINE e == -b
  <2>1. e \in Int /\ \A k \in D : e <= k
    BY <1>6
  <2> HIDE DEF e
  <2> QED
    BY <1>6, <2>1, LeastInteger
<1> DEFINE worst == Min(D)
           d == f.drawdown
<1>9. worst \in Int /\ d \in Int /\ worst <= d /\ d <= 0
  BY <1>2, <1>6, <1>7, <1>8
<1> HIDE DEF worst, d
<1>10. Abs(d) \in Int /\ Abs(d) <= Abs(worst)
  BY <1>9 DEF Abs
<1> QED
  BY <1>9, <1>10 DEF worst, d, D

\* More folds than none, a part of which is asked for.
LEMMA PartIsNotNone ==
    ASSUME NEW p \in Nat, NEW n \in Nat, n >= 1, NEW rate \in Int, rate > 0, ~(100 * p < rate * n)
    PROVE  p > 0
<1>1. rate * n > 0
  OBVIOUS
<1>2. p = 0 => 100 * p = 0
  OBVIOUS
<1> DEFINE product == rate * n
<1>3. product \in Int /\ product > 0 /\ ~(100 * p < product)
  BY <1>1
<1> HIDE DEF product
<1> QED
  BY <1>2, <1>3

\* The positions of a sequence that pass a test can be counted.
LEMMA PositionsCount ==
    ASSUME NEW s, IsSequence(s), NEW S \in SUBSET (DOMAIN s)
    PROVE  Cardinality(S) \in Nat /\ (Cardinality(S) >= 1 => S # {})
<1>1. IsFiniteSet(S)
  BY SequenceRows, FS_Subset
<1> QED
  BY <1>1, FS_CardinalityType, FS_EmptySet

\* Folds pass together only when enough of them do and none has lost too much.
PassTogether(folds, aggregate, c) ==
    \/ aggregate.status /= "passed"
    \/ /\ aggregate.sufficient >= c.folds
       /\ aggregate.passing > 0
       /\ \A f \in Range(folds) : Abs(f.drawdown) <= c.drawdown

\* The aggregate of folds whose drawdowns are losses passes them together.
LEMMA AggregatePassesTogether ==
    ASSUME NEW folds, IsSequence(folds), folds # <<>>,
           \A i \in DOMAIN folds : folds[i].drawdown \in Int /\ folds[i].drawdown <= 0,
           NEW c, c.folds \in Int, c.folds >= 1, c.rate \in Int, c.rate > 0, c.drawdown \in Int
    PROVE  PassTogether(folds, AggregateLowFrequency(folds, c), c)
<1> DEFINE sufficient == Where(folds, LAMBDA f : f.status /= "insufficient_evidence")
           passing == Where(folds, LAMBDA f : f.status = "passed")
           lowest == Min({f.drawdown : f \in Range(folds)})
           worst == IF folds = <<>> THEN 0 ELSE lowest
           reasons == {r \in {"folds", "rate", "drawdown"} :
               CASE r = "folds" -> Cardinality(sufficient) < c.folds
                 [] r = "rate" -> /\ sufficient /= {}
                                  /\ 100 * Cardinality(passing) < c.rate * Cardinality(sufficient)
                 [] r = "drawdown" -> Abs(worst) > c.drawdown}
           a == AggregateLowFrequency(folds, c)
<1>1. a = [status |-> IF "folds" \in reasons THEN "insufficient_evidence"
                      ELSE IF reasons /= {} THEN "failed" ELSE "passed",
           sufficient |-> Cardinality(sufficient), passing |-> Cardinality(passing)]
  BY DEF AggregateLowFrequency
<1>2. sufficient \in SUBSET (DOMAIN folds) /\ passing \in SUBSET (DOMAIN folds)
  BY DEF Where
<1>3. worst = lowest
  OBVIOUS
<1> HIDE DEF sufficient, passing, worst, a
<1>4. /\ Cardinality(sufficient) \in Nat /\ (Cardinality(sufficient) >= 1 => sufficient # {})
      /\ Cardinality(passing) \in Nat
  BY <1>2, PositionsCount
<1>5. a.sufficient = Cardinality(sufficient) /\ a.passing = Cardinality(passing)
  <2> HIDE DEF reasons
  <2> QED
    BY <1>1
<1>6. ASSUME a.status = "passed"
      PROVE  /\ ~(Cardinality(sufficient) < c.folds)
             /\ ~(sufficient /= {}
                  /\ 100 * Cardinality(passing) < c.rate * Cardinality(sufficient))
             /\ ~(Abs(worst) > c.drawdown)
  <2>1. reasons = {}
    <3> HIDE DEF reasons
    <3> QED
      BY <1>1, <1>6
  <2>2. "folds" \notin reasons /\ "rate" \notin reasons /\ "drawdown" \notin reasons
    BY <2>1
  <2>3. ~(Cardinality(sufficient) < c.folds)
    BY <2>2
  <2>4. ~(sufficient /= {} /\ 100 * Cardinality(passing) < c.rate * Cardinality(sufficient))
    BY <2>2
  <2>5. ~(Abs(worst) > c.drawdown)
    BY <2>2
  <2> QED
    BY <2>3, <2>4, <2>5
<1> HIDE DEF reasons
<1>7. ASSUME a.status = "passed"
      PROVE  /\ a.sufficient >= c.folds /\ a.passing > 0
             /\ \A f \in Range(folds) : Abs(f.drawdown) <= c.drawdown
  <2> DEFINE m == Cardinality(sufficient)
             p == Cardinality(passing)
             rate == c.rate
  <2>1. m \in Nat /\ p \in Nat /\ m >= c.folds /\ m >= 1
    BY <1>4, <1>6, <1>7
  <2>2. ~(100 * p < rate * m)
    BY <1>4, <1>6, <1>7, <2>1
  <2>3. rate \in Int /\ rate > 0
    OBVIOUS
  <2> HIDE DEF m, p, rate
  <2>4. p > 0
    BY <2>1, <2>2, <2>3, PartIsNotNone
  <2>5. ASSUME NEW f \in Range(folds) PROVE Abs(f.drawdown) <= c.drawdown
    <3> DEFINE d == Abs(f.drawdown)
    <3>1. lowest \in Int /\ d \in Int /\ d <= Abs(lowest)
      BY WorstBounds
    <3> HIDE DEF lowest, d
    <3>2. Abs(lowest) \in Int
      BY <3>1 DEF Abs
    <3>3. ~(Abs(lowest) > c.drawdown)
      BY <1>3, <1>6, <1>7
    <3>4. d <= c.drawdown
      BY <3>1, <3>2, <3>3
    <3> QED
      BY <3>4 DEF d
  <2> QED
    BY <1>5, <2>1, <2>4, <2>5 DEF m, p
<1> QED
  BY <1>7 DEF PassTogether, a

\* The folds of a low-frequency stage that is complete pass together.
LEMMA LowFrequencyPassesTogether ==
    ASSUME NEW x, IsStageCase(x), x.method = "low",
           Completed(ExecuteLowFrequency(x.experiment, x.sessions, x.config, x.forbidden, x.policy))
    PROVE  LET run == ExecuteLowFrequency(x.experiment, x.sessions, x.config, x.forbidden, x.policy)
           IN  PassTogether(run.folds, run.aggregate, x.policy)
<1> DEFINE e == x.experiment
           s == x.sessions
           c == x.config
           policy == x.policy
           forbidden == x.forbidden
           built == BuildWalkForwardWindows(e.data.index, s, c)
           w == built.windows
           Part(k) == RunPartition(e, e.supplied, w[k].test, NewSignalCache)
           Fold(k) == IF Part(k).blocked /= {} \/ Len(Part(k).ranked) /= 1 THEN Null
                      ELSE [status |-> LowFrequencyStatus(Part(k).ranked[1].metrics, policy),
                            drawdown |-> Part(k).ranked[1].metrics["drawdown"]]
           folds == [k \in DOMAIN w |-> Fold(k)]
           aggregate == AggregateLowFrequency(folds, policy)
           run == ExecuteLowFrequency(e, s, c, forbidden, policy)
<1>1. run = IF \E i \in DOMAIN s : s[i] >= forbidden THEN Refused("forbidden")
            ELSE IF Len(e.supplied) /= 1 THEN Refused("fixed_parameters")
            ELSE IF "refused" \in DOMAIN built THEN built
            ELSE IF w = <<>> THEN Refused("no_folds")
            ELSE IF c.selection /= 0 THEN Refused("selection")
            ELSE IF \E f \in Range(folds) : f = Null THEN Refused("raised")
            ELSE [folds |-> folds, aggregate |-> aggregate]
  BY DEF ExecuteLowFrequency
<1>2. /\ IsExperiment(e)
      /\ policy.folds \in Int /\ policy.rate \in Int /\ policy.drawdown \in Int
      /\ policy.folds >= 1 /\ policy.rate > 0
  BY DEF IsStageCase, LowFrequencyConfigHolds
<1>3. "refused" \notin DOMAIN run
  BY DEF Completed
<1>4. "refused" \notin DOMAIN built =>
          IsSequence(w) /\ \A k \in DOMAIN w : IsFold(w[k], e.data.index)
  BY StageWindowsAreFolds
<1>5. IsSequence(e.supplied)
  BY <1>2 DEF IsExperiment
<1> HIDE DEF e, s, c, policy, forbidden, built, folds, aggregate, run
<1>6. \A why : "refused" \in DOMAIN Refused(why)
  BY DEF Refused
<1>7. /\ "refused" \notin DOMAIN built /\ w # <<>> /\ ~ \E f \in Range(folds) : f = Null
      /\ run = [folds |-> folds, aggregate |-> aggregate]
  BY <1>1, <1>3, <1>6
<1>8. IsSequence(w) /\ \A k \in DOMAIN w : IsFold(w[k], e.data.index)
  BY <1>4, <1>7
<1> HIDE DEF w
<1>9. Len(w) \in Nat /\ DOMAIN w = 1..Len(w)
  BY <1>8, SequenceRows
<1>10. DOMAIN folds = DOMAIN w /\ \A k \in DOMAIN w : folds[k] = Fold(k) /\ folds[k] # Null
  <2>1. DOMAIN folds = DOMAIN w /\ \A k \in DOMAIN w : folds[k] = Fold(k)
    <3> HIDE DEF Fold
    <3> QED
      BY DEF folds
  <2>2. \A k \in DOMAIN folds : folds[k] \in Range(folds)
    BY DEF Range
  <2> HIDE DEF Fold
  <2> QED
    BY <1>7, <2>1, <2>2
<1>11. IsSequence(folds) /\ folds # <<>>
  <2>1. folds = [k \in 1..Len(w) |-> folds[k]]
    BY <1>9 DEF folds
  <2>2. IsSequence(folds) /\ Len(folds) = Len(w)
    BY <1>9, <2>1, FunctionSequence
  <2>3. Len(w) # 0
    BY <1>7, <1>8 DEF IsSequence
  <2> QED
    BY <2>2, <2>3
<1>12. ASSUME NEW k \in DOMAIN folds PROVE folds[k].drawdown \in Int /\ folds[k].drawdown <= 0
  <2> DEFINE r == Part(k)
             part == w[k].test
             m == r.ranked[1].metrics
  <2>1. folds[k] = Fold(k) /\ folds[k] # Null /\ IsFold(w[k], e.data.index)
    BY <1>8, <1>10
  <2>2. r = RunPartition(e, e.supplied, part, NewSignalCache)
    OBVIOUS
  <2>3. IsPart(part, e.data.index) /\ part.first <= part.last
    BY <2>1 DEF IsFold
  <2>4. r.blocked = {} /\ Len(r.ranked) = 1
    BY <2>1
  <2>5. folds[k].drawdown = m.drawdown
    BY <2>1, <2>4
  <2> DEFINE t == e.supplied
  <2>6. IsSequence(t) /\ r = RunPartition(e, t, part, NewSignalCache)
    BY <1>5, <2>2
  <2> HIDE DEF part, t, r
  <2>7. IsCache(NewSignalCache, e.generate)
    BY EmptyCache
  <2>8. m.drawdown \in Int /\ m.drawdown <= 0
    BY <1>2, <2>3, <2>4, <2>6, <2>7, PartitionOfOne
  <2> QED
    BY <2>5, <2>8
<1>13. PassTogether(folds, aggregate, policy)
  BY <1>2, <1>11, <1>12, AggregatePassesTogether DEF aggregate
<1>14. run.folds = folds /\ run.aggregate = aggregate
  BY <1>7
<1>15. PassTogether(run.folds, run.aggregate, policy)
  BY <1>13, <1>14
<1> QED
  BY <1>15 DEF run, e, s, c, forbidden, policy

-----------------------------------------------------------------------------
(* The answers *)

\* What was run for a stage is what its method runs.
LEMMA StageRuns ==
    ASSUME NEW x
    PROVE  LET e == x.experiment
               o == x.other
               s == x.sessions
               c == x.config
               r == Stage(x)
           IN  /\ x.method = "oos" =>
                      r.run = ExecuteOutOfSample(e, s, c) /\ r.other = ExecuteOutOfSample(o, s, c)
               /\ x.method = "walk" =>
                      r.run = ExecuteWalkForward(e, s, c) /\ r.other = ExecuteWalkForward(o, s, c)
               /\ x.method = "low" =>
                      r.run = ExecuteLowFrequency(e, s, c, x.forbidden, x.policy)
  BY DEF Stage

\* What is answered of a stage never leaks.
LEMMA AnswersNeverLeak == AnswerInv => FoldsNeverLeak
<1> SUFFICES ASSUME AnswerInv PROVE FoldsNeverLeak
  OBVIOUS
<1>1. PartitionsAreClean
  BY AnswersArePartitioned
<1>2. ASSUME Answered("stage")
      PROVE  /\ input = Load("stage", request) /\ output = Stage(input) /\ IsStageCase(input)
  <2>1. /\ kind = "stage" /\ request \in Cases("stage")
        /\ input = Load("stage", request) /\ output = Stage(input)
    BY <1>2 DEF AnswerInv, Answered
  <2> QED
    BY <2>1, StageCases
<1>3. ASSUME Answered("stage"), input.method = "oos", Completed(output.run)
      PROVE  /\ Completed(output.other) =>
                    SameUpTo(output.run, output.other, output.run.split, input.from)
             /\ \A free \in BOOLEAN :
                    (LockRefusals(OosReport(output.run, Published, free), Published,
                                  input.experiment.valid) = {})
                      = (output.run.status = "successful" /\ output.run.test.passed /\ ~free)
  <2> DEFINE x == input
  <2>1. IsStageCase(x) /\ x.method = "oos" /\ output = Stage(x)
    BY <1>2, <1>3
  <2> HIDE DEF x
  <2>2. /\ output.run = ExecuteOutOfSample(x.experiment, x.sessions, x.config)
        /\ output.other = ExecuteOutOfSample(x.other, x.sessions, x.config)
    BY <2>1, StageRuns
  <2>3. Completed(output.other) => SameUpTo(output.run, output.other, output.run.split, x.from)
    BY <1>3, <2>1, <2>2, OutOfSampleIgnoresTests
  <2>4. ASSUME NEW free \in BOOLEAN
        PROVE  (LockRefusals(OosReport(output.run, Published, free), Published,
                             x.experiment.valid) = {})
                 = (output.run.status = "successful" /\ output.run.test.passed /\ ~free)
    BY <1>3, <2>1, <2>2, OutOfSampleIsTaken
  <2> QED
    BY <2>3, <2>4 DEF x
<1>4. ASSUME Answered("stage"), input.method = "walk", Completed(output.run),
             Completed(output.other)
      PROVE  \A k \in DOMAIN output.run.windows :
                 SameUpTo(output.run.folds[k], output.other.folds[k], output.run.windows[k],
                          input.from)
  <2> DEFINE x == input
  <2>1. IsStageCase(x) /\ x.method = "walk" /\ output = Stage(x)
    BY <1>2, <1>4
  <2> HIDE DEF x
  <2>2. /\ output.run = ExecuteWalkForward(x.experiment, x.sessions, x.config)
        /\ output.other = ExecuteWalkForward(x.other, x.sessions, x.config)
    BY <2>1, StageRuns
  <2>3. \A k \in DOMAIN output.run.windows :
            SameUpTo(output.run.folds[k], output.other.folds[k], output.run.windows[k], x.from)
    BY <1>4, <2>1, <2>2, WalkIgnoresTests
  <2> QED
    BY <2>3 DEF x
<1>5. ASSUME Answered("stage"), input.method = "low", Completed(output.run)
      PROVE  PassTogether(output.run.folds, output.run.aggregate, input.policy)
  <2> DEFINE x == input
  <2>1. IsStageCase(x) /\ x.method = "low" /\ output = Stage(x)
    BY <1>2, <1>5
  <2> HIDE DEF x
  <2>2. output.run = ExecuteLowFrequency(x.experiment, x.sessions, x.config, x.forbidden, x.policy)
    BY <2>1, StageRuns
  <2>3. PassTogether(output.run.folds, output.run.aggregate, x.policy)
    BY <1>5, <2>1, <2>2, LowFrequencyPassesTogether
  <2> QED
    BY <2>3 DEF x
<1>6. ChoicesIgnoreTests
  BY <1>3, <1>4, <1>5 DEF ChoicesIgnoreTests, PassTogether
<1> QED
  BY <1>1, <1>6 DEF FoldsNeverLeak

\* Whatever a setting is tested on stays out of its choice: the parts of a history are clean,
\* what is shortlisted and locked is the same when prices change from the test on, the lock
\* is handed on exactly when its test passed, and folds pass together only when enough do.
THEOREM FoldsLeakNothing == Spec => []FoldsNeverLeak
<1>1. Spec => []AnswerInv
  BY AnswerInvInit, AnswerInvStep, PTL DEF Spec
<1>2. AnswerInv => FoldsNeverLeak
  BY AnswersNeverLeak
<1> QED
  BY <1>1, <1>2, PTL
===============================================================================
