--------------------------- MODULE TelemetryProofs ----------------------------
(***************************************************************************)
(* The telemetry path for any number of frames, processes, disk faults,    *)
(* resets and crashes: the queue keeps its indexes, its order and its file *)
(* in step and loses nothing, and with the drain and the receiver it       *)
(* implements at-least-once delivery.                                      *)
(***************************************************************************)
EXTENDS TelemetryDelivery, FiniteSetTheorems, WellFoundedInduction, TLAPS

-----------------------------------------------------------------------------
(* Finite sets of indices.                                                   *)
LEMMA Least ==
  ASSUME NEW S \in SUBSET Nat, S # {}
  PROVE  \E m \in S : \A n \in S : m <= n
<1>1. PICK m \in S : \A n \in S : ~ (<<n, m>> \in OpToRel(<, Nat))
  BY WFMin, NatLessThanWellFounded
<1>2. \A n \in S : ~ (n < m)
  BY <1>1, Zenon DEF OpToRel
<1> QED
  BY <1>2

LEMMA Greatest ==
  ASSUME NEW S \in SUBSET Nat, S # {}, NEW b \in Nat, \A n \in S : n <= b
  PROVE  \E m \in S : \A n \in S : n <= m
<1> DEFINE T == {b - n : n \in S}
<1>1. T \in SUBSET Nat /\ T # {}
  <2>1. \A n \in S : b - n \in Nat
    OBVIOUS
  <2> QED
    BY <2>1
<1>2. PICK t \in T : \A u \in T : t <= u
  BY <1>1, Least
<1>3. PICK m \in S : t = b - m
  BY <1>2
<1>4. \A n \in S : b - n \in T
  OBVIOUS
<1>5. \A n \in S : b - m <= b - n
  BY <1>2, <1>3, <1>4
<1> QED
  BY <1>5

(* How many of D lie below x.                                                *)
Rank(D, x) == Cardinality({y \in D : y < x})

LEMMA RankBound ==
  ASSUME NEW D \in SUBSET Nat, IsFiniteSet(D), NEW x \in D
  PROVE  Rank(D, x) \in 0 .. Cardinality(D) - 1
<1> DEFINE B == {y \in D : y < x}
<1>1. B \in SUBSET (D \ {x})
  OBVIOUS
<1>2. IsFiniteSet(D \ {x}) /\ Cardinality(D \ {x}) = Cardinality(D) - 1
  BY FS_RemoveElement
<1>3. Cardinality(B) <= Cardinality(D) - 1 /\ IsFiniteSet(B)
  BY <1>1, <1>2, FS_Subset
<1>4. Cardinality(B) \in Nat /\ Cardinality(D) \in Nat
  BY <1>3, FS_CardinalityType
<1> QED
  BY <1>3, <1>4 DEF Rank

LEMMA RankMonotone ==
  ASSUME NEW D \in SUBSET Nat, IsFiniteSet(D), NEW x \in D, NEW y \in D, x < y
  PROVE  Rank(D, x) < Rank(D, y)
<1> DEFINE A == {z \in D : z < x}
           B == {z \in D : z < y}
<1>1. A \cup {x} \in SUBSET B /\ x \notin A /\ A \in SUBSET D /\ B \in SUBSET D
  <2>1. \A z \in D : z < x => z < y
    OBVIOUS
  <2>2. ~ (x < x)
    OBVIOUS
  <2> QED
    BY <2>1, <2>2
<1>2. IsFiniteSet(A) /\ IsFiniteSet(B)
  BY <1>1, FS_Subset
<1>3. Cardinality(A \cup {x}) = Cardinality(A) + 1
  BY <1>1, <1>2, FS_AddElement
<1>4. Cardinality(A \cup {x}) <= Cardinality(B)
  BY <1>1, <1>2, FS_Subset
<1>5. Cardinality(A) \in Nat /\ Cardinality(B) \in Nat
  BY <1>2, FS_CardinalityType
<1> QED
  BY <1>3, <1>4, <1>5 DEF Rank

LEMMA RankOnto ==
  ASSUME NEW D \in SUBSET Nat, IsFiniteSet(D), NEW j \in 0 .. Cardinality(D) - 1
  PROVE  \E x \in D : Rank(D, x) = j
<1> DEFINE n == Cardinality(D)
           R == [x \in D |-> Rank(D, x)]
<1>1. n \in Nat
  BY FS_CardinalityType
<1>2. IsFiniteSet(0 .. n - 1) /\ Cardinality(0 .. n - 1) = n
  BY <1>1, FS_Interval
<1>3. \A x \in D : R[x] \in 0 .. n - 1
  BY RankBound
<1>4. \A x, y \in D : R[x] = R[y] => x = y
  <2>1. \A x, y \in D : x < y => Rank(D, x) < Rank(D, y)
    BY RankMonotone
  <2>2. \A x \in D : Rank(D, x) \in Int
    BY RankBound, <1>1
  <2> QED
    BY <2>1, <2>2
<1>5. R \in Injection(D, 0 .. n - 1)
  BY <1>3, <1>4 DEF Injection, IsInjective
<1>6. R \in Surjection(D, 0 .. n - 1)
  BY <1>2, <1>5, FS_Injection
<1> QED
  BY <1>6 DEF Surjection

LEMMA NthRank ==
  ASSUME NEW D \in SUBSET Nat, IsFiniteSet(D), NEW j \in 0 .. Cardinality(D) - 1
  PROVE  Nth(D, j) \in D /\ Rank(D, Nth(D, j)) = j
BY RankOnto DEF Nth, Rank

LEMMA NthOfRank ==
  ASSUME NEW D \in SUBSET Nat, IsFiniteSet(D), NEW x \in D
  PROVE  Nth(D, Rank(D, x)) = x
<1>1. Cardinality(D) \in Nat
  BY FS_CardinalityType
<1>2. \A y, z \in D : y < z => Rank(D, y) < Rank(D, z)
  BY RankMonotone
<1>3. \A y \in D : Rank(D, y) \in Int
  BY RankBound, <1>1
<1>4. Nth(D, Rank(D, x)) \in D /\ Rank(D, Nth(D, Rank(D, x))) = Rank(D, x)
  BY RankBound, NthRank
<1>5. \A y \in D : Rank(D, y) = Rank(D, x) => ~ (y < x) /\ ~ (x < y)
  BY <1>2, <1>3
<1>6. \A y \in D : ~ (y < x) /\ ~ (x < y) => y = x
  OBVIOUS
<1> QED
  BY <1>4, <1>5, <1>6

LEMMA NthOrder ==
  ASSUME NEW D \in SUBSET Nat, IsFiniteSet(D),
         NEW i \in 0 .. Cardinality(D) - 1, NEW j \in 0 .. Cardinality(D) - 1, i < j
  PROVE  Nth(D, i) < Nth(D, j)
<1>1. Cardinality(D) \in Nat
  BY FS_CardinalityType
<1>2. /\ Nth(D, i) \in D /\ Rank(D, Nth(D, i)) = i
      /\ Nth(D, j) \in D /\ Rank(D, Nth(D, j)) = j
  BY NthRank
<1>3. Nth(D, j) < Nth(D, i) => Rank(D, Nth(D, j)) < Rank(D, Nth(D, i))
  BY <1>2, RankMonotone
<1>4. Nth(D, j) \in Int /\ Nth(D, i) \in Int /\ i \in Int /\ j \in Int
  <2>1. \A y \in D : y \in Int
    OBVIOUS
  <2>2. Nth(D, j) \in Int /\ Nth(D, i) \in Int
    BY <1>2, <2>1
  <2>3. i \in Int /\ j \in Int
    BY <1>1
  <2> QED
    BY <2>2, <2>3
<1>5. ~ (j < i) /\ i # j
  BY <1>4
<1>6. ~ (Nth(D, j) < Nth(D, i)) /\ Nth(D, i) # Nth(D, j)
  BY <1>2, <1>3, <1>5
<1> QED
  BY <1>4, <1>6

-----------------------------------------------------------------------------
(* Frames and lines: what a line may be, and what a cut or a merge makes of  *)
(* the key.                                                                  *)
LEMMA FrameLine ==
  /\ Torn \in Line /\ Torn[1] \notin Key
  /\ MadeUp \in Frame /\ MadeUp[1] \notin Key
  /\ \A f \in Frame : f \in Line /\ f[1] # Torn[1] /\ (f[1] \in Key \/ f = MadeUp)
  /\ \A f \in Line : f = Torn \/ f \in Frame
  /\ \A k \in Key : Whole(k) \in Frame /\ Whole(k)[1] = k
BY QueueAssumption DEF Line, Frame, Torn, MadeUp, Key, Whole, Text

LEMMA CutFacts ==
  ASSUME NEW f \in Frame, NEW c \in Cut(f)
  PROVE  c \in Line /\ (c = Torn \/ c[1] = f[1])
<1>1. CASE c \in {Torn, f}
  BY <1>1, FrameLine
<1>2. CASE c \notin {Torn, f}
  <2>1. PICK t \in {"known", "lost"} : c = <<f[1], t>> /\ (f[2] = "lost" => t = "lost")
    BY <1>2 DEF Cut
  <2>2. CASE f = MadeUp
    BY <1>2, <2>1, <2>2 DEF MadeUp
  <2>3. CASE f \in Key \X Text
    BY <2>1, <2>3 DEF Frame, Line, Text
  <2> QED
    BY <2>2, <2>3 DEF Frame
<1> QED
  BY <1>1, <1>2

LEMMA MergedFacts ==
  ASSUME NEW a \in Line, NEW b \in Line, NEW m \in Merged(a, b)
  PROVE  /\ m \in Line
         /\ \/ a = Torn /\ m \in {Torn, MadeUp, b}
            \/ a # Torn /\ m[1] = a[1]
<1>1. CASE a = Torn
  BY <1>1, FrameLine DEF Merged
<1>2. CASE a # Torn
  <2>1. PICK t \in {"known", "lost"} : m = <<a[1], t>> /\ (a[2] = "lost" => t = "lost")
    BY <1>2 DEF Merged
  <2>2. CASE a = MadeUp
    BY <1>2, <2>1, <2>2, FrameLine DEF MadeUp
  <2>3. CASE a \in Key \X Text
    BY <1>2, <2>1, <2>3 DEF Frame, Line, Text
  <2> QED
    BY <1>2, <2>2, <2>3 DEF Frame, Line
<1> QED
  BY <1>1, <1>2

-----------------------------------------------------------------------------
(* Files, and the order of what is in them or in memory.  A frame under a    *)
(* key that nobody gave out has no place in the order.                       *)
Files == UNION {[0 .. n - 1 -> Line] : n \in Nat}

Sorted(f) ==
  \A i, j \in DOMAIN f :
    i <= j /\ f[i][1] \in Key /\ f[j][1] \in Key => Older(f[i], f[j])
Distinct(f) ==
  \A i, j \in DOMAIN f : f[i][1] = f[j][1] /\ f[i][1] # Torn[1] => i = j
UpTo(f, top) == \A i \in DOMAIN f : f[i][1] \in Key => Older(f[i], top)

LEMMA FileFacts ==
  ASSUME NEW f \in Files
  PROVE  /\ IsFiniteSet(DOMAIN f) /\ Cardinality(DOMAIN f) \in Nat
         /\ DOMAIN f = 0 .. Cardinality(DOMAIN f) - 1
         /\ DOMAIN f \in SUBSET Nat
         /\ f \in [0 .. Cardinality(DOMAIN f) - 1 -> Line]
         /\ \A i \in DOMAIN f : f[i] \in Line
<1>1. PICK n \in Nat : f \in [0 .. n - 1 -> Line]
  BY DEF Files
<1>2. IsFiniteSet(0 .. n - 1) /\ Cardinality(0 .. n - 1) = n
  BY FS_Interval
<1>3. DOMAIN f = 0 .. n - 1
  BY <1>1
<1> QED
  BY <1>1, <1>2, <1>3

LEMMA ValuesKeys ==
  ASSUME NEW f
  PROVE  Keys(f) = {v[1] : v \in Values(f)}
BY DEF Keys, Values

(* What a rewrite makes of the frames (CompactLocked, Initialize).           *)
LEMMA SqueezeFacts ==
  ASSUME NEW f, IsFiniteSet(DOMAIN f), DOMAIN f \in SUBSET Nat
  PROVE  /\ DOMAIN Squeeze(f) = 0 .. Cardinality(DOMAIN f) - 1
         /\ Cardinality(DOMAIN f) \in Nat
         /\ \A j \in 0 .. Cardinality(DOMAIN f) - 1 :
              /\ Nth(DOMAIN f, j) \in DOMAIN f
              /\ Squeeze(f)[j] = f[Nth(DOMAIN f, j)]
         /\ Values(Squeeze(f)) = Values(f)
<1> DEFINE D == DOMAIN f
           n == Cardinality(D)
<1>1. n \in Nat
  BY FS_CardinalityType
<1>2. /\ DOMAIN Squeeze(f) = 0 .. n - 1
      /\ \A j \in 0 .. n - 1 : Squeeze(f)[j] = f[Nth(D, j)]
  BY DEF Squeeze
<1>3. \A j \in 0 .. n - 1 : Nth(D, j) \in D
  BY NthRank
<1>4. \A x \in D : Rank(D, x) \in 0 .. n - 1 /\ Nth(D, Rank(D, x)) = x
  BY RankBound, NthOfRank
<1>5. ASSUME NEW k \in Values(f) PROVE k \in Values(Squeeze(f))
  <2>1. PICK x \in D : k = f[x]
    BY DEF Values
  <2>2. Squeeze(f)[Rank(D, x)] = k /\ Rank(D, x) \in DOMAIN Squeeze(f)
    BY <1>2, <1>4, <2>1
  <2> QED
    BY <2>2 DEF Values
<1>6. ASSUME NEW k \in Values(Squeeze(f)) PROVE k \in Values(f)
  BY <1>2, <1>3 DEF Values
<1> QED
  BY <1>1, <1>2, <1>3, <1>5, <1>6

LEMMA SqueezeFile ==
  ASSUME NEW f, IsFiniteSet(DOMAIN f), DOMAIN f \in SUBSET Nat,
         \A i \in DOMAIN f : f[i] \in Line
  PROVE  Squeeze(f) \in Files
<1>1. Squeeze(f) \in [0 .. Cardinality(DOMAIN f) - 1 -> Line]
  <2>1. \A j \in 0 .. Cardinality(DOMAIN f) - 1 : f[Nth(DOMAIN f, j)] \in Line
    BY SqueezeFacts
  <2> QED
    BY <2>1 DEF Squeeze
<1> QED
  BY <1>1, SqueezeFacts DEF Files

LEMMA SqueezeSorted ==
  ASSUME NEW f, IsFiniteSet(DOMAIN f), DOMAIN f \in SUBSET Nat
  PROVE  /\ Sorted(f) => Sorted(Squeeze(f))
         /\ Distinct(f) => Distinct(Squeeze(f))
<1> DEFINE D == DOMAIN f
           n == Cardinality(D)
<1>1. /\ DOMAIN Squeeze(f) = 0 .. n - 1 /\ n \in Nat
      /\ \A j \in 0 .. n - 1 : Nth(D, j) \in D /\ Squeeze(f)[j] = f[Nth(D, j)]
  BY SqueezeFacts
<1>2. \A i, j \in 0 .. n - 1 : i < j => Nth(D, i) < Nth(D, j)
  BY NthOrder
<1>3. \A j \in 0 .. n - 1 : Nth(D, j) \in Int
  BY <1>1
<1>4. \A i, j \in 0 .. n - 1 : i <= j => Nth(D, i) <= Nth(D, j)
  BY <1>1, <1>2, <1>3
<1>5. \A i, j \in 0 .. n - 1 : Nth(D, i) = Nth(D, j) => i = j
  BY <1>1, <1>2, <1>3
<1> HIDE DEF n
<1>6. Sorted(f) => Sorted(Squeeze(f))
  <2> SUFFICES ASSUME Sorted(f), NEW i \in 0 .. n - 1, NEW j \in 0 .. n - 1, i <= j,
                      f[Nth(D, i)][1] \in Key, f[Nth(D, j)][1] \in Key
               PROVE  Older(f[Nth(D, i)], f[Nth(D, j)])
    BY <1>1 DEF Sorted
  <2> QED
    BY <1>1, <1>4 DEF Sorted
<1>7. Distinct(f) => Distinct(Squeeze(f))
  BY <1>1, <1>5 DEF Distinct
<1> QED
  BY <1>6, <1>7

LEMMA UpToSqueeze ==
  ASSUME NEW f, IsFiniteSet(DOMAIN f), DOMAIN f \in SUBSET Nat, NEW top, UpTo(f, top)
  PROVE  UpTo(Squeeze(f), top)
BY SqueezeFacts DEF UpTo

(* What an append makes of the file.                                         *)
LEMMA AppendFacts ==
  ASSUME NEW f \in Files, NEW k \in Line
  PROVE  /\ AppendLine(f, k) \in Files /\ DOMAIN AppendLine(f, k) # {}
         /\ Values(AppendLine(f, k)) = Values(f) \cup {k}
         /\ Sorted(f) /\ (k[1] \in Key => UpTo(f, k)) => Sorted(AppendLine(f, k))
         /\ Distinct(f) /\ (k = Torn \/ k[1] \notin Keys(f)) => Distinct(AppendLine(f, k))
         /\ \A top : UpTo(f, top) /\ (k[1] \in Key => Older(k, top))
                       => UpTo(AppendLine(f, k), top)
<1> DEFINE n == Cardinality(DOMAIN f)
           g == AppendLine(f, k)
<1>1. n \in Nat /\ DOMAIN f = 0 .. n - 1 /\ \A i \in 0 .. n - 1 : f[i] \in Line
  BY FileFacts
<1>2. /\ DOMAIN g = 0 .. n /\ g[n] = k
      /\ \A i \in 0 .. n - 1 : g[i] = f[i]
      /\ g = [i \in 0 .. n |-> g[i]]
  BY <1>1 DEF AppendLine
<1> HIDE DEF n, g
<1>3. \A i \in 0 .. n : i \in 0 .. n - 1 \/ i = n
  BY <1>1
<1>4. n + 1 \in Nat /\ 0 .. n = 0 .. (n + 1) - 1
  BY <1>1
<1>5. \A i \in 0 .. n - 1 : i \in 0 .. n
  BY <1>1
<1>6. g \in Files
  <2>1. \A i \in 0 .. n : g[i] \in Line
    BY <1>1, <1>2, <1>3
  <2>2. g \in [0 .. n -> Line]
    BY <1>2, <2>1
  <2> QED
    BY <1>4, <2>2 DEF Files
<1>7. Values(g) = Values(f) \cup {k} /\ DOMAIN g # {}
  <2>1. n \in DOMAIN g
    BY <1>1, <1>2
  <2> QED
    BY <1>1, <1>2, <1>3, <1>5, <2>1 DEF Values
<1>8. ASSUME Sorted(f), k[1] \in Key => UpTo(f, k) PROVE Sorted(g)
  <2> SUFFICES ASSUME NEW i \in 0 .. n, NEW j \in 0 .. n, i <= j,
                      g[i][1] \in Key, g[j][1] \in Key
               PROVE  Older(g[i], g[j])
    BY <1>2 DEF Sorted
  <2>1. CASE j = n /\ i = n
    <3>1. k[1] \in Key
      BY <1>2, <2>1
    <3> QED
      BY <1>2, <2>1, <3>1, QueueAssumption DEF Older, Key
  <2>2. CASE j = n /\ i \in 0 .. n - 1
    BY <1>1, <1>2, <1>8, <2>2 DEF UpTo
  <2>3. CASE j \in 0 .. n - 1
    <3>1. i \in 0 .. n - 1
      BY <1>1, <2>3
    <3> QED
      BY <1>1, <1>2, <1>8, <2>3, <3>1 DEF Sorted
  <2> QED
    BY <1>3, <2>1, <2>2, <2>3
<1>9. ASSUME Distinct(f), k = Torn \/ k[1] \notin Keys(f) PROVE Distinct(g)
  <2> SUFFICES ASSUME NEW i \in 0 .. n, NEW j \in 0 .. n, g[i][1] = g[j][1],
                      g[i][1] # Torn[1]
               PROVE  i = j
    BY <1>2 DEF Distinct
  <2>1. \A x \in 0 .. n - 1 : g[x] = f[x] /\ f[x][1] \in Keys(f)
    BY <1>1, <1>2 DEF Keys
  <2>2. CASE i = n \/ j = n
    BY <1>2, <1>3, <1>9, <2>1, <2>2
  <2>3. CASE i \in 0 .. n - 1 /\ j \in 0 .. n - 1
    BY <1>1, <1>9, <2>1, <2>3 DEF Distinct
  <2> QED
    BY <1>3, <2>2, <2>3
<1>10. ASSUME NEW top, UpTo(f, top), k[1] \in Key => Older(k, top) PROVE UpTo(g, top)
  BY <1>1, <1>2, <1>3, <1>10 DEF UpTo
<1> QED
  BY <1>6, <1>7, <1>8, <1>9, <1>10 DEF g

(* The last line replaced by one with its key, or by one that is newer.      *)
LEMMA PatchFacts ==
  ASSUME NEW f \in Files, NEW n \in DOMAIN f, \A i \in DOMAIN f : i <= n,
         NEW m \in Line, m[1] \in Key => m[1] = f[n][1] \/ UpTo(f, m)
  PROVE  LET g == [f EXCEPT ![n] = m]
         IN  /\ g \in Files /\ DOMAIN g = DOMAIN f
             /\ Values(f) \subseteq Values(g) \cup {f[n]}
             /\ Values(g) \subseteq Values(f) \cup {m}
             /\ Sorted(f) => Sorted(g)
             /\ \A top : UpTo(f, top) /\ (m[1] \in Key => Older(m, top)) => UpTo(g, top)
<1> DEFINE g == [f EXCEPT ![n] = m]
<1>1. /\ g \in Files /\ DOMAIN g = DOMAIN f /\ g[n] = m
      /\ \A i \in DOMAIN f : i # n => g[i] = f[i]
  BY FileFacts DEF Files
<1> HIDE DEF g
<1>2. Values(f) \subseteq Values(g) \cup {f[n]} /\ Values(g) \subseteq Values(f) \cup {m}
  BY <1>1 DEF Values
<1>3. ASSUME Sorted(f) PROVE Sorted(g)
  <2> SUFFICES ASSUME NEW i \in DOMAIN f, NEW j \in DOMAIN f, i <= j,
                      g[i][1] \in Key, g[j][1] \in Key
               PROVE  Older(g[i], g[j])
    BY <1>1 DEF Sorted
  <2>1. CASE i # n /\ j # n
    BY <1>1, <1>3, <2>1 DEF Sorted
  <2>2. CASE j = n /\ i # n
    BY <1>1, <1>3, <2>2 DEF Sorted, UpTo, Older
  <2>3. CASE i = n
    <3>1. j = n
      BY <2>3, FileFacts
    <3> QED
      BY <1>1, <2>3, <3>1, QueueAssumption DEF Older, Key
  <2> QED
    BY <2>1, <2>2, <2>3
<1>4. \A top : UpTo(f, top) /\ (m[1] \in Key => Older(m, top)) => UpTo(g, top)
  BY <1>1 DEF UpTo
<1> QED
  BY <1>1, <1>2, <1>3, <1>4 DEF g

(* What a close that fails makes of a rewritten file.                        *)
LEMMA PrefixFacts ==
  ASSUME NEW f \in Files, NEW n \in DOMAIN f
  PROVE  /\ Prefix(f, n) \in Files /\ DOMAIN Prefix(f, n) \subseteq DOMAIN f
         /\ \A i \in DOMAIN Prefix(f, n) : Prefix(f, n)[i] = f[i] /\ i < n
<1>1. n \in Nat /\ \A i \in 0 .. n - 1 : i \in DOMAIN f /\ f[i] \in Line /\ i < n
  BY FileFacts
<1>2. Prefix(f, n) \in [0 .. n - 1 -> Line]
  BY <1>1 DEF Prefix
<1> QED
  BY <1>1, <1>2 DEF Prefix, Files

LEMMA ShortFacts ==
  ASSUME NEW f \in Files, \A i \in DOMAIN f : f[i] \in Frame, Sorted(f),
         NEW top, UpTo(f, top), NEW s \in Short(f)
  PROVE  /\ s.file \in Files /\ s.open \in BOOLEAN /\ (s.open => DOMAIN s.file # {})
         /\ Sorted(s.file) /\ UpTo(s.file, top)
         /\ Keys(s.file) \subseteq Keys(f) \cup {Torn[1]}
<1>1. ASSUME NEW n \in DOMAIN f
      PROVE  /\ Prefix(f, n) \in Files /\ Sorted(Prefix(f, n)) /\ UpTo(Prefix(f, n), top)
             /\ Keys(Prefix(f, n)) \subseteq Keys(f)
             /\ f[n][1] \in Key => UpTo(Prefix(f, n), f[n])
  BY PrefixFacts, FileFacts DEF Sorted, UpTo, Keys
<1>2. CASE \E n \in DOMAIN f : s = [file |-> Prefix(f, n), open |-> FALSE]
  BY <1>1, <1>2
<1>3. CASE \E n \in DOMAIN f : \E line \in Cut(f[n]) :
             s = [file |-> AppendLine(Prefix(f, n), line), open |-> TRUE]
  <2>0. PICK n \in DOMAIN f : \E line \in Cut(f[n]) :
          s = [file |-> AppendLine(Prefix(f, n), line), open |-> TRUE]
    BY <1>3
  <2>1. PICK line \in Cut(f[n]) :
          s = [file |-> AppendLine(Prefix(f, n), line), open |-> TRUE]
    BY <2>0
  <2> DEFINE p == Prefix(f, n)
  <2>2. /\ p \in Files /\ Sorted(p) /\ UpTo(p, top) /\ Keys(p) \subseteq Keys(f)
        /\ f[n][1] \in Key => UpTo(p, f[n])
    BY <1>1
  <2> HIDE DEF p
  <2>3. line \in Line /\ (line = Torn \/ line[1] = f[n][1])
    BY CutFacts
  <2>4. line[1] \in Key => line[1] = f[n][1] /\ UpTo(p, line) /\ Older(line, top)
    BY <2>2, <2>3, FrameLine DEF UpTo, Older
  <2>5. /\ AppendLine(p, line) \in Files /\ DOMAIN AppendLine(p, line) # {}
        /\ Sorted(AppendLine(p, line)) /\ UpTo(AppendLine(p, line), top)
        /\ Values(AppendLine(p, line)) = Values(p) \cup {line}
    BY <2>2, <2>3, <2>4, AppendFacts
  <2>6. Keys(AppendLine(p, line)) \subseteq Keys(f) \cup {Torn[1]}
    <3>1. f[n][1] \in Keys(f)
      BY DEF Keys
    <3> QED
      BY <2>2, <2>3, <2>5, <3>1, ValuesKeys
  <2> QED
    BY <2>1, <2>5, <2>6 DEF p
<1> QED
  BY <1>2, <1>3 DEF Short

-----------------------------------------------------------------------------
(* The tree of runs over the pending indices D.                              *)
RunsOf(rs, D) ==
  /\ rs \subseteq Nat \X Nat
  /\ \A r \in rs : r[1] <= r[2] /\ \A i \in r[1] .. r[2] : i \in D
  /\ \A i \in D : \E r \in rs : i \in r[1] .. r[2]
  /\ \A r, q \in rs : r # q => r[2] + 1 < q[1] \/ q[2] + 1 < r[1]

LEMMA InsertRuns ==
  ASSUME NEW D \in SUBSET Nat, NEW n \in Nat, \A i \in D : i < n, NEW rs, RunsOf(rs, D)
  PROVE  RunsOf(InsertRun(rs, n), D \cup {n})
<1> DEFINE last == {r \in rs : r[2] + 1 = n}
<1>1. \A r \in rs : /\ r \in Nat \X Nat /\ r = <<r[1], r[2]>>
                    /\ r[1] \in Nat /\ r[2] \in Nat /\ r[1] <= r[2]
                    /\ r[2] \in D /\ r[2] < n
  BY DEF RunsOf
<1>2. CASE last = {}
  <2>1. InsertRun(rs, n) = rs \cup {<<n, n>>}
    BY <1>2 DEF InsertRun
  <2>2. \A r \in rs : r[2] + 1 < n
    BY <1>1, <1>2
  <2>3. rs \cup {<<n, n>>} \subseteq Nat \X Nat
    BY DEF RunsOf
  <2>4. \A r \in rs \cup {<<n, n>>} :
           r[1] <= r[2] /\ \A i \in r[1] .. r[2] : i \in D \cup {n}
    BY DEF RunsOf
  <2>5. \A i \in D \cup {n} : \E r \in rs \cup {<<n, n>>} : i \in r[1] .. r[2]
    <3>1. n \in <<n, n>>[1] .. <<n, n>>[2]
      OBVIOUS
    <3>2. \A i \in D : \E r \in rs : i \in r[1] .. r[2]
      BY DEF RunsOf
    <3> QED
      BY <3>1, <3>2
  <2>6. \A r, q \in rs \cup {<<n, n>>} : r # q => r[2] + 1 < q[1] \/ q[2] + 1 < r[1]
    BY <2>2 DEF RunsOf
  <2> QED
    BY <2>1, <2>3, <2>4, <2>5, <2>6 DEF RunsOf
<1>3. CASE last # {}
  <2>1. PICK l \in rs : l[2] + 1 = n
    BY <1>3
  <2>2. last = {l}
    <3>1. \A r \in rs : r[2] + 1 = n => r = l
      BY <1>1, <2>1 DEF RunsOf
    <3> QED
      BY <2>1, <3>1
  <2> DEFINE m == <<l[1], n>>
             new == (rs \ {l}) \cup {m}
  <2>3. InsertRun(rs, n) = new
    <3> HIDE DEF last
    <3>1. InsertRun(rs, n) = (rs \ last) \cup {<<r[1], n>> : r \in last}
      BY <1>3 DEF InsertRun, last
    <3> QED
      BY <2>2, <3>1
  <2>4. m \in Nat \X Nat /\ m[1] = l[1] /\ m[2] = n /\ l[1] <= n
    BY <1>1, <2>1
  <2> HIDE DEF m
  <2>5. new \subseteq Nat \X Nat
    BY <2>4 DEF RunsOf
  <2>6. \A r \in new : r[1] <= r[2] /\ \A i \in r[1] .. r[2] : i \in D \cup {n}
    <3>1. \A i \in l[1] .. n : i \in l[1] .. l[2] \/ i = n
      BY <1>1, <2>1
    <3>2. \A i \in m[1] .. m[2] : i \in D \cup {n}
      BY <2>1, <2>4, <3>1 DEF RunsOf
    <3> QED
      BY <2>4, <3>2 DEF RunsOf
  <2>7. \A i \in D \cup {n} : \E r \in new : i \in r[1] .. r[2]
    <3>1. \A i \in l[1] .. l[2] : i \in m[1] .. m[2]
      BY <1>1, <2>1, <2>4
    <3>2. n \in m[1] .. m[2] /\ m \in new
      BY <1>1, <2>4
    <3>3. ASSUME NEW i \in D PROVE \E r \in new : i \in r[1] .. r[2]
      <4>1. PICK r \in rs : i \in r[1] .. r[2]
        BY DEF RunsOf
      <4> QED
        BY <3>1, <3>2, <4>1
    <3> QED
      BY <3>2, <3>3
  <2>8. \A r, q \in new : r # q => r[2] + 1 < q[1] \/ q[2] + 1 < r[1]
    <3>1. \A r \in rs \ {l} : r[2] + 1 < m[1] \/ m[2] + 1 < r[1]
      BY <1>1, <2>1, <2>4 DEF RunsOf
    <3>2. \A r, q \in rs \ {l} : r # q => r[2] + 1 < q[1] \/ q[2] + 1 < r[1]
      BY DEF RunsOf
    <3> QED
      BY <3>1, <3>2
  <2> QED
    BY <2>3, <2>5, <2>6, <2>7, <2>8 DEF RunsOf
<1> QED
  BY <1>2, <1>3

(* An index that stays lies in the part of its run between the nearest two   *)
(* removed ones; two parts of a run have a removed index between them.       *)
LEMMA SplitHolds ==
  ASSUME NEW r \in Nat \X Nat, NEW S, NEW i \in r[1] .. r[2], i \notin S
  PROVE  \E q \in Split(r, S) : i \in q[1] .. q[2]
<1> DEFINE A == {n \in r[1] .. i : n .. i \cap S = {}}
           B == {n \in i .. r[2] : i .. n \cap S = {}}
<1>1. r[1] \in Nat /\ r[2] \in Nat /\ i \in Nat /\ r[1] <= i /\ i <= r[2]
  OBVIOUS
<1>2. i .. i \cap S = {}
  BY <1>1
<1>3. i \in A /\ A \in SUBSET Nat /\ i \in B /\ B \in SUBSET Nat /\ \A n \in B : n <= r[2]
  BY <1>1, <1>2
<1>4. PICK a \in A : \A n \in A : a <= n
  BY <1>3, Least
<1>5. PICK b \in B : \A n \in B : n <= b
  BY <1>1, <1>3, Greatest
<1>6. /\ a \in Nat /\ b \in Nat /\ r[1] <= a /\ a <= i /\ i <= b /\ b <= r[2]
      /\ a .. i \cap S = {} /\ i .. b \cap S = {}
  BY <1>1, <1>4, <1>5
<1>7. a .. b \cap S = {}
  BY <1>1, <1>6
<1>8. a = r[1] \/ a - 1 \in S
  <2> SUFFICES ASSUME a # r[1], a - 1 \notin S PROVE FALSE
    OBVIOUS
  <2>1. a - 1 \in r[1] .. i
    BY <1>1, <1>6
  <2>2. \A x \in (a - 1) .. i : x = a - 1 \/ x \in a .. i
    BY <1>1, <1>6
  <2>3. (a - 1) .. i \cap S = {}
    BY <1>6, <2>2
  <2>4. a <= a - 1
    BY <1>4, <2>1, <2>3
  <2> QED
    BY <1>6, <2>4
<1>9. b = r[2] \/ b + 1 \in S
  <2> SUFFICES ASSUME b # r[2], b + 1 \notin S PROVE FALSE
    OBVIOUS
  <2>1. b + 1 \in i .. r[2]
    BY <1>1, <1>6
  <2>2. \A x \in i .. (b + 1) : x = b + 1 \/ x \in i .. b
    BY <1>1, <1>6
  <2>3. i .. (b + 1) \cap S = {}
    BY <1>6, <2>2
  <2>4. b + 1 <= b
    BY <1>5, <2>1, <2>3
  <2> QED
    BY <1>6, <2>4
<1> DEFINE q == <<a, b>>
<1>10. q \in (r[1] .. r[2]) \X (r[1] .. r[2]) /\ q[1] = a /\ q[2] = b
  BY <1>1, <1>6
<1> HIDE DEF q, A, B
<1>11. q[1] <= q[2]
  BY <1>6, <1>10
<1>12. q \in Split(r, S)
  BY <1>7, <1>8, <1>9, <1>10, <1>11 DEF Split
<1>13. i \in q[1] .. q[2]
  BY <1>1, <1>6, <1>10
<1> QED
  BY <1>12, <1>13

LEMMA SplitApart ==
  ASSUME NEW r \in Nat \X Nat, NEW S, NEW q \in Split(r, S), NEW p \in Split(r, S),
         q # p
  PROVE  q[2] + 1 < p[1] \/ p[2] + 1 < q[1]
<1>1. ASSUME NEW s \in Split(r, S)
      PROVE  /\ s \in Nat \X Nat /\ s[1] \in Nat /\ s[2] \in Nat
             /\ r[1] <= s[1] /\ s[1] <= s[2] /\ s[2] <= r[2]
             /\ \A x \in s[1] .. s[2] : x \notin S
             /\ s[1] = r[1] \/ s[1] - 1 \in S
             /\ s[2] = r[2] \/ s[2] + 1 \in S
  BY DEF Split
<1>2. ASSUME NEW s \in Split(r, S), NEW t \in Split(r, S), s[1] < t[1]
      PROVE  s[2] + 1 < t[1]
  <2>1. t[1] - 1 \in S
    BY <1>1, <1>2
  <2>2. t[1] - 1 \notin s[1] .. s[2]
    BY <1>1, <2>1
  <2> QED
    BY <1>1, <1>2, <2>2
<1>3. ASSUME NEW s \in Split(r, S), NEW t \in Split(r, S), s[1] = t[1]
      PROVE  ~ (s[2] < t[2])
  <2> SUFFICES ASSUME s[2] < t[2] PROVE FALSE
    OBVIOUS
  <2>1. s[2] + 1 \in S
    BY <1>1
  <2>2. s[2] + 1 \in t[1] .. t[2]
    BY <1>1, <1>3
  <2> QED
    BY <1>1, <2>1, <2>2
<1>4. CASE q[1] < p[1]
  BY <1>2, <1>4
<1>5. CASE p[1] < q[1]
  BY <1>2, <1>5
<1>6. CASE p[1] = q[1]
  <2>1. ~ (q[2] < p[2]) /\ ~ (p[2] < q[2])
    BY <1>3, <1>6
  <2>2. q[2] = p[2]
    BY <1>1, <2>1
  <2> QED
    BY <1>1, <1>6, <2>2
<1> QED
  BY <1>1, <1>4, <1>5, <1>6

LEMMA RemoveRuns ==
  ASSUME NEW D \in SUBSET Nat, NEW S, NEW rs, RunsOf(rs, D)
  PROVE  RunsOf(RemoveRun(rs, S), D \ S)
<1> DEFINE new == RemoveRun(rs, S)
<1>1. \A r \in rs : r \in Nat \X Nat /\ r[1] \in Nat /\ r[2] \in Nat /\ r[1] <= r[2]
  BY DEF RunsOf
<1>2. \A s \in new : \E r \in rs : s \in Split(r, S)
  BY DEF RemoveRun
<1>3. ASSUME NEW r \in rs, NEW s \in Split(r, S)
      PROVE  /\ s \in new /\ s \in Nat \X Nat /\ s[1] \in Nat /\ s[2] \in Nat
             /\ r[1] <= s[1] /\ s[1] <= s[2] /\ s[2] <= r[2]
             /\ \A i \in s[1] .. s[2] : i \in r[1] .. r[2] /\ i \notin S
  BY <1>1 DEF Split, RemoveRun
<1> HIDE DEF new
<1>4. new \subseteq Nat \X Nat
  BY <1>2, <1>3
<1>5. \A s \in new : s[1] <= s[2] /\ \A i \in s[1] .. s[2] : i \in D \ S
  BY <1>2, <1>3 DEF RunsOf
<1>6. \A i \in D \ S : \E s \in new : i \in s[1] .. s[2]
  <2> SUFFICES ASSUME NEW i \in D \ S PROVE \E s \in new : i \in s[1] .. s[2]
    OBVIOUS
  <2>1. PICK r \in rs : i \in r[1] .. r[2]
    BY DEF RunsOf
  <2>2. r \in Nat \X Nat
    BY <1>1
  <2>3. PICK q \in Split(r, S) : i \in q[1] .. q[2]
    BY <2>1, <2>2, SplitHolds
  <2> QED
    BY <1>3, <2>3
<1>7. \A s, t \in new : s # t => s[2] + 1 < t[1] \/ t[2] + 1 < s[1]
  <2> SUFFICES ASSUME NEW s \in new, NEW t \in new, s # t
               PROVE  s[2] + 1 < t[1] \/ t[2] + 1 < s[1]
    OBVIOUS
  <2>1. PICK r \in rs : s \in Split(r, S)
    BY <1>2
  <2>2. PICK q \in rs : t \in Split(q, S)
    BY <1>2
  <2>3. CASE r = q
    BY <1>1, <2>1, <2>2, <2>3, SplitApart
  <2>4. CASE r # q
    <3>1. r[2] + 1 < q[1] \/ q[2] + 1 < r[1]
      BY <2>4 DEF RunsOf
    <3> QED
      BY <1>1, <1>3, <2>1, <2>2, <3>1
  <2> QED
    BY <2>3, <2>4
<1> QED
  BY <1>4, <1>5, <1>6, <1>7 DEF RunsOf, new

-----------------------------------------------------------------------------
(* The frames in memory, the file, and how the two agree.  top is the newest *)
(* frame there can be.                                                       *)
Disks == [on : BOOLEAN, file : Files, open : BOOLEAN, dead : Nat,
          faults : 0 .. MaxFaults, lost : SUBSET Line]

MemoryOK(fr, top) ==
  /\ IsFiniteSet(DOMAIN fr) /\ DOMAIN fr \in SUBSET Nat
  /\ \A i \in DOMAIN fr : fr[i] \in Frame
  /\ Sorted(fr) /\ UpTo(fr, top)
DiskOK(d, top) ==
  /\ d \in Disks
  /\ Sorted(d.file) /\ UpTo(d.file, top)
  /\ d.open => DOMAIN d.file # {}
  /\ d.faults = 0 => d.on /\ Distinct(d.file)
(* The file has every frame but those of S and those it is known to have     *)
(* lost, and no other key unless it counts dead lines.                       *)
AgreesBut(d, fr, S) ==
  d.on => /\ Values(fr) \subseteq Values(d.file) \cup d.lost \cup S
          /\ d.dead = 0 => Keys(d.file) \subseteq Keys(fr) \cup {Torn[1], MadeUp[1]}
Agrees(d, fr) == AgreesBut(d, fr, {})
Neat(d, fr) == d.on /\ Cardinality(DOMAIN fr) <= CheapLive => d.dead = 0
(* No fault has cut the last line.                                           *)
Closed(d) == d.faults = 0 => ~ d.open

LEMMA EmptyFile ==
  /\ Empty \in Files /\ DOMAIN Empty = {} /\ Values(Empty) = {}
  /\ Sorted(Empty) /\ Distinct(Empty) /\ \A top : UpTo(Empty, top)
<1>1. DOMAIN Empty = {}
  BY DEF Empty
<1>2. Empty \in [0 .. 0 - 1 -> Line]
  <2>1. 0 .. 0 - 1 = {}
    OBVIOUS
  <2> QED
    BY <2>1 DEF Empty
<1> QED
  BY <1>1, <1>2 DEF Files, Values, Sorted, Distinct, UpTo

LEMMA OffDisk ==
  ASSUME NEW d, NEW top, DiskOK(d, top), Fails(d)
  PROVE  /\ DiskOK(Off(d), top) /\ ~ Off(d).on /\ Off(d).faults > 0
         /\ Off(d).file = d.file /\ Off(d).open = d.open
<1>1. d \in Disks /\ d.faults + 1 \in 0 .. MaxFaults /\ d.faults \in Nat
  BY QueueAssumption DEF DiskOK, Disks, Fails
<1>2. Off(d) \in Disks /\ ~ Off(d).on
      /\ Off(d).faults = d.faults + 1 /\ Off(d).file = d.file /\ Off(d).open = d.open
  BY <1>1 DEF Off, Disks
<1>3. d.faults + 1 > 0 /\ d.faults + 1 # 0
  BY <1>1
<1> QED
  BY <1>2, <1>3 DEF DiskOK

(* A rewrite changes no field but these.                                     *)
LEMMA RewriteFields ==
  ASSUME NEW d \in Disks, NEW fr, Squeeze(fr) \in Files
  PROVE  /\ Rewritten(d, fr) \in Disks /\ Rewritten(d, fr).on = d.on
         /\ Rewritten(d, fr).file = Squeeze(fr)
         /\ Rewritten(d, fr).open = FALSE /\ Rewritten(d, fr).dead = 0
         /\ Rewritten(d, fr).faults = d.faults
BY DEF Disks, Rewritten

LEMMA CompactDisk ==
  ASSUME NEW d, NEW fr, NEW top, MemoryOK(fr, top), DiskOK(d, top), d.on,
         d.faults = 0 => Distinct(fr), NEW e \in Compact(d, fr)
  PROVE  /\ DiskOK(e, top) /\ Agrees(e, fr) /\ Closed(e) /\ (e.on => e.dead = 0)
         /\ e.faults = 0 => Values(e.file) = Values(fr) /\ d.faults = 0
<1> DEFINE sq == Squeeze(fr)
<1>1. /\ sq \in Files /\ Sorted(sq) /\ UpTo(sq, top) /\ Values(sq) = Values(fr)
      /\ d.faults = 0 => Distinct(sq)
      /\ \A i \in DOMAIN sq : sq[i] \in Frame
  <2>1. \A i \in DOMAIN fr : fr[i] \in Line
    BY FrameLine DEF MemoryOK
  <2>2. \A i \in DOMAIN sq : sq[i] \in Frame
    BY SqueezeFacts DEF MemoryOK
  <2> QED
    BY <2>1, <2>2, SqueezeFile, SqueezeFacts, SqueezeSorted, UpToSqueeze DEF MemoryOK
<1>2. Keys(sq) = Keys(fr)
  BY <1>1, ValuesKeys
<1>3. /\ Rewritten(d, fr) \in Disks /\ Rewritten(d, fr).on /\ Rewritten(d, fr).file = sq
      /\ ~ Rewritten(d, fr).open /\ Rewritten(d, fr).dead = 0
      /\ Rewritten(d, fr).faults = d.faults
  BY <1>1, RewriteFields DEF DiskOK
<1> HIDE DEF sq
<1>4. CASE e = Rewritten(d, fr)
  BY <1>1, <1>2, <1>3, <1>4 DEF DiskOK, Agrees, AgreesBut, Closed
<1>5. CASE Fails(d) /\ e = Off(d)
  <2>1. DiskOK(e, top) /\ ~ e.on /\ e.faults > 0
    BY <1>5, OffDisk
  <2> QED
    BY <2>1 DEF Agrees, AgreesBut, Closed
<1>6. CASE Fails(d) /\ e = [Off(d) EXCEPT !.file = Empty, !.open = FALSE]
  <2>1. DiskOK(Off(d), top) /\ ~ Off(d).on /\ Off(d).faults > 0 /\ Off(d) \in Disks
    BY <1>6, OffDisk DEF DiskOK
  <2>2. /\ e \in Disks /\ ~ e.on /\ e.faults > 0 /\ e.file = Empty /\ ~ e.open
    BY <1>6, <2>1, EmptyFile DEF Disks
  <2> QED
    BY <2>2, EmptyFile DEF DiskOK, Agrees, AgreesBut, Closed
<1>7. CASE Fails(d) /\ \E s \in Short(sq) :
             e = [Rewritten(d, fr) EXCEPT !.file = s.file, !.open = s.open, !.faults = @ + 1,
                                          !.lost = Values(fr) \ Values(s.file)]
  <2>1. PICK s \in Short(sq) :
             e = [Rewritten(d, fr) EXCEPT !.file = s.file, !.open = s.open, !.faults = @ + 1,
                                          !.lost = Values(fr) \ Values(s.file)]
    BY <1>7
  <2>2. /\ s.file \in Files /\ s.open \in BOOLEAN /\ (s.open => DOMAIN s.file # {})
        /\ Sorted(s.file) /\ UpTo(s.file, top) /\ Keys(s.file) \subseteq Keys(fr) \cup {Torn[1]}
    BY <1>1, <1>2, ShortFacts
  <2>3. d.faults + 1 \in 0 .. MaxFaults /\ d.faults + 1 # 0
    BY <1>7, QueueAssumption DEF DiskOK, Disks, Fails
  <2> DEFINE l == Values(fr) \ Values(s.file)
             w == Rewritten(d, fr)
  <2>4. l \subseteq Line
    BY FrameLine DEF Values, MemoryOK
  <2> HIDE DEF l
  <2>5. e = [w EXCEPT !.file = s.file, !.open = s.open, !.faults = @ + 1, !.lost = l]
    BY <2>1, Zenon DEF l
  <2>6. w \in Disks /\ w.on /\ w.dead = 0 /\ w.faults = d.faults
    BY <1>3
  <2> HIDE DEF w
  <2>7. /\ e \in Disks /\ e.on /\ e.file = s.file /\ e.open = s.open /\ e.dead = 0
        /\ e.faults = d.faults + 1 /\ e.lost = l
    BY <2>2, <2>3, <2>4, <2>5, <2>6 DEF Disks
  <2> QED
    BY <2>2, <2>3, <2>7 DEF DiskOK, Agrees, AgreesBut, Closed, l
<1>8. \/ e = Rewritten(d, fr)
      \/ Fails(d) /\ e = Off(d)
      \/ Fails(d) /\ e = [Off(d) EXCEPT !.file = Empty, !.open = FALSE]
      \/ Fails(d) /\ \E s \in Short(sq) :
             e = [Rewritten(d, fr) EXCEPT !.file = s.file, !.open = s.open, !.faults = @ + 1,
                                          !.lost = Values(fr) \ Values(s.file)]
  BY DEF Compact, sq
<1> QED
  BY <1>4, <1>5, <1>6, <1>7, <1>8

LEMMA MaybeCompactDisk ==
  ASSUME NEW d, NEW fr, NEW top, MemoryOK(fr, top), DiskOK(d, top), Agrees(d, fr),
         Closed(d), d.faults = 0 => Distinct(fr), NEW e \in MaybeCompact(d, fr)
  PROVE  /\ DiskOK(e, top) /\ Agrees(e, fr) /\ Neat(e, fr) /\ Closed(e)
         /\ e.faults = 0 => e = d \/ Values(e.file) = Values(fr)
         /\ e.faults = 0 => d.faults = 0
<1>1. CASE d.on /\ e \in Compact(d, fr)
  BY <1>1, CompactDisk DEF Neat
<1>2. CASE e = d /\ Neat(d, fr)
  BY <1>2
<1>3. (d.on /\ e \in Compact(d, fr)) \/ (e = d /\ Neat(d, fr))
  BY DEF MaybeCompact, Neat
<1> QED
  BY <1>1, <1>2, <1>3

LEMMA RetryDisk ==
  ASSUME NEW d, NEW fr, NEW top, NEW S, MemoryOK(fr, top), DiskOK(d, top),
         AgreesBut(d, fr, S), Closed(d), d.faults = 0 => Distinct(fr),
         NEW e \in RetryPersistence(d, fr)
  PROVE  /\ DiskOK(e, top) /\ AgreesBut(e, fr, S) /\ Closed(e) /\ (e.faults = 0 => e = d)
<1>1. CASE e = d
  BY <1>1
<1>2. CASE ~ d.on /\ e \in Compact([d EXCEPT !.on = TRUE], fr)
  <2> DEFINE c == [d EXCEPT !.on = TRUE]
  <2>1. /\ c \in Disks /\ c.on = TRUE /\ c.file = d.file /\ c.open = d.open
        /\ c.faults = d.faults
    BY DEF DiskOK, Disks
  <2>2. DiskOK(c, top) /\ c.on /\ c.faults = d.faults
    BY <2>1 DEF DiskOK
  <2>3. d.faults # 0
    BY <1>2 DEF DiskOK
  <2> HIDE DEF c
  <2>4. DiskOK(e, top) /\ Agrees(e, fr) /\ Closed(e) /\ (e.faults = 0 => c.faults = 0)
    BY <1>2, <2>2, <2>3, CompactDisk DEF c
  <2> QED
    BY <2>2, <2>3, <2>4 DEF Agrees, AgreesBut
<1> QED
  BY <1>1, <1>2 DEF RetryPersistence

LEMMA SettleDisk ==
  ASSUME NEW d, NEW fr, NEW top, MemoryOK(fr, top), DiskOK(d, top), Agrees(d, fr),
         Closed(d), d.faults = 0 => Distinct(fr), NEW e \in Settle(d, fr)
  PROVE  /\ DiskOK(e, top) /\ Agrees(e, fr) /\ Neat(e, fr) /\ Closed(e)
         /\ e.faults = 0 => e = d \/ Values(e.file) = Values(fr)
         /\ e.faults = 0 => d.faults = 0
<1>1. PICK c \in RetryPersistence(d, fr) : e \in MaybeCompact(c, fr)
  BY DEF Settle
<1>2. DiskOK(c, top) /\ Agrees(c, fr) /\ Closed(c) /\ (c.faults = 0 => c = d)
  BY RetryDisk DEF Agrees
<1>3. c.faults = 0 => Distinct(fr)
  BY <1>2
<1> QED
  BY <1>1, <1>2, <1>3, MaybeCompactDisk

(* A line goes behind the last one, or onto it; its key is a new one.        *)
Fits(d, line, top) ==
  /\ line[1] \in Key => UpTo(d.file, line) /\ Older(line, top)
  /\ d.faults = 0 => ~ d.open /\ (line = Torn \/ line[1] \notin Keys(d.file))

LEMMA AppendToDisk ==
  ASSUME NEW d, NEW top, NEW line \in Line, DiskOK(d, top), Fits(d, line, top),
         NEW e \in AppendTo(d, line)
  PROVE  /\ DiskOK(e, top) /\ ~ e.open /\ DOMAIN e.file # {}
         /\ e.on = d.on /\ e.dead = d.dead /\ e.faults = d.faults
         /\ Values(d.file) \cup d.lost \cup {line} \subseteq Values(e.file) \cup e.lost
         /\ Keys(e.file) \subseteq Keys(d.file) \cup {line[1], Torn[1], MadeUp[1]}
         /\ ~ d.open => Values(e.file) = Values(d.file) \cup {line}
<1>1. d \in Disks /\ d.file \in Files /\ UpTo(d.file, top) /\ Sorted(d.file)
  BY DEF DiskOK, Disks
<1>2. CASE ~ d.open /\ e = [d EXCEPT !.file = AppendLine(@, line)]
  <2> DEFINE f == AppendLine(d.file, line)
  <2>1. /\ f \in Files /\ DOMAIN f # {} /\ Values(f) = Values(d.file) \cup {line}
        /\ Sorted(f) /\ UpTo(f, top)
        /\ d.faults = 0 => Distinct(f)
    BY <1>1, AppendFacts DEF DiskOK, Fits
  <2> HIDE DEF f
  <2>2. /\ e \in Disks /\ e.file = f /\ ~ e.open /\ e.on = d.on /\ e.dead = d.dead
        /\ e.faults = d.faults /\ e.lost = d.lost
    BY <1>1, <1>2, <2>1 DEF Disks, f
  <2>3. Keys(f) \subseteq Keys(d.file) \cup {line[1]}
    BY <2>1, ValuesKeys
  <2> QED
    BY <1>1, <2>1, <2>2, <2>3 DEF DiskOK
<1>3. CASE d.open /\ e \in AppendTo(d, line)
  <2> DEFINE last == Cardinality(DOMAIN d.file) - 1
             a == d.file[last]
  <2>1. /\ last \in DOMAIN d.file /\ \A i \in DOMAIN d.file : i <= last
        /\ a \in Line
    BY <1>1, <1>3, FileFacts DEF DiskOK
  <2>2. PICK m \in Merged(a, line) :
          e = [d EXCEPT !.file = [@ EXCEPT ![last] = m], !.open = FALSE,
                        !.lost = @ \cup ({a, line} \ {m})]
    BY <1>3 DEF AppendTo
  <2> HIDE DEF last
  <2>3. m \in Line /\ (m[1] = a[1] \/ m \in {Torn, MadeUp, line})
    BY <2>1, MergedFacts
  <2>4. m[1] \in Key => (m[1] = a[1] \/ UpTo(d.file, m)) /\ Older(m, top)
    BY <1>1, <2>1, <2>3, FrameLine DEF UpTo, Older, Fits
  <2> DEFINE f == [d.file EXCEPT ![last] = m]
  <2>5. /\ f \in Files /\ DOMAIN f = DOMAIN d.file
        /\ Values(d.file) \subseteq Values(f) \cup {a}
        /\ Values(f) \subseteq Values(d.file) \cup {m}
        /\ Sorted(f) /\ UpTo(f, top) /\ f[last] = m
    BY <1>1, <2>1, <2>3, <2>4, PatchFacts
  <2> HIDE DEF f
  <2>6. /\ e \in Disks /\ e.file = f /\ ~ e.open /\ e.on = d.on /\ e.dead = d.dead
        /\ e.faults = d.faults /\ e.lost = d.lost \cup ({a, line} \ {m})
    BY <1>1, <2>1, <2>2, <2>5 DEF Disks, f
  <2>7. m \in Values(f) /\ a \in Values(d.file)
    BY <2>1, <2>5 DEF Values
  <2>8. Keys(f) \subseteq Keys(d.file) \cup {line[1], Torn[1], MadeUp[1]}
    BY <2>3, <2>5, <2>7, ValuesKeys
  <2>9. d.faults # 0
    BY <1>3 DEF Fits
  <2> QED
    BY <1>3, <2>1, <2>5, <2>6, <2>7, <2>8, <2>9 DEF DiskOK
<1> QED
  BY <1>2, <1>3 DEF AppendTo

LEMMA AppendCutDisk ==
  ASSUME NEW d, NEW top, NEW k \in Frame, DiskOK(d, top), Fits(d, k, top),
         NEW e \in AppendCut(d, k)
  PROVE  /\ DiskOK(e, top) /\ e.on = d.on /\ e.faults = d.faults
         /\ ~ d.open => Values(d.file) \subseteq Values(e.file)
<1>1. PICK line \in Cut(k) : \E c \in AppendTo(d, line) : e = [c EXCEPT !.open = TRUE]
  BY DEF AppendCut
<1>2. PICK c \in AppendTo(d, line) : e = [c EXCEPT !.open = TRUE]
  BY <1>1
<1>3. line \in Line /\ (line = Torn \/ line[1] = k[1])
  BY CutFacts
<1>4. line[1] \in Key => UpTo(d.file, line) /\ Older(line, top)
  <2> SUFFICES ASSUME line[1] \in Key PROVE UpTo(d.file, line) /\ Older(line, top)
    OBVIOUS
  <2>1. line[1] = k[1]
    BY <1>3, FrameLine
  <2>2. /\ \A i \in DOMAIN d.file : d.file[i][1] \in Key => Older(d.file[i], k)
        /\ Older(k, top)
    BY <2>1 DEF UpTo, Fits
  <2>3. \A f : (Older(f, k) => Older(f, line)) /\ (Older(k, f) => Older(line, f))
    BY <2>1 DEF Older
  <2> QED
    BY <2>1, <2>2, <2>3 DEF UpTo
<1>5. /\ DiskOK(c, top) /\ DOMAIN c.file # {} /\ c.on = d.on /\ c.faults = d.faults
      /\ ~ d.open => Values(c.file) = Values(d.file) \cup {line}
  <2>1. Fits(d, line, top)
    BY <1>3, <1>4, FrameLine DEF Fits
  <2> QED
    BY <1>3, <2>1, AppendToDisk
<1>6. /\ e \in Disks /\ e.file = c.file /\ e.on = c.on /\ e.faults = c.faults
  BY <1>2, <1>5 DEF DiskOK, Disks
<1>7. DiskOK(e, top)
  BY <1>5, <1>6 DEF DiskOK
<1>8. ~ d.open => Values(d.file) \subseteq Values(e.file)
  BY <1>5, <1>6
<1> QED
  BY <1>5, <1>6, <1>7, <1>8

LEMMA AppendFrameOn ==
  ASSUME NEW d, NEW f, NEW fr, d.on, NEW x \in AppendFrame(d, f, fr)
  PROVE  \/ \E e \in AppendTo(d, f) : x \in MaybeCompact(e, fr)
         \/ Fails(d) /\ (x = Off(d) \/ x \in AppendCut(Off(d), f))
BY DEF AppendFrame

LEMMA AppendDisk ==
  ASSUME NEW d, NEW fr, NEW k \in Frame, k[1] \in Key, MemoryOK(fr, k), DiskOK(d, k),
         AgreesBut(d, fr, {k}), Closed(d), k \in Values(fr), Fits(d, k, k),
         d.faults = 0 => Distinct(fr),
         NEW e \in AppendFrame(d, k, fr)
  PROVE  /\ DiskOK(e, k) /\ Agrees(e, fr) /\ Neat(e, fr) /\ Closed(e)
         /\ e.faults = 0 => /\ d.faults = 0
                            /\ \/ Values(e.file) = Values(d.file) \cup {k}
                               \/ Values(e.file) = Values(fr)
<1>1. d \in Disks /\ k \in Line /\ (d.faults = 0 => ~ d.open)
  BY FrameLine DEF DiskOK, Closed, Fits
<1>2. CASE ~ d.on /\ e = d
  BY <1>2 DEF Agrees, AgreesBut, Neat, DiskOK
<1>3. CASE d.on /\ \E c \in AppendTo(d, k) : e \in MaybeCompact(c, fr)
  <2>1. PICK c \in AppendTo(d, k) : e \in MaybeCompact(c, fr)
    BY <1>3
  <2>2. /\ DiskOK(c, k) /\ ~ c.open /\ c.on = d.on /\ c.dead = d.dead /\ c.faults = d.faults
        /\ Values(d.file) \cup d.lost \cup {k} \subseteq Values(c.file) \cup c.lost
        /\ Keys(c.file) \subseteq Keys(d.file) \cup {k[1], Torn[1], MadeUp[1]}
        /\ ~ d.open => Values(c.file) = Values(d.file) \cup {k}
    BY <1>1, AppendToDisk
  <2>3. k[1] \in Keys(fr)
    BY ValuesKeys
  <2>4. Agrees(c, fr)
    BY <1>3, <2>2, <2>3 DEF Agrees, AgreesBut
  <2>5. Closed(c) /\ (c.faults = 0 => Distinct(fr))
    BY <2>2 DEF Closed
  <2>6. /\ DiskOK(e, k) /\ Agrees(e, fr) /\ Neat(e, fr) /\ Closed(e)
        /\ e.faults = 0 => e = c \/ Values(e.file) = Values(fr)
        /\ e.faults = 0 => c.faults = 0
    BY <2>1, <2>2, <2>4, <2>5, MaybeCompactDisk
  <2> QED
    BY <1>1, <2>2, <2>6
<1>4. CASE Fails(d) /\ e \in {Off(d)} \cup AppendCut(Off(d), k)
  <2>1. /\ DiskOK(Off(d), k) /\ ~ Off(d).on /\ Off(d).faults > 0
        /\ Off(d).file = d.file
    BY <1>4, OffDisk
  <2>2. DiskOK(e, k) /\ ~ e.on /\ e.faults > 0
    <3>1. Fits(Off(d), k, k)
      BY <2>1 DEF Fits
    <3>2. e \in AppendCut(Off(d), k) => DiskOK(e, k) /\ e.on = Off(d).on /\ e.faults = Off(d).faults
      BY <2>1, <3>1, AppendCutDisk
    <3> QED
      BY <1>4, <2>1, <3>2
  <2> QED
    BY <2>2 DEF Agrees, AgreesBut, Neat, Closed
<1>5. CASE d.on
  <2>1. \/ \E c \in AppendTo(d, k) : e \in MaybeCompact(c, fr)
        \/ Fails(d) /\ (e = Off(d) \/ e \in AppendCut(Off(d), k))
    BY <1>5, AppendFrameOn
  <2> QED
    BY <1>3, <1>4, <1>5, <2>1
<1> QED
  BY <1>2, <1>5 DEF AppendFrame

-----------------------------------------------------------------------------
(* Removing frames.                                                          *)
KeysOf(bk, fr) == \A k \in DOMAIN bk : bk[k] \in DOMAIN fr /\ fr[bk[k]][1] = k
AllKeyed(bk, fr) ==
  \A i \in DOMAIN fr : fr[i][1] \in DOMAIN bk /\ bk[fr[i][1]] = i

LEMMA AllKeyedDistinct ==
  ASSUME NEW bk, NEW fr, AllKeyed(bk, fr)
  PROVE  Distinct(fr)
BY DEF AllKeyed, Distinct

LEMMA RemoveFacts ==
  ASSUME NEW fr, NEW bk, NEW rs, NEW S, NEW top, MemoryOK(fr, top),
         RunsOf(rs, DOMAIN fr), KeysOf(bk, fr), Remove(fr, bk, rs, S)
  PROVE  /\ DOMAIN frames' = DOMAIN fr \ S
         /\ \A i \in DOMAIN frames' : frames'[i] = fr[i]
         /\ MemoryOK(frames', top) /\ RunsOf(runs', DOMAIN frames')
         /\ KeysOf(by_key', frames')
         /\ AllKeyed(bk, fr) => AllKeyed(by_key', frames')
         /\ Held(fr) \subseteq Held(frames') \cup Discharged(fr, S)
<1>1. /\ DOMAIN frames' = DOMAIN fr \ S
      /\ \A i \in DOMAIN frames' : frames'[i] = fr[i]
  BY DEF Remove, Without
<1>2. MemoryOK(frames', top)
  <2>1. IsFiniteSet(DOMAIN frames')
    BY <1>1, FS_Subset DEF MemoryOK
  <2> QED
    BY <1>1, <2>1 DEF MemoryOK, Sorted, UpTo
<1>3. RunsOf(runs', DOMAIN frames')
  BY <1>1, RemoveRuns DEF Remove, MemoryOK
<1>4. /\ DOMAIN by_key' = {q \in DOMAIN bk : bk[q] \notin S}
      /\ \A k \in DOMAIN by_key' : by_key'[k] = bk[k]
  BY DEF Remove, Unindex
<1>5. KeysOf(by_key', frames')
  BY <1>1, <1>4 DEF KeysOf
<1>6. ASSUME AllKeyed(bk, fr) PROVE AllKeyed(by_key', frames')
  <2> SUFFICES ASSUME NEW i \in DOMAIN frames'
               PROVE  frames'[i][1] \in DOMAIN by_key' /\ by_key'[frames'[i][1]] = i
    BY DEF AllKeyed
  <2>1. i \in DOMAIN fr /\ frames'[i] = fr[i] /\ i \notin S
    BY <1>1
  <2>2. fr[i][1] \in DOMAIN bk /\ bk[fr[i][1]] = i
    BY <1>6, <2>1 DEF AllKeyed
  <2>3. fr[i][1] \in DOMAIN by_key'
    BY <1>4, <2>1, <2>2
  <2> QED
    BY <1>4, <2>1, <2>2, <2>3
<1>7. Held(fr) \subseteq Held(frames') \cup Discharged(fr, S)
  <2> SUFFICES ASSUME NEW k \in Key, Whole(k) \in Values(fr), k \notin Discharged(fr, S)
               PROVE  Whole(k) \in Values(frames')
    BY DEF Held
  <2>1. PICK i \in DOMAIN fr : fr[i] = Whole(k)
    BY DEF Values
  <2>2. i \notin S
    BY <2>1 DEF Discharged
  <2> QED
    BY <1>1, <2>1, <2>2 DEF Values
<1> QED
  BY <1>1, <1>2, <1>3, <1>5, <1>6, <1>7

LEMMA BuryFacts ==
  ASSUME NEW fr, IsFiniteSet(DOMAIN fr), NEW S, NEW T, AgreesBut(disk, fr, T),
         NEW top, DiskOK(disk, top)
  PROVE  /\ DiskOK(Bury(fr, S), top)
         /\ AgreesBut(Bury(fr, S), Without(fr, S), T)
         /\ Bury(fr, S).faults = disk.faults /\ Bury(fr, S).file = disk.file
         /\ Bury(fr, S).open = disk.open
<1> DEFINE c == Cardinality(DOMAIN fr \cap S)
           d == Bury(fr, S)
<1>1. IsFiniteSet(DOMAIN fr \cap S)
  BY FS_Subset
<1>2. c \in Nat /\ (c = 0 => DOMAIN fr \cap S = {})
  BY <1>1, FS_CardinalityType, FS_EmptySet
<1>3. d = [disk EXCEPT !.dead = @ + c]
  BY DEF Bury
<1> HIDE DEF c, d
<1>4. /\ disk \in Disks /\ disk.dead + c \in Nat
      /\ (disk.dead + c = 0 => disk.dead = 0 /\ c = 0)
  BY <1>2 DEF DiskOK, Disks
<1>5. /\ d \in Disks /\ d.on = disk.on /\ d.file = disk.file /\ d.open = disk.open
      /\ d.dead = disk.dead + c /\ d.faults = disk.faults /\ d.lost = disk.lost
  BY <1>3, <1>4 DEF Disks
<1>6. Values(Without(fr, S)) \subseteq Values(fr)
  BY DEF Values, Without
<1>7. ASSUME DOMAIN fr \cap S = {}
      PROVE  Keys(Without(fr, S)) = Keys(fr)
  <2>1. DOMAIN fr \ S = DOMAIN fr
    BY <1>7
  <2> QED
    BY <2>1 DEF Keys, Without
<1>8. AgreesBut(d, Without(fr, S), T)
  BY <1>2, <1>4, <1>5, <1>6, <1>7 DEF AgreesBut
<1>9. DiskOK(d, top)
  BY <1>5 DEF DiskOK
<1> QED
  BY <1>5, <1>8, <1>9 DEF d

-----------------------------------------------------------------------------
(* The invariant of the queue.  Order and identity of the frames rest on the *)
(* key of the next one being newer than all there are, in memory, on the     *)
(* disk and in the history; what the memory and the file owe each other      *)
(* rests on the count of dead lines and on what was lost unnoticed.          *)
Top == Whole(<<session, seq>>)

Counters ==
  /\ up \in BOOLEAN
  /\ session \in 0 .. MaxSession /\ seq \in 0 .. MaxSeq
  /\ next_index \in Nat /\ DOMAIN frames \subseteq 0 .. next_index - 1
  /\ expired \subseteq Key /\ owed \subseteq Key
  /\ \A k \in owed \cup expired : Older(Whole(k), Top)
  /\ ~ up => disk.on

Agreement ==
  /\ up => Agrees(disk, frames) /\ Neat(disk, frames) /\ Closed(disk)
  /\ disk.faults = 0 => /\ owed \subseteq Held(disk.file)
                        /\ up => owed \subseteq Held(frames)
                        /\ AllKeyed(by_key, frames)

QueueInv ==
  /\ Counters
  /\ MemoryOK(frames, Top) /\ DiskOK(disk, Top)
  /\ RunsOf(runs, DOMAIN frames) /\ KeysOf(by_key, frames)
  /\ Agreement

LEMMA QueueInvIsInv ==
  ASSUME QueueInv
  PROVE  Representation /\ ProductionOrder /\ FileAgrees /\ Durable
<1>1. /\ disk \in Disks /\ disk.file \in Files /\ IsFiniteSet(DOMAIN disk.file)
      /\ disk.file \in [0 .. Cardinality(DOMAIN disk.file) - 1 -> Line]
      /\ disk.on \in BOOLEAN /\ disk.open \in BOOLEAN
      /\ disk.dead \in Nat /\ disk.faults \in 0 .. MaxFaults /\ disk.lost \subseteq Line
  BY FileFacts DEF QueueInv, DiskOK, Disks
<1>2. \A i \in DOMAIN frames : frames[i] \in Frame /\ i \in Nat
  BY DEF QueueInv, MemoryOK
<1>3. \A k \in DOMAIN by_key : k \in Key \cup {MadeUp[1]} /\ by_key[k] \in Nat
  BY <1>2, FrameLine DEF QueueInv, KeysOf
<1>4. runs \subseteq (0 .. next_index - 1) \X (0 .. next_index - 1)
  <2> SUFFICES ASSUME NEW r \in runs
               PROVE  r \in (0 .. next_index - 1) \X (0 .. next_index - 1)
    OBVIOUS
  <2>1. r \in Nat \X Nat /\ r[1] <= r[2] /\ \A i \in r[1] .. r[2] : i \in DOMAIN frames
    BY DEF QueueInv, RunsOf
  <2>2. r[1] \in r[1] .. r[2] /\ r[2] \in r[1] .. r[2]
    BY <2>1
  <2>3. r[1] \in 0 .. next_index - 1 /\ r[2] \in 0 .. next_index - 1
    BY <2>1, <2>2 DEF QueueInv, Counters
  <2> QED
    BY <2>1, <2>3
<1>5. TypeOK
  BY <1>1, <1>2, <1>3, <1>4 DEF TypeOK, QueueInv, Counters
<1>6. RunsExact
  BY DEF RunsExact, QueueInv, RunsOf
<1>7. KeysPoint
  BY DEF KeysPoint, QueueInv, KeysOf
<1>8. ProductionOrder
  BY <1>2, FrameLine DEF ProductionOrder, QueueInv, MemoryOK, Sorted
<1>9. FileAgrees
  BY DEF FileAgrees, DiskCovers, SteadyDiskClean, QueueInv, Agreement, Agrees,
     AgreesBut, Neat
<1>10. Durable
  BY DEF Durable, QueueInv, Agreement, AllKeyed
<1> QED
  BY <1>5, <1>6, <1>7, <1>8, <1>9, <1>10 DEF Representation

-----------------------------------------------------------------------------
(* Each action keeps the invariant.                                          *)
LEMMA InitQueueInv == Init => QueueInv
<1> SUFFICES ASSUME Init PROVE QueueInv
  OBVIOUS
<1>1. frames = Empty /\ by_key = Empty /\ DOMAIN Empty = {} /\ runs = {}
  BY EmptyFile DEF Init
<1>2. Counters
  <2>1. /\ up = FALSE /\ session = 0 /\ seq = 0 /\ next_index = 0
        /\ expired = {} /\ owed = {} /\ disk.on = TRUE
    BY DEF Init
  <2>2. 0 \in 0 .. MaxSession /\ 0 \in 0 .. MaxSeq
    BY QueueAssumption
  <2> QED
    BY <1>1, <2>1, <2>2 DEF Counters
<1>3. MemoryOK(frames, Top)
  BY <1>1, EmptyFile, FS_EmptySet DEF MemoryOK
<1>4. /\ disk \in Disks /\ disk.on = TRUE /\ disk.file = Empty /\ disk.open = FALSE
      /\ disk.faults = 0 /\ disk.dead = 0
  BY EmptyFile, QueueAssumption DEF Init, Disks
<1>5. DiskOK(disk, Top)
  BY <1>4, EmptyFile DEF DiskOK
<1>6. RunsOf(runs, DOMAIN frames) /\ KeysOf(by_key, frames)
  BY <1>1 DEF RunsOf, KeysOf
<1>7. Agreement
  BY <1>1 DEF Agreement, AllKeyed, Init
<1> QED
  BY <1>2, <1>3, <1>5, <1>6, <1>7 DEF QueueInv

(* Acknowledged frames are gone; what else the onboard owes stays.           *)
LEMMA RemoveAckedInv ==
  ASSUME QueueInv, up, NEW S, RemoveAcked(S),
         owed' \subseteq owed \ Discharged(frames, S),
         UNCHANGED <<up, session, seq, expired>>
  PROVE  QueueInv'
<1> DEFINE d == Bury(frames, S)
<1>1. /\ MemoryOK(frames, Top) /\ RunsOf(runs, DOMAIN frames) /\ KeysOf(by_key, frames)
      /\ IsFiniteSet(DOMAIN frames) /\ DiskOK(disk, Top)
      /\ Agrees(disk, frames) /\ Closed(disk) /\ Counters
  BY DEF QueueInv, MemoryOK, Agreement
<1>2. /\ DOMAIN frames' = DOMAIN frames \ S
      /\ MemoryOK(frames', Top) /\ RunsOf(runs', DOMAIN frames')
      /\ KeysOf(by_key', frames')
      /\ AllKeyed(by_key, frames) => AllKeyed(by_key', frames')
      /\ Held(frames) \subseteq Held(frames') \cup Discharged(frames, S)
  BY <1>1, RemoveFacts DEF RemoveAcked
<1>3. frames' = Without(frames, S)
  BY DEF RemoveAcked, Remove
<1>4. /\ DiskOK(d, Top) /\ Agrees(d, frames') /\ Closed(d)
      /\ d.faults = disk.faults /\ d.file = disk.file
  BY <1>1, <1>3, BuryFacts DEF Agrees, Closed
<1> HIDE DEF d
<1>5. d.faults = 0 => Distinct(frames')
  BY <1>2, <1>4, AllKeyedDistinct DEF QueueInv, Agreement
<1>6. disk' \in Settle(d, frames')
  BY DEF RemoveAcked, d
<1>7. /\ DiskOK(disk', Top) /\ Agrees(disk', frames') /\ Neat(disk', frames')
      /\ Closed(disk')
      /\ disk'.faults = 0 => disk' = d \/ Values(disk'.file) = Values(frames')
      /\ disk'.faults = 0 => d.faults = 0
  BY <1>2, <1>4, <1>5, <1>6, SettleDisk
<1>8. Top' = Top
  BY DEF Top
<1>9. Counters'
  <2>1. next_index' = next_index
    BY DEF RemoveAcked
  <2> QED
    BY <1>1, <1>2, <1>8, <2>1 DEF Counters
<1>10. Agreement'
  <2>1. ASSUME disk'.faults = 0
        PROVE  /\ owed' \subseteq Held(disk'.file) /\ owed' \subseteq Held(frames')
               /\ AllKeyed(by_key', frames')
    <3>1. disk.faults = 0
      BY <1>4, <1>7, <2>1
    <3>2. owed \subseteq Held(disk.file) /\ owed \subseteq Held(frames)
          /\ AllKeyed(by_key, frames)
      BY <3>1 DEF QueueInv, Agreement
    <3>3. owed' \subseteq Held(frames')
      BY <1>2, <3>2
    <3>4. owed' \subseteq Held(disk'.file)
      <4>1. CASE disk' = d
        BY <1>4, <3>2, <4>1
      <4>2. CASE Values(disk'.file) = Values(frames')
        BY <3>3, <4>2 DEF Held
      <4> QED
        BY <1>7, <2>1, <4>1, <4>2
    <3> QED
      BY <1>2, <3>2, <3>3, <3>4
  <2> QED
    BY <1>7, <2>1 DEF Agreement
<1> QED
  BY <1>2, <1>7, <1>8, <1>9, <1>10 DEF QueueInv

LEMMA AcknowledgeExactInv ==
  ASSUME QueueInv, NEW f \in Frame, AcknowledgeExact(f)
  PROVE  QueueInv'
<1>1. up /\ owed' = owed \ {k \in Key : f = Whole(k)} /\ UNCHANGED <<up, session, seq, expired>>
  BY DEF AcknowledgeExact
<1>2. CASE RemoveAcked(Acked(f))
  <2>1. Discharged(frames, Acked(f)) \subseteq {k \in Key : f = Whole(k)}
    BY DEF Discharged, Acked
  <2>2. owed' \subseteq owed \ Discharged(frames, Acked(f))
    BY <1>1, <2>1
  <2> QED
    BY <1>1, <1>2, <2>2, RemoveAckedInv
<1>3. CASE UNCHANGED <<queue, disk>>
  <2>1. owed' \subseteq owed
    BY <1>1
  <2>2. UNCHANGED <<frames, next_index, runs, by_key, disk>>
    BY <1>3 DEF queue
  <2> QED
    BY <1>1, <2>1, <2>2 DEF QueueInv, Counters, Agreement, Top
<1> QED
  BY <1>2, <1>3 DEF AcknowledgeExact

LEMMA AcknowledgeInv ==
  ASSUME QueueInv, NEW s, NEW n, Acknowledge(s, n)
  PROVE  QueueInv'
<1> DEFINE acked == {i \in DOMAIN frames : frames[i][1][1] = s /\ frames[i][1][2] <= n}
<1>1. /\ RemoveAcked(acked) /\ owed' = owed \ Discharged(frames, acked)
      /\ up /\ UNCHANGED <<up, session, seq, expired>>
  BY DEF Acknowledge
<1> HIDE DEF acked
<1>2. owed' \subseteq owed \ Discharged(frames, acked)
  BY <1>1
<1> QED
  BY <1>1, <1>2, RemoveAckedInv

LEMMA ExpireInv ==
  ASSUME QueueInv, NEW k, Expire(k)
  PROVE  QueueInv'
<1>1. /\ expired' = expired \cup {k} /\ k \in owed
      /\ UNCHANGED <<up, session, seq, frames, next_index, runs, by_key, disk, owed>>
  BY DEF Expire, queue
<1>2. Top' = Top
  BY <1>1 DEF Top
<1>3. Counters'
  BY <1>1, <1>2 DEF QueueInv, Counters
<1>4. Agreement'
  BY <1>1 DEF QueueInv, Agreement
<1> QED
  BY <1>1, <1>2, <1>3, <1>4 DEF QueueInv

(* A newer top.                                                              *)
LEMMA NewerTop ==
  ASSUME NEW s \in Nat, NEW n \in Nat, NEW f, f[1] \in Key, Older(f, Whole(<<s, n>>))
  PROVE  /\ Older(f, Whole(<<s, n + 1>>)) /\ Older(f, Whole(<<s + 1, 0>>))
         /\ f[1] # <<s, n + 1>>
<1>1. f[1][1] \in Int /\ f[1][2] \in Int
  BY QueueAssumption DEF Key
<1>2. f[1][1] < s \/ (f[1][1] = s /\ f[1][2] <= n)
  BY DEF Older, Whole
<1> QED
  BY <1>1, <1>2 DEF Older, Whole

LEMMA InitializeInMemoryInv ==
  ASSUME QueueInv, InitializeInMemory
  PROVE  QueueInv'
<1>1. /\ ~ up /\ up' = TRUE /\ Fails(disk) /\ disk' = Off(disk)
      /\ UNCHANGED <<session, seq, frames, next_index, runs, by_key, expired, owed>>
  BY DEF InitializeInMemory, queue
<1>2. DiskOK(disk, Top) /\ Top' = Top
  BY <1>1 DEF QueueInv, Top
<1>3. DiskOK(disk', Top) /\ ~ disk'.on /\ disk'.faults > 0
  BY <1>1, <1>2, OffDisk
<1>4. Counters'
  BY <1>1, <1>2 DEF QueueInv, Counters
<1>5. Agreement'
  BY <1>3 DEF Agreement, Agrees, AgreesBut, Neat, Closed
<1> QED
  BY <1>1, <1>2, <1>3, <1>4, <1>5 DEF QueueInv

(* The line of the next frame fits behind what is on the disk.               *)
LEMMA NextFits ==
  ASSUME QueueInv, up, seq < MaxSeq
  PROVE  LET f == Whole(<<session, seq + 1>>)
         IN  /\ f \in Frame /\ f[1] = <<session, seq + 1>> /\ f[1] \in Key
             /\ Older(f, f) /\ Older(f, Whole(<<session + 1, 0>>))
             /\ UpTo(disk.file, f) /\ UpTo(disk.file, Whole(<<session + 1, 0>>))
             /\ f[1] \notin Keys(disk.file)
             /\ Fits(disk, f, f) /\ Fits(disk, f, Whole(<<session + 1, 0>>))
<1> DEFINE k == <<session, seq + 1>>
           f == Whole(k)
           next == Whole(<<session + 1, 0>>)
<1>1. session \in Nat /\ seq \in Nat /\ UpTo(disk.file, Top) /\ Closed(disk)
  BY DEF QueueInv, Counters, DiskOK, Agreement
<1>2. k \in Key
  BY <1>1, QueueAssumption DEF QueueInv, Counters, Key
<1>3. f \in Frame /\ f[1] = k
  BY <1>2, FrameLine
<1>4. Older(f, f) /\ Older(f, next)
  BY <1>1 DEF Older, Whole
<1>5. \A i \in DOMAIN disk.file : disk.file[i][1] \in Key =>
        Older(disk.file[i], f) /\ Older(disk.file[i], next) /\ disk.file[i][1] # k
  BY <1>1, NewerTop DEF UpTo, Top
<1> HIDE DEF k, f, next
<1>6. UpTo(disk.file, f) /\ UpTo(disk.file, next)
  BY <1>5 DEF UpTo
<1>7. f[1] \notin Keys(disk.file)
  BY <1>2, <1>3, <1>5 DEF Keys
<1>8. Fits(disk, f, f) /\ Fits(disk, f, next)
  BY <1>1, <1>4, <1>6, <1>7 DEF Fits, Closed
<1> QED
  BY <1>2, <1>3, <1>4, <1>6, <1>7, <1>8 DEF f, k, next

(* A kill may leave the line of the next frame on the disk, whole or cut.    *)
LEMMA CrashInv ==
  ASSUME QueueInv, Crash
  PROVE  QueueInv'
<1>1. /\ session < MaxSession /\ session' = session + 1 /\ seq' = 0 /\ up' = FALSE
      /\ frames' = Empty /\ next_index' = 0 /\ runs' = {} /\ by_key' = Empty
      /\ UNCHANGED <<expired, owed>>
  BY DEF Crash
<1> DEFINE f == Whole(<<session, seq + 1>>)
           dying == {disk} \cup
                    (IF up /\ disk.on /\ seq < MaxSeq
                     THEN AppendTo(disk, f) \cup AppendCut(disk, f) ELSE {})
<1>2. PICK d \in dying : disk' = [d EXCEPT !.on = TRUE, !.dead = 0]
  BY DEF Crash
<1>3. /\ session \in Nat /\ seq \in Nat /\ DiskOK(disk, Top) /\ UpTo(disk.file, Top)
      /\ up => Closed(disk)
  BY DEF QueueInv, Counters, DiskOK, Agreement
<1>4. Top' = Whole(<<session + 1, 0>>)
  BY <1>1 DEF Top
<1>5. \A q : q[1] \in Key /\ Older(q, Top) => Older(q, Top')
  BY <1>3, <1>4, NewerTop DEF Top
<1>6. DiskOK(disk, Top')
  BY <1>3, <1>5 DEF DiskOK, UpTo
<1> HIDE DEF f
<1>7. /\ DiskOK(d, Top') /\ d.faults = disk.faults
      /\ disk.faults = 0 => Values(disk.file) \subseteq Values(d.file)
  <2>1. CASE d = disk
    BY <1>6, <2>1
  <2>2. CASE up /\ seq < MaxSeq /\ d \in AppendTo(disk, f) \cup AppendCut(disk, f)
    <3>1. f \in Frame /\ f \in Line /\ Fits(disk, f, Top')
      BY <1>4, <2>2, NextFits, FrameLine DEF f
    <3>2. d \in AppendTo(disk, f) =>
            /\ DiskOK(d, Top') /\ d.faults = disk.faults
            /\ ~ disk.open => Values(d.file) = Values(disk.file) \cup {f}
      BY <1>6, <3>1, AppendToDisk
    <3>3. d \in AppendCut(disk, f) =>
            /\ DiskOK(d, Top') /\ d.faults = disk.faults
            /\ ~ disk.open => Values(disk.file) \subseteq Values(d.file)
      BY <1>6, <3>1, AppendCutDisk
    <3> QED
      BY <1>3, <2>2, <3>2, <3>3 DEF Closed
  <2> QED
    BY <1>2, <2>1, <2>2
<1>8. disk' \in Disks /\ disk'.on = TRUE /\ disk'.file = d.file /\ disk'.open = d.open
      /\ disk'.faults = d.faults
  BY <1>2, <1>7 DEF DiskOK, Disks
<1>9. DiskOK(disk', Top')
  BY <1>7, <1>8 DEF DiskOK
<1>10. DOMAIN Empty = {}
  BY EmptyFile
<1>11. MemoryOK(frames', Top')
  BY <1>1, <1>10, EmptyFile, FS_EmptySet DEF MemoryOK
<1>12. RunsOf(runs', DOMAIN frames') /\ KeysOf(by_key', frames') /\ AllKeyed(by_key', frames')
  BY <1>1, <1>10 DEF RunsOf, KeysOf, AllKeyed
<1>13. Counters'
  <2>1. \A q \in Key : Older(Whole(q), Top) => Older(Whole(q), Top')
    BY <1>5, FrameLine
  <2>2. session' \in 0 .. MaxSession /\ seq' \in 0 .. MaxSeq /\ next_index' \in Nat
    BY <1>1, <1>3, QueueAssumption
  <2>3. DOMAIN frames' \subseteq 0 .. next_index' - 1
    BY <1>1, <1>10
  <2>4. /\ expired' \subseteq Key /\ owed' \subseteq Key
        /\ \A q \in owed' \cup expired' : Older(Whole(q), Top')
    BY <1>1, <2>1 DEF QueueInv, Counters
  <2> QED
    BY <1>1, <1>8, <2>2, <2>3, <2>4 DEF Counters
<1>14. Agreement'
  <2>1. ASSUME disk'.faults = 0 PROVE owed' \subseteq Held(disk'.file)
    BY <1>1, <1>7, <1>8, <2>1 DEF QueueInv, Agreement, Held
  <2> QED
    BY <1>1, <1>12, <2>1 DEF Agreement
<1> QED
  BY <1>9, <1>11, <1>12, <1>13, <1>14 DEF QueueInv

(* The next process loads the lines that parse and are not too old.          *)
LEMMA InitializeInv ==
  ASSUME QueueInv, Initialize
  PROVE  QueueInv'
<1> DEFINE good == {p \in DOMAIN disk.file :
                      disk.file[p] # Torn /\ disk.file[p][1] \notin expired}
           g == [p \in good |-> disk.file[p]]
           load == Squeeze(g)
           n == Cardinality(good)
<1>1. /\ ~ up /\ up' = TRUE /\ frames' = load /\ next_index' = n
      /\ runs' = IF n = 0 THEN {} ELSE {<<0, n - 1>>}
      /\ by_key' = [k \in Keys(load) |->
                      CHOOSE i \in DOMAIN load :
                        load[i][1] = k /\ \A j \in DOMAIN load : load[j][1] = k => j <= i]
      /\ disk' \in Compact(disk, load)
      /\ owed' = owed \ (Keys(disk.file) \cap expired)
      /\ UNCHANGED <<session, seq, expired>>
  BY DEF Initialize
<1>2. /\ DiskOK(disk, Top) /\ disk.file \in Files /\ Sorted(disk.file)
      /\ UpTo(disk.file, Top) /\ disk.on /\ Top' = Top
  BY <1>1 DEF QueueInv, DiskOK, Disks, Counters, Top
<1>3. /\ DOMAIN g = good /\ good \subseteq DOMAIN disk.file
      /\ \A p \in good : g[p] = disk.file[p] /\ g[p][1] \notin expired /\ g[p] \in Frame
  BY <1>2, FileFacts, FrameLine
<1>4. IsFiniteSet(good) /\ good \in SUBSET Nat
  BY <1>2, <1>3, FileFacts, FS_Subset
<1>5. Sorted(g) /\ UpTo(g, Top) /\ (Distinct(disk.file) => Distinct(g))
  BY <1>2, <1>3 DEF Sorted, UpTo, Distinct
<1> HIDE DEF g
<1>6. /\ DOMAIN load = 0 .. n - 1 /\ n \in Nat
      /\ \A j \in 0 .. n - 1 : Nth(good, j) \in good /\ load[j] = g[Nth(good, j)]
      /\ Values(load) = Values(g)
  <2> HIDE DEF good
  <2>1. /\ DOMAIN load = 0 .. Cardinality(DOMAIN g) - 1
        /\ Cardinality(DOMAIN g) \in Nat
        /\ \A j \in 0 .. Cardinality(DOMAIN g) - 1 :
             Nth(DOMAIN g, j) \in DOMAIN g /\ load[j] = g[Nth(DOMAIN g, j)]
        /\ Values(load) = Values(g)
    <3>1. IsFiniteSet(DOMAIN g) /\ DOMAIN g \in SUBSET Nat
      BY <1>3, <1>4
    <3> QED
      BY <3>1, SqueezeFacts
  <2>2. DOMAIN g = good
    BY <1>3
  <2> QED
    BY <2>1, <2>2, Zenon
<1>7. Sorted(load) /\ UpTo(load, Top) /\ (Distinct(g) => Distinct(load))
  BY <1>3, <1>4, <1>5, SqueezeSorted, UpToSqueeze
<1>8. \A i \in DOMAIN load : load[i] \in Frame
  BY <1>3, <1>6
<1> HIDE DEF load, n
<1>9. IsFiniteSet(DOMAIN load) /\ DOMAIN load \in SUBSET Nat
  BY <1>6, FS_Interval
<1>10. MemoryOK(frames', Top)
  BY <1>1, <1>7, <1>8, <1>9 DEF MemoryOK
<1>11. disk.faults = 0 => Distinct(load)
  BY <1>2, <1>5, <1>7 DEF DiskOK
<1>12. /\ DiskOK(disk', Top) /\ Agrees(disk', load) /\ Closed(disk')
       /\ (disk'.on => disk'.dead = 0)
       /\ disk'.faults = 0 => Values(disk'.file) = Values(load) /\ disk.faults = 0
  BY <1>1, <1>2, <1>10, <1>11, CompactDisk
<1>13. \A k \in Keys(load) : by_key'[k] \in DOMAIN load /\ load[by_key'[k]][1] = k
  <2> SUFFICES ASSUME NEW k \in Keys(load)
               PROVE  by_key'[k] \in DOMAIN load /\ load[by_key'[k]][1] = k
    OBVIOUS
  <2> DEFINE S == {i \in DOMAIN load : load[i][1] = k}
  <2>1. S \in SUBSET Nat /\ S # {} /\ \A i \in S : i <= n
    BY <1>6, <1>9 DEF Keys
  <2>2. PICK m \in S : \A i \in S : i <= m
    BY <1>6, <2>1, Greatest
  <2>3. by_key'[k] = CHOOSE i \in DOMAIN load :
                       load[i][1] = k /\ \A j \in DOMAIN load : load[j][1] = k => j <= i
    BY <1>1
  <2> QED
    BY <2>2, <2>3
<1>14. DOMAIN by_key' = Keys(load)
  BY <1>1
<1>15. KeysOf(by_key', frames')
  BY <1>1, <1>13, <1>14 DEF KeysOf
<1>16. Distinct(load) => AllKeyed(by_key', frames')
  <2> SUFFICES ASSUME Distinct(load), NEW i \in DOMAIN load
               PROVE  load[i][1] \in DOMAIN by_key' /\ by_key'[load[i][1]] = i
    BY <1>1 DEF AllKeyed
  <2>1. load[i][1] \in Keys(load) /\ load[i][1] # Torn[1]
    BY <1>8, FrameLine DEF Keys
  <2> QED
    BY <1>13, <1>14, <2>1 DEF Distinct
<1>17. RunsOf(runs', DOMAIN frames')
  <2>1. CASE n = 0
    <3>1. runs' = {} /\ DOMAIN load = {}
      BY <1>1, <1>6, <2>1
    <3> QED
      BY <1>1, <3>1 DEF RunsOf
  <2>2. CASE n # 0
    <3>1. runs' = {<<0, n - 1>>} /\ n - 1 \in Nat /\ DOMAIN load = 0 .. n - 1
      BY <1>1, <1>6, <2>2
    <3> DEFINE r == <<0, n - 1>>
    <3>2. r \in Nat \X Nat /\ r[1] = 0 /\ r[2] = n - 1 /\ r[1] <= r[2]
      BY <3>1
    <3> HIDE DEF r
    <3>3. runs' = {r}
      BY <3>1 DEF r
    <3>4. DOMAIN frames' = r[1] .. r[2]
      BY <1>1, <3>1, <3>2
    <3> QED
      BY <3>2, <3>3, <3>4 DEF RunsOf
  <2> QED
    BY <2>1, <2>2
<1>18. Counters'
  BY <1>1, <1>2, <1>6 DEF QueueInv, Counters
<1>19. ASSUME disk'.faults = 0
       PROVE  /\ owed' \subseteq Held(load) /\ owed' \subseteq Held(disk'.file)
              /\ AllKeyed(by_key', frames')
  <2>1. disk.faults = 0 /\ owed \subseteq Held(disk.file) /\ owed \subseteq Key
    BY <1>12, <1>19 DEF QueueInv, Agreement, Counters
  <2>2. ASSUME NEW k \in owed' PROVE Whole(k) \in Values(g)
    <3>1. k \in Key /\ Whole(k) \in Values(disk.file) /\ Whole(k)[1] = k
      BY <1>1, <2>1, <2>2, FrameLine DEF Held
    <3>2. PICK p \in DOMAIN disk.file : Whole(k) = disk.file[p]
      BY <3>1 DEF Values
    <3>3. k \notin expired /\ Whole(k) # Torn
      <4>1. k \in Keys(disk.file)
        BY <3>1, <3>2 DEF Keys
      <4> QED
        BY <1>1, <2>2, <3>1, <4>1, FrameLine
    <3>4. p \in good /\ g[p] = Whole(k)
      BY <1>3, <3>1, <3>2, <3>3
    <3> QED
      BY <1>3, <3>4 DEF Values
  <2>3. owed' \subseteq Key
    BY <1>1, <2>1
  <2>4. owed' \subseteq Held(load) /\ owed' \subseteq Held(disk'.file)
    BY <1>6, <1>12, <1>19, <2>2, <2>3 DEF Held
  <2> QED
    BY <1>11, <1>16, <2>1, <2>4
<1>20. Agreement'
  BY <1>1, <1>12, <1>19 DEF Agreement, Neat
<1> QED
  BY <1>1, <1>2, <1>10, <1>12, <1>15, <1>17, <1>18, <1>20 DEF QueueInv

(* The new frame is the newest, so that neither retention nor the limit ever *)
(* drops it.                                                                 *)
LEMMA EnqueueInv ==
  ASSUME QueueInv, Enqueue
  PROVE  QueueInv'
<1> DEFINE k == <<session, seq + 1>>
           f == Whole(k)
           grown == [i \in DOMAIN frames \cup {next_index} |->
                       IF i = next_index THEN f ELSE frames[i]]
           keyed == [q \in DOMAIN by_key \cup {k} |->
                       IF q = k THEN next_index ELSE by_key[q]]
<1>1. PICK cut \in 0 .. next_index + 1 :
        /\ IsCut(cut, grown, next_index + 1)
        /\ Remove(grown, keyed, InsertRun(runs, next_index), 0 .. cut - 1)
        /\ \E d \in RetryPersistence(Bury(grown, 0 .. cut - 1), frames') :
             disk' \in AppendFrame(d, f, frames')
        /\ owed' = (owed \cup {k}) \ Discharged(grown, 0 .. cut - 1)
  BY DEF Enqueue
<1>2. /\ up /\ seq < MaxSeq /\ seq' = seq + 1 /\ next_index' = next_index + 1
      /\ UNCHANGED <<up, session, expired>>
  BY DEF Enqueue
<1>3. /\ session \in Nat /\ seq \in Nat /\ next_index \in Nat
      /\ DOMAIN frames \subseteq 0 .. next_index - 1
      /\ MemoryOK(frames, Top) /\ DiskOK(disk, Top)
      /\ RunsOf(runs, DOMAIN frames) /\ KeysOf(by_key, frames)
      /\ Agrees(disk, frames) /\ Closed(disk) /\ cut \in Nat
  BY <1>2 DEF QueueInv, Counters, Agreement
<1>4. Top' = f
  BY <1>2 DEF Top
<1>5. \A q : q[1] \in Key /\ Older(q, Top) => Older(q, f) /\ q[1] # k
  BY <1>3, NewerTop DEF Top
<1>6. /\ f \in Frame /\ f[1] = k /\ k \in Key /\ Older(f, f)
      /\ UpTo(disk.file, f) /\ Fits(disk, f, f)
  BY <1>2, NextFits
<1>7. next_index \notin DOMAIN frames /\ \A i \in DOMAIN frames : i < next_index /\ i \in Nat
  BY <1>3
<1>8. /\ DOMAIN grown = DOMAIN frames \cup {next_index} /\ grown[next_index] = f
      /\ \A i \in DOMAIN frames : grown[i] = frames[i]
  BY <1>7
<1>9. /\ DOMAIN keyed = DOMAIN by_key \cup {k} /\ keyed[k] = next_index
      /\ \A q \in DOMAIN by_key : q # k => keyed[q] = by_key[q]
  OBVIOUS
<1> HIDE DEF k, f, grown, keyed
<1>10. \A i \in DOMAIN frames : /\ frames[i] \in Frame /\ frames[i][1] # k
                                /\ frames[i][1] \in Key => Older(frames[i], f)
  <2> SUFFICES ASSUME NEW i \in DOMAIN frames
               PROVE  /\ frames[i] \in Frame /\ frames[i][1] # k
                      /\ frames[i][1] \in Key => Older(frames[i], f)
    OBVIOUS
  <2>1. frames[i] \in Frame /\ (frames[i][1] \in Key => Older(frames[i], Top))
    BY <1>3 DEF MemoryOK, UpTo
  <2>2. CASE frames[i][1] \in Key
    BY <1>5, <2>1, <2>2
  <2>3. CASE frames[i][1] \notin Key
    BY <1>6, <2>1, <2>3
  <2> QED
    BY <2>2, <2>3
<1>11. MemoryOK(grown, f)
  <2>1. IsFiniteSet(DOMAIN grown) /\ DOMAIN grown \in SUBSET Nat
    BY <1>3, <1>7, <1>8, FS_AddElement DEF MemoryOK
  <2>2. \A i \in DOMAIN grown : grown[i] \in Frame
    BY <1>6, <1>8, <1>10
  <2>3. UpTo(grown, f)
    BY <1>6, <1>8, <1>10 DEF UpTo
  <2>4. Sorted(grown)
    <3> SUFFICES ASSUME NEW i \in DOMAIN grown, NEW j \in DOMAIN grown, i <= j,
                        grown[i][1] \in Key, grown[j][1] \in Key
                 PROVE  Older(grown[i], grown[j])
      BY DEF Sorted
    <3>1. CASE j = next_index
      BY <1>6, <1>8, <1>10, <3>1
    <3>2. CASE j \in DOMAIN frames
      <4>1. i \in DOMAIN frames
        BY <1>3, <1>7, <1>8, <3>2
      <4> QED
        BY <1>3, <1>8, <3>2, <4>1 DEF MemoryOK, Sorted
    <3> QED
      BY <1>8, <3>1, <3>2
  <2> QED
    BY <2>1, <2>2, <2>3, <2>4 DEF MemoryOK
<1>12. RunsOf(InsertRun(runs, next_index), DOMAIN grown)
  BY <1>3, <1>7, <1>8, InsertRuns DEF MemoryOK
<1>13. KeysOf(keyed, grown)
  <2> SUFFICES ASSUME NEW q \in DOMAIN keyed
               PROVE  keyed[q] \in DOMAIN grown /\ grown[keyed[q]][1] = q
    BY DEF KeysOf
  <2>1. CASE q = k
    BY <1>6, <1>8, <1>9, <2>1
  <2>2. CASE q # k
    <3>1. q \in DOMAIN by_key /\ keyed[q] = by_key[q]
      BY <1>9, <2>2
    <3>2. by_key[q] \in DOMAIN frames /\ frames[by_key[q]][1] = q
      BY <1>3, <3>1 DEF KeysOf
    <3> QED
      BY <1>8, <3>1, <3>2
  <2> QED
    BY <2>1, <2>2
<1>14. AllKeyed(by_key, frames) => AllKeyed(keyed, grown)
  <2> SUFFICES ASSUME AllKeyed(by_key, frames), NEW i \in DOMAIN grown
               PROVE  grown[i][1] \in DOMAIN keyed /\ keyed[grown[i][1]] = i
    BY DEF AllKeyed
  <2>1. CASE i = next_index
    BY <1>6, <1>8, <1>9, <2>1
  <2>2. CASE i \in DOMAIN frames
    <3>1. frames[i][1] \in DOMAIN by_key /\ by_key[frames[i][1]] = i
      BY <2>2 DEF AllKeyed
    <3> QED
      BY <1>8, <1>9, <1>10, <2>2, <3>1
  <2> QED
    BY <1>8, <2>1, <2>2
<1>15. /\ DOMAIN frames' = DOMAIN grown \ (0 .. cut - 1)
       /\ \A i \in DOMAIN frames' : frames'[i] = grown[i]
       /\ MemoryOK(frames', f) /\ RunsOf(runs', DOMAIN frames')
       /\ KeysOf(by_key', frames')
       /\ AllKeyed(keyed, grown) => AllKeyed(by_key', frames')
       /\ Held(grown) \subseteq Held(frames') \cup Discharged(grown, 0 .. cut - 1)
  BY <1>1, <1>11, <1>12, <1>13, RemoveFacts
<1>16. f \in Values(frames')
  <2>1. k \notin expired
    <3>1. \A q \in expired : q \in Key /\ Older(Whole(q), Top) /\ Whole(q)[1] = q
      BY FrameLine DEF QueueInv, Counters
    <3> QED
      BY <1>5, <3>1
  <2>2. {j \in DOMAIN grown : next_index <= j} = {next_index}
    BY <1>3, <1>7, <1>8
  <2>3. Cardinality({j \in DOMAIN grown : next_index <= j}) = 1
    BY <2>2, FS_Singleton
  <2>4. next_index \in DOMAIN grown /\ next_index <= next_index
    BY <1>3, <1>8
  <2>5. MaxBytes # 0 => 1 <= MaxBytes
    BY QueueAssumption
  <2>6. next_index \in Kept(grown)
    BY <1>6, <1>8, <2>1, <2>3, <2>4, <2>5 DEF Kept
  <2>7. cut <= next_index
    BY <1>1, <2>6 DEF IsCut
  <2>8. next_index \in DOMAIN frames'
    BY <1>3, <1>8, <1>15, <2>7
  <2> QED
    BY <1>8, <1>15, <2>8 DEF Values
<1> DEFINE b == Bury(grown, 0 .. cut - 1)
<1>17. DiskOK(disk, f)
  BY <1>3, <1>6 DEF DiskOK
<1>18. /\ Values(grown) \subseteq Values(frames) \cup {f}
       /\ Keys(frames) \subseteq Keys(grown)
       /\ Held(frames) \cup {k} \subseteq Held(grown)
  <2>1. Values(grown) = Values(frames) \cup {f}
    BY <1>8 DEF Values
  <2>2. f = Whole(k)
    BY DEF f
  <2> QED
    BY <1>6, <2>1, <2>2, ValuesKeys DEF Held
<1>19. AgreesBut(disk, grown, {f})
  BY <1>3, <1>18 DEF Agrees, AgreesBut
<1>20. /\ DiskOK(b, f) /\ AgreesBut(b, frames', {f})
       /\ b.faults = disk.faults /\ b.file = disk.file /\ b.open = disk.open
  <2>1. frames' = Without(grown, 0 .. cut - 1)
    BY <1>1 DEF Remove
  <2>2. IsFiniteSet(DOMAIN grown)
    BY <1>11 DEF MemoryOK
  <2> QED
    BY <1>17, <1>19, <2>1, <2>2, BuryFacts
<1>21. PICK d \in RetryPersistence(b, frames') : disk' \in AppendFrame(d, f, frames')
  BY <1>1
<1> HIDE DEF b
<1>22. disk.faults = 0 => AllKeyed(by_key', frames') /\ Distinct(frames')
  BY <1>14, <1>15, AllKeyedDistinct DEF QueueInv, Agreement
<1>23. Closed(b)
  BY <1>3, <1>20 DEF Closed
<1>24. /\ DiskOK(d, f) /\ AgreesBut(d, frames', {f}) /\ Closed(d)
       /\ d.faults = 0 => d = b
  BY <1>15, <1>20, <1>21, <1>22, <1>23, RetryDisk
(* The file is now the old one or a rewrite of what is left.                 *)
<1>25. UpTo(d.file, f)
  BY <1>24 DEF DiskOK
<1>26. Fits(d, f, f)
  BY <1>6, <1>20, <1>24, <1>25 DEF Fits, Closed
<1>27. d.faults = 0 => disk.faults = 0 /\ d.file = disk.file /\ Distinct(frames')
  BY <1>20, <1>22, <1>24
<1>28. /\ DiskOK(disk', f) /\ Agrees(disk', frames') /\ Neat(disk', frames')
       /\ Closed(disk')
       /\ disk'.faults = 0 => /\ d.faults = 0
                              /\ \/ Values(disk'.file) = Values(d.file) \cup {f}
                                 \/ Values(disk'.file) = Values(frames')
  BY <1>6, <1>15, <1>16, <1>21, <1>24, <1>26, <1>27, AppendDisk
<1>29. Counters'
  <2>1. seq' \in 0 .. MaxSeq /\ next_index' \in Nat
    BY <1>2, <1>3, QueueAssumption
  <2>2. DOMAIN frames' \subseteq 0 .. next_index' - 1
    BY <1>2, <1>3, <1>8, <1>15
  <2>3. owed' \subseteq Key /\ \A q \in owed' \cup expired' : Older(Whole(q), f)
    <3>1. \A q \in owed \cup expired : q \in Key /\ Older(Whole(q), Top) /\ Whole(q)[1] = q
      BY FrameLine DEF QueueInv, Counters
    <3>2. f = Whole(k)
      BY DEF f
    <3> QED
      BY <1>1, <1>2, <1>5, <1>6, <3>1, <3>2
  <2> QED
    BY <1>2, <1>4, <2>1, <2>2, <2>3 DEF QueueInv, Counters
<1>30. ASSUME disk'.faults = 0
       PROVE  /\ owed' \subseteq Held(disk'.file) /\ owed' \subseteq Held(frames')
              /\ AllKeyed(by_key', frames')
  <2>1. disk.faults = 0 /\ d.file = disk.file
    BY <1>27, <1>28, <1>30
  <2>2. owed \subseteq Held(disk.file) /\ owed \subseteq Held(frames)
    BY <1>2, <2>1 DEF QueueInv, Agreement
  <2>3. owed' \subseteq Held(frames')
    BY <1>1, <1>15, <1>18, <2>2
  <2>4. owed' \subseteq Held(disk'.file)
    <3>1. CASE Values(disk'.file) = Values(d.file) \cup {f}
      <4>1. f = Whole(k)
        BY DEF f
      <4> QED
        BY <1>1, <1>6, <2>1, <2>2, <3>1, <4>1 DEF Held
    <3>2. CASE Values(disk'.file) = Values(frames')
      BY <2>3, <3>2 DEF Held
    <3> QED
      BY <1>28, <1>30, <3>1, <3>2
  <2> QED
    BY <1>22, <2>1, <2>3, <2>4
<1>31. Agreement'
  BY <1>28, <1>30 DEF Agreement
<1> QED
  BY <1>4, <1>15, <1>28, <1>29, <1>31 DEF QueueInv

LEMMA NextQueueInv == QueueInv /\ [Next]_vars => QueueInv'
<1> SUFFICES ASSUME QueueInv, [Next]_vars PROVE QueueInv'
  OBVIOUS
<1>1. CASE UNCHANGED vars
  <2>1. UNCHANGED <<up, session, seq, frames, next_index, runs, by_key, disk, expired, owed>>
    BY <1>1 DEF vars, queue
  <2> QED
    BY <2>1 DEF QueueInv, Counters, Agreement, Top
<1>2. CASE \E f \in Frame : AcknowledgeExact(f)
  BY <1>2, AcknowledgeExactInv
<1>3. CASE \E k \in Key : Expire(k)
  BY <1>3, ExpireInv
<1>4. CASE \E s \in 0 .. MaxSession, n \in 1 .. MaxSeq : Acknowledge(s, n)
  BY <1>4, AcknowledgeInv
<1> QED
  BY <1>1, <1>2, <1>3, <1>4, EnqueueInv, CrashInv, InitializeInv, InitializeInMemoryInv
  DEF Next

(* Whatever order frames, acknowledgements, prunings, faults of the disk and *)
(* restarts come in, the three indexes of the queue agree                    *)
(* (TelemetryQueue::InsertLocked, RemoveLocked).                             *)
THEOREM RepresentationSafe == Spec => []Representation
<1>1. QueueInv => Representation
  BY QueueInvIsInv
<1> QED
  BY <1>1, InitQueueInv, NextQueueInv, PTL DEF Spec

(* Frames are kept in the order they were produced, across restarts and      *)
(* rewrites of the file (TelemetryQueue::Initialize, CompactLocked).         *)
THEOREM OrderSafe == Spec => []ProductionOrder
<1>1. QueueInv => ProductionOrder
  BY QueueInvIsInv
<1> QED
  BY <1>1, InitQueueInv, NextQueueInv, PTL DEF Spec

(* While persistence is on no pending frame is missing from the file but     *)
(* what a rewrite whose close failed unnoticed left out or cut, and the one  *)
(* appended to the line it cut, until the next whole rewrite; and in the     *)
(* steady state nothing acknowledged is left in the file                     *)
(* (AppendToFileLocked, CompactLocked).                                      *)
THEOREM FileSafe == Spec => []FileAgrees
<1>1. QueueInv => FileAgrees
  BY QueueInvIsInv
<1> QED
  BY <1>1, InitQueueInv, NextQueueInv, PTL DEF Spec

(* On a disk that does not fail every frame taken and not yet acknowledged   *)
(* or dropped survives any kill, once (TelemetryQueue::Enqueue, Initialize). *)
THEOREM DurableSafe == Spec => []Durable
<1>1. QueueInv => Durable
  BY QueueInvIsInv
<1> QED
  BY <1>1, InitQueueInv, NextQueueInv, PTL DEF Spec

-----------------------------------------------------------------------------
(* One frame is under way at a time: on the wire, in the hands of the        *)
(* receiver of a live connection, or acknowledged on its way back; it is the *)
(* one the onboard waits for.  A reset takes all three away, but what a dead *)
(* handler still holds.                                                      *)
Holds == handler = "live" /\ step = "ack"
Came(f) == \A k \in Key : f = Whole(k) => k \in reached

Exchange ==
  /\ sending \in Frame \cup {None} /\ wire \in Frame \cup {None}
  /\ wire # None => wire = sending /\ ack = None /\ ~ Holds /\ conn
  /\ ack # None => ack = sending /\ Came(ack) /\ ~ Holds /\ conn
  /\ Holds => got = sending /\ got # None /\ Came(got)
  /\ handler = "live" => conn
  /\ handler = "none" => step = "recv"

(* While the console runs, a DATA frame with a row is in the received set,   *)
(* and so is the fresh one the receiver works on, which has no row yet.      *)
Dedup ==
  groundCrashes = 0 =>
    /\ twice = {}
    /\ \A k \in rows : IsEvent(Whole(k)) \/ k \in seen
    /\ step # "recv" /\ fresh /\ ~ IsEvent(got) => got[1] \in seen \ rows

Delivery == Exchange /\ Dedup /\ groundCrashes \in Nat

NoneIsNoFrame == None \notin Frame
LEMMA NoneNoFrame == NoneIsNoFrame
BY DeliveryAssumption DEF NoneIsNoFrame

LEMMA InitDelivery == DInit => Delivery
BY DEF DInit, Delivery, Exchange, Dedup, Holds

LEMMA EventKey == \A f : IsEvent(f) <=> IsEvent(Whole(f[1]))
BY DEF IsEvent, Whole

(* A frame is worked on only if no frame with its key was before.            *)
LEMMA ReceiveDelivery == Delivery /\ Receive => Delivery'
<1> SUFFICES ASSUME Delivery, Receive PROVE Delivery'
  OBVIOUS
<1> USE DEF link, ground, counts, onboard
<1>1. /\ handler = "live" /\ step = "recv" /\ wire # None
      /\ reached' = reached \cup {k \in Key : wire = Whole(k)} /\ wire' = None
      /\ UNCHANGED <<sending, conn, ack, handler, rows, twice, groundCrashes>>
      /\ ReceiveParsed \/ ReceiveUnparseable \/ ReceiveUnknown
  BY DEF Receive
<1>2. wire = sending /\ ack = None /\ conn
  BY <1>1 DEF Delivery, Exchange
<1>3. step' = "recv" \/ (step' = "ack" /\ got' = wire)
  BY <1>1 DEF ReceiveParsed, ReceiveUnparseable, ReceiveUnknown
<1>4. \A k \in Key : wire = Whole(k) => k \in reached'
  BY <1>1
<1>5. Exchange'
  <2> HIDE DEF counts, onboard
  <2>1. /\ sending' = wire /\ wire' = None /\ ack' = None /\ conn' /\ handler' = "live"
        /\ wire # None /\ wire \in Frame /\ wire \in Frame \cup {None}
    BY <1>1, <1>2 DEF Receive, Delivery, Exchange
  <2>2. Holds' => got' = wire /\ Came(got)'
    BY <1>3, <1>4 DEF Holds, Came
  <2> QED
    BY <2>1, <2>2 DEF Exchange
<1>6. Dedup'
  <2> SUFFICES ASSUME groundCrashes = 0 PROVE Dedup'
    BY <1>1 DEF Dedup
  <2>1. twice = {} /\ \A k \in rows : IsEvent(Whole(k)) \/ k \in seen
    BY DEF Delivery, Dedup
  <2>2. CASE ReceiveParsed
    <3>1. /\ fresh' = (wire[1] \notin seen) /\ got' = wire
          /\ seen' = IF IsEvent(wire) THEN seen ELSE seen \cup {wire[1]}
      BY <2>2 DEF ReceiveParsed, IsFresh
    <3>2. \A k \in rows' : IsEvent(Whole(k)) \/ k \in seen'
      BY <1>1, <2>1, <3>1
    <3>3. ASSUME fresh', ~ IsEvent(got') PROVE got'[1] \in seen' \ rows'
      BY <1>1, <2>1, <3>1, <3>3, EventKey
    <3> QED
      BY <1>1, <2>1, <3>2, <3>3 DEF Dedup
  <2>3. CASE ReceiveUnparseable
    <3>1. fresh' = FALSE /\ seen' = seen
      BY <2>3 DEF ReceiveUnparseable
    <3> QED
      BY <1>1, <2>1, <3>1 DEF Dedup
  <2>4. CASE ReceiveUnknown
    <3>1. step' = "recv" /\ seen' = seen
      BY <1>1, <2>4 DEF ReceiveUnknown
    <3> QED
      BY <1>1, <2>1, <3>1 DEF Dedup
  <2> QED
    BY <1>1, <2>2, <2>3, <2>4
<1> QED
  BY <1>1, <1>5, <1>6 DEF Delivery

LEMMA NextDelivery == Delivery /\ [DNext]_dvars => Delivery'
<1> SUFFICES ASSUME Delivery, [DNext]_dvars PROVE Delivery'
  OBVIOUS
<1> USE DEF link, ground, counts, onboard
<1>1. CASE UNCHANGED dvars
  BY <1>1 DEF Delivery, Exchange, Dedup, Holds, Came, dvars
<1>2. CASE EnqueueLive \/ EnqueueEvent \/ QuietTick \/ StartEvents \/ StartReplay
  BY <1>2 DEF EnqueueLive, EnqueueEvent, QuietTick, StartEvents, StartReplay,
     Delivery, Exchange, Dedup, Holds, Came
<1>3. CASE EndDrain \/ SendFails \/ MismatchedAck
  BY <1>3 DEF EndDrain, SendFails, MismatchedAck, DrainOver, Delivery, Exchange, Dedup,
     Holds, Came
<1>4. CASE \E f \in Frame : Send(f)
  BY <1>4, NoneNoFrame DEF Send, NoneIsNoFrame, Delivery, Exchange, Dedup, Holds, Came
<1>5. CASE ReceiveAck
  BY <1>5 DEF ReceiveAck, Delivery, Exchange, Dedup, Holds, Came
<1>6. CASE AckTimeout \/ NoAnswer
  <2>1. GiveUp
    BY <1>6 DEF AckTimeout, NoAnswer
  <2> QED
    BY <2>1 DEF GiveUp, ResetConnection, DrainOver, Delivery, Exchange, Dedup, Holds, Came
<1>7. CASE Connect \/ Accept \/ HandlerEnds
  BY <1>7 DEF Connect, Accept, HandlerEnds, Delivery, Exchange, Dedup, Holds, Came
<1>8. CASE Receive
  BY <1>8, ReceiveDelivery
<1>9. CASE AckSent
  BY <1>9 DEF AckSent, Delivery, Exchange, Dedup, Holds, Came
<1>10. CASE AckFails
  BY <1>10 DEF AckFails, Delivery, Exchange, Dedup, Holds, Came
<1>11. CASE Log
  <2>1. Exchange'
    BY <1>11 DEF Log, Delivery, Exchange, Holds, Came
  <2>2. Dedup'
    BY <1>11, EventKey DEF Log, Delivery, Dedup
  <2> QED
    BY <1>11, <2>1, <2>2 DEF Log, Delivery
<1>12. CASE GroundCrash
  BY <1>12 DEF GroundCrash, ResetConnection, Delivery, Exchange, Dedup, Holds, Came
<1>13. CASE OnboardCrash
  BY <1>13 DEF OnboardCrash, ResetConnection, DrainOver, Delivery, Exchange, Dedup, Holds,
     Came
<1>14. CASE OnboardStart
  BY <1>14 DEF OnboardStart, Delivery, Exchange, Dedup, Holds, Came
<1> QED
  BY <1>1, <1>2, <1>3, <1>4, <1>5, <1>6, <1>7, <1>8, <1>9, <1>10, <1>11, <1>12, <1>13,
     <1>14 DEF DNext

(* As long as the console runs, resets, replays and restarts of the onboard  *)
(* never give a DATA frame a second row, and no ACK reaches the onboard      *)
(* while it waits for another frame (dispatch.py, WaitForAckLocked).         *)
THEOREM OneRowSafe == DSpec => []OneRowEach
<1>1. Delivery => OneRowEach
  BY DEF Delivery, Exchange, Dedup, OneRowEach
<1> QED
  BY <1>1, InitDelivery, NextDelivery, PTL DEF DSpec

-----------------------------------------------------------------------------
(* The delivery takes steps of the queue only.                               *)
LEMMA QueueStep == Delivery /\ [DNext]_dvars => [Next]_vars
<1> SUFFICES ASSUME Delivery, [DNext]_dvars PROVE [Next]_vars
  OBVIOUS
<1>1. CASE ReceiveAck
  BY <1>1 DEF ReceiveAck, Delivery, Exchange, Next
<1>2. CASE UNCHANGED dvars
  BY <1>2 DEF dvars
<1>3. CASE \E f \in Frame : Send(f)
  BY <1>3 DEF Send
<1> QED
  BY <1>1, <1>2, <1>3 DEF DNext, EnqueueLive, EnqueueEvent, QuietTick, StartEvents,
     StartReplay, EndDrain, MismatchedAck, AckTimeout, NoAnswer, GiveUp, SendFails, Connect,
     Accept, HandlerEnds, Receive, AckSent, AckFails, Log, GroundCrash, OnboardCrash,
     OnboardStart, Next

(* Nothing is dropped for its age or for want of room, and a frame is taken  *)
(* once.                                                                     *)
Taken ==
  /\ expired = {}
  /\ taken \subseteq Key /\ \A k \in taken : Older(Whole(k), Top)

PathInv == QueueInv /\ Delivery /\ Taken

LEMMA EnqueueOwes ==
  ASSUME MaxBytes = 0, expired = {}, QueueInv, Enqueue
  PROVE  owed' = owed \cup {<<session, seq + 1>>}
<1> DEFINE k == <<session, seq + 1>>
           f == Whole(k)
           grown == [i \in DOMAIN frames \cup {next_index} |->
                       IF i = next_index THEN f ELSE frames[i]]
           keyed == [q \in DOMAIN by_key \cup {k} |->
                       IF q = k THEN next_index ELSE by_key[q]]
<1>1. PICK cut \in 0 .. next_index + 1 :
        /\ IsCut(cut, grown, next_index + 1)
        /\ Remove(grown, keyed, InsertRun(runs, next_index), 0 .. cut - 1)
        /\ \E d \in RetryPersistence(Bury(grown, 0 .. cut - 1), frames') :
             disk' \in AppendFrame(d, f, frames')
        /\ owed' = (owed \cup {k}) \ Discharged(grown, 0 .. cut - 1)
  BY DEF Enqueue
<1>2. next_index \in Nat /\ \A i \in DOMAIN grown : i \in Nat
  BY DEF QueueInv, Counters
<1> HIDE DEF grown
<1>3. \A i \in DOMAIN grown : i \in Kept(grown)
  <2> SUFFICES ASSUME NEW i \in DOMAIN grown PROVE i \in Kept(grown)
    OBVIOUS
  <2>1. i <= i /\ grown[i][1] \notin expired
    BY <1>2
  <2> QED
    BY <2>1 DEF Kept
<1>4. DOMAIN grown \cap (0 .. cut - 1) = {}
  BY <1>1, <1>2, <1>3 DEF IsCut
<1> QED
  BY <1>1, <1>4 DEF Discharged

LEMMA EnqueueCounts == Enqueue => seq' = seq + 1 /\ session' = session
BY DEF Enqueue

LEMMA CrashCounts == Crash => seq' = 0 /\ session' = session + 1
BY DEF Crash

LEMMA TopMoves ==
  ASSUME QueueInv, Enqueue \/ Crash
  PROVE  \A k \in Key : Older(Whole(k), Top) => Older(Whole(k), Top')
<1>1. session \in Nat /\ seq \in Nat
  BY DEF QueueInv, Counters
<1>2. Top' = Whole(<<session, seq + 1>>) \/ Top' = Whole(<<session + 1, 0>>)
  <2>1. \/ seq' = seq + 1 /\ session' = session
        \/ seq' = 0 /\ session' = session + 1
    BY EnqueueCounts, CrashCounts
  <2> QED
    BY <2>1 DEF Top
<1> QED
  BY <1>1, <1>2, NewerTop, FrameLine DEF Top

LEMMA NextTaken ==
  ASSUME MaxBytes = 0, PathInv, [DNext]_dvars
  PROVE  Taken'
<1>1. session \in Nat /\ seq \in Nat /\ taken \subseteq Key /\ expired = {}
  BY DEF PathInv, QueueInv, Counters, Taken
<1>2. CASE EnqueueLive \/ EnqueueEvent
  <2> DEFINE k == <<session, seq + 1>>
  <2>1. Enqueue /\ taken' = taken \cup {k}
    BY <1>2 DEF EnqueueLive, EnqueueEvent, Whole
  <2>2. /\ Top' = Whole(k) /\ k \in Key /\ Older(Whole(k), Whole(k)) /\ expired' = expired
    <3>1. up /\ seq < MaxSeq /\ seq' = seq + 1 /\ session' = session /\ expired' = expired
      BY <2>1 DEF Enqueue
    <3> QED
      BY <3>1, NextFits DEF Top, PathInv
  <2>3. \A q \in Key : Older(Whole(q), Top) => Older(Whole(q), Top')
    BY <2>1, TopMoves DEF PathInv
  <2> HIDE DEF k
  <2> QED
    BY <1>1, <2>1, <2>2, <2>3 DEF PathInv, Taken
<1>3. CASE OnboardCrash
  <2>1. Crash /\ taken' = taken
    BY <1>3 DEF OnboardCrash
  <2>3. expired' = expired
    BY <2>1 DEF Crash
  <2>2. \A k \in Key : Older(Whole(k), Top) => Older(Whole(k), Top')
    BY <2>1, TopMoves DEF PathInv
  <2> QED
    BY <1>1, <2>1, <2>2, <2>3 DEF PathInv, Taken
<1>4. CASE OnboardStart
  BY <1>4 DEF OnboardStart, Initialize, PathInv, Taken, Top
<1>5. CASE ReceiveAck
  BY <1>5 DEF ReceiveAck, AcknowledgeExact, PathInv, Taken, Top
<1>6. CASE UNCHANGED <<vars, taken>>
  BY <1>6 DEF vars, PathInv, Taken, Top
<1>7. \/ EnqueueLive \/ EnqueueEvent \/ OnboardCrash \/ OnboardStart \/ ReceiveAck
      \/ UNCHANGED <<vars, taken>>
  BY DEF dvars, DNext, QuietTick, StartEvents, StartReplay, EndDrain, Send, MismatchedAck,
     AckTimeout, NoAnswer, GiveUp, SendFails, Connect, Accept, HandlerEnds, Receive, AckSent,
     AckFails, Log, GroundCrash
<1> QED
  BY <1>2, <1>3, <1>4, <1>5, <1>6, <1>7

LEMMA InitPath == DInit => PathInv
<1> SUFFICES ASSUME DInit PROVE PathInv
  OBVIOUS
<1>1. QueueInv
  BY InitQueueInv DEF DInit
<1>2. Taken
  BY DEF DInit, Init, Taken
<1> QED
  BY <1>1, <1>2, InitDelivery DEF PathInv

LEMMA NextPath ==
  ASSUME MaxBytes = 0
  PROVE  PathInv /\ [DNext]_dvars => PathInv'
<1> SUFFICES ASSUME PathInv, [DNext]_dvars PROVE PathInv'
  OBVIOUS
<1>1. QueueInv'
  BY QueueStep, NextQueueInv DEF PathInv
<1>2. Delivery'
  BY NextDelivery DEF PathInv
<1> QED
  BY <1>1, <1>2, NextTaken DEF PathInv

(* A step takes a frame, brings one to the ground, or discharges one that    *)
(* got there; every other step leaves the three sets alone.                  *)
discharged == taken \ owed

LEMMA OneKey ==
  ASSUME NEW f
  PROVE  \/ {k \in Key : f = Whole(k)} = {}
         \/ \E k \in Key : f = Whole(k) /\ {q \in Key : f = Whole(q)} = {k}
BY DEF Whole

LEMMA TransferStep ==
  ASSUME MaxBytes = 0, PathInv, [DNext]_dvars
  PROVE  [Transfer!Next]_<<taken, reached, discharged>>
<1>1. /\ session \in Nat /\ seq \in Nat /\ taken \subseteq Key /\ owed \subseteq Key
      /\ expired = {} /\ \A k \in taken : Older(Whole(k), Top)
  BY DEF PathInv, QueueInv, Counters, Taken
<1>2. CASE EnqueueLive \/ EnqueueEvent
  <2> DEFINE k == <<session, seq + 1>>
  <2>1. Enqueue /\ taken' = taken \cup {k} /\ UNCHANGED reached
    BY <1>2 DEF EnqueueLive, EnqueueEvent, ground, Whole
  <2>2. owed' = owed \cup {k}
    BY <1>1, <2>1, EnqueueOwes DEF PathInv
  <2>3. k \in Key
    <3>1. up /\ seq < MaxSeq
      BY <2>1 DEF Enqueue
    <3> QED
      BY <3>1, NextFits DEF PathInv
  <2>4. k \notin taken
    <3> SUFFICES ASSUME NEW q \in taken PROVE q # k
      OBVIOUS
    <3>1. Whole(q)[1] = q /\ q \in Key /\ Older(Whole(q), Whole(<<session, seq>>))
      BY <1>1 DEF Whole, Top
    <3> QED
      BY <1>1, <3>1, NewerTop
  <2> HIDE DEF k
  <2>5. discharged' = discharged
    BY <2>1, <2>2, <2>4 DEF discharged
  <2>6. Transfer!Take(k)
    BY <2>1, <2>4, <2>5 DEF Transfer!Take, discharged
  <2> QED
    BY <2>3, <2>6 DEF Transfer!Next
<1>3. CASE Receive
  <2>1. /\ reached' = reached \cup {k \in Key : wire = Whole(k)}
        /\ UNCHANGED <<taken, owed>>
    BY <1>3 DEF Receive, vars
  <2>2. CASE {k \in Key : wire = Whole(k)} = {}
    BY <2>1, <2>2 DEF discharged
  <2>3. CASE \E k \in Key : {q \in Key : wire = Whole(q)} = {k}
    <3>1. PICK k \in Key : {q \in Key : wire = Whole(q)} = {k}
      BY <2>3
    <3>2. Transfer!Arrive(k)
      BY <2>1, <3>1 DEF Transfer!Arrive
    <3> QED
      BY <3>2 DEF Transfer!Next
  <2> QED
    BY <2>2, <2>3, OneKey
<1>4. CASE ReceiveAck
  <2>1. /\ owed' = owed \ {k \in Key : sending = Whole(k)}
        /\ UNCHANGED <<taken, reached>> /\ Came(sending)
    BY <1>4 DEF ReceiveAck, AcknowledgeExact, ground, PathInv, Delivery, Exchange
  <2>2. CASE {k \in Key : sending = Whole(k)} = {}
    BY <2>1, <2>2 DEF discharged
  <2>3. CASE \E k \in Key : sending = Whole(k) /\ {q \in Key : sending = Whole(q)} = {k}
    <3>1. PICK k \in Key : sending = Whole(k) /\ {q \in Key : sending = Whole(q)} = {k}
      BY <2>3
    <3>2. owed' = owed \ {k} /\ k \in reached
      BY <2>1, <3>1 DEF Came
    <3>3. CASE k \in taken
      <4>1. discharged' = discharged \cup {k}
        BY <2>1, <3>2, <3>3 DEF discharged
      <4>2. Transfer!Discharge(k)
        BY <2>1, <3>2, <3>3, <4>1 DEF Transfer!Discharge, discharged
      <4> QED
        BY <4>2 DEF Transfer!Next
    <3>4. CASE k \notin taken
      <4>1. discharged' = discharged
        BY <2>1, <3>2, <3>4 DEF discharged
      <4> QED
        BY <2>1, <4>1
    <3> QED
      BY <3>3, <3>4
  <2> QED
    BY <2>2, <2>3, OneKey
<1>5. CASE OnboardCrash \/ OnboardStart
  <2>1. UNCHANGED <<taken, reached>> /\ (Crash \/ Initialize)
    BY <1>5 DEF OnboardCrash, OnboardStart, ground
  <2>2. owed' = owed
    <3>1. CASE Crash
      BY <3>1 DEF Crash
    <3>2. CASE Initialize
      <4>1. owed' = owed \ (Keys(disk.file) \cap expired)
        BY <3>2 DEF Initialize
      <4> QED
        BY <1>1, <4>1
    <3> QED
      BY <2>1, <3>1, <3>2
  <2> QED
    BY <2>1, <2>2 DEF discharged
<1>6. CASE UNCHANGED <<taken, reached, owed>>
  BY <1>6 DEF discharged
<1>7. \/ EnqueueLive \/ EnqueueEvent \/ Receive \/ ReceiveAck \/ OnboardCrash \/ OnboardStart
      \/ UNCHANGED <<taken, reached, owed>>
  BY DEF dvars, vars, ground, DNext, QuietTick, StartEvents, StartReplay, EndDrain, Send,
     MismatchedAck, AckTimeout, NoAnswer, GiveUp, SendFails, Connect, Accept, HandlerEnds,
     AckSent, AckFails, Log, GroundCrash
<1> QED
  BY <1>2, <1>3, <1>4, <1>5, <1>6, <1>7

(* With room for all frames, at-least-once delivery: whatever is reset or    *)
(* restarted, the onboard discharges a frame it took only after the ground   *)
(* station received it (TelemetryDrain::Drain, dispatch.py).                 *)
THEOREM DeliveryImplements == MaxBytes = 0 => (DSpec => DeliversAtLeastOnce)
<1> SUFFICES ASSUME MaxBytes = 0 PROVE DSpec => DeliversAtLeastOnce
  OBVIOUS
<1>1. DInit => Transfer!Init
  BY DEF DInit, Init, Transfer!Init
<1>2. PathInv /\ [DNext]_dvars => [Transfer!Next]_<<taken, reached, taken \ owed>>
  BY TransferStep DEF discharged
<1>3. PathInv /\ [DNext]_dvars => PathInv'
  BY NextPath
<1> QED
  BY <1>1, <1>2, <1>3, InitPath, PTL DEF DSpec, DeliversAtLeastOnce, Transfer!Spec
=============================================================================
