------------------------- MODULE MaglevTable_proofs -------------------------
(***************************************************************************)
(* Theorems of MaglevTable, for any number of backends, any weights, any   *)
(* prime size of the table and any permutations: the table is complete and *)
(* balanced. Three steps lead there: a skip visits every slot, because the *)
(* size is prime; the entries of a backend are as many as its repetitions, *)
(* side by side; and each turn fills one slot for the entry whose turn it  *)
(* is. The two recursive functions are followed by induction over a set of *)
(* numbers.                                                                *)
(***************************************************************************)
EXTENDS MaglevTable, FiniteSetTheorems, SequenceTheorems, WellFoundedInduction, TLAPS

LEMMA Least ==
  ASSUME NEW U, U \subseteq Nat, U # {}
  PROVE  \E m \in U : \A y \in U : m <= y
<1> DEFINE Less == OpToRel(<, Nat)
<1>1. \A x, y \in Nat : x < y => <<x, y>> \in Less
  BY DEF OpToRel
<1>2. IsWellFoundedOn(Less, Nat)
  BY NatLessThanWellFounded
<1> HIDE DEF Less
<1>3. PICK m \in U : \A y \in U : ~(<<y, m>> \in Less)
  BY <1>2, WFMin
<1>4. ASSUME NEW y \in U
      PROVE  m <= y
  <2>1. m \in Nat /\ y \in Nat
    OBVIOUS
  <2>2. ~(y < m)
    BY <1>1, <1>3, <2>1
  <2> QED
    BY <2>1, <2>2
<1> QED
  BY <1>4

LEMMA SetInduction ==
  ASSUME NEW T, 0 \in T, \A n \in T \cap Nat : n + 1 \in T
  PROVE  Nat \subseteq T
<1> SUFFICES ASSUME Nat \ T # {} PROVE FALSE
  OBVIOUS
<1>1. PICK m \in Nat \ T : \A y \in Nat \ T : m <= y
  BY Least
<1>2. m # 0 /\ m - 1 \in Nat /\ m - 1 < m
  BY <1>1
<1>3. m - 1 \in T
  BY <1>1, <1>2
<1>4. m - 1 \in T \cap Nat /\ (m - 1) + 1 = m
  BY <1>2, <1>3
<1>5. (m - 1) + 1 \in T
  BY <1>4
<1> QED
  BY <1>4, <1>5

-----------------------------------------------------------------------------
(* Multiples. *)
Multiple(n, d) == \E j \in Nat : n = j * d

LEMMA MultipleTimes ==
  ASSUME NEW d \in Nat, NEW a \in Nat, NEW q \in Nat, Multiple(a, d)
  PROVE  Multiple(a * q, d)
<1>1. PICK i \in Nat : a = i * d
  BY DEF Multiple
<1>2. a * q = (i * q) * d /\ i * q \in Nat
  BY <1>1
<1> QED
  BY <1>2 DEF Multiple

(* A difference of multiples is a multiple. *)
LEMMA MultipleRest ==
  ASSUME NEW d \in Nat \ {0}, NEW a \in Nat, NEW b \in Nat,
         Multiple(a, d), Multiple(a + b, d)
  PROVE  Multiple(b, d)
<1>1. PICK i \in Nat : a = i * d
  BY DEF Multiple
<1>2. PICK j \in Nat : a + b = j * d
  BY DEF Multiple
<1>3. CASE j < i
  <2>1. PICK x \in Nat : i = j + x
    <3>1. i - j \in Nat /\ i = j + (i - j)
      BY <1>3
    <3> QED
      BY <3>1
  <2>2. x > 0 /\ i * d = j * d + x * d
    BY <1>3, <2>1
  <2>3. x * d > 0 /\ x * d \in Nat /\ j * d \in Nat
    BY <2>2
  <2> QED
    BY <1>1, <1>2, <2>2, <2>3
<1>4. CASE j >= i
  <2>1. PICK x \in Nat : j = i + x
    <3>1. j - i \in Nat /\ j = i + (j - i)
      BY <1>4
    <3> QED
      BY <3>1
  <2>2. j * d = i * d + x * d /\ i * d \in Nat /\ x * d \in Nat
    BY <2>1
  <2>3. b = x * d
    BY <1>1, <1>2, <2>2
  <2> QED
    BY <2>1, <2>3 DEF Multiple
<1> QED
  BY <1>3, <1>4

LEMMA DivMod ==
  ASSUME NEW a \in Nat, NEW b \in Nat \ {0}
  PROVE  a \div b \in Nat /\ a % b \in 0 .. (b - 1) /\ a = b * (a \div b) + (a % b)
OBVIOUS

LEMMA ModUnique ==
  ASSUME NEW n \in Nat \ {0}, NEW q \in Nat, NEW r \in 0 .. (n - 1)
  PROVE  (n * q + r) % n = r /\ (n * q + r) \div n = q
<1> DEFINE a == n * q + r
           x == a \div n
           s == a % n
<1>1. a \in Nat /\ x \in Nat /\ s \in 0 .. (n - 1) /\ a = n * x + s
  <2>1. a \in Nat
    OBVIOUS
  <2> HIDE DEF a
  <2> QED
    BY <2>1, DivMod
<1>2. ASSUME NEW y \in Nat, NEW z \in Nat, z > y
      PROVE  n * z >= n * y + n
  <2>1. PICK d \in Nat : z = y + 1 + d
    <3>1. z - y - 1 \in Nat /\ z = y + 1 + (z - y - 1)
      BY <1>2
    <3> QED
      BY <3>1
  <2>2. n * z = n * y + n + n * d /\ n * d \in Nat /\ n * y \in Nat
    BY <2>1
  <2> QED
    BY <2>2
<1>3. n * q \in Nat /\ n * x \in Nat
  BY <1>1
<1>4. n * q + r = n * x + s
  BY <1>1
<1> HIDE DEF x, s
<1>5. x = q
  <2>1. ~(x > q)
    BY <1>1, <1>2, <1>3, <1>4
  <2>2. ~(q > x)
    BY <1>1, <1>2, <1>3, <1>4
  <2> QED
    BY <1>1, <2>1, <2>2
<1> QED
  BY <1>1, <1>3, <1>4, <1>5 DEF s, x

(* A multiple of d that is smaller than d is zero. *)
LEMMA MultipleSmall ==
  ASSUME NEW d \in Nat \ {0}, NEW a \in 0 .. (d - 1), Multiple(a, d)
  PROVE  a = 0
<1>1. PICK j \in Nat : a = j * d
  BY DEF Multiple
<1>2. CASE j = 0
  BY <1>1, <1>2
<1>3. CASE j # 0
  <2>1. PICK x \in Nat : j = x + 1
    <3>1. j - 1 \in Nat /\ j = (j - 1) + 1
      BY <1>3
    <3> QED
      BY <3>1
  <2>2. j * d = x * d + d /\ x * d \in Nat
    BY <2>1
  <2> QED
    BY <1>1, <2>2
<1> QED
  BY <1>2, <1>3

LEMMA SizeFacts ==
  /\ TableSize \in Nat /\ TableSize > 1
  /\ \A d \in Nat : d > 1 /\ d < TableSize => TableSize % d # 0
BY SizeAssumption

(* The size of the table is prime: it divides no product of a skip and of  *)
(* something else it does not divide. The least factor x with a * x a      *)
(* multiple of the size divides all of them, the size and the skip too.    *)
LEMMA Coprime ==
  ASSUME NEW a \in Nat, NEW k \in 1 .. (TableSize - 1), Multiple(a * k, TableSize)
  PROVE  Multiple(a, TableSize)
<1> DEFINE P == TableSize
           D == {x \in Nat \ {0} : Multiple(a * x, P)}
<1>1. P \in Nat \ {0} /\ k \in Nat \ {0} /\ k < P
  BY SizeFacts
<1>2. k \in D
  BY <1>1
<1>3. P \in D
  BY <1>1 DEF Multiple
<1>4. PICK d \in D : \A y \in D : d <= y
  BY <1>2, Least
<1>0. \A x : x \in D <=> x \in Nat /\ x # 0 /\ Multiple(a * x, P)
  OBVIOUS
<1> HIDE DEF D
<1>5. ASSUME NEW x \in D
      PROVE  x % d = 0
  <2> DEFINE q == x \div d
             r == x % d
  <2>0. d \in Nat \ {0} /\ x \in Nat
    BY <1>0, <1>4
  <2>1. /\ d \in Nat \ {0} /\ x \in Nat /\ q \in Nat /\ r \in Nat /\ r < d
        /\ x = d * q + r
    <3>1. /\ x \div d \in Nat /\ x % d \in 0 .. (d - 1)
          /\ x = d * (x \div d) + (x % d)
      BY <2>0, DivMod
    <3> QED
      BY <2>0, <3>1
  <2> HIDE DEF q, r
  <2>2. a * x = (a * d) * q + a * r /\ (a * d) * q \in Nat /\ a * r \in Nat /\ a * d \in Nat
    BY <2>1
  <2>3. Multiple(a * d, P) /\ Multiple(a * x, P)
    BY <1>0, <1>4
  <2>4. Multiple((a * d) * q, P)
    BY <1>1, <2>1, <2>2, <2>3, MultipleTimes
  <2>5. Multiple(a * r, P)
    BY <1>1, <2>2, <2>3, <2>4, MultipleRest
  <2>6. ~(r # 0)
    <3> SUFFICES ASSUME r # 0 PROVE FALSE
      OBVIOUS
    <3>1. r \in D
      BY <1>0, <2>1, <2>5
    <3> QED
      BY <1>4, <2>1, <3>1
  <2> QED
    BY <2>6 DEF r
<1>6. d = 1
  <2>1. d \in Nat /\ d # 0
    BY <1>0, <1>4
  <2>2. d <= k
    BY <1>2, <1>4
  <2>3. TableSize % d = 0
    BY <1>3, <1>5
  <2>4. ~(d > 1 /\ d < TableSize)
    BY <2>1, <2>3, SizeFacts
  <2> QED
    BY <1>1, <2>1, <2>2, <2>4
<1>7. Multiple(a * 1, P) /\ a * 1 = a
  BY <1>0, <1>4, <1>6
<1> QED
  BY <1>7

-----------------------------------------------------------------------------
(* What permutation() gives: any offsets, and skips that are not zero. *)
Permutations ==
  /\ offset \in [Backends -> Slots]
  /\ skip \in [Backends -> 1 .. (TableSize - 1)]

LEMMA PreferenceFacts ==
  ASSUME Permutations, NEW b \in Backends, NEW j \in Nat
  PROVE  /\ Preference(b, j) \in Slots
         /\ \E q \in Nat : offset[b] + j * skip[b] = q * TableSize + Preference(b, j)
<1>1. offset[b] \in Nat /\ skip[b] \in Nat /\ TableSize \in Nat \ {0}
  BY SizeFacts DEF Permutations, Slots
<1> DEFINE a == offset[b] + j * skip[b]
<1>2. a \in Nat
  BY <1>1
<1> HIDE DEF a
<1>3. /\ a \div TableSize \in Nat /\ a % TableSize \in 0 .. (TableSize - 1)
      /\ a = TableSize * (a \div TableSize) + (a % TableSize)
  BY <1>1, <1>2, DivMod
<1> DEFINE q == a \div TableSize
           r == a % TableSize
<1>4. q \in Nat /\ r \in Nat /\ a = TableSize * q + r
  BY <1>3
<1> HIDE DEF q, r
<1>5. a = q * TableSize + r
  BY <1>1, <1>4
<1> QED
  BY <1>3, <1>4, <1>5 DEF a, r, Preference, Slots

(* Two places in the list of a backend name different slots. *)
LEMMA PreferenceDistinct ==
  ASSUME Permutations, NEW b \in Backends, NEW i \in Slots, NEW j \in Slots, i < j
  PROVE  Preference(b, i) # Preference(b, j)
<1> SUFFICES ASSUME Preference(b, i) = Preference(b, j) PROVE FALSE
  OBVIOUS
<1> DEFINE o == offset[b]
           k == skip[b]
           r == Preference(b, i)
           x == j - i
           P == TableSize
<1>1. /\ o \in Nat /\ k \in 1 .. (P - 1) /\ k \in Nat /\ P \in Nat \ {0} /\ r \in Nat
      /\ i \in Nat /\ j \in Nat /\ x \in 0 .. (P - 1) /\ x # 0 /\ x \in Nat /\ j = i + x
  BY SizeFacts, PreferenceFacts DEF Permutations, Slots
<1>2. PICK q \in Nat : o + i * k = q * P + r
  BY <1>1, PreferenceFacts
<1>3. PICK p \in Nat : o + j * k = p * P + r
  <2>1. PICK p \in Nat : o + j * k = p * P + Preference(b, j)
    BY <1>1, PreferenceFacts
  <2> QED
    BY <2>1
<1> HIDE DEF o, k, r, x
<1>4. /\ j * k = i * k + x * k /\ i * k \in Nat /\ x * k \in Nat
      /\ q * P \in Nat /\ p * P \in Nat
  BY <1>1
<1>5. q * P + x * k = p * P
  BY <1>1, <1>2, <1>3, <1>4
<1>6. Multiple(q * P, P) /\ Multiple(q * P + x * k, P)
  BY <1>5 DEF Multiple
<1>7. Multiple(x * k, P)
  BY <1>1, <1>4, <1>6, MultipleRest
<1>8. Multiple(x, P)
  BY <1>1, <1>7, Coprime
<1> QED
  BY <1>1, <1>8, MultipleSmall

(* So its list names every slot: wherever the hashes start a backend and   *)
(* however far they let it skip, it does not miss a free slot.             *)
LEMMA PreferenceOnto ==
  ASSUME Permutations, NEW b \in Backends, NEW s \in Slots
  PROVE  \E j \in Slots : Preference(b, j) = s
<1> DEFINE f == [j \in Slots |-> Preference(b, j)]
<1>1. IsFiniteSet(Slots)
  BY SizeFacts, FS_Interval DEF Slots
<1>2. f \in [Slots -> Slots]
  BY PreferenceFacts DEF Slots
<1>3. ASSUME NEW i \in Slots, NEW j \in Slots, f[i] = f[j]
      PROVE  i = j
  <2>1. ~(i < j) /\ ~(j < i)
    BY <1>3, PreferenceDistinct
  <2> QED
    BY <2>1, SizeFacts DEF Slots
<1>4. f \in Injection(Slots, Slots)
  BY <1>2, <1>3 DEF Injection, IsInjective
<1>5. f \in Surjection(Slots, Slots)
  BY <1>1, <1>4, FS_Injection
<1> QED
  BY <1>5 DEF Surjection

-----------------------------------------------------------------------------
(* The lightest backend of a set, and how often the others are repeated. *)
LEMMA RepetitionsFacts ==
  ASSUME NEW S, S \subseteq Backends, NEW b \in S
  PROVE  Repetitions(b, S) \in Nat \ {0}
<1> DEFINE U == {Weight[c] : c \in S}
           m == MinWeight(S)
           w == Weight[b]
<1>1. U \subseteq Nat \ {0} /\ w \in U
  BY WeightAssumption
<1>2. \E n \in U : \A c \in S : n <= Weight[c]
  <2>1. PICK n \in U : \A y \in U : n <= y
    BY <1>1, Least
  <2>2. \A c \in S : Weight[c] \in U
    OBVIOUS
  <2> QED
    BY <2>1, <2>2
<1>3. m \in U /\ m <= w
  BY <1>2 DEF MinWeight
<1>4. m \in Nat \ {0} /\ w \in Nat \ {0}
  BY <1>1, <1>3
<1> HIDE DEF m, w
<1> DEFINE x == 2 * w + m
           y == 2 * m
<1>5. x \in Nat /\ y \in Nat \ {0} /\ x >= y
  BY <1>3, <1>4
<1> HIDE DEF x, y
<1>6. /\ x \div y \in Nat /\ x % y \in 0 .. (y - 1)
      /\ x = y * (x \div y) + (x % y)
  BY <1>5, DivMod
<1>7. x \div y # 0
  <2> SUFFICES ASSUME x \div y = 0 PROVE FALSE
    OBVIOUS
  <2>1. x = x % y
    BY <1>5, <1>6
  <2> QED
    BY <1>5, <1>6, <2>1
<1> QED
  BY <1>6, <1>7 DEF x, y, m, w, Repetitions

(* The recursion of build_weighted_entries obeys its definition. *)
EntryStep(S, g, n) ==
  IF n = 0 THEN << >>
  ELSE IF n - 1 \in S
       THEN g[n - 1] \o [i \in 1 .. Repetitions(n - 1, S) |-> n - 1]
       ELSE g[n - 1]

LEMMA EntriesUpToDef ==
  ASSUME NEW S
  PROVE  \A n \in 0 .. N : EntriesUpTo(S)[n] = EntryStep(S, EntriesUpTo(S), n)
<1> DEFINE T == {m \in Nat : \E g : g = [n \in 0 .. m |-> EntryStep(S, g, n)]}
<1>1. 0 \in T
  <2> DEFINE g == [n \in 0 .. 0 |-> << >>]
  <2>1. g = [n \in 0 .. 0 |-> EntryStep(S, g, n)]
    BY DEF EntryStep
  <2> QED
    BY <2>1
<1>2. ASSUME NEW m \in T \cap Nat
      PROVE  m + 1 \in T
  <2>1. PICK g : g = [n \in 0 .. m |-> EntryStep(S, g, n)]
    OBVIOUS
  <2> DEFINE h == [n \in 0 .. (m + 1) |-> IF n <= m THEN g[n] ELSE EntryStep(S, g, n)]
  <2>2. ASSUME NEW n \in 0 .. (m + 1)
        PROVE  h[n] = EntryStep(S, h, n)
    <3>1. h[n] = EntryStep(S, g, n)
      BY <2>1
    <3>2. CASE n = 0
      BY <3>1, <3>2 DEF EntryStep
    <3>3. CASE n # 0
      <4>1. n - 1 \in 0 .. (m + 1) /\ n - 1 <= m
        BY <3>3
      <4>2. h[n - 1] = g[n - 1]
        BY <4>1
      <4> HIDE DEF h
      <4> QED
        BY <3>1, <3>3, <4>2 DEF EntryStep
    <3> QED
      BY <3>2, <3>3
  <2>3. h = [n \in 0 .. (m + 1) |-> h[n]]
    OBVIOUS
  <2> HIDE DEF h
  <2>4. h = [n \in 0 .. (m + 1) |-> EntryStep(S, h, n)]
    BY <2>2, <2>3
  <2> QED
    BY <2>4
<1>3. PICK g : g = [n \in 0 .. N |-> EntryStep(S, g, n)]
  <2> HIDE DEF T
  <2>1. N \in T
    BY <1>1, <1>2, SetInduction, NAssumption
  <2> QED
    BY <2>1 DEF T
<1>4. g = [n \in 0 .. N |->
             IF n = 0 THEN << >>
             ELSE IF n - 1 \in S
                  THEN g[n - 1] \o [i \in 1 .. Repetitions(n - 1, S) |-> n - 1]
                  ELSE g[n - 1]]
  BY <1>3 DEF EntryStep
<1>5. EntriesUpTo(S) =
        [n \in 0 .. N |->
             IF n = 0 THEN << >>
             ELSE IF n - 1 \in S
                  THEN EntriesUpTo(S)[n - 1] \o [i \in 1 .. Repetitions(n - 1, S) |-> n - 1]
                  ELSE EntriesUpTo(S)[n - 1]]
  BY <1>4 DEF EntriesUpTo
<1> QED
  BY <1>5 DEF EntryStep

(* After the first n backends: the entries are backends of S below n, and  *)
(* those of one backend lie side by side, as many as its repetitions.      *)
EntriesInv(S, n) ==
  LET upTo == EntriesUpTo(S) IN
  /\ upTo[n] \in Seq(S)
  /\ \A e \in 1 .. Len(upTo[n]) : upTo[n][e] < n
  /\ \A b \in S : b < n =>
       \E lo \in Nat :
         /\ lo + Repetitions(b, S) <= Len(upTo[n])
         /\ \A e \in 1 .. Len(upTo[n]) :
              upTo[n][e] = b <=> lo < e /\ e <= lo + Repetitions(b, S)

LEMMA EntriesNext ==
  ASSUME NEW S, S \subseteq Backends, NEW n \in Nat, n < N, EntriesInv(S, n)
  PROVE  EntriesInv(S, n + 1)
<1> DEFINE s == EntriesUpTo(S)[n]
           t == EntriesUpTo(S)[n + 1]
           r == Repetitions(n, S)
           block == [i \in 1 .. r |-> n]
<1>1. /\ n + 1 \in 0 .. N /\ n + 1 # 0 /\ (n + 1) - 1 = n
      /\ S \subseteq Nat
  BY NAssumption DEF Backends
<1>2. t = IF n \in S THEN s \o block ELSE s
  BY <1>1, EntriesUpToDef DEF EntryStep
<1>3. /\ s \in Seq(S) /\ Len(s) \in Nat
      /\ \A e \in 1 .. Len(s) : s[e] \in S /\ s[e] < n /\ s[e] < n + 1
  <2>1. s \in Seq(S) /\ \A e \in 1 .. Len(s) : s[e] < n
    BY DEF EntriesInv
  <2>2. ASSUME NEW e \in 1 .. Len(s)
        PROVE  s[e] \in S /\ s[e] < n + 1
    <3>1. s[e] \in S /\ s[e] < n
      BY <2>1
    <3>2. s[e] \in Nat
      BY <1>1, <3>1
    <3> QED
      BY <3>1, <3>2
  <2> QED
    BY <2>1, <2>2
<1>4. ASSUME NEW b \in S, b < n
      PROVE  \E lo \in Nat :
               /\ lo + Repetitions(b, S) <= Len(s)
               /\ \A e \in 1 .. Len(s) : s[e] = b <=> lo < e /\ e <= lo + Repetitions(b, S)
  BY <1>4 DEF EntriesInv
<1>5. ASSUME t \in Seq(S), \A e \in 1 .. Len(t) : t[e] < n + 1,
             \A b \in S : b < n + 1 =>
               \E lo \in Nat :
                 /\ lo + Repetitions(b, S) <= Len(t)
                 /\ \A e \in 1 .. Len(t) : t[e] = b <=> lo < e /\ e <= lo + Repetitions(b, S)
      PROVE  EntriesInv(S, n + 1)
  BY <1>5 DEF EntriesInv
<1> HIDE DEF s, t
<1>6. CASE n \notin S
  <2>1. t = s
    BY <1>2, <1>6
  <2>2. \A b \in S : b < n + 1 => b < n
    BY <1>1, <1>6
  <2>3. \A e \in 1 .. Len(t) : t[e] < n + 1
    BY <1>3, <2>1
  <2> QED
    BY <1>3, <1>4, <1>5, <2>1, <2>2, <2>3
<1>7. CASE n \in S
  <2>1. r \in Nat \ {0}
    BY <1>7, RepetitionsFacts
  <2>2. block \in Seq(S) /\ Len(block) = r /\ \A e \in 1 .. r : block[e] = n
    BY <1>7, <2>1
  <2>3. t = s \o block
    BY <1>2, <1>7
  <2> HIDE DEF r, block
  <2>4. t \in Seq(S) /\ Len(t) = Len(s) + r
    BY <1>3, <2>2, <2>3, ConcatProperties
  <2>5. ASSUME NEW e \in 1 .. Len(t)
        PROVE  t[e] = IF e <= Len(s) THEN s[e] ELSE n
    <3>1. t[e] = IF e <= Len(s) THEN s[e] ELSE block[e - Len(s)]
      BY <1>3, <2>2, <2>3, <2>4, ConcatProperties
    <3>2. e > Len(s) => e - Len(s) \in 1 .. r
      BY <1>3, <2>1, <2>4
    <3> QED
      BY <1>3, <2>2, <2>4, <3>1, <3>2
  <2>6. \A e \in 1 .. Len(t) : t[e] < n + 1
    <3> TAKE e \in 1 .. Len(t)
    <3>1. CASE e <= Len(s)
      <4>1. e \in 1 .. Len(s)
        BY <1>3, <2>4, <3>1
      <4> QED
        BY <1>3, <2>5, <3>1, <4>1
    <3>2. CASE ~(e <= Len(s))
      BY <2>5, <3>2
    <3> QED
      BY <3>1, <3>2
  <2>7. ASSUME NEW b \in S, b < n + 1
        PROVE  \E lo \in Nat :
                 /\ lo + Repetitions(b, S) <= Len(t)
                 /\ \A e \in 1 .. Len(t) : t[e] = b <=> lo < e /\ e <= lo + Repetitions(b, S)
    <3>1. CASE b = n
      <4>1. Len(s) + Repetitions(b, S) = Len(t) /\ Repetitions(b, S) = r
        BY <2>4, <3>1 DEF r
      <4>2. ASSUME NEW e \in 1 .. Len(t)
            PROVE  t[e] = b <=> Len(s) < e /\ e <= Len(s) + r
        <5>1. CASE e <= Len(s)
          <6>1. e \in 1 .. Len(s)
            BY <1>3, <2>4, <5>1
          <6>2. t[e] # n
            BY <1>1, <1>3, <2>5, <5>1, <6>1
          <6> QED
            BY <1>3, <3>1, <5>1, <6>2
        <5>2. CASE ~(e <= Len(s))
          BY <1>3, <2>1, <2>4, <2>5, <3>1, <5>2
        <5> QED
          BY <5>1, <5>2
      <4>3. /\ Len(s) + Repetitions(b, S) <= Len(t)
            /\ \A e \in 1 .. Len(t) :
                 t[e] = b <=> Len(s) < e /\ e <= Len(s) + Repetitions(b, S)
        <5>1. Len(t) \in Nat
          BY <1>3, <2>1, <2>4
        <5> QED
          BY <4>1, <4>2, <5>1
      <4> QED
        BY <1>3, <4>3
    <3>2. CASE b # n
      <4>1. b < n
        BY <1>1, <2>7, <3>2
      <4> DEFINE k == Repetitions(b, S)
      <4>2. PICK lo \in Nat :
               /\ lo + k <= Len(s)
               /\ \A e \in 1 .. Len(s) : s[e] = b <=> lo < e /\ e <= lo + k
        BY <1>4, <4>1
      <4>3. k \in Nat
        BY RepetitionsFacts
      <4> HIDE DEF k
      <4>4. ASSUME NEW e \in 1 .. Len(t)
            PROVE  t[e] = b <=> lo < e /\ e <= lo + k
        <5>1. CASE e <= Len(s)
          <6>1. e \in 1 .. Len(s)
            BY <1>3, <2>4, <5>1
          <6> QED
            BY <2>5, <4>2, <5>1, <6>1
        <5>2. CASE ~(e <= Len(s))
          BY <1>3, <2>1, <2>4, <2>5, <3>2, <4>2, <4>3, <5>2
        <5> QED
          BY <5>1, <5>2
      <4>5. lo + k <= Len(t)
        BY <1>3, <2>1, <2>4, <4>2, <4>3
      <4> QED
        BY <4>4, <4>5 DEF k
    <3> QED
      BY <3>1, <3>2
  <2> QED
    BY <1>5, <2>4, <2>6, <2>7
<1> QED
  BY <1>6, <1>7

(* The entries of a set: each backend of it has its repetitions, and there *)
(* is at least one.                                                        *)
LEMMA EntriesFacts ==
  ASSUME NEW S, S \subseteq Backends, S # {}
  PROVE  /\ Entries(S) \in Seq(S) /\ Len(Entries(S)) \in Nat \ {0}
         /\ \A b \in S :
              \E lo \in Nat :
                /\ lo + Repetitions(b, S) <= Len(Entries(S))
                /\ \A e \in 1 .. Len(Entries(S)) :
                     Entries(S)[e] = b <=> lo < e /\ e <= lo + Repetitions(b, S)
<1> DEFINE T == {n \in Nat : n <= N => EntriesInv(S, n)}
<1>1. 0 \in T
  <2>1. EntriesUpTo(S)[0] = << >>
    <3>1. 0 \in 0 .. N
      BY NAssumption
    <3>2. EntriesUpTo(S)[0] = EntryStep(S, EntriesUpTo(S), 0)
      BY <3>1, EntriesUpToDef
    <3> QED
      BY <3>2 DEF EntryStep
  <2>2. \A b \in S : ~(b < 0)
    BY DEF Backends
  <2>3. << >> \in Seq(S) /\ Len(<< >>) = 0 /\ \A e \in 1 .. 0 : FALSE
    OBVIOUS
  <2>4. EntriesInv(S, 0)
    BY <2>1, <2>2, <2>3 DEF EntriesInv
  <2> QED
    BY <2>4
<1>2. ASSUME NEW n \in T \cap Nat
      PROVE  n + 1 \in T
  BY EntriesNext, NAssumption
<1>3. EntriesInv(S, N)
  <2> HIDE DEF T
  <2>1. N \in T /\ N \in Nat
    BY <1>1, <1>2, SetInduction, NAssumption
  <2> QED
    BY <2>1 DEF T
<1>4. \A b \in S : b \in Nat /\ b < N
  BY NAssumption DEF Backends
<1>5. /\ Entries(S) \in Seq(S)
      /\ \A b \in S :
              \E lo \in Nat :
                /\ lo + Repetitions(b, S) <= Len(Entries(S))
                /\ \A e \in 1 .. Len(Entries(S)) :
                     Entries(S)[e] = b <=> lo < e /\ e <= lo + Repetitions(b, S)
  BY <1>3, <1>4 DEF EntriesInv, Entries
<1>6. Len(Entries(S)) \in Nat \ {0}
  <2>1. PICK b \in S : TRUE
    OBVIOUS
  <2>2. PICK lo \in Nat : lo + Repetitions(b, S) <= Len(Entries(S))
    BY <1>5
  <2>3. Repetitions(b, S) \in Nat \ {0} /\ Len(Entries(S)) \in Nat
    BY <1>5, RepetitionsFacts
  <2> QED
    BY <2>2, <2>3
<1> QED
  BY <1>5, <1>6

-----------------------------------------------------------------------------
(* Filling the table. *)
Filled(t) == {s \in Slots : t[s] # Unset}
Owned(t, b) == {s \in Slots : t[s] = b}

(* Between two turns: each slot is free or has a backend of S, and every   *)
(* entry has the preferences it is past filled, by itself or by another.   *)
GoodFill(S, entries, fill) ==
  /\ fill.table \in [Slots -> S \cup {Unset}]
  /\ fill.next \in [1 .. Len(entries) -> Nat]
  /\ \A e \in 1 .. Len(entries) : \A i \in Slots :
       i < fill.next[e] => fill.table[Preference(entries[e], i)] # Unset

LEMMA SlotFacts ==
  /\ IsFiniteSet(Slots) /\ Cardinality(Slots) = TableSize
  /\ \A s \in Slots : s \in Nat /\ s < TableSize
  /\ \A b \in Backends : b \in Nat /\ b # Unset
<1>1. 0 \in Int /\ TableSize - 1 \in Int
  BY SizeFacts
<1>2. IsFiniteSet(Slots) /\ Cardinality(Slots) = TableSize
  BY <1>1, SizeFacts, FS_Interval DEF Slots
<1> QED
  BY <1>2, SizeFacts, NAssumption DEF Slots, Backends, Unset

(* A turn while there is a free slot: the entry finds one, and it is the   *)
(* only slot that changes.                                                 *)
LEMMA TakeFacts ==
  ASSUME Permutations, NEW S, S \subseteq Backends,
         NEW entries \in Seq(S), NEW e \in 1 .. Len(entries),
         NEW fill, GoodFill(S, entries, fill),
         NEW s \in Slots, fill.table[s] = Unset
  PROVE  /\ GoodFill(S, entries, Take(entries, fill, e))
         /\ \E p \in Slots :
              /\ fill.table[p] = Unset
              /\ Take(entries, fill, e).table = [fill.table EXCEPT ![p] = entries[e]]
<1> DEFINE b == entries[e]
           free == {j \in fill.next[e] .. (TableSize - 1) :
                      fill.table[Preference(b, j)] = Unset}
           j == CHOOSE i \in free : \A k \in free : i <= k
           p == Preference(b, j)
           taken == Take(entries, fill, e)
<1>1. b \in S /\ b \in Backends /\ b # Unset
  BY SlotFacts
<1>2. /\ fill.table \in [Slots -> S \cup {Unset}]
      /\ fill.next \in [1 .. Len(entries) -> Nat]
      /\ fill.next[e] \in Nat
      /\ \A i \in Slots : i < fill.next[e] => fill.table[Preference(b, i)] # Unset
  BY DEF GoodFill
<1>3. PICK x \in Slots : Preference(b, x) = s
  BY <1>1, PreferenceOnto
<1>4. x \in free
  BY <1>2, <1>3, SizeFacts DEF Slots
<1>5. free \subseteq Slots /\ free \subseteq Nat
  BY <1>2, SizeFacts DEF Slots
<1>6. j \in free /\ \A k \in free : j <= k
  BY <1>4, <1>5, Least
<1>7. /\ j \in Slots /\ j \in Nat /\ p \in Slots /\ fill.table[p] = Unset
  BY <1>1, <1>5, <1>6, PreferenceFacts
<1>8. taken = [table |-> [fill.table EXCEPT ![p] = b],
               next  |-> [fill.next EXCEPT ![e] = j + 1]]
  BY DEF Take
<1>9. \A i \in Slots : i <= j => i = j \/ fill.table[Preference(b, i)] # Unset
  <2> TAKE i \in Slots
  <2>1. i \in Nat /\ j \in Nat
    BY <1>7, SlotFacts
  <2>2. CASE fill.table[Preference(b, i)] = Unset
    <3>1. ~(i < fill.next[e])
      BY <1>2, <2>2
    <3>2. i \in fill.next[e] .. (TableSize - 1)
      BY <1>2, <2>1, <3>1, SizeFacts DEF Slots
    <3>3. i \in free
      BY <2>2, <3>2
    <3>4. j <= i
      BY <1>6, <3>3
    <3> HIDE DEF j
    <3> QED
      BY <2>1, <3>4
  <2> QED
    BY <2>2
<1> HIDE DEF j, free, p, taken
<1>10. taken.table = [fill.table EXCEPT ![p] = b] /\ taken.next = [fill.next EXCEPT ![e] = j + 1]
  BY <1>8
<1>11. /\ taken.table \in [Slots -> S \cup {Unset}]
       /\ taken.next \in [1 .. Len(entries) -> Nat]
       /\ taken.table[p] = b
       /\ \A q \in Slots : fill.table[q] # Unset => taken.table[q] # Unset
  BY <1>1, <1>2, <1>7, <1>10
<1>12. ASSUME NEW d \in 1 .. Len(entries), NEW i \in Slots, i < taken.next[d]
       PROVE  taken.table[Preference(entries[d], i)] # Unset
  <2>1. Preference(entries[d], i) \in Slots
    <3>1. entries[d] \in Backends /\ i \in Nat
      BY SlotFacts
    <3> QED
      BY <3>1, PreferenceFacts
  <2>2. CASE d # e
    <3>1. taken.next[d] = fill.next[d]
      BY <1>2, <1>10, <2>2
    <3>2. fill.table[Preference(entries[d], i)] # Unset
      BY <1>12, <3>1 DEF GoodFill
    <3> QED
      BY <1>11, <2>1, <3>2
  <2>3. CASE d = e
    <3>1. taken.next[d] = j + 1
      BY <1>2, <1>10, <2>3
    <3>2. i <= j
      BY <1>7, <1>12, <3>1, SlotFacts
    <3>3. i = j => taken.table[Preference(b, i)] # Unset
      BY <1>1, <1>11 DEF p
    <3> QED
      BY <1>9, <1>11, <2>1, <2>3, <3>2, <3>3
  <2> QED
    BY <2>2, <2>3
<1>13. GoodFill(S, entries, taken)
  BY <1>11, <1>12 DEF GoodFill
<1> QED
  BY <1>7, <1>10, <1>13 DEF taken

(* The recursion of populate_table obeys its definition. *)
FillStep(entries, g, t) ==
  IF t = 0
  THEN [table |-> [s \in Slots |-> Unset], next |-> [e \in DOMAIN entries |-> 0]]
  ELSE Take(entries, g[t - 1], TurnOf(entries, t - 1))

LEMMA FillingDef ==
  ASSUME NEW entries
  PROVE  \A t \in 0 .. TableSize : Filling(entries)[t] = FillStep(entries, Filling(entries), t)
<1> DEFINE T == {m \in Nat : \E g : g = [t \in 0 .. m |-> FillStep(entries, g, t)]}
<1>1. 0 \in T
  <2> DEFINE g == [t \in 0 .. 0 |-> FillStep(entries, << >>, 0)]
  <2>1. g = [t \in 0 .. 0 |-> FillStep(entries, g, t)]
    BY DEF FillStep
  <2> QED
    BY <2>1
<1>2. ASSUME NEW m \in T \cap Nat
      PROVE  m + 1 \in T
  <2>1. PICK g : g = [t \in 0 .. m |-> FillStep(entries, g, t)]
    OBVIOUS
  <2> DEFINE h == [t \in 0 .. (m + 1) |-> IF t <= m THEN g[t] ELSE FillStep(entries, g, t)]
  <2>2. ASSUME NEW t \in 0 .. (m + 1)
        PROVE  h[t] = FillStep(entries, h, t)
    <3>1. h[t] = FillStep(entries, g, t)
      BY <2>1
    <3>2. CASE t = 0
      BY <3>1, <3>2 DEF FillStep
    <3>3. CASE t # 0
      <4>1. t - 1 \in 0 .. (m + 1) /\ t - 1 <= m
        BY <3>3
      <4>2. h[t - 1] = g[t - 1]
        BY <4>1
      <4> HIDE DEF h
      <4> QED
        BY <3>1, <3>3, <4>2 DEF FillStep
    <3> QED
      BY <3>2, <3>3
  <2>3. h = [t \in 0 .. (m + 1) |-> h[t]]
    OBVIOUS
  <2> HIDE DEF h
  <2>4. h = [t \in 0 .. (m + 1) |-> FillStep(entries, h, t)]
    BY <2>2, <2>3
  <2> QED
    BY <2>4
<1>3. PICK g : g = [t \in 0 .. TableSize |-> FillStep(entries, g, t)]
  <2> HIDE DEF T
  <2>1. TableSize \in T
    BY <1>1, <1>2, SetInduction, SizeFacts
  <2> QED
    BY <2>1 DEF T
<1>4. g = [t \in 0 .. TableSize |->
             IF t = 0
             THEN [table |-> [s \in Slots |-> Unset], next |-> [e \in DOMAIN entries |-> 0]]
             ELSE Take(entries, g[t - 1], TurnOf(entries, t - 1))]
  BY <1>3 DEF FillStep
<1>5. Filling(entries) =
        [t \in 0 .. TableSize |->
             IF t = 0
             THEN [table |-> [s \in Slots |-> Unset], next |-> [e \in DOMAIN entries |-> 0]]
             ELSE Take(entries, Filling(entries)[t - 1], TurnOf(entries, t - 1))]
  BY <1>4 DEF Filling
<1> QED
  BY <1>5 DEF FillStep

(* One more slot gets a backend: one more is filled, and owned by it. *)
LEMMA OneMore ==
  ASSUME NEW S, S \subseteq Backends, NEW t \in [Slots -> S \cup {Unset}],
         NEW p \in Slots, t[p] = Unset, NEW c \in S,
         NEW u, u[p] = c, \A q \in Slots \ {p} : u[q] = t[q]
  PROVE  /\ Cardinality(Filled(u)) = Cardinality(Filled(t)) + 1
         /\ \A b \in S : /\ Cardinality(Owned(t, b)) \in Nat
                         /\ Cardinality(Owned(u, b)) =
                              Cardinality(Owned(t, b)) + (IF b = c THEN 1 ELSE 0)
<1>1. c # Unset
  BY SlotFacts
<1>2. Filled(t) \in SUBSET Slots /\ Filled(u) = Filled(t) \cup {p} /\ p \notin Filled(t)
  BY <1>1 DEF Filled
<1>3. Cardinality(Filled(u)) = Cardinality(Filled(t)) + 1
  <2>1. IsFiniteSet(Filled(t))
    BY <1>2, SlotFacts, FS_Subset
  <2> QED
    BY <1>2, <2>1, FS_AddElement
<1>4. ASSUME NEW b \in S
      PROVE  /\ Cardinality(Owned(t, b)) \in Nat
             /\ Cardinality(Owned(u, b)) =
                  Cardinality(Owned(t, b)) + (IF b = c THEN 1 ELSE 0)
  <2>1. b # Unset
    BY SlotFacts
  <2>2. Owned(t, b) \in SUBSET Slots /\ p \notin Owned(t, b)
    BY <2>1 DEF Owned
  <2>3. IsFiniteSet(Owned(t, b)) /\ Cardinality(Owned(t, b)) \in Nat
    BY <2>2, SlotFacts, FS_Subset, FS_CardinalityType
  <2>4. CASE b = c
    <3>1. Owned(u, b) = Owned(t, b) \cup {p}
      BY <2>4 DEF Owned
    <3>2. Cardinality(Owned(t, b) \cup {p}) = Cardinality(Owned(t, b)) + 1
      BY <2>2, <2>3, FS_AddElement
    <3> QED
      BY <2>3, <2>4, <3>1, <3>2
  <2>5. CASE b # c
    <3>1. Owned(u, b) = Owned(t, b)
      BY <2>1, <2>5 DEF Owned
    <3> QED
      BY <2>3, <2>5, <3>1
  <2> QED
    BY <2>4, <2>5
<1> QED
  BY <1>3, <1>4

(* How often a block of r of n entries, the first after lo, has had its    *)
(* turn after t turns: r times in every round, and in the last one as far  *)
(* as the round has come.                                                  *)
Share(t, n, lo, r) ==
  r * (t \div n) + (IF t % n <= lo THEN 0 ELSE IF t % n >= lo + r THEN r ELSE (t % n) - lo)

LEMMA ShareFacts ==
  ASSUME NEW t \in Nat, NEW n \in Nat \ {0}, NEW lo \in Nat, NEW r \in Nat \ {0}, lo + r <= n
  PROVE  /\ Share(0, n, lo, r) = 0
         /\ Share(t + 1, n, lo, r) =
              Share(t, n, lo, r)
                + (IF lo < (t % n) + 1 /\ (t % n) + 1 <= lo + r THEN 1 ELSE 0)
         /\ r * (t \div n) <= Share(t, n, lo, r)
         /\ Share(t, n, lo, r) <= r * ((t \div n) + 1)
<1> DEFINE q == t \div n
           m == t % n
<1>1. q \in Nat /\ m \in Nat /\ m < n /\ t = n * q + m
  BY DivMod
<1>2. r * q \in Nat /\ r * (q + 1) = r * q + r /\ r * 0 = 0
  BY <1>1
<1>3. (n * 0 + 0) % n = 0 /\ (n * 0 + 0) \div n = 0 /\ n * 0 + 0 = 0
  BY ModUnique
<1>4. Share(0, n, lo, r) = 0
  BY <1>2, <1>3 DEF Share
<1>5. Share(t, n, lo, r) = r * q + (IF m <= lo THEN 0 ELSE IF m >= lo + r THEN r ELSE m - lo)
  BY DEF Share
<1>6. CASE m = n - 1
  <2>1. t + 1 = n * (q + 1) + 0 /\ q + 1 \in Nat /\ 0 \in 0 .. (n - 1)
    <3> HIDE DEF q, m
    <3>1. n * (q + 1) = n * q + n
      BY <1>1
    <3> QED
      BY <1>1, <1>6, <3>1
  <2> HIDE DEF q, m
  <2>2. (t + 1) % n = 0 /\ (t + 1) \div n = q + 1
    <3>1. (n * (q + 1) + 0) % n = 0 /\ (n * (q + 1) + 0) \div n = q + 1
      BY <2>1, ModUnique
    <3> QED
      BY <2>1, <3>1
  <2>3. Share(t + 1, n, lo, r) =
          r * (q + 1) + (IF 0 <= lo THEN 0 ELSE IF 0 >= lo + r THEN r ELSE 0 - lo)
    BY <2>2 DEF Share
  <2>4. Share(t + 1, n, lo, r) =
          Share(t, n, lo, r) + (IF lo < m + 1 /\ m + 1 <= lo + r THEN 1 ELSE 0)
    BY <1>1, <1>2, <1>5, <1>6, <2>3
  <2> QED
    BY <1>1, <1>2, <1>4, <1>5, <2>4 DEF q, m
<1>7. CASE m # n - 1
  <2>1. t + 1 = n * q + (m + 1) /\ m + 1 \in 0 .. (n - 1)
    BY <1>1, <1>7
  <2> HIDE DEF q, m
  <2>2. (t + 1) % n = m + 1 /\ (t + 1) \div n = q
    <3>1. (n * q + (m + 1)) % n = m + 1 /\ (n * q + (m + 1)) \div n = q
      BY <1>1, <2>1, ModUnique
    <3> QED
      BY <2>1, <3>1
  <2>3. Share(t + 1, n, lo, r) =
          r * q + (IF m + 1 <= lo THEN 0 ELSE IF m + 1 >= lo + r THEN r ELSE (m + 1) - lo)
    BY <2>2 DEF Share
  <2>4. Share(t + 1, n, lo, r) =
          Share(t, n, lo, r) + (IF lo < m + 1 /\ m + 1 <= lo + r THEN 1 ELSE 0)
    BY <1>1, <1>2, <1>5, <2>3
  <2> QED
    BY <1>1, <1>2, <1>4, <1>5, <2>4 DEF q, m
<1> QED
  BY <1>6, <1>7

-----------------------------------------------------------------------------
(* After t turns t slots are filled, all by the entry whose turn it was.   *)
FillInv(S, entries, t) ==
  LET fill == Filling(entries)[t] IN
  /\ GoodFill(S, entries, fill)
  /\ Cardinality(Filled(fill.table)) = t

LEMMA FillNext ==
  ASSUME Permutations, NEW S, S \subseteq Backends,
         NEW entries \in Seq(S), Len(entries) # 0,
         NEW t \in Nat, t < TableSize, FillInv(S, entries, t)
  PROVE  /\ FillInv(S, entries, t + 1)
         /\ \A b \in S :
              /\ Cardinality(Owned(Filling(entries)[t].table, b)) \in Nat
              /\ Cardinality(Owned(Filling(entries)[t + 1].table, b)) =
                   Cardinality(Owned(Filling(entries)[t].table, b))
                     + (IF b = entries[TurnOf(entries, t)] THEN 1 ELSE 0)
<1> DEFINE fill == Filling(entries)[t]
           next == Filling(entries)[t + 1]
           n == Len(entries)
           e == TurnOf(entries, t)
<1>1. GoodFill(S, entries, fill) /\ Cardinality(Filled(fill.table)) = t
  BY DEF FillInv
<1>2. e \in 1 .. n /\ entries[e] \in S
  <2>1. n \in Nat \ {0}
    OBVIOUS
  <2>2. t % n \in 0 .. (n - 1)
    BY <2>1, DivMod
  <2>3. e = (t % n) + 1
    BY DEF TurnOf
  <2> HIDE DEF e, n
  <2>4. e \in 1 .. n
    BY <2>1, <2>2, <2>3
  <2> QED
    BY <2>4 DEF n
<1>3. next = Take(entries, fill, e)
  <2>1. t + 1 \in 0 .. TableSize /\ t + 1 # 0 /\ (t + 1) - 1 = t
    BY SizeFacts
  <2> QED
    BY <2>1, FillingDef DEF FillStep
<1>4. PICK s \in Slots : fill.table[s] = Unset
  <2> SUFFICES ASSUME \A s \in Slots : fill.table[s] # Unset PROVE FALSE
    OBVIOUS
  <2>1. Filled(fill.table) = Slots
    BY DEF Filled
  <2> QED
    BY <1>1, <2>1, SlotFacts, SizeFacts
<1> HIDE DEF fill, next, e
<1>5. GoodFill(S, entries, next)
  BY <1>1, <1>2, <1>3, <1>4, TakeFacts
<1>6. PICK p \in Slots : /\ fill.table[p] = Unset
                         /\ next.table = [fill.table EXCEPT ![p] = entries[e]]
  <2>1. \E p \in Slots :
          /\ fill.table[p] = Unset
          /\ Take(entries, fill, e).table = [fill.table EXCEPT ![p] = entries[e]]
    BY <1>1, <1>2, <1>4, TakeFacts
  <2> QED
    BY <1>3, <2>1
<1>7. fill.table \in [Slots -> S \cup {Unset}]
  BY <1>1 DEF GoodFill
<1>8. /\ Cardinality(Filled(next.table)) = t + 1
      /\ \A b \in S : /\ Cardinality(Owned(fill.table, b)) \in Nat
                      /\ Cardinality(Owned(next.table, b)) =
                           Cardinality(Owned(fill.table, b)) + (IF b = entries[e] THEN 1 ELSE 0)
  <2> DEFINE f == fill.table
             c == entries[e]
             u == [f EXCEPT ![p] = c]
  <2>1. f \in [Slots -> S \cup {Unset}] /\ f[p] = Unset /\ c \in S
    BY <1>2, <1>6, <1>7
  <2> HIDE DEF f, c
  <2>2. u[p] = c /\ \A q \in Slots \ {p} : u[q] = f[q]
    BY <2>1
  <2> HIDE DEF u
  <2>3. /\ Cardinality(Filled(u)) = Cardinality(Filled(f)) + 1
        /\ \A b \in S : /\ Cardinality(Owned(f, b)) \in Nat
                        /\ Cardinality(Owned(u, b)) =
                             Cardinality(Owned(f, b)) + (IF b = c THEN 1 ELSE 0)
    BY <2>1, <2>2, OneMore
  <2>4. next.table = u
    BY <1>6 DEF f, c, u
  <2> QED
    BY <1>1, <2>3, <2>4 DEF f, c
<1> QED
  BY <1>5, <1>8 DEF FillInv, fill, next, e

LEMMA FillStart ==
  ASSUME NEW S, NEW entries \in Seq(S)
  PROVE  /\ FillInv(S, entries, 0)
         /\ \A b \in Backends : Cardinality(Owned(Filling(entries)[0].table, b)) = 0
<1> DEFINE fill == Filling(entries)[0]
<1>1. fill = [table |-> [s \in Slots |-> Unset], next |-> [e \in DOMAIN entries |-> 0]]
  <2>1. 0 \in 0 .. TableSize
    BY SizeFacts
  <2> QED
    BY <2>1, FillingDef DEF FillStep
<1>2. /\ fill.table = [s \in Slots |-> Unset]
      /\ fill.next = [e \in 1 .. Len(entries) |-> 0]
  BY <1>1
<1>3. GoodFill(S, entries, fill)
  BY <1>2, SlotFacts DEF GoodFill
<1>4. Filled(fill.table) = {} /\ \A b \in Backends : Owned(fill.table, b) = {}
  BY <1>2, SlotFacts DEF Filled, Owned
<1> QED
  BY <1>3, <1>4, FS_EmptySet DEF FillInv

(* The table is full in the end, and every backend of the entries has the  *)
(* share of its block.                                                     *)
LEMMA PopulateFacts ==
  ASSUME Permutations, NEW S, S \subseteq Backends,
         NEW entries \in Seq(S), Len(entries) # 0
  PROVE  /\ Populate(entries) \in [Slots -> S]
         /\ \A b \in S, lo \in Nat, r \in Nat \ {0} :
              /\ lo + r <= Len(entries)
              /\ \A e \in 1 .. Len(entries) : entries[e] = b <=> lo < e /\ e <= lo + r
              => Cardinality(Owned(Populate(entries), b)) = Share(TableSize, Len(entries), lo, r)
<1> DEFINE T == {t \in Nat : t <= TableSize => FillInv(S, entries, t)}
<1>1. 0 \in T
  BY FillStart
<1>2. ASSUME NEW t \in T \cap Nat
      PROVE  t + 1 \in T
  BY FillNext, SizeFacts
<1>3. ASSUME NEW t \in Nat, t <= TableSize
      PROVE  FillInv(S, entries, t)
  <2> HIDE DEF T
  <2>1. t \in T
    BY <1>1, <1>2, SetInduction
  <2> QED
    BY <1>3, <2>1 DEF T
<1>4. Populate(entries) \in [Slots -> S]
  <2> DEFINE fill == Filling(entries)[TableSize]
  <2>1. GoodFill(S, entries, fill) /\ Cardinality(Filled(fill.table)) = TableSize
    BY <1>3, SizeFacts DEF FillInv
  <2>2. Filled(fill.table) \in SUBSET Slots
    BY DEF Filled
  <2>3. Filled(fill.table) = Slots
    BY <2>1, <2>2, SlotFacts, FS_Subset
  <2>4. fill.table \in [Slots -> S \cup {Unset}] /\ \A s \in Slots : fill.table[s] # Unset
    BY <2>1, <2>3 DEF GoodFill, Filled
  <2> HIDE DEF fill
  <2>5. fill.table \in [Slots -> S]
    BY <2>4
  <2> QED
    BY <2>5 DEF Populate, fill
<1>5. ASSUME NEW b \in S, NEW lo \in Nat, NEW r \in Nat \ {0}, lo + r <= Len(entries),
             \A e \in 1 .. Len(entries) : entries[e] = b <=> lo < e /\ e <= lo + r
      PROVE  Cardinality(Owned(Populate(entries), b)) = Share(TableSize, Len(entries), lo, r)
  <2> DEFINE n == Len(entries)
             Count(t) == Cardinality(Owned(Filling(entries)[t].table, b))
             U == {t \in Nat : t <= TableSize => Count(t) = Share(t, n, lo, r)}
  <2>1. n \in Nat \ {0} /\ lo + r <= n
    BY <1>5
  <2>2. 0 \in U
    BY <2>1, FillStart, ShareFacts
  <2>3. ASSUME NEW t \in U \cap Nat
        PROVE  t + 1 \in U
    <3> SUFFICES ASSUME t + 1 <= TableSize PROVE Count(t + 1) = Share(t + 1, n, lo, r)
      OBVIOUS
    <3>1. t < TableSize /\ t <= TableSize /\ Count(t) = Share(t, n, lo, r)
      BY SizeFacts
    <3>2. Count(t + 1) = Count(t) + (IF b = entries[TurnOf(entries, t)] THEN 1 ELSE 0)
      BY <1>3, <3>1, FillNext
    <3>3. TurnOf(entries, t) = (t % n) + 1 /\ (t % n) + 1 \in 1 .. n
      <4>1. t % n \in 0 .. (n - 1)
        BY <2>1, DivMod
      <4> HIDE DEF n
      <4> QED
        BY <2>1, <4>1 DEF TurnOf, n
    <3>4. b = entries[TurnOf(entries, t)] <=> lo < (t % n) + 1 /\ (t % n) + 1 <= lo + r
      BY <1>5, <3>3
    <3>5. Share(t + 1, n, lo, r) =
            Share(t, n, lo, r) + (IF lo < (t % n) + 1 /\ (t % n) + 1 <= lo + r THEN 1 ELSE 0)
      <4>1. t \in Nat
        OBVIOUS
      <4> HIDE DEF n, U
      <4> QED
        BY <2>1, <4>1, ShareFacts
    <3> HIDE DEF Count, n
    <3> QED
      BY <3>1, <3>2, <3>4, <3>5
  <2>4. Count(TableSize) = Share(TableSize, n, lo, r)
    <3> HIDE DEF U
    <3>1. TableSize \in U
      BY <2>2, <2>3, SetInduction, SizeFacts
    <3> QED
      BY <3>1, SizeFacts DEF U
  <2> QED
    BY <2>4 DEF Populate
<1> QED
  BY <1>4, <1>5

-----------------------------------------------------------------------------
(* What rebuild_table makes for the backends of S: a table that is         *)
(* complete, owned by them, and balanced.                                  *)
GoodTable(t, S) ==
  LET n == Len(Entries(S)) IN
  /\ t \in IF S = {} THEN {<< >>} ELSE [Slots -> S]
  /\ \A b \in S :
       /\ Cardinality(Owned(t, b)) >= Repetitions(b, S) * (TableSize \div n)
       /\ Cardinality(Owned(t, b)) <= Repetitions(b, S) * (TableSize \div n + 1)

LEMMA TableFacts ==
  ASSUME Permutations, NEW S, S \subseteq Backends
  PROVE  GoodTable(TableOf(S), S)
<1> DEFINE t == TableOf(S)
           n == Len(Entries(S))
<1>1. CASE S = {}
  BY <1>1 DEF TableOf, GoodTable
<1>2. CASE S # {}
  <2>1. t = Populate(Entries(S))
    BY <1>2 DEF TableOf
  <2>2. Entries(S) \in Seq(S) /\ n \in Nat \ {0}
    BY <1>2, EntriesFacts
  <2>3. t \in [Slots -> S]
    BY <2>1, <2>2, PopulateFacts
  <2>4. ASSUME NEW b \in S
        PROVE  /\ Cardinality(Owned(t, b)) >= Repetitions(b, S) * (TableSize \div n)
               /\ Cardinality(Owned(t, b)) <= Repetitions(b, S) * (TableSize \div n + 1)
    <3> DEFINE r == Repetitions(b, S)
    <3>1. r \in Nat \ {0}
      BY RepetitionsFacts
    <3>2. PICK lo \in Nat :
            /\ lo + r <= n
            /\ \A e \in 1 .. n : Entries(S)[e] = b <=> lo < e /\ e <= lo + r
      BY <1>2, EntriesFacts
    <3>3. Cardinality(Owned(t, b)) = Share(TableSize, n, lo, r)
      <4> HIDE DEF r
      <4>1. Cardinality(Owned(Populate(Entries(S)), b)) = Share(TableSize, n, lo, r)
        BY <2>2, <3>1, <3>2, PopulateFacts
      <4> QED
        BY <2>1, <4>1
    <3> HIDE DEF r, n, t
    <3>4. /\ r * (TableSize \div n) <= Share(TableSize, n, lo, r)
          /\ Share(TableSize, n, lo, r) <= r * ((TableSize \div n) + 1)
      BY <2>2, <3>1, <3>2, SizeFacts, ShareFacts
    <3> QED
      BY <2>2, <3>1, <3>3, <3>4, SizeFacts, DivMod DEF r
  <2> QED
    BY <1>2, <2>3, <2>4 DEF GoodTable
<1> QED
  BY <1>1, <1>2

(* The inductive invariant. *)
Rebuilt ==
  /\ Permutations
  /\ up \subseteq Backends
  /\ GoodTable(table, up)

THEOREM AlwaysRebuilt == Spec => []Rebuilt
<1>1. Init => Rebuilt
  <2> SUFFICES ASSUME Init PROVE Rebuilt
    OBVIOUS
  <2>1. Permutations /\ up = Backends /\ table = TableOf(Backends)
    BY DEF Init, Permutations
  <2> QED
    BY <2>1, TableFacts DEF Rebuilt
<1>2. Rebuilt /\ [Next]_vars => Rebuilt'
  <2> SUFFICES ASSUME Rebuilt, [Next]_vars PROVE Rebuilt'
    OBVIOUS
  <2>1. ASSUME NEW b \in Backends, Fail(b)
        PROVE  Rebuilt'
    <3>1. Permutations' /\ up' \subseteq Backends
      BY <2>1 DEF Fail, Rebuilt, Permutations
    <3>2. GoodTable(table', up')
      BY <2>1, <3>1, TableFacts DEF Fail, Rebuilt
    <3> QED
      BY <3>1, <3>2 DEF Rebuilt
  <2>2. CASE UNCHANGED vars
    BY <2>2 DEF vars, Rebuilt, Permutations
  <2> QED
    BY <2>1, <2>2 DEF Next
<1> QED
  BY <1>1, <1>2, PTL DEF Spec

(* The table is complete and owned by backends that are up: no lookup      *)
(* meets a slot that is unset, whatever the weights and the hashes.        *)
THEOREM TypeCorrect == Spec => []TypeOK
<1>1. Rebuilt => TypeOK
  BY DEF Rebuilt, Permutations, GoodTable, TypeOK
<1> QED
  BY <1>1, AlwaysRebuilt, PTL

(* Every backend that is up owns its repetitions' share of the slots, up   *)
(* to the last, unfinished round.                                          *)
THEOREM EverBalanced == Spec => []Balanced
<1>1. Rebuilt => Balanced
  <2> SUFFICES ASSUME Rebuilt, NEW b \in up PROVE SlotsOf(b) = Owned(table, b)
    BY DEF Rebuilt, GoodTable, Balanced
  <2>1. table \in [Slots -> up]
    BY DEF Rebuilt, GoodTable
  <2> QED
    BY <2>1 DEF SlotsOf, Owned
<1> QED
  BY <1>1, AlwaysRebuilt, PTL
=============================================================================
