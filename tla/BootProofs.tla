----------------------------- MODULE BootProofs ----------------------------
(***************************************************************************)
(* Proofs about Boot and BootMap, for every memory, kernel image and       *)
(* firmware: what the loader hands over, that compacting the map in place  *)
(* keeps what it says, and which pages the page allocator is given.        *)
(***************************************************************************)
EXTENDS Boot, TLAPS, FiniteSetTheorems, WellFoundedInduction

-----------------------------------------------------------------------------
(* Numbers. *)

LEMMA Lowest ==
  ASSUME NEW S \in SUBSET Nat, NEW n \in S
  PROVE  \E l \in S : \A m \in S : l <= m
<1> DEFINE R == OpToRel(<, Nat)
<1>1. IsWellFoundedOn(R, Nat)
  BY NatLessThanWellFounded
<1>2. \A x, y \in Nat : <<x, y>> \in R <=> x < y
  BY DEF OpToRel
<1> HIDE DEF R
<1>3. PICK l \in S : \A m \in S : ~ (<<m, l>> \in R)
  BY <1>1, WFMin
<1>4. \A m \in S : ~ (m < l)
  BY <1>2, <1>3
<1> QED
  BY <1>3, <1>4

LEMMA Highest ==
  ASSUME NEW S \in SUBSET Nat, NEW n \in S, NEW b \in Nat, \A m \in S : m <= b
  PROVE  \E h \in S : \A m \in S : m <= h
<1> DEFINE T == {b - m : m \in S}
<1>1. T \in SUBSET Nat /\ b - n \in T
  OBVIOUS
<1>2. PICK l \in T : \A m \in T : l <= m
  BY <1>1, Lowest
<1>3. PICK h \in S : l = b - h
  BY <1>2
<1>4. \A m \in S : b - m \in T
  OBVIOUS
<1>5. \A m \in S : b - h <= b - m
  BY <1>2, <1>3, <1>4
<1>6. \A m \in S : m \in Nat /\ h \in Nat
  OBVIOUS
<1> QED
  BY <1>5, <1>6

\* A whole number of pages, divided by the page.
LEMMA Whole ==
  ASSUME NEW n \in Nat
  PROVE  n * PageSize \in Nat /\ (n * PageSize) \div PageSize = n
<1>1. PageSize \in Nat \ {0}
  BY BootMapAssumption
<1>2. n * PageSize \in Nat
  BY <1>1
<1>3. \A x \in Nat, s \in Nat \ {0} : x = n * s => x \div s = n
  OBVIOUS
<1> QED
  BY <1>1, <1>2, <1>3

-----------------------------------------------------------------------------
(* The firmware's map. *)

Desc == [type : Types, start : Nat, npages : Nat]

\* The pages a descriptor describes.
Covered(d) == (d.start \div PageSize) .. (d.start \div PageSize + d.npages - 1)

\* The descriptors of m say of every page what the firmware does, once.
Tells(m) ==
  /\ \A i \in DOMAIN m : m[i].npages # 0 /\ m[i].start = (m[i].start \div PageSize) * PageSize
  /\ \A i \in DOMAIN m : \A p \in Covered(m[i]) : p \in Ram /\ owner[p] = m[i].type
  /\ \A p \in Ram : owner[p] # "none" => \E i \in DOMAIN m : p \in Covered(m[i])
  /\ \A i, j \in DOMAIN m : Covered(m[i]) \cap Covered(m[j]) # {} => i = j

OwnerOK == owner \in [Ram -> Kinds]

\* q is the last page of the run that p is in.
EndsAt(p, q) ==
  /\ q \in Ram /\ q >= p /\ \A r \in p .. q : owner[r] = owner[p]
  /\ q + 1 \in Ram => owner[q + 1] # owner[p]

LEMMA RamNat == Ram \subseteq Nat /\ IsFiniteSet(Ram) /\ RamPages \in Nat
BY BootAssumption, FS_Interval DEF Ram

LEMMA RunEnds ==
  ASSUME NEW p \in Ram
  PROVE  \E q \in Ram : /\ RunAt(p) = [type |-> owner[p], start |-> p * PageSize, npages |-> q - p + 1]
                        /\ EndsAt(p, q)
<1> DEFINE S == {q \in Ram : q >= p /\ \A r \in p .. q : owner[r] = owner[p]}
<1>1. p \in S /\ S \in SUBSET Nat /\ RamPages \in Nat /\ \A m \in S : m <= RamPages
  <2>1. RamPages \in Nat /\ Ram \subseteq Nat /\ \A m \in Ram : m <= RamPages
    BY RamNat DEF Ram
  <2>2. S \subseteq Ram
    OBVIOUS
  <2>3. p \in S
    BY <2>1
  <2> HIDE DEF S
  <2> QED
    BY <2>1, <2>2, <2>3
<1>2. PICK h \in S : \A m \in S : m <= h
  BY <1>1, Highest
<1>3. h + 1 \in Ram => owner[h + 1] # owner[p]
  <2> SUFFICES ASSUME h + 1 \in Ram, owner[h + 1] = owner[p] PROVE FALSE
    OBVIOUS
  <2>1. \A r \in p .. h + 1 : owner[r] = owner[p]
    BY <1>1, RamNat
  <2>2. h + 1 \in S
    BY <2>1, RamNat
  <2> QED
    BY <1>1, <1>2, <2>2
<1>4. EndsAt(p, h)
  BY <1>3 DEF EndsAt
<1> HIDE DEF S
<1> DEFINE last == CHOOSE q \in Ram : /\ q >= p /\ \A r \in p .. q : owner[r] = owner[p]
                                      /\ q + 1 \in Ram => owner[q + 1] # owner[p]
<1>5. last \in Ram /\ EndsAt(p, last)
  BY <1>4, Zenon DEF EndsAt
<1>6. RunAt(p) = [type |-> owner[p], start |-> p * PageSize, npages |-> last - p + 1]
  BY Zenon DEF RunAt
<1> HIDE DEF last
<1> QED
  BY <1>5, <1>6

\* How many runs begin before p.
Rank(p) == Cardinality({q \in Starts : q < p})

LEMMA Ranks ==
  /\ Cardinality(Starts) \in Nat
  /\ \A p \in Starts : Rank(p) \in 0 .. Cardinality(Starts) - 1
  /\ \A p, q \in Starts : Rank(p) = Rank(q) => p = q
  /\ \A n \in 0 .. Cardinality(Starts) - 1 : \E p \in Starts : Rank(p) = n
<1> DEFINE N == Cardinality(Starts)
           Before(p) == {q \in Starts : q < p}
<1>1. Starts \subseteq Nat /\ IsFiniteSet(Starts)
  BY RamNat, FS_Subset DEF Starts
<1>2. N \in Nat
  BY <1>1, FS_CardinalityType
<1>3. \A p \in Starts : Before(p) \subseteq Starts /\ Before(p) # Starts
  BY <1>1
<1>4. \A p \in Starts : IsFiniteSet(Before(p)) /\ Cardinality(Before(p)) \in Nat
                        /\ Cardinality(Before(p)) < N
  <2> TAKE p \in Starts
  <2>1. Before(p) \subseteq Starts /\ Before(p) # Starts
    BY <1>3
  <2> HIDE DEF Before
  <2>2. IsFiniteSet(Before(p)) /\ Cardinality(Before(p)) <= N
    BY <1>1, <2>1, FS_Subset
  <2>3. Cardinality(Before(p)) # N
    BY <1>1, <2>1, FS_Subset
  <2>4. Cardinality(Before(p)) \in Nat
    BY <2>2, FS_CardinalityType
  <2> QED
    BY <1>2, <2>2, <2>3, <2>4
<1>5. \A p, q \in Starts : p < q => Cardinality(Before(p)) < Cardinality(Before(q))
  <2> TAKE p, q \in Starts
  <2> HAVE p < q
  <2>1. Before(p) \subseteq Before(q) /\ p \in Before(q) /\ p \notin Before(p)
    <3>1. p \in Nat /\ q \in Nat /\ p < q /\ \A r \in Starts : r \in Nat
      BY <1>1
    <3>2. \A r \in Starts : r < p => r < q
      BY <3>1
    <3>3. p \in Before(q) /\ p \notin Before(p)
      BY <3>1
    <3>4. Before(p) \subseteq Before(q)
      BY <3>2
    <3> QED
      BY <3>3, <3>4
  <2>2. IsFiniteSet(Before(q)) /\ Cardinality(Before(q)) \in Nat /\ Cardinality(Before(p)) \in Nat
    BY <1>4
  <2>3. Before(p) # Before(q)
    BY <2>1
  <2> HIDE DEF Before
  <2>4. Cardinality(Before(p)) <= Cardinality(Before(q))
    BY <2>1, <2>2, FS_Subset
  <2>5. Cardinality(Before(p)) # Cardinality(Before(q))
    BY <2>1, <2>2, <2>3, FS_Subset
  <2> QED
    BY <2>2, <2>4, <2>5
<1>6. \A p \in Starts : Rank(p) = Cardinality(Before(p))
  BY DEF Rank
<1> HIDE DEF Before
<1>7. \A p \in Starts : Rank(p) \in 0 .. N - 1
  BY <1>2, <1>4, <1>6
<1>8. \A p, q \in Starts : Rank(p) = Rank(q) => p = q
  BY <1>1, <1>4, <1>5, <1>6
<1> DEFINE f == [p \in Starts |-> Rank(p)]
<1>9. f \in Injection(Starts, 0 .. N - 1)
  BY <1>7, <1>8, Zenon DEF Injection, IsInjective
<1>10. IsFiniteSet(0 .. N - 1) /\ Cardinality(0 .. N - 1) = N
  <2>1. PICK c \in Nat : c = N
    BY <1>2
  <2>2. IsFiniteSet(0 .. c - 1) /\ Cardinality(0 .. c - 1) = IF 0 > c - 1 THEN 0 ELSE c - 1 - 0 + 1
    BY FS_Interval
  <2>3. (IF 0 > c - 1 THEN 0 ELSE c - 1 - 0 + 1) = c
    OBVIOUS
  <2> QED
    BY <2>1, <2>2, <2>3, Zenon
<1>11. f \in Surjection(Starts, 0 .. N - 1)
  BY <1>1, <1>9, <1>10, FS_Injection
<1>12. \A n \in 0 .. N - 1 : \E p \in Starts : f[p] = n
  BY <1>11, Zenon DEF Surjection
<1> HIDE DEF N
<1> QED
  BY <1>2, <1>7, <1>8, <1>12 DEF N


\* The firmware's map has a descriptor for each run.
LEMMA MapRuns ==
  /\ DOMAIN FirmwareMap = 1 .. Cardinality(Starts)
  /\ \A i \in 1 .. Cardinality(Starts) :
       \E p \in Starts : Rank(p) = i - 1 /\ FirmwareMap[i] = RunAt(p)
  /\ \A p \in Starts : \E i \in 1 .. Cardinality(Starts) : FirmwareMap[i] = RunAt(p)
<1> DEFINE N == Cardinality(Starts)
           Of(i) == CHOOSE p \in Starts : Rank(p) = i - 1
<1>1. FirmwareMap = [i \in 1 .. N |-> RunAt(Of(i))]
  BY Zenon DEF FirmwareMap, Rank
<1>2. N \in Nat
  BY Ranks
<1>3. \A i \in 1 .. N : Of(i) \in Starts /\ Rank(Of(i)) = i - 1
  <2> TAKE i \in 1 .. N
  <2>1. i - 1 \in 0 .. N - 1
    BY <1>2
  <2>2. PICK n \in 0 .. N - 1 : n = i - 1
    BY <2>1
  <2>3. \E p \in Starts : Rank(p) = n
    BY Ranks
  <2>4. \E p \in Starts : Rank(p) = i - 1
    BY <2>2, <2>3, Zenon
  <2> QED
    BY <2>4, Zenon
<1>4. \A p \in Starts : \E i \in 1 .. N : FirmwareMap[i] = RunAt(p)
  <2> TAKE p \in Starts
  <2>1. PICK i \in 1 .. N : Rank(p) = i - 1
    <3>1. Rank(p) \in 0 .. N - 1
      BY Ranks
    <3>2. PICK n \in 0 .. N - 1 : n = Rank(p)
      BY <3>1
    <3>3. n + 1 \in 1 .. N /\ (n + 1) - 1 = n
      BY <1>2, <3>2
    <3> QED
      BY <3>2, <3>3
  <2>2. Rank(Of(i)) = Rank(p) /\ Of(i) \in Starts
    BY <1>3, <2>1
  <2> HIDE DEF Of
  <2>3. Of(i) = p
    BY <2>2, Ranks
  <2>4. FirmwareMap[i] = RunAt(Of(i))
    BY <1>1
  <2> QED
    BY <2>3, <2>4
<1> HIDE DEF Of
<1> QED
  BY <1>1, <1>3, <1>4

\* What the run that p is in covers.
LEMMA RunCovers ==
  ASSUME OwnerOK, NEW p \in Ram, NEW q, EndsAt(p, q), owner[p] # "none", NEW d,
         d = [type |-> owner[p], start |-> p * PageSize, npages |-> q - p + 1]
  PROVE  /\ d \in Desc /\ d.npages # 0 /\ d.type = owner[p]
         /\ d.start = (d.start \div PageSize) * PageSize
         /\ Covered(d) = p .. q
<1>1. p \in Nat /\ q \in Nat /\ p <= q
  BY RamNat DEF EndsAt
<1>2. p * PageSize \in Nat /\ (p * PageSize) \div PageSize = p
  BY <1>1, Whole
<1>3. d.start = p * PageSize /\ d.npages = q - p + 1 /\ d.type = owner[p]
  OBVIOUS
<1>4. d.start \div PageSize = p
  BY <1>2, <1>3
<1>5. d.type \in Types
  BY <1>3 DEF OwnerOK, Kinds
<1>6. d.npages \in Nat /\ d.npages # 0 /\ p + d.npages - 1 = q
  BY <1>1, <1>3
<1>7. d \in Desc
  BY <1>2, <1>3, <1>5, <1>6 DEF Desc
<1> QED
  BY <1>3, <1>4, <1>6, <1>7 DEF Covered

\* Every described page is in a run.
LEMMA RunOf ==
  ASSUME OwnerOK, NEW r \in Ram, owner[r] # "none"
  PROVE  \E p \in Starts : p <= r /\ \A x \in p .. r : owner[x] = owner[r]
<1> DEFINE S == {p \in Ram : p <= r /\ \A x \in p .. r : owner[x] = owner[r]}
<1>1. S \in SUBSET Nat /\ r \in S
  <2>1. r \in Nat /\ \A x \in r .. r : x = r
    BY RamNat
  <2>2. r <= r /\ \A x \in r .. r : owner[x] = owner[r]
    BY <2>1
  <2>3. S \in SUBSET Nat
    BY RamNat
  <2> QED
    BY <2>2, <2>3
<1>2. PICK p \in S : \A m \in S : p <= m
  BY <1>1, Lowest
<1>3. p \in Nat /\ r \in Nat /\ p <= r /\ owner[p] = owner[r]
  BY RamNat
<1>4. ASSUME p # 0, owner[p - 1] = owner[p] PROVE FALSE
  <2>1. p - 1 \in Ram
    BY <1>3, <1>4, RamNat DEF Ram
  <2>2. \A x \in p - 1 .. r : x = p - 1 \/ x \in p .. r
    BY <1>3
  <2>3. p - 1 \in S
    BY <1>3, <1>4, <2>1, <2>2
  <2> QED
    BY <1>2, <1>3, <2>3
<1>5. p \in Starts
  BY <1>3, <1>4 DEF Starts
<1> QED
  BY <1>3, <1>5

\* A run ends before the next begins.
LEMMA RunsApart ==
  ASSUME NEW p \in Starts, NEW q, EndsAt(p, q), NEW s \in Starts, p < s
  PROVE  q < s
<1>1. p \in Nat /\ s \in Nat /\ q \in Nat
  BY RamNat DEF Starts, EndsAt
<1>2. owner[s - 1] # owner[s]
  BY <1>1 DEF Starts
<1>3. ASSUME s <= q PROVE FALSE
  <2>1. s - 1 \in p .. q /\ s \in p .. q
    BY <1>1, <1>3
  <2> QED
    BY <1>2, <2>1 DEF EndsAt
<1> QED
  BY <1>1, <1>3

LEMMA MapTells ==
  ASSUME OwnerOK
  PROVE  FirmwareMap \in Seq(Desc) /\ Tells(FirmwareMap)
<1> DEFINE N == Cardinality(Starts)
           m == FirmwareMap
<1>1. N \in Nat /\ DOMAIN m = 1 .. N /\ m = [i \in 1 .. N |-> m[i]]
  BY Ranks, MapRuns DEF FirmwareMap
<1>2. \A i \in 1 .. N : \E p \in Starts, q \in Ram :
         /\ Rank(p) = i - 1 /\ EndsAt(p, q)
         /\ m[i] \in Desc /\ m[i].npages # 0 /\ m[i].type = owner[p]
         /\ m[i].start = (m[i].start \div PageSize) * PageSize
         /\ Covered(m[i]) = p .. q
  <2> TAKE i \in 1 .. N
  <2>1. PICK p \in Starts : Rank(p) = i - 1 /\ m[i] = RunAt(p)
    BY MapRuns
  <2>2. p \in Ram /\ owner[p] # "none"
    BY DEF Starts
  <2>3. PICK q \in Ram : /\ RunAt(p) = [type |-> owner[p], start |-> p * PageSize, npages |-> q - p + 1]
                         /\ EndsAt(p, q)
    BY <2>2, RunEnds
  <2> HIDE DEF m
  <2>4. m[i] = [type |-> owner[p], start |-> p * PageSize, npages |-> q - p + 1]
    BY <2>1, <2>3
  <2>5. /\ m[i] \in Desc /\ m[i].npages # 0 /\ m[i].type = owner[p]
        /\ m[i].start = (m[i].start \div PageSize) * PageSize
        /\ Covered(m[i]) = p .. q
    BY <2>2, <2>3, <2>4, RunCovers
  <2> QED
    BY <2>1, <2>3, <2>5
<1> HIDE DEF m, N
<1>3. m \in Seq(Desc)
  BY <1>1, <1>2
<1>4. \A i \in DOMAIN m : \A r \in Covered(m[i]) : r \in Ram /\ owner[r] = m[i].type
  <2> TAKE i \in DOMAIN m
  <2>1. PICK p \in Starts, q \in Ram :
           EndsAt(p, q) /\ m[i].type = owner[p] /\ Covered(m[i]) = p .. q
    BY <1>1, <1>2
  <2>2. p \in Ram
    BY DEF Starts
  <2>3. \A r \in p .. q : r \in Ram
    BY <2>2, RamNat DEF Ram
  <2> QED
    BY <2>1, <2>3 DEF EndsAt
<1>5. \A r \in Ram : owner[r] # "none" => \E i \in DOMAIN m : r \in Covered(m[i])
  <2> TAKE r \in Ram
  <2> HAVE owner[r] # "none"
  <2>1. PICK p \in Starts : p <= r /\ \A x \in p .. r : owner[x] = owner[r]
    BY RunOf
  <2>2. PICK i \in 1 .. N : m[i] = RunAt(p)
    BY MapRuns DEF m, N
  <2>3. p \in Ram /\ owner[p] # "none"
    BY DEF Starts
  <2>4. PICK q \in Ram : /\ RunAt(p) = [type |-> owner[p], start |-> p * PageSize, npages |-> q - p + 1]
                         /\ EndsAt(p, q)
    BY <2>3, RunEnds
  <2>5. m[i] = [type |-> owner[p], start |-> p * PageSize, npages |-> q - p + 1]
    BY <2>2, <2>4
  <2>6. Covered(m[i]) = p .. q
    BY <2>3, <2>4, <2>5, RunCovers
  <2>7. p \in Nat /\ q \in Nat /\ r \in Nat
    BY <2>3, RamNat
  <2>8. ASSUME q < r PROVE FALSE
    <3>1. q + 1 \in Ram
      BY <2>7, <2>8, RamNat DEF Ram
    <3>2. owner[q + 1] = owner[r] /\ owner[p] = owner[r]
      BY <2>1, <2>4, <2>7, <2>8 DEF EndsAt
    <3> QED
      BY <2>4, <3>1, <3>2 DEF EndsAt
  <2> QED
    BY <1>1, <2>1, <2>6, <2>7, <2>8
<1>6. \A i, j \in DOMAIN m : Covered(m[i]) \cap Covered(m[j]) # {} => i = j
  <2> SUFFICES ASSUME NEW i \in 1 .. N, NEW j \in 1 .. N, NEW r \in Covered(m[i]) \cap Covered(m[j])
               PROVE  i = j
    BY <1>1
  <2>1. PICK p \in Starts, q \in Ram :
           Rank(p) = i - 1 /\ EndsAt(p, q) /\ Covered(m[i]) = p .. q
    BY <1>2
  <2>2. PICK s \in Starts, t \in Ram :
           Rank(s) = j - 1 /\ EndsAt(s, t) /\ Covered(m[j]) = s .. t
    BY <1>2
  <2>3. p \in Nat /\ s \in Nat /\ q \in Nat /\ t \in Nat
    BY RamNat DEF Starts
  <2>4. p <= r /\ r <= q /\ s <= r /\ r <= t /\ r \in Int
    BY <2>1, <2>2
  <2>5. p < s => q < s
    BY <2>1, RunsApart
  <2>6. s < p => t < p
    BY <2>2, RunsApart
  <2>7. p = s
    BY <2>3, <2>4, <2>5, <2>6
  <2>8. i - 1 = j - 1
    BY <2>1, <2>2, <2>7
  <2> QED
    BY <1>1, <2>8
<1>7. \A i \in DOMAIN m : m[i].npages # 0 /\ m[i].start = (m[i].start \div PageSize) * PageSize
  BY <1>1, <1>2
<1> QED
  BY <1>3, <1>4, <1>5, <1>6, <1>7 DEF Tells, m


LEMMA ReverseTells ==
  ASSUME NEW m \in Seq(Desc), Tells(m)
  PROVE  Reverse(m) \in Seq(Desc) /\ Tells(Reverse(m))
<1> DEFINE w    == Reverse(m)
           n    == Len(m)
           At(i) == n - i + 1
<1>1. n \in Nat /\ DOMAIN m = 1 .. n /\ \A i \in 1 .. n : m[i] \in Desc
  OBVIOUS
<1>2. w = [i \in 1 .. n |-> m[At(i)]]
  BY DEF Reverse
<1>3. \A i \in 1 .. n : At(i) \in 1 .. n /\ At(At(i)) = i
  BY <1>1
<1> HIDE DEF w, n, At
<1>4. w \in Seq(Desc) /\ DOMAIN w = 1 .. n
  BY <1>1, <1>2, <1>3
<1>5. \A i \in 1 .. n : w[i] = m[At(i)]
  BY <1>2
<1>6. \A i, j \in 1 .. n : At(i) = At(j) => i = j
  BY <1>3
<1>7. Tells(w)
  <2>1. \A i \in 1 .. n : w[i].npages # 0 /\ w[i].start = (w[i].start \div PageSize) * PageSize
    BY <1>1, <1>3, <1>5 DEF Tells
  <2>2. \A i \in 1 .. n : \A p \in Covered(w[i]) : p \in Ram /\ owner[p] = w[i].type
    BY <1>1, <1>3, <1>5 DEF Tells
  <2>3. \A p \in Ram : owner[p] # "none" => \E i \in 1 .. n : p \in Covered(w[i])
    <3> TAKE p \in Ram
    <3> HAVE owner[p] # "none"
    <3>1. PICK i \in 1 .. n : p \in Covered(m[i])
      BY <1>1 DEF Tells
    <3>2. w[At(i)] = m[i] /\ At(i) \in 1 .. n
      BY <1>3, <1>5
    <3> QED
      BY <3>1, <3>2
  <2>4. \A i, j \in 1 .. n : Covered(w[i]) \cap Covered(w[j]) # {} => i = j
    <3> TAKE i, j \in 1 .. n
    <3> HAVE Covered(w[i]) \cap Covered(w[j]) # {}
    <3>1. At(i) = At(j)
      BY <1>1, <1>3, <1>5 DEF Tells
    <3> QED
      BY <1>6, <3>1
  <2> QED
    BY <1>4, <2>1, <2>2, <2>3, <2>4 DEF Tells
<1> QED
  BY <1>4, <1>7 DEF w

-----------------------------------------------------------------------------
(* The loader. *)

Owned(k) == {p \in Ram : owner[p] = k}

LEMMA ScreenCovers ==
  /\ ScreenDescriptor \in Desc /\ ScreenDescriptor.type = "mmio"
  /\ ScreenDescriptor.npages # 0
  /\ ScreenDescriptor.start = (ScreenDescriptor.start \div PageSize) * PageSize
  /\ Covered(ScreenDescriptor) = Screen
<1> DEFINE d == ScreenDescriptor
<1>1. PICK n \in Nat : n = Cardinality(Screen)
  BY BootAssumption, FS_CardinalityType
<1>2. n # 0
  BY <1>1, BootAssumption, FS_EmptySet
<1>3. PICK l \in Nat : l = Least(Screen)
  <2>1. Screen \in SUBSET Nat /\ Screen # {}
    BY BootAssumption
  <2>2. PICK h \in Screen : \A x \in Screen : h <= x
    BY <2>1, Lowest
  <2>3. Least(Screen) \in Screen
    BY <2>2, Zenon DEF Least
  <2> QED
    BY <2>1, <2>3
<1>4. d = [type |-> "mmio", start |-> l * PageSize, npages |-> n]
  BY <1>1, <1>3 DEF ScreenDescriptor
<1>5. l * PageSize \in Nat /\ (l * PageSize) \div PageSize = l
  BY Whole
<1>6. Screen = l .. l + n - 1
  BY <1>1, <1>3, BootAssumption, Zenon
<1>7. d.start \div PageSize = l /\ d.npages = n /\ d.type = "mmio" /\ d.start = l * PageSize
  BY <1>4, <1>5
<1>8. d \in Desc
  BY <1>4, <1>5 DEF Desc, Types
<1> QED
  BY <1>2, <1>6, <1>7, <1>8 DEF Covered

\* What efi_main hands over: a map that tells what the firmware does, and the
\* framebuffer.
Handed(m) == \E b \in Seq(Desc) : m = Append(b, ScreenDescriptor) /\ Tells(b)

LoaderSteps == {"segments", "size", "buffer", "map", "append", "exit", "enter"}

LoaderTypes ==
  /\ OwnerOK
  /\ version \in Nat
  /\ pc \in LoaderSteps \cup {"halt", "kernel"} /\ after \in LoaderSteps
  /\ segment \in Nat \ {0} /\ asked \in Nat /\ count \in Nat /\ key \in Nat
  /\ buffer \in Seq(Desc)

\* No call has failed.
Smooth == ~ pressed /\ pc # "halt"

SegmentsPlaced ==
  Smooth =>
    /\ \A i \in 1 .. segment - 1 : Run(Segments[i].start, Segments[i].pages) \subseteq Owned("loadercode")
    /\ pc # "segments" => segment > Len(Segments)

InfoPlaced ==
  Smooth /\ pc # "segments" => BootInfo \in Owned("loaderdata")

BufferPlaced ==
  Smooth /\ pc \notin {"segments", "size", "buffer"} =>
    Run(BufferAt, BufferPages) \subseteq Owned("loaderdata")

\* A key that is the current one's answers for the copy that came with it.
CopyTells ==
  /\ key <= version
  /\ stage = "loader" <=> pc # "kernel"
  /\ Smooth =>
       /\ pc = "append" /\ key = version => Tells(buffer)
       /\ pc = "exit" /\ key = version => Handed(buffer)
       /\ pc \in {"enter", "kernel"} => ~ live /\ Handed(buffer)
       /\ pc = "kernel" => given = buffer

LoaderInv == LoaderTypes /\ SegmentsPlaced /\ InfoPlaced /\ BufferPlaced /\ CopyTells

LEMMA LoaderInit == BootInit => LoaderInv
<1> SUFFICES ASSUME BootInit PROVE LoaderInv
  OBVIOUS
<1>1. LoaderTypes
  <2>1. OwnerOK
    BY BootAssumption DEF BootInit, OwnerOK
  <2>2. buffer \in Seq(Desc)
    BY DEF BootInit
  <2> QED
    BY <2>1, <2>2 DEF BootInit, LoaderTypes, LoaderSteps
<1>2. SegmentsPlaced /\ InfoPlaced /\ BufferPlaced
  BY DEF BootInit, SegmentsPlaced, InfoPlaced, BufferPlaced, Smooth
<1>3. CopyTells
  BY DEF BootInit, Unbooted, CopyTells, Smooth
<1> QED
  BY <1>1, <1>2, <1>3 DEF LoaderInv

LEMMA SegmentType ==
  ASSUME NEW i \in 1 .. Len(Segments)
  PROVE  Segments[i].start \in Nat /\ Segments[i].pages \in Nat \ {0}
<1> DEFINE R == [start : Nat, pages : Nat \ {0}]
<1>1. Segments \in Seq(R)
  BY BootAssumption
<1> HIDE DEF R
<1>2. Segments[i] \in R
  BY <1>1
<1> QED
  BY <1>2 DEF R

\* What an allocation does.
LEMMA AllocateDoes ==
  ASSUME LoaderTypes, NEW p, NEW n, NEW kind \in Types, Allocatable(p, n), Allocate(p, n, kind)
  PROVE  /\ OwnerOK' /\ version' = version + 1
         /\ \A k : k # "conventional" => Owned(k) \subseteq Owned(k)'
         /\ Run(p, n) \subseteq Owned(kind)'
BY DEF LoaderTypes, OwnerOK, Kinds, Allocatable, Allocate, Owned


\* The firmware and the loader take no page from anybody.
Takes == \A k : k # "conventional" => Owned(k) \subseteq Owned(k)'

LEMMA PlacedDoes ==
  ASSUME LoaderTypes, NEW p, NEW n, NEW kind \in Types, NEW next_ \in LoaderSteps,
         Placed(p, n, kind, next_)
  PROVE  /\ OwnerOK' /\ Takes
         /\ \/ pc' = next_ /\ after' = after /\ version' = version + 1 /\ Run(p, n) \subseteq Owned(kind)'
            \/ pc' = "halt" /\ after' = next_ /\ version' = version
<1>1. CASE Allocatable(p, n) /\ Allocate(p, n, kind) /\ Succeeds(next_)
  BY <1>1, AllocateDoes DEF Succeeds, Takes
<1>2. CASE UNCHANGED <<owner, version>> /\ Reports(next_)
  BY <1>2 DEF Reports, Takes, Owned, LoaderTypes, OwnerOK
<1> QED
  BY <1>1, <1>2 DEF Placed

LEMMA MapType ==
  ASSUME OwnerOK
  PROVE  Len(FirmwareMap) \in Nat /\ FirmwareMap \in Seq(Desc)
BY MapTells

LEMMA GetMapDoes ==
  ASSUME LoaderTypes, GetMap
  PROVE  /\ buffer' \in Seq(Desc) /\ count' \in Nat
         /\ \/ pc' = "append" /\ after' = after /\ Tells(buffer')
            \/ pc' = "halt" /\ after' = "append"
<1>1. FirmwareMap \in Seq(Desc) /\ Tells(FirmwareMap) /\ Len(FirmwareMap) \in Nat
  BY MapTells DEF LoaderTypes
<1>2. Reverse(FirmwareMap) \in Seq(Desc) /\ Tells(Reverse(FirmwareMap))
  BY <1>1, ReverseTells
<1>3. CASE buffer' \in {FirmwareMap, Reverse(FirmwareMap)} /\ Succeeds("append")
  <2>1. buffer' \in Seq(Desc) /\ Tells(buffer')
    BY <1>1, <1>2, <1>3, Zenon
  <2> QED
    BY <1>1, <1>3, <2>1 DEF GetMap, Succeeds
<1>4. CASE buffer' = [i \in 1 .. Len(FirmwareMap) |-> Zero] /\ Reports("append")
  <2>1. Zero \in Desc
    BY DEF Zero, Desc, Types
  <2>2. buffer' \in Seq(Desc)
    BY <1>1, <1>4, <2>1
  <2> QED
    BY <1>1, <1>4, <2>2 DEF GetMap, Reports
<1> QED
  BY <1>3, <1>4 DEF GetMap

LEMMA LoaderTypesStep ==
  ASSUME LoaderTypes, [BootNext]_<<loader, vars>>
  PROVE  LoaderTypes' /\ Takes
<1> USE DEF LoaderSteps
<1>0. "loadercode" \in Types /\ "loaderdata" \in Types /\ "bootdata" \in Types
  BY DEF Types, UsableTypes
<1>1. CASE FirmwareTakes
  <2>1. PICK p \in Ram : Allocatable(p, 1) /\ Allocate(p, 1, "bootdata")
    <3>1. PICK p \in Ram : owner[p] = "conventional" /\ Allocate(p, 1, "bootdata")
      BY <1>1 DEF FirmwareTakes
    <3>2. Run(p, 1) = {p}
      BY RamNat DEF Run
    <3> QED
      BY <3>1, <3>2 DEF Allocatable
  <2>2. OwnerOK' /\ version' = version + 1 /\ Takes
    BY <1>0, <2>1, AllocateDoes DEF Takes
  <2> QED
    BY <1>1, <2>2 DEF FirmwareTakes, LoaderTypes
<1>2. CASE LoadSegment
  <2>1. OwnerOK' /\ Takes /\ version' \in Nat /\ pc' \in LoaderSteps \cup {"halt"} /\ after' \in LoaderSteps
    BY <1>0, <1>2, PlacedDoes DEF LoadSegment, LoaderTypes
  <2> QED
    BY <1>2, <2>1 DEF LoadSegment, LoaderTypes
<1>3. CASE PlaceBootInfo
  <2>1. OwnerOK' /\ Takes /\ version' \in Nat /\ pc' \in LoaderSteps \cup {"halt"} /\ after' \in LoaderSteps
    BY <1>0, <1>3, PlacedDoes DEF PlaceBootInfo, LoaderTypes
  <2> QED
    BY <1>3, <2>1 DEF PlaceBootInfo, LoaderTypes
<1>4. CASE PlaceBuffer
  <2>1. OwnerOK' /\ Takes /\ version' \in Nat /\ pc' \in LoaderSteps \cup {"halt"} /\ after' \in LoaderSteps
    BY <1>0, <1>4, PlacedDoes DEF PlaceBuffer, LoaderTypes
  <2> QED
    BY <1>4, <2>1 DEF PlaceBuffer, LoaderTypes
<1>5. ASSUME UNCHANGED <<owner, version>> PROVE OwnerOK' /\ version' \in Nat /\ Takes
  BY <1>5 DEF LoaderTypes, OwnerOK, Takes, Owned
<1>6. CASE AskSize
  <2>1. asked' \in Nat /\ key' \in Nat
    BY <1>6, MapType DEF AskSize, LoaderTypes
  <2> QED
    BY <1>5, <1>6, <2>1 DEF AskSize, Succeeds, LoaderTypes
<1>7. CASE GetMap
  <2>1. UNCHANGED <<owner, version>> /\ key' \in Nat
    BY <1>7 DEF GetMap, LoaderTypes
  <2> QED
    BY <1>5, <1>7, <2>1, GetMapDoes DEF GetMap, LoaderTypes
<1>8. CASE AppendScreen
  <2>1. buffer' \in Seq(Desc)
    BY <1>8, ScreenCovers DEF AppendScreen, LoaderTypes
  <2>2. UNCHANGED <<owner, version>>
    BY <1>8 DEF AppendScreen
  <2> QED
    BY <1>5, <1>8, <2>1, <2>2 DEF AppendScreen, Succeeds, LoaderTypes
<1>9. CASE ExitBootServices \/ PressKey \/ Enter
  <2>1. UNCHANGED <<owner, version>>
    BY <1>9 DEF ExitBootServices, PressKey, Enter
  <2>2. pc' \in LoaderSteps \cup {"halt", "kernel"} /\ after' \in LoaderSteps
    BY <1>9 DEF ExitBootServices, PressKey, Enter, Succeeds, Reports, LoaderTypes
  <2> QED
    BY <1>5, <1>9, <2>1, <2>2 DEF ExitBootServices, PressKey, Enter, LoaderTypes
<1>10. CASE UNCHANGED loader
  <2>1. UNCHANGED <<owner, version>>
    BY <1>10 DEF loader
  <2> QED
    BY <1>5, <1>10, <2>1 DEF loader, LoaderTypes
<1> QED
  BY <1>1, <1>2, <1>3, <1>4, <1>6, <1>7, <1>8, <1>9, <1>10 DEF BootNext, LoaderStep

\* What has been placed stays where it is.
LEMMA PlacesStep ==
  ASSUME LoaderInv, [BootNext]_<<loader, vars>>
  PROVE  SegmentsPlaced' /\ InfoPlaced' /\ BufferPlaced'
<1>0. LoaderTypes /\ LoaderTypes' /\ Takes /\ SegmentsPlaced /\ InfoPlaced /\ BufferPlaced
  BY LoaderTypesStep DEF LoaderInv
<1>1. Owned("loadercode") \subseteq Owned("loadercode")' /\ Owned("loaderdata") \subseteq Owned("loaderdata")'
  BY <1>0 DEF Takes
<1>2. "loadercode" \in Types /\ "loaderdata" \in Types
  BY DEF Types
<1>3. Len(Segments) \in Nat
  BY BootAssumption
<1>4. ASSUME pc' = pc \/ pc \in {"map", "append", "exit", "enter"}, UNCHANGED <<segment, asked>>, Smooth' => Smooth,
             pc \notin {"map", "append", "exit", "enter"} \/ pc' \notin {"segments"}
      PROVE  SegmentsPlaced' /\ InfoPlaced' /\ BufferPlaced'
  <2>1. SegmentsPlaced'
    BY <1>0, <1>1, <1>4 DEF SegmentsPlaced
  <2>2. InfoPlaced'
    BY <1>0, <1>1, <1>4 DEF InfoPlaced
  <2>3. BufferPlaced'
    BY <1>0, <1>1, <1>4 DEF BufferPlaced, BufferPages, Capacity
  <2> QED
    BY <2>1, <2>2, <2>3
<1>5. ASSUME ~ Smooth' PROVE SegmentsPlaced' /\ InfoPlaced' /\ BufferPlaced'
  BY <1>5 DEF SegmentsPlaced, InfoPlaced, BufferPlaced
<1>6. CASE LoadSegment
  <2>1. segment \in 1 .. Len(Segments)
    BY <1>0, <1>3, <1>6 DEF LoadSegment, LoaderTypes
  <2>2. CASE pc' = "segments" /\ Run(Segments[segment].start, Segments[segment].pages) \subseteq Owned("loadercode")'
    <3>1. \A i \in 1 .. segment' - 1 : i \in 1 .. segment - 1 \/ i = segment
      BY <1>6, <2>1, <1>3 DEF LoadSegment
    <3>2. Smooth' => Smooth
      BY <1>6 DEF LoadSegment, Smooth
    <3>3. SegmentsPlaced'
      BY <1>0, <1>1, <2>2, <3>1, <3>2 DEF SegmentsPlaced
    <3> QED
      BY <2>2, <3>3 DEF InfoPlaced, BufferPlaced
  <2>3. CASE pc' = "halt"
    BY <1>5, <2>3 DEF Smooth
  <2> QED
    BY <1>0, <1>2, <1>6, <2>2, <2>3, PlacedDoes DEF LoadSegment, LoaderSteps
<1>7. CASE PlaceBootInfo
  <2>1. CASE pc' = "size" /\ Run(BootInfo, 1) \subseteq Owned("loaderdata")'
    <3>1. Smooth' => Smooth
      BY <1>7 DEF PlaceBootInfo, Smooth
    <3>2. SegmentsPlaced'
      BY <1>0, <1>1, <1>7, <2>1, <3>1 DEF SegmentsPlaced, PlaceBootInfo
    <3>3. PICK b \in Nat : b = BootInfo
      BY BootMapAssumption DEF BootInfo
    <3>4. b \in Run(b, 1)
      BY DEF Run
    <3>5. InfoPlaced'
      BY <2>1, <3>3, <3>4 DEF InfoPlaced
    <3> QED
      BY <2>1, <3>2, <3>5 DEF BufferPlaced
  <2>2. CASE pc' = "halt"
    BY <1>5, <2>2 DEF Smooth
  <2> QED
    BY <1>0, <1>2, <1>7, <2>1, <2>2, PlacedDoes DEF PlaceBootInfo, LoaderSteps
<1>8. CASE AskSize
  <2>1. Smooth' => Smooth
    BY <1>8 DEF AskSize, Succeeds, Smooth
  <2>2. SegmentsPlaced' /\ InfoPlaced'
    BY <1>0, <1>1, <1>8, <2>1 DEF AskSize, Succeeds, SegmentsPlaced, InfoPlaced
  <2> QED
    BY <1>8, <2>2 DEF AskSize, Succeeds, BufferPlaced
<1>9. CASE PlaceBuffer
  <2>1. CASE pc' = "map" /\ Run(BufferAt, BufferPages) \subseteq Owned("loaderdata")'
    <3>1. Smooth' => Smooth
      BY <1>9 DEF PlaceBuffer, Smooth
    <3>2. SegmentsPlaced' /\ InfoPlaced'
      BY <1>0, <1>1, <1>9, <2>1, <3>1 DEF SegmentsPlaced, InfoPlaced, PlaceBuffer
    <3>3. BufferPages' = BufferPages
      BY <1>9 DEF PlaceBuffer, BufferPages, Capacity
    <3>4. BufferPlaced'
      BY <2>1, <3>3 DEF BufferPlaced
    <3> QED
      BY <3>2, <3>4
  <2>2. CASE pc' = "halt"
    BY <1>5, <2>2 DEF Smooth
  <2> QED
    BY <1>0, <1>2, <1>9, <2>1, <2>2, PlacedDoes DEF PlaceBuffer, LoaderSteps
<1>10. CASE FirmwareTakes
  BY <1>4, <1>10 DEF FirmwareTakes, Smooth
<1>11. CASE GetMap
  <2>1. CASE pc' = "append"
    BY <1>4, <1>11, <2>1 DEF GetMap, Smooth
  <2>2. CASE pc' = "halt"
    BY <1>5, <2>2 DEF Smooth
  <2> QED
    BY <1>0, <1>11, <2>1, <2>2, GetMapDoes
<1>12. CASE AppendScreen
  BY <1>4, <1>12 DEF AppendScreen, Succeeds, Smooth
<1>13. CASE ExitBootServices
  BY <1>4, <1>5, <1>13 DEF ExitBootServices, Succeeds, Reports, Smooth
<1>14. CASE PressKey
  BY <1>5, <1>14 DEF PressKey, Smooth
<1>15. CASE Enter
  BY <1>4, <1>15 DEF Enter, Smooth
<1>16. CASE UNCHANGED loader
  BY <1>4, <1>16 DEF loader, Smooth
<1> QED
  BY <1>6, <1>7, <1>8, <1>9, <1>10, <1>11, <1>12, <1>13, <1>14, <1>15, <1>16 DEF BootNext, LoaderStep


\* The kernel's steps leave the handed map alone and never go back.
LEMMA KernelKeeps ==
  ASSUME KernelStep
  PROVE  stage # "loader" /\ stage' # "loader" /\ given' = given
BY DEF KernelStep, CleanOne, CleanDone, InsertOne, BootmemAlloc, ReleaseRegion, ReleaseDone

LEMMA CopyTellsStep ==
  ASSUME LoaderInv, [BootNext]_<<loader, vars>>
  PROVE  CopyTells'
<1>0. LoaderTypes /\ CopyTells /\ key \in Nat /\ version \in Nat
  BY DEF LoaderInv, LoaderTypes
<1>1. "loadercode" \in Types /\ "loaderdata" \in Types /\ "bootdata" \in Types
  BY DEF Types, UsableTypes
<1>2. ASSUME pc # "kernel", pc' \in {"segments", "size", "buffer", "map", "halt"}, UNCHANGED vars, key' <= version'
      PROVE  CopyTells'
  BY <1>0, <1>2 DEF CopyTells, vars, Smooth
<1>3. ASSUME ~ Smooth', key' <= version', pc' # "kernel", pc # "kernel", UNCHANGED vars
      PROVE  CopyTells'
  BY <1>0, <1>3 DEF CopyTells, vars, Smooth
<1>4. CASE FirmwareTakes
  <2>1. version' = version + 1 /\ UNCHANGED vars
    BY <1>4 DEF FirmwareTakes, Allocate
  <2>2. key' = key /\ pc' = pc /\ pressed' = pressed /\ live /\ live' = live
    BY <1>4 DEF FirmwareTakes
  <2>3. key' <= version' /\ key' # version'
    BY <1>0, <2>1, <2>2 DEF CopyTells
  <2>4. Smooth' => Smooth
    BY <2>2 DEF Smooth
  <2>5. Smooth => pc \notin {"enter", "kernel"}
    BY <1>0, <2>2 DEF CopyTells
  <2> QED
    BY <1>0, <2>1, <2>2, <2>3, <2>4, <2>5 DEF CopyTells, vars
<1>5. CASE LoadSegment
  BY <1>0, <1>1, <1>2, <1>5, PlacedDoes DEF LoadSegment, LoaderSteps, CopyTells
<1>6. CASE PlaceBootInfo
  BY <1>0, <1>1, <1>2, <1>6, PlacedDoes DEF PlaceBootInfo, LoaderSteps, CopyTells
<1>7. CASE PlaceBuffer
  BY <1>0, <1>1, <1>2, <1>7, PlacedDoes DEF PlaceBuffer, LoaderSteps, CopyTells
<1>8. CASE AskSize
  BY <1>0, <1>2, <1>8 DEF AskSize, Succeeds
<1>9. CASE GetMap
  <2>1. pc = "map" /\ key' = version /\ version' = version /\ pressed' = pressed /\ UNCHANGED vars
        /\ owner' = owner
    BY <1>9 DEF GetMap
  <2>2. CASE pc' = "append" /\ Tells(buffer')
    <3>1. Tells(buffer)'
      BY <2>1, <2>2 DEF Tells
    <3> QED
      BY <1>0, <2>1, <2>2, <3>1 DEF CopyTells, vars
  <2>3. CASE pc' = "halt"
    BY <1>0, <1>2, <2>1, <2>3
  <2> QED
    BY <1>0, <1>9, <2>2, <2>3, GetMapDoes
<1>10. CASE AppendScreen
  <2>1. /\ pc = "append" /\ pc' = "exit" /\ buffer' = Append(buffer, ScreenDescriptor)
        /\ UNCHANGED <<owner, version, key, pressed>> /\ UNCHANGED vars
    BY <1>10 DEF AppendScreen, Succeeds
  <2>2. ASSUME Smooth', key' = version' PROVE Handed(buffer)'
    <3>1. Tells(buffer) /\ buffer \in Seq(Desc)
      BY <1>0, <2>1, <2>2 DEF CopyTells, Smooth, LoaderTypes
    <3>2. PICK b \in Seq(Desc) : b = buffer
      BY <3>1
    <3>3. Tells(b)' /\ buffer' = Append(b, ScreenDescriptor)
      BY <2>1, <3>1, <3>2 DEF Tells
    <3> QED
      BY <3>3 DEF Handed
  <2> QED
    BY <1>0, <2>1, <2>2 DEF CopyTells, vars
<1>11. CASE ExitBootServices
  <2>1. pc = "exit" /\ UNCHANGED <<owner, version, key, buffer, pressed>> /\ UNCHANGED vars
    BY <1>11 DEF ExitBootServices
  <2>2. CASE key = version /\ live' = FALSE /\ pc' = "enter"
    <3>1. ASSUME Smooth' PROVE Handed(buffer)'
      <4>1. Handed(buffer)
        BY <1>0, <2>1, <2>2, <3>1 DEF CopyTells, Smooth
      <4> QED
        BY <2>1, <4>1 DEF Handed, Tells
    <3> QED
      BY <1>0, <2>1, <2>2, <3>1 DEF CopyTells, vars
  <2>3. CASE pc' = "halt"
    BY <1>0, <1>2, <2>1, <2>3 DEF CopyTells
  <2> QED
    BY <1>11, <2>2, <2>3 DEF ExitBootServices, Succeeds, Reports
<1>12. CASE PressKey
  <2>1. pc = "halt" /\ ~ Smooth' /\ UNCHANGED <<version, key>> /\ UNCHANGED vars /\ pc' # "kernel"
    BY <1>0, <1>12 DEF PressKey, Smooth, LoaderTypes, LoaderSteps
  <2> QED
    BY <1>0, <1>3, <2>1 DEF CopyTells
<1>13. CASE Enter
  <2>1. /\ pc = "enter" /\ pc' = "kernel" /\ UNCHANGED <<owner, live, version, key, buffer, pressed>>
        /\ stage' = "clean" /\ given' = buffer
    BY <1>13 DEF Enter, Kentry
  <2>2. ASSUME Smooth' PROVE ~ live' /\ Handed(buffer)'
    <3>1. ~ live /\ Handed(buffer)
      BY <1>0, <2>1, <2>2 DEF CopyTells, Smooth
    <3> QED
      BY <2>1, <3>1 DEF Handed, Tells
  <2> QED
    BY <1>0, <2>1, <2>2 DEF CopyTells
<1>14. CASE UNCHANGED loader /\ (KernelStep \/ UNCHANGED vars)
  <2>1. UNCHANGED <<owner, live, version, pc, key, buffer, pressed>>
    BY <1>14 DEF loader
  <2>2. given' = given /\ (stage' = "loader" <=> stage = "loader")
    BY <1>14, KernelKeeps DEF vars
  <2>3. (Tells(buffer) => Tells(buffer)') /\ (Handed(buffer) => Handed(buffer)')
    BY <2>1 DEF Tells, Handed
  <2> QED
    BY <1>0, <2>1, <2>2, <2>3 DEF CopyTells, Smooth
<1> QED
  BY <1>4, <1>5, <1>6, <1>7, <1>8, <1>9, <1>10, <1>11, <1>12, <1>13, <1>14 DEF BootNext, LoaderStep

LEMMA LoaderStepInv == LoaderInv /\ [BootNext]_<<loader, vars>> => LoaderInv'
BY LoaderTypesStep, PlacesStep, CopyTellsStep DEF LoaderInv

\* What the loader relies on at each of its calls: where the segments, the
\* boot information and the copy of the map are, and what a current key says.
THEOREM LoaderInvariant == Spec => []LoaderInv
BY LoaderInit, LoaderStepInv, PTL DEF Spec

-----------------------------------------------------------------------------
(* What is handed over. *)

LEMMA DescIn ==
  ASSUME NEW m, NEW S, NEW p
  PROVE  p \in DescPages(m, S) <=> \E i \in DOMAIN m : m[i].type \in S /\ p \in Covered(m[i])
BY DEF DescPages, Covered

LEMMA DivideMonotone ==
  ASSUME NEW a \in Nat, NEW b \in Nat, NEW s \in Nat \ {0}, a <= b
  PROVE  a \div s <= b \div s
<1>1. PICK q \in Nat : q = a \div s
  OBVIOUS
<1>2. PICK r \in Nat : r = b \div s
  OBVIOUS
<1>3. a % s = a - s * (a \div s) /\ b % s = b - s * (b \div s) /\ a % s \in 0 .. s - 1 /\ b % s \in 0 .. s - 1
  OBVIOUS
<1>4. PICK t \in 0 .. s - 1, u \in 0 .. s - 1 : t = a % s /\ u = b % s
  BY <1>3
<1>5. t = a - s * q /\ u = b - s * r
  BY <1>1, <1>2, <1>3, <1>4, Zenon
<1>6. ASSUME r < q PROVE FALSE
  <2>1. PICK k \in Nat : q = r + 1 + k
    <3>1. q - r - 1 \in Nat /\ q = r + 1 + (q - r - 1)
      BY <1>6
    <3> QED
      BY <3>1
  <2>2. s * q = s * r + s + s * k
    BY <2>1
  <2>3. s * k \in Nat /\ s * r \in Nat
    OBVIOUS
  <2> QED
    BY <1>5, <2>2, <2>3
<1> QED
  BY <1>1, <1>2, <1>6

\* The map and the framebuffer, of every type.
LEMMA HandedTells ==
  ASSUME OwnerOK, NEW m, Handed(m), NEW k \in Types
  PROVE  DescPages(m, {k}) = Owned(k) \cup (IF k = "mmio" THEN Screen ELSE {})
<1>1. PICK b \in Seq(Desc) : m = Append(b, ScreenDescriptor) /\ Tells(b)
  BY DEF Handed
<1> DEFINE n == Len(b)
<1>2. /\ n \in Nat /\ DOMAIN m = 1 .. n + 1 /\ DOMAIN b = 1 .. n
      /\ (\A i \in 1 .. n : m[i] = b[i]) /\ m[n + 1] = ScreenDescriptor
  BY <1>1, ScreenCovers
<1> HIDE DEF n
<1>3. k # "none"
  BY DEF Types, UsableTypes
<1>4. ASSUME NEW p \in DescPages(m, {k})
      PROVE  p \in Owned(k) \cup (IF k = "mmio" THEN Screen ELSE {})
  <2>1. PICK i \in 1 .. n + 1 : m[i].type = k /\ p \in Covered(m[i])
    BY <1>2, <1>4, DescIn
  <2>2. CASE i = n + 1
    BY <1>2, <2>1, <2>2, ScreenCovers
  <2>3. CASE i \in 1 .. n
    <3>1. p \in Ram /\ owner[p] = b[i].type
      BY <1>1, <1>2, <2>1, <2>3 DEF Tells
    <3> QED
      BY <1>2, <2>1, <2>3, <3>1 DEF Owned
  <2> QED
    BY <1>2, <2>2, <2>3
<1>5. ASSUME NEW p \in Owned(k) PROVE p \in DescPages(m, {k})
  <2>1. p \in Ram /\ owner[p] = k
    BY <1>5 DEF Owned
  <2>2. PICK i \in 1 .. n : p \in Covered(b[i])
    BY <1>1, <1>2, <1>3, <2>1 DEF Tells
  <2>3. b[i].type = k
    BY <1>1, <1>2, <2>1, <2>2 DEF Tells
  <2>4. i \in DOMAIN m /\ m[i].type \in {k} /\ p \in Covered(m[i])
    BY <1>2, <2>2, <2>3
  <2> QED
    BY <2>4, DescIn
<1>6. ASSUME NEW p \in Screen, k = "mmio" PROVE p \in DescPages(m, {k})
  <2>1. n + 1 \in DOMAIN m /\ m[n + 1].type \in {k} /\ p \in Covered(m[n + 1])
    BY <1>2, <1>6, ScreenCovers
  <2> QED
    BY <2>1, DescIn
<1> QED
  BY <1>4, <1>5, <1>6

LEMMA LoaderGivesHandover == LoaderInv => HandoverSound
<1> SUFFICES ASSUME LoaderInv, stage # "loader", ~ pressed
             PROVE  /\ ~ live
                    /\ \A k \in Types :
                         DescPages(given, {k}) = {p \in Ram : owner[p] = k} \cup (IF k = "mmio" THEN Screen ELSE {})
                    /\ Image \subseteq {p \in Ram : owner[p] = "loadercode"}
                    /\ BootInfo \in Ram /\ owner[BootInfo] = "loaderdata"
                    /\ Written \subseteq {p \in Ram : owner[p] = "loaderdata"} \/ count > asked
  BY DEF HandoverSound
<1>1. LoaderTypes /\ pc = "kernel" /\ Smooth
  BY DEF LoaderInv, CopyTells, Smooth
<1>2. ~ live /\ Handed(buffer) /\ given = buffer
  BY <1>1 DEF LoaderInv, CopyTells
<1>3. \A k \in Types : DescPages(given, {k}) = {p \in Ram : owner[p] = k} \cup (IF k = "mmio" THEN Screen ELSE {})
  BY <1>1, <1>2, HandedTells DEF LoaderTypes, Owned
<1>4. Image \subseteq Owned("loadercode")
  <2>1. DOMAIN Segments = 1 .. Len(Segments) /\ Len(Segments) \in Nat /\ segment \in Nat
    BY <1>1, BootAssumption DEF LoaderTypes
  <2>2. segment > Len(Segments)
    BY <1>1 DEF LoaderInv, SegmentsPlaced
  <2>3. \A i \in DOMAIN Segments : i \in 1 .. segment - 1
    BY <2>1, <2>2
  <2>4. \A i \in DOMAIN Segments : Run(Segments[i].start, Segments[i].pages) \subseteq Owned("loadercode")
    BY <1>1, <2>3 DEF LoaderInv, SegmentsPlaced
  <2> QED
    BY <2>4 DEF Image
<1>5. BootInfo \in Owned("loaderdata")
  BY <1>1 DEF LoaderInv, InfoPlaced
<1>6. ASSUME ~ (count > asked) PROVE Written \subseteq Owned("loaderdata")
  <2>1. Run(BufferAt, BufferPages) \subseteq Owned("loaderdata")
    BY <1>1 DEF LoaderInv, BufferPlaced
  <2>2. count \in Nat /\ asked \in Nat /\ PerPage \in Nat \ {0} /\ count <= asked
    BY <1>1, <1>6, BootAssumption DEF LoaderTypes
  <2>3. asked + 1 + PerPage - 1 = asked + PerPage
    BY <2>2
  <2>4. PICK w \in Nat : w = (count + PerPage) \div PerPage
    BY <2>2
  <2>5. PICK b \in Nat : b = (asked + PerPage) \div PerPage
    BY <2>2
  <2>6. w <= b
    BY <2>2, <2>4, <2>5, DivideMonotone
  <2>7. BufferPages = b
    BY <2>2, <2>3, <2>5 DEF BufferPages, Capacity
  <2>8. PICK at \in Nat : at = BufferAt
    BY BootMapAssumption DEF BufferAt, BootInfo
  <2>9. Written = at .. at + w - 1 /\ Run(BufferAt, BufferPages) = at .. at + b - 1
    BY <2>4, <2>7, <2>8 DEF Written, Run
  <2> QED
    BY <2>1, <2>6, <2>9
<1> QED
  BY <1>2, <1>3, <1>4, <1>5, <1>6 DEF Owned

\* Unless a key was pressed after an error, the firmware has let go when the
\* kernel starts, the map handed over tells what the firmware last did, and
\* the image, the boot information and the map lie in memory allocated for
\* them: for every memory, every set of segments and any use of memory by the
\* firmware while the loader runs.
THEOREM HandsOverSoundly == Spec => []HandoverSound
BY LoaderInvariant, LoaderGivesHandover, PTL


-----------------------------------------------------------------------------
(* Compacting the map in place. *)

\* What the first n descriptors of m say: the pages of the types S, and the
\* descriptors that are not usable, each with its place.
PagesTo(m, n, S) == {p \in Int : \E i \in 1 .. n : m[i].type \in S /\ p \in Covered(m[i])}
Place(m, n)      == Cardinality({j \in 1 .. n : ~ Usable(m[j])})
OthersTo(m, n)   == {<<Place(m, i), m[i]>> : i \in {j \in 1 .. n : ~ Usable(m[j])}}

\* clean_efi_memory_map: the descriptors kept say what those read have said.
Compacting ==
  /\ Len(map) = Len(given) /\ kept < next /\ next <= Len(given) + 1 /\ lastFree <= kept
  /\ \A i \in next .. Len(given) : map[i] = given[i]
  /\ \A i \in 1 .. kept : Usable(map[i]) => map[i].type = "conventional"
  /\ lastFree # 0 => Usable(map[lastFree])
  /\ PagesTo(map, kept, {"conventional"}) = PagesTo(given, next - 1, UsableTypes)
  /\ Place(map, kept) = Place(given, next - 1)
  /\ OthersTo(map, kept) = OthersTo(given, next - 1)

CleanTypes ==
  /\ map \in Seq(Desc) /\ given \in Seq(Desc)
  /\ next \in Nat \ {0} /\ kept \in Nat /\ lastFree \in Nat

CleanInv ==
  /\ CleanTypes
  /\ stage = "loader" => next = 1 /\ kept = 0 /\ lastFree = 0
  /\ stage = "clean" => Compacting
  /\ stage \notin {"loader", "clean"} =>
       /\ \A i \in 1 .. Len(map) : Usable(map[i]) => map[i].type = "conventional"
       /\ DescPages(map, {"conventional"}) = DescPages(given, UsableTypes)
       /\ Others(map) = Others(given)

LEMMA DivideShift ==
  ASSUME NEW x \in Nat, NEW n \in Nat, NEW s \in Nat \ {0}
  PROVE  (x + n * s) \div s = x \div s + n
<1>1. PICK q \in Nat, r \in 0 .. s - 1 : q = x \div s /\ r = x % s
  OBVIOUS
<1>2. x % s = x - s * (x \div s)
  OBVIOUS
<1>3. r = x - s * q
  BY <1>1, <1>2, Zenon
<1>4. PICK y \in Nat : y = x + n * s
  OBVIOUS
<1>5. PICK t \in Nat, u \in 0 .. s - 1 : t = y \div s /\ u = y % s
  OBVIOUS
<1>6. y % s = y - s * (y \div s)
  OBVIOUS
<1>7. u = y - s * t
  BY <1>5, <1>6, Zenon
<1>8. s * t + u = s * (q + n) + r
  BY <1>3, <1>4, <1>7
<1>9. \A a, b \in Nat : a < b => s * a + s <= s * b
  <2> SUFFICES ASSUME NEW a \in Nat, NEW b \in Nat, a < b PROVE s * a + s <= s * b
    OBVIOUS
  <2>1. PICK k \in Nat : b = a + 1 + k
    <3>1. b - a - 1 \in Nat /\ b = a + 1 + (b - a - 1)
      OBVIOUS
    <3> QED
      BY <3>1
  <2>2. s * b = s * a + s + s * k
    BY <2>1
  <2>3. s * k \in Nat /\ s * a \in Nat
    OBVIOUS
  <2> QED
    BY <2>2, <2>3
<1>10. PICK v \in Nat : v = q + n
  OBVIOUS
<1>11. s * t + u = s * v + r /\ s * t \in Nat /\ s * v \in Nat
  BY <1>8, <1>10
<1>12. ~ (t < v) /\ ~ (v < t)
  BY <1>9, <1>11
<1>13. t = v
  BY <1>12
<1> QED
  BY <1>1, <1>4, <1>5, <1>10, <1>13

\* The pages of a descriptor that has grown by the one behind it.
LEMMA GrownCovers ==
  ASSUME NEW l \in Desc, NEW d \in Desc, d.start = l.start + l.npages * PageSize
  PROVE  Covered([l EXCEPT !.npages = @ + d.npages]) = Covered(l) \cup Covered(d)
<1> DEFINE g == [l EXCEPT !.npages = @ + d.npages]
<1>1. l.start \in Nat /\ l.npages \in Nat /\ d.npages \in Nat /\ PageSize \in Nat \ {0}
  BY BootMapAssumption DEF Desc
<1>2. g.start = l.start /\ g.npages = l.npages + d.npages
  BY DEF Desc
<1>3. PICK a \in Nat : a = l.start \div PageSize
  BY <1>1
<1>4. PICK n \in Nat, m \in Nat : n = l.npages /\ m = d.npages
  BY <1>1
<1>5. d.start \div PageSize = a + n
  <2>1. PICK x \in Nat : x = l.start
    BY <1>1
  <2>2. (x + n * PageSize) \div PageSize = x \div PageSize + n
    BY <1>1, DivideShift
  <2>3. d.start = x + n * PageSize
    BY <1>4, <2>1, Zenon
  <2> QED
    BY <1>3, <2>1, <2>2, <2>3, Zenon
<1> HIDE DEF g
<1>6. Covered(g) = a .. a + (n + m) - 1
  BY <1>2, <1>3, <1>4 DEF Covered
<1>7. Covered(l) = a .. a + n - 1
  BY <1>3, <1>4 DEF Covered
<1>8. Covered(d) = a + n .. (a + n) + m - 1
  BY <1>4, <1>5 DEF Covered
<1>9. a .. a + (n + m) - 1 = (a .. a + n - 1) \cup (a + n .. (a + n) + m - 1)
  OBVIOUS
<1> QED
  BY <1>6, <1>7, <1>8, <1>9 DEF g

\* Descriptors that say the same of what is not usable.
SameOthers(m, w, n) == \A j \in 1 .. n : m[j] = w[j] \/ (Usable(m[j]) /\ Usable(w[j]))

LEMMA OthersAgree ==
  ASSUME NEW m, NEW w, NEW n \in Nat, SameOthers(m, w, n)
  PROVE  Place(m, n) = Place(w, n) /\ OthersTo(m, n) = OthersTo(w, n)
<1>1. \A i \in 1 .. n : {j \in 1 .. i : ~ Usable(m[j])} = {j \in 1 .. i : ~ Usable(w[j])}
  <2> TAKE i \in 1 .. n
  <2>1. \A j \in 1 .. i : j \in 1 .. n
    OBVIOUS
  <2>2. \A j \in 1 .. i : ~ Usable(m[j]) <=> ~ Usable(w[j])
    BY <2>1 DEF SameOthers
  <2> QED
    BY <2>2
<1>2. {j \in 1 .. n : ~ Usable(m[j])} = {j \in 1 .. n : ~ Usable(w[j])}
  BY DEF SameOthers
<1>3. \A i \in 1 .. n : Place(m, i) = Place(w, i)
  BY <1>1 DEF Place
<1>4. \A i \in {j \in 1 .. n : ~ Usable(m[j])} : m[i] = w[i] /\ Place(m, i) = Place(w, i)
  BY <1>3 DEF SameOthers
<1> QED
  BY <1>2, <1>4 DEF Place, OthersTo

\* One descriptor more.
LEMMA OthersMore ==
  ASSUME NEW m, NEW n \in Nat
  PROVE  /\ Usable(m[n + 1]) => Place(m, n + 1) = Place(m, n) /\ OthersTo(m, n + 1) = OthersTo(m, n)
         /\ ~ Usable(m[n + 1]) => /\ Place(m, n + 1) = Place(m, n) + 1
                                  /\ OthersTo(m, n + 1) = OthersTo(m, n) \cup {<<Place(m, n) + 1, m[n + 1]>>}
<1> DEFINE O(k) == {j \in 1 .. k : ~ Usable(m[j])}
<1>1. 1 .. n + 1 = (1 .. n) \cup {n + 1} /\ n + 1 \notin 1 .. n
  OBVIOUS
<1>2. CASE Usable(m[n + 1])
  <2>1. O(n + 1) = O(n)
    BY <1>1, <1>2
  <2> QED
    BY <1>2, <2>1 DEF Place, OthersTo
<1>3. CASE ~ Usable(m[n + 1])
  <2>1. O(n + 1) = O(n) \cup {n + 1} /\ n + 1 \notin O(n)
    BY <1>1, <1>3
  <2>2. O(n) \subseteq 1 .. n
    OBVIOUS
  <2> HIDE DEF O
  <2>3. IsFiniteSet(1 .. n)
    BY FS_Interval
  <2>4. IsFiniteSet(O(n))
    BY <2>2, <2>3, FS_Subset
  <2>5. Cardinality(O(n) \cup {n + 1}) = Cardinality(O(n)) + 1
    BY <2>1, <2>4, FS_AddElement
  <2>6. Place(m, n + 1) = Cardinality(O(n + 1)) /\ Place(m, n) = Cardinality(O(n))
    BY DEF Place, O
  <2>7. Place(m, n + 1) = Place(m, n) + 1
    BY <2>1, <2>5, <2>6
  <2>8. OthersTo(m, n + 1) = {<<Place(m, i), m[i]>> : i \in O(n + 1)}
        /\ OthersTo(m, n) = {<<Place(m, i), m[i]>> : i \in O(n)}
    BY DEF OthersTo, O
  <2>9. OthersTo(m, n + 1) = OthersTo(m, n) \cup {<<Place(m, n + 1), m[n + 1]>>}
    BY <2>1, <2>8
  <2> QED
    BY <1>3, <2>7, <2>9
<1> QED
  BY <1>2, <1>3


\* The pages, likewise.
LEMMA PagesAgree ==
  ASSUME NEW m, NEW w, NEW n \in Nat, \A j \in 1 .. n : m[j] = w[j], NEW S
  PROVE  PagesTo(m, n, S) = PagesTo(w, n, S)
BY DEF PagesTo

LEMMA PagesMore ==
  ASSUME NEW m, NEW n \in Nat, NEW S, m[n + 1] \in Desc
  PROVE  PagesTo(m, n + 1, S) =
           PagesTo(m, n, S) \cup (IF m[n + 1].type \in S THEN Covered(m[n + 1]) ELSE {})
<1>1. 1 .. n + 1 = (1 .. n) \cup {n + 1}
  OBVIOUS
<1>2. Covered(m[n + 1]) \subseteq Int
  BY DEF Covered
<1> QED
  BY <1>1, <1>2 DEF PagesTo

LEMMA CleanInit == BootInit => CleanInv
BY DEF BootInit, Unbooted, CleanInv, CleanTypes

LEMMA CompactingStart ==
  ASSUME LoaderInv, CleanInv, Enter
  PROVE  CleanInv'
<1>1. /\ stage = "loader" /\ stage' = "clean" /\ map' = buffer /\ given' = buffer
      /\ next' = next /\ kept' = kept /\ lastFree' = lastFree
  BY DEF Enter, Kentry
<1>2. buffer \in Seq(Desc) /\ next = 1 /\ kept = 0 /\ lastFree = 0
  BY <1>1 DEF LoaderInv, LoaderTypes, CleanInv
<1>3. PICK m \in Seq(Desc) : m = buffer
  BY <1>2
<1>4. PagesTo(m, 0, {"conventional"}) = {} /\ PagesTo(m, 0, UsableTypes) = {}
  BY DEF PagesTo
<1>5. Len(m) \in Nat
  OBVIOUS
<1>6. CleanTypes'
  BY <1>1, <1>2 DEF CleanTypes
<1>7. Compacting'
  <2>1. next' - 1 = 0 /\ kept' = 0
    BY <1>1, <1>2
  <2>2. PagesTo(map', kept', {"conventional"}) = PagesTo(given', next' - 1, UsableTypes)
    BY <1>1, <1>3, <1>4, <2>1
  <2>3. Place(map', kept') = Place(given', next' - 1) /\ OthersTo(map', kept') = OthersTo(given', next' - 1)
    BY <1>1, <2>1
  <2> QED
    BY <1>1, <1>2, <1>3, <1>5, <2>2, <2>3 DEF Compacting
<1> QED
  BY <1>1, <1>6, <1>7 DEF CleanInv

\* The descriptor that is read is still the one that was given.
\* A map with one descriptor replaced.
With(m, k, e) == [m EXCEPT ![k] = e]

LEMMA ReplaceOne ==
  ASSUME NEW m \in Seq(Desc), NEW k \in 1 .. Len(m), NEW e \in Desc
  PROVE  /\ With(m, k, e) \in Seq(Desc) /\ Len(With(m, k, e)) = Len(m)
         /\ With(m, k, e)[k] = e
         /\ \A i \in 1 .. Len(m) : i # k => With(m, k, e)[i] = m[i]
BY DEF With

LEMMA CleanOneKeeps ==
  ASSUME CleanInv, CleanOne
  PROVE  CleanInv'
<1> DEFINE n == next - 1
           d == map[next]
<1>1. CleanTypes /\ Compacting /\ stage = "clean" /\ next <= Len(map) /\ stage' = stage
      /\ next' = next + 1 /\ given' = given
  BY DEF CleanInv, CleanOne
<1>2. /\ next \in Nat \ {0} /\ n \in Nat /\ n + 1 = next /\ kept \in Nat /\ lastFree \in Nat
      /\ kept <= n /\ lastFree <= kept /\ Len(map) = Len(given) /\ Len(given) \in Nat
      /\ next \in 1 .. Len(given) /\ kept + 1 \in 1 .. Len(given)
  BY <1>1 DEF CleanTypes, Compacting
<1>3. d = given[next] /\ d \in Desc
  BY <1>1, <1>2 DEF CleanTypes, Compacting
<1>4. Usable(d) <=> d.type \in UsableTypes
  BY DEF Usable, UsableTypes
<1>5. PagesTo(given, next, UsableTypes) =
        PagesTo(map, kept, {"conventional"}) \cup (IF Usable(d) THEN Covered(d) ELSE {})
  <2>1. PagesTo(given, n + 1, UsableTypes) =
          PagesTo(given, n, UsableTypes) \cup (IF given[n + 1].type \in UsableTypes THEN Covered(given[n + 1]) ELSE {})
    BY <1>2, <1>3, PagesMore
  <2> QED
    BY <1>1, <1>2, <1>3, <1>4, <2>1 DEF Compacting
<1>6. /\ Usable(d) => Place(given, next) = Place(map, kept) /\ OthersTo(given, next) = OthersTo(map, kept)
      /\ ~ Usable(d) => /\ Place(given, next) = Place(map, kept) + 1
                        /\ OthersTo(given, next) = OthersTo(map, kept) \cup {<<Place(map, kept) + 1, d>>}
  <2>1. /\ Usable(given[n + 1]) => Place(given, n + 1) = Place(given, n) /\ OthersTo(given, n + 1) = OthersTo(given, n)
        /\ ~ Usable(given[n + 1]) => /\ Place(given, n + 1) = Place(given, n) + 1
                                     /\ OthersTo(given, n + 1) = OthersTo(given, n) \cup {<<Place(given, n) + 1, given[n + 1]>>}
    BY <1>2, OthersMore
  <2> QED
    BY <1>1, <1>2, <1>3, <2>1 DEF Compacting
<1>7. next' - 1 = next
  BY <1>1, <1>2
<1> SUFFICES CleanTypes' /\ Compacting'
  BY <1>1 DEF CleanInv
<1>12. /\ \A i \in next .. Len(given) : map[i] = given[i]
       /\ \A i \in 1 .. kept : Usable(map[i]) => map[i].type = "conventional"
       /\ lastFree # 0 => Usable(map[lastFree])
  BY <1>1 DEF Compacting
<1>8. CASE Usable(d) /\ Grows(d)
  <2> DEFINE g == [map[lastFree] EXCEPT !.npages = @ + d.npages]
  <2>1. /\ lastFree \in 1 .. kept /\ lastFree \in 1 .. Len(map) /\ map[lastFree] \in Desc
        /\ d.start = map[lastFree].start + map[lastFree].npages * PageSize
    BY <1>1, <1>2, <1>8 DEF Grows, CleanTypes
  <2>2. /\ map' = [map EXCEPT ![lastFree] = g] /\ kept' = kept /\ lastFree' = lastFree
    BY <1>8, <1>3 DEF CleanOne
  <2>3. g \in Desc /\ g.type = map[lastFree].type /\ map[lastFree].type = "conventional"
    <3>1. map[lastFree].type = "conventional"
      BY <1>1, <2>1 DEF Compacting
    <3>2. PICK l \in Desc : l = map[lastFree]
      BY <2>1
    <3>3. [l EXCEPT !.npages = @ + d.npages] \in Desc /\ [l EXCEPT !.npages = @ + d.npages].type = l.type
      BY <1>3 DEF Desc
    <3> QED
      BY <3>1, <3>2, <3>3
  <2>4. Covered(g) = Covered(map[lastFree]) \cup Covered(d)
    BY <1>3, <2>1, GrownCovers
  <2> HIDE DEF g
  <2>5. PICK w \in Seq(Desc) : w = map' /\ Len(w) = Len(map) /\ w[lastFree] = g
        /\ \A i \in 1 .. Len(map) : i # lastFree => w[i] = map[i]
    <3>1. map \in Seq(Desc)
      BY <1>1 DEF CleanTypes
    <3>2. map' = With(map, lastFree, g)
      BY <2>2 DEF With
    <3>3. PICK w : w = map'
      OBVIOUS
    <3>4. w = With(map, lastFree, g)
      BY <3>2, <3>3
    <3>5. /\ w \in Seq(Desc) /\ Len(w) = Len(map) /\ w[lastFree] = g
          /\ \A i \in 1 .. Len(map) : i # lastFree => w[i] = map[i]
      BY <2>1, <2>3, <3>1, <3>4, ReplaceOne
    <3> QED
      BY <3>3, <3>5
  <2>6. Covered(g) \subseteq Int
    BY DEF Covered
  <2>7. PagesTo(w, kept, {"conventional"}) = PagesTo(map, kept, {"conventional"}) \cup Covered(d)
    BY <1>2, <2>1, <2>3, <2>4, <2>5, <2>6 DEF PagesTo
  <2>8. Usable(g) /\ Usable(map[lastFree])
    BY <2>3 DEF Usable
  <2>9. Place(w, kept) = Place(map, kept) /\ OthersTo(w, kept) = OthersTo(map, kept)
    <3>1. SameOthers(w, map, kept)
      BY <1>2, <2>1, <2>5, <2>8 DEF SameOthers
    <3> QED
      BY <1>2, <3>1, OthersAgree
  <2>10. \A i \in next + 1 .. Len(given) : w[i] = given[i]
    BY <1>1, <1>2, <2>1, <2>5 DEF Compacting
  <2>11. \A i \in 1 .. kept : Usable(w[i]) => w[i].type = "conventional"
    BY <1>1, <1>2, <2>1, <2>3, <2>5 DEF Compacting
  <2>12. /\ PagesTo(w, kept, {"conventional"}) = PagesTo(given, next, UsableTypes)
         /\ Place(w, kept) = Place(given, next) /\ OthersTo(w, kept) = OthersTo(given, next)
    BY <1>5, <1>6, <1>8, <2>7, <2>9
  <2>13. Usable(w[lastFree]) /\ Len(w) = Len(given) /\ kept < next + 1 /\ next + 1 <= Len(given) + 1
    BY <1>2, <2>5, <2>8
  <2> QED
    BY <1>1, <1>2, <1>7, <2>2, <2>5, <2>10, <2>11, <2>12, <2>13 DEF CleanTypes, Compacting
<1>9. ASSUME NEW e \in Desc, map' = [map EXCEPT ![kept + 1] = e], kept' = kept + 1,
             Usable(e) <=> Usable(d), Usable(d) => e.type = "conventional" /\ Covered(e) = Covered(d),
             ~ Usable(d) => e = d,
             lastFree' = IF Usable(d) THEN kept + 1 ELSE lastFree
      PROVE  CleanTypes' /\ Compacting'
  <2>1. PICK w \in Seq(Desc) : w = map' /\ Len(w) = Len(map) /\ w[kept + 1] = e
        /\ \A i \in 1 .. Len(map) : i # kept + 1 => w[i] = map[i]
    <3>1. map \in Seq(Desc) /\ kept + 1 \in 1 .. Len(map)
      BY <1>1, <1>2 DEF CleanTypes
    <3>2. map' = With(map, kept + 1, e)
      BY <1>9 DEF With
    <3>3. PICK w : w = map'
      OBVIOUS
    <3>4. w = With(map, kept + 1, e)
      BY <3>2, <3>3
    <3>5. /\ w \in Seq(Desc) /\ Len(w) = Len(map) /\ w[kept + 1] = e
          /\ \A i \in 1 .. Len(map) : i # kept + 1 => w[i] = map[i]
      BY <3>1, <3>4, ReplaceOne
    <3> QED
      BY <3>3, <3>5
  <2>2. \A i \in 1 .. kept : w[i] = map[i]
    BY <1>2, <2>1
  <2>3. PagesTo(w, kept + 1, {"conventional"}) =
          PagesTo(map, kept, {"conventional"}) \cup (IF Usable(d) THEN Covered(d) ELSE {})
    <3>1. PagesTo(w, kept, {"conventional"}) = PagesTo(map, kept, {"conventional"})
      <4>1. kept \in Nat
        BY <1>2
      <4> QED
        BY <2>2, <4>1, PagesAgree, ZenonT(30)
    <3>2. PagesTo(w, kept + 1, {"conventional"}) =
            PagesTo(w, kept, {"conventional"}) \cup (IF e.type \in {"conventional"} THEN Covered(e) ELSE {})
      <4>1. kept \in Nat /\ w[kept + 1] \in Desc
        BY <1>2, <2>1
      <4>2. PagesTo(w, kept + 1, {"conventional"}) =
              PagesTo(w, kept, {"conventional"})
                \cup (IF w[kept + 1].type \in {"conventional"} THEN Covered(w[kept + 1]) ELSE {})
        BY <4>1, PagesMore, Zenon
      <4> QED
        BY <2>1, <4>2, Zenon
    <3>3. e.type = "conventional" => Usable(e)
      BY DEF Usable
    <3> QED
      BY <1>9, <3>1, <3>2, <3>3
  <2>4. Place(w, kept) = Place(map, kept) /\ OthersTo(w, kept) = OthersTo(map, kept)
    <3>1. SameOthers(w, map, kept)
      BY <2>2 DEF SameOthers
    <3> QED
      BY <1>2, <3>1, OthersAgree
  <2>5. Place(w, kept + 1) = Place(given, next) /\ OthersTo(w, kept + 1) = OthersTo(given, next)
    <3>1. kept \in Nat
      BY <1>2
    <3>2. /\ Usable(w[kept + 1]) => Place(w, kept + 1) = Place(w, kept) /\ OthersTo(w, kept + 1) = OthersTo(w, kept)
          /\ ~ Usable(w[kept + 1]) =>
               /\ Place(w, kept + 1) = Place(w, kept) + 1
               /\ OthersTo(w, kept + 1) = OthersTo(w, kept) \cup {<<Place(w, kept) + 1, w[kept + 1]>>}
      BY <3>1, OthersMore, Zenon
    <3>3. w[kept + 1] = e
      BY <2>1
    <3>4. CASE Usable(d)
      BY <1>6, <1>9, <2>4, <3>2, <3>3, <3>4
    <3>5. CASE ~ Usable(d)
      BY <1>6, <1>9, <2>4, <3>2, <3>3, <3>5
    <3> QED
      BY <3>4, <3>5
  <2>6. \A i \in next + 1 .. Len(given) : w[i] = given[i]
    <3> SUFFICES ASSUME NEW i \in next + 1 .. Len(given) PROVE w[i] = given[i]
      OBVIOUS
    <3>1. i \in 1 .. Len(map) /\ i # kept + 1 /\ i \in next .. Len(given)
      BY <1>2
    <3> QED
      BY <1>12, <2>1, <3>1
  <2>7. \A i \in 1 .. kept + 1 : Usable(w[i]) => w[i].type = "conventional"
    <3>1. 1 .. kept + 1 = (1 .. kept) \cup {kept + 1}
      BY <1>2
    <3>2. Usable(w[kept + 1]) => w[kept + 1].type = "conventional"
      BY <1>9, <2>1
    <3> QED
      BY <1>12, <2>2, <3>1, <3>2
  <2>8. lastFree' \in Nat /\ lastFree' <= kept + 1 /\ (lastFree' # 0 => Usable(w[lastFree']))
    <3>1. CASE Usable(d)
      BY <1>2, <1>9, <2>1, <3>1
    <3>2. CASE ~ Usable(d)
      <4>1. lastFree' = lastFree /\ lastFree <= kept
        BY <1>2, <1>9, <3>2
      <4>2. lastFree # 0 => lastFree \in 1 .. kept
        BY <1>2
      <4> QED
        BY <1>2, <1>12, <2>2, <4>1, <4>2
    <3> QED
      BY <3>1, <3>2
  <2>9. PagesTo(w, kept + 1, {"conventional"}) = PagesTo(given, next, UsableTypes)
    BY <1>5, <2>3
  <2>10. Len(w) = Len(given) /\ kept + 1 < next + 1 /\ next + 1 <= Len(given) + 1
    BY <1>2, <2>1
  <2>11. CleanTypes'
    BY <1>1, <1>2, <1>9, <2>1, <2>8 DEF CleanTypes
  <2> QED
    BY <1>1, <1>7, <1>9, <2>1, <2>5, <2>6, <2>7, <2>8, <2>9, <2>10, <2>11 DEF Compacting
<1>10. CASE Usable(d) /\ ~ Grows(d)
  <2> DEFINE e == [d EXCEPT !.type = "conventional"]
  <2>1. map' = [map EXCEPT ![kept + 1] = e] /\ kept' = kept + 1 /\ lastFree' = kept + 1
    BY <1>10 DEF CleanOne
  <2>2. e \in Desc /\ e.type = "conventional" /\ e.start = d.start /\ e.npages = d.npages
    BY <1>3 DEF Desc, Types, UsableTypes
  <2> HIDE DEF e
  <2>3. Usable(e) /\ Covered(e) = Covered(d)
    BY <2>2 DEF Usable, Covered
  <2> QED
    BY <1>9, <1>10, <2>1, <2>2, <2>3
<1>11. CASE ~ Usable(d)
  <2>1. map' = [map EXCEPT ![kept + 1] = d] /\ kept' = kept + 1 /\ lastFree' = lastFree
    BY <1>11 DEF CleanOne
  <2> QED
    BY <1>3, <1>9, <1>11, <2>1
<1> QED
  BY <1>8, <1>10, <1>11


LEMMA AllPages ==
  ASSUME NEW m \in Seq(Desc), NEW S
  PROVE  DescPages(m, S) = PagesTo(m, Len(m), S)
<1>1. DOMAIN m = 1 .. Len(m)
  OBVIOUS
<1>2. \A i \in 1 .. Len(m) : Covered(m[i]) \subseteq Int
  BY DEF Covered
<1>3. \A p : p \in DescPages(m, S) <=> \E i \in 1 .. Len(m) : m[i].type \in S /\ p \in Covered(m[i])
  BY <1>1, DescIn
<1> QED
  BY <1>2, <1>3 DEF PagesTo

LEMMA AllOthers ==
  ASSUME NEW m \in Seq(Desc)
  PROVE  Others(m) = OthersTo(m, Len(m))
<1>1. DOMAIN m = 1 .. Len(m)
  OBVIOUS
<1> QED
  BY <1>1 DEF Others, OthersTo, Place

LEMMA CleanDoneKeeps ==
  ASSUME CleanInv, CleanDone
  PROVE  CleanInv'
<1>1. CleanTypes /\ Compacting /\ stage = "clean" /\ next > Len(map) /\ stage' = "insert"
      /\ next' = 1 /\ given' = given /\ kept' = kept /\ lastFree' = lastFree
      /\ map' = SubSeq(map, 1, kept)
  BY DEF CleanInv, CleanDone
<1>2. kept \in 0 .. Len(map) /\ next - 1 = Len(given) /\ Len(given) \in Nat /\ Len(map) = Len(given)
  <2>1. Len(given) \in Nat /\ kept \in Nat /\ next \in Nat
    BY <1>1 DEF CleanTypes
  <2>2. Len(map) = Len(given) /\ kept < next /\ next <= Len(given) + 1
    BY <1>1 DEF Compacting
  <2> QED
    BY <1>1, <2>1, <2>2
<1>3. PICK w \in Seq(Desc) : w = map' /\ Len(w) = kept /\ \A i \in 1 .. kept : w[i] = map[i]
  BY <1>1, <1>2 DEF CleanTypes
<1>4. PagesTo(w, kept, {"conventional"}) = PagesTo(map, kept, {"conventional"})
  BY <1>2, <1>3, PagesAgree
<1>5. OthersTo(w, kept) = OthersTo(map, kept)
  <2>1. SameOthers(w, map, kept)
    BY <1>3 DEF SameOthers
  <2> QED
    BY <1>2, <2>1, OthersAgree
<1>6. DescPages(w, {"conventional"}) = DescPages(given, UsableTypes)
  <2>1. DescPages(w, {"conventional"}) = PagesTo(w, kept, {"conventional"})
    BY <1>3, AllPages
  <2>2. DescPages(given, UsableTypes) = PagesTo(given, Len(given), UsableTypes)
    BY <1>1, AllPages DEF CleanTypes
  <2> QED
    BY <1>1, <1>2, <1>4, <2>1, <2>2 DEF Compacting
<1>7. Others(w) = Others(given)
  <2>1. Others(w) = OthersTo(w, kept)
    BY <1>3, AllOthers
  <2>2. Others(given) = OthersTo(given, Len(given))
    BY <1>1, AllOthers DEF CleanTypes
  <2> QED
    BY <1>1, <1>2, <1>5, <2>1, <2>2 DEF Compacting
<1>8. \A i \in 1 .. Len(w) : Usable(w[i]) => w[i].type = "conventional"
  BY <1>1, <1>3 DEF Compacting
<1>9. CleanTypes'
  BY <1>1, <1>3 DEF CleanTypes
<1> QED
  BY <1>1, <1>3, <1>6, <1>7, <1>8, <1>9 DEF CleanInv

LEMMA CleanStepInv ==
  ASSUME LoaderInv, CleanInv, [BootNext]_<<loader, vars>>
  PROVE  CleanInv'
<1>1. CASE UNCHANGED vars
  BY <1>1 DEF vars, CleanInv, CleanTypes, Compacting
<1>2. CASE LoaderStep
  <2>1. CASE Enter
    BY <2>1, CompactingStart
  <2>2. CASE LoaderStep /\ ~ Enter
    BY <1>1, <2>2 DEF LoaderStep, LoadSegment, PlaceBootInfo, AskSize, PlaceBuffer, GetMap, AppendScreen,
                      ExitBootServices, PressKey
  <2> QED
    BY <1>2, <2>1, <2>2
<1>3. CASE FirmwareTakes
  BY <1>1, <1>3 DEF FirmwareTakes
<1>4. CASE KernelStep
  <2>1. CASE CleanOne \/ CleanDone
    BY <2>1, CleanOneKeeps, CleanDoneKeeps
  <2>2. CASE InsertOne \/ (\E size \in DescriptorSizes : BootmemAlloc(size)) \/ ReleaseRegion \/ ReleaseDone
    <3>1. /\ UNCHANGED <<map, given, kept, lastFree>>
          /\ stage \notin {"loader", "clean"} /\ stage' \notin {"loader", "clean"}
      BY <2>2 DEF InsertOne, BootmemAlloc, ReleaseRegion, ReleaseDone
    <3>2. next' \in {1, next, next + 1}
      BY <2>2 DEF InsertOne, BootmemAlloc, ReleaseRegion, ReleaseDone
    <3>3. next' \in Nat \ {0}
      BY <3>2 DEF CleanInv, CleanTypes
    <3> QED
      BY <3>1, <3>3 DEF CleanInv, CleanTypes
  <2> QED
    BY <1>4, <2>1, <2>2 DEF KernelStep
<1> QED
  BY <1>1, <1>2, <1>3, <1>4 DEF BootNext

\* Whatever map the kernel is entered with, compacting it over itself keeps
\* every usable page and every other descriptor, in order: also a map that a
\* failed call has left wrong or empty.
THEOREM CompactingKeepsMap == Spec => []CleanKeepsMap
<1>1. BootInit => LoaderInv /\ CleanInv
  BY LoaderInit, CleanInit
<1>2. LoaderInv /\ CleanInv /\ [BootNext]_<<loader, vars>> => (LoaderInv /\ CleanInv)'
  BY LoaderStepInv, CleanStepInv
<1>3. CleanInv => CleanKeepsMap
  BY DEF CleanInv, CleanKeepsMap
<1> QED
  BY <1>1, <1>2, <1>3, PTL DEF Spec


-----------------------------------------------------------------------------
(* The table of regions. *)

\* Whole pages, and no page twice.
Fine(d) == d.npages # 0 /\ d.start = (d.start \div PageSize) * PageSize
Apart(c, d) == Covered(c) \cap Covered(d) = {}

WellFormed(m) ==
  /\ \A i \in 1 .. Len(m) : Fine(m[i])
  /\ \A i, j \in 1 .. Len(m) : i # j => Apart(m[i], m[j])

\* While the map is compacted: of what is kept and what has yet to be read.
StillApart ==
  /\ \A i \in 1 .. kept : Fine(map[i])
  /\ \A i, j \in 1 .. kept : i # j => Apart(map[i], map[j])
  /\ \A i \in 1 .. kept, j \in next .. Len(given) : Apart(map[i], given[j])

Region == [start : Nat, end : Nat, type : {"ram", "mmio", "alloc"}]
Slots  == 1 .. MaxRegions

Typed(table) ==
  table \in [Slots -> Region] /\ \A i \in Slots : table[i].start = 0 => table[i] = Empty

\* The pages of RAM in a slot, and whether a slot is left.
RamOf(table, i) == IF table[i].type = "ram" THEN PagesIn(table[i].start, table[i].end) ELSE {}
Room(table)     == \E i \in Slots : table[i].start = 0

InImage(p) == KernelStart <= p * PageSize /\ p * PageSize < KernelEnd

\* The slots hold pages of D, none twice, and all of them if there was room.
Holds(table, D) ==
  /\ \A i \in Slots : RamOf(table, i) \subseteq D \ {0}
  /\ \A i, j \in Slots : i # j => RamOf(table, i) \cap RamOf(table, j) = {}
  /\ Room(table) => \A p \in D \ {0} : InImage(p) \/ \E i \in Slots : p \in RamOf(table, i)

Usables == {p \in Ram : owner[p] \in UsableTypes}

\* init_bootmem has copied the descriptors before next.
Copying ==
  /\ Holds(regions, PagesTo(map, next - 1, {"conventional"}))
  /\ \A p \in PagesTo(map, next - 1, {"conventional"}) \ {0} : p < maxPfn
  /\ next <= Len(map) + 1

\* init_palloc has released the slots before next.
Releasing ==
  /\ Holds(regions, Usables \ ArrayPages)
  /\ \A p \in Usables \ {0} : p \in DOMAIN freed
  /\ \A p \in DOMAIN freed :
       /\ p \in Nat /\ p < maxPfn
       /\ freed[p] = IF ~ KernelPage(p) /\ \E i \in Slots : i < next /\ p \in RamOf(regions, i) THEN 1 ELSE 0
  /\ stage = "done" => next > MaxRegions

MemoryInv ==
  /\ Typed(regions) /\ maxPfn \in Nat
  /\ stage \in {"loader", "clean", "insert", "panic", "release", "done"}
  /\ stage \in {"loader", "clean"} => regions = [i \in Slots |-> Empty] /\ maxPfn = 0
  /\ stage \in {"loader", "clean", "insert", "panic"} => \A p \in DOMAIN freed : freed[p] = 0
  /\ Smooth =>
       /\ stage = "clean" => StillApart
       /\ stage \notin {"loader", "clean"} => WellFormed(map)
       /\ stage = "insert" => Copying
       /\ stage \in {"release", "done"} => Releasing

-----------------------------------------------------------------------------
(* Pages and addresses. *)

LEMMA PageOrder ==
  ASSUME NEW a \in Int, NEW b \in Int
  PROVE  a <= b <=> a * PageSize <= b * PageSize
<1>1. PageSize \in Nat \ {0}
  BY BootMapAssumption
<1>2. \A x \in Nat, s \in Nat \ {0} : x * s >= 0
  OBVIOUS
<1>3. \A x, y \in Int : x <= y => x * PageSize <= y * PageSize
  <2> SUFFICES ASSUME NEW x \in Int, NEW y \in Int, x <= y PROVE x * PageSize <= y * PageSize
    OBVIOUS
  <2>1. PICK k \in Nat : y = x + k
    <3>1. y - x \in Nat /\ y = x + (y - x)
      OBVIOUS
    <3> QED
      BY <3>1
  <2>2. y * PageSize = x * PageSize + k * PageSize
    BY <1>1, <2>1
  <2>3. k * PageSize >= 0 /\ k * PageSize \in Int /\ x * PageSize \in Int
    BY <1>1, <1>2
  <2> QED
    BY <2>2, <2>3
<1>4. b < a => b * PageSize < a * PageSize
  <2> SUFFICES ASSUME b < a PROVE b * PageSize < a * PageSize
    OBVIOUS
  <2>1. (b + 1) * PageSize <= a * PageSize
    BY <1>3
  <2>2. (b + 1) * PageSize = b * PageSize + PageSize
    BY <1>1
  <2>3. b * PageSize \in Int /\ a * PageSize \in Int
    BY <1>1
  <2> QED
    BY <1>1, <2>1, <2>2, <2>3
<1>5. b * PageSize \in Int /\ a * PageSize \in Int
  BY <1>1
<1> QED
  BY <1>3, <1>4, <1>5

\* The page an address is in.
LEMMA InPage ==
  ASSUME NEW x \in Nat
  PROVE  /\ x \div PageSize \in Nat
         /\ (x \div PageSize) * PageSize <= x
         /\ x < (x \div PageSize + 1) * PageSize
<1>1. PageSize \in Nat \ {0}
  BY BootMapAssumption
<1>2. \A s \in Nat \ {0} : x \div s \in Nat /\ x % s \in 0 .. s - 1 /\ x % s = x - s * (x \div s)
  OBVIOUS
<1>3. PICK q \in Nat, r \in 0 .. PageSize - 1 : q = x \div PageSize /\ r = x % PageSize
  BY <1>1, <1>2
<1>4. r = x - PageSize * q
  BY <1>1, <1>2, <1>3, Zenon
<1>5. q * PageSize <= x /\ x < (q + 1) * PageSize
  BY <1>1, <1>4
<1> QED
  BY <1>3, <1>5

\* The first whole page behind an address; the null page is left out.
Up(a)    == (a + PageSize - 1) \div PageSize
First(a) == IF Up(a) = 0 THEN 1 ELSE Up(a)

LEMMA UpIs ==
  ASSUME NEW a \in Nat
  PROVE  /\ Up(a) \in Nat /\ a <= Up(a) * PageSize
         /\ a # 0 => Up(a) # 0 /\ Up(a) = (a - 1) \div PageSize + 1
<1>1. PageSize \in Nat \ {0}
  BY BootMapAssumption
<1>2. PICK y \in Nat : y = a + PageSize - 1
  BY <1>1
<1>3. Up(a) = y \div PageSize
  BY <1>2 DEF Up
<1>4. PICK u \in Nat : u = Up(a) /\ y < (u + 1) * PageSize
  BY <1>2, <1>3, InPage
<1>5. (u + 1) * PageSize = u * PageSize + PageSize /\ u * PageSize \in Nat
  BY <1>1
<1>6. a <= u * PageSize
  BY <1>1, <1>2, <1>4, <1>5
<1>7. ASSUME a # 0 PROVE Up(a) = (a - 1) \div PageSize + 1 /\ (a - 1) \div PageSize \in Nat
  <2>1. PICK x \in Nat : x = a - 1
    BY <1>7
  <2>2. (x + 1 * PageSize) \div PageSize = x \div PageSize + 1
    BY <1>1, DivideShift
  <2>3. y = x + 1 * PageSize
    BY <1>1, <1>2, <2>1
  <2>4. y \div PageSize = x \div PageSize + 1
    BY <2>2, <2>3, Zenon
  <2> QED
    BY <1>3, <2>1, <2>4, InPage
<1> QED
  BY <1>4, <1>6, <1>7

LEMMA UpWhole ==
  ASSUME NEW n \in Nat
  PROVE  Up(n * PageSize) = n
<1>1. PageSize \in Nat \ {0} /\ n * PageSize \in Nat
  BY BootMapAssumption, Whole
<1>2. PICK x \in Nat : x = PageSize - 1
  BY <1>1
<1>3. (x + n * PageSize) \div PageSize = x \div PageSize + n
  BY <1>1, DivideShift
<1>4. x \div PageSize = 0
  <2>1. \A s \in Nat \ {0} : x < s => x \div s = 0
    OBVIOUS
  <2> QED
    BY <1>1, <1>2, <2>1
<1>5. n * PageSize + PageSize - 1 = x + n * PageSize
  BY <1>1, <1>2
<1>6. Up(n * PageSize) = (x + n * PageSize) \div PageSize
  BY <1>5, Zenon DEF Up
<1> QED
  BY <1>3, <1>4, <1>6

\* What the table stores, in pages.
LEMMA Bounds ==
  ASSUME NEW s \in Nat, NEW e \in Nat
  PROVE  /\ First(s) \in Nat \ {0} /\ Low(s) = First(s) * PageSize /\ Low(s) \in Nat \ {0}
         /\ High(e) = (e \div PageSize) * PageSize /\ High(e) \in Nat
         /\ e \div PageSize \in Nat /\ High(e) \div PageSize = e \div PageSize
         /\ PagesIn(s, e) = First(s) .. (e \div PageSize) - 1
         /\ AlignUp(s) = Up(s) * PageSize
<1>1. PageSize \in Nat \ {0}
  BY BootMapAssumption
<1>2. PICK u \in Nat : u = Up(s)
  BY UpIs
<1>3. AlignUp(s) = u * PageSize
  BY <1>2 DEF AlignUp, Up
<1>4. u * PageSize = 0 <=> u = 0
  <2>1. u # 0 => 1 * PageSize <= u * PageSize
    BY <1>2, PageOrder
  <2> QED
    BY <1>1, <2>1
<1>5. PICK f \in Nat \ {0} : f = First(s)
  BY <1>2 DEF First
<1>6. Low(s) = f * PageSize
  BY <1>1, <1>2, <1>3, <1>4, <1>5 DEF Low, First
<1>7. 1 * PageSize <= f * PageSize /\ f * PageSize \in Nat
  BY <1>1, PageOrder
<1>8. PICK v \in Nat : v = e \div PageSize
  BY InPage
<1>9. High(e) = v * PageSize
  BY <1>8 DEF High, AlignDown
<1>10. v * PageSize \in Nat /\ (v * PageSize) \div PageSize = v /\ (f * PageSize) \div PageSize = f
  BY Whole
<1>11. PagesIn(s, e) = f .. v - 1
  BY <1>6, <1>9, <1>10 DEF PagesIn
<1> QED
  BY <1>1, <1>2, <1>3, <1>5, <1>6, <1>7, <1>8, <1>9, <1>10, <1>11

\* Storing them again changes nothing.
LEMMA BoundsAgain ==
  ASSUME NEW s \in Nat, NEW e \in Nat
  PROVE  Low(Low(s)) = Low(s) /\ PagesIn(Low(s), High(e)) = PagesIn(s, e)
<1>1. PICK f \in Nat \ {0} : f = First(s) /\ Low(s) = f * PageSize /\ Low(s) \in Nat
  BY Bounds
<1>2. Up(f * PageSize) = f
  BY UpWhole
<1>3. First(Low(s)) = f
  BY <1>1, <1>2 DEF First
<1>4. High(e) \in Nat /\ High(e) \div PageSize = e \div PageSize /\ PagesIn(s, e) = f .. (e \div PageSize) - 1
  BY <1>1, Bounds
<1>5. Low(Low(s)) = First(Low(s)) * PageSize
      /\ PagesIn(Low(s), High(e)) = First(Low(s)) .. (High(e) \div PageSize) - 1
  BY <1>1, <1>4, Bounds
<1> QED
  BY <1>1, <1>3, <1>4, <1>5

\* The pages of a descriptor that is whole pages.
LEMMA FinePages ==
  ASSUME NEW d \in Desc, Fine(d)
  PROVE  /\ d.start + d.npages * PageSize \in Nat
         /\ PagesIn(d.start, d.start + d.npages * PageSize) = Covered(d) \ {0}
<1>1. PICK x \in Nat, n \in Nat : x = d.start /\ n = d.npages
  BY DEF Desc
<1>2. PICK a \in Nat : a = x \div PageSize
  BY InPage
<1>3. x = a * PageSize
  BY <1>1, <1>2 DEF Fine
<1>4. PageSize \in Nat \ {0} /\ a * PageSize \in Nat
  BY BootMapAssumption, Whole
<1>5. n * PageSize \in Nat
  BY Whole
<1>6. PICK e \in Nat : e = x + n * PageSize
  BY <1>5
<1>7. e \div PageSize = a + n
  BY <1>2, <1>4, <1>6, DivideShift
<1>8. First(x) = IF a = 0 THEN 1 ELSE a
  BY <1>3, UpWhole DEF First
<1>9. PagesIn(x, e) = (IF a = 0 THEN 1 ELSE a) .. (a + n) - 1
  <2>1. PagesIn(x, e) = First(x) .. (e \div PageSize) - 1
    BY Bounds
  <2> QED
    BY <1>7, <1>8, <2>1, Zenon
<1>10. Covered(d) = a .. a + n - 1
  BY <1>1, <1>2 DEF Covered
<1>11. (a .. a + n - 1) \ {0} = (IF a = 0 THEN 1 ELSE a) .. (a + n) - 1
  OBVIOUS
<1> QED
  BY <1>1, <1>6, <1>9, <1>10, <1>11

-----------------------------------------------------------------------------
(* bootmem_insert_region. *)

LEMMA EmptyIs == Empty \in Region /\ PagesIn(0, 0) = {} /\ (\A t : Typed(t) => \A i \in Slots : t[i].start = 0 => RamOf(t, i) = {})
<1>1. Empty \in Region
  BY DEF Empty, Region
<1>2. PagesIn(0, 0) = {}
  <2>1. First(0) \in Nat \ {0} /\ PagesIn(0, 0) = First(0) .. (0 \div PageSize) - 1
    BY Bounds
  <2>2. PageSize \in Nat \ {0} /\ \A s \in Nat \ {0} : 0 \div s = 0
    BY BootMapAssumption
  <2>3. 0 \div PageSize = 0
    BY <2>2
  <2> QED
    BY <2>1, <2>3
<1> QED
  BY <1>1, <1>2 DEF Typed, RamOf, Empty

\* w is t with a region in a slot, or t for want of one.
IsPut(t, w, s, e, k) ==
  /\ Typed(w)
  /\ \/ ~ Room(t) /\ w = t
     \/ \E n \in Slots : t[n].start = 0 /\ w = [t EXCEPT ![n] = [start |-> s, end |-> e, type |-> k]]

LEMMA PutDoes ==
  ASSUME NEW t, Typed(t), NEW s \in Nat \ {0}, NEW e \in Nat, NEW k \in {"ram", "mmio", "alloc"}
  PROVE  IsPut(t, Put(t, s, e, k), s, e, k)
<1> USE DEF IsPut
<1> DEFINE slots == {i \in Slots : t[i].start = 0}
<1>1. CASE slots = {}
  <2>1. Put(t, s, e, k) = t
    BY <1>1 DEF Put, Slots
  <2> QED
    BY <1>1, <2>1 DEF Room
<1>2. CASE slots # {}
  <2>1. Slots \subseteq Nat
    BY DEF Slots
  <2>2. PICK n \in slots : \A m \in slots : n <= m
    <3>1. slots \in SUBSET Nat
      BY <2>1
    <3> HIDE DEF slots
    <3> QED
      BY <1>2, <3>1, Lowest
  <2>3. Least(slots) \in slots
    <3> HIDE DEF slots
    <3> QED
      BY <2>2, Zenon DEF Least
  <2>4. PICK l \in Slots : l = Least(slots) /\ t[l].start = 0
    BY <2>3
  <2>5. Put(t, s, e, k) = [t EXCEPT ![l] = [start |-> s, end |-> e, type |-> k]]
    BY <1>2, <2>4 DEF Put, Slots
  <2>6. [start |-> s, end |-> e, type |-> k] \in Region
    BY DEF Region
  <2>7. Typed(Put(t, s, e, k))
    BY <2>4, <2>5, <2>6 DEF Typed
  <2> QED
    BY <2>4, <2>5, <2>7
<1> QED
  BY <1>1, <1>2

\* A table that has the same RAM and no more room.
SameRam(t, w) ==
  /\ Typed(w)
  /\ \A i \in Slots : RamOf(w, i) = RamOf(t, i)
  /\ Room(w) => Room(t)

LEMMA PutOther ==
  ASSUME NEW t, Typed(t), NEW s \in Nat \ {0}, NEW e \in Nat, NEW k \in {"mmio", "alloc"}
  PROVE  SameRam(t, Put(t, s, e, k))
<1>1. PICK w : w = Put(t, s, e, k)
  OBVIOUS
<1>2. IsPut(t, w, s, e, k) /\ Typed(w)
  <2>1. k \in {"ram", "mmio", "alloc"}
    OBVIOUS
  <2>2. IsPut(t, Put(t, s, e, k), s, e, k)
    BY <2>1, PutDoes, Zenon
  <2> QED
    BY <1>1, <2>2, Zenon DEF IsPut
<1>3. CASE w = t
  BY <1>2, <1>3, <1>1 DEF SameRam
<1>4. ASSUME NEW n \in Slots, t[n].start = 0, w = [t EXCEPT ![n] = [start |-> s, end |-> e, type |-> k]]
      PROVE  SameRam(t, w)
  <2>1. t \in [Slots -> Region]
    BY DEF Typed
  <2>2. RamOf(t, n) = {}
    BY <1>4, EmptyIs
  <2>3. w[n].type = k /\ w[n].start = s /\ \A i \in Slots : i # n => w[i] = t[i]
    BY <1>4, <2>1
  <2>4. \A i \in Slots : RamOf(w, i) = RamOf(t, i)
    BY <2>2, <2>3 DEF RamOf
  <2>5. Room(w) => Room(t)
    BY <1>4 DEF Room
  <2> QED
    BY <1>2, <2>4, <2>5 DEF SameRam
<1>5. w = t \/ \E n \in Slots : /\ t[n].start = 0
                                /\ w = [t EXCEPT ![n] = [start |-> s, end |-> e, type |-> k]]
  BY <1>2 DEF IsPut
<1>6. SameRam(t, w)
  <2>1. CASE w = t
    BY <1>1, <1>3, <2>1, Zenon
  <2>2. CASE \E n \in Slots : /\ t[n].start = 0
                              /\ w = [t EXCEPT ![n] = [start |-> s, end |-> e, type |-> k]]
    <3>1. PICK n \in Slots : t[n].start = 0 /\ w = [t EXCEPT ![n] = [start |-> s, end |-> e, type |-> k]]
      BY <2>2
    <3> QED
      BY <1>4, <3>1
  <2> QED
    BY <1>5, <2>1, <2>2
<1> QED
  BY <1>1, <1>6

LEMMA PartOther ==
  ASSUME NEW t, Typed(t), NEW s \in Nat, NEW e \in Nat, NEW k \in {"mmio", "alloc"}
  PROVE  SameRam(t, InsertPart(t, s, e, k))
<1>1. SameRam(t, t)
  BY DEF SameRam
<1>2. Low(s) \in Nat \ {0} /\ High(e) \in Nat
  BY Bounds
<1>3. SameRam(t, Put(t, Low(s), High(e), k))
  BY <1>2, PutOther
<1> QED
  BY <1>1, <1>3 DEF InsertPart

\* Regions that are not RAM change none of it, whatever they cover.
LEMMA InsertOther ==
  ASSUME NEW t, Typed(t), NEW s \in Nat, NEW e \in Nat, NEW k \in {"mmio", "alloc"}
  PROVE  SameRam(t, Insert(t, s, e, k))
<1> DEFINE left  == IF Low(s) < KernelStart THEN InsertPart(t, Low(s), KernelStart, k) ELSE t
           parts == IF High(e) > KernelEnd THEN InsertPart(left, KernelEnd, High(e), k) ELSE left
           some  == IF CoversKernel(s, e) THEN parts ELSE t
<1>1. Low(s) \in Nat /\ High(e) \in Nat /\ KernelStart \in Nat /\ KernelEnd \in Nat
  BY Bounds, BootMapAssumption
<1>2. SameRam(t, t)
  BY DEF SameRam
<1>3. SameRam(t, InsertPart(t, Low(s), KernelStart, k))
  BY <1>1, PartOther
<1>4. SameRam(t, left)
  BY <1>2, <1>3
<1>5. Insert(t, s, e, k) = InsertPart(some, s, e, k)
  BY Zenon DEF Insert
<1> HIDE DEF left
<1>6. SameRam(left, InsertPart(left, KernelEnd, High(e), k))
  <2>1. Typed(left)
    BY <1>4 DEF SameRam
  <2> QED
    BY <1>1, <2>1, PartOther
<1>7. SameRam(t, InsertPart(left, KernelEnd, High(e), k))
  BY <1>4, <1>6 DEF SameRam
<1>8. SameRam(t, parts)
  BY <1>4, <1>7
<1> HIDE DEF parts
<1>9. SameRam(t, some)
  BY <1>2, <1>8
<1> HIDE DEF some
<1>10. SameRam(some, InsertPart(some, s, e, k))
  <2>1. Typed(some)
    BY <1>9 DEF SameRam
  <2> QED
    BY <2>1, PartOther
<1>11. SameRam(t, InsertPart(some, s, e, k))
  BY <1>9, <1>10 DEF SameRam
<1> QED
  BY <1>5, <1>11

LEMMA SameHolds ==
  ASSUME NEW t, NEW w, NEW D, Holds(t, D), SameRam(t, w)
  PROVE  Holds(w, D)
BY DEF Holds, SameRam

\* RAM that does not cover the kernel is put into one slot, if there is one
\* and it is neither the null page nor kernel only.
LEMMA InsertRam ==
  ASSUME NEW t, Typed(t), NEW s \in Nat, NEW e \in Nat, ~ CoversKernel(s, e),
         NEW D, NEW N, Holds(t, D), PagesIn(s, e) = N \ {0}, D \cap N = {}
  PROVE  Typed(Insert(t, s, e, "ram")) /\ Holds(Insert(t, s, e, "ram"), D \cup N)
<1>1. PICK w : w = Insert(t, s, e, "ram")
  OBVIOUS
<1>2. w = InsertPart(t, s, e, "ram")
  BY <1>1 DEF Insert
<1>3. PICK f \in Nat \ {0}, v \in Nat :
         /\ f = First(s) /\ v = e \div PageSize /\ Low(s) = f * PageSize /\ High(e) = v * PageSize
         /\ PagesIn(s, e) = f .. v - 1
  <2>1. PICK f \in Nat \ {0}, v \in Nat : f = First(s) /\ v = e \div PageSize
    BY Bounds
  <2>2. /\ Low(s) = First(s) * PageSize /\ High(e) = (e \div PageSize) * PageSize
        /\ PagesIn(s, e) = First(s) .. (e \div PageSize) - 1
    BY Bounds
  <2>3. Low(s) = f * PageSize /\ High(e) = v * PageSize /\ PagesIn(s, e) = f .. v - 1
    BY <2>1, <2>2, Zenon
  <2> QED
    BY <2>1, <2>3
<1>4. CASE NullPageOnly(s, e) \/ InKernel(s, e)
  <2>1. w = t
    BY <1>2, <1>4 DEF InsertPart
  <2>2. \A p \in N \ {0} : InImage(p)
    <3> SUFFICES ASSUME NEW p \in N \ {0} PROVE InImage(p)
      OBVIOUS
    <3>1. p \in f .. v - 1
      BY <1>3
    <3>2. p \in Int /\ f <= p /\ p + 1 <= v
      BY <1>3, <3>1
    <3>3. f * PageSize <= p * PageSize /\ (p + 1) * PageSize <= v * PageSize
      BY <3>2, PageOrder
    <3>4. PageSize \in Nat \ {0} /\ KernelStart \in Nat /\ KernelEnd \in Nat
      BY BootMapAssumption
    <3>5. (p + 1) * PageSize = p * PageSize + PageSize
      BY <3>2, <3>4
    <3>6. f * PageSize \in Int /\ p * PageSize \in Int /\ v * PageSize \in Int
      BY <3>2, <3>4
    <3>7. ~ NullPageOnly(s, e)
      BY <1>3, <3>3, <3>4, <3>5, <3>6 DEF NullPageOnly
    <3>8. KernelStart <= f * PageSize /\ v * PageSize <= KernelEnd
      BY <1>3, <1>4, <3>7 DEF InKernel
    <3> QED
      BY <3>3, <3>4, <3>5, <3>6, <3>8 DEF InImage
  <2>3. Holds(w, D \cup N)
    BY <2>1, <2>2 DEF Holds
  <2> QED
    BY <1>1, <2>1, <2>3
<1>5. CASE ~ (NullPageOnly(s, e) \/ InKernel(s, e))
  <2>1. w = Put(t, Low(s), High(e), "ram")
    BY <1>2, <1>5 DEF InsertPart
  <2>2. PICK x \in Nat \ {0}, y \in Nat : x = Low(s) /\ y = High(e)
    BY Bounds
  <2>3. Typed(w) /\ \/ ~ Room(t) /\ w = t
                    \/ \E n \in Slots : /\ t[n].start = 0
                                        /\ w = [t EXCEPT ![n] = [start |-> x, end |-> y, type |-> "ram"]]
    <3>1. w = Put(t, x, y, "ram") /\ "ram" \in {"ram", "mmio", "alloc"}
      BY <2>1, <2>2
    <3>2. IsPut(t, Put(t, x, y, "ram"), x, y, "ram")
      BY <3>1, PutDoes, Zenon
    <3> QED
      BY <3>1, <3>2, Zenon DEF IsPut
  <2>4. CASE ~ Room(t) /\ w = t
    BY <1>1, <2>3, <2>4 DEF Holds
  <2>5. ASSUME NEW n \in Slots, t[n].start = 0,
               w = [t EXCEPT ![n] = [start |-> x, end |-> y, type |-> "ram"]]
        PROVE  Holds(w, D \cup N)
    <3>1. t \in [Slots -> Region] /\ RamOf(t, n) = {}
      BY <2>5, EmptyIs DEF Typed
    <3>2. w[n] = [start |-> x, end |-> y, type |-> "ram"] /\ \A i \in Slots : i # n => w[i] = t[i]
      BY <2>5, <3>1
    <3>3. RamOf(w, n) = N \ {0}
      <4>1. RamOf(w, n) = PagesIn(x, y)
        BY <3>2 DEF RamOf
      <4> QED
        BY <2>2, <4>1, BoundsAgain
    <3>4. \A i \in Slots : i # n => RamOf(w, i) = RamOf(t, i)
      BY <3>2 DEF RamOf
    <3>5. \A i \in Slots : RamOf(w, i) \subseteq (D \cup N) \ {0}
      BY <3>3, <3>4 DEF Holds
    <3>6. \A i, j \in Slots : i # j => RamOf(w, i) \cap RamOf(w, j) = {}
      <4> SUFFICES ASSUME NEW i \in Slots, NEW j \in Slots, i # j PROVE RamOf(w, i) \cap RamOf(w, j) = {}
        OBVIOUS
      <4>1. CASE i = n
        BY <3>3, <3>4, <4>1 DEF Holds
      <4>2. CASE j = n
        BY <3>3, <3>4, <4>2 DEF Holds
      <4>3. CASE i # n /\ j # n
        BY <3>4, <4>3 DEF Holds
      <4> QED
        BY <4>1, <4>2, <4>3
    <3>7. Room(t)
      BY <2>5 DEF Room
    <3>8. \A p \in (D \cup N) \ {0} : InImage(p) \/ \E i \in Slots : p \in RamOf(w, i)
      <4> SUFFICES ASSUME NEW p \in (D \cup N) \ {0}, ~ InImage(p) PROVE \E i \in Slots : p \in RamOf(w, i)
        OBVIOUS
      <4>1. CASE p \in N
        BY <3>3, <4>1
      <4>2. CASE p \in D
        <5>1. PICK i \in Slots : p \in RamOf(t, i)
          BY <3>7, <4>2 DEF Holds
        <5>2. i # n
          BY <3>1, <5>1
        <5> QED
          BY <3>4, <5>1, <5>2
      <4> QED
        BY <4>1, <4>2
    <3> QED
      BY <3>5, <3>6, <3>8 DEF Holds
  <2> QED
    BY <1>1, <2>3, <2>4, <2>5
<1> QED
  BY <1>4, <1>5

LEMMA PartTyped ==
  ASSUME NEW t, Typed(t), NEW s \in Nat, NEW e \in Nat, NEW k \in {"ram", "mmio", "alloc"}
  PROVE  Typed(InsertPart(t, s, e, k))
<1>1. Low(s) \in Nat \ {0} /\ High(e) \in Nat
  BY Bounds
<1>2. IsPut(t, Put(t, Low(s), High(e), k), Low(s), High(e), k)
  BY <1>1, PutDoes, Zenon
<1> QED
  BY <1>2 DEF InsertPart, IsPut

LEMMA InsertTyped ==
  ASSUME NEW t, Typed(t), NEW s \in Nat, NEW e \in Nat, NEW k \in {"ram", "mmio", "alloc"}
  PROVE  Typed(Insert(t, s, e, k))
<1> DEFINE left  == IF Low(s) < KernelStart THEN InsertPart(t, Low(s), KernelStart, k) ELSE t
           parts == IF High(e) > KernelEnd THEN InsertPart(left, KernelEnd, High(e), k) ELSE left
           some  == IF CoversKernel(s, e) THEN parts ELSE t
<1>1. Low(s) \in Nat /\ High(e) \in Nat /\ KernelStart \in Nat /\ KernelEnd \in Nat
  BY Bounds, BootMapAssumption
<1>2. Insert(t, s, e, k) = InsertPart(some, s, e, k)
  BY Zenon DEF Insert
<1>3. Typed(left)
  BY <1>1, PartTyped
<1> HIDE DEF left
<1>4. Typed(parts)
  BY <1>1, <1>3, PartTyped
<1> HIDE DEF parts
<1>5. Typed(some)
  BY <1>4
<1> HIDE DEF some
<1> QED
  BY <1>2, <1>5, PartTyped

\* max_pfn only grows, and lies behind every page of the region.
LEMMA PfnGrows ==
  ASSUME maxPfn \in Nat, NEW s \in Nat, NEW e \in Nat
  PROVE  /\ GrownPfn(s, e) \in Nat /\ maxPfn <= GrownPfn(s, e)
         /\ \A p \in PagesIn(s, e) : p < GrownPfn(s, e)
<1>1. PICK f \in Nat \ {0}, v \in Nat :
         /\ f = First(s) /\ v = High(e) \div PageSize /\ Low(s) = f * PageSize /\ High(e) = v * PageSize
         /\ PagesIn(s, e) = f .. v - 1
  <2>1. PICK f \in Nat \ {0}, v \in Nat : f = First(s) /\ v = e \div PageSize
    BY Bounds
  <2>2. /\ Low(s) = First(s) * PageSize /\ High(e) = (e \div PageSize) * PageSize
        /\ PagesIn(s, e) = First(s) .. (e \div PageSize) - 1
        /\ High(e) \div PageSize = e \div PageSize
    BY Bounds
  <2>3. Low(s) = f * PageSize /\ High(e) = v * PageSize /\ PagesIn(s, e) = f .. v - 1
        /\ High(e) \div PageSize = v
    BY <2>1, <2>2, Zenon
  <2> QED
    BY <2>1, <2>3
<1>2. CASE NullPageOnly(s, e)
  <2>1. v * PageSize <= f * PageSize
    BY <1>1, <1>2, BootMapAssumption DEF NullPageOnly
  <2>2. v <= f
    BY <2>1, PageOrder
  <2>3. \A p \in PagesIn(s, e) : FALSE
    <3>1. \A p \in f .. v - 1 : FALSE
      BY <2>2
    <3> QED
      BY <1>1, <3>1, Zenon
  <2>4. GrownPfn(s, e) = maxPfn
    BY <1>2 DEF GrownPfn
  <2> QED
    BY <2>3, <2>4
<1>3. CASE ~ NullPageOnly(s, e)
  <2>1. GrownPfn(s, e) = IF v <= maxPfn THEN maxPfn ELSE v
    <3>1. GrownPfn(s, e) = IF High(e) \div PageSize <= maxPfn THEN maxPfn ELSE High(e) \div PageSize
      BY <1>3, Zenon DEF GrownPfn
    <3> QED
      BY <1>1, <3>1, Zenon
  <2>2. \A p \in f .. v - 1 : p < v /\ p \in Int
    OBVIOUS
  <2>3. \A p \in PagesIn(s, e) : p < v /\ p \in Int
    BY <1>1, <2>2, Zenon
  <2>4. GrownPfn(s, e) \in Nat /\ maxPfn <= GrownPfn(s, e) /\ v <= GrownPfn(s, e)
    BY <2>1
  <2> QED
    BY <2>3, <2>4
<1> QED
  BY <1>2, <1>3

-----------------------------------------------------------------------------
(* From the map to the pages that are released. *)

\* The map that is handed over has whole pages, none twice, and its usable
\* pages are the firmware's.
LEMMA HandedIsFine ==
  ASSUME LoaderInv, Smooth, stage # "loader"
  PROVE  WellFormed(given) /\ DescPages(given, UsableTypes) = Usables
<1>1. OwnerOK /\ Handed(given) /\ given \in Seq(Desc)
  BY DEF LoaderInv, LoaderTypes, CopyTells
<1>2. PICK b \in Seq(Desc) : given = Append(b, ScreenDescriptor) /\ Tells(b)
  BY <1>1 DEF Handed
<1> DEFINE n == Len(b)
<1>3. /\ n \in Nat /\ Len(given) = n + 1 /\ DOMAIN b = 1 .. n
      /\ (\A i \in 1 .. n : given[i] = b[i]) /\ given[n + 1] = ScreenDescriptor
  BY <1>2, ScreenCovers
<1> HIDE DEF n
<1>4. \A i \in 1 .. n : Fine(given[i]) /\ Covered(given[i]) \subseteq Ram
  BY <1>2, <1>3 DEF Tells, Fine
<1>5. Fine(given[n + 1]) /\ Covered(given[n + 1]) = Screen
  BY <1>3, ScreenCovers DEF Fine
<1>6. Screen \cap Ram = {}
  BY BootAssumption DEF Ram
<1>7. \A i, j \in 1 .. n + 1 : i # j => Apart(given[i], given[j])
  <2> SUFFICES ASSUME NEW i \in 1 .. n + 1, NEW j \in 1 .. n + 1, i # j PROVE Apart(given[i], given[j])
    OBVIOUS
  <2>1. CASE i = n + 1
    BY <1>3, <1>4, <1>5, <1>6, <2>1 DEF Apart
  <2>2. CASE j = n + 1
    BY <1>3, <1>4, <1>5, <1>6, <2>2 DEF Apart
  <2>3. CASE i \in 1 .. n /\ j \in 1 .. n
    BY <1>2, <1>3, <2>3 DEF Apart, Tells
  <2> QED
    BY <1>3, <2>1, <2>2, <2>3
<1>8. WellFormed(given)
  BY <1>3, <1>4, <1>5, <1>7 DEF WellFormed
<1>9. DescPages(given, UsableTypes) = Usables
  <2>1. \A k \in UsableTypes : k \in Types /\ k # "mmio"
    BY DEF Types, UsableTypes
  <2>2. \A k \in UsableTypes : DescPages(given, {k}) = Owned(k)
    BY <1>1, <2>1, HandedTells
  <2>3. \A p : p \in DescPages(given, UsableTypes) <=> \E k \in UsableTypes : p \in DescPages(given, {k})
    <3> TAKE p
    <3>1. p \in DescPages(given, UsableTypes) <=>
            \E i \in DOMAIN given : given[i].type \in UsableTypes /\ p \in Covered(given[i])
      BY DescIn
    <3>2. ASSUME NEW k
          PROVE  p \in DescPages(given, {k}) <=>
                   \E i \in DOMAIN given : given[i].type = k /\ p \in Covered(given[i])
      <4>1. p \in DescPages(given, {k}) <=>
              \E i \in DOMAIN given : given[i].type \in {k} /\ p \in Covered(given[i])
        BY DescIn
      <4> QED
        BY <4>1
    <3> QED
      BY <3>1, <3>2, Zenon
  <2>4. \A p : p \in Usables <=> \E k \in UsableTypes : p \in Owned(k)
    BY DEF Usables, Owned
  <2> QED
    BY <2>2, <2>3, <2>4
<1> QED
  BY <1>8, <1>9

LEMMA ApartStep ==
  ASSUME CleanInv, StillApart, WellFormed(given), CleanOne
  PROVE  StillApart'
<1> DEFINE d == map[next]
<1>1. CleanTypes /\ Compacting /\ stage = "clean" /\ next <= Len(map)
      /\ next' = next + 1 /\ given' = given
  BY DEF CleanInv, CleanOne
<1>2. /\ next \in Nat \ {0} /\ kept \in Nat /\ lastFree \in Nat
      /\ kept < next /\ lastFree <= kept /\ Len(map) = Len(given) /\ Len(given) \in Nat
      /\ next \in 1 .. Len(given) /\ kept + 1 \in 1 .. Len(given)
  BY <1>1 DEF CleanTypes, Compacting
<1>3. d = given[next] /\ d \in Desc
  BY <1>1, <1>2 DEF CleanTypes, Compacting
<1>4. Fine(d) /\ \A j \in next + 1 .. Len(given) : Apart(d, given[j])
  BY <1>2, <1>3 DEF WellFormed
<1>5. \A i \in 1 .. kept : Apart(map[i], d)
  BY <1>2, <1>3 DEF StillApart
<1>6. CASE Usable(d) /\ Grows(d)
  <2> DEFINE g == [map[lastFree] EXCEPT !.npages = @ + d.npages]
  <2>1. /\ lastFree \in 1 .. kept /\ lastFree \in 1 .. Len(map) /\ map[lastFree] \in Desc
        /\ d.start = map[lastFree].start + map[lastFree].npages * PageSize
    BY <1>1, <1>2, <1>6 DEF Grows, CleanTypes
  <2>2. /\ map' = [map EXCEPT ![lastFree] = g] /\ kept' = kept
    BY <1>3, <1>6 DEF CleanOne
  <2>3. g \in Desc /\ g.start = map[lastFree].start /\ g.npages # 0
    <3>1. Fine(map[lastFree]) /\ map[lastFree].npages \in Nat /\ d.npages \in Nat
      BY <1>3, <2>1 DEF StillApart, Desc
    <3>2. g.npages = map[lastFree].npages + d.npages /\ g.start = map[lastFree].start
      BY <2>1 DEF Desc
    <3>3. g \in Desc
      BY <1>3, <2>1 DEF Desc
    <3> QED
      BY <3>1, <3>2, <3>3 DEF Fine
  <2>4. Covered(g) = Covered(map[lastFree]) \cup Covered(d)
    BY <1>3, <2>1, GrownCovers
  <2> HIDE DEF g
  <2>5. PICK w \in Seq(Desc) : w = map' /\ Len(w) = Len(map) /\ w[lastFree] = g
        /\ \A i \in 1 .. Len(map) : i # lastFree => w[i] = map[i]
    BY <1>1, <2>1, <2>2, <2>3 DEF CleanTypes
  <2>6. \A i \in 1 .. kept : Fine(w[i])
    BY <1>2, <2>1, <2>3, <2>5 DEF StillApart, Fine
  <2>7. \A i, j \in 1 .. kept : i # j => Apart(w[i], w[j])
    <3> SUFFICES ASSUME NEW i \in 1 .. kept, NEW j \in 1 .. kept, i # j PROVE Apart(w[i], w[j])
      OBVIOUS
    <3>1. CASE i = lastFree
      <4>1. Apart(map[lastFree], map[j]) /\ Apart(map[j], d)
        BY <1>5, <2>1, <3>1 DEF StillApart, Apart
      <4>2. w[i] = g /\ w[j] = map[j]
        BY <1>2, <2>1, <2>5, <3>1
      <4> QED
        BY <2>4, <4>1, <4>2 DEF Apart
    <3>2. CASE j = lastFree
      <4>1. Apart(map[lastFree], map[i]) /\ Apart(map[i], d)
        BY <1>5, <2>1, <3>2 DEF StillApart, Apart
      <4>2. w[j] = g /\ w[i] = map[i]
        BY <1>2, <2>1, <2>5, <3>2
      <4> QED
        BY <2>4, <4>1, <4>2 DEF Apart
    <3>3. CASE i # lastFree /\ j # lastFree
      BY <1>2, <2>5, <3>3 DEF StillApart
    <3> QED
      BY <3>1, <3>2, <3>3
  <2>8. \A i \in 1 .. kept, j \in next + 1 .. Len(given) : Apart(w[i], given[j])
    <3> SUFFICES ASSUME NEW i \in 1 .. kept, NEW j \in next + 1 .. Len(given) PROVE Apart(w[i], given[j])
      OBVIOUS
    <3>1. Apart(map[i], given[j]) /\ Apart(d, given[j])
      BY <1>2, <1>4 DEF StillApart
    <3>2. CASE i = lastFree
      BY <2>4, <2>5, <3>1, <3>2 DEF Apart
    <3>3. CASE i # lastFree
      BY <1>2, <2>5, <3>1, <3>3
    <3> QED
      BY <3>2, <3>3
  <2> QED
    BY <1>1, <2>2, <2>5, <2>6, <2>7, <2>8 DEF StillApart
<1>7. ASSUME NEW e \in Desc, map' = [map EXCEPT ![kept + 1] = e], kept' = kept + 1,
             Fine(e), Covered(e) = Covered(d)
      PROVE  StillApart'
  <2>1. PICK w \in Seq(Desc) : w = map' /\ Len(w) = Len(map) /\ w[kept + 1] = e
        /\ \A i \in 1 .. Len(map) : i # kept + 1 => w[i] = map[i]
    BY <1>1, <1>2, <1>7 DEF CleanTypes
  <2>2. \A i \in 1 .. kept : w[i] = map[i]
    BY <1>2, <2>1
  <2>3. \A i \in 1 .. kept + 1 : i \in 1 .. kept \/ i = kept + 1
    BY <1>2
  <2>4. \A i \in 1 .. kept + 1 : Fine(w[i])
    BY <1>7, <2>1, <2>2, <2>3 DEF StillApart
  <2>5. \A i, j \in 1 .. kept + 1 : i # j => Apart(w[i], w[j])
    <3> SUFFICES ASSUME NEW i \in 1 .. kept + 1, NEW j \in 1 .. kept + 1, i # j PROVE Apart(w[i], w[j])
      OBVIOUS
    <3>1. CASE i = kept + 1
      BY <1>5, <1>7, <2>1, <2>2, <2>3, <3>1 DEF Apart
    <3>2. CASE j = kept + 1
      BY <1>5, <1>7, <2>1, <2>2, <2>3, <3>2 DEF Apart
    <3>3. CASE i \in 1 .. kept /\ j \in 1 .. kept
      BY <2>2, <3>3 DEF StillApart
    <3> QED
      BY <2>3, <3>1, <3>2, <3>3
  <2>6. \A i \in 1 .. kept + 1, j \in next + 1 .. Len(given) : Apart(w[i], given[j])
    <3> SUFFICES ASSUME NEW i \in 1 .. kept + 1, NEW j \in next + 1 .. Len(given) PROVE Apart(w[i], given[j])
      OBVIOUS
    <3>1. CASE i = kept + 1
      BY <1>4, <1>7, <2>1, <3>1 DEF Apart
    <3>2. CASE i \in 1 .. kept
      BY <1>2, <2>2, <3>2 DEF StillApart
    <3> QED
      BY <2>3, <3>1, <3>2
  <2> QED
    BY <1>1, <1>7, <2>1, <2>4, <2>5, <2>6 DEF StillApart
<1>8. CASE Usable(d) /\ ~ Grows(d)
  <2> DEFINE e == [d EXCEPT !.type = "conventional"]
  <2>1. map' = [map EXCEPT ![kept + 1] = e] /\ kept' = kept + 1
    BY <1>8 DEF CleanOne
  <2>2. e \in Desc /\ e.start = d.start /\ e.npages = d.npages
    BY <1>3 DEF Desc, Types, UsableTypes
  <2> HIDE DEF e
  <2>3. Fine(e) /\ Covered(e) = Covered(d)
    BY <1>4, <2>2 DEF Fine, Covered
  <2> QED
    BY <1>7, <2>1, <2>2, <2>3
<1>9. CASE ~ Usable(d)
  <2>1. map' = [map EXCEPT ![kept + 1] = d] /\ kept' = kept + 1
    BY <1>9 DEF CleanOne
  <2> QED
    BY <1>3, <1>4, <1>7, <2>1
<1> QED
  BY <1>6, <1>8, <1>9

LEMMA ApartDone ==
  ASSUME CleanInv, StillApart, CleanDone
  PROVE  WellFormed(map)'
<1>1. CleanTypes /\ Compacting /\ map' = SubSeq(map, 1, kept) /\ next > Len(map)
  BY DEF CleanInv, CleanDone
<1>2. kept \in Nat /\ next \in Nat /\ Len(given) \in Nat
  BY <1>1 DEF CleanTypes
<1>3. kept < next /\ next <= Len(given) + 1 /\ Len(map) = Len(given)
  BY <1>1 DEF Compacting
<1>4. kept \in 0 .. Len(map)
  BY <1>1, <1>2, <1>3
<1>5. PICK w \in Seq(Desc) : w = map' /\ Len(w) = kept /\ \A i \in 1 .. kept : w[i] = map[i]
  BY <1>1, <1>4 DEF CleanTypes
<1>6. WellFormed(w)
  BY <1>5 DEF WellFormed, StillApart
<1> QED
  BY <1>5, <1>6 DEF WellFormed

\* No usable descriptor covers the kernel: the loader has put its segments
\* there.
LEMMA NoneCovers ==
  ASSUME LoaderInv, Smooth, stage # "loader", NEW d \in Desc, Fine(d), Covered(d) \subseteq Usables
  PROVE  ~ CoversKernel(d.start, d.start + d.npages * PageSize)
<1>1. PICK x \in Nat, n \in Nat : x = d.start /\ n = d.npages
  BY DEF Desc
<1>2. PICK a \in Nat : a = x \div PageSize
  BY InPage
<1>3. x = a * PageSize
  BY <1>1, <1>2 DEF Fine
<1>4. PageSize \in Nat \ {0} /\ KernelStart \in Nat /\ KernelEnd \in Nat
  BY BootMapAssumption
<1>5. PICK e \in Nat : e = x + n * PageSize
  BY <1>4, Whole
<1>6. e = (a + n) * PageSize
  BY <1>3, <1>4, <1>5
<1>7. PICK k \in DOMAIN Segments : KernelStart = Segments[k].start * PageSize
  BY BootAssumption
<1>8. DOMAIN Segments = 1 .. Len(Segments) /\ Len(Segments) \in Nat
  BY BootAssumption
<1>9. PICK b \in Nat, m \in Nat \ {0} : b = Segments[k].start /\ m = Segments[k].pages
  BY <1>8, SegmentType
<1>10. KernelStart = b * PageSize /\ (b + m) * PageSize <= KernelEnd
  BY <1>7, <1>9, BootAssumption
<1>11. b \in Owned("loadercode")
  <2>1. segment > Len(Segments) /\ segment \in Nat
    BY DEF LoaderInv, LoaderTypes, SegmentsPlaced, CopyTells
  <2>2. k \in 1 .. segment - 1
    BY <1>8, <2>1
  <2>3. Run(Segments[k].start, Segments[k].pages) \subseteq Owned("loadercode")
    BY <2>2 DEF LoaderInv, SegmentsPlaced
  <2>4. b \in Run(b, m)
    BY DEF Run
  <2> QED
    BY <1>9, <2>3, <2>4
<1>12. b \notin Usables
  BY <1>11 DEF Owned, Usables, UsableTypes
<1>13. SUFFICES ASSUME CoversKernel(x, e) PROVE FALSE
  BY <1>1, <1>5
<1>14. Low(x) <= KernelStart /\ KernelEnd <= High(e)
  <2>1. Low(x) \in Nat /\ High(e) \in Nat
    BY Bounds
  <2> QED
    BY <1>4, <1>13, <2>1 DEF CoversKernel
<1>15. a <= b
  <2>1. PICK f \in Nat : f = First(x) /\ Low(x) = f * PageSize
    BY Bounds
  <2>2. f * PageSize <= b * PageSize
    BY <1>10, <1>14, <2>1
  <2>3. f <= b
    BY <2>2, PageOrder
  <2>4. Up(x) = a
    BY <1>3, UpWhole
  <2>5. a <= f
    BY <2>1, <2>4 DEF First
  <2> QED
    BY <2>3, <2>5
<1>16. b + m <= a + n
  <2>1. (a + n) * PageSize \in Nat /\ ((a + n) * PageSize) \div PageSize = a + n
    BY Whole
  <2>2. High(e) = (e \div PageSize) * PageSize
    BY Bounds
  <2>3. High(e) = (a + n) * PageSize
    BY <1>6, <2>1, <2>2, Zenon
  <2>4. (b + m) * PageSize <= (a + n) * PageSize
    <3>1. PICK u \in Int, v \in Int : u = (b + m) * PageSize /\ v = (a + n) * PageSize
      BY <1>4
    <3>2. u <= KernelEnd /\ KernelEnd <= v
      BY <1>10, <1>14, <2>3, <3>1
    <3> QED
      BY <1>4, <3>1, <3>2
  <2> QED
    BY <2>4, PageOrder
<1>17. b \in Covered(d)
  <2>1. Covered(d) = a .. a + n - 1
    BY <1>1, <1>2 DEF Covered
  <2> QED
    BY <1>15, <1>16, <2>1
<1> QED
  BY <1>12, <1>17

LEMMA CopyStep ==
  ASSUME LoaderInv, CleanInv, MemoryInv, Smooth, InsertOne
  PROVE  Typed(regions') /\ maxPfn' \in Nat /\ Copying'
<1> DEFINE D == PagesTo(map, next - 1, {"conventional"})
           d == map[next]
           e == d.start + d.npages * PageSize
<1>1. /\ stage = "insert" /\ next <= Len(map) /\ next' = next + 1 /\ map' = map
      /\ next \in Nat \ {0} /\ Len(map) \in Nat /\ map \in Seq(Desc) /\ next \in 1 .. Len(map)
  BY DEF InsertOne, CleanInv, CleanTypes
<1>2. /\ Typed(regions) /\ maxPfn \in Nat /\ WellFormed(map)
      /\ Holds(regions, D) /\ \A p \in D \ {0} : p < maxPfn
  BY <1>1 DEF MemoryInv, Copying
<1>3. d \in Desc /\ Fine(d)
  BY <1>1, <1>2 DEF WellFormed
<1>4. PICK s \in Nat, f \in Nat : s = d.start /\ f = e
  BY <1>3, FinePages DEF Desc
<1>5. PagesIn(s, f) = Covered(d) \ {0}
  BY <1>3, <1>4, FinePages, Zenon
<1>6. PagesTo(map, next, {"conventional"}) = D \cup (IF d.type = "conventional" THEN Covered(d) ELSE {})
  <2>1. PICK n \in Nat : n = next - 1 /\ n + 1 = next
    BY <1>1
  <2>2. PagesTo(map, n + 1, {"conventional"}) =
          PagesTo(map, n, {"conventional"}) \cup (IF map[n + 1].type \in {"conventional"} THEN Covered(map[n + 1]) ELSE {})
    BY <1>3, <2>1, PagesMore
  <2> QED
    BY <2>1, <2>2
<1>7. next' - 1 = next /\ next' <= Len(map) + 1
  BY <1>1
<1>8. CASE d.type = "conventional"
  <2>1. regions' = Insert(regions, s, f, "ram") /\ maxPfn' = GrownPfn(s, f)
    BY <1>4, <1>8 DEF InsertOne, KindOf
  <2>2. D \cap Covered(d) = {}
    <3> SUFFICES ASSUME NEW p \in D, p \in Covered(d) PROVE FALSE
      OBVIOUS
    <3>1. PICK i \in 1 .. next - 1 : p \in Covered(map[i])
      BY DEF PagesTo
    <3>2. i \in 1 .. Len(map) /\ i # next
      BY <1>1, <3>1
    <3>3. Apart(map[i], map[next])
      BY <1>1, <1>2, <3>2 DEF WellFormed
    <3> QED
      BY <3>1, <3>3 DEF Apart
  <2>3. Covered(d) \subseteq Usables
    <3>1. DescPages(map, {"conventional"}) = DescPages(given, UsableTypes)
      BY <1>1 DEF CleanInv
    <3>2. DescPages(given, UsableTypes) = Usables
      BY <1>1, HandedIsFine
    <3>3. next \in DOMAIN map
      BY <1>1
    <3>4. \A p \in Covered(d) : p \in DescPages(map, {"conventional"})
      BY <1>8, <3>3, DescIn
    <3> QED
      BY <3>1, <3>2, <3>4
  <2>4. ~ CoversKernel(s, f)
    <3>1. ~ CoversKernel(d.start, e)
      BY <1>1, <1>3, <2>3, NoneCovers
    <3> QED
      BY <1>4, <3>1, Zenon
  <2>5. PICK N : N = Covered(d)
    OBVIOUS
  <2> HIDE DEF D, d, e
  <2>6. Typed(Insert(regions, s, f, "ram")) /\ Holds(Insert(regions, s, f, "ram"), D \cup N)
    BY <1>2, <1>5, <2>2, <2>4, <2>5, InsertRam
  <2>7. maxPfn' \in Nat /\ maxPfn <= maxPfn' /\ \A p \in Covered(d) \ {0} : p < maxPfn'
    BY <1>2, <1>5, <2>1, PfnGrows
  <2>8. \A p \in (D \cup N) \ {0} : p < maxPfn'
    <3>1. D \subseteq Int
      BY DEF D, PagesTo
    <3> QED
      BY <1>2, <2>5, <2>7, <3>1
  <2>9. PagesTo(map, next, {"conventional"}) = D \cup N
    BY <1>6, <1>8, <2>5
  <2>10. PagesTo(map', next' - 1, {"conventional"}) = D \cup N
    BY <1>1, <1>7, <2>9
  <2>11. Holds(regions', D \cup N)
    BY <2>1, <2>6
  <2> QED
    BY <1>1, <1>7, <2>1, <2>6, <2>7, <2>8, <2>10, <2>11 DEF Copying
<1>9. CASE d.type # "conventional"
  <2>1. \/ regions' = Insert(regions, s, f, "mmio") /\ maxPfn' = GrownPfn(s, f)
        \/ UNCHANGED <<regions, maxPfn>>
    BY <1>4, <1>9 DEF InsertOne, KindOf
  <2> HIDE DEF D, d, e
  <2>2. SameRam(regions, regions')
    <3>1. SameRam(regions, regions)
      BY <1>2 DEF SameRam
    <3>2. SameRam(regions, Insert(regions, s, f, "mmio"))
      BY <1>2, InsertOther
    <3> QED
      BY <2>1, <3>1, <3>2
  <2>3. PICK w : w = regions'
    OBVIOUS
  <2>4. Typed(w) /\ Holds(w, D)
    <3>1. SameRam(regions, w)
      BY <2>2, <2>3
    <3>2. Holds(w, D)
      BY <1>2, <3>1, SameHolds
    <3> QED
      BY <3>1, <3>2 DEF SameRam
  <2>5. maxPfn' \in Nat /\ maxPfn <= maxPfn'
    <3>1. GrownPfn(s, f) \in Nat /\ maxPfn <= GrownPfn(s, f)
      BY <1>2, PfnGrows
    <3>2. maxPfn' = GrownPfn(s, f) \/ maxPfn' = maxPfn
      BY <2>1
    <3> QED
      BY <1>2, <3>1, <3>2
  <2>6. \A p \in D \ {0} : p < maxPfn'
    <3>1. D \subseteq Int
      BY DEF D, PagesTo
    <3> QED
      BY <1>2, <2>5, <3>1
  <2>7. PagesTo(map', next' - 1, {"conventional"}) = D
    BY <1>1, <1>6, <1>7, <1>9
  <2> QED
    BY <1>1, <1>7, <2>3, <2>4, <2>5, <2>6, <2>7 DEF Copying
<1> QED
  BY <1>8, <1>9

\* The array is taken from the start of a slot that is larger.
LEMMA ArrayPlaced ==
  ASSUME NEW t, Typed(t), NEW D, Holds(t, D), NEW i \in Slots, t[i].type = "ram", t[i].start # 0,
         NEW size \in Nat \ {0}, NEW s, s = AlignUp(t[i].start),
         AlignDown(t[i].end) - s > size, NEW A, A = (s \div PageSize) .. ((s + size - 1) \div PageSize)
  PROVE  LET w == [t EXCEPT ![i].start = s + size]
         IN  s \in Nat /\ Typed(w) /\ Holds(w, D \ A)
<1> DEFINE w == [t EXCEPT ![i].start = s + size]
<1>1. PICK b \in Nat \ {0}, e \in Nat : b = t[i].start /\ e = t[i].end
  BY DEF Typed, Region
<1>2. PageSize \in Nat \ {0}
  BY BootMapAssumption
<1>3. PICK u \in Nat \ {0} : u = Up(b)
  BY <1>1, UpIs
<1>4. s = u * PageSize
  <2>1. AlignUp(b) = Up(b) * PageSize
    BY <1>1, Bounds
  <2> QED
    BY <1>1, <1>3, <2>1
<1>5. s \in Nat \ {0} /\ s \div PageSize = u
  <2>1. 1 * PageSize <= u * PageSize
    BY <1>3, PageOrder
  <2>2. u * PageSize \in Nat /\ (u * PageSize) \div PageSize = u
    BY Whole
  <2> QED
    BY <1>2, <1>4, <2>1, <2>2
<1>6. PICK v \in Nat : v = e \div PageSize
  BY <1>1, InPage
<1>7. AlignDown(e) = v * PageSize
  BY <1>6 DEF AlignDown
<1>8. PICK x \in Nat : x = s + size - 1 /\ x # 0
  BY <1>5
<1>9. PICK l \in Nat : l = x \div PageSize
  BY <1>8, InPage
<1>10. Up(s + size) = l + 1
  <2>1. PICK y \in Nat \ {0} : y = s + size /\ y - 1 = x
    BY <1>5, <1>8
  <2>2. Up(y) = (y - 1) \div PageSize + 1
    BY <2>1, UpIs
  <2> QED
    BY <1>9, <2>1, <2>2
<1>11. u <= l /\ l < v
  <2>1. u <= l
    <3>1. x >= s /\ x < (l + 1) * PageSize
      BY <1>5, <1>8, <1>9, InPage
    <3>2. (l + 1) * PageSize <= u * PageSize => FALSE
      BY <1>2, <1>4, <1>5, <3>1
    <3>3. l + 1 <= u => FALSE
      BY <3>2, PageOrder
    <3> QED
      BY <3>3
  <2>2. l * PageSize <= x
    BY <1>8, <1>9, InPage
  <2>3. x < v * PageSize
    <3>1. AlignDown(e) - s > size
      BY <1>1
    <3>2. v * PageSize \in Nat
      BY Whole
    <3> QED
      BY <1>5, <1>7, <1>8, <3>1, <3>2
  <2>4. v <= l => FALSE
    <3>1. v <= l => v * PageSize <= l * PageSize
      BY PageOrder
    <3>2. v * PageSize \in Nat /\ l * PageSize \in Nat
      BY Whole
    <3> QED
      BY <2>2, <2>3, <3>1, <3>2
  <2> QED
    BY <2>1, <2>4
<1>12. A = u .. l
  BY <1>5, <1>8, <1>9
<1>13. RamOf(t, i) = u .. v - 1
  <2>1. PagesIn(b, e) = First(b) .. (e \div PageSize) - 1
    BY Bounds
  <2>2. First(b) = u
    BY <1>3 DEF First
  <2>3. PagesIn(b, e) = u .. v - 1
    BY <1>6, <2>1, <2>2, Zenon
  <2> QED
    BY <1>1, <2>3 DEF RamOf
<1>14. /\ w \in [Slots -> Region] /\ w[i].start = s + size /\ w[i].end = e /\ w[i].type = "ram"
       /\ \A j \in Slots : j # i => w[j] = t[j]
  <2>1. t \in [Slots -> Region] /\ t[i] \in Region
    BY DEF Typed
  <2>2. s + size \in Nat
    BY <1>5
  <2> QED
    BY <1>1, <2>1, <2>2 DEF Region
<1> HIDE DEF w
<1>15. Typed(w)
  <2>1. w[i].start # 0
    BY <1>5, <1>14
  <2> QED
    BY <1>14, <2>1 DEF Typed
<1>16. RamOf(w, i) = l + 1 .. v - 1
  <2>1. PICK y \in Nat : y = s + size
    BY <1>5
  <2>2. PagesIn(y, e) = First(y) .. (e \div PageSize) - 1
    BY Bounds
  <2>3. First(y) = l + 1
    BY <1>10, <2>1 DEF First
  <2>4. PagesIn(y, e) = l + 1 .. v - 1
    BY <1>6, <2>2, <2>3, Zenon
  <2> QED
    BY <1>14, <2>1, <2>4 DEF RamOf
<1>17. RamOf(w, i) = RamOf(t, i) \ A /\ A \subseteq RamOf(t, i)
  <2>1. l + 1 .. v - 1 = (u .. v - 1) \ (u .. l) /\ u .. l \subseteq u .. v - 1
    BY <1>11
  <2> QED
    BY <1>12, <1>13, <1>16, <2>1, Zenon
<1>18. \A j \in Slots : j # i => RamOf(w, j) = RamOf(t, j) /\ RamOf(t, j) \cap A = {}
  BY <1>14, <1>17 DEF RamOf, Holds
<1>19. \A j \in Slots : RamOf(w, j) = RamOf(t, j) \ A
  BY <1>17, <1>18
<1>20. Room(w) => Room(t)
  <2>1. w[i].start # 0
    BY <1>5, <1>14
  <2> QED
    BY <1>14, <2>1 DEF Room
<1>21. Holds(w, D \ A)
  <2>1. \A j \in Slots : RamOf(w, j) \subseteq (D \ A) \ {0}
    BY <1>19 DEF Holds
  <2>2. \A j, k \in Slots : j # k => RamOf(w, j) \cap RamOf(w, k) = {}
    BY <1>19 DEF Holds
  <2>3. Room(w) => \A p \in (D \ A) \ {0} : InImage(p) \/ \E j \in Slots : p \in RamOf(w, j)
    BY <1>19, <1>20 DEF Holds
  <2> QED
    BY <2>1, <2>2, <2>3 DEF Holds
<1> QED
  BY <1>5, <1>15, <1>21 DEF w

LEMMA AllocStep ==
  ASSUME LoaderInv, CleanInv, MemoryInv, NEW size \in DescriptorSizes, BootmemAlloc(size), UNCHANGED loader
  PROVE  MemoryInv'
<1> DEFINE fit == {i \in 1 .. MaxRegions : Fits(i, size)}
           i   == Least(fit)
           s   == AlignUp(regions[i].start)
<1>1. /\ stage = "insert" /\ next > Len(map) /\ next' = 1 /\ UNCHANGED <<map, given>>
      /\ freed' = [p \in 0 .. maxPfn - 1 |-> 0]
      /\ Typed(regions) /\ maxPfn \in Nat /\ (Smooth => WellFormed(map) /\ Copying)
  BY DEF BootmemAlloc, MemoryInv
<1>2. size \in Nat \ {0}
  BY BootMapAssumption
<1>3. Smooth' = Smooth /\ (WellFormed(map) => WellFormed(map)')
  BY <1>1 DEF loader, Smooth, WellFormed
<1>4. DOMAIN freed' = 0 .. maxPfn - 1 /\ \A p \in DOMAIN freed' : freed'[p] = 0
  BY <1>1
<1>5. CASE fit = {}
  <2>1. stage' = "panic" /\ UNCHANGED <<regions, maxPfn>>
    BY <1>5 DEF BootmemAlloc
  <2> QED
    BY <1>1, <1>3, <1>4, <2>1 DEF MemoryInv
<1>6. CASE fit # {}
  <2>1. /\ regions' = Insert([regions EXCEPT ![i].start = s + size], s, s + size, "alloc")
        /\ pagesArray' = [start |-> s, end |-> s + size]
        /\ maxPfn' = GrownPfn(s, s + size)
        /\ stage' = "release"
    BY <1>6 DEF BootmemAlloc
  <2>2. i \in fit
    <3>1. fit \in SUBSET Nat
      OBVIOUS
    <3> HIDE DEF fit
    <3>2. PICK n \in fit : \A m \in fit : n <= m
      BY <1>6, <3>1, Lowest
    <3> QED
      BY <3>2, Zenon DEF Least
  <2>3. PICK k \in Slots : k = i
    BY <2>2 DEF Slots
  <2>4. Fits(k, size)
    BY <2>2, <2>3
  <2> HIDE DEF fit, i
  <2>5. PICK r \in Nat : r = s
    <3>1. regions[k].start \in Nat
      BY <1>1 DEF Typed, Region
    <3>2. AlignUp(regions[k].start) = Up(regions[k].start) * PageSize /\ Up(regions[k].start) \in Nat
      BY <3>1, Bounds, UpIs
    <3>3. AlignUp(regions[k].start) \in Nat
      BY <3>2, Whole
    <3> QED
      BY <2>3, <3>3
  <2>6. r = AlignUp(regions[k].start)
    BY <2>3, <2>5
  <2> HIDE DEF s
  <2>7. PICK w : w = [regions EXCEPT ![k].start = r + size]
    OBVIOUS
  <2>8. /\ regions' = Insert(w, r, r + size, "alloc")
        /\ pagesArray' = [start |-> r, end |-> r + size]
        /\ maxPfn' = GrownPfn(r, r + size)
    BY <2>1, <2>3, <2>5, <2>7
  <2>9. /\ regions[k].type = "ram" /\ regions[k].start # 0
        /\ AlignDown(regions[k].end) - r > size
    BY <2>4, <2>6 DEF Fits
  <2>10. Typed(w)
    <3>1. regions \in [Slots -> Region] /\ regions[k] \in Region /\ r + size \in Nat /\ r + size # 0
      BY <1>1, <1>2 DEF Typed
    <3>2. w \in [Slots -> Region] /\ w[k].start = r + size /\ \A j \in Slots : j # k => w[j] = regions[j]
      BY <2>7, <3>1 DEF Region
    <3> QED
      BY <1>1, <3>1, <3>2 DEF Typed
  <2>11. SameRam(w, regions')
    <3>1. r + size \in Nat
      BY <1>2
    <3> QED
      BY <2>8, <2>10, <3>1, InsertOther
  <2>12. PICK t : t = regions' /\ Typed(t) /\ SameRam(w, t)
    BY <2>11 DEF SameRam
  <2>13. maxPfn' \in Nat /\ maxPfn <= maxPfn'
    BY <1>1, <1>2, <2>8, PfnGrows
  <2>14. ASSUME Smooth PROVE Releasing'
    <3>1. PagesTo(map, next - 1, {"conventional"}) = Usables
      <4>1. map \in Seq(Desc) /\ Len(map) \in Nat /\ next \in Nat
        BY DEF CleanInv, CleanTypes
      <4>2. next - 1 = Len(map)
        BY <1>1, <2>14, <4>1 DEF Copying
      <4>3. PagesTo(map, Len(map), {"conventional"}) = DescPages(map, {"conventional"})
        BY <4>1, AllPages
      <4>4. DescPages(map, {"conventional"}) = DescPages(given, UsableTypes)
        BY <1>1 DEF CleanInv
      <4>5. DescPages(given, UsableTypes) = Usables
        BY <1>1, <2>14, HandedIsFine
      <4> QED
        BY <4>2, <4>3, <4>4, <4>5
    <3>2. Holds(regions, Usables) /\ \A p \in Usables \ {0} : p < maxPfn
      BY <1>1, <2>14, <3>1 DEF Copying
    <3>3. PICK A : A = (r \div PageSize) .. ((r + size - 1) \div PageSize)
      OBVIOUS
    <3>4. Holds([regions EXCEPT ![k].start = r + size], Usables \ A)
      BY <1>1, <1>2, <2>6, <2>9, <3>2, <3>3, ArrayPlaced
    <3>5. Holds(t, Usables \ A)
      BY <2>7, <2>12, <3>4, SameHolds
    <3>6. ArrayPages' = A
      <4>1. pagesArray'.start = r /\ pagesArray'.end = r + size
        BY <2>8
      <4>2. PICK x \in Int : x = r + size - 1
        BY <1>2
      <4>3. pagesArray'.end - 1 = x
        BY <1>2, <4>1, <4>2
      <4>4. A = (r \div PageSize) .. (x \div PageSize)
        BY <3>3, <4>2, Zenon
      <4> QED
        BY <4>1, <4>3, <4>4, Zenon DEF ArrayPages
    <3>7. Usables' = Usables
      BY DEF loader, Usables
    <3>8. Holds(regions', Usables' \ ArrayPages')
      BY <2>12, <3>5, <3>6, <3>7
    <3>9. \A p \in Usables' \ {0} : p \in DOMAIN freed'
      <4>1. \A p \in Usables : p \in Nat
        BY RamNat DEF Usables
      <4>2. \A p \in Usables \ {0} : p \in 0 .. maxPfn - 1
        BY <1>1, <3>2, <4>1
      <4> QED
        BY <1>4, <3>7, <4>2
    <3>10. \A p \in DOMAIN freed' : p \in Nat /\ p < maxPfn' /\ freed'[p] = 0
      BY <1>1, <1>4, <2>13
    <3>11. ~ \E j \in Slots : j < next'
      BY <1>1 DEF Slots
    <3> QED
      BY <2>1, <3>8, <3>9, <3>10, <3>11 DEF Releasing
  <2> QED
    BY <1>1, <1>3, <2>1, <2>12, <2>13, <2>14 DEF MemoryInv
<1> QED
  BY <1>5, <1>6

LEMMA ReleaseStep ==
  ASSUME LoaderInv, CleanInv, MemoryInv, Smooth, stage = "release",
         ReleaseRegion \/ ReleaseDone, UNCHANGED loader
  PROVE  Releasing'
<1>1. Releasing /\ next \in Nat
  BY DEF MemoryInv, CleanInv, CleanTypes
<1>2. Usables' = Usables /\ UNCHANGED <<regions, maxPfn, pagesArray>>
  BY DEF loader, Usables, ReleaseRegion, ReleaseDone
<1>3. ArrayPages' = ArrayPages
  BY <1>2 DEF ArrayPages
<1>4. Holds(regions', Usables' \ ArrayPages')
  BY <1>1, <1>2, <1>3 DEF Releasing
<1>5. CASE ReleaseRegion
  <2>1. /\ next <= MaxRegions /\ next' = next + 1 /\ stage' = "release"
        /\ freed' = [p \in DOMAIN freed |->
                      IF regions[next].type = "ram" /\ p \in PagesIn(regions[next].start, regions[next].end)
                           /\ ~ KernelPage(p)
                        THEN freed[p] + 1 ELSE freed[p]]
    BY <1>5 DEF ReleaseRegion
  <2>2. next \in Slots
    <3>1. next # 0
      BY DEF CleanInv, CleanTypes
    <3> QED
      BY <1>1, <2>1, <3>1, BootMapAssumption DEF Slots
  <2>3. DOMAIN freed' = DOMAIN freed
    BY <2>1
  <2>4. ASSUME NEW p \in DOMAIN freed
        PROVE  freed'[p] = IF ~ KernelPage(p) /\ \E i \in Slots : i < next' /\ p \in RamOf(regions, i) THEN 1 ELSE 0
    <3>1. freed'[p] = IF p \in RamOf(regions, next) /\ ~ KernelPage(p) THEN freed[p] + 1 ELSE freed[p]
      BY <2>1 DEF RamOf
    <3>2. freed[p] = IF ~ KernelPage(p) /\ \E i \in Slots : i < next /\ p \in RamOf(regions, i) THEN 1 ELSE 0
      BY <1>1 DEF Releasing
    <3>3. \A i \in Slots : i < next' <=> i < next \/ i = next
      BY <1>1, <2>1 DEF Slots
    <3>4. CASE p \in RamOf(regions, next)
      <4>1. \A i \in Slots : i < next => p \notin RamOf(regions, i)
        BY <1>1, <2>2, <3>4 DEF Releasing, Holds
      <4>2. \E i \in Slots : i < next' /\ p \in RamOf(regions, i)
        BY <2>2, <3>3, <3>4
      <4> QED
        BY <3>1, <3>2, <3>4, <4>1, <4>2
    <3>5. CASE p \notin RamOf(regions, next)
      <4>1. (\E i \in Slots : i < next' /\ p \in RamOf(regions, i)) <=>
              \E i \in Slots : i < next /\ p \in RamOf(regions, i)
        BY <3>3, <3>5
      <4> QED
        BY <3>1, <3>2, <3>5, <4>1
    <3> QED
      BY <3>4, <3>5
  <2>5. \A p \in Usables' \ {0} : p \in DOMAIN freed'
    BY <1>1, <1>2, <2>3 DEF Releasing
  <2>6. \A p \in DOMAIN freed' : p \in Nat /\ p < maxPfn'
    BY <1>1, <1>2, <2>3 DEF Releasing
  <2>7. \A p \in DOMAIN freed' :
          freed'[p] = IF ~ KernelPage(p) /\ \E i \in Slots : i < next' /\ p \in RamOf(regions', i) THEN 1 ELSE 0
    BY <1>2, <2>3, <2>4
  <2> QED
    BY <1>4, <2>1, <2>5, <2>6, <2>7 DEF Releasing
<1>6. CASE ReleaseDone
  <2>1. next > MaxRegions /\ UNCHANGED <<next, freed>>
    BY <1>6 DEF ReleaseDone
  <2> QED
    BY <1>1, <1>2, <1>4, <2>1 DEF Releasing
<1> QED
  BY <1>5, <1>6

LEMMA MemoryInit == BootInit => MemoryInv
<1> SUFFICES ASSUME BootInit PROVE MemoryInv
  OBVIOUS
<1>1. regions = [i \in Slots |-> Empty] /\ maxPfn = 0 /\ freed = << >> /\ stage = "loader"
  BY DEF BootInit, Unbooted, Slots
<1>2. Typed(regions)
  BY <1>1, EmptyIs DEF Typed
<1>3. DOMAIN freed = {}
  BY <1>1
<1> QED
  BY <1>1, <1>2, <1>3 DEF MemoryInv

\* A step that leaves the kernel's memory as it is, and either the loader too
\* or the kernel unstarted.
LEMMA MemoryStays ==
  ASSUME LoaderInv, MemoryInv, UNCHANGED vars, [BootNext]_<<loader, vars>>
  PROVE  MemoryInv'
<1>1. UNCHANGED <<map, given, next, kept, regions, maxPfn, pagesArray, freed, stage>>
  BY DEF vars
<1>2. CASE stage = "loader"
  BY <1>1, <1>2 DEF MemoryInv
<1>3. CASE stage # "loader"
  <2>1. pc = "kernel"
    BY <1>3 DEF LoaderInv, CopyTells
  <2>2. pc' = pc /\ pressed' = pressed
    BY <2>1 DEF BootNext, FirmwareTakes, LoaderStep, LoadSegment, PlaceBootInfo, AskSize, PlaceBuffer, GetMap,
                AppendScreen, ExitBootServices, PressKey, Enter, loader
  <2>3. Smooth' = Smooth
    BY <2>2 DEF Smooth
  <2>4. Smooth => owner' = owner
    <3>1. Smooth => ~ live
      BY <2>1 DEF LoaderInv, CopyTells
    <3> QED
      BY <2>1, <3>1 DEF BootNext, FirmwareTakes, LoaderStep, LoadSegment, PlaceBootInfo, AskSize, PlaceBuffer, GetMap,
                AppendScreen, ExitBootServices, PressKey, Enter, KernelStep, loader, CleanOne
  <2>5. Smooth => Usables' = Usables
    BY <2>4 DEF Usables
  <2>6. ArrayPages' = ArrayPages
    BY <1>1 DEF ArrayPages
  <2>7. Smooth /\ Releasing => Releasing'
    BY <1>1, <2>5, <2>6 DEF Releasing
  <2>8. (StillApart => StillApart') /\ (WellFormed(map) => WellFormed(map)') /\ (Copying => Copying')
    BY <1>1 DEF StillApart, WellFormed, Copying
  <2> QED
    BY <1>1, <2>3, <2>7, <2>8 DEF MemoryInv
<1> QED
  BY <1>2, <1>3

LEMMA MemoryStepInv ==
  ASSUME LoaderInv, CleanInv, MemoryInv, [BootNext]_<<loader, vars>>
  PROVE  MemoryInv'
<1>1. CASE UNCHANGED vars
  BY <1>1, MemoryStays
<1>2. CASE Enter
  <2>1. stage = "loader" /\ stage' = "clean" /\ UNCHANGED <<kept, regions, maxPfn, freed>> /\ kept = 0
    BY <1>2 DEF Enter, Kentry, CleanInv
  <2>2. StillApart'
    BY <2>1 DEF StillApart
  <2> QED
    BY <2>1, <2>2 DEF MemoryInv
<1>3. CASE KernelStep /\ UNCHANGED loader
  <2>1. Smooth' = Smooth
    BY <1>3 DEF loader, Smooth
  <2>2. CASE CleanOne
    <3>1. stage = "clean" /\ stage' = "clean" /\ UNCHANGED <<regions, maxPfn, freed>>
      BY <2>2 DEF CleanOne
    <3>2. Smooth => StillApart'
      BY <2>2, <3>1, ApartStep, HandedIsFine DEF MemoryInv
    <3> QED
      BY <2>1, <3>1, <3>2 DEF MemoryInv
  <2>3. CASE CleanDone
    <3>1. /\ stage = "clean" /\ stage' = "insert" /\ next' = 1 /\ UNCHANGED <<regions, maxPfn, freed>>
          /\ regions = [i \in Slots |-> Empty] /\ Typed(regions)
      BY <2>3 DEF CleanDone, MemoryInv
    <3>2. Smooth => WellFormed(map)'
      BY <2>3, <3>1, ApartDone DEF MemoryInv
    <3>3. Copying'
      <4>1. next' - 1 = 0 /\ next' <= Len(map') + 1
        <5>1. map' \in Seq(Desc)
          BY <2>3, CleanDoneKeeps DEF CleanInv, CleanTypes
        <5> QED
          BY <3>1, <5>1
      <4>2. PagesTo(map', next' - 1, {"conventional"}) = {}
        BY <4>1 DEF PagesTo
      <4>3. \A i \in Slots : RamOf(regions, i) = {}
        <5>1. \A i \in Slots : regions[i].start = 0
          BY <3>1 DEF Empty
        <5> QED
          BY <3>1, <5>1, EmptyIs
      <4>4. Holds(regions, {})
        BY <4>3 DEF Holds
      <4>5. regions' = regions
        BY <3>1
      <4>6. Holds(regions', PagesTo(map', next' - 1, {"conventional"}))
        BY <4>2, <4>4, <4>5
      <4> QED
        BY <4>1, <4>2, <4>6 DEF Copying
    <3> QED
      BY <2>1, <3>1, <3>2, <3>3 DEF MemoryInv
  <2>4. CASE InsertOne
    <3>1. stage = "insert" /\ stage' = "insert" /\ UNCHANGED <<map, freed>> /\ Typed(regions) /\ maxPfn \in Nat
      BY <2>4 DEF InsertOne, MemoryInv
    <3>2. Typed(regions') /\ maxPfn' \in Nat
      <4>1. map[next] \in Desc
        BY <2>4 DEF InsertOne, CleanInv, CleanTypes
      <4>2. PICK s \in Nat, n \in Nat : s = map[next].start /\ n = map[next].npages
        BY <4>1 DEF Desc
      <4>3. s + n * PageSize \in Nat
        BY Whole
      <4>4. PICK e \in Nat : e = s + n * PageSize
        BY <4>3
      <4>5. PICK k \in {"ram", "mmio"} : k = KindOf(map[next])
        BY DEF KindOf
      <4>6. \/ regions' = Insert(regions, s, e, k) /\ maxPfn' = GrownPfn(s, e)
            \/ UNCHANGED <<regions, maxPfn>>
        BY <2>4, <4>2, <4>4, <4>5 DEF InsertOne
      <4>7. Typed(Insert(regions, s, e, k)) /\ GrownPfn(s, e) \in Nat
        BY <3>1, InsertTyped, PfnGrows
      <4> QED
        BY <3>1, <4>6, <4>7
    <3>3. Smooth => Copying'
      BY <2>4, CopyStep
    <3>4. Smooth => WellFormed(map)'
      BY <3>1 DEF MemoryInv, WellFormed
    <3> QED
      BY <2>1, <3>1, <3>2, <3>3, <3>4 DEF MemoryInv
  <2>5. ASSUME NEW size \in DescriptorSizes, BootmemAlloc(size) PROVE MemoryInv'
    BY <1>3, <2>5, AllocStep
  <2>6. CASE ReleaseRegion \/ ReleaseDone
    <3>1. stage = "release" /\ stage' \in {"release", "done"} /\ UNCHANGED <<map, regions, maxPfn>>
      BY <2>6 DEF ReleaseRegion, ReleaseDone
    <3>2. Smooth => Releasing'
      BY <1>3, <2>6, <3>1, ReleaseStep
    <3>3. Smooth => WellFormed(map)'
      BY <3>1 DEF MemoryInv, WellFormed
    <3> QED
      BY <2>1, <3>1, <3>2, <3>3 DEF MemoryInv
  <2> QED
    BY <1>3, <2>2, <2>3, <2>4, <2>5, <2>6 DEF KernelStep
<1>4. CASE LoaderStep /\ ~ Enter
  BY <1>1, <1>4 DEF LoaderStep, LoadSegment, PlaceBootInfo, AskSize, PlaceBuffer, GetMap, AppendScreen,
                    ExitBootServices, PressKey
<1>5. CASE FirmwareTakes
  BY <1>1, <1>5 DEF FirmwareTakes
<1> QED
  BY <1>1, <1>2, <1>3, <1>4, <1>5 DEF BootNext

-----------------------------------------------------------------------------
(* What is released. *)

\* The stages of init_bootmem and init_palloc in one invariant: the slots hold
\* whole usable pages, none twice and, while there is room, all of them.
THEOREM MemoryInvariant == Spec => [](LoaderInv /\ CleanInv /\ MemoryInv)
<1>1. BootInit => LoaderInv /\ CleanInv /\ MemoryInv
  BY LoaderInit, CleanInit, MemoryInit
<1>2. LoaderInv /\ CleanInv /\ MemoryInv /\ [BootNext]_<<loader, vars>> => (LoaderInv /\ CleanInv /\ MemoryInv)'
  BY LoaderStepInv, CleanStepInv, MemoryStepInv
<1> QED
  BY <1>1, <1>2, PTL DEF Spec

\* The pages of the loader's own allocations, and of the image, are not usable.
LEMMA NotTheLoaders ==
  ASSUME LoaderInv, Smooth, stage # "loader"
  PROVE  BootInfo \notin Usables /\ Run(BufferAt, BufferPages) \cap Usables = {}
<1>1. pc = "kernel"
  BY DEF LoaderInv, CopyTells
<1>2. BootInfo \in Owned("loaderdata") /\ Run(BufferAt, BufferPages) \subseteq Owned("loaderdata")
  BY <1>1 DEF LoaderInv, InfoPlaced, BufferPlaced
<1> QED
  BY <1>2 DEF Owned, Usables, UsableTypes

\* The image is whole pages: one that overlaps it starts in it.
LEMMA KernelPageIs ==
  ASSUME NEW p \in Nat
  PROVE  KernelPage(p) <=> p * PageSize <= KernelEnd /\ (p + 1) * PageSize > KernelStart
<1>1. PICK k \in DOMAIN Segments : KernelStart = Segments[k].start * PageSize
  BY BootAssumption
<1>2. PICK b \in Nat : b = Segments[k].start
  <2>1. DOMAIN Segments = 1 .. Len(Segments)
    BY BootAssumption
  <2> QED
    BY <2>1, SegmentType
<1>3. KernelStart = b * PageSize
  BY <1>1, <1>2
<1>4. b <= p <=> b * PageSize <= p * PageSize
  BY PageOrder
<1>5. p + 1 <= b <=> (p + 1) * PageSize <= b * PageSize
  BY PageOrder
<1>6. PICK x \in Nat, y \in Nat, z \in Nat : x = p * PageSize /\ y = (p + 1) * PageSize /\ z = b * PageSize
  BY Whole
<1>7. z <= x <=> ~ (y <= z)
  BY <1>4, <1>5, <1>6
<1> QED
  BY <1>3, <1>6, <1>7 DEF KernelPage

LEMMA MayUseIs ==
  ASSUME LoaderInv, Smooth, stage # "loader", NEW p \in Usables, maxPfn \in Nat, p <= maxPfn
  PROVE  p \in MayUse <=> p # 0 /\ ~ KernelPage(p)
<1>1. p \in Ram /\ owner[p] \in UsableTypes /\ p \in Nat
  BY RamNat DEF Usables
<1>2. p # BootInfo /\ p \notin Run(BufferAt, BufferPages)
  BY NotTheLoaders
<1>3. p \in KernelPages <=> KernelPage(p)
  BY <1>1, KernelPageIs DEF KernelPages
<1> QED
  BY <1>1, <1>2, <1>3 DEF MayUse

LEMMA MemoryGivesOnlyFree ==
  ASSUME LoaderInv, MemoryInv
  PROVE  ReleasesOnlyFreeMemory
<1> SUFFICES ASSUME ~ pressed, NEW p \in DOMAIN freed
             PROVE  freed[p] <= 1 /\ (freed[p] = 1 => p \in MayUse \ ArrayPages)
  BY DEF ReleasesOnlyFreeMemory
<1>1. CASE stage \notin {"release", "done"}
  <2>1. freed[p] = 0
    BY <1>1 DEF MemoryInv
  <2> QED
    BY <2>1
<1>2. CASE stage \in {"release", "done"}
  <2>1. Smooth /\ stage # "loader"
    BY <1>2 DEF Smooth, LoaderInv, CopyTells
  <2>2. Releasing /\ maxPfn \in Nat
    BY <1>2, <2>1 DEF MemoryInv
  <2>3. /\ p \in Nat /\ p < maxPfn
        /\ freed[p] = IF ~ KernelPage(p) /\ \E i \in Slots : i < next /\ p \in RamOf(regions, i) THEN 1 ELSE 0
    BY <2>2 DEF Releasing
  <2>4. ASSUME freed[p] = 1 PROVE p \in MayUse \ ArrayPages
    <3>1. PICK i \in Slots : p \in RamOf(regions, i)
      BY <2>3, <2>4
    <3>2. p \in Usables /\ p \notin ArrayPages /\ p # 0
      BY <2>2, <3>1 DEF Releasing, Holds
    <3>3. ~ KernelPage(p)
      BY <2>3, <2>4
    <3> QED
      BY <2>1, <2>2, <2>3, <3>2, <3>3, MayUseIs
  <2> QED
    BY <2>3, <2>4
<1> QED
  BY <1>1, <1>2

LEMMA MemoryGivesAll ==
  ASSUME LoaderInv, CleanInv, MemoryInv
  PROVE  ReleasesAllMemory
<1> SUFFICES ASSUME stage = "done", ~ pressed, \E i \in 1 .. MaxRegions : regions[i].start = 0,
                    NEW p \in MayUse \ ArrayPages
             PROVE  p \in DOMAIN freed /\ freed[p] = 1
  BY DEF ReleasesAllMemory
<1>1. Smooth /\ Room(regions)
  BY DEF Smooth, LoaderInv, CopyTells, Room, Slots
<1>2. Releasing /\ maxPfn \in Nat
  BY <1>1 DEF MemoryInv
<1>3. p \in Usables /\ p # 0
  BY DEF MayUse, Usables
<1>4. p \in DOMAIN freed
  BY <1>2, <1>3 DEF Releasing
<1>5. /\ p \in Nat /\ p < maxPfn
      /\ freed[p] = IF ~ KernelPage(p) /\ \E i \in Slots : i < next /\ p \in RamOf(regions, i) THEN 1 ELSE 0
  BY <1>2, <1>4 DEF Releasing
<1>6. ~ KernelPage(p)
  BY <1>1, <1>2, <1>3, <1>5, MayUseIs
<1>7. ~ InImage(p)
  BY <1>6, <1>5, BootMapAssumption DEF KernelPage, InImage
<1>8. PICK i \in Slots : p \in RamOf(regions, i)
  BY <1>1, <1>2, <1>3, <1>7 DEF Releasing, Holds
<1>9. i < next
  <2>1. next > MaxRegions
    BY <1>2 DEF Releasing
  <2>2. next \in Nat /\ MaxRegions \in Nat
    BY BootMapAssumption DEF CleanInv, CleanTypes
  <2>3. i \in Nat /\ i <= MaxRegions
    BY <2>2 DEF Slots
  <2> QED
    BY <2>1, <2>2, <2>3
<1> QED
  BY <1>4, <1>5, <1>6, <1>8, <1>9

\* Unless a key was pressed after an error, init_palloc releases only usable
\* pages that are neither the loader's, the kernel's nor the page array's, and
\* each at most once: for every memory and image and any size of the array.
THEOREM OnlyFreeMemoryIsReleased == Spec => []ReleasesOnlyFreeMemory
<1>1. LoaderInv /\ CleanInv /\ MemoryInv => ReleasesOnlyFreeMemory
  BY MemoryGivesOnlyFree
<1> QED
  BY <1>1, MemoryInvariant, PTL

\* And when a slot of the table is left, it has released all of them.
THEOREM AllMemoryIsReleased == Spec => []ReleasesAllMemory
<1>1. LoaderInv /\ CleanInv /\ MemoryInv => ReleasesAllMemory
  BY MemoryGivesAll
<1> QED
  BY <1>1, MemoryInvariant, PTL
=============================================================================
