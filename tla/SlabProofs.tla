----------------------------- MODULE SlabProofs ----------------------------
(***************************************************************************)
(* What the object allocator keeps for any size classes, frames and        *)
(* number of damaged objects: nothing is handed out twice, the counts are  *)
(* those of the objects in use, and a frame is held exactly while one is.  *)
(***************************************************************************)
EXTENDS Slab, SequenceTheorems, FiniteSetTheorems, TLAPS

LiveIn(f) == {o \in live : o[1] = f}

\* A frame on the chain of class c.
FrameOk(c, f) ==
  /\ Distinct(freeList[f])
  /\ Elements(freeList[f]) \subseteq Objects(c, f) \ LiveIn(f)
  /\ LiveIn(f) # {} /\ LiveIn(f) \subseteq Objects(c, f)
  /\ freeCount[f] = ObjCount[c] - Cardinality(LiveIn(f))

TypeInv ==
  /\ chain \in [Classes -> Seq(FramePool)]
  /\ frameCount \in [Classes -> Int]
  /\ freeList \in [FramePool -> Seq(FramePool \X Int)]
  /\ freeCount \in [FramePool -> Int]

\* frame_count is never too small for the walk of slab_free_frame.
ChainInv ==
  /\ \A c \in Classes : Distinct(chain[c]) /\ Len(chain[c]) <= frameCount[c]
  /\ \A c, d \in Classes : c # d => Chained(c) \cap Chained(d) = {}

FrameInv == \A c \in Classes : \A f \in Chained(c) : FrameOk(c, f)

LiveInv == \A o \in live : o[1] \in InUse

IInv == TypeInv /\ ChainInv /\ FrameInv /\ LiveInv

-----------------------------------------------------------------------------
(* Lists without repetition. *)

LEMMA TailElements ==
  ASSUME NEW S, NEW s \in Seq(S), Distinct(s), NEW i \in DOMAIN s
  PROVE  LET t == SubSeq(s, i + 1, Len(s))
         IN  t \in Seq(S) /\ Distinct(t) /\ Elements(t) \subseteq Elements(s) \ {s[i]}
<1> DEFINE t == SubSeq(s, i + 1, Len(s))
<1>1. i \in 1 .. Len(s) /\ Len(s) \in Nat /\ DOMAIN s = 1 .. Len(s)
  OBVIOUS
<1>2. \A j \in i + 1 .. Len(s) : s[j] \in S
  BY <1>1
<1>3. /\ t \in Seq(S)
      /\ Len(t) = IF i + 1 <= Len(s) THEN Len(s) - (i + 1) + 1 ELSE 0
      /\ \A j \in 1 .. Len(s) - (i + 1) + 1 : t[j] = s[i + 1 + j - 1]
  <2>1. i + 1 \in Int /\ Len(s) \in Int
    BY <1>1
  <2> QED
    BY ONLY <2>1, <1>2, SubSeqProperties
<1>4. DOMAIN t = 1 .. Len(s) - i /\ \A j \in 1 .. Len(s) - i : t[j] = s[i + j]
  BY <1>1, <1>3
<1> HIDE DEF t
<1>5. Distinct(t)
  <2> SUFFICES ASSUME NEW j \in DOMAIN t, NEW k \in DOMAIN t, j # k PROVE t[j] # t[k]
    BY DEF Distinct
  <2>1. i + j \in DOMAIN s /\ i + k \in DOMAIN s /\ i + j # i + k
    BY <1>1, <1>4
  <2> QED
    BY <1>4, <2>1 DEF Distinct
<1>6. Elements(t) \subseteq Elements(s) \ {s[i]}
  <2> SUFFICES ASSUME NEW j \in DOMAIN t PROVE t[j] \in Elements(s) \ {s[i]}
    BY DEF Elements
  <2>1. i + j \in DOMAIN s /\ i + j # i
    BY <1>1, <1>4
  <2> QED
    BY <1>4, <2>1 DEF Distinct, Elements
<1> QED
  BY <1>3, <1>5, <1>6 DEF t

LEMMA AppendElements ==
  ASSUME NEW S, NEW s \in Seq(S), NEW x \in S
  PROVE  /\ Append(s, x) \in Seq(S) /\ Len(Append(s, x)) = Len(s) + 1
         /\ Elements(Append(s, x)) = Elements(s) \cup {x}
         /\ Distinct(s) /\ x \notin Elements(s) => Distinct(Append(s, x))
<1>1. /\ Append(s, x) \in Seq(S) /\ Len(Append(s, x)) = Len(s) + 1 /\ Len(s) \in Nat
      /\ DOMAIN s = 1 .. Len(s) /\ DOMAIN Append(s, x) = 1 .. Len(s) + 1
      /\ \A i \in 1 .. Len(s) : Append(s, x)[i] = s[i]
      /\ Append(s, x)[Len(s) + 1] = x
  OBVIOUS
<1> QED
  BY <1>1 DEF Elements, Distinct

LEMMA ConsElements ==
  ASSUME NEW S, NEW s \in Seq(S), NEW x \in S
  PROVE  /\ <<x>> \o s \in Seq(S)
         /\ Elements(<<x>> \o s) = Elements(s) \cup {x}
         /\ Distinct(s) /\ x \notin Elements(s) => Distinct(<<x>> \o s)
<1> DEFINE t == <<x>> \o s
<1>1. /\ t \in Seq(S) /\ Len(t) = Len(s) + 1 /\ Len(s) \in Nat
      /\ DOMAIN s = 1 .. Len(s) /\ DOMAIN t = 1 .. Len(s) + 1
      /\ t[1] = x /\ \A i \in 2 .. Len(s) + 1 : t[i] = s[i - 1]
  BY ConcatProperties
<1> HIDE DEF t
<1>2. Elements(t) = Elements(s) \cup {x}
  <2>1. \A i \in DOMAIN s : i + 1 \in DOMAIN t /\ t[i + 1] = s[i]
    BY <1>1
  <2>2. \A i \in DOMAIN t : i = 1 \/ (i - 1 \in DOMAIN s /\ t[i] = s[i - 1])
    BY <1>1
  <2>3. 1 \in DOMAIN t
    BY <1>1
  <2>4. \A y \in Elements(t) : y \in Elements(s) \cup {x}
    BY <1>1, <2>2 DEF Elements
  <2>5. \A y \in Elements(s) \cup {x} : y \in Elements(t)
    BY <1>1, <2>1, <2>3 DEF Elements
  <2> QED
    BY <2>4, <2>5
<1>3. ASSUME Distinct(s), x \notin Elements(s) PROVE Distinct(t)
  <2> SUFFICES ASSUME NEW i \in DOMAIN t, NEW j \in DOMAIN t, i # j PROVE t[i] # t[j]
    BY DEF Distinct
  <2>1. \A k \in DOMAIN t : k # 1 => k - 1 \in DOMAIN s /\ t[k] = s[k - 1]
    BY <1>1
  <2>2. \A k \in DOMAIN s : s[k] # x
    BY <1>3 DEF Elements
  <2>3. CASE i = 1 \/ j = 1
    BY <1>1, <2>1, <2>2, <2>3
  <2>4. CASE i # 1 /\ j # 1
    <3>1. i - 1 # j - 1
      BY <1>1
    <3> QED
      BY <1>3, <2>1, <2>4, <3>1 DEF Distinct
  <2> QED
    BY <2>3, <2>4
<1> QED
  BY <1>1, <1>2, <1>3 DEF t

LEMMA RemoveElements ==
  ASSUME NEW S, NEW s \in Seq(S), Distinct(s), NEW k \in DOMAIN s
  PROVE  LET t == SubSeq(s, 1, k - 1) \o SubSeq(s, k + 1, Len(s))
         IN  /\ t \in Seq(S) /\ Len(t) = Len(s) - 1 /\ Distinct(t)
             /\ Elements(t) = Elements(s) \ {s[k]}
<1> DEFINE a == SubSeq(s, 1, k - 1)
           b == SubSeq(s, k + 1, Len(s))
           t == a \o b
           From(i) == IF i < k THEN i ELSE i + 1
<1>1. k \in 1 .. Len(s) /\ Len(s) \in Nat /\ DOMAIN s = 1 .. Len(s) /\ \A j \in 1 .. Len(s) : s[j] \in S
  OBVIOUS
<1>2. a \in Seq(S) /\ Len(a) = k - 1 /\ \A i \in 1 .. k - 1 : a[i] = s[i]
  <2>1. 1 \in Int /\ k - 1 \in Int /\ \A j \in 1 .. k - 1 : s[j] \in S
    BY <1>1
  <2>2. /\ a \in Seq(S) /\ Len(a) = IF 1 <= k - 1 THEN k - 1 - 1 + 1 ELSE 0
        /\ \A i \in 1 .. k - 1 - 1 + 1 : a[i] = s[1 + i - 1]
    BY ONLY <2>1, SubSeqProperties
  <2> HIDE DEF a
  <2> QED
    BY <1>1, <2>2
<1>3. b \in Seq(S) /\ Len(b) = Len(s) - k /\ \A i \in 1 .. Len(s) - k : b[i] = s[k + i]
  <2>1. k + 1 \in Int /\ Len(s) \in Int /\ \A j \in k + 1 .. Len(s) : s[j] \in S
    BY <1>1
  <2>2. /\ b \in Seq(S) /\ Len(b) = IF k + 1 <= Len(s) THEN Len(s) - (k + 1) + 1 ELSE 0
        /\ \A i \in 1 .. Len(s) - (k + 1) + 1 : b[i] = s[k + 1 + i - 1]
    BY ONLY <2>1, SubSeqProperties
  <2> HIDE DEF b
  <2>3. Len(b) = Len(s) - k
    BY <1>1, <2>2
  <2>4. Len(s) - (k + 1) + 1 = Len(s) - k /\ \A i \in 1 .. Len(s) - k : k + 1 + i - 1 = k + i
    BY <1>1
  <2> QED
    BY <2>2, <2>3, <2>4
<1> HIDE DEF a, b
<1>4. /\ t \in Seq(S) /\ Len(t) = Len(s) - 1 /\ DOMAIN t = 1 .. Len(s) - 1
      /\ \A i \in 1 .. Len(s) - 1 : t[i] = IF i <= k - 1 THEN a[i] ELSE b[i - (k - 1)]
  <2>1. /\ t \in Seq(S) /\ Len(t) = Len(a) + Len(b)
        /\ \A i \in 1 .. Len(a) + Len(b) : t[i] = IF i <= Len(a) THEN a[i] ELSE b[i - Len(a)]
    BY <1>2, <1>3, ConcatProperties
  <2>2. Len(a) + Len(b) = Len(s) - 1
    BY <1>1, <1>2, <1>3
  <2> HIDE DEF t
  <2>3. DOMAIN t = 1 .. Len(t)
    BY <2>1
  <2> QED
    BY <1>2, <2>1, <2>2, <2>3
<1> HIDE DEF t
<1>5. \A i \in DOMAIN t : From(i) \in DOMAIN s \ {k} /\ t[i] = s[From(i)]
  <2> SUFFICES ASSUME NEW i \in DOMAIN t PROVE From(i) \in DOMAIN s \ {k} /\ t[i] = s[From(i)]
    OBVIOUS
  <2>1. CASE i < k
    BY <1>1, <1>2, <1>4, <2>1
  <2>2. CASE ~ i < k
    <3>1. i - (k - 1) \in 1 .. Len(s) - k /\ k + (i - (k - 1)) = i + 1
      BY <1>1, <1>4, <2>2
    <3>2. t[i] = b[i - (k - 1)]
      BY <1>1, <1>4, <2>2
    <3>3. b[i - (k - 1)] = s[i + 1]
      BY <1>3, <3>1
    <3> QED
      BY <1>1, <1>4, <2>2, <3>2, <3>3
  <2> QED
    BY <2>1, <2>2
<1>6. \A i, j \in DOMAIN t : i # j => From(i) # From(j)
  BY <1>1, <1>4
<1>7. \A j \in DOMAIN s \ {k} : \E i \in DOMAIN t : From(i) = j
  <2> SUFFICES ASSUME NEW j \in DOMAIN s \ {k} PROVE \E i \in DOMAIN t : From(i) = j
    OBVIOUS
  <2>1. CASE j < k
    BY <1>1, <1>4, <2>1
  <2>2. CASE j > k
    <3>1. j - 1 \in DOMAIN t /\ From(j - 1) = j
      BY <1>1, <1>4, <2>2
    <3> QED
      BY <3>1
  <2> QED
    BY <1>1, <2>1, <2>2
<1> HIDE DEF From
<1>8. Distinct(t)
  BY <1>5, <1>6 DEF Distinct
<1>9. Elements(t) = Elements(s) \ {s[k]}
  <2>1. \A x \in Elements(t) : x \in Elements(s) \ {s[k]}
    BY <1>5 DEF Distinct, Elements
  <2>2. ASSUME NEW x \in Elements(s) \ {s[k]} PROVE x \in Elements(t)
    <3>1. PICK j \in DOMAIN s \ {k} : x = s[j]
      BY DEF Elements
    <3>2. PICK i \in DOMAIN t : From(i) = j
      BY <1>7
    <3> QED
      BY <1>5, <3>1, <3>2 DEF Elements
  <2> QED
    BY <2>1, <2>2
<1> QED
  BY <1>4, <1>8, <1>9 DEF t, a, b

-----------------------------------------------------------------------------
(* Objects in use, frame by frame. *)

LEMMA FramesAreLarge == \A c \in Classes : ObjCount[c] \in Nat \ {0}
<1> SUFFICES ASSUME NEW c \in Classes PROVE (FrameSize - Header) \div ObjSize[c] \in Nat \ {0}
  BY DEF ObjCount
<1> DEFINE n == FrameSize - Header
           d == ObjSize[c]
<1>1. n \in Nat /\ d \in Nat \ {0} /\ n >= d
  BY LayoutAssumption
<1> HIDE DEF n, d
<1>2. n \div d \in Nat \ {0}
  BY <1>1
<1> QED
  BY <1>2 DEF n, d

LEMMA FiniteFrame ==
  ASSUME NEW c \in Classes, NEW f, NEW L \in SUBSET Objects(c, f)
  PROVE  IsFiniteSet(L) /\ Cardinality(L) \in Nat
<1>1. IsFiniteSet(1 .. ObjCount[c])
  BY FramesAreLarge, FS_Interval
<1>2. IsFiniteSet({f})
  BY FS_Singleton
<1>3. IsFiniteSet(Objects(c, f))
  BY <1>1, <1>2, FS_Product DEF Objects
<1>4. IsFiniteSet(L)
  BY <1>3, FS_Subset
<1> QED
  BY <1>4, FS_CardinalityType

LEMMA LiveAdded ==
  ASSUME NEW o, live' = live \cup {o}
  PROVE  /\ LiveIn(o[1])' = LiveIn(o[1]) \cup {o}
         /\ \A g : g # o[1] => LiveIn(g)' = LiveIn(g)
BY DEF LiveIn

LEMMA LiveRemoved ==
  ASSUME NEW o, live' = live \ {o}
  PROVE  /\ LiveIn(o[1])' = LiveIn(o[1]) \ {o}
         /\ \A g : g # o[1] => LiveIn(g)' = LiveIn(g)
BY DEF LiveIn

LEMMA OtherFrame ==
  ASSUME NEW c, NEW f, FrameOk(c, f), freeList'[f] = freeList[f], freeCount'[f] = freeCount[f],
         LiveIn(f)' = LiveIn(f)
  PROVE  FrameOk(c, f)'
BY DEF FrameOk

LEMMA InitInvariant == Init => IInv
<1> SUFFICES ASSUME Init PROVE IInv
  OBVIOUS
<1>1. \A c \in Classes : Chained(c) = {}
  BY DEF Init, Chained, Elements
<1>2. TypeInv
  BY DEF Init, TypeInv
<1>3. ChainInv
  BY <1>1 DEF Init, ChainInv, Distinct
<1>4. FrameInv /\ LiveInv
  BY <1>1 DEF Init, FrameInv, LiveInv
<1> QED
  BY <1>2, <1>3, <1>4 DEF IInv

LEMMA ChainedInPool ==
  ASSUME TypeInv, NEW c \in Classes PROVE chain[c] \in Seq(FramePool) /\ Chained(c) \subseteq FramePool
BY DEF TypeInv, Chained, Elements

\* A step that changes one frame, and no chain.
LEMMA FrameStep ==
  ASSUME IInv, TypeInv', UNCHANGED <<chain, frameCount>>,
         NEW c \in Classes, NEW f \in Chained(c), FrameOk(c, f)',
         \A g \in FramePool \ {f} : /\ freeList'[g] = freeList[g] /\ freeCount'[g] = freeCount[g]
                                    /\ LiveIn(g)' = LiveIn(g),
         \A o \in live' : o \in live \/ o[1] = f
  PROVE  IInv'
<1>1. \A d \in Classes : Chained(d)' = Chained(d)
  BY DEF Chained
<1>2. InUse' = InUse
  BY <1>1 DEF InUse
<1>3. ChainInv'
  BY <1>1 DEF IInv, ChainInv
<1>4. FrameInv'
  <2> SUFFICES ASSUME NEW d \in Classes, NEW g \in Chained(d) PROVE FrameOk(d, g)'
    BY <1>1 DEF FrameInv
  <2>1. CASE g = f
    <3>1. d = c
      BY <2>1 DEF IInv, ChainInv
    <3> QED
      BY <2>1, <3>1
  <2>2. CASE g # f
    <3>1. FrameOk(d, g) /\ g \in FramePool
      BY ChainedInPool DEF IInv, FrameInv
    <3> QED
      BY <2>2, <3>1, OtherFrame
  <2> QED
    BY <2>1, <2>2
<1>5. LiveInv'
  BY <1>2 DEF IInv, LiveInv, InUse
<1> QED
  BY <1>3, <1>4, <1>5 DEF IInv

-----------------------------------------------------------------------------
(* kmalloc *)

LEMMA AllocObjInvariant ==
  ASSUME IInv, NEW c \in Classes, NEW f \in Chained(c), AllocObj(f), UNCHANGED <<chain, frameCount>>
  PROVE  IInv'
<1> DEFINE s == freeList[f]
<1>0. /\ f \in FramePool /\ FrameOk(c, f) /\ s \in Seq(FramePool \X Int) /\ TypeInv
      /\ freeList \in [FramePool -> Seq(FramePool \X Int)] /\ freeCount \in [FramePool -> Int]
  BY ChainedInPool DEF IInv, FrameInv, TypeInv
<1>1. ASSUME NEW i \in DOMAIN s,
             freeList' = [freeList EXCEPT ![f] = SubSeq(s, i + 1, Len(s))],
             freeCount' = [freeCount EXCEPT ![f] = @ - 1], live' = live \cup {s[i]}
      PROVE  IInv'
  <2> DEFINE t == SubSeq(s, i + 1, Len(s))
  <2>1. t \in Seq(FramePool \X Int) /\ Distinct(t) /\ Elements(t) \subseteq Elements(s) \ {s[i]}
    BY <1>0, TailElements DEF FrameOk
  <2>2. s[i] \in Objects(c, f) \ LiveIn(f) /\ s[i][1] = f
    BY <1>0 DEF FrameOk, Elements, Objects
  <2> HIDE DEF t
  <2>3. freeList'[f] = t /\ freeCount'[f] = freeCount[f] - 1
    BY <1>0, <1>1 DEF t
  <2>4. TypeInv'
    <3>1. freeList' = [freeList EXCEPT ![f] = t]
      BY <1>1 DEF t
    <3>2. freeList' \in [FramePool -> Seq(FramePool \X Int)]
      BY <1>0, <2>1, <3>1
    <3>3. freeCount' \in [FramePool -> Int]
      BY <1>0, <1>1, SMTT(20)
    <3> QED
      BY <1>0, <3>2, <3>3 DEF TypeInv
  <2>5. LiveIn(f)' = LiveIn(f) \cup {s[i]}
    BY <1>1, <2>2, LiveAdded
  <2>6. FrameOk(c, f)'
    <3>1. Cardinality(LiveIn(f) \cup {s[i]}) = Cardinality(LiveIn(f)) + 1 /\ Cardinality(LiveIn(f)) \in Nat
      <4>1. IsFiniteSet(LiveIn(f)) /\ Cardinality(LiveIn(f)) \in Nat
        BY <1>0, FiniteFrame DEF FrameOk
      <4> QED
        BY <2>2, <4>1, FS_AddElement
    <3>2. freeCount'[f] = ObjCount[c] - Cardinality(LiveIn(f)')
      <4>1. freeCount[f] = ObjCount[c] - Cardinality(LiveIn(f)) /\ ObjCount[c] \in Nat
        BY <1>0, FramesAreLarge DEF FrameOk
      <4>2. Cardinality(LiveIn(f)') = Cardinality(LiveIn(f)) + 1
        BY <2>5, <3>1
      <4> QED
        BY <2>3, <3>1, <4>1, <4>2
    <3>3. Elements(t) \subseteq Objects(c, f) \ (LiveIn(f) \cup {s[i]})
      BY <1>0, <2>1 DEF FrameOk
    <3> QED
      BY <1>0, <2>1, <2>2, <2>3, <2>5, <3>2, <3>3 DEF FrameOk
  <2>7. \A g \in FramePool \ {f} : /\ freeList'[g] = freeList[g] /\ freeCount'[g] = freeCount[g]
                                  /\ LiveIn(g)' = LiveIn(g)
    BY <1>0, <1>1, <2>2, LiveAdded
  <2>8. \A o \in live' : o \in live \/ o[1] = f
    BY <1>1, <2>2
  <2> QED
    BY <2>4, <2>6, <2>7, <2>8, FrameStep
<1>2. ASSUME freeList' = [freeList EXCEPT ![f] = <<>>], UNCHANGED <<freeCount, live>>
      PROVE  IInv'
  <2>1. TypeInv'
    BY <1>0, <1>2 DEF TypeInv
  <2>2. \A g : LiveIn(g)' = LiveIn(g)
    BY <1>2 DEF LiveIn
  <2>3. FrameOk(c, f)'
    BY <1>0, <1>2, <2>2 DEF FrameOk, Distinct, Elements
  <2> QED
    BY <1>0, <1>2, <2>1, <2>2, <2>3, FrameStep
<1> QED
  BY <1>1, <1>2 DEF AllocObj

LEMMA KmallocNewInvariant == ASSUME IInv, NEW c \in Classes, KmallocNew(c) PROVE IInv'
<1>1. PICK f \in FramePool \ InUse :
        /\ chain'      = [chain EXCEPT ![c] = Append(@, f)]
        /\ CountFrame(c)
        /\ freeList'   = [freeList EXCEPT ![f] = [i \in 1 .. ObjCount[c] - 1 |-> <<f, i + 1>>]]
        /\ freeCount'  = [freeCount EXCEPT ![f] = ObjCount[c] - 1]
        /\ live'       = live \cup {<<f, 1>>}
  BY DEF KmallocNew
<1> DEFINE s == [i \in 1 .. ObjCount[c] - 1 |-> <<f, i + 1>>]
<1>0. /\ TypeInv /\ chain[c] \in Seq(FramePool) /\ f \notin Chained(c)
      /\ ObjCount[c] \in Nat \ {0}
  BY FramesAreLarge DEF IInv, TypeInv, InUse
<1>2. s \in Seq(FramePool \X Int) /\ DOMAIN s = 1 .. ObjCount[c] - 1
  BY <1>0
<1>3. /\ Append(chain[c], f) \in Seq(FramePool) /\ Len(Append(chain[c], f)) = Len(chain[c]) + 1
      /\ Elements(Append(chain[c], f)) = Chained(c) \cup {f}
      /\ Distinct(Append(chain[c], f))
  BY <1>0, AppendElements DEF Chained, IInv, ChainInv
<1>4. TypeInv'
  <2>1. frameCount' \in [Classes -> Int]
    BY <1>0, <1>1 DEF CountFrame, TypeInv
  <2>2. freeList' \in [FramePool -> Seq(FramePool \X Int)]
    BY <1>0, <1>1, <1>2 DEF TypeInv
  <2>3. chain' \in [Classes -> Seq(FramePool)] /\ freeCount' \in [FramePool -> Int]
    BY <1>0, <1>1, <1>3 DEF TypeInv
  <2> QED
    BY <2>1, <2>2, <2>3 DEF TypeInv
<1>5. /\ Chained(c)' = Chained(c) \cup {f}
      /\ \A d \in Classes \ {c} : chain'[d] = chain[d] /\ Chained(d)' = Chained(d)
      /\ chain'[c] = Append(chain[c], f)
  BY <1>0, <1>1, <1>3 DEF TypeInv, Chained
<1>6. ChainInv'
  <2>1. \A d \in Classes : f \notin Chained(d)
    BY DEF InUse
  <2>2. ASSUME NEW d \in Classes PROVE Distinct(chain'[d]) /\ Len(chain'[d]) <= frameCount'[d]
    <3>1. Len(chain[d]) \in Nat /\ frameCount[d] \in Int /\ Len(chain[d]) <= frameCount[d] /\ Distinct(chain[d])
      BY <1>0 DEF TypeInv, IInv, ChainInv
    <3>2. frameCount'[d] = IF d = c THEN frameCount[d] + 1 ELSE frameCount[d]
      BY <1>0, <1>1 DEF CountFrame, TypeInv
    <3>3. CASE d = c
      <4>1. Distinct(chain'[d]) /\ Len(chain'[d]) = Len(chain[d]) + 1
        BY <1>3, <1>5, <3>3
      <4>2. frameCount'[d] = frameCount[d] + 1
        BY <3>2, <3>3
      <4> QED
        BY <3>1, <4>1, <4>2
    <3>4. CASE d # c
      BY <1>5, <3>1, <3>2, <3>4
    <3> QED
      BY <3>3, <3>4
  <2>3. \A d, e \in Classes : d # e => Chained(d)' \cap Chained(e)' = {}
    BY <1>5, <2>1 DEF IInv, ChainInv
  <2> QED
    BY <2>2, <2>3 DEF ChainInv
<1>7. LiveIn(f) = {}
  BY DEF IInv, LiveInv, LiveIn
<1>8. LiveIn(f)' = {<<f, 1>>} /\ \A g : g # f => LiveIn(g)' = LiveIn(g)
  BY <1>1, <1>7, LiveAdded, ZenonT(30)
<1>9. FrameOk(c, f)'
  <2> HIDE DEF s
  <2>1. freeList'[f] = s /\ freeCount'[f] = ObjCount[c] - 1
    BY <1>0, <1>1 DEF TypeInv, s
  <2>2. Distinct(s) /\ Elements(s) \subseteq Objects(c, f) \ {<<f, 1>>}
    <3>1. \A i \in DOMAIN s : s[i] = <<f, i + 1>> /\ i + 1 \in 1 .. ObjCount[c] /\ i + 1 # 1
      BY <1>0, <1>2 DEF s
    <3>2. \A i, j \in DOMAIN s : i # j => i + 1 # j + 1
      BY <1>2
    <3>3. Distinct(s)
      BY <3>1, <3>2 DEF Distinct
    <3>4. Elements(s) \subseteq Objects(c, f) \ {<<f, 1>>}
      BY <3>1 DEF Elements, Objects
    <3> QED
      BY <3>3, <3>4
  <2>3. <<f, 1>> \in Objects(c, f)
    BY <1>0 DEF Objects
  <2>4. Cardinality({<<f, 1>>}) = 1
    BY FS_Singleton
  <2> QED
    BY <1>8, <2>1, <2>2, <2>3, <2>4 DEF FrameOk
<1>10. FrameInv'
  <2> SUFFICES ASSUME NEW d \in Classes, NEW g \in Chained(d)' PROVE FrameOk(d, g)'
    BY DEF FrameInv
  <2>1. CASE g = f
    <3>1. d = c
      BY <1>5, <2>1 DEF InUse
    <3> QED
      BY <1>9, <2>1, <3>1
  <2>2. CASE g # f
    <3>1. g \in Chained(d)
      BY <1>5, <2>2
    <3>2. FrameOk(d, g) /\ g \in FramePool
      BY <1>0, <3>1, ChainedInPool DEF IInv, FrameInv
    <3>3. freeList'[g] = freeList[g] /\ freeCount'[g] = freeCount[g]
      BY <1>0, <1>1, <2>2, <3>2 DEF TypeInv
    <3> QED
      BY <1>8, <2>2, <3>2, <3>3, OtherFrame
  <2> QED
    BY <2>1, <2>2
<1>11. LiveInv'
  <2>1. InUse \subseteq InUse' /\ f \in InUse'
    BY <1>5 DEF InUse
  <2> QED
    BY <1>1, <2>1 DEF IInv, LiveInv
<1> QED
  BY <1>4, <1>6, <1>10, <1>11 DEF IInv

LEMMA KmallocInvariant == ASSUME IInv, NEW c \in Classes, Kmalloc(c) PROVE IInv'
<1>1. CASE KmallocOld(c)
  <2>1. PICK i \in DOMAIN chain[c] : AllocObj(chain[c][i])
    BY <1>1 DEF KmallocOld
  <2>2. chain[c][i] \in Chained(c) /\ UNCHANGED <<chain, frameCount>>
    BY <1>1 DEF KmallocOld, Chained, Elements
  <2> QED
    BY <2>1, <2>2, AllocObjInvariant
<1>2. CASE KmallocNew(c)
  BY <1>2, KmallocNewInvariant
<1>3. CASE KmallocRefused(c)
  <2>1. /\ UNCHANGED <<chain, freeList, freeCount, live>>
        /\ frameCount' = [frameCount EXCEPT ![c] = @ + 1]
    BY <1>3 DEF KmallocRefused, CountFrame
  <2>2. frameCount \in [Classes -> Int] /\ frameCount' \in [Classes -> Int]
    BY <2>1 DEF IInv, TypeInv
  <2>3. TypeInv' /\ \A d \in Classes : frameCount[d] <= frameCount'[d]
    BY <2>1, <2>2 DEF IInv, TypeInv
  <2>4. \A d \in Classes : Len(chain[d]) \in Nat
    BY DEF IInv, TypeInv
  <2>5. \A d \in Classes : Len(chain'[d]) <= frameCount'[d]
    BY <2>1, <2>2, <2>3, <2>4 DEF IInv, ChainInv
  <2>6. \A d \in Classes : Chained(d)' = Chained(d)
    BY <2>1 DEF Chained
  <2>7. ChainInv'
    BY <2>1, <2>5, <2>6 DEF IInv, ChainInv
  <2>8. FrameInv' /\ LiveInv'
    BY <2>1, <2>6 DEF IInv, FrameInv, FrameOk, LiveIn, LiveInv, InUse
  <2> QED
    BY <2>3, <2>7, <2>8 DEF IInv
<1> QED
  BY <1>1, <1>2, <1>3 DEF Kmalloc

-----------------------------------------------------------------------------
(* kfree *)

\* slab_free_frame takes the frame it was called for, and no other, out of the
\* chains: frame_count lets it walk far enough.
LEMMA FreeFrameEffect ==
  ASSUME IInv, NEW c \in Classes, NEW f \in Chained(c), FreeFrame(c, f)
  PROVE  /\ chain' \in [Classes -> Seq(FramePool)] /\ frameCount' \in [Classes -> Int]
         /\ \A d \in Classes : Chained(d)' = Chained(d) \ {f}
         /\ ChainInv'
<1>0. TypeInv /\ f \in FramePool /\ chain[c] \in Seq(FramePool)
  BY ChainedInPool DEF IInv
<1> DEFINE k == CHOOSE i \in DOMAIN chain[c] : chain[c][i] = f
           n == IF k - 1 <= frameCount[c] THEN k - 1 ELSE frameCount[c]
           t == SubSeq(chain[c], 1, k - 1) \o SubSeq(chain[c], k + 1, Len(chain[c]))
<1>1. k \in DOMAIN chain[c] /\ chain[c][k] = f
  BY DEF Chained, Elements
<1>2. n = k - 1
  <2>1. /\ DOMAIN chain[c] = 1 .. Len(chain[c]) /\ Len(chain[c]) \in Nat
        /\ frameCount[c] \in Int /\ Len(chain[c]) <= frameCount[c]
    BY <1>0 DEF TypeInv, IInv, ChainInv
  <2> HIDE DEF k
  <2>2. k - 1 <= frameCount[c]
    BY <1>1, <2>1
  <2> QED
    BY <2>2
<1>3. /\ chain' = [chain EXCEPT ![c] = SubSeq(chain[c], 1, n) \o SubSeq(chain[c], k + 1, Len(chain[c]))]
      /\ frameCount' = [frameCount EXCEPT ![c] = @ - 1]
  BY DEF FreeFrame
<1>4. chain' = [chain EXCEPT ![c] = t]
  BY <1>2, <1>3
<1>5. /\ t \in Seq(FramePool) /\ Len(t) = Len(chain[c]) - 1 /\ Distinct(t)
      /\ Elements(t) = Chained(c) \ {f}
  <2> HIDE DEF k
  <2>1. Distinct(chain[c])
    BY DEF IInv, ChainInv
  <2>2. chain[c] \in Seq(FramePool)
    BY <1>0
  <2>3. /\ t \in Seq(FramePool) /\ Len(t) = Len(chain[c]) - 1 /\ Distinct(t)
        /\ Elements(t) = Elements(chain[c]) \ {chain[c][k]}
    BY ONLY <1>1, <2>1, <2>2, RemoveElements DEF t
  <2> QED
    BY <1>1, <2>3 DEF Chained
<1> HIDE DEF t, n, k
<1>6. chain' \in [Classes -> Seq(FramePool)] /\ frameCount' \in [Classes -> Int]
  <2>1. chain \in [Classes -> Seq(FramePool)] /\ frameCount \in [Classes -> Int]
    BY <1>0 DEF TypeInv
  <2>2. chain' \in [Classes -> Seq(FramePool)]
    BY <1>4, <1>5, <2>1
  <2>3. frameCount' \in [Classes -> Int]
    BY <1>3, <2>1
  <2> QED
    BY <2>2, <2>3
<1>7. /\ chain'[c] = t /\ Chained(c)' = Chained(c) \ {f}
      /\ \A d \in Classes \ {c} : chain'[d] = chain[d] /\ Chained(d)' = Chained(d)
  BY <1>0, <1>4, <1>5 DEF TypeInv, Chained
<1>8. \A d \in Classes : Chained(d)' = Chained(d) \ {f}
  <2>1. \A d \in Classes \ {c} : f \notin Chained(d)
    BY DEF IInv, ChainInv
  <2> QED
    BY <1>7, <2>1
<1>9. ChainInv'
  <2>1. ASSUME NEW d \in Classes PROVE Distinct(chain'[d]) /\ Len(chain'[d]) <= frameCount'[d]
    <3>1. /\ Len(chain[d]) \in Nat /\ frameCount[d] \in Int /\ Len(chain[d]) <= frameCount[d]
          /\ Distinct(chain[d])
      BY <1>0 DEF TypeInv, IInv, ChainInv
    <3>2. frameCount'[d] = IF d = c THEN frameCount[d] - 1 ELSE frameCount[d]
      BY <1>0, <1>3 DEF TypeInv
    <3>3. CASE d = c
      BY <1>5, <1>7, <3>1, <3>2, <3>3
    <3>4. CASE d # c
      BY <1>7, <3>1, <3>2, <3>4
    <3> QED
      BY <3>3, <3>4
  <2>2. \A d, e \in Classes : d # e => Chained(d)' \cap Chained(e)' = {}
    BY <1>8 DEF IInv, ChainInv
  <2> QED
    BY <2>1, <2>2 DEF ChainInv
<1> QED
  BY <1>6, <1>8, <1>9

LEMMA KfreeInvariant == ASSUME IInv, NEW o \in live, Kfree(o) PROVE IInv'
<1> DEFINE f == o[1]
           l == <<o>> \o freeList[f]
<1>1. PICK c \in Classes :
        /\ f \in Chained(c) /\ live' = live \ {o}
        /\ freeCount' = [freeCount EXCEPT ![f] = @ + 1]
        /\ freeList' = [freeList EXCEPT ![f] = l]
        /\ Drained(c, f) => FreeFrame(c, f)
        /\ ~ Drained(c, f) => UNCHANGED <<chain, frameCount>>
  BY DEF Kfree
<1>2. /\ f \in FramePool /\ FrameOk(c, f) /\ TypeInv /\ chain[c] \in Seq(FramePool)
      /\ freeList \in [FramePool -> Seq(FramePool \X Int)] /\ freeCount \in [FramePool -> Int]
  BY <1>1, ChainedInPool DEF IInv, FrameInv, TypeInv
<1>3. o \in LiveIn(f) /\ o \in Objects(c, f) /\ o \notin Elements(freeList[f])
  BY <1>2 DEF FrameOk, LiveIn
<1>4. /\ l \in Seq(FramePool \X Int) /\ Distinct(l)
      /\ Elements(l) = Elements(freeList[f]) \cup {o}
  <2>1. o \in FramePool \X Int /\ freeList[f] \in Seq(FramePool \X Int) /\ Distinct(freeList[f])
    BY <1>2, <1>3, FramesAreLarge DEF Objects, FrameOk
  <2> QED
    BY <1>3, <2>1, ConsElements
<1> HIDE DEF l
<1>5. /\ freeList' \in [FramePool -> Seq(FramePool \X Int)]
      /\ freeCount' \in [FramePool -> Int]
      /\ freeList'[f] = l /\ freeCount'[f] = freeCount[f] + 1
  BY <1>1, <1>2, <1>4
<1>6. LiveIn(f)' = LiveIn(f) \ {o} /\ \A g : g # f => LiveIn(g)' = LiveIn(g)
  BY <1>1, LiveRemoved
<1>7. /\ IsFiniteSet(LiveIn(f)) /\ Cardinality(LiveIn(f)) \in Nat /\ ObjCount[c] \in Nat
      /\ Cardinality(LiveIn(f) \ {o}) = Cardinality(LiveIn(f)) - 1
      /\ freeCount[f] = ObjCount[c] - Cardinality(LiveIn(f))
  <2>1. IsFiniteSet(LiveIn(f)) /\ Cardinality(LiveIn(f)) \in Nat
    BY <1>2, FiniteFrame DEF FrameOk
  <2> QED
    BY <1>2, <1>3, <2>1, FS_RemoveElement, FramesAreLarge, ZenonT(30) DEF FrameOk
<1>8. \A g \in FramePool \ {f} : /\ freeList'[g] = freeList[g] /\ freeCount'[g] = freeCount[g]
                                /\ LiveIn(g)' = LiveIn(g)
  BY <1>1, <1>2, <1>6
<1>9. CASE ~ Drained(c, f)
  <2>1. UNCHANGED <<chain, frameCount>>
    BY <1>1, <1>9
  <2>2. LiveIn(f) \ {o} # {}
    <3>1. freeCount[f] + 1 # ObjCount[c]
      BY <1>9 DEF Drained
    <3>2. Cardinality(LiveIn(f) \ {o}) # 0
      BY <1>7, <3>1
    <3> QED
      BY <3>2, FS_EmptySet
  <2>3. FrameOk(c, f)'
    <3>1. freeCount'[f] = ObjCount[c] - Cardinality(LiveIn(f)')
      <4>1. Cardinality(LiveIn(f)') = Cardinality(LiveIn(f)) - 1
        BY <1>6, <1>7
      <4> QED
        BY <1>5, <1>7, <4>1
    <3>2. Elements(l) \subseteq Objects(c, f) \ (LiveIn(f) \ {o})
      BY <1>2, <1>3, <1>4 DEF FrameOk
    <3>3. LiveIn(f) \ {o} \subseteq Objects(c, f)
      BY <1>2 DEF FrameOk
    <3> QED
      BY <1>4, <1>5, <1>6, <2>2, <3>1, <3>2, <3>3 DEF FrameOk
  <2>4. TypeInv'
    BY <1>2, <1>5, <2>1 DEF TypeInv
  <2>5. \A x \in live' : x \in live \/ x[1] = f
    BY <1>1
  <2> QED
    BY <1>1, <1>8, <2>1, <2>3, <2>4, <2>5, FrameStep
<1>10. CASE Drained(c, f)
  <2>1. /\ chain' \in [Classes -> Seq(FramePool)] /\ frameCount' \in [Classes -> Int]
        /\ \A d \in Classes : Chained(d)' = Chained(d) \ {f}
        /\ ChainInv'
    BY <1>1, <1>10, FreeFrameEffect
  <2>2. TypeInv'
    BY <1>5, <2>1 DEF TypeInv
  <2>3. FrameInv'
    <3> SUFFICES ASSUME NEW d \in Classes, NEW g \in Chained(d)' PROVE FrameOk(d, g)'
      BY DEF FrameInv
    <3>1. g \in Chained(d) /\ g # f
      BY <2>1
    <3>2. FrameOk(d, g) /\ g \in FramePool
      BY <1>2, <3>1, ChainedInPool DEF IInv, FrameInv
    <3> QED
      BY <1>8, <3>1, <3>2, OtherFrame
  <2>4. LiveIn(f) = {o}
    <3>1. Cardinality(LiveIn(f) \ {o}) = 0
      BY <1>7, <1>10 DEF Drained
    <3>2. LiveIn(f) \ {o} = {}
      BY <1>7, <3>1, FS_EmptySet, FS_RemoveElement, FS_Subset
    <3> QED
      BY <1>3, <3>2
  <2>5. LiveInv'
    <3> SUFFICES ASSUME NEW x \in live' PROVE x[1] \in InUse'
      BY DEF LiveInv
    <3>1. x \in live /\ x[1] # f
      BY <1>1, <2>4 DEF LiveIn
    <3>2. x[1] \in InUse
      BY <3>1 DEF IInv, LiveInv
    <3> QED
      BY <2>1, <3>1, <3>2 DEF InUse
  <2> QED
    BY <2>1, <2>2, <2>3, <2>5 DEF IInv
<1> QED
  BY <1>9, <1>10

-----------------------------------------------------------------------------
(* The specification *)

LEMMA QuietStep ==
  ASSUME IInv, UNCHANGED <<chain, frameCount, freeList, freeCount, live>> PROVE IInv'
<1>1. TypeInv'
  BY DEF IInv, TypeInv
<1>2. \A c \in Classes : Chained(c)' = Chained(c)
  BY DEF Chained
<1>3. ChainInv'
  BY <1>2 DEF IInv, ChainInv
<1>4. FrameInv' /\ LiveInv'
  BY <1>2 DEF IInv, FrameInv, FrameOk, LiveIn, LiveInv, InUse
<1> QED
  BY <1>1, <1>3, <1>4 DEF IInv

LEMMA NextInvariant == IInv /\ [Next]_vars => IInv'
<1> SUFFICES ASSUME IInv, [Next]_vars PROVE IInv'
  OBVIOUS
<1>1. ASSUME NEW c \in Classes, Kmalloc(c) PROVE IInv'
  BY <1>1, KmallocInvariant
<1>2. CASE KmallocInvalid
  BY <1>2, QuietStep DEF KmallocInvalid
<1>3. ASSUME NEW o \in live, Kfree(o) PROVE IInv'
  BY <1>3, KfreeInvariant
<1>4. ASSUME NEW o \in AllObjects, WriteAfterFree(o) PROVE IInv'
  BY <1>4, QuietStep DEF WriteAfterFree
<1>5. CASE UNCHANGED vars
  BY <1>5, QuietStep DEF vars
<1> QED
  BY <1>1, <1>2, <1>3, <1>4, <1>5 DEF Next

\* The chains, the lists and the counts of kmalloc and kfree describe the
\* objects in use, in every reachable state.
THEOREM SlabInvariant == Spec => []IInv
<1> QED
  BY InitInvariant, NextInvariant, PTL DEF Spec

\* slab_malloc never hands out an object that is in use, and no frame is on
\* two chains, whatever has been written to freed objects.
THEOREM SlabNoSharing == Spec => []NoSharing
<1>1. IInv => NoSharing
  <2> SUFFICES ASSUME IInv PROVE NoSharing
    OBVIOUS
  <2>1. /\ \A c \in Classes : Distinct(chain[c])
        /\ \A c, d \in Classes : c # d => Chained(c) \cap Chained(d) = {}
    BY DEF IInv, ChainInv
  <2>2. ASSUME NEW c \in Classes, NEW f \in Chained(c)
        PROVE  Distinct(freeList[f]) /\ Elements(freeList[f]) \subseteq Objects(c, f) \ live
    <3>1. Distinct(freeList[f]) /\ Elements(freeList[f]) \subseteq Objects(c, f) \ LiveIn(f)
      BY DEF IInv, FrameInv, FrameOk
    <3>2. \A o \in Objects(c, f) : o[1] = f
      BY DEF Objects
    <3> QED
      BY <3>1, <3>2 DEF LiveIn
  <2> QED
    BY <2>1, <2>2 DEF NoSharing
<1> QED
  BY <1>1, SlabInvariant, PTL

\* slab_free_obj gives a frame back when its last object is freed, not
\* sooner, although skipped objects are on no list.
THEOREM SlabHoldsFrames == Spec => []FramesHeldExactlyWhileUsed
<1>1. IInv => FramesHeldExactlyWhileUsed
  <2> SUFFICES ASSUME IInv PROVE InUse = {o[1] : o \in live}
    BY DEF FramesHeldExactlyWhileUsed
  <2>1. \A o \in live : o[1] \in InUse
    BY DEF IInv, LiveInv
  <2>2. ASSUME NEW c \in Classes, NEW f \in Chained(c) PROVE \E o \in live : o[1] = f
    <3>1. LiveIn(f) # {}
      BY DEF IInv, FrameInv, FrameOk
    <3> QED
      BY <3>1 DEF LiveIn
  <2> QED
    BY <2>1, <2>2 DEF InUse
<1> QED
  BY <1>1, SlabInvariant, PTL

\* free_count is what slab_free_obj needs it to be: the objects of the frame
\* less those in use.
THEOREM SlabCountsAgree == Spec => []CountsAgree
<1>1. IInv => CountsAgree
  BY DEF IInv, FrameInv, FrameOk, LiveIn, CountsAgree
<1> QED
  BY <1>1, SlabInvariant, PTL

-----------------------------------------------------------------------------
(* Objects that are on no list: the damaged ones kmalloc has skipped. *)

CorruptIn(f) == {o \in corrupt : o[1] = f}
Lost(c, f)   == Objects(c, f) \ (LiveIn(f) \cup Elements(freeList[f]))

LossOk(c, f) ==
  /\ Lost(c, f) \subseteq corrupt
  /\ CorruptIn(f) \subseteq Objects(c, f) \ LiveIn(f)

LossInv ==
  /\ \A c \in Classes : \A f \in Chained(c) : LossOk(c, f)
  /\ \A o \in corrupt : o[1] \in InUse

LEMMA SkippedElements ==
  ASSUME NEW S, NEW s \in Seq(S), NEW i \in DOMAIN s, NEW x \in Elements(s)
  PROVE  x \in Elements(SubSeq(s, i + 1, Len(s))) \/ \E j \in 1 .. i : x = s[j]
<1> DEFINE t == SubSeq(s, i + 1, Len(s))
<1>1. i \in 1 .. Len(s) /\ Len(s) \in Nat /\ DOMAIN s = 1 .. Len(s)
  OBVIOUS
<1>2. \A j \in i + 1 .. Len(s) : s[j] \in S
  BY <1>1
<1>3. /\ t \in Seq(S)
      /\ Len(t) = IF i + 1 <= Len(s) THEN Len(s) - (i + 1) + 1 ELSE 0
      /\ \A j \in 1 .. Len(s) - (i + 1) + 1 : t[j] = s[i + 1 + j - 1]
  <2>1. i + 1 \in Int /\ Len(s) \in Int
    BY <1>1
  <2> QED
    BY ONLY <2>1, <1>2, SubSeqProperties
<1> HIDE DEF t
<1>4. PICK k \in 1 .. Len(s) : x = s[k]
  BY <1>1 DEF Elements
<1>5. CASE k > i
  <2>1. k - i \in 1 .. Len(s) - (i + 1) + 1 /\ i + 1 <= Len(s) /\ i + 1 + (k - i) - 1 = k
    BY <1>1, <1>5
  <2>2. t[k - i] = s[k]
    BY <1>3, <2>1
  <2>3. DOMAIN t = 1 .. Len(t) /\ k - i \in 1 .. Len(t)
    BY <1>3, <2>1
  <2> QED
    BY <1>4, <2>2, <2>3 DEF Elements, t
<1>6. CASE k <= i
  BY <1>1, <1>4, <1>6
<1> QED
  BY <1>1, <1>5, <1>6

LEMMA ElementCount ==
  ASSUME NEW S, NEW s \in Seq(S), Distinct(s)
  PROVE  IsFiniteSet(Elements(s)) /\ Cardinality(Elements(s)) = Len(s)
<1>1. Len(s) \in Nat /\ DOMAIN s = 1 .. Len(s)
  OBVIOUS
<1>2. s \in [1 .. Len(s) -> Elements(s)]
  BY <1>1 DEF Elements
<1>3. s \in Injection(1 .. Len(s), Elements(s))
  BY <1>1, <1>2 DEF Distinct, Injection, IsInjective
<1>4. s \in Surjection(1 .. Len(s), Elements(s))
  BY <1>1, <1>2 DEF Elements, Surjection
<1>5. ExistsBijection(1 .. Len(s), Elements(s))
  BY <1>3, <1>4 DEF Bijection, ExistsBijection
<1> QED
  BY <1>1, <1>5, FS_NatBijection, FS_CountingElements

LEMMA FrameCount ==
  ASSUME NEW c \in Classes, NEW f
  PROVE  IsFiniteSet(Objects(c, f)) /\ Cardinality(Objects(c, f)) = ObjCount[c]
<1> DEFINE n == ObjCount[c]
<1>0. n \in Nat \ {0}
  BY FramesAreLarge
<1> HIDE DEF n
<1>1. IsFiniteSet(1 .. n) /\ Cardinality(1 .. n) = n
  BY <1>0, FS_Interval
<1>2. IsFiniteSet({f}) /\ Cardinality({f}) = 1
  BY FS_Singleton
<1>3. /\ IsFiniteSet({f} \X (1 .. n))
      /\ Cardinality({f} \X (1 .. n)) = Cardinality({f}) * Cardinality(1 .. n)
  BY <1>1, <1>2, FS_Product
<1> QED
  BY <1>0, <1>1, <1>2, <1>3 DEF Objects, n

\* With nothing lost but damaged objects the counts tell how many those are.
LEMMA LossCount == IInv /\ LossInv => OnlySkippedObjectsAreLost
<1> SUFFICES ASSUME IInv, LossInv, NEW c \in Classes, NEW f \in Chained(c)
             PROVE  freeCount[f] - Len(freeList[f]) = Cardinality(CorruptIn(f) \ Elements(freeList[f]))
  BY DEF OnlySkippedObjectsAreLost, CorruptIn
<1> DEFINE L == LiveIn(f)
           E == Elements(freeList[f])
           O == Objects(c, f)
<1>1. FrameOk(c, f) /\ LossOk(c, f) /\ f \in FramePool
  BY ChainedInPool DEF IInv, FrameInv, LossInv
<1>2. CorruptIn(f) \ E = O \ (L \cup E)
  BY <1>1 DEF LossOk, Lost, CorruptIn, Objects
<1>3. freeList[f] \in Seq(FramePool \X Int) /\ Distinct(freeList[f])
  BY <1>1 DEF IInv, TypeInv, FrameOk
<1>4. IsFiniteSet(E) /\ Cardinality(E) = Len(freeList[f]) /\ Len(freeList[f]) \in Nat
  BY <1>3, ElementCount
<1>5. L \subseteq O /\ E \subseteq O \ L /\ freeCount[f] = ObjCount[c] - Cardinality(L)
  BY <1>1 DEF FrameOk
<1>6. IsFiniteSet(O) /\ Cardinality(O) = ObjCount[c] /\ ObjCount[c] \in Nat
  BY FrameCount, FramesAreLarge
<1>7. IsFiniteSet(L) /\ Cardinality(L) \in Nat
  BY <1>5, <1>6, FS_Subset, FS_CardinalityType
<1> HIDE DEF L, E, O
<1>8. Cardinality(L \cup E) = Cardinality(L) + Cardinality(E)
  <2>1. L \cap E = {}
    BY <1>5
  <2> QED
    <3>1. Cardinality(L \cup E) = Cardinality(L) + Cardinality(E) - Cardinality(L \cap E)
      BY <1>4, <1>7, FS_Union
    <3>2. Cardinality(L \cap E) = 0
      BY <2>1, FS_EmptySet
    <3> QED
      BY <1>4, <1>7, <3>1, <3>2
<1>9. Cardinality(O \ (L \cup E)) = Cardinality(O) - Cardinality(L \cup E)
  <2>1. O \cap (L \cup E) = L \cup E
    BY <1>5
  <2>2. Cardinality(O \ (L \cup E)) = Cardinality(O) - Cardinality(O \cap (L \cup E))
    BY <1>6, FS_Difference
  <2> QED
    BY <2>1, <2>2
<1>10. Cardinality(CorruptIn(f) \ E) = ObjCount[c] - (Cardinality(L) + Len(freeList[f]))
  BY <1>2, <1>4, <1>6, <1>8, <1>9
<1> QED
  BY <1>4, <1>5, <1>6, <1>7, <1>10 DEF E, L

\* A step that changes the objects of frame f at most, and no chain.
LEMMA LossStep ==
  ASSUME IInv, LossInv, UNCHANGED chain, NEW c \in Classes, NEW f \in Chained(c), LossOk(c, f)',
         \A g \in FramePool \ {f} : /\ freeList'[g] = freeList[g] /\ CorruptIn(g)' = CorruptIn(g)
                                    /\ LiveIn(g)' = LiveIn(g),
         \A o \in corrupt' : o \in corrupt \/ o[1] = f
  PROVE  LossInv'
<1>1. \A d \in Classes : Chained(d)' = Chained(d)
  BY DEF Chained
<1>2. InUse' = InUse
  BY <1>1 DEF InUse
<1>3. ASSUME NEW d \in Classes, NEW g \in Chained(d) PROVE LossOk(d, g)'
  <2>1. CASE g = f
    <3>1. d = c
      BY <2>1 DEF IInv, ChainInv
    <3> QED
      BY <2>1, <3>1
  <2>2. CASE g # f
    <3>1. LossOk(d, g) /\ g \in FramePool
      BY ChainedInPool DEF IInv, LossInv
    <3>2. freeList'[g] = freeList[g] /\ CorruptIn(g)' = CorruptIn(g) /\ LiveIn(g)' = LiveIn(g)
      BY <2>2, <3>1
    <3>3. \A o \in Objects(d, g) : o[1] = g
      BY DEF Objects
    <3>4. Lost(d, g)' = Lost(d, g) /\ Lost(d, g) \subseteq CorruptIn(g)
      BY <3>1, <3>2, <3>3 DEF Lost, LossOk, CorruptIn, Elements
    <3>5. Lost(d, g)' \subseteq corrupt'
      BY <3>2, <3>4 DEF CorruptIn
    <3> QED
      BY <3>1, <3>2, <3>5 DEF LossOk
  <2> QED
    BY <2>1, <2>2
<1>4. \A o \in corrupt' : o[1] \in InUse'
  BY <1>2 DEF LossInv, InUse
<1> QED
  BY <1>1, <1>3, <1>4 DEF LossInv

LEMMA AllocObjLoss ==
  ASSUME IInv, LossInv, NEW c \in Classes, NEW f \in Chained(c), AllocObj(f),
         UNCHANGED <<chain, corrupt>>
  PROVE  LossInv'
<1> DEFINE s == freeList[f]
<1>0. /\ f \in FramePool /\ FrameOk(c, f) /\ LossOk(c, f) /\ s \in Seq(FramePool \X Int)
      /\ freeList \in [FramePool -> Seq(FramePool \X Int)]
  BY ChainedInPool DEF IInv, FrameInv, TypeInv, LossInv
<1>1. \A g : CorruptIn(g)' = CorruptIn(g)
  BY DEF CorruptIn
<1>2. ASSUME NEW i \in DOMAIN s, SkipTo(s, i),
             freeList' = [freeList EXCEPT ![f] = SubSeq(s, i + 1, Len(s))],
             live' = live \cup {s[i]}
      PROVE  LossInv'
  <2> DEFINE t == SubSeq(s, i + 1, Len(s))
  <2>1. s[i] \in Objects(c, f) \ LiveIn(f) /\ s[i][1] = f /\ s[i] \notin corrupt
    BY <1>0, <1>2 DEF FrameOk, Elements, Objects, SkipTo
  <2>2. freeList'[f] = t
    BY <1>0, <1>2
  <2>3. LiveIn(f)' = LiveIn(f) \cup {s[i]}
    BY <1>2, <2>1, LiveAdded
  <2>4. \A x \in Elements(s) : x \in Elements(t) \/ x = s[i] \/ x \in corrupt
    <3> SUFFICES ASSUME NEW x \in Elements(s), x \notin Elements(t)
                 PROVE  x = s[i] \/ x \in corrupt
      OBVIOUS
    <3>1. PICK j \in 1 .. i : x = s[j]
      BY <1>0, SkippedElements
    <3>2. i \in Nat
      BY <1>0
    <3> QED
      BY <1>2, <3>1, <3>2 DEF SkipTo
  <2> HIDE DEF t
  <2>5. Lost(c, f)' \subseteq corrupt'
    <3> SUFFICES ASSUME NEW x \in Objects(c, f), x \notin LiveIn(f)', x \notin Elements(t)
                 PROVE  x \in corrupt
      BY <2>2 DEF Lost, Elements
    <3>1. CASE x \in Elements(s)
      BY <2>3, <2>4, <3>1
    <3>2. CASE x \notin Elements(s)
      BY <1>0, <2>3, <3>2 DEF LossOk, Lost
    <3> QED
      BY <3>1, <3>2
  <2>6. LossOk(c, f)'
    BY <1>0, <1>1, <2>1, <2>3, <2>5 DEF LossOk, CorruptIn
  <2>7. \A g \in FramePool \ {f} : freeList'[g] = freeList[g] /\ LiveIn(g)' = LiveIn(g)
    BY <1>0, <1>2, <2>1, LiveAdded
  <2> QED
    BY <1>1, <2>6, <2>7, LossStep
<1>3. ASSUME Elements(s) \subseteq corrupt, freeList' = [freeList EXCEPT ![f] = <<>>],
             UNCHANGED live
      PROVE  LossInv'
  <2>1. \A g : LiveIn(g)' = LiveIn(g)
    BY <1>3 DEF LiveIn
  <2>2. LossOk(c, f)'
    BY <1>0, <1>1, <1>3, <2>1 DEF LossOk, Lost, CorruptIn
  <2> QED
    BY <1>0, <1>1, <1>3, <2>1, <2>2, LossStep
<1> QED
  BY <1>2, <1>3 DEF AllocObj

LEMMA KmallocNewLoss == ASSUME IInv, LossInv, NEW c \in Classes, KmallocNew(c) PROVE LossInv'
<1>1. PICK f \in FramePool \ InUse :
        /\ chain'    = [chain EXCEPT ![c] = Append(@, f)]
        /\ freeList' = [freeList EXCEPT ![f] = [i \in 1 .. ObjCount[c] - 1 |-> <<f, i + 1>>]]
        /\ live'     = live \cup {<<f, 1>>}
  BY DEF KmallocNew
<1> DEFINE s == [i \in 1 .. ObjCount[c] - 1 |-> <<f, i + 1>>]
<1>0. /\ TypeInv /\ chain[c] \in Seq(FramePool) /\ ObjCount[c] \in Nat \ {0}
      /\ freeList \in [FramePool -> Seq(FramePool \X Int)] /\ corrupt' = corrupt
  BY FramesAreLarge DEF IInv, TypeInv, KmallocNew
<1>2. \A g : CorruptIn(g)' = CorruptIn(g)
  BY <1>0 DEF CorruptIn
<1>3. Chained(c)' = Chained(c) \cup {f} /\ \A d \in Classes \ {c} : Chained(d)' = Chained(d)
  <2>1. Elements(Append(chain[c], f)) = Chained(c) \cup {f}
    BY <1>0, AppendElements DEF Chained
  <2> QED
    BY <1>0, <1>1, <2>1 DEF TypeInv, Chained
<1>4. LiveIn(f) = {} /\ CorruptIn(f) = {}
  BY DEF IInv, LiveInv, LiveIn, LossInv, CorruptIn
<1>5. LiveIn(f)' = {<<f, 1>>} /\ \A g : g # f => LiveIn(g)' = LiveIn(g)
  <2>1. <<f, 1>>[1] = f /\ live' = live \cup {<<f, 1>>}
    BY <1>1
  <2>2. LiveIn(f)' = LiveIn(f) \cup {<<f, 1>>} /\ \A g : g # f => LiveIn(g)' = LiveIn(g)
    BY <2>1 DEF LiveIn
  <2> QED
    BY <1>4, <2>2
<1>6. LossOk(c, f)'
  <2>1. freeList'[f] = s
    BY <1>0, <1>1
  <2>2. ASSUME NEW x \in Objects(c, f), x # <<f, 1>> PROVE x \in Elements(s)
    <3>1. PICK i \in 1 .. ObjCount[c] : x = <<f, i>>
      BY DEF Objects
    <3>2. i - 1 \in 1 .. ObjCount[c] - 1 /\ s[i - 1] = x
      BY <1>0, <2>2, <3>1
    <3>3. i - 1 \in DOMAIN s
      BY <3>2
    <3> QED
      BY <3>2, <3>3 DEF Elements
  <2> HIDE DEF s
  <2>3. Lost(c, f)' = {}
    BY <1>5, <2>1, <2>2 DEF Lost, Elements
  <2> QED
    BY <1>2, <1>4, <2>3 DEF LossOk
<1>7. ASSUME NEW d \in Classes, NEW g \in Chained(d)' PROVE LossOk(d, g)'
  <2>1. CASE g = f
    <3>1. d = c
      BY <1>3, <2>1 DEF InUse
    <3> QED
      BY <1>6, <2>1, <3>1
  <2>2. CASE g # f
    <3>1. g \in Chained(d)
      BY <1>3, <2>2
    <3>2. LossOk(d, g) /\ g \in FramePool
      BY <1>0, <3>1, ChainedInPool DEF LossInv
    <3>3. freeList'[g] = freeList[g]
      BY <1>0, <1>1, <2>2, <3>2
    <3>4. Lost(d, g)' = Lost(d, g)
      BY <1>5, <2>2, <3>3 DEF Lost, Elements
    <3> QED
      BY <1>0, <1>2, <1>5, <2>2, <3>2, <3>4 DEF LossOk
  <2> QED
    BY <2>1, <2>2
<1>8. \A o \in corrupt' : o[1] \in InUse'
  <2>1. InUse \subseteq InUse'
    BY <1>3 DEF InUse
  <2> QED
    BY <1>0, <2>1 DEF LossInv
<1> QED
  BY <1>7, <1>8 DEF LossInv

LEMMA KfreeLoss == ASSUME IInv, LossInv, NEW o \in live, Kfree(o) PROVE LossInv'
<1> DEFINE f == o[1]
           l == <<o>> \o freeList[f]
<1>1. PICK c \in Classes :
        /\ f \in Chained(c) /\ live' = live \ {o}
        /\ freeList' = [freeList EXCEPT ![f] = l]
        /\ Drained(c, f) => FreeFrame(c, f) /\ corrupt' = {x \in corrupt : x[1] # f}
        /\ ~ Drained(c, f) => corrupt' = corrupt \ {o} /\ UNCHANGED <<chain, frameCount>>
  BY DEF Kfree
<1>2. /\ f \in FramePool /\ FrameOk(c, f) /\ LossOk(c, f)
      /\ freeList \in [FramePool -> Seq(FramePool \X Int)]
  BY <1>1, ChainedInPool DEF IInv, FrameInv, TypeInv, LossInv
<1>3. o \in LiveIn(f) /\ o \in Objects(c, f) /\ o \in FramePool \X Int
  <2>1. o \in LiveIn(f) /\ o \in Objects(c, f)
    BY <1>2 DEF FrameOk, LiveIn
  <2> QED
    BY <1>2, <2>1, FramesAreLarge DEF Objects
<1>4. freeList'[f] = l /\ Elements(l) = Elements(freeList[f]) \cup {o}
  BY <1>1, <1>2, <1>3, ConsElements
<1> HIDE DEF l
<1>5. LiveIn(f)' = LiveIn(f) \ {o} /\ \A g : g # f => LiveIn(g)' = LiveIn(g)
  BY <1>1, LiveRemoved
<1>6. \A g \in FramePool \ {f} : freeList'[g] = freeList[g] /\ CorruptIn(g)' = CorruptIn(g)
  BY <1>1, <1>2 DEF CorruptIn
<1>7. CASE ~ Drained(c, f)
  <2>1. UNCHANGED chain /\ corrupt' = corrupt \ {o}
    BY <1>1, <1>7
  <2>2. Lost(c, f)' \subseteq corrupt'
    <3>1. Lost(c, f)' = Objects(c, f) \ ((LiveIn(f) \ {o}) \cup Elements(l))
      BY <1>4, <1>5 DEF Lost
    <3>2. Lost(c, f)' \subseteq Lost(c, f) \ {o}
      BY <1>4, <3>1 DEF Lost
    <3> QED
      BY <1>2, <2>1, <3>2 DEF LossOk
  <2>3. LossOk(c, f)'
    BY <1>2, <1>3, <1>5, <2>1, <2>2 DEF LossOk, CorruptIn
  <2> QED
    BY <1>1, <1>5, <1>6, <2>1, <2>3, LossStep
<1>8. CASE Drained(c, f)
  <2>1. \A d \in Classes : Chained(d)' = Chained(d) \ {f}
    BY <1>1, <1>8, FreeFrameEffect
  <2>2. ASSUME NEW d \in Classes, NEW g \in Chained(d)' PROVE LossOk(d, g)'
    <3>1. g \in Chained(d) /\ g # f
      BY <2>1
    <3>2. LossOk(d, g) /\ g \in FramePool
      BY <3>1, ChainedInPool DEF IInv, LossInv
    <3>3. freeList'[g] = freeList[g] /\ CorruptIn(g)' = CorruptIn(g) /\ LiveIn(g)' = LiveIn(g)
      BY <1>5, <1>6, <3>1, <3>2
    <3>4. Lost(d, g)' = Lost(d, g) /\ Lost(d, g) \subseteq CorruptIn(g)
      BY <3>2, <3>3 DEF Lost, LossOk, CorruptIn, Objects, Elements
    <3> QED
      BY <3>2, <3>3, <3>4 DEF LossOk, CorruptIn
  <2>3. \A x \in corrupt' : x[1] \in InUse'
    BY <1>1, <1>8, <2>1 DEF LossInv, InUse
  <2> QED
    BY <2>2, <2>3 DEF LossInv
<1> QED
  BY <1>7, <1>8

LEMMA WriteLoss == ASSUME IInv, LossInv, NEW o, WriteAfterFree(o) PROVE LossInv'
<1>0. PICK c \in Classes : \E g \in Chained(c) : o \in Elements(freeList[g])
  BY DEF WriteAfterFree, InUse
<1>1. PICK f \in Chained(c) : o \in Elements(freeList[f])
  BY <1>0
<1>2. UNCHANGED <<chain, freeList, live>> /\ corrupt' = corrupt \cup {o}
  BY DEF WriteAfterFree
<1>3. FrameOk(c, f) /\ LossOk(c, f)
  BY DEF IInv, FrameInv, LossInv
<1>4. o \in Objects(c, f) \ LiveIn(f) /\ o[1] = f
  BY <1>1, <1>3 DEF FrameOk, Objects
<1>5. \A g : LiveIn(g)' = LiveIn(g)
  BY <1>2 DEF LiveIn
<1>6. \A g : g # f => CorruptIn(g)' = CorruptIn(g)
  BY <1>2, <1>4 DEF CorruptIn
<1>7. LossOk(c, f)'
  BY <1>2, <1>3, <1>4, <1>5 DEF LossOk, Lost, CorruptIn
<1> QED
  BY <1>2, <1>4, <1>5, <1>6, <1>7, LossStep

LEMMA QuietLoss == ASSUME LossInv, UNCHANGED <<chain, freeList, live, corrupt>> PROVE LossInv'
<1>1. InUse' = InUse /\ \A c \in Classes : Chained(c)' = Chained(c)
  BY DEF InUse, Chained
<1>2. \A g : LiveIn(g)' = LiveIn(g) /\ CorruptIn(g)' = CorruptIn(g)
  BY DEF LiveIn, CorruptIn
<1>3. \A c, g : Lost(c, g)' = Lost(c, g)
  BY <1>2 DEF Lost
<1>4. \A c, g : LossOk(c, g) => LossOk(c, g)'
  BY <1>2, <1>3 DEF LossOk
<1> QED
  BY <1>1, <1>4 DEF LossInv

LEMMA NextLoss == IInv /\ LossInv /\ [Next]_vars => LossInv'
<1> SUFFICES ASSUME IInv, LossInv, [Next]_vars PROVE LossInv'
  OBVIOUS
<1>1. ASSUME NEW c \in Classes, Kmalloc(c) PROVE LossInv'
  <2>1. CASE KmallocOld(c)
    <3>1. PICK i \in DOMAIN chain[c] : AllocObj(chain[c][i])
      BY <2>1 DEF KmallocOld
    <3>2. chain[c][i] \in Chained(c) /\ UNCHANGED <<chain, corrupt>>
      BY <2>1 DEF KmallocOld, Chained, Elements
    <3> QED
      BY <3>1, <3>2, AllocObjLoss
  <2>2. CASE KmallocRefused(c)
    BY <2>2, QuietLoss DEF KmallocRefused
  <2> QED
    BY <1>1, <2>1, <2>2, KmallocNewLoss DEF Kmalloc
<1>2. CASE KmallocInvalid
  BY <1>2, QuietLoss DEF KmallocInvalid
<1>3. ASSUME NEW o \in live, Kfree(o) PROVE LossInv'
  BY <1>3, KfreeLoss
<1>4. ASSUME NEW o \in AllObjects, WriteAfterFree(o) PROVE LossInv'
  BY <1>4, WriteLoss
<1>5. CASE UNCHANGED vars
  BY <1>5, QuietLoss DEF vars
<1> QED
  BY <1>1, <1>2, <1>3, <1>4, <1>5 DEF Next

LEMMA InitLoss == Init => LossInv
BY DEF Init, LossInv, Chained, Elements

LEMMA LossInvariant == Spec => [](IInv /\ LossInv)
<1> QED
  BY SlabInvariant, InitLoss, NextLoss, PTL DEF Spec

\* What slab_alloc_obj takes off a free list without handing it out has been
\* written to after it was freed, and stays counted.
THEOREM SlabLosesOnlySkipped == Spec => []OnlySkippedObjectsAreLost
<1> QED
  BY LossInvariant, LossCount, PTL

-----------------------------------------------------------------------------
(* Where an object lies. *)

LEMMA Quotient ==
  ASSUME NEW x \in Nat, NEW d \in Nat \ {0}
  PROVE  /\ x \div d \in Nat
         /\ (x \div d) * d <= x /\ x < (x \div d) * d + d
OBVIOUS

LEMMA Multiple ==
  ASSUME NEW a \in Nat, NEW d \in Nat \ {0}
  PROVE  a * d \in Nat /\ (a * d) % d = 0
OBVIOUS

LEMMA Monotone ==
  ASSUME NEW a \in Int, NEW b \in Int, NEW d \in Nat, a <= b
  PROVE  a * d <= b * d
<1>1. (b - a) * d >= 0
  OBVIOUS
<1>2. (b - a) * d = b * d - a * d
  OBVIOUS
<1> QED
  BY <1>1, <1>2

\* The objects of a frame fit between its header and its end.
LEMMA FrameLayout ==
  ASSUME NEW c \in Classes
  PROVE  /\ StartOf(c) \in Nat /\ StartOf(c) >= Header /\ StartOf(c) % ObjSize[c] = 0
         /\ StartOf(c) + ObjCount[c] * ObjSize[c] <= FrameSize
<1> DEFINE d == ObjSize[c]
           a == (Header + d - 1) \div d
           n == (FrameSize - Header) \div d
           q == FrameSize \div d
<1>1. d \in Nat \ {0} /\ Header \in Nat /\ FrameSize \in Nat /\ Header <= FrameSize /\ FrameSize % d = 0
  BY LayoutAssumption
<1>2. StartOf(c) = a * d /\ ObjCount[c] = n
  BY DEF StartOf, ObjCount
<1> HIDE DEF d
<1>3. Header + d - 1 \in Nat /\ FrameSize - Header \in Nat
  BY <1>1
<1>4. a \in Nat /\ a * d <= Header + d - 1 /\ Header + d - 1 < a * d + d
  BY <1>1, <1>3, Quotient
<1>5. n \in Nat /\ n * d <= FrameSize - Header
  BY <1>1, <1>3, Quotient
<1>6. q \in Nat /\ q * d = FrameSize
  BY <1>1
<1> HIDE DEF a, n, q
<1>7. a * d \in Nat /\ (a * d) % d = 0 /\ n * d \in Nat
  BY <1>1, <1>4, <1>5, Multiple
<1>8. a * d >= Header
  BY <1>1, <1>4, <1>7
<1>9. a + n <= q
  <2> SUFFICES ASSUME a + n >= q + 1 PROVE FALSE
    BY <1>4, <1>5, <1>6
  <2>1. (q + 1) * d <= (a + n) * d
    BY <1>1, <1>4, <1>5, <1>6, Monotone
  <2>2. (q + 1) * d = q * d + d /\ (a + n) * d = a * d + n * d
    BY <1>1, <1>4, <1>5, <1>6
  <2> QED
    BY <1>1, <1>4, <1>5, <1>6, <1>7, <2>1, <2>2
<1>10. a * d + n * d <= FrameSize
  <2>1. (a + n) * d <= q * d
    BY <1>1, <1>4, <1>5, <1>6, <1>9, Monotone
  <2>2. (a + n) * d = a * d + n * d
    BY <1>1, <1>4, <1>5
  <2> QED
    BY <1>6, <2>1, <2>2
<1> QED
  BY <1>2, <1>7, <1>8, <1>10 DEF d

\* The memory of an object is a block of the abstract allocator, aligned and
\* within its frame.
LEMMA ObjectPlace ==
  ASSUME NEW c \in Classes, NEW f \in FramePool, NEW o \in Objects(c, f)
  PROVE  /\ Memory(c, o) \in Abstract!Blocks /\ Memory(c, o)[1] = f
         /\ Memory(c, o)[2] % Memory(c, o)[3] = 0
         /\ Memory(c, o)[2] + Memory(c, o)[3] <= FrameSize
<1> DEFINE d == ObjSize[c]
           a == (Header + d - 1) \div d
           n == ObjCount[c]
<1>1. PICK i \in 1 .. n : o = <<f, i>>
  BY DEF Objects
<1>2. d \in Nat \ {0} /\ n \in Nat /\ Header \in Nat /\ FrameSize \in Nat
  BY LayoutAssumption, FramesAreLarge
<1>3. /\ a * d \in Nat /\ a * d >= Header /\ a * d + n * d <= FrameSize
  BY FrameLayout DEF StartOf
<1>4. a \in Nat
  <2>1. Header + d - 1 \in Nat
    BY <1>2
  <2> HIDE DEF d
  <2> QED
    BY <1>2, <2>1, Quotient
<1>5. Memory(c, o) = <<f, a * d + (i - 1) * d, d>>
  BY <1>1 DEF Memory, StartOf
<1>6. d \in {ObjSize[k] : k \in Classes}
  OBVIOUS
<1> HIDE DEF d, a, n
<1>7. i - 1 \in Nat /\ i <= n /\ i \in Nat
  BY <1>1, <1>2
<1>8. a * d + (i - 1) * d = (a + (i - 1)) * d /\ (i - 1) * d \in Nat /\ (i - 1) * d + d = i * d
  BY <1>2, <1>4, <1>7
<1>9. (a * d + (i - 1) * d) % d = 0
  <2>1. a + (i - 1) \in Nat
    BY <1>4, <1>7
  <2> QED
    BY <1>2, <1>8, <2>1, Multiple
<1>10. i * d <= n * d /\ n * d \in Nat /\ i * d \in Nat
  BY <1>2, <1>7, Monotone, Multiple
<1>11. a * d + (i - 1) * d + d <= FrameSize
  BY <1>2, <1>3, <1>8, <1>10
<1>12. a * d + (i - 1) * d \in Header .. FrameSize - 1
  BY <1>2, <1>3, <1>8, <1>11
<1> QED
  BY <1>5, <1>6, <1>9, <1>11, <1>12 DEF Abstract!Blocks

\* No unit belongs to two objects.
LEMMA ObjectsApart ==
  ASSUME NEW c \in Classes, NEW f \in FramePool, NEW o \in Objects(c, f), NEW p \in Objects(c, f), o # p
  PROVE  UnitsOf(Memory(c, o)) \cap UnitsOf(Memory(c, p)) = {} /\ Memory(c, o) # Memory(c, p)
<1> DEFINE d == ObjSize[c]
           s == StartOf(c)
<1>1. PICK i, j \in 1 .. ObjCount[c] : o = <<f, i>> /\ p = <<f, j>>
  BY DEF Objects
<1>2. d \in Nat \ {0} /\ s \in Nat /\ i \in Nat /\ j \in Nat /\ i # j
  BY <1>1, LayoutAssumption, FrameLayout, FramesAreLarge
<1>3. Memory(c, o) = <<f, s + (i - 1) * d, d>> /\ Memory(c, p) = <<f, s + (j - 1) * d, d>>
  BY <1>1 DEF Memory
<1> HIDE DEF d, s
<1>4. (i - 1) * d \in Int /\ (j - 1) * d \in Int
  BY <1>2
<1>5. (i - 1) * d + d <= (j - 1) * d \/ (j - 1) * d + d <= (i - 1) * d
  <2>1. CASE i < j
    <3>1. i * d <= (j - 1) * d
      BY <1>2, <2>1, Monotone
    <3>2. (i - 1) * d + d = i * d
      BY <1>2
    <3> QED
      BY <3>1, <3>2
  <2>2. CASE j < i
    <3>1. j * d <= (i - 1) * d
      BY <1>2, <2>2, Monotone
    <3>2. (j - 1) * d + d = j * d
      BY <1>2
    <3> QED
      BY <3>1, <3>2
  <2> QED
    BY <1>2, <2>1, <2>2
<1>6. (i - 1) * d # (j - 1) * d
  BY <1>2, <1>4, <1>5
<1>7. ASSUME NEW x, x \in UnitsOf(Memory(c, o)), x \in UnitsOf(Memory(c, p)) PROVE FALSE
  <2>1. /\ x[2] \in s + (i - 1) * d .. s + (i - 1) * d + d - 1
        /\ x[2] \in s + (j - 1) * d .. s + (j - 1) * d + d - 1
    BY <1>3, <1>7 DEF UnitsOf
  <2> QED
    BY <1>2, <1>4, <1>5, <2>1
<1>8. s + (i - 1) * d # s + (j - 1) * d
  BY <1>2, <1>4, <1>6
<1> QED
  BY <1>3, <1>7, <1>8

-----------------------------------------------------------------------------
(* Every step of kmalloc and kfree is one of the abstract allocator. *)

\* The object o belongs to a frame of class c.
Of(c, o) == o[1] \in Chained(c) /\ o \in Objects(c, o[1])

LEMMA MemoryElement ==
  ASSUME NEW S, NEW x
  PROVE  x \in MemoryOf(S) <=> \E c \in Classes, o \in S : o[1] \in Chained(c) /\ x = Memory(c, o)
<1>1. ASSUME x \in MemoryOf(S)
      PROVE  \E c \in Classes, o \in S : o[1] \in Chained(c) /\ x = Memory(c, o)
  <2>1. PICK y \in Classes \X S : y[2][1] \in Chained(y[1]) /\ x = Memory(y[1], y[2])
    BY <1>1 DEF MemoryOf
  <2> QED
    BY <2>1
<1>2. ASSUME NEW c \in Classes, NEW o \in S, o[1] \in Chained(c), x = Memory(c, o)
      PROVE  x \in MemoryOf(S)
  <2> DEFINE y == <<c, o>>
  <2>1. y \in {z \in Classes \X S : z[2][1] \in Chained(z[1])} /\ x = Memory(y[1], y[2])
    BY <1>2
  <2> HIDE DEF y
  <2> QED
    BY <2>1 DEF MemoryOf
<1> QED
  BY <1>1, <1>2

\* The same of the objects after a step.
LEMMA LiveMemoryNext ==
  ASSUME NEW x
  PROVE  x \in MemoryOf(live)' <=> \E c \in Classes, o \in live' : o[1] \in Chained(c)' /\ x = Memory(c, o)
<1>1. ASSUME x \in MemoryOf(live)'
      PROVE  \E c \in Classes, o \in live' : o[1] \in Chained(c)' /\ x = Memory(c, o)
  <2>1. PICK y \in Classes \X live' : y[2][1] \in Chained(y[1])' /\ x = Memory(y[1], y[2])
    BY <1>1 DEF MemoryOf, Memory
  <2> QED
    BY <2>1
<1>2. ASSUME NEW c \in Classes, NEW o \in live', o[1] \in Chained(c)', x = Memory(c, o)
      PROVE  x \in MemoryOf(live)'
  <2> DEFINE y == <<c, o>>
  <2>1. y \in Classes \X live' /\ y[2][1] \in Chained(y[1])' /\ x = Memory(y[1], y[2])
    BY <1>2
  <2> HIDE DEF y
  <2> QED
    BY <2>1 DEF MemoryOf, Memory
<1> QED
  BY <1>1, <1>2

LEMMA CorruptMemoryNext ==
  ASSUME NEW x
  PROVE  x \in MemoryOf(corrupt)' <=>
           \E c \in Classes, o \in corrupt' : o[1] \in Chained(c)' /\ x = Memory(c, o)
<1>1. ASSUME x \in MemoryOf(corrupt)'
      PROVE  \E c \in Classes, o \in corrupt' : o[1] \in Chained(c)' /\ x = Memory(c, o)
  <2>1. PICK y \in Classes \X corrupt' : y[2][1] \in Chained(y[1])' /\ x = Memory(y[1], y[2])
    BY <1>1 DEF MemoryOf, Memory
  <2> QED
    BY <2>1
<1>2. ASSUME NEW c \in Classes, NEW o \in corrupt', o[1] \in Chained(c)', x = Memory(c, o)
      PROVE  x \in MemoryOf(corrupt)'
  <2> DEFINE y == <<c, o>>
  <2>1. y \in Classes \X corrupt' /\ y[2][1] \in Chained(y[1])' /\ x = Memory(y[1], y[2])
    BY <1>2
  <2> HIDE DEF y
  <2> QED
    BY <2>1 DEF MemoryOf, Memory
<1> QED
  BY <1>1, <1>2

LEMMA MemoryApart ==
  ASSUME IInv, NEW c \in Classes, NEW d \in Classes, NEW o, NEW p, Of(c, o), Of(d, p), o # p
  PROVE  UnitsOf(Memory(c, o)) \cap UnitsOf(Memory(d, p)) = {} /\ Memory(c, o) # Memory(d, p)
<1>1. o[1] \in FramePool /\ p[1] \in FramePool
  BY ChainedInPool DEF IInv, Of
<1>2. CASE o[1] = p[1]
  <2>1. c = d
    BY <1>2 DEF IInv, ChainInv, Of
  <2> QED
    BY <1>1, <1>2, <2>1, ObjectsApart DEF Of
<1>3. CASE o[1] # p[1]
  <2>1. Memory(c, o)[1] = o[1] /\ Memory(d, p)[1] = p[1]
    BY DEF Memory
  <2> QED
    BY <1>3, <2>1 DEF UnitsOf
<1> QED
  BY <1>2, <1>3

LEMMA LiveOf ==
  ASSUME IInv, NEW c \in Classes, NEW o \in live, o[1] \in Chained(c)
  PROVE  Of(c, o)
BY DEF IInv, FrameInv, FrameOk, LiveIn, Of

LEMMA CorruptOf ==
  ASSUME LossInv, NEW c \in Classes, NEW o \in corrupt, o[1] \in Chained(c)
  PROVE  Of(c, o) /\ o \notin live
BY DEF LossInv, LossOk, CorruptIn, LiveIn, Of

LEMMA ListedOf ==
  ASSUME IInv, NEW c \in Classes, NEW f \in Chained(c), NEW o \in Elements(freeList[f])
  PROVE  o \in Objects(c, f) /\ o[1] = f /\ o \notin live
<1>1. o \in Objects(c, f) /\ o \notin LiveIn(f)
  BY DEF IInv, FrameInv, FrameOk
<1>2. o[1] = f
  BY <1>1 DEF Objects
<1> QED
  BY <1>1, <1>2 DEF LiveIn

\* The units the abstract allocator has in use and those it knows as touched.
LEMMA UsedElement ==
  ASSUME NEW u
  PROVE  /\ u \in Abstract!Used <=>
              \E c \in Classes, o \in live : o[1] \in Chained(c) /\ u \in UnitsOf(Memory(c, o))
         /\ u \in Touched <=>
              \E c \in Classes, o \in corrupt : o[1] \in Chained(c) /\ u \in UnitsOf(Memory(c, o))
<1>1. u \in Abstract!Used <=> \E m \in MemoryOf(live) : u \in UnitsOf(m)
  BY DEF Abstract!Used, Abstract!Units, UnitsOf
<1>2. u \in Touched <=> \E m \in MemoryOf(corrupt) : u \in UnitsOf(m)
  BY DEF Touched
<1> QED
  BY <1>1, <1>2, MemoryElement

\* Frames that join a chain hold no object that was in use or damaged before.
LEMMA ChainsGrow ==
  ASSUME IInv, IInv', \A c \in Classes : Chained(c) \subseteq Chained(c)',
         NEW d \in Classes, NEW o, o[1] \in InUse
  PROVE  o[1] \in Chained(d)' <=> o[1] \in Chained(d)
<1>1. PICK c \in Classes : o[1] \in Chained(c)
  BY DEF InUse
<1>2. \A e \in Classes : o[1] \in Chained(e)' => e = c
  BY <1>1 DEF IInv, ChainInv
<1> QED
  BY <1>1, <1>2

LEMMA AllocRefines ==
  ASSUME IInv, IInv', LossInv, \A d \in Classes : Chained(d) \subseteq Chained(d)',
         NEW c \in Classes, NEW f \in Chained(c)', NEW o \in Objects(c, f),
         o \notin live, o \notin corrupt, live' = live \cup {o}, corrupt' = corrupt
  PROVE  Abstract!Alloc(Memory(c, o)) /\ Memory(c, o) \in Abstract!Blocks
<1>0. f \in FramePool /\ o[1] = f
  BY ChainedInPool DEF IInv, TypeInv, Chained, Elements, Objects
<1>1. /\ Memory(c, o) \in Abstract!Blocks
      /\ Memory(c, o)[2] % Memory(c, o)[3] = 0
      /\ Memory(c, o)[2] + Memory(c, o)[3] <= FrameSize
  BY <1>0, ObjectPlace
<1>2. \A p \in live \cup corrupt : p[1] \in InUse
  BY DEF IInv, LiveInv, LossInv
<1>3. ASSUME NEW d \in Classes, NEW p \in live \cup corrupt
      PROVE  p[1] \in Chained(d)' <=> p[1] \in Chained(d)
  BY <1>2, ChainsGrow
<1>4. MemoryOf(live)' = MemoryOf(live) \cup {Memory(c, o)}
  <2>1. ASSUME NEW x PROVE x \in MemoryOf(live)' <=> x \in MemoryOf(live) \cup {Memory(c, o)}
    <3>1. x \in MemoryOf(live)' <=>
            \E d \in Classes, p \in live' : p[1] \in Chained(d)' /\ x = Memory(d, p)
      BY LiveMemoryNext
    <3>2. x \in MemoryOf(live) <=>
            \E d \in Classes, p \in live : p[1] \in Chained(d) /\ x = Memory(d, p)
      BY MemoryElement
    <3>3. \A d \in Classes : o[1] \in Chained(d)' <=> d = c
      BY <1>0 DEF IInv, ChainInv
    <3> QED
      BY <1>3, <3>1, <3>2, <3>3
  <2> QED
    BY <2>1
<1>5. Touched' = Touched
  <2>1. ASSUME NEW x PROVE x \in MemoryOf(corrupt)' <=> x \in MemoryOf(corrupt)
    <3>1. x \in MemoryOf(corrupt)' <=>
            \E d \in Classes, p \in corrupt' : p[1] \in Chained(d)' /\ x = Memory(d, p)
      BY CorruptMemoryNext
    <3>2. x \in MemoryOf(corrupt) <=>
            \E d \in Classes, p \in corrupt : p[1] \in Chained(d) /\ x = Memory(d, p)
      BY MemoryElement
    <3> QED
      BY <1>3, <3>1, <3>2
  <2>2. MemoryOf(corrupt)' = MemoryOf(corrupt)
    BY <2>1
  <2> QED
    BY <2>2 DEF Touched
<1>6. ASSUME NEW u \in UnitsOf(Memory(c, o)), u \in Abstract!Used \cup Touched PROVE FALSE
  <2>1. PICK d \in Classes, p \in live \cup corrupt :
          p[1] \in Chained(d) /\ u \in UnitsOf(Memory(d, p))
    BY <1>6, UsedElement
  <2>2. Of(d, p) /\ p # o
    BY <2>1, LiveOf, CorruptOf
  <2>3. Of(d, p)' /\ Of(c, o)'
    BY <1>0, <2>1, <2>2 DEF Of
  <2>4. UnitsOf(Memory(c, o)) \cap UnitsOf(Memory(d, p)) = {}
    <3>1. CASE p[1] = f
      <4>1. d = c
        BY <2>3, <1>0, <3>1 DEF IInv, ChainInv, Of
      <4> QED
        BY <1>0, <2>2, <3>1, <4>1, ObjectsApart DEF Of
    <3>2. CASE p[1] # f
      <4>1. Memory(c, o)[1] = f /\ Memory(d, p)[1] = p[1]
        BY <1>0 DEF Memory
      <4> QED
        BY <3>2, <4>1 DEF UnitsOf
    <3> QED
      BY <3>1, <3>2
  <2> QED
    BY <1>6, <2>1, <2>4
<1>7. Abstract!Units(Memory(c, o)) = UnitsOf(Memory(c, o))
  BY DEF Abstract!Units, UnitsOf
<1> QED
  BY <1>1, <1>4, <1>5, <1>6, <1>7 DEF Abstract!Alloc

\* What kfree takes back is memory in use, and only that.
LEMMA FreeRefines ==
  ASSUME IInv, LossInv, NEW o \in live, Kfree(o)
  PROVE  \E x \in Abstract!Blocks : Abstract!Free(x)
<1> DEFINE f == o[1]
<1>1. PICK c \in Classes :
        /\ f \in Chained(c) /\ live' = live \ {o}
        /\ Drained(c, f) => FreeFrame(c, f) /\ corrupt' = {x \in corrupt : x[1] # f}
        /\ ~ Drained(c, f) => corrupt' = corrupt \ {o} /\ UNCHANGED <<chain, frameCount>>
  BY DEF Kfree
<1>2. Of(c, o) /\ f \in FramePool
  BY <1>1, LiveOf, ChainedInPool DEF IInv
<1>3. Memory(c, o) \in Abstract!Blocks
  BY <1>2, ObjectPlace DEF Of
<1>4. /\ \A d \in Classes : Chained(d)' \subseteq Chained(d)
      /\ \A d \in Classes : \A g \in Chained(d) \ Chained(d)' : g = f /\ Drained(c, f)
      /\ corrupt' \subseteq corrupt
  <2>1. CASE Drained(c, f)
    <3>1. \A d \in Classes : Chained(d)' = Chained(d) \ {f}
      BY <1>1, <2>1, FreeFrameEffect
    <3> QED
      BY <1>1, <2>1, <3>1
  <2>2. CASE ~ Drained(c, f)
    <3>1. \A d \in Classes : Chained(d)' = Chained(d)
      BY <1>1, <2>2 DEF Chained
    <3> QED
      BY <1>1, <2>2, <3>1
  <2> QED
    BY <2>1, <2>2
<1>5. Drained(c, f) => LiveIn(f) = {o}
  <2>1. /\ freeCount[f] = ObjCount[c] - Cardinality(LiveIn(f)) /\ LiveIn(f) \subseteq Objects(c, f)
        /\ freeCount[f] \in Int /\ ObjCount[c] \in Nat
    BY <1>1, <1>2, FramesAreLarge DEF IInv, TypeInv, FrameInv, FrameOk
  <2>2. IsFiniteSet(LiveIn(f)) /\ Cardinality(LiveIn(f)) \in Nat
    <3>1. IsFiniteSet(Objects(c, f))
      BY FiniteFrame
    <3> QED
      BY <2>1, <3>1, FS_Subset, FS_CardinalityType
  <2>3. Drained(c, f) => Cardinality(LiveIn(f)) = 1
    BY <2>1, <2>2 DEF Drained
  <2>4. o \in LiveIn(f)
    BY DEF LiveIn
  <2>5. Cardinality(LiveIn(f)) = 1 => \E x : LiveIn(f) = {x}
    BY <2>2, FS_Singleton
  <2> QED
    BY <2>3, <2>4, <2>5
<1>6. MemoryOf(live)' = MemoryOf(live) \ {Memory(c, o)} /\ Memory(c, o) \in MemoryOf(live)
  <2>1. Memory(c, o) \in MemoryOf(live)
    BY <1>1, MemoryElement
  <2>2. ASSUME NEW x \in MemoryOf(live)' PROVE x \in MemoryOf(live) \ {Memory(c, o)}
    <3>1. PICK d \in Classes : \E p \in live' : p[1] \in Chained(d)' /\ x = Memory(d, p)
      BY <2>2, LiveMemoryNext
    <3>2. PICK p \in live' : p[1] \in Chained(d)' /\ x = Memory(d, p)
      BY <3>1
    <3>3. p \in live /\ p # o /\ p[1] \in Chained(d)
      BY <1>1, <1>4, <3>2
    <3>4. Memory(d, p) # Memory(c, o)
      BY <1>2, <3>3, LiveOf, MemoryApart
    <3> QED
      BY <3>2, <3>3, <3>4, MemoryElement
  <2>3. ASSUME NEW x \in MemoryOf(live), x # Memory(c, o) PROVE x \in MemoryOf(live)'
    <3>1. PICK d \in Classes : \E p \in live : p[1] \in Chained(d) /\ x = Memory(d, p)
      BY <2>3, MemoryElement
    <3>2. PICK p \in live : p[1] \in Chained(d) /\ x = Memory(d, p)
      BY <3>1
    <3>3. p # o
      <4>1. SUFFICES ASSUME p = o PROVE d = c
        BY <2>3, <3>2
      <4> QED
        BY <1>1, <3>2, <4>1 DEF IInv, ChainInv
    <3>4. p \in live' /\ p[1] \in Chained(d)'
      BY <1>1, <1>4, <1>5, <3>2, <3>3 DEF LiveIn
    <3> QED
      BY <3>2, <3>4, LiveMemoryNext
  <2> QED
    BY <2>1, <2>2, <2>3
<1>7. Touched' \subseteq Touched
  <2>1. \A x \in MemoryOf(corrupt)' : x \in MemoryOf(corrupt)
    BY <1>4, MemoryElement, CorruptMemoryNext
  <2> QED
    BY <2>1 DEF Touched
<1>8. Abstract!Free(Memory(c, o))
  BY <1>6, <1>7 DEF Abstract!Free
<1> QED
  BY <1>3, <1>8

\* A write to an object that was freed damages no memory in use.
LEMMA WriteRefines ==
  ASSUME IInv, LossInv, NEW o \in AllObjects, WriteAfterFree(o)
  PROVE  Abstract!Touch
<1>1. /\ \E g \in InUse : o \in Elements(freeList[g])
      /\ corrupt' = corrupt \cup {o} /\ live' = live /\ chain' = chain
  BY DEF WriteAfterFree
<1>2. \A d \in Classes : Chained(d)' = Chained(d)
  BY <1>1 DEF Chained
<1>3. MemoryOf(live)' = MemoryOf(live)
  <2>1. \A x : x \in MemoryOf(live)' <=> x \in MemoryOf(live)
    BY <1>1, <1>2, MemoryElement, LiveMemoryNext
  <2> QED
    BY <2>1
<1>4. o \notin live
  BY <1>1, ListedOf DEF InUse
<1>5. Touched \subseteq Touched'
  <2>1. ASSUME NEW x \in MemoryOf(corrupt) PROVE x \in MemoryOf(corrupt)'
    <3>1. \E d \in Classes, p \in corrupt : p[1] \in Chained(d) /\ x = Memory(d, p)
      BY <2>1, MemoryElement
    <3>2. \E d \in Classes, p \in corrupt' : p[1] \in Chained(d)' /\ x = Memory(d, p)
      BY <1>1, <1>2, <3>1
    <3> QED
      BY <3>2, CorruptMemoryNext
  <2> QED
    BY <2>1 DEF Touched
<1>6. ASSUME NEW u \in Touched' \ Touched, u \in Abstract!Used PROVE FALSE
  <2>1. PICK x \in MemoryOf(corrupt)' : u \in UnitsOf(x)
    BY <1>6 DEF Touched
  <2>2. PICK d \in Classes : \E p \in corrupt' : p[1] \in Chained(d)' /\ x = Memory(d, p)
    BY <2>1, CorruptMemoryNext
  <2>3. PICK p \in corrupt' : p[1] \in Chained(d)' /\ x = Memory(d, p)
    BY <2>2
  <2>4. p[1] \in Chained(d) /\ p = o
    BY <1>1, <1>2, <1>6, <2>1, <2>3, UsedElement
  <2>5. Of(d, o)
    <3>1. PICK e \in Classes : \E g \in Chained(e) : o \in Elements(freeList[g])
      BY <1>1 DEF InUse
    <3>2. PICK g \in Chained(e) : o \in Elements(freeList[g])
      BY <3>1
    <3>3. o \in Objects(e, g) /\ o[1] = g
      BY <3>2, ListedOf
    <3>4. d = e
      BY <2>4, <3>2, <3>3 DEF IInv, ChainInv
    <3> QED
      BY <2>4, <3>3, <3>4 DEF Of
  <2>6. PICK e \in Classes : \E q \in live : q[1] \in Chained(e) /\ u \in UnitsOf(Memory(e, q))
    BY <1>6, UsedElement
  <2>7. PICK q \in live : q[1] \in Chained(e) /\ u \in UnitsOf(Memory(e, q))
    BY <2>6
  <2>8. Of(e, q) /\ q # o
    BY <1>4, <2>7, LiveOf
  <2>9. UnitsOf(Memory(e, q)) \cap UnitsOf(Memory(d, o)) = {}
    BY <2>5, <2>8, MemoryApart
  <2> QED
    BY <2>1, <2>3, <2>4, <2>7, <2>9
<1> QED
  BY <1>3, <1>5, <1>6 DEF Abstract!Touch

\* A step that hands out and takes back nothing is invisible.
LEMMA QuietRefines ==
  ASSUME UNCHANGED <<chain, live, corrupt>>
  PROVE  UNCHANGED Abstract!ovars
<1>1. \A d \in Classes : Chained(d)' = Chained(d)
  BY DEF Chained
<1>2. \A x : x \in MemoryOf(live)' <=> x \in MemoryOf(live)
  BY <1>1, MemoryElement, LiveMemoryNext
<1>3. \A x : x \in MemoryOf(corrupt)' <=> x \in MemoryOf(corrupt)
  BY <1>1, MemoryElement, CorruptMemoryNext
<1>4. MemoryOf(live)' = MemoryOf(live) /\ MemoryOf(corrupt)' = MemoryOf(corrupt)
  BY <1>2, <1>3
<1> QED
  BY <1>4 DEF Abstract!ovars, Touched

\* kmalloc answers NULL, or memory that is clean, in no use, and in place.
LEMMA KmallocRefines ==
  ASSUME IInv, IInv', LossInv, NEW c \in Classes, Kmalloc(c)
  PROVE  UNCHANGED Abstract!ovars \/ \E x \in Abstract!Blocks : Abstract!Alloc(x)
<1>1. CASE KmallocOld(c)
  <2>1. PICK i \in DOMAIN chain[c] : AllocObj(chain[c][i])
    BY <1>1 DEF KmallocOld
  <2>2. PICK f : f = chain[c][i]
    OBVIOUS
  <2>3. f \in Chained(c) /\ AllocObj(f) /\ UNCHANGED <<chain, corrupt>>
    BY <1>1, <2>1, <2>2 DEF KmallocOld, Chained, Elements
  <2>4. CASE UNCHANGED live
    BY <2>3, <2>4, QuietRefines
  <2>5. CASE \E j \in DOMAIN freeList[f] : SkipTo(freeList[f], j) /\ live' = live \cup {freeList[f][j]}
    <3>1. PICK j \in DOMAIN freeList[f] : SkipTo(freeList[f], j) /\ live' = live \cup {freeList[f][j]}
      BY <2>5
    <3>2. PICK o : o = freeList[f][j]
      OBVIOUS
    <3>3. o \in Elements(freeList[f]) /\ o \notin corrupt
      BY <3>1, <3>2 DEF SkipTo, Elements
    <3>4. o \in Objects(c, f) /\ o \notin live
      BY <2>3, <3>3, ListedOf
    <3>5. \A d \in Classes : Chained(d)' = Chained(d)
      BY <2>3 DEF Chained
    <3>6. f \in Chained(c)' /\ live' = live \cup {o} /\ corrupt' = corrupt
      BY <2>3, <3>1, <3>2, <3>5
    <3> QED
      BY <3>3, <3>4, <3>5, <3>6, AllocRefines
  <2> QED
    BY <2>3, <2>4, <2>5 DEF AllocObj
<1>2. CASE KmallocNew(c)
  <2>1. PICK f \in FramePool \ InUse :
          chain' = [chain EXCEPT ![c] = Append(@, f)] /\ live' = live \cup {<<f, 1>>}
    BY <1>2 DEF KmallocNew
  <2>2. chain[c] \in Seq(FramePool) /\ chain \in [Classes -> Seq(FramePool)] /\ corrupt' = corrupt
    BY <1>2 DEF IInv, TypeInv, KmallocNew
  <2>3. Elements(Append(chain[c], f)) = Elements(chain[c]) \cup {f}
    BY <2>2, AppendElements
  <2>4. Chained(c)' = Chained(c) \cup {f} /\ \A d \in Classes \ {c} : Chained(d)' = Chained(d)
    BY <2>1, <2>2, <2>3 DEF Chained
  <2>5. <<f, 1>> \in Objects(c, f)
    BY FramesAreLarge DEF Objects
  <2>6. <<f, 1>> \notin live /\ <<f, 1>> \notin corrupt
    <3>1. \A o \in live \cup corrupt : o[1] # f
      BY <2>1 DEF IInv, LiveInv, LossInv
    <3> QED
      BY <3>1
  <2>7. f \in Chained(c)' /\ \A d \in Classes : Chained(d) \subseteq Chained(d)'
    BY <2>4
  <2> QED
    BY <2>1, <2>2, <2>5, <2>6, <2>7, AllocRefines
<1>3. CASE KmallocRefused(c)
  BY <1>3, QuietRefines DEF KmallocRefused
<1> QED
  BY <1>1, <1>2, <1>3 DEF Kmalloc

LEMMA NextSlabRefines ==
  IInv /\ LossInv /\ IInv' /\ [Next]_vars => [Abstract!Next]_(Abstract!ovars)
<1> SUFFICES ASSUME IInv, IInv', LossInv, [Next]_vars
             PROVE  Abstract!Next \/ UNCHANGED Abstract!ovars
  OBVIOUS
<1>1. ASSUME NEW c \in Classes, Kmalloc(c) PROVE Abstract!Next \/ UNCHANGED Abstract!ovars
  BY <1>1, KmallocRefines DEF Abstract!Next
<1>2. CASE KmallocInvalid
  BY <1>2, QuietRefines DEF KmallocInvalid
<1>3. ASSUME NEW o \in live, Kfree(o) PROVE Abstract!Next
  BY <1>3, FreeRefines DEF Abstract!Next
<1>4. ASSUME NEW o \in AllObjects, WriteAfterFree(o) PROVE Abstract!Next
  BY <1>4, WriteRefines DEF Abstract!Next
<1>5. CASE UNCHANGED vars
  BY <1>5, QuietRefines DEF vars
<1> QED
  BY <1>1, <1>2, <1>3, <1>4, <1>5 DEF Next

LEMMA InitSlabRefines == Init => Abstract!Init
<1> SUFFICES ASSUME Init PROVE Abstract!Init
  OBVIOUS
<1>1. MemoryOf(live) = {} /\ MemoryOf(corrupt) = {}
  BY MemoryElement DEF Init
<1> QED
  BY <1>1 DEF Abstract!Init, Touched

\* kmalloc and kfree implement the abstract object allocator: what they hand
\* out is aligned, lies behind its frame's header, overlaps no object in use of
\* any class, and no unit of it has been written to since it was free.
THEOREM SlabImplementsObjAlloc == Spec => AbstractSpec
<1>1. Spec => [](IInv /\ LossInv)
  BY LossInvariant
<1> QED
  BY <1>1, InitSlabRefines, NextSlabRefines, PTL DEF Spec, AbstractSpec, Abstract!Spec
=============================================================================
