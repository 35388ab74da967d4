---------------------------- MODULE VmMapProofs ----------------------------
(***************************************************************************)
(* What vm_map and vmap keep for page tables of any width, any physical    *)
(* memory and any requests: the second pass finds what the first has       *)
(* prepared, and at every step the processor translates exactly the        *)
(* recorded areas, the part of the one under way and the boot mapping.     *)
(***************************************************************************)
EXTENDS VmMap, TLAPS

-----------------------------------------------------------------------------
(* Division. *)

LEMMA Monotone ==
  ASSUME NEW a \in Int, NEW b \in Int, NEW s \in Nat, a <= b
  PROVE  a * s <= b * s
<1>1. (b - a) * s >= 0
  OBVIOUS
<1>2. (b - a) * s = b * s - a * s
  OBVIOUS
<1> QED
  BY <1>1, <1>2

\* A number has one quotient and one remainder.
LEMMA Divide ==
  ASSUME NEW x \in Nat, NEW s \in Nat \ {0}
  PROVE  x \div s \in Nat /\ x % s \in 0 .. s - 1 /\ x = (x \div s) * s + (x % s)
<1>1. x \div s \in Nat /\ x % s \in 0 .. s - 1
  OBVIOUS
<1>2. \A q \in Nat, r \in 0 .. s - 1 : q = x \div s /\ r = x % s => x = q * s + r
  <2> SUFFICES ASSUME NEW q \in Nat, NEW r \in 0 .. s - 1, q = x \div s, r = x % s
               PROVE  x = q * s + r
    OBVIOUS
  <2>1. x % s = x - s * (x \div s)
    OBVIOUS
  <2>2. r = x - s * q
    BY <2>1, Zenon
  <2> QED
    BY <2>2
<1> QED
  BY <1>1, <1>2, Zenon

LEMMA Unique ==
  ASSUME NEW s \in Nat \ {0}, NEW q \in Nat, NEW r \in 0 .. s - 1,
         NEW p \in Nat, NEW t \in 0 .. s - 1, q * s + r = p * s + t
  PROVE  q = p /\ r = t
<1>1. \A a, b \in Nat : a < b => a * s + s <= b * s
  <2> SUFFICES ASSUME NEW a \in Nat, NEW b \in Nat, a < b PROVE a * s + s <= b * s
    OBVIOUS
  <2>1. (a + 1) * s <= b * s
    BY Monotone
  <2>2. (a + 1) * s = a * s + s
    OBVIOUS
  <2> QED
    BY <2>1, <2>2
<1>2. q * s \in Nat /\ p * s \in Nat
  OBVIOUS
<1>3. ~ (q < p) /\ ~ (p < q)
  BY <1>1, <1>2
<1> QED
  BY <1>3

LEMMA Quotient ==
  ASSUME NEW s \in Nat \ {0}, NEW q \in Nat, NEW r \in 0 .. s - 1, NEW x, x = q * s + r
  PROVE  x \in Nat /\ x \div s = q /\ x % s = r
<1>1. x \in Nat
  OBVIOUS
<1>2. x \div s \in Nat /\ x % s \in 0 .. s - 1 /\ x = (x \div s) * s + (x % s)
  BY <1>1, Divide
<1> QED
  BY <1>1, <1>2, Unique

\* Division by a product is division by one factor and then by the other.
Twice(x, s, f) ==
  /\ x \div (f * s) = (x \div s) \div f
  /\ x % (f * s) = ((x \div s) % f) * s + (x % s)

LEMMA DivideTwice ==
  ASSUME NEW x \in Nat, NEW s \in Nat \ {0}, NEW f \in Nat \ {0}
  PROVE  Twice(x, s, f)
<1>1. PICK q \in Nat, r \in 0 .. s - 1 : q = x \div s /\ r = x % s /\ x = q * s + r
  BY Divide
<1>2. PICK p \in Nat, t \in 0 .. f - 1 : p = q \div f /\ t = q % f /\ q = p * f + t
  BY Divide
<1>3. PICK u \in Nat \ {0} : u = f * s
  OBVIOUS
<1>4. x = p * u + (t * s + r)
  <2>1. (p * f + t) * s + r = p * (f * s) + (t * s + r)
    OBVIOUS
  <2> QED
    BY <1>1, <1>2, <1>3, <2>1, Zenon
<1>5. t * s + r \in 0 .. u - 1
  <2>1. (t + 1) * s <= f * s
    BY Monotone
  <2>2. (t + 1) * s = t * s + s /\ t * s \in Nat
    OBVIOUS
  <2> QED
    BY <1>3, <2>1, <2>2
<1>6. x \div u = p /\ x % u = t * s + r
  <2>1. PICK v \in 0 .. u - 1 : v = t * s + r
    BY <1>5, Zenon
  <2>2. x = p * u + v
    BY <1>4, <2>1, Zenon
  <2>3. x \div u = p /\ x % u = v
    BY <2>2, Quotient
  <2> QED
    BY <2>1, <2>3, Zenon
<1> QED
  <2>1. x \div u = (x \div s) \div f
    BY <1>1, <1>2, <1>6, Zenon
  <2>2. ((x \div s) % f) * s + (x % s) = t * s + r
    BY <1>1, <1>2, Zenon
  <2> QED
    BY <1>3, <1>6, <2>1, <2>2, Zenon DEF Twice

\* A multiple of s does not change the remainder.
LEMMA Shift ==
  ASSUME NEW s \in Nat \ {0}, NEW k \in Nat, NEW x \in Nat, NEW c, c = k * s
  PROVE  (c + x) % s = x % s /\ (c + x) \div s = k + x \div s
<1>1. PICK q \in Nat, r \in 0 .. s - 1 : q = x \div s /\ r = x % s /\ x = q * s + r
  BY Divide
<1>2. PICK p \in Nat : p = k + q
  OBVIOUS
<1>3. c + x = p * s + r
  BY <1>1, <1>2
<1> SUFFICES ASSUME NEW y, y = c + x PROVE y % s = r /\ y \div s = p
  BY <1>1, <1>2
<1> QED
  BY <1>3, Quotient

LEMMA Multiple ==
  ASSUME NEW s \in Nat \ {0}, NEW k \in Nat, NEW c, c = k * s
  PROVE  c \in Nat /\ c % s = 0 /\ c \div s = k
<1>1. c = k * s + 0
  OBVIOUS
<1> QED
  BY <1>1, Quotient

-----------------------------------------------------------------------------
(* Levels, spans and keys. *)

LEMMA SpanFacts ==
  /\ Span[0] = 1 /\ \A l \in 0 .. Top - 1 : Span[l + 1] = Fanout * Span[l]
  /\ \A l \in Levels : Span[l] \in Nat \ {0}
<1> DEFINE f == [l \in Levels |-> IF l = 0 THEN 1
                                  ELSE IF l = 1 THEN Fanout
                                  ELSE IF l = 2 THEN Fanout * Fanout
                                  ELSE Fanout * (Fanout * Fanout)]
<1>1. Fanout \in Nat \ {0}
  BY VmMapAssumption
<1>2. Fanout * Fanout \in Nat \ {0}
  BY <1>1
<1>3. f = [l \in Levels |-> IF l = 0 THEN 1 ELSE Fanout * f[l - 1]]
  <2> SUFFICES ASSUME NEW l \in Levels
               PROVE  f[l] = IF l = 0 THEN 1 ELSE Fanout * f[l - 1]
    BY Zenon
  <2>1. CASE l = 0
    BY <2>1 DEF Levels, Top
  <2>2. CASE l = 1
    BY <1>1, <2>2 DEF Levels, Top
  <2>3. CASE l = 2
    BY <2>3 DEF Levels, Top
  <2>4. CASE l = 3
    BY <2>4 DEF Levels, Top
  <2> QED
    BY <2>1, <2>2, <2>3, <2>4 DEF Levels, Top
<1> HIDE DEF f
<1>4. Span = [l \in Levels |-> IF l = 0 THEN 1 ELSE Fanout * Span[l - 1]]
  BY <1>3, Zenon DEF Span
<1>5. \A l \in Levels : Span[l] = IF l = 0 THEN 1 ELSE Fanout * Span[l - 1]
  BY <1>4, Zenon
<1>6. Span[0] = 1 /\ Span[1] = Fanout * Span[0] /\ Span[2] = Fanout * Span[1]
      /\ Span[3] = Fanout * Span[2]
  <2>1. 0 \in Levels /\ 1 \in Levels /\ 2 \in Levels /\ 3 \in Levels
    BY DEF Levels, Top
  <2>2. 1 - 1 = 0 /\ 2 - 1 = 1 /\ 3 - 1 = 2 /\ 1 # 0 /\ 2 # 0 /\ 3 # 0
    OBVIOUS
  <2> QED
    BY <1>5, <2>1, <2>2
<1>7. Span[1] = Fanout
  BY <1>1, <1>6
<1>8. Span[2] = Fanout * Fanout
  BY <1>6, <1>7
<1>9. Span[3] \in Nat \ {0}
  <2>1. \A a \in Nat \ {0}, b \in Nat \ {0} : a * b \in Nat \ {0}
    OBVIOUS
  <2> QED
    BY <1>1, <1>2, <1>6, <1>8, <2>1
<1> QED
  BY <1>1, <1>2, <1>6, <1>7, <1>8, <1>9 DEF Levels, Top

Addresses == 0 .. U64 - 1

\* Spans of level l in the space.
Count(l) == Space \div Span[l]

LEMMA CountFacts ==
  /\ Space \in Nat \ {0} /\ U64 \in Nat
  /\ \A l \in Levels : Count(l) \in Nat \ {0} /\ Space = Count(l) * Span[l]
  /\ \A l \in 0 .. Top - 1 : Count(l) = Count(l + 1) * Fanout
<1>1. \A a \in Nat \ {0}, b \in Nat \ {0} : a * b \in Nat \ {0}
  OBVIOUS
<1>2. Count(Top) = Roots /\ Space = Count(Top) * Span[Top] /\ Roots \in Nat \ {0}
  <2>1. Roots \in Nat \ {0}
    BY VmMapAssumption
  <2>2. PICK s \in Nat \ {0} : s = Span[Top]
    BY SpanFacts DEF Levels, Top
  <2>3. Space = Roots * s
    BY <2>2 DEF Space
  <2>4. Space \div s = Roots
    BY <2>1, <2>3, Multiple
  <2> QED
    BY <2>1, <2>2, <2>3, <2>4, Zenon DEF Count
<1>3. ASSUME NEW l \in 0 .. Top - 1, Count(l + 1) \in Nat \ {0},
             Space = Count(l + 1) * Span[l + 1]
      PROVE  /\ Count(l) = Count(l + 1) * Fanout
             /\ Count(l) \in Nat \ {0} /\ Space = Count(l) * Span[l]
  <2>1. PICK c \in Nat \ {0} : c = Count(l + 1)
    BY <1>3
  <2>2. PICK s \in Nat \ {0} : s = Span[l] /\ Span[l + 1] = Fanout * s
    BY SpanFacts DEF Levels, Top
  <2>3. PICK d \in Nat \ {0} : d = c * Fanout
    BY <1>1, VmMapAssumption
  <2>4. Space = c * (Fanout * s)
    BY <1>3, <2>1, <2>2
  <2>5. Fanout \in Nat
    BY VmMapAssumption
  <2>6. c * (Fanout * s) = (c * Fanout) * s
    BY <2>5
  <2>7. Space = d * s
    BY <2>3, <2>4, <2>6
  <2>8. Space \div s = d
    BY <2>7, Multiple
  <2> QED
    BY <2>1, <2>2, <2>3, <2>7, <2>8 DEF Count
<1>4. Space \in Nat \ {0} /\ U64 \in Nat
  <2>1. Span[Top] \in Nat \ {0}
    BY SpanFacts DEF Levels, Top
  <2> QED
    BY <1>1, <2>1, VmMapAssumption DEF Space
<1>5. /\ Count(2) = Count(3) * Fanout
      /\ Count(2) \in Nat \ {0} /\ Space = Count(2) * Span[2]
  BY <1>2, <1>3 DEF Top
<1>6. /\ Count(1) = Count(2) * Fanout
      /\ Count(1) \in Nat \ {0} /\ Space = Count(1) * Span[1]
  BY <1>5, <1>3 DEF Top
<1>7. /\ Count(0) = Count(1) * Fanout
      /\ Count(0) \in Nat \ {0} /\ Space = Count(0) * Span[0]
  BY <1>6, <1>3 DEF Top
<1> QED
  BY <1>2, <1>4, <1>5, <1>6, <1>7 DEF Levels, Top

Number(l, va) == (va \div Span[l]) % Count(l)

LEMMA KeyNumber ==
  ASSUME NEW l \in Levels, NEW x \in Nat
  PROVE  /\ Key(l, x) = <<l, Number(l, x)>>
         /\ Number(l, x) \in 0 .. Count(l) - 1 /\ Key(l, x) \in Keys
<1>1. PICK s \in Nat \ {0} : s = Span[l]
  BY SpanFacts
<1>2. PICK c \in Nat \ {0} : c = Count(l) /\ Space = c * s
  BY <1>1, CountFacts
<1>3. PICK q \in Nat, r \in 0 .. s - 1 : q = x \div s /\ r = x % s
  BY Divide
<1>4. PICK n \in 0 .. c - 1 : n = q % c
  BY Divide
<1>5. x % Space = ((x \div s) % c) * s + (x % s)
  <2>1. Twice(x, s, c)
    BY DivideTwice
  <2> QED
    BY <1>2, <2>1, Zenon DEF Twice
<1>6. x % Space = n * s + r
  BY <1>2, <1>3, <1>4, <1>5, Zenon
<1>7. (x % Space) \div s = n
  <2>1. PICK y : y = x % Space
    OBVIOUS
  <2>2. y = n * s + r
    BY <1>6, <2>1
  <2>3. y \div s = n
    BY <2>2, Quotient
  <2> QED
    BY <2>1, <2>3
<1>8. Number(l, x) = n
  BY <1>1, <1>2, <1>3, <1>4, Zenon DEF Number
<1>9. Key(l, x) = <<l, n>>
  BY <1>1, <1>7, Zenon DEF Key
<1>10. <<l, n>> \in Keys
  <2>1. n \in 0 .. Space \div Span[l] - 1
    BY <1>2 DEF Count
  <2> QED
    BY <2>1 DEF Keys
<1> QED
  BY <1>2, <1>8, <1>9, <1>10

\* A table is over the Fanout entries below it.
LEMMA KeyUp ==
  ASSUME NEW l \in 0 .. Top - 1, NEW x \in Nat
  PROVE  Number(l + 1, x) = Number(l, x) \div Fanout
<1>1. l \in Levels /\ l + 1 \in Levels
  BY DEF Levels, Top
<1> PICK f \in Nat \ {0} : f = Fanout
  BY VmMapAssumption
<1>2. PICK s \in Nat \ {0}, u \in Nat \ {0} : s = Span[l] /\ u = Span[l + 1] /\ u = f * s
  BY <1>1, SpanFacts
<1>3. PICK d \in Nat \ {0}, e \in Nat \ {0} : d = Count(l + 1) /\ e = Count(l) /\ e = d * f
  BY <1>1, CountFacts
<1>4. PICK q \in Nat : q = x \div s
  BY Divide
<1>5. PICK p \in Nat, t \in 0 .. f - 1 : p = q \div f /\ t = q % f
  BY Divide
<1>6. PICK n \in 0 .. d - 1 : n = p % d
  BY Divide
<1>7. x \div u = (x \div s) \div f
  <2>1. Twice(x, s, f)
    BY DivideTwice
  <2> QED
    BY <1>2, <2>1, Zenon DEF Twice
<1>8. q % e = ((q \div f) % d) * f + (q % f)
  <2>1. Twice(q, f, d)
    BY DivideTwice
  <2> QED
    BY <1>3, <2>1, Zenon DEF Twice
<1>9. Number(l + 1, x) = n
  BY <1>2, <1>3, <1>4, <1>5, <1>6, <1>7, Zenon DEF Number
<1>10. PICK m : m = Number(l, x)
  OBVIOUS
<1>11. m = n * f + t
  BY <1>2, <1>3, <1>4, <1>5, <1>6, <1>8, <1>10, Zenon DEF Number
<1>12. m \div f = n
  BY <1>11, Quotient
<1> QED
  BY <1>9, <1>10, <1>12

\* Addresses below one table are below the same tables.
LEMMA KeyNest ==
  ASSUME NEW x \in Nat, NEW y \in Nat, NEW l \in Levels, Key(l, x) = Key(l, y),
         NEW k \in l .. Top
  PROVE  Key(k, x) = Key(k, y)
<1>1. \A i \in Levels : Key(i, x) = Key(i, y) <=> Number(i, x) = Number(i, y)
  <2> SUFFICES ASSUME NEW i \in Levels
               PROVE  Key(i, x) = Key(i, y) <=> Number(i, x) = Number(i, y)
    OBVIOUS
  <2>1. Key(i, x) = <<i, Number(i, x)>>
    BY KeyNumber, Zenon
  <2>2. Key(i, y) = <<i, Number(i, y)>>
    BY KeyNumber, Zenon
  <2> QED
    BY <2>1, <2>2
<1>2. \A i \in 0 .. Top - 1 : Number(i, x) = Number(i, y) => Number(i + 1, x) = Number(i + 1, y)
  BY KeyUp
<1>3. Number(l, x) = Number(l, y)
  BY <1>1
<1>4. Number(k, x) = Number(k, y)
  BY <1>2, <1>3 DEF Levels, Top
<1> QED
  BY <1>1, <1>4 DEF Levels

LEMMA KeyLevel ==
  ASSUME NEW x \in Nat, NEW y \in Nat, NEW l \in Levels, NEW k \in Levels,
         Key(l, x) = Key(k, y)
  PROVE  l = k
BY KeyNumber

LEMMA HalfFacts ==
  \E h \in Nat, w \in Nat \ {0} :
    /\ Space = 2 * h /\ h > 0 /\ Space \div 2 = h /\ U64 = w * Space /\ U64 \div Space = w
    /\ \A l \in Levels : \E n \in Nat \ {0} : h = n * Span[l] /\ Count(l) = 2 * n
<1>1. PICK t \in Nat \ {0} : t = Roots /\ t % 2 = 0
  BY VmMapAssumption
<1>2. PICK r \in Nat \ {0} : t = 2 * r
  BY <1>1
<1>3. PICK s \in Nat \ {0} : s = Span[Top]
  BY SpanFacts DEF Levels, Top
<1>4. PICK h \in Nat \ {0} : h = r * s
  OBVIOUS
<1>5. Space = 2 * h
  <2>1. (2 * r) * s = 2 * (r * s)
    OBVIOUS
  <2> QED
    BY <1>1, <1>2, <1>3, <1>4, <2>1, Zenon DEF Space
<1>6. \A l \in Levels : \E n \in Nat \ {0} : h = n * Span[l] /\ Count(l) = 2 * n
  <2>1. \A l \in Levels : \A n \in Nat \ {0} : h = n * Span[l] => Count(l) = 2 * n
    <3> SUFFICES ASSUME NEW l \in Levels, NEW n \in Nat \ {0}, h = n * Span[l]
                 PROVE  Count(l) = 2 * n
      OBVIOUS
    <3>1. PICK u \in Nat \ {0} : u = Span[l]
      BY SpanFacts
    <3>2. PICK m \in Nat : m = 2 * n
      OBVIOUS
    <3>3. (2 * n) * u = 2 * (n * u)
      OBVIOUS
    <3>4. Space = m * u
      BY <1>5, <3>1, <3>2, <3>3, Zenon
    <3>5. Space \div u = m
      BY <3>4, Multiple
    <3> QED
      BY <3>1, <3>2, <3>5, Zenon DEF Count
  <2>2. ASSUME NEW l \in 0 .. Top - 1, NEW n \in Nat \ {0}, h = n * Span[l + 1]
        PROVE  \E m \in Nat \ {0} : h = m * Span[l]
    <3>1. PICK u \in Nat \ {0} : u = Span[l] /\ Span[l + 1] = Fanout * u
      BY SpanFacts DEF Levels, Top
    <3>2. PICK f \in Nat \ {0} : f = Fanout
      BY VmMapAssumption
    <3>3. PICK m \in Nat \ {0} : m = n * f
      OBVIOUS
    <3>4. n * (f * u) = (n * f) * u
      OBVIOUS
    <3>5. h = m * u
      BY <2>2, <3>1, <3>2, <3>3, <3>4, Zenon
    <3> QED
      BY <3>1, <3>5
  <2>3. \E n \in Nat \ {0} : h = n * Span[3]
    BY <1>3, <1>4 DEF Top
  <2>4. \E n \in Nat \ {0} : h = n * Span[2]
    BY <2>2, <2>3 DEF Top
  <2>5. \E n \in Nat \ {0} : h = n * Span[1]
    BY <2>2, <2>4 DEF Top
  <2>6. \E n \in Nat \ {0} : h = n * Span[0]
    BY <2>2, <2>5 DEF Top
  <2> QED
    BY <2>1, <2>3, <2>4, <2>5, <2>6 DEF Levels, Top
<1>7. PICK w \in Nat : w = U64 \div Space /\ U64 = w * Space
  <2>1. PICK u \in Nat : u = U64
    BY VmMapAssumption
  <2>2. PICK p \in Nat \ {0} : p = Space
    BY CountFacts
  <2>3. u \div p \in Nat /\ u % p \in 0 .. p - 1 /\ u = (u \div p) * p + (u % p)
    BY Divide
  <2>4. u % p = 0
    BY <2>1, <2>2, VmMapAssumption
  <2>5. PICK v \in Nat : v = u \div p /\ u = v * p
    BY <2>3, <2>4
  <2> QED
    BY <2>1, <2>2, <2>5
<1>8. w # 0
  <2>1. U64 > Space /\ Space \in Nat /\ 0 * Space = 0
    BY CountFacts, VmMapAssumption
  <2> QED
    BY <1>7, <2>1
<1>9. Space \div 2 = h
  BY <1>5
<1> QED
  BY <1>5, <1>6, <1>7, <1>8, <1>9

LEMMA CanonicalFacts ==
  ASSUME NEW x \in Canonical
  PROVE  x \in Nat /\ x \in Addresses
<1>1. PICK h \in Nat, w \in Nat \ {0} :
        /\ Space = 2 * h /\ h > 0 /\ Space \div 2 = h /\ U64 = w * Space
  BY HalfFacts
<1>2. 1 * Space <= w * Space
  BY CountFacts, Monotone
<1> QED
  BY <1>1, <1>2, CountFacts DEF Canonical, Addresses

\* Canonical addresses with one key are in one span.
LEMMA SameKey ==
  ASSUME NEW x \in Canonical, NEW y \in Canonical, NEW l \in Levels
  PROVE  Key(l, x) = Key(l, y) <=> x \div Span[l] = y \div Span[l]
<1>1. PICK h \in Nat, w \in Nat \ {0} :
        /\ Space = 2 * h /\ h > 0 /\ Space \div 2 = h /\ U64 = w * Space
        /\ \E n \in Nat \ {0} : h = n * Span[l] /\ Count(l) = 2 * n
  BY HalfFacts
<1>2. PICK s \in Nat \ {0} : s = Span[l]
  BY SpanFacts
<1>3. PICK n \in Nat \ {0} : h = n * s /\ Count(l) = 2 * n
  BY <1>1, <1>2
<1>4. PICK m \in Nat : w = m + 1
  BY <1>1
<1>5. U64 = (m * (2 * n)) * s + (2 * n) * s
  <2>1. (m + 1) * (2 * (n * s)) = (m * (2 * n)) * s + (2 * n) * s
    OBVIOUS
  <2> QED
    BY <1>1, <1>3, <1>4, <2>1, Zenon
<1>6. ASSUME NEW z \in Canonical
      PROVE  \E d \in 0 .. n - 1 : \/ z \div s = d /\ Number(l, z) = d
                                   \/ /\ z \div s = m * (2 * n) + (n + d)
                                      /\ Number(l, z) = n + d
  <2>1. CASE z \in 0 .. h - 1
    <3> z \in Nat
      BY <2>1
    <3>1. PICK q \in Nat, r \in 0 .. s - 1 : q = z \div s /\ z = q * s + r
      BY Divide
    <3>2. q < n
      <4>1. CASE n <= q
        <5>1. n * s <= q * s
          BY <4>1, Monotone
        <5> QED
          BY <1>3, <2>1, <3>1, <5>1
      <4> QED
        BY <4>1
    <3>3. q % (2 * n) = q
      <4>1. q = 0 * (2 * n) + q /\ 2 * n \in Nat \ {0} /\ q \in 0 .. 2 * n - 1
        BY <3>2
      <4> QED
        BY <4>1, Quotient
    <3> QED
      BY <1>2, <1>3, <3>1, <3>2, <3>3 DEF Number
  <2>2. CASE z \in U64 - h .. U64 - 1
    <3>1. z \in Nat
      BY CanonicalFacts
    <3>2. PICK q \in Nat, r \in 0 .. s - 1 : q = z \div s /\ z = q * s + r
      BY <3>1, Divide
    <3>3. PICK k \in Nat : k = m * (2 * n)
      OBVIOUS
    <3>4. k + n <= q
      <4>1. CASE q < k + n
        <5>1. (q + 1) * s <= (k + n) * s
          BY <4>1, Monotone
        <5>2. (q + 1) * s = q * s + s /\ (k + n) * s = k * s + n * s
              /\ (2 * n) * s = n * s + n * s
          OBVIOUS
        <5> QED
          BY <1>3, <1>5, <2>2, <3>2, <3>3, <5>1, <5>2
      <4> QED
        BY <4>1
    <3>5. q < k + 2 * n
      <4>1. CASE k + 2 * n <= q
        <5>1. (k + 2 * n) * s <= q * s
          BY <4>1, Monotone
        <5>2. (k + 2 * n) * s = k * s + (2 * n) * s
          OBVIOUS
        <5> QED
          BY <1>5, <2>2, <3>2, <3>3, <5>1, <5>2, CountFacts
      <4> QED
        BY <4>1
    <3>6. PICK d \in 0 .. n - 1 : q = k + (n + d)
      <4>1. q - k - n \in 0 .. n - 1 /\ q = k + (n + (q - k - n))
        BY <3>4, <3>5
      <4> QED
        BY <4>1
    <3>7. q % (2 * n) = n + d
      <4>1. PICK e \in Nat \ {0} : e = 2 * n
        OBVIOUS
      <4>2. PICK g \in 0 .. e - 1 : g = n + d
        BY <4>1
      <4>3. q = m * e + g
        BY <3>3, <3>6, <4>1, <4>2
      <4>4. q % e = g
        BY <4>3, Quotient
      <4> QED
        BY <4>1, <4>2, <4>4
    <3> QED
      BY <1>2, <1>3, <3>2, <3>3, <3>6, <3>7 DEF Number
  <2> QED
    BY <1>1, <2>1, <2>2 DEF Canonical
<1>7. PICK k \in Nat : k = m * (2 * n)
  OBVIOUS
<1>8. Number(l, x) = Number(l, y) <=> x \div s = y \div s
  BY <1>6, <1>7
<1>9. x \in Nat /\ y \in Nat
  BY CanonicalFacts
<1>10. Key(l, x) = <<l, Number(l, x)>>
  BY <1>9, KeyNumber, Zenon
<1>11. Key(l, y) = <<l, Number(l, y)>>
  BY <1>9, KeyNumber, Zenon
<1> QED
  BY <1>2, <1>8, <1>10, <1>11

\* The first address of the span of level l that x is in.
Start(l, x) == x - (x % Span[l])

LEMMA StartFacts ==
  ASSUME NEW x \in Nat, NEW l \in Levels
  PROVE  /\ x % Span[l] \in Nat /\ Start(l, x) \in Nat /\ Start(l, x) <= x
         /\ x < Start(l, x) + Span[l]
<1>1. PICK s \in Nat \ {0} : s = Span[l]
  BY SpanFacts
<1>2. PICK q \in Nat, r \in 0 .. s - 1 : q = x \div s /\ r = x % s /\ x = q * s + r
  BY Divide
<1>3. PICK p \in Nat : p = q * s
  OBVIOUS
<1>4. Start(l, x) = p
  <2>1. Start(l, x) = x - r
    BY <1>1, <1>2, Zenon DEF Start
  <2> QED
    BY <1>2, <1>3, <2>1
<1>5. x % Span[l] = r
  BY <1>1, <1>2, Zenon
<1>6. p <= x /\ x < p + s /\ r \in Nat
  BY <1>2, <1>3
<1> QED
  BY <1>1, <1>4, <1>5, <1>6

\* Canonical addresses have the key of x just when they are in its span.
LEMMA SpanOfKey ==
  ASSUME NEW x \in Canonical, NEW y \in Canonical, NEW l \in Levels
  PROVE  /\ Key(l, y) = Key(l, x) <=> Start(l, x) <= y /\ y < Start(l, x) + Span[l]
         /\ Key(l, y) = Key(l, x) => y % Span[l] = y - Start(l, x)
<1> x \in Nat /\ y \in Nat
  BY CanonicalFacts
<1>1. PICK s \in Nat \ {0} : s = Span[l]
  BY SpanFacts
<1>2. PICK q \in Nat, r \in 0 .. s - 1 : q = x \div s /\ r = x % s /\ x = q * s + r
  BY Divide
<1>3. PICK p \in Nat, t \in 0 .. s - 1 : p = y \div s /\ t = y % s /\ y = p * s + t
  BY Divide
<1>4. PICK b \in Nat : b = q * s
  OBVIOUS
<1>5. Start(l, x) = b
  <2>1. Start(l, x) = x - r
    BY <1>1, <1>2, Zenon DEF Start
  <2> QED
    BY <1>2, <1>4, <2>1
<1>6. Key(l, y) = Key(l, x) <=> p = q
  BY <1>1, <1>2, <1>3, SameKey
<1>7. ASSUME p = q
      PROVE  b <= y /\ y < b + s /\ t = y - b
  BY <1>3, <1>4, <1>7
<1>8. ASSUME b <= y, y < b + s
      PROVE  p = q
  <2>1. PICK v \in 0 .. s - 1 : y = b + v
    <3>1. y - b \in 0 .. s - 1 /\ y = b + (y - b)
      BY <1>8
    <3> QED
      BY <3>1
  <2>2. p * s + t = q * s + v
    BY <1>3, <1>4, <2>1
  <2> QED
    BY <2>2, Unique
<1> QED
  BY <1>1, <1>3, <1>5, <1>6, <1>7, <1>8

-----------------------------------------------------------------------------
(* The inductive invariant. *)

Entries   == [kind : {"empty", "table", "leaf"}, pa : Nat, perm : SUBSET All]
Areas     == [phys : Nat, virt : Nat, size : Nat, perm : SUBSET All]

TypeInv ==
  /\ entry \in [Keys -> Entries]
  /\ \A k \in Keys : entry[k].kind = "empty" => entry[k] = Empty
  /\ areas \subseteq Areas /\ req \in Areas
  /\ pc \in {"idle", "first", "second"}
  /\ done \in Nat /\ level \in Levels
  /\ pc = "idle" => done = 0 /\ level = Top

\* Pages hang below tables only; the lowest table holds no table and pgd no
\* page.
Tree(en) ==
  \A va \in Addresses, l \in Levels :
    /\ en[Key(l, va)].kind = "table" => l > 0
    /\ en[Key(l, va)].kind = "leaf" => l < Top
    /\ en[Key(l, va)] # Empty /\ l < Top => en[Key(l + 1, va)].kind = "table"

TreeInv == Tree(entry)

\* Above level l there are tables for va, and they allow what is asked for.
Path(en, va, l, perm) ==
  \A k \in l + 1 .. Top : en[Key(k, va)].kind = "table" /\ perm \subseteq en[Key(k, va)].perm

\* A pass is inside its range, and has come down over tables.
WalkInv ==
  pc # "idle" =>
    /\ req.virt \in Addresses /\ Valid(req) /\ done < req.size
    /\ Path(entry, req.virt + done, level, req.perm)

\* Page o of the area a lies in an empty slot of level l that ends before page
\* hi and that a page of that level fits.
PreparedAt(en, a, o, hi, l) ==
  /\ a.virt <= Start(l, a.virt + o)
  /\ Start(l, a.virt + o) - a.virt + Span[l] <= hi
  /\ (a.phys + (Start(l, a.virt + o) - a.virt)) % Span[l] = 0
  /\ en[Key(l, a.virt + o)] = Empty
  /\ Path(en, a.virt + o, l, a.perm)

Prepared(en, a, o, hi) == \E l \in 0 .. Top - 1 : PreparedAt(en, a, o, hi, l)

\* The first pass leaves such slots behind it; the second has them ahead.
PreparedInv ==
  /\ pc = "first" => \A o \in 0 .. done - 1 : Prepared(entry, req, o, done)
  /\ pc = "second" => \A o \in done .. req.size - 1 : Prepared(entry, req, o, req.size)

IInv == TypeInv /\ TreeInv /\ WalkInv /\ PreparedInv /\ TranslatesTheAreas

-----------------------------------------------------------------------------
(* What a tree of tables translates, and what a new entry changes. *)

Leaves(en, va) ==
  {l \in Levels : /\ en[Key(l, va)].kind = "leaf"
                  /\ \A k \in l + 1 .. Top : en[Key(k, va)].kind = "table"}

Meaning(en, va) ==
  IF Leaves(en, va) = {} THEN Unmapped
  ELSE LET l == CHOOSE l \in Leaves(en, va) : TRUE
           e == en[Key(l, va)]
       IN  [pa   |-> (e.pa - (e.pa % Span[l])) + (va % Span[l]),
            perm |-> {p \in e.perm : \A k \in l + 1 .. Top : p \in en[Key(k, va)].perm}]

LEMMA TranslateIsMeaning ==
  ASSUME NEW va
  PROVE  Translate(va) = Meaning(entry, va) /\ Translate(va)' = Meaning(entry', va)
BY DEF Translate, LeavesFor, Meaning, Leaves

LEMMA KeyInKeys ==
  ASSUME NEW x \in Addresses, NEW l \in Levels
  PROVE  x \in Nat /\ Key(l, x) \in Keys
<1>1. x \in Nat
  BY CountFacts DEF Addresses
<1> QED
  BY <1>1, KeyNumber

\* Above an entry there are tables all the way.
LEMMA TablesAbove ==
  ASSUME NEW en, Tree(en), NEW x \in Addresses, NEW l \in Levels, en[Key(l, x)] # Empty,
         NEW k \in l + 1 .. Top
  PROVE  en[Key(k, x)].kind = "table"
<1>1. \A i \in Levels : en[Key(i, x)].kind = "table" => en[Key(i, x)] # Empty
  BY DEF Empty
<1>2. \A i \in Levels : en[Key(i, x)] # Empty /\ i < Top => en[Key(i + 1, x)].kind = "table"
  BY DEF Tree
<1> QED
  BY <1>1, <1>2 DEF Levels, Top

\* An empty slot of the tree of tables en, below tables.
Slot(en, a, l) ==
  /\ en \in [Keys -> Entries] /\ Tree(en)
  /\ a \in Addresses /\ l \in Levels
  /\ en[Key(l, a)] = Empty
  /\ \A k \in l + 1 .. Top : en[Key(k, a)].kind = "table"

Put(en, a, l, e) == [en EXCEPT ![Key(l, a)] = e]

LEMMA PutAt ==
  ASSUME NEW en, NEW a, NEW l, Slot(en, a, l), NEW e \in Entries,
         NEW x \in Addresses, NEW i \in Levels
  PROVE  /\ Key(i, x) = Key(l, a) => i = l /\ Put(en, a, l, e)[Key(i, x)] = e
         /\ Key(i, x) # Key(l, a) => Put(en, a, l, e)[Key(i, x)] = en[Key(i, x)]
<1>1. a \in Addresses /\ l \in Levels /\ en \in [Keys -> Entries]
  BY DEF Slot
<1>2. x \in Nat /\ a \in Nat /\ Key(i, x) \in Keys /\ Key(l, a) \in Keys
  BY <1>1, KeyInKeys
<1>3. Key(i, x) = Key(l, a) => i = l
  BY <1>1, <1>2, KeyLevel
<1> QED
  BY <1>1, <1>2, <1>3 DEF Put

LEMMA PutTree ==
  ASSUME NEW en, NEW a, NEW l, Slot(en, a, l), NEW e \in Entries,
         e.kind = "table" => l > 0, e.kind = "leaf" => l < Top
  PROVE  Put(en, a, l, e) \in [Keys -> Entries] /\ Tree(Put(en, a, l, e))
<1>1. /\ en \in [Keys -> Entries] /\ Tree(en) /\ a \in Addresses /\ l \in Levels
      /\ en[Key(l, a)] = Empty
      /\ \A k \in l + 1 .. Top : en[Key(k, a)].kind = "table"
  BY DEF Slot
<1>2. PICK em : em = Put(en, a, l, e)
  OBVIOUS
<1>3. em \in [Keys -> Entries]
  BY <1>1, <1>2 DEF Put
<1>4. ASSUME NEW x \in Addresses, NEW i \in Levels
      PROVE  /\ em[Key(i, x)].kind = "table" => i > 0
             /\ em[Key(i, x)].kind = "leaf" => i < Top
             /\ em[Key(i, x)] # Empty /\ i < Top => em[Key(i + 1, x)].kind = "table"
  <2>1. /\ en[Key(i, x)].kind = "table" => i > 0
        /\ en[Key(i, x)].kind = "leaf" => i < Top
        /\ en[Key(i, x)] # Empty /\ i < Top => en[Key(i + 1, x)].kind = "table"
    BY <1>1 DEF Tree
  <2>2. \A j \in Levels : /\ Key(j, x) = Key(l, a) => j = l /\ em[Key(j, x)] = e
                          /\ Key(j, x) # Key(l, a) => em[Key(j, x)] = en[Key(j, x)]
    BY <1>2, PutAt
  <2>3. ASSUME em[Key(i, x)] # Empty, i < Top
        PROVE  em[Key(i + 1, x)].kind = "table"
    <3>1. i + 1 \in Levels /\ i + 1 \in i .. Top /\ i \in Nat
      BY <2>3 DEF Levels, Top
    <3>2. CASE Key(i, x) = Key(l, a)
      <4>1. i = l
        BY <2>2, <3>2
      <4>2. x \in Nat /\ a \in Nat
        BY <1>1, KeyInKeys
      <4>3. Key(i + 1, x) = Key(i + 1, a)
        BY <3>1, <3>2, <4>1, <4>2, KeyNest
      <4>4. en[Key(i + 1, a)].kind = "table"
        BY <1>1, <3>1, <4>1
      <4>5. Key(i + 1, x) # Key(l, a)
        BY <2>2, <3>1, <4>1
      <4> QED
        BY <2>2, <3>1, <4>3, <4>4, <4>5
    <3>3. CASE Key(i, x) # Key(l, a)
      <4>1. en[Key(i + 1, x)].kind = "table"
        BY <2>1, <2>2, <2>3, <3>3
      <4>2. Key(i + 1, x) # Key(l, a)
        BY <1>1, <4>1 DEF Empty
      <4> QED
        BY <2>2, <3>1, <4>1, <4>2
    <3> QED
      BY <3>2, <3>3
  <2>4. (em[Key(i, x)].kind = "table" => i > 0) /\ (em[Key(i, x)].kind = "leaf" => i < Top)
    BY <2>1, <2>2
  <2> QED
    BY <2>3, <2>4
<1>5. Tree(em)
  BY <1>4 DEF Tree
<1> QED
  BY <1>2, <1>3, <1>5

\* The translation of an address is in the entries with its keys.
LEMMA SameMeaning ==
  ASSUME NEW en, NEW em, NEW x, \A i \in Levels : em[Key(i, x)] = en[Key(i, x)]
  PROVE  Meaning(em, x) = Meaning(en, x)
<1>1. \A l \in Levels : l + 1 .. Top \subseteq Levels
  BY DEF Levels, Top
<1>2. Leaves(em, x) = Leaves(en, x)
  BY <1>1 DEF Leaves
<1>3. Leaves(en, x) \subseteq Levels
  BY DEF Leaves
<1>4. CASE Leaves(en, x) = {}
  BY <1>2, <1>4 DEF Meaning
<1>5. CASE Leaves(en, x) # {}
  <2>1. PICK l \in Levels : l = (CHOOSE j \in Leaves(en, x) : TRUE)
    BY <1>3, <1>5
  <2>2. em[Key(l, x)] = en[Key(l, x)]
    OBVIOUS
  <2>3. \A k \in l + 1 .. Top : em[Key(k, x)] = en[Key(k, x)]
    BY <1>1
  <2>4. Meaning(en, x) =
          [pa   |-> (en[Key(l, x)].pa - (en[Key(l, x)].pa % Span[l])) + (x % Span[l]),
           perm |-> {p \in en[Key(l, x)].perm : \A k \in l + 1 .. Top : p \in en[Key(k, x)].perm}]
    BY <1>5, <2>1, Zenon DEF Meaning
  <2>5. Meaning(em, x) =
          [pa   |-> (em[Key(l, x)].pa - (em[Key(l, x)].pa % Span[l])) + (x % Span[l]),
           perm |-> {p \in em[Key(l, x)].perm : \A k \in l + 1 .. Top : p \in em[Key(k, x)].perm}]
    BY <1>2, <1>5, <2>1, Zenon DEF Meaning
  <2>6. {p \in en[Key(l, x)].perm : \A k \in l + 1 .. Top : p \in en[Key(k, x)].perm} =
        {p \in em[Key(l, x)].perm : \A k \in l + 1 .. Top : p \in em[Key(k, x)].perm}
    BY <2>2, <2>3
  <2> QED
    BY <2>2, <2>4, <2>5, <2>6, Zenon
<1> QED
  BY <1>4, <1>5

LEMMA OneLeaf ==
  ASSUME NEW en, NEW x, NEW l \in Levels, Leaves(en, x) = {l}
  PROVE  Meaning(en, x) =
           [pa   |-> (en[Key(l, x)].pa - (en[Key(l, x)].pa % Span[l])) + (x % Span[l]),
            perm |-> {p \in en[Key(l, x)].perm : \A k \in l + 1 .. Top : p \in en[Key(k, x)].perm}]
<1>1. (CHOOSE j \in Leaves(en, x) : TRUE) = l
  OBVIOUS
<1> QED
  BY <1>1 DEF Meaning

\* What a new entry means for the addresses below it, and for the others.
LEMMA PutElsewhere ==
  ASSUME NEW en, NEW a, NEW l, Slot(en, a, l), NEW e \in Entries,
         NEW x \in Addresses, Key(l, x) # Key(l, a)
  PROVE  Meaning(Put(en, a, l, e), x) = Meaning(en, x)
<1>1. \A i \in Levels : Put(en, a, l, e)[Key(i, x)] = en[Key(i, x)]
  BY PutAt
<1> QED
  BY <1>1, SameMeaning

LEMMA SlotAbove ==
  ASSUME NEW en, NEW a, NEW l, Slot(en, a, l), NEW x \in Addresses, Key(l, x) = Key(l, a),
         NEW k \in l + 1 .. Top
  PROVE  Key(k, x) = Key(k, a) /\ en[Key(k, x)].kind = "table"
<1>1. x \in Nat /\ a \in Nat /\ l \in Levels
  BY KeyInKeys DEF Slot
<1>2. k \in l .. Top
  BY <1>1 DEF Levels, Top
<1> QED
  BY <1>1, <1>2, KeyNest DEF Slot

LEMMA SlotUnmapped ==
  ASSUME NEW en, NEW a, NEW l, Slot(en, a, l), NEW x \in Addresses, Key(l, x) = Key(l, a)
  PROVE  Meaning(en, x) = Unmapped
<1>1. l \in Levels /\ en[Key(l, x)].kind = "empty"
  BY DEF Slot, Empty
<1>2. ASSUME NEW i \in Leaves(en, x) PROVE FALSE
  <2>1. i \in Levels /\ en[Key(i, x)].kind = "leaf"
        /\ \A k \in i + 1 .. Top : en[Key(k, x)].kind = "table"
    BY DEF Leaves
  <2>2. i \in 0 .. l - 1 \/ i = l \/ i \in l + 1 .. Top
    BY <1>1, <2>1 DEF Levels, Top
  <2>3. ~ i \in 0 .. l - 1
    BY <1>1, <2>1 DEF Levels, Top
  <2>4. ~ i \in l + 1 .. Top
    BY <2>1, SlotAbove
  <2> QED
    BY <1>1, <2>1, <2>2, <2>3, <2>4
<1> QED
  BY <1>2 DEF Meaning

LEMMA PutBelow ==
  ASSUME NEW en, NEW a, NEW l, Slot(en, a, l), NEW e \in Entries,
         NEW x \in Addresses, Key(l, x) = Key(l, a)
  PROVE  Leaves(Put(en, a, l, e), x) = IF e.kind = "leaf" THEN {l} ELSE {}
<1>1. PICK em : em = Put(en, a, l, e)
  OBVIOUS
<1>2. l \in Levels /\ Tree(en) /\ en[Key(l, x)] = Empty
  BY DEF Slot
<1>3. em[Key(l, x)] = e
  BY <1>1, <1>2, PutAt
<1>4. \A i \in Levels : i # l => em[Key(i, x)] = en[Key(i, x)]
  BY <1>1, PutAt
<1>5. \A k \in l + 1 .. Top : em[Key(k, x)].kind = "table"
  <2> SUFFICES ASSUME NEW k \in l + 1 .. Top PROVE em[Key(k, x)].kind = "table"
    OBVIOUS
  <2>1. k \in Levels /\ k # l
    BY <1>2 DEF Levels, Top
  <2> QED
    BY <1>4, <2>1, SlotAbove
<1>6. \A i \in 0 .. l - 1 : em[Key(i, x)].kind # "leaf"
  <2> SUFFICES ASSUME NEW i \in 0 .. l - 1, em[Key(i, x)].kind = "leaf" PROVE FALSE
    OBVIOUS
  <2>1. i \in Levels /\ i # l /\ l \in i + 1 .. Top
    BY <1>2 DEF Levels, Top
  <2>2. en[Key(i, x)] # Empty
    BY <1>4, <2>1 DEF Empty
  <2>3. en[Key(l, x)].kind = "table"
    BY <1>2, <2>1, <2>2, TablesAbove
  <2> QED
    BY <1>2, <2>3 DEF Empty
<1>7. \A i \in Levels : i \in 0 .. l - 1 \/ i = l \/ i \in l + 1 .. Top
  BY <1>2 DEF Levels, Top
<1>8. Leaves(em, x) \subseteq {l}
  BY <1>5, <1>6, <1>7 DEF Leaves
<1>9. l \in Leaves(em, x) <=> e.kind = "leaf"
  BY <1>2, <1>3, <1>5 DEF Leaves
<1> QED
  BY <1>1, <1>8, <1>9

LEMMA PutTable ==
  ASSUME NEW en, NEW a, NEW l, Slot(en, a, l), NEW e \in Entries, e.kind = "table",
         NEW x \in Addresses
  PROVE  Meaning(Put(en, a, l, e), x) = Meaning(en, x)
<1>1. CASE Key(l, x) = Key(l, a)
  <2>1. Leaves(Put(en, a, l, e), x) = {}
    BY <1>1, PutBelow
  <2> QED
    BY <1>1, <2>1, SlotUnmapped DEF Meaning
<1>2. CASE Key(l, x) # Key(l, a)
  BY <1>2, PutElsewhere
<1> QED
  BY <1>1, <1>2

LEMMA PutLeaf ==
  ASSUME NEW en, NEW a, NEW l, Slot(en, a, l), NEW p \in Nat, NEW ps \in SUBSET All,
         p % Span[l] = 0, \A k \in l + 1 .. Top : ps \subseteq en[Key(k, a)].perm,
         NEW x \in Addresses, Key(l, x) = Key(l, a)
  PROVE  Meaning(Put(en, a, l, Leaf(p, ps)), x) = [pa |-> p + (x % Span[l]), perm |-> ps]
<1>1. PICK e : e = Leaf(p, ps)
  OBVIOUS
<1>2. e \in Entries /\ e.kind = "leaf" /\ e.pa = p /\ e.perm = ps
  BY <1>1 DEF Leaf, Entries
<1>3. PICK em : em = Put(en, a, l, e)
  OBVIOUS
<1>4. l \in Levels
  BY DEF Slot
<1>5. Leaves(em, x) = {l}
  BY <1>2, <1>3, PutBelow
<1>6. em[Key(l, x)] = e
  BY <1>2, <1>3, <1>4, PutAt
<1>7. \A k \in l + 1 .. Top : ps \subseteq em[Key(k, x)].perm
  <2> SUFFICES ASSUME NEW k \in l + 1 .. Top PROVE ps \subseteq em[Key(k, x)].perm
    OBVIOUS
  <2>1. k \in Levels /\ k # l
    BY <1>4 DEF Levels, Top
  <2>2. em[Key(k, x)] = en[Key(k, x)]
    BY <1>2, <1>3, <2>1, PutAt
  <2>3. Key(k, x) = Key(k, a)
    BY SlotAbove
  <2> QED
    BY <2>2, <2>3
<1>8. (p - (p % Span[l])) + (x % Span[l]) = p + (x % Span[l])
  <2>1. x % Span[l] \in Nat
    BY <1>4, KeyInKeys, StartFacts
  <2> QED
    BY <2>1
<1>9. {q \in ps : \A k \in l + 1 .. Top : q \in em[Key(k, x)].perm} = ps
  BY <1>7
<1>10. Meaning(em, x) =
         [pa   |-> (p - (p % Span[l])) + (x % Span[l]),
          perm |-> {q \in ps : \A k \in l + 1 .. Top : q \in em[Key(k, x)].perm}]
  BY <1>2, <1>4, <1>5, <1>6, OneLeaf
<1> QED
  BY <1>1, <1>3, <1>8, <1>9, <1>10

-----------------------------------------------------------------------------
(* Requests, slots and claims. *)

LEMMA RequestFacts ==
  ASSUME NEW a \in Areas, a.virt \in Addresses, Valid(a), NEW o \in 0 .. a.size - 1
  PROVE  a.virt + o \in Canonical /\ a.virt + o \in Addresses /\ a.virt + o \in Nat
<1>1. PICK h \in Nat, w \in Nat \ {0} :
        /\ Space = 2 * h /\ h > 0 /\ Space \div 2 = h /\ U64 = w * Space /\ U64 \div Space = w
  BY HalfFacts
<1>2. PICK s \in Nat \ {0} : s = Space
  BY CountFacts
<1>3. PICK v \in Nat, z \in Nat : v = a.virt /\ z = a.size
  BY DEF Areas
<1>4. PICK last \in Nat : last = v + z - 1 /\ v + o <= last /\ last <= U64 - 1
  <2>1. v + z - 1 \in Nat /\ v + o <= v + z - 1
    BY <1>3
  <2>2. z - 1 <= U64 - 1 - v
    BY <1>3 DEF Valid
  <2> QED
    BY <1>3, <2>1, <2>2, CountFacts
<1>5. PICK q \in Nat, r \in 0 .. s - 1 : q = (2 * v) \div s /\ 2 * v = q * s + r
  <2>1. PICK y \in Nat : y = 2 * v
    OBVIOUS
  <2>2. y \div s \in Nat /\ y % s \in 0 .. s - 1 /\ y = (y \div s) * s + (y % s)
    BY Divide
  <2> QED
    BY <2>1, <2>2, Zenon
<1>6. PICK p \in Nat, t \in 0 .. s - 1 : p = (2 * last) \div s /\ 2 * last = p * s + t
  <2>1. PICK y \in Nat : y = 2 * last
    OBVIOUS
  <2>2. y \div s \in Nat /\ y % s \in 0 .. s - 1 /\ y = (y \div s) * s + (y % s)
    BY Divide
  <2> QED
    BY <2>1, <2>2, Zenon
<1>7. (q = 0 \/ q = 2 * w - 1) /\ p = q
  <2>1. Half(a.virt) = q
    BY <1>2, <1>3, <1>5, Zenon DEF Half
  <2>2. Half(a.virt + a.size - 1) = p
    <3>1. a.virt + a.size - 1 = last
      BY <1>3, <1>4
    <3> QED
      BY <1>2, <1>6, <3>1, Zenon DEF Half
  <2> QED
    BY <1>1, <2>1, <2>2 DEF Valid
<1>8. CASE q = 0
  <2>1. 2 * last < 2 * h
    <3>1. 0 * s = 0
      OBVIOUS
    <3> QED
      BY <1>1, <1>2, <1>6, <1>7, <1>8, <3>1
  <2> QED
    BY <1>1, <1>3, <1>4, <2>1, CountFacts DEF Canonical, Addresses
<1>9. CASE q = 2 * w - 1
  <2>1. 2 * v >= 2 * U64 - s
    <3>1. (2 * w - 1) * s = 2 * (w * s) - s
      OBVIOUS
    <3>2. q * s = 2 * U64 - s
      BY <1>1, <1>2, <1>9, <3>1, Zenon
    <3> QED
      BY <1>5, <3>2, CountFacts
  <2> QED
    BY <1>1, <1>2, <1>3, <1>4, <2>1, CountFacts DEF Canonical, Addresses
<1> QED
  BY <1>7, <1>8, <1>9

\* Who claims x, and what they claim.
Claimants(x) ==
  {a \in areas : Covers(a, x)}
    \cup (IF pc = "second" /\ Covers([req EXCEPT !.size = done], x) THEN {req} ELSE {})

ClaimOf(a, x) == [pa |-> a.phys + x - a.virt, perm |-> a.perm]

BootClaims(x) ==
  IF BootTable(Key(Top, x)) THEN {[pa |-> (x % Span[Top]), perm |-> {"rw"}]} ELSE {}

LEMMA ClaimsSplit ==
  ASSUME NEW x
  PROVE  /\ Claims(x) = {ClaimOf(a, x) : a \in Claimants(x)} \cup BootClaims(x)
         /\ Claims(x)' = {ClaimOf(a, x) : a \in Claimants(x)'} \cup BootClaims(x)
BY Zenon DEF Claims, Claimants, ClaimOf, BootClaims

\* What is claimed is mapped.
LEMMA ClaimIsMapped ==
  ASSUME TypeInv, NEW x \in Canonical
  PROVE  Unmapped \notin Claims(x)
<1> x \in Nat
  BY CanonicalFacts
<1>1. \A a \in Claimants(x) : a \in Areas /\ a.virt <= x
  <2>1. req \in Areas /\ areas \subseteq Areas
    BY DEF TypeInv
  <2>2. [req EXCEPT !.size = done].virt = req.virt
    BY <2>1 DEF Areas
  <2> QED
    BY <2>1, <2>2 DEF Claimants, Covers
<1>2. \A a \in Claimants(x) : ClaimOf(a, x) # Unmapped
  <2> SUFFICES ASSUME NEW a \in Claimants(x) PROVE ClaimOf(a, x).pa \in Nat
    BY DEF Unmapped
  <2>1. a.phys \in Nat /\ a.virt \in Nat /\ a.virt <= x
    BY <1>1 DEF Areas
  <2> QED
    BY <2>1 DEF ClaimOf
<1>3. Unmapped \notin BootClaims(x)
  <2>1. x % Span[Top] \in Nat
    BY StartFacts DEF Levels, Top
  <2> QED
    BY <2>1 DEF BootClaims, Unmapped
<1> QED
  BY <1>2, <1>3, ClaimsSplit

LEMMA UnmappedUnclaimed ==
  ASSUME TypeInv, TranslatesTheAreas, NEW x \in Canonical, Translate(x) = Unmapped
  PROVE  Claims(x) = {}
BY ClaimIsMapped DEF TranslatesTheAreas

LEMMA SameClaims ==
  ASSUME TranslatesTheAreas,
         \A x \in Canonical : Claimants(x)' = Claimants(x) /\ Meaning(entry', x) = Meaning(entry, x)
  PROVE  TranslatesTheAreas'
<1> SUFFICES ASSUME NEW x \in Canonical
             PROVE  IF Claims(x)' = {} THEN Translate(x)' = Unmapped
                    ELSE Claims(x)' = {Translate(x)'}
  BY DEF TranslatesTheAreas
<1>1. Claims(x)' = Claims(x)
  BY ClaimsSplit
<1>2. Translate(x)' = Translate(x)
  BY TranslateIsMeaning
<1> QED
  BY <1>1, <1>2 DEF TranslatesTheAreas

-----------------------------------------------------------------------------
(* A step of a pass. *)

LEMMA HereFacts ==
  ASSUME IInv, pc # "idle"
  PROVE  /\ req \in Areas /\ req.virt \in Addresses /\ req.virt \in Nat /\ req.phys \in Nat
         /\ req.size \in Nat /\ req.perm \in SUBSET All /\ Valid(req)
         /\ done \in Nat /\ done < req.size /\ level \in Levels
         /\ req.virt + done \in Canonical /\ req.virt + done \in Addresses
         /\ req.virt + done \in Nat
         /\ Here = Key(level, req.virt + done) /\ Here \in Keys
         /\ entry \in [Keys -> Entries] /\ entry[Here] \in Entries
         /\ entry[Here].kind = "empty" => entry[Here] = Empty
         /\ Path(entry, req.virt + done, level, req.perm)
<1>1. /\ req \in Areas /\ done \in Nat /\ level \in Levels /\ entry \in [Keys -> Entries]
      /\ \A k \in Keys : entry[k].kind = "empty" => entry[k] = Empty
  BY DEF IInv, TypeInv
<1>2. /\ req.virt \in Addresses /\ Valid(req) /\ done < req.size
      /\ Path(entry, req.virt + done, level, req.perm)
  BY DEF IInv, WalkInv
<1>3. req.virt \in Nat /\ req.phys \in Nat /\ req.size \in Nat /\ req.perm \in SUBSET All
  BY <1>1 DEF Areas
<1>4. done \in 0 .. req.size - 1
  BY <1>1, <1>2, <1>3
<1>5. /\ req.virt + done \in Canonical /\ req.virt + done \in Addresses
      /\ req.virt + done \in Nat
  BY <1>1, <1>2, <1>4, RequestFacts
<1>6. Here = Key(level, req.virt + done) /\ Here \in Keys
  BY <1>1, <1>5, KeyNumber DEF Here
<1> QED
  BY <1>1, <1>2, <1>3, <1>5, <1>6

LEMMA HereSlot ==
  ASSUME IInv, pc # "idle", entry[Here] = Empty
  PROVE  Slot(entry, req.virt + done, level)
BY HereFacts DEF Slot, Path, IInv, TreeInv

\* A leaf is aligned, and as long as the rest of the range at most.
LEMMA LeafFacts ==
  ASSUME IInv, pc # "idle", IsLeaf
  PROVE  /\ level < Top /\ (req.virt + done) % Span[level] = 0
         /\ (req.phys + done) % Span[level] = 0
         /\ req.size - done >= Span[level]
         /\ Start(level, req.virt + done) = req.virt + done
<1>1. /\ req.virt \in Nat /\ req.phys \in Nat /\ req.size \in Nat /\ done \in Nat /\ done < req.size
      /\ level \in Levels
  BY HereFacts
<1>2. /\ level < Top /\ (req.virt + done) % Span[level] = 0
      /\ (req.phys + done) % Span[level] = 0 /\ req.size - done >= Span[level]
  <2>1. CASE level = 0
    <3>1. \A n \in Nat : n % 1 = 0
      OBVIOUS
    <3>2. req.virt + done \in Nat /\ req.phys + done \in Nat /\ req.size - done >= 1
      BY <1>1
    <3> QED
      BY <2>1, <3>1, <3>2, SpanFacts DEF Top
  <2>2. CASE level # 0
    BY <1>1, <2>2 DEF IsLeaf, Top
  <2> QED
    BY <2>1, <2>2
<1>3. PICK x \in Nat : x = req.virt + done
  BY <1>1
<1>4. Start(level, x) = x
  <2>1. Start(level, x) = x - 0
    BY <1>2, <1>3, Zenon DEF Start
  <2> QED
    BY <2>1
<1> QED
  BY <1>2, <1>3, <1>4

\* The requests that vm_map is called with.
LEMMA RequestIsArea ==
  ASSUME NEW a \in Requests
  PROVE  a \in Areas /\ a.virt \in Addresses
<1>1. Virts \subseteq Addresses /\ Physes \subseteq Nat
  BY VmMapAssumption DEF Addresses
<1>2. Virts \subseteq Nat /\ Sizes \subseteq Nat
  BY VmMapAssumption
<1>3. {{"rw"}, All} \subseteq SUBSET All
  BY DEF All
<1> QED
  BY <1>1, <1>2, <1>3, Zenon DEF Requests, Areas

LEMMA VmapStep ==
  ASSUME IInv, NEW a \in Requests, Vmap(a)
  PROVE  IInv'
<1>1. a \in Areas /\ a.virt \in Addresses
  BY RequestIsArea
<1>2. /\ pc = "idle" /\ entry' = entry /\ done' = done /\ level' = level
      /\ pc' \in {"idle", "first"} /\ areas' \in {areas, areas \cup {a}}
      /\ req' \in {req, a} /\ (pc' = "idle" => req' = req)
      /\ (pc' = "first" => req' = a /\ a.size # 0 /\ Valid(a) /\ areas' = areas)
      /\ (areas' # areas => a.size = 0)
  BY Zenon DEF Vmap
<1>3. TypeInv /\ TreeInv /\ TranslatesTheAreas /\ done = 0 /\ level = Top
  BY <1>2 DEF IInv, TypeInv
<1>4. TypeInv'
  BY <1>1, <1>2, <1>3 DEF TypeInv
<1>5. TreeInv'
  BY <1>2, <1>3 DEF TreeInv
<1>6. WalkInv'
  <2> SUFFICES ASSUME pc' = "first" PROVE WalkInv'
    BY <1>2 DEF WalkInv
  <2>1. a.size \in Nat /\ 0 < a.size
    <3>1. a.size \in Nat /\ a.size # 0
      BY <1>1, <1>2 DEF Areas
    <3>2. \A n \in Nat : n # 0 => 0 < n
      OBVIOUS
    <3> QED
      BY <3>1, <3>2, Zenon
  <2>2. Path(entry', req'.virt + done', level', req'.perm)
    <3>1. Top + 1 .. Top = {}
      BY DEF Top
    <3>2. level' = Top
      BY <1>2, <1>3
    <3> QED
      BY <3>1, <3>2, Zenon DEF Path
  <2>3. Valid(req)'
    <3>1. Valid(a)' <=> Valid(a)
      BY DEF Valid, Half
    <3> QED
      BY <1>2 DEF Valid, Half
  <2> QED
    BY <1>1, <1>2, <1>3, <2>1, <2>2, <2>3 DEF WalkInv
<1>7. PreparedInv'
  <2>1. done' = 0 /\ pc' # "second"
    BY <1>2, <1>3
  <2>2. 0 .. 0 - 1 = {}
    OBVIOUS
  <2> QED
    BY <2>1, <2>2, Zenon DEF PreparedInv
<1>8. \A x \in Canonical : Claimants(x)' = Claimants(x)
  <2>1. \A x \in Canonical : a.size = 0 => ~ Covers(a, x)
    BY <1>1, CanonicalFacts DEF Covers, Areas
  <2> QED
    BY <1>2, <2>1 DEF Claimants, Covers
<1>9. TranslatesTheAreas'
  BY <1>2, <1>3, <1>8, SameClaims
<1> QED
  BY <1>4, <1>5, <1>6, <1>7, <1>9 DEF IInv

\* A call that fails leaves the tables it has added, and nothing else.
LEMMA ReturnStep ==
  ASSUME IInv, pc = "first", NEW e, Return(e), UNCHANGED <<entry, areas>>
  PROVE  IInv'
<1>1. TypeInv /\ TreeInv /\ TranslatesTheAreas
  BY DEF IInv
<1>2. /\ pc' = "idle" /\ req' = NoArea /\ done' = 0 /\ level' = Top
      /\ entry' = entry /\ areas' = areas
  BY DEF Return
<1>3. NoArea \in Areas
  BY DEF NoArea, Areas
<1>4. TypeInv'
  <2>1. Top \in Levels /\ 0 \in Nat
    BY DEF Levels, Top
  <2> QED
    BY <1>1, <1>2, <1>3, <2>1 DEF TypeInv
<1>5. TreeInv' /\ WalkInv' /\ PreparedInv'
  BY <1>1, <1>2 DEF TreeInv, WalkInv, PreparedInv
<1>6. \A x \in Canonical : Claimants(x)' = Claimants(x)
  BY <1>2 DEF Claimants, Covers
<1>7. TranslatesTheAreas'
  BY <1>1, <1>2, <1>6, SameClaims
<1> QED
  BY <1>1, <1>4, <1>5, <1>7 DEF IInv

\* Going down under a table that allows what is asked for.
LEMMA DescendStep ==
  ASSUME IInv, pc # "idle", level > 0, Descend, UNCHANGED <<pc, req, areas>>,
         entry' \in [Keys -> Entries],
         \A k \in Keys : entry'[k].kind = "empty" => entry'[k] = Empty,
         Tree(entry'),
         Path(entry', req.virt + done, level, req.perm),
         entry'[Here].kind = "table", req.perm \subseteq entry'[Here].perm,
         PreparedInv', \A x \in Canonical : Meaning(entry', x) = Meaning(entry, x)
  PROVE  IInv'
<1>1. /\ req \in Areas /\ req.virt \in Addresses /\ Valid(req) /\ done < req.size
      /\ level \in Levels /\ Here = Key(level, req.virt + done)
  BY HereFacts
<1>2. TypeInv /\ TranslatesTheAreas
  BY DEF IInv
<1>3. /\ level' = level - 1 /\ done' = done /\ pc' = pc /\ req' = req /\ areas' = areas
  BY DEF Descend
<1>4. level - 1 \in Levels /\ level - 1 + 1 .. Top = {level} \cup (level + 1 .. Top)
  BY <1>1 DEF Levels, Top
<1>5. TypeInv'
  BY <1>2, <1>3, <1>4 DEF TypeInv
<1>6. TreeInv'
  BY DEF TreeInv
<1>7. Path(entry', req.virt + done, level - 1, req.perm)
  BY <1>1, <1>4 DEF Path
<1>8. Valid(req)'
  BY <1>1, <1>3 DEF Valid, Half
<1>9. WalkInv'
  BY <1>1, <1>3, <1>7, <1>8 DEF WalkInv
<1>10. \A x \in Canonical : Claimants(x)' = Claimants(x)
  BY <1>3 DEF Claimants, Covers
<1>11. TranslatesTheAreas'
  BY <1>2, <1>10, SameClaims
<1> QED
  BY <1>5, <1>6, <1>9, <1>11 DEF IInv

LEMMA CheckTableStep ==
  ASSUME IInv, CheckTable
  PROVE  IInv'
<1>1. /\ pc = "first" /\ ~ IsLeaf /\ entry[Here] # Empty
      /\ entry' = entry /\ areas' = areas
  BY DEF CheckTable
<1>2. ASSUME NEW e, Return(e) PROVE IInv'
  BY <1>1, <1>2, ReturnStep
<1>3. CASE /\ entry[Here].kind # "leaf" /\ req.perm \subseteq entry[Here].perm
           /\ Descend /\ UNCHANGED <<pc, result, req>>
  <2>1. level > 0 /\ entry[Here].kind = "table"
    <3>1. level \in Levels /\ entry[Here] \in Entries
          /\ (entry[Here].kind = "empty" => entry[Here] = Empty)
      BY <1>1, HereFacts
    <3>2. level # 0
      BY <1>1 DEF IsLeaf
    <3>3. entry[Here].kind \in {"empty", "table", "leaf"}
      BY <3>1 DEF Entries
    <3> QED
      BY <1>1, <1>3, <3>1, <3>2, <3>3 DEF Levels, Top
  <2>2. PreparedInv'
    BY <1>1, <1>3 DEF IInv, PreparedInv, Descend
  <2>3. Path(entry, req.virt + done, level, req.perm) /\ entry \in [Keys -> Entries]
    BY <1>1, HereFacts
  <2> QED
    BY <1>1, <1>3, <2>1, <2>2, <2>3, DescendStep DEF IInv, TypeInv, TreeInv
<1> QED
  BY <1>1, <1>2, <1>3, Zenon DEF CheckTable

\* A new entry in another slot leaves a prepared slot as it is.
LEMMA PreparedElsewhere ==
  ASSUME NEW en, NEW x, NEW j, Slot(en, x, j), NEW e \in Entries,
         NEW a, NEW o, NEW hi, NEW l \in Levels, a.virt + o \in Addresses,
         PreparedAt(en, a, o, hi, l), Key(l, a.virt + o) # Key(j, x)
  PROVE  PreparedAt(Put(en, x, j, e), a, o, hi, l)
<1>1. PICK em : em = Put(en, x, j, e)
  OBVIOUS
<1>2. PICK y \in Addresses : y = a.virt + o
  OBVIOUS
<1>3. em[Key(l, y)] = en[Key(l, y)]
  BY <1>1, <1>2, PutAt
<1>4. Path(em, y, l, a.perm)
  <2> SUFFICES ASSUME NEW k \in l + 1 .. Top
               PROVE  em[Key(k, y)].kind = "table" /\ a.perm \subseteq em[Key(k, y)].perm
    BY DEF Path
  <2>1. en[Key(k, y)].kind = "table" /\ a.perm \subseteq en[Key(k, y)].perm
    BY <1>2 DEF PreparedAt, Path
  <2>2. Key(k, y) # Key(j, x)
    BY <2>1 DEF Slot, Empty
  <2>3. k \in Levels
    BY DEF Levels, Top
  <2>4. em[Key(k, y)] = en[Key(k, y)]
    BY <1>1, <2>2, <2>3, PutAt
  <2> QED
    BY <2>1, <2>4
<1> QED
  BY <1>1, <1>2, <1>3, <1>4, Zenon DEF PreparedAt

LEMMA AddTableStep ==
  ASSUME IInv, AddTable
  PROVE  IInv'
<1>1. /\ pc = "first" /\ ~ IsLeaf /\ entry[Here] = Empty /\ areas' = areas
  BY DEF AddTable
<1>2. ASSUME NEW e, Return(e), entry' = entry PROVE IInv'
  BY <1>1, <1>2, ReturnStep
<1>3. CASE /\ entry' = [entry EXCEPT ![Here] = Table(All)]
           /\ Descend /\ UNCHANGED <<pc, result, req>>
  <2> PICK x \in Canonical : x = req.virt + done
    BY <1>1, HereFacts
  <2>1. /\ x \in Addresses /\ x \in Nat /\ level \in Levels /\ Here = Key(level, x)
        /\ req \in Areas /\ req.virt \in Nat /\ req.size \in Nat /\ done \in Nat /\ done < req.size
        /\ req.virt \in Addresses /\ Valid(req)
        /\ req.perm \in SUBSET All /\ Path(entry, x, level, req.perm)
        /\ \A k \in Keys : entry[k].kind = "empty" => entry[k] = Empty
        /\ entry \in [Keys -> Entries] /\ Here \in Keys
    BY <1>1, HereFacts DEF IInv, TypeInv
  <2>2. Slot(entry, x, level)
    BY <1>1, HereSlot
  <2>3. PICK e \in Entries : e = Table(All)
    BY DEF Table, Entries, All
  <2>4. e.kind = "table" /\ e.perm = All
    BY <2>3 DEF Table
  <2>5. entry' = Put(entry, x, level, e)
    BY <1>3, <2>1, <2>3 DEF Put
  <2>6. level > 0
    BY <1>1, <2>1 DEF IsLeaf, Levels, Top
  <2>7. entry' \in [Keys -> Entries] /\ Tree(entry')
    BY <2>2, <2>4, <2>5, <2>6, PutTree
  <2>8. \A k \in Keys : entry'[k].kind = "empty" => entry'[k] = Empty
    BY <1>3, <2>1, <2>3, <2>4
  <2>9. entry'[Here] = e
    BY <1>3, <2>1, <2>3
  <2>10. Path(entry', x, level, req.perm)
    <3> SUFFICES ASSUME NEW k \in level + 1 .. Top PROVE entry'[Key(k, x)] = entry[Key(k, x)]
      BY <2>1 DEF Path
    <3>1. k \in Levels /\ k # level
      BY <2>1 DEF Levels, Top
    <3> QED
      BY <2>1, <2>2, <2>5, <3>1, PutAt
  <2>11. \A y \in Canonical : Meaning(entry', y) = Meaning(entry, y)
    BY <2>2, <2>4, <2>5, CanonicalFacts, PutTable
  <2>12. ASSUME NEW o \in 0 .. done - 1 PROVE Prepared(entry', req, o, done)
    <3>1. PICK l \in 0 .. Top - 1 : PreparedAt(entry, req, o, done, l)
      BY <1>1 DEF IInv, PreparedInv, Prepared
    <3>2. l \in Levels
      BY DEF Levels, Top
    <3>3. PICK y \in Canonical : y = req.virt + o
      <4>1. o \in 0 .. req.size - 1
        BY <2>1
      <4> QED
        BY <2>1, <4>1, RequestFacts
    <3>4. y \in Addresses /\ y \in Nat
      BY CanonicalFacts
    <3>5. Key(l, y) # Key(level, x)
      <4> SUFFICES ASSUME Key(l, y) = Key(level, x) PROVE FALSE
        OBVIOUS
      <4>1. l = level
        BY <2>1, <3>2, <3>4, KeyLevel
      <4>2. x < Start(l, y) + Span[l]
        BY <3>2, <4>1, SpanOfKey
      <4>3. Start(l, y) - req.virt + Span[l] <= done
        BY <3>1, <3>3 DEF PreparedAt
      <4>4. Start(l, y) \in Nat /\ Span[l] \in Nat
        BY <3>2, <3>4, StartFacts, SpanFacts
      <4> QED
        BY <2>1, <4>2, <4>3, <4>4
    <3>6. PreparedAt(entry', req, o, done, l)
      BY <2>2, <2>5, <3>1, <3>2, <3>3, <3>4, <3>5, PreparedElsewhere
    <3> QED
      BY <3>6 DEF Prepared
  <2>13. PreparedInv'
    BY <1>1, <1>3, <2>12 DEF PreparedInv, Descend
  <2> QED
    BY <1>1, <1>3, <2>1, <2>4, <2>6, <2>7, <2>8, <2>9, <2>10, <2>11, <2>13, DescendStep
<1> QED
  BY <1>1, <1>2, <1>3, Zenon DEF AddTable

\* The second pass is at the start of a prepared slot: were it inside, the
\* page before it, which is mapped, would be in the same empty slot.
LEMMA AtSlotStart ==
  ASSUME IInv, pc = "second"
  PROVE  \E l \in 0 .. Top - 1 :
           /\ PreparedAt(entry, req, done, req.size, l)
           /\ Start(l, req.virt + done) = req.virt + done
<1> PICK x \in Canonical : x = req.virt + done
  BY HereFacts
<1>1. /\ x \in Addresses /\ x \in Nat /\ req \in Areas /\ req.virt \in Nat /\ req.size \in Nat
      /\ done \in Nat /\ done < req.size /\ req.virt \in Addresses /\ Valid(req)
      /\ entry \in [Keys -> Entries]
  BY HereFacts
<1>2. PICK l \in 0 .. Top - 1 : PreparedAt(entry, req, done, req.size, l)
  <2>1. done \in done .. req.size - 1
    BY <1>1
  <2> QED
    BY <2>1 DEF IInv, PreparedInv, Prepared
<1>3. l \in Levels
  BY DEF Levels, Top
<1>4. PICK b \in Nat, n \in Nat \ {0} : b = Start(l, x) /\ n = Span[l] /\ b <= x /\ x < b + n
  BY <1>1, <1>3, StartFacts, SpanFacts
<1>5. req.virt <= b
  BY <1>2, <1>4 DEF PreparedAt
<1>6. ASSUME b < x PROVE FALSE
  <2>1. done - 1 \in 0 .. req.size - 1 /\ req.virt + (done - 1) = x - 1
    BY <1>1, <1>4, <1>5, <1>6
  <2>2. PICK z \in Canonical : z = x - 1 /\ z = req.virt + (done - 1)
    BY <1>1, <2>1, RequestFacts
  <2>3. z \in Addresses /\ z \in Nat
    BY CanonicalFacts
  <2>4. b <= z /\ z < b + n
    BY <1>1, <1>4, <1>6, <2>2, <2>3
  <2>5. Key(l, z) = Key(l, x)
    BY <1>3, <1>4, <2>4, SpanOfKey
  <2>6. Slot(entry, x, l)
    BY <1>1, <1>2, <1>3 DEF Slot, PreparedAt, Path, IInv, TreeInv
  <2>7. Translate(z) = Unmapped
    BY <2>3, <2>5, <2>6, SlotUnmapped, TranslateIsMeaning
  <2>8. Claims(z) = {}
    BY <2>7, UnmappedUnclaimed DEF IInv
  <2>9. Covers([req EXCEPT !.size = done], z)
    <3>1. [req EXCEPT !.size = done].virt = req.virt /\ [req EXCEPT !.size = done].size = done
      BY <1>1 DEF Areas
    <3>2. req.virt <= z /\ z < req.virt + done
      BY <1>1, <1>5, <2>2, <2>3, <2>4
    <3> QED
      BY <3>1, <3>2 DEF Covers
  <2>10. req \in Claimants(z)
    BY <2>9 DEF Claimants
  <2> QED
    BY <2>8, <2>10, ClaimsSplit
<1>7. b = x
  BY <1>1, <1>4, <1>6
<1> QED
  BY <1>2, <1>4, <1>7

LEMMA SecondPass ==
  ASSUME IInv, pc = "second"
  PROVE  /\ IsLeaf => entry[Here] = Empty
         /\ ~ IsLeaf => /\ level > 0 /\ entry[Here].kind = "table"
                        /\ req.perm \subseteq entry[Here].perm
<1> PICK x \in Canonical : x = req.virt + done
  BY HereFacts
<1>1. /\ x \in Addresses /\ x \in Nat /\ req.virt \in Nat /\ req.size \in Nat /\ req.phys \in Nat
      /\ done \in Nat /\ done < req.size /\ level \in Levels /\ Here = Key(level, x)
      /\ Path(entry, x, level, req.perm)
  BY HereFacts
<1>2. PICK l \in 0 .. Top - 1 : PreparedAt(entry, req, done, req.size, l) /\ Start(l, x) = x
  BY AtSlotStart
<1>3. l \in Levels
  BY DEF Levels, Top
<1>4. PICK n \in Nat \ {0} : n = Span[l]
  BY <1>3, SpanFacts
<1>5. /\ entry[Key(l, x)] = Empty /\ Path(entry, x, l, req.perm)
      /\ (req.phys + (x - req.virt)) % n = 0 /\ x - req.virt + n <= req.size
  BY <1>2, <1>4 DEF PreparedAt
<1>6. x % n = 0
  <2>1. PICK r \in Nat : r = x % n
    BY <1>1, <1>3, <1>4, StartFacts
  <2>2. Start(l, x) = x - r
    BY <1>4, <2>1, Zenon DEF Start
  <2>3. x = x - r
    BY <1>2, <2>2, Zenon
  <2>4. r = 0
    BY <1>1, <2>3
  <2> QED
    BY <2>1, <2>4
<1>7. CASE level \in l + 1 .. Top
  <2>1. entry[Here].kind = "table" /\ req.perm \subseteq entry[Here].perm
    BY <1>1, <1>5, <1>7 DEF Path
  <2>2. level > 0 /\ level # 0
    BY <1>3, <1>7 DEF Levels
  <2>3. entry[Here] # Empty
    BY <2>1 DEF Empty
  <2> QED
    BY <2>1, <2>2, <2>3 DEF IsLeaf
<1>8. CASE level = l
  <2>1. x - req.virt = done
    BY <1>1
  <2>2. (req.phys + done) % n = 0 /\ done + n <= req.size
    BY <1>5, <2>1
  <2>3. req.size - done >= n
    BY <1>1, <2>2
  <2>4. level = 0 \/ level \in 1 .. Top - 1
    BY <1>8 DEF Top
  <2>5. entry[Here] = Empty
    BY <1>1, <1>5, <1>8
  <2>6. IsLeaf
    BY <1>4, <1>6, <1>8, <2>2, <2>3, <2>4, <2>5 DEF IsLeaf
  <2> QED
    BY <2>5, <2>6
<1>9. CASE l \in level + 1 .. Top
  BY <1>1, <1>5, <1>9 DEF Path, Empty
<1> QED
  BY <1>1, <1>3, <1>7, <1>8, <1>9 DEF Levels, Top

LEMMA FollowTableStep ==
  ASSUME IInv, FollowTable
  PROVE  IInv'
<1>1. /\ pc = "second" /\ ~ IsLeaf /\ Descend
      /\ entry' = entry /\ areas' = areas /\ pc' = pc /\ req' = req
  BY DEF FollowTable
<1>2. level > 0 /\ entry[Here].kind = "table" /\ req.perm \subseteq entry[Here].perm
  BY <1>1, SecondPass
<1>3. PreparedInv'
  BY <1>1 DEF IInv, PreparedInv, Descend
<1>4. Path(entry, req.virt + done, level, req.perm)
  BY <1>1, HereFacts
<1> QED
  BY <1>1, <1>2, <1>3, <1>4, DescendStep DEF IInv, TypeInv, TreeInv

\* The pages of the slot a leaf is for.
LEMMA LeafPages ==
  ASSUME IInv, pc # "idle", IsLeaf, NEW y \in Canonical
  PROVE  /\ Key(level, y) = Key(level, req.virt + done) <=>
              req.virt + done <= y /\ y < req.virt + done + Span[level]
         /\ Key(level, y) = Key(level, req.virt + done) =>
              /\ y % Span[level] = y - (req.virt + done)
              /\ Start(level, y) = req.virt + done
<1>1. PICK x \in Canonical : x = req.virt + done
  BY HereFacts
<1>2. x \in Nat /\ y \in Nat /\ level \in Levels /\ Start(level, x) = x
  BY <1>1, LeafFacts, HereFacts, CanonicalFacts
<1>3. PICK n \in Nat \ {0} : n = Span[level]
  BY <1>2, SpanFacts
<1>4. /\ Key(level, y) = Key(level, x) <=> x <= y /\ y < x + n
      /\ Key(level, y) = Key(level, x) => y % n = y - x
  BY <1>2, <1>3, SpanOfKey
<1>5. ASSUME y % n = y - x PROVE Start(level, y) = x
  <2>1. Start(level, y) = y - (y - x)
    BY <1>3, <1>5, Zenon DEF Start
  <2> QED
    BY <1>2, <2>1
<1> QED
  BY <1>1, <1>3, <1>4, <1>5, Zenon

LEMMA LeafIsPrepared ==
  ASSUME IInv, pc = "first", IsLeaf, entry[Here] = Empty
  PROVE  \A o \in 0 .. done + Span[level] - 1 : Prepared(entry, req, o, done + Span[level])
<1> PICK x \in Canonical : x = req.virt + done
  BY HereFacts
<1>1. /\ req \in Areas /\ x \in Nat /\ req.virt \in Nat /\ req.size \in Nat /\ req.phys \in Nat
      /\ done \in Nat /\ done < req.size /\ level \in Levels /\ Here = Key(level, x)
      /\ req.virt \in Addresses /\ Valid(req) /\ Path(entry, x, level, req.perm)
  BY HereFacts
<1>2. PICK n \in Nat \ {0} : n = Span[level]
  BY <1>1, SpanFacts
<1>3. /\ level \in 0 .. Top - 1 /\ (req.phys + done) % n = 0 /\ req.size - done >= n
  BY <1>1, <1>2, LeafFacts DEF Levels, Top
<1>4. ASSUME NEW o \in 0 .. done - 1 PROVE Prepared(entry, req, o, done + n)
  <2>1. PICK l \in 0 .. Top - 1 : PreparedAt(entry, req, o, done, l)
    BY DEF IInv, PreparedInv, Prepared
  <2>2. l \in Levels
    BY DEF Levels, Top
  <2>3. o \in 0 .. req.size - 1
    BY <1>1
  <2>4. PICK y \in Nat : y = req.virt + o
    BY <1>1, <2>3
  <2>5. Start(l, y) \in Nat /\ Span[l] \in Nat
    BY <2>2, <2>4, StartFacts, SpanFacts
  <2>6. Start(l, y) - req.virt + Span[l] <= done + n
    <3>1. Start(l, y) - req.virt + Span[l] <= done
      BY <2>1, <2>4 DEF PreparedAt
    <3> QED
      BY <1>1, <2>5, <3>1
  <2>7. PreparedAt(entry, req, o, done + n, l)
    BY <2>1, <2>4, <2>6 DEF PreparedAt
  <2> QED
    BY <2>7 DEF Prepared
<1>5. ASSUME NEW o \in done .. done + n - 1 PROVE Prepared(entry, req, o, done + n)
  <2>1. o \in 0 .. req.size - 1 /\ o \in Nat
    BY <1>1, <1>3
  <2>2. PICK y \in Canonical : y = req.virt + o
    BY <1>1, <2>1, RequestFacts
  <2>3. y \in Nat /\ x <= y /\ y < x + n
    BY <1>1, <2>1, <2>2
  <2>4. Key(level, y) = Key(level, x) /\ Start(level, y) = x
    BY <1>2, <2>3, LeafPages
  <2>5. x - req.virt = done
    BY <1>1
  <2>6. entry[Key(level, y)] = Empty
    BY <1>1, <2>4
  <2>7. Path(entry, y, level, req.perm)
    <3> SUFFICES ASSUME NEW k \in level + 1 .. Top PROVE Key(k, y) = Key(k, x)
      BY <1>1 DEF Path
    <3>1. k \in level .. Top
      BY <1>1 DEF Levels, Top
    <3> QED
      BY <1>1, <2>3, <2>4, <3>1, KeyNest
  <2>8. req.virt <= x /\ done + n <= done + n
    BY <1>1, <1>2
  <2>9. PreparedAt(entry, req, o, done + n, level)
    BY <1>2, <1>3, <2>2, <2>4, <2>5, <2>6, <2>7, <2>8 DEF PreparedAt
  <2> QED
    BY <1>3, <2>9 DEF Prepared
<1>6. \A o \in 0 .. done + n - 1 : o \in 0 .. done - 1 \/ o \in done .. done + n - 1
  BY <1>1
<1> QED
  BY <1>2, <1>4, <1>5, <1>6, Zenon

LEMMA CheckLeafStep ==
  ASSUME IInv, CheckLeaf
  PROVE  IInv'
<1>1. pc = "first" /\ IsLeaf /\ entry' = entry
  BY DEF CheckLeaf
<1>2. CASE entry[Here] # Empty
  BY <1>1, <1>2, ReturnStep DEF CheckLeaf
<1>3. CASE entry[Here] = Empty
  <2>1. /\ level' = Top /\ req' = req /\ areas' = areas
        /\ \/ done + Span[level] = req.size /\ pc' = "second" /\ done' = 0
           \/ done + Span[level] # req.size /\ pc' = pc /\ done' = done + Span[level]
    BY <1>1, <1>3 DEF CheckLeaf, Advance
  <2>2. /\ req \in Areas /\ req.virt \in Addresses /\ req.virt \in Nat /\ req.size \in Nat
        /\ done \in Nat /\ done < req.size /\ level \in Levels /\ Valid(req)
    BY <1>1, HereFacts
  <2>3. PICK n \in Nat \ {0} : n = Span[level]
    BY <2>2, SpanFacts
  <2>4. \A o \in 0 .. done + n - 1 : Prepared(entry, req, o, done + n)
    BY <1>1, <1>3, <2>3, LeafIsPrepared
  <2>5. req.size - done >= n
    BY <1>1, <2>3, LeafFacts
  <2>6. done' \in Nat /\ done' < req.size
    BY <2>1, <2>2, <2>3, <2>5
  <2>7. TypeInv'
    BY <1>1, <2>1, <2>6 DEF IInv, TypeInv, Levels, Top
  <2>8. TreeInv'
    BY <1>1 DEF IInv, TreeInv
  <2>9. WalkInv'
    <3>1. Top + 1 .. Top = {}
      BY DEF Top
    <3>2. Path(entry', req'.virt + done', level', req'.perm)
      BY <2>1, <3>1, Zenon DEF Path
    <3>3. Valid(req)'
      BY <2>1, <2>2 DEF Valid, Half
    <3> QED
      BY <2>1, <2>2, <2>6, <3>2, <3>3 DEF WalkInv
  <2>10. PreparedInv'
    <3>1. CASE done + n = req.size
      <4>1. pc' = "second" /\ done' = 0
        BY <2>1, <2>3, <3>1
      <4>2. \A o \in 0 .. req.size - 1 : Prepared(entry, req, o, req.size)
        <5>1. done + n - 1 = req.size - 1
          BY <2>2, <3>1
        <5> QED
          BY <2>4, <3>1, <5>1, Zenon
      <4> QED
        BY <1>1, <2>1, <4>1, <4>2 DEF PreparedInv
    <3>2. CASE done + n # req.size
      <4>1. pc' = "first" /\ done' = done + n
        BY <1>1, <2>1, <2>3, <3>2
      <4>2. \A o \in 0 .. done' - 1 : Prepared(entry', req', o, done')
        <5>1. done' - 1 = done + n - 1
          BY <2>2, <4>1
        <5> QED
          BY <1>1, <2>1, <2>4, <4>1, <5>1, Zenon
      <4> QED
        BY <4>1, <4>2 DEF PreparedInv
    <3> QED
      BY <3>1, <3>2
  <2>11. \A x \in Canonical : Claimants(x)' = Claimants(x)
    <3>1. [req EXCEPT !.size = 0].virt = req.virt /\ [req EXCEPT !.size = 0].size = 0
      BY <2>2 DEF Areas
    <3>2. \A x \in Canonical : ~ Covers([req EXCEPT !.size = 0], x)
      BY <2>2, <3>1, CanonicalFacts DEF Covers
    <3> QED
      BY <1>1, <2>1, <3>2 DEF Claimants, Covers
  <2>12. TranslatesTheAreas'
    BY <1>1, <2>11, SameClaims DEF IInv
  <2> QED
    BY <2>7, <2>8, <2>9, <2>10, <2>12 DEF IInv
<1> QED
  BY <1>2, <1>3

LEMMA InstallLeafStep ==
  ASSUME IInv, InstallLeaf
  PROVE  IInv'
<1>1. pc = "second" /\ IsLeaf
  BY DEF InstallLeaf
<1> PICK x \in Canonical : x = req.virt + done
  BY <1>1, HereFacts
<1>2. /\ req \in Areas /\ x \in Addresses /\ x \in Nat /\ req.virt \in Nat /\ req.size \in Nat
      /\ req.phys \in Nat /\ req.perm \in SUBSET All
      /\ done \in Nat /\ done < req.size /\ level \in Levels /\ Here = Key(level, x)
      /\ req.virt \in Addresses /\ Valid(req) /\ Path(entry, x, level, req.perm)
      /\ entry \in [Keys -> Entries] /\ Here \in Keys
  BY <1>1, HereFacts
<1>3. PICK n \in Nat \ {0} : n = Span[level]
  BY <1>2, SpanFacts
<1>4. /\ level < Top /\ (req.phys + done) % n = 0 /\ req.size - done >= n
  BY <1>1, <1>3, LeafFacts
<1>5. entry[Here] = Empty
  BY <1>1, SecondPass
<1>6. Slot(entry, x, level)
  BY <1>1, <1>5, HereSlot
<1>7. PICK p \in Nat : p = req.phys + done
  BY <1>2
<1>8. PICK e \in Entries : e = Leaf(p, req.perm)
  BY <1>2 DEF Leaf, Entries
<1>9. e.kind = "leaf"
  BY <1>8 DEF Leaf
<1>10. entry' = Put(entry, x, level, e)
  BY <1>2, <1>7, <1>8 DEF InstallLeaf, Put
<1>11. entry' \in [Keys -> Entries] /\ Tree(entry')
  BY <1>4, <1>6, <1>9, <1>10, PutTree
<1>12. \A k \in Keys : entry'[k].kind = "empty" => entry'[k] = Empty
  <2>1. entry' = [entry EXCEPT ![Here] = e]
    BY <1>2, <1>10 DEF Put
  <2>2. \A k \in Keys : entry[k].kind = "empty" => entry[k] = Empty
    BY DEF IInv, TypeInv
  <2> QED
    BY <1>2, <1>9, <2>1, <2>2
<1>13. /\ level' = Top
       /\ \/ done + n = req.size /\ pc' = "idle" /\ done' = 0 /\ req' = NoArea /\ areas' = areas \cup {req}
          \/ done + n # req.size /\ pc' = "second" /\ done' = done + n /\ req' = req /\ areas' = areas
  BY <1>1, <1>3 DEF InstallLeaf, Advance, Succeed
<1>14. done' \in Nat /\ (pc' # "idle" => done' < req.size)
  <2>1. CASE done + n = req.size
    BY <1>13, <2>1
  <2>2. CASE done + n # req.size
    <3>1. done + n \in Nat /\ done + n < req.size
      BY <1>2, <1>4, <2>2
    <3> QED
      BY <1>13, <2>2, <3>1
  <2> QED
    BY <2>1, <2>2
<1>15. TypeInv'
  <2>1. NoArea \in Areas /\ Top \in Levels
    BY DEF NoArea, Areas, Levels, Top
  <2>2. areas \subseteq Areas
    BY DEF IInv, TypeInv
  <2>3. areas' \subseteq Areas /\ req' \in Areas
    BY <1>2, <1>13, <2>1, <2>2
  <2> QED
    BY <1>11, <1>12, <1>13, <1>14, <2>1, <2>3 DEF TypeInv
<1>16. TreeInv'
  BY <1>11 DEF TreeInv
<1>17. WalkInv'
  <2> SUFFICES ASSUME pc' # "idle" PROVE WalkInv'
    BY DEF WalkInv
  <2>1. Top + 1 .. Top = {}
    BY DEF Top
  <2>2. req' = req /\ level' = Top
    BY <1>13
  <2>3. Path(entry', req'.virt + done', level', req'.perm)
    BY <2>1, <2>2, Zenon DEF Path
  <2>4. Valid(req)'
    BY <1>2, <2>2 DEF Valid, Half
  <2> QED
    BY <1>2, <1>14, <2>2, <2>3, <2>4 DEF WalkInv
<1>18. PreparedInv'
  <2> SUFFICES ASSUME done + n # req.size
               PROVE  \A o \in done + n .. req.size - 1 : Prepared(entry', req, o, req.size)
    BY <1>13 DEF PreparedInv
  <2> SUFFICES ASSUME NEW o \in done + n .. req.size - 1
               PROVE  Prepared(entry', req, o, req.size)
    OBVIOUS
  <2>1. o \in done .. req.size - 1 /\ o \in 0 .. req.size - 1
    BY <1>2
  <2>2. PICK l \in 0 .. Top - 1 : PreparedAt(entry, req, o, req.size, l)
    BY <1>1, <2>1 DEF IInv, PreparedInv, Prepared
  <2>3. l \in Levels
    BY DEF Levels, Top
  <2>4. PICK y \in Canonical : y = req.virt + o
    BY <1>2, <2>1, RequestFacts
  <2>5. y \in Addresses /\ y \in Nat
    BY CanonicalFacts
  <2>6. Key(l, y) # Key(level, x)
    <3> SUFFICES ASSUME Key(l, y) = Key(level, x) PROVE FALSE
      OBVIOUS
    <3>1. l = level
      BY <1>2, <2>3, <2>5, KeyLevel
    <3>2. y < x + n
      BY <1>1, <1>3, <3>1, LeafPages
    <3> QED
      BY <1>2, <2>1, <2>4, <3>2
  <2>7. PreparedAt(entry', req, o, req.size, l)
    BY <1>6, <1>10, <2>2, <2>3, <2>4, <2>5, <2>6, PreparedElsewhere
  <2> QED
    BY <2>7 DEF Prepared
<1>19. ASSUME NEW z \in Canonical
       PROVE  Claimants(z)' = Claimants(z) \cup (IF x <= z /\ z < x + n THEN {req} ELSE {})
  <2>1. z \in Nat
    BY CanonicalFacts
  <2>2. \A m \in Nat : Covers([req EXCEPT !.size = m], z) <=> req.virt <= z /\ z < req.virt + m
    BY <1>2 DEF Covers, Areas
  <2>3. Covers([req EXCEPT !.size = done], z) <=> req.virt <= z /\ z < x
    BY <1>2, <2>2
  <2>4. Covers([req EXCEPT !.size = done + n], z) <=> req.virt <= z /\ z < x + n
    BY <1>2, <2>1, <2>2
  <2>5. Covers([req EXCEPT !.size = done + n], z) <=>
          Covers([req EXCEPT !.size = done], z) \/ (x <= z /\ z < x + n)
    BY <1>2, <2>1, <2>3, <2>4
  <2>6. Claimants(z) = {a \in areas : Covers(a, z)}
                         \cup (IF Covers([req EXCEPT !.size = done], z) THEN {req} ELSE {})
    BY <1>1 DEF Claimants
  <2>7. Claimants(z)' = {a \in areas : Covers(a, z)}
                          \cup (IF Covers([req EXCEPT !.size = done + n], z) THEN {req} ELSE {})
    <3>1. CASE done + n = req.size
      <4>1. [req EXCEPT !.size = req.size] = req
        BY <1>2 DEF Areas
      <4>2. pc' = "idle" /\ areas' = areas \cup {req}
        BY <1>13, <3>1
      <4>3. Claimants(z)' = {a \in areas \cup {req} : Covers(a, z)}
        BY <4>2 DEF Claimants, Covers
      <4> QED
        BY <3>1, <4>1, <4>3
    <3>2. CASE done + n # req.size
      <4>1. pc' = "second" /\ done' = done + n /\ req' = req /\ areas' = areas
        BY <1>13, <3>2
      <4> QED
        BY <4>1 DEF Claimants, Covers
    <3> QED
      BY <3>1, <3>2
  <2> QED
    BY <2>5, <2>6, <2>7
<1>20. TranslatesTheAreas'
  <2> SUFFICES ASSUME NEW z \in Canonical
               PROVE  IF Claims(z)' = {} THEN Translate(z)' = Unmapped
                      ELSE Claims(z)' = {Translate(z)'}
    BY DEF TranslatesTheAreas
  <2>1. z \in Nat /\ z \in Addresses
    BY CanonicalFacts
  <2>2. Key(level, z) = Key(level, x) <=> x <= z /\ z < x + n
    BY <1>1, <1>3, LeafPages
  <2>3. CASE Key(level, z) # Key(level, x)
    <3>1. Translate(z)' = Translate(z)
      BY <1>6, <1>10, <2>1, <2>3, PutElsewhere, TranslateIsMeaning
    <3>2. Claims(z)' = Claims(z)
      <4>1. Claimants(z)' = Claimants(z)
        BY <1>19, <2>2, <2>3
      <4> QED
        BY <4>1, ClaimsSplit
    <3> QED
      BY <3>1, <3>2 DEF IInv, TranslatesTheAreas
  <2>4. CASE Key(level, z) = Key(level, x)
    <3>1. Translate(z) = Unmapped
      BY <1>6, <2>1, <2>4, SlotUnmapped, TranslateIsMeaning
    <3>2. Claimants(z) = {} /\ BootClaims(z) = {}
      BY <3>1, UnmappedUnclaimed, ClaimsSplit DEF IInv
    <3>3. Claimants(z)' = {req}
      BY <1>19, <2>2, <2>4, <3>2
    <3>4. Claims(z)' = {ClaimOf(req, z)}
      BY <3>2, <3>3, ClaimsSplit
    <3>5. \A k \in level + 1 .. Top : req.perm \subseteq entry[Key(k, x)].perm
      BY <1>2 DEF Path
    <3>6. Translate(z)' = [pa |-> p + (z % n), perm |-> req.perm]
      BY <1>2, <1>3, <1>4, <1>6, <1>7, <1>8, <1>10, <2>1, <2>4, <3>5, PutLeaf, TranslateIsMeaning
    <3>7. z % n = z - x
      BY <1>1, <1>3, <2>4, LeafPages
    <3>8. p + (z - x) = req.phys + z - req.virt
      BY <1>2, <1>7, <2>1
    <3>9. Translate(z)' = ClaimOf(req, z)
      BY <3>6, <3>7, <3>8, Zenon DEF ClaimOf
    <3> QED
      BY <3>4, <3>9
  <2> QED
    BY <2>3, <2>4
<1> QED
  BY <1>15, <1>16, <1>17, <1>18, <1>20 DEF IInv

-----------------------------------------------------------------------------
(* The boot tables. *)

\* The tables of init.S translate the two outer entries of pgd, and them only.
LEMMA InitMeaning ==
  ASSUME Init, NEW x \in Canonical
  PROVE  Meaning(entry, x) = IF BootTable(Key(Top, x))
                               THEN [pa |-> (x % Span[Top]), perm |-> {"rw"}] ELSE Unmapped
<1>1. x \in Nat /\ 2 \in Levels /\ Top \in Levels /\ 2 \in 0 .. Top - 1
  BY CanonicalFacts DEF Levels, Top
<1>2. /\ Key(Top, x) = <<Top, Number(Top, x)>> /\ Key(Top, x) \in Keys
      /\ Key(2, x) = <<2, Number(2, x)>> /\ Key(2, x) \in Keys
  BY <1>1, KeyNumber
<1>3. Number(Top, x) = Number(2, x) \div Fanout
  BY <1>1, KeyUp DEF Top
<1>4. entry = [k \in Keys |-> IF BootTable(k) THEN Table({"rw"})
                              ELSE IF BootLeaf(k) THEN Leaf((k[2] % Fanout) * Span[Top - 1], {"rw"})
                              ELSE Empty]
  BY DEF Init
<1>5. CASE ~ BootTable(Key(Top, x))
  <2>1. ~ BootLeaf(Key(Top, x))
    BY <1>2 DEF BootLeaf, Top
  <2>2. entry[Key(Top, x)].kind = "empty"
    BY <1>2, <1>4, <1>5, <2>1 DEF Empty
  <2>3. \A l \in Levels : l = Top \/ Top \in l + 1 .. Top
    BY DEF Levels, Top
  <2>4. Leaves(entry, x) = {}
    BY <2>2, <2>3 DEF Leaves
  <2> QED
    BY <1>5, <2>4 DEF Meaning
<1>6. CASE BootTable(Key(Top, x))
  <2>1. entry[Key(Top, x)] = Table({"rw"})
    BY <1>2, <1>4, <1>6
  <2>2. ~ BootTable(Key(2, x)) /\ BootLeaf(Key(2, x))
    BY <1>2, <1>3, <1>6 DEF BootTable, BootLeaf, Top
  <2>3. entry[Key(2, x)] = Leaf((Number(2, x) % Fanout) * Span[2], {"rw"})
    BY <1>2, <1>4, <2>2 DEF Top
  <2>4. entry[Key(2, x)].kind = "leaf" /\ entry[Key(Top, x)].kind = "table"
        /\ entry[Key(Top, x)].perm = {"rw"}
    BY <2>1, <2>3 DEF Leaf, Table
  <2>5. 2 + 1 .. Top = {Top} /\ \A l \in Levels : l = 2 \/ l = Top \/ 2 \in l + 1 .. Top
    BY DEF Levels, Top
  <2>6. Leaves(entry, x) = {2}
    BY <1>1, <2>4, <2>5 DEF Leaves
  <2>0. PICK s \in Nat \ {0}, f \in Nat \ {0}, c \in Nat \ {0} :
        s = Span[2] /\ f = Fanout /\ c = Count(Top) /\ Span[Top] = f * s /\ Count(2) = c * f
    BY <1>1, SpanFacts, CountFacts, VmMapAssumption DEF Top
  <2>7. PICK q \in Nat : q = x \div s
    BY <1>1, Divide
  <2>8. PICK t \in 0 .. f - 1, d \in Nat : t = q % f /\ d = (q \div f) % c
    <3>1. PICK g \in Nat : g = q \div f
      BY Divide
    <3>2. q % f \in 0 .. f - 1 /\ g % c \in Nat
      BY Divide
    <3> QED
      BY <3>1, <3>2, Zenon
  <2>9. Number(2, x) % f = t
    <3>1. Twice(q, f, c)
      BY DivideTwice
    <3>2. PICK m : m = Number(2, x)
      OBVIOUS
    <3>3. m = d * f + t
      BY <2>0, <2>7, <2>8, <3>1, <3>2, Zenon DEF Twice, Number
    <3>4. m % f = t
      BY <3>3, Quotient
    <3> QED
      BY <3>2, <3>4
  <2>10. PICK v \in Nat : v = t * s
    OBVIOUS
  <2>11. x % Span[Top] = v + (x % s)
    <3>1. Twice(x, s, f)
      BY <1>1, DivideTwice
    <3> QED
      BY <2>0, <2>7, <2>8, <2>10, <3>1, Zenon DEF Twice
  <2>12. v % s = 0
    BY <2>10, Multiple
  <2>13. entry[Key(2, x)].pa = v /\ entry[Key(2, x)].perm = {"rw"}
    <3>1. entry[Key(2, x)] = Leaf(v, {"rw"})
      BY <2>0, <2>3, <2>9, <2>10, Zenon
    <3> QED
      BY <3>1 DEF Leaf
  <2>14. Meaning(entry, x) =
           [pa |-> (v - (v % s)) + (x % s),
            perm |-> {p \in {"rw"} : \A k \in {Top} : p \in entry[Key(k, x)].perm}]
    BY <1>1, <2>0, <2>5, <2>6, <2>13, OneLeaf
  <2>15. (v - (v % s)) + (x % s) = v + (x % s)
    <3>1. x % s \in Nat
      BY <1>1, Divide
    <3> QED
      BY <2>12, <3>1
  <2>16. {p \in {"rw"} : \A k \in {Top} : p \in entry[Key(k, x)].perm} = {"rw"}
    BY <2>4
  <2> QED
    BY <1>6, <2>11, <2>14, <2>15, <2>16, Zenon
<1> QED
  BY <1>5, <1>6

LEMMA InitInv == Init => IInv
<1> SUFFICES ASSUME Init PROVE IInv
  OBVIOUS
<1>1. /\ areas = {} /\ pc = "idle" /\ req = NoArea /\ done = 0 /\ level = Top
      /\ entry = [k \in Keys |-> IF BootTable(k) THEN Table({"rw"})
                                 ELSE IF BootLeaf(k) THEN Leaf((k[2] % Fanout) * Span[Top - 1], {"rw"})
                                 ELSE Empty]
  BY DEF Init
<1>2. ASSUME NEW k \in Keys
      PROVE  /\ entry[k] \in Entries
             /\ entry[k].kind = "empty" => entry[k] = Empty
             /\ entry[k].kind = "table" => BootTable(k)
             /\ entry[k].kind = "leaf" => BootLeaf(k)
             /\ entry[k] # Empty => BootTable(k) \/ BootLeaf(k)
  <2>1. PICK l \in Levels : k \in {l} \X (0 .. Space \div Span[l] - 1)
    BY DEF Keys
  <2>2. Space \div Span[l] \in Nat /\ Span[Top - 1] \in Nat /\ Fanout \in Nat \ {0}
    <3>1. Space \div Span[l] \in Nat
      BY CountFacts DEF Count
    <3>2. Span[Top - 1] \in Nat
      BY SpanFacts DEF Levels, Top
    <3> QED
      BY <3>1, <3>2, VmMapAssumption
  <2>3. k[2] \in Nat
    BY <2>1, <2>2
  <2>4. k[2] % Fanout \in Nat
    BY <2>2, <2>3
  <2>5. (k[2] % Fanout) * Span[Top - 1] \in Nat
    BY <2>2, <2>4
  <2>6. Table({"rw"}) \in Entries /\ Empty \in Entries
    BY DEF Table, Empty, Entries, All
  <2>7. Leaf((k[2] % Fanout) * Span[Top - 1], {"rw"}) \in Entries
    BY <2>5 DEF Leaf, Entries, All
  <2> QED
    BY <1>1, <2>6, <2>7 DEF Table, Leaf, Empty
<1>3. TypeInv
  <2>1. NoArea \in Areas /\ Top \in Levels
    BY DEF NoArea, Areas, Levels, Top
  <2> QED
    BY <1>1, <1>2, <2>1 DEF TypeInv
<1>4. TreeInv
  <2> SUFFICES ASSUME NEW x \in Addresses, NEW l \in Levels
               PROVE  /\ entry[Key(l, x)].kind = "table" => l > 0
                      /\ entry[Key(l, x)].kind = "leaf" => l < Top
                      /\ entry[Key(l, x)] # Empty /\ l < Top => entry[Key(l + 1, x)].kind = "table"
    BY DEF TreeInv, Tree
  <2>1. x \in Nat /\ Key(l, x) \in Keys /\ Key(l, x) = <<l, Number(l, x)>>
    BY KeyInKeys, KeyNumber
  <2>2. BootTable(Key(l, x)) => l = Top
    BY <2>1 DEF BootTable
  <2>3. BootLeaf(Key(l, x)) => l = 2
    BY <2>1 DEF BootLeaf, Top
  <2>4. ASSUME entry[Key(l, x)] # Empty, l < Top PROVE entry[Key(l + 1, x)].kind = "table"
    <3>1. BootLeaf(Key(l, x)) /\ l = 2
      BY <1>2, <2>1, <2>2, <2>3, <2>4 DEF Levels, Top
    <3>2. BootTable(<<Top, Number(2, x) \div Fanout>>)
      BY <2>1, <3>1 DEF BootLeaf
    <3>3. 2 \in 0 .. Top - 1 /\ 2 + 1 = Top /\ Top \in Levels
      BY DEF Levels, Top
    <3>4. Number(Top, x) = Number(2, x) \div Fanout
      BY <2>1, <3>3, KeyUp
    <3>5. Key(Top, x) = <<Top, Number(Top, x)>> /\ Key(Top, x) \in Keys
      BY <2>1, <3>3, KeyNumber
    <3>6. BootTable(Key(Top, x))
      BY <3>2, <3>4, <3>5, Zenon
    <3>7. entry[Key(Top, x)] = Table({"rw"})
      BY <1>1, <3>5, <3>6
    <3> QED
      BY <3>1, <3>3, <3>7 DEF Table
  <2> QED
    BY <1>2, <2>1, <2>2, <2>3, <2>4 DEF Top
<1>5. WalkInv /\ PreparedInv
  BY <1>1 DEF WalkInv, PreparedInv
<1>6. TranslatesTheAreas
  <2> SUFFICES ASSUME NEW x \in Canonical
               PROVE  IF Claims(x) = {} THEN Translate(x) = Unmapped ELSE Claims(x) = {Translate(x)}
    BY DEF TranslatesTheAreas
  <2>1. Claimants(x) = {}
    BY <1>1 DEF Claimants
  <2>2. Claims(x) = BootClaims(x)
    BY <2>1, ClaimsSplit
  <2> QED
    BY <2>2, InitMeaning, TranslateIsMeaning DEF BootClaims
<1> QED
  BY <1>3, <1>4, <1>5, <1>6 DEF IInv

-----------------------------------------------------------------------------
(* The theorems. *)

LEMMA StepInv == IInv /\ [Next]_vars => IInv'
<1> SUFFICES ASSUME IInv, [Next]_vars PROVE IInv'
  OBVIOUS
<1>1. ASSUME NEW a \in Requests, Vmap(a) PROVE IInv'
  BY <1>1, VmapStep
<1>2. CASE CheckLeaf
  BY <1>2, CheckLeafStep
<1>3. CASE CheckTable
  BY <1>3, CheckTableStep
<1>4. CASE AddTable
  BY <1>4, AddTableStep
<1>5. CASE InstallLeaf
  BY <1>5, InstallLeafStep
<1>6. CASE FollowTable
  BY <1>6, FollowTableStep
<1>7. CASE UNCHANGED vars
  <2>1. /\ entry' = entry /\ areas' = areas /\ pc' = pc /\ req' = req
        /\ done' = done /\ level' = level
    BY <1>7 DEF vars
  <2>2. TypeInv' /\ TreeInv' /\ PreparedInv'
    BY <2>1 DEF IInv, TypeInv, TreeInv, PreparedInv
  <2>3. WalkInv'
    BY <2>1 DEF IInv, WalkInv, Valid, Half
  <2>4. \A x \in Canonical : Claimants(x)' = Claimants(x)
    BY <2>1 DEF Claimants, Covers
  <2>5. TranslatesTheAreas'
    BY <2>1, <2>4, SameClaims DEF IInv
  <2> QED
    BY <2>2, <2>3, <2>5 DEF IInv
<1> QED
  BY <1>1, <1>2, <1>3, <1>4, <1>5, <1>6, <1>7 DEF Next

\* The tables form a tree; a pass has come down over tables that allow what it
\* is to map; the first pass leaves, and the second finds, an empty slot that
\* fits for every page; and the tables translate the areas (vm_map, vmap).
THEOREM VmMapInvariant == Spec => []IInv
BY InitInv, StepInv, PTL DEF Spec

\* The second pass of vm_map, which looks for neither, finds a table wherever
\* it goes down and an empty entry wherever it installs a page.
THEOREM SecondPassFindsItsWay == Spec => []SecondPassIsPrepared
<1>1. IInv => SecondPassIsPrepared
  BY SecondPass DEF SecondPassIsPrepared
<1> QED
  BY <1>1, VmMapInvariant, PTL

\* At every step of vm_map the processor translates exactly the pages of the
\* areas that vmap has recorded, the part of the one under way that the second
\* pass has behind it, and the boot mapping, each with its permissions.
THEOREM TablesTranslateTheAreas == Spec => []TranslatesTheAreas
<1>1. IInv => TranslatesTheAreas
  BY DEF IInv
<1> QED
  BY <1>1, VmMapInvariant, PTL
=============================================================================
