--------------------------- MODULE OsMemoryProofs ---------------------------
(***************************************************************************)
(* What is proved of the memory system: the buddy system of OsMemoryPage,  *)
(* the slub caches of OsMemory on top of it, and the abstract heap they    *)
(* implement.                                                              *)
(***************************************************************************)
EXTENDS OsMemory, DataLemmas

-----------------------------------------------------------------------------
(***************************************************************************)
(* The sizes of blocks.                                                    *)
(***************************************************************************)

\* The recursion that defines the sizes has a solution.
LEMMA SizesDouble ==
  Doubled = [o \in 0..BUDDY_ORDER_UPLIMIT |-> IF o = 0 THEN 1 ELSE 2 * Doubled[o - 1]]
<1>. DEFINE S == {n \in Nat : \E h \in [0..n -> Nat] :
                                h = [o \in 0..n |-> IF o = 0 THEN 1 ELSE 2 * h[o - 1]]}
<1>1. 0 \in S
  <2>1. PICK h : h = [o \in 0..0 |-> 1]
    OBVIOUS
  <2>2. h \in [0..0 -> Nat] /\ h = [o \in 0..0 |-> IF o = 0 THEN 1 ELSE 2 * h[o - 1]]
    BY <2>1
  <2>. QED BY <2>2
<1>2. ASSUME NEW n \in Nat, n \in S PROVE n + 1 \in S
  <2>1. PICK h \in [0..n -> Nat] : h = [o \in 0..n |-> IF o = 0 THEN 1 ELSE 2 * h[o - 1]]
    BY <1>2
  <2>2. PICK g : g = [o \in 0..(n + 1) |-> IF o = 0 THEN 1 ELSE 2 * h[o - 1]]
    OBVIOUS
  <2>3. \A o \in 0..n : g[o] = h[o]
    BY <2>1, <2>2
  <2>4. g \in [0..(n + 1) -> Nat]
    BY <2>2
  <2>5. g = [o \in 0..(n + 1) |-> IF o = 0 THEN 1 ELSE 2 * g[o - 1]]
    <3>1. \A o \in 0..(n + 1) : o # 0 => o - 1 \in 0..n
      OBVIOUS
    <3>2. \A o \in 0..(n + 1) : o # 0 => g[o] = 2 * g[o - 1]
      BY <2>2, <2>3, <3>1
    <3>3. g = [o \in 0..(n + 1) |-> g[o]]
      BY <2>4
    <3>4. \A o \in 0..(n + 1) : g[o] = IF o = 0 THEN 1 ELSE 2 * g[o - 1]
      BY <2>2, <3>2
    <3>. QED BY <3>3, <3>4, Zenon
  <2>6. n + 1 \in Nat
    OBVIOUS
  <2>. HIDE DEF S
  <2>7. \E f \in [0..(n + 1) -> Nat] : f = [o \in 0..(n + 1) |-> IF o = 0 THEN 1 ELSE 2 * f[o - 1]]
    BY <2>4, <2>5, Zenon
  <2>. QED BY <2>6, <2>7 DEF S
<1>. HIDE DEF S
<1>3. BUDDY_ORDER_UPLIMIT \in Nat
  BY PageAssumption DEF BUDDY_ORDER_UPLIMIT
<1>4. BUDDY_ORDER_UPLIMIT \in S
  BY <1>1, <1>2, <1>3, SetInduction
<1>5. \E h : h = [o \in 0..BUDDY_ORDER_UPLIMIT |-> IF o = 0 THEN 1 ELSE 2 * h[o - 1]]
  BY <1>4 DEF S
<1>. QED BY <1>5, Zenon DEF Doubled

LEMMA SizeFacts ==
  /\ BUDDY_ORDER_UPLIMIT = BUDDY_ORDER_MAX + 1 /\ BUDDY_ORDER_MAX \in Nat
  /\ SIZE[0] = 1
  /\ \A o \in 0..BUDDY_ORDER_UPLIMIT : SIZE[o] \in Nat \ {0}
  /\ \A o \in Order : SIZE[o + 1] = 2 * SIZE[o]
<1>1. BUDDY_ORDER_UPLIMIT = BUDDY_ORDER_MAX + 1 /\ BUDDY_ORDER_MAX \in Nat
  BY PageAssumption DEF BUDDY_ORDER_UPLIMIT
<1>2. \A o \in 0..BUDDY_ORDER_UPLIMIT :
         /\ SIZE[o] = Doubled[o]
         /\ Doubled[o] = IF o = 0 THEN 1 ELSE 2 * Doubled[o - 1]
  BY SizesDouble DEF SIZE
<1>3. SIZE[0] = 1
  BY <1>1, <1>2
<1>4. \A o \in Order : SIZE[o + 1] = 2 * SIZE[o]
  BY <1>1, <1>2 DEF Order
<1>. DEFINE S == {o \in 0..BUDDY_ORDER_UPLIMIT : SIZE[o] \in Nat \ {0}}
<1>5. 0 \in S
  BY <1>1, <1>3
<1>6. ASSUME NEW o \in 0..(BUDDY_ORDER_UPLIMIT - 1), o \in S PROVE o + 1 \in S
  BY <1>1, <1>4, <1>6 DEF Order
<1>. HIDE DEF S
<1>7. \A o \in 0..BUDDY_ORDER_UPLIMIT : o \in S
  BY <1>1, <1>5, <1>6, UpTo
<1>. QED BY <1>1, <1>3, <1>4, <1>7 DEF S

\* A smaller order is at most half the size.
LEMMA SizesGrow ==
  ASSUME NEW i \in 0..BUDDY_ORDER_UPLIMIT, NEW j \in i..BUDDY_ORDER_UPLIMIT
  PROVE  SIZE[i] <= SIZE[j] /\ (i < j => 2 * SIZE[i] <= SIZE[j])
<1>. USE SizeFacts DEF Order
<1>. DEFINE S == {k \in i..BUDDY_ORDER_UPLIMIT :
                    SIZE[i] <= SIZE[k] /\ (i < k => 2 * SIZE[i] <= SIZE[k])}
<1>1. i \in S
  OBVIOUS
<1>2. ASSUME NEW k \in i..(BUDDY_ORDER_UPLIMIT - 1), k \in S PROVE k + 1 \in S
  <2>1. SIZE[k + 1] = 2 * SIZE[k] /\ SIZE[k] \in Nat /\ SIZE[i] <= SIZE[k] /\ SIZE[i] \in Nat
    BY <1>2
  <2>. QED BY <2>1
<1>. HIDE DEF S
<1>3. i \in Nat /\ j \in Nat /\ j \in i..j
  OBVIOUS
<1>4. \A k \in i..j : k \in S
  <2>1. \A k \in i..(j - 1) : k \in S => k + 1 \in S
    BY <1>2
  <2>. QED BY <1>1, <1>3, <2>1, UpTo
<1>5. j \in S
  BY <1>3, <1>4
<1>. QED BY <1>5 DEF S

LEMMA EvenHalves ==
  ASSUME NEW q \in Nat
  PROVE  \E h \in Nat : q = 2 * h + (q % 2)
OBVIOUS

\* What is aligned to a size is aligned to its half, and so to every smaller order.
LEMMA AlignedToHalf ==
  ASSUME NEW a \in Nat, NEW m \in Nat \ {0}, a % (2 * m) = 0
  PROVE  a % m = 0
<1>1. PICK M \in Nat \ {0} : M = 2 * m
  OBVIOUS
<1>2. PICK q \in Nat : a = M * q + (a % M)
  BY DivMod
<1>3. a = m * (2 * q) + 0 /\ 2 * q \in Nat
  BY <1>1, <1>2
<1>. QED BY <1>3, DivModOf

LEMMA AlignedBelow ==
  ASSUME NEW a \in Nat, NEW i \in 0..BUDDY_ORDER_UPLIMIT, a % SIZE[i] = 0, NEW j \in 0..i
  PROVE  a % SIZE[j] = 0
<1>. DEFINE S == {k \in 0..i : a % SIZE[i - k] = 0}
<1>1. 0 \in S
  OBVIOUS
<1>2. ASSUME NEW k \in 0..(i - 1), k \in S PROVE k + 1 \in S
  <2>1. PICK o \in Order : o = i - (k + 1)
    BY SizeFacts DEF Order
  <2>2. i - k = o + 1 /\ a % SIZE[o + 1] = 0
    BY <1>2, <2>1 DEF Order
  <2>3. SIZE[o] \in Nat \ {0} /\ SIZE[o + 1] = 2 * SIZE[o]
    BY SizeFacts DEF Order
  <2>4. a % SIZE[o] = 0
    BY <2>2, <2>3, AlignedToHalf
  <2>. QED BY <2>1, <2>4
<1>. HIDE DEF S
<1>3. \A k \in 0..i : k \in S
  BY <1>1, <1>2, UpTo, SizeFacts
<1>4. i - j \in S /\ i - (i - j) = j
  BY <1>3, SizeFacts
<1>. QED BY <1>4 DEF S

\* The next block of a size is aligned, and so is the one before.
LEMMA AlignedNext ==
  ASSUME NEW a \in Nat, NEW m \in Nat \ {0}, a % m = 0
  PROVE  (a + m) % m = 0 /\ (a >= m => (a - m) % m = 0)
<1>. DEFINE q == a \div m
<1>1. q \in Nat /\ a = m * q
  BY DivMod
<1>. HIDE DEF q
<1>2. a + m = m * (q + 1) + 0 /\ q + 1 \in Nat
  BY <1>1
<1>3. a >= m => a - m = m * (q - 1) + 0 /\ q - 1 \in Nat
  BY <1>1
<1>. QED BY <1>2, <1>3, DivModOf

\* Two aligned addresses of one size are equal or a block apart.
LEMMA AlignedApart ==
  ASSUME NEW a \in Nat, NEW b \in Nat, NEW m \in Nat \ {0}, a % m = 0, b % m = 0, a < b
  PROVE  a + m <= b
<1>. DEFINE q == a \div m
            r == b \div m
<1>1. q \in Nat /\ a = m * q /\ r \in Nat /\ b = m * r
  BY DivMod
<1>. HIDE DEF q, r
<1>2. q < r
  <2>. SUFFICES ASSUME q >= r PROVE FALSE
    BY <1>1
  <2>1. m * (q - r) >= 0
    BY <1>1
  <2>. QED BY <1>1, <2>1
<1>3. m * (r - q) >= m
  <2>1. r - q \in Nat /\ r - q >= 1
    BY <1>1, <1>2
  <2>2. PICK d \in Nat : d = (r - q) - 1
    BY <2>1
  <2>3. m * (d + 1) >= m
    <3>1. m * d >= 0
      OBVIOUS
    <3>. QED BY <3>1
  <2>. QED BY <1>1, <2>2, <2>3
<1>. QED BY <1>1, <1>3

\* The block of size m around a, its buddy, and the block of twice the size.
LEMMA Halves ==
  ASSUME NEW a \in Nat, NEW m \in Nat \ {0}
  PROVE  \A g, G : g = a - (a % m) /\ G = a - (a % (2 * m)) =>
           /\ g \in Nat /\ G \in Nat /\ g % m = 0 /\ G % (2 * m) = 0 /\ G % m = 0
           /\ g <= a /\ a < g + m
           /\ (g \div m) % 2 = 0 => G = g
           /\ (g \div m) % 2 # 0 => G = g - m
<1>1. SUFFICES ASSUME NEW g, NEW G, g = a - (a % m) /\ G = a - (a % (2 * m))
      PROVE  /\ g \in Nat /\ G \in Nat /\ g % m = 0 /\ G % (2 * m) = 0 /\ G % m = 0
             /\ g <= a /\ a < g + m
             /\ (g \div m) % 2 = 0 => G = g
             /\ (g \div m) % 2 # 0 => G = g - m
  OBVIOUS
<1>2. PICK q \in Nat, r \in 0..(m - 1) : q = a \div m /\ r = a % m /\ a = m * q + r
  BY DivMod
<1>3. PICK h \in Nat : q = 2 * h + (q % 2)
  BY EvenHalves
<1>4. g = m * q + 0 /\ g \in Nat
  BY <1>2, <1>1
<1>5. g \div m = q /\ g % m = 0
  BY <1>4, DivModOf
<1>6. PICK M \in Nat \ {0} : M = 2 * m
  OBVIOUS
<1>7. m * (2 * h) = M * h
  BY <1>6
<1>8. CASE q % 2 = 0
  <2>1. q = 2 * h
    BY <1>3, <1>8
  <2>2. a = M * h + r /\ r < M /\ r \in Nat
    <3>1. a = m * (2 * h) + r
      BY <1>2, <2>1
    <3>2. r < M /\ r \in Nat
      BY <1>6
    <3>. QED BY <1>7, <3>1, <3>2
  <2>3. a % M = r
    BY <1>6, <2>2, DivModOf
  <2>4. G = g
    BY <1>2, <1>1, <1>6, <2>3
  <2>5. G = M * h + 0
    BY <1>4, <1>6, <1>7, <2>1, <2>4
  <2>6. G % M = 0
    <3>1. (M * h + 0) % M = 0
      BY DivModOf
    <3>. QED BY <2>5, <3>1
  <2>. QED BY <1>2, <1>1, <1>6, <1>4, <1>5, <1>8, <2>4, <2>6
<1>9. CASE q % 2 # 0
  <2>1. q = 2 * h + 1
    BY <1>3, <1>9
  <2>2. a = M * h + (m + r) /\ m + r < M /\ m + r \in Nat
    BY <1>2, <1>6, <1>7, <2>1
  <2>3. a % M = m + r
    BY <1>6, <2>2, DivModOf
  <2>4. G = g - m
    BY <1>2, <1>1, <1>6, <2>3
  <2>5. G = M * h + 0 /\ G \in Nat
    BY <1>4, <1>6, <1>7, <2>1, <2>4
  <2>6. G % M = 0
    <3>1. (M * h + 0) % M = 0
      BY DivModOf
    <3>. QED BY <2>5, <3>1
  <2>7. G % m = 0
    BY <1>6, <2>5, <2>6, AlignedToHalf
  <2>8. g <= a /\ a < g + m
    BY <1>2, <1>1
  <2>9. (g \div m) % 2 # 0
    BY <1>5, <1>9
  <2>. QED BY <1>1, <1>4, <1>5, <1>6, <2>4, <2>5, <2>6, <2>7, <2>8, <2>9
<1>. QED BY <1>8, <1>9

LEMMA OtherHalf ==
  ASSUME NEW x \in Nat, NEW m \in Nat \ {0}, x % m = 0
  PROVE  /\ (x \div m) % 2 = 0 => (x + m) % m = 0 /\ ((x + m) \div m) % 2 # 0
         /\ (x \div m) % 2 # 0 => /\ x - m \in Nat /\ (x - m) % m = 0
                                  /\ ((x - m) \div m) % 2 = 0
<1>1. PICK q \in Nat : q = x \div m /\ x = m * q + 0
  BY DivMod
<1>2. ASSUME q % 2 = 0 PROVE (x + m) % m = 0 /\ ((x + m) \div m) % 2 # 0
  <2>1. (q + 1) % 2 # 0 /\ q + 1 \in Nat
    BY <1>2
  <2>2. x + m = m * (q + 1) + 0
    BY <1>1
  <2>3. (m * (q + 1) + 0) \div m = q + 1 /\ (m * (q + 1) + 0) % m = 0
    BY <2>1, DivModOf
  <2>. QED BY <2>1, <2>2, <2>3
<1>3. ASSUME q % 2 # 0
      PROVE  x - m \in Nat /\ (x - m) % m = 0 /\ ((x - m) \div m) % 2 = 0
  <2>1. (q - 1) % 2 = 0 /\ q - 1 \in Nat
    BY <1>3
  <2>2. x - m = m * (q - 1) + 0
    BY <1>1
  <2>3. (m * (q - 1) + 0) \div m = q - 1 /\ (m * (q - 1) + 0) % m = 0
    BY <2>1, DivModOf
  <2>4. m * (q - 1) + 0 \in Nat
    BY <2>1
  <2>. QED BY <2>1, <2>2, <2>3, <2>4
<1>. QED BY <1>1, <1>2, <1>3

\* The buddy of a block is the other half of the block of the next order, and the
\* block is its buddy's buddy.
LEMMA BuddyFacts ==
  ASSUME NEW a \in Nat, NEW j \in Order
  PROVE  /\ SIZE[j] \in Nat \ {0} /\ SIZE[j + 1] = 2 * SIZE[j]
         /\ get_big_page(a, j) \in Nat
         /\ buddy_get(get_big_page(a, j), j) \in Nat
         /\ get_big_page(a, j + 1) \in Nat
         /\ get_big_page(a, j) <= a /\ a < get_big_page(a, j) + SIZE[j]
         /\ get_big_page(a, j) % SIZE[j] = 0
         /\ buddy_get(get_big_page(a, j), j) % SIZE[j] = 0
         /\ get_big_page(a, j + 1) % (2 * SIZE[j]) = 0
         /\ \/ /\ get_big_page(a, j + 1) = get_big_page(a, j)
               /\ buddy_get(get_big_page(a, j), j) = get_big_page(a, j) + SIZE[j]
            \/ /\ get_big_page(a, j + 1) = buddy_get(get_big_page(a, j), j)
               /\ get_big_page(a, j) = buddy_get(get_big_page(a, j), j) + SIZE[j]
         /\ buddy_get(buddy_get(get_big_page(a, j), j), j) = get_big_page(a, j)
<1>1. PICK g, b, G, s : /\ g = get_big_page(a, j) /\ b = buddy_get(g, j)
                        /\ G = get_big_page(a, j + 1) /\ s = SIZE[j]
  OBVIOUS
<1>2. s \in Nat \ {0} /\ SIZE[j + 1] = 2 * s
  BY <1>1, SizeFacts DEF Order
<1>3. /\ g = a - (a % s) /\ G = a - (a % (2 * s))
      /\ b = IF (g \div s) % 2 = 0 THEN g + s ELSE g - s
  BY <1>1, <1>2 DEF get_big_page, buddy_get
<1>4. /\ g \in Nat /\ G \in Nat /\ g % s = 0 /\ G % (2 * s) = 0
      /\ g <= a /\ a < g + s
      /\ (g \div s) % 2 = 0 => G = g
      /\ (g \div s) % 2 # 0 => G = g - s
  <2>1. s \in Nat \ {0}
    BY <1>2
  <2>2. \A x, y : x = a - (a % s) /\ y = a - (a % (2 * s)) =>
           /\ x \in Nat /\ y \in Nat /\ x % s = 0 /\ y % (2 * s) = 0 /\ y % s = 0
           /\ x <= a /\ a < x + s
           /\ (x \div s) % 2 = 0 => y = x
           /\ (x \div s) % 2 # 0 => y = x - s
    BY <2>1, Halves, Zenon
  <2>. QED BY <1>3, <2>2, Zenon
<1>5. /\ b \in Nat /\ b % s = 0
      /\ g = IF (b \div s) % 2 = 0 THEN b + s ELSE b - s
  <2>1. s \in Nat \ {0} /\ g \in Nat /\ g % s = 0
    BY <1>2, <1>4
  <2>2. CASE (g \div s) % 2 = 0
    <3>1. b = g + s
      BY <1>3, <2>2
    <3>2. (g + s) % s = 0
      BY <2>1, <2>2, OtherHalf, Zenon
    <3>3. ((g + s) \div s) % 2 # 0
      BY <2>1, <2>2, OtherHalf, Zenon
    <3>. QED BY <2>1, <3>1, <3>2, <3>3
  <2>3. CASE (g \div s) % 2 # 0
    <3>1. b = g - s
      BY <1>3, <2>3
    <3>2. g - s \in Nat
      BY <2>1, <2>3, OtherHalf, Zenon
    <3>3. (g - s) % s = 0
      BY <2>1, <2>3, OtherHalf, Zenon
    <3>4. ((g - s) \div s) % 2 = 0
      BY <2>1, <2>3, OtherHalf, Zenon
    <3>. QED BY <2>1, <3>1, <3>2, <3>3, <3>4
  <2>. QED BY <2>2, <2>3
<1>6. buddy_get(b, j) = g
  BY <1>1, <1>5 DEF buddy_get
<1>7. (G = g /\ b = g + s) \/ (G = b /\ g = b + s)
  BY <1>2, <1>3, <1>4, <1>5
<1>. QED BY <1>1, <1>2, <1>4, <1>5, <1>6, <1>7

\* A block of its own order is where get_big_page finds it.
LEMMA OwnBlock ==
  ASSUME NEW a \in Nat, NEW o \in Order, a % SIZE[o] = 0
  PROVE  get_big_page(a, o) = a
BY DEF get_big_page

\* The two halves of a block are each other's buddy.
LEMMA BuddiesPair ==
  ASSUME NEW a \in Nat, NEW j \in Order, a % SIZE[j] = 0
  PROVE  /\ buddy_get(a, j) \in Nat /\ buddy_get(a, j) % SIZE[j] = 0 /\ buddy_get(a, j) # a
         /\ buddy_get(buddy_get(a, j), j) = a
         /\ a % SIZE[j + 1] = 0 => buddy_get(a, j) = a + SIZE[j]
<1>1. get_big_page(a, j) = a
  BY OwnBlock
<1>2. /\ SIZE[j] \in Nat \ {0} /\ SIZE[j + 1] = 2 * SIZE[j]
      /\ buddy_get(a, j) \in Nat /\ buddy_get(a, j) % SIZE[j] = 0
      /\ \/ get_big_page(a, j + 1) = a /\ buddy_get(a, j) = a + SIZE[j]
         \/ get_big_page(a, j + 1) = buddy_get(a, j) /\ a = buddy_get(a, j) + SIZE[j]
      /\ buddy_get(buddy_get(a, j), j) = a
  BY <1>1, BuddyFacts
<1>3. a % SIZE[j + 1] = 0 => get_big_page(a, j + 1) = a
  BY DEF get_big_page
<1>. QED BY <1>2, <1>3

\* os_memory_page_init: the alignment of an address is the order of a block.
LEMMA AlignBitsOf ==
  ASSUME NEW a \in Nat \ {0}, a < SIZE[BUDDY_ORDER_MAX]
  PROVE  AlignBits(a) \in Order /\ a % SIZE[AlignBits(a)] = 0
<1>. USE SizeFacts DEF Order
<1>1. \E o \in Order : a % SIZE[o] = 0 /\ a % SIZE[o + 1] # 0
  <2>. SUFFICES ASSUME \A o \in Order : a % SIZE[o] = 0 => a % SIZE[o + 1] = 0
                PROVE  FALSE
    OBVIOUS
  <2>. DEFINE S == {o \in 0..BUDDY_ORDER_UPLIMIT : a % SIZE[o] = 0}
  <2>1. 0 \in S
    OBVIOUS
  <2>2. \A o \in 0..(BUDDY_ORDER_MAX - 1) : o \in S => o + 1 \in S
    OBVIOUS
  <2>. HIDE DEF S
  <2>3. \A o \in 0..BUDDY_ORDER_MAX : o \in S
    BY <2>1, <2>2, UpTo
  <2>4. a % SIZE[BUDDY_ORDER_MAX] = 0
    BY <2>3 DEF S
  <2>5. a % SIZE[BUDDY_ORDER_MAX] = a
    <3>1. PICK m \in Nat \ {0} : m = SIZE[BUDDY_ORDER_MAX]
      OBVIOUS
    <3>2. (m * 0 + a) % m = a /\ m * 0 + a = a
      BY <3>1, DivModOf
    <3>. QED BY <3>1, <3>2
  <2>. QED BY <2>4, <2>5
<1>. QED BY <1>1 DEF AlignBits

\* The metadata and the pages fit in the memory.
LEMMA PageFacts ==
  /\ page_num \in Nat /\ page_memory_start \in Nat \ {0} /\ page_memory_end \in Nat
  /\ page_memory_end = page_memory_start + page_num
  /\ page_memory_end < SIZE[BUDDY_ORDER_MAX]
  /\ Page \subseteq Nat \ {0}
  /\ \A p \in Page : p < SIZE[BUDDY_ORDER_MAX]
<1>1. PICK L \in Nat \ {0}, M \in Nat \ {0} : L = mem_end - mem_start /\ M = MetaPerPage
  BY PageAssumption
<1>2. PICK n \in Nat : n = (L * M) \div (M + 1) /\ n = page_num
  <2>1. L * M \in Nat /\ M + 1 \in Nat \ {0}
    BY <1>1
  <2>2. (L * M) \div (M + 1) \in Nat
    BY <2>1, DivMod
  <2>. QED BY <1>1, <2>2 DEF page_num
<1>3. n * (M + 1) <= L * M
  <2>1. PICK T \in Nat, d \in Nat \ {0} : T = L * M /\ d = M + 1
    BY <1>1
  <2>2. T = d * (T \div d) + (T % d) /\ T % d \in 0..(d - 1)
    BY <2>1, DivMod
  <2>3. d * n <= T
    BY <1>2, <2>1, <2>2
  <2>. QED BY <1>1, <1>2, <2>1, <2>3
<1>4. PICK h \in Nat : h = (n + M - 1) \div M
  <2>1. n + M - 1 \in Nat
    BY <1>1
  <2>. QED BY <1>1, <2>1, DivMod
<1>5. M * h <= n + M - 1
  <2>1. PICK T \in Nat : T = n + M - 1
    BY <1>1
  <2>2. T = M * (T \div M) + (T % M) /\ T % M \in 0..(M - 1)
    BY <1>1, <2>1, DivMod
  <2>. QED BY <1>4, <2>1, <2>2
<1>6. n + h <= L
  <2>. SUFFICES ASSUME n + h >= L + 1 PROVE FALSE
    BY <1>1, <1>2, <1>4
  <2>1. M * (n + h) >= M * (L + 1)
    <3>1. PICK d \in Nat : n + h = (L + 1) + d
      <4>1. (n + h) - (L + 1) \in Nat /\ n + h = (L + 1) + ((n + h) - (L + 1))
        BY <1>1, <1>2, <1>4
      <4>. QED BY <4>1
    <3>2. M * ((L + 1) + d) = M * (L + 1) + M * d /\ M * d >= 0
      BY <1>1, <3>1
    <3>. QED BY <1>1, <3>1, <3>2
  <2>2. /\ M * (n + h) = M * n + M * h
        /\ M * (L + 1) = L * M + M
        /\ n * (M + 1) = M * n + n
    <3>1. M * (n + h) = M * n + M * h
      BY <1>1, <1>2, <1>4
    <3>2. M * (L + 1) = L * M + M
      BY <1>1, <1>2, <1>4
    <3>3. n * (M + 1) = M * n + n
      BY <1>1, <1>2, <1>4
    <3>. QED BY <3>1, <3>2, <3>3
  <2>3. PICK A \in Int, B \in Int, C \in Int : A = M * n /\ B = M * h /\ C = L * M
    BY <1>1, <1>2, <1>4
  <2>. QED BY <1>1, <1>2, <1>3, <1>4, <1>5, <2>1, <2>2, <2>3
<1>7. /\ page_memory_start = mem_start + h
      /\ page_memory_end = mem_start + h + n
  BY <1>1, <1>2, <1>4 DEF page_memory_start, page_memory_end
<1>8. /\ page_num \in Nat /\ page_memory_start \in Nat \ {0} /\ page_memory_end \in Nat
      /\ page_memory_end = page_memory_start + page_num
  BY <1>2, <1>4, <1>7, PageAssumption
<1>9. page_memory_end < SIZE[BUDDY_ORDER_MAX] /\ SIZE[BUDDY_ORDER_MAX] \in Nat
  <2>1. page_memory_end <= mem_end
    BY <1>1, <1>2, <1>4, <1>6, <1>7, PageAssumption
  <2>2. SIZE[BUDDY_ORDER_MAX] \in Nat
    BY SizeFacts
  <2>. QED BY <1>8, <2>1, <2>2, PageAssumption
<1>10. Page \subseteq Nat \ {0} /\ \A p \in Page : p < SIZE[BUDDY_ORDER_MAX]
  BY <1>8, <1>9 DEF Page
<1>. QED BY <1>8, <1>9, <1>10

-----------------------------------------------------------------------------
(***************************************************************************)
(* A tiling: blocks, given by their first pages and orders, that lie apart *)
(* from one another and fill the pages from the first one to c.            *)
(***************************************************************************)
Tiling(e, c) ==
  /\ DOMAIN e \subseteq Page /\ \A p \in DOMAIN e : e[p] \in Order
  /\ \A p \in DOMAIN e : p % SIZE[e[p]] = 0 /\ p + SIZE[e[p]] <= c
  /\ \A p, q \in DOMAIN e : p < q => p + SIZE[e[p]] <= q
  /\ \A x \in page_memory_start..(c - 1) :
       \E p \in DOMAIN e : p <= x /\ x < p + SIZE[e[p]]

\* The halves of a block start at pages that started none.
LEMMA RightHalvesAreNew ==
  ASSUME NEW e, NEW c \in Nat, Tiling(e, c), c <= page_memory_end,
         NEW a \in DOMAIN e, NEW i \in Order, e[a] = i, NEW o \in 0..i
  PROVE  /\ \A j \in o..i : SIZE[j] \in Nat \ {0} /\ SIZE[o] <= SIZE[j] /\ SIZE[j] <= SIZE[i]
         /\ \A j \in o..i : \A k \in o..i : j < k => 2 * SIZE[j] <= SIZE[k]
         /\ a \in Nat \ {0} /\ a \in Page /\ a % SIZE[i] = 0 /\ a + SIZE[i] <= c
         /\ o \in Nat /\ i \in Nat /\ o <= i
         /\ DOMAIN e \subseteq Page /\ DOMAIN e \subseteq Nat
         /\ \A p \in DOMAIN e \ {a} : p + SIZE[e[p]] <= a \/ a + SIZE[i] <= p
         /\ \A j \in o..(i - 1) :
              /\ a + SIZE[j] \in Page /\ a + SIZE[j] > a
              /\ (a + SIZE[j]) % SIZE[j] = 0
              /\ (a + SIZE[j]) + SIZE[j] <= a + SIZE[i]
              /\ a + SIZE[j] \notin DOMAIN e
              /\ \A k \in o..(i - 1) : RightHalf(a, j) = RightHalf(a, k) => j = k
<1>. USE DEF RightHalf, RightHalves
<1>1. /\ \A j \in o..i : SIZE[j] \in Nat \ {0} /\ SIZE[o] <= SIZE[j] /\ SIZE[j] <= SIZE[i]
      /\ \A j \in o..i : \A k \in o..i : j < k => 2 * SIZE[j] <= SIZE[k]
  <2>1. \A j \in o..i : \A k \in o..i : j <= k => SIZE[j] <= SIZE[k] /\ (j < k => 2 * SIZE[j] <= SIZE[k])
    <3>. SUFFICES ASSUME NEW j \in o..i, NEW k \in o..i, j <= k
                  PROVE  SIZE[j] <= SIZE[k] /\ (j < k => 2 * SIZE[j] <= SIZE[k])
      OBVIOUS
    <3>1. j \in 0..BUDDY_ORDER_UPLIMIT /\ k \in j..BUDDY_ORDER_UPLIMIT
      BY SizeFacts DEF Order
    <3>. QED BY <3>1, SizesGrow
  <2>2. \A j \in o..i : SIZE[j] \in Nat \ {0}
    BY SizeFacts DEF Order
  <2>3. o \in o..i /\ i \in o..i
    BY SizeFacts DEF Order
  <2>. QED BY <2>1, <2>2, <2>3
<1>2. /\ a \in Nat \ {0} /\ a \in Page /\ a % SIZE[i] = 0 /\ a + SIZE[i] <= c
      /\ o \in Nat /\ i \in Nat /\ o <= i
      /\ DOMAIN e \subseteq Page /\ DOMAIN e \subseteq Nat
  <2>1. o \in Nat /\ i \in Nat /\ o <= i
    BY SizeFacts DEF Order
  <2>2. DOMAIN e \subseteq Page /\ DOMAIN e \subseteq Nat \ {0}
    BY PageFacts DEF Tiling
  <2>3. a % SIZE[i] = 0 /\ a + SIZE[i] <= c
    BY DEF Tiling
  <2>. QED BY <2>1, <2>2, <2>3
<1>3. \A p \in DOMAIN e \ {a} : p + SIZE[e[p]] <= a \/ a + SIZE[i] <= p
  BY <1>2 DEF Tiling
<1>4. ASSUME NEW j \in o..(i - 1)
      PROVE  /\ a + SIZE[j] \in Page /\ a + SIZE[j] > a
             /\ (a + SIZE[j]) % SIZE[j] = 0
             /\ (a + SIZE[j]) + SIZE[j] <= a + SIZE[i]
             /\ a + SIZE[j] \notin DOMAIN e
  <2>1. SIZE[j] \in Nat \ {0} /\ 2 * SIZE[j] <= SIZE[i] /\ SIZE[i] \in Nat
    BY <1>1, <1>2
  <2>2. a % SIZE[j] = 0
    BY <1>2, SizeFacts, AlignedBelow DEF Order
  <2>3. (a + SIZE[j]) % SIZE[j] = 0
    BY <1>2, <2>1, <2>2, AlignedNext
  <2>4. a + SIZE[j] \in Page
    BY <1>2, <2>1, PageFacts DEF Page
  <2>5. a + SIZE[j] \notin DOMAIN e
    BY <1>2, <1>3, <2>1, SizeFacts DEF Tiling
  <2>. QED BY <1>2, <2>1, <2>3, <2>4, <2>5
<1>5. ASSUME NEW j \in o..(i - 1), NEW k \in o..(i - 1), RightHalf(a, j) = RightHalf(a, k)
      PROVE  j = k
  <2>1. SIZE[j] = SIZE[k] /\ SIZE[j] \in Nat \ {0}
    BY <1>1, <1>2, <1>5
  <2>. QED BY <1>1, <1>2, <2>1
<1>. QED BY <1>1, <1>2, <1>3, <1>4, <1>5

\* _alloc: the halves of a block, down to the order asked for, in its place.
LEMMA SplitTiling ==
  ASSUME NEW e, NEW c \in Nat, Tiling(e, c), c <= page_memory_end,
         NEW a \in DOMAIN e, NEW i \in Order, e[a] = i, NEW o \in 0..i,
         NEW f, DOMAIN f = DOMAIN e \cup {RightHalf(a, j) : j \in RightHalves(o, i)},
         f[a] = o, \A j \in RightHalves(o, i) : f[RightHalf(a, j)] = j,
         \A p \in DOMAIN e \ {a} : f[p] = e[p]
  PROVE  Tiling(f, c)
<1>. USE DEF RightHalf, RightHalves
<1>1. /\ \A j \in o..i : SIZE[j] \in Nat \ {0} /\ SIZE[o] <= SIZE[j] /\ SIZE[j] <= SIZE[i]
      /\ \A j \in o..i : \A k \in o..i : j < k => 2 * SIZE[j] <= SIZE[k]
  BY RightHalvesAreNew
<1>2. /\ a \in Nat \ {0} /\ a \in Page /\ a % SIZE[i] = 0 /\ a + SIZE[i] <= c
      /\ o \in Nat /\ i \in Nat /\ o <= i
      /\ DOMAIN e \subseteq Page /\ DOMAIN e \subseteq Nat
  BY RightHalvesAreNew
<1>3. \A p \in DOMAIN e \ {a} : p + SIZE[e[p]] <= a \/ a + SIZE[i] <= p
  BY RightHalvesAreNew
<1>4. \A j \in o..(i - 1) :
         /\ a + SIZE[j] \in Page /\ a + SIZE[j] > a
         /\ (a + SIZE[j]) % SIZE[j] = 0
         /\ (a + SIZE[j]) + SIZE[j] <= a + SIZE[i]
         /\ a + SIZE[j] \notin DOMAIN e
  BY RightHalvesAreNew
<1>5. ASSUME NEW x \in Nat, a <= x, x < a + SIZE[i]
      PROVE  \/ x < a + SIZE[o]
             \/ \E j \in o..(i - 1) : a + SIZE[j] <= x /\ x < (a + SIZE[j]) + SIZE[j]
  <2>. DEFINE T == {k \in o..i : x < a + SIZE[k]}
  <2>1. T \in SUBSET Nat /\ T # {}
    BY <1>2, <1>5
  <2>2. PICK k \in T : \A y \in T : k <= y
    <3>. HIDE DEF T
    <3>. QED BY <2>1, LeastNumber
  <2>3. CASE k = o
    BY <2>3
  <2>4. CASE k # o
    <3>1. k - 1 \in o..(i - 1) /\ k - 1 \notin T
      BY <1>2, <2>2, <2>4
    <3>2. PICK j \in o..(i - 1) : j = k - 1
      BY <3>1
    <3>3. SIZE[k] = 2 * SIZE[j] /\ SIZE[j] \in Nat
      <4>1. j \in Order /\ k = j + 1
        BY <1>2, <3>2, SizeFacts DEF Order
      <4>. QED BY <4>1, SizeFacts DEF Order
    <3>4. a + SIZE[j] <= x /\ x < a + SIZE[k]
      BY <1>2, <2>2, <3>1, <3>2, <3>3
    <3>. QED BY <1>2, <3>2, <3>3, <3>4
  <2>. QED BY <2>3, <2>4
<1>6. ASSUME NEW p \in DOMAIN f
      PROVE  \/ p = a /\ f[p] = o
             \/ p \in DOMAIN e \ {a} /\ f[p] = e[p]
             \/ \E j \in o..(i - 1) : p = a + SIZE[j] /\ f[p] = j
  OBVIOUS
<1>7. \A p \in DOMAIN f : p \in Page /\ f[p] \in Order
  <2>. SUFFICES ASSUME NEW p \in DOMAIN f PROVE p \in Page /\ f[p] \in Order
    OBVIOUS
  <2>1. \A j \in o..i : j \in Order
    BY <1>2, SizeFacts DEF Order
  <2>2. CASE p = a /\ f[p] = o
    BY <1>2, <2>1, <2>2
  <2>3. CASE p \in DOMAIN e \ {a} /\ f[p] = e[p]
    BY <2>3 DEF Tiling
  <2>4. CASE \E j \in o..(i - 1) : p = a + SIZE[j] /\ f[p] = j
    BY <1>2, <1>4, <2>1, <2>4
  <2>. QED BY <1>6, <2>2, <2>3, <2>4
<1>8. ASSUME NEW p \in DOMAIN f PROVE p % SIZE[f[p]] = 0 /\ p + SIZE[f[p]] <= c
  <2>1. CASE p = a /\ f[p] = o
    <3>1. a % SIZE[o] = 0
      BY <1>2, SizeFacts, AlignedBelow DEF Order
    <3>. QED BY <1>1, <1>2, <2>1, <3>1
  <2>2. CASE p \in DOMAIN e \ {a} /\ f[p] = e[p]
    BY <2>2 DEF Tiling
  <2>3. ASSUME NEW j \in o..(i - 1), p = a + SIZE[j], f[p] = j PROVE p % SIZE[f[p]] = 0 /\ p + SIZE[f[p]] <= c
    BY <1>1, <1>2, <1>4, <2>3
  <2>. QED BY <1>6, <2>1, <2>2, <2>3
<1>9. ASSUME NEW p \in DOMAIN f, NEW q \in DOMAIN f, p < q PROVE p + SIZE[f[p]] <= q
  <2>. DEFINE Inside(r) == a <= r /\ r + SIZE[f[r]] <= a + SIZE[i]
  <2>1. \A r \in DOMAIN f : (r \in DOMAIN e \ {a} /\ f[r] = e[r]) \/ Inside(r)
    BY <1>1, <1>2, <1>4, <1>6
  <2>2. SIZE[f[p]] \in Nat \ {0} /\ SIZE[f[q]] \in Nat \ {0} /\ SIZE[i] \in Nat /\ p \in Nat /\ q \in Nat
    BY <1>1, <1>2, <1>7, SizeFacts, PageFacts DEF Order
  <2>3. CASE p \in DOMAIN e \ {a} /\ f[p] = e[p]
    <3>1. CASE q \in DOMAIN e \ {a} /\ f[q] = e[q]
      BY <1>9, <2>3, <3>1 DEF Tiling
    <3>2. CASE Inside(q)
      BY <1>2, <1>3, <1>9, <2>2, <2>3, <3>2
    <3>. QED BY <2>1, <3>1, <3>2
  <2>4. CASE Inside(p)
    <3>1. CASE q \in DOMAIN e \ {a} /\ f[q] = e[q]
      <4>1. q + SIZE[f[q]] <= a \/ a + SIZE[i] <= q
        BY <1>3, <3>1
      <4>. QED BY <1>2, <1>9, <2>2, <2>4, <4>1
    <3>2. CASE q \notin DOMAIN e \ {a}
      <4>1. CASE q = a
        BY <1>2, <1>9, <2>2, <2>4, <4>1
      <4>2. CASE \E j \in o..(i - 1) : q = a + SIZE[j]
        <5>1. PICK j \in o..(i - 1) : q = a + SIZE[j]
          BY <4>2
        <5>2. CASE p = a /\ f[p] = o
          BY <1>1, <1>2, <5>1, <5>2
        <5>3. CASE \E k \in o..(i - 1) : p = a + SIZE[k] /\ f[p] = k
          <6>1. PICK k \in o..(i - 1) : p = a + SIZE[k] /\ f[p] = k
            BY <5>3
          <6>2. SIZE[k] < SIZE[j] /\ SIZE[k] \in Nat /\ SIZE[j] \in Nat
            BY <1>1, <1>2, <1>9, <5>1, <6>1
          <6>3. 2 * SIZE[k] <= SIZE[j]
            <7>1. k < j
              <8>. SUFFICES ASSUME ~(k < j) PROVE FALSE
                OBVIOUS
              <8>1. j = k \/ j < k
                BY <1>2
              <8>2. j < k => 2 * SIZE[j] <= SIZE[k]
                BY <1>1, <1>2
              <8>. QED BY <6>2, <8>1, <8>2
            <7>. QED BY <1>1, <1>2, <7>1
          <6>. QED BY <1>2, <5>1, <6>1, <6>2, <6>3
        <5>4. p \in DOMAIN e \ {a} /\ f[p] = e[p] => FALSE
          BY <1>2, <1>3, <2>2, <2>4
        <5>. QED BY <1>6, <5>2, <5>3, <5>4
      <4>. QED BY <1>6, <3>2, <4>1, <4>2
    <3>. QED BY <1>6, <3>1, <3>2
  <2>. QED BY <2>1, <2>3, <2>4
<1>10. ASSUME NEW x \in page_memory_start..(c - 1)
       PROVE  \E p \in DOMAIN f : p <= x /\ x < p + SIZE[f[p]]
  <2>1. x \in Nat
    BY PageFacts
  <2>2. PICK p \in DOMAIN e : p <= x /\ x < p + SIZE[e[p]]
    BY DEF Tiling
  <2>3. CASE p # a
    <3>1. p \in DOMAIN f /\ f[p] = e[p]
      BY <2>3
    <3>. QED BY <2>2, <3>1
  <2>4. CASE p = a
    <3>1. a <= x /\ x < a + SIZE[i]
      BY <2>2, <2>4
    <3>2. CASE x < a + SIZE[o]
      <4>1. a \in DOMAIN f /\ f[a] = o
        OBVIOUS
      <4>. QED BY <3>1, <3>2, <4>1
    <3>3. ASSUME NEW j \in o..(i - 1), a + SIZE[j] <= x /\ x < (a + SIZE[j]) + SIZE[j]
          PROVE  \E r \in DOMAIN f : r <= x /\ x < r + SIZE[f[r]]
      <4>1. a + SIZE[j] \in DOMAIN f /\ f[a + SIZE[j]] = j
        OBVIOUS
      <4>. QED BY <3>3, <4>1
    <3>. QED BY <1>5, <2>1, <3>1, <3>2, <3>3
  <2>. QED BY <2>3, <2>4
<1>. QED BY <1>7, <1>8, <1>9, <1>10 DEF Tiling

\* Two buddies become one block.
LEMMA MergeOne ==
  ASSUME NEW e, NEW c \in Nat, Tiling(e, c), c <= page_memory_end,
         NEW k \in Order, k < BUDDY_ORDER_MAX,
         NEW x \in DOMAIN e, e[x] = k, NEW b \in DOMAIN e, e[b] = k,
         NEW y \in Nat, (y = x /\ b = x + SIZE[k]) \/ (y = b /\ x = b + SIZE[k]),
         y % (2 * SIZE[k]) = 0,
         NEW f, DOMAIN f = (DOMAIN e \ {x, b}) \cup {y},
         f[y] = k + 1, \A p \in DOMAIN e \ {x, b} : f[p] = e[p]
  PROVE  Tiling(f, c)
<1>1. PICK s \in Nat \ {0} : s = SIZE[k] /\ SIZE[k + 1] = 2 * s /\ k + 1 \in Order
  BY SizeFacts DEF Order
<1>2. DOMAIN e \subseteq Page /\ DOMAIN e \subseteq Nat \ {0}
  BY PageFacts DEF Tiling
<1>3. y + (2 * s) <= c
  BY <1>1, <1>2 DEF Tiling
<1>4. \A p \in DOMAIN e \ {x, b} : p + SIZE[e[p]] <= y \/ y + (2 * s) <= p
  <2>. SUFFICES ASSUME NEW p \in DOMAIN e \ {x, b}
                PROVE  p + SIZE[e[p]] <= y \/ y + (2 * s) <= p
    OBVIOUS
  <2>1. /\ p + SIZE[e[p]] <= x \/ x + s <= p
        /\ p + SIZE[e[p]] <= b \/ b + s <= p
    BY <1>1, <1>2 DEF Tiling
  <2>2. SIZE[e[p]] \in Nat \ {0} /\ p \in Nat
    BY <1>2, SizeFacts DEF Tiling, Order
  <2>. QED BY <1>1, <1>2, <2>1, <2>2
<1>5. \A p \in DOMAIN f : (p = y /\ f[p] = k + 1) \/ (p \in DOMAIN e \ {x, b} /\ f[p] = e[p])
  OBVIOUS
<1>6. \A p \in DOMAIN f : p \in Page /\ f[p] \in Order
  BY <1>1, <1>2, <1>5 DEF Tiling
<1>7. \A p \in DOMAIN f : p % SIZE[f[p]] = 0 /\ p + SIZE[f[p]] <= c
  BY <1>1, <1>3, <1>5 DEF Tiling
<1>8. ASSUME NEW p \in DOMAIN f, NEW q \in DOMAIN f, p < q PROVE p + SIZE[f[p]] <= q
  <2>1. SIZE[f[p]] \in Nat \ {0} /\ SIZE[f[q]] \in Nat \ {0} /\ p \in Nat /\ q \in Nat
    BY <1>2, <1>6, SizeFacts DEF Order
  <2>2. CASE p = y
    BY <1>1, <1>4, <1>5, <1>8, <2>1, <2>2
  <2>3. CASE q = y
    BY <1>1, <1>4, <1>5, <1>8, <2>1, <2>3
  <2>4. CASE p # y /\ q # y
    BY <1>5, <1>8, <2>4 DEF Tiling
  <2>. QED BY <2>2, <2>3, <2>4
<1>9. ASSUME NEW z \in page_memory_start..(c - 1)
      PROVE  \E p \in DOMAIN f : p <= z /\ z < p + SIZE[f[p]]
  <2>1. PICK p \in DOMAIN e : p <= z /\ z < p + SIZE[e[p]]
    BY DEF Tiling
  <2>2. CASE p \in {x, b}
    <3>1. y \in DOMAIN f /\ y <= z /\ z < y + SIZE[f[y]]
      <4>1. z \in Nat /\ x \in Nat /\ b \in Nat
        BY <1>2, PageFacts
      <4>. QED BY <1>1, <2>1, <2>2, <4>1
    <3>. QED BY <3>1
  <2>3. CASE p \notin {x, b}
    BY <2>1, <2>3
  <2>. QED BY <2>2, <2>3
<1>. QED BY <1>6, <1>7, <1>8, <1>9 DEF Tiling

\* The buddies that a block of order o at a meets on its way to order k.
BuddiesOf(a, o, k) == {buddy_get(get_big_page(a, j), j) : j \in o..(k - 1)}

\* _free: the block at a merges with one buddy after another, up to order i.
LEMMA MergeTiling ==
  ASSUME NEW e, NEW c \in Nat, Tiling(e, c), c <= page_memory_end,
         NEW a \in DOMAIN e, NEW o \in Order, e[a] = o,
         NEW i \in o..BUDDY_ORDER_MAX,
         \A j \in o..(i - 1) : /\ buddy_get(get_big_page(a, j), j) \in DOMAIN e \ {a}
                               /\ e[buddy_get(get_big_page(a, j), j)] = j,
         NEW f, DOMAIN f = (DOMAIN e \ ({a} \cup BuddiesOf(a, o, i))) \cup {get_big_page(a, i)},
         f[get_big_page(a, i)] = i,
         \A p \in DOMAIN f \ {get_big_page(a, i)} : f[p] = e[p]
  PROVE  Tiling(f, c) /\ get_big_page(a, i) \in {a} \cup BuddiesOf(a, o, i)
<1>. DEFINE g(k) == get_big_page(a, k)
            b(k) == buddy_get(get_big_page(a, k), k)
            D(k) == (DOMAIN e \ ({a} \cup BuddiesOf(a, o, k))) \cup {g(k)}
            Merged(h, k) == DOMAIN h = D(k) /\ h[g(k)] = k /\ \A p \in D(k) \ {g(k)} : h[p] = e[p]
            S == {k \in o..i : /\ g(k) \in {a} \cup BuddiesOf(a, o, k)
                               /\ \A h : Merged(h, k) => Tiling(h, c)}
<1>1. /\ o \in Nat /\ i \in Nat /\ o <= i /\ \A j \in o..i : j \in Order
      /\ \A j \in o..(i - 1) : j < BUDDY_ORDER_MAX /\ j + 1 \in o..i
      /\ BUDDY_ORDER_MAX \in Nat
  BY SizeFacts DEF Order
<1>2. a \in Nat /\ g(o) = a
  <2>1. a \in Nat /\ a % SIZE[o] = 0
    BY PageFacts DEF Tiling
  <2>. QED BY <2>1, OwnBlock
<1>3. o \in S
  <2>1. BuddiesOf(a, o, o) = {}
    BY <1>1 DEF BuddiesOf
  <2>2. D(o) = DOMAIN e
    BY <1>2, <2>1
  <2>3. ASSUME NEW h, Merged(h, o) PROVE Tiling(h, c)
    <3>1. DOMAIN h = DOMAIN e /\ \A p \in DOMAIN e : h[p] = e[p]
      BY <1>2, <2>2, <2>3
    <3>. QED BY <3>1 DEF Tiling
  <2>. QED BY <1>1, <1>2, <2>1, <2>3
<1>4. ASSUME NEW k \in o..(i - 1), k \in S PROVE k + 1 \in S
  <2>1. k \in Order /\ k < BUDDY_ORDER_MAX /\ k + 1 \in o..i
    BY <1>1
  <2>2. PICK s : s = SIZE[k]
    OBVIOUS
  <2>3. /\ s \in Nat \ {0} /\ SIZE[k + 1] = 2 * s
        /\ g(k) \in Nat /\ b(k) \in Nat /\ g(k + 1) \in Nat
        /\ g(k + 1) % (2 * s) = 0
        /\ (g(k + 1) = g(k) /\ b(k) = g(k) + s) \/ (g(k + 1) = b(k) /\ g(k) = b(k) + s)
    <3>1. a \in Nat /\ k \in Order
      BY <1>2, <2>1
    <3>2. /\ SIZE[k] \in Nat \ {0} /\ SIZE[k + 1] = 2 * SIZE[k]
          /\ get_big_page(a, k) \in Nat
          /\ buddy_get(get_big_page(a, k), k) \in Nat
          /\ get_big_page(a, k + 1) \in Nat
          /\ get_big_page(a, k + 1) % (2 * SIZE[k]) = 0
          /\ \/ /\ get_big_page(a, k + 1) = get_big_page(a, k)
                /\ buddy_get(get_big_page(a, k), k) = get_big_page(a, k) + SIZE[k]
             \/ /\ get_big_page(a, k + 1) = buddy_get(get_big_page(a, k), k)
                /\ get_big_page(a, k) = buddy_get(get_big_page(a, k), k) + SIZE[k]
      BY <3>1, BuddyFacts
    <3>. QED BY <2>2, <3>2
  <2>4. b(k) \in DOMAIN e /\ b(k) # a /\ e[b(k)] = k
    OBVIOUS
  <2>5. BuddiesOf(a, o, k + 1) = BuddiesOf(a, o, k) \cup {b(k)}
    <3>1. o..((k + 1) - 1) = (o..(k - 1)) \cup {k}
      BY <1>1
    <3>. QED BY <3>1 DEF BuddiesOf
  <2>6. b(k) \notin BuddiesOf(a, o, k)
    <3>1. \A j \in o..(k - 1) : e[b(j)] = j /\ j # k
      BY <1>1
    <3>. QED BY <2>4, <3>1 DEF BuddiesOf
  <2>7. b(k) # g(k)
    BY <2>3
  <2>8. g(k) \in {a} \cup BuddiesOf(a, o, k)
    BY <1>4
  <2>9. g(k + 1) \in {a} \cup BuddiesOf(a, o, k + 1)
    BY <2>3, <2>5, <2>8
  <2>10. D(k + 1) = (D(k) \ {g(k), b(k)}) \cup {g(k + 1)}
    BY <2>4, <2>5, <2>6, <2>7, <2>8
  <2>11. ASSUME NEW h, Merged(h, k + 1) PROVE Tiling(h, c)
    <3>1. PICK d : d = [p \in D(k) |-> IF p = g(k) THEN k ELSE e[p]]
      OBVIOUS
    <3>2. Merged(d, k)
      BY <3>1
    <3>3. Tiling(d, c)
      BY <1>4, <3>2
    <3>4. b(k) \in D(k) /\ d[b(k)] = k /\ g(k) \in D(k) /\ d[g(k)] = k /\ DOMAIN d = D(k)
      BY <2>4, <2>6, <2>7, <3>1
    <3>5. \A p \in D(k) \ {g(k), b(k)} : p # g(k + 1) /\ h[p] = d[p]
      BY <2>3, <2>10, <2>11, <3>1
    <3>6. DOMAIN h = (DOMAIN d \ {g(k), b(k)}) \cup {g(k + 1)} /\ h[g(k + 1)] = k + 1
      BY <2>10, <2>11, <3>4
    <3>. HIDE DEF g, b, D, Merged, S
    <3>7. PICK x, y, z : x = g(k) /\ y = b(k) /\ z = g(k + 1)
      OBVIOUS
    <3>8. /\ x \in DOMAIN d /\ d[x] = k /\ y \in DOMAIN d /\ d[y] = k /\ z \in Nat
          /\ (z = x /\ y = x + SIZE[k]) \/ (z = y /\ x = y + SIZE[k])
          /\ z % (2 * SIZE[k]) = 0
      BY <2>2, <2>3, <3>4, <3>7
    <3>9. /\ DOMAIN h = (DOMAIN d \ {x, y}) \cup {z} /\ h[z] = k + 1
          /\ \A p \in DOMAIN d \ {x, y} : h[p] = d[p]
      BY <3>4, <3>5, <3>6, <3>7
    <3>. QED BY <2>1, <3>3, <3>8, <3>9, MergeOne
  <2>. QED BY <2>1, <2>9, <2>11
<1>5. i \in S
  <2>. HIDE DEF S
  <2>1. \A k \in o..i : k \in S
    BY <1>1, <1>3, <1>4, UpTo
  <2>. QED BY <1>1, <2>1
<1>6. Merged(f, i)
  OBVIOUS
<1>. QED BY <1>5, <1>6

-----------------------------------------------------------------------------
(***************************************************************************)
(* Lists.                                                                  *)
(***************************************************************************)

LEMMA ContainsIsElement ==
  ASSUME NEW S, NEW l \in Seq(S), NEW x
  PROVE  Contains(l, x) <=> x \in ToSet(l)
BY DEF Contains, ToSet

LEMMA Prepended ==
  ASSUME NEW S, NEW l \in Seq(S), NEW e \in S
  PROVE  /\ <<e>> \o l \in Seq(S)
         /\ \A x : Contains(<<e>> \o l, x) <=> Contains(l, x) \/ x = e
         /\ IsInjective(l) /\ ~Contains(l, e) => IsInjective(<<e>> \o l)
<1>1. PICK r : r = <<e>> \o l
  OBVIOUS
<1>2. r \in Seq(S) /\ ToSet(r) = ToSet(l) \cup {e}
      /\ (IsInjective(l) /\ e \notin ToSet(l) => IsInjective(r))
  BY <1>1, PrependAddsOne
<1>3. \A x : Contains(r, x) <=> Contains(l, x) \/ x = e
  BY <1>2, ContainsIsElement
<1>. QED BY <1>1, <1>2, <1>3, ContainsIsElement

LEMMA HeadTakenOut ==
  ASSUME NEW S, NEW l \in Seq(S), l # <<>>, IsInjective(l)
  PROVE  /\ Head(l) \in S
         /\ Tail(l) \in Seq(S)
         /\ IsInjective(Tail(l))
         /\ Contains(l, Head(l))
         /\ \A x : Contains(Tail(l), x) <=> Contains(l, x) /\ x # Head(l)
         /\ Len(l) \in Nat \ {0} /\ Len(Tail(l)) = Len(l) - 1
<1>1. /\ Tail(l) \in Seq(S)
      /\ Len(Tail(l)) = Len(l) - 1
      /\ \A i \in 1..(Len(l) - 1) : Tail(l)[i] = l[i + 1]
      /\ DOMAIN Tail(l) = 1..(Len(l) - 1)
      /\ DOMAIN l = 1..Len(l)
      /\ Len(l) \in Nat /\ Len(l) > 0
      /\ Head(l) = l[1] /\ Head(l) \in S
  OBVIOUS
<1>2. IsInjective(Tail(l))
  BY <1>1 DEF IsInjective
<1>3. Contains(l, Head(l))
  BY <1>1 DEF Contains
<1>4. \A x : Contains(Tail(l), x) => Contains(l, x) /\ x # Head(l)
  BY <1>1 DEF Contains, IsInjective
<1>5. ASSUME NEW x, Contains(l, x), x # Head(l) PROVE Contains(Tail(l), x)
  <2>1. PICK i \in 1..Len(l) : l[i] = x
    BY <1>5 DEF Contains
  <2>2. i # 1
    BY <1>1, <1>5, <2>1
  <2>3. i - 1 \in 1..(Len(l) - 1) /\ Tail(l)[i - 1] = x
    BY <1>1, <2>1, <2>2
  <2>. QED BY <1>1, <2>3 DEF Contains
<1>. QED BY <1>1, <1>2, <1>3, <1>4, <1>5

\* page_remove takes out the page and nothing else.
LEMMA PageRemoved ==
  ASSUME NEW S, NEW l \in Seq(S), IsInjective(l), NEW e
  PROVE  /\ page_remove(l, e) \in Seq(S)
         /\ IsInjective(page_remove(l, e)) /\ Len(page_remove(l, e)) <= Len(l)
         /\ \A x : Contains(page_remove(l, e), x) <=> Contains(l, x) /\ x # e
<1>1. CASE ~Contains(l, e)
  <2>1. page_remove(l, e) = l
    BY <1>1 DEF page_remove
  <2>. QED BY <1>1, <2>1
<1>2. CASE Contains(l, e)
  <2>1. PICK i : i = CHOOSE k \in DOMAIN l : l[k] = e
    OBVIOUS
  <2>2. \E k \in DOMAIN l : l[k] = e
    <3>1. DOMAIN l = 1..Len(l)
      OBVIOUS
    <3>. QED BY <1>2, <3>1 DEF Contains
  <2>3. i \in DOMAIN l /\ l[i] = e
    BY <2>1, <2>2
  <2>4. PICK r : r = RemoveAt(l, i)
    OBVIOUS
  <2>5. Len(r) = Len(l) - 1 /\ Len(l) \in Nat
    <3>1. i \in DOMAIN l
      BY <2>3
    <3>2. Len(RemoveAt(l, i)) = Len(l) - 1
      BY <3>1, RemoveAtTakesOut, Zenon
    <3>. QED BY <2>4, <3>2
  <2>6. page_remove(l, e) = r
    BY <1>2, <2>1, <2>4 DEF page_remove
  <2>7. /\ r \in Seq(S) /\ IsInjective(r)
        /\ {r[j] : j \in DOMAIN r} = {l[j] : j \in DOMAIN l} \ {l[i]}
    <3>1. i \in DOMAIN l
      BY <2>3
    <3>2. RemoveAt(l, i) \in Seq(S) /\ IsInjective(RemoveAt(l, i))
      BY <3>1, RemoveAtTakesOut
    <3>3. {RemoveAt(l, i)[j] : j \in DOMAIN RemoveAt(l, i)} = {l[j] : j \in DOMAIN l} \ {l[i]}
      BY <3>1, RemoveAtTakesOut, Zenon
    <3>. QED BY <2>4, <3>2, <3>3, Zenon
  <2>8. ToSet(r) = ToSet(l) \ {e}
    BY <2>3, <2>7, Zenon DEF ToSet
  <2>9. \A x : Contains(r, x) <=> Contains(l, x) /\ x # e
    BY <2>7, <2>8, ContainsIsElement
  <2>. QED BY <2>6, <2>7, <2>9, <2>5
<1>. QED BY <1>1, <1>2

-----------------------------------------------------------------------------
(***************************************************************************)
(* The buddy system.  Its blocks, free or given, tile the memory; lists    *)
(* and metadata agree; no two halves of a block are free; the count is     *)
(* right.                                                                  *)
(***************************************************************************)
Starts == {p \in Page : IsFree(p)} \cup given
Extents == [p \in Starts |-> IF p \in given THEN order_allocated[p] ELSE order[p]]

GivenIsNotFree == \A p \in given : ~IsFree(p)
NoFreeHalves == \A p \in Page : IsFree(p) => ~Merges(p, order[p])

BlocksInv ==
  /\ PageTypeOK /\ ListsMatchOrders /\ GivenIsNotFree /\ NoFreeHalves /\ PagesCounted
  /\ cur_page_addr <= page_memory_end /\ Tiling(Extents, cur_page_addr)

\* The blocks of a tiling lie in the pages, and each page in one of them.
LEMMA TilingParts ==
  ASSUME NEW e, NEW c \in Nat, Tiling(e, c), c <= page_memory_end
  PROVE  /\ \A p \in DOMAIN e : Block(p, e[p]) \subseteq page_memory_start..(c - 1)
         /\ page_memory_start..(c - 1) \subseteq Page
         /\ \A p, q \in DOMAIN e : p # q => Block(p, e[p]) \cap Block(q, e[q]) = {}
         /\ \A x \in page_memory_start..(c - 1) : \E p \in DOMAIN e : x \in Block(p, e[p])
<1>1. \A p \in DOMAIN e : p \in Page /\ p \in Nat /\ SIZE[e[p]] \in Nat \ {0} /\ e[p] \in Order
  <2>1. \A p \in DOMAIN e : p \in Page /\ e[p] \in Order
    BY DEF Tiling
  <2>2. \A k \in Order : SIZE[k] \in Nat \ {0}
    BY SizeFacts DEF Order
  <2>. QED BY <2>1, <2>2, PageFacts
<1>2. page_memory_start..(c - 1) \subseteq Page
  BY PageFacts DEF Page
<1>3. \A p \in DOMAIN e : Block(p, e[p]) \subseteq page_memory_start..(c - 1)
  <2>. SUFFICES ASSUME NEW p \in DOMAIN e PROVE p..(p + SIZE[e[p]] - 1) \subseteq page_memory_start..(c - 1)
    BY DEF Block
  <2>1. p + SIZE[e[p]] <= c /\ page_memory_start <= p
    BY <1>1 DEF Tiling, Page
  <2>. QED BY <1>1, <2>1, PageFacts
<1>4. ASSUME NEW p \in DOMAIN e, NEW q \in DOMAIN e, p < q PROVE Block(p, e[p]) \cap Block(q, e[q]) = {}
  <2>1. p + SIZE[e[p]] <= q
    BY <1>4 DEF Tiling
  <2>2. (p..(p + SIZE[e[p]] - 1)) \cap (q..(q + SIZE[e[q]] - 1)) = {}
    BY <1>1, <2>1
  <2>. QED BY <2>2 DEF Block
<1>5. ASSUME NEW p \in DOMAIN e, NEW q \in DOMAIN e, p # q PROVE Block(p, e[p]) \cap Block(q, e[q]) = {}
  <2>1. p < q \/ q < p
    BY <1>1, <1>5
  <2>2. CASE p < q
    BY <1>4, <2>2
  <2>3. CASE q < p
    <3>1. Block(q, e[q]) \cap Block(p, e[p]) = {}
      BY <1>4, <2>3
    <3>. QED BY <3>1
  <2>. QED BY <2>1, <2>2, <2>3
<1>6. ASSUME NEW x \in page_memory_start..(c - 1) PROVE \E p \in DOMAIN e : x \in Block(p, e[p])
  <2>1. PICK p \in DOMAIN e : p <= x /\ x < p + SIZE[e[p]]
    BY DEF Tiling
  <2>2. x \in p..(p + SIZE[e[p]] - 1)
    BY <1>1, <2>1, PageFacts
  <2>. QED BY <2>2 DEF Block
<1>. QED BY <1>2, <1>3, <1>5, <1>6

\* The pages of some of the blocks are those of none of the others.
LEMMA TilingRest ==
  ASSUME NEW e, NEW c \in Nat, Tiling(e, c), c <= page_memory_end, NEW F \in SUBSET DOMAIN e
  PROVE  UNION {Block(p, e[p]) : p \in F} =
           (page_memory_start..(c - 1)) \ UNION {Block(p, e[p]) : p \in DOMAIN e \ F}
<1>1. \A p \in DOMAIN e : Block(p, e[p]) \subseteq page_memory_start..(c - 1)
  BY TilingParts, Zenon
<1>2. \A p, q \in DOMAIN e : p # q => Block(p, e[p]) \cap Block(q, e[q]) = {}
  BY TilingParts, Zenon
<1>3. \A x \in page_memory_start..(c - 1) : \E p \in DOMAIN e : x \in Block(p, e[p])
  BY TilingParts, Zenon
<1>4. ASSUME NEW x, x \in UNION {Block(p, e[p]) : p \in F}
      PROVE  x \in (page_memory_start..(c - 1)) \ UNION {Block(p, e[p]) : p \in DOMAIN e \ F}
  <2>1. PICK p \in F : x \in Block(p, e[p])
    BY <1>4
  <2>2. \A q \in DOMAIN e \ F : x \notin Block(q, e[q])
    BY <1>2, <2>1
  <2>. QED BY <1>1, <2>1, <2>2
<1>5. ASSUME NEW x \in (page_memory_start..(c - 1)) \ UNION {Block(p, e[p]) : p \in DOMAIN e \ F}
      PROVE  x \in UNION {Block(p, e[p]) : p \in F}
  BY <1>3
<1>. QED BY <1>4, <1>5

\* A block is as many pages as its size.
LEMMA BlockCount ==
  ASSUME NEW a \in Nat, NEW o \in Order
  PROVE  IsFiniteSet(Block(a, o)) /\ Cardinality(Block(a, o)) = SIZE[o]
<1>1. SIZE[o] \in Nat \ {0}
  BY SizeFacts DEF Order
<1>2. a \in Int /\ a + SIZE[o] - 1 \in Int /\ ~(a > a + SIZE[o] - 1)
  BY <1>1
<1>3. /\ IsFiniteSet(a..(a + SIZE[o] - 1))
      /\ Cardinality(a..(a + SIZE[o] - 1)) = (a + SIZE[o] - 1) - a + 1
  BY <1>2, FS_Interval
<1>. QED BY <1>1, <1>3 DEF Block

LEMMA PagesFinite ==
  /\ IsFiniteSet(Page) /\ Cardinality(Page) = page_num
  /\ \A X \in SUBSET Page : /\ IsFiniteSet(X) /\ Cardinality(X) \in Nat
                            /\ Cardinality(X) <= page_num /\ Cardinality(X) < WordSize
<1>1. page_memory_start \in Int /\ page_memory_end - 1 \in Int
  BY PageFacts
<1>2. IsFiniteSet(Page) /\ Cardinality(Page) = page_num
  <2>1. PICK l \in Int, h \in Int : l = page_memory_start /\ h = page_memory_end - 1
    BY <1>1
  <2>2. IsFiniteSet(l..h) /\ Cardinality(l..h) = IF l > h THEN 0 ELSE h - l + 1
    BY FS_Interval
  <2>. QED BY <2>1, <2>2, PageFacts DEF Page
<1>3. ASSUME NEW X \in SUBSET Page
      PROVE  /\ IsFiniteSet(X) /\ Cardinality(X) \in Nat
             /\ Cardinality(X) <= page_num /\ Cardinality(X) < WordSize
  <2>1. IsFiniteSet(X) /\ Cardinality(X) <= page_num
    BY <1>2, FS_Subset
  <2>2. Cardinality(X) \in Nat
    BY <2>1, FS_CardinalityType
  <2>. QED BY <2>1, <2>2, PageFacts, PageAssumption
<1>. QED BY <1>2, <1>3

\* Pages taken are counted, and pages given back are.
LEMMA CountStep ==
  ASSUME NEW X \in SUBSET Page, NEW a \in Nat, NEW o \in Order, Block(a, o) \subseteq Page
  PROVE  /\ X \cap Block(a, o) = {} =>
              Cardinality(X \cup Block(a, o)) = (Cardinality(X) + SIZE[o]) % WordSize
         /\ Block(a, o) \subseteq X =>
              Cardinality(X \ Block(a, o)) = (Cardinality(X) + WordSize - SIZE[o]) % WordSize
<1>1. /\ IsFiniteSet(Block(a, o)) /\ Cardinality(Block(a, o)) = SIZE[o]
      /\ IsFiniteSet(X) /\ Cardinality(X) \in Nat /\ Cardinality(X) < WordSize
      /\ SIZE[o] \in Nat \ {0} /\ WordSize \in Nat \ {0}
  BY BlockCount, PagesFinite, SizeFacts, PageAssumption DEF Order
<1>2. ASSUME X \cap Block(a, o) = {}
      PROVE  Cardinality(X \cup Block(a, o)) = (Cardinality(X) + SIZE[o]) % WordSize
  <2>1. Cardinality(X \cup Block(a, o)) = Cardinality(X) + SIZE[o]
    <3>1. PICK B : B = Block(a, o)
      OBVIOUS
    <3>2. Cardinality(X \cup B) = Cardinality(X) + Cardinality(B) - Cardinality(X \cap B)
      BY <1>1, <3>1, FS_Union, Zenon
    <3>3. Cardinality(X \cap B) = 0
      BY <1>2, <3>1, FS_EmptySet
    <3>. QED BY <1>1, <3>1, <3>2, <3>3
  <2>2. Cardinality(X \cup Block(a, o)) \in Nat /\ Cardinality(X \cup Block(a, o)) < WordSize
    BY PagesFinite
  <2>3. PICK n \in Nat : n = Cardinality(X \cup Block(a, o))
    BY <2>2
  <2>4. (WordSize * 0 + n) % WordSize = n /\ WordSize * 0 + n = n
    BY <1>1, <2>2, <2>3, DivModOf
  <2>. QED BY <2>1, <2>3, <2>4
<1>3. ASSUME Block(a, o) \subseteq X
      PROVE  Cardinality(X \ Block(a, o)) = (Cardinality(X) + WordSize - SIZE[o]) % WordSize
  <2>1. X \cap Block(a, o) = Block(a, o)
    BY <1>3
  <2>2. Cardinality(X \ Block(a, o)) = Cardinality(X) - SIZE[o]
    <3>1. PICK B : B = Block(a, o)
      OBVIOUS
    <3>2. Cardinality(X \ B) = Cardinality(X) - Cardinality(X \cap B)
      BY <1>1, FS_Difference, Zenon
    <3>. QED BY <1>1, <2>1, <3>1, <3>2
  <2>3. PICK n \in Nat : n = Cardinality(X \ Block(a, o)) /\ n < WordSize
    BY PagesFinite
  <2>4. PICK k \in Nat : k = 1
    OBVIOUS
  <2>5. (WordSize * k + n) % WordSize = n
    BY <1>1, <2>3, DivModOf
  <2>6. WordSize * k + n = Cardinality(X) + WordSize - SIZE[o]
    BY <1>1, <2>2, <2>3, <2>4
  <2>. QED BY <2>3, <2>5, <2>6
<1>. QED BY <1>2, <1>3

\* Free blocks and given blocks, as parts of the tiling.
Tiled ==
  /\ PageTypeOK /\ GivenIsNotFree
  /\ cur_page_addr <= page_memory_end /\ Tiling(Extents, cur_page_addr)

FreeIsRest ==
  /\ UNION Free_Blocks = (page_memory_start..(cur_page_addr - 1)) \ UNION Given_Blocks
  /\ UNION Given_Blocks \subseteq page_memory_start..(cur_page_addr - 1)
  /\ page_memory_start..(cur_page_addr - 1) \subseteq Page
  /\ cur_page_addr \in Nat
  /\ \A p \in Page : IsFree(p) => Block(p, order[p]) \subseteq Page
  /\ \A p \in given : /\ Block(p, order_allocated[p]) \subseteq Page
                      /\ p \in Block(p, order_allocated[p])
  /\ \A p, q \in given : p # q =>
       Block(p, order_allocated[p]) \cap Block(q, order_allocated[q]) = {}

LEMMA FreeIsTheRest == Tiled => FreeIsRest
<1>. SUFFICES ASSUME PageTypeOK, GivenIsNotFree, cur_page_addr <= page_memory_end,
                     Tiling(Extents, cur_page_addr)
              PROVE  FreeIsRest
  BY DEF Tiled
<1>1. cur_page_addr \in Nat /\ given \subseteq Page
  BY PageFacts, SizeFacts DEF PageTypeOK
<1>2. PICK e, c, F : e = Extents /\ c = cur_page_addr /\ c \in Nat /\ F = {p \in Page : IsFree(p)}
  BY <1>1
<1>3. /\ DOMAIN e = F \cup given /\ F \cap given = {} /\ F \subseteq Page
      /\ \A p \in F : e[p] = order[p]
      /\ \A p \in given : e[p] = order_allocated[p]
  BY <1>2 DEF Extents, Starts, GivenIsNotFree
<1>4. F \in SUBSET DOMAIN e /\ DOMAIN e \ F = given
  BY <1>3
<1>5. Tiling(e, c) /\ c <= page_memory_end /\ c \in Nat
  BY <1>2
<1>6. /\ \A p \in DOMAIN e : Block(p, e[p]) \subseteq page_memory_start..(c - 1)
      /\ page_memory_start..(c - 1) \subseteq Page
      /\ \A p, q \in DOMAIN e : p # q => Block(p, e[p]) \cap Block(q, e[q]) = {}
      /\ UNION {Block(p, e[p]) : p \in F} =
           (page_memory_start..(c - 1)) \ UNION {Block(p, e[p]) : p \in DOMAIN e \ F}
  <2>1. \A p \in DOMAIN e : Block(p, e[p]) \subseteq page_memory_start..(c - 1)
    BY <1>4, <1>5, TilingParts, Zenon
  <2>2. page_memory_start..(c - 1) \subseteq Page
    BY <1>4, <1>5, TilingParts, Zenon
  <2>3. \A p, q \in DOMAIN e : p # q => Block(p, e[p]) \cap Block(q, e[q]) = {}
    BY <1>4, <1>5, TilingParts, Zenon
  <2>4. UNION {Block(p, e[p]) : p \in F} =
          (page_memory_start..(c - 1)) \ UNION {Block(p, e[p]) : p \in DOMAIN e \ F}
    BY <1>4, <1>5, TilingRest
  <2>. QED BY <2>1, <2>2, <2>3, <2>4
<1>7. {Block(p, e[p]) : p \in F} = Free_Blocks
  BY <1>2, <1>3 DEF Free_Blocks
<1>8. {Block(p, e[p]) : p \in DOMAIN e \ F} = Given_Blocks
  BY <1>3, <1>4 DEF Given_Blocks
<1>9. UNION Given_Blocks \subseteq page_memory_start..(cur_page_addr - 1)
  BY <1>2, <1>3, <1>6 DEF Given_Blocks
<1>10. \A p \in given : p \in Block(p, order_allocated[p])
  <2>. SUFFICES ASSUME NEW p \in given PROVE p \in Block(p, order_allocated[p])
    OBVIOUS
  <2>1. SIZE[order_allocated[p]] \in Nat \ {0} /\ p \in Nat
    BY <1>1, PageFacts, SizeFacts DEF PageTypeOK, Order
  <2>. QED BY <2>1 DEF Block
<1>. QED BY <1>1, <1>2, <1>3, <1>6, <1>7, <1>8, <1>9, <1>10 DEF FreeIsRest

\* _alloc keeps the buddy system in order; its caller gets a block of its own.
LEMMA TakeStep ==
  ASSUME BlocksInv, NEW o \in Order, NEW i \in o..BUDDY_ORDER_MAX, FirstFit(o, i),
         NEW a, a = Head(page_list[i]), Take(o, i), given' = given \cup {a},
         UNCHANGED initVars
  PROVE  /\ BlocksInv'
         /\ a \in Page /\ a \notin given /\ IsFree(a)
         /\ order_allocated' = [order_allocated EXCEPT ![a] = o]
<1>1. /\ i \in Order /\ o \in 0..i /\ o \in Nat /\ i \in Nat /\ BUDDY_ORDER_MAX \in Nat
      /\ \A j \in o..(i - 1) : j \in Order /\ j # i
      /\ BUDDY_ORDER_UPLIMIT \notin Order
  BY SizeFacts DEF Order
<1>2. /\ page_list \in [Order -> Seq(Page)] /\ given \subseteq Page
      /\ order \in [Page -> Order \cup {BUDDY_ORDER_UPLIMIT}]
      /\ order_allocated \in [Page -> Order]
      /\ cur_page_addr \in Nat
  BY PageFacts, SizeFacts DEF BlocksInv, PageTypeOK
<1>3. /\ page_list[i] \in Seq(Page) /\ page_list[i] # <<>> /\ IsInjective(page_list[i])
      /\ \A p \in Page : Contains(page_list[i], p) <=> order[p] = i
  BY <1>1, <1>2 DEF BlocksInv, ListsMatchOrders, FirstFit
<1>4. a \in Page /\ order[a] = i /\ IsFree(a) /\ a \notin given
  <2>1. a \in Page /\ Contains(page_list[i], a)
    BY <1>3, HeadTakenOut
  <2>. QED BY <1>1, <1>3, <2>1 DEF IsFree, BlocksInv, GivenIsNotFree
<1>5. PICK e, c : e = Extents /\ c = cur_page_addr /\ c \in Nat
  BY <1>2
<1>6. /\ Tiling(e, c) /\ c <= page_memory_end /\ c \in Nat /\ DOMAIN e = Starts
      /\ a \in DOMAIN e /\ e[a] = i
      /\ \A p \in Page : IsFree(p) => p \in DOMAIN e /\ e[p] = order[p]
      /\ \A p \in given : p \in DOMAIN e /\ e[p] = order_allocated[p]
  <2>1. Tiling(e, c) /\ c <= page_memory_end /\ DOMAIN e = Starts
    BY <1>5 DEF BlocksInv, Extents
  <2>2. /\ \A p \in Page : IsFree(p) => p \in DOMAIN e /\ e[p] = order[p]
        /\ \A p \in given : p \in DOMAIN e /\ e[p] = order_allocated[p]
    BY <1>2, <1>5 DEF BlocksInv, GivenIsNotFree, Extents, Starts
  <2>. QED BY <1>4, <1>5, <2>1, <2>2
<1>7. /\ a \in Nat \ {0} /\ a % SIZE[i] = 0
      /\ \A j \in o..(i - 1) :
           /\ RightHalf(a, j) \in Page /\ RightHalf(a, j) # a
           /\ RightHalf(a, j) \notin DOMAIN e
           /\ \A k \in o..(i - 1) : RightHalf(a, j) = RightHalf(a, k) => j = k
  BY <1>1, <1>6, RightHalvesAreNew DEF RightHalf
<1>. DEFINE R == {RightHalf(a, j) : j \in o..(i - 1)}
<1>8. /\ order' \in [Page -> Order \cup {BUDDY_ORDER_UPLIMIT}]
      /\ order'[a] = BUDDY_ORDER_UPLIMIT
      /\ \A j \in o..(i - 1) : order'[RightHalf(a, j)] = j
      /\ \A p \in Page : p # a /\ p \notin R => order'[p] = order[p]
  <2>1. order' = [p \in Page |->
                    IF p = a THEN BUDDY_ORDER_UPLIMIT
                    ELSE IF \E j \in o..(i - 1) : p = RightHalf(a, j)
                    THEN CHOOSE j \in o..(i - 1) : p = RightHalf(a, j)
                    ELSE order[p]]
    BY DEF Take, RightHalves
  <2>2. \A j \in o..(i - 1) : order'[RightHalf(a, j)] = j
    <3>. SUFFICES ASSUME NEW j \in o..(i - 1) PROVE order'[RightHalf(a, j)] = j
      OBVIOUS
    <3>1. order'[RightHalf(a, j)] = CHOOSE k \in o..(i - 1) : RightHalf(a, j) = RightHalf(a, k)
      BY <1>7, <2>1, Zenon
    <3>2. (CHOOSE k \in o..(i - 1) : RightHalf(a, j) = RightHalf(a, k)) = j
      <4>1. PICK k : k = CHOOSE m \in o..(i - 1) : RightHalf(a, j) = RightHalf(a, m)
        OBVIOUS
      <4>2. k \in o..(i - 1) /\ RightHalf(a, j) = RightHalf(a, k)
        BY <4>1
      <4>. QED BY <1>7, <4>1, <4>2
    <3>. QED BY <3>1, <3>2
  <2>3. /\ order'[a] = BUDDY_ORDER_UPLIMIT
        /\ \A p \in Page : p # a /\ p \notin R => order'[p] = order[p]
    BY <1>4, <2>1
  <2>4. order' \in [Page -> Order \cup {BUDDY_ORDER_UPLIMIT}]
    <3>1. order' = [p \in Page |-> order'[p]]
      BY <2>1
    <3>2. \A p \in Page : order'[p] \in Order \cup {BUDDY_ORDER_UPLIMIT}
      BY <1>1, <1>2, <2>2, <2>3
    <3>. QED BY <3>1, <3>2
  <2>. QED BY <2>2, <2>3, <2>4
<1>9. /\ order_allocated' = [order_allocated EXCEPT ![a] = o]
      /\ order_allocated' \in [Page -> Order] /\ order_allocated'[a] = o
      /\ \A p \in given : order_allocated'[p] = order_allocated[p]
  BY <1>1, <1>2, <1>4 DEF Take
<1>10. page_list' = [j \in Order |-> IF j = i THEN Tail(page_list[i])
                                  ELSE IF j \in o..(i - 1)
                                  THEN <<RightHalf(a, j)>> \o page_list[j]
                                  ELSE page_list[j]]
  BY DEF Take, RightHalves
<1>11. \A j \in o..(i - 1) : ~IsFree(RightHalf(a, j)) /\ RightHalf(a, j) \notin given
  BY <1>6, <1>7
<1>12. ASSUME NEW j \in Order
       PROVE  /\ page_list'[j] \in Seq(Page) /\ IsInjective(page_list'[j])
              /\ \A p \in Page : Contains(page_list'[j], p) <=> order'[p] = j
  <2>1. /\ page_list[j] \in Seq(Page) /\ IsInjective(page_list[j])
        /\ \A p \in Page : Contains(page_list[j], p) <=> order[p] = j
        /\ j # BUDDY_ORDER_UPLIMIT
    BY <1>1, <1>2 DEF BlocksInv, ListsMatchOrders
  <2>2. CASE j = i
    <3>1. page_list'[j] = Tail(page_list[i])
      BY <1>10, <2>2
    <3>2. \A p \in Page : p \in R => order'[p] # i /\ order[p] # i
      BY <1>1, <1>8, <1>11 DEF IsFree
    <3>3. \A p \in Page : order'[p] = i <=> order[p] = i /\ p # a
      BY <1>8, <2>1, <2>2, <3>2
    <3>. QED BY <1>3, <2>1, <2>2, <3>1, <3>3, HeadTakenOut
  <2>3. CASE j \in o..(i - 1)
    <3>1. PICK h : h = RightHalf(a, j) /\ h \in Page
      BY <1>7, <2>3
    <3>2. page_list'[j] = <<h>> \o page_list[j]
      BY <1>1, <1>10, <2>3, <3>1
    <3>3. ~Contains(page_list[j], h) /\ order'[h] = j /\ h # a
      BY <1>7, <1>8, <1>11, <2>1, <2>3, <3>1 DEF IsFree
    <3>4. \A p \in Page : p \in R /\ p # h => order'[p] # j /\ order[p] # j
      BY <1>8, <1>11, <2>3, <3>1 DEF IsFree
    <3>5. order[a] # j /\ order'[a] # j
      BY <1>1, <1>4, <1>8, <2>1, <2>3
    <3>6. \A p \in Page : order'[p] = j <=> order[p] = j \/ p = h
      BY <1>8, <3>3, <3>4, <3>5
    <3>. QED BY <2>1, <3>1, <3>2, <3>3, <3>6, Prepended
  <2>4. CASE j # i /\ j \notin o..(i - 1)
    <3>1. page_list'[j] = page_list[j]
      BY <1>10, <2>4
    <3>2. \A p \in Page : p \in R => order'[p] # j /\ order[p] # j
      BY <1>8, <1>11, <2>4 DEF IsFree
    <3>3. \A p \in Page : order'[p] = j <=> order[p] = j
      BY <1>4, <1>8, <2>1, <2>4, <3>2
    <3>. QED BY <2>1, <3>1, <3>3
  <2>. QED BY <2>2, <2>3, <2>4
<1>13. \A p \in Page : IsFree(p)' <=> (IsFree(p) /\ p # a) \/ p \in R
  BY <1>1, <1>2, <1>7, <1>8 DEF IsFree
<1>14. GivenIsNotFree'
  BY <1>2, <1>4, <1>11, <1>13 DEF BlocksInv, GivenIsNotFree
<1>15. Tiling(Extents, cur_page_addr)'
  <2>1. PICK f : f = Extents'
    OBVIOUS
  <2>2. DOMAIN f = DOMAIN e \cup {RightHalf(a, j) : j \in RightHalves(o, i)}
    <3>1. DOMAIN f = {p \in Page : IsFree(p)'} \cup (given \cup {a})
      BY <2>1 DEF Extents, Starts
    <3>2. DOMAIN e = {p \in Page : IsFree(p)} \cup given
      BY <1>6 DEF Starts
    <3>3. R \subseteq Page
      BY <1>7
    <3>. QED BY <1>4, <1>13, <3>1, <3>2, <3>3 DEF RightHalves
  <2>3. \A p \in DOMAIN f : f[p] = IF p \in given \cup {a} THEN order_allocated'[p] ELSE order'[p]
    BY <2>1 DEF Extents
  <2>4. f[a] = o
    BY <1>6, <1>9, <2>2, <2>3
  <2>5. \A j \in RightHalves(o, i) : f[RightHalf(a, j)] = j
    BY <1>7, <1>8, <1>11, <2>2, <2>3 DEF RightHalves
  <2>6. \A p \in DOMAIN e \ {a} : f[p] = e[p]
    <3>. SUFFICES ASSUME NEW p \in DOMAIN e \ {a} PROVE f[p] = e[p]
      OBVIOUS
    <3>1. CASE p \in given
      BY <1>6, <1>9, <2>2, <2>3, <3>1
    <3>2. CASE p \notin given
      <4>1. p \in Page /\ IsFree(p) /\ p \notin R
        BY <1>6, <1>7, <3>2 DEF Starts
      <4>. QED BY <1>6, <1>8, <2>2, <2>3, <3>2, <4>1
    <3>. QED BY <3>1, <3>2
  <2>7. Tiling(f, c)
    BY <1>1, <1>6, <2>2, <2>4, <2>5, <2>6, SplitTiling
  <2>. QED BY <1>5, <2>1, <2>7 DEF Tiling, initVars
<1>16. PageTypeOK'
  <2>1. page_list' \in [Order -> Seq(Page)]
    BY <1>10, <1>12
  <2>2. page_allocated' \in 0..(WordSize - 1)
    <3>1. PICK w \in Nat \ {0} : w = WordSize
      BY PageFacts, PageAssumption
    <3>2. page_allocated \in Nat
      BY <3>1 DEF BlocksInv, PageTypeOK
    <3>3. SIZE[o] \in Nat
      BY <1>1, SizeFacts DEF Order
    <3>4. PICK n \in Nat : n = page_allocated + SIZE[o]
      BY <3>2, <3>3
    <3>5. page_allocated' = n % w
      BY <3>1, <3>4 DEF Take, CountTaken
    <3>. QED BY <3>1, <3>4, <3>5, DivMod
  <2>3. cur_page_addr' = cur_page_addr /\ init_state' = init_state
    BY DEF initVars
  <2>. QED BY <1>2, <1>4, <1>8, <1>9, <2>1, <2>2, <2>3 DEF BlocksInv, PageTypeOK
<1>17. cur_page_addr' = cur_page_addr /\ Tiled /\ Tiled'
  BY <1>14, <1>15, <1>16 DEF BlocksInv, Tiled, initVars
<1>18. FreeIsRest /\ FreeIsRest'
  BY <1>17, FreeIsTheRest, PTL
<1>19. Given_Blocks' = Given_Blocks \cup {Block(a, o)}
  BY <1>2, <1>4, <1>9 DEF Given_Blocks
<1>20. PagesCounted'
  <2>1. PICK X : X = Page \ UNION Free_Blocks
    OBVIOUS
  <2>2. Block(a, o) \subseteq Page /\ X \cap Block(a, o) = {}
    <3>1. Block(a, o) \subseteq page_memory_start..(cur_page_addr - 1)
      BY <1>4, <1>9, <1>17, <1>18, <1>19 DEF FreeIsRest
    <3>2. \A B \in Given_Blocks : B \cap Block(a, o) = {}
      <4>. SUFFICES ASSUME NEW p \in given
                    PROVE  Block(p, order_allocated[p]) \cap Block(a, o) = {}
        BY DEF Given_Blocks
      <4>1. Block(p, order_allocated'[p]) \cap Block(a, order_allocated'[a]) = {}
        BY <1>4, <1>18 DEF FreeIsRest
      <4>. QED BY <1>9, <4>1
    <3>. QED BY <1>18, <2>1, <3>1, <3>2 DEF FreeIsRest
  <2>3. Page \ UNION Free_Blocks' = X \cup Block(a, o)
    BY <1>17, <1>18, <1>19, <2>1, <2>2 DEF FreeIsRest
  <2>4. page_allocated = Cardinality(X)
    BY <2>1 DEF BlocksInv, PagesCounted
  <2>5. Cardinality(X \cup Block(a, o)) = (Cardinality(X) + SIZE[o]) % WordSize
    BY <1>1, <1>7, <2>1, <2>2, CountStep
  <2>. QED BY <2>3, <2>4, <2>5 DEF PagesCounted, Take, CountTaken
<1>21. NoFreeHalves'
  <2>. SUFFICES ASSUME NEW p \in Page, IsFree(p)', NEW k \in Order, k = order'[p],
                       NEW b \in Page, b = buddy_get(p, k), order'[b] = k, k < BUDDY_ORDER_MAX
                PROVE  FALSE
    BY DEF NoFreeHalves, Merges, IsFree
  <2>1. p \in Nat /\ p % SIZE[k] = 0
    <3>1. p \in DOMAIN Extents' /\ (Extents')[p] = k
      BY <1>14 DEF Extents, Starts, GivenIsNotFree
    <3>. QED BY <1>15, <3>1, PageFacts DEF Tiling
  <2>2. buddy_get(b, k) = p
    BY <2>1, BuddiesPair
  <2>3. b # a /\ p # a
    BY <1>1, <1>8
  <2>4. \A j \in o..(i - 1) : buddy_get(RightHalf(a, j), j) = a
    <3>. SUFFICES ASSUME NEW j \in o..(i - 1) PROVE buddy_get(RightHalf(a, j), j) = a
      OBVIOUS
    <3>1. j \in Order /\ j + 1 \in 0..i /\ j \in 0..i /\ i \in 0..BUDDY_ORDER_UPLIMIT
      BY <1>1, SizeFacts DEF Order
    <3>2. a % SIZE[j + 1] = 0 /\ a % SIZE[j] = 0
      BY <1>7, <3>1, AlignedBelow
    <3>3. buddy_get(a, j) = a + SIZE[j] /\ buddy_get(buddy_get(a, j), j) = a
      BY <1>7, <3>1, <3>2, BuddiesPair
    <3>. QED BY <3>3 DEF RightHalf
  <2>5. \A q \in R : order'[q] = k => buddy_get(q, k) = a
    BY <1>8, <2>4
  <2>6. p \notin R /\ b \notin R
    BY <2>2, <2>3, <2>5
  <2>7. order[p] = k /\ order[b] = k
    BY <1>8, <2>3, <2>6
  <2>. QED BY <2>7 DEF BlocksInv, NoFreeHalves, Merges, IsFree
<1>22. ListsMatchOrders'
  BY <1>12 DEF ListsMatchOrders
<1>23. BlocksInv'
  BY <1>14, <1>15, <1>16, <1>17, <1>20, <1>21, <1>22 DEF BlocksInv, Tiled
<1>. QED BY <1>4, <1>9, <1>23

\* _free, of a block in use or of one that os_memory_page_init adds: the buddy
\* system stays in order.
LEMMA GiveStep ==
  ASSUME PageTypeOK, ListsMatchOrders, GivenIsNotFree, NoFreeHalves, PagesCounted,
         NEW a \in Page, ~IsFree(a), NEW o \in Order, NEW c \in Nat, c <= page_memory_end,
         NEW e, DOMAIN e = Starts \cup {a}, e[a] = o,
         \A p \in Page : IsFree(p) => e[p] = order[p],
         \A p \in given \ {a} : e[p] = order_allocated[p],
         Tiling(e, c),
         Free(a, o), given' = given \ {a}, cur_page_addr' = c, init_state' = init_state
  PROVE  BlocksInv'
<1>1. PICK i \in o..BUDDY_ORDER_MAX : MergesUpTo(a, o, i) /\ Give(a, o, i)
  BY DEF Free
<1>2. PICK g, B : g = get_big_page(a, i) /\ B = BuddiesOf(a, o, i)
  OBVIOUS
<1>3. /\ i \in Order /\ o \in Nat /\ i \in Nat /\ o <= i /\ BUDDY_ORDER_MAX \in Nat
      /\ \A j \in o..(i - 1) : j \in Order /\ j # i /\ j < i
      /\ BUDDY_ORDER_UPLIMIT \notin Order
  BY SizeFacts DEF Order
<1>4. /\ page_list \in [Order -> Seq(Page)] /\ given \subseteq Page
      /\ order \in [Page -> Order \cup {BUDDY_ORDER_UPLIMIT}]
      /\ order_allocated \in [Page -> Order] /\ page_allocated \in Nat
      /\ order[a] = BUDDY_ORDER_UPLIMIT /\ a \in Nat
  <2>1. page_allocated \in Nat
    BY PageFacts, PageAssumption DEF PageTypeOK
  <2>. QED BY <2>1, PageFacts DEF PageTypeOK, IsFree
<1>. DEFINE b(j) == buddy_get(get_big_page(a, j), j)
<1>5. \A j \in o..(i - 1) : /\ b(j) \in Page /\ order[b(j)] = j /\ IsFree(b(j))
                            /\ b(j) \in DOMAIN e \ {a} /\ e[b(j)] = j
  <2>. SUFFICES ASSUME NEW j \in o..(i - 1)
                PROVE  /\ b(j) \in Page /\ order[b(j)] = j /\ IsFree(b(j))
                       /\ b(j) \in DOMAIN e \ {a} /\ e[b(j)] = j
    OBVIOUS
  <2>1. b(j) \in Page /\ order[b(j)] = j
    BY <1>1 DEF MergesUpTo, Merges
  <2>2. IsFree(b(j))
    BY <1>3, <2>1 DEF IsFree
  <2>. QED BY <2>1, <2>2 DEF Starts
<1>6. B = {b(j) : j \in o..(i - 1)}
  BY <1>2 DEF BuddiesOf
<1>. HIDE DEF b
<1>7. \A p \in B : p \in Page /\ IsFree(p) /\ p # a /\ order[p] \in o..(i - 1) /\ p = b(order[p])
  BY <1>5, <1>6
<1>8. g \in {a} \cup B
  <2>1. PICK f : f = [p \in (DOMAIN e \ ({a} \cup BuddiesOf(a, o, i))) \cup {get_big_page(a, i)} |->
                        IF p = get_big_page(a, i) THEN i ELSE e[p]]
    OBVIOUS
  <2>2. /\ DOMAIN f = (DOMAIN e \ ({a} \cup BuddiesOf(a, o, i))) \cup {get_big_page(a, i)}
        /\ f[get_big_page(a, i)] = i
        /\ \A p \in DOMAIN f \ {get_big_page(a, i)} : f[p] = e[p]
    BY <2>1
  <2>3. \A j \in o..(i - 1) : /\ buddy_get(get_big_page(a, j), j) \in DOMAIN e \ {a}
                              /\ e[buddy_get(get_big_page(a, j), j)] = j
    BY <1>5 DEF b
  <2>4. get_big_page(a, i) \in {a} \cup BuddiesOf(a, o, i)
    BY <2>2, <2>3, MergeTiling
  <2>. QED BY <1>2, <2>4
<1>9. g \in Page /\ order[g] # i /\ g \notin given \ {a}
  BY <1>3, <1>4, <1>7, <1>8 DEF GivenIsNotFree
<1>10. order' = [p \in Page |-> IF p = g THEN i
                                ELSE IF p \in B THEN BUDDY_ORDER_UPLIMIT ELSE order[p]]
  BY <1>1, <1>2 DEF Give, BuddiesOf
<1>11. order' \in [Page -> Order \cup {BUDDY_ORDER_UPLIMIT}]
  BY <1>3, <1>4, <1>10
<1>12. \A p \in Page : IsFree(p)' <=> p = g \/ (IsFree(p) /\ p \notin B)
  BY <1>3, <1>10 DEF IsFree
<1>13. UNCHANGED order_allocated
  BY <1>1 DEF Give
<1>14. GivenIsNotFree'
  BY <1>4, <1>9, <1>12 DEF GivenIsNotFree
<1>15. PICK f : f = Extents'
  OBVIOUS
<1>16. /\ DOMAIN f = (DOMAIN e \ ({a} \cup B)) \cup {g} /\ f[g] = i
       /\ \A p \in DOMAIN f \ {g} : f[p] = e[p]
  <2>1. DOMAIN f = {p \in Page : IsFree(p)'} \cup (given \ {a})
    BY <1>15 DEF Extents, Starts
  <2>2. DOMAIN e = {p \in Page : IsFree(p)} \cup given \cup {a}
    BY DEF Starts
  <2>3. DOMAIN f = (DOMAIN e \ ({a} \cup B)) \cup {g}
    BY <1>4, <1>7, <1>9, <1>12, <2>1, <2>2, ZenonT(30) DEF GivenIsNotFree
  <2>4. \A p \in DOMAIN f : f[p] = IF p \in given \ {a} THEN order_allocated[p] ELSE order'[p]
    BY <1>13, <1>15 DEF Extents
  <2>5. f[g] = i
    BY <1>9, <1>10, <2>3, <2>4
  <2>6. ASSUME NEW p \in DOMAIN f \ {g} PROVE f[p] = e[p]
    <3>1. CASE p \in given \ {a}
      BY <2>4, <3>1
    <3>2. CASE p \notin given \ {a}
      <4>1. p \in Page /\ IsFree(p) /\ p \notin B
        BY <1>12, <2>1, <3>2
      <4>. QED BY <1>10, <2>4, <3>2, <4>1
    <3>. QED BY <3>1, <3>2
  <2>. QED BY <2>3, <2>5, <2>6
<1>17. Tiling(f, c)
  <2>1. /\ DOMAIN f = (DOMAIN e \ ({a} \cup BuddiesOf(a, o, i))) \cup {get_big_page(a, i)}
        /\ f[get_big_page(a, i)] = i
        /\ \A p \in DOMAIN f \ {get_big_page(a, i)} : f[p] = e[p]
    BY <1>2, <1>16
  <2>2. \A j \in o..(i - 1) : /\ buddy_get(get_big_page(a, j), j) \in DOMAIN e \ {a}
                              /\ e[buddy_get(get_big_page(a, j), j)] = j
    BY <1>5 DEF b
  <2>. QED BY <2>1, <2>2, MergeTiling
<1>18. page_list' = [j \in Order |-> IF j = i THEN <<g>> \o page_list[i]
                                     ELSE IF o <= j /\ j < i THEN page_remove(page_list[j], b(j))
                                     ELSE page_list[j]]
  BY <1>1, <1>2 DEF Give, b
<1>19. ASSUME NEW j \in Order
       PROVE  /\ page_list'[j] \in Seq(Page) /\ IsInjective(page_list'[j])
              /\ \A p \in Page : Contains(page_list'[j], p) <=> order'[p] = j
  <2>1. /\ page_list[j] \in Seq(Page) /\ IsInjective(page_list[j])
        /\ \A p \in Page : Contains(page_list[j], p) <=> order[p] = j
        /\ j # BUDDY_ORDER_UPLIMIT /\ j \in Nat
    BY <1>3, <1>4, SizeFacts, SMTT(30) DEF ListsMatchOrders, Order
  <2>2. CASE j = i
    <3>1. page_list'[j] = <<g>> \o page_list[j]
      BY <1>18, <2>2
    <3>2. \A p \in Page : order'[p] = j <=> order[p] = j \/ p = g
      BY <1>3, <1>7, <1>10, <2>1, <2>2
    <3>3. ~Contains(page_list[j], g)
      BY <1>9, <2>1, <2>2
    <3>. QED BY <1>9, <2>1, <3>1, <3>2, <3>3, Prepended
  <2>3. CASE o <= j /\ j < i
    <3>1. j \in o..(i - 1)
      BY <1>3, <2>1, <2>3
    <3>2. PICK h : h = b(j)
      OBVIOUS
    <3>3. h \in Page /\ order[h] = j /\ h \in B
      BY <1>5, <1>6, <3>1, <3>2
    <3>4. page_list'[j] = page_remove(page_list[j], h)
      BY <1>18, <2>3, <3>2
    <3>5. \A p \in Page : order'[p] = j <=> order[p] = j /\ p # h
      <4>1. \A p \in B : order[p] = j => p = h
        BY <1>7, <3>2
      <4>. QED BY <1>3, <1>4, <1>8, <1>10, <2>1, <2>3, <3>3, <4>1
    <3>. QED BY <2>1, <3>3, <3>4, <3>5, PageRemoved
  <2>4. CASE j # i /\ ~(o <= j /\ j < i)
    <3>1. page_list'[j] = page_list[j]
      BY <1>18, <2>4
    <3>2. \A p \in B : order[p] # j
      BY <1>3, <1>7, <2>1, <2>4
    <3>3. \A p \in Page : order'[p] = j <=> order[p] = j
      BY <1>4, <1>8, <1>10, <2>1, <2>4, <3>2
    <3>. QED BY <2>1, <3>1, <3>3
  <2>. QED BY <2>2, <2>3, <2>4
<1>20. ListsMatchOrders'
  BY <1>19 DEF ListsMatchOrders
<1>21. NoFreeHalves'
  <2>. SUFFICES ASSUME NEW p \in Page, IsFree(p)', NEW k \in Order, k = order'[p],
                       NEW q \in Page, q = buddy_get(p, k), order'[q] = k, k < BUDDY_ORDER_MAX
                PROVE  FALSE
    BY DEF NoFreeHalves, Merges, IsFree
  <2>1. p \in Nat /\ p % SIZE[k] = 0
    <3>1. p \in DOMAIN Extents' /\ (Extents')[p] = k
      BY <1>14 DEF Extents, Starts, GivenIsNotFree
    <3>. QED BY <1>15, <1>17, <3>1, PageFacts DEF Tiling
  <2>2. buddy_get(q, k) = p /\ q # p
    BY <2>1, BuddiesPair
  <2>3. ~Merges(g, i)
    BY <1>1, <1>2 DEF MergesUpTo
  <2>4. \A r \in Page : order'[r] = k => (r = g /\ k = i) \/ (r \notin B /\ order[r] = k)
    <3>. SUFFICES ASSUME NEW r \in Page, order'[r] = k
                  PROVE  (r = g /\ k = i) \/ (r \notin B /\ order[r] = k)
      OBVIOUS
    <3>1. order'[r] = IF r = g THEN i ELSE IF r \in B THEN BUDDY_ORDER_UPLIMIT ELSE order[r]
      BY <1>10
    <3>. QED BY <1>3, <3>1
  <2>5. CASE p = g
    <3>1. k = i /\ order[q] = i
      BY <1>3, <1>10, <2>2, <2>4, <2>5
    <3>. QED BY <2>3, <2>5, <3>1 DEF Merges
  <2>6. CASE q = g
    <3>1. k = i /\ order[p] = i
      BY <1>3, <1>10, <2>2, <2>4, <2>6
    <3>. QED BY <2>2, <2>3, <2>6, <3>1 DEF Merges
  <2>7. CASE p # g /\ q # g
    <3>1. order[p] = k /\ order[q] = k
      BY <2>4, <2>7
    <3>. QED BY <3>1 DEF NoFreeHalves, Merges, IsFree
  <2>. QED BY <2>5, <2>6, <2>7
<1>22. PICK X : X = Page \ UNION Free_Blocks
  OBVIOUS
<1>23. /\ Block(a, o) \subseteq X /\ Block(a, o) \subseteq Page
       /\ Page \ UNION Free_Blocks' = X \ Block(a, o)
  <2>1. PICK F, G : F = {p \in Page : IsFree(p)} /\ G = {p \in Page : IsFree(p)'}
    OBVIOUS
  <2>2. /\ DOMAIN e = F \cup given \cup {a} /\ F \cap given = {} /\ a \notin F
        /\ F \in SUBSET DOMAIN e /\ DOMAIN e \ F = given \cup {a}
    BY <2>1 DEF Starts, GivenIsNotFree
  <2>3. /\ DOMAIN f = G \cup (given \ {a}) /\ G \cap (given \ {a}) = {}
        /\ G \in SUBSET DOMAIN f /\ DOMAIN f \ G = given \ {a}
    BY <1>14, <1>15, <2>1 DEF Extents, Starts, GivenIsNotFree
  <2>4. UNION {Block(p, e[p]) : p \in F} =
          (page_memory_start..(c - 1)) \ UNION {Block(p, e[p]) : p \in DOMAIN e \ F}
    BY <2>2, TilingRest
  <2>5. UNION {Block(p, f[p]) : p \in G} =
          (page_memory_start..(c - 1)) \ UNION {Block(p, f[p]) : p \in DOMAIN f \ G}
    BY <1>17, <2>3, TilingRest
  <2>6. {Block(p, e[p]) : p \in F} = Free_Blocks
    BY <2>1 DEF Free_Blocks
  <2>7. {Block(p, f[p]) : p \in G} = Free_Blocks'
    BY <1>15, <2>1, <2>3 DEF Free_Blocks, Extents, Starts
  <2>8. {Block(p, e[p]) : p \in DOMAIN e \ F} = {Block(p, e[p]) : p \in given \ {a}} \cup {Block(a, o)}
    BY <2>2
  <2>9. {Block(p, f[p]) : p \in DOMAIN f \ G} = {Block(p, e[p]) : p \in given \ {a}}
    BY <1>9, <1>16, <2>3
  <2>10. \A p \in given \ {a} : Block(p, e[p]) \cap Block(a, o) = {}
    <3>1. \A p, q \in DOMAIN e : p # q => Block(p, e[p]) \cap Block(q, e[q]) = {}
      BY TilingParts, Zenon
    <3>. QED BY <2>2, <3>1
  <2>11. Block(a, o) \subseteq page_memory_start..(c - 1) /\ page_memory_start..(c - 1) \subseteq Page
    <3>1. \A p \in DOMAIN e : Block(p, e[p]) \subseteq page_memory_start..(c - 1)
      BY TilingParts, Zenon
    <3>2. page_memory_start..(c - 1) \subseteq Page
      BY TilingParts, Zenon
    <3>. QED BY <2>2, <3>1, <3>2
  <2>12. PICK K, A, U, V, W : /\ K = {Block(p, e[p]) : p \in given \ {a}} /\ A = Block(a, o)
                             /\ U = UNION Free_Blocks /\ V = UNION Free_Blocks'
                             /\ W = page_memory_start..(c - 1)
    OBVIOUS
  <2>13. U = W \ UNION (K \cup {A}) /\ V = W \ UNION K
    BY <2>4, <2>5, <2>6, <2>7, <2>8, <2>9, <2>12
  <2>14. (\A C \in K : C \cap A = {}) /\ A \subseteq W /\ W \subseteq Page
    BY <2>10, <2>11, <2>12
  <2>15. V = U \cup A /\ U \cap A = {}
    BY <2>13, <2>14
  <2>16. X = Page \ U
    BY <1>22, <2>12
  <2>17. A \subseteq X /\ A \subseteq Page /\ Page \ V = X \ A
    BY <2>14, <2>15, <2>16
  <2>. QED BY <2>12, <2>17
<1>24. PagesCounted'
  <2>1. X \in SUBSET Page /\ a \in Nat
    BY <1>4, <1>22
  <2>2. Cardinality(X \ Block(a, o)) = (Cardinality(X) + WordSize - SIZE[o]) % WordSize
    BY <1>23, <2>1, CountStep
  <2>3. page_allocated' = (page_allocated + WordSize - SIZE[o]) % WordSize
    BY <1>1 DEF Give
  <2>. QED BY <1>22, <1>23, <2>2, <2>3 DEF PagesCounted
<1>25. PageTypeOK'
  <2>1. page_list' \in [Order -> Seq(Page)]
    BY <1>18, <1>19
  <2>2. page_allocated' \in 0..(WordSize - 1)
    <3>1. X \ Block(a, o) \in SUBSET Page
      BY <1>22
    <3>2. Cardinality(X \ Block(a, o)) \in Nat /\ Cardinality(X \ Block(a, o)) < WordSize
      BY <3>1, PagesFinite
    <3>3. page_allocated' = Cardinality(X \ Block(a, o))
      BY <1>23, <1>24 DEF PagesCounted
    <3>4. WordSize \in Nat
      BY PageAssumption
    <3>. QED BY <3>2, <3>3, <3>4
  <2>3. cur_page_addr' \in page_memory_start..(page_memory_end + SIZE[BUDDY_ORDER_MAX])
    <3>1. a + SIZE[o] <= c /\ SIZE[o] \in Nat /\ page_memory_start <= a
      BY <1>3, <1>4, SizeFacts, SMTT(30) DEF Tiling, Order, Page
    <3>2. SIZE[BUDDY_ORDER_MAX] \in Nat
      BY SizeFacts
    <3>. QED BY <1>4, <3>1, <3>2, PageFacts
  <2>. QED BY <1>4, <1>11, <1>13, <2>1, <2>2, <2>3 DEF PageTypeOK
<1>. QED BY <1>14, <1>15, <1>17, <1>20, <1>21, <1>24, <1>25 DEF BlocksInv, Tiling

-----------------------------------------------------------------------------
(***************************************************************************)
(* The operations of the buddy system.                                     *)
(***************************************************************************)
PageInv ==
  /\ BlocksInv
  /\ init_state \in {"running", "done"}
  /\ init_state = "running" => given = {}
  /\ init_state = "done" => cur_page_addr = page_memory_end

LEMMA PageInitInv == PageInit => PageInv
<1>. SUFFICES ASSUME PageInit PROVE PageInv
  OBVIOUS
<1>1. /\ page_list = [o \in Order |-> <<>>]
      /\ order = [p \in Page |-> BUDDY_ORDER_UPLIMIT]
      /\ order_allocated = [p \in Page |-> 0]
      /\ page_allocated = page_num
      /\ cur_page_addr = page_memory_start
      /\ init_state = "running" /\ given = {}
  BY DEF PageInit
<1>2. BUDDY_ORDER_UPLIMIT \notin Order /\ 0 \in Order /\ \A p \in Page : ~IsFree(p)
  BY <1>1, SizeFacts DEF Order, IsFree
<1>3. PageTypeOK
  <2>1. page_allocated \in 0..(WordSize - 1)
    BY <1>1, PageFacts, PageAssumption
  <2>2. SIZE[BUDDY_ORDER_MAX] \in Nat
    BY SizeFacts
  <2>3. cur_page_addr \in page_memory_start..(page_memory_end + SIZE[BUDDY_ORDER_MAX])
    BY <1>1, <2>2, PageFacts
  <2>. QED BY <1>1, <1>2, <2>1, <2>3 DEF PageTypeOK
<1>4. ListsMatchOrders
  <2>. SUFFICES ASSUME NEW o \in Order
                PROVE  /\ IsInjective(page_list[o])
                       /\ \A p \in Page : Contains(page_list[o], p) <=> order[p] = o
    BY DEF ListsMatchOrders
  <2>1. page_list[o] = <<>>
    BY <1>1
  <2>2. IsInjective(<<>>)
    BY DEF IsInjective
  <2>3. \A p : ~Contains(<<>>, p)
    BY DEF Contains
  <2>. QED BY <1>1, <1>2, <2>1, <2>2, <2>3
<1>5. Tiling(Extents, cur_page_addr)
  <2>1. Starts = {} /\ DOMAIN Extents = {}
    BY <1>1, <1>2 DEF Starts, Extents
  <2>2. page_memory_start..(cur_page_addr - 1) = {}
    BY <1>1, PageFacts
  <2>. QED BY <2>1, <2>2 DEF Tiling
<1>6. PagesCounted
  <2>1. UNION Free_Blocks = {}
    BY <1>2 DEF Free_Blocks
  <2>. QED BY <1>1, <2>1, PagesFinite DEF PagesCounted
<1>7. GivenIsNotFree /\ NoFreeHalves /\ cur_page_addr <= page_memory_end
  BY <1>1, <1>2, PageFacts DEF GivenIsNotFree, NoFreeHalves
<1>. QED BY <1>1, <1>3, <1>4, <1>5, <1>6, <1>7 DEF PageInv, BlocksInv

LEMMA PageInvStutters == PageInv /\ UNCHANGED pageVars => PageInv'
<1>. SUFFICES ASSUME PageInv, UNCHANGED pageVars PROVE PageInv'
  OBVIOUS
<1>. USE DEF pageVars, buddyVars, initVars
<1>1. PageTypeOK'
  BY DEF PageInv, BlocksInv, PageTypeOK
<1>2. ListsMatchOrders' /\ GivenIsNotFree' /\ NoFreeHalves'
  BY DEF PageInv, BlocksInv, ListsMatchOrders, GivenIsNotFree, NoFreeHalves, IsFree, Merges
<1>3. PagesCounted'
  BY DEF PageInv, BlocksInv, PagesCounted, Free_Blocks, IsFree
<1>4. Extents' = Extents
  BY DEF Extents, Starts, IsFree
<1>. QED BY <1>1, <1>2, <1>3, <1>4 DEF PageInv, BlocksInv, Tiling

\* os_memory_page_init frees one block more.
LEMMA InitBlockStep ==
  ASSUME HeapEndsAligned, PageInv, os_memory_page_init_block
  PROVE  PageInv'
<1>1. PICK a, o, c : a = cur_page_addr /\ o = AlignBits(a) /\ c = a + SIZE[o]
  OBVIOUS
<1>2. /\ init_state = "running" /\ a < page_memory_end /\ Free(a, o)
      /\ cur_page_addr' = c /\ init_state' = init_state /\ given' = given /\ given = {}
  BY <1>1 DEF os_memory_page_init_block, PageInv
<1>3. a \in Page /\ a \in Nat \ {0} /\ page_memory_start <= a
  <2>1. a \in page_memory_start..(page_memory_end + SIZE[BUDDY_ORDER_MAX])
    BY <1>1 DEF PageInv, BlocksInv, PageTypeOK
  <2>2. SIZE[BUDDY_ORDER_MAX] \in Nat
    BY SizeFacts
  <2>. QED BY <1>2, <2>1, <2>2, PageFacts DEF Page
<1>4. o \in Order /\ a % SIZE[o] = 0 /\ SIZE[o] \in Nat \ {0}
  <2>1. o \in Order /\ a % SIZE[o] = 0
    BY <1>1, <1>3, AlignBitsOf, PageFacts
  <2>. QED BY <2>1, SizeFacts DEF Order
<1>5. c \in Nat /\ c <= page_memory_end
  <2>1. c - 1 \in Block(a, o) /\ Block(a, o) \subseteq Page
    BY <1>1, <1>3, <1>4 DEF HeapEndsAligned, Block
  <2>2. c - 1 \in Page
    BY <2>1
  <2>. QED BY <1>1, <1>3, <1>4, <2>2, PageFacts DEF Page
<1>6. PICK d : d = Extents
  OBVIOUS
<1>7. /\ Tiling(d, a) /\ DOMAIN d = Starts /\ DOMAIN d \subseteq Page /\ Starts = {p \in Page : IsFree(p)}
      /\ \A p \in DOMAIN d : d[p] = order[p]
      /\ \A p \in DOMAIN d : p \in Nat /\ SIZE[d[p]] \in Nat \ {0} /\ p + SIZE[d[p]] <= a
  <2>1. Tiling(d, a) /\ DOMAIN d = Starts /\ Starts = {p \in Page : IsFree(p)}
        /\ \A p \in DOMAIN d : d[p] = order[p]
    BY <1>1, <1>2, <1>6 DEF PageInv, BlocksInv, Extents, Starts
  <2>2. \A k \in Order : SIZE[k] \in Nat \ {0}
    BY SizeFacts DEF Order
  <2>. QED BY <2>1, <2>2, PageFacts DEF Tiling
<1>8. a \notin DOMAIN d /\ ~IsFree(a)
  BY <1>3, <1>7
<1>9. PICK e : e = [p \in Starts \cup {a} |-> IF p = a THEN o ELSE d[p]]
  OBVIOUS
<1>10. /\ DOMAIN e = Starts \cup {a} /\ e[a] = o
       /\ \A p \in DOMAIN d : e[p] = d[p]
       /\ \A p \in Page : IsFree(p) => e[p] = order[p]
  BY <1>7, <1>8, <1>9
<1>11. Tiling(e, c)
  <2>1. DOMAIN e \subseteq Page /\ \A p \in DOMAIN e : e[p] \in Order
    BY <1>3, <1>4, <1>7, <1>10 DEF Tiling
  <2>2. \A p \in DOMAIN e : p % SIZE[e[p]] = 0 /\ p + SIZE[e[p]] <= c
    <3>1. \A p \in DOMAIN d : p % SIZE[d[p]] = 0 /\ p + SIZE[d[p]] <= c
      <4>1. \A p \in DOMAIN d : p % SIZE[d[p]] = 0
        BY <1>7 DEF Tiling
      <4>2. \A p \in DOMAIN d : p + SIZE[d[p]] <= c
        BY <1>1, <1>3, <1>4, <1>7
      <4>. QED BY <4>1, <4>2
    <3>. QED BY <1>1, <1>3, <1>4, <1>5, <1>7, <1>10, <3>1
  <2>3. ASSUME NEW p \in DOMAIN e, NEW q \in DOMAIN e, p < q PROVE p + SIZE[e[p]] <= q
    <3>1. CASE q = a
      BY <1>3, <1>7, <1>10, <2>3, <3>1
    <3>2. CASE q # a
      <4>1. p # a
        BY <1>3, <1>7, <1>10, <2>3, <3>2
      <4>. QED BY <1>7, <1>10, <2>3, <3>2, <4>1 DEF Tiling
    <3>. QED BY <3>1, <3>2
  <2>4. ASSUME NEW x \in page_memory_start..(c - 1)
        PROVE  \E p \in DOMAIN e : p <= x /\ x < p + SIZE[e[p]]
    <3>1. x \in Nat
      BY PageFacts
    <3>2. CASE x < a
      <4>1. PICK p \in DOMAIN d : p <= x /\ x < p + SIZE[d[p]]
        BY <1>3, <1>7, <3>1, <3>2 DEF Tiling
      <4>. QED BY <1>7, <1>10, <4>1
    <3>3. CASE a <= x
      BY <1>1, <1>3, <1>5, <1>10, <3>1, <3>3
    <3>. QED BY <1>3, <3>1, <3>2, <3>3
  <2>. QED BY <2>1, <2>2, <2>3, <2>4 DEF Tiling
<1>12. BlocksInv'
  <2>1. PageTypeOK /\ ListsMatchOrders /\ GivenIsNotFree /\ NoFreeHalves /\ PagesCounted
    BY DEF PageInv, BlocksInv
  <2>2. given' = given \ {a} /\ \A p \in given \ {a} : e[p] = order_allocated[p]
    BY <1>2
  <2>. QED BY <1>2, <1>3, <1>4, <1>5, <1>8, <1>10, <1>11, <2>1, <2>2, GiveStep
<1>. QED BY <1>2, <1>12 DEF PageInv

\* Its assertion holds: all the pages are free.
LEMMA InitEndStep ==
  ASSUME PageInv, os_memory_page_init_end
  PROVE  PageInv'
<1>1. /\ init_state = "running" /\ cur_page_addr >= page_memory_end /\ given = {}
      /\ UNCHANGED <<buddyVars, cur_page_addr, given>>
      /\ init_state' = IF page_allocated = 0 THEN "done" ELSE "asserted"
  BY DEF os_memory_page_init_end, PageInv
<1>2. Tiled /\ FreeIsRest
  BY FreeIsTheRest DEF PageInv, BlocksInv, Tiled
<1>3. cur_page_addr = page_memory_end
  BY <1>1, <1>2, PageFacts DEF FreeIsRest, Tiled
<1>4. page_allocated = 0
  <2>1. Given_Blocks = {}
    BY <1>1 DEF Given_Blocks
  <2>2. Page \ UNION Free_Blocks = {}
    BY <1>2, <1>3, <2>1 DEF FreeIsRest, Page
  <2>. QED BY <2>2, FS_EmptySet DEF PageInv, BlocksInv, PagesCounted
<1>5. init_state' = "done"
  BY <1>1, <1>4
<1>6. BlocksInv'
  <2>. USE <1>1 DEF buddyVars
  <2>1. PageTypeOK'
    BY <1>5 DEF PageInv, BlocksInv, PageTypeOK
  <2>2. ListsMatchOrders' /\ GivenIsNotFree' /\ NoFreeHalves'
    BY DEF PageInv, BlocksInv, ListsMatchOrders, GivenIsNotFree, NoFreeHalves, IsFree, Merges
  <2>3. PagesCounted'
    BY DEF PageInv, BlocksInv, PagesCounted, Free_Blocks, IsFree
  <2>4. Extents' = Extents
    BY DEF Extents, Starts, IsFree
  <2>. QED BY <2>1, <2>2, <2>3, <2>4 DEF PageInv, BlocksInv, Tiling
<1>. QED BY <1>1, <1>3, <1>5, <1>6 DEF PageInv

\* _alloc, for a caller or for a slub cache.
LEMMA PageAllocStep ==
  ASSUME PageInv, init_state = "done", NEW o \in Order, NEW a, PageAlloc(o, a),
         UNCHANGED initVars
  PROVE  /\ PageInv'
         /\ a \in Page /\ a \notin given /\ given' = given \cup {a}
         /\ order_allocated' = [order_allocated EXCEPT ![a] = o]
<1>1. PICK i \in o..BUDDY_ORDER_MAX : FirstFit(o, i) /\ a = Head(page_list[i]) /\ Take(o, i)
  BY DEF PageAlloc
<1>2. given' = given \cup {a}
  BY DEF PageAlloc
<1>3. /\ BlocksInv' /\ a \in Page /\ a \notin given
      /\ order_allocated' = [order_allocated EXCEPT ![a] = o]
  BY <1>1, <1>2, TakeStep DEF PageInv
<1>. QED BY <1>2, <1>3 DEF PageInv, initVars

\* _free, by a caller or by a slub cache.
LEMMA PageFreeStep ==
  ASSUME PageInv, init_state = "done", NEW a \in given, PageFree(a), UNCHANGED initVars
  PROVE  PageInv' /\ given' = given \ {a} /\ UNCHANGED order_allocated
<1>1. PICK o, c, e : o = order_allocated[a] /\ c = cur_page_addr /\ e = Extents
  OBVIOUS
<1>2. a \in Page /\ o \in Order /\ ~IsFree(a) /\ Free(a, o) /\ given' = given \ {a}
  BY <1>1 DEF PageInv, BlocksInv, PageTypeOK, GivenIsNotFree, PageFree
<1>3. c \in Nat /\ c <= page_memory_end /\ cur_page_addr' = c /\ init_state' = init_state
  BY <1>1, PageFacts DEF PageInv, initVars
<1>4. /\ DOMAIN e = Starts \cup {a} /\ e[a] = o /\ Tiling(e, c)
      /\ \A p \in Page : IsFree(p) => e[p] = order[p]
      /\ \A p \in given \ {a} : e[p] = order_allocated[p]
  BY <1>1, <1>2 DEF PageInv, BlocksInv, Extents, Starts, GivenIsNotFree
<1>5. BlocksInv'
  <2>1. PageTypeOK /\ ListsMatchOrders /\ GivenIsNotFree /\ NoFreeHalves /\ PagesCounted
    BY DEF PageInv, BlocksInv
  <2>. QED BY <1>2, <1>3, <1>4, <2>1, GiveStep
<1>6. UNCHANGED order_allocated
  BY <1>2 DEF Free, Give
<1>. QED BY <1>2, <1>3, <1>5, <1>6 DEF PageInv, initVars

\* The order of a request is big enough for it.
LEMMA OrderIsEnough ==
  ASSUME NEW n \in 1..MaxRequest
  PROVE  os_size_to_order(n) \in Order /\ n <= SIZE[os_size_to_order(n)]
<1>. DEFINE T == {o \in Order : n <= SIZE[o]}
<1>1. T \in SUBSET Nat /\ T # {}
  <2>1. BUDDY_ORDER_MAX \in Order /\ SIZE[BUDDY_ORDER_MAX] \in Nat /\ Order \subseteq Nat
    BY SizeFacts DEF Order
  <2>2. n <= SIZE[BUDDY_ORDER_MAX]
    BY <2>1, PageAssumption
  <2>. QED BY <2>1, <2>2
<1>2. PICK x \in T : \A y \in T : x <= y
  <2>. HIDE DEF T
  <2>. QED BY <1>1, LeastNumber
<1>3. x \in Order /\ n <= SIZE[x] /\ \A j \in Order : n <= SIZE[j] => x <= j
  BY <1>2
<1>4. \E o \in Order : n <= SIZE[o] /\ \A j \in Order : n <= SIZE[j] => o <= j
  BY <1>3, Zenon
<1>. QED BY <1>4, Zenon DEF os_size_to_order

LEMMA PageNextStep == HeapEndsAligned /\ PageInv /\ [PageNext]_pageVars => PageInv'
<1>. SUFFICES ASSUME HeapEndsAligned, PageInv, [PageNext]_pageVars PROVE PageInv'
  OBVIOUS
<1>1. CASE os_memory_page_init_block
  BY <1>1, InitBlockStep
<1>2. CASE os_memory_page_init_end
  BY <1>2, InitEndStep
<1>3. ASSUME NEW n \in 1..MaxRequest, os_memory_page_alloc(n) PROVE PageInv'
  <2>1. os_size_to_order(n) \in Order
    BY OrderIsEnough
  <2>2. init_state = "done" /\ UNCHANGED initVars
    BY <1>3 DEF os_memory_page_alloc
  <2>3. CASE \E a \in Page : PageAlloc(os_size_to_order(n), a)
    BY <2>1, <2>2, <2>3, PageAllocStep
  <2>4. CASE UNCHANGED <<buddyVars, given>>
    BY <2>2, <2>4, PageInvStutters DEF pageVars
  <2>. QED BY <1>3, <2>3, <2>4 DEF os_memory_page_alloc
<1>4. ASSUME NEW a \in Page, os_memory_page_free(a) PROVE PageInv'
  BY <1>4, PageFreeStep DEF os_memory_page_free
<1>5. CASE UNCHANGED pageVars
  BY <1>5, PageInvStutters
<1>. QED BY <1>1, <1>2, <1>3, <1>4, <1>5 DEF PageNext

\* What the invariant says of blocks, pages and the count.
LEMMA InvAccountsForPages == PageInv => PagesAccounted
<1>. SUFFICES ASSUME PageInv PROVE PagesAccounted
  OBVIOUS
<1>1. PICK e, c : e = Extents /\ c = cur_page_addr
  OBVIOUS
<1>2. Tiled /\ FreeIsRest
  BY FreeIsTheRest DEF PageInv, BlocksInv, Tiled
<1>3. /\ Tiling(e, c) /\ c \in Nat /\ c <= page_memory_end /\ DOMAIN e = Starts
      /\ \A p \in Page : IsFree(p) => p \in DOMAIN e /\ e[p] = order[p] /\ p \notin given
      /\ \A p \in given : p \in DOMAIN e /\ e[p] = order_allocated[p]
  BY <1>1, <1>2 DEF Tiled, FreeIsRest, Extents, Starts, GivenIsNotFree, PageTypeOK
<1>4. \A p \in DOMAIN e : p % SIZE[e[p]] = 0
  BY <1>3 DEF Tiling
<1>5. ASSUME NEW B \in Free_Blocks \cup Given_Blocks
      PROVE  \E p \in DOMAIN e : B = Block(p, e[p])
  BY <1>3 DEF Free_Blocks, Given_Blocks
<1>6. \A B, C \in Free_Blocks \cup Given_Blocks : B = C \/ B \cap C = {}
  <2>1. \A p, q \in DOMAIN e : p # q => Block(p, e[p]) \cap Block(q, e[q]) = {}
    BY <1>3, TilingParts, Zenon
  <2>. QED BY <1>5, <2>1
<1>7. UNION (Free_Blocks \cup Given_Blocks) = page_memory_start..(c - 1)
  <2>1. PICK U, V, W : U = UNION Free_Blocks /\ V = UNION Given_Blocks /\ W = page_memory_start..(c - 1)
    OBVIOUS
  <2>2. U = W \ V /\ V \subseteq W
    BY <1>1, <1>2, <2>1 DEF FreeIsRest
  <2>3. UNION (Free_Blocks \cup Given_Blocks) = U \cup V
    BY <2>1
  <2>. QED BY <2>1, <2>2, <2>3
<1>8. c = IF cur_page_addr < page_memory_end THEN cur_page_addr ELSE page_memory_end
  BY <1>1, <1>3, PageFacts
<1>9. BlocksPartition
  BY <1>3, <1>4, <1>6, <1>7, <1>8 DEF BlocksPartition
<1>. QED BY <1>9 DEF PagesAccounted, PageInv, BlocksInv

\* An aligned block that has a page of another aligned block, as large or larger, lies
\* in it.
LEMMA LargerBlockCovers ==
  ASSUME NEW a \in Nat, NEW o \in Order, a % SIZE[o] = 0,
         NEW p \in Nat, NEW k \in o..BUDDY_ORDER_MAX, p % SIZE[k] = 0,
         NEW x \in Block(a, o), x \in Block(p, k)
  PROVE  Block(a, o) \subseteq Block(p, k)
<1>1. PICK s, t : s = SIZE[o] /\ t = SIZE[k]
  OBVIOUS
<1>2. /\ k \in Order /\ s \in Nat \ {0} /\ t \in Nat \ {0}
      /\ k \in 0..BUDDY_ORDER_UPLIMIT /\ o \in 0..k
  BY <1>1, SizeFacts DEF Order
<1>3. a % s = 0 /\ p % s = 0 /\ (p + t) % s = 0
  <2>1. p % SIZE[o] = 0
    BY <1>2, AlignedBelow
  <2>2. (p + t) % t = 0
    BY <1>1, <1>2, AlignedNext
  <2>3. (p + SIZE[k]) % SIZE[o] = 0
    <3>1. PICK y \in Nat : y = p + SIZE[k]
      BY <1>1, <1>2
    <3>2. y % SIZE[k] = 0
      BY <1>1, <2>2, <3>1
    <3>. QED BY <1>2, <3>1, <3>2, AlignedBelow
  <2>. QED BY <1>1, <2>1, <2>3
<1>4. x \in Nat /\ a <= x /\ x < a + s /\ p <= x /\ x < p + t
  BY <1>1, <1>2 DEF Block
<1>5. p <= a
  <2>. SUFFICES ASSUME a < p PROVE FALSE
    OBVIOUS
  <2>1. a + s <= p
    BY <1>2, <1>3, AlignedApart
  <2>. QED BY <1>2, <1>4, <2>1
<1>6. a + s <= p + t
  <2>1. PICK y \in Nat : y = p + t
    BY <1>2
  <2>2. a < y /\ y % s = 0
    BY <1>2, <1>3, <1>4, <2>1
  <2>. QED BY <1>2, <1>3, <2>1, <2>2, AlignedApart
<1>7. a..(a + s - 1) \subseteq p..(p + t - 1)
  BY <1>2, <1>5, <1>6
<1>. QED BY <1>1, <1>7 DEF Block

\* A run of free pages lies in one free block: by induction on its order, for two
\* halves that were free blocks of their own would have been merged.
LEMMA InvKeepsRunsWhole == PageInv => FreeRunsAreWhole
<1>. SUFFICES ASSUME PageInv PROVE FreeRunsAreWhole
  OBVIOUS
<1>. DEFINE Whole(a, o) == \E B \in Free_Blocks : Block(a, o) \subseteq B
            Run(a, o) == a % SIZE[o] = 0 /\ Block(a, o) \subseteq UNION Free_Blocks
            S == {o \in 0..(BUDDY_ORDER_MAX - 1) : \A a \in Page : Run(a, o) => Whole(a, o)}
<1>1. /\ order \in [Page -> Order \cup {BUDDY_ORDER_UPLIMIT}]
      /\ Page \subseteq Nat
      /\ \A p \in Page : IsFree(p) => /\ p % SIZE[order[p]] = 0 /\ order[p] \in Order
                                      /\ Block(p, order[p]) \subseteq Page
                                      /\ Block(p, order[p]) \in Free_Blocks
  <2>1. Tiled /\ FreeIsRest /\ BlocksPartition
    BY FreeIsTheRest, InvAccountsForPages DEF PageInv, BlocksInv, Tiled, PagesAccounted
  <2>. QED BY <2>1, PageFacts DEF Tiled, PageTypeOK, FreeIsRest, BlocksPartition, IsFree, Free_Blocks
<1>2. \A B, C \in Free_Blocks : B = C \/ B \cap C = {}
  BY InvAccountsForPages DEF PagesAccounted, BlocksPartition
<1>3. BUDDY_ORDER_MAX \in Nat /\ Order = 0..BUDDY_ORDER_MAX /\ BUDDY_ORDER_UPLIMIT = BUDDY_ORDER_MAX + 1
  BY SizeFacts DEF Order
<1>4. \A a \in Page : a \in Block(a, 0) /\ Block(a, 0) = {a}
  BY <1>1, SizeFacts DEF Block
<1>5. CASE BUDDY_ORDER_MAX = 0
  BY <1>3, <1>5 DEF FreeRunsAreWhole
<1>6. CASE BUDDY_ORDER_MAX # 0
  <2>1. 0 \in S
    BY <1>3, <1>4, <1>6
  <2>2. ASSUME NEW o \in 0..(BUDDY_ORDER_MAX - 2), o \in S PROVE o + 1 \in S
    <3>1. o \in Order /\ o + 1 \in Order /\ o < BUDDY_ORDER_MAX /\ o + 1 \in 0..(BUDDY_ORDER_MAX - 1)
      BY <1>3, <1>6
    <3>. SUFFICES ASSUME NEW a \in Page, Run(a, o + 1) PROVE Whole(a, o + 1)
      BY <3>1
    <3>2. PICK s \in Nat \ {0} : s = SIZE[o] /\ SIZE[o + 1] = 2 * s
      BY <3>1, SizeFacts DEF Order
    <3>3. /\ a \in Nat /\ a % (2 * s) = 0 /\ a % s = 0 /\ (a + s) % s = 0
      BY <1>1, <3>2, AlignedToHalf, AlignedNext
    <3>4. PICK r : r = a + s
      OBVIOUS
    <3>5. /\ Block(a, o) \subseteq Block(a, o + 1) /\ Block(r, o) \subseteq Block(a, o + 1)
          /\ a \in Block(a, o) /\ r \in Block(r, o) /\ r \in Nat /\ r % SIZE[o] = 0 /\ a % SIZE[o] = 0
          /\ a \in Block(a, o + 1) /\ r \in Block(a, o + 1)
      BY <3>2, <3>3, <3>4 DEF Block
    <3>6. r \in Page
      BY <1>1, <3>5 DEF Free_Blocks
    <3>7. \A x \in {a, r} : \E p \in Page : IsFree(p) /\ Block(x, o) \subseteq Block(p, order[p])
      <4>1. Run(a, o) /\ Run(r, o)
        BY <3>5
      <4>2. Whole(a, o) /\ Whole(r, o)
        BY <2>2, <3>6, <4>1
      <4>. QED BY <4>2 DEF Free_Blocks
    <3>8. PICK p \in Page, q \in Page : /\ IsFree(p) /\ Block(a, o) \subseteq Block(p, order[p])
                                        /\ IsFree(q) /\ Block(r, o) \subseteq Block(q, order[q])
      BY <3>7
    <3>9. /\ p \in Nat /\ order[p] \in Order /\ p % SIZE[order[p]] = 0
          /\ q \in Nat /\ order[q] \in Order /\ q % SIZE[order[q]] = 0
      BY <1>1, <3>8
    <3>10. CASE order[p] > o
      <4>1. order[p] \in (o + 1)..BUDDY_ORDER_MAX
        BY <1>3, <3>9, <3>10
      <4>2. a \in Block(p, order[p])
        BY <3>5, <3>8
      <4>3. Block(a, o + 1) \subseteq Block(p, order[p])
        BY <3>1, <3>2, <3>3, <3>5, <3>9, <4>1, <4>2, LargerBlockCovers
      <4>. QED BY <1>1, <3>8, <4>3
    <3>11. CASE order[q] > o
      <4>1. order[q] \in (o + 1)..BUDDY_ORDER_MAX
        BY <1>3, <3>9, <3>11
      <4>2. r \in Block(q, order[q])
        BY <3>5, <3>8
      <4>3. Block(a, o + 1) \subseteq Block(q, order[q])
        BY <3>1, <3>2, <3>3, <3>5, <3>9, <4>1, <4>2, LargerBlockCovers
      <4>. QED BY <1>1, <3>8, <4>3
    <3>12. CASE ~(order[p] > o) /\ ~(order[q] > o)
      <4>1. \A x \in {a, r} : \A y \in {p, q} :
               (IsFree(y) /\ ~(order[y] > o) /\ Block(x, o) \subseteq Block(y, order[y]))
                 => x = y /\ order[y] = o
        <5>. SUFFICES ASSUME NEW x \in {a, r}, NEW y \in {p, q}, NEW k \in Order, k = order[y],
                             ~(k > o), Block(x, o) \subseteq Block(y, k)
                      PROVE  x = y /\ k = o
          BY <3>9
        <5>1. PICK t : t = SIZE[k]
          OBVIOUS
        <5>2. t \in Nat \ {0} /\ x \in Nat /\ y \in Nat
          <6>1. x \in Nat /\ y \in Nat
            BY <3>3, <3>5, <3>9
          <6>2. t \in Nat \ {0}
            BY <5>1, SizeFacts DEF Order
          <6>. QED BY <6>1, <6>2
        <5>3. x \in y..(y + t - 1) /\ x + s - 1 \in y..(y + t - 1)
          <6>1. x \in Block(x, o) /\ x + s - 1 \in Block(x, o)
            BY <3>2, <5>2 DEF Block
          <6>. QED BY <5>1, <6>1 DEF Block
        <5>4. k < o => 2 * t <= s
          <6>1. k \in 0..BUDDY_ORDER_UPLIMIT /\ o \in k..BUDDY_ORDER_UPLIMIT
            BY <1>3, <3>1
          <6>. QED BY <3>2, <5>1, <6>1, SizesGrow
        <5>5. k = o
          <6>1. k \in Nat /\ o \in Nat /\ (k = o \/ k < o)
            BY <1>3, <3>1
          <6>2. s <= t
            BY <3>2, <5>2, <5>3
          <6>. QED BY <3>2, <5>2, <5>4, <6>1, <6>2
        <5>. QED BY <3>2, <5>1, <5>2, <5>3, <5>5
      <4>2. a = p /\ order[a] = o /\ IsFree(a) /\ order[r] = o
        BY <3>8, <3>12, <4>1
      <4>3. buddy_get(a, o) = r
        BY <3>1, <3>2, <3>3, <3>4, <3>5, BuddiesPair
      <4>4. Merges(a, o)
        BY <3>1, <3>6, <4>2, <4>3 DEF Merges
      <4>. QED BY <4>2, <4>4 DEF PageInv, BlocksInv, NoFreeHalves
    <3>. QED BY <3>10, <3>11, <3>12
  <2>. HIDE DEF S
  <2>3. \A o \in 0..(BUDDY_ORDER_MAX - 1) : o \in S
    <3>1. BUDDY_ORDER_MAX - 1 \in Nat
      BY <1>3, <1>6
    <3>2. \A o \in 0..((BUDDY_ORDER_MAX - 1) - 1) : o \in S => o + 1 \in S
      BY <1>3, <2>2
    <3>. QED BY <2>1, <3>1, <3>2, UpTo
  <2>4. Order \ {BUDDY_ORDER_MAX} = 0..(BUDDY_ORDER_MAX - 1)
    BY <1>3
  <2>. QED BY <2>3, <2>4 DEF S, FreeRunsAreWhole
<1>. QED BY <1>5, <1>6

\* A caller's block covers its request and is no one else's.
LEMMA AllocCovers ==
  ASSUME PageInv, PageInv', NEW n \in 1..MaxRequest, os_memory_page_alloc(n),
         NEW a \in given' \ given
  PROVE  /\ \A q \in a..(a + n - 1) : q \in Page /\ q \notin UNION Given_Blocks
         /\ \A q \in a..(a + n - 1) : q \notin (UNION Free_Blocks)'
<1>1. PICK o : o = os_size_to_order(n) /\ o \in Order /\ n <= SIZE[o] /\ SIZE[o] \in Nat
  BY OrderIsEnough, SizeFacts DEF Order
<1>2. PICK b : PageAlloc(o, b)
  BY <1>1 DEF os_memory_page_alloc
<1>3. init_state = "done" /\ UNCHANGED initVars
  BY DEF os_memory_page_alloc
<1>4. /\ b \in Page /\ b \notin given /\ given' = given \cup {b}
      /\ order_allocated' = [order_allocated EXCEPT ![b] = o]
  BY <1>1, <1>2, <1>3, PageAllocStep
<1>5. b = a /\ a \in Nat
  BY <1>4, PageFacts
<1>6. order_allocated \in [Page -> Order] /\ given \subseteq Page
  BY DEF PageInv, BlocksInv, PageTypeOK
<1>7. order_allocated'[a] = o /\ \A p \in given : order_allocated'[p] = order_allocated[p]
  BY <1>4, <1>5, <1>6
<1>8. Tiled /\ Tiled'
  BY DEF PageInv, BlocksInv, Tiled
<1>9. FreeIsRest'
  BY <1>8, FreeIsTheRest, PTL
<1>10. a..(a + n - 1) \subseteq Block(a, o)
  BY <1>1, <1>5 DEF Block
<1>11. Block(a, o) \subseteq Page
  BY <1>4, <1>5, <1>7, <1>9 DEF FreeIsRest
<1>12. \A p \in given : Block(p, order_allocated[p]) \cap Block(a, o) = {}
  <2>. SUFFICES ASSUME NEW p \in given PROVE Block(p, order_allocated[p]) \cap Block(a, o) = {}
    OBVIOUS
  <2>1. Block(p, order_allocated'[p]) \cap Block(a, order_allocated'[a]) = {}
    BY <1>4, <1>5, <1>9 DEF FreeIsRest
  <2>. QED BY <1>7, <2>1
<1>13. Block(a, o) \in Given_Blocks'
  BY <1>4, <1>5, <1>7 DEF Given_Blocks
<1>14. (UNION Free_Blocks)' \cap Block(a, o) = {}
  BY <1>9, <1>13 DEF FreeIsRest
<1>. QED BY <1>10, <1>11, <1>12, <1>14 DEF Given_Blocks

\* Through initialisation, every split and every merge, lists, metadata, count and
\* blocks agree, nothing is handed out twice or lost, and the assertion that ends
\* os_memory_page_init holds.
THEOREM PagesAreAccountedFor ==
  ASSUME HeapEndsAligned PROVE PageSpec => []PagesAccounted
<1>1. PageInv /\ [PageNext]_pageVars => PageInv'
  BY PageNextStep
<1>. QED BY <1>1, PageInitInv, InvAccountsForPages, PTL DEF PageSpec

\* An allocation fails only if no aligned run of free pages is large enough.
THEOREM FreeRunsStayWhole ==
  ASSUME HeapEndsAligned PROVE PageSpec => []FreeRunsAreWhole
<1>1. PageInv /\ [PageNext]_pageVars => PageInv'
  BY PageNextStep
<1>. QED BY <1>1, PageInitInv, InvKeepsRunsWhole, PTL DEF PageSpec

\* A caller of os_memory_page_alloc gets all the pages it asked for, and nobody else
\* has one of them.
THEOREM RequestsAreCovered ==
  ASSUME HeapEndsAligned PROVE PageSpec => RequestIsCovered
<1>1. PageInv /\ [PageNext]_pageVars => PageInv'
  BY PageNextStep
<1>. DEFINE Covered == \A n \in 1..MaxRequest : os_memory_page_alloc(n) =>
                         \A a \in given' \ given :
                           /\ \A q \in a..(a + n - 1) : q \in Page /\ q \notin UNION Given_Blocks
                           /\ \A q \in a..(a + n - 1) : q \notin (UNION Free_Blocks)'
<1>2. PageInv /\ [PageNext]_pageVars => [Covered]_pageVars
  BY <1>1, AllocCovers
<1>3. PageSpec => [][Covered]_pageVars
  BY <1>1, <1>2, PageInitInv, PTL DEF PageSpec
<1>. QED BY <1>3 DEF RequestIsCovered

-----------------------------------------------------------------------------
(***************************************************************************)
(* The slub caches.                                                        *)
(***************************************************************************)

\* More places than values: two places have the same.
Meet(A, f) == \E i, j \in A : i # j /\ f[i] = f[j]

LEMMA TwoMeet ==
  ASSUME NEW A, IsFiniteSet(A), NEW T, IsFiniteSet(T), Cardinality(T) < Cardinality(A), NEW f \in [A -> T]
  PROVE  Meet(A, f)
BY FS_PigeonHole DEF Meet

\* As many different objects as there are, are all of them.
LEMMA AllOfThem ==
  ASSUME NEW n \in Nat, NEW S, NEW s \in Seq(S), IsInjective(s), Len(s) = n,
         \A x : Contains(s, x) => x \in 1..n
  PROVE  \A x \in 1..n : Contains(s, x)
<1>. SUFFICES ASSUME NEW x \in 1..n, ~Contains(s, x) PROVE FALSE
  OBVIOUS
<1>1. PICK T : T = (1..n) \ {x}
  OBVIOUS
<1>2. DOMAIN s = 1..n /\ \A i \in 1..n : s[i] \in T
  <2>1. DOMAIN s = 1..n
    OBVIOUS
  <2>. QED BY <1>1, <2>1 DEF Contains
<1>3. s \in [1..n -> T]
  BY <1>2
<1>4. IsFiniteSet(1..n) /\ Cardinality(1..n) = n
  <2>1. 1 \in Int /\ n \in Int
    OBVIOUS
  <2>2. IsFiniteSet(1..n) /\ Cardinality(1..n) = IF 1 > n THEN 0 ELSE n - 1 + 1
    BY <2>1, FS_Interval
  <2>. QED BY <2>2
<1>5. IsFiniteSet(T) /\ Cardinality(T) = n - 1
  BY <1>1, <1>4, FS_RemoveElement
<1>6. Cardinality(T) < Cardinality(1..n)
  BY <1>4, <1>5
<1>7. \E i, j \in 1..n : i # j /\ s[i] = s[j]
  <2>1. PICK A : A = 1..n
    OBVIOUS
  <2>2. IsFiniteSet(A) /\ IsFiniteSet(T) /\ Cardinality(T) < Cardinality(A) /\ s \in [A -> T]
    BY <1>3, <1>4, <1>5, <1>6, <2>1
  <2>3. Meet(A, s)
    BY <2>2, TwoMeet
  <2>. QED BY <2>1, <2>3 DEF Meet
<1>. QED BY <1>2, <1>7 DEF IsInjective

\* The list of a new slub.
LEMMA CountingList ==
  ASSUME NEW n \in Nat \ {0}, NEW S, 1..n \subseteq S, NEW s, s = [i \in 1..n |-> i]
  PROVE  /\ s \in Seq(S) /\ IsInjective(s) /\ Len(s) = n /\ s # <<>>
         /\ \A x : Contains(s, x) <=> x \in 1..n
<1>1. s \in Seq(S) /\ Len(s) = n /\ DOMAIN s = 1..n
  OBVIOUS
<1>2. s # <<>>
  BY <1>1
<1>3. IsInjective(s)
  BY <1>1 DEF IsInjective
<1>4. \A x : Contains(s, x) <=> x \in 1..n
  BY <1>1 DEF Contains
<1>. QED BY <1>1, <1>2, <1>3, <1>4

\* An object of a slub is on the free list, once, or in use, and the header counts
\* the free ones.
SlubExact(p) ==
  /\ IsInjective(free_item[p])
  /\ object_cur_nr[p] = Len(free_item[p])
  /\ \A i : <<p, i>> \in objects => ~Contains(free_item[p], i)
  /\ \A i : (<<p, i>> \in objects \/ Contains(free_item[p], i)) <=> i \in 1..object_total_nr[cache[p]]

SlubsHeld == \A p \in Slubs : cache[p] \in Cache /\ order_allocated[p] = 0
ObjectsHome == \A o \in objects : o[1] \in Slubs
SlubsExact == \A p \in Slubs : SlubExact(p)

SlubInv == SlubTypeOK /\ SlubsHeld /\ ObjectsHome /\ SlubsExact /\ PartialListsExact /\ CountCoversList

MemoryInv ==
  /\ PageInv /\ SlubInv
  /\ call # NULL => init_state = "done"

LEMMA TotalsAreObjects ==
  ASSUME NEW c \in Cache
  PROVE  object_total_nr[c] \in Nat \ {0} /\ 1..object_total_nr[c] \subseteq ObjectsPerPage
BY SlubAssumption DEF ObjectsPerPage

LEMMA InvAccountsForObjects == MemoryInv => ObjectsAccounted /\ CachesExact
<1>. SUFFICES ASSUME MemoryInv PROVE ObjectsAccounted /\ CachesExact
  OBVIOUS
<1>1. CachesExact
  BY DEF MemoryInv, SlubInv, CachesExact
<1>2. ASSUME NEW p \in Slubs
      PROVE  /\ {i \in ObjectsPerPage : <<p, i>> \in objects} \cap ToSet(free_item[p]) = {}
             /\ {i \in ObjectsPerPage : <<p, i>> \in objects} \cup ToSet(free_item[p])
                  = 1..object_total_nr[cache[p]]
             /\ IsInjective(free_item[p]) /\ object_cur_nr[p] = Len(free_item[p])
  <2>1. SlubExact(p) /\ cache[p] \in Cache /\ p \in Page
    BY DEF MemoryInv, SlubInv, SlubsExact, SlubsHeld, Slubs, SlubTypeOK, PageTypeOK
  <2>2. free_item[p] \in Seq(ObjectsPerPage)
    BY <2>1 DEF MemoryInv, SlubInv, SlubTypeOK
  <2>3. \A i : Contains(free_item[p], i) <=> i \in ToSet(free_item[p])
    BY <2>2, ContainsIsElement
  <2>4. 1..object_total_nr[cache[p]] \subseteq ObjectsPerPage
    BY <2>1, TotalsAreObjects
  <2>. QED BY <2>1, <2>3, <2>4 DEF SlubExact
<1>3. ObjectsAccounted
  BY <1>2 DEF ObjectsAccounted, MemoryInv, SlubInv, ObjectsHome
<1>. QED BY <1>1, <1>3

LEMMA MemoryInitInv == MemoryInit => MemoryInv
<1>. SUFFICES ASSUME MemoryInit PROVE MemoryInv
  OBVIOUS
<1>1. PageInv
  BY PageInitInv DEF MemoryInit
<1>2. /\ cache = [p \in Page |-> NULL] /\ free_item = [p \in Page |-> <<>>]
      /\ object_cur_nr = [p \in Page |-> 0] /\ partial = [c \in Cache |-> <<>>]
      /\ partial_nr = [c \in Cache |-> 0] /\ call = NULL /\ faulted = FALSE
      /\ blocks = {} /\ objects = {} /\ given = {}
  BY DEF MemoryInit, PageInit
<1>3. Slubs = {}
  BY <1>2 DEF Slubs
<1>4. SlubTypeOK
  <2>1. PageTypeOK
    BY <1>1 DEF PageInv, BlocksInv
  <2>2. <<>> \in Seq(ObjectsPerPage) /\ <<>> \in Seq(Page)
    OBVIOUS
  <2>3. /\ cache \in [Page -> Cache \cup {NULL}] /\ free_item \in [Page -> Seq(ObjectsPerPage)]
        /\ object_cur_nr \in [Page -> Nat] /\ partial \in [Cache -> Seq(Page)]
        /\ partial_nr \in [Cache -> Nat]
    BY <1>2, <2>2
  <2>4. /\ call \in {NULL} \cup [cache : Cache, tried : 0..SLUB_MIN_PARTIAL]
        /\ faulted \in BOOLEAN /\ blocks \in SUBSET given
        /\ objects \in SUBSET (Page \X ObjectsPerPage)
    BY <1>2
  <2>. QED BY <2>1, <2>3, <2>4 DEF SlubTypeOK
<1>5. SlubsHeld /\ ObjectsHome /\ SlubsExact
  BY <1>2, <1>3 DEF SlubsHeld, ObjectsHome, SlubsExact
<1>6. PartialListsExact
  <2>1. IsInjective(<<>>) /\ \A x : ~Contains(<<>>, x)
    BY DEF IsInjective, Contains
  <2>. QED BY <1>2, <1>3, <2>1 DEF PartialListsExact
<1>7. CountCoversList
  BY <1>2 DEF CountCoversList
<1>. QED BY <1>1, <1>2, <1>4, <1>5, <1>6, <1>7 DEF MemoryInv, SlubInv

\* A step that touches no slub and no object.
LEMMA SlubsUntouched ==
  ASSUME SlubInv, PageInv', UNCHANGED <<slubVars, objects>>, Slubs' = Slubs,
         \A p \in Slubs : order_allocated'[p] = order_allocated[p],
         blocks' \in SUBSET given', faulted' \in BOOLEAN,
         call' \in {NULL} \cup [cache : Cache, tried : 0..SLUB_MIN_PARTIAL]
  PROVE  SlubInv'
<1>. USE DEF slubVars
<1>1. SlubTypeOK'
  BY DEF SlubInv, SlubTypeOK, PageInv, BlocksInv
<1>2. SlubsHeld' /\ ObjectsHome'
  BY DEF SlubInv, SlubsHeld, ObjectsHome
<1>3. SlubsExact'
  BY DEF SlubInv, SlubsExact, SlubExact
<1>4. PartialListsExact'
  BY DEF SlubInv, PartialListsExact
<1>5. CountCoversList'
  BY DEF SlubInv, CountCoversList
<1>. QED BY <1>1, <1>2, <1>3, <1>4, <1>5 DEF SlubInv

LEMMA MemoryInvStutters == MemoryInv /\ UNCHANGED memoryVars => MemoryInv'
<1>. SUFFICES ASSUME MemoryInv, UNCHANGED memoryVars PROVE MemoryInv'
  OBVIOUS
<1>. USE DEF memoryVars, heldVars
<1>1. PageInv'
  BY PageInvStutters DEF MemoryInv
<1>2. SlubInv'
  <2>1. UNCHANGED <<slubVars, objects>> /\ Slubs' = Slubs
    BY DEF pageVars, Slubs
  <2>2. \A p \in Slubs : order_allocated'[p] = order_allocated[p]
    BY DEF pageVars, buddyVars
  <2>3. /\ blocks' \in SUBSET given' /\ faulted' \in BOOLEAN
        /\ call' \in {NULL} \cup [cache : Cache, tried : 0..SLUB_MIN_PARTIAL]
    BY DEF pageVars, MemoryInv, SlubInv, SlubTypeOK
  <2>. QED BY <1>1, <2>1, <2>2, <2>3, SlubsUntouched DEF MemoryInv
<1>. QED BY <1>1, <1>2 DEF MemoryInv, pageVars, initVars

\* os_memory_page_init, while nobody holds anything.
LEMMA PageInitStep ==
  ASSUME HeapEndsAligned, MemoryInv, os_memory_page_init
  PROVE  MemoryInv' /\ UNCHANGED <<given, blocks, objects>> /\ given = {}
<1>. USE DEF os_memory_page_init, heldVars
<1>1. PageInv'
  BY InitBlockStep, InitEndStep DEF MemoryInv
<1>2. init_state = "running" /\ UNCHANGED <<given, blocks, objects>> /\ given = {}
  BY DEF os_memory_page_init_block, os_memory_page_init_end, MemoryInv, PageInv
<1>3. SlubInv'
  <2>1. UNCHANGED <<slubVars, objects>> /\ Slubs' = Slubs /\ Slubs = {}
    BY <1>2 DEF Slubs
  <2>2. /\ blocks' \in SUBSET given' /\ faulted' \in BOOLEAN
        /\ call' \in {NULL} \cup [cache : Cache, tried : 0..SLUB_MIN_PARTIAL]
    BY <1>2 DEF MemoryInv, SlubInv, SlubTypeOK
  <2>. QED BY <1>1, <2>1, <2>2, SlubsUntouched DEF MemoryInv
<1>4. call' = NULL
  BY <1>2 DEF MemoryInv
<1>. QED BY <1>1, <1>2, <1>3, <1>4 DEF MemoryInv

\* The expansion starts with an empty list only if the list was empty.
LEMMA ExpandStep ==
  ASSUME MemoryInv, NEW c \in Cache, slub_expand(c)
  PROVE  MemoryInv' /\ UNCHANGED <<given, order_allocated, blocks, objects>>
<1>. USE DEF slub_expand, heldVars
<1>1. PageInv'
  BY PageInvStutters DEF MemoryInv
<1>2. UNCHANGED <<given, order_allocated, blocks, objects, init_state>>
  BY DEF pageVars, buddyVars, initVars
<1>3. partial \in [Cache -> Seq(Page)] /\ partial[c] \in Seq(Page)
  BY DEF MemoryInv, SlubInv, SlubTypeOK
<1>4. partial[c] = <<>>
  BY <1>3 DEF MemoryInv, SlubInv, CountCoversList
<1>5. partial' = partial
  BY <1>3, <1>4
<1>6. SlubInv'
  <2>1. UNCHANGED <<slubVars, objects>> /\ Slubs' = Slubs
    BY <1>2, <1>5 DEF slubVars, Slubs
  <2>2. /\ blocks' \in SUBSET given' /\ faulted' \in BOOLEAN
    BY <1>2 DEF MemoryInv, SlubInv, SlubTypeOK
  <2>3. call' \in {NULL} \cup [cache : Cache, tried : 0..SLUB_MIN_PARTIAL]
    BY SlubAssumption
  <2>. QED BY <1>1, <1>2, <2>1, <2>2, <2>3, SlubsUntouched DEF MemoryInv
<1>. QED BY <1>1, <1>2, <1>6 DEF MemoryInv, Ready

LEMMA ExpandFailsStep ==
  ASSUME MemoryInv, slub_expand_fails
  PROVE  MemoryInv' /\ UNCHANGED <<given, order_allocated, blocks, objects>>
<1>. USE DEF slub_expand_fails, heldVars
<1>1. PageInv'
  BY PageInvStutters DEF MemoryInv
<1>2. UNCHANGED <<given, order_allocated, blocks, objects, init_state>>
  BY DEF pageVars, buddyVars, initVars
<1>3. call \in [cache : Cache, tried : 0..SLUB_MIN_PARTIAL]
  BY DEF MemoryInv, SlubInv, SlubTypeOK
<1>4. SlubInv'
  <2>1. UNCHANGED <<slubVars, objects>> /\ Slubs' = Slubs
    BY <1>2 DEF Slubs
  <2>2. /\ blocks' \in SUBSET given' /\ faulted' \in BOOLEAN
    BY <1>2 DEF MemoryInv, SlubInv, SlubTypeOK
  <2>3. call' \in {NULL} \cup [cache : Cache, tried : 0..SLUB_MIN_PARTIAL]
    BY <1>3, SlubAssumption
  <2>. QED BY <1>1, <1>2, <2>1, <2>2, <2>3, SlubsUntouched DEF MemoryInv
<1>. QED BY <1>1, <1>2, <1>4 DEF MemoryInv

LEMMA AllocPagesStep ==
  ASSUME MemoryInv, NEW n \in 1..MaxRequest, AllocPages(n)
  PROVE  /\ MemoryInv' /\ UNCHANGED objects /\ Slubs' = Slubs
         /\ \/ UNCHANGED <<given, order_allocated, blocks>>
            \/ \E a \in Page, o \in Order :
                 /\ a \notin given /\ given' = given \cup {a} /\ blocks' = blocks \cup {a}
                 /\ order_allocated' = [order_allocated EXCEPT ![a] = o]
<1>. USE DEF AllocPages
<1>1. os_size_to_order(n) \in Order
  BY OrderIsEnough
<1>2. init_state = "done" /\ UNCHANGED initVars /\ init_state' = init_state
  BY DEF os_memory_page_alloc, initVars
<1>3. \/ UNCHANGED <<buddyVars, given>>
      \/ \E a : PageAlloc(os_size_to_order(n), a)
  BY DEF os_memory_page_alloc
<1>4. /\ PageInv'
      /\ \/ UNCHANGED <<given, order_allocated, blocks>>
         \/ \E a \in Page, o \in Order :
              /\ a \notin given /\ given' = given \cup {a} /\ blocks' = blocks \cup {a}
              /\ order_allocated' = [order_allocated EXCEPT ![a] = o]
  <2>1. CASE UNCHANGED <<buddyVars, given>>
    <3>1. UNCHANGED pageVars
      BY <1>2, <2>1 DEF pageVars
    <3>2. UNCHANGED <<given, order_allocated, blocks>>
      BY <2>1 DEF buddyVars
    <3>. QED BY <3>1, <3>2, PageInvStutters DEF MemoryInv
  <2>2. ASSUME NEW a, PageAlloc(os_size_to_order(n), a)
        PROVE  /\ PageInv' /\ a \in Page
               /\ a \notin given /\ given' = given \cup {a} /\ blocks' = blocks \cup {a}
               /\ order_allocated' = [order_allocated EXCEPT ![a] = os_size_to_order(n)]
    <3>1. /\ PageInv' /\ a \in Page /\ a \notin given /\ given' = given \cup {a}
          /\ order_allocated' = [order_allocated EXCEPT ![a] = os_size_to_order(n)]
      BY <1>1, <1>2, <2>2, PageAllocStep DEF MemoryInv
    <3>2. blocks' = blocks \cup {a}
      BY <3>1
    <3>. QED BY <3>1, <3>2
  <2>. QED BY <1>1, <1>3, <2>1, <2>2
<1>5. blocks \subseteq given /\ order_allocated \in [Page -> Order] /\ given \subseteq Page
  BY DEF MemoryInv, SlubInv, SlubTypeOK, PageTypeOK
<1>6. Slubs' = Slubs /\ blocks' \in SUBSET given'
  BY <1>4, <1>5 DEF Slubs
<1>7. \A p \in Slubs : order_allocated'[p] = order_allocated[p]
  BY <1>4, <1>5 DEF Slubs
<1>8. SlubInv'
  <2>1. /\ faulted' \in BOOLEAN
        /\ call' \in {NULL} \cup [cache : Cache, tried : 0..SLUB_MIN_PARTIAL]
    BY DEF MemoryInv, SlubInv, SlubTypeOK
  <2>2. UNCHANGED <<slubVars, objects>>
    OBVIOUS
  <2>. QED BY <1>4, <1>6, <1>7, <2>1, <2>2, SlubsUntouched DEF MemoryInv
<1>. QED BY <1>2, <1>4, <1>6, <1>8 DEF MemoryInv

LEMMA FreePagesStep ==
  ASSUME MemoryInv, NEW a \in Page, FreePages(a)
  PROVE  /\ MemoryInv' /\ UNCHANGED <<objects, order_allocated>> /\ Slubs' = Slubs
         /\ a \in blocks /\ given' = given \ {a} /\ blocks' = blocks \ {a}
<1>. USE DEF FreePages, os_memory_page_free
<1>1. init_state = "done" /\ UNCHANGED initVars /\ init_state' = init_state
  BY DEF initVars
<1>2. PageInv' /\ given' = given \ {a} /\ UNCHANGED order_allocated
  BY <1>1, PageFreeStep DEF MemoryInv
<1>3. blocks \subseteq given
  BY DEF MemoryInv, SlubInv, SlubTypeOK
<1>4. Slubs' = Slubs /\ blocks' \in SUBSET given'
  BY <1>2, <1>3 DEF Slubs
<1>5. SlubInv'
  <2>1. /\ faulted' \in BOOLEAN
        /\ call' \in {NULL} \cup [cache : Cache, tried : 0..SLUB_MIN_PARTIAL]
    BY DEF MemoryInv, SlubInv, SlubTypeOK
  <2>2. UNCHANGED <<slubVars, objects>>
    OBVIOUS
  <2>. QED BY <1>2, <1>4, <2>1, <2>2, SlubsUntouched DEF MemoryInv
<1>. QED BY <1>1, <1>2, <1>4, <1>5 DEF MemoryInv

\* A new slub: all its objects are free.
LEMMA ExpandPageStep ==
  ASSUME MemoryInv, slub_expand_page
  PROVE  /\ MemoryInv' /\ UNCHANGED <<blocks, objects>>
         /\ \E p \in Page : /\ p \notin given /\ given' = given \cup {p}
                            /\ order_allocated' = [order_allocated EXCEPT ![p] = 0]
<1>1. PICK c : c = call.cache
  OBVIOUS
<1>2. PICK p \in Page :
         /\ PageAlloc(0, p)
         /\ slub_page_init(p, c)
         /\ partial' = [partial EXCEPT ![c] = <<p>> \o partial[c]]
  BY <1>1 DEF slub_expand_page
<1>3. /\ call \in [cache : Cache, tried : 0..SLUB_MIN_PARTIAL] /\ call.tried < SLUB_MIN_PARTIAL
      /\ c \in Cache /\ call' = [call EXCEPT !.tried = call.tried + 1]
      /\ partial_nr' = [partial_nr EXCEPT ![c] = partial_nr[c] + 1]
      /\ UNCHANGED <<initVars, faulted, heldVars>>
  BY <1>1 DEF slub_expand_page, MemoryInv, SlubInv, SlubTypeOK
<1>4. init_state = "done" /\ UNCHANGED <<initVars, init_state, blocks, objects, faulted>> /\ 0 \in Order
  BY <1>3, SizeFacts DEF slub_expand_page, MemoryInv, initVars, heldVars, Order
<1>5. /\ PageInv' /\ p \notin given /\ given' = given \cup {p}
      /\ order_allocated' = [order_allocated EXCEPT ![p] = 0]
  BY <1>2, <1>4, PageAllocStep DEF MemoryInv
<1>6. /\ order_allocated \in [Page -> Order] /\ given \subseteq Page /\ blocks \subseteq given
      /\ cache \in [Page -> Cache \cup {NULL}] /\ free_item \in [Page -> Seq(ObjectsPerPage)]
      /\ object_cur_nr \in [Page -> Nat] /\ partial \in [Cache -> Seq(Page)]
      /\ partial_nr \in [Cache -> Nat] /\ objects \in SUBSET (Page \X ObjectsPerPage)
  BY DEF MemoryInv, SlubInv, SlubTypeOK, PageTypeOK
<1>7. Slubs' = Slubs \cup {p} /\ p \notin Slubs /\ Slubs \subseteq Page
  BY <1>4, <1>5, <1>6 DEF Slubs
<1>8. PICK n \in Nat \ {0}, s \in Seq(ObjectsPerPage) :
         /\ n = object_total_nr[c] /\ s = [i \in 1..n |-> i]
         /\ IsInjective(s) /\ Len(s) = n /\ s # <<>>
         /\ \A x : Contains(s, x) <=> x \in 1..n
  <2>1. PICK n \in Nat \ {0} : n = object_total_nr[c] /\ 1..n \subseteq ObjectsPerPage
    BY <1>3, TotalsAreObjects
  <2>2. PICK s : s = [i \in 1..n |-> i]
    OBVIOUS
  <2>3. /\ s \in Seq(ObjectsPerPage) /\ IsInjective(s) /\ Len(s) = n /\ s # <<>>
        /\ \A x : Contains(s, x) <=> x \in 1..n
    BY <2>1, <2>2, CountingList
  <2>. QED BY <2>1, <2>2, <2>3
<1>9. /\ cache' = [cache EXCEPT ![p] = c] /\ free_item' = [free_item EXCEPT ![p] = s]
      /\ object_cur_nr' = [object_cur_nr EXCEPT ![p] = n]
  BY <1>2, <1>8 DEF slub_page_init
<1>10. /\ \A q \in Slubs : /\ q # p /\ cache'[q] = cache[q] /\ free_item'[q] = free_item[q]
                           /\ object_cur_nr'[q] = object_cur_nr[q]
                           /\ order_allocated'[q] = order_allocated[q]
       /\ cache'[p] = c /\ free_item'[p] = s /\ object_cur_nr'[p] = n /\ order_allocated'[p] = 0
  BY <1>5, <1>6, <1>7, <1>9
<1>11. SlubsHeld' /\ ObjectsHome'
  <2>1. \A q \in Slubs' : cache'[q] \in Cache /\ order_allocated'[q] = 0
    BY <1>3, <1>7, <1>10 DEF MemoryInv, SlubInv, SlubsHeld
  <2>2. \A o \in objects' : o[1] \in Slubs'
    BY <1>4, <1>7 DEF MemoryInv, SlubInv, ObjectsHome
  <2>. QED BY <2>1, <2>2 DEF SlubsHeld, ObjectsHome
<1>12. SlubsExact'
  <2>1. \A q \in Slubs : SlubExact(q)'
    BY <1>4, <1>10 DEF MemoryInv, SlubInv, SlubsExact, SlubExact
  <2>2. \A i : <<p, i>> \notin objects
    BY <1>7 DEF MemoryInv, SlubInv, ObjectsHome
  <2>3. SlubExact(p)'
    BY <1>4, <1>8, <1>10, <2>2 DEF SlubExact
  <2>. QED BY <1>7, <2>1, <2>3 DEF SlubsExact
<1>13. ASSUME NEW d \in Cache
       PROVE  /\ partial'[d] \in Seq(Page) /\ IsInjective(partial'[d])
              /\ partial_nr'[d] \in Nat /\ partial_nr'[d] >= Len(partial'[d])
              /\ \A q \in Page : Contains(partial'[d], q) <=>
                   q \in Slubs' /\ cache'[q] = d /\ free_item'[q] # <<>>
  <2>1. /\ partial[d] \in Seq(Page) /\ IsInjective(partial[d]) /\ partial_nr[d] \in Nat
        /\ partial_nr[d] >= Len(partial[d])
        /\ \A q \in Page : Contains(partial[d], q) <=>
             q \in Slubs /\ cache[q] = d /\ free_item[q] # <<>>
    BY <1>6 DEF MemoryInv, SlubInv, PartialListsExact, CountCoversList
  <2>2. CASE d = c
    <3>1. PICK l : l = <<p>> \o partial[c]
      OBVIOUS
    <3>2. partial'[d] = l /\ partial_nr'[d] = partial_nr[d] + 1
      BY <1>2, <1>3, <1>6, <2>2, <3>1
    <3>3. l \in Seq(Page) /\ Len(l) = Len(partial[d]) + 1
      BY <2>1, <2>2, <3>1
    <3>4. /\ \A x : Contains(l, x) <=> Contains(partial[d], x) \/ x = p
          /\ IsInjective(partial[d]) /\ ~Contains(partial[d], p) => IsInjective(l)
      BY <2>1, <2>2, <3>1, Prepended
    <3>5. ~Contains(partial[d], p)
      BY <1>7, <2>1
    <3>6. \A q \in Page : Contains(l, q) <=> q \in Slubs' /\ cache'[q] = d /\ free_item'[q] # <<>>
      BY <1>7, <1>8, <1>10, <2>1, <2>2, <3>4
    <3>. QED BY <2>1, <3>2, <3>3, <3>4, <3>5, <3>6
  <2>3. CASE d # c
    <3>1. partial'[d] = partial[d] /\ partial_nr'[d] = partial_nr[d]
      BY <1>2, <1>3, <1>6, <2>3
    <3>2. \A q \in Page : Contains(partial[d], q) <=> q \in Slubs' /\ cache'[q] = d /\ free_item'[q] # <<>>
      BY <1>7, <1>10, <2>1, <2>3
    <3>. QED BY <2>1, <3>1, <3>2
  <2>. QED BY <2>2, <2>3
<1>14. SlubTypeOK'
  <2>1. PageTypeOK'
    BY <1>5 DEF PageInv, BlocksInv
  <2>2. /\ cache' \in [Page -> Cache \cup {NULL}] /\ free_item' \in [Page -> Seq(ObjectsPerPage)]
        /\ object_cur_nr' \in [Page -> Nat]
    BY <1>3, <1>6, <1>8, <1>9
  <2>3. partial' \in [Cache -> Seq(Page)] /\ partial_nr' \in [Cache -> Nat]
    BY <1>2, <1>3, <1>6, <1>13
  <2>4. call' \in {NULL} \cup [cache : Cache, tried : 0..SLUB_MIN_PARTIAL]
    BY <1>3, SlubAssumption
  <2>5. faulted' \in BOOLEAN /\ blocks' \in SUBSET given' /\ objects' \in SUBSET (Page \X ObjectsPerPage)
    BY <1>4, <1>5 DEF MemoryInv, SlubInv, SlubTypeOK
  <2>. QED BY <2>1, <2>2, <2>3, <2>4, <2>5 DEF SlubTypeOK
<1>15. PartialListsExact' /\ CountCoversList'
  BY <1>13 DEF PartialListsExact, CountCoversList
<1>16. SlubInv'
  BY <1>11, <1>12, <1>14, <1>15 DEF SlubInv
<1>. QED BY <1>4, <1>5, <1>16 DEF MemoryInv

\* An object leaves its slub's free list and is in use.
LEMMA TakeObjectStep ==
  ASSUME MemoryInv, PageInv', NEW c \in Cache, TakeObject(c), call' = NULL,
         UNCHANGED <<pageVars, blocks>>
  PROVE  /\ SlubInv'
         /\ \E p \in Slubs, i \in Nat \ {0} : /\ <<p, i>> \notin objects /\ i \in ObjectsPerPage
                                              /\ objects' = objects \cup {<<p, i>>}
<1>1. PICK p, i, s, full : /\ p = Head(partial[c]) /\ s = free_item[p] /\ i = Head(s)
                           /\ full = (Tail(s) = <<>>)
  OBVIOUS
<1>2. /\ partial[c] # <<>>
      /\ free_item' = [free_item EXCEPT ![p] = Tail(free_item[p])]
      /\ object_cur_nr' = [object_cur_nr EXCEPT ![p] = object_cur_nr[p] - 1]
      /\ partial' = [partial EXCEPT ![c] = IF full THEN Tail(partial[c]) ELSE partial[c]]
      /\ partial_nr' = [partial_nr EXCEPT ![c] = IF full THEN partial_nr[c] - 1 ELSE partial_nr[c]]
      /\ objects' = objects \cup {<<p, i>>}
      /\ UNCHANGED <<cache, faulted>>
  BY <1>1 DEF TakeObject
<1>3. /\ cache \in [Page -> Cache \cup {NULL}] /\ free_item \in [Page -> Seq(ObjectsPerPage)]
      /\ object_cur_nr \in [Page -> Nat] /\ partial \in [Cache -> Seq(Page)]
      /\ partial_nr \in [Cache -> Nat] /\ objects \in SUBSET (Page \X ObjectsPerPage)
      /\ UNCHANGED <<given, blocks, order_allocated>> /\ Slubs' = Slubs
  BY DEF MemoryInv, SlubInv, SlubTypeOK, pageVars, buddyVars, Slubs
<1>4. ASSUME NEW d \in Cache
      PROVE  /\ partial[d] \in Seq(Page) /\ IsInjective(partial[d]) /\ partial_nr[d] \in Nat
             /\ partial_nr[d] >= Len(partial[d])
             /\ \A q \in Page : Contains(partial[d], q) <=>
                  q \in Slubs /\ cache[q] = d /\ free_item[q] # <<>>
  BY <1>3 DEF MemoryInv, SlubInv, PartialListsExact, CountCoversList
<1>5. /\ p \in Page /\ Contains(partial[c], p) /\ Len(partial[c]) \in Nat \ {0}
      /\ Tail(partial[c]) \in Seq(Page) /\ IsInjective(Tail(partial[c]))
      /\ Len(Tail(partial[c])) = Len(partial[c]) - 1
      /\ \A q : Contains(Tail(partial[c]), q) <=> Contains(partial[c], q) /\ q # p
  BY <1>1, <1>2, <1>4, HeadTakenOut
<1>6. p \in Slubs /\ cache[p] = c /\ s # <<>> /\ s \in Seq(ObjectsPerPage) /\ SlubExact(p)
  BY <1>1, <1>3, <1>4, <1>5 DEF MemoryInv, SlubInv, SlubsExact
<1>7. /\ i \in ObjectsPerPage /\ Contains(s, i) /\ Len(s) \in Nat \ {0}
      /\ Tail(s) \in Seq(ObjectsPerPage) /\ IsInjective(Tail(s)) /\ Len(Tail(s)) = Len(s) - 1
      /\ \A x : Contains(Tail(s), x) <=> Contains(s, x) /\ x # i
  <2>1. IsInjective(s)
    BY <1>1, <1>6 DEF SlubExact
  <2>. QED BY <1>1, <1>6, <2>1, HeadTakenOut
<1>8. <<p, i>> \notin objects /\ i \in 1..object_total_nr[c] /\ i \in Nat \ {0}
  <2>1. <<p, i>> \notin objects /\ i \in 1..object_total_nr[c]
    BY <1>1, <1>6, <1>7 DEF SlubExact
  <2>. QED BY <2>1
<1>9. /\ \A q \in Page : q # p => free_item'[q] = free_item[q] /\ object_cur_nr'[q] = object_cur_nr[q]
      /\ free_item'[p] = Tail(s) /\ object_cur_nr'[p] = object_cur_nr[p] - 1 /\ cache' = cache
  BY <1>1, <1>2, <1>3, <1>5
<1>10. SlubsHeld' /\ ObjectsHome'
  BY <1>2, <1>3, <1>6, <1>9, SMTT(30) DEF MemoryInv, SlubInv, SlubsHeld, ObjectsHome
<1>11. SlubsExact'
  <2>1. ASSUME NEW q \in Slubs, q # p PROVE SlubExact(q)'
    <3>1. SlubExact(q) /\ q \in Page
      BY DEF MemoryInv, SlubInv, SlubsExact, Slubs, SlubTypeOK, PageTypeOK
    <3>2. \A x : <<q, x>> \in objects' <=> <<q, x>> \in objects
      BY <1>2, <2>1
    <3>. QED BY <1>9, <2>1, <3>1, <3>2 DEF SlubExact
  <2>2. SlubExact(p)'
    <3>1. \A x : <<p, x>> \in objects' <=> <<p, x>> \in objects \/ x = i
      BY <1>2
    <3>2. /\ object_cur_nr[p] = Len(s)
          /\ \A x : <<p, x>> \in objects => ~Contains(s, x)
          /\ \A x : (<<p, x>> \in objects \/ Contains(s, x)) <=> x \in 1..object_total_nr[cache[p]]
      BY <1>1, <1>6 DEF SlubExact
    <3>3. IsInjective(free_item'[p]) /\ object_cur_nr'[p] = Len(free_item'[p])
      BY <1>7, <1>9, <3>2
    <3>4. /\ \A x : <<p, x>> \in objects' => ~Contains(free_item'[p], x)
          /\ \A x : (<<p, x>> \in objects' \/ Contains(free_item'[p], x)) <=> x \in 1..object_total_nr[cache'[p]]
      BY <1>7, <1>9, <3>1, <3>2
    <3>. QED BY <3>3, <3>4 DEF SlubExact
  <2>. QED BY <1>3, <2>1, <2>2 DEF SlubsExact
<1>12. ASSUME NEW d \in Cache
       PROVE  /\ partial'[d] \in Seq(Page) /\ IsInjective(partial'[d])
              /\ partial_nr'[d] \in Nat /\ partial_nr'[d] >= Len(partial'[d])
              /\ \A q \in Page : Contains(partial'[d], q) <=>
                   q \in Slubs' /\ cache'[q] = d /\ free_item'[q] # <<>>
  <2>1. CASE d = c /\ full
    <3>1. partial'[d] = Tail(partial[c]) /\ partial_nr'[d] = partial_nr[c] - 1
      BY <1>2, <1>3, <2>1
    <3>2. free_item'[p] = <<>>
      BY <1>1, <1>9, <2>1
    <3>3. \A q \in Page : Contains(partial'[d], q) <=> q \in Slubs' /\ cache'[q] = d /\ free_item'[q] # <<>>
      BY <1>3, <1>4, <1>5, <1>9, <2>1, <3>1, <3>2
    <3>4. partial_nr'[d] \in Nat /\ partial_nr'[d] >= Len(partial'[d])
      BY <1>4, <1>5, <3>1
    <3>. QED BY <1>5, <3>1, <3>3, <3>4
  <2>2. CASE d # c \/ ~full
    <3>1. partial'[d] = partial[d] /\ partial_nr'[d] = partial_nr[d]
      BY <1>2, <1>3, <2>2
    <3>2. d = c => free_item'[p] # <<>>
      BY <1>1, <1>9, <2>2
    <3>3. \A q \in Page : (free_item'[q] # <<>> /\ cache[q] = d) <=> (free_item[q] # <<>> /\ cache[q] = d)
      BY <1>1, <1>6, <1>9, <3>2
    <3>. QED BY <1>3, <1>4, <1>9, <3>1, <3>3
  <2>. QED BY <2>1, <2>2
<1>13. SlubTypeOK'
  <2>1. PageTypeOK'
    BY DEF PageInv, BlocksInv
  <2>2. free_item' \in [Page -> Seq(ObjectsPerPage)]
    BY <1>1, <1>2, <1>3, <1>7
  <2>3. object_cur_nr' \in [Page -> Nat]
    <3>1. object_cur_nr[p] - 1 \in Nat
      BY <1>1, <1>6, <1>7 DEF SlubExact
    <3>. QED BY <1>2, <1>3, <3>1
  <2>4. partial' \in [Cache -> Seq(Page)] /\ partial_nr' \in [Cache -> Nat]
    BY <1>2, <1>3, <1>12
  <2>5. objects' \in SUBSET (Page \X ObjectsPerPage)
    <3>1. <<p, i>> \in Page \X ObjectsPerPage
      BY <1>5, <1>7
    <3>2. objects' = objects \cup {<<p, i>>} /\ objects \in SUBSET (Page \X ObjectsPerPage)
      BY <1>2, <1>3
    <3>. QED BY <3>1, <3>2
  <2>6. /\ cache' \in [Page -> Cache \cup {NULL}] /\ faulted' \in BOOLEAN /\ blocks' \in SUBSET given'
    BY <1>2, <1>3 DEF MemoryInv, SlubInv, SlubTypeOK
  <2>. QED BY <2>1, <2>2, <2>3, <2>4, <2>5, <2>6 DEF SlubTypeOK
<1>14. PartialListsExact' /\ CountCoversList'
  BY <1>12 DEF PartialListsExact, CountCoversList
<1>15. SlubInv'
  BY <1>10, <1>11, <1>13, <1>14 DEF SlubInv
<1>. QED BY <1>2, <1>6, <1>7, <1>8, <1>15

LEMMA SlubAllocStep ==
  ASSUME MemoryInv, NEW c \in Cache, os_memory_slub_alloc(c)
  PROVE  /\ MemoryInv' /\ UNCHANGED <<given, order_allocated, blocks>>
         /\ \/ UNCHANGED objects
            \/ \E p \in Slubs, i \in Nat \ {0} : /\ <<p, i>> \notin objects /\ i \in ObjectsPerPage
                                                 /\ objects' = objects \cup {<<p, i>>}
<1>1. UNCHANGED <<pageVars, blocks>> /\ call' = NULL
  BY DEF os_memory_slub_alloc
<1>2. PageInv' /\ UNCHANGED <<given, order_allocated, blocks>> /\ Slubs' = Slubs
  BY <1>1, PageInvStutters DEF MemoryInv, pageVars, buddyVars, Slubs
<1>3. CASE TakeObject(c)
  BY <1>1, <1>2, <1>3, TakeObjectStep DEF MemoryInv
<1>4. CASE UNCHANGED <<slubVars, objects>> /\ faulted' \in BOOLEAN
  <2>1. /\ blocks' \in SUBSET given'
        /\ call' \in {NULL} \cup [cache : Cache, tried : 0..SLUB_MIN_PARTIAL]
    BY <1>1, <1>2 DEF MemoryInv, SlubInv, SlubTypeOK
  <2>2. SlubInv'
    BY <1>2, <1>4, <2>1, SlubsUntouched DEF MemoryInv
  <2>. QED BY <1>1, <1>2, <1>4, <2>2 DEF MemoryInv
<1>5. FollowNull(c) \/ UNCHANGED <<slubVars, faulted, objects>> =>
        UNCHANGED <<slubVars, objects>> /\ faulted' \in BOOLEAN
  BY DEF FollowNull, MemoryInv, SlubInv, SlubTypeOK
<1>. QED BY <1>3, <1>4, <1>5 DEF os_memory_slub_alloc

\* An object goes back to its slub, and an empty slub that is not needed goes back to
\* the buddy system: no object of it is in use.
LEMMA SlubFreeStep ==
  ASSUME MemoryInv, NEW p, NEW i, os_memory_slub_free(p, i)
  PROVE  /\ MemoryInv' /\ UNCHANGED <<order_allocated, blocks>>
         /\ <<p, i>> \in objects /\ objects' = objects \ {<<p, i>>} /\ p \in Slubs
         /\ \/ Slubs' = Slubs
            \/ Slubs' = Slubs \ {p}
         /\ given' = given \/ given' = given \ {p}
<1>1. PICK c, s, list, nr : /\ c = cache[p] /\ s = free_item[p] /\ nr = Regained(p)
                            /\ list = IF s = <<>> THEN <<p>> \o partial[c] ELSE partial[c]
  OBVIOUS
<1>2. /\ init_state = "done" /\ call = NULL /\ <<p, i>> \in objects
      /\ objects' = objects \ {<<p, i>>}
      /\ free_item' = [free_item EXCEPT ![p] = <<i>> \o free_item[p]]
      /\ object_cur_nr' = [object_cur_nr EXCEPT ![p] = object_cur_nr[p] + 1]
      /\ partial_nr' = [partial_nr EXCEPT ![c] = nr]
      /\ UNCHANGED <<initVars, init_state, cache, call, faulted, blocks>>
      /\ \/ /\ Surplus(p, nr)
            /\ partial' = [partial EXCEPT ![c] = page_remove(list, p)]
            /\ PageFree(p)
         \/ /\ ~Surplus(p, nr)
            /\ partial' = [partial EXCEPT ![c] = list]
            /\ UNCHANGED <<buddyVars, given>>
  BY <1>1 DEF os_memory_slub_free, Ready, initVars
<1>3. /\ cache \in [Page -> Cache \cup {NULL}] /\ free_item \in [Page -> Seq(ObjectsPerPage)]
      /\ object_cur_nr \in [Page -> Nat] /\ partial \in [Cache -> Seq(Page)]
      /\ partial_nr \in [Cache -> Nat] /\ objects \in SUBSET (Page \X ObjectsPerPage)
      /\ Slubs \subseteq Page /\ Slubs \subseteq given /\ blocks \subseteq given /\ Slubs \cap blocks = {}
  BY DEF MemoryInv, SlubInv, SlubTypeOK, PageTypeOK, Slubs
<1>4. /\ p \in Slubs /\ p \in Page /\ i \in ObjectsPerPage /\ c \in Cache
      /\ SlubExact(p) /\ s \in Seq(ObjectsPerPage) /\ order_allocated[p] = 0
  <2>1. p \in Slubs /\ i \in ObjectsPerPage
    <3>1. <<p, i>>[1] \in Slubs
      BY <1>2 DEF MemoryInv, SlubInv, ObjectsHome
    <3>. QED BY <1>2, <1>3, <3>1
  <2>. QED BY <1>1, <1>3, <2>1 DEF MemoryInv, SlubInv, SlubsExact, SlubsHeld
<1>5. /\ IsInjective(s) /\ object_cur_nr[p] = Len(s) /\ ~Contains(s, i)
      /\ \A x : <<p, x>> \in objects => ~Contains(s, x)
      /\ \A x : (<<p, x>> \in objects \/ Contains(s, x)) <=> x \in 1..object_total_nr[c]
  BY <1>1, <1>2, <1>4 DEF SlubExact
<1>6. PICK t : t = <<i>> \o s
  OBVIOUS
<1>7. /\ t \in Seq(ObjectsPerPage) /\ IsInjective(t) /\ t # <<>> /\ Len(t) = Len(s) + 1
      /\ \A x : Contains(t, x) <=> Contains(s, x) \/ x = i
  <2>1. t # <<>> /\ Len(t) = Len(s) + 1
    BY <1>4, <1>6
  <2>2. /\ t \in Seq(ObjectsPerPage) /\ IsInjective(t)
        /\ \A x : Contains(t, x) <=> Contains(s, x) \/ x = i
    BY <1>4, <1>5, <1>6, Prepended
  <2>. QED BY <2>1, <2>2
<1>8. /\ \A q \in Page : q # p => free_item'[q] = free_item[q] /\ object_cur_nr'[q] = object_cur_nr[q]
      /\ free_item'[p] = t /\ object_cur_nr'[p] = Len(t) /\ cache' = cache
  BY <1>1, <1>2, <1>3, <1>4, <1>5, <1>6, <1>7
<1>9. \A q \in Slubs : SlubExact(q)'
  <2>1. ASSUME NEW q \in Slubs, q # p PROVE SlubExact(q)'
    <3>1. SlubExact(q) /\ q \in Page
      BY <1>3 DEF MemoryInv, SlubInv, SlubsExact
    <3>2. \A x : <<q, x>> \in objects' <=> <<q, x>> \in objects
      BY <1>2, <2>1
    <3>. QED BY <1>8, <2>1, <3>1, <3>2 DEF SlubExact
  <2>2. SlubExact(p)'
    <3>1. \A x : <<p, x>> \in objects' <=> <<p, x>> \in objects /\ x # i
      BY <1>2
    <3>2. i \in 1..object_total_nr[c]
      BY <1>2, <1>5
    <3>3. /\ \A x : <<p, x>> \in objects' => ~Contains(t, x)
          /\ \A x : (<<p, x>> \in objects' \/ Contains(t, x)) <=> x \in 1..object_total_nr[c]
      BY <1>5, <1>7, <3>1, <3>2
    <3>. QED BY <1>1, <1>7, <1>8, <3>3 DEF SlubExact
  <2>. QED BY <2>1, <2>2
<1>10. ASSUME NEW d \in Cache
       PROVE  /\ partial[d] \in Seq(Page) /\ IsInjective(partial[d]) /\ partial_nr[d] \in Nat
              /\ partial_nr[d] >= Len(partial[d]) /\ Len(partial[d]) \in Nat
              /\ \A q \in Page : Contains(partial[d], q) <=>
                   q \in Slubs /\ cache[q] = d /\ free_item[q] # <<>>
  BY <1>3 DEF MemoryInv, SlubInv, PartialListsExact, CountCoversList
<1>11. /\ list \in Seq(Page) /\ IsInjective(list) /\ nr \in Nat /\ Len(list) \in Nat /\ nr >= Len(list)
       /\ \A q \in Page : Contains(list, q) <=> q \in Slubs /\ cache'[q] = c /\ free_item'[q] # <<>>
  <2>1. CASE s = <<>>
    <3>1. list = <<p>> \o partial[c] /\ nr = partial_nr[c] + 1
      BY <1>1, <2>1 DEF Regained
    <3>2. ~Contains(partial[c], p)
      BY <1>1, <1>4, <1>10, <2>1
    <3>3. Len(<<p>> \o partial[c]) = Len(partial[c]) + 1
      BY <1>4, <1>10
    <3>4. /\ list \in Seq(Page) /\ IsInjective(list)
          /\ \A x : Contains(list, x) <=> Contains(partial[c], x) \/ x = p
      BY <1>4, <1>10, <3>1, <3>2, Prepended
    <3>5. \A q \in Page : Contains(list, q) <=> q \in Slubs /\ cache'[q] = c /\ free_item'[q] # <<>>
      BY <1>1, <1>4, <1>7, <1>8, <1>10, <3>4
    <3>6. nr \in Nat /\ Len(list) \in Nat /\ nr >= Len(list)
      BY <1>4, <1>10, <3>1, <3>3
    <3>. QED BY <3>4, <3>5, <3>6
  <2>2. CASE s # <<>>
    <3>1. list = partial[c] /\ nr = partial_nr[c]
      BY <1>1, <2>2 DEF Regained
    <3>2. \A q \in Page : Contains(list, q) <=> q \in Slubs /\ cache'[q] = c /\ free_item'[q] # <<>>
      BY <1>1, <1>4, <1>7, <1>8, <1>10, <2>2, <3>1
    <3>. QED BY <1>4, <1>10, <3>1, <3>2
  <2>. QED BY <2>1, <2>2
<1>12. /\ free_item' \in [Page -> Seq(ObjectsPerPage)] /\ object_cur_nr' \in [Page -> Nat]
       /\ objects' \in SUBSET (Page \X ObjectsPerPage) /\ partial_nr' \in [Cache -> Nat]
       /\ cache' \in [Page -> Cache \cup {NULL}] /\ faulted' \in BOOLEAN
       /\ call' \in {NULL} \cup [cache : Cache, tried : 0..SLUB_MIN_PARTIAL]
  <2>1. free_item' \in [Page -> Seq(ObjectsPerPage)]
    BY <1>1, <1>2, <1>3, <1>6, <1>7
  <2>2. object_cur_nr' \in [Page -> Nat] /\ partial_nr' \in [Cache -> Nat]
    <3>1. object_cur_nr[p] + 1 \in Nat
      BY <1>3, <1>4
    <3>. QED BY <1>2, <1>3, <1>11, <3>1
  <2>3. objects' \in SUBSET (Page \X ObjectsPerPage) /\ cache' \in [Page -> Cache \cup {NULL}]
    BY <1>2, <1>3
  <2>. QED BY <1>2, <2>1, <2>2, <2>3 DEF MemoryInv, SlubInv, SlubTypeOK
<1>13. \A d \in Cache : d # c => partial'[d] = partial[d] /\ partial_nr'[d] = partial_nr[d]
  BY <1>2, <1>3
<1>14. partial_nr'[c] = nr
  BY <1>2, <1>3, <1>4
<1>15. /\ PageInv' /\ UNCHANGED order_allocated /\ blocks' \in SUBSET given'
       /\ Slubs' = Slubs \/ Slubs' = Slubs \ {p}
       /\ given' = given \/ given' = given \ {p}
       /\ \A o \in objects' : o[1] \in Slubs'
       /\ partial' \in [Cache -> Seq(Page)]
       /\ IsInjective(partial'[c]) /\ nr >= Len(partial'[c])
       /\ \A q \in Page : Contains(partial'[c], q) <=> q \in Slubs' /\ cache'[q] = c /\ free_item'[q] # <<>>
  <2>1. \A o \in objects : o[1] \in Slubs
    BY DEF MemoryInv, SlubInv, ObjectsHome
  <2>2. CASE /\ ~Surplus(p, nr)
             /\ partial' = [partial EXCEPT ![c] = list]
             /\ UNCHANGED <<buddyVars, given>>
    <3>1. UNCHANGED pageVars /\ UNCHANGED <<order_allocated, given>>
      BY <1>2, <2>2 DEF pageVars, buddyVars
    <3>2. PageInv' /\ Slubs' = Slubs
      BY <1>2, <3>1, PageInvStutters DEF MemoryInv, Slubs
    <3>3. partial' \in [Cache -> Seq(Page)] /\ partial'[c] = list
      BY <1>3, <1>4, <1>11, <2>2
    <3>4. \A o \in objects' : o[1] \in Slubs'
      BY <1>2, <2>1, <3>2
    <3>. QED BY <1>2, <1>3, <1>11, <3>1, <3>2, <3>3, <3>4
  <2>3. CASE /\ Surplus(p, nr)
             /\ partial' = [partial EXCEPT ![c] = page_remove(list, p)]
             /\ PageFree(p)
    <3>1. PageInv' /\ given' = given \ {p} /\ UNCHANGED order_allocated
      BY <1>2, <1>3, <1>4, <2>3, PageFreeStep DEF MemoryInv
    <3>2. Slubs' = Slubs \ {p} /\ blocks' \in SUBSET given'
      BY <1>2, <1>3, <1>4, <3>1 DEF Slubs
    <3>3. PICK l : l = page_remove(list, p)
      OBVIOUS
    <3>4. /\ l \in Seq(Page) /\ IsInjective(l) /\ Len(l) <= Len(list) /\ Len(l) \in Nat
          /\ \A q : Contains(l, q) <=> Contains(list, q) /\ q # p
      BY <1>11, <3>3, PageRemoved
    <3>5. partial' \in [Cache -> Seq(Page)] /\ partial'[c] = l
      BY <1>3, <1>4, <2>3, <3>3, <3>4
    <3>6. \A x : <<p, x>> \notin objects'
      <4>1. PICK n \in Nat \ {0} : n = object_total_nr[c]
        BY <1>4, TotalsAreObjects
      <4>2. Len(t) = n
        BY <1>1, <1>5, <1>7, <2>3, <4>1 DEF Surplus
      <4>3. \A x : Contains(t, x) => x \in 1..n
        BY <1>2, <1>5, <1>7, <4>1
      <4>4. \A x \in 1..n : Contains(t, x)
        BY <1>7, <4>1, <4>2, <4>3, AllOfThem
      <4>5. \A x : <<p, x>> \in objects' => x \in 1..n /\ x # i /\ ~Contains(s, x)
        BY <1>2, <1>5, <4>1
      <4>. QED BY <1>7, <4>4, <4>5
    <3>7. \A o \in objects' : o[1] \in Slubs'
      <4>. SUFFICES ASSUME NEW o \in objects' PROVE o[1] \in Slubs'
        OBVIOUS
      <4>1. o \in objects /\ o = <<o[1], o[2]>>
        BY <1>2, <1>3
      <4>2. o[1] # p
        BY <3>6, <4>1
      <4>. QED BY <2>1, <3>2, <4>1, <4>2
    <3>8. \A q \in Page : Contains(l, q) <=> q \in Slubs' /\ cache'[q] = c /\ free_item'[q] # <<>>
      BY <1>11, <3>2, <3>4
    <3>9. nr >= Len(l)
      BY <1>11, <3>4
    <3>. QED BY <3>1, <3>2, <3>4, <3>5, <3>7, <3>8, <3>9
  <2>. QED BY <1>2, <2>2, <2>3
<1>16. SlubTypeOK'
  BY <1>12, <1>15 DEF SlubTypeOK, PageInv, BlocksInv
<1>17. SlubsHeld' /\ ObjectsHome' /\ SlubsExact'
  <2>1. \A q \in Slubs' : q \in Slubs
    BY <1>15
  <2>2. SlubsHeld'
    BY <1>8, <1>15, <2>1 DEF MemoryInv, SlubInv, SlubsHeld
  <2>. QED BY <1>9, <1>15, <2>1, <2>2 DEF ObjectsHome, SlubsExact
<1>18. PartialListsExact'
  <2>. SUFFICES ASSUME NEW d \in Cache
                PROVE  /\ IsInjective(partial'[d])
                       /\ \A q \in Page : Contains(partial'[d], q) <=>
                            q \in Slubs' /\ cache'[q] = d /\ free_item'[q] # <<>>
    BY DEF PartialListsExact
  <2>1. CASE d = c
    BY <1>15, <2>1
  <2>2. CASE d # c
    <3>1. partial'[d] = partial[d] /\ cache'[p] # d
      BY <1>1, <1>8, <1>13, <2>2
    <3>2. \A q \in Page : q # p => (q \in Slubs' <=> q \in Slubs)
      BY <1>15
    <3>3. \A q \in Page : Contains(partial[d], q) <=> q \in Slubs' /\ cache'[q] = d /\ free_item'[q] # <<>>
      <4>. SUFFICES ASSUME NEW q \in Page
                    PROVE  Contains(partial[d], q) <=> q \in Slubs' /\ cache'[q] = d /\ free_item'[q] # <<>>
        OBVIOUS
      <4>1. Contains(partial[d], q) <=> q \in Slubs /\ cache[q] = d /\ free_item[q] # <<>>
        BY <1>10
      <4>. QED BY <1>8, <3>1, <3>2, <4>1
    <3>. QED BY <1>10, <3>1, <3>3
  <2>. QED BY <2>1, <2>2
<1>19. CountCoversList'
  BY <1>10, <1>13, <1>14, <1>15 DEF CountCoversList
<1>20. SlubInv'
  BY <1>16, <1>17, <1>18, <1>19 DEF SlubInv
<1>21. MemoryInv'
  BY <1>2, <1>15, <1>20 DEF MemoryInv
<1>. QED BY <1>2, <1>4, <1>15, <1>21

LEMMA MemoryNextStep == HeapEndsAligned /\ MemoryInv /\ [MemoryNext]_memoryVars => MemoryInv'
<1>. SUFFICES ASSUME HeapEndsAligned, MemoryInv, [MemoryNext]_memoryVars PROVE MemoryInv'
  OBVIOUS
<1>1. CASE os_memory_page_init
  BY <1>1, PageInitStep
<1>2. ASSUME NEW c \in Cache, slub_expand(c) PROVE MemoryInv'
  BY <1>2, ExpandStep
<1>3. ASSUME NEW c \in Cache, os_memory_slub_alloc(c) PROVE MemoryInv'
  BY <1>3, SlubAllocStep
<1>4. CASE slub_expand_page
  BY <1>4, ExpandPageStep
<1>5. CASE slub_expand_fails
  BY <1>5, ExpandFailsStep
<1>6. ASSUME NEW n \in 1..MaxRequest, AllocPages(n) PROVE MemoryInv'
  BY <1>6, AllocPagesStep
<1>7. ASSUME NEW a \in Page, FreePages(a) PROVE MemoryInv'
  BY <1>7, FreePagesStep
<1>8. ASSUME NEW o \in objects, os_memory_slub_free(o[1], o[2]) PROVE MemoryInv'
  BY <1>8, SlubFreeStep
<1>9. CASE UNCHANGED memoryVars
  BY <1>9, MemoryInvStutters
<1>. QED BY <1>1, <1>2, <1>3, <1>4, <1>5, <1>6, <1>7, <1>8, <1>9
         DEF MemoryNext, os_memory_alloc, os_memory_free, AllocObject

\* No object is lost or handed out twice, and no page with an object in use goes back
\* to the buddy system.
THEOREM ObjectsAreAccountedFor ==
  ASSUME HeapEndsAligned PROVE MemorySpec => []ObjectsAccounted
<1>1. MemoryInv /\ [MemoryNext]_memoryVars => MemoryInv'
  BY MemoryNextStep
<1>. QED BY <1>1, MemoryInitInv, InvAccountsForObjects, PTL DEF MemorySpec

\* A cache's list holds exactly the slubs it can take an object from, and slub_expand,
\* which empties it, forgets none.
THEOREM CachesStayExact ==
  ASSUME HeapEndsAligned PROVE MemorySpec => []CachesExact
<1>1. MemoryInv /\ [MemoryNext]_memoryVars => MemoryInv'
  BY MemoryNextStep
<1>. QED BY <1>1, MemoryInitInv, InvAccountsForObjects, PTL DEF MemorySpec

\* Under the slub caches too, the pages are accounted for.
THEOREM PagesAreAccountedForUnderSlubs ==
  ASSUME HeapEndsAligned PROVE MemorySpec => [](PagesAccounted /\ FreeRunsAreWhole)
<1>1. MemoryInv /\ [MemoryNext]_memoryVars => MemoryInv'
  BY MemoryNextStep
<1>2. MemoryInv => PagesAccounted /\ FreeRunsAreWhole
  BY InvAccountsForPages, InvKeepsRunsWhole DEF MemoryInv
<1>. QED BY <1>1, <1>2, MemoryInitInv, PTL DEF MemorySpec

-----------------------------------------------------------------------------
(***************************************************************************)
(* The abstract heap.                                                      *)
(***************************************************************************)
HeapFacts ==
  /\ \A p \in Slubs : p \in Page /\ \A a \in blocks : p \notin Block(a, order_allocated[a])
  /\ \A a, b \in blocks : a # b =>
       Block(a, order_allocated[a]) \cap Block(b, order_allocated[b]) = {}
  /\ \A a \in blocks : /\ a \in Page /\ order_allocated[a] \in Order
                       /\ a \in Block(a, order_allocated[a]) /\ a \notin Slubs
  /\ \A o \in objects : o[1] \in Slubs /\ o = <<o[1], o[2]>> /\ o[2] \in ObjectsPerPage
  /\ 0 \notin ObjectsPerPage

LEMMA InvSeparates == MemoryInv => HeapFacts
<1>. SUFFICES ASSUME MemoryInv PROVE HeapFacts
  OBVIOUS
<1>1. FreeIsRest
  BY FreeIsTheRest DEF MemoryInv, PageInv, BlocksInv, Tiled
<1>2. /\ given \subseteq Page /\ blocks \subseteq given /\ order_allocated \in [Page -> Order]
      /\ objects \in SUBSET (Page \X ObjectsPerPage) /\ Slubs = given \ blocks
  BY DEF MemoryInv, SlubInv, SlubTypeOK, PageTypeOK, Slubs
<1>3. \A p \in Slubs : p \in Page /\ \A a \in blocks : p \notin Block(a, order_allocated[a])
  <2>. SUFFICES ASSUME NEW p \in Slubs, NEW a \in blocks, p \in Block(a, order_allocated[a]) PROVE FALSE
    BY <1>2
  <2>1. p \in given /\ a \in given /\ p # a
    BY <1>2
  <2>2. p \in Block(p, order_allocated[p])
    BY <1>1, <2>1 DEF FreeIsRest
  <2>3. Block(p, order_allocated[p]) \cap Block(a, order_allocated[a]) = {}
    BY <1>1, <2>1 DEF FreeIsRest
  <2>. QED BY <2>2, <2>3
<1>4. \A a, b \in blocks : a # b =>
        Block(a, order_allocated[a]) \cap Block(b, order_allocated[b]) = {}
  BY <1>1, <1>2 DEF FreeIsRest
<1>5. \A a \in blocks : /\ a \in Page /\ order_allocated[a] \in Order
                        /\ a \in Block(a, order_allocated[a]) /\ a \notin Slubs
  BY <1>1, <1>2 DEF FreeIsRest
<1>6. \A o \in objects : o[1] \in Slubs /\ o = <<o[1], o[2]>> /\ o[2] \in ObjectsPerPage
  BY <1>2 DEF MemoryInv, SlubInv, ObjectsHome
<1>7. 0 \notin ObjectsPerPage
  <2>1. \A c \in Cache : 0 \notin 1..object_total_nr[c]
    BY SlubAssumption
  <2>. QED BY <2>1 DEF ObjectsPerPage
<1>. QED BY <1>3, <1>4, <1>5, <1>6, <1>7 DEF HeapFacts

LEMMA CellsOfBlock ==
  ASSUME NEW a, NEW o
  PROVE  \A q, j : <<q, j>> \in BlockCells(a, o) <=> q \in Block(a, o) /\ j \in ObjectsPerPage \cup {0}
BY DEF BlockCells, Cells

\* Two regions in use have no cell in common.
LEMMA RegionsApart == HeapFacts => Heap!Disjoint
<1>. SUFFICES ASSUME HeapFacts, NEW r \in InUse, NEW s \in InUse, NEW x, x \in r, x \in s
              PROVE  r = s
  BY DEF Heap!Disjoint
<1>1. ASSUME NEW t \in InUse, x \in t
      PROVE  \/ \E p \in Slubs : x = <<p, 0>> /\ t = Header(p)
             \/ x \in objects /\ t = {x}
             \/ \E a \in blocks : /\ t = BlockCells(a, order_allocated[a])
                                  /\ x = <<x[1], x[2]>> /\ x[1] \in Block(a, order_allocated[a])
  BY <1>1 DEF InUse, Header, BlockCells, Cells
<1>2. CASE \E p \in Slubs : x = <<p, 0>> /\ r = Header(p)
  BY <1>1, <1>2 DEF HeapFacts, Header
<1>3. CASE x \in objects /\ r = {x}
  BY <1>1, <1>3 DEF HeapFacts, Header
<1>4. CASE \E a \in blocks : /\ r = BlockCells(a, order_allocated[a])
                             /\ x = <<x[1], x[2]>> /\ x[1] \in Block(a, order_allocated[a])
  BY <1>1, <1>4 DEF HeapFacts, Header
<1>. QED BY <1>1, <1>2, <1>3, <1>4

\* Each call of the memory system allocates or releases regions of the abstract heap.
LEMMA HeaderTaken ==
  ASSUME HeapFacts, HeapFacts', UNCHANGED <<blocks, objects>>,
         NEW p \in Page, Slubs' = Slubs \cup {p}, p \notin Slubs,
         \A a \in blocks : order_allocated'[a] = order_allocated[a]
  PROVE  Heap!Next
<1>1. PICK r : r = Header(p)
  OBVIOUS
<1>2. r \in HeapRegion
  BY <1>1 DEF HeapRegion, Header
<1>3. InUse' = InUse \cup {r}
  BY <1>1 DEF InUse
<1>4. r \cap UNION InUse = {}
  <2>. SUFFICES ASSUME NEW s \in InUse, <<p, 0>> \in s PROVE FALSE
    BY <1>1 DEF Header
  <2>1. CASE \E q \in Slubs : s = Header(q)
    BY <2>1 DEF Header
  <2>2. CASE \E o \in objects : s = {o}
    BY <2>2 DEF HeapFacts
  <2>3. CASE \E a \in blocks : s = BlockCells(a, order_allocated[a])
    <3>1. PICK a \in blocks : p \in Block(a, order_allocated[a])
      BY <2>3, CellsOfBlock
    <3>. QED BY <3>1 DEF HeapFacts
  <2>. QED BY <2>1, <2>2, <2>3 DEF InUse
<1>5. Heap!Allocate(r)
  BY <1>3, <1>4 DEF Heap!Allocate
<1>. QED BY <1>2, <1>5 DEF Heap!Next

LEMMA ObjectTaken ==
  ASSUME HeapFacts, UNCHANGED <<blocks, order_allocated>>, Slubs' = Slubs,
         NEW p \in Slubs, NEW i \in Nat \ {0}, i \in ObjectsPerPage, <<p, i>> \notin objects,
         objects' = objects \cup {<<p, i>>}
  PROVE  Heap!Next
<1>1. PICK r : r = {<<p, i>>}
  OBVIOUS
<1>2. r \in HeapRegion
  BY <1>1 DEF HeapRegion, HeapFacts
<1>3. InUse' = InUse \cup {r}
  BY <1>1 DEF InUse
<1>4. r \cap UNION InUse = {}
  <2>. SUFFICES ASSUME NEW s \in InUse, <<p, i>> \in s PROVE FALSE
    BY <1>1
  <2>1. CASE \E q \in Slubs : s = Header(q)
    BY <2>1 DEF Header
  <2>2. CASE \E o \in objects : s = {o}
    BY <2>2
  <2>3. CASE \E a \in blocks : s = BlockCells(a, order_allocated[a])
    <3>1. PICK a \in blocks : p \in Block(a, order_allocated[a])
      BY <2>3, CellsOfBlock
    <3>. QED BY <3>1 DEF HeapFacts
  <2>. QED BY <2>1, <2>2, <2>3 DEF InUse
<1>5. Heap!Allocate(r)
  BY <1>3, <1>4 DEF Heap!Allocate
<1>. QED BY <1>2, <1>5 DEF Heap!Next

LEMMA BlockTaken ==
  ASSUME HeapFacts, HeapFacts', UNCHANGED objects, Slubs' = Slubs,
         NEW b \in Page, NEW o \in Order, b \notin blocks, blocks' = blocks \cup {b},
         order_allocated'[b] = o,
         \A a \in blocks : order_allocated'[a] = order_allocated[a]
  PROVE  Heap!Next
<1>1. PICK r : r = BlockCells(b, o)
  OBVIOUS
<1>2. r \in HeapRegion
  BY <1>1 DEF HeapRegion
<1>3. InUse' = InUse \cup {r}
  BY <1>1 DEF InUse
<1>4. r \cap UNION InUse = {}
  <2>. SUFFICES ASSUME NEW s \in InUse, NEW x, x \in s, x \in r PROVE FALSE
    OBVIOUS
  <2>1. x = <<x[1], x[2]>> /\ x[1] \in Block(b, o)
    BY <1>1 DEF BlockCells, Cells
  <2>2. \A q \in Slubs : q \notin Block(b, o)
    BY DEF HeapFacts
  <2>3. \A a \in blocks : Block(a, order_allocated[a]) \cap Block(b, o) = {}
    <3>. SUFFICES ASSUME NEW a \in blocks PROVE Block(a, order_allocated[a]) \cap Block(b, o) = {}
      OBVIOUS
    <3>1. Block(a, order_allocated'[a]) \cap Block(b, order_allocated'[b]) = {}
      BY DEF HeapFacts
    <3>. QED BY <3>1
  <2>4. CASE \E q \in Slubs : s = Header(q)
    BY <2>1, <2>2, <2>4 DEF Header
  <2>5. CASE \E k \in objects : s = {k}
    BY <2>1, <2>2, <2>5 DEF HeapFacts
  <2>6. CASE \E a \in blocks : s = BlockCells(a, order_allocated[a])
    <3>1. PICK a \in blocks : x[1] \in Block(a, order_allocated[a])
      BY <2>1, <2>6, CellsOfBlock
    <3>. QED BY <2>1, <2>3, <3>1
  <2>. QED BY <2>4, <2>5, <2>6 DEF InUse
<1>5. Heap!Allocate(r)
  BY <1>3, <1>4 DEF Heap!Allocate
<1>. QED BY <1>2, <1>5 DEF Heap!Next

LEMMA ObjectReleased ==
  ASSUME HeapFacts, UNCHANGED <<blocks, order_allocated>>,
         NEW p \in Slubs, NEW i, <<p, i>> \in objects, objects' = objects \ {<<p, i>>},
         Slubs' = Slubs \/ Slubs' = Slubs \ {p}
  PROVE  Heap!Next
<1>1. PICK R : R = {{<<p, i>>}} \cup (IF Slubs' = Slubs THEN {} ELSE {Header(p)})
  OBVIOUS
<1>2. R \subseteq InUse
  BY <1>1 DEF InUse
<1>3. i \in ObjectsPerPage /\ i # 0
  <2>1. <<p, i>>[2] \in ObjectsPerPage
    BY DEF HeapFacts
  <2>. QED BY <2>1 DEF HeapFacts
<1>4. \A q : {<<p, i>>} # Header(q)
  BY <1>3 DEF Header
<1>5. \A q : Header(q) = Header(p) => q = p
  <2>. SUFFICES ASSUME NEW q, Header(q) = Header(p) PROVE q = p
    OBVIOUS
  <2>1. <<q, 0>> \in {<<p, 0>>}
    BY DEF Header
  <2>. QED BY <2>1
<1>6. \A a \in blocks : /\ BlockCells(a, order_allocated[a]) # {<<p, i>>}
                        /\ BlockCells(a, order_allocated[a]) # Header(p)
  <2>. SUFFICES ASSUME NEW a \in blocks
                PROVE  /\ BlockCells(a, order_allocated[a]) # {<<p, i>>}
                       /\ BlockCells(a, order_allocated[a]) # Header(p)
    OBVIOUS
  <2>1. <<a, 0>> \in BlockCells(a, order_allocated[a]) /\ a # p
    BY CellsOfBlock DEF HeapFacts
  <2>. QED BY <2>1 DEF Header
<1>7. \A k \in objects : {k} # Header(p)
  BY DEF HeapFacts, Header
<1>8. InUse' = InUse \ R
  <2>1. CASE Slubs' = Slubs
    BY <1>1, <1>4, <1>6, <2>1 DEF InUse
  <2>2. CASE Slubs' # Slubs
    <3>1. Slubs' = Slubs \ {p} /\ R = {{<<p, i>>}, Header(p)}
      BY <1>1, <2>2
    <3>. QED BY <1>4, <1>5, <1>6, <1>7, <3>1 DEF InUse
  <2>. QED BY <2>1, <2>2
<1>9. Heap!Release(R)
  BY <1>2, <1>8 DEF Heap!Release
<1>. QED BY <1>2, <1>9 DEF Heap!Next

LEMMA BlockReleased ==
  ASSUME HeapFacts, UNCHANGED <<objects, order_allocated>>, Slubs' = Slubs,
         NEW b \in blocks, blocks' = blocks \ {b}
  PROVE  Heap!Next
<1>1. PICK r : r = BlockCells(b, order_allocated[b])
  OBVIOUS
<1>2. {r} \subseteq InUse
  BY <1>1 DEF InUse
<1>3. <<b, 0>> \in r
  BY <1>1, CellsOfBlock DEF HeapFacts
<1>4. \A q \in Slubs : Header(q) # r
  BY <1>3 DEF HeapFacts, Header
<1>5. \A k \in objects : {k} # r
  BY <1>3 DEF HeapFacts
<1>6. \A a \in blocks : a # b => BlockCells(a, order_allocated[a]) # r
  <2>. SUFFICES ASSUME NEW a \in blocks, a # b, <<b, 0>> \in BlockCells(a, order_allocated[a])
                PROVE  FALSE
    BY <1>3
  <2>1. b \in Block(a, order_allocated[a])
    BY CellsOfBlock
  <2>. QED BY <2>1 DEF HeapFacts
<1>7. InUse' = InUse \ {r}
  BY <1>1, <1>4, <1>5, <1>6 DEF InUse
<1>8. Heap!Release({r})
  BY <1>2, <1>7 DEF Heap!Release
<1>. QED BY <1>2, <1>8 DEF Heap!Next

\* What each call does to the regions in use: one is allocated, some are released, or
\* they stay as they are.
LEMMA InUseStutters ==
  ASSUME UNCHANGED <<blocks, objects>>, Slubs' = Slubs,
         \A a \in blocks : order_allocated'[a] = order_allocated[a]
  PROVE  UNCHANGED InUse
BY DEF InUse

LEMMA HeapStep ==
  ASSUME HeapEndsAligned, MemoryInv, MemoryInv', HeapFacts, HeapFacts', [MemoryNext]_memoryVars
  PROVE  [Heap!Next]_InUse
<1>1. /\ order_allocated \in [Page -> Order] /\ blocks \subseteq given /\ given \subseteq Page
  BY DEF MemoryInv, SlubInv, SlubTypeOK, PageTypeOK
<1>2. CASE os_memory_page_init
  <2>1. UNCHANGED <<given, blocks, objects>> /\ given = {}
    BY <1>2, PageInitStep
  <2>2. Slubs' = Slubs /\ blocks = {}
    BY <1>1, <2>1 DEF Slubs
  <2>. QED BY <2>1, <2>2, InUseStutters
<1>3. ASSUME NEW c \in Cache, slub_expand(c) PROVE UNCHANGED InUse
  <2>1. UNCHANGED <<given, order_allocated, blocks, objects>>
    BY <1>3, ExpandStep
  <2>. QED BY <2>1, InUseStutters DEF Slubs
<1>4. ASSUME NEW c \in Cache, os_memory_slub_alloc(c) PROVE [Heap!Next]_InUse
  <2>1. /\ UNCHANGED <<given, order_allocated, blocks>>
        /\ \/ UNCHANGED objects
           \/ \E p \in Slubs, i \in Nat \ {0} : /\ <<p, i>> \notin objects /\ i \in ObjectsPerPage
                                                /\ objects' = objects \cup {<<p, i>>}
    BY <1>4, SlubAllocStep
  <2>2. Slubs' = Slubs
    BY <2>1 DEF Slubs
  <2>3. CASE UNCHANGED objects
    BY <2>1, <2>2, <2>3, InUseStutters
  <2>4. CASE \E p \in Slubs, i \in Nat \ {0} : /\ <<p, i>> \notin objects /\ i \in ObjectsPerPage
                                                /\ objects' = objects \cup {<<p, i>>}
    BY <2>1, <2>2, <2>4, ObjectTaken
  <2>. QED BY <2>1, <2>3, <2>4
<1>5. CASE slub_expand_page
  <2>1. /\ UNCHANGED <<blocks, objects>>
        /\ \E p \in Page : /\ p \notin given /\ given' = given \cup {p}
                           /\ order_allocated' = [order_allocated EXCEPT ![p] = 0]
    BY <1>5, ExpandPageStep
  <2>2. PICK p \in Page : /\ p \notin given /\ given' = given \cup {p}
                          /\ order_allocated' = [order_allocated EXCEPT ![p] = 0]
    BY <2>1
  <2>3. Slubs' = Slubs \cup {p} /\ p \notin Slubs
    BY <1>1, <2>1, <2>2 DEF Slubs
  <2>4. \A a \in blocks : order_allocated'[a] = order_allocated[a]
    BY <1>1, <2>2
  <2>. QED BY <2>1, <2>3, <2>4, HeaderTaken
<1>6. CASE slub_expand_fails
  <2>1. UNCHANGED <<given, order_allocated, blocks, objects>>
    BY <1>6 DEF slub_expand_fails, pageVars, buddyVars, heldVars
  <2>. QED BY <2>1, InUseStutters DEF Slubs
<1>7. ASSUME NEW n \in 1..MaxRequest, AllocPages(n) PROVE [Heap!Next]_InUse
  <2>1. /\ UNCHANGED objects /\ Slubs' = Slubs
        /\ \/ UNCHANGED <<given, order_allocated, blocks>>
           \/ \E a \in Page, o \in Order :
                /\ a \notin given /\ given' = given \cup {a} /\ blocks' = blocks \cup {a}
                /\ order_allocated' = [order_allocated EXCEPT ![a] = o]
    BY <1>7, AllocPagesStep
  <2>2. CASE UNCHANGED <<given, order_allocated, blocks>>
    BY <2>1, <2>2, InUseStutters
  <2>3. ASSUME NEW b \in Page, NEW o \in Order, b \notin given, blocks' = blocks \cup {b},
               order_allocated' = [order_allocated EXCEPT ![b] = o]
        PROVE  Heap!Next
    <3>1. b \notin blocks /\ order_allocated'[b] = o
      BY <1>1, <2>3
    <3>2. \A a \in blocks : order_allocated'[a] = order_allocated[a]
      BY <1>1, <2>3
    <3>. QED BY <2>1, <2>3, <3>1, <3>2, BlockTaken
  <2>. QED BY <2>1, <2>2, <2>3
<1>8. ASSUME NEW b \in Page, FreePages(b) PROVE Heap!Next
  <2>1. /\ UNCHANGED <<objects, order_allocated>> /\ Slubs' = Slubs
        /\ b \in blocks /\ blocks' = blocks \ {b}
    BY <1>8, FreePagesStep DEF FreePages
  <2>. QED BY <2>1, BlockReleased
<1>9. ASSUME NEW k \in objects, os_memory_slub_free(k[1], k[2]) PROVE Heap!Next
  <2>1. PICK p, i : p = k[1] /\ i = k[2]
    OBVIOUS
  <2>2. /\ UNCHANGED <<order_allocated, blocks>>
        /\ <<p, i>> \in objects /\ objects' = objects \ {<<p, i>>} /\ p \in Slubs
        /\ Slubs' = Slubs \/ Slubs' = Slubs \ {p}
    BY <1>9, <2>1, SlubFreeStep
  <2>. QED BY <2>2, ObjectReleased
<1>10. CASE UNCHANGED memoryVars
  <2>1. UNCHANGED <<given, order_allocated, blocks, objects>>
    BY <1>10 DEF memoryVars, pageVars, buddyVars, heldVars
  <2>. QED BY <2>1, InUseStutters DEF Slubs
<1>. QED BY <1>2, <1>3, <1>4, <1>5, <1>6, <1>7, <1>8, <1>9, <1>10
         DEF MemoryNext, os_memory_alloc, os_memory_free, AllocObject

\* The slub caches on the buddy system implement the abstract heap: each call allocates
\* one region that nobody holds, releases regions in use, or changes neither.
THEOREM MemoryImplementsHeap ==
  ASSUME HeapEndsAligned PROVE MemorySpec => ImplementsHeapAllocator
<1>1. MemoryInv /\ [MemoryNext]_memoryVars => MemoryInv'
  BY MemoryNextStep
<1>2. MemoryInit => Heap!Init
  BY DEF MemoryInit, PageInit, Heap!Init, InUse, Slubs
<1>3. MemoryInv /\ MemoryInv' /\ [MemoryNext]_memoryVars => [Heap!Next]_InUse
  <2>. SUFFICES ASSUME MemoryInv, MemoryInv', [MemoryNext]_memoryVars PROVE [Heap!Next]_InUse
    OBVIOUS
  <2>1. HeapFacts /\ HeapFacts'
    BY InvSeparates, PTL
  <2>. QED BY <2>1, HeapStep
<1>. QED BY <1>1, <1>2, <1>3, MemoryInitInv, PTL DEF MemorySpec, ImplementsHeapAllocator, Heap!Spec

\* Whatever mixture of pages and objects is allocated and freed, no cell is in the hands
\* of two owners, one of which may be the allocator itself.
THEOREM NoCellHasTwoOwners ==
  ASSUME HeapEndsAligned PROVE MemorySpec => []Heap!Disjoint
<1>1. MemoryInv /\ [MemoryNext]_memoryVars => MemoryInv'
  BY MemoryNextStep
<1>2. MemoryInv => Heap!Disjoint
  BY InvSeparates, RegionsApart
<1>. QED BY <1>1, <1>2, MemoryInitInv, PTL DEF MemorySpec
=============================================================================
