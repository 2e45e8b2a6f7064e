-------------------------- MODULE StructureProofs --------------------------
(***************************************************************************)
(* What is proved of the parts that work each for itself: lists and hash   *)
(* maps, bitmaps, symbol tables and formatted output.                      *)
(***************************************************************************)
EXTENDS OsHashmap, OsBitmap, OsDebug, OsIo, DataLemmas

-----------------------------------------------------------------------------
(***************************************************************************)
(* Lists, pointer by pointer.  A ring is a list with its entries: position *)
(* 0 and the position behind the last entry are the list itself.           *)
(***************************************************************************)
At(list, s, k) == IF k \in 1..Len(s) THEN s[k] ELSE list

Links(D) == [D -> [prev : Int, next : Int]]

Ring(D, L, list, s) ==
  /\ D \subseteq Int \ {ListNull} /\ L \in Links(D) /\ list \in D
  /\ s \in Seq(D) /\ IsInjective(s) /\ \A k \in 1..Len(s) : s[k] # list
  /\ \A k \in 0..Len(s) : /\ L[At(list, s, k)].next = At(list, s, k + 1)
                          /\ L[At(list, s, k + 1)].prev = At(list, s, k)

LEMMA RingPositions ==
  ASSUME NEW D, NEW L, NEW list, NEW s, Ring(D, L, list, s)
  PROVE  /\ Len(s) \in Nat /\ DOMAIN s = 1..Len(s)
         /\ \A k \in 0..(Len(s) + 1) : At(list, s, k) \in D /\ At(list, s, k) # ListNull
         /\ At(list, s, 0) = list /\ At(list, s, Len(s) + 1) = list
         /\ \A k \in 1..Len(s) : At(list, s, k) = s[k] /\ s[k] # list
         /\ \A j, k \in 0..Len(s) : At(list, s, j) = At(list, s, k) => j = k
<1>1. /\ D \subseteq Int \ {ListNull} /\ list \in D /\ s \in Seq(D)
      /\ \A j, k \in DOMAIN s : s[j] = s[k] => j = k
      /\ \A k \in 1..Len(s) : s[k] # list
  BY DEF Ring, IsInjective
<1>2. Len(s) \in Nat /\ DOMAIN s = 1..Len(s) /\ \A k \in 1..Len(s) : s[k] \in D
  BY <1>1
<1>3. \A k \in 1..Len(s) : At(list, s, k) = s[k]
  BY DEF At
<1>4. At(list, s, 0) = list /\ At(list, s, Len(s) + 1) = list
  BY <1>2 DEF At
<1>5. \A k \in 0..(Len(s) + 1) : At(list, s, k) \in D
  BY <1>1, <1>2 DEF At
<1>6. \A j, k \in 0..Len(s) : At(list, s, j) = At(list, s, k) => j = k
  BY <1>1, <1>2 DEF At
<1>. QED BY <1>1, <1>2, <1>3, <1>4, <1>5, <1>6

\* t is s with x behind position k.
Inserted(s, k, x, t) ==
  /\ DOMAIN t = 1..(Len(s) + 1)
  /\ \A j \in 1..(Len(s) + 1) : t[j] = IF j <= k THEN s[j] ELSE IF j = k + 1 THEN x ELSE s[j - 1]

\* A node linked in between two neighbours of a ring.
LEMMA RingInsert ==
  ASSUME NEW D, NEW L, NEW list, NEW s, Ring(D, L, list, s), NEW k \in 0..Len(s),
         NEW x \in D, x # list, \A j \in 1..Len(s) : s[j] # x,
         NEW M \in Links(D), M[x] = [prev |-> At(list, s, k), next |-> At(list, s, k + 1)],
         \A y \in D \ {x} :
           /\ M[y].next = IF y = At(list, s, k) THEN x ELSE L[y].next
           /\ M[y].prev = IF y = At(list, s, k + 1) THEN x ELSE L[y].prev,
         NEW t, t \in Seq(D), Inserted(s, k, x, t)
  PROVE  Ring(D, M, list, t)
<1>1. PICK n \in Nat : n = Len(s) /\ DOMAIN s = 1..n
  BY RingPositions
<1>2. /\ Len(t) = n + 1 /\ DOMAIN t = 1..(n + 1)
      /\ \A j \in 1..(n + 1) : t[j] = IF j <= k THEN s[j] ELSE IF j = k + 1 THEN x ELSE s[j - 1]
  BY <1>1 DEF Inserted
<1>3. \A i, j \in 1..n : s[i] = s[j] => i = j
  BY <1>1 DEF Ring, IsInjective
<1>4. IsInjective(t) /\ \A j \in 1..(n + 1) : t[j] # list
  <2>1. \A j \in 1..n : s[j] # list /\ s[j] # x
    BY <1>1, RingPositions
  <2>2. ASSUME NEW i \in 1..(n + 1), NEW j \in 1..(n + 1), t[i] = t[j], i < j PROVE FALSE
    <3>1. CASE j <= k
      BY <1>1, <1>2, <1>3, <2>2, <3>1
    <3>2. CASE j = k + 1
      BY <1>1, <1>2, <2>1, <2>2, <3>2
    <3>3. CASE j > k + 1
      <4>1. t[j] = s[j - 1] /\ j - 1 \in 1..n
        BY <1>1, <1>2, <3>3
      <4>2. CASE i <= k
        BY <1>1, <1>2, <1>3, <2>2, <3>3, <4>1, <4>2
      <4>3. CASE i = k + 1
        BY <1>1, <1>2, <2>1, <2>2, <4>1, <4>3
      <4>4. CASE i > k + 1
        <5>1. t[i] = s[i - 1] /\ i - 1 \in 1..n
          BY <1>1, <1>2, <4>4
        <5>. QED BY <1>3, <2>2, <4>1, <5>1
      <4>. QED BY <1>1, <4>2, <4>3, <4>4
    <3>. QED BY <1>1, <3>1, <3>2, <3>3
  <2>3. \A i, j \in 1..(n + 1) : t[i] = t[j] => i = j
    <3>1. \A i, j \in 1..(n + 1) : i < j \/ i = j \/ j < i
      OBVIOUS
    <3>. QED BY <2>2, <3>1
  <2>4. ASSUME NEW j \in 1..(n + 1) PROVE t[j] # list
    <3>1. CASE j <= k
      BY <1>1, <1>2, <2>1, <3>1
    <3>2. CASE j = k + 1
      BY <1>1, <1>2, <3>2
    <3>3. CASE j > k + 1
      <4>1. t[j] = s[j - 1] /\ j - 1 \in 1..n
        BY <1>1, <1>2, <3>3
      <4>. QED BY <2>1, <4>1
    <3>. QED BY <1>1, <3>1, <3>2, <3>3
  <2>. QED BY <1>2, <2>3, <2>4 DEF IsInjective
<1>5. \A j \in 0..(n + 2) : At(list, t, j) = IF j <= k THEN At(list, s, j)
                                             ELSE IF j = k + 1 THEN x ELSE At(list, s, j - 1)
  BY <1>1, <1>2 DEF At
<1>6. /\ \A j \in 0..(n + 1) : At(list, s, j) \in D /\ At(list, s, j) # x
      /\ \A i, j \in 0..n : At(list, s, i) = At(list, s, j) => i = j
      /\ \A i, j \in 1..(n + 1) : At(list, s, i) = At(list, s, j) => i = j
      /\ \A j \in 0..n : /\ L[At(list, s, j)].next = At(list, s, j + 1)
                         /\ L[At(list, s, j + 1)].prev = At(list, s, j)
  <2>1. \A j \in 0..(n + 1) : At(list, s, j) \in D /\ At(list, s, j) # x
    BY <1>1, RingPositions DEF At
  <2>2. \A i, j \in 0..n : At(list, s, i) = At(list, s, j) => i = j
    BY <1>1, RingPositions
  <2>3. \A i, j \in 1..(n + 1) : At(list, s, i) = At(list, s, j) => i = j
    BY <1>1, <1>3, RingPositions DEF At
  <2>. QED BY <1>1, <2>1, <2>2, <2>3 DEF Ring
<1>7. \A j \in 0..(n + 1) : /\ M[At(list, t, j)].next = At(list, t, j + 1)
                            /\ M[At(list, t, j + 1)].prev = At(list, t, j)
  <2>. SUFFICES ASSUME NEW j \in 0..(n + 1)
                PROVE  /\ M[At(list, t, j)].next = At(list, t, j + 1)
                       /\ M[At(list, t, j + 1)].prev = At(list, t, j)
    OBVIOUS
  <2>1. CASE j < k
    <3>1. At(list, t, j) = At(list, s, j) /\ At(list, t, j + 1) = At(list, s, j + 1)
      BY <1>1, <1>5, <2>1
    <3>2. At(list, s, j) # At(list, s, k) /\ At(list, s, j + 1) # At(list, s, k + 1)
      BY <1>1, <1>6, <2>1
    <3>3. /\ j \in 0..n /\ At(list, s, j) \in D \ {x} /\ At(list, s, j + 1) \in D \ {x}
          /\ L[At(list, s, j)].next = At(list, s, j + 1) /\ L[At(list, s, j + 1)].prev = At(list, s, j)
      BY <1>1, <1>6, <2>1
    <3>. QED BY <3>1, <3>2, <3>3
  <2>2. CASE j = k
    <3>1. At(list, t, j) = At(list, s, k) /\ At(list, t, j + 1) = x
      BY <1>1, <1>5, <2>2
    <3>. QED BY <1>1, <1>6, <3>1
  <2>3. CASE j = k + 1
    <3>1. At(list, t, j) = x /\ At(list, t, j + 1) = At(list, s, k + 1)
      BY <1>1, <1>5, <2>3
    <3>. QED BY <1>1, <1>6, <3>1
  <2>4. CASE j > k + 1
    <3>1. At(list, t, j) = At(list, s, j - 1) /\ At(list, t, j + 1) = At(list, s, j)
      <4>1. /\ j \in 0..(n + 2) /\ ~(j <= k) /\ j # k + 1
            /\ j + 1 \in 0..(n + 2) /\ ~(j + 1 <= k) /\ j + 1 # k + 1 /\ (j + 1) - 1 = j
        BY <1>1, <2>4
      <4>. QED BY <1>5, <4>1
    <3>2. At(list, s, j - 1) # At(list, s, k) /\ At(list, s, j) # At(list, s, k + 1)
      <4>1. /\ j - 1 \in 0..n /\ j - 1 # k /\ j \in 1..(n + 1) /\ j # k + 1
            /\ k \in 0..n /\ k + 1 \in 1..(n + 1)
        BY <1>1, <2>4
      <4>. QED BY <1>6, <4>1
    <3>3. /\ L[At(list, s, j - 1)].next = At(list, s, j) /\ L[At(list, s, j)].prev = At(list, s, j - 1)
      <4>1. j - 1 \in 0..n /\ (j - 1) + 1 = j
        BY <1>1, <2>4
      <4>. QED BY <1>6, <4>1
    <3>. QED BY <1>1, <1>6, <2>4, <3>1, <3>2, <3>3
  <2>. QED BY <1>1, <2>1, <2>2, <2>3, <2>4
<1>8. D \subseteq Int \ {ListNull} /\ list \in D
  BY DEF Ring
<1>. QED BY <1>1, <1>2, <1>4, <1>7, <1>8 DEF Ring

\* t is s without position k.
Removed(s, k, t) ==
  /\ DOMAIN t = 1..(Len(s) - 1)
  /\ \A j \in 1..(Len(s) - 1) : t[j] = IF j < k THEN s[j] ELSE s[j + 1]

\* An entry taken out of a ring.
LEMMA RingRemove ==
  ASSUME NEW D, NEW L, NEW list, NEW s, Ring(D, L, list, s), NEW k \in 1..Len(s),
         NEW M \in Links(D),
         \A y \in D \ {s[k]} :
           /\ M[y].next = IF y = At(list, s, k - 1) THEN At(list, s, k + 1) ELSE L[y].next
           /\ M[y].prev = IF y = At(list, s, k + 1) THEN At(list, s, k - 1) ELSE L[y].prev,
         NEW t, t \in Seq(D), Removed(s, k, t)
  PROVE  Ring(D, M, list, t)
<1>1. PICK n \in Nat : n = Len(s) /\ DOMAIN s = 1..n
  BY RingPositions
<1>2. /\ Len(t) = n - 1 /\ DOMAIN t = 1..(n - 1)
      /\ \A j \in 1..(n - 1) : t[j] = IF j < k THEN s[j] ELSE s[j + 1]
  BY <1>1 DEF Removed
<1>3. \A i, j \in 1..n : s[i] = s[j] => i = j
  BY <1>1 DEF Ring, IsInjective
<1>4. IsInjective(t) /\ \A j \in 1..(n - 1) : t[j] # list
  <2>1. \A j \in 1..n : s[j] # list
    BY <1>1, RingPositions
  <2>2. \A j \in 1..(n - 1) : \/ j < k /\ t[j] = s[j] /\ j \in 1..n
                              \/ j >= k /\ t[j] = s[j + 1] /\ j + 1 \in 1..n
    BY <1>1, <1>2
  <2>3. ASSUME NEW i \in 1..(n - 1), NEW j \in 1..(n - 1), t[i] = t[j] PROVE i = j
    <3>1. PICK a \in 1..n : t[i] = s[a] /\ ((i < k /\ a = i) \/ (i >= k /\ a = i + 1))
      BY <2>2
    <3>2. PICK b \in 1..n : t[j] = s[b] /\ ((j < k /\ b = j) \/ (j >= k /\ b = j + 1))
      BY <2>2
    <3>3. a = b
      BY <1>3, <2>3, <3>1, <3>2
    <3>. QED BY <1>1, <3>1, <3>2, <3>3
  <2>4. \A j \in 1..(n - 1) : t[j] # list
    BY <2>1, <2>2
  <2>. QED BY <1>2, <2>3, <2>4 DEF IsInjective
<1>5. \A j \in 0..n : At(list, t, j) = IF j < k THEN At(list, s, j) ELSE At(list, s, j + 1)
  BY <1>1, <1>2 DEF At
<1>6. /\ \A j \in 0..(n + 1) : At(list, s, j) \in D
      /\ \A i, j \in 0..n : At(list, s, i) = At(list, s, j) => i = j
      /\ \A i, j \in 1..(n + 1) : At(list, s, i) = At(list, s, j) => i = j
      /\ \A j \in 0..n : /\ L[At(list, s, j)].next = At(list, s, j + 1)
                         /\ L[At(list, s, j + 1)].prev = At(list, s, j)
      /\ At(list, s, k) = s[k]
  <2>1. \A j \in 0..(n + 1) : At(list, s, j) \in D
    BY <1>1, RingPositions
  <2>2. \A i, j \in 0..n : At(list, s, i) = At(list, s, j) => i = j
    BY <1>1, RingPositions
  <2>3. \A i, j \in 1..(n + 1) : At(list, s, i) = At(list, s, j) => i = j
    BY <1>1, <1>3, RingPositions DEF At
  <2>. QED BY <1>1, <2>1, <2>2, <2>3 DEF Ring, At
<1>7. \A j \in 0..(n - 1) : /\ M[At(list, t, j)].next = At(list, t, j + 1)
                            /\ M[At(list, t, j + 1)].prev = At(list, t, j)
  <2>. SUFFICES ASSUME NEW j \in 0..(n - 1)
                PROVE  /\ M[At(list, t, j)].next = At(list, t, j + 1)
                       /\ M[At(list, t, j + 1)].prev = At(list, t, j)
    OBVIOUS
  <2>1. CASE j < k - 1
    <3>1. At(list, t, j) = At(list, s, j) /\ At(list, t, j + 1) = At(list, s, j + 1)
      BY <1>1, <1>5, <2>1
    <3>2. /\ At(list, s, j) # At(list, s, k - 1) /\ At(list, s, j + 1) # At(list, s, k + 1)
          /\ At(list, s, j) # s[k] /\ At(list, s, j + 1) # s[k]
      BY <1>1, <1>6, <2>1
    <3>3. /\ j \in 0..n /\ At(list, s, j) \in D \ {s[k]} /\ At(list, s, j + 1) \in D \ {s[k]}
          /\ L[At(list, s, j)].next = At(list, s, j + 1) /\ L[At(list, s, j + 1)].prev = At(list, s, j)
      BY <1>1, <1>6, <2>1, <3>2
    <3>. QED BY <3>1, <3>2, <3>3
  <2>2. CASE j = k - 1
    <3>1. At(list, t, j) = At(list, s, k - 1) /\ At(list, t, j + 1) = At(list, s, k + 1)
      BY <1>1, <1>5, <2>2
    <3>2. At(list, s, k - 1) # s[k] /\ At(list, s, k + 1) # s[k]
      BY <1>1, <1>6
    <3>. QED BY <1>1, <1>6, <3>1, <3>2
  <2>3. CASE j >= k
    <3>1. At(list, t, j) = At(list, s, j + 1) /\ At(list, t, j + 1) = At(list, s, j + 2)
      BY <1>1, <1>5, <2>3
    <3>2. /\ At(list, s, j + 1) # At(list, s, k - 1) /\ At(list, s, j + 2) # At(list, s, k + 1)
          /\ At(list, s, j + 1) # s[k] /\ At(list, s, j + 2) # s[k]
      BY <1>1, <1>6, <2>3
    <3>3. /\ L[At(list, s, j + 1)].next = At(list, s, j + 2)
          /\ L[At(list, s, j + 2)].prev = At(list, s, j + 1)
      <4>1. j + 1 \in 0..n /\ (j + 1) + 1 = j + 2
        BY <1>1, <2>3
      <4>. QED BY <1>6, <4>1
    <3>. QED BY <1>1, <1>6, <2>3, <3>1, <3>2, <3>3
  <2>. QED BY <1>1, <2>1, <2>2, <2>3
<1>8. D \subseteq Int \ {ListNull} /\ list \in D
  BY DEF Ring
<1>. QED BY <1>1, <1>2, <1>4, <1>7, <1>8 DEF Ring

\* A ring does not notice what happens to the links of other nodes.
LEMMA RingElsewhere ==
  ASSUME NEW D, NEW L, NEW list, NEW s, Ring(D, L, list, s), NEW M \in Links(D),
         M[list] = L[list], \A k \in 1..Len(s) : M[s[k]] = L[s[k]]
  PROVE  Ring(D, M, list, s)
<1>1. \A k \in 0..(Len(s) + 1) : M[At(list, s, k)] = L[At(list, s, k)]
  BY RingPositions DEF At
<1>2. Len(s) \in Nat
  BY RingPositions
<1>3. \A k \in 0..Len(s) : /\ M[At(list, s, k)].next = At(list, s, k + 1)
                           /\ M[At(list, s, k + 1)].prev = At(list, s, k)
  BY <1>1, <1>2 DEF Ring
<1>. QED BY <1>3 DEF Ring

-----------------------------------------------------------------------------
(***************************************************************************)
(* The list operations on rings.                                           *)
(***************************************************************************)

\* What a removal does to the links around the removed node.
LEMMA RemoveLinks ==
  ASSUME NEW D, NEW L \in Links(D), NEW n \in D, NEW p \in D, NEW q \in D,
         L[n] = [prev |-> p, next |-> q], p # n, q # n, p # ListNull, q # ListNull
  PROVE  /\ os_list_node_remove(L, n) \in Links(D)
         /\ os_list_node_remove(L, n)[n] = os_list_node_init
         /\ \A y \in D \ {n} :
              /\ os_list_node_remove(L, n)[y].next = IF y = p THEN q ELSE L[y].next
              /\ os_list_node_remove(L, n)[y].prev = IF y = q THEN p ELSE L[y].prev
              /\ y \notin {p, q} => os_list_node_remove(L, n)[y] = L[y]
<1>1. L[n].prev = p /\ L[n].next = q /\ p \in Int /\ q \in Int
  BY DEF Links
<1>2. PICK B : B = [L EXCEPT ![p].next = q]
  OBVIOUS
<1>3. B \in Links(D) /\ B[n] = L[n]
  BY <1>1, <1>2 DEF Links
<1>4. PICK A : A = [B EXCEPT ![q].prev = p]
  OBVIOUS
<1>5. A \in Links(D)
  BY <1>1, <1>3, <1>4 DEF Links
<1>6. os_list_node_remove(L, n) = [A EXCEPT ![n] = os_list_node_init]
  BY <1>1, <1>2, <1>3, <1>4 DEF os_list_node_remove
<1>7. \A y \in D \ {n} :
        /\ A[y].next = IF y = p THEN q ELSE L[y].next
        /\ A[y].prev = IF y = q THEN p ELSE L[y].prev
        /\ y \notin {p, q} => A[y] = L[y]
  BY <1>1, <1>2, <1>3, <1>4 DEF Links
<1>8. os_list_node_init \in [prev : Int, next : Int]
  BY DEF os_list_node_init, ListNull
<1>9. os_list_node_remove(L, n) \in Links(D) /\ os_list_node_remove(L, n)[n] = os_list_node_init
  BY <1>5, <1>6, <1>8 DEF Links
<1>10. \A y \in D \ {n} : os_list_node_remove(L, n)[y] = A[y]
  BY <1>5, <1>6 DEF Links
<1>. QED BY <1>7, <1>9, <1>10, Zenon

LEMMA RemoveNothing ==
  ASSUME NEW D, NEW L \in Links(D), NEW n \in D, os_list_node_empty(L, n)
  PROVE  os_list_node_remove(L, n) = L
BY DEF os_list_node_remove, os_list_node_empty, os_list_node_init, Links

\* What an insertion between two neighbours does to the links.
InsertLinks(D, L, M, x, p, q) ==
  /\ M \in Links(D) /\ M[x] = [prev |-> p, next |-> q]
  /\ \A y \in D \ {x} : /\ M[y].next = IF y = p THEN x ELSE L[y].next
                        /\ M[y].prev = IF y = q THEN x ELSE L[y].prev
                        /\ y \notin {p, q} => M[y] = L[y]

LEMMA InsertBeforeLinks ==
  ASSUME NEW D, D \subseteq Int, NEW L \in Links(D), NEW x \in D, NEW p \in D, NEW q \in D,
         L[q].prev = p, p # x, q # x, p # ListNull
  PROVE  InsertLinks(D, L, os_list_node_insert_before(L, x, q), x, p, q)
<1>1. PICK A : A = [L EXCEPT ![x] = [prev |-> p, next |-> q], ![q].prev = x]
  OBVIOUS
<1>2. A \in Links(D) /\ A[x] = [prev |-> p, next |-> q] /\ A[x].prev = p
  BY <1>1 DEF Links
<1>3. \A y \in D \ {x} : /\ A[y].next = L[y].next
                         /\ A[y].prev = IF y = q THEN x ELSE L[y].prev
                         /\ y # q => A[y] = L[y]
  BY <1>1 DEF Links
<1>4. os_list_node_insert_before(L, x, q) = [A EXCEPT ![p].next = x]
  BY <1>1, <1>2 DEF os_list_node_insert_before
<1>5. PICK M : M = [A EXCEPT ![p].next = x]
  OBVIOUS
<1>6. M \in Links(D) /\ M[x] = A[x]
  BY <1>2, <1>5 DEF Links
<1>7. \A y \in D \ {x} : /\ M[y].next = IF y = p THEN x ELSE A[y].next
                         /\ M[y].prev = A[y].prev
                         /\ y # p => M[y] = A[y]
  BY <1>2, <1>5 DEF Links
<1>8. \A y \in D \ {x} : /\ M[y].next = IF y = p THEN x ELSE L[y].next
                         /\ M[y].prev = IF y = q THEN x ELSE L[y].prev
                         /\ y \notin {p, q} => M[y] = L[y]
  BY <1>3, <1>7
<1>. QED BY <1>2, <1>4, <1>5, <1>6, <1>8 DEF InsertLinks

LEMMA InsertAfterLinks ==
  ASSUME NEW D, D \subseteq Int, NEW L \in Links(D), NEW x \in D, NEW p \in D, NEW q \in D,
         L[p].next = q, p # x, q # x, q # ListNull
  PROVE  InsertLinks(D, L, os_list_node_insert_after(L, x, p), x, p, q)
<1>1. PICK A : A = [L EXCEPT ![x] = [prev |-> p, next |-> q], ![p].next = x]
  OBVIOUS
<1>2. A \in Links(D) /\ A[x] = [prev |-> p, next |-> q] /\ A[x].next = q
  BY <1>1 DEF Links
<1>3. \A y \in D \ {x} : /\ A[y].prev = L[y].prev
                         /\ A[y].next = IF y = p THEN x ELSE L[y].next
                         /\ y # p => A[y] = L[y]
  BY <1>1 DEF Links
<1>4. os_list_node_insert_after(L, x, p) = [A EXCEPT ![q].prev = x]
  BY <1>1, <1>2 DEF os_list_node_insert_after
<1>5. PICK M : M = [A EXCEPT ![q].prev = x]
  OBVIOUS
<1>6. M \in Links(D) /\ M[x] = A[x]
  BY <1>2, <1>5 DEF Links
<1>7. \A y \in D \ {x} : /\ M[y].prev = IF y = q THEN x ELSE A[y].prev
                         /\ M[y].next = A[y].next
                         /\ y # q => M[y] = A[y]
  BY <1>2, <1>5 DEF Links
<1>8. \A y \in D \ {x} : /\ M[y].next = IF y = p THEN x ELSE L[y].next
                         /\ M[y].prev = IF y = q THEN x ELSE L[y].prev
                         /\ y \notin {p, q} => M[y] = L[y]
  BY <1>3, <1>7
<1>. QED BY <1>2, <1>4, <1>5, <1>6, <1>8 DEF InsertLinks

\* An insertion next to the list or an entry keeps the ring and touches no other node.
LEMMA InsertKeepsRing ==
  ASSUME NEW D, NEW L, NEW list, NEW s, Ring(D, L, list, s), NEW k \in 0..Len(s),
         NEW x \in D, x # list, \A j \in 1..Len(s) : s[j] # x,
         NEW t \in Seq(D), Inserted(s, k, x, t),
         NEW M, \/ M = os_list_node_insert_after(L, x, At(list, s, k))
                \/ M = os_list_node_insert_before(L, x, At(list, s, k + 1))
  PROVE  /\ Ring(D, M, list, t) /\ M[x] # os_list_node_init
         /\ \A y \in D \ {x} : (y # list /\ \A j \in 1..Len(s) : s[j] # y) => M[y] = L[y]
<1>1. PICK n \in Nat : n = Len(s)
  BY RingPositions
<1>2. PICK p \in D, q \in D : p = At(list, s, k) /\ q = At(list, s, k + 1)
  BY <1>1, RingPositions
<1>3. p # x /\ q # x /\ p # ListNull /\ q # ListNull
  BY <1>1, <1>2, RingPositions DEF At
<1>4. D \subseteq Int /\ L \in Links(D) /\ L[p].next = q /\ L[q].prev = p
  BY <1>2 DEF Ring
<1>5. InsertLinks(D, L, M, x, p, q)
  BY <1>2, <1>3, <1>4, InsertAfterLinks, InsertBeforeLinks
<1>6. Ring(D, M, list, t)
  BY <1>2, <1>5, RingInsert DEF InsertLinks
<1>7. M[x] # os_list_node_init
  BY <1>3, <1>5 DEF InsertLinks, os_list_node_init
<1>8. ASSUME NEW y \in D \ {x}, y # list, \A j \in 1..Len(s) : s[j] # y PROVE M[y] = L[y]
  <2>1. y \notin {p, q}
    BY <1>2, <1>8 DEF At
  <2>. QED BY <1>5, <2>1 DEF InsertLinks
<1>. QED BY <1>6, <1>7, <1>8

\* A removal keeps the ring, initialises the entry and touches no other node.
LEMMA RemoveKeepsRing ==
  ASSUME NEW D, NEW L, NEW list, NEW s, Ring(D, L, list, s), NEW k \in 1..Len(s),
         NEW t \in Seq(D), Removed(s, k, t)
  PROVE  /\ Ring(D, os_list_node_remove(L, s[k]), list, t)
         /\ os_list_node_remove(L, s[k])[s[k]] = os_list_node_init
         /\ \A y \in D : (y # list /\ \A j \in 1..Len(s) : s[j] # y) =>
              os_list_node_remove(L, s[k])[y] = L[y]
<1>1. PICK M : M = os_list_node_remove(L, s[k])
  OBVIOUS
<1>2. PICK n \in Nat : n = Len(s) /\ DOMAIN s = 1..n
  BY RingPositions
<1>3. /\ k - 1 \in 0..n /\ k \in 0..n /\ (k - 1) + 1 = k
      /\ k - 1 \in 0..(n + 1) /\ k \in 0..(n + 1) /\ k + 1 \in 0..(n + 1)
  BY <1>2
<1>4. PICK p \in D, q \in D : p = At(list, s, k - 1) /\ q = At(list, s, k + 1)
  BY <1>2, <1>3, RingPositions
<1>5. PICK x \in D : x = s[k] /\ x = At(list, s, k) /\ x # list
  BY <1>2, <1>3, RingPositions
<1>6. p # ListNull /\ q # ListNull
  BY <1>2, <1>3, <1>4, RingPositions
<1>7. p # x
  BY <1>2, <1>3, <1>4, <1>5, RingPositions
<1>8. q # x
  <2>1. CASE k = n
    <3>1. q = list
      BY <1>2, <1>4, <2>1 DEF At
    <3>. QED BY <1>5, <3>1
  <2>2. CASE k < n
    <3>1. k + 1 \in 0..n /\ k + 1 # k
      BY <1>3, <2>2
    <3>. QED BY <1>2, <1>3, <1>4, <1>5, <3>1, RingPositions
  <2>. QED BY <1>2, <2>1, <2>2
<1>9. L \in Links(D)
  BY DEF Ring
<1>10. L[x].prev = p /\ L[x].next = q
  <2>1. \A j \in 0..n : /\ L[At(list, s, j)].next = At(list, s, j + 1)
                        /\ L[At(list, s, j + 1)].prev = At(list, s, j)
    BY <1>2 DEF Ring
  <2>2. L[At(list, s, k)].next = At(list, s, k + 1)
    BY <1>3, <2>1
  <2>3. L[At(list, s, (k - 1) + 1)].prev = At(list, s, k - 1)
    BY <1>3, <2>1
  <2>. QED BY <1>3, <1>4, <1>5, <2>2, <2>3
<1>11. L[x] = [prev |-> p, next |-> q]
  BY <1>9, <1>10 DEF Links
<1>12. /\ M \in Links(D) /\ M[x] = os_list_node_init
       /\ \A y \in D \ {x} : /\ M[y].next = IF y = p THEN q ELSE L[y].next
                             /\ M[y].prev = IF y = q THEN p ELSE L[y].prev
                             /\ y \notin {p, q} => M[y] = L[y]
  BY <1>1, <1>5, <1>6, <1>7, <1>8, <1>9, <1>11, RemoveLinks
<1>13. Ring(D, M, list, t)
  <2>1. \A y \in D \ {s[k]} :
          /\ M[y].next = IF y = At(list, s, k - 1) THEN At(list, s, k + 1) ELSE L[y].next
          /\ M[y].prev = IF y = At(list, s, k + 1) THEN At(list, s, k - 1) ELSE L[y].prev
    BY <1>4, <1>5, <1>12
  <2>. QED BY <1>12, <2>1, RingRemove
<1>14. ASSUME NEW y \in D, y # list, \A j \in 1..Len(s) : s[j] # y PROVE M[y] = L[y]
  <2>1. y \notin {p, q} /\ y # x
    BY <1>2, <1>4, <1>5, <1>14 DEF At
  <2>. QED BY <1>12, <2>1
<1>. QED BY <1>1, <1>5, <1>12, <1>13, <1>14

-----------------------------------------------------------------------------
(***************************************************************************)
(* The sequence operators, position by position.                           *)
(***************************************************************************)
Joined(S, a, b, t) ==
  /\ t \in Seq(S) /\ Len(t) = Len(a) + Len(b) /\ DOMAIN t = 1..(Len(a) + Len(b))
  /\ \A j \in 1..(Len(a) + Len(b)) : t[j] = IF j <= Len(a) THEN a[j] ELSE b[j - Len(a)]

LEMMA ConcatPositions ==
  ASSUME NEW S, NEW a \in Seq(S), NEW b \in Seq(S)
  PROVE  Joined(S, a, b, a \o b)
<1>1. /\ a \o b \in Seq(S) /\ Len(a \o b) = Len(a) + Len(b)
      /\ \A j \in 1..(Len(a) + Len(b)) : (a \o b)[j] = IF j <= Len(a) THEN a[j] ELSE b[j - Len(a)]
  BY ConcatProperties, Zenon
<1>2. PICK c \in Seq(S) : c = a \o b
  BY <1>1
<1>3. DOMAIN c = 1..Len(c)
  OBVIOUS
<1>. QED BY <1>1, <1>2, <1>3 DEF Joined

\* The part of s from l to o.
Part(S, s, l, o, t) ==
  /\ t \in Seq(S) /\ Len(t) = o - l + 1
  /\ \A j \in 1..(o - l + 1) : t[j] = s[l + j - 1]

LEMMA SubSeqPositions ==
  ASSUME NEW S, NEW s \in Seq(S), NEW l \in Nat, NEW o \in Nat, 1 <= l, l <= o + 1, o <= Len(s)
  PROVE  Part(S, s, l, o, SubSeq(s, l, o))
<1>1. \A i \in l..o : s[i] \in S
  <2>1. \A i \in l..o : i \in 1..Len(s)
    OBVIOUS
  <2>. QED BY <2>1, ElementOfSeq
<1>2. l \in Int /\ o \in Int
  OBVIOUS
<1>3. /\ SubSeq(s, l, o) \in Seq(S)
      /\ Len(SubSeq(s, l, o)) = IF l <= o THEN o - l + 1 ELSE 0
      /\ \A i \in 1..(o - l + 1) : SubSeq(s, l, o)[i] = s[l + i - 1]
  BY <1>1, <1>2, SubSeqProperties
<1>. QED BY <1>3 DEF Part

LEMMA AppendInserts ==
  ASSUME NEW S, NEW s \in Seq(S), NEW x \in S
  PROVE  Append(s, x) \in Seq(S) /\ Inserted(s, Len(s), x, Append(s, x))
<1>1. PICK n \in Nat : n = Len(s)
  OBVIOUS
<1>2. PICK t : t = Append(s, x)
  OBVIOUS
<1>3. t \in Seq(S) /\ DOMAIN t = 1..(n + 1) /\ t[n + 1] = x /\ \A j \in 1..n : t[j] = s[j]
  BY <1>1, <1>2
<1>4. \A j \in 1..(n + 1) : t[j] = IF j <= n THEN s[j] ELSE IF j = n + 1 THEN x ELSE s[j - 1]
  BY <1>3
<1>. QED BY <1>1, <1>2, <1>3, <1>4 DEF Inserted

LEMMA PrependInserts ==
  ASSUME NEW S, NEW s \in Seq(S), NEW x \in S
  PROVE  <<x>> \o s \in Seq(S) /\ Inserted(s, 0, x, <<x>> \o s)
<1>1. PICK n \in Nat : n = Len(s)
  OBVIOUS
<1>2. PICK o \in Seq(S) : o = <<x>> /\ Len(o) = 1 /\ o[1] = x
  <2>1. <<x>> \in Seq(S) /\ Len(<<x>>) = 1 /\ <<x>>[1] = x
    OBVIOUS
  <2>. QED BY <2>1, Zenon
<1>3. PICK t : t = o \o s
  OBVIOUS
<1>4. /\ t \in Seq(S) /\ DOMAIN t = 1..(1 + n)
      /\ \A j \in 1..(1 + n) : t[j] = IF j <= 1 THEN o[j] ELSE s[j - 1]
  <2>1. Joined(S, o, s, t)
    BY <1>2, <1>3, ConcatPositions
  <2>. QED BY <1>1, <1>2, <2>1 DEF Joined
<1>5. \A j \in 1..(n + 1) : t[j] = IF j <= 0 THEN s[j] ELSE IF j = 0 + 1 THEN x ELSE s[j - 1]
  BY <1>2, <1>4
<1>6. 1 + n = n + 1
  OBVIOUS
<1>7. Inserted(s, 0, x, t)
  BY <1>1, <1>4, <1>5, <1>6 DEF Inserted
<1>. QED BY <1>2, <1>3, <1>4, <1>7

LEMMA InsertAtInserts ==
  ASSUME NEW S, NEW s \in Seq(S), NEW x \in S, NEW i \in 1..(Len(s) + 1)
  PROVE  InsertAt(s, i, x) \in Seq(S) /\ Inserted(s, i - 1, x, InsertAt(s, i, x))
<1>1. PICK n \in Nat : n = Len(s)
  OBVIOUS
<1>2. PICK a \in Seq(S) : a = SubSeq(s, 1, i - 1) /\ Len(a) = i - 1 /\ \A j \in 1..(i - 1) : a[j] = s[j]
  <2>1. PICK o : o = i - 1 /\ o \in Nat /\ o <= Len(s)
    BY <1>1
  <2>2. Part(S, s, 1, o, SubSeq(s, 1, o))
    BY <2>1, SubSeqPositions
  <2>3. PICK a : a = SubSeq(s, 1, o)
    OBVIOUS
  <2>4. a \in Seq(S) /\ Len(a) = o - 1 + 1 /\ \A j \in 1..(o - 1 + 1) : a[j] = s[1 + j - 1]
    BY <2>2, <2>3 DEF Part
  <2>5. o - 1 + 1 = o /\ \A j \in 1..o : 1 + j - 1 = j
    BY <2>1
  <2>6. a \in Seq(S) /\ Len(a) = o /\ \A j \in 1..o : a[j] = s[j]
    BY <2>4, <2>5
  <2>. QED BY <2>1, <2>3, <2>6
<1>3. PICK c \in Seq(S) : c = SubSeq(s, i, n) /\ Len(c) = n - i + 1 /\ \A j \in 1..(n - i + 1) : c[j] = s[i + j - 1]
  <2>1. i \in Nat /\ 1 <= i /\ i <= n + 1 /\ n <= Len(s)
    BY <1>1
  <2>2. Part(S, s, i, n, SubSeq(s, i, n))
    BY <2>1, SubSeqPositions
  <2>. QED BY <2>2 DEF Part
<1>4. PICK o \in Seq(S) : o = <<x>> /\ Len(o) = 1 /\ o[1] = x
  <2>1. PICK o : o = <<x>>
    OBVIOUS
  <2>2. o \in Seq(S) /\ Len(o) = 1 /\ o[1] = x
    BY <2>1
  <2>. QED BY <2>1, <2>2, Zenon
<1>5. i - 1 \in Nat /\ n - i + 1 \in Nat /\ (i - 1) + 1 = i /\ i \in Nat
  BY <1>1
<1>6. PICK b : b = a \o o
  OBVIOUS
<1>7. b \in Seq(S) /\ Len(b) = i /\ \A j \in 1..i : b[j] = IF j <= i - 1 THEN a[j] ELSE o[j - (i - 1)]
  <2>1. Joined(S, a, o, b)
    BY <1>4, <1>6, ConcatPositions
  <2>. QED BY <1>2, <1>4, <1>5, <2>1 DEF Joined
<1>8. PICK t : t = b \o c
  OBVIOUS
<1>9. /\ t \in Seq(S) /\ DOMAIN t = 1..(i + (n - i + 1))
      /\ \A j \in 1..(i + (n - i + 1)) : t[j] = IF j <= i THEN b[j] ELSE c[j - i]
  <2>1. b \in Seq(S) /\ Len(b) = i
    BY <1>7
  <2>2. Joined(S, b, c, t)
    BY <1>8, <2>1, ConcatPositions
  <2>. QED BY <1>3, <2>1, <2>2 DEF Joined
<1>10. i + (n - i + 1) = n + 1
  BY <1>5
<1>11. ASSUME NEW j \in 1..(n + 1)
       PROVE  t[j] = IF j <= i - 1 THEN s[j] ELSE IF j = (i - 1) + 1 THEN x ELSE s[j - 1]
  <2>1. t[j] = IF j <= i THEN b[j] ELSE c[j - i]
    BY <1>9, <1>10
  <2>2. CASE j <= i - 1
    BY <1>2, <1>5, <1>7, <2>1, <2>2
  <2>3. CASE j = i
    <3>1. j - (i - 1) = 1 /\ j \in 1..i /\ ~(j <= i - 1)
      BY <1>5, <2>3
    <3>. QED BY <1>4, <1>5, <1>7, <2>1, <2>3, <3>1
  <2>4. CASE j > i
    <3>1. PICK m \in 1..(n - i + 1) : m = j - i /\ i + m - 1 = j - 1 /\ ~(j <= i)
      BY <1>5, <2>4
    <3>2. c[m] = s[i + m - 1]
      BY <1>3
    <3>3. t[j] = s[j - 1]
      BY <2>1, <3>1, <3>2
    <3>4. ~(j <= i - 1) /\ j # (i - 1) + 1
      BY <1>5, <2>4
    <3>. QED BY <3>3, <3>4
  <2>. QED BY <1>5, <2>2, <2>3, <2>4
<1>12. Inserted(s, i - 1, x, t)
  BY <1>1, <1>9, <1>10, <1>11 DEF Inserted
<1>13. t = InsertAt(s, i, x)
  BY <1>1, <1>2, <1>3, <1>4, <1>6, <1>8 DEF InsertAt
<1>. QED BY <1>9, <1>12, <1>13

LEMMA RemoveAtRemoves ==
  ASSUME NEW S, NEW s \in Seq(S), NEW i \in 1..Len(s)
  PROVE  RemoveAt(s, i) \in Seq(S) /\ Removed(s, i, RemoveAt(s, i))
<1>1. PICK n \in Nat : n = Len(s)
  OBVIOUS
<1>2. PICK a \in Seq(S) : a = SubSeq(s, 1, i - 1) /\ Len(a) = i - 1 /\ \A j \in 1..(i - 1) : a[j] = s[j]
  <2>1. PICK o : o = i - 1 /\ o \in Nat /\ o <= Len(s)
    BY <1>1
  <2>2. Part(S, s, 1, o, SubSeq(s, 1, o))
    BY <2>1, SubSeqPositions
  <2>3. PICK a : a = SubSeq(s, 1, o)
    OBVIOUS
  <2>4. a \in Seq(S) /\ Len(a) = o - 1 + 1 /\ \A j \in 1..(o - 1 + 1) : a[j] = s[1 + j - 1]
    BY <2>2, <2>3 DEF Part
  <2>5. o - 1 + 1 = o /\ \A j \in 1..o : 1 + j - 1 = j
    BY <2>1
  <2>6. a \in Seq(S) /\ Len(a) = o /\ \A j \in 1..o : a[j] = s[j]
    BY <2>4, <2>5
  <2>. QED BY <2>1, <2>3, <2>6
<1>3. PICK c \in Seq(S) : c = SubSeq(s, i + 1, n) /\ Len(c) = n - i /\ \A j \in 1..(n - i) : c[j] = s[i + j]
  <2>1. PICK l : l = i + 1 /\ l \in Nat /\ 1 <= l /\ l <= n + 1 /\ n <= Len(s)
    BY <1>1
  <2>2. Part(S, s, l, n, SubSeq(s, l, n))
    BY <2>1, SubSeqPositions
  <2>3. PICK c : c = SubSeq(s, l, n)
    OBVIOUS
  <2>4. c \in Seq(S) /\ Len(c) = n - l + 1 /\ \A j \in 1..(n - l + 1) : c[j] = s[l + j - 1]
    BY <2>2, <2>3 DEF Part
  <2>5. n - l + 1 = n - i /\ \A j \in 1..(n - i) : l + j - 1 = i + j
    BY <1>1, <2>1
  <2>6. c \in Seq(S) /\ Len(c) = n - i /\ \A j \in 1..(n - i) : c[j] = s[i + j]
    BY <2>4, <2>5
  <2>. QED BY <2>1, <2>3, <2>6
<1>4. i - 1 \in Nat /\ n - i \in Nat /\ (i - 1) + (n - i) = n - 1 /\ i \in Nat
  BY <1>1
<1>5. PICK t : t = a \o c
  OBVIOUS
<1>6. /\ t \in Seq(S) /\ DOMAIN t = 1..((i - 1) + (n - i))
      /\ \A j \in 1..((i - 1) + (n - i)) : t[j] = IF j <= i - 1 THEN a[j] ELSE c[j - (i - 1)]
  <2>1. Joined(S, a, c, t)
    BY <1>5, ConcatPositions
  <2>. QED BY <1>2, <1>3, <1>4, <2>1 DEF Joined
<1>7. ASSUME NEW j \in 1..(n - 1) PROVE t[j] = IF j < i THEN s[j] ELSE s[j + 1]
  <2>1. t[j] = IF j <= i - 1 THEN a[j] ELSE c[j - (i - 1)]
    BY <1>4, <1>6
  <2>2. CASE j < i
    <3>1. j \in 1..(i - 1) /\ j <= i - 1
      BY <1>4, <2>2
    <3>2. t[j] = a[j] /\ a[j] = s[j]
      BY <1>2, <2>1, <3>1
    <3>. QED BY <2>2, <3>2
  <2>3. CASE j >= i
    <3>1. j - (i - 1) \in 1..(n - i) /\ i + (j - (i - 1)) = j + 1 /\ ~(j <= i - 1)
      BY <1>4, <2>3
    <3>. QED BY <1>3, <2>1, <2>3, <1>4, <3>1
  <2>. QED BY <1>4, <2>2, <2>3
<1>8. Removed(s, i, t)
  BY <1>1, <1>4, <1>6, <1>7 DEF Removed
<1>9. t = RemoveAt(s, i)
  BY <1>1, <1>2, <1>3, <1>5 DEF RemoveAt
<1>. QED BY <1>6, <1>8, <1>9

\* RemoveFirst takes an element out where it is, if it is there.
LEMMA RemoveFirstRemoves ==
  ASSUME NEW S, NEW s \in Seq(S), NEW x
  PROVE  \/ \E k \in 1..Len(s) : /\ s[k] = x /\ RemoveFirst(s, x) \in Seq(S)
                                 /\ Removed(s, k, RemoveFirst(s, x))
         \/ (\A j \in 1..Len(s) : s[j] # x) /\ RemoveFirst(s, x) = s
<1>1. CASE \E j \in 1..Len(s) : s[j] = x
  <2>1. PICK I : I = {j \in 1..Len(s) : s[j] = x}
    OBVIOUS
  <2>2. I \in SUBSET Nat /\ I # {}
    BY <1>1, <2>1
  <2>3. PICK k \in 1..Len(s) : k = Min(I) /\ s[k] = x
    BY <2>1, <2>2, MinIsLeast
  <2>4. RemoveFirst(s, x) = RemoveAt(s, k)
    BY <1>1, <2>1, <2>3 DEF RemoveFirst, SelectInSeq
  <2>. QED BY <2>3, <2>4, RemoveAtRemoves
<1>2. CASE \A j \in 1..Len(s) : s[j] # x
  BY <1>2 DEF RemoveFirst
<1>. QED BY <1>1, <1>2

-----------------------------------------------------------------------------
(***************************************************************************)
(* The loops over a list.                                                  *)
(***************************************************************************)
\* The loop visits the entries of the ring, in their order.
LEMMA ForeachVisits ==
  ASSUME NEW D, NEW L, NEW list, NEW s, Ring(D, L, list, s), NEW n \in Nat, Len(s) <= n
  PROVE  os_list_entry_foreach(L, list, n) = s
<1>. DEFINE P(h) == h = [k \in 0..n |-> IF k = 0 THEN L[list].next ELSE L[h[k - 1]].next]
<1>1. PICK pos : pos = CHOOSE h : P(h)
  OBVIOUS
<1>2. P(pos)
  <2>1. \E h : P(h)
    <3>. DEFINE S == {z \in Nat : \E h : h = [k \in 0..z |-> IF k = 0 THEN L[list].next ELSE L[h[k - 1]].next]}
    <3>1. 0 \in S
      <4>1. PICK h : h = [k \in 0..0 |-> L[list].next]
        OBVIOUS
      <4>2. h = [k \in 0..0 |-> IF k = 0 THEN L[list].next ELSE L[h[k - 1]].next]
        BY <4>1
      <4>. QED BY <4>2
    <3>2. ASSUME NEW z \in Nat, z \in S PROVE z + 1 \in S
      <4>1. PICK h : h = [k \in 0..z |-> IF k = 0 THEN L[list].next ELSE L[h[k - 1]].next]
        BY <3>2
      <4>2. PICK g : g = [k \in 0..(z + 1) |-> IF k = z + 1 THEN L[h[z]].next ELSE h[k]]
        OBVIOUS
      <4>3. \A k \in 0..z : g[k] = h[k]
        BY <4>2
      <4>4. g[z + 1] = L[h[z]].next
        BY <4>2
      <4>5. \A k \in 0..z : h[k] = IF k = 0 THEN L[list].next ELSE L[h[k - 1]].next
        BY <4>1
      <4>6. ASSUME NEW k \in 0..(z + 1) PROVE g[k] = IF k = 0 THEN L[list].next ELSE L[g[k - 1]].next
        <5>1. CASE k = z + 1
          BY <4>3, <4>4, <5>1
        <5>2. CASE k # z + 1
          <6>1. k \in 0..z /\ (k # 0 => k - 1 \in 0..z)
            BY <5>2
          <6>. QED BY <4>3, <4>5, <6>1
        <5>. QED BY <5>1, <5>2
      <4>7. g = [k \in 0..(z + 1) |-> g[k]]
        BY <4>2
      <4>8. g = [k \in 0..(z + 1) |-> IF k = 0 THEN L[list].next ELSE L[g[k - 1]].next]
        BY <4>6, <4>7
      <4>. QED BY <4>8
    <3>. HIDE DEF S
    <3>3. \A z \in Nat : z \in S
      BY <3>1, <3>2, SetInduction
    <3>. QED BY <3>3, Zenon DEF S
  <2>. HIDE DEF P
  <2>. QED BY <1>1, <2>1
<1>3. \A k \in 0..n : pos[k] = IF k = 0 THEN L[list].next ELSE L[pos[k - 1]].next
  BY <1>2
<1>4. PICK m \in Nat : m = Len(s) /\ m <= n
  BY RingPositions
<1>5. /\ At(list, s, 0) = list /\ At(list, s, m + 1) = list
      /\ \A k \in 1..m : At(list, s, k) = s[k] /\ s[k] # list
      /\ \A k \in 0..m : L[At(list, s, k)].next = At(list, s, k + 1)
  <2>1. At(list, s, 0) = list /\ At(list, s, m + 1) = list
    BY <1>4, RingPositions
  <2>2. \A k \in 1..m : At(list, s, k) = s[k] /\ s[k] # list
    BY <1>4, RingPositions
  <2>3. \A k \in 0..m : L[At(list, s, k)].next = At(list, s, k + 1)
    BY <1>4, Zenon DEF Ring
  <2>. QED BY <2>1, <2>2, <2>3
<1>. DEFINE S == {k \in Nat : k <= m => pos[k] = At(list, s, k + 1)}
<1>6. 0 \in S
  BY <1>3, <1>4, <1>5
<1>7. ASSUME NEW k \in Nat, k \in S PROVE k + 1 \in S
  <2>. SUFFICES ASSUME k + 1 <= m PROVE pos[k + 1] = At(list, s, (k + 1) + 1)
    OBVIOUS
  <2>1. pos[k] = At(list, s, k + 1) /\ k + 1 \in 0..n /\ k + 1 \in 0..m /\ (k + 1) - 1 = k /\ k + 1 # 0
    BY <1>4, <1>7
  <2>2. pos[k + 1] = L[pos[k]].next
    BY <1>3, <2>1
  <2>. QED BY <1>5, <2>1, <2>2
<1>. HIDE DEF S
<1>8. \A k \in Nat : k \in S
  BY <1>6, <1>7, SetInduction
<1>9. pos[m] = list /\ \A k \in 0..(m - 1) : pos[k] = s[k + 1] /\ pos[k] # list
  <2>1. pos[m] = list
    BY <1>4, <1>5, <1>8 DEF S
  <2>2. ASSUME NEW k \in 0..(m - 1) PROVE pos[k] = s[k + 1] /\ pos[k] # list
    <3>1. k \in Nat /\ k <= m /\ k + 1 \in 1..m
      BY <1>4
    <3>2. pos[k] = At(list, s, k + 1)
      BY <1>8, <3>1 DEF S
    <3>. QED BY <1>5, <3>1, <3>2
  <2>. QED BY <2>1, <2>2
<1>10. PICK visited : visited = CHOOSE k \in 0..n : (pos[k] = list \/ k = n) /\ \A j \in 0..(k - 1) : pos[j] # list
  OBVIOUS
<1>11. visited = m
  <2>1. m \in 0..n /\ (pos[m] = list \/ m = n) /\ \A j \in 0..(m - 1) : pos[j] # list
    BY <1>4, <1>9
  <2>2. ASSUME NEW k \in 0..n, pos[k] = list \/ k = n, \A j \in 0..(k - 1) : pos[j] # list PROVE k = m
    <3>1. ~(k < m)
      <4>1. ASSUME k < m PROVE FALSE
        <5>1. k \in 0..(m - 1) /\ k # n
          BY <1>4, <4>1
        <5>. QED BY <1>9, <2>2, <5>1
      <4>. QED BY <4>1
    <3>2. ~(m < k)
      <4>1. ASSUME m < k PROVE FALSE
        <5>1. m \in 0..(k - 1)
          BY <1>4, <4>1
        <5>. QED BY <1>9, <2>2, <5>1
      <4>. QED BY <4>1
    <3>. QED BY <1>4, <3>1, <3>2
  <2>3. \A k \in 0..n : (pos[k] = list \/ k = n) /\ (\A j \in 0..(k - 1) : pos[j] # list) => k = m
    BY <2>2
  <2>. QED BY <1>10, <2>1, <2>3
<1>12. os_list_entry_foreach(L, list, n) = [i \in 1..visited |-> pos[i - 1]]
  <2>. DEFINE V(p) == CHOOSE k \in 0..n : (p[k] = list \/ k = n) /\ \A j \in 0..(k - 1) : p[j] # list
              G(p) == [i \in 1..V(p) |-> p[i - 1]]
  <2>1. os_list_entry_foreach(L, list, n) = G(CHOOSE h : P(h))
    BY Zenon DEF os_list_entry_foreach
  <2>2. G(pos) = [i \in 1..visited |-> pos[i - 1]]
    BY <1>10, Zenon
  <2>3. G(CHOOSE h : P(h)) = G(pos)
    <3>. HIDE DEF G, P
    <3>. QED BY <1>1
  <2>. QED BY <2>1, <2>2, <2>3, Zenon
<1>13. s = [i \in 1..m |-> s[i]]
  BY <1>4, RingPositions DEF Ring
<1>14. ASSUME NEW i \in 1..m PROVE pos[i - 1] = s[i]
  <2>1. i - 1 \in 0..(m - 1) /\ (i - 1) + 1 = i
    OBVIOUS
  <2>2. pos[i - 1] = s[(i - 1) + 1]
    BY <1>9, <2>1
  <2>. QED BY <2>1, <2>2
<1>. QED BY <1>11, <1>12, <1>13, <1>14

\* The loop that removes what it visits empties the list.
LEMMA RemovesEach ==
  ASSUME NEW D, NEW L, NEW list, NEW s, Ring(D, L, list, s), NEW n \in Nat, Len(s) <= n,
         NEW M, M = RemoveEach(L, list, n)
  PROVE  /\ Ring(D, M, list, <<>>)
         /\ \A j \in 1..Len(s) : M[s[j]] = os_list_node_init
         /\ \A y \in D : (y # list /\ \A j \in 1..Len(s) : s[j] # y) => M[y] = L[y]
<1>1. PICK m \in Nat : m = Len(s) /\ DOMAIN s = 1..m
  BY RingPositions
<1>. DEFINE P(h) == h = [k \in 0..m |-> IF k = 0 THEN L ELSE os_list_node_remove(h[k - 1], s[k])]
<1>2. PICK rest : rest = CHOOSE h : P(h)
  OBVIOUS
<1>3. \E h : P(h)
  <2>. DEFINE S == {k \in Nat : \E h : h = [i \in 0..k |-> IF i = 0 THEN L ELSE os_list_node_remove(h[i - 1], s[i])]}
  <2>1. 0 \in S
    <3>1. PICK h : h = [i \in 0..0 |-> L]
      OBVIOUS
    <3>2. h = [i \in 0..0 |-> IF i = 0 THEN L ELSE os_list_node_remove(h[i - 1], s[i])]
      BY <3>1
    <3>. QED BY <3>2
  <2>2. ASSUME NEW k \in Nat, k \in S PROVE k + 1 \in S
    <3>1. PICK h : h = [i \in 0..k |-> IF i = 0 THEN L ELSE os_list_node_remove(h[i - 1], s[i])]
      BY <2>2
    <3>2. PICK g : g = [i \in 0..(k + 1) |-> IF i = k + 1 THEN os_list_node_remove(h[k], s[k + 1]) ELSE h[i]]
      OBVIOUS
    <3>3. \A i \in 0..k : g[i] = h[i]
      BY <3>2
    <3>4. g[k + 1] = os_list_node_remove(h[k], s[k + 1])
      BY <3>2
    <3>5. \A i \in 0..k : h[i] = IF i = 0 THEN L ELSE os_list_node_remove(h[i - 1], s[i])
      BY <3>1
    <3>6. ASSUME NEW i \in 0..(k + 1) PROVE g[i] = IF i = 0 THEN L ELSE os_list_node_remove(g[i - 1], s[i])
      <4>1. CASE i = k + 1
        BY <3>3, <3>4, <4>1
      <4>2. CASE i # k + 1
        <5>1. i \in 0..k /\ (i # 0 => i - 1 \in 0..k)
          BY <4>2
        <5>. QED BY <3>3, <3>5, <5>1
      <4>. QED BY <4>1, <4>2
    <3>7. g = [i \in 0..(k + 1) |-> g[i]]
      BY <3>2
    <3>8. g = [i \in 0..(k + 1) |-> IF i = 0 THEN L ELSE os_list_node_remove(g[i - 1], s[i])]
      BY <3>6, <3>7
    <3>. QED BY <3>8
  <2>. HIDE DEF S
  <2>3. \A k \in Nat : k \in S
    BY <2>1, <2>2, SetInduction
  <2>4. m \in S
    BY <2>3
  <2>. QED BY <2>4, Zenon DEF S
<1>4. P(rest)
  <2>. HIDE DEF P
  <2>. QED BY <1>2, <1>3
<1>5. rest[0] = L /\ \A k \in 1..m : rest[k] = os_list_node_remove(rest[k - 1], s[k])
  BY <1>4
<1>6. M = rest[m]
  <2>. DEFINE G(e) == LET f[k \in 0..Len(e)] == IF k = 0 THEN L ELSE os_list_node_remove(f[k - 1], e[k])
                      IN f[Len(e)]
  <2>1. RemoveEach(L, list, n) = G(os_list_entry_foreach(L, list, n))
    BY Zenon DEF RemoveEach
  <2>2. os_list_entry_foreach(L, list, n) = s
    BY ForeachVisits
  <2>3. G(s) = (CHOOSE h : P(h))[m]
    BY <1>1, Zenon
  <2>4. G(os_list_entry_foreach(L, list, n)) = G(s)
    <3>. HIDE DEF G
    <3>. QED BY <2>2
  <2>. QED BY <1>2, <2>1, <2>3, <2>4, Zenon
\* After k removals the ring is what is behind position k.
<1>. DEFINE Rest(k) == SubSeq(s, k + 1, m)
            S == {k \in Nat : k <= m =>
                    /\ Ring(D, rest[k], list, Rest(k))
                    /\ \A j \in 1..k : rest[k][s[j]] = os_list_node_init
                    /\ \A y \in D : (y # list /\ \A j \in 1..m : s[j] # y) => rest[k][y] = L[y]}
<1>7. s \in Seq(D) /\ \A i, j \in 1..m : s[i] = s[j] => i = j
  BY <1>1 DEF Ring, IsInjective
<1>8. \A j \in 1..m : s[j] \in D /\ s[j] # list
  BY <1>1, <1>7 DEF Ring
<1>9. \A k \in 0..m : /\ Rest(k) \in Seq(D) /\ Len(Rest(k)) = m - k
                      /\ \A j \in 1..(m - k) : Rest(k)[j] = s[k + j]
  <2>. SUFFICES ASSUME NEW k \in 0..m
                PROVE  /\ Rest(k) \in Seq(D) /\ Len(Rest(k)) = m - k
                       /\ \A j \in 1..(m - k) : Rest(k)[j] = s[k + j]
    OBVIOUS
  <2>1. s \in [1..m -> D] /\ k + 1 \in 1..(m + 1)
    BY <1>1, <1>7
  <2>. QED BY <1>1, <1>7, <2>1
<1>10. 0 \in S
  <2>1. Rest(0) = s
    BY <1>1, <1>7
  <2>2. Ring(D, rest[0], list, Rest(0))
    BY <1>5, <2>1
  <2>3. \A y \in D : rest[0][y] = L[y]
    BY <1>5
  <2>. HIDE DEF Rest
  <2>. QED BY <2>2, <2>3
<1>11. ASSUME NEW k \in Nat, k \in S PROVE k + 1 \in S
  <2>. SUFFICES ASSUME k + 1 <= m
                PROVE  /\ Ring(D, rest[k + 1], list, Rest(k + 1))
                       /\ \A j \in 1..(k + 1) : rest[k + 1][s[j]] = os_list_node_init
                       /\ \A y \in D : (y # list /\ \A j \in 1..m : s[j] # y) => rest[k + 1][y] = L[y]
    OBVIOUS
  <2>1. k \in 0..m /\ k + 1 \in 0..m /\ k + 1 \in 1..m /\ (k + 1) - 1 = k
    BY <1>1
  <2>2. /\ Ring(D, rest[k], list, Rest(k))
        /\ \A j \in 1..k : rest[k][s[j]] = os_list_node_init
        /\ \A y \in D : (y # list /\ \A j \in 1..m : s[j] # y) => rest[k][y] = L[y]
    BY <1>1, <1>11, <2>1
  <2>. HIDE DEF S
  <2>3. PICK u, v : u = Rest(k) /\ v = Rest(k + 1)
    OBVIOUS
  <2>4. /\ u \in Seq(D) /\ Len(u) = m - k /\ \A j \in 1..(m - k) : u[j] = s[k + j]
        /\ v \in Seq(D) /\ Len(v) = m - (k + 1) /\ \A j \in 1..(m - (k + 1)) : v[j] = s[(k + 1) + j]
    BY <1>9, <2>1, <2>3
  <2>. HIDE DEF Rest
  <2>5. 1 \in 1..Len(u) /\ u[1] = s[k + 1]
    BY <1>1, <2>1, <2>4
  <2>6. Removed(u, 1, v)
    <3>1. DOMAIN v = 1..(Len(u) - 1)
      BY <1>1, <2>1, <2>4
    <3>2. \A j \in 1..(Len(u) - 1) : v[j] = u[j + 1] /\ ~(j < 1)
      <4>1. ASSUME NEW j \in 1..((m - k) - 1) PROVE v[j] = u[j + 1] /\ ~(j < 1)
        <5>1. j \in 1..(m - (k + 1)) /\ j + 1 \in 1..(m - k) /\ k + (j + 1) = (k + 1) + j
          BY <1>1, <2>1
        <5>. QED BY <2>4, <5>1
      <4>. QED BY <2>4, <4>1
    <3>. QED BY <3>1, <3>2 DEF Removed
  <2>7. rest[k + 1] = os_list_node_remove(rest[k], u[1])
    BY <1>5, <2>1, <2>5
  <2>8. /\ Ring(D, rest[k + 1], list, v) /\ rest[k + 1][u[1]] = os_list_node_init
        /\ \A y \in D : (y # list /\ \A j \in 1..Len(u) : u[j] # y) => rest[k + 1][y] = rest[k][y]
    <3>1. PICK K, N : K = rest[k] /\ N = rest[k + 1]
      OBVIOUS
    <3>2. Ring(D, K, list, u) /\ N = os_list_node_remove(K, u[1])
      BY <2>2, <2>3, <2>7, <3>1
    <3>3. /\ Ring(D, N, list, v) /\ N[u[1]] = os_list_node_init
          /\ \A y \in D : (y # list /\ \A j \in 1..Len(u) : u[j] # y) => N[y] = K[y]
      <4>1. v \in Seq(D) /\ 1 \in 1..Len(u)
        BY <2>4, <2>5
      <4>2. Ring(D, K, list, u)
        BY <3>2
      <4>3. /\ Ring(D, os_list_node_remove(K, u[1]), list, v)
            /\ os_list_node_remove(K, u[1])[u[1]] = os_list_node_init
            /\ \A y \in D : (y # list /\ \A j \in 1..Len(u) : u[j] # y) =>
                 os_list_node_remove(K, u[1])[y] = K[y]
        BY <2>6, <4>1, <4>2, RemoveKeepsRing
      <4>. QED BY <3>2, <4>3, Zenon
    <3>. QED BY <3>1, <3>3
  <2>9. ASSUME NEW j \in 1..(k + 1) PROVE rest[k + 1][s[j]] = os_list_node_init
    <3>1. CASE j = k + 1
      BY <2>5, <2>8, <3>1
    <3>2. CASE j # k + 1
      <4>1. j \in 1..k /\ j \in 1..m
        BY <1>1, <2>1, <3>2
      <4>2. ASSUME NEW i \in 1..Len(u) PROVE u[i] # s[j]
        <5>1. k + i \in 1..m /\ k + i # j /\ i \in 1..(m - k)
          BY <1>1, <2>1, <2>4, <4>1
        <5>. QED BY <1>7, <2>4, <4>1, <5>1
      <4>. QED BY <1>8, <2>2, <2>8, <4>1, <4>2
    <3>. QED BY <3>1, <3>2
  <2>10. ASSUME NEW y \in D, y # list, \A j \in 1..m : s[j] # y PROVE rest[k + 1][y] = L[y]
    <3>1. ASSUME NEW i \in 1..Len(u) PROVE u[i] # y
      <4>1. k + i \in 1..m /\ i \in 1..(m - k)
        BY <1>1, <2>1, <2>4
      <4>. QED BY <2>4, <2>10, <4>1
    <3>. QED BY <2>2, <2>8, <2>10, <3>1
  <2>. QED BY <2>3, <2>8, <2>9, <2>10
<1>12. m \in S
  <2>. HIDE DEF S
  <2>1. \A k \in Nat : k \in S
    BY <1>10, <1>11, SetInduction
  <2>. QED BY <2>1
<1>13. Rest(m) = <<>>
  BY <1>1
<1>14. /\ Ring(D, rest[m], list, Rest(m))
       /\ \A j \in 1..m : rest[m][s[j]] = os_list_node_init
       /\ \A y \in D : (y # list /\ \A j \in 1..m : s[j] # y) => rest[m][y] = L[y]
  BY <1>1, <1>12
<1>. HIDE DEF S, Rest
<1>. QED BY <1>1, <1>6, <1>13, <1>14

-----------------------------------------------------------------------------
(***************************************************************************)
(* The list of OsList: its links are the ring of the sequence its callers  *)
(* see, and every other node is initialised.                               *)
(***************************************************************************)
ListSpec == ListInit /\ [][ListNext]_listVars

Nodes == ListEntry \cup {TheList}

ListInv ==
  /\ Ring(Nodes, links, TheList, listed)
  /\ \A n \in ListEntry : (\A j \in 1..Len(listed) : listed[j] # n) => links[n] = os_list_node_init

LEMMA NodesAre ==
  Nodes \subseteq Int \ {ListNull} /\ TheList \in Nodes /\ \A n \in ListEntry : n \in Nodes /\ n # TheList
BY ListAssumption DEF Nodes, TheList, ListNull

\* No node of a ring is initialised.
LEMMA OnRing ==
  ASSUME NEW D, NEW L, NEW list, NEW s, Ring(D, L, list, s), NEW k \in 0..Len(s)
  PROVE  L[At(list, s, k)] # os_list_node_init
<1>1. L[At(list, s, k)].next = At(list, s, k + 1)
  BY DEF Ring
<1>2. k + 1 \in 0..(Len(s) + 1) /\ Len(s) \in Nat
  BY RingPositions
<1>3. At(list, s, k + 1) # ListNull
  BY <1>2, RingPositions
<1>. QED BY <1>1, <1>3 DEF os_list_node_init

LEMMA ListStart == ListInit => ListInv
<1>. SUFFICES ASSUME ListInit PROVE ListInv
  OBVIOUS
<1>1. /\ listed = <<>> /\ Len(listed) = 0 /\ listed \in Seq(Nodes)
      /\ links = [n \in Nodes |-> IF n = TheList THEN os_list_init(TheList) ELSE os_list_node_init]
  BY DEF ListInit, Nodes
<1>2. links \in Links(Nodes)
  BY <1>1 DEF Links, os_list_init, os_list_node_init, ListNull, TheList
<1>3. links[TheList] = [prev |-> TheList, next |-> TheList]
  BY <1>1, NodesAre DEF os_list_init
<1>4. At(TheList, listed, 0) = TheList /\ At(TheList, listed, 0 + 1) = TheList
  BY <1>1 DEF At
<1>5. Ring(Nodes, links, TheList, listed)
  BY <1>1, <1>2, <1>3, <1>4, NodesAre DEF Ring, IsInjective
<1>6. \A n \in ListEntry : links[n] = os_list_node_init
  BY <1>1, NodesAre
<1>. QED BY <1>5, <1>6 DEF ListInv

LEMMA InsertStep ==
  ASSUME ListInv, NEW n \in ListEntry, ListInsert(n)
  PROVE  ListInv'
<1>1. PICK m \in Nat : m = Len(listed)
  BY RingPositions DEF ListInv
<1>2. /\ Ring(Nodes, links, TheList, listed) /\ listed \in Seq(Nodes)
      /\ \A y \in ListEntry : (\A j \in 1..m : listed[j] # y) => links[y] = os_list_node_init
  BY <1>1 DEF ListInv, Ring
<1>3. \A j \in 1..m : listed[j] # n
  <2>1. ASSUME NEW j \in 1..m PROVE links[listed[j]] # os_list_node_init
    <3>1. j \in 0..Len(listed) /\ At(TheList, listed, j) = listed[j]
      BY <1>1 DEF At
    <3>. QED BY <1>2, <3>1, OnRing
  <2>2. links[n] = os_list_node_init
    BY DEF ListInsert, os_list_node_empty
  <2>. QED BY <2>1, <2>2
<1>4. n \in Nodes /\ n # TheList
  BY NodesAre
<1>5. ASSUME NEW k \in 0..m, Inserted(listed, k, n, listed'), listed' \in Seq(Nodes),
             \/ links' = os_list_node_insert_after(links, n, At(TheList, listed, k))
             \/ links' = os_list_node_insert_before(links, n, At(TheList, listed, k + 1))
      PROVE  ListInv'
  <2>1. /\ Ring(Nodes, links', TheList, listed')
        /\ \A y \in Nodes \ {n} : (y # TheList /\ \A j \in 1..m : listed[j] # y) => links'[y] = links[y]
    BY <1>1, <1>2, <1>3, <1>4, <1>5, InsertKeepsRing
  <2>2. DOMAIN listed' = 1..(m + 1) /\ Len(listed') = m + 1
    BY <1>1, <1>5 DEF Inserted
  <2>3. ASSUME NEW y \in ListEntry, \A j \in 1..Len(listed') : listed'[j] # y
        PROVE  links'[y] = os_list_node_init
    <3>1. listed'[k + 1] = n /\ k + 1 \in 1..(m + 1)
      BY <1>1, <1>5 DEF Inserted
    <3>2. ASSUME NEW j \in 1..m PROVE listed[j] # y
      <4>1. CASE j <= k
        <5>1. listed'[j] = listed[j] /\ j \in 1..(m + 1)
          BY <1>1, <1>5, <4>1 DEF Inserted
        <5>. QED BY <2>2, <2>3, <5>1
      <4>2. CASE j > k
        <5>1. listed'[j + 1] = listed[j] /\ j + 1 \in 1..(m + 1)
          <6>1. j + 1 \in 1..(m + 1) /\ ~(j + 1 <= k) /\ j + 1 # k + 1 /\ (j + 1) - 1 = j
            BY <4>2
          <6>. QED BY <1>1, <1>5, <6>1 DEF Inserted
        <5>. QED BY <2>2, <2>3, <5>1
      <4>. QED BY <4>1, <4>2
    <3>3. y # n /\ y \in Nodes /\ y # TheList
      BY <2>2, <2>3, <3>1, NodesAre
    <3>. QED BY <1>2, <2>1, <3>2, <3>3
  <2>. QED BY <2>1, <2>3 DEF ListInv
<1>6. CASE links' = os_list_insert_head(links, TheList, n) /\ listed' = <<n>> \o listed
  <2>1. 0 \in 0..m /\ At(TheList, listed, 0) = TheList
    BY DEF At
  <2>2. Inserted(listed, 0, n, listed') /\ listed' \in Seq(Nodes)
    BY <1>2, <1>4, <1>6, PrependInserts
  <2>. QED BY <1>5, <1>6, <2>1, <2>2 DEF os_list_insert_head
<1>7. CASE links' = os_list_insert_tail(links, TheList, n) /\ listed' = Append(listed, n)
  <2>1. m \in 0..m /\ At(TheList, listed, m + 1) = TheList
    BY <1>1 DEF At
  <2>2. Inserted(listed, m, n, listed') /\ listed' \in Seq(Nodes)
    BY <1>1, <1>2, <1>4, <1>7, AppendInserts
  <2>. QED BY <1>5, <1>7, <2>1, <2>2 DEF os_list_insert_tail
<1>8. ASSUME NEW i \in 1..m, links' = os_list_node_insert_before(links, n, listed[i]),
             listed' = InsertAt(listed, i, n)
      PROVE  ListInv'
  <2>1. i - 1 \in 0..m /\ At(TheList, listed, (i - 1) + 1) = listed[i] /\ i \in 1..(m + 1)
    BY <1>1 DEF At
  <2>2. Inserted(listed, i - 1, n, listed') /\ listed' \in Seq(Nodes)
    BY <1>1, <1>2, <1>4, <1>8, <2>1, InsertAtInserts
  <2>. QED BY <1>5, <1>8, <2>1, <2>2
<1>9. ASSUME NEW i \in 1..m, links' = os_list_node_insert_after(links, n, listed[i]),
             listed' = InsertAt(listed, i + 1, n)
      PROVE  ListInv'
  <2>1. i \in 0..m /\ At(TheList, listed, i) = listed[i] /\ i + 1 \in 1..(m + 1) /\ (i + 1) - 1 = i
    BY <1>1 DEF At
  <2>2. Inserted(listed, (i + 1) - 1, n, listed') /\ listed' \in Seq(Nodes)
    BY <1>1, <1>2, <1>4, <1>9, <2>1, InsertAtInserts
  <2>. QED BY <1>5, <1>9, <2>1, <2>2
<1>10. DOMAIN listed = 1..m
  BY <1>1, <1>2
<1>. QED BY <1>6, <1>7, <1>8, <1>9, <1>10 DEF ListInsert

LEMMA RemoveStep ==
  ASSUME ListInv, NEW n \in ListEntry, ListRemove(n)
  PROVE  ListInv'
<1>1. PICK m \in Nat : m = Len(listed)
  BY RingPositions DEF ListInv
<1>2. /\ Ring(Nodes, links, TheList, listed) /\ listed \in Seq(Nodes) /\ links \in Links(Nodes)
      /\ \A y \in ListEntry : (\A j \in 1..m : listed[j] # y) => links[y] = os_list_node_init
  BY <1>1 DEF ListInv, Ring
<1>3. links' = os_list_node_remove(links, n) /\ listed' = RemoveFirst(listed, n)
  BY DEF ListRemove
<1>4. CASE \A j \in 1..m : listed[j] # n
  <2>1. listed' = listed
    BY <1>1, <1>2, <1>3, <1>4, RemoveFirstRemoves
  <2>2. links' = links
    BY <1>2, <1>3, <1>4, NodesAre, RemoveNothing DEF os_list_node_empty
  <2>. QED BY <2>1, <2>2 DEF ListInv, Ring
<1>5. CASE \E j \in 1..m : listed[j] = n
  <2>1. PICK k \in 1..m : listed[k] = n /\ listed' \in Seq(Nodes) /\ Removed(listed, k, listed')
    BY <1>1, <1>2, <1>3, <1>5, RemoveFirstRemoves
  <2>2. /\ Ring(Nodes, links', TheList, listed') /\ links'[n] = os_list_node_init
        /\ \A y \in Nodes : (y # TheList /\ \A j \in 1..m : listed[j] # y) => links'[y] = links[y]
    BY <1>1, <1>2, <1>3, <2>1, RemoveKeepsRing
  <2>3. Len(listed') = m - 1 /\ \A j \in 1..(m - 1) : listed'[j] = IF j < k THEN listed[j] ELSE listed[j + 1]
    BY <1>1, <2>1 DEF Removed
  <2>4. ASSUME NEW y \in ListEntry, \A j \in 1..Len(listed') : listed'[j] # y
        PROVE  links'[y] = os_list_node_init
    <3>1. CASE y = n
      BY <2>2, <3>1
    <3>2. CASE y # n
      <4>1. ASSUME NEW j \in 1..m PROVE listed[j] # y
        <5>1. CASE j < k
          <6>1. j \in 1..(m - 1) /\ listed'[j] = listed[j]
            BY <1>1, <2>3, <5>1
          <6>. QED BY <2>3, <2>4, <6>1
        <5>2. CASE j = k
          BY <2>1, <3>2, <5>2
        <5>3. CASE j > k
          <6>1. j - 1 \in 1..(m - 1) /\ ~(j - 1 < k) /\ (j - 1) + 1 = j
            BY <1>1, <5>3
          <6>2. listed'[j - 1] = listed[j]
            BY <2>3, <6>1
          <6>. QED BY <2>3, <2>4, <6>1, <6>2
        <5>. QED BY <5>1, <5>2, <5>3
      <4>. QED BY <1>2, <2>2, <4>1, NodesAre
    <3>. QED BY <3>1, <3>2
  <2>. QED BY <2>2, <2>4 DEF ListInv
<1>. QED BY <1>4, <1>5

LEMMA ClearStep == ListInv /\ ListClear => ListInv'
<1>. SUFFICES ASSUME ListInv, ListClear PROVE ListInv'
  OBVIOUS
<1>1. PICK m \in Nat : m = Len(listed)
  BY RingPositions DEF ListInv
<1>2. /\ Ring(Nodes, links, TheList, listed)
      /\ \A y \in ListEntry : (\A j \in 1..m : listed[j] # y) => links[y] = os_list_node_init
  BY <1>1 DEF ListInv
<1>3. links' = RemoveEach(links, TheList, m) /\ listed' = <<>> /\ Len(listed') = 0
  BY <1>1 DEF ListClear
<1>4. /\ Ring(Nodes, links', TheList, <<>>)
      /\ \A j \in 1..m : links'[listed[j]] = os_list_node_init
      /\ \A y \in Nodes : (y # TheList /\ \A j \in 1..m : listed[j] # y) => links'[y] = links[y]
  BY <1>1, <1>2, <1>3, RemovesEach
<1>5. \A y \in ListEntry : links'[y] = os_list_node_init
  BY <1>2, <1>4, NodesAre
<1>. QED BY <1>3, <1>4, <1>5 DEF ListInv

\* What the invariant says of the properties' chain.
LEMMA ListIsSequence == ListInv => PointersAreTheSequence
<1>. SUFFICES ASSUME ListInv PROVE PointersAreTheSequence
  OBVIOUS
<1>1. PICK m \in Nat : m = Len(listed)
  BY RingPositions DEF ListInv
<1>2. /\ Ring(Nodes, links, TheList, listed) /\ listed \in Seq(Nodes)
      /\ \A y \in ListEntry : (\A j \in 1..m : listed[j] # y) => links[y] = os_list_node_init
  BY <1>1 DEF ListInv, Ring
<1>3. PICK o : o = <<TheList>>
  OBVIOUS
<1>4. o \in Seq(Nodes) /\ Len(o) = 1 /\ o[1] = TheList
  BY <1>3, NodesAre
<1>5. PICK a : a = o \o listed
  OBVIOUS
<1>6. a \in Seq(Nodes) /\ Len(a) = 1 + m /\ \A j \in 1..(1 + m) : a[j] = IF j <= 1 THEN o[j] ELSE listed[j - 1]
  <2>1. listed \in Seq(Nodes) /\ o \in Seq(Nodes) /\ Len(o) = 1 /\ Len(listed) = m /\ 1 \in Nat
    BY <1>1, <1>2, <1>4
  <2>2. /\ o \o listed \in Seq(Nodes) /\ Len(o \o listed) = Len(o) + Len(listed)
        /\ \A j \in 1..(Len(o) + Len(listed)) :
             (o \o listed)[j] = IF j <= Len(o) THEN o[j] ELSE listed[j - Len(o)]
    BY <2>1, ConcatProperties, Zenon
  <2>. QED BY <1>5, <2>1, <2>2
<1>7. PICK chain : chain = a \o o
  OBVIOUS
<1>8. Len(chain) = (1 + m) + 1 /\ \A j \in 1..((1 + m) + 1) : chain[j] = IF j <= 1 + m THEN a[j] ELSE o[j - (1 + m)]
  <2>1. a \in Seq(Nodes) /\ o \in Seq(Nodes) /\ Len(a) = 1 + m /\ Len(o) = 1 /\ 1 \in Nat /\ 1 + m \in Nat
    BY <1>4, <1>6
  <2>2. /\ Len(a \o o) = Len(a) + Len(o)
        /\ \A j \in 1..(Len(a) + Len(o)) : (a \o o)[j] = IF j <= Len(a) THEN a[j] ELSE o[j - Len(a)]
    BY <2>1, ConcatProperties, Zenon
  <2>. QED BY <1>7, <2>1, <2>2
<1>9. ASSUME NEW j \in 1..(m + 2) PROVE chain[j] = At(TheList, listed, j - 1)
  <2>1. CASE j = 1
    BY <1>4, <1>6, <1>8, <2>1 DEF At
  <2>2. CASE j \in 2..(m + 1)
    <3>1. /\ j \in 1..((1 + m) + 1) /\ j <= 1 + m /\ j \in 1..(1 + m) /\ ~(j <= 1)
          /\ j - 1 \in 1..m
      BY <2>2
    <3>2. chain[j] = a[j]
      BY <1>8, <3>1
    <3>3. a[j] = listed[j - 1]
      BY <1>6, <3>1
    <3>4. At(TheList, listed, j - 1) = listed[j - 1]
      BY <1>1, <3>1 DEF At
    <3>. QED BY <3>2, <3>3, <3>4
  <2>3. CASE j = m + 2
    BY <1>1, <1>4, <1>8, <2>3 DEF At
  <2>. QED BY <2>1, <2>2, <2>3
<1>10. ASSUME NEW i \in 1..(Len(chain) - 1)
       PROVE  links[chain[i]].next = chain[i + 1] /\ links[chain[i + 1]].prev = chain[i]
  <2>1. i - 1 \in 0..m /\ i \in 1..(m + 2) /\ i + 1 \in 1..(m + 2) /\ (i - 1) + 1 = i /\ (i + 1) - 1 = i
    BY <1>8
  <2>2. chain[i] = At(TheList, listed, i - 1) /\ chain[i + 1] = At(TheList, listed, i)
    BY <1>9, <2>1
  <2>3. \A k \in 0..m : /\ links[At(TheList, listed, k)].next = At(TheList, listed, k + 1)
                        /\ links[At(TheList, listed, k + 1)].prev = At(TheList, listed, k)
    BY <1>1, <1>2 DEF Ring
  <2>. QED BY <2>1, <2>2, <2>3
<1>11. ASSUME NEW n \in ListEntry PROVE os_list_node_empty(links, n) <=> n \notin ToSet(listed)
  <2>1. n \in ToSet(listed) <=> \E j \in 1..m : listed[j] = n
    BY <1>1, <1>2 DEF ToSet
  <2>2. ASSUME NEW j \in 1..m, listed[j] = n PROVE links[n] # os_list_node_init
    <3>1. j \in 0..Len(listed) /\ At(TheList, listed, j) = listed[j]
      BY <1>1 DEF At
    <3>. QED BY <1>2, <2>2, <3>1, OnRing
  <2>. QED BY <1>2, <2>1, <2>2 DEF os_list_node_empty
<1>. QED BY <1>3, <1>5, <1>7, <1>10, <1>11 DEF PointersAreTheSequence

LEMMA ListInvariant == ListSpec => []ListInv
<1>1. ListInit => ListInv
  BY ListStart
<1>2. ListInv /\ [ListNext]_listVars => ListInv'
  <2>. SUFFICES ASSUME ListInv, [ListNext]_listVars PROVE ListInv'
    OBVIOUS
  <2>1. CASE \E n \in ListEntry : ListInsert(n) \/ ListRemove(n)
    BY <2>1, InsertStep, RemoveStep
  <2>2. CASE ListClear
    BY <2>2, ClearStep
  <2>3. CASE UNCHANGED listVars
    BY <2>3 DEF ListInv, Ring, listVars
  <2>. QED BY <2>1, <2>2, <2>3 DEF ListNext
<1>. QED BY <1>1, <1>2, PTL DEF ListSpec

\* The pointers are the sequence, for any nodes: forwards and backwards, whatever is
\* inserted where and removed and however often the list is emptied.
THEOREM ListsAreSequences == ListSpec => []PointersAreTheSequence
BY ListInvariant, ListIsSequence, PTL

-----------------------------------------------------------------------------
(***************************************************************************)
(* The hash map: the ring of every bucket, and the items on it.            *)
(***************************************************************************)

\* A sequence without repetitions is no longer than its set.
LEMMA InjectiveFits ==
  ASSUME NEW S, IsFiniteSet(S), NEW s \in Seq(S), IsInjective(s)
  PROVE  Len(s) <= Cardinality(S) /\ Cardinality(S) \in Nat
<1>1. PICK n \in Nat : n = Len(s) /\ s \in [1..n -> S] /\ DOMAIN s = 1..n
  OBVIOUS
<1>2. s \in Injection(1..n, S)
  BY <1>1 DEF Injection, IsInjective
<1>3. Cardinality(1..n) <= Cardinality(S)
  BY <1>2, FS_Injection
<1>4. Cardinality(1..n) = n
  <2>1. 1 \in Int /\ n \in Int
    BY <1>1
  <2>2. Cardinality(1..n) = IF 1 > n THEN 0 ELSE n - 1 + 1
    BY <2>1, FS_Interval, Zenon
  <2>. QED BY <1>1, <2>2
<1>. QED BY <1>1, <1>3, <1>4, FS_CardinalityType

\* The powers of two, and the size of a map.
LEMMA ShiftedAre ==
  ASSUME NEW n \in Nat
  PROVE  /\ Shifted(n) \in [0..n -> Nat] /\ Shifted(n)[0] = 1
         /\ \A k \in 1..n : Shifted(n)[k] = 2 * Shifted(n)[k - 1]
<1>. DEFINE S == {m \in Nat : \E h : /\ h = [k \in 0..m |-> IF k = 0 THEN 1 ELSE 2 * h[k - 1]]
                                     /\ h \in [0..m -> Nat]}
<1>1. 0 \in S
  <2>1. PICK h : h = [k \in 0..0 |-> 1]
    OBVIOUS
  <2>2. h \in [0..0 -> Nat] /\ h = [k \in 0..0 |-> IF k = 0 THEN 1 ELSE 2 * h[k - 1]]
    BY <2>1
  <2>. QED BY <2>2
<1>2. ASSUME NEW m \in Nat, m \in S PROVE m + 1 \in S
  <2>1. PICK h : h = [k \in 0..m |-> IF k = 0 THEN 1 ELSE 2 * h[k - 1]] /\ h \in [0..m -> Nat]
    BY <1>2
  <2>2. PICK g : g = [k \in 0..(m + 1) |-> IF k = m + 1 THEN 2 * h[m] ELSE h[k]]
    OBVIOUS
  <2>3. \A k \in 0..m : g[k] = h[k]
    BY <2>2
  <2>4. g[m + 1] = 2 * h[m]
    BY <2>2
  <2>5. \A k \in 0..m : h[k] = IF k = 0 THEN 1 ELSE 2 * h[k - 1]
    BY <2>1
  <2>6. ASSUME NEW k \in 0..(m + 1) PROVE g[k] = IF k = 0 THEN 1 ELSE 2 * g[k - 1]
    <3>1. CASE k = m + 1
      BY <2>3, <2>4, <3>1
    <3>2. CASE k # m + 1
      <4>1. k \in 0..m /\ (k # 0 => k - 1 \in 0..m)
        BY <3>2
      <4>. QED BY <2>3, <2>5, <4>1
    <3>. QED BY <3>1, <3>2
  <2>7. g = [k \in 0..(m + 1) |-> g[k]]
    BY <2>2
  <2>8. g = [k \in 0..(m + 1) |-> IF k = 0 THEN 1 ELSE 2 * g[k - 1]]
    BY <2>6, <2>7
  <2>9. g \in [0..(m + 1) -> Nat]
    BY <2>1, <2>2
  <2>. QED BY <2>8, <2>9
<1>. HIDE DEF S
<1>3. n \in S
  BY <1>1, <1>2, SetInduction
<1>4. PICK h : h = [k \in 0..n |-> IF k = 0 THEN 1 ELSE 2 * h[k - 1]]
  BY <1>3 DEF S
<1>5. Shifted(n) = [k \in 0..n |-> IF k = 0 THEN 1 ELSE 2 * Shifted(n)[k - 1]]
  BY <1>4, Zenon DEF Shifted
<1>6. Shifted(n)[0] = 1 /\ \A k \in 1..n : Shifted(n)[k] = 2 * Shifted(n)[k - 1]
  BY <1>5
<1>. DEFINE T == {m \in Nat : m <= n => Shifted(n)[m] \in Nat}
<1>7. 0 \in T
  BY <1>6
<1>8. ASSUME NEW m \in Nat, m \in T PROVE m + 1 \in T
  <2>1. m + 1 <= n => m + 1 \in 1..n /\ (m + 1) - 1 = m /\ m <= n
    OBVIOUS
  <2>. QED BY <1>6, <1>8, <2>1
<1>. HIDE DEF T
<1>9. \A m \in Nat : m \in T
  BY <1>7, <1>8, SetInduction
<1>10. \A m \in 0..n : Shifted(n)[m] \in Nat
  BY <1>9 DEF T
<1>. QED BY <1>5, <1>6, <1>10

LEMMA SizeIsPositive ==
  ASSUME NEW n \in Nat \ {0}
  PROVE  Shifted(n)[ALIGN_UP_MIN(n)] \in Nat \ {0}
<1>. DEFINE S == {m \in Nat : m <= n => Shifted(n)[m] >= m + 1}
<1>1. 0 \in S
  <2>1. Shifted(n)[0] = 1
    BY ShiftedAre
  <2>. QED BY <2>1
<1>2. ASSUME NEW m \in Nat, m \in S PROVE m + 1 \in S
  <2>. SUFFICES ASSUME m + 1 <= n PROVE Shifted(n)[m + 1] >= (m + 1) + 1
    OBVIOUS
  <2>1. m + 1 \in 1..n /\ (m + 1) - 1 = m /\ m \in 0..n /\ m <= n
    OBVIOUS
  <2>2. PICK a \in Nat : a = Shifted(n)[m]
    BY <2>1, ShiftedAre
  <2>3. Shifted(n)[m + 1] = 2 * a
    BY <2>1, <2>2, ShiftedAre
  <2>4. a >= m + 1
    BY <1>2, <2>1, <2>2
  <2>. QED BY <2>3, <2>4
<1>. HIDE DEF S
<1>3. \A m \in Nat : m \in S
  BY <1>1, <1>2, SetInduction
<1>4. \A m \in 0..n : Shifted(n)[m] >= m + 1 /\ Shifted(n)[m] \in Nat
  BY <1>3, ShiftedAre DEF S
<1>5. PICK K : K = {k \in 0..n : Shifted(n)[k] >= n}
  OBVIOUS
<1>6. n \in K /\ K \in SUBSET Nat
  <2>1. PICK a \in Nat : a = Shifted(n)[n] /\ a >= n + 1
    BY <1>4
  <2>. QED BY <1>5, <2>1
<1>7. PICK k \in K : \A y \in K : k <= y
  BY <1>6, LeastNumber
<1>8. k \in 0..n /\ Shifted(n)[k] >= n /\ \A j \in 0..(k - 1) : Shifted(n)[j] < n
  <2>1. k \in 0..n /\ Shifted(n)[k] >= n
    BY <1>5, <1>7
  <2>2. ASSUME NEW j \in 0..(k - 1) PROVE Shifted(n)[j] < n
    <3>1. j \in 0..n /\ ~(k <= j)
      BY <2>1
    <3>2. PICK a \in Nat : a = Shifted(n)[j]
      BY <1>4, <3>1
    <3>. QED BY <1>5, <1>7, <3>1, <3>2
  <2>. QED BY <2>1, <2>2
<1>9. ALIGN_UP_MIN(n) \in 0..n
  BY <1>8, Zenon DEF ALIGN_UP_MIN
<1>. QED BY <1>4, <1>9

HashNodes(count) == HashItem \cup {ListOf(b) : b \in 0..(count - 1)}

Used == {i \in HashItem : items[i] # NoItem}

\* ch has every bucket's items in the order of its ring.
Chains(ch) ==
  /\ ch \in [Buckets -> Seq(HashItem)]
  /\ \A b \in Buckets :
       /\ Ring(HashNodes(hashmap.count), hashmap.links, ListOf(b), ch[b])
       /\ \A j \in 1..Len(ch[b]) : ch[b][j] \in Used /\ items[ch[b][j]].key % hashmap.count = b
  /\ \A i \in Used : \E j \in 1..Len(ch[items[i].key % hashmap.count]) :
       ch[items[i].key % hashmap.count][j] = i

\* The items in use are those of the keys the callers have set, one each, with their values.
ItemsInv ==
  /\ items \in [HashItem -> [key : HashKey, value : HashValue] \cup {NoItem}]
  /\ DOMAIN mapped \subseteq HashKey /\ mapped \in [DOMAIN mapped -> HashValue]
  /\ \A i \in Used : items[i].key \in DOMAIN mapped /\ items[i].value = mapped[items[i].key]
  /\ \A k \in DOMAIN mapped : \E i \in Used : items[i].key = k
  /\ \A i, j \in Used : items[i].key = items[j].key => i = j

HashInv ==
  /\ ItemsInv
  /\ hashmap = [count |-> hashmap.count, links |-> hashmap.links] /\ hashmap.count \in Nat
  /\ hashmap.count = 0 => Used = {}
  /\ hashmap.count # 0 => \E ch : Chains(ch)

LEMMA HashNodesAre ==
  ASSUME NEW count \in Nat
  PROVE  /\ HashNodes(count) \subseteq Int \ {ListNull} /\ HashItem \subseteq HashNodes(count)
         /\ \A b \in 0..(count - 1) : ListOf(b) \in HashNodes(count) /\ ListOf(b) \notin HashItem
         /\ \A b, c \in 0..(count - 1) : ListOf(b) = ListOf(c) => b = c
<1>1. \A b \in 0..(count - 1) : ListOf(b) \in Int /\ ListOf(b) < 0
  BY DEF ListOf
<1>2. \A i \in HashItem : i \in Int /\ i > 0
  BY HashmapAssumption
<1>3. HashNodes(count) \subseteq Int \ {ListNull}
  BY <1>1, <1>2 DEF HashNodes, ListNull
<1>4. \A b \in 0..(count - 1) : ListOf(b) \in HashNodes(count) /\ ListOf(b) \notin HashItem
  BY <1>1, <1>2 DEF HashNodes
<1>5. \A b, c \in 0..(count - 1) : ListOf(b) = ListOf(c) => b = c
  BY DEF ListOf
<1>. QED BY <1>3, <1>4, <1>5 DEF HashNodes

\* The default hash function gives a bucket.
LEMMA BucketOf ==
  ASSUME NEW count \in Nat \ {0}, NEW key \in HashKey
  PROVE  key \in Nat /\ key % count \in 0..(count - 1)
BY HashmapAssumption

LEMMA UsedItems ==
  ASSUME ItemsInv, NEW i \in HashItem
  PROVE  IF i \in Used THEN items[i].key \in HashKey /\ items[i].key \in Nat /\ items[i].value \in HashValue
                       ELSE items[i] = NoItem /\ items[i].key \notin Nat
<1>1. items[i] \in [key : HashKey, value : HashValue] \cup {NoItem}
  BY DEF ItemsInv
<1>2. NoItem.key \notin Nat
  BY DEF NoItem
<1>3. \A k \in HashKey : k \in Nat
  BY HashmapAssumption
<1>. QED BY <1>1, <1>2, <1>3 DEF Used

\* The search of a bucket visits its chain and finds the item of the key, if there is one.
LEMMA ChainIs ==
  ASSUME HashInv, NEW ch, Chains(ch), NEW b \in Buckets
  PROVE  Chain(b) = ch[b]
<1>1. /\ Ring(HashNodes(hashmap.count), hashmap.links, ListOf(b), ch[b])
      /\ ch[b] \in Seq(HashItem)
  BY DEF Chains
<1>2. IsInjective(ch[b])
  BY <1>1 DEF Ring
<1>3. Len(ch[b]) <= Cardinality(HashItem) /\ Cardinality(HashItem) \in Nat
  BY <1>1, <1>2, HashmapAssumption, InjectiveFits
<1>. QED BY <1>1, <1>3, ForeachVisits DEF Chain

LEMMA FoundItem ==
  ASSUME HashInv, hashmap.count # 0, NEW ch, Chains(ch), NEW key \in HashKey
  PROVE  /\ key % hashmap.count \in Buckets
         /\ \/ \E k \in 1..Len(ch[key % hashmap.count]) :
                 /\ os_hashmap_find(key) = ch[key % hashmap.count][k]
                 /\ os_hashmap_find(key) \in Used /\ os_hashmap_find(key) # 0
                 /\ items[os_hashmap_find(key)].key = key
            \/ os_hashmap_find(key) = 0 /\ \A i \in Used : items[i].key # key
<1>1. hashmap.count \in Nat \ {0}
  BY DEF HashInv
<1>2. PICK b \in Buckets : b = key % hashmap.count
  BY <1>1, BucketOf DEF Buckets
<1>3. PICK s : s = Chain(b) /\ s = ch[b]
  BY ChainIs
<1>4. PICK n \in Nat : n = Len(s) /\ DOMAIN s = 1..n /\ \A j \in 1..n : s[j] \in HashItem
  BY <1>3 DEF Chains
<1>5. PICK K : K = {j \in 1..n : items[s[j]].key = key}
  OBVIOUS
<1>6. os_hashmap_find(key) = IF K = {} THEN 0 ELSE s[Min(K)]
  BY <1>2, <1>3, <1>4, <1>5 DEF os_hashmap_find, os_hashmap_default_hash_function
<1>7. CASE K = {}
  <2>1. ASSUME NEW i \in Used, items[i].key = key PROVE FALSE
    <3>1. PICK j \in 1..n : s[j] = i
      BY <1>2, <1>3, <1>4, <2>1 DEF Chains
    <3>. QED BY <1>5, <1>7, <2>1, <3>1
  <2>. QED BY <1>2, <1>6, <1>7, <2>1
<1>8. CASE K # {}
  <2>1. K \in SUBSET Nat
    BY <1>4, <1>5
  <2>2. PICK k \in 1..n : k = Min(K) /\ items[s[k]].key = key
    BY <1>5, <1>8, <2>1, MinIsLeast
  <2>3. s[k] \in Used
    BY <1>3, <1>4 DEF Chains
  <2>4. s[k] # 0
    BY <1>4, HashmapAssumption
  <2>. QED BY <1>2, <1>3, <1>4, <1>6, <1>8, <2>2, <2>3, <2>4
<1>. QED BY <1>7, <1>8

LEMMA HashStart == HashmapInit => HashInv
<1>. SUFFICES ASSUME HashmapInit PROVE HashInv
  OBVIOUS
<1>1. hashmap.count = 0 /\ hashmap = [count |-> hashmap.count, links |-> hashmap.links]
  BY DEF HashmapInit, NoHashmap
<1>2. items = [i \in HashItem |-> NoItem] /\ DOMAIN mapped = {} /\ mapped \in [DOMAIN mapped -> HashValue]
  BY DEF HashmapInit
<1>3. Used = {}
  BY <1>2 DEF Used
<1>4. ItemsInv
  BY <1>2, <1>3 DEF ItemsInv
<1>. QED BY <1>1, <1>3, <1>4 DEF HashInv

LEMMA CreateStep ==
  ASSUME HashInv, NEW count \in HashCount, os_hashmap_create(count)
  PROVE  HashInv'
<1>1. PICK size \in Nat \ {0} : size = Shifted(count)[ALIGN_UP_MIN(count)]
  BY HashmapAssumption, SizeIsPositive
<1>2. /\ hashmap.count = 0 /\ items' = items /\ mapped' = mapped
      /\ hashmap' = [count |-> size,
                     links |-> [n \in HashNodes(size) |-> IF n > 0 THEN os_list_node_init ELSE os_list_init(n)]]
  BY <1>1 DEF os_hashmap_create, HashNodes
<1>3. Used = {} /\ Used' = {}
  BY <1>2 DEF HashInv, Used
<1>4. ItemsInv'
  BY <1>2, <1>3 DEF HashInv, ItemsInv, Used
<1>5. PICK D, L : D = HashNodes(size) /\ L = [n \in D |-> IF n > 0 THEN os_list_node_init ELSE os_list_init(n)]
  OBVIOUS
<1>6. D \subseteq Int \ {ListNull} /\ \A b \in 0..(size - 1) : ListOf(b) \in D
  BY <1>5, HashNodesAre
<1>7. L \in Links(D)
  BY <1>5, <1>6 DEF Links, os_list_node_init, os_list_init, ListNull
<1>8. ASSUME NEW b \in 0..(size - 1) PROVE Ring(D, L, ListOf(b), <<>>)
  <2>1. ~(ListOf(b) > 0)
    BY DEF ListOf
  <2>2. L[ListOf(b)] = [prev |-> ListOf(b), next |-> ListOf(b)]
    BY <1>5, <1>6, <2>1 DEF os_list_init
  <2>3. At(ListOf(b), <<>>, 0) = ListOf(b) /\ At(ListOf(b), <<>>, 0 + 1) = ListOf(b)
    BY DEF At
  <2>. QED BY <1>6, <1>7, <2>2, <2>3 DEF Ring, IsInjective
<1>9. hashmap'.count = size /\ hashmap'.links = L /\ Buckets' = 0..(size - 1)
  BY <1>2, <1>5 DEF Buckets
<1>10. PICK ch : ch = [b \in 0..(size - 1) |-> <<>>]
  OBVIOUS
<1>11. Chains(ch)'
  <2>1. ch \in [0..(size - 1) -> Seq(HashItem)] /\ \A b \in 0..(size - 1) : ch[b] = <<>>
    BY <1>10
  <2>. QED BY <1>3, <1>5, <1>8, <1>9, <2>1 DEF Chains
<1>. QED BY <1>1, <1>2, <1>4, <1>9, <1>11 DEF HashInv

LEMMA RemoveMapStep ==
  ASSUME HashInv, os_hashmap_remove
  PROVE  HashInv'
<1>1. /\ hashmap.count # 0 /\ hashmap' = NoHashmap
      /\ items' = [i \in HashItem |-> IF \E b \in Buckets : Contains(Chain(b), i) THEN NoItem ELSE items[i]]
      /\ mapped' = [k \in {} |-> -1]
  BY DEF os_hashmap_remove
<1>2. PICK ch : Chains(ch)
  BY <1>1 DEF HashInv
<1>3. ASSUME NEW i \in HashItem PROVE items'[i] = NoItem
  <2>1. CASE i \in Used
    <3>1. PICK b \in Buckets : b = items[i].key % hashmap.count
      <4>1. items[i].key \in HashKey /\ hashmap.count \in Nat \ {0}
        BY <1>1, <2>1, UsedItems DEF HashInv
      <4>. QED BY <4>1, BucketOf DEF Buckets
    <3>2. \E j \in 1..Len(ch[b]) : ch[b][j] = i
      BY <1>2, <2>1, <3>1 DEF Chains
    <3>3. Contains(Chain(b), i)
      BY <1>2, <3>2, ChainIs DEF Contains
    <3>. QED BY <1>1, <3>3
  <2>2. CASE i \notin Used
    BY <1>1, <2>2 DEF Used
  <2>. QED BY <2>1, <2>2
<1>4. Used' = {}
  BY <1>3 DEF Used
<1>5. hashmap'.count = 0 /\ hashmap' = [count |-> hashmap'.count, links |-> hashmap'.links]
  BY <1>1 DEF NoHashmap
<1>6. items' \in [HashItem -> [key : HashKey, value : HashValue] \cup {NoItem}]
  BY <1>1, <1>3
<1>7. DOMAIN mapped' = {} /\ mapped' \in [DOMAIN mapped' -> HashValue]
  BY <1>1
<1>8. ItemsInv'
  BY <1>4, <1>6, <1>7 DEF ItemsInv
<1>. QED BY <1>4, <1>5, <1>8 DEF HashInv

LEMMA SetExistingStep ==
  ASSUME HashInv, hashmap.count # 0, NEW key \in HashKey, NEW value \in HashValue,
         os_hashmap_set_existing(key, value)
  PROVE  HashInv'
<1>1. PICK ch : Chains(ch)
  BY DEF HashInv
<1>2. PICK f \in Used : f = os_hashmap_find(key) /\ items[f].key = key
  BY <1>1, FoundItem DEF os_hashmap_set_existing
<1>3. /\ items' = [items EXCEPT ![f].value = value] /\ mapped' = [mapped EXCEPT ![key] = value]
      /\ hashmap' = hashmap
  BY <1>2 DEF os_hashmap_set_existing
<1>4. /\ items \in [HashItem -> [key : HashKey, value : HashValue] \cup {NoItem}]
      /\ f \in HashItem /\ items[f] \in [key : HashKey, value : HashValue]
      /\ key \in DOMAIN mapped /\ mapped \in [DOMAIN mapped -> HashValue]
  BY <1>2 DEF HashInv, ItemsInv, Used
<1>5. \A i \in HashItem : i # f => items'[i] = items[i]
  BY <1>3, <1>4
<1>6. items'[f] = [key |-> key, value |-> value]
  BY <1>2, <1>3, <1>4
<1>7. Used' = Used
  <2>1. items'[f] # NoItem
    <3>1. key # -1
      BY HashmapAssumption
    <3>. QED BY <1>6, <3>1 DEF NoItem
  <2>. QED BY <1>2, <1>5, <2>1 DEF Used
<1>8. \A i \in HashItem : items'[i].key = items[i].key
  BY <1>2, <1>5, <1>6
<1>9. DOMAIN mapped' = DOMAIN mapped /\ mapped' \in [DOMAIN mapped -> HashValue]
      /\ mapped'[key] = value /\ \A k \in DOMAIN mapped : k # key => mapped'[k] = mapped[k]
  BY <1>3, <1>4
<1>10. ItemsInv'
  <2>1. items' \in [HashItem -> [key : HashKey, value : HashValue] \cup {NoItem}]
    BY <1>3, <1>4
  <2>2. ASSUME NEW i \in Used PROVE items'[i].key \in DOMAIN mapped /\ items'[i].value = mapped'[items'[i].key]
    <3>1. CASE i = f
      BY <1>4, <1>6, <1>9, <3>1
    <3>2. CASE i # f
      <4>1. items[i].key # key /\ i \in HashItem
        BY <1>2, <3>2 DEF HashInv, ItemsInv, Used
      <4>. QED BY <1>5, <1>9, <3>2, <4>1 DEF HashInv, ItemsInv
    <3>. QED BY <3>1, <3>2
  <2>3. \A k \in DOMAIN mapped : \E i \in Used : items'[i].key = k
    BY <1>8 DEF HashInv, ItemsInv, Used
  <2>4. \A i, j \in Used : items'[i].key = items'[j].key => i = j
    BY <1>8 DEF HashInv, ItemsInv, Used
  <2>5. DOMAIN mapped' \subseteq HashKey
    BY <1>9 DEF HashInv, ItemsInv
  <2>. QED BY <1>7, <1>9, <2>1, <2>2, <2>3, <2>4, <2>5 DEF ItemsInv
<1>11. Chains(ch)'
  <2>1. Used \subseteq HashItem
    BY DEF Used
  <2>2. ch \in [Buckets -> Seq(HashItem)] /\ Buckets' = Buckets /\ hashmap'.count = hashmap.count
        /\ hashmap'.links = hashmap.links
    BY <1>1, <1>3 DEF Chains, Buckets
  <2>3. ASSUME NEW b \in Buckets
        PROVE  /\ Ring(HashNodes(hashmap.count), hashmap.links, ListOf(b), ch[b])
               /\ \A j \in 1..Len(ch[b]) : ch[b][j] \in Used /\ items'[ch[b][j]].key % hashmap.count = b
    BY <1>1, <1>8, <2>1 DEF Chains
  <2>4. \A i \in Used : \E j \in 1..Len(ch[items'[i].key % hashmap.count]) :
          ch[items'[i].key % hashmap.count][j] = i
    BY <1>1, <1>8, <2>1 DEF Chains
  <2>. QED BY <1>7, <2>2, <2>3, <2>4 DEF Chains
<1>. QED BY <1>3, <1>7, <1>10, <1>11 DEF HashInv

\* A new item goes behind the others of its bucket; the other chains do not notice.
LEMMA SetNewStep ==
  ASSUME HashInv, hashmap.count # 0, NEW key \in HashKey, NEW value \in HashValue,
         os_hashmap_set_new(key, value)
  PROVE  HashInv'
<1>1. PICK ch : Chains(ch)
  BY DEF HashInv
<1>2. PICK count \in Nat \ {0} : count = hashmap.count /\ Buckets = 0..(count - 1)
  BY DEF HashInv, Buckets
<1>3. PICK b \in 0..(count - 1) : b = key % count
  BY <1>2, BucketOf
<1>4. PICK x \in HashItem :
        /\ items[x] = NoItem /\ items' = [items EXCEPT ![x] = [key |-> key, value |-> value]]
        /\ hashmap' = [hashmap EXCEPT !.links = os_list_insert_tail(@, ListOf(b), x)]
  BY <1>2, <1>3 DEF os_hashmap_set_new, os_hashmap_default_hash_function
<1>5. mapped' = [k \in DOMAIN mapped \cup {key} |-> IF k = key THEN value ELSE mapped[k]]
  BY DEF os_hashmap_set_new
<1>6. \A i \in Used : items[i].key # key
  BY <1>1, FoundItem DEF os_hashmap_set_new
<1>7. /\ items \in [HashItem -> [key : HashKey, value : HashValue] \cup {NoItem}]
      /\ items'[x] = [key |-> key, value |-> value] /\ \A i \in HashItem : i # x => items'[i] = items[i]
  BY <1>4 DEF HashInv, ItemsInv
<1>8. Used' = Used \cup {x} /\ x \notin Used
  <2>1. items'[x] # NoItem
    <3>1. key # -1
      BY HashmapAssumption
    <3>. QED BY <1>7, <3>1 DEF NoItem
  <2>. QED BY <1>4, <1>7, <2>1 DEF Used
<1>9. \A i \in Used : i \in HashItem /\ i # x /\ items'[i] = items[i]
  BY <1>7, <1>8 DEF Used
<1>10. ItemsInv'
  <2>1. items' \in [HashItem -> [key : HashKey, value : HashValue] \cup {NoItem}]
    BY <1>4, <1>7
  <2>2. /\ DOMAIN mapped' = DOMAIN mapped \cup {key} /\ mapped' \in [DOMAIN mapped' -> HashValue]
        /\ mapped'[key] = value /\ \A k \in DOMAIN mapped : k # key => mapped'[k] = mapped[k]
    BY <1>5 DEF HashInv, ItemsInv
  <2>3. ASSUME NEW i \in Used'
        PROVE  items'[i].key \in DOMAIN mapped' /\ items'[i].value = mapped'[items'[i].key]
    <3>1. CASE i = x
      BY <1>7, <2>2, <3>1
    <3>2. CASE i \in Used
      <4>1. items[i].key \in DOMAIN mapped /\ items[i].value = mapped[items[i].key] /\ items[i].key # key
        BY <1>6, <3>2 DEF HashInv, ItemsInv
      <4>. QED BY <1>9, <2>2, <3>2, <4>1
    <3>. QED BY <1>8, <3>1, <3>2
  <2>4. ASSUME NEW k \in DOMAIN mapped' PROVE \E i \in Used' : items'[i].key = k
    <3>1. CASE k = key
      BY <1>7, <1>8, <3>1
    <3>2. CASE k # key
      <4>1. PICK i \in Used : items[i].key = k
        BY <2>2, <3>2 DEF HashInv, ItemsInv
      <4>. QED BY <1>8, <1>9, <4>1
    <3>. QED BY <3>1, <3>2
  <2>5. ASSUME NEW i \in Used', NEW j \in Used', items'[i].key = items'[j].key PROVE i = j
    <3>1. \A u \in Used : items'[u].key = items[u].key /\ items'[u].key # key
      BY <1>6, <1>9
    <3>2. items'[x].key = key
      BY <1>7
    <3>3. \A u, v \in Used : items[u].key = items[v].key => u = v
      BY DEF HashInv, ItemsInv
    <3>. QED BY <1>8, <2>5, <3>1, <3>2, <3>3
  <2>6. DOMAIN mapped' \subseteq HashKey
    BY <2>2 DEF HashInv, ItemsInv
  <2>. QED BY <2>1, <2>2, <2>3, <2>4, <2>5, <2>6 DEF ItemsInv
<1>11. PICK D, L, M : D = HashNodes(count) /\ L = hashmap.links /\ M = hashmap'.links
  OBVIOUS
<1>12. /\ hashmap' = [count |-> count, links |-> M] /\ M = os_list_node_insert_before(L, x, ListOf(b))
       /\ hashmap'.count = count
  <2>1. hashmap = [count |-> count, links |-> L]
    BY <1>2, <1>11 DEF HashInv
  <2>. QED BY <1>4, <1>11, <2>1 DEF os_list_insert_tail
<1>13. PICK dh : dh = [ch EXCEPT ![b] = Append(ch[b], x)]
  OBVIOUS
<1>14. /\ ch \in [0..(count - 1) -> Seq(HashItem)]
       /\ \A c \in 0..(count - 1) :
            /\ Ring(D, L, ListOf(c), ch[c])
            /\ \A j \in 1..Len(ch[c]) : ch[c][j] \in Used /\ items[ch[c][j]].key % count = c
       /\ \A i \in Used : \E j \in 1..Len(ch[items[i].key % count]) : ch[items[i].key % count][j] = i
  BY <1>1, <1>2, <1>11 DEF Chains
<1>15. dh[b] = Append(ch[b], x) /\ dh \in [0..(count - 1) -> Seq(HashItem)]
       /\ \A c \in 0..(count - 1) : c # b => dh[c] = ch[c]
  BY <1>13, <1>14
<1>16. /\ D \subseteq Int \ {ListNull} /\ HashItem \subseteq D /\ x \in D
       /\ \A c \in 0..(count - 1) : ListOf(c) \in D /\ ListOf(c) \notin HashItem
       /\ \A c, d \in 0..(count - 1) : ListOf(c) = ListOf(d) => c = d
  BY <1>11, HashNodesAre
<1>17. PICK n \in Nat : n = Len(ch[b]) /\ ch[b] \in Seq(HashItem) /\ ch[b] \in Seq(D)
  <2>1. ch[b] \in Seq(HashItem) /\ Ring(D, L, ListOf(b), ch[b])
    BY <1>14
  <2>2. ch[b] \in Seq(D) /\ Len(ch[b]) \in Nat
    BY <2>1 DEF Ring
  <2>. QED BY <2>1, <2>2
<1>18. Ring(D, L, ListOf(b), ch[b]) /\ \A j \in 1..n : ch[b][j] # x
  BY <1>8, <1>14, <1>17
<1>19. /\ Ring(D, M, ListOf(b), dh[b])
       /\ \A y \in D \ {x} : (y # ListOf(b) /\ \A j \in 1..n : ch[b][j] # y) => M[y] = L[y]
  <2>1. PICK s, t : s = ch[b] /\ t = dh[b]
    OBVIOUS
  <2>2. t \in Seq(D) /\ Inserted(s, n, x, t)
    BY <1>15, <1>16, <1>17, <2>1, AppendInserts
  <2>3. n \in 0..Len(s) /\ At(ListOf(b), s, n + 1) = ListOf(b)
    BY <1>17, <2>1 DEF At
  <2>4. Ring(D, L, ListOf(b), s) /\ (\A j \in 1..Len(s) : s[j] # x) /\ x # ListOf(b)
    BY <1>16, <1>17, <1>18, <2>1
  <2>5. M = os_list_node_insert_before(L, x, At(ListOf(b), s, n + 1))
    BY <1>12, <2>3
  <2>6. /\ Ring(D, M, ListOf(b), t)
        /\ \A y \in D \ {x} : (y # ListOf(b) /\ \A j \in 1..Len(s) : s[j] # y) => M[y] = L[y]
    BY <1>16, <2>2, <2>3, <2>4, <2>5, InsertKeepsRing
  <2>. QED BY <1>17, <2>1, <2>6
<1>20. ASSUME NEW c \in 0..(count - 1), c # b PROVE Ring(D, M, ListOf(c), ch[c])
  <2>1. M \in Links(D)
    BY <1>19 DEF Ring
  <2>2. M[ListOf(c)] = L[ListOf(c)]
    <3>1. ListOf(c) \in D \ {x} /\ ListOf(c) # ListOf(b)
      BY <1>16, <1>20
    <3>2. \A j \in 1..n : ch[b][j] # ListOf(c)
      <4>1. \A j \in 1..n : ch[b][j] \in Used
        BY <1>14, <1>17
      <4>. QED BY <1>9, <1>16, <4>1
    <3>. QED BY <1>19, <3>1, <3>2
  <2>3. ASSUME NEW j \in 1..Len(ch[c]) PROVE M[ch[c][j]] = L[ch[c][j]]
    <3>1. PICK y : y = ch[c][j]
      OBVIOUS
    <3>2. y \in Used /\ items[y].key % count = c
      BY <1>14, <3>1
    <3>3. y \in HashItem /\ y # x
      BY <1>9, <3>2
    <3>4. y \in D /\ y # ListOf(b)
      BY <1>16, <3>3
    <3>5. \A i \in 1..n : ch[b][i] # y
      <4>1. \A i \in 1..n : items[ch[b][i]].key % count = b
        BY <1>14, <1>17
      <4>. QED BY <1>20, <3>2, <4>1
    <3>. QED BY <1>19, <3>1, <3>3, <3>4, <3>5
  <2>. QED BY <1>14, <2>1, <2>2, <2>3, RingElsewhere
<1>21. ASSUME NEW c \in 0..(count - 1)
       PROVE  /\ Ring(D, M, ListOf(c), dh[c])
              /\ \A j \in 1..Len(dh[c]) : dh[c][j] \in Used' /\ items'[dh[c][j]].key % count = c
  <2>1. CASE c = b
    <3>1. /\ Len(dh[b]) = n + 1 /\ dh[b][n + 1] = x
          /\ \A j \in 1..n : dh[b][j] = ch[b][j]
      BY <1>15, <1>17
    <3>2. ASSUME NEW j \in 1..(n + 1) PROVE dh[b][j] \in Used' /\ items'[dh[b][j]].key % count = b
      <4>1. CASE j = n + 1
        BY <1>3, <1>7, <1>8, <3>1, <4>1
      <4>2. CASE j # n + 1
        <5>1. j \in 1..n
          BY <1>17, <4>2
        <5>2. ch[b][j] \in Used /\ items[ch[b][j]].key % count = b
          BY <1>14, <1>17, <5>1
        <5>. QED BY <1>8, <1>9, <3>1, <5>1, <5>2
      <4>. QED BY <4>1, <4>2
    <3>. QED BY <1>19, <2>1, <3>1, <3>2
  <2>2. CASE c # b
    <3>1. dh[c] = ch[c] /\ Ring(D, M, ListOf(c), ch[c])
      BY <1>15, <1>20, <2>2
    <3>2. \A j \in 1..Len(ch[c]) : ch[c][j] \in Used /\ items[ch[c][j]].key % count = c
      BY <1>14
    <3>. QED BY <1>8, <1>9, <3>1, <3>2
  <2>. QED BY <2>1, <2>2
<1>22. ASSUME NEW i \in Used'
       PROVE  \E j \in 1..Len(dh[items'[i].key % count]) : dh[items'[i].key % count][j] = i
  <2>1. /\ Len(dh[b]) = n + 1 /\ dh[b][n + 1] = x /\ n + 1 \in 1..(n + 1)
        /\ \A j \in 1..n : dh[b][j] = ch[b][j] /\ j \in 1..(n + 1)
    BY <1>15, <1>17
  <2>2. CASE i = x
    BY <1>3, <1>7, <2>1, <2>2
  <2>3. CASE i \in Used
    <3>1. PICK c \in 0..(count - 1) : c = items[i].key % count /\ items'[i].key = items[i].key
      <4>1. items[i].key \in HashKey
        BY <1>9, <2>3, UsedItems DEF HashInv
      <4>. QED BY <1>9, <2>3, <4>1, BucketOf
    <3>2. PICK j \in 1..Len(ch[c]) : ch[c][j] = i
      BY <1>14, <2>3, <3>1
    <3>3. CASE c = b
      BY <1>17, <2>1, <3>1, <3>2, <3>3
    <3>4. CASE c # b
      BY <1>15, <3>1, <3>2, <3>4
    <3>. QED BY <3>3, <3>4
  <2>. QED BY <1>8, <2>2, <2>3
<1>23. Chains(dh)'
  <2>1. Buckets' = 0..(count - 1) /\ hashmap'.count = count /\ hashmap'.links = M
    BY <1>11, <1>12 DEF Buckets
  <2>. QED BY <1>11, <1>15, <1>21, <1>22, <2>1 DEF Chains
<1>24. hashmap' = [count |-> hashmap'.count, links |-> hashmap'.links] /\ hashmap'.count \in Nat \ {0}
  BY <1>11, <1>12
<1>. QED BY <1>10, <1>23, <1>24 DEF HashInv

\* The item of a key leaves its bucket; the other chains do not notice.
LEMMA RemoveItemStep ==
  ASSUME HashInv, NEW key \in HashKey, os_hashmap_remove_item(key)
  PROVE  HashInv'
<1>1. hashmap.count # 0
  BY DEF os_hashmap_remove_item
<1>2. PICK ch : Chains(ch)
  BY <1>1 DEF HashInv
<1>3. PICK count \in Nat \ {0} : count = hashmap.count /\ Buckets = 0..(count - 1)
  BY <1>1 DEF HashInv, Buckets
<1>4. PICK b \in 0..(count - 1) : b = key % count
  BY <1>3, BucketOf
<1>5. PICK k \in 1..Len(ch[b]) : /\ os_hashmap_find(key) = ch[b][k] /\ ch[b][k] \in Used
                                 /\ items[ch[b][k]].key = key
  BY <1>1, <1>2, <1>3, <1>4, FoundItem DEF os_hashmap_remove_item
<1>6. PICK x \in Used : x = ch[b][k] /\ x = os_hashmap_find(key) /\ items[x].key = key
  BY <1>5
<1>7. /\ hashmap' = [hashmap EXCEPT !.links = os_list_node_remove(@, x)]
      /\ items' = [items EXCEPT ![x] = NoItem]
      /\ mapped' = [m \in DOMAIN mapped \ {key} |-> mapped[m]]
  BY <1>6 DEF os_hashmap_remove_item
<1>8. /\ items \in [HashItem -> [key : HashKey, value : HashValue] \cup {NoItem}]
      /\ x \in HashItem /\ items'[x] = NoItem /\ \A i \in HashItem : i # x => items'[i] = items[i]
  BY <1>6, <1>7 DEF HashInv, ItemsInv, Used
<1>9. Used' = Used \ {x} /\ Used \subseteq HashItem
  BY <1>8 DEF Used
<1>10. \A i \in Used' : i \in HashItem /\ i \in Used /\ i # x /\ items'[i] = items[i] /\ items[i].key # key
  BY <1>6, <1>8, <1>9 DEF HashInv, ItemsInv
<1>11. ItemsInv'
  <2>1. items' \in [HashItem -> [key : HashKey, value : HashValue] \cup {NoItem}]
    BY <1>7, <1>8
  <2>2. /\ DOMAIN mapped' = DOMAIN mapped \ {key} /\ mapped' \in [DOMAIN mapped' -> HashValue]
        /\ \A m \in DOMAIN mapped' : mapped'[m] = mapped[m]
    BY <1>7 DEF HashInv, ItemsInv
  <2>3. ASSUME NEW i \in Used'
        PROVE  items'[i].key \in DOMAIN mapped' /\ items'[i].value = mapped'[items'[i].key]
    <3>1. items[i].key \in DOMAIN mapped /\ items[i].value = mapped[items[i].key] /\ items[i].key # key
      BY <1>10 DEF HashInv, ItemsInv
    <3>. QED BY <1>10, <2>2, <3>1
  <2>4. ASSUME NEW m \in DOMAIN mapped' PROVE \E i \in Used' : items'[i].key = m
    <3>1. PICK i \in Used : items[i].key = m
      BY <2>2 DEF HashInv, ItemsInv
    <3>2. i # x
      BY <1>6, <2>2, <3>1
    <3>. QED BY <1>9, <1>10, <3>1, <3>2
  <2>5. ASSUME NEW i \in Used', NEW j \in Used', items'[i].key = items'[j].key PROVE i = j
    <3>1. \A u, v \in Used : items[u].key = items[v].key => u = v
      BY DEF HashInv, ItemsInv
    <3>. QED BY <1>10, <2>5, <3>1
  <2>6. DOMAIN mapped' \subseteq HashKey
    BY <2>2 DEF HashInv, ItemsInv
  <2>. QED BY <2>1, <2>2, <2>3, <2>4, <2>5, <2>6 DEF ItemsInv
<1>12. PICK D, L, M : D = HashNodes(count) /\ L = hashmap.links /\ M = hashmap'.links
  OBVIOUS
<1>13. /\ hashmap' = [count |-> count, links |-> M] /\ M = os_list_node_remove(L, x)
       /\ hashmap'.count = count
  <2>1. hashmap = [count |-> count, links |-> L]
    BY <1>3, <1>12 DEF HashInv
  <2>. QED BY <1>7, <1>12, <2>1
<1>14. /\ ch \in [0..(count - 1) -> Seq(HashItem)]
       /\ \A c \in 0..(count - 1) :
            /\ Ring(D, L, ListOf(c), ch[c])
            /\ \A j \in 1..Len(ch[c]) : ch[c][j] \in Used /\ items[ch[c][j]].key % count = c
       /\ \A i \in Used : \E j \in 1..Len(ch[items[i].key % count]) : ch[items[i].key % count][j] = i
  BY <1>2, <1>3, <1>12 DEF Chains
<1>15. PICK s \in Seq(HashItem) : s = ch[b]
  BY <1>14
<1>16. PICK t : t = RemoveAt(s, k)
  OBVIOUS
<1>17. PICK n \in Nat : n = Len(s) /\ k \in 1..n /\ s[k] = x
  BY <1>5, <1>6, <1>15
<1>18. t \in Seq(HashItem) /\ Removed(s, k, t)
  BY <1>16, <1>17, RemoveAtRemoves
<1>19. /\ D \subseteq Int \ {ListNull} /\ HashItem \subseteq D /\ x \in D
       /\ \A c \in 0..(count - 1) : ListOf(c) \in D /\ ListOf(c) \notin HashItem
       /\ \A c, d \in 0..(count - 1) : ListOf(c) = ListOf(d) => c = d
  BY <1>8, <1>12, HashNodesAre
<1>20. /\ Ring(D, M, ListOf(b), t)
       /\ \A y \in D : (y # ListOf(b) /\ \A j \in 1..n : s[j] # y) => M[y] = L[y]
  <2>1. t \in Seq(D)
    <3>1. PICK m \in Nat : t \in [1..m -> HashItem]
      BY <1>18
    <3>2. t \in [1..m -> D]
      BY <1>19, <3>1
    <3>. QED BY <3>2
  <2>2. Ring(D, L, ListOf(b), s)
    BY <1>14, <1>15
  <2>3. /\ Ring(D, os_list_node_remove(L, s[k]), ListOf(b), t)
        /\ \A y \in D : (y # ListOf(b) /\ \A j \in 1..Len(s) : s[j] # y) =>
             os_list_node_remove(L, s[k])[y] = L[y]
    BY <1>17, <1>18, <2>1, <2>2, RemoveKeepsRing
  <2>. QED BY <1>13, <1>17, <2>3
<1>21. PICK dh : dh = [ch EXCEPT ![b] = t]
  OBVIOUS
<1>22. dh[b] = t /\ dh \in [0..(count - 1) -> Seq(HashItem)]
       /\ \A c \in 0..(count - 1) : c # b => dh[c] = ch[c]
  BY <1>14, <1>18, <1>21
<1>23. /\ \A j \in 1..n : s[j] \in Used /\ items[s[j]].key % count = b
       /\ \A i, j \in 1..n : s[i] = s[j] => i = j
  <2>1. Ring(D, L, ListOf(b), s)
    BY <1>14, <1>15
  <2>2. DOMAIN s = 1..n
    BY <1>17
  <2>. QED BY <1>14, <1>15, <1>17, <2>1, <2>2 DEF Ring, IsInjective
<1>24. ASSUME NEW c \in 0..(count - 1), c # b PROVE Ring(D, M, ListOf(c), ch[c])
  <2>1. M \in Links(D)
    BY <1>20 DEF Ring
  <2>2. M[ListOf(c)] = L[ListOf(c)]
    <3>1. ListOf(c) \in D /\ ListOf(c) # ListOf(b)
      BY <1>19, <1>24
    <3>2. \A j \in 1..n : s[j] # ListOf(c)
      BY <1>9, <1>19, <1>23
    <3>. QED BY <1>20, <3>1, <3>2
  <2>3. ASSUME NEW j \in 1..Len(ch[c]) PROVE M[ch[c][j]] = L[ch[c][j]]
    <3>1. PICK y : y = ch[c][j]
      OBVIOUS
    <3>2. y \in Used /\ items[y].key % count = c
      BY <1>14, <3>1
    <3>3. y \in D /\ y # ListOf(b)
      BY <1>9, <1>19, <3>2
    <3>4. \A i \in 1..n : s[i] # y
      BY <1>23, <1>24, <3>2
    <3>. QED BY <1>20, <3>1, <3>3, <3>4
  <2>4. Ring(D, L, ListOf(c), ch[c])
    BY <1>14
  <2>. QED BY <2>1, <2>2, <2>3, <2>4, RingElsewhere
<1>25. /\ Len(t) = n - 1
       /\ \A j \in 1..(n - 1) : \E i \in 1..n : i # k /\ t[j] = s[i]
       /\ \A i \in 1..n : i # k => \E j \in 1..(n - 1) : t[j] = s[i]
  <2>1. Len(t) = n - 1 /\ \A j \in 1..(n - 1) : t[j] = IF j < k THEN s[j] ELSE s[j + 1]
    BY <1>17, <1>18 DEF Removed
  <2>2. ASSUME NEW j \in 1..(n - 1) PROVE \E i \in 1..n : i # k /\ t[j] = s[i]
    <3>1. CASE j < k
      <4>1. j \in 1..n /\ j # k /\ t[j] = s[j]
        BY <1>17, <2>1, <3>1
      <4>. QED BY <4>1
    <3>2. CASE ~(j < k)
      <4>1. j + 1 \in 1..n /\ j + 1 # k /\ t[j] = s[j + 1]
        BY <1>17, <2>1, <3>2
      <4>. QED BY <4>1
    <3>. QED BY <3>1, <3>2
  <2>3. ASSUME NEW i \in 1..n, i # k PROVE \E j \in 1..(n - 1) : t[j] = s[i]
    <3>1. CASE i < k
      <4>1. i \in 1..(n - 1) /\ t[i] = s[i]
        BY <1>17, <2>1, <3>1
      <4>. QED BY <4>1
    <3>2. CASE i > k
      <4>1. i - 1 \in 1..(n - 1) /\ ~(i - 1 < k) /\ (i - 1) + 1 = i
        BY <1>17, <3>2
      <4>. QED BY <2>1, <4>1
    <3>. QED BY <1>17, <2>3, <3>1, <3>2
  <2>. QED BY <2>1, <2>2, <2>3
<1>26. ASSUME NEW c \in 0..(count - 1)
       PROVE  /\ Ring(D, M, ListOf(c), dh[c])
              /\ \A j \in 1..Len(dh[c]) : dh[c][j] \in Used' /\ items'[dh[c][j]].key % count = c
  <2>1. CASE c = b
    <3>1. ASSUME NEW j \in 1..(n - 1) PROVE t[j] \in Used' /\ items'[t[j]].key % count = b
      <4>1. PICK i \in 1..n : i # k /\ t[j] = s[i]
        BY <1>25
      <4>2. s[i] # x /\ s[i] \in Used /\ items[s[i]].key % count = b
        BY <1>17, <1>23, <4>1
      <4>. QED BY <1>9, <1>10, <4>1, <4>2
    <3>. QED BY <1>20, <1>22, <1>25, <2>1, <3>1
  <2>2. CASE c # b
    <3>1. dh[c] = ch[c] /\ Ring(D, M, ListOf(c), ch[c])
      BY <1>22, <1>24, <2>2
    <3>2. \A j \in 1..Len(ch[c]) : ch[c][j] \in Used /\ items[ch[c][j]].key % count = c
      BY <1>14
    <3>3. items[x].key % count = b
      BY <1>4, <1>6
    <3>. QED BY <1>9, <1>10, <2>2, <3>1, <3>2, <3>3
  <2>. QED BY <2>1, <2>2
<1>27. ASSUME NEW i \in Used'
       PROVE  \E j \in 1..Len(dh[items'[i].key % count]) : dh[items'[i].key % count][j] = i
  <2>1. i \in Used /\ i \in HashItem /\ i # x /\ items'[i] = items[i]
    BY <1>10
  <2>2. PICK c \in 0..(count - 1) : c = items'[i].key % count /\ c = items[i].key % count
    <3>1. items[i].key \in HashKey
      BY <2>1, UsedItems DEF HashInv
    <3>. QED BY <2>1, <3>1, BucketOf
  <2>3. PICK j \in 1..Len(ch[c]) : ch[c][j] = i
    BY <1>14, <2>1, <2>2
  <2>4. CASE c = b
    <3>1. j \in 1..n /\ s[j] = i /\ j # k
      BY <1>15, <1>17, <2>1, <2>3, <2>4
    <3>2. \E m \in 1..(n - 1) : t[m] = i
      BY <1>25, <3>1
    <3>. QED BY <1>22, <1>25, <2>2, <2>4, <3>2
  <2>5. CASE c # b
    BY <1>22, <2>2, <2>3, <2>5
  <2>. QED BY <2>4, <2>5
<1>28. Chains(dh)'
  <2>1. Buckets' = 0..(count - 1) /\ hashmap'.count = count /\ hashmap'.links = M
    BY <1>12, <1>13 DEF Buckets
  <2>. QED BY <1>12, <1>22, <1>26, <1>27, <2>1 DEF Chains
<1>29. hashmap' = [count |-> hashmap'.count, links |-> hashmap'.links] /\ hashmap'.count \in Nat \ {0}
  BY <1>12, <1>13
<1>. QED BY <1>11, <1>28, <1>29 DEF HashInv

LEMMA HashStep == HashInv /\ HashmapNext => HashInv'
<1>. SUFFICES ASSUME HashInv, HashmapNext PROVE HashInv'
  OBVIOUS
<1>1. CASE \E count \in HashCount : os_hashmap_create(count)
  BY <1>1, CreateStep
<1>2. CASE os_hashmap_remove
  BY <1>2, RemoveMapStep
<1>3. ASSUME NEW key \in HashKey, os_hashmap_remove_item(key) PROVE HashInv'
  BY <1>3, RemoveItemStep
<1>4. ASSUME NEW key \in HashKey, NEW value \in HashValue, os_hashmap_set(key, value) PROVE HashInv'
  BY <1>4, SetExistingStep, SetNewStep DEF os_hashmap_set
<1>. QED BY <1>1, <1>2, <1>3, <1>4 DEF HashmapNext

\* The invariant is what the callers are promised.
LEMMA HashIsMapping == HashInv => HashmapIsTheMapping
<1>. SUFFICES ASSUME HashInv PROVE HashmapIsTheMapping
  OBVIOUS
<1>1. ASSUME hashmap.count # 0, NEW key \in HashKey
      PROVE  os_hashmap_get(key) = IF key \in DOMAIN mapped THEN mapped[key] ELSE -1
  <2>1. PICK ch : Chains(ch)
    BY <1>1 DEF HashInv
  <2>2. PICK f : f = os_hashmap_find(key)
    OBVIOUS
  <2>3. \/ f \in Used /\ f # 0 /\ items[f].key = key
        \/ f = 0 /\ \A i \in Used : items[i].key # key
    BY <1>1, <2>1, <2>2, FoundItem
  <2>4. CASE f \in Used /\ f # 0 /\ items[f].key = key
    <3>1. key \in DOMAIN mapped /\ items[f].value = mapped[key]
      BY <2>4 DEF HashInv, ItemsInv
    <3>. QED BY <2>2, <2>4, <3>1 DEF os_hashmap_get
  <2>5. CASE f = 0 /\ \A i \in Used : items[i].key # key
    <3>1. key \notin DOMAIN mapped
      BY <2>5 DEF HashInv, ItemsInv
    <3>. QED BY <2>2, <2>5, <3>1 DEF os_hashmap_get
  <2>. QED BY <2>3, <2>4, <2>5
<1>2. Cardinality(Used) = Cardinality(DOMAIN mapped)
  <2>1. PICK f : f = [i \in Used |-> items[i].key]
    OBVIOUS
  <2>2. f \in [Used -> DOMAIN mapped] /\ \A i \in Used : f[i] = items[i].key
    BY <2>1 DEF HashInv, ItemsInv
  <2>3. \A i, j \in Used : f[i] = f[j] => i = j
    BY <2>2 DEF HashInv, ItemsInv
  <2>4. \A k \in DOMAIN mapped : \E i \in Used : f[i] = k
    BY <2>2 DEF HashInv, ItemsInv
  <2>5. f \in Bijection(Used, DOMAIN mapped)
    BY <2>2, <2>3, <2>4 DEF Bijection, Injection, Surjection, IsInjective
  <2>6. IsFiniteSet(Used)
    <3>1. Used \subseteq HashItem
      BY DEF Used
    <3>. QED BY <3>1, HashmapAssumption, FS_Subset
  <2>7. ExistsBijection(Used, DOMAIN mapped)
    BY <2>5 DEF ExistsBijection
  <2>. QED BY <2>6, <2>7, FS_Bijection
<1>. QED BY <1>1, <1>2 DEF HashmapIsTheMapping, Used

\* Lists and hash maps, side by side.
ChainsSpec ==
  /\ HashmapInit /\ ListInit
  /\ [][(HashmapNext /\ UNCHANGED listVars) \/ (ListNext /\ UNCHANGED hashVars)]_<<hashVars, listVars>>

\* Lists and hash maps hold what was put in: every key finds the value set last, colliding
\* or not, in bucket chains whose pointers are cut and joined, and the items in memory are
\* those of the keys, for any keys, values, memory and number of buckets.
THEOREM MapsAreMappings == ChainsSpec => []ChainsExact
<1>. DEFINE Inv == HashInv /\ ListInv
<1>1. HashmapInit /\ ListInit => Inv
  BY HashStart, ListStart
<1>2. ASSUME Inv, [(HashmapNext /\ UNCHANGED listVars) \/ (ListNext /\ UNCHANGED hashVars)]_<<hashVars, listVars>>
      PROVE  Inv'
  <2>1. ASSUME UNCHANGED hashVars PROVE HashInv'
    BY <1>2, <2>1 DEF hashVars, HashInv, ItemsInv, Used, Chains, Buckets
  <2>2. ASSUME UNCHANGED listVars PROVE ListInv'
    BY <1>2, <2>2 DEF listVars, ListInv, Ring
  <2>3. CASE HashmapNext /\ UNCHANGED listVars
    BY <1>2, <2>2, <2>3, HashStep
  <2>4. CASE ListNext /\ UNCHANGED hashVars
    <3>1. ListInv'
      <4>1. CASE \E n \in ListEntry : ListInsert(n) \/ ListRemove(n)
        BY <1>2, <4>1, InsertStep, RemoveStep
      <4>2. CASE ListClear
        BY <1>2, <4>2, ClearStep
      <4>. QED BY <2>4, <4>1, <4>2 DEF ListNext
    <3>. QED BY <2>1, <2>4, <3>1
  <2>5. CASE UNCHANGED <<hashVars, listVars>>
    BY <2>1, <2>2, <2>5
  <2>. QED BY <1>2, <2>3, <2>4, <2>5
<1>3. Inv => ChainsExact
  BY HashIsMapping, ListIsSequence DEF ChainsExact
<1>. QED BY <1>1, <1>2, <1>3, PTL DEF ChainsSpec

-----------------------------------------------------------------------------
(***************************************************************************)
(* Bitmaps.                                                                *)
(***************************************************************************)

LEMMA NextMultiple ==
  ASSUME NEW g \in Nat \ {0}, NEW a \in Nat, NEW c \in Nat, g * a < g * c
  PROVE  g * a + g <= g * c
<1>1. a < c
  BY SMT
<1>2. PICK d \in Nat : c = a + 1 + d
  <2>1. c - a - 1 \in Nat /\ c = a + 1 + (c - a - 1)
    BY <1>1
  <2>. QED BY <2>1
<1>3. g * c = g * a + g + g * d
  BY <1>2
<1>4. g * d \in Nat
  OBVIOUS
<1>. QED BY <1>3, <1>4

LEMMA GroupIs ==
  ASSUME NEW i \in Nat, INDEX_ID(i) = 0
  PROVE  Group(GROUP_ID(i)) = i..(i + GROUP_SIZE - 1)
<1>1. PICK g \in Nat \ {0} : g = GROUP_SIZE
  BY BitmapAssumption
<1>2. PICK a \in Nat : a = i \div g /\ i = g * a
  BY <1>1, DivMod DEF INDEX_ID
<1>3. a * g = i
  BY <1>2
<1>. QED BY <1>1, <1>2, <1>3 DEF Group, GROUP_ID

\* Where the last group ends.
LEMMA CapacityIs ==
  ASSUME NEW size \in Nat
  PROVE  /\ Capacity(size) \in Nat /\ size <= Capacity(size)
         /\ \A i \in Nat : INDEX_ID(i) = 0 /\ i < size =>
              /\ i + GROUP_SIZE <= Capacity(size)
              /\ INDEX_ID(size) = 0 => i + GROUP_SIZE <= size
<1>1. PICK g \in Nat \ {0} : g = GROUP_SIZE
  BY BitmapAssumption
<1>2. \A a, b \in Nat : a * b = b * a
  OBVIOUS
<1>3. PICK c \in Nat : c = (size + g - 1) \div g
  BY <1>1, DivMod
<1>4. size + g - 1 = g * c + ((size + g - 1) % g) /\ (size + g - 1) % g \in 0..(g - 1)
  BY <1>3, DivMod
<1>5. Capacity(size) = g * c
  BY <1>1, <1>2, <1>3 DEF Capacity
<1>6. g * c \in Nat /\ size <= g * c
  BY <1>4
<1>7. ASSUME NEW i \in Nat, INDEX_ID(i) = 0, i < size
      PROVE  /\ i + g <= g * c
             /\ INDEX_ID(size) = 0 => i + g <= size
  <2>1. PICK a \in Nat : a = i \div g /\ i = g * a
    BY <1>1, <1>7, DivMod DEF INDEX_ID
  <2>2. g * a < g * c
    BY <1>6, <1>7, <2>1
  <2>3. i + g <= g * c
    BY <2>1, <2>2, NextMultiple
  <2>4. ASSUME INDEX_ID(size) = 0 PROVE i + g <= size
    <3>1. PICK b \in Nat : b = size \div g /\ size = g * b
      BY <1>1, <2>4, DivMod DEF INDEX_ID
    <3>2. g * a < g * b
      BY <1>7, <2>1, <3>1
    <3>. QED BY <2>1, <3>1, <3>2, NextMultiple
  <2>. QED BY <2>3, <2>4
<1>. QED BY <1>1, <1>5, <1>6, <1>7

\* One round goes on.
LEMMA ScanRound ==
  ASSUME NEW b, NEW count \in Nat \ {0}, NEW value, NEW s \in Search
  PROVE  /\ ScanStep(b, s, count, value).i \in Nat /\ ScanStep(b, s, count, value).i > s.i
         /\ ScanStep(b, s, count, value).ret \in Nat
         /\ ScanStep(b, s, count, value).remained \in Nat
         /\ ScanStep(b, s, count, value) = [i |-> ScanStep(b, s, count, value).i,
                                            remained |-> ScanStep(b, s, count, value).remained,
                                            ret |-> ScanStep(b, s, count, value).ret]
<1>1. PICK i \in Nat, m \in Nat \ {0}, r \in Nat : s = [i |-> i, remained |-> m, ret |-> r]
  BY DEF Search
<1>2. PICK g \in Nat \ {0} : g = GROUP_SIZE
  BY BitmapAssumption
<1>3. CASE WholeGroup(s.i, s.remained) /\ \A k \in Group(GROUP_ID(s.i)) : os_bitmap_get_bit(b, k) = value
  <2>1. ScanStep(b, s, count, value) = [i |-> i + g, remained |-> m - g, ret |-> r]
    BY <1>1, <1>2, <1>3 DEF ScanStep, ScanGroup
  <2>2. m >= g
    BY <1>1, <1>2, <1>3 DEF WholeGroup
  <2>. QED BY <1>1, <1>2, <2>1, <2>2
<1>4. CASE ~(WholeGroup(s.i, s.remained) /\ \A k \in Group(GROUP_ID(s.i)) : os_bitmap_get_bit(b, k) = value)
  <2>1. ScanStep(b, s, count, value) = ScanBit(b, s, count, value)
    BY <1>4 DEF ScanStep
  <2>. QED BY <1>1, <2>1 DEF ScanBit
<1>. QED BY <1>3, <1>4

\* The search is its rounds, one after the other.
LEMMA ScanIs ==
  ASSUME NEW b, b.size \in Nat, NEW start_id \in Nat, NEW count \in Nat \ {0}, NEW value
  PROVE  \E scan :
           /\ os_bitmap_find_some(b, start_id, count, value) =
                scan[[i |-> start_id, remained |-> count, ret |-> start_id]]
           /\ \A s \in Search :
                scan[s] = IF s.i >= b.size THEN NONE
                          ELSE IF ScanStep(b, s, count, value).remained = 0
                               THEN ScanStep(b, s, count, value).ret
                               ELSE scan[ScanStep(b, s, count, value)]
<1>. DEFINE N(s) == ScanStep(b, s, count, value)
            E(f, s) == IF s.i >= b.size THEN NONE
                       ELSE IF N(s).remained = 0 THEN N(s).ret ELSE f[N(s)]
            P(f) == f = [s \in Search |-> E(f, s)]
            D(m) == {s \in Search : s.i + m >= b.size}
            S == {m \in Nat : \E f : f = [s \in D(m) |-> E(f, s)]}
<1>1. \A s \in Search : s.i \in Nat
  BY DEF Search
<1>2. \A s \in Search : /\ N(s).i \in Nat /\ N(s).i > s.i /\ N(s).remained \in Nat /\ N(s).ret \in Nat
                        /\ N(s).remained # 0 => N(s) \in Search
  <2>. SUFFICES ASSUME NEW s \in Search
                PROVE  /\ N(s).i \in Nat /\ N(s).i > s.i /\ N(s).remained \in Nat /\ N(s).ret \in Nat
                       /\ N(s).remained # 0 => N(s) \in Search
    OBVIOUS
  <2>1. /\ N(s).i \in Nat /\ N(s).i > s.i /\ N(s).remained \in Nat /\ N(s).ret \in Nat
        /\ N(s) = [i |-> N(s).i, remained |-> N(s).remained, ret |-> N(s).ret]
    BY ScanRound
  <2>. HIDE DEF N
  <2>. QED BY <2>1 DEF Search
<1>. HIDE DEF N
<1>3. 0 \in S
  <2>1. PICK f : f = [s \in D(0) |-> NONE]
    OBVIOUS
  <2>2. \A s \in D(0) : E(f, s) = NONE
    BY <1>1
  <2>3. f = [s \in D(0) |-> E(f, s)]
    BY <2>1, <2>2
  <2>. QED BY <2>3
<1>4. ASSUME NEW m \in Nat, m \in S PROVE m + 1 \in S
  <2>1. PICK f : f = [s \in D(m) |-> E(f, s)]
    BY <1>4
  <2>2. PICK h : h = [s \in D(m + 1) |-> IF s \in D(m) THEN f[s] ELSE E(f, s)]
    OBVIOUS
  <2>3. \A s \in D(m) : s \in D(m + 1)
    BY <1>1
  <2>4. \A s \in D(m) : h[s] = f[s]
    BY <2>2, <2>3
  <2>5. ASSUME NEW s \in D(m + 1), ~(s.i >= b.size), N(s).remained # 0 PROVE N(s) \in D(m)
    <3>1. s.i \in Nat /\ N(s).i \in Nat /\ N(s).i > s.i /\ s.i + (m + 1) >= b.size /\ N(s) \in Search
      BY <1>1, <1>2, <2>5
    <3>. QED BY <3>1
  <2>6. ASSUME NEW s \in D(m + 1) PROVE E(h, s) = E(f, s)
    BY <2>4, <2>5
  <2>7. ASSUME NEW s \in D(m + 1) PROVE h[s] = E(h, s)
    <3>1. CASE s \in D(m)
      <4>1. h[s] = f[s] /\ f[s] = E(f, s)
        BY <2>1, <2>4, <3>1
      <4>. HIDE DEF E
      <4>. QED BY <2>6, <4>1
    <3>2. CASE s \notin D(m)
      <4>. HIDE DEF E, D
      <4>. QED BY <2>2, <2>6, <3>2
    <3>. QED BY <3>1, <3>2
  <2>. HIDE DEF E, D
  <2>8. h = [s \in D(m + 1) |-> E(h, s)]
    BY <2>2, <2>7
  <2>. QED BY <2>8
<1>5. b.size \in S
  <2>. HIDE DEF S
  <2>1. \A m \in Nat : m \in S
    BY <1>3, <1>4, SetInduction
  <2>. QED BY <2>1
<1>6. D(b.size) = Search
  BY <1>1
<1>7. \E f : P(f)
  <2>1. PICK f : f = [s \in D(b.size) |-> E(f, s)]
    BY <1>5
  <2>2. f = [s \in Search |-> E(f, s)]
    <3>. HIDE DEF E, D
    <3>. QED BY <1>6, <2>1
  <2>. QED BY <2>2
<1>8. PICK scan : scan = CHOOSE f : P(f)
  OBVIOUS
<1>9. P(scan)
  <2>. HIDE DEF P
  <2>. QED BY <1>7, <1>8
<1>10. os_bitmap_find_some(b, start_id, count, value) =
        (CHOOSE f : P(f))[[i |-> start_id, remained |-> count, ret |-> start_id]]
  BY Zenon DEF os_bitmap_find_some, N
<1>11. \A s \in Search : scan[s] = E(scan, s)
  <2>. HIDE DEF E
  <2>. QED BY <1>9
<1>12. \A s \in Search :
         scan[s] = IF s.i >= b.size THEN NONE
                   ELSE IF ScanStep(b, s, count, value).remained = 0
                        THEN ScanStep(b, s, count, value).ret
                        ELSE scan[ScanStep(b, s, count, value)]
  BY <1>11 DEF N
<1>13. os_bitmap_find_some(b, start_id, count, value) =
         scan[[i |-> start_id, remained |-> count, ret |-> start_id]]
  <2>. HIDE DEF P
  <2>. QED BY <1>8, <1>10
<1>. HIDE DEF P, E, D, S
<1>. QED BY <1>12, <1>13

\* The count bits from r on have the value.
RunAt(b, count, value, r) == \A k \in r..(r + count - 1) : b.memory[k] = value

\* The loop invariant of the search: the bits from ret to i have the value, what is left
\* completes them to count, and no run within the size starts before ret.
ScanInv(b, start_id, count, value, s) ==
  /\ s \in Search
  /\ start_id <= s.ret /\ s.ret <= s.i /\ s.i <= Capacity(b.size)
  /\ s.i + s.remained = s.ret + count
  /\ \A k \in s.ret..(s.i - 1) : b.memory[k] = value
  /\ \A r \in start_id..(b.size - count) : RunAt(b, count, value, r) => s.ret <= r

\* What a search has to find.
FirstRun(b, start_id, count, value, found) ==
  /\ found # NONE => found \in start_id..(Capacity(b.size) - count) /\ RunAt(b, count, value, found)
  /\ \A r \in start_id..(b.size - count) :
       RunAt(b, count, value, r) => found # NONE /\ found <= r
  /\ (INDEX_ID(b.size) = 0 \/ count < GROUP_SIZE) /\ found # NONE => found <= b.size - count

\* A round keeps the loop invariant or ends with the first run.
LEMMA ScanKeeps ==
  ASSUME NEW b, b.size \in Nat, NEW start_id \in Nat, NEW count \in Nat \ {0}, NEW value,
         NEW s, ScanInv(b, start_id, count, value, s), ~(s.i >= b.size)
  PROVE  /\ ScanStep(b, s, count, value).remained = 0 =>
              FirstRun(b, start_id, count, value, ScanStep(b, s, count, value).ret)
         /\ ScanStep(b, s, count, value).remained # 0 =>
              ScanInv(b, start_id, count, value, ScanStep(b, s, count, value))
<1>. DEFINE n == ScanStep(b, s, count, value)
            C == Capacity(b.size)
<1>1. PICK i \in Nat, m \in Nat \ {0}, t \in Nat : s = [i |-> i, remained |-> m, ret |-> t]
  BY DEF Search, ScanInv
<1>2. PICK g \in Nat \ {0} : g = GROUP_SIZE
  BY BitmapAssumption
<1>3. /\ start_id <= t /\ t <= i /\ i <= C /\ i + m = t + count /\ i < b.size
      /\ \A k \in t..(i - 1) : b.memory[k] = value
      /\ \A r \in start_id..(b.size - count) : RunAt(b, count, value, r) => t <= r
  BY <1>1 DEF ScanInv
<1>4. C \in Nat /\ b.size <= C
  BY CapacityIs
<1>5. CASE WholeGroup(s.i, s.remained) /\ \A k \in Group(GROUP_ID(s.i)) : os_bitmap_get_bit(b, k) = value
  <2>1. n = [i |-> i + g, remained |-> m - g, ret |-> t]
    BY <1>1, <1>2, <1>5 DEF ScanStep, ScanGroup
  <2>2. m >= g /\ INDEX_ID(i) = 0
    BY <1>1, <1>2, <1>5 DEF WholeGroup
  <2>3. Group(GROUP_ID(i)) = i..(i + g - 1)
    BY <1>2, <2>2, GroupIs
  <2>4. \A k \in i..(i + g - 1) : b.memory[k] = value
    BY <1>1, <1>5, <2>3 DEF os_bitmap_get_bit
  <2>5. \A k \in t..(i + g - 1) : b.memory[k] = value
    BY <1>2, <1>3, <2>4
  <2>6. i + g <= C /\ (INDEX_ID(b.size) = 0 => i + g <= b.size)
    BY <1>2, <1>3, <2>2, CapacityIs
  <2>7. ASSUME n.remained = 0 PROVE FirstRun(b, start_id, count, value, n.ret)
    <3>1. m = g /\ n.ret = t /\ i + g = t + count
      BY <1>2, <1>3, <2>1, <2>7
    <3>2. t + count - 1 = i + g - 1
      BY <3>1
    <3>3. RunAt(b, count, value, t)
      BY <2>5, <3>2 DEF RunAt
    <3>4. t # NONE /\ t \in start_id..(C - count)
      BY <1>3, <1>4, <2>6, <3>1 DEF NONE
    <3>5. INDEX_ID(b.size) = 0 \/ count < GROUP_SIZE => t <= b.size - count
      BY <1>2, <1>3, <2>6, <3>1
    <3>. HIDE DEF n, C
    <3>. QED BY <1>3, <3>1, <3>3, <3>4, <3>5 DEF FirstRun, C
  <2>8. ASSUME n.remained # 0 PROVE ScanInv(b, start_id, count, value, n)
    <3>1. n \in Search
      BY <1>2, <2>1, <2>2, <2>8 DEF Search
    <3>2. n.i = i + g /\ n.remained = m - g /\ n.ret = t
      BY <2>1
    <3>3. start_id <= t /\ t <= i + g /\ i + g <= C /\ i + g + (m - g) = t + count
      BY <1>2, <1>3, <1>4, <2>6
    <3>. HIDE DEF n, C
    <3>. QED BY <1>3, <2>5, <3>1, <3>2, <3>3 DEF ScanInv, C
  <2>. QED BY <2>7, <2>8
<1>6. CASE ~(WholeGroup(s.i, s.remained) /\ \A k \in Group(GROUP_ID(s.i)) : os_bitmap_get_bit(b, k) = value)
  <2>1. n = ScanBit(b, s, count, value)
    BY <1>6 DEF ScanStep
  <2>2. CASE b.memory[i] = value
    <3>1. n = [i |-> i + 1, remained |-> m - 1, ret |-> t]
      BY <1>1, <2>1, <2>2 DEF ScanBit, os_bitmap_get_bit
    <3>2. \A k \in t..i : b.memory[k] = value
      BY <1>3, <2>2
    <3>3. ASSUME n.remained = 0 PROVE FirstRun(b, start_id, count, value, n.ret)
      <4>1. m = 1 /\ n.ret = t /\ i + 1 = t + count
        BY <1>3, <3>1, <3>3
      <4>2. t + count - 1 = i
        BY <4>1
      <4>3. RunAt(b, count, value, t)
        BY <3>2, <4>2 DEF RunAt
      <4>4. t # NONE /\ t \in start_id..(C - count) /\ t <= b.size - count
        BY <1>3, <1>4, <4>1 DEF NONE
      <4>. HIDE DEF n, C
      <4>. QED BY <1>3, <4>1, <4>3, <4>4 DEF FirstRun, C
    <3>4. ASSUME n.remained # 0 PROVE ScanInv(b, start_id, count, value, n)
      <4>1. n \in Search
        BY <3>1, <3>4 DEF Search
      <4>2. n.i = i + 1 /\ n.remained = m - 1 /\ n.ret = t
        BY <3>1
      <4>3. start_id <= t /\ t <= i + 1 /\ i + 1 <= C /\ i + 1 + (m - 1) = t + count
        BY <1>3, <1>4
      <4>4. \A k \in t..(i + 1 - 1) : b.memory[k] = value
        BY <3>2
      <4>. HIDE DEF n, C
      <4>. QED BY <1>3, <4>1, <4>2, <4>3, <4>4 DEF ScanInv, C
    <3>. QED BY <3>3, <3>4
  <2>3. CASE b.memory[i] # value
    <3>1. n = [i |-> i + 1, remained |-> count, ret |-> i + 1]
      BY <1>1, <2>1, <2>3 DEF ScanBit, os_bitmap_get_bit
    <3>2. n.i = i + 1 /\ n.remained = count /\ n.ret = i + 1 /\ n \in Search
      BY <3>1 DEF Search
    <3>3. ASSUME NEW r \in start_id..(b.size - count), RunAt(b, count, value, r)
          PROVE i + 1 <= r
      <4>1. r \in Int /\ t <= r
        BY <1>3, <3>3
      <4>2. SUFFICES ASSUME r <= i PROVE FALSE
        BY <4>1
      <4>3. i \in r..(r + count - 1)
        BY <1>3, <4>1, <4>2
      <4>. QED BY <2>3, <3>3, <4>3 DEF RunAt
    <3>4. start_id <= i + 1 /\ i + 1 <= C
      BY <1>3, <1>4
    <3>5. \A k \in (i + 1)..(i + 1 - 1) : b.memory[k] = value
      OBVIOUS
    <3>6. ScanInv(b, start_id, count, value, n)
      <4>. HIDE DEF n, C
      <4>. QED BY <3>2, <3>3, <3>4, <3>5 DEF ScanInv, C
    <3>. QED BY <3>2, <3>6
  <2>. QED BY <2>2, <2>3
<1>. QED BY <1>5, <1>6

\* Past the end there is no run.
LEMMA ScanEnds ==
  ASSUME NEW b, b.size \in Nat, NEW start_id \in Nat, NEW count \in Nat \ {0}, NEW value,
         NEW s, ScanInv(b, start_id, count, value, s), s.i >= b.size
  PROVE  FirstRun(b, start_id, count, value, NONE)
<1>1. PICK i \in Nat, m \in Nat \ {0}, t \in Nat : s = [i |-> i, remained |-> m, ret |-> t]
  BY DEF Search, ScanInv
<1>2. /\ i + m = t + count /\ i >= b.size
      /\ \A r \in start_id..(b.size - count) : RunAt(b, count, value, r) => t <= r
  BY <1>1 DEF ScanInv
<1>3. \A r \in start_id..(b.size - count) : ~RunAt(b, count, value, r)
  BY <1>2
<1>. QED BY <1>3 DEF FirstRun

\* A search finds the first run.
LEMMA FindIs ==
  ASSUME NEW b, b.size \in Nat, NEW start_id \in Nat, start_id < b.size,
         NEW count \in Nat \ {0}, NEW value
  PROVE  FirstRun(b, start_id, count, value, os_bitmap_find_some(b, start_id, count, value))
<1>. DEFINE N(s) == ScanStep(b, s, count, value)
            I(s) == ScanInv(b, start_id, count, value, s)
            first == [i |-> start_id, remained |-> count, ret |-> start_id]
<1>1. PICK scan :
        /\ os_bitmap_find_some(b, start_id, count, value) = scan[first]
        /\ \A s \in Search :
             scan[s] = IF s.i >= b.size THEN NONE
                       ELSE IF N(s).remained = 0 THEN N(s).ret ELSE scan[N(s)]
  BY ScanIs
<1>. DEFINE Q(s) == FirstRun(b, start_id, count, value, scan[s])
            S == {m \in Nat : \A s \in Search : I(s) /\ s.i + m >= b.size => Q(s)}
<1>2. \A s \in Search : I(s) /\ s.i >= b.size => Q(s)
  <2>1. \A s \in Search : s.i >= b.size => scan[s] = NONE
    BY <1>1
  <2>2. \A s \in Search : I(s) /\ s.i >= b.size => FirstRun(b, start_id, count, value, NONE)
    BY ScanEnds
  <2>. QED BY <2>1, <2>2
<1>3. \A s \in Search : I(s) /\ ~(s.i >= b.size) =>
        /\ N(s).remained = 0 => FirstRun(b, start_id, count, value, N(s).ret)
        /\ N(s).remained # 0 => I(N(s))
  BY ScanKeeps
<1>4. \A s \in Search : s.i \in Nat /\ N(s).i \in Nat /\ N(s).i > s.i
  <2>1. \A s \in Search : N(s).i \in Nat /\ N(s).i > s.i
    BY ScanRound
  <2>. QED BY <2>1 DEF Search
<1>5. \A s : I(s) => s \in Search
  BY DEF ScanInv
<1>. HIDE DEF I, N, Q
<1>6. 0 \in S
  BY <1>2, <1>4
<1>7. ASSUME NEW m \in Nat, m \in S PROVE m + 1 \in S
  <2>. SUFFICES ASSUME NEW s \in Search, I(s), s.i + (m + 1) >= b.size PROVE Q(s)
    OBVIOUS
  <2>1. CASE s.i >= b.size
    BY <1>2, <2>1
  <2>2. CASE ~(s.i >= b.size) /\ N(s).remained = 0
    <3>1. scan[s] = N(s).ret
      BY <1>1, <2>2
    <3>. QED BY <1>3, <2>2, <3>1 DEF Q
  <2>3. CASE ~(s.i >= b.size) /\ N(s).remained # 0
    <3>1. scan[s] = scan[N(s)]
      BY <1>1, <2>3
    <3>2. I(N(s)) /\ N(s) \in Search
      BY <1>3, <1>5, <2>3
    <3>3. N(s).i + m >= b.size
      BY <1>4
    <3>4. Q(N(s))
      BY <1>7, <3>2, <3>3
    <3>. QED BY <3>1, <3>4 DEF Q
  <2>. QED BY <2>1, <2>2, <2>3
<1>8. b.size \in S
  <2>. HIDE DEF S
  <2>1. \A m \in Nat : m \in S
    BY <1>6, <1>7, SetInduction
  <2>. QED BY <2>1
<1>9. first \in Search /\ first.i = start_id
  BY DEF Search
<1>10. I(first)
  <2>1. start_id <= Capacity(b.size)
    BY CapacityIs
  <2>. QED BY <1>9, <2>1 DEF I, ScanInv
<1>. HIDE DEF first
<1>11. Q(first)
  BY <1>8, <1>9, <1>10
<1>. QED BY <1>1, <1>11 DEF Q

\* A round of os_bitmap_set_bits goes on and stays within what is left.
LEMMA SetRound ==
  ASSUME NEW s \in [i : Nat, remained : Nat \ {0}]
  PROVE  \E step \in 1..s.remained :
           /\ SetRest(s) = [i |-> s.i + step, remained |-> s.remained - step]
           /\ SetStep(s.i, s.remained) = s.i..(s.i + step - 1)
<1>1. PICK g \in Nat \ {0} : g = GROUP_SIZE
  BY BitmapAssumption
<1>2. s.i \in Nat /\ s.remained \in Nat \ {0}
  OBVIOUS
<1>3. CASE WholeGroup(s.i, s.remained)
  <2>1. s.remained >= g /\ INDEX_ID(s.i) = 0
    BY <1>1, <1>3 DEF WholeGroup
  <2>2. SetStep(s.i, s.remained) = s.i..(s.i + g - 1)
    BY <1>1, <1>2, <1>3, <2>1, GroupIs DEF SetStep
  <2>3. SetRest(s) = [i |-> s.i + g, remained |-> s.remained - g]
    BY <1>1, <1>3 DEF SetRest
  <2>. QED BY <1>2, <2>1, <2>2, <2>3
<1>4. CASE ~WholeGroup(s.i, s.remained)
  <2>1. SetStep(s.i, s.remained) = s.i..(s.i + 1 - 1)
    BY <1>2, <1>4 DEF SetStep
  <2>2. SetRest(s) = [i |-> s.i + 1, remained |-> s.remained - 1]
    BY <1>4 DEF SetRest
  <2>. QED BY <1>2, <2>1, <2>2
<1>. QED BY <1>3, <1>4

\* os_bitmap_set_bits sets the bits it was asked for.
LEMMA SetBitsIs ==
  ASSUME NEW size \in Nat, NEW start_id \in Nat, NEW count \in Nat \ {0}, start_id + count <= size
  PROVE  SetBits(size, start_id, count) = start_id..(start_id + count - 1)
<1>. DEFINE Left == [i : Nat, remained : Nat \ {0}]
            E(f, s) == IF s.i >= size THEN {}
                       ELSE SetStep(s.i, s.remained)
                            \cup (IF SetRest(s).remained = 0 THEN {} ELSE f[SetRest(s)])
            P(f) == f = [s \in Left |-> E(f, s)]
            D(m) == {s \in Left : s.i + m >= size}
            S == {m \in Nat : \E f : f = [s \in D(m) |-> E(f, s)]}
<1>1. \A s \in Left :
        /\ s.i \in Nat /\ s.remained \in Nat \ {0}
        /\ \E step \in 1..s.remained :
             /\ SetRest(s).i = s.i + step /\ SetRest(s).remained = s.remained - step
             /\ s.remained # step => SetRest(s) \in Left
             /\ SetStep(s.i, s.remained) = s.i..(s.i + step - 1)
  <2>. SUFFICES ASSUME NEW s \in Left
                PROVE  \E step \in 1..s.remained :
                         /\ SetRest(s).i = s.i + step /\ SetRest(s).remained = s.remained - step
                         /\ s.remained # step => SetRest(s) \in Left
                         /\ SetStep(s.i, s.remained) = s.i..(s.i + step - 1)
    OBVIOUS
  <2>1. s.i \in Nat /\ s.remained \in Nat \ {0}
    OBVIOUS
  <2>2. PICK step \in 1..s.remained :
          /\ SetRest(s) = [i |-> s.i + step, remained |-> s.remained - step]
          /\ SetStep(s.i, s.remained) = s.i..(s.i + step - 1)
    BY SetRound
  <2>. QED BY <2>1, <2>2
<1>2. 0 \in S
  <2>1. PICK f : f = [s \in D(0) |-> {}]
    OBVIOUS
  <2>2. \A s \in D(0) : E(f, s) = {}
    BY <1>1
  <2>3. f = [s \in D(0) |-> E(f, s)]
    BY <2>1, <2>2
  <2>. QED BY <2>3
<1>3. ASSUME NEW m \in Nat, m \in S PROVE m + 1 \in S
  <2>1. PICK f : f = [s \in D(m) |-> E(f, s)]
    BY <1>3
  <2>2. PICK h : h = [s \in D(m + 1) |-> IF s \in D(m) THEN f[s] ELSE E(f, s)]
    OBVIOUS
  <2>3. \A s \in D(m) : s \in D(m + 1)
    BY <1>1
  <2>4. \A s \in D(m) : h[s] = f[s]
    BY <2>2, <2>3
  <2>5. ASSUME NEW s \in D(m + 1), ~(s.i >= size), SetRest(s).remained # 0
        PROVE SetRest(s) \in D(m)
    <3>1. s.i \in Nat /\ s.i + (m + 1) >= size
      BY <1>1, <2>5
    <3>2. SetRest(s) \in Left /\ SetRest(s).i \in Nat /\ SetRest(s).i > s.i
      BY <1>1, <2>5, SMTT(30)
    <3>. QED BY <3>1, <3>2
  <2>6. ASSUME NEW s \in D(m + 1) PROVE E(h, s) = E(f, s)
    BY <2>4, <2>5
  <2>7. ASSUME NEW s \in D(m + 1) PROVE h[s] = E(h, s)
    <3>1. CASE s \in D(m)
      <4>1. h[s] = f[s] /\ f[s] = E(f, s)
        BY <2>1, <2>4, <3>1
      <4>. HIDE DEF E
      <4>. QED BY <2>6, <4>1
    <3>2. CASE s \notin D(m)
      <4>. HIDE DEF E, D
      <4>. QED BY <2>2, <2>6, <3>2
    <3>. QED BY <3>1, <3>2
  <2>. HIDE DEF E, D
  <2>8. h = [s \in D(m + 1) |-> E(h, s)]
    BY <2>2, <2>7
  <2>. QED BY <2>8
<1>4. size \in S
  <2>. HIDE DEF S
  <2>1. \A m \in Nat : m \in S
    BY <1>2, <1>3, SetInduction
  <2>. QED BY <2>1
<1>5. D(size) = Left
  <2>1. \A s \in Left : s.i + size >= size
    BY <1>1
  <2>. QED BY <2>1
<1>6. \E f : P(f)
  <2>1. PICK f : f = [s \in D(size) |-> E(f, s)]
    BY <1>4
  <2>2. f = [s \in Left |-> E(f, s)]
    <3>. HIDE DEF E, D
    <3>. QED BY <1>5, <2>1
  <2>. QED BY <2>2
<1>7. PICK set : set = CHOOSE f : P(f)
  OBVIOUS
<1>8. P(set)
  <2>. HIDE DEF P
  <2>. QED BY <1>6, <1>7
<1>9. SetBits(size, start_id, count) = (CHOOSE f : P(f))[[i |-> start_id, remained |-> count]]
  BY Zenon DEF SetBits
<1>10. \A s \in Left : set[s] = E(set, s)
  <2>. HIDE DEF E
  <2>. QED BY <1>8
<1>11. SetBits(size, start_id, count) = set[[i |-> start_id, remained |-> count]]
  <2>. HIDE DEF P
  <2>. QED BY <1>7, <1>9
<1>. HIDE DEF P, S
<1>. DEFINE F(s) == s.i + s.remained <= size => set[s] = s.i..(s.i + s.remained - 1)
            T == {m \in Nat : \A s \in Left : s.remained <= m => F(s)}
<1>12. 0 \in T
  BY <1>1
<1>13. ASSUME NEW m \in Nat, m \in T PROVE m + 1 \in T
  <2>. SUFFICES ASSUME NEW s \in Left, s.remained <= m + 1, s.i + s.remained <= size
                PROVE  set[s] = s.i..(s.i + s.remained - 1)
    OBVIOUS
  <2>1. PICK i \in Nat, k \in Nat \ {0} : i = s.i /\ k = s.remained
    BY <1>1
  <2>2. PICK step \in 1..k : /\ SetRest(s).i = i + step /\ SetRest(s).remained = k - step
                             /\ k # step => SetRest(s) \in Left
                             /\ SetStep(i, k) = i..(i + step - 1)
    BY <1>1, <2>1
  <2>3. set[s] = SetStep(i, k) \cup (IF k - step = 0 THEN {} ELSE set[SetRest(s)])
    <3>1. ~(s.i >= size)
      BY <1>1
    <3>2. set[s] = E(set, s)
      <4>. HIDE DEF E
      <4>. QED BY <1>10
    <3>. QED BY <2>1, <2>2, <3>1, <3>2
  <2>4. CASE k = step
    BY <2>1, <2>2, <2>3, <2>4
  <2>5. CASE k # step
    <3>1. SetRest(s) \in Left /\ SetRest(s).remained <= m
      BY <2>1, <2>2, <2>5
    <3>2. F(SetRest(s))
      <4>. HIDE DEF F
      <4>. QED BY <1>13, <3>1
    <3>3. set[SetRest(s)] = (i + step)..(i + step + (k - step) - 1)
      BY <2>1, <2>2, <3>2
    <3>4. set[s] = (i..(i + step - 1)) \cup ((i + step)..(i + k - 1))
      BY <2>2, <2>3, <2>5, <3>3
    <3>. QED BY <2>1, <3>4
  <2>. QED BY <2>4, <2>5
<1>14. count \in T
  <2>. HIDE DEF T
  <2>1. \A m \in Nat : m \in T
    BY <1>12, <1>13, SetInduction
  <2>. QED BY <2>1
<1>15. F([i |-> start_id, remained |-> count])
  <2>. HIDE DEF F
  <2>. QED BY <1>14
<1>. QED BY <1>11, <1>15

\* The bitmap by itself.
BitmapSpec == BitmapInit /\ [][BitmapNext]_bitmap

\* A bitmap has the bits of its groups.
BitmapInv ==
  \E size \in BitmapSize \cup {0} :
    \E memory \in [0..(Capacity(size) - 1) -> {0, 1}] :
      bitmap = [size |-> size, memory |-> memory]

\* The bitmap starts as it should.
LEMMA BitmapInitInv == BitmapInit => BitmapInv
<1>. SUFFICES ASSUME BitmapInit PROVE BitmapInv
  OBVIOUS
<1>1. PICK g \in Nat \ {0} : g = GROUP_SIZE
  BY BitmapAssumption
<1>2. 0 = (0 + g - 1) \div g
  <2>1. g - 1 = g * 0 + (g - 1) /\ g - 1 \in 0..(g - 1)
    BY <1>1
  <2>2. (g - 1) \div g = 0
    BY <2>1, DivModOf
  <2>. QED BY <2>2
<1>3. Capacity(0) = 0
  <2>1. Capacity(0) = 0 * g
    BY <1>1, <1>2 DEF Capacity
  <2>. QED BY <1>1, <2>1
<1>4. [i \in {} |-> 0] \in [0..(Capacity(0) - 1) -> {0, 1}]
  BY <1>3
<1>5. bitmap = [size |-> 0, memory |-> [i \in {} |-> 0]]
  BY DEF BitmapInit, NoBitmap
<1>. QED BY <1>4, <1>5 DEF BitmapInv

\* What a step makes of a bitmap: it creates or removes one, or it gives the bits of one
\* run a value.
LEMMA BitmapStep ==
  ASSUME BitmapInv, BitmapNext
  PROVE  \/ /\ bitmap.size = 0
            /\ \E size \in BitmapSize, value \in {0, 1} : os_bitmap_create(size, value)
         \/ bitmap' = NoBitmap
         \/ \E s \in 0..(bitmap.size - 1), count \in 1..bitmap.size, value \in {0, 1} :
              /\ s + count <= bitmap.size
              /\ bitmap' = [size |-> bitmap.size,
                            memory |-> [k \in DOMAIN bitmap.memory |->
                                          IF k \in s..(s + count - 1) THEN value
                                          ELSE bitmap.memory[k]]]
<1>1. PICK size \in BitmapSize \cup {0} :
        \E memory \in [0..(Capacity(size) - 1) -> {0, 1}] :
          bitmap = [size |-> size, memory |-> memory]
  BY DEF BitmapInv
<1>2. PICK memory \in [0..(Capacity(size) - 1) -> {0, 1}] :
        bitmap = [size |-> size, memory |-> memory]
  BY <1>1
<1>3. size \in Nat
  BY <1>1, BitmapAssumption
<1>4. bitmap.size = size /\ bitmap.memory = memory
  BY <1>2
<1>5. CASE \E n \in BitmapSize, value \in {0, 1} : os_bitmap_create(n, value)
  BY <1>5 DEF os_bitmap_create
<1>6. CASE os_bitmap_remove
  BY <1>6 DEF os_bitmap_remove
<1>7. ASSUME NEW id \in 0..(bitmap.size - 1), NEW value \in {0, 1}, os_bitmap_set_bit(id, value)
      PROVE  bitmap' = [size |-> size,
                        memory |-> [k \in DOMAIN memory |->
                                      IF k \in id..(id + 1 - 1) THEN value ELSE memory[k]]]
  <2>1. bitmap' = [size |-> size, memory |-> [memory EXCEPT ![id] = value]]
    BY <1>2, <1>7 DEF os_bitmap_set_bit
  <2>2. DOMAIN memory = 0..(Capacity(size) - 1) /\ \A k \in DOMAIN memory : k \in Int
    BY <1>2, <1>3, CapacityIs
  <2>3. \A k \in DOMAIN memory : k \in id..(id + 1 - 1) <=> k = id
    BY <1>3, <1>4, <2>2
  <2>4. [memory EXCEPT ![id] = value] =
          [k \in DOMAIN memory |-> IF k \in id..(id + 1 - 1) THEN value ELSE memory[k]]
    <3>. DEFINE now == [memory EXCEPT ![id] = value]
    <3>1. DOMAIN now = DOMAIN memory /\ \A k \in DOMAIN memory : now[k] = IF k = id THEN value ELSE memory[k]
      OBVIOUS
    <3>2. now = [k \in DOMAIN memory |-> now[k]]
      BY <3>1
    <3>. HIDE DEF now
    <3>3. now = [k \in DOMAIN memory |-> IF k \in id..(id + 1 - 1) THEN value ELSE memory[k]]
      BY <2>3, <3>1, <3>2
    <3>. QED BY <3>3 DEF now
  <2>. QED BY <2>1, <2>4
<1>8. ASSUME NEW id \in 0..(bitmap.size - 1), NEW value \in {0, 1}, NEW count \in 1..bitmap.size,
             os_bitmap_set_bits(id, count, value)
      PROVE  /\ id + count <= size
             /\ bitmap' = [size |-> size,
                           memory |-> [k \in DOMAIN memory |->
                                         IF k \in id..(id + count - 1) THEN value ELSE memory[k]]]
  <2>1. id \in Nat /\ count \in Nat \ {0} /\ id + count <= size
    BY <1>3, <1>4, <1>8 DEF os_bitmap_set_bits
  <2>2. SetBits(size, id, count) = id..(id + count - 1)
    BY <1>3, <2>1, SetBitsIs
  <2>3. bitmap' = [bitmap EXCEPT !.memory =
                     [k \in DOMAIN @ |-> IF k \in SetBits(size, id, count) THEN value ELSE @[k]]]
    BY <1>4, <1>8 DEF os_bitmap_set_bits
  <2>. QED BY <1>2, <2>1, <2>2, <2>3
<1>9. CASE \E id \in 0..(bitmap.size - 1), value \in {0, 1} :
             \/ os_bitmap_set_bit(id, value)
             \/ \E count \in 1..bitmap.size : os_bitmap_set_bits(id, count, value)
  <2>1. PICK id \in 0..(bitmap.size - 1), value \in {0, 1} :
               \/ os_bitmap_set_bit(id, value)
               \/ \E count \in 1..bitmap.size : os_bitmap_set_bits(id, count, value)
    BY <1>9
  <2>2. CASE os_bitmap_set_bit(id, value)
    <3>1. 1 \in 1..bitmap.size /\ id + 1 <= bitmap.size
      BY <1>3, <1>4
    <3>. QED BY <1>4, <1>7, <2>1, <2>2, <3>1
  <2>3. CASE \E count \in 1..bitmap.size : os_bitmap_set_bits(id, count, value)
    <3>1. PICK count \in 1..bitmap.size : os_bitmap_set_bits(id, count, value)
      BY <2>3
    <3>. QED BY <1>4, <1>8, <2>1, <3>1
  <2>. QED BY <2>1, <2>2, <2>3
<1>. QED BY <1>5, <1>6, <1>9 DEF BitmapNext

\* Every step leaves a bitmap as it should be.
LEMMA BitmapNextInv == BitmapInv /\ [BitmapNext]_bitmap => BitmapInv'
<1>. SUFFICES ASSUME BitmapInv, [BitmapNext]_bitmap PROVE BitmapInv'
  OBVIOUS
<1>1. CASE UNCHANGED bitmap
  BY <1>1 DEF BitmapInv
<1>2. CASE BitmapNext
  <2>1. PICK size \in BitmapSize \cup {0} :
          \E memory \in [0..(Capacity(size) - 1) -> {0, 1}] :
            bitmap = [size |-> size, memory |-> memory]
    BY DEF BitmapInv
  <2>2. PICK memory \in [0..(Capacity(size) - 1) -> {0, 1}] :
          bitmap = [size |-> size, memory |-> memory]
    BY <2>1
  <2>3. bitmap.size = size /\ bitmap.memory = memory
    BY <2>2
  <2>4. CASE \E n \in BitmapSize, value \in {0, 1} : os_bitmap_create(n, value)
    <3>1. PICK n \in BitmapSize, value \in {0, 1} :
            bitmap' = [size |-> n, memory |-> [i \in 0..(Capacity(n) - 1) |-> value]]
      BY <2>4 DEF os_bitmap_create
    <3>2. [i \in 0..(Capacity(n) - 1) |-> value] \in [0..(Capacity(n) - 1) -> {0, 1}]
      BY <3>1
    <3>. QED BY <3>1, <3>2 DEF BitmapInv
  <2>5. CASE bitmap' = NoBitmap
    <3>1. BitmapInit' => BitmapInv'
      BY BitmapInitInv, PTL
    <3>. QED BY <2>5, <3>1 DEF BitmapInit
  <2>6. CASE \E s \in 0..(bitmap.size - 1), count \in 1..bitmap.size, value \in {0, 1} :
               /\ s + count <= bitmap.size
               /\ bitmap' = [size |-> bitmap.size,
                             memory |-> [k \in DOMAIN bitmap.memory |->
                                           IF k \in s..(s + count - 1) THEN value
                                           ELSE bitmap.memory[k]]]
    <3>1. PICK s \in 0..(bitmap.size - 1), count \in 1..bitmap.size, value \in {0, 1} :
            bitmap' = [size |-> size,
                       memory |-> [k \in DOMAIN memory |->
                                     IF k \in s..(s + count - 1) THEN value ELSE memory[k]]]
      <4>1. PICK s \in 0..(bitmap.size - 1), count \in 1..bitmap.size, value \in {0, 1} :
              bitmap' = [size |-> bitmap.size,
                         memory |-> [k \in DOMAIN bitmap.memory |->
                                       IF k \in s..(s + count - 1) THEN value
                                       ELSE bitmap.memory[k]]]
        BY <2>6
      <4>2. bitmap' = [size |-> size,
                       memory |-> [k \in DOMAIN memory |->
                                     IF k \in s..(s + count - 1) THEN value ELSE memory[k]]]
        BY <2>3, <4>1
      <4>. QED BY <4>1, <4>2
    <3>2. [k \in DOMAIN memory |-> IF k \in s..(s + count - 1) THEN value ELSE memory[k]]
            \in [0..(Capacity(size) - 1) -> {0, 1}]
      BY <2>2, <3>1
    <3>. QED BY <2>1, <2>2, <3>1, <3>2 DEF BitmapInv
  <2>. QED BY <1>2, <2>4, <2>5, <2>6, BitmapStep
<1>. QED BY <1>1, <1>2

\* Searches find first runs in every bitmap.
LEMMA BitmapFinds == BitmapInv => FindsFirstRun
<1>. SUFFICES ASSUME BitmapInv,
                     NEW start_id \in 0..(bitmap.size - 1), NEW count \in 1..(bitmap.size + 1),
                     NEW value \in {0, 1}
              PROVE  LET found == os_bitmap_find_some(bitmap, start_id, count, value)
                         in_size == Runs(start_id, count, value, bitmap.size)
                         exact == INDEX_ID(bitmap.size) = 0 \/ count < GROUP_SIZE
                     IN /\ found # NONE => found \in Runs(start_id, count, value, Capacity(bitmap.size))
                        /\ found = NONE => in_size = {}
                        /\ \A s \in in_size : found <= s
                        /\ exact /\ found # NONE => found \in in_size
  BY Zenon DEF FindsFirstRun
<1>1. PICK size \in Nat : size = bitmap.size
  BY BitmapAssumption DEF BitmapInv
<1>2. start_id \in Nat /\ start_id < size /\ count \in Nat \ {0}
  BY <1>1
<1>3. PICK found : found = os_bitmap_find_some(bitmap, start_id, count, value)
  OBVIOUS
<1>4. FirstRun(bitmap, start_id, count, value, found)
  BY <1>1, <1>2, <1>3, FindIs
<1>5. \A n \in Int : Runs(start_id, count, value, n) =
                       {s \in start_id..(n - count) : RunAt(bitmap, count, value, s)}
  BY DEF Runs, RunAt
<1>6. Capacity(size) \in Nat /\ size <= Capacity(size)
  BY CapacityIs
<1>7. found # NONE => found \in Runs(start_id, count, value, Capacity(bitmap.size))
  BY <1>1, <1>4, <1>5, <1>6 DEF FirstRun
<1>8. \A s \in Runs(start_id, count, value, bitmap.size) : found # NONE /\ found <= s
  BY <1>1, <1>4, <1>5 DEF FirstRun
<1>9. (INDEX_ID(bitmap.size) = 0 \/ count < GROUP_SIZE) /\ found # NONE =>
        found \in Runs(start_id, count, value, bitmap.size)
  <2>. SUFFICES ASSUME INDEX_ID(bitmap.size) = 0 \/ count < GROUP_SIZE, found # NONE
                PROVE  found \in Runs(start_id, count, value, bitmap.size)
    OBVIOUS
  <2>1. found \in start_id..(Capacity(size) - count) /\ RunAt(bitmap, count, value, found)
    BY <1>1, <1>4 DEF FirstRun
  <2>2. found <= size - count
    BY <1>1, <1>4 DEF FirstRun
  <2>3. found \in start_id..(size - count)
    BY <1>1, <1>2, <1>6, <2>1, <2>2
  <2>. QED BY <1>1, <1>5, <2>1, <2>3
<1>10. found = NONE => Runs(start_id, count, value, bitmap.size) = {}
  BY <1>8
<1>. QED BY <1>3, <1>7, <1>8, <1>9, <1>10, Zenon

\* os_bitmap_find_some_ones and os_bitmap_find_some_zeros return the start of the first run
\* long enough, and none only when there is none, in bitmaps and groups of every size,
\* whether the loop takes bits or whole groups.
THEOREM SearchesFindFirstRuns == BitmapSpec => []FindsFirstRun
<1>1. BitmapSpec => []BitmapInv
  BY BitmapInitInv, BitmapNextInv, PTL DEF BitmapSpec
<1>. QED BY <1>1, BitmapFinds, PTL

\* os_bitmap_set_bit and os_bitmap_set_bits change the bits they name and no other: what
\* they write by whole groups never reaches a bit of another holder.
THEOREM SettingKeepsOthers == BitmapSpec => SetsNoOther
<1>. DEFINE Kept ==
       \A size \in BitmapSize :
         /\ bitmap.size = size /\ bitmap'.size = size
         => \E s \in 0..(size - 1), count \in 1..size, value \in {0, 1} :
              /\ s + count <= size
              /\ bitmap'.memory = [k \in DOMAIN bitmap.memory |->
                                     IF k \in s..(s + count - 1) THEN value ELSE bitmap.memory[k]]
<1>1. BitmapInv /\ [BitmapNext]_bitmap => [Kept]_bitmap
  <2>. SUFFICES ASSUME BitmapInv, BitmapNext,
                       NEW size \in BitmapSize, bitmap.size = size, bitmap'.size = size
                PROVE  \E s \in 0..(size - 1), count \in 1..size, value \in {0, 1} :
                         /\ s + count <= size
                         /\ bitmap'.memory = [k \in DOMAIN bitmap.memory |->
                                                IF k \in s..(s + count - 1) THEN value
                                                ELSE bitmap.memory[k]]
    BY Zenon
  <2>1. size # 0 /\ NoBitmap.size = 0
    BY BitmapAssumption DEF NoBitmap
  <2>2. PICK s \in 0..(bitmap.size - 1), count \in 1..bitmap.size, value \in {0, 1} :
          /\ s + count <= bitmap.size
          /\ bitmap' = [size |-> bitmap.size,
                        memory |-> [k \in DOMAIN bitmap.memory |->
                                      IF k \in s..(s + count - 1) THEN value
                                      ELSE bitmap.memory[k]]]
    BY <2>1, BitmapStep
  <2>3. bitmap'.memory = [k \in DOMAIN bitmap.memory |->
                            IF k \in s..(s + count - 1) THEN value ELSE bitmap.memory[k]]
    BY <2>2
  <2>. QED BY <2>2, <2>3
<1>2. BitmapSpec => []BitmapInv
  BY BitmapInitInv, BitmapNextInv, PTL DEF BitmapSpec
<1>. HIDE DEF Kept
<1>3. BitmapSpec => [][Kept]_bitmap
  BY <1>1, <1>2, PTL DEF BitmapSpec
<1>. QED BY <1>3 DEF Kept, SetsNoOther

-----------------------------------------------------------------------------
(***************************************************************************)
(* Symbol tables.                                                          *)
(***************************************************************************)

\* A table is sorted, and does not begin with the address before it.
SortedTable(kind) ==
  /\ Len(symtab[kind]) \in Nat
  /\ \A i \in -1..(Len(symtab[kind]) - 1) : SymAddress(kind, i) \in Nat
  /\ \A i, j \in 0..(Len(symtab[kind]) - 1) : i <= j => SymAddress(kind, i) <= SymAddress(kind, j)
  /\ Len(symtab[kind]) > 0 => SymAddress(kind, -1) # SymAddress(kind, 0)

LEMMA MaxIs ==
  ASSUME NEW S \in SUBSET Int, NEW x \in S, \A y \in S : y <= x
  PROVE  Max(S) = x
<1>1. Max(S) \in S /\ \A y \in S : y <= Max(S)
  <2>1. Max(S) = CHOOSE z \in S : \A y \in S : z >= y
    BY DEF Max
  <2>2. \E z \in S : \A y \in S : z >= y
    OBVIOUS
  <2>3. Max(S) \in S /\ \A y \in S : Max(S) >= y
    BY <2>1, <2>2
  <2>. QED BY <2>3
<1>2. Max(S) \in Int /\ x \in Int
  BY <1>1
<1>3. Max(S) <= x /\ x <= Max(S)
  BY <1>1
<1>. QED BY <1>2, <1>3

LEMMA MinIs ==
  ASSUME NEW S \in SUBSET Int, NEW x \in S, \A y \in S : x <= y
  PROVE  Min(S) = x
<1>1. Min(S) \in S /\ \A y \in S : Min(S) <= y
  <2>1. Min(S) = CHOOSE z \in S : \A y \in S : z <= y
    BY DEF Min
  <2>2. \E z \in S : \A y \in S : z <= y
    OBVIOUS
  <2>. QED BY <2>1, <2>2
<1>2. Min(S) \in Int /\ x \in Int
  BY <1>1
<1>3. Min(S) <= x /\ x <= Min(S)
  BY <1>1
<1>. QED BY <1>2, <1>3

\* Down to the first symbol at an address.
LEMMA FirstOfGroupIs ==
  ASSUME NEW kind, SortedTable(kind), NEW i \in 0..(Len(symtab[kind]) - 1)
  PROVE  /\ FirstOfGroup(kind, i) \in 0..i
         /\ SymAddress(kind, FirstOfGroup(kind, i)) = SymAddress(kind, i)
         /\ \A j \in 0..(FirstOfGroup(kind, i) - 1) : SymAddress(kind, j) < SymAddress(kind, i)
<1>. DEFINE A(k) == SymAddress(kind, k)
            T == {k \in 0..i : A(k) = A(i)}
            K == {k \in 0..i : (\A j \in (k + 1)..i : A(j) = A(j - 1)) /\ A(k) # A(k - 1)}
<1>1. PICK n \in Nat : n = Len(symtab[kind])
  BY DEF SortedTable
<1>2. /\ \A k \in -1..(n - 1) : A(k) \in Nat
      /\ \A k, j \in 0..(n - 1) : k <= j => A(k) <= A(j)
      /\ n > 0 => A(-1) # A(0)
  BY <1>1 DEF SortedTable
<1>3. i \in 0..(n - 1) /\ i # n
  BY <1>1
<1>4. FirstOfGroup(kind, i) = Max({-1} \cup K)
  BY <1>1, <1>3 DEF FirstOfGroup
<1>. HIDE DEF A
<1>5. PICK x \in T : \A y \in T : x <= y
  <2>1. T \in SUBSET Nat /\ T # {}
    BY <1>3
  <2>. HIDE DEF T
  <2>. QED BY <2>1, LeastNumber
<1>6. x \in 0..i /\ A(x) = A(i)
  BY <1>5
<1>7. \A j \in x..i : A(j) = A(i)
  <2>. SUFFICES ASSUME NEW j \in x..i PROVE A(j) = A(i)
    OBVIOUS
  <2>1. A(x) <= A(j) /\ A(j) <= A(i) /\ A(j) \in Nat /\ A(i) \in Nat
    BY <1>2, <1>3, <1>6
  <2>. QED BY <1>6, <2>1
<1>8. A(x) # A(x - 1)
  <2>1. CASE x = 0
    BY <1>2, <1>3, <2>1
  <2>2. CASE x # 0
    <3>1. x - 1 \in 0..i /\ x - 1 \notin T
      BY <1>5, <1>6, <2>2
    <3>. QED BY <1>6, <3>1
  <2>. QED BY <2>1, <2>2
<1>9. x \in K
  BY <1>6, <1>7, <1>8
<1>10. \A k \in K : k <= x
  <2>. SUFFICES ASSUME NEW k \in 0..i, A(k) # A(k - 1), k > x PROVE FALSE
    BY <1>6
  <2>1. k \in x..i /\ k - 1 \in x..i
    BY <1>6
  <2>. QED BY <1>7, <2>1
<1>11. FirstOfGroup(kind, i) = x
  <2>1. {-1} \cup K \in SUBSET Int /\ x \in {-1} \cup K /\ \A y \in {-1} \cup K : y <= x
    BY <1>6, <1>9, <1>10
  <2>. HIDE DEF K
  <2>2. Max({-1} \cup K) = x
    BY <2>1, MaxIs
  <2>. QED BY <1>4, <2>2
<1>12. \A j \in 0..(x - 1) : A(j) < A(i)
  <2>. SUFFICES ASSUME NEW j \in 0..(x - 1) PROVE A(j) < A(i)
    OBVIOUS
  <2>1. A(j) <= A(i) /\ A(j) \in Nat /\ A(i) \in Nat
    BY <1>2, <1>3, <1>6
  <2>2. j \notin T /\ j \in 0..i
    BY <1>5, <1>6
  <2>. QED BY <2>1, <2>2
<1>. QED BY <1>6, <1>11, <1>12 DEF A

\* Behind the last symbol at an address.
LEMMA BehindGroupIs ==
  ASSUME NEW kind, SortedTable(kind), NEW i \in 0..(Len(symtab[kind]) - 1)
  PROVE  /\ BehindGroup(kind, i) \in (i + 1)..Len(symtab[kind])
         /\ \A j \in 0..(BehindGroup(kind, i) - 1) : SymAddress(kind, j) <= SymAddress(kind, i)
<1>. DEFINE A(k) == SymAddress(kind, k)
            K == {k \in i..(Len(symtab[kind]) - 1) : A(k) = A(i)}
<1>1. PICK n \in Nat : n = Len(symtab[kind])
  BY DEF SortedTable
<1>2. /\ \A k \in -1..(n - 1) : A(k) \in Nat
      /\ \A k, j \in 0..(n - 1) : k <= j => A(k) <= A(j)
  BY <1>1 DEF SortedTable
<1>3. i \in 0..(n - 1)
  BY <1>1
<1>4. BehindGroup(kind, i) = 1 + Max(K)
  BY DEF BehindGroup
<1>. HIDE DEF A
<1>. DEFINE T == {m \in (i + 1)..n : m = n \/ A(m) # A(i)}
<1>5. PICK x \in T : \A y \in T : x <= y
  <2>1. T \in SUBSET Nat /\ n \in T
    BY <1>3
  <2>. HIDE DEF T
  <2>. QED BY <2>1, LeastNumber
<1>6. x \in (i + 1)..n /\ (x = n \/ A(x) # A(i))
  BY <1>5
<1>7. A(x - 1) = A(i)
  <2>1. CASE x = i + 1
    BY <1>3, <2>1
  <2>2. CASE x # i + 1
    <3>1. x - 1 \in (i + 1)..n /\ x - 1 \notin T
      BY <1>3, <1>5, <1>6, <2>2
    <3>. QED BY <3>1
  <2>. QED BY <2>1, <2>2
<1>8. x - 1 \in K
  BY <1>1, <1>3, <1>6, <1>7
<1>9. \A k \in K : k <= x - 1
  <2>. SUFFICES ASSUME NEW k \in i..(n - 1), A(k) = A(i), x <= k PROVE FALSE
    BY <1>1, <1>3, <1>6
  <2>1. x \in 0..(n - 1) /\ A(x) # A(i)
    BY <1>3, <1>6
  <2>2. A(i) <= A(x) /\ A(x) <= A(k) /\ A(x) \in Nat /\ A(i) \in Nat
    BY <1>2, <1>3, <1>6, <2>1
  <2>. QED BY <2>1, <2>2
<1>10. Max(K) = x - 1
  <2>1. K \in SUBSET Int
    OBVIOUS
  <2>. HIDE DEF K
  <2>. QED BY <1>8, <1>9, <2>1, MaxIs
<1>11. BehindGroup(kind, i) = x
  BY <1>4, <1>6, <1>10
<1>12. \A j \in 0..(x - 1) : A(j) <= A(i)
  <2>. SUFFICES ASSUME NEW j \in 0..(x - 1) PROVE A(j) <= A(i)
    OBVIOUS
  <2>1. A(j) <= A(x - 1)
    BY <1>2, <1>3, <1>6
  <2>. QED BY <1>7, <2>1
<1>. QED BY <1>1, <1>6, <1>11, <1>12 DEF A

\* One round of the search, f standing for the rest of it.
SearchRound(kind, address, f, s) ==
  LET mid == (s.left + s.right) \div 2
      lower == FirstOfGroup(kind, mid)
  IN IF s.left >= s.right THEN s.left - 1
     ELSE IF address = SymAddress(kind, mid) THEN mid
     ELSE IF address > SymAddress(kind, mid) THEN f[[s EXCEPT !.left = BehindGroup(kind, mid)]]
     ELSE IF lower = -1 THEN WildRead ELSE f[[s EXCEPT !.right = lower]]

\* Every round leaves less to search.
LEMMA SearchNarrows ==
  ASSUME NEW kind, SortedTable(kind), NEW s \in Span(kind), s.left < s.right
  PROVE  /\ (s.left + s.right) \div 2 \in s.left..(s.right - 1)
         /\ (s.left + s.right) \div 2 \in 0..(Len(symtab[kind]) - 1)
         /\ BehindGroup(kind, (s.left + s.right) \div 2) \in (s.left + 1)..Len(symtab[kind])
         /\ FirstOfGroup(kind, (s.left + s.right) \div 2) \in 0..(s.right - 1)
         /\ [s EXCEPT !.left = BehindGroup(kind, (s.left + s.right) \div 2)] \in Span(kind)
         /\ [s EXCEPT !.right = FirstOfGroup(kind, (s.left + s.right) \div 2)] \in Span(kind)
<1>1. PICK n \in Nat : n = Len(symtab[kind])
  BY DEF SortedTable
<1>2. s.left \in 0..n /\ s.right \in 0..n /\ s \in [left : 0..n, right : 0..n]
  BY <1>1 DEF Span
<1>3. PICK mid \in Nat : mid = (s.left + s.right) \div 2 /\ mid \in s.left..(s.right - 1)
  BY <1>2
<1>4. mid \in 0..(n - 1)
  BY <1>2, <1>3
<1>5. BehindGroup(kind, mid) \in (mid + 1)..n
  BY <1>1, <1>4, BehindGroupIs
<1>6. FirstOfGroup(kind, mid) \in 0..mid
  BY <1>1, <1>4, FirstOfGroupIs
<1>7. BehindGroup(kind, mid) \in (s.left + 1)..n /\ FirstOfGroup(kind, mid) \in 0..(s.right - 1)
  BY <1>2, <1>3, <1>5, <1>6
<1>8. \A b \in 0..n : [s EXCEPT !.left = b] \in Span(kind) /\ [s EXCEPT !.right = b] \in Span(kind)
  BY <1>1, <1>2 DEF Span
<1>9. BehindGroup(kind, mid) \in 0..n /\ FirstOfGroup(kind, mid) \in 0..n
  BY <1>2, <1>7
<1>. QED BY <1>1, <1>3, <1>4, <1>7, <1>8, <1>9

\* The search is its rounds, one after the other.
LEMMA SearchIs ==
  ASSUME NEW kind, SortedTable(kind), NEW address
  PROVE  \E search :
           /\ find_symbol_table(kind, address) =
                LET found == search[[left |-> 0, right |-> Len(symtab[kind])]]
                IN IF found \in {NoSymbol, WildRead} THEN found
                   ELSE IF FirstOfGroup(kind, found) = -1 THEN WildRead
                   ELSE FirstOfGroup(kind, found)
           /\ \A s \in Span(kind) : search[s] = SearchRound(kind, address, search, s)
<1>. DEFINE E(f, s) == SearchRound(kind, address, f, s)
            Mid(s) == (s.left + s.right) \div 2
            Up(s) == [s EXCEPT !.left = BehindGroup(kind, Mid(s))]
            Down(s) == [s EXCEPT !.right = FirstOfGroup(kind, Mid(s))]
            P(f) == f = [s \in Span(kind) |-> E(f, s)]
            D(m) == {s \in Span(kind) : s.right <= s.left + m}
            S == {m \in Nat : \E f : f = [s \in D(m) |-> E(f, s)]}
<1>1. PICK n \in Nat : n = Len(symtab[kind])
  BY DEF SortedTable
<1>2. \A s \in Span(kind) : s.left \in 0..n /\ s.right \in 0..n
  BY <1>1 DEF Span
<1>3. ASSUME NEW s \in Span(kind), s.left < s.right
      PROVE  /\ Up(s) \in Span(kind) /\ Down(s) \in Span(kind)
             /\ Up(s).left \in Int /\ Up(s).left > s.left /\ Up(s).right = s.right
             /\ Down(s).left = s.left /\ Down(s).right \in Int /\ Down(s).right < s.right
  <2>1. s.left \in Nat /\ s.right \in Nat /\ n \in Nat
    BY <1>2
  <2>2. s = [left |-> s.left, right |-> s.right]
    BY DEF Span
  <2>3. /\ BehindGroup(kind, Mid(s)) \in (s.left + 1)..n
        /\ FirstOfGroup(kind, Mid(s)) \in 0..(s.right - 1)
        /\ Up(s) \in Span(kind) /\ Down(s) \in Span(kind)
    BY <1>1, <1>3, SearchNarrows
  <2>4. /\ Up(s).left = BehindGroup(kind, Mid(s)) /\ Up(s).right = s.right
        /\ Down(s).left = s.left /\ Down(s).right = FirstOfGroup(kind, Mid(s))
    BY <2>2
  <2>. HIDE DEF Up, Down, Mid
  <2>. QED BY <2>1, <2>3, <2>4
<1>4. ASSUME NEW f, NEW h, NEW s \in Span(kind), s.left < s.right =>
               f[Up(s)] = h[Up(s)] /\ f[Down(s)] = h[Down(s)]
      PROVE  E(f, s) = E(h, s)
  <2>1. CASE s.left >= s.right
    BY <2>1 DEF SearchRound
  <2>2. CASE ~(s.left >= s.right)
    <3>1. s.left < s.right
      BY <1>2, <2>2
    <3>2. f[Up(s)] = h[Up(s)] /\ f[Down(s)] = h[Down(s)]
      BY <1>4, <3>1
    <3>. QED BY <3>2, Zenon DEF SearchRound
  <2>. QED BY <2>1, <2>2
<1>. HIDE DEF Up, Down
<1>5. 0 \in S
  <2>1. PICK f : f = [s \in D(0) |-> s.left - 1]
    OBVIOUS
  <2>2. \A s \in D(0) : E(f, s) = s.left - 1
    BY <1>2 DEF SearchRound
  <2>. HIDE DEF E
  <2>3. f = [s \in D(0) |-> E(f, s)]
    BY <2>1, <2>2
  <2>. QED BY <2>3
<1>. HIDE DEF E
<1>6. ASSUME NEW m \in Nat, m \in S PROVE m + 1 \in S
  <2>1. PICK f : f = [s \in D(m) |-> E(f, s)]
    BY <1>6
  <2>2. PICK h : h = [s \in D(m + 1) |-> IF s \in D(m) THEN f[s] ELSE E(f, s)]
    OBVIOUS
  <2>3. \A s \in D(m) : s \in D(m + 1)
    BY <1>2
  <2>4. \A s \in D(m) : h[s] = f[s]
    BY <2>2, <2>3
  <2>5. ASSUME NEW s \in D(m + 1), s.left < s.right PROVE Up(s) \in D(m) /\ Down(s) \in D(m)
    <3>1. s \in Span(kind) /\ s.left \in Int /\ s.right \in Int /\ s.right <= s.left + (m + 1)
      BY <1>2
    <3>2. /\ Up(s) \in Span(kind) /\ Down(s) \in Span(kind)
          /\ Up(s).left \in Int /\ Up(s).left > s.left /\ Up(s).right = s.right
          /\ Down(s).left = s.left /\ Down(s).right \in Int /\ Down(s).right < s.right
      BY <1>3, <2>5, <3>1
    <3>. QED BY <3>1, <3>2
  <2>6. ASSUME NEW s \in D(m + 1) PROVE E(h, s) = E(f, s)
    <3>1. s \in Span(kind)
      OBVIOUS
    <3>2. s.left < s.right => h[Up(s)] = f[Up(s)] /\ h[Down(s)] = f[Down(s)]
      BY <2>4, <2>5
    <3>. QED BY <1>4, <3>1, <3>2
  <2>7. ASSUME NEW s \in D(m + 1) PROVE h[s] = E(h, s)
    <3>1. CASE s \in D(m)
      <4>1. h[s] = f[s] /\ f[s] = E(f, s)
        BY <2>1, <2>4, <3>1
      <4>. QED BY <2>6, <4>1
    <3>2. CASE s \notin D(m)
      <4>. HIDE DEF D
      <4>. QED BY <2>2, <2>6, <3>2
    <3>. QED BY <3>1, <3>2
  <2>. HIDE DEF D
  <2>8. h = [s \in D(m + 1) |-> E(h, s)]
    BY <2>2, <2>7
  <2>. QED BY <2>8
<1>7. n \in S
  <2>. HIDE DEF S
  <2>1. \A m \in Nat : m \in S
    BY <1>5, <1>6, SetInduction
  <2>. QED BY <2>1
<1>8. D(n) = Span(kind)
  BY <1>2
<1>9. \E f : P(f)
  <2>1. PICK f : f = [s \in D(n) |-> E(f, s)]
    BY <1>7
  <2>2. f = [s \in Span(kind) |-> E(f, s)]
    <3>. HIDE DEF D
    <3>. QED BY <1>8, <2>1
  <2>. QED BY <2>2
<1>10. PICK search : search = CHOOSE f : P(f)
  OBVIOUS
<1>11. P(search)
  <2>. HIDE DEF P
  <2>. QED BY <1>9, <1>10
<1>12. find_symbol_table(kind, address) =
         LET found == (CHOOSE f : P(f))[[left |-> 0, right |-> Len(symtab[kind])]]
         IN IF found \in {NoSymbol, WildRead} THEN found
            ELSE IF FirstOfGroup(kind, found) = -1 THEN WildRead
            ELSE FirstOfGroup(kind, found)
  BY Zenon DEF find_symbol_table, E, SearchRound
<1>13. \A s \in Span(kind) : search[s] = E(search, s)
  BY <1>11
<1>14. \A s \in Span(kind) : search[s] = SearchRound(kind, address, search, s)
  BY <1>13 DEF E
<1>15. find_symbol_table(kind, address) =
         LET found == search[[left |-> 0, right |-> Len(symtab[kind])]]
         IN IF found \in {NoSymbol, WildRead} THEN found
            ELSE IF FirstOfGroup(kind, found) = -1 THEN WildRead
            ELSE FirstOfGroup(kind, found)
  <2>. HIDE DEF P
  <2>. QED BY <1>10, <1>12, Zenon
<1>. HIDE DEF P, D, S
<1>. QED BY <1>14, <1>15, Zenon

\* A symbol of the greatest address that is not behind the given one; none before it.
IsNearest(kind, address, r) ==
  /\ r \in -1..(Len(symtab[kind]) - 1)
  /\ r = -1 => \A j \in 0..(Len(symtab[kind]) - 1) : SymAddress(kind, j) > address
  /\ r # -1 => /\ SymAddress(kind, r) <= address
               /\ \A j \in 0..(Len(symtab[kind]) - 1) :
                    SymAddress(kind, j) <= address => SymAddress(kind, j) <= SymAddress(kind, r)

\* The loop invariant of the search: what is left of it lies between addresses before and
\* behind the one looked for.
SearchInv(kind, address, s) ==
  /\ s \in Span(kind) /\ s.left <= s.right
  /\ \A j \in 0..(s.left - 1) : SymAddress(kind, j) < address
  /\ \A j \in s.right..(Len(symtab[kind]) - 1) : SymAddress(kind, j) > address

\* A round keeps the loop invariant or ends at a nearest symbol.
LEMMA SearchKeeps ==
  ASSUME NEW kind, SortedTable(kind), NEW address \in Nat, NEW f, NEW s,
         SearchInv(kind, address, s)
  PROVE  \/ IsNearest(kind, address, SearchRound(kind, address, f, s))
         \/ \E t : /\ SearchRound(kind, address, f, s) = f[t] /\ SearchInv(kind, address, t)
                   /\ t.right - t.left < s.right - s.left
<1>. DEFINE A(k) == SymAddress(kind, k)
            mid == (s.left + s.right) \div 2
<1>1. PICK n \in Nat : n = Len(symtab[kind])
  BY DEF SortedTable
<1>2. /\ \A k \in -1..(n - 1) : A(k) \in Nat
      /\ \A k, j \in 0..(n - 1) : k <= j => A(k) <= A(j)
  BY <1>1 DEF SortedTable
<1>3. /\ s \in Span(kind) /\ s.left \in 0..n /\ s.right \in 0..n /\ s.left <= s.right
      /\ \A j \in 0..(s.left - 1) : A(j) < address
      /\ \A j \in s.right..(n - 1) : A(j) > address
  BY <1>1 DEF SearchInv, Span
<1>4. CASE s.left >= s.right
  <2>1. SearchRound(kind, address, f, s) = s.left - 1
    BY <1>4 DEF SearchRound
  <2>. HIDE DEF A
  <2>2. s.left = s.right /\ s.left - 1 \in -1..(n - 1)
    BY <1>3, <1>4
  <2>3. ASSUME s.left - 1 = -1, NEW j \in 0..(n - 1) PROVE A(j) > address
    BY <1>3, <2>2, <2>3
  <2>4. ASSUME s.left - 1 # -1
        PROVE  /\ A(s.left - 1) <= address
               /\ \A j \in 0..(n - 1) : A(j) <= address => A(j) <= A(s.left - 1)
    <3>1. s.left - 1 \in 0..(s.left - 1) /\ s.left - 1 \in 0..(n - 1)
      BY <1>3, <2>2, <2>4
    <3>2. A(s.left - 1) < address /\ A(s.left - 1) \in Nat
      BY <1>2, <1>3, <3>1
    <3>3. ASSUME NEW j \in 0..(n - 1), A(j) <= address PROVE A(j) <= A(s.left - 1)
      <4>1. j < s.right
        <5>. SUFFICES ASSUME j >= s.right PROVE FALSE
          BY <1>3
        <5>1. j \in s.right..(n - 1)
          BY <1>3
        <5>2. A(j) > address /\ A(j) \in Nat
          BY <1>2, <1>3, <5>1
        <5>. QED BY <3>3, <5>2
      <4>. QED BY <1>2, <1>3, <2>2, <3>1, <4>1
    <3>. QED BY <3>2, <3>3
  <2>5. IsNearest(kind, address, s.left - 1)
    BY <1>1, <2>2, <2>3, <2>4 DEF IsNearest, A
  <2>. QED BY <2>1, <2>5
<1>5. CASE s.left < s.right
  <2>1. /\ mid \in s.left..(s.right - 1) /\ mid \in 0..(n - 1)
        /\ BehindGroup(kind, mid) \in (s.left + 1)..n
        /\ FirstOfGroup(kind, mid) \in 0..(s.right - 1)
        /\ [s EXCEPT !.left = BehindGroup(kind, mid)] \in Span(kind)
        /\ [s EXCEPT !.right = FirstOfGroup(kind, mid)] \in Span(kind)
    BY <1>1, <1>3, <1>5, SearchNarrows
  <2>2. s = [left |-> s.left, right |-> s.right]
    BY <1>3 DEF Span
  <2>3. SearchRound(kind, address, f, s) =
          IF address = A(mid) THEN mid
          ELSE IF address > A(mid) THEN f[[s EXCEPT !.left = BehindGroup(kind, mid)]]
          ELSE IF FirstOfGroup(kind, mid) = -1 THEN WildRead
          ELSE f[[s EXCEPT !.right = FirstOfGroup(kind, mid)]]
    <3>1. ~(s.left >= s.right)
      BY <1>3, <1>5
    <3>. QED BY <3>1, Zenon DEF SearchRound
  <2>4. PICK m : m = mid
    OBVIOUS
  <2>5. PICK b, g : b = BehindGroup(kind, m) /\ g = FirstOfGroup(kind, m)
    OBVIOUS
  <2>6. /\ b \in (m + 1)..n /\ \A j \in 0..(b - 1) : A(j) <= A(m)
        /\ g \in 0..m /\ A(g) = A(m)
    BY <1>1, <2>1, <2>4, <2>5, BehindGroupIs, FirstOfGroupIs
  <2>. HIDE DEF A, mid
  <2>7. m \in s.left..(s.right - 1) /\ m \in 0..(n - 1) /\ A(m) \in Nat
    BY <1>2, <2>1, <2>4
  <2>8. CASE address = A(m)
    <3>1. SearchRound(kind, address, f, s) = m
      BY <2>3, <2>4, <2>8
    <3>2. m \in -1..(n - 1) /\ m # -1 /\ A(m) <= address
      BY <2>7, <2>8
    <3>3. IsNearest(kind, address, m)
      BY <1>1, <2>8, <3>2 DEF IsNearest, A
    <3>. QED BY <3>1, <3>3
  <2>9. CASE address > A(m)
    <3>1. PICK t : t = [s EXCEPT !.left = b]
      OBVIOUS
    <3>2. t.left = b /\ t.right = s.right
      BY <2>2, <3>1
    <3>3. SearchRound(kind, address, f, s) = f[t]
      BY <2>3, <2>4, <2>5, <2>7, <2>9, <3>1
    <3>4. b <= s.right
      <4>. SUFFICES ASSUME b > s.right PROVE FALSE
        BY <1>3, <2>6, <2>7
      <4>1. s.right \in 0..(b - 1) /\ s.right \in s.right..(n - 1) /\ s.right \in -1..(n - 1)
        BY <1>3, <2>6, <2>7
      <4>2. A(s.right) <= A(m) /\ A(s.right) > address /\ A(s.right) \in Nat
        BY <1>2, <1>3, <2>6, <4>1
      <4>. QED BY <2>7, <2>9, <4>2
    <3>5. \A j \in 0..(b - 1) : A(j) < address
      <4>. SUFFICES ASSUME NEW j \in 0..(b - 1) PROVE A(j) < address
        OBVIOUS
      <4>1. A(j) <= A(m) /\ A(j) \in Nat
        BY <1>2, <2>6, <2>7
      <4>. QED BY <2>7, <2>9, <4>1
    <3>6. t \in Span(kind)
      BY <2>1, <2>4, <2>5, <3>1
    <3>7. SearchInv(kind, address, t)
      BY <1>1, <1>3, <3>2, <3>4, <3>5, <3>6 DEF SearchInv, A
    <3>8. t.right - t.left < s.right - s.left
      BY <1>3, <2>6, <2>7, <3>2
    <3>. QED BY <3>3, <3>7, <3>8
  <2>10. CASE address < A(m)
    <3>1. PICK t : t = [s EXCEPT !.right = g]
      OBVIOUS
    <3>2. t.left = s.left /\ t.right = g
      BY <2>2, <3>1
    <3>3. SearchRound(kind, address, f, s) = f[t]
      <4>1. address # A(m) /\ ~(address > A(m)) /\ g # -1
        BY <2>6, <2>7, <2>10
      <4>. QED BY <2>3, <2>4, <2>5, <3>1, <4>1
    <3>4. s.left <= g
      <4>. SUFFICES ASSUME g < s.left PROVE FALSE
        BY <1>3, <2>6, <2>7
      <4>1. g \in 0..(s.left - 1)
        BY <1>3, <2>6, <2>7
      <4>2. A(g) < address
        BY <1>3, <4>1
      <4>. QED BY <2>6, <2>7, <2>10, <4>2
    <3>5. \A j \in g..(n - 1) : A(j) > address
      <4>. SUFFICES ASSUME NEW j \in g..(n - 1) PROVE A(j) > address
        OBVIOUS
      <4>1. A(g) <= A(j) /\ A(j) \in Nat
        BY <1>2, <2>6, <2>7
      <4>. QED BY <2>6, <2>7, <2>10, <4>1
    <3>6. t \in Span(kind)
      BY <2>1, <2>4, <2>5, <3>1
    <3>7. SearchInv(kind, address, t)
      BY <1>1, <1>3, <3>2, <3>4, <3>5, <3>6 DEF SearchInv, A
    <3>8. t.right - t.left < s.right - s.left
      BY <1>3, <2>6, <2>7, <3>2
    <3>. QED BY <3>3, <3>7, <3>8
  <2>. QED BY <2>7, <2>8, <2>9, <2>10
<1>. QED BY <1>3, <1>4, <1>5

\* find_symbol_table finds the first of the nearest symbols.
LEMMA SearchFinds ==
  ASSUME NEW kind, SortedTable(kind), NEW address \in Nat
  PROVE  /\ find_symbol_table(kind, address) = Nearest(kind, address)
         /\ IsNearest(kind, address, Nearest(kind, address))
<1>. DEFINE A(k) == SymAddress(kind, k)
<1>1. PICK n \in Nat : n = Len(symtab[kind])
  BY DEF SortedTable
<1>2. \A k \in -1..(n - 1) : A(k) \in Nat
  BY <1>1 DEF SortedTable
<1>3. PICK search :
        /\ find_symbol_table(kind, address) =
             LET found == search[[left |-> 0, right |-> Len(symtab[kind])]]
             IN IF found \in {NoSymbol, WildRead} THEN found
                ELSE IF FirstOfGroup(kind, found) = -1 THEN WildRead
                ELSE FirstOfGroup(kind, found)
        /\ \A s \in Span(kind) : search[s] = SearchRound(kind, address, search, s)
  BY SearchIs
<1>. DEFINE I(s) == SearchInv(kind, address, s)
            Q(r) == IsNearest(kind, address, r)
            S == {m \in Nat : \A s \in Span(kind) : I(s) /\ s.right - s.left <= m => Q(search[s])}
<1>4. \A s \in Span(kind) : I(s) => \/ Q(search[s])
                                    \/ \E t : /\ search[s] = search[t] /\ I(t)
                                              /\ t.right - t.left < s.right - s.left
  <2>. SUFFICES ASSUME NEW s \in Span(kind), I(s), ~Q(search[s])
                PROVE  \E t : /\ search[s] = search[t] /\ I(t)
                              /\ t.right - t.left < s.right - s.left
    OBVIOUS
  <2>1. search[s] = SearchRound(kind, address, search, s)
    BY <1>3
  <2>2. \/ IsNearest(kind, address, SearchRound(kind, address, search, s))
        \/ \E t : /\ SearchRound(kind, address, search, s) = search[t] /\ SearchInv(kind, address, t)
                  /\ t.right - t.left < s.right - s.left
    BY SearchKeeps
  <2>. QED BY <2>1, <2>2
<1>5. \A s : I(s) => s \in Span(kind) /\ s.left \in Nat /\ s.right \in Nat /\ s.left <= s.right
  BY <1>1 DEF SearchInv, Span
<1>. HIDE DEF I, Q
<1>6. 0 \in S
  <2>. SUFFICES ASSUME NEW s \in Span(kind), I(s), s.right - s.left <= 0 PROVE Q(search[s])
    OBVIOUS
  <2>. SUFFICES ASSUME NEW t, I(t), t.right - t.left < s.right - s.left PROVE FALSE
    BY <1>4
  <2>. QED BY <1>5
<1>7. ASSUME NEW m \in Nat, m \in S PROVE m + 1 \in S
  <2>. SUFFICES ASSUME NEW s \in Span(kind), I(s), s.right - s.left <= m + 1 PROVE Q(search[s])
    OBVIOUS
  <2>. SUFFICES ASSUME NEW t, search[s] = search[t], I(t), t.right - t.left < s.right - s.left
                PROVE  Q(search[t])
    BY <1>4
  <2>1. t \in Span(kind) /\ t.right - t.left <= m
    BY <1>5
  <2>. QED BY <1>7, <2>1
<1>8. n \in S
  <2>. HIDE DEF S
  <2>1. \A m \in Nat : m \in S
    BY <1>6, <1>7, SetInduction
  <2>. QED BY <2>1
<1>9. PICK first : first = [left |-> 0, right |-> n]
  OBVIOUS
<1>10. first \in Span(kind) /\ first.left = 0 /\ first.right = n
  BY <1>1, <1>9 DEF Span
<1>11. I(first) /\ first.right - first.left <= n
  BY <1>1, <1>10 DEF I, SearchInv
<1>12. PICK r : r = search[first]
  OBVIOUS
<1>13. IsNearest(kind, address, r)
  BY <1>8, <1>10, <1>11, <1>12 DEF Q
<1>14. /\ r \in -1..(n - 1)
       /\ r = -1 => \A j \in 0..(n - 1) : A(j) > address
       /\ r # -1 => A(r) <= address /\ \A j \in 0..(n - 1) : A(j) <= address => A(j) <= A(r)
  BY <1>1, <1>13 DEF IsNearest
<1>15. find_symbol_table(kind, address) =
         IF r \in {NoSymbol, WildRead} THEN r
         ELSE IF FirstOfGroup(kind, r) = -1 THEN WildRead ELSE FirstOfGroup(kind, r)
  BY <1>1, <1>3, <1>9, <1>12
<1>. DEFINE at == {i \in 0..(n - 1) : A(i) <= address}
            top == {i \in at : \A j \in at : A(j) <= A(i)}
<1>16. Nearest(kind, address) = IF at = {} THEN NoSymbol ELSE Min(top)
  BY <1>1 DEF Nearest
<1>17. CASE r = -1
  <2>1. at = {}
    <3>. HIDE DEF A
    <3>. QED BY <1>2, <1>14, <1>17
  <2>2. find_symbol_table(kind, address) = -1 /\ Nearest(kind, address) = -1
    <3>. HIDE DEF at, top
    <3>. QED BY <1>15, <1>16, <1>17, <2>1 DEF NoSymbol
  <2>. QED BY <1>13, <1>17, <2>2
<1>18. CASE r # -1
  <2>1. r \in 0..(n - 1) /\ r \notin {NoSymbol, WildRead}
    BY <1>14, <1>18 DEF NoSymbol, WildRead
  <2>2. PICK f : f = FirstOfGroup(kind, r)
    OBVIOUS
  <2>3. f \in 0..r /\ A(f) = A(r) /\ \A j \in 0..(f - 1) : A(j) < A(r)
    BY <1>1, <2>1, <2>2, FirstOfGroupIs
  <2>4. find_symbol_table(kind, address) = f
    BY <1>15, <2>1, <2>2, <2>3
  <2>. HIDE DEF A
  <2>5. f \in top
    BY <1>14, <1>18, <2>1, <2>3
  <2>6. ASSUME NEW y \in top PROVE f <= y
    <3>1. y \in 0..(n - 1) /\ r \in at /\ A(r) <= A(y)
      BY <1>14, <1>18, <2>1
    <3>2. A(y) \in Nat /\ A(r) \in Nat
      BY <1>2, <2>1, <3>1
    <3>. SUFFICES ASSUME y < f PROVE FALSE
      BY <2>1, <2>3, <3>1
    <3>3. A(y) < A(r)
      BY <2>1, <2>3, <3>1
    <3>. QED BY <3>1, <3>2, <3>3
  <2>7. Min(top) = f
    <3>1. top \in SUBSET Int
      OBVIOUS
    <3>. HIDE DEF top
    <3>. QED BY <2>5, <2>6, <3>1, MinIs
  <2>8. Nearest(kind, address) = f
    <3>1. at # {}
      BY <2>5
    <3>. HIDE DEF at, top
    <3>. QED BY <1>16, <2>7, <3>1
  <2>9. IsNearest(kind, address, f)
    BY <1>1, <1>14, <1>18, <2>1, <2>3 DEF IsNearest, A
  <2>. QED BY <2>4, <2>8, <2>9
<1>. QED BY <1>17, <1>18

\* The tables by themselves.
SymbolSpec == SymbolInit /\ [][SymbolNext]_symtab

Symbols(B) == [address : B, size : Nat]

Ascending(t) == \A j \in 1..(Len(t) - 1) : t[j].address <= t[j + 1].address

Image == TextAddress \cup DataAddress

\* The tables of an image: sorted, the functions before the objects, and STACK_SIZE the
\* first of the general symbols.
Tables(f, o, g) ==
  /\ symtab = [function |-> f, object |-> o, general |-> g]
  /\ Ascending(f) /\ Ascending(o) /\ Ascending(g)
  /\ Len(o) >= 1 /\ Len(g) >= 1 /\ g[1].address = STACK_SIZE

SymbolInv ==
  symtab # NoTables =>
    \E f \in Seq(Symbols(TextAddress)), o \in Seq(Symbols(DataAddress)),
       g \in Seq(Symbols(Image \cup {STACK_SIZE})) : Tables(f, o, g)

\* STACK_SIZE lies before everything else.
LEMMA StackSizeIsFirst ==
  /\ STACK_SIZE \in Nat \ {0} /\ Min(TextAddress) \in Image
  /\ \A a \in Image : a \in Nat \ {0} /\ STACK_SIZE < a
  /\ Image \in SUBSET Nat /\ Image \cup {STACK_SIZE} \in SUBSET Nat
<1>1. Min(TextAddress) \in TextAddress
  <2>1. TextAddress \in SUBSET Nat /\ TextAddress # {}
    BY SymbolAssumption
  <2>. QED BY <2>1, MinIsLeast, Zenon
<1>2. STACK_SIZE \in Nat \ {0} /\ \A a \in Image : a \in Nat /\ STACK_SIZE < a
  BY SymbolAssumption DEF Image
<1>. HIDE DEF Min
<1>. QED BY <1>1, <1>2 DEF Image

\* Although the comparison cuts its difference off, it orders the symbols by address.
LEMMA ComparesRight ==
  ASSUME NEW x \in Symbols(Image \cup {STACK_SIZE}), NEW y \in Symbols(Image \cup {STACK_SIZE}),
         os_symtab_item_cmpfunc(x, y) <= 0
  PROVE  x.address <= y.address
<1>1. PICK a, b : a = x.address /\ b = y.address /\ a \in Image \cup {STACK_SIZE} /\ b \in Image \cup {STACK_SIZE}
  BY DEF Symbols
<1>2. os_symtab_item_cmpfunc(x, y) = ((a - b + IntHalf) % (2 * IntHalf)) - IntHalf
  BY <1>1 DEF os_symtab_item_cmpfunc
<1>3. CASE a = STACK_SIZE
  <2>1. STACK_SIZE \in Nat /\ (b \in Image => b \in Nat /\ STACK_SIZE < b)
    BY StackSizeIsFirst, Zenon
  <2>2. a <= b
    BY <1>1, <1>3, <2>1
  <2>. QED BY <1>1, <2>2
<1>4. CASE a \in Image /\ b = STACK_SIZE
  <2>1. os_symtab_item_cmpfunc([address |-> a], [address |-> STACK_SIZE]) > 0
    BY <1>4, SymbolAssumption, Zenon DEF Image
  <2>2. os_symtab_item_cmpfunc([address |-> a], [address |-> STACK_SIZE]) = os_symtab_item_cmpfunc(x, y)
    BY <1>2, <1>4 DEF os_symtab_item_cmpfunc
  <2>3. PICK c \in Int : c = os_symtab_item_cmpfunc(x, y)
    <3>1. a \in Nat /\ b \in Nat /\ IntHalf \in Nat \ {0}
      BY <1>1, StackSizeIsFirst, SymbolAssumption
    <3>. QED BY <1>2, <3>1
  <2>. QED BY <2>1, <2>2, <2>3
<1>5. CASE a \in Image /\ b \in Image
  <2>1. a \in Nat /\ b \in Nat /\ IntHalf \in Nat \ {0} /\ a - b < IntHalf /\ b - a < IntHalf
    BY <1>5, StackSizeIsFirst, SymbolAssumption DEF Image
  <2>2. PICK d \in Nat, m \in Nat \ {0} : d = a - b + IntHalf /\ m = 2 * IntHalf /\ d < m
    BY <2>1
  <2>3. d % m = d
    <3>1. (m * 0 + d) % m = d
      BY <2>2, DivModOf
    <3>. QED BY <2>2, <3>1
  <2>. QED BY <1>1, <1>2, <2>1, <2>2, <2>3
<1>. QED BY <1>1, <1>3, <1>4, <1>5

\* A symbol inserted in order keeps a table one, and the first address if nothing is less.
LEMMA InsertedInOrder ==
  ASSUME NEW B \in SUBSET Nat, NEW s \in Seq(Symbols(B)), NEW x \in Symbols(B),
         NEW i \in 1..(Len(s) + 1), B \subseteq Image \cup {STACK_SIZE},
         \A j \in 1..(Len(InsertAt(s, i, x)) - 1) :
           os_symtab_item_cmpfunc(InsertAt(s, i, x)[j], InsertAt(s, i, x)[j + 1]) <= 0
  PROVE  /\ InsertAt(s, i, x) \in Seq(Symbols(B)) /\ Len(InsertAt(s, i, x)) = Len(s) + 1
         /\ Ascending(InsertAt(s, i, x))
         /\ Len(s) >= 1 /\ s[1].address <= x.address => InsertAt(s, i, x)[1].address = s[1].address
<1>1. PICK t : t = InsertAt(s, i, x)
  OBVIOUS
<1>2. t \in Seq(Symbols(B)) /\ Inserted(s, i - 1, x, t)
  <2>. HIDE DEF Symbols
  <2>. QED BY <1>1, InsertAtInserts
<1>3. PICK n \in Nat : n = Len(s)
  OBVIOUS
<1>4. /\ DOMAIN t = 1..(n + 1)
      /\ \A j \in 1..(n + 1) : t[j] = IF j <= i - 1 THEN s[j] ELSE IF j = i - 1 + 1 THEN x ELSE s[j - 1]
  BY <1>2, <1>3 DEF Inserted
<1>5. Len(t) = n + 1
  BY <1>2, <1>4
<1>6. Ascending(t)
  <2>. SUFFICES ASSUME NEW j \in 1..(Len(t) - 1) PROVE t[j].address <= t[j + 1].address
    BY DEF Ascending
  <2>1. j \in 1..Len(t) /\ j + 1 \in 1..Len(t)
    BY <1>5
  <2>2. t[j] \in Symbols(B) /\ t[j + 1] \in Symbols(B)
    <3>. HIDE DEF Symbols
    <3>. QED BY <1>2, <2>1
  <2>3. t[j] \in Symbols(Image \cup {STACK_SIZE}) /\ t[j + 1] \in Symbols(Image \cup {STACK_SIZE})
    BY <2>2 DEF Symbols
  <2>4. os_symtab_item_cmpfunc(t[j], t[j + 1]) <= 0
    BY <1>1
  <2>. QED BY <2>3, <2>4, ComparesRight
<1>7. ASSUME n >= 1, s[1].address <= x.address PROVE t[1].address = s[1].address
  <2>1. CASE i = 1
    <3>1. t[1] = x /\ t[2] = s[1]
      BY <1>4, <1>7, <2>1
    <3>2. t[1].address <= t[1 + 1].address
      <4>1. 1 \in 1..(Len(t) - 1) /\ Ascending(t)
        BY <1>5, <1>7, <1>6
      <4>. QED BY <4>1 DEF Ascending
    <3>3. x.address \in Nat /\ s[1].address \in Nat
      <4>1. s[1] \in Symbols(B)
        BY <1>3, <1>7
      <4>. QED BY <4>1 DEF Symbols
    <3>. QED BY <1>7, <3>1, <3>2, <3>3
  <2>2. CASE i # 1
    <3>1. t[1] = s[1]
      BY <1>3, <1>4, <1>7, <2>2
    <3>. QED BY <3>1
  <2>. QED BY <2>1, <2>2
<1>. QED BY <1>1, <1>2, <1>3, <1>5, <1>7, <1>6

\* Every step leaves the tables as they should be.
LEMMA SymbolNextInv == SymbolInv /\ [SymbolNext]_symtab => SymbolInv'
<1>. SUFFICES ASSUME SymbolInv, [SymbolNext]_symtab, symtab' # NoTables
              PROVE  \E f \in Seq(Symbols(TextAddress)), o \in Seq(Symbols(DataAddress)),
                        g \in Seq(Symbols(Image \cup {STACK_SIZE})) : Tables(f, o, g)'
  BY DEF SymbolInv
<1>1. CASE UNCHANGED symtab
  BY <1>1 DEF SymbolInv, Tables
<1>2. ASSUME NEW s \in SymbolAt(DataAddress), CreateTables(s)
      PROVE  \E f \in Seq(Symbols(TextAddress)), o \in Seq(Symbols(DataAddress)),
                g \in Seq(Symbols(Image \cup {STACK_SIZE})) : Tables(f, o, g)'
  <2>1. PICK stack, entry : /\ stack = stack_size /\ stack = [address |-> STACK_SIZE, size |-> 0]
                            /\ entry = start /\ entry = [address |-> Min(TextAddress), size |-> 0]
    BY DEF stack_size, start
  <2>2. /\ stack \in Symbols(Image \cup {STACK_SIZE}) /\ entry \in Symbols(Image \cup {STACK_SIZE})
        /\ s \in Symbols(DataAddress) /\ stack.address <= entry.address
    <3>1. Min(TextAddress) \in Image /\ STACK_SIZE \in Nat
          /\ Min(TextAddress) \in Nat /\ STACK_SIZE < Min(TextAddress)
      BY StackSizeIsFirst, Zenon
    <3>2. s \in Symbols(DataAddress)
      BY SymbolAssumption DEF Symbols, SymbolAt
    <3>. HIDE DEF Min
    <3>. QED BY <2>1, <3>1, <3>2 DEF Symbols
  <2>3. /\ <<>> \in Seq(Symbols(TextAddress)) /\ <<s>> \in Seq(Symbols(DataAddress))
        /\ <<stack, entry>> \in Seq(Symbols(Image \cup {STACK_SIZE}))
    <3>. HIDE DEF Symbols
    <3>. QED BY <2>2
  <2>4. symtab' = [function |-> <<>>, object |-> <<s>>, general |-> <<stack, entry>>]
    BY <1>2, <2>1 DEF CreateTables
  <2>5. Ascending(<<>>) /\ Ascending(<<s>>) /\ Ascending(<<stack, entry>>)
    BY <2>2 DEF Ascending
  <2>6. Len(<<s>>) >= 1 /\ Len(<<stack, entry>>) >= 1 /\ <<stack, entry>>[1].address = STACK_SIZE
    BY <2>1
  <2>7. Tables(<<>>, <<s>>, <<stack, entry>>)'
    BY <2>4, <2>5, <2>6 DEF Tables
  <2>. HIDE DEF Tables
  <2>. QED BY <2>3, <2>7, Zenon
<1>3. ASSUME NEW kind \in {"function", "object", "general"}, NEW x,
             x \in Symbols(IF kind = "function" THEN TextAddress
                           ELSE IF kind = "object" THEN DataAddress
                           ELSE Image),
             AddSymbol(kind, x)
      PROVE  \E f \in Seq(Symbols(TextAddress)), o \in Seq(Symbols(DataAddress)),
                g \in Seq(Symbols(Image \cup {STACK_SIZE})) : Tables(f, o, g)'
  <2>1. PICK f \in Seq(Symbols(TextAddress)), o \in Seq(Symbols(DataAddress)),
             g \in Seq(Symbols(Image \cup {STACK_SIZE})) : Tables(f, o, g)
    BY <1>3 DEF SymbolInv, AddSymbol
  <2>2. /\ symtab = [function |-> f, object |-> o, general |-> g]
        /\ Ascending(f) /\ Ascending(o) /\ Ascending(g)
        /\ Len(o) >= 1 /\ Len(g) >= 1 /\ g[1].address = STACK_SIZE
    BY <2>1 DEF Tables
  <2>3. PICK i \in 1..(Len(symtab[kind]) + 1) :
          /\ \A j \in 1..(Len(InsertAt(symtab[kind], i, x)) - 1) :
               os_symtab_item_cmpfunc(InsertAt(symtab[kind], i, x)[j], InsertAt(symtab[kind], i, x)[j + 1]) <= 0
          /\ symtab' = [symtab EXCEPT ![kind] = InsertAt(symtab[kind], i, x)]
    BY <1>3, Zenon DEF AddSymbol
  <2>4. PICK t : t = InsertAt(symtab[kind], i, x)
    OBVIOUS
  <2>5. /\ TextAddress \in SUBSET Nat /\ DataAddress \in SUBSET Nat
        /\ TextAddress \subseteq Image \cup {STACK_SIZE} /\ DataAddress \subseteq Image \cup {STACK_SIZE}
        /\ Image \cup {STACK_SIZE} \in SUBSET Nat
    BY StackSizeIsFirst DEF Image
  <2>6. CASE kind = "function"
    <3>1. symtab[kind] = f /\ x \in Symbols(TextAddress)
      BY <1>3, <2>2, <2>6
    <3>2. t \in Seq(Symbols(TextAddress)) /\ Ascending(t)
      BY <2>3, <2>4, <2>5, <3>1, InsertedInOrder
    <3>3. symtab' = [function |-> t, object |-> o, general |-> g]
      BY <2>2, <2>3, <2>4, <2>6
    <3>4. Tables(t, o, g)'
      BY <2>2, <3>2, <3>3 DEF Tables
    <3>. HIDE DEF Tables
    <3>. QED BY <2>1, <3>2, <3>4, Zenon
  <2>7. CASE kind = "object"
    <3>1. symtab[kind] = o /\ x \in Symbols(DataAddress)
      BY <1>3, <2>2, <2>7
    <3>2. t \in Seq(Symbols(DataAddress)) /\ Ascending(t) /\ Len(t) = Len(o) + 1
      <4>1. /\ o \in Seq(Symbols(DataAddress)) /\ i \in 1..(Len(o) + 1) /\ t = InsertAt(o, i, x)
            /\ \A j \in 1..(Len(InsertAt(o, i, x)) - 1) :
                 os_symtab_item_cmpfunc(InsertAt(o, i, x)[j], InsertAt(o, i, x)[j + 1]) <= 0
        BY <2>1, <2>3, <2>4, <3>1
      <4>. QED BY <2>5, <3>1, <4>1, InsertedInOrder
    <3>3. symtab' = [function |-> f, object |-> t, general |-> g]
      BY <2>2, <2>3, <2>4, <2>7
    <3>4. Tables(f, t, g)'
      BY <2>1, <2>2, <3>2, <3>3 DEF Tables
    <3>. HIDE DEF Tables
    <3>. QED BY <2>1, <3>2, <3>4, Zenon
  <2>8. CASE kind = "general"
    <3>1. symtab[kind] = g /\ x \in Symbols(Image)
      BY <1>3, <2>2, <2>8
    <3>2. x \in Symbols(Image \cup {STACK_SIZE})
      BY <3>1 DEF Symbols
    <3>3. g[1].address <= x.address
      <4>1. x.address \in Image
        BY <3>1 DEF Symbols
      <4>2. x.address \in Nat /\ STACK_SIZE \in Nat /\ STACK_SIZE < x.address
        BY <4>1, StackSizeIsFirst, Zenon
      <4>. QED BY <2>2, <4>2
    <3>4. /\ t \in Seq(Symbols(Image \cup {STACK_SIZE})) /\ Ascending(t)
          /\ Len(t) = Len(g) + 1 /\ t[1].address = g[1].address
      <4>1. PICK B \in SUBSET Nat : B = Image \cup {STACK_SIZE}
        BY <2>5
      <4>2. /\ g \in Seq(Symbols(B)) /\ x \in Symbols(B) /\ i \in 1..(Len(g) + 1) /\ t = InsertAt(g, i, x)
            /\ B \subseteq Image \cup {STACK_SIZE}
            /\ \A j \in 1..(Len(InsertAt(g, i, x)) - 1) :
                 os_symtab_item_cmpfunc(InsertAt(g, i, x)[j], InsertAt(g, i, x)[j + 1]) <= 0
        BY <2>1, <2>3, <2>4, <3>1, <3>2, <4>1
      <4>3. /\ t \in Seq(Symbols(B)) /\ Len(t) = Len(g) + 1 /\ Ascending(t)
            /\ Len(g) >= 1 /\ g[1].address <= x.address => t[1].address = g[1].address
        BY <4>2, InsertedInOrder
      <4>. QED BY <2>2, <3>3, <4>1, <4>2, <4>3
    <3>5. symtab' = [function |-> f, object |-> o, general |-> t]
      BY <2>2, <2>3, <2>4, <2>8
    <3>6. Tables(f, o, t)'
      BY <2>1, <2>2, <3>4, <3>5 DEF Tables
    <3>. HIDE DEF Tables
    <3>. QED BY <2>1, <3>4, <3>6, Zenon
  <2>. QED BY <1>3, <2>6, <2>7, <2>8
<1>4. \A B : \A x \in SymbolAt(B) : x \in Symbols(B)
  BY SymbolAssumption DEF SymbolAt, Symbols
<1>5. CASE SymbolNext
  <2>1. CASE \E s \in SymbolAt(DataAddress) : CreateTables(s) \/ AddSymbol("object", s)
    <3>1. PICK s \in SymbolAt(DataAddress) : CreateTables(s) \/ AddSymbol("object", s)
      BY <2>1
    <3>2. s \in Symbols(DataAddress)
      BY <1>4
    <3>. QED BY <1>2, <1>3, <3>1, <3>2
  <2>2. CASE \E s \in SymbolAt(TextAddress) : AddSymbol("function", s)
    <3>1. PICK s \in SymbolAt(TextAddress) : AddSymbol("function", s)
      BY <2>2
    <3>2. s \in Symbols(TextAddress)
      BY <1>4
    <3>. QED BY <1>3, <3>1, <3>2
  <2>3. CASE \E s \in SymbolAt(TextAddress \cup DataAddress) : s.size = 0 /\ AddSymbol("general", s)
    <3>1. PICK s \in SymbolAt(TextAddress \cup DataAddress) : AddSymbol("general", s)
      BY <2>3
    <3>2. s \in Symbols(Image)
      BY <1>4, <3>1 DEF Image
    <3>. QED BY <1>3, <3>1, <3>2
  <2>. QED BY <1>5, <2>1, <2>2, <2>3 DEF SymbolNext
<1>. QED BY <1>1, <1>5

LEMMA AscendingAll ==
  ASSUME NEW B \in SUBSET Nat, NEW t \in Seq(Symbols(B)), Ascending(t)
  PROVE  /\ \A i \in 1..Len(t) : t[i].address \in B
         /\ \A i, j \in 1..Len(t) : i <= j => t[i].address <= t[j].address
<1>1. PICK n \in Nat : n = Len(t)
  OBVIOUS
<1>2. \A i \in 1..n : t[i].address \in B
  <2>. SUFFICES ASSUME NEW i \in 1..n PROVE t[i].address \in B
    OBVIOUS
  <2>1. t[i] \in Symbols(B)
    BY <1>1
  <2>. QED BY <2>1 DEF Symbols
<1>3. \A i \in 1..n : t[i].address \in Nat
  <2>1. \A a \in B : a \in Nat
    OBVIOUS
  <2>. QED BY <1>2, <2>1
<1>4. ASSUME NEW i \in 1..n, NEW j \in i..n PROVE t[i].address <= t[j].address
  <2>. DEFINE S == {k \in i..n : t[i].address <= t[k].address}
  <2>1. i \in S
    BY <1>3
  <2>2. ASSUME NEW k \in i..(n - 1), k \in S PROVE k + 1 \in S
    <3>1. t[k].address <= t[k + 1].address
      <4>1. k \in 1..(Len(t) - 1)
        BY <1>1
      <4>. QED BY <4>1 DEF Ascending
    <3>2. t[i].address \in Nat /\ t[k].address \in Nat /\ t[k + 1].address \in Nat
      BY <1>3
    <3>. QED BY <2>2, <3>1, <3>2
  <2>3. \A k \in i..n : k \in S
    <3>. HIDE DEF S
    <3>1. i \in Nat
      OBVIOUS
    <3>. QED BY <2>1, <2>2, <3>1, UpTo
  <2>. QED BY <2>3
<1>. QED BY <1>1, <1>2, <1>4

\* The tables of an image are what the search expects, and nothing lies before STACK_SIZE.
LEMMA TablesSorted ==
  ASSUME SymbolInv, symtab # NoTables
  PROVE  /\ DOMAIN symtab = {"function", "object", "general"}
         /\ \A kind \in DOMAIN symtab :
              /\ SortedTable(kind)
              /\ \A i \in 0..(Len(symtab[kind]) - 1) : STACK_SIZE <= SymAddress(kind, i)
         /\ Len(symtab["general"]) >= 1 /\ SymAddress("general", 0) = STACK_SIZE
<1>1. PICK f \in Seq(Symbols(TextAddress)), o \in Seq(Symbols(DataAddress)),
           g \in Seq(Symbols(Image \cup {STACK_SIZE})) : Tables(f, o, g)
  BY DEF SymbolInv
<1>2. /\ symtab = [function |-> f, object |-> o, general |-> g]
      /\ Ascending(f) /\ Ascending(o) /\ Ascending(g)
      /\ Len(o) >= 1 /\ Len(g) >= 1 /\ g[1].address = STACK_SIZE
  BY <1>1 DEF Tables
<1>3. symtab["function"] = f /\ symtab["object"] = o /\ symtab["general"] = g
  BY <1>2
<1>4. PICK m \in Nat : m = STACK_SIZE /\ m # 0
  BY StackSizeIsFirst
<1>5. \A a \in Image \cup {STACK_SIZE} : a \in Nat /\ a >= m
  BY <1>4, StackSizeIsFirst
<1>6. /\ \A a \in TextAddress : a \in Nat /\ a >= m
      /\ \A a \in DataAddress : a \in Nat /\ a > m /\ \A b \in TextAddress : b < a
  BY <1>4, StackSizeIsFirst, SymbolAssumption DEF Image
<1>7. /\ TextAddress \in SUBSET Nat /\ DataAddress \in SUBSET Nat
      /\ Image \cup {STACK_SIZE} \in SUBSET Nat
  BY StackSizeIsFirst DEF Image
<1>8. \A i \in 1..Len(f) : f[i].address \in TextAddress
  BY <1>2, <1>7, AscendingAll
<1>9. \A i \in 1..Len(o) : o[i].address \in DataAddress
  BY <1>2, <1>7, AscendingAll
<1>10. \A i \in 1..Len(g) : g[i].address \in Image \cup {STACK_SIZE}
  BY <1>2, <1>7, AscendingAll
<1>11. /\ \A i, j \in 1..Len(f) : i <= j => f[i].address <= f[j].address
       /\ \A i, j \in 1..Len(o) : i <= j => o[i].address <= o[j].address
       /\ \A i, j \in 1..Len(g) : i <= j => g[i].address <= g[j].address
  <2>1. \A i, j \in 1..Len(f) : i <= j => f[i].address <= f[j].address
    BY <1>2, <1>7, AscendingAll
  <2>2. \A i, j \in 1..Len(o) : i <= j => o[i].address <= o[j].address
    BY <1>2, <1>7, AscendingAll
  <2>3. \A i, j \in 1..Len(g) : i <= j => g[i].address <= g[j].address
    BY <1>2, <1>7, AscendingAll
  <2>. QED BY <2>1, <2>2, <2>3
<1>12. Len(f) \in Nat /\ Len(o) \in Nat /\ Len(g) \in Nat
  OBVIOUS
<1>13. SymAddress("general", 0) = m
  BY <1>2, <1>3, <1>4 DEF SymAddress
<1>14. Before("function") = 0
  BY DEF Before, HeaderWord
<1>15. Before("object") \in Nat /\ Before("object") # o[1].address
  <2>1. o[1].address \in DataAddress
    BY <1>2, <1>9, <1>12
  <2>2. CASE f = <<>>
    <3>1. Before("object") = 0
      BY <1>3, <2>2 DEF Before, HeaderWord
    <3>. QED BY <1>6, <2>1, <3>1
  <2>3. CASE f # <<>>
    <3>1. Before("object") = f[Len(f)].address
      BY <1>3, <2>3 DEF Before, Last
    <3>2. Len(f) \in 1..Len(f)
      BY <1>12, <2>3
    <3>3. f[Len(f)].address \in TextAddress
      BY <1>8, <3>2
    <3>4. f[Len(f)].address < o[1].address /\ f[Len(f)].address \in Nat /\ o[1].address \in Nat
      BY <1>6, <2>1, <3>3
    <3>. QED BY <3>1, <3>4
  <2>. QED BY <2>2, <2>3
<1>16. Before("general") \in Nat /\ Before("general") # g[1].address
  <2>1. Before("general") = o[Len(o)].address
    BY <1>3 DEF Before, Last
  <2>2. o[Len(o)].address \in DataAddress
    BY <1>2, <1>9, <1>12
  <2>. QED BY <1>2, <1>4, <1>6, <2>1, <2>2
<1>17. ASSUME NEW kind, NEW t, t = symtab[kind], Len(t) \in Nat,
              \A i \in 1..Len(t) : t[i].address \in Nat /\ t[i].address >= m,
              \A i, j \in 1..Len(t) : i <= j => t[i].address <= t[j].address,
              Before(kind) \in Nat, Len(t) > 0 => Before(kind) # t[1].address
       PROVE  /\ SortedTable(kind)
              /\ \A i \in 0..(Len(symtab[kind]) - 1) : m <= SymAddress(kind, i)
  <2>1. PICK n \in Nat : n = Len(t)
    BY <1>17
  <2>2. SymAddress(kind, -1) = Before(kind)
    BY DEF SymAddress
  <2>3. \A i \in 0..(n - 1) : SymAddress(kind, i) = t[i + 1].address /\ i + 1 \in 1..n
    BY <1>17 DEF SymAddress
  <2>4. \A i \in 0..(n - 1) : SymAddress(kind, i) \in Nat /\ m <= SymAddress(kind, i)
    BY <1>17, <2>1, <2>3
  <2>5. \A i, j \in 0..(n - 1) : i <= j => SymAddress(kind, i) <= SymAddress(kind, j)
    <3>. SUFFICES ASSUME NEW i \in 0..(n - 1), NEW j \in 0..(n - 1), i <= j
                  PROVE  SymAddress(kind, i) <= SymAddress(kind, j)
      OBVIOUS
    <3>1. i + 1 \in 1..Len(t) /\ j + 1 \in 1..Len(t) /\ i + 1 <= j + 1
      BY <2>1
    <3>2. t[i + 1].address <= t[j + 1].address
      BY <1>17, <3>1
    <3>. QED BY <2>3, <3>2
  <2>6. n > 0 => SymAddress(kind, -1) # SymAddress(kind, 0)
    BY <1>17, <2>1, <2>2, <2>3
  <2>7. \A i \in -1..(n - 1) : SymAddress(kind, i) \in Nat
    <3>. SUFFICES ASSUME NEW i \in -1..(n - 1) PROVE SymAddress(kind, i) \in Nat
      OBVIOUS
    <3>1. i = -1 \/ i \in 0..(n - 1)
      OBVIOUS
    <3>. QED BY <1>17, <2>2, <2>4, <3>1
  <2>. QED BY <1>17, <2>1, <2>4, <2>5, <2>6, <2>7 DEF SortedTable
<1>18. /\ SortedTable("function")
       /\ \A i \in 0..(Len(symtab["function"]) - 1) : m <= SymAddress("function", i)
  <2>1. \A i \in 1..Len(f) : f[i].address \in Nat /\ f[i].address >= m
    BY <1>6, <1>8
  <2>2. Len(f) > 0 => 0 # f[1].address
    BY <1>4, <1>12, <2>1
  <2>. QED BY <1>3, <1>11, <1>12, <1>14, <1>17, <2>1, <2>2
<1>19. /\ SortedTable("object")
       /\ \A i \in 0..(Len(symtab["object"]) - 1) : m <= SymAddress("object", i)
  <2>1. \A i \in 1..Len(o) : o[i].address \in Nat /\ o[i].address >= m
    BY <1>6, <1>9
  <2>. QED BY <1>3, <1>11, <1>12, <1>15, <1>17, <2>1
<1>20. /\ SortedTable("general")
       /\ \A i \in 0..(Len(symtab["general"]) - 1) : m <= SymAddress("general", i)
  <2>1. \A i \in 1..Len(g) : g[i].address \in Nat /\ g[i].address >= m
    BY <1>5, <1>10
  <2>. QED BY <1>3, <1>11, <1>12, <1>16, <1>17, <2>1
<1>21. DOMAIN symtab = {"function", "object", "general"}
  BY <1>2
<1>. QED BY <1>2, <1>3, <1>4, <1>13, <1>18, <1>19, <1>20, <1>21

\* What one table gives to a dump: at most one symbol, at or before the address, and a
\* function or object only if the address lies in it; it does give one that the address
\* lies in and that is the only nearest; and of the general symbols one for every address
\* from STACK_SIZE on.
LEMMA MatchesAre ==
  ASSUME SymbolInv, symtab # NoTables, NEW kind \in DOMAIN symtab, NEW address \in Nat
  PROVE  /\ \/ Matches(kind, address) = <<>>
            \/ \E i \in 0..(Len(symtab[kind]) - 1) :
                 /\ Matches(kind, address) = <<<<kind, i>>>>
                 /\ SymAddress(kind, i) <= address /\ address >= STACK_SIZE
                 /\ kind # "general" => LiesIn(kind, i, address)
         /\ kind = "general" /\ address >= STACK_SIZE => Matches(kind, address) # <<>>
         /\ \A i \in 0..(Len(symtab[kind]) - 1) :
              LiesIn(kind, i, address) /\ OnlyNearest(kind, i, address) =>
                Matches(kind, address) = <<<<kind, i>>>>
<1>1. PICK n \in Nat : n = Len(symtab[kind])
  BY TablesSorted DEF SortedTable
<1>2. /\ \A i \in 0..(n - 1) : SymAddress(kind, i) \in Nat
      /\ \A i \in 0..(n - 1) : STACK_SIZE <= SymAddress(kind, i)
  BY <1>1, TablesSorted DEF SortedTable
<1>3. PICK r : r = find_symbol_table(kind, address)
  OBVIOUS
<1>4. IsNearest(kind, address, r)
  BY <1>3, SearchFinds, TablesSorted
<1>5. /\ r \in -1..(n - 1)
      /\ r = -1 => \A j \in 0..(n - 1) : SymAddress(kind, j) > address
      /\ r # -1 => /\ SymAddress(kind, r) <= address
                   /\ \A j \in 0..(n - 1) :
                        SymAddress(kind, j) <= address => SymAddress(kind, j) <= SymAddress(kind, r)
  BY <1>1, <1>4 DEF IsNearest
<1>6. STACK_SIZE \in Nat
  BY SymbolAssumption
<1>7. CASE r = -1
  <2>1. Matches(kind, address) = <<>>
    BY <1>3, <1>7 DEF Matches
  <2>2. ASSUME kind = "general" PROVE ~(address >= STACK_SIZE)
    <3>1. n >= 1 /\ SymAddress("general", 0) = STACK_SIZE
      BY <1>1, <2>2, TablesSorted
    <3>2. 0 \in 0..(n - 1)
      BY <3>1
    <3>3. STACK_SIZE > address
      BY <1>5, <1>7, <2>2, <3>1, <3>2
    <3>. QED BY <1>6, <3>3
  <2>3. ASSUME NEW i \in 0..(n - 1) PROVE ~LiesIn(kind, i, address)
    BY <1>2, <1>5, <1>7 DEF LiesIn
  <2>. QED BY <1>1, <2>1, <2>2, <2>3
<1>8. CASE r # -1
  <2>1. r \in 0..(n - 1) /\ ~(r < 0)
    BY <1>5, <1>8
  <2>2. Matches(kind, address) =
          IF kind = "general" \/ symtab[kind][r + 1].address + symtab[kind][r + 1].size > address
          THEN <<<<kind, r>>>> ELSE <<>>
    BY <1>3, <2>1 DEF Matches
  <2>3. SymAddress(kind, r) <= address /\ address >= STACK_SIZE
    BY <1>2, <1>5, <1>6, <1>8, <2>1
  <2>4. <<<<kind, r>>>> # <<>>
    OBVIOUS
  <2>5. SymAddress(kind, r) = symtab[kind][r + 1].address
    BY <2>1 DEF SymAddress
  <2>6. LiesIn(kind, r, address) <=> symtab[kind][r + 1].address + symtab[kind][r + 1].size > address
    <3>1. PICK size : size = symtab[kind][r + 1].size
      OBVIOUS
    <3>2. SymAddress(kind, r) + size > address <=> address < SymAddress(kind, r) + size
      OBVIOUS
    <3>. QED BY <2>3, <2>5, <3>1, <3>2 DEF LiesIn
  <2>7. ASSUME NEW i \in 0..(n - 1), LiesIn(kind, i, address), OnlyNearest(kind, i, address)
        PROVE  i = r
    <3>1. SymAddress(kind, i) <= address
      BY <2>7 DEF LiesIn
    <3>2. SymAddress(kind, i) <= SymAddress(kind, r)
      BY <1>5, <1>8, <3>1
    <3>3. r # i => SymAddress(kind, r) < SymAddress(kind, i) \/ address < SymAddress(kind, r)
      BY <1>1, <2>1, <2>7 DEF OnlyNearest
    <3>. QED BY <1>2, <2>1, <2>3, <3>2, <3>3
  <2>8. \A i \in 0..(n - 1) : LiesIn(kind, i, address) /\ OnlyNearest(kind, i, address) =>
          Matches(kind, address) = <<<<kind, i>>>>
    BY <2>2, <2>6, <2>7
  <2>9. CASE kind = "general" \/ LiesIn(kind, r, address)
    BY <1>1, <2>1, <2>2, <2>3, <2>4, <2>6, <2>8, <2>9
  <2>10. CASE ~(kind = "general" \/ LiesIn(kind, r, address))
    BY <1>1, <2>2, <2>6, <2>8, <2>10
  <2>. QED BY <2>9, <2>10
<1>. QED BY <1>7, <1>8

\* What a dump prints of two tables is what it prints of each.
LEMMA NamedByBoth ==
  ASSUME NEW s, NEW t, s = <<>> \/ \E x : s = <<x>>, t = <<>> \/ \E y : t = <<y>>
  PROVE  ToSet(s \o t) = ToSet(s) \cup ToSet(t)
<1>1. CASE s = <<>> /\ t = <<>>
  BY <1>1 DEF ToSet
<1>2. ASSUME NEW x, s = <<x>>, t = <<>> PROVE ToSet(s \o t) = ToSet(s) \cup ToSet(t)
  <2>1. s \o t = <<x>>
    BY <1>2
  <2>. QED BY <1>2, <2>1 DEF ToSet
<1>3. ASSUME NEW y, s = <<>>, t = <<y>> PROVE ToSet(s \o t) = ToSet(s) \cup ToSet(t)
  <2>1. s \o t = <<y>>
    BY <1>3
  <2>. QED BY <1>3, <2>1 DEF ToSet
<1>4. ASSUME NEW x, NEW y, s = <<x>>, t = <<y>> PROVE ToSet(s \o t) = ToSet(s) \cup ToSet(t)
  <2>. DEFINE S == {x, y}
  <2>1. s \in Seq(S) /\ t \in Seq(S) /\ Len(s) = 1 /\ Len(t) = 1 /\ s[1] = x /\ t[1] = y
    BY <1>4
  <2>2. /\ DOMAIN (s \o t) = 1..(1 + 1)
        /\ \A j \in 1..(1 + 1) : (s \o t)[j] = IF j <= 1 THEN s[j] ELSE t[j - 1]
    <3>. HIDE DEF S
    <3>1. Joined(S, s, t, s \o t)
      BY <2>1, ConcatPositions
    <3>. QED BY <2>1, <3>1 DEF Joined
  <2>3. DOMAIN (s \o t) = {1, 2} /\ (s \o t)[1] = x /\ (s \o t)[2] = y
    BY <2>1, <2>2
  <2>4. ToSet(s \o t) = {x, y}
    BY <2>3 DEF ToSet
  <2>5. ToSet(s) = {x}
    BY <1>4 DEF ToSet
  <2>6. ToSet(t) = {y}
    BY <1>4 DEF ToSet
  <2>. QED BY <2>4, <2>5, <2>6
<1>. QED BY <1>1, <1>2, <1>3, <1>4

\* What a dump says of one address.
NamedRight(address, function, named) ==
  /\ named # {} <=> address >= STACK_SIZE
  /\ \A n \in named : IF n[1] = "general" THEN SymAddress(n[1], n[2]) <= address
                      ELSE LiesIn(n[1], n[2], address)
  /\ \A kind \in {"function", "object"} : \A i \in 0..(Len(symtab[kind]) - 1) :
       LiesIn(kind, i, address) /\ OnlyNearest(kind, i, address) =>
         IF kind = Asked(function) THEN named = {<<kind, i>>}
         ELSE <<kind, i>> \in named \/ \E n \in named : n[1] = Asked(function)

LEMMA DumpNames ==
  ASSUME SymbolInv, symtab # NoTables, NEW address \in Nat, NEW function \in BOOLEAN,
         NEW named, named = ToSet(print_symbol_info(address, function))
  PROVE  NamedRight(address, function, named)
<1>1. PICK first, last : /\ first = IF function THEN "function" ELSE "object"
                         /\ last = IF function THEN "object" ELSE "function"
  OBVIOUS
<1>2. /\ first \in DOMAIN symtab /\ last \in DOMAIN symtab /\ "general" \in DOMAIN symtab
      /\ first # "general" /\ last # "general" /\ first # last /\ first = Asked(function)
      /\ \A kind \in {"function", "object"} : kind = first \/ kind = last
  BY <1>1, TablesSorted DEF Asked
<1>3. PICK a, b, c : /\ a = Matches(first, address) /\ b = Matches("general", address)
                     /\ c = Matches(last, address)
  OBVIOUS
<1>4. /\ a = <<>> \/ \E i : a = <<<<first, i>>>> /\ LiesIn(first, i, address) /\ address >= STACK_SIZE
      /\ \A i \in 0..(Len(symtab[first]) - 1) :
           LiesIn(first, i, address) /\ OnlyNearest(first, i, address) => a = <<<<first, i>>>>
  BY <1>2, <1>3, MatchesAre
<1>5. /\ b = <<>> \/ \E i : /\ b = <<<<"general", i>>>> /\ SymAddress("general", i) <= address
                            /\ address >= STACK_SIZE
      /\ address >= STACK_SIZE => b # <<>>
  BY <1>2, <1>3, MatchesAre
<1>6. /\ c = <<>> \/ \E i : c = <<<<last, i>>>> /\ LiesIn(last, i, address) /\ address >= STACK_SIZE
      /\ \A i \in 0..(Len(symtab[last]) - 1) :
           LiesIn(last, i, address) /\ OnlyNearest(last, i, address) => c = <<<<last, i>>>>
  BY <1>2, <1>3, MatchesAre
<1>7. print_symbol_info(address, function) = IF a # <<>> THEN a ELSE b \o c
  BY <1>1, <1>3 DEF print_symbol_info
<1>8. CASE a # <<>>
  <2>1. PICK i : a = <<<<first, i>>>> /\ LiesIn(first, i, address) /\ address >= STACK_SIZE
    BY <1>4, <1>8
  <2>2. named = {<<first, i>>}
    BY <1>7, <1>8, <2>1 DEF ToSet
  <2>3. \A n \in named : n[1] = first /\ n[2] = i
    BY <2>2
  <2>4. \E n \in named : n[1] = first
    BY <2>2
  <2>5. ASSUME NEW k \in 0..(Len(symtab[first]) - 1),
               LiesIn(first, k, address), OnlyNearest(first, k, address)
        PROVE  named = {<<first, k>>}
    <3>1. <<<<first, i>>>> = <<<<first, k>>>>
      BY <1>4, <2>1, <2>5
    <3>2. <<<<first, i>>>>[1] = <<first, i>> /\ <<<<first, k>>>>[1] = <<first, k>>
      OBVIOUS
    <3>. QED BY <2>2, <3>1, <3>2
  <2>6. \A kind \in {"function", "object"} : \A k \in 0..(Len(symtab[kind]) - 1) :
          LiesIn(kind, k, address) /\ OnlyNearest(kind, k, address) =>
            IF kind = Asked(function) THEN named = {<<kind, k>>}
            ELSE <<kind, k>> \in named \/ \E n \in named : n[1] = Asked(function)
    BY <1>2, <2>4, <2>5, Zenon
  <2>7. named # {}
    BY <2>2
  <2>8. \A n \in named : n[1] # "general" /\ LiesIn(n[1], n[2], address)
    BY <1>2, <2>1, <2>3
  <2>. QED BY <2>1, <2>6, <2>7, <2>8 DEF NamedRight
<1>9. CASE a = <<>>
  <2>1. named = ToSet(b) \cup ToSet(c)
    BY <1>5, <1>6, <1>7, <1>9, NamedByBoth
  <2>2. b = <<>> => ToSet(b) = {}
    BY DEF ToSet
  <2>3. c = <<>> => ToSet(c) = {}
    BY DEF ToSet
  <2>4. ASSUME NEW i, b = <<<<"general", i>>>> PROVE ToSet(b) = {<<"general", i>>}
    BY <2>4 DEF ToSet
  <2>5. ASSUME NEW i, c = <<<<last, i>>>> PROVE ToSet(c) = {<<last, i>>}
    BY <2>5 DEF ToSet
  <2>6. \A n \in ToSet(b) : /\ n[1] = "general" /\ SymAddress(n[1], n[2]) <= address
                            /\ address >= STACK_SIZE
    BY <1>5, <2>2, <2>4
  <2>7. \A n \in ToSet(c) : /\ n[1] = last /\ LiesIn(n[1], n[2], address)
                            /\ address >= STACK_SIZE
    BY <1>6, <2>3, <2>5
  <2>8. address >= STACK_SIZE => ToSet(b) # {}
    BY <1>5, <2>4
  <2>9. ASSUME NEW kind \in {"function", "object"}, NEW i \in 0..(Len(symtab[kind]) - 1),
               LiesIn(kind, i, address), OnlyNearest(kind, i, address)
        PROVE  kind # Asked(function) /\ <<kind, i>> \in named
    <3>1. kind # first
      <4>. SUFFICES ASSUME kind = first PROVE FALSE
        OBVIOUS
      <4>1. a = <<<<first, i>>>>
        BY <1>4, <2>9
      <4>2. <<<<first, i>>>> # <<>>
        OBVIOUS
      <4>. QED BY <1>9, <4>1, <4>2
    <3>2. kind = last /\ c = <<<<last, i>>>>
      BY <1>2, <1>6, <2>9, <3>1
    <3>. QED BY <1>2, <2>1, <2>5, <3>1, <3>2
  <2>10. \A n \in named : IF n[1] = "general" THEN SymAddress(n[1], n[2]) <= address
                          ELSE LiesIn(n[1], n[2], address)
    BY <1>2, <2>1, <2>6, <2>7
  <2>11. named # {} <=> address >= STACK_SIZE
    BY <2>1, <2>6, <2>7, <2>8
  <2>. QED BY <2>9, <2>10, <2>11, Zenon DEF NamedRight
<1>. QED BY <1>8, <1>9

\* The tables are sorted by address although the comparison overflows; find_symbol_table
\* finds the nearest symbol in every one, among any number of symbols at one address and
\* whatever lies before the table; and print_symbol_info names every address from
\* STACK_SIZE on, by functions and objects it lies in only, and by the one it lies in if
\* that is the only nearest.
THEOREM DumpsNameAddresses == SymbolSpec => []DumpNamesAddresses
<1>1. SymbolInit => SymbolInv
  BY DEF SymbolInit, SymbolInv
<1>2. SymbolSpec => []SymbolInv
  BY <1>1, SymbolNextInv, PTL DEF SymbolSpec
<1>3. SymbolInv => DumpNamesAddresses
  <2>. SUFFICES ASSUME SymbolInv, symtab # NoTables, NEW address \in 0..(Max(DataAddress) + 1)
                PROVE  /\ \A kind \in DOMAIN symtab :
                            find_symbol_table(kind, address) = Nearest(kind, address)
                       /\ \A function \in BOOLEAN :
                            NamedRight(address, function, ToSet(print_symbol_info(address, function)))
    BY Zenon DEF DumpNamesAddresses, NamedRight
  <2>1. address \in Nat
    OBVIOUS
  <2>2. \A kind \in DOMAIN symtab : find_symbol_table(kind, address) = Nearest(kind, address)
    <3>1. \A kind \in DOMAIN symtab : SortedTable(kind)
      BY TablesSorted
    <3>. QED BY <2>1, <3>1, SearchFinds
  <2>3. ASSUME NEW function \in BOOLEAN
        PROVE  NamedRight(address, function, ToSet(print_symbol_info(address, function)))
    <3>1. PICK named : named = ToSet(print_symbol_info(address, function))
      OBVIOUS
    <3>2. NamedRight(address, function, named)
      BY <2>1, <3>1, DumpNames
    <3>. QED BY <3>1, <3>2, Zenon
  <2>. QED BY <2>2, <2>3
<1>. QED BY <1>2, <1>3, PTL
-----------------------------------------------------------------------------
(***************************************************************************)
(* Formatted output: powers, digits, and how a number is laid out.         *)
(***************************************************************************)

\* The recursion that defines powers.
IsPower(f, base, n) == f = [k \in 0..n |-> IF k = 0 THEN 1 ELSE base * f[k - 1]]

LEMMA PowersExist ==
  ASSUME NEW base \in Nat, NEW n \in Nat
  PROVE  \E f : IsPower(f, base, n)
<1>. DEFINE S == {m \in Nat : \E f : IsPower(f, base, m)}
<1>1. 0 \in S
  <2>1. PICK f : f = [k \in 0..0 |-> 1]
    OBVIOUS
  <2>2. f = [k \in 0..0 |-> IF k = 0 THEN 1 ELSE base * f[k - 1]]
    BY <2>1
  <2>. QED BY <2>2 DEF IsPower
<1>2. ASSUME NEW m \in Nat, m \in S PROVE m + 1 \in S
  <2>1. PICK f : f = [k \in 0..m |-> IF k = 0 THEN 1 ELSE base * f[k - 1]]
    BY <1>2 DEF IsPower
  <2>2. PICK h : h = [k \in 0..(m + 1) |-> IF k = 0 THEN 1 ELSE base * f[k - 1]]
    OBVIOUS
  <2>3. \A k \in 0..m : h[k] = f[k]
    BY <2>1, <2>2
  <2>4. \A k \in 0..(m + 1) : h[k] = IF k = 0 THEN 1 ELSE base * h[k - 1]
    <3>1. \A k \in 0..(m + 1) : k # 0 => k - 1 \in 0..m
      OBVIOUS
    <3>. QED BY <2>2, <2>3, <3>1
  <2>5. h = [k \in 0..(m + 1) |-> h[k]]
    BY <2>2
  <2>6. h = [k \in 0..(m + 1) |-> IF k = 0 THEN 1 ELSE base * h[k - 1]]
    BY <2>4, <2>5, Zenon
  <2>7. IsPower(h, base, m + 1)
    BY <2>6 DEF IsPower
  <2>. QED BY <2>7
<1>. HIDE DEF S
<1>3. n \in S
  BY <1>1, <1>2, SetInduction
<1>. QED BY <1>3 DEF S

\* It has one solution.
LEMMA PowersAgree ==
  ASSUME NEW base \in Nat, NEW n \in Nat, NEW m \in Nat, NEW f, IsPower(f, base, n),
         NEW h, IsPower(h, base, m), NEW k \in 0..n, k \in 0..m
  PROVE  f[k] = h[k]
<1>. DEFINE S == {j \in Nat : j <= n /\ j <= m => f[j] = h[j]}
<1>1. 0 \in S
  BY DEF IsPower
<1>2. ASSUME NEW j \in Nat, j \in S PROVE j + 1 \in S
  <2>. SUFFICES ASSUME j + 1 <= n, j + 1 <= m PROVE f[j + 1] = h[j + 1]
    OBVIOUS
  <2>1. f[j] = h[j]
    BY <1>2
  <2>2. j + 1 \in 0..n /\ j + 1 \in 0..m /\ j + 1 # 0 /\ (j + 1) - 1 = j
    OBVIOUS
  <2>3. f[j + 1] = base * f[(j + 1) - 1] /\ h[j + 1] = base * h[(j + 1) - 1]
    BY <2>2, Zenon DEF IsPower
  <2>. QED BY <2>1, <2>2, <2>3
<1>. HIDE DEF S
<1>3. k \in S
  BY <1>1, <1>2, SetInduction
<1>. QED BY <1>3 DEF S

\* Powers, one after the other.
LEMMA PowerNext ==
  ASSUME NEW base \in Nat
  PROVE  /\ PowerOf(base, 0) = 1
         /\ \A n \in Nat : PowerOf(base, n + 1) = base * PowerOf(base, n)
<1>1. ASSUME NEW n \in Nat PROVE \E f : IsPower(f, base, n) /\ PowerOf(base, n) = f[n]
  <2>1. PICK f : f = CHOOSE g : g = [k \in 0..n |-> IF k = 0 THEN 1 ELSE base * g[k - 1]]
    OBVIOUS
  <2>2. IsPower(f, base, n)
    BY <2>1, PowersExist DEF IsPower
  <2>3. PowerOf(base, n) = f[n]
    BY <2>1 DEF PowerOf
  <2>. QED BY <2>2, <2>3
<1>2. PowerOf(base, 0) = 1
  <2>1. PICK f : IsPower(f, base, 0) /\ PowerOf(base, 0) = f[0]
    BY <1>1
  <2>. QED BY <2>1 DEF IsPower
<1>3. ASSUME NEW n \in Nat PROVE PowerOf(base, n + 1) = base * PowerOf(base, n)
  <2>1. PICK f : IsPower(f, base, n) /\ PowerOf(base, n) = f[n]
    BY <1>1
  <2>2. PICK h : IsPower(h, base, n + 1) /\ PowerOf(base, n + 1) = h[n + 1]
    BY <1>1
  <2>3. h[n] = f[n]
    BY <2>1, <2>2, PowersAgree
  <2>4. n + 1 \in 0..(n + 1) /\ n + 1 # 0 /\ (n + 1) - 1 = n
    OBVIOUS
  <2>5. h[n + 1] = base * h[(n + 1) - 1]
    BY <2>2, <2>4, Zenon DEF IsPower
  <2>. QED BY <2>1, <2>2, <2>3, <2>4, <2>5
<1>. QED BY <1>2, <1>3

\* Powers are not 0, and grow faster than their exponent.
LEMMA PowersGrow ==
  ASSUME NEW base \in Nat, base >= 2
  PROVE  /\ \A n \in Nat : PowerOf(base, n) \in Nat \ {0} /\ PowerOf(base, n) > n
         /\ \A m, n \in Nat : m <= n => PowerOf(base, m) <= PowerOf(base, n)
<1>. DEFINE P(n) == PowerOf(base, n)
            S == {n \in Nat : P(n) \in Nat \ {0} /\ P(n) > n}
<1>1. P(0) = 1 /\ \A n \in Nat : P(n + 1) = base * P(n)
  BY PowerNext
<1>. HIDE DEF P
<1>2. \A n \in Nat : n \in S
  <2>1. 0 \in S
    BY <1>1
  <2>2. ASSUME NEW n \in Nat, n \in S PROVE n + 1 \in S
    <3>1. PICK p \in Nat \ {0} : p = P(n) /\ p > n
      BY <2>2
    <3>2. P(n + 1) = base * p
      BY <1>1, <3>1
    <3>3. base * p \in Nat /\ base * p >= 2 * p
      OBVIOUS
    <3>. QED BY <3>1, <3>2, <3>3
  <2>. HIDE DEF S
  <2>. QED BY <2>1, <2>2, SetInduction
<1>3. ASSUME NEW m \in Nat, NEW n \in Nat, m <= n PROVE P(m) <= P(n)
  <2>. DEFINE T == {i \in m..n : P(m) <= P(i)}
  <2>1. m \in T
    <3>1. P(m) \in Nat /\ m \in m..n
      BY <1>2, <1>3
    <3>. QED BY <3>1
  <2>2. ASSUME NEW i \in m..(n - 1), i \in T PROVE i + 1 \in T
    <3>1. PICK p \in Nat \ {0} : p = P(i)
      BY <1>2
    <3>2. P(i + 1) = base * p /\ base * p \in Nat /\ base * p >= 2 * p
      BY <1>1, <3>1
    <3>3. P(m) \in Nat /\ P(m) <= p
      BY <1>2, <2>2, <3>1
    <3>. QED BY <3>1, <3>2, <3>3
  <2>. HIDE DEF T
  <2>3. n \in T
    BY <1>3, <2>1, <2>2, UpTo
  <2>. QED BY <2>3 DEF T
<1>. QED BY <1>2, <1>3 DEF P

\* Dividing twice.
LEMMA DivDiv ==
  ASSUME NEW n \in Nat, NEW b \in {10, 16}, NEW p \in Nat \ {0}
  PROVE  \A m : m = b * p => n \div m = (n \div b) \div p
<1>1. PICK q \in Nat, r \in 0..(b - 1) : q = n \div b /\ n = b * q + r
  BY DivMod
<1>2. PICK s \in Nat, t \in 0..(p - 1) : s = q \div p /\ q = p * s + t
  BY DivMod
<1>. SUFFICES ASSUME NEW m, m = b * p PROVE n \div m = (n \div b) \div p
  OBVIOUS
<1>3. m \in Nat \ {0}
  OBVIOUS
<1>4. PICK u \in Nat : u = b * t + r /\ u < m
  BY <1>1, <1>2, <1>3
<1>5. n = m * s + u
  <2>1. PICK x \in Nat : x = p * s
    OBVIOUS
  <2>2. n = b * x + u
    <3>1. q = x + t /\ n = b * q + r /\ u = b * t + r
      BY <1>1, <1>2, <1>4, <2>1
    <3>2. CASE b = 10
      BY <3>1, <3>2
    <3>3. CASE b = 16
      BY <3>1, <3>3
    <3>. QED BY <3>2, <3>3
  <2>3. m * s = b * x
    BY <1>3, <2>1
  <2>. QED BY <2>2, <2>3
<1>6. n \div m = s
  BY <1>4, <1>5, DivModOf
<1>. QED BY <1>1, <1>2, <1>3, <1>6

-----------------------------------------------------------------------------
\* What a digit sequence is: k places, as many as the number needs.
Places(n, base, k) == n < PowerOf(base, k) /\ (k = 1 \/ n >= PowerOf(base, k - 1))
Written(n, base, k, digits) == [i \in 1..k |-> digits[1 + ((n \div PowerOf(base, k - i)) % base)]]

LEMMA PlacesUnique ==
  ASSUME NEW base \in {10, 16}, NEW n \in Nat, NEW j \in Nat \ {0}, NEW k \in Nat \ {0},
         Places(n, base, j), Places(n, base, k)
  PROVE  j = k
<1>. DEFINE P(m) == PowerOf(base, m)
<1>1. \A m \in Nat : P(m) \in Nat /\ \A i \in Nat : m <= i => P(m) <= P(i)
  <2>1. base \in Nat /\ base >= 2
    OBVIOUS
  <2>. QED BY <2>1, PowersGrow
<1>2. /\ n < P(j) /\ (j = 1 \/ n >= P(j - 1))
      /\ n < P(k) /\ (k = 1 \/ n >= P(k - 1))
  BY DEF Places
<1>. HIDE DEF P
<1>3. ~(j < k)
  <2>. SUFFICES ASSUME j < k PROVE FALSE
    OBVIOUS
  <2>1. k - 1 \in Nat /\ j <= k - 1 /\ k # 1
    OBVIOUS
  <2>2. P(j) <= P(k - 1) /\ P(j) \in Nat /\ P(k - 1) \in Nat
    BY <1>1, <2>1
  <2>. QED BY <1>2, <2>1, <2>2
<1>4. ~(k < j)
  <2>. SUFFICES ASSUME k < j PROVE FALSE
    OBVIOUS
  <2>1. j - 1 \in Nat /\ k <= j - 1 /\ j # 1
    OBVIOUS
  <2>2. P(k) <= P(j - 1) /\ P(k) \in Nat /\ P(j - 1) \in Nat
    BY <1>1, <2>1
  <2>. QED BY <1>2, <2>1, <2>2
<1>. QED BY <1>3, <1>4

\* So the reference has them.
LEMMA CDigitsAre ==
  ASSUME NEW base \in {10, 16}, NEW n \in Nat, NEW k \in Nat \ {0}, Places(n, base, k), NEW digits
  PROVE  CDigits(n, base, digits) = Written(n, base, k, digits)
<1>1. k \in 1..(n + 1)
  <2>1. CASE k = 1
    BY <2>1
  <2>2. CASE k # 1
    <3>1. n >= PowerOf(base, k - 1) /\ k - 1 \in Nat
      BY <2>2 DEF Places
    <3>2. PowerOf(base, k - 1) \in Nat /\ PowerOf(base, k - 1) > k - 1
      BY <3>1, PowersGrow
    <3>. QED BY <3>1, <3>2
  <2>. QED BY <2>1, <2>2
<1>2. PICK c : c = CHOOSE j \in 1..(n + 1) : n < PowerOf(base, j) /\ (j = 1 \/ n >= PowerOf(base, j - 1))
  OBVIOUS
<1>3. c \in 1..(n + 1) /\ Places(n, base, c)
  BY <1>1, <1>2 DEF Places
<1>4. c = k
  BY <1>3, PlacesUnique
<1>5. CDigits(n, base, digits) = Written(n, base, c, digits)
  BY <1>2 DEF CDigits, Written
<1>. QED BY <1>4, <1>5

\* A place more.
LEMMA WrittenMore ==
  ASSUME NEW base \in {10, 16}, NEW n \in Nat, n >= base, NEW k \in Nat \ {0}, Places(n \div base, base, k), NEW digits
  PROVE  /\ Places(n, base, k + 1)
         /\ Written(n, base, k + 1, digits) = Append(Written(n \div base, base, k, digits), digits[1 + (n % base)])
<1>. DEFINE P(m) == PowerOf(base, m)
<1>1. PICK q \in Nat, r \in 0..(base - 1) : q = n \div base /\ r = n % base /\ n = base * q + r
  <2>1. base \in Nat \ {0}
    OBVIOUS
  <2>2. n \div base \in Nat /\ n % base \in 0..(base - 1) /\ n = base * (n \div base) + (n % base)
    BY <2>1, DivMod
  <2>. QED BY <2>2
<1>2. P(0) = 1 /\ \A m \in Nat : P(m + 1) = base * P(m) /\ P(m) \in Nat \ {0}
  <2>1. base \in Nat /\ base >= 2
    OBVIOUS
  <2>. QED BY <2>1, PowerNext, PowersGrow
<1>3. q < P(k) /\ (k = 1 \/ q >= P(k - 1))
  BY <1>1 DEF Places
<1>. HIDE DEF P
<1>4. q >= 1
  BY <1>1
<1>5. n < P(k + 1) /\ n >= P(k)
  <2>1. PICK p \in Nat \ {0} : p = P(k) /\ P(k + 1) = base * p
    BY <1>2
  <2>2. PICK o \in Nat \ {0} : o = P(k - 1) /\ p = base * o
    <3>1. k - 1 \in Nat /\ (k - 1) + 1 = k
      OBVIOUS
    <3>. QED BY <1>2, <2>1, <3>1
  <2>3. q < p /\ q >= o
    <3>1. k = 1 => o = 1
      BY <1>2, <2>2
    <3>. QED BY <1>3, <1>4, <2>1, <2>2, <3>1
  <2>. QED BY <1>1, <2>1, <2>2, <2>3
<1>6. Places(n, base, k + 1)
  <2>1. (k + 1) - 1 = k
    OBVIOUS
  <2>. QED BY <1>5, <2>1 DEF Places, P
<1>7. ASSUME NEW i \in 1..k
      PROVE  (n \div P(k + 1 - i)) % base = (q \div P(k - i)) % base
  <2>1. k - i \in Nat /\ k + 1 - i = (k - i) + 1
    OBVIOUS
  <2>2. PICK p, m : p \in Nat \ {0} /\ p = P(k - i) /\ m = P(k + 1 - i) /\ m = base * p
    BY <1>2, <2>1
  <2>3. n \div m = (n \div base) \div p
    <3>1. \A b \in {10, 16}, o \in Nat \ {0} : \A l : l = b * o => n \div l = (n \div b) \div o
      BY DivDiv
    <3>2. \A o \in Nat \ {0} : \A l : l = base * o => n \div l = (n \div base) \div o
      BY <3>1, Zenon
    <3>. QED BY <2>2, <3>2, Zenon
  <2>. QED BY <1>1, <2>2, <2>3
<1>8. (n \div P(k + 1 - (k + 1))) % base = r
  <2>1. k + 1 - (k + 1) = 0 /\ n \div 1 = n
    OBVIOUS
  <2>. QED BY <1>1, <1>2, <2>1
<1>9. PICK w : w = Written(q, base, k, digits)
  OBVIOUS
<1>10. /\ Len(w) = k /\ DOMAIN w = 1..k /\ w \in Seq({w[i] : i \in 1..k})
       /\ \A i \in 1..k : w[i] = digits[1 + ((q \div P(k - i)) % base)]
  <2>1. w = [i \in 1..k |-> digits[1 + ((q \div P(k - i)) % base)]]
    BY <1>9 DEF Written, P
  <2>2. DOMAIN w = 1..k /\ \A i \in 1..k : w[i] = digits[1 + ((q \div P(k - i)) % base)]
    BY <2>1
  <2>3. w = [i \in 1..k |-> w[i]]
    BY <2>1
  <2>4. w \in Seq({w[i] : i \in 1..k}) /\ Len(w) = k
    BY <2>3
  <2>. QED BY <2>2, <2>4
<1>11. PICK a : a = Append(w, digits[1 + r])
  OBVIOUS
<1>12. a = [i \in 1..(k + 1) |-> IF i = k + 1 THEN digits[1 + r] ELSE w[i]]
  BY <1>10, <1>11
<1>13. Written(n, base, k + 1, digits) = [i \in 1..(k + 1) |-> digits[1 + ((n \div P(k + 1 - i)) % base)]]
  BY DEF Written, P
<1>14. \A i \in 1..(k + 1) : digits[1 + ((n \div P(k + 1 - i)) % base)] = IF i = k + 1 THEN digits[1 + r] ELSE w[i]
  <2>. TAKE i \in 1..(k + 1)
  <2>1. CASE i = k + 1
    BY <1>8, <2>1
  <2>2. CASE i # k + 1
    <3>1. i \in 1..k
      BY <2>2
    <3>. QED BY <1>7, <1>10, <2>2, <3>1
  <2>. QED BY <2>1, <2>2
<1>15. Written(n, base, k + 1, digits) = a
  BY <1>12, <1>13, <1>14
<1>. QED BY <1>1, <1>6, <1>9, <1>11, <1>15

-----------------------------------------------------------------------------
\* The recursion of print_number's loop over digits.
DigitAt(n, base, digits) == digits[1 + (n % (IF base = 10 THEN 10 ELSE 16))]
IsDigits(f, num, base, digits) ==
  f = [n \in 0..num |-> IF n = 0 THEN <<>> ELSE Append(f[divide(n, base)], DigitAt(n, base, digits))]

\* It ends, because the quotient is less.
LEMMA QuotientLess ==
  ASSUME NEW base \in {10, 16}, NEW n \in Nat, n # 0
  PROVE  divide(n, base) = n \div base /\ divide(n, base) \in 0..(n - 1)
BY DEF divide

LEMMA DigitsExist ==
  ASSUME NEW base \in {10, 16}, NEW num \in Nat, NEW digits
  PROVE  \E f : IsDigits(f, num, base, digits)
<1>. DEFINE D(n) == DigitAt(n, base, digits)
            S == {m \in Nat : \E f : IsDigits(f, m, base, digits)}
<1>1. 0 \in S
  <2>1. PICK f : f = [n \in 0..0 |-> <<>>]
    OBVIOUS
  <2>2. \A n \in 0..0 : n = 0
    OBVIOUS
  <2>3. f = [n \in 0..0 |-> IF n = 0 THEN <<>> ELSE Append(f[divide(n, base)], D(n))]
    BY <2>1, <2>2
  <2>. QED BY <2>3 DEF IsDigits
<1>2. ASSUME NEW m \in Nat, m \in S PROVE m + 1 \in S
  <2>1. PICK f : f = [n \in 0..m |-> IF n = 0 THEN <<>> ELSE Append(f[divide(n, base)], D(n))]
    BY <1>2 DEF IsDigits
  <2>. HIDE DEF D
  <2>2. PICK h : h = [n \in 0..(m + 1) |-> IF n = 0 THEN <<>> ELSE Append(f[divide(n, base)], D(n))]
    OBVIOUS
  <2>3. ASSUME NEW n \in 0..m PROVE h[n] = f[n]
    <3>1. n \in 0..(m + 1)
      OBVIOUS
    <3>2. h[n] = IF n = 0 THEN <<>> ELSE Append(f[divide(n, base)], D(n))
      BY <2>2, <3>1, Zenon
    <3>3. f[n] = IF n = 0 THEN <<>> ELSE Append(f[divide(n, base)], D(n))
      BY <2>1, Zenon
    <3>. QED BY <3>2, <3>3
  <2>4. \A n \in 0..(m + 1) : n # 0 => divide(n, base) \in 0..m
    <3>1. ASSUME NEW n \in 0..(m + 1), n # 0 PROVE divide(n, base) \in 0..m
      <4>1. divide(n, base) \in 0..(n - 1)
        BY <3>1, QuotientLess
      <4>. QED BY <4>1
    <3>. QED BY <3>1
  <2>5. \A n \in 0..(m + 1) : h[n] = IF n = 0 THEN <<>> ELSE Append(h[divide(n, base)], D(n))
    BY <2>2, <2>3, <2>4
  <2>6. h = [n \in 0..(m + 1) |-> h[n]]
    BY <2>2
  <2>7. h = [n \in 0..(m + 1) |-> IF n = 0 THEN <<>> ELSE Append(h[divide(n, base)], D(n))]
    BY <2>5, <2>6, Zenon
  <2>8. IsDigits(h, m + 1, base, digits)
    BY <2>7 DEF IsDigits, D
  <2>. QED BY <2>8
<1>. HIDE DEF S
<1>3. num \in S
  BY <1>1, <1>2, SetInduction
<1>. QED BY <1>3 DEF S

\* It writes every number but 0.
LEMMA DigitsWritten ==
  ASSUME NEW base \in {10, 16}, NEW num \in Nat, NEW digits, NEW f, IsDigits(f, num, base, digits)
  PROVE  \A n \in 1..num : \E k \in Nat \ {0} : Places(n, base, k) /\ f[n] = Written(n, base, k, digits)
<1>. DEFINE W(n) == \E k \in Nat \ {0} : Places(n, base, k) /\ f[n] = Written(n, base, k, digits)
            S == {m \in Nat : \A n \in 1..m : n <= num => W(n)}
<1>1. 0 \in S
  OBVIOUS
<1>2. f[0] = <<>> /\ \A n \in 1..num : f[n] = Append(f[n \div base], digits[1 + (n % base)])
  <2>1. f[0] = <<>>
    BY DEF IsDigits
  <2>2. ASSUME NEW n \in 1..num PROVE f[n] = Append(f[n \div base], digits[1 + (n % base)])
    <3>1. n \in 0..num /\ n # 0
      OBVIOUS
    <3>2. f[n] = Append(f[divide(n, base)], DigitAt(n, base, digits))
      BY <3>1, Zenon DEF IsDigits
    <3>3. divide(n, base) = n \div base /\ DigitAt(n, base, digits) = digits[1 + (n % base)]
      BY <3>1, QuotientLess DEF DigitAt
    <3>. QED BY <3>2, <3>3
  <2>. QED BY <2>1, <2>2
<1>3. ASSUME NEW n \in 1..num, n < base PROVE W(n)
  <2>1. n \div base = 0 /\ n % base = n
    BY <1>3
  <2>2. f[n] = <<digits[1 + n]>>
    <3>1. f[n] = Append(<<>>, digits[1 + n])
      BY <1>2, <2>1
    <3>. QED BY <3>1
  <2>3. PowerOf(base, 0) = 1 /\ PowerOf(base, 1) = base
    <3>1. base \in Nat /\ 0 + 1 = 1
      OBVIOUS
    <3>. QED BY <3>1, PowerNext
  <2>4. Places(n, base, 1)
    BY <1>3, <2>3 DEF Places
  <2>5. Written(n, base, 1, digits) = <<digits[1 + n]>>
    <3>1. \A i \in 1..1 : digits[1 + ((n \div PowerOf(base, 1 - i)) % base)] = digits[1 + n]
      BY <2>1, <2>3
    <3>2. Written(n, base, 1, digits) = [i \in 1..1 |-> digits[1 + n]]
      BY <3>1 DEF Written
    <3>. QED BY <3>2
  <2>. QED BY <2>2, <2>4, <2>5
<1>4. ASSUME NEW n \in 1..num, n >= base, W(n \div base) PROVE W(n)
  <2>1. PICK k \in Nat \ {0} : Places(n \div base, base, k) /\ f[n \div base] = Written(n \div base, base, k, digits)
    BY <1>4
  <2>2. /\ Places(n, base, k + 1)
        /\ Written(n, base, k + 1, digits) = Append(Written(n \div base, base, k, digits), digits[1 + (n % base)])
    <3>1. n \in Nat /\ n >= base
      BY <1>4
    <3>. HIDE DEF W
    <3>. QED BY <2>1, <3>1, WrittenMore
  <2>3. f[n] = Written(n, base, k + 1, digits)
    BY <1>2, <2>1, <2>2
  <2>. QED BY <2>2, <2>3
<1>. HIDE DEF W
<1>5. ASSUME NEW m \in Nat, m \in S PROVE m + 1 \in S
  <2>. SUFFICES ASSUME m + 1 <= num PROVE W(m + 1)
    BY <1>5
  <2>1. m + 1 \in 1..num
    OBVIOUS
  <2>2. CASE m + 1 < base
    BY <1>3, <2>1, <2>2
  <2>3. CASE ~(m + 1 < base)
    <3>1. m + 1 >= base /\ (m + 1) \div base \in 1..m
      BY <2>3
    <3>2. W((m + 1) \div base)
      BY <1>5, <2>1, <3>1
    <3>. QED BY <1>4, <2>1, <3>1, <3>2
  <2>. QED BY <2>2, <2>3
<1>. HIDE DEF S
<1>6. num \in S
  BY <1>1, <1>5, SetInduction
<1>. QED BY <1>6 DEF S, W

\* print_number has the digits C has.
LEMMA DigitsAreC ==
  ASSUME NEW base \in {10, 16}, NEW num \in Nat, NEW digits, digits[1] = "0"
  PROVE  /\ DigitsOf(num, base, digits) = CDigits(num, base, digits)
         /\ \E k \in Nat \ {0} : DigitsOf(num, base, digits) = Written(num, base, k, digits)
<1>1. CASE num = 0
  <2>1. PowerOf(base, 0) = 1 /\ PowerOf(base, 1) = base
    <3>1. base \in Nat /\ 0 + 1 = 1
      OBVIOUS
    <3>. QED BY <3>1, PowerNext
  <2>2. Places(0, base, 1)
    BY <2>1 DEF Places
  <2>3. Written(0, base, 1, digits) = <<"0">>
    <3>1. \A i \in 1..1 : digits[1 + ((0 \div PowerOf(base, 1 - i)) % base)] = "0"
      BY <2>1
    <3>2. Written(0, base, 1, digits) = [i \in 1..1 |-> "0"]
      BY <3>1 DEF Written
    <3>. QED BY <3>2
  <2>4. DigitsOf(num, base, digits) = <<"0">>
    BY <1>1 DEF DigitsOf
  <2>. QED BY <1>1, <2>2, <2>3, <2>4, CDigitsAre
<1>2. CASE num # 0
  <2>1. PICK f : f = CHOOSE g : g = [n \in 0..num |-> IF n = 0 THEN <<>> ELSE Append(g[divide(n, base)], DigitAt(n, base, digits))]
    OBVIOUS
  <2>2. IsDigits(f, num, base, digits)
    <3>1. PICK g : IsDigits(g, num, base, digits)
      BY DigitsExist
    <3>2. g = [n \in 0..num |-> IF n = 0 THEN <<>> ELSE Append(g[divide(n, base)], DigitAt(n, base, digits))]
      BY <3>1 DEF IsDigits
    <3>3. f = [n \in 0..num |-> IF n = 0 THEN <<>> ELSE Append(f[divide(n, base)], DigitAt(n, base, digits))]
      BY <2>1, <3>2, Zenon
    <3>. QED BY <3>3 DEF IsDigits
  <2>3. DigitsOf(num, base, digits) = f[num]
    BY <1>2, <2>1 DEF DigitsOf, DigitAt
  <2>4. num \in 1..num
    BY <1>2
  <2>5. PICK k \in Nat \ {0} : Places(num, base, k) /\ f[num] = Written(num, base, k, digits)
    BY <2>2, <2>4, DigitsWritten
  <2>. QED BY <2>3, <2>5, CDigitsAre
<1>. QED BY <1>1, <1>2

-----------------------------------------------------------------------------
\* The characters that are printed.
Character ==
  {small_digits[i] : i \in 1..16} \cup {large_digits[i] : i \in 1..16}
  \cup {" ", "-", "+", "x", "X", "t", "%", "?", "(", "N", "U", "L", ")"}

LEMMA DigitStrings ==
  ASSUME NEW digits \in {small_digits, large_digits}
  PROVE  digits[1] = "0" /\ \A i \in 1..16 : digits[i] \in Character
<1>1. small_digits[1] = "0" /\ large_digits[1] = "0"
  BY DEF small_digits, large_digits
<1>2. \A i \in 1..16 : digits[i] \in Character
  BY Zenon DEF Character
<1>. QED BY <1>1, <1>2

LEMMA CharactersAre == {" ", "-", "+", "0", "x", "X", "t", "%", "(", "N", "U", "L", ")"} \subseteq Character
<1>1. 1 \in 1..16 /\ small_digits \in {small_digits, large_digits}
  OBVIOUS
<1>2. "0" \in Character
  BY <1>1, DigitStrings, Zenon
<1>. QED BY <1>2, Zenon DEF Character

\* What is repeated, and the larger of two numbers.
LEMMA TimesIs ==
  ASSUME NEW n \in Int, NEW c \in Character
  PROVE  /\ Times(n, c) \in Seq(Character)
         /\ Len(Times(n, c)) = IF n > 0 THEN n ELSE 0
         /\ n <= 0 => Times(n, c) = <<>>
<1>1. PICK S : S = Character
  OBVIOUS
<1>2. CASE n > 0
  <2>1. n \in Nat
    BY <1>2
  <2>2. PICK w : w = [i \in 1..n |-> c]
    OBVIOUS
  <2>3. w \in Seq(S) /\ Len(w) = n
    BY <1>1, <2>1, <2>2
  <2>. QED BY <1>1, <1>2, <2>2, <2>3 DEF Times
<1>3. CASE ~(n > 0)
  <2>1. 1..n = 1..0
    BY <1>3
  <2>2. PICK w : w = [i \in 1..0 |-> c]
    OBVIOUS
  <2>3. w \in Seq(S) /\ Len(w) = 0
    BY <1>1, <2>2
  <2>4. w = <<>>
    BY <2>3, EmptySeq
  <2>5. Times(n, c) = w
    BY <2>1, <2>2 DEF Times
  <2>. QED BY <1>1, <1>3, <2>3, <2>4, <2>5
<1>. QED BY <1>2, <1>3

LEMMA TwoMax ==
  ASSUME NEW a \in Int, NEW b \in Int
  PROVE  Max({a, b}) = IF a >= b THEN a ELSE b
BY DEF Max

LEMMA WrittenInCharacters ==
  ASSUME NEW base \in {10, 16}, NEW n \in Nat, NEW k \in Nat \ {0}, NEW digits \in {small_digits, large_digits}
  PROVE  Written(n, base, k, digits) \in Seq(Character)
<1>1. ASSUME NEW i \in 1..k PROVE digits[1 + ((n \div PowerOf(base, k - i)) % base)] \in Character
  <2>1. base \in Nat /\ base >= 2 /\ k - i \in Nat
    OBVIOUS
  <2>2. PICK p \in Nat \ {0} : p = PowerOf(base, k - i)
    BY <2>1, PowersGrow
  <2>3. PICK q \in Nat : q = n \div p
    BY DivMod
  <2>4. q % base \in 0..(base - 1)
    OBVIOUS
  <2>5. 1 + (q % base) \in 1..16
    BY <2>4
  <2>. QED BY <2>2, <2>3, <2>5, DigitStrings
<1>2. Written(n, base, k, digits) \in [1..k -> Character]
  BY <1>1 DEF Written
<1>. QED BY <1>2

\* Head, digits and padding of a number, as C lays them out.
Body(digits, precision) == Times(precision - Len(digits), "0") \o digits
Laid(head, body, width, left, zeros) ==
  LET room == width - Len(head) - Len(body)
  IN IF left THEN head \o body \o Times(room, " ")
     ELSE IF zeros THEN head \o Times(room, "0") \o body
     ELSE Times(room, " ") \o head \o body

Absolute(num) == IF num < 0 THEN -num ELSE num

LEMMA Together ==
  ASSUME NEW u \in Seq(Character), NEW v \in Seq(Character), NEW w \in Seq(Character)
  PROVE  (u \o v) \o w = u \o (v \o w)
BY ConcatAssociative

\* print_number lays a number out as C does.
PrintedAsC(num, base, s, precision, flags, digits) ==
  /\ print_number(num, base, s, precision, flags) =
       Laid(SignOf(num, flags) \o PrefixOf(base, flags), Body(CDigits(Absolute(num), base, digits), precision),
            s, "LEFT" \in flags, "ZEROPAD" \in flags)
  /\ print_number(num, base, s, precision, flags) \in Seq(Character)

LEMMA NumberPrinted ==
  ASSUME NEW num \in Int, NEW base \in {10, 16}, NEW s \in Int, NEW precision \in Int, precision # 0,
         NEW flags, "SIGN" \in flags \/ num >= 0,
         NEW digits, digits = IF "LARGE" \in flags THEN large_digits ELSE small_digits
  PROVE  PrintedAsC(num, base, s, precision, flags, digits)
<1>1. Magnitude(num, flags) = Absolute(num) /\ Absolute(num) \in Nat
  BY DEF Magnitude, Absolute
<1>2. PICK tmp : tmp = CDigits(Absolute(num), base, digits)
  OBVIOUS
<1>3. DigitsOf(Magnitude(num, flags), base, digits) = tmp /\ tmp \in Seq(Character)
  <2>1. digits \in {small_digits, large_digits}
    OBVIOUS
  <2>2. digits[1] = "0"
    BY <2>1, DigitStrings
  <2>3. PICK n \in Nat : n = Absolute(num)
    BY <1>1
  <2>4. PICK k \in Nat \ {0} : DigitsOf(n, base, digits) = CDigits(n, base, digits) /\ DigitsOf(n, base, digits) = Written(n, base, k, digits)
    BY <2>2, DigitsAreC
  <2>. QED BY <1>1, <1>2, <2>1, <2>3, <2>4, WrittenInCharacters
<1>4. PICK sign, prefix : sign = SignOf(num, flags) /\ prefix = PrefixOf(base, flags)
  OBVIOUS
<1>5. sign \in Seq(Character) /\ prefix \in Seq(Character)
  <2>1. <<>> \in Seq(Character) /\ \A e, f \in Character : <<e>> \in Seq(Character) /\ <<e, f>> \in Seq(Character)
    OBVIOUS
  <2>2. sign \in {<<>>, <<"-">>, <<"+">>, <<" ">>}
    BY <1>4, Zenon DEF SignOf
  <2>3. prefix \in {<<>>, <<"0">>, <<"0", "X">>, <<"0", "x">>}
    BY <1>4, Zenon DEF PrefixOf
  <2>4. " " \in Character /\ "-" \in Character /\ "+" \in Character /\ "0" \in Character /\ "X" \in Character /\ "x" \in Character
    BY CharactersAre, Zenon
  <2>5. sign \in Seq(Character)
    BY <2>1, <2>2, <2>4, Zenon
  <2>6. prefix \in Seq(Character)
    BY <2>1, <2>3, <2>4, Zenon
  <2>. QED BY <2>5, <2>6
<1>6. PICK padded : padded = Max({Len(tmp), precision})
  OBVIOUS
<1>7. Len(tmp) \in Nat /\ padded \in Int /\ padded = (IF Len(tmp) >= precision THEN Len(tmp) ELSE precision)
  BY <1>3, <1>6, TwoMax
<1>8. PICK z : z = Times(padded - Len(tmp), "0")
  OBVIOUS
<1>9. z = Times(precision - Len(tmp), "0") /\ z \in Seq(Character) /\ Len(z) = padded - Len(tmp)
  <2>. PICK zero \in Character : zero = "0"
    BY CharactersAre, Zenon
  <2>1. CASE Len(tmp) >= precision
    <3>1. z = <<>>
      BY <1>7, <1>8, <2>1, TimesIs
    <3>2. precision - Len(tmp) <= 0 /\ precision - Len(tmp) \in Int
      BY <1>7, <2>1
    <3>3. Times(precision - Len(tmp), "0") = <<>>
      BY <3>2, TimesIs
    <3>. QED BY <1>7, <2>1, <3>1, <3>3
  <2>2. CASE ~(Len(tmp) >= precision)
    <3>1. padded = precision /\ padded - Len(tmp) \in Int /\ padded - Len(tmp) > 0
      BY <1>7, <2>2
    <3>. QED BY <1>8, <3>1, TimesIs
  <2>. QED BY <2>1, <2>2
<1>10. PICK head, body : head = sign \o prefix /\ body = z \o tmp
  OBVIOUS
<1>11. /\ head \in Seq(Character) /\ body \in Seq(Character)
       /\ Len(head) = Len(sign) + Len(prefix) /\ Len(body) = padded
       /\ Len(sign) \in Nat /\ Len(prefix) \in Nat
  <2>1. head \in Seq(Character) /\ Len(head) = Len(sign) + Len(prefix)
    BY <1>5, <1>10, ConcatProperties
  <2>2. body \in Seq(Character) /\ Len(body) = Len(z) + Len(tmp)
    BY <1>3, <1>9, <1>10, ConcatProperties
  <2>3. Len(sign) \in Nat /\ Len(prefix) \in Nat
    BY <1>5, LenProperties
  <2>. QED BY <1>7, <1>9, <2>1, <2>2, <2>3
<1>12. PICK room : room = RoomLeft(s, sign, prefix, padded)
  OBVIOUS
<1>13. room = s - Len(head) - Len(body) /\ room \in Int
  BY <1>7, <1>11, <1>12 DEF RoomLeft
<1>14. PICK spaces, zeros : spaces = Times(room, " ") /\ zeros = Times(room, "0")
  BY Zenon
<1>15. spaces \in Seq(Character) /\ zeros \in Seq(Character)
  <2>1. \A c \in Character : Times(room, c) \in Seq(Character)
    BY <1>13, TimesIs
  <2>2. " " \in Character /\ "0" \in Character
    BY CharactersAre, Zenon
  <2>. QED BY <1>14, <2>1, <2>2, Zenon
<1>. DEFINE left == "LEFT" \in flags
            zeropad == "ZEROPAD" \in flags /\ ~left
<1>16. print_number(num, base, s, precision, flags) =
         (IF left \/ zeropad THEN <<>> ELSE spaces) \o sign \o prefix \o (IF zeropad THEN zeros ELSE <<>>)
         \o z \o tmp \o (IF left THEN spaces ELSE <<>>)
  BY <1>3, <1>4, <1>6, <1>8, <1>12, <1>14, Zenon DEF print_number
<1>17. Laid(head, body, s, "LEFT" \in flags, "ZEROPAD" \in flags) =
         IF left THEN head \o body \o spaces ELSE IF zeropad THEN head \o zeros \o body ELSE spaces \o head \o body
  BY <1>13, <1>14, Zenon DEF Laid
<1>18. print_number(num, base, s, precision, flags) = Laid(head, body, s, "LEFT" \in flags, "ZEROPAD" \in flags)
  <2>1. /\ <<>> \o sign \o prefix \o <<>> \o z \o tmp \o spaces = head \o body \o spaces
        /\ <<>> \o sign \o prefix \o zeros \o z \o tmp \o <<>> = head \o zeros \o body
        /\ spaces \o sign \o prefix \o <<>> \o z \o tmp \o <<>> = spaces \o head \o body
    <3>1. z \in Seq(Character) /\ tmp \in Seq(Character)
      BY <1>3, <1>9
    <3>2. ASSUME NEW g, g \in Seq(Character)
          PROVE  (g \o z) \o tmp = g \o body /\ (g \o body) \o <<>> = g \o body /\ g \o <<>> = g /\ <<>> \o g = g
      <4>1. (g \o z) \o tmp = g \o (z \o tmp)
        BY <3>1, <3>2, Together, Zenon
      <4>2. g \o body \in Seq(Character)
        BY <1>11, <3>2, ConcatProperties
      <4>3. (g \o body) \o <<>> = g \o body /\ g \o <<>> = g /\ <<>> \o g = g
        BY <3>2, <4>2, ConcatEmptySeq
      <4>. QED BY <1>10, <4>1, <4>3
    <3>3. PICK g, h : g = head \o zeros /\ h = spaces \o head
      OBVIOUS
    <3>4. g \in Seq(Character) /\ h \in Seq(Character)
      BY <1>11, <1>15, <3>3, ConcatProperties
    <3>5. (spaces \o sign) \o prefix = h
      <4>1. sign \in Seq(Character) /\ prefix \in Seq(Character)
        BY <1>5
      <4>2. spaces \in Seq(Character)
        BY <1>15
      <4>3. (spaces \o sign) \o prefix = spaces \o (sign \o prefix)
        BY <4>1, <4>2, Together, Zenon
      <4>. QED BY <1>10, <3>3, <4>3
    <3>6. <<>> \o sign \o prefix = head
      BY <1>5, <1>10, <3>2, Zenon
    <3>7. <<>> \o sign \o prefix \o <<>> \o z \o tmp \o spaces = head \o body \o spaces
      <4>1. head \o <<>> = head /\ (head \o z) \o tmp = head \o body
        BY <1>11, <3>2
      <4>. QED BY <3>6, <4>1, Zenon
    <3>8. <<>> \o sign \o prefix \o zeros \o z \o tmp \o <<>> = head \o zeros \o body
      <4>1. (g \o z) \o tmp = g \o body /\ (g \o body) \o <<>> = g \o body
        BY <3>2, <3>4
      <4>. QED BY <3>3, <3>6, <4>1, Zenon
    <3>9. spaces \o sign \o prefix \o <<>> \o z \o tmp \o <<>> = spaces \o head \o body
      <4>1. h \o <<>> = h /\ (h \o z) \o tmp = h \o body /\ (h \o body) \o <<>> = h \o body
        BY <3>2, <3>4
      <4>. QED BY <3>3, <3>5, <4>1, Zenon
    <3>. QED BY <3>7, <3>8, <3>9
  <2>2. CASE left
    <3>1. ~zeropad
      BY <2>2
    <3>. QED BY <1>16, <1>17, <2>1, <2>2, <3>1, Zenon
  <2>3. CASE ~left /\ zeropad
    BY <1>16, <1>17, <2>1, <2>3, Zenon
  <2>4. CASE ~left /\ ~zeropad
    BY <1>16, <1>17, <2>1, <2>4, Zenon
  <2>. QED BY <2>2, <2>3, <2>4
<1>19. Laid(head, body, s, "LEFT" \in flags, "ZEROPAD" \in flags) \in Seq(Character)
  <2>1. /\ head \o body \o spaces \in Seq(Character)
        /\ head \o zeros \o body \in Seq(Character)
        /\ spaces \o head \o body \in Seq(Character)
    BY <1>11, <1>15
  <2>. QED BY <1>17, <2>1, Zenon
<1>20. body = Body(tmp, precision)
  BY <1>9, <1>10 DEF Body
<1>. QED BY <1>2, <1>4, <1>10, <1>18, <1>19, <1>20, Zenon DEF PrintedAsC

-----------------------------------------------------------------------------
\* A conversion as it is read, of those that C has too.
Qualifier == {"", "h", "l"}
Converter == {"c", "s", "p", "%", "?", "o", "x", "X", "d", "u"}
AnyConversion ==
  [flags : SUBSET {"ZEROPAD", "PLUS", "SPACE", "LEFT", "SPECIAL"}, width : Int, precision : Int,
   qualifier : Qualifier, conv : Converter, arg : Nat]

Readable(c) ==
  /\ c \in AnyConversion
  /\ c.conv \notin {"o", "?"} /\ c.precision # 0
  /\ "SPECIAL" \in c.flags => c.conv \in {"x", "X", "d", "u"}
  /\ c.conv = "p" => c.width = -1

LEMMA ReadIs ==
  ASSUME NEW c \in Conversion, SupportedConversion(c)
  PROVE  Readable(ReadConversion(c))
<1>1. PowerOf(2, LONG_BITS) \in Nat
  <2>1. 2 \in Nat /\ 2 >= 2 /\ LONG_BITS \in Nat
    BY IoAssumption
  <2>. QED BY <2>1, PowersGrow
<1>2. FieldWidth \subseteq Int /\ FieldPrecision \subseteq Int /\ Argument \subseteq Nat
  BY <1>1, IoAssumption
<1>3. c \in AnyConversion
  BY <1>2, Zenon DEF Conversion, AnyConversion, Qualifier, Converter
<1>4. /\ c.conv # "o" /\ c.conv # "?" /\ c.precision # 0 /\ c.precision >= -1
      /\ "SPECIAL" \in c.flags => c.conv \in {"x", "X", "d", "u"}
      /\ c.conv = "p" => c.width = -1
  BY Zenon DEF SupportedConversion
<1>5. PICK r : r = ReadConversion(c)
  OBVIOUS
<1>6. /\ r.conv = c.conv /\ r.precision = c.precision /\ r.arg = c.arg /\ r.qualifier = c.qualifier
      /\ r.flags = (IF c.width < -1 THEN c.flags \cup {"LEFT"} ELSE c.flags)
      /\ r.width = (IF c.width < -1 THEN -c.width ELSE c.width)
      /\ DOMAIN r = DOMAIN c
  <2>1. DOMAIN c = {"flags", "width", "precision", "qualifier", "conv", "arg"} /\ c.precision \in Int
    BY <1>3 DEF AnyConversion
  <2>. QED BY <1>4, <1>5, <2>1 DEF ReadConversion
<1>7. r \in AnyConversion
  <2>1. /\ c.flags \in SUBSET {"ZEROPAD", "PLUS", "SPACE", "LEFT", "SPECIAL"} /\ c.width \in Int /\ c.precision \in Int
        /\ c.qualifier \in Qualifier /\ c.conv \in Converter /\ c.arg \in Nat
        /\ DOMAIN c = {"flags", "width", "precision", "qualifier", "conv", "arg"}
    BY <1>3 DEF AnyConversion
  <2>2. /\ r.flags \in SUBSET {"ZEROPAD", "PLUS", "SPACE", "LEFT", "SPECIAL"} /\ r.width \in Int /\ r.precision \in Int
        /\ r.qualifier \in Qualifier /\ r.conv \in Converter /\ r.arg \in Nat
    BY <1>6, <2>1
  <2>3. r = [k \in DOMAIN r |-> r[k]]
    BY <1>5 DEF ReadConversion
  <2>. QED BY <1>6, <2>1, <2>2, <2>3 DEF AnyConversion
<1>8. ("SPECIAL" \in r.flags => c.conv \in {"x", "X", "d", "u"}) /\ (c.conv = "p" => r.width = -1)
  BY <1>4, <1>6
<1>. QED BY <1>4, <1>5, <1>6, <1>7, <1>8, Zenon DEF Readable

\* The numbers that are read.
LEMMA NumberRead ==
  ASSUME NEW c \in AnyConversion
  PROVE  NumberOf(c) \in Int /\ (c.conv # "d" => NumberOf(c) >= 0)
<1>1. PICK bits \in Nat \ {0} : bits = IF c.qualifier = "h" THEN LONG_BITS \div 4 ELSE LONG_BITS \div 2
  <2>1. LONG_BITS \in Nat /\ LONG_BITS \div 4 \in Nat \ {0} /\ LONG_BITS \div 2 \in Nat \ {0}
    BY IoAssumption
  <2>. QED BY <2>1
<1>2. PICK p \in Nat \ {0} : p = PowerOf(2, bits)
  BY PowersGrow
<1>3. c.arg \in Nat
  BY DEF AnyConversion
<1>4. PICK low \in Nat : low = LowBits(c.arg, bits)
  <2>1. c.arg % p \in Nat
    BY <1>3, DivMod
  <2>. QED BY <1>2, <2>1 DEF LowBits
<1>5. Signed(low, bits) \in Int
  BY <1>2, <1>4 DEF Signed
<1>6. NumberOf(c) = IF c.conv = "d" THEN Signed(low, bits) ELSE low
  BY <1>1, <1>4 DEF NumberOf
<1>. QED BY <1>4, <1>5, <1>6

\* What print_number is called with.
NumFor(c) == IF c.conv = "p" THEN c.arg ELSE NumberOf(c)
BaseFor(c) == IF c.conv \in {"d", "u"} THEN 10 ELSE 16
WidthFor(c) == IF c.conv = "p" THEN LONG_BITS \div 4 ELSE c.width
FlagsFor(c) ==
  IF c.conv = "p" THEN c.flags \cup {"ZEROPAD"}
  ELSE IF c.conv = "X" THEN c.flags \cup {"LARGE"}
  ELSE IF c.conv = "d" THEN c.flags \cup {"SIGN"} ELSE c.flags

LEMMA NumberConverted ==
  ASSUME NEW c, Readable(c), c.conv \in {"p", "x", "X", "d", "u"}
  PROVE  Converted(c) = CNumber(c) /\ Converted(c) \in Seq(Character)
<1>1. c \in AnyConversion /\ c.precision # 0 /\ (c.conv = "p" => c.width = -1)
      /\ ("SPECIAL" \in c.flags => c.conv \in {"x", "X", "d", "u"})
  BY Zenon DEF Readable
<1>2. c.flags \subseteq {"ZEROPAD", "PLUS", "SPACE", "LEFT", "SPECIAL"} /\ c.width \in Int /\ c.precision \in Int /\ c.arg \in Nat
  BY <1>1, Zenon DEF AnyConversion
<1>3. Converted(c) = print_number(NumFor(c), BaseFor(c), WidthFor(c), c.precision, FlagsFor(c))
  <2>1. CASE c.conv = "p"
    BY <1>1, <2>1, Zenon DEF Converted, NumFor, BaseFor, WidthFor, FlagsFor
  <2>2. CASE c.conv = "x"
    BY <2>2, Zenon DEF Converted, NumFor, BaseFor, WidthFor, FlagsFor
  <2>3. CASE c.conv = "X"
    BY <2>3, Zenon DEF Converted, NumFor, BaseFor, WidthFor, FlagsFor
  <2>4. CASE c.conv = "d"
    BY <2>4, Zenon DEF Converted, NumFor, BaseFor, WidthFor, FlagsFor
  <2>5. CASE c.conv = "u"
    BY <2>5, Zenon DEF Converted, NumFor, BaseFor, WidthFor, FlagsFor
  <2>. QED BY <2>1, <2>2, <2>3, <2>4, <2>5, Zenon
<1>4. PICK num, base, width, flags, digits :
        /\ num \in Int /\ base \in {10, 16} /\ width \in Int
        /\ num = NumFor(c) /\ base = BaseFor(c) /\ width = WidthFor(c) /\ flags = FlagsFor(c)
        /\ digits = IF c.conv = "X" THEN large_digits ELSE small_digits
  <2>1. NumFor(c) \in Int
    BY <1>1, <1>2, NumberRead DEF NumFor
  <2>2. BaseFor(c) \in {10, 16}
    BY DEF BaseFor
  <2>3. WidthFor(c) \in Int
    BY <1>2, IoAssumption DEF WidthFor
  <2>. QED BY <2>1, <2>2, <2>3
<1>5. /\ "LARGE" \in flags <=> c.conv = "X"
      /\ "SIGN" \in flags <=> c.conv = "d"
      /\ "LEFT" \in flags <=> "LEFT" \in c.flags
      /\ "SPECIAL" \in flags <=> "SPECIAL" \in c.flags
      /\ "ZEROPAD" \in flags <=> ("ZEROPAD" \in c.flags \/ c.conv = "p")
  BY <1>2, <1>4 DEF FlagsFor
<1>6. "SIGN" \in flags \/ num >= 0
  BY <1>1, <1>2, <1>4, <1>5, NumberRead DEF NumFor
<1>7. digits = IF "LARGE" \in flags THEN large_digits ELSE small_digits
  BY <1>4, <1>5
<1>8. PICK body : body = Body(CDigits(Absolute(num), base, digits), c.precision)
  OBVIOUS
<1>9. /\ print_number(num, base, width, c.precision, flags) =
           Laid(SignOf(num, flags) \o PrefixOf(base, flags), body, width, "LEFT" \in flags, "ZEROPAD" \in flags)
      /\ print_number(num, base, width, c.precision, flags) \in Seq(Character)
  <2>1. c.precision \in Int /\ c.precision # 0
    BY <1>1, <1>2
  <2>2. PrintedAsC(num, base, width, c.precision, flags, digits)
    BY <1>4, <1>6, <1>7, <2>1, NumberPrinted
  <2>. QED BY <1>8, <2>2, Zenon DEF PrintedAsC
<1>10. PICK sign, prefix : /\ sign = SignOf(num, IF c.conv = "d" THEN c.flags \cup {"SIGN"} ELSE {})
                           /\ prefix = IF "SPECIAL" \in c.flags /\ c.conv \in {"x", "X"} THEN <<"0", c.conv>> ELSE <<>>
  BY Zenon
<1>11. sign = SignOf(num, flags)
  <2>1. CASE c.conv = "d"
    <3>1. flags = c.flags \cup {"SIGN"}
      BY <1>4, <2>1, Zenon DEF FlagsFor
    <3>. QED BY <1>10, <2>1, <3>1, Zenon
  <2>2. CASE c.conv # "d"
    <3>1. "SIGN" \notin flags /\ "SIGN" \notin {}
      BY <1>5, <2>2
    <3>2. SignOf(num, flags) = <<>> /\ SignOf(num, {}) = <<>>
      BY <3>1, Zenon DEF SignOf
    <3>. QED BY <1>10, <2>2, <3>2, Zenon
  <2>. QED BY <2>1, <2>2
<1>12. prefix = PrefixOf(base, flags)
  <2>1. base = 16 <=> c.conv \notin {"d", "u"}
    BY <1>4 DEF BaseFor
  <2>2. base # 8
    BY <1>4
  <2>3. CASE "SPECIAL" \notin c.flags
    BY <1>5, <1>10, <2>3 DEF PrefixOf
  <2>4. CASE "SPECIAL" \in c.flags /\ c.conv \in {"d", "u"}
    BY <1>5, <1>10, <2>1, <2>2, <2>4 DEF PrefixOf
  <2>5. CASE "SPECIAL" \in c.flags /\ c.conv = "x"
    BY <1>5, <1>10, <2>1, <2>5 DEF PrefixOf
  <2>6. CASE "SPECIAL" \in c.flags /\ c.conv = "X"
    BY <1>5, <1>10, <2>1, <2>6 DEF PrefixOf
  <2>. QED BY <1>1, <2>3, <2>4, <2>5, <2>6
<1>13. CNumber(c) = Laid(sign \o prefix, body, width, "LEFT" \in c.flags, "ZEROPAD" \in c.flags \/ c.conv = "p")
  <2>1. CNumber(c) =
          Laid(SignOf(NumFor(c), IF c.conv = "d" THEN c.flags \cup {"SIGN"} ELSE {})
               \o (IF "SPECIAL" \in c.flags /\ c.conv \in {"x", "X"} THEN <<"0", c.conv>> ELSE <<>>),
               Body(CDigits(Absolute(NumFor(c)), BaseFor(c), IF c.conv = "X" THEN large_digits ELSE small_digits), c.precision),
               WidthFor(c), "LEFT" \in c.flags, "ZEROPAD" \in c.flags \/ c.conv = "p")
    BY Zenon DEF CNumber, Laid, Body, Absolute, NumFor, BaseFor, WidthFor
  <2>. QED BY <1>4, <1>8, <1>10, <2>1, Zenon
<1>14. Laid(sign \o prefix, body, width, "LEFT" \in flags, "ZEROPAD" \in flags) = CNumber(c)
  BY <1>5, <1>13, Zenon DEF Laid
<1>. QED BY <1>3, <1>4, <1>9, <1>11, <1>12, <1>14, Zenon

\* Padded text.
LEMMA Justified ==
  ASSUME NEW text \in Seq(Character), NEW c, c.width \in Int
  PROVE  Justify(text, c) \in Seq(Character)
<1>1. PICK room : room = Times(c.width - Len(text), " ")
  BY Zenon
<1>2. room \in Seq(Character)
  <2>1. c.width - Len(text) \in Int
    OBVIOUS
  <2>2. \A e \in Character : Times(c.width - Len(text), e) \in Seq(Character)
    BY <2>1, TimesIs
  <2>3. " " \in Character
    BY CharactersAre, Zenon
  <2>. QED BY <1>1, <2>2, <2>3, Zenon
<1>3. text \o room \in Seq(Character) /\ room \o text \in Seq(Character)
  BY <1>2, ConcatProperties
<1>4. Justify(text, c) = IF "LEFT" \in c.flags THEN text \o room ELSE room \o text
  BY <1>1, Zenon DEF Justify
<1>. QED BY <1>3, <1>4, Zenon

LEMMA StringRead ==
  ASSUME NEW c, c.precision \in Int, c.arg \in Nat
  PROVE  StringOf(c) \in Seq(Character)
<1>1. PICK s : s = IF c.arg = 0 THEN <<"(", "N", "U", "L", "L", ")">> ELSE Times(c.arg, "x")
  BY Zenon
<1>2. s \in Seq(Character)
  <2>1. \A e, f, g, h, i \in Character : <<e, f, g, h, h, i>> \in Seq(Character)
    OBVIOUS
  <2>2. "(" \in Character /\ "N" \in Character /\ "U" \in Character /\ "L" \in Character /\ ")" \in Character /\ "x" \in Character
    BY CharactersAre, Zenon
  <2>3. <<"(", "N", "U", "L", "L", ")">> \in Seq(Character)
    BY <2>1, <2>2, Zenon
  <2>4. Times(c.arg, "x") \in Seq(Character)
    <3>1. c.arg \in Int
      OBVIOUS
    <3>2. "x" \in Character
      BY <2>2, Zenon
    <3>. QED BY <3>1, <3>2, TimesIs
  <2>. QED BY <1>1, <2>3, <2>4, Zenon
<1>3. StringOf(c) = IF c.precision > 0 /\ Len(s) > c.precision THEN SubSeq(s, 1, c.precision) ELSE s
  BY <1>1, Zenon DEF StringOf
<1>4. c.precision > 0 /\ Len(s) > c.precision => SubSeq(s, 1, c.precision) \in Seq(Character)
  BY <1>2
<1>. QED BY <1>2, <1>3, <1>4, Zenon

\* What C prints.
CText(c) ==
  CASE c.conv = "c" -> Justify(<<"x">>, c)
    [] c.conv = "s" -> Justify(StringOf(c), c)
    [] c.conv = "%" -> <<"%">>
    [] OTHER -> CNumber(c)

LEMMA ConvertedAsC ==
  ASSUME NEW c, Readable(c)
  PROVE  Converted(c) = CText(c) /\ Converted(c) \in Seq(Character)
<1>1. c \in AnyConversion /\ c.conv \notin {"o", "?"}
  BY Zenon DEF Readable
<1>2. c.width \in Int /\ c.precision \in Int /\ c.arg \in Nat /\ c.conv \in Converter
  BY <1>1 DEF AnyConversion
<1>3. \A e \in Character : <<e>> \in Seq(Character)
  OBVIOUS
<1>4. CASE c.conv = "c"
  <2>1. Converted(c) = Justify(<<"x">>, c) /\ CText(c) = Justify(<<"x">>, c)
    BY <1>4, Zenon DEF Converted, CText
  <2>2. <<"x">> \in Seq(Character)
    BY <1>3, CharactersAre, Zenon
  <2>. QED BY <1>2, <2>1, <2>2, Justified
<1>5. CASE c.conv = "s"
  <2>1. Converted(c) = Justify(StringOf(c), c) /\ CText(c) = Justify(StringOf(c), c)
    BY <1>5, Zenon DEF Converted, CText
  <2>. QED BY <1>2, <2>1, StringRead, Justified
<1>6. CASE c.conv = "%"
  <2>1. Converted(c) = <<"%">> /\ CText(c) = <<"%">>
    BY <1>6, Zenon DEF Converted, CText
  <2>2. <<"%">> \in Seq(Character)
    BY <1>3, CharactersAre, Zenon
  <2>. QED BY <2>1, <2>2, Zenon
<1>7. CASE c.conv \in {"p", "x", "X", "d", "u"}
  <2>1. CText(c) = CNumber(c)
    BY <1>7, Zenon DEF CText
  <2>. QED BY <1>7, <2>1, NumberConverted, Zenon
<1>. QED BY <1>1, <1>2, <1>4, <1>5, <1>6, <1>7, Zenon DEF Converter

\* What fits before the terminator.
LEMMA CutToFit ==
  ASSUME NEW str \in Seq(Character), NEW size \in Nat \ {0}
  PROVE  (IF Len(str) < size THEN str ELSE SubSeq(str, 1, size - 1)) = SubSeq(str, 1, Min({Len(str), size - 1}))
<1>1. Len(str) \in Nat
  BY LenProperties
<1>2. CASE Len(str) < size
  <2>1. Min({Len(str), size - 1}) = Len(str)
    BY <1>1, <1>2 DEF Min
  <2>2. SubSeq(str, 1, Len(str)) = str
    BY SubSeqFull
  <2>. QED BY <1>2, <2>1, <2>2, Zenon
<1>3. CASE ~(Len(str) < size)
  <2>1. Min({Len(str), size - 1}) = size - 1
    BY <1>1, <1>3 DEF Min
  <2>. QED BY <1>3, <2>1, Zenon
<1>. QED BY <1>2, <1>3

LEMMA PrintsRight ==
  ASSUME NEW n \in Ordinary, NEW c \in Conversion, SupportedConversion(c),
         NEW all, all = Times(n, "t") \o CText(ReadConversion(c))
  PROVE  os_printf(n, c) = SubSeq(all, 1, Min({Len(all), OS_PRINTF_BUFFER_SIZE - 2}))
<1>1. PICK r : r = ReadConversion(c)
  OBVIOUS
<1>2. Readable(r)
  BY <1>1, ReadIs
<1>3. all = Times(n, "t") \o Converted(r) /\ all \in Seq(Character)
  <2>1. Converted(r) = CText(r) /\ Converted(r) \in Seq(Character)
    BY <1>2, ConvertedAsC
  <2>2. Times(n, "t") \in Seq(Character)
    <3>1. n \in Int
      BY IoAssumption
    <3>2. "t" \in Character
      BY CharactersAre, Zenon
    <3>. QED BY <3>1, <3>2, TimesIs
  <2>3. all = Times(n, "t") \o Converted(r)
    BY <1>1, <2>1, Zenon
  <2>. QED BY <2>1, <2>2, <2>3, ConcatProperties
<1>4. PICK size \in Nat \ {0} : size = OS_PRINTF_BUFFER_SIZE - 1 /\ size - 1 = OS_PRINTF_BUFFER_SIZE - 2
  BY IoAssumption
<1>5. os_printf(n, c) = IF Len(all) < size THEN all ELSE SubSeq(all, 1, size - 1)
  BY <1>1, <1>3, <1>4, Zenon DEF os_printf, os_vsnprintf
<1>6. (IF Len(all) < size THEN all ELSE SubSeq(all, 1, size - 1)) = SubSeq(all, 1, Min({Len(all), size - 1}))
  BY <1>3, <1>4, CutToFit
<1>. QED BY <1>4, <1>5, <1>6, Zenon

\* os_printf prints what C's printf does, cut where its buffer ends.
IoInv == call = NoCall \/ call \in [ordinary : Ordinary, conv : Conversion]

THEOREM PrintsAsInC == IoSpec => []PrintsAsC
<1>1. IoInit => IoInv
  BY DEF IoInit, IoInv
<1>2. IoInv /\ [IoNext]_call => IoInv'
  <2>. SUFFICES ASSUME IoInv, [IoNext]_call PROVE IoInv'
    OBVIOUS
  <2>1. CASE IoNext
    <3>1. PICK ordinary \in Ordinary, c \in Conversion : call' = [ordinary |-> ordinary, conv |-> c]
      BY <2>1, Zenon DEF IoNext
    <3>. QED BY <3>1 DEF IoInv
  <2>2. CASE UNCHANGED call
    BY <2>2, Zenon DEF IoInv
  <2>. QED BY <2>1, <2>2
<1>3. IoInv => PrintsAsC
  <2>. SUFFICES ASSUME IoInv, call # NoCall, SupportedConversion(call.conv) PROVE PrintsAsC
    BY Zenon DEF PrintsAsC
  <2>1. call.ordinary \in Ordinary /\ call.conv \in Conversion
    BY DEF IoInv
  <2>2. \A all : all = Times(call.ordinary, "t") \o CText(ReadConversion(call.conv)) =>
          os_printf(call.ordinary, call.conv) = SubSeq(all, 1, Min({Len(all), OS_PRINTF_BUFFER_SIZE - 2}))
    BY <2>1, PrintsRight
  <2>. QED BY <2>2, Zenon DEF PrintsAsC, CText
<1>. QED BY <1>1, <1>2, <1>3, PTL DEF IoSpec
=============================================================================
