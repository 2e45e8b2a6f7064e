------------------------------ MODULE OsBitmap ------------------------------
(***************************************************************************)
(* Bitmaps (src/os_bitmap.c): the free pids and the free descriptor ids.   *)
(* Searching and setting run over whole groups (machine words) where they  *)
(* can.  The bits of the last group beyond "size" exist and are never set  *)
(* by a caller.                                                            *)
(***************************************************************************)
EXTENDS Integers

CONSTANTS
  GROUP_SIZE,  \* bits of a group
  BitmapSize   \* the sizes bitmaps are created with

ASSUME BitmapAssumption ==
  GROUP_SIZE \in Nat \ {0} /\ BitmapSize \subseteq Nat \ {0}

VARIABLE bitmap  \* size, and memory: bit -> 0 or 1; size 0 when there is none

NONE == -1       \* OS_NUMBER_MAX(os_size_t)

GROUP_ID(x) == x \div GROUP_SIZE
INDEX_ID(x) == x % GROUP_SIZE
Group(g) == (g * GROUP_SIZE)..(g * GROUP_SIZE + GROUP_SIZE - 1)

NoBitmap == [size |-> 0, memory |-> [i \in {} |-> 0]]

Capacity(size) == ((size + GROUP_SIZE - 1) \div GROUP_SIZE) * GROUP_SIZE

\* os_bitmap_create asks os_memory_alloc for one byte a group and then fills all its
\* groups: bytes written beyond what was asked for, of machine words of "word" bytes.
Overrun(size, word) == (Capacity(size) \div GROUP_SIZE) * (word - 1)

os_bitmap_create(size, default_value) ==
  /\ bitmap.size = 0
  /\ bitmap' = [size |-> size, memory |-> [i \in 0..(Capacity(size) - 1) |-> default_value]]

os_bitmap_remove == bitmap.size # 0 /\ bitmap' = NoBitmap

os_bitmap_get_bit(b, id) == b.memory[id]

os_bitmap_set_bit(id, value) ==
  /\ id < bitmap.size
  /\ bitmap' = [bitmap EXCEPT !.memory[id] = value]

\* A group that can be taken as a whole, with "remained" bits to go.
WholeGroup(i, remained) == INDEX_ID(i) = 0 /\ remained >= GROUP_SIZE

\* How far a search is: the bit it looks at, the count left, and where the run starts.
Search == [i : Nat, remained : Nat \ {0}, ret : Nat]

\* Mutant: a bit that does not fit does not start the count again.
ScanBit_CountKept(b, s, count, value) ==
  [i |-> s.i + 1,
   remained |-> IF os_bitmap_get_bit(b, s.i) = value THEN s.remained - 1 ELSE s.remained,
   ret |-> IF os_bitmap_get_bit(b, s.i) = value THEN s.ret ELSE s.i + 1]

\* One bit of the search.
ScanBit(b, s, count, value) ==
  [i |-> s.i + 1,
   remained |-> IF os_bitmap_get_bit(b, s.i) = value THEN s.remained - 1 ELSE count,
   ret |-> IF os_bitmap_get_bit(b, s.i) = value THEN s.ret ELSE s.i + 1]

ScanGroup(s) == [s EXCEPT !.i = @ + GROUP_SIZE, !.remained = @ - GROUP_SIZE]

\* One round of the loop, which returns where the run starts when none remain.
ScanStep(b, s, count, value) ==
  IF /\ WholeGroup(s.i, s.remained)
     /\ \A k \in Group(GROUP_ID(s.i)) : os_bitmap_get_bit(b, k) = value
  THEN ScanGroup(s) ELSE ScanBit(b, s, count, value)

\* os_bitmap_find_some_ones (value 1) and os_bitmap_find_some_zeros (value 0).
os_bitmap_find_some(b, start_id, count, value) ==
  LET scan[s \in Search] ==
        LET next == ScanStep(b, s, count, value)
        IN IF s.i >= b.size THEN NONE
           ELSE IF next.remained = 0 THEN next.ret ELSE scan[next]
  IN scan[[i |-> start_id, remained |-> count, ret |-> start_id]]

\* Mutant: a group is set whole however few bits are left.
SetStep_AnyGroup(i, remained) == IF INDEX_ID(i) = 0 THEN Group(GROUP_ID(i)) ELSE {i}

\* The bits one round of os_bitmap_set_bits sets, and how far it is after it.
SetStep(i, remained) == IF WholeGroup(i, remained) THEN Group(GROUP_ID(i)) ELSE {i}

SetRest(s) ==
  LET step == IF WholeGroup(s.i, s.remained) THEN GROUP_SIZE ELSE 1
  IN [i |-> s.i + step, remained |-> s.remained - step]

\* The bits os_bitmap_set_bits sets in all, count > 0.
SetBits(size, start_id, count) ==
  LET set[s \in [i : Nat, remained : Nat \ {0}]] ==
        IF s.i >= size THEN {}
        ELSE SetStep(s.i, s.remained)
             \cup (IF SetRest(s).remained = 0 THEN {} ELSE set[SetRest(s)])
  IN set[[i |-> start_id, remained |-> count]]

os_bitmap_set_bits(start_id, count, value) ==
  /\ start_id + count <= bitmap.size
  /\ LET bits == SetBits(bitmap.size, start_id, count)
     IN bitmap' = [bitmap EXCEPT !.memory =
                     [k \in DOMAIN @ |-> IF k \in bits THEN value ELSE @[k]]]

BitmapInit == bitmap = NoBitmap

BitmapNext ==
  \/ \E size \in BitmapSize, value \in {0, 1} : os_bitmap_create(size, value)
  \/ os_bitmap_remove
  \/ \E id \in 0..(bitmap.size - 1), value \in {0, 1} :
       \/ os_bitmap_set_bit(id, value)
       \/ \E count \in 1..bitmap.size : os_bitmap_set_bits(id, count, value)

-----------------------------------------------------------------------------
\* The starts, from start_id on, of count bits of that value among the first n.
Runs(start_id, count, value, n) ==
  {s \in start_id..(n - count) : \A k \in s..(s + count - 1) : bitmap.memory[k] = value}

\* The search finds the first run.  When the bitmap ends within a group and at least a
\* group is asked for, it may count the bits behind the end as well; pids and
\* descriptors are asked for one at a time.
FindsFirstRun ==
  \A start_id \in 0..(bitmap.size - 1), count \in 1..(bitmap.size + 1), value \in {0, 1} :
    LET found == os_bitmap_find_some(bitmap, start_id, count, value)
        in_size == Runs(start_id, count, value, bitmap.size)
        exact == INDEX_ID(bitmap.size) = 0 \/ count < GROUP_SIZE
    IN /\ found # NONE => found \in Runs(start_id, count, value, Capacity(bitmap.size))
       /\ found = NONE => in_size = {}
       /\ \A s \in in_size : found <= s
       /\ exact /\ found # NONE => found \in in_size

\* A call changes no bit outside the bits it names: pids and descriptors of others keep
\* their state, and the bits behind the end keep their first value.
SetsNoOther ==
  [][\A size \in BitmapSize :
       /\ bitmap.size = size /\ bitmap'.size = size
       => \E s \in 0..(size - 1), count \in 1..size, value \in {0, 1} :
            /\ s + count <= size
            /\ bitmap'.memory = [k \in DOMAIN bitmap.memory |->
                                   IF k \in s..(s + count - 1) THEN value ELSE bitmap.memory[k]]]_bitmap
=============================================================================
