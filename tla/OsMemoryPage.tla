---------------------------- MODULE OsMemoryPage ----------------------------
(***************************************************************************)
(* The buddy system: src/memory/os_memory_page.c.                          *)
(*                                                                         *)
(* Addresses are page numbers and orders are counted from PAGE_BITS, so a  *)
(* block of order o is SIZE[o] pages.  Every operation is a critical area and  *)
(* one action; os_memory_page_init, which frees the whole memory block by  *)
(* block, is one action per block.                                         *)
(*                                                                         *)
(* buddy_get has no return statement.  The project builds without          *)
(* optimisation (BUILD = 'debug'), where its callee's result stays in the  *)
(* return register: it is modelled as returning that result.               *)
(***************************************************************************)
EXTENDS Naturals, FiniteSets, Sequences, SequencesExt

CONSTANTS
  mem_start,        \* first page of the heap, after the kernel image
  mem_end,          \* end of the memory
  MetaPerPage,      \* page_metainfo_t structures that fit in a page
  BUDDY_ORDER_MAX,  \* the highest order, bigger than the memory
  MaxRequest,       \* bound of the model: pages asked for in one call
  WordSize          \* bound of the model: os_size_t counts modulo this

\* The division of the heap into metadata and pages.
page_num == ((mem_end - mem_start) * MetaPerPage) \div (MetaPerPage + 1)
page_memory_start == mem_start + (page_num + MetaPerPage - 1) \div MetaPerPage
page_memory_end == page_memory_start + page_num

Page == page_memory_start..(page_memory_end - 1)
Order == 0..BUDDY_ORDER_MAX
BUDDY_ORDER_UPLIMIT == BUDDY_ORDER_MAX + 1

\* The number of pages of a block, by its order.
Doubled[o \in 0..BUDDY_ORDER_UPLIMIT] == IF o = 0 THEN 1 ELSE 2 * Doubled[o - 1]
SIZE == [o \in 0..BUDDY_ORDER_UPLIMIT |-> Doubled[o]]

Block(a, o) == a..(a + SIZE[o] - 1)

ASSUME PageAssumption ==
  /\ mem_start \in Nat \ {0} /\ mem_end \in Nat /\ MetaPerPage \in Nat \ {0}
  /\ BUDDY_ORDER_MAX \in Nat /\ MaxRequest \in Nat \ {0} /\ WordSize \in Nat
  /\ mem_start < mem_end /\ mem_end < SIZE[BUDDY_ORDER_MAX]
  /\ page_num < WordSize /\ MaxRequest <= SIZE[BUDDY_ORDER_MAX]

VARIABLES
  page_list,        \* order -> sequence of the free blocks of that order
  order,            \* page -> order of the free block it starts, else UPLIMIT
  order_allocated,  \* page -> order of the block it was last allocated as
  page_allocated,   \* number of pages allocated
  cur_page_addr,    \* os_memory_page_init has freed the pages before this one
  init_state,       \* "running", "done", or "asserted" if its last assertion failed
  given             \* blocks the callers hold, by first page; not in the code

buddyVars == <<page_list, order, order_allocated, page_allocated>>
initVars == <<cur_page_addr, init_state>>
pageVars == <<buddyVars, initVars, given>>

PageInit ==
  /\ page_list = [o \in Order |-> <<>>]
  /\ order = [p \in Page |-> BUDDY_ORDER_UPLIMIT]
  /\ order_allocated = [p \in Page |-> 0]
  /\ page_allocated = page_num
  /\ cur_page_addr = page_memory_start
  /\ init_state = "running"
  /\ given = {}

-----------------------------------------------------------------------------
\* Mutant: rounds down.
os_size_to_order_Down(n) == CHOOSE o \in Order : SIZE[o] <= n /\ n < SIZE[o + 1]

\* The smallest order that n pages fit in.
os_size_to_order(n) == CHOOSE o \in Order : n <= SIZE[o] /\ \A j \in Order : n <= SIZE[j] => o <= j

\* Mutant: the neighbour to the right, whichever half the block is.
buddy_get_Right(a, o) == a + SIZE[o]

\* The address with bit o flipped.
buddy_get(a, o) == IF (a \div SIZE[o]) % 2 = 0 THEN a + SIZE[o] ELSE a - SIZE[o]

\* The lower of the two blocks of order o - 1 in the block of order o around a.
get_big_page(a, o) == a - (a % SIZE[o])

\* The free block of order i that _alloc finds for an allocation of order o: the
\* first on the first list that has one.
FirstFit(o, i) ==
  /\ i \in Order /\ o <= i
  /\ page_list[i] # <<>>
  /\ \A j \in o..(i - 1) : page_list[j] = <<>>

\* Mutants: the loop stops one half early; the right half is taken a size too
\* far; the count grows by the order.
RightHalves_OneShort(o, i) == (o + 1)..(i - 1)
RightHalf_TooFar(a, j) == a + SIZE[j + 1]
CountTaken_Order(o) == page_allocated' = (page_allocated + o) % WordSize

RightHalves(o, i) == o..(i - 1)
RightHalf(a, j) == a + SIZE[j]
CountTaken(o) == page_allocated' = (page_allocated + SIZE[o]) % WordSize

\* That block is halved until it has order o; the right halves become free.
Take(o, i) ==
  LET a == Head(page_list[i])
  IN  /\ page_list' = [j \in Order |-> IF j = i THEN Tail(page_list[i])
                                       ELSE IF j \in RightHalves(o, i)
                                       THEN <<RightHalf(a, j)>> \o page_list[j]
                                       ELSE page_list[j]]
      /\ order' = [p \in Page |->
                     IF p = a THEN BUDDY_ORDER_UPLIMIT
                     ELSE IF \E j \in RightHalves(o, i) : p = RightHalf(a, j)
                     THEN CHOOSE j \in RightHalves(o, i) : p = RightHalf(a, j)
                     ELSE order[p]]
      /\ order_allocated' = [order_allocated EXCEPT ![a] = o]
      /\ CountTaken(o)

\* Mutant: the buddy's order is not compared.
Merges_AnyOrder(a, j) ==
  /\ buddy_get(a, j) \in Page
  /\ order[buddy_get(a, j)] \in Order
  /\ j < BUDDY_ORDER_MAX

\* The block of order j at a merges with its buddy.
Merges(a, j) ==
  /\ buddy_get(a, j) \in Page
  /\ order[buddy_get(a, j)] = j
  /\ j < BUDDY_ORDER_MAX

\* The page leaves the list it is on.
page_remove(list, p) ==
  IF Contains(list, p) THEN RemoveAt(list, CHOOSE i \in DOMAIN list : list[i] = p) ELSE list

\* _free: the block of order o at a merges upwards until, at order i, its buddy
\* is not a free block of the same order.
MergesUpTo(a, o, i) ==
  /\ \A j \in o..(i - 1) : Merges(get_big_page(a, j), j)
  /\ ~Merges(get_big_page(a, i), i)

Give(a, o, i) ==
  LET buddies == {buddy_get(get_big_page(a, j), j) : j \in o..(i - 1)}
  IN  /\ page_list' = [j \in Order |->
                         IF j = i THEN <<get_big_page(a, i)>> \o page_list[i]
                         ELSE IF o <= j /\ j < i
                         THEN page_remove(page_list[j], buddy_get(get_big_page(a, j), j))
                         ELSE page_list[j]]
      /\ order' = [p \in Page |-> IF p = get_big_page(a, i) THEN i
                                  ELSE IF p \in buddies THEN BUDDY_ORDER_UPLIMIT
                                  ELSE order[p]]
      /\ page_allocated' = (page_allocated + WordSize - SIZE[o]) % WordSize
      /\ UNCHANGED order_allocated

Free(a, o) == \E i \in o..BUDDY_ORDER_MAX : MergesUpTo(a, o, i) /\ Give(a, o, i)

-----------------------------------------------------------------------------
\* os_memory_page_init frees the memory in blocks as large as the alignment of
\* their address allows.
AlignBits(a) == CHOOSE o \in Order : a % SIZE[o] = 0 /\ a % SIZE[o + 1] # 0

os_memory_page_init_block ==
  /\ init_state = "running"
  /\ cur_page_addr < page_memory_end
  /\ Free(cur_page_addr, AlignBits(cur_page_addr))
  /\ cur_page_addr' = cur_page_addr + SIZE[AlignBits(cur_page_addr)]
  /\ UNCHANGED <<init_state, given>>

\* OS_ASSERT(page_allocated == 0)
os_memory_page_init_end ==
  /\ init_state = "running"
  /\ cur_page_addr >= page_memory_end
  /\ init_state' = IF page_allocated = 0 THEN "done" ELSE "asserted"
  /\ UNCHANGED <<buddyVars, cur_page_addr, given>>

\* A block of order o is allocated, and it is a.
PageAlloc(o, a) ==
  /\ \E i \in o..BUDDY_ORDER_MAX : FirstFit(o, i) /\ a = Head(page_list[i]) /\ Take(o, i)
  /\ given' = given \cup {a}

\* There is none: the call returns OS_NULL.
PageAllocFails(o) == \A i \in o..BUDDY_ORDER_MAX : page_list[i] = <<>>

os_memory_page_alloc(n) ==
  /\ init_state = "done"
  /\ \/ \E a \in Page : PageAlloc(os_size_to_order(n), a)
     \/ PageAllocFails(os_size_to_order(n)) /\ UNCHANGED <<buddyVars, given>>
  /\ UNCHANGED initVars

\* A holder gives its block back.
PageFree(a) ==
  /\ Free(a, order_allocated[a])
  /\ given' = given \ {a}

os_memory_page_free(a) ==
  /\ init_state = "done"
  /\ a \in given
  /\ PageFree(a)
  /\ UNCHANGED initVars

PageNext ==
  \/ os_memory_page_init_block
  \/ os_memory_page_init_end
  \/ \E n \in 1..MaxRequest : os_memory_page_alloc(n)
  \/ \E a \in Page : os_memory_page_free(a)

PageSpec == PageInit /\ [][PageNext]_pageVars

\* No block that os_memory_page_init frees reaches beyond the heap: it ends at a page
\* as aligned as any in it, as the memory of the machine does.
HeapEndsAligned == \A a \in Page : Block(a, AlignBits(a)) \subseteq Page

-----------------------------------------------------------------------------
PageTypeOK ==
  /\ page_list \in [Order -> Seq(Page)]
  /\ order \in [Page -> Order \cup {BUDDY_ORDER_UPLIMIT}]
  /\ order_allocated \in [Page -> Order]
  /\ page_allocated \in 0..(WordSize - 1)
  /\ cur_page_addr \in page_memory_start..(page_memory_end + SIZE[BUDDY_ORDER_MAX])
  /\ init_state \in {"running", "done", "asserted"}
  /\ given \in SUBSET Page

IsFree(p) == order[p] \in Order
Free_Blocks == {Block(p, order[p]) : p \in {q \in Page : IsFree(q)}}
Given_Blocks == {Block(p, order_allocated[p]) : p \in given}

\* The metadata and the lists agree: a page is on the list of order o exactly when
\* its metadata says it starts a free block of order o, and once.  _free trusts
\* the metadata alone when it takes a buddy off its list.
ListsMatchOrders ==
  \A o \in Order :
    /\ IsInjective(page_list[o])
    /\ \A p \in Page : Contains(page_list[o], p) <=> order[p] = o

\* Free blocks and blocks in use never overlap, lie inside the memory, are aligned
\* to their size, and together they are all of it: nothing is handed out twice
\* and nothing leaks, through every split and merge.
BlocksPartition ==
  /\ \A p \in Page : IsFree(p) => p % SIZE[order[p]] = 0 /\ p \notin given
  /\ \A p \in given : p % SIZE[order_allocated[p]] = 0
  /\ \A B, C \in Free_Blocks \cup Given_Blocks : B = C \/ B \cap C = {}
  /\ UNION (Free_Blocks \cup Given_Blocks) =
       page_memory_start..((IF cur_page_addr < page_memory_end
                            THEN cur_page_addr ELSE page_memory_end) - 1)

\* Free memory is never left in two halves: an aligned run of free pages lies
\* within one free block, so an allocation fails only if no such run is free.
FreeRunsAreWhole ==
  \A o \in Order \ {BUDDY_ORDER_MAX} : \A a \in Page :
    (a % SIZE[o] = 0 /\ Block(a, o) \subseteq UNION Free_Blocks)
      => \E B \in Free_Blocks : Block(a, o) \subseteq B

\* page_allocated, from which os_get_allocated_memory and os_get_free_memory are
\* computed, is the number of pages in use (or, before the end of
\* os_memory_page_init, not yet freed).
PagesCounted ==
  page_allocated = Cardinality(Page \ UNION Free_Blocks)

\* Lists, metadata, count and blocks tell the same story, and os_memory_page_init frees
\* all of a heap that ends at an aligned page: its assertion holds.
PagesAccounted ==
  PageTypeOK /\ ListsMatchOrders /\ BlocksPartition /\ PagesCounted /\ init_state # "asserted"

\* A caller gets at least what it asked for: the block it holds starts at a
\* granted page and no other holder's block reaches into the request.
RequestIsCovered ==
  [][ \A n \in 1..MaxRequest : os_memory_page_alloc(n) =>
        \A a \in given' \ given :
          /\ \A q \in a..(a + n - 1) : q \in Page /\ q \notin UNION Given_Blocks
          /\ \A q \in a..(a + n - 1) : q \notin (UNION Free_Blocks)' ]_pageVars
=============================================================================
