---------------------------- MODULE OsMmuProofs ----------------------------
(***************************************************************************)
(* Proofs about page tables, for every number of page tables, every choice *)
(* of the heap's frames and every place of the segments.                   *)
(*                                                                         *)
(* MmuInv has two sides.  As long as every mapping went where it was asked *)
(* to go (MmuSound), the tables of user space are trees, every frame in    *)
(* use is referred to from exactly one place or is one of the leaked, and  *)
(* every page table translates exactly what has been asked for.  A segment *)
(* of more than one page ends that (MmuStrayed):                           *)
(* os_mmu_create_mapping_auto (src/src/os_mmu.c:83) maps all that is left  *)
(* of the segment to each new frame and does not advance its virtual       *)
(* address, so the last rounds map frames that nobody gave it.  What they  *)
(* can spoil is the user's part of the page table of that segment: all     *)
(* other tables still translate what has been asked for.                   *)
(*                                                                         *)
(* Each part of the proof follows one operation of                         *)
(* src/arch/riscv64/arch_mmu.c: a walk through the tables, a mapping that  *)
(* makes the tables it needs, the copies of the kernel's entries, the      *)
(* search for free addresses, the removal of a whole page table.           *)
(***************************************************************************)
EXTENDS OsMmu, DataLemmas

\* The frames of the heap, and those of the kernel's static first levels.
AnyFrame == HeapFrame \cup {kernel_l1_pagetable, kernel_l1_jump_pagetable}

\* The tables of a level.
TablesOf(kind) == [kind : {kind}, entry : [Entries(kind) -> Int]]

\* Every frame is free, a page or a table, and the kernel's tables are first levels.
FramesTyped(F) ==
  /\ F \in [AnyFrame -> {Plain("free"), Plain("data")}
                        \cup TablesOf("l1") \cup TablesOf("l2") \cup TablesOf("l3")]
  /\ F[kernel_l1_pagetable].kind = "l1" /\ F[kernel_l1_jump_pagetable].kind = "l1"

\* Above user space first levels have blocks only, and the kernel's tables have nothing else.
BlocksAbove(F) ==
  /\ \A t \in AnyFrame : F[t].kind = "l1" => \A i \in 4..7 : F[t].entry[i] >= 0
  /\ \A i \in 0..3 : F[kernel_l1_pagetable].entry[i] = 0 /\ F[kernel_l1_jump_pagetable].entry[i] >= 0

\* What it refers to.
Target(F, t, i) == __get_ppn(F[t].entry[i])

\* One level below the table it is in.
SlotTyped(F, t, i) ==
  /\ Target(F, t, i) \in HeapFrame
  /\ F[t].kind = "l1" => F[t].entry[i] < 0 /\ F[Target(F, t, i)].kind = "l2"
  /\ F[t].kind = "l2" => F[t].entry[i] < 0 /\ F[Target(F, t, i)].kind = "l3"
  /\ F[t].kind = "l3" => F[t].entry[i] > 0 /\ F[Target(F, t, i)].kind = "data"

SlotsTyped(F) == \A t \in HeapFrame, i \in 0..7 : IsSlot(F, t, i) => SlotTyped(F, t, i)

\* No two entries refer to the same frame: the tables of user space are trees.
SlotsUnique(F) ==
  \A t, u \in HeapFrame, i, j \in 0..7 :
    IsSlot(F, t, i) /\ IsSlot(F, u, j) /\ Target(F, t, i) = Target(F, u, j) => t = u /\ i = j

\* Every page table of a user has a first level of its own.
Rooted(F, V) ==
  /\ V \in [AnyVtable -> {0} \cup AnyFrame]
  /\ V["kernel"] \in {0, kernel_l1_pagetable} /\ V["jump"] \in {0, kernel_l1_jump_pagetable}
  /\ \A v \in UserVtable : V[v] # 0 => V[v] \in HeapFrame /\ F[V[v]].kind = "l1"
  /\ \A u, v \in UserVtable : V[u] = V[v] /\ V[u] # 0 => u = v

\* Frames in use are referred to; those of X are pages that are not yet.
Owned(F, V, X) ==
  /\ \A f \in HeapFrame \ X :
       /\ F[f].kind = "l1" => \E v \in UserVtable : V[v] = f
       /\ F[f].kind \in {"l2", "l3", "data"} =>
            \E t \in HeapFrame, i \in 0..7 : IsSlot(F, t, i) /\ Target(F, t, i) = f
  /\ \A f \in X : f \in HeapFrame /\ F[f].kind = "data"
  /\ \A t \in HeapFrame, i \in 0..7 : IsSlot(F, t, i) => Target(F, t, i) \notin X

\* Every page table translates what M says and nothing else.
Exact(F, V, M) ==
  /\ DOMAIN M = AnyVtable
  /\ \A v \in AnyVtable : V[v] = 0 => DOMAIN M[v] = {}
  /\ \A v \in AnyVtable : DOMAIN M[v] \subseteq AddressSpace
  /\ \A v \in AnyVtable : V[v] # 0 =>
       \A p \in AddressSpace :
         Translate(F, V[v], p) = IF p \in DOMAIN M[v] THEN M[v][p] ELSE -1

\* What every step of mapping and removal keeps, whatever the mappings are.
TablesSound(F, V, X) ==
  FramesTyped(F) /\ BlocksAbove(F) /\ SlotsTyped(F) /\ SlotsUnique(F) /\ Rooted(F, V) /\ Owned(F, V, X)

\* Nothing is used before os_mmu_preinit; the boot's page table goes before anybody else comes.
Stages ==
  /\ vtable["kernel"] = 0 => /\ vtable = [v \in AnyVtable |-> 0] /\ ~os_mmu_preinitialized /\ leaked = {}
                             /\ frames = [f \in AnyFrame |-> IF f \in HeapFrame THEN Plain("free") ELSE EmptyTable("l1")]
  /\ os_mmu_preinitialized => vtable["kernel"] # 0 /\ vtable["jump"] = 0

\* As long as segments have one page.  Exact cannot be kept alone: that a new entry moves
\* no other page needs the tables to be trees, that a page table can go needs every frame
\* owned.
MmuSound ==
  /\ TablesSound(frames, vtable, leaked)
  /\ Exact(frames, vtable, intended)
  /\ Stages
  /\ strayed = "none"

\* The walks from l1 are the same in F and G.
SameWalks(F, G, l1) == \A p \in Nat : Walk(G, l1, p) = Walk(F, l1, p)

\* After a segment of more pages: of the frames that were sound before, those on the walks
\* of the other page tables have stayed, and so have the kernel's entries of this one.
MmuStrayed ==
  /\ os_mmu_preinitialized /\ Stages /\ strayed \in UserVtable /\ vtable[strayed] # 0
  /\ DOMAIN intended = AnyVtable
  /\ \E F, X, M :
       /\ TablesSound(F, vtable, X) /\ Exact(F, vtable, M)
       /\ \A v \in AnyVtable \ {strayed} : M[v] = intended[v] /\ (vtable[v] # 0 => SameWalks(F, frames, vtable[v]))
       /\ \A p \in AddressSpace : p >= KERNEL_START =>
            /\ Translate(frames, vtable[strayed], p) = Translate(F, vtable[strayed], p)
            /\ p \in DOMAIN intended[strayed] <=> p \in DOMAIN M[strayed]
            /\ p \in DOMAIN M[strayed] => intended[strayed][p] = M[strayed][p]

\* The inductive invariant.
MmuInv == MmuSound \/ MmuStrayed

-----------------------------------------------------------------------------
\* Where the frames are: the kernel's static tables lie outside the heap.
LEMMA FramesAre == HeapFrame \subseteq 8..14 /\ AnyFrame = HeapFrame \cup {1, 2} /\ AnyFrame \subseteq Nat \ {0}
  BY MmuAssumption DEF AnyFrame, kernel_l1_pagetable, kernel_l1_jump_pagetable, MEMORY_BASE, MEMORY_SIZE

\* Addresses of frames and the entries they are kept in.
LEMMA HeapNumber ==
  ASSUME NEW f \in HeapFrame
  PROVE  f \in Nat /\ f > 0 /\ -(-f) = f /\ -f < 0 /\ (f + 1) - 1 = f /\ f \in AnyFrame
  BY FramesAre

\* The parts of a page number.
LEMMA Parts ==
  ASSUME NEW p \in AddressSpace
  PROVE  /\ OS_MMU_L1_ID(p) \in 0..7 /\ OS_MMU_L2_ID(p) \in 0..1 /\ OS_MMU_L3_ID(p) \in 0..1
         /\ (OS_MMU_L1_ID(p) <= 3 <=> p < KERNEL_START)
         /\ p = 4 * OS_MMU_L1_ID(p) + 2 * OS_MMU_L2_ID(p) + OS_MMU_L3_ID(p)
<1>1. p \in 0..31 /\ p % 32 = p
  BY DEF AddressSpace
<1>2. p \div 4 \in 0..7 /\ p = 4 * (p \div 4) + (p % 4) /\ p % 4 \in 0..3
  BY <1>1
<1>3. p % 2 \in 0..1 /\ p = 2 * (p \div 2) + (p % 2) /\ p \div 2 \in 0..15
  BY <1>1
<1>4. PICK h \in 0..15 : h = p \div 2
  BY <1>3
<1>5. h % 2 \in 0..1 /\ h = 2 * (h \div 2) + (h % 2) /\ h \div 2 \in 0..7
  OBVIOUS
<1>6. h \div 2 = p \div 4
  <2>1. PICK a \in 0..7, r \in 0..3 : a = p \div 4 /\ p = 4 * a + r
    BY <1>2
  <2>2. PICK b \in 0..7, u \in 0..1 : b = h \div 2 /\ h = 2 * b + u
    BY <1>5
  <2>3. PICK s \in 0..1 : p = 2 * h + s
    BY <1>3, <1>4
  <2>. QED BY <2>1, <2>2, <2>3
<1>. QED
  BY <1>1, <1>2, <1>3, <1>4, <1>5, <1>6
     DEF OS_MMU_L1_ID, OS_MMU_L2_ID, OS_MMU_L3_ID, OS_MMU_L1_SIZE, OS_MMU_L2_SIZE, KERNEL_START

\* The parts determine the page number.
LEMMA SameParts ==
  ASSUME NEW p \in AddressSpace, NEW q \in AddressSpace,
         OS_MMU_L1_ID(p) = OS_MMU_L1_ID(q), OS_MMU_L2_ID(p) = OS_MMU_L2_ID(q),
         OS_MMU_L3_ID(p) = OS_MMU_L3_ID(q)
  PROVE  p = q
  BY Parts

\* What a frame can be.
LEMMA FrameKinds ==
  ASSUME NEW F, FramesTyped(F), NEW t \in AnyFrame
  PROVE  /\ F[t].kind \in {"free", "data", "l1", "l2", "l3"}
         /\ F[t].kind = "free" => F[t] = Plain("free")
         /\ F[t].kind = "data" => F[t] = Plain("data")
         /\ F[t].kind \in {"l1", "l2", "l3"} => /\ F[t] = [kind |-> F[t].kind, entry |-> F[t].entry]
                                               /\ F[t].entry \in [Entries(F[t].kind) -> Int]
<1>1. F[t] \in {Plain("free"), Plain("data")} \cup TablesOf("l1") \cup TablesOf("l2") \cup TablesOf("l3")
  BY DEF FramesTyped
<1>2. CASE F[t] = Plain("free")
  BY <1>2 DEF Plain
<1>3. CASE F[t] = Plain("data")
  BY <1>3 DEF Plain
<1>4. ASSUME NEW k \in {"l1", "l2", "l3"}, F[t] \in TablesOf(k) PROVE F[t].kind = k /\ F[t] = [kind |-> k, entry |-> F[t].entry] /\ F[t].entry \in [Entries(k) -> Int]
  BY <1>4 DEF TablesOf
<1>. QED BY <1>1, <1>2, <1>3, <1>4

\* What a frame can be made.
FreshFrame == {Plain("free"), Plain("data"), EmptyTable("l1"), EmptyTable("l2"), EmptyTable("l3")}

\* The frames with frame f replaced.
LEMMA PutFrame ==
  ASSUME NEW F, FramesTyped(F), NEW f \in HeapFrame, NEW c \in FreshFrame
  PROVE  \E G : /\ G = [F EXCEPT ![f] = c]
                /\ FramesTyped(G) /\ G[f] = c /\ \A t \in AnyFrame : t # f => G[t] = F[t]
<1>1. \A k \in {"l1", "l2", "l3"} : EmptyTable(k) \in TablesOf(k)
  <2>. SUFFICES ASSUME NEW k \in {"l1", "l2", "l3"} PROVE EmptyTable(k) \in TablesOf(k)
    OBVIOUS
  <2>1. [i \in Entries(k) |-> 0] \in [Entries(k) -> Int]
    OBVIOUS
  <2>. QED BY <2>1 DEF EmptyTable, TablesOf
<1>2. f \in AnyFrame /\ f # kernel_l1_pagetable /\ f # kernel_l1_jump_pagetable
  BY FramesAre DEF kernel_l1_pagetable, kernel_l1_jump_pagetable
<1>3. c \in {Plain("free"), Plain("data")} \cup TablesOf("l1") \cup TablesOf("l2") \cup TablesOf("l3")
  BY <1>1 DEF FreshFrame
<1>4. PICK G : G = [F EXCEPT ![f] = c]
  OBVIOUS
<1>5. FramesTyped(G) /\ G[f] = c /\ \A t \in AnyFrame : t # f => G[t] = F[t]
  BY <1>2, <1>3, <1>4 DEF FramesTyped
<1>. QED BY <1>4, <1>5

\* G is F with target e put into the null entry i of table t.
EntrySet(F, G, t, i, e) ==
  /\ G[t].kind = F[t].kind /\ G[t].entry[i] = e
  /\ \A j \in Entries(F[t].kind) : j # i => G[t].entry[j] = F[t].entry[j]

\* The frames with entry i of table t replaced.
LEMMA PutEntry ==
  ASSUME NEW F, FramesTyped(F), NEW t \in AnyFrame, F[t].kind \in {"l1", "l2", "l3"},
         NEW i \in Entries(F[t].kind), NEW e \in Int
  PROVE  \E G : /\ G = [F EXCEPT ![t].entry[i] = e]
                /\ FramesTyped(G) /\ EntrySet(F, G, t, i, e)
                /\ \A u \in AnyFrame : u # t => G[u] = F[u]
<1>1. PICK G : G = [F EXCEPT ![t].entry[i] = e]
  OBVIOUS
<1>2. PICK k \in {"l1", "l2", "l3"}, x \in [Entries(F[t].kind) -> Int] : k = F[t].kind /\ F[t] = [kind |-> k, entry |-> x]
  BY FrameKinds
<1>3. PICK y : y = [x EXCEPT ![i] = e]
  OBVIOUS
<1>4. y \in [Entries(k) -> Int] /\ y[i] = e /\ \A j \in Entries(k) : j # i => y[j] = x[j]
  BY <1>2, <1>3
<1>5. G = [F EXCEPT ![t] = [kind |-> k, entry |-> y]]
  <2>1. G = [F EXCEPT ![t] = [F[t] EXCEPT !.entry = [F[t].entry EXCEPT ![i] = e]]]
    BY <1>1
  <2>2. F[t].entry = x
    BY <1>2
  <2>3. [F[t] EXCEPT !.entry = y] = [kind |-> k, entry |-> y]
    BY <1>2
  <2>. QED BY <1>3, <2>1, <2>2, <2>3
<1>6. [kind |-> k, entry |-> y] \in TablesOf(k)
  BY <1>4 DEF TablesOf
<1>7. /\ F \in [AnyFrame -> {Plain("free"), Plain("data")} \cup TablesOf("l1") \cup TablesOf("l2") \cup TablesOf("l3")]
      /\ F[kernel_l1_pagetable].kind = "l1" /\ F[kernel_l1_jump_pagetable].kind = "l1"
      /\ kernel_l1_pagetable \in AnyFrame /\ kernel_l1_jump_pagetable \in AnyFrame
  BY DEF FramesTyped, AnyFrame
<1>8. G \in [AnyFrame -> {Plain("free"), Plain("data")} \cup TablesOf("l1") \cup TablesOf("l2") \cup TablesOf("l3")]
  BY <1>5, <1>6, <1>7
<1>9. G[t] = [kind |-> k, entry |-> y] /\ \A u \in AnyFrame : u # t => G[u] = F[u]
  BY <1>5, <1>7
<1>10. G[t].kind = k /\ G[t].entry = y
  BY <1>9
<1>11. G[kernel_l1_pagetable].kind = "l1" /\ G[kernel_l1_jump_pagetable].kind = "l1"
  BY <1>2, <1>7, <1>9, <1>10
<1>12. FramesTyped(G)
  BY <1>8, <1>11 DEF FramesTyped
<1>13. EntrySet(F, G, t, i, e)
  BY <1>2, <1>4, <1>10 DEF EntrySet
<1>. QED BY <1>1, <1>9, <1>12, <1>13

\* Slots are the entries of tables in user space that are not null.
LEMMA SlotIs ==
  ASSUME NEW F, NEW t, NEW i
  PROVE  IsSlot(F, t, i) <=> /\ F[t].kind \in {"l1", "l2", "l3"} /\ i \in Entries(F[t].kind)
                             /\ F[t].kind = "l1" => i <= 3
                             /\ F[t].entry[i] # 0
<1>1. OS_MMU_L1_ID(USER_SIZE - 1) = 3
  BY DEF OS_MMU_L1_ID, USER_SIZE, OS_MMU_L1_SIZE
<1>. QED BY <1>1 DEF IsSlot

\* A slot leads to a frame of the heap.
LEMMA SlotLeads ==
  ASSUME NEW F, FramesTyped(F), SlotsTyped(F), NEW t \in HeapFrame, NEW i, IsSlot(F, t, i)
  PROVE  /\ i \in 0..7 /\ t \in AnyFrame /\ F[t].entry[i] \in Int /\ Target(F, t, i) \in HeapFrame
         /\ F[t].kind = "l1" => F[t].entry[i] < 0 /\ F[t].entry[i] = -Target(F, t, i) /\ F[Target(F, t, i)].kind = "l2"
         /\ F[t].kind = "l2" => F[t].entry[i] < 0 /\ F[t].entry[i] = -Target(F, t, i) /\ F[Target(F, t, i)].kind = "l3"
         /\ F[t].kind = "l3" => F[t].entry[i] > 0 /\ F[t].entry[i] = Leaf(Target(F, t, i)) /\ F[Target(F, t, i)].kind = "data"
         /\ F[t].kind \in {"l1", "l2", "l3"}
<1>1. /\ F[t].kind \in {"l1", "l2", "l3"} /\ i \in Entries(F[t].kind)
  BY SlotIs
<1>2. i \in 0..7 /\ t \in AnyFrame
  BY <1>1 DEF Entries, AnyFrame
<1>3. F[t].entry[i] \in Int
  BY <1>1, <1>2, FrameKinds, ZenonT(30)
<1>4. SlotTyped(F, t, i)
  BY <1>2 DEF SlotsTyped
<1>. QED BY <1>1, <1>2, <1>3, <1>4 DEF SlotTyped, Target, __get_ppn, Leaf

\* A frame of the heap whose slots and kind are the same in F and G.
SameSlots(F, G, t) ==
  /\ \A i \in 0..7 : IsSlot(G, t, i) <=> IsSlot(F, t, i)
  /\ \A i \in 0..7 : IsSlot(F, t, i) => G[t].kind = F[t].kind /\ G[t].entry[i] = F[t].entry[i]

\* Equal frames have the same slots.
LEMMA EqualFrames ==
  ASSUME NEW F, NEW G, NEW t, G[t] = F[t]
  PROVE  SameSlots(F, G, t)
  BY DEF SameSlots, IsSlot

\* Frames that are no tables have no slots.
LEMMA NoTables ==
  ASSUME NEW F, NEW G, NEW t, F[t].kind \notin {"l1", "l2", "l3"}, G[t].kind \notin {"l1", "l2", "l3"}
  PROVE  SameSlots(F, G, t)
  BY DEF SameSlots, IsSlot

\* If no slot changes and the targets of slots keep their kinds, slots stay as they were.
LEMMA SlotsKept ==
  ASSUME NEW F, NEW G, FramesTyped(F), SlotsTyped(F), SlotsUnique(F),
         \A t \in HeapFrame : SameSlots(F, G, t),
         \A t \in HeapFrame, i \in 0..7 : IsSlot(F, t, i) => G[Target(F, t, i)].kind = F[Target(F, t, i)].kind
  PROVE  /\ SlotsTyped(G) /\ SlotsUnique(G)
         /\ \A t \in HeapFrame, i \in 0..7 : IsSlot(G, t, i) <=> IsSlot(F, t, i)
         /\ \A t \in HeapFrame, i \in 0..7 : IsSlot(F, t, i) => Target(G, t, i) = Target(F, t, i)
<1>1. \A t \in HeapFrame, i \in 0..7 :
        /\ (IsSlot(G, t, i) <=> IsSlot(F, t, i))
        /\ IsSlot(F, t, i) => G[t].kind = F[t].kind /\ G[t].entry[i] = F[t].entry[i] /\ Target(G, t, i) = Target(F, t, i)
  BY DEF SameSlots, Target
<1>2. SlotsTyped(G)
  <2>. SUFFICES ASSUME NEW t \in HeapFrame, NEW i \in 0..7, IsSlot(G, t, i) PROVE SlotTyped(G, t, i)
    BY DEF SlotsTyped
  <2>1. /\ IsSlot(F, t, i) /\ G[t].kind = F[t].kind /\ G[t].entry[i] = F[t].entry[i]
        /\ Target(G, t, i) = Target(F, t, i) /\ G[Target(F, t, i)].kind = F[Target(F, t, i)].kind
    BY <1>1
  <2>2. SlotTyped(F, t, i)
    BY <2>1 DEF SlotsTyped
  <2>. QED BY <2>1, <2>2 DEF SlotTyped
<1>3. SlotsUnique(G)
  BY <1>1 DEF SlotsUnique
<1>. QED BY <1>1, <1>2, <1>3

\* A free frame becomes a page nobody refers to yet.
LEMMA TakePage ==
  ASSUME NEW F, NEW V, NEW X, TablesSound(F, V, X), NEW f \in HeapFrame, F[f].kind = "free",
         NEW G, FramesTyped(G), G[f].kind = "data", \A t \in AnyFrame : t # f => G[t] = F[t]
  PROVE  TablesSound(G, V, X \cup {f}) /\ f \notin X
<1>1. /\ FramesTyped(F) /\ BlocksAbove(F) /\ SlotsTyped(F) /\ SlotsUnique(F) /\ Rooted(F, V) /\ Owned(F, V, X)
  BY DEF TablesSound
<1>2. /\ FramesTyped(G) /\ G[f].kind = "data" /\ \A t \in AnyFrame : t # f => G[t] = F[t]
  OBVIOUS
<1>3. \A t \in HeapFrame : t \in AnyFrame
  BY DEF AnyFrame
<1>4. \A t \in HeapFrame, i \in 0..7 : IsSlot(F, t, i) => Target(F, t, i) # f /\ Target(F, t, i) \in HeapFrame
  BY <1>1, SlotLeads
<1>5. /\ SlotsTyped(G) /\ SlotsUnique(G)
      /\ \A t \in HeapFrame, i \in 0..7 : IsSlot(G, t, i) <=> IsSlot(F, t, i)
      /\ \A t \in HeapFrame, i \in 0..7 : IsSlot(F, t, i) => Target(G, t, i) = Target(F, t, i)
  <2>1. ASSUME NEW t \in HeapFrame PROVE SameSlots(F, G, t)
    <3>1. CASE t = f
      BY <1>2, <3>1, NoTables
    <3>2. CASE t # f
      BY <1>2, <1>3, <3>2, EqualFrames
    <3>. QED BY <3>1, <3>2
  <2>2. \A t \in HeapFrame, i \in 0..7 : IsSlot(F, t, i) => G[Target(F, t, i)].kind = F[Target(F, t, i)].kind
    BY <1>2, <1>3, <1>4
  <2>. QED BY <1>1, <2>1, <2>2, SlotsKept
<1>6. BlocksAbove(G)
  <2>1. kernel_l1_pagetable # f /\ kernel_l1_jump_pagetable # f /\ kernel_l1_pagetable \in AnyFrame /\ kernel_l1_jump_pagetable \in AnyFrame
    BY FramesAre DEF kernel_l1_pagetable, kernel_l1_jump_pagetable
  <2>. QED BY <1>1, <1>2, <2>1 DEF BlocksAbove
<1>7. Rooted(G, V)
  BY <1>1, <1>2, <1>3 DEF Rooted
<1>8. Owned(G, V, X \cup {f}) /\ f \notin X
  <2>1. \A g \in HeapFrame \ {f} : G[g] = F[g]
    BY <1>2, <1>3
  <2>. QED BY <1>1, <1>2, <1>4, <1>5, <2>1 DEF Owned
<1>. QED BY <1>2, <1>5, <1>6, <1>7, <1>8 DEF TablesSound

\* A page nobody refers to is given back.
LEMMA DropPage ==
  ASSUME NEW F, NEW V, NEW X, NEW f, f \notin X, TablesSound(F, V, X \cup {f}),
         NEW G, FramesTyped(G), G[f].kind = "free", \A t \in AnyFrame : t # f => G[t] = F[t]
  PROVE  TablesSound(G, V, X)
<1>1. /\ FramesTyped(F) /\ BlocksAbove(F) /\ SlotsTyped(F) /\ SlotsUnique(F) /\ Rooted(F, V) /\ Owned(F, V, X \cup {f})
      /\ f \in HeapFrame /\ F[f].kind = "data"
  BY DEF TablesSound, Owned
<1>2. /\ FramesTyped(G) /\ G[f].kind = "free" /\ \A t \in AnyFrame : t # f => G[t] = F[t]
  OBVIOUS
<1>3. \A t \in HeapFrame : t \in AnyFrame
  BY DEF AnyFrame
<1>4. \A t \in HeapFrame, i \in 0..7 : IsSlot(F, t, i) => Target(F, t, i) # f /\ Target(F, t, i) \in HeapFrame
  BY <1>1, SlotLeads DEF Owned
<1>5. /\ SlotsTyped(G) /\ SlotsUnique(G)
      /\ \A t \in HeapFrame, i \in 0..7 : IsSlot(G, t, i) <=> IsSlot(F, t, i)
      /\ \A t \in HeapFrame, i \in 0..7 : IsSlot(F, t, i) => Target(G, t, i) = Target(F, t, i)
  <2>1. ASSUME NEW t \in HeapFrame PROVE SameSlots(F, G, t)
    <3>1. CASE t = f
      BY <1>1, <1>2, <3>1, NoTables
    <3>2. CASE t # f
      BY <1>2, <1>3, <3>2, EqualFrames
    <3>. QED BY <3>1, <3>2
  <2>2. \A t \in HeapFrame, i \in 0..7 : IsSlot(F, t, i) => G[Target(F, t, i)].kind = F[Target(F, t, i)].kind
    BY <1>2, <1>3, <1>4
  <2>. QED BY <1>1, <2>1, <2>2, SlotsKept
<1>6. BlocksAbove(G)
  <2>1. kernel_l1_pagetable # f /\ kernel_l1_jump_pagetable # f /\ kernel_l1_pagetable \in AnyFrame /\ kernel_l1_jump_pagetable \in AnyFrame
    BY <1>1, FramesAre DEF kernel_l1_pagetable, kernel_l1_jump_pagetable
  <2>. QED BY <1>1, <1>2, <2>1 DEF BlocksAbove
<1>7. Rooted(G, V)
  BY <1>1, <1>2, <1>3 DEF Rooted
<1>8. Owned(G, V, X)
  <2>1. \A g \in HeapFrame \ {f} : G[g] = F[g]
    BY <1>2, <1>3
  <2>. QED BY <1>1, <1>2, <1>4, <1>5, <2>1 DEF Owned
<1>. QED BY <1>2, <1>5, <1>6, <1>7, <1>8 DEF TablesSound

\* A free frame becomes an empty table that an entry, null before, leads to.
LEMMA LinkTable ==
  ASSUME NEW F, NEW V, NEW X, TablesSound(F, V, X),
         NEW t \in HeapFrame, F[t].kind \in {"l1", "l2"}, NEW i \in Entries(F[t].kind), F[t].entry[i] = 0,
         F[t].kind = "l1" => i <= 3,
         NEW n \in HeapFrame, F[n].kind = "free",
         NEW G, FramesTyped(G), G[n] = EmptyTable(IF F[t].kind = "l1" THEN "l2" ELSE "l3"),
         EntrySet(F, G, t, i, -n), \A u \in AnyFrame : u # t /\ u # n => G[u] = F[u]
  PROVE  TablesSound(G, V, X)
<1>1. /\ FramesTyped(F) /\ BlocksAbove(F) /\ SlotsTyped(F) /\ SlotsUnique(F) /\ Rooted(F, V) /\ Owned(F, V, X)
  BY DEF TablesSound
<1>2. PICK k \in {"l2", "l3"} : k = (IF F[t].kind = "l1" THEN "l2" ELSE "l3")
  OBVIOUS
<1>3. /\ n # t /\ n \in AnyFrame /\ t \in AnyFrame /\ i \in 0..7 /\ n \in Int /\ n > 0
      /\ HeapFrame \subseteq AnyFrame /\ t # kernel_l1_pagetable /\ t # kernel_l1_jump_pagetable
      /\ n # kernel_l1_pagetable /\ n # kernel_l1_jump_pagetable
      /\ kernel_l1_pagetable \in AnyFrame /\ kernel_l1_jump_pagetable \in AnyFrame
  BY FramesAre DEF AnyFrame, Entries, kernel_l1_pagetable, kernel_l1_jump_pagetable
<1>4. G[n].kind = k /\ \A j \in Entries(k) : G[n].entry[j] = 0
  BY <1>2 DEF EmptyTable
<1>5. /\ G[t].kind = F[t].kind /\ G[t].entry[i] = -n
      /\ \A j \in Entries(F[t].kind) : j # i => G[t].entry[j] = F[t].entry[j]
  BY DEF EntrySet
<1>6. ASSUME NEW u \in HeapFrame, NEW j \in 0..7
      PROVE  /\ (IsSlot(G, u, j) <=> (IsSlot(F, u, j) \/ (u = t /\ j = i)))
             /\ IsSlot(F, u, j) => G[u].kind = F[u].kind /\ G[u].entry[j] = F[u].entry[j]
                                   /\ Target(G, u, j) = Target(F, u, j) /\ (u # t \/ j # i) /\ u # n
  <2>1. CASE u = n
    <3>1. ~IsSlot(G, u, j) /\ ~IsSlot(F, u, j)
      BY <1>4, <2>1, SlotIs
    <3>. QED BY <1>3, <2>1, <3>1
  <2>2. CASE u = t /\ j = i
    <3>1. ~IsSlot(F, u, j)
      BY <2>2, SlotIs
    <3>2. IsSlot(G, u, j)
      BY <1>3, <1>5, <2>2, SlotIs
    <3>. QED BY <2>2, <3>1, <3>2
  <2>3. CASE u = t /\ j # i
    <3>1. j \in Entries(F[t].kind) => G[t].entry[j] = F[t].entry[j]
      BY <1>5, <2>3
    <3>2. IsSlot(G, u, j) <=> IsSlot(F, u, j)
      BY <1>5, <2>3, <3>1, SlotIs
    <3>3. IsSlot(F, u, j) => j \in Entries(F[t].kind)
      BY <2>3, SlotIs
    <3>. QED BY <1>3, <1>5, <2>3, <3>1, <3>2, <3>3 DEF Target
  <2>4. CASE u # t /\ u # n
    <3>1. G[u] = F[u]
      BY <1>3, <2>4
    <3>. QED BY <2>4, <3>1 DEF IsSlot, Target
  <2>. QED BY <2>1, <2>2, <2>3, <2>4
<1>7. Target(G, t, i) = n /\ IsSlot(G, t, i)
  BY <1>3, <1>5, <1>6 DEF Target, __get_ppn
<1>8. \A u \in HeapFrame, j \in 0..7 : IsSlot(F, u, j) => /\ Target(F, u, j) \in HeapFrame /\ Target(F, u, j) # n
                                                         /\ G[Target(F, u, j)].kind = F[Target(F, u, j)].kind
  <2>. SUFFICES ASSUME NEW u \in HeapFrame, NEW j \in 0..7, IsSlot(F, u, j)
                PROVE  /\ Target(F, u, j) \in HeapFrame /\ Target(F, u, j) # n
                       /\ G[Target(F, u, j)].kind = F[Target(F, u, j)].kind
    OBVIOUS
  <2>1. Target(F, u, j) \in HeapFrame /\ F[Target(F, u, j)].kind # "free"
    BY <1>1, SlotLeads
  <2>. QED BY <1>3, <1>5, <2>1
<1>9. SlotsTyped(G)
  <2>. SUFFICES ASSUME NEW u \in HeapFrame, NEW j \in 0..7, IsSlot(G, u, j) PROVE SlotTyped(G, u, j)
    BY DEF SlotsTyped
  <2>1. CASE u = t /\ j = i
    BY <1>2, <1>3, <1>4, <1>5, <1>7, <2>1 DEF SlotTyped
  <2>2. CASE IsSlot(F, u, j)
    <3>1. SlotTyped(F, u, j)
      BY <1>1, <2>2 DEF SlotsTyped
    <3>2. /\ G[u].kind = F[u].kind /\ G[u].entry[j] = F[u].entry[j] /\ Target(G, u, j) = Target(F, u, j)
          /\ G[Target(F, u, j)].kind = F[Target(F, u, j)].kind
      BY <1>6, <1>8, <2>2
    <3>. QED BY <3>1, <3>2 DEF SlotTyped
  <2>. QED BY <1>6, <2>1, <2>2
<1>10. SlotsUnique(G)
  <2>. SUFFICES ASSUME NEW u \in HeapFrame, NEW w \in HeapFrame, NEW j \in 0..7, NEW m \in 0..7,
                       IsSlot(G, u, j), IsSlot(G, w, m), Target(G, u, j) = Target(G, w, m)
                PROVE  u = w /\ j = m
    BY DEF SlotsUnique
  <2>1. CASE IsSlot(F, u, j) /\ IsSlot(F, w, m)
    BY <1>1, <1>6, <2>1 DEF SlotsUnique
  <2>2. CASE ~IsSlot(F, u, j) /\ ~IsSlot(F, w, m)
    BY <1>6, <2>2
  <2>3. CASE IsSlot(F, u, j) /\ ~IsSlot(F, w, m)
    BY <1>6, <1>7, <1>8, <2>3
  <2>4. CASE ~IsSlot(F, u, j) /\ IsSlot(F, w, m)
    BY <1>6, <1>7, <1>8, <2>4
  <2>. QED BY <2>1, <2>2, <2>3, <2>4
<1>11. BlocksAbove(G)
  <2>1. \A u \in AnyFrame : G[u].kind = "l1" => u # n
    BY <1>2, <1>4
  <2>2. \A u \in AnyFrame : G[u].kind = "l1" => \A j \in 4..7 : G[u].entry[j] >= 0
    <3>. SUFFICES ASSUME NEW u \in AnyFrame, G[u].kind = "l1", NEW j \in 4..7 PROVE G[u].entry[j] >= 0
      OBVIOUS
    <3>1. CASE u # t
      BY <1>1, <2>1, <3>1 DEF BlocksAbove
    <3>2. CASE u = t
      <4>1. F[t].kind = "l1" /\ j # i /\ j \in Entries("l1")
        BY <1>5, <3>2 DEF Entries
      <4>. QED BY <1>1, <1>3, <1>5, <3>2, <4>1 DEF BlocksAbove
    <3>. QED BY <3>1, <3>2
  <2>. QED BY <1>1, <1>3, <2>2 DEF BlocksAbove
<1>12. Rooted(G, V)
  <2>1. \A u \in HeapFrame : F[u].kind = "l1" => G[u].kind = "l1"
    BY <1>3, <1>5
  <2>. QED BY <1>1, <2>1 DEF Rooted
<1>13. Owned(G, V, X)
  <2>1. \A f \in HeapFrame : f # n => G[f].kind = F[f].kind
    BY <1>3, <1>5
  <2>2. ASSUME NEW f \in HeapFrame \ X
        PROVE  /\ G[f].kind = "l1" => \E v \in UserVtable : V[v] = f
               /\ G[f].kind \in {"l2", "l3", "data"} =>
                    \E u \in HeapFrame, j \in 0..7 : IsSlot(G, u, j) /\ Target(G, u, j) = f
    <3>1. CASE f = n
      BY <1>2, <1>3, <1>4, <1>7, <3>1
    <3>2. CASE f # n
      <4>1. G[f].kind = F[f].kind
        BY <2>1, <3>2
      <4>2. /\ F[f].kind = "l1" => \E v \in UserVtable : V[v] = f
            /\ F[f].kind \in {"l2", "l3", "data"} =>
                 \E u \in HeapFrame, j \in 0..7 : IsSlot(F, u, j) /\ Target(F, u, j) = f
        BY <1>1 DEF Owned
      <4>. QED BY <1>6, <4>1, <4>2
    <3>. QED BY <3>1, <3>2
  <2>3. \A f \in X : f \in HeapFrame /\ F[f].kind = "data" /\ f # n
    BY <1>1 DEF Owned
  <2>4. \A u \in HeapFrame, j \in 0..7 : IsSlot(G, u, j) => Target(G, u, j) \notin X
    BY <1>1, <1>6, <1>7, <2>3 DEF Owned
  <2>. QED BY <2>1, <2>2, <2>3, <2>4 DEF Owned
<1>. QED BY <1>9, <1>10, <1>11, <1>12, <1>13 DEF TablesSound

\* What an entry of the last level leaves behind when it is overwritten.
Replaced(F, t, i) == IF F[t].entry[i] = 0 THEN {} ELSE {Target(F, t, i)}

\* A page nobody refers to is put into an entry of a table of the last level; nobody
\* refers to the page that was there.
LEMMA LinkPage ==
  ASSUME NEW F, NEW V, NEW X, NEW f, f \notin X, TablesSound(F, V, X \cup {f}),
         NEW t \in HeapFrame, F[t].kind = "l3", NEW i \in 0..1,
         NEW G, FramesTyped(G), EntrySet(F, G, t, i, Leaf(f)), \A u \in AnyFrame : u # t => G[u] = F[u]
  PROVE  TablesSound(G, V, X \cup Replaced(F, t, i))
<1>1. /\ FramesTyped(F) /\ BlocksAbove(F) /\ SlotsTyped(F) /\ SlotsUnique(F) /\ Rooted(F, V) /\ Owned(F, V, X \cup {f})
      /\ f \in HeapFrame /\ F[f].kind = "data"
  BY DEF TablesSound, Owned
<1>2. /\ f # t /\ f \in AnyFrame /\ t \in AnyFrame /\ i \in 0..7 /\ f \in Int /\ f > 0
      /\ HeapFrame \subseteq AnyFrame /\ t # kernel_l1_pagetable /\ t # kernel_l1_jump_pagetable
      /\ kernel_l1_pagetable \in AnyFrame /\ kernel_l1_jump_pagetable \in AnyFrame
  BY <1>1, FramesAre DEF AnyFrame, kernel_l1_pagetable, kernel_l1_jump_pagetable
<1>3. /\ G[t].kind = F[t].kind /\ G[t].entry[i] = f + 1 /\ Entries(F[t].kind) = 0..1
      /\ \A j \in 0..1 : j # i => G[t].entry[j] = F[t].entry[j]
  BY DEF EntrySet, Entries, Leaf
<1>4. \A u \in AnyFrame : G[u].kind = F[u].kind
  BY <1>3
<1>5. ASSUME NEW u \in HeapFrame, NEW j \in 0..7, u # t \/ j # i
      PROVE  /\ (IsSlot(G, u, j) <=> IsSlot(F, u, j))
             /\ IsSlot(F, u, j) => G[u].entry[j] = F[u].entry[j] /\ Target(G, u, j) = Target(F, u, j)
  <2>1. CASE u = t
    <3>1. j \in 0..1 => G[t].entry[j] = F[t].entry[j]
      BY <1>3, <1>5, <2>1
    <3>2. IsSlot(G, u, j) <=> IsSlot(F, u, j)
      BY <1>3, <2>1, <3>1, SlotIs
    <3>3. IsSlot(F, u, j) => j \in 0..1
      BY <1>3, <2>1, SlotIs
    <3>. QED BY <1>3, <2>1, <3>1, <3>2, <3>3 DEF Target
  <2>2. CASE u # t
    <3>1. G[u] = F[u]
      BY <1>2, <2>2
    <3>. QED BY <3>1 DEF IsSlot, Target
  <2>. QED BY <2>1, <2>2
<1>6. Target(G, t, i) = f /\ IsSlot(G, t, i)
  <2>1. G[t].entry[i] # 0
    BY <1>2, <1>3
  <2>. QED BY <1>2, <1>3, <2>1, SlotIs DEF Target, __get_ppn
<1>7. \A u \in HeapFrame, j \in 0..7 : IsSlot(F, u, j) => Target(F, u, j) # f /\ Target(F, u, j) \notin X
  BY <1>1 DEF Owned
<1>8. SlotsTyped(G)
  <2>. SUFFICES ASSUME NEW u \in HeapFrame, NEW j \in 0..7, IsSlot(G, u, j) PROVE SlotTyped(G, u, j)
    BY DEF SlotsTyped
  <2>1. CASE u = t /\ j = i
    BY <1>1, <1>2, <1>3, <1>4, <1>6, <2>1 DEF SlotTyped
  <2>2. CASE u # t \/ j # i
    <3>1. IsSlot(F, u, j) /\ SlotTyped(F, u, j)
      BY <1>1, <1>5, <2>2 DEF SlotsTyped
    <3>2. Target(F, u, j) \in HeapFrame /\ G[Target(F, u, j)].kind = F[Target(F, u, j)].kind /\ G[u].kind = F[u].kind
      BY <1>2, <1>4, <3>1 DEF SlotTyped
    <3>3. G[u].entry[j] = F[u].entry[j] /\ Target(G, u, j) = Target(F, u, j)
      BY <1>5, <2>2, <3>1
    <3>. QED BY <3>1, <3>2, <3>3 DEF SlotTyped
  <2>. QED BY <2>1, <2>2
<1>9. SlotsUnique(G)
  <2>. SUFFICES ASSUME NEW u \in HeapFrame, NEW w \in HeapFrame, NEW j \in 0..7, NEW m \in 0..7,
                       IsSlot(G, u, j), IsSlot(G, w, m), Target(G, u, j) = Target(G, w, m)
                PROVE  u = w /\ j = m
    BY DEF SlotsUnique
  <2>1. CASE (u # t \/ j # i) /\ (w # t \/ m # i)
    BY <1>1, <1>5, <2>1 DEF SlotsUnique
  <2>2. CASE u = t /\ j = i /\ w = t /\ m = i
    BY <2>2
  <2>3. CASE (u # t \/ j # i) /\ w = t /\ m = i
    BY <1>5, <1>6, <1>7, <2>3
  <2>4. CASE u = t /\ j = i /\ (w # t \/ m # i)
    BY <1>5, <1>6, <1>7, <2>4
  <2>. QED BY <2>1, <2>2, <2>3, <2>4
<1>10. BlocksAbove(G)
  <2>1. \A u \in AnyFrame : G[u].kind = "l1" => G[u] = F[u]
    BY <1>3
  <2>. QED BY <1>1, <1>2, <1>4, <2>1 DEF BlocksAbove
<1>11. Rooted(G, V)
  BY <1>1, <1>2, <1>4 DEF Rooted
<1>12. F[t].entry[i] # 0 => IsSlot(F, t, i) /\ Target(F, t, i) \in HeapFrame /\ F[Target(F, t, i)].kind = "data"
  <2>1. F[t].entry[i] # 0 => IsSlot(F, t, i)
    BY <1>3, SlotIs
  <2>. QED BY <1>1, <2>1, SlotLeads
<1>13. Owned(G, V, X \cup Replaced(F, t, i))
  <2>1. ASSUME NEW g \in HeapFrame \ (X \cup Replaced(F, t, i))
        PROVE  /\ G[g].kind = "l1" => \E v \in UserVtable : V[v] = g
               /\ G[g].kind \in {"l2", "l3", "data"} =>
                    \E u \in HeapFrame, j \in 0..7 : IsSlot(G, u, j) /\ Target(G, u, j) = g
    <3>1. CASE g = f
      BY <1>1, <1>2, <1>4, <1>6, <3>1
    <3>2. CASE g # f
      <4>1. G[g].kind = F[g].kind
        BY <1>2, <1>4
      <4>2. /\ F[g].kind = "l1" => \E v \in UserVtable : V[v] = g
            /\ F[g].kind \in {"l2", "l3", "data"} =>
                 \E u \in HeapFrame, j \in 0..7 : IsSlot(F, u, j) /\ Target(F, u, j) = g
        BY <1>1, <3>2 DEF Owned
      <4>3. ~(IsSlot(F, t, i) /\ Target(F, t, i) = g)
        BY SlotIs DEF Replaced
      <4>. QED BY <1>5, <4>1, <4>2, <4>3
    <3>. QED BY <3>1, <3>2
  <2>2. ASSUME NEW g \in X \cup Replaced(F, t, i) PROVE g \in HeapFrame /\ G[g].kind = "data"
    <3>1. g \in HeapFrame /\ F[g].kind = "data"
      BY <1>1, <1>12 DEF Owned, Replaced
    <3>. QED BY <1>2, <1>4, <3>1
  <2>3. ASSUME NEW u \in HeapFrame, NEW j \in 0..7, IsSlot(G, u, j) PROVE Target(G, u, j) \notin X \cup Replaced(F, t, i)
    <3>1. CASE u = t /\ j = i
      BY <1>2, <1>6, <1>7, <1>12, <3>1 DEF Replaced
    <3>2. CASE u # t \/ j # i
      <4>1. IsSlot(F, u, j) /\ Target(G, u, j) = Target(F, u, j)
        BY <1>5, <2>3, <3>2
      <4>2. F[t].entry[i] # 0 => Target(F, u, j) # Target(F, t, i)
        BY <1>1, <1>2, <1>12, <3>2, <4>1 DEF SlotsUnique
      <4>. QED BY <1>7, <4>1, <4>2 DEF Replaced
    <3>. QED BY <3>1, <3>2
  <2>. QED BY <2>1, <2>2, <2>3 DEF Owned
<1>. QED BY <1>8, <1>9, <1>10, <1>11, <1>13 DEF TablesSound

-----------------------------------------------------------------------------
\* The entries on the way from a first level to a page.
E1(F, l1, p) == F[l1].entry[OS_MMU_L1_ID(p)]
E2(F, l1, p) == F[-E1(F, l1, p)].entry[OS_MMU_L2_ID(p)]
E3(F, l1, p) == F[-E2(F, l1, p)].entry[OS_MMU_L3_ID(p)]

\* What the walk makes of them.
LEMMA TranslateIs ==
  ASSUME NEW F, NEW l1, NEW p \in AddressSpace
  PROVE  /\ E1(F, l1, p) = 0 => Translate(F, l1, p) = -1
         /\ E1(F, l1, p) \in Int /\ E1(F, l1, p) > 0 => Translate(F, l1, p) = (E1(F, l1, p) - 1) + (p % 4)
         /\ E1(F, l1, p) \in Int /\ E1(F, l1, p) < 0 =>
              /\ E2(F, l1, p) = 0 => Translate(F, l1, p) = -1
              /\ E2(F, l1, p) \in Int /\ E2(F, l1, p) > 0 => Translate(F, l1, p) = (E2(F, l1, p) - 1) + (p % 2)
              /\ E2(F, l1, p) \in Int /\ E2(F, l1, p) < 0 =>
                   /\ E3(F, l1, p) = 0 => Translate(F, l1, p) = -1
                   /\ E3(F, l1, p) \in Int /\ E3(F, l1, p) > 0 => Translate(F, l1, p) = E3(F, l1, p) - 1
<1>1. PICK a, b, c : a = E1(F, l1, p) /\ b = E2(F, l1, p) /\ c = E3(F, l1, p)
  OBVIOUS
<1>2. Walk(F, l1, p) = IF a >= 0 THEN <<a, 4>> ELSE IF b >= 0 THEN <<b, 2>> ELSE <<c, 1>>
  BY <1>1 DEF Walk, E1, E2, E3, OS_MMU_L1_SIZE, OS_MMU_L2_SIZE, OS_MMU_L3_SIZE
<1>3. PICK w : w = Walk(F, l1, p)
  OBVIOUS
<1>4. Translate(F, l1, p) = IF w[1] = 0 THEN -1 ELSE __get_ppn(w[1]) + (p % w[2])
  BY <1>3 DEF Translate
<1>5. p \in 0..31 /\ p % 1 = 0
  BY DEF AddressSpace
<1>6. \A e \in Int : e > 0 => __get_ppn(e) = e - 1
  BY DEF __get_ppn
<1>7. a = 0 => Translate(F, l1, p) = -1
  BY <1>2, <1>3, <1>4
<1>8. ASSUME a \in Int, a > 0 PROVE Translate(F, l1, p) = (a - 1) + (p % 4)
  <2>1. w = <<a, 4>>
    BY <1>2, <1>3, <1>8
  <2>. QED BY <1>4, <1>6, <1>8, <2>1
<1>9. ASSUME a \in Int, a < 0, b = 0 PROVE Translate(F, l1, p) = -1
  BY <1>2, <1>3, <1>4, <1>9
<1>10. ASSUME a \in Int, a < 0, b \in Int, b > 0 PROVE Translate(F, l1, p) = (b - 1) + (p % 2)
  <2>1. w = <<b, 2>>
    BY <1>2, <1>3, <1>10
  <2>. QED BY <1>4, <1>6, <1>10, <2>1
<1>11. ASSUME a \in Int, a < 0, b \in Int, b < 0 
       PROVE /\ c = 0 => Translate(F, l1, p) = -1
             /\ c \in Int /\ c > 0 => Translate(F, l1, p) = c - 1
  <2>1. w = <<c, 1>>
    BY <1>2, <1>3, <1>11
  <2>. QED BY <1>4, <1>5, <1>6, <2>1
<1>. QED BY <1>1, <1>7, <1>8, <1>9, <1>10, <1>11

\* Where the entries on the way lead: below the blocks of the first level all is
\* page tables of user space.
LEMMA Path ==
  ASSUME NEW F, FramesTyped(F), BlocksAbove(F), SlotsTyped(F),
         NEW l1 \in AnyFrame, F[l1].kind = "l1", NEW p \in AddressSpace
  PROVE  /\ E1(F, l1, p) \in Int
         /\ E1(F, l1, p) < 0 =>
              /\ p < KERNEL_START /\ l1 \in HeapFrame /\ IsSlot(F, l1, OS_MMU_L1_ID(p))
              /\ Target(F, l1, OS_MMU_L1_ID(p)) = -E1(F, l1, p)
              /\ -E1(F, l1, p) \in HeapFrame /\ F[-E1(F, l1, p)].kind = "l2" /\ E2(F, l1, p) \in Int
              /\ E2(F, l1, p) = 0 \/
                   /\ E2(F, l1, p) < 0 /\ IsSlot(F, -E1(F, l1, p), OS_MMU_L2_ID(p))
                   /\ Target(F, -E1(F, l1, p), OS_MMU_L2_ID(p)) = -E2(F, l1, p)
                   /\ -E2(F, l1, p) \in HeapFrame /\ F[-E2(F, l1, p)].kind = "l3" /\ E3(F, l1, p) \in Int
                   /\ E3(F, l1, p) = 0 \/
                        /\ E3(F, l1, p) > 0 /\ IsSlot(F, -E2(F, l1, p), OS_MMU_L3_ID(p))
                        /\ Target(F, -E2(F, l1, p), OS_MMU_L3_ID(p)) = E3(F, l1, p) - 1
<1>1. PICK a, b, c : a = E1(F, l1, p) /\ b = E2(F, l1, p) /\ c = E3(F, l1, p)
  OBVIOUS
<1>2. PICK i \in 0..7, j \in 0..1, k \in 0..1 : /\ i = OS_MMU_L1_ID(p) /\ j = OS_MMU_L2_ID(p) /\ k = OS_MMU_L3_ID(p)
                                              /\ (i <= 3 <=> p < KERNEL_START)
  BY Parts, SMTT(30)
<1>3. a = F[l1].entry[i] /\ b = F[-a].entry[j] /\ c = F[-b].entry[k]
  <2>1. /\ E1(F, l1, p) = F[l1].entry[OS_MMU_L1_ID(p)]
        /\ E2(F, l1, p) = F[-E1(F, l1, p)].entry[OS_MMU_L2_ID(p)]
        /\ E3(F, l1, p) = F[-E2(F, l1, p)].entry[OS_MMU_L3_ID(p)]
    BY DEF E1, E2, E3
  <2>2. a = E1(F, l1, p) /\ b = E2(F, l1, p) /\ c = E3(F, l1, p)
    BY <1>1
  <2>3. i = OS_MMU_L1_ID(p) /\ j = OS_MMU_L2_ID(p) /\ k = OS_MMU_L3_ID(p)
    BY <1>2
  <2>. QED BY <2>1, <2>2, <2>3
<1>4. a \in Int
  <2>1. F[l1].entry \in [0..7 -> Int]
    BY FrameKinds DEF Entries
  <2>. QED BY <1>3, <2>1
<1>5. ASSUME a < 0
      PROVE  /\ i <= 3 /\ l1 \in HeapFrame /\ IsSlot(F, l1, i) /\ Target(F, l1, i) = -a
             /\ -a \in HeapFrame /\ F[-a].kind = "l2" /\ b \in Int
  <2>1. i <= 3
    BY <1>2, <1>3, <1>4, <1>5 DEF BlocksAbove
  <2>2. l1 \in HeapFrame
    BY <1>3, <1>4, <1>5, <2>1 DEF BlocksAbove, AnyFrame
  <2>3. IsSlot(F, l1, i)
    BY <1>3, <1>4, <1>5, <2>1, SlotIs DEF Entries
  <2>4. Target(F, l1, i) \in HeapFrame /\ a = -Target(F, l1, i) /\ F[Target(F, l1, i)].kind = "l2"
    BY <1>3, <2>2, <2>3, SlotLeads
  <2>5. Target(F, l1, i) = -a /\ -a \in AnyFrame
    BY <2>4, HeapNumber
  <2>6. F[-a].entry \in [0..1 -> Int]
    BY <2>4, <2>5, FrameKinds DEF Entries
  <2>. QED BY <1>3, <2>1, <2>2, <2>3, <2>4, <2>5, <2>6
<1>6. ASSUME a < 0, b # 0
      PROVE  /\ b < 0 /\ IsSlot(F, -a, j) /\ Target(F, -a, j) = -b
             /\ -b \in HeapFrame /\ F[-b].kind = "l3" /\ c \in Int
  <2>1. IsSlot(F, -a, j)
    BY <1>3, <1>5, <1>6, SlotIs DEF Entries
  <2>2. Target(F, -a, j) \in HeapFrame /\ b < 0 /\ b = -Target(F, -a, j) /\ F[Target(F, -a, j)].kind = "l3"
    BY <1>3, <1>5, <1>6, <2>1, SlotLeads
  <2>3. Target(F, -a, j) = -b /\ -b \in AnyFrame
    BY <2>2, HeapNumber
  <2>4. F[-b].entry \in [0..1 -> Int]
    BY <2>2, <2>3, FrameKinds DEF Entries
  <2>. QED BY <1>3, <2>1, <2>2, <2>3, <2>4
<1>7. ASSUME a < 0, b # 0, c # 0
      PROVE  c > 0 /\ IsSlot(F, -b, k) /\ Target(F, -b, k) = c - 1
  <2>1. IsSlot(F, -b, k)
    BY <1>3, <1>6, <1>7, SlotIs DEF Entries
  <2>2. Target(F, -b, k) \in HeapFrame /\ c > 0 /\ c = Leaf(Target(F, -b, k))
    <3>1. PICK t \in HeapFrame : t = -b /\ IsSlot(F, t, k) /\ F[t].kind = "l3" /\ c = F[t].entry[k]
      BY <1>3, <1>6, <1>7, <2>1
    <3>2. Target(F, t, k) \in HeapFrame /\ F[t].entry[k] > 0 /\ F[t].entry[k] = Leaf(Target(F, t, k))
      BY <3>1, SlotLeads
    <3>. QED BY <3>1, <3>2, SMTT(30)
  <2>3. Target(F, -b, k) = c - 1
    BY <2>2, HeapNumber DEF Leaf
  <2>. QED BY <2>1, <2>2, <2>3
<1>8. -E1(F, l1, p) = -a /\ -E2(F, l1, p) = -b
  BY <1>1
<1>. QED BY <1>1, <1>2, <1>4, <1>5, <1>6, <1>7, <1>8

\* Translations are made of the entries on the way.
LEMMA SameWay ==
  ASSUME NEW F, NEW G, NEW l1, NEW m1, NEW p \in AddressSpace,
         E1(F, l1, p) \in Int, E1(G, m1, p) = E1(F, l1, p),
         E1(F, l1, p) < 0 => E2(G, m1, p) = E2(F, l1, p) /\ E2(F, l1, p) \in Int,
         E1(F, l1, p) < 0 /\ E2(F, l1, p) < 0 => E3(G, m1, p) = E3(F, l1, p) /\ E3(F, l1, p) \in Int
  PROVE  Translate(G, m1, p) = Translate(F, l1, p)
<1>1. PICK a, b, c : a = E1(F, l1, p) /\ b = E2(F, l1, p) /\ c = E3(F, l1, p)
  OBVIOUS
<1>2. PICK d, e : d = E2(G, m1, p) /\ e = E3(G, m1, p)
  OBVIOUS
<1>3. /\ a \in Int /\ a = E1(G, m1, p) /\ (a < 0 => d = b /\ b \in Int)
      /\ (a < 0 /\ b < 0 => e = c /\ c \in Int)
  BY <1>1, <1>2, SMTT(30)
<1>4. Walk(F, l1, p) = IF a >= 0 THEN <<a, 4>> ELSE IF b >= 0 THEN <<b, 2>> ELSE <<c, 1>>
  BY <1>1 DEF Walk, E1, E2, E3, OS_MMU_L1_SIZE, OS_MMU_L2_SIZE, OS_MMU_L3_SIZE
<1>5. Walk(G, m1, p) = IF a >= 0 THEN <<a, 4>> ELSE IF d >= 0 THEN <<d, 2>> ELSE <<e, 1>>
  <2>1. Walk(G, m1, p) = IF E1(G, m1, p) >= 0 THEN <<E1(G, m1, p), 4>>
                         ELSE IF E2(G, m1, p) >= 0 THEN <<E2(G, m1, p), 2>> ELSE <<E3(G, m1, p), 1>>
    BY DEF Walk, E1, E2, E3, OS_MMU_L1_SIZE, OS_MMU_L2_SIZE, OS_MMU_L3_SIZE
  <2>. QED BY <1>2, <1>3, <2>1, SMTT(30)
<1>6. Walk(G, m1, p) = Walk(F, l1, p)
  BY <1>3, <1>4, <1>5
<1>. QED BY <1>6 DEF Translate

\* A new empty table translates nothing.
LEMMA LinkKeepsTranslations ==
  ASSUME NEW F, FramesTyped(F), BlocksAbove(F), SlotsTyped(F),
         NEW t \in HeapFrame, F[t].kind \in {"l1", "l2"}, NEW i \in Entries(F[t].kind), F[t].entry[i] = 0,
         NEW n \in HeapFrame, F[n].kind = "free",
         NEW G, G[n] = EmptyTable(IF F[t].kind = "l1" THEN "l2" ELSE "l3"),
         EntrySet(F, G, t, i, -n), \A u \in AnyFrame : u # t /\ u # n => G[u] = F[u],
         NEW l1 \in AnyFrame, F[l1].kind = "l1", NEW p \in AddressSpace
  PROVE  Translate(G, l1, p) = Translate(F, l1, p)
<1>1. PICK a, b, c : a = E1(F, l1, p) /\ b = E2(F, l1, p) /\ c = E3(F, l1, p)
  OBVIOUS
<1>2. PICK x \in 0..7, y \in 0..1, z \in 0..1 : x = OS_MMU_L1_ID(p) /\ y = OS_MMU_L2_ID(p) /\ z = OS_MMU_L3_ID(p)
  BY Parts, SMTT(30)
<1>3. /\ a = F[l1].entry[x] /\ (\A d : d = a => b = F[-d].entry[y]) /\ (\A d : d = b => c = F[-d].entry[z])
  BY <1>1, <1>2 DEF E1, E2, E3
<1>4. /\ a \in Int
      /\ a < 0 => /\ -a \in HeapFrame /\ F[-a].kind = "l2" /\ b \in Int
                  /\ b # 0 => b < 0 /\ -b \in HeapFrame /\ F[-b].kind = "l3" /\ c \in Int
  <2>1. -a = -E1(F, l1, p) /\ -b = -E2(F, l1, p)
    BY <1>1
  <2>. QED BY <1>1, <2>1, Path
<1>5. /\ n # t /\ n \in AnyFrame /\ t \in AnyFrame /\ n \in Int /\ n > 0 /\ -(-n) = n /\ HeapFrame \subseteq AnyFrame
  BY HeapNumber DEF AnyFrame
<1>6. l1 # n
  OBVIOUS
<1>7. /\ G[t].kind = F[t].kind /\ G[t].entry[i] = -n
      /\ \A j \in Entries(F[t].kind) : j # i => G[t].entry[j] = F[t].entry[j]
  BY DEF EntrySet
<1>8. CASE l1 = t /\ x = i
  <2>1. a = 0
    BY <1>3, <1>8
  <2>2. E1(G, l1, p) = -n
    BY <1>2, <1>7, <1>8 DEF E1
  <2>3. E2(G, l1, p) = 0
    <3>1. G[n].entry[y] = 0
      BY <1>8 DEF EmptyTable, Entries
    <3>. QED BY <1>2, <1>5, <2>2, <3>1 DEF E2
  <2>4. Translate(G, l1, p) = -1
    BY <1>5, <2>2, <2>3, TranslateIs
  <2>5. Translate(F, l1, p) = -1
    BY <1>1, <2>1, TranslateIs
  <2>. QED BY <2>4, <2>5
<1>9. CASE ~(l1 = t /\ x = i)
  <2>1. E1(G, l1, p) = a
    <3>1. G[l1].entry[x] = a
      <4>1. CASE l1 = t
        BY <1>3, <1>7, <1>9, <4>1 DEF Entries
      <4>2. CASE l1 # t
        BY <1>3, <1>6, <4>2
      <4>. QED BY <4>1, <4>2
    <3>. QED BY <1>2, <3>1 DEF E1
  <2>2. CASE ~(a < 0)
    BY <1>1, <1>4, <2>1, <2>2, SameWay
  <2>3. CASE a < 0
    <3>1. PICK t2 \in HeapFrame : t2 = -a /\ F[t2].kind = "l2" /\ b = F[t2].entry[y] /\ b \in Int /\ t2 # n
      BY <1>3, <1>4, <2>3
    <3>2. E2(G, l1, p) = G[t2].entry[y]
      BY <1>2, <2>1, <3>1 DEF E2
    <3>3. CASE t2 = t /\ y = i
      <4>1. b = 0 /\ E2(G, l1, p) = -n
        BY <1>7, <3>1, <3>2, <3>3
      <4>2. E3(G, l1, p) = 0
        <5>1. G[n].entry[z] = 0
          BY <3>1, <3>3 DEF EmptyTable, Entries
        <5>. QED BY <1>2, <1>5, <4>1, <5>1 DEF E3
      <4>3. Translate(G, l1, p) = -1
        BY <1>4, <1>5, <2>1, <2>3, <4>1, <4>2, TranslateIs
      <4>4. Translate(F, l1, p) = -1
        BY <1>1, <1>4, <2>3, <4>1, TranslateIs
      <4>. QED BY <4>3, <4>4
    <3>4. CASE ~(t2 = t /\ y = i)
      <4>1. E2(G, l1, p) = b
        <5>1. CASE t2 = t
          BY <1>7, <3>1, <3>2, <3>4, <5>1 DEF Entries
        <5>2. CASE t2 # t
          BY <1>5, <3>1, <3>2, <5>2
        <5>. QED BY <5>1, <5>2
      <4>2. b < 0 => E3(G, l1, p) = c /\ c \in Int
        <5>. SUFFICES ASSUME b < 0 PROVE E3(G, l1, p) = c /\ c \in Int
          OBVIOUS
        <5>1. PICK t3 \in HeapFrame : t3 = -b /\ F[t3].kind = "l3" /\ c = F[t3].entry[z] /\ c \in Int
          BY <1>3, <1>4, <2>3
        <5>2. G[t3] = F[t3]
          BY <1>5, <5>1
        <5>. QED BY <1>2, <4>1, <5>1, <5>2 DEF E3
      <4>3. /\ E1(F, l1, p) \in Int /\ E1(G, l1, p) = E1(F, l1, p)
            /\ E2(G, l1, p) = E2(F, l1, p) /\ E2(F, l1, p) \in Int
            /\ E2(F, l1, p) < 0 => E3(G, l1, p) = E3(F, l1, p) /\ E3(F, l1, p) \in Int
        BY <1>1, <1>4, <2>1, <3>1, <4>1, <4>2
      <4>. QED BY <4>3, SameWay
    <3>. QED BY <3>3, <3>4
  <2>. QED BY <2>2, <2>3
<1>. QED BY <1>8, <1>9

\* Only one page of one page table goes through an entry of the last level.
LEMMA OneWay ==
  ASSUME NEW F, FramesTyped(F), BlocksAbove(F), SlotsTyped(F), SlotsUnique(F),
         NEW l1 \in AnyFrame, F[l1].kind = "l1", NEW p \in AddressSpace, E1(F, l1, p) < 0, E2(F, l1, p) < 0,
         NEW m1 \in AnyFrame, F[m1].kind = "l1", NEW q \in AddressSpace, E1(F, m1, q) < 0, E2(F, m1, q) < 0,
         E2(F, l1, p) = E2(F, m1, q), OS_MMU_L3_ID(p) = OS_MMU_L3_ID(q)
  PROVE  l1 = m1 /\ p = q
<1>1. PICK x, y, u, w : x = -E1(F, l1, p) /\ y = -E2(F, l1, p) /\ u = -E1(F, m1, q) /\ w = -E2(F, m1, q)
  OBVIOUS
<1>2. /\ l1 \in HeapFrame /\ IsSlot(F, l1, OS_MMU_L1_ID(p)) /\ Target(F, l1, OS_MMU_L1_ID(p)) = x /\ x \in HeapFrame
      /\ IsSlot(F, x, OS_MMU_L2_ID(p)) /\ Target(F, x, OS_MMU_L2_ID(p)) = y
  <2>1. E2(F, l1, p) # 0
    OBVIOUS
  <2>. QED BY <1>1, <2>1, Path
<1>3. /\ m1 \in HeapFrame /\ IsSlot(F, m1, OS_MMU_L1_ID(q)) /\ Target(F, m1, OS_MMU_L1_ID(q)) = u /\ u \in HeapFrame
      /\ IsSlot(F, u, OS_MMU_L2_ID(q)) /\ Target(F, u, OS_MMU_L2_ID(q)) = w
  <2>1. E2(F, m1, q) # 0
    OBVIOUS
  <2>. QED BY <1>1, <2>1, Path
<1>4. /\ OS_MMU_L1_ID(p) \in 0..7 /\ OS_MMU_L2_ID(p) \in 0..7 /\ OS_MMU_L1_ID(q) \in 0..7 /\ OS_MMU_L2_ID(q) \in 0..7
  BY Parts
<1>5. x = u /\ OS_MMU_L2_ID(p) = OS_MMU_L2_ID(q)
  BY <1>1, <1>2, <1>3, <1>4 DEF SlotsUnique
<1>6. l1 = m1 /\ OS_MMU_L1_ID(p) = OS_MMU_L1_ID(q)
  BY <1>2, <1>3, <1>4, <1>5 DEF SlotsUnique
<1>. QED BY <1>5, <1>6, SameParts

\* A page that is linked is translated to by the one page number it was linked for.
LEMMA LinkTranslatesOne ==
  ASSUME NEW F, FramesTyped(F), BlocksAbove(F), SlotsTyped(F), SlotsUnique(F),
         NEW l1 \in AnyFrame, F[l1].kind = "l1", NEW va \in AddressSpace, E1(F, l1, va) < 0, E2(F, l1, va) < 0,
         NEW t \in HeapFrame, t = -E2(F, l1, va), F[t].kind = "l3", NEW f \in HeapFrame,
         NEW G, EntrySet(F, G, t, OS_MMU_L3_ID(va), Leaf(f)), \A u \in AnyFrame : u # t => G[u] = F[u]
  PROVE  /\ Translate(G, l1, va) = f
         /\ \A m1 \in AnyFrame, p \in AddressSpace :
              F[m1].kind = "l1" /\ (m1 # l1 \/ p # va) => Translate(G, m1, p) = Translate(F, m1, p)
<1>1. PICK i \in 0..1 : i = OS_MMU_L3_ID(va)
  BY Parts
<1>2. /\ G[t].entry[i] = f + 1 /\ \A j \in 0..1 : j # i => G[t].entry[j] = F[t].entry[j]
  BY <1>1 DEF EntrySet, Entries, Leaf
<1>3. HeapFrame \subseteq AnyFrame
  BY DEF AnyFrame
<1>4. ASSUME NEW m1 \in AnyFrame, F[m1].kind = "l1", NEW p \in AddressSpace
      PROVE  /\ E1(F, m1, p) \in Int /\ E1(G, m1, p) = E1(F, m1, p)
             /\ E1(F, m1, p) < 0 => E2(G, m1, p) = E2(F, m1, p) /\ E2(F, m1, p) \in Int
             /\ E1(F, m1, p) < 0 /\ E2(F, m1, p) < 0 =>
                  /\ E3(G, m1, p) = G[-E2(F, m1, p)].entry[OS_MMU_L3_ID(p)] /\ -E2(F, m1, p) \in HeapFrame
                  /\ E3(F, m1, p) = F[-E2(F, m1, p)].entry[OS_MMU_L3_ID(p)] /\ E3(F, m1, p) \in Int
  <2>1. E1(F, m1, p) \in Int /\ E1(G, m1, p) = E1(F, m1, p)
    <3>1. G[m1] = F[m1]
      BY <1>4
    <3>2. E1(F, m1, p) \in Int
      BY <1>4, Path
    <3>. QED BY <3>1, <3>2 DEF E1
  <2>2. ASSUME E1(F, m1, p) < 0 PROVE E2(G, m1, p) = E2(F, m1, p) /\ E2(F, m1, p) \in Int
    <3>1. PICK x \in HeapFrame : x = -E1(F, m1, p) /\ F[x].kind = "l2" /\ E2(F, m1, p) \in Int
      BY <1>4, <2>2, Path
    <3>2. G[x] = F[x]
      BY <1>3, <3>1
    <3>3. E2(G, m1, p) = G[x].entry[OS_MMU_L2_ID(p)] /\ E2(F, m1, p) = F[x].entry[OS_MMU_L2_ID(p)]
      BY <2>1, <3>1 DEF E2
    <3>. QED BY <3>1, <3>2, <3>3
  <2>3. ASSUME E1(F, m1, p) < 0, E2(F, m1, p) < 0
        PROVE  /\ E3(G, m1, p) = G[-E2(F, m1, p)].entry[OS_MMU_L3_ID(p)] /\ -E2(F, m1, p) \in HeapFrame
               /\ E3(F, m1, p) = F[-E2(F, m1, p)].entry[OS_MMU_L3_ID(p)] /\ E3(F, m1, p) \in Int
    <3>1. -E2(F, m1, p) \in HeapFrame /\ E3(F, m1, p) \in Int
      <4>1. E2(F, m1, p) # 0
        BY <2>3
      <4>. QED BY <1>4, <2>3, <4>1, Path
    <3>2. E3(G, m1, p) = G[-E2(F, m1, p)].entry[OS_MMU_L3_ID(p)] /\ E3(F, m1, p) = F[-E2(F, m1, p)].entry[OS_MMU_L3_ID(p)]
      BY <2>2, <2>3 DEF E3
    <3>. QED BY <3>1, <3>2
  <2>. QED BY <2>1, <2>2, <2>3
<1>5. Translate(G, l1, va) = f
  <2>1. /\ E1(G, l1, va) \in Int /\ E1(G, l1, va) < 0 /\ E2(G, l1, va) \in Int /\ E2(G, l1, va) < 0
        /\ E3(G, l1, va) = f + 1
    BY <1>1, <1>2, <1>4
  <2>. QED BY <2>1, HeapNumber, TranslateIs
<1>6. ASSUME NEW m1 \in AnyFrame, NEW p \in AddressSpace, F[m1].kind = "l1", m1 # l1 \/ p # va
      PROVE  Translate(G, m1, p) = Translate(F, m1, p)
  <2>1. ASSUME E1(F, m1, p) < 0, E2(F, m1, p) < 0 PROVE E3(G, m1, p) = E3(F, m1, p)
    <3>1. PICK x \in HeapFrame : x = -E2(F, m1, p)
      BY <1>4, <1>6, <2>1
    <3>2. E3(G, m1, p) = G[x].entry[OS_MMU_L3_ID(p)] /\ E3(F, m1, p) = F[x].entry[OS_MMU_L3_ID(p)]
      BY <1>4, <1>6, <2>1, <3>1
    <3>3. ~(x = t /\ OS_MMU_L3_ID(p) = i)
      <4>. SUFFICES ASSUME x = t, OS_MMU_L3_ID(p) = i PROVE FALSE
        OBVIOUS
      <4>1. E2(F, l1, va) = E2(F, m1, p)
        <5>1. E2(F, l1, va) \in Int /\ E2(F, m1, p) \in Int
          BY <1>4, <1>6, <2>1
        <5>. QED BY <3>1, <5>1
      <4>. QED BY <1>1, <1>6, <2>1, <4>1, OneWay
    <3>4. OS_MMU_L3_ID(p) \in 0..1
      BY Parts
    <3>. QED BY <1>2, <1>3, <3>1, <3>2, <3>3, <3>4
  <2>. QED BY <1>4, <1>6, <2>1, SameWay
<1>. QED BY <1>5, <1>6

-----------------------------------------------------------------------------
\* A range within one entry takes one round.
LEMMA OneRoundL2 ==
  ASSUME NEW w, NEW t, NEW size, NEW va_end, va_end = w.va + size - 1,
         NEW first \in Int, OS_MMU_L2_ID(w.va) = first, OS_MMU_L2_ID(va_end) = first
  PROVE  create_l2(w, t, size) = L2Round([w EXCEPT !.size = size], t, first, va_end)
<1>. DEFINE rounds == OS_MMU_L2_ID(w.va + size - 1) - OS_MMU_L2_ID(w.va) + 1
            B(h, n) == IF n = 0 THEN [w EXCEPT !.size = size]
                       ELSE L2Round(h[n - 1], t, OS_MMU_L2_ID(w.va) + n - 1, w.va + size - 1)
            P(h) == h = [n \in 0..rounds |-> B(h, n)]
<1>1. create_l2(w, t, size) = (CHOOSE h : P(h))[rounds]
  BY Zenon DEF create_l2
<1>2. rounds = 1
  OBVIOUS
<1>3. PICK v, r : v = [w EXCEPT !.size = size] /\ r = L2Round(v, t, first, va_end)
  OBVIOUS
<1>4. ASSUME NEW h PROVE B(h, 0) = v /\ (h[0] = v => B(h, 1) = r)
  <2>1. 1 - 1 = 0 /\ first + 1 - 1 = first /\ 1 # 0
    OBVIOUS
  <2>. QED BY <1>3, <2>1
<1>. HIDE DEF B
<1>5. \E h : P(h)
  <2>1. PICK h : h = [n \in 0..1 |-> IF n = 0 THEN v ELSE r]
    OBVIOUS
  <2>2. \A n \in 0..1 : h[n] = B(h, n)
    <3>1. h[0] = v /\ h[1] = r
      BY <2>1
    <3>. QED BY <1>4, <3>1
  <2>. QED BY <1>2, <2>1, <2>2
<1>6. ASSUME NEW h, P(h) PROVE h[rounds] = r
  <2>1. h[0] = B(h, 0) /\ h[1] = B(h, 1)
    BY <1>2, <1>6
  <2>. QED BY <1>2, <1>4, <2>1
<1>. HIDE DEF P, rounds
<1>7. PICK g : g = CHOOSE h : P(h)
  OBVIOUS
<1>8. P(g)
  BY <1>5, <1>7
<1>9. create_l2(w, t, size) = g[rounds]
  BY <1>1, <1>7, Zenon
<1>. QED BY <1>3, <1>6, <1>8, <1>9

\* A range within one or two entries takes as many rounds.
LEMMA RoundsL1 ==
  ASSUME NEW F, NEW l1, NEW va, NEW pa, NEW size, NEW va_end, va_end = va + size - 1,
         NEW first \in Int, OS_MMU_L1_ID(va) = first,
         NEW more \in {0, 1}, OS_MMU_L1_ID(va_end) = first + more,
         NEW w, w = [F |-> F, va |-> OS_MMU_GET_EFFECTIVE_VA(va), pa |-> pa, size |-> size, err |-> "ok"]
  PROVE  /\ more = 0 => create_mapping(F, l1, va, pa, size) = L1Round(w, l1, first, va_end)
         /\ more = 1 => create_mapping(F, l1, va, pa, size) = L1Round(L1Round(w, l1, first, va_end), l1, first + 1, va_end)
<1>. DEFINE rounds == OS_MMU_L1_ID(va + size - 1) - OS_MMU_L1_ID(va) + 1
            B(h, n) == IF n = 0 THEN [F |-> F, va |-> OS_MMU_GET_EFFECTIVE_VA(va), pa |-> pa, size |-> size, err |-> "ok"]
                       ELSE L1Round(h[n - 1], l1, OS_MMU_L1_ID(va) + n - 1, va + size - 1)
            P(h) == h = [n \in 0..rounds |-> B(h, n)]
<1>1. create_mapping(F, l1, va, pa, size) = (CHOOSE h : P(h))[rounds]
  BY Zenon DEF create_mapping
<1>2. rounds = more + 1
  OBVIOUS
<1>3. PICK r, s : r = L1Round(w, l1, first, va_end) /\ s = L1Round(r, l1, first + 1, va_end)
  OBVIOUS
<1>4. ASSUME NEW h PROVE B(h, 0) = w /\ (h[0] = w => B(h, 1) = r) /\ (h[1] = r => B(h, 2) = s)
  <2>1. /\ 1 - 1 = 0 /\ first + 1 - 1 = first /\ 1 # 0
        /\ 2 - 1 = 1 /\ first + 2 - 1 = first + 1 /\ 2 # 0
    OBVIOUS
  <2>. QED BY <1>3, <2>1
<1>. HIDE DEF B
<1>5. \E h : P(h)
  <2>1. PICK h : h = [n \in 0..(more + 1) |-> IF n = 0 THEN w ELSE IF n = 1 THEN r ELSE s]
    OBVIOUS
  <2>2. \A n \in 0..(more + 1) : h[n] = B(h, n)
    <3>1. h[0] = w /\ h[1] = r /\ (more = 1 => h[2] = s)
      BY <2>1
    <3>2. \A n \in 0..(more + 1) : n = 0 \/ n = 1 \/ (n = 2 /\ more = 1)
      OBVIOUS
    <3>. QED BY <1>4, <3>1, <3>2
  <2>. QED BY <1>2, <2>1, <2>2
<1>6. ASSUME NEW h, P(h) PROVE (more = 0 => h[rounds] = r) /\ (more = 1 => h[rounds] = s)
  <2>1. h[0] = B(h, 0) /\ h[1] = B(h, 1) /\ (more = 1 => h[2] = B(h, 2))
    BY <1>2, <1>6
  <2>. QED BY <1>2, <1>4, <2>1
<1>. HIDE DEF P, rounds
<1>7. PICK g : g = CHOOSE h : P(h)
  OBVIOUS
<1>8. P(g)
  BY <1>5, <1>7
<1>9. create_mapping(F, l1, va, pa, size) = g[rounds]
  BY <1>1, <1>7, Zenon
<1>. QED BY <1>3, <1>6, <1>8, <1>9

\* So with removals.
LEMMA OneRemovalL1 ==
  ASSUME NEW F, NEW l1, NEW va, NEW size, NEW va_end, va_end = va + size - 1,
         NEW first \in Int, OS_MMU_L1_ID(va) = first, OS_MMU_L1_ID(va_end) = first
  PROVE  remove_mapping(F, l1, va, size)
         = RemoveL1Round([F |-> F, va |-> va, pa |-> 0, size |-> size, err |-> "ok"], l1, first, va_end)
<1>. DEFINE rounds == OS_MMU_L1_ID(va + size - 1) - OS_MMU_L1_ID(va) + 1
            B(h, n) == IF n = 0 THEN [F |-> F, va |-> va, pa |-> 0, size |-> size, err |-> "ok"]
                       ELSE RemoveL1Round(h[n - 1], l1, OS_MMU_L1_ID(va) + n - 1, va + size - 1)
            P(h) == h = [n \in 0..rounds |-> B(h, n)]
<1>1. remove_mapping(F, l1, va, size) = (CHOOSE h : P(h))[rounds]
  BY Zenon DEF remove_mapping
<1>2. rounds = 1
  OBVIOUS
<1>3. PICK v, r : v = [F |-> F, va |-> va, pa |-> 0, size |-> size, err |-> "ok"] /\ r = RemoveL1Round(v, l1, first, va_end)
  OBVIOUS
<1>4. ASSUME NEW h PROVE B(h, 0) = v /\ (h[0] = v => B(h, 1) = r)
  <2>1. 1 - 1 = 0 /\ first + 1 - 1 = first /\ 1 # 0
    OBVIOUS
  <2>. QED BY <1>3, <2>1
<1>. HIDE DEF B
<1>5. \E h : P(h)
  <2>1. PICK h : h = [n \in 0..1 |-> IF n = 0 THEN v ELSE r]
    OBVIOUS
  <2>2. \A n \in 0..1 : h[n] = B(h, n)
    <3>1. h[0] = v /\ h[1] = r
      BY <2>1
    <3>. QED BY <1>4, <3>1
  <2>. QED BY <1>2, <2>1, <2>2
<1>6. ASSUME NEW h, P(h) PROVE h[rounds] = r
  <2>1. h[0] = B(h, 0) /\ h[1] = B(h, 1)
    BY <1>2, <1>6
  <2>. QED BY <1>2, <1>4, <2>1
<1>. HIDE DEF P, rounds
<1>7. PICK g : g = CHOOSE h : P(h)
  OBVIOUS
<1>8. P(g)
  BY <1>5, <1>7
<1>9. remove_mapping(F, l1, va, size) = g[rounds]
  BY <1>1, <1>7, Zenon
<1>. QED BY <1>3, <1>6, <1>8, <1>9

-----------------------------------------------------------------------------
\* The next frame is a free one.
LEMMA NextFrameIs ==
  ASSUME NEW F, FreeFrames(F) # {}
  PROVE  NextFrame(F) \in HeapFrame /\ F[NextFrame(F)].kind = "free"
<1>1. FreeFrames(F) \in SUBSET Nat
  BY FramesAre DEF FreeFrames
<1>2. NextFrame(F) \in FreeFrames(F)
  BY <1>1, MinIsLeast DEF NextFrame
<1>. QED BY <1>2 DEF FreeFrames

\* The frames G are those of F with tables that map nothing.
Grown(F, G, V, X) ==
  /\ TablesSound(G, V, X)
  /\ \A u \in AnyFrame : F[u].kind = "l1" => G[u].kind = "l1"
  /\ \A u \in AnyFrame, p \in AddressSpace : F[u].kind = "l1" => Translate(G, u, p) = Translate(F, u, p)

\* What the loops carry.
Loop(F, va, pa, size, err) == [F |-> F, va |-> va, pa |-> pa, size |-> size, err |-> err]

\* Its fields.
LEMMA LoopIs ==
  ASSUME NEW F, NEW va, NEW pa, NEW size, NEW err
  PROVE  /\ Loop(F, va, pa, size, err).F = F /\ Loop(F, va, pa, size, err).va = va /\ Loop(F, va, pa, size, err).pa = pa
         /\ Loop(F, va, pa, size, err).size = size /\ Loop(F, va, pa, size, err).err = err
  BY DEF Loop

\* What the step to the next table does, for each kind of entry.
LEMMA NextTableThere ==
  ASSUME NEW F, NEW va, NEW pa, NEW size, NEW t, NEW i, NEW kind, F[t].entry[i] < 0
  PROVE  NextTable(Loop(F, va, pa, size, "ok"), t, i, kind)
         = Loop(F, va, pa, size, "ok")
<1>1. PICK w : w = Loop(F, va, pa, size, "ok")
  OBVIOUS
<1>2. w.F = F
  BY <1>1, LoopIs
<1>3. __is_pagetable(w.F[t].entry[i])
  BY <1>2 DEF __is_pagetable, __is_null_entry
<1>4. NextTable(w, t, i, kind) = w
  BY <1>3, Zenon DEF NextTable
<1>. QED BY <1>1, <1>2, <1>4 DEF Loop

\* Without a free frame.
LEMMA NextTableFails ==
  ASSUME NEW F, NEW va, NEW pa, NEW size, NEW t, NEW i, NEW kind, F[t].entry[i] = 0, FreeFrames(F) = {}
  PROVE  NextTable(Loop(F, va, pa, size, "ok"), t, i, kind)
         = Loop(F, va, pa, size, "fault")
<1>1. PICK w : w = Loop(F, va, pa, size, "ok")
  OBVIOUS
<1>2. w.F = F
  BY <1>1, LoopIs
<1>3. ~__is_pagetable(w.F[t].entry[i]) /\ __is_null_entry(w.F[t].entry[i]) /\ FreeFrames(w.F) = {}
  BY <1>2 DEF __is_pagetable, __is_null_entry
<1>4. NextTable(w, t, i, kind) = [w EXCEPT !.err = "fault"]
  BY <1>3, Zenon DEF NextTable
<1>. QED BY <1>1, <1>2, <1>4 DEF Loop

\* With one.
LEMMA NextTableMade ==
  ASSUME NEW F, NEW va, NEW pa, NEW size, NEW t, NEW i, NEW kind, F[t].entry[i] = 0, FreeFrames(F) # {},
         NEW n, n = NextFrame(F)
  PROVE  NextTable(Loop(F, va, pa, size, "ok"), t, i, kind)
         = Loop([[F EXCEPT ![n] = EmptyTable(kind)] EXCEPT ![t].entry[i] = -n], va, pa, size, "ok")
<1>1. PICK w : w = Loop(F, va, pa, size, "ok")
  OBVIOUS
<1>2. w.F = F
  BY <1>1, LoopIs
<1>3. ~__is_pagetable(w.F[t].entry[i]) /\ __is_null_entry(w.F[t].entry[i]) /\ FreeFrames(w.F) # {}
  BY <1>2 DEF __is_pagetable, __is_null_entry
<1>4. NextTable(w, t, i, kind) = [w EXCEPT !.F[NextFrame(w.F)] = EmptyTable(kind), !.F[t].entry[i] = -NextFrame(w.F)]
  BY <1>3, Zenon DEF NextTable
<1>. QED BY <1>1, <1>2, <1>4 DEF Loop

\* A new table, and the entry that leads to it.
LEMMA NewTable ==
  ASSUME NEW F, FramesTyped(F), NEW t \in HeapFrame, F[t].kind \in {"l1", "l2"}, NEW i \in Entries(F[t].kind),
         NEW n \in HeapFrame, F[n].kind = "free", NEW kind \in {"l2", "l3"}
  PROVE  \E G : /\ G = [[F EXCEPT ![n] = EmptyTable(kind)] EXCEPT ![t].entry[i] = -n]
                /\ FramesTyped(G) /\ G[n] = EmptyTable(kind) /\ EntrySet(F, G, t, i, -n)
                /\ \A u \in AnyFrame : u # t /\ u # n => G[u] = F[u]
<1>1. /\ n # t /\ n \in AnyFrame /\ t \in AnyFrame /\ -n \in Int
      /\ F[t].kind \in {"l1", "l2", "l3"}
  BY HeapNumber
<1>2. EmptyTable(kind) \in FreshFrame
  BY DEF FreshFrame
<1>3. PICK H : /\ H = [F EXCEPT ![n] = EmptyTable(kind)]
               /\ FramesTyped(H) /\ H[n] = EmptyTable(kind) /\ \A u \in AnyFrame : u # n => H[u] = F[u]
  BY <1>2, PutFrame
<1>4. H[t] = F[t]
  BY <1>1, <1>3
<1>5. PICK G : /\ G = [H EXCEPT ![t].entry[i] = -n]
               /\ FramesTyped(G) /\ EntrySet(H, G, t, i, -n)
               /\ \A u \in AnyFrame : u # t => G[u] = H[u]
  <2>1. H[t].kind \in {"l1", "l2", "l3"} /\ i \in Entries(H[t].kind) /\ FramesTyped(H)
    BY <1>1, <1>3, <1>4
  <2>. QED BY <1>1, <2>1, PutEntry
<1>6. G = [[F EXCEPT ![n] = EmptyTable(kind)] EXCEPT ![t].entry[i] = -n]
  BY <1>3, <1>5, Zenon
<1>7. EntrySet(F, G, t, i, -n)
  BY <1>4, <1>5 DEF EntrySet
<1>8. FramesTyped(G) /\ G[n] = EmptyTable(kind) /\ \A u \in AnyFrame : u # t /\ u # n => G[u] = F[u]
  BY <1>1, <1>3, <1>5
<1>. QED BY <1>6, <1>7, <1>8, Zenon

\* The table an entry of user space leads to is there or made, unless memory runs out.
LEMMA NextTableIs ==
  ASSUME NEW F, NEW V, NEW X, TablesSound(F, V, X),
         NEW t \in HeapFrame, F[t].kind \in {"l1", "l2"}, NEW i \in Entries(F[t].kind),
         F[t].kind = "l1" => i <= 3, F[t].entry[i] <= 0,
         NEW kind, kind = (IF F[t].kind = "l1" THEN "l2" ELSE "l3"),
         NEW va, NEW pa, NEW size
  PROVE  \/ NextTable(Loop(F, va, pa, size, "ok"), t, i, kind) = Loop(F, va, pa, size, "fault")
         \/ \E G : /\ NextTable(Loop(F, va, pa, size, "ok"), t, i, kind) = Loop(G, va, pa, size, "ok")
                   /\ Grown(F, G, V, X)
                   /\ G[t].kind = F[t].kind /\ G[t].entry[i] < 0 /\ -G[t].entry[i] \in HeapFrame
                   /\ G[-G[t].entry[i]].kind = kind /\ G[t].entry[i] \in Int
                   /\ \A u \in AnyFrame : u # t /\ F[u].kind \in {"l1", "l2", "l3"} => G[u] = F[u]
<1>1. /\ FramesTyped(F) /\ BlocksAbove(F) /\ SlotsTyped(F) /\ SlotsUnique(F) /\ Rooted(F, V) /\ Owned(F, V, X)
  BY DEF TablesSound
<1>2. t \in AnyFrame /\ F[t].kind \in {"l1", "l2", "l3"}
  BY HeapNumber
<1>3. F[t].entry[i] \in Int
  BY <1>1, <1>2, FrameKinds
<1>4. PICK e \in Int : e = F[t].entry[i] /\ e <= 0
  BY <1>3
<1>5. CASE e < 0
  <2>1. NextTable(Loop(F, va, pa, size, "ok"), t, i, kind) = Loop(F, va, pa, size, "ok")
    BY <1>4, <1>5, NextTableThere
  <2>2. IsSlot(F, t, i)
    BY <1>2, <1>4, <1>5, SlotIs
  <2>3. Target(F, t, i) \in HeapFrame /\ e = -Target(F, t, i) /\ F[Target(F, t, i)].kind = kind
    BY <1>1, <1>4, <2>2, SlotLeads
  <2>4. -e = Target(F, t, i)
    BY <2>3, HeapNumber
  <2>5. Grown(F, F, V, X)
    BY DEF Grown
  <2>. QED BY <1>4, <1>5, <2>1, <2>3, <2>4, <2>5
<1>6. CASE e = 0 /\ FreeFrames(F) = {}
  <2>1. NextTable(Loop(F, va, pa, size, "ok"), t, i, kind) = Loop(F, va, pa, size, "fault")
    BY <1>4, <1>6, NextTableFails
  <2>. QED BY <2>1
<1>7. CASE e = 0 /\ FreeFrames(F) # {}
  <2>1. PICK n \in HeapFrame : n = NextFrame(F) /\ F[n].kind = "free"
    BY <1>7, NextFrameIs
  <2>2. NextTable(Loop(F, va, pa, size, "ok"), t, i, kind)
        = Loop([[F EXCEPT ![n] = EmptyTable(kind)] EXCEPT ![t].entry[i] = -n], va, pa, size, "ok")
    <3>1. F[t].entry[i] = 0 /\ FreeFrames(F) # {} /\ n = NextFrame(F)
      BY <1>4, <1>7, <2>1
    <3>. QED BY <3>1, NextTableMade
  <2>3. n # t /\ n \in AnyFrame /\ n \in Int /\ n > 0 /\ -n \in Int /\ -n < 0 /\ -(-n) = n
    BY <2>1, HeapNumber
  <2>4. PICK G : /\ G = [[F EXCEPT ![n] = EmptyTable(kind)] EXCEPT ![t].entry[i] = -n]
                 /\ FramesTyped(G) /\ G[n] = EmptyTable(kind) /\ EntrySet(F, G, t, i, -n)
                 /\ \A u \in AnyFrame : u # t /\ u # n => G[u] = F[u]
    <3>1. kind \in {"l2", "l3"}
      OBVIOUS
    <3>. QED BY <1>1, <2>1, <3>1, NewTable
  <2>5. NextTable(Loop(F, va, pa, size, "ok"), t, i, kind) = Loop(G, va, pa, size, "ok")
    BY <2>2, <2>4, Zenon
  <2>6. /\ FramesTyped(G) /\ G[n] = EmptyTable(IF F[t].kind = "l1" THEN "l2" ELSE "l3")
        /\ EntrySet(F, G, t, i, -n) /\ \A u \in AnyFrame : u # t /\ u # n => G[u] = F[u]
    BY <2>4
  <2>. HIDE <2>4
  <2>7. TablesSound(G, V, X)
    BY <1>4, <1>7, <2>1, <2>6, LinkTable
  <2>8. F[t].entry[i] = 0
    BY <1>4, <1>7
  <2>9. \A u \in AnyFrame, p \in AddressSpace : F[u].kind = "l1" => Translate(G, u, p) = Translate(F, u, p)
    BY <1>1, <2>8, <2>1, <2>6, LinkKeepsTranslations
  <2>10. \A u \in AnyFrame : F[u].kind \in {"l1", "l2", "l3"} => u # n
    BY <2>1
  <2>11. Grown(F, G, V, X)
    BY <2>6, <2>7, <2>9, <2>10 DEF Grown, EntrySet
  <2>12. G[-G[t].entry[i]].kind = kind
    BY <2>3, <2>6 DEF EmptyTable, EntrySet
  <2>13. /\ G[t].kind = F[t].kind /\ G[t].entry[i] = -n
         /\ \A u \in AnyFrame : u # t /\ F[u].kind \in {"l1", "l2", "l3"} => G[u] = F[u]
    BY <2>6, <2>10 DEF EntrySet
  <2>. QED BY <2>1, <2>3, <2>5, <2>11, <2>12, <2>13
<1>. QED BY <1>4, <1>5, <1>6, <1>7

-----------------------------------------------------------------------------
\* What the loops carry on, behind a part that went one level down.
LEMMA ContinueIs ==
  ASSUME NEW F, NEW va, NEW pa, NEW size, NEW err, NEW done, NEW n
  PROVE  Continue(Loop(F, va, pa, size, err), done, n) = Loop(done.F, va + n, pa + n, size - n, done.err)
<1>1. PICK w, v : w = Loop(F, va, pa, size, err) /\ v = [w EXCEPT !.F = done.F, !.err = done.err]
  OBVIOUS
<1>2. v = Loop(done.F, va, pa, size, done.err)
  BY <1>1 DEF Loop
<1>3. Continue(w, done, n) = Advance(v, n)
  BY <1>1, Zenon DEF Continue
<1>4. Advance(v, n) = Loop(done.F, va + n, pa + n, size - n, done.err)
  <2>1. Advance(v, n) = [v EXCEPT !.va = @ + n, !.pa = @ + n, !.size = @ - n]
    BY Zenon DEF Advance
  <2>. QED BY <1>2, <2>1 DEF Loop
<1>. QED BY <1>1, <1>3, <1>4

\* A round over a single page goes one level down.
LEMMA PageRoundL2 ==
  ASSUME NEW F, NEW va \in Int, NEW pa, NEW t, NEW j, j = OS_MMU_L2_ID(va),
         NEW next, next = NextTable(Loop(F, va, pa, 1, "ok"), t, j, "l3")
  PROVE  L2Round(Loop(F, va, pa, 1, "ok"), t, j, va)
         = IF next.err # "ok" THEN next ELSE Continue(next, create_l3(next, -next.F[t].entry[j], 1), 1)
<1>1. PICK w : w = Loop(F, va, pa, 1, "ok")
  OBVIOUS
<1>2. w.va = va /\ w.size = 1 /\ w.err = "ok"
  BY <1>1, LoopIs
<1>3. PICK n : n = NextSize(w, va, OS_MMU_L2_ID(w.va) = OS_MMU_L2_ID(va), OS_MMU_L2_SIZE)
  OBVIOUS
<1>4. n = 1
  BY <1>2, <1>3 DEF NextSize
<1>5. ~Big(w, OS_MMU_L2_SIZE)
  BY <1>2 DEF Big, OS_MMU_L2_SIZE
<1>6. next = NextTable(w, t, j, "l3")
  BY <1>1
<1>7. L2Round(w, t, j, va) = IF next.err # "ok" THEN next ELSE Continue(next, create_l3(next, -next.F[t].entry[j], n), n)
  BY <1>2, <1>3, <1>5, <1>6, Zenon DEF L2Round
<1>. QED BY <1>1, <1>4, <1>7, Zenon

\* The same on the first level.
LEMMA PageRoundL1 ==
  ASSUME NEW F, NEW va \in Int, NEW pa, NEW t, NEW i, i = OS_MMU_L1_ID(va),
         NEW next, next = NextTable(Loop(F, va, pa, 1, "ok"), t, i, "l2")
  PROVE  L1Round(Loop(F, va, pa, 1, "ok"), t, i, va)
         = IF next.err # "ok" THEN next ELSE Continue(next, create_l2(next, -next.F[t].entry[i], 1), 1)
<1>1. PICK w : w = Loop(F, va, pa, 1, "ok")
  OBVIOUS
<1>2. w.va = va /\ w.size = 1 /\ w.err = "ok"
  BY <1>1, LoopIs
<1>3. PICK n : n = NextSize(w, va, OS_MMU_L1_ID(w.va) = OS_MMU_L1_ID(va), OS_MMU_L1_SIZE)
  OBVIOUS
<1>4. n = 1
  BY <1>2, <1>3 DEF NextSize
<1>5. ~Big(w, OS_MMU_L1_SIZE)
  BY <1>2 DEF Big, OS_MMU_L1_SIZE
<1>6. next = NextTable(w, t, i, "l2")
  BY <1>1
<1>7. L1Round(w, t, i, va) = IF next.err # "ok" THEN next ELSE Continue(next, create_l2(next, -next.F[t].entry[i], n), n)
  BY <1>2, <1>3, <1>5, <1>6, Zenon DEF L1Round
<1>. QED BY <1>1, <1>4, <1>7, Zenon

\* The last level of a single page: one entry.
LEMMA PageEntry ==
  ASSUME NEW F, FramesTyped(F), NEW t \in HeapFrame, F[t].kind = "l3",
         NEW va \in AddressSpace, NEW f \in Int, NEW size, NEW err
  PROVE  \E G : /\ create_l3(Loop(F, va, f, size, err), t, 1) = Loop(G, va, f, size, err)
                /\ FramesTyped(G) /\ EntrySet(F, G, t, OS_MMU_L3_ID(va), Leaf(f))
                /\ \A u \in AnyFrame : u # t => G[u] = F[u]
<1>1. PICK k \in 0..1 : k = OS_MMU_L3_ID(va)
  BY Parts
<1>2. va \in Int /\ va + 1 - 1 = va
  BY DEF AddressSpace
<1>3. t \in AnyFrame /\ Entries(F[t].kind) = 0..1 /\ F[t].kind \in {"l1", "l2", "l3"}
  BY DEF Entries, AnyFrame
<1>4. F[t].entry \in [0..1 -> Int]
  BY <1>3, FrameKinds
<1>5. PICK e \in Int : e = Leaf(f)
  BY DEF Leaf
<1>6. PICK G : /\ G = [F EXCEPT ![t].entry[k] = e]
               /\ FramesTyped(G) /\ EntrySet(F, G, t, k, e)
               /\ \A u \in AnyFrame : u # t => G[u] = F[u]
  <2>1. PICK j \in Entries(F[t].kind) : j = k
    BY <1>3
  <2>2. F[t].kind \in {"l1", "l2", "l3"} /\ t \in AnyFrame
    BY <1>3
  <2>3. PICK G : /\ G = [F EXCEPT ![t].entry[j] = e]
                 /\ FramesTyped(G) /\ EntrySet(F, G, t, j, e)
                 /\ \A u \in AnyFrame : u # t => G[u] = F[u]
    <3>. HIDE <2>1
    <3>. QED BY <2>2, PutEntry
  <2>. QED BY <2>1, <2>3
<1>7. PICK x : x = [id \in 0..1 |-> IF id \in k..k THEN Leaf(f + id - k) ELSE F[t].entry[id]]
  OBVIOUS
<1>8. x = [F[t].entry EXCEPT ![k] = e]
  <2>1. \A id \in 0..1 : x[id] = [F[t].entry EXCEPT ![k] = e][id]
    BY <1>4, <1>5, <1>7
  <2>. QED BY <1>4, <1>7, <2>1
<1>9. G = [F EXCEPT ![t].entry = x]
  BY <1>6, <1>8
<1>10. create_l3(Loop(F, va, f, size, err), t, 1) = Loop([F EXCEPT ![t].entry = x], va, f, size, err)
  <2>1. PICK w : w = Loop(F, va, f, size, err)
    OBVIOUS
  <2>2. w.F = F /\ w.va = va /\ w.pa = f
    BY <2>1, LoopIs
  <2>3. create_l3(w, t, 1) = [w EXCEPT !.F[t].entry = [id \in 0..1 |->
           IF id \in OS_MMU_L3_ID(w.va)..OS_MMU_L3_ID(w.va + 1 - 1) THEN Leaf(w.pa + id - OS_MMU_L3_ID(w.va)) ELSE @[id]]]
    BY DEF create_l3
  <2>4. create_l3(w, t, 1) = [w EXCEPT !.F[t].entry = x]
    BY <1>1, <1>2, <1>7, <2>2, <2>3
  <2>. QED BY <2>1, <2>4 DEF Loop
<1>. QED BY <1>1, <1>5, <1>6, <1>9, <1>10
\* The frame that a page is mapped to.
MappedTo(F, l1, va) == IF Translate(F, l1, va) = -1 THEN {} ELSE {Translate(F, l1, va)}

\* A page of user space is mapped to the frame, and nothing else is, unless memory for
\* tables runs out.  Nobody refers to the frame that it was mapped to.
PageAdded(F, G, V, X, l1, va, f) ==
  /\ TablesSound(G, V, X \cup MappedTo(F, l1, va))
  /\ \A u \in AnyFrame : F[u].kind = "l1" => G[u].kind = "l1"
  /\ Translate(G, l1, va) = f
  /\ \A u \in AnyFrame, p \in AddressSpace :
       F[u].kind = "l1" /\ (u # l1 \/ p # va) => Translate(G, u, p) = Translate(F, u, p)

\* The last level's part of it.
LEMMA LastLevel ==
  ASSUME NEW F, NEW V, NEW X, NEW f, f \notin X, NEW Y, Y = X \cup {f}, TablesSound(F, V, Y), NEW l1 \in HeapFrame, F[l1].kind = "l1",
         NEW va \in 0..15,
         NEW t \in HeapFrame, F[t].kind = "l3", E1(F, l1, va) < 0, E2(F, l1, va) < 0, -E2(F, l1, va) = t
  PROVE  \E G : /\ create_l3(Loop(F, va, f, 1, "ok"), t, 1) = Loop(G, va, f, 1, "ok")
                /\ PageAdded(F, G, V, X, l1, va, f)
<1>1. /\ FramesTyped(F) /\ BlocksAbove(F) /\ SlotsTyped(F) /\ SlotsUnique(F) /\ Rooted(F, V) /\ Owned(F, V, Y)
      /\ f \in HeapFrame /\ va \in AddressSpace /\ l1 \in AnyFrame /\ f \in Int
  BY HeapNumber DEF TablesSound, Owned, AddressSpace
<1>2. PICK k \in 0..1 : k = OS_MMU_L3_ID(va)
  BY <1>1, Parts
<1>3. Replaced(F, t, k) = MappedTo(F, l1, va)
  <2>1. /\ E1(F, l1, va) \in Int /\ E2(F, l1, va) \in Int /\ E3(F, l1, va) \in Int
        /\ E3(F, l1, va) = 0 \/ (E3(F, l1, va) > 0 /\ Target(F, t, OS_MMU_L3_ID(va)) = E3(F, l1, va) - 1)
    <3>1. E2(F, l1, va) # 0
      OBVIOUS
    <3>. QED BY <1>1, <3>1, Path
  <2>2. E3(F, l1, va) = 0 => Translate(F, l1, va) = -1
    BY <1>1, <2>1, TranslateIs
  <2>3. E3(F, l1, va) > 0 => Translate(F, l1, va) = E3(F, l1, va) - 1
    BY <1>1, <2>1, TranslateIs
  <2>4. E3(F, l1, va) = F[t].entry[k]
    BY <1>2 DEF E3
  <2>5. CASE E3(F, l1, va) = 0
    BY <2>2, <2>4, <2>5 DEF Replaced, MappedTo
  <2>6. CASE E3(F, l1, va) > 0
    <3>1. Target(F, t, k) = Translate(F, l1, va) /\ Translate(F, l1, va) # -1 /\ F[t].entry[k] # 0
      BY <1>2, <2>1, <2>3, <2>4, <2>6
    <3>. QED BY <3>1 DEF Replaced, MappedTo
  <2>. QED BY <2>1, <2>5, <2>6
<1>4. PICK G : /\ create_l3(Loop(F, va, f, 1, "ok"), t, 1) = Loop(G, va, f, 1, "ok")
               /\ FramesTyped(G) /\ EntrySet(F, G, t, OS_MMU_L3_ID(va), Leaf(f))
               /\ \A u \in AnyFrame : u # t => G[u] = F[u]
  BY <1>1, PageEntry
<1>5. TablesSound(G, V, X \cup MappedTo(F, l1, va))
  <2>1. EntrySet(F, G, t, k, Leaf(f))
    BY <1>2, <1>4
  <2>. QED BY <1>3, <1>4, <2>1, LinkPage
<1>6. /\ Translate(G, l1, va) = f
      /\ \A u \in AnyFrame, p \in AddressSpace :
           F[u].kind = "l1" /\ (u # l1 \/ p # va) => Translate(G, u, p) = Translate(F, u, p)
  BY <1>1, <1>4, LinkTranslatesOne
<1>7. \A u \in AnyFrame : F[u].kind = "l1" => G[u].kind = "l1"
  BY <1>4
<1>. QED BY <1>4, <1>5, <1>6, <1>7 DEF PageAdded

\* A single page is mapped by a table on each level, made on the way where there is none.
LEMMA PageMapped ==
  ASSUME NEW F, NEW V, NEW X, NEW f, f \notin X, NEW Y, Y = X \cup {f}, TablesSound(F, V, Y), NEW l1 \in HeapFrame, F[l1].kind = "l1",
         NEW va \in 0..15
  PROVE  \/ /\ create_mapping(F, l1, va, f, 1).err = "fault"
            /\ Grown(F, create_mapping(F, l1, va, f, 1).F, V, Y)
         \/ /\ create_mapping(F, l1, va, f, 1).err = "ok"
            /\ PageAdded(F, create_mapping(F, l1, va, f, 1).F, V, X, l1, va, f)
<1>1. /\ FramesTyped(F) /\ BlocksAbove(F) /\ SlotsTyped(F) /\ SlotsUnique(F) /\ Rooted(F, V) /\ Owned(F, V, Y)
      /\ f \in HeapFrame /\ va \in AddressSpace /\ l1 \in AnyFrame
      /\ va \in Int /\ va + 1 - 1 = va /\ OS_MMU_GET_EFFECTIVE_VA(va) = va
  BY HeapNumber DEF TablesSound, Owned, AddressSpace, OS_MMU_GET_EFFECTIVE_VA
<1>2. PICK i \in 0..7, j \in 0..1 : i = OS_MMU_L1_ID(va) /\ j = OS_MMU_L2_ID(va) /\ i <= 3
  BY <1>1, Parts DEF KERNEL_START
<1>3. create_mapping(F, l1, va, f, 1) = L1Round(Loop(F, va, f, 1, "ok"), l1, i, va)
  <2>1. /\ OS_MMU_L1_ID(va) = i /\ OS_MMU_L1_ID(va) = i + 0 /\ va = va + 1 - 1
        /\ Loop(F, va, f, 1, "ok") = [F |-> F, va |-> OS_MMU_GET_EFFECTIVE_VA(va), pa |-> f, size |-> 1, err |-> "ok"]
    BY <1>1, <1>2 DEF Loop
  <2>. QED BY <2>1, RoundsL1
<1>4. F[l1].entry[i] \in Int /\ F[l1].entry[i] <= 0
  <2>1. E1(F, l1, va) \in Int /\ E1(F, l1, va) = F[l1].entry[i]
    BY <1>1, <1>2, Path DEF E1
  <2>2. F[l1].entry[i] # 0 => IsSlot(F, l1, i)
    BY <1>2, SlotIs DEF Entries
  <2>3. F[l1].entry[i] # 0 => F[l1].entry[i] < 0
    BY <1>1, <2>2, SlotLeads
  <2>. QED BY <2>1, <2>3
<1>5. PICK next : next = NextTable(Loop(F, va, f, 1, "ok"), l1, i, "l2")
  OBVIOUS
<1>6. create_mapping(F, l1, va, f, 1)
      = IF next.err # "ok" THEN next ELSE Continue(next, create_l2(next, -next.F[l1].entry[i], 1), 1)
  BY <1>1, <1>2, <1>3, <1>5, PageRoundL1
<1>7. \/ next = Loop(F, va, f, 1, "fault")
      \/ \E G : /\ next = Loop(G, va, f, 1, "ok") /\ Grown(F, G, V, Y)
                /\ G[l1].kind = "l1" /\ G[l1].entry[i] < 0 /\ -G[l1].entry[i] \in HeapFrame
                /\ G[-G[l1].entry[i]].kind = "l2" /\ G[l1].entry[i] \in Int
  <2>1. i \in Entries(F[l1].kind) /\ F[l1].kind \in {"l1", "l2"} /\ "l2" = (IF F[l1].kind = "l1" THEN "l2" ELSE "l3")
    BY DEF Entries
  <2>. QED BY <1>2, <1>4, <1>5, <2>1, NextTableIs
<1>8. CASE next = Loop(F, va, f, 1, "fault")
  <2>1. create_mapping(F, l1, va, f, 1) = next /\ next.F = F /\ next.err = "fault"
    BY <1>6, <1>8, LoopIs
  <2>. QED BY <2>1 DEF Grown
<1>9. ASSUME NEW G, next = Loop(G, va, f, 1, "ok"), Grown(F, G, V, Y),
             G[l1].kind = "l1", G[l1].entry[i] < 0, -G[l1].entry[i] \in HeapFrame,
             G[-G[l1].entry[i]].kind = "l2", G[l1].entry[i] \in Int
      PROVE  \/ /\ create_mapping(F, l1, va, f, 1).err = "fault"
                /\ Grown(F, create_mapping(F, l1, va, f, 1).F, V, Y)
             \/ /\ create_mapping(F, l1, va, f, 1).err = "ok"
                /\ PageAdded(F, create_mapping(F, l1, va, f, 1).F, V, X, l1, va, f)
  <2>1. PICK t \in HeapFrame : t = -G[l1].entry[i] /\ G[t].kind = "l2"
    BY <1>9
  <2>2. next.err = "ok" /\ next.F = G /\ next.va = va
    BY <1>9, LoopIs
  <2>3. create_mapping(F, l1, va, f, 1) = Continue(next, create_l2(next, t, 1), 1)
    BY <1>6, <2>1, <2>2
  <2>4. /\ TablesSound(G, V, Y) /\ Translate(G, l1, va) = Translate(F, l1, va)
        /\ FramesTyped(G) /\ BlocksAbove(G) /\ SlotsTyped(G)
    BY <1>1, <1>9 DEF Grown, TablesSound
  <2>5. E1(G, l1, va) = -t /\ E1(G, l1, va) < 0 /\ E1(G, l1, va) \in Int /\ -E1(G, l1, va) = t
    BY <1>2, <1>9, <2>1 DEF E1
  <2>6. G[t].entry[j] \in Int /\ G[t].entry[j] <= 0
    <3>1. E2(G, l1, va) = G[t].entry[j]
      BY <1>2, <2>5 DEF E2
    <3>2. E2(G, l1, va) \in Int
      BY <1>1, <1>9, <2>4, <2>5, Path
    <3>3. E2(G, l1, va) = 0 \/ E2(G, l1, va) < 0
      BY <1>1, <1>9, <2>4, <2>5, Path
    <3>. QED BY <3>1, <3>2, <3>3
  <2>7. create_l2(next, t, 1) = L2Round(next, t, j, va)
    <3>1. [next EXCEPT !.size = 1] = next
      BY <1>9 DEF Loop
    <3>2. va = next.va + 1 - 1 /\ OS_MMU_L2_ID(next.va) = j /\ OS_MMU_L2_ID(va) = j /\ j \in Int
      BY <1>1, <1>2, <2>2
    <3>3. create_l2(next, t, 1) = L2Round([next EXCEPT !.size = 1], t, j, va)
      BY <3>2, OneRoundL2
    <3>. QED BY <3>1, <3>3, Zenon
  <2>8. PICK last : last = NextTable(Loop(G, va, f, 1, "ok"), t, j, "l3")
    OBVIOUS
  <2>9. create_l2(next, t, 1) = IF last.err # "ok" THEN last ELSE Continue(last, create_l3(last, -last.F[t].entry[j], 1), 1)
    BY <1>1, <1>2, <1>9, <2>7, <2>8, PageRoundL2, SMTT(30)
  <2>10. \/ last = Loop(G, va, f, 1, "fault")
         \/ \E H : /\ last = Loop(H, va, f, 1, "ok") /\ Grown(G, H, V, Y)
                   /\ H[t].kind = "l2" /\ H[t].entry[j] < 0 /\ -H[t].entry[j] \in HeapFrame
                   /\ H[-H[t].entry[j]].kind = "l3" /\ H[t].entry[j] \in Int
                   /\ \A u \in AnyFrame : u # t /\ G[u].kind \in {"l1", "l2", "l3"} => H[u] = G[u]
    <3>1. /\ j \in Entries(G[t].kind) /\ G[t].kind \in {"l1", "l2"} /\ "l3" = (IF G[t].kind = "l1" THEN "l2" ELSE "l3")
          /\ G[t].kind = "l1" => j <= 3
      BY <2>1 DEF Entries
    <3>2. PICK x : x = NextTable(Loop(G, va, f, 1, "ok"), t, j, "l3")
      OBVIOUS
    <3>3. \/ x = Loop(G, va, f, 1, "fault")
          \/ \E H : /\ x = Loop(H, va, f, 1, "ok") /\ Grown(G, H, V, Y)
                    /\ H[t].kind = G[t].kind /\ H[t].entry[j] < 0 /\ -H[t].entry[j] \in HeapFrame
                    /\ H[-H[t].entry[j]].kind = "l3" /\ H[t].entry[j] \in Int
                    /\ \A u \in AnyFrame : u # t /\ G[u].kind \in {"l1", "l2", "l3"} => H[u] = G[u]
      BY <2>4, <2>6, <3>1, <3>2, NextTableIs
    <3>. QED BY <2>1, <2>8, <3>2, <3>3
  <2>11. CASE last = Loop(G, va, f, 1, "fault")
    <3>1. create_l2(next, t, 1) = last /\ last.F = G /\ last.err = "fault"
      BY <2>9, <2>11, LoopIs
    <3>2. create_mapping(F, l1, va, f, 1) = Loop(G, va + 1, f + 1, 1 - 1, "fault")
      BY <1>9, <2>3, <3>1, ContinueIs
    <3>3. create_mapping(F, l1, va, f, 1).F = G /\ create_mapping(F, l1, va, f, 1).err = "fault"
      BY <3>2, LoopIs
    <3>. QED BY <1>9, <3>3
  <2>12. ASSUME NEW H, last = Loop(H, va, f, 1, "ok"), Grown(G, H, V, Y),
                H[t].kind = "l2", H[t].entry[j] < 0, -H[t].entry[j] \in HeapFrame,
                H[-H[t].entry[j]].kind = "l3", H[t].entry[j] \in Int,
                \A u \in AnyFrame : u # t /\ G[u].kind \in {"l1", "l2", "l3"} => H[u] = G[u]
         PROVE  /\ create_mapping(F, l1, va, f, 1).err = "ok"
                /\ PageAdded(F, create_mapping(F, l1, va, f, 1).F, V, X, l1, va, f)
    <3>1. PICK s \in HeapFrame : s = -H[t].entry[j] /\ H[s].kind = "l3"
      BY <2>12
    <3>2. last.err = "ok" /\ last.F = H
      BY <2>12, LoopIs
    <3>3. create_l2(next, t, 1) = Continue(last, create_l3(last, s, 1), 1)
      BY <2>9, <3>1, <3>2
    <3>4. H[l1] = G[l1]
      BY <1>1, <1>9, <2>1, <2>12
    <3>5. E1(H, l1, va) = -t /\ E1(H, l1, va) < 0 /\ -E1(H, l1, va) = t
      BY <2>5, <3>4 DEF E1
    <3>6. E2(H, l1, va) < 0 /\ -E2(H, l1, va) = s
      BY <1>2, <2>12, <3>1, <3>5 DEF E2
    <3>7. TablesSound(H, V, Y) /\ H[l1].kind = "l1" /\ Translate(H, l1, va) = Translate(F, l1, va)
      BY <1>1, <1>9, <2>4, <2>12, <3>4 DEF Grown
    <3>8. PICK K : create_l3(Loop(H, va, f, 1, "ok"), s, 1) = Loop(K, va, f, 1, "ok") /\ PageAdded(H, K, V, X, l1, va, f)
      BY <3>1, <3>5, <3>6, <3>7, LastLevel
    <3>9. create_l2(next, t, 1).F = K /\ create_l2(next, t, 1).err = "ok"
      <4>1. create_l3(last, s, 1).F = K /\ create_l3(last, s, 1).err = "ok"
        BY <2>12, <3>8, LoopIs
      <4>2. create_l2(next, t, 1) = Loop(K, va + 1, f + 1, 1 - 1, "ok")
        BY <2>12, <3>3, <4>1, ContinueIs
      <4>. QED BY <4>2, LoopIs
    <3>10. create_mapping(F, l1, va, f, 1) = Loop(K, va + 1, f + 1, 1 - 1, "ok")
      BY <1>9, <2>3, <3>9, ContinueIs
    <3>11. create_mapping(F, l1, va, f, 1).F = K /\ create_mapping(F, l1, va, f, 1).err = "ok"
      BY <3>10, LoopIs
    <3>12. PageAdded(F, K, V, X, l1, va, f)
      BY <1>9, <2>12, <3>7, <3>8 DEF PageAdded, Grown, MappedTo
    <3>. QED BY <3>11, <3>12
  <2>. QED BY <2>10, <2>11, <2>12
<1>. QED BY <1>7, <1>8, <1>9

-----------------------------------------------------------------------------
\* Pages and free frames do not matter to translations.
LEMMA SameTables ==
  ASSUME NEW F, FramesTyped(F), BlocksAbove(F), SlotsTyped(F),
         NEW G, \A u \in AnyFrame : F[u].kind \in {"l1", "l2", "l3"} => G[u] = F[u],
         NEW l1 \in AnyFrame, F[l1].kind = "l1", NEW p \in AddressSpace
  PROVE  Translate(G, l1, p) = Translate(F, l1, p)
<1>1. PICK a, b, c : a = E1(F, l1, p) /\ b = E2(F, l1, p) /\ c = E3(F, l1, p)
  OBVIOUS
<1>2. E1(F, l1, p) \in Int /\ E1(G, l1, p) = E1(F, l1, p)
  <2>1. G[l1] = F[l1]
    OBVIOUS
  <2>2. E1(F, l1, p) \in Int
    BY Path
  <2>. QED BY <2>1, <2>2 DEF E1
<1>3. ASSUME E1(F, l1, p) < 0 PROVE E2(G, l1, p) = E2(F, l1, p) /\ E2(F, l1, p) \in Int
  <2>1. PICK x \in HeapFrame : x = -E1(F, l1, p) /\ F[x].kind = "l2" /\ E2(F, l1, p) \in Int
    BY <1>3, Path
  <2>2. G[x] = F[x]
    BY <2>1 DEF AnyFrame
  <2>3. E2(G, l1, p) = G[x].entry[OS_MMU_L2_ID(p)] /\ E2(F, l1, p) = F[x].entry[OS_MMU_L2_ID(p)]
    BY <1>2, <2>1 DEF E2
  <2>. QED BY <2>1, <2>2, <2>3
<1>4. ASSUME E1(F, l1, p) < 0, E2(F, l1, p) < 0 PROVE E3(G, l1, p) = E3(F, l1, p) /\ E3(F, l1, p) \in Int
  <2>1. E2(F, l1, p) # 0
    BY <1>4
  <2>2. PICK x \in HeapFrame : x = -E2(F, l1, p) /\ F[x].kind = "l3" /\ E3(F, l1, p) \in Int
    BY <1>4, <2>1, Path
  <2>3. G[x] = F[x]
    BY <2>2 DEF AnyFrame
  <2>4. E3(G, l1, p) = G[x].entry[OS_MMU_L3_ID(p)] /\ E3(F, l1, p) = F[x].entry[OS_MMU_L3_ID(p)]
    BY <1>3, <1>4, <2>2 DEF E3
  <2>. QED BY <2>2, <2>3, <2>4
<1>. QED BY <1>2, <1>3, <1>4, SameWay

\* A frame in use is given back once.
LEMMA FreeFrameIs ==
  ASSUME NEW F, NEW f, F[f].kind # "free"
  PROVE  os_memory_free_frame(F, f) = [F EXCEPT ![f] = Plain("free")]
BY DEF os_memory_free_frame

\* What the loop starts with.
AutoFirst(F) == [F |-> F, left |-> 1, got |-> <<>>, err |-> "ok"]

\* What the mapping of a segment makes of what its loop leaves.
AutoResult(v, va, size, w) ==
  LET given == Range4(va, Len(w.got))
  IN /\ Ready /\ vtable[v] # 0
     /\ frames' = w.F
     /\ mmu_fault' = (w.err = "fault")
     /\ intended' = [intended EXCEPT ![v] =
                       [p \in DOMAIN @ \cup given |-> IF p \in given THEN w.got[p - va + 1] ELSE @[p]]]
     /\ leaked' = leaked \cup {f \in HeapFrame : \E p \in given : Translate(frames, vtable[v], p) = f}
     /\ strayed' = IF size > 1 /\ FreeFrames(frames) # {} THEN v ELSE strayed
     /\ UNCHANGED <<vtable, current_vtable, os_mmu_preinitialized>>

\* os_mmu_create_mapping_auto takes one step for one page.
LEMMA AutoOnce ==
  ASSUME NEW v, NEW va, os_mmu_create_mapping_auto(v, va, 1)
  PROVE  AutoResult(v, va, 1, AutoStep(AutoFirst(frames), vtable[v], va))
<1>. DEFINE B(h, n) == IF n = 0 THEN [F |-> frames, left |-> 1, got |-> <<>>, err |-> "ok"]
                       ELSE AutoStep(h[n - 1], vtable[v], va)
            P(h) == h = [n \in 0..1 |-> B(h, n)]
<1>1. AutoResult(v, va, 1, (CHOOSE h : P(h))[1])
  BY Zenon DEF os_mmu_create_mapping_auto, AutoResult
<1>2. PICK x, w : x = AutoFirst(frames) /\ w = AutoStep(x, vtable[v], va)
  OBVIOUS
<1>3. ASSUME NEW h PROVE B(h, 0) = x /\ (h[0] = x => B(h, 1) = w)
  <2>1. 1 - 1 = 0 /\ 1 # 0
    OBVIOUS
  <2>2. B(h, 1) = AutoStep(h[0], vtable[v], va)
    BY <2>1
  <2>3. B(h, 0) = x
    BY <1>2, SMTT(30) DEF AutoFirst
  <2>. QED BY <1>2, <2>2, <2>3
<1>. HIDE DEF B
<1>4. \E h : P(h)
  <2>1. PICK h : h = [n \in 0..1 |-> IF n = 0 THEN x ELSE w]
    OBVIOUS
  <2>2. \A n \in 0..1 : h[n] = B(h, n)
    <3>1. h[0] = x /\ h[1] = w
      BY <2>1
    <3>. QED BY <1>3, <3>1
  <2>. QED BY <2>1, <2>2
<1>5. ASSUME NEW h, P(h) PROVE h[1] = w
  <2>1. h[0] = B(h, 0) /\ h[1] = B(h, 1)
    BY <1>5
  <2>. QED BY <1>3, <2>1
<1>. HIDE DEF P
<1>6. PICK g : g = CHOOSE h : P(h)
  OBVIOUS
<1>7. P(g)
  BY <1>4, <1>6
<1>8. g[1] = w
  BY <1>5, <1>7
<1>9. AutoResult(v, va, 1, w)
  BY <1>1, <1>6, <1>8, Zenon
<1>. QED BY <1>2, <1>9

\* What the step does.
LEMMA AutoStepNone ==
  ASSUME NEW F, NEW l1, NEW va, NEW w, w = AutoStep(AutoFirst(F), l1, va), FreeFrames(F) = {}
  PROVE  w.F = F /\ w.got = <<>> /\ w.err = "ENOMEM"
<1>1. PICK x : x = AutoFirst(F)
  OBVIOUS
<1>2. x.F = F /\ x.err = "ok"
  BY <1>1 DEF AutoFirst
<1>3. w = [x EXCEPT !.err = "ENOMEM"]
  BY <1>1, <1>2, Zenon DEF AutoStep
<1>. QED BY <1>1, <1>3 DEF AutoFirst

\* With a frame for the page, it maps it or gives it back.
LEMMA AutoStepIs ==
  ASSUME NEW F, NEW l1, NEW va, NEW w, w = AutoStep(AutoFirst(F), l1, va), NEW f, f = NextFrame(F), NEW made, made = create_mapping([F EXCEPT ![f] = Plain("data")], l1, va, f, 1)
  PROVE  /\ FreeFrames(F) # {} /\ made.err = "ok" => w.F = made.F /\ w.got = <<f>> /\ w.err = "ok"
         /\ FreeFrames(F) # {} /\ made.err # "ok" => w.F = os_memory_free_frame(made.F, f) /\ w.got = <<>> /\ w.err = made.err
<1>1. PICK x : x = AutoFirst(F)
  OBVIOUS
<1>2. x.F = F /\ x.left = 1 /\ x.got = <<>> /\ x.err = "ok"
  BY <1>1 DEF AutoFirst
<1>3. PICK a, b, c : /\ a = [x EXCEPT !.err = "ENOMEM"]
                     /\ b = [x EXCEPT !.F = made.F, !.left = @ - 1, !.got = Append(@, f)]
                     /\ c = [x EXCEPT !.F = os_memory_free_frame(made.F, f), !.err = made.err]
  OBVIOUS
<1>4. w = IF FreeFrames(F) = {} THEN a ELSE IF made.err = "ok" THEN b ELSE c
  BY <1>1, <1>2, <1>3, Zenon DEF AutoStep
<1>5. a.F = F /\ a.got = <<>> /\ a.err = "ENOMEM"
  BY <1>1, <1>3 DEF AutoFirst
<1>6. b.F = made.F /\ b.got = Append(<<>>, f) /\ b.err = "ok"
  BY <1>1, <1>3 DEF AutoFirst
<1>7. c.F = os_memory_free_frame(made.F, f) /\ c.got = <<>> /\ c.err = made.err
  BY <1>1, <1>3 DEF AutoFirst
<1>8. Append(<<>>, f) = <<f>>
  OBVIOUS
<1>. QED BY <1>4, <1>5, <1>6, <1>7, <1>8

\* Page tables have first levels of their own.
LEMMA OwnRoots ==
  ASSUME NEW F, NEW V, FramesTyped(F), Rooted(F, V)
  PROVE  /\ \A v \in AnyVtable : V[v] # 0 => V[v] \in AnyFrame /\ F[V[v]].kind = "l1"
         /\ \A v \in UserVtable : V[v] # 0 => V[v] \in HeapFrame
         /\ \A u \in AnyVtable, v \in UserVtable : V[v] # 0 /\ V[u] = V[v] => u = v
         /\ UserVtable \subseteq AnyVtable
<1>1. /\ V["kernel"] \in {0, kernel_l1_pagetable} /\ V["jump"] \in {0, kernel_l1_jump_pagetable}
      /\ \A v \in UserVtable : V[v] # 0 => V[v] \in HeapFrame /\ F[V[v]].kind = "l1"
      /\ \A u, v \in UserVtable : V[u] = V[v] /\ V[u] # 0 => u = v
  BY DEF Rooted
<1>2. AnyVtable = UserVtable \cup {"kernel", "jump"}
  BY DEF AnyVtable
<1>3. /\ kernel_l1_pagetable \notin HeapFrame /\ kernel_l1_jump_pagetable \notin HeapFrame
      /\ kernel_l1_pagetable \in AnyFrame /\ kernel_l1_jump_pagetable \in AnyFrame /\ HeapFrame \subseteq AnyFrame
  BY FramesAre DEF kernel_l1_pagetable, kernel_l1_jump_pagetable
<1>4. F[kernel_l1_pagetable].kind = "l1" /\ F[kernel_l1_jump_pagetable].kind = "l1"
  BY DEF FramesTyped
<1>. QED BY <1>1, <1>2, <1>3, <1>4

\* A segment of one page is mapped.
LEMMA AutoKept ==
  ASSUME MmuSound, NEW v \in UserVtable, NEW va \in 1..15, os_mmu_create_mapping_auto(v, va, 1)
  PROVE  MmuSound'
<1>1. PICK f : f = NextFrame(frames)
  OBVIOUS
<1>2. PICK w : w = AutoStep(AutoFirst(frames), vtable[v], va)
  OBVIOUS
<1>3. /\ Ready /\ vtable[v] # 0 /\ frames' = w.F
      /\ intended' = [intended EXCEPT ![v] =
                        [p \in DOMAIN @ \cup Range4(va, Len(w.got)) |->
                           IF p \in Range4(va, Len(w.got)) THEN w.got[p - va + 1] ELSE @[p]]]
      /\ leaked' = leaked \cup {g \in HeapFrame : \E p \in Range4(va, Len(w.got)) : Translate(frames, vtable[v], p) = g}
      /\ strayed' = strayed /\ vtable' = vtable /\ os_mmu_preinitialized' = os_mmu_preinitialized
  <2>1. AutoResult(v, va, 1, w)
    BY <1>2, AutoOnce
  <2>2. ~(1 > 1)
    OBVIOUS
  <2>. QED BY <2>1, <2>2 DEF AutoResult
<1>4. /\ TablesSound(frames, vtable, leaked) /\ Exact(frames, vtable, intended) /\ Stages /\ strayed = "none"
      /\ FramesTyped(frames) /\ BlocksAbove(frames) /\ SlotsTyped(frames) /\ Rooted(frames, vtable)
  BY DEF MmuSound, TablesSound
<1>5. Stages'
  <2>1. vtable["kernel"] # 0
    BY <1>3, <1>4 DEF Stages, Ready
  <2>. QED BY <1>3, <1>4, <2>1 DEF Stages
<1>6. va \in AddressSpace /\ va \in Int /\ va \in 0..15
  BY DEF AddressSpace
<1>7. PICK l1 \in HeapFrame : l1 = vtable[v] /\ frames[l1].kind = "l1" /\ l1 \in AnyFrame
  BY <1>3, <1>4, OwnRoots
<1>8. w.got = <<>> => Range4(va, Len(w.got)) = {}
  <2>. SUFFICES ASSUME w.got = <<>> PROVE Range4(va, Len(w.got)) = {}
    OBVIOUS
  <2>1. Len(w.got) = 0
    OBVIOUS
  <2>. QED BY <1>6, <2>1 DEF Range4
<1>9. DOMAIN intended = AnyVtable /\ v \in AnyVtable
  BY <1>4, OwnRoots DEF Exact
<1>10. w.got = <<>> => \A u \in AnyVtable : /\ DOMAIN intended'[u] = DOMAIN intended[u]
                                          /\ \A p \in DOMAIN intended[u] : intended'[u][p] = intended[u][p]
  <2>. SUFFICES ASSUME w.got = <<>>, NEW u \in AnyVtable
                PROVE  /\ DOMAIN intended'[u] = DOMAIN intended[u]
                       /\ \A p \in DOMAIN intended[u] : intended'[u][p] = intended[u][p]
    OBVIOUS
  <2>1. Range4(va, Len(w.got)) = {}
    BY <1>8
  <2>2. CASE u = v
    BY <1>3, <1>9, <2>1, <2>2
  <2>3. CASE u # v
    BY <1>3, <1>9, <2>3
  <2>. QED BY <2>2, <2>3
<1>11. ASSUME NEW G, w.F = G, w.got = <<>>, TablesSound(G, vtable, leaked),
              \A u \in AnyFrame, p \in AddressSpace :
                frames[u].kind = "l1" => Translate(G, u, p) = Translate(frames, u, p)
       PROVE  MmuSound'
  <2>1. DOMAIN intended' = AnyVtable
    BY <1>3, <1>9
  <2>2. \A u \in AnyVtable : vtable[u] # 0 => \A p \in AddressSpace : Translate(G, vtable[u], p) = Translate(frames, vtable[u], p)
    BY <1>4, <1>11, OwnRoots
  <2>3. Exact(G, vtable, intended')
    BY <1>4, <1>10, <1>11, <2>1, <2>2 DEF Exact
  <2>4. leaked' = leaked
    BY <1>3, <1>8, <1>11
  <2>. QED BY <1>3, <1>4, <1>5, <1>11, <2>3, <2>4 DEF MmuSound
<1>12. CASE FreeFrames(frames) = {}
  <2>1. w.F = frames /\ w.got = <<>>
    BY <1>2, <1>12, AutoStepNone
  <2>. QED BY <1>4, <1>11, <2>1
<1>13. CASE FreeFrames(frames) # {}
  <2>1. f \in HeapFrame /\ frames[f].kind = "free" /\ f \in AnyFrame
    BY <1>1, <1>13, NextFrameIs DEF AnyFrame
  <2>2. PICK F : /\ F = [frames EXCEPT ![f] = Plain("data")]
                 /\ FramesTyped(F) /\ F[f] = Plain("data") /\ \A t \in AnyFrame : t # f => F[t] = frames[t]
    <3>1. Plain("data") \in FreshFrame
      BY DEF FreshFrame
    <3>. QED BY <1>4, <2>1, <3>1, PutFrame
  <2>3. TablesSound(F, vtable, leaked \cup {f}) /\ f \notin leaked
    <3>1. F[f].kind = "data"
      BY <2>2 DEF Plain
    <3>. QED BY <1>4, <2>1, <2>2, <3>1, TakePage
  <2>4. \A u \in AnyFrame : frames[u].kind \in {"l1", "l2", "l3"} => F[u] = frames[u]
    BY <2>1, <2>2
  <2>5. \A u \in AnyFrame, p \in AddressSpace : frames[u].kind = "l1" => Translate(F, u, p) = Translate(frames, u, p)
    BY <1>4, <2>4, SameTables
  <2>6. PICK made : made = create_mapping(F, l1, va, f, 1)
    OBVIOUS
  <2>7. /\ made.err = "ok" => w.F = made.F /\ w.got = <<f>> /\ w.err = "ok"
        /\ made.err # "ok" => w.F = os_memory_free_frame(made.F, f) /\ w.got = <<>> /\ w.err = made.err
    <3>1. made = create_mapping([frames EXCEPT ![f] = Plain("data")], l1, va, f, 1)
      BY <2>2, <2>6
    <3>2. w = AutoStep(AutoFirst(frames), l1, va)
      BY <1>2, <1>7
    <3>. QED BY <1>1, <1>13, <3>1, <3>2, AutoStepIs
  <2>8. \/ made.err = "fault" /\ Grown(F, made.F, vtable, leaked \cup {f})
        \/ made.err = "ok" /\ PageAdded(F, made.F, vtable, leaked, l1, va, f)
    <3>1. F[l1].kind = "l1"
      BY <1>7, <2>4
    <3>2. PICK X, Y : X = leaked /\ Y = leaked \cup {f}
      OBVIOUS
    <3>3. f \notin X /\ Y = X \cup {f} /\ TablesSound(F, vtable, Y) /\ va \in 0..15
      BY <1>6, <2>3, <3>2
    <3>4. \/ made.err = "fault" /\ Grown(F, made.F, vtable, Y)
          \/ made.err = "ok" /\ PageAdded(F, made.F, vtable, X, l1, va, f)
      <4>1. \/ /\ create_mapping(F, l1, va, f, 1).err = "fault"
               /\ Grown(F, create_mapping(F, l1, va, f, 1).F, vtable, Y)
            \/ /\ create_mapping(F, l1, va, f, 1).err = "ok"
               /\ PageAdded(F, create_mapping(F, l1, va, f, 1).F, vtable, X, l1, va, f)
        BY <3>1, <3>3, PageMapped, Zenon
      <4>. QED BY <2>6, <4>1, Zenon
    <3>. QED BY <3>2, <3>4
  <2>9. CASE made.err = "fault" /\ Grown(F, made.F, vtable, leaked \cup {f})
    <3>1. PICK H : H = made.F
      OBVIOUS
    <3>2. w.F = os_memory_free_frame(H, f) /\ w.got = <<>>
      BY <2>7, <2>9, <3>1
    <3>3. /\ TablesSound(H, vtable, leaked \cup {f}) /\ H[f].kind = "data"
          /\ FramesTyped(H) /\ BlocksAbove(H) /\ SlotsTyped(H)
      BY <2>9, <3>1 DEF Grown, TablesSound, Owned
    <3>4. PICK G : /\ G = [H EXCEPT ![f] = Plain("free")]
                   /\ FramesTyped(G) /\ G[f] = Plain("free") /\ \A t \in AnyFrame : t # f => G[t] = H[t]
      <4>1. Plain("free") \in FreshFrame
        BY DEF FreshFrame
      <4>. QED BY <2>1, <3>3, <4>1, PutFrame
    <3>5. w.F = G
      BY <3>2, <3>3, <3>4, FreeFrameIs
    <3>6. TablesSound(G, vtable, leaked)
      <4>1. G[f].kind = "free"
        BY <3>4 DEF Plain
      <4>2. FramesTyped(G) /\ \A t \in AnyFrame : t # f => G[t] = H[t]
        BY <3>4
      <4>. HIDE <3>4
      <4>. QED BY <2>3, <3>3, <4>1, <4>2, DropPage, Zenon
    <3>7. ASSUME NEW u \in AnyFrame, NEW p \in AddressSpace, frames[u].kind = "l1"
          PROVE  Translate(G, u, p) = Translate(frames, u, p)
      <4>1. H[u].kind = "l1" /\ Translate(H, u, p) = Translate(F, u, p)
        BY <2>4, <2>9, <3>7, <3>1 DEF Grown
      <4>2. \A t \in AnyFrame : H[t].kind \in {"l1", "l2", "l3"} => G[t] = H[t]
        BY <3>3, <3>4
      <4>3. Translate(G, u, p) = Translate(H, u, p)
        BY <3>3, <4>1, <4>2, SameTables
      <4>. QED BY <2>5, <3>7, <4>1, <4>3
    <3>. QED BY <1>11, <3>2, <3>5, <3>6, <3>7
  <2>10. CASE made.err = "ok" /\ PageAdded(F, made.F, vtable, leaked, l1, va, f)
    <3>1. PICK G : G = made.F
      OBVIOUS
    <3>2. frames' = G /\ w.got = <<f>>
      BY <1>3, <2>7, <2>10, <3>1
    <3>3. /\ TablesSound(G, vtable, leaked \cup MappedTo(frames, l1, va)) /\ Translate(G, l1, va) = f
          /\ \A u \in AnyFrame, p \in AddressSpace :
               frames[u].kind = "l1" /\ (u # l1 \/ p # va) => Translate(G, u, p) = Translate(frames, u, p)
      <4>1. Translate(F, l1, va) = Translate(frames, l1, va)
        BY <1>6, <1>7, <2>5
      <4>. QED BY <2>4, <2>5, <2>10, <3>1, <4>1 DEF PageAdded, MappedTo
    <3>4. Range4(va, Len(w.got)) = {va} /\ w.got[va - va + 1] = f
      <4>1. Len(w.got) = 1 /\ w.got[1] = f
        BY <3>2
      <4>2. va..(va + 1 - 1) = {va} /\ va - va + 1 = 1
        BY <1>6
      <4>. QED BY <4>1, <4>2 DEF Range4
    <3>5. intended'[v] = [p \in DOMAIN intended[v] \cup {va} |-> IF p \in {va} THEN w.got[p - va + 1] ELSE intended[v][p]]
      BY <1>3, <1>9, <3>4
    <3>6. /\ DOMAIN intended' = AnyVtable
          /\ \A u \in AnyVtable : u # v => intended'[u] = intended[u]
          /\ DOMAIN intended'[v] = DOMAIN intended[v] \cup {va} /\ intended'[v][va] = f
          /\ \A p \in DOMAIN intended[v] : p # va => intended'[v][p] = intended[v][p]
      <4>1. DOMAIN intended' = AnyVtable /\ \A u \in AnyVtable : u # v => intended'[u] = intended[u]
        BY <1>3, <1>9
      <4>2. /\ DOMAIN intended'[v] = DOMAIN intended[v] \cup {va}
            /\ \A p \in DOMAIN intended[v] : p # va => intended'[v][p] = intended[v][p]
        BY <3>5
      <4>3. intended'[v][va] = f
        BY <3>4, <3>5
      <4>. QED BY <4>1, <4>2, <4>3
    <3>7. Exact(G, vtable, intended')
      <4>1. ASSUME NEW u \in AnyVtable, vtable[u] # 0, NEW p \in AddressSpace
            PROVE  Translate(G, vtable[u], p) = IF p \in DOMAIN intended'[u] THEN intended'[u][p] ELSE -1
        <5>1. Translate(frames, vtable[u], p) = IF p \in DOMAIN intended[u] THEN intended[u][p] ELSE -1
          BY <1>4, <4>1 DEF Exact
        <5>2. vtable[u] \in AnyFrame /\ frames[vtable[u]].kind = "l1" /\ (u # v => vtable[u] # l1)
          BY <1>3, <1>4, <1>7, <4>1, OwnRoots
        <5>3. CASE u = v /\ p = va
          BY <1>7, <3>3, <3>6, <5>3
        <5>4. CASE u = v /\ p # va
          BY <1>7, <3>3, <3>6, <5>1, <5>2, <5>4
        <5>5. CASE u # v
          BY <3>3, <3>6, <5>1, <5>2, <5>5
        <5>. QED BY <5>3, <5>4, <5>5
      <4>2. /\ \A u \in AnyVtable : vtable[u] = 0 => DOMAIN intended[u] = {}
            /\ \A u \in AnyVtable : DOMAIN intended[u] \subseteq AddressSpace
        BY <1>4 DEF Exact
      <4>3. \A u \in AnyVtable : vtable[u] = 0 => DOMAIN intended'[u] = {}
        BY <1>3, <3>6, <4>2
      <4>4. \A u \in AnyVtable : DOMAIN intended'[u] \subseteq AddressSpace
        BY <1>6, <3>6, <4>2
      <4>. QED BY <3>6, <4>1, <4>3, <4>4 DEF Exact
    <3>8. leaked' = leaked \cup MappedTo(frames, l1, va)
      <4>1. leaked' = leaked \cup {g \in HeapFrame : Translate(frames, l1, va) = g}
        BY <1>3, <1>7, <3>4
      <4>2. MappedTo(frames, l1, va) \subseteq HeapFrame
        BY <3>3 DEF TablesSound, Owned
      <4>3. -1 \notin HeapFrame
        BY FramesAre
      <4>. QED BY <4>1, <4>2, <4>3 DEF MappedTo
    <3>. QED BY <1>3, <1>4, <1>5, <3>2, <3>3, <3>7, <3>8 DEF MmuSound
  <2>. QED BY <2>8, <2>9, <2>10
<1>. QED BY <1>12, <1>13

-----------------------------------------------------------------------------
\* A free frame becomes the first level of a page table that has none.
LEMMA NewRoot ==
  ASSUME NEW F, NEW V, NEW X, TablesSound(F, V, X), NEW v \in UserVtable, V[v] = 0,
         NEW n \in HeapFrame, F[n].kind = "free",
         NEW G, FramesTyped(G), G[n] = EmptyTable("l1"), \A u \in AnyFrame : u # n => G[u] = F[u],
         NEW W, W \in [AnyVtable -> {0} \cup AnyFrame], W[v] = n, \A u \in AnyVtable : u # v => W[u] = V[u]
  PROVE  /\ TablesSound(G, W, X) /\ \A u \in AnyFrame : F[u].kind = "l1" => G[u].kind = "l1"
         /\ \A u \in AnyFrame, p \in AddressSpace : F[u].kind = "l1" => Translate(G, u, p) = Translate(F, u, p)
         /\ \A p \in AddressSpace : Translate(G, n, p) = -1
<1>1. /\ FramesTyped(F) /\ BlocksAbove(F) /\ SlotsTyped(F) /\ SlotsUnique(F) /\ Rooted(F, V) /\ Owned(F, V, X)
  BY DEF TablesSound
<1>2. /\ G[n].kind = "l1" /\ \A i \in 0..7 : G[n].entry[i] = 0
  BY DEF EmptyTable, Entries
<1>3. /\ HeapFrame \subseteq AnyFrame /\ n # kernel_l1_pagetable /\ n # kernel_l1_jump_pagetable /\ n # 0
      /\ kernel_l1_pagetable \in AnyFrame /\ kernel_l1_jump_pagetable \in AnyFrame
  BY FramesAre DEF kernel_l1_pagetable, kernel_l1_jump_pagetable
<1>4. \A t \in HeapFrame, i \in 0..7 : IsSlot(F, t, i) => Target(F, t, i) # n /\ Target(F, t, i) \in HeapFrame
  BY <1>1, SlotLeads
<1>5. /\ SlotsTyped(G) /\ SlotsUnique(G)
      /\ \A t \in HeapFrame, i \in 0..7 : IsSlot(G, t, i) <=> IsSlot(F, t, i)
      /\ \A t \in HeapFrame, i \in 0..7 : IsSlot(F, t, i) => Target(G, t, i) = Target(F, t, i)
  <2>1. ASSUME NEW t \in HeapFrame PROVE SameSlots(F, G, t)
    <3>1. CASE t = n
      <4>1. ASSUME NEW i \in 0..7 PROVE ~IsSlot(F, t, i) /\ ~IsSlot(G, t, i)
        BY <1>2, <3>1, SlotIs
      <4>. QED BY <4>1 DEF SameSlots
    <3>2. CASE t # n
      BY <1>3, <3>2, EqualFrames
    <3>. QED BY <3>1, <3>2
  <2>2. \A t \in HeapFrame, i \in 0..7 : IsSlot(F, t, i) => G[Target(F, t, i)].kind = F[Target(F, t, i)].kind
    BY <1>3, <1>4
  <2>. QED BY <1>1, <2>1, <2>2, SlotsKept
<1>6. BlocksAbove(G)
  BY <1>1, <1>2, <1>3 DEF BlocksAbove
<1>7. V \in [AnyVtable -> {0} \cup AnyFrame] /\ v \in AnyVtable /\ v # "kernel" /\ v # "jump"
  BY <1>1, MmuAssumption DEF Rooted, AnyVtable
<1>8. W \in [AnyVtable -> {0} \cup AnyFrame] /\ W[v] = n /\ \A u \in AnyVtable : u # v => W[u] = V[u]
  OBVIOUS
<1>9. Rooted(G, W)
  <2>1. W["kernel"] = V["kernel"] /\ W["jump"] = V["jump"]
    BY <1>7, <1>8 DEF AnyVtable
  <2>2. \A u \in UserVtable : V[u] # n
    BY <1>1, <1>3 DEF Rooted
  <2>3. UserVtable \subseteq AnyVtable
    BY DEF AnyVtable
  <2>4. ASSUME NEW u \in UserVtable, W[u] # 0 PROVE W[u] \in HeapFrame /\ G[W[u]].kind = "l1"
    BY <1>1, <1>2, <1>3, <1>8, <2>3, <2>4 DEF Rooted
  <2>5. ASSUME NEW u \in UserVtable, NEW w \in UserVtable, W[u] = W[w], W[u] # 0 PROVE u = w
    BY <1>1, <1>8, <2>2, <2>3, <2>5 DEF Rooted
  <2>. QED BY <1>1, <1>8, <2>1, <2>4, <2>5 DEF Rooted
<1>10. Owned(G, W, X)
  <2>1. ASSUME NEW f \in HeapFrame \ X
        PROVE  /\ G[f].kind = "l1" => \E u \in UserVtable : W[u] = f
               /\ G[f].kind \in {"l2", "l3", "data"} =>
                    \E t \in HeapFrame, i \in 0..7 : IsSlot(G, t, i) /\ Target(G, t, i) = f
    <3>1. CASE f = n
      BY <1>2, <1>8, <3>1
    <3>2. CASE f # n
      <4>1. G[f] = F[f]
        BY <1>3, <3>2
      <4>2. /\ F[f].kind = "l1" => \E u \in UserVtable : V[u] = f
            /\ F[f].kind \in {"l2", "l3", "data"} =>
                 \E t \in HeapFrame, i \in 0..7 : IsSlot(F, t, i) /\ Target(F, t, i) = f
        BY <1>1 DEF Owned
      <4>3. ASSUME NEW u \in UserVtable, V[u] = f PROVE W[u] = f
        <5>1. u # v
          BY <1>3, <4>3, FramesAre
        <5>. QED BY <1>8, <4>3, <5>1 DEF AnyVtable
      <4>. QED BY <1>5, <4>1, <4>2, <4>3
    <3>. QED BY <3>1, <3>2
  <2>2. \A f \in X : f \in HeapFrame /\ G[f].kind = "data"
    BY <1>1, <1>3 DEF Owned
  <2>3. \A t \in HeapFrame, i \in 0..7 : IsSlot(G, t, i) => Target(G, t, i) \notin X
    BY <1>1, <1>5 DEF Owned
  <2>. QED BY <2>1, <2>2, <2>3 DEF Owned
<1>11. \A u \in AnyFrame : F[u].kind \in {"l1", "l2", "l3"} => G[u] = F[u]
  OBVIOUS
<1>12. \A u \in AnyFrame, p \in AddressSpace : F[u].kind = "l1" => Translate(G, u, p) = Translate(F, u, p)
  BY <1>1, <1>11, SameTables
<1>13. ASSUME NEW p \in AddressSpace PROVE Translate(G, n, p) = -1
  <2>1. E1(G, n, p) = 0
    BY <1>2, Parts DEF E1
  <2>. QED BY <2>1, TranslateIs
<1>14. TablesSound(G, W, X)
  BY <1>5, <1>6, <1>9, <1>10 DEF TablesSound
<1>. QED BY <1>11, <1>12, <1>13, <1>14

\* The new page table translates nothing.
LEMMA NewRootExact ==
  ASSUME NEW F, NEW V, NEW X, NEW M, TablesSound(F, V, X), Exact(F, V, M), NEW v \in UserVtable, V[v] = 0,
         NEW n \in HeapFrame, F[n].kind = "free",
         NEW G, FramesTyped(G), G[n] = EmptyTable("l1"), \A u \in AnyFrame : u # n => G[u] = F[u],
         NEW W, W \in [AnyVtable -> {0} \cup AnyFrame], W[v] = n, \A u \in AnyVtable : u # v => W[u] = V[u]
  PROVE  TablesSound(G, W, X) /\ Exact(G, W, M)
<1>1. /\ TablesSound(G, W, X)
      /\ \A u \in AnyFrame, p \in AddressSpace : F[u].kind = "l1" => Translate(G, u, p) = Translate(F, u, p)
      /\ \A p \in AddressSpace : Translate(G, n, p) = -1
  BY NewRoot
<1>2. FramesTyped(F) /\ Rooted(F, V) /\ v \in AnyVtable
  BY DEF TablesSound, AnyVtable
<1>3. ASSUME NEW u \in AnyVtable, W[u] # 0, NEW p \in AddressSpace
      PROVE  Translate(G, W[u], p) = IF p \in DOMAIN M[u] THEN M[u][p] ELSE -1
  <2>1. CASE u = v
    BY <1>1, <1>2, <2>1 DEF Exact
  <2>2. CASE u # v
    <3>1. W[u] = V[u] /\ V[u] # 0 /\ V[u] \in AnyFrame /\ F[V[u]].kind = "l1"
      BY <1>2, <1>3, <2>2, OwnRoots
    <3>. QED BY <1>1, <3>1 DEF Exact
  <2>. QED BY <2>1, <2>2
<1>4. \A u \in AnyVtable : W[u] = 0 => DOMAIN M[u] = {}
  <2>1. n # 0
    BY FramesAre
  <2>. QED BY <2>1 DEF Exact
<1>5. DOMAIN M = AnyVtable /\ \A u \in AnyVtable : DOMAIN M[u] \subseteq AddressSpace
  BY DEF Exact
<1>6. Exact(G, W, M)
  BY <1>3, <1>4, <1>5 DEF Exact
<1>. QED BY <1>1, <1>6

\* What the code does to make one.
LEMMA NewRootMade ==
  ASSUME MmuSound, Ready, NEW v \in UserVtable, vtable[v] = 0, FreeFrames(frames) # {},
         NEW W, W = [vtable EXCEPT ![v] = NextFrame(frames)],
         NEW G, G = [frames EXCEPT ![NextFrame(frames)] = EmptyTable("l1")]
  PROVE  /\ TablesSound(G, W, leaked) /\ Exact(G, W, intended)
         /\ W["kernel"] # 0 /\ W["kernel"] = vtable["kernel"] /\ W["jump"] = vtable["jump"]
         /\ W[v] = NextFrame(frames) /\ NextFrame(frames) \in HeapFrame /\ G[W[v]] = EmptyTable("l1")
<1>1. PICK n \in HeapFrame : n = NextFrame(frames) /\ frames[n].kind = "free"
  BY NextFrameIs
<1>2. /\ TablesSound(frames, vtable, leaked) /\ Exact(frames, vtable, intended) /\ Stages
      /\ FramesTyped(frames) /\ Rooted(frames, vtable)
  BY DEF MmuSound, TablesSound
<1>3. /\ FramesTyped(G) /\ G[n] = EmptyTable("l1") /\ \A u \in AnyFrame : u # n => G[u] = frames[u]
  <2>1. EmptyTable("l1") \in FreshFrame
    BY DEF FreshFrame
  <2>2. PICK H : /\ H = [frames EXCEPT ![n] = EmptyTable("l1")]
                 /\ FramesTyped(H) /\ H[n] = EmptyTable("l1") /\ \A u \in AnyFrame : u # n => H[u] = frames[u]
    BY <1>2, <2>1, PutFrame
  <2>3. G = H
    BY <1>1, <2>2
  <2>. QED BY <2>2, <2>3
<1>4. W \in [AnyVtable -> {0} \cup AnyFrame] /\ W[v] = n /\ \A u \in AnyVtable : u # v => W[u] = vtable[u]
  <2>1. vtable \in [AnyVtable -> {0} \cup AnyFrame] /\ v \in AnyVtable /\ n \in AnyFrame
    BY <1>2 DEF Rooted, AnyVtable, AnyFrame
  <2>. QED BY <1>1, <2>1
<1>5. TablesSound(G, W, leaked) /\ Exact(G, W, intended)
  <2>1. PICK F, V, X, M, H, Z : F = frames /\ V = vtable /\ X = leaked /\ M = intended /\ H = G /\ Z = W
    OBVIOUS
  <2>2. /\ TablesSound(F, V, X) /\ Exact(F, V, M) /\ V[v] = 0 /\ F[n].kind = "free"
        /\ FramesTyped(H) /\ H[n] = EmptyTable("l1") /\ \A u \in AnyFrame : u # n => H[u] = F[u]
        /\ Z \in [AnyVtable -> {0} \cup AnyFrame] /\ Z[v] = n /\ \A u \in AnyVtable : u # v => Z[u] = V[u]
    BY <1>1, <1>2, <1>3, <1>4, <2>1
  <2>3. TablesSound(H, Z, X) /\ Exact(H, Z, M)
    BY ONLY <2>2, v \in UserVtable, n \in HeapFrame, NewRootExact
  <2>. QED BY <2>1, <2>3
<1>6. v # "kernel" /\ v # "jump" /\ "kernel" \in AnyVtable /\ "jump" \in AnyVtable
  BY MmuAssumption DEF AnyVtable
<1>7. vtable["kernel"] # 0
  BY <1>2 DEF Stages, Ready
<1>. QED BY <1>1, <1>3, <1>4, <1>5, <1>6, <1>7

\* A page table is made.
LEMMA CreateKept ==
  ASSUME MmuSound, NEW v \in UserVtable, os_mmu_vtable_create(v)
  PROVE  MmuSound'
<1>1. /\ Ready /\ vtable[v] = 0 /\ FreeFrames(frames) # {}
      /\ frames' = [frames EXCEPT ![NextFrame(frames)] = EmptyTable("l1")]
      /\ vtable' = [vtable EXCEPT ![v] = NextFrame(frames)] /\ intended' = intended
      /\ os_mmu_preinitialized' = os_mmu_preinitialized /\ leaked' = leaked /\ strayed' = strayed
  BY DEF os_mmu_vtable_create
<1>2. /\ TablesSound(frames', vtable', leaked) /\ Exact(frames', vtable', intended)
      /\ vtable'["kernel"] # 0 /\ vtable'["kernel"] = vtable["kernel"] /\ vtable'["jump"] = vtable["jump"]
  BY <1>1, NewRootMade
<1>3. Stages'
  BY <1>1, <1>2 DEF MmuSound, Stages
<1>. QED BY <1>1, <1>2, <1>3 DEF MmuSound

-----------------------------------------------------------------------------
\* The entries from lo on are the kernel's, nothing else changes.
OnlyCopied(F, G, l1, lo) ==
  /\ FramesTyped(G) /\ G[l1].kind = "l1"
  /\ \A id \in 0..7 : G[l1].entry[id] = IF id >= lo THEN F[kernel_l1_pagetable].entry[id] ELSE F[l1].entry[id]
  /\ \A u \in AnyFrame : u # l1 => G[u] = F[u]

LEMMA CopyEntriesIs ==
  ASSUME NEW F, FramesTyped(F), NEW l1 \in HeapFrame, F[l1].kind = "l1", NEW start, NEW size,
         OS_MMU_L1_ID(start) \in 0..7, OS_MMU_L1_ID(start + size - 1) \in 0..7
  PROVE  /\ FramesTyped(CopyEntries(F, l1, start, size)) /\ CopyEntries(F, l1, start, size)[l1].kind = "l1"
         /\ \A id \in 0..7 : CopyEntries(F, l1, start, size)[l1].entry[id]
                             = IF id \in OS_MMU_L1_ID(start)..OS_MMU_L1_ID(start + size - 1)
                               THEN F[kernel_l1_pagetable].entry[id] ELSE F[l1].entry[id]
         /\ \A u \in AnyFrame : u # l1 => CopyEntries(F, l1, start, size)[u] = F[u]
<1>1. PICK a \in 0..7, b \in 0..7 : OS_MMU_L1_ID(start) = a /\ OS_MMU_L1_ID(start + size - 1) = b
  OBVIOUS
<1>2. PICK G : G = CopyEntries(F, l1, start, size)
  OBVIOUS
<1>3. PICK k, e : /\ k = F[kernel_l1_pagetable].entry /\ e = F[l1].entry
                  /\ k \in [0..7 -> Int] /\ e \in [0..7 -> Int] /\ F[l1] = [kind |-> "l1", entry |-> e]
  <2>1. kernel_l1_pagetable \in AnyFrame /\ l1 \in AnyFrame /\ F[kernel_l1_pagetable].kind = "l1"
    BY DEF AnyFrame, FramesTyped
  <2>. QED BY <2>1, FrameKinds DEF Entries
<1>4. PICK x : x = [id \in 0..7 |-> IF id \in a..b THEN k[id] ELSE e[id]]
  OBVIOUS
<1>5. x \in [0..7 -> Int] /\ \A id \in 0..7 : x[id] = IF id \in a..b THEN k[id] ELSE e[id]
  BY <1>3, <1>4
<1>6. G = [F EXCEPT ![l1].entry = x]
  <2>1. G = [F EXCEPT ![l1].entry = [id \in 0..7 |-> IF id \in OS_MMU_L1_ID(start)..OS_MMU_L1_ID(start + size - 1)
                                                    THEN F[kernel_l1_pagetable].entry[id] ELSE F[l1].entry[id]]]
    BY <1>2 DEF CopyEntries
  <2>. QED BY <1>1, <1>3, <1>4, <2>1
<1>7. G = [F EXCEPT ![l1] = [kind |-> "l1", entry |-> x]]
  <2>1. G = [F EXCEPT ![l1] = [F[l1] EXCEPT !.entry = x]]
    BY <1>6
  <2>2. [F[l1] EXCEPT !.entry = x] = [kind |-> "l1", entry |-> x]
    BY <1>3
  <2>. QED BY <2>1, <2>2
<1>8. [kind |-> "l1", entry |-> x] \in TablesOf("l1")
  BY <1>5 DEF TablesOf, Entries
<1>9. /\ F \in [AnyFrame -> {Plain("free"), Plain("data")} \cup TablesOf("l1") \cup TablesOf("l2") \cup TablesOf("l3")]
      /\ F[kernel_l1_pagetable].kind = "l1" /\ F[kernel_l1_jump_pagetable].kind = "l1"
      /\ kernel_l1_pagetable \in AnyFrame /\ kernel_l1_jump_pagetable \in AnyFrame /\ l1 \in AnyFrame
  BY DEF FramesTyped, AnyFrame
<1>10. G \in [AnyFrame -> {Plain("free"), Plain("data")} \cup TablesOf("l1") \cup TablesOf("l2") \cup TablesOf("l3")]
  BY <1>7, <1>8, <1>9
<1>11. G[l1] = [kind |-> "l1", entry |-> x] /\ \A u \in AnyFrame : u # l1 => G[u] = F[u]
  BY <1>7, <1>9
<1>12. G[l1].kind = "l1" /\ G[l1].entry = x
  BY <1>11
<1>13. FramesTyped(G)
  BY <1>9, <1>10, <1>11, <1>12 DEF FramesTyped
<1>14. \A id \in 0..7 : G[l1].entry[id] = IF id \in a..b THEN F[kernel_l1_pagetable].entry[id] ELSE F[l1].entry[id]
  BY <1>3, <1>5, <1>12
<1>. QED BY <1>1, <1>11, <1>12, <1>13, <1>2, <1>14

\* The copies of IO's entries and of the kernel's.
LEMMA IoCopied ==
  ASSUME NEW F, FramesTyped(F), NEW l1 \in HeapFrame, F[l1].kind = "l1"
  PROVE  OnlyCopied(F, io_mapping_copy(F, l1), l1, 6)
<1>1. OS_MMU_L1_ID(IO_START) = 6 /\ OS_MMU_L1_ID(IO_START + IO_SIZE - 1) = 7
  BY DEF OS_MMU_L1_ID, IO_START, IO_SIZE, OS_MMU_L1_SIZE
<1>2. PICK G : G = CopyEntries(F, l1, IO_START, IO_SIZE)
  OBVIOUS
<1>3. /\ FramesTyped(G) /\ G[l1].kind = "l1"
      /\ \A id \in 0..7 : G[l1].entry[id] = IF id \in 6..7 THEN F[kernel_l1_pagetable].entry[id] ELSE F[l1].entry[id]
      /\ \A u \in AnyFrame : u # l1 => G[u] = F[u]
  BY <1>1, <1>2, CopyEntriesIs
<1>4. OnlyCopied(F, G, l1, 6)
  BY <1>3 DEF OnlyCopied
<1>. QED BY <1>2, <1>4 DEF io_mapping_copy

\* Both together copy everything above user space.
LEMMA KernelCopied ==
  ASSUME NEW F, FramesTyped(F), NEW l1 \in HeapFrame, F[l1].kind = "l1"
  PROVE  OnlyCopied(F, kernel_mapping_copy(io_mapping_copy(F, l1), l1), l1, 4)
<1>1. OS_MMU_L1_ID(KERNEL_START) = 4 /\ OS_MMU_L1_ID(KERNEL_START + KERNEL_SIZE - 1) = 5
  BY DEF OS_MMU_L1_ID, KERNEL_START, KERNEL_SIZE, OS_MMU_L1_SIZE
<1>2. PICK H, G : H = io_mapping_copy(F, l1) /\ G = CopyEntries(H, l1, KERNEL_START, KERNEL_SIZE)
  OBVIOUS
<1>3. OnlyCopied(F, H, l1, 6)
  BY <1>2, IoCopied
<1>4. /\ FramesTyped(H) /\ H[l1].kind = "l1"
      /\ \A id \in 0..7 : H[l1].entry[id] = IF id >= 6 THEN F[kernel_l1_pagetable].entry[id] ELSE F[l1].entry[id]
      /\ \A u \in AnyFrame : u # l1 => H[u] = F[u]
  BY <1>3 DEF OnlyCopied
<1>5. H[kernel_l1_pagetable] = F[kernel_l1_pagetable]
  BY <1>4, FramesAre DEF kernel_l1_pagetable
<1>6. /\ FramesTyped(G) /\ G[l1].kind = "l1"
      /\ \A id \in 0..7 : G[l1].entry[id] = IF id \in 4..5 THEN H[kernel_l1_pagetable].entry[id] ELSE H[l1].entry[id]
      /\ \A u \in AnyFrame : u # l1 => G[u] = H[u]
  BY <1>1, <1>2, <1>4, CopyEntriesIs
<1>7. OnlyCopied(F, G, l1, 4)
  BY <1>4, <1>5, <1>6 DEF OnlyCopied
<1>. QED BY <1>2, <1>7 DEF kernel_mapping_copy

\* A page table without pages in user space is left as it is by a copy of the kernel's
\* entries for user space.
LEMMA UserCopied ==
  ASSUME NEW F, FramesTyped(F), BlocksAbove(F), NEW l1 \in HeapFrame, F[l1].kind = "l1",
         \A id \in 0..3 : F[l1].entry[id] = 0
  PROVE  /\ FramesTyped(user_mapping_copy(F, l1)) /\ user_mapping_copy(F, l1)[l1].kind = "l1"
         /\ \A id \in 0..7 : user_mapping_copy(F, l1)[l1].entry[id] = F[l1].entry[id]
         /\ \A u \in AnyFrame : u # l1 => user_mapping_copy(F, l1)[u] = F[u]
<1>1. OS_MMU_L1_ID(USER_START) = 0 /\ OS_MMU_L1_ID(USER_START + USER_SIZE - 1) = 3
  BY DEF OS_MMU_L1_ID, USER_START, USER_SIZE, OS_MMU_L1_SIZE
<1>2. PICK G : G = CopyEntries(F, l1, USER_START, USER_SIZE)
  OBVIOUS
<1>3. /\ FramesTyped(G) /\ G[l1].kind = "l1"
      /\ \A id \in 0..7 : G[l1].entry[id] = IF id \in 0..3 THEN F[kernel_l1_pagetable].entry[id] ELSE F[l1].entry[id]
      /\ \A u \in AnyFrame : u # l1 => G[u] = F[u]
  BY <1>1, <1>2, CopyEntriesIs
<1>4. \A id \in 0..3 : F[kernel_l1_pagetable].entry[id] = 0
  BY DEF BlocksAbove
<1>5. \A id \in 0..7 : G[l1].entry[id] = F[l1].entry[id]
  BY <1>3, <1>4
<1>. QED BY <1>2, <1>3, <1>5 DEF user_mapping_copy

\* A page table with copies of the kernel's entries translates the pages from there on as
\* the kernel's page table does.
LEMMA CopySound ==
  ASSUME NEW F, NEW V, NEW X, TablesSound(F, V, X), NEW l1 \in HeapFrame, F[l1].kind = "l1",
         NEW lo \in {4, 6}, NEW G, OnlyCopied(F, G, l1, lo)
  PROVE  /\ TablesSound(G, V, X)
         /\ \A p \in AddressSpace : Translate(G, l1, p) = IF p >= 4 * lo THEN Translate(F, kernel_l1_pagetable, p) ELSE Translate(F, l1, p)
         /\ \A u \in AnyFrame, p \in AddressSpace : F[u].kind = "l1" /\ u # l1 => Translate(G, u, p) = Translate(F, u, p)
         /\ \A u \in AnyFrame : F[u].kind = "l1" => G[u].kind = "l1"
<1>1. /\ FramesTyped(F) /\ BlocksAbove(F) /\ SlotsTyped(F) /\ SlotsUnique(F) /\ Rooted(F, V) /\ Owned(F, V, X)
  BY DEF TablesSound
<1>2. /\ FramesTyped(G) /\ G[l1].kind = "l1" /\ \A u \in AnyFrame : u # l1 => G[u] = F[u]
      /\ \A id \in 0..7 : G[l1].entry[id] = IF id >= lo THEN F[kernel_l1_pagetable].entry[id] ELSE F[l1].entry[id]
  BY DEF OnlyCopied
<1>3. /\ HeapFrame \subseteq AnyFrame /\ l1 # kernel_l1_pagetable /\ l1 # kernel_l1_jump_pagetable
      /\ kernel_l1_pagetable \in AnyFrame /\ kernel_l1_jump_pagetable \in AnyFrame
  BY FramesAre DEF kernel_l1_pagetable, kernel_l1_jump_pagetable
<1>4. \A u \in AnyFrame : G[u].kind = F[u].kind
  BY <1>2
<1>5. \A id \in 0..3 : G[l1].entry[id] = F[l1].entry[id]
  BY <1>2
<1>6. \A t \in HeapFrame : SameSlots(F, G, t)
  <2>. SUFFICES ASSUME NEW t \in HeapFrame PROVE SameSlots(F, G, t)
    OBVIOUS
  <2>1. CASE t = l1
    <3>1. ASSUME NEW i \in 0..7
          PROVE  /\ IsSlot(G, l1, i) <=> IsSlot(F, l1, i)
                 /\ IsSlot(F, l1, i) => G[l1].entry[i] = F[l1].entry[i]
      <4>1. i <= 3 => G[l1].entry[i] = F[l1].entry[i]
        BY <1>5
      <4>2. IsSlot(F, l1, i) <=> (i \in Entries("l1") /\ i <= 3 /\ F[l1].entry[i] # 0)
        BY SlotIs
      <4>3. IsSlot(G, l1, i) <=> (i \in Entries("l1") /\ i <= 3 /\ G[l1].entry[i] # 0)
        BY <1>2, SlotIs
      <4>. QED BY <4>1, <4>2, <4>3
    <3>. QED BY <1>2, <2>1, <3>1 DEF SameSlots
  <2>2. CASE t # l1
    BY <1>2, <1>3, <2>2, EqualFrames
  <2>. QED BY <2>1, <2>2
<1>7. /\ SlotsTyped(G) /\ SlotsUnique(G)
      /\ \A t \in HeapFrame, i \in 0..7 : IsSlot(G, t, i) <=> IsSlot(F, t, i)
      /\ \A t \in HeapFrame, i \in 0..7 : IsSlot(F, t, i) => Target(G, t, i) = Target(F, t, i)
  <2>1. \A t \in HeapFrame, i \in 0..7 : IsSlot(F, t, i) => G[Target(F, t, i)].kind = F[Target(F, t, i)].kind
    BY <1>1, <1>3, <1>4, SlotLeads
  <2>. QED BY <1>1, <1>6, <2>1, SlotsKept
<1>8. BlocksAbove(G)
  <2>1. \A i \in 4..7 : G[l1].entry[i] >= 0
    <3>1. \A i \in 4..7 : F[l1].entry[i] >= 0 /\ F[kernel_l1_pagetable].entry[i] >= 0
      BY <1>1, <1>3 DEF BlocksAbove, FramesTyped
    <3>. QED BY <1>2, <3>1
  <2>. QED BY <1>1, <1>2, <1>3, <2>1 DEF BlocksAbove
<1>9. Rooted(G, V)
  BY <1>1, <1>3, <1>4 DEF Rooted
<1>10. Owned(G, V, X)
  BY <1>1, <1>3, <1>4, <1>7 DEF Owned
<1>11. ASSUME NEW u \in AnyFrame, NEW m \in AnyFrame, F[m].kind = "l1", NEW p \in AddressSpace,
              G[u].entry[OS_MMU_L1_ID(p)] = F[m].entry[OS_MMU_L1_ID(p)]
       PROVE  Translate(G, u, p) = Translate(F, m, p)
  <2>1. E1(F, m, p) \in Int /\ E1(G, u, p) = E1(F, m, p)
    <3>1. E1(F, m, p) \in Int
      BY <1>1, <1>11, Path
    <3>. QED BY <1>11, <3>1 DEF E1
  <2>2. ASSUME E1(F, m, p) < 0 PROVE E2(G, u, p) = E2(F, m, p) /\ E2(F, m, p) \in Int
    <3>1. PICK x \in HeapFrame : x = -E1(F, m, p) /\ F[x].kind = "l2" /\ E2(F, m, p) \in Int
      BY <1>1, <1>11, <2>2, Path
    <3>2. G[x] = F[x]
      BY <1>2, <1>3, <3>1
    <3>3. E2(G, u, p) = G[x].entry[OS_MMU_L2_ID(p)] /\ E2(F, m, p) = F[x].entry[OS_MMU_L2_ID(p)]
      BY <2>1, <3>1 DEF E2
    <3>. QED BY <3>1, <3>2, <3>3
  <2>3. ASSUME E1(F, m, p) < 0, E2(F, m, p) < 0 PROVE E3(G, u, p) = E3(F, m, p) /\ E3(F, m, p) \in Int
    <3>1. E2(F, m, p) # 0
      BY <2>3
    <3>2. PICK x \in HeapFrame : x = -E2(F, m, p) /\ F[x].kind = "l3" /\ E3(F, m, p) \in Int
      BY <1>1, <1>11, <2>3, <3>1, Path
    <3>3. G[x] = F[x]
      BY <1>2, <1>3, <3>2
    <3>4. E3(G, u, p) = G[x].entry[OS_MMU_L3_ID(p)] /\ E3(F, m, p) = F[x].entry[OS_MMU_L3_ID(p)]
      BY <2>2, <2>3, <3>2 DEF E3
    <3>. QED BY <3>2, <3>3, <3>4
  <2>. QED BY <2>1, <2>2, <2>3, SameWay
<1>12. ASSUME NEW p \in AddressSpace
       PROVE  Translate(G, l1, p) = IF p >= 4 * lo THEN Translate(F, kernel_l1_pagetable, p) ELSE Translate(F, l1, p)
  <2>1. PICK id \in 0..7 : id = OS_MMU_L1_ID(p) /\ (p >= 4 * lo <=> id >= lo)
    <3>1. /\ OS_MMU_L1_ID(p) \in 0..7 /\ OS_MMU_L2_ID(p) \in 0..1 /\ OS_MMU_L3_ID(p) \in 0..1
          /\ p = 4 * OS_MMU_L1_ID(p) + 2 * OS_MMU_L2_ID(p) + OS_MMU_L3_ID(p)
      BY Parts
    <3>. QED BY <3>1
  <2>2. F[kernel_l1_pagetable].kind = "l1"
    BY <1>1 DEF FramesTyped
  <2>3. CASE id >= lo
    <3>1. G[l1].entry[OS_MMU_L1_ID(p)] = F[kernel_l1_pagetable].entry[OS_MMU_L1_ID(p)]
      BY <1>2, <2>1, <2>3
    <3>. QED BY <1>3, <1>11, <2>1, <2>2, <2>3, <3>1
  <2>4. CASE ~(id >= lo)
    <3>1. G[l1].entry[OS_MMU_L1_ID(p)] = F[l1].entry[OS_MMU_L1_ID(p)]
      BY <1>2, <2>1, <2>4
    <3>. QED BY <1>3, <1>11, <2>1, <2>4, <3>1
  <2>. QED BY <2>3, <2>4
<1>13. ASSUME NEW u \in AnyFrame, F[u].kind = "l1", u # l1, NEW p \in AddressSpace
       PROVE  Translate(G, u, p) = Translate(F, u, p)
  BY <1>2, <1>11, <1>13
<1>14. TablesSound(G, V, X)
  BY <1>2, <1>7, <1>8, <1>9, <1>10 DEF TablesSound
<1>. QED BY <1>4, <1>12, <1>13, <1>14

\* os_mmu_user_mapping_copy copies nothing: the kernel's entries are null in user space.
LEMMA UserCopyNothing ==
  ASSUME NEW F, FramesTyped(F), BlocksAbove(F), NEW l1 \in HeapFrame, F[l1].kind = "l1",
         \A id \in 0..3 : F[l1].entry[id] = 0
  PROVE  user_mapping_copy(F, l1) = F
<1>1. PICK G : G = user_mapping_copy(F, l1)
  OBVIOUS
<1>2. /\ FramesTyped(G) /\ G[l1].kind = "l1" /\ \A id \in 0..7 : G[l1].entry[id] = F[l1].entry[id]
      /\ \A u \in AnyFrame : u # l1 => G[u] = F[u]
  BY <1>1, UserCopied
<1>3. l1 \in AnyFrame
  BY DEF AnyFrame
<1>4. PICK x, y : x = F[l1].entry /\ y = G[l1].entry
  OBVIOUS
<1>5. x \in [0..7 -> Int] /\ y \in [0..7 -> Int] /\ F[l1] = [kind |-> "l1", entry |-> x] /\ G[l1] = [kind |-> "l1", entry |-> y]
  BY <1>2, <1>3, <1>4, FrameKinds DEF Entries
<1>6. x = y
  BY <1>2, <1>4, <1>5
<1>7. \A u \in AnyFrame : G[u] = F[u]
  BY <1>2, <1>5, <1>6
<1>8. G = F
  <2>1. F = [u \in AnyFrame |-> F[u]] /\ G = [u \in AnyFrame |-> G[u]]
    BY <1>2 DEF FramesTyped
  <2>. QED BY <1>7, <2>1
<1>. QED BY <1>1, <1>8

\* What such a page table is meant to map: the kernel's pages from low on, its own below.
IsCopied(M, N, v, low) ==
  /\ DOMAIN N = DOMAIN M /\ \A u \in DOMAIN M : u # v => N[u] = M[u]
  /\ DOMAIN N[v] = {q \in DOMAIN M[v] : q < low} \cup {q \in DOMAIN M["kernel"] : q >= low}
  /\ \A p \in DOMAIN N[v] : N[v][p] = IF p < low THEN M[v][p] ELSE M["kernel"][p]

\* The copy translates just that.
LEMMA CopyExact ==
  ASSUME NEW F, NEW V, NEW X, NEW M, NEW N, TablesSound(F, V, X), Exact(F, V, M), V["kernel"] # 0,
         NEW v \in UserVtable, V[v] # 0, NEW lo \in {4, 6}, NEW G, OnlyCopied(F, G, V[v], lo), IsCopied(M, N, v, 4 * lo)
  PROVE  TablesSound(G, V, X) /\ Exact(G, V, N)
<1>1. FramesTyped(F) /\ Rooted(F, V)
  BY DEF TablesSound
<1>2. PICK l1 \in HeapFrame : l1 = V[v] /\ F[l1].kind = "l1"
  BY <1>1, OwnRoots
<1>3. /\ TablesSound(G, V, X)
      /\ \A p \in AddressSpace : Translate(G, l1, p) = IF p >= 4 * lo THEN Translate(F, kernel_l1_pagetable, p) ELSE Translate(F, l1, p)
      /\ \A u \in AnyFrame, p \in AddressSpace : F[u].kind = "l1" /\ u # l1 => Translate(G, u, p) = Translate(F, u, p)
  BY <1>2, CopySound
<1>4. V["kernel"] = kernel_l1_pagetable /\ "kernel" \in AnyVtable /\ v \in AnyVtable
  BY <1>1 DEF Rooted, AnyVtable
<1>5. DOMAIN M = AnyVtable /\ \A u \in AnyVtable : DOMAIN M[u] \subseteq 0..31
  BY DEF Exact, AddressSpace
<1>6. \A u \in AnyVtable : V[u] # 0 =>
        \A p \in AddressSpace : Translate(F, V[u], p) = IF p \in DOMAIN M[u] THEN M[u][p] ELSE -1
  BY DEF Exact
<1>7. ASSUME NEW u \in AnyVtable, V[u] # 0, NEW p \in AddressSpace
      PROVE  Translate(G, V[u], p) = IF p \in DOMAIN N[u] THEN N[u][p] ELSE -1
  <2>1. p \in Int /\ 4 * lo \in Int
    BY DEF AddressSpace
  <2>2. CASE u = v
    <3>1. CASE p >= 4 * lo
      <4>1. Translate(G, l1, p) = IF p \in DOMAIN M["kernel"] THEN M["kernel"][p] ELSE -1
        BY <1>3, <1>4, <1>6, <3>1
      <4>2. p \in DOMAIN N[v] <=> p \in DOMAIN M["kernel"]
        BY <2>1, <3>1 DEF IsCopied
      <4>3. p \in DOMAIN N[v] => N[v][p] = M["kernel"][p]
        BY <2>1, <3>1 DEF IsCopied
      <4>. QED BY <1>2, <2>2, <4>1, <4>2, <4>3
    <3>2. CASE ~(p >= 4 * lo)
      <4>1. Translate(G, l1, p) = IF p \in DOMAIN M[v] THEN M[v][p] ELSE -1
        BY <1>2, <1>3, <1>4, <1>6, <3>2
      <4>2. p \in DOMAIN N[v] <=> p \in DOMAIN M[v]
        BY <2>1, <3>2 DEF IsCopied
      <4>3. p \in DOMAIN N[v] => N[v][p] = M[v][p]
        BY <2>1, <3>2 DEF IsCopied
      <4>. QED BY <1>2, <2>2, <4>1, <4>2, <4>3
    <3>. QED BY <3>1, <3>2
  <2>3. CASE u # v
    <3>1. V[u] \in AnyFrame /\ F[V[u]].kind = "l1" /\ V[u] # l1
      BY <1>1, <1>2, <1>7, <2>3, OwnRoots
    <3>2. N[u] = M[u]
      BY <1>5, <2>3 DEF IsCopied
    <3>. QED BY <1>3, <1>6, <1>7, <3>1, <3>2
  <2>. QED BY <2>2, <2>3
<1>8. DOMAIN N = AnyVtable
  BY <1>5 DEF IsCopied
<1>9. \A u \in AnyVtable : V[u] = 0 => DOMAIN N[u] = {}
  BY <1>5 DEF IsCopied, Exact
<1>10. \A u \in AnyVtable : DOMAIN N[u] \subseteq AddressSpace
  <2>. SUFFICES ASSUME NEW u \in AnyVtable PROVE DOMAIN N[u] \subseteq AddressSpace
    OBVIOUS
  <2>1. CASE u = v
    BY <1>4, <1>5, <2>1 DEF IsCopied, AddressSpace
  <2>2. CASE u # v
    BY <1>5, <2>2 DEF IsCopied, AddressSpace
  <2>. QED BY <2>1, <2>2
<1>. QED BY <1>3, <1>7, <1>8, <1>9, <1>10 DEF Exact

\* The intended mapping after a copy.
LEMMA CopiedIs ==
  ASSUME NEW v \in DOMAIN intended, NEW low, NEW N, N = [intended EXCEPT ![v] = Copied(v, low)]
  PROVE  IsCopied(intended, N, v, low)
<1>1. PICK c : c = Copied(v, low)
  OBVIOUS
<1>2. /\ DOMAIN c = {q \in DOMAIN intended[v] : q < low} \cup {q \in DOMAIN intended["kernel"] : q >= low}
      /\ \A p \in DOMAIN c : c[p] = IF p < low THEN intended[v][p] ELSE intended["kernel"][p]
  BY <1>1 DEF Copied
<1>3. N[v] = c /\ DOMAIN N = DOMAIN intended /\ \A u \in DOMAIN intended : u # v => N[u] = intended[u]
  BY <1>1
<1>. QED BY <1>2, <1>3 DEF IsCopied

\* The kernel and IO become visible in a page table.
LEMMA CopyMappingsKept ==
  ASSUME MmuSound, NEW v \in UserVtable, CopyMappings(v)
  PROVE  MmuSound'
<1>1. /\ Ready /\ vtable[v] # 0 /\ vtable' = vtable /\ os_mmu_preinitialized' = os_mmu_preinitialized
      /\ leaked' = leaked /\ strayed' = strayed
      /\ frames' = kernel_mapping_copy(io_mapping_copy(frames, vtable[v]), vtable[v])
      /\ intended' = [intended EXCEPT ![v] = Copied(v, KERNEL_START)]
  BY DEF CopyMappings
<1>2. /\ TablesSound(frames, vtable, leaked) /\ Exact(frames, vtable, intended) /\ Stages
      /\ FramesTyped(frames) /\ Rooted(frames, vtable) /\ vtable["kernel"] # 0
  BY <1>1 DEF MmuSound, TablesSound, Stages, Ready
<1>3. vtable[v] \in HeapFrame /\ frames[vtable[v]].kind = "l1" /\ v \in DOMAIN intended
  BY <1>1, <1>2, OwnRoots DEF Exact
<1>4. OnlyCopied(frames, frames', vtable[v], 4)
  BY <1>1, <1>2, <1>3, KernelCopied
<1>5. IsCopied(intended, intended', v, 4 * 4)
  <2>1. KERNEL_START = 4 * 4
    BY DEF KERNEL_START
  <2>. QED BY <1>1, <1>3, <2>1, CopiedIs
<1>6. TablesSound(frames', vtable, leaked) /\ Exact(frames', vtable, intended')
  BY <1>1, <1>2, <1>4, <1>5, CopyExact
<1>. QED BY <1>1, <1>2, <1>6 DEF MmuSound, Stages

\* IO memory mapped later becomes visible at the first access.
LEMMA FaultKept ==
  ASSUME MmuSound, os_mmu_page_fault_handler
  PROVE  MmuSound'
<1>1. PICK v \in UserVtable : v = current_vtable /\ vtable[v] # 0
  BY DEF os_mmu_page_fault_handler, UserTables
<1>2. /\ Ready /\ vtable' = vtable /\ os_mmu_preinitialized' = os_mmu_preinitialized
      /\ leaked' = leaked /\ strayed' = strayed
      /\ frames' = io_mapping_copy(frames, vtable[v])
      /\ intended' = [intended EXCEPT ![v] = Copied(v, IO_START % 32)]
  BY <1>1 DEF os_mmu_page_fault_handler
<1>3. /\ TablesSound(frames, vtable, leaked) /\ Exact(frames, vtable, intended) /\ Stages
      /\ FramesTyped(frames) /\ Rooted(frames, vtable) /\ vtable["kernel"] # 0
  BY <1>2 DEF MmuSound, TablesSound, Stages, Ready
<1>4. vtable[v] \in HeapFrame /\ frames[vtable[v]].kind = "l1" /\ v \in DOMAIN intended
  BY <1>1, <1>3, OwnRoots DEF Exact
<1>5. OnlyCopied(frames, frames', vtable[v], 6)
  BY <1>2, <1>3, <1>4, IoCopied
<1>6. IsCopied(intended, intended', v, 4 * 6)
  <2>1. IO_START % 32 = 4 * 6
    BY DEF IO_START
  <2>. QED BY <1>2, <1>4, <2>1, CopiedIs
<1>7. TablesSound(frames', vtable, leaked) /\ Exact(frames', vtable, intended')
  BY <1>1, <1>3, <1>5, <1>6, CopyExact
<1>. QED BY <1>2, <1>3, <1>7 DEF MmuSound, Stages

\* The page table of a cloned task.
LEMMA CloneKept ==
  ASSUME MmuSound, NEW v \in UserVtable, os_clone_copy_memory(v)
  PROVE  MmuSound'
<1>1. PICK F, W, n :
        /\ n = NextFrame(frames) /\ F = [frames EXCEPT ![NextFrame(frames)] = EmptyTable("l1")]
        /\ W = [vtable EXCEPT ![v] = NextFrame(frames)]
  OBVIOUS
<1>2. /\ Ready /\ vtable[v] = 0 /\ FreeFrames(frames) # {}
      /\ frames' = user_mapping_copy(kernel_mapping_copy(io_mapping_copy(F, n), n), n)
      /\ vtable' = W /\ intended' = [intended EXCEPT ![v] = Copied(v, KERNEL_START)]
      /\ os_mmu_preinitialized' = os_mmu_preinitialized
      /\ leaked' = leaked /\ strayed' = strayed
  BY <1>1 DEF os_clone_copy_memory
<1>3. /\ TablesSound(F, W, leaked) /\ Exact(F, W, intended)
      /\ W["kernel"] # 0 /\ W["kernel"] = vtable["kernel"] /\ W["jump"] = vtable["jump"]
      /\ W[v] = n /\ n \in HeapFrame /\ F[n] = EmptyTable("l1")
  BY <1>1, <1>2, NewRootMade
<1>4. FramesTyped(F) /\ F[n].kind = "l1" /\ (\A i \in 0..7 : F[n].entry[i] = 0) /\ n # 0
  BY <1>3, FramesAre DEF TablesSound, EmptyTable, Entries
<1>5. PICK G : G = kernel_mapping_copy(io_mapping_copy(F, n), n)
  OBVIOUS
<1>6. OnlyCopied(F, G, n, 4)
  BY <1>3, <1>4, <1>5, KernelCopied
<1>7. IsCopied(intended, intended', v, 4 * 4)
  <2>1. KERNEL_START = 4 * 4
    BY DEF KERNEL_START
  <2>2. v \in DOMAIN intended
    BY <1>3 DEF Exact, AnyVtable
  <2>. QED BY <1>2, <2>1, <2>2, CopiedIs
<1>8. TablesSound(G, W, leaked) /\ Exact(G, W, intended')
  <2>1. PICK N : N = intended'
    OBVIOUS
  <2>2. OnlyCopied(F, G, W[v], 4) /\ IsCopied(intended, N, v, 4 * 4) /\ W[v] # 0
    BY <1>3, <1>4, <1>6, <1>7, <2>1
  <2>3. TablesSound(G, W, leaked) /\ Exact(G, W, N)
    BY <1>3, <2>2, CopyExact
  <2>. QED BY <2>1, <2>3
<1>9. frames' = G
  <2>1. FramesTyped(G) /\ BlocksAbove(G)
    BY <1>8 DEF TablesSound
  <2>2. G[n].kind = "l1" /\ \A id \in 0..3 : G[n].entry[id] = 0
    BY <1>4, <1>6 DEF OnlyCopied
  <2>3. user_mapping_copy(G, n) = G
    BY <1>3, <2>1, <2>2, UserCopyNothing
  <2>. QED BY <1>2, <1>5, <2>3
<1>10. Stages'
  BY <1>2, <1>3 DEF MmuSound, Stages
<1>. QED BY <1>2, <1>8, <1>9, <1>10 DEF MmuSound

\* A switch changes no table.
LEMMA SwitchKept ==
  ASSUME MmuSound, NEW v \in UserVtable, os_mmu_switch(v)
  PROVE  MmuSound'
BY DEF MmuSound, Stages, os_mmu_switch

\* The boot's page table with the memory at its own addresses is not used any more.
LEMMA SecondaryKept ==
  ASSUME MmuSound, os_mmu_preinit_secondary
  PROVE  MmuSound'
<1>1. /\ vtable["jump"] # 0 /\ vtable' = [vtable EXCEPT !["jump"] = 0]
      /\ intended' = [intended EXCEPT !["jump"] = [p \in {} |-> 0]]
      /\ os_mmu_preinitialized' = TRUE /\ frames' = frames /\ leaked' = leaked /\ strayed' = strayed
  BY DEF os_mmu_preinit_secondary
<1>2. /\ TablesSound(frames, vtable, leaked) /\ Exact(frames, vtable, intended) /\ Stages /\ Rooted(frames, vtable)
  BY DEF MmuSound, TablesSound
<1>3. /\ vtable \in [AnyVtable -> {0} \cup AnyFrame] /\ "jump" \in AnyVtable /\ "kernel" \in AnyVtable
      /\ UserVtable \subseteq AnyVtable /\ "jump" \notin UserVtable /\ DOMAIN intended = AnyVtable
  BY <1>2, MmuAssumption DEF Rooted, AnyVtable, Exact
<1>4. /\ vtable' \in [AnyVtable -> {0} \cup AnyFrame] /\ vtable'["jump"] = 0
      /\ \A u \in AnyVtable : u # "jump" => vtable'[u] = vtable[u]
  BY <1>1, <1>3
<1>5. Rooted(frames, vtable')
  BY <1>2, <1>3, <1>4 DEF Rooted
<1>6. Owned(frames, vtable', leaked)
  <2>1. \A u \in UserVtable : vtable'[u] = vtable[u]
    BY <1>3, <1>4
  <2>. QED BY <1>2, <2>1 DEF TablesSound, Owned
<1>7. TablesSound(frames, vtable', leaked)
  BY <1>2, <1>5, <1>6 DEF TablesSound
<1>8. /\ DOMAIN intended' = AnyVtable /\ DOMAIN intended'["jump"] = {}
      /\ \A u \in AnyVtable : u # "jump" => intended'[u] = intended[u]
  BY <1>1, <1>3
<1>9. Exact(frames, vtable', intended')
  <2>1. ASSUME NEW u \in AnyVtable
        PROVE  /\ vtable'[u] = 0 => DOMAIN intended'[u] = {}
               /\ DOMAIN intended'[u] \subseteq AddressSpace
               /\ vtable'[u] # 0 => \A p \in AddressSpace :
                    Translate(frames, vtable'[u], p) = IF p \in DOMAIN intended'[u] THEN intended'[u][p] ELSE -1
    <3>1. CASE u = "jump"
      BY <1>4, <1>8, <3>1
    <3>2. CASE u # "jump"
      BY <1>2, <1>4, <1>8, <3>2 DEF Exact
    <3>. QED BY <3>1, <3>2
  <2>. QED BY <1>8, <2>1 DEF Exact
<1>10. Stages'
  <2>1. vtable["kernel"] # 0
    BY <1>1, <1>2, <1>3 DEF Stages
  <2>2. vtable'["kernel"] = vtable["kernel"]
    BY <1>3, <1>4
  <2>. QED BY <1>1, <1>4, <2>1, <2>2 DEF Stages
<1>. QED BY <1>1, <1>7, <1>9, <1>10 DEF MmuSound

-----------------------------------------------------------------------------
\* Two first levels with the same entry for a page translate it alike.
LEMMA SameBelow ==
  ASSUME NEW F, FramesTyped(F), BlocksAbove(F), SlotsTyped(F),
         NEW G, \A x \in HeapFrame : F[x].kind \in {"l2", "l3"} => G[x] = F[x],
         NEW u \in AnyFrame, NEW m \in AnyFrame, F[m].kind = "l1", NEW p \in AddressSpace,
         G[u].entry[OS_MMU_L1_ID(p)] = F[m].entry[OS_MMU_L1_ID(p)]
  PROVE  Translate(G, u, p) = Translate(F, m, p)
<1>1. E1(F, m, p) \in Int /\ E1(G, u, p) = E1(F, m, p)
  <2>1. E1(F, m, p) \in Int
    BY Path
  <2>. QED BY <2>1 DEF E1
<1>2. ASSUME E1(F, m, p) < 0 PROVE E2(G, u, p) = E2(F, m, p) /\ E2(F, m, p) \in Int
  <2>1. PICK x \in HeapFrame : x = -E1(F, m, p) /\ F[x].kind = "l2" /\ E2(F, m, p) \in Int
    BY <1>2, Path
  <2>2. G[x] = F[x]
    BY <2>1
  <2>3. E2(G, u, p) = G[x].entry[OS_MMU_L2_ID(p)] /\ E2(F, m, p) = F[x].entry[OS_MMU_L2_ID(p)]
    BY <1>1, <2>1 DEF E2
  <2>. QED BY <2>1, <2>2, <2>3
<1>3. ASSUME E1(F, m, p) < 0, E2(F, m, p) < 0 PROVE E3(G, u, p) = E3(F, m, p) /\ E3(F, m, p) \in Int
  <2>1. E2(F, m, p) # 0
    BY <1>3
  <2>2. PICK x \in HeapFrame : x = -E2(F, m, p) /\ F[x].kind = "l3" /\ E3(F, m, p) \in Int
    BY <1>3, <2>1, Path
  <2>3. G[x] = F[x]
    BY <2>2
  <2>4. E3(G, u, p) = G[x].entry[OS_MMU_L3_ID(p)] /\ E3(F, m, p) = F[x].entry[OS_MMU_L3_ID(p)]
    BY <1>2, <1>3, <2>2 DEF E3
  <2>. QED BY <2>2, <2>3, <2>4
<1>. QED BY <1>1, <1>2, <1>3, SameWay

\* Entry i of table t replaced.
Put(F, t, i, e) == [F EXCEPT ![t].entry[i] = e]

\* Page table t has a block or nothing at entry i of its first level, all else is as it was.
BlockPut(F, G, V, X, t, i, e) ==
  /\ TablesSound(G, V, X) /\ \A u \in AnyFrame : G[u].kind = F[u].kind
  /\ \A p \in AddressSpace :
       Translate(G, t, p) = IF OS_MMU_L1_ID(p) # i THEN Translate(F, t, p)
                            ELSE IF e = 0 THEN -1 ELSE (e - 1) + (p % 4)
  /\ \A u \in AnyFrame, p \in AddressSpace :
       F[u].kind = "l1" /\ u # t => Translate(G, u, p) = Translate(F, u, p)

\* What such an entry translates.
LEMMA BlockEntry ==
  ASSUME NEW F, NEW V, NEW X, TablesSound(F, V, X),
         NEW t \in {kernel_l1_pagetable, kernel_l1_jump_pagetable}, NEW i \in 0..7,
         t = kernel_l1_pagetable => i >= 4, NEW e \in Nat
  PROVE  BlockPut(F, Put(F, t, i, e), V, X, t, i, e)
<1>1. /\ FramesTyped(F) /\ BlocksAbove(F) /\ SlotsTyped(F) /\ SlotsUnique(F) /\ Rooted(F, V) /\ Owned(F, V, X)
  BY DEF TablesSound
<1>2. /\ t \in AnyFrame /\ t \notin HeapFrame /\ F[t].kind = "l1" /\ HeapFrame \subseteq AnyFrame
      /\ kernel_l1_pagetable \in AnyFrame /\ kernel_l1_jump_pagetable \in AnyFrame
      /\ kernel_l1_pagetable # kernel_l1_jump_pagetable /\ Entries("l1") = 0..7
  BY <1>1, FramesAre DEF FramesTyped, AnyFrame, kernel_l1_pagetable, kernel_l1_jump_pagetable, Entries
<1>3. PICK G : /\ G = [F EXCEPT ![t].entry[i] = e]
               /\ FramesTyped(G) /\ EntrySet(F, G, t, i, e)
               /\ \A u \in AnyFrame : u # t => G[u] = F[u]
  <2>1. i \in Entries(F[t].kind) /\ e \in Int /\ F[t].kind \in {"l1", "l2", "l3"}
    BY <1>2
  <2>. QED BY <1>1, <1>2, <2>1, PutEntry
<1>4. /\ G[t].kind = "l1" /\ G[t].entry[i] = e /\ \A j \in 0..7 : j # i => G[t].entry[j] = F[t].entry[j]
      /\ FramesTyped(G) /\ \A u \in AnyFrame : u # t => G[u] = F[u]
  BY <1>2, <1>3 DEF EntrySet
<1>5. \A u \in AnyFrame : G[u].kind = F[u].kind
  BY <1>2, <1>4
<1>6. \A u \in HeapFrame : G[u] = F[u]
  BY <1>2, <1>4
<1>7. /\ SlotsTyped(G) /\ SlotsUnique(G)
      /\ \A u \in HeapFrame, j \in 0..7 : IsSlot(G, u, j) <=> IsSlot(F, u, j)
      /\ \A u \in HeapFrame, j \in 0..7 : IsSlot(F, u, j) => Target(G, u, j) = Target(F, u, j)
  <2>1. \A u \in HeapFrame : SameSlots(F, G, u)
    BY <1>6, EqualFrames
  <2>2. \A u \in HeapFrame, j \in 0..7 : IsSlot(F, u, j) => G[Target(F, u, j)].kind = F[Target(F, u, j)].kind
    BY <1>1, <1>6, SlotLeads
  <2>3. PICK H : H = G
    OBVIOUS
  <2>. HIDE <1>3
  <2>. QED BY <1>1, <2>1, <2>2, SlotsKept
<1>8. BlocksAbove(G)
  <2>1. ASSUME NEW u \in AnyFrame, G[u].kind = "l1", NEW j \in 4..7 PROVE G[u].entry[j] >= 0
    <3>1. CASE u = t
      BY <1>1, <1>2, <1>4, <3>1 DEF BlocksAbove
    <3>2. CASE u # t
      BY <1>1, <1>4, <2>1, <3>2 DEF BlocksAbove
    <3>. QED BY <3>1, <3>2
  <2>2. \A j \in 0..3 : G[kernel_l1_pagetable].entry[j] = 0 /\ G[kernel_l1_jump_pagetable].entry[j] >= 0
    BY <1>1, <1>2, <1>4 DEF BlocksAbove
  <2>. QED BY <2>1, <2>2 DEF BlocksAbove
<1>9. Rooted(G, V)
  BY <1>1, <1>5, <1>2 DEF Rooted
<1>10. Owned(G, V, X)
  BY <1>1, <1>6, <1>7 DEF Owned
<1>11. TablesSound(G, V, X)
  BY <1>4, <1>7, <1>8, <1>9, <1>10 DEF TablesSound
<1>12. ASSUME NEW p \in AddressSpace
       PROVE  Translate(G, t, p) = IF OS_MMU_L1_ID(p) # i THEN Translate(F, t, p)
                                   ELSE IF e = 0 THEN -1 ELSE (e - 1) + (p % 4)
  <2>1. OS_MMU_L1_ID(p) \in 0..7
    BY Parts
  <2>2. CASE OS_MMU_L1_ID(p) # i
    <3>1. G[t].entry[OS_MMU_L1_ID(p)] = F[t].entry[OS_MMU_L1_ID(p)]
      BY <1>4, <2>1, <2>2
    <3>. QED BY <1>1, <1>2, <1>6, <2>2, <3>1, SameBelow
  <2>3. CASE OS_MMU_L1_ID(p) = i
    <3>1. E1(G, t, p) = e
      BY <1>4, <2>3 DEF E1
    <3>2. CASE e = 0
      BY <2>3, <3>1, <3>2, TranslateIs
    <3>3. CASE e # 0
      <4>1. e \in Int /\ e > 0
        BY <3>3
      <4>. QED BY <2>3, <3>1, <4>1, TranslateIs
    <3>. QED BY <3>2, <3>3
  <2>. QED BY <2>2, <2>3
<1>13. ASSUME NEW u \in AnyFrame, NEW p \in AddressSpace, F[u].kind = "l1", u # t
       PROVE  Translate(G, u, p) = Translate(F, u, p)
  <2>1. G[u].entry[OS_MMU_L1_ID(p)] = F[u].entry[OS_MMU_L1_ID(p)]
    BY <1>4, <1>13
  <2>. QED BY <1>1, <1>6, <1>13, <2>1, SameBelow
<1>14. BlockPut(F, G, V, X, t, i, e)
  BY <1>5, <1>11, <1>12, <1>13 DEF BlockPut
<1>. QED BY <1>3, <1>14 DEF Put

\* Page table t maps n pages from va on to the pages from pa on, all else is as it was.
Mapped(F, G, V, X, t, va, n, pa) ==
  /\ TablesSound(G, V, X) /\ \A u \in AnyFrame : G[u].kind = F[u].kind
  /\ \A p \in AddressSpace :
       Translate(G, t, p) = IF p \in Range4(va, n) THEN pa + p - va ELSE Translate(F, t, p)
  /\ \A u \in AnyFrame, p \in AddressSpace :
       F[u].kind = "l1" /\ u # t => Translate(G, u, p) = Translate(F, u, p)

\* A round over a block of the first level.
LEMMA BlockRound ==
  ASSUME NEW F, NEW V, NEW X, TablesSound(F, V, X),
         NEW t \in {kernel_l1_pagetable, kernel_l1_jump_pagetable}, NEW i \in 1..7,
         t = kernel_l1_pagetable => i >= 4, NEW va \in Nat, va = 4 * i,
         NEW pa \in Nat, pa % 4 = 0, NEW size \in Nat, size >= 4, NEW va_end
  PROVE  /\ L1Round(Loop(F, va, pa, size, "ok"), t, i, va_end) = Loop(Put(F, t, i, Leaf(pa)), va + 4, pa + 4, size - 4, "ok")
         /\ Mapped(F, Put(F, t, i, Leaf(pa)), V, X, t, va, 4, pa)
<1>1. PICK e \in Nat : va >= 4 /\ e = Leaf(pa) /\ e # 0 /\ e - 1 = pa
  BY DEF Leaf
<1>2. PICK G : G = Put(F, t, i, e) /\ BlockPut(F, G, V, X, t, i, e)
  <2>1. i \in 0..7
    OBVIOUS
  <2>. QED BY <2>1, BlockEntry
<1>3. PICK w : w = Loop(F, va, pa, size, "ok")
  OBVIOUS
<1>4. w.va = va /\ w.size = size /\ w.err = "ok" /\ w.pa = pa
  BY <1>3, LoopIs
<1>5. Big(w, OS_MMU_L1_SIZE)
  BY <1>1, <1>4 DEF Big, OS_MMU_L1_SIZE
<1>6. PICK v : v = [w EXCEPT !.F[t].entry[i] = e]
  OBVIOUS
<1>7. L1Round(w, t, i, va_end) = Advance(v, 4)
  <2>1. L1Round(w, t, i, va_end) = Advance([w EXCEPT !.F[t].entry[i] = Leaf(w.pa)], OS_MMU_L1_SIZE)
    BY <1>4, <1>5, Zenon DEF L1Round
  <2>2. OS_MMU_L1_SIZE = 4 /\ Leaf(w.pa) = e
    BY <1>1, <1>4 DEF OS_MMU_L1_SIZE
  <2>. QED BY <1>6, <2>1, <2>2, Zenon
<1>8. v = Loop(G, va, pa, size, "ok")
  <2>1. v = [w EXCEPT !.F = G]
    BY <1>2, <1>3, <1>6 DEF Loop, Put
  <2>. QED BY <1>3, <2>1 DEF Loop
<1>9. Advance(v, 4) = Loop(G, va + 4, pa + 4, size - 4, "ok")
  <2>1. Advance(v, 4) = [v EXCEPT !.va = @ + 4, !.pa = @ + 4, !.size = @ - 4]
    BY Zenon DEF Advance
  <2>. QED BY <1>8, <2>1 DEF Loop
<1>10. ASSUME NEW p \in AddressSpace
      PROVE  Translate(G, t, p) = IF p \in Range4(va, 4) THEN pa + p - va ELSE Translate(F, t, p)
  <2>1. p \in 0..31 /\ p % 32 = p
    BY DEF AddressSpace
  <2>2. PICK j \in 0..7, r \in 0..3 : j = p \div 4 /\ r = p % 4 /\ p = 4 * j + r
    BY <2>1
  <2>3. j = OS_MMU_L1_ID(p)
    BY <2>1, <2>2 DEF OS_MMU_L1_ID, OS_MMU_L1_SIZE
  <2>4. p \in Range4(va, 4) <=> j = i
    <3>1. Range4(va, 4) = va..(va + 3)
      BY DEF Range4
    <3>. QED BY <1>1, <2>2, <3>1
  <2>5. j = i => (e - 1) + r = pa + p - va
    BY <1>1, <2>2
  <2>6. Translate(G, t, p) = IF j # i THEN Translate(F, t, p) ELSE IF e = 0 THEN -1 ELSE (e - 1) + r
    BY <1>2, <2>2, <2>3 DEF BlockPut
  <2>. QED BY <1>1, <2>4, <2>5, <2>6
<1>11. Mapped(F, G, V, X, t, va, 4, pa)
  BY <1>2, <1>10 DEF Mapped, BlockPut
<1>. QED BY <1>1, <1>2, <1>3, <1>7, <1>9, <1>11

\* One mapping after the other, behind it.
LEMMA MappedBehind ==
  ASSUME NEW F, NEW G, NEW H, NEW V, NEW X, NEW t \in AnyFrame, F[t].kind = "l1",
         NEW va \in Nat, NEW n \in Nat, NEW m \in Nat, NEW pa \in Nat,
         Mapped(F, G, V, X, t, va, n, pa), Mapped(G, H, V, X, t, va + n, m, pa + n)
  PROVE  Mapped(F, H, V, X, t, va, n + m, pa)
<1>1. TablesSound(H, V, X) /\ \A u \in AnyFrame : H[u].kind = F[u].kind
  BY DEF Mapped
<1>2. ASSUME NEW p \in AddressSpace
      PROVE  Translate(H, t, p) = IF p \in Range4(va, n + m) THEN pa + p - va ELSE Translate(F, t, p)
  <2>1. /\ Translate(H, t, p) = IF p \in Range4(va + n, m) THEN (pa + n) + p - (va + n) ELSE Translate(G, t, p)
        /\ Translate(G, t, p) = IF p \in Range4(va, n) THEN pa + p - va ELSE Translate(F, t, p)
    BY DEF Mapped
  <2>2. p \in Nat /\ (p \in Range4(va, n + m) <=> (p \in Range4(va, n) \/ p \in Range4(va + n, m)))
    BY DEF Range4, AddressSpace
  <2>3. (pa + n) + p - (va + n) = pa + p - va
    BY <2>2
  <2>. QED BY <2>1, <2>2, <2>3
<1>3. ASSUME NEW u \in AnyFrame, NEW p \in AddressSpace, F[u].kind = "l1", u # t
      PROVE  Translate(H, u, p) = Translate(F, u, p)
  <2>1. Translate(G, u, p) = Translate(F, u, p) /\ G[u].kind = "l1"
    BY <1>3 DEF Mapped
  <2>2. Translate(H, u, p) = Translate(G, u, p)
    BY <1>3, <2>1 DEF Mapped
  <2>. QED BY <2>1, <2>2
<1>. QED BY <1>1, <1>2, <1>3 DEF Mapped

\* The memory is mapped in two blocks.
LEMMA MemoryMapped ==
  ASSUME NEW F, NEW V, NEW X, TablesSound(F, V, X),
         NEW t \in {kernel_l1_pagetable, kernel_l1_jump_pagetable}, NEW i \in {2, 4},
         t = kernel_l1_pagetable => i >= 4
  PROVE  Mapped(F, create_mapping(F, t, 4 * i, 8, 8).F, V, X, t, 4 * i, 8, 8)
<1>1. PICK va \in {8, 16}, va_end \in {15, 23} : va = 4 * i /\ va_end = va + 8 - 1
  OBVIOUS
<1>2. /\ OS_MMU_L1_ID(va) = i /\ OS_MMU_L1_ID(va_end) = i + 1 /\ OS_MMU_GET_EFFECTIVE_VA(va) = va
      /\ i \in Int /\ i \in 1..7 /\ i + 1 \in 1..7 /\ (i + 1) - 1 = i
  BY <1>1 DEF OS_MMU_L1_ID, OS_MMU_L1_SIZE, OS_MMU_GET_EFFECTIVE_VA
<1>3. create_mapping(F, t, va, 8, 8) = L1Round(L1Round(Loop(F, va, 8, 8, "ok"), t, i, va_end), t, i + 1, va_end)
  <2>1. Loop(F, va, 8, 8, "ok") = [F |-> F, va |-> OS_MMU_GET_EFFECTIVE_VA(va), pa |-> 8, size |-> 8, err |-> "ok"]
    BY <1>2 DEF Loop
  <2>2. 1 \in {0, 1}
    OBVIOUS
  <2>. QED BY <1>1, <1>2, <2>1, <2>2, RoundsL1
<1>4. PICK K : /\ L1Round(Loop(F, va, 8, 8, "ok"), t, i, va_end) = Loop(K, va + 4, 12, 4, "ok")
               /\ Mapped(F, K, V, X, t, va, 4, 8)
  <2>1. 8 % 4 = 0 /\ 8 + 4 = 12 /\ 8 - 4 = 4 /\ 8 \in Nat /\ 8 >= 4 /\ va \in Nat
    BY <1>1
  <2>. QED BY <1>1, <1>2, <2>1, BlockRound
<1>5. PICK H : /\ L1Round(Loop(K, va + 4, 12, 4, "ok"), t, i + 1, va_end) = Loop(H, va + 8, 16, 0, "ok")
               /\ Mapped(K, H, V, X, t, va + 4, 4, 12)
  <2>1. 12 % 4 = 0 /\ 12 + 4 = 16 /\ 4 - 4 = 0 /\ 12 \in Nat /\ 4 \in Nat /\ 4 >= 4
    OBVIOUS
  <2>2. PICK z \in Nat, j \in 1..7 : j = i + 1 /\ z = 4 * j /\ z = va + 4 /\ z + 4 = va + 8
    BY <1>1, <1>2
  <2>3. (t = kernel_l1_pagetable => j >= 4) /\ TablesSound(K, V, X)
    BY <1>4, <2>2 DEF Mapped
  <2>. QED BY <2>1, <2>2, <2>3, BlockRound
<1>6. create_mapping(F, t, va, 8, 8).F = H
  BY <1>3, <1>4, <1>5, LoopIs
<1>7. t \in AnyFrame /\ F[t].kind = "l1"
  BY DEF TablesSound, FramesTyped, AnyFrame
<1>8. Mapped(F, H, V, X, t, va, 8, 8)
  <2>1. 4 + 4 = 8 /\ 8 + 4 = 12 /\ va \in Nat /\ 4 \in Nat /\ 8 \in Nat
    BY <1>1
  <2>2. Mapped(K, H, V, X, t, va + 4, 4, 8 + 4)
    BY <1>5, <2>1
  <2>3. Mapped(F, H, V, X, t, va, 4 + 4, 8)
    BY <1>4, <1>7, <2>1, <2>2, MappedBehind
  <2>. QED BY <2>1, <2>3
<1>. QED BY <1>1, <1>6, <1>8

\* A block of IO memory, at its real address.
LEMMA IoMapped ==
  ASSUME NEW F, NEW V, NEW X, TablesSound(F, V, X)
  PROVE  Mapped(F, create_mapping(F, kernel_l1_pagetable, 56, 0, 4).F, V, X, kernel_l1_pagetable, 24, 4, 0)
<1>1. /\ OS_MMU_L1_ID(56) = 6 /\ OS_MMU_L1_ID(59) = 6 + 0 /\ OS_MMU_GET_EFFECTIVE_VA(56) = 24 /\ 59 = 56 + 4 - 1
      /\ 6 \in Int /\ 0 \in {0, 1} /\ 6 \in 1..7
  BY DEF OS_MMU_L1_ID, OS_MMU_L1_SIZE, OS_MMU_GET_EFFECTIVE_VA
<1>2. create_mapping(F, kernel_l1_pagetable, 56, 0, 4) = L1Round(Loop(F, 24, 0, 4, "ok"), kernel_l1_pagetable, 6, 59)
  <2>1. Loop(F, 24, 0, 4, "ok") = [F |-> F, va |-> OS_MMU_GET_EFFECTIVE_VA(56), pa |-> 0, size |-> 4, err |-> "ok"]
    BY <1>1 DEF Loop
  <2>. QED BY <1>1, <2>1, RoundsL1
<1>3. PICK G : /\ L1Round(Loop(F, 24, 0, 4, "ok"), kernel_l1_pagetable, 6, 59) = Loop(G, 28, 4, 0, "ok")
               /\ Mapped(F, G, V, X, kernel_l1_pagetable, 24, 4, 0)
  <2>1. /\ 0 % 4 = 0 /\ 0 + 4 = 4 /\ 4 - 4 = 0 /\ 0 \in Nat /\ 4 \in Nat /\ 4 >= 4 /\ 4 * 6 = 24 /\ 24 + 4 = 28 /\ 6 >= 4
        /\ kernel_l1_pagetable \in {kernel_l1_pagetable, kernel_l1_jump_pagetable}
    OBVIOUS
  <2>. QED BY <1>1, <2>1, BlockRound
<1>4. create_mapping(F, kernel_l1_pagetable, 56, 0, 4).F = G
  BY <1>2, <1>3, LoopIs
<1>. QED BY <1>3, <1>4

-----------------------------------------------------------------------------
\* The kernel's own page tables come and go without any frame of the heap.
LEMMA StaticRoots ==
  ASSUME NEW F, NEW V, NEW X, TablesSound(F, V, X), NEW W, W \in [AnyVtable -> {0} \cup AnyFrame],
         W["kernel"] \in {0, kernel_l1_pagetable}, W["jump"] \in {0, kernel_l1_jump_pagetable},
         \A v \in UserVtable : W[v] = V[v]
  PROVE  TablesSound(F, W, X)
<1>1. Rooted(F, V) /\ Owned(F, V, X)
  BY DEF TablesSound
<1>2. Rooted(F, W)
  BY <1>1 DEF Rooted
<1>3. Owned(F, W, X)
  BY <1>1 DEF Owned
<1>. QED BY <1>2, <1>3 DEF TablesSound

\* The page tables the boot starts with.
LEMMA PreinitKept ==
  ASSUME MmuSound, os_mmu_preinit
  PROVE  MmuSound'
<1>1. PICK A, B, C, N :
        /\ A = create_mapping(frames, kernel_l1_pagetable, 16, 8, 8).F
        /\ B = create_mapping(A, kernel_l1_jump_pagetable, 8, 8, 8).F
        /\ C = create_mapping(B, kernel_l1_jump_pagetable, 16, 8, 8).F
        /\ N = With(intended["kernel"], 16, 8, 8)
  OBVIOUS
<1>2. MemoryBlocks = 8 /\ MEMORY_BASE = 8 /\ KERNEL_START = 16
  BY DEF MemoryBlocks, MEMORY_BASE, MEMORY_SIZE, KERNEL_START, OS_MMU_L1_SIZE
<1>3. /\ vtable["kernel"] = 0 /\ frames' = C
      /\ vtable' = [vtable EXCEPT !["kernel"] = kernel_l1_pagetable, !["jump"] = kernel_l1_jump_pagetable]
      /\ intended' = [intended EXCEPT !["kernel"] = N, !["jump"] = With(N, 8, 8, 8)]
      /\ os_mmu_preinitialized' = os_mmu_preinitialized
      /\ leaked' = leaked /\ strayed' = strayed
  BY <1>1, <1>2, Zenon DEF os_mmu_preinit
<1>4. PICK F, V, M : /\ F = frames /\ V = vtable /\ M = intended
                     /\ TablesSound(F, V, leaked) /\ Exact(F, V, M) /\ V = [v \in AnyVtable |-> 0]
                     /\ F = [f \in AnyFrame |-> IF f \in HeapFrame THEN Plain("free") ELSE EmptyTable("l1")]
                     /\ ~os_mmu_preinitialized
  BY <1>3 DEF MmuSound, Stages
<1>5. /\ DOMAIN M = AnyVtable /\ \A v \in AnyVtable : DOMAIN M[v] = {} /\ V[v] = 0
      /\ "kernel" \in AnyVtable /\ "jump" \in AnyVtable /\ "kernel" \notin UserVtable /\ "jump" \notin UserVtable
      /\ UserVtable \subseteq AnyVtable
  BY <1>4, MmuAssumption DEF Exact, AnyVtable
<1>6. PICK k, j : k = kernel_l1_pagetable /\ j = kernel_l1_jump_pagetable
  OBVIOUS
<1>7. k \in AnyFrame /\ j \in AnyFrame /\ k # j /\ F[k].kind = "l1" /\ F[j].kind = "l1" /\ k # 0 /\ j # 0
  BY <1>4, <1>6 DEF TablesSound, FramesTyped, AnyFrame, kernel_l1_pagetable, kernel_l1_jump_pagetable
<1>8. \A t \in {k, j}, p \in AddressSpace : Translate(F, t, p) = -1
  <2>. SUFFICES ASSUME NEW t \in {k, j}, NEW p \in AddressSpace PROVE Translate(F, t, p) = -1
    OBVIOUS
  <2>1. t \notin HeapFrame /\ t \in AnyFrame
    BY <1>6, <1>7, FramesAre DEF kernel_l1_pagetable, kernel_l1_jump_pagetable
  <2>2. F[t] = EmptyTable("l1")
    BY <1>4, <2>1
  <2>3. E1(F, t, p) = 0
    BY <2>2, Parts DEF E1, EmptyTable, Entries
  <2>. QED BY <2>3, TranslateIs
<1>9. /\ Mapped(F, A, V, leaked, k, 16, 8, 8) /\ TablesSound(A, V, leaked)
      /\ Mapped(A, B, V, leaked, j, 8, 8, 8) /\ TablesSound(B, V, leaked)
      /\ Mapped(B, C, V, leaked, j, 16, 8, 8) /\ TablesSound(C, V, leaked)
  <2>1. /\ 4 * 4 = 16 /\ 4 * 2 = 8 /\ 4 \in {2, 4} /\ 2 \in {2, 4} /\ 4 >= 4 /\ j # kernel_l1_pagetable
        /\ k \in {kernel_l1_pagetable, kernel_l1_jump_pagetable} /\ j \in {kernel_l1_pagetable, kernel_l1_jump_pagetable}
    BY <1>6, <1>7
  <2>2. Mapped(F, A, V, leaked, k, 16, 8, 8)
    BY <1>1, <1>4, <1>6, <2>1, MemoryMapped
  <2>3. TablesSound(A, V, leaked)
    BY <2>2 DEF Mapped
  <2>4. Mapped(A, B, V, leaked, j, 8, 8, 8)
    BY <1>1, <1>6, <2>1, <2>3, MemoryMapped
  <2>5. TablesSound(B, V, leaked)
    BY <2>4 DEF Mapped
  <2>6. Mapped(B, C, V, leaked, j, 16, 8, 8)
    BY <1>1, <1>6, <2>1, <2>5, MemoryMapped
  <2>7. TablesSound(C, V, leaked)
    BY <2>6 DEF Mapped
  <2>. QED BY <2>2, <2>3, <2>4, <2>5, <2>6, <2>7
<1>10. ASSUME NEW p \in AddressSpace
       PROVE  /\ Translate(C, k, p) = IF p \in Range4(16, 8) THEN 8 + p - 16 ELSE -1
              /\ Translate(C, j, p) = IF p \in Range4(16, 8) THEN 8 + p - 16
                                      ELSE IF p \in Range4(8, 8) THEN 8 + p - 8 ELSE -1
  <2>1. A[k].kind = "l1" /\ A[j].kind = "l1" /\ B[k].kind = "l1" /\ B[j].kind = "l1"
    BY <1>7, <1>9 DEF Mapped
  <2>2. Translate(A, k, p) = (IF p \in Range4(16, 8) THEN 8 + p - 16 ELSE -1) /\ Translate(A, j, p) = -1
    BY <1>7, <1>8, <1>9 DEF Mapped
  <2>3. /\ Translate(B, j, p) = (IF p \in Range4(8, 8) THEN 8 + p - 8 ELSE -1)
        /\ Translate(B, k, p) = Translate(A, k, p)
    BY <1>7, <1>9, <2>1, <2>2 DEF Mapped
  <2>4. /\ Translate(C, j, p) = (IF p \in Range4(16, 8) THEN 8 + p - 16 ELSE Translate(B, j, p))
        /\ Translate(C, k, p) = Translate(B, k, p)
    BY <1>7, <1>9, <2>1 DEF Mapped
  <2>. QED BY <2>2, <2>3, <2>4
<1>11. PICK W : /\ W = vtable' /\ W \in [AnyVtable -> {0} \cup AnyFrame] /\ W["kernel"] = k /\ W["jump"] = j
                /\ \A v \in UserVtable : W[v] = V[v]
  <2>1. /\ vtable' = [V EXCEPT !["kernel"] = k, !["jump"] = j] /\ V \in [AnyVtable -> {0} \cup AnyFrame]
    BY <1>3, <1>4, <1>6 DEF TablesSound, Rooted
  <2>. QED BY <1>5, <1>7, <2>1
<1>12. TablesSound(C, W, leaked)
  BY <1>6, <1>9, <1>11, StaticRoots
<1>13. /\ DOMAIN N = Range4(16, 8) /\ \A p \in DOMAIN N : N[p] = 8 + p - 16
  BY <1>1, <1>4, <1>5 DEF With
<1>14. PICK J : /\ J = With(N, 8, 8, 8) /\ DOMAIN J = Range4(16, 8) \cup Range4(8, 8)
                /\ \A p \in DOMAIN J : J[p] = IF p \in Range4(16, 8) THEN 8 + p - 16 ELSE 8 + p - 8
  <2>1. /\ DOMAIN With(N, 8, 8, 8) = DOMAIN N \cup Range4(8, 8)
        /\ \A p \in DOMAIN N \cup Range4(8, 8) : With(N, 8, 8, 8)[p] = IF p \in Range4(8, 8) THEN 8 + p - 8 ELSE N[p]
    BY DEF With
  <2>2. \A p : ~(p \in Range4(16, 8) /\ p \in Range4(8, 8))
    BY DEF Range4
  <2>. QED BY <1>13, <2>1, <2>2
<1>15. PICK I : /\ I = intended' /\ DOMAIN I = AnyVtable /\ I["kernel"] = N /\ I["jump"] = J
                /\ \A v \in UserVtable : I[v] = M[v]
  <2>1. intended' = [M EXCEPT !["kernel"] = N, !["jump"] = J]
    BY <1>3, <1>4, <1>14
  <2>. HIDE <1>3, <1>14
  <2>. QED BY <1>5, <2>1
<1>16. Exact(C, W, I)
  <2>1. Range4(16, 8) \subseteq AddressSpace /\ Range4(8, 8) \subseteq AddressSpace
    BY DEF Range4, AddressSpace
  <2>2. ASSUME NEW u \in AnyVtable
        PROVE  /\ W[u] = 0 => DOMAIN I[u] = {}
               /\ DOMAIN I[u] \subseteq AddressSpace
               /\ W[u] # 0 => \A p \in AddressSpace : Translate(C, W[u], p) = IF p \in DOMAIN I[u] THEN I[u][p] ELSE -1
    <3>1. CASE u = "kernel"
      BY <1>7, <1>10, <1>11, <1>13, <1>15, <2>1, <3>1
    <3>2. CASE u = "jump"
      BY <1>7, <1>10, <1>11, <1>14, <1>15, <2>1, <3>2
    <3>3. CASE u \in UserVtable
      BY <1>5, <1>11, <1>15, <3>3
    <3>. QED BY <3>1, <3>2, <3>3 DEF AnyVtable
  <2>. QED BY <1>15, <2>2 DEF Exact
<1>17. Stages'
  BY <1>3, <1>4, <1>7, <1>11 DEF Stages
<1>. QED BY <1>3, <1>11, <1>12, <1>15, <1>16, <1>17 DEF MmuSound

-----------------------------------------------------------------------------
\* A first level whose tables can be read.
FirstLevel(F, l1) ==
  FramesTyped(F) /\ BlocksAbove(F) /\ SlotsTyped(F) /\ l1 \in AnyFrame /\ F[l1].kind = "l1"

\* The parts of any page number, real addresses included.
LEMMA AllParts ==
  ASSUME NEW va \in Nat
  PROVE  \E c \in Nat, i \in 0..7, j \in 0..1, k \in 0..1 :
           /\ va = 32 * c + 4 * i + 2 * j + k /\ va % 32 = 4 * i + 2 * j + k
           /\ OS_MMU_L1_ID(va) = i /\ OS_MMU_L2_ID(va) = j /\ OS_MMU_L3_ID(va) = k
           /\ va \div 4 = 8 * c + i /\ va % 4 = 2 * j + k
           /\ va \div 2 = 16 * c + 2 * i + j /\ va % 2 = k
<1>1. PICK c \in Nat, p \in 0..31 : va = 32 * c + p /\ va % 32 = p
  BY DivMod
<1>2. PICK i \in 0..7, r \in 0..3 : p = 4 * i + r /\ p \div 4 = i
  OBVIOUS
<1>3. PICK j \in 0..1, k \in 0..1 : r = 2 * j + k
  OBVIOUS
<1>4. va = 4 * (8 * c + i) + r
  BY <1>1, <1>2
<1>5. va \div 4 = 8 * c + i /\ va % 4 = r
  BY <1>4
<1>6. va = 2 * (16 * c + 2 * i + j) + k
  BY <1>3, <1>4
<1>7. va \div 2 = 16 * c + 2 * i + j /\ va % 2 = k
  BY <1>6
<1>8. (16 * c + 2 * i + j) % 2 = j
  OBVIOUS
<1>9. OS_MMU_L1_ID(va) = i
  BY <1>1, <1>2 DEF OS_MMU_L1_ID, OS_MMU_L1_SIZE
<1>10. OS_MMU_L2_ID(va) = j
  BY <1>7, <1>8 DEF OS_MMU_L2_ID, OS_MMU_L2_SIZE
<1>11. OS_MMU_L3_ID(va) = k
  BY <1>7 DEF OS_MMU_L3_ID
<1>. QED BY <1>1, <1>2, <1>3, <1>5, <1>7, <1>9, <1>10, <1>11

\* Where the walk over the tables ends.
LEMMA WalkEnds ==
  ASSUME NEW F, NEW l1, NEW p
  PROVE  Walk(F, l1, p) = IF E1(F, l1, p) >= 0 THEN <<E1(F, l1, p), 4>>
                          ELSE IF E2(F, l1, p) >= 0 THEN <<E2(F, l1, p), 2>> ELSE <<E3(F, l1, p), 1>>
  BY DEF Walk, E1, E2, E3, OS_MMU_L1_SIZE, OS_MMU_L2_SIZE, OS_MMU_L3_SIZE

\* Real and effective addresses have the same parts.
LEMMA EffectiveParts ==
  ASSUME NEW va \in Nat
  PROVE  /\ va % 32 \in AddressSpace
         /\ OS_MMU_L1_ID(va % 32) = OS_MMU_L1_ID(va) /\ OS_MMU_L2_ID(va % 32) = OS_MMU_L2_ID(va)
         /\ OS_MMU_L3_ID(va % 32) = OS_MMU_L3_ID(va)
<1>1. PICK p \in 0..31 : p = va % 32
  BY DivMod
<1>2. PICK c \in Nat, i \in 0..7, j \in 0..1, k \in 0..1 :
        /\ va % 32 = 4 * i + 2 * j + k
        /\ OS_MMU_L1_ID(va) = i /\ OS_MMU_L2_ID(va) = j /\ OS_MMU_L3_ID(va) = k
  BY AllParts
<1>3. PICK d \in Nat, x \in 0..7, y \in 0..1, z \in 0..1 :
        /\ p = 32 * d + 4 * x + 2 * y + z
        /\ OS_MMU_L1_ID(p) = x /\ OS_MMU_L2_ID(p) = y /\ OS_MMU_L3_ID(p) = z
  BY AllParts
<1>4. i = x /\ j = y /\ k = z
  BY <1>1, <1>2, <1>3
<1>. QED BY <1>1, <1>2, <1>3, <1>4 DEF AddressSpace

\* What it ends with depends on the block an address is in only.
LEMMA WalkIs ==
  ASSUME NEW F, NEW l1, FirstLevel(F, l1), NEW va \in Nat
  PROVE  /\ Walk(F, l1, va)[2] \in {1, 2, 4} /\ Walk(F, l1, va)[1] \in Nat
         /\ (Walk(F, l1, va)[1] = 0 <=> Translate(F, l1, va % 32) = -1)
         /\ \A q \in Nat : q \div Walk(F, l1, va)[2] = va \div Walk(F, l1, va)[2] =>
              Walk(F, l1, q) = Walk(F, l1, va)
<1>1. FramesTyped(F) /\ BlocksAbove(F) /\ SlotsTyped(F) /\ l1 \in AnyFrame /\ F[l1].kind = "l1"
  BY DEF FirstLevel
<1>2. PICK p \in AddressSpace : p = va % 32
  BY EffectiveParts, SMTT(30)
<1>3. E1(F, l1, va) = E1(F, l1, p) /\ E2(F, l1, va) = E2(F, l1, p) /\ E3(F, l1, va) = E3(F, l1, p)
  BY <1>2, EffectiveParts DEF E1, E2, E3
<1>4. PICK a, b, c : a = E1(F, l1, va) /\ b = E2(F, l1, va) /\ c = E3(F, l1, va)
  OBVIOUS
<1>5. a \in Int /\ (a < 0 => b \in Int /\ b <= 0) /\ (a < 0 /\ b < 0 => c \in Nat)
  BY <1>1, <1>2, <1>3, <1>4, Path
<1>6. Walk(F, l1, va) = IF a >= 0 THEN <<a, 4>> ELSE IF b >= 0 THEN <<b, 2>> ELSE <<c, 1>>
  BY <1>4, WalkEnds
<1>7. /\ Walk(F, l1, va) \in {<<a, 4>>, <<b, 2>>, <<c, 1>>}
      /\ (Walk(F, l1, va) = <<a, 4>> /\ a >= 0) \/ (Walk(F, l1, va) = <<b, 2>> /\ a < 0 /\ b = 0)
           \/ (Walk(F, l1, va) = <<c, 1>> /\ a < 0 /\ b < 0)
  BY <1>5, <1>6
<1>8. Walk(F, l1, va)[2] \in {1, 2, 4} /\ Walk(F, l1, va)[1] \in Nat
  BY <1>5, <1>7
<1>9. Walk(F, l1, va)[1] = 0 <=> Translate(F, l1, p) = -1
  <2>1. /\ a = 0 => Translate(F, l1, p) = -1
        /\ a > 0 => Translate(F, l1, p) = (a - 1) + (p % 4)
        /\ a < 0 /\ b = 0 => Translate(F, l1, p) = -1
        /\ a < 0 /\ b < 0 /\ c = 0 => Translate(F, l1, p) = -1
        /\ a < 0 /\ b < 0 /\ c > 0 => Translate(F, l1, p) = c - 1
    BY <1>3, <1>4, <1>5, TranslateIs
  <2>2. p % 4 \in 0..3
    BY DEF AddressSpace
  <2>3. CASE a >= 0
    <3>1. Walk(F, l1, va)[1] = a
      BY <1>6, <2>3
    <3>. QED BY <1>5, <2>1, <2>2, <2>3, <3>1
  <2>4. CASE a < 0 /\ b = 0
    <3>1. Walk(F, l1, va)[1] = 0
      BY <1>5, <1>6, <2>4
    <3>. QED BY <2>1, <2>4, <3>1
  <2>5. CASE a < 0 /\ b < 0
    <3>1. Walk(F, l1, va)[1] = c
      BY <1>5, <1>6, <2>5
    <3>. QED BY <1>5, <2>1, <2>5, <3>1
  <2>. QED BY <1>5, <2>3, <2>4, <2>5
<1>10. ASSUME NEW q \in Nat, q \div Walk(F, l1, va)[2] = va \div Walk(F, l1, va)[2]
       PROVE  Walk(F, l1, q) = Walk(F, l1, va)
  <2>1. PICK d \in Nat, x \in 0..7, y \in 0..1, z \in 0..1 :
           /\ va = 32 * d + 4 * x + 2 * y + z
           /\ OS_MMU_L1_ID(va) = x /\ OS_MMU_L2_ID(va) = y /\ OS_MMU_L3_ID(va) = z
           /\ va \div 4 = 8 * d + x /\ va \div 2 = 16 * d + 2 * x + y
    BY AllParts
  <2>2. PICK e \in Nat, i \in 0..7, j \in 0..1, k \in 0..1 :
           /\ q = 32 * e + 4 * i + 2 * j + k
           /\ OS_MMU_L1_ID(q) = i /\ OS_MMU_L2_ID(q) = j /\ OS_MMU_L3_ID(q) = k
           /\ q \div 4 = 8 * e + i /\ q \div 2 = 16 * e + 2 * i + j
    BY AllParts
  <2>3. CASE a >= 0
    <3>1. Walk(F, l1, va) = <<a, 4>>
      BY <1>6, <2>3
    <3>2. i = x
      BY <1>10, <2>1, <2>2, <3>1
    <3>3. E1(F, l1, q) = a
      BY <1>4, <2>1, <2>2, <3>2 DEF E1
    <3>. QED BY <2>3, <3>1, <3>3, WalkEnds
  <2>4. CASE a < 0 /\ b = 0
    <3>1. Walk(F, l1, va) = <<b, 2>>
      BY <1>5, <1>6, <2>4
    <3>2. i = x /\ j = y
      BY <1>10, <2>1, <2>2, <3>1
    <3>3. E1(F, l1, q) = a /\ E2(F, l1, q) = b
      BY <1>4, <2>1, <2>2, <3>2 DEF E1, E2
    <3>. QED BY <1>5, <2>4, <3>1, <3>3, WalkEnds
  <2>5. CASE a < 0 /\ b < 0
    <3>1. Walk(F, l1, va) = <<c, 1>>
      BY <1>5, <1>6, <2>5
    <3>2. q = va
      BY <1>10, <3>1
    <3>. QED BY <3>2
  <2>. QED BY <1>5, <2>3, <2>4, <2>5
<1>. QED BY <1>2, <1>8, <1>9, <1>10

\* Where the block of a page ends.
Behind(va, b) == va + b - (va % b)

\* The block of a page, for each size of blocks.
LEMMA BlockOf ==
  ASSUME NEW va \in Nat, NEW b \in {1, 2, 4}
  PROVE  /\ va % b \in Nat /\ va % b < b /\ Behind(va, b) = va + b - (va % b)
         /\ Behind(va, b) \in Nat /\ va < Behind(va, b) /\ Behind(va, b) <= va + b /\ Behind(va, b) % b = 0
         /\ Behind(va, b) - b \in Nat /\ (Behind(va, b) - b) \div b = va \div b
         /\ \A q \in Nat : va <= q /\ q < Behind(va, b) => q \div b = va \div b
         /\ va % b = 0 => Behind(va, b) = va + b
<1>1. PICK n : n = Behind(va, b) /\ n = va + b - (va % b)
  BY DEF Behind
<1>2. CASE b = 1
  <2>1. va % 1 = 0 /\ n = va + 1
    BY <1>1, <1>2
  <2>. QED BY <1>1, <1>2, <2>1
<1>3. CASE b = 2
  <2>1. PICK q \in Nat, r \in 0..1 : va = 2 * q + r /\ r = va % 2 /\ q = va \div 2
    BY DivMod
  <2>2. n = 2 * (q + 1) /\ n - 2 = 2 * q
    BY <1>1, <1>3, <2>1
  <2>3. n % 2 = 0 /\ (n - 2) \div 2 = q
    BY <2>2
  <2>4. \A x \in Nat : va <= x /\ x < n => x \div 2 = q
    BY <2>1, <2>2
  <2>. QED BY <1>1, <1>3, <2>1, <2>2, <2>3, <2>4
<1>4. CASE b = 4
  <2>1. PICK q \in Nat, r \in 0..3 : va = 4 * q + r /\ r = va % 4 /\ q = va \div 4
    BY DivMod
  <2>2. n = 4 * (q + 1) /\ n - 4 = 4 * q
    BY <1>1, <1>4, <2>1
  <2>3. n % 4 = 0 /\ (n - 4) \div 4 = q
    BY <2>2
  <2>4. \A x \in Nat : va <= x /\ x < n => x \div 4 = q
    BY <2>1, <2>2
  <2>. QED BY <1>1, <1>4, <2>1, <2>2, <2>3, <2>4
<1>. QED BY <1>2, <1>3, <1>4

\* A larger block that does not begin at n contains what is before n.
LEMMA LargerBlock ==
  ASSUME NEW n \in Nat, NEW b \in {1, 2, 4}, NEW d \in {1, 2, 4}, n % b = 0, n - b \in Nat, n % d # 0
  PROVE  (n - b) \div d = n \div d /\ d # b
<1>1. CASE d = 4
  <2>1. PICK q \in Nat, r \in 0..3 : n = 4 * q + r /\ r = n % 4 /\ q = n \div 4
    BY DivMod
  <2>2. r >= b /\ b # 4
    BY <1>1, <2>1
  <2>3. n - b = 4 * q + (r - b) /\ r - b \in 0..3
    BY <2>1, <2>2
  <2>. QED BY <1>1, <2>1, <2>2, <2>3
<1>2. CASE d = 2
  <2>1. PICK q \in Nat, r \in 0..1 : n = 2 * q + r /\ r = n % 2 /\ q = n \div 2
    BY DivMod
  <2>2. r = 1 /\ b = 1
    BY <1>2, <2>1
  <2>. QED BY <1>2, <2>1, <2>2
<1>3. CASE d = 1
  BY <1>3
<1>. QED BY <1>1, <1>2, <1>3

\* Behind a block another one begins.
LEMMA BlocksFollow ==
  ASSUME NEW F, NEW l1, FirstLevel(F, l1), NEW va \in Nat, NEW b \in {1, 2, 4}, b = Walk(F, l1, va)[2]
  PROVE  Behind(va, b) % Walk(F, l1, Behind(va, b))[2] = 0 /\ Behind(va, b) % b = 0
<1>1. PICK n \in Nat : n = Behind(va, b)
  BY BlockOf
<1>2. n % b = 0 /\ n - b \in Nat /\ (n - b) \div b = va \div b
  BY <1>1, BlockOf
<1>3. PICK m, d : m \in Nat /\ m = n - b /\ d = Walk(F, l1, n)[2]
  BY <1>2
<1>4. d \in {1, 2, 4}
  BY <1>2, <1>3, WalkIs
<1>5. Walk(F, l1, m) = Walk(F, l1, va)
  BY <1>2, <1>3, WalkIs
<1>6. m \div d = n \div d => d = b
  BY <1>2, <1>3, <1>4, <1>5, WalkIs
<1>7. n % d = 0
  BY <1>2, <1>3, <1>4, <1>6, LargerBlock
<1>. QED BY <1>1, <1>2, <1>3, <1>7

\* The less of two.
LEMMA MinOfTwo ==
  ASSUME NEW a \in Nat, NEW b \in Nat
  PROVE  Min({a, b}) = IF a <= b THEN a ELSE b
<1>1. {a, b} \in SUBSET Nat /\ {a, b} # {}
  OBVIOUS
<1>2. Min({a, b}) \in {a, b} /\ \A y \in {a, b} : Min({a, b}) <= y
  BY <1>1, MinIsLeast
<1>. QED BY <1>2

\* What the search carries.
ScanState == [va : Nat, remained : Nat, va_ret : Nat]

\* Pages that are not in use, in the effective part of the address space.
Unused(F, l1, first, last) == \A q \in first..last : Translate(F, l1, q % 32) = -1

\* What the search knows: the pages it has passed since va_ret are unused, and they are
\* enough, or enough with those it still waits for if it stands where a block begins.
Searched(F, l1, w, size) ==
  /\ w \in ScanState /\ w.va_ret <= w.va /\ Unused(F, l1, w.va_ret, w.va - 1)
  /\ \/ w.va - w.va_ret >= size
     \/ w.remained + (w.va - w.va_ret) >= size /\ w.va % Walk(F, l1, w.va)[2] = 0

\* Every round goes on to a later page, and keeps that.
LEMMA FindRoundIs ==
  ASSUME NEW v, NEW F, NEW l1, SameWalks(F, frames, l1), l1 = vtable[v], FirstLevel(F, l1), NEW size \in Nat \ {0},
         NEW w \in ScanState, NEW next, next = FindRound(v, w, size)
  PROVE  /\ next \in ScanState /\ (next.remained # 0 => next.va > w.va)
         /\ Searched(F, l1, w, size) => Searched(F, l1, next, size)
         /\ Searched(F, l1, w, size) /\ next.remained = 0 => next.va - next.va_ret >= size
<1>1. PICK va \in Nat, rem \in Nat, ret \in Nat : va = w.va /\ rem = w.remained /\ ret = w.va_ret
  BY DEF ScanState
<1>2. PICK e, b : e = Walk(F, l1, va)[1] /\ b = Walk(F, l1, va)[2]
  OBVIOUS
<1>3. b \in {1, 2, 4} /\ e \in Nat /\ (e = 0 <=> Translate(F, l1, va % 32) = -1)
  BY <1>2, WalkIs
<1>4. PICK n, r : n = Behind(va, b) /\ r = va % b
  OBVIOUS
<1>5. /\ n \in Nat /\ va < n /\ n = va + b - r /\ n % b = 0 /\ r \in Nat /\ r < b
      /\ n % Walk(F, l1, n)[2] = 0 /\ (r = 0 => n = va + b)
      /\ \A q \in Nat : va <= q /\ q < n => q \div b = va \div b
  <2>1. b \in {1, 2, 4} /\ b = Walk(F, l1, va)[2]
    BY <1>2, <1>3
  <2>2. Behind(va, b) % Walk(F, l1, Behind(va, b))[2] = 0 /\ Behind(va, b) % b = 0
    BY <2>1, BlocksFollow
  <2>3. /\ va % b \in Nat /\ va % b < b /\ Behind(va, b) = va + b - (va % b)
        /\ Behind(va, b) \in Nat /\ va < Behind(va, b)
        /\ \A q \in Nat : va <= q /\ q < Behind(va, b) => q \div b = va \div b
        /\ va % b = 0 => Behind(va, b) = va + b
    <3>1. va % b \in Nat /\ va % b < b
      BY <1>3, BlockOf, ZenonT(30)
    <3>2. Behind(va, b) = va + b - (va % b)
      BY <1>3, BlockOf
    <3>3. Behind(va, b) \in Nat /\ va < Behind(va, b)
      BY <1>3, BlockOf
    <3>4. \A q \in Nat : va <= q /\ q < Behind(va, b) => q \div b = va \div b
      BY <1>3, BlockOf
    <3>5. va % b = 0 => Behind(va, b) = va + b
      BY <1>3, BlockOf
    <3>. QED BY <3>1, <3>2, <3>3, <3>4, <3>5
  <2>. QED BY <1>4, <2>2, <2>3
<1>6. next = IF e = 0 THEN FindPass(w, b) ELSE FindRestart(w, b, size)
  <2>1. Walk(frames, vtable[v], w.va) = Walk(F, l1, va)
    BY <1>1 DEF SameWalks
  <2>. QED BY <1>1, <1>2, <2>1 DEF FindRound, __is_null_entry
<1>7. CASE e # 0
  <2>1. next = [va |-> n, remained |-> size, va_ret |-> n]
    BY <1>1, <1>4, <1>5, <1>6, <1>7 DEF FindRestart
  <2>2. next \in ScanState /\ next.va = n /\ next.remained = size /\ next.va_ret = n
    BY <1>5, <2>1 DEF ScanState
  <2>3. Unused(F, l1, n, n - 1)
    BY <1>5 DEF Unused
  <2>. QED BY <1>1, <1>5, <2>2, <2>3 DEF Searched
<1>8. CASE e = 0
  <2>1. PICK s \in Nat : s = Min({rem, b - (va % b)}) /\ s = IF rem <= b - r THEN rem ELSE b - r
    <3>1. b - (va % b) \in Nat /\ b - (va % b) = b - r
      BY <1>3, <1>4, <1>5
    <3>. QED BY <3>1, MinOfTwo
  <2>2. PICK y \in Nat, z \in Nat : y = va + s /\ z = y % b /\ z < b
    <3>1. PICK y \in Nat : y = va + s
      OBVIOUS
    <3>2. y % b \in Nat /\ y % b < b
      BY <1>3, BlockOf
    <3>. QED BY <3>1, <3>2
  <2>3. PICK x \in Nat : x = Min({rem, b - (y % b)}) /\ x = IF rem <= b - z THEN rem ELSE b - z
    <3>1. b - (y % b) \in Nat /\ b - (y % b) = b - z
      BY <1>3, <2>2
    <3>. QED BY <3>1, MinOfTwo
  <2>4. next = [va |-> y, remained |-> rem - x, va_ret |-> ret]
    <3>1. next = FindPass(w, b)
      BY <1>6, <1>8
    <3>. QED BY <1>1, <2>1, <2>2, <2>3, <3>1 DEF FindPass
  <2>5. rem - x \in Nat /\ (rem - x # 0 => s > 0)
    <3>1. b \in Nat /\ b - r \in Nat /\ b - r > 0 /\ b - z \in Nat
      BY <1>3, <1>5, <2>2
    <3>2. x <= rem
      BY <2>3, <3>1
    <3>3. rem = 0 => x = 0
      BY <3>2
    <3>. QED BY <2>1, <3>1, <3>2, <3>3
  <2>6. next \in ScanState /\ next.va = y /\ next.remained = rem - x /\ next.va_ret = ret
    BY <2>4, <2>5 DEF ScanState
  <2>7. ASSUME Searched(F, l1, w, size)
        PROVE  Searched(F, l1, next, size) /\ (rem - x = 0 => y - ret >= size)
    <3>1. /\ ret <= va /\ Unused(F, l1, ret, va - 1)
          /\ va - ret >= size \/ (rem + (va - ret) >= size /\ r = 0)
      BY <1>1, <1>2, <1>4, <2>7 DEF Searched
    <3>2. y <= n
      BY <1>3, <1>5, <2>1, <2>2
    <3>3. Unused(F, l1, ret, y - 1)
      <4>. SUFFICES ASSUME NEW q \in ret..(y - 1) PROVE Translate(F, l1, q % 32) = -1
        BY DEF Unused
      <4>1. CASE q <= va - 1
        BY <3>1, <4>1 DEF Unused
      <4>2. CASE q >= va
        <5>1. q \in Nat /\ q \div b = va \div b
          BY <1>5, <3>2, <4>2
        <5>2. Walk(F, l1, q) = Walk(F, l1, va)
          BY <1>2, <5>1, WalkIs
        <5>3. Walk(F, l1, q)[1] = 0
          BY <1>2, <1>8, <5>2
        <5>. QED BY <5>1, <5>3, WalkIs
      <4>. QED BY <4>1, <4>2
    <3>4. CASE va - ret >= size
      BY <2>2, <2>6, <3>1, <3>3, <3>4 DEF Searched
    <3>5. CASE rem + (va - ret) >= size /\ r = 0 /\ rem >= b
      <4>1. s = b /\ y = n
        BY <1>3, <1>5, <2>1, <2>2, <3>5
      <4>2. z = 0 /\ x = b
        BY <1>3, <1>5, <2>2, <2>3, <3>5, <4>1
      <4>3. (rem - x) + (y - ret) >= size /\ (rem - x = 0 => y - ret >= size)
        BY <1>3, <2>2, <3>5, <4>1, <4>2
      <4>. QED BY <1>5, <2>2, <2>6, <3>1, <3>3, <4>1, <4>3 DEF Searched
    <3>6. CASE rem + (va - ret) >= size /\ r = 0 /\ rem < b
      <4>1. s = rem
        BY <1>3, <2>1, <3>6
      <4>2. y - ret >= size
        BY <2>2, <3>6, <4>1
      <4>. QED BY <2>2, <2>6, <3>1, <3>3, <4>2 DEF Searched
    <3>. QED BY <1>3, <3>1, <3>4, <3>5, <3>6
  <2>. QED BY <1>1, <2>2, <2>5, <2>6, <2>7
<1>. QED BY <1>7, <1>8

-----------------------------------------------------------------------------
\* What a search that goes from w to next[w] finds, up to page last.
Finds(h, next, last, w) ==
  IF w.va > last THEN 0 ELSE IF next[w].remained = 0 THEN next[w].va_ret ELSE h[next[w]]

\* The search ends: its recursion is well founded.
LEMMA SearchDefined ==
  ASSUME NEW next \in [ScanState -> ScanState], NEW last \in Nat,
         \A w \in ScanState : next[w].remained # 0 => next[w].va > w.va
  PROVE  \E h : h = [w \in ScanState |-> Finds(h, next, last, w)]
<1>. DEFINE S == {k \in Nat : \E h : /\ DOMAIN h = ScanState
                                     /\ \A w \in ScanState : w.va + k > last => h[w] = Finds(h, next, last, w)}
<1>1. 0 \in S
  <2>1. PICK h : h = [w \in ScanState |-> 0]
    OBVIOUS
  <2>2. \A w \in ScanState : w.va + 0 > last => h[w] = Finds(h, next, last, w)
    BY <2>1 DEF Finds, ScanState
  <2>. QED BY <2>1, <2>2
<1>2. ASSUME NEW k \in Nat, k \in S PROVE k + 1 \in S
  <2>1. PICK h : DOMAIN h = ScanState /\ \A w \in ScanState : w.va + k > last => h[w] = Finds(h, next, last, w)
    BY <1>2
  <2>2. PICK g : g = [w \in ScanState |-> Finds(h, next, last, w)]
    OBVIOUS
  <2>3. ASSUME NEW w \in ScanState, w.va + (k + 1) > last PROVE g[w] = Finds(g, next, last, w)
    <3>1. PICK x \in ScanState : x = next[w]
      OBVIOUS
    <3>2. CASE w.va > last \/ x.remained = 0
      BY <2>2, <3>1, <3>2 DEF Finds
    <3>3. CASE ~(w.va > last) /\ x.remained # 0
      <4>1. x.va > w.va /\ x.va \in Nat /\ w.va \in Nat
        BY <3>1, <3>3 DEF ScanState
      <4>2. x.va + k > last
        BY <2>3, <4>1
      <4>3. h[x] = Finds(h, next, last, x) /\ g[x] = Finds(h, next, last, x)
        BY <2>1, <2>2, <4>2
      <4>4. g[w] = h[x]
        BY <2>2, <3>1, <3>3 DEF Finds
      <4>5. Finds(g, next, last, w) = g[x]
        BY <3>1, <3>3 DEF Finds
      <4>. QED BY <4>3, <4>4, <4>5
    <3>. QED BY <3>2, <3>3
  <2>. QED BY <2>2, <2>3
<1>3. last + 1 \in S
  <2>1. \A k \in Nat : k \in S => k + 1 \in S
    BY <1>2
  <2>. HIDE DEF S
  <2>2. \A k \in Nat : k \in S
    BY <1>1, <2>1, SetInduction
  <2>. QED BY <2>2
<1>4. PICK h : /\ DOMAIN h = ScanState
               /\ \A w \in ScanState : w.va + (last + 1) > last => h[w] = Finds(h, next, last, w)
  BY <1>3
<1>5. PICK g : g = [w \in ScanState |-> Finds(h, next, last, w)]
  OBVIOUS
<1>6. \A w \in ScanState : g[w] = Finds(h, next, last, w) /\ h[w] = g[w]
  BY <1>4, <1>5 DEF ScanState
<1>7. \A w \in ScanState : Finds(g, next, last, w) = Finds(h, next, last, w)
  BY <1>6 DEF Finds
<1>8. g = [w \in ScanState |-> Finds(g, next, last, w)]
  BY <1>5, <1>7
<1>. QED BY <1>8

\* A search of the table of v that goes on from start finds this.
Scans(v, size, last, start, found) ==
  \E h, next : /\ next = [w \in ScanState |-> FindRound(v, w, size)]
               /\ h = [w \in ScanState |-> Finds(h, next, last, w)]
               /\ found = h[start]

\* What it finds is free when it starts where a block begins.
LEMMA SearchSound ==
  ASSUME NEW v, NEW F, NEW l1, SameWalks(F, frames, l1), l1 = vtable[v], FirstLevel(F, l1), NEW size \in Nat \ {0},
         NEW last \in Nat, NEW start \in ScanState, NEW found,
         Scans(v, size, last, start, found), Searched(F, l1, start, size)
  PROVE  found = 0 \/ (found \in Nat /\ Unused(F, l1, found, found + size - 1))
<1>1. PICK h, next : /\ next = [w \in ScanState |-> FindRound(v, w, size)]
                     /\ h = [w \in ScanState |-> Finds(h, next, last, w)]
                     /\ found = h[start]
  BY DEF Scans
<1>. DEFINE Good(n) == n = 0 \/ (n \in Nat /\ Unused(F, l1, n, n + size - 1))
            S == {k \in Nat : \A w \in ScanState : w.va + k > last /\ Searched(F, l1, w, size) => Good(h[w])}
<1>2. \A w \in ScanState : h[w] = Finds(h, next, last, w)
  BY <1>1
<1>3. 0 \in S
  BY <1>2 DEF Finds, ScanState
<1>4. ASSUME NEW k \in Nat, k \in S PROVE k + 1 \in S
  <2>. SUFFICES ASSUME NEW w \in ScanState, w.va + (k + 1) > last, Searched(F, l1, w, size) PROVE Good(h[w])
    OBVIOUS
  <2>1. PICK x : x = FindRound(v, w, size) /\ x = next[w]
    BY <1>1
  <2>2. /\ x \in ScanState /\ (x.remained # 0 => x.va > w.va) /\ Searched(F, l1, x, size)
        /\ x.remained = 0 => x.va - x.va_ret >= size
    BY <2>1, FindRoundIs
  <2>3. CASE w.va > last
    BY <1>2, <2>3 DEF Finds
  <2>4. CASE ~(w.va > last) /\ x.remained = 0
    <3>1. h[w] = x.va_ret
      BY <1>2, <2>1, <2>4 DEF Finds
    <3>2. Unused(F, l1, x.va_ret, x.va - 1) /\ x.va \in Nat /\ x.va_ret \in Nat /\ x.va - x.va_ret >= size
      BY <2>2, <2>4 DEF Searched, ScanState
    <3>3. Unused(F, l1, x.va_ret, x.va_ret + size - 1)
      BY <3>2 DEF Unused
    <3>. QED BY <3>1, <3>2, <3>3
  <2>5. CASE ~(w.va > last) /\ x.remained # 0
    <3>1. h[w] = h[x]
      BY <1>2, <2>1, <2>5 DEF Finds
    <3>2. x.va + k > last
      <4>1. x.va \in Nat /\ w.va \in Nat
        BY <2>2 DEF ScanState
      <4>. QED BY <2>2, <2>5, <4>1
    <3>. QED BY <1>4, <2>2, <3>1, <3>2
  <2>. QED BY <2>3, <2>4, <2>5
<1>5. last + 1 \in S
  <2>1. \A k \in Nat : k \in S => k + 1 \in S
    BY <1>4
  <2>. HIDE DEF S
  <2>2. \A k \in Nat : k \in S
    BY <1>3, <2>1, SetInduction
  <2>. QED BY <2>2
<1>6. start.va + (last + 1) > last
  BY DEF ScanState
<1>. QED BY <1>1, <1>5, <1>6

\* os_mmu_find_vaddr is such a search.
LEMMA FindVaddrIs ==
  ASSUME NEW v, NEW F, NEW l1, SameWalks(F, frames, l1), l1 = vtable[v], FirstLevel(F, l1),
         NEW va_start \in Nat, NEW size \in Nat \ {0}
  PROVE  Scans(v, size, va_start + size - 1, [va |-> va_start, remained |-> size, va_ret |-> va_start],
               os_mmu_find_vaddr(v, va_start, size))
<1>. DEFINE B(h, w) == IF w.va > va_start + size - 1 THEN 0
                       ELSE IF FindRound(v, w, size).remained = 0 THEN FindRound(v, w, size).va_ret
                       ELSE h[FindRound(v, w, size)]
            P(h) == h = [w \in [va : Nat, remained : Nat, va_ret : Nat] |-> B(h, w)]
<1>1. os_mmu_find_vaddr(v, va_start, size) = (CHOOSE h : P(h))[[va |-> va_start, remained |-> size, va_ret |-> va_start]]
  BY Zenon DEF os_mmu_find_vaddr
<1>2. PICK next : next = [w \in ScanState |-> FindRound(v, w, size)]
  OBVIOUS
<1>3. \A w \in ScanState : next[w] = FindRound(v, w, size) /\ next[w] \in ScanState /\ (next[w].remained # 0 => next[w].va > w.va)
  BY <1>2, FindRoundIs
<1>4. next \in [ScanState -> ScanState]
  BY <1>2, <1>3
<1>5. PICK last \in Nat : last = va_start + size - 1
  OBVIOUS
<1>6. ASSUME NEW h, NEW w \in ScanState PROVE B(h, w) = Finds(h, next, last, w)
  BY <1>3, <1>5 DEF Finds
<1>. HIDE DEF B
<1>7. ASSUME NEW h PROVE P(h) <=> h = [w \in ScanState |-> Finds(h, next, last, w)]
  <2>1. [w \in ScanState |-> B(h, w)] = [w \in ScanState |-> Finds(h, next, last, w)]
    BY <1>6
  <2>2. ScanState = [va : Nat, remained : Nat, va_ret : Nat]
    BY DEF ScanState
  <2>. QED BY <2>1, <2>2
<1>8. \E h : P(h)
  <2>1. PICK h : h = [w \in ScanState |-> Finds(h, next, last, w)]
    BY <1>3, <1>4, SearchDefined
  <2>. HIDE DEF P
  <2>. QED BY <1>7, <2>1
<1>. HIDE DEF P
<1>9. PICK g : g = CHOOSE h : P(h)
  OBVIOUS
<1>10. P(g)
  BY <1>8, <1>9
<1>11. g = [w \in ScanState |-> Finds(g, next, last, w)]
  BY <1>7, <1>10
<1>12. os_mmu_find_vaddr(v, va_start, size) = g[[va |-> va_start, remained |-> size, va_ret |-> va_start]]
  BY <1>1, <1>9, Zenon
<1>13. g = [w \in ScanState |-> Finds(g, next, va_start + size - 1, w)]
  BY <1>5, <1>11
<1>. QED BY <1>2, <1>12, <1>13 DEF Scans

\* A range found by a search that starts where a block of the first level starts is free.
LEMMA FoundIsUnused ==
  ASSUME NEW v, NEW F, SameWalks(F, frames, vtable[v]), FirstLevel(F, vtable[v]),
         NEW va_start \in Nat, va_start % 4 = 0, NEW size \in Nat \ {0},
         NEW found, found = os_mmu_find_vaddr(v, va_start, size)
  PROVE  found = 0 \/ (found \in Nat /\ Unused(F, vtable[v], found, found + size - 1))
<1>1. PICK l1 : l1 = vtable[v] /\ FirstLevel(F, l1) /\ SameWalks(F, frames, l1)
  OBVIOUS
<1>2. PICK start : start = [va |-> va_start, remained |-> size, va_ret |-> va_start]
  OBVIOUS
<1>3. start \in ScanState /\ start.va = va_start /\ start.remained = size /\ start.va_ret = va_start
  BY <1>2 DEF ScanState
<1>4. Searched(F, l1, start, size)
  <2>1. Unused(F, l1, va_start, va_start - 1)
    BY DEF Unused
  <2>2. PICK b \in {1, 2, 4} : b = Walk(F, l1, va_start)[2]
    BY <1>1, WalkIs
  <2>3. va_start % b = 0
    <3>1. PICK q \in Nat : va_start = 4 * q
      BY DivMod
    <3>2. CASE b = 1
      BY <3>2
    <3>3. CASE b = 2
      <4>1. va_start = 2 * (2 * q)
        BY <3>1
      <4>. QED BY <3>3, <4>1
    <3>4. CASE b = 4
      BY <3>4
    <3>. QED BY <3>2, <3>3, <3>4
  <2>. QED BY <1>3, <2>1, <2>2, <2>3 DEF Searched
<1>5. PICK last \in Nat : last = va_start + size - 1
  OBVIOUS
<1>6. Scans(v, size, last, start, found)
  BY <1>1, <1>2, <1>5, FindVaddrIs
<1>7. found = 0 \/ (found \in Nat /\ Unused(F, l1, found, found + size - 1))
  BY <1>1, <1>3, <1>4, <1>5, <1>6, SearchSound
<1>. QED BY <1>1, <1>7

\* The board's search for a block of IO memory finds the first one or nothing.
LEMMA IoBlockFound ==
  ASSUME FirstLevel(frames, vtable["kernel"]), vtable["kernel"] = kernel_l1_pagetable
  PROVE  os_mmu_find_vaddr("kernel", 56, 4) \in {0, 56}
<1>1. PICK F, l1 : F = frames /\ l1 = vtable["kernel"] /\ FirstLevel(F, l1) /\ SameWalks(F, frames, l1)
  BY DEF SameWalks
<1>2. PICK start : start = [va |-> 56, remained |-> 4, va_ret |-> 56]
  OBVIOUS
<1>3. start \in ScanState /\ start.va = 56 /\ start.remained = 4 /\ start.va_ret = 56
  BY <1>2 DEF ScanState
<1>4. PICK h, next : /\ next = [w \in ScanState |-> FindRound("kernel", w, 4)]
                     /\ h = [w \in ScanState |-> Finds(h, next, 59, w)]
                     /\ os_mmu_find_vaddr("kernel", 56, 4) = h[start]
  <2>1. 59 = 56 + 4 - 1 /\ 56 \in Nat /\ 4 \in Nat \ {0}
    OBVIOUS
  <2>2. Scans("kernel", 4, 56 + 4 - 1, start, os_mmu_find_vaddr("kernel", 56, 4))
    BY <1>1, <1>2, <2>1, FindVaddrIs
  <2>3. Scans("kernel", 4, 59, start, os_mmu_find_vaddr("kernel", 56, 4))
    BY <2>1, <2>2
  <2>. QED BY <2>3 DEF Scans
<1>5. PICK e \in Nat : Walk(F, l1, 56) = <<e, 4>>
  <2>1. OS_MMU_L1_ID(56) = 6
    BY DEF OS_MMU_L1_ID, OS_MMU_L1_SIZE
  <2>2. E1(F, l1, 56) = F[l1].entry[6] /\ F[l1].entry \in [0..7 -> Int]
    BY <1>1, <2>1, FrameKinds DEF E1, FirstLevel, Entries
  <2>3. E1(F, l1, 56) >= 0 /\ E1(F, l1, 56) \in Int
    BY <1>1, <2>2 DEF FirstLevel, BlocksAbove
  <2>. QED BY <2>3, WalkEnds
<1>6. PICK x : x = FindRound("kernel", start, 4)
  OBVIOUS
<1>7. x = IF e = 0 THEN FindPass(start, 4) ELSE FindRestart(start, 4, 4)
  BY <1>1, <1>3, <1>5, <1>6 DEF FindRound, __is_null_entry
<1>8. 56 % 4 = 0 /\ 60 % 4 = 0
  OBVIOUS
<1>9. CASE e = 0
  <2>1. Min({4, 4 - (56 % 4)}) = 4 /\ Min({4, 4 - (60 % 4)}) = 4
    BY <1>8, MinOfTwo
  <2>2. x = [va |-> 60, remained |-> 0, va_ret |-> 56]
    <3>1. 56 + 4 = 60 /\ 4 - 4 = 0
      OBVIOUS
    <3>2. x = FindPass(start, 4)
      BY <1>7, <1>9
    <3>3. FindPass(start, 4) = [va |-> 56 + Min({4, 4 - (56 % 4)}),
                                remained |-> 4 - Min({4, 4 - ((56 + Min({4, 4 - (56 % 4)})) % 4)}), va_ret |-> 56]
      BY <1>3, Zenon DEF FindPass
    <3>. QED BY <2>1, <3>1, <3>2, <3>3
  <2>3. h[start] = 56
    BY <1>3, <1>4, <1>6, <2>2 DEF Finds
  <2>. QED BY <1>4, <2>3
<1>10. CASE e # 0
  <2>1. x = [va |-> 60, remained |-> 4, va_ret |-> 60]
    <3>1. x = FindRestart(start, 4, 4) /\ 56 + 4 - (56 % 4) = 60
      BY <1>7, <1>8, <1>10
    <3>. QED BY <1>3, <3>1 DEF FindRestart
  <2>2. x \in ScanState
    BY <2>1 DEF ScanState
  <2>3. h[start] = h[x]
    BY <1>3, <1>4, <1>6, <2>1 DEF Finds
  <2>4. h[x] = 0
    BY <1>4, <2>1, <2>2 DEF Finds
  <2>. QED BY <1>4, <2>3, <2>4
<1>. QED BY <1>9, <1>10

-----------------------------------------------------------------------------
\* Once the boot is over the kernel's page table is the static one, and no other is.
LEMMA KernelRoot ==
  ASSUME MmuSound, Ready
  PROVE  /\ vtable["kernel"] = kernel_l1_pagetable /\ FirstLevel(frames, kernel_l1_pagetable)
         /\ kernel_l1_pagetable \in AnyFrame /\ "kernel" \in AnyVtable /\ "kernel" \notin UserVtable
         /\ \A u \in AnyVtable : u # "kernel" /\ vtable[u] # 0 =>
              vtable[u] # kernel_l1_pagetable /\ vtable[u] \in AnyFrame /\ frames[vtable[u]].kind = "l1"
<1>1. /\ FramesTyped(frames) /\ BlocksAbove(frames) /\ SlotsTyped(frames) /\ Rooted(frames, vtable) /\ Stages
  BY DEF MmuSound, TablesSound
<1>2. /\ "kernel" \in AnyVtable /\ "kernel" \notin UserVtable /\ kernel_l1_pagetable \notin HeapFrame
      /\ kernel_l1_pagetable \in AnyFrame /\ kernel_l1_jump_pagetable \in AnyFrame
      /\ kernel_l1_pagetable # kernel_l1_jump_pagetable
  BY MmuAssumption, FramesAre DEF AnyVtable, AnyFrame, kernel_l1_pagetable, kernel_l1_jump_pagetable
<1>3. vtable["kernel"] = kernel_l1_pagetable
  BY <1>1 DEF Stages, Ready, Rooted
<1>4. FirstLevel(frames, kernel_l1_pagetable)
  BY <1>1, <1>2 DEF FirstLevel, FramesTyped
<1>5. ASSUME NEW u \in AnyVtable, u # "kernel", vtable[u] # 0
      PROVE  vtable[u] # kernel_l1_pagetable /\ vtable[u] \in AnyFrame /\ frames[vtable[u]].kind = "l1"
  <2>1. CASE u = "jump"
    BY <1>1, <1>2, <1>5, <2>1 DEF Rooted, FramesTyped
  <2>2. CASE u \in UserVtable
    BY <1>1, <1>2, <1>5, <2>2 DEF Rooted, AnyFrame
  <2>. QED BY <1>5, <2>1, <2>2 DEF AnyVtable
<1>. QED BY <1>2, <1>3, <1>4, <1>5

\* A change of the kernel's page table alone is exact when it is for the kernel.
LEMMA KernelExact ==
  ASSUME MmuSound, Ready, NEW G, NEW N, NEW M,
         TablesSound(G, vtable, leaked),
         \A u \in AnyFrame, p \in AddressSpace :
           frames[u].kind = "l1" /\ u # kernel_l1_pagetable => Translate(G, u, p) = Translate(frames, u, p),
         DOMAIN N \subseteq AddressSpace,
         \A p \in AddressSpace : Translate(G, kernel_l1_pagetable, p) = IF p \in DOMAIN N THEN N[p] ELSE -1,
         M = [intended EXCEPT !["kernel"] = N]
  PROVE  Exact(G, vtable, M)
<1>1. Exact(frames, vtable, intended)
  BY DEF MmuSound
<1>2. DOMAIN M = AnyVtable /\ M["kernel"] = N /\ \A u \in AnyVtable : u # "kernel" => M[u] = intended[u]
  BY <1>1, KernelRoot DEF Exact
<1>3. ASSUME NEW u \in AnyVtable
      PROVE  /\ vtable[u] = 0 => DOMAIN M[u] = {}
             /\ DOMAIN M[u] \subseteq AddressSpace
             /\ vtable[u] # 0 => \A p \in AddressSpace : Translate(G, vtable[u], p) = IF p \in DOMAIN M[u] THEN M[u][p] ELSE -1
  <2>1. CASE u = "kernel"
    BY <1>2, <2>1, KernelRoot DEF kernel_l1_pagetable
  <2>2. CASE u # "kernel"
    <3>1. M[u] = intended[u]
      BY <1>2, <2>2
    <3>2. vtable[u] # 0 => \A p \in AddressSpace : Translate(G, vtable[u], p) = Translate(frames, vtable[u], p)
      BY <2>2, KernelRoot
    <3>. QED BY <1>1, <3>1, <3>2 DEF Exact
  <2>. QED BY <2>1, <2>2
<1>. QED BY <1>2, <1>3 DEF Exact

\* The board maps a block of IO memory.
LEMMA CreateIoKept ==
  ASSUME MmuSound, os_mmu_create_io_mapping
  PROVE  MmuSound'
<1>1. IO_START = 56 /\ OS_MMU_L1_SIZE = 4
  BY DEF IO_START, OS_MMU_L1_SIZE
<1>2. PICK va : va = os_mmu_find_vaddr("kernel", 56, 4)
  OBVIOUS
<1>3. /\ Ready /\ va # 0
      /\ frames' = create_mapping(frames, vtable["kernel"], va, 0, 4).F
      /\ intended' = [intended EXCEPT !["kernel"] = With(@, OS_MMU_GET_EFFECTIVE_VA(va), 4, 0)]
      /\ vtable' = vtable /\ os_mmu_preinitialized' = os_mmu_preinitialized
      /\ leaked' = leaked /\ strayed' = strayed
  BY <1>1, <1>2, Zenon DEF os_mmu_create_io_mapping
<1>4. va = 56 /\ vtable["kernel"] = kernel_l1_pagetable
  BY <1>2, <1>3, KernelRoot, IoBlockFound
<1>5. PICK G, N : /\ G = create_mapping(frames, kernel_l1_pagetable, 56, 0, 4).F
                  /\ N = With(intended["kernel"], 24, 4, 0)
  OBVIOUS
<1>6. frames' = G /\ intended' = [intended EXCEPT !["kernel"] = N]
  <2>1. OS_MMU_GET_EFFECTIVE_VA(56) = 24
    BY DEF OS_MMU_GET_EFFECTIVE_VA
  <2>. QED BY <1>3, <1>4, <1>5, <2>1, Zenon
<1>7. Mapped(frames, G, vtable, leaked, kernel_l1_pagetable, 24, 4, 0)
  BY <1>5, IoMapped DEF MmuSound
<1>8. DOMAIN N = DOMAIN intended["kernel"] \cup Range4(24, 4)
      /\ \A p \in DOMAIN N : N[p] = IF p \in Range4(24, 4) THEN 0 + p - 24 ELSE intended["kernel"][p]
  BY <1>5 DEF With
<1>9. DOMAIN N \subseteq AddressSpace
  <2>1. DOMAIN intended["kernel"] \subseteq AddressSpace
    BY <1>3, KernelRoot DEF MmuSound, Exact
  <2>. QED BY <1>8, <2>1 DEF Range4, AddressSpace
<1>10. ASSUME NEW p \in AddressSpace
       PROVE  Translate(G, kernel_l1_pagetable, p) = IF p \in DOMAIN N THEN N[p] ELSE -1
  <2>1. Translate(frames, kernel_l1_pagetable, p) = IF p \in DOMAIN intended["kernel"] THEN intended["kernel"][p] ELSE -1
    BY <1>3, <1>4, KernelRoot DEF MmuSound, Exact, kernel_l1_pagetable
  <2>. QED BY <1>7, <1>8, <2>1 DEF Mapped
<1>11. TablesSound(G, vtable, leaked) /\ Exact(G, vtable, intended')
  <2>1. TablesSound(G, vtable, leaked)
    BY <1>7 DEF Mapped
  <2>2. \A u \in AnyFrame, p \in AddressSpace :
          frames[u].kind = "l1" /\ u # kernel_l1_pagetable => Translate(G, u, p) = Translate(frames, u, p)
    BY <1>7 DEF Mapped
  <2>. QED BY <1>3, <1>6, <1>9, <1>10, <2>1, <2>2, KernelExact
<1>12. TablesSound(frames', vtable', leaked) /\ Exact(frames', vtable', intended')
  BY <1>3, <1>6, <1>11
<1>13. Stages'
  BY <1>3 DEF MmuSound, Stages, Ready
<1>. QED BY <1>3, <1>12, <1>13 DEF MmuSound

\* The kernel's block of IO memory is one entry.
LEMMA IoRemoved ==
  ASSUME NEW F, FramesTyped(F), BlocksAbove(F)
  PROVE  remove_mapping(F, kernel_l1_pagetable, 56, 4).F = Put(F, kernel_l1_pagetable, 6, 0)
<1>1. PICK l1 : l1 = kernel_l1_pagetable
  OBVIOUS
<1>2. OS_MMU_L1_ID(56) = 6 /\ OS_MMU_L1_ID(59) = 6 /\ 59 = 56 + 4 - 1 /\ 6 \in Int
  BY DEF OS_MMU_L1_ID, OS_MMU_L1_SIZE
<1>3. PICK w : w = [F |-> F, va |-> 56, pa |-> 0, size |-> 4, err |-> "ok"]
  OBVIOUS
<1>4. remove_mapping(F, l1, 56, 4) = RemoveL1Round(w, l1, 6, 59)
  BY <1>2, <1>3, OneRemovalL1
<1>5. PICK e : e = w.F[l1].entry[6] /\ e = F[l1].entry[6] /\ e \in Int /\ e >= 0
  <2>1. l1 \in AnyFrame /\ F[l1].kind = "l1" /\ 6 \in 4..7
    BY <1>1 DEF FramesTyped, AnyFrame
  <2>2. F[l1].entry[6] \in Int
    <3>1. F[l1].entry \in [0..7 -> Int]
      BY <2>1, FrameKinds DEF Entries
    <3>. QED BY <3>1
  <2>3. F[l1].entry[6] >= 0
    BY <2>1 DEF BlocksAbove
  <2>. QED BY <1>3, <2>2, <2>3
<1>6. Clears(w, e, OS_MMU_L1_SIZE) /\ w.err = "ok"
  BY <1>3, <1>5 DEF Clears, OS_MMU_L1_SIZE, __is_pagetable
<1>7. RemoveL1Round(w, l1, 6, 59) = Advance([w EXCEPT !.F[l1].entry[6] = 0], OS_MMU_L1_SIZE)
  BY <1>5, <1>6, Zenon DEF RemoveL1Round
<1>8. PICK v : v = [w EXCEPT !.F[l1].entry[6] = 0]
  OBVIOUS
<1>9. v.F = Put(F, l1, 6, 0) /\ v = Loop(v.F, 56, 0, 4, "ok")
  <2>1. v = [w EXCEPT !.F = Put(F, l1, 6, 0)]
    BY <1>3, <1>8 DEF Put
  <2>. HIDE <1>8
  <2>. QED BY <1>3, <2>1 DEF Loop
<1>10. PICK H : H = Put(F, l1, 6, 0) /\ v = Loop(H, 56, 0, 4, "ok")
  BY <1>9
<1>11. Advance(v, OS_MMU_L1_SIZE).F = H
  <2>1. Advance(v, 4) = [v EXCEPT !.va = @ + 4, !.pa = @ + 4, !.size = @ - 4]
    BY Zenon DEF Advance
  <2>2. OS_MMU_L1_SIZE = 4
    BY DEF OS_MMU_L1_SIZE
  <2>. HIDE <1>8, <1>9
  <2>. QED BY <1>10, <2>1, <2>2 DEF Loop
<1>. QED BY <1>1, <1>4, <1>7, <1>8, <1>10, <1>11

\* The board takes it away.
LEMMA RemoveIoKept ==
  ASSUME MmuSound, os_mmu_remove_io_mapping
  PROVE  MmuSound'
<1>1. IO_START = 56 /\ OS_MMU_L1_SIZE = 4 /\ OS_MMU_GET_EFFECTIVE_VA(56) = 24
  BY DEF IO_START, OS_MMU_L1_SIZE, OS_MMU_GET_EFFECTIVE_VA
<1>2. PICK G, N : /\ G = Put(frames, kernel_l1_pagetable, 6, 0)
                  /\ N = [p \in DOMAIN intended["kernel"] \ Range4(24, 4) |-> intended["kernel"][p]]
  OBVIOUS
<1>3. /\ Ready /\ frames' = remove_mapping(frames, vtable["kernel"], 56, 4).F
      /\ intended' = [intended EXCEPT !["kernel"] = N]
      /\ vtable' = vtable /\ os_mmu_preinitialized' = os_mmu_preinitialized
      /\ leaked' = leaked /\ strayed' = strayed
  BY <1>1, <1>2, Zenon DEF os_mmu_remove_io_mapping
<1>4. frames' = G /\ vtable["kernel"] = kernel_l1_pagetable
  BY <1>2, <1>3, KernelRoot, IoRemoved DEF MmuSound, TablesSound
<1>5. BlockPut(frames, G, vtable, leaked, kernel_l1_pagetable, 6, 0)
  <2>1. 6 \in 0..7 /\ 6 >= 4 /\ 0 \in Nat
    OBVIOUS
  <2>. QED BY <1>2, <2>1, BlockEntry DEF MmuSound
<1>6. ASSUME NEW p \in AddressSpace
      PROVE  Translate(G, kernel_l1_pagetable, p) = IF p \in DOMAIN N THEN N[p] ELSE -1
  <2>1. Translate(frames, kernel_l1_pagetable, p) = IF p \in DOMAIN intended["kernel"] THEN intended["kernel"][p] ELSE -1
    BY <1>3, <1>4, KernelRoot DEF MmuSound, Exact, kernel_l1_pagetable
  <2>2. OS_MMU_L1_ID(p) = 6 <=> p \in Range4(24, 4)
    <3>1. PICK i \in 0..7, r \in 0..3 : p = 4 * i + r /\ i = OS_MMU_L1_ID(p)
      BY DEF AddressSpace, OS_MMU_L1_ID, OS_MMU_L1_SIZE
    <3>2. Range4(24, 4) = 24..27
      BY DEF Range4
    <3>. QED BY <3>1, <3>2
  <2>. QED BY <1>2, <1>5, <2>1, <2>2 DEF BlockPut
<1>7. TablesSound(G, vtable, leaked) /\ Exact(G, vtable, intended')
  <2>1. TablesSound(G, vtable, leaked)
    BY <1>5 DEF BlockPut
  <2>2. \A u \in AnyFrame, p \in AddressSpace :
          frames[u].kind = "l1" /\ u # kernel_l1_pagetable => Translate(G, u, p) = Translate(frames, u, p)
    BY <1>5 DEF BlockPut
  <2>3. DOMAIN N \subseteq AddressSpace
    BY <1>2, <1>3, KernelRoot DEF MmuSound, Exact
  <2>. QED BY <1>3, <1>6, <2>1, <2>2, <2>3, KernelExact
<1>8. TablesSound(frames', vtable', leaked) /\ Exact(frames', vtable', intended')
  BY <1>3, <1>4, <1>7
<1>9. Stages'
  BY <1>3 DEF MmuSound, Stages, Ready
<1>. QED BY <1>3, <1>8, <1>9 DEF MmuSound

-----------------------------------------------------------------------------
\* The frames without those of Y.
Freed(F, Y) == [f \in AnyFrame |-> IF f \in Y THEN Plain("free") ELSE F[f]]

\* What goes when an entry of a third, a second or a first level does.
Child(F, t, i) == IF IsSlot(F, t, i) THEN {Target(F, t, i)} ELSE {}
Pages(F, t) == Child(F, t, 0) \cup Child(F, t, 1)
Sub3(F, t, i) == IF IsSlot(F, t, i) THEN {Target(F, t, i)} \cup Pages(F, Target(F, t, i)) ELSE {}
Sub2(F, t, i) ==
  IF IsSlot(F, t, i) THEN {Target(F, t, i)} \cup Sub3(F, Target(F, t, i), 0) \cup Sub3(F, Target(F, t, i), 1) ELSE {}

\* All that the removal of tables needs.
Tidy(F) == FramesTyped(F) /\ SlotsTyped(F) /\ SlotsUnique(F)

\* One more frame is freed, once.
LEMMA FreedMore ==
  ASSUME NEW F, FramesTyped(F), NEW Y, NEW f \in HeapFrame, f \notin Y, F[f].kind # "free",
         NEW Z, Z = Y \cup {f}
  PROVE  os_memory_free_frame(Freed(F, Y), f) = Freed(F, Z)
<1>1. PICK G : G = Freed(F, Y)
  OBVIOUS
<1>2. f \in AnyFrame
  BY HeapNumber
<1>3. G[f] = F[f] /\ G = [u \in AnyFrame |-> IF u \in Y THEN Plain("free") ELSE F[u]]
  BY <1>1, <1>2 DEF Freed
<1>4. os_memory_free_frame(G, f) = [G EXCEPT ![f] = Plain("free")]
  BY <1>3, FreeFrameIs
<1>5. [G EXCEPT ![f] = Plain("free")] = [u \in AnyFrame |-> IF u \in Z THEN Plain("free") ELSE F[u]]
  BY <1>3
<1>. QED BY <1>1, <1>4, <1>5 DEF Freed

\* Slots that lead to the same frame are the same.
LEMMA OneOwner ==
  ASSUME NEW F, Tidy(F), NEW t \in HeapFrame, NEW u \in HeapFrame, NEW i, NEW j,
         IsSlot(F, t, i), IsSlot(F, u, j), Target(F, t, i) = Target(F, u, j)
  PROVE  t = u /\ i = j
<1>1. i \in 0..7 /\ j \in 0..7
  BY SlotLeads DEF Tidy
<1>. QED BY <1>1 DEF Tidy, SlotsUnique

\* Who is below an entry.
LEMMA BelowL3 ==
  ASSUME NEW F, Tidy(F), NEW t \in HeapFrame, F[t].kind = "l3", NEW i, NEW f \in Child(F, t, i)
  PROVE  /\ f \in HeapFrame /\ F[f].kind = "data" /\ IsSlot(F, t, i) /\ f = Target(F, t, i) /\ F[t].entry[i] = Leaf(f)
         /\ F[t].entry[i] > 0
<1>1. IsSlot(F, t, i) /\ f = Target(F, t, i)
  BY DEF Child
<1>. QED BY <1>1, SlotLeads DEF Tidy

\* A table of the last level and its pages.
LEMMA BelowL2 ==
  ASSUME NEW F, Tidy(F), NEW t \in HeapFrame, F[t].kind = "l2", NEW i, NEW f \in Sub3(F, t, i)
  PROVE  /\ f \in HeapFrame /\ IsSlot(F, t, i) /\ Target(F, t, i) \in HeapFrame /\ F[Target(F, t, i)].kind = "l3"
         /\ F[t].entry[i] = -Target(F, t, i) /\ F[t].entry[i] < 0
         /\ \/ F[f].kind = "l3" /\ f = Target(F, t, i)
            \/ F[f].kind = "data" /\ \E k \in 0..1 : f \in Child(F, Target(F, t, i), k)
<1>1. PICK x : x = Target(F, t, i)
  OBVIOUS
<1>2. IsSlot(F, t, i) /\ f \in {x} \cup Child(F, x, 0) \cup Child(F, x, 1)
  BY <1>1 DEF Sub3, Pages
<1>3. x \in HeapFrame /\ F[x].kind = "l3" /\ F[t].entry[i] = -x /\ F[t].entry[i] < 0
  BY <1>1, <1>2, SlotLeads DEF Tidy
<1>4. ASSUME NEW k \in 0..1, f \in Child(F, x, k) PROVE f \in HeapFrame /\ F[f].kind = "data"
  BY <1>3, <1>4, BelowL3
<1>. QED BY <1>1, <1>2, <1>3, <1>4

\* A table of the second level and all below it.
LEMMA BelowL1 ==
  ASSUME NEW F, Tidy(F), NEW t \in HeapFrame, F[t].kind = "l1", NEW i, NEW f \in Sub2(F, t, i)
  PROVE  /\ f \in HeapFrame /\ IsSlot(F, t, i) /\ Target(F, t, i) \in HeapFrame /\ F[Target(F, t, i)].kind = "l2"
         /\ F[t].entry[i] = -Target(F, t, i) /\ F[t].entry[i] < 0
         /\ \/ F[f].kind = "l2" /\ f = Target(F, t, i)
            \/ F[f].kind \in {"l3", "data"} /\ \E k \in 0..1 : f \in Sub3(F, Target(F, t, i), k)
<1>1. PICK x : x = Target(F, t, i)
  OBVIOUS
<1>2. IsSlot(F, t, i) /\ f \in {x} \cup Sub3(F, x, 0) \cup Sub3(F, x, 1)
  BY <1>1 DEF Sub2
<1>3. x \in HeapFrame /\ F[x].kind = "l2" /\ F[t].entry[i] = -x /\ F[t].entry[i] < 0
  BY <1>1, <1>2, SlotLeads DEF Tidy
<1>4. ASSUME NEW k \in 0..1, f \in Sub3(F, x, k) PROVE f \in HeapFrame /\ F[f].kind \in {"l3", "data"}
  BY <1>3, <1>4, BelowL2
<1>. QED BY <1>1, <1>2, <1>3, <1>4

\* Nothing is below two entries.
LEMMA ApartL2 ==
  ASSUME NEW F, Tidy(F), NEW t \in HeapFrame, F[t].kind = "l2", NEW u \in HeapFrame, F[u].kind = "l2",
         NEW i, NEW j, NEW f \in Sub3(F, t, i), f \in Sub3(F, u, j)
  PROVE  t = u /\ i = j
<1>1. PICK x, y : x = Target(F, t, i) /\ y = Target(F, u, j)
  OBVIOUS
<1>2. /\ IsSlot(F, t, i) /\ x \in HeapFrame /\ F[x].kind = "l3"
      /\ (F[f].kind = "l3" /\ f = x) \/ (F[f].kind = "data" /\ \E k \in 0..1 : f \in Child(F, x, k))
  BY <1>1, BelowL2
<1>3. /\ IsSlot(F, u, j) /\ y \in HeapFrame /\ F[y].kind = "l3"
      /\ (F[f].kind = "l3" /\ f = y) \/ (F[f].kind = "data" /\ \E k \in 0..1 : f \in Child(F, y, k))
  BY <1>1, BelowL2
<1>4. CASE F[f].kind = "l3"
  BY <1>1, <1>2, <1>3, <1>4, OneOwner
<1>5. CASE F[f].kind = "data"
  <2>1. PICK k \in 0..1 : f \in Child(F, x, k)
    BY <1>2, <1>5
  <2>2. PICK m \in 0..1 : f \in Child(F, y, m)
    BY <1>3, <1>5
  <2>3. IsSlot(F, x, k) /\ f = Target(F, x, k) /\ IsSlot(F, y, m) /\ f = Target(F, y, m)
    BY <1>2, <1>3, <2>1, <2>2, BelowL3
  <2>4. x = y
    BY <1>2, <1>3, <2>3, OneOwner
  <2>. QED BY <1>1, <1>2, <1>3, <2>4, OneOwner
<1>. QED BY <1>2, <1>4, <1>5

\* The same on the first level.
LEMMA ApartL1 ==
  ASSUME NEW F, Tidy(F), NEW t \in HeapFrame, F[t].kind = "l1", NEW u \in HeapFrame, F[u].kind = "l1",
         NEW i, NEW j, NEW f \in Sub2(F, t, i), f \in Sub2(F, u, j)
  PROVE  t = u /\ i = j
<1>1. PICK x, y : x = Target(F, t, i) /\ y = Target(F, u, j)
  OBVIOUS
<1>2. /\ IsSlot(F, t, i) /\ x \in HeapFrame /\ F[x].kind = "l2"
      /\ (F[f].kind = "l2" /\ f = x) \/ (F[f].kind \in {"l3", "data"} /\ \E k \in 0..1 : f \in Sub3(F, x, k))
  BY <1>1, BelowL1
<1>3. /\ IsSlot(F, u, j) /\ y \in HeapFrame /\ F[y].kind = "l2"
      /\ (F[f].kind = "l2" /\ f = y) \/ (F[f].kind \in {"l3", "data"} /\ \E k \in 0..1 : f \in Sub3(F, y, k))
  BY <1>1, BelowL1
<1>4. CASE F[f].kind = "l2"
  BY <1>1, <1>2, <1>3, <1>4, OneOwner
<1>5. CASE F[f].kind \in {"l3", "data"}
  <2>1. PICK k \in 0..1 : f \in Sub3(F, x, k)
    BY <1>2, <1>5
  <2>2. PICK m \in 0..1 : f \in Sub3(F, y, m)
    BY <1>3, <1>5
  <2>3. x = y
    BY <1>2, <1>3, <2>1, <2>2, ApartL2
  <2>. QED BY <1>1, <1>2, <1>3, <2>3, OneOwner
<1>. QED BY <1>2, <1>4, <1>5

\* A null entry leads nowhere.
LEMMA NullEntry ==
  ASSUME NEW F, NEW t, F[t].kind \in {"l1", "l2", "l3"}, NEW i \in 0..1, ~IsSlot(F, t, i)
  PROVE  F[t].entry[i] = 0
<1>1. i \in Entries(F[t].kind) /\ i <= 3
  BY DEF Entries
<1>. QED BY <1>1, SlotIs

\* The page behind an entry is freed.
LEMMA PageFreed ==
  ASSUME NEW F, Tidy(F), NEW x \in HeapFrame, F[x].kind = "l3", NEW k \in 0..1,
         NEW Y, Child(F, x, k) \cap Y = {}, NEW Z, Z = Y \cup Child(F, x, k)
  PROVE  RemovePage(Freed(F, Y), F[x].entry[k], TRUE) = Freed(F, Z)
<1>1. CASE IsSlot(F, x, k)
  <2>1. PICK f : f = Target(F, x, k) /\ Child(F, x, k) = {f}
    BY <1>1 DEF Child
  <2>2. f \in HeapFrame /\ F[f].kind = "data" /\ F[x].entry[k] = Leaf(f) /\ F[x].entry[k] > 0
    BY <2>1, BelowL3
  <2>3. __get_ppn(F[x].entry[k]) = f
    BY <2>2, HeapNumber DEF __get_ppn, Leaf
  <2>4. RemovePage(Freed(F, Y), F[x].entry[k], TRUE) = os_memory_free_frame(Freed(F, Y), f)
    BY <2>2, <2>3 DEF RemovePage
  <2>5. os_memory_free_frame(Freed(F, Y), f) = Freed(F, Z)
    <3>1. f \notin Y /\ Z = Y \cup {f} /\ FramesTyped(F) /\ F[f].kind # "free"
      BY <2>1, <2>2 DEF Tidy
    <3>. QED BY <2>2, <3>1, FreedMore
  <2>. QED BY <2>4, <2>5
<1>2. CASE ~IsSlot(F, x, k)
  <2>1. F[x].entry[k] = 0
    BY <1>2, NullEntry
  <2>2. Z = Y
    BY <1>2 DEF Child
  <2>. QED BY <2>1, <2>2 DEF RemovePage
<1>. QED BY <1>1, <1>2

\* So are both pages of a table.
LEMMA PagesFreed ==
  ASSUME NEW F, Tidy(F), NEW x \in HeapFrame, F[x].kind = "l3",
         NEW Y, x \notin Y, Pages(F, x) \cap Y = {}, NEW Z, Z = Y \cup Pages(F, x)
  PROVE  remove_all_l3(Freed(F, Y), x, TRUE) = Freed(F, Z)
<1>1. Freed(F, Y)[x] = F[x]
  BY HeapNumber DEF Freed
<1>2. remove_all_l3(Freed(F, Y), x, TRUE) = RemovePage(RemovePage(Freed(F, Y), F[x].entry[0], TRUE), F[x].entry[1], TRUE)
  BY <1>1 DEF remove_all_l3
<1>3. PICK A : A = Y \cup Child(F, x, 0)
  OBVIOUS
<1>4. Child(F, x, 0) \cap Y = {} /\ Child(F, x, 1) \cap A = {} /\ Z = A \cup Child(F, x, 1)
  <2>1. ASSUME NEW f \in Child(F, x, 0), f \in Child(F, x, 1) PROVE FALSE
    <3>1. IsSlot(F, x, 0) /\ f = Target(F, x, 0) /\ IsSlot(F, x, 1) /\ f = Target(F, x, 1)
      BY <2>1, BelowL3
    <3>. QED BY <3>1, OneOwner
  <2>. QED BY <1>3, <2>1 DEF Pages
<1>5. RemovePage(Freed(F, Y), F[x].entry[0], TRUE) = Freed(F, A)
  <2>1. 0 \in 0..1
    OBVIOUS
  <2>. QED BY <1>3, <1>4, <2>1, PageFreed
<1>6. RemovePage(Freed(F, A), F[x].entry[1], TRUE) = Freed(F, Z)
  <2>1. PICK k \in 0..1 : k = 1
    OBVIOUS
  <2>2. PICK C : C = A \cup Child(F, x, k)
    OBVIOUS
  <2>3. Child(F, x, k) \cap A = {} /\ C = Z
    BY <1>4, <2>1, <2>2
  <2>4. RemovePage(Freed(F, A), F[x].entry[k], TRUE) = Freed(F, C)
    <3>1. Child(F, x, k) \cap A = {}
      BY <2>3
    <3>. QED BY <2>2, <3>1, PageFreed, ZenonT(30)
  <2>. QED BY <2>1, <2>3, <2>4
<1>. QED BY <1>2, <1>5, <1>6

\* What is behind an entry of a second level is freed.
LEMMA BelowFreed ==
  ASSUME NEW F, Tidy(F), NEW t \in HeapFrame, F[t].kind = "l2", NEW j \in 0..1,
         NEW Y, Sub3(F, t, j) \cap Y = {}, NEW Z, Z = Y \cup Sub3(F, t, j)
  PROVE  RemoveBelow(Freed(F, Y), F[t].entry[j], TRUE) = Freed(F, Z)
<1>1. CASE IsSlot(F, t, j)
  <2>1. PICK x : x = Target(F, t, j) /\ Sub3(F, t, j) = {x} \cup Pages(F, x)
    BY <1>1 DEF Sub3
  <2>2. x \in HeapFrame /\ F[x].kind = "l3" /\ F[t].entry[j] = -x /\ F[t].entry[j] < 0 /\ -(-x) = x
    <3>1. x \in Sub3(F, t, j)
      BY <2>1
    <3>. QED BY <2>1, <3>1, BelowL2, HeapNumber
  <2>3. PICK A : A = Y \cup Pages(F, x)
    OBVIOUS
  <2>4. /\ x \notin Y /\ Pages(F, x) \cap Y = {} /\ x \notin A /\ Z = A \cup {x} /\ FramesTyped(F) /\ F[x].kind # "free"
    <3>1. \A f \in Pages(F, x) : F[f].kind = "data"
      BY <2>2, BelowL3 DEF Pages
    <3>. QED BY <2>1, <2>2, <2>3, <3>1 DEF Tidy
  <2>5. RemoveBelow(Freed(F, Y), F[t].entry[j], TRUE) = os_memory_free_frame(remove_all_l3(Freed(F, Y), x, TRUE), x)
    BY <2>2 DEF RemoveBelow
  <2>6. remove_all_l3(Freed(F, Y), x, TRUE) = Freed(F, A)
    BY <2>2, <2>3, <2>4, PagesFreed
  <2>7. os_memory_free_frame(Freed(F, A), x) = Freed(F, Z)
    BY <2>2, <2>4, FreedMore
  <2>. QED BY <2>5, <2>6, <2>7
<1>2. CASE ~IsSlot(F, t, j)
  <2>1. F[t].entry[j] = 0
    BY <1>2, NullEntry
  <2>2. Z = Y
    BY <1>2 DEF Sub3
  <2>. QED BY <2>1, <2>2 DEF RemoveBelow, RemovePage
<1>. QED BY <1>1, <1>2

\* And all behind the entries of a second level.
LEMMA TableFreed ==
  ASSUME NEW F, Tidy(F), NEW t \in HeapFrame, F[t].kind = "l2", NEW Y, t \notin Y,
         (Sub3(F, t, 0) \cup Sub3(F, t, 1)) \cap Y = {}, NEW Z, Z = Y \cup Sub3(F, t, 0) \cup Sub3(F, t, 1)
  PROVE  remove_all_l2(Freed(F, Y), t, TRUE) = Freed(F, Z)
<1>1. Freed(F, Y)[t] = F[t]
  BY HeapNumber DEF Freed
<1>2. remove_all_l2(Freed(F, Y), t, TRUE) = RemoveBelow(RemoveBelow(Freed(F, Y), F[t].entry[0], TRUE), F[t].entry[1], TRUE)
  BY <1>1 DEF remove_all_l2
<1>3. PICK A : A = Y \cup Sub3(F, t, 0)
  OBVIOUS
<1>4. Sub3(F, t, 0) \cap Y = {} /\ Sub3(F, t, 1) \cap A = {} /\ Z = A \cup Sub3(F, t, 1)
  <2>1. ASSUME NEW f \in Sub3(F, t, 0), f \in Sub3(F, t, 1) PROVE FALSE
    <3>1. 0 = 1
      BY <2>1, ApartL2
    <3>. QED BY <3>1
  <2>. QED BY <1>3, <2>1
<1>5. RemoveBelow(Freed(F, Y), F[t].entry[0], TRUE) = Freed(F, A)
  <2>1. 0 \in 0..1
    OBVIOUS
  <2>. QED BY <1>3, <1>4, <2>1, BelowFreed
<1>6. RemoveBelow(Freed(F, A), F[t].entry[1], TRUE) = Freed(F, Z)
  <2>1. PICK k \in 0..1 : k = 1
    OBVIOUS
  <2>2. PICK C : C = A \cup Sub3(F, t, k)
    OBVIOUS
  <2>3. Sub3(F, t, k) \cap A = {} /\ C = Z
    BY <1>4, <2>1, <2>2
  <2>4. RemoveBelow(Freed(F, A), F[t].entry[k], TRUE) = Freed(F, C)
    <3>1. Sub3(F, t, k) \cap A = {}
      BY <2>3
    <3>. QED BY <2>2, <3>1, BelowFreed, ZenonT(30)
  <2>. QED BY <2>1, <2>3, <2>4
<1>. QED BY <1>2, <1>5, <1>6

\* One round of the removal of a page table.
RemoveRound(F, e, user) ==
  IF e < 0 THEN os_memory_free_frame(remove_all_l2(F, -e, user), -e) ELSE RemovePage(F, e, user)

\* Above user space there are blocks only, which stay.
LEMMA RoundFreed ==
  ASSUME NEW F, Tidy(F), NEW t \in HeapFrame, F[t].kind = "l1", NEW i \in 0..3,
         NEW Y, Sub2(F, t, i) \cap Y = {}, NEW Z, Z = Y \cup Sub2(F, t, i)
  PROVE  RemoveRound(Freed(F, Y), F[t].entry[i], TRUE) = Freed(F, Z)
<1>1. CASE IsSlot(F, t, i)
  <2>1. PICK x : x = Target(F, t, i) /\ Sub2(F, t, i) = {x} \cup Sub3(F, x, 0) \cup Sub3(F, x, 1)
    BY <1>1 DEF Sub2
  <2>2. x \in HeapFrame /\ F[x].kind = "l2" /\ F[t].entry[i] = -x /\ F[t].entry[i] < 0 /\ -(-x) = x
    <3>1. x \in Sub2(F, t, i)
      BY <2>1
    <3>. QED BY <2>1, <3>1, BelowL1, HeapNumber
  <2>3. PICK A : A = Y \cup Sub3(F, x, 0) \cup Sub3(F, x, 1)
    OBVIOUS
  <2>4. /\ x \notin Y /\ (Sub3(F, x, 0) \cup Sub3(F, x, 1)) \cap Y = {} /\ x \notin A /\ Z = A \cup {x}
        /\ FramesTyped(F) /\ F[x].kind # "free"
    <3>1. \A f \in Sub3(F, x, 0) \cup Sub3(F, x, 1) : F[f].kind \in {"l3", "data"}
      BY <2>2, BelowL2
    <3>. QED BY <2>1, <2>2, <2>3, <3>1 DEF Tidy
  <2>5. RemoveRound(Freed(F, Y), F[t].entry[i], TRUE) = os_memory_free_frame(remove_all_l2(Freed(F, Y), x, TRUE), x)
    BY <2>2 DEF RemoveRound
  <2>6. remove_all_l2(Freed(F, Y), x, TRUE) = Freed(F, A)
    BY <2>2, <2>3, <2>4, TableFreed
  <2>7. os_memory_free_frame(Freed(F, A), x) = Freed(F, Z)
    BY <2>2, <2>4, FreedMore
  <2>. QED BY <2>5, <2>6, <2>7
<1>2. CASE ~IsSlot(F, t, i)
  <2>1. F[t].entry[i] = 0
    BY <1>2, SlotIs DEF Entries
  <2>2. Z = Y
    BY <1>2 DEF Sub2
  <2>. QED BY <2>1, <2>2 DEF RemoveRound, RemovePage
<1>. QED BY <1>1, <1>2

\* What is below the first n entries of a first level.
Under(F, t, n) == {f \in HeapFrame : \E i \in 0..3 : i < n /\ f \in Sub2(F, t, i)}

\* All rounds together free what is below a page table.
LEMMA AllFreed ==
  ASSUME NEW F, Tidy(F), BlocksAbove(F), NEW t \in HeapFrame, F[t].kind = "l1"
  PROVE  remove_all_mapping(F, t) = Freed(F, Under(F, t, 4))
<1>1. t \in AnyFrame /\ F[t].entry \in [0..7 -> Int] /\ \A i \in 4..7 : F[t].entry[i] >= 0
  <2>1. t \in AnyFrame
    BY HeapNumber
  <2>. QED BY <2>1, FrameKinds DEF Tidy, BlocksAbove, Entries
<1>. DEFINE B(h, n) == IF n = 0 THEN F
                       ELSE IF F[t].entry[n - 1] < 0
                       THEN os_memory_free_frame(remove_all_l2(h[n - 1], -F[t].entry[n - 1], n - 1 <= OS_MMU_L1_ID(USER_START + USER_SIZE - 1)), -F[t].entry[n - 1])
                       ELSE RemovePage(h[n - 1], F[t].entry[n - 1], n - 1 <= OS_MMU_L1_ID(USER_START + USER_SIZE - 1))
            P(h) == h = [n \in 0..8 |-> B(h, n)]
<1>2. remove_all_mapping(F, t) = (CHOOSE h : P(h))[8]
  BY Zenon DEF remove_all_mapping
<1>3. PICK W : W = [n \in 0..8 |-> Freed(F, Under(F, t, n))]
  OBVIOUS
<1>4. W[0] = F
  <2>1. Under(F, t, 0) = {}
    BY DEF Under
  <2>2. F = [f \in AnyFrame |-> F[f]]
    BY DEF Tidy, FramesTyped
  <2>3. Freed(F, {}) = [f \in AnyFrame |-> F[f]]
    BY DEF Freed
  <2>. QED BY <1>3, <2>1, <2>2, <2>3
<1>5. OS_MMU_L1_ID(USER_START + USER_SIZE - 1) = 3
  BY DEF OS_MMU_L1_ID, USER_START, USER_SIZE, OS_MMU_L1_SIZE
<1>6. ASSUME NEW h, NEW n \in 0..7, h[n] = W[n] PROVE B(h, n + 1) = W[n + 1]
  <2>1. PICK A, C : A = Under(F, t, n) /\ C = Under(F, t, n + 1) /\ W[n] = Freed(F, A) /\ W[n + 1] = Freed(F, C)
    BY <1>3
  <2>2. B(h, n + 1) = RemoveRound(h[n], F[t].entry[n], n <= 3)
    <3>1. n + 1 # 0 /\ (n + 1) - 1 = n
      OBVIOUS
    <3>. QED BY <1>5, <3>1 DEF RemoveRound
  <2>3. CASE n <= 3
    <3>1. C = A \cup Sub2(F, t, n)
      <4>1. \A f \in Sub2(F, t, n) : f \in HeapFrame
        BY BelowL1
      <4>2. \A i \in 0..3 : i < n + 1 <=> (i < n \/ i = n)
        OBVIOUS
      <4>. QED BY <2>1, <2>3, <4>1, <4>2 DEF Under
    <3>2. Sub2(F, t, n) \cap A = {}
      <4>. SUFFICES ASSUME NEW f \in Sub2(F, t, n), f \in A PROVE FALSE
        OBVIOUS
      <4>1. PICK i \in 0..3 : i < n /\ f \in Sub2(F, t, i)
        BY <2>1 DEF Under
      <4>2. i = n
        BY <4>1, ApartL1
      <4>. QED BY <4>1, <4>2
    <3>3. RemoveRound(Freed(F, A), F[t].entry[n], TRUE) = Freed(F, C)
      <4>1. n \in 0..3
        BY <2>3
      <4>. QED BY <3>1, <3>2, <4>1, RoundFreed, ZenonT(30)
    <3>4. (n <= 3) = TRUE
      BY <2>3
    <3>. QED BY <1>6, <2>1, <2>2, <3>3, <3>4
  <2>4. CASE n > 3
    <3>1. C = A
      BY <2>1, <2>4 DEF Under
    <3>2. F[t].entry[n] >= 0 /\ F[t].entry[n] \in Int
      BY <1>1, <2>4
    <3>3. RemoveRound(Freed(F, A), F[t].entry[n], n <= 3) = Freed(F, A)
      BY <2>4, <3>2 DEF RemoveRound, RemovePage
    <3>. QED BY <1>6, <2>1, <2>2, <3>1, <3>3
  <2>. QED BY <2>3, <2>4
<1>7. \A h : B(h, 0) = W[0]
  BY <1>4
<1>. HIDE DEF B
<1>8. \E h : P(h)
  <2>1. \A n \in 0..8 : W[n] = B(W, n)
    <3>. SUFFICES ASSUME NEW n \in 0..8 PROVE W[n] = B(W, n)
      OBVIOUS
    <3>1. CASE n = 0
      BY <1>7, <3>1
    <3>2. CASE n # 0
      <4>1. PICK m \in 0..7 : n = m + 1
        BY <3>2
      <4>. QED BY <1>6, <4>1
    <3>. QED BY <3>1, <3>2
  <2>. QED BY <1>3, <2>1
<1>9. ASSUME NEW h, P(h) PROVE h[8] = W[8]
  <2>. DEFINE S == {n \in 0..8 : h[n] = W[n]}
  <2>1. \A n \in 0..8 : h[n] = B(h, n)
    BY <1>9
  <2>2. 0 \in S
    BY <1>7, <2>1
  <2>3. ASSUME NEW n \in 0..(8 - 1), n \in S PROVE n + 1 \in S
    <3>1. n \in 0..7 /\ n + 1 \in 0..8
      OBVIOUS
    <3>2. B(h, n + 1) = W[n + 1]
      BY <1>6, <2>3, <3>1
    <3>. QED BY <2>1, <3>1, <3>2
  <2>. HIDE DEF S
  <2>4. \A n \in 0..8 : n \in S
    BY <2>2, <2>3, UpTo
  <2>5. 8 \in S
    BY <2>4
  <2>. QED BY <2>5 DEF S
<1>. HIDE DEF P
<1>10. PICK g : g = CHOOSE h : P(h)
  OBVIOUS
<1>11. P(g)
  BY <1>8, <1>10
<1>12. remove_all_mapping(F, t) = W[8]
  <2>1. remove_all_mapping(F, t) = g[8]
    BY <1>2, <1>10, Zenon
  <2>. QED BY <1>9, <1>11, <2>1
<1>13. Under(F, t, 8) = Under(F, t, 4)
  BY DEF Under
<1>. QED BY <1>3, <1>12, <1>13

-----------------------------------------------------------------------------
\* A page table with all that is below it.
Tree(F, l1) == {l1} \cup Under(F, l1, 4)

\* Its frames are in use.
LEMMA TreeIs ==
  ASSUME NEW F, Tidy(F), NEW l1 \in HeapFrame, F[l1].kind = "l1"
  PROVE  /\ l1 \in Tree(F, l1) /\ Tree(F, l1) \subseteq HeapFrame
         /\ \A f \in Tree(F, l1) : f = l1 \/ F[f].kind \in {"l2", "l3", "data"}
         /\ \A i \in 0..3 : Sub2(F, l1, i) \subseteq Tree(F, l1)
         /\ \A f \in Tree(F, l1) : f = l1 \/ \E i \in 0..3 : f \in Sub2(F, l1, i)
<1>1. ASSUME NEW i \in 0..3, NEW f \in Sub2(F, l1, i) PROVE f \in HeapFrame /\ F[f].kind \in {"l2", "l3", "data"}
  BY BelowL1
<1>2. \A i \in 0..3 : i < 4
  OBVIOUS
<1>. QED BY <1>1, <1>2 DEF Tree, Under

\* A slot is part of it exactly when what it leads to is.
LEMMA TreeClosed ==
  ASSUME NEW F, Tidy(F), NEW l1 \in HeapFrame, F[l1].kind = "l1", NEW T, T = Tree(F, l1),
         NEW t \in HeapFrame, NEW i, IsSlot(F, t, i)
  PROVE  t \in T <=> Target(F, t, i) \in T
<1>1. PICK f : f = Target(F, t, i)
  OBVIOUS
<1>2. /\ F[t].kind \in {"l1", "l2", "l3"} /\ i \in 0..7
      /\ f \in HeapFrame /\ (F[t].kind = "l1" => F[f].kind = "l2") /\ (F[t].kind = "l2" => F[f].kind = "l3")
      /\ (F[t].kind = "l3" => F[f].kind = "data")
  BY <1>1, SlotLeads DEF Tidy
<1>3. (F[t].kind = "l1" => i \in 0..3) /\ (F[t].kind # "l1" => i \in 0..1)
  BY <1>2, SlotIs DEF Entries
<1>4. ASSUME t \in T PROVE f \in T
  <2>1. CASE F[t].kind = "l1"
    <3>1. t = l1
      BY <1>4, <2>1, TreeIs
    <3>2. f \in Sub2(F, l1, i)
      BY <1>1, <3>1 DEF Sub2
    <3>. QED BY <1>3, <2>1, <3>2, TreeIs
  <2>2. CASE F[t].kind # "l1"
    <3>1. PICK n \in 0..3 : t \in Sub2(F, l1, n)
      BY <1>4, <2>2, TreeIs
    <3>2. PICK x \in HeapFrame : /\ x = Target(F, l1, n) /\ IsSlot(F, l1, n) /\ F[x].kind = "l2"
                                 /\ (F[t].kind = "l2" /\ t = x) \/ (\E k \in 0..1 : t \in Sub3(F, x, k))
      BY <3>1, BelowL1
    <3>3. \A k \in 0..1 : Sub3(F, x, k) \subseteq T
      <4>1. \A k \in 0..1 : Sub3(F, x, k) \subseteq Sub2(F, l1, n)
        BY <3>2 DEF Sub2
      <4>. QED BY <4>1, TreeIs
    <3>4. CASE t = x
      <4>1. f \in Sub3(F, x, i)
        BY <1>1, <3>4 DEF Sub3
      <4>2. i \in 0..1
        BY <1>3, <2>2
      <4>. QED BY <3>3, <4>1, <4>2
    <3>5. CASE \E k \in 0..1 : t \in Sub3(F, x, k)
      <4>1. PICK k \in 0..1 : t \in Sub3(F, x, k)
        BY <3>5
      <4>2. t = Target(F, x, k) /\ IsSlot(F, x, k)
        BY <1>2, <3>2, <4>1, BelowL2
      <4>3. f \in Child(F, t, i) /\ i \in 0..1
        BY <1>1, <1>3, <2>2 DEF Child
      <4>4. f \in Sub3(F, x, k)
        BY <4>2, <4>3 DEF Sub3, Pages
      <4>. QED BY <3>3, <4>4
    <3>. QED BY <3>2, <3>4, <3>5
  <2>. QED BY <2>1, <2>2
<1>5. ASSUME f \in T PROVE t \in T
  <2>1. PICK n \in 0..3 : f \in Sub2(F, l1, n)
    <3>1. F[f].kind # "l1"
      BY <1>2
    <3>. QED BY <1>5, <3>1, TreeIs
  <2>2. PICK x \in HeapFrame : /\ x = Target(F, l1, n) /\ IsSlot(F, l1, n) /\ F[x].kind = "l2"
                               /\ \/ F[f].kind = "l2" /\ f = x
                                  \/ F[f].kind \in {"l3", "data"} /\ \E k \in 0..1 : f \in Sub3(F, x, k)
    BY <2>1, BelowL1
  <2>3. x \in T /\ \A k \in 0..1 : Sub3(F, x, k) \subseteq T
    <3>1. x \in Sub2(F, l1, n) /\ \A k \in 0..1 : Sub3(F, x, k) \subseteq Sub2(F, l1, n)
      BY <2>2 DEF Sub2
    <3>. QED BY <3>1, TreeIs
  <2>4. CASE f = x
    <3>1. t = l1
      BY <1>1, <2>2, <2>4, OneOwner
    <3>. QED BY <3>1, TreeIs
  <2>5. CASE \E k \in 0..1 : f \in Sub3(F, x, k)
    <3>1. PICK k \in 0..1 : f \in Sub3(F, x, k)
      BY <2>5
    <3>2. PICK y \in HeapFrame : /\ y = Target(F, x, k) /\ IsSlot(F, x, k) /\ F[y].kind = "l3"
                                 /\ (f = y) \/ (\E m \in 0..1 : f \in Child(F, y, m))
      BY <2>2, <3>1, BelowL2
    <3>3. CASE f = y
      <4>1. t = x
        BY <1>1, <2>2, <3>2, <3>3, OneOwner
      <4>. QED BY <2>3, <4>1
    <3>4. CASE \E m \in 0..1 : f \in Child(F, y, m)
      <4>1. PICK m \in 0..1 : f \in Child(F, y, m)
        BY <3>4
      <4>2. IsSlot(F, y, m) /\ f = Target(F, y, m)
        BY <3>2, <4>1, BelowL3
      <4>3. t = y
        BY <1>1, <3>2, <4>2, OneOwner
      <4>4. y \in Sub3(F, x, k)
        BY <3>2 DEF Sub3
      <4>. QED BY <2>3, <4>3, <4>4
    <3>. QED BY <3>2, <3>3, <3>4
  <2>. QED BY <2>2, <2>4, <2>5
<1>. QED BY <1>1, <1>4, <1>5

\* The slots that are left.
LEMMA SlotsLeft ==
  ASSUME NEW F, Tidy(F), NEW l1 \in HeapFrame, F[l1].kind = "l1", NEW T, T = Tree(F, l1),
         NEW G, G = Freed(F, T), NEW t \in HeapFrame, NEW i
  PROVE  /\ IsSlot(G, t, i) <=> (IsSlot(F, t, i) /\ t \notin T)
         /\ t \notin T => G[t] = F[t]
         /\ IsSlot(G, t, i) => Target(G, t, i) = Target(F, t, i) /\ Target(F, t, i) \in HeapFrame \ T
<1>1. t \in AnyFrame
  BY HeapNumber
<1>2. G[t] = IF t \in T THEN Plain("free") ELSE F[t]
  BY <1>1 DEF Freed
<1>3. t \in T => ~IsSlot(G, t, i)
  BY <1>2 DEF IsSlot, Plain
<1>4. t \notin T => (IsSlot(G, t, i) <=> IsSlot(F, t, i)) /\ Target(G, t, i) = Target(F, t, i)
  BY <1>2 DEF IsSlot, Target
<1>5. IsSlot(F, t, i) => Target(F, t, i) \in HeapFrame
  BY SlotLeads DEF Tidy
<1>. QED BY <1>2, <1>3, <1>4, <1>5, TreeClosed

\* Its pages are referred to.
LEMMA TreePages ==
  ASSUME NEW F, Tidy(F), NEW l1 \in HeapFrame, F[l1].kind = "l1", NEW f \in Tree(F, l1), F[f].kind = "data"
  PROVE  \E t \in HeapFrame, i \in 0..7 : IsSlot(F, t, i) /\ Target(F, t, i) = f
<1>1. PICK n \in 0..3 : f \in Sub2(F, l1, n)
  BY TreeIs
<1>2. PICK x \in HeapFrame : F[x].kind = "l2" /\ \E k \in 0..1 : f \in Sub3(F, x, k)
  BY <1>1, BelowL1
<1>3. PICK k \in 0..1 : f \in Sub3(F, x, k)
  BY <1>2
<1>4. PICK y \in HeapFrame : F[y].kind = "l3" /\ \E m \in 0..1 : f \in Child(F, y, m)
  BY <1>2, <1>3, BelowL2
<1>5. PICK m \in 0..1 : f \in Child(F, y, m)
  BY <1>4
<1>. QED BY <1>4, <1>5, BelowL3

\* A page table goes with all that is below it, and nothing else does.
LEMMA TreeGone ==
  ASSUME NEW F, NEW V, NEW X, TablesSound(F, V, X), NEW v \in UserVtable, V[v] # 0,
         NEW T, T = Tree(F, V[v]), NEW G, G = Freed(F, T), NEW W, W = [V EXCEPT ![v] = 0]
  PROVE  /\ TablesSound(G, W, X)
         /\ \A u \in AnyVtable : u # v /\ V[u] # 0 =>
              \A p \in AddressSpace : Translate(G, V[u], p) = Translate(F, V[u], p)
<1>1. /\ FramesTyped(F) /\ BlocksAbove(F) /\ SlotsTyped(F) /\ SlotsUnique(F) /\ Rooted(F, V) /\ Owned(F, V, X) /\ Tidy(F)
  BY DEF TablesSound, Tidy
<1>2. PICK l1 \in HeapFrame : l1 = V[v] /\ F[l1].kind = "l1" /\ T = Tree(F, l1)
  BY <1>1 DEF Rooted
<1>3. /\ l1 \in T /\ T \subseteq HeapFrame /\ HeapFrame \subseteq AnyFrame
      /\ \A f \in T : f = l1 \/ F[f].kind \in {"l2", "l3", "data"}
  BY <1>1, <1>2, TreeIs, HeapNumber
<1>4. /\ kernel_l1_pagetable \in AnyFrame /\ kernel_l1_jump_pagetable \in AnyFrame
      /\ kernel_l1_pagetable \notin HeapFrame /\ kernel_l1_jump_pagetable \notin HeapFrame
  BY FramesAre DEF AnyFrame, kernel_l1_pagetable, kernel_l1_jump_pagetable
<1>5. \A f \in AnyFrame : G[f] = IF f \in T THEN Plain("free") ELSE F[f]
  BY DEF Freed
<1>6. FramesTyped(G)
  <2>1. G \in [AnyFrame -> {Plain("free"), Plain("data")} \cup TablesOf("l1") \cup TablesOf("l2") \cup TablesOf("l3")]
    BY <1>1 DEF FramesTyped, Freed
  <2>. QED BY <1>1, <1>3, <1>4, <1>5, <2>1 DEF FramesTyped
<1>7. BlocksAbove(G)
  <2>1. Plain("free").kind = "free"
    BY DEF Plain
  <2>2. \A t \in AnyFrame : G[t].kind = "l1" => G[t] = F[t]
    BY <1>5, <2>1
  <2>3. G[kernel_l1_pagetable] = F[kernel_l1_pagetable] /\ G[kernel_l1_jump_pagetable] = F[kernel_l1_jump_pagetable]
    BY <1>3, <1>4, <1>5
  <2>. QED BY <1>1, <2>2, <2>3 DEF BlocksAbove
<1>8. \A t \in HeapFrame, i \in 0..7 :
        /\ IsSlot(G, t, i) <=> (IsSlot(F, t, i) /\ t \notin T)
        /\ t \notin T => G[t] = F[t]
        /\ IsSlot(G, t, i) => Target(G, t, i) = Target(F, t, i) /\ Target(F, t, i) \in HeapFrame \ T
  BY <1>1, <1>2, SlotsLeft
<1>9. SlotsTyped(G)
  <2>. SUFFICES ASSUME NEW t \in HeapFrame, NEW i \in 0..7, IsSlot(G, t, i) PROVE SlotTyped(G, t, i)
    BY DEF SlotsTyped
  <2>1. /\ IsSlot(F, t, i) /\ G[t] = F[t] /\ Target(G, t, i) = Target(F, t, i)
        /\ Target(F, t, i) \in HeapFrame /\ G[Target(F, t, i)] = F[Target(F, t, i)]
    BY <1>3, <1>5, <1>8
  <2>2. SlotTyped(F, t, i)
    BY <1>1, <2>1 DEF SlotsTyped
  <2>. QED BY <2>1, <2>2 DEF SlotTyped
<1>10. SlotsUnique(G)
  BY <1>1, <1>8 DEF SlotsUnique
<1>11. /\ V \in [AnyVtable -> {0} \cup AnyFrame] /\ v \in AnyVtable /\ v # "kernel" /\ v # "jump" /\ UserVtable \subseteq AnyVtable
       /\ "kernel" \in AnyVtable /\ "jump" \in AnyVtable
  BY <1>1, MmuAssumption DEF Rooted, AnyVtable
<1>12. W \in [AnyVtable -> {0} \cup AnyFrame] /\ W[v] = 0 /\ \A u \in AnyVtable : u # v => W[u] = V[u]
  BY <1>11
<1>13. \A u \in AnyVtable : u # v /\ V[u] # 0 => V[u] \in AnyFrame \ T /\ F[V[u]].kind = "l1"
  <2>. SUFFICES ASSUME NEW u \in AnyVtable, u # v, V[u] # 0 PROVE V[u] \in AnyFrame \ T /\ F[V[u]].kind = "l1"
    OBVIOUS
  <2>1. V[u] \in AnyFrame /\ F[V[u]].kind = "l1" /\ V[u] # l1
    BY <1>1, <1>2, OwnRoots
  <2>. QED BY <1>3, <2>1
<1>14. Rooted(G, W)
  <2>1. W["kernel"] \in {0, kernel_l1_pagetable} /\ W["jump"] \in {0, kernel_l1_jump_pagetable}
    BY <1>1, <1>11, <1>12 DEF Rooted
  <2>2. ASSUME NEW u \in UserVtable, W[u] # 0 PROVE W[u] \in HeapFrame /\ G[W[u]].kind = "l1"
    <3>1. u # v /\ u \in AnyVtable /\ W[u] = V[u] /\ V[u] # 0
      BY <1>11, <1>12, <2>2
    <3>2. V[u] \in HeapFrame
      BY <1>1, <3>1 DEF Rooted
    <3>. QED BY <1>5, <1>13, <3>1, <3>2
  <2>3. ASSUME NEW x \in UserVtable, NEW y \in UserVtable, W[x] = W[y], W[x] # 0 PROVE x = y
    BY <1>1, <1>11, <1>12, <2>3 DEF Rooted
  <2>. QED BY <1>12, <2>1, <2>2, <2>3 DEF Rooted
<1>15. Owned(G, W, X)
  <2>1. ASSUME NEW f \in HeapFrame, G[f].kind # "free" PROVE f \notin T /\ G[f] = F[f]
    BY <1>3, <1>5, <2>1 DEF Plain
  <2>2. ASSUME NEW f \in HeapFrame \ X, G[f].kind = "l1" PROVE \E u \in UserVtable : W[u] = f
    <3>1. f \notin T /\ F[f].kind = "l1"
      BY <2>1, <2>2
    <3>2. PICK u \in UserVtable : V[u] = f
      BY <1>1, <3>1 DEF Owned
    <3>3. u # v
      BY <1>2, <1>3, <3>1, <3>2
    <3>. QED BY <1>11, <1>12, <3>2, <3>3
  <2>3. ASSUME NEW f \in HeapFrame \ X, G[f].kind \in {"l2", "l3", "data"}
        PROVE  \E t \in HeapFrame, i \in 0..7 : IsSlot(G, t, i) /\ Target(G, t, i) = f
    <3>1. f \notin T /\ F[f].kind \in {"l2", "l3", "data"}
      BY <2>1, <2>3
    <3>2. PICK t \in HeapFrame, i \in 0..7 : IsSlot(F, t, i) /\ Target(F, t, i) = f
      BY <1>1, <3>1 DEF Owned
    <3>3. t \notin T
      BY <1>1, <1>2, <3>1, <3>2, TreeClosed
    <3>. QED BY <1>8, <3>2, <3>3
  <2>4. ASSUME NEW f \in X PROVE f \in HeapFrame /\ G[f].kind = "data"
    <3>1. f \in HeapFrame /\ F[f].kind = "data"
      BY <1>1 DEF Owned
    <3>2. f \notin T
      <4>. SUFFICES ASSUME f \in T PROVE FALSE
        OBVIOUS
      <4>1. PICK t \in HeapFrame, i \in 0..7 : IsSlot(F, t, i) /\ Target(F, t, i) = f
        BY <1>1, <1>2, <3>1, TreePages
      <4>. QED BY <1>1, <4>1 DEF Owned
    <3>. QED BY <1>3, <1>5, <3>1, <3>2
  <2>5. \A t \in HeapFrame, i \in 0..7 : IsSlot(G, t, i) => Target(G, t, i) \notin X
    BY <1>1, <1>8 DEF Owned
  <2>. QED BY <2>2, <2>3, <2>4, <2>5 DEF Owned
<1>16. TablesSound(G, W, X)
  BY <1>6, <1>7, <1>9, <1>10, <1>14, <1>15 DEF TablesSound
<1>17. ASSUME NEW m \in AnyFrame, m \notin T, F[m].kind = "l1", NEW p \in AddressSpace
       PROVE  Translate(G, m, p) = Translate(F, m, p)
  <2>1. E1(F, m, p) \in Int /\ E1(G, m, p) = E1(F, m, p)
    <3>1. G[m] = F[m] /\ E1(F, m, p) \in Int
      BY <1>1, <1>5, <1>17, Path
    <3>. QED BY <3>1 DEF E1
  <2>2. ASSUME E1(F, m, p) < 0
        PROVE  \E x \in HeapFrame \ T : x = -E1(F, m, p) /\ F[x].kind = "l2" /\ E2(F, m, p) \in Int /\ E2(G, m, p) = E2(F, m, p)
    <3>1. PICK x, i : /\ x \in HeapFrame /\ x = -E1(F, m, p) /\ F[x].kind = "l2" /\ E2(F, m, p) \in Int
                        /\ m \in HeapFrame /\ IsSlot(F, m, i) /\ Target(F, m, i) = x
      BY <1>1, <1>17, <2>2, Path
    <3>2. x \notin T
      BY <1>1, <1>2, <1>17, <3>1, TreeClosed
    <3>3. G[x] = F[x]
      BY <1>3, <1>5, <3>1, <3>2
    <3>4. E2(G, m, p) = G[x].entry[OS_MMU_L2_ID(p)] /\ E2(F, m, p) = F[x].entry[OS_MMU_L2_ID(p)]
      BY <2>1, <3>1 DEF E2
    <3>. QED BY <3>1, <3>2, <3>3, <3>4
  <2>3. ASSUME E1(F, m, p) < 0, E2(F, m, p) < 0 PROVE E3(G, m, p) = E3(F, m, p) /\ E3(F, m, p) \in Int
    <3>1. PICK x \in HeapFrame \ T : x = -E1(F, m, p) /\ E2(G, m, p) = E2(F, m, p)
      BY <2>2, <2>3
    <3>2. E2(F, m, p) # 0
      BY <2>3
    <3>3. PICK y, i : /\ y \in HeapFrame /\ y = -E2(F, m, p) /\ F[y].kind = "l3" /\ E3(F, m, p) \in Int
                        /\ IsSlot(F, x, i) /\ Target(F, x, i) = y
      BY <1>1, <1>17, <2>3, <3>1, <3>2, Path
    <3>4. y \notin T
      BY <1>1, <1>2, <3>1, <3>3, TreeClosed
    <3>5. G[y] = F[y]
      BY <1>3, <1>5, <3>3, <3>4
    <3>6. E3(G, m, p) = G[y].entry[OS_MMU_L3_ID(p)] /\ E3(F, m, p) = F[y].entry[OS_MMU_L3_ID(p)]
      BY <3>1, <3>3 DEF E3
    <3>. QED BY <3>3, <3>5, <3>6
  <2>. QED BY <2>1, <2>2, <2>3, SameWay
<1>. QED BY <1>13, <1>16, <1>17

\* So it is with os_mmu_vtable_remove.
LEMMA RemoveKept ==
  ASSUME MmuSound, NEW v \in UserVtable, os_mmu_vtable_remove(v)
  PROVE  MmuSound'
<1>1. /\ Ready /\ vtable[v] # 0
      /\ frames' = os_memory_free_frame(remove_all_mapping(frames, vtable[v]), vtable[v])
      /\ vtable' = [vtable EXCEPT ![v] = 0]
      /\ intended' = [intended EXCEPT ![v] = [p \in {} |-> 0]]
      /\ os_mmu_preinitialized' = os_mmu_preinitialized
      /\ leaked' = leaked /\ strayed' = strayed
  BY DEF os_mmu_vtable_remove
<1>2. PICK F, V : F = frames /\ V = vtable /\ TablesSound(F, V, leaked) /\ Exact(F, V, intended) /\ Stages
  BY DEF MmuSound
<1>3. FramesTyped(F) /\ BlocksAbove(F) /\ Tidy(F) /\ Rooted(F, V)
  BY <1>2 DEF TablesSound, Tidy
<1>4. PICK l1 \in HeapFrame : l1 = V[v] /\ F[l1].kind = "l1"
  BY <1>1, <1>2, <1>3 DEF Rooted
<1>5. PICK A, T, G, W : A = Under(F, l1, 4) /\ T = Tree(F, l1) /\ G = Freed(F, T) /\ W = [V EXCEPT ![v] = 0]
  OBVIOUS
<1>6. frames' = G
  <2>1. remove_all_mapping(F, l1) = Freed(F, A)
    BY <1>3, <1>4, <1>5, AllFreed
  <2>2. l1 \notin A
    <3>1. ASSUME NEW i \in 0..3, l1 \in Sub2(F, l1, i) PROVE FALSE
      <4>1. F[l1].kind \in {"l2", "l3", "data"}
        BY <1>3, <1>4, <3>1, BelowL1
      <4>. QED BY <1>4, <4>1
    <3>. QED BY <1>5, <3>1 DEF Under
  <2>3. os_memory_free_frame(Freed(F, A), l1) = Freed(F, T)
    <3>1. T = A \cup {l1}
      BY <1>5 DEF Tree
    <3>2. F[l1].kind # "free"
      BY <1>4
    <3>. QED BY <1>3, <2>2, <3>1, <3>2, FreedMore
  <2>. QED BY <1>1, <1>2, <1>4, <1>5, <2>1, <2>3
<1>7. /\ TablesSound(G, W, leaked)
      /\ \A u \in AnyVtable : u # v /\ V[u] # 0 =>
           \A p \in AddressSpace : Translate(G, V[u], p) = Translate(F, V[u], p)
  <2>1. T = Tree(F, V[v]) /\ G = Freed(F, T) /\ W = [V EXCEPT ![v] = 0] /\ V[v] # 0
    BY <1>1, <1>2, <1>4, <1>5
  <2>2. TablesSound(F, V, leaked)
    BY <1>2
  <2>3. TablesSound(G, W, leaked)
    BY <2>1, <2>2, TreeGone
  <2>4. \A u \in AnyVtable : u # v /\ V[u] # 0 =>
          \A p \in AddressSpace : Translate(G, V[u], p) = Translate(F, V[u], p)
    BY <2>1, <2>2, TreeGone
  <2>. QED BY <2>3, <2>4
<1>8. /\ V \in [AnyVtable -> {0} \cup AnyFrame] /\ v \in AnyVtable /\ v # "kernel" /\ v # "jump"
      /\ "kernel" \in AnyVtable /\ "jump" \in AnyVtable
  BY <1>3, MmuAssumption DEF Rooted, AnyVtable
<1>9. W[v] = 0 /\ \A u \in AnyVtable : u # v => W[u] = V[u]
  BY <1>5, <1>8
<1>10. /\ DOMAIN intended' = AnyVtable /\ DOMAIN intended'[v] = {}
       /\ \A u \in AnyVtable : u # v => intended'[u] = intended[u]
  BY <1>1, <1>2, <1>8 DEF Exact
<1>11. Exact(G, W, intended')
  <2>1. ASSUME NEW u \in AnyVtable
        PROVE  /\ W[u] = 0 => DOMAIN intended'[u] = {}
               /\ DOMAIN intended'[u] \subseteq AddressSpace
               /\ W[u] # 0 => \A p \in AddressSpace : Translate(G, W[u], p) = IF p \in DOMAIN intended'[u] THEN intended'[u][p] ELSE -1
    <3>1. CASE u = v
      BY <1>9, <1>10, <3>1
    <3>2. CASE u # v
      BY <1>2, <1>7, <1>9, <1>10, <3>2 DEF Exact
    <3>. QED BY <3>1, <3>2
  <2>. QED BY <1>10, <2>1 DEF Exact
<1>12. vtable' = W
  BY <1>1, <1>2, <1>5
<1>13. Stages'
  <2>1. vtable["kernel"] # 0
    BY <1>1, <1>2 DEF Stages, Ready
  <2>2. vtable'["kernel"] = vtable["kernel"] /\ vtable'["jump"] = vtable["jump"]
    BY <1>2, <1>8, <1>9, <1>12
  <2>. QED BY <1>1, <1>2, <2>1, <2>2 DEF Stages
<1>. QED BY <1>1, <1>6, <1>7, <1>11, <1>12, <1>13 DEF MmuSound

-----------------------------------------------------------------------------
\* A segment of more than one page maps frames that belong to others, and takes free ones.
\* What it writes stays in the frames T of its own page table and of the free ones: from l1
\* and from the tables below it nothing leads out of T but pages.
Fits(G, T, e, kind) == e < 0 => -e \in T /\ G[-e].kind = kind
Leads(G, T, t, i, kind) == Fits(G, T, G[t].entry[i], kind)

\* An entry of user space that leads to a table of the given kind.
Below(G, l1, t, i, kind) ==
  (t = l1 /\ i \in 0..3 /\ kind = "l2") \/ (G[t].kind = "l2" /\ i \in 0..1 /\ kind = "l3")

Confined(F, G, T, l1) ==
  /\ T \subseteq HeapFrame /\ l1 \in T /\ FreeFrames(F) \subseteq T
  /\ FramesTyped(G) /\ \A u \in AnyFrame : u \notin T => G[u] = F[u]
  /\ G[l1].kind = "l1" /\ \A i \in 4..7 : G[l1].entry[i] = F[l1].entry[i]
  /\ \A i \in 0..3 : Leads(G, T, l1, i, "l2")
  /\ \A t \in T, i \in 0..1 : G[t].kind = "l2" => Leads(G, T, t, i, "l3")

\* No frame in use becomes anything else.
SameKinds(G, H) == \A u \in AnyFrame : G[u].kind # "free" => H[u].kind = G[u].kind

\* One entry of a table is written: a page or the table it should lead to.
LEMMA StrayEntry ==
  ASSUME NEW F, NEW G, NEW T, NEW l1, Confined(F, G, T, l1), NEW t \in T, NEW i, NEW e \in Int,
         NEW kind, Below(G, l1, t, i, kind), Fits(G, T, e, kind)
  PROVE  \E H : /\ H = Put(G, t, i, e)
                /\ Confined(F, H, T, l1) /\ SameKinds(G, H) /\ H[t].entry[i] = e
<1>1. /\ T \subseteq HeapFrame /\ l1 \in T /\ FreeFrames(F) \subseteq T /\ FramesTyped(G)
      /\ \A u \in AnyFrame : u \notin T => G[u] = F[u]
      /\ G[l1].kind = "l1" /\ \A j \in 4..7 : G[l1].entry[j] = F[l1].entry[j]
      /\ \A j \in 0..3 : Leads(G, T, l1, j, "l2")
      /\ \A u \in T, j \in 0..1 : G[u].kind = "l2" => Leads(G, T, u, j, "l3")
  BY DEF Confined
<1>2. HeapFrame \subseteq AnyFrame /\ t \in AnyFrame
  BY <1>1 DEF AnyFrame
<1>3. /\ G[t].kind \in {"l1", "l2", "l3"} /\ i \in Entries(G[t].kind)
      /\ G[t].kind = "l1" => t = l1 /\ i \in 0..3 /\ kind = "l2"
      /\ G[t].kind = "l2" => t # l1 /\ i \in 0..1 /\ kind = "l3"
      /\ G[t].kind \in {"l1", "l2"}
  BY <1>1 DEF Entries, Below
<1>4. PICK H : /\ H = [G EXCEPT ![t].entry[i] = e]
               /\ FramesTyped(H) /\ EntrySet(G, H, t, i, e)
               /\ \A u \in AnyFrame : u # t => H[u] = G[u]
  BY <1>1, <1>2, <1>3, PutEntry
<1>5. /\ H[t].kind = G[t].kind /\ H[t].entry[i] = e
      /\ \A j \in Entries(G[t].kind) : j # i => H[t].entry[j] = G[t].entry[j]
  BY <1>4 DEF EntrySet
<1>6. \A u \in AnyFrame : H[u].kind = G[u].kind
  BY <1>4, <1>5
<1>7. SameKinds(G, H)
  BY <1>6 DEF SameKinds
<1>8. ASSUME NEW u \in T, NEW j, NEW k, Leads(G, T, u, j, k), H[u].entry[j] = G[u].entry[j]
      PROVE  Leads(H, T, u, j, k)
  BY <1>1, <1>2, <1>6, <1>8 DEF Leads, Fits
<1>9. Leads(H, T, t, i, kind)
  BY <1>1, <1>2, <1>5, <1>6 DEF Leads, Fits
<1>10. \A j \in 0..3 : Leads(H, T, l1, j, "l2")
  <2>. SUFFICES ASSUME NEW j \in 0..3 PROVE Leads(H, T, l1, j, "l2")
    OBVIOUS
  <2>1. CASE t = l1 /\ j = i
    BY <1>1, <1>3, <1>9, <2>1
  <2>2. CASE t # l1
    BY <1>1, <1>2, <1>4, <1>8, <2>2
  <2>3. CASE t = l1 /\ j # i
    <3>1. j \in Entries(G[t].kind)
      BY <1>1, <2>3 DEF Entries
    <3>. QED BY <1>1, <1>5, <1>8, <2>3, <3>1
  <2>. QED BY <2>1, <2>2, <2>3
<1>11. ASSUME NEW u \in T, NEW j \in 0..1, H[u].kind = "l2" PROVE Leads(H, T, u, j, "l3")
  <2>1. G[u].kind = "l2" /\ Leads(G, T, u, j, "l3")
    BY <1>1, <1>2, <1>6, <1>11
  <2>2. CASE u = t /\ j = i
    BY <1>3, <1>9, <2>1, <2>2
  <2>3. CASE u # t
    BY <1>1, <1>2, <1>4, <1>8, <2>1, <2>3
  <2>4. CASE u = t /\ j # i
    <3>1. j \in Entries(G[t].kind)
      BY <2>1, <2>4 DEF Entries
    <3>. QED BY <1>5, <1>8, <2>1, <2>4, <3>1
  <2>. QED BY <2>2, <2>3, <2>4
<1>12. \A j \in 4..7 : H[l1].entry[j] = F[l1].entry[j]
  <2>1. CASE t # l1
    BY <1>1, <1>2, <1>4, <2>1
  <2>2. CASE t = l1
    <3>1. \A j \in 4..7 : j # i /\ j \in Entries(G[t].kind)
      BY <1>1, <1>3, <2>2 DEF Entries
    <3>. QED BY <1>1, <1>5, <2>2, <3>1
  <2>. QED BY <2>1, <2>2
<1>13. Confined(F, H, T, l1)
  BY <1>1, <1>2, <1>4, <1>6, <1>10, <1>11, <1>12 DEF Confined
<1>14. H = Put(G, t, i, e)
  BY <1>4, Zenon DEF Put
<1>. QED BY <1>5, <1>7, <1>13, <1>14

\* A frame that is no table becomes a page, an empty table or free.
LEMMA StrayFrame ==
  ASSUME NEW F, NEW G, NEW T, NEW l1, Confined(F, G, T, l1), NEW n \in T, G[n].kind \in {"free", "data"},
         NEW c \in {Plain("free"), Plain("data"), EmptyTable("l2"), EmptyTable("l3")}
  PROVE  \E H : /\ H = [G EXCEPT ![n] = c]
                /\ Confined(F, H, T, l1) /\ H[n] = c /\ \A u \in AnyFrame : u # n => H[u] = G[u]
<1>1. /\ T \subseteq HeapFrame /\ l1 \in T /\ FreeFrames(F) \subseteq T /\ FramesTyped(G)
      /\ \A u \in AnyFrame : u \notin T => G[u] = F[u]
      /\ G[l1].kind = "l1" /\ \A j \in 4..7 : G[l1].entry[j] = F[l1].entry[j]
      /\ \A j \in 0..3 : Leads(G, T, l1, j, "l2")
      /\ \A u \in T, j \in 0..1 : G[u].kind = "l2" => Leads(G, T, u, j, "l3")
  BY DEF Confined
<1>2. HeapFrame \subseteq AnyFrame /\ n \in HeapFrame /\ l1 # n
  BY <1>1 DEF AnyFrame
<1>3. PICK H : /\ H = [G EXCEPT ![n] = c]
               /\ FramesTyped(H) /\ H[n] = c /\ \A u \in AnyFrame : u # n => H[u] = G[u]
  <2>1. c \in FreshFrame
    BY DEF FreshFrame
  <2>. QED BY <1>1, <1>2, <2>1, PutFrame
<1>4. c.kind = "l2" => \A j \in 0..1 : c.entry[j] = 0
  <2>1. EmptyTable("l2").kind = "l2" /\ \A j \in 0..1 : EmptyTable("l2").entry[j] = 0
    BY DEF EmptyTable, Entries
  <2>2. Plain("free").kind = "free" /\ Plain("data").kind = "data" /\ EmptyTable("l3").kind = "l3"
    BY DEF EmptyTable, Plain
  <2>. QED BY <2>1, <2>2
<1>5. ASSUME NEW u \in T, u # n, NEW j, NEW k \in {"l2", "l3"}, Leads(G, T, u, j, k)
      PROVE  Leads(H, T, u, j, k)
  <2>1. H[u] = G[u]
    BY <1>1, <1>2, <1>3, <1>5
  <2>2. \A x \in T : G[x].kind = k => x # n /\ H[x] = G[x]
    BY <1>1, <1>2, <1>3
  <2>. QED BY <1>5, <2>1, <2>2 DEF Leads, Fits
<1>6. \A j \in 0..3 : Leads(H, T, l1, j, "l2")
  BY <1>1, <1>2, <1>5
<1>7. ASSUME NEW u \in T, NEW j \in 0..1, H[u].kind = "l2" PROVE Leads(H, T, u, j, "l3")
  <2>1. CASE u = n
    BY <1>3, <1>4, <1>7, <2>1 DEF Leads, Fits
  <2>2. CASE u # n
    <3>1. G[u].kind = "l2"
      BY <1>1, <1>2, <1>3, <1>7, <2>2
    <3>. QED BY <1>1, <1>5, <2>2, <3>1
  <2>. QED BY <2>1, <2>2
<1>8. H[l1] = G[l1] /\ \A u \in AnyFrame : u \notin T => H[u] = F[u]
  BY <1>1, <1>2, <1>3
<1>9. Confined(F, H, T, l1)
  BY <1>1, <1>3, <1>6, <1>7, <1>8 DEF Confined
<1>. QED BY <1>3, <1>9

\* The free frames stay in T.
LEMMA StrayFree ==
  ASSUME NEW F, NEW G, NEW T, NEW l1, Confined(F, G, T, l1), FreeFrames(G) # {}, NEW n, n = NextFrame(G)
  PROVE  n \in T /\ G[n].kind = "free" /\ n \in HeapFrame
<1>1. n \in HeapFrame /\ G[n].kind = "free"
  BY NextFrameIs
<1>2. n \in AnyFrame
  BY <1>1 DEF AnyFrame
<1>3. n \notin T => n \in FreeFrames(F)
  BY <1>1, <1>2 DEF Confined, FreeFrames
<1>. QED BY <1>1, <1>3 DEF Confined

\* The table an entry leads to is there, is made, or none is made.
LEMMA StrayTable ==
  ASSUME NEW F, NEW G, NEW T, NEW l1, Confined(F, G, T, l1), NEW t \in T, NEW i, NEW kind, Below(G, l1, t, i, kind),
         NEW va, NEW pa, NEW size
  PROVE  \E H, err : /\ NextTable(Loop(G, va, pa, size, "ok"), t, i, kind) = Loop(H, va, pa, size, err)
                     /\ Confined(F, H, T, l1) /\ SameKinds(G, H)
                     /\ err = "ok" => -H[t].entry[i] \in T /\ H[-H[t].entry[i]].kind = kind
<1>1. /\ T \subseteq HeapFrame /\ FramesTyped(G) /\ HeapFrame \subseteq AnyFrame /\ t \in AnyFrame
      /\ G[t].kind \in {"l1", "l2", "l3"} /\ i \in Entries(G[t].kind) /\ kind \in {"l2", "l3"}
      /\ Leads(G, T, t, i, kind)
  BY DEF Confined, AnyFrame, Entries, Below
<1>2. G[t].entry[i] \in Int
  BY <1>1, FrameKinds, ZenonT(30)
<1>3. PICK e \in Int : e = G[t].entry[i]
  BY <1>2
<1>4. SameKinds(G, G)
  BY DEF SameKinds
<1>5. PICK w : w = Loop(G, va, pa, size, "ok")
  OBVIOUS
<1>6. w.F = G
  BY <1>5, LoopIs
<1>7. CASE e < 0
  <2>1. NextTable(w, t, i, kind) = w
    BY <1>3, <1>5, <1>7, NextTableThere
  <2>2. -G[t].entry[i] \in T /\ G[-G[t].entry[i]].kind = kind
    BY <1>1, <1>3, <1>7 DEF Leads, Fits
  <2>. QED BY <1>4, <1>5, <2>1, <2>2
<1>8. CASE e > 0
  <2>1. ~__is_pagetable(w.F[t].entry[i]) /\ ~__is_null_entry(w.F[t].entry[i])
    BY <1>3, <1>6, <1>8 DEF __is_pagetable, __is_null_entry
  <2>2. NextTable(w, t, i, kind) = [w EXCEPT !.err = "EPERM"]
    BY <2>1, Zenon DEF NextTable
  <2>3. NextTable(w, t, i, kind) = Loop(G, va, pa, size, "EPERM")
    BY <1>5, <2>2 DEF Loop
  <2>4. "EPERM" # "ok"
    OBVIOUS
  <2>. QED BY <1>4, <1>5, <2>3, <2>4
<1>9. CASE e = 0 /\ FreeFrames(G) = {}
  <2>1. NextTable(w, t, i, kind) = Loop(G, va, pa, size, "fault")
    BY <1>3, <1>5, <1>9, NextTableFails
  <2>2. "fault" # "ok"
    OBVIOUS
  <2>. QED BY <1>4, <1>5, <2>1, <2>2
<1>10. CASE e = 0 /\ FreeFrames(G) # {}
  <2>1. PICK n \in T : n = NextFrame(G) /\ G[n].kind = "free" /\ n \in HeapFrame
    BY <1>10, StrayFree
  <2>2. NextTable(w, t, i, kind) = Loop([[G EXCEPT ![n] = EmptyTable(kind)] EXCEPT ![t].entry[i] = -n], va, pa, size, "ok")
    <3>1. G[t].entry[i] = 0 /\ FreeFrames(G) # {} /\ n = NextFrame(G)
      BY <1>3, <1>10, <2>1
    <3>. QED BY <1>5, <3>1, NextTableMade
  <2>3. PICK c : c = EmptyTable(kind)
    OBVIOUS
  <2>4. c \in {Plain("free"), Plain("data"), EmptyTable("l2"), EmptyTable("l3")} /\ c.kind = kind
    BY <1>1, <2>3 DEF EmptyTable
  <2>5. PICK K : /\ K = [G EXCEPT ![n] = c]
                 /\ Confined(F, K, T, l1) /\ K[n] = c /\ \A u \in AnyFrame : u # n => K[u] = G[u]
    <3>. HIDE <2>3
    <3>. QED BY <2>1, <2>4, StrayFrame
  <2>6. t # n /\ K[t] = G[t] /\ -n \in Int /\ -(-n) = n
    BY <1>1, <2>1, <2>5, HeapNumber
  <2>7. PICK H : /\ H = Put(K, t, i, -n)
                 /\ Confined(F, H, T, l1) /\ SameKinds(K, H) /\ H[t].entry[i] = -n
    <3>1. Below(K, l1, t, i, kind)
      BY <2>6 DEF Below
    <3>2. PICK m \in Int : m = -n /\ Fits(K, T, m, kind)
      BY <2>4, <2>5, <2>6 DEF Fits
    <3>3. \E H : H = Put(K, t, i, m) /\ Confined(F, H, T, l1) /\ SameKinds(K, H) /\ H[t].entry[i] = m
      BY <2>5, <3>1, <3>2, StrayEntry
    <3>. QED BY <3>2, <3>3
  <2>8. NextTable(w, t, i, kind) = Loop(H, va, pa, size, "ok")
    <3>1. H = [[G EXCEPT ![n] = EmptyTable(kind)] EXCEPT ![t].entry[i] = -n]
      BY <2>3, <2>5, <2>7, Zenon DEF Put
    <3>. QED BY <2>2, <3>1
  <2>9. SameKinds(G, H)
    BY <1>1, <2>1, <2>5, <2>7 DEF SameKinds
  <2>10. -H[t].entry[i] \in T /\ H[-H[t].entry[i]].kind = kind
    <3>1. -H[t].entry[i] = n /\ n \in AnyFrame
      BY <1>1, <2>1, <2>6, <2>7
    <3>2. K[n].kind = kind /\ kind # "free"
      BY <1>1, <2>4, <2>5
    <3>3. H[n].kind = kind
      BY <2>7, <3>1, <3>2 DEF SameKinds
    <3>. QED BY <2>1, <3>1, <3>3
  <2>. QED BY <1>5, <2>7, <2>8, <2>9, <2>10
<1>. QED BY <1>3, <1>7, <1>8, <1>9, <1>10

\* The last level: pages are written to some entries of a table.
LEMMA StrayLast ==
  ASSUME NEW F, NEW G, NEW T, NEW l1, Confined(F, G, T, l1), NEW t \in T, G[t].kind = "l3",
         NEW va \in Int, NEW pa \in Int, NEW size, NEW err, NEW n
  PROVE  \E H : /\ create_l3(Loop(G, va, pa, size, err), t, n) = Loop(H, va, pa, size, err)
                /\ Confined(F, H, T, l1) /\ SameKinds(G, H)
<1>1. /\ T \subseteq HeapFrame /\ l1 \in T /\ FreeFrames(F) \subseteq T /\ FramesTyped(G)
      /\ \A u \in AnyFrame : u \notin T => G[u] = F[u]
      /\ G[l1].kind = "l1" /\ \A j \in 4..7 : G[l1].entry[j] = F[l1].entry[j]
      /\ \A j \in 0..3 : Leads(G, T, l1, j, "l2")
      /\ \A u \in T, j \in 0..1 : G[u].kind = "l2" => Leads(G, T, u, j, "l3")
  BY DEF Confined
<1>2. HeapFrame \subseteq AnyFrame /\ t \in AnyFrame /\ t # l1
  BY <1>1 DEF AnyFrame
<1>3. G[t] = [kind |-> "l3", entry |-> G[t].entry] /\ G[t].entry \in [0..1 -> Int]
  BY <1>1, <1>2, FrameKinds DEF Entries
<1>4. PICK x : x = [id \in 0..1 |-> IF id \in OS_MMU_L3_ID(va)..OS_MMU_L3_ID(va + n - 1)
                                  THEN Leaf(pa + id - OS_MMU_L3_ID(va)) ELSE G[t].entry[id]]
  OBVIOUS
<1>5. x \in [0..1 -> Int]
  <2>1. OS_MMU_L3_ID(va) \in Int
    BY DEF OS_MMU_L3_ID
  <2>2. \A id \in 0..1 : Leaf(pa + id - OS_MMU_L3_ID(va)) \in Int
    BY <2>1 DEF Leaf
  <2>. QED BY <1>3, <1>4, <2>2
<1>6. PICK c : c = [kind |-> "l3", entry |-> x]
  OBVIOUS
<1>7. PICK H : H = [G EXCEPT ![t] = c]
  OBVIOUS
<1>8. /\ G \in [AnyFrame -> {Plain("free"), Plain("data")} \cup TablesOf("l1") \cup TablesOf("l2") \cup TablesOf("l3")]
      /\ G[kernel_l1_pagetable].kind = "l1" /\ G[kernel_l1_jump_pagetable].kind = "l1"
      /\ kernel_l1_pagetable \in AnyFrame /\ kernel_l1_jump_pagetable \in AnyFrame
  BY <1>1 DEF FramesTyped, AnyFrame
<1>9. H[t] = c /\ c.kind = "l3" /\ \A u \in AnyFrame : u # t => H[u] = G[u]
  BY <1>2, <1>6, <1>7, <1>8
<1>10. FramesTyped(H)
  <2>1. c \in TablesOf("l3")
    BY <1>5, <1>6 DEF TablesOf, Entries
  <2>2. H \in [AnyFrame -> {Plain("free"), Plain("data")} \cup TablesOf("l1") \cup TablesOf("l2") \cup TablesOf("l3")]
    BY <1>7, <1>8, <2>1
  <2>. QED BY <1>8, <1>9, <2>2 DEF FramesTyped
<1>11. \A u \in AnyFrame : H[u].kind = G[u].kind
  BY <1>9
<1>12. ASSUME NEW u \in T, u # t, NEW j, NEW k, Leads(G, T, u, j, k) PROVE Leads(H, T, u, j, k)
  <2>1. H[u] = G[u]
    BY <1>1, <1>2, <1>9, <1>12
  <2>. QED BY <1>1, <1>2, <1>11, <1>12, <2>1 DEF Leads, Fits
<1>13. Confined(F, H, T, l1)
  <2>1. \A j \in 0..3 : Leads(H, T, l1, j, "l2")
    BY <1>1, <1>2, <1>12
  <2>2. ASSUME NEW u \in T, NEW j \in 0..1, H[u].kind = "l2" PROVE Leads(H, T, u, j, "l3")
    <3>1. u # t /\ G[u].kind = "l2"
      BY <1>1, <1>2, <1>9, <1>11, <2>2
    <3>. QED BY <1>1, <1>12, <3>1
  <2>3. H[l1] = G[l1] /\ \A u \in AnyFrame : u \notin T => H[u] = F[u]
    BY <1>1, <1>2, <1>9
  <2>. QED BY <1>1, <1>10, <2>1, <2>2, <2>3 DEF Confined
<1>14. create_l3(Loop(G, va, pa, size, err), t, n) = Loop(H, va, pa, size, err)
  <2>1. PICK w : w = Loop(G, va, pa, size, err)
    OBVIOUS
  <2>2. w.F = G /\ w.va = va /\ w.pa = pa
    BY <2>1, LoopIs
  <2>3. create_l3(w, t, n) = [w EXCEPT !.F[t].entry = [id \in 0..1 |->
           IF id \in OS_MMU_L3_ID(w.va)..OS_MMU_L3_ID(w.va + n - 1) THEN Leaf(w.pa + id - OS_MMU_L3_ID(w.va)) ELSE @[id]]]
    BY DEF create_l3
  <2>4. create_l3(w, t, n) = [w EXCEPT !.F[t].entry = x]
    BY <1>4, <2>2, <2>3
  <2>5. [G EXCEPT ![t].entry = x] = H
    <3>1. [G EXCEPT ![t].entry = x] = [G EXCEPT ![t] = [G[t] EXCEPT !.entry = x]]
      OBVIOUS
    <3>2. [G[t] EXCEPT !.entry = x] = c
      BY <1>3, <1>6
    <3>. QED BY <1>7, <3>1, <3>2
  <2>. QED BY <2>1, <2>4, <2>5 DEF Loop
<1>15. SameKinds(G, H)
  BY <1>11 DEF SameKinds
<1>. QED BY <1>13, <1>14, <1>15

\* A part of a range.
LEMMA NextSizeIs ==
  ASSUME NEW w, NEW va \in Int, w.va = va, NEW va_end \in Int, NEW same, NEW block \in {2, 4}
  PROVE  /\ NextSize(w, va_end, same, block) \in Int
         /\ va <= va_end + 1 => NextSize(w, va_end, same, block) \in Nat
<1>1. va % block \in Nat /\ va % block <= block
  <2>1. va % 2 \in 0..1 /\ va % 4 \in 0..3
    OBVIOUS
  <2>. QED BY <2>1
<1>. QED BY <1>1 DEF NextSize

\* The loops go on behind blocks.
LEMMA AdvanceIs ==
  ASSUME NEW F, NEW va, NEW pa, NEW size, NEW err, NEW b
  PROVE  Advance(Loop(F, va, pa, size, err), b) = Loop(F, va + b, pa + b, size - b, err)
<1>1. PICK v : v = Loop(F, va, pa, size, err)
  OBVIOUS
<1>2. Advance(v, b) = [v EXCEPT !.va = @ + b, !.pa = @ + b, !.size = @ - b]
  BY Zenon DEF Advance
<1>. QED BY <1>1, <1>2 DEF Loop

\* Blocks are pages.
LEMMA StrayBlock ==
  ASSUME NEW F, NEW G, NEW T, NEW l1, Confined(F, G, T, l1), NEW t \in T, NEW i,
         NEW kind, Below(G, l1, t, i, kind), NEW pa \in Nat
  PROVE  Confined(F, Put(G, t, i, Leaf(pa)), T, l1) /\ SameKinds(G, Put(G, t, i, Leaf(pa)))
<1>1. PICK e \in Int : e = Leaf(pa) /\ Fits(G, T, e, kind)
  BY DEF Leaf, Fits
<1>2. \E H : H = Put(G, t, i, e) /\ Confined(F, H, T, l1) /\ SameKinds(G, H) /\ H[t].entry[i] = e
  BY <1>1, StrayEntry
<1>. QED BY <1>1, <1>2

\* Such changes add up.
LEMMA KindsOn ==
  ASSUME NEW F, NEW G, NEW H, SameKinds(F, G), SameKinds(G, H)
  PROVE  SameKinds(F, H)
  BY DEF SameKinds

\* What is left behind n pages.
Passed(F, G, T, l1, va, pa, size, n, r) ==
  \E H, err : /\ r = Loop(H, va + n, pa + n, size - n, err)
              /\ Confined(F, H, T, l1) /\ SameKinds(G, H)

\* So it is behind one round.
PassedSome(F, G, T, l1, va, pa, size, va_end, r) ==
  \E m \in Int : Passed(F, G, T, l1, va, pa, size, m, r) /\ (va <= va_end + 1 => m \in Nat)

\* One round on the second level.
LEMMA StrayRoundL2 ==
  ASSUME NEW F, NEW G, NEW T, NEW l1, Confined(F, G, T, l1), NEW t \in T, G[t].kind = "l2", NEW j \in 0..1,
         NEW va \in Nat, NEW pa \in Nat, NEW size \in Int, NEW va_end \in Int
  PROVE  PassedSome(F, G, T, l1, va, pa, size, va_end, L2Round(Loop(G, va, pa, size, "ok"), t, j, va_end))
<1>1. PICK w : w = Loop(G, va, pa, size, "ok")
  OBVIOUS
<1>2. w.F = G /\ w.va = va /\ w.pa = pa /\ w.size = size /\ w.err = "ok"
  BY <1>1, LoopIs
<1>3. PICK n : n = NextSize(w, va_end, OS_MMU_L2_ID(w.va) = OS_MMU_L2_ID(va_end), OS_MMU_L2_SIZE)
  OBVIOUS
<1>4. n \in Int /\ (va <= va_end + 1 => n \in Nat)
  <2>1. PICK same : same = (OS_MMU_L2_ID(w.va) = OS_MMU_L2_ID(va_end))
    OBVIOUS
  <2>2. n = NextSize(w, va_end, same, 2)
    BY <1>3, <2>1 DEF OS_MMU_L2_SIZE
  <2>. QED BY <1>2, <2>2, NextSizeIs
<1>5. Below(G, l1, t, j, "l3")
  BY DEF Below
<1>6. CASE Big(w, OS_MMU_L2_SIZE)
  <2>1. L2Round(w, t, j, va_end) = Advance([w EXCEPT !.F[t].entry[j] = Leaf(w.pa)], OS_MMU_L2_SIZE)
    BY <1>2, <1>6, Zenon DEF L2Round
  <2>2. L2Round(w, t, j, va_end) = Loop(Put(G, t, j, Leaf(pa)), va + 2, pa + 2, size - 2, "ok")
    <3>1. PICK x : x = [w EXCEPT !.F[t].entry[j] = Leaf(pa)]
      OBVIOUS
    <3>2. L2Round(w, t, j, va_end) = Advance(x, 2)
      BY <1>2, <2>1, <3>1, Zenon DEF OS_MMU_L2_SIZE
    <3>3. PICK e, K : e = Leaf(pa) /\ K = Put(G, t, j, e)
      OBVIOUS
    <3>4. x = Loop(K, va, pa, size, "ok")
      <4>1. x = [w EXCEPT !.F = K]
        BY <1>1, <3>1, <3>3 DEF Loop, Put
      <4>. QED BY <1>1, <4>1 DEF Loop
    <3>. QED BY <3>2, <3>3, <3>4, AdvanceIs
  <2>3. Confined(F, Put(G, t, j, Leaf(pa)), T, l1) /\ SameKinds(G, Put(G, t, j, Leaf(pa)))
    BY <1>5, StrayBlock
  <2>4. Passed(F, G, T, l1, va, pa, size, 2, L2Round(w, t, j, va_end))
    BY <2>2, <2>3, Zenon DEF Passed
  <2>. QED BY <1>1, <2>4 DEF PassedSome
<1>7. CASE ~Big(w, OS_MMU_L2_SIZE)
  <2>1. PICK next : next = NextTable(w, t, j, "l3")
    OBVIOUS
  <2>2. L2Round(w, t, j, va_end) = IF next.err # "ok" THEN next ELSE Continue(next, create_l3(next, -next.F[t].entry[j], n), n)
    BY <1>2, <1>3, <1>7, <2>1, Zenon DEF L2Round
  <2>3. PICK K, err : /\ next = Loop(K, va, pa, size, err)
                      /\ Confined(F, K, T, l1) /\ SameKinds(G, K)
                      /\ err = "ok" => -K[t].entry[j] \in T /\ K[-K[t].entry[j]].kind = "l3"
    BY <1>1, <1>5, <2>1, StrayTable
  <2>4. next.F = K /\ next.err = err
    BY <2>3, LoopIs
  <2>5. CASE err # "ok"
    <3>1. L2Round(w, t, j, va_end) = Loop(K, va + 0, pa + 0, size - 0, err)
      BY <2>2, <2>3, <2>4, <2>5
    <3>2. Passed(F, G, T, l1, va, pa, size, 0, L2Round(w, t, j, va_end))
      BY <2>3, <3>1, Zenon DEF Passed
    <3>. QED BY <1>1, <3>2 DEF PassedSome
  <2>6. CASE err = "ok"
    <3>1. PICK x \in T : x = -K[t].entry[j] /\ K[x].kind = "l3"
      BY <2>3, <2>6
    <3>2. va \in Int /\ pa \in Int
      OBVIOUS
    <3>3. PICK H : /\ create_l3(Loop(K, va, pa, size, err), x, n) = Loop(H, va, pa, size, err)
                   /\ Confined(F, H, T, l1) /\ SameKinds(K, H)
      BY <2>3, <3>1, <3>2, StrayLast
    <3>4. L2Round(w, t, j, va_end) = Continue(Loop(K, va, pa, size, err), Loop(H, va, pa, size, err), n)
      BY <2>2, <2>3, <2>4, <2>6, <3>1, <3>3
    <3>5. L2Round(w, t, j, va_end) = Loop(H, va + n, pa + n, size - n, err)
      BY <3>4, ContinueIs, LoopIs
    <3>6. SameKinds(G, H)
      BY <2>3, <3>3, KindsOn
    <3>7. Passed(F, G, T, l1, va, pa, size, n, L2Round(w, t, j, va_end))
      BY <3>3, <3>5, <3>6, Zenon DEF Passed
    <3>. QED BY <1>1, <1>4, <3>7 DEF PassedSome
  <2>. QED BY <2>5, <2>6
<1>. QED BY <1>6, <1>7

-----------------------------------------------------------------------------
\* The loop of the second level goes from round to round.
LEMMA RunsL2 ==
  ASSUME NEW w, NEW t, NEW size, NEW va_end, va_end = w.va + size - 1,
         NEW first \in Int, OS_MMU_L2_ID(w.va) = first,
         NEW rounds \in Nat, rounds = OS_MMU_L2_ID(va_end) - first + 1
  PROVE  \E g : /\ create_l2(w, t, size) = g[rounds] /\ g[0] = [w EXCEPT !.size = size]
                /\ \A n \in 1..rounds : g[n] = L2Round(g[n - 1], t, first + n - 1, va_end)
<1>. DEFINE last == OS_MMU_L2_ID(w.va + size - 1) - OS_MMU_L2_ID(w.va) + 1
            B(h, n) == IF n = 0 THEN [w EXCEPT !.size = size]
                       ELSE L2Round(h[n - 1], t, OS_MMU_L2_ID(w.va) + n - 1, w.va + size - 1)
            P(h) == h = [n \in 0..last |-> B(h, n)]
            S == {k \in Nat : \E h : h = [n \in 0..k |-> B(h, n)]}
<1>1. create_l2(w, t, size) = (CHOOSE h : P(h))[last]
  BY Zenon DEF create_l2
<1>2. last = rounds
  OBVIOUS
<1>3. ASSUME NEW h PROVE /\ B(h, 0) = [w EXCEPT !.size = size]
                         /\ \A n \in Nat : n # 0 => B(h, n) = L2Round(h[n - 1], t, first + n - 1, va_end)
  OBVIOUS
<1>. HIDE DEF B, last
<1>4. 0 \in S
  <2>1. PICK h : h = [n \in 0..0 |-> [w EXCEPT !.size = size]]
    OBVIOUS
  <2>2. h[0] = B(h, 0) /\ 0..0 = {0}
    BY <1>3, <2>1
  <2>3. \A n \in 0..0 : h[n] = B(h, n)
    BY <2>2
  <2>4. h = [n \in 0..0 |-> B(h, n)]
    BY <2>1, <2>3
  <2>. QED BY <2>4
<1>5. ASSUME NEW k \in Nat, k \in S PROVE k + 1 \in S
  <2>1. PICK h : h = [n \in 0..k |-> B(h, n)]
    BY <1>5
  <2>2. PICK r : r = L2Round(h[k], t, first + (k + 1) - 1, va_end)
    OBVIOUS
  <2>3. PICK g : g = [n \in 0..(k + 1) |-> IF n = k + 1 THEN r ELSE h[n]]
    OBVIOUS
  <2>4. g[k + 1] = r /\ \A n \in 0..k : g[n] = h[n] /\ h[n] = B(h, n)
    <3>1. \A n \in 0..k : n \in 0..(k + 1) /\ n # k + 1
      OBVIOUS
    <3>2. k + 1 \in 0..(k + 1)
      OBVIOUS
    <3>3. \A n \in 0..k : h[n] = B(h, n)
      BY <2>1
    <3>. QED BY <2>3, <3>1, <3>2, <3>3
  <2>5. ASSUME NEW n \in 0..(k + 1) PROVE g[n] = B(g, n)
    <3>1. CASE n = 0
      BY <1>3, <2>4, <3>1
    <3>2. CASE n \in 1..k
      <4>1. g[n - 1] = h[n - 1] /\ n # 0 /\ n \in Nat /\ n \in 0..k
        BY <2>4, <3>2
      <4>2. B(g, n) = B(h, n)
        BY <1>3, <4>1
      <4>. QED BY <2>4, <4>1, <4>2
    <3>3. CASE n = k + 1
      <4>1. (k + 1) - 1 = k /\ k + 1 # 0 /\ k + 1 \in Nat /\ g[k] = h[k]
        BY <2>4
      <4>2. B(g, k + 1) = L2Round(g[k], t, first + (k + 1) - 1, va_end)
        BY <1>3, <4>1
      <4>. QED BY <2>2, <2>4, <3>3, <4>1, <4>2
    <3>. QED BY <3>1, <3>2, <3>3
  <2>6. g = [n \in 0..(k + 1) |-> B(g, n)]
    BY <2>3, <2>5
  <2>. QED BY <2>6
<1>6. rounds \in S
  <2>1. \A k \in Nat : k \in S => k + 1 \in S
    BY <1>5
  <2>. HIDE DEF S
  <2>. QED BY <1>4, <2>1, SetInduction
<1>7. \E h : P(h)
  BY <1>2, <1>6
<1>8. ASSUME NEW h, P(h) PROVE \A n \in 0..rounds : h[n] = B(h, n)
  BY <1>2, <1>8
<1>. HIDE DEF P, S
<1>9. PICK g : g = CHOOSE h : P(h)
  OBVIOUS
<1>10. P(g)
  BY <1>7, <1>9
<1>11. create_l2(w, t, size) = g[rounds]
  BY <1>1, <1>2, <1>9, Zenon
<1>12. g[0] = [w EXCEPT !.size = size]
  BY <1>3, <1>8, <1>10
<1>13. \A n \in 1..rounds : g[n] = L2Round(g[n - 1], t, first + n - 1, va_end)
  <2>1. \A n \in 1..rounds : n \in 0..rounds /\ n \in Nat /\ n # 0
    OBVIOUS
  <2>. QED BY <1>3, <1>8, <1>10, <2>1
<1>. QED BY <1>11, <1>12, <1>13

\* So on the first level.
RunL1(F, l1, va, pa, size, va_end, first, rounds, g) ==
  /\ create_mapping(F, l1, va, pa, size) = g[rounds] /\ g[0] = Loop(F, va, pa, size, "ok")
  /\ \A n \in 1..rounds : g[n] = L1Round(g[n - 1], l1, first + n - 1, va_end)

LEMMA RunsL1 ==
  ASSUME NEW F, NEW l1, NEW va, NEW pa, NEW size, NEW va_end, va_end = va + size - 1,
         NEW first \in Int, OS_MMU_L1_ID(va) = first, OS_MMU_GET_EFFECTIVE_VA(va) = va,
         NEW rounds \in Nat, rounds = OS_MMU_L1_ID(va_end) - first + 1
  PROVE  \E g : RunL1(F, l1, va, pa, size, va_end, first, rounds, g)
<1>. DEFINE last == OS_MMU_L1_ID(va + size - 1) - OS_MMU_L1_ID(va) + 1
            B(h, n) == IF n = 0 THEN [F |-> F, va |-> OS_MMU_GET_EFFECTIVE_VA(va), pa |-> pa, size |-> size, err |-> "ok"]
                       ELSE L1Round(h[n - 1], l1, OS_MMU_L1_ID(va) + n - 1, va + size - 1)
            P(h) == h = [n \in 0..last |-> B(h, n)]
            S == {k \in Nat : \E h : h = [n \in 0..k |-> B(h, n)]}
<1>1. create_mapping(F, l1, va, pa, size) = (CHOOSE h : P(h))[last]
  BY Zenon DEF create_mapping
<1>2. last = rounds
  OBVIOUS
<1>3. ASSUME NEW h PROVE /\ B(h, 0) = Loop(F, va, pa, size, "ok")
                         /\ \A n \in Nat : n # 0 => B(h, n) = L1Round(h[n - 1], l1, first + n - 1, va_end)
  <2>1. B(h, 0) = Loop(F, va, pa, size, "ok")
    BY DEF Loop
  <2>2. \A n \in Nat : n # 0 => B(h, n) = L1Round(h[n - 1], l1, first + n - 1, va_end)
    OBVIOUS
  <2>. QED BY <2>1, <2>2
<1>. HIDE DEF B, last
<1>4. 0 \in S
  <2>1. PICK h : h = [n \in 0..0 |-> Loop(F, va, pa, size, "ok")]
    OBVIOUS
  <2>2. h[0] = B(h, 0) /\ 0..0 = {0}
    BY <1>3, <2>1
  <2>3. \A n \in 0..0 : h[n] = B(h, n)
    BY <2>2
  <2>4. h = [n \in 0..0 |-> B(h, n)]
    BY <2>1, <2>3
  <2>. QED BY <2>4
<1>5. ASSUME NEW k \in Nat, k \in S PROVE k + 1 \in S
  <2>1. PICK h : h = [n \in 0..k |-> B(h, n)]
    BY <1>5
  <2>2. PICK r : r = L1Round(h[k], l1, first + (k + 1) - 1, va_end)
    OBVIOUS
  <2>3. PICK g : g = [n \in 0..(k + 1) |-> IF n = k + 1 THEN r ELSE h[n]]
    OBVIOUS
  <2>4. g[k + 1] = r /\ \A n \in 0..k : g[n] = h[n] /\ h[n] = B(h, n)
    <3>1. \A n \in 0..k : n \in 0..(k + 1) /\ n # k + 1
      OBVIOUS
    <3>2. k + 1 \in 0..(k + 1)
      OBVIOUS
    <3>3. \A n \in 0..k : h[n] = B(h, n)
      BY <2>1
    <3>. QED BY <2>3, <3>1, <3>2, <3>3
  <2>5. ASSUME NEW n \in 0..(k + 1) PROVE g[n] = B(g, n)
    <3>1. CASE n = 0
      BY <1>3, <2>4, <3>1
    <3>2. CASE n \in 1..k
      <4>1. g[n - 1] = h[n - 1] /\ n # 0 /\ n \in Nat /\ n \in 0..k
        BY <2>4, <3>2
      <4>2. B(g, n) = B(h, n)
        BY <1>3, <4>1
      <4>. QED BY <2>4, <4>1, <4>2
    <3>3. CASE n = k + 1
      <4>1. (k + 1) - 1 = k /\ k + 1 # 0 /\ k + 1 \in Nat /\ g[k] = h[k]
        BY <2>4
      <4>2. B(g, k + 1) = L1Round(g[k], l1, first + (k + 1) - 1, va_end)
        BY <1>3, <4>1
      <4>. QED BY <2>2, <2>4, <3>3, <4>1, <4>2
    <3>. QED BY <3>1, <3>2, <3>3
  <2>6. g = [n \in 0..(k + 1) |-> B(g, n)]
    BY <2>3, <2>5
  <2>. QED BY <2>6
<1>6. rounds \in S
  <2>1. \A k \in Nat : k \in S => k + 1 \in S
    BY <1>5
  <2>. HIDE DEF S
  <2>. QED BY <1>4, <2>1, SetInduction
<1>7. \E h : P(h)
  BY <1>2, <1>6
<1>8. ASSUME NEW h, P(h) PROVE \A n \in 0..rounds : h[n] = B(h, n)
  BY <1>2, <1>8
<1>. HIDE DEF P, S
<1>9. PICK g : g = CHOOSE h : P(h)
  OBVIOUS
<1>10. P(g)
  BY <1>7, <1>9
<1>11. create_mapping(F, l1, va, pa, size) = g[rounds]
  BY <1>1, <1>2, <1>9, Zenon
<1>12. g[0] = Loop(F, va, pa, size, "ok")
  BY <1>3, <1>8, <1>10
<1>13. \A n \in 1..rounds : g[n] = L1Round(g[n - 1], l1, first + n - 1, va_end)
  <2>1. \A n \in 1..rounds : n \in 0..rounds /\ n \in Nat /\ n # 0
    OBVIOUS
  <2>. QED BY <1>3, <1>8, <1>10, <2>1
<1>. QED BY <1>11, <1>12, <1>13 DEF RunL1

\* And from page to page of a segment.
LEMMA RunsAuto ==
  ASSUME NEW v, NEW va, NEW size \in Nat, os_mmu_create_mapping_auto(v, va, size)
  PROVE  \E g : /\ AutoResult(v, va, size, g[size]) /\ g[0] = [F |-> frames, left |-> size, got |-> <<>>, err |-> "ok"]
                /\ \A n \in 1..size : g[n] = AutoStep(g[n - 1], vtable[v], va)
<1>. DEFINE B(h, n) == IF n = 0 THEN [F |-> frames, left |-> size, got |-> <<>>, err |-> "ok"]
                       ELSE AutoStep(h[n - 1], vtable[v], va)
            P(h) == h = [n \in 0..size |-> B(h, n)]
            S == {k \in Nat : \E h : h = [n \in 0..k |-> B(h, n)]}
<1>1. AutoResult(v, va, size, (CHOOSE h : P(h))[size])
  BY Zenon DEF os_mmu_create_mapping_auto, AutoResult
<1>2. PICK x : x = [F |-> frames, left |-> size, got |-> <<>>, err |-> "ok"]
  OBVIOUS
<1>3. ASSUME NEW h PROVE /\ B(h, 0) = x
                         /\ \A n \in Nat : n # 0 => B(h, n) = AutoStep(h[n - 1], vtable[v], va)
  <2>1. B(h, 0) = x
    BY <1>2, SMTT(30)
  <2>2. \A n \in Nat : n # 0 => B(h, n) = AutoStep(h[n - 1], vtable[v], va)
    BY Zenon
  <2>. QED BY <2>1, <2>2
<1>. HIDE DEF B
<1>4. 0 \in S
  <2>1. PICK h : h = [n \in 0..0 |-> x]
    OBVIOUS
  <2>2. h[0] = B(h, 0) /\ 0..0 = {0}
    BY <1>3, <2>1
  <2>3. \A n \in 0..0 : h[n] = B(h, n)
    BY <2>2
  <2>4. h = [n \in 0..0 |-> B(h, n)]
    BY <2>1, <2>3
  <2>. QED BY <2>4
<1>5. ASSUME NEW k \in Nat, k \in S PROVE k + 1 \in S
  <2>1. PICK h : h = [n \in 0..k |-> B(h, n)]
    BY <1>5
  <2>2. PICK r : r = AutoStep(h[k], vtable[v], va)
    OBVIOUS
  <2>3. PICK g : g = [n \in 0..(k + 1) |-> IF n = k + 1 THEN r ELSE h[n]]
    OBVIOUS
  <2>4. g[k + 1] = r /\ \A n \in 0..k : g[n] = h[n] /\ h[n] = B(h, n)
    <3>1. \A n \in 0..k : n \in 0..(k + 1) /\ n # k + 1
      OBVIOUS
    <3>2. k + 1 \in 0..(k + 1)
      OBVIOUS
    <3>3. \A n \in 0..k : h[n] = B(h, n)
      BY <2>1
    <3>. QED BY <2>3, <3>1, <3>2, <3>3
  <2>5. ASSUME NEW n \in 0..(k + 1) PROVE g[n] = B(g, n)
    <3>1. CASE n = 0
      BY <1>3, <2>4, <3>1
    <3>2. CASE n \in 1..k
      <4>1. g[n - 1] = h[n - 1] /\ n # 0 /\ n \in Nat /\ n \in 0..k
        BY <2>4, <3>2
      <4>2. B(g, n) = B(h, n)
        BY <1>3, <4>1
      <4>. QED BY <2>4, <4>1, <4>2
    <3>3. CASE n = k + 1
      <4>1. (k + 1) - 1 = k /\ k + 1 # 0 /\ k + 1 \in Nat /\ g[k] = h[k]
        BY <2>4
      <4>2. B(g, k + 1) = AutoStep(g[k], vtable[v], va)
        BY <1>3, <4>1
      <4>. QED BY <2>2, <2>4, <3>3, <4>1, <4>2
    <3>. QED BY <3>1, <3>2, <3>3
  <2>6. g = [n \in 0..(k + 1) |-> B(g, n)]
    BY <2>3, <2>5
  <2>. QED BY <2>6
<1>6. size \in S
  <2>1. \A k \in Nat : k \in S => k + 1 \in S
    BY <1>5
  <2>. HIDE DEF S
  <2>. QED BY <1>4, <2>1, SetInduction
<1>7. \E h : P(h)
  BY <1>6
<1>8. ASSUME NEW h, P(h) PROVE \A n \in 0..size : h[n] = B(h, n)
  BY <1>8
<1>. HIDE DEF P, S
<1>9. PICK g : g = CHOOSE h : P(h)
  OBVIOUS
<1>10. P(g)
  BY <1>7, <1>9
<1>11. AutoResult(v, va, size, g[size])
  BY <1>1, <1>9, Zenon
<1>12. g[0] = x
  BY <1>3, <1>8, <1>10
<1>13. \A n \in 1..size : g[n] = AutoStep(g[n - 1], vtable[v], va)
  <2>1. \A n \in 1..size : n \in 0..size /\ n \in Nat /\ n # 0
    OBVIOUS
  <2>. QED BY <1>3, <1>8, <1>10, <2>1
<1>. QED BY <1>2, <1>11, <1>12, <1>13

-----------------------------------------------------------------------------
\* Where the loops have got to.
Stays(F, G, T, l1, r) ==
  \E H, a, b, c, err : r = Loop(H, a, b, c, err) /\ Confined(F, H, T, l1) /\ SameKinds(G, H)

\* The second level, whatever the range is.
LEMMA StrayL2 ==
  ASSUME NEW F, NEW G, NEW T, NEW l1, Confined(F, G, T, l1), NEW t \in T, G[t].kind = "l2",
         NEW va \in Nat, NEW pa \in Nat, NEW size, NEW n \in Nat
  PROVE  Stays(F, G, T, l1, create_l2(Loop(G, va, pa, size, "ok"), t, n))
<1>1. PICK w : w = Loop(G, va, pa, size, "ok")
  OBVIOUS
<1>2. w.va = va
  BY <1>1, LoopIs
<1>3. PICK va_end \in Int : va_end = va + n - 1
  OBVIOUS
<1>4. /\ OS_MMU_L2_ID(va) \in 0..1 /\ OS_MMU_L2_ID(va_end) \in 0..1
  BY DEF OS_MMU_L2_ID, OS_MMU_L2_SIZE
<1>5. PICK first \in 0..1, last \in 0..1 : first = OS_MMU_L2_ID(va) /\ last = OS_MMU_L2_ID(va_end)
  BY <1>4
<1>6. PICK rounds \in 0..2 : rounds = last - first + 1
  OBVIOUS
<1>7. PICK g : /\ create_l2(w, t, n) = g[rounds] /\ g[0] = [w EXCEPT !.size = n]
               /\ \A k \in 1..rounds : g[k] = L2Round(g[k - 1], t, first + k - 1, va_end)
  <2>1. va_end = w.va + n - 1 /\ first \in Int /\ OS_MMU_L2_ID(w.va) = first /\ rounds \in Nat
        /\ rounds = OS_MMU_L2_ID(va_end) - first + 1
    BY <1>2, <1>3, <1>5, <1>6
  <2>. QED BY <2>1, RunsL2
<1>8. g[0] = Loop(G, va, pa, n, "ok")
  BY <1>1, <1>7 DEF Loop
<1>9. SameKinds(G, G)
  BY DEF SameKinds
<1>10. CASE rounds = 0
  <2>. QED BY <1>1, <1>7, <1>8, <1>9, <1>10 DEF Stays
<1>11. ASSUME rounds \in 1..2
       PROVE  \E m \in Nat : Passed(F, G, T, l1, va, pa, n, m, g[1])
  <2>1. g[1] = L2Round(Loop(G, va, pa, n, "ok"), t, first, va_end)
    <3>1. 1 \in 1..rounds /\ 1 - 1 = 0 /\ first + 1 - 1 = first
      BY <1>11
    <3>. QED BY <1>7, <1>8, <3>1
  <2>2. PICK m \in Int : Passed(F, G, T, l1, va, pa, n, m, g[1]) /\ (va <= va_end + 1 => m \in Nat)
    <3>1. n \in Int
      OBVIOUS
    <3>2. PassedSome(F, G, T, l1, va, pa, n, va_end, g[1])
      BY <2>1, <3>1, StrayRoundL2
    <3>. QED BY <3>2 DEF PassedSome
  <2>. QED BY <1>3, <2>2
<1>12. CASE rounds = 1
  <2>1. PICK m \in Nat : Passed(F, G, T, l1, va, pa, n, m, g[1])
    BY <1>11, <1>12
  <2>. QED BY <1>1, <1>7, <1>12, <2>1 DEF Passed, Stays
<1>13. CASE rounds = 2
  <2>1. PICK m \in Nat : Passed(F, G, T, l1, va, pa, n, m, g[1])
    BY <1>11, <1>13
  <2>2. PICK K, err : /\ g[1] = Loop(K, va + m, pa + m, n - m, err)
                      /\ Confined(F, K, T, l1) /\ SameKinds(G, K)
    BY <2>1 DEF Passed
  <2>3. g[2] = L2Round(g[1], t, 1, va_end)
    <3>1. first = 0 /\ 2 \in 1..rounds /\ 2 - 1 = 1 /\ first + 2 - 1 = 1
      BY <1>6, <1>13
    <3>. QED BY <1>7, <3>1
  <2>4. CASE err # "ok"
    <3>1. g[1].err # "ok"
      BY <2>2, <2>4, LoopIs
    <3>2. g[2] = g[1]
      BY <2>3, <3>1, Zenon DEF L2Round
    <3>. QED BY <1>1, <1>7, <1>13, <2>2, <3>2 DEF Stays
  <2>5. CASE err = "ok"
    <3>1. PICK x \in Nat, y \in Nat, z \in Int : x = va + m /\ y = pa + m /\ z = n - m
      OBVIOUS
    <3>2. g[1] = Loop(K, x, y, z, "ok")
      BY <2>2, <2>5, <3>1
    <3>3. K[t].kind = "l2" /\ 1 \in 0..1
      <4>1. t \in AnyFrame
        BY DEF Confined, AnyFrame
      <4>. QED BY <2>2, <4>1 DEF SameKinds
    <3>4. PICK d \in Int : Passed(F, K, T, l1, x, y, z, d, g[2])
      <4>1. Confined(F, K, T, l1) /\ g[2] = L2Round(Loop(K, x, y, z, "ok"), t, 1, va_end)
        BY <2>2, <2>3, <3>2
      <4>2. PassedSome(F, K, T, l1, x, y, z, va_end, g[2])
        BY <3>3, <4>1, StrayRoundL2
      <4>. QED BY <4>2 DEF PassedSome
    <3>5. PICK H, e : /\ g[2] = Loop(H, x + d, y + d, z - d, e)
                      /\ Confined(F, H, T, l1) /\ SameKinds(K, H)
      BY <3>4 DEF Passed
    <3>6. SameKinds(G, H)
      BY <2>2, <3>5, KindsOn
    <3>. QED BY <1>1, <1>7, <1>13, <3>5, <3>6 DEF Stays
  <2>. QED BY <2>4, <2>5
<1>. QED BY <1>10, <1>12, <1>13

\* The loop of the first level at entry i.
OnWay(w, va_end, i) ==
  /\ w.va \in 0..15 /\ OS_MMU_L1_ID(w.va) = i /\ w.va <= va_end + 1
  /\ w.pa \in Nat /\ w.size = va_end - w.va + 1

\* One block on.
LEMMA NextBlock ==
  ASSUME NEW va \in 0..15, NEW va_end \in 0..15, OS_MMU_L1_ID(va) < OS_MMU_L1_ID(va_end)
  PROVE  /\ va + 4 \in 0..15 /\ OS_MMU_L1_ID(va + 4) = OS_MMU_L1_ID(va) + 1
         /\ va + (4 - (va % 4)) \in 0..15 /\ OS_MMU_L1_ID(va + (4 - (va % 4))) = OS_MMU_L1_ID(va) + 1
         /\ va + (4 - (va % 4)) <= va_end + 1
<1>1. \A p \in 0..19 : p % 32 = p
  OBVIOUS
<1>2. \A p \in 0..19 : OS_MMU_L1_ID(p) = p \div 4
  BY <1>1 DEF OS_MMU_L1_ID, OS_MMU_L1_SIZE
<1>3. PICK i \in 0..3, r \in 0..3 : va = 4 * i + r /\ va \div 4 = i /\ va % 4 = r
  OBVIOUS
<1>4. PICK j \in 0..3, s \in 0..3 : va_end = 4 * j + s /\ va_end \div 4 = j
  OBVIOUS
<1>5. i < j
  BY <1>2, <1>3, <1>4
<1>6. PICK b : b = va + (4 - (va % 4))
  OBVIOUS
<1>7. b = 4 * (i + 1)
  BY <1>3, <1>6
<1>8. i \in 0..2 /\ j >= i + 1
  BY <1>5
<1>9. /\ va + 4 \in 0..15 /\ b \in 0..15 /\ va + 4 = 4 * (i + 1) + r /\ b <= va_end + 1
  BY <1>3, <1>4, <1>7, <1>8
<1>10. (va + 4) \div 4 = i + 1 /\ b \div 4 = i + 1
  BY <1>7, <1>9
<1>. QED BY <1>2, <1>3, <1>6, <1>9, <1>10

\* One round on the first level.
LEMMA StrayRoundL1 ==
  ASSUME NEW F, NEW G, NEW T, NEW l1, NEW w, Stays(F, G, T, l1, w), w.err = "ok",
         NEW i \in 0..3, NEW va_end \in 0..15, OnWay(w, va_end, i), NEW r, r = L1Round(w, l1, i, va_end)
  PROVE  /\ Stays(F, G, T, l1, r)
         /\ r.err = "ok" /\ i < OS_MMU_L1_ID(va_end) => OnWay(r, va_end, i + 1)
<1>1. PICK K, va, pa, size, err0 : w = Loop(K, va, pa, size, err0) /\ Confined(F, K, T, l1) /\ SameKinds(G, K)
  BY DEF Stays
<1>2. w.F = K /\ w.va = va /\ w.pa = pa /\ w.size = size /\ err0 = "ok"
  BY <1>1, LoopIs
<1>3. w = Loop(K, va, pa, size, "ok")
  BY <1>1, <1>2
<1>4. va \in 0..15 /\ OS_MMU_L1_ID(va) = i /\ va <= va_end + 1 /\ pa \in Nat /\ size = va_end - va + 1
  BY <1>2 DEF OnWay
<1>5. PICK n \in Nat : /\ n = NextSize(w, va_end, OS_MMU_L1_ID(w.va) = OS_MMU_L1_ID(va_end), OS_MMU_L1_SIZE)
                       /\ i < OS_MMU_L1_ID(va_end) => n = 4 - (va % 4)
  <2>1. PICK same : same = (OS_MMU_L1_ID(w.va) = OS_MMU_L1_ID(va_end))
    OBVIOUS
  <2>2. PICK n : n = NextSize(w, va_end, same, 4)
    OBVIOUS
  <2>3. n \in Nat
    BY <1>2, <1>4, <2>2, NextSizeIs
  <2>4. i < OS_MMU_L1_ID(va_end) => ~same
    <3>1. OS_MMU_L1_ID(va_end) \in Int
      BY DEF OS_MMU_L1_ID, OS_MMU_L1_SIZE
    <3>2. i < OS_MMU_L1_ID(va_end) => ~(OS_MMU_L1_ID(w.va) = OS_MMU_L1_ID(va_end))
      BY <1>2, <1>4, <3>1
    <3>. QED BY <2>1, <3>2, Zenon
  <2>5. i < OS_MMU_L1_ID(va_end) => n = 4 - (va % 4)
    <3>1. ~same => n = 4 - (w.va % 4)
      BY <2>2, Zenon DEF NextSize
    <3>. QED BY <1>2, <2>4, <3>1
  <2>. QED BY <2>1, <2>2, <2>3, <2>5 DEF OS_MMU_L1_SIZE
<1>6. Below(K, l1, l1, i, "l2") /\ l1 \in T
  BY <1>1 DEF Below, Confined
<1>7. ASSUME NEW H, NEW err, NEW d \in Nat, Confined(F, H, T, l1), SameKinds(K, H),
             r = Loop(H, va + d, pa + d, size - d, err),
             i < OS_MMU_L1_ID(va_end) => /\ va + d \in 0..15 /\ OS_MMU_L1_ID(va + d) = i + 1
                                         /\ va + d <= va_end + 1
      PROVE  /\ Stays(F, G, T, l1, r)
             /\ i < OS_MMU_L1_ID(va_end) => OnWay(r, va_end, i + 1)
  <2>1. SameKinds(G, H)
    BY <1>1, <1>7, KindsOn
  <2>2. Stays(F, G, T, l1, r)
    <3>1. PICK x, y, z : x = va + d /\ y = pa + d /\ z = size - d
      OBVIOUS
    <3>. QED BY <1>7, <2>1, <3>1 DEF Stays
  <2>3. r.va = va + d /\ r.pa = pa + d /\ r.size = size - d
    BY <1>7, LoopIs
  <2>4. pa + d \in Nat /\ size - d = va_end - (va + d) + 1
    BY <1>4
  <2>. QED BY <1>7, <2>2, <2>3, <2>4 DEF OnWay
<1>8. CASE Big(w, OS_MMU_L1_SIZE)
  <2>1. L1Round(w, l1, i, va_end) = Advance([w EXCEPT !.F[l1].entry[i] = Leaf(w.pa)], OS_MMU_L1_SIZE)
    BY <1>8, Zenon DEF L1Round
  <2>2. PICK H : H = Put(K, l1, i, Leaf(pa))
    OBVIOUS
  <2>3. r = Loop(H, va + 4, pa + 4, size - 4, "ok")
    <3>1. PICK x : x = [w EXCEPT !.F[l1].entry[i] = Leaf(pa)]
      OBVIOUS
    <3>2. r = Advance(x, 4)
      BY <1>2, <2>1, <3>1, Zenon DEF OS_MMU_L1_SIZE
    <3>3. PICK e : e = Leaf(pa) /\ H = Put(K, l1, i, e)
      BY <2>2
    <3>4. x = Loop(H, va, pa, size, "ok")
      <4>1. x = [w EXCEPT !.F = H]
        BY <1>3, <3>1, <3>3 DEF Loop, Put
      <4>. QED BY <1>3, <4>1 DEF Loop
    <3>. QED BY <3>2, <3>4, AdvanceIs
  <2>4. Confined(F, H, T, l1) /\ SameKinds(K, H)
    BY <1>1, <1>4, <1>6, <2>2, StrayBlock
  <2>5. size >= 4
    BY <1>2, <1>8 DEF Big, OS_MMU_L1_SIZE
  <2>6. i < OS_MMU_L1_ID(va_end) => /\ va + 4 \in 0..15 /\ OS_MMU_L1_ID(va + 4) = i + 1 /\ va + 4 <= va_end + 1
    BY <1>4, <2>5, NextBlock
  <2>. QED BY <1>7, <2>3, <2>4, <2>6
<1>9. CASE ~Big(w, OS_MMU_L1_SIZE)
  <2>1. PICK next : next = NextTable(w, l1, i, "l2")
    OBVIOUS
  <2>2. r = IF next.err # "ok" THEN next ELSE Continue(next, create_l2(next, -next.F[l1].entry[i], n), n)
    BY <1>5, <1>9, <2>1, Zenon DEF L1Round
  <2>3. PICK L, err : /\ next = Loop(L, va, pa, size, err)
                      /\ Confined(F, L, T, l1) /\ SameKinds(K, L)
                      /\ err = "ok" => -L[l1].entry[i] \in T /\ L[-L[l1].entry[i]].kind = "l2"
    BY <1>1, <1>3, <1>6, <2>1, StrayTable
  <2>4. next.F = L /\ next.err = err
    BY <2>3, LoopIs
  <2>5. CASE err # "ok"
    <3>1. r = next /\ r.err # "ok"
      BY <2>2, <2>4, <2>5
    <3>2. SameKinds(G, L)
      BY <1>1, <2>3, KindsOn
    <3>3. Stays(F, G, T, l1, r)
      BY <2>3, <3>1, <3>2 DEF Stays
    <3>. QED BY <3>1, <3>3
  <2>6. CASE err = "ok"
    <3>1. PICK x \in T : x = -L[l1].entry[i] /\ L[x].kind = "l2"
      BY <2>3, <2>6
    <3>2. PICK done : done = create_l2(next, x, n)
      OBVIOUS
    <3>3. r = Continue(next, done, n)
      BY <2>2, <2>4, <2>6, <3>1, <3>2
    <3>4. Stays(F, L, T, l1, done)
      <4>1. next = Loop(L, va, pa, size, "ok") /\ va \in Nat /\ pa \in Nat
        BY <1>4, <2>3, <2>6
      <4>. QED BY <2>3, <3>1, <3>2, <4>1, StrayL2
    <3>5. PICK H, a, b, c, e : done = Loop(H, a, b, c, e) /\ Confined(F, H, T, l1) /\ SameKinds(L, H)
      BY <3>4 DEF Stays
    <3>6. done.F = H /\ done.err = e
      BY <3>5, LoopIs
    <3>7. r = Loop(H, va + n, pa + n, size - n, e)
      BY <2>3, <2>6, <3>3, <3>6, ContinueIs
    <3>8. SameKinds(K, H)
      BY <2>3, <3>5, KindsOn
    <3>9. i < OS_MMU_L1_ID(va_end) => /\ va + n \in 0..15 /\ OS_MMU_L1_ID(va + n) = i + 1 /\ va + n <= va_end + 1
      BY <1>4, <1>5, NextBlock
    <3>. QED BY <1>7, <3>5, <3>7, <3>8, <3>9
  <2>. QED BY <2>5, <2>6
<1>. QED BY <1>8, <1>9

\* A whole mapping, whatever is there already.
LEMMA StrayMapping ==
  ASSUME NEW F, NEW G, NEW T, NEW l1, Confined(F, G, T, l1),
         NEW va \in 0..15, NEW pa \in Nat, NEW size \in Nat \ {0}, va + size <= 16
  PROVE  Stays(F, G, T, l1, create_mapping(G, l1, va, pa, size))
<1>1. PICK va_end \in 0..15 : va_end = va + size - 1
  OBVIOUS
<1>2. PICK first \in 0..3, last \in 0..3 : first = OS_MMU_L1_ID(va) /\ last = OS_MMU_L1_ID(va_end) /\ first <= last
  <2>1. \A p \in 0..15 : OS_MMU_L1_ID(p) = p \div 4 /\ p \div 4 \in 0..3
    BY DEF OS_MMU_L1_ID, OS_MMU_L1_SIZE
  <2>2. va \div 4 <= va_end \div 4
    BY <1>1
  <2>. QED BY <2>1, <2>2
<1>3. PICK rounds \in 1..4 : rounds = last - first + 1
  BY <1>2
<1>4. PICK g : RunL1(G, l1, va, pa, size, va_end, first, rounds, g)
  <2>1. OS_MMU_GET_EFFECTIVE_VA(va) = va
    BY DEF OS_MMU_GET_EFFECTIVE_VA
  <2>2. first \in Int /\ rounds \in Nat /\ OS_MMU_L1_ID(va) = first
    BY <1>2
  <2>3. rounds = OS_MMU_L1_ID(va_end) - first + 1
    BY <1>2, <1>3
  <2>. QED BY <1>1, <2>1, <2>2, <2>3, RunsL1
<1>. DEFINE J(n) == Stays(F, G, T, l1, g[n]) /\ (g[n].err = "ok" /\ n < rounds => OnWay(g[n], va_end, first + n))
            S == {n \in Nat : J(n)}
<1>5. 0 \in S
  <2>1. SameKinds(G, G)
    BY DEF SameKinds
  <2>2. Stays(F, G, T, l1, g[0])
    BY <1>4, <2>1 DEF Stays, RunL1
  <2>3. OnWay(g[0], va_end, first)
    <3>1. g[0].va = va /\ g[0].pa = pa /\ g[0].size = size
      BY <1>4, LoopIs DEF RunL1
    <3>. QED BY <1>1, <1>2, <3>1 DEF OnWay
  <2>4. first + 0 = first
    OBVIOUS
  <2>. QED BY <2>2, <2>3, <2>4
<1>6. ASSUME NEW n \in 0..(rounds - 1), n \in S PROVE n + 1 \in S
  <2>1. J(n) /\ n < rounds
    BY <1>6
  <2>2. g[n + 1] = L1Round(g[n], l1, first + n, va_end)
    <3>1. n + 1 \in 1..rounds /\ (n + 1) - 1 = n /\ first + (n + 1) - 1 = first + n
      OBVIOUS
    <3>. QED BY <1>4, <3>1 DEF RunL1
  <2>3. CASE g[n].err # "ok"
    <3>1. g[n + 1] = g[n]
      BY <2>2, <2>3, Zenon DEF L1Round
    <3>. QED BY <2>1, <2>3, <3>1
  <2>4. CASE g[n].err = "ok"
    <3>1. PICK i \in 0..3 : i = first + n
      BY <1>3
    <3>2. PICK w, r : w = g[n] /\ r = g[n + 1]
      OBVIOUS
    <3>3. Stays(F, G, T, l1, w) /\ w.err = "ok" /\ OnWay(w, va_end, i) /\ r = L1Round(w, l1, i, va_end)
      BY <2>1, <2>2, <2>4, <3>1, <3>2
    <3>4. /\ Stays(F, G, T, l1, r)
          /\ r.err = "ok" /\ i < OS_MMU_L1_ID(va_end) => OnWay(r, va_end, i + 1)
      BY <3>3, StrayRoundL1
    <3>5. n + 1 < rounds => i < OS_MMU_L1_ID(va_end)
      BY <1>2, <1>3, <3>1
    <3>6. i + 1 = first + (n + 1)
      BY <3>1
    <3>. QED BY <3>2, <3>4, <3>5, <3>6
  <2>. QED BY <2>3, <2>4
<1>7. rounds \in S
  <2>1. \A n \in 0..(rounds - 1) : n \in S => n + 1 \in S
    BY <1>6
  <2>. HIDE DEF S
  <2>2. \A n \in 0..rounds : n \in S
    BY <1>5, <2>1, UpTo
  <2>. QED BY <2>2
<1>. QED BY <1>4, <1>7 DEF RunL1

-----------------------------------------------------------------------------
\* The loop over the pages of a segment.
Segment(F, left, got, err) == [F |-> F, left |-> left, got |-> got, err |-> err]

AutoAt(F, T, l1, size, n, w) ==
  \E G, k, q, err : /\ w = Segment(G, k, q, err) /\ Confined(F, G, T, l1)
                    /\ q \in Seq(HeapFrame) /\ Len(q) <= n /\ (err = "ok" => k = size - n)

LEMMA SegmentIs ==
  ASSUME NEW F, NEW left, NEW got, NEW err
  PROVE  /\ Segment(F, left, got, err).F = F /\ Segment(F, left, got, err).left = left
         /\ Segment(F, left, got, err).got = got /\ Segment(F, left, got, err).err = err
  BY DEF Segment

\* One page of a segment.
LEMMA StrayStep ==
  ASSUME NEW F, NEW T, NEW l1, NEW va \in 1..15, NEW size \in Nat, va + size <= 16, NEW n \in 0..(size - 1),
         NEW w, AutoAt(F, T, l1, size, n, w), NEW r, r = AutoStep(w, l1, va)
  PROVE  AutoAt(F, T, l1, size, n + 1, r)
<1>1. PICK G, k, q, err : /\ w = Segment(G, k, q, err) /\ Confined(F, G, T, l1)
                          /\ q \in Seq(HeapFrame) /\ Len(q) <= n /\ (err = "ok" => k = size - n)
  BY DEF AutoAt
<1>2. w.F = G /\ w.left = k /\ w.got = q /\ w.err = err
  BY <1>1, SegmentIs
<1>3. Len(q) \in Nat /\ Len(q) <= n + 1
  BY <1>1
<1>4. CASE err # "ok"
  <2>1. r = w
    BY <1>2, <1>4, Zenon DEF AutoStep
  <2>. QED BY <1>1, <1>3, <1>4, <2>1 DEF AutoAt
<1>5. CASE err = "ok" /\ FreeFrames(G) = {}
  <2>1. r = [w EXCEPT !.err = "ENOMEM"]
    BY <1>2, <1>5, Zenon DEF AutoStep
  <2>2. r = Segment(G, k, q, "ENOMEM")
    BY <1>1, <2>1 DEF Segment
  <2>3. "ENOMEM" # "ok"
    OBVIOUS
  <2>. QED BY <1>1, <1>3, <2>2, <2>3 DEF AutoAt
<1>6. CASE err = "ok" /\ FreeFrames(G) # {}
  <2>1. PICK f \in T : f = NextFrame(G) /\ G[f].kind = "free" /\ f \in HeapFrame
    BY <1>1, <1>6, StrayFree
  <2>2. PICK c : c = Plain("data")
    OBVIOUS
  <2>3. c \in {Plain("free"), Plain("data"), EmptyTable("l2"), EmptyTable("l3")} /\ c.kind = "data"
    BY <2>2 DEF Plain
  <2>4. PICK D : D = [G EXCEPT ![f] = c] /\ Confined(F, D, T, l1) /\ D[f] = c
    BY <1>1, <2>1, <2>3, StrayFrame
  <2>5. PICK left \in Nat \ {0} : left = k /\ left = size - n
    BY <1>1, <1>6
  <2>6. PICK made : made = create_mapping(D, l1, va, f, left)
    OBVIOUS
  <2>7. Stays(F, D, T, l1, made)
    <3>1. va \in 0..15 /\ f \in Nat /\ va + left <= 16
      BY <2>1, <2>5, HeapNumber
    <3>. QED BY <2>4, <2>6, <3>1, StrayMapping
  <2>8. PICK H, a, b, d, e : made = Loop(H, a, b, d, e) /\ Confined(F, H, T, l1) /\ SameKinds(D, H)
    BY <2>7 DEF Stays
  <2>9. made.F = H /\ made.err = e
    BY <2>8, LoopIs
  <2>10. r = IF made.err = "ok" THEN [w EXCEPT !.F = made.F, !.left = @ - 1, !.got = Append(@, f)]
            ELSE [w EXCEPT !.F = os_memory_free_frame(made.F, f), !.err = made.err]
    <3>1. made = create_mapping([w.F EXCEPT ![f] = Plain("data")], l1, va, f, w.left)
      BY <1>2, <2>2, <2>4, <2>5, <2>6
    <3>2. f = NextFrame(w.F) /\ FreeFrames(w.F) # {} /\ w.err = "ok"
      BY <1>2, <1>6, <2>1
    <3>. QED BY <3>1, <3>2, Zenon DEF AutoStep
  <2>11. CASE e = "ok"
    <3>1. r = [w EXCEPT !.F = H, !.left = @ - 1, !.got = Append(@, f)]
      BY <2>9, <2>10, <2>11
    <3>2. PICK y, z : y = left - 1 /\ z = Append(q, f)
      OBVIOUS
    <3>3. r = Segment(H, y, z, "ok")
      BY <1>1, <1>6, <2>5, <3>1, <3>2 DEF Segment
    <3>4. z \in Seq(HeapFrame) /\ Len(z) <= n + 1 /\ y = size - (n + 1)
      BY <1>1, <2>1, <2>5, <3>2
    <3>. QED BY <2>8, <3>3, <3>4 DEF AutoAt
  <2>12. CASE e # "ok"
    <3>1. H[f].kind = "data" /\ "data" # "free"
      <4>1. f \in AnyFrame
        BY <2>1 DEF AnyFrame
      <4>. QED BY <2>3, <2>4, <2>8, <4>1 DEF SameKinds
    <3>2. PICK x : x = Plain("free")
      OBVIOUS
    <3>3. x \in {Plain("free"), Plain("data"), EmptyTable("l2"), EmptyTable("l3")}
      BY <3>2
    <3>4. PICK K : K = [H EXCEPT ![f] = x] /\ Confined(F, K, T, l1)
      <4>1. H[f].kind \in {"free", "data"}
        BY <3>1
      <4>. QED BY <2>1, <2>8, <3>3, <4>1, StrayFrame
    <3>5. os_memory_free_frame(H, f) = K
      BY <3>1, <3>2, <3>4, FreeFrameIs
    <3>6. r = [w EXCEPT !.F = K, !.err = e]
      BY <2>9, <2>10, <2>12, <3>5
    <3>7. r = Segment(K, k, q, e)
      BY <1>1, <3>6 DEF Segment
    <3>. QED BY <1>1, <1>3, <2>12, <3>4, <3>7 DEF AutoAt
  <2>. QED BY <2>11, <2>12
<1>. QED BY <1>4, <1>5, <1>6

\* A whole segment.
LEMMA StraySegment ==
  ASSUME NEW F, NEW T, NEW v, F = frames, Confined(F, F, T, vtable[v]), NEW va \in 1..15,
         NEW size \in Nat \ {0}, va + size <= 16, os_mmu_create_mapping_auto(v, va, size)
  PROVE  \E w : AutoResult(v, va, size, w) /\ AutoAt(F, T, vtable[v], size, size, w)
<1>1. PICK l1 : l1 = vtable[v]
  OBVIOUS
<1>2. PICK g : /\ AutoResult(v, va, size, g[size]) /\ g[0] = [F |-> frames, left |-> size, got |-> <<>>, err |-> "ok"]
               /\ \A n \in 1..size : g[n] = AutoStep(g[n - 1], vtable[v], va)
  BY RunsAuto
<1>. DEFINE S == {n \in Nat : AutoAt(F, T, l1, size, n, g[n])}
<1>3. 0 \in S
  <2>1. g[0] = Segment(F, size, <<>>, "ok")
    BY <1>2 DEF Segment
  <2>2. <<>> \in Seq(HeapFrame) /\ Len(<<>>) <= 0 /\ size = size - 0
    OBVIOUS
  <2>3. Confined(F, F, T, l1)
    BY <1>1
  <2>. QED BY <2>1, <2>2, <2>3 DEF AutoAt
<1>4. ASSUME NEW n \in 0..(size - 1), n \in S PROVE n + 1 \in S
  <2>1. g[n + 1] = AutoStep(g[n], l1, va)
    <3>1. n + 1 \in 1..size /\ (n + 1) - 1 = n
      OBVIOUS
    <3>. QED BY <1>1, <1>2, <3>1
  <2>2. AutoAt(F, T, l1, size, n, g[n])
    BY <1>4
  <2>3. PICK w, r : w = g[n] /\ r = g[n + 1]
    OBVIOUS
  <2>4. AutoAt(F, T, l1, size, n + 1, r)
    <3>1. AutoAt(F, T, l1, size, n, w) /\ r = AutoStep(w, l1, va)
      BY <2>1, <2>2, <2>3
    <3>. QED BY <3>1, StrayStep
  <2>. QED BY <2>3, <2>4
<1>5. size \in S
  <2>1. \A n \in 0..(size - 1) : n \in S => n + 1 \in S
    BY <1>4
  <2>. HIDE DEF S
  <2>2. \A n \in 0..size : n \in S
    BY <1>3, <2>1, UpTo
  <2>. QED BY <2>2
<1>. QED BY <1>1, <1>2, <1>5

\* Where it starts.
LEMMA StrayStart ==
  ASSUME NEW F, Tidy(F), NEW l1 \in HeapFrame, F[l1].kind = "l1",
         NEW T, T = Tree(F, l1) \cup FreeFrames(F)
  PROVE  Confined(F, F, T, l1)
<1>1. FramesTyped(F) /\ SlotsTyped(F)
  BY DEF Tidy
<1>2. /\ l1 \in Tree(F, l1) /\ Tree(F, l1) \subseteq HeapFrame /\ T \subseteq HeapFrame /\ l1 \in T
      /\ FreeFrames(F) \subseteq T /\ \A f \in FreeFrames(F) : f \in HeapFrame /\ F[f].kind = "free"
  BY TreeIs DEF FreeFrames
<1>3. ASSUME NEW t \in Tree(F, l1), NEW i, NEW k \in {"l2", "l3"}, F[t].entry[i] < 0, IsSlot(F, t, i),
             F[Target(F, t, i)].kind = k, F[t].entry[i] = -Target(F, t, i)
      PROVE  Fits(F, T, F[t].entry[i], k)
  <2>1. PICK x \in HeapFrame : x = Target(F, t, i)
    BY <1>1, <1>2, <1>3, SlotLeads
  <2>2. x \in Tree(F, l1)
    BY <1>2, <1>3, <2>1, TreeClosed
  <2>3. -F[t].entry[i] = x
    BY <1>3, <2>1, HeapNumber
  <2>. QED BY <1>2, <1>3, <2>1, <2>2, <2>3 DEF Fits
<1>4. ASSUME NEW i \in 0..3 PROVE Leads(F, T, l1, i, "l2")
  <2>1. CASE F[l1].entry[i] = 0
    BY <2>1 DEF Leads, Fits
  <2>2. CASE F[l1].entry[i] # 0
    <3>1. IsSlot(F, l1, i)
      BY <2>2, SlotIs DEF Entries
    <3>2. F[l1].entry[i] < 0 /\ F[l1].entry[i] = -Target(F, l1, i) /\ F[Target(F, l1, i)].kind = "l2"
      BY <1>1, <3>1, SlotLeads
    <3>. QED BY <1>2, <1>3, <3>1, <3>2 DEF Leads
  <2>. QED BY <2>1, <2>2
<1>5. ASSUME NEW t \in T, NEW i \in 0..1, F[t].kind = "l2" PROVE Leads(F, T, t, i, "l3")
  <2>1. t \in Tree(F, l1)
    BY <1>2, <1>5
  <2>2. CASE F[t].entry[i] = 0
    BY <2>2 DEF Leads, Fits
  <2>3. CASE F[t].entry[i] # 0
    <3>1. IsSlot(F, t, i)
      BY <1>5, <2>3, SlotIs DEF Entries
    <3>2. F[t].entry[i] < 0 /\ F[t].entry[i] = -Target(F, t, i) /\ F[Target(F, t, i)].kind = "l3"
      BY <1>1, <1>2, <1>5, <3>1, SlotLeads
    <3>. QED BY <1>3, <2>1, <3>1, <3>2 DEF Leads
  <2>. QED BY <2>2, <2>3
<1>. QED BY <1>1, <1>2, <1>4, <1>5 DEF Confined

\* Walks from other first levels do not come there.
LEMMA OtherWalks ==
  ASSUME NEW F, FramesTyped(F), BlocksAbove(F), Tidy(F), NEW l1 \in HeapFrame, F[l1].kind = "l1",
         NEW T, T = Tree(F, l1) \cup FreeFrames(F), NEW G, \A u \in AnyFrame : u \notin T => G[u] = F[u],
         NEW m \in AnyFrame, m # l1, F[m].kind = "l1"
  PROVE  SameWalks(F, G, m)
<1>1. SlotsTyped(F)
  BY DEF Tidy
<1>2. ASSUME NEW u \in AnyFrame, u \notin Tree(F, l1), F[u].kind # "free" PROVE G[u] = F[u]
  <2>1. u \notin T
    BY <1>2 DEF FreeFrames
  <2>. QED BY <2>1
<1>3. m \notin Tree(F, l1)
  BY TreeIs
<1>4. ASSUME NEW q \in AddressSpace PROVE Walk(G, m, q) = Walk(F, m, q)
  <2>1. PICK a, b, c : a = E1(F, m, q) /\ b = E2(F, m, q) /\ c = E3(F, m, q)
    OBVIOUS
  <2>2. /\ a \in Int
        /\ a < 0 =>
             /\ m \in HeapFrame /\ IsSlot(F, m, OS_MMU_L1_ID(q)) /\ Target(F, m, OS_MMU_L1_ID(q)) = -a
             /\ -a \in HeapFrame /\ F[-a].kind = "l2" /\ b \in Int
             /\ b = 0 \/ /\ b < 0 /\ IsSlot(F, -a, OS_MMU_L2_ID(q)) /\ Target(F, -a, OS_MMU_L2_ID(q)) = -b
                         /\ -b \in HeapFrame /\ F[-b].kind = "l3"
    BY <1>1, <2>1, Path
  <2>3. E1(G, m, q) = a
    BY <1>2, <1>3, <2>1 DEF E1
  <2>4. ASSUME a < 0 PROVE -a \notin Tree(F, l1) /\ E2(G, m, q) = b
    <3>1. PICK x \in HeapFrame : x = -a /\ x \in AnyFrame
      BY <2>2, <2>4, HeapNumber
    <3>2. x \notin Tree(F, l1)
      BY <1>3, <2>2, <2>4, <3>1, TreeClosed
    <3>3. G[x] = F[x]
      BY <1>2, <2>2, <2>4, <3>1, <3>2
    <3>4. E2(G, m, q) = G[x].entry[OS_MMU_L2_ID(q)] /\ b = F[x].entry[OS_MMU_L2_ID(q)]
      BY <2>1, <2>3, <3>1 DEF E2
    <3>. QED BY <3>1, <3>2, <3>3, <3>4
  <2>5. ASSUME a < 0, b < 0 PROVE E3(G, m, q) = c
    <3>1. PICK x \in HeapFrame, y \in HeapFrame : x = -a /\ y = -b /\ y \in AnyFrame
      BY <2>2, <2>5, HeapNumber
    <3>2. IsSlot(F, x, OS_MMU_L2_ID(q)) /\ Target(F, x, OS_MMU_L2_ID(q)) = y /\ F[y].kind = "l3"
      BY <2>2, <2>5, <3>1
    <3>3. y \notin Tree(F, l1)
      BY <2>4, <2>5, <3>1, <3>2, TreeClosed
    <3>4. G[y] = F[y]
      BY <1>2, <3>1, <3>2, <3>3
    <3>5. E3(G, m, q) = G[y].entry[OS_MMU_L3_ID(q)] /\ c = F[y].entry[OS_MMU_L3_ID(q)]
      BY <2>1, <2>4, <2>5, <3>1 DEF E3
    <3>. QED BY <3>4, <3>5
  <2>6. Walk(F, m, q) = IF a >= 0 THEN <<a, 4>> ELSE IF b >= 0 THEN <<b, 2>> ELSE <<c, 1>>
    BY <2>1, WalkEnds
  <2>7. Walk(G, m, q) = IF a >= 0 THEN <<a, 4>> ELSE IF E2(G, m, q) >= 0 THEN <<E2(G, m, q), 2>> ELSE <<E3(G, m, q), 1>>
    BY <2>3, WalkEnds
  <2>8. CASE a >= 0
    BY <2>6, <2>7, <2>8
  <2>9. CASE a < 0 /\ b >= 0
    BY <2>2, <2>4, <2>6, <2>7, <2>9
  <2>10. CASE a < 0 /\ b < 0
    BY <2>2, <2>4, <2>5, <2>6, <2>7, <2>10, SMTT(30)
  <2>. QED BY <2>2, <2>8, <2>9, <2>10
<1>5. ASSUME NEW H, NEW p \in Nat PROVE Walk(H, m, p) = Walk(H, m, p % 32)
  BY EffectiveParts DEF Walk
<1>. QED BY <1>4, <1>5, EffectiveParts DEF SameWalks

\* The kernel's and IO's pages stay.
LEMMA UpperWalks ==
  ASSUME NEW F, FramesTyped(F), BlocksAbove(F), NEW G, NEW T, NEW l1, Confined(F, G, T, l1), F[l1].kind = "l1",
         NEW p \in AddressSpace, p >= KERNEL_START
  PROVE  Translate(G, l1, p) = Translate(F, l1, p)
<1>1. l1 \in AnyFrame /\ \A i \in 4..7 : G[l1].entry[i] = F[l1].entry[i]
  BY DEF Confined, AnyFrame
<1>2. PICK i \in 4..7 : i = OS_MMU_L1_ID(p)
  <2>1. OS_MMU_L1_ID(p) \in 0..7 /\ (OS_MMU_L1_ID(p) <= 3 <=> p < KERNEL_START)
    BY Parts, SMTT(30)
  <2>2. OS_MMU_L1_ID(p) > 3
    BY <2>1 DEF KERNEL_START, AddressSpace
  <2>. QED BY <2>1, <2>2
<1>3. E1(F, l1, p) >= 0 /\ E1(F, l1, p) \in Int /\ E1(G, l1, p) = E1(F, l1, p)
  <2>1. F[l1].entry \in [0..7 -> Int] /\ F[l1].entry[i] >= 0
    BY <1>1, FrameKinds DEF Entries, BlocksAbove
  <2>. QED BY <1>1, <1>2, <2>1 DEF E1
<1>. QED BY <1>3, SameWay

\* A segment of more than one page spoils the user's part of its page table, and no more.
LEMMA AutoStrays ==
  ASSUME MmuSound, NEW v \in UserVtable, NEW va \in 1..15, NEW size \in Nat \ {0}, size > 1, va + size <= 16,
         os_mmu_create_mapping_auto(v, va, size), FreeFrames(frames) # {}
  PROVE  MmuStrayed'
<1>1. PICK F, V, X, M : /\ F = frames /\ V = vtable /\ X = leaked /\ M = intended
                        /\ TablesSound(F, V, X) /\ Exact(F, V, M) /\ Stages
  BY DEF MmuSound
<1>2. FramesTyped(F) /\ BlocksAbove(F) /\ Tidy(F) /\ Rooted(F, V)
  BY <1>1 DEF TablesSound, Tidy
<1>3. vtable[v] # 0
  <2>1. PICK w : AutoResult(v, va, size, w)
    BY RunsAuto
  <2>. QED BY <2>1 DEF AutoResult
<1>4. PICK l1 \in HeapFrame : l1 = V[v] /\ F[l1].kind = "l1"
  BY <1>1, <1>2, <1>3, OwnRoots
<1>5. PICK T : T = Tree(F, l1) \cup FreeFrames(F)
  OBVIOUS
<1>6. Confined(F, F, T, l1)
  BY <1>2, <1>4, <1>5, StrayStart
<1>7. PICK w : AutoResult(v, va, size, w) /\ AutoAt(F, T, vtable[v], size, size, w)
  <2>1. Confined(F, F, T, vtable[v])
    BY <1>1, <1>4, <1>6
  <2>. QED BY <1>1, <2>1, StraySegment
<1>8. PICK G, k, q, err : /\ w = Segment(G, k, q, err) /\ Confined(F, G, T, l1)
                          /\ q \in Seq(HeapFrame) /\ Len(q) <= size
  BY <1>1, <1>4, <1>7 DEF AutoAt
<1>9. w.F = G /\ w.got = q
  BY <1>8, SegmentIs
<1>10. PICK given : given = Range4(va, Len(q))
  OBVIOUS
<1>11. /\ Ready /\ frames' = G /\ vtable' = V /\ os_mmu_preinitialized' = os_mmu_preinitialized /\ strayed' = v
       /\ intended' = [intended EXCEPT ![v] =
                         [p \in DOMAIN @ \cup given |-> IF p \in given THEN q[p - va + 1] ELSE @[p]]]
  BY <1>1, <1>7, <1>9, <1>10 DEF AutoResult
<1>12. \A p \in given : p < KERNEL_START
  <2>1. Len(q) \in Nat /\ va + Len(q) - 1 <= 15
    BY <1>8
  <2>. QED BY <1>10, <2>1 DEF Range4, KERNEL_START
<1>13. v \in AnyVtable /\ DOMAIN intended = AnyVtable /\ DOMAIN M = AnyVtable
  BY <1>1 DEF Exact, AnyVtable
<1>14. DOMAIN intended' = AnyVtable /\ \A u \in AnyVtable : u # v => intended'[u] = M[u]
  BY <1>1, <1>11, <1>13
<1>15. intended'[v] = [p \in DOMAIN M[v] \cup given |-> IF p \in given THEN q[p - va + 1] ELSE M[v][p]]
  BY <1>1, <1>11, <1>13
<1>16. \A p \in AddressSpace : p >= KERNEL_START =>
         /\ p \in DOMAIN intended'[v] <=> p \in DOMAIN M[v]
         /\ p \in DOMAIN M[v] => intended'[v][p] = M[v][p]
  <2>. SUFFICES ASSUME NEW p \in AddressSpace, p >= KERNEL_START
                PROVE  /\ p \in DOMAIN intended'[v] <=> p \in DOMAIN M[v]
                       /\ p \in DOMAIN M[v] => intended'[v][p] = M[v][p]
    OBVIOUS
  <2>1. p \notin given
    BY <1>12 DEF KERNEL_START, AddressSpace
  <2>. QED BY <1>15, <2>1
<1>17. \A p \in AddressSpace : p >= KERNEL_START => Translate(G, l1, p) = Translate(F, l1, p)
  BY <1>2, <1>4, <1>8, UpperWalks
<1>18. ASSUME NEW u \in AnyVtable, u # v, V[u] # 0 PROVE SameWalks(F, G, V[u])
  <2>1. V[u] \in AnyFrame /\ F[V[u]].kind = "l1" /\ V[u] # l1
    BY <1>1, <1>2, <1>3, <1>4, <1>18, OwnRoots
  <2>2. \A x \in AnyFrame : x \notin T => G[x] = F[x]
    BY <1>8 DEF Confined
  <2>. QED BY <1>2, <1>4, <1>5, <2>1, <2>2, OtherWalks
<1>19. os_mmu_preinitialized' /\ Stages'
  <2>1. vtable["kernel"] # 0
    BY <1>1, <1>11 DEF Stages, Ready
  <2>. QED BY <1>1, <1>11, <2>1 DEF Stages, Ready
<1>20. /\ TablesSound(F, vtable', X) /\ Exact(F, vtable', M)
       /\ \A u \in AnyVtable \ {strayed'} : M[u] = intended'[u] /\ (vtable'[u] # 0 => SameWalks(F, frames', vtable'[u]))
       /\ \A p \in AddressSpace : p >= KERNEL_START =>
            /\ Translate(frames', vtable'[strayed'], p) = Translate(F, vtable'[strayed'], p)
            /\ p \in DOMAIN intended'[strayed'] <=> p \in DOMAIN M[strayed']
            /\ p \in DOMAIN M[strayed'] => intended'[strayed'][p] = M[strayed'][p]
  BY <1>1, <1>4, <1>11, <1>14, <1>16, <1>17, <1>18
<1>21. strayed' \in UserVtable /\ vtable'[strayed'] # 0
  BY <1>1, <1>3, <1>11
<1>. QED BY <1>14, <1>19, <1>20, <1>21 DEF MmuStrayed

\* Without a frame for its first page it is not mapped at all.
LEMMA AutoNothing ==
  ASSUME MmuSound, NEW v \in UserVtable, NEW va \in 1..15, NEW size \in Nat \ {0},
         os_mmu_create_mapping_auto(v, va, size), FreeFrames(frames) = {}
  PROVE  MmuSound'
<1>1. PICK g : /\ AutoResult(v, va, size, g[size]) /\ g[0] = [F |-> frames, left |-> size, got |-> <<>>, err |-> "ok"]
               /\ \A n \in 1..size : g[n] = AutoStep(g[n - 1], vtable[v], va)
  BY RunsAuto
<1>2. g[0] = Segment(frames, size, <<>>, "ok")
  BY <1>1 DEF Segment
<1>3. PICK stuck : stuck = Segment(frames, size, <<>>, "ENOMEM")
  OBVIOUS
<1>4. stuck.F = frames /\ stuck.got = <<>> /\ stuck.err # "ok"
  BY <1>3, SegmentIs
<1>5. g[1] = stuck
  <2>1. 1 \in 1..size /\ 1 - 1 = 0
    OBVIOUS
  <2>2. g[1] = AutoStep(g[0], vtable[v], va)
    BY <1>1, <2>1
  <2>3. PICK w : w = g[0]
    OBVIOUS
  <2>4. w.F = frames /\ w.err = "ok"
    BY <1>2, <2>3, SegmentIs
  <2>5. AutoStep(w, vtable[v], va) = [w EXCEPT !.err = "ENOMEM"]
    BY <2>4, Zenon DEF AutoStep
  <2>. QED BY <1>2, <1>3, <2>2, <2>3, <2>5 DEF Segment
<1>. DEFINE S == {n \in Nat : g[n] = stuck}
<1>6. size \in S
  <2>1. 1 \in S
    BY <1>5
  <2>2. ASSUME NEW n \in 1..(size - 1), n \in S PROVE n + 1 \in S
    <3>1. n + 1 \in 1..size /\ (n + 1) - 1 = n
      OBVIOUS
    <3>2. g[n + 1] = AutoStep(stuck, vtable[v], va)
      BY <1>1, <2>2, <3>1
    <3>3. AutoStep(stuck, vtable[v], va) = stuck
      BY <1>4, Zenon DEF AutoStep
    <3>. QED BY <3>2, <3>3
  <2>3. \A n \in 1..(size - 1) : n \in S => n + 1 \in S
    BY <2>2
  <2>. HIDE DEF S
  <2>4. \A n \in 1..size : n \in S
    <3>1. 1 \in Nat /\ size \in Nat
      OBVIOUS
    <3>. QED BY <2>1, <2>3, <3>1, UpTo
  <2>. QED BY <2>4
<1>7. AutoResult(v, va, size, stuck)
  BY <1>1, <1>6
<1>8. Range4(va, Len(<<>>)) = {}
  <2>1. Len(<<>>) = 0
    OBVIOUS
  <2>. QED BY <2>1 DEF Range4
<1>9. /\ Ready /\ frames' = frames /\ vtable' = vtable /\ os_mmu_preinitialized' = os_mmu_preinitialized
      /\ strayed' = strayed
      /\ leaked' = leaked \cup {f \in HeapFrame : \E p \in Range4(va, Len(<<>>)) : Translate(frames, vtable[v], p) = f}
      /\ intended' = [intended EXCEPT ![v] =
                        [p \in DOMAIN @ \cup Range4(va, Len(<<>>)) |->
                           IF p \in Range4(va, Len(<<>>)) THEN <<>>[p - va + 1] ELSE @[p]]]
  BY <1>4, <1>7 DEF AutoResult
<1>10. leaked' = leaked
  BY <1>8, <1>9
<1>11. Exact(frames, vtable, intended) /\ Stages /\ TablesSound(frames, vtable, leaked) /\ strayed = "none"
  BY DEF MmuSound
<1>12. DOMAIN intended = AnyVtable /\ v \in AnyVtable
  BY <1>11 DEF Exact, AnyVtable
<1>13. DOMAIN intended' = AnyVtable /\ \A u \in AnyVtable : /\ DOMAIN intended'[u] = DOMAIN intended[u]
                                                           /\ \A p \in DOMAIN intended[u] : intended'[u][p] = intended[u][p]
  <2>1. intended'[v] = [p \in DOMAIN intended[v] |-> intended[v][p]]
    <3>1. PICK given : given = Range4(va, Len(<<>>))
      OBVIOUS
    <3>2. intended'[v] = [p \in DOMAIN intended[v] \cup given |-> IF p \in given THEN <<>>[p - va + 1] ELSE intended[v][p]]
      BY <1>9, <1>12, <3>1
    <3>. QED BY <1>8, <3>1, <3>2
  <2>2. DOMAIN intended' = AnyVtable /\ \A u \in AnyVtable : u # v => intended'[u] = intended[u]
    BY <1>9, <1>12
  <2>. QED BY <2>1, <2>2
<1>14. Exact(frames, vtable, intended')
  BY <1>11, <1>13 DEF Exact
<1>15. Stages'
  <2>1. vtable["kernel"] # 0
    BY <1>9, <1>11 DEF Stages, Ready
  <2>. QED BY <1>9, <1>11, <2>1 DEF Stages
<1>. QED BY <1>9, <1>10, <1>11, <1>14, <1>15 DEF MmuSound

-----------------------------------------------------------------------------

\* At first all frames are free and the kernel's tables are empty.
LEMMA MmuInitInv ==
  ASSUME MmuInit
  PROVE  MmuInv
<1>1. PICK F, V : /\ F = frames /\ V = vtable
                  /\ F = [f \in AnyFrame |-> IF f \in HeapFrame THEN Plain("free") ELSE EmptyTable("l1")]
                  /\ V = [v \in AnyVtable |-> 0] /\ ~os_mmu_preinitialized
                  /\ intended = [v \in AnyVtable |-> [p \in {} |-> 0]]
                  /\ leaked = {} /\ strayed = "none"
  BY DEF MmuInit, AnyFrame
<1>2. /\ kernel_l1_pagetable \in AnyFrame /\ kernel_l1_jump_pagetable \in AnyFrame /\ HeapFrame \subseteq AnyFrame
      /\ kernel_l1_pagetable \notin HeapFrame /\ kernel_l1_jump_pagetable \notin HeapFrame
      /\ "kernel" \in AnyVtable /\ "jump" \in AnyVtable /\ UserVtable \subseteq AnyVtable
  BY FramesAre DEF AnyFrame, AnyVtable, kernel_l1_pagetable, kernel_l1_jump_pagetable
<1>3. /\ EmptyTable("l1").kind = "l1" /\ \A i \in 0..7 : EmptyTable("l1").entry[i] = 0
      /\ EmptyTable("l1") \in TablesOf("l1") /\ Plain("free").kind = "free"
  <2>1. [i \in Entries("l1") |-> 0] \in [Entries("l1") -> Int]
    OBVIOUS
  <2>. QED BY <2>1 DEF EmptyTable, TablesOf, Plain, Entries
<1>4. FramesTyped(F)
  <2>1. F \in [AnyFrame -> {Plain("free"), Plain("data")} \cup TablesOf("l1") \cup TablesOf("l2") \cup TablesOf("l3")]
    BY <1>1, <1>3
  <2>. QED BY <1>1, <1>2, <1>3, <2>1 DEF FramesTyped
<1>5. \A t \in HeapFrame : F[t] = Plain("free")
  BY <1>1, <1>2
<1>6. \A t \in HeapFrame : \A i : ~IsSlot(F, t, i)
  BY <1>3, <1>5 DEF IsSlot
<1>7. BlocksAbove(F)
  <2>1. \A t \in AnyFrame : F[t].kind = "l1" => \A i \in 0..7 : F[t].entry[i] = 0
    BY <1>1, <1>3
  <2>2. F[kernel_l1_pagetable].kind = "l1" /\ F[kernel_l1_jump_pagetable].kind = "l1"
    BY <1>1, <1>2, <1>3
  <2>. QED BY <1>2, <2>1, <2>2 DEF BlocksAbove
<1>8. Rooted(F, V)
  <2>1. \A v \in AnyVtable : V[v] = 0
    BY <1>1
  <2>2. V \in [AnyVtable -> {0} \cup AnyFrame]
    BY <1>1
  <2>. QED BY <1>2, <2>1, <2>2 DEF Rooted
<1>9. Owned(F, V, {})
  <2>1. \A f \in HeapFrame : F[f].kind = "free"
    BY <1>3, <1>5
  <2>. QED BY <1>6, <2>1 DEF Owned
<1>10. TablesSound(F, V, {})
  BY <1>4, <1>6, <1>7, <1>8, <1>9 DEF TablesSound, SlotsTyped, SlotsUnique
<1>11. Exact(F, V, intended)
  <2>1. DOMAIN intended = AnyVtable /\ \A v \in AnyVtable : DOMAIN intended[v] = {} /\ V[v] = 0
    BY <1>1
  <2>. QED BY <2>1 DEF Exact
<1>. QED BY <1>1, <1>10, <1>11 DEF MmuInv, MmuSound, Stages

\* Every action keeps the invariant: after a segment of more than one page there is none.
LEMMA MmuNextInv ==
  ASSUME MmuInv, [MmuNext]_mmuVars
  PROVE  MmuInv'
<1>1. CASE UNCHANGED mmuVars
  <2>1. CASE MmuSound
    BY <1>1, <2>1 DEF MmuInv, MmuSound, Stages, mmuVars
  <2>2. CASE MmuStrayed
    BY <1>1, <2>2 DEF MmuInv, MmuStrayed, Stages, mmuVars
  <2>. QED BY <2>1, <2>2 DEF MmuInv
<1>2. CASE MmuNext /\ MmuSound
  <2>1. CASE os_mmu_preinit
    BY <1>2, <2>1, PreinitKept DEF MmuInv
  <2>2. CASE os_mmu_preinit_secondary
    BY <1>2, <2>2, SecondaryKept DEF MmuInv
  <2>3. CASE os_mmu_create_io_mapping
    BY <1>2, <2>3, CreateIoKept DEF MmuInv
  <2>4. CASE os_mmu_remove_io_mapping
    BY <1>2, <2>4, RemoveIoKept DEF MmuInv
  <2>5. CASE os_mmu_page_fault_handler
    BY <1>2, <2>5, FaultKept DEF MmuInv
  <2>6. ASSUME NEW v \in UserVtable, os_mmu_vtable_create(v) PROVE MmuInv'
    BY <1>2, <2>6, CreateKept DEF MmuInv
  <2>7. ASSUME NEW v \in UserVtable, CopyMappings(v) PROVE MmuInv'
    BY <1>2, <2>7, CopyMappingsKept DEF MmuInv
  <2>8. ASSUME NEW v \in UserVtable, os_clone_copy_memory(v) PROVE MmuInv'
    BY <1>2, <2>8, CloneKept DEF MmuInv
  <2>9. ASSUME NEW v \in UserVtable, os_mmu_switch(v) PROVE MmuInv'
    BY <1>2, <2>9, SwitchKept DEF MmuInv
  <2>10. ASSUME NEW v \in UserVtable, os_mmu_vtable_remove(v) PROVE MmuInv'
    BY <1>2, <2>10, RemoveKept DEF MmuInv
  <2>11. ASSUME NEW v \in UserVtable, NEW va \in UserVa, NEW size \in AutoSize,
                va + size <= USER_SIZE, os_mmu_create_mapping_auto(v, va, size)
         PROVE  MmuInv'
    <3>1. va \in 1..15 /\ size \in Nat \ {0} /\ va + size <= 16
      BY <2>11, MmuAssumption DEF USER_REAL_START, USER_SIZE
    <3>2. CASE size = 1
      BY <1>2, <2>11, <3>1, <3>2, AutoKept DEF MmuInv
    <3>3. CASE FreeFrames(frames) = {}
      BY <1>2, <2>11, <3>1, <3>3, AutoNothing DEF MmuInv
    <3>4. CASE size # 1 /\ FreeFrames(frames) # {}
      <4>1. size > 1
        BY <3>1, <3>4
      <4>. QED BY <1>2, <2>11, <3>1, <3>4, <4>1, AutoStrays DEF MmuInv
    <3>. QED BY <3>2, <3>3, <3>4
  <2>. QED BY <1>2, <2>1, <2>2, <2>3, <2>4, <2>5, <2>6, <2>7, <2>8, <2>9, <2>10, <2>11 DEF MmuNext
<1>3. CASE MmuNext /\ MmuStrayed
  <2>1. vtable["kernel"] # 0 /\ vtable["jump"] = 0 /\ ~Ready
    <3>1. strayed # "none"
      BY <1>3, MmuAssumption DEF MmuStrayed
    <3>. QED BY <1>3, <3>1 DEF MmuStrayed, Stages, Ready
  <2>2. ~os_mmu_preinit /\ ~os_mmu_preinit_secondary
    BY <2>1 DEF os_mmu_preinit, os_mmu_preinit_secondary
  <2>3. ~os_mmu_create_io_mapping /\ ~os_mmu_remove_io_mapping /\ ~os_mmu_page_fault_handler
    BY <2>1 DEF os_mmu_create_io_mapping, os_mmu_remove_io_mapping, os_mmu_page_fault_handler
  <2>4. ASSUME NEW v \in UserVtable
        PROVE  /\ ~os_mmu_vtable_create(v) /\ ~CopyMappings(v) /\ ~os_clone_copy_memory(v)
               /\ ~os_mmu_switch(v) /\ ~os_mmu_vtable_remove(v)
    BY <2>1, Zenon DEF os_mmu_vtable_create, CopyMappings, os_clone_copy_memory, os_mmu_switch, os_mmu_vtable_remove
  <2>5. ASSUME NEW v \in UserVtable, NEW va \in UserVa, NEW size \in AutoSize, os_mmu_create_mapping_auto(v, va, size)
        PROVE  FALSE
    <3>1. size \in Nat
      BY MmuAssumption
    <3>2. PICK w : AutoResult(v, va, size, w)
      BY <2>5, <3>1, RunsAuto
    <3>. QED BY <2>1, <3>2 DEF AutoResult
  <2>. QED BY <1>3, <2>2, <2>3, <2>4, <2>5 DEF MmuNext
<1>. QED BY <1>1, <1>2, <1>3 DEF MmuInv

\* The invariant holds throughout.
LEMMA MmuInvariant == MmuSpec => []MmuInv
<1>1. MmuInit => MmuInv
  BY MmuInitInv
<1>2. MmuInv /\ [MmuNext]_mmuVars => MmuInv'
  BY MmuNextInv
<1>. QED BY <1>1, <1>2, PTL DEF MmuSpec

\* What a page table translates, unless it is spoilt.
LEMMA SoundPart ==
  ASSUME MmuInv, NEW v \in AnyVtable \ {strayed}, vtable[v] # 0
  PROVE  \E F, M : /\ FirstLevel(F, vtable[v]) /\ SameWalks(F, frames, vtable[v])
                   /\ Exact(F, vtable, M) /\ M[v] = intended[v]
<1>1. CASE MmuSound
  <2>1. SameWalks(frames, frames, vtable[v])
    BY DEF SameWalks
  <2>2. Exact(frames, vtable, intended) /\ TablesSound(frames, vtable, leaked)
    BY <1>1 DEF MmuSound
  <2>3. FirstLevel(frames, vtable[v])
    BY <2>2, OwnRoots DEF TablesSound, FirstLevel
  <2>. QED BY <2>1, <2>2, <2>3
<1>2. CASE MmuStrayed
  <2>1. PICK F, X, M : /\ TablesSound(F, vtable, X) /\ Exact(F, vtable, M)
                       /\ M[v] = intended[v] /\ SameWalks(F, frames, vtable[v])
    BY <1>2 DEF MmuStrayed
  <2>2. FirstLevel(F, vtable[v])
    BY <2>1, OwnRoots DEF TablesSound, FirstLevel
  <2>. QED BY <2>1, <2>2
<1>. QED BY <1>1, <1>2 DEF MmuInv

-----------------------------------------------------------------------------
\* Every page table translates exactly the pages that have been asked for, to the frames
\* they were given, and no other page: whatever is mapped, copied, searched or removed in
\* whatever order (os_mmu_create_mapping to os_mmu_remove_all_mapping, arch_mmu.c:37-340).
\* A segment of more than one page (os_mmu.c:83) changes no other page table, and in its
\* own no page of the kernel or of IO.
THEOREM TranslationsAreIntended == MmuSpec => []TranslationIsIntended
<1>1. MmuInv => TranslationIsIntended
  <2>. SUFFICES ASSUME MmuInv, NEW v \in AnyVtable, vtable[v] # 0, NEW p \in AddressSpace,
                       v # strayed \/ p >= KERNEL_START
                PROVE  Translate(frames, vtable[v], p) = IF p \in DOMAIN intended[v] THEN intended[v][p] ELSE -1
    BY DEF TranslationIsIntended
  <2>1. CASE v # strayed
    <3>1. PICK F, M : SameWalks(F, frames, vtable[v]) /\ Exact(F, vtable, M) /\ M[v] = intended[v]
      BY <2>1, SoundPart
    <3>2. Translate(F, vtable[v], p) = IF p \in DOMAIN M[v] THEN M[v][p] ELSE -1
      BY <3>1 DEF Exact
    <3>3. Walk(frames, vtable[v], p) = Walk(F, vtable[v], p)
      BY <3>1 DEF SameWalks, AddressSpace
    <3>. QED BY <3>1, <3>2, <3>3 DEF Translate
  <2>2. CASE v = strayed /\ p >= KERNEL_START
    <3>1. MmuStrayed
      <4>1. strayed # "none"
        BY <2>2, MmuAssumption DEF AnyVtable
      <4>. QED BY <4>1 DEF MmuInv, MmuSound
    <3>2. PICK F, M : /\ Exact(F, vtable, M)
                      /\ Translate(frames, vtable[v], p) = Translate(F, vtable[v], p)
                      /\ p \in DOMAIN intended[v] <=> p \in DOMAIN M[v]
                      /\ p \in DOMAIN M[v] => intended[v][p] = M[v][p]
      BY <2>2, <3>1 DEF MmuStrayed
    <3>3. Translate(F, vtable[v], p) = IF p \in DOMAIN M[v] THEN M[v][p] ELSE -1
      BY <3>2 DEF Exact
    <3>. QED BY <3>2, <3>3
  <2>. QED BY <2>1, <2>2
<1>. QED BY <1>1, MmuInvariant, PTL

\* Who refers to a frame.
LEMMA ReferencesAre ==
  ASSUME MmuSound, NEW f \in HeapFrame
  PROVE  References(f) = IF frames[f].kind = "free" \/ f \in leaked THEN 0 ELSE 1
<1>1. PICK F, V, X : /\ F = frames /\ V = vtable /\ X = leaked
                     /\ FramesTyped(F) /\ SlotsTyped(F) /\ SlotsUnique(F) /\ Rooted(F, V) /\ Owned(F, V, X)
  BY DEF MmuSound, TablesSound
<1>2. PICK A, B : /\ A = {v \in UserVtable : V[v] = f}
                  /\ B = {s \in HeapFrame \X (0..7) : IsSlot(F, s[1], s[2]) /\ Target(F, s[1], s[2]) = f}
                  /\ References(f) = Cardinality(A) + Cardinality(B)
  BY <1>1, Zenon DEF References, Target
<1>3. f \in AnyFrame /\ f # 0
  BY HeapNumber
<1>4. F[f].kind \in {"free", "data", "l1", "l2", "l3"}
  BY <1>1, <1>3, FrameKinds
<1>5. F[f].kind # "l1" => A = {}
  BY <1>1, <1>2, <1>3 DEF Rooted
<1>6. F[f].kind \notin {"l2", "l3", "data"} \/ f \in X => B = {}
  <2>. SUFFICES ASSUME NEW s \in B PROVE F[f].kind \in {"l2", "l3", "data"} /\ f \notin X
    OBVIOUS
  <2>1. PICK t \in HeapFrame, i \in 0..7 : IsSlot(F, t, i) /\ Target(F, t, i) = f
    BY <1>2
  <2>2. f \notin X
    BY <1>1, <2>1 DEF Owned
  <2>. QED BY <1>1, <2>1, <2>2, SlotLeads
<1>7. ASSUME F[f].kind = "l1" PROVE f \notin X /\ \E v : A = {v}
  <2>1. f \notin X
    BY <1>1, <1>7 DEF Owned
  <2>2. PICK v \in UserVtable : V[v] = f
    BY <1>1, <1>7, <2>1 DEF Owned
  <2>3. A = {v}
    BY <1>1, <1>2, <1>3, <2>2 DEF Rooted
  <2>. QED BY <2>1, <2>3
<1>8. ASSUME F[f].kind \in {"l2", "l3", "data"}, f \notin X PROVE \E s : B = {s}
  <2>1. PICK t \in HeapFrame, i \in 0..7 : IsSlot(F, t, i) /\ Target(F, t, i) = f
    BY <1>1, <1>8 DEF Owned
  <2>2. ASSUME NEW s \in HeapFrame \X (0..7), IsSlot(F, s[1], s[2]), Target(F, s[1], s[2]) = f PROVE s = <<t, i>>
    <3>1. PICK u \in HeapFrame, j \in 0..7 : s = <<u, j>> /\ u = s[1] /\ j = s[2]
      OBVIOUS
    <3>2. u = t /\ j = i
      BY <1>1, <2>1, <2>2, <3>1 DEF SlotsUnique
    <3>. QED BY <3>1, <3>2
  <2>3. <<t, i>> \in B
    BY <1>2, <2>1
  <2>4. B = {<<t, i>>}
    BY <1>2, <2>2, <2>3
  <2>. QED BY <2>4
<1>9. Cardinality({}) = 0 /\ \A x : Cardinality({x}) = 1
  BY FS_EmptySet, FS_Singleton
<1>10. CASE F[f].kind = "free" \/ f \in X
  <2>1. F[f].kind # "l1"
    BY <1>7, <1>10
  <2>2. B = {}
    BY <1>6, <1>10
  <2>3. A = {}
    BY <1>5, <2>1
  <2>4. Cardinality(A) = 0 /\ Cardinality(B) = 0
    BY <1>9, <2>2, <2>3
  <2>5. References(f) = 0
    BY <1>2, <2>4
  <2>. QED BY <1>1, <1>10, <2>5
<1>11. CASE F[f].kind = "l1"
  <2>1. Cardinality(A) = 1 /\ Cardinality(B) = 0
    BY <1>6, <1>7, <1>9, <1>11
  <2>2. References(f) = 1 /\ f \notin X
    BY <1>2, <1>7, <1>11, <2>1
  <2>. QED BY <1>1, <1>11, <2>2
<1>12. CASE F[f].kind \in {"l2", "l3", "data"} /\ f \notin X
  <2>1. Cardinality(A) = 0 /\ Cardinality(B) = 1
    BY <1>5, <1>8, <1>9, <1>12
  <2>2. References(f) = 1 /\ F[f].kind # "free"
    BY <1>2, <1>12, <2>1
  <2>. QED BY <1>1, <1>12, <2>2
<1>. QED BY <1>4, <1>10, <1>11, <1>12

\* Every frame that page tables have taken is referred to from one place, and no free one
\* from any: none is lost when a page table goes, none is freed twice and none is freed
\* while it is in use (arch_mmu.c:278-340, os_mmu.c:73-183).  Only pages that are mapped
\* again leave their frames to nobody (arch_mmu.c:70); it is true until a segment has more
\* than one page.
THEOREM AllFramesAccounted == MmuSpec => []FramesAccounted
<1>1. MmuInv => FramesAccounted
  <2>. SUFFICES ASSUME MmuInv, strayed = "none", NEW f \in HeapFrame
                PROVE  References(f) = IF frames[f].kind = "free" \/ f \in leaked THEN 0 ELSE 1
    BY DEF FramesAccounted
  <2>1. MmuSound
    BY MmuAssumption DEF MmuInv, MmuStrayed
  <2>. QED BY <2>1, ReferencesAre
<1>. QED BY <1>1, MmuInvariant, PTL

\* A range of addresses that os_mmu_find_vaddr finds is mapped nowhere, if the search begins
\* where a block of the first level does (arch_mmu.c:342-407).
THEOREM FoundRangesAreFree == MmuSpec => []FindVaddrSound
<1>1. MmuInv => FindVaddrSound
  <2>. SUFFICES ASSUME MmuInv, os_mmu_preinitialized,
                       NEW v \in (UserTables \cup {"kernel"}) \ {strayed}, NEW va \in {4, 8, IO_START}, NEW size \in 1..6,
                       NEW found, found = os_mmu_find_vaddr(v, va, size), found # 0,
                       NEW p \in Range4(found, size)
                PROVE  Translate(frames, vtable[v], p % 32) = -1
    BY DEF FindVaddrSound
  <2>1. va \in Nat /\ va % 4 = 0 /\ size \in Nat \ {0}
    BY DEF IO_START
  <2>2. v \in AnyVtable \ {strayed} /\ vtable[v] # 0
    <3>1. vtable["kernel"] # 0
      BY DEF MmuInv, MmuSound, MmuStrayed, Stages
    <3>. QED BY <3>1 DEF UserTables, AnyVtable
  <2>3. PICK F : FirstLevel(F, vtable[v]) /\ SameWalks(F, frames, vtable[v])
    BY <2>2, SoundPart
  <2>4. found \in Nat /\ Unused(F, vtable[v], found, found + size - 1)
    BY <2>1, <2>3, FoundIsUnused
  <2>5. Translate(F, vtable[v], p % 32) = -1
    BY <2>4 DEF Unused, Range4
  <2>6. p % 32 \in Nat
    <3>1. p \in Nat
      BY <2>4 DEF Range4
    <3>. QED BY <3>1
  <2>. QED BY <2>3, <2>5, <2>6 DEF SameWalks, Translate
<1>. QED BY <1>1, MmuInvariant, PTL

\* A page that a copy touches is one of the user's, in user space.
LEMMA UserPage ==
  ASSUME MmuInv, NEW v \in UserTables, v # strayed, NEW va \in AddressSpace,
         NEW p, p = os_mmu_user_va_to_kernel_va(v, va), p # -1
  PROVE  va < KERNEL_START /\ va \in DOMAIN intended[v] /\ intended[v][va] = p
<1>1. PICK F, l1, M : /\ l1 = vtable[v] /\ l1 # 0 /\ v \in AnyVtable /\ FirstLevel(F, l1)
                      /\ SameWalks(F, frames, l1) /\ Exact(F, vtable, M) /\ M[v] = intended[v]
  <2>1. v \in AnyVtable \ {strayed} /\ vtable[v] # 0
    BY DEF UserTables, AnyVtable
  <2>. QED BY <2>1, SoundPart
<1>2. PICK a, b, c : a = E1(F, l1, va) /\ b = E2(F, l1, va) /\ c = E3(F, l1, va)
  OBVIOUS
<1>3. /\ a \in Int /\ (a < 0 => va < KERNEL_START /\ b \in Int /\ (b = 0 \/ (b < 0 /\ c \in Int /\ (c = 0 \/ c > 0))))
  BY <1>1, <1>2, Path DEF FirstLevel
<1>4. Walk(F, l1, va) = IF a >= 0 THEN <<a, 4>> ELSE IF b >= 0 THEN <<b, 2>> ELSE <<c, 1>>
  BY <1>2, WalkEnds
<1>5. PICK w : w = Walk(F, l1, va)
  OBVIOUS
<1>6. w[1] # 0 /\ w[2] = 1 /\ p = __get_ppn(w[1])
  <2>1. w = Walk(frames, vtable[v], va)
    BY <1>1, <1>5 DEF SameWalks, AddressSpace
  <2>. QED BY <2>1 DEF os_mmu_user_va_to_kernel_va, OS_MMU_L3_SIZE
<1>7. a < 0 /\ b < 0 /\ w[1] = c /\ c > 0
  <2>1. CASE a >= 0
    BY <1>4, <1>5, <1>6, <2>1
  <2>2. CASE a < 0 /\ b >= 0
    BY <1>4, <1>5, <1>6, <2>2
  <2>3. CASE a < 0 /\ b < 0
    BY <1>3, <1>4, <1>5, <1>6, <2>3
  <2>. QED BY <1>3, <2>1, <2>2, <2>3
<1>8. Translate(F, l1, va) = c - 1 /\ p = c - 1 /\ va < KERNEL_START
  BY <1>2, <1>3, <1>6, <1>7, TranslateIs DEF __get_ppn
<1>9. Translate(F, l1, va) = IF va \in DOMAIN intended[v] THEN intended[v][va] ELSE -1
  BY <1>1 DEF Exact
<1>. QED BY <1>8, <1>9

\* The pages of a copy are those of the user, one after the other.
LEMMA CopyPages ==
  ASSUME NEW v, NEW va \in {0, 1, 2, 14, 15}, NEW size \in 1..4, NEW p \in ToSet(os_copy_user(v, va, size))
  PROVE  \E q \in AddressSpace : p = os_mmu_user_va_to_kernel_va(v, q) /\ p # -1
<1>1. PICK pages : pages = [i \in 1..size |-> os_mmu_user_va_to_kernel_va(v, va + i - 1)]
  OBVIOUS
<1>2. PICK failed : failed = {i \in 1..size : pages[i] = -1}
  OBVIOUS
<1>3. os_copy_user(v, va, size)
      = IF va < USER_REAL_START \/ va >= USER_START + USER_SIZE THEN <<>>
        ELSE IF failed = {} THEN pages ELSE SubSeq(pages, 1, Min(failed) - 1)
  BY <1>1, <1>2, Zenon DEF os_copy_user
<1>4. PICK s : s = os_copy_user(v, va, size) /\ p \in ToSet(s)
  OBVIOUS
<1>5. \E i \in 1..size : p = pages[i] /\ p # -1
  <2>1. CASE s = <<>>
    BY <1>4, <2>1 DEF ToSet
  <2>2. CASE s = pages /\ failed = {}
    BY <1>1, <1>2, <1>4, <2>2 DEF ToSet
  <2>3. CASE failed # {} /\ s = SubSeq(pages, 1, Min(failed) - 1)
    <3>1. PICK m \in 1..size : m = Min(failed) /\ \A y \in failed : m <= y
      <4>1. failed \in SUBSET Nat
        BY <1>2
      <4>2. Min(failed) \in failed /\ \A y \in failed : Min(failed) <= y
        BY <2>3, <4>1, MinIsLeast
      <4>. QED BY <1>2, <4>2
    <3>2. PICK k \in Int : k = m - 1 /\ s = SubSeq(pages, 1, k)
      BY <2>3, <3>1
    <3>3. \A i \in 1..k : pages[i] \in {pages[j] : j \in 1..size}
      BY <3>1, <3>2
    <3>4. Len(s) = (IF 1 <= k THEN k - 1 + 1 ELSE 0) /\ s \in Seq({pages[j] : j \in 1..size})
          /\ \A i \in 1..(k - 1 + 1) : s[i] = pages[1 + i - 1]
      BY <3>2, <3>3, SubSeqProperties
    <3>5. PICK i \in DOMAIN s : p = s[i]
      BY <1>4 DEF ToSet
    <3>6. i \in 1..k
      BY <3>2, <3>4, <3>5
    <3>7. p = pages[i] /\ i \in 1..size /\ i < m
      BY <3>1, <3>2, <3>4, <3>5, <3>6
    <3>8. i \notin failed
      BY <3>1, <3>7
    <3>. QED BY <1>2, <3>7, <3>8
  <2>. QED BY <1>3, <1>4, <2>1, <2>2, <2>3
<1>6. PICK i \in 1..size : p = pages[i] /\ p # -1
  BY <1>5
<1>7. va + i - 1 \in AddressSpace /\ p = os_mmu_user_va_to_kernel_va(v, va + i - 1)
  BY <1>1, <1>6 DEF AddressSpace
<1>. QED BY <1>6, <1>7

\* A copy between kernel and user memory touches only frames that the user's page table maps
\* in user space, also where it begins or ends at an edge of it (os_copy_from_user and
\* os_copy_to_user, os_syscall.c:23-76).
THEOREM CopiesStayInUser == MmuSpec => []UserCopiesStayInUser
<1>1. MmuInv => UserCopiesStayInUser
  <2>. SUFFICES ASSUME MmuInv, NEW v \in UserTables \ {strayed}, NEW va \in {0, 1, 2, 14, 15}, NEW size \in 1..4,
                       NEW p \in ToSet(os_copy_user(v, va, size))
                PROVE  \E q \in DOMAIN intended[v] : q < KERNEL_START /\ intended[v][q] = p
    BY DEF UserCopiesStayInUser
  <2>1. PICK q \in AddressSpace : p = os_mmu_user_va_to_kernel_va(v, q) /\ p # -1
    BY CopyPages
  <2>. QED BY <2>1, UserPage
<1>. QED BY <1>1, MmuInvariant, PTL
=============================================================================
