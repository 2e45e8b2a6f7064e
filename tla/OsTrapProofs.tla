---------------------------- MODULE OsTrapProofs ----------------------------
(***************************************************************************)
(* Proofs about traps and context switches, for every set of tasks and     *)
(* every stack of two items or more.                                       *)
(*                                                                         *)
(* A context is either on the hart or in a frame.  The invariant says of   *)
(* every context of every task where it is, and that its frame brings the  *)
(* hart back to the mode and the stack pointer it needs.                   *)
(***************************************************************************)
EXTENDS OsTrap, SequenceTheorems, TLAPS

Mode == {"U", "S"}
Contexts == [task : TrapTask \cup {"none"}, mode : Mode, done : Nat]
Pointers == Stack \X Nat
Frames == [ctx : Contexts, sp : Pointers, spp : Mode, spie : BOOLEAN]
Memories == [Stack -> [1..KStackSize -> Frames]]
Harts == [ctx : Contexts, sp : Pointers, mode : Mode, sie : BOOLEAN, spie : BOOLEAN,
          spp : Mode, sscratch : Pointers, sepc : Contexts]

TrapTypeOK ==
  /\ hart \in Harts
  /\ memory \in Memories
  /\ task_sp \in [TrapTask -> Pointers]
  /\ running \in TrapTask \cup {"none"}
  /\ trap \in {"boot", "none", "handler", "dead"}
  /\ calls \in [TrapTask -> Seq(Contexts)]
  /\ hart.sscratch = InterruptStackTop

Depth(t) == Len(calls[t])

\* Only the outermost context of a task may be user code, and its stack has room for
\* all of them.
CallsFit(t) ==
  /\ Depth(t) \in 1..KStackSize
  /\ \A i \in 1..Depth(t) : calls[t][i].task = t /\ (i # 1 => calls[t][i].mode = "S")

\* Frame f brings back context c of task t, the one at depth i.
Saves(f, c, t, i) ==
  /\ f.ctx = c
  /\ f.spp = c.mode
  /\ c.mode = "S" => f.sp = <<t, i - 1>>

\* Context x is context c of task t, or the one an interrupted enter_user_space leaves in
\* its place.
Is(x, c, t) == x = c \/ (c = UserEntry(t) /\ x = AtSret(t))

\* Frame f brings back the innermost context c of task t, at depth i; in front of the sret
\* of enter_user_space only with interrupts on, for only then one came there.
SavesLast(f, c, t, i) ==
  /\ Is(f.ctx, c, t)
  /\ f.spp = c.mode
  /\ c.mode = "S" => f.sp = <<t, i - 1>>
  /\ c = AtSret(t) => f.spie

\* All contexts of task t but the innermost are on its stack.
OuterOnStack(t) == \A i \in 1..(Depth(t) - 1) : Saves(memory[t][i], calls[t][i], t, i)

\* So is the innermost one, and task_t.sp is there.
Away(t) ==
  /\ task_sp[t] = <<t, Depth(t)>>
  /\ SavesLast(memory[t][Depth(t)], calls[t][Depth(t)], t, Depth(t))

CallsOK == \A t \in TrapTask : CallsFit(t)
OuterSaved == \A t \in TrapTask : OuterOnStack(t)
OffHartSaved == \A t \in TrapTask : t # OnHart => Away(t)

\* The innermost context of the task on the hart is running, or interrupted and saved
\* on the interrupt stack.
OnHartKept ==
  LET c == calls[OnHart][Depth(OnHart)]
  IN /\ trap # "boot" => OnHart \in TrapTask /\ Is(hart.ctx, c, OnHart)
     /\ trap = "none" => /\ hart.mode = c.mode
                         /\ hart.spp = "U"
                         /\ running = OnHart
                         /\ hart.mode = "S" => hart.sp = <<OnHart, Depth(OnHart) - 1>>
     /\ trap \in {"handler", "dead"} =>
          /\ hart.sp = <<"interrupt", 1>>
          /\ SavesLast(memory["interrupt"][1], c, OnHart, Depth(OnHart))
          /\ hart.spp = c.mode
     /\ IF trap = "handler" /\ pending_switch # <<>>
        THEN pending_switch = <<OnHart, running>> /\ running \in TrapTask \ {OnHart}
        ELSE pending_switch = <<>>
     /\ trap = "handler" /\ pending_switch = <<>> => running = OnHart

\* In front of the sret sepc is as enter_user_space set it, or as a trap that came back
\* there left it; such a trap left interrupts on.
SretKept ==
  BeforeSret => /\ hart.sepc \in {UserEntry(OnHart), AtSret(OnHart)}
                /\ ~hart.sie => hart.sepc = UserEntry(OnHart)

TrapInv == TrapTypeOK /\ CallsOK /\ OuterSaved /\ OffHartSaved /\ OnHartKept /\ SretKept

-----------------------------------------------------------------------------
\* Memory q is m but for item n of stack s.
DiffersAt(m, q, s, n) ==
  /\ q \in Memories
  /\ \A r \in Stack : \A i \in 1..KStackSize : r # s \/ i # n => q[r][i] = m[r][i]

OneChanged(m, s, n, f) == [m EXCEPT ![s] = [m[s] EXCEPT ![n] = f]]

LEMMA ChangeOne ==
  ASSUME NEW m \in Memories, NEW s \in Stack, NEW n \in 1..KStackSize, NEW f \in Frames,
         NEW q, q = OneChanged(m, s, n, f)
  PROVE  DiffersAt(m, q, s, n) /\ q[s][n] = f
<1>. DEFINE K == 1..KStackSize
<1>1. m \in [Stack -> [K -> Frames]] /\ n \in K
  BY DEF Memories
<1>2. SUFFICES /\ q \in [Stack -> [K -> Frames]]
               /\ q[s][n] = f
               /\ \A r \in Stack : \A i \in K : r # s \/ i # n => q[r][i] = m[r][i]
  BY DEF DiffersAt, Memories
<1>. HIDE DEF K
<1>3. m[s] \in [K -> Frames] /\ [m[s] EXCEPT ![n] = f] \in [K -> Frames]
  BY <1>1
<1>4. q \in [Stack -> [K -> Frames]] /\ q[s] = [m[s] EXCEPT ![n] = f]
  BY <1>1, <1>3 DEF OneChanged
<1>5. q[s][n] = f /\ \A i \in K : i # n => q[s][i] = m[s][i]
  BY <1>1, <1>3, <1>4
<1>6. \A r \in Stack : r # s => q[r] = m[r]
  BY <1>1 DEF OneChanged
<1>. QED BY <1>4, <1>5, <1>6

LEMMA PushFrame ==
  ASSUME NEW m \in Memories, NEW s \in Stack, NEW n \in Nat, n < KStackSize, NEW f \in Frames,
         NEW q, q = Push(m, <<s, n>>, f)
  PROVE  DiffersAt(m, q, s, n + 1) /\ q[s][n + 1] = f
<1>1. n + 1 \in 1..KStackSize
  BY TrapAssumption
<1>2. q = OneChanged(m, s, n + 1, f)
  BY DEF Push, OneChanged
<1>. QED BY <1>1, <1>2, ChangeOne

LEMMA NoFrameIsFrame == NoFrame \in Frames
BY TrapAssumption DEF NoFrame, Frame, Frames, Context, Contexts, Mode, Pointers, Stack,
                      InterruptStackTop

LEMMA PopFrame ==
  ASSUME NEW m \in Memories, NEW s \in Stack, NEW n \in 1..KStackSize, NEW q, q = Popped(m, <<s, n>>)
  PROVE  DiffersAt(m, q, s, n)
<1>1. q = OneChanged(m, s, n, NoFrame)
  BY DEF Popped, OneChanged
<1>. QED BY <1>1, NoFrameIsFrame, ChangeOne

LEMMA ContextType ==
  ASSUME NEW t \in TrapTask, NEW m \in Mode, NEW d \in Nat
  PROVE  /\ Context(t, m, d) \in Contexts
         /\ Context(t, m, d).task = t /\ Context(t, m, d).mode = m /\ Context(t, m, d).done = d
BY DEF Context, Contexts

\* The two contexts of an interrupted enter_user_space, and how they differ.
LEMMA EntryContexts ==
  ASSUME NEW t \in TrapTask
  PROVE  /\ AtSret(t) \in Contexts /\ AtSret(t).task = t /\ AtSret(t).mode = "S"
         /\ AtSret(t).done = Progress
         /\ UserEntry(t) \in Contexts /\ UserEntry(t).task = t /\ UserEntry(t).mode = "U"
         /\ \A c \in Contexts : c.task = t /\ c.mode = "S" /\ c.done = Progress => c = AtSret(t)
BY TrapAssumption DEF AtSret, UserEntry, Context, Contexts, Mode

LEMMA IsFacts ==
  ASSUME NEW t \in TrapTask, NEW x, NEW c, c.task = t, Is(x, c, t)
  PROVE  /\ x.task = t
         /\ c.mode = "S" \/ x.mode = "U" => x = c
BY EntryContexts DEF Is

\* RESTORE_ALL and sret from a frame that saves the innermost context c of task t: c goes on
\* where it was.
Resumes(c, t, i) ==
  /\ hart' \in Harts
  /\ hart'.sscratch = hart.sscratch
  /\ Is(hart'.ctx, c, t) /\ hart'.mode = c.mode /\ hart'.spp = "U"
  /\ hart'.sepc = hart'.ctx
  /\ c.mode = "S" => hart'.sp = <<t, i - 1>>
  /\ c = AtSret(t) => hart'.sie

LEMMA RestoreFrame ==
  ASSUME hart \in Harts, NEW m \in Memories, NEW s \in Stack, NEW n \in 1..KStackSize,
         NEW c, NEW t, NEW i, SavesLast(m[s][n], c, t, i), RestoreAll(m, <<s, n>>)
  PROVE  Resumes(c, t, i) /\ DiffersAt(m, memory', s, n)
<1>. DEFINE f == m[s][n]
<1>1. f \in Frames
  BY DEF Memories
<1>2. /\ memory' = Popped(m, <<s, n>>)
      /\ hart' = [hart EXCEPT !.ctx = f.ctx, !.sp = f.sp, !.mode = f.spp, !.sie = f.spie,
                              !.spp = "U", !.spie = TRUE, !.sepc = f.ctx]
  BY DEF RestoreAll, At
<1>3. /\ Is(f.ctx, c, t) /\ f.spp = c.mode /\ (c.mode = "S" => f.sp = <<t, i - 1>>)
      /\ c = AtSret(t) => f.spie
  BY DEF SavesLast
<1>4. /\ hart' \in Harts
      /\ hart'.sscratch = hart.sscratch
      /\ hart'.ctx = f.ctx /\ hart'.mode = f.spp /\ hart'.spp = "U" /\ hart'.sp = f.sp
      /\ hart'.sepc = f.ctx /\ hart'.sie = f.spie
  BY <1>1, <1>2 DEF Harts, Frames, Mode
<1>5. Resumes(c, t, i)
  BY <1>3, <1>4 DEF Resumes
<1>6. DiffersAt(m, memory', s, n)
  BY <1>2, PopFrame
<1>. QED BY <1>5, <1>6

-----------------------------------------------------------------------------
\* What the invariant says of the task that executes.
Held(t) ==
  /\ trap = "none" /\ running = t /\ OnHart = t /\ hart.ctx.task = t
  /\ calls[t] \in Seq(Contexts) /\ Depth(t) \in 1..KStackSize
  /\ calls[t][Depth(t)].task = t
  /\ Is(hart.ctx, calls[t][Depth(t)], t) /\ hart.mode = calls[t][Depth(t)].mode
  /\ hart.spp = "U"
  /\ hart.mode = "S" => hart.sp = <<t, Depth(t) - 1>>
  /\ hart.mode = "U" => Depth(t) = 1
  /\ pending_switch = <<>>

LEMMA SomeTaskIsHeld == ASSUME TrapInv, Executes PROVE \E t \in TrapTask : Held(t)
<1>1. trap = "none" /\ trap # "boot" /\ trap # "handler"
  BY DEF Executes
<1>2. PICK t \in TrapTask : OnHart = t
  BY <1>1 DEF TrapInv, OnHartKept
<1>3. hart.ctx.task = t
  BY <1>1, <1>2 DEF OnHart
<1>4. /\ running = t /\ pending_switch = <<>>
      /\ Is(hart.ctx, calls[t][Depth(t)], t) /\ hart.mode = calls[t][Depth(t)].mode
      /\ hart.spp = "U"
      /\ hart.mode = "S" => hart.sp = <<t, Depth(t) - 1>>
  BY <1>1, <1>2 DEF TrapInv, OnHartKept
<1>5. calls[t] \in Seq(Contexts) /\ CallsFit(t)
  BY DEF TrapInv, TrapTypeOK, CallsOK
<1>6. calls[t][Depth(t)].task = t /\ (hart.mode = "U" => Depth(t) = 1)
  <2>1. Depth(t) \in 1..Depth(t)
    BY <1>5 DEF CallsFit
  <2>2. calls[t][Depth(t)].task = t /\ (Depth(t) # 1 => calls[t][Depth(t)].mode = "S")
    BY <1>5, <2>1 DEF CallsFit
  <2>. QED BY <1>4, <2>2
<1>. QED BY <1>1, <1>2, <1>3, <1>4, <1>5, <1>6 DEF Held, CallsFit

\* The task that executes has the context it should have, unless it is in front of the sret
\* that was to take it to user space, or has executed it and is still there.
On(t) == Held(t) /\ hart.ctx = calls[t][Depth(t)] /\ hart.mode = hart.ctx.mode

LEMMA SomeTaskIsOn == ASSUME TrapInv, InUser \/ InKernel PROVE \E t \in TrapTask : On(t)
<1>1. PICK t \in TrapTask : Held(t)
  BY SomeTaskIsHeld DEF InUser, InKernel
<1>2. hart.mode = "S" \/ hart.ctx.mode = "U"
  BY DEF InUser, InKernel
<1>3. hart.ctx = calls[t][Depth(t)]
  BY <1>1, <1>2, IsFacts DEF Held
<1>. QED BY <1>1, <1>3 DEF On, Held

LEMMA NewCalls ==
  ASSUME calls \in [TrapTask -> Seq(Contexts)], NEW t \in TrapTask, NEW seq \in Seq(Contexts),
         SetContexts(t, seq)
  PROVE  /\ calls' \in [TrapTask -> Seq(Contexts)]
         /\ calls'[t] = seq
         /\ \A u \in TrapTask : u # t => calls'[u] = calls[u]
BY DEF SetContexts

\* A step leaves a task alone.
Untouched(t) ==
  /\ calls'[t] = calls[t] /\ task_sp'[t] = task_sp[t]
  /\ \A i \in 1..KStackSize : memory'[t][i] = memory[t][i]

LEMMA UntouchedKept ==
  ASSUME TrapInv, NEW t \in TrapTask, Untouched(t)
  PROVE  CallsFit(t)' /\ OuterOnStack(t)' /\ (Away(t) => Away(t)')
<1>1. CallsFit(t) /\ OuterOnStack(t)
  BY DEF TrapInv, CallsOK, OuterSaved
<1>2. Depth(t)' = Depth(t) /\ Depth(t) \in 1..KStackSize
  BY <1>1 DEF Depth, Untouched, CallsFit
<1>3. CallsFit(t)'
  BY <1>1, <1>2 DEF CallsFit, Untouched
<1>4. OuterOnStack(t)'
  <2>1. ASSUME NEW i \in 1..(Depth(t) - 1)
        PROVE  Saves(memory'[t][i], calls'[t][i], t, i)
    <3>1. i \in 1..KStackSize
      BY <1>2, <2>1, TrapAssumption
    <3>. QED BY <1>1, <2>1, <3>1 DEF OuterOnStack, Untouched
  <2>. QED BY <1>2, <2>1 DEF OuterOnStack
<1>5. Away(t) => Away(t)'
  BY <1>1, <1>2 DEF Away, Untouched
<1>. QED BY <1>3, <1>4, <1>5

\* The invariant of task t after a step.
Kept(t) == CallsFit(t)' /\ OuterOnStack(t)' /\ (t # OnHart' => Away(t)')

LEMMA UntouchedIsKept ==
  ASSUME TrapInv, NEW t \in TrapTask, Untouched(t), t # OnHart' => t # OnHart
  PROVE  Kept(t)
BY UntouchedKept DEF TrapInv, OffHartSaved, Kept

LEMMA AllKept ==
  ASSUME \A t \in TrapTask : Kept(t)
  PROVE  CallsOK' /\ OuterSaved' /\ OffHartSaved'
BY DEF Kept, CallsOK, OuterSaved, OffHartSaved

-----------------------------------------------------------------------------
LEMMA TrapInitInv == TrapInit => TrapInv
<1>. SUFFICES ASSUME TrapInit PROVE TrapInv
  OBVIOUS
<1>. USE DEF TrapInit
<1>1. \A t \in TrapTask : Context(t, "S", 0) \in Contexts
  BY DEF Context, Contexts, Mode
<1>2. \A t \in TrapTask : arch_task_stack_frame_init(t) \in Frames
  BY <1>1 DEF arch_task_stack_frame_init, Frame, Frames, Mode, Pointers, Stack, KernelStackTop
<1>3. \A t \in TrapTask : /\ memory[t][1] = arch_task_stack_frame_init(t)
                          /\ calls[t] = <<Context(t, "S", 0)>> /\ Depth(t) = 1
                          /\ task_sp[t] = <<t, 1>>
  BY TrapAssumption DEF Stack, Depth, Pushed, KernelStackTop
<1>4. TrapTypeOK
  <2>1. hart \in Harts /\ hart.sscratch = InterruptStackTop
    BY DEF Harts, Context, Contexts, Mode, Pointers, Stack, InterruptStackTop
  <2>2. memory \in Memories
    BY <1>2, NoFrameIsFrame DEF Memories
  <2>3. task_sp \in [TrapTask -> Pointers]
    BY DEF Pushed, KernelStackTop, Pointers, Stack
  <2>4. calls \in [TrapTask -> Seq(Contexts)]
    BY <1>1
  <2>. QED BY <2>1, <2>2, <2>3, <2>4 DEF TrapTypeOK
<1>5. CallsOK
  <2>1. ASSUME NEW t \in TrapTask PROVE CallsFit(t)
    <3>1. \A i \in 1..1 : i = 1
      OBVIOUS
    <3>2. calls[t][1].task = t /\ 1 \in 1..KStackSize
      BY <1>3, TrapAssumption DEF Context
    <3>. QED BY <1>3, <3>1, <3>2 DEF CallsFit
  <2>. QED BY <2>1 DEF CallsOK
<1>6. OuterSaved
  <2>1. ASSUME NEW t \in TrapTask PROVE OuterOnStack(t)
    <3>1. \A i \in 1..(1 - 1) : FALSE
      OBVIOUS
    <3>. QED BY <1>3, <3>1 DEF OuterOnStack
  <2>. QED BY <2>1 DEF OuterSaved
<1>7. OffHartSaved
  <2>1. ASSUME NEW t \in TrapTask PROVE Away(t)
    <3>1. SavesLast(arch_task_stack_frame_init(t), Context(t, "S", 0), t, 1)
      BY DEF SavesLast, Is, arch_task_stack_frame_init, Frame, Context, KernelStackTop
    <3>2. memory[t][1] = arch_task_stack_frame_init(t) /\ calls[t][1] = Context(t, "S", 0)
      BY <1>3
    <3>. QED BY <1>3, <3>1, <3>2 DEF Away
  <2>. QED BY <2>1 DEF OffHartSaved
<1>8. OnHartKept /\ SretKept
  BY DEF OnHartKept, SretKept, BeforeSret, Executes
<1>. QED BY <1>4, <1>5, <1>6, <1>7, <1>8 DEF TrapInv

-----------------------------------------------------------------------------
LEMMA StepType ==
  ASSUME NEW c \in Contexts
  PROVE  /\ Step(c) \in Contexts /\ Step(c).task = c.task /\ Step(c).mode = c.mode
         /\ Step(c).done # Progress
<1>1. (c.done + 1) % Progress \in 0..(Progress - 1)
  BY TrapAssumption DEF Contexts
<1>. QED BY <1>1 DEF Step, Contexts

\* After a step task t executes, with its innermost context.
Runs(t) ==
  /\ trap' = "none" /\ running' = t /\ hart'.ctx.task = t
  /\ Is(hart'.ctx, calls'[t][Len(calls'[t])], t) /\ hart'.mode = calls'[t][Len(calls'[t])].mode
  /\ hart'.spp = "U"
  /\ hart'.mode = "S" => hart'.sp = <<t, Len(calls'[t]) - 1>>
  /\ pending_switch' = <<>>
  /\ SretKept'

LEMMA RunsKept ==
  ASSUME NEW t \in TrapTask, Runs(t)
  PROVE  OnHart' = t /\ OnHartKept' /\ SretKept'
<1>1. OnHart' = t
  BY DEF Runs, OnHart
<1>2. Depth(OnHart)' = Len(calls'[t]) /\ calls'[OnHart'] = calls'[t]
  BY <1>1 DEF Depth
<1>. QED BY <1>1, <1>2 DEF Runs, OnHartKept

\* It does so after a frame that saves that context is restored.
LEMMA ResumesRuns ==
  ASSUME NEW t \in TrapTask, NEW c \in Contexts, c.task = t, NEW i, Resumes(c, t, i),
         trap' = "none", running' = t, pending_switch' = <<>>,
         i = Len(calls'[t]), c = calls'[t][Len(calls'[t])]
  PROVE  Runs(t)
<1>1. hart'.ctx.task = t /\ OnHart' = t
  BY IsFacts DEF Resumes, OnHart
<1>2. ASSUME BeforeSret' PROVE hart'.sepc = AtSret(t) /\ hart'.sie
  <2>1. hart'.mode = "S" /\ hart'.ctx.done = Progress
    BY <1>2 DEF BeforeSret
  <2>2. c.mode = "S" /\ hart'.ctx = c
    BY <2>1, IsFacts DEF Resumes
  <2>3. c = AtSret(t)
    BY <2>1, <2>2, EntryContexts
  <2>. QED BY <2>2, <2>3 DEF Resumes
<1>3. SretKept'
  BY <1>1, <1>2 DEF SretKept
<1>. QED BY <1>1, <1>3 DEF Runs, Resumes

LEMMA SwitchToFirstInv ==
  ASSUME TrapInv, NEW t \in TrapTask, switch_to_first(t)
  PROVE  TrapInv'
<1>. DEFINE d == Depth(t)
<1>1. /\ trap = "boot" /\ OnHart = "none" /\ t # "none"
      /\ trap' = "none" /\ running' = t /\ RestoreAll(memory, task_sp[t])
      /\ UNCHANGED <<task_sp, pending_switch, calls>>
  BY TrapAssumption DEF switch_to_first, OnHart
<1>2. Away(t) /\ CallsFit(t) /\ OuterOnStack(t)
  BY <1>1 DEF TrapInv, OffHartSaved, CallsOK, OuterSaved
<1>3. d \in 1..KStackSize /\ calls[t][d].task = t
  BY <1>2, TrapAssumption DEF CallsFit
<1>4. Resumes(calls[t][d], t, d) /\ DiffersAt(memory, memory', t, d)
  <2>1. task_sp[t] = <<t, d>> /\ SavesLast(memory[t][d], calls[t][d], t, d)
    BY <1>2 DEF Away
  <2>2. hart \in Harts /\ memory \in Memories /\ t \in Stack
    BY DEF TrapInv, TrapTypeOK, Stack
  <2>3. RestoreAll(memory, <<t, d>>)
    BY <1>1, <2>1
  <2>. HIDE DEF d
  <2>. QED BY <1>3, <2>1, <2>2, <2>3, RestoreFrame
<1>5. OnHart' = t /\ OnHartKept' /\ SretKept'
  <2>1. calls[t] \in Seq(Contexts) /\ d = Len(calls[t]) /\ calls' = calls /\ pending_switch' = <<>>
    BY <1>1 DEF TrapInv, TrapTypeOK, OnHartKept, Depth
  <2>2. calls[t][d] \in Contexts
    BY <1>3, <2>1
  <2>. HIDE DEF d
  <2>3. Runs(t)
    BY <1>1, <1>3, <1>4, <2>1, <2>2, ResumesRuns
  <2>. QED BY <2>3, RunsKept
<1>6. TrapTypeOK'
  BY <1>1, <1>4 DEF TrapInv, TrapTypeOK, Resumes, DiffersAt
<1>7. CallsOK' /\ OuterSaved' /\ OffHartSaved'
  <2>1. \A u \in TrapTask \ {t} : Untouched(u) /\ u # OnHart
    BY <1>1, <1>4, TrapAssumption DEF Untouched, DiffersAt, Stack
  <2>2. CallsFit(t)'
    BY <1>1, <1>2 DEF CallsFit, Depth
  <2>3. OuterOnStack(t)'
    <3>1. ASSUME NEW i \in 1..(d - 1)
          PROVE  Saves(memory'[t][i], calls'[t][i], t, i)
      <4>1. i \in 1..KStackSize /\ i # d /\ t \in Stack
        BY <1>3, <3>1, TrapAssumption DEF Stack
      <4>2. memory'[t][i] = memory[t][i]
        BY <1>4, <4>1 DEF DiffersAt
      <4>. QED BY <1>1, <1>2, <3>1, <4>2 DEF OuterOnStack
    <3>. QED BY <1>1, <3>1 DEF OuterOnStack, Depth
  <2>4. Kept(t)
    BY <1>5, <2>2, <2>3 DEF Kept
  <2>5. \A u \in TrapTask \ {t} : Kept(u)
    BY <2>1, UntouchedIsKept
  <2>. QED BY <2>4, <2>5, AllKept
<1>. QED BY <1>5, <1>6, <1>7 DEF TrapInv

\* A task with one context has nothing on its stack.
LEMMA OneContext ==
  ASSUME NEW t \in TrapTask, NEW c, calls'[t] = <<c>>, c.task = t
  PROVE  CallsFit(t)' /\ OuterOnStack(t)'
<1>1. Depth(t)' = 1 /\ calls'[t][1] = c
  BY DEF Depth
<1>2. (\A i \in 1..1 : i = 1) /\ (\A i \in 1..(1 - 1) : FALSE) /\ 1 \in 1..KStackSize
  BY TrapAssumption
<1>. QED BY <1>1, <1>2 DEF CallsFit, OuterOnStack

\* A step of the task that executes, and goes on to execute.
LEMMA StaysOn ==
  ASSUME TrapInv, NEW t \in TrapTask, OnHart = t, Runs(t), TrapTypeOK', CallsFit(t)', OuterOnStack(t)',
         \A u \in TrapTask \ {t} : Untouched(u)
  PROVE  TrapInv'
<1>1. OnHart' = t /\ OnHartKept' /\ SretKept'
  BY RunsKept
<1>2. Kept(t)
  BY <1>1 DEF Kept
<1>3. \A u \in TrapTask \ {t} : Kept(u)
  BY <1>1, UntouchedIsKept
<1>4. CallsOK' /\ OuterSaved' /\ OffHartSaved'
  BY <1>2, <1>3, AllKept
<1>. QED BY <1>1, <1>4 DEF TrapInv

LEMMA RunTaskInv == ASSUME TrapInv, RunTask PROVE TrapInv'
<1>1. PICK t \in TrapTask : On(t)
  BY SomeTaskIsOn DEF RunTask
<1>2. hart.mode = "U" /\ hart.ctx.task = t /\ Len(calls[t]) = 1 /\ calls[t] \in Seq(Contexts)
  BY <1>1 DEF RunTask, InUser, On, Held, Depth
<1>3. hart \in Harts /\ hart.ctx \in Contexts /\ calls \in [TrapTask -> Seq(Contexts)]
  BY DEF TrapInv, TrapTypeOK, Harts
<1>. DEFINE c == Step(hart.ctx)
<1>4. c \in Contexts /\ c.task = t /\ c.mode = "U"
  BY <1>1, <1>2, <1>3, StepType DEF On, Held
<1>5. Append(Front(calls[t]), c) = <<c>>
  <2>1. Front(calls[t]) = SubSeq(calls[t], 1, 0)
    BY <1>2 DEF Front
  <2>2. SubSeq(calls[t], 1, 0) \in Seq(Contexts) /\ Len(SubSeq(calls[t], 1, 0)) = 0
    BY <1>2, SubSeqProperties
  <2>3. SubSeq(calls[t], 1, 0) = <<>>
    BY <2>2, EmptySeq
  <2>4. Front(calls[t]) = <<>>
    BY <2>1, <2>3
  <2>5. \A x : Append(<<>>, x) = <<x>>
    OBVIOUS
  <2>. QED BY <2>4, <2>5
<1>. HIDE DEF c
<1>6. SetContexts(t, <<c>>) /\ <<c>> \in Seq(Contexts)
  BY <1>2, <1>4, <1>5 DEF RunTask, c
<1>7. /\ calls' \in [TrapTask -> Seq(Contexts)]
      /\ calls'[t] = <<c>>
      /\ \A u \in TrapTask : u # t => calls'[u] = calls[u]
  BY <1>3, <1>6, NewCalls
<1>8. hart' = [hart EXCEPT !.ctx = c] /\ UNCHANGED <<memory, task_sp, running, pending_switch, trap>>
  BY DEF RunTask, c
<1>9. /\ hart' \in Harts /\ hart'.ctx = c /\ hart'.mode = "U" /\ hart'.spp = hart.spp
      /\ hart'.sscratch = hart.sscratch
  BY <1>2, <1>3, <1>4, <1>8 DEF Harts
<1>10. TrapTypeOK'
  BY <1>7, <1>8, <1>9 DEF TrapInv, TrapTypeOK
<1>11. Runs(t)
  BY <1>1, <1>4, <1>7, <1>8, <1>9 DEF Runs, On, Held, Is, SretKept, BeforeSret
<1>12. CallsFit(t)' /\ OuterOnStack(t)'
  BY <1>4, <1>7, OneContext
<1>13. \A u \in TrapTask \ {t} : Untouched(u)
  BY <1>7, <1>8 DEF Untouched
<1>. QED BY <1>1, <1>10, <1>11, <1>12, <1>13, StaysOn DEF On, Held

\* Task t calls: its context goes to its stack, and another one is innermost.
LEMMA Deeper ==
  ASSUME TrapInv, NEW t \in TrapTask, NEW n \in Nat, n = Depth(t), n < KStackSize,
         NEW c \in Contexts, c.task = t, c.mode = "S", calls'[t] = Append(calls[t], c),
         DiffersAt(memory, memory', t, n), Saves(memory'[t][n], calls[t][n], t, n)
  PROVE  /\ CallsFit(t)' /\ OuterOnStack(t)'
         /\ Len(calls'[t]) = n + 1 /\ calls'[t][n + 1] = c
<1>1. calls[t] \in Seq(Contexts) /\ CallsFit(t) /\ OuterOnStack(t) /\ n = Len(calls[t]) /\ n # 0
  BY DEF TrapInv, TrapTypeOK, CallsOK, OuterSaved, CallsFit, Depth
<1>2. /\ Len(calls'[t]) = n + 1 /\ calls'[t][n + 1] = c
      /\ \A i \in 1..n : calls'[t][i] = calls[t][i]
  BY <1>1, AppendProperties
<1>3. CallsFit(t)'
  <2>1. n + 1 \in 1..KStackSize
    BY TrapAssumption
  <2>2. ASSUME NEW i \in 1..(n + 1)
        PROVE  calls'[t][i].task = t /\ (i # 1 => calls'[t][i].mode = "S")
    <3>1. i = n + 1 \/ i \in 1..n
      OBVIOUS
    <3>. QED BY <1>1, <1>2, <3>1 DEF CallsFit
  <2>. QED BY <1>2, <2>1, <2>2 DEF CallsFit, Depth
<1>4. OuterOnStack(t)'
  <2>1. ASSUME NEW i \in 1..n PROVE Saves(memory'[t][i], calls'[t][i], t, i)
    <3>1. CASE i = n
      BY <1>2, <3>1
    <3>2. CASE i # n
      <4>1. i \in 1..(Depth(t) - 1) /\ i \in 1..KStackSize /\ t \in Stack
        BY <3>2, TrapAssumption DEF Stack
      <4>2. memory'[t][i] = memory[t][i]
        BY <3>2, <4>1 DEF DiffersAt
      <4>. QED BY <1>1, <1>2, <4>1, <4>2 DEF OuterOnStack
    <3>. QED BY <3>1, <3>2
  <2>2. Depth(t)' - 1 = n
    BY <1>2 DEF Depth
  <2>. QED BY <2>1, <2>2 DEF OuterOnStack
<1>. QED BY <1>2, <1>3, <1>4

LEMMA KernelCallsInv == ASSUME TrapInv, KernelCalls PROVE TrapInv'
<1>1. PICK t \in TrapTask : On(t)
  BY SomeTaskIsOn DEF KernelCalls, InKernel
<1>2. PICK n \in Nat : n = Depth(t)
  BY <1>1, TrapAssumption DEF On, Held
<1>. DEFINE f == Frame(hart.ctx, hart.sp, "S", FALSE)
            c == Context(t, "S", 0)
<1>3. /\ hart.mode = "S" /\ hart.sp = <<t, n - 1>> /\ n - 1 + 2 < KStackSize /\ n # 0
      /\ hart.ctx.task = t /\ hart.ctx.mode = "S" /\ hart.ctx = calls[t][n]
  BY <1>1, <1>2 DEF KernelCalls, InKernel, On, Held
<1>4. hart \in Harts /\ hart.ctx \in Contexts /\ hart.sp \in Pointers /\ memory \in Memories
      /\ calls \in [TrapTask -> Seq(Contexts)]
  BY DEF TrapInv, TrapTypeOK, Harts
<1>5. /\ memory' = Push(memory, <<t, n - 1>>, f)
      /\ hart' = [hart EXCEPT !.ctx = c, !.sp = <<t, n>>]
      /\ SetContexts(t, Append(calls[t], c))
      /\ UNCHANGED <<task_sp, running, pending_switch, trap>>
  <2>1. Pushed(hart.sp) = <<t, n>>
    BY <1>3 DEF Pushed
  <2>2. hart' = [hart EXCEPT !.ctx = c, !.sp = Pushed(@)]
    BY <1>3 DEF KernelCalls
  <2>3. hart' = [hart EXCEPT !.ctx = c, !.sp = <<t, n>>]
    BY <2>1, <2>2
  <2>. QED BY <1>3, <2>3 DEF KernelCalls
<1>6. DiffersAt(memory, memory', t, n) /\ memory'[t][n] = f
  <2>1. t \in Stack /\ n - 1 \in Nat /\ n - 1 < KStackSize /\ n - 1 + 1 = n
    BY <1>3, TrapAssumption DEF Stack
  <2>2. f \in Frames
    BY <1>4 DEF Frame, Frames, Mode
  <2>. HIDE DEF f
  <2>. QED BY <1>4, <1>5, <2>1, <2>2, PushFrame
<1>7. Saves(f, calls[t][n], t, n)
  BY <1>3 DEF Saves, Frame
<1>8. c \in Contexts /\ c.task = t /\ c.mode = "S" /\ c.done # Progress
  BY ContextType, TrapAssumption DEF Mode
<1>. HIDE DEF c, f
<1>9. /\ calls' \in [TrapTask -> Seq(Contexts)]
      /\ calls'[t] = Append(calls[t], c)
      /\ \A u \in TrapTask : u # t => calls'[u] = calls[u]
  <2>1. Append(calls[t], c) \in Seq(Contexts)
    BY <1>4, <1>8
  <2>. QED BY <1>4, <1>5, <2>1, NewCalls
<1>10. /\ CallsFit(t)' /\ OuterOnStack(t)'
       /\ Len(calls'[t]) = n + 1 /\ calls'[t][n + 1] = c
  <2>1. n < KStackSize
    BY <1>3, TrapAssumption
  <2>. QED BY <1>2, <1>6, <1>7, <1>8, <1>9, <2>1, Deeper
<1>11. /\ hart' \in Harts /\ hart'.ctx = c /\ hart'.mode = "S" /\ hart'.spp = hart.spp
       /\ hart'.sscratch = hart.sscratch /\ hart'.sp = <<t, n>>
  BY <1>3, <1>4, <1>5, <1>8 DEF Harts, Pointers, Stack
<1>12. TrapTypeOK'
  BY <1>5, <1>6, <1>9, <1>11 DEF TrapInv, TrapTypeOK, DiffersAt
<1>13. Runs(t)
  BY <1>1, <1>5, <1>8, <1>10, <1>11 DEF Runs, On, Held, Is, SretKept, BeforeSret
<1>14. \A u \in TrapTask \ {t} : Untouched(u)
  BY <1>5, <1>6, <1>9 DEF Untouched, DiffersAt, Stack
<1>. QED BY <1>1, <1>10, <1>12, <1>13, <1>14, StaysOn DEF On, Held

LEMMA KernelReturnsInv == ASSUME TrapInv, KernelReturns PROVE TrapInv'
<1>1. PICK t \in TrapTask : On(t)
  BY SomeTaskIsOn DEF KernelReturns, InKernel
<1>2. PICK n \in Nat : n = Depth(t)
  BY <1>1, TrapAssumption DEF On, Held
<1>3. /\ hart.mode = "S" /\ hart.sp = <<t, n - 1>> /\ n - 1 >= FirstCall(t)
      /\ hart.ctx.task = t /\ n = Len(calls[t]) /\ n \in 1..KStackSize
  BY <1>1, <1>2 DEF KernelReturns, InKernel, On, Held, Depth
<1>4. hart \in Harts /\ memory \in Memories /\ calls \in [TrapTask -> Seq(Contexts)]
      /\ calls[t] \in Seq(Contexts) /\ CallsFit(t) /\ OuterOnStack(t)
  BY DEF TrapInv, TrapTypeOK, CallsOK, OuterSaved
<1>5. n - 1 \in 1..(Depth(t) - 1) /\ n - 1 \in 1..KStackSize /\ n - 1 \in 1..n
  BY <1>2, <1>3, TrapAssumption DEF FirstCall
<1>. DEFINE caller == memory[t][n - 1]
            c == Step(calls[t][n - 1])
<1>6. Saves(caller, calls[t][n - 1], t, n - 1)
  BY <1>4, <1>5 DEF OuterOnStack
<1>7. /\ calls[t][n - 1] \in Contexts /\ calls[t][n - 1].task = t
      /\ calls[t][n - 1].mode = "S"
  <2>1. calls[t][n - 1] \in Contexts /\ calls[t][n - 1].task = t
        /\ (n - 1 # 1 => calls[t][n - 1].mode = "S")
    BY <1>2, <1>3, <1>4, <1>5 DEF CallsFit
  <2>2. n - 1 = 1 => calls[t][n - 1].mode = "S"
    <3>1. ASSUME n - 1 = 1 PROVE calls[t][1].mode # "U"
      <4>1. FirstCall(t) # 2
        BY <1>3, <3>1
      <4>. QED BY <4>1 DEF FirstCall
    <3>. QED BY <2>1, <3>1 DEF Contexts, Mode
  <2>. QED BY <2>1, <2>2
<1>8. c \in Contexts /\ c.task = t /\ c.mode = "S" /\ c.done # Progress
  BY <1>7, StepType
<1>9. /\ hart' = [hart EXCEPT !.ctx = c, !.sp = <<t, n - 2>>]
      /\ memory' = Popped(memory, <<t, n - 1>>)
      /\ SetContexts(t, Append(SubSeq(calls[t], 1, n - 2), c))
      /\ UNCHANGED <<task_sp, running, pending_switch, trap>>
  <2>1. At(memory, hart.sp) = caller
    BY <1>3 DEF At
  <2>2. caller.ctx = calls[t][n - 1] /\ caller.sp = <<t, n - 1 - 1>>
    BY <1>6, <1>7 DEF Saves
  <2>3. Len(calls[t]) - 2 = n - 2 /\ Len(calls[t]) - 1 = n - 1 /\ n - 1 - 1 = n - 2
    BY <1>3
  <2>. QED BY <1>3, <2>1, <2>2, <2>3 DEF KernelReturns
<1>. HIDE DEF c, caller
<1>10. DiffersAt(memory, memory', t, n - 1)
  BY <1>4, <1>5, <1>9, PopFrame DEF Stack
<1>. DEFINE rest == SubSeq(calls[t], 1, n - 2)
<1>11. rest \in Seq(Contexts) /\ Len(rest) = n - 2 /\ \A i \in 1..(n - 2) : rest[i] = calls[t][i]
  BY <1>3, <1>4, <1>5
<1>. HIDE DEF rest
<1>12. /\ calls' \in [TrapTask -> Seq(Contexts)]
       /\ calls'[t] = Append(rest, c)
       /\ \A u \in TrapTask : u # t => calls'[u] = calls[u]
  <2>1. Append(rest, c) \in Seq(Contexts)
    BY <1>8, <1>11
  <2>2. SetContexts(t, Append(rest, c))
    BY <1>9 DEF rest
  <2>. QED BY <1>4, <2>1, <2>2, NewCalls
<1>13. /\ Len(calls'[t]) = n - 1 /\ calls'[t][n - 1] = c
       /\ \A i \in 1..(n - 2) : calls'[t][i] = calls[t][i]
  BY <1>5, <1>8, <1>11, <1>12, AppendProperties
<1>14. CallsFit(t)'
  <2>1. ASSUME NEW i \in 1..(n - 1)
        PROVE  calls'[t][i].task = t /\ (i # 1 => calls'[t][i].mode = "S")
    <3>1. i = n - 1 \/ (i \in 1..(n - 2) /\ i \in 1..Depth(t))
      BY <1>2
    <3>. QED BY <1>4, <1>8, <1>13, <3>1 DEF CallsFit
  <2>. QED BY <1>5, <1>13, <2>1 DEF CallsFit, Depth
<1>15. OuterOnStack(t)'
  <2>1. ASSUME NEW i \in 1..(n - 2) PROVE Saves(memory'[t][i], calls'[t][i], t, i)
    <3>1. i \in 1..(Depth(t) - 1) /\ i \in 1..KStackSize /\ i # n - 1 /\ t \in Stack
      BY <1>2, <1>3, TrapAssumption DEF Stack
    <3>2. memory'[t][i] = memory[t][i]
      BY <1>10, <3>1 DEF DiffersAt
    <3>. QED BY <1>4, <1>13, <3>1, <3>2 DEF OuterOnStack
  <2>2. Depth(t)' - 1 = n - 2
    BY <1>13 DEF Depth
  <2>. QED BY <2>1, <2>2 DEF OuterOnStack
<1>16. /\ hart' \in Harts /\ hart'.ctx = c /\ hart'.mode = "S" /\ hart'.spp = hart.spp
       /\ hart'.sscratch = hart.sscratch /\ hart'.sp = <<t, n - 2>>
  <2>1. <<t, n - 2>> \in Pointers
    BY <1>3, <1>5 DEF Pointers, Stack
  <2>. QED BY <1>3, <1>4, <1>8, <1>9, <2>1 DEF Harts
<1>17. TrapTypeOK'
  BY <1>9, <1>10, <1>12, <1>16 DEF TrapInv, TrapTypeOK, DiffersAt
<1>18. Runs(t)
  BY <1>1, <1>8, <1>9, <1>13, <1>16 DEF Runs, On, Held, Is, SretKept, BeforeSret
<1>19. \A u \in TrapTask \ {t} : Untouched(u)
  BY <1>9, <1>10, <1>12 DEF Untouched, DiffersAt, Stack
<1>. QED BY <1>1, <1>14, <1>15, <1>17, <1>18, <1>19, StaysOn DEF On, Held

\* bsp_interrupt_disable and bsp_interrupt_enable.
LEMMA MaskInv == ASSUME TrapInv, bsp_interrupt_disable \/ bsp_interrupt_enable PROVE TrapInv'
<1>1. PICK t \in TrapTask : On(t)
  BY SomeTaskIsOn DEF bsp_interrupt_disable, bsp_interrupt_enable, InKernel
<1>2. /\ UNCHANGED <<memory, task_sp, running, pending_switch, trap, calls>>
      /\ hart' = [hart EXCEPT !.sie = FALSE] \/ hart' = [hart EXCEPT !.sie = TRUE]
  BY DEF bsp_interrupt_disable, bsp_interrupt_enable
<1>3. hart \in Harts
  BY DEF TrapInv, TrapTypeOK
<1>4. /\ hart' \in Harts /\ hart'.ctx = hart.ctx /\ hart'.mode = hart.mode /\ hart'.spp = hart.spp
      /\ hart'.sscratch = hart.sscratch /\ hart'.sp = hart.sp
  BY <1>2, <1>3 DEF Harts
<1>5. TrapTypeOK'
  BY <1>2, <1>4 DEF TrapInv, TrapTypeOK
<1>6. Runs(t)
  <2>1. ~BeforeSret'
    BY <1>2, <1>4 DEF bsp_interrupt_disable, bsp_interrupt_enable, InKernel, BeforeSret, Executes
  <2>. QED BY <1>1, <1>2, <1>4, <2>1 DEF Runs, On, Held, Is, Depth, SretKept
<1>7. \A u \in TrapTask : Untouched(u)
  BY <1>2 DEF Untouched
<1>8. CallsFit(t)' /\ OuterOnStack(t)'
  BY <1>7, UntouchedKept
<1>. QED BY <1>1, <1>5, <1>6, <1>7, <1>8, StaysOn DEF On, Held

LEMMA EnterUserSpaceInv == ASSUME TrapInv, enter_user_space PROVE TrapInv'
<1>1. PICK t \in TrapTask : On(t)
  BY SomeTaskIsOn DEF enter_user_space
<1>. DEFINE c == AtSret(t)
<1>2. /\ c \in Contexts /\ c.task = t /\ c.mode = "S"
      /\ UserEntry(t) \in Contexts
  BY EntryContexts
<1>3. /\ hart \in Harts /\ hart.ctx.task = t /\ hart.spp = "U" /\ hart.mode = "S"
      /\ hart.sp = <<t, 0>> /\ calls \in [TrapTask -> Seq(Contexts)]
  <2>1. hart \in Harts /\ calls \in [TrapTask -> Seq(Contexts)]
    BY DEF TrapInv, TrapTypeOK
  <2>2. /\ hart.ctx.task = t /\ hart.spp = "U" /\ hart.mode = "S"
        /\ hart.sp = <<t, Depth(t) - 1>> /\ Len(calls[hart.ctx.task]) = 1
    BY <1>1 DEF On, Held, enter_user_space, InKernel
  <2>3. Depth(t) = 1
    BY <2>2 DEF Depth
  <2>. QED BY <2>1, <2>2, <2>3
<1>4. /\ hart' = [hart EXCEPT !.ctx = c, !.sepc = UserEntry(t)]
      /\ SetContexts(t, <<c>>)
      /\ UNCHANGED <<memory, task_sp, running, pending_switch, trap>>
  BY <1>3 DEF enter_user_space
<1>. HIDE DEF c
<1>5. /\ calls' \in [TrapTask -> Seq(Contexts)]
      /\ calls'[t] = <<c>>
      /\ \A u \in TrapTask : u # t => calls'[u] = calls[u]
  <2>1. <<c>> \in Seq(Contexts)
    BY <1>2
  <2>. QED BY <1>3, <1>4, <2>1, NewCalls
<1>6. /\ hart' \in Harts /\ hart'.ctx = c /\ hart'.mode = "S" /\ hart'.spp = "U"
      /\ hart'.sscratch = hart.sscratch /\ hart'.sp = <<t, 0>> /\ hart'.sepc = UserEntry(t)
  BY <1>2, <1>3, <1>4 DEF Harts
<1>7. TrapTypeOK'
  BY <1>4, <1>5, <1>6 DEF TrapInv, TrapTypeOK
<1>8. Runs(t)
  <2>1. trap' = "none" /\ running' = t /\ pending_switch' = <<>>
    BY <1>1, <1>4 DEF On, Held
  <2>2. OnHart' = t /\ SretKept'
    BY <1>2, <1>6, <2>1 DEF SretKept, OnHart
  <2>3. Len(calls'[t]) = 1 /\ calls'[t][1] = c
    BY <1>5
  <2>. QED BY <1>2, <1>6, <2>1, <2>2, <2>3 DEF Runs, Is
<1>9. CallsFit(t)' /\ OuterOnStack(t)'
  BY <1>2, <1>5, OneContext
<1>10. \A u \in TrapTask \ {t} : Untouched(u)
  BY <1>4, <1>5 DEF Untouched
<1>. QED BY <1>1, <1>7, <1>8, <1>9, <1>10, StaysOn DEF On, Held

\* The sret takes the task to where sepc is, which is where it should go or in front of the
\* sret again.
LEMMA EnterUserSpaceSretInv == ASSUME TrapInv, enter_user_space_sret PROVE TrapInv'
<1>1. PICK t \in TrapTask : Held(t)
  BY SomeTaskIsHeld DEF enter_user_space_sret, BeforeSret
<1>. DEFINE c == UserEntry(t)
<1>2. c \in Contexts /\ c.task = t /\ c.mode = "U" /\ AtSret(t) \in Contexts
  BY EntryContexts
<1>3. /\ hart \in Harts /\ hart.ctx.task = t /\ hart.spp = "U"
      /\ calls \in [TrapTask -> Seq(Contexts)]
  BY <1>1 DEF Held, TrapInv, TrapTypeOK
<1>4. hart.sepc \in Contexts /\ Is(hart.sepc, c, t) /\ hart.sepc.task = t
  <2>1. hart.sepc \in {UserEntry(t), AtSret(t)}
    BY <1>1 DEF enter_user_space_sret, TrapInv, SretKept, Held
  <2>. QED BY <1>2, <2>1, EntryContexts DEF Is
<1>5. /\ hart' = [hart EXCEPT !.ctx = hart.sepc, !.mode = "U", !.sie = hart.spie,
                              !.spp = "U", !.spie = TRUE]
      /\ SetContexts(t, <<c>>)
      /\ UNCHANGED <<memory, task_sp, running, pending_switch, trap>>
  BY <1>3 DEF enter_user_space_sret
<1>. HIDE DEF c
<1>6. /\ calls' \in [TrapTask -> Seq(Contexts)]
      /\ calls'[t] = <<c>>
      /\ \A u \in TrapTask : u # t => calls'[u] = calls[u]
  <2>1. <<c>> \in Seq(Contexts)
    BY <1>2
  <2>. QED BY <1>3, <1>5, <2>1, NewCalls
<1>7. /\ hart' \in Harts /\ hart'.ctx = hart.sepc /\ hart'.mode = "U" /\ hart'.spp = "U"
      /\ hart'.sscratch = hart.sscratch
  BY <1>3, <1>4, <1>5 DEF Harts, Mode
<1>8. TrapTypeOK'
  BY <1>5, <1>6, <1>7 DEF TrapInv, TrapTypeOK
<1>9. Runs(t)
  BY <1>1, <1>2, <1>4, <1>5, <1>6, <1>7 DEF Runs, Held, SretKept, BeforeSret
<1>10. CallsFit(t)' /\ OuterOnStack(t)'
  BY <1>2, <1>6, OneContext
<1>11. \A u \in TrapTask \ {t} : Untouched(u)
  BY <1>5, <1>6 DEF Untouched
<1>. QED BY <1>1, <1>8, <1>9, <1>10, <1>11, StaysOn DEF Held

LEMMA SyscallEntryInv == ASSUME TrapInv, syscall_entry PROVE TrapInv'
<1>1. PICK t \in TrapTask : On(t)
  BY SomeTaskIsOn DEF syscall_entry
<1>. DEFINE c == Context(t, "S", 0)
<1>2. c \in Contexts /\ c.task = t /\ c.mode = "S" /\ c.done # Progress
  BY ContextType, TrapAssumption DEF Mode
<1>3. /\ hart.mode = "U" /\ running = t /\ hart.ctx = calls[t][1] /\ Depth(t) = 1
      /\ hart.mode = hart.ctx.mode
  BY <1>1 DEF syscall_entry, InUser, On, Held
<1>4. hart \in Harts /\ memory \in Memories /\ calls \in [TrapTask -> Seq(Contexts)]
      /\ TrapFrame \in Frames
  BY DEF TrapInv, TrapTypeOK, Harts, TrapFrame, Frame, Frames
<1>5. /\ memory' = Push(memory, <<t, 0>>, TrapFrame)
      /\ hart' = [hart EXCEPT !.ctx = c, !.sp = <<t, 1>>, !.mode = "S", !.sie = TRUE,
                              !.spp = "U", !.spie = hart.sie, !.sepc = hart.ctx]
      /\ SetContexts(t, Append(calls[t], c))
      /\ UNCHANGED <<task_sp, running, pending_switch, trap>>
  BY <1>3 DEF syscall_entry, KernelStackTop, Pushed
<1>6. DiffersAt(memory, memory', t, 1) /\ memory'[t][1] = TrapFrame
  <2>1. t \in Stack /\ 0 \in Nat /\ 0 < KStackSize /\ 0 + 1 = 1
    BY TrapAssumption DEF Stack
  <2>. QED BY <1>4, <1>5, <2>1, PushFrame
<1>7. Saves(TrapFrame, calls[t][1], t, 1)
  BY <1>3 DEF Saves, TrapFrame, Frame
<1>. HIDE DEF c
<1>8. /\ calls' \in [TrapTask -> Seq(Contexts)]
      /\ calls'[t] = Append(calls[t], c)
      /\ \A u \in TrapTask : u # t => calls'[u] = calls[u]
  <2>1. Append(calls[t], c) \in Seq(Contexts)
    BY <1>2, <1>4
  <2>. QED BY <1>4, <1>5, <2>1, NewCalls
<1>9. /\ CallsFit(t)' /\ OuterOnStack(t)'
      /\ Len(calls'[t]) = 2 /\ calls'[t][2] = c
  <2>1. 1 \in Nat /\ 1 < KStackSize /\ 1 + 1 = 2
    BY TrapAssumption
  <2>. QED BY <1>2, <1>3, <1>6, <1>7, <1>8, <2>1, Deeper
<1>10. /\ hart' \in Harts /\ hart'.ctx = c /\ hart'.mode = "S" /\ hart'.spp = "U"
       /\ hart'.sscratch = hart.sscratch /\ hart'.sp = <<t, 1>>
  BY <1>2, <1>4, <1>5 DEF Harts, Pointers, Stack, Mode
<1>11. TrapTypeOK'
  BY <1>5, <1>6, <1>8, <1>10 DEF TrapInv, TrapTypeOK, DiffersAt
<1>12. Runs(t)
  BY <1>1, <1>2, <1>5, <1>9, <1>10 DEF Runs, On, Held, Is, SretKept, BeforeSret
<1>13. \A u \in TrapTask \ {t} : Untouched(u)
  BY <1>5, <1>6, <1>8 DEF Untouched, DiffersAt, Stack
<1>. QED BY <1>1, <1>9, <1>11, <1>12, <1>13, StaysOn DEF On, Held

LEMMA SyscallExitInv == ASSUME TrapInv, syscall_exit PROVE TrapInv'
<1>1. PICK t \in TrapTask : On(t)
  BY SomeTaskIsOn DEF syscall_exit, InKernel
<1>2. /\ hart.mode = "S" /\ hart.ctx.task = t /\ hart.sp = <<t, 1>> /\ Depth(t) = 2
      /\ calls[t][1].mode = "U"
  BY <1>1 DEF syscall_exit, InKernel, On, Held, Depth
<1>3. /\ hart \in Harts /\ memory \in Memories /\ calls \in [TrapTask -> Seq(Contexts)]
      /\ calls[t] \in Seq(Contexts) /\ CallsFit(t) /\ OuterOnStack(t)
      /\ t \in Stack /\ 1 \in 1..KStackSize
  BY TrapAssumption DEF TrapInv, TrapTypeOK, CallsOK, OuterSaved, Stack
<1>. DEFINE f == memory[t][1]
<1>4. calls[t][1] \in Contexts /\ calls[t][1].task = t /\ Saves(f, calls[t][1], t, 1)
  <2>1. 1 \in 1..Depth(t) /\ 1 \in 1..(Depth(t) - 1)
    BY <1>2
  <2>. QED BY <1>3, <2>1 DEF CallsFit, OuterOnStack, Depth
<1>5. f \in Frames /\ f.ctx = calls[t][1] /\ f.spp = "U"
  BY <1>2, <1>3, <1>4 DEF Saves, Memories
<1>6. PICK c \in SyscallResults(f.ctx) :
        /\ RestoreAll([memory EXCEPT ![t][1].ctx = c], <<t, 1>>)
        /\ SetContexts(t, <<c>>)
  BY <1>2 DEF syscall_exit, At
<1>7. c \in Contexts /\ c.task = t /\ c.mode = "U"
  BY <1>2, <1>4, <1>5, <1>6, StepType, ContextType DEF SyscallResults, Mode
<1>. DEFINE g == [f EXCEPT !.ctx = c]
            m == [memory EXCEPT ![t][1].ctx = c]
<1>8. g \in Frames /\ SavesLast(g, c, t, 1)
  BY <1>5, <1>7, EntryContexts DEF Frames, SavesLast, Is
<1>9. m = OneChanged(memory, t, 1, g)
  BY DEF OneChanged
<1>10. RestoreAll(m, <<t, 1>>)
  BY <1>6
<1>. HIDE DEF g, m
<1>11. DiffersAt(memory, m, t, 1) /\ m[t][1] = g
  BY <1>3, <1>8, <1>9, ChangeOne
<1>12. Resumes(c, t, 1) /\ DiffersAt(m, memory', t, 1)
  <2>1. m \in Memories
    BY <1>11 DEF DiffersAt
  <2>. QED BY <1>3, <1>8, <1>10, <1>11, <2>1, RestoreFrame
<1>13. UNCHANGED <<task_sp, running, pending_switch, trap>>
  BY DEF syscall_exit
<1>14. /\ calls' \in [TrapTask -> Seq(Contexts)]
       /\ calls'[t] = <<c>>
       /\ \A u \in TrapTask : u # t => calls'[u] = calls[u]
  <2>1. <<c>> \in Seq(Contexts)
    BY <1>7
  <2>. QED BY <1>3, <1>6, <2>1, NewCalls
<1>15. TrapTypeOK'
  BY <1>12, <1>13, <1>14 DEF TrapInv, TrapTypeOK, DiffersAt, Resumes
<1>16. Runs(t)
  <2>1. trap' = "none" /\ running' = t /\ pending_switch' = <<>>
    BY <1>1, <1>13 DEF On, Held
  <2>2. Len(calls'[t]) = 1 /\ calls'[t][1] = c
    BY <1>14
  <2>. QED BY <1>7, <1>12, <2>1, <2>2, ResumesRuns
<1>17. CallsFit(t)' /\ OuterOnStack(t)'
  BY <1>7, <1>14, OneContext
<1>18. \A u \in TrapTask \ {t} : Untouched(u)
  BY <1>11, <1>12, <1>13, <1>14 DEF Untouched, DiffersAt, Stack
<1>. QED BY <1>1, <1>15, <1>16, <1>17, <1>18, StaysOn DEF On, Held

-----------------------------------------------------------------------------
\* A trap saves the context of the task that executes on the interrupt stack; nothing else
\* of any task changes.
LEMMA TrapEntryStep ==
  ASSUME TrapInv, NEW t \in TrapTask, Held(t), BeforeSret => hart.sie,
         TrapEntry, trap' \in {"handler", "dead"},
         running' \in TrapTask, trap' = "dead" => running' = t,
         pending_switch' = IF running' = t THEN <<>> ELSE <<t, running'>>
  PROVE  TrapInv'
<1>1. /\ hart \in Harts /\ memory \in Memories /\ TrapFrame \in Frames
      /\ hart.sscratch = <<"interrupt", 0>>
  BY DEF TrapInv, TrapTypeOK, Harts, TrapFrame, Frame, Frames, InterruptStackTop
<1>2. /\ memory' = Push(memory, <<"interrupt", 0>>, TrapFrame)
      /\ hart' = [hart EXCEPT !.sp = <<"interrupt", 1>>, !.spp = hart.mode, !.spie = hart.sie,
                              !.mode = "S", !.sie = FALSE, !.sepc = hart.ctx]
      /\ UNCHANGED <<task_sp, calls>>
  BY <1>1 DEF TrapEntry, Pushed
<1>3. DiffersAt(memory, memory', "interrupt", 1) /\ memory'["interrupt"][1] = TrapFrame
  <2>1. "interrupt" \in Stack /\ 0 \in Nat /\ 0 < KStackSize /\ 0 + 1 = 1
    BY TrapAssumption DEF Stack
  <2>. QED BY <1>1, <1>2, <2>1, PushFrame
<1>4. /\ hart' \in Harts /\ hart'.ctx = hart.ctx /\ hart'.sp = <<"interrupt", 1>>
      /\ hart'.spp = hart.mode /\ hart'.sscratch = hart.sscratch
  BY <1>1, <1>2 DEF Harts, Pointers, Stack, Mode
<1>5. OnHart = t /\ OnHart' = t /\ Depth(OnHart)' = Depth(t) /\ calls'[OnHart'] = calls[t]
  <2>1. OnHart = t /\ OnHart' = t
    BY <1>4 DEF Held, OnHart
  <2>. QED BY <1>2, <2>1 DEF Depth
<1>6. TrapTypeOK'
  BY <1>2, <1>3, <1>4 DEF TrapInv, TrapTypeOK, DiffersAt
<1>7. CallsOK' /\ OuterSaved' /\ OffHartSaved'
  <2>1. ASSUME NEW u \in TrapTask PROVE Kept(u)
    <3>1. u # "interrupt" /\ u \in Stack
      BY TrapAssumption DEF Stack
    <3>2. Untouched(u)
      BY <1>2, <1>3, <3>1 DEF Untouched, DiffersAt
    <3>. QED BY <1>5, <3>2, UntouchedIsKept
  <2>. QED BY <2>1, AllKept
<1>8. OnHartKept'
  <2>. DEFINE c == calls[t][Depth(t)]
  <2>1. Is(hart'.ctx, c, t) /\ hart'.spp = c.mode
    BY <1>4 DEF Held
  <2>2. SavesLast(TrapFrame, c, t, Depth(t))
    <3>1. ASSUME c = AtSret(t) PROVE hart.sie
      <4>1. hart.mode = "S" /\ hart.ctx = c /\ hart.ctx.done = Progress
        BY <3>1, EntryContexts, IsFacts DEF Held
      <4>. QED BY <4>1 DEF BeforeSret, Executes, Held
    <3>. QED BY <3>1 DEF SavesLast, TrapFrame, Frame, Held
  <2>3. SavesLast(memory'["interrupt"][1], c, t, Depth(t))
    BY <1>3, <2>2
  <2>. HIDE DEF c
  <2>4. calls'[OnHart'][Depth(OnHart)'] = c /\ OnHart' = t /\ Depth(OnHart)' = Depth(t)
    BY <1>5 DEF c
  <2>. QED BY <1>4, <2>1, <2>3, <2>4 DEF OnHartKept
<1>9. SretKept'
  BY DEF SretKept, BeforeSret, Executes
<1>. QED BY <1>6, <1>7, <1>8, <1>9 DEF TrapInv

LEMMA TimerInv ==
  ASSUME TrapInv, NEW next \in TrapTask, trap_handler_timer(next) PROVE TrapInv'
<1>1. PICK t \in TrapTask : Held(t)
  BY SomeTaskIsHeld DEF trap_handler_timer
<1>2. /\ TrapEntry /\ trap' = "handler" /\ running' = next
      /\ pending_switch' = IF next = t THEN <<>> ELSE <<t, next>>
  BY <1>1 DEF trap_handler_timer, Held
<1>3. BeforeSret => hart.sie
  BY DEF trap_handler_timer, BeforeSret
<1>. QED BY <1>1, <1>2, <1>3, TrapEntryStep

LEMMA ExceptionInv == ASSUME TrapInv, trap_handler_exception PROVE TrapInv'
<1>1. PICK t \in TrapTask : Held(t)
  BY SomeTaskIsHeld DEF trap_handler_exception
<1>2. /\ TrapEntry /\ trap' \in {"handler", "dead"} /\ running' = t /\ pending_switch' = <<>>
      /\ ~BeforeSret
  BY <1>1 DEF trap_handler_exception, Held
<1>. QED BY <1>1, <1>2, TrapEntryStep

\* The end of a trap that goes back to where it came from.
LEMMA InterruptExitInv == ASSUME TrapInv, _interrupt_exit PROVE TrapInv'
<1>1. /\ trap = "handler" /\ pending_switch = <<>> /\ trap' = "none"
      /\ RestoreAll(memory, hart.sp)
      /\ UNCHANGED <<task_sp, running, pending_switch, calls>>
  BY DEF _interrupt_exit
<1>2. PICK t \in TrapTask : OnHart = t
  BY <1>1 DEF TrapInv, OnHartKept
<1>. DEFINE d == Depth(t)
<1>3. /\ hart.sp = <<"interrupt", 1>>
      /\ SavesLast(memory["interrupt"][1], calls[t][d], t, d) /\ running = t
      /\ calls[t] \in Seq(Contexts) /\ d = Len(calls[t])
      /\ calls[t][d] \in Contexts /\ calls[t][d].task = t
  <2>1. calls[t] \in Seq(Contexts) /\ d = Len(calls[t]) /\ CallsFit(t)
    BY DEF TrapInv, TrapTypeOK, CallsOK, Depth
  <2>2. d \in 1..Depth(t)
    BY <2>1 DEF CallsFit
  <2>3. calls[t][d] \in Contexts /\ calls[t][d].task = t
    BY <2>1, <2>2 DEF CallsFit
  <2>. QED BY <1>1, <1>2, <2>1, <2>3 DEF TrapInv, OnHartKept
<1>. HIDE DEF d
<1>4. Resumes(calls[t][d], t, d) /\ DiffersAt(memory, memory', "interrupt", 1)
  <2>1. hart \in Harts /\ memory \in Memories /\ "interrupt" \in Stack /\ 1 \in 1..KStackSize
    BY TrapAssumption DEF TrapInv, TrapTypeOK, Stack
  <2>. QED BY <1>1, <1>3, <2>1, RestoreFrame
<1>5. TrapTypeOK'
  BY <1>1, <1>4 DEF TrapInv, TrapTypeOK, DiffersAt, Resumes
<1>6. Runs(t)
  BY <1>1, <1>3, <1>4, ResumesRuns
<1>7. OnHart' = t /\ OnHartKept' /\ SretKept'
  BY <1>6, RunsKept
<1>8. CallsOK' /\ OuterSaved' /\ OffHartSaved'
  <2>1. ASSUME NEW u \in TrapTask PROVE Kept(u)
    <3>1. u # "interrupt" /\ u \in Stack
      BY TrapAssumption DEF Stack
    <3>2. Untouched(u)
      BY <1>1, <1>4, <3>1 DEF Untouched, DiffersAt
    <3>. QED BY <1>2, <1>7, <3>2, UntouchedIsKept
  <2>. QED BY <2>1, AllKept
<1>. QED BY <1>5, <1>7, <1>8 DEF TrapInv

\* Task o goes away with frame f at the top of its stack, and task t comes back.
LEMMA SwitchStep ==
  ASSUME TrapInv, NEW o \in TrapTask, NEW t \in TrapTask, o # t, OnHart = o,
         NEW m \in Memories, SavesLast(m[o][Depth(o)], calls[o][Depth(o)], o, Depth(o)),
         \A u \in TrapTask : \A i \in 1..KStackSize :
            u # o \/ i # Depth(o) => m[u][i] = memory[u][i],
         task_sp' = [task_sp EXCEPT ![o] = <<o, Depth(o)>>],
         RestoreAll(m, task_sp[t]), trap' = "none", running' = t,
         pending_switch' = <<>>, calls' = calls
  PROVE  TrapInv'
<1>. DEFINE d == Depth(t)
<1>1. Away(t) /\ CallsFit(t) /\ OuterOnStack(t) /\ CallsFit(o) /\ OuterOnStack(o)
  BY DEF TrapInv, OffHartSaved, CallsOK, OuterSaved
<1>2. /\ d \in 1..KStackSize /\ calls[t][d].task = t
      /\ d = Len(calls[t]) /\ calls[t] \in Seq(Contexts) /\ calls[t][d] \in Contexts
  <2>1. d = Len(calls[t]) /\ calls[t] \in Seq(Contexts)
    BY DEF TrapInv, TrapTypeOK, Depth
  <2>2. d \in 1..KStackSize /\ d \in 1..Depth(t)
    BY <1>1, TrapAssumption DEF CallsFit
  <2>. QED BY <1>1, <2>1, <2>2 DEF CallsFit
<1>3. task_sp[t] = <<t, d>> /\ SavesLast(m[t][d], calls[t][d], t, d)
  <2>1. task_sp[t] = <<t, d>> /\ SavesLast(memory[t][d], calls[t][d], t, d)
    BY <1>1 DEF Away
  <2>2. m[t][d] = memory[t][d]
    BY <1>2
  <2>. QED BY <2>1, <2>2
<1>. HIDE DEF d
<1>4. Resumes(calls[t][d], t, d) /\ DiffersAt(m, memory', t, d)
  <2>1. hart \in Harts /\ t \in Stack
    BY DEF TrapInv, TrapTypeOK, Stack
  <2>. QED BY <1>2, <1>3, <2>1, RestoreFrame
<1>5. /\ task_sp' \in [TrapTask -> Pointers] /\ task_sp'[o] = <<o, Depth(o)>>
      /\ \A u \in TrapTask : u # o => task_sp'[u] = task_sp[u]
  <2>1. task_sp \in [TrapTask -> Pointers] /\ <<o, Depth(o)>> \in Pointers
    BY <1>1, TrapAssumption DEF TrapInv, TrapTypeOK, CallsFit, Pointers, Stack
  <2>. QED BY <2>1
<1>6. TrapTypeOK'
  BY <1>4, <1>5 DEF TrapInv, TrapTypeOK, DiffersAt, Resumes
<1>7. Runs(t)
  BY <1>2, <1>4, ResumesRuns
<1>8. OnHart' = t /\ OnHartKept' /\ SretKept'
  BY <1>7, RunsKept
<1>9. \A u \in TrapTask : Depth(u)' = Depth(u) /\ (CallsFit(u) => CallsFit(u)')
  BY DEF Depth, CallsFit
<1>10. ASSUME NEW u \in TrapTask, NEW i \in 1..KStackSize,
              u # t \/ i # d, u # o \/ i # Depth(o)
       PROVE  memory'[u][i] = memory[u][i]
  BY <1>4, <1>10 DEF DiffersAt, Stack
<1>11. ASSUME NEW u \in TrapTask \ {o, t} PROVE Kept(u)
  <2>1. Untouched(u)
    BY <1>5, <1>10, <1>11 DEF Untouched
  <2>. QED BY <1>8, <1>11, <2>1, UntouchedIsKept
<1>12. Kept(t)
  <2>1. ASSUME NEW i \in 1..(d - 1) PROVE Saves(memory'[t][i], calls'[t][i], t, i)
    <3>1. i \in 1..KStackSize /\ i # d
      BY <1>2, <2>1, TrapAssumption
    <3>2. memory'[t][i] = memory[t][i]
      BY <1>10, <3>1
    <3>. QED BY <1>1, <2>1, <3>2 DEF OuterOnStack, d
  <2>2. OuterOnStack(t)'
    BY <1>9, <2>1 DEF OuterOnStack, d
  <2>. QED BY <1>1, <1>8, <1>9, <2>2 DEF Kept
<1>13. Kept(o)
  <2>1. Depth(o) \in 1..KStackSize
    BY <1>1 DEF CallsFit
  <2>2. ASSUME NEW i \in 1..(Depth(o) - 1) PROVE Saves(memory'[o][i], calls'[o][i], o, i)
    <3>1. i \in 1..KStackSize /\ i # Depth(o)
      BY <2>1, <2>2, TrapAssumption
    <3>2. memory'[o][i] = memory[o][i]
      BY <1>10, <3>1
    <3>. QED BY <1>1, <2>2, <3>2 DEF OuterOnStack
  <2>3. OuterOnStack(o)'
    BY <1>9, <2>2 DEF OuterOnStack
  <2>4. memory'[o][Depth(o)] = m[o][Depth(o)]
    BY <1>4, <2>1 DEF DiffersAt, Stack
  <2>5. Away(o)'
    BY <1>5, <1>9, <2>4 DEF Away
  <2>. QED BY <1>1, <1>9, <2>3, <2>5 DEF Kept
<1>14. CallsOK' /\ OuterSaved' /\ OffHartSaved'
  BY <1>11, <1>12, <1>13, AllKept
<1>. QED BY <1>6, <1>8, <1>14 DEF TrapInv

LEMMA TaskSwitchInv ==
  ASSUME TrapInv, NEW next \in TrapTask, arch_task_switch(next) PROVE TrapInv'
<1>1. PICK t \in TrapTask : On(t)
  BY SomeTaskIsOn DEF arch_task_switch, InKernel
<1>2. PICK n \in Nat : n = Depth(t)
  BY <1>1, TrapAssumption DEF On, Held
<1>3. /\ hart.mode = "S" /\ hart.sp = <<t, n - 1>> /\ n - 1 < KStackSize /\ n # 0
      /\ hart.ctx.mode = "S" /\ hart.ctx = calls[t][n] /\ running = t /\ OnHart = t /\ next # t
  BY <1>1, <1>2 DEF arch_task_switch, InKernel, On, Held
<1>. DEFINE m == Push(memory, <<t, n - 1>>, SwitchFrame)
<1>4. /\ task_sp' = [task_sp EXCEPT ![t] = <<t, n>>] /\ running' = next
      /\ RestoreAll(m, task_sp[next])
      /\ trap' = "none" /\ pending_switch' = <<>> /\ calls' = calls
  <2>1. Pushed(hart.sp) = <<t, n>>
    BY <1>3 DEF Pushed
  <2>. QED BY <1>1, <1>3, <2>1 DEF arch_task_switch, On, Held
<1>5. /\ DiffersAt(memory, m, t, n) /\ m[t][n] = SwitchFrame
  <2>1. t \in Stack /\ n - 1 \in Nat /\ n - 1 < KStackSize /\ n - 1 + 1 = n
    BY <1>3 DEF Stack
  <2>2. SwitchFrame \in Frames /\ memory \in Memories
    BY DEF SwitchFrame, Frame, Frames, Mode, TrapInv, TrapTypeOK, Harts
  <2>. QED BY <2>1, <2>2, PushFrame
<1>6. SavesLast(SwitchFrame, calls[t][n], t, n)
  BY <1>3 DEF SavesLast, Is, SwitchFrame, Frame
<1>. HIDE DEF m
<1>7. /\ m \in Memories
      /\ SavesLast(m[t][n], calls[t][n], t, n)
      /\ \A u \in TrapTask : \A i \in 1..KStackSize : u # t \/ i # n => m[u][i] = memory[u][i]
  BY <1>5, <1>6 DEF DiffersAt, Stack
<1>. QED BY <1>2, <1>3, <1>4, <1>7, SwitchStep

\* The end of a trap that resumes another task.
LEMMA SwitchInterruptInv == ASSUME TrapInv, _switch_interrupt PROVE TrapInv'
<1>1. trap = "handler" /\ pending_switch # <<>>
  BY DEF _switch_interrupt
<1>2. PICK o \in TrapTask, t \in TrapTask : OnHart = o /\ running = t
  BY <1>1 DEF TrapInv, OnHartKept
<1>3. PICK n \in Nat : n = Depth(o) /\ n \in 1..KStackSize
  BY TrapAssumption DEF TrapInv, CallsOK, CallsFit
<1>. DEFINE f == memory["interrupt"][1]
            clean == Popped(memory, <<"interrupt", 1>>)
            m == Push(clean, <<o, n - 1>>, f)
<1>4. /\ o # t /\ pending_switch = <<o, t>> /\ hart.sp = <<"interrupt", 1>>
      /\ SavesLast(f, calls[o][n], o, n) /\ hart.spp = calls[o][n].mode
  BY <1>1, <1>2, <1>3 DEF TrapInv, OnHartKept
<1>5. /\ "interrupt" \in Stack /\ o \in Stack /\ 1 \in 1..KStackSize /\ memory \in Memories
      /\ f \in Frames /\ "interrupt" \notin TrapTask
  BY TrapAssumption DEF Stack, TrapInv, TrapTypeOK, Memories
<1>6. SwitchStack(f) = <<o, n - 1>>
  <2>1. CASE hart.spp = "S"
    BY <1>4, <2>1 DEF SwitchStack, SavesLast
  <2>2. CASE hart.spp # "S"
    <3>1. n = 1
      <4>1. n \in 1..Depth(o) /\ CallsFit(o)
        BY <1>3 DEF TrapInv, CallsOK
      <4>. QED BY <1>4, <2>2, <4>1 DEF CallsFit
    <3>. QED BY <1>4, <2>2, <3>1 DEF SwitchStack, KernelStackTop
  <2>. QED BY <2>1, <2>2
<1>7. At(memory, hart.sp) = f /\ Pushed(SwitchStack(f)) = <<o, n>>
  BY <1>3, <1>4, <1>6 DEF At, Pushed
<1>8. /\ task_sp' = [task_sp EXCEPT ![o] = <<o, n>>] /\ RestoreAll(m, task_sp'[t])
      /\ trap' = "none" /\ running' = t /\ pending_switch' = <<>> /\ calls' = calls
  BY <1>2, <1>4, <1>6, <1>7 DEF _switch_interrupt
<1>9. task_sp'[t] = task_sp[t]
  BY <1>4, <1>8 DEF TrapInv, TrapTypeOK
<1>. HIDE DEF f, clean
<1>10. DiffersAt(memory, clean, "interrupt", 1)
  BY <1>5, PopFrame DEF clean
<1>11. DiffersAt(clean, m, o, n) /\ m[o][n] = f
  <2>1. n - 1 \in Nat /\ n - 1 < KStackSize /\ n - 1 + 1 = n
    BY <1>3, TrapAssumption
  <2>2. clean \in Memories
    BY <1>10 DEF DiffersAt
  <2>. QED BY <1>5, <2>1, <2>2, PushFrame
<1>. HIDE DEF m
<1>12. /\ m \in Memories
       /\ SavesLast(m[o][n], calls[o][n], o, n)
       /\ \A u \in TrapTask : \A i \in 1..KStackSize : u # o \/ i # n => m[u][i] = memory[u][i]
  BY <1>4, <1>5, <1>10, <1>11 DEF DiffersAt, Stack
<1>. QED BY <1>2, <1>3, <1>4, <1>8, <1>9, <1>12, SwitchStep

-----------------------------------------------------------------------------
LEMMA TrapStutter == ASSUME TrapInv, UNCHANGED trapVars PROVE TrapInv'
BY DEF trapVars, TrapInv, TrapTypeOK, CallsOK, CallsFit, Depth, OuterSaved, OuterOnStack,
       OffHartSaved, Away, OnHart, OnHartKept, SretKept, BeforeSret, Executes

LEMMA TrapNextInv == TrapInv /\ [TrapNext]_trapVars => TrapInv'
<1>. SUFFICES ASSUME TrapInv, [TrapNext]_trapVars PROVE TrapInv'
  OBVIOUS
<1>1. ASSUME NEW t \in TrapTask, switch_to_first(t) PROVE TrapInv'
  BY <1>1, SwitchToFirstInv
<1>2. ASSUME NEW t \in TrapTask, arch_task_switch(t) PROVE TrapInv'
  BY <1>2, TaskSwitchInv
<1>3. ASSUME NEW t \in TrapTask, trap_handler_timer(t) PROVE TrapInv'
  BY <1>3, TimerInv
<1>4. CASE RunTask BY <1>4, RunTaskInv
<1>5. CASE KernelCalls BY <1>5, KernelCallsInv
<1>6. CASE KernelReturns BY <1>6, KernelReturnsInv
<1>7. CASE bsp_interrupt_disable BY <1>7, MaskInv
<1>8. CASE bsp_interrupt_enable BY <1>8, MaskInv
<1>9. CASE enter_user_space BY <1>9, EnterUserSpaceInv
<1>10. CASE enter_user_space_sret BY <1>10, EnterUserSpaceSretInv
<1>11. CASE trap_handler_exception BY <1>11, ExceptionInv
<1>12. CASE _switch_interrupt BY <1>12, SwitchInterruptInv
<1>13. CASE _interrupt_exit BY <1>13, InterruptExitInv
<1>14. CASE syscall_entry BY <1>14, SyscallEntryInv
<1>15. CASE syscall_exit BY <1>15, SyscallExitInv
<1>16. CASE UNCHANGED trapVars BY <1>16, TrapStutter
<1>. QED BY <1>1, <1>2, <1>3, <1>4, <1>5, <1>6, <1>7, <1>8, <1>9, <1>10, <1>11, <1>12, <1>13,
            <1>14, <1>15, <1>16 DEF TrapNext

LEMMA InvIsTransparent == TrapInv => TrapsAreTransparent
<1>. SUFFICES ASSUME TrapInv PROVE TrapsAreTransparent
  OBVIOUS
<1>1. ASSUME NEW t \in TrapTask
      PROVE  /\ Depth(t) = Len(calls[t]) /\ Last(calls[t]) = calls[t][Depth(t)]
             /\ calls[t][Depth(t)].task = t
             /\ Is(Innermost(t), calls[t][Depth(t)], t)
             /\ Innermost(t) = calls[t][Depth(t)] \/ Torn(t)
  <2>. DEFINE c == calls[t][Depth(t)]
  <2>1. /\ Depth(t) = Len(calls[t]) /\ Last(calls[t]) = c
        /\ calls[t] \in Seq(Contexts)
    BY DEF Depth, Last, TrapInv, TrapTypeOK
  <2>2. c.task = t /\ (c.mode = "U" => Depth(t) = 1)
    <3>1. CallsFit(t)
      BY DEF TrapInv, CallsOK
    <3>2. Depth(t) \in 1..Depth(t)
      BY <3>1 DEF CallsFit
    <3>3. Depth(t) # 1 => c.mode = "S"
      BY <3>1, <3>2 DEF CallsFit
    <3>. QED BY <3>1, <3>2, <3>3 DEF CallsFit
  <2>3. Is(Innermost(t), c, t)
    <3>1. CASE t # OnHart
      BY <3>1 DEF Innermost, At, TrapInv, OffHartSaved, Away, SavesLast
    <3>2. CASE t = OnHart /\ trap = "none"
      BY <3>2 DEF Innermost, TrapInv, OnHartKept
    <3>3. CASE t = OnHart /\ trap \in {"handler", "dead"}
      BY <3>3 DEF Innermost, At, TrapInv, OnHartKept, SavesLast
    <3>4. t = OnHart => trap # "boot"
      BY TrapAssumption DEF OnHart
    <3>. QED BY <3>1, <3>2, <3>3, <3>4 DEF TrapInv, TrapTypeOK
  <2>4. Innermost(t) # c => Torn(t)
    <3>. SUFFICES ASSUME Innermost(t) # c PROVE Torn(t)
      OBVIOUS
    <3>1. c = UserEntry(t) /\ Innermost(t) = AtSret(t)
      BY <2>3 DEF Is
    <3>2. Len(calls[t]) = 1 /\ calls[t][1] = UserEntry(t)
      BY <2>1, <2>2, <3>1, EntryContexts
    <3>3. calls[t] = <<UserEntry(t)>>
      BY <2>1, <3>2
    <3>. QED BY <3>1, <3>3 DEF Torn
  <2>. QED BY <2>1, <2>2, <2>3, <2>4
<1>2. PrivilegeFollowsContext
  <2>. SUFFICES ASSUME Executes
                PROVE  /\ hart.mode = hart.ctx.mode \/ (hart.mode = "U" /\ Torn(hart.ctx.task))
                       /\ hart.sscratch = InterruptStackTop
                       /\ hart.ctx.task = running
    BY DEF PrivilegeFollowsContext
  <2>1. PICK t \in TrapTask : Held(t)
    BY SomeTaskIsHeld
  <2>2. Innermost(t) = hart.ctx /\ hart.ctx.task = t /\ running = t
    BY <2>1 DEF Held, Innermost
  <2>3. hart.mode = calls[t][Depth(t)].mode
    BY <2>1 DEF Held
  <2>4. CASE hart.ctx = calls[t][Depth(t)]
    BY <2>2, <2>3, <2>4 DEF TrapInv, TrapTypeOK
  <2>5. CASE hart.ctx # calls[t][Depth(t)]
    <3>1. Torn(t) /\ calls[t][Depth(t)] = UserEntry(t)
      BY <1>1, <2>2, <2>5 DEF Is
    <3>2. hart.mode = "U"
      BY <2>3, <3>1, EntryContexts
    <3>. QED BY <2>2, <3>1, <3>2 DEF TrapInv, TrapTypeOK
  <2>. QED BY <2>4, <2>5
<1>3. ASSUME NEW t \in TrapTask
      PROVE  /\ Innermost(t) = Last(calls[t]) \/ Torn(t)
             /\ \A i \in 1..(Len(calls[t]) - 1) : memory[t][i].ctx = calls[t][i]
             /\ t # OnHart => task_sp[t] = <<t, Len(calls[t])>>
             /\ t = OnHart /\ Executes /\ hart.mode = "S" => hart.sp = <<t, Len(calls[t]) - 1>>
  <2>1. \A i \in 1..(Depth(t) - 1) : memory[t][i].ctx = calls[t][i]
    BY DEF TrapInv, OuterSaved, OuterOnStack, Saves
  <2>2. t # OnHart => task_sp[t] = <<t, Depth(t)>>
    BY DEF TrapInv, OffHartSaved, Away
  <2>3. t = OnHart /\ Executes /\ hart.mode = "S" => hart.sp = <<t, Depth(t) - 1>>
    BY DEF TrapInv, OnHartKept, Executes
  <2>. QED BY <1>1, <2>1, <2>2, <2>3
<1>4. MaskedEntryIsWhole
  <2>. SUFFICES ASSUME BeforeSret, ~hart.sie
                PROVE  hart.sepc = UserEntry(hart.ctx.task) /\ hart.spp = "U"
    BY DEF MaskedEntryIsWhole
  <2>1. PICK t \in TrapTask : Held(t)
    BY SomeTaskIsHeld DEF BeforeSret
  <2>. QED BY <2>1 DEF Held, TrapInv, SretKept
<1>. QED BY <1>2, <1>3, <1>4 DEF TrapsAreTransparent, ContextsIntact

\* Whatever interrupts, system calls and switches follow each other, a task goes on as if
\* nothing had happened: trap_entry, syscall_entry and arch_task_switch lose no register,
\* no stack pointer and no privilege.  The one loss is of the user entry that
\* enter_user_space keeps in sepc, and only when it runs with interrupts on.
THEOREM TasksDoNotNotice == TrapSpec => []TrapsAreTransparent
BY TrapInitInv, TrapNextInv, InvIsTransparent, PTL DEF TrapSpec
=============================================================================
