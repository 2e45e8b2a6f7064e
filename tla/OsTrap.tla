------------------------------- MODULE OsTrap -------------------------------
(***************************************************************************)
(* How contexts are saved and restored: trap_entry, syscall_entry and      *)
(* arch_task_switch of src/arch/riscv64, the frames arch.c makes, and      *)
(* arch_syscall_handler.                                                   *)
(*                                                                         *)
(* A context stands for all registers of a piece of code but sp: whose it  *)
(* is, whether it is user or kernel code, and how far it has come.  Stacks *)
(* grow by whole items, a frame of a trap or of a C function; <<s, n>> is  *)
(* the stack pointer of stack s with n items on it.  All traps share the   *)
(* interrupt stack and leave it before another one can come.  What a stack *)
(* holds beyond its pointer is dead, and forgotten when it is popped.      *)
(***************************************************************************)
EXTENDS Integers, Sequences, SequencesExt

CONSTANTS
  TrapTask,   \* the tasks
  KStackSize, \* items a stack has room for
  Progress    \* bound of the model: a context counts its steps modulo this

\* A system call and its preemption need two items.
ASSUME TrapAssumption ==
  /\ {"interrupt", "user", "none"} \cap TrapTask = {}
  /\ KStackSize \in Nat \ {0, 1}
  /\ Progress \in Nat \ {0}

VARIABLES
  hart,           \* ctx, sp, mode; and sie, spie, spp (of sstatus), sscratch, sepc
  memory,         \* stack -> position -> item
  task_sp,        \* task -> task_t.sp
  running,        \* current_task of the scheduler
  pending_switch, \* need_lazy_task_switch: <<lazy_old_task, lazy_next_task>> or <<>>
  trap,           \* "boot", "none", "handler", or "dead" in the loop of trap_handler
  calls           \* task -> the contexts it should have, innermost last; not in the code

trapVars == <<hart, memory, task_sp, running, pending_switch, trap, calls>>

Stack == TrapTask \cup {"interrupt", "user"}
Context(t, mode, done) == [task |-> t, mode |-> mode, done |-> done]
Step(c) == [c EXCEPT !.done = (@ + 1) % Progress]

\* The kernel code of t before the last instruction of enter_user_space, and what comes
\* after it.
AtSret(t) == Context(t, "S", Progress)
UserEntry(t) == Context(t, "U", 0)

\* os_task_get_kernel_stack_top, and the stack sscratch is set to at boot.
KernelStackTop(t) == <<t, 0>>
InterruptStackTop == <<"interrupt", 0>>

Push(m, sp, item) == [m EXCEPT ![sp[1]][sp[2] + 1] = item]
Pushed(sp) == <<sp[1], sp[2] + 1>>
At(m, sp) == m[sp[1]][sp[2]]

Frame(ctx, sp, spp, spie) == [ctx |-> ctx, sp |-> sp, spp |-> spp, spie |-> spie]
NoFrame == Frame(Context("none", "S", 0), InterruptStackTop, "S", FALSE)
Popped(m, sp) == [m EXCEPT ![sp[1]][sp[2]] = NoFrame]

\* What a trap saves of the code it interrupts: sstatus has its mode and its SIE.
TrapFrame == Frame(hart.ctx, hart.sp, hart.mode, hart.sie)

\* RESTORE_ALL from sp and sret, which leaves SPP as user and SPIE set.
RestoreAll(m, sp) ==
  LET f == At(m, sp)
  IN /\ memory' = Popped(m, sp)
     /\ hart' = [hart EXCEPT !.ctx = f.ctx, !.sp = f.sp, !.mode = f.spp, !.sie = f.spie,
                             !.spp = "U", !.spie = TRUE, !.sepc = f.ctx]

\* arch_task_stack_frame_init: SPP and SPIE are set.
arch_task_stack_frame_init(t) == Frame(Context(t, "S", 0), KernelStackTop(t), "S", TRUE)

TrapInit ==
  /\ hart = [ctx |-> Context("none", "S", 0), sp |-> <<"user", 0>>, mode |-> "S", sie |-> FALSE,
             spie |-> FALSE, spp |-> "S", sscratch |-> InterruptStackTop,
             sepc |-> Context("none", "S", 0)]
  /\ memory = [s \in Stack |-> [n \in 1..KStackSize |->
                 IF s \in TrapTask /\ n = 1 THEN arch_task_stack_frame_init(s) ELSE NoFrame]]
  /\ task_sp = [t \in TrapTask |-> Pushed(KernelStackTop(t))]
  /\ running = "none"
  /\ pending_switch = <<>>
  /\ trap = "boot"
  /\ calls = [t \in TrapTask |-> <<Context(t, "S", 0)>>]

-----------------------------------------------------------------------------
\* os_task_scheduler_start: arch_task_switch(OS_NULL, t).
switch_to_first(t) ==
  /\ trap = "boot"
  /\ trap' = "none"
  /\ running' = t
  /\ RestoreAll(memory, task_sp[t])
  /\ UNCHANGED <<task_sp, pending_switch, calls>>

Executes == trap = "none"
BeforeSret == Executes /\ hart.mode = "S" /\ hart.ctx.done = Progress
InKernel == Executes /\ hart.mode = "S" /\ ~BeforeSret
InUser == Executes /\ hart.mode = "U" /\ hart.ctx.mode = "U"
SetContexts(t, seq) == calls' = [calls EXCEPT ![t] = seq]

\* User code goes on; kernel code goes on with every call that returns.
RunTask ==
  /\ InUser
  /\ hart' = [hart EXCEPT !.ctx = Step(@)]
  /\ SetContexts(hart.ctx.task, Append(Front(calls[hart.ctx.task]), Step(hart.ctx)))
  /\ UNCHANGED <<memory, task_sp, running, pending_switch, trap>>

\* A C function of the kernel calls another, which keeps the caller's registers on the
\* stack; room is left for the two frames a preemption takes.
KernelCalls ==
  /\ InKernel /\ hart.sp[2] + 2 < KStackSize
  /\ memory' = Push(memory, hart.sp, Frame(hart.ctx, hart.sp, "S", FALSE))
  /\ hart' = [hart EXCEPT !.ctx = Context(@.task, "S", 0), !.sp = Pushed(@)]
  /\ SetContexts(hart.ctx.task, Append(calls[hart.ctx.task], Context(hart.ctx.task, "S", 0)))
  /\ UNCHANGED <<task_sp, running, pending_switch, trap>>

\* The items below the first are those of C functions when the task came from user
\* space; those of a kernel thread all are.
FirstCall(t) == IF calls[t][1].mode = "U" THEN 2 ELSE 1

KernelReturns ==
  LET t == hart.ctx.task
      caller == At(memory, hart.sp)
  IN /\ InKernel /\ hart.sp[2] >= FirstCall(t)
     /\ hart' = [hart EXCEPT !.ctx = Step(caller.ctx), !.sp = caller.sp]
     /\ memory' = Popped(memory, hart.sp)
     /\ SetContexts(t, Append(SubSeq(calls[t], 1, Len(calls[t]) - 2), Step(calls[t][Len(calls[t]) - 1])))
     /\ UNCHANGED <<task_sp, running, pending_switch, trap>>

bsp_interrupt_disable ==
  /\ InKernel /\ hart' = [hart EXCEPT !.sie = FALSE]
  /\ UNCHANGED <<memory, task_sp, running, pending_switch, trap, calls>>

bsp_interrupt_enable ==
  /\ InKernel /\ hart' = [hart EXCEPT !.sie = TRUE]
  /\ UNCHANGED <<memory, task_sp, running, pending_switch, trap, calls>>

\* Mutant: SPP is left as the last sret left it.
SwitchFrame_NoSpp == Frame(hart.ctx, hart.sp, hart.spp, TRUE)

\* The frame arch_task_switch pushes, with SPP and SPIE set.
SwitchFrame == Frame(hart.ctx, hart.sp, "S", TRUE)

\* arch_task_switch, called by os_task_schedule in a critical area.
arch_task_switch(next) ==
  LET t == running
      m == Push(memory, hart.sp, SwitchFrame)
  IN /\ InKernel /\ ~hart.sie /\ next # t
     /\ hart.sp[2] < KStackSize
     /\ task_sp' = [task_sp EXCEPT ![t] = Pushed(hart.sp)]
     /\ running' = next
     /\ RestoreAll(m, task_sp[next])
     /\ UNCHANGED <<pending_switch, trap, calls>>

\* enter_user_space, called by a kernel thread, up to its sret.  It clears bit 3 of
\* sstatus, which is not SPP, and sets sepc; interrupts stay as they are.
enter_user_space ==
  LET t == hart.ctx.task
  IN /\ InKernel /\ Len(calls[t]) = 1
     /\ hart' = [hart EXCEPT !.ctx = AtSret(t), !.sepc = UserEntry(t)]
     /\ SetContexts(t, <<AtSret(t)>>)
     /\ UNCHANGED <<memory, task_sp, running, pending_switch, trap>>

\* The sret: it goes on where sepc says, in the mode SPP says.  A trap since then has left
\* in sepc where it came back to.
enter_user_space_sret ==
  LET t == hart.ctx.task
  IN /\ BeforeSret
     /\ hart' = [hart EXCEPT !.ctx = hart.sepc, !.mode = hart.spp, !.sie = hart.spie,
                             !.spp = "U", !.spie = TRUE]
     /\ SetContexts(t, <<UserEntry(t)>>)
     /\ UNCHANGED <<memory, task_sp, running, pending_switch, trap>>

-----------------------------------------------------------------------------
\* trap_entry up to the return of trap_handler, for everything but ecall.  The frame
\* goes to the stack in sscratch, and sscratch is set back to its top.
TrapEntry ==
  /\ memory' = Push(memory, hart.sscratch, TrapFrame)
  /\ hart' = [hart EXCEPT !.sp = Pushed(hart.sscratch), !.spp = hart.mode, !.spie = hart.sie,
                          !.mode = "S", !.sie = FALSE, !.sepc = hart.ctx]
  /\ UNCHANGED <<task_sp, calls>>

\* The timer interrupt: os_tick_handler may have chosen another task.
trap_handler_timer(next) ==
  /\ Executes /\ (hart.mode = "U" \/ hart.sie)
  /\ TrapEntry
  /\ running' = next
  /\ pending_switch' = IF next = running THEN <<>> ELSE <<running, next>>
  /\ trap' = "handler"

\* A page fault, in user or kernel code, which os_mmu_page_fault_handler resolves or
\* not; whatever is not handled ends in a loop.  The sret touches no memory, but kernel
\* code cannot be fetched in user mode.
trap_handler_exception ==
  /\ Executes /\ ~BeforeSret
  /\ TrapEntry
  /\ \/ trap' = "dead"
     \/ trap' = "handler" /\ (InUser \/ InKernel)
  /\ UNCHANGED <<running, pending_switch>>

\* Mutant: as if user code were always the one that is interrupted.
SwitchStack_AlwaysTop(f) == KernelStackTop(pending_switch[1])

\* Where _switch_interrupt moves the frame f to: where the kernel code of the old task
\* was, or the top of its kernel stack.
SwitchStack(f) == IF hart.spp = "S" THEN f.sp ELSE KernelStackTop(pending_switch[1])

_switch_interrupt ==
  LET f == At(memory, hart.sp)
      m == Push(Popped(memory, hart.sp), SwitchStack(f), f)
      sp == [task_sp EXCEPT ![pending_switch[1]] = Pushed(SwitchStack(f))]
  IN /\ trap = "handler" /\ pending_switch # <<>>
     /\ task_sp' = sp
     /\ RestoreAll(m, sp[pending_switch[2]])
     /\ pending_switch' = <<>>
     /\ trap' = "none"
     /\ UNCHANGED <<running, calls>>

_interrupt_exit ==
  /\ trap = "handler" /\ pending_switch = <<>>
  /\ RestoreAll(memory, hart.sp)
  /\ trap' = "none"
  /\ UNCHANGED <<task_sp, running, pending_switch, calls>>

\* syscall_entry: ecall by user code.  The frame is saved on the interrupt stack and
\* copied to the kernel stack of the task, where the handler runs with interrupts on.
syscall_entry ==
  LET t == running
      top == KernelStackTop(t)
      handler == Context(t, "S", 0)
  IN /\ InUser
     /\ memory' = Push(memory, top, TrapFrame)
     /\ hart' = [hart EXCEPT !.ctx = handler, !.sp = Pushed(top), !.mode = "S", !.sie = TRUE,
                             !.spp = "U", !.spie = hart.sie, !.sepc = hart.ctx]
     /\ SetContexts(t, Append(calls[t], handler))
     /\ UNCHANGED <<task_sp, running, pending_switch, trap>>

\* What the handler leaves in the frame: the caller behind its ecall; the entry of
\* another program; or, for a number without a handler, the caller at its ecall again.
SyscallResults(c) == {Step(c), Context(c.task, "U", 0), c}

\* syscall_exit.
syscall_exit ==
  LET t == hart.ctx.task
      f == At(memory, hart.sp)
  IN /\ InKernel /\ Len(calls[t]) = 2 /\ calls[t][1].mode = "U"
     /\ \E c \in SyscallResults(f.ctx) :
          LET m == [memory EXCEPT ![hart.sp[1]][hart.sp[2]].ctx = c]
          IN /\ RestoreAll(m, hart.sp)
             /\ SetContexts(t, <<c>>)
     /\ UNCHANGED <<task_sp, running, pending_switch, trap>>

TrapNext ==
  \/ \E t \in TrapTask : switch_to_first(t) \/ arch_task_switch(t) \/ trap_handler_timer(t)
  \/ RunTask
  \/ KernelCalls
  \/ KernelReturns
  \/ bsp_interrupt_disable
  \/ bsp_interrupt_enable
  \/ enter_user_space
  \/ enter_user_space_sret
  \/ trap_handler_exception
  \/ _switch_interrupt
  \/ _interrupt_exit
  \/ syscall_entry
  \/ syscall_exit

TrapSpec == TrapInit /\ [][TrapNext]_trapVars

-----------------------------------------------------------------------------
\* The task whose code the hart executes, or has interrupted.
OnHart == IF trap = "boot" THEN "none" ELSE hart.ctx.task

\* Where the innermost context of task t is.
Innermost(t) == IF t # OnHart THEN At(memory, task_sp[t]).ctx
                ELSE IF trap = "none" THEN hart.ctx ELSE At(memory, hart.sp).ctx

\* A task that should enter user space and goes on, in user mode, at the sret that was to
\* take it there.
Torn(t) == Innermost(t) = AtSret(t) /\ calls[t] = <<UserEntry(t)>>

\* No context is ever lost or overwritten, however system calls, interrupts, switches
\* by the task itself and switches at the end of an interrupt follow each other: a task
\* has exactly the contexts it should have, the outer ones on its own kernel stack, and
\* goes on with the innermost one on the stack where that left off; a task that was
\* interrupted in front of the sret of enter_user_space excepted.
ContextsIntact ==
  \A t \in TrapTask :
    /\ Innermost(t) = Last(calls[t]) \/ Torn(t)
    /\ \A i \in 1..(Len(calls[t]) - 1) : memory[t][i].ctx = calls[t][i]
    /\ t # OnHart => task_sp[t] = <<t, Len(calls[t])>>
    /\ t = OnHart /\ Executes /\ hart.mode = "S" => hart.sp = <<t, Len(calls[t]) - 1>>

\* User code runs in user mode, where every interrupt is taken, and kernel code in
\* supervisor mode, although enter_user_space does not clear SPP and switches set it.
PrivilegeFollowsContext ==
  Executes => /\ hart.mode = hart.ctx.mode \/ (hart.mode = "U" /\ Torn(hart.ctx.task))
              /\ hart.sscratch = InterruptStackTop
              /\ hart.ctx.task = running

\* A task that enters user space with interrupts masked gets there.
MaskedEntryIsWhole ==
  BeforeSret /\ ~hart.sie => hart.sepc = UserEntry(hart.ctx.task) /\ hart.spp = "U"

\* A task does not notice that it was interrupted, in front of that sret excepted.
TrapsAreTransparent == ContextsIntact /\ PrivilegeFollowsContext /\ MaskedEntryIsWhole

\* enter_user_space(entry) goes to user space: a task that has executed its sret, and no
\* system call since, is in user code.
EntersUserSpace == \A t \in TrapTask : ~Torn(t)
=============================================================================
