----------------------------- MODULE Processes -----------------------------
(***************************************************************************)
(* Ring 3 processes: kernel/process.c, kernel/scheduler_process.c, the     *)
(* process system calls of kernel/syscall.c, and the way IRQ0, int 0x80    *)
(* and exceptions reach them (kernel/idt.c).                               *)
(*                                                                         *)
(* A process_t is a slot of the heap.  Its one `next' field links it both  *)
(* into proc_list and into sched_queue.  A freed slot keeps its contents   *)
(* until kmalloc hands it out again, so a pointer that outlives its        *)
(* process reads what the process left behind.                             *)
(*                                                                         *)
(* `cpu' is what the processor executes: the kernel's own thread (start-up *)
(* and then the shell), the user code of a process, or a walk of a cyclic  *)
(* list that never ends.  `intr' is the interrupt flag: system calls and   *)
(* interrupt handlers run with it off and are therefore single steps,      *)
(* unless they wait.                                                       *)
(***************************************************************************)
EXTENDS Integers, FiniteSets

CONSTANTS
    Slots,              \* places for a process_t in the heap
    NULL,
    KERNEL,             \* cpu: the kernel thread
    HUNG,               \* cpu: an endless walk over a list
    VMod,               \* values of a uint32_t vruntime (2^32)
    MaxPid,             \* bound: pids given out by process_create
    ForkOffset,         \* sys_fork: child pid - parent pid (1000)
    KernelDispatch      \* whether kernel code calls schedule_process() itself

ASSUME ProcessesAssumption ==
    /\ IsFiniteSet(Slots)
    /\ NULL \notin Slots /\ KERNEL \notin Slots /\ HUNG \notin Slots
    /\ KERNEL # HUNG
    /\ VMod \in Nat /\ VMod > 1 /\ VMod % 2 = 0
    /\ MaxPid \in Nat
    /\ ForkOffset \in Nat
    /\ KernelDispatch \in BOOLEAN

VARIABLES
    state,              \* proc->state
    pid,                \* proc->pid
    vruntime,           \* proc->vruntime
    next,               \* proc->next
    allocated,          \* slots that kmalloc has given out
    forked,             \* history: slots allocated by sys_fork
    entered,            \* history: times enter_userspace has started the slot
    proc_list,
    sched_queue,
    current_process,
    next_pid,
    tss_esp0,           \* the slot whose kernel stack the TSS holds
    adding,             \* created by the kernel thread, not yet in sched_queue
    cpu,
    intr,               \* the interrupt flag of the processor
    waiting,            \* the cpu sits in the hlt loop of a system call
    irq0                \* "idle" or "in_service": not yet acknowledged

procs == <<state, pid, vruntime, next, allocated, forked, entered>>
lists == <<proc_list, sched_queue, next_pid, adding>>
machine == <<current_process, tss_esp0, cpu, intr, waiting, irq0>>
vars == <<procs, lists, machine>>

----------------------------------------------------------------------------
(***************************************************************************)
(* Lists.  Walk(h)[i] is the i-th node behind h, NULL behind the end.      *)
(***************************************************************************)
N == Cardinality(Slots)
Walk(h) ==
    LET w[i \in 0 .. N] == IF i = 0 THEN h
                           ELSE IF w[i - 1] = NULL THEN NULL
                           ELSE next[w[i - 1]]
    IN  w
Nodes(h) == {Walk(h)[i] : i \in 0 .. N} \ {NULL}
Cyclic(h) == Walk(h)[N] # NULL

\* process_get_by_pid: the first match, or NULL.
process_get_by_pid(n) ==
    LET w == Walk(proc_list)
        hits == {i \in 0 .. N : w[i] # NULL /\ pid[w[i]] = n}
    IN  IF hits = {} THEN NULL
        ELSE w[CHOOSE i \in hits : \A j \in hits : i <= j]

Pids == 1 .. MaxPid + ForkOffset

Init ==
    /\ state = [x \in Slots |-> "NEW"]
    /\ pid = [x \in Slots |-> 0]
    /\ vruntime = [x \in Slots |-> 0]
    /\ next = [x \in Slots |-> NULL]
    /\ allocated = {}
    /\ forked = {}
    /\ entered = [x \in Slots |-> 0]
    /\ proc_list = NULL
    /\ sched_queue = NULL
    /\ current_process = NULL
    /\ next_pid = 1
    /\ tss_esp0 = NULL
    /\ adding = NULL
    /\ cpu = KERNEL
    /\ intr = TRUE
    /\ waiting = FALSE
    /\ irq0 = "idle"

----------------------------------------------------------------------------
(***************************************************************************)
(* schedule_process, called when the states are st and the run times vr:   *)
(* the READY process with the lowest vruntime, the first of them in the    *)
(* queue.  A process with vruntime 0 is entered in ring 3 and the call     *)
(* does not return; otherwise it returns to whatever called it.            *)
(***************************************************************************)
IsBest(st, vr, b) ==
    LET w == Walk(sched_queue)
        ready == {i \in 0 .. N : w[i] # NULL /\ st[w[i]] = "READY"}
    IN  \E i \in ready :
            /\ w[i] = b
            /\ \A j \in ready : \/ vr[w[i]] < vr[w[j]]
                                \/ vr[w[i]] = vr[w[j]] /\ i <= j

\* Mutant: the process that loses the processor stays RUNNING.
PreemptedStaysRunning(st) == st

\* Mutant: it becomes READY whatever its state is.
PreemptedAlways(st) ==
    IF current_process # NULL
    THEN [st EXCEPT ![current_process] = "READY"]
    ELSE st

Preempted(st) ==
    IF current_process # NULL /\ st[current_process] = "RUNNING"
    THEN [st EXCEPT ![current_process] = "READY"]
    ELSE st

Enter(vr, b) ==
    /\ vruntime' = [vr EXCEPT ![b] = 1]
    /\ entered' = [entered EXCEPT ![b] = @ + 1]
    /\ cpu' = b

SwitchTo(st, vr, b) ==
    /\ IsBest(st, vr, b)
    /\ ~Cyclic(sched_queue)
    /\ state' = [Preempted(st) EXCEPT ![b] = "RUNNING"]
    /\ current_process' = b
    /\ tss_esp0' = b
    /\ IF vr[b] = 0 THEN Enter(vr, b)
       ELSE vruntime' = vr /\ UNCHANGED <<entered, cpu>>

NoSwitch(st, vr) ==
    /\ \/ Cyclic(sched_queue) /\ cpu' = HUNG
       \/ /\ ~Cyclic(sched_queue)
          /\ \A b \in Slots : ~IsBest(st, vr, b)
          /\ UNCHANGED cpu
    /\ state' = st
    /\ vruntime' = vr
    /\ UNCHANGED <<current_process, tss_esp0, entered>>

schedule_process(st, vr) ==
    /\ (\E b \in Slots : SwitchTo(st, vr, b)) \/ NoSwitch(st, vr)
    /\ UNCHANGED <<pid, next, allocated, forked>>

----------------------------------------------------------------------------
(***************************************************************************)
(* The kernel thread: kernel_main starts processes, then the shell does    *)
(* (exec) and kills them (kill).                                           *)
(***************************************************************************)
process_create(x) ==
    /\ cpu = KERNEL
    /\ adding = NULL
    /\ next_pid <= MaxPid
    /\ x \notin allocated
    /\ allocated' = allocated \cup {x}
    /\ pid' = [pid EXCEPT ![x] = next_pid]
    /\ next_pid' = next_pid + 1
    /\ state' = [state EXCEPT ![x] = "READY"]
    /\ vruntime' = [vruntime EXCEPT ![x] = 0]
    /\ next' = [next EXCEPT ![x] = proc_list]
    /\ proc_list' = x
    /\ adding' = x
    /\ entered' = [entered EXCEPT ![x] = 0]
    /\ forked' = forked \ {x}
    /\ UNCHANGED <<sched_queue, machine>>

\* No memory for the page directory, the image or the kernel stack: the
\* process_t is freed again, its pid stays used.
process_create_fails ==
    /\ cpu = KERNEL
    /\ adding = NULL
    /\ next_pid <= MaxPid
    /\ next_pid' = next_pid + 1
    /\ UNCHANGED <<procs, proc_list, sched_queue, adding, machine>>

sched_proc_add ==
    /\ cpu = KERNEL
    /\ adding # NULL
    /\ state' = [state EXCEPT ![adding] = "READY"]
    /\ next' = [next EXCEPT ![adding] = sched_queue]
    /\ sched_queue' = adding
    /\ adding' = NULL
    /\ UNCHANGED <<pid, vruntime, allocated, forked, entered, proc_list,
                   next_pid, machine>>

\* The effect of kill, for the shell and for sys_kill with signal 9.
Kill(n) ==
    LET x == process_get_by_pid(n)
    IN  /\ x # NULL
        /\ state' = [state EXCEPT ![x] = "ZOMBIE"]
        /\ UNCHANGED <<pid, vruntime, next, allocated, forked, entered, lists,
                       machine>>

shell_kill(n) == cpu = KERNEL /\ adding = NULL /\ Kill(n)

\* schedule_process() is exported by scheduler_process.h.
kernel_dispatch ==
    /\ KernelDispatch
    /\ cpu = KERNEL
    /\ adding = NULL
    /\ schedule_process(state, vruntime)
    /\ UNCHANGED <<lists, intr, waiting, irq0>>

----------------------------------------------------------------------------
(***************************************************************************)
(* IRQ0: irq_handler calls sched_proc_tick and acknowledges the interrupt  *)
(* when that returns.  Until it is acknowledged, IRQ0 is not raised again. *)
(***************************************************************************)
Acknowledge(returned) == irq0' = IF returned THEN "idle" ELSE "in_service"

\* Mutant: an odd charge, which brings vruntime back to 0.
ChargedFive == [vruntime EXCEPT ![current_process] = (@ + 5) % VMod]

\* Mutant: the addition does not wrap around.
ChargedWide == [vruntime EXCEPT ![current_process] = @ + 10]

Charged == [vruntime EXCEPT ![current_process] = (@ + 10) % VMod]

sched_proc_tick ==
    IF current_process # NULL /\ state[current_process] = "RUNNING"
    THEN /\ schedule_process(state, Charged)
         /\ Acknowledge(entered' = entered /\ cpu' # HUNG)
    ELSE UNCHANGED <<procs, current_process, tss_esp0, cpu, irq0>>

\* A tick also ends the hlt of a system call that waits, which then returns.
timer_irq ==
    /\ cpu # HUNG
    /\ intr
    /\ irq0 = "idle"
    /\ sched_proc_tick
    /\ waiting' = FALSE
    /\ UNCHANGED <<lists, intr>>

----------------------------------------------------------------------------
(***************************************************************************)
(* System calls and exceptions of the user code that the cpu executes.     *)
(* They all act on current_process.                                        *)
(***************************************************************************)
UserMode == cpu \in Slots /\ current_process # NULL /\ ~waiting

process_exit ==
    /\ schedule_process([state EXCEPT ![current_process] = "ZOMBIE"], vruntime)
    /\ UNCHANGED <<lists, intr, waiting, irq0>>

\* sys_exit, sys_exit_group, and an exception in ring 3.
sys_exit == UserMode /\ process_exit

sys_kill(n) == UserMode /\ Kill(n)

\* The child is a copy of the parent that is put in no list.
sys_fork(x) ==
    /\ UserMode
    /\ x \notin allocated
    /\ pid[current_process] <= MaxPid
    /\ allocated' = allocated \cup {x}
    /\ forked' = forked \cup {x}
    /\ entered' = [entered EXCEPT ![x] = 0]
    /\ pid' = [pid EXCEPT ![x] = pid[current_process] + ForkOffset]
    /\ state' = [state EXCEPT ![x] = "READY"]
    /\ vruntime' = [vruntime EXCEPT ![x] = vruntime[current_process]]
    /\ next' = [next EXCEPT ![x] = next[current_process]]
    /\ UNCHANGED <<lists, machine>>

\* Mutant: the head of the list is not treated specially.
process_destroy_keeps_head(x) ==
    LET before == {y \in Nodes(proc_list) : next[y] = x}
    IN  /\ next' = [y \in Slots |-> IF y \in before THEN next[x] ELSE next[y]]
        /\ UNCHANGED proc_list
        /\ state' = [state EXCEPT ![x] = "DEAD"]
        /\ allocated' = allocated \ {x}
        /\ UNCHANGED <<pid, vruntime, forked, entered>>

\* process_destroy: unlink from proc_list, free the stack and the process_t.
process_destroy(x) ==
    LET before == {y \in Nodes(proc_list) : next[y] = x}
    IN  /\ IF proc_list = x
           THEN proc_list' = next[x] /\ UNCHANGED next
           ELSE /\ next' = [y \in Slots |-> IF y \in before THEN next[x]
                                            ELSE next[y]]
                /\ UNCHANGED proc_list
        /\ state' = [state EXCEPT ![x] = "DEAD"]
        /\ allocated' = allocated \ {x}
        /\ UNCHANGED <<pid, vruntime, forked, entered>>

\* int 0x80 is an interrupt gate and its stub does cli: a system call that
\* executes hlt to wait for the next tick does so with this flag.
GateFlag == FALSE

WaitForTick ==
    /\ waiting' = TRUE
    /\ intr' = GateFlag
    /\ UNCHANGED <<procs, proc_list, current_process, tss_esp0, cpu, irq0>>

\* waitpid polls a living process with timer_sleep.
sys_waitpid(n) ==
    LET x == process_get_by_pid(n)
    IN  /\ UserMode
        /\ x # NULL
        /\ IF state[x] \in {"ZOMBIE", "DEAD"}
           THEN process_destroy(x) /\ UNCHANGED machine
           ELSE WaitForTick
        /\ UNCHANGED <<sched_queue, next_pid, adding>>

\* sys_nanosleep (timer_sleep), and sys_read (keyboard_read) with no key.
sys_sleep ==
    /\ UserMode
    /\ WaitForTick
    /\ UNCHANGED <<sched_queue, next_pid, adding>>

Next ==
    \/ \E x \in Slots : process_create(x)
    \/ process_create_fails
    \/ sched_proc_add
    \/ \E n \in Pids : shell_kill(n)
    \/ kernel_dispatch
    \/ timer_irq
    \/ sys_exit
    \/ \E n \in Pids : sys_kill(n)
    \/ \E x \in Slots : sys_fork(x)
    \/ \E n \in Pids : sys_waitpid(n)
    \/ sys_sleep

Spec == Init /\ [][Next]_vars

\* The PIT raises IRQ0 a thousand times a second, and the start-up code of
\* kernel_main does not stop between process_create and sched_proc_add.
FairSpec == Spec /\ WF_vars(timer_irq) /\ WF_vars(sched_proc_add)

----------------------------------------------------------------------------
States == {"NEW", "READY", "RUNNING", "ZOMBIE", "DEAD"}

(***************************************************************************)
(* Types of the fields of process_t, of the list heads and of the machine. *)
(***************************************************************************)
TypeOK ==
    /\ state \in [Slots -> States]
    /\ pid \in [Slots -> 0 .. MaxPid + ForkOffset]
    /\ vruntime \in [Slots -> 0 .. VMod - 1]
    /\ next \in [Slots -> Slots \cup {NULL}]
    /\ allocated \subseteq Slots
    /\ forked \subseteq Slots
    /\ entered \in [Slots -> Nat]
    /\ proc_list \in Slots \cup {NULL}
    /\ sched_queue \in Slots \cup {NULL}
    /\ current_process \in Slots \cup {NULL}
    /\ next_pid \in 1 .. MaxPid + 1
    /\ tss_esp0 \in Slots \cup {NULL}
    /\ adding \in Slots \cup {NULL}
    /\ cpu \in Slots \cup {KERNEL, HUNG}
    /\ intr \in BOOLEAN
    /\ waiting \in BOOLEAN
    /\ irq0 \in {"idle", "in_service"}

(***************************************************************************)
(* At most one process is RUNNING, and it is current_process: neither      *)
(* exit, nor kill, nor a tick, nor the reuse of a freed process_t by fork  *)
(* leaves a second one behind.                                             *)
(***************************************************************************)
RunningIsCurrent ==
    \A x \in Slots : state[x] = "RUNNING" => x = current_process

(***************************************************************************)
(* schedule_process takes vruntime = 0 to mean `not started yet'.  No      *)
(* process is started twice, although vruntime wraps around: it is 1 when  *)
(* a process starts and grows by 10, so it never is 0 again.               *)
(***************************************************************************)
StartedOnce == \A x \in Slots : entered[x] <= 1

(***************************************************************************)
(* Why StartedOnce holds: vruntime is 0 or odd, odd from the start of a    *)
(* process on, and a process that is charged has been started (or is the   *)
(* copy of one that was).                                                  *)
(***************************************************************************)
VruntimeParity ==
    \A x \in Slots :
        /\ entered[x] \in 0 .. 1
        /\ vruntime[x] = 0 \/ vruntime[x] % 2 = 1
        /\ entered[x] = 1 => vruntime[x] % 2 = 1
        /\ state[x] = "RUNNING" => vruntime[x] % 2 = 1

IInv == TypeOK /\ RunningIsCurrent /\ VruntimeParity

(***************************************************************************)
(* Although sched_proc_add overwrites the field that links proc_list,      *)
(* proc_list holds exactly the processes that process_create has made and  *)
(* nobody has waited for: none is lost, none is left behind, no cycle.     *)
(***************************************************************************)
ProcListExact ==
    /\ ~Cyclic(proc_list)
    /\ Nodes(proc_list) = allocated \ forked

(***************************************************************************)
(* A process that has exited or was killed never runs again: its slot      *)
(* stays a zombie until waitpid frees it.                                  *)
(***************************************************************************)
ZombieStep ==
    \A x \in Slots :
        state[x] = "ZOMBIE" /\ x \in allocated =>
            \/ state'[x] = "ZOMBIE"
            \/ state'[x] = "DEAD" /\ x \notin allocated'
ZombiesStayZombies == [][ZombieStep]_vars

(***************************************************************************)
(* process_destroy frees a process_t that sched_queue and current_process  *)
(* still reach (process.c:126 takes it from proc_list only).  No freed     *)
(* process_t is ever runnable all the same: the next schedule_process and  *)
(* the next tick find it DEAD, until process_create or fork hand it out    *)
(* again, and do not put it back to READY.                                 *)
(***************************************************************************)
FreedNeverRuns ==
    \A x \in Slots : state[x] \in {"READY", "RUNNING"} => x \in allocated

(***************************************************************************)
(* Why these hold.  Once a process has been entered the kernel thread      *)
(* never runs again; while it runs no process has run, so that the slot it *)
(* is adding is READY and allocated.  And the second write of a next field *)
(* stores what the first one did: sched_queue and proc_list are the same   *)
(* list up to the slot being added.                                        *)
(***************************************************************************)
KernelThreadInv ==
    /\ cpu = KERNEL =>
          \A x \in Slots :
              state[x] # "RUNNING" /\ (state[x] = "READY" => vruntime[x] = 0)
    /\ cpu = KERNEL /\ adding = NULL => sched_queue = proc_list
    /\ adding # NULL =>
          /\ cpu = KERNEL
          /\ adding \in allocated
          /\ state[adding] = "READY"
          /\ adding = proc_list
          /\ next[adding] = sched_queue

(***************************************************************************)
(* main.c:144, "Init: Started init process": a process in the scheduler's  *)
(* queue is eventually run (or killed before that).                        *)
(***************************************************************************)
AddedProcessesRun ==
    \A x \in Slots :
        (x = sched_queue /\ state[x] = "READY") ~> state[x] # "READY"
=============================================================================
