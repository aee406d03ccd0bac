-------------------------- MODULE Processes_proofs --------------------------
(***************************************************************************)
(* Proofs about ring 3 processes, for every number of slots and of pids    *)
(* and every even number of values of vruntime.                            *)
(***************************************************************************)
EXTENDS Processes, FiniteSetTheorems, FunctionTheorems,
        WellFoundedInduction, TLAPS

(***************************************************************************)
(* Reduction modulo an even number keeps the parity.                       *)
(***************************************************************************)
LEMMA EvenModulus ==
  ASSUME NEW a \in Nat, NEW m \in Nat, m > 1, m % 2 = 0
  PROVE  /\ a % m \in 0 .. m - 1
         /\ (a % m) % 2 = a % 2
<1>1. PICK h \in Nat : m = 2 * h
  <2>1. m = 2 * (m \div 2) /\ m \div 2 \in Nat
    OBVIOUS
  <2>. QED  BY <2>1
<1> DEFINE q == a \div m
<1>2. q \in Nat /\ a = m * q + (a % m) /\ a % m \in 0 .. m - 1
  BY SMTT(30)
<1>3. PICK t \in Nat : t = h * q
  BY <1>1, <1>2
<1>4. a = 2 * t + (a % m)
  BY <1>1, <1>2, <1>3, SMTT(30)
<1>. QED  BY <1>2, <1>3, <1>4

\* A nonempty set of naturals has a least element.
LEMMA LeastElement ==
  ASSUME NEW S \in SUBSET Nat, S # {}
  PROVE  \E x \in S : \A y \in S : x <= y
<1>1. PICK x \in S : \A y \in S : ~ (<<y, x>> \in OpToRel(<, Nat))
  BY NatLessThanWellFounded, WFMin, S # {}
<1>2. \A y \in S : ~ (y < x)
  BY <1>1 DEF OpToRel
<1>. QED  BY <1>2

LEMMA InitIInv == Init => IInv
<1> SUFFICES ASSUME Init PROVE IInv
  OBVIOUS
<1> USE ProcessesAssumption
<1>1. intr \in BOOLEAN /\ waiting \in BOOLEAN
  BY Zenon DEF Init
<1>2. TypeOK
  BY <1>1 DEF Init, TypeOK, States
<1>3. RunningIsCurrent
  BY DEF Init, RunningIsCurrent
<1>4. VruntimeParity
  BY DEF Init, VruntimeParity
<1>. QED  BY <1>2, <1>3, <1>4 DEF IInv

(***************************************************************************)
(* schedule_process keeps the invariant when it is called with states and  *)
(* run times that satisfy it, as after a charge or after an exit.          *)
(***************************************************************************)
LEMMA ScheduleStep ==
  ASSUME IInv,
         NEW st \in [Slots -> States], NEW vr \in [Slots -> 0 .. VMod - 1],
         \A x \in Slots : st[x] = "RUNNING" => x = current_process /\ vr[x] % 2 = 1,
         \A x \in Slots : vr[x] = 0 \/ vr[x] % 2 = 1,
         \A x \in Slots : entered[x] = 1 => vr[x] % 2 = 1,
         schedule_process(st, vr)
  PROVE  /\ state' \in [Slots -> States]
         /\ vruntime' \in [Slots -> 0 .. VMod - 1]
         /\ entered' \in [Slots -> Nat]
         /\ current_process' \in Slots \cup {NULL}
         /\ tss_esp0' \in Slots \cup {NULL}
         /\ cpu' \in Slots \cup {KERNEL, HUNG}
         /\ UNCHANGED <<pid, next, allocated, forked>>
         /\ RunningIsCurrent'
         /\ VruntimeParity'
<1> USE ProcessesAssumption
<1>0. UNCHANGED <<pid, next, allocated, forked>>
  BY DEF schedule_process
<1>1. CASE NoSwitch(st, vr)
  <2>1. /\ state' = st /\ vruntime' = vr /\ entered' = entered
        /\ current_process' = current_process /\ tss_esp0' = tss_esp0
        /\ cpu' \in {cpu, HUNG}
    BY <1>1 DEF NoSwitch
  <2>2. RunningIsCurrent' /\ VruntimeParity'
    BY <2>1 DEF IInv, RunningIsCurrent, VruntimeParity
  <2>. QED  BY <1>0, <2>1, <2>2 DEF IInv, TypeOK
<1>2. ASSUME NEW b \in Slots, SwitchTo(st, vr, b)
      PROVE  /\ state' \in [Slots -> States]
             /\ vruntime' \in [Slots -> 0 .. VMod - 1]
             /\ entered' \in [Slots -> Nat]
             /\ current_process' \in Slots \cup {NULL}
             /\ tss_esp0' \in Slots \cup {NULL}
             /\ cpu' \in Slots \cup {KERNEL, HUNG}
             /\ RunningIsCurrent'
             /\ VruntimeParity'
  <2> DEFINE pre == Preempted(st)
  <2>1. /\ state' = [pre EXCEPT ![b] = "RUNNING"]
        /\ current_process' = b /\ tss_esp0' = b
    BY <1>2 DEF SwitchTo
  <2>2. pre \in [Slots -> States] /\ \A x \in Slots : pre[x] # "RUNNING"
    BY DEF Preempted, IInv, TypeOK, States
  <2> HIDE DEF pre
  <2>3. state' \in [Slots -> States] /\ state'[b] = "RUNNING"
        /\ \A x \in Slots \ {b} : state'[x] # "RUNNING"
    BY <2>1, <2>2 DEF States
  <2>4. RunningIsCurrent'
    BY <2>1, <2>3 DEF RunningIsCurrent
  <2>5. /\ vruntime' \in [Slots -> 0 .. VMod - 1]
        /\ entered' \in [Slots -> Nat]
        /\ cpu' \in Slots \cup {KERNEL, HUNG}
        /\ \A x \in Slots : /\ entered'[x] \in 0 .. 1
                            /\ vruntime'[x] = 0 \/ vruntime'[x] % 2 = 1
                            /\ entered'[x] = 1 => vruntime'[x] % 2 = 1
        /\ vruntime'[b] % 2 = 1
    <3>1. CASE vr[b] = 0
      <4>1. /\ vruntime' = [vr EXCEPT ![b] = 1]
            /\ entered' = [entered EXCEPT ![b] = @ + 1] /\ cpu' = b
        BY <1>2, <3>1 DEF SwitchTo, Enter
      <4>2. entered[b] = 0
        BY <3>1 DEF IInv, VruntimeParity
      <4>3. 1 \in 0 .. VMod - 1
        OBVIOUS
      <4>. QED  BY <4>1, <4>2, <4>3 DEF IInv, TypeOK, VruntimeParity
    <3>2. CASE vr[b] # 0
      <4>1. vruntime' = vr /\ entered' = entered /\ cpu' = cpu
        BY <1>2, <3>2 DEF SwitchTo
      <4>. QED  BY <4>1, <3>2 DEF IInv, TypeOK, VruntimeParity
    <3>. QED  BY <3>1, <3>2
  <2>6. VruntimeParity'
    <3>1. \A x \in Slots : state'[x] = "RUNNING" => vruntime'[x] % 2 = 1
      BY <2>3, <2>5, Zenon
    <3>. QED  BY <2>5, <3>1 DEF VruntimeParity
  <2>. QED  BY <2>1, <2>3, <2>4, <2>5, <2>6
<1>. QED  BY <1>0, <1>1, <1>2 DEF schedule_process

LEMMA TickIInv == IInv /\ timer_irq => IInv'
<1> SUFFICES ASSUME IInv, timer_irq PROVE IInv'
  OBVIOUS
<1> USE ProcessesAssumption
<1>1. UNCHANGED <<lists, intr>> /\ waiting' = FALSE
  BY DEF timer_irq
<1>2. CASE current_process # NULL /\ state[current_process] = "RUNNING"
  <2>1. schedule_process(state, Charged) /\ irq0' \in {"idle", "in_service"}
    BY <1>2 DEF timer_irq, sched_proc_tick, Acknowledge
  <2> DEFINE c == current_process
  <2>2. c \in Slots /\ vruntime[c] \in Nat /\ vruntime[c] % 2 = 1
    BY <1>2 DEF IInv, TypeOK, VruntimeParity
  <2>3. /\ (vruntime[c] + 10) % VMod \in 0 .. VMod - 1
        /\ ((vruntime[c] + 10) % VMod) % 2 = 1
    <3>1. (vruntime[c] + 10) % 2 = 1 /\ vruntime[c] + 10 \in Nat
      BY <2>2
    <3>. QED  BY <3>1, EvenModulus
  <2>4. /\ Charged \in [Slots -> 0 .. VMod - 1]
        /\ Charged[c] % 2 = 1
        /\ \A x \in Slots \ {c} : Charged[x] = vruntime[x]
    BY <2>2, <2>3 DEF Charged, IInv, TypeOK
  <2>5. \A x \in Slots : /\ Charged[x] = 0 \/ Charged[x] % 2 = 1
                         /\ entered[x] = 1 => Charged[x] % 2 = 1
                         /\ state[x] = "RUNNING" => x = c /\ Charged[x] % 2 = 1
    BY <2>4 DEF IInv, VruntimeParity, RunningIsCurrent
  <2>6. state \in [Slots -> States]
    BY DEF IInv, TypeOK
  <2> HIDE DEF c
  <2>7. /\ state' \in [Slots -> States]
        /\ vruntime' \in [Slots -> 0 .. VMod - 1]
        /\ entered' \in [Slots -> Nat]
        /\ current_process' \in Slots \cup {NULL}
        /\ tss_esp0' \in Slots \cup {NULL}
        /\ cpu' \in Slots \cup {KERNEL, HUNG}
        /\ UNCHANGED <<pid, next, allocated, forked>>
        /\ RunningIsCurrent' /\ VruntimeParity'
    BY <2>1, <2>4, <2>5, <2>6, ScheduleStep DEF c
  <2>. QED  BY <1>1, <2>1, <2>7 DEF IInv, TypeOK, lists
<1>3. CASE ~(current_process # NULL /\ state[current_process] = "RUNNING")
  <2>1. UNCHANGED <<procs, current_process, tss_esp0, cpu, irq0>>
    BY <1>3 DEF timer_irq, sched_proc_tick
  <2>. QED  BY <1>1, <2>1
            DEF IInv, TypeOK, RunningIsCurrent, VruntimeParity, procs, lists
<1>. QED  BY <1>2, <1>3

LEMMA DispatchIInv == IInv /\ kernel_dispatch => IInv'
<1> SUFFICES ASSUME IInv, kernel_dispatch PROVE IInv'
  OBVIOUS
<1>1. schedule_process(state, vruntime) /\ UNCHANGED <<lists, intr, waiting, irq0>>
  BY DEF kernel_dispatch
<1>2. /\ state \in [Slots -> States] /\ vruntime \in [Slots -> 0 .. VMod - 1]
      /\ \A x \in Slots : state[x] = "RUNNING" =>
                             x = current_process /\ vruntime[x] % 2 = 1
      /\ \A x \in Slots : vruntime[x] = 0 \/ vruntime[x] % 2 = 1
      /\ \A x \in Slots : entered[x] = 1 => vruntime[x] % 2 = 1
  BY DEF IInv, TypeOK, RunningIsCurrent, VruntimeParity
<1>3. /\ state' \in [Slots -> States]
      /\ vruntime' \in [Slots -> 0 .. VMod - 1]
      /\ entered' \in [Slots -> Nat]
      /\ current_process' \in Slots \cup {NULL}
      /\ tss_esp0' \in Slots \cup {NULL}
      /\ cpu' \in Slots \cup {KERNEL, HUNG}
      /\ UNCHANGED <<pid, next, allocated, forked>>
      /\ RunningIsCurrent' /\ VruntimeParity'
  BY <1>1, <1>2, ScheduleStep
<1>. QED  BY <1>1, <1>3 DEF IInv, TypeOK, lists

(***************************************************************************)
(* process_exit turns current_process into a zombie, so that nothing is    *)
(* RUNNING when it calls schedule_process.                                 *)
(***************************************************************************)
LEMMA ExitIInv == IInv /\ sys_exit => IInv'
<1> SUFFICES ASSUME IInv, sys_exit PROVE IInv'
  OBVIOUS
<1> DEFINE st == [state EXCEPT ![current_process] = "ZOMBIE"]
<1>1. /\ schedule_process(st, vruntime)
      /\ UNCHANGED <<lists, intr, waiting, irq0>>
      /\ current_process \in Slots
  BY DEF sys_exit, process_exit, UserMode, IInv, TypeOK
<1>2. /\ st \in [Slots -> States] /\ vruntime \in [Slots -> 0 .. VMod - 1]
      /\ \A x \in Slots : st[x] # "RUNNING"
  BY <1>1 DEF IInv, TypeOK, RunningIsCurrent, States
<1>3. /\ \A x \in Slots : st[x] = "RUNNING" =>
                             x = current_process /\ vruntime[x] % 2 = 1
      /\ \A x \in Slots : vruntime[x] = 0 \/ vruntime[x] % 2 = 1
      /\ \A x \in Slots : entered[x] = 1 => vruntime[x] % 2 = 1
  BY <1>2 DEF IInv, VruntimeParity
<1> HIDE DEF st
<1>4. /\ state' \in [Slots -> States]
      /\ vruntime' \in [Slots -> 0 .. VMod - 1]
      /\ entered' \in [Slots -> Nat]
      /\ current_process' \in Slots \cup {NULL}
      /\ tss_esp0' \in Slots \cup {NULL}
      /\ cpu' \in Slots \cup {KERNEL, HUNG}
      /\ UNCHANGED <<pid, next, allocated, forked>>
      /\ RunningIsCurrent' /\ VruntimeParity'
  BY <1>1, <1>2, <1>3, ScheduleStep
<1>. QED  BY <1>1, <1>4 DEF IInv, TypeOK, lists

LEMMA CreateIInv ==
  ASSUME IInv, NEW x \in Slots, process_create(x)
  PROVE  IInv'
<1> USE ProcessesAssumption
<1>1. /\ allocated' = allocated \cup {x} /\ next_pid <= MaxPid
      /\ pid' = [pid EXCEPT ![x] = next_pid]
      /\ next_pid' = next_pid + 1
      /\ state' = [state EXCEPT ![x] = "READY"]
      /\ vruntime' = [vruntime EXCEPT ![x] = 0]
      /\ next' = [next EXCEPT ![x] = proc_list]
      /\ proc_list' = x /\ adding' = x
      /\ entered' = [entered EXCEPT ![x] = 0]
      /\ forked' = forked \ {x}
      /\ UNCHANGED <<sched_queue, current_process, tss_esp0, cpu, intr,
                     waiting, irq0>>
  BY DEF process_create, machine
<1>2. TypeOK'
  BY <1>1 DEF IInv, TypeOK, States
<1>3. RunningIsCurrent'
  BY <1>1 DEF IInv, TypeOK, RunningIsCurrent
<1>4. VruntimeParity'
  BY <1>1 DEF IInv, TypeOK, VruntimeParity
<1>. QED  BY <1>2, <1>3, <1>4 DEF IInv

LEMMA AddIInv == IInv /\ sched_proc_add => IInv'
<1> SUFFICES ASSUME IInv, sched_proc_add PROVE IInv'
  OBVIOUS
<1> USE ProcessesAssumption
<1>1. /\ adding \in Slots
      /\ state' = [state EXCEPT ![adding] = "READY"]
      /\ next' = [next EXCEPT ![adding] = sched_queue]
      /\ sched_queue' = adding /\ adding' = NULL
      /\ UNCHANGED <<pid, vruntime, allocated, forked, entered, proc_list,
                     next_pid, current_process, tss_esp0, cpu, intr, waiting,
                     irq0>>
  BY DEF sched_proc_add, machine, IInv, TypeOK
<1>2. TypeOK'
  BY <1>1 DEF IInv, TypeOK, States
<1>3. RunningIsCurrent'
  BY <1>1 DEF IInv, TypeOK, RunningIsCurrent
<1>4. VruntimeParity'
  BY <1>1 DEF IInv, TypeOK, VruntimeParity
<1>. QED  BY <1>2, <1>3, <1>4 DEF IInv

LEMMA KillIInv ==
  ASSUME IInv, NEW n, Kill(n)
  PROVE  IInv'
<1> DEFINE x == process_get_by_pid(n)
<1>1. /\ state' = [state EXCEPT ![x] = "ZOMBIE"]
      /\ UNCHANGED <<pid, vruntime, next, allocated, forked, entered, proc_list,
                     sched_queue, next_pid, adding, current_process, tss_esp0,
                     cpu, intr, waiting, irq0>>
  BY DEF Kill, lists, machine
<1> HIDE DEF x
<1>2. TypeOK'
  BY <1>1 DEF IInv, TypeOK, States
<1>3. RunningIsCurrent'
  BY <1>1 DEF IInv, TypeOK, RunningIsCurrent
<1>4. VruntimeParity'
  BY <1>1 DEF IInv, TypeOK, VruntimeParity
<1>. QED  BY <1>2, <1>3, <1>4 DEF IInv

LEMMA ForkIInv ==
  ASSUME IInv, NEW x \in Slots, sys_fork(x)
  PROVE  IInv'
<1> USE ProcessesAssumption
<1>1. /\ current_process \in Slots /\ pid[current_process] <= MaxPid
      /\ allocated' = allocated \cup {x} /\ forked' = forked \cup {x}
      /\ entered' = [entered EXCEPT ![x] = 0]
      /\ pid' = [pid EXCEPT ![x] = pid[current_process] + ForkOffset]
      /\ state' = [state EXCEPT ![x] = "READY"]
      /\ vruntime' = [vruntime EXCEPT ![x] = vruntime[current_process]]
      /\ next' = [next EXCEPT ![x] = next[current_process]]
      /\ UNCHANGED <<proc_list, sched_queue, next_pid, adding, current_process,
                     tss_esp0, cpu, intr, waiting, irq0>>
  BY DEF sys_fork, UserMode, lists, machine, IInv, TypeOK
<1>2. TypeOK'
  BY <1>1 DEF IInv, TypeOK, States
<1>3. RunningIsCurrent'
  BY <1>1 DEF IInv, TypeOK, RunningIsCurrent
<1>4. VruntimeParity'
  BY <1>1 DEF IInv, TypeOK, VruntimeParity
<1>. QED  BY <1>2, <1>3, <1>4 DEF IInv

LEMMA WaitIInv ==
  ASSUME IInv, WaitForTick, UNCHANGED <<sched_queue, next_pid, adding>>
  PROVE  IInv'
<1>1. intr' \in BOOLEAN /\ waiting' \in BOOLEAN
  BY Zenon DEF WaitForTick, GateFlag
<1>. QED  BY <1>1 DEF WaitForTick, IInv, TypeOK, RunningIsCurrent,
                      VruntimeParity, procs

(***************************************************************************)
(* process_destroy relinks proc_list; a predecessor of the process proves  *)
(* that the process is a slot, so that its next is a slot or NULL.         *)
(***************************************************************************)
LEMMA DestroyIInv ==
  ASSUME IInv, NEW x, x # NULL, process_destroy(x),
         UNCHANGED <<sched_queue, next_pid, adding, current_process, tss_esp0,
                     cpu, intr, waiting, irq0>>
  PROVE  IInv'
<1>1. /\ state' = [state EXCEPT ![x] = "DEAD"]
      /\ allocated' = allocated \ {x}
      /\ UNCHANGED <<pid, vruntime, forked, entered>>
  BY DEF process_destroy
<1>2. next' \in [Slots -> Slots \cup {NULL}] /\ proc_list' \in Slots \cup {NULL}
  <2>1. CASE proc_list = x
    BY <2>1 DEF process_destroy, IInv, TypeOK
  <2>2. CASE proc_list # x
    <3> DEFINE before == {y \in Nodes(proc_list) : next[y] = x}
    <3>1. /\ next' = [y \in Slots |-> IF y \in before THEN next[x] ELSE next[y]]
          /\ proc_list' = proc_list
      BY <2>2 DEF process_destroy
    <3>2. ASSUME NEW y \in Slots, y \in before PROVE next[x] \in Slots \cup {NULL}
      BY <3>2 DEF IInv, TypeOK
    <3> HIDE DEF before
    <3>. QED  BY <3>1, <3>2 DEF IInv, TypeOK
  <2>. QED  BY <2>1, <2>2
<1>3. TypeOK'
  BY <1>1, <1>2 DEF IInv, TypeOK, States
<1>4. RunningIsCurrent'
  BY <1>1 DEF IInv, TypeOK, RunningIsCurrent
<1>5. VruntimeParity'
  BY <1>1 DEF IInv, TypeOK, VruntimeParity
<1>. QED  BY <1>3, <1>4, <1>5 DEF IInv

LEMMA NextIInv == IInv /\ [Next]_vars => IInv'
<1> SUFFICES ASSUME IInv, [Next]_vars PROVE IInv'
  OBVIOUS
<1>1. CASE \E x \in Slots : process_create(x)
  BY <1>1, CreateIInv
<1>2. CASE process_create_fails
  BY <1>2, ProcessesAssumption
     DEF process_create_fails, procs, machine, IInv, TypeOK, RunningIsCurrent,
         VruntimeParity
<1>3. CASE sched_proc_add
  BY <1>3, AddIInv
<1>4. CASE (\E n \in Pids : shell_kill(n)) \/ (\E n \in Pids : sys_kill(n))
  BY <1>4, KillIInv DEF shell_kill, sys_kill
<1>5. CASE kernel_dispatch
  BY <1>5, DispatchIInv
<1>6. CASE timer_irq
  BY <1>6, TickIInv
<1>7. CASE sys_exit
  BY <1>7, ExitIInv
<1>8. CASE \E x \in Slots : sys_fork(x)
  BY <1>8, ForkIInv
<1>9. CASE \E n \in Pids : sys_waitpid(n)
  <2>1. PICK n \in Pids : sys_waitpid(n)
    BY <1>9
  <2> DEFINE x == process_get_by_pid(n)
  <2>2. /\ x # NULL /\ UNCHANGED <<sched_queue, next_pid, adding>>
        /\ \/ process_destroy(x) /\ UNCHANGED machine
           \/ WaitForTick
    BY <2>1 DEF sys_waitpid
  <2> HIDE DEF x
  <2>. QED  BY <2>2, DestroyIInv, WaitIInv DEF machine
<1>10. CASE sys_sleep
  BY <1>10, WaitIInv DEF sys_sleep
<1>11. CASE UNCHANGED vars
  BY <1>11 DEF vars, procs, lists, machine, IInv, TypeOK, RunningIsCurrent,
               VruntimeParity
<1>. QED  BY <1>1, <1>2, <1>3, <1>4, <1>5, <1>6, <1>7, <1>8, <1>9, <1>10,
             <1>11 DEF Next

(***************************************************************************)
(* The parts of IInv together are an inductive invariant of process.c and  *)
(* scheduler_process.c, with the calls and interrupts that use them.       *)
(***************************************************************************)
THEOREM Invariance == Spec => []IInv
BY InitIInv, NextIInv, PTL DEF Spec

(***************************************************************************)
(* Type correctness of the process model.                                  *)
(***************************************************************************)
THEOREM TypeCorrect == Spec => []TypeOK
<1>1. IInv => TypeOK
  BY DEF IInv
<1>. QED  BY <1>1, Invariance, PTL

(***************************************************************************)
(* At most one process is RUNNING and it is current_process, for any       *)
(* number of processes and any sequence of calls and ticks.                *)
(***************************************************************************)
THEOREM SingleRunning == Spec => []RunningIsCurrent
<1>1. IInv => RunningIsCurrent
  BY DEF IInv
<1>. QED  BY <1>1, Invariance, PTL

(***************************************************************************)
(* No process is entered in ring 3 twice, whatever the width of vruntime:  *)
(* that its modulus is even is all the wrap-around needs.                  *)
(***************************************************************************)
THEOREM NeverRestarted == Spec => []StartedOnce
<1>1. IInv => StartedOnce
  BY DEF IInv, VruntimeParity, StartedOnce
<1>. QED  BY <1>1, Invariance, PTL

----------------------------------------------------------------------------
(***************************************************************************)
(* Freed slots, zombies and the kernel thread.                             *)
(***************************************************************************)
SafeInv == IInv /\ FreedNeverRuns /\ KernelThreadInv

(***************************************************************************)
(* schedule_process changes the state of two processes at most: the one it *)
(* preempts, which was RUNNING, and the one it chooses, which was READY.   *)
(***************************************************************************)
LEMMA ScheduleEffect ==
  ASSUME IInv, NEW st \in [Slots -> States], NEW vr, schedule_process(st, vr)
  PROVE  /\ UNCHANGED <<pid, next, allocated, forked>>
         /\ \/ state' = st /\ vruntime' = vr /\ cpu' \in {cpu, HUNG}
            \/ \E b \in Slots :
                  /\ st[b] = "READY"
                  /\ state'[b] = "RUNNING"
                  /\ \A x \in Slots \ {b} :
                        \/ state'[x] = st[x]
                        \/ st[x] = "RUNNING" /\ state'[x] = "READY"
                  /\ vr[b] = 0 => cpu' = b
<1>1. UNCHANGED <<pid, next, allocated, forked>>
  BY DEF schedule_process
<1>2. CASE NoSwitch(st, vr)
  BY <1>1, <1>2 DEF NoSwitch
<1>3. ASSUME NEW b \in Slots, SwitchTo(st, vr, b)
      PROVE  /\ st[b] = "READY"
             /\ state'[b] = "RUNNING"
             /\ \A x \in Slots \ {b} :
                   \/ state'[x] = st[x]
                   \/ st[x] = "RUNNING" /\ state'[x] = "READY"
             /\ vr[b] = 0 => cpu' = b
  <2> DEFINE pre == Preempted(st)
  <2>1. st[b] = "READY"
    BY <1>3 DEF SwitchTo, IsBest
  <2>2. /\ pre \in [Slots -> States]
        /\ \A x \in Slots : \/ pre[x] = st[x]
                            \/ st[x] = "RUNNING" /\ pre[x] = "READY"
    BY DEF Preempted, States
  <2>3. state' = [pre EXCEPT ![b] = "RUNNING"] /\ (vr[b] = 0 => cpu' = b)
    BY <1>3 DEF SwitchTo, Enter
  <2> HIDE DEF pre
  <2>. QED  BY <2>1, <2>2, <2>3
<1>. QED  BY <1>1, <1>2, <1>3 DEF schedule_process

\* process_get_by_pid returns a node of proc_list.
LEMMA FoundIsNode ==
  ASSUME TypeOK, NEW n, process_get_by_pid(n) # NULL
  PROVE  /\ process_get_by_pid(n) \in Nodes(proc_list)
         /\ pid[process_get_by_pid(n)] = n
<1> DEFINE w == Walk(proc_list)
           hits == {i \in 0 .. N : w[i] # NULL /\ pid[w[i]] = n}
           first == CHOOSE i \in hits : \A j \in hits : i <= j
<1>1. hits # {} /\ process_get_by_pid(n) = w[first]
  BY DEF process_get_by_pid
<1>2. \E i \in hits : \A j \in hits : i <= j
  <2>1. hits \in SUBSET Nat
    OBVIOUS
  <2> HIDE DEF hits
  <2>. QED  BY <1>1, <2>1, LeastElement
<1>3. first \in hits
  <2> HIDE DEF hits
  <2>. QED  BY <1>2
<1>4. first \in 0 .. N /\ w[first] # NULL /\ pid[w[first]] = n
  <2> HIDE DEF first, w
  <2>. QED  BY <1>3
<1>. QED  BY <1>1, <1>4 DEF Nodes

LEMMA InitSafe == Init => SafeInv
<1>1. Init => FreedNeverRuns /\ KernelThreadInv
  BY DEF Init, FreedNeverRuns, KernelThreadInv
<1>. QED  BY <1>1, InitIInv DEF SafeInv

(***************************************************************************)
(* What a call of schedule_process needs: the states it is given are those *)
(* of the processes, with zombies added at most; and the kernel thread     *)
(* calls it only when it is adding no process.                             *)
(***************************************************************************)
LEMMA ScheduleSafe ==
  ASSUME SafeInv, NEW st \in [Slots -> States], NEW vr,
         \A x \in Slots : st[x] = state[x] \/ st[x] = "ZOMBIE",
         adding = NULL, cpu = KERNEL => vr = vruntime,
         schedule_process(st, vr), UNCHANGED lists
  PROVE  /\ FreedNeverRuns'
         /\ KernelThreadInv'
         /\ \A x \in Slots : state[x] = "ZOMBIE" => state'[x] = "ZOMBIE"
<1> USE ProcessesAssumption
<1>1. /\ UNCHANGED <<next, allocated, proc_list, sched_queue, adding>>
      /\ \/ state' = st /\ vruntime' = vr /\ cpu' \in {cpu, HUNG}
         \/ \E b \in Slots :
               /\ st[b] = "READY"
               /\ state'[b] = "RUNNING"
               /\ \A x \in Slots \ {b} :
                     \/ state'[x] = st[x]
                     \/ st[x] = "RUNNING" /\ state'[x] = "READY"
               /\ vr[b] = 0 => cpu' = b
  BY ScheduleEffect DEF SafeInv, lists
<1>2. CASE state' = st /\ vruntime' = vr /\ cpu' \in {cpu, HUNG}
  <2>1. cpu' = KERNEL => cpu = KERNEL /\ vruntime' = vruntime
    BY <1>2
  <2>. QED  BY <1>1, <1>2, <2>1 DEF SafeInv, FreedNeverRuns, KernelThreadInv
<1>3. ASSUME NEW b \in Slots, st[b] = "READY", state'[b] = "RUNNING",
             \A x \in Slots \ {b} :
                 \/ state'[x] = st[x]
                 \/ st[x] = "RUNNING" /\ state'[x] = "READY",
             vr[b] = 0 => cpu' = b
      PROVE  /\ FreedNeverRuns'
             /\ KernelThreadInv'
             /\ \A x \in Slots : state[x] = "ZOMBIE" => state'[x] = "ZOMBIE"
  <2>1. \A x \in Slots : state'[x] \in {"READY", "RUNNING"} =>
                             state[x] \in {"READY", "RUNNING"}
    BY <1>3
  <2>2. \A x \in Slots : state[x] = "ZOMBIE" => state'[x] = "ZOMBIE"
    BY <1>3
  <2>3. cpu' # KERNEL
    <3>1. CASE cpu = KERNEL
      BY <1>3, <3>1 DEF SafeInv, KernelThreadInv
    <3>2. CASE cpu # KERNEL
      BY <1>3, <3>2, schedule_process(st, vr)
         DEF schedule_process, SwitchTo, NoSwitch, Enter
    <3>. QED  BY <3>1, <3>2
  <2>. QED  BY <1>1, <2>1, <2>2, <2>3 DEF SafeInv, FreedNeverRuns, KernelThreadInv
<1>. QED  BY <1>1, <1>2, <1>3

LEMMA TickSafe ==
  ASSUME SafeInv, timer_irq
  PROVE  FreedNeverRuns' /\ KernelThreadInv' /\ ZombieStep
<1>1. CASE current_process # NULL /\ state[current_process] = "RUNNING"
  <2>1. schedule_process(state, Charged) /\ UNCHANGED lists
    BY <1>1 DEF timer_irq, sched_proc_tick
  <2>2. current_process \in Slots /\ state \in [Slots -> States]
    BY <1>1 DEF SafeInv, IInv, TypeOK
  <2>3. cpu # KERNEL /\ adding = NULL
    BY <1>1, <2>2 DEF SafeInv, KernelThreadInv
  <2>. QED  BY <2>1, <2>2, <2>3, ScheduleSafe DEF ZombieStep
<1>2. CASE ~(current_process # NULL /\ state[current_process] = "RUNNING")
  BY <1>2 DEF timer_irq, sched_proc_tick, procs, lists, SafeInv, FreedNeverRuns,
              KernelThreadInv, ZombieStep
<1>. QED  BY <1>1, <1>2

LEMMA DispatchSafe ==
  ASSUME SafeInv, kernel_dispatch
  PROVE  FreedNeverRuns' /\ KernelThreadInv' /\ ZombieStep
<1>1. /\ schedule_process(state, vruntime) /\ UNCHANGED lists /\ adding = NULL
      /\ state \in [Slots -> States]
  BY DEF kernel_dispatch, SafeInv, IInv, TypeOK
<1>. QED  BY <1>1, ScheduleSafe DEF ZombieStep

LEMMA ExitSafe ==
  ASSUME SafeInv, sys_exit
  PROVE  FreedNeverRuns' /\ KernelThreadInv' /\ ZombieStep
<1> DEFINE st == [state EXCEPT ![current_process] = "ZOMBIE"]
<1>1. /\ schedule_process(st, vruntime) /\ UNCHANGED lists /\ cpu # KERNEL
      /\ state \in [Slots -> States]
  BY ProcessesAssumption
     DEF sys_exit, process_exit, UserMode, SafeInv, IInv, TypeOK
<1>2. st \in [Slots -> States] /\ \A x \in Slots : st[x] = state[x] \/ st[x] = "ZOMBIE"
  BY <1>1 DEF States
<1>3. adding = NULL
  BY <1>1 DEF SafeInv, KernelThreadInv
<1> HIDE DEF st
<1>. QED  BY <1>1, <1>2, <1>3, ScheduleSafe DEF ZombieStep

LEMMA KernelThreadSafe ==
  ASSUME SafeInv,
         \/ \E x \in Slots : process_create(x)
         \/ process_create_fails
         \/ sched_proc_add
  PROVE  FreedNeverRuns' /\ KernelThreadInv' /\ ZombieStep
<1> USE ProcessesAssumption
<1>1. ASSUME NEW x \in Slots, process_create(x)
      PROVE  FreedNeverRuns' /\ KernelThreadInv' /\ ZombieStep
  <2>1. /\ x \notin allocated /\ allocated' = allocated \cup {x}
        /\ state' = [state EXCEPT ![x] = "READY"]
        /\ vruntime' = [vruntime EXCEPT ![x] = 0]
        /\ next' = [next EXCEPT ![x] = proc_list]
        /\ proc_list' = x /\ adding' = x /\ cpu = KERNEL /\ adding = NULL
        /\ UNCHANGED <<sched_queue, cpu>>
    BY <1>1 DEF process_create, machine
  <2>2. /\ state \in [Slots -> States] /\ vruntime \in [Slots -> 0 .. VMod - 1]
        /\ next \in [Slots -> Slots \cup {NULL}]
    BY DEF SafeInv, IInv, TypeOK
  <2>3. FreedNeverRuns'
    BY <2>1, <2>2 DEF SafeInv, FreedNeverRuns
  <2>4. KernelThreadInv'
    BY <2>1, <2>2 DEF SafeInv, KernelThreadInv
  <2>5. ZombieStep
    BY <2>1, <2>2 DEF ZombieStep
  <2>. QED  BY <2>3, <2>4, <2>5
<1>2. CASE process_create_fails
  BY <1>2 DEF process_create_fails, procs, machine, SafeInv, FreedNeverRuns,
              KernelThreadInv, ZombieStep
<1>3. CASE sched_proc_add
  <2>1. /\ adding \in Slots /\ adding' = NULL /\ sched_queue' = adding
        /\ state' = [state EXCEPT ![adding] = "READY"]
        /\ next' = [next EXCEPT ![adding] = sched_queue]
        /\ UNCHANGED <<vruntime, allocated, proc_list, cpu>>
    BY <1>3 DEF sched_proc_add, machine, SafeInv, IInv, TypeOK
  <2>2. /\ state \in [Slots -> States] /\ next \in [Slots -> Slots \cup {NULL}]
        /\ state[adding] = "READY" /\ next[adding] = sched_queue
        /\ adding \in allocated /\ adding = proc_list
    BY <2>1 DEF SafeInv, IInv, TypeOK, KernelThreadInv
  <2>3. state' = state /\ next' = next
    BY <2>1, <2>2
  <2>. QED  BY <2>1, <2>2, <2>3 DEF SafeInv, FreedNeverRuns, KernelThreadInv, ZombieStep
<1>. QED  BY <1>1, <1>2, <1>3

LEMMA KillSafe ==
  ASSUME SafeInv, NEW n, Kill(n), cpu = KERNEL => adding = NULL
  PROVE  FreedNeverRuns' /\ KernelThreadInv' /\ ZombieStep
<1> DEFINE x == process_get_by_pid(n)
<1>1. /\ state' = [state EXCEPT ![x] = "ZOMBIE"]
      /\ UNCHANGED <<vruntime, next, allocated, proc_list, sched_queue, adding,
                     cpu>>
  BY DEF Kill, lists, machine
<1>2. adding = NULL /\ state \in [Slots -> States]
  BY DEF SafeInv, KernelThreadInv, IInv, TypeOK
<1> HIDE DEF x
<1>. QED  BY <1>1, <1>2 DEF SafeInv, FreedNeverRuns, KernelThreadInv, ZombieStep

LEMMA ForkSafe ==
  ASSUME SafeInv, NEW x \in Slots, sys_fork(x)
  PROVE  FreedNeverRuns' /\ KernelThreadInv' /\ ZombieStep
<1>1. /\ x \notin allocated /\ allocated' = allocated \cup {x}
      /\ state' = [state EXCEPT ![x] = "READY"]
      /\ cpu # KERNEL /\ cpu' = cpu /\ adding' = adding
      /\ state \in [Slots -> States]
  BY ProcessesAssumption
     DEF sys_fork, UserMode, lists, machine, SafeInv, IInv, TypeOK
<1>. QED  BY <1>1 DEF SafeInv, FreedNeverRuns, KernelThreadInv, ZombieStep

LEMMA WaitSafe ==
  ASSUME SafeInv, UserMode,
         \/ \E n \in Pids : sys_waitpid(n)
         \/ sys_sleep
  PROVE  FreedNeverRuns' /\ KernelThreadInv' /\ ZombieStep
<1>1. cpu # KERNEL /\ adding = NULL /\ state \in [Slots -> States]
  BY ProcessesAssumption DEF UserMode, SafeInv, IInv, TypeOK, KernelThreadInv
<1>2. ASSUME NEW x, process_destroy(x), cpu' = cpu, adding' = adding
      PROVE  FreedNeverRuns' /\ KernelThreadInv' /\ ZombieStep
  <2>1. state' = [state EXCEPT ![x] = "DEAD"] /\ allocated' = allocated \ {x}
    BY <1>2 DEF process_destroy
  <2>. QED  BY <1>1, <1>2, <2>1
            DEF SafeInv, FreedNeverRuns, KernelThreadInv, ZombieStep
<1>3. ASSUME WaitForTick, adding' = adding
      PROVE  FreedNeverRuns' /\ KernelThreadInv' /\ ZombieStep
  BY <1>1, <1>3 DEF WaitForTick, procs, SafeInv, FreedNeverRuns,
                    KernelThreadInv, ZombieStep
<1>. QED  BY <1>2, <1>3 DEF sys_waitpid, sys_sleep, machine

LEMMA NextSafe ==
  SafeInv /\ [Next]_vars => SafeInv' /\ [ZombieStep]_vars
<1> SUFFICES ASSUME SafeInv, [Next]_vars
             PROVE  FreedNeverRuns' /\ KernelThreadInv' /\ [ZombieStep]_vars
  BY NextIInv DEF SafeInv
<1>1. CASE \/ \E x \in Slots : process_create(x)
           \/ process_create_fails
           \/ sched_proc_add
  BY <1>1, KernelThreadSafe
<1>2. CASE (\E n \in Pids : shell_kill(n)) \/ (\E n \in Pids : sys_kill(n))
  BY <1>2, KillSafe, ProcessesAssumption DEF shell_kill, sys_kill, UserMode
<1>3. CASE kernel_dispatch
  BY <1>3, DispatchSafe
<1>4. CASE timer_irq
  BY <1>4, TickSafe
<1>5. CASE sys_exit
  BY <1>5, ExitSafe
<1>6. CASE \E x \in Slots : sys_fork(x)
  BY <1>6, ForkSafe
<1>7. CASE (\E n \in Pids : sys_waitpid(n)) \/ sys_sleep
  BY <1>7, WaitSafe DEF sys_waitpid, sys_sleep
<1>8. CASE UNCHANGED vars
  BY <1>8 DEF vars, procs, lists, machine, SafeInv, FreedNeverRuns,
              KernelThreadInv
<1>. QED  BY <1>1, <1>2, <1>3, <1>4, <1>5, <1>6, <1>7, <1>8 DEF Next

(***************************************************************************)
(* FreedNeverRuns holds together with what is known of both lists until    *)
(* the kernel thread has started the first process.                        *)
(***************************************************************************)
THEOREM SafeInvariance == Spec => []SafeInv
BY InitSafe, NextSafe, PTL DEF Spec

(***************************************************************************)
(* A process_t that process_destroy has freed is never READY or RUNNING,   *)
(* although sched_queue and current_process may still reach it.            *)
(***************************************************************************)
THEOREM FreedSlotsDoNotRun == Spec => []FreedNeverRuns
<1>1. SafeInv => FreedNeverRuns
  BY DEF SafeInv
<1>. QED  BY <1>1, SafeInvariance, PTL

(***************************************************************************)
(* No step brings a zombie back: kill, ticks, exits and forks leave it a   *)
(* zombie until waitpid frees it.                                          *)
(***************************************************************************)
THEOREM ZombiesNeverReturn == Spec => ZombiesStayZombies
BY SafeInvariance, NextSafe, PTL DEF Spec, ZombiesStayZombies

----------------------------------------------------------------------------
(***************************************************************************)
(* proc_list.  s lists the nodes behind h: k of them, all different, each  *)
(* the next of the one before, and nothing behind the last.                *)
(***************************************************************************)
IsList(h, s, k) ==
    /\ s \in [Nat -> Slots \cup {NULL}]
    /\ k \in Nat
    /\ s[0] = h
    /\ \A i \in Nat : s[i] = NULL <=> i >= k
    /\ \A i \in Nat : i < k => next[s[i]] = s[i + 1]
    /\ \A i, j \in Nat : i < k /\ j < k /\ s[i] = s[j] => i = j

Members(s, k) == {s[i] : i \in {j \in Nat : j < k}}

ListInv ==
    \E s, k : IsList(proc_list, s, k) /\ Members(s, k) = allocated \ forked

(***************************************************************************)
(* A list without repetition is no longer than the number of slots.        *)
(***************************************************************************)
LEMMA ListFits ==
  ASSUME NEW h, NEW s, NEW k, IsList(h, s, k)
  PROVE  N \in Nat /\ k <= N
<1>1. IsFiniteSet(Slots) /\ N \in Nat
  BY ProcessesAssumption, FS_CardinalityType DEF N
<1>2. k \in Nat /\ \A i \in 1 .. k : s[i - 1] \in Slots
  BY DEF IsList
<1> DEFINE f == [i \in 1 .. k |-> s[i - 1]]
<1>3. f \in [1 .. k -> Slots] /\ \A a, b \in 1 .. k : f[a] = f[b] => a = b
  BY <1>2 DEF IsList
<1>4. f \in Injection(1 .. k, Slots)
  <2> HIDE DEF f
  <2>. QED  BY <1>3, Fun_IsInj
<1>5. Cardinality(1 .. k) <= Cardinality(Slots)
  <2> HIDE DEF f
  <2>. QED  BY <1>1, <1>4, FS_Injection
<1>6. Cardinality(1 .. k) = k
  BY <1>2, FS_Interval
<1>. QED  BY <1>1, <1>5, <1>6 DEF N

(***************************************************************************)
(* Walk follows the next fields: on a list it returns the list.            *)
(***************************************************************************)
LEMMA WalkOfList ==
  ASSUME NEW h, NEW s, NEW k, IsList(h, s, k)
  PROVE  \A i \in 0 .. N : Walk(h)[i] = s[i]
<1> DEFINE Eq(w) == w = [i \in 0 .. N |-> IF i = 0 THEN h
                                        ELSE IF w[i - 1] = NULL THEN NULL
                                        ELSE next[w[i - 1]]]
           f == [i \in 0 .. N |-> s[i]]
<1>1. N \in Nat /\ k \in Nat
  BY ListFits DEF IsList
<1>2. \A i \in 0 .. N : f[i] = IF i = 0 THEN h
                             ELSE IF f[i - 1] = NULL THEN NULL
                             ELSE next[f[i - 1]]
  <2> SUFFICES ASSUME NEW i \in 0 .. N, i # 0
               PROVE  s[i] = IF s[i - 1] = NULL THEN NULL ELSE next[s[i - 1]]
    BY <1>1 DEF IsList
  <2>1. i - 1 \in Nat /\ i \in Nat /\ (i - 1) + 1 = i
    BY <1>1
  <2>. QED  BY <2>1, <1>1 DEF IsList
<1>3. Eq(f)
  <2> HIDE DEF f
  <2>1. f = [i \in 0 .. N |-> f[i]]
    BY DEF f
  <2>. QED  BY <1>2, <2>1
<1>4. Walk(h) = CHOOSE w : Eq(w)
  BY DEF Walk
<1>5. Eq(Walk(h))
  <2> HIDE DEF Eq, f
  <2>. QED  BY <1>3, <1>4
<1> DEFINE w == Walk(h)
           Bad == {i \in 0 .. N : w[i] # s[i]}
<1>6. \A i \in 0 .. N : w[i] = IF i = 0 THEN h
                             ELSE IF w[i - 1] = NULL THEN NULL
                             ELSE next[w[i - 1]]
  BY <1>5
<1> HIDE DEF w
<1>7. ASSUME Bad # {} PROVE FALSE
  <2>1. Bad \in SUBSET Nat
    BY <1>1
  <2>2. PICK i \in Bad : \A j \in Bad : i <= j
    <3> HIDE DEF Bad
    <3>. QED  BY <1>7, <2>1, LeastElement
  <2>3. i # 0
    BY <1>6, <1>1, <2>2 DEF IsList
  <2>4. i - 1 \in 0 .. N /\ w[i - 1] = s[i - 1]
    BY <1>1, <2>2, <2>3
  <2>5. w[i] = s[i]
    <3>1. s[i] = IF s[i - 1] = NULL THEN NULL ELSE next[s[i - 1]]
      BY <1>2, <2>2, <2>3, <2>4
    <3>. QED  BY <1>6, <2>2, <2>3, <2>4, <3>1
  <2>. QED  BY <2>2, <2>5
<1>. QED  BY <1>7 DEF w

LEMMA ListNodes ==
  ASSUME NEW h, NEW s, NEW k, IsList(h, s, k)
  PROVE  ~Cyclic(h) /\ Nodes(h) = Members(s, k)
<1>1. N \in Nat /\ k \in Nat /\ k <= N
  BY ListFits DEF IsList
<1>2. \A i \in 0 .. N : Walk(h)[i] = s[i]
  BY WalkOfList
<1>3. s[N] = NULL
  BY <1>1 DEF IsList
<1>4. ~Cyclic(h)
  BY <1>1, <1>2, <1>3 DEF Cyclic
<1>5. Nodes(h) = {s[i] : i \in 0 .. N} \ {NULL}
  BY <1>2 DEF Nodes
<1>6. \A i \in Nat : s[i] # NULL <=> i < k
  BY <1>1 DEF IsList
<1>7. {s[i] : i \in 0 .. N} \ {NULL} = Members(s, k)
  BY <1>1, <1>6 DEF Members
<1>. QED  BY <1>4, <1>5, <1>7

LEMMA ListInvIsExact == ListInv => ProcListExact
BY ListNodes DEF ListInv, ProcListExact

\* Steps that touch neither the nodes of a list nor its head keep it.
LEMMA ListKept ==
  ASSUME NEW h, NEW s, NEW k, IsList(h, s, k),
         \A x \in Members(s, k) : next'[x] = next[x]
  PROVE  IsList(h, s, k)'
<1>1. \A i \in Nat : i < k => s[i] \in Members(s, k)
  BY DEF Members
<1>. QED  BY <1>1 DEF IsList

(***************************************************************************)
(* process_create pushes the slot in front of the list.                    *)
(***************************************************************************)
LEMMA ListPush ==
  ASSUME NEW s, NEW k, IsList(proc_list, s, k),
         NEW x \in Slots, x \notin Members(s, k),
         next \in [Slots -> Slots \cup {NULL}],
         next' = [next EXCEPT ![x] = proc_list]
  PROVE  \E h, s1, k1 : /\ h = x
                        /\ IsList(h, s1, k1)'
                        /\ \A y : y \in Members(s1, k1) <=>
                                    y \in Members(s, k) \/ y = x
<1> DEFINE s1 == [i \in Nat |-> IF i = 0 THEN x ELSE s[i - 1]]
           k1 == k + 1
<1> USE ProcessesAssumption
<1>1. /\ k \in Nat /\ s \in [Nat -> Slots \cup {NULL}] /\ s[0] = proc_list
      /\ \A i \in Nat : s[i] = NULL <=> i >= k
      /\ \A i \in Nat : i < k => next[s[i]] = s[i + 1]
      /\ \A i, j \in Nat : i < k /\ j < k /\ s[i] = s[j] => i = j
  BY DEF IsList
<1>2. \A i \in Nat : i < k => s[i] \in Slots /\ s[i] # x
  BY <1>1 DEF Members
<1>3. s1 \in [Nat -> Slots \cup {NULL}] /\ k1 \in Nat /\ s1[0] = x
  BY <1>1
<1>4. \A i \in Nat : s1[i] = IF i = 0 THEN x ELSE s[i - 1]
  OBVIOUS
<1> HIDE DEF s1
<1>5. \A i \in Nat : s1[i] = NULL <=> i >= k1
  <2> SUFFICES ASSUME NEW i \in Nat PROVE s1[i] = NULL <=> i >= k1
    OBVIOUS
  <2>1. CASE i = 0
    BY <1>1, <1>4, <2>1
  <2>2. CASE i # 0
    <3>1. i - 1 \in Nat
      BY <2>2
    <3>. QED  BY <1>1, <1>4, <2>2, <3>1
  <2>. QED  BY <2>1, <2>2
<1>6. \A i \in Nat : i < k1 => next'[s1[i]] = s1[i + 1]
  <2> SUFFICES ASSUME NEW i \in Nat, i < k1 PROVE next'[s1[i]] = s1[i + 1]
    OBVIOUS
  <2>0. s1[i + 1] = s[i]
    BY <1>4
  <2>1. CASE i = 0
    BY <1>1, <1>4, <2>0, <2>1
  <2>2. CASE i # 0
    <3>1. i - 1 \in Nat /\ i - 1 < k /\ (i - 1) + 1 = i
      BY <1>1, <2>2
    <3>2. next'[s[i - 1]] = next[s[i - 1]]
      BY <1>2, <3>1
    <3>3. next[s[i - 1]] = s[(i - 1) + 1]
      BY <1>1, <3>1
    <3>. QED  BY <1>4, <2>0, <2>2, <3>1, <3>2, <3>3
  <2>. QED  BY <2>1, <2>2
<1>7. \A i, j \in Nat : i < k1 /\ j < k1 /\ s1[i] = s1[j] => i = j
  <2> SUFFICES ASSUME NEW i \in Nat, NEW j \in Nat, i < k1, j < k1,
                      s1[i] = s1[j]
               PROVE  i = j
    OBVIOUS
  <2>1. /\ i # 0 => i - 1 \in Nat /\ i - 1 < k
        /\ j # 0 => j - 1 \in Nat /\ j - 1 < k
    BY <1>1
  <2>2. CASE i # 0 /\ j # 0
    <3>1. i - 1 = j - 1
      BY <1>1, <1>4, <2>1, <2>2
    <3>. QED  BY <3>1
  <2>3. CASE ~(i # 0 /\ j # 0)
    BY <1>2, <1>4, <2>1, <2>3
  <2>. QED  BY <2>2, <2>3
<1>8. Members(s1, k1) = Members(s, k) \cup {x}
  <2>1. ASSUME NEW i \in Nat, i < k1
        PROVE  s1[i] \in Members(s, k) \cup {x}
    <3>1. i # 0 => i - 1 \in Nat /\ i - 1 < k
      BY <1>1, <2>1
    <3>. QED  BY <1>4, <3>1 DEF Members
  <2>2. ASSUME NEW i \in Nat, i < k
        PROVE  s[i] \in Members(s1, k1)
    <3>1. i + 1 \in Nat /\ i + 1 < k1 /\ s1[i + 1] = s[i]
      BY <1>1, <1>4, <2>2
    <3>. QED  BY <3>1 DEF Members
  <2>3. x \in Members(s1, k1)
    <3>1. 0 < k1
      BY <1>1
    <3>. QED  BY <1>3, <3>1 DEF Members
  <2> HIDE DEF k1
  <2>4. Members(s, k) \subseteq Members(s1, k1)
    BY <2>2 DEF Members
  <2>5. Members(s1, k1) \subseteq Members(s, k) \cup {x}
    <3>1. Members(s1, k1) = {s1[i] : i \in {j \in Nat : j < k1}}
      BY DEF Members
    <3>. QED  BY <2>1, <3>1
  <2>. QED  BY <2>3, <2>4, <2>5
<1>9. IsList(x, s1, k1)'
  <2> HIDE DEF k1
  <2>. QED  BY <1>3, <1>5, <1>6, <1>7 DEF IsList
<1>. QED  BY <1>8, <1>9

(***************************************************************************)
(* process_destroy takes a node of proc_list out of it.                    *)
(***************************************************************************)
LEMMA ListRemove ==
  ASSUME NEW s, NEW k, IsList(proc_list, s, k), NEW x \in Members(s, k),
         next \in [Slots -> Slots \cup {NULL}], process_destroy(x)
  PROVE  \E h, s1, k1 : /\ h = proc_list'
                        /\ IsList(h, s1, k1)'
                        /\ Members(s1, k1) = Members(s, k) \ {x}
<1> USE ProcessesAssumption
<1>1. /\ k \in Nat /\ s \in [Nat -> Slots \cup {NULL}] /\ s[0] = proc_list
      /\ \A i \in Nat : s[i] = NULL <=> i >= k
      /\ \A i \in Nat : i < k => next[s[i]] = s[i + 1]
      /\ \A i, j \in Nat : i < k /\ j < k /\ s[i] = s[j] => i = j
  BY DEF IsList
<1>2. PICK m \in Nat : m < k /\ s[m] = x
  BY DEF Members
<1>3. \A i \in Nat : i < k => s[i] \in Slots
  BY <1>1
<1> DEFINE s1 == [i \in Nat |-> IF i < m THEN s[i] ELSE s[i + 1]]
           k1 == k - 1
<1>4. /\ s1 \in [Nat -> Slots \cup {NULL}] /\ k1 \in Nat
      /\ \A i \in Nat : s1[i] = IF i < m THEN s[i] ELSE s[i + 1]
  BY <1>1, <1>2
<1> HIDE DEF s1
<1>5. \A i \in Nat : s1[i] = NULL <=> i >= k1
  <2> SUFFICES ASSUME NEW i \in Nat PROVE s1[i] = NULL <=> i >= k1
    OBVIOUS
  <2>. QED  BY <1>1, <1>2, <1>4
<1>6. \A i, j \in Nat : i < k1 /\ j < k1 /\ s1[i] = s1[j] => i = j
  <2> SUFFICES ASSUME NEW i \in Nat, NEW j \in Nat, i < k1, j < k1, s1[i] = s1[j]
               PROVE  i = j
    OBVIOUS
  <2> DEFINE a == IF i < m THEN i ELSE i + 1
             b == IF j < m THEN j ELSE j + 1
  <2>1. /\ a \in Nat /\ a < k /\ b \in Nat /\ b < k /\ s1[i] = s[a] /\ s1[j] = s[b]
    BY <1>1, <1>2, <1>4
  <2>2. a = b
    <3> HIDE DEF a, b
    <3>. QED  BY <1>1, <2>1
  <2>. QED  BY <1>2, <2>2
<1>7. Members(s1, k1) = Members(s, k) \ {x}
  <2>1. ASSUME NEW i \in Nat, i < k1
        PROVE  s1[i] \in Members(s, k) \ {x}
    <3> DEFINE a == IF i < m THEN i ELSE i + 1
    <3>1. a \in Nat /\ a < k /\ a # m /\ s1[i] = s[a]
      BY <1>1, <1>2, <1>4, <2>1
    <3> HIDE DEF a
    <3>2. s[a] # x
      BY <1>1, <1>2, <3>1
    <3>. QED  BY <3>1, <3>2 DEF Members
  <2>2. ASSUME NEW i \in Nat, i < k, s[i] # x
        PROVE  s[i] \in Members(s1, k1)
    <3> DEFINE a == IF i < m THEN i ELSE i - 1
    <3>1. i # m
      BY <1>2, <2>2
    <3>2. a \in Nat /\ a < k1 /\ s1[a] = s[i]
      <4>1. CASE i < m
        BY <1>1, <1>2, <1>4, <2>2, <4>1
      <4>2. CASE ~(i < m)
        <5>1. i - 1 \in Nat /\ ~(i - 1 < m) /\ (i - 1) + 1 = i
          BY <3>1, <4>2
        <5>. QED  BY <1>1, <1>4, <2>2, <4>2, <5>1
      <4>. QED  BY <4>1, <4>2
    <3> HIDE DEF a, k1
    <3>. QED  BY <3>2 DEF Members
  <2> HIDE DEF k1
  <2>3. Members(s1, k1) \subseteq Members(s, k) \ {x}
    <3>1. Members(s1, k1) = {s1[i] : i \in {j \in Nat : j < k1}}
      BY DEF Members
    <3>. QED  BY <2>1, <3>1
  <2>4. Members(s, k) \ {x} \subseteq Members(s1, k1)
    <3>1. Members(s, k) = {s[i] : i \in {j \in Nat : j < k}}
      BY DEF Members
    <3>. QED  BY <2>2, <3>1
  <2>. QED  BY <2>3, <2>4
<1> DEFINE before == {y \in Nodes(proc_list) : next[y] = x}
<1>8. Nodes(proc_list) = Members(s, k)
  BY ListNodes
<1>9. next[x] = s[m + 1]
  BY <1>1, <1>2
<1>10. /\ proc_list' = s1[0]
       /\ \A i \in Nat : i < k1 => next'[s1[i]] = s1[i + 1]
  <2>1. CASE m = 0
    <3>1. proc_list = x
      BY <1>1, <1>2, <2>1
    <3>2. next' = next /\ proc_list' = next[x]
      BY <3>1 DEF process_destroy
    <3>3. proc_list' = s1[0]
      BY <1>4, <1>9, <2>1, <3>2
    <3>4. ASSUME NEW i \in Nat, i < k1 PROVE next'[s1[i]] = s1[i + 1]
      <4>1. s1[i] = s[i + 1] /\ s1[i + 1] = s[(i + 1) + 1] /\ i + 1 < k
        BY <1>1, <1>4, <2>1, <3>4
      <4>2. next[s[i + 1]] = s[(i + 1) + 1]
        BY <1>1, <4>1
      <4>. QED  BY <3>2, <4>1, <4>2
    <3>. QED  BY <3>3, <3>4
  <2>2. CASE m # 0
    <3>1. proc_list # x
      BY <1>1, <1>2, <2>2
    <3>2. /\ next' = [y \in Slots |-> IF y \in before THEN next[x] ELSE next[y]]
          /\ proc_list' = proc_list
      BY <3>1 DEF process_destroy
    <3>3. proc_list' = s1[0]
      BY <1>1, <1>4, <2>2, <3>2
    <3>4. ASSUME NEW i \in Nat, i < k PROVE s[i] \in before <=> i + 1 = m
      <4>1. s[i] \in Members(s, k) /\ next[s[i]] = s[i + 1]
        BY <1>1, <3>4 DEF Members
      <4>2. s[i] \in before <=> s[i + 1] = s[m]
        BY <1>2, <1>8, <4>1
      <4>3. s[i + 1] = s[m] => i + 1 < k
        BY <1>1, <1>2
      <4>4. s[i + 1] = s[m] <=> i + 1 = m
        BY <1>1, <1>2, <4>3
      <4>. QED  BY <4>2, <4>4
    <3> HIDE DEF before
    <3>5. ASSUME NEW i \in Nat, i < k1 PROVE next'[s1[i]] = s1[i + 1]
      <4>1. CASE i < m
        <5>1. s1[i] = s[i] /\ i < k
          BY <1>1, <1>2, <1>4, <3>5, <4>1
        <5>2. next'[s[i]] = IF i + 1 = m THEN s[m + 1] ELSE s[i + 1]
          BY <1>1, <1>3, <1>9, <3>2, <3>4, <5>1
        <5>3. s1[i + 1] = IF i + 1 < m THEN s[i + 1] ELSE s[(i + 1) + 1]
          BY <1>4
        <5>. QED  BY <1>2, <4>1, <5>1, <5>2, <5>3
      <4>2. CASE ~(i < m)
        <5>1. /\ s1[i] = s[i + 1] /\ i + 1 \in Nat /\ i + 1 < k
              /\ s1[i + 1] = s[(i + 1) + 1] /\ (i + 1) + 1 # m
          BY <1>1, <1>2, <1>4, <3>5, <4>2
        <5>2. s[i + 1] \notin before /\ s[i + 1] \in Slots
          BY <1>3, <3>4, <5>1
        <5>3. next'[s[i + 1]] = next[s[i + 1]]
          BY <3>2, <5>2
        <5>. QED  BY <1>1, <5>1, <5>3
      <4>. QED  BY <4>1, <4>2
    <3>. QED  BY <3>3, <3>5
  <2>. QED  BY <2>1, <2>2
<1>11. IsList(s1[0], s1, k1)'
  <2> HIDE DEF k1
  <2>. QED  BY <1>4, <1>5, <1>6, <1>10 DEF IsList
<1>. QED  BY <1>7, <1>10, <1>11

LEMMA InitList == Init => ListInv
<1> SUFFICES ASSUME Init PROVE ListInv
  OBVIOUS
<1> DEFINE s == [i \in Nat |-> NULL]
<1>1. IsList(proc_list, s, 0)
  BY DEF Init, IsList
<1>2. Members(s, 0) = allocated \ forked
  <2>1. Members(s, 0) = {}
    BY DEF Members
  <2>. QED  BY <2>1 DEF Init
<1>. QED  BY <1>1, <1>2 DEF ListInv

(***************************************************************************)
(* Every step keeps proc_list a list of the processes that process_create  *)
(* has made and nobody has waited for.                                     *)
(***************************************************************************)
LEMMA NextList == SafeInv /\ ListInv /\ [Next]_vars => ListInv'
<1> SUFFICES ASSUME SafeInv, ListInv, [Next]_vars PROVE ListInv'
  OBVIOUS
<1> USE ProcessesAssumption
<1>1. PICK s, k : IsList(proc_list, s, k) /\ Members(s, k) = allocated \ forked
  BY DEF ListInv
<1>2. next \in [Slots -> Slots \cup {NULL}] /\ current_process \in Slots \cup {NULL}
  BY DEF SafeInv, IInv, TypeOK
<1>3. ASSUME proc_list' = proc_list, allocated' \ forked' = allocated \ forked,
             \A x \in Members(s, k) : next'[x] = next[x]
      PROVE  ListInv'
  <2>1. PICK h : h = proc_list
    OBVIOUS
  <2>2. IsList(h, s, k)
    BY <1>1, <2>1
  <2>3. IsList(h, s, k)'
    BY <1>3, <2>2, ListKept
  <2>. QED  BY <1>1, <1>3, <2>1, <2>3 DEF ListInv
<1>4. ASSUME NEW x \in Slots, process_create(x) PROVE ListInv'
  <2>1. /\ x \notin allocated /\ allocated' = allocated \cup {x}
        /\ forked' = forked \ {x} /\ proc_list' = x
        /\ next' = [next EXCEPT ![x] = proc_list]
    BY <1>4 DEF process_create
  <2>2. PICK h, s1, k1 : /\ h = x
                         /\ IsList(h, s1, k1)'
                         /\ \A y : y \in Members(s1, k1) <=>
                                     y \in Members(s, k) \/ y = x
    <3>1. x \notin Members(s, k)
      BY <1>1, <2>1
    <3>2. next' = [next EXCEPT ![x] = proc_list]
      BY <2>1
    <3>. QED  BY <1>1, <1>2, <3>1, <3>2, ListPush
  <2>3. Members(s1, k1) = allocated' \ forked'
    BY <1>1, <2>1, <2>2
  <2>. QED  BY <2>1, <2>2, <2>3 DEF ListInv
<1>5. CASE process_create_fails
  BY <1>3, <1>5 DEF process_create_fails, procs
<1>6. CASE sched_proc_add
  <2>1. next' = next
    BY <1>2, <1>6 DEF sched_proc_add, SafeInv, KernelThreadInv
  <2>. QED  BY <1>3, <1>6, <2>1 DEF sched_proc_add
<1>7. ASSUME NEW n, Kill(n) PROVE ListInv'
  BY <1>3, <1>7 DEF Kill, lists
<1>8. CASE kernel_dispatch \/ timer_irq \/ sys_exit
  <2>1. UNCHANGED <<next, allocated, forked, proc_list>>
    BY <1>8 DEF kernel_dispatch, timer_irq, sched_proc_tick, sys_exit,
                process_exit, schedule_process, lists, procs
  <2>. QED  BY <1>3, <2>1
<1>9. ASSUME NEW x \in Slots, sys_fork(x) PROVE ListInv'
  <2>1. /\ x \notin allocated /\ allocated' = allocated \cup {x}
        /\ forked' = forked \cup {x} /\ proc_list' = proc_list
        /\ next' = [next EXCEPT ![x] = next[current_process]]
    BY <1>9 DEF sys_fork, lists
  <2>2. allocated' \ forked' = allocated \ forked /\ x \notin Members(s, k)
    BY <1>1, <2>1
  <2>3. \A y \in Members(s, k) : next'[y] = next[y]
    BY <1>2, <2>1, <2>2
  <2>. QED  BY <1>3, <2>1, <2>2, <2>3
<1>10. CASE \E n \in Pids : sys_waitpid(n)
  <2>1. PICK n \in Pids : sys_waitpid(n)
    BY <1>10
  <2> DEFINE x == process_get_by_pid(n)
  <2>2. x # NULL /\ (process_destroy(x) \/ WaitForTick)
    BY <2>1 DEF sys_waitpid
  <2>3. CASE WaitForTick
    BY <1>3, <2>3 DEF WaitForTick, procs
  <2>4. CASE process_destroy(x)
    <3>1. x \in Members(s, k)
      BY <1>1, <2>2, FoundIsNode, ListNodes DEF SafeInv, IInv
    <3> HIDE DEF x
    <3>2. PICK h, s1, k1 : /\ h = proc_list'
                           /\ IsList(h, s1, k1)'
                           /\ Members(s1, k1) = Members(s, k) \ {x}
      BY <1>1, <1>2, <2>4, <3>1, ListRemove
    <3>3. allocated' = allocated \ {x} /\ forked' = forked
      BY <2>4 DEF process_destroy
    <3>4. Members(s1, k1) = allocated' \ forked'
      BY <1>1, <3>2, <3>3
    <3>. QED  BY <3>2, <3>4 DEF ListInv
  <2>. QED  BY <2>2, <2>3, <2>4
<1>11. CASE sys_sleep
  BY <1>3, <1>11 DEF sys_sleep, WaitForTick, procs
<1>12. CASE UNCHANGED vars
  BY <1>3, <1>12 DEF vars, procs, lists
<1>. QED  BY <1>4, <1>5, <1>6, <1>7, <1>8, <1>9, <1>10, <1>11, <1>12
          DEF Next, shell_kill, sys_kill

(***************************************************************************)
(* proc_list holds exactly the processes that process_create has made and  *)
(* nobody has waited for, in an order without repetition, for any number   *)
(* of processes: no walk over it is endless.                               *)
(***************************************************************************)
THEOREM ProcListCorrect == Spec => []ProcListExact
<1>1. Spec => [](SafeInv /\ ListInv)
  <2>1. Init => SafeInv /\ ListInv
    BY InitSafe, InitList
  <2>2. SafeInv /\ ListInv /\ [Next]_vars => SafeInv' /\ ListInv'
    BY NextSafe, NextList
  <2>. QED  BY <2>1, <2>2, PTL DEF Spec
<1>. QED  BY <1>1, ListInvIsExact, PTL
=============================================================================
