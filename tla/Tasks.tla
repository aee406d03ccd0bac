------------------------------- MODULE Tasks -------------------------------
(***************************************************************************)
(* Kernel tasks: sched/task.c, sched/scheduler.c and the context switch of *)
(* sched/switch.asm, driven by the timer tick of kernel/timer.c.  The task *)
(* list is the chain of the next pointers from task_list_head.  The page   *)
(* frame a task_t lies in is the task; 0 stands for kernel_task.           *)
(***************************************************************************)
EXTENDS Integers, FiniteSets, FiniteSetsExt

CONSTANTS
    TaskPages,      \* sets of page frames the PMM may have left
    Priorities,     \* arguments of task_create
    MaxCreated,     \* bound: tasks created
    MaxTicks,       \* bound: ticks of the timer
    TicksPerSwitch  \* ticks between two calls of schedule (10)

NoTask == -1
Idle == 0

ASSUME TasksAssumption ==
    /\ TaskPages \subseteq SUBSET (Nat \ {0})
    /\ \A frames \in TaskPages : IsFiniteSet(frames)
    /\ {MaxCreated, MaxTicks, TicksPerSwitch} \subseteq Nat \ {0}

VARIABLES
    task,               \* task_t by its frame: [pid, state, vruntime, priority]
    next,               \* the next pointers
    task_list_head, current_task, next_pid,
    freeFrames,         \* free frames of the PMM
    taskFrames,         \* history: frames taken by each task
    timer_ticks,
    processor           \* "kernel", or "lost" after a context switch

list == <<task, next, task_list_head>>
task_vars == <<list, current_task, next_pid, freeFrames, taskFrames,
               timer_ticks, processor>>

IdleTask == [pid |-> 0, state |-> "RUNNING", vruntime |-> 0, priority |-> 0]

task_init_state ==
    /\ task = [f \in {Idle} |-> IdleTask]
    /\ next = [f \in {Idle} |-> NoTask]
    /\ task_list_head = Idle
    /\ current_task = Idle
    /\ next_pid = 1
    /\ freeFrames = {}
    /\ taskFrames = [f \in {Idle} |-> {}]
    /\ timer_ticks = 0
    /\ processor = "kernel"

Tasks == DOMAIN task

\* The task after n links from the head, and what the list holds.
Walk == LET w[n \in 0 .. Cardinality(Tasks)] ==
                IF n = 0 THEN task_list_head
                ELSE IF w[n - 1] = NoTask THEN NoTask ELSE next[w[n - 1]]
        IN  w
Listed == {Walk[n] : n \in DOMAIN Walk} \ {NoTask}
Ends == Walk[Cardinality(Tasks)] = NoTask
LastListed == CHOOSE f \in Listed : next[f] = NoTask

\* Mutant: the task page stays with nobody when there is none for the stack.
FailedCreateKeeps(frame) ==
    /\ freeFrames' = freeFrames \ {frame}
    /\ next_pid' = next_pid + 1
    /\ UNCHANGED <<list, current_task, taskFrames, timer_ticks, processor>>

\* No frame for the stack: the one for the task goes back; its pid is spent.
FailedCreate(frame) ==
    /\ freeFrames' = freeFrames
    /\ next_pid' = next_pid + 1
    /\ UNCHANGED <<list, current_task, taskFrames, timer_ticks, processor>>

\* The frames that are left when the first call is made.
FramesLeft ==
    /\ freeFrames' \in TaskPages
    /\ UNCHANGED <<list, current_task, next_pid, taskFrames, timer_ticks, processor>>

\* A task without a list to append it to: the loop starts from NULL.
LoseProcessor ==
    /\ processor' = "lost"
    /\ UNCHANGED <<list, current_task, next_pid, freeFrames, taskFrames, timer_ticks>>

With(f, x, v) == [y \in DOMAIN f \cup {x} |-> IF y = x THEN v ELSE f[y]]

\* task_create: a frame for the task, two for the stack; the third is not
\* looked at.
CreateTask(priority, frame, stack, second) ==
    /\ freeFrames' = freeFrames \ ({frame, stack} \cup second)
    /\ task' = With(task, frame, [pid |-> next_pid, state |-> "READY",
                                  vruntime |-> 0, priority |-> priority])
    /\ next' = With([next EXCEPT ![LastListed] = frame], frame, NoTask)
    /\ taskFrames' = With(taskFrames, frame, {frame, stack} \cup second)
    /\ next_pid' = next_pid + 1
    /\ UNCHANGED <<task_list_head, current_task, timer_ticks, processor>>

task_create(priority) ==
    /\ Ends
    /\ next_pid <= MaxCreated
    /\ LET frame == Min(freeFrames)
           stack == Min(freeFrames \ {frame})
           others == freeFrames \ {frame, stack}
       IN  CASE freeFrames = {} -> UNCHANGED task_vars
             [] Cardinality(freeFrames) = 1 -> FailedCreate(frame)
             [] Cardinality(freeFrames) > 1 /\ task_list_head = NoTask -> LoseProcessor
             [] OTHER -> CreateTask(priority, frame, stack,
                                    IF others = {} THEN {} ELSE {Min(others)})

\* Mutant: the new end of the list is closed before it is linked.
LinkedLast(f) == [[next EXCEPT ![f] = NoTask] EXCEPT ![LastListed] = f]

Linked(f) == [[next EXCEPT ![LastListed] = f] EXCEPT ![f] = NoTask]

\* The last task of the list is not compared with the one to add.
scheduler_add_task(f) ==
    /\ Ends
    /\ next' = IF task_list_head = NoTask \/ f \in Listed \ {LastListed}
               THEN next ELSE Linked(f)
    /\ UNCHANGED <<task, task_list_head, current_task, next_pid, freeFrames,
                   taskFrames, timer_ticks, processor>>

scheduler_get_task_count == Cardinality(Listed)

\* scheduler_remove_task(f): the head and the next pointers afterwards.
Unlinked(f) ==
    IF task_list_head = f THEN [head |-> next[f], next |-> next]
    ELSE [head |-> task_list_head,
          next |-> [g \in Tasks |-> IF g \in Listed /\ next[g] = f
                                    THEN next[f] ELSE next[g]]]

\* The order of the list, and which of its tasks schedule() prefers.
Position(f) == CHOOSE n \in DOMAIN Walk : Walk[n] = f
Runnable(dead) ==
    {f \in Listed \ dead : task[f].state \in {"READY", "RUNNING"}}

\* Mutant: <= for < in the comparison of the virtual runtimes.
PreferLater(f, g) ==
    \/ task[f].vruntime < task[g].vruntime
    \/ task[f].vruntime = task[g].vruntime /\ Position(f) >= Position(g)

Preferred(f, g) ==
    \/ task[f].vruntime < task[g].vruntime
    \/ task[f].vruntime = task[g].vruntime /\ Position(f) <= Position(g)

(***************************************************************************)
(* context_switch finds its arguments 36 and 40 bytes above the stack      *)
(* pointer, where after pusha and pushf the return address and the first   *)
(* argument are: it saves the stack pointer into the code of schedule()    *)
(* and goes on with the task_t of the old task as its stack.               *)
(***************************************************************************)
context_switch == processor' = "lost"

\* schedule() with the states `now' of the tasks (task_exit has changed one).
schedule(now) ==
    LET dead == IF now[current_task].state = "DEAD" THEN {current_task} ELSE {}
        left == IF dead = {} THEN [head |-> task_list_head, next |-> next]
                ELSE Unlinked(current_task)
        ready == Runnable(dead)
        min == CHOOSE f \in ready : \A g \in ready : Preferred(f, g)
    IN  IF task_list_head = NoTask
        THEN task' = now /\ UNCHANGED <<next, task_list_head, current_task, processor>>
        ELSE /\ task_list_head' = left.head
             /\ next' = left.next
             /\ IF ready = {} \/ min = current_task
                THEN task' = now /\ UNCHANGED <<current_task, processor>>
                ELSE /\ task' = [f \in Tasks |->
                           CASE f = min -> [now[f] EXCEPT !.state = "RUNNING"]
                             [] f = current_task /\ now[f].state = "RUNNING" ->
                                  [now[f] EXCEPT !.state = "READY",
                                      !.vruntime = @ + (10 - now[f].priority)]
                             [] OTHER -> now[f]]
                     /\ current_task' = min
                     /\ context_switch

task_exit ==
    /\ Ends
    /\ schedule([task EXCEPT ![current_task].state = "DEAD"])
    /\ UNCHANGED <<next_pid, freeFrames, taskFrames, timer_ticks>>

task_yield ==
    /\ Ends
    /\ schedule(task)
    /\ UNCHANGED <<next_pid, freeFrames, taskFrames, timer_ticks>>

timer_handler ==
    /\ Ends
    /\ timer_ticks < MaxTicks
    /\ timer_ticks' = timer_ticks + 1
    /\ IF timer_ticks' % TicksPerSwitch = 0
       THEN schedule(task)
       ELSE UNCHANGED <<list, current_task, processor>>
    /\ UNCHANGED <<next_pid, freeFrames, taskFrames>>

task_calls ==
    /\ processor = "kernel"
    /\ \/ \E priority \in Priorities : task_create(priority)
       \/ \E f \in Tasks : scheduler_add_task(f)
       \/ task_exit
       \/ task_yield

----------------------------------------------------------------------------
(***************************************************************************)
(* A tick never takes the processor from the kernel: kernel_task, the head *)
(* of the list, wins every tie and is never charged, so that schedule()    *)
(* does not reach context_switch, which would destroy the kernel, until    *)
(* kernel_task itself exits.                                               *)
(***************************************************************************)
IdleKeepsProcessor ==
    processor = "lost" \/ current_task # Idle => task[Idle].state = "DEAD"

(***************************************************************************)
(* The list stays a list: it ends, whatever was created, added again or    *)
(* removed, it holds every task that has not exited, and the count that is *)
(* reported is the number of tasks on it.                                  *)
(***************************************************************************)
TaskListWhole ==
    /\ Ends
    /\ processor = "kernel" =>
          {f \in Tasks : task[f].state # "DEAD"} \subseteq Listed

NoHole == LET all == freeFrames \cup UNION {taskFrames[f] : f \in Tasks}
          IN  all # {} /\ all = Min(all) .. Max(all)

(***************************************************************************)
(* No frame is lost or given twice when task_create runs out of memory     *)
(* half way; and where the free memory has no hole the second half of an   *)
(* 8 KB stack (task.c:60) lies in the task's own third frame.              *)
(***************************************************************************)
FramesAccounted ==
    /\ freeFrames \cup UNION {taskFrames[f] : f \in Tasks} \in TaskPages \cup {{}}
    /\ \A f, g \in Tasks : f # g => taskFrames[f] \cap taskFrames[g] = {}
    /\ \A f \in Tasks : /\ taskFrames[f] \cap freeFrames = {}
                        /\ Cardinality(taskFrames[f]) = 3 /\ NoHole =>
                              taskFrames[f] = f .. f + 2
=============================================================================
