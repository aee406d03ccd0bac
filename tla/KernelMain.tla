----------------------------- MODULE KernelMain -----------------------------
(***************************************************************************)
(* kernel_main is one thread: it reads the clock, probes the disks and     *)
(* becomes the shell, which the timer interrupts.  This module puts the    *)
(* clock, the disk driver, the terminal and the tasks in that order; the   *)
(* other subsystems it starts have modules of their own.                   *)
(*                                                                         *)
(* From the first prompt the shell goes on with the date command, or the   *)
(* kernel (a module that insmod has started) calls the disk driver or the  *)
(* task functions, which have no other callers; `stage' says which.        *)
(***************************************************************************)
EXTENDS RTC, ATA, Terminal, Tasks

VARIABLE stage  \* "clock", "disks", "shell", "date", "transfer" or "tasks"

vars == <<rtc_vars, ata_vars, term_vars, task_vars, stage>>

Init ==
    /\ rtc_init_state /\ ata_init_state /\ term_init_state /\ task_init_state
    /\ stage = "clock"

Others(mine) ==
    /\ mine # "rtc" => UNCHANGED rtc_vars
    /\ mine # "ata" => UNCHANGED ata_vars
    /\ mine # "term" => UNCHANGED term_vars
    /\ mine # "tasks" => UNCHANGED task_vars

rtc_init ==
    /\ stage = "clock"
    /\ \/ caller = "none" /\ rtc_call("rtc_init") /\ UNCHANGED stage
       \/ rtc_read_time /\ UNCHANGED stage
       \/ rtc_pc = "done" /\ rtc_return /\ stage' = "disks"
    /\ Others("rtc")

disk_init ==
    /\ stage = "disks"
    /\ ata_init \/ ata_identify
    /\ UNCHANGED stage
    /\ Others("ata")

start_shell ==
    /\ stage = "disks"
    /\ ata_pc = "ready"
    /\ shell_start
    /\ stage' = "shell"
    /\ Others("term")

shell ==
    /\ stage = "shell"
    /\ shell_run
    /\ UNCHANGED stage
    /\ Others("term")

\* Nothing typed yet.
FreshShell == stage = "shell" /\ lines = 0 /\ cmd_buf = <<>> /\ ~strayed

date_command ==
    /\ \/ FreshShell /\ rtc_call("date") /\ stage' = "date"
       \/ stage = "date" /\ rtc_read_time /\ UNCHANGED stage
       \/ /\ stage = "date" /\ caller = "date" /\ rtc_pc = "done"
          /\ rtc_call("ticks") /\ UNCHANGED stage
       \/ /\ stage = "date" /\ caller = "ticks" /\ rtc_pc = "done"
          /\ rtc_return /\ stage' = "shell"
    /\ Others("rtc")

disk_calls ==
    /\ \/ /\ FreshShell /\ stage' = "transfer"
          /\ \E op \in {"read", "write"}, lba \in Lbas, count \in Counts :
                 ata_transfer(op, lba, count)
       \/ stage = "transfer" /\ (ata_sector \/ ata_return) /\ UNCHANGED stage
       \/ /\ stage = "transfer"
          /\ \E op \in {"read", "write"}, lba \in Lbas, count \in Counts :
                 ata_transfer(op, lba, count)
          /\ UNCHANGED stage
    /\ Others("ata")

kernel_tasks ==
    /\ \/ FreshShell /\ FramesLeft
       \/ stage = "tasks" /\ task_calls
    /\ stage' = "tasks"
    /\ Others("tasks")

timer_tick ==
    /\ stage = "tasks"
    /\ processor = "kernel"
    /\ timer_handler
    /\ UNCHANGED stage
    /\ Others("tasks")

clock_chip == ChipSteps /\ UNCHANGED stage /\ Others("rtc")
disk_drives == DriveSteps /\ UNCHANGED stage /\ Others("ata")

Next ==
    \/ rtc_init \/ disk_init \/ start_shell \/ shell
    \/ date_command \/ disk_calls \/ kernel_tasks \/ timer_tick
    \/ clock_chip \/ disk_drives

(***************************************************************************)
(* kernel_main runs with interrupts off until the shell starts, so nothing *)
(* holds it up; an update of the chip ends, and a busy drive answers.      *)
(***************************************************************************)
Fairness ==
    /\ WF_vars(rtc_init) /\ WF_vars(disk_init) /\ WF_vars(start_shell)
    /\ WF_vars(EndUpdate /\ clock_chip)
    /\ WF_vars(disk_drives)

Spec == Init /\ [][Next]_vars /\ Fairness

----------------------------------------------------------------------------
(***************************************************************************)
(* The machine reaches the prompt: neither the repeated reading of the     *)
(* clock nor the loops over the drives run for ever, also with drives that *)
(* fail or that are no disks, and it has then found exactly the disks and  *)
(* counted them; unless a bus floats, where nothing pulls BSY down and the *)
(* loop at ata.c:56 has no limit.                                          *)
(***************************************************************************)
BootReachesPrompt ==
    (\A i \in 0 .. 3 : board[i] # "floating") =>
        <>(stage = "shell" /\ DrivesFound)
=============================================================================
