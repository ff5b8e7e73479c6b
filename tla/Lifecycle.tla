------------------------------ MODULE Lifecycle ------------------------------
(***************************************************************************)
(* The emulator's process (emulator.cc): the constructor, the loop, the    *)
(* thread that reads the terminal into the UART of the cpu, and how each   *)
(* of them ends.  phase is where the main thread is in main.               *)
(*                                                                         *)
(* The thread of read_stdin is never joined.  Leaving execute_loop destroys*)
(* its std::thread, which ends the process whether read_stdin has returned *)
(* or not.  An instruction that ends the emulator calls exit, which        *)
(* destroys nothing main owns.                                             *)
(***************************************************************************)
EXTENDS Uart

VARIABLES
    phase,        \* "start", "constructed", "running", "unmapped",
                  \* "returned", "destroyed" or "ended", the process's end
    init_done,    \* Emulator::init_done_, without an initializer
    cpu,          \* the Cpu the unique_ptr holds: "none", "alive" or "freed"
    read_stdin,   \* the thread: "none", "running" or "finished"
    eof           \* the user closed the terminal

process == <<phase, init_done, cpu, read_stdin, eof>>
all == <<vars, process>>

ProcessInit ==
    /\ phase = "start" /\ init_done \in BOOLEAN
    /\ cpu = "none" /\ read_stdin = "none" /\ eof = FALSE

-----------------------------------------------------------------------------
(* Loader::init and Loader::load: a file that cannot be mapped, a dynamic  *)
(* binary and RAM that cannot be mapped leave init_done_ as it was.        *)
LoadFails ==
    /\ phase = "start" /\ phase' = "constructed"
    /\ UNCHANGED <<vars, init_done, cpu, read_stdin, eof>>

(* Virtio's constructor exits without a disk image.                        *)
Construct ==
    /\ phase = "start"
    /\ \/ /\ phase' = "constructed" /\ init_done' = TRUE /\ cpu' = "alive"
       \/ phase' = "ended" /\ UNCHANGED <<init_done, cpu>>
    /\ UNCHANGED <<vars, read_stdin, eof>>

(* The loop of a cpu that was never made ends in a null pointer.           *)
EnterLoop ==
    /\ phase = "constructed" /\ init_done
    /\ IF cpu = "alive"
       THEN phase' = "running" /\ read_stdin' = "running"
       ELSE phase' = "ended" /\ UNCHANGED read_stdin
    /\ UNCHANGED <<vars, init_done, cpu, eof>>

SkipLoop ==
    /\ phase = "constructed" /\ ~init_done
    /\ phase' = "returned"
    /\ UNCHANGED <<vars, init_done, cpu, read_stdin, eof>>

(* fetch() got a zero: break and munmap of guest memory.                   *)
NoInstruction ==
    /\ phase = "running"
    /\ phase' = "unmapped"
    /\ UNCHANGED <<vars, init_done, cpu, read_stdin, eof>>

(* exit() in an instruction, a register access or an unknown address.      *)
ExitInInstruction ==
    /\ phase = "running"
    /\ phase' = "ended"
    /\ UNCHANGED <<vars, init_done, cpu, read_stdin, eof>>

(* The destructor of the thread, which nobody joined or detached.          *)
LeaveLoopDetached ==
    /\ phase = "unmapped"
    /\ phase' = "returned"
    /\ UNCHANGED <<vars, init_done, cpu, read_stdin, eof>>

LeaveLoop ==
    /\ phase = "unmapped"
    /\ phase' = "ended"
    /\ UNCHANGED <<vars, init_done, cpu, read_stdin, eof>>

(* The end of main: emu's destructor, then the process's.                  *)
DestroyEmulator ==
    /\ phase = "returned"
    /\ phase' = "destroyed"
    /\ cpu' = IF cpu = "alive" THEN "freed" ELSE cpu
    /\ UNCHANGED <<vars, init_done, read_stdin, eof>>

EndMain ==
    /\ phase = "destroyed"
    /\ phase' = "ended"
    /\ UNCHANGED <<vars, init_done, cpu, read_stdin, eof>>

Main ==
    \/ LoadFails \/ Construct \/ EnterLoop \/ SkipLoop \/ NoInstruction
    \/ ExitInInstruction \/ LeaveLoop \/ DestroyEmulator \/ EndMain

-----------------------------------------------------------------------------
Close ==
    /\ ~eof
    /\ eof' = TRUE
    /\ UNCHANGED <<vars, phase, init_done, cpu, read_stdin>>

(* fgets has nothing left: the thread returns, its std::thread stays       *)
(* joinable.                                                               *)
EndOfInput ==
    /\ read_stdin = "running" /\ reader = "fgets"
    /\ eof /\ stdin = <<>>
    /\ read_stdin' = "finished"
    /\ UNCHANGED <<vars, phase, init_done, cpu, eof>>

ReaderRuns == read_stdin = "running" /\ Reader /\ UNCHANGED process
CpuRuns == phase = "running" /\ Cpu /\ UNCHANGED process

Stopped == overrun \/ phase = "ended"

FullInit == Init /\ ProcessInit

FullNext ==
    \/ /\ ~Stopped
       /\ \/ ~eof /\ UNCHANGED process /\ \E line \in Lines : Type(line)
          \/ ReaderRuns \/ CpuRuns
          \/ Main \/ Close \/ EndOfInput
    \/ Stopped /\ UNCHANGED all

(* Both threads run, the guest unmasks again and again, and its handler,   *)
(* once entered, goes on, until the process ends.                          *)
Fairness ==
    /\ WF_all(~Stopped /\ ReaderRuns)
    /\ WF_all(~Stopped /\ phase = "running" /\ IsInterrupting /\ UNCHANGED process)
    /\ WF_all(~Stopped /\ phase = "running" /\ Driver /\ UNCHANGED process)

FullSpec == FullInit /\ [][FullNext]_all /\ Fairness

-----------------------------------------------------------------------------
(* The array read_stdin writes to is there as long as the thread is: no    *)
(* path through main frees the cpu while the thread may still store into   *)
(* its UART and the process goes on.  The process's abrupt end on leaving  *)
(* the loop is what makes it true.                                         *)
ReaderTargetLives ==
    read_stdin = "running" /\ phase # "ended" => cpu = "alive"

(* A session that fits, in an emulator that goes on, ends with everything  *)
(* typed delivered, also when the terminal is closed behind it: no         *)
(* character stays behind, with the reader ahead and the driver waiting    *)
(* for an interrupt.                                                       *)
AllDelivered ==
    []Fits /\ <>[](phase = "running") => <>[](delivered = typed)
=============================================================================
