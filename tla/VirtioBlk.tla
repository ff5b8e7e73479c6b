----------------------------- MODULE VirtioBlk ------------------------------
(***************************************************************************)
(* The virtio block device at work (virtio.cc): Virtio::is_interrupting    *)
(* and Virtio::disk_access, which check_interrupt calls in one go, over    *)
(* the queue a legacy virtio driver keeps in guest memory.  The queue is   *)
(* configured.                                                             *)
(*                                                                         *)
(* The driver is the guest's: a process submits a request under a lock     *)
(* that masks interrupts, so filling the chain, publishing it and writing  *)
(* QueueNotify are one step; it sleeps until the interrupt handler has     *)
(* found its request in the used ring, then frees the descriptors itself.  *)
(***************************************************************************)
EXTENDS Integers, FiniteSets, FiniteSetsExt

CONSTANTS
    Procs, Sectors, Data,
    QueueNum,       \* control_regs.queue_num, a power of two
    IdxMod,         \* 2^16, the used and available indices are u16
    MaxOutstanding  \* requests not yet collected (bound)

ASSUME QueueAssumption ==
    /\ QueueNum \in 3..16     \* queue_num_max is 16, a request takes three
    /\ IdxMod \in Nat \ {0} /\ IdxMod % QueueNum = 0
    /\ MaxOutstanding \in Nat \ {0}

ASSUME DiskAssumption ==
    /\ IsFiniteSet(Procs)
    /\ Sectors \subseteq Nat /\ Sectors # {}
    /\ Data \subseteq Nat /\ Data # {}

VARIABLES
    disk,
    queue_notify,  \* control_regs.queue_notify == 0
    id,            \* Virtio::id modulo IdxMod
    desc,          \* desc[d]: descriptor d in guest memory
    avail,         \* avail ring: [idx, word], word[k] the k-th u16 from its start
    used,          \* used ring: [idx, ring]
    header, buf, status,   \* per process: block request header, data, status byte
    driver,        \* per process: "idle", "sleeping" or "done"
    head,          \* per process: first descriptor of its chain
    free,          \* descriptors in no chain
    used_idx,      \* the driver's position in the used ring
    irq,           \* the handler runs
    astray         \* disk_access followed what is no chain

memory == <<desc, avail, used, header, buf, status>>
kernel == <<driver, head, free, used_idx, irq>>
vars == <<disk, queue_notify, id, memory, kernel, astray>>

Descs == 0..(QueueNum - 1)
Drivers == {"idle", "sleeping", "done"}

(* An unused descriptor is all zeros.                                      *)
Blank == [part |-> "none", owner |-> "none", write |-> FALSE, next |-> 0]
Descriptor(part, p, w, next) ==
    [part |-> part, owner |-> p, write |-> w, next |-> next]

(* u16 flags, u16 idx, u16 ring[QueueNum], u16 used_event and the zero     *)
(* padding behind them, up to the words disk_access reads.                 *)
RingWord(k) == 2 + k
ReadWord == 16
Words == 0..(ReadWord + 1)

(* Type correctness: the indices stay 16 bits wide, descriptors in range.  *)
TypeOK ==
    /\ disk \in [Sectors -> Data]
    /\ {queue_notify, irq, astray} \subseteq BOOLEAN
    /\ id \in 0..(IdxMod - 1)
    /\ desc \in [Descs -> [part : {"none", "header", "data", "status"},
                          owner : Procs \cup {"none"},
                          write : BOOLEAN, next : Descs]]
    /\ avail.idx \in 0..(IdxMod - 1) /\ avail.word \in [Words -> Descs]
    /\ used.idx \in 0..(IdxMod - 1) /\ used.ring \in [Descs -> Descs]
    /\ header \in [Procs -> [write : BOOLEAN, sector : Sectors]]
    /\ buf \in [Procs -> Data] /\ status \in [Procs -> {0, 255}]
    /\ driver \in [Procs -> Drivers] /\ head \in [Procs -> Descs]
    /\ free \subseteq Descs /\ used_idx \in 0..(IdxMod - 1)

Init ==
    /\ disk \in [Sectors -> Data]
    /\ queue_notify = FALSE
    /\ id = 0
    /\ desc = [d \in Descs |-> Blank]
    /\ avail = [idx |-> 0, word |-> [k \in Words |-> 0]]
    /\ used = [idx |-> 0, ring |-> [d \in Descs |-> 0]]
    /\ header = [p \in Procs |-> [write |-> FALSE, sector |-> Min(Sectors)]]
    /\ buf = [p \in Procs |-> Min(Data)]
    /\ status = [p \in Procs |-> 255]
    /\ driver = [p \in Procs |-> "idle"]
    /\ head = [p \in Procs |-> 0]
    /\ free = Descs
    /\ used_idx = 0
    /\ irq = FALSE /\ astray = FALSE

-----------------------------------------------------------------------------
(* The driver's submission.  Descriptors are allocated lowest first.       *)
Outstanding == {p \in Procs : driver[p] # "idle"}

Submit(p) ==
    /\ driver[p] = "idle"
    /\ Cardinality(Outstanding) < MaxOutstanding
    /\ Cardinality(free) >= 3
    /\ LET d0 == Min(free)
           d1 == Min(free \ {d0})
           d2 == Min(free \ {d0, d1})
       IN  \E w \in BOOLEAN, s \in Sectors, v \in Data :
             /\ desc' = [desc EXCEPT
                    ![d0] = Descriptor("header", p, FALSE, d1),
                    ![d1] = Descriptor("data", p, ~w, d2),
                    ![d2] = Descriptor("status", p, TRUE, 0)]
             /\ header' = [header EXCEPT ![p] = [write |-> w, sector |-> s]]
             /\ buf' = [buf EXCEPT ![p] = v]
             /\ status' = [status EXCEPT ![p] = 255]
             /\ avail' = [idx |-> (avail.idx + 1) % IdxMod,
                          word |-> [avail.word EXCEPT
                                        ![RingWord(avail.idx % QueueNum)] = d0]]
             /\ head' = [head EXCEPT ![p] = d0]
             /\ free' = free \ {d0, d1, d2}
    /\ driver' = [driver EXCEPT ![p] = "sleeping"]
    /\ queue_notify' = TRUE
    /\ UNCHANGED <<disk, id, used, used_idx, irq, astray>>

-----------------------------------------------------------------------------
(* Virtio::disk_access reads the head of the chain 32 bytes into the       *)
(* available ring; avail_idx stays 0.  It reads 64 bits; the upper two     *)
(* words are behind the last entry and 0.                                  *)
FirstIndex == avail.word[ReadWord] + 65536 * avail.word[ReadWord + 1]

Chain ==
    LET d0 == desc[FirstIndex]
        d1 == desc[d0.next]
    IN  <<d0, d1, desc[d1.next]>>

(* Nothing checks that the index names a descriptor and that the three are *)
(* filled, header, data and status in this order since the driver takes    *)
(* them in threes.  A blank one holds address 0, which is not in memory.   *)
Followable ==
    FirstIndex \in Descs /\ \A k \in 1..3 : Chain[k].part # "none"

(* Bit 1 of the flags of the second descriptor: the device writes memory.  *)
DeviceWritesInverted == ~Chain[2].write
DeviceWrites == Chain[2].write

Transfer ==
    LET sector == header[Chain[1].owner].sector
        data   == Chain[2].owner
    IN  IF DeviceWrites
        THEN buf' = [buf EXCEPT ![data] = disk[sector]] /\ UNCHANGED disk
        ELSE disk' = [disk EXCEPT ![sector] = buf[data]] /\ UNCHANGED buf

CompleteWithoutStatus ==
    /\ id' = (id + 1) % IdxMod
    /\ used' = [idx |-> id',
                ring |-> [used.ring EXCEPT ![id % QueueNum] = FirstIndex]]
    /\ UNCHANGED status

CompleteOldIndex ==
    /\ status' = [status EXCEPT ![Chain[3].owner] = 0]
    /\ id' = (id + 1) % IdxMod
    /\ used' = [idx |-> id,
                ring |-> [used.ring EXCEPT ![id % QueueNum] = FirstIndex]]

CompleteUntruncated ==
    /\ status' = [status EXCEPT ![Chain[3].owner] = 0]
    /\ id' = id + 1
    /\ used' = [idx |-> id',
                ring |-> [used.ring EXCEPT ![id % QueueNum] = FirstIndex]]

Complete ==
    /\ status' = [status EXCEPT ![Chain[3].owner] = 0]
    /\ id' = (id + 1) % IdxMod
    /\ used' = [idx |-> id',
                ring |-> [used.ring EXCEPT ![id % QueueNum] = FirstIndex]]

(* is_interrupting consumes the notification, disk_access serves it and    *)
(* cause_interrupt starts the handler.  Following what is no chain is      *)
(* undefined behaviour and ends the model.                                 *)
DiskAccess ==
    /\ queue_notify
    /\ queue_notify' = FALSE
    /\ irq' = TRUE
    /\ IF Followable
       THEN Transfer /\ Complete /\ UNCHANGED astray
       ELSE astray' = TRUE /\ UNCHANGED <<disk, id, used, buf, status>>
    /\ UNCHANGED <<desc, avail, header, driver, head, free, used_idx>>

-----------------------------------------------------------------------------
(* The driver's handler walks the used ring.                               *)
Finished == CHOOSE p \in Procs :
    driver[p] # "idle" /\ head[p] = used.ring[used_idx % QueueNum]

HandleUsed ==
    /\ irq
    /\ used_idx # used.idx
    /\ used_idx' = (used_idx + 1) % IdxMod
    /\ driver' = [driver EXCEPT ![Finished] = "done"]
    /\ UNCHANGED <<disk, queue_notify, id, memory, head, free, irq, astray>>

HandlerEnd ==
    /\ irq
    /\ used_idx = used.idx
    /\ irq' = FALSE
    /\ UNCHANGED <<disk, queue_notify, id, memory, driver, head, free, used_idx,
                   astray>>

(* The process wakes, takes its data and clears its descriptors.           *)
ChainOf(p) ==
    {head[p], desc[head[p]].next, desc[desc[head[p]].next].next}

Collect(p) ==
    /\ driver[p] = "done"
    /\ driver' = [driver EXCEPT ![p] = "idle"]
    /\ free' = free \cup ChainOf(p)
    /\ desc' = [d \in Descs |-> IF d \in ChainOf(p) THEN Blank ELSE desc[d]]
    /\ UNCHANGED <<disk, queue_notify, id, avail, used, header, buf, status,
                   head, used_idx, irq, astray>>

Handler == HandleUsed \/ HandlerEnd

Next ==
    /\ ~astray
    /\ \/ \E p \in Procs : Submit(p) \/ Collect(p)
       \/ DiskAccess
       \/ Handler

(* The kernel unmasks again and again, and its handler goes on.            *)
Spec ==
    /\ Init /\ [][Next]_vars
    /\ WF_vars(~astray /\ DiskAccess) /\ WF_vars(~astray /\ Handler)

-----------------------------------------------------------------------------
Phase(p) ==
    IF driver[p] = "idle" THEN "idle"
    ELSE IF status[p] = 0 THEN "served" ELSE "pending"

Disk == INSTANCE AtomicDisk WITH
    content <- disk,
    req <- [p \in Procs |->
        IF Phase(p) = "idle" THEN [phase |-> "idle"]
        ELSE [phase |-> Phase(p), write |-> header[p].write,
              sector |-> header[p].sector, data |-> buf[p]]]

(* The device, the queue in memory and the driver implement the atomic     *)
(* disk: the one transfer disk_access makes per notification is the one    *)
(* of a submitted request, in the right direction, and it is not repeated. *)
RefinesDisk == Disk!Spec

(* The handler only reports requests the device has served: between its    *)
(* own wrapping index and the device's lie the chains of such requests.    *)
DoneIsServed == \A p \in Procs : driver[p] = "done" => status[p] = 0

(* Every request that is submitted is reported.                            *)
EveryRequestDone ==
    \A p \in Procs : driver[p] = "sleeping" ~> driver[p] = "done"

(* The comment on the available ring in virtio.h gives its layout: flags,  *)
(* idx, then QUEUE_NUM entries.  The n-th chain that is served is the one  *)
(* the n-th entry names.                                                   *)
ServesRingEntry ==
    [][DiskAccess => FirstIndex = avail.word[RingWord(id % QueueNum)]]_vars
=============================================================================
