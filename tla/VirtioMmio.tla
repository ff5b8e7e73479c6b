----------------------------- MODULE VirtioMmio ------------------------------
(***************************************************************************)
(* The registers of the virtio device (Virtio::store, Virtio::load), the   *)
(* place of the queue the device computes from them, and the driver that   *)
(* configures it, before the device works as in VirtioBlk.                 *)
(*                                                                         *)
(* A legacy driver tells page size, queue size and the queue's page before *)
(* it sets DRIVER_OK in the status, xv6 sets it first; here the order is   *)
(* any.  It may begin again, from status 0, as long as it has submitted    *)
(* nothing: the device keeps its used index when status 0 is stored.       *)
(***************************************************************************)
EXTENDS VirtioBlk

CONSTANTS
    Pfns, PageSizes, QueueNums,  \* what the driver may configure
    Mod32                        \* 2^32

ASSUME LayoutAssumption ==
    /\ Pfns \subseteq Nat /\ PageSizes \subseteq Nat
    /\ QueueNums \subseteq 3..16 /\ Mod32 \in Nat \ {0}
    /\ \A pfn \in Pfns, page \in PageSizes :
          page >= 18 * 16 + 6 /\ pfn * page < Mod32

VARIABLES
    control_regs,  \* the registers the queue's place depends on
    virtqueue,     \* std::optional<Virtqueue>, its three addresses
    running,       \* the emulator has not ended
    want,          \* the queue the driver has set up in its memory
    todo           \* the registers it has still to store

mmio == <<control_regs, virtqueue, running, want, todo>>

Steps == {"STATUS", "GUEST_PAGE_SIZE", "QUEUE_NUM", "QUEUE_PFN"}
ReadOnly ==
    {"MAGIC_VALUE", "VERSION", "DEVICE_ID", "VENDER_ID", "HOST_FEATURES",
     "QUEUE_NUM_MAX"}
WriteOnly ==
    {"GUEST_FEATURES", "GUEST_PAGE_SIZE", "QUEUE_SEL", "QUEUE_NUM", "QUEUE_NOTIFY"}
Plain == {"GUEST_FEATURES", "QUEUE_SEL", "INTERRUPT_ACK"}
Readable == ReadOnly \cup {"QUEUE_PFN", "INTERRUPT_ACK", "INTERRUPT_STATUS", "STATUS"}
Unsupported ==
    {"HOST_FEATURES_SEL", "GUEST_FEATURES_SEL", "QUEUE_ALIGN", "CONFIG"}

Empty == [desc_table |-> -1]

(* Virtqueue::update, and its line for the used ring that is commented out.*)
QueueUnaligned(pfn, page_size, queue_num) ==
    LET base == (pfn * page_size) % Mod32
    IN  [desc_table |-> base, avail_ring |-> base + queue_num * 16,
         used_ring |-> base + queue_num * 16 + 6 + queue_num * 2]

Queue(pfn, page_size, queue_num) ==
    LET base == (pfn * page_size) % Mod32
    IN  [desc_table |-> base, avail_ring |-> base + queue_num * 16,
         used_ring |-> base + page_size]

QueueOf(regs) == Queue(regs.QUEUE_PFN, regs.GUEST_PAGE_SIZE, regs.QUEUE_NUM)

(* virtqueue->update(): on the empty optional it ends the emulator when the*)
(* library checks, else it changes an object that does not exist yet.      *)
UpdateQueue(regs) ==
    IF virtqueue = Empty
    THEN running' \in BOOLEAN /\ UNCHANGED virtqueue
    ELSE virtqueue' = QueueOf(regs) /\ UNCHANGED running

(* Virtio::store.                                                          *)
StoreRegister(r, value) ==
    \/ /\ r \in {"GUEST_PAGE_SIZE", "QUEUE_NUM", "QUEUE_PFN"}
       /\ control_regs' = [control_regs EXCEPT ![r] = value]
       /\ UpdateQueue(control_regs')
    \/ /\ r = "STATUS"
       /\ control_regs' = [control_regs EXCEPT ![r] = value]
       /\ virtqueue' = IF (value \div 4) % 2 = 1 THEN QueueOf(control_regs') ELSE virtqueue
       /\ UNCHANGED running
    \/ r \in Plain /\ UNCHANGED <<control_regs, virtqueue, running>>
    \/ /\ r \in ReadOnly \cup Unsupported
       /\ running' = FALSE
       /\ UNCHANGED <<control_regs, virtqueue>>

(* Virtio::load changes nothing, or ends the emulator.                     *)
LoadRegister(r) ==
    /\ running' = (r \in Readable)
    /\ UNCHANGED <<control_regs, virtqueue>>

MmioInit ==
    /\ control_regs = [r \in Steps |-> 0]
    /\ virtqueue = Empty
    /\ running = TRUE
    /\ want \in [QUEUE_PFN : Pfns, GUEST_PAGE_SIZE : PageSizes, QUEUE_NUM : QueueNums,
                 STATUS : {15}]
    /\ todo = Steps

-----------------------------------------------------------------------------
(* The driver, not yet in use.                                             *)
Configure(r) ==
    /\ running /\ r \in todo
    /\ StoreRegister(r, want[r])
    /\ todo' = todo \ {r}
    /\ UNCHANGED want

(* Features, the queue selector and what the device says of itself; a      *)
(* driver that stores the ring's alignment ends the emulator.              *)
Negotiate ==
    /\ running
    /\ \/ \E r \in Readable : LoadRegister(r)
       \/ \E r \in Plain \cup {"QUEUE_ALIGN"} : StoreRegister(r, 0)
    /\ UNCHANGED <<want, todo>>

Begin ==
    /\ running
    /\ StoreRegister("STATUS", 0)
    /\ want' \in [QUEUE_PFN : Pfns, GUEST_PAGE_SIZE : PageSizes,
                  QUEUE_NUM : QueueNums, STATUS : {15}]
    /\ todo' = Steps

MmioNext == Begin \/ Negotiate \/ \E r \in Steps : Configure(r)

-----------------------------------------------------------------------------
(* Once configured the device works.                                       *)
Configured == running /\ todo = {}

NotUsed == \A p \in Procs : driver[p] = "idle" /\ status[p] = 255
Ended == ~running /\ UNCHANGED <<vars, mmio>>

FullInit == Init /\ MmioInit

FullNext ==
    \/ NotUsed /\ MmioNext /\ UNCHANGED vars
    \/ Configured /\ want.QUEUE_NUM = QueueNum /\ Next /\ UNCHANGED mmio
    \/ Ended

FullSpec ==
    /\ FullInit /\ [][FullNext]_<<vars, mmio>>
    /\ WF_vars(~astray /\ DiskAccess) /\ WF_vars(~astray /\ Handler)

(* When the driver has stored its four registers, in any order and again   *)
(* after a new beginning, the device looks for descriptors, available and  *)
(* used ring where the legacy layout has them in the page the driver gave: *)
(* the used ring on the first page border behind the available ring.       *)
QueueWhereDriverPut ==
    Configured =>
        LET page  == want.GUEST_PAGE_SIZE
            table == want.QUEUE_PFN * page
            ring  == table + want.QUEUE_NUM * 16
            end   == ring + 6 + want.QUEUE_NUM * 2
        IN  /\ virtqueue.desc_table = table /\ virtqueue.avail_ring = ring
            /\ virtqueue.used_ring % page = 0
            /\ virtqueue.used_ring \in end..(end + page - 1)
=============================================================================
