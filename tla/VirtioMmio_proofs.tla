-------------------------- MODULE VirtioMmio_proofs --------------------------
(***************************************************************************)
(* The virtio device with one request outstanding at a time, as the guest  *)
(* uses it, and the configuration of its queue, for any number of          *)
(* processes, sectors and values and for any width of the indices.         *)
(*                                                                         *)
(* The argument: a chain is always descriptors 0, 1 and 2, so every entry  *)
(* of the available ring is 0 and the fixed word disk_access reads is the  *)
(* head of the one chain there is.  A request then goes through three      *)
(* stages, which RequestStage tells apart by the notification, the status  *)
(* byte and the distance of the two used indices.                          *)
(***************************************************************************)
EXTENDS VirtioMmio, FiniteSetTheorems, WellFoundedInduction, TLAPS

-----------------------------------------------------------------------------
(* Numbers.                                                                *)

(* A non-empty set of natural numbers has a least element.                 *)
LEMMA LeastElement ==
    ASSUME NEW S \in SUBSET Nat, S # {}
    PROVE  \E x \in S : \A y \in S : x <= y
<1> DEFINE R == {ss \in Nat \X Nat : ss[1] < ss[2]}
<1>1. R = OpToRel(<, Nat)
  BY Zenon DEF OpToRel
<1>2. IsWellFoundedOn(R, Nat)
  BY <1>1, NatLessThanWellFounded, Zenon
<1>3. PICK x \in S : \A y \in S : ~(<<y, x>> \in R)
  <2> HIDE DEF R
  <2>1. QED  BY <1>2, WFMin, Zenon
<1>4. \A y \in S : ~(y < x)
  BY <1>3
<1>5. QED
  BY <1>4

LEMMA MinInSet ==
    ASSUME NEW S \in SUBSET Nat, S # {}
    PROVE  Min(S) \in S /\ \A y \in S : Min(S) <= y
  BY LeastElement DEF Min

LEMMA ModRange ==
    ASSUME NEW x \in Nat, NEW m \in Nat \ {0}
    PROVE  x % m \in 0..(m - 1)
  OBVIOUS

(* An element that is below every other is the one Min chooses.            *)
LEMMA MinIs ==
    ASSUME NEW S \in SUBSET Nat, NEW m \in S, \A y \in S : m <= y
    PROVE  Min(S) = m
<1>1. Min(S) \in S /\ \A y \in S : Min(S) <= y
  BY MinInSet
<1>2. PICK n \in Nat : n = Min(S)
  BY <1>1
<1>3. n <= m /\ m <= n
  BY <1>1, <1>2
<1>4. n = m
  BY <1>3
<1>5. QED
  BY <1>2, <1>4

(* The three lowest descriptors, which the driver takes.                   *)
LEMMA LowestThree ==
    /\ {0, 1, 2} \subseteq Descs
    /\ Min(Descs) = 0 /\ Min(Descs \ {0}) = 1 /\ Min(Descs \ {0, 1}) = 2
<1>1. Descs \in SUBSET Nat /\ {0, 1, 2} \subseteq Descs
  BY QueueAssumption DEF Descs
<1>2. Min(Descs) = 0
  BY <1>1, MinIs
<1>3. Min(Descs \ {0}) = 1
  <2>1. /\ Descs \ {0} \in SUBSET Nat /\ 1 \in Descs \ {0}
        /\ \A y \in Descs \ {0} : 1 <= y
    BY <1>1
  <2>2. QED
    BY <2>1, MinIs
<1>4. Min(Descs \ {0, 1}) = 2
  <2>1. /\ Descs \ {0, 1} \in SUBSET Nat /\ 2 \in Descs \ {0, 1}
        /\ \A y \in Descs \ {0, 1} : 2 <= y
    BY <1>1
  <2>2. QED
    BY <2>1, MinIs
<1>5. QED
  BY <1>1, <1>2, <1>3, <1>4

-----------------------------------------------------------------------------
(* One request at a time.                                                  *)

RingAllZero == \A k \in Words : avail.word[k] = 0
AtMostOne ==
    \A p, q \in Procs : driver[p] # "idle" /\ driver[q] # "idle" => p = q

(* Between requests the device has nothing to do and all is reported.      *)
Resting ==
    (\A p \in Procs : driver[p] = "idle") =>
        free = Descs /\ ~queue_notify /\ used_idx = used.idx

ChainLaid(p) ==
    /\ head[p] = 0 /\ free = Descs \ {0, 1, 2}
    /\ desc[0] = Descriptor("header", p, FALSE, 1)
    /\ desc[1] = Descriptor("data", p, ~header[p].write, 2)
    /\ desc[2] = Descriptor("status", p, TRUE, 0)

Waiting(p) == queue_notify /\ status[p] = 255 /\ used_idx = used.idx
Served(p) ==
    /\ ~queue_notify /\ status[p] = 0
    /\ used.idx = (used_idx + 1) % IdxMod
    /\ used.ring[used_idx % QueueNum] = 0
Reported(p) == ~queue_notify /\ status[p] = 0 /\ used_idx = used.idx

RequestStage(p) ==
    /\ driver[p] = "sleeping" => Waiting(p) \/ Served(p)
    /\ driver[p] = "done" => Reported(p)

OneRequestInv ==
    /\ RingAllZero
    /\ AtMostOne
    /\ Resting
    /\ used.idx = id
    /\ ~astray
    /\ \A p \in Procs : driver[p] # "idle" => ChainLaid(p) /\ RequestStage(p)

BlkInv == TypeOK /\ OneRequestInv

(* The head disk_access reads.                                             *)
LEMMA FirstIndexZero ==
    ASSUME RingAllZero PROVE FirstIndex = 0
<1>1. ReadWord \in Words /\ ReadWord + 1 \in Words
  BY DEF ReadWord, Words
<1>2. avail.word[ReadWord] = 0 /\ avail.word[ReadWord + 1] = 0
  BY <1>1 DEF RingAllZero
<1>3. QED
  BY <1>2 DEF FirstIndex

LEMMA BlkInit == ASSUME Init PROVE BlkInv
<1>1. Min(Sectors) \in Sectors /\ Min(Data) \in Data
  BY DiskAssumption, MinInSet
<1>2. 0 \in Descs /\ 0 \in 0..(IdxMod - 1)
  BY QueueAssumption DEF Descs
<1>3. TypeOK
  <2>1. desc \in [Descs -> [part : {"none", "header", "data", "status"},
                            owner : Procs \cup {"none"},
                            write : BOOLEAN, next : Descs]]
    BY <1>2 DEF Init, Blank
  <2>2. /\ avail.idx \in 0..(IdxMod - 1) /\ avail.word \in [Words -> Descs]
        /\ used.idx \in 0..(IdxMod - 1) /\ used.ring \in [Descs -> Descs]
    BY <1>2 DEF Init
  <2>3. /\ header \in [Procs -> [write : BOOLEAN, sector : Sectors]]
        /\ buf \in [Procs -> Data] /\ status \in [Procs -> {0, 255}]
    BY <1>1 DEF Init
  <2>4. QED
    BY <1>2, <2>1, <2>2, <2>3 DEF Init, TypeOK, Drivers
<1>4. OneRequestInv
  BY DEF Init, OneRequestInv, RingAllZero, AtMostOne, Resting
<1>5. QED
  BY <1>3, <1>4 DEF BlkInv

(* With a bound of one, a process submits only when every other is idle.   *)
LEMMA SubmitAlone ==
    ASSUME MaxOutstanding = 1, Cardinality(Outstanding) < MaxOutstanding
    PROVE  \A p \in Procs : driver[p] = "idle"
<1>1. IsFiniteSet(Outstanding)
  BY DiskAssumption, FS_Subset DEF Outstanding
<1>2. Cardinality(Outstanding) = 0
  BY <1>1, FS_CardinalityType
<1>3. Outstanding = {}
  BY <1>1, <1>2, FS_EmptySet
<1>4. QED
  BY <1>3 DEF Outstanding

-----------------------------------------------------------------------------
(* The driver fills in the chain.                                          *)

(* What a submission does when the descriptors are all free.               *)
SubmitRequest(p, w, s, v) ==
    /\ \A q \in Procs : driver[q] = "idle"
    /\ desc' = [desc EXCEPT ![0] = Descriptor("header", p, FALSE, 1),
                            ![1] = Descriptor("data", p, ~w, 2),
                            ![2] = Descriptor("status", p, TRUE, 0)]
    /\ header' = [header EXCEPT ![p] = [write |-> w, sector |-> s]]
    /\ buf' = [buf EXCEPT ![p] = v]
    /\ status' = [status EXCEPT ![p] = 255]
    /\ avail' = [idx |-> (avail.idx + 1) % IdxMod,
                 word |-> [avail.word EXCEPT ![RingWord(avail.idx % QueueNum)] = 0]]
    /\ head' = [head EXCEPT ![p] = 0]
    /\ free' = Descs \ {0, 1, 2}
    /\ driver' = [driver EXCEPT ![p] = "sleeping"]
    /\ queue_notify' = TRUE
    /\ UNCHANGED <<disk, id, used, used_idx, irq, astray>>

LEMMA SubmitIs ==
    ASSUME MaxOutstanding = 1, BlkInv, NEW p \in Procs, Submit(p)
    PROVE  \E w \in BOOLEAN, s \in Sectors, v \in Data : SubmitRequest(p, w, s, v)
<1>1. \A q \in Procs : driver[q] = "idle"
  BY SubmitAlone DEF Submit
<1>2. free = Descs
  BY <1>1 DEF BlkInv, OneRequestInv, Resting
<1> DEFINE d0 == Min(free)
           d1 == Min(free \ {d0})
           d2 == Min(free \ {d0, d1})
<1>3. d0 = 0 /\ d1 = 1 /\ d2 = 2
  BY <1>2, LowestThree
<1>4. PICK w \in BOOLEAN, s \in Sectors, v \in Data :
        /\ desc' = [desc EXCEPT ![d0] = Descriptor("header", p, FALSE, d1),
                                ![d1] = Descriptor("data", p, ~w, d2),
                                ![d2] = Descriptor("status", p, TRUE, 0)]
        /\ header' = [header EXCEPT ![p] = [write |-> w, sector |-> s]]
        /\ buf' = [buf EXCEPT ![p] = v]
        /\ status' = [status EXCEPT ![p] = 255]
        /\ avail' = [idx |-> (avail.idx + 1) % IdxMod,
                     word |-> [avail.word EXCEPT
                                   ![RingWord(avail.idx % QueueNum)] = d0]]
        /\ head' = [head EXCEPT ![p] = d0]
        /\ free' = free \ {d0, d1, d2}
  BY Zenon DEF Submit
<1> HIDE DEF d0, d1, d2
<1>5. SubmitRequest(p, w, s, v)
  BY <1>1, <1>2, <1>3, <1>4 DEF SubmitRequest, Submit
<1>6. QED
  BY <1>5

LEMMA ThreeStored ==
    ASSUME NEW S, NEW T, NEW f \in [S -> T], {0, 1, 2} \subseteq S, NEW a, NEW b, NEW c
    PROVE  /\ [f EXCEPT ![0] = a, ![1] = b, ![2] = c][0] = a
           /\ [f EXCEPT ![0] = a, ![1] = b, ![2] = c][1] = b
           /\ [f EXCEPT ![0] = a, ![1] = b, ![2] = c][2] = c
  OBVIOUS

LEMMA SubmitTypes ==
    ASSUME BlkInv, NEW p \in Procs, NEW w \in BOOLEAN, NEW s \in Sectors,
           NEW v \in Data, SubmitRequest(p, w, s, v)
    PROVE  TypeOK'
<1>1. {0, 1, 2} \subseteq Descs
  BY LowestThree
<1>2. desc' \in [Descs -> [part : {"none", "header", "data", "status"},
                           owner : Procs \cup {"none"},
                           write : BOOLEAN, next : Descs]]
  BY <1>1 DEF SubmitRequest, BlkInv, TypeOK, Descriptor
<1>3. avail'.idx \in 0..(IdxMod - 1) /\ avail'.word \in [Words -> Descs]
  <2>1. avail'.idx = (avail.idx + 1) % IdxMod /\ avail.idx \in Nat
    BY QueueAssumption DEF SubmitRequest, BlkInv, TypeOK
  <2>2. avail.idx + 1 \in Nat /\ IdxMod \in Nat \ {0}
    BY <2>1, QueueAssumption
  <2>3. avail'.idx \in 0..(IdxMod - 1)
    BY <2>1, <2>2, ModRange
  <2>4. avail'.word \in [Words -> Descs]
    BY <1>1 DEF SubmitRequest, BlkInv, TypeOK
  <2>5. QED
    BY <2>3, <2>4
<1>4. /\ header' \in [Procs -> [write : BOOLEAN, sector : Sectors]]
      /\ buf' \in [Procs -> Data] /\ status' \in [Procs -> {0, 255}]
  BY DEF SubmitRequest, BlkInv, TypeOK
<1>5. driver' \in [Procs -> Drivers] /\ head' \in [Procs -> Descs] /\ free' \subseteq Descs
  BY <1>1 DEF SubmitRequest, BlkInv, TypeOK, Drivers
<1>6. QED
  BY <1>2, <1>3, <1>4, <1>5 DEF SubmitRequest, BlkInv, TypeOK

LEMMA SubmitKeeps ==
    ASSUME BlkInv, NEW p \in Procs, NEW w \in BOOLEAN, NEW s \in Sectors,
           NEW v \in Data, SubmitRequest(p, w, s, v)
    PROVE  BlkInv'
<1>1. TypeOK'
  BY SubmitTypes
<1>2. RingAllZero'
  BY DEF SubmitRequest, BlkInv, TypeOK, OneRequestInv, RingAllZero
<1>3. \A q \in Procs : driver'[q] # "idle" => q = p
  BY DEF SubmitRequest, BlkInv, TypeOK
<1>4. driver'[p] = "sleeping"
  BY DEF SubmitRequest, BlkInv, TypeOK
<1>5. AtMostOne' /\ Resting'
  BY <1>3, <1>4 DEF AtMostOne, Resting
<1>6. used'.idx = id' /\ ~astray'
  BY DEF SubmitRequest, BlkInv, OneRequestInv
<1>7. ChainLaid(p)'
  <2>1. {0, 1, 2} \subseteq Descs
    BY LowestThree
  <2>2. header'[p].write = w
    BY DEF SubmitRequest, BlkInv, TypeOK
  <2>3. /\ desc'[0] = Descriptor("header", p, FALSE, 1)
        /\ desc'[1] = Descriptor("data", p, ~w, 2)
        /\ desc'[2] = Descriptor("status", p, TRUE, 0)
    <3> DEFINE a == Descriptor("header", p, FALSE, 1)
               b == Descriptor("data", p, ~w, 2)
               c == Descriptor("status", p, TRUE, 0)
    <3> HIDE DEF a, b, c
    <3>1. desc' = [desc EXCEPT ![0] = a, ![1] = b, ![2] = c]
      BY Zenon DEF SubmitRequest, a, b, c
    <3>2. PICK T : desc \in [Descs -> T]
      BY Zenon DEF BlkInv, TypeOK
    <3>3. desc'[0] = a /\ desc'[1] = b /\ desc'[2] = c
      BY <2>1, <3>1, <3>2, ThreeStored
    <3>4. QED
      BY <3>3, Zenon DEF a, b, c
  <2>4. head'[p] = 0 /\ free' = Descs \ {0, 1, 2}
    BY DEF SubmitRequest, BlkInv, TypeOK
  <2>5. QED
    BY <2>2, <2>3, <2>4 DEF ChainLaid
<1>8. RequestStage(p)'
  <2>1. queue_notify' /\ status'[p] = 255
    BY DEF SubmitRequest, BlkInv, TypeOK
  <2>2. used_idx' = used'.idx
    BY DEF SubmitRequest, BlkInv, OneRequestInv, Resting
  <2>3. Waiting(p)'
    BY <2>1, <2>2 DEF Waiting
  <2>4. QED
    BY <1>4, <2>3 DEF RequestStage
<1>9. QED
  BY <1>1, <1>2, <1>3, <1>5, <1>6, <1>7, <1>8 DEF BlkInv, OneRequestInv

-----------------------------------------------------------------------------
(* The device serves it.                                                   *)

(* A notification there is one of the process that waits.                  *)
LEMMA NotifiedBy ==
    ASSUME BlkInv, queue_notify
    PROVE  \E p \in Procs : driver[p] = "sleeping" /\ ChainLaid(p) /\ Waiting(p)
<1>1. PICK p \in Procs : driver[p] # "idle"
  BY DEF BlkInv, OneRequestInv, Resting
<1>2. ChainLaid(p) /\ RequestStage(p)
  BY <1>1 DEF BlkInv, OneRequestInv
<1>3. driver[p] \in {"sleeping", "done"}
  BY <1>1 DEF BlkInv, TypeOK, Drivers
<1>4. driver[p] = "sleeping" /\ Waiting(p)
  BY <1>2, <1>3 DEF RequestStage, Reported, Served
<1>5. QED
  BY <1>2, <1>4

(* The chain it then reads is that process's.                              *)
LEMMA ChainOfWaiting ==
    ASSUME BlkInv, NEW p \in Procs, ChainLaid(p)
    PROVE  /\ Chain[1] = Descriptor("header", p, FALSE, 1)
           /\ Chain[2] = Descriptor("data", p, ~header[p].write, 2)
           /\ Chain[3] = Descriptor("status", p, TRUE, 0)
<1>1. FirstIndex = 0
  BY FirstIndexZero DEF BlkInv, OneRequestInv
<1>2. desc[FirstIndex] = Descriptor("header", p, FALSE, 1)
  BY <1>1 DEF ChainLaid
<1>3. desc[FirstIndex].next = 1 /\ desc[1].next = 2
  BY <1>2 DEF ChainLaid, Descriptor
<1>4. Chain = <<desc[0], desc[1], desc[2]>>
  BY <1>1, <1>3 DEF Chain
<1>5. QED
  BY <1>4 DEF ChainLaid

(* What one call of disk_access does for it.                               *)
ServeRequest(p) ==
    /\ IF header[p].write
       THEN disk' = [disk EXCEPT ![header[p].sector] = buf[p]] /\ UNCHANGED buf
       ELSE buf' = [buf EXCEPT ![p] = disk[header[p].sector]] /\ UNCHANGED disk
    /\ status' = [status EXCEPT ![p] = 0]
    /\ id' = (id + 1) % IdxMod
    /\ used' = [idx |-> id', ring |-> [used.ring EXCEPT ![id % QueueNum] = 0]]
    /\ ~queue_notify'
    /\ queue_notify' \in BOOLEAN
    /\ irq' = TRUE
    /\ UNCHANGED <<desc, avail, header, driver, head, free, used_idx, astray>>

LEMMA DiskAccessIs ==
    ASSUME BlkInv, DiskAccess
    PROVE  \E p \in Procs : /\ driver[p] = "sleeping" /\ ChainLaid(p) /\ Waiting(p)
                            /\ ServeRequest(p)
<1>1. PICK p \in Procs : driver[p] = "sleeping" /\ ChainLaid(p) /\ Waiting(p)
  BY NotifiedBy DEF DiskAccess
<1>2. /\ Chain[1].owner = p /\ Chain[2].owner = p /\ Chain[3].owner = p
      /\ Chain[2].write = ~header[p].write
  <2>1. /\ Chain[1] = Descriptor("header", p, FALSE, 1)
        /\ Chain[2] = Descriptor("data", p, ~header[p].write, 2)
        /\ Chain[3] = Descriptor("status", p, TRUE, 0)
    <3>1. ChainLaid(p)
      BY <1>1
    <3>2. QED
      BY <3>1, ChainOfWaiting, Zenon
  <2>2. /\ Descriptor("header", p, FALSE, 1).owner = p
        /\ Descriptor("data", p, ~header[p].write, 2).owner = p
        /\ Descriptor("data", p, ~header[p].write, 2).write = ~header[p].write
        /\ Descriptor("status", p, TRUE, 0).owner = p
    BY Zenon DEF Descriptor
  <2>3. QED
    BY <2>1, <2>2, Zenon
<1>3. FirstIndex = 0
  BY FirstIndexZero DEF BlkInv, OneRequestInv
<1>4. Followable
  <2>1. FirstIndex \in Descs
    BY <1>3, LowestThree
  <2>2. Chain[1].part = "header" /\ Chain[2].part = "data" /\ Chain[3].part = "status"
    <3>1. ChainLaid(p)
      BY <1>1
    <3>2. /\ Chain[1] = Descriptor("header", p, FALSE, 1)
          /\ Chain[2] = Descriptor("data", p, ~header[p].write, 2)
          /\ Chain[3] = Descriptor("status", p, TRUE, 0)
      BY <3>1, ChainOfWaiting, Zenon
    <3>3. /\ Descriptor("header", p, FALSE, 1).part = "header"
          /\ Descriptor("data", p, ~header[p].write, 2).part = "data"
          /\ Descriptor("status", p, TRUE, 0).part = "status"
      BY Zenon DEF Descriptor
    <3>4. QED
      BY <3>2, <3>3, Zenon
  <2>3. \A k \in 1..3 : Chain[k].part # "none"
    <3>1. \A k \in 1..3 : k = 1 \/ k = 2 \/ k = 3
      OBVIOUS
    <3>2. QED
      BY <2>2, <3>1
  <2>4. QED
    BY <2>1, <2>3 DEF Followable
<1>5. Transfer /\ Complete /\ UNCHANGED astray
  BY <1>4 DEF DiskAccess
<1>6. IF header[p].write
      THEN disk' = [disk EXCEPT ![header[p].sector] = buf[p]] /\ UNCHANGED buf
      ELSE buf' = [buf EXCEPT ![p] = disk[header[p].sector]] /\ UNCHANGED disk
  BY <1>2, <1>5 DEF Transfer, DeviceWrites
<1>7. ServeRequest(p)
  BY <1>2, <1>3, <1>5, <1>6 DEF DiskAccess, Complete, ServeRequest
<1>8. QED
  BY <1>1, <1>7

LEMMA ServeTypes ==
    ASSUME BlkInv, NEW p \in Procs, ServeRequest(p)
    PROVE  TypeOK'
<1>1. header[p].sector \in Sectors /\ header[p].write \in BOOLEAN
  BY DEF BlkInv, TypeOK
<1>2. disk' \in [Sectors -> Data] /\ buf' \in [Procs -> Data]
  <2> DEFINE s == header[p].sector
  <2>1. /\ disk \in [Sectors -> Data] /\ buf \in [Procs -> Data] /\ s \in Sectors
        /\ \/ disk' = [disk EXCEPT ![s] = buf[p]] /\ buf' = buf
           \/ buf' = [buf EXCEPT ![p] = disk[s]] /\ disk' = disk
    BY <1>1 DEF ServeRequest, BlkInv, TypeOK
  <2> HIDE DEF s
  <2>2. QED
    BY <2>1
<1>3. id' \in 0..(IdxMod - 1)
  <2>1. id + 1 \in Nat /\ IdxMod \in Nat \ {0} /\ id' = (id + 1) % IdxMod
    BY QueueAssumption DEF ServeRequest, BlkInv, TypeOK
  <2>2. QED
    BY <2>1, ModRange
<1>4. used'.idx \in 0..(IdxMod - 1) /\ used'.ring \in [Descs -> Descs]
  BY <1>3, LowestThree DEF ServeRequest, BlkInv, TypeOK
<1>5. status' \in [Procs -> {0, 255}] /\ {queue_notify', irq'} \subseteq BOOLEAN
  BY DEF ServeRequest, BlkInv, TypeOK
<1>6. QED
  BY <1>2, <1>3, <1>4, <1>5 DEF ServeRequest, BlkInv, TypeOK

LEMMA ServeKeeps ==
    ASSUME BlkInv, NEW p \in Procs, driver[p] = "sleeping", ChainLaid(p), Waiting(p),
           ServeRequest(p)
    PROVE  BlkInv'
<1>1. TypeOK'
  BY ServeTypes
<1>2. RingAllZero' /\ AtMostOne'
  BY DEF ServeRequest, BlkInv, OneRequestInv, RingAllZero, AtMostOne
<1>3. Resting'
  BY DEF ServeRequest, Resting
<1>4. used'.idx = id' /\ ~astray'
  BY DEF ServeRequest, BlkInv, OneRequestInv
<1>5. \A q \in Procs : driver[q] # "idle" => q = p
  BY DEF BlkInv, OneRequestInv, AtMostOne
<1>6. ChainLaid(p)'
  BY Zenon DEF ServeRequest, ChainLaid
<1>7. Served(p)'
  <2>1. ~queue_notify' /\ status'[p] = 0
    BY DEF ServeRequest, BlkInv, TypeOK
  <2>2. id = used_idx /\ used_idx' = used_idx
    BY DEF ServeRequest, Waiting, BlkInv, OneRequestInv
  <2>3. used'.idx = (used_idx' + 1) % IdxMod
    BY <2>2 DEF ServeRequest
  <2>4. used_idx % QueueNum \in Descs
    <3>1. used_idx \in Nat /\ QueueNum \in Nat \ {0}
      BY QueueAssumption DEF BlkInv, TypeOK
    <3>2. QED
      BY <3>1, ModRange DEF Descs
  <2>5. used'.ring[used_idx' % QueueNum] = 0
    BY <2>2, <2>4 DEF ServeRequest, BlkInv, TypeOK
  <2>6. QED
    BY <2>1, <2>3, <2>5 DEF Served
<1>8. RequestStage(p)'
  BY <1>7 DEF RequestStage, ServeRequest
<1>9. \A q \in Procs : driver'[q] # "idle" => ChainLaid(q)' /\ RequestStage(q)'
  BY <1>5, <1>6, <1>8 DEF ServeRequest
<1>10. QED
  BY <1>1, <1>2, <1>3, <1>4, <1>9 DEF BlkInv, OneRequestInv

LEMMA DiskAccessKeeps == ASSUME BlkInv, DiskAccess PROVE BlkInv'
  BY DiskAccessIs, ServeKeeps

-----------------------------------------------------------------------------
(* The handler reports it.                                                 *)

(* The entry it finds is the one of the process that was served.           *)
LEMMA FinishedIs ==
    ASSUME BlkInv, HandleUsed
    PROVE  \E p \in Procs : /\ Finished = p /\ driver[p] = "sleeping"
                            /\ ChainLaid(p) /\ Served(p)
<1>1. PICK p \in Procs : driver[p] # "idle"
  BY DEF HandleUsed, BlkInv, OneRequestInv, Resting
<1>2. ChainLaid(p) /\ RequestStage(p)
  BY <1>1 DEF BlkInv, OneRequestInv
<1>3. driver[p] = "sleeping" /\ Served(p)
  BY <1>1, <1>2 DEF HandleUsed, BlkInv, TypeOK, Drivers, RequestStage, Waiting, Reported
<1>4. head[p] = used.ring[used_idx % QueueNum]
  BY <1>2, <1>3 DEF ChainLaid, Served
<1>5. \A q \in Procs : driver[q] # "idle" => q = p
  BY <1>1 DEF BlkInv, OneRequestInv, AtMostOne
<1>6. Finished = p
  BY <1>1, <1>4, <1>5 DEF Finished
<1>7. QED
  BY <1>2, <1>3, <1>6

LEMMA HandleUsedKeeps == ASSUME BlkInv, HandleUsed PROVE BlkInv'
<1>1. PICK p \in Procs : /\ Finished = p /\ driver[p] = "sleeping"
                         /\ ChainLaid(p) /\ Served(p)
  BY FinishedIs
<1>2. driver' = [driver EXCEPT ![p] = "done"]
  BY <1>1 DEF HandleUsed
<1>3. used_idx' = used.idx /\ used_idx' = used'.idx
  BY <1>1 DEF HandleUsed, Served, memory
<1>4. TypeOK'
  BY <1>2, <1>3 DEF HandleUsed, memory, BlkInv, TypeOK, Drivers
<1>5. \A q \in Procs : driver'[q] # "idle" <=> q = p
  BY <1>1, <1>2 DEF BlkInv, TypeOK, OneRequestInv, AtMostOne
<1>6. driver'[p] = "done"
  BY <1>2 DEF BlkInv, TypeOK
<1>7. RingAllZero' /\ AtMostOne' /\ Resting' /\ used'.idx = id' /\ ~astray'
  BY <1>5 DEF HandleUsed, memory, BlkInv, OneRequestInv, RingAllZero, AtMostOne, Resting
<1>8. ChainLaid(p)'
  BY <1>1, Zenon DEF HandleUsed, memory, ChainLaid
<1>9. RequestStage(p)'
  BY <1>1, <1>3, <1>6 DEF HandleUsed, memory, RequestStage, Served, Reported
<1>10. QED
  BY <1>4, <1>5, <1>7, <1>8, <1>9 DEF BlkInv, OneRequestInv

LEMMA HandlerEndKeeps == ASSUME BlkInv, HandlerEnd PROVE BlkInv'
<1>1. UNCHANGED <<disk, queue_notify, id, memory, driver, head, free, used_idx,
                  astray>>
      /\ irq' = FALSE
  BY DEF HandlerEnd
<1>2. TypeOK'
  BY <1>1 DEF memory, BlkInv, TypeOK
<1>3. OneRequestInv'
  BY <1>1 DEF memory, BlkInv, OneRequestInv, RingAllZero, AtMostOne, Resting,
              ChainLaid, RequestStage, Waiting, Served, Reported
<1>4. QED
  BY <1>2, <1>3 DEF BlkInv

(* The process frees its chain, which is the three descriptors.            *)
LEMMA CollectKeeps ==
    ASSUME BlkInv, NEW p \in Procs, Collect(p)
    PROVE  BlkInv'
<1>1. driver[p] = "done" /\ ChainLaid(p) /\ Reported(p)
  BY DEF Collect, BlkInv, OneRequestInv, RequestStage
<1>2. ChainOf(p) = {0, 1, 2}
  <2>1. desc[0].next = 1 /\ desc[1].next = 2
    <3>1. /\ desc[0] = Descriptor("header", p, FALSE, 1)
          /\ desc[1] = Descriptor("data", p, ~header[p].write, 2)
      BY <1>1, Zenon DEF ChainLaid
    <3>2. Descriptor("header", p, FALSE, 1).next = 1
      BY Zenon DEF Descriptor
    <3>3. Descriptor("data", p, ~header[p].write, 2).next = 2
      BY Zenon DEF Descriptor
    <3>4. QED
      BY <3>1, <3>2, <3>3, Zenon
  <2>2. head[p] = 0
    BY <1>1 DEF ChainLaid
  <2>3. QED
    BY <2>1, <2>2 DEF ChainOf
<1>3. free' = Descs
  BY <1>1, <1>2, LowestThree DEF Collect, ChainLaid
<1>4. TypeOK'
  <2>1. desc' \in [Descs -> [part : {"none", "header", "data", "status"},
                             owner : Procs \cup {"none"},
                             write : BOOLEAN, next : Descs]]
    BY LowestThree DEF Collect, BlkInv, TypeOK, Blank
  <2>2. driver' \in [Procs -> Drivers]
    BY DEF Collect, BlkInv, TypeOK, Drivers
  <2>3. QED
    BY <1>3, <2>1, <2>2 DEF Collect, BlkInv, TypeOK
<1>5. \A q \in Procs : driver'[q] = "idle"
  BY <1>1 DEF Collect, BlkInv, TypeOK, OneRequestInv, AtMostOne
<1>6. RingAllZero' /\ AtMostOne' /\ used'.idx = id' /\ ~astray'
  BY <1>5 DEF Collect, BlkInv, OneRequestInv, RingAllZero, AtMostOne
<1>7. Resting'
  BY <1>1, <1>3 DEF Resting, Reported, Collect
<1>8. QED
  BY <1>4, <1>5, <1>6, <1>7 DEF BlkInv, OneRequestInv

LEMMA BlkUnchanged == ASSUME BlkInv, UNCHANGED vars PROVE BlkInv'
<1>1. TypeOK'
  BY DEF vars, memory, kernel, BlkInv, TypeOK
<1>2. OneRequestInv'
  BY DEF vars, memory, kernel, BlkInv, OneRequestInv, RingAllZero, AtMostOne, Resting,
         ChainLaid, RequestStage, Waiting, Served, Reported
<1>3. QED
  BY <1>1, <1>2 DEF BlkInv

LEMMA BlkStep ==
    ASSUME MaxOutstanding = 1, BlkInv, [FullNext]_<<vars, mmio>>
    PROVE  BlkInv'
<1>1. CASE Next
  <2>1. ASSUME NEW p \in Procs, Submit(p) PROVE BlkInv'
    BY <2>1, SubmitIs, SubmitKeeps
  <2>2. ASSUME NEW p \in Procs, Collect(p) PROVE BlkInv'
    BY <2>2, CollectKeeps
  <2>3. CASE DiskAccess
    BY <2>3, DiskAccessKeeps
  <2>4. CASE Handler
    BY <2>4, HandleUsedKeeps, HandlerEndKeeps DEF Handler
  <2>5. QED
    BY <1>1, <2>1, <2>2, <2>3, <2>4 DEF Next
<1>2. CASE UNCHANGED vars
  BY <1>2, BlkUnchanged
<1>3. QED
  BY <1>1, <1>2 DEF FullNext, Ended

(* With one request outstanding at a time every field of the queue stays   *)
(* in its width and range, whatever is configured and requested.           *)
THEOREM VirtioTypes == ASSUME MaxOutstanding = 1 PROVE FullSpec => []TypeOK
<1>1. FullInit => BlkInv
  BY BlkInit DEF FullInit
<1>2. BlkInv /\ [FullNext]_<<vars, mmio>> => BlkInv'
  BY BlkStep
<1>3. BlkInv => TypeOK
  BY DEF BlkInv
<1>4. QED
  BY <1>1, <1>2, <1>3, PTL DEF FullSpec

(* The handler reports only what the device has served: the used index it  *)
(* compares with its own wraps, and the ring entry names a served chain.   *)
THEOREM ReportedIsServed == ASSUME MaxOutstanding = 1 PROVE FullSpec => []DoneIsServed
<1>1. FullInit => BlkInv
  BY BlkInit DEF FullInit
<1>2. BlkInv /\ [FullNext]_<<vars, mmio>> => BlkInv'
  BY BlkStep
<1>3. BlkInv => DoneIsServed
  <2>1. ASSUME BlkInv, NEW p \in Procs, driver[p] = "done" PROVE status[p] = 0
    BY <2>1 DEF BlkInv, OneRequestInv, RequestStage, Reported
  <2>2. QED
    BY <2>1 DEF DoneIsServed
<1>4. QED
  BY <1>1, <1>2, <1>3, PTL DEF FullSpec

-----------------------------------------------------------------------------
(* The atomic disk.                                                        *)

(* The request the abstract disk has in p's place, as RefinesDisk maps it. *)
ReqOf(p) ==
    IF Phase(p) = "idle" THEN [phase |-> "idle"]
    ELSE [phase |-> Phase(p), write |-> header[p].write,
          sector |-> header[p].sector, data |-> buf[p]]
Req == [p \in Procs |-> ReqOf(p)]

(* A request with the same driver state, header, data and status byte is   *)
(* the same.                                                               *)
LEMMA SameRequest ==
    ASSUME NEW p \in Procs,
           driver'[p] = driver[p], header'[p] = header[p],
           buf'[p] = buf[p], status'[p] = status[p]
    PROVE  ReqOf(p)' = ReqOf(p)
<1>1. Phase(p)' = Phase(p)
  BY DEF Phase
<1>2. QED
  BY <1>1, Zenon DEF ReqOf

(* A step that leaves the other processes' requests alone changes one place*)
LEMMA OneRequestChanges ==
    ASSUME NEW p \in Procs, NEW r, ReqOf(p)' = r,
           \A q \in Procs \ {p} : ReqOf(q)' = ReqOf(q)
    PROVE  Req' = [Req EXCEPT ![p] = r]
<1>1. \A q \in Procs : Req'[q] = [Req EXCEPT ![p] = r][q]
  BY Zenon DEF Req
<1>2. QED
  BY <1>1 DEF Req

LEMMA InitMaps == ASSUME Init PROVE Disk!Init
<1>1. \A p \in Procs : Phase(p) = "idle"
  BY DEF Init, Phase
<1>2. QED
  BY <1>1 DEF Init, Disk!Init, Disk!Idle

LEMMA SubmitMaps ==
    ASSUME BlkInv, NEW p \in Procs, NEW w \in BOOLEAN, NEW s \in Sectors,
           NEW v \in Data, SubmitRequest(p, w, s, v)
    PROVE  Disk!Submit(p)
<1>1. Req[p] = [phase |-> "idle"]
  <2>1. Phase(p) = "idle"
    BY DEF SubmitRequest, Phase
  <2>2. QED
    BY <2>1 DEF Req, ReqOf
<1>2. header'[p] = [write |-> w, sector |-> s] /\ buf'[p] = v
      /\ driver'[p] = "sleeping" /\ status'[p] = 255
  <2>1. header'[p] = [write |-> w, sector |-> s]
    <3> DEFINE h == [write |-> w, sector |-> s]
    <3> HIDE DEF h
    <3>1. header' = [header EXCEPT ![p] = h]
      BY Zenon DEF SubmitRequest, h
    <3>2. header'[p] = h
      BY <3>1 DEF BlkInv, TypeOK
    <3>3. QED
      BY <3>2, Zenon DEF h
  <2>2. QED
    BY <2>1 DEF SubmitRequest, BlkInv, TypeOK
<1>3. Phase(p)' = "pending"
  BY <1>2 DEF Phase
<1>4. ReqOf(p)' = Disk!Request("pending", w, s, v)
  <2>1. header'[p].write = w /\ header'[p].sector = s
    <3>1. [write |-> w, sector |-> s].write = w
      BY Zenon
    <3>2. [write |-> w, sector |-> s].sector = s
      BY Zenon
    <3>3. QED
      BY <1>2, <3>1, <3>2, Zenon
  <2>2. ReqOf(p)' = [phase |-> Phase(p)', write |-> header'[p].write,
                     sector |-> header'[p].sector, data |-> buf'[p]]
    BY <1>3 DEF ReqOf
  <2>3. QED
    BY <1>2, <1>3, <2>1, <2>2, Zenon DEF Disk!Request
<1>5. \A q \in Procs \ {p} : ReqOf(q)' = ReqOf(q)
  <2>1. ASSUME NEW q \in Procs, q # p
        PROVE  /\ driver'[q] = driver[q] /\ header'[q] = header[q]
               /\ buf'[q] = buf[q] /\ status'[q] = status[q]
    BY <2>1 DEF SubmitRequest, BlkInv, TypeOK
  <2>2. QED
    BY <2>1, SameRequest
<1>6. Req' = [Req EXCEPT ![p] = Disk!Request("pending", w, s, v)]
  BY <1>4, <1>5, OneRequestChanges
<1>7. UNCHANGED disk
  BY DEF SubmitRequest
<1>8. QED
  BY <1>1, <1>6, <1>7, Zenon DEF Disk!Submit, Disk!Idle, Req, ReqOf

(* The atomic disk serves the request it holds for p.                      *)
LEMMA AbstractServe ==
    ASSUME NEW p \in Procs, NEW w \in BOOLEAN, NEW s, NEW d,
           Req[p] = Disk!Request("pending", w, s, d),
           \/ /\ w /\ disk' = [disk EXCEPT ![s] = d]
              /\ Req' = [Req EXCEPT ![p] = Disk!Request("served", w, s, d)]
           \/ /\ ~w /\ UNCHANGED disk
              /\ Req' = [Req EXCEPT ![p] = Disk!Request("served", w, s, disk[s])]
    PROVE  Disk!Serve(p)
<1>1. /\ Disk!Request("pending", w, s, d).phase = "pending"
      /\ Disk!Request("pending", w, s, d).write = w
      /\ Disk!Request("pending", w, s, d).sector = s
      /\ Disk!Request("pending", w, s, d).data = d
  BY Zenon DEF Disk!Request
<1>2. Req[p].phase = "pending" /\ Req[p].write = w /\ Req[p].sector = s /\ Req[p].data = d
  BY <1>1, Zenon
<1>3. /\ [Req[p] EXCEPT !.phase = "served"] = Disk!Request("served", w, s, d)
      /\ [Req[p] EXCEPT !.phase = "served", !.data = disk[s]]
           = Disk!Request("served", w, s, disk[s])
  <2> DEFINE r == Req[p]
             e == disk[s]
  <2> HIDE DEF r, e
  <2>1. r = Disk!Request("pending", w, s, d)
    BY DEF r
  <2>2. /\ [r EXCEPT !.phase = "served"] = Disk!Request("served", w, s, d)
        /\ [r EXCEPT !.phase = "served", !.data = e] = Disk!Request("served", w, s, e)
    <3>1. DOMAIN r = {"phase", "write", "sector", "data"}
      BY <2>1 DEF Disk!Request
    <3> DEFINE f == [x \in DOMAIN r |-> IF x = "phase" THEN "served" ELSE r[x]]
               g == [x \in DOMAIN r |-> IF x = "data" THEN e ELSE f[x]]
    <3>2. /\ [r EXCEPT !.phase = "served"] = f
          /\ [r EXCEPT !.phase = "served", !.data = e] = g
      BY <2>1, <3>1 DEF Disk!Request
    <3>3. Disk!Request("served", w, s, d) = f /\ Disk!Request("served", w, s, e) = g
      BY <2>1, <3>1 DEF Disk!Request
    <3>4. QED
      BY <3>2, <3>3
  <2>3. QED
    BY <2>2, Zenon DEF r, e
<1>4. [Req EXCEPT ![p].phase = "served"]
        = [Req EXCEPT ![p] = Disk!Request("served", w, s, d)]
  <2>1. [Req[p] EXCEPT !.phase = "served"] = Disk!Request("served", w, s, d)
    BY <1>3, Zenon
  <2>2. [Req EXCEPT ![p].phase = "served"]
          = [Req EXCEPT ![p] = [Req[p] EXCEPT !.phase = "served"]]
    BY Zenon
  <2>3. QED
    BY <2>1, <2>2, Zenon
<1>5. [Req EXCEPT ![p].phase = "served", ![p].data = disk[s]]
        = [Req EXCEPT ![p] = Disk!Request("served", w, s, disk[s])]
  <2>1. [Req[p] EXCEPT !.phase = "served", !.data = disk[s]]
          = Disk!Request("served", w, s, disk[s])
    BY <1>3, Zenon
  <2>2. [Req EXCEPT ![p].phase = "served", ![p].data = disk[s]]
          = [Req EXCEPT ![p] = [Req[p] EXCEPT !.phase = "served", !.data = disk[s]]]
    BY DEF Req
  <2>3. QED
    BY <2>1, <2>2, Zenon
<1>6. Disk!Serve(p) <=>
        /\ Req[p].phase = "pending"
        /\ IF Req[p].write
           THEN /\ disk' = [disk EXCEPT ![Req[p].sector] = Req[p].data]
                /\ Req' = [Req EXCEPT ![p].phase = "served"]
           ELSE /\ Req' = [Req EXCEPT ![p].phase = "served",
                                      ![p].data = disk[Req[p].sector]]
                /\ UNCHANGED disk
  BY Zenon DEF Disk!Serve, Req, ReqOf
<1>7. QED
  BY <1>2, <1>4, <1>5, <1>6, Zenon

LEMMA ServeMaps ==
    ASSUME BlkInv, NEW p \in Procs, driver[p] = "sleeping", Waiting(p), ServeRequest(p)
    PROVE  Disk!Serve(p)
<1> DEFINE w == header[p].write
           s == header[p].sector
           d == buf[p]
<1>1. w \in BOOLEAN
  BY DEF BlkInv, TypeOK
<1>2. Phase(p) = "pending" /\ Phase(p)' = "served"
  BY DEF Phase, Waiting, ServeRequest, BlkInv, TypeOK
<1>3. Req[p] = Disk!Request("pending", w, s, d)
  BY <1>2, Zenon DEF Req, ReqOf, Disk!Request
<1>4. ReqOf(p)' = Disk!Request("served", w, s, buf'[p])
  <2>1. header' = header
    BY DEF ServeRequest
  <2>2. QED
    BY <1>2, <2>1, Zenon DEF ReqOf, Disk!Request
<1>5. \A q \in Procs \ {p} : ReqOf(q)' = ReqOf(q)
  <2>1. ASSUME NEW q \in Procs, q # p
        PROVE  /\ driver'[q] = driver[q] /\ header'[q] = header[q]
               /\ buf'[q] = buf[q] /\ status'[q] = status[q]
    BY <2>1 DEF ServeRequest, BlkInv, TypeOK
  <2>2. QED
    BY <2>1, SameRequest
<1>6. Req' = [Req EXCEPT ![p] = Disk!Request("served", w, s, buf'[p])]
  BY <1>4, <1>5, OneRequestChanges
<1>7. CASE w
  <2>1. buf'[p] = d /\ disk' = [disk EXCEPT ![s] = d]
    BY <1>7, Zenon DEF ServeRequest
  <2>2. w /\ Req' = [Req EXCEPT ![p] = Disk!Request("served", w, s, d)]
    BY <1>6, <1>7, <2>1, Zenon
  <2> HIDE DEF w, s, d
  <2>3. QED
    BY <1>1, <1>3, <2>1, <2>2, AbstractServe
<1>8. CASE ~w
  <2>1. buf' = [buf EXCEPT ![p] = disk[s]] /\ UNCHANGED disk
    BY <1>8, Zenon DEF ServeRequest
  <2>2. buf'[p] = disk[s]
    BY <2>1 DEF BlkInv, TypeOK
  <2>3. ~w /\ Req' = [Req EXCEPT ![p] = Disk!Request("served", w, s, disk[s])]
    BY <1>6, <1>8, <2>2, Zenon
  <2> HIDE DEF w, s, d
  <2>4. QED
    BY <1>1, <1>3, <2>1, <2>3, AbstractServe
<1>9. QED
  BY <1>7, <1>8

LEMMA CollectMaps ==
    ASSUME BlkInv, NEW p \in Procs, Collect(p)
    PROVE  Disk!Collect(p)
<1>1. driver[p] = "done" /\ status[p] = 0
  BY DEF Collect, BlkInv, OneRequestInv, RequestStage, Reported
<1>2. Phase(p) = "served"
  BY <1>1 DEF Phase
<1>3. Req[p].phase = "served"
  <2> DEFINE w == header[p].write
             s == header[p].sector
             d == buf[p]
  <2>1. Req[p] = [phase |-> "served", write |-> w, sector |-> s, data |-> d]
    BY <1>2, Zenon DEF Req, ReqOf
  <2> HIDE DEF w, s, d
  <2>2. QED
    BY <2>1
<1>4. ReqOf(p)' = Disk!Idle
  <2>1. driver'[p] = "idle"
    BY DEF Collect, BlkInv, TypeOK
  <2>2. Phase(p)' = "idle"
    BY <2>1 DEF Phase
  <2>3. QED
    BY <2>2, Zenon DEF ReqOf, Disk!Idle
<1>5. \A q \in Procs \ {p} : ReqOf(q)' = ReqOf(q)
  <2>1. ASSUME NEW q \in Procs, q # p
        PROVE  /\ driver'[q] = driver[q] /\ header'[q] = header[q]
               /\ buf'[q] = buf[q] /\ status'[q] = status[q]
    BY <2>1 DEF Collect, BlkInv, TypeOK
  <2>2. QED
    BY <2>1, SameRequest
<1>6. Req' = [Req EXCEPT ![p] = Disk!Idle]
  BY <1>4, <1>5, OneRequestChanges
<1>7. UNCHANGED disk
  BY DEF Collect
<1>8. QED
  BY <1>3, <1>6, <1>7, Zenon DEF Disk!Collect, Req, ReqOf

(* Where no process's driver state, header, data or status byte changes    *)
(* the atomic disk stutters.                                               *)
LEMMA StutterMaps ==
    ASSUME UNCHANGED disk,
           \A q \in Procs : /\ Phase(q)' = Phase(q)
                            /\ header'[q] = header[q] /\ buf'[q] = buf[q]
    PROVE  UNCHANGED Disk!vars
<1>1. \A q \in Procs : ReqOf(q)' = ReqOf(q)
  BY Zenon DEF ReqOf
<1>2. Req' = Req
  BY <1>1 DEF Req
<1>3. QED
  BY <1>2, Zenon DEF Disk!vars, Req, ReqOf

LEMMA HandleUsedMaps == ASSUME BlkInv, HandleUsed PROVE UNCHANGED Disk!vars
<1>1. PICK p \in Procs : /\ Finished = p /\ driver[p] = "sleeping"
                         /\ ChainLaid(p) /\ Served(p)
  BY FinishedIs
<1>2. driver' = [driver EXCEPT ![p] = "done"]
  BY <1>1 DEF HandleUsed
<1>3. status[p] = 0
  BY <1>1 DEF Served
<1>4. \A q \in Procs : Phase(q)' = Phase(q)
  BY <1>1, <1>2, <1>3 DEF HandleUsed, memory, Phase, BlkInv, TypeOK
<1>5. QED
  BY <1>4, StutterMaps DEF HandleUsed, memory

LEMMA StepMaps ==
    ASSUME MaxOutstanding = 1, BlkInv, [FullNext]_<<vars, mmio>>
    PROVE  [Disk!Next]_Disk!vars
<1>1. CASE Next
  <2>1. ASSUME NEW p \in Procs, Submit(p) PROVE Disk!Next
    BY <2>1, SubmitIs, SubmitMaps DEF Disk!Next
  <2>2. ASSUME NEW p \in Procs, Collect(p) PROVE Disk!Next
    BY <2>2, CollectMaps DEF Disk!Next
  <2>3. ASSUME DiskAccess PROVE Disk!Next
    BY <2>3, DiskAccessIs, ServeMaps DEF Disk!Next
  <2>4. ASSUME HandleUsed PROVE UNCHANGED Disk!vars
    BY <2>4, HandleUsedMaps
  <2>5. ASSUME HandlerEnd PROVE UNCHANGED Disk!vars
    BY <2>5, StutterMaps DEF HandlerEnd, memory, Phase
  <2>6. QED
    BY <1>1, <2>1, <2>2, <2>3, <2>4, <2>5 DEF Next, Handler
<1>2. ASSUME UNCHANGED vars PROVE UNCHANGED Disk!vars
  BY <1>2, StutterMaps DEF vars, memory, kernel, Phase
<1>3. QED
  BY <1>1, <1>2 DEF FullNext, Ended

(* With one request outstanding at a time, and for any number of processes,*)
(* sectors and values, the device, its queue in memory and the driver      *)
(* implement the atomic disk: each request is served exactly once, by one  *)
(* call of disk_access, in its direction and on its sector.                *)
THEOREM ImplementsAtomicDisk == ASSUME MaxOutstanding = 1 PROVE FullSpec => RefinesDisk
<1>1. FullInit => BlkInv /\ Disk!Init
  BY BlkInit, InitMaps DEF FullInit
<1>2. BlkInv /\ [FullNext]_<<vars, mmio>> => BlkInv' /\ [Disk!Next]_Disk!vars
  BY BlkStep, StepMaps
<1>3. QED
  BY <1>1, <1>2, PTL DEF FullSpec, RefinesDisk, Disk!Spec

-----------------------------------------------------------------------------
(* The registers.                                                          *)

Wanted == [QUEUE_PFN : Pfns, GUEST_PAGE_SIZE : PageSizes, QUEUE_NUM : QueueNums,
           STATUS : {15}]

(* What has been stored is as wanted; STATUS has made the queue, and every *)
(* store behind it has brought it up to date.                              *)
RegistersInv ==
    /\ want \in Wanted
    /\ todo \subseteq Steps
    /\ DOMAIN control_regs = Steps
    /\ running =>
          /\ \A r \in Steps \ todo : control_regs[r] = want[r]
          /\ "STATUS" \notin todo => virtqueue = QueueOf(control_regs)

LEMMA RegistersInit == ASSUME MmioInit PROVE RegistersInv
  BY DEF MmioInit, RegistersInv, Wanted, Steps

LEMMA BeginKeeps == ASSUME RegistersInv, Begin PROVE RegistersInv'
<1>1. DOMAIN control_regs' = Steps
  BY DEF Begin, StoreRegister, Plain, ReadOnly, Unsupported, RegistersInv
<1>2. want' \in Wanted /\ todo' = Steps
  BY DEF Begin, Wanted
<1>3. QED
  BY <1>1, <1>2 DEF RegistersInv, Steps

LEMMA NegotiateKeeps == ASSUME RegistersInv, Negotiate PROVE RegistersInv'
<1>1. UNCHANGED <<want, todo>> /\ running
  BY DEF Negotiate
<1>2. UNCHANGED <<control_regs, virtqueue>>
  BY DEF Negotiate, LoadRegister, StoreRegister, Plain, Readable, ReadOnly, Unsupported
<1>3. QED
  BY <1>1, <1>2 DEF RegistersInv, QueueOf

(* The queue there is once STATUS has been stored is not the empty one.    *)
LEMMA QueueExists == \A regs : QueueOf(regs) # Empty
<1>1. ASSUME NEW regs, QueueOf(regs) = Empty PROVE FALSE
  <2>1. "avail_ring" \in DOMAIN QueueOf(regs)
    BY DEF QueueOf, Queue
  <2>2. "avail_ring" \notin DOMAIN Empty
    BY DEF Empty
  <2>3. QED
    BY <1>1, <2>1, <2>2
<1>2. QED
  BY <1>1

LEMMA ConfigureKeeps ==
    ASSUME RegistersInv, NEW r \in Steps, Configure(r) PROVE RegistersInv'
<1>1. /\ want' = want /\ todo' = todo \ {r} /\ r \in todo /\ running
  BY DEF Configure
<1>2. control_regs' = [control_regs EXCEPT ![r] = want[r]]
  BY DEF Configure, StoreRegister, Steps, Plain, ReadOnly, Unsupported
<1>3. DOMAIN control_regs' = Steps /\ todo' \subseteq Steps /\ want' \in Wanted
  BY <1>1, <1>2 DEF RegistersInv
<1>4. \A x \in Steps \ todo' : control_regs'[x] = want'[x]
  BY <1>1, <1>2 DEF RegistersInv
<1>5. ASSUME "STATUS" \notin todo', running' PROVE virtqueue' = QueueOf(control_regs')
  <2>1. CASE r = "STATUS"
    <3>1. want[r] = 15
      BY <2>1 DEF RegistersInv, Wanted
    <3>2. (want[r] \div 4) % 2 = 1
      BY <3>1
    <3>3. virtqueue' = IF (want[r] \div 4) % 2 = 1 THEN QueueOf(control_regs')
                       ELSE virtqueue
      BY <2>1, Zenon DEF Configure, StoreRegister, Plain, ReadOnly, Unsupported
    <3>4. QED
      BY <3>2, <3>3
  <2>2. CASE r # "STATUS"
    <3>1. virtqueue # Empty
      BY <1>1, <1>5, <2>2, QueueExists DEF RegistersInv
    <3>2. UpdateQueue(control_regs')
      BY <2>2 DEF Configure, StoreRegister, Steps, Plain, ReadOnly, Unsupported
    <3>3. QED
      BY <3>1, <3>2 DEF UpdateQueue
  <2>3. QED
    BY <2>1, <2>2
<1>6. QED
  BY <1>3, <1>4, <1>5 DEF RegistersInv

LEMMA RegistersStep ==
    ASSUME RegistersInv, [FullNext]_<<vars, mmio>> PROVE RegistersInv'
<1>1. CASE MmioNext
  BY <1>1, BeginKeeps, NegotiateKeeps, ConfigureKeeps DEF MmioNext
<1>2. CASE UNCHANGED mmio
  BY <1>2 DEF mmio, RegistersInv, QueueOf
<1>3. QED
  BY <1>1, <1>2 DEF FullNext, Ended

(* Behind a multiple of the page, the next page border is one page on.     *)
LEMMA NextPage ==
    ASSUME NEW pfn \in Nat, NEW page \in Nat \ {0}
    PROVE  (pfn * page + page) % page = 0
<1>1. pfn * page + page = (pfn + 1) * page
  OBVIOUS
<1>2. ((pfn + 1) * page) % page = 0
  <2>1. \A k \in Nat : (k * page) % page = 0
    OBVIOUS
  <2>2. QED
    BY <2>1
<1>3. QED
  BY <1>1, <1>2

LEMMA StoredQueueIsWanted == RegistersInv => QueueWhereDriverPut
<1> SUFFICES ASSUME RegistersInv, Configured PROVE
        LET page  == want.GUEST_PAGE_SIZE
            table == want.QUEUE_PFN * page
            ring  == table + want.QUEUE_NUM * 16
            end   == ring + 6 + want.QUEUE_NUM * 2
        IN  /\ virtqueue.desc_table = table /\ virtqueue.avail_ring = ring
            /\ virtqueue.used_ring % page = 0
            /\ virtqueue.used_ring \in end..(end + page - 1)
  BY DEF QueueWhereDriverPut
<1> DEFINE pfn == want.QUEUE_PFN
           page == want.GUEST_PAGE_SIZE
           num == want.QUEUE_NUM
           table == pfn * page
<1>1. pfn \in Pfns /\ page \in PageSizes /\ num \in QueueNums
  BY DEF RegistersInv, Wanted
<1>2. /\ pfn \in Nat /\ page \in Nat /\ page >= 294 /\ num \in 3..16
      /\ table < Mod32 /\ Mod32 \in Nat \ {0}
  <2> HIDE DEF pfn, page, num
  <2>1. pfn \in Nat /\ page \in Nat /\ num \in 3..16 /\ Mod32 \in Nat \ {0}
    BY <1>1, LayoutAssumption
  <2>2. page >= 18 * 16 + 6 /\ pfn * page < Mod32
    BY <1>1, LayoutAssumption, Zenon
  <2>3. QED
    BY <2>1, <2>2
<1>3. virtqueue = Queue(pfn, page, num)
  <2>1. /\ control_regs.QUEUE_PFN = pfn /\ control_regs.GUEST_PAGE_SIZE = page
        /\ control_regs.QUEUE_NUM = num
    BY DEF RegistersInv, Configured, Steps
  <2>2. virtqueue = QueueOf(control_regs)
    BY DEF RegistersInv, Configured
  <2>3. QED
    BY <2>1, <2>2 DEF QueueOf
<1> HIDE DEF pfn, page, num
<1>4. table \in Nat /\ table % Mod32 = table
  <2>1. table \in Nat
    BY <1>2
  <2> HIDE DEF table
  <2>2. QED
    BY <1>2, <2>1
<1>5. /\ virtqueue.desc_table = table /\ virtqueue.avail_ring = table + num * 16
      /\ virtqueue.used_ring = table + page
  BY <1>3, <1>4 DEF Queue
<1>6. (table + page) % page = 0
  BY <1>2, NextPage
<1>7. table + page \in (table + num * 16 + 6 + num * 2)
                         ..(table + num * 16 + 6 + num * 2 + page - 1)
  <2> HIDE DEF table
  <2>1. QED
    BY <1>2, <1>4
<1>8. QED
  BY <1>5, <1>6, <1>7 DEF pfn, page, num

(* In whatever order the driver stores its four registers, for every page, *)
(* page size and queue size it may choose and however often it begins      *)
(* again, the device finds the three parts of the queue where it put them. *)
THEOREM QueueFound == FullSpec => []QueueWhereDriverPut
<1>1. FullInit => RegistersInv
  BY RegistersInit DEF FullInit
<1>2. RegistersInv /\ [FullNext]_<<vars, mmio>> => RegistersInv'
  BY RegistersStep
<1>3. QED
  BY <1>1, <1>2, StoredQueueIsWanted, PTL DEF FullSpec
=============================================================================
