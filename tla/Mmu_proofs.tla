------------------------------ MODULE Mmu_proofs ------------------------------
(***************************************************************************)
(* Every address of the process that is switched in, and every kernel      *)
(* address, translates to what the kernel mapped it to, for every size of  *)
(* the tables, every pool of frames and any number of processes.           *)
(*                                                                         *)
(* The argument: the tables are a forest.  A frame in use is the table of  *)
(* one space, at one level, for one prefix of the indices, and a free      *)
(* frame has no valid entry.  So a store to an entry is seen by the        *)
(* addresses that lead through it and by no other, and a frame that comes  *)
(* back to the pool was in nobody else's way.                              *)
(*                                                                         *)
(* The forest is stated of a memory m, the first tables rt, the levels lv  *)
(* they are at, the free frames fr and the mapping sp, so that the lemmas  *)
(* are about one memory and the memory after a store.                      *)
(***************************************************************************)
EXTENDS Mmu, TLAPS

(* The table below a table.                                                *)
Down(m, base, va, k) ==
    IF /\ base # NoFrame
       /\ m[base][IndexAt(va, k)].valid /\ m[base][IndexAt(va, k)].table
    THEN m[base][IndexAt(va, k)].frame ELSE NoFrame

(* The table at level k in the tree that begins with r at level st.        *)
Tab(m, r, st, va, k) ==
    LET at2 == IF st = 1 THEN Down(m, r, va, 1) ELSE r
        at3 == IF st <= 2 THEN Down(m, at2, va, 2) ELSE r
    IN  IF k < st THEN NoFrame
        ELSE IF k = 1 THEN r ELSE IF k = 2 THEN at2 ELSE at3

(* What the entry e, at level k, maps va to, if it leads to no table.      *)
Mapped(e, va, k) ==
    IF ~e.valid THEN Fault
    ELSE IF k = 3 THEN e.frame
    ELSE IF k = 2 THEN L2Block(va, e.frame) ELSE L1Block(va, e.frame)

(* Where the walk ends.                                                    *)
Walk3(m, base, va) == Mapped(m[base][va.i3], va, 3)

Walk2(m, base, va) ==
    LET e == m[base][va.i2]
    IN  IF e.valid /\ e.table THEN Walk3(m, e.frame, va) ELSE Mapped(e, va, 2)

Walk1(m, base, va) ==
    LET e == m[base][va.i1]
    IN  IF e.valid /\ e.table THEN Walk2(m, e.frame, va) ELSE Mapped(e, va, 1)

Walk(m, r, st, va) ==
    IF r = NoFrame THEN Fault
    ELSE IF st = 1 THEN Walk1(m, r, va)
    ELSE IF st = 2 THEN Walk2(m, r, va) ELSE Walk3(m, r, va)

Addresses(s, st) ==
    {va \in VA : /\ va.hi = (s = Kernel)
                 /\ st > 1 => va.i1 = 0
                 /\ st > 2 => va.i2 = 0}

Agree(a, b, k) == \A j \in 1..k : IndexAt(a, j) = IndexAt(b, j)

-----------------------------------------------------------------------------
Typed(m, rt, lv, fr) ==
    /\ m \in [Pool -> [Index -> Entry]]
    /\ rt \in [Spaces -> Pool \cup {NoFrame}]
    /\ lv \in [Spaces -> Levels]
    /\ fr \subseteq Pool

FreeIsEmpty(m, fr) == \A f \in fr, i \in Index : ~m[f][i].valid

(* No table is free, nor anything but a frame of the pool.                 *)
Owned(m, rt, lv, fr) ==
    \A s \in Spaces : \A va \in Addresses(s, lv[s]), k \in Levels :
        Tab(m, rt[s], lv[s], va, k) \in (Pool \ fr) \cup {NoFrame}

(* A frame is a table at one place.                                        *)
Apart(m, rt, lv) ==
    \A s, q \in Spaces :
        \A a \in Addresses(s, lv[s]), b \in Addresses(q, lv[q]), k, j \in Levels :
            (/\ Tab(m, rt[s], lv[s], a, k) # NoFrame
             /\ Tab(m, rt[s], lv[s], a, k) = Tab(m, rt[q], lv[q], b, j))
            => (s = q /\ k = j /\ Agree(a, b, k - 1))

(* The mapping the kernel wants is that of its tables.                     *)
Knows(m, rt, lv, sp) ==
    /\ sp = [s \in Spaces |-> [va \in Addresses(s, lv[s]) |-> sp[s][va]]]
    /\ \A s \in Spaces : \A va \in Addresses(s, lv[s]) :
           sp[s][va] = Walk(m, rt[s], lv[s], va)

Forest(m, rt, lv, fr, sp) ==
    /\ Typed(m, rt, lv, fr)
    /\ FreeIsEmpty(m, fr)
    /\ Owned(m, rt, lv, fr)
    /\ Apart(m, rt, lv)
    /\ Knows(m, rt, lv, sp)

Level == [s \in Spaces |-> LevelOf(s)]

RegistersInv ==
    /\ t0 \in UserSizes /\ t1 \in KernelSizes
    /\ ttbr0_el1 \in Pool /\ ttbr1_el1 \in Pool /\ root[Kernel] = ttbr1_el1
    /\ enabled \in BOOLEAN

MmuInv == RegistersInv /\ Forest(mem, root, Level, free, space)

-----------------------------------------------------------------------------
(* Addresses and their indices.                                            *)
LEMMA Indices ==
    ASSUME NEW va \in VA
    PROVE  /\ IndexAt(va, 1) = va.i1 /\ IndexAt(va, 2) = va.i2 /\ IndexAt(va, 3) = va.i3
           /\ \A k \in Levels : IndexAt(va, k) \in Index
<1>1. IndexAt(va, 1) = va.i1 /\ IndexAt(va, 2) = va.i2 /\ IndexAt(va, 3) = va.i3
  BY DEF IndexAt
<1>2. va.i1 \in Index /\ va.i2 \in Index /\ va.i3 \in Index
  BY DEF VA
<1>3. QED
  BY <1>1, <1>2 DEF Levels

LEMMA SameAddress ==
    ASSUME NEW s \in Spaces, NEW st \in Levels, NEW a \in Addresses(s, st),
           NEW b \in Addresses(s, st), Agree(a, b, 3)
    PROVE  a = b
<1>1. a \in VA /\ b \in VA /\ a.hi = b.hi
  BY Zenon DEF Addresses
<1>2. a.i1 = b.i1 /\ a.i2 = b.i2 /\ a.i3 = b.i3
  <2>1. IndexAt(a, 1) = IndexAt(b, 1) /\ IndexAt(a, 2) = IndexAt(b, 2)
        /\ IndexAt(a, 3) = IndexAt(b, 3)
    BY DEF Agree
  <2>2. QED
    BY <1>1, <2>1, Indices
<1>3. QED
  BY <1>1, <1>2 DEF VA

-----------------------------------------------------------------------------
(* The tables of an address, level by level.                               *)
LEMMA TabSteps ==
    ASSUME NEW m, NEW r, NEW st \in Levels, NEW va
    PROVE  /\ \A k \in Levels : k < st => Tab(m, r, st, va, k) = NoFrame
           /\ Tab(m, r, st, va, st) = r
           /\ st < 2 => Tab(m, r, st, va, 2) = Down(m, Tab(m, r, st, va, 1), va, 1)
           /\ st < 3 => Tab(m, r, st, va, 3) = Down(m, Tab(m, r, st, va, 2), va, 2)
<1>1. CASE st = 1
  BY <1>1 DEF Tab, Levels
<1>2. CASE st = 2
  BY <1>2 DEF Tab, Levels
<1>3. CASE st = 3
  BY <1>3 DEF Tab, Levels
<1>4. QED
  BY <1>1, <1>2, <1>3 DEF Levels

LEMMA NoTree ==
    ASSUME NEW m, NEW st \in Levels, NEW va, NEW k \in Levels
    PROVE  Tab(m, NoFrame, st, va, k) = NoFrame
  BY DEF Tab, Down

(* The table at a level does not depend on the indices from there on.      *)
LEMMA SamePrefix ==
    ASSUME NEW m, NEW r, NEW st \in Levels, NEW a, NEW b, NEW k \in Levels,
           Agree(a, b, k - 1)
    PROVE  Tab(m, r, st, a, k) = Tab(m, r, st, b, k)
<1>1. k > 1 => IndexAt(a, 1) = IndexAt(b, 1)
  BY DEF Agree, Levels
<1>2. k > 2 => IndexAt(a, 2) = IndexAt(b, 2)
  BY DEF Agree, Levels
<1>3. k = 1 \/ k = 2 \/ k = 3
  BY DEF Levels
<1>4. k > 1 => \A base : Down(m, base, a, 1) = Down(m, base, b, 1)
  BY <1>1 DEF Down
<1>5. k > 2 => \A base : Down(m, base, a, 2) = Down(m, base, b, 2)
  BY <1>2 DEF Down
<1>6. QED
  BY <1>3, <1>4, <1>5 DEF Tab

(* A memory with the same entries on the way has the same tables there.    *)
SameEntries(m, n, r, st, va, k) ==
    \A j \in 1..k : Tab(m, r, st, va, j) # NoFrame =>
        n[Tab(m, r, st, va, j)][IndexAt(va, j)] = m[Tab(m, r, st, va, j)][IndexAt(va, j)]

LEMMA SameWay ==
    ASSUME NEW m, NEW n, NEW r, NEW st \in Levels, NEW va, NEW k \in Levels,
           SameEntries(m, n, r, st, va, k - 1)
    PROVE  \A j \in Levels : j <= k => Tab(n, r, st, va, j) = Tab(m, r, st, va, j)
<1> DEFINE t(j) == Tab(m, r, st, va, j)
           u(j) == Tab(n, r, st, va, j)
<1>1. \A j \in 1..(k - 1) : t(j) # NoFrame => Down(n, t(j), va, j) = Down(m, t(j), va, j)
  BY DEF Down, SameEntries
<1>2. \A j \in 1..(k - 1) : t(j) = NoFrame => Down(n, t(j), va, j) = Down(m, t(j), va, j)
  BY DEF Down
<1>3. \A j \in 1..(k - 1) : Down(n, t(j), va, j) = Down(m, t(j), va, j)
  BY <1>1, <1>2
<1>4. u(1) = t(1)
  BY DEF Tab
<1>5. k > 1 => u(2) = t(2)
  <2>1. CASE st = 1
    <3>1. u(2) = Down(n, u(1), va, 1) /\ t(2) = Down(m, t(1), va, 1)
      BY <2>1, TabSteps
    <3>2. QED
      BY <1>3, <1>4, <3>1 DEF Levels
  <2>2. CASE st # 1
    BY <2>2 DEF Tab
  <2>3. QED
    BY <2>1, <2>2
<1>6. k > 2 => u(3) = t(3)
  <2>1. CASE st # 3
    <3>1. st < 3
      BY <2>1 DEF Levels
    <3>2. u(3) = Down(n, u(2), va, 2) /\ t(3) = Down(m, t(2), va, 2)
      BY <3>1, TabSteps
    <3>3. QED
      BY <1>3, <1>5, <3>2 DEF Levels
  <2>2. CASE st = 3
    BY <2>2 DEF Tab
  <2>3. QED
    BY <2>1, <2>2
<1>7. QED
  BY <1>4, <1>5, <1>6 DEF Levels

-----------------------------------------------------------------------------
(* The walk of mmu.cc passes the tables of the address.                    *)
LEMMA Passed ==
    ASSUME NEW m, NEW base, NEW va, NEW k, Down(m, base, va, k) # NoFrame
    PROVE  /\ base # NoFrame
           /\ m[base][IndexAt(va, k)].valid /\ m[base][IndexAt(va, k)].table
           /\ m[base][IndexAt(va, k)].frame = Down(m, base, va, k)
  BY DEF Down

(* It ends at the first entry that leads to no table.                      *)
LEMMA WalkEnds ==
    ASSUME NEW m, NEW r, NEW st \in Levels, NEW va \in VA, NEW k \in Levels, NEW t,
           t = Tab(m, r, st, va, k), t # NoFrame,
           k = 3 \/ ~(m[t][IndexAt(va, k)].valid /\ m[t][IndexAt(va, k)].table)
    PROVE  Walk(m, r, st, va) = Mapped(m[t][IndexAt(va, k)], va, k)
<1> DEFINE t1_ == Tab(m, r, st, va, 1)
           t2_ == Tab(m, r, st, va, 2)
           t3_ == Tab(m, r, st, va, 3)
<1>1. k >= st
  BY TabSteps DEF Levels
<1>2. /\ st = 1 => t1_ = r /\ t2_ = Down(m, r, va, 1) /\ t3_ = Down(m, t2_, va, 2)
      /\ st = 2 => t2_ = r /\ t3_ = Down(m, r, va, 2)
      /\ st = 3 => t3_ = r
  BY TabSteps DEF Levels
<1>3. IndexAt(va, 1) = va.i1 /\ IndexAt(va, 2) = va.i2 /\ IndexAt(va, 3) = va.i3
  BY Indices
<1>4. r # NoFrame
  BY NoTree
<1> HIDE DEF t1_, t2_, t3_
<1>5. CASE k = 3
  <2>1. t = t3_
    BY <1>5 DEF t3_
  <2>2. Walk3(m, t, va) = Mapped(m[t][IndexAt(va, k)], va, k)
    BY <1>3, <1>5 DEF Walk3
  <2>3. CASE st = 3
    BY <1>2, <1>4, <2>1, <2>2, <2>3 DEF Walk
  <2>4. ASSUME st # 3 PROVE t2_ # NoFrame /\ Walk2(m, t2_, va) = Walk3(m, t, va)
    <3>1. t3_ = Down(m, t2_, va, 2)
      BY <1>2, <2>4 DEF Levels
    <3>2. QED
      BY <1>3, <2>1, <3>1, Passed DEF Walk2
  <2>5. CASE st = 2
    BY <1>2, <1>4, <2>2, <2>4, <2>5 DEF Walk
  <2>6. CASE st = 1
    <3>1. Walk1(m, r, va) = Walk2(m, t2_, va)
      BY <1>2, <1>3, <2>4, <2>6, Passed DEF Walk1
    <3>2. QED
      BY <1>4, <2>2, <2>4, <2>6, <3>1 DEF Walk
  <2>7. QED
    BY <2>3, <2>5, <2>6 DEF Levels
<1>6. CASE k = 2
  <2>1. t = t2_
    BY <1>6 DEF t2_
  <2>2. Walk2(m, t, va) = Mapped(m[t][IndexAt(va, k)], va, k)
    BY <1>3, <1>6 DEF Walk2
  <2>3. CASE st = 2
    BY <1>2, <1>4, <2>1, <2>2, <2>3 DEF Walk
  <2>4. CASE st = 1
    <3>1. Walk1(m, r, va) = Walk2(m, t, va)
      BY <1>2, <1>3, <2>1, <2>4, Passed DEF Walk1
    <3>2. QED
      BY <1>4, <2>2, <2>4, <3>1 DEF Walk
  <2>5. QED
    BY <1>1, <1>6, <2>3, <2>4 DEF Levels
<1>7. CASE k = 1
  <2>1. st = 1 /\ t = r
    BY <1>1, <1>2, <1>7 DEF t1_, Levels
  <2>2. QED
    BY <1>3, <1>4, <1>7, <2>1 DEF Walk, Walk1
<1>8. QED
  BY <1>5, <1>6, <1>7 DEF Levels

(* A frame of an entry is a frame.                                         *)
LEMMA EntryFrame ==
    ASSUME NEW m \in [Pool -> [Index -> Entry]], NEW f \in Pool, NEW i \in Index
    PROVE  m[f][i] \in Entry /\ m[f][i].frame # NoFrame
<1>1. m[f][i] \in Entry
  OBVIOUS
<1>2. QED
  BY <1>1, MmuAssumption DEF Entry

InPool(m, r, st, va) == \A k \in Levels : Tab(m, r, st, va, k) \in Pool \cup {NoFrame}

LEMMA WalkStops ==
    ASSUME NEW m \in [Pool -> [Index -> Entry]], NEW r, r # NoFrame,
           NEW st \in Levels, NEW va \in VA, InPool(m, r, st, va)
    PROVE  \E k \in Levels :
               /\ Tab(m, r, st, va, k) # NoFrame
               /\ k = 3 \/ ~(/\ m[Tab(m, r, st, va, k)][IndexAt(va, k)].valid
                             /\ m[Tab(m, r, st, va, k)][IndexAt(va, k)].table)
<1> DEFINE t(k) == Tab(m, r, st, va, k)
           leads(k) == m[t(k)][IndexAt(va, k)].valid /\ m[t(k)][IndexAt(va, k)].table
<1>1. SUFFICES ASSUME \A k \in Levels : t(k) # NoFrame => k # 3 /\ leads(k) PROVE FALSE
  OBVIOUS
<1>2. \A k \in Levels : t(k) # NoFrame => Down(m, t(k), va, k) # NoFrame
  <2>1. SUFFICES ASSUME NEW k \in Levels, t(k) # NoFrame PROVE Down(m, t(k), va, k) # NoFrame
    OBVIOUS
  <2>2. t(k) \in Pool /\ leads(k) /\ IndexAt(va, k) \in Index
    BY <1>1, <2>1, Indices DEF InPool
  <2>3. QED
    BY <2>1, <2>2, EntryFrame DEF Down
<1>3. /\ t(st) = r
      /\ st < 2 => t(2) = Down(m, t(1), va, 1)
      /\ st < 3 => t(3) = Down(m, t(2), va, 2)
  BY TabSteps
<1>4. t(3) = NoFrame
  BY <1>1 DEF Levels
<1> HIDE DEF t
<1>5. t(2) = NoFrame
  BY <1>2, <1>3, <1>4 DEF Levels
<1>6. QED
  BY <1>2, <1>3, <1>4, <1>5 DEF Levels

(* A walk sees the entries on its way and no other.                        *)
LEMMA SameWalk ==
    ASSUME NEW m \in [Pool -> [Index -> Entry]], NEW n, NEW r, NEW st \in Levels, NEW va \in VA,
           InPool(m, r, st, va), SameEntries(m, n, r, st, va, 3)
    PROVE  /\ \A k \in Levels : Tab(n, r, st, va, k) = Tab(m, r, st, va, k)
           /\ Walk(n, r, st, va) = Walk(m, r, st, va)
<1>1. \A k \in Levels : Tab(n, r, st, va, k) = Tab(m, r, st, va, k)
  <2>1. 3 \in Levels /\ \A k \in Levels : k <= 3
    BY DEF Levels
  <2>2. SameEntries(m, n, r, st, va, 3 - 1)
    BY DEF SameEntries
  <2>3. \A k \in Levels : k <= 3 => Tab(n, r, st, va, k) = Tab(m, r, st, va, k)
    <3>1. PICK h \in Levels : h = 3
      BY <2>1
    <3>2. SameEntries(m, n, r, st, va, h - 1)
      BY <2>2, <3>1
    <3>3. \A j \in Levels : j <= h => Tab(n, r, st, va, j) = Tab(m, r, st, va, j)
      BY <3>2, SameWay
    <3>4. QED
      BY <3>1, <3>3
  <2>4. QED
    BY <2>1, <2>3
<1>2. ASSUME r = NoFrame PROVE Walk(n, r, st, va) = Walk(m, r, st, va)
  BY <1>2 DEF Walk
<1>3. ASSUME r # NoFrame PROVE Walk(n, r, st, va) = Walk(m, r, st, va)
  <2>1. PICK k, t :
            /\ k \in Levels
            /\ t = Tab(m, r, st, va, k) /\ t # NoFrame
            /\ k = 3 \/ ~(m[t][IndexAt(va, k)].valid /\ m[t][IndexAt(va, k)].table)
    BY <1>3, WalkStops
  <2>2. n[t][IndexAt(va, k)] = m[t][IndexAt(va, k)] /\ t = Tab(n, r, st, va, k)
    BY <1>1, <2>1 DEF SameEntries, Levels
  <2>3. Walk(m, r, st, va) = Mapped(m[t][IndexAt(va, k)], va, k)
    BY <2>1, WalkEnds
  <2>4. Walk(n, r, st, va) = Mapped(n[t][IndexAt(va, k)], va, k)
    BY <2>1, <2>2, WalkEnds
  <2>5. QED
    BY <2>2, <2>3, <2>4
<1>4. QED
  BY <1>1, <1>2, <1>3

-----------------------------------------------------------------------------
(* A store to an entry of a table in use.                                  *)
Stores(m, n, f, x, e) == n = [m EXCEPT ![f][x] = e]

LEMMA Stored ==
    ASSUME NEW m \in [Pool -> [Index -> Entry]], NEW f \in Pool, NEW x \in Index, NEW e \in Entry,
           NEW n, Stores(m, n, f, x, e)
    PROVE  /\ n \in [Pool -> [Index -> Entry]]
           /\ n[f][x] = e
           /\ \A g \in Pool, y \in Index : (g # f \/ y # x) => n[g][y] = m[g][y]
           /\ \A g \in Pool : g # f => n[g] = m[g]
<1>1. m[f] \in [Index -> Entry] /\ [m[f] EXCEPT ![x] = e] \in [Index -> Entry]
  OBVIOUS
<1>2. n = [m EXCEPT ![f] = [m[f] EXCEPT ![x] = e]]
  BY DEF Stores
<1>3. n[f] = [m[f] EXCEPT ![x] = e] /\ \A g \in Pool : g # f => n[g] = m[g]
  BY <1>2
<1>4. \A g \in Pool : n[g] \in [Index -> Entry]
  BY <1>1, <1>3
<1>5. n \in [Pool -> [Index -> Entry]]
  BY <1>2, <1>4
<1>6. n[f][x] = e /\ \A y \in Index : y # x => n[f][y] = m[f][y]
  BY <1>1, <1>3
<1>7. QED
  BY <1>3, <1>5, <1>6

(* e goes to the entry of address a at level k, in its table f.            *)
StoreAt(m, rt, lv, fr, s, a, k, f, e, n) ==
    /\ Typed(m, rt, lv, fr) /\ Owned(m, rt, lv, fr) /\ Apart(m, rt, lv)
    /\ s \in Spaces /\ a \in Addresses(s, lv[s]) /\ k \in Levels
    /\ f = Tab(m, rt[s], lv[s], a, k) /\ f # NoFrame
    /\ e \in Entry /\ Stores(m, n, f, IndexAt(a, k), e)

LEMMA StoreFacts ==
    ASSUME NEW m, NEW rt, NEW lv, NEW fr, NEW s, NEW a, NEW k, NEW f, NEW e, NEW n,
           StoreAt(m, rt, lv, fr, s, a, k, f, e, n)
    PROVE  /\ Owned(m, rt, lv, fr) /\ Apart(m, rt, lv)
           /\ f = Tab(m, rt[s], lv[s], a, k) /\ f # NoFrame /\ a \in Addresses(s, lv[s])
           /\ m \in [Pool -> [Index -> Entry]] /\ n \in [Pool -> [Index -> Entry]]
           /\ lv \in [Spaces -> Levels] /\ fr \subseteq Pool
           /\ s \in Spaces /\ a \in VA /\ k \in Levels /\ f \in Pool \ fr /\ e \in Entry
           /\ IndexAt(a, k) \in Index
           /\ n[f][IndexAt(a, k)] = e
           /\ \A g \in Pool, y \in Index :
                  (g # f \/ y # IndexAt(a, k)) => n[g][y] = m[g][y]
           /\ \A g \in Pool : g # f => n[g] = m[g]
<1>1. /\ m \in [Pool -> [Index -> Entry]] /\ lv \in [Spaces -> Levels] /\ fr \subseteq Pool
      /\ s \in Spaces /\ a \in VA /\ k \in Levels /\ f \in Pool \ fr /\ e \in Entry
  BY DEF StoreAt, Typed, Owned, Addresses
<1>2. IndexAt(a, k) \in Index
  BY <1>1, Indices
<1>3. PICK x \in Index : x = IndexAt(a, k)
  BY <1>2
<1>4. Stores(m, n, f, x, e) /\ f \in Pool
  BY <1>1, <1>3 DEF StoreAt
<1>5. /\ Owned(m, rt, lv, fr) /\ Apart(m, rt, lv)
      /\ f = Tab(m, rt[s], lv[s], a, k) /\ f # NoFrame /\ a \in Addresses(s, lv[s])
  BY DEF StoreAt
<1>6. /\ n \in [Pool -> [Index -> Entry]] /\ n[f][x] = e
      /\ \A g \in Pool, y \in Index : (g # f \/ y # x) => n[g][y] = m[g][y]
      /\ \A g \in Pool : g # f => n[g] = m[g]
  BY <1>1, <1>4, Stored
<1>7. QED
  BY <1>1, <1>3, <1>5, <1>6

(* A table has one place.                                                  *)
LEMMA OnePlace ==
    ASSUME NEW m, NEW rt, NEW lv, Apart(m, rt, lv), NEW s \in Spaces, NEW q \in Spaces
    PROVE  \A a \in Addresses(s, lv[s]), b \in Addresses(q, lv[q]), k, j \in Levels :
               (/\ Tab(m, rt[s], lv[s], a, k) # NoFrame
                /\ Tab(m, rt[s], lv[s], a, k) = Tab(m, rt[q], lv[q], b, j))
               => (s = q /\ k = j /\ Agree(a, b, k - 1))
  BY DEF Apart

(* The addresses that lead through the entry.                              *)
LEMMA SeenBehind ==
    ASSUME NEW m, NEW rt, NEW lv, NEW fr, NEW s, NEW a, NEW k, NEW f, NEW e, NEW n,
           StoreAt(m, rt, lv, fr, s, a, k, f, e, n),
           NEW b \in Addresses(s, lv[s]), Agree(b, a, k)
    PROVE  /\ \A j \in Levels : j <= k =>
                  Tab(n, rt[s], lv[s], b, j) = Tab(m, rt[s], lv[s], b, j)
           /\ Tab(m, rt[s], lv[s], b, k) = f
           /\ n[f][IndexAt(b, k)] = e
<1>1. PICK st, r : st = lv[s] /\ r = rt[s]
  OBVIOUS
<1>2. /\ st \in Levels /\ k \in Levels /\ b \in VA /\ a \in Addresses(s, lv[s]) /\ s \in Spaces
      /\ f = Tab(m, r, st, a, k) /\ f # NoFrame
      /\ Owned(m, rt, lv, fr) /\ Apart(m, rt, lv)
  BY <1>1, StoreFacts DEF Addresses
<1>3. k \in 1..k /\ \A j \in 1..(k - 1) : j \in 1..k /\ j \in Levels /\ j # k
  BY <1>2 DEF Levels
<1>4. Agree(b, a, k - 1) /\ IndexAt(b, k) = IndexAt(a, k)
  BY <1>3 DEF Agree
<1>5. Tab(m, r, st, b, k) = f
  BY <1>2, <1>4, SamePrefix
<1>6. /\ \A g \in Pool : g # f => n[g] = m[g]
      /\ n[f][IndexAt(b, k)] = e
  BY <1>4, StoreFacts
<1>7. SameEntries(m, n, r, st, b, k - 1)
  <2>1. SUFFICES ASSUME NEW j \in 1..(k - 1), Tab(m, r, st, b, j) # NoFrame
                 PROVE  n[Tab(m, r, st, b, j)] = m[Tab(m, r, st, b, j)]
    BY DEF SameEntries
  <2>2. j \in Levels /\ j # k
    BY <1>3
  <2>3. Tab(m, r, st, b, j) \in Pool
    BY <1>1, <1>2, <2>1, <2>2 DEF Owned
  <2>4. Tab(m, r, st, b, j) # f
    <3>1. SUFFICES ASSUME Tab(m, rt[s], lv[s], b, j) = f PROVE FALSE
      BY <1>1
    <3>2. Tab(m, rt[s], lv[s], b, j) = Tab(m, rt[s], lv[s], a, k)
          /\ Tab(m, rt[s], lv[s], b, j) # NoFrame
      BY <1>1, <1>2, <3>1
    <3>3. \A c, d \in Addresses(s, lv[s]), h, x \in Levels :
              (/\ Tab(m, rt[s], lv[s], c, h) # NoFrame
               /\ Tab(m, rt[s], lv[s], c, h) = Tab(m, rt[s], lv[s], d, x))
              => h = x
      BY <1>2, OnePlace
    <3>4. QED
      BY <1>2, <2>2, <3>2, <3>3
  <2>5. QED
    BY <1>6, <2>3, <2>4
<1>8. \A j \in Levels : j <= k => Tab(n, r, st, b, j) = Tab(m, r, st, b, j)
  BY <1>2, <1>7, SameWay
<1>9. QED
  BY <1>1, <1>5, <1>6, <1>8

(* Every other address of any space has the tables and the mapping it had. *)
LEMMA UnseenElsewhere ==
    ASSUME NEW m, NEW rt, NEW lv, NEW fr, NEW s, NEW a, NEW k, NEW f, NEW e, NEW n,
           StoreAt(m, rt, lv, fr, s, a, k, f, e, n),
           NEW q \in Spaces, NEW b \in Addresses(q, lv[q]), ~(q = s /\ Agree(b, a, k))
    PROVE  /\ \A j \in Levels : Tab(n, rt[q], lv[q], b, j) = Tab(m, rt[q], lv[q], b, j)
           /\ Walk(n, rt[q], lv[q], b) = Walk(m, rt[q], lv[q], b)
<1>1. PICK st, r : st = lv[q] /\ r = rt[q]
  OBVIOUS
<1>2. /\ m \in [Pool -> [Index -> Entry]] /\ st \in Levels /\ b \in VA /\ k \in Levels
      /\ s \in Spaces /\ a \in Addresses(s, lv[s])
      /\ f = Tab(m, rt[s], lv[s], a, k) /\ f # NoFrame
      /\ Owned(m, rt, lv, fr) /\ Apart(m, rt, lv)
  BY <1>1, StoreFacts DEF Addresses
<1>3. InPool(m, r, st, b)
  BY <1>1, <1>2 DEF InPool, Owned
<1>4. SameEntries(m, n, r, st, b, 3)
  <2>1. SUFFICES ASSUME NEW j \in Levels, NEW g, g = Tab(m, r, st, b, j), g # NoFrame
                 PROVE  n[g][IndexAt(b, j)] = m[g][IndexAt(b, j)]
    BY DEF SameEntries, Levels
  <2>2. g \in Pool /\ IndexAt(b, j) \in Index
    BY <1>2, <1>3, <2>1, Indices DEF InPool
  <2>3. g # f \/ IndexAt(b, j) # IndexAt(a, k)
    <3>1. SUFFICES ASSUME g = f, IndexAt(b, j) = IndexAt(a, k) PROVE FALSE
      OBVIOUS
    <3>2. q = s /\ j = k /\ Agree(b, a, k - 1)
      <4>1. Tab(m, rt[q], lv[q], b, j) = Tab(m, rt[s], lv[s], a, k)
            /\ Tab(m, rt[q], lv[q], b, j) # NoFrame
        BY <1>1, <1>2, <2>1, <3>1
      <4>2. \A c \in Addresses(q, lv[q]), d \in Addresses(s, lv[s]), h, x \in Levels :
                (/\ Tab(m, rt[q], lv[q], c, h) # NoFrame
                 /\ Tab(m, rt[q], lv[q], c, h) = Tab(m, rt[s], lv[s], d, x))
                => (q = s /\ h = x /\ Agree(c, d, h - 1))
        BY <1>2, OnePlace
      <4>3. QED
        BY <1>2, <4>1, <4>2
    <3>3. \A h \in 1..k : h \in 1..(k - 1) \/ h = k
      BY <1>2 DEF Levels
    <3>4. Agree(b, a, k)
      BY <3>1, <3>2, <3>3 DEF Agree
    <3>5. QED
      BY <3>2, <3>4
  <2>4. \A h \in Pool, y \in Index :
            (h # f \/ y # IndexAt(a, k)) => n[h][y] = m[h][y]
    BY StoreFacts
  <2>5. QED
    BY <2>2, <2>3, <2>4
<1>5. /\ \A j \in Levels : Tab(n, r, st, b, j) = Tab(m, r, st, b, j)
      /\ Walk(n, r, st, b) = Walk(m, r, st, b)
  BY <1>2, <1>3, <1>4, SameWalk
<1>6. QED
  BY <1>1, <1>5

(* A store of an entry that leads to no table, over one that led to none,  *)
(* leaves the tables of every address as they are.                         *)
LEMMA SameTables ==
    ASSUME NEW m, NEW rt, NEW lv, NEW fr, NEW s, NEW a, NEW k, NEW f, NEW e, NEW n,
           StoreAt(m, rt, lv, fr, s, a, k, f, e, n),
           k = 3 \/ (~(e.valid /\ e.table) /\ ~m[f][IndexAt(a, k)].valid),
           NEW q \in Spaces, NEW b \in Addresses(q, lv[q]), NEW j \in Levels
    PROVE  Tab(n, rt[q], lv[q], b, j) = Tab(m, rt[q], lv[q], b, j)
<1>1. CASE ~(q = s /\ Agree(b, a, k))
  BY <1>1, UnseenElsewhere
<1>2. CASE q = s /\ Agree(b, a, k)
  <2>1. PICK st, r : st = lv[s] /\ r = rt[s]
    OBVIOUS
  <2> DEFINE t(h) == Tab(m, r, st, b, h)
             u(h) == Tab(n, r, st, b, h)
  <2>2. /\ \A h \in Levels : h <= k => u(h) = t(h)
        /\ t(k) = f /\ n[f][IndexAt(b, k)] = e
    BY <1>2, <2>1, SeenBehind
  <2>3. st \in Levels /\ k \in Levels /\ f # NoFrame
    BY <2>1, StoreFacts
  <2>4. u(k) = f /\ k >= st
    <3>1. u(k) = f
      BY <2>2, <2>3 DEF Levels
    <3>2. QED
      BY <2>3, <3>1, TabSteps DEF Levels
  <2>5. k < 3 => Down(m, f, b, k) = NoFrame /\ Down(n, f, b, k) = NoFrame
    <3>1. IndexAt(b, k) = IndexAt(a, k)
      BY <1>2, <2>3 DEF Agree, Levels
    <3>2. QED
      BY <2>2, <3>1 DEF Down
  <2>6. /\ st < 2 => t(2) = Down(m, t(1), b, 1) /\ u(2) = Down(n, u(1), b, 1)
        /\ st < 3 => t(3) = Down(m, t(2), b, 2) /\ u(3) = Down(n, u(2), b, 2)
    BY <2>3, TabSteps
  <2>7. Down(m, NoFrame, b, 2) = NoFrame /\ Down(n, NoFrame, b, 2) = NoFrame
    BY DEF Down
  <2>8. u(j) = t(j)
    <3> HIDE DEF t, u
    <3>1. k = 1 => t(2) = NoFrame /\ u(2) = NoFrame
      BY <2>2, <2>3, <2>4, <2>5, <2>6 DEF Levels
    <3>2. k < 3 => t(3) = NoFrame /\ u(3) = NoFrame
      BY <2>2, <2>3, <2>4, <2>5, <2>6, <2>7, <3>1 DEF Levels
    <3>3. QED
      BY <2>2, <2>3, <3>1, <3>2 DEF Levels
  <2>9. QED
    BY <1>2, <2>1, <2>8
<1>3. QED
  BY <1>1, <1>2

-----------------------------------------------------------------------------
(* The forest after a store of an entry that leads to no table: the        *)
(* addresses behind it get the mapping of the entry.                       *)
Remapped(lv, s, a, k, e, sp, np) ==
    /\ np = [q \in Spaces |-> [b \in Addresses(q, lv[q]) |-> np[q][b]]]
    /\ \A q \in Spaces : \A b \in Addresses(q, lv[q]) :
           np[q][b] = IF q = s /\ Agree(b, a, k) THEN Mapped(e, b, k) ELSE sp[q][b]

LEMMA MappingForest ==
    ASSUME NEW m, NEW rt, NEW lv, NEW fr, NEW s, NEW a, NEW k, NEW f, NEW e, NEW n,
           StoreAt(m, rt, lv, fr, s, a, k, f, e, n),
           k = 3 \/ (~(e.valid /\ e.table) /\ ~m[f][IndexAt(a, k)].valid),
           NEW sp, Forest(m, rt, lv, fr, sp), NEW np, Remapped(lv, s, a, k, e, sp, np)
    PROVE  Forest(n, rt, lv, fr, np)
<1>1. /\ Typed(m, rt, lv, fr) /\ FreeIsEmpty(m, fr) /\ Owned(m, rt, lv, fr)
      /\ Apart(m, rt, lv) /\ Knows(m, rt, lv, sp)
  BY DEF Forest
<1>2. k \in Levels /\ s \in Spaces /\ lv \in [Spaces -> Levels] /\ f \in Pool \ fr /\ f # NoFrame
  BY StoreFacts
<1>3. n \in [Pool -> [Index -> Entry]] /\ \A g \in Pool : g # f => n[g] = m[g]
  BY StoreFacts
<1>4. ASSUME NEW q \in Spaces, NEW b \in Addresses(q, lv[q]), NEW j \in Levels
      PROVE  Tab(n, rt[q], lv[q], b, j) = Tab(m, rt[q], lv[q], b, j)
  BY SameTables
<1>5. Typed(n, rt, lv, fr)
  BY <1>1, <1>3 DEF Typed
<1>6. FreeIsEmpty(n, fr)
  BY <1>1, <1>2, <1>3 DEF FreeIsEmpty, Typed
<1>7. Owned(n, rt, lv, fr)
  BY <1>1, <1>4 DEF Owned
<1>8. Apart(n, rt, lv)
  BY <1>1, <1>4 DEF Apart
<1>9. ASSUME NEW q \in Spaces, NEW b \in Addresses(q, lv[q])
      PROVE  np[q][b] = Walk(n, rt[q], lv[q], b)
  <2>1. CASE ~(q = s /\ Agree(b, a, k))
    <3>1. Walk(n, rt[q], lv[q], b) = Walk(m, rt[q], lv[q], b)
      BY <2>1, UnseenElsewhere
    <3>2. np[q][b] = sp[q][b]
      BY <2>1 DEF Remapped
    <3>3. QED
      BY <1>1, <3>1, <3>2 DEF Knows
  <2>2. CASE q = s /\ Agree(b, a, k)
    <3>1. Tab(n, rt[s], lv[s], b, k) = f /\ n[f][IndexAt(b, k)] = e
      <4>1. Tab(m, rt[s], lv[s], b, k) = f /\ n[f][IndexAt(b, k)] = e
        BY <2>2, SeenBehind
      <4>2. QED
        BY <1>2, <1>4, <2>2, <4>1
    <3>2. PICK st, r : st \in Levels /\ st = lv[s] /\ r = rt[s]
      BY <1>2
    <3>3. /\ b \in VA /\ f = Tab(n, r, st, b, k)
          /\ k = 3 \/ ~(n[f][IndexAt(b, k)].valid /\ n[f][IndexAt(b, k)].table)
      BY <2>2, <3>1, <3>2 DEF Addresses
    <3>4. Walk(n, r, st, b) = Mapped(n[f][IndexAt(b, k)], b, k)
      BY <1>2, <3>2, <3>3, WalkEnds
    <3>5. np[q][b] = Mapped(e, b, k)
      BY <2>2 DEF Remapped
    <3>6. QED
      BY <2>2, <3>1, <3>2, <3>4, <3>5
  <2>3. QED
    BY <2>1, <2>2
<1>10. Knows(n, rt, lv, np)
  <2>1. np = [q \in Spaces |-> [b \in Addresses(q, lv[q]) |-> np[q][b]]]
    BY DEF Remapped
  <2>2. QED
    BY <1>9, <2>1 DEF Knows
<1>11. QED
  BY <1>5, <1>6, <1>7, <1>8, <1>10 DEF Forest

-----------------------------------------------------------------------------
(* A free frame, as a table, maps nothing and leads nowhere.               *)
LEMMA EmptyTable ==
    ASSUME NEW m, NEW fr, FreeIsEmpty(m, fr), NEW g \in fr, NEW va \in VA, NEW k \in Levels
    PROVE  ~m[g][IndexAt(va, k)].valid /\ Down(m, g, va, k) = NoFrame
<1>1. IndexAt(va, k) \in Index
  BY Indices
<1>2. QED
  BY <1>1 DEF FreeIsEmpty, Down

(* The tables after a store of an entry that leads to a free frame g.      *)
LEMMA TableAdded ==
    ASSUME NEW m, NEW rt, NEW lv, NEW fr, NEW s, NEW a, NEW k, NEW f, NEW e, NEW n,
           StoreAt(m, rt, lv, fr, s, a, k, f, e, n),
           k < 3, ~m[f][IndexAt(a, k)].valid, FreeIsEmpty(m, fr), NEW g \in fr,
           e = [valid |-> TRUE, table |-> TRUE, frame |-> g],
           NEW b \in Addresses(s, lv[s]), Agree(b, a, k)
    PROVE  /\ \A j \in Levels : Tab(n, rt[s], lv[s], b, j) =
                  IF j = k + 1 THEN g ELSE Tab(m, rt[s], lv[s], b, j)
           /\ Tab(m, rt[s], lv[s], b, k) = f
<1>1. PICK st, r : st = lv[s] /\ r = rt[s]
  OBVIOUS
<1> DEFINE t(h) == Tab(m, r, st, b, h)
           u(h) == Tab(n, r, st, b, h)
<1>2. /\ st \in Levels /\ k \in Levels /\ b \in VA /\ f # NoFrame
      /\ f \in Pool \ fr /\ g \in Pool /\ g # NoFrame
  BY <1>1, StoreFacts, MmuAssumption DEF Addresses
<1>3. /\ \A h \in Levels : h <= k => u(h) = t(h)
      /\ t(k) = f /\ n[f][IndexAt(b, k)] = e
  BY <1>1, SeenBehind
<1>4. u(k) = f /\ k >= st
  <2>1. u(k) = f
    BY <1>2, <1>3 DEF Levels
  <2>2. QED
    BY <1>2, <2>1, TabSteps DEF Levels
<1>5. Down(m, f, b, k) = NoFrame /\ Down(n, f, b, k) = g
  <2>1. IndexAt(b, k) = IndexAt(a, k)
    BY <1>2 DEF Agree, Levels
  <2>2. QED
    BY <1>2, <1>3, <2>1 DEF Down
<1>6. \A j \in Levels : Down(n, g, b, j) = NoFrame /\ Down(m, NoFrame, b, j) = NoFrame
  <2>1. n[g] = m[g]
    BY <1>2, StoreFacts
  <2>2. \A j \in Levels : ~m[g][IndexAt(b, j)].valid
    BY <1>2, EmptyTable
  <2>3. QED
    BY <2>1, <2>2 DEF Down
<1>7. /\ st < 2 => t(2) = Down(m, t(1), b, 1) /\ u(2) = Down(n, u(1), b, 1)
      /\ st < 3 => t(3) = Down(m, t(2), b, 2) /\ u(3) = Down(n, u(2), b, 2)
  BY <1>2, TabSteps
<1> HIDE DEF t, u
<1>8. CASE k = 1
  <2>1. st = 1 /\ t(2) = NoFrame /\ u(2) = g
    BY <1>2, <1>3, <1>4, <1>5, <1>7, <1>8 DEF Levels
  <2>2. t(3) = NoFrame /\ u(3) = NoFrame
    BY <1>6, <1>7, <2>1 DEF Levels
  <2>3. \A j \in Levels : u(j) = IF j = k + 1 THEN g ELSE t(j)
    BY <1>3, <1>8, <2>1, <2>2 DEF Levels
  <2>4. QED
    BY <1>1, <1>3, <2>3 DEF t, u
<1>9. CASE k = 2
  <2>1. st < 3 /\ u(3) = g
    BY <1>2, <1>3, <1>4, <1>5, <1>7, <1>9 DEF Levels
  <2>2. \A j \in Levels : u(j) = IF j = k + 1 THEN g ELSE t(j)
    BY <1>3, <1>9, <2>1 DEF Levels
  <2>3. QED
    BY <1>1, <1>3, <2>2 DEF t, u
<1>10. QED
  BY <1>2, <1>8, <1>9 DEF Levels

LEMMA AddedForest ==
    ASSUME NEW m, NEW rt, NEW lv, NEW fr, NEW s, NEW a, NEW k, NEW f, NEW e, NEW n,
           StoreAt(m, rt, lv, fr, s, a, k, f, e, n),
           k < 3, ~m[f][IndexAt(a, k)].valid, NEW g \in fr,
           e = [valid |-> TRUE, table |-> TRUE, frame |-> g],
           NEW sp, Forest(m, rt, lv, fr, sp)
    PROVE  Forest(n, rt, lv, fr \ {g}, sp)
<1>1. /\ Typed(m, rt, lv, fr) /\ FreeIsEmpty(m, fr) /\ Owned(m, rt, lv, fr)
      /\ Apart(m, rt, lv) /\ Knows(m, rt, lv, sp)
  BY DEF Forest
<1>2. /\ k \in Levels /\ s \in Spaces /\ lv \in [Spaces -> Levels] /\ fr \subseteq Pool
      /\ f \in Pool \ fr /\ g \in Pool /\ g # NoFrame
      /\ n \in [Pool -> [Index -> Entry]] /\ \A h \in Pool : h # f => n[h] = m[h]
  BY StoreFacts, MmuAssumption
<1> DEFINE t(q, b, j) == Tab(m, rt[q], lv[q], b, j)
           u(q, b, j) == Tab(n, rt[q], lv[q], b, j)
           new(q, b, j) == q = s /\ Agree(b, a, k) /\ j = k + 1
<1>3. \A q \in Spaces : \A b \in Addresses(q, lv[q]), j \in Levels :
          u(q, b, j) = IF new(q, b, j) THEN g ELSE t(q, b, j)
  <2>1. SUFFICES ASSUME NEW q \in Spaces, NEW b \in Addresses(q, lv[q]), NEW j \in Levels
                 PROVE  u(q, b, j) = IF new(q, b, j) THEN g ELSE t(q, b, j)
    OBVIOUS
  <2>2. CASE q = s /\ Agree(b, a, k)
    BY <1>1, <2>2, TableAdded
  <2>3. CASE ~(q = s /\ Agree(b, a, k))
    BY <2>3, UnseenElsewhere
  <2>4. QED
    BY <2>2, <2>3
<1>4. \A q \in Spaces : \A b \in Addresses(q, lv[q]), j \in Levels :
          t(q, b, j) # g /\ t(q, b, j) \in (Pool \ fr) \cup {NoFrame}
  BY <1>1, <1>2 DEF Owned
<1>5. Typed(n, rt, lv, fr \ {g}) /\ FreeIsEmpty(n, fr \ {g})
  BY <1>1, <1>2 DEF Typed, FreeIsEmpty
<1>6. Owned(n, rt, lv, fr \ {g})
  <2> HIDE DEF new
  <2>1. \A q \in Spaces : \A b \in Addresses(q, lv[q]), j \in Levels :
            u(q, b, j) \in (Pool \ (fr \ {g})) \cup {NoFrame}
    BY <1>2, <1>3, <1>4
  <2>2. QED
    BY <2>1 DEF Owned
<1>7. Apart(n, rt, lv)
  <2>1. SUFFICES ASSUME NEW p \in Spaces, NEW q \in Spaces, NEW c \in Addresses(p, lv[p]),
                        NEW b \in Addresses(q, lv[q]), NEW i \in Levels, NEW j \in Levels,
                        u(p, c, i) # NoFrame, u(p, c, i) = u(q, b, j)
                 PROVE  p = q /\ i = j /\ Agree(c, b, i - 1)
    BY DEF Apart
  <2>2. /\ u(p, c, i) = IF new(p, c, i) THEN g ELSE t(p, c, i)
        /\ u(q, b, j) = IF new(q, b, j) THEN g ELSE t(q, b, j)
        /\ t(p, c, i) # g /\ t(q, b, j) # g
    BY <1>3, <1>4
  <2>3. CASE new(p, c, i)
    <3>1. new(q, b, j)
      BY <2>1, <2>2, <2>3
    <3>2. Agree(c, b, k)
      BY <2>3, <3>1 DEF Agree
    <3>3. i - 1 = k
      BY <1>2, <2>3 DEF Levels
    <3>4. QED
      BY <2>3, <3>1, <3>2, <3>3
  <2>4. CASE ~new(p, c, i)
    <3>1. ~new(q, b, j)
      BY <2>1, <2>2, <2>4
    <3>2. t(p, c, i) # NoFrame /\ t(p, c, i) = t(q, b, j)
      BY <2>1, <2>2, <2>4, <3>1
    <3>3. \A x \in Addresses(p, lv[p]), y \in Addresses(q, lv[q]), h, l \in Levels :
              (t(p, x, h) # NoFrame /\ t(p, x, h) = t(q, y, l))
              => (p = q /\ h = l /\ Agree(x, y, h - 1))
      BY <1>1, OnePlace
    <3> HIDE DEF t
    <3>4. QED
      BY <3>2, <3>3
  <2>5. QED
    BY <2>3, <2>4
<1>8. \A q \in Spaces : \A b \in Addresses(q, lv[q]) : sp[q][b] = Walk(n, rt[q], lv[q], b)
  <2>1. SUFFICES ASSUME NEW q \in Spaces, NEW b \in Addresses(q, lv[q])
                 PROVE  Walk(m, rt[q], lv[q], b) = Walk(n, rt[q], lv[q], b)
    BY <1>1 DEF Knows
  <2>2. CASE q = s /\ Agree(b, a, k)
    <3>1. PICK st, r, j : st = lv[s] /\ r = rt[s] /\ j = k + 1 /\ st \in Levels /\ j \in Levels
      BY <1>2 DEF Levels
    <3>2. Tab(m, r, st, b, k) = f /\ Tab(n, r, st, b, j) = g
      <4>1. Tab(m, rt[s], lv[s], b, k) = f
        BY <1>1, <2>2, TableAdded
      <4>2. u(s, b, j) = g
        BY <1>2, <1>3, <2>2, <3>1
      <4>3. QED
        BY <3>1, <4>1, <4>2
    <3>3. /\ b \in VA /\ ~m[f][IndexAt(b, k)].valid /\ f # NoFrame
          /\ ~n[g][IndexAt(b, j)].valid
      <4>1. b \in VA /\ IndexAt(b, k) = IndexAt(a, k) /\ f # NoFrame
        BY <1>2, <2>2, StoreFacts DEF Addresses, Agree, Levels
      <4>2. ~m[g][IndexAt(b, j)].valid /\ n[g] = m[g]
        BY <1>1, <1>2, <3>1, <4>1, EmptyTable
      <4>3. QED
        BY <4>1, <4>2
    <3>4. Walk(m, r, st, b) = Mapped(m[f][IndexAt(b, k)], b, k)
      BY <1>2, <3>1, <3>2, <3>3, WalkEnds
    <3>5. Walk(n, r, st, b) = Mapped(n[g][IndexAt(b, j)], b, j)
      BY <1>2, <3>1, <3>2, <3>3, WalkEnds
    <3>6. QED
      BY <2>2, <3>1, <3>3, <3>4, <3>5 DEF Mapped
  <2>3. CASE ~(q = s /\ Agree(b, a, k))
    BY <2>3, UnseenElsewhere
  <2>4. QED
    BY <2>2, <2>3
<1>9. Knows(n, rt, lv, sp)
  BY <1>1, <1>8 DEF Knows
<1>10. QED
  BY <1>5, <1>6, <1>7, <1>9 DEF Forest

-----------------------------------------------------------------------------
(* The forest after a free frame became the first table of a process.      *)
LEMMA PlantedForest ==
    ASSUME NEW m, NEW rt, NEW lv, NEW fr, NEW sp, Forest(m, rt, lv, fr, sp),
           NEW p \in Spaces, rt[p] = NoFrame, NEW g \in fr,
           NEW nr, nr = [rt EXCEPT ![p] = g]
    PROVE  Forest(m, nr, lv, fr \ {g}, sp)
<1>1. /\ Typed(m, rt, lv, fr) /\ FreeIsEmpty(m, fr) /\ Owned(m, rt, lv, fr)
      /\ Apart(m, rt, lv) /\ Knows(m, rt, lv, sp)
  BY DEF Forest
<1>2. /\ rt \in [Spaces -> Pool \cup {NoFrame}] /\ lv \in [Spaces -> Levels] /\ fr \subseteq Pool
      /\ g \in Pool /\ g # NoFrame
  BY <1>1, MmuAssumption DEF Typed
<1>3. nr[p] = g /\ (\A q \in Spaces : q # p => nr[q] = rt[q])
      /\ nr \in [Spaces -> Pool \cup {NoFrame}]
  BY <1>2
<1> DEFINE t(q, b, j) == Tab(m, rt[q], lv[q], b, j)
           u(q, b, j) == Tab(m, nr[q], lv[q], b, j)
<1>4. \A b \in Addresses(p, lv[p]), j \in Levels :
          t(p, b, j) = NoFrame /\ u(p, b, j) = IF j = lv[p] THEN g ELSE NoFrame
  <2>1. SUFFICES ASSUME NEW b \in Addresses(p, lv[p]), NEW j \in Levels
                 PROVE  t(p, b, j) = NoFrame /\ u(p, b, j) = IF j = lv[p] THEN g ELSE NoFrame
    OBVIOUS
  <2>2. PICK st \in Levels : st = lv[p]
    BY <1>2
  <2>3. t(p, b, j) = NoFrame
    BY <2>2, NoTree
  <2> DEFINE v(h) == Tab(m, g, st, b, h)
  <2>4. /\ \A h \in Levels : h < st => v(h) = NoFrame
        /\ v(st) = g
        /\ st < 2 => v(2) = Down(m, v(1), b, 1)
        /\ st < 3 => v(3) = Down(m, v(2), b, 2)
    BY TabSteps
  <2>5. Down(m, g, b, 1) = NoFrame /\ Down(m, g, b, 2) = NoFrame
    BY <1>1, EmptyTable DEF Addresses, Levels
  <2>6. Down(m, NoFrame, b, 2) = NoFrame
    BY DEF Down
  <2>7. v(j) = IF j = st THEN g ELSE NoFrame
    <3> HIDE DEF v
    <3>1. QED
      BY <2>4, <2>5, <2>6 DEF Levels
  <2>8. QED
    BY <1>3, <2>2, <2>3, <2>7
<1>5. \A q \in Spaces : q # p =>
          \A b \in Addresses(q, lv[q]), j \in Levels : u(q, b, j) = t(q, b, j)
  BY <1>3
<1>6. \A q \in Spaces : \A b \in Addresses(q, lv[q]), j \in Levels :
          t(q, b, j) # g /\ t(q, b, j) \in (Pool \ fr) \cup {NoFrame}
  BY <1>1, <1>2 DEF Owned
<1>7. Typed(m, nr, lv, fr \ {g}) /\ FreeIsEmpty(m, fr \ {g})
  BY <1>1, <1>3 DEF Typed, FreeIsEmpty
<1> HIDE DEF t, u
<1>8. \A q \in Spaces : \A b \in Addresses(q, lv[q]), j \in Levels :
          u(q, b, j) = IF q = p /\ j = lv[p] THEN g ELSE t(q, b, j)
  BY <1>4, <1>5
<1>9. Owned(m, nr, lv, fr \ {g})
  <2>1. \A q \in Spaces : \A b \in Addresses(q, lv[q]), j \in Levels :
            u(q, b, j) \in (Pool \ (fr \ {g})) \cup {NoFrame}
    BY <1>2, <1>6, <1>8
  <2>2. QED
    BY <2>1 DEF Owned, u
<1>10. Apart(m, nr, lv)
  <2>1. SUFFICES ASSUME NEW s \in Spaces, NEW q \in Spaces, NEW c \in Addresses(s, lv[s]),
                        NEW b \in Addresses(q, lv[q]), NEW i \in Levels, NEW j \in Levels,
                        u(s, c, i) # NoFrame, u(s, c, i) = u(q, b, j)
                 PROVE  s = q /\ i = j /\ Agree(c, b, i - 1)
    BY DEF Apart, u
  <2>2. CASE s = p /\ i = lv[p]
    <3>1. q = p /\ j = lv[p]
      BY <1>2, <1>6, <1>8, <2>1, <2>2
    <3>2. Agree(c, b, i - 1)
      BY <1>2, <2>2, <3>1 DEF Agree, Addresses, IndexAt, Levels
    <3>3. QED
      BY <2>2, <3>1, <3>2
  <2>3. CASE ~(s = p /\ i = lv[p])
    <3>1. ~(q = p /\ j = lv[p])
      BY <1>2, <1>6, <1>8, <2>1, <2>3
    <3>2. t(s, c, i) # NoFrame /\ t(s, c, i) = t(q, b, j)
      BY <1>8, <2>1, <2>3, <3>1
    <3>3. \A x \in Addresses(s, lv[s]), y \in Addresses(q, lv[q]), h, l \in Levels :
              (t(s, x, h) # NoFrame /\ t(s, x, h) = t(q, y, l))
              => (s = q /\ h = l /\ Agree(x, y, h - 1))
      BY <1>1, OnePlace DEF t
    <3>4. QED
      BY <3>2, <3>3
  <2>4. QED
    BY <2>2, <2>3
<1>11. \A q \in Spaces : \A b \in Addresses(q, lv[q]) : sp[q][b] = Walk(m, nr[q], lv[q], b)
  <2>1. SUFFICES ASSUME NEW q \in Spaces, NEW b \in Addresses(q, lv[q])
                 PROVE  Walk(m, rt[q], lv[q], b) = Walk(m, nr[q], lv[q], b)
    BY <1>1 DEF Knows
  <2>2. CASE q = p
    <3>1. PICK st \in Levels : st = lv[p]
      BY <1>2
    <3>2. Tab(m, g, st, b, st) = g /\ b \in VA
      BY <3>1, TabSteps DEF Addresses
    <3>3. ~m[g][IndexAt(b, st)].valid
      BY <1>1, <3>2, EmptyTable
    <3>4. Walk(m, g, st, b) = Mapped(m[g][IndexAt(b, st)], b, st)
      BY <1>2, <3>2, <3>3, WalkEnds
    <3>5. Walk(m, NoFrame, st, b) = Fault
      BY DEF Walk
    <3>6. QED
      BY <1>3, <2>2, <3>1, <3>3, <3>4, <3>5 DEF Mapped
  <2>3. CASE q # p
    BY <1>3, <2>3
  <2>4. QED
    BY <2>2, <2>3
<1>12. Knows(m, nr, lv, sp)
  BY <1>1, <1>11 DEF Knows
<1>13. QED
  BY <1>7, <1>9, <1>10, <1>12 DEF Forest

-----------------------------------------------------------------------------
(* The forest after a tree was cut down and its frames cleared.            *)
TreeOf(m, rt, lv, p) ==
    {Tab(m, rt[p], lv[p], va, k) : va \in Addresses(p, lv[p]), k \in Levels} \ {NoFrame}

Cleared(m, n, tree) ==
    n = [f \in Pool |-> IF f \in tree THEN [i \in Index |-> Zero] ELSE m[f]]

LEMMA CutForest ==
    ASSUME NEW m, NEW rt, NEW lv, NEW fr, NEW sp, Forest(m, rt, lv, fr, sp),
           NEW p \in Spaces, NEW tree, tree = TreeOf(m, rt, lv, p),
           NEW nr, nr = [rt EXCEPT ![p] = NoFrame],
           NEW np, np = [sp EXCEPT ![p] = [va \in Addresses(p, lv[p]) |-> Fault]],
           NEW n, Cleared(m, n, tree)
    PROVE  Forest(n, nr, lv, fr \cup tree, np)
<1>1. /\ Typed(m, rt, lv, fr) /\ FreeIsEmpty(m, fr) /\ Owned(m, rt, lv, fr)
      /\ Apart(m, rt, lv) /\ Knows(m, rt, lv, sp)
  BY DEF Forest
<1>2. /\ m \in [Pool -> [Index -> Entry]]
      /\ rt \in [Spaces -> Pool \cup {NoFrame}] /\ lv \in [Spaces -> Levels] /\ fr \subseteq Pool
  BY <1>1 DEF Typed
<1>3. nr[p] = NoFrame /\ (\A q \in Spaces : q # p => nr[q] = rt[q])
      /\ nr \in [Spaces -> Pool \cup {NoFrame}]
  BY <1>2
<1>4. tree \subseteq Pool
  BY <1>1 DEF TreeOf, Owned
<1>5. n \in [Pool -> [Index -> Entry]]
  <2>1. Zero \in Entry
    BY DEF Zero, Entry
  <2>2. QED
    BY <1>2, <2>1 DEF Cleared
<1>6. Typed(n, nr, lv, fr \cup tree)
  BY <1>2, <1>3, <1>4, <1>5 DEF Typed
<1>7. FreeIsEmpty(n, fr \cup tree)
  <2>1. SUFFICES ASSUME NEW f \in fr \cup tree, NEW i \in Index PROVE ~n[f][i].valid
    BY DEF FreeIsEmpty
  <2>2. CASE f \in tree
    <3>1. n[f] = [j \in Index |-> Zero]
      BY <1>4, <2>2 DEF Cleared
    <3>2. QED
      BY <3>1 DEF Zero
  <2>3. CASE f \notin tree
    BY <1>1, <1>2, <2>3 DEF FreeIsEmpty, Cleared
  <2>4. QED
    BY <2>2, <2>3
<1> DEFINE t(q, b, j) == Tab(m, rt[q], lv[q], b, j)
           u(q, b, j) == Tab(n, nr[q], lv[q], b, j)
<1>8. \A q \in Spaces : q # p =>
          \A b \in Addresses(q, lv[q]), j \in Levels : t(q, b, j) \notin tree
  <2>1. SUFFICES ASSUME NEW q \in Spaces, q # p, NEW b \in Addresses(q, lv[q]), NEW j \in Levels,
                        t(q, b, j) \in tree
                 PROVE  FALSE
    OBVIOUS
  <2>2. PICK a \in Addresses(p, lv[p]), k \in Levels :
            t(p, a, k) = t(q, b, j) /\ t(q, b, j) # NoFrame
    BY <2>1 DEF TreeOf
  <2>3. \A x \in Addresses(p, lv[p]), y \in Addresses(q, lv[q]), h, l \in Levels :
            (t(p, x, h) # NoFrame /\ t(p, x, h) = t(q, y, l))
            => (p = q /\ h = l /\ Agree(x, y, h - 1))
    BY <1>1, OnePlace
  <2> HIDE DEF t
  <2>4. QED
    BY <2>1, <2>2, <2>3
<1>9. \A q \in Spaces : q # p => \A b \in Addresses(q, lv[q]) :
          /\ \A j \in Levels : u(q, b, j) = t(q, b, j)
          /\ Walk(n, nr[q], lv[q], b) = Walk(m, rt[q], lv[q], b)
  <2>1. SUFFICES ASSUME NEW q \in Spaces, q # p, NEW b \in Addresses(q, lv[q])
                 PROVE  /\ \A j \in Levels : u(q, b, j) = t(q, b, j)
                        /\ Walk(n, nr[q], lv[q], b) = Walk(m, rt[q], lv[q], b)
    OBVIOUS
  <2>2. PICK st, r : st = lv[q] /\ r = rt[q] /\ r = nr[q]
    BY <1>3, <2>1
  <2>3. st \in Levels /\ b \in VA /\ InPool(m, r, st, b)
    BY <1>1, <1>2, <2>2 DEF InPool, Owned, Addresses
  <2>4. SameEntries(m, n, r, st, b, 3)
    <3>1. SUFFICES ASSUME NEW j \in Levels, Tab(m, r, st, b, j) # NoFrame
                   PROVE  n[Tab(m, r, st, b, j)] = m[Tab(m, r, st, b, j)]
      BY DEF SameEntries, Levels
    <3>2. Tab(m, r, st, b, j) \in Pool /\ Tab(m, r, st, b, j) \notin tree
      BY <1>8, <2>1, <2>2, <2>3, <3>1 DEF InPool
    <3>3. QED
      BY <3>2 DEF Cleared
  <2>5. /\ \A j \in Levels : Tab(n, r, st, b, j) = Tab(m, r, st, b, j)
        /\ Walk(n, r, st, b) = Walk(m, r, st, b)
    BY <1>2, <2>3, <2>4, SameWalk
  <2>6. QED
    BY <2>2, <2>5
<1>10. \A b \in Addresses(p, lv[p]), j \in Levels : u(p, b, j) = NoFrame
  BY <1>2, <1>3, NoTree
<1>11. Owned(n, nr, lv, fr \cup tree)
  <2>1. SUFFICES ASSUME NEW q \in Spaces, NEW b \in Addresses(q, lv[q]), NEW j \in Levels
                 PROVE  u(q, b, j) \in (Pool \ (fr \cup tree)) \cup {NoFrame}
    BY DEF Owned
  <2>2. t(q, b, j) \in (Pool \ fr) \cup {NoFrame}
    BY <1>1 DEF Owned
  <2> HIDE DEF t, u
  <2>3. QED
    BY <1>8, <1>9, <1>10, <2>2
<1>12. Apart(n, nr, lv)
  <2>1. SUFFICES ASSUME NEW s \in Spaces, NEW q \in Spaces, NEW c \in Addresses(s, lv[s]),
                        NEW b \in Addresses(q, lv[q]), NEW i \in Levels, NEW j \in Levels,
                        u(s, c, i) # NoFrame, u(s, c, i) = u(q, b, j)
                 PROVE  s = q /\ i = j /\ Agree(c, b, i - 1)
    BY DEF Apart
  <2>2. \A x \in Addresses(s, lv[s]), y \in Addresses(q, lv[q]), h, l \in Levels :
            (t(s, x, h) # NoFrame /\ t(s, x, h) = t(q, y, l))
            => (s = q /\ h = l /\ Agree(x, y, h - 1))
    BY <1>1, OnePlace
  <2> HIDE DEF t, u
  <2>3. s # p /\ q # p
    BY <1>10, <2>1
  <2>4. t(s, c, i) = u(s, c, i) /\ t(q, b, j) = u(q, b, j)
    BY <1>9, <2>3
  <2>5. QED
    BY <2>1, <2>2, <2>4
<1>13. Knows(n, nr, lv, np)
  <2>1. sp = [q \in Spaces |-> sp[q]]
        /\ \A q \in Spaces : sp[q] = [b \in Addresses(q, lv[q]) |-> sp[q][b]]
    BY <1>1 DEF Knows
  <2>2. /\ np = [q \in Spaces |-> np[q]]
        /\ np[p] = [b \in Addresses(p, lv[p]) |-> Fault]
        /\ \A q \in Spaces : q # p => np[q] = sp[q]
    BY <2>1
  <2>3. np = [q \in Spaces |-> [b \in Addresses(q, lv[q]) |-> np[q][b]]]
    <3>1. \A q \in Spaces : np[q] = [b \in Addresses(q, lv[q]) |-> np[q][b]]
      BY <2>1, <2>2
    <3>2. QED
      BY <2>2, <3>1
  <2>4. \A q \in Spaces : \A b \in Addresses(q, lv[q]) : np[q][b] = Walk(n, nr[q], lv[q], b)
    <3>1. SUFFICES ASSUME NEW q \in Spaces, NEW b \in Addresses(q, lv[q])
                   PROVE  np[q][b] = Walk(n, nr[q], lv[q], b)
      OBVIOUS
    <3>2. CASE q = p
      BY <1>3, <2>2, <3>2 DEF Walk
    <3>3. CASE q # p
      <4>1. sp[q][b] = Walk(m, rt[q], lv[q], b)
        BY <1>1 DEF Knows
      <4>2. Walk(n, nr[q], lv[q], b) = Walk(m, rt[q], lv[q], b) /\ np[q] = sp[q]
        BY <1>9, <2>2, <3>3
      <4>3. QED
        BY <4>1, <4>2
    <3>4. QED
      BY <3>2, <3>3
  <2>5. QED
    BY <2>3, <2>4 DEF Knows
<1>14. QED
  BY <1>6, <1>7, <1>11, <1>12, <1>13 DEF Forest

(* The forest at the start: the first table of the kernel, empty.          *)
LEMMA FirstForest ==
    ASSUME NEW m, m = [f \in Pool |-> [i \in Index |-> Zero]], NEW g \in Pool,
           NEW rt, rt = [s \in Spaces |-> IF s = Kernel THEN g ELSE NoFrame],
           NEW lv \in [Spaces -> Levels],
           NEW sp, sp = [s \in Spaces |-> [va \in Addresses(s, lv[s]) |-> Fault]]
    PROVE  Forest(m, rt, lv, Pool \ {g}, sp)
<1> DEFINE ro == [s \in Spaces |-> NoFrame]
<1>1. Forest(m, ro, lv, Pool, sp)
  <2>1. \A s \in Spaces : ro[s] = NoFrame
    OBVIOUS
  <2>2. \A s \in Spaces : \A b \in Addresses(s, lv[s]), j \in Levels :
            Tab(m, ro[s], lv[s], b, j) = NoFrame
    BY <2>1, NoTree
  <2>3. Zero \in Entry /\ ~Zero.valid
    BY DEF Zero, Entry
  <2> HIDE DEF ro
  <2>4. Typed(m, ro, lv, Pool) /\ FreeIsEmpty(m, Pool)
    BY <2>1, <2>3 DEF Typed, FreeIsEmpty, ro
  <2>5. Owned(m, ro, lv, Pool) /\ Apart(m, ro, lv)
    BY <2>2 DEF Owned, Apart
  <2>6. Knows(m, ro, lv, sp)
    BY <2>1 DEF Knows, Walk
  <2>7. QED
    BY <2>4, <2>5, <2>6 DEF Forest
<1>2. Kernel \in Spaces /\ rt = [ro EXCEPT ![Kernel] = g] /\ ro[Kernel] = NoFrame
  BY DEF Spaces
<1>3. QED
  <2> HIDE DEF ro
  <2>1. QED
    BY <1>1, <1>2, PlantedForest

-----------------------------------------------------------------------------
(* The state of module Mmu is such a forest.                               *)
LEMMA Reads ==
    /\ Level \in [Spaces -> Levels]
    /\ \A s \in Spaces : AddressesOf(s) = Addresses(s, Level[s])
    /\ \A s \in Spaces : \A va : \A k \in Levels :
           TableAt(s, va, k) = Tab(mem, root[s], Level[s], va, k)
    /\ \A s \in Spaces : TablesOf(s) = TreeOf(mem, root, Level, s)
<1>1. \A s \in Spaces : LevelOf(s) \in Levels /\ Level[s] = LevelOf(s)
  BY DEF Level, LevelOf, StartLevel, Levels
<1>2. \A s \in Spaces : AddressesOf(s) = Addresses(s, Level[s])
  BY <1>1, Zenon DEF AddressesOf, Addresses
<1>3. ASSUME NEW s \in Spaces, NEW va, NEW k \in Levels
      PROVE  TableAt(s, va, k) = Tab(mem, root[s], Level[s], va, k)
  <2>1. k = 1 \/ k = 2 \/ k = 3
    BY DEF Levels
  <2>2. \A base, j : Below(base, va, j) = Down(mem, base, va, j)
    BY DEF Below, Down
  <2>3. LevelOf(s) = Level[s]
    BY <1>1
  <2>4. QED
    BY <2>1, <2>2, <2>3 DEF TableAt, Tab
<1>4. \A s \in Spaces : TablesOf(s) = TreeOf(mem, root, Level, s)
  <2>1. SUFFICES ASSUME NEW s \in Spaces PROVE TablesOf(s) = TreeOf(mem, root, Level, s)
    OBVIOUS
  <2>2. AddressesOf(s) = Addresses(s, Level[s])
    BY <1>2
  <2>3. \A va : \A k \in Levels : TableAt(s, va, k) = Tab(mem, root[s], Level[s], va, k)
    BY <1>3
  <2>4. {TableAt(s, va, k) : va \in AddressesOf(s), k \in Levels}
            = {Tab(mem, root[s], Level[s], va, k) : va \in Addresses(s, Level[s]), k \in Levels}
    BY <2>2, <2>3
  <2>5. QED
    BY <2>4 DEF TablesOf, TreeOf
<1>5. QED
  BY <1>1, <1>2, <1>3, <1>4 DEF Level

LEMMA LevelSame == ASSUME UNCHANGED <<t0, t1>> PROVE Level' = Level
  BY DEF Level, LevelOf, StartLevel

LEMMA MmuInit == ASSUME Init PROVE MmuInv
<1>1. PICK g \in Pool : root = [s \in Spaces |-> IF s = Kernel THEN g ELSE NoFrame]
  BY DEF Init
<1>2. Kernel \in Spaces /\ root[Kernel] = g
  BY <1>1 DEF Spaces
<1>3. RegistersInv
  BY <1>2 DEF Init, RegistersInv
<1>4. space = [s \in Spaces |-> [va \in Addresses(s, Level[s]) |-> Fault]]
  BY Reads DEF Init
<1>5. Forest(mem, root, Level, Pool \ {g}, space)
  <2>1. PICK m, rt, lv, sp : m = mem /\ rt = root /\ lv = Level /\ sp = space
    OBVIOUS
  <2>2. /\ m = [f \in Pool |-> [i \in Index |-> Zero]]
        /\ rt = [s \in Spaces |-> IF s = Kernel THEN g ELSE NoFrame]
        /\ lv \in [Spaces -> Levels]
        /\ sp = [s \in Spaces |-> [va \in Addresses(s, lv[s]) |-> Fault]]
    BY <1>1, <1>4, <2>1, Reads DEF Init
  <2>3. Forest(m, rt, lv, Pool \ {g}, sp)
    BY <2>2, FirstForest
  <2>4. QED
    BY <2>1, <2>3
<1>6. free = Pool \ {g}
  BY <1>2 DEF Init
<1>7. QED
  BY <1>3, <1>5, <1>6 DEF MmuInv

(* The state after a step, given by rigid values.                          *)
LEMMA ForestIs ==
    ASSUME UNCHANGED <<t0, t1>>,
           NEW n, NEW nr, NEW lv, NEW nf, NEW np, Forest(n, nr, lv, nf, np),
           n = mem', nr = root', lv = Level, nf = free', np = space'
    PROVE  Forest(mem, root, Level, free, space)'
<1>1. Level' = lv
  BY LevelSame
<1>2. QED
  BY <1>1

LEMMA NewSpaceKeeps ==
    ASSUME MmuInv, NEW p \in Procs, NewSpace(p) PROVE MmuInv'
<1>1. PICK g \in free : root' = [root EXCEPT ![p] = g] /\ free' = free \ {g}
  BY DEF NewSpace
<1>2. /\ root[p] = NoFrame
      /\ UNCHANGED <<mem, t0, t1, ttbr0_el1, ttbr1_el1, enabled, space>>
  BY DEF NewSpace, registers
<1>3. PICK m, rt, lv, fr, sp, nr :
          /\ m = mem /\ rt = root /\ lv = Level /\ fr = free /\ sp = space /\ nr = root'
  OBVIOUS
<1>4. Forest(m, rt, lv, fr, sp) /\ p \in Spaces /\ rt[p] = NoFrame /\ g \in fr
      /\ nr = [rt EXCEPT ![p] = g]
  BY <1>1, <1>2, <1>3 DEF MmuInv, Spaces
<1>5. Forest(m, nr, lv, fr \ {g}, sp)
  BY <1>4, PlantedForest
<1>6. Forest(mem, root, Level, free, space)'
  <2>1. PICK nf : nf = fr \ {g}
    OBVIOUS
  <2>2. QED
    BY <1>1, <1>2, <1>3, <1>5, <2>1, ForestIs
<1>7. RegistersInv'
  <2>1. p # Kernel /\ Kernel \in Spaces
    BY MmuAssumption DEF Spaces
  <2>2. root'[Kernel] = root[Kernel]
    BY <1>1, <2>1 DEF MmuInv, Forest, Typed
  <2>3. QED
    BY <1>2, <2>2 DEF MmuInv, RegistersInv
<1>8. QED
  BY <1>6, <1>7 DEF MmuInv

LEMMA ExitKeeps ==
    ASSUME MmuInv, NEW p \in Procs, Exit(p) PROVE MmuInv'
<1>1. PICK m, rt, lv, fr, sp, n, nr, np, tree :
          /\ m = mem /\ rt = root /\ lv = Level /\ fr = free /\ sp = space
          /\ n = mem' /\ nr = root' /\ np = space' /\ tree = TablesOf(p)
  OBVIOUS
<1>2. p \in Spaces /\ p # Kernel /\ Kernel \in Spaces
  BY MmuAssumption DEF Spaces
<1>3. /\ Forest(m, rt, lv, fr, sp) /\ tree = TreeOf(m, rt, lv, p)
      /\ nr = [rt EXCEPT ![p] = NoFrame] /\ Cleared(m, n, tree)
      /\ np = [sp EXCEPT ![p] = [va \in Addresses(p, lv[p]) |-> Fault]]
  BY <1>1, <1>2, Reads DEF MmuInv, Exit, Cleared
<1>4. UNCHANGED <<t0, t1, ttbr0_el1, ttbr1_el1, enabled>> /\ free' = fr \cup tree
  BY <1>1 DEF Exit, registers
<1>5. Forest(n, nr, lv, fr \cup tree, np)
  BY <1>2, <1>3, CutForest
<1>6. Forest(mem, root, Level, free, space)'
  <2>1. PICK nf : nf = fr \cup tree
    OBVIOUS
  <2>2. QED
    BY <1>1, <1>4, <1>5, <2>1, ForestIs
<1>7. RegistersInv'
  <2>1. root'[Kernel] = root[Kernel]
    BY <1>1, <1>2, <1>3 DEF Forest, Typed
  <2>2. QED
    BY <1>4, <2>1 DEF MmuInv, RegistersInv
<1>8. QED
  BY <1>6, <1>7 DEF MmuInv

(* Where a step of the kernel stores, in the terms of the lemmas.          *)
LEMMA KernelStore ==
    ASSUME MmuInv, NEW s \in Spaces, NEW va \in AddressesOf(s), NEW k \in Levels,
           TableAt(s, va, k) # NoFrame, NEW e \in Entry,
           Put(TableAt(s, va, k), IndexAt(va, k), e)
    PROVE  \E m, rt, lv, fr, sp, f, n :
               /\ m = mem /\ rt = root /\ lv = Level /\ fr = free /\ sp = space /\ n = mem'
               /\ f = TableAt(s, va, k)
               /\ Forest(m, rt, lv, fr, sp) /\ StoreAt(m, rt, lv, fr, s, va, k, f, e, n)
               /\ va \in Addresses(s, lv[s])
<1>1. PICK m, rt, lv, fr, sp, f, n :
          /\ m = mem /\ rt = root /\ lv = Level /\ fr = free /\ sp = space /\ n = mem'
          /\ f = TableAt(s, va, k)
  OBVIOUS
<1>2. Forest(m, rt, lv, fr, sp)
  BY <1>1 DEF MmuInv
<1>3. /\ va \in Addresses(s, lv[s]) /\ f = Tab(m, rt[s], lv[s], va, k) /\ f # NoFrame
      /\ Stores(m, n, f, IndexAt(va, k), e)
  BY <1>1, Reads DEF Stores, Put
<1>4. StoreAt(m, rt, lv, fr, s, va, k, f, e, n)
  BY <1>2, <1>3 DEF StoreAt, Forest
<1>5. QED
  BY <1>1, <1>2, <1>3, <1>4

LEMMA RegistersSame ==
    ASSUME MmuInv, UNCHANGED <<t0, t1, ttbr0_el1, ttbr1_el1, enabled, root>>
    PROVE  RegistersInv'
  BY DEF MmuInv, RegistersInv

LEMMA AddTableKeeps ==
    ASSUME MmuInv, NEW s \in Spaces, NEW va \in AddressesOf(s), NEW k \in {1, 2},
           AddTable(s, va, k)
    PROVE  MmuInv'
<1>1. PICK g \in free :
          /\ free' = free \ {g}
          /\ Put(TableAt(s, va, k), IndexAt(va, k),
                 [valid |-> TRUE, table |-> TRUE, frame |-> g])
  BY DEF AddTable
<1>2. /\ k \in Levels /\ TableAt(s, va, k) # NoFrame
      /\ ~mem[TableAt(s, va, k)][IndexAt(va, k)].valid
      /\ UNCHANGED <<t0, t1, ttbr0_el1, ttbr1_el1, enabled, root, space>>
  BY DEF AddTable, Unused, registers, Levels
<1>3. PICK e \in Entry : e = [valid |-> TRUE, table |-> TRUE, frame |-> g]
  BY DEF MmuInv, Forest, Typed, Entry
<1>4. PICK m, rt, lv, fr, sp, f, n :
          /\ m = mem /\ rt = root /\ lv = Level /\ fr = free /\ sp = space /\ n = mem'
          /\ f = TableAt(s, va, k)
          /\ Forest(m, rt, lv, fr, sp) /\ StoreAt(m, rt, lv, fr, s, va, k, f, e, n)
  BY <1>1, <1>2, <1>3, KernelStore
<1>5. k < 3 /\ ~m[f][IndexAt(va, k)].valid /\ g \in fr
  BY <1>2, <1>4
<1>6. Forest(n, rt, lv, fr \ {g}, sp)
  BY <1>3, <1>4, <1>5, AddedForest
<1>7. Forest(mem, root, Level, free, space)'
  <2>1. PICK nf : nf = fr \ {g}
    OBVIOUS
  <2>2. QED
    BY <1>1, <1>2, <1>4, <1>6, <2>1, ForestIs
<1>8. QED
  BY <1>2, <1>7, RegistersSame DEF MmuInv

(* A mapping changed at one address.                                       *)
LEMMA Remap ==
    ASSUME NEW m, NEW rt, NEW lv \in [Spaces -> Levels], NEW sp, Knows(m, rt, lv, sp),
           NEW s \in Spaces, NEW a \in Addresses(s, lv[s]), NEW e, NEW v, v = Mapped(e, a, 3),
           NEW np, np = [sp EXCEPT ![s][a] = v]
    PROVE  Remapped(lv, s, a, 3, e, sp, np)
<1>1. sp = [q \in Spaces |-> sp[q]]
      /\ \A q \in Spaces : sp[q] = [b \in Addresses(q, lv[q]) |-> sp[q][b]]
  BY DEF Knows
<1>2. np = [sp EXCEPT ![s] = [sp[s] EXCEPT ![a] = v]]
  OBVIOUS
<1>3. /\ np = [q \in Spaces |-> np[q]]
      /\ np[s] = [sp[s] EXCEPT ![a] = v]
      /\ \A q \in Spaces : q # s => np[q] = sp[q]
  BY <1>1, <1>2
<1>4. np[s] = [b \in Addresses(s, lv[s]) |-> IF b = a THEN v ELSE sp[s][b]]
  BY <1>1, <1>3
<1>5. np = [q \in Spaces |-> [b \in Addresses(q, lv[q]) |-> np[q][b]]]
  <2>1. np[s] = [b \in Addresses(s, lv[s]) |-> np[s][b]]
    BY <1>4
  <2>2. \A q \in Spaces : np[q] = [b \in Addresses(q, lv[q]) |-> np[q][b]]
    BY <1>1, <1>3, <2>1
  <2>3. QED
    BY <1>3, <2>2
<1>6. \A b \in Addresses(s, lv[s]) : Agree(b, a, 3) <=> b = a
  <2>1. PICK st \in Levels : st = lv[s]
    OBVIOUS
  <2>2. \A b \in Addresses(s, st) : Agree(b, a, 3) => b = a
    BY <2>1, SameAddress
  <2>3. Agree(a, a, 3)
    BY DEF Agree
  <2>4. QED
    BY <2>1, <2>2, <2>3
<1>7. \A q \in Spaces : \A b \in Addresses(q, lv[q]) :
          np[q][b] = IF q = s /\ Agree(b, a, 3) THEN Mapped(e, b, 3) ELSE sp[q][b]
  BY <1>3, <1>4, <1>6
<1>8. QED
  BY <1>5, <1>7 DEF Remapped

LEMMA PageKeeps ==
    ASSUME MmuInv, NEW s \in Spaces, NEW va \in AddressesOf(s), TableAt(s, va, 3) # NoFrame,
           NEW e \in Entry, NEW v, v = Mapped(e, va, 3),
           Put(TableAt(s, va, 3), va.i3, e), space' = [space EXCEPT ![s][va] = v],
           UNCHANGED <<t0, t1, ttbr0_el1, ttbr1_el1, enabled, root, free>>
    PROVE  MmuInv'
<1>1. PICK k \in Levels : k = 3
  BY DEF Levels
<1>2. va \in VA /\ IndexAt(va, k) = va.i3
  BY <1>1, Indices DEF AddressesOf
<1>3. TableAt(s, va, k) # NoFrame /\ Put(TableAt(s, va, k), IndexAt(va, k), e)
  BY <1>1, <1>2
<1>4. PICK m, rt, lv, fr, sp, f, n :
          /\ m = mem /\ rt = root /\ lv = Level /\ fr = free /\ sp = space /\ n = mem'
          /\ f = TableAt(s, va, k)
          /\ Forest(m, rt, lv, fr, sp) /\ StoreAt(m, rt, lv, fr, s, va, k, f, e, n)
          /\ va \in Addresses(s, lv[s])
  BY <1>3, KernelStore
<1>5. PICK np : np = space'
  OBVIOUS
<1>6. Knows(m, rt, lv, sp) /\ lv \in [Spaces -> Levels] /\ np = [sp EXCEPT ![s][va] = v]
  BY <1>4, <1>5 DEF Forest, Typed
<1>7. Remapped(lv, s, va, k, e, sp, np)
  <2>1. Remapped(lv, s, va, 3, e, sp, np)
    BY <1>4, <1>6, Remap
  <2>2. QED
    BY <1>1, <2>1
<1>8. Forest(n, rt, lv, fr, np)
  BY <1>1, <1>4, <1>7, MappingForest
<1>9. Forest(mem, root, Level, free, space)'
  BY <1>4, <1>5, <1>8, ForestIs
<1>10. QED
  BY <1>9, RegistersSame DEF MmuInv

LEMMA MapPageKeeps ==
    ASSUME MmuInv, NEW s \in Spaces, NEW va \in AddressesOf(s), NEW page \in Pages,
           MapPage(s, va, page)
    PROVE  MmuInv'
<1>1. PICK e \in Entry : e = [valid |-> TRUE, table |-> TRUE, frame |-> page]
  BY DEF Entry
<1>2. Mapped(e, va, 3) = page
  BY <1>1 DEF Mapped
<1>3. /\ TableAt(s, va, 3) # NoFrame /\ Put(TableAt(s, va, 3), va.i3, e)
      /\ space' = [space EXCEPT ![s][va] = page]
      /\ UNCHANGED <<t0, t1, ttbr0_el1, ttbr1_el1, enabled, root, free>>
  BY <1>1 DEF MapPage, Unused, registers
<1>4. QED
  BY <1>2, <1>3, PageKeeps

LEMMA UnmapKeeps ==
    ASSUME MmuInv, NEW s \in Spaces, NEW va \in AddressesOf(s), Unmap(s, va)
    PROVE  MmuInv'
<1>1. Zero \in Entry /\ Mapped(Zero, va, 3) = Fault
  BY DEF Entry, Zero, Mapped
<1>2. /\ TableAt(s, va, 3) # NoFrame /\ Put(TableAt(s, va, 3), va.i3, Zero)
      /\ space' = [space EXCEPT ![s][va] = Fault]
      /\ UNCHANGED <<t0, t1, ttbr0_el1, ttbr1_el1, enabled, root, free>>
  BY DEF Unmap, registers
<1>3. QED
  BY <1>1, <1>2, PageKeeps

(* A block maps the addresses behind it to consecutive frames.             *)
LEMMA BlockIs ==
    ASSUME NEW k \in {1, 2}, NEW page \in Pages,
           page % (IF k = 1 THEN N * N ELSE N) = 0,
           NEW e, e = [valid |-> TRUE, table |-> FALSE, frame |-> page], NEW b \in VA
    PROVE  Mapped(e, b, k) = page + (IF k = 1 THEN b.i2 * N ELSE 0) + b.i3
<1>1. page \in Nat /\ N \in Nat /\ b.i2 \in Nat /\ b.i3 \in Nat
  BY MmuAssumption DEF VA, Index
<1>2. CASE k = 1
  <2>1. Mapped(e, b, k) = page - (page % (N * N)) + b.i2 * N + b.i3
    BY <1>2 DEF Mapped, L1Block
  <2>2. page % (N * N) = 0 /\ b.i2 * N \in Nat
    BY <1>1, <1>2
  <2>3. QED
    BY <1>1, <1>2, <2>1, <2>2
<1>3. CASE k = 2
  <2>1. Mapped(e, b, k) = page - (page % N) + b.i3
    BY <1>3 DEF Mapped, L2Block
  <2>2. page % N = 0
    BY <1>3
  <2>3. QED
    BY <1>1, <1>3, <2>1, <2>2
<1>4. QED
  BY <1>2, <1>3

LEMMA MapBlockKeeps ==
    ASSUME MmuInv, NEW s \in Spaces, NEW va \in AddressesOf(s), NEW k \in {1, 2},
           NEW page \in Pages, MapBlock(s, va, k, page)
    PROVE  MmuInv'
<1>1. PICK e \in Entry : e = [valid |-> TRUE, table |-> FALSE, frame |-> page]
  BY DEF Entry
<1>2. /\ k \in Levels /\ TableAt(s, va, k) # NoFrame
      /\ ~mem[TableAt(s, va, k)][IndexAt(va, k)].valid
      /\ page % (IF k = 1 THEN N * N ELSE N) = 0
      /\ Put(TableAt(s, va, k), IndexAt(va, k), e)
      /\ UNCHANGED <<t0, t1, ttbr0_el1, ttbr1_el1, enabled, root, free>>
  BY <1>1 DEF MapBlock, Unused, registers, Levels
<1>3. PICK m, rt, lv, fr, sp, f, n :
          /\ m = mem /\ rt = root /\ lv = Level /\ fr = free /\ sp = space /\ n = mem'
          /\ f = TableAt(s, va, k)
          /\ Forest(m, rt, lv, fr, sp) /\ StoreAt(m, rt, lv, fr, s, va, k, f, e, n)
          /\ va \in Addresses(s, lv[s])
  BY <1>2, KernelStore
<1>4. ~(e.valid /\ e.table) /\ ~m[f][IndexAt(va, k)].valid
  BY <1>1, <1>2, <1>3
<1>5. PICK np : np = space'
  OBVIOUS
<1>6. /\ AddressesOf(s) = Addresses(s, lv[s])
      /\ \A b : b \in SameBlock(s, va, k) <=> b \in Addresses(s, lv[s]) /\ Agree(b, va, k)
  <2>1. AddressesOf(s) = Addresses(s, lv[s])
    BY <1>3, Reads
  <2>2. QED
    BY <2>1 DEF SameBlock, Agree
<1>7. sp = [q \in Spaces |-> sp[q]]
      /\ \A q \in Spaces : sp[q] = [b \in Addresses(q, lv[q]) |-> sp[q][b]]
  BY <1>3 DEF Forest, Knows
<1>8. /\ np = [q \in Spaces |-> np[q]]
      /\ \A q \in Spaces : q # s => np[q] = sp[q]
      /\ np[s] = [b \in Addresses(s, lv[s]) |->
             IF b \in SameBlock(s, va, k)
             THEN page + (IF k = 1 THEN b.i2 * N ELSE 0) + b.i3 ELSE sp[s][b]]
  <2>1. PICK w : w = [b \in Addresses(s, lv[s]) |->
             IF b \in SameBlock(s, va, k)
             THEN page + (IF k = 1 THEN b.i2 * N ELSE 0) + b.i3 ELSE sp[s][b]]
    OBVIOUS
  <2>2. np = [sp EXCEPT ![s] = w]
    BY <1>3, <1>5, <1>6, <2>1 DEF MapBlock
  <2>3. np = [q \in Spaces |-> np[q]] /\ np[s] = w /\ \A q \in Spaces : q # s => np[q] = sp[q]
    BY <1>7, <2>2
  <2>4. QED
    BY <2>1, <2>3
<1>9. \A b \in Addresses(s, lv[s]) :
          np[s][b] = IF Agree(b, va, k) THEN Mapped(e, b, k) ELSE sp[s][b]
  <2>1. SUFFICES ASSUME NEW b \in Addresses(s, lv[s])
                 PROVE  np[s][b] = IF Agree(b, va, k) THEN Mapped(e, b, k) ELSE sp[s][b]
    OBVIOUS
  <2>2. Mapped(e, b, k) = page + (IF k = 1 THEN b.i2 * N ELSE 0) + b.i3
    BY <1>1, <1>2, BlockIs DEF Addresses
  <2>3. np[s][b] = IF Agree(b, va, k)
                   THEN page + (IF k = 1 THEN b.i2 * N ELSE 0) + b.i3 ELSE sp[s][b]
    BY <1>6, <1>8
  <2>4. QED
    BY <2>2, <2>3
<1>10. Remapped(lv, s, va, k, e, sp, np)
  <2>1. \A q \in Spaces : np[q] = [b \in Addresses(q, lv[q]) |-> np[q][b]]
    <3>1. np[s] = [b \in Addresses(s, lv[s]) |-> np[s][b]]
      BY <1>8
    <3>2. QED
      BY <1>7, <1>8, <3>1
  <2>2. np = [q \in Spaces |-> [b \in Addresses(q, lv[q]) |-> np[q][b]]]
    BY <1>8, <2>1
  <2>3. \A q \in Spaces : \A b \in Addresses(q, lv[q]) :
            np[q][b] = IF q = s /\ Agree(b, va, k) THEN Mapped(e, b, k) ELSE sp[q][b]
    BY <1>8, <1>9
  <2>4. QED
    BY <2>2, <2>3 DEF Remapped
<1>11. Forest(n, rt, lv, fr, np)
  BY <1>3, <1>4, <1>10, MappingForest
<1>12. Forest(mem, root, Level, free, space)'
  BY <1>2, <1>3, <1>5, <1>11, ForestIs
<1>13. QED
  BY <1>2, <1>12, RegistersSame DEF MmuInv

(* MSR TTBR0_EL1 and MSR SCTLR_EL1 store no entry.                         *)
LEMMA RegistersKeep ==
    ASSUME MmuInv, Enable \/ (\E p \in Procs : Switch(p)) \/ UNCHANGED vars
    PROVE  MmuInv'
<1>1. UNCHANGED <<mem, t0, t1, ttbr1_el1, root, free, space>>
  BY DEF Enable, Switch, vars
<1>2. Forest(mem, root, Level, free, space)'
  <2>1. PICK m, rt, lv, fr, sp :
            m = mem /\ rt = root /\ lv = Level /\ fr = free /\ sp = space
    OBVIOUS
  <2>2. Forest(m, rt, lv, fr, sp)
    BY <2>1 DEF MmuInv
  <2>3. QED
    BY <1>1, <2>1, <2>2, ForestIs
<1>3. ttbr0_el1' \in Pool
  <2>1. CASE \E p \in Procs : Switch(p)
    <3>1. PICK p \in Procs : ttbr0_el1' = root[p] /\ root[p] # NoFrame
      BY <2>1 DEF Switch
    <3>2. QED
      BY <3>1 DEF MmuInv, Forest, Typed, Spaces
  <2>2. CASE Enable \/ UNCHANGED vars
    BY <2>2 DEF Enable, vars, MmuInv, RegistersInv
  <2>3. QED
    BY <2>1, <2>2
<1>4. enabled' \in BOOLEAN
  BY DEF Enable, Switch, vars, MmuInv, RegistersInv
<1>5. QED
  BY <1>1, <1>2, <1>3, <1>4 DEF MmuInv, RegistersInv

(* One step per action of the kernel.                                      *)
LEMMA MmuStep == ASSUME MmuInv, [Next]_vars PROVE MmuInv'
<1>1. CASE Enable \/ (\E p \in Procs : Switch(p)) \/ UNCHANGED vars
  BY <1>1, RegistersKeep
<1>2. CASE \E p \in Procs : NewSpace(p)
  BY <1>2, NewSpaceKeeps
<1>3. CASE \E p \in Procs : Exit(p)
  BY <1>3, ExitKeeps
<1>4. CASE \E s \in Spaces : \E va \in AddressesOf(s) : Unmap(s, va)
  BY <1>4, UnmapKeeps
<1>5. CASE \E s \in Spaces : \E va \in AddressesOf(s) : \E level \in {1, 2} :
               AddTable(s, va, level)
  BY <1>5, AddTableKeeps
<1>6. CASE \E s \in Spaces : \E va \in AddressesOf(s) : \E page \in Pages :
               MapPage(s, va, page)
  BY <1>6, MapPageKeeps
<1>7. CASE \E va \in AddressesOf(Kernel), level \in {1, 2}, page \in Pages :
               MapBlock(Kernel, va, level, page)
  BY <1>7, MapBlockKeeps DEF Spaces
<1>8. QED
  BY <1>1, <1>2, <1>3, <1>4, <1>5, <1>6, <1>7 DEF Next

-----------------------------------------------------------------------------
(* mmu.cc walks the tables of the space its register points to.            *)
LEMMA TranslateWalks ==
    ASSUME MmuInv, enabled, NEW s \in Spaces, NEW va \in AddressesOf(s),
           root[s] = (IF s = Kernel THEN ttbr1_el1 ELSE ttbr0_el1)
    PROVE  Translate(va) = space[s][va]
<1>1. /\ root[s] # NoFrame /\ va \in Addresses(s, Level[s])
      /\ space[s][va] = Walk(mem, root[s], Level[s], va)
  BY MmuAssumption, Reads DEF MmuInv, RegistersInv, Forest, Knows
<1>2. va.hi <=> s = Kernel
  BY Zenon DEF AddressesOf
<1>3. Ttbr(va) = root[s] /\ StartLevel(IF va.hi THEN t1 ELSE t0) = Level[s]
  BY <1>2 DEF Ttbr, Level, LevelOf
<1>4. /\ L3(va, root[s]) = Walk3(mem, root[s], va)
      /\ L2(va, root[s]) = Walk2(mem, root[s], va)
      /\ L1(va, root[s]) = Walk1(mem, root[s], va)
  <2>1. \A base : L3(va, base) = Walk3(mem, base, va)
    BY DEF L3, Walk3, Mapped, IndexAt
  <2>2. \A base : L2(va, base) = Walk2(mem, base, va)
    BY <2>1 DEF L2, Walk2, Mapped
  <2>3. \A base : L1(va, base) = Walk1(mem, base, va)
    BY <2>2 DEF L1, Walk1, Mapped
  <2>4. QED
    BY <2>1, <2>2, <2>3
<1>5. Level[s] = 1 \/ Level[s] = 2 \/ Level[s] = 3
  BY Reads DEF Levels
<1>6. QED
  BY <1>1, <1>3, <1>4, <1>5 DEF Translate, Walk

(* Every table entry, register and note of the kernel has its type, and no *)
(* frame in use is in the pool of free ones, for every pool of frames and  *)
(* any number of processes.                                                *)
THEOREM MmuTypes == Spec => []TypeOK
<1>1. MmuInv => TypeOK
  BY DEF MmuInv, RegistersInv, Forest, Typed, TypeOK
<1>2. QED
  BY <1>1, MmuInit, MmuStep, PTL DEF Spec

(* Whatever the other processes, whose tables come from the same pool, do  *)
(* or leave behind, the process that is switched in sees its own mapping,  *)
(* between any two stores to the tables.                                   *)
THEOREM ProcessesSeeTheirOwn == Spec => []ProcessTranslation
<1>1. MmuInv => ProcessTranslation
  BY TranslateWalks, MmuAssumption DEF ProcessTranslation, Spaces
<1>2. QED
  BY <1>1, MmuInit, MmuStep, PTL DEF Spec

(* Kernel addresses translate as the kernel mapped them, through pages and *)
(* blocks of either size, whichever process is switched in.                *)
THEOREM KernelSeesItsOwn == Spec => []KernelTranslation
<1>1. MmuInv => KernelTranslation
  BY TranslateWalks DEF KernelTranslation, Spaces, MmuInv, RegistersInv
<1>2. QED
  BY <1>1, MmuInit, MmuStep, PTL DEF Spec
=============================================================================
