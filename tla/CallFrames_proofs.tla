-------------------------- MODULE CallFrames_proofs --------------------------
(***************************************************************************)
(* Calls and frames of any size and depth, with an interrupt at any        *)
(* instruction of the program.                                             *)
(*                                                                         *)
(* The argument: the open calls fall in at most two contexts, those of the *)
(* interrupted program and those of the function the handler calls.  In a  *)
(* context every function but the last has its frame, each one right below *)
(* the one before, and the place in the last function says what sp, x29    *)
(* and x30 are.  A function writes only below its caller's sp, so what the *)
(* other frames and the handler have saved stays.                          *)
(***************************************************************************)
EXTENDS CallFrames, SequenceTheorems, TLAPS

(* The calls that are open, and the cells that those to come may take.     *)
CallRecords == [ret : Sites \cup {Resume}, fp : Values, sp : Cells, framed : BOOLEAN]
Need(k) == (MaxCalls - k) * Frame

(* The calls b+1 to t of cs, which started with the stack pointer base and *)
(* leave at least the cells they still need and h more.                    *)
Chain(cs, b, t, base, h) ==
    /\ b < t => cs[b + 1].sp = base
    /\ \A k \in (b + 1)..t : cs[k].sp <= base /\ cs[k].sp >= Need(k - 1) + h
    /\ \A j, k \in (b + 1)..t : j < k => cs[j].framed /\ cs[k].sp <= cs[j].sp - Frame
    /\ \A k \in (b + 1)..t : k < t => cs[k + 1].sp = cs[k].sp - Frame

(* What place p of the last of them says of x29, x30 and sp.               *)
AtPlace(cs, b, t, p, f, l, s, base) ==
    /\ p \in {"enter", "ret"} =>
          /\ b < t /\ ~cs[t].framed
          /\ f = cs[t].fp /\ l = cs[t].ret /\ s = cs[t].sp
    /\ p \in {"frame", "locals"} => b < t /\ cs[t].framed /\ s = cs[t].sp - Frame
    /\ p \in Sites \cup {"body"} =>
          \/ b < t /\ cs[t].framed /\ s = cs[t].sp - Frame
          \/ b = t /\ s = base

Context(cs, b, t, p, f, l, s, base, h) ==
    /\ p \in Sites \cup Code
    /\ Chain(cs, b, t, base, h)
    /\ AtPlace(cs, b, t, p, f, l, s, base)

(* No handler runs.                                                        *)
InProgram ==
    /\ elr = Nowhere
    /\ \A k \in 1..Len(calls) : calls[k].ret \in Sites
    /\ Context(calls, 0, Len(calls), pc, fp, lr, sp, Top, HandlerFrame)

(* The program was interrupted with n open calls.                          *)
Interrupted(n) ==
    /\ elr = intr.pc /\ n < MaxCalls
    /\ \A k \in 1..n : calls[k].ret \in Sites
    /\ Context(calls, 0, n, intr.pc, intr.fp, intr.lr, intr.sp, Top, HandlerFrame)

HandlerSaved == mem[intr.sp - 2] = intr.fp /\ mem[intr.sp - 1] = intr.lr

InHandler(n) ==
    /\ n = Len(calls) /\ pc \in HandlerCode
    /\ pc \in {"irq", "h_save", "h_add", "h_eret"} => fp = intr.fp /\ lr = intr.lr
    /\ pc \in {"irq", "h_eret"} => sp = intr.sp
    /\ pc \notin {"irq", "h_eret"} => sp = intr.sp - 2
    /\ pc \in {"h_call", Resume} => HandlerSaved

InItsCall(n) ==
    /\ n < Len(calls) /\ HandlerSaved
    /\ calls[n + 1].ret = Resume
    /\ \A k \in (n + 2)..Len(calls) : calls[k].ret \in Sites
    /\ Context(calls, n, Len(calls), pc, fp, lr, sp, intr.sp - 2, 0)

FrameInv ==
    /\ TypeOK /\ calls \in Seq(CallRecords)
    /\ SavedLinks
    /\ \/ InProgram
       \/ \E n \in 0..Len(calls) : Interrupted(n) /\ (InHandler(n) \/ InItsCall(n))

-----------------------------------------------------------------------------
(* Arithmetic of the stack.                                                *)

LEMMA NeedStep ==
    ASSUME NEW k \in 0..(MaxCalls - 1)
    PROVE  /\ Need(k) \in Nat /\ Need(k + 1) \in Nat
           /\ Need(k) = Need(k + 1) + Frame
<1>1. PICK d \in Nat : d = MaxCalls - (k + 1)
  BY FrameAssumption
<1>2. Need(k + 1) = d * Frame /\ Need(k) = (d + 1) * Frame
  BY <1>1, FrameAssumption DEF Need
<1>3. (d + 1) * Frame = d * Frame + Frame /\ d * Frame \in Nat
  BY FrameAssumption
<1>4. QED
  BY <1>2, <1>3, FrameAssumption

LEMMA TopNeed ==
    /\ Top \in Nat /\ Top = Need(0) + HandlerFrame /\ Need(0) \in Nat
    /\ Need(MaxCalls) = 0
<1>1. MaxCalls * Frame \in Nat /\ 0 * Frame = 0
  BY FrameAssumption
<1>2. QED
  BY <1>1, FrameAssumption DEF Top, Need, HandlerFrame

LEMMA NeedType == ASSUME NEW k \in 0..MaxCalls PROVE Need(k) \in Nat
<1>1. CASE k = MaxCalls
  BY <1>1, TopNeed
<1>2. CASE k # MaxCalls
  <2>1. k \in 0..(MaxCalls - 1)
    BY <1>2, FrameAssumption
  <2>2. QED
    BY <2>1, NeedStep
<1>3. QED
  BY <1>1, <1>2

-----------------------------------------------------------------------------
(* Contexts.                                                               *)

(* A context that may run: b calls of others below it, room for its own.   *)
Room(b, t, base, h) ==
    /\ b \in Nat /\ t \in b..MaxCalls
    /\ h \in Nat /\ base \in Int /\ base <= Top
    /\ base >= Need(b) + h

(* The stack pointer leaves the room the calls to come need, and lies      *)
(* below the context's frames.                                             *)
LEMMA PointerInRoom ==
    ASSUME NEW cs \in Seq(CallRecords), NEW b, NEW t, NEW p, NEW f, NEW l, NEW s,
           NEW base, NEW h,
           Room(b, t, base, h), t <= Len(cs), Context(cs, b, t, p, f, l, s, base, h)
    PROVE  /\ s \in Int /\ s <= base /\ s >= Need(t) + h
           /\ \A k \in (b + 1)..t : cs[k].framed => s <= cs[k].sp - Frame
<1>1. b \in Nat /\ t \in Nat /\ b <= t /\ t <= MaxCalls /\ MaxCalls \in Nat
      /\ h \in Nat /\ base \in Int /\ Frame \in Nat
  BY FrameAssumption DEF Room
<1>2. CASE b = t
  <2>1. s = base
    BY <1>1, <1>2 DEF Context, AtPlace, Code
  <2>2. QED
    BY <1>1, <1>2, <2>1 DEF Room
<1>3. CASE b < t
  <2>1. cs[t] \in CallRecords /\ t \in (b + 1)..t
    BY <1>1, <1>3
  <2>2. cs[t].sp \in Int
    BY <2>1 DEF CallRecords, Cells
  <2>3. Need(t - 1) = Need(t) + Frame /\ Need(t) \in Nat
    <3>1. t - 1 \in 0..(MaxCalls - 1) /\ (t - 1) + 1 = t
      BY <1>1, <1>3
    <3>2. QED
      BY <3>1, NeedStep
  <2>4. cs[t].sp <= base /\ cs[t].sp >= Need(t - 1) + h
    BY <2>1 DEF Context, Chain
  <2>5. \/ ~cs[t].framed /\ s = cs[t].sp
        \/ s = cs[t].sp - Frame
    BY <1>1, <1>3 DEF Context, AtPlace, Code
  <2>6. ASSUME NEW k \in (b + 1)..t, k < t
        PROVE  cs[t].sp <= cs[k].sp - Frame
    BY <2>1, <2>6 DEF Context, Chain
  <2>7. ASSUME NEW k \in (b + 1)..t, cs[k].framed
        PROVE  s <= cs[k].sp - Frame
    <3>1. cs[k].sp \in Int
      <4>1. cs[k] \in CallRecords
        BY <1>1
      <4>2. QED
        BY <4>1 DEF CallRecords, Cells
    <3>2. CASE k < t
      BY <1>1, <2>2, <2>5, <2>6, <3>1, <3>2, SMTT(30)
    <3>3. CASE k = t
      BY <1>1, <2>2, <2>5, <2>7, <3>3
    <3>4. QED
      BY <1>1, <3>2, <3>3
  <2>8. QED
    BY <1>1, <2>2, <2>3, <2>4, <2>5, <2>7, SMTT(30)
<1>4. QED
  BY <1>1, <1>2, <1>3

(* A chain of which only the last call's frame and what lies behind it     *)
(* change is still one.                                                    *)
LEMMA ChainKept ==
    ASSUME NEW cs, NEW ds, NEW b \in Nat, NEW t \in Nat, NEW u \in Nat, NEW base, NEW h,
           Chain(cs, b, t, base, h), u <= t,
           \A k \in 1..u : ds[k].sp = cs[k].sp,
           \A k \in 1..(u - 1) : ds[k].framed = cs[k].framed
    PROVE  Chain(ds, b, u, base, h)
<1>1. b < u => ds[b + 1].sp = base
  BY DEF Chain
<1>2. \A k \in (b + 1)..u : ds[k].sp <= base /\ ds[k].sp >= Need(k - 1) + h
  BY DEF Chain
<1>3. ASSUME NEW j \in (b + 1)..u, NEW k \in (b + 1)..u, j < k
      PROVE  ds[j].framed /\ ds[k].sp <= ds[j].sp - Frame
  <2>1. cs[j].framed /\ cs[k].sp <= cs[j].sp - Frame
    BY <1>3 DEF Chain
  <2>2. ds[j].sp = cs[j].sp /\ ds[k].sp = cs[k].sp /\ ds[j].framed = cs[j].framed
    BY <1>3
  <2>3. QED
    BY <2>1, <2>2
<1>4. \A k \in (b + 1)..u : k < u => ds[k + 1].sp = ds[k].sp - Frame
  BY DEF Chain
<1>5. QED
  BY <1>1, <1>2, <1>3, <1>4 DEF Chain

(* A context whose calls are the same is the same.                         *)
LEMMA ContextKept ==
    ASSUME NEW cs, NEW ds, NEW b \in Nat, NEW t \in Nat, NEW base, NEW h,
           NEW p, NEW f, NEW l, NEW s,
           Context(cs, b, t, p, f, l, s, base, h),
           \A k \in 1..t : ds[k] = cs[k]
    PROVE  Context(ds, b, t, p, f, l, s, base, h)
<1>1. Chain(ds, b, t, base, h)
  <2>1. /\ Chain(cs, b, t, base, h) /\ t <= t
        /\ \A k \in 1..t : ds[k].sp = cs[k].sp
        /\ \A k \in 1..(t - 1) : ds[k].framed = cs[k].framed
    BY DEF Context
  <2>2. QED
    BY <2>1, ChainKept
<1>2. b < t => ds[t] = cs[t]
  OBVIOUS
<1>3. AtPlace(ds, b, t, p, f, l, s, base)
  BY <1>2 DEF Context, AtPlace
<1>4. QED
  BY <1>1, <1>3 DEF Context

(* The function a chain calls next.                                        *)
LEMMA ChainCalled ==
    ASSUME NEW cs \in Seq(CallRecords), NEW b \in Nat, NEW base \in Int, NEW h \in Nat,
           NEW r \in CallRecords, b <= Len(cs),
           Chain(cs, b, Len(cs), base, h),
           \/ b < Len(cs) /\ cs[Len(cs)].framed /\ r.sp = cs[Len(cs)].sp - Frame
           \/ b = Len(cs) /\ r.sp = base,
           r.sp <= base, r.sp >= Need(Len(cs)) + h, ~r.framed,
           \A k \in (b + 1)..Len(cs) : cs[k].framed => r.sp <= cs[k].sp - Frame
    PROVE  /\ Chain(Append(cs, r), b, Len(cs) + 1, base, h)
           /\ AtPlace(Append(cs, r), b, Len(cs) + 1, "enter", r.fp, r.ret, r.sp, base)
<1> DEFINE ds == Append(cs, r)
           t == Len(cs)
<1>1. /\ t \in Nat /\ ds[t + 1] = r
      /\ \A k \in 1..t : ds[k] = cs[k]
  OBVIOUS
<1> HIDE DEF ds
<1>2. b < t + 1 => ds[b + 1].sp = base
  BY <1>1 DEF Chain
<1>3. ASSUME NEW k \in (b + 1)..(t + 1)
      PROVE  ds[k].sp <= base /\ ds[k].sp >= Need(k - 1) + h
  <2>1. CASE k <= t
    <3>1. k \in (b + 1)..t /\ k \in 1..t
      BY <1>1, <2>1
    <3>2. QED
      BY <1>1, <3>1 DEF Chain
  <2>2. CASE k = t + 1
    <3>1. k - 1 = t
      BY <1>1, <2>2
    <3>2. QED
      BY <1>1, <2>2, <3>1
  <2>3. QED
    BY <1>1, <2>1, <2>2
<1>4. ASSUME NEW j \in (b + 1)..(t + 1), NEW k \in (b + 1)..(t + 1), j < k
      PROVE  ds[j].framed /\ ds[k].sp <= ds[j].sp - Frame
  <2>1. CASE k <= t
    <3>1. /\ j \in (b + 1)..t /\ k \in (b + 1)..t
          /\ ds[j] = cs[j] /\ ds[k] = cs[k]
      BY <1>1, <1>4, <2>1
    <3>2. QED
      BY <1>4, <3>1 DEF Chain
  <2>2. CASE k = t + 1
    <3>1. j \in (b + 1)..t /\ ds[j] = cs[j]
      BY <1>1, <1>4, <2>2
    <3>2. cs[j].framed
      <4>1. CASE j = t
        BY <4>1, <3>1, <1>1
      <4>2. CASE j < t
        <5>1. t \in (b + 1)..t
          BY <3>1, <1>1
        <5>2. QED
          BY <4>2, <3>1, <5>1 DEF Chain
      <4>3. QED
        BY <1>1, <3>1, <4>1, <4>2
    <3>3. QED
      BY <1>1, <2>2, <3>1, <3>2
  <2>3. QED
    BY <1>1, <1>4, <2>1, <2>2
<1>5. ASSUME NEW k \in (b + 1)..(t + 1), k < t + 1
      PROVE  ds[k + 1].sp = ds[k].sp - Frame
  <2>1. CASE k < t
    <3>1. k \in (b + 1)..t /\ ds[k] = cs[k] /\ ds[k + 1] = cs[k + 1]
      BY <1>1, <2>1
    <3>2. QED
      BY <2>1, <3>1 DEF Chain
  <2>2. CASE k = t
    BY <1>1, <2>2
  <2>3. QED
    BY <1>1, <1>5, <2>1, <2>2
<1>6. Chain(ds, b, t + 1, base, h)
  BY <1>2, <1>3, <1>4, <1>5 DEF Chain
<1>7. AtPlace(ds, b, t + 1, "enter", r.fp, r.ret, r.sp, base)
  BY <1>1, FrameAssumption DEF AtPlace, Code
<1>8. QED
  BY <1>6, <1>7 DEF ds

-----------------------------------------------------------------------------
(* The steps of a program in its context: it keeps the calls below it and  *)
(* the cells above the stack pointer it started with.                      *)

Good == TypeOK /\ calls \in Seq(CallRecords) /\ SavedLinks

Running(b, base, h) ==
    /\ Room(b, Len(calls), base, h)
    /\ \A k \in 1..b : calls[k].framed => base <= calls[k].sp - Frame
    /\ Context(calls, b, Len(calls), pc, fp, lr, sp, base, h)

Kept(b, base) ==
    /\ b <= Len(calls')
    /\ \A k \in 1..b : calls'[k] = calls[k]
    /\ \A a \in Cells : a >= base => mem'[a] = mem[a]

SameReturns(b) ==
    \A k \in (b + 1)..Len(calls') :
        calls'[k].ret \in Sites \/ (k <= Len(calls) /\ calls'[k].ret = calls[k].ret)

LEMMA RecordParts ==
    ASSUME NEW r \in CallRecords
    PROVE  /\ r.sp \in Cells /\ r.sp \in Int /\ r.fp \in Values
           /\ r.ret \in Sites \cup {Resume} /\ r.framed \in BOOLEAN
  BY DEF CallRecords, Cells

LEMMA SetFramedIs ==
    ASSUME calls \in Seq(CallRecords), Len(calls) > 0, NEW x \in BOOLEAN, SetFramed(x)
    PROVE  /\ calls' \in Seq(CallRecords) /\ Len(calls') = Len(calls)
           /\ \A k \in 1..(Len(calls) - 1) : calls'[k] = calls[k]
           /\ LastCall'.sp = LastCall.sp /\ LastCall'.fp = LastCall.fp
           /\ LastCall'.ret = LastCall.ret /\ LastCall'.framed = x
<1> DEFINE t == Len(calls)
           r == [calls[t] EXCEPT !.framed = x]
<1>1. t \in Nat /\ t \in 1..t /\ calls[t] \in CallRecords
  OBVIOUS
<1>2. /\ r \in CallRecords /\ r.sp = calls[t].sp /\ r.fp = calls[t].fp
      /\ r.ret = calls[t].ret /\ r.framed = x
  BY <1>1 DEF CallRecords
<1>3. calls' = [calls EXCEPT ![t] = r]
  BY DEF SetFramed
<1> HIDE DEF r
<1>4. /\ calls' \in Seq(CallRecords) /\ Len(calls') = t
      /\ \A k \in 1..(t - 1) : calls'[k] = calls[k]
      /\ calls'[t] = r
  BY <1>1, <1>2, <1>3
<1>5. QED
  BY <1>2, <1>4 DEF LastCall

LEMMA BranchIs ==
    ASSUME Good, NEW site \in Sites \cup {Resume}, Branch(site)
    PROVE  LET r == [ret |-> site, fp |-> fp, sp |-> sp, framed |-> FALSE]
           IN  /\ r \in CallRecords /\ calls' = Append(calls, r)
               /\ Len(calls') = Len(calls) + 1 /\ Len(calls) < MaxCalls
               /\ calls' \in Seq(CallRecords) /\ calls'[Len(calls) + 1] = r
               /\ \A k \in 1..Len(calls) : calls'[k] = calls[k]
               /\ SavedLinks'
<1> DEFINE r == [ret |-> site, fp |-> fp, sp |-> sp, framed |-> FALSE]
<1>1. r \in CallRecords /\ ~r.framed
  BY DEF Good, TypeOK, Cells, CallRecords
<1>2. calls' = Append(calls, r) /\ Len(calls) < MaxCalls /\ mem' = mem
  BY DEF Branch
<1> HIDE DEF r
<1>3. /\ Len(calls') = Len(calls) + 1 /\ calls' \in Seq(CallRecords)
      /\ calls'[Len(calls) + 1] = r /\ \A k \in 1..Len(calls) : calls'[k] = calls[k]
  BY <1>1, <1>2 DEF Good
<1>4. ASSUME NEW k \in 1..Len(calls'), calls'[k].framed
      PROVE  mem'[calls'[k].sp - Frame] = calls'[k].fp
             /\ mem'[calls'[k].sp - Frame + 1] = calls'[k].ret
  <2>1. k # Len(calls) + 1
    BY <1>1, <1>3, <1>4
  <2>2. k \in 1..Len(calls)
    BY <1>3, <2>1 DEF Good
  <2>3. QED
    BY <1>2, <1>3, <1>4, <2>2 DEF Good, SavedLinks
<1>5. SavedLinks'
  BY <1>4 DEF SavedLinks
<1>6. QED
  BY <1>1, <1>2, <1>3, <1>5 DEF r

LEMMA RunningRoom ==
    ASSUME Good, NEW b, NEW base, NEW h, Running(b, base, h)
    PROVE  /\ b \in Nat /\ h \in Nat /\ base \in Int /\ base <= Top
           /\ b <= Len(calls) /\ Len(calls) \in Nat /\ Len(calls) <= MaxCalls
           /\ sp \in Int /\ sp <= base /\ sp >= Need(Len(calls)) + h
           /\ Need(Len(calls)) \in Nat
           /\ \A k \in 1..Len(calls) : calls[k].framed => sp <= calls[k].sp - Frame
<1>1. /\ b \in Nat /\ h \in Nat /\ base \in Int /\ base <= Top
      /\ b <= Len(calls) /\ Len(calls) \in Nat /\ Len(calls) <= MaxCalls
  BY DEF Running, Room, Good
<1>2. /\ sp \in Int /\ sp <= base /\ sp >= Need(Len(calls)) + h
      /\ \A k \in (b + 1)..Len(calls) : calls[k].framed => sp <= calls[k].sp - Frame
  BY <1>1, PointerInRoom DEF Running, Good
<1>3. Need(Len(calls)) \in Nat
  BY <1>1, NeedType
<1>4. ASSUME NEW k \in 1..Len(calls), calls[k].framed PROVE sp <= calls[k].sp - Frame
  <2>1. calls[k].sp \in Int
    BY RecordParts DEF Good
  <2>2. CASE k <= b
    <3>1. base <= calls[k].sp - Frame
      BY <1>1, <1>4, <2>2 DEF Running
    <3>2. QED
      BY <1>1, <1>2, <2>1, <3>1, FrameAssumption
  <2>3. CASE k > b
    BY <1>1, <1>2, <1>4, <2>3
  <2>4. QED
    BY <1>1, <2>2, <2>3
<1>5. QED
  BY <1>1, <1>2, <1>3, <1>4

LEMMA BLRuns ==
    ASSUME Good, NEW b, NEW base, NEW h, Running(b, base, h), BL
    PROVE  Good' /\ Running(b, base, h)' /\ Kept(b, base) /\ SameReturns(b)
<1> DEFINE t == Len(calls)
<1>1. PICK site \in Sites : At(Sites \cup {"body"}, "enter") /\ Branch(site)
  BY DEF BL
<1> DEFINE r == [ret |-> site, fp |-> fp, sp |-> sp, framed |-> FALSE]
<1>2. /\ r \in CallRecords /\ calls' = Append(calls, r)
      /\ Len(calls') = t + 1 /\ t < MaxCalls
      /\ calls' \in Seq(CallRecords) /\ calls'[t + 1] = r
      /\ \A k \in 1..t : calls'[k] = calls[k]
      /\ SavedLinks'
  BY <1>1, BranchIs
<1>3. /\ r.ret = site /\ r.fp = fp /\ r.sp = sp /\ ~r.framed
  OBVIOUS
<1>4. /\ lr' = site /\ UNCHANGED <<fp, x31, sp, mem>> /\ pc' = "enter" /\ elr' = elr
      /\ pc \in Sites \cup {"body"}
  BY <1>1 DEF Branch, At
<1> HIDE DEF r
<1>5. /\ b \in Nat /\ h \in Nat /\ base \in Int /\ base <= Top /\ b <= t /\ t \in Nat
      /\ sp \in Int /\ sp <= base /\ sp >= Need(t) + h
      /\ \A k \in 1..t : calls[k].framed => sp <= calls[k].sp - Frame
  BY RunningRoom
<1>6. Context(calls', b, t + 1, "enter", fp, site, sp, base, h)
  <2>1. \/ b < t /\ calls[t].framed /\ r.sp = calls[t].sp - Frame
        \/ b = t /\ r.sp = base
    BY <1>3, <1>4 DEF Running, Context, AtPlace
  <2>2. Chain(calls, b, t, base, h)
    BY DEF Running, Context
  <2>3. \A k \in (b + 1)..t : calls[k].framed => r.sp <= calls[k].sp - Frame
    BY <1>3, <1>5
  <2>4. /\ Chain(calls', b, t + 1, base, h)
        /\ AtPlace(calls', b, t + 1, "enter", r.fp, r.ret, r.sp, base)
    BY <1>2, <1>3, <1>5, <2>1, <2>2, <2>3, ChainCalled DEF Good
  <2>5. QED
    BY <1>3, <2>4 DEF Context, Code
<1>7. Good'
  <2>1. Len(calls') <= MaxCalls
    BY <1>2, <1>5, FrameAssumption
  <2>2. lr' \in Values /\ pc' \in Code
    BY <1>4 DEF Values, Code
  <2>3. QED
    BY <1>2, <1>4, <2>1, <2>2 DEF Good, TypeOK
<1>8. Running(b, base, h)'
  <2>1. Room(b, t + 1, base, h)
    BY <1>2, <1>5, FrameAssumption DEF Running, Room
  <2>2. \A k \in 1..b : calls'[k].framed => base <= calls'[k].sp - Frame
    BY <1>2, <1>5 DEF Running
  <2>3. QED
    BY <1>2, <1>4, <1>6, <2>1, <2>2 DEF Running
<1>9. Kept(b, base) /\ SameReturns(b)
  <2>1. \A k \in (b + 1)..(t + 1) : calls'[k].ret \in Sites
                                    \/ (k <= t /\ calls'[k].ret = calls[k].ret)
    BY <1>2, <1>3, <1>5
  <2>2. QED
    BY <1>2, <1>4, <1>5, <2>1 DEF Kept, SameReturns
<1>10. QED
  BY <1>7, <1>8, <1>9

LEMMA LeafRuns ==
    ASSUME Good, NEW b, NEW base, NEW h, Running(b, base, h), Leaf
    PROVE  Good' /\ Running(b, base, h)' /\ Kept(b, base) /\ SameReturns(b)
<1>1. /\ UNCHANGED <<registers, calls, elr>> /\ pc = "enter" /\ pc' = "ret"
  BY DEF Leaf, At
<1>2. Good'
  BY <1>1 DEF registers, Good, TypeOK, SavedLinks, Code
<1>3. Context(calls, b, Len(calls), "ret", fp, lr, sp, base, h)
  BY <1>1, FrameAssumption DEF Running, Context, AtPlace, Code
<1>4. Running(b, base, h)'
  BY <1>1, <1>3 DEF registers, Running
<1>5. Kept(b, base) /\ SameReturns(b)
  BY <1>1, RunningRoom DEF registers, Kept, SameReturns
<1>6. QED
  BY <1>2, <1>4, <1>5

LEMMA SetFramePointerRuns ==
    ASSUME Good, NEW b, NEW base, NEW h, Running(b, base, h), SetFramePointer
    PROVE  Good' /\ Running(b, base, h)' /\ Kept(b, base) /\ SameReturns(b)
<1>1. /\ UNCHANGED <<lr, x31, sp, mem, calls, elr>> /\ pc = "frame" /\ pc' = "locals"
      /\ fp' = sp
  BY DEF SetFramePointer, At
<1>2. Good'
  BY <1>1 DEF Good, TypeOK, SavedLinks, Code, Values
<1>3. Context(calls, b, Len(calls), "locals", fp', lr, sp, base, h)
  BY <1>1, FrameAssumption DEF Running, Context, AtPlace, Code
<1>4. Running(b, base, h)'
  BY <1>1, <1>3 DEF Running
<1>5. Kept(b, base) /\ SameReturns(b)
  BY <1>1, RunningRoom DEF Kept, SameReturns
<1>6. QED
  BY <1>2, <1>4, <1>5

(* The local is in the function's own frame, above what it has saved.      *)
LEMMA StoreLocalRuns ==
    ASSUME Good, NEW b, NEW base, NEW h, Running(b, base, h), StoreLocal
    PROVE  Good' /\ Running(b, base, h)' /\ Kept(b, base) /\ SameReturns(b)
<1> DEFINE t == Len(calls)
<1>1. /\ UNCHANGED <<lr, x31, fp, sp, calls, elr>> /\ pc = "locals" /\ pc' = "body"
      /\ mem' = [mem EXCEPT ![sp + 2] = Data]
  BY DEF StoreLocal, At, STR, WriteBack31, Address
<1>2. /\ b \in Nat /\ t \in Nat /\ base \in Int /\ base <= Top /\ sp \in Int /\ b <= t
      /\ \A k \in 1..t : calls[k].framed => sp <= calls[k].sp - Frame
  BY RunningRoom
<1>3. b < t /\ calls[t].framed /\ sp = calls[t].sp - Frame
  BY <1>1 DEF Running, Context, AtPlace
<1>4. t \in (b + 1)..t /\ t \in 1..t
  BY <1>2, <1>3
<1>5. calls[t].sp <= base
  BY <1>4 DEF Running, Context, Chain
<1>6. ASSUME NEW k \in 1..t, calls[k].framed
      PROVE  calls[k].sp - Frame = sp \/ calls[k].sp - Frame >= sp + Frame
  <2>1. calls[k].sp \in Int /\ calls[t].sp \in Int
    BY <1>4, RecordParts DEF Good
  <2>2. CASE k <= b
    <3>1. base <= calls[k].sp - Frame
      BY <1>2, <1>6, <2>2 DEF Running
    <3>2. QED
      BY <1>2, <1>3, <1>5, <2>1, <3>1, FrameAssumption, SMTT(30)
  <2>3. CASE k > b /\ k < t
    <3>1. k \in (b + 1)..t
      BY <1>2, <2>3
    <3>2. calls[t].sp <= calls[k].sp - Frame
      BY <1>4, <2>3, <3>1 DEF Running, Context, Chain
    <3>3. QED
      BY <1>2, <1>3, <2>1, <3>2, FrameAssumption
  <2>4. CASE k = t
    BY <1>3, <2>4
  <2>5. QED
    BY <1>2, <2>2, <2>3, <2>4
<1>7. \A k \in 1..t : calls[k].framed =>
          /\ mem'[calls[k].sp - Frame] = mem[calls[k].sp - Frame]
          /\ mem'[calls[k].sp - Frame + 1] = mem[calls[k].sp - Frame + 1]
  <2>1. ASSUME NEW k \in 1..t, calls[k].framed
        PROVE  calls[k].sp - Frame # sp + 2 /\ calls[k].sp - Frame + 1 # sp + 2
    <3>1. calls[k].sp \in Int
      BY RecordParts DEF Good
    <3>2. QED
      BY <1>2, <1>6, <2>1, <3>1, FrameAssumption
  <2>2. QED
    BY <1>1, <2>1
<1>8. Good'
  <2>1. SavedLinks'
    <3>1. \A k \in 1..t : calls[k].framed => /\ mem'[calls[k].sp - Frame] = calls[k].fp
                                              /\ mem'[calls[k].sp - Frame + 1] = calls[k].ret
      BY <1>7 DEF Good, SavedLinks
    <3>2. QED
      BY <1>1, <3>1 DEF SavedLinks
  <2>2. mem' \in [Cells -> Values]
    BY <1>1 DEF Good, TypeOK, Values
  <2>3. QED
    BY <1>1, <2>1, <2>2 DEF Good, TypeOK, Code
<1>9. Context(calls, b, t, "body", fp, lr, sp, base, h)
  BY <1>1, <1>3, FrameAssumption DEF Running, Context, AtPlace, Code
<1>10. Running(b, base, h)'
  BY <1>1, <1>9 DEF Running
<1>11. Kept(b, base) /\ SameReturns(b)
  <2>1. calls[t].sp \in Int
    BY <1>4, RecordParts DEF Good
  <2>2. sp + 2 < base
    BY <1>2, <1>3, <1>5, <2>1, FrameAssumption
  <2>3. \A a \in Cells : a >= base => mem'[a] = mem[a]
    BY <1>1, <1>2, <2>2 DEF Cells
  <2>4. QED
    BY <1>1, <1>2, <2>3 DEF Kept, SameReturns
<1>12. QED
  BY <1>8, <1>10, <1>11

(* A function's frame lies right below its caller's stack pointer.         *)
LEMMA PushRuns ==
    ASSUME Good, NEW b, NEW base, NEW h, Running(b, base, h), Push
    PROVE  Good' /\ Running(b, base, h)' /\ Kept(b, base) /\ SameReturns(b)
<1> DEFINE t == Len(calls)
           a == sp - Frame
<1>1. /\ UNCHANGED <<lr, x31, fp, elr>> /\ pc = "enter" /\ pc' = "frame"
      /\ SetFramed(TRUE)
  BY DEF Push, At, Pair, Moves
<1>2. /\ b \in Nat /\ h \in Nat /\ t \in Nat /\ base \in Int /\ base <= Top
      /\ sp \in Int /\ sp <= base /\ b <= t /\ t <= MaxCalls
      /\ \A k \in 1..t : calls[k].framed => sp <= calls[k].sp - Frame
  BY RunningRoom
<1>3. a \in Int /\ sp + -Frame = a /\ a + 1 \in Int /\ a + 1 < sp
  BY <1>2, FrameAssumption
<1>4. /\ mem' = [mem EXCEPT ![a] = fp, ![a + 1] = lr] /\ sp' = a
  BY <1>3 DEF Push, Pair, Moves, Address, WritesBack
<1>5. b < t /\ ~LastCall.framed /\ fp = LastCall.fp /\ lr = LastCall.ret /\ sp = LastCall.sp
  BY <1>1 DEF Running, Context, AtPlace, LastCall
<1>6. /\ calls' \in Seq(CallRecords) /\ Len(calls') = t
      /\ \A k \in 1..(t - 1) : calls'[k] = calls[k]
      /\ LastCall'.sp = LastCall.sp /\ LastCall'.fp = LastCall.fp
      /\ LastCall'.ret = LastCall.ret /\ LastCall'.framed = TRUE
  <2>1. Len(calls) > 0 /\ calls \in Seq(CallRecords)
    BY <1>2, <1>5 DEF Good
  <2>2. QED
    BY <1>1, <2>1, SetFramedIs
<1>7. LastCall = calls[t] /\ LastCall' = calls'[t]
  BY <1>6 DEF LastCall
<1>8. sp >= Frame
  <2>1. t \in (b + 1)..t /\ t - 1 \in 0..(MaxCalls - 1) /\ (t - 1) + 1 = t
    BY <1>2, <1>5, FrameAssumption
  <2>2. sp >= Need(t - 1) + h
    BY <1>5, <1>7, <2>1 DEF Running, Context, Chain
  <2>3. Need(t - 1) \in Nat /\ Need(t) \in Nat /\ Need(t - 1) = Need(t) + Frame
    BY <2>1, NeedStep
  <2>4. QED
    BY <1>2, <2>2, <2>3, FrameAssumption
<1>9. a \in Cells /\ a + 1 \in Cells
  BY <1>2, <1>3, <1>8, TopNeed, FrameAssumption DEF Cells
<1>10. /\ mem' \in [Cells -> Values] /\ mem'[a] = fp /\ mem'[a + 1] = lr
       /\ \A c \in Cells : c >= sp => mem'[c] = mem[c]
  <2>1. a # a + 1 /\ mem \in [Cells -> Values] /\ fp \in Values /\ lr \in Values
    BY <1>3 DEF Good, TypeOK
  <2>2. mem' \in [Cells -> Values] /\ mem'[a] = fp /\ mem'[a + 1] = lr
    BY <1>4, <1>9, <2>1
  <2>3. ASSUME NEW c \in Cells, c >= sp PROVE mem'[c] = mem[c]
    <3>1. c # a /\ c # a + 1
      BY <1>2, <1>3, <2>3, FrameAssumption DEF Cells
    <3>2. QED
      BY <1>4, <2>1, <3>1
  <2>4. QED
    BY <2>2, <2>3
<1> HIDE DEF a
<1>11. \A k \in 1..t : calls[k].framed =>
           /\ mem'[calls[k].sp - Frame] = mem[calls[k].sp - Frame]
           /\ mem'[calls[k].sp - Frame + 1] = mem[calls[k].sp - Frame + 1]
  <2> SUFFICES ASSUME NEW k \in 1..t, calls[k].framed
               PROVE  /\ mem'[calls[k].sp - Frame] = mem[calls[k].sp - Frame]
                      /\ mem'[calls[k].sp - Frame + 1] = mem[calls[k].sp - Frame + 1]
    OBVIOUS
  <2>1. calls[k].sp \in Cells /\ sp <= calls[k].sp - Frame
    BY <1>2, RecordParts DEF Good
  <2>2. sp \in Cells
    BY DEF Good, TypeOK
  <2>3. calls[k].sp - Frame \in Cells /\ calls[k].sp - Frame + 1 \in Cells
        /\ calls[k].sp - Frame + 1 >= sp
    BY <2>1, <2>2, TopNeed, FrameAssumption, SMTT(30) DEF Cells
  <2>4. QED
    BY <1>10, <2>1, <2>3
<1>12. SavedLinks'
  <2>1. ASSUME NEW k \in 1..(t - 1), calls'[k].framed
        PROVE  mem'[calls'[k].sp - Frame] = calls'[k].fp
               /\ mem'[calls'[k].sp - Frame + 1] = calls'[k].ret
    <3>1. k \in 1..t /\ calls'[k] = calls[k]
      BY <1>2, <1>6
    <3>2. QED
      BY <1>11, <2>1, <3>1 DEF Good, SavedLinks
  <2>2. mem'[calls'[t].sp - Frame] = calls'[t].fp /\ mem'[calls'[t].sp - Frame + 1] = calls'[t].ret
    BY <1>5, <1>6, <1>7, <1>10 DEF a
  <2>3. ASSUME NEW k \in 1..t PROVE k \in 1..(t - 1) \/ k = t
    BY <1>2
  <2>4. QED
    BY <1>6, <2>1, <2>2, <2>3 DEF SavedLinks
<1>13. Good'
  BY <1>1, <1>4, <1>6, <1>9, <1>10, <1>12 DEF Good, TypeOK, Code
<1>14. Context(calls', b, t, "frame", fp, lr, a, base, h)
  <2>1. \A k \in 1..t : calls'[k].sp = calls[k].sp
    <3>1. ASSUME NEW k \in 1..t PROVE k \in 1..(t - 1) \/ k = t
      BY <1>2
    <3>2. QED
      BY <1>6, <1>7, <3>1
  <2>2. Chain(calls', b, t, base, h)
    <3>1. Chain(calls, b, t, base, h) /\ t <= t
          /\ \A k \in 1..(t - 1) : calls'[k].framed = calls[k].framed
      BY <1>2, <1>6 DEF Running, Context
    <3>2. QED
      BY <1>2, <2>1, <3>1, ChainKept
  <2>3. b < t /\ calls'[t].framed /\ a = calls'[t].sp - Frame
    BY <1>5, <1>6, <1>7 DEF a
  <2>4. QED
    BY <2>2, <2>3, FrameAssumption DEF Context, AtPlace, Code
<1>15. Running(b, base, h)'
  <2>1. \A k \in 1..b : calls'[k].framed => base <= calls'[k].sp - Frame
    BY <1>2, <1>5, <1>6 DEF Running
  <2>2. QED
    BY <1>1, <1>4, <1>6, <1>14, <2>1 DEF Running
<1>16. Kept(b, base) /\ SameReturns(b)
  <2>1. \A k \in 1..b : calls'[k] = calls[k]
    BY <1>2, <1>5, <1>6
  <2>2. \A c \in Cells : c >= base => mem'[c] = mem[c]
    BY <1>2, <1>10 DEF Cells
  <2>3. \A k \in (b + 1)..t : calls'[k].ret = calls[k].ret
    BY <1>2, <1>6, <1>7
  <2>4. QED
    BY <1>2, <1>6, <2>1, <2>2, <2>3 DEF Kept, SameReturns
<1>17. QED
  BY <1>13, <1>15, <1>16

(* The function takes back what it has saved.                              *)
LEMMA PopRuns ==
    ASSUME Good, NEW b, NEW base, NEW h, Running(b, base, h), b < Len(calls), Pop
    PROVE  Good' /\ Running(b, base, h)' /\ Kept(b, base) /\ SameReturns(b)
<1> DEFINE t == Len(calls)
<1>1. /\ UNCHANGED <<mem, x31, elr>> /\ pc \in Sites \cup {"body"} /\ pc' = "ret"
      /\ SetFramed(FALSE) /\ fp' = mem[sp] /\ lr' = mem[sp + 1] /\ sp' = sp + Frame
  BY DEF Pop, At, Pair, Moves, Address, WritesBack
<1>2. /\ b \in Nat /\ t \in Nat /\ base \in Int /\ base <= Top
      /\ sp \in Int /\ sp <= base /\ sp \in Cells
      /\ \A k \in 1..t : calls[k].framed => sp <= calls[k].sp - Frame
  BY RunningRoom DEF Good, TypeOK
<1>3. LastCall.framed /\ sp = LastCall.sp - Frame /\ LastCall.sp \in Int
  <2>1. t \in 1..t
    BY <1>2
  <2>2. calls[t].sp \in Int
    BY <2>1, RecordParts DEF Good
  <2>3. QED
    BY <1>1, <2>2 DEF Running, Context, AtPlace, LastCall
<1>4. fp' = LastCall.fp /\ lr' = LastCall.ret /\ sp' = LastCall.sp
  <2>1. t \in 1..t
    BY <1>2
  <2>2. mem[calls[t].sp - Frame] = calls[t].fp /\ mem[calls[t].sp - Frame + 1] = calls[t].ret
    BY <1>3, <2>1 DEF Good, SavedLinks, LastCall
  <2>3. sp' = LastCall.sp
    BY <1>1, <1>2, <1>3, FrameAssumption
  <2>4. QED
    BY <1>1, <1>3, <2>2, <2>3 DEF LastCall
<1>5. /\ calls' \in Seq(CallRecords) /\ Len(calls') = t
      /\ \A k \in 1..(t - 1) : calls'[k] = calls[k]
      /\ LastCall'.sp = LastCall.sp /\ LastCall'.fp = LastCall.fp
      /\ LastCall'.ret = LastCall.ret /\ LastCall'.framed = FALSE
  <2>1. Len(calls) > 0 /\ calls \in Seq(CallRecords)
    BY <1>2 DEF Good
  <2>2. QED
    BY <1>1, <2>1, SetFramedIs
<1>6. LastCall = calls[t] /\ LastCall' = calls'[t] /\ t \in (b + 1)..t /\ t \in 1..t
  BY <1>2, <1>5 DEF LastCall
<1>7. SavedLinks'
  <2>1. ASSUME NEW k \in 1..t, calls'[k].framed
        PROVE  mem'[calls'[k].sp - Frame] = calls'[k].fp
               /\ mem'[calls'[k].sp - Frame + 1] = calls'[k].ret
    <3>1. k \in 1..(t - 1)
      BY <1>2, <1>5, <1>6, <2>1
    <3>2. QED
      BY <1>1, <1>2, <1>5, <2>1, <3>1 DEF Good, SavedLinks
  <2>2. QED
    BY <1>5, <2>1 DEF SavedLinks
<1>8. sp' \in Cells
  <2>1. LastCall.sp <= base
    BY <1>6 DEF Running, Context, Chain
  <2>2. sp' \in Int /\ sp' <= Top /\ 0 <= sp'
    BY <1>1, <1>2, <1>3, <1>4, <2>1, TopNeed, FrameAssumption DEF Cells
  <2>3. QED
    BY <2>2 DEF Cells
<1>9. Good'
  <2>1. fp' \in Values /\ lr' \in Values
    <3>1. LastCall \in CallRecords
      BY <1>6 DEF Good
    <3>2. QED
      BY <1>4, <3>1, RecordParts DEF Values
  <2>2. QED
    BY <1>1, <1>5, <1>7, <1>8, <2>1 DEF Good, TypeOK, Code
<1>10. Context(calls', b, t, "ret", fp', lr', sp', base, h)
  <2>1. \A k \in 1..t : calls'[k].sp = calls[k].sp
    <3>1. ASSUME NEW k \in 1..t PROVE k \in 1..(t - 1) \/ k = t
      BY <1>2
    <3>2. QED
      BY <1>5, <1>6, <3>1
  <2>2. Chain(calls', b, t, base, h)
    <3>1. Chain(calls, b, t, base, h) /\ t <= t
          /\ \A k \in 1..(t - 1) : calls'[k].framed = calls[k].framed
      BY <1>2, <1>5 DEF Running, Context
    <3>2. QED
      BY <1>2, <2>1, <3>1, ChainKept
  <2>3. /\ b < t /\ ~calls'[t].framed
        /\ fp' = calls'[t].fp /\ lr' = calls'[t].ret /\ sp' = calls'[t].sp
    BY <1>4, <1>5, <1>6
  <2>4. QED
    BY <2>2, <2>3, FrameAssumption DEF Context, AtPlace, Code
<1>11. Running(b, base, h)'
  <2>1. \A k \in 1..b : calls'[k].framed => base <= calls'[k].sp - Frame
    BY <1>2, <1>5 DEF Running
  <2>2. QED
    BY <1>1, <1>5, <1>10, <2>1 DEF Running
<1>12. Kept(b, base) /\ SameReturns(b)
  <2>1. \A k \in 1..b : calls'[k] = calls[k]
    BY <1>2, <1>5
  <2>2. \A k \in (b + 1)..t : calls'[k].ret = calls[k].ret
    BY <1>2, <1>5, <1>6
  <2>3. QED
    BY <1>1, <1>2, <1>5, <2>1, <2>2 DEF Kept, SameReturns
<1>13. QED
  BY <1>9, <1>11, <1>12

LEMMA FirstCalls ==
    ASSUME NEW cs \in Seq(CallRecords), NEW u \in Nat, u <= Len(cs)
    PROVE  /\ SubSeq(cs, 1, u) \in Seq(CallRecords) /\ Len(SubSeq(cs, 1, u)) = u
           /\ \A k \in 1..u : SubSeq(cs, 1, u)[k] = cs[k]
<1>1. /\ SubSeq(cs, 1, u) \in Seq(CallRecords)
      /\ Len(SubSeq(cs, 1, u)) = IF 1 <= u THEN u - 1 + 1 ELSE 0
      /\ \A k \in 1..(u - 1 + 1) : SubSeq(cs, 1, u)[k] = cs[1 + k - 1]
  <2>1. u \in Int /\ \A k \in 1..u : cs[k] \in CallRecords
    OBVIOUS
  <2>2. QED
    BY <2>1, SubSeqProperties
<1>2. u - 1 + 1 = u /\ \A k \in 1..u : 1 + k - 1 = k
  OBVIOUS
<1>3. QED
  BY <1>1, <1>2

(* A function returns to the caller that is still in the context, or, when *)
(* it was the context's first, to where that was called from.              *)
LEMMA RETRuns ==
    ASSUME Good, NEW b, NEW base, NEW h, Running(b, base, h), RET
    PROVE  /\ b < Len(calls) /\ Good' /\ Kept(b, base) /\ SameReturns(b)
           /\ Len(calls') = Len(calls) - 1
           /\ pc' = LastCall.ret /\ fp' = LastCall.fp /\ sp' = LastCall.sp
           /\ LastCall.ret \in Sites => Running(b, base, h)'
           /\ Len(calls) = b + 1 => sp' = base
<1> DEFINE t == Len(calls)
<1>1. /\ UNCHANGED <<registers, elr>> /\ pc = "ret" /\ pc' = lr
      /\ calls' = SubSeq(calls, 1, t - 1)
  BY DEF RET
<1>2. /\ b \in Nat /\ t \in Nat /\ base \in Int /\ base <= Top /\ t <= MaxCalls
      /\ sp \in Int /\ sp <= base
  BY RunningRoom
<1>3. /\ b < t /\ ~calls[t].framed
      /\ fp = calls[t].fp /\ lr = calls[t].ret /\ sp = calls[t].sp
  BY <1>1 DEF Running, Context, AtPlace
<1>4. t \in (b + 1)..t /\ t \in 1..t /\ calls[t] \in CallRecords
  BY <1>2, <1>3 DEF Good
<1>5. /\ calls' \in Seq(CallRecords) /\ Len(calls') = t - 1
      /\ \A k \in 1..(t - 1) : calls'[k] = calls[k]
  <2>1. t - 1 \in Nat /\ t - 1 <= t
    BY <1>2, <1>3
  <2>2. QED
    BY <1>1, <2>1, FirstCalls DEF Good
<1>6. pc' = LastCall.ret /\ fp' = LastCall.fp /\ sp' = LastCall.sp
  BY <1>1, <1>3 DEF registers, LastCall
<1>7. Good'
  <2>1. SavedLinks'
    BY <1>1, <1>2, <1>5 DEF registers, Good, SavedLinks
  <2>2. pc' \in Sites \cup {Resume}
    BY <1>1, <1>3, <1>4, RecordParts
  <2>3. Len(calls') <= MaxCalls
    BY <1>2, <1>5, FrameAssumption
  <2>4. QED
    BY <1>1, <1>5, <2>1, <2>2, <2>3 DEF registers, Good, TypeOK, HandlerCode
<1>8. Kept(b, base) /\ SameReturns(b)
  <2>1. \A k \in 1..b : calls'[k] = calls[k]
    BY <1>2, <1>3, <1>5
  <2>2. \A k \in (b + 1)..(t - 1) : calls'[k].ret = calls[k].ret /\ k <= t
    BY <1>2, <1>5
  <2>3. QED
    BY <1>1, <1>2, <1>3, <1>5, <2>1, <2>2 DEF registers, Kept, SameReturns
<1>9. ASSUME LastCall.ret \in Sites PROVE Running(b, base, h)'
  <2>1. Room(b, t - 1, base, h)
    BY <1>2, <1>3, FrameAssumption DEF Running, Room
  <2>2. Chain(calls', b, t - 1, base, h)
    <3>1. /\ Chain(calls, b, t, base, h) /\ t - 1 \in Nat /\ t - 1 <= t
          /\ \A k \in 1..(t - 1) : calls'[k].sp = calls[k].sp
          /\ \A k \in 1..((t - 1) - 1) : calls'[k].framed = calls[k].framed
      BY <1>2, <1>3, <1>5 DEF Running, Context
    <3> DEFINE u == t - 1
    <3> HIDE DEF u
    <3>2. /\ Chain(calls, b, t, base, h) /\ u \in Nat /\ u <= t
          /\ \A k \in 1..u : calls'[k].sp = calls[k].sp
          /\ \A k \in 1..(u - 1) : calls'[k].framed = calls[k].framed
      BY <3>1 DEF u
    <3>3. Chain(calls', b, u, base, h)
      BY <1>2, <3>2, ChainKept
    <3>4. QED
      BY <3>3 DEF u
  <2>3. \/ b < t - 1 /\ calls'[t - 1].framed /\ sp = calls'[t - 1].sp - Frame
        \/ b = t - 1 /\ sp = base
    <3>1. CASE b < t - 1
      <4>1. t - 1 \in (b + 1)..t /\ t - 1 < t /\ t - 1 \in 1..(t - 1) /\ (t - 1) + 1 = t
        BY <1>2, <3>1
      <4>2. calls[t - 1].framed /\ calls[(t - 1) + 1].sp = calls[t - 1].sp - Frame
        BY <1>4, <4>1 DEF Running, Context, Chain
      <4>3. QED
        BY <1>3, <1>5, <3>1, <4>1, <4>2
    <3>2. CASE b = t - 1
      <4>1. calls[b + 1].sp = base /\ b + 1 = t
        BY <1>2, <1>3, <3>2 DEF Running, Context, Chain
      <4>2. QED
        BY <1>3, <3>2, <4>1
    <3>3. QED
      BY <1>2, <1>3, <3>1, <3>2
  <2>4. AtPlace(calls', b, t - 1, pc', fp, lr, sp, base)
    BY <1>6, <1>9, <2>3, FrameAssumption DEF AtPlace, Code
  <2>5. Context(calls', b, t - 1, pc', fp, lr, sp, base, h)
    BY <1>6, <1>9, <2>2, <2>4 DEF Context
  <2>6. \A k \in 1..b : calls'[k].framed => base <= calls'[k].sp - Frame
    BY <1>2, <1>3, <1>5 DEF Running
  <2>7. QED
    BY <1>1, <1>5, <2>1, <2>5, <2>6 DEF registers, Running
<1>10. ASSUME t = b + 1 PROVE sp' = base
  <2>1. calls[b + 1].sp = base
    BY <1>3 DEF Running, Context, Chain
  <2>2. QED
    BY <1>1, <1>3, <1>10, <2>1 DEF registers
<1>11. QED
  BY <1>3, <1>5, <1>6, <1>7, <1>8, <1>9, <1>10

(* All steps of the program but RET.                                       *)
Program == BL \/ Leaf \/ StoreLocal \/ Push \/ SetFramePointer \/ Pop

LEMMA ProgramRuns ==
    ASSUME Good, NEW b, NEW base, NEW h, Running(b, base, h), Program,
           Pop => b < Len(calls)
    PROVE  Good' /\ Running(b, base, h)' /\ Kept(b, base) /\ SameReturns(b)
  BY BLRuns, LeafRuns, StoreLocalRuns, PushRuns, SetFramePointerRuns, PopRuns DEF Program

LEMMA ProgramGuards ==
    ASSUME Program \/ RET
    PROVE  pc \in Sites \cup Code /\ pc \notin HandlerCode /\ UNCHANGED <<elr, intr>>
<1>1. pc \in Sites \cup Code /\ UNCHANGED <<elr, intr>>
  BY DEF Program, BL, Leaf, StoreLocal, Push, SetFramePointer, Pop, RET, At, Code
<1>2. QED
  BY <1>1, FrameAssumption DEF Code, HandlerCode

-----------------------------------------------------------------------------
(* The whole state.                                                        *)

LEMMA RunningProgram ==
    ASSUME Good
    PROVE  InProgram <=> /\ elr = Nowhere
                         /\ \A k \in 1..Len(calls) : calls[k].ret \in Sites
                         /\ Running(0, Top, HandlerFrame)
<1>1. Room(0, Len(calls), Top, HandlerFrame)
  BY TopNeed, FrameAssumption DEF Good, TypeOK, Room, HandlerFrame
<1>2. \A k \in 1..0 : calls[k].framed => Top <= calls[k].sp - Frame
  OBVIOUS
<1>3. QED
  BY <1>1, <1>2 DEF InProgram, Running

(* Where the interrupted program's stack pointer is.                       *)
LEMMA InterruptedPointer ==
    ASSUME Good, NEW n \in 0..Len(calls), Interrupted(n)
    PROVE  /\ intr.sp \in Int /\ intr.sp <= Top /\ intr.sp >= Need(n) + HandlerFrame
           /\ Need(n) \in Nat /\ intr.sp - 2 \in Cells /\ intr.sp - 1 \in Cells
           /\ \A k \in 1..n : calls[k].framed => intr.sp <= calls[k].sp - Frame
<1>1. n \in Nat /\ n <= Len(calls) /\ n <= MaxCalls
  BY FrameAssumption DEF Good, TypeOK, Interrupted
<1>2. Room(0, n, Top, HandlerFrame)
  BY <1>1, TopNeed, FrameAssumption DEF Room, HandlerFrame
<1>3. /\ intr.sp \in Int /\ intr.sp <= Top /\ intr.sp >= Need(n) + HandlerFrame
      /\ \A k \in (0 + 1)..n : calls[k].framed => intr.sp <= calls[k].sp - Frame
  BY <1>1, <1>2, PointerInRoom DEF Interrupted, Good
<1>4. Need(n) \in Nat
  BY <1>1, NeedType
<1>5. QED
  BY <1>3, <1>4, TopNeed DEF HandlerFrame, Cells

LEMMA RunningInHandler ==
    ASSUME Good, NEW n \in 0..Len(calls), Interrupted(n), n < Len(calls)
    PROVE  InItsCall(n) <=> /\ HandlerSaved /\ calls[n + 1].ret = Resume
                            /\ \A k \in (n + 2)..Len(calls) : calls[k].ret \in Sites
                            /\ Running(n, intr.sp - 2, 0)
<1>1. /\ intr.sp \in Int /\ intr.sp <= Top /\ intr.sp >= Need(n) + HandlerFrame
      /\ Need(n) \in Nat
      /\ \A k \in 1..n : calls[k].framed => intr.sp <= calls[k].sp - Frame
  BY InterruptedPointer
<1>2. n \in Nat /\ Len(calls) \in n..MaxCalls
  BY FrameAssumption DEF Good, TypeOK
<1>3. Room(n, Len(calls), intr.sp - 2, 0)
  BY <1>1, <1>2, TopNeed DEF Room, HandlerFrame
<1>4. ASSUME NEW k \in 1..n, calls[k].framed PROVE intr.sp - 2 <= calls[k].sp - Frame
  <2>1. calls[k].sp \in Int
    BY <1>2, RecordParts DEF Good
  <2>2. QED
    BY <1>1, <1>4, <2>1, FrameAssumption
<1>5. QED
  BY <1>3, <1>4 DEF InItsCall, Running

(* A step that leaves the interrupted program's calls alone leaves it where*)
(* it was.                                                                 *)
LEMMA InterruptedKept ==
    ASSUME NEW n \in Nat, Interrupted(n), UNCHANGED <<elr, intr>>,
           \A k \in 1..n : calls'[k] = calls[k]
    PROVE  Interrupted(n)'
<1>1. Context(calls', 0, n, intr.pc, intr.fp, intr.lr, intr.sp, Top, HandlerFrame)
  BY ContextKept DEF Interrupted
<1>2. QED
  BY <1>1 DEF Interrupted

(* No step but RET takes a call back, and RET takes the last.              *)
LEMMA ProgramCalls ==
    ASSUME Good, Program, NEW j \in 1..Len(calls)
    PROVE  Len(calls') >= Len(calls) /\ calls'[j].ret = calls[j].ret
<1>1. CASE BL
  <2>1. PICK site \in Sites : Branch(site)
    BY <1>1 DEF BL
  <2>2. Len(calls') = Len(calls) + 1 /\ \A k \in 1..Len(calls) : calls'[k] = calls[k]
    BY <2>1, BranchIs
  <2>3. Len(calls) \in Nat
    BY DEF Good
  <2>4. QED
    BY <2>2, <2>3
<1>2. CASE Leaf \/ StoreLocal \/ SetFramePointer
  BY <1>2 DEF Leaf, StoreLocal, SetFramePointer, Good
<1>3. CASE Push \/ Pop
  <2>1. PICK x \in BOOLEAN : SetFramed(x)
    BY <1>3 DEF Push, Pop
  <2>2. /\ Len(calls') = Len(calls) /\ LastCall'.ret = LastCall.ret
        /\ \A k \in 1..(Len(calls) - 1) : calls'[k] = calls[k]
    BY <2>1, SetFramedIs DEF Good
  <2>3. CASE j = Len(calls)
    BY <2>2, <2>3 DEF LastCall
  <2>4. CASE j # Len(calls)
    <3>1. j \in 1..(Len(calls) - 1)
      BY <2>4 DEF Good
    <3>2. QED
      BY <2>2, <3>1 DEF Good
  <2>5. QED
    BY <2>3, <2>4
<1>4. QED
  BY <1>1, <1>2, <1>3 DEF Program

LEMMA RETCalls ==
    ASSUME Good, RET, NEW j \in 1..(Len(calls) - 1)
    PROVE  calls'[j] = calls[j]
<1>1. Len(calls) - 1 \in Nat /\ Len(calls) - 1 <= Len(calls)
  BY DEF Good
<1>2. QED
  BY <1>1, FirstCalls DEF RET, Good

LEMMA FrameInit == ASSUME Init PROVE FrameInv
<1>1. Top \in Cells /\ "body" \in Code /\ Len(calls) = 0 /\ calls \in Seq(CallRecords)
  BY TopNeed DEF Init, Cells, Code
<1>2. TypeOK
  BY <1>1, FrameAssumption DEF Init, TypeOK, Values
<1>3. SavedLinks
  BY <1>1 DEF SavedLinks
<1>4. Context(calls, 0, 0, "body", Data, Data, Top, Top, HandlerFrame)
  BY <1>1, FrameAssumption DEF Context, Chain, AtPlace, Code
<1>5. InProgram
  BY <1>1, <1>4 DEF Init, InProgram
<1>6. QED
  BY <1>1, <1>2, <1>3, <1>5 DEF FrameInv

(* The program runs, interrupted or not.                                   *)
LEMMA ProgramInProgram ==
    ASSUME Good, InProgram, Program \/ RET
    PROVE  Good' /\ InProgram'
<1>1. /\ elr = Nowhere /\ \A k \in 1..Len(calls) : calls[k].ret \in Sites
      /\ Running(0, Top, HandlerFrame) /\ Len(calls) \in Nat
  BY RunningProgram DEF Good
<1>2. elr' = Nowhere
  BY <1>1, ProgramGuards
<1>3. Good' /\ Running(0, Top, HandlerFrame)' /\ SameReturns(0)
  <2>1. CASE Program
    <3>1. Pop => 0 < Len(calls)
      BY <1>1 DEF Pop, Good
    <3>2. QED
      BY <1>1, <2>1, <3>1, ProgramRuns
  <2>2. CASE RET
    <3>1. Good' /\ SameReturns(0) /\ (LastCall.ret \in Sites => Running(0, Top, HandlerFrame)')
          /\ 0 < Len(calls)
      BY <1>1, <2>2, RETRuns
    <3>2. LastCall.ret \in Sites
      BY <1>1, <3>1 DEF LastCall
    <3>3. QED
      BY <3>1, <3>2
  <2>3. QED
    BY <2>1, <2>2
<1>4. \A k \in 1..Len(calls') : calls'[k].ret \in Sites
  BY <1>1, <1>3 DEF SameReturns
<1>5. (InProgram <=> /\ elr = Nowhere
                     /\ \A k \in 1..Len(calls) : calls[k].ret \in Sites
                     /\ Running(0, Top, HandlerFrame))'
  <2>1. Room(0, Len(calls'), Top, HandlerFrame)
    BY <1>3 DEF Running
  <2>2. \A k \in 1..0 : calls'[k].framed => Top <= calls'[k].sp - Frame
    OBVIOUS
  <2>3. QED
    BY <2>1, <2>2 DEF InProgram, Running
<1>6. QED
  BY <1>2, <1>3, <1>4, <1>5

(* What the handler has saved lies above what the function it calls writes.*)
LEMMA HandlerSavedKept ==
    ASSUME Good, NEW n \in 0..Len(calls), Interrupted(n), HandlerSaved,
           Kept(n, intr.sp - 2), intr' = intr
    PROVE  HandlerSaved'
<1>1. intr.sp - 2 \in Cells /\ intr.sp - 1 \in Cells /\ intr.sp \in Int
  BY InterruptedPointer
<1>2. mem'[intr.sp - 2] = mem[intr.sp - 2] /\ mem'[intr.sp - 1] = mem[intr.sp - 1]
  BY <1>1 DEF Kept
<1>3. QED
  BY <1>2 DEF HandlerSaved

LEMMA ProgramInItsCall ==
    ASSUME Good, NEW n \in 0..Len(calls), Interrupted(n), InItsCall(n), Program \/ RET
    PROVE  /\ Good' /\ n \in 0..Len(calls') /\ Interrupted(n)'
           /\ InHandler(n)' \/ InItsCall(n)'
<1>0. PICK base \in Int : base = intr.sp - 2
  BY InterruptedPointer
<1>1. /\ n < Len(calls) /\ HandlerSaved /\ calls[n + 1].ret = Resume
      /\ \A k \in (n + 2)..Len(calls) : calls[k].ret \in Sites
      /\ Running(n, base, 0) /\ Len(calls) \in Nat /\ n \in Nat
  <2>1. n < Len(calls) /\ Len(calls) \in Nat /\ n \in Nat
    BY DEF InItsCall, Good
  <2>2. /\ HandlerSaved /\ calls[n + 1].ret = Resume
        /\ \A k \in (n + 2)..Len(calls) : calls[k].ret \in Sites
        /\ Running(n, intr.sp - 2, 0)
    BY <2>1, RunningInHandler
  <2>3. QED
    BY <1>0, <2>1, <2>2
<1>2. elr' = elr /\ intr' = intr
  BY ProgramGuards
<1>3. Good' /\ Kept(n, base) /\ SameReturns(n)
  <2>1. CASE Program
    BY <1>1, <2>1, ProgramRuns
  <2>2. CASE RET
    BY <1>1, <2>2, RETRuns
  <2>3. QED
    BY <2>1, <2>2
<1>4. Interrupted(n)' /\ HandlerSaved' /\ n \in 0..Len(calls')
  <2>1. n <= Len(calls') /\ \A k \in 1..n : calls'[k] = calls[k]
    BY <1>3 DEF Kept
  <2>2. n \in 0..Len(calls')
    BY <1>1, <1>3, <2>1 DEF Good
  <2>3. QED
    BY <1>0, <1>1, <1>2, <1>3, <2>1, <2>2, InterruptedKept, HandlerSavedKept
<1>5. ASSUME Running(n, base, 0)', n < Len(calls'), calls'[n + 1].ret = Resume
      PROVE  InItsCall(n)'
  <2>1. \A k \in (n + 2)..Len(calls') : calls'[k].ret \in Sites
    <3>1. ASSUME NEW k \in (n + 2)..Len(calls')
          PROVE  calls'[k].ret \in Sites
      <4>1. k \in (n + 1)..Len(calls')
        BY <1>1
      <4>2. CASE calls'[k].ret \in Sites
        BY <4>2
      <4>3. CASE k <= Len(calls) /\ calls'[k].ret = calls[k].ret
        BY <1>1, <4>3
      <4>4. QED
        BY <1>3, <4>1, <4>2, <4>3 DEF SameReturns
    <3>2. QED
      BY <3>1
  <2>2. Context(calls', n, Len(calls'), pc', fp', lr', sp', intr'.sp - 2, 0)
    BY <1>0, <1>2, <1>5 DEF Running
  <2>3. QED
    BY <1>4, <1>5, <2>1, <2>2 DEF InItsCall
<1>6. CASE Program
  <2>1. Running(n, base, 0)'
    BY <1>1, <1>6, ProgramRuns
  <2>2. Len(calls') >= Len(calls) /\ calls'[n + 1].ret = calls[n + 1].ret
    BY <1>1, <1>3, <1>6, ProgramCalls
  <2>3. QED
    BY <1>1, <1>3, <1>4, <1>5, <2>1, <2>2
<1>7. CASE RET
  <2>1. /\ Len(calls') = Len(calls) - 1 /\ pc' = LastCall.ret /\ sp' = sp
        /\ LastCall.ret \in Sites => Running(n, base, 0)'
        /\ Len(calls) = n + 1 => sp' = base
    BY <1>1, <1>7, RETRuns DEF RET, registers
  <2>2. CASE Len(calls) = n + 1
    <3>1. pc' = Resume /\ sp' = intr'.sp - 2 /\ n = Len(calls')
      BY <1>0, <1>1, <1>2, <2>1, <2>2 DEF LastCall
    <3>2. InHandler(n)'
      BY <1>4, <3>1, FrameAssumption DEF InHandler, HandlerCode
    <3>3. QED
      BY <1>3, <1>4, <3>2
  <2>3. CASE Len(calls) # n + 1
    <3>1. Len(calls) \in (n + 2)..Len(calls)
      BY <1>1, <2>3
    <3>2. LastCall.ret \in Sites
      BY <1>1, <3>1 DEF LastCall
    <3>3. calls'[n + 1] = calls[n + 1] /\ n < Len(calls')
      BY <1>1, <1>7, <2>1, <2>3, <3>1, RETCalls
    <3>4. QED
      BY <1>1, <1>3, <1>4, <1>5, <2>1, <3>2, <3>3
  <2>4. QED
    BY <2>2, <2>3
<1>8. QED
  BY <1>6, <1>7

-----------------------------------------------------------------------------
(* The interrupt and its handler.                                          *)

(* Between the interrupt and ERET the program's calls lie still.           *)
Suspended(n) == Good /\ n \in 0..Len(calls) /\ Interrupted(n)

LEMMA SuspendedKept ==
    ASSUME NEW n, Suspended(n), UNCHANGED <<calls, elr, intr>>, TypeOK', SavedLinks'
    PROVE  Suspended(n)'
<1>1. n \in Nat /\ Interrupted(n)'
  BY InterruptedKept DEF Suspended
<1>2. QED
  BY <1>1 DEF Suspended, Good

LEMMA InterruptStep == ASSUME Good, InProgram, Interrupt
                       PROVE  \E n \in Nat : Suspended(n)' /\ InHandler(n)'
<1> DEFINE n == Len(calls)
<1>1. /\ elr' = pc /\ pc' = "irq" /\ UNCHANGED <<registers, calls>> /\ n < MaxCalls
      /\ intr' = [pc |-> pc, fp |-> fp, lr |-> lr, sp |-> sp] /\ n \in Nat
  BY DEF Interrupt, Good
<1>2. /\ intr'.pc = pc /\ intr'.fp = fp /\ intr'.lr = lr /\ intr'.sp = sp
  BY <1>1
<1>3. Good'
  <2>1. elr' \in Sites \cup Code
    BY <1>1 DEF InProgram, Context
  <2>2. QED
    BY <1>1, <2>1 DEF registers, Good, TypeOK, SavedLinks, HandlerCode
<1>4. Interrupted(n)'
  <2>1. Context(calls, 0, n, pc, fp, lr, sp, Top, HandlerFrame)
    BY DEF InProgram
  <2>2. Len(calls') = n /\ \A k \in 1..n : calls'[k].ret \in Sites
    BY <1>1 DEF InProgram
  <2>3. Context(calls', 0, n, intr'.pc, intr'.fp, intr'.lr, intr'.sp, Top, HandlerFrame)
    BY <1>1, <1>2, <2>1
  <2>4. QED
    BY <1>1, <1>2, <2>2, <2>3 DEF Interrupted
<1>5. InHandler(n)'
  BY <1>1, <1>2, FrameAssumption DEF registers, InHandler, HandlerCode
<1>6. QED
  BY <1>1, <1>3, <1>4, <1>5 DEF Suspended

(* x29 and x30 go below the stack of the program.                          *)
LEMMA HandlerSaves ==
    ASSUME NEW n, Suspended(n), InHandler(n), At({"h_save"}, "h_call"),
           Pair(FALSE, "offset", 0), UNCHANGED calls
    PROVE  Suspended(n)' /\ InHandler(n)'
<1>1. /\ pc = "h_save" /\ pc' = "h_call" /\ UNCHANGED <<elr, intr, fp, lr, x31, calls>>
  BY DEF At, Pair, Moves
<1>2. /\ intr.sp \in Int /\ intr.sp <= Top
      /\ intr.sp - 2 \in Cells /\ intr.sp - 1 \in Cells
      /\ \A k \in 1..n : calls[k].framed => intr.sp <= calls[k].sp - Frame
  BY InterruptedPointer DEF Suspended
<1>3. sp = intr.sp - 2 /\ fp = intr.fp /\ lr = intr.lr /\ n = Len(calls)
  BY <1>1, FrameAssumption DEF InHandler
<1>4. sp + 0 = sp /\ sp + 1 = intr.sp - 1
  BY <1>2, <1>3
<1>5. mem' = [mem EXCEPT ![sp] = fp, ![sp + 1] = lr] /\ sp' = sp
  BY <1>4 DEF Pair, Moves, Address, WritesBack
<1>6. /\ mem' \in [Cells -> Values] /\ mem'[intr.sp - 2] = fp /\ mem'[intr.sp - 1] = lr
      /\ \A c \in Cells : c >= intr.sp => mem'[c] = mem[c]
  <2>1. mem \in [Cells -> Values] /\ fp \in Values /\ lr \in Values
    BY DEF Suspended, Good, TypeOK
  <2>2. mem' = [mem EXCEPT ![intr.sp - 2] = fp, ![intr.sp - 1] = lr]
    BY <1>3, <1>4, <1>5
  <2>3. intr.sp - 2 # intr.sp - 1
    BY <1>2
  <2>4. mem' \in [Cells -> Values] /\ mem'[intr.sp - 2] = fp /\ mem'[intr.sp - 1] = lr
    BY <1>2, <2>1, <2>2, <2>3
  <2>5. ASSUME NEW c \in Cells, c >= intr.sp PROVE mem'[c] = mem[c]
    <3>1. c # intr.sp - 2 /\ c # intr.sp - 1
      BY <1>2, <2>5 DEF Cells
    <3>2. QED
      BY <2>1, <2>2, <3>1
  <2>6. QED
    BY <2>4, <2>5
<1>7. SavedLinks'
  <2>1. ASSUME NEW k \in 1..Len(calls), calls[k].framed
        PROVE  /\ mem'[calls[k].sp - Frame] = calls[k].fp
               /\ mem'[calls[k].sp - Frame + 1] = calls[k].ret
    <3>1. calls[k].sp \in Cells /\ intr.sp <= calls[k].sp - Frame
      BY <1>2, <1>3, <2>1, RecordParts DEF Suspended, Good
    <3>2. /\ calls[k].sp - Frame \in Cells /\ calls[k].sp - Frame + 1 \in Cells
          /\ calls[k].sp - Frame + 1 >= intr.sp
      <4>1. intr.sp \in Nat /\ calls[k].sp \in 0..Top /\ Top \in Nat
        BY <1>2, <3>1, TopNeed DEF Cells
      <4>2. PICK i \in Nat, c \in 0..Top : i = intr.sp /\ c = calls[k].sp
        BY <4>1
      <4>3. i <= c - Frame
        BY <3>1, <4>2
      <4>4. c - Frame \in Cells /\ c - Frame + 1 \in Cells /\ c - Frame + 1 >= i
        BY <4>1, <4>3, FrameAssumption DEF Cells
      <4>5. QED
        BY <4>2, <4>4
    <3>3. mem'[calls[k].sp - Frame] = mem[calls[k].sp - Frame]
          /\ mem'[calls[k].sp - Frame + 1] = mem[calls[k].sp - Frame + 1]
      BY <1>6, <3>1, <3>2
    <3>4. QED
      BY <2>1, <3>3 DEF Suspended, Good, SavedLinks
  <2>2. QED
    BY <1>1, <2>1 DEF SavedLinks
<1>8. Suspended(n)'
  <2>1. TypeOK'
    BY <1>1, <1>5, <1>6 DEF Suspended, Good, TypeOK, HandlerCode
  <2>2. QED
    BY <1>1, <1>7, <2>1, SuspendedKept
<1>9. InHandler(n)'
  BY <1>1, <1>3, <1>5, <1>6, FrameAssumption DEF InHandler, HandlerSaved, HandlerCode
<1>10. QED
  BY <1>8, <1>9

(* And come back from there.                                               *)
LEMMA HandlerRestores ==
    ASSUME NEW n, Suspended(n), InHandler(n), At({Resume}, "h_add"),
           Pair(TRUE, "offset", 0), UNCHANGED calls
    PROVE  Suspended(n)' /\ InHandler(n)'
<1>1. /\ pc = Resume /\ pc' = "h_add" /\ UNCHANGED <<elr, intr, mem, x31, calls>>
  BY DEF At, Pair, Moves
<1>2. /\ intr.sp \in Int /\ intr.sp - 2 \in Cells /\ intr.sp - 1 \in Cells
  BY InterruptedPointer DEF Suspended
<1>3. sp = intr.sp - 2 /\ HandlerSaved /\ n = Len(calls)
  BY <1>1, FrameAssumption DEF InHandler
<1>4. sp + 0 = sp /\ sp + 1 = intr.sp - 1
  BY <1>2, <1>3
<1>5. fp' = mem[intr.sp - 2] /\ lr' = mem[intr.sp - 1] /\ sp' = sp
  BY <1>3, <1>4 DEF Pair, Moves, Address, WritesBack
<1>6. Suspended(n)'
  <2>1. TypeOK'
    BY <1>1, <1>2, <1>5 DEF Suspended, Good, TypeOK, HandlerCode
  <2>2. SavedLinks'
    BY <1>1 DEF Suspended, Good, SavedLinks
  <2>3. QED
    BY <1>1, <2>1, <2>2, SuspendedKept
<1>7. InHandler(n)'
  BY <1>1, <1>3, <1>5, FrameAssumption DEF InHandler, HandlerSaved, HandlerCode
<1>8. QED
  BY <1>6, <1>7

(* The handler calls a function, below the two cells.                      *)
LEMMA HandlerCalls ==
    ASSUME NEW n, Suspended(n), InHandler(n), At({"h_call"}, "enter"), Branch(Resume)
    PROVE  Suspended(n)' /\ InItsCall(n)'
<1> DEFINE r == [ret |-> Resume, fp |-> fp, sp |-> sp, framed |-> FALSE]
<1>1. /\ pc = "h_call" /\ pc' = "enter" /\ UNCHANGED <<elr, intr, fp, x31, sp, mem>>
      /\ lr' = Resume
  BY DEF At, Branch
<1>2. /\ r \in CallRecords /\ calls' = Append(calls, r)
      /\ Len(calls') = Len(calls) + 1 /\ Len(calls) < MaxCalls
      /\ calls' \in Seq(CallRecords) /\ calls'[Len(calls) + 1] = r
      /\ \A k \in 1..Len(calls) : calls'[k] = calls[k]
      /\ SavedLinks'
  BY BranchIs DEF Suspended
<1>3. r.ret = Resume /\ r.fp = fp /\ r.sp = sp /\ ~r.framed
  OBVIOUS
<1> HIDE DEF r
<1>4. /\ intr.sp \in Int /\ intr.sp >= Need(n) + HandlerFrame /\ Need(n) \in Nat
      /\ intr.sp <= Top /\ Top \in Nat
  BY InterruptedPointer, TopNeed DEF Suspended
<1>5. sp = intr.sp - 2 /\ HandlerSaved /\ n = Len(calls) /\ n \in Nat
  BY <1>1, FrameAssumption DEF InHandler, Suspended, Good
<1>6. Suspended(n)'
  <2>1. lr' \in Values /\ Len(calls') <= MaxCalls
    BY <1>1, <1>2, <1>5, FrameAssumption DEF Values
  <2>2. TypeOK'
    BY <1>1, <1>2, <2>1 DEF Suspended, Good, TypeOK, Code
  <2>3. Interrupted(n)'
    BY <1>1, <1>2, <1>5, InterruptedKept DEF Suspended
  <2>4. QED
    BY <1>2, <1>5, <2>2, <2>3 DEF Suspended, Good
<1>7. Context(calls', n, n + 1, "enter", fp, Resume, sp, intr.sp - 2, 0)
  <2>1. PICK base \in Int : base = intr.sp - 2
    BY <1>4
  <2>2. r.sp = base /\ base >= Need(n) + 0 /\ base <= base
    BY <1>3, <1>4, <1>5, <2>1 DEF HandlerFrame
  <2>3. Chain(calls, n, n, base, 0)
    BY <1>5 DEF Chain
  <2>4. \A k \in (n + 1)..n : calls[k].framed => r.sp <= calls[k].sp - Frame
    BY <1>5
  <2>5. /\ Chain(Append(calls, r), n, n + 1, base, 0)
        /\ AtPlace(Append(calls, r), n, n + 1, "enter", r.fp, r.ret, r.sp, base)
    BY <1>2, <1>3, <1>5, <2>2, <2>3, <2>4, ChainCalled DEF Suspended, Good
  <2>6. QED
    BY <1>2, <1>3, <2>1, <2>5 DEF Context, Code
<1>8. InItsCall(n)'
  <2>1. n < Len(calls') /\ calls'[n + 1].ret = Resume
    BY <1>2, <1>3, <1>5
  <2>2. \A k \in (n + 2)..Len(calls') : calls'[k].ret \in Sites
    BY <1>2, <1>5
  <2>3. HandlerSaved'
    BY <1>1, <1>5 DEF HandlerSaved
  <2>4. Context(calls', n, Len(calls'), pc', fp', lr', sp', intr'.sp - 2, 0)
    BY <1>1, <1>2, <1>5, <1>7
  <2>5. QED
    BY <2>1, <2>2, <2>3, <2>4 DEF InItsCall
<1>9. QED
  BY <1>6, <1>8

LEMMA HandlerMovesSp ==
    ASSUME NEW n, Suspended(n), InHandler(n), UNCHANGED calls,
           \/ At({"irq"}, "h_save") /\ AddSp(-HandlerFrame)
           \/ At({"h_add"}, "h_eret") /\ AddSp(HandlerFrame)
    PROVE  Suspended(n)' /\ InHandler(n)'
<1>1. UNCHANGED <<elr, intr, fp, lr, x31, mem, calls>>
  BY DEF At, AddSp
<1>2. /\ intr.sp \in Int /\ intr.sp <= Top /\ intr.sp - 2 \in Cells
  BY InterruptedPointer DEF Suspended
<1>3. fp = intr.fp /\ lr = intr.lr /\ n = Len(calls)
  BY FrameAssumption DEF At, InHandler
<1>4. \/ pc' = "h_save" /\ sp' = intr.sp - 2
      \/ pc' = "h_eret" /\ sp' = intr.sp
  <2>1. CASE At({"irq"}, "h_save") /\ AddSp(-HandlerFrame)
    <3>1. pc = "irq" /\ pc' = "h_save" /\ sp' = sp + (-2)
      BY <2>1 DEF At, AddSp, HandlerFrame
    <3>2. sp = intr.sp
      BY <3>1, FrameAssumption DEF InHandler
    <3>3. QED
      BY <1>2, <3>1, <3>2
  <2>2. CASE At({"h_add"}, "h_eret") /\ AddSp(HandlerFrame)
    <3>1. pc = "h_add" /\ pc' = "h_eret" /\ sp' = sp + 2
      BY <2>2 DEF At, AddSp, HandlerFrame
    <3>2. sp = intr.sp - 2
      BY <3>1, FrameAssumption DEF InHandler
    <3>3. QED
      BY <1>2, <3>1, <3>2
  <2>3. QED
    BY <2>1, <2>2
<1>5. Suspended(n)'
  <2>1. sp' \in Cells /\ pc' \in HandlerCode
    BY <1>2, <1>4 DEF Cells, HandlerCode
  <2>2. TypeOK'
    BY <1>1, <2>1 DEF Suspended, Good, TypeOK
  <2>3. SavedLinks'
    BY <1>1 DEF Suspended, Good, SavedLinks
  <2>4. QED
    BY <1>1, <2>2, <2>3, SuspendedKept
<1>6. InHandler(n)'
  BY <1>1, <1>3, <1>4, FrameAssumption DEF InHandler, HandlerCode
<1>7. QED
  BY <1>5, <1>6

LEMMA ERETStep ==
    ASSUME NEW n, Suspended(n), InHandler(n), ERET
    PROVE  /\ Good' /\ InProgram'
           /\ pc' = intr.pc /\ fp' = intr.fp /\ lr' = intr.lr /\ sp' = intr.sp
<1>1. /\ pc = "h_eret" /\ pc' = elr /\ elr' = Nowhere /\ UNCHANGED <<registers, calls, intr>>
  BY DEF ERET
<1>2. pc' = intr.pc /\ fp' = intr.fp /\ lr' = intr.lr /\ sp' = intr.sp /\ n = Len(calls)
  BY <1>1, FrameAssumption DEF Suspended, Interrupted, InHandler, registers
<1>3. Context(calls, 0, n, pc', fp', lr', sp', Top, HandlerFrame)
  BY <1>2 DEF Suspended, Interrupted
<1>4. Good'
  <2>1. pc' \in Sites \cup Code
    BY <1>3 DEF Context
  <2>2. QED
    BY <1>1, <2>1 DEF registers, Suspended, Good, TypeOK, SavedLinks
<1>5. InProgram'
  BY <1>1, <1>2, <1>3 DEF InProgram, Suspended, Interrupted
<1>6. QED
  BY <1>2, <1>4, <1>5

-----------------------------------------------------------------------------
(* Every step.                                                             *)

LEMMA FrameInvIs ==
    FrameInv <=> \/ Good /\ InProgram
                 \/ \E n : Suspended(n) /\ (InHandler(n) \/ InItsCall(n))
  BY DEF FrameInv, Good, Suspended

LEMMA FrameUnchanged == ASSUME FrameInv, UNCHANGED vars PROVE FrameInv'
<1>1. UNCHANGED <<fp, lr, x31, sp, mem, pc, elr, calls, intr>>
  BY DEF vars, registers
<1>2. TypeOK' /\ SavedLinks' /\ calls' \in Seq(CallRecords)
  BY <1>1 DEF FrameInv, TypeOK, SavedLinks
<1>3. InProgram => InProgram'
  BY <1>1 DEF InProgram
<1>4. ASSUME NEW n \in 0..Len(calls), Interrupted(n), InHandler(n) \/ InItsCall(n)
      PROVE  n \in 0..Len(calls') /\ Interrupted(n)' /\ (InHandler(n)' \/ InItsCall(n)')
  BY <1>1, <1>4 DEF Interrupted, InHandler, InItsCall, HandlerSaved
<1>5. QED
  BY <1>2, <1>3, <1>4 DEF FrameInv

LEMMA ProgramStep == ASSUME FrameInv, Program \/ RET PROVE FrameInv'
<1>1. CASE Good /\ InProgram
  <2>1. Good' /\ InProgram'
    BY <1>1, ProgramInProgram
  <2>2. QED
    BY <2>1 DEF FrameInv, Good
<1>2. CASE \E n : Suspended(n) /\ (InHandler(n) \/ InItsCall(n))
  <2>1. PICK n : Suspended(n) /\ (InHandler(n) \/ InItsCall(n))
    BY <1>2
  <2>2. InItsCall(n) /\ n \in 0..Len(calls) /\ Good /\ Interrupted(n)
    BY <2>1, ProgramGuards DEF InHandler, Suspended
  <2>3. /\ Good' /\ n \in 0..Len(calls') /\ Interrupted(n)'
        /\ InHandler(n)' \/ InItsCall(n)'
    BY <2>2, ProgramInItsCall
  <2>4. QED
    BY <2>3 DEF FrameInv, Good
<1>3. QED
  BY <1>1, <1>2, FrameInvIs

LEMMA InterruptionStep == ASSUME FrameInv, Interruption PROVE FrameInv'
<1>1. CASE Interrupt
  <2>1. Good /\ InProgram
    <3>1. elr = Nowhere
      BY <1>1 DEF Interrupt
    <3>2. ASSUME NEW n, Interrupted(n) PROVE FALSE
      BY <3>1, <3>2, FrameAssumption DEF Interrupted, Context, Nowhere, Code
    <3>3. QED
      BY <3>2 DEF FrameInv, Good
  <2>2. PICK n \in Nat : Suspended(n)' /\ InHandler(n)'
    BY <1>1, <2>1, InterruptStep
  <2>3. QED
    BY <2>2 DEF FrameInv, Suspended, Good
<1>2. CASE Handler \/ ERET
  <2>1. pc \in HandlerCode
    BY <1>2 DEF Handler, ERET, At, HandlerCode
  <2>2. ~InProgram
    BY <2>1, FrameAssumption DEF InProgram, Context, Code, HandlerCode
  <2>3. PICK n : Suspended(n) /\ (InHandler(n) \/ InItsCall(n))
    BY <2>2, FrameInvIs
  <2>4. InHandler(n)
    BY <2>1, <2>3, FrameAssumption DEF InItsCall, Context, Code, HandlerCode
  <2>5. CASE Handler
    <3>1. Suspended(n)' /\ (InHandler(n)' \/ InItsCall(n)')
      BY <2>3, <2>4, <2>5, HandlerMovesSp, HandlerSaves, HandlerCalls, HandlerRestores
         DEF Handler
    <3>2. QED
      BY <3>1 DEF FrameInv, Suspended, Good
  <2>6. CASE ERET
    <3>1. Good' /\ InProgram'
      BY <2>3, <2>4, <2>6, ERETStep
    <3>2. QED
      BY <3>1 DEF FrameInv, Good
  <2>7. QED
    BY <1>2, <2>5, <2>6
<1>3. QED
  BY <1>1, <1>2 DEF Interruption

LEMMA FrameStep == ASSUME FrameInv, [Next]_vars PROVE FrameInv'
<1>1. CASE Next
  BY <1>1, ProgramStep, InterruptionStep DEF Next, Call, Program
<1>2. QED
  BY <1>1, FrameUnchanged

(* For every size of a frame and every depth of calls the stack pointer    *)
(* stays inside the stack, the handler's frame included.                   *)
THEOREM FrameTypes == Spec => []TypeOK
<1>1. FrameInv => TypeOK
  BY DEF FrameInv
<1>2. QED
  BY <1>1, FrameInit, FrameStep, PTL DEF Spec

(* No function, and no interrupt handler, writes over the saved x29 and    *)
(* x30 of a call that is still open.                                       *)
THEOREM LinksAreKept == Spec => []SavedLinks
<1>1. FrameInv => SavedLinks
  BY DEF FrameInv
<1>2. QED
  BY <1>1, FrameInit, FrameStep, PTL DEF Spec

(* RET goes behind the call with the caller's x29 and sp, whatever was     *)
(* called and whatever interrupted in between.                             *)
THEOREM CallsReturn == Spec => ReturnsToCaller
<1>1. ASSUME FrameInv, RET
      PROVE  pc' = LastCall.ret /\ fp' = LastCall.fp /\ sp' = LastCall.sp
  <2>1. CASE Good /\ InProgram
    <3>1. Running(0, Top, HandlerFrame)
      BY <2>1, RunningProgram
    <3>2. QED
      BY <1>1, <2>1, <3>1, RETRuns
  <2>2. CASE \E n : Suspended(n) /\ (InHandler(n) \/ InItsCall(n))
    <3>1. PICK n : Suspended(n) /\ (InHandler(n) \/ InItsCall(n))
      BY <2>2
    <3>2. InItsCall(n) /\ n \in 0..Len(calls) /\ Good /\ Interrupted(n)
      BY <1>1, <3>1, ProgramGuards DEF InHandler, Suspended
    <3>3. n < Len(calls)
      BY <3>2 DEF InItsCall
    <3>4. PICK base \in Int : base = intr.sp - 2
      BY <3>2, InterruptedPointer
    <3>5. Running(n, base, 0)
      BY <3>2, <3>3, <3>4, RunningInHandler
    <3>6. QED
      BY <1>1, <3>2, <3>5, RETRuns
  <2>3. QED
    BY <1>1, <2>1, <2>2, FrameInvIs
<1>2. FrameInv /\ [Next]_vars =>
        [RET => pc' = LastCall.ret /\ fp' = LastCall.fp /\ sp' = LastCall.sp]_vars
  BY <1>1
<1>3. QED
  BY <1>2, FrameInit, FrameStep, PTL DEF Spec, ReturnsToCaller

(* The interrupted program goes on where it was, with its x29, x30 and sp. *)
THEOREM HandlerIsTransparent == Spec => HandlerTransparent
<1>1. ASSUME FrameInv, ERET
      PROVE  pc' = intr.pc /\ fp' = intr.fp /\ lr' = intr.lr /\ sp' = intr.sp
  <2>1. pc = "h_eret"
    BY <1>1 DEF ERET
  <2>2. ~InProgram
    BY <2>1, FrameAssumption DEF InProgram, Context, Code, HandlerCode
  <2>3. PICK n : Suspended(n) /\ (InHandler(n) \/ InItsCall(n))
    BY <1>1, <2>2, FrameInvIs
  <2>4. InHandler(n)
    BY <2>1, <2>3, FrameAssumption DEF InItsCall, Context, Code, HandlerCode
  <2>5. QED
    BY <1>1, <2>3, <2>4, ERETStep
<1>2. FrameInv /\ [Next]_vars =>
        [ERET => /\ pc' = intr.pc /\ fp' = intr.fp
                 /\ lr' = intr.lr /\ sp' = intr.sp]_vars
  BY <1>1
<1>3. QED
  BY <1>2, FrameInit, FrameStep, PTL DEF Spec, HandlerTransparent
=============================================================================
