--------------------------- MODULE Lifecycle_proofs --------------------------
(***************************************************************************)
(* The reader thread never outlives the cpu it stores into, whatever is    *)
(* typed and however the process ends.  The argument: the thread is born   *)
(* on entering the loop of a cpu that is alive, main frees the cpu only    *)
(* behind the loop, and on the way there the process ends.                 *)
(*                                                                         *)
(* Nothing is stored behind the receive array while what was typed fits in *)
(* it: as long as the index has not wrapped it counts the characters taken *)
(* out of the terminal and a terminator for each full chunk.               *)
(*                                                                         *)
(* As long as it fits, the driver gets what was typed: the array holds the *)
(* lines in order with terminators between, from what the driver has to    *)
(* what fgets has taken, and the data register one character at most.      *)
(***************************************************************************)
EXTENDS Lifecycle, SequenceTheorems, WellFoundedInduction, TLAPS

(* The phases in which there may be a thread.                              *)
InLoop == phase \in {"running", "unmapped"}

LifeInv ==
    /\ read_stdin \in {"running", "finished"} => InLoop \/ phase = "ended"
    /\ InLoop => cpu = "alive"

LEMMA LifeInit == ASSUME FullInit PROVE LifeInv
  BY DEF FullInit, ProcessInit, LifeInv, InLoop

(* One step per place of the main thread.                                  *)
LEMMA MainKeepsLife == ASSUME LifeInv, Main PROVE LifeInv'
<1>1. CASE LoadFails \/ Construct \/ SkipLoop
  BY <1>1 DEF LoadFails, Construct, SkipLoop, LifeInv, InLoop
<1>2. CASE EnterLoop
  BY <1>2 DEF EnterLoop, LifeInv, InLoop
<1>3. CASE NoInstruction \/ ExitInInstruction \/ LeaveLoop
  BY <1>3 DEF NoInstruction, ExitInInstruction, LeaveLoop, LifeInv, InLoop
<1>4. CASE DestroyEmulator \/ EndMain
  BY <1>4 DEF DestroyEmulator, EndMain, LifeInv, InLoop
<1>5. QED
  BY <1>1, <1>2, <1>3, <1>4 DEF Main

(* The two threads and the terminal leave the process's state alone, but   *)
(* for the end of input.                                                   *)
LEMMA OthersKeepLife ==
    ASSUME LifeInv, UNCHANGED process \/ Close \/ EndOfInput
    PROVE  LifeInv'
  BY DEF process, Close, EndOfInput, LifeInv, InLoop

LEMMA LifeStep == ASSUME LifeInv, [FullNext]_all PROVE LifeInv'
<1>1. Main \/ UNCHANGED process \/ Close \/ EndOfInput
  BY DEF FullNext, ReaderRuns, CpuRuns, all
<1>2. QED
  BY <1>1, MainKeepsLife, OthersKeepLife

(* For every size of the array, every session and every way the emulator   *)
(* starts and ends, read_stdin stores into a cpu that exists.              *)
THEOREM ReaderNeverDangles == FullSpec => []ReaderTargetLives
<1>1. LifeInv => ReaderTargetLives
  BY DEF LifeInv, ReaderTargetLives, InLoop
<1>2. QED
  BY <1>1, LifeInit, LifeStep, PTL DEF FullSpec

-----------------------------------------------------------------------------
(* Numbers.                                                                *)

(* A non-empty set of natural numbers has a least element.                 *)
LEMMA LeastElement ==
    ASSUME NEW S \in SUBSET Nat, S # {}
    PROVE  \E x \in S : \A y \in S : x <= y
<1> DEFINE R == {ss \in Nat \X Nat : ss[1] < ss[2]}
<1>1. R = OpToRel(<, Nat)
  BY Zenon DEF OpToRel
<1>2. IsWellFoundedOn(R, Nat)
  BY <1>1, NatLessThanWellFounded, Zenon
<1>3. PICK x \in S : \A y \in S : ~(<<y, x>> \in R)
  <2> HIDE DEF R
  <2>1. QED  BY <1>2, WFMin, Zenon
<1>4. \A y \in S : ~(y < x)
  BY <1>3
<1>5. QED
  BY <1>4

(* The quotient is the greatest factor that fits.                          *)
LEMMA Quotient ==
    ASSUME NEW a \in Nat, NEW d \in Nat \ {0}
    PROVE  /\ a \div d \in Nat /\ (a \div d) * d <= a
           /\ \A k \in Nat : k * d <= a => k <= a \div d
<1>1. PICK q \in Nat : q = a \div d
  OBVIOUS
<1>2. PICK r \in Nat : r = a % d /\ r < d
  OBVIOUS
<1>3. a = d * q + r
  BY <1>1, <1>2
<1>4. ASSUME NEW k \in Nat, k * d <= a PROVE k <= q
  <2>1. SUFFICES ASSUME q < k PROVE FALSE
    OBVIOUS
  <2>2. PICK j \in Nat : k = q + 1 + j
    <3>1. k - q - 1 \in Nat /\ k = q + 1 + (k - q - 1)
      BY <2>1
    <3>2. QED
      BY <3>1
  <2>3. k * d = d * q + d + j * d /\ j * d \in Nat
    BY <2>2
  <2>4. QED
    BY <1>2, <1>3, <1>4, <2>3
<1>5. q * d = d * q
  OBVIOUS
<1>6. QED
  BY <1>1, <1>2, <1>3, <1>4, <1>5

LEMMA QuotientGrows ==
    ASSUME NEW a \in Nat, NEW b \in Nat, a <= b, NEW d \in Nat \ {0}
    PROVE  a \div d <= b \div d
<1>1. PICK q \in Nat : q = a \div d /\ q * d <= a
  BY Quotient
<1>2. q * d \in Nat /\ q * d <= b
  BY <1>1
<1>3. QED
  BY <1>1, <1>2, Quotient

-----------------------------------------------------------------------------
(* The receive buffer.                                                     *)

(* Characters fgets took so far.                                           *)
Taken == Len(typed) - Len(stdin)

(* A place in the array that n characters, each Chunk - 1 of them with a   *)
(* terminator behind, do not get past.                                     *)
Counted(place, n) == \E k \in Nat : place <= n + k /\ k * (Chunk - 1) <= n

(* The chunk being published: n characters and their terminator.           *)
ChunkOf(n) ==
    /\ uart_rx_idx = idx + i
    /\ idx + n < BuffLen /\ i <= n
    /\ \A s \in idx..(idx + n) : uart_rx_buff[s] \in Chars
    /\ n = Chunk - 1 \/ (uart_rx_buff[idx + n - 1] = NewLine /\ i < n)
    /\ n <= Taken /\ Counted(idx, Taken - n)

(* As long as the index has not been at the end of the array, everything   *)
(* below it is written, and the side that reads is not ahead.              *)
FirstRound ==
    /\ uart_rx_last_idx <= uart_rx_idx /\ uart_rx_idx < BuffLen
    /\ \A s \in Slots : s < uart_rx_idx => uart_rx_buff[s] \in Chars
    /\ reader = "fgets" => Counted(uart_rx_idx, Taken)
    /\ reader = "publish" => \E n \in 1..(Chunk - 1) : ChunkOf(n)

(* Afterwards, whatever the indices, no slot is unwritten.                 *)
AllWritten == \A s \in Slots : uart_rx_buff[s] \in Chars

BufferInv ==
    /\ TypeOK
    /\ Len(stdin) <= Len(typed)
    /\ stdin # <<>> => stdin[Len(stdin)] = NewLine
    /\ FirstRound \/ AllWritten
    /\ Fits => ~overrun /\ FirstRound

-----------------------------------------------------------------------------
(* How far a session reaches into the array.                               *)
LEMMA Sizes ==
    /\ BuffLen \in Nat \ {0} /\ IdxMod \in Nat \ {0} /\ PollPeriod \in Nat \ {0}
    /\ Chunk \in Nat /\ Chunk - 1 \in Nat \ {0} /\ Chunk > 1 /\ BuffLen <= IdxMod
  BY SizeAssumption

(* Places that are counted stay inside the array while the session fits.   *)
LEMMA CountedFits ==
    ASSUME typed \in Seq(Chars), Fits, NEW place \in Nat, NEW n \in Nat, n <= Len(typed),
           NEW m \in Nat, m + n <= Len(typed), Counted(place, n)
    PROVE  place + m < BuffLen
<1>1. PICK k \in Nat : place <= n + k /\ k * (Chunk - 1) <= n
  BY DEF Counted
<1>2. Len(typed) \in Nat /\ Chunk - 1 \in Nat \ {0} /\ BuffLen \in Nat
  BY Sizes
<1>3. k <= n \div (Chunk - 1) /\ n \div (Chunk - 1) <= Len(typed) \div (Chunk - 1)
  BY <1>1, <1>2, Quotient, QuotientGrows
<1>4. PICK q \in Nat : q = Len(typed) \div (Chunk - 1)
  BY <1>2, Quotient
<1>5. PICK p \in Nat : p = n \div (Chunk - 1)
  BY <1>2, Quotient
<1>6. k <= p /\ p <= q /\ Len(typed) + q < BuffLen
  BY <1>3, <1>4, <1>5 DEF Fits
<1>7. QED
  BY <1>1, <1>2, <1>6

(* One more chunk of Chunk - 1 characters brings one more terminator.      *)
LEMMA CountedMore ==
    ASSUME NEW place \in Nat, NEW n \in Nat, NEW m \in Nat, Counted(place, n)
    PROVE  /\ \A p \in Nat : p <= place + m => Counted(p, n + m)
           /\ m = Chunk - 1 => Counted(place + m + 1, n + m)
<1>1. PICK k \in Nat : place <= n + k /\ k * (Chunk - 1) <= n
  BY DEF Counted
<1>2. Chunk - 1 \in Nat \ {0}
  BY Sizes
<1>3. PICK d \in Nat \ {0} : d = Chunk - 1
  BY <1>2
<1>4. k * d \in Nat /\ k * d <= n
  BY <1>1, <1>3
<1>5. \A p \in Nat : p <= place + m => p <= n + m + k /\ k * d <= n + m
  BY <1>1, <1>4
<1>6. m = d => (k + 1) * d <= n + m /\ place + m + 1 <= n + m + (k + 1)
  <2>1. (k + 1) * d = k * d + d
    OBVIOUS
  <2>2. QED
    BY <1>1, <1>4, <2>1
<1>7. QED
  BY <1>3, <1>5, <1>6 DEF Counted

-----------------------------------------------------------------------------
(* fgets takes a line or as much of it as its size allows.                 *)
LEMMA FgetsTakes ==
    ASSUME BufferInv, stdin # <<>>
    PROVE  /\ TakenByFgets \in 1..Len(stdin) /\ TakenByFgets \in 1..(Chunk - 1)
           /\ stdin[TakenByFgets] = NewLine \/ TakenByFgets = Chunk - 1
           /\ \A k \in 1..(TakenByFgets - 1) : stdin[k] # NewLine
<1> DEFINE S == {n \in 1..Len(stdin) : stdin[n] = NewLine \/ n = Chunk - 1}
<1>1. stdin \in Seq(Chars) /\ Len(stdin) \in Nat /\ Len(stdin) # 0 /\ stdin[Len(stdin)] = NewLine
  BY DEF BufferInv, TypeOK
<1>2. S \in SUBSET Nat /\ S # {}
  BY <1>1
<1>3. PICK n \in S : \A m \in S : n <= m
  <2> HIDE DEF S
  <2>1. QED
    BY <1>2, LeastElement
<1>4. n \in 1..Len(stdin) /\ (stdin[n] = NewLine \/ n = Chunk - 1)
  OBVIOUS
<1>5. n < Chunk
  <2>1. Chunk - 1 \in 1..Len(stdin) => n <= Chunk - 1
    BY <1>3
  <2>2. QED
    BY <1>1, <1>4, <2>1, Sizes
<1>6. \A k \in 1..(n - 1) : stdin[k] # NewLine
  <2>1. SUFFICES ASSUME NEW k \in 1..(n - 1), stdin[k] = NewLine PROVE FALSE
    OBVIOUS
  <2>2. k \in S /\ ~(n <= k)
    BY <1>1, <1>4, <2>1
  <2>3. QED
    BY <1>3, <2>2
<1>7. /\ TakenByFgets \in 1..Len(stdin) /\ TakenByFgets < Chunk
      /\ stdin[TakenByFgets] = NewLine \/ TakenByFgets = Chunk - 1
      /\ \A k \in 1..(TakenByFgets - 1) : stdin[k] # NewLine
  <2> HIDE DEF S
  <2>1. QED
    BY <1>4, <1>5, <1>6 DEF TakenByFgets
<1>8. QED
  BY <1>1, <1>7, Sizes

(* Steps that touch neither the array nor its indices.                     *)
LEMMA BufferSame ==
    ASSUME BufferInv, TypeOK', UNCHANGED <<thread, uart_rx_last_idx, overrun, typed>>
    PROVE  BufferInv'
<1>1. UNCHANGED <<uart_rx_idx, uart_rx_buff, reader, idx, i, stdin, uart_rx_last_idx,
                  overrun, typed>>
  BY DEF thread
<1>2. Taken' = Taken /\ Fits' = Fits /\ (AllWritten => AllWritten')
  BY <1>1 DEF Taken, Fits, AllWritten
<1>3. FirstRound => FirstRound'
  BY <1>1, <1>2 DEF FirstRound, ChunkOf, Counted
<1>4. QED
  BY <1>1, <1>2, <1>3 DEF BufferInv

(* A line typed only makes the session longer.                             *)
LEMMA LineIs ==
    ASSUME NEW line \in Lines
    PROVE  line \in Seq(Chars) /\ Len(line) \in Nat \ {0} /\ line[Len(line)] = NewLine
<1>1. Range(line) \subseteq Chars
  BY DEF Chars
<1>2. line \in Seq(Range(line)) /\ Len(line) > 0 /\ line[Len(line)] = NewLine
  BY LinesAssumption
<1>3. line \in Seq(Chars)
  <2> HIDE DEF Chars
  <2>1. QED
    BY <1>1, <1>2
<1>4. QED
  BY <1>2, <1>3

LEMMA LineTyped ==
    ASSUME NEW s \in Seq(Chars), NEW line \in Seq(Chars)
    PROVE  /\ s \o line \in Seq(Chars) /\ Len(s \o line) = Len(s) + Len(line)
           /\ Len(line) # 0 => (s \o line)[Len(s \o line)] = line[Len(line)]
<1>1. /\ s \o line \in Seq(Chars) /\ Len(s \o line) = Len(s) + Len(line)
      /\ Len(s) \in Nat /\ Len(line) \in Nat
  OBVIOUS
<1>2. Len(line) # 0 => (s \o line)[Len(s) + Len(line)] = line[Len(line)]
  BY <1>1
<1>3. QED
  BY <1>1, <1>2

LEMMA TypeKeeps ==
    ASSUME BufferInv, NEW line \in Lines, Type(line) PROVE BufferInv'
<1>1. /\ stdin' = stdin \o line /\ typed' = typed \o line
      /\ UNCHANGED <<uart_rx_idx, uart_rx_buff, reader, idx, i, uart_rx_last_idx,
                     overrun, uart_dr, rxfe, imsc, icr, counter, driver, delivered>>
  BY DEF Type, device
<1>2. /\ typed \in Seq(Chars) /\ stdin \in Seq(Chars)
      /\ Len(typed) \in Nat /\ Len(stdin) \in Nat /\ Len(stdin) <= Len(typed)
      /\ line \in Seq(Chars) /\ Len(line) \in Nat \ {0} /\ line[Len(line)] = NewLine
  BY LineIs DEF BufferInv, TypeOK
<1>3. /\ stdin' \in Seq(Chars) /\ typed' \in Seq(Chars)
      /\ Len(stdin') = Len(stdin) + Len(line) /\ Len(typed') = Len(typed) + Len(line)
      /\ stdin'[Len(stdin')] = NewLine
  BY <1>1, <1>2, LineTyped
<1>4. TypeOK'
  BY <1>1, <1>3 DEF BufferInv, TypeOK
<1>5. Taken' = Taken
  BY <1>2, <1>3 DEF Taken
<1>6. Fits' => Fits
  <2>1. /\ Len(typed) <= Len(typed') /\ Len(typed') \in Nat
        /\ Chunk - 1 \in Nat \ {0} /\ BuffLen \in Nat
    BY <1>2, <1>3, Sizes
  <2>2. PICK a \in Nat : a = Len(typed) \div (Chunk - 1)
    BY <1>2, <2>1, Quotient
  <2>3. PICK b \in Nat : b = Len(typed') \div (Chunk - 1)
    BY <2>1, Quotient
  <2>4. a <= b
    BY <1>2, <2>1, <2>2, <2>3, QuotientGrows
  <2>5. QED
    BY <1>2, <2>1, <2>2, <2>3, <2>4 DEF Fits
<1>7. FirstRound => FirstRound'
  BY <1>1, <1>5 DEF FirstRound, ChunkOf, Counted
<1>8. AllWritten => AllWritten'
  BY <1>1 DEF AllWritten
<1>9. Len(stdin') <= Len(typed')
  BY <1>2, <1>3
<1>10. QED
  BY <1>1, <1>3, <1>4, <1>6, <1>7, <1>8, <1>9 DEF BufferInv

(* What fgets leaves in the array and behind in the terminal.              *)
Filled(base, n, s) ==
    IF s - base \in 0..(n - 1) THEN stdin[s - base + 1]
    ELSE IF s - base = n THEN Nul ELSE uart_rx_buff[s]

LEMMA FgetsFills ==
    ASSUME BufferInv, NEW base \in Slots, NEW n \in 1..Len(stdin), base + n < BuffLen
    PROVE  LET buff == [s \in Slots |-> Filled(base, n, s)]
           IN  /\ buff \in [Slots -> Chars \cup {Stale}]
               /\ \A s \in base..(base + n) : buff[s] \in Chars
               /\ \A s \in Slots : uart_rx_buff[s] \in Chars => buff[s] \in Chars
               /\ buff[base + n - 1] = stdin[n]
<1>1. /\ stdin \in Seq(Chars) /\ Nul \in Chars /\ Len(stdin) \in Nat
      /\ uart_rx_buff \in [Slots -> Chars \cup {Stale}]
  BY DEF BufferInv, TypeOK, Chars
<1>2. \A k \in 1..Len(stdin) : stdin[k] \in Chars
  BY <1>1
<1>3. base \in Nat /\ BuffLen \in Nat /\ n \in Nat /\ base < BuffLen
  BY Sizes DEF Slots
<1>4. ASSUME NEW s \in Slots, s - base \in 0..(n - 1) PROVE Filled(base, n, s) \in Chars
  <2>1. s - base + 1 \in 1..Len(stdin)
    BY <1>1, <1>3, <1>4 DEF Slots
  <2>2. QED
    BY <1>2, <1>4, <2>1 DEF Filled
<1>5. ASSUME NEW s \in Slots, s - base = n PROVE Filled(base, n, s) \in Chars
  BY <1>1, <1>3, <1>5 DEF Filled
<1>6. ASSUME NEW s \in Slots, s - base \notin 0..(n - 1), s - base # n
      PROVE  Filled(base, n, s) = uart_rx_buff[s]
  BY <1>6 DEF Filled
<1> DEFINE buff == [s \in Slots |-> Filled(base, n, s)]
<1>7. buff \in [Slots -> Chars \cup {Stale}]
  BY <1>1, <1>4, <1>5, <1>6
<1>8. \A s \in base..(base + n) : buff[s] \in Chars
  <2>1. SUFFICES ASSUME NEW s \in base..(base + n) PROVE buff[s] \in Chars
    OBVIOUS
  <2>2. s \in Slots /\ (s - base \in 0..(n - 1) \/ s - base = n)
    BY <1>3 DEF Slots
  <2>3. QED
    BY <1>4, <1>5, <2>2
<1>9. \A s \in Slots : uart_rx_buff[s] \in Chars => buff[s] \in Chars
  BY <1>4, <1>5, <1>6
<1>10. buff[base + n - 1] = stdin[n]
  <2>1. base + n - 1 \in Slots /\ (base + n - 1) - base = n - 1 /\ n - 1 \in 0..(n - 1)
    BY <1>3 DEF Slots
  <2>2. (n - 1) + 1 = n
    BY <1>3
  <2>3. QED
    BY <2>1, <2>2 DEF Filled
<1>11. QED
  BY <1>7, <1>8, <1>9, <1>10

LEMMA StdinLeft ==
    ASSUME BufferInv, NEW n \in 1..Len(stdin)
    PROVE  LET rest == SubSeq(stdin, n + 1, Len(stdin))
           IN  /\ rest \in Seq(Chars) /\ Len(rest) = Len(stdin) - n
               /\ rest # <<>> => rest[Len(rest)] = NewLine
<1>1. stdin \in Seq(Chars) /\ Len(stdin) \in Nat /\ (stdin # <<>> => stdin[Len(stdin)] = NewLine)
  BY DEF BufferInv, TypeOK
<1> DEFINE m == Len(stdin)
           rest == SubSeq(stdin, n + 1, m)
<1>2. m \in Nat /\ n \in Nat /\ n <= m /\ \A k \in (n + 1)..m : stdin[k] \in Chars
  BY <1>1
<1>3. /\ rest \in Seq(Chars)
      /\ Len(rest) = IF n + 1 <= m THEN m - (n + 1) + 1 ELSE 0
      /\ \A k \in 1..(m - (n + 1) + 1) : rest[k] = stdin[n + 1 + k - 1]
  <2>1. n + 1 \in Int /\ m \in Int
    BY <1>2
  <2> HIDE DEF m
  <2>2. QED
    BY <1>2, <2>1, SubSeqProperties
<1>4. Len(rest) = m - n
  BY <1>2, <1>3
<1>5. ASSUME rest # <<>> PROVE rest[Len(rest)] = NewLine
  <2>1. Len(rest) # 0
    BY <1>3, <1>5
  <2>2. m - n \in 1..(m - (n + 1) + 1) /\ n + 1 + (m - n) - 1 = m /\ stdin # <<>>
    BY <1>1, <1>2, <1>4, <2>1
  <2>3. rest[m - n] = stdin[m]
    <3>1. rest[m - n] = stdin[n + 1 + (m - n) - 1]
      BY <1>3, <2>2
    <3>2. QED
      BY <2>2, <3>1
  <2>4. QED
    BY <1>1, <1>4, <2>2, <2>3
<1>6. QED
  BY <1>3, <1>4, <1>5

LEMMA BaseIs ==
    ASSUME BufferInv
    PROVE  /\ uart_rx_idx \in Nat /\ uart_rx_idx < IdxMod /\ uart_rx_idx % BuffLen \in Slots
           /\ uart_rx_idx < BuffLen => uart_rx_idx % BuffLen = uart_rx_idx
<1>1. uart_rx_idx \in Nat /\ uart_rx_idx < IdxMod
  BY Sizes DEF BufferInv, TypeOK
<1>2. QED
  BY <1>1, Sizes DEF Slots

LEMMA FgetsKeeps == ASSUME BufferInv, Fgets PROVE BufferInv'
<1>1. /\ reader = "fgets" /\ stdin # <<>>
      /\ UNCHANGED <<uart_rx_last_idx, uart_dr, rxfe, imsc, icr, counter, uart_rx_idx,
                     driver, typed, delivered>>
  BY DEF Fgets, device
<1>2. PICK n \in 1..Len(stdin) :
          /\ n = TakenByFgets /\ n \in 1..(Chunk - 1)
          /\ stdin[n] = NewLine \/ n = Chunk - 1
  BY <1>1, FgetsTakes
<1>3. PICK base \in Slots :
          /\ base = uart_rx_idx % BuffLen /\ uart_rx_idx \in Nat
          /\ uart_rx_idx < BuffLen => base = uart_rx_idx
  BY BaseIs
<1>4. /\ stdin \in Seq(Chars) /\ typed \in Seq(Chars) /\ Len(stdin) \in Nat /\ Len(typed) \in Nat
      /\ Len(stdin) <= Len(typed) /\ Taken \in Nat /\ Taken + Len(stdin) = Len(typed)
      /\ n \in Nat /\ n <= Len(stdin)
  BY <1>2 DEF BufferInv, TypeOK, Taken
<1>5. /\ FirstRound => Counted(base, Taken) /\ base = uart_rx_idx
      /\ Fits' = Fits
  BY <1>1, <1>3 DEF FirstRound, Fits
<1>6. CASE base + n >= BuffLen
  <2>1. overrun' = TRUE /\ UNCHANGED <<uart_rx_buff, reader, idx, i, stdin>>
    BY <1>2, <1>3, <1>6 DEF Fgets
  <2>2. TypeOK'
    <3>1. {rxfe, imsc, icr, overrun}' \subseteq BOOLEAN
      BY <1>1, <2>1, Zenon DEF BufferInv, TypeOK
    <3>2. QED
      BY <1>1, <2>1, <3>1 DEF BufferInv, TypeOK
  <2>3. ~Fits
    <3>1. SUFFICES ASSUME Fits PROVE FALSE
      OBVIOUS
    <3>2. Counted(base, Taken) /\ base \in Nat /\ Taken <= Len(typed) /\ n + Taken <= Len(typed)
      BY <1>3, <1>4, <1>5, <3>1, Sizes DEF BufferInv, Slots
    <3>3. base + n < BuffLen
      BY <1>4, <3>1, <3>2, CountedFits
    <3>4. QED
      BY <1>3, <1>4, <1>6, <3>2, <3>3, Sizes
  <2>4. /\ FirstRound => FirstRound'
        /\ AllWritten => AllWritten'
    BY <1>1, <2>1 DEF FirstRound, AllWritten, Taken, Counted
  <2>5. QED
    BY <1>1, <1>5, <2>1, <2>2, <2>3, <2>4 DEF BufferInv
<1>7. CASE ~(base + n >= BuffLen)
  <2>1. /\ uart_rx_buff' = [s \in Slots |-> Filled(base, n, s)]
        /\ stdin' = SubSeq(stdin, n + 1, Len(stdin))
        /\ idx' = base /\ i' = 0 /\ reader' = "publish" /\ overrun' = overrun
    BY <1>2, <1>3, <1>7 DEF Fgets, Filled
  <2>2. base + n < BuffLen /\ base \in Nat
    BY <1>3, <1>4, <1>7, Sizes DEF Slots
  <2>3. /\ uart_rx_buff' \in [Slots -> Chars \cup {Stale}]
        /\ \A s \in base..(base + n) : uart_rx_buff'[s] \in Chars
        /\ \A s \in Slots : uart_rx_buff[s] \in Chars => uart_rx_buff'[s] \in Chars
        /\ uart_rx_buff'[base + n - 1] = stdin[n]
    <3>1. LET buff == [s \in Slots |-> Filled(base, n, s)]
          IN  /\ buff \in [Slots -> Chars \cup {Stale}]
              /\ \A s \in base..(base + n) : buff[s] \in Chars
              /\ \A s \in Slots : uart_rx_buff[s] \in Chars => buff[s] \in Chars
              /\ buff[base + n - 1] = stdin[n]
      BY <2>2, FgetsFills
    <3>2. QED
      BY <2>1, <3>1, Zenon
  <2>4. /\ stdin' \in Seq(Chars) /\ Len(stdin') = Len(stdin) - n
        /\ stdin' # <<>> => stdin'[Len(stdin')] = NewLine
    <3>1. QED
      BY <1>2, <2>1, StdinLeft
  <2>5. TypeOK'
    <3>1. {rxfe, imsc, icr, overrun}' \subseteq BOOLEAN
      BY <1>1, <2>1, Zenon DEF BufferInv, TypeOK
    <3>2. 0 \in 0..(Chunk - 1)
      BY Sizes
    <3>3. QED
      BY <1>1, <1>3, <2>1, <2>3, <2>4, <3>1, <3>2 DEF BufferInv, TypeOK
  <2>6. Len(stdin') <= Len(typed') /\ Taken' = Taken + n
    BY <1>1, <1>4, <2>4 DEF Taken
  <2>7. AllWritten => AllWritten'
    BY <2>3 DEF AllWritten
  <2>8. ASSUME FirstRound PROVE FirstRound'
    <3>1. base = uart_rx_idx /\ Counted(base, Taken)
      BY <1>5, <2>8
    <3>2. ChunkOf(n)'
      <4>1. uart_rx_idx' = idx' + i'
        BY <1>1, <1>3, <2>1, <3>1
      <4>2. idx' + n < BuffLen /\ i' <= n
        BY <1>4, <2>1, <2>2
      <4>3. n = Chunk - 1 \/ (uart_rx_buff'[idx' + n - 1] = NewLine /\ i' < n)
        BY <1>2, <2>1, <2>3
      <4>4. n <= Taken' /\ Taken' - n = Taken
        BY <1>4, <2>6
      <4>5. Counted(idx', Taken' - n)
        BY <2>1, <3>1, <4>4
      <4>6. QED
        BY <2>1, <2>3, <4>1, <4>2, <4>3, <4>4, <4>5 DEF ChunkOf, Counted
    <3>3. QED
      BY <1>1, <1>2, <2>1, <2>3, <2>8, <3>2 DEF FirstRound
  <2>9. QED
    BY <1>1, <1>5, <2>1, <2>4, <2>5, <2>6, <2>7, <2>8 DEF BufferInv
<1>8. QED
  BY <1>6, <1>7

(* The index is advanced before the character is looked at: it stops at    *)
(* most one behind the chunk, which is the terminator's place.             *)
LEMMA PublishTypes == ASSUME BufferInv, Publish PROVE TypeOK'
<1>1. UNCHANGED <<uart_rx_last_idx, uart_dr, rxfe, imsc, icr, counter, uart_rx_buff, idx,
                  stdin, overrun, driver, typed, delivered>>
  BY DEF Publish, device
<1>2. uart_rx_idx' \in 0..(IdxMod - 1)
  <2>1. uart_rx_idx + 1 \in Nat /\ IdxMod \in Nat \ {0}
    BY BaseIs, Sizes
  <2>2. \A x \in Nat : \A m \in Nat \ {0} : x % m \in 0..(m - 1)
    OBVIOUS
  <2>3. QED
    BY <2>1, <2>2 DEF Publish
<1>3. i' \in 0..(Chunk - 1) /\ reader' \in {"fgets", "publish"}
  BY Sizes DEF Publish, BufferInv, TypeOK
<1>4. {rxfe, imsc, icr, overrun}' \subseteq BOOLEAN
  BY <1>1, Zenon DEF BufferInv, TypeOK
<1>5. QED
  BY <1>1, <1>2, <1>3, <1>4 DEF BufferInv, TypeOK

LEMMA PublishInRound ==
    ASSUME BufferInv, Publish, FirstRound
    PROVE  FirstRound' \/ (AllWritten' /\ ~Fits)
<1>1. /\ reader = "publish"
      /\ uart_rx_idx' = (uart_rx_idx + 1) % IdxMod
      /\ IF uart_rx_buff[idx + i] = NewLine \/ i + 1 = Chunk
         THEN reader' = "fgets" /\ i' = i
         ELSE i' = i + 1 /\ reader' = "publish"
      /\ UNCHANGED <<uart_rx_last_idx, uart_rx_buff, idx, stdin, overrun, typed>>
  BY DEF Publish, device
<1>2. PICK n \in 1..(Chunk - 1) : ChunkOf(n)
  BY <1>1 DEF FirstRound
<1>3. /\ uart_rx_idx = idx + i /\ idx + n < BuffLen /\ i <= n
      /\ \A s \in idx..(idx + n) : uart_rx_buff[s] \in Chars
      /\ n = Chunk - 1 \/ (uart_rx_buff[idx + n - 1] = NewLine /\ i < n)
      /\ n <= Taken /\ Counted(idx, Taken - n)
  BY <1>2 DEF ChunkOf
<1>4. /\ idx \in Nat /\ i \in Nat /\ n \in Nat /\ uart_rx_idx \in Nat
      /\ uart_rx_last_idx \in Nat /\ i <= Chunk - 1
      /\ Taken \in Nat /\ Taken <= Len(typed) /\ typed \in Seq(Chars) /\ Len(typed) \in Nat
  BY <1>2, Sizes DEF BufferInv, TypeOK, Slots, Taken
<1>5. Taken' = Taken /\ Fits' = Fits
  BY <1>1 DEF Taken, Fits
<1>6. /\ Taken - n \in Nat /\ (Taken - n) + n = Taken
  BY <1>3, <1>4
<1>7. \A p \in Nat : p <= idx + n => Counted(p, Taken)
  BY <1>3, <1>4, <1>6, CountedMore
<1>8. n = Chunk - 1 => Counted(idx + n + 1, Taken)
  BY <1>3, <1>4, <1>6, CountedMore
<1>9. \A s \in Slots : s < uart_rx_idx + 1 => uart_rx_buff[s] \in Chars
  <2>1. SUFFICES ASSUME NEW s \in Slots, s < uart_rx_idx + 1 PROVE uart_rx_buff[s] \in Chars
    OBVIOUS
  <2>2. CASE s < uart_rx_idx
    BY <2>2 DEF FirstRound
  <2>3. CASE s = uart_rx_idx
    <3>1. s \in idx..(idx + n)
      BY <1>3, <1>4, <2>3
    <3>2. QED
      BY <1>3, <3>1
  <2>4. QED
    BY <1>4, <2>1, <2>2, <2>3 DEF Slots
<1>10. CASE uart_rx_buff[idx + i] = NewLine \/ i + 1 = Chunk
  <2>1. reader' = "fgets"
    BY <1>1, <1>10
  <2>2. Counted(uart_rx_idx + 1, Taken)
    <3>1. CASE i < n
      BY <1>3, <1>4, <1>7, <3>1
    <3>2. CASE i = n
      <4>1. n = Chunk - 1 /\ uart_rx_idx + 1 = idx + n + 1
        BY <1>3, <1>4, <3>2
      <4>2. QED
        BY <1>8, <4>1
    <3>3. QED
      BY <1>3, <1>4, <3>1, <3>2
  <2>3. CASE uart_rx_idx + 1 < BuffLen
    <3>1. uart_rx_idx' = uart_rx_idx + 1
      <4>1. uart_rx_idx + 1 < IdxMod
        BY <1>4, <2>3, Sizes
      <4>2. QED
        BY <1>1, <1>4, <4>1, Sizes
    <3>2. Counted(uart_rx_idx, Taken)'
      BY <1>5, <2>2, <3>1 DEF Counted
    <3>3. uart_rx_last_idx' <= uart_rx_idx'
      BY <1>1, <1>4, <3>1 DEF FirstRound
    <3>4. QED
      BY <1>1, <1>9, <2>1, <2>3, <3>1, <3>2, <3>3 DEF FirstRound
  <2>4. CASE ~(uart_rx_idx + 1 < BuffLen)
    <3>1. AllWritten'
      BY <1>1, <1>4, <1>9, <2>4, Sizes DEF AllWritten, Slots
    <3>2. ASSUME Fits PROVE FALSE
      <4>1. uart_rx_idx + 1 \in Nat /\ 0 \in Nat /\ 0 + Taken <= Len(typed)
        BY <1>4
      <4>2. uart_rx_idx + 1 + 0 < BuffLen
        BY <1>4, <2>2, <3>2, <4>1, CountedFits
      <4>3. QED
        BY <1>4, <2>4, <4>2, Sizes
    <3>3. QED
      BY <3>1, <3>2
  <2>5. QED
    BY <2>3, <2>4
<1>11. CASE ~(uart_rx_buff[idx + i] = NewLine \/ i + 1 = Chunk)
  <2>1. reader' = "publish" /\ i' = i + 1
    BY <1>1, <1>11
  <2>2. i + 1 <= n /\ (n = Chunk - 1 \/ i + 1 < n)
    <3>1. CASE n = Chunk - 1
      BY <1>4, <1>11, <3>1, Sizes
    <3>2. CASE uart_rx_buff[idx + n - 1] = NewLine /\ i < n
      <4>1. i # n - 1
        <5>1. i = n - 1 => idx + i = idx + n - 1
          BY <1>4
        <5>2. QED
          BY <1>11, <3>2, <5>1
      <4>2. QED
        BY <1>4, <3>2, <4>1
    <3>3. QED
      BY <1>3, <3>1, <3>2
  <2>3. uart_rx_idx' = uart_rx_idx + 1 /\ uart_rx_idx + 1 < BuffLen
    <3>1. uart_rx_idx + 1 < BuffLen /\ uart_rx_idx + 1 < IdxMod
      BY <1>3, <1>4, <2>2, Sizes
    <3>2. QED
      BY <1>1, <1>4, <3>1, Sizes
  <2>4. ChunkOf(n)'
    <3>1. uart_rx_idx' = idx' + i' /\ i' <= n
      BY <1>1, <1>3, <1>4, <2>1, <2>2, <2>3
    <3>2. n = Chunk - 1 \/ (uart_rx_buff'[idx' + n - 1] = NewLine /\ i' < n)
      BY <1>1, <1>3, <2>1, <2>2
    <3>3. QED
      BY <1>1, <1>3, <1>5, <3>1, <3>2 DEF ChunkOf, Counted
  <2>5. uart_rx_last_idx' <= uart_rx_idx'
    BY <1>1, <1>4, <2>3 DEF FirstRound
  <2>6. QED
    BY <1>1, <1>2, <1>9, <2>1, <2>3, <2>4, <2>5 DEF FirstRound
<1>12. QED
  BY <1>10, <1>11

LEMMA PublishKeeps == ASSUME BufferInv, Publish PROVE BufferInv'
<1>1. TypeOK'
  BY PublishTypes
<1>2. UNCHANGED <<uart_rx_buff, stdin, overrun, typed>> /\ Fits' = Fits
  BY DEF Publish, Fits
<1>3. AllWritten => AllWritten'
  BY <1>2 DEF AllWritten
<1>4. FirstRound => FirstRound' \/ (AllWritten' /\ ~Fits)
  BY PublishInRound
<1>5. QED
  BY <1>1, <1>2, <1>3, <1>4 DEF BufferInv

-----------------------------------------------------------------------------
(* The side that reads.                                                    *)
LEMMA RaiseKeeps == ASSUME BufferInv, Raise PROVE BufferInv'
<1>1. /\ uart_rx_idx # uart_rx_last_idx /\ uart_rx_last_idx < BuffLen
      /\ counter' = 0 /\ icr' = FALSE /\ rxfe' = FALSE /\ driver' = "intr"
      /\ uart_dr' = uart_rx_buff[uart_rx_last_idx]
      /\ uart_rx_last_idx' = (uart_rx_last_idx + 1) % IdxMod
      /\ UNCHANGED <<imsc, uart_rx_idx, uart_rx_buff, reader, idx, i, stdin, overrun,
                     typed, delivered>>
  BY DEF Raise, Ready, thread
<1>2. /\ uart_rx_last_idx \in Slots /\ uart_rx_last_idx \in Nat /\ uart_rx_idx \in Nat
  BY <1>1, Sizes DEF BufferInv, TypeOK, Slots
<1>3. FirstRound => uart_rx_last_idx < uart_rx_idx /\ uart_rx_last_idx + 1 < IdxMod
  BY <1>1, <1>2, Sizes DEF FirstRound
<1>4. uart_dr' \in Chars
  BY <1>1, <1>2, <1>3 DEF BufferInv, FirstRound, AllWritten
<1>5. uart_rx_last_idx' \in 0..(IdxMod - 1)
  <2>1. \A x \in Nat : \A m \in Nat \ {0} : x % m \in 0..(m - 1)
    OBVIOUS
  <2>2. uart_rx_last_idx + 1 \in Nat /\ IdxMod \in Nat \ {0}
    BY <1>2, Sizes
  <2>3. QED
    BY <1>1, <2>1, <2>2
<1>6. TypeOK'
  <2>1. {rxfe, imsc, icr, overrun}' \subseteq BOOLEAN
    BY <1>1, Zenon DEF BufferInv, TypeOK
  <2>2. QED
    BY <1>1, <1>4, <1>5, <2>1, Sizes DEF BufferInv, TypeOK
<1>7. FirstRound => FirstRound'
  <2>1. FirstRound => uart_rx_last_idx' = uart_rx_last_idx + 1
    BY <1>1, <1>2, <1>3, Sizes
  <2>2. FirstRound => uart_rx_last_idx' <= uart_rx_idx
    BY <1>2, <1>3, <2>1
  <2>3. QED
    BY <1>1, <2>2 DEF FirstRound, ChunkOf, Counted, Taken
<1>8. (AllWritten => AllWritten') /\ Fits' = Fits
  BY <1>1 DEF AllWritten, Fits
<1>9. QED
  BY <1>1, <1>6, <1>7, <1>8 DEF BufferInv

LEMMA RaisePastEndKeeps == ASSUME BufferInv, RaisePastEnd PROVE BufferInv'
<1>1. /\ uart_rx_idx # uart_rx_last_idx /\ uart_rx_last_idx >= BuffLen /\ overrun' = TRUE
      /\ UNCHANGED <<uart_rx_last_idx, uart_dr, rxfe, imsc, icr, counter, uart_rx_idx,
                     uart_rx_buff, reader, idx, i, stdin, driver, typed, delivered>>
  BY DEF RaisePastEnd, Ready, device, thread
<1>2. ~FirstRound
  <2>1. uart_rx_last_idx \in Nat /\ uart_rx_idx \in Nat /\ BuffLen \in Nat
    BY Sizes DEF BufferInv, TypeOK
  <2>2. QED
    BY <1>1, <2>1 DEF FirstRound
<1>3. ~Fits /\ Fits' = Fits /\ AllWritten /\ AllWritten'
  BY <1>1, <1>2 DEF BufferInv, AllWritten, Fits
<1>4. TypeOK'
  <2>1. {rxfe, imsc, icr, overrun}' \subseteq BOOLEAN
    BY <1>1, Zenon DEF BufferInv, TypeOK
  <2>2. QED
    BY <1>1, <2>1 DEF BufferInv, TypeOK
<1>5. QED
  BY <1>1, <1>3, <1>4 DEF BufferInv

(* The rest of the cpu leaves the array and its indices alone.             *)
LEMMA DriverKeeps ==
    ASSUME BufferInv,
           Counting \/ PollIdle \/ Driver \/ Send
    PROVE  BufferInv'
<1>1. UNCHANGED <<thread, uart_rx_last_idx, overrun, typed>>
  BY DEF Counting, PollIdle, Driver, LoadFR, LoadDR, StoreICR, StoreIMSC,
         Send, StoreDR, device
<1>2. {rxfe, imsc, icr, overrun}' \subseteq BOOLEAN
  <2>1. UNCHANGED overrun /\ {rxfe, imsc, icr, overrun} \subseteq BOOLEAN
    BY DEF Counting, PollIdle, Driver, LoadFR, LoadDR, StoreICR, StoreIMSC,
           Send, StoreDR, BufferInv, TypeOK
  <2>2. rxfe' = rxfe \/ rxfe' = TRUE
    BY Zenon DEF Counting, PollIdle, Driver, LoadFR, LoadDR, StoreICR, StoreIMSC,
           Send, StoreDR, device
  <2>3. imsc' = imsc \/ imsc' = TRUE
    BY Zenon DEF Counting, PollIdle, Driver, LoadFR, LoadDR, StoreICR, StoreIMSC,
           Send, StoreDR, device
  <2>4. icr' = icr \/ icr' = TRUE
    BY Zenon DEF Counting, PollIdle, Driver, LoadFR, LoadDR, StoreICR, StoreIMSC,
           Send, StoreDR, device
  <2>5. QED
    BY <2>1, <2>2, <2>3, <2>4, Zenon
<1>3. /\ uart_dr' \in Chars
      /\ driver' \in {"idle", "intr", "getc", "rearm"}
      /\ delivered' \in Seq(Chars)
  <2>1. uart_dr \in Chars /\ Nul \in Chars /\ delivered \in Seq(Chars)
        /\ driver \in {"idle", "intr", "getc", "rearm"}
    BY DEF BufferInv, TypeOK, Chars
  <2>2. Append(delivered, uart_dr) \in Seq(Chars)
    BY <2>1
  <2>3. QED
    BY <2>1, <2>2
    DEF Counting, PollIdle, Driver, LoadFR, LoadDR, StoreICR, StoreIMSC,
           Send, StoreDR, device
<1>4. counter' \in 0..PollPeriod
  <2>1. counter \in 0..PollPeriod /\ PollPeriod \in Nat
    BY Sizes DEF BufferInv, TypeOK
  <2>2. QED
    BY <2>1
    DEF Counting, PollIdle, Driver, LoadFR, LoadDR, StoreICR, StoreIMSC,
           Send, StoreDR, device
<1>5. TypeOK'
  BY <1>1, <1>2, <1>3, <1>4 DEF thread, BufferInv, TypeOK
<1>6. QED
  BY <1>1, <1>5, BufferSame

LEMMA BufferInit == ASSUME FullInit PROVE BufferInv
<1>1. /\ uart_rx_idx = 0 /\ uart_rx_last_idx = 0 /\ uart_rx_buff = [s \in Slots |-> Stale]
      /\ uart_dr = Nul /\ counter = 0 /\ reader = "fgets" /\ idx = 0 /\ i = 0
      /\ stdin = <<>> /\ driver = "idle" /\ typed = <<>> /\ delivered = <<>>
  BY DEF FullInit, Init
<1>2. {rxfe, imsc, icr, overrun} \subseteq BOOLEAN /\ ~overrun
  <2>1. rxfe = TRUE /\ imsc \in BOOLEAN /\ icr = TRUE /\ overrun = FALSE
    BY DEF FullInit, Init
  <2>2. QED
    BY <2>1, Zenon
<1>3. TypeOK
  <2>1. 0 \in 0..(IdxMod - 1) /\ 0 \in Slots /\ 0 \in 0..PollPeriod /\ 0 \in 0..(Chunk - 1)
    BY Sizes DEF Slots
  <2>2. Nul \in Chars /\ <<>> \in Seq(Chars)
    BY DEF Chars
  <2>3. uart_rx_buff \in [Slots -> Chars \cup {Stale}]
    BY <1>1
  <2>4. QED
    BY <1>1, <1>2, <2>1, <2>2, <2>3 DEF TypeOK
<1>4. FirstRound
  <2>1. Taken = 0
    BY <1>1 DEF Taken
  <2>2. Counted(0, 0)
    <3>1. 0 <= 0 + 0 /\ 0 * (Chunk - 1) <= 0
      BY Sizes
    <3>2. QED
      BY <3>1 DEF Counted
  <2>3. \A s \in Slots : ~(s < 0)
    BY Sizes DEF Slots
  <2>4. QED
    BY <1>1, <2>1, <2>2, <2>3, Sizes DEF FirstRound
<1>5. QED
  BY <1>1, <1>2, <1>3, <1>4 DEF BufferInv

(* One step per actor: the user, the reader, the cpu, the process.         *)
LEMMA BufferStep == ASSUME BufferInv, [FullNext]_all PROVE BufferInv'
<1>1. CASE \E line \in Lines : Type(line)
  BY <1>1, TypeKeeps
<1>2. CASE ReaderRuns
  BY <1>2, FgetsKeeps, PublishKeeps DEF ReaderRuns, Reader
<1>3. CASE CpuRuns
  BY <1>3, RaiseKeeps, RaisePastEndKeeps, DriverKeeps DEF CpuRuns, Cpu, IsInterrupting
<1>4. CASE UNCHANGED vars
  <2>1. UNCHANGED <<uart_rx_idx, uart_rx_last_idx, uart_rx_buff, uart_dr, rxfe, imsc, icr,
                    counter, reader, idx, i, stdin, overrun, driver, typed, delivered>>
    BY <1>4 DEF vars, device, thread
  <2>2. TypeOK'
    <3>1. {rxfe, imsc, icr, overrun}' \subseteq BOOLEAN
      BY <2>1, Zenon DEF BufferInv, TypeOK
    <3>2. QED
      BY <2>1, <3>1 DEF BufferInv, TypeOK
  <2>3. QED
    BY <2>1, <2>2, BufferSame DEF thread
<1>5. CASE Main \/ Close \/ EndOfInput
  <2>1. UNCHANGED vars
    BY <1>5 DEF Main, Close, EndOfInput, LoadFails, Construct, EnterLoop, SkipLoop,
                NoInstruction, ExitInInstruction, LeaveLoop, DestroyEmulator, EndMain
  <2>2. QED
    BY <2>1, <1>4
<1>6. QED
  BY <1>1, <1>2, <1>3, <1>4, <1>5 DEF FullNext, all

(* The uart's state has its type in every session of the emulator, however *)
(* often the indices wrap.                                                 *)
THEOREM UartTypes == FullSpec => []TypeOK
<1>1. BufferInv => TypeOK
  BY DEF BufferInv
<1>2. QED
  BY <1>1, BufferInit, BufferStep, PTL DEF FullSpec

(* For every size of the array and of the chunk, neither fgets nor         *)
(* is_interrupting leaves the array as long as what was typed fits in it,  *)
(* terminators included.                                                   *)
THEOREM NoOverrun == FullSpec => []NoOverrunWhileItFits
<1>1. BufferInv => NoOverrunWhileItFits
  BY DEF BufferInv, NoOverrunWhileItFits
<1>2. QED
  BY <1>1, BufferInit, BufferStep, PTL DEF FullSpec

-----------------------------------------------------------------------------
(* The stream.  While the session fits, c[s] says how many characters of   *)
(* the user's lie before place s of the array, whose places are filled up  *)
(* to e: to the index, and while a chunk is published to the chunk's end.  *)
Console ==
    /\ \A k \in 1..Len(typed) : typed[k] # Nul
    /\ \A k \in 1..Len(stdin) : stdin[k] = typed[Taken + k]
    /\ icr => driver = "idle"
    /\ rxfe \/ driver \in {"intr", "getc"}
    /\ driver = "getc" => ~rxfe

Counts == [0..BuffLen -> Nat]

Published(c, e) ==
    /\ uart_rx_idx <= e
    /\ reader = "fgets" => e = uart_rx_idx
    /\ reader = "publish" =>
          /\ uart_rx_idx < e
          /\ \A s \in uart_rx_idx..(e - 1) :
                (uart_rx_buff[s] = NewLine \/ s + 1 = idx + Chunk) <=> s + 1 = e
    /\ \A s \in 0..(e - 1) :
          /\ uart_rx_buff[s] = Nul => c[s + 1] = c[s]
          /\ uart_rx_buff[s] # Nul => c[s + 1] = c[s] + 1 /\ uart_rx_buff[s] = typed[c[s + 1]]
    /\ \A s \in 0..e : c[s] <= Taken
    /\ c[e] = Taken

(* The driver has what lies before the other index, but for a character    *)
(* that waits in the data register.                                        *)
Collected(c) ==
    /\ (rxfe \/ uart_dr = Nul) => c[uart_rx_last_idx] = Len(delivered)
    /\ (~rxfe /\ uart_dr # Nul) =>
          /\ c[uart_rx_last_idx] = Len(delivered) + 1
          /\ uart_dr = typed[c[uart_rx_last_idx]]

StreamInv ==
    /\ BufferInv
    /\ Console
    /\ Fits => \E c \in Counts, e \in Slots : Published(c, e) /\ Collected(c)

(* What the sizes and types say while the session fits.                    *)
LEMMA WhileItFits ==
    ASSUME BufferInv, Fits
    PROVE  /\ uart_rx_idx \in Nat /\ uart_rx_last_idx \in Nat
           /\ uart_rx_last_idx <= uart_rx_idx /\ uart_rx_idx < BuffLen
           /\ BuffLen \in Nat /\ BuffLen <= IdxMod /\ Chunk \in Nat /\ Chunk > 1
           /\ typed \in Seq(Chars) /\ stdin \in Seq(Chars) /\ delivered \in Seq(Chars)
           /\ Len(typed) \in Nat /\ Len(stdin) \in Nat /\ Len(delivered) \in Nat
           /\ Taken \in Nat /\ Taken + Len(stdin) = Len(typed)
           /\ idx \in Nat /\ i \in Nat
<1>1. FirstRound /\ TypeOK /\ Len(stdin) <= Len(typed)
  BY DEF BufferInv
<1>2. /\ uart_rx_idx \in Nat /\ uart_rx_last_idx \in Nat
      /\ uart_rx_last_idx <= uart_rx_idx /\ uart_rx_idx < BuffLen
      /\ idx \in Nat /\ i \in Nat
  BY <1>1, Sizes DEF FirstRound, TypeOK, Slots
<1>3. /\ typed \in Seq(Chars) /\ stdin \in Seq(Chars) /\ delivered \in Seq(Chars)
      /\ Len(typed) \in Nat /\ Len(stdin) \in Nat /\ Len(delivered) \in Nat
  BY <1>1 DEF TypeOK
<1>4. QED
  BY <1>1, <1>2, <1>3, Sizes DEF Taken

(* Steps that change neither the lines, the array nor the driver's side.   *)
LEMMA StreamSame ==
    ASSUME NEW c, NEW e, Published(c, e), Collected(c),
           UNCHANGED <<thread, typed, uart_rx_last_idx, rxfe, uart_dr, delivered>>
    PROVE  Published(c, e)' /\ Collected(c)'
<1>1. UNCHANGED <<uart_rx_idx, uart_rx_buff, reader, idx, i, stdin, typed, uart_rx_last_idx,
                  rxfe, uart_dr, delivered>>
  BY DEF thread
<1>2. QED
  BY <1>1 DEF Published, Collected, Taken

-----------------------------------------------------------------------------
(* A line more.                                                            *)
LEMMA LongerLine ==
    ASSUME NEW s \in Seq(Chars), NEW line \in Seq(Chars)
    PROVE  /\ \A k \in 1..Len(s) : (s \o line)[k] = s[k]
           /\ \A k \in 1..Len(line) : (s \o line)[Len(s) + k] = line[k]
           /\ \A k \in 1..Len(s \o line) :
                 k \in 1..Len(s) \/ (k - Len(s) \in 1..Len(line) /\ k = Len(s) + (k - Len(s)))
<1>1. Len(s) \in Nat /\ Len(line) \in Nat /\ Len(s \o line) = Len(s) + Len(line)
  OBVIOUS
<1>2. \A k \in 1..Len(s) : (s \o line)[k] = s[k]
  BY <1>1
<1>3. \A k \in 1..Len(line) : (s \o line)[Len(s) + k] = line[k]
  BY <1>1
<1>4. QED
  BY <1>1, <1>2, <1>3

LEMMA TypeConsole ==
    ASSUME BufferInv, Console, NEW line \in Lines, Type(line) PROVE Console'
<1>1. /\ stdin' = stdin \o line /\ typed' = typed \o line
      /\ UNCHANGED <<icr, rxfe, driver>>
  BY DEF Type, device
<1>2. /\ typed \in Seq(Chars) /\ stdin \in Seq(Chars) /\ line \in Seq(Chars)
      /\ Len(typed) \in Nat /\ Len(stdin) \in Nat /\ Len(stdin) <= Len(typed)
      /\ Len(line) \in Nat
  BY LineIs DEF BufferInv, TypeOK
<1>3. \A k \in 1..Len(line) : line[k] # Nul
  <2>1. \A k \in 1..Len(line) : line[k] \in Range(line)
    <3>1. line \in Seq(Range(line))
      BY LinesAssumption
    <3>2. QED
      BY <3>1
  <2>2. QED
    BY <2>1, LinesAssumption
<1>4. /\ Len(typed \o line) = Len(typed) + Len(line)
      /\ Len(stdin \o line) = Len(stdin) + Len(line)
  BY <1>2
<1>5. Taken' = Taken /\ Taken \in Nat /\ Taken + Len(stdin) = Len(typed)
  BY <1>1, <1>2, <1>4 DEF Taken
<1>6. \A k \in 1..Len(typed \o line) : (typed \o line)[k] # Nul
  <2>1. SUFFICES ASSUME NEW k \in 1..Len(typed \o line) PROVE (typed \o line)[k] # Nul
    OBVIOUS
  <2>2. CASE k \in 1..Len(typed)
    BY <1>2, <2>2, LongerLine DEF Console
  <2>3. CASE k \notin 1..Len(typed)
    <3>1. PICK j \in 1..Len(line) : k = Len(typed) + j
      BY <1>2, <2>3, LongerLine
    <3>2. (typed \o line)[k] = line[j]
      BY <1>2, <3>1, LongerLine
    <3>3. QED
      BY <1>3, <3>2
  <2>4. QED
    BY <2>2, <2>3
<1>7. \A k \in 1..Len(stdin \o line) : (stdin \o line)[k] = (typed \o line)[Taken + k]
  <2>1. SUFFICES ASSUME NEW k \in 1..Len(stdin \o line)
                 PROVE  (stdin \o line)[k] = (typed \o line)[Taken + k]
    OBVIOUS
  <2>2. CASE k \in 1..Len(stdin)
    <3>1. Taken + k \in 1..Len(typed)
      BY <1>2, <1>5, <2>2
    <3>2. (stdin \o line)[k] = stdin[k] /\ (typed \o line)[Taken + k] = typed[Taken + k]
      BY <1>2, <2>2, <3>1, LongerLine
    <3>3. QED
      BY <2>2, <3>2 DEF Console
  <2>3. CASE k \notin 1..Len(stdin)
    <3>1. PICK j \in 1..Len(line) : k = Len(stdin) + j
      BY <1>2, <2>3, LongerLine
    <3>2. Taken + k = Len(typed) + j
      BY <1>2, <1>5, <3>1
    <3>3. (stdin \o line)[k] = line[j] /\ (typed \o line)[Len(typed) + j] = line[j]
      BY <1>2, <3>1, LongerLine
    <3>4. QED
      BY <3>2, <3>3
  <2>4. QED
    BY <2>2, <2>3
<1>8. QED
  BY <1>1, <1>5, <1>6, <1>7 DEF Console

LEMMA TypeStreams ==
    ASSUME StreamInv, Fits, NEW line \in Lines, Type(line),
           NEW c \in Counts, NEW e \in Slots, Published(c, e), Collected(c)
    PROVE  Published(c, e)' /\ Collected(c)'
<1>1. /\ stdin' = stdin \o line /\ typed' = typed \o line
      /\ UNCHANGED <<uart_rx_idx, uart_rx_buff, reader, idx, i, uart_rx_last_idx, uart_dr,
                     rxfe, delivered>>
  BY DEF Type, device
<1>2. /\ typed \in Seq(Chars) /\ stdin \in Seq(Chars) /\ line \in Seq(Chars)
      /\ Len(typed) \in Nat /\ Len(stdin) \in Nat /\ Len(line) \in Nat
      /\ Taken \in Nat /\ Taken + Len(stdin) = Len(typed)
      /\ uart_rx_idx \in Nat /\ uart_rx_last_idx \in Nat
      /\ uart_rx_last_idx <= uart_rx_idx /\ Len(delivered) \in Nat
  BY LineIs, WhileItFits DEF StreamInv
<1>3. Taken' = Taken
  <2>1. Len(typed \o line) = Len(typed) + Len(line) /\ Len(stdin \o line) = Len(stdin) + Len(line)
    BY <1>2
  <2>2. QED
    BY <1>1, <1>2, <2>1 DEF Taken
<1>4. e \in Nat /\ e < BuffLen /\ BuffLen \in Nat
  BY Sizes DEF Slots
<1>5. \A s \in 0..e : c[s] \in Nat /\ c[s] <= Len(typed)
  BY <1>2, <1>4 DEF Published, Counts
<1>6. \A k \in Nat : k # 0 /\ k <= Len(typed) => typed'[k] = typed[k]
  BY <1>1, <1>2, LongerLine
<1>7. ASSUME NEW s \in 0..(e - 1)
      PROVE  /\ uart_rx_buff[s] = Nul => c[s + 1] = c[s]
             /\ uart_rx_buff[s] # Nul =>
                    c[s + 1] = c[s] + 1 /\ uart_rx_buff[s] = typed'[c[s + 1]]
  <2>1. s \in 0..e /\ s + 1 \in 0..e
    BY <1>4
  <2>2. c[s] \in Nat /\ c[s + 1] \in Nat /\ c[s + 1] <= Len(typed)
    BY <1>5, <2>1
  <2>3. c[s + 1] = c[s] + 1 => typed'[c[s + 1]] = typed[c[s + 1]]
    BY <1>6, <2>2
  <2>4. QED
    BY <2>3 DEF Published
<1>8. Published(c, e)'
  BY <1>1, <1>3, <1>7 DEF Published
<1>9. Collected(c)'
  <2>1. uart_rx_last_idx \in 0..e
    BY <1>2, <1>4 DEF Published
  <2>2. c[uart_rx_last_idx] \in Nat /\ c[uart_rx_last_idx] <= Len(typed)
    BY <1>5, <2>1
  <2>3. c[uart_rx_last_idx] = Len(delivered) + 1 =>
            typed'[c[uart_rx_last_idx]] = typed[c[uart_rx_last_idx]]
    BY <1>2, <1>6, <2>2
  <2>4. QED
    BY <1>1, <2>3 DEF Collected
<1>10. QED
  BY <1>8, <1>9

-----------------------------------------------------------------------------
(* A chunk more: the counts go on from where the array was filled to, and  *)
(* its places go as far as publishing it will.                             *)
NextCounts(c, base, n) ==
    [s \in 0..BuffLen |->
        IF s <= base THEN c[s] ELSE IF s <= base + n THEN Taken + (s - base) ELSE Taken + n]

ChunkEnd(base, n) == IF stdin[n] = NewLine THEN base + n ELSE base + n + 1

(* What a step of fgets does while the session fits.                       *)
LEMMA FgetsIs ==
    ASSUME StreamInv, Fgets, Fits
    PROVE  \E n \in 1..Len(stdin) :
              /\ n \in 1..(Chunk - 1) /\ (stdin[n] = NewLine \/ n = Chunk - 1)
              /\ \A k \in 1..(n - 1) : stdin[k] # NewLine
              /\ ChunkEnd(uart_rx_idx, n) < BuffLen /\ uart_rx_idx + n < BuffLen
              /\ uart_rx_buff' = [s \in Slots |-> Filled(uart_rx_idx, n, s)]
              /\ stdin' = SubSeq(stdin, n + 1, Len(stdin))
              /\ idx' = uart_rx_idx /\ reader = "fgets" /\ reader' = "publish"
              /\ Taken' = Taken + n
              /\ UNCHANGED <<uart_rx_idx, uart_rx_last_idx, uart_dr, rxfe, icr, driver, typed,
                             delivered>>
<1>1. /\ reader = "fgets" /\ stdin # <<>>
      /\ UNCHANGED <<uart_rx_idx, uart_rx_last_idx, uart_dr, rxfe, icr, driver, typed,
                     delivered>>
  BY DEF Fgets, device
<1>2. BufferInv /\ FirstRound
  BY DEF StreamInv, BufferInv
<1>3. PICK n \in 1..Len(stdin) :
          /\ n = TakenByFgets /\ n \in 1..(Chunk - 1)
          /\ stdin[n] = NewLine \/ n = Chunk - 1
  BY <1>1, <1>2, FgetsTakes
<1>4. \A k \in 1..(n - 1) : stdin[k] # NewLine
  BY <1>1, <1>2, <1>3, FgetsTakes
<1>5. uart_rx_idx % BuffLen = uart_rx_idx /\ uart_rx_idx \in Nat
  BY <1>2, BaseIs DEF FirstRound
<1>6. Counted(uart_rx_idx, Taken)
  BY <1>1, <1>2 DEF FirstRound
<1>7. /\ Len(stdin) \in Nat /\ Len(typed) \in Nat /\ Taken \in Nat
      /\ Taken + Len(stdin) = Len(typed) /\ typed \in Seq(Chars) /\ BuffLen \in Nat
      /\ n \in Nat /\ n <= Len(stdin) /\ Chunk \in Nat
  BY <1>2, WhileItFits
<1>8. uart_rx_idx + n < BuffLen
  BY <1>5, <1>6, <1>7, CountedFits
<1>9. n = Chunk - 1 => uart_rx_idx + n + 1 < BuffLen
  <2>1. SUFFICES ASSUME n = Chunk - 1 PROVE uart_rx_idx + n + 1 < BuffLen
    OBVIOUS
  <2>2. Counted(uart_rx_idx + n + 1, Taken + n)
    BY <1>5, <1>6, <1>7, <2>1, CountedMore
  <2>3. /\ uart_rx_idx + n + 1 \in Nat /\ Taken + n \in Nat /\ Taken + n <= Len(typed)
        /\ 0 \in Nat /\ 0 + (Taken + n) <= Len(typed)
    BY <1>5, <1>7
  <2>4. uart_rx_idx + n + 1 + 0 < BuffLen
    BY <1>7, <2>2, <2>3, CountedFits
  <2>5. QED
    BY <2>3, <2>4
<1>10. ChunkEnd(uart_rx_idx, n) < BuffLen
  BY <1>3, <1>5, <1>7, <1>8, <1>9 DEF ChunkEnd
<1>11. /\ uart_rx_buff' = [s \in Slots |-> Filled(uart_rx_idx, n, s)]
       /\ stdin' = SubSeq(stdin, n + 1, Len(stdin))
       /\ idx' = uart_rx_idx /\ reader' = "publish"
  <2>1. ~(uart_rx_idx + n >= BuffLen)
    BY <1>5, <1>7, <1>8
  <2>2. QED
    BY <1>3, <1>5, <2>1 DEF Fgets, Filled
<1>12. Taken' = Taken + n
  <2>1. Len(stdin') = Len(stdin) - n
    BY <1>2, <1>11, StdinLeft
  <2>2. QED
    BY <1>1, <1>7, <2>1 DEF Taken
<1>13. QED
  BY <1>1, <1>3, <1>4, <1>8, <1>10, <1>11, <1>12

LEMMA StdinRest ==
    ASSUME BufferInv, NEW n \in 1..Len(stdin)
    PROVE  LET rest == SubSeq(stdin, n + 1, Len(stdin))
           IN  \A k \in 1..Len(rest) : n + k \in 1..Len(stdin) /\ rest[k] = stdin[n + k]
<1>1. stdin \in Seq(Chars) /\ Len(stdin) \in Nat
  BY DEF BufferInv, TypeOK
<1> DEFINE m == Len(stdin)
           rest == SubSeq(stdin, n + 1, m)
<1>2. m \in Nat /\ n \in Nat /\ n <= m /\ \A k \in (n + 1)..m : stdin[k] \in Chars
  BY <1>1
<1>3. /\ Len(rest) = IF n + 1 <= m THEN m - (n + 1) + 1 ELSE 0
      /\ \A k \in 1..(m - (n + 1) + 1) : rest[k] = stdin[n + 1 + k - 1]
  <2>1. n + 1 \in Int /\ m \in Int
    BY <1>2
  <2> HIDE DEF m
  <2>2. QED
    BY <1>2, <2>1, SubSeqProperties
<1>4. ASSUME NEW k \in 1..Len(rest) PROVE n + k \in 1..Len(stdin) /\ rest[k] = stdin[n + k]
  <2>1. k \in 1..(m - (n + 1) + 1) /\ n + 1 + k - 1 = n + k /\ n + k \in 1..m
    BY <1>2, <1>3
  <2>2. QED
    BY <1>3, <2>1
<1>5. QED
  BY <1>4

LEMMA FgetsConsole == ASSUME BufferInv, Console, Fgets PROVE Console'
<1>1. UNCHANGED <<icr, rxfe, driver, typed>>
  BY DEF Fgets, device
<1>2. CASE UNCHANGED stdin
  BY <1>1, <1>2 DEF Console, Taken
<1>3. CASE ~UNCHANGED stdin
  <2>1. stdin # <<>> /\ stdin' = SubSeq(stdin, TakenByFgets + 1, Len(stdin))
    BY <1>3 DEF Fgets
  <2>2. PICK n \in 1..Len(stdin) : n = TakenByFgets
    BY <2>1, FgetsTakes
  <2>3. /\ Len(stdin') = Len(stdin) - n
        /\ \A k \in 1..Len(stdin') : n + k \in 1..Len(stdin) /\ stdin'[k] = stdin[n + k]
    <3>1. Len(SubSeq(stdin, n + 1, Len(stdin))) = Len(stdin) - n
      BY StdinLeft
    <3>2. QED
      BY <2>1, <2>2, <3>1, StdinRest
  <2>4. Len(stdin) \in Nat /\ Len(typed) \in Nat /\ Taken' = Taken + n /\ Taken \in Int
    BY <1>1, <2>3 DEF BufferInv, TypeOK, Taken
  <2>5. ASSUME NEW k \in 1..Len(stdin') PROVE stdin'[k] = typed[Taken' + k]
    <3>1. stdin'[k] = typed[Taken + (n + k)]
      BY <2>3 DEF Console
    <3>2. Taken + (n + k) = Taken' + k
      BY <2>4
    <3>3. QED
      BY <3>1, <3>2
  <2>6. QED
    BY <1>1, <2>5 DEF Console
<1>4. QED
  BY <1>2, <1>3

(* The new part of the array: the chunk's characters, in the order of the  *)
(* lines, and its terminator.                                              *)
LEMMA FilledWith ==
    ASSUME StreamInv, Fits, NEW n \in 1..Len(stdin), uart_rx_idx + n < BuffLen,
           NEW s \in Slots
    PROVE  /\ s < uart_rx_idx => Filled(uart_rx_idx, n, s) = uart_rx_buff[s]
           /\ s \in uart_rx_idx..(uart_rx_idx + n - 1) =>
                 /\ Filled(uart_rx_idx, n, s) = stdin[s - uart_rx_idx + 1]
                 /\ Filled(uart_rx_idx, n, s) = typed[Taken + (s - uart_rx_idx) + 1]
                 /\ Filled(uart_rx_idx, n, s) # Nul
           /\ s = uart_rx_idx + n => Filled(uart_rx_idx, n, s) = Nul
<1>1. /\ uart_rx_idx \in Nat /\ s \in Nat /\ n \in Nat /\ n <= Len(stdin)
      /\ Len(stdin) \in Nat /\ Taken \in Nat /\ Taken + Len(stdin) = Len(typed)
  BY WhileItFits DEF StreamInv, Slots
<1>2. s < uart_rx_idx => Filled(uart_rx_idx, n, s) = uart_rx_buff[s]
  BY <1>1 DEF Filled
<1>3. ASSUME s \in uart_rx_idx..(uart_rx_idx + n - 1)
      PROVE  /\ Filled(uart_rx_idx, n, s) = stdin[s - uart_rx_idx + 1]
             /\ Filled(uart_rx_idx, n, s) = typed[Taken + (s - uart_rx_idx) + 1]
             /\ Filled(uart_rx_idx, n, s) # Nul
  <2>1. s - uart_rx_idx \in 0..(n - 1) /\ s - uart_rx_idx + 1 \in 1..Len(stdin)
    BY <1>1, <1>3
  <2>2. Filled(uart_rx_idx, n, s) = stdin[s - uart_rx_idx + 1]
    BY <2>1 DEF Filled
  <2>3. stdin[s - uart_rx_idx + 1] = typed[Taken + (s - uart_rx_idx + 1)]
    BY <2>1 DEF StreamInv, Console
  <2>4. /\ Taken + (s - uart_rx_idx + 1) = Taken + (s - uart_rx_idx) + 1
        /\ Taken + (s - uart_rx_idx + 1) \in 1..Len(typed)
    BY <1>1, <2>1
  <2>5. typed[Taken + (s - uart_rx_idx) + 1] # Nul
    BY <2>4 DEF StreamInv, Console
  <2>6. QED
    BY <2>2, <2>3, <2>4, <2>5
<1>4. s = uart_rx_idx + n => Filled(uart_rx_idx, n, s) = Nul
  BY <1>1 DEF Filled
<1>5. QED
  BY <1>2, <1>3, <1>4

LEMMA FgetsStreams ==
    ASSUME StreamInv, Fits, Fgets,
           NEW c \in Counts, NEW e \in Slots, Published(c, e), Collected(c)
    PROVE  \E d \in Counts, f \in Slots : Published(d, f)' /\ Collected(d)'
<1>1. PICK n \in 1..Len(stdin) :
          /\ n \in 1..(Chunk - 1) /\ (stdin[n] = NewLine \/ n = Chunk - 1)
          /\ \A k \in 1..(n - 1) : stdin[k] # NewLine
          /\ ChunkEnd(uart_rx_idx, n) < BuffLen /\ uart_rx_idx + n < BuffLen
          /\ uart_rx_buff' = [s \in Slots |-> Filled(uart_rx_idx, n, s)]
          /\ stdin' = SubSeq(stdin, n + 1, Len(stdin))
          /\ idx' = uart_rx_idx /\ reader = "fgets" /\ reader' = "publish"
          /\ Taken' = Taken + n
          /\ UNCHANGED <<uart_rx_idx, uart_rx_last_idx, uart_dr, rxfe, icr, driver, typed,
                         delivered>>
  BY FgetsIs
<1>2. /\ uart_rx_idx \in Nat /\ uart_rx_last_idx \in Nat /\ uart_rx_last_idx <= uart_rx_idx
      /\ uart_rx_idx < BuffLen /\ BuffLen \in Nat /\ Taken \in Nat /\ n \in Nat /\ n # 0
      /\ Chunk \in Nat /\ n <= Chunk - 1
  BY <1>1, WhileItFits DEF StreamInv
<1>3. e = uart_rx_idx /\ c[uart_rx_idx] = Taken /\ c \in [0..BuffLen -> Nat]
      /\ \A s \in 0..e : c[s] <= Taken
  BY <1>1 DEF Published, Counts
<1>4. PICK p \in Nat : p = uart_rx_idx
  BY <1>2
<1>5. PICK f \in Nat : /\ f = ChunkEnd(p, n) /\ p < f /\ f < BuffLen
                       /\ f = p + n \/ f = p + n + 1
                       /\ stdin[n] = NewLine => f = p + n
                       /\ stdin[n] # NewLine => f = p + n + 1
  BY <1>1, <1>2, <1>4 DEF ChunkEnd
<1>6. PICK d \in Counts : d = NextCounts(c, p, n)
  <2>1. \A s \in 0..BuffLen :
            (IF s <= p THEN c[s] ELSE IF s <= p + n THEN Taken + (s - p) ELSE Taken + n) \in Nat
    BY <1>2, <1>3
  <2>2. NextCounts(c, p, n) \in Counts
    BY <2>1 DEF NextCounts, Counts
  <2>3. QED
    BY <2>2
<1>7. /\ \A s \in 0..p : d[s] = c[s] /\ d[s] <= Taken
      /\ \A s \in (p + 1)..(p + n) : d[s] = Taken + (s - p)
      /\ d[p + n + 1] = Taken + n
      /\ d[p] = Taken
  <2>1. \A s \in 0..BuffLen :
            d[s] = IF s <= p THEN c[s] ELSE IF s <= p + n THEN Taken + (s - p) ELSE Taken + n
    BY <1>6 DEF NextCounts
  <2>2. \A s \in 0..p : s \in 0..BuffLen /\ s <= p
    BY <1>2, <1>4
  <2>3. \A s \in (p + 1)..(p + n) : s \in 0..BuffLen /\ ~(s <= p) /\ s <= p + n
    BY <1>1, <1>2, <1>4
  <2>4. p + n + 1 \in 0..BuffLen /\ ~(p + n + 1 <= p) /\ ~(p + n + 1 <= p + n)
    BY <1>1, <1>2, <1>4
  <2>5. p \in 0..p
    OBVIOUS
  <2>6. QED
    BY <1>3, <1>4, <2>1, <2>2, <2>3, <2>4, <2>5
<1>8. \A s \in Slots : uart_rx_buff'[s] = Filled(p, n, s)
  BY <1>1, <1>4
<1>9. ASSUME NEW s \in 0..(f - 1)
      PROVE  /\ uart_rx_buff'[s] = Nul => d[s + 1] = d[s]
             /\ uart_rx_buff'[s] # Nul => d[s + 1] = d[s] + 1 /\ uart_rx_buff'[s] = typed[d[s + 1]]
  <2>1. s \in Slots /\ s \in Nat /\ s < f
    BY <1>2, <1>5 DEF Slots
  <2>2. CASE s < p
    <3>1. uart_rx_buff'[s] = uart_rx_buff[s]
      BY <1>1, <1>4, <1>8, <2>1, <2>2, FilledWith
    <3>2. s \in 0..p /\ s + 1 \in 0..p /\ s \in 0..(e - 1)
      BY <1>3, <1>4, <2>1, <2>2
    <3>3. d[s] = c[s] /\ d[s + 1] = c[s + 1]
      BY <1>7, <3>2
    <3>4. /\ uart_rx_buff[s] = Nul => c[s + 1] = c[s]
          /\ uart_rx_buff[s] # Nul => c[s + 1] = c[s] + 1 /\ uart_rx_buff[s] = typed[c[s + 1]]
      BY <3>2 DEF Published
    <3>5. QED
      BY <3>1, <3>3, <3>4
  <2>3. CASE s \in p..(p + n - 1)
    <3>1. uart_rx_buff'[s] = typed[Taken + (s - p) + 1] /\ uart_rx_buff'[s] # Nul
      BY <1>1, <1>4, <1>8, <2>1, <2>3, FilledWith
    <3>2. d[s + 1] = Taken + (s - p) + 1
      <4>1. s + 1 \in (p + 1)..(p + n) /\ Taken + ((s + 1) - p) = Taken + (s - p) + 1
        BY <1>2, <1>4, <2>1, <2>3
      <4>2. QED
        BY <1>7, <4>1
    <3>3. d[s] = Taken + (s - p)
      <4>1. CASE s = p
        BY <1>2, <1>7, <4>1
      <4>2. CASE s # p
        <5>1. s \in (p + 1)..(p + n)
          BY <1>2, <2>1, <2>3, <4>2
        <5>2. QED
          BY <1>7, <5>1
      <4>3. QED
        BY <4>1, <4>2
    <3>4. QED
      BY <3>1, <3>2, <3>3
  <2>4. CASE s = p + n
    <3>1. uart_rx_buff'[s] = Nul
      BY <1>1, <1>4, <1>8, <2>1, <2>4, FilledWith
    <3>2. d[s] = Taken + n /\ d[s + 1] = Taken + n
      <4>1. p + n \in (p + 1)..(p + n) /\ (p + n) - p = n
        BY <1>2
      <4>2. d[p + n] = Taken + n
        BY <1>7, <4>1
      <4>3. QED
        BY <1>7, <2>4, <4>2
    <3>3. QED
      BY <3>1, <3>2
  <2>5. QED
    BY <1>2, <1>5, <2>1, <2>2, <2>3, <2>4
<1>10. ASSUME NEW s \in p..(f - 1)
       PROVE  (uart_rx_buff'[s] = NewLine \/ s + 1 = p + Chunk) <=> s + 1 = f
  <2>1. s \in Slots /\ s \in Nat /\ s < f /\ p <= s
    BY <1>2, <1>5 DEF Slots
  <2>2. CASE s < p + n - 1
    <3>1. uart_rx_buff'[s] = stdin[s - p + 1]
      BY <1>1, <1>2, <1>4, <1>8, <2>1, <2>2, FilledWith
    <3>2. s - p + 1 \in 1..(n - 1) /\ s + 1 # p + Chunk /\ s + 1 # f
      BY <1>2, <1>5, <2>1, <2>2
    <3>3. QED
      BY <1>1, <3>1, <3>2
  <2>3. CASE s = p + n - 1
    <3>1. uart_rx_buff'[s] = stdin[s - p + 1] /\ s - p + 1 = n
      BY <1>1, <1>2, <1>4, <1>8, <2>1, <2>3, FilledWith
    <3>2. s + 1 # p + Chunk
      BY <1>2, <2>3
    <3>3. s + 1 = f <=> f = p + n
      BY <1>2, <1>5, <2>3
    <3>4. f = p + n <=> stdin[n] = NewLine
      BY <1>2, <1>5
    <3>5. QED
      BY <3>1, <3>2, <3>3, <3>4
  <2>4. CASE s = p + n
    <3>1. f = p + n + 1 /\ stdin[n] # NewLine
      BY <1>2, <1>5, <2>1, <2>4
    <3>2. s + 1 = p + Chunk
      BY <1>1, <1>2, <2>4, <3>1
    <3>3. QED
      BY <2>4, <3>1, <3>2
  <2>5. QED
    BY <1>2, <1>5, <2>1, <2>2, <2>3, <2>4
<1>11. \A s \in 0..f : d[s] <= Taken + n
  <2>1. SUFFICES ASSUME NEW s \in 0..f PROVE d[s] <= Taken + n
    OBVIOUS
  <2>2. s \in 0..p \/ s \in (p + 1)..(p + n) \/ s = p + n + 1
    BY <1>2, <1>5
  <2>3. CASE s \in 0..p
    <3>1. d[s] <= Taken /\ d[s] \in Nat
      <4>1. s \in 0..BuffLen
        BY <1>2, <1>5
      <4>2. QED
        BY <1>7, <2>3, <4>1 DEF Counts
    <3>2. QED
      BY <1>2, <3>1
  <2>4. CASE s \in (p + 1)..(p + n)
    BY <1>2, <1>7, <2>4
  <2>5. CASE s = p + n + 1
    BY <1>2, <1>7, <2>5
  <2>6. QED
    BY <2>2, <2>3, <2>4, <2>5
<1>12. d[f] = Taken + n
  <2>1. p + n \in (p + 1)..(p + n) /\ (p + n) - p = n
    BY <1>2
  <2>2. QED
    BY <1>5, <1>7, <2>1
<1>13. Published(d, f)'
  <2>1. uart_rx_idx' = p /\ idx' = p /\ p <= f /\ reader' = "publish"
    BY <1>1, <1>4, <1>5
  <2>2. QED
    BY <1>1, <1>5, <1>9, <1>10, <1>11, <1>12, <2>1 DEF Published
<1>14. Collected(d)'
  <2>1. d[uart_rx_last_idx] = c[uart_rx_last_idx]
    BY <1>2, <1>4, <1>7
  <2>2. QED
    BY <1>1, <2>1 DEF Collected
<1>15. f \in Slots
  BY <1>2, <1>5 DEF Slots
<1>16. QED
  BY <1>13, <1>14, <1>15

(* A place more for the other thread.                                      *)
LEMMA PublishStreams ==
    ASSUME StreamInv, Fits, Publish,
           NEW c \in Counts, NEW e \in Slots, Published(c, e), Collected(c)
    PROVE  Published(c, e)' /\ Collected(c)'
<1>1. /\ reader = "publish"
      /\ uart_rx_idx' = (uart_rx_idx + 1) % IdxMod
      /\ IF uart_rx_buff[idx + i] = NewLine \/ i + 1 = Chunk
         THEN reader' = "fgets" ELSE reader' = "publish"
      /\ UNCHANGED <<uart_rx_last_idx, uart_dr, rxfe, uart_rx_buff, idx, stdin, typed,
                     delivered>>
  BY DEF Publish, device
<1>2. /\ uart_rx_idx \in Nat /\ BuffLen \in Nat /\ BuffLen <= IdxMod /\ Chunk \in Nat
      /\ idx \in Nat /\ i \in Nat /\ IdxMod \in Nat
  BY WhileItFits, Sizes DEF StreamInv
<1>3. uart_rx_idx = idx + i
  BY <1>1 DEF StreamInv, BufferInv, FirstRound, ChunkOf
<1>4. e \in Nat /\ e < BuffLen /\ uart_rx_idx < e
  BY <1>1, <1>2 DEF Slots, Published
<1>5. uart_rx_idx' = uart_rx_idx + 1
  BY <1>1, <1>2, <1>4
<1>6. (uart_rx_buff[uart_rx_idx] = NewLine \/ uart_rx_idx + 1 = idx + Chunk) <=>
          uart_rx_idx + 1 = e
  <2>1. uart_rx_idx \in uart_rx_idx..(e - 1)
    BY <1>2, <1>4
  <2>2. QED
    BY <1>1, <2>1 DEF Published
<1>7. i + 1 = Chunk <=> uart_rx_idx + 1 = idx + Chunk
  BY <1>2, <1>3
<1>8. /\ reader' = "fgets" => uart_rx_idx + 1 = e
      /\ reader' = "publish" => uart_rx_idx + 1 < e
  BY <1>1, <1>2, <1>3, <1>4, <1>6, <1>7
<1>9. \A s \in (uart_rx_idx + 1)..(e - 1) : s \in uart_rx_idx..(e - 1)
  BY <1>2, <1>4
<1>10. Published(c, e)'
  <2>1. Taken' = Taken /\ uart_rx_idx + 1 <= e
    BY <1>1, <1>2, <1>4 DEF Taken
  <2>2. QED
    BY <1>1, <1>5, <1>8, <1>9, <2>1 DEF Published
<1>11. Collected(c)'
  BY <1>1 DEF Collected
<1>12. QED
  BY <1>10, <1>11

-----------------------------------------------------------------------------
(* The register holds nothing when a character is put there: the interrupt *)
(* is armed only while the driver is idle.                                 *)
LEMMA RaiseStreams ==
    ASSUME StreamInv, Fits, Raise,
           NEW c \in Counts, NEW e \in Slots, Published(c, e), Collected(c)
    PROVE  Published(c, e)' /\ Collected(c)'
<1>1. /\ uart_rx_idx # uart_rx_last_idx /\ icr /\ rxfe' = FALSE
      /\ uart_dr' = uart_rx_buff[uart_rx_last_idx]
      /\ uart_rx_last_idx' = (uart_rx_last_idx + 1) % IdxMod
      /\ UNCHANGED <<uart_rx_idx, uart_rx_buff, reader, idx, i, stdin, typed, delivered>>
  BY DEF Raise, Ready, thread
<1>2. /\ uart_rx_last_idx \in Nat /\ uart_rx_idx \in Nat /\ uart_rx_last_idx < uart_rx_idx
      /\ uart_rx_idx < BuffLen /\ BuffLen \in Nat /\ BuffLen <= IdxMod /\ IdxMod \in Nat
      /\ Len(delivered) \in Nat
  BY <1>1, WhileItFits, Sizes DEF StreamInv
<1>3. rxfe
  BY <1>1 DEF StreamInv, Console
<1>4. c[uart_rx_last_idx] = Len(delivered)
  BY <1>3 DEF Collected
<1>5. uart_rx_last_idx' = uart_rx_last_idx + 1
  BY <1>1, <1>2
<1>6. uart_rx_last_idx \in 0..(e - 1)
  BY <1>2 DEF Published, Slots
<1>7. /\ uart_dr' = Nul => c[uart_rx_last_idx + 1] = Len(delivered)
      /\ uart_dr' # Nul =>
            /\ c[uart_rx_last_idx + 1] = Len(delivered) + 1
            /\ uart_dr' = typed[c[uart_rx_last_idx + 1]]
  BY <1>1, <1>4, <1>6 DEF Published
<1>8. Published(c, e)'
  BY <1>1 DEF Published, Taken
<1>9. Collected(c)'
  BY <1>1, <1>5, <1>7 DEF Collected
<1>10. QED
  BY <1>8, <1>9

(* What the driver reads is the next character of the stream.              *)
LEMMA LoadDRTakesNext ==
    ASSUME StreamInv, Fits, LoadDR, uart_dr # Nul
    PROVE  /\ Len(delivered) + 1 \in 1..Len(typed)
           /\ uart_dr = typed[Len(delivered) + 1]
<1>1. PICK c \in Counts, e \in Slots : Published(c, e) /\ Collected(c)
  BY DEF StreamInv
<1>2. /\ uart_rx_last_idx \in Nat /\ uart_rx_idx \in Nat /\ uart_rx_last_idx <= uart_rx_idx
      /\ Len(delivered) \in Nat /\ Len(typed) \in Nat /\ Taken \in Nat
      /\ Taken + Len(stdin) = Len(typed) /\ Len(stdin) \in Nat
  BY WhileItFits DEF StreamInv
<1>3. ~rxfe
  BY DEF StreamInv, Console, LoadDR
<1>4. c[uart_rx_last_idx] = Len(delivered) + 1 /\ uart_dr = typed[c[uart_rx_last_idx]]
  BY <1>1, <1>3 DEF Collected
<1>5. c[uart_rx_last_idx] <= Taken
  <2>1. uart_rx_last_idx \in 0..e
    BY <1>1, <1>2 DEF Published, Slots
  <2>2. QED
    BY <1>1, <2>1 DEF Published
<1>6. QED
  BY <1>2, <1>4, <1>5

LEMMA LoadDRStreams ==
    ASSUME StreamInv, Fits, LoadDR,
           NEW c \in Counts, NEW e \in Slots, Published(c, e), Collected(c)
    PROVE  Published(c, e)' /\ Collected(c)'
<1>1. /\ delivered' = IF uart_dr = Nul THEN delivered ELSE Append(delivered, uart_dr)
      /\ rxfe' = TRUE /\ driver = "getc"
      /\ UNCHANGED <<uart_rx_last_idx, uart_rx_idx, uart_rx_buff, reader, idx, i, stdin, typed>>
  BY DEF LoadDR, thread
<1>2. ~rxfe
  BY <1>1 DEF StreamInv, Console
<1>3. Len(delivered') = IF uart_dr = Nul THEN Len(delivered) ELSE Len(delivered) + 1
  <2>1. delivered \in Seq(Chars)
    BY WhileItFits DEF StreamInv
  <2>2. Len(Append(delivered, uart_dr)) = Len(delivered) + 1
    BY <2>1
  <2>3. QED
    BY <1>1, <2>2
<1>4. c[uart_rx_last_idx] = Len(delivered')
  BY <1>2, <1>3 DEF Collected
<1>5. Collected(c)'
  BY <1>1, <1>4 DEF Collected
<1>6. Published(c, e)'
  BY <1>1 DEF Published, Taken
<1>7. QED
  BY <1>5, <1>6

(* The rest of the cpu: sending uses the data register, but only while it  *)
(* holds nothing for the driver.                                           *)
LEMMA OtherStreams ==
    ASSUME StreamInv, Counting \/ PollIdle \/ LoadFR \/ StoreICR \/ StoreIMSC
                      \/ Send,
           NEW c \in Counts, NEW e \in Slots, Published(c, e), Collected(c)
    PROVE  Published(c, e)' /\ Collected(c)'
<1>1. UNCHANGED <<uart_rx_idx, uart_rx_buff, reader, idx, i, stdin, typed, uart_rx_last_idx,
                  delivered>>
  BY DEF Counting, PollIdle, LoadFR, StoreICR, StoreIMSC, Send, StoreDR, device, thread
<1>2. Published(c, e)'
  BY <1>1 DEF Published, Taken
<1>3. CASE Send
  <2>1. rxfe /\ rxfe' = rxfe
    BY <1>3, Zenon DEF Send, StoreDR, StreamInv, Console
  <2>2. QED
    BY <1>1, <1>2, <2>1 DEF Collected
<1>4. CASE ~Send
  <2>1. UNCHANGED <<rxfe, uart_dr>>
    BY <1>4, Zenon DEF Counting, PollIdle, LoadFR, StoreICR, StoreIMSC, device
  <2>2. QED
    BY <1>1, <1>2, <2>1 DEF Collected
<1>5. QED
  BY <1>3, <1>4

LEMMA ReaderConsole == ASSUME BufferInv, Console, Publish PROVE Console'
<1>1. UNCHANGED <<icr, rxfe, driver, typed, stdin>>
  BY DEF Publish, device
<1>2. QED
  BY <1>1 DEF Console, Taken

LEMMA CpuConsole == ASSUME BufferInv, Console, Cpu PROVE Console'
<1>1. UNCHANGED <<typed, stdin>>
  BY DEF Cpu, IsInterrupting, Driver, Counting, PollIdle, RaisePastEnd, Raise, LoadFR, LoadDR,
         StoreICR, StoreIMSC, Send, StoreDR, thread, device
<1>2. /\ icr' => driver' = "idle"
      /\ rxfe' \/ driver' \in {"intr", "getc"}
      /\ driver' = "getc" => ~rxfe'
  <2>1. CASE Counting \/ PollIdle \/ RaisePastEnd
    <3>1. UNCHANGED <<icr, rxfe, driver>>
      BY <2>1, Zenon DEF Counting, PollIdle, RaisePastEnd, device
    <3>2. QED
      BY <3>1 DEF Console
  <2>2. CASE Raise
    <3>1. icr' = FALSE /\ rxfe' = FALSE /\ driver' = "intr"
      BY <2>2 DEF Raise
    <3>2. QED
      BY <3>1
  <2>3. CASE LoadFR
    <3>1. /\ driver = "intr" /\ driver' = IF rxfe THEN "rearm" ELSE "getc"
          /\ UNCHANGED <<icr, rxfe>>
      BY <2>3, Zenon DEF LoadFR, device
    <3>2. QED
      BY <3>1 DEF Console
  <2>4. CASE LoadDR
    <3>1. driver = "getc" /\ driver' = "intr" /\ rxfe' = TRUE /\ icr' = icr
      BY <2>4 DEF LoadDR
    <3>2. QED
      BY <3>1 DEF Console
  <2>5. CASE StoreICR
    <3>1. driver = "rearm" /\ driver' = "idle" /\ rxfe' = rxfe /\ icr' = TRUE
      BY <2>5 DEF StoreICR
    <3>2. QED
      BY <3>1 DEF Console
  <2>6. CASE StoreIMSC \/ Send
    <3>1. UNCHANGED <<icr, rxfe, driver>>
      BY <2>6, Zenon DEF StoreIMSC, Send, StoreDR
    <3>2. QED
      BY <3>1 DEF Console
  <2>7. QED
    BY <2>1, <2>2, <2>3, <2>4, <2>5, <2>6 DEF Cpu, IsInterrupting, Driver
<1>3. QED
  BY <1>1, <1>2 DEF Console, Taken

-----------------------------------------------------------------------------
LEMMA StreamInit == ASSUME FullInit PROVE StreamInv
<1>1. /\ uart_rx_idx = 0 /\ uart_rx_last_idx = 0 /\ uart_dr = Nul /\ rxfe = TRUE
      /\ reader = "fgets" /\ stdin = <<>> /\ driver = "idle" /\ typed = <<>>
      /\ delivered = <<>>
  BY DEF FullInit, Init
<1>2. Taken = 0 /\ Len(delivered) = 0 /\ Len(typed) = 0 /\ Len(stdin) = 0
  BY <1>1 DEF Taken
<1>3. Console
  BY <1>1, <1>2 DEF Console
<1>4. PICK c \in Counts : c = [s \in 0..BuffLen |-> 0]
  BY DEF Counts
<1>5. 0 \in Slots /\ 0 \in 0..BuffLen
  BY Sizes DEF Slots
<1>6. Published(c, 0) /\ Collected(c)
  BY <1>1, <1>2, <1>4, <1>5 DEF Published, Collected
<1>7. QED
  BY <1>3, <1>5, <1>6, BufferInit DEF StreamInv

(* A session that fits fitted before.                                      *)
LEMMA FitsBefore == ASSUME BufferInv, [FullNext]_all, Fits' PROVE Fits
<1>1. CASE UNCHANGED typed
  BY <1>1 DEF Fits
<1>2. CASE \E line \in Lines : Type(line)
  <2>1. PICK line \in Lines : Type(line)
    BY <1>2
  <2>2. /\ typed \in Seq(Chars) /\ line \in Seq(Chars) /\ typed' = typed \o line
        /\ Len(typed) \in Nat /\ Len(line) \in Nat
    BY <2>1, LineIs DEF Type, BufferInv, TypeOK
  <2>3. /\ Len(typed') \in Nat /\ Len(typed) <= Len(typed')
        /\ Chunk - 1 \in Nat \ {0} /\ BuffLen \in Nat
    BY <2>2, LineTyped, Sizes
  <2>4. PICK a \in Nat : a = Len(typed) \div (Chunk - 1)
    BY <2>2, <2>3, Quotient
  <2>5. PICK b \in Nat : b = Len(typed') \div (Chunk - 1)
    BY <2>3, Quotient
  <2>6. a <= b
    BY <2>2, <2>3, <2>4, <2>5, QuotientGrows
  <2>7. QED
    BY <2>2, <2>3, <2>4, <2>5, <2>6 DEF Fits
<1>3. UNCHANGED typed \/ \E line \in Lines : Type(line)
  <2>1. CASE ReaderRuns \/ CpuRuns
    BY <2>1 DEF ReaderRuns, Reader, Fgets, Publish, CpuRuns, Cpu, IsInterrupting, Driver,
                Counting, PollIdle, RaisePastEnd, Raise, LoadFR, LoadDR, StoreICR, StoreIMSC,
                Send, StoreDR
  <2>2. CASE Main \/ Close \/ EndOfInput
    BY <2>2 DEF Main, Close, EndOfInput, LoadFails, Construct, EnterLoop, SkipLoop,
                NoInstruction, ExitInInstruction, LeaveLoop, DestroyEmulator, EndMain, vars
  <2>3. CASE UNCHANGED all
    BY <2>3 DEF all, vars
  <2>4. QED
    BY <2>1, <2>2, <2>3 DEF FullNext
<1>4. QED
  BY <1>1, <1>2, <1>3

LEMMA StreamStep == ASSUME StreamInv, [FullNext]_all PROVE StreamInv'
<1>1. BufferInv' /\ (Fits' => Fits)
  BY BufferStep, FitsBefore DEF StreamInv
<1>2. BufferInv /\ Console
  BY DEF StreamInv
<1>3. ASSUME UNCHANGED vars PROVE StreamInv'
  <2>1. /\ UNCHANGED <<typed, stdin, icr, rxfe, driver, thread, uart_rx_last_idx, uart_dr,
                       delivered>>
    BY <1>3 DEF vars, device, thread
  <2>2. Console'
    BY <1>2, <2>1 DEF Console, Taken
  <2>3. \A c, e : Published(c, e) /\ Collected(c) => Published(c, e)' /\ Collected(c)'
    BY <2>1, StreamSame
  <2>4. QED
    BY <1>1, <2>2, <2>3 DEF StreamInv, Counts, Slots
<1>4. ASSUME Fits'
      PROVE  \E c \in Counts, e \in Slots : Published(c, e) /\ Collected(c)
  BY <1>1, <1>4 DEF StreamInv
<1>5. CASE \E line \in Lines : Type(line)
  <2>1. Console'
    BY <1>2, <1>5, TypeConsole
  <2>2. Fits' => (\E c \in Counts, e \in Slots : Published(c, e) /\ Collected(c))'
    BY <1>1, <1>4, <1>5, TypeStreams DEF Counts, Slots
  <2>3. QED
    BY <1>1, <2>1, <2>2 DEF StreamInv
<1>6. CASE Fgets
  <2>1. Console'
    BY <1>2, <1>6, FgetsConsole
  <2>2. Fits' => (\E c \in Counts, e \in Slots : Published(c, e) /\ Collected(c))'
    BY <1>1, <1>4, <1>6, FgetsStreams DEF Counts, Slots
  <2>3. QED
    BY <1>1, <2>1, <2>2 DEF StreamInv
<1>7. CASE Publish
  <2>1. Console'
    BY <1>2, <1>7, ReaderConsole
  <2>2. Fits' => (\E c \in Counts, e \in Slots : Published(c, e) /\ Collected(c))'
    BY <1>1, <1>4, <1>7, PublishStreams DEF Counts, Slots
  <2>3. QED
    BY <1>1, <2>1, <2>2 DEF StreamInv
<1>8. CASE Cpu
  <2>1. Console'
    BY <1>2, <1>8, CpuConsole
  <2>2. ASSUME Fits' PROVE (\E c \in Counts, e \in Slots : Published(c, e) /\ Collected(c))'
    <3>1. Fits /\ ~RaisePastEnd
      <4>1. Fits /\ ~overrun'
        BY <1>1, <2>2 DEF BufferInv
      <4>2. QED
        BY <4>1 DEF RaisePastEnd
    <3>2. PICK c \in Counts, e \in Slots : Published(c, e) /\ Collected(c)
      BY <1>4, <2>2
    <3>3. CASE Raise
      BY <3>1, <3>2, <3>3, RaiseStreams DEF Counts, Slots
    <3>4. CASE LoadDR
      BY <3>1, <3>2, <3>4, LoadDRStreams DEF Counts, Slots
    <3>5. CASE Counting \/ PollIdle \/ LoadFR \/ StoreICR \/ StoreIMSC
               \/ Send
      BY <3>2, <3>5, OtherStreams DEF Counts, Slots
    <3>6. QED
      BY <1>8, <3>1, <3>3, <3>4, <3>5 DEF Cpu, IsInterrupting, Driver
  <2>3. QED
    BY <1>1, <2>1, <2>2 DEF StreamInv
<1>9. CASE Main \/ Close \/ EndOfInput \/ UNCHANGED all
  <2>1. UNCHANGED vars
    BY <1>9 DEF Main, Close, EndOfInput, LoadFails, Construct, EnterLoop, SkipLoop,
                NoInstruction, ExitInInstruction, LeaveLoop, DestroyEmulator, EndMain, all
  <2>2. QED
    BY <1>3, <2>1
<1>10. QED
  BY <1>5, <1>6, <1>7, <1>8, <1>9 DEF FullNext, ReaderRuns, Reader, CpuRuns

(* A step receives the next character of the stream, adds a line to it, or *)
(* leaves it alone.                                                        *)
LEMMA DeliveredIsTyped ==
    ASSUME BufferInv, Fits, StreamInv
    PROVE  Len(delivered) \in Nat /\ Len(typed) \in Nat /\ Len(delivered) <= Len(typed)
<1>1. PICK c \in Counts, e \in Slots : Published(c, e) /\ Collected(c)
  BY DEF StreamInv
<1>2. /\ uart_rx_last_idx \in Nat /\ uart_rx_idx \in Nat /\ uart_rx_last_idx <= uart_rx_idx
      /\ Len(delivered) \in Nat /\ Len(typed) \in Nat /\ Taken \in Nat
      /\ Taken + Len(stdin) = Len(typed) /\ Len(stdin) \in Nat /\ rxfe \in BOOLEAN
  BY WhileItFits DEF StreamInv, BufferInv, TypeOK
<1>3. c[uart_rx_last_idx] <= Taken
  <2>1. uart_rx_last_idx \in 0..e
    BY <1>1, <1>2 DEF Published, Slots
  <2>2. QED
    BY <1>1, <2>1 DEF Published
<1>4. c[uart_rx_last_idx] = Len(delivered) \/ c[uart_rx_last_idx] = Len(delivered) + 1
  BY <1>1 DEF Collected
<1>5. QED
  BY <1>2, <1>3, <1>4

(* The rest of a sequence behind its first m elements, when it grows at    *)
(* its end.                                                                *)
LEMMA RestIs ==
    ASSUME NEW s \in Seq(Chars), NEW m \in Nat, m <= Len(s)
    PROVE  /\ SubSeq(s, m + 1, Len(s)) \in Seq(Chars)
           /\ Len(SubSeq(s, m + 1, Len(s))) = Len(s) - m
           /\ \A k \in 1..(Len(s) - m) : SubSeq(s, m + 1, Len(s))[k] = s[m + k]
<1> DEFINE t == Len(s)
           rest == SubSeq(s, m + 1, t)
<1>1. t \in Nat /\ \A k \in (m + 1)..t : s[k] \in Chars
  OBVIOUS
<1>2. /\ rest \in Seq(Chars)
      /\ Len(rest) = IF m + 1 <= t THEN t - (m + 1) + 1 ELSE 0
      /\ \A k \in 1..(t - (m + 1) + 1) : rest[k] = s[m + 1 + k - 1]
  <2>1. m + 1 \in Int /\ t \in Int
    BY <1>1
  <2> HIDE DEF t
  <2>2. QED
    BY <1>1, <2>1, SubSeqProperties
<1>3. ASSUME NEW k \in 1..(t - m) PROVE rest[k] = s[m + k]
  <2>1. k \in 1..(t - (m + 1) + 1) /\ m + 1 + k - 1 = m + k
    BY <1>1
  <2>2. QED
    BY <1>2, <2>1
<1>4. QED
  BY <1>1, <1>2, <1>3

LEMMA RestOfConcat ==
    ASSUME NEW s \in Seq(Chars), NEW line \in Seq(Chars), NEW m \in Nat, m <= Len(s)
    PROVE  SubSeq(s \o line, m + 1, Len(s \o line)) = SubSeq(s, m + 1, Len(s)) \o line
<1> DEFINE whole == s \o line
           rest == SubSeq(s, m + 1, Len(s))
           left == SubSeq(whole, m + 1, Len(whole))
<1>1. /\ Len(s) \in Nat /\ Len(line) \in Nat /\ whole \in Seq(Chars)
      /\ Len(whole) = Len(s) + Len(line)
  OBVIOUS
<1>2. /\ rest \in Seq(Chars) /\ Len(rest) = Len(s) - m
      /\ \A k \in 1..(Len(s) - m) : rest[k] = s[m + k]
  BY <1>1, RestIs
<1>3. /\ left \in Seq(Chars) /\ Len(left) = Len(whole) - m
      /\ \A k \in 1..(Len(whole) - m) : left[k] = whole[m + k]
  <2>1. m <= Len(whole)
    BY <1>1
  <2> HIDE DEF whole
  <2>2. QED
    BY <1>1, <2>1, RestIs
<1>4. rest \o line \in Seq(Chars) /\ Len(rest \o line) = Len(left)
  <2> HIDE DEF rest, left, whole
  <2>1. QED
    BY <1>1, <1>2, <1>3
<1>5. ASSUME NEW k \in 1..Len(left) PROVE left[k] = (rest \o line)[k]
  <2>1. left[k] = whole[m + k] /\ k \in Nat
    BY <1>1, <1>3
  <2>2. CASE k <= Len(s) - m
    <3>1. whole[m + k] = s[m + k]
      BY <1>1, <2>1, <2>2
    <3>2. k \in 1..Len(rest) /\ rest[k] = s[m + k]
      BY <1>1, <1>2, <2>1, <2>2
    <3>3. (rest \o line)[k] = rest[k]
      BY <1>1, <1>2, <3>2, LongerLine
    <3>4. QED
      BY <2>1, <3>1, <3>2, <3>3
  <2>3. CASE ~(k <= Len(s) - m)
    <3>1. PICK j \in 1..Len(line) : m + k = Len(s) + j /\ k = Len(rest) + j
      <4>1. PICK a \in Nat, b \in Nat, q \in Nat :
                a = Len(s) /\ b = Len(line) /\ q = Len(rest) /\ q = a - m
        BY <1>1, <1>2
      <4>2. k <= a + b - m /\ ~(k <= a - m)
        <5>1. Len(left) = a + b - m
          BY <1>1, <1>3, <4>1
        <5>2. QED
          BY <2>3, <4>1, <5>1
      <4>3. m + k - a \in 1..b /\ k = q + (m + k - a) /\ m + k = a + (m + k - a)
        <5>1. \A kk \in Nat : kk <= a + b - m /\ ~(kk <= a - m) =>
                  /\ m + kk - a \in 1..b
                  /\ kk = (a - m) + (m + kk - a) /\ m + kk = a + (m + kk - a)
          OBVIOUS
        <5>2. QED
          BY <2>1, <4>1, <4>2, <5>1
      <4>4. QED
        BY <4>1, <4>3
    <3>2. whole[Len(s) + j] = line[j]
      BY <1>1, LongerLine
    <3>3. (rest \o line)[Len(rest) + j] = line[j]
      BY <1>1, <1>2, LongerLine
    <3>4. QED
      BY <2>1, <3>1, <3>2, <3>3
  <2>4. QED
    BY <2>2, <2>3
<1>6. left = rest \o line
  <2> HIDE DEF rest, left, whole
  <2>1. QED
    BY <1>3, <1>4, <1>5, SeqEqual
<1>7. QED
  BY <1>6

LEMMA StreamRefined ==
    ASSUME StreamInv, [FullNext]_all, Fits' PROVE Stream!Step
<1> DEFINE wire == SubSeq(typed, Len(delivered) + 1, Len(typed))
<1>1. Fits /\ BufferInv
  BY FitsBefore DEF StreamInv
<1>2. /\ Len(delivered) \in Nat /\ Len(typed) \in Nat /\ Len(delivered) <= Len(typed)
      /\ typed \in Seq(Chars) /\ delivered \in Seq(Chars)
  BY <1>1, DeliveredIsTyped, WhileItFits
<1>3. PICK m \in Nat : m = Len(delivered) /\ m <= Len(typed)
  BY <1>2
<1>4. CASE UNCHANGED <<typed, delivered>>
  BY <1>4 DEF Stream!Step, Stream!vars
<1>5. CASE \E line \in Lines : Type(line)
  <2>1. PICK line \in Lines : Type(line)
    BY <1>5
  <2>2. typed' = typed \o line /\ delivered' = delivered /\ line \in Seq(Chars)
    BY <2>1, LineIs DEF Type
  <2>3. SubSeq(typed \o line, m + 1, Len(typed \o line)) =
            SubSeq(typed, m + 1, Len(typed)) \o line
    BY <1>2, <1>3, <2>2, RestOfConcat
  <2>4. wire' = wire \o line
    BY <1>3, <2>2, <2>3
  <2>5. QED
    BY <2>2, <2>4 DEF Stream!Step, Stream!Next, Stream!Type
<1>6. CASE LoadDR /\ uart_dr # Nul
  <2>1. m + 1 \in 1..Len(typed) /\ uart_dr = typed[m + 1]
    BY <1>1, <1>3, <1>6, LoadDRTakesNext
  <2>2. typed' = typed /\ delivered' = Append(delivered, uart_dr)
    BY <1>6 DEF LoadDR
  <2>3. Len(delivered') = m + 1
    BY <1>2, <1>3, <2>2
  <2>4. /\ SubSeq(typed, m + 1, Len(typed)) # <<>>
        /\ Head(SubSeq(typed, m + 1, Len(typed))) = typed[m + 1]
        /\ Tail(SubSeq(typed, m + 1, Len(typed))) = SubSeq(typed, m + 2, Len(typed))
    <3>1. PICK n \in 1..Len(typed) : n = m + 1
      BY <2>1
    <3>2. Len(typed) \in n..Len(typed)
      BY <1>2, <3>1
    <3>3. /\ Head(SubSeq(typed, n, Len(typed))) = typed[n]
          /\ Tail(SubSeq(typed, n, Len(typed))) = SubSeq(typed, n + 1, Len(typed))
      BY <1>2, <3>2, HeadTailOfSubSeq
    <3>4. Len(SubSeq(typed, m + 1, Len(typed))) # 0
      BY <1>2, <1>3, <2>1, RestIs
    <3>5. n + 1 = m + 2
      BY <3>1
    <3>6. SubSeq(typed, m + 1, Len(typed)) # <<>>
      <4>1. \A x : Len(x) # 0 => x # <<>>
        OBVIOUS
      <4>2. QED
        BY <3>4, <4>1, Zenon
    <3>7. QED
      BY <3>1, <3>3, <3>5, <3>6, Zenon
  <2>5. wire # <<>> /\ Head(wire) = uart_dr /\ wire' = Tail(wire)
    BY <1>2, <1>3, <2>1, <2>2, <2>3, <2>4, SMTT(30)
  <2>6. QED
    BY <2>2, <2>5 DEF Stream!Step, Stream!Next, Stream!Receive
<1>7. CASE LoadDR /\ uart_dr = Nul
  <2>1. UNCHANGED <<typed, delivered>>
    BY <1>7 DEF LoadDR
  <2>2. QED
    BY <1>4, <2>1
<1>8. CASE Fgets \/ Publish \/ IsInterrupting \/ LoadFR \/ StoreICR \/ StoreIMSC
           \/ Send
  <2>1. UNCHANGED <<typed, delivered>>
    BY <1>8 DEF Fgets, Publish, IsInterrupting, Counting, PollIdle, RaisePastEnd, Raise,
                LoadFR, StoreICR, StoreIMSC, Send, StoreDR
  <2>2. QED
    BY <1>4, <2>1
<1>9. CASE Main \/ Close \/ EndOfInput \/ UNCHANGED all
  <2>1. UNCHANGED vars
    BY <1>9 DEF Main, Close, EndOfInput, LoadFails, Construct, EnterLoop, SkipLoop,
                NoInstruction, ExitInInstruction, LeaveLoop, DestroyEmulator, EndMain, all
  <2>2. QED
    BY <1>4, <2>1 DEF vars
<1>10. QED
  BY <1>5, <1>6, <1>7, <1>8, <1>9
  DEF FullNext, ReaderRuns, Reader, CpuRuns, Cpu, Driver

(* For every session that fits in the array, whatever the sizes: the two   *)
(* threads and the driver implement the console, which passes on every     *)
(* character once and in order.                                            *)
THEOREM ImplementsUartStream == FullSpec => StreamsWhileItFits
<1>1. StreamInv /\ [FullNext]_all => [Fits' => Stream!Step]_vars
  BY StreamRefined
<1>2. QED
  BY <1>1, StreamInit, StreamStep, PTL DEF FullSpec, StreamsWhileItFits
=============================================================================
