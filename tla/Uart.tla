-------------------------------- MODULE Uart --------------------------------
(***************************************************************************)
(* The receive side of the UART (uart.cc) with its two users: the thread   *)
(* read_stdin (emulator.cc), which shares uart_rx_buff and uart_rx_idx     *)
(* with the CPU thread without any lock, and the guest's driver, which     *)
(* sees the registers.                                                     *)
(*                                                                         *)
(* Bit 4 is the only bit the code looks at in UARTIMSC, UARTICR and        *)
(* UARTFR, so each is a Boolean here.  The reader's fgets is one step: the *)
(* slots it fills are not published yet.  The reader takes its index       *)
(* modulo BuffLen, is_interrupting does not.  An access past the end of    *)
(* the array, by either side, is undefined behaviour and ends the model:   *)
(* overrun stops everything.  Module Lifecycle says when the two threads   *)
(* run.                                                                    *)
(***************************************************************************)
EXTENDS Integers, Sequences, SequencesExt

CONSTANTS
    BuffLen,     \* UART_RX_BUFF_LEN, 64
    Chunk,       \* 10, the size read_stdin passes to fgets
    IdxMod,      \* 2^8, the indices are uint8_t
    PollPeriod,  \* 1000, the calls of is_interrupting between two polls
    Lines,       \* lines the user types, each ending in NewLine
    NewLine,
    Nul,         \* the terminator fgets stores, and UARTDR after a read
    Stale,       \* what an array slot holds before it is written
    MaxTyped     \* characters typed in all (bound)

ASSUME LinesAssumption ==
    \A l \in Lines :
        /\ l \in Seq(Range(l)) /\ Len(l) > 0 /\ l[Len(l)] = NewLine
        /\ Nul \notin Range(l)

ASSUME SizeAssumption ==
    /\ {BuffLen, Chunk, IdxMod, PollPeriod, MaxTyped} \subseteq Nat \ {0}
    /\ BuffLen <= IdxMod /\ Chunk > 1

VARIABLES
    uart_rx_idx, uart_rx_last_idx, uart_rx_buff,
    uart_dr,
    rxfe,       \* UARTFR bit 4: nothing to read
    imsc,       \* UARTIMSC bit 4: receive interrupt enabled
    icr,        \* UARTICR bit 4: the next character may be raised
    counter,
    reader,     \* "fgets" or "publish"
    idx, i,     \* locals of read_stdin
    stdin,      \* typed, not yet taken by fgets
    overrun,    \* uart_rx_buff was accessed past its end
    driver,     \* "idle", "intr", "getc" or "rearm"
    typed,      \* history: everything typed
    delivered   \* history: what the driver read, NULs dropped

device == <<uart_rx_last_idx, uart_dr, rxfe, imsc, icr, counter>>
thread == <<uart_rx_idx, uart_rx_buff, reader, idx, i, stdin>>
vars == <<device, thread, overrun, driver, typed, delivered>>

Slots == 0..(BuffLen - 1)
Chars == (UNION {Range(l) : l \in Lines}) \cup {Nul}

(* Type correctness; the counter is reset at every poll.                   *)
TypeOK ==
    /\ uart_rx_idx \in 0..(IdxMod - 1)
    /\ uart_rx_last_idx \in 0..(IdxMod - 1)
    /\ uart_rx_buff \in [Slots -> Chars \cup {Stale}]
    /\ uart_dr \in Chars
    /\ {rxfe, imsc, icr, overrun} \subseteq BOOLEAN
    /\ counter \in 0..PollPeriod
    /\ reader \in {"fgets", "publish"}
    /\ idx \in Slots /\ i \in 0..(Chunk - 1)
    /\ stdin \in Seq(Chars)
    /\ driver \in {"idle", "intr", "getc", "rearm"}
    /\ typed \in Seq(Chars) /\ delivered \in Seq(Chars)

Init ==
    /\ uart_rx_idx = 0 /\ uart_rx_last_idx = 0
    /\ uart_rx_buff = [s \in Slots |-> Stale]
    /\ uart_dr = Nul
    /\ rxfe = TRUE                   \* uart_fr = 0x90
    /\ imsc \in BOOLEAN              \* uart_imsc has no initialiser
    /\ icr = TRUE                    \* uart_icr = 0x10
    /\ counter = 0
    /\ reader = "fgets" /\ idx = 0 /\ i = 0
    /\ stdin = <<>> /\ overrun = FALSE
    /\ driver = "idle"
    /\ typed = <<>> /\ delivered = <<>>

-----------------------------------------------------------------------------
(* The user.                                                               *)
Type(line) ==
    /\ Len(typed) + Len(line) <= MaxTyped
    /\ stdin' = stdin \o line
    /\ typed' = typed \o line
    /\ UNCHANGED <<device, uart_rx_idx, uart_rx_buff, reader, idx, i,
                   overrun, driver, delivered>>

-----------------------------------------------------------------------------
(* read_stdin.  fgets takes a line, or Chunk - 1 characters of it, and     *)
(* stores a terminator behind them.                                        *)
TakenByFgets ==
    CHOOSE n \in 1..Len(stdin) :
        /\ n < Chunk
        /\ stdin[n] = NewLine \/ n = Chunk - 1
        /\ \A k \in 1..(n - 1) : stdin[k] # NewLine

Fgets ==
    /\ reader = "fgets"
    /\ stdin # <<>>
    /\ LET n    == TakenByFgets
           base == uart_rx_idx % BuffLen
       IN  IF base + n >= BuffLen
           THEN overrun' = TRUE /\ UNCHANGED <<uart_rx_buff, reader, idx, i, stdin>>
           ELSE /\ uart_rx_buff' = [s \in Slots |->
                       IF s - base \in 0..(n - 1) THEN stdin[s - base + 1]
                       ELSE IF s - base = n THEN Nul ELSE uart_rx_buff[s]]
                /\ stdin' = SubSeq(stdin, n + 1, Len(stdin))
                /\ idx' = base /\ i' = 0 /\ reader' = "publish"
                /\ UNCHANGED overrun
    /\ UNCHANGED <<device, uart_rx_idx, driver, typed, delivered>>

(* One turn of the for loop: advance uart_rx_idx, stop behind a newline or *)
(* after Chunk turns, the terminator included.                             *)
PublishTwice ==
    /\ reader = "publish"
    /\ uart_rx_idx' = (uart_rx_idx + 2) % IdxMod
    /\ IF uart_rx_buff[idx + i] = NewLine \/ i + 1 = Chunk
       THEN reader' = "fgets" /\ UNCHANGED i
       ELSE i' = i + 1 /\ UNCHANGED reader
    /\ UNCHANGED <<device, uart_rx_buff, idx, stdin, overrun, driver, typed,
                   delivered>>

Publish ==
    /\ reader = "publish"
    /\ uart_rx_idx' = (uart_rx_idx + 1) % IdxMod
    /\ IF uart_rx_buff[idx + i] = NewLine \/ i + 1 = Chunk
       THEN reader' = "fgets" /\ UNCHANGED i
       ELSE i' = i + 1 /\ UNCHANGED reader
    /\ UNCHANGED <<device, uart_rx_buff, idx, stdin, overrun, driver, typed,
                   delivered>>

-----------------------------------------------------------------------------
(* Uart::is_interrupting, called by check_interrupt when the guest is not  *)
(* masked.  It takes one character per interrupt and disarms itself.       *)
CountingOneMore ==
    /\ counter <= PollPeriod
    /\ counter' = counter + 1
    /\ UNCHANGED <<uart_rx_last_idx, uart_dr, rxfe, imsc, icr, thread, overrun,
                   driver, typed, delivered>>

Counting ==
    /\ counter < PollPeriod
    /\ counter' = counter + 1
    /\ UNCHANGED <<uart_rx_last_idx, uart_dr, rxfe, imsc, icr, thread, overrun,
                   driver, typed, delivered>>

Ready == imsc /\ icr /\ uart_rx_idx # uart_rx_last_idx

PollIdle ==
    /\ counter = PollPeriod
    /\ counter' = 0
    /\ ~Ready
    /\ UNCHANGED <<uart_rx_last_idx, uart_dr, rxfe, imsc, icr, thread, overrun,
                   driver, typed, delivered>>

RaisePastEnd ==
    /\ counter = PollPeriod
    /\ Ready
    /\ uart_rx_last_idx >= BuffLen
    /\ overrun' = TRUE
    /\ UNCHANGED <<device, thread, driver, typed, delivered>>

RaiseStaysArmed ==
    /\ counter = PollPeriod
    /\ counter' = 0
    /\ Ready
    /\ uart_rx_last_idx < BuffLen
    /\ uart_dr' = uart_rx_buff[uart_rx_last_idx]
    /\ uart_rx_last_idx' = (uart_rx_last_idx + 1) % IdxMod
    /\ rxfe' = FALSE
    /\ driver' = "intr"
    /\ UNCHANGED <<imsc, icr, thread, overrun, typed, delivered>>

RaiseKeepsFR ==
    /\ counter = PollPeriod
    /\ counter' = 0
    /\ Ready
    /\ uart_rx_last_idx < BuffLen
    /\ uart_dr' = uart_rx_buff[uart_rx_last_idx]
    /\ uart_rx_last_idx' = (uart_rx_last_idx + 1) % IdxMod
    /\ icr' = FALSE
    /\ driver' = "intr"
    /\ UNCHANGED <<imsc, rxfe, thread, overrun, typed, delivered>>

Raise ==
    /\ counter = PollPeriod
    /\ counter' = 0
    /\ Ready
    /\ uart_rx_last_idx < BuffLen
    /\ uart_dr' = uart_rx_buff[uart_rx_last_idx]
    /\ uart_rx_last_idx' = (uart_rx_last_idx + 1) % IdxMod
    /\ icr' = FALSE
    /\ rxfe' = FALSE
    /\ driver' = "intr"
    /\ UNCHANGED <<imsc, thread, overrun, typed, delivered>>

IsInterrupting == Counting \/ PollIdle \/ RaisePastEnd \/ Raise

-----------------------------------------------------------------------------
(* Uart::load and Uart::store, as the guest's driver uses them: its        *)
(* handler reads characters until UARTFR says there are none, then writes  *)
(* UARTICR.  The emulator never clears UARTICR bits on that write, it      *)
(* stores the value, which arms the next interrupt.  The console drops a   *)
(* NUL, such as the terminator that fgets adds inside a line longer than   *)
(* Chunk - 1.                                                              *)
LoadFR ==
    /\ driver = "intr"
    /\ driver' = IF rxfe THEN "rearm" ELSE "getc"
    /\ UNCHANGED <<device, thread, overrun, typed, delivered>>

LoadDR ==
    /\ driver = "getc"
    /\ driver' = "intr"
    /\ delivered' = IF uart_dr = Nul THEN delivered ELSE Append(delivered, uart_dr)
    /\ uart_dr' = Nul
    /\ rxfe' = TRUE
    /\ UNCHANGED <<uart_rx_last_idx, imsc, icr, counter, thread, overrun,
                   typed>>

StoreICR ==
    /\ driver = "rearm"
    /\ driver' = "idle"
    /\ icr' = TRUE
    /\ UNCHANGED <<uart_rx_last_idx, uart_dr, rxfe, imsc, counter, thread,
                   overrun, typed, delivered>>

StoreIMSC ==
    /\ driver = "idle"
    /\ ~imsc
    /\ imsc' = TRUE
    /\ UNCHANGED <<uart_rx_last_idx, uart_dr, rxfe, icr, counter, thread,
                   overrun, driver, typed, delivered>>

(* Sending a character goes through the same data register.                *)
StoreDR(c) ==
    /\ uart_dr' = c
    /\ UNCHANGED <<uart_rx_last_idx, rxfe, imsc, icr, counter, thread, overrun,
                   driver, typed, delivered>>

(* The guest sends from its threads, which run while no handler does, and  *)
(* from the handler, which echoes what it has read and starts the next     *)
(* output: at any moment but between an interrupt and the load it is for.  *)
(* Only this order of the guest keeps what was received, nothing in        *)
(* Uart::store does.                                                       *)
Send == rxfe /\ \E c \in Chars : StoreDR(c)

Reader == Fgets \/ Publish
Driver == LoadFR \/ LoadDR \/ StoreICR \/ StoreIMSC

Cpu == IsInterrupting \/ Driver \/ Send

-----------------------------------------------------------------------------
Stream == INSTANCE UartStream WITH
    Lines <- Lines,
    got <- delivered,
    wire <- SubSeq(typed, Len(delivered) + 1, Len(typed))

(* What was typed so far fits in the array, with the terminators that      *)
(* fgets adds: 57 characters for the sizes of uart.h.                      *)
Fits == Len(typed) + (Len(typed) \div (Chunk - 1)) < BuffLen

(* As long as the session fits, the two threads and the driver implement   *)
(* the console (module UartStream): no character is lost, repeated or      *)
(* overtaken, although the index is published without a lock, the data     *)
(* register is shared with the transmit side, whose characters are never   *)
(* taken for received ones, and the next character may be there while the  *)
(* driver handles the last.                                                *)
StreamsWhileItFits == [][Fits' => Stream!Step]_vars

(* fgets, whose index read_stdin reduces modulo BuffLen, and               *)
(* is_interrupting, whose index it does not, stay inside the array for as  *)
(* long as the session fits.                                               *)
NoOverrunWhileItFits == overrun => ~Fits
=============================================================================
