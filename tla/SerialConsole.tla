--------------------------- MODULE SerialConsole ---------------------------
(***************************************************************************)
(* The console on the UART: the receive interrupt, the ring of characters  *)
(* (TSRingBuffer), and the two handlers of the thread, on_main_loop and    *)
(* on_idle.  A line is one token for its text and the tokens of its ending.*)
(*                                                                         *)
(* lf_count is a byte, and query_flag, halt_flag and last_char_was_cr are  *)
(* bits of another: the thread changes them by a load and a store, and the *)
(* interrupt writes the same bytes.                                        *)
(***************************************************************************)
EXTENDS Integers, Sequences, SequencesExt

CONSTANTS
  RingSize,         \* of the receive buffer, which keeps one slot free
  CountBits,        \* width of lf_count
  CharDuringStore   \* may the UART interrupt between a load and its store?

ASSUME ConsoleAssumption ==
  /\ RingSize \in Nat \ {0, 1} /\ CountBits \in Nat
  /\ CharDuringStore \in BOOLEAN

\* For the provers, which do not know powers.
ASSUME CountAssumption == 2 ^ CountBits \in Nat \ {0}

VARIABLES
  buffer,      \* characters not yet read
  lf_count,
  flags,       \* the byte of query_flag, halt_flag and last_char_was_cr
  pc,          \* the next statement of the thread that touches any of these
  back,        \* where on_idle returns to: main(), or a command that waits
  reg,         \* a byte as the thread loaded it
  received,    \* the line being put together
  missed,      \* history: line ends in the buffer of which a store undid the count
  halted,      \* Kernel::halted
  stop,        \* Kernel::stop_request
  replies      \* what was sent to the host

consoleVars == <<buffer, lf_count, flags, pc, back, reg, received, missed>>

-----------------------------------------------------------------------------
NL == [char |-> "\n"]
CR == [char |-> "\r"]
Query == [char |-> "?"]
CtrlX == [char |-> "^X"]
CtrlY == [char |-> "^Y"]
Characters == {NL, CR, Query, CtrlX, CtrlY}

Flags == [query : BOOLEAN, halt : BOOLEAN, cr : BOOLEAN]

\* The statements that store what was loaded before.
Stores == {"countStore", "queryStore", "haltStore"}

Pcs == {"main", "count", "line", "wait", "idle", "halt",
        "onHalt", "flush", "clear", "idleEnd"} \cup Stores

\* What the thread has loaded: lf_count, or flags.
Unloaded == [count |-> 0, flags |-> [query |-> FALSE, halt |-> FALSE, cr |-> FALSE]]

ConsoleInit ==
  /\ buffer = <<>> /\ lf_count = 0
  /\ flags = Unloaded.flags
  /\ pc = "main" /\ back = "main" /\ reg = Unloaded /\ received = <<>>
  /\ missed = 0
  /\ halted = FALSE /\ stop = FALSE /\ replies = <<>>

\* TSRingBuffer::put and get
Full == Len(buffer) = RingSize - 1

\* A reply; n is the line of a resend request.
Reply(word) == [say |-> word, n |-> 0]
Say(word) == replies' = Append(replies, Reply(word))
Goto(l) == pc' = l

-----------------------------------------------------------------------------
(* on_serial_char_received *)

CanInterrupt == CharDuringStore \/ pc \notin Stores

\* What is added to lf_count here does not last: the thread is about to store.
Undone == pc \in {"countStore", "clear"}

\* Mutant: the line is counted even if it did not fit.
PutUnchecked(c) ==
  /\ buffer' = IF Full THEN buffer ELSE Append(buffer, c)
  /\ lf_count' = IF c = NL THEN (lf_count + 1) % 2 ^ CountBits ELSE lf_count
  /\ missed' = IF c = NL /\ Undone /\ ~Full THEN missed + 1 ELSE missed

Put(c) ==
  IF Full THEN UNCHANGED <<buffer, lf_count, missed>>
  ELSE /\ buffer' = Append(buffer, c)
       /\ lf_count' = IF c = NL THEN (lf_count + 1) % 2 ^ CountBits ELSE lf_count
       /\ missed' = IF c = NL /\ Undone THEN missed + 1 ELSE missed

ReceiveText(c) ==
  /\ c \notin {Query, CtrlX, CtrlY}
  /\ flags' = [flags EXCEPT !.cr = (c = CR)]
  /\ IF c = NL /\ flags.cr THEN UNCHANGED <<buffer, lf_count, missed>>
     ELSE Put(IF c = CR THEN NL ELSE c)
  /\ UNCHANGED stop

ReceiveRequest(c) ==
  /\ c \in {Query, CtrlX, CtrlY}
  /\ flags' = [flags EXCEPT !.query = @ \/ c = Query, !.halt = @ \/ c = CtrlX]
  /\ stop' = (stop \/ c = CtrlY)
  /\ UNCHANGED <<buffer, lf_count, missed>>

OnSerialCharReceived(c) ==
  /\ CanInterrupt
  /\ ReceiveText(c) \/ ReceiveRequest(c)
  /\ UNCHANGED <<pc, back, reg, received, halted, replies>>

-----------------------------------------------------------------------------
(* on_main_loop.  The branch of a read that finds no character, "this should *)
(* not happen anyway", is left out: LinesCounted says that it does not.      *)

LoopKeeps == UNCHANGED <<flags, back, missed, halted, stop, replies>>

\* No complete line: main() goes on to ON_IDLE.
LoopNothing ==
  /\ pc = "main" /\ lf_count = 0
  /\ Goto("idle") /\ back' = "main"
  /\ UNCHANGED <<buffer, lf_count, flags, reg, received, missed, halted, stop, replies>>

\* The characters up to a line end; the interrupt may come between two of them,
\* but only adds others behind.
LoopLine ==
  /\ pc = "main" /\ lf_count > 0
  /\ LET end == SelectInSeq(buffer, LAMBDA c : c = NL) IN
       /\ received' = SubSeq(buffer, 1, end - 1)
       /\ buffer' = SubSeq(buffer, end + 1, Len(buffer))
  /\ Goto("count")
  /\ UNCHANGED <<lf_count, reg>> /\ LoopKeeps

\* --lf_count
CountLoad ==
  /\ pc = "count"
  /\ reg' = [Unloaded EXCEPT !.count = lf_count] /\ Goto("countStore")
  /\ UNCHANGED <<buffer, lf_count, received>> /\ LoopKeeps

CountStore ==
  /\ pc = "countStore"
  /\ lf_count' = (reg.count - 1) % 2 ^ CountBits /\ reg' = Unloaded /\ Goto("line")
  /\ UNCHANGED <<buffer, received>> /\ LoopKeeps

-----------------------------------------------------------------------------
(* on_idle: the query, then the halt *)

IdleKeeps == UNCHANGED <<back, received, stop>>

IdleNothing ==
  /\ pc \in {"idle", "halt"} /\ (pc = "idle" => ~flags.query) /\ ~flags.halt
  /\ Goto("idleEnd")
  /\ UNCHANGED <<buffer, lf_count, flags, reg, halted, replies, missed>> /\ IdleKeeps

QueryLoad ==
  /\ pc = "idle" /\ flags.query
  /\ reg' = [Unloaded EXCEPT !.flags = flags] /\ Goto("queryStore")
  /\ UNCHANGED <<buffer, lf_count, flags, halted, replies, missed>> /\ IdleKeeps

\* Mutant: all the flags are cleared.
QueryStoreAll ==
  /\ pc = "queryStore"
  /\ flags' = Unloaded.flags /\ reg' = Unloaded
  /\ Say("status") /\ Goto("halt")
  /\ UNCHANGED <<buffer, lf_count, halted, missed>> /\ IdleKeeps

QueryStore ==
  /\ pc = "queryStore"
  /\ flags' = [reg.flags EXCEPT !.query = FALSE] /\ reg' = Unloaded
  /\ Say("status") /\ Goto("halt")
  /\ UNCHANGED <<buffer, lf_count, halted, missed>> /\ IdleKeeps

HaltLoad ==
  /\ pc \in {"idle", "halt"} /\ (pc = "idle" => ~flags.query) /\ flags.halt
  /\ reg' = [Unloaded EXCEPT !.flags = flags] /\ Goto("haltStore")
  /\ UNCHANGED <<buffer, lf_count, flags, halted, replies, missed>> /\ IdleKeeps

HaltStore ==
  /\ pc = "haltStore"
  /\ flags' = [reg.flags EXCEPT !.halt = FALSE] /\ reg' = Unloaded /\ Goto("onHalt")
  /\ UNCHANGED <<buffer, lf_count, halted, replies, missed>> /\ IdleKeeps

OnHalt ==
  /\ pc = "onHalt"
  /\ halted' = TRUE /\ Goto("flush")
  /\ UNCHANGED <<buffer, lf_count, flags, reg, replies, missed>> /\ IdleKeeps

\* Mutant: only the lines are forgotten, not the characters.
FlushNothing ==
  /\ pc = "flush"
  /\ Goto("clear")
  /\ UNCHANGED <<buffer, lf_count, flags, reg, halted, replies, missed>> /\ IdleKeeps

\* while(buffer.get(c)): emptied, then lf_count = 0 and the message.
Flush ==
  /\ pc = "flush"
  /\ buffer' = <<>> /\ missed' = 0 /\ Goto("clear")
  /\ UNCHANGED <<lf_count, flags, reg, halted, replies>> /\ IdleKeeps

FlushCount ==
  /\ pc = "clear"
  /\ lf_count' = 0 /\ Say("HALTED") /\ Goto("idleEnd")
  /\ UNCHANGED <<buffer, flags, reg, halted, missed>> /\ IdleKeeps

\* The other handlers of ON_IDLE: the kill button halts here.
IdleEnd ==
  /\ pc = "idleEnd"
  /\ Goto(back)
  /\ UNCHANGED <<buffer, lf_count, flags, reg, halted, replies, missed>> /\ IdleKeeps

ConsoleStep ==
  \/ LoopNothing \/ LoopLine
  \/ CountLoad \/ CountStore
  \/ IdleNothing \/ QueryLoad \/ QueryStore \/ HaltLoad \/ HaltStore \/ OnHalt \/ Flush \/ FlushCount \/ IdleEnd

-----------------------------------------------------------------------------
(* Properties *)

LinesIn(s) == Cardinality({i \in DOMAIN s : s[i] = NL})

\* What lf_count will be after the next store of the thread.
Counted ==
  CASE pc = "count"      -> (lf_count - 1) % 2 ^ CountBits
    [] pc = "countStore" -> (reg.count - 1) % 2 ^ CountBits
    [] pc = "clear"      -> 0
    [] OTHER             -> lf_count

\* The complete lines in the buffer are those that lf_count counts, and those of which
\* the end came between a load of lf_count and its store, or between the flush and
\* the clearing of the count (missed): nothing else makes them differ, neither a full
\* buffer nor a wrap of the count in between.  So on_main_loop never finds the buffer
\* empty inside a line.
LinesCounted ==
  /\ LinesIn(buffer) = Counted + missed
  /\ pc = "main" /\ lf_count > 0 => LinesIn(buffer) > 0
=============================================================================
