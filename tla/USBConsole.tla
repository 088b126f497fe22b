----------------------------- MODULE USBConsole -----------------------------
(***************************************************************************)
(* The console on USB: packets from the host are taken by the USB          *)
(* interrupt (USBEvent_EPOut) into a ring of characters, from which the    *)
(* thread reads lines, and an upload reads single characters.  A packet is *)
(* only taken when there is room for a whole one; otherwise the interrupt  *)
(* turns its endpoint off, and the thread turns it on again when it has    *)
(* read enough.  The characters ? ! ~ ^X are obeyed by the interrupt or by *)
(* on_idle, ahead of what is in the ring.                                  *)
(*                                                                         *)
(* A change of a count or a bit by the thread is one step here;            *)
(* SerialConsole looks at interrupts in the middle of one.  What the       *)
(* machine writes is taken to arrive at once.                              *)
(***************************************************************************)
EXTENDS Integers, Sequences, FiniteSets

CONSTANTS
  BufferSize,   \* of the ring, which keeps one slot free
  PacketSize,   \* MAX_PACKET_SIZE_EPBULK
  Lengths,      \* of the lines the host writes, without their ending
  Endings,      \* how the host ends a line
  Commands,     \* what a line may be: "move", "$X", "upload"
  Keys,         \* of ? ! ^X, what the host may send at any time
  Hasty         \* what the host does not wait for: "long", "keys", "port"

\* The longest line that leaves room for a packet behind it.
Longest == BufferSize - 1 - PacketSize

ASSUME USBAssumption ==
  /\ PacketSize \in Nat \ {0} /\ BufferSize \in Nat /\ Longest > 0
  /\ Lengths \subseteq Nat /\ Endings \subseteq {<<"\n">>, <<"\r">>, <<"\r", "\n">>}
  /\ Commands \subseteq {"move", "$X", "upload"} /\ Keys \subseteq {"?", "!", "^X"}
  /\ Hasty \subseteq {"long", "keys", "port"}

VARIABLES
  wire,        \* what the host has written and the machine has not taken
  port,        \* has the host the port open?
  asked,       \* what the host waits for
  rxbuf, nl_in_rx, last_char_was_cr, flush_to_nl, halt_flag, query_flag,
  enabled,     \* the OUT endpoint in USBEpIntEn
  attach, attached,
  feed_hold, halted,    \* of the kernel
  pc,          \* the next statement of the thread that touches any of these
  back,        \* where on_idle returns to; "upload" while one is read
  char,        \* the character _getc has taken
  received     \* the line being put together

hostVars == <<port, asked>>
rxVars == <<rxbuf, nl_in_rx, last_char_was_cr, flush_to_nl, halt_flag, query_flag, enabled>>
kernelVars == <<feed_hold, halted>>
threadVars == <<pc, back, char, received>>
vars == <<wire, hostVars, rxVars, attach, attached, kernelVars, threadVars>>

-----------------------------------------------------------------------------
(* Characters.  Those of a line's text are numbered; the end of a line also  *)
(* says how long the line was and what it asks for, and the one that erases  *)
(* a character how many are left.                                            *)

Text(i) == [char |-> "text", at |-> i, does |-> "nothing"]
End(c, k, command) == [char |-> c, at |-> k, does |-> command]
Key(c) == [char |-> c, at |-> 0, does |-> "nothing"]
Erase(k) == [char |-> "erase", at |-> k, does |-> "nothing"]

IsEnd(c) == c.char \in {"\n", "\r"}
LinesIn(s) == Cardinality({i \in DOMAIN s : IsEnd(s[i])})

\* A line, and one with a mistyped character that is erased.
Line(k, command, ending) ==
  [i \in 1 .. k |-> Text(i)] \o [i \in 1 .. Len(ending) |-> End(ending[i], k, command)]
Corrected(k, command, ending) ==
  [i \in 1 .. k + 1 |-> Text(i)] \o <<Erase(k)>>
    \o [i \in 1 .. Len(ending) |-> End(ending[i], k, command)]

NoChar == Key("none")

Init ==
  /\ wire = <<>> /\ asked = "nothing"
  /\ rxbuf = <<>> /\ nl_in_rx = 0 /\ last_char_was_cr = FALSE /\ flush_to_nl = FALSE
  /\ halt_flag = FALSE /\ query_flag = FALSE /\ enabled = TRUE
  /\ port = TRUE /\ attach \in BOOLEAN /\ attached = FALSE
  /\ feed_hold = FALSE /\ halted = FALSE
  /\ pc = "main" /\ back = "main" /\ char = NoChar /\ received = <<>>

-----------------------------------------------------------------------------
(* The host.  Unless it is hasty it writes a line that does not leave room   *)
(* for a packet when all before it has been read ("long"); it writes a key   *)
(* when all before it has been taken, and then waits for the answer          *)
(* ("keys"); it closes the port when all has been read, writes nothing while *)
(* it is closed, and does not open it again while on_main_loop is dealing    *)
(* with the close ("port").                                                  *)

Quiet ==
  /\ wire = <<>> /\ rxbuf = <<>> /\ pc \in {"main", "attach", "lines"}
  /\ ~halt_flag /\ ~query_flag

MayWrite == Len(wire) < PacketSize /\ (port \/ "port" \in Hasty)

HostKeeps == UNCHANGED <<port, rxVars, attach, attached, kernelVars, threadVars>>

WriteLine ==
  /\ MayWrite /\ (asked \in {"nothing", "file"} \/ "keys" \in Hasty)
  /\ \E k \in Lengths, command \in Commands \ {"upload"}, ending \in Endings :
       /\ k <= Longest \/ Quiet \/ asked = "file" \/ "long" \in Hasty
       /\ \/ wire' = wire \o Line(k, command, ending)
          \/ k < Longest /\ wire' = wire \o Corrected(k, command, ending)
  /\ UNCHANGED asked /\ HostKeeps

WriteUpload ==
  /\ MayWrite /\ asked = "nothing" /\ Quiet /\ "upload" \in Commands
  /\ \E ending \in Endings : wire' = Line(1, "upload", ending)
  /\ asked' = "upload" /\ HostKeeps

WriteEof ==
  /\ MayWrite /\ asked = "file"
  /\ wire' = Append(wire, Key("^D"))
  /\ asked' = "ended" /\ HostKeeps

WriteKey ==
  /\ MayWrite /\ (wire = <<>> \/ "keys" \in Hasty)
  /\ \/ "?" \in Keys /\ wire' = Append(wire, Key("?")) /\ UNCHANGED asked
     \/ /\ "!" \in Keys /\ asked = "nothing"
        /\ wire' = Append(wire, Key("!")) /\ asked' = "hold"
     \/ /\ asked = "hold"
        /\ wire' = Append(wire, Key("~")) /\ asked' = "nothing"
     \/ /\ "^X" \in Keys /\ asked \in {"nothing", "hold"}
        /\ wire' = Append(wire, Key("^X")) /\ asked' = "stop"
  /\ HostKeeps

\* USBCDC::USBEvent_Request: on_attach and on_detach
OpenPort ==
  /\ ~port /\ (pc \notin {"attach", "detached"} \/ "port" \in Hasty)
  /\ port' = TRUE /\ attach' = TRUE
  /\ UNCHANGED <<wire, asked, rxVars, attached, kernelVars, threadVars>>

ClosePort ==
  /\ port /\ ((Quiet /\ asked = "nothing") \/ "port" \in Hasty)
  /\ port' = FALSE /\ attach' = FALSE
  /\ UNCHANGED <<wire, asked, rxVars, attached, kernelVars, threadVars>>

Host == WriteLine \/ WriteUpload \/ WriteEof \/ WriteKey \/ OpenPort \/ ClosePort

-----------------------------------------------------------------------------
(* USBEvent_EPOut.  s is what the interrupt changes.                         *)

Free(s) == BufferSize - 1 - Len(s)

\* iqueue overwrites the oldest character of a full ring.
Enqueue(s, c) == Append(IF Free(s) = 0 THEN Tail(s) ELSE s, c)

\* Mutant: the rest of a line too long for the ring is not dropped.
DroppedHead(s) == [s EXCEPT !.rx = <<>>]

\* Drops what has come of a line, and what is still to come of it.
Dropped(s) == [s EXCEPT !.rx = <<>>, !.flush = TRUE]

TakeText(s, c) ==
  LET q == [s EXCEPT !.cr = (c.char = "\r"), !.rx = IF s.flush THEN @ ELSE Enqueue(@, c)] IN
  CASE IsEnd(c) /\ s.flush                        -> [q EXCEPT !.flush = FALSE]
    [] IsEnd(c) /\ ~s.flush                       -> [q EXCEPT !.nl = @ + 1]
    [] ~IsEnd(c) /\ Free(q.rx) = 0 /\ q.nl = 0    -> Dropped(q)
    [] OTHER                                      -> q

TakeChar(s, c) ==
  CASE c.char = "erase"            -> [s EXCEPT !.rx = IF @ = <<>> THEN @ ELSE SubSeq(@, 1, Len(@) - 1)]
    [] c.char = "^X"            -> [s EXCEPT !.halt = TRUE]
    [] c.char = "?"             -> [s EXCEPT !.query = TRUE]
    [] c.char \in {"!", "~"}    -> [s EXCEPT !.hold = (c.char = "!")]
    [] c.char = "\n" /\ s.cr    -> [s EXCEPT !.cr = FALSE]
    [] OTHER                    -> TakeText(s, c)

\* The packet, a character at a time.
TakePacket(s, packet) ==
  LET taken[i \in 0 .. Len(packet)] ==
        IF i = 0 THEN s ELSE TakeChar(taken[i - 1], packet[i])
  IN taken[Len(packet)]

\* After a packet: without room for another the endpoint is turned off, unless
\* the ring holds no complete line.
AfterPacket(s) == IF Free(s.rx) < PacketSize /\ s.nl = 0 THEN Dropped(s) ELSE s

Packets == {SubSeq(wire, 1, n) : n \in 1 .. IF Len(wire) < PacketSize THEN Len(wire) ELSE PacketSize}

EPOut ==
  /\ enabled /\ wire # <<>>
  /\ IF Free(rxbuf) < PacketSize THEN
       /\ enabled' = FALSE
       /\ UNCHANGED <<wire, rxbuf, nl_in_rx, last_char_was_cr, flush_to_nl, halt_flag,
                      query_flag, feed_hold>>
     ELSE \E packet \in Packets :
       LET before == [rx |-> rxbuf, nl |-> nl_in_rx, cr |-> last_char_was_cr,
                      flush |-> flush_to_nl, halt |-> halt_flag, query |-> query_flag,
                      hold |-> feed_hold]
           s == AfterPacket(TakePacket(before, packet))
       IN /\ wire' = SubSeq(wire, Len(packet) + 1, Len(wire))
          /\ rxbuf' = s.rx /\ nl_in_rx' = s.nl
          /\ last_char_was_cr' = s.cr /\ flush_to_nl' = s.flush
          /\ halt_flag' = s.halt /\ query_flag' = s.query /\ feed_hold' = s.hold
          /\ enabled' = (Free(s.rx) >= PacketSize)
  /\ UNCHANGED <<port, asked, attach, attached, halted, threadVars>>

-----------------------------------------------------------------------------
(* The thread: on_main_loop *)

Goto(l) == pc' = l
ToIdle(l) == pc' = "idle" /\ back' = l
Steps == UNCHANGED <<wire, port>>
FlagsKept == UNCHANGED <<last_char_was_cr, halt_flag, query_flag>>
PortKept == UNCHANGED <<attach, attached>>

\* "apparently some OSes don't assert DTR when a program opens the port"
LoopBegins ==
  /\ pc = "main" /\ Goto("attach")
  /\ attach' = (attach \/ rxbuf # <<>>)
  /\ UNCHANGED <<attached, asked, rxVars, kernelVars, back, char, received>> /\ Steps

LoopAttaches ==
  /\ pc = "attach" /\ (attach \/ ~attached) /\ Goto("lines")
  /\ attached' = attach
  /\ UNCHANGED <<attach, asked, rxVars, kernelVars, back, char, received>> /\ Steps

LoopDetaches ==
  /\ pc = "attach" /\ ~attach /\ attached /\ Goto("detached")
  /\ attached' = FALSE /\ rxbuf' = <<>>
  /\ UNCHANGED <<attach, asked, nl_in_rx, flush_to_nl, enabled, kernelVars, back, char, received>>
  /\ FlagsKept /\ Steps

LoopDetached ==
  /\ pc = "detached" /\ Goto("lines")
  /\ nl_in_rx' = 0
  /\ UNCHANGED <<asked, rxbuf, flush_to_nl, enabled, kernelVars, back, char, received>>
  /\ FlagsKept /\ PortKept /\ Steps

\* No line, or no more characters of one: what came of it is lost.
LoopEnds ==
  /\ pc \in {"lines", "reading"}
  /\ (pc = "lines" /\ nl_in_rx = 0) \/ rxbuf = <<>> \/ ~attached
  /\ received' = <<>> /\ ToIdle("main")
  /\ UNCHANGED <<asked, rxVars, kernelVars, char>> /\ PortKept /\ Steps

-----------------------------------------------------------------------------
(* _getc, for a line or for an upload *)

\* _getc takes a character
Take ==
  /\ \/ pc = "lines" /\ nl_in_rx > 0
     \/ pc \in {"reading", "upload"}
  /\ rxbuf # <<>> /\ attached /\ Goto("room")
  /\ char' = Head(rxbuf) /\ rxbuf' = Tail(rxbuf)
  /\ UNCHANGED <<asked, nl_in_rx, flush_to_nl, enabled, kernelVars, back, received>>
  /\ FlagsKept /\ PortKept /\ Steps

\* Mutant: only an empty ring makes room.
HasRoomEmpty == rxbuf = <<>>

\* The interrupt is wanted again when there is room for just one packet.
HasRoom == Free(rxbuf) = PacketSize

\* "handle potential deadlock where a short line, and the beginning of a very
\* long line are bundled in one usb packet"
MakeRoom ==
  /\ pc = "room" /\ Goto("count")
  /\ IF HasRoom THEN enabled' = TRUE /\ UNCHANGED <<rxbuf, flush_to_nl>>
     ELSE IF Free(rxbuf) < PacketSize /\ nl_in_rx = 0
     THEN rxbuf' = <<>> /\ flush_to_nl' = TRUE /\ enabled' = TRUE
     ELSE UNCHANGED <<rxbuf, flush_to_nl, enabled>>
  /\ UNCHANGED <<asked, nl_in_rx, kernelVars, back, char, received>>
  /\ FlagsKept /\ PortKept /\ Steps

Uncount == nl_in_rx' = IF nl_in_rx > 0 /\ IsEnd(char) THEN nl_in_rx - 1 ELSE nl_in_rx

CountKeeps ==
  /\ UNCHANGED <<rxbuf, flush_to_nl, enabled, kernelVars>>
  /\ FlagsKept /\ PortKept /\ Steps

CountText ==
  /\ pc = "count" /\ back = "main" /\ ~IsEnd(char) /\ Goto("reading")
  /\ received' = Append(received, char.at) /\ char' = NoChar
  /\ Uncount /\ UNCHANGED <<asked, back>> /\ CountKeeps

CountLine ==
  /\ pc = "count" /\ back = "main" /\ IsEnd(char) /\ Goto("command")
  /\ Uncount /\ UNCHANGED <<asked, back, char, received>> /\ CountKeeps

-----------------------------------------------------------------------------
(* What a line asks for *)

CommandKeeps ==
  /\ received' = <<>> /\ char' = NoChar
  /\ UNCHANGED rxVars /\ PortKept /\ Steps

Asks(command) == pc = "command" /\ char.does = command

\* Clears a halt, and with it a feed hold.
Unhalt ==
  /\ Asks("$X") /\ ToIdle("main")
  /\ IF halted THEN halted' = FALSE /\ feed_hold' = FALSE ELSE UNCHANGED kernelVars
  /\ UNCHANGED asked /\ CommandKeeps

\* append_milestone: a move waits while the machine is held.
Move ==
  /\ Asks("move") /\ ToIdle(IF feed_hold /\ ~halted THEN "held" ELSE "main")
  /\ UNCHANGED <<asked, kernelVars>> /\ CommandKeeps

\* Mutant: the wait does not call ON_IDLE.
HeldBusy ==
  /\ pc = "held" /\ (halted \/ ~feed_hold) /\ ToIdle("main")
  /\ UNCHANGED <<asked, kernelVars>> /\ CommandKeeps

Held ==
  /\ pc = "held" /\ ToIdle(IF feed_hold /\ ~halted THEN "held" ELSE "main")
  /\ UNCHANGED <<asked, kernelVars>> /\ CommandKeeps

\* upload_command; it is refused while the machine is busy.
Upload ==
  /\ Asks("upload")
  /\ \/ Goto("upload") /\ back' = "upload" /\ asked' = "file"
     \/ ToIdle("main") /\ asked' = "nothing"
  /\ UNCHANGED kernelVars /\ CommandKeeps

\* Nothing to read.
UploadWaits ==
  /\ pc = "upload" /\ rxbuf = <<>> /\ ToIdle("upload")
  /\ UNCHANGED <<asked, kernelVars>> /\ CommandKeeps

\* A character for the file; ON_IDLE is called once in a thousand.
UploadChar ==
  /\ pc = "count" /\ back = "upload" /\ char # Key("^D")
  /\ pc' \in {"upload", "idle"} /\ UNCHANGED <<back, asked>>
  /\ char' = NoChar
  /\ Uncount /\ UNCHANGED received /\ CountKeeps

UploadEnds ==
  /\ pc = "count" /\ back = "upload" /\ char = Key("^D")
  /\ ToIdle("main") /\ asked' = "nothing" /\ char' = NoChar
  /\ Uncount /\ UNCHANGED received /\ CountKeeps

-----------------------------------------------------------------------------
(* on_idle *)

IdleKeeps == UNCHANGED <<back, char, received>> /\ PortKept /\ Steps

IdleHalt ==
  /\ pc = "idle" /\ halt_flag /\ Goto("halted")
  /\ halt_flag' = FALSE /\ halted' = TRUE
  /\ UNCHANGED <<asked, rxbuf, nl_in_rx, last_char_was_cr, flush_to_nl, query_flag, enabled, feed_hold>>
  /\ IdleKeeps

\* "flush the recieve buffer, hopefully upstream has stopped sending"
IdleFlush ==
  /\ pc = "halted" /\ Goto("flushed")
  /\ rxbuf' = <<>>
  /\ UNCHANGED <<asked, nl_in_rx, flush_to_nl, enabled, kernelVars>> /\ FlagsKept /\ IdleKeeps

IdleUncount ==
  /\ pc = "flushed" /\ Goto("query")
  /\ nl_in_rx' = 0 /\ asked' = IF asked = "stop" THEN "nothing" ELSE asked
  /\ UNCHANGED <<rxbuf, flush_to_nl, enabled, kernelVars>> /\ FlagsKept /\ IdleKeeps

IdleNoHalt ==
  /\ pc = "idle" /\ ~halt_flag /\ Goto("query")
  /\ UNCHANGED <<asked, rxVars, kernelVars>> /\ IdleKeeps

IdleQuery ==
  /\ pc = "query" /\ Goto(back)
  /\ query_flag' = FALSE
  /\ UNCHANGED <<asked, rxbuf, nl_in_rx, last_char_was_cr, flush_to_nl, halt_flag, enabled, kernelVars>>
  /\ IdleKeeps

Thread ==
  \/ LoopBegins \/ LoopAttaches \/ LoopDetaches \/ LoopDetached \/ LoopEnds
  \/ Take \/ MakeRoom \/ CountText \/ CountLine
  \/ Unhalt \/ Move \/ Held \/ Upload \/ UploadWaits \/ UploadChar \/ UploadEnds
  \/ IdleHalt \/ IdleFlush \/ IdleUncount \/ IdleNoHalt \/ IdleQuery

Next == Host \/ EPOut \/ Thread

Spec == Init /\ [][Next]_vars

\* The main loop runs, and the bus carries packets.
FairSpec == Spec /\ WF_vars(Thread) /\ WF_vars(EPOut)

-----------------------------------------------------------------------------
(* Properties *)

\* Whatever is dropped, "to avoid delivering the tail of a line": a line handed
\* on is the whole of a line the host wrote, without what it erased; and what the
\* thread has begun to read is complete in the ring, so that no head of a line is
\* lost between two rounds of the main loop.
LinesAreWhole ==
  /\ pc = "command" => received = [i \in 1 .. char.at |-> i]
  /\ pc = "reading" => LinesIn(rxbuf) > 0
  /\ pc \in {"main", "idle"} => nl_in_rx = LinesIn(rxbuf)

\* An endpoint that was turned off is turned on again: what the host writes
\* goes on, the ^X among it.
StallEnds == ~enabled ~> enabled

Under(c) == \E i \in 1 .. Len(wire) : wire[i] = Key(c)

\* What was sent is dealt with: a line in the ring is read unless the machine is
\* held or halted, or the port closed; and ~ and ^X get through whatever the thread is doing, also
\* when it waits for the one or the other.
InputIsTaken ==
  /\ LinesIn(rxbuf) > 0 ~> feed_hold \/ ~port \/ pc = "flushed" \/ (pc = "count" /\ IsEnd(char))
  /\ Under("~") ~> ~feed_hold
  /\ Under("^X") ~> pc = "flushed"
=============================================================================
