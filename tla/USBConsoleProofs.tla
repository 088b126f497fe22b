-------------------------- MODULE USBConsoleProofs --------------------------
(***************************************************************************)
(* The console on USB, for every size of the ring and of a packet, however *)
(* the host cuts its lines into packets and however long they are: what is *)
(* handed on as a line is the whole of a line the host wrote.  The host    *)
(* waits for the answer to a key and closes the port only when all has     *)
(* been read; it need not wait before a line that the ring cannot hold.    *)
(***************************************************************************)
EXTENDS USBConsole, SequenceTheorems, FiniteSetTheorems, FunctionTheorems, WellFoundedInduction, TLAPS

Does == {"nothing", "move", "$X", "upload"}
RingChars == [char : {"text", "\n", "\r", "^D"}, at : Nat, does : Does]
WireChars == [char : {"text", "erase", "\n", "\r", "^D", "?", "!", "~", "^X"}, at : Nat, does : Does]
Pcs == {"main", "attach", "detached", "lines", "reading", "room", "count", "command",
        "upload", "held", "idle", "halted", "flushed", "query"}

TypeInv ==
  /\ wire \in Seq(WireChars) /\ rxbuf \in Seq(RingChars) /\ Len(rxbuf) < BufferSize
  /\ nl_in_rx \in Nat /\ last_char_was_cr \in BOOLEAN /\ flush_to_nl \in BOOLEAN
  /\ halt_flag \in BOOLEAN /\ query_flag \in BOOLEAN /\ feed_hold \in BOOLEAN
  /\ pc \in Pcs /\ back \in {"main", "upload", "held"}
  /\ char \in RingChars \cup {NoChar} /\ received \in Seq(Nat)
  /\ pc \in {"room", "count", "command"} => char \in RingChars
  /\ asked \in {"nothing", "upload", "file", "ended", "hold", "stop"}

\* Where the thread can be, and that it reads an upload from when it is
\* accepted to its end.
FlowInv ==
  /\ back = "upload" <=> asked \in {"file", "ended"}
  /\ pc \in {"main", "attach", "detached", "lines", "reading", "command"} => back = "main"
  /\ pc = "upload" => back = "upload"
  /\ pc = "held" => back = "held"
  /\ pc \in {"room", "count"} => back \in {"main", "upload"}
  /\ pc \in {"reading", "room", "count", "command"} /\ back = "main" => attached
  /\ received # <<>> => pc \in {"reading", "room", "count", "command"} /\ back = "main"

\* While the port is closed there is nothing to read.
PortInv ==
  /\ ~port => wire = <<>> /\ rxbuf = <<>>
  /\ attached /\ ~attach => ~port
  /\ pc = "detached" => ~port

Numbers(n) == [i \in 1 .. n |-> i]

\* What the thread has put together so far.
ReadInv ==
  /\ pc = "reading" => received = Numbers(Len(received))
  /\ pc \in {"room", "count"} /\ back = "main" =>
       /\ char.char \in {"text", "\n", "\r"}
       /\ char.char = "text" => char.at > 0 /\ received = Numbers(char.at - 1)
       /\ IsEnd(char) => received = Numbers(char.at)
  /\ pc = "command" => IsEnd(char) /\ received = Numbers(char.at)

-----------------------------------------------------------------------------
(* Where in a line the host, the ring and the thread are: how many           *)
(* characters of the line come before.                                       *)

After(c) == IF c.char \in {"text", "erase"} THEN c.at ELSE 0

Follows(p, c) ==
  /\ c.char = "text" => c.at = p + 1
  /\ c.char = "erase" => p = c.at + 1
  /\ IsEnd(c) => c.at = p
  /\ c.char \notin {"text", "erase", "\n", "\r"} => p = 0

Joined(c, d) == Follows(After(c), d) \/ (c.char = "\r" /\ d.char = "\n")

Start == IF pc \in {"room", "count"} THEN After(char)
         ELSE IF pc = "reading" THEN Len(received) ELSE 0
RingEnd(rx) == IF rx = <<>> THEN Start ELSE After(rx[Len(rx)])

\* What is in the ring follows what the thread has taken; during an upload
\* it need not.  Nothing is in the ring while the rest of a line is dropped.
RingInv(rx, flush) ==
  /\ \A i \in 2 .. Len(rx) : Follows(After(rx[i - 1]), rx[i])
  /\ back # "upload" /\ rx # <<>> => Follows(Start, rx[1])
  /\ flush => rx = <<>>

\* What is under way are lines and, between them, keys.
WireInv(w) ==
  /\ \A i \in 2 .. Len(w) : Joined(w[i - 1], w[i])
  /\ w # <<>> => After(w[Len(w)]) = 0
  /\ \A i \in 1 .. Len(w) : w[i].char = "^D" => asked = "ended" /\ i = Len(w)
  /\ \A i \in 1 .. Len(w) : w[i].does = "upload" => IsEnd(w[i])
  /\ \A i, j \in 1 .. Len(w) : w[i].does = "upload" /\ w[j].does = "upload" /\ i < j
       => j = i + 1 /\ w[i].char = "\r" /\ w[j].char = "\n"

\* It follows what is in the ring, but for the end of a line that is dropped and
\* for the second character that ends one.
JoinInv(rx, cr, flush, w) ==
  ~flush /\ (rx # <<>> \/ back # "upload") =>
    /\ w = <<>> => RingEnd(rx) = 0
    /\ w # <<>> => Follows(RingEnd(rx), w[1]) \/ (cr /\ w[1].char = "\n")
    /\ cr => RingEnd(rx) = 0

\* The lines are counted, and what the thread has begun to read is there.
Pending == IF pc \in {"room", "count"} /\ IsEnd(char) THEN 1 ELSE 0
Queries(w) == \A i \in 1 .. Len(w) : w[i].char = "?"

CountInv(rx, nl, w) ==
  /\ pc \notin {"detached", "flushed"} => nl = LinesIn(rx) + Pending
  /\ pc \in {"detached", "flushed"} => rx = <<>> /\ Queries(w)
  /\ pc = "reading" \/ (pc \in {"room", "count"} /\ back = "main" /\ ~IsEnd(char)) => LinesIn(rx) > 0

\* A ^X is under way, or has been taken, or is being obeyed, once.
StopInv(halt, w) ==
  /\ asked # "stop" => /\ ~halt /\ pc \notin {"halted", "flushed"}
                       /\ \A i \in 1 .. Len(w) : w[i].char # "^X"
  /\ asked = "stop" =>
       \/ Len(w) = 1 /\ w[1].char = "^X" /\ ~halt /\ pc \notin {"halted", "flushed"}
       \/ Queries(w) /\ (halt <=> pc \notin {"halted", "flushed"})

\* Behind the end of a file the host writes nothing but ?.
EofInv(rx, w) ==
  /\ \A i \in 1 .. Len(rx) : rx[i].char = "^D" => asked = "ended" /\ i = Len(rx) /\ Queries(w)
  /\ pc \in {"room", "count"} /\ char.char = "^D" => asked = "ended" /\ rx = <<>> /\ Queries(w)

\* The line that asks for an upload is read once, and while the host waits for it.
Spent(cr, w) == \A i \in 1 .. Len(w) : w[i].does = "upload" => i = 1 /\ cr /\ w[1].char = "\n"

UploadInv(rx, cr, w) ==
  /\ asked # "upload" => Spent(cr, w)
  /\ \A i \in 1 .. Len(rx) : rx[i].does = "upload" /\ back # "upload"
       => asked = "upload" /\ Spent(cr, w) /\ \A j \in 1 .. Len(rx) : rx[j].does = "upload" => j = i
  /\ pc \in {"room", "count", "command"} /\ back = "main" /\ char.does = "upload"
       => asked = "upload" /\ Spent(cr, w) /\ \A i \in 1 .. Len(rx) : rx[i].does # "upload"

Stream(rx, nl, cr, flush, halt, w) ==
  /\ RingInv(rx, flush) /\ WireInv(w) /\ JoinInv(rx, cr, flush, w) /\ CountInv(rx, nl, w)
  /\ StopInv(halt, w) /\ EofInv(rx, w) /\ UploadInv(rx, cr, w)

StreamInv == Stream(rxbuf, nl_in_rx, last_char_was_cr, flush_to_nl, halt_flag, wire)

IInv == TypeInv /\ FlowInv /\ PortInv /\ ReadInv /\ StreamInv

-----------------------------------------------------------------------------
(* Lines in a sequence *)

Count1(c) == IF IsEnd(c) THEN 1 ELSE 0

LEMMA LinesEmpty == LinesIn(<<>>) = 0
<1>1. {i \in DOMAIN <<>> : IsEnd((<<>>)[i])} = {}
  OBVIOUS
<1> QED BY <1>1, FS_EmptySet DEF LinesIn

LEMMA LinesNat ==
  ASSUME NEW S, NEW s \in Seq(S)
  PROVE  /\ LinesIn(s) \in Nat /\ IsFiniteSet({i \in 1 .. Len(s) : IsEnd(s[i])})
         /\ LinesIn(s) = Cardinality({i \in 1 .. Len(s) : IsEnd(s[i])})
<1>1. DOMAIN s = 1 .. Len(s) /\ Len(s) \in Nat
  OBVIOUS
<1>2. IsFiniteSet(1 .. Len(s))
  BY <1>1, FS_Interval
<1>3. {i \in 1 .. Len(s) : IsEnd(s[i])} \subseteq 1 .. Len(s)
  OBVIOUS
<1>4. IsFiniteSet({i \in 1 .. Len(s) : IsEnd(s[i])})
  BY <1>2, <1>3, FS_Subset
<1> QED BY <1>1, <1>4, FS_CardinalityType DEF LinesIn

LEMMA LinesAppend ==
  ASSUME NEW S, NEW s \in Seq(S), NEW c \in S
  PROVE  LinesIn(Append(s, c)) = LinesIn(s) + Count1(c)
<1> DEFINE T == {i \in 1 .. Len(s) : IsEnd(s[i])}
           t == Append(s, c)
<1>1. t \in Seq(S) /\ Len(t) = Len(s) + 1 /\ t[Len(s) + 1] = c /\ \A i \in 1 .. Len(s) : t[i] = s[i]
  OBVIOUS
<1>2. LinesIn(t) = Cardinality({i \in 1 .. Len(t) : IsEnd(t[i])})
  BY <1>1, LinesNat
<1>3. IsFiniteSet(T) /\ Cardinality(T) \in Nat /\ LinesIn(s) = Cardinality(T)
  BY LinesNat
<1>4. Len(s) + 1 \notin T /\ Len(s) \in Nat
  OBVIOUS
<1>9. Cardinality(T \cup {Len(s) + 1}) = Cardinality(T) + 1
  <2> HIDE DEF T, t
  <2> QED BY <1>3, <1>4, FS_AddElement
<1> HIDE DEF t
<1>5. CASE IsEnd(c)
  <2>1. {i \in 1 .. Len(t) : IsEnd(t[i])} = T \cup {Len(s) + 1}
    BY <1>1, <1>4, <1>5
  <2>2. LinesIn(t) = Cardinality(T \cup {Len(s) + 1})
    BY <2>1, <1>2
  <2> HIDE DEF T
  <2> QED BY <2>2, <1>3, <1>9, <1>5 DEF Count1, t
<1>6. CASE ~IsEnd(c)
  <2>1. {i \in 1 .. Len(t) : IsEnd(t[i])} = T
    BY <1>1, <1>4, <1>6
  <2>2. LinesIn(t) = Cardinality(T)
    BY <2>1, <1>2
  <2> HIDE DEF T
  <2> QED BY <2>2, <1>3, <1>6 DEF Count1, t
<1> QED BY <1>5, <1>6

LEMMA EmptyIs ==
  ASSUME NEW S, NEW s \in Seq(S)
  PROVE  s = <<>> <=> Len(s) = 0
OBVIOUS

\* A sequence without its last element.
LEMMA FrontIs ==
  ASSUME NEW S, NEW s \in Seq(S), s # <<>>
  PROVE  LET t == SubSeq(s, 1, Len(s) - 1) IN
         t \in Seq(S) /\ Len(t) = Len(s) - 1 /\ \A i \in 1 .. Len(s) - 1 : t[i] = s[i]
<1> DEFINE m == Len(s) - 1
           t == SubSeq(s, 1, m)
<1>1. m \in Int /\ m >= 0 /\ \A i \in 1 .. m : s[i] \in S
  OBVIOUS
<1>2. t \in Seq(S) /\ Len(t) = IF 1 <= m THEN m - 1 + 1 ELSE 0
  <2> HIDE DEF m
  <2> QED BY <1>1, SubSeqProperties
<1>3. \A i \in 1 .. m - 1 + 1 : t[i] = s[1 + i - 1]
  <2> HIDE DEF m
  <2> QED BY <1>1, SubSeqProperties
<1>4. Len(t) = m
  <2> HIDE DEF m, t
  <2> QED BY <1>1, <1>2
<1> QED BY <1>1, <1>2, <1>3, <1>4

\* A character that is erased is no end of a line.
LEMMA LinesFront ==
  ASSUME NEW S, NEW s \in Seq(S), s # <<>>, ~IsEnd(s[Len(s)])
  PROVE  LinesIn(SubSeq(s, 1, Len(s) - 1)) = LinesIn(s)
<1> DEFINE t == SubSeq(s, 1, Len(s) - 1)
<1>1. Len(s) \in Nat /\ Len(s) > 0
  OBVIOUS
<1>2. t \in Seq(S) /\ Len(t) = Len(s) - 1 /\ \A i \in 1 .. Len(t) : t[i] = s[i]
  BY FrontIs
<1>3. {i \in 1 .. Len(t) : IsEnd(t[i])} = {i \in 1 .. Len(s) : IsEnd(s[i])}
  <2> HIDE DEF t
  <2> QED BY <1>1, <1>2
<1>4. LinesIn(t) = Cardinality({i \in 1 .. Len(t) : IsEnd(t[i])})
  BY <1>2, LinesNat
<1>5. LinesIn(s) = Cardinality({i \in 1 .. Len(s) : IsEnd(s[i])})
  BY LinesNat
<1> QED BY <1>3, <1>4, <1>5

LEMMA LinesTail ==
  ASSUME NEW S, NEW s \in Seq(S), s # <<>>
  PROVE  LinesIn(s) = LinesIn(Tail(s)) + Count1(Head(s))
<1> DEFINE t == Tail(s)
           T == {i \in 1 .. Len(t) : IsEnd(t[i])}
           U == {i \in 2 .. Len(s) : IsEnd(s[i])}
           f == [i \in T |-> i + 1]
<1>1. /\ Len(s) \in Nat /\ Len(s) > 0 /\ Head(s) = s[1]
      /\ t \in Seq(S) /\ Len(t) = Len(s) - 1 /\ \A i \in 1 .. Len(t) : t[i] = s[i + 1]
  OBVIOUS
<1>2. LinesIn(s) = Cardinality({i \in 1 .. Len(s) : IsEnd(s[i])})
  BY LinesNat
<1>3. LinesIn(t) = Cardinality(T) /\ IsFiniteSet(T)
  BY <1>1, LinesNat
<1> HIDE DEF t
<1>4. f \in Bijection(T, U)
  <2>1. f \in [T -> U]
    BY <1>1
  <2>2. \A x, y \in T : f[x] = f[y] => x = y
    BY <1>1
  <2>3. ASSUME NEW u \in U PROVE \E x \in T : f[x] = u
    <3>1. u - 1 \in T /\ f[u - 1] = u
      BY <1>1
    <3> QED BY <3>1
  <2> HIDE DEF f
  <2> QED BY <2>1, <2>2, <2>3, Fun_IsBij
<1>5. ExistsBijection(T, U)
  BY <1>4 DEF ExistsBijection
<1>6. IsFiniteSet(U) /\ Cardinality(U) = Cardinality(T) /\ Cardinality(T) \in Nat
  BY <1>3, <1>5, FS_Bijection, FS_CardinalityType
<1>9. 1 \notin U /\ Cardinality(U \cup {1}) = Cardinality(U) + 1
  <2>1. 1 \notin U
    BY <1>1
  <2> HIDE DEF U
  <2> QED BY <2>1, <1>6, FS_AddElement
<1>7. CASE IsEnd(s[1])
  <2>1. {i \in 1 .. Len(s) : IsEnd(s[i])} = U \cup {1}
    BY <1>1, <1>7
  <2> HIDE DEF T, U
  <2> QED BY <2>1, <1>1, <1>2, <1>3, <1>6, <1>7, <1>9 DEF Count1, t
<1>8. CASE ~IsEnd(s[1])
  <2>1. {i \in 1 .. Len(s) : IsEnd(s[i])} = U
    BY <1>1, <1>8
  <2>2. LinesIn(s) = Cardinality(U)
    BY <2>1, <1>2
  <2> HIDE DEF T, U
  <2> QED BY <2>2, <1>1, <1>3, <1>6, <1>8 DEF Count1, t
<1> QED BY <1>7, <1>8

-----------------------------------------------------------------------------
(* A character of a packet *)

States == [rx : Seq(RingChars), nl : Nat, cr : BOOLEAN, flush : BOOLEAN, halt : BOOLEAN,
           query : BOOLEAN, hold : BOOLEAN]

StreamOf(s, w) == Stream(s.rx, s.nl, s.cr, s.flush, s.halt, w)

Same(s, r) == r.nl = s.nl /\ r.flush = s.flush

Erases(s, c, r) ==
  /\ c.char = "erase" /\ Same(s, r) /\ r.cr = s.cr /\ r.halt = s.halt
  /\ r.rx = IF s.rx = <<>> THEN <<>> ELSE SubSeq(s.rx, 1, Len(s.rx) - 1)
Obeys(s, c, r) ==
  /\ c.char \in {"^X", "?", "!", "~"} /\ Same(s, r) /\ r.cr = s.cr /\ r.rx = s.rx
  /\ r.halt <=> s.halt \/ c.char = "^X"
Swallows(s, c, r) ==
  /\ c.char = "\n" /\ s.cr /\ ~r.cr /\ Same(s, r) /\ r.rx = s.rx /\ r.halt = s.halt
Reads(s, c, r) ==
  /\ c.char \in {"text", "\r", "\n", "^D"} /\ ~(c.char = "\n" /\ s.cr)
  /\ r.cr <=> c.char = "\r"
  /\ r.halt = s.halt
Skips(s, c, r) == s.flush /\ r.rx = s.rx /\ r.nl = s.nl /\ (r.flush <=> ~IsEnd(c))
Keeps(s, c, r) == ~s.flush /\ ~r.flush /\ r.rx = Append(s.rx, c) /\ r.nl = s.nl + Count1(c)
Drops(s, c, r) == ~IsEnd(c) /\ s.nl = 0 /\ r.nl = 0 /\ r.flush /\ r.rx = <<>>

\* What becomes of a character, when the ring is not full.
LEMMA TakeKinds ==
  ASSUME USBAssumption, NEW s \in States, NEW c \in WireChars, Len(s.rx) < BufferSize - 1
  PROVE  LET r == TakeChar(s, c) IN
         /\ r \in States /\ Len(r.rx) <= Len(s.rx) + 1
         /\ \/ Erases(s, c, r) \/ Obeys(s, c, r) \/ Swallows(s, c, r)
            \/ Reads(s, c, r) /\ (Skips(s, c, r) \/ Keeps(s, c, r) \/ Drops(s, c, r))
<1> DEFINE r == TakeChar(s, c)
<1> USE DEF WireChars
<1>0. /\ s.rx \in Seq(RingChars) /\ s.nl \in Nat /\ s.cr \in BOOLEAN /\ s.flush \in BOOLEAN
      /\ s.halt \in BOOLEAN /\ s.query \in BOOLEAN /\ s.hold \in BOOLEAN /\ BufferSize \in Nat
  BY DEF States, USBAssumption
<1>1. CASE c.char = "erase"
  <2>1. r = [s EXCEPT !.rx = IF s.rx = <<>> THEN s.rx ELSE SubSeq(s.rx, 1, Len(s.rx) - 1)]
    BY <1>1 DEF TakeChar
  <2>2. CASE s.rx = <<>>
    <3>1. r.rx = <<>> /\ r \in States
      BY <2>1, <2>2, <1>0 DEF States
    <3> QED BY <3>1, <2>1, <2>2, <1>0, <1>1 DEF Erases, Same, States
  <2>3. CASE s.rx # <<>>
    <3> DEFINE t == SubSeq(s.rx, 1, Len(s.rx) - 1)
    <3>1. t \in Seq(RingChars) /\ Len(t) = Len(s.rx) - 1
      BY <2>3, <1>0, FrontIs
    <3> HIDE DEF t
    <3>2. r = [s EXCEPT !.rx = t]
      BY <2>1, <2>3 DEF t
    <3> HIDE DEF r
    <3>3. r \in States /\ r.rx = t /\ Same(s, r) /\ r.cr = s.cr /\ r.halt = s.halt
      BY <3>1, <3>2, <1>0 DEF States, Same
    <3>4. Erases(s, c, r)
      BY <3>3, <2>3, <1>1 DEF Erases, t
    <3> QED BY <3>1, <3>3, <3>4, <1>0 DEF r
  <2> QED BY <2>2, <2>3
<1>2. CASE c.char \in {"^X", "?", "!", "~"}
  <2>1. \/ c.char = "^X" /\ r = [s EXCEPT !.halt = TRUE]
        \/ c.char = "?" /\ r = [s EXCEPT !.query = TRUE]
        \/ c.char \in {"!", "~"} /\ r = [s EXCEPT !.hold = (c.char = "!")]
    BY <1>2 DEF TakeChar
  <2>2. s.halt \in BOOLEAN /\ (c.char = "!") \in BOOLEAN
    BY <1>0
  <2> HIDE DEF r
  <2>3. CASE c.char = "^X" /\ r = [s EXCEPT !.halt = TRUE]
    <3>1. r \in States /\ r.halt /\ Same(s, r) /\ r.cr = s.cr /\ r.rx = s.rx
      BY <2>3 DEF States, Same
    <3> QED BY <3>1, <2>3, <1>0 DEF Obeys, r
  <2>4. CASE c.char = "?" /\ r = [s EXCEPT !.query = TRUE]
    <3>1. r \in States /\ r.halt = s.halt /\ Same(s, r) /\ r.cr = s.cr /\ r.rx = s.rx
      BY <2>4 DEF States, Same
    <3> QED BY <3>1, <2>4, <1>0 DEF Obeys, r
  <2>5. CASE c.char \in {"!", "~"} /\ r = [s EXCEPT !.hold = (c.char = "!")]
    <3>1. r \in States /\ r.halt = s.halt /\ Same(s, r) /\ r.cr = s.cr /\ r.rx = s.rx
      BY <2>5, <2>2 DEF States, Same
    <3> QED BY <3>1, <2>5, <1>0 DEF Obeys, r
  <2> QED BY <2>1, <2>3, <2>4, <2>5
<1>3. CASE c.char = "\n" /\ s.cr
  <2>1. r = [s EXCEPT !.cr = FALSE]
    BY <1>3 DEF TakeChar
  <2> HIDE DEF r
  <2>2. r \in States /\ r.halt = s.halt /\ Same(s, r) /\ ~r.cr /\ r.rx = s.rx
    BY <2>1 DEF States, Same
  <2> QED BY <2>2, <1>0, <1>3 DEF Swallows, r
<1>4. CASE c.char \in {"text", "\r", "\n", "^D"} /\ ~(c.char = "\n" /\ s.cr)
  <2> DEFINE rx == IF s.flush THEN s.rx ELSE Append(s.rx, c)
             q == [s EXCEPT !.cr = (c.char = "\r"), !.rx = rx]
  <2>1. r = TakeText(s, c)
    BY <1>4 DEF TakeChar
  <2>2. Free(s.rx) # 0
    BY <1>0 DEF Free
  <2>3. c \in RingChars
    BY <1>4 DEF RingChars
  <2>4. rx \in Seq(RingChars) /\ Len(rx) <= Len(s.rx) + 1
    BY <2>3, <1>0
  <2>5. r = CASE IsEnd(c) /\ s.flush                      -> [q EXCEPT !.flush = FALSE]
              [] IsEnd(c) /\ ~s.flush                     -> [q EXCEPT !.nl = q.nl + 1]
              [] ~IsEnd(c) /\ Free(q.rx) = 0 /\ q.nl = 0  -> Dropped(q)
              [] OTHER                                    -> q
    BY <2>1, <2>2 DEF TakeText, Enqueue
  <2>6. /\ q \in States /\ q.rx = rx /\ q.nl = s.nl /\ q.flush = s.flush /\ q.halt = s.halt
        /\ q.cr <=> c.char = "\r"
    <3>1. (c.char = "\r") \in BOOLEAN
      OBVIOUS
    <3> HIDE DEF rx
    <3> QED BY <3>1, <2>4, <1>0 DEF States
  <2> HIDE DEF q, r
  <2>7. CASE IsEnd(c) /\ s.flush
    <3>1. r = [q EXCEPT !.flush = FALSE]
      BY <2>5, <2>7
    <3> HIDE DEF rx
    <3>2. /\ r \in States /\ r.rx = rx /\ r.nl = s.nl /\ ~r.flush /\ r.halt = s.halt
          /\ r.cr <=> c.char = "\r"
      BY <3>1, <2>6 DEF States
    <3>3. rx = s.rx
      BY <2>7 DEF rx
    <3> QED BY <3>2, <3>3, <2>4, <2>7, <1>4 DEF Reads, Skips, r
  <2>8. CASE IsEnd(c) /\ ~s.flush
    <3>1. r = [q EXCEPT !.nl = q.nl + 1]
      BY <2>5, <2>8
    <3> HIDE DEF rx
    <3>4. q.nl + 1 \in Nat
      BY <2>6, <1>0
    <3>2. /\ r \in States /\ r.rx = rx /\ r.nl = s.nl + 1 /\ ~r.flush /\ r.halt = s.halt
          /\ r.cr <=> c.char = "\r"
      BY <3>1, <3>4, <2>6, <2>8 DEF States
    <3>3. rx = Append(s.rx, c)
      BY <2>8 DEF rx
    <3> QED BY <3>2, <3>3, <2>4, <2>8, <1>4 DEF Reads, Keeps, r, Count1
  <2>9. CASE ~IsEnd(c) /\ Free(q.rx) = 0 /\ q.nl = 0
    <3>1. r = Dropped(q)
      BY <2>5, <2>9
    <3> HIDE DEF rx
    <3>2. /\ r \in States /\ r.rx = <<>> /\ r.nl = s.nl /\ r.flush /\ r.halt = s.halt
          /\ r.cr <=> c.char = "\r"
      <4>1. <<>> \in Seq(RingChars)
        OBVIOUS
      <4> QED BY <3>1, <4>1, <2>6 DEF States, Dropped
    <3> QED BY <3>2, <2>6, <2>9, <1>0, <1>4 DEF Reads, Drops, r
  <2>10. CASE ~IsEnd(c) /\ ~(Free(q.rx) = 0 /\ q.nl = 0)
    <3>1. r = q
      BY <2>5, <2>10
    <3>2. CASE s.flush
      BY <3>1, <3>2, <2>4, <2>6, <2>10, <1>4 DEF Reads, Skips, r
    <3>3. CASE ~s.flush
      <4>1. Reads(s, c, q) /\ Keeps(s, c, q)
        BY <3>3, <2>6, <2>10, <1>0, <1>4 DEF Reads, Keeps, Count1
      <4> HIDE DEF rx
      <4> QED BY <4>1, <3>1, <2>4, <2>6 DEF r
    <3> QED BY <3>2, <3>3, <1>0
  <2> QED BY <2>7, <2>8, <2>9, <2>10, <1>0
<1> QED BY <1>1, <1>2, <1>3, <1>4

\* What is behind the next character on the wire.
LEMMA TailOfWire ==
  ASSUME NEW w \in Seq(WireChars), w # <<>>, WireInv(w)
  PROVE  /\ w[1] \in WireChars /\ Tail(w) \in Seq(WireChars)
         /\ Len(w) \in Nat /\ Len(w) > 0 /\ Len(Tail(w)) = Len(w) - 1
         /\ \A i \in 1 .. Len(Tail(w)) : Tail(w)[i] = w[i + 1]
         /\ WireInv(Tail(w))
         /\ Queries(w) => Queries(Tail(w)) /\ w[1].char = "?"
         /\ Tail(w) = <<>> => After(w[1]) = 0
         /\ Tail(w) # <<>> => Joined(w[1], Tail(w)[1])
         /\ \A cr : Spent(cr, w) => \A i \in 1 .. Len(Tail(w)) : Tail(w)[i].does # "upload"
         /\ w[1].does = "upload" =>
              \A i \in 1 .. Len(Tail(w)) :
                Tail(w)[i].does = "upload" => i = 1 /\ w[1].char = "\r" /\ Tail(w)[i].char = "\n"
<1> DEFINE t == Tail(w)
<1>1. /\ w[1] \in WireChars /\ t \in Seq(WireChars) /\ Len(w) \in Nat /\ Len(w) > 0
      /\ Len(t) = Len(w) - 1 /\ \A i \in 1 .. Len(t) : t[i] = w[i + 1]
  OBVIOUS
<1> HIDE DEF t
<1>2. t = <<>> <=> Len(w) = 1
  <2>1. t = <<>> <=> Len(t) = 0
    BY <1>1
  <2> QED BY <2>1, <1>1
<1>3. ASSUME NEW i \in 2 .. Len(t) PROVE Joined(t[i - 1], t[i])
  <2>1. i + 1 \in 2 .. Len(w) /\ t[i] = w[i + 1] /\ t[i - 1] = w[i] /\ i + 1 - 1 = i
    BY <1>1
  <2> QED BY <2>1 DEF WireInv
<1>4. t # <<>> => After(t[Len(t)]) = 0
  BY <1>1, <1>2 DEF WireInv
<1>5. ASSUME NEW i \in 1 .. Len(t), t[i].char = "^D" PROVE asked = "ended" /\ i = Len(t)
  <2>1. i + 1 \in 1 .. Len(w) /\ t[i] = w[i + 1]
    BY <1>1
  <2>2. asked = "ended" /\ i + 1 = Len(w)
    BY <2>1, <1>5 DEF WireInv
  <2> QED BY <2>2, <1>1
<1>6. ASSUME NEW i \in 1 .. Len(t), t[i].does = "upload" PROVE IsEnd(t[i])
  <2>1. i + 1 \in 1 .. Len(w) /\ t[i] = w[i + 1]
    BY <1>1
  <2> QED BY <2>1, <1>6 DEF WireInv
<1>7. ASSUME NEW i \in 1 .. Len(t), NEW j \in 1 .. Len(t), t[i].does = "upload", t[j].does = "upload", i < j
      PROVE  j = i + 1 /\ t[i].char = "\r" /\ t[j].char = "\n"
  <2>1. i + 1 \in 1 .. Len(w) /\ j + 1 \in 1 .. Len(w) /\ t[i] = w[i + 1] /\ t[j] = w[j + 1] /\ i + 1 < j + 1
    BY <1>1, <1>7
  <2> QED BY <2>1, <1>7 DEF WireInv
<1>8. WireInv(t)
  BY <1>3, <1>4, <1>5, <1>6, <1>7 DEF WireInv
<1>9. Queries(w) => Queries(t) /\ w[1].char = "?"
  BY <1>1 DEF Queries
<1>10. t = <<>> => After(w[1]) = 0
  BY <1>1, <1>2 DEF WireInv
<1>11. t # <<>> => Joined(w[1], t[1])
  <2>1. t # <<>> => 2 \in 2 .. Len(w) /\ 1 \in 1 .. Len(t) /\ t[1] = w[2] /\ 2 - 1 = 1
    BY <1>1, <1>2
  <2> QED BY <2>1 DEF WireInv
<1>12. ASSUME NEW cr, Spent(cr, w), NEW i \in 1 .. Len(t) PROVE t[i].does # "upload"
  <2>1. i + 1 \in 1 .. Len(w) /\ t[i] = w[i + 1] /\ i + 1 # 1
    BY <1>1
  <2> QED BY <2>1, <1>12 DEF Spent
<1>13. ASSUME w[1].does = "upload", NEW i \in 1 .. Len(t), t[i].does = "upload"
       PROVE  i = 1 /\ w[1].char = "\r" /\ t[i].char = "\n"
  <2>1. 1 \in 1 .. Len(w) /\ i + 1 \in 1 .. Len(w) /\ t[i] = w[i + 1] /\ 1 < i + 1
    BY <1>1
  <2>2. i + 1 = 1 + 1 /\ w[1].char = "\r" /\ w[i + 1].char = "\n"
    BY <2>1, <1>13 DEF WireInv
  <2> QED BY <2>1, <2>2
<1> QED BY <1>1, <1>8, <1>9, <1>10, <1>11, <1>12, <1>13 DEF t

\* With nothing in the ring the thread is between two lines.
LEMMA StartIsZero ==
  ASSUME TypeInv, FlowInv, ReadInv, NEW nl, NEW w, CountInv(<<>>, nl, w), back # "upload"
  PROVE  Start = 0
<1>1. ~(LinesIn(<<>>) > 0)
  BY LinesEmpty
<1>2. pc # "reading" /\ ~(pc \in {"room", "count"} /\ back = "main" /\ ~IsEnd(char))
  BY <1>1 DEF CountInv
<1>3. pc \in {"room", "count"} => IsEnd(char)
  BY <1>2 DEF FlowInv
<1> QED BY <1>2, <1>3 DEF Start, After, IsEnd

\* What comes next follows, when the machine is where the character that was
\* taken leaves it.
LEMMA NextJoins ==
  ASSUME NEW w \in Seq(WireChars), w # <<>>, WireInv(w), NEW rx, NEW cr, NEW flush,
         ~flush /\ (rx # <<>> \/ back # "upload") =>
           RingEnd(rx) = After(w[1]) /\ (w[1].char = "\r" => cr) /\ (cr => RingEnd(rx) = 0)
  PROVE  JoinInv(rx, cr, flush, Tail(w))
<1>1. /\ Tail(w) = <<>> => After(w[1]) = 0
      /\ Tail(w) # <<>> => Joined(w[1], Tail(w)[1])
  BY TailOfWire
<1> QED BY <1>1 DEF JoinInv, Joined

LEMMA EraseKeeps ==
  ASSUME TypeInv, FlowInv, ReadInv, NEW s \in States, NEW r \in States,
         NEW w \in Seq(WireChars), w # <<>>, StreamOf(s, w), Erases(s, w[1], r)
  PROVE  StreamOf(r, Tail(w))
<1> DEFINE t == Tail(w)
           c == w[1]
<1>1. /\ WireInv(t) /\ (Queries(w) => Queries(t) /\ c.char = "?") /\ Len(w) > 0
      /\ \A i \in 1 .. Len(t) : t[i] = w[i + 1]
      /\ Len(t) = Len(w) - 1 /\ Len(w) \in Nat
      /\ \A cr : Spent(cr, w) => \A i \in 1 .. Len(t) : t[i].does # "upload"
  BY TailOfWire DEF StreamOf, Stream
<1>2. s.rx \in Seq(RingChars) /\ s.cr \in BOOLEAN /\ c.char = "erase" /\ c \in WireChars
  BY DEF States, Erases
<1>3. c.at \in Nat
  BY <1>2 DEF WireChars
<1>4. ~s.flush /\ (s.rx # <<>> \/ back # "upload") => RingEnd(s.rx) = c.at + 1 /\ ~s.cr
  <2>1. ~s.flush /\ (s.rx # <<>> \/ back # "upload") => Follows(RingEnd(s.rx), c) /\ (s.cr => RingEnd(s.rx) = 0)
    BY <1>2 DEF StreamOf, Stream, JoinInv
  <2> QED BY <2>1, <1>2, <1>3 DEF Follows
<1>5. CountInv(s.rx, s.nl, w)
  BY DEF StreamOf, Stream
<1> HIDE DEF t, c
<1>6. s.rx = <<>> /\ back # "upload" => s.flush
  <2> SUFFICES ASSUME s.rx = <<>>, back # "upload", ~s.flush PROVE FALSE
    OBVIOUS
  <2>1. Start = 0
    BY <1>5, StartIsZero
  <2> QED BY <2>1, <1>3, <1>4 DEF RingEnd
<1>7. s.rx # <<>> => ~s.flush
  BY DEF StreamOf, Stream, RingInv
<1>8. CASE s.rx = <<>>
  <2>1. r.rx = <<>> /\ r.rx = s.rx /\ r.nl = s.nl /\ r.flush = s.flush /\ r.halt = s.halt /\ r.cr = s.cr
    BY <1>8 DEF Erases, Same
  <2>2. RingInv(r.rx, r.flush)
    BY <2>1 DEF StreamOf, Stream
  <2>3. JoinInv(r.rx, r.cr, r.flush, t)
    BY <2>1, <1>6 DEF JoinInv
  <2>4. CountInv(r.rx, r.nl, t)
    BY <2>1, <1>5, <1>1 DEF CountInv
  <2>5. StopInv(r.halt, t)
    BY <2>1, <1>1, <1>2 DEF StreamOf, Stream, StopInv, c
  <2>6. EofInv(r.rx, t) /\ UploadInv(r.rx, r.cr, t)
    BY <2>1, <1>1 DEF StreamOf, Stream, EofInv, UploadInv, Spent
  <2> QED BY <2>2, <2>3, <2>4, <2>5, <2>6, <1>1 DEF StreamOf, Stream, t
<1>9. CASE s.rx # <<>>
  <2> DEFINE n == Len(s.rx)
  <2>1. /\ n \in Nat /\ n > 0 /\ r.rx \in Seq(RingChars) /\ Len(r.rx) = n - 1
        /\ \A i \in 1 .. n - 1 : r.rx[i] = s.rx[i]
        /\ r.nl = s.nl /\ r.flush = s.flush /\ r.halt = s.halt /\ r.cr = s.cr
    <3>1. r.rx = SubSeq(s.rx, 1, Len(s.rx) - 1)
      BY <1>9 DEF Erases
    <3> QED BY <3>1, <1>2, <1>9, FrontIs DEF Erases, Same
  <2>2. r.rx = <<>> <=> n = 1
    <3>1. r.rx = <<>> <=> Len(r.rx) = 0
      <4>1. r.rx \in Seq(RingChars)
        BY <2>1
      <4> QED BY <4>1, EmptyIs
    <3> QED BY <3>1, <2>1
  <2>3. After(s.rx[n]) = c.at + 1 /\ ~s.cr /\ s.rx[n] \in RingChars
    BY <1>2, <1>4, <1>7, <1>9, <2>1 DEF RingEnd
  <2>4. s.rx[n].char = "text" /\ s.rx[n].at = c.at + 1
    BY <2>3, <1>3 DEF After, RingChars
  <2>5. ~IsEnd(s.rx[n])
    BY <2>4 DEF IsEnd
  <2>6. LinesIn(r.rx) = LinesIn(s.rx)
    BY <2>5, <1>2, <1>9, LinesFront DEF Erases
  <2>7. RingInv(s.rx, s.flush)
    BY DEF StreamOf, Stream
  <2>8. RingInv(r.rx, r.flush)
    BY <2>1, <2>2, <2>7, <1>7, <1>9 DEF RingInv
  <2>9. ASSUME n = 1, back # "upload" PROVE RingEnd(r.rx) = c.at
    <3>1. Start = c.at
      <4>1. Follows(Start, s.rx[1])
        BY <2>7, <2>9, <1>9 DEF RingInv
      <4>2. Start \in Nat
        BY DEF Start, TypeInv, After, RingChars, FlowInv
      <4> QED BY <4>1, <4>2, <2>4, <2>9, <1>3 DEF Follows
    <3> QED BY <3>1, <2>2, <2>9 DEF RingEnd
  <2>10. ASSUME n # 1 PROVE RingEnd(r.rx) = c.at
    <3>1. n \in 2 .. n /\ n - 1 \in 1 .. n - 1 /\ n - 1 \in 1 .. n
      <4>1. n \in Nat /\ n > 0 /\ n # 1
        BY <2>1, <2>10
      <4> HIDE DEF n
      <4> QED BY <4>1
    <3>2. Follows(After(s.rx[n - 1]), s.rx[n])
      BY <3>1, <2>7 DEF RingInv
    <3>3. After(s.rx[n - 1]) \in Nat /\ r.rx[n - 1] = s.rx[n - 1]
      <4>1. s.rx[n - 1] \in RingChars
        BY <3>1, <1>2
      <4> QED BY <4>1, <3>1, <2>1 DEF After, RingChars
    <3>4. After(s.rx[n - 1]) = c.at
      BY <3>2, <3>3, <2>4, <1>3 DEF Follows
    <3> QED BY <3>3, <3>4, <2>1, <2>2, <2>10 DEF RingEnd
  <2>11. JoinInv(r.rx, r.cr, r.flush, t)
    <3>1. ~r.flush /\ (r.rx # <<>> \/ back # "upload") => RingEnd(r.rx) = c.at /\ ~r.cr
      BY <2>1, <2>2, <2>3, <2>9, <2>10
    <3>2. c.at = After(c) /\ c.char # "\r"
      BY <1>2 DEF After
    <3>3. WireInv(w)
      BY DEF StreamOf, Stream
    <3> QED BY <3>1, <3>2, <3>3, NextJoins DEF t, c
  <2>12. CountInv(r.rx, r.nl, t)
    <3>1. pc \notin {"detached", "flushed"}
      BY <1>5, <1>9 DEF CountInv
    <3> QED BY <3>1, <2>1, <2>6, <1>5 DEF CountInv
  <2>13. StopInv(r.halt, t)
    BY <2>1, <1>1, <1>2 DEF StreamOf, Stream, StopInv, c
  <2>14. EofInv(r.rx, t)
    <3>1. EofInv(s.rx, w) /\ ~Queries(w)
      BY <1>1, <1>2 DEF StreamOf, Stream
    <3> QED BY <3>1, <2>1 DEF EofInv
  <2>15. UploadInv(r.rx, r.cr, t)
    <3>1. UploadInv(s.rx, s.cr, w)
      BY DEF StreamOf, Stream
    <3>2. \A i \in 1 .. Len(r.rx) : i \in 1 .. n /\ i # n /\ r.rx[i] = s.rx[i]
      BY <2>1
    <3>3. Spent(s.cr, w) => Spent(r.cr, t)
      BY <1>1 DEF Spent
    <3> QED BY <3>1, <3>2, <3>3 DEF UploadInv
  <2> QED BY <2>8, <2>11, <2>12, <2>13, <2>14, <2>15, <1>1 DEF StreamOf, Stream, t
<1> QED BY <1>8, <1>9

LEMMA ObeyKeeps ==
  ASSUME TypeInv, FlowInv, ReadInv, NEW s \in States, NEW r \in States,
         NEW w \in Seq(WireChars), w # <<>>, StreamOf(s, w), Obeys(s, w[1], r)
  PROVE  StreamOf(r, Tail(w))
<1> DEFINE t == Tail(w)
           c == w[1]
<1>1. /\ WireInv(t) /\ (Queries(w) => Queries(t) /\ c.char = "?") /\ Len(w) > 0
      /\ \A i \in 1 .. Len(t) : t[i] = w[i + 1]
      /\ Len(t) = Len(w) - 1 /\ Len(w) \in Nat
      /\ \A cr : Spent(cr, w) => \A i \in 1 .. Len(t) : t[i].does # "upload"
  BY TailOfWire DEF StreamOf, Stream
<1>2. /\ c.char \in {"^X", "?", "!", "~"} /\ r.rx = s.rx /\ r.nl = s.nl /\ r.flush = s.flush
      /\ r.cr = s.cr /\ (r.halt <=> s.halt \/ c.char = "^X")
  BY DEF Obeys, Same
<1>3. /\ RingInv(s.rx, s.flush) /\ WireInv(w) /\ JoinInv(s.rx, s.cr, s.flush, w) /\ CountInv(s.rx, s.nl, w)
      /\ StopInv(s.halt, w) /\ EofInv(s.rx, w) /\ UploadInv(s.rx, s.cr, w)
  BY DEF StreamOf, Stream
<1>4. JoinInv(r.rx, r.cr, r.flush, t)
  <2>1. ~s.flush /\ (s.rx # <<>> \/ back # "upload") => Follows(RingEnd(s.rx), c)
    BY <1>2, <1>3 DEF JoinInv
  <2>2. Follows(RingEnd(s.rx), c) => RingEnd(s.rx) = After(c)
    BY <1>2 DEF Follows, After
  <2>3. ~s.flush /\ (s.rx # <<>> \/ back # "upload") => (s.cr => RingEnd(s.rx) = 0)
    BY <1>3 DEF JoinInv
  <2> QED BY <2>1, <2>2, <2>3, <1>2, <1>3, NextJoins
<1> HIDE DEF t, c
<1>5. StopInv(r.halt, t)
  <2>1. CASE asked # "stop"
    <3>1. ~s.halt /\ c.char # "^X" /\ \A i \in 1 .. Len(t) : t[i].char # "^X"
      BY <2>1, <1>1, <1>3 DEF StopInv, c
    <3> QED BY <3>1, <2>1, <1>2, <1>3 DEF StopInv
  <2>2. CASE asked = "stop"
    <3>1. Len(w) = 1 => Queries(t)
      BY <1>1 DEF Queries
    <3> QED BY <3>1, <2>2, <1>1, <1>2, <1>3 DEF StopInv, c
  <2> QED BY <2>1, <2>2
<1>6. EofInv(r.rx, t)
  BY <1>1, <1>2, <1>3 DEF EofInv
<1>7. CountInv(r.rx, r.nl, t)
  BY <1>1, <1>2, <1>3 DEF CountInv
<1>8. UploadInv(r.rx, r.cr, t)
  <2>1. Spent(s.cr, w) => Spent(r.cr, t)
    BY <1>1 DEF Spent
  <2> QED BY <2>1, <1>2, <1>3 DEF UploadInv
<1> QED BY <1>1, <1>2, <1>3, <1>4, <1>5, <1>6, <1>7, <1>8 DEF StreamOf, Stream, t

LEMMA SwallowKeeps ==
  ASSUME TypeInv, FlowInv, ReadInv, NEW s \in States, NEW r \in States,
         NEW w \in Seq(WireChars), w # <<>>, StreamOf(s, w), Swallows(s, w[1], r)
  PROVE  StreamOf(r, Tail(w))
<1> DEFINE t == Tail(w)
           c == w[1]
<1>1. /\ WireInv(t) /\ (Queries(w) => Queries(t) /\ c.char = "?") /\ Len(w) > 0
      /\ \A i \in 1 .. Len(t) : t[i] = w[i + 1]
      /\ Len(t) = Len(w) - 1 /\ Len(w) \in Nat
      /\ \A cr : Spent(cr, w) => \A i \in 1 .. Len(t) : t[i].does # "upload"
  BY TailOfWire DEF StreamOf, Stream
<1>2. /\ c.char = "\n" /\ s.cr /\ ~r.cr /\ r.rx = s.rx /\ r.nl = s.nl /\ r.flush = s.flush
      /\ r.halt = s.halt
  BY DEF Swallows, Same
<1>3. /\ RingInv(s.rx, s.flush) /\ WireInv(w) /\ JoinInv(s.rx, s.cr, s.flush, w) /\ CountInv(s.rx, s.nl, w)
      /\ StopInv(s.halt, w) /\ EofInv(s.rx, w) /\ UploadInv(s.rx, s.cr, w)
  BY DEF StreamOf, Stream
<1>4. JoinInv(r.rx, r.cr, r.flush, t)
  <2>1. ~s.flush /\ (s.rx # <<>> \/ back # "upload") => RingEnd(s.rx) = 0
    BY <1>2, <1>3 DEF JoinInv
  <2>2. After(c) = 0
    BY <1>2 DEF After
  <2> QED BY <2>1, <2>2, <1>2, <1>3, NextJoins
<1> HIDE DEF t, c
<1>5. StopInv(r.halt, t)
  <2>1. c.char # "^X" /\ c.char # "?"
    BY <1>2
  <2> QED BY <2>1, <1>1, <1>2, <1>3 DEF StopInv, c
<1>6. EofInv(r.rx, t)
  BY <1>1, <1>2, <1>3 DEF EofInv
<1>7. CountInv(r.rx, r.nl, t)
  BY <1>1, <1>2, <1>3 DEF CountInv
<1>8. UploadInv(r.rx, r.cr, t)
  <2>1. Spent(s.cr, w) => Spent(r.cr, t)
    BY <1>1 DEF Spent
  <2> QED BY <2>1, <1>2, <1>3 DEF UploadInv
<1> QED BY <1>1, <1>2, <1>3, <1>4, <1>5, <1>6, <1>7, <1>8 DEF StreamOf, Stream, t

LEMMA ReadKeeps ==
  ASSUME TypeInv, FlowInv, ReadInv, NEW s \in States, NEW r \in States,
         NEW w \in Seq(WireChars), w # <<>>, StreamOf(s, w), Reads(s, w[1], r),
         Skips(s, w[1], r) \/ Keeps(s, w[1], r) \/ Drops(s, w[1], r)
  PROVE  StreamOf(r, Tail(w))
<1> DEFINE t == Tail(w)
           c == w[1]
<1>1. /\ WireInv(t) /\ (Queries(w) => Queries(t) /\ c.char = "?") /\ Len(w) > 0
      /\ \A i \in 1 .. Len(t) : t[i] = w[i + 1]
      /\ Len(t) = Len(w) - 1 /\ Len(w) \in Nat /\ c \in WireChars
      /\ \A cr : Spent(cr, w) => \A i \in 1 .. Len(t) : t[i].does # "upload"
      /\ c.does = "upload" =>
           \A i \in 1 .. Len(t) : t[i].does = "upload" => i = 1 /\ c.char = "\r" /\ t[i].char = "\n"
  BY TailOfWire DEF StreamOf, Stream
<1>2. /\ c.char \in {"text", "\r", "\n", "^D"} /\ ~(c.char = "\n" /\ s.cr)
      /\ (r.cr <=> c.char = "\r") /\ r.halt = s.halt
  BY DEF Reads
<1>3. /\ RingInv(s.rx, s.flush) /\ WireInv(w) /\ JoinInv(s.rx, s.cr, s.flush, w) /\ CountInv(s.rx, s.nl, w)
      /\ StopInv(s.halt, w) /\ EofInv(s.rx, w) /\ UploadInv(s.rx, s.cr, w)
  BY DEF StreamOf, Stream
<1>4. Skips(s, c, r) \/ Keeps(s, c, r) \/ Drops(s, c, r)
  OBVIOUS
<1>5. s.rx \in Seq(RingChars) /\ c \in RingChars /\ s.nl \in Nat
  BY <1>1, <1>2 DEF States, RingChars, WireChars
<1>6. ASSUME ~r.flush /\ (r.rx # <<>> \/ back # "upload") => RingEnd(r.rx) = After(c)
      PROVE  JoinInv(r.rx, r.cr, r.flush, t)
  <2>1. c.char = "\r" => After(c) = 0
    BY DEF After
  <2> QED BY <2>1, <1>6, <1>2, <1>3, NextJoins
<1> HIDE DEF t, c
<1>7. StopInv(r.halt, t)
  <2>1. c.char # "^X" /\ c.char # "?"
    BY <1>2
  <2> QED BY <2>1, <1>1, <1>2, <1>3 DEF StopInv, c
<1>8. ~Queries(w) /\ pc \notin {"detached", "flushed"}
  BY <1>1, <1>2, <1>3 DEF CountInv
<1>9. Spent(s.cr, w) => Spent(r.cr, t)
  BY <1>1 DEF Spent
<1>10. CASE Skips(s, c, r)
  <2>1. s.flush /\ s.rx = <<>> /\ r.rx = s.rx /\ r.nl = s.nl /\ (r.flush <=> ~IsEnd(c))
    BY <1>3, <1>10 DEF Skips, RingInv
  <2>2. RingInv(r.rx, r.flush)
    BY <2>1, <1>3 DEF RingInv
  <2>3. JoinInv(r.rx, r.cr, r.flush, t)
    <3>1. ASSUME ~r.flush, back # "upload" PROVE RingEnd(r.rx) = After(c)
      <4>1. Start = 0
        BY <2>1, <3>1, <1>3, StartIsZero
      <4> QED BY <4>1, <2>1, <3>1 DEF RingEnd, After, IsEnd
    <3> QED BY <3>1, <2>1, <1>6
  <2>4. CountInv(r.rx, r.nl, t)
    BY <2>1, <1>3, <1>8 DEF CountInv
  <2>5. EofInv(r.rx, t)
    BY <2>1, <1>3, <1>8 DEF EofInv
  <2>6. UploadInv(r.rx, r.cr, t)
    BY <2>1, <1>3, <1>9 DEF UploadInv
  <2> QED BY <2>2, <2>3, <2>4, <2>5, <2>6, <1>1, <1>7 DEF StreamOf, Stream, t
<1>11. CASE Drops(s, c, r)
  <2>1. ~IsEnd(c) /\ s.nl = 0 /\ r.nl = 0 /\ r.flush /\ r.rx = <<>>
    BY <1>11 DEF Drops
  <2>2. LinesIn(s.rx) = 0 /\ Pending = 0
    <3>1. LinesIn(s.rx) \in Nat /\ Pending \in Nat /\ 0 = LinesIn(s.rx) + Pending
      BY <2>1, <1>3, <1>5, <1>8, LinesNat DEF CountInv, Pending
    <3> QED BY <3>1
  <2>3. RingInv(r.rx, r.flush) /\ JoinInv(r.rx, r.cr, r.flush, t)
    BY <2>1 DEF RingInv, JoinInv
  <2>4. CountInv(r.rx, r.nl, t)
    BY <2>1, <2>2, <1>3, <1>8, LinesEmpty DEF CountInv
  <2>5. EofInv(r.rx, t)
    BY <2>1, <1>3, <1>8 DEF EofInv
  <2>6. UploadInv(r.rx, r.cr, t)
    BY <2>1, <1>3, <1>9 DEF UploadInv
  <2> QED BY <2>3, <2>4, <2>5, <2>6, <1>1, <1>7 DEF StreamOf, Stream, t
<1>12. CASE Keeps(s, c, r)
  <2> DEFINE n == Len(s.rx)
  <2>1. ~s.flush /\ ~r.flush /\ r.rx = Append(s.rx, c) /\ r.nl = s.nl + Count1(c)
    BY <1>12 DEF Keeps
  <2>2. /\ n \in Nat /\ Len(r.rx) = n + 1 /\ r.rx # <<>> /\ r.rx[n + 1] = c
        /\ \A i \in 1 .. n : r.rx[i] = s.rx[i]
        /\ s.rx = <<>> <=> n = 0
    <3>1. s.rx = <<>> <=> n = 0
      BY <1>5, EmptyIs
    <3> QED BY <3>1, <2>1, <1>5
  <2>3. s.rx # <<>> \/ back # "upload" => Follows(RingEnd(s.rx), c)
    BY <2>1, <1>2, <1>3 DEF JoinInv, c
  <2>4. LinesIn(r.rx) = LinesIn(s.rx) + Count1(c) /\ LinesIn(s.rx) \in Nat /\ Count1(c) \in Nat
    BY <2>1, <1>5, LinesAppend, LinesNat DEF Count1
  <2> HIDE DEF n
  <2>5. RingInv(r.rx, r.flush)
    <3>1. ASSUME NEW i \in 2 .. Len(r.rx) PROVE Follows(After(r.rx[i - 1]), r.rx[i])
      <4>1. CASE i = n + 1
        <5>1. n # 0 /\ i - 1 = n /\ n \in 1 .. n
          BY <3>1, <4>1, <2>2
        <5> QED BY <5>1, <4>1, <2>2, <2>3 DEF RingEnd, n
      <4>2. CASE i # n + 1
        <5>1. i \in 2 .. n /\ i - 1 \in 1 .. n /\ i \in 1 .. n
          BY <3>1, <4>2, <2>2
        <5> QED BY <5>1, <2>2, <1>3 DEF RingInv, n
      <4> QED BY <4>1, <4>2
    <3>2. ASSUME back # "upload" PROVE Follows(Start, r.rx[1])
      <4>1. CASE n = 0
        BY <3>2, <4>1, <2>2, <2>3 DEF RingEnd
      <4>2. CASE n # 0
        <5>1. 1 \in 1 .. n
          BY <4>2, <2>2
        <5> QED BY <5>1, <3>2, <4>2, <2>2, <1>3 DEF RingInv
      <4> QED BY <4>1, <4>2
    <3> QED BY <3>1, <3>2, <2>1 DEF RingInv
  <2>6. JoinInv(r.rx, r.cr, r.flush, t)
    <3>1. RingEnd(r.rx) = After(c)
      BY <2>2 DEF RingEnd
    <3> QED BY <3>1, <1>6
  <2>7. CountInv(r.rx, r.nl, t)
    <3>1. s.nl = LinesIn(s.rx) + Pending /\ Pending \in Nat
      BY <1>3, <1>8 DEF CountInv, Pending
    <3>2. r.nl = LinesIn(r.rx) + Pending
      BY <3>1, <2>1, <2>4
    <3>3. LinesIn(s.rx) > 0 => LinesIn(r.rx) > 0
      BY <2>4
    <3> QED BY <3>2, <3>3, <1>3, <1>8 DEF CountInv
  <2>8. EofInv(r.rx, t)
    <3>1. ASSUME NEW i \in 1 .. Len(r.rx), r.rx[i].char = "^D"
          PROVE  asked = "ended" /\ i = Len(r.rx) /\ Queries(t)
      <4>1. i = n + 1
        <5> SUFFICES ASSUME i # n + 1 PROVE FALSE
          OBVIOUS
        <5>1. i \in 1 .. n
          BY <2>2
        <5> QED BY <5>1, <3>1, <2>2, <1>3, <1>8 DEF EofInv, n
      <4>2. 1 \in 1 .. Len(w) /\ c.char = "^D"
        BY <4>1, <3>1, <2>2, <1>1
      <4>3. asked = "ended" /\ 1 = Len(w)
        BY <4>2, <1>3 DEF WireInv, c
      <4>4. Len(t) = 0
        BY <4>3, <1>1
      <4> QED BY <4>1, <4>3, <4>4, <2>2 DEF Queries
    <3> QED BY <3>1, <1>3, <1>8 DEF EofInv
  <2>9. UploadInv(r.rx, r.cr, t)
    <3>1. c.does = "upload" => ~Spent(s.cr, w)
      <4>1. 1 \in 1 .. Len(w)
        BY <1>1
      <4> QED BY <4>1, <1>2 DEF Spent, c
    <3>2. ASSUME NEW i \in 1 .. n, r.rx[i].does = "upload", back # "upload"
          PROVE  /\ asked = "upload" /\ Spent(s.cr, w) /\ c.does # "upload"
                 /\ \A j \in 1 .. n : r.rx[j].does = "upload" => j = i
      <4>1. s.rx[i].does = "upload" /\ \A j \in 1 .. n : s.rx[j] = r.rx[j]
        BY <3>2, <2>2
      <4>2. /\ asked = "upload" /\ Spent(s.cr, w)
            /\ \A j \in 1 .. n : s.rx[j].does = "upload" => j = i
        BY <4>1, <3>2, <1>3 DEF UploadInv, n
      <4> QED BY <4>1, <4>2, <3>1
    <3>3. ASSUME NEW i \in 1 .. Len(r.rx), r.rx[i].does = "upload", back # "upload"
          PROVE  /\ asked = "upload" /\ Spent(r.cr, t)
                 /\ \A j \in 1 .. Len(r.rx) : r.rx[j].does = "upload" => j = i
      <4>1. CASE i = n + 1
        <5>1. c.does = "upload"
          BY <3>3, <4>1, <2>2
        <5>2. asked = "upload"
          BY <5>1, <3>1, <1>3 DEF UploadInv
        <5>3. Spent(r.cr, t)
          BY <5>1, <1>1, <1>2 DEF Spent
        <5>4. ASSUME NEW j \in 1 .. Len(r.rx), r.rx[j].does = "upload" PROVE j = i
          <6> SUFFICES ASSUME j # n + 1 PROVE FALSE
            BY <4>1
          <6>1. j \in 1 .. n
            BY <2>2
          <6> QED BY <6>1, <5>1, <5>4, <3>2, <3>3
        <5> QED BY <5>2, <5>3, <5>4
      <4>2. CASE i # n + 1
        <5>1. i \in 1 .. n
          BY <4>2, <2>2
        <5>2. /\ asked = "upload" /\ Spent(s.cr, w) /\ c.does # "upload"
              /\ \A j \in 1 .. n : r.rx[j].does = "upload" => j = i
          BY <5>1, <3>2, <3>3
        <5>3. ASSUME NEW j \in 1 .. Len(r.rx), r.rx[j].does = "upload" PROVE j = i
          <6>1. j # n + 1
            BY <5>2, <5>3, <2>2
          <6>2. j \in 1 .. n
            BY <6>1, <2>2
          <6> QED BY <6>2, <5>2, <5>3
        <5> QED BY <5>2, <5>3, <1>9
      <4> QED BY <4>1, <4>2
    <3>4. pc \in {"room", "count", "command"} /\ back = "main" /\ char.does = "upload"
            => asked = "upload" /\ Spent(r.cr, t) /\ \A i \in 1 .. Len(r.rx) : r.rx[i].does # "upload"
      <4> SUFFICES ASSUME pc \in {"room", "count", "command"}, back = "main", char.does = "upload"
                   PROVE  /\ asked = "upload" /\ Spent(r.cr, t)
                          /\ \A i \in 1 .. Len(r.rx) : r.rx[i].does # "upload"
        OBVIOUS
      <4>1. asked = "upload" /\ Spent(s.cr, w) /\ \A i \in 1 .. n : s.rx[i].does # "upload"
        BY <1>3 DEF UploadInv, n
      <4>2. ASSUME NEW i \in 1 .. Len(r.rx) PROVE r.rx[i].does # "upload"
        <5>1. i = n + 1 \/ i \in 1 .. n
          BY <2>2
        <5> QED BY <5>1, <4>1, <3>1, <2>2
      <4> QED BY <4>1, <4>2, <1>9
    <3>5. asked # "upload" => Spent(r.cr, t)
      BY <1>3, <1>9 DEF UploadInv
    <3> QED BY <3>3, <3>4, <3>5 DEF UploadInv
  <2> QED BY <2>5, <2>6, <2>7, <2>8, <2>9, <1>1, <1>7 DEF StreamOf, Stream, t
<1> QED BY <1>4, <1>10, <1>11, <1>12 DEF c

LEMMA TakeCharKeeps ==
  ASSUME USBAssumption, TypeInv, FlowInv, ReadInv, NEW s \in States, Len(s.rx) < BufferSize - 1,
         NEW w \in Seq(WireChars), w # <<>>, StreamOf(s, w)
  PROVE  LET r == TakeChar(s, w[1]) IN
         r \in States /\ Len(r.rx) <= Len(s.rx) + 1 /\ StreamOf(r, Tail(w))
<1> DEFINE r == TakeChar(s, w[1])
<1>1. w[1] \in WireChars
  OBVIOUS
<1>2. /\ r \in States /\ Len(r.rx) <= Len(s.rx) + 1
      /\ \/ Erases(s, w[1], r) \/ Obeys(s, w[1], r) \/ Swallows(s, w[1], r)
         \/ Reads(s, w[1], r) /\ (Skips(s, w[1], r) \/ Keeps(s, w[1], r) \/ Drops(s, w[1], r))
  BY <1>1, TakeKinds
<1> HIDE DEF r
<1>3. StreamOf(r, Tail(w))
  BY <1>2, EraseKeeps, ObeyKeeps, SwallowKeeps, ReadKeeps
<1> QED BY <1>2, <1>3 DEF r

-----------------------------------------------------------------------------
(* A packet *)

LEMMA LeastNumber ==
  ASSUME NEW T \in SUBSET Nat, T # {}
  PROVE  \E x \in T : \A y \in T : x <= y
<1> DEFINE less == {ss \in Nat \X Nat : ss[1] < ss[2]}
<1>1. IsWellFoundedOn(less, Nat)
  BY NatLessThanWellFounded DEF OpToRel
<1>2. \E x \in T : \A y \in T : ~ (<<y, x>> \in less)
  <2> HIDE DEF less
  <2> QED BY <1>1, WFMin
<1>3. PICK x \in T : \A y \in T : ~ (<<y, x>> \in less)
  BY <1>2
<1>4. \A y \in T : ~(y < x)
  BY <1>3
<1> QED BY <1>4

\* What TakePacket is defined as, over the first n characters.
IsTaken(g, s, p, n) == g = [i \in 0 .. n |-> IF i = 0 THEN s ELSE TakeChar(g[i - 1], p[i])]

LEMMA TakenExists ==
  ASSUME NEW s, NEW p, NEW n \in Nat
  PROVE  \E g : IsTaken(g, s, p, n)
<1> DEFINE T == {l \in Nat : ~ \E g : IsTaken(g, s, p, l)}
<1> SUFFICES ASSUME T # {} PROVE FALSE
  OBVIOUS
<1>1. PICK x \in T : \A y \in T : x <= y
  <2>1. T \in SUBSET Nat
    OBVIOUS
  <2> HIDE DEF T
  <2> QED BY <2>1, LeastNumber
<1>2. CASE x = 0
  <2> DEFINE g == [i \in 0 .. 0 |-> s]
  <2>1. g = [i \in 0 .. 0 |-> IF i = 0 THEN s ELSE TakeChar(g[i - 1], p[i])]
    OBVIOUS
  <2> HIDE DEF g
  <2>2. IsTaken(g, s, p, 0)
    BY <2>1 DEF IsTaken
  <2> QED BY <2>2, <1>1, <1>2
<1>3. CASE x # 0
  <2>1. x - 1 \in Nat /\ x \in Nat /\ ~(x <= x - 1)
    BY <1>3
  <2>2. x - 1 \notin T
    BY <2>1, <1>1
  <2>3. PICK g : IsTaken(g, s, p, x - 1)
    BY <2>1, <2>2
  <2>4. \A i \in 0 .. x - 1 : g[i] = IF i = 0 THEN s ELSE TakeChar(g[i - 1], p[i])
    BY <2>3 DEF IsTaken
  <2> DEFINE h == [i \in 0 .. x |-> IF i <= x - 1 THEN g[i] ELSE TakeChar(g[x - 1], p[x])]
  <2>5. ASSUME NEW i \in 0 .. x
        PROVE  h[i] = IF i = 0 THEN s ELSE TakeChar(h[i - 1], p[i])
    <3>1. CASE i = x
      <4>1. h[i] = TakeChar(g[x - 1], p[x]) /\ h[i - 1] = g[x - 1] /\ i # 0
        BY <3>1, <2>1
      <4> QED BY <4>1, <3>1
    <3>2. CASE i # x
      <4>1. i \in 0 .. x - 1 /\ h[i] = g[i]
        BY <3>2, <2>1
      <4>2. i # 0 => h[i - 1] = g[i - 1]
        BY <4>1, <2>1
      <4> QED BY <4>1, <4>2, <2>4
    <3> QED BY <3>1, <3>2
  <2>6. IsTaken(h, s, p, x)
    <3>1. h = [i \in 0 .. x |-> h[i]]
      OBVIOUS
    <3> HIDE DEF h
    <3>2. h = [i \in 0 .. x |-> IF i = 0 THEN s ELSE TakeChar(h[i - 1], p[i])]
      BY <3>1, <2>5
    <3> QED BY <3>2 DEF IsTaken
  <2> QED BY <2>6, <1>1
<1> QED BY <1>2, <1>3

LEMMA TakenIs ==
  ASSUME NEW s, NEW S, NEW p \in Seq(S)
  PROVE  \E g : IsTaken(g, s, p, Len(p)) /\ TakePacket(s, p) = g[Len(p)]
<1> DEFINE taken[i \in 0 .. Len(p)] == IF i = 0 THEN s ELSE TakeChar(taken[i - 1], p[i])
<1>1. TakePacket(s, p) = taken[Len(p)]
  BY DEF TakePacket
<1>2. taken = CHOOSE g : IsTaken(g, s, p, Len(p))
  BY DEF IsTaken
<1> HIDE DEF taken
<1>3. \E g : IsTaken(g, s, p, Len(p))
  <2>1. Len(p) \in Nat
    OBVIOUS
  <2> QED BY <2>1, TakenExists
<1>4. IsTaken(taken, s, p, Len(p))
  BY <1>2, <1>3
<1> QED BY <1>1, <1>4

\* What is left on the wire behind i characters.
Rest(w, i) == SubSeq(w, i + 1, Len(w))

LEMMA RestIs ==
  ASSUME NEW S, NEW w \in Seq(S), NEW i \in 0 .. Len(w)
  PROVE  /\ Rest(w, i) \in Seq(S) /\ Len(Rest(w, i)) = Len(w) - i
         /\ \A j \in 1 .. Len(w) - i : Rest(w, i)[j] = w[i + j]
<1> DEFINE m == i + 1
           n == Len(w)
<1>1. m \in Int /\ n \in Int /\ \A j \in m .. n : w[j] \in S
  OBVIOUS
<1>2. m <= n + 1 /\ m = i + 1 /\ n \in Nat /\ i \in Nat
  OBVIOUS
<1>3. /\ SubSeq(w, m, n) \in Seq(S)
      /\ Len(SubSeq(w, m, n)) = IF m <= n THEN n - m + 1 ELSE 0
  <2> HIDE DEF m, n
  <2> QED BY <1>1, SubSeqProperties
<1>4. \A j \in 1 .. n - m + 1 : SubSeq(w, m, n)[j] = w[m + j - 1]
  <2> HIDE DEF m, n
  <2> QED BY <1>1, SubSeqProperties
<1>5. Len(SubSeq(w, m, n)) = n - i
  <2> HIDE DEF m, n
  <2> QED BY <1>2, <1>3
<1>6. \A j \in 1 .. n - i : SubSeq(w, m, n)[j] = w[i + j]
  BY <1>4
<1> QED BY <1>3, <1>5, <1>6 DEF Rest

LEMMA RestTail ==
  ASSUME NEW S, NEW w \in Seq(S), NEW i \in 0 .. Len(w) - 1
  PROVE  Rest(w, i) # <<>> /\ Rest(w, i)[1] = w[i + 1] /\ Tail(Rest(w, i)) = Rest(w, i + 1)
<1>1. i + 1 \in 0 .. Len(w) /\ i \in 0 .. Len(w) /\ Len(w) \in Nat
  OBVIOUS
<1>2. /\ Rest(w, i) \in Seq(S) /\ Len(Rest(w, i)) = Len(w) - i
      /\ \A j \in 1 .. Len(w) - i : Rest(w, i)[j] = w[i + j]
  BY <1>1, RestIs
<1>3. /\ Rest(w, i + 1) \in Seq(S) /\ Len(Rest(w, i + 1)) = Len(w) - (i + 1)
      /\ \A j \in 1 .. Len(w) - (i + 1) : Rest(w, i + 1)[j] = w[i + 1 + j]
  BY <1>1, RestIs
<1>4. Rest(w, i) # <<>>
  <2>1. Len(Rest(w, i)) # 0
    BY <1>1, <1>2
  <2> QED BY <2>1, <1>2, EmptyIs
<1> DEFINE t == Tail(Rest(w, i))
<1>5. t \in Seq(S) /\ Len(t) = Len(w) - i - 1 /\ \A j \in 1 .. Len(w) - i - 1 : t[j] = w[i + 1 + j]
  <2>1. /\ t \in Seq(S) /\ Len(t) = Len(Rest(w, i)) - 1
        /\ \A j \in 1 .. Len(t) : t[j] = Rest(w, i)[j + 1]
    BY <1>2, <1>4
  <2> HIDE DEF t
  <2>2. Len(t) = Len(w) - i - 1
    BY <2>1, <1>1, <1>2
  <2>3. ASSUME NEW j \in 1 .. Len(w) - i - 1 PROVE t[j] = w[i + 1 + j]
    <3>1. j + 1 \in 1 .. Len(w) - i /\ i + (j + 1) = i + 1 + j /\ j \in 1 .. Len(t)
      BY <2>2, <1>1
    <3> QED BY <3>1, <2>1, <1>2
  <2> QED BY <2>1, <2>2, <2>3
<1> HIDE DEF t
<1>6. t = Rest(w, i + 1)
  <2>1. Len(t) = Len(Rest(w, i + 1)) /\ \A j \in 1 .. Len(t) : t[j] = Rest(w, i + 1)[j]
    BY <1>1, <1>3, <1>5
  <2> QED BY <2>1, <1>3, <1>5, SeqEqual
<1>7. Rest(w, i)[1] = w[i + 1]
  BY <1>1, <1>2
<1> QED BY <1>4, <1>6, <1>7 DEF t

\* A whole packet is taken as its characters are.
LEMMA TakePacketKeeps ==
  ASSUME USBAssumption, TypeInv, FlowInv, ReadInv, NEW s \in States,
         NEW w \in Seq(WireChars), StreamOf(s, w), NEW n \in 1 .. Len(w),
         n <= PacketSize, Free(s.rx) >= PacketSize
  PROVE  LET r == TakePacket(s, SubSeq(w, 1, n)) IN
         r \in States /\ Len(r.rx) < BufferSize /\ StreamOf(r, SubSeq(w, n + 1, Len(w)))
<1> DEFINE p == SubSeq(w, 1, n)
<1>1. p \in Seq(WireChars) /\ Len(p) = n /\ \A i \in 1 .. n : p[i] = w[i]
  <2>1. \A i \in 1 .. n : w[i] \in WireChars
    OBVIOUS
  <2>2. /\ p \in Seq(WireChars) /\ Len(p) = IF 1 <= n THEN n - 1 + 1 ELSE 0
        /\ \A i \in 1 .. n - 1 + 1 : p[i] = w[1 + i - 1]
    BY <2>1, SubSeqProperties
  <2> HIDE DEF p
  <2>3. n \in Nat /\ 1 <= n
    OBVIOUS
  <2>4. Len(p) = n
    BY <2>2, <2>3
  <2>5. ASSUME NEW i \in 1 .. n PROVE p[i] = w[i]
    <3>1. i \in 1 .. n - 1 + 1 /\ 1 + i - 1 = i
      BY <2>3
    <3> QED BY <3>1, <2>2
  <2> QED BY <2>2, <2>4, <2>5
<1> HIDE DEF p
<1>2. PICK g : IsTaken(g, s, p, n) /\ TakePacket(s, p) = g[n]
  BY <1>1, TakenIs
<1> DEFINE Good(i) == g[i] \in States /\ Len(g[i].rx) <= Len(s.rx) + i /\ StreamOf(g[i], Rest(w, i))
           T == {i \in 0 .. n : ~Good(i)}
<1>3. g[0] = s /\ \A i \in 1 .. n : g[i] = TakeChar(g[i - 1], p[i])
  BY <1>2 DEF IsTaken
<1>4. Len(s.rx) \in Nat /\ BufferSize \in Nat /\ PacketSize \in Nat /\ n <= BufferSize - 1 - Len(s.rx)
  <2>1. s.rx \in Seq(RingChars)
    BY DEF States
  <2> QED BY <2>1 DEF Free, USBAssumption
<1>5. Good(0)
  <2>1. Rest(w, 0) = w
    <3>1. 0 \in 0 .. Len(w)
      OBVIOUS
    <3>2. /\ Rest(w, 0) \in Seq(WireChars) /\ Len(Rest(w, 0)) = Len(w) - 0
          /\ \A j \in 1 .. Len(w) - 0 : Rest(w, 0)[j] = w[0 + j]
      BY <3>1, RestIs
    <3>3. Len(Rest(w, 0)) = Len(w) /\ \A j \in 1 .. Len(Rest(w, 0)) : Rest(w, 0)[j] = w[j]
      BY <3>2
    <3> QED BY <3>2, <3>3, SeqEqual
  <2> QED BY <2>1, <1>3, <1>4
<1>6. ASSUME NEW i \in 1 .. n, Good(i - 1) PROVE Good(i)
  <2>1. i - 1 \in 0 .. Len(w) /\ i - 1 \in 0 .. Len(w) - 1 /\ i - 1 + 1 = i
    OBVIOUS
  <2>2. /\ Rest(w, i - 1) # <<>> /\ Rest(w, i - 1)[1] = w[i] /\ Tail(Rest(w, i - 1)) = Rest(w, i)
        /\ Rest(w, i - 1) \in Seq(WireChars)
    <3>1. Rest(w, i - 1) \in Seq(WireChars)
      BY <2>1, RestIs
    <3>2. /\ Rest(w, i - 1) # <<>> /\ Rest(w, i - 1)[1] = w[i - 1 + 1]
          /\ Tail(Rest(w, i - 1)) = Rest(w, i - 1 + 1)
      BY <2>1, RestTail
    <3> QED BY <3>1, <3>2, <2>1
  <2>3. g[i] = TakeChar(g[i - 1], Rest(w, i - 1)[1])
    BY <2>2, <1>1, <1>3
  <2>4. g[i - 1] \in States /\ Len(g[i - 1].rx) <= Len(s.rx) + (i - 1) /\ StreamOf(g[i - 1], Rest(w, i - 1))
    BY <1>6
  <2>5. Len(g[i - 1].rx) \in Nat
    BY <2>4 DEF States
  <2>6. Len(g[i - 1].rx) < BufferSize - 1
    BY <2>4, <2>5, <1>4
  <2>7. g[i] \in States /\ Len(g[i].rx) <= Len(g[i - 1].rx) + 1 /\ StreamOf(g[i], Rest(w, i))
    BY <2>2, <2>3, <2>4, <2>6, TakeCharKeeps
  <2>8. Len(g[i].rx) \in Nat
    BY <2>7 DEF States
  <2>9. Len(g[i].rx) <= Len(s.rx) + i
    <3> DEFINE a == Len(g[i - 1].rx)
               b == Len(g[i].rx)
               m == Len(s.rx)
    <3>1. i \in Nat /\ m \in Nat /\ a \in Nat /\ b \in Nat /\ a <= m + (i - 1) /\ b <= a + 1
      BY <2>4, <2>5, <2>7, <2>8, <1>4
    <3> HIDE DEF a, b, m
    <3>2. b <= m + i
      BY <3>1
    <3> QED BY <3>2 DEF b, m
  <2> QED BY <2>7, <2>9
<1>7. Good(n)
  <2> SUFFICES ASSUME T # {} PROVE FALSE
    OBVIOUS
  <2>1. PICK x \in T : \A y \in T : x <= y
    <3>1. T \in SUBSET Nat
      OBVIOUS
    <3> HIDE DEF T
    <3> QED BY <3>1, LeastNumber
  <2>2. x \in 0 .. n /\ ~Good(x)
    BY <2>1
  <2> HIDE DEF Good
  <2>3. x # 0
    BY <2>2, <1>5
  <2>4. x \in 1 .. n /\ x - 1 \in 0 .. n /\ ~(x <= x - 1)
    BY <2>2, <2>3
  <2>5. x - 1 \notin T
    BY <2>1, <2>4
  <2> QED BY <2>2, <2>4, <2>5, <1>6
<1>8. Len(g[n].rx) \in Nat
  BY <1>7 DEF States
<1> QED BY <1>2, <1>4, <1>7, <1>8 DEF p, Rest

\* Nothing of a line that the ring has no room for is kept.
LEMMA AfterPacketKeeps ==
  ASSUME USBAssumption, TypeInv, FlowInv, ReadInv, NEW s \in States, Len(s.rx) < BufferSize,
         NEW w \in Seq(WireChars), StreamOf(s, w)
  PROVE  LET r == AfterPacket(s) IN r \in States /\ Len(r.rx) < BufferSize /\ StreamOf(r, w)
<1> DEFINE r == AfterPacket(s)
<1>1. CASE ~(Free(s.rx) < PacketSize /\ s.nl = 0)
  BY <1>1 DEF AfterPacket
<1>2. CASE Free(s.rx) < PacketSize /\ s.nl = 0
  <2>1. r = [s EXCEPT !.rx = <<>>, !.flush = TRUE]
    BY <1>2 DEF AfterPacket, Dropped
  <2> HIDE DEF r
  <2>2. <<>> \in Seq(RingChars) /\ s.rx \in Seq(RingChars)
    BY DEF States
  <2>3. r \in States /\ r.rx = <<>> /\ r.flush /\ r.nl = s.nl /\ r.cr = s.cr /\ r.halt = s.halt
    BY <2>1, <2>2 DEF States
  <2>4. /\ WireInv(w) /\ CountInv(s.rx, s.nl, w) /\ StopInv(s.halt, w) /\ EofInv(s.rx, w)
        /\ UploadInv(s.rx, s.cr, w)
    BY DEF StreamOf, Stream
  <2>5. RingInv(r.rx, r.flush) /\ JoinInv(r.rx, r.cr, r.flush, w)
    BY <2>3 DEF RingInv, JoinInv
  <2>6. CountInv(r.rx, r.nl, w)
    <3>1. pc \in {"detached", "flushed"} => pc # "reading" /\ pc \notin {"room", "count"}
      OBVIOUS
    <3>2. pc \notin {"detached", "flushed"} => LinesIn(s.rx) = 0 /\ Pending = 0
      <4>1. pc \notin {"detached", "flushed"} => 0 = LinesIn(s.rx) + Pending
        BY <2>4, <1>2 DEF CountInv
      <4>2. LinesIn(s.rx) \in Nat /\ Pending \in Nat
        BY <2>2, LinesNat DEF Pending
      <4> QED BY <4>1, <4>2
    <3> QED BY <3>1, <3>2, <2>3, <2>4, <1>2, LinesEmpty DEF CountInv
  <2>7. EofInv(r.rx, w) /\ UploadInv(r.rx, r.cr, w)
    BY <2>3, <2>4 DEF EofInv, UploadInv
  <2>8. Len(r.rx) < BufferSize
    BY <2>3 DEF USBAssumption, Longest
  <2> QED BY <2>3, <2>4, <2>5, <2>6, <2>7, <2>8 DEF StreamOf, Stream, r
<1> QED BY <1>1, <1>2

-----------------------------------------------------------------------------
(* The interrupt *)

LEMMA InitHolds == ASSUME USBAssumption, Init PROVE IInv
<1> USE DEF Init
<1>1. wire = <<>> /\ rxbuf = <<>> /\ Len(wire) = 0 /\ Len(rxbuf) = 0
  OBVIOUS
<1>2. TypeInv
  <2>1. Len(rxbuf) < BufferSize /\ nl_in_rx \in Nat
    BY <1>1 DEF USBAssumption, Longest
  <2>2. wire \in Seq(WireChars) /\ rxbuf \in Seq(RingChars) /\ received \in Seq(Nat)
    OBVIOUS
  <2>3. pc \in Pcs /\ pc \notin {"room", "count", "command"} /\ char = NoChar
    BY DEF Pcs
  <2> QED BY <2>1, <2>2, <2>3 DEF TypeInv
<1>3. FlowInv /\ PortInv /\ ReadInv
  BY DEF FlowInv, PortInv, ReadInv
<1>4. RingInv(rxbuf, flush_to_nl) /\ WireInv(wire) /\ EofInv(rxbuf, wire)
  BY <1>1 DEF RingInv, WireInv, EofInv
<1>5. Start = 0 /\ Pending = 0
  BY DEF Start, Pending
<1>6. JoinInv(rxbuf, last_char_was_cr, flush_to_nl, wire) /\ CountInv(rxbuf, nl_in_rx, wire)
  BY <1>1, <1>5, LinesEmpty DEF JoinInv, RingEnd, CountInv
<1>7. StopInv(halt_flag, wire) /\ UploadInv(rxbuf, last_char_was_cr, wire)
  BY <1>1 DEF StopInv, UploadInv, Spent
<1> QED BY <1>2, <1>3, <1>4, <1>6, <1>7 DEF IInv, StreamInv, Stream

LEMMA EPOutKeeps == ASSUME USBAssumption, IInv, EPOut PROVE IInv'
<1> USE DEF EPOut
<1>1. /\ pc' = pc /\ back' = back /\ char' = char /\ received' = received
      /\ port' = port /\ asked' = asked /\ attach' = attach /\ attached' = attached
  BY DEF threadVars
<1>2. FlowInv' /\ ReadInv'
  BY <1>1 DEF IInv, FlowInv, ReadInv
<1>3. CASE Free(rxbuf) < PacketSize
  <2>1. UNCHANGED <<wire, rxbuf, nl_in_rx, last_char_was_cr, flush_to_nl, halt_flag, query_flag, feed_hold>>
    BY <1>3
  <2>2. TypeInv' /\ PortInv'
    BY <2>1, <1>1 DEF IInv, TypeInv, PortInv
  <2>3. StreamInv'
    <3>1. Stream(rxbuf', nl_in_rx', last_char_was_cr', flush_to_nl', halt_flag', wire')
      BY <2>1 DEF IInv, StreamInv
    <3> QED BY <3>1, <1>1 DEF StreamInv, Stream, RingInv, WireInv, JoinInv, CountInv, StopInv, EofInv,
                      UploadInv, Start, RingEnd, Pending
  <2> QED BY <2>2, <2>3, <1>2 DEF IInv
<1>4. CASE ~(Free(rxbuf) < PacketSize)
  <2> DEFINE before == [rx |-> rxbuf, nl |-> nl_in_rx, cr |-> last_char_was_cr,
                        flush |-> flush_to_nl, halt |-> halt_flag, query |-> query_flag,
                        hold |-> feed_hold]
  <2>1. PICK packet \in Packets :
          LET s == AfterPacket(TakePacket(before, packet)) IN
          /\ wire' = SubSeq(wire, Len(packet) + 1, Len(wire))
          /\ rxbuf' = s.rx /\ nl_in_rx' = s.nl
          /\ last_char_was_cr' = s.cr /\ flush_to_nl' = s.flush
          /\ halt_flag' = s.halt /\ query_flag' = s.query /\ feed_hold' = s.hold
    BY <1>4
  <2>2. PICK n \in 1 .. (IF Len(wire) < PacketSize THEN Len(wire) ELSE PacketSize) : packet = SubSeq(wire, 1, n)
    BY DEF Packets
  <2>3. wire \in Seq(WireChars) /\ Len(wire) \in Nat /\ PacketSize \in Nat /\ BufferSize \in Nat
    BY DEF IInv, TypeInv, USBAssumption
  <2>4. n \in 1 .. Len(wire) /\ n <= PacketSize
    BY <2>3
  <2>5. Len(packet) = n
    <3>1. \A i \in 1 .. n : wire[i] \in WireChars
      BY <2>3, <2>4
    <3>2. Len(packet) = IF 1 <= n THEN n - 1 + 1 ELSE 0
      BY <2>2, <2>4, <3>1, SubSeqProperties
    <3> QED BY <3>2, <2>4
  <2>6. /\ before \in States /\ before.rx = rxbuf /\ before.nl = nl_in_rx /\ before.cr = last_char_was_cr
        /\ before.flush = flush_to_nl /\ before.halt = halt_flag
    BY DEF States, IInv, TypeInv
  <2>7. StreamOf(before, wire)
    BY <2>6 DEF StreamOf, IInv, StreamInv
  <2>8. Len(rxbuf) \in Nat /\ Free(before.rx) >= PacketSize
    BY <2>3, <2>6, <1>4 DEF Free, IInv, TypeInv
  <2> DEFINE q == TakePacket(before, packet)
             s == AfterPacket(q)
  <2> HIDE DEF before
  <2>9. q \in States /\ Len(q.rx) < BufferSize /\ StreamOf(q, SubSeq(wire, n + 1, Len(wire)))
    BY <2>2, <2>3, <2>4, <2>6, <2>7, <2>8, TakePacketKeeps DEF IInv
  <2> HIDE DEF q
  <2>10. SubSeq(wire, n + 1, Len(wire)) \in Seq(WireChars)
    <3>1. n \in 0 .. Len(wire)
      BY <2>4
    <3> QED BY <3>1, <2>3, RestIs DEF Rest
  <2>11. s \in States /\ Len(s.rx) < BufferSize /\ StreamOf(s, SubSeq(wire, n + 1, Len(wire)))
    BY <2>9, <2>10, AfterPacketKeeps DEF IInv
  <2> HIDE DEF s
  <2>12. /\ wire' = SubSeq(wire, n + 1, Len(wire))
         /\ rxbuf' = s.rx /\ nl_in_rx' = s.nl
         /\ last_char_was_cr' = s.cr /\ flush_to_nl' = s.flush
         /\ halt_flag' = s.halt /\ query_flag' = s.query /\ feed_hold' = s.hold
    BY <2>1, <2>5 DEF s, q
  <2>13. TypeInv'
    <3>1. /\ wire' \in Seq(WireChars) /\ rxbuf' \in Seq(RingChars) /\ Len(rxbuf') < BufferSize
          /\ nl_in_rx' \in Nat /\ last_char_was_cr' \in BOOLEAN /\ flush_to_nl' \in BOOLEAN
          /\ halt_flag' \in BOOLEAN /\ query_flag' \in BOOLEAN /\ feed_hold' \in BOOLEAN
      BY <2>10, <2>11, <2>12 DEF States
    <3> QED BY <3>1, <1>1 DEF IInv, TypeInv
  <2>14. PortInv'
    <3>1. wire # <<>> /\ port
      BY DEF IInv, PortInv
    <3> QED BY <3>1, <1>1 DEF IInv, PortInv
  <2>15. StreamInv'
    <3>1. Stream(rxbuf', nl_in_rx', last_char_was_cr', flush_to_nl', halt_flag', wire')
      BY <2>11, <2>12 DEF StreamOf
    <3> QED BY <3>1, <1>1 DEF StreamInv, Stream, RingInv, WireInv, JoinInv, CountInv, StopInv, EofInv,
                      UploadInv, Start, RingEnd, Pending
  <2> QED BY <2>13, <2>14, <2>15, <1>2 DEF IInv
<1> QED BY <1>3, <1>4

-----------------------------------------------------------------------------
(* The thread *)

\* What a step keeps that takes nothing from the ring.
LEMMA StreamMoves ==
  ASSUME IInv, UNCHANGED <<rxbuf, last_char_was_cr, flush_to_nl, wire, asked>>,
         back' = "upload" <=> back = "upload",
         back # "upload" => Start' = Start,
         CountInv(rxbuf, nl_in_rx, wire)', StopInv(halt_flag, wire)',
         pc' \in {"room", "count"} => pc \in {"room", "count"} /\ char' = char,
         pc' \in {"room", "count", "command"} => /\ pc \in {"room", "count", "command"}
                                                 /\ char' = char /\ back' = back
  PROVE  StreamInv'
<1>1. /\ RingInv(rxbuf, flush_to_nl) /\ WireInv(wire)
      /\ JoinInv(rxbuf, last_char_was_cr, flush_to_nl, wire)
      /\ EofInv(rxbuf, wire) /\ UploadInv(rxbuf, last_char_was_cr, wire)
  BY DEF IInv, StreamInv, Stream
<1>2. RingInv(rxbuf, flush_to_nl)' /\ WireInv(wire)'
  BY <1>1 DEF RingInv, WireInv
<1>3. JoinInv(rxbuf, last_char_was_cr, flush_to_nl, wire)'
  BY <1>1 DEF JoinInv, RingEnd
<1>4. EofInv(rxbuf, wire)'
  BY <1>1 DEF EofInv, Queries
<1>5. UploadInv(rxbuf, last_char_was_cr, wire)'
  BY <1>1 DEF UploadInv, Spent
<1> QED BY <1>2, <1>3, <1>4, <1>5 DEF StreamInv, Stream

LEMMA StreamStays ==
  ASSUME IInv, UNCHANGED <<rxbuf, last_char_was_cr, flush_to_nl, halt_flag, wire, asked>>,
         back' = "upload" <=> back = "upload",
         back # "upload" => Start' = Start,
         CountInv(rxbuf, nl_in_rx, wire)',
         pc' \in {"halted", "flushed"} <=> pc \in {"halted", "flushed"},
         pc' \in {"room", "count"} => pc \in {"room", "count"} /\ char' = char,
         pc' \in {"room", "count", "command"} => /\ pc \in {"room", "count", "command"}
                                                 /\ char' = char /\ back' = back
  PROVE  StreamInv'
<1>1. StopInv(halt_flag, wire)
  BY DEF IInv, StreamInv, Stream
<1>2. StopInv(halt_flag, wire)'
  BY <1>1 DEF StopInv, Queries
<1> QED BY <1>2, StreamMoves

LEMMA LoopBeginsKeeps == ASSUME USBAssumption, IInv, LoopBegins PROVE IInv'
<1> USE DEF LoopBegins, Steps, FlagsKept, PortKept, Goto, ToIdle, rxVars, kernelVars
<1>1. TypeInv /\ FlowInv /\ PortInv /\ ReadInv /\ CountInv(rxbuf, nl_in_rx, wire)
  BY DEF IInv, StreamInv, Stream
<1>2. TypeInv'
  BY <1>1 DEF TypeInv, FlowInv, Pcs
<1>3. FlowInv'
  BY <1>1 DEF FlowInv
<1>4. PortInv'
  BY <1>1 DEF PortInv, FlowInv
<1>5. ReadInv'
  BY <1>1 DEF ReadInv, FlowInv
<1>6. CountInv(rxbuf, nl_in_rx, wire)'
  BY <1>1 DEF CountInv, FlowInv, Queries, Pending
<1>7. StreamInv'
  <2>1. UNCHANGED <<rxbuf, last_char_was_cr, flush_to_nl, halt_flag, wire, asked>>
    OBVIOUS
  <2>2. /\ back' = "upload" <=> back = "upload"
        /\ pc' \in {"halted", "flushed"} <=> pc \in {"halted", "flushed"}
        /\ pc' \in {"room", "count"} => pc \in {"room", "count"} /\ char' = char
        /\ pc' \in {"room", "count", "command"} => /\ pc \in {"room", "count", "command"}
                                                    /\ char' = char /\ back' = back
    BY <1>1 DEF FlowInv
  <2>3. back # "upload" => Start' = Start
    BY <1>1 DEF Start, FlowInv, TypeInv, After, IsEnd
  <2> QED BY <2>1, <2>2, <2>3, <1>6, StreamStays
<1> QED BY <1>2, <1>3, <1>4, <1>5, <1>7 DEF IInv

LEMMA LoopAttachesKeeps == ASSUME USBAssumption, IInv, LoopAttaches PROVE IInv'
<1> USE DEF LoopAttaches, Steps, FlagsKept, PortKept, Goto, ToIdle, rxVars, kernelVars
<1>1. TypeInv /\ FlowInv /\ PortInv /\ ReadInv /\ CountInv(rxbuf, nl_in_rx, wire)
  BY DEF IInv, StreamInv, Stream
<1>2. TypeInv'
  BY <1>1 DEF TypeInv, FlowInv, Pcs
<1>3. FlowInv'
  BY <1>1 DEF FlowInv
<1>4. PortInv'
  BY <1>1 DEF PortInv, FlowInv
<1>5. ReadInv'
  BY <1>1 DEF ReadInv, FlowInv
<1>6. CountInv(rxbuf, nl_in_rx, wire)'
  BY <1>1 DEF CountInv, FlowInv, Queries, Pending
<1>7. StreamInv'
  <2>1. UNCHANGED <<rxbuf, last_char_was_cr, flush_to_nl, halt_flag, wire, asked>>
    OBVIOUS
  <2>2. /\ back' = "upload" <=> back = "upload"
        /\ pc' \in {"halted", "flushed"} <=> pc \in {"halted", "flushed"}
        /\ pc' \in {"room", "count"} => pc \in {"room", "count"} /\ char' = char
        /\ pc' \in {"room", "count", "command"} => /\ pc \in {"room", "count", "command"}
                                                    /\ char' = char /\ back' = back
    BY <1>1 DEF FlowInv
  <2>3. back # "upload" => Start' = Start
    BY <1>1 DEF Start, FlowInv, TypeInv, After, IsEnd
  <2> QED BY <2>1, <2>2, <2>3, <1>6, StreamStays
<1> QED BY <1>2, <1>3, <1>4, <1>5, <1>7 DEF IInv

LEMMA LoopDetachedKeeps == ASSUME USBAssumption, IInv, LoopDetached PROVE IInv'
<1> USE DEF LoopDetached, Steps, FlagsKept, PortKept, Goto, ToIdle, rxVars, kernelVars
<1>1. TypeInv /\ FlowInv /\ PortInv /\ ReadInv /\ CountInv(rxbuf, nl_in_rx, wire)
  BY DEF IInv, StreamInv, Stream
<1>2. TypeInv'
  BY <1>1 DEF TypeInv, FlowInv, Pcs
<1>3. FlowInv'
  BY <1>1 DEF FlowInv
<1>4. PortInv'
  BY <1>1 DEF PortInv, FlowInv
<1>5. ReadInv'
  BY <1>1 DEF ReadInv, FlowInv
<1>6. CountInv(rxbuf, nl_in_rx, wire)'
  BY <1>1, LinesEmpty DEF CountInv, PortInv, Pending
<1>7. StreamInv'
  <2>1. UNCHANGED <<rxbuf, last_char_was_cr, flush_to_nl, halt_flag, wire, asked>>
    OBVIOUS
  <2>2. /\ back' = "upload" <=> back = "upload"
        /\ pc' \in {"halted", "flushed"} <=> pc \in {"halted", "flushed"}
        /\ pc' \in {"room", "count"} => pc \in {"room", "count"} /\ char' = char
        /\ pc' \in {"room", "count", "command"} => /\ pc \in {"room", "count", "command"}
                                                    /\ char' = char /\ back' = back
    BY <1>1 DEF FlowInv
  <2>3. back # "upload" => Start' = Start
    BY <1>1 DEF Start, FlowInv, TypeInv, After, IsEnd
  <2> QED BY <2>1, <2>2, <2>3, <1>6, StreamStays
<1> QED BY <1>2, <1>3, <1>4, <1>5, <1>7 DEF IInv

LEMMA CountTextKeeps == ASSUME USBAssumption, IInv, CountText PROVE IInv'
<1> USE DEF CountText, CountKeeps, Uncount, Steps, FlagsKept, PortKept, Goto, ToIdle, rxVars, kernelVars
<1>1. TypeInv /\ FlowInv /\ PortInv /\ ReadInv /\ CountInv(rxbuf, nl_in_rx, wire)
  BY DEF IInv, StreamInv, Stream
<1>0. /\ char.char = "text" /\ char.at \in Nat /\ char.at > 0 /\ char \in RingChars
      /\ received = Numbers(char.at - 1) /\ received \in Seq(Nat)
  BY <1>1 DEF ReadInv, TypeInv, RingChars, IsEnd
<1>8. received' \in Seq(Nat) /\ received' = Numbers(char.at) /\ Len(received') = char.at
  <2>1. Len(received) = char.at - 1 /\ \A i \in 1 .. char.at - 1 : received[i] = i
    BY <1>0 DEF Numbers
  <2>2. received' = Append(received, char.at)
    OBVIOUS
  <2>3. /\ received' \in Seq(Nat) /\ Len(received') = char.at
        /\ \A i \in 1 .. char.at : received'[i] = i
    BY <1>0, <2>1, <2>2
  <2>4. Numbers(char.at) \in Seq(Nat) /\ Len(Numbers(char.at)) = char.at
    BY <1>0 DEF Numbers
  <2>5. \A i \in 1 .. char.at : Numbers(char.at)[i] = i
    BY DEF Numbers
  <2> QED BY <2>3, <2>4, <2>5, SeqEqual
<1>2. TypeInv'
  <2>1. nl_in_rx' \in Nat
    BY <1>1 DEF TypeInv
  <2> QED BY <2>1, <1>1, <1>8 DEF TypeInv, Pcs
<1>3. FlowInv'
  BY <1>1 DEF FlowInv
<1>4. PortInv'
  BY <1>1 DEF PortInv, FlowInv
<1>5. ReadInv'
  <2>1. LinesIn(rxbuf) > 0
    BY <1>1 DEF CountInv
  <2> QED BY <1>1, <1>8, <2>1 DEF ReadInv
<1>6. CountInv(rxbuf, nl_in_rx, wire)'
  BY <1>1 DEF CountInv, FlowInv, Queries, Pending
<1>7. StreamInv'
  <2>1. UNCHANGED <<rxbuf, last_char_was_cr, flush_to_nl, halt_flag, wire, asked>>
    OBVIOUS
  <2>2. /\ back' = "upload" <=> back = "upload"
        /\ pc' \in {"halted", "flushed"} <=> pc \in {"halted", "flushed"}
        /\ pc' \in {"room", "count"} => pc \in {"room", "count"} /\ char' = char
        /\ pc' \in {"room", "count", "command"} => /\ pc \in {"room", "count", "command"}
                                                    /\ char' = char /\ back' = back
    BY <1>1 DEF FlowInv
  <2>3. back # "upload" => Start' = Start
    BY <1>0, <1>8 DEF Start, After
  <2> QED BY <2>1, <2>2, <2>3, <1>6, StreamStays
<1> QED BY <1>2, <1>3, <1>4, <1>5, <1>7 DEF IInv

LEMMA CountLineKeeps == ASSUME USBAssumption, IInv, CountLine PROVE IInv'
<1> USE DEF CountLine, CountKeeps, Uncount, Steps, FlagsKept, PortKept, Goto, ToIdle, rxVars, kernelVars
<1>1. TypeInv /\ FlowInv /\ PortInv /\ ReadInv /\ CountInv(rxbuf, nl_in_rx, wire)
  BY DEF IInv, StreamInv, Stream
<1>2. TypeInv'
  BY <1>1 DEF TypeInv, FlowInv, Pcs
<1>3. FlowInv'
  BY <1>1 DEF FlowInv
<1>4. PortInv'
  BY <1>1 DEF PortInv, FlowInv
<1>5. ReadInv'
  BY <1>1 DEF ReadInv, FlowInv
<1>6. CountInv(rxbuf, nl_in_rx, wire)'
  <2>1. nl_in_rx = LinesIn(rxbuf) + Pending
    BY <1>1 DEF CountInv
  <2>2. LinesIn(rxbuf) \in Nat
    BY <1>1, LinesNat DEF TypeInv
  <2>3. nl_in_rx' = LinesIn(rxbuf) /\ Pending' = 0
    BY <2>1, <2>2 DEF Pending
  <2> QED BY <1>1, <2>2, <2>3 DEF CountInv, FlowInv
<1>7. StreamInv'
  <2>1. UNCHANGED <<rxbuf, last_char_was_cr, flush_to_nl, halt_flag, wire, asked>>
    OBVIOUS
  <2>2. /\ back' = "upload" <=> back = "upload"
        /\ pc' \in {"halted", "flushed"} <=> pc \in {"halted", "flushed"}
        /\ pc' \in {"room", "count"} => pc \in {"room", "count"} /\ char' = char
        /\ pc' \in {"room", "count", "command"} => /\ pc \in {"room", "count", "command"}
                                                    /\ char' = char /\ back' = back
    BY <1>1 DEF FlowInv
  <2>3. back # "upload" => Start' = Start
    BY <1>1 DEF Start, FlowInv, TypeInv, After, IsEnd
  <2> QED BY <2>1, <2>2, <2>3, <1>6, StreamStays
<1> QED BY <1>2, <1>3, <1>4, <1>5, <1>7 DEF IInv

LEMMA UnhaltKeeps == ASSUME USBAssumption, IInv, Unhalt PROVE IInv'
<1> USE DEF Unhalt, Asks, CommandKeeps, Steps, FlagsKept, PortKept, Goto, ToIdle, rxVars, kernelVars
<1>1. TypeInv /\ FlowInv /\ PortInv /\ ReadInv /\ CountInv(rxbuf, nl_in_rx, wire)
  BY DEF IInv, StreamInv, Stream
<1>2. TypeInv'
  <2>1. feed_hold' \in BOOLEAN
    BY <1>1 DEF TypeInv
  <2>2. char' = NoChar /\ received' = <<>> /\ received' \in Seq(Nat)
    OBVIOUS
  <2> QED BY <2>1, <2>2, <1>1 DEF TypeInv, Pcs
<1>3. FlowInv'
  BY <1>1 DEF FlowInv
<1>4. PortInv'
  BY <1>1 DEF PortInv, FlowInv
<1>5. ReadInv'
  BY <1>1 DEF ReadInv, FlowInv
<1>6. CountInv(rxbuf, nl_in_rx, wire)'
  BY <1>1 DEF CountInv, FlowInv, Queries, Pending
<1>7. StreamInv'
  <2>1. UNCHANGED <<rxbuf, last_char_was_cr, flush_to_nl, halt_flag, wire, asked>>
    OBVIOUS
  <2>2. /\ back' = "upload" <=> back = "upload"
        /\ pc' \in {"halted", "flushed"} <=> pc \in {"halted", "flushed"}
        /\ pc' \in {"room", "count"} => pc \in {"room", "count"} /\ char' = char
        /\ pc' \in {"room", "count", "command"} => /\ pc \in {"room", "count", "command"}
                                                    /\ char' = char /\ back' = back
    BY <1>1 DEF FlowInv
  <2>3. back # "upload" => Start' = Start
    BY <1>1 DEF Start, FlowInv, TypeInv, After, IsEnd
  <2> QED BY <2>1, <2>2, <2>3, <1>6, StreamStays
<1> QED BY <1>2, <1>3, <1>4, <1>5, <1>7 DEF IInv

LEMMA MoveKeeps == ASSUME USBAssumption, IInv, Move PROVE IInv'
<1> USE DEF Move, Asks, CommandKeeps, Steps, FlagsKept, PortKept, Goto, ToIdle, rxVars, kernelVars
<1>1. TypeInv /\ FlowInv /\ PortInv /\ ReadInv /\ CountInv(rxbuf, nl_in_rx, wire)
  BY DEF IInv, StreamInv, Stream
<1>2. TypeInv'
  BY <1>1 DEF TypeInv, FlowInv, Pcs
<1>3. FlowInv'
  BY <1>1 DEF FlowInv
<1>4. PortInv'
  BY <1>1 DEF PortInv, FlowInv
<1>5. ReadInv'
  BY <1>1 DEF ReadInv, FlowInv
<1>6. CountInv(rxbuf, nl_in_rx, wire)'
  BY <1>1 DEF CountInv, FlowInv, Queries, Pending
<1>7. StreamInv'
  <2>1. UNCHANGED <<rxbuf, last_char_was_cr, flush_to_nl, halt_flag, wire, asked>>
    OBVIOUS
  <2>2. /\ back' = "upload" <=> back = "upload"
        /\ pc' \in {"halted", "flushed"} <=> pc \in {"halted", "flushed"}
        /\ pc' \in {"room", "count"} => pc \in {"room", "count"} /\ char' = char
        /\ pc' \in {"room", "count", "command"} => /\ pc \in {"room", "count", "command"}
                                                    /\ char' = char /\ back' = back
    BY <1>1 DEF FlowInv
  <2>3. back # "upload" => Start' = Start
    BY <1>1 DEF Start, FlowInv, TypeInv, After, IsEnd
  <2> QED BY <2>1, <2>2, <2>3, <1>6, StreamStays
<1> QED BY <1>2, <1>3, <1>4, <1>5, <1>7 DEF IInv

LEMMA HeldKeeps == ASSUME USBAssumption, IInv, Held PROVE IInv'
<1> USE DEF Held, CommandKeeps, Steps, FlagsKept, PortKept, Goto, ToIdle, rxVars, kernelVars
<1>1. TypeInv /\ FlowInv /\ PortInv /\ ReadInv /\ CountInv(rxbuf, nl_in_rx, wire)
  BY DEF IInv, StreamInv, Stream
<1>2. TypeInv'
  BY <1>1 DEF TypeInv, FlowInv, Pcs
<1>3. FlowInv'
  BY <1>1 DEF FlowInv
<1>4. PortInv'
  BY <1>1 DEF PortInv, FlowInv
<1>5. ReadInv'
  BY <1>1 DEF ReadInv, FlowInv
<1>6. CountInv(rxbuf, nl_in_rx, wire)'
  BY <1>1 DEF CountInv, FlowInv, Queries, Pending
<1>7. StreamInv'
  <2>1. UNCHANGED <<rxbuf, last_char_was_cr, flush_to_nl, halt_flag, wire, asked>>
    OBVIOUS
  <2>2. /\ back' = "upload" <=> back = "upload"
        /\ pc' \in {"halted", "flushed"} <=> pc \in {"halted", "flushed"}
        /\ pc' \in {"room", "count"} => pc \in {"room", "count"} /\ char' = char
        /\ pc' \in {"room", "count", "command"} => /\ pc \in {"room", "count", "command"}
                                                    /\ char' = char /\ back' = back
    BY <1>1 DEF FlowInv
  <2>3. back # "upload" => Start' = Start
    BY <1>1 DEF Start, FlowInv, TypeInv, After, IsEnd
  <2> QED BY <2>1, <2>2, <2>3, <1>6, StreamStays
<1> QED BY <1>2, <1>3, <1>4, <1>5, <1>7 DEF IInv

LEMMA UploadWaitsKeeps == ASSUME USBAssumption, IInv, UploadWaits PROVE IInv'
<1> USE DEF UploadWaits, CommandKeeps, Steps, FlagsKept, PortKept, Goto, ToIdle, rxVars, kernelVars
<1>1. TypeInv /\ FlowInv /\ PortInv /\ ReadInv /\ CountInv(rxbuf, nl_in_rx, wire)
  BY DEF IInv, StreamInv, Stream
<1>2. TypeInv'
  BY <1>1 DEF TypeInv, FlowInv, Pcs
<1>3. FlowInv'
  BY <1>1 DEF FlowInv
<1>4. PortInv'
  BY <1>1 DEF PortInv, FlowInv
<1>5. ReadInv'
  BY <1>1 DEF ReadInv, FlowInv
<1>6. CountInv(rxbuf, nl_in_rx, wire)'
  BY <1>1 DEF CountInv, FlowInv, Queries, Pending
<1>7. StreamInv'
  <2>1. UNCHANGED <<rxbuf, last_char_was_cr, flush_to_nl, halt_flag, wire, asked>>
    OBVIOUS
  <2>2. /\ back' = "upload" <=> back = "upload"
        /\ pc' \in {"halted", "flushed"} <=> pc \in {"halted", "flushed"}
        /\ pc' \in {"room", "count"} => pc \in {"room", "count"} /\ char' = char
        /\ pc' \in {"room", "count", "command"} => /\ pc \in {"room", "count", "command"}
                                                    /\ char' = char /\ back' = back
    BY <1>1 DEF FlowInv
  <2>3. back # "upload" => Start' = Start
    BY <1>1 DEF Start, FlowInv, TypeInv, After, IsEnd
  <2> QED BY <2>1, <2>2, <2>3, <1>6, StreamStays
<1> QED BY <1>2, <1>3, <1>4, <1>5, <1>7 DEF IInv

LEMMA UploadCharKeeps == ASSUME USBAssumption, IInv, UploadChar PROVE IInv'
<1> USE DEF UploadChar, CountKeeps, Uncount, Steps, FlagsKept, PortKept, Goto, ToIdle, rxVars, kernelVars
<1>1. TypeInv /\ FlowInv /\ PortInv /\ ReadInv /\ CountInv(rxbuf, nl_in_rx, wire)
  BY DEF IInv, StreamInv, Stream
<1>2. TypeInv'
  BY <1>1 DEF TypeInv, FlowInv, Pcs
<1>3. FlowInv'
  BY <1>1 DEF FlowInv
<1>4. PortInv'
  BY <1>1 DEF PortInv, FlowInv
<1>5. ReadInv'
  BY <1>1 DEF ReadInv, FlowInv
<1>6. CountInv(rxbuf, nl_in_rx, wire)'
  <2>1. nl_in_rx = LinesIn(rxbuf) + Pending
    BY <1>1 DEF CountInv
  <2>2. LinesIn(rxbuf) \in Nat
    BY <1>1, LinesNat DEF TypeInv
  <2>3. nl_in_rx' = LinesIn(rxbuf) /\ Pending' = 0
    BY <2>1, <2>2 DEF Pending
  <2> QED BY <1>1, <2>2, <2>3 DEF CountInv, FlowInv
<1>7. StreamInv'
  <2>1. UNCHANGED <<rxbuf, last_char_was_cr, flush_to_nl, halt_flag, wire, asked>>
    OBVIOUS
  <2>2. /\ back' = "upload" <=> back = "upload"
        /\ pc' \in {"halted", "flushed"} <=> pc \in {"halted", "flushed"}
        /\ pc' \in {"room", "count"} => pc \in {"room", "count"} /\ char' = char
        /\ pc' \in {"room", "count", "command"} => /\ pc \in {"room", "count", "command"}
                                                    /\ char' = char /\ back' = back
    BY <1>1 DEF FlowInv
  <2>3. back # "upload" => Start' = Start
    BY <1>1 DEF Start, FlowInv, TypeInv, After, IsEnd
  <2> QED BY <2>1, <2>2, <2>3, <1>6, StreamStays
<1> QED BY <1>2, <1>3, <1>4, <1>5, <1>7 DEF IInv

LEMMA IdleNoHaltKeeps == ASSUME USBAssumption, IInv, IdleNoHalt PROVE IInv'
<1> USE DEF IdleNoHalt, IdleKeeps, Steps, FlagsKept, PortKept, Goto, ToIdle, rxVars, kernelVars
<1>1. TypeInv /\ FlowInv /\ PortInv /\ ReadInv /\ CountInv(rxbuf, nl_in_rx, wire)
  BY DEF IInv, StreamInv, Stream
<1>2. TypeInv'
  BY <1>1 DEF TypeInv, FlowInv, Pcs
<1>3. FlowInv'
  BY <1>1 DEF FlowInv
<1>4. PortInv'
  BY <1>1 DEF PortInv, FlowInv
<1>5. ReadInv'
  BY <1>1 DEF ReadInv, FlowInv
<1>6. CountInv(rxbuf, nl_in_rx, wire)'
  BY <1>1 DEF CountInv, FlowInv, Queries, Pending
<1>7. StreamInv'
  <2>1. UNCHANGED <<rxbuf, last_char_was_cr, flush_to_nl, halt_flag, wire, asked>>
    OBVIOUS
  <2>2. /\ back' = "upload" <=> back = "upload"
        /\ pc' \in {"halted", "flushed"} <=> pc \in {"halted", "flushed"}
        /\ pc' \in {"room", "count"} => pc \in {"room", "count"} /\ char' = char
        /\ pc' \in {"room", "count", "command"} => /\ pc \in {"room", "count", "command"}
                                                    /\ char' = char /\ back' = back
    BY <1>1 DEF FlowInv
  <2>3. back # "upload" => Start' = Start
    BY <1>1 DEF Start, FlowInv, TypeInv, After, IsEnd
  <2> QED BY <2>1, <2>2, <2>3, <1>6, StreamStays
<1> QED BY <1>2, <1>3, <1>4, <1>5, <1>7 DEF IInv

LEMMA IdleQueryKeeps == ASSUME USBAssumption, IInv, IdleQuery PROVE IInv'
<1> USE DEF IdleQuery, IdleKeeps, Steps, FlagsKept, PortKept, Goto, ToIdle, rxVars, kernelVars
<1>1. TypeInv /\ FlowInv /\ PortInv /\ ReadInv /\ CountInv(rxbuf, nl_in_rx, wire)
  BY DEF IInv, StreamInv, Stream
<1>2. TypeInv'
  BY <1>1 DEF TypeInv, FlowInv, Pcs
<1>3. FlowInv'
  BY <1>1 DEF FlowInv, TypeInv
<1>4. PortInv'
  BY <1>1 DEF PortInv, FlowInv, TypeInv
<1>5. ReadInv'
  BY <1>1 DEF ReadInv, FlowInv, TypeInv
<1>6. CountInv(rxbuf, nl_in_rx, wire)'
  BY <1>1 DEF CountInv, FlowInv, TypeInv, Queries, Pending
<1>7. StreamInv'
  <2>1. UNCHANGED <<rxbuf, last_char_was_cr, flush_to_nl, halt_flag, wire, asked>>
    OBVIOUS
  <2>2. /\ back' = "upload" <=> back = "upload"
        /\ pc' \in {"halted", "flushed"} <=> pc \in {"halted", "flushed"}
        /\ pc' \in {"room", "count"} => pc \in {"room", "count"} /\ char' = char
        /\ pc' \in {"room", "count", "command"} => /\ pc \in {"room", "count", "command"}
                                                    /\ char' = char /\ back' = back
    BY <1>1 DEF FlowInv, TypeInv
  <2>3. back # "upload" => Start' = Start
    BY <1>1 DEF Start, FlowInv, TypeInv, After, IsEnd
  <2> QED BY <2>1, <2>2, <2>3, <1>6, StreamStays
<1> QED BY <1>2, <1>3, <1>4, <1>5, <1>7 DEF IInv

LEMMA LoopDetachesKeeps == ASSUME USBAssumption, IInv, LoopDetaches PROVE IInv'
<1> USE DEF LoopDetaches, Steps, FlagsKept, PortKept, Goto, kernelVars
<1>1. TypeInv /\ FlowInv /\ PortInv /\ ReadInv
  BY DEF IInv
<1>2. ~port /\ wire = <<>> /\ rxbuf = <<>> /\ rxbuf' = rxbuf /\ Len(wire) = 0
  BY <1>1 DEF PortInv
<1>3. TypeInv'
  BY <1>1, <1>2 DEF TypeInv, Pcs
<1>4. FlowInv' /\ PortInv' /\ ReadInv'
  BY <1>1, <1>2 DEF FlowInv, PortInv, ReadInv
<1>5. CountInv(rxbuf, nl_in_rx, wire)'
  BY <1>2 DEF CountInv, Queries
<1>6. back # "upload" => Start' = Start
  BY DEF Start
<1>7. StreamInv'
  BY <1>2, <1>5, <1>6, StreamStays
<1> QED BY <1>3, <1>4, <1>7 DEF IInv

LEMMA LoopEndsKeeps == ASSUME USBAssumption, IInv, LoopEnds PROVE IInv'
<1> USE DEF LoopEnds, Steps, PortKept, ToIdle, rxVars, kernelVars
<1>1. TypeInv /\ FlowInv /\ PortInv /\ ReadInv /\ CountInv(rxbuf, nl_in_rx, wire)
  BY DEF IInv, StreamInv, Stream
<1>2. pc = "lines" /\ back = "main"
  <2>1. pc = "reading" => LinesIn(rxbuf) > 0 /\ attached
    BY <1>1 DEF CountInv, FlowInv
  <2>2. ~(LinesIn(<<>>) > 0)
    BY LinesEmpty
  <2> QED BY <2>1, <2>2, <1>1 DEF FlowInv
<1>3. TypeInv'
  BY <1>1, <1>2 DEF TypeInv, Pcs
<1>4. FlowInv' /\ PortInv' /\ ReadInv'
  BY <1>1, <1>2 DEF FlowInv, PortInv, ReadInv
<1>5. CountInv(rxbuf, nl_in_rx, wire)'
  BY <1>1, <1>2 DEF CountInv, Pending
<1>6. back # "upload" => Start' = Start
  BY <1>2 DEF Start
<1>7. StreamInv'
  BY <1>2, <1>5, <1>6, StreamStays
<1> QED BY <1>3, <1>4, <1>7 DEF IInv

LEMMA IdleHaltKeeps == ASSUME USBAssumption, IInv, IdleHalt PROVE IInv'
<1> USE DEF IdleHalt, IdleKeeps, Steps, PortKept, Goto
<1>1. TypeInv /\ FlowInv /\ PortInv /\ ReadInv /\ CountInv(rxbuf, nl_in_rx, wire) /\ StopInv(halt_flag, wire)
  BY DEF IInv, StreamInv, Stream
<1>2. TypeInv'
  BY <1>1 DEF TypeInv, Pcs
<1>3. FlowInv' /\ PortInv' /\ ReadInv'
  BY <1>1 DEF FlowInv, PortInv, ReadInv
<1>4. CountInv(rxbuf, nl_in_rx, wire)'
  BY <1>1 DEF CountInv, Pending
<1>5. StopInv(halt_flag, wire)'
  BY <1>1 DEF StopInv, Queries
<1>6. back # "upload" => Start' = Start
  BY DEF Start
<1>7. StreamInv'
  BY <1>4, <1>5, <1>6, StreamMoves
<1> QED BY <1>2, <1>3, <1>7 DEF IInv

LEMMA IdleFlushKeeps == ASSUME USBAssumption, IInv, IdleFlush PROVE IInv'
<1> USE DEF IdleFlush, IdleKeeps, Steps, FlagsKept, PortKept, Goto, kernelVars
<1>1. /\ TypeInv /\ FlowInv /\ PortInv /\ ReadInv /\ CountInv(rxbuf, nl_in_rx, wire) /\ StopInv(halt_flag, wire)
      /\ WireInv(wire) /\ UploadInv(rxbuf, last_char_was_cr, wire)
  BY DEF IInv, StreamInv, Stream
<1>2. asked = "stop" /\ Queries(wire) /\ back # "upload" /\ rxbuf' = <<>>
  BY <1>1 DEF StopInv, FlowInv
<1>3. TypeInv'
  <2>1. rxbuf' \in Seq(RingChars) /\ Len(rxbuf') < BufferSize
    BY DEF USBAssumption, Longest
  <2> QED BY <2>1, <1>1 DEF TypeInv, Pcs
<1>4. FlowInv' /\ PortInv' /\ ReadInv'
  BY <1>1 DEF FlowInv, PortInv, ReadInv
<1>5. Start' = 0 /\ RingEnd(rxbuf)' = 0
  BY DEF Start, RingEnd
<1>6. RingInv(rxbuf, flush_to_nl)' /\ WireInv(wire)' /\ CountInv(rxbuf, nl_in_rx, wire)'
  BY <1>1, <1>2 DEF RingInv, WireInv, CountInv, Queries
<1>7. JoinInv(rxbuf, last_char_was_cr, flush_to_nl, wire)'
  <2>1. wire # <<>> => 1 \in 1 .. Len(wire)
    BY <1>1 DEF TypeInv
  <2>2. wire # <<>> => Follows(0, wire[1])
    BY <2>1, <1>2 DEF Queries, Follows, IsEnd
  <2> QED BY <2>2, <1>5 DEF JoinInv
<1>8. StopInv(halt_flag, wire)' /\ EofInv(rxbuf, wire)'
  BY <1>1, <1>2 DEF StopInv, EofInv, Queries
<1>9. UploadInv(rxbuf, last_char_was_cr, wire)'
  BY <1>1, <1>2 DEF UploadInv, Spent
<1> QED BY <1>3, <1>4, <1>6, <1>7, <1>8, <1>9 DEF IInv, StreamInv, Stream

LEMMA IdleUncountKeeps == ASSUME USBAssumption, IInv, IdleUncount PROVE IInv'
<1> USE DEF IdleUncount, IdleKeeps, Steps, FlagsKept, PortKept, Goto, kernelVars
<1>1. /\ TypeInv /\ FlowInv /\ PortInv /\ ReadInv /\ CountInv(rxbuf, nl_in_rx, wire) /\ StopInv(halt_flag, wire)
      /\ RingInv(rxbuf, flush_to_nl) /\ JoinInv(rxbuf, last_char_was_cr, flush_to_nl, wire)
      /\ WireInv(wire) /\ UploadInv(rxbuf, last_char_was_cr, wire)
  BY DEF IInv, StreamInv, Stream
<1>2. asked = "stop" /\ asked' = "nothing" /\ Queries(wire) /\ back # "upload" /\ rxbuf = <<>> /\ ~halt_flag
  BY <1>1 DEF StopInv, FlowInv, CountInv
<1>3. TypeInv'
  BY <1>1, <1>2 DEF TypeInv, Pcs
<1>4. FlowInv' /\ PortInv' /\ ReadInv'
  BY <1>1, <1>2 DEF FlowInv, PortInv, ReadInv
<1>5. Start' = Start
  BY DEF Start
<1>6. RingInv(rxbuf, flush_to_nl)' /\ JoinInv(rxbuf, last_char_was_cr, flush_to_nl, wire)'
  BY <1>1, <1>2, <1>5 DEF RingInv, JoinInv, RingEnd
<1>7. WireInv(wire)'
  BY <1>1, <1>2 DEF WireInv, Queries
<1>8. CountInv(rxbuf, nl_in_rx, wire)'
  BY <1>2, LinesEmpty DEF CountInv, Pending
<1>9. StopInv(halt_flag, wire)' /\ EofInv(rxbuf, wire)'
  BY <1>1, <1>2 DEF StopInv, EofInv, Queries
<1>10. UploadInv(rxbuf, last_char_was_cr, wire)'
  BY <1>1, <1>2 DEF UploadInv, Spent
<1> QED BY <1>3, <1>4, <1>6, <1>7, <1>8, <1>9, <1>10 DEF IInv, StreamInv, Stream

LEMMA UploadKeeps == ASSUME USBAssumption, IInv, Upload PROVE IInv'
<1> USE DEF Upload, Asks, CommandKeeps, Steps, PortKept, Goto, ToIdle, rxVars, kernelVars
<1>1. /\ TypeInv /\ FlowInv /\ PortInv /\ ReadInv /\ CountInv(rxbuf, nl_in_rx, wire) /\ StopInv(halt_flag, wire)
      /\ RingInv(rxbuf, flush_to_nl) /\ JoinInv(rxbuf, last_char_was_cr, flush_to_nl, wire)
      /\ WireInv(wire) /\ UploadInv(rxbuf, last_char_was_cr, wire) /\ EofInv(rxbuf, wire)
  BY DEF IInv, StreamInv, Stream
<1>2. /\ back = "main" /\ asked = "upload" /\ Spent(last_char_was_cr, wire)
      /\ \A i \in 1 .. Len(rxbuf) : rxbuf[i].does # "upload"
  BY <1>1 DEF FlowInv, UploadInv
<1>3. \/ asked' = "file" /\ back' = "upload" /\ pc' = "upload"
      \/ asked' = "nothing" /\ back' = "main" /\ pc' = "idle"
  OBVIOUS
<1>4. TypeInv'
  <2>1. char' = NoChar /\ received' = <<>> /\ received' \in Seq(Nat)
    OBVIOUS
  <2> QED BY <2>1, <1>1, <1>3 DEF TypeInv, Pcs
<1>5. FlowInv' /\ PortInv' /\ ReadInv'
  BY <1>1, <1>2, <1>3 DEF FlowInv, PortInv, ReadInv
<1>6. Start = 0 /\ Start' = 0 /\ Pending = 0 /\ Pending' = 0
  BY <1>3 DEF Start, Pending
<1>7. RingInv(rxbuf, flush_to_nl)' /\ JoinInv(rxbuf, last_char_was_cr, flush_to_nl, wire)'
  BY <1>1, <1>2, <1>6 DEF RingInv, JoinInv, RingEnd
<1>8. WireInv(wire)'
  BY <1>1, <1>2 DEF WireInv
<1>9. CountInv(rxbuf, nl_in_rx, wire)'
  BY <1>1, <1>3, <1>6 DEF CountInv
<1>10. StopInv(halt_flag, wire)' /\ EofInv(rxbuf, wire)'
  BY <1>1, <1>2, <1>3 DEF StopInv, EofInv
<1>11. UploadInv(rxbuf, last_char_was_cr, wire)'
  BY <1>2, <1>3 DEF UploadInv, Spent
<1> QED BY <1>4, <1>5, <1>7, <1>8, <1>9, <1>10, <1>11 DEF IInv, StreamInv, Stream

LEMMA UploadEndsKeeps == ASSUME USBAssumption, IInv, UploadEnds PROVE IInv'
<1> USE DEF UploadEnds, Uncount, CountKeeps, Steps, FlagsKept, PortKept, ToIdle, kernelVars
<1>1. /\ TypeInv /\ FlowInv /\ PortInv /\ ReadInv /\ CountInv(rxbuf, nl_in_rx, wire) /\ StopInv(halt_flag, wire)
      /\ WireInv(wire) /\ EofInv(rxbuf, wire)
  BY DEF IInv, StreamInv, Stream
<1>2. char.char = "^D" /\ ~IsEnd(char) /\ nl_in_rx' = nl_in_rx
  BY DEF Key, IsEnd
<1>3. asked = "ended" /\ rxbuf = <<>> /\ Queries(wire) /\ rxbuf' = <<>> /\ Len(rxbuf) = 0
  BY <1>1, <1>2 DEF EofInv
<1>4. TypeInv'
  BY <1>1, <1>2 DEF TypeInv, Pcs
<1>5. FlowInv' /\ PortInv' /\ ReadInv'
  BY <1>1 DEF FlowInv, PortInv, ReadInv
<1>6. Start' = 0 /\ RingEnd(rxbuf)' = 0 /\ Pending = 0 /\ Pending' = 0
  BY <1>2, <1>3 DEF Start, RingEnd, Pending
<1>7. JoinInv(rxbuf, last_char_was_cr, flush_to_nl, wire)'
  <2>1. wire # <<>> => 1 \in 1 .. Len(wire)
    BY <1>1 DEF TypeInv
  <2>2. wire # <<>> => Follows(0, wire[1])
    BY <2>1, <1>3 DEF Queries, Follows, IsEnd
  <2> QED BY <2>2, <1>6 DEF JoinInv
<1>8. RingInv(rxbuf, flush_to_nl)' /\ EofInv(rxbuf, wire)'
  BY <1>3 DEF RingInv, EofInv
<1>9. WireInv(wire)'
  BY <1>1, <1>3 DEF WireInv, Queries
<1>10. CountInv(rxbuf, nl_in_rx, wire)'
  BY <1>1, <1>2, <1>3, <1>6 DEF CountInv
<1>11. StopInv(halt_flag, wire)'
  BY <1>1, <1>3 DEF StopInv
<1>12. UploadInv(rxbuf, last_char_was_cr, wire)'
  BY <1>1, <1>3 DEF UploadInv, Spent, WireInv, Queries, IsEnd
<1> QED BY <1>4, <1>5, <1>7, <1>8, <1>9, <1>10, <1>11, <1>12 DEF IInv, StreamInv, Stream

LEMMA MakeRoomKeeps == ASSUME USBAssumption, IInv, MakeRoom PROVE IInv'
<1> USE DEF MakeRoom, Steps, FlagsKept, PortKept, Goto, kernelVars
<1>1. /\ TypeInv /\ FlowInv /\ PortInv /\ ReadInv /\ CountInv(rxbuf, nl_in_rx, wire) /\ StopInv(halt_flag, wire)
      /\ WireInv(wire) /\ UploadInv(rxbuf, last_char_was_cr, wire) /\ EofInv(rxbuf, wire)
  BY DEF IInv, StreamInv, Stream
<1>2. rxbuf' \in Seq(RingChars) /\ Len(rxbuf') < BufferSize /\ flush_to_nl' \in BOOLEAN
  <2>1. /\ rxbuf \in Seq(RingChars) /\ Len(rxbuf) < BufferSize /\ flush_to_nl \in BOOLEAN
        /\ BufferSize \in Nat /\ Longest \in Int /\ Longest > 0
        /\ BufferSize = Longest + PacketSize + 1 /\ PacketSize \in Nat
    BY <1>1 DEF TypeInv, USBAssumption, Longest
  <2>2. <<>> \in Seq(RingChars) /\ Len(<<>>) < BufferSize
    BY <2>1
  <2>3. \/ UNCHANGED <<rxbuf, flush_to_nl>>
        \/ rxbuf' = <<>> /\ flush_to_nl' = TRUE
    OBVIOUS
  <2> QED BY <2>1, <2>2, <2>3
<1>3. TypeInv'
  BY <1>1, <1>2 DEF TypeInv, Pcs
<1>4. FlowInv' /\ ReadInv'
  BY <1>1 DEF FlowInv, ReadInv
<1>5. PortInv'
  BY <1>1 DEF PortInv
<1>6. Start' = Start /\ Pending' = Pending
  BY DEF Start, Pending
<1>7. CASE UNCHANGED <<rxbuf, flush_to_nl>>
  <2>1. CountInv(rxbuf, nl_in_rx, wire)'
    BY <1>1, <1>6, <1>7 DEF CountInv
  <2>2. StreamInv'
    BY <1>6, <1>7, <2>1, StreamStays
  <2> QED BY <2>2, <1>3, <1>4, <1>5 DEF IInv
<1>8. CASE Free(rxbuf) < PacketSize /\ nl_in_rx = 0 /\ rxbuf' = <<>> /\ flush_to_nl' = TRUE
  <2>1. nl_in_rx = LinesIn(rxbuf) + Pending /\ LinesIn(rxbuf) \in Nat /\ Pending \in Nat
    BY <1>1, LinesNat DEF CountInv, TypeInv, Pending
  <2>2. LinesIn(rxbuf) = 0 /\ Pending = 0
    BY <2>1, <1>8
  <2>3. back = "upload"
    BY <2>2, <1>1 DEF CountInv, Pending, FlowInv
  <2>4. RingInv(rxbuf, flush_to_nl)' /\ JoinInv(rxbuf, last_char_was_cr, flush_to_nl, wire)' /\ WireInv(wire)'
    BY <1>1, <1>8 DEF RingInv, JoinInv, WireInv
  <2>5. CountInv(rxbuf, nl_in_rx, wire)'
    BY <2>2, <2>3, <1>6, <1>8, LinesEmpty DEF CountInv
  <2>6. StopInv(halt_flag, wire)' /\ EofInv(rxbuf, wire)'
    BY <1>1, <1>8 DEF StopInv, EofInv, Queries
  <2>7. UploadInv(rxbuf, last_char_was_cr, wire)'
    BY <2>3, <1>1, <1>8 DEF UploadInv, Spent
  <2> QED BY <2>4, <2>5, <2>6, <2>7, <1>3, <1>4, <1>5 DEF IInv, StreamInv, Stream
<1> QED BY <1>7, <1>8

LEMMA NoNumbers == Numbers(0) = <<>>
BY DEF Numbers

LEMMA TakeKeeps == ASSUME USBAssumption, IInv, Take PROVE IInv'
<1> USE DEF Take, Steps, FlagsKept, PortKept, Goto, kernelVars
<1> DEFINE n == Len(rxbuf)
           t == Tail(rxbuf)
           c == rxbuf[1]
<1>1. /\ TypeInv /\ FlowInv /\ PortInv /\ ReadInv /\ CountInv(rxbuf, nl_in_rx, wire) /\ StopInv(halt_flag, wire)
      /\ RingInv(rxbuf, flush_to_nl) /\ JoinInv(rxbuf, last_char_was_cr, flush_to_nl, wire)
      /\ WireInv(wire) /\ UploadInv(rxbuf, last_char_was_cr, wire) /\ EofInv(rxbuf, wire)
  BY DEF IInv, StreamInv, Stream
<1>2. /\ n \in Nat /\ n > 0 /\ n < BufferSize /\ BufferSize \in Nat
      /\ t \in Seq(RingChars) /\ Len(t) = n - 1 /\ \A i \in 1 .. n - 1 : t[i] = rxbuf[i + 1]
      /\ \A i \in 1 .. n : rxbuf[i] \in RingChars
      /\ c \in RingChars /\ char' = c /\ rxbuf' = t /\ Head(rxbuf) = c
  BY <1>1 DEF TypeInv, USBAssumption
<1>3. t = <<>> <=> n = 1
  <2>1. t = <<>> <=> Len(t) = 0
    BY <1>2, EmptyIs
  <2> HIDE DEF t, n
  <2> QED BY <2>1, <1>2
<1>4. LinesIn(rxbuf) = LinesIn(t) + Count1(c) /\ LinesIn(t) \in Nat /\ LinesIn(rxbuf) \in Nat
  <2>1. LinesIn(rxbuf) = LinesIn(t) + Count1(Head(rxbuf))
    BY <1>1, LinesTail DEF TypeInv
  <2> QED BY <2>1, <1>1, <1>2, LinesNat DEF TypeInv
<1> HIDE DEF t, c
<1>5. ~flush_to_nl /\ back \in {"main", "upload"} /\ pc \notin {"room", "count"} /\ Pending = 0
  BY <1>1 DEF RingInv, FlowInv, Pending
<1>6. Start' = After(c) /\ Pending' = Count1(c)
  BY <1>2 DEF Start, Pending, Count1
<1>7. TypeInv'
  <2>1. Len(rxbuf') < BufferSize
    BY <1>2
  <2> QED BY <2>1, <1>1, <1>2 DEF TypeInv, Pcs
<1>8. FlowInv' /\ PortInv'
  BY <1>1 DEF FlowInv, PortInv
<1>9. back = "main" => /\ Follows(Start, c) /\ Start \in Nat /\ received = Numbers(Start)
                       /\ c.char \in {"text", "\n", "\r"}
  <2> SUFFICES ASSUME back = "main" PROVE /\ Follows(Start, c) /\ Start \in Nat /\ received = Numbers(Start)
                                          /\ c.char \in {"text", "\n", "\r"}
    OBVIOUS
  <2>1. Follows(Start, c)
    BY <1>1 DEF RingInv, c
  <2>2. c.char # "^D"
    <3>1. 1 \in 1 .. Len(rxbuf)
      BY <1>2
    <3> QED BY <3>1, <1>1 DEF EofInv, FlowInv, c
  <2>3. c.char \in {"text", "\n", "\r"}
    BY <2>2, <1>2 DEF RingChars
  <2>4. CASE pc = "lines"
    BY <2>1, <2>3, <2>4, <1>1, NoNumbers DEF Start, FlowInv
  <2>5. CASE pc = "reading"
    BY <2>1, <2>3, <2>5, <1>1 DEF Start, ReadInv, TypeInv
  <2> QED BY <2>1, <2>3, <2>4, <2>5, <1>1 DEF FlowInv
<1>10. ReadInv'
  <2>1. c.at \in Nat
    BY <1>2 DEF RingChars
  <2>2. ASSUME back = "main", c.char = "text" PROVE c.at > 0 /\ received = Numbers(c.at - 1)
    <3>1. c.at = Start + 1 /\ Start \in Nat /\ received = Numbers(Start)
      BY <2>2, <1>9 DEF Follows
    <3> QED BY <3>1
  <2>3. ASSUME back = "main", IsEnd(c) PROVE received = Numbers(c.at)
    BY <2>3, <1>9 DEF Follows
  <2> QED BY <2>2, <2>3, <1>2, <1>9 DEF ReadInv
<1>11. RingInv(rxbuf, flush_to_nl)'
  <2>1. ASSUME NEW i \in 2 .. Len(t) PROVE Follows(After(t[i - 1]), t[i])
    <3>1. i + 1 \in 2 .. n /\ t[i] = rxbuf[i + 1] /\ t[i - 1] = rxbuf[i] /\ i + 1 - 1 = i
      BY <1>2
    <3> QED BY <3>1, <1>1 DEF RingInv
  <2>2. ASSUME t # <<>> PROVE Follows(After(c), t[1])
    <3>1. 2 \in 2 .. n /\ t[1] = rxbuf[2] /\ 2 - 1 = 1
      BY <2>2, <1>2, <1>3
    <3> QED BY <3>1, <1>1 DEF RingInv, c
  <2> QED BY <2>1, <2>2, <1>2, <1>5, <1>6 DEF RingInv
<1>12. JoinInv(rxbuf, last_char_was_cr, flush_to_nl, wire)'
  <2>1. RingEnd(rxbuf)' = RingEnd(rxbuf)
    <3>1. CASE n = 1
      BY <3>1, <1>2, <1>3, <1>6 DEF RingEnd, c
    <3>2. CASE n # 1
      <4>1. n - 1 \in 1 .. n - 1 /\ n - 1 + 1 = n
        <5> HIDE DEF n
        <5> QED BY <3>2, <1>2
      <4>2. t[Len(t)] = rxbuf[n]
        BY <4>1, <1>2
      <4> QED BY <4>2, <3>2, <1>2, <1>3 DEF RingEnd
    <3> QED BY <3>1, <3>2
  <2>2. rxbuf # <<>>
    OBVIOUS
  <2> QED BY <2>1, <2>2, <1>1, <1>5 DEF JoinInv
<1>13. CountInv(rxbuf, nl_in_rx, wire)'
  <2>1. nl_in_rx = LinesIn(rxbuf)
    BY <1>1, <1>4, <1>5 DEF CountInv
  <2>2. back = "main" => LinesIn(rxbuf) > 0
    BY <2>1, <1>1 DEF CountInv, FlowInv
  <2>3. back = "main" /\ ~IsEnd(c) => LinesIn(t) > 0
    BY <2>2, <1>4 DEF Count1
  <2> QED BY <2>1, <2>3, <1>2, <1>4, <1>6 DEF CountInv
<1>14. StopInv(halt_flag, wire)' /\ WireInv(wire)'
  BY <1>1 DEF StopInv, WireInv, Queries
<1>15. EofInv(rxbuf, wire)'
  <2>1. ASSUME NEW i \in 1 .. Len(t), t[i].char = "^D" PROVE asked = "ended" /\ i = Len(t) /\ Queries(wire)
    <3>1. i + 1 \in 1 .. n /\ t[i] = rxbuf[i + 1]
      BY <1>2
    <3>2. asked = "ended" /\ i + 1 = n /\ Queries(wire)
      BY <3>1, <2>1, <1>1 DEF EofInv
    <3> QED BY <3>2, <1>2
  <2>2. ASSUME c.char = "^D" PROVE asked = "ended" /\ t = <<>> /\ Queries(wire)
    <3>1. 1 \in 1 .. n
      BY <1>2
    <3>2. asked = "ended" /\ 1 = n /\ Queries(wire)
      BY <3>1, <2>2, <1>1 DEF EofInv, c
    <3> QED BY <3>2, <1>3
  <2> QED BY <2>1, <2>2, <1>2 DEF EofInv, Queries
<1>16. UploadInv(rxbuf, last_char_was_cr, wire)'
  <2>1. ASSUME NEW i \in 1 .. Len(t), t[i].does = "upload", back # "upload"
        PROVE  /\ asked = "upload" /\ Spent(last_char_was_cr, wire)
               /\ \A j \in 1 .. Len(t) : t[j].does = "upload" => j = i
    <3>1. i + 1 \in 1 .. n /\ t[i] = rxbuf[i + 1]
      BY <1>2
    <3>2. /\ asked = "upload" /\ Spent(last_char_was_cr, wire)
          /\ \A j \in 1 .. n : rxbuf[j].does = "upload" => j = i + 1
      BY <3>1, <2>1, <1>1 DEF UploadInv
    <3>3. ASSUME NEW j \in 1 .. Len(t), t[j].does = "upload" PROVE j = i
      <4>1. j + 1 \in 1 .. n /\ t[j] = rxbuf[j + 1]
        BY <1>2
      <4>2. j + 1 = i + 1
        BY <4>1, <3>2, <3>3
      <4> QED BY <4>2
    <3> QED BY <3>2, <3>3
  <2>2. ASSUME back = "main", c.does = "upload"
        PROVE  /\ asked = "upload" /\ Spent(last_char_was_cr, wire)
               /\ \A i \in 1 .. Len(t) : t[i].does # "upload"
    <3>1. 1 \in 1 .. n
      BY <1>2
    <3>2. /\ asked = "upload" /\ Spent(last_char_was_cr, wire)
          /\ \A j \in 1 .. n : rxbuf[j].does = "upload" => j = 1
      BY <3>1, <2>2, <1>1 DEF UploadInv, c
    <3>3. ASSUME NEW i \in 1 .. Len(t) PROVE t[i].does # "upload"
      <4>1. i + 1 \in 1 .. n /\ t[i] = rxbuf[i + 1] /\ i + 1 # 1
        BY <1>2
      <4> QED BY <4>1, <3>2
    <3> QED BY <3>2, <3>3
  <2>3. asked # "upload" => Spent(last_char_was_cr, wire)
    BY <1>1 DEF UploadInv
  <2>4. /\ asked' = asked /\ back' = back
        /\ Spent(last_char_was_cr', wire') <=> Spent(last_char_was_cr, wire)
    BY DEF Spent
  <2> QED BY <2>1, <2>2, <2>3, <2>4, <1>2 DEF UploadInv, Spent
<1> QED BY <1>7, <1>8, <1>10, <1>11, <1>12, <1>13, <1>14, <1>15, <1>16 DEF IInv, StreamInv, Stream

-----------------------------------------------------------------------------
(* The host *)

\* What the host writes at once: it follows a whole line, and ends as one does.
Whole(l) ==
  /\ l \in Seq(WireChars) /\ l # <<>>
  /\ \A i \in 2 .. Len(l) : Joined(l[i - 1], l[i])
  /\ Follows(0, l[1]) /\ After(l[Len(l)]) = 0

LEMMA EndIs ==
  ASSUME NEW k \in Nat, NEW command \in Does, NEW e \in {<<"\n">>, <<"\r">>, <<"\r", "\n">>},
         NEW j \in 1 .. Len(e)
  PROVE  LET c == End(e[j], k, command) IN
         c \in WireChars /\ c.char = e[j] /\ c.char \in {"\n", "\r"} /\ c.at = k /\ c.does = command
BY DEF End, WireChars

LEMMA EndingIs ==
  ASSUME NEW e \in {<<"\n">>, <<"\r">>, <<"\r", "\n">>}
  PROVE  /\ Len(e) \in {1, 2} /\ \A j \in 1 .. Len(e) : e[j] \in {"\n", "\r"}
         /\ Len(e) = 2 => e[1] = "\r" /\ e[2] = "\n"
OBVIOUS

LEMMA ConcatIs ==
  ASSUME NEW S, NEW s \in Seq(S), NEW t \in Seq(S)
  PROVE  /\ s \o t \in Seq(S) /\ Len(s \o t) = Len(s) + Len(t)
         /\ \A i \in 1 .. Len(s) : (s \o t)[i] = s[i]
         /\ \A j \in 1 .. Len(t) : (s \o t)[Len(s) + j] = t[j]
<1>1. Len(s) \in Nat /\ Len(t) \in Nat
  OBVIOUS
<1>2. s \o t \in Seq(S) /\ Len(s \o t) = Len(s) + Len(t)
  BY ConcatProperties
<1>3. ASSUME NEW i \in 1 .. Len(s) + Len(t)
      PROVE  (s \o t)[i] = IF i <= Len(s) THEN s[i] ELSE t[i - Len(s)]
  BY ConcatProperties
<1>4. ASSUME NEW i \in 1 .. Len(s) PROVE (s \o t)[i] = s[i]
  <2>1. i \in 1 .. Len(s) + Len(t) /\ i <= Len(s)
    BY <1>1
  <2> QED BY <2>1, <1>3
<1>5. ASSUME NEW j \in 1 .. Len(t) PROVE (s \o t)[Len(s) + j] = t[j]
  <2>1. Len(s) + j \in 1 .. Len(s) + Len(t) /\ ~(Len(s) + j <= Len(s)) /\ Len(s) + j - Len(s) = j
    BY <1>1
  <2> QED BY <2>1, <1>3
<1> QED BY <1>2, <1>4, <1>5

LEMMA LineIs ==
  ASSUME NEW k \in Nat, NEW command \in Does, NEW e \in {<<"\n">>, <<"\r">>, <<"\r", "\n">>}
  PROVE  LET l == Line(k, command, e) IN
         /\ l \in Seq(WireChars) /\ Len(l) = k + Len(e)
         /\ \A i \in 1 .. k : l[i] = Text(i)
         /\ \A j \in 1 .. Len(e) : l[k + j] = End(e[j], k, command)
<1> DEFINE a == [i \in 1 .. k |-> Text(i)]
           b == [i \in 1 .. Len(e) |-> End(e[i], k, command)]
<1>1. Len(e) \in Nat
  OBVIOUS
<1>2. a \in Seq(WireChars) /\ Len(a) = k
  <2>1. \A i \in 1 .. k : Text(i) \in WireChars
    BY DEF Text, WireChars, Does
  <2> QED BY <2>1
<1>3. b \in Seq(WireChars) /\ Len(b) = Len(e)
  <2>1. \A j \in 1 .. Len(e) : End(e[j], k, command) \in WireChars
    BY EndIs
  <2> QED BY <2>1, <1>1
<1>4. \A i \in 1 .. k : a[i] = Text(i)
  OBVIOUS
<1>5. \A j \in 1 .. Len(e) : b[j] = End(e[j], k, command)
  OBVIOUS
<1>6. Line(k, command, e) = a \o b
  BY DEF Line
<1> HIDE DEF a, b
<1>7. /\ a \o b \in Seq(WireChars) /\ Len(a \o b) = k + Len(e)
      /\ \A i \in 1 .. k : (a \o b)[i] = a[i]
      /\ \A j \in 1 .. Len(e) : (a \o b)[k + j] = b[j]
  <2>1. /\ a \o b \in Seq(WireChars) /\ Len(a \o b) = Len(a) + Len(b)
        /\ \A i \in 1 .. Len(a) : (a \o b)[i] = a[i]
        /\ \A j \in 1 .. Len(b) : (a \o b)[Len(a) + j] = b[j]
    <3>1. a \in Seq(WireChars) /\ b \in Seq(WireChars)
      BY <1>2, <1>3
    <3> QED BY ONLY <3>1, ConcatIs
  <2> QED BY <2>1, <1>2, <1>3
<1> QED BY <1>4, <1>5, <1>6, <1>7

LEMMA CorrectedIs ==
  ASSUME NEW k \in Nat, NEW command \in Does, NEW e \in {<<"\n">>, <<"\r">>, <<"\r", "\n">>}
  PROVE  LET l == Corrected(k, command, e) IN
         /\ l \in Seq(WireChars) /\ Len(l) = k + 2 + Len(e)
         /\ \A i \in 1 .. k + 1 : l[i] = Text(i)
         /\ l[k + 2] = Erase(k)
         /\ \A j \in 1 .. Len(e) : l[k + 2 + j] = End(e[j], k, command)
<1> DEFINE a == [i \in 1 .. k + 1 |-> Text(i)]
           m == <<Erase(k)>>
           b == [i \in 1 .. Len(e) |-> End(e[i], k, command)]
<1>1. Len(e) \in Nat
  OBVIOUS
<1>2. a \in Seq(WireChars) /\ Len(a) = k + 1
  <2>1. \A i \in 1 .. k + 1 : Text(i) \in WireChars
    BY DEF Text, WireChars, Does
  <2> QED BY <2>1
<1>3. b \in Seq(WireChars) /\ Len(b) = Len(e)
  <2>1. \A j \in 1 .. Len(e) : End(e[j], k, command) \in WireChars
    BY EndIs
  <2> QED BY <2>1, <1>1
<1>4. \A i \in 1 .. k + 1 : a[i] = Text(i)
  OBVIOUS
<1>5. \A j \in 1 .. Len(e) : b[j] = End(e[j], k, command)
  OBVIOUS
<1>6. Erase(k) \in WireChars
  BY DEF Erase, WireChars, Does
<1>7. m \in Seq(WireChars) /\ Len(m) = 1 /\ m[1] = Erase(k)
  BY <1>6
<1>8. Corrected(k, command, e) = (a \o m) \o b
  BY DEF Corrected
<1> HIDE DEF a, b, m
<1> DEFINE q == a \o m
<1>9. /\ q \in Seq(WireChars) /\ Len(q) = k + 1 + 1
      /\ \A i \in 1 .. k + 1 : q[i] = a[i]
      /\ \A j \in 1 .. 1 : q[k + 1 + j] = m[j]
  <2>1. /\ a \o m \in Seq(WireChars) /\ Len(a \o m) = Len(a) + Len(m)
        /\ \A i \in 1 .. Len(a) : (a \o m)[i] = a[i]
        /\ \A j \in 1 .. Len(m) : (a \o m)[Len(a) + j] = m[j]
    <3>1. a \in Seq(WireChars) /\ m \in Seq(WireChars)
      BY <1>2, <1>7
    <3> QED BY ONLY <3>1, ConcatIs
  <2> QED BY <2>1, <1>2, <1>7
<1>10. /\ q \in Seq(WireChars) /\ Len(q) = k + 2 /\ q[k + 2] = Erase(k)
       /\ \A i \in 1 .. k + 1 : q[i] = Text(i)
  <2>1. k + 1 + 1 = k + 2
    OBVIOUS
  <2>2. q[k + 1 + 1] = m[1]
    BY <1>9
  <2> QED BY <2>1, <2>2, <1>4, <1>7, <1>9
<1> HIDE DEF q
<1>11. /\ q \o b \in Seq(WireChars) /\ Len(q \o b) = k + 2 + Len(e)
       /\ \A i \in 1 .. k + 2 : (q \o b)[i] = q[i]
       /\ \A j \in 1 .. Len(e) : (q \o b)[k + 2 + j] = b[j]
  BY <1>3, <1>10, ConcatIs
<1>12. \A i \in 1 .. k + 1 : (q \o b)[i] = Text(i)
  <2>1. \A i \in 1 .. k + 1 : i \in 1 .. k + 2
    OBVIOUS
  <2> QED BY <2>1, <1>10, <1>11
<1>13. (q \o b)[k + 2] = Erase(k)
  <2>1. k + 2 \in 1 .. k + 2
    OBVIOUS
  <2> QED BY <2>1, <1>10, <1>11
<1> QED BY <1>5, <1>8, <1>11, <1>12, <1>13 DEF q

\* A line, as it is written and as it is corrected, is whole.
LEMMA LineIsWhole ==
  ASSUME NEW k \in Nat, NEW command \in Does, NEW e \in {<<"\n">>, <<"\r">>, <<"\r", "\n">>}
  PROVE  /\ Whole(Line(k, command, e))
         /\ \A i \in 1 .. Len(Line(k, command, e)) :
              /\ Line(k, command, e)[i].char \notin {"^D", "^X"}
              /\ Line(k, command, e)[i].does \in {"nothing", command}
              /\ Line(k, command, e)[i].does # "nothing" => i > k /\ IsEnd(Line(k, command, e)[i])
<1> DEFINE l == Line(k, command, e)
<1>1. /\ l \in Seq(WireChars) /\ Len(l) = k + Len(e)
      /\ \A i \in 1 .. k : l[i] = Text(i)
      /\ \A j \in 1 .. Len(e) : l[k + j] = End(e[j], k, command)
  BY LineIs
<1> HIDE DEF l
<1>2. /\ Len(e) \in {1, 2} /\ \A j \in 1 .. Len(e) : e[j] \in {"\n", "\r"}
      /\ Len(e) = 2 => e[1] = "\r" /\ e[2] = "\n"
  BY EndingIs
<1>3. /\ \A i \in 1 .. k : l[i].char = "text" /\ l[i].at = i /\ l[i].does = "nothing"
      /\ \A j \in 1 .. Len(e) : l[k + j].char = e[j] /\ l[k + j].at = k /\ l[k + j].does = command
  <2>1. ASSUME NEW i \in 1 .. k PROVE l[i].char = "text" /\ l[i].at = i /\ l[i].does = "nothing"
    <3>1. l[i] = Text(i)
      BY <1>1
    <3> QED BY <3>1 DEF Text
  <2>2. ASSUME NEW j \in 1 .. Len(e)
        PROVE  l[k + j].char = e[j] /\ l[k + j].at = k /\ l[k + j].does = command
    <3>1. l[k + j] = End(e[j], k, command)
      BY <1>1
    <3> QED BY <3>1 DEF End
  <2> QED BY <2>1, <2>2
<1>4. \A i \in 1 .. Len(l) : i \in 1 .. k \/ (i = k + 1 /\ 1 \in 1 .. Len(e)) \/ (i = k + 2 /\ Len(e) = 2)
  BY <1>1, <1>2
<1>5. ASSUME NEW i \in 2 .. Len(l) PROVE Joined(l[i - 1], l[i])
  <2>1. CASE i \in 1 .. k
    <3>1. i - 1 \in 1 .. k /\ i = i - 1 + 1
      BY <2>1
    <3> QED BY <3>1, <2>1, <1>3 DEF Joined, Follows, After, IsEnd
  <2>2. CASE i = k + 1
    <3>1. k \in 1 .. k /\ i - 1 = k /\ 1 \in 1 .. Len(e)
      BY <2>2, <1>2
    <3>2. l[i].char \in {"\n", "\r"} /\ l[i].at = k /\ l[i - 1].char = "text" /\ l[i - 1].at = k
      BY <3>1, <2>2, <1>2, <1>3
    <3> QED BY <3>2 DEF Joined, Follows, After, IsEnd
  <2>3. CASE i = k + 2 /\ Len(e) = 2
    <3>1. i - 1 = k + 1 /\ 1 \in 1 .. Len(e) /\ 2 \in 1 .. Len(e)
      BY <2>3
    <3> QED BY <3>1, <2>3, <1>2, <1>3 DEF Joined
  <2> QED BY <2>1, <2>2, <2>3, <1>4
<1>6. Follows(0, l[1])
  <2>1. CASE k = 0
    <3>1. 1 \in 1 .. Len(e) /\ k + 1 = 1
      BY <2>1, <1>2
    <3>2. l[1].char \in {"\n", "\r"} /\ l[1].at = 0
      BY <3>1, <2>1, <1>2, <1>3
    <3> QED BY <3>2 DEF Follows, IsEnd
  <2>2. CASE k # 0
    <3>1. 1 \in 1 .. k
      BY <2>2
    <3> QED BY <3>1, <1>3 DEF Follows, IsEnd
  <2> QED BY <2>1, <2>2
<1>7. After(l[Len(l)]) = 0
  <2>1. Len(e) \in 1 .. Len(e)
    BY <1>2
  <2>2. l[Len(l)].char \in {"\n", "\r"}
    BY <2>1, <1>1, <1>2, <1>3
  <2> QED BY <2>2 DEF After
<1>8. ASSUME NEW i \in 1 .. Len(l)
      PROVE  /\ l[i].char \notin {"^D", "^X"} /\ l[i].does \in {"nothing", command}
             /\ l[i].does # "nothing" => i > k /\ IsEnd(l[i])
  <2>1. CASE i \in 1 .. k
    BY <2>1, <1>3
  <2>2. CASE i = k + 1 \/ (i = k + 2 /\ Len(e) = 2)
    <3>1. PICK j \in 1 .. Len(e) : i = k + j
      <4>1. CASE i = k + 1
        <5>1. 1 \in 1 .. Len(e)
          BY <1>2
        <5> QED BY <5>1, <4>1
      <4>2. CASE i = k + 2 /\ Len(e) = 2
        <5>1. 2 \in 1 .. Len(e)
          BY <4>2
        <5> QED BY <5>1, <4>2
      <4> QED BY <2>2, <4>1, <4>2
    <3> QED BY <3>1, <1>2, <1>3 DEF IsEnd
  <2> QED BY <2>1, <2>2, <1>4
<1>9. l # <<>>
  BY <1>1, <1>2
<1> QED BY <1>1, <1>5, <1>6, <1>7, <1>8, <1>9 DEF Whole, l

LEMMA CorrectedIsWhole ==
  ASSUME NEW k \in Nat, NEW command \in Does, NEW e \in {<<"\n">>, <<"\r">>, <<"\r", "\n">>}
  PROVE  /\ Whole(Corrected(k, command, e))
         /\ \A i \in 1 .. Len(Corrected(k, command, e)) :
              /\ Corrected(k, command, e)[i].char \notin {"^D", "^X"}
              /\ Corrected(k, command, e)[i].does \in {"nothing", command}
<1> DEFINE l == Corrected(k, command, e)
<1>1. /\ l \in Seq(WireChars) /\ Len(l) = k + 2 + Len(e)
      /\ \A i \in 1 .. k + 1 : l[i] = Text(i)
      /\ l[k + 2] = Erase(k)
      /\ \A j \in 1 .. Len(e) : l[k + 2 + j] = End(e[j], k, command)
  BY CorrectedIs
<1> HIDE DEF l
<1>2. /\ Len(e) \in {1, 2} /\ \A j \in 1 .. Len(e) : e[j] \in {"\n", "\r"}
      /\ Len(e) = 2 => e[1] = "\r" /\ e[2] = "\n"
  BY EndingIs
<1>3. /\ \A i \in 1 .. k + 1 : l[i].char = "text" /\ l[i].at = i /\ l[i].does = "nothing"
      /\ l[k + 2].char = "erase" /\ l[k + 2].at = k /\ l[k + 2].does = "nothing"
      /\ \A j \in 1 .. Len(e) : /\ l[k + 2 + j].char = e[j] /\ l[k + 2 + j].at = k
                                /\ l[k + 2 + j].does = command
  <2>1. ASSUME NEW i \in 1 .. k + 1
        PROVE  l[i].char = "text" /\ l[i].at = i /\ l[i].does = "nothing"
    <3>1. l[i] = Text(i)
      BY <1>1
    <3> QED BY <3>1 DEF Text
  <2>2. ASSUME NEW j \in 1 .. Len(e)
        PROVE  l[k + 2 + j].char = e[j] /\ l[k + 2 + j].at = k /\ l[k + 2 + j].does = command
    <3>1. l[k + 2 + j] = End(e[j], k, command)
      BY <1>1
    <3> QED BY <3>1 DEF End
  <2>3. l[k + 2].char = "erase" /\ l[k + 2].at = k /\ l[k + 2].does = "nothing"
    BY <1>1 DEF Erase
  <2> QED BY <2>1, <2>2, <2>3
<1>4. \A i \in 1 .. Len(l) : \/ i \in 1 .. k + 1 \/ i = k + 2
                             \/ i = k + 3 \/ (i = k + 4 /\ Len(e) = 2)
  BY <1>1, <1>2
<1>5. ASSUME NEW i \in 2 .. Len(l) PROVE Joined(l[i - 1], l[i])
  <2>1. CASE i \in 1 .. k + 1
    <3>1. i - 1 \in 1 .. k + 1 /\ i = i - 1 + 1
      BY <2>1
    <3> QED BY <3>1, <2>1, <1>3 DEF Joined, Follows, After, IsEnd
  <2>2. CASE i = k + 2
    <3>1. k + 1 \in 1 .. k + 1 /\ i - 1 = k + 1
      BY <2>2
    <3>2. l[i].char = "erase" /\ l[i].at = k /\ l[i - 1].char = "text" /\ l[i - 1].at = k + 1
      BY <3>1, <2>2, <1>3
    <3> QED BY <3>2 DEF Joined, Follows, After, IsEnd
  <2>3. CASE i = k + 3
    <3>1. i - 1 = k + 2 /\ 1 \in 1 .. Len(e) /\ k + 3 = k + 2 + 1
      BY <2>3, <1>2
    <3>2. l[i].char \in {"\n", "\r"} /\ l[i].at = k /\ l[i - 1].char = "erase" /\ l[i - 1].at = k
      BY <3>1, <2>3, <1>2, <1>3
    <3> QED BY <3>2 DEF Joined, Follows, After, IsEnd
  <2>4. CASE i = k + 4 /\ Len(e) = 2
    <3>1. i - 1 = k + 2 + 1 /\ i = k + 2 + 2 /\ 1 \in 1 .. Len(e) /\ 2 \in 1 .. Len(e)
      BY <2>4
    <3>2. l[i - 1].char = "\r" /\ l[i].char = "\n"
      BY <3>1, <2>4, <1>2, <1>3
    <3> QED BY <3>2 DEF Joined
  <2> QED BY <2>1, <2>2, <2>3, <2>4, <1>4
<1>6. Follows(0, l[1])
  <2>1. 1 \in 1 .. k + 1
    OBVIOUS
  <2> QED BY <2>1, <1>3 DEF Follows, IsEnd
<1>7. After(l[Len(l)]) = 0
  <2>1. Len(e) \in 1 .. Len(e)
    BY <1>2
  <2>2. l[Len(l)].char \in {"\n", "\r"}
    BY <2>1, <1>1, <1>2, <1>3
  <2> QED BY <2>2 DEF After
<1>8. ASSUME NEW i \in 1 .. Len(l)
      PROVE  l[i].char \notin {"^D", "^X"} /\ l[i].does \in {"nothing", command}
  <2>1. CASE i \in 1 .. k + 1
    BY <2>1, <1>3
  <2>2. CASE i = k + 2
    BY <2>2, <1>3
  <2>3. CASE i = k + 3 \/ (i = k + 4 /\ Len(e) = 2)
    <3>1. PICK j \in 1 .. Len(e) : i = k + 2 + j
      <4>1. CASE i = k + 3
        <5>1. 1 \in 1 .. Len(e)
          BY <1>2
        <5>2. i = k + 2 + 1
          BY ONLY <4>1, k \in Nat
        <5> QED BY <5>1, <5>2
      <4>2. CASE i = k + 4 /\ Len(e) = 2
        <5>1. 2 \in 1 .. Len(e)
          BY <4>2
        <5>2. i = k + 2 + 2
          BY ONLY <4>2, k \in Nat
        <5> QED BY <5>1, <5>2
      <4> QED BY <2>3, <4>1, <4>2
    <3> QED BY <3>1, <1>2, <1>3
  <2> QED BY <2>1, <2>2, <2>3, <1>4
<1>9. l # <<>>
  BY <1>1, <1>2
<1> QED BY <1>1, <1>5, <1>6, <1>7, <1>8, <1>9 DEF Whole, l

\* What is under way when a host that has waited writes something whole.
LEMMA WireGrows ==
  ASSUME NEW w \in Seq(WireChars), WireInv(w), NEW l, Whole(l)
  PROVE  LET v == w \o l IN
         /\ v \in Seq(WireChars) /\ v # <<>> /\ Len(v) = Len(w) + Len(l)
         /\ \A i \in 1 .. Len(w) : v[i] = w[i]
         /\ \A j \in 1 .. Len(l) : v[Len(w) + j] = l[j]
         /\ \A i \in 1 .. Len(v) : i \in 1 .. Len(w) \/ \E j \in 1 .. Len(l) : i = Len(w) + j
         /\ \A i \in 2 .. Len(v) : Joined(v[i - 1], v[i])
         /\ After(v[Len(v)]) = 0
         /\ \A rx, cr, flush : JoinInv(rx, cr, flush, w) => JoinInv(rx, cr, flush, v)
<1> DEFINE v == w \o l
           m == Len(w)
           n == Len(l)
<1>1. l \in Seq(WireChars) /\ m \in Nat /\ n \in Nat /\ n > 0
  BY DEF Whole
<1>2. /\ v \in Seq(WireChars) /\ Len(v) = m + n
      /\ \A i \in 1 .. m : v[i] = w[i]
      /\ \A j \in 1 .. n : v[m + j] = l[j]
  BY ONLY <1>1, ConcatIs, w \in Seq(WireChars)
<1>3. w = <<>> <=> m = 0
  OBVIOUS
<1>4. /\ \A i \in 2 .. m : Joined(w[i - 1], w[i])
      /\ w # <<>> => After(w[m]) = 0
  BY DEF WireInv
<1>5. /\ \A i \in 2 .. n : Joined(l[i - 1], l[i])
      /\ Follows(0, l[1]) /\ After(l[n]) = 0
  BY DEF Whole
<1> HIDE DEF v, m, n
<1>6. v # <<>>
  <2>1. Len(v) # 0
    BY <1>1, <1>2
  <2> QED BY <2>1
<1>7. ASSUME NEW i \in 1 .. Len(v) PROVE i \in 1 .. m \/ \E j \in 1 .. n : i = m + j
  <2>1. CASE i > m
    <3>1. i - m \in 1 .. n /\ i = m + (i - m)
      BY <2>1, <1>1, <1>2
    <3> QED BY <3>1
  <2>2. CASE ~(i > m)
    BY <2>2, <1>1, <1>2
  <2> QED BY <2>1, <2>2
<1>8. ASSUME NEW i \in 2 .. Len(v) PROVE Joined(v[i - 1], v[i])
  <2>1. CASE i \in 2 .. m
    <3>1. i - 1 \in 1 .. m /\ i \in 1 .. m
      BY <2>1, <1>1
    <3>2. v[i - 1] = w[i - 1] /\ v[i] = w[i]
      BY <3>1, <1>2
    <3> QED BY <3>2, <2>1, <1>4
  <2>2. CASE i = m + 1
    <3>1. m \in 1 .. m /\ m # 0 /\ 1 \in 1 .. n /\ i - 1 = m
      BY <2>2, <1>1
    <3>2. v[i - 1] = w[m] /\ v[i] = l[1]
      BY <3>1, <2>2, <1>2
    <3>3. After(w[m]) = 0
      BY <3>1, <1>3, <1>4
    <3> QED BY <3>2, <3>3, <1>5 DEF Joined
  <2>3. CASE i > m + 1
    <3> DEFINE j == i - m
    <3>1. j \in 2 .. n /\ j - 1 \in 1 .. n /\ j \in 1 .. n /\ i = m + j /\ i - 1 = m + (j - 1)
      BY <2>3, <1>1, <1>2
    <3> HIDE DEF j
    <3>2. v[i - 1] = l[j - 1] /\ v[i] = l[j]
      BY <3>1, <1>2
    <3> QED BY <3>1, <3>2, <1>5
  <2> QED BY <2>1, <2>2, <2>3, <1>1
<1>9. After(v[Len(v)]) = 0
  <2>1. n \in 1 .. n
    BY <1>1
  <2>2. v[m + n] = l[n]
    BY <2>1, <1>2
  <2> QED BY <2>2, <1>2, <1>5
<1>10. ASSUME NEW rx, NEW cr, NEW flush, JoinInv(rx, cr, flush, w) PROVE JoinInv(rx, cr, flush, v)
  <2>1. CASE w = <<>>
    <3>1. 1 \in 1 .. n /\ m + 1 = 1
      BY <2>1, <1>1, <1>3
    <3>2. v[1] = l[1]
      BY <3>1, <1>2
    <3> QED BY <3>2, <2>1, <1>5, <1>6, <1>10 DEF JoinInv
  <2>2. CASE w # <<>>
    <3>1. 1 \in 1 .. m
      BY <2>2, <1>1, <1>3
    <3>2. v[1] = w[1]
      BY <3>1, <1>2
    <3> QED BY <3>2, <2>2, <1>6, <1>10 DEF JoinInv
  <2> QED BY <2>1, <2>2
<1> QED BY <1>2, <1>6, <1>7, <1>8, <1>9, <1>10 DEF v, m, n

\* What a step of the host keeps that only writes.
LEMMA HostStays ==
  ASSUME IInv, HostKeeps, port, wire' \in Seq(WireChars),
         asked' \in {"nothing", "upload", "file", "ended", "hold", "stop"},
         asked' \in {"file", "ended"} <=> asked \in {"file", "ended"},
         WireInv(wire)', JoinInv(rxbuf, last_char_was_cr, flush_to_nl, wire)',
         pc = "flushed" => Queries(wire'), StopInv(halt_flag, wire)',
         EofInv(rxbuf, wire)', UploadInv(rxbuf, last_char_was_cr, wire)'
  PROVE  IInv'
<1> USE DEF HostKeeps, rxVars, kernelVars, threadVars
<1>1. /\ TypeInv /\ FlowInv /\ PortInv /\ ReadInv /\ CountInv(rxbuf, nl_in_rx, wire)
      /\ RingInv(rxbuf, flush_to_nl)
  BY DEF IInv, StreamInv, Stream
<1>2. TypeInv'
  BY <1>1 DEF TypeInv
<1>3. FlowInv' /\ PortInv' /\ ReadInv'
  BY <1>1 DEF FlowInv, PortInv, ReadInv
<1>4. Start' = Start /\ Pending' = Pending
  BY DEF Start, Pending
<1>5. RingInv(rxbuf, flush_to_nl)'
  BY <1>1, <1>4 DEF RingInv
<1>6. CountInv(rxbuf, nl_in_rx, wire)'
  <2>1. pc # "detached"
    BY <1>1 DEF PortInv
  <2> QED BY <2>1, <1>1, <1>4 DEF CountInv, Queries
<1> QED BY <1>2, <1>3, <1>5, <1>6 DEF IInv, StreamInv, Stream

LEMMA WriteLineKeeps ==
  ASSUME USBAssumption, Hasty \subseteq {"long"}, IInv, WriteLine
  PROVE  IInv'
<1> USE DEF HostKeeps, rxVars, kernelVars, threadVars
<1>1. /\ TypeInv /\ WireInv(wire) /\ JoinInv(rxbuf, last_char_was_cr, flush_to_nl, wire)
      /\ StopInv(halt_flag, wire) /\ EofInv(rxbuf, wire)
      /\ UploadInv(rxbuf, last_char_was_cr, wire)
  BY DEF IInv, StreamInv, Stream
<1>2. port /\ asked \in {"nothing", "file"} /\ asked' = asked /\ HostKeeps
  BY DEF WriteLine, MayWrite
<1>3. PICK k \in Lengths, command \in Commands \ {"upload"}, e \in Endings :
        wire' = wire \o Line(k, command, e) \/ wire' = wire \o Corrected(k, command, e)
  BY DEF WriteLine
<1>4. /\ k \in Nat /\ command \in Does /\ command # "upload"
      /\ e \in {<<"\n">>, <<"\r">>, <<"\r", "\n">>}
  BY DEF USBAssumption, Does
<1>5. PICK l : /\ wire' = wire \o l /\ Whole(l)
               /\ \A j \in 1 .. Len(l) : l[j].char \notin {"^D", "^X"} /\ l[j].does # "upload"
  <2>1. CASE wire' = wire \o Line(k, command, e)
    <3>1. /\ Whole(Line(k, command, e))
          /\ \A j \in 1 .. Len(Line(k, command, e)) :
               /\ Line(k, command, e)[j].char \notin {"^D", "^X"}
               /\ Line(k, command, e)[j].does \in {"nothing", command}
      BY <1>4, LineIsWhole
    <3> QED BY <3>1, <2>1, <1>4
  <2>2. CASE wire' = wire \o Corrected(k, command, e)
    <3>1. /\ Whole(Corrected(k, command, e))
          /\ \A j \in 1 .. Len(Corrected(k, command, e)) :
               /\ Corrected(k, command, e)[j].char \notin {"^D", "^X"}
               /\ Corrected(k, command, e)[j].does \in {"nothing", command}
      BY <1>4, CorrectedIsWhole
    <3> QED BY <3>1, <2>2, <1>4
  <2> QED BY <1>3, <2>1, <2>2
<1> DEFINE v == wire \o l
<1>6. wire \in Seq(WireChars)
  BY <1>1 DEF TypeInv
<1>7. /\ v \in Seq(WireChars) /\ v # <<>> /\ Len(v) = Len(wire) + Len(l)
      /\ \A i \in 1 .. Len(wire) : v[i] = wire[i]
      /\ \A j \in 1 .. Len(l) : v[Len(wire) + j] = l[j]
      /\ \A i \in 1 .. Len(v) : i \in 1 .. Len(wire) \/ \E j \in 1 .. Len(l) : i = Len(wire) + j
      /\ \A i \in 2 .. Len(v) : Joined(v[i - 1], v[i])
      /\ After(v[Len(v)]) = 0
      /\ \A rx, cr, flush : JoinInv(rx, cr, flush, wire) => JoinInv(rx, cr, flush, v)
  <2>1. WireInv(wire) /\ Whole(l)
    BY <1>1, <1>5
  <2> QED BY ONLY <2>1, <1>6, WireGrows
<1>8. wire' = v /\ JoinInv(rxbuf, last_char_was_cr, flush_to_nl, v)
  BY <1>1, <1>5, <1>7
<1> HIDE DEF v
<1>9. ASSUME NEW i \in 1 .. Len(v), v[i].char \in {"^D", "^X"} \/ v[i].does = "upload"
      PROVE  i \in 1 .. Len(wire) /\ v[i] = wire[i]
  <2>1. ASSUME NEW j \in 1 .. Len(l), i = Len(wire) + j PROVE FALSE
    <3>1. v[i] = l[j]
      BY <2>1, <1>7
    <3> QED BY <3>1, <1>5, <1>9
  <2> QED BY <2>1, <1>7
<1>10. Spent(last_char_was_cr, v)
  <2>1. Spent(last_char_was_cr, wire)
    BY <1>1, <1>2 DEF UploadInv
  <2> QED BY <2>1, <1>9 DEF Spent
<1>11. ASSUME NEW i \in 1 .. Len(v) PROVE v[i].char \notin {"^D", "^X"}
  <2>1. \A j \in 1 .. Len(wire) : wire[j].char # "^D" /\ wire[j].char # "^X"
    BY <1>1, <1>2 DEF WireInv, StopInv
  <2> QED BY <2>1, <1>9
<1>12. /\ \A i \in 1 .. Len(v) : v[i].does = "upload" => IsEnd(v[i])
       /\ \A i, j \in 1 .. Len(v) : v[i].does = "upload" /\ v[j].does = "upload" /\ i < j
            => j = i + 1 /\ v[i].char = "\r" /\ v[j].char = "\n"
  <2>1. ASSUME NEW i \in 1 .. Len(v), v[i].does = "upload" PROVE IsEnd(v[i])
    <3>1. i \in 1 .. Len(wire) /\ v[i] = wire[i]
      BY <2>1, <1>9
    <3> QED BY <3>1, <2>1, <1>1 DEF WireInv
  <2>2. ASSUME NEW i \in 1 .. Len(v), NEW j \in 1 .. Len(v),
               v[i].does = "upload", v[j].does = "upload", i < j
        PROVE  j = i + 1 /\ v[i].char = "\r" /\ v[j].char = "\n"
    <3>1. i \in 1 .. Len(wire) /\ v[i] = wire[i] /\ j \in 1 .. Len(wire) /\ v[j] = wire[j]
      BY <2>2, <1>9
    <3> QED BY <3>1, <2>2, <1>1 DEF WireInv
  <2> QED BY <2>1, <2>2
<1>13. WireInv(wire)'
  <2>1. /\ \A i \in 2 .. Len(v) : Joined(v[i - 1], v[i])
        /\ v # <<>> => After(v[Len(v)]) = 0
        /\ \A i \in 1 .. Len(v) : v[i].char = "^D" => asked' = "ended" /\ i = Len(v)
    BY <1>7, <1>11
  <2>2. wire' = v
    BY <1>8
  <2> QED BY ONLY <2>1, <2>2, <1>12 DEF WireInv
<1>14. JoinInv(rxbuf, last_char_was_cr, flush_to_nl, wire)'
  BY <1>2, <1>8 DEF JoinInv, RingEnd, Start
<1>15. pc # "flushed" /\ StopInv(halt_flag, wire)'
  BY <1>1, <1>2, <1>8, <1>11 DEF StopInv
<1>16. EofInv(rxbuf, wire)'
  BY <1>1, <1>2 DEF EofInv
<1>17. UploadInv(rxbuf, last_char_was_cr, wire)'
  BY <1>1, <1>2, <1>8, <1>10 DEF UploadInv, Spent
<1> QED BY <1>2, <1>7, <1>8, <1>13, <1>14, <1>15, <1>16, <1>17, HostStays

LEMMA WriteUploadKeeps ==
  ASSUME USBAssumption, Hasty \subseteq {"long"}, IInv, WriteUpload
  PROVE  IInv'
<1> USE DEF HostKeeps, rxVars, kernelVars, threadVars
<1>1. /\ TypeInv /\ FlowInv /\ JoinInv(rxbuf, last_char_was_cr, flush_to_nl, wire)
      /\ StopInv(halt_flag, wire)
  BY DEF IInv, StreamInv, Stream
<1>2. /\ port /\ asked = "nothing" /\ asked' = "upload" /\ HostKeeps
      /\ wire = <<>> /\ rxbuf = <<>> /\ pc \in {"main", "attach", "lines"} /\ Len(rxbuf) = 0
  BY DEF WriteUpload, MayWrite, Quiet
<1>3. PICK e \in Endings : wire' = Line(1, "upload", e)
  BY DEF WriteUpload
<1> DEFINE l == Line(1, "upload", e)
<1>e. e \in {<<"\n">>, <<"\r">>, <<"\r", "\n">>} /\ 1 \in Nat /\ "upload" \in Does
  BY DEF USBAssumption, Does
<1>4. /\ Whole(l)
      /\ \A i \in 1 .. Len(l) : /\ l[i].char \notin {"^D", "^X"}
                                /\ l[i].does \in {"nothing", "upload"}
                                /\ l[i].does # "nothing" => i > 1 /\ IsEnd(l[i])
  BY <1>e, LineIsWhole
<1>5. ASSUME NEW i \in 1 .. Len(l), NEW j \in 1 .. Len(l), i > 1, i < j
      PROVE  j = i + 1 /\ l[i].char = "\r" /\ l[j].char = "\n"
  <2>2. Len(l) = 1 + Len(e) /\ \A k \in 1 .. Len(e) : l[1 + k] = End(e[k], 1, "upload")
    <3>1. LET q == Line(1, "upload", e) IN
          Len(q) = 1 + Len(e) /\ \A k \in 1 .. Len(e) : q[1 + k] = End(e[k], 1, "upload")
      BY ONLY <1>e, LineIs
    <3> QED BY <3>1
  <2>3. Len(e) \in {1, 2} /\ (Len(e) = 2 => e[1] = "\r" /\ e[2] = "\n")
    BY <1>e, EndingIs
  <2> HIDE DEF l
  <2>4. Len(e) = 2 /\ i = 1 + 1 /\ j = 1 + 2 /\ 1 \in 1 .. Len(e) /\ 2 \in 1 .. Len(e)
    BY <2>2, <2>3, <1>5
  <2>5. l[i] = End(e[1], 1, "upload") /\ l[j] = End(e[2], 1, "upload")
    BY <2>2, <2>4
  <2> QED BY <2>3, <2>4, <2>5 DEF End
<1>6. wire' = l /\ l \in Seq(WireChars) /\ l # <<>>
  BY <1>3, <1>4 DEF Whole
<1> HIDE DEF l
<1>7. WireInv(wire)'
  BY <1>2, <1>4, <1>5, <1>6 DEF WireInv, Whole
<1>8. JoinInv(rxbuf, last_char_was_cr, flush_to_nl, wire)'
  <2>1. Follows(0, l[1])
    BY <1>4 DEF Whole
  <2> QED BY <2>1, <1>1, <1>2, <1>6 DEF JoinInv, RingEnd, Start
<1>9. pc # "flushed" /\ StopInv(halt_flag, wire)'
  BY <1>1, <1>2, <1>4, <1>6 DEF StopInv
<1>10. EofInv(rxbuf, wire)' /\ UploadInv(rxbuf, last_char_was_cr, wire)'
  BY <1>2 DEF EofInv, UploadInv
<1> QED BY <1>2, <1>6, <1>7, <1>8, <1>9, <1>10, HostStays

LEMMA WriteEofKeeps ==
  ASSUME USBAssumption, Hasty \subseteq {"long"}, IInv, WriteEof
  PROVE  IInv'
<1> USE DEF HostKeeps, rxVars, kernelVars, threadVars
<1>1. /\ TypeInv /\ WireInv(wire) /\ JoinInv(rxbuf, last_char_was_cr, flush_to_nl, wire)
      /\ StopInv(halt_flag, wire) /\ EofInv(rxbuf, wire)
      /\ UploadInv(rxbuf, last_char_was_cr, wire)
  BY DEF IInv, StreamInv, Stream
<1>2. port /\ asked = "file" /\ asked' = "ended" /\ HostKeeps /\ wire' = Append(wire, Key("^D"))
  BY DEF WriteEof, MayWrite
<1> DEFINE d == Key("^D")
           m == Len(wire)
           v == Append(wire, d)
<1>3. d \in WireChars /\ d.char = "^D" /\ d.does = "nothing" /\ Follows(0, d) /\ After(d) = 0
  BY DEF Key, WireChars, Does, Follows, After, IsEnd
<1>4. wire \in Seq(WireChars) /\ m \in Nat /\ (wire = <<>> <=> m = 0)
  BY <1>1 DEF TypeInv
<1> HIDE DEF d
<1>5. /\ v \in Seq(WireChars) /\ v # <<>> /\ Len(v) = m + 1 /\ v[m + 1] = d
      /\ \A i \in 1 .. m : v[i] = wire[i]
  BY <1>3, <1>4
<1>6. wire' = v
  BY <1>2 DEF d
<1> HIDE DEF v, m
<1>7. \A i \in 1 .. Len(v) : i = m + 1 \/ (i \in 1 .. m /\ v[i] = wire[i])
  BY <1>4, <1>5
<1>8. ASSUME NEW i \in 2 .. Len(v) PROVE Joined(v[i - 1], v[i])
  <2>1. CASE i \in 2 .. m
    <3>1. i - 1 \in 1 .. m /\ i \in 1 .. m
      BY <2>1, <1>4
    <3>2. v[i - 1] = wire[i - 1] /\ v[i] = wire[i]
      BY <3>1, <1>5
    <3> QED BY <3>2, <2>1, <1>1 DEF WireInv, m
  <2>2. CASE i = m + 1
    <3>1. m \in 1 .. m /\ m # 0 /\ i - 1 = m
      BY <2>2, <1>4
    <3>2. v[i - 1] = wire[m] /\ v[i] = d
      BY <3>1, <2>2, <1>5
    <3>3. After(wire[m]) = 0
      BY <3>1, <1>1, <1>4 DEF WireInv, m
    <3> QED BY <3>2, <3>3, <1>3 DEF Joined
  <2> QED BY <2>1, <2>2, <1>4, <1>5
<1>9. \A i \in 1 .. m : wire[i].char \notin {"^D", "^X"}
  BY <1>1, <1>2 DEF WireInv, StopInv, m
<1>10. /\ \A i \in 1 .. Len(v) : v[i].char = "^D" => i = Len(v)
       /\ \A i \in 1 .. Len(v) : v[i].char # "^X"
  BY <1>3, <1>5, <1>7, <1>9
<1>11. ASSUME NEW i \in 1 .. Len(v), v[i].does = "upload"
       PROVE  i \in 1 .. m /\ v[i] = wire[i]
  BY <1>3, <1>5, <1>7, <1>11
<1>12. /\ \A i \in 1 .. Len(v) : v[i].does = "upload" => IsEnd(v[i])
       /\ \A i, j \in 1 .. Len(v) : v[i].does = "upload" /\ v[j].does = "upload" /\ i < j
            => j = i + 1 /\ v[i].char = "\r" /\ v[j].char = "\n"
  <2>1. ASSUME NEW i \in 1 .. Len(v), v[i].does = "upload" PROVE IsEnd(v[i])
    <3>1. i \in 1 .. Len(wire) /\ v[i] = wire[i]
      BY <2>1, <1>11 DEF m
    <3> QED BY <3>1, <2>1, <1>1 DEF WireInv
  <2>2. ASSUME NEW i \in 1 .. Len(v), NEW j \in 1 .. Len(v),
               v[i].does = "upload", v[j].does = "upload", i < j
        PROVE  j = i + 1 /\ v[i].char = "\r" /\ v[j].char = "\n"
    <3>1. i \in 1 .. Len(wire) /\ v[i] = wire[i] /\ j \in 1 .. Len(wire) /\ v[j] = wire[j]
      BY <2>2, <1>11 DEF m
    <3> QED BY <3>1, <2>2, <1>1 DEF WireInv
  <2> QED BY <2>1, <2>2
<1>13. After(v[Len(v)]) = 0
  BY <1>3, <1>5
<1>14. WireInv(wire)'
  <2>1. \A i \in 1 .. Len(v) : v[i].char = "^D" => asked' = "ended" /\ i = Len(v)
    BY <1>2, <1>10
  <2> QED BY ONLY <2>1, <1>6, <1>8, <1>12, <1>13 DEF WireInv
<1>15. JoinInv(rxbuf, last_char_was_cr, flush_to_nl, wire)'
  <2>1. JoinInv(rxbuf, last_char_was_cr, flush_to_nl, v)
    <3>1. CASE wire = <<>>
      <4>1. v[1] = d
        BY <3>1, <1>4, <1>5
      <4> QED BY <4>1, <3>1, <1>1, <1>3, <1>5 DEF JoinInv
    <3>2. CASE wire # <<>>
      <4>1. 1 \in 1 .. m
        BY <3>2, <1>4
      <4>2. v[1] = wire[1]
        BY <4>1, <1>5
      <4> QED BY <4>2, <3>2, <1>1, <1>5 DEF JoinInv
    <3> QED BY <3>1, <3>2
  <2> QED BY <2>1, <1>2, <1>6 DEF JoinInv, RingEnd, Start
<1>16. pc # "flushed" /\ StopInv(halt_flag, wire)'
  BY <1>1, <1>2, <1>6, <1>10 DEF StopInv
<1>17. EofInv(rxbuf, wire)'
  BY <1>1, <1>2 DEF EofInv
<1>18. UploadInv(rxbuf, last_char_was_cr, wire)'
  <2>1. Spent(last_char_was_cr, wire)
    BY <1>1, <1>2 DEF UploadInv
  <2>2. Spent(last_char_was_cr, v)
    BY <2>1, <1>11 DEF Spent, m
  <2> QED BY <2>2, <1>1, <1>2, <1>6 DEF UploadInv, Spent
<1> QED BY <1>2, <1>5, <1>6, <1>14, <1>15, <1>16, <1>17, <1>18, HostStays

\* A key is written when all before it has been taken.
LEMMA WriteKeyKeeps ==
  ASSUME USBAssumption, Hasty \subseteq {"long"}, IInv, WriteKey
  PROVE  IInv'
<1> USE DEF HostKeeps, rxVars, kernelVars, threadVars
<1>1. /\ TypeInv /\ JoinInv(rxbuf, last_char_was_cr, flush_to_nl, wire)
      /\ StopInv(halt_flag, wire) /\ EofInv(rxbuf, wire)
      /\ UploadInv(rxbuf, last_char_was_cr, wire)
  BY DEF IInv, StreamInv, Stream
<1>2. port /\ wire = <<>> /\ Len(wire) = 0 /\ HostKeeps
  BY DEF WriteKey, MayWrite
<1>3. PICK c \in {"?", "!", "~", "^X"} :
        /\ wire' = Append(wire, Key(c))
        /\ \/ c = "?" /\ asked' = asked
           \/ c = "!" /\ asked = "nothing" /\ asked' = "hold"
           \/ c = "~" /\ asked = "hold" /\ asked' = "nothing"
           \/ c = "^X" /\ asked \in {"nothing", "hold"} /\ asked' = "stop"
  BY DEF WriteKey
<1> DEFINE d == Key(c)
           v == <<d>>
<1>4. /\ d \in WireChars /\ d.char = c /\ d.does = "nothing" /\ Follows(0, d) /\ After(d) = 0
      /\ d.char \notin {"\n", "\r", "^D"}
  BY DEF Key, WireChars, Does, Follows, After, IsEnd
<1> HIDE DEF d
<1>5. v \in Seq(WireChars) /\ v # <<>> /\ Len(v) = 1 /\ v[1] = d
  BY <1>4
<1>6. wire' = v
  BY <1>2, <1>3 DEF d
<1> HIDE DEF v
<1>7. \A i \in 1 .. Len(v) : v[i].char = c /\ v[i].does = "nothing" /\ i = 1
  BY <1>4, <1>5
<1>8. WireInv(wire)'
  <2>1. \A i \in 1 .. Len(v) : v[i].char # "^D" /\ v[i].does # "upload"
    BY <1>4, <1>5
  <2>2. \A i \in 2 .. Len(v) : Joined(v[i - 1], v[i])
    BY <1>5
  <2>3. v # <<>> => After(v[Len(v)]) = 0
    BY <1>4, <1>5
  <2> QED BY ONLY <2>1, <2>2, <2>3, <1>6 DEF WireInv
<1>9. JoinInv(rxbuf, last_char_was_cr, flush_to_nl, wire)'
  BY <1>1, <1>2, <1>4, <1>5, <1>6 DEF JoinInv, RingEnd, Start
<1>10. pc = "flushed" => Queries(wire')
  BY <1>1, <1>3, <1>6, <1>7 DEF StopInv, Queries
<1>11. StopInv(halt_flag, wire)'
  <2>1. CASE c = "?"
    BY <2>1, <1>1, <1>2, <1>3, <1>6, <1>7 DEF StopInv, Queries
  <2>2. CASE c = "^X"
    BY <2>2, <1>1, <1>2, <1>3, <1>4, <1>5, <1>6 DEF StopInv
  <2>3. CASE c \in {"!", "~"}
    BY <2>3, <1>1, <1>2, <1>3, <1>6, <1>7 DEF StopInv
  <2> QED BY <2>1, <2>2, <2>3
<1>12. EofInv(rxbuf, wire)'
  BY <1>1, <1>2, <1>3, <1>6, <1>7 DEF EofInv, Queries
<1>13. UploadInv(rxbuf, last_char_was_cr, wire)'
  BY <1>1, <1>2, <1>3, <1>6, <1>7 DEF UploadInv, Spent
<1>14. /\ asked' \in {"nothing", "upload", "file", "ended", "hold", "stop"}
       /\ asked' \in {"file", "ended"} <=> asked \in {"file", "ended"}
  BY <1>1, <1>3 DEF TypeInv
<1> QED BY <1>2, <1>5, <1>6, <1>8, <1>9, <1>10, <1>11, <1>12, <1>13, <1>14, HostStays

LEMMA PortMoves ==
  ASSUME USBAssumption, Hasty \subseteq {"long"}, IInv, OpenPort \/ ClosePort
  PROVE  IInv'
<1> USE DEF rxVars, kernelVars, threadVars
<1>1. /\ TypeInv /\ FlowInv /\ PortInv /\ ReadInv
  BY DEF IInv, StreamInv, Stream
<1>2. UNCHANGED <<wire, asked, rxVars, attached, kernelVars, threadVars>>
  BY DEF OpenPort, ClosePort
<1>3. TypeInv' /\ FlowInv' /\ ReadInv'
  BY <1>1, <1>2 DEF TypeInv, FlowInv, ReadInv
<1>4. PortInv'
  <2>1. CASE OpenPort
    <3>1. port' /\ attach' /\ pc # "detached"
      BY <2>1 DEF OpenPort
    <3> QED BY <3>1, <1>2 DEF PortInv
  <2>2. CASE ClosePort
    <3>1. ~port' /\ ~attach' /\ wire = <<>> /\ rxbuf = <<>>
      BY <2>2 DEF ClosePort, Quiet
    <3> QED BY <3>1, <1>2 DEF PortInv
  <2> QED BY <2>1, <2>2
<1>5. StreamInv'
  <2>1. Start' = Start /\ Pending' = Pending
    BY <1>2 DEF Start, Pending
  <2>2. CountInv(rxbuf, nl_in_rx, wire)'
    BY <2>1, <1>2 DEF CountInv, IInv, StreamInv, Stream, Queries
  <2> QED BY <2>1, <2>2, <1>2, StreamStays
<1> QED BY <1>3, <1>4, <1>5 DEF IInv

-----------------------------------------------------------------------------
(* The theorems *)

LEMMA StutterKeeps == ASSUME IInv, UNCHANGED vars PROVE IInv'
<1> USE DEF vars, hostVars, rxVars, kernelVars, threadVars
<1>1. TypeInv' /\ FlowInv' /\ PortInv' /\ ReadInv'
  BY DEF IInv, TypeInv, FlowInv, PortInv, ReadInv
<1>2. Start' = Start /\ Pending' = Pending
  BY DEF Start, Pending
<1>3. CountInv(rxbuf, nl_in_rx, wire)'
  BY <1>2 DEF CountInv, IInv, StreamInv, Stream, Queries
<1>4. StreamInv'
  BY <1>2, <1>3, StreamStays
<1> QED BY <1>1, <1>4 DEF IInv

LEMMA ThreadKeeps == ASSUME USBAssumption, IInv, Thread PROVE IInv'
BY LoopBeginsKeeps, LoopAttachesKeeps, LoopDetachesKeeps, LoopDetachedKeeps, LoopEndsKeeps,
   TakeKeeps, MakeRoomKeeps, CountTextKeeps, CountLineKeeps, UnhaltKeeps, MoveKeeps, HeldKeeps,
   UploadKeeps, UploadWaitsKeeps, UploadCharKeeps, UploadEndsKeeps, IdleHaltKeeps,
   IdleFlushKeeps, IdleUncountKeeps, IdleNoHaltKeeps, IdleQueryKeeps DEF Thread

LEMMA NextKeeps ==
  ASSUME USBAssumption, Hasty \subseteq {"long"}, IInv, [Next]_vars
  PROVE  IInv'
<1>1. CASE Host
  BY <1>1, WriteLineKeeps, WriteUploadKeeps, WriteEofKeeps, WriteKeyKeeps, PortMoves DEF Host
<1>2. CASE EPOut
  BY <1>2, EPOutKeeps
<1>3. CASE Thread
  BY <1>3, ThreadKeeps
<1>4. CASE UNCHANGED vars
  BY <1>4, StutterKeeps
<1> QED BY <1>1, <1>2, <1>3, <1>4 DEF Next

LEMMA InvariantIsEnough == ASSUME IInv PROVE LinesAreWhole
<1>1. FlowInv /\ ReadInv /\ CountInv(rxbuf, nl_in_rx, wire) /\ rxbuf \in Seq(RingChars)
  BY DEF IInv, StreamInv, Stream, TypeInv
<1>2. pc = "command" => received = [i \in 1 .. char.at |-> i]
  BY <1>1 DEF ReadInv, Numbers
<1>3. pc = "reading" => LinesIn(rxbuf) > 0
  BY <1>1 DEF CountInv
<1>4. pc \in {"main", "idle"} => nl_in_rx = LinesIn(rxbuf)
  <2>1. LinesIn(rxbuf) \in Nat
    BY <1>1, LinesNat
  <2> QED BY <2>1, <1>1 DEF CountInv, Pending
<1> QED BY <1>2, <1>3, <1>4 DEF LinesAreWhole

\* When the host waits for the answer to a key and closes the port only when
\* all has been read, the stream of characters, from the wire through the ring
\* to what the thread has put together, is one of whole lines; nl_in_rx counts
\* those in the ring, and a ^X, the end of a file and a request for an upload
\* are each under way at most once.
THEOREM ConsoleInvariant ==
  ASSUME USBAssumption, Hasty \subseteq {"long"}
  PROVE  Spec => []IInv
<1>1. Init => IInv
  BY InitHolds
<1>2. IInv /\ [Next]_vars => IInv'
  BY NextKeeps
<1> QED BY <1>1, <1>2, PTL DEF Spec

\* Then no line loses its head or its tail, though the interrupt drops what does
\* not fit, the halt and the end of a connection empty the ring, and _getc makes
\* room in it: a line that is handed on is the whole of one the host wrote, and
\* what the thread has begun to read is complete in the ring.
THEOREM LinesStayWhole ==
  ASSUME USBAssumption, Hasty \subseteq {"long"}
  PROVE  Spec => []LinesAreWhole
<1>1. IInv => LinesAreWhole
  BY InvariantIsEnough
<1> QED BY <1>1, ConsoleInvariant, PTL

=============================================================================
