--------------------------- MODULE HostLinkProofs ---------------------------
(***************************************************************************)
(* The host's link to the machine, for every job, ring, window and number  *)
(* of troubles.  In order: what the streams hold (LinkTypes), that the     *)
(* numbers accepted are those of a job (NumbersInv), how a ^X empties the  *)
(* link (RequestInv), the count of lines (CountInv), and where a job line  *)
(* can be among those that set up a job (StreamInv, UploadInv).            *)
(***************************************************************************)
EXTENDS HostLink, FiniteSetTheorems, SequenceTheorems, WellFoundedInduction, TLAPS

-----------------------------------------------------------------------------
(* What the streams hold *)

Sums == {"good", "bad"} \cup {sum \in {"lost"} : "star" \in Damage}

\* A line of the job, perhaps damaged; the line that starts a job; and the lines
\* without a number.
JobLines ==
  {l \in [num : 1 .. N, kind : {Program[k] : k \in 1 .. N}, sum : Sums, readable : BOOLEAN] :
     l.kind = Program[l.num]}
Start == Text(0, "M110")
PlainKinds == ({Setup[i] : i \in 1 .. Len(Setup)} \cup {"M112"}) \ {"M110"}
PlainLines == {Text(None, kind) : kind \in PlainKinds}
Lines == JobLines \cup {Start} \cup PlainLines

Words == [say : {"ok", "rs", "!!", "Error", "status", "HALTED"}, n : 0 .. N + 1]
Registers == [count : 0 .. 2 ^ CountBits - 1, flags : Flags]

ConsoleTypes ==
  /\ lf_count \in 0 .. 2 ^ CountBits - 1 /\ flags \in Flags /\ reg \in Registers
  /\ buffer \in Seq(Lines \cup {NL}) /\ Len(buffer) < RingSize
  /\ pc \in Pcs /\ back \in {"main", "wait"}
  /\ received \in Seq(Lines)
  /\ received # <<>> => pc \in {"count", "countStore", "line"}

DispatchTypes ==
  /\ halted \in BOOLEAN /\ currentline \in -1 .. N
  /\ uploading \in BOOLEAN /\ fd \in Files /\ (uploading <=> fd \in {"open", "failed"})
  /\ accepted \in Seq(JobLines) /\ executed \in Seq(JobLines)

HostTypes ==
  /\ stop \in BOOLEAN /\ troubles \in Nat
  /\ replies \in Seq(Words)
  /\ wire \in Seq(Lines \cup Characters)
  /\ next \in 1 - Len(Setup) .. N + 1 /\ unanswered \in Nat
  /\ mode \in {"setup", "job", "halting", "alarm"}
  /\ mode = "setup" => next <= 1
  /\ mode = "job" => next >= 0

LinkTypes == ConsoleTypes /\ DispatchTypes /\ HostTypes

LEMMA ConstantFacts ==
  /\ RingSize \in Nat /\ RingSize > 1 /\ CharDuringStore \in BOOLEAN
  /\ 2 ^ CountBits \in Nat /\ 2 ^ CountBits > 0
  /\ Window \in Nat /\ MaxTroubles \in Nat
  /\ Damage \subseteq {"sum", "star", "start", "end"}
  /\ Requests \subseteq {Query, CtrlX, CtrlY, Text(None, "M112")}
  /\ Ending \in {<<NL>>, <<CR>>, <<CR, NL>>}
  /\ Program \in Seq(STRING) /\ N \in Nat
  /\ Setup \in Seq(STRING) /\ Len(Setup) \in Nat /\ Len(Setup) > 0 /\ Setup[Len(Setup)] = "M110"
BY ConsoleAssumption, CountAssumption, HostAssumption DEF N

\* A line is not one of the single characters.
LEMMA LineIsNoCharacter ==
  ASSUME NEW num, NEW kind, NEW sum, NEW readable
  PROVE  [num |-> num, kind |-> kind, sum |-> sum, readable |-> readable] \notin Characters
<1>1. SUFFICES ASSUME NEW c, [num |-> num, kind |-> kind, sum |-> sum, readable |-> readable] = [char |-> c]
               PROVE  FALSE
  BY DEF Characters, NL, CR, Query, CtrlX, CtrlY
<1>2. DOMAIN [num |-> num, kind |-> kind, sum |-> sum, readable |-> readable] = DOMAIN [char |-> c]
  BY <1>1
<1>3. "num" \in {"char"}
  BY <1>2
<1> QED BY <1>3

LEMMA CharactersDiffer ==
  /\ NL # CR /\ NL # Query /\ NL # CtrlX /\ NL # CtrlY
  /\ CR # Query /\ CR # CtrlX /\ CR # CtrlY
  /\ Query # CtrlX /\ Query # CtrlY /\ CtrlX # CtrlY
<1>1. /\ NL.char = "\n" /\ CR.char = "\r" /\ Query.char = "?" /\ CtrlX.char = "^X" /\ CtrlY.char = "^Y"
  BY DEF NL, CR, Query, CtrlX, CtrlY
<1> QED BY <1>1

\* What there is to know of a line.
LEMMA LineFacts ==
  ASSUME NEW l \in Lines
  PROVE  /\ l \notin Characters /\ l # NL
         /\ l.num \in -1 .. N /\ l.sum \in Sums /\ l.readable \in BOOLEAN
         /\ l \in JobLines <=> l.num > 0
         /\ l = Start <=> l.num = 0
         /\ l \in PlainLines <=> l.num = -1
         /\ l \in JobLines => l.kind = Program[l.num]
         /\ l = Start => l.kind = "M110" /\ l.sum = "good" /\ l.readable
         /\ l \in PlainLines => l.kind \in PlainKinds /\ l.sum = "good" /\ l.readable
<1>1. \A j \in JobLines : /\ j \notin Characters /\ j.num \in 1 .. N
                           /\ j.sum \in Sums /\ j.readable \in BOOLEAN /\ j.kind = Program[j.num]
  <2> SUFFICES ASSUME NEW j \in JobLines
               PROVE  /\ j \notin Characters /\ j.num \in 1 .. N
                      /\ j.sum \in Sums /\ j.readable \in BOOLEAN /\ j.kind = Program[j.num]
    OBVIOUS
  <2>1. j = [num |-> j.num, kind |-> j.kind, sum |-> j.sum, readable |-> j.readable]
    BY DEF JobLines
  <2>2. j \notin Characters
    BY <2>1, LineIsNoCharacter
  <2> QED BY <2>2 DEF JobLines
<1>2. /\ Start \notin Characters /\ Start.num = 0 /\ Start.kind = "M110"
      /\ Start.sum = "good" /\ Start.readable = TRUE
  BY LineIsNoCharacter DEF Start, Text
<1>3. \A p \in PlainLines : /\ p \notin Characters /\ p.num = -1 /\ p.kind \in PlainKinds
                             /\ p.sum = "good" /\ p.readable = TRUE
  BY LineIsNoCharacter DEF PlainLines, Text, None
<1>4. "good" \in Sums /\ NL \in Characters
  BY DEF Sums, Characters
<1>5. CASE l \in JobLines
  BY <1>1, <1>2, <1>3, <1>4, <1>5, ConstantFacts
<1>6. CASE l = Start
  <2>1. l.num = 0 /\ l.sum \in Sums /\ l.readable \in BOOLEAN /\ l # NL
    BY <1>2, <1>4, <1>6, ConstantFacts
  <2>2. l \notin JobLines /\ l \notin PlainLines
    BY <2>1, <1>1, <1>3
  <2> QED BY <2>1, <2>2, <1>2, <1>4, <1>6, ConstantFacts
<1>7. CASE l \in PlainLines
  <2>1. l.num = -1 /\ l.sum \in Sums /\ l.readable \in BOOLEAN /\ l # NL /\ l \notin Characters
    BY <1>3, <1>4, <1>7
  <2>2. l \notin JobLines /\ l # Start
    BY <2>1, <1>1, <1>2
  <2> QED BY <2>1, <2>2, <1>3, <1>7, ConstantFacts
<1> QED BY <1>5, <1>6, <1>7 DEF Lines

\* The line the host sends: of the job, the one that starts it, or a plain one.
LEMMA HostLineType ==
  ASSUME NEW k \in 1 - Len(Setup) .. N
  PROVE  /\ HostLine(k) \in Lines
         /\ k > 0 => HostLine(k) \in JobLines
         /\ k = 0 => HostLine(k) = Start
<1>1. CASE k > 0
  <2>1. k \in 1 .. N /\ HostLine(k) = [num |-> k, kind |-> Program[k], sum |-> "good", readable |-> TRUE]
    BY <1>1, ConstantFacts DEF HostLine, Text
  <2>2. "good" \in Sums
    BY DEF Sums
  <2>3. HostLine(k) \in JobLines
    BY <2>1, <2>2 DEF JobLines
  <2> QED BY <1>1, <2>3 DEF Lines
<1>2. CASE ~(k > 0)
  <2> DEFINE kind == Setup[k + Len(Setup)]
  <2>1. k + Len(Setup) \in 1 .. Len(Setup)
    BY <1>2, ConstantFacts
  <2>2. CASE kind = "M110"
    BY <1>2, <2>2, ConstantFacts DEF HostLine, Start, Lines
  <2>3. CASE kind # "M110"
    <3>1. kind \in PlainKinds
      BY <2>1, <2>3 DEF PlainKinds
    <3>2. HostLine(k) = Text(None, kind)
      BY <1>2, <2>3, ConstantFacts DEF HostLine
    <3>3. k # 0
      BY <2>3, ConstantFacts
    <3> QED BY <1>2, <3>1, <3>2, <3>3 DEF PlainLines, Lines
  <2> QED BY <2>2, <2>3
<1> QED BY <1>1, <1>2

LEMMA RequestType ==
  ASSUME NEW c \in Requests
  PROVE  /\ c \in Lines \cup Characters
         /\ IsLine(c) => c = Text(None, "M112") /\ c \in PlainLines
         /\ ~IsLine(c) => c \in {Query, CtrlX, CtrlY}
<1>1. "M112" \in PlainKinds
  BY DEF PlainKinds
<1>2. Text(None, "M112") \in PlainLines /\ Text(None, "M112") \notin Characters
  BY <1>1, LineIsNoCharacter DEF PlainLines, Text
<1>3. c = Text(None, "M112") \/ c \in {Query, CtrlX, CtrlY}
  BY ConstantFacts
<1> QED BY <1>2, <1>3 DEF Lines, Characters, IsLine

\* What damages a line leaves its number and its kind.
LEMMA DamageType ==
  ASSUME NEW l \in Lines, l.num > 0, NEW how \in Damage \ {"end"}
  PROVE  Damaged(l, how) \in JobLines /\ Damaged(l, how).num = l.num
<1>1. l \in JobLines
  BY LineFacts
<1>2. how \in {"sum", "star", "start"}
  BY ConstantFacts
<1>3. "bad" \in Sums /\ (how = "star" => "lost" \in Sums)
  BY DEF Sums
<1>4. CASE how = "sum"
  BY <1>1, <1>3, <1>4 DEF Damaged, JobLines
<1>5. CASE how = "star"
  BY <1>1, <1>3, <1>5 DEF Damaged, JobLines
<1>6. CASE how = "start"
  BY <1>1, <1>6 DEF Damaged, JobLines
<1> QED BY <1>2, <1>4, <1>5, <1>6

\* The ending is one or two characters.
LEMMA EndingType ==
  /\ Ending \in Seq({NL, CR}) /\ Ending # <<>> /\ Head(Ending) \in {NL, CR}
  /\ Head(Ending) = Ending[1] /\ Len(Ending) \in 1 .. 2
<1>1. CASE Ending = <<NL>>
  BY <1>1
<1>2. CASE Ending = <<CR>>
  BY <1>2
<1>3. CASE Ending = <<CR, NL>>
  BY <1>3
<1> QED BY <1>1, <1>2, <1>3, ConstantFacts

\* What is behind an element of a sequence, and what is before it.
LEMMA BehindType ==
  ASSUME NEW S, NEW s \in Seq(S), NEW e \in 0 .. Len(s)
  PROVE  /\ SubSeq(s, e + 1, Len(s)) \in Seq(S)
         /\ Len(SubSeq(s, e + 1, Len(s))) = Len(s) - e
         /\ \A k \in 1 .. Len(s) - e : SubSeq(s, e + 1, Len(s))[k] = s[k + e]
<1>1. e + 1 \in Int /\ Len(s) \in Int /\ \A i \in e + 1 .. Len(s) : s[i] \in S
  OBVIOUS
<1>2. /\ SubSeq(s, e + 1, Len(s)) \in Seq(S)
      /\ Len(SubSeq(s, e + 1, Len(s))) = (IF e + 1 <= Len(s) THEN Len(s) - (e + 1) + 1 ELSE 0)
      /\ \A i \in 1 .. Len(s) - (e + 1) + 1 : SubSeq(s, e + 1, Len(s))[i] = s[e + 1 + i - 1]
  BY <1>1, SubSeqProperties
<1> QED BY <1>2

LEMMA BeforeType ==
  ASSUME NEW S, NEW s \in Seq(S), NEW e \in 0 .. Len(s)
  PROVE  /\ SubSeq(s, 1, e - 1) \in Seq(S)
         /\ Len(SubSeq(s, 1, e - 1)) = IF e = 0 THEN 0 ELSE e - 1
         /\ \A k \in 1 .. e - 1 : SubSeq(s, 1, e - 1)[k] = s[k]
<1>1. e - 1 \in Int /\ \A i \in 1 .. e - 1 : s[i] \in S
  OBVIOUS
<1>2. /\ SubSeq(s, 1, e - 1) \in Seq(S)
      /\ Len(SubSeq(s, 1, e - 1)) = (IF 1 <= e - 1 THEN e - 1 - 1 + 1 ELSE 0)
      /\ \A i \in 1 .. e - 1 - 1 + 1 : SubSeq(s, 1, e - 1)[i] = s[1 + i - 1]
  BY <1>1, SubSeqProperties
<1> QED BY <1>2

\* A set of numbers has a least one.
LEMMA LeastOf ==
  ASSUME NEW I, I \subseteq Nat, I # {}
  PROVE  Min(I) \in I /\ \A y \in I : Min(I) <= y
<1> DEFINE R == OpToRel(<, Nat)
<1>1. \A x, y \in Nat : <<y, x>> \in R <=> y < x
  BY DEF OpToRel
<1> HIDE DEF R
<1>2. IsWellFoundedOn(R, Nat)
  BY NatLessThanWellFounded DEF R
<1>3. \E x \in I : \A y \in I : ~(<<y, x>> \in R)
  BY <1>2, WFMin
<1>4. PICK x \in I : \A y \in I : ~(<<y, x>> \in R)
  BY <1>3
<1>5. \A y \in I : ~(y < x)
  BY <1>1, <1>4
<1>6. \A y \in I : x <= y
  BY <1>5
<1> QED BY <1>4, <1>6 DEF Min

\* SelectInSeq finds the first line end, or gives 0 when there is none.
FirstEnd(s) == SelectInSeq(s, LAMBDA c : c = NL)

LEMMA FirstEndFacts ==
  ASSUME NEW s \in Seq(Lines \cup {NL})
  PROVE  /\ FirstEnd(s) \in 0 .. Len(s)
         /\ FirstEnd(s) > 0 => s[FirstEnd(s)] = NL
         /\ \A i \in 1 .. FirstEnd(s) - 1 : s[i] # NL
         /\ FirstEnd(s) = 0 => \A i \in 1 .. Len(s) : s[i] # NL
<1> DEFINE I == {i \in 1 .. Len(s) : s[i] = NL}
<1>1. FirstEnd(s) = IF I # {} THEN Min(I) ELSE 0
  BY DEF FirstEnd, SelectInSeq
<1>2. CASE I = {}
  BY <1>1, <1>2
<1>3. CASE I # {}
  <2>1. I \subseteq Nat
    OBVIOUS
  <2>2. FirstEnd(s) \in I /\ \A y \in I : FirstEnd(s) <= y
    BY <1>1, <1>3, <2>1, LeastOf
  <2> QED BY <2>2
<1> QED BY <1>2, <1>3

\* What lf_count can be.
LEMMA CountType ==
  ASSUME NEW k \in Int
  PROVE  k % 2 ^ CountBits \in 0 .. 2 ^ CountBits - 1
BY ConstantFacts

\* The UART's interrupt.
LEMMA InterruptKeepsTypes ==
  ASSUME ConsoleTypes, NEW c \in Lines \cup Characters, OnSerialCharReceived(c)
  PROVE  ConsoleTypes' /\ (stop \in BOOLEAN => stop' \in BOOLEAN)
<1> USE ConstantFacts DEF ConsoleTypes
<1>1. flags' \in Flags
  BY DEF OnSerialCharReceived, ReceiveText, ReceiveRequest, Flags
<1>2. /\ lf_count' \in 0 .. 2 ^ CountBits - 1
      /\ buffer' \in Seq(Lines \cup {NL}) /\ Len(buffer') < RingSize
  <2>1. CASE UNCHANGED <<buffer, lf_count>>
    BY <2>1
  <2>2. ASSUME NEW d \in Lines \cup {NL}, Put(d)
        PROVE  /\ lf_count' \in 0 .. 2 ^ CountBits - 1
               /\ buffer' \in Seq(Lines \cup {NL}) /\ Len(buffer') < RingSize
    <3>1. CASE Full
      BY <2>2, <3>1 DEF Put
    <3>2. CASE ~Full
      <4>1. buffer' = Append(buffer, d) /\ Len(buffer) < RingSize - 1
        <5>1. buffer' = Append(buffer, d) /\ Len(buffer) # RingSize - 1
          BY <2>2, <3>2 DEF Put, Full
        <5>2. Len(buffer) \in Nat /\ Len(buffer) < RingSize
          OBVIOUS
        <5> QED BY <5>1, <5>2
      <4>2. buffer' \in Seq(Lines \cup {NL}) /\ Len(buffer') < RingSize
        BY <4>1
      <4>3. (lf_count + 1) % 2 ^ CountBits \in 0 .. 2 ^ CountBits - 1
        <5>1. lf_count + 1 \in Int
          OBVIOUS
        <5> HIDE ConstantFacts
        <5> QED BY <5>1, CountType
      <4> QED BY <2>2, <3>2, <4>2, <4>3 DEF Put
    <3> QED BY <3>1, <3>2
  <2>3. c \in {CR, NL} \/ c \in Lines \/ c \in {Query, CtrlX, CtrlY}
    BY DEF Characters
  <2>4. UNCHANGED <<buffer, lf_count>> \/ Put(IF c = CR THEN NL ELSE c)
    BY DEF OnSerialCharReceived, ReceiveText, ReceiveRequest
  <2>5. c \notin {Query, CtrlX, CtrlY} \/ UNCHANGED <<buffer, lf_count>>
    BY DEF OnSerialCharReceived, ReceiveText, ReceiveRequest
  <2> QED BY <2>1, <2>2, <2>3, <2>4, <2>5
<1>3. UNCHANGED <<pc, back, reg, received>>
  BY DEF OnSerialCharReceived
<1>4. stop \in BOOLEAN => stop' \in BOOLEAN
  BY DEF OnSerialCharReceived, ReceiveText, ReceiveRequest
<1> QED BY <1>1, <1>2, <1>3, <1>4

\* on_main_loop and on_idle
LEMMA ConsoleKeepsTypes ==
  ASSUME ConsoleTypes, halted \in BOOLEAN, replies \in Seq(Words), ConsoleStep
  PROVE  ConsoleTypes' /\ halted' \in BOOLEAN /\ replies' \in Seq(Words) /\ stop' = stop
<1> USE ConstantFacts DEF ConsoleTypes, Goto
<1>a. Unloaded \in Registers
  BY DEF Unloaded, Registers, Flags
<1>b. /\ [Unloaded EXCEPT !.flags = flags] \in Registers
      /\ [Unloaded EXCEPT !.count = lf_count] \in Registers
  BY <1>a DEF Registers
<1>c. reg.flags \in Flags /\ reg.count \in 0 .. 2 ^ CountBits - 1
  BY DEF Registers
<1>1. CASE LoopNothing
  BY <1>1 DEF LoopNothing, Pcs
<1>2. CASE LoopLine
  <2> DEFINE end == FirstEnd(buffer)
  <2>1. end \in 0 .. Len(buffer) /\ \A i \in 1 .. end - 1 : buffer[i] # NL
    BY FirstEndFacts
  <2>2. /\ received' = SubSeq(buffer, 1, end - 1)
        /\ buffer' = SubSeq(buffer, end + 1, Len(buffer))
    BY <1>2 DEF LoopLine, FirstEnd
  <2> HIDE DEF end
  <2>3. received' \in Seq(Lines)
    <3>1. \A i \in 1 .. end - 1 : buffer[i] \in Lines
      BY <2>1
    <3> QED BY <2>1, <2>2, <3>1, SubSeqProperties
  <2>4. buffer' \in Seq(Lines \cup {NL}) /\ Len(buffer') <= Len(buffer)
    <3>1. buffer \in Seq(Lines \cup {NL})
      OBVIOUS
    <3>2. /\ SubSeq(buffer, end + 1, Len(buffer)) \in Seq(Lines \cup {NL})
          /\ Len(SubSeq(buffer, end + 1, Len(buffer))) = Len(buffer) - end
      BY <2>1, <3>1, BehindType
    <3>3. Len(buffer) - end <= Len(buffer)
      BY <2>1
    <3> QED BY <2>2, <3>2, <3>3
  <2>5. /\ pc' = "count" /\ halted' = halted /\ replies' = replies /\ stop' = stop
        /\ UNCHANGED <<lf_count, flags, reg, back>>
    BY <1>2 DEF LoopLine, LoopKeeps
  <2> QED BY <2>3, <2>4, <2>5 DEF Pcs
<1>3. CASE CountLoad
  BY <1>3, <1>b DEF CountLoad, LoopKeeps, Pcs, Stores
<1>4. CASE CountStore
  <2>1. (reg.count - 1) % 2 ^ CountBits \in 0 .. 2 ^ CountBits - 1
    <3>1. reg.count - 1 \in Int
      BY <1>c
    <3> HIDE ConstantFacts
    <3> QED BY <3>1, CountType
  <2> QED BY <1>4, <2>1, <1>a DEF CountStore, LoopKeeps, Pcs
<1>5. CASE IdleNothing
  BY <1>5 DEF IdleNothing, IdleKeeps, Pcs
<1>6. CASE QueryLoad
  BY <1>6, <1>b DEF QueryLoad, IdleKeeps, Pcs, Stores
<1>7. CASE HaltLoad
  BY <1>7, <1>b DEF HaltLoad, IdleKeeps, Pcs, Stores
<1>8. CASE QueryStore
  <2>1. [reg.flags EXCEPT !.query = FALSE] \in Flags
    BY <1>c DEF Flags
  <2>2. Reply("status") \in Words
    BY DEF Reply, Words
  <2> QED BY <1>8, <2>1, <2>2, <1>a DEF QueryStore, Say, IdleKeeps, Pcs
<1>9. CASE HaltStore
  <2>1. [reg.flags EXCEPT !.halt = FALSE] \in Flags
    BY <1>c DEF Flags
  <2> QED BY <1>9, <2>1, <1>a DEF HaltStore, IdleKeeps, Pcs
<1>10. CASE OnHalt
  BY <1>10 DEF OnHalt, IdleKeeps, Pcs
<1>11. CASE Flush
  BY <1>11 DEF Flush, IdleKeeps, Pcs
<1>12. CASE FlushCount
  <2>1. Reply("HALTED") \in Words
    BY DEF Reply, Words
  <2> QED BY <1>12, <2>1 DEF FlushCount, Say, IdleKeeps, Pcs
<1>13. CASE IdleEnd
  BY <1>13 DEF IdleEnd, IdleKeeps, Pcs
<1> QED BY <1>1, <1>2, <1>3, <1>4, <1>5, <1>6, <1>7, <1>8, <1>9, <1>10, <1>11, <1>12, <1>13 DEF ConsoleStep

\* The line in hand, when the dispatcher looks at it.
LEMMA ThisType ==
  ASSUME ConsoleTypes, received # <<>>
  PROVE  This \in Lines
BY DEF ConsoleTypes, This

\* A line that is counted is the next one of the job; another has no number.
CountsLine ==
  /\ currentline' = IF Numbered THEN currentline + 1 ELSE currentline
  /\ accepted' = IF Numbered THEN Append(accepted, This) ELSE accepted

LEMMA AcceptedLine ==
  ASSUME ConsoleTypes, Accepts
  PROVE  /\ received # <<>> /\ This \in Lines
         /\ Numbered => This \in JobLines /\ This.num = currentline + 1 /\ This.sum # "bad"
         /\ ~Numbered => This \in PlainLines
<1>1. received # <<>> /\ This \in Lines
  BY ThisType DEF Accepts, Gcode
<1>2. /\ ~(Numbered /\ This.kind = "M110")
      /\ Numbered => This.num = currentline + 1 /\ This.sum # "bad"
  BY DEF Accepts, InSequence
<1>3. This.num \in -1 .. N /\ (This.num = 0 => This.kind = "M110")
  BY <1>1, LineFacts
<1>4. Numbered => This.num > 0
  BY <1>2, <1>3, ConstantFacts DEF Numbered, None
<1> QED BY <1>1, <1>2, <1>4, LineFacts DEF Numbered, None

LEMMA CountsLineType ==
  ASSUME ConsoleTypes, DispatchTypes, Accepts, CountsLine
  PROVE  currentline' \in -1 .. N /\ accepted' \in Seq(JobLines)
<1>1. CASE Numbered
  <2>1. This \in JobLines /\ This.num = currentline + 1
    BY <1>1, AcceptedLine
  <2>2. currentline + 1 \in 0 .. N
    BY <2>1, AcceptedLine, LineFacts, ConstantFacts DEF DispatchTypes
  <2> QED BY <1>1, <2>1, <2>2, ConstantFacts DEF CountsLine, DispatchTypes
<1>2. CASE ~Numbered
  BY <1>2 DEF CountsLine, DispatchTypes
<1> QED BY <1>1, <1>2

LEMMA HandledTypes ==
  ASSUME ConsoleTypes, replies \in Seq(Words), NEW r \in Seq(Words), Handled(r)
  PROVE  ConsoleTypes' /\ replies' \in Seq(Words) /\ stop' = stop
<1>1. pc' = "idle" /\ back' = "main" /\ received' = <<>> /\ replies' = replies \o r
  BY DEF Handled
<1>2. UNCHANGED <<buffer, lf_count, flags, reg, stop>>
  BY DEF Handled
<1>3. "idle" \in Pcs
  BY DEF Pcs
<1>4. replies' \in Seq(Words)
  BY <1>1
<1> QED BY <1>1, <1>2, <1>3, <1>4 DEF ConsoleTypes

LEMMA ReplyType ==
  /\ \A word \in {"ok", "rs", "!!", "Error", "status", "HALTED"} : <<Reply(word)>> \in Seq(Words)
  /\ <<>> \in Seq(Words)
<1>1. \A word \in {"ok", "rs", "!!", "Error", "status", "HALTED"} : Reply(word) \in Words
  BY ConstantFacts DEF Reply, Words
<1> QED BY <1>1

\* Every line that is obeyed leaves the types of the console and of the count.
LEMMA ObeyTypes ==
  ASSUME ConsoleTypes, DispatchTypes, replies \in Seq(Words), Accepts,
         NEW r \in Seq(Words), Obey(r)
  PROVE  /\ ConsoleTypes' /\ replies' \in Seq(Words) /\ stop' = stop
         /\ currentline' \in -1 .. N /\ accepted' \in Seq(JobLines)
<1>1. Handled(r) /\ CountsLine
  BY DEF Obey, CountsLine
<1> QED BY <1>1, HandledTypes, CountsLineType

\* on_console_line_received
LEMMA DispatchKeepsTypes ==
  ASSUME ConsoleTypes, DispatchTypes, replies \in Seq(Words), troubles \in Nat, DispatchStep
  PROVE  /\ ConsoleTypes' /\ DispatchTypes' /\ replies' \in Seq(Words) /\ stop' = stop
         /\ troubles' \in Nat
<1>t. troubles' = troubles \/ (troubles > 0 /\ troubles' = troubles - 1) => troubles' \in Nat
  OBVIOUS
<1>1. CASE EmptyLine \/ IgnoredLine
  <2>1. Handled(<<Reply("ok")>>)
    BY <1>1 DEF EmptyLine, IgnoredLine
  <2>2. UNCHANGED <<halted, currentline, uploading, fd, accepted, executed, troubles>>
    BY <1>1 DEF EmptyLine, IgnoredLine, dispatchVars
  <2>3. ConsoleTypes' /\ replies' \in Seq(Words) /\ stop' = stop
    BY <2>1, ReplyType, HandledTypes
  <2> QED BY <2>2, <2>3 DEF DispatchTypes
<1>2. CASE SetLineNumber
  <2>1. This \in Lines
    BY <1>2, ThisType DEF SetLineNumber, Gcode
  <2>2. This.num \in -1 .. N
    BY <2>1, LineFacts
  <2>3. Handled(<<Reply("ok")>>)
    BY <1>2 DEF SetLineNumber
  <2>4. ConsoleTypes' /\ replies' \in Seq(Words) /\ stop' = stop
    BY <2>3, ReplyType, HandledTypes
  <2>5. /\ currentline' = This.num /\ accepted' = <<>> /\ executed' = <<>>
        /\ UNCHANGED <<uploading, fd, halted, troubles>>
    BY <1>2 DEF SetLineNumber, UploadKept
  <2> QED BY <2>2, <2>4, <2>5 DEF DispatchTypes
<1>3. CASE ResendLine
  <2>1. <<[say |-> "rs", n |-> currentline + 1]>> \in Seq(Words)
    BY ConstantFacts DEF Words, DispatchTypes
  <2>2. Handled(<<[say |-> "rs", n |-> currentline + 1]>>)
    BY <1>3 DEF ResendLine
  <2>3. ConsoleTypes' /\ replies' \in Seq(Words) /\ stop' = stop
    BY <2>1, <2>2, HandledTypes
  <2> QED BY <1>3, <2>3 DEF ResendLine, dispatchVars, DispatchTypes
<1>4. CASE CommentLine
  <2>1. Accepts /\ Obey(IF Numbered THEN <<>> ELSE <<Reply("ok")>>)
    BY <1>4 DEF CommentLine
  <2>2. (IF Numbered THEN <<>> ELSE <<Reply("ok")>>) \in Seq(Words)
    BY ReplyType
  <2>3. /\ ConsoleTypes' /\ replies' \in Seq(Words) /\ stop' = stop
        /\ currentline' \in -1 .. N /\ accepted' \in Seq(JobLines)
    BY <2>1, <2>2, ObeyTypes
  <2> QED BY <1>4, <2>3 DEF CommentLine, UploadKept, NoTrouble, DispatchTypes
<1>5. ASSUME NEW word \in {"ok", "rs", "!!", "Error", "status", "HALTED"}, Accepts, Obey(<<Reply(word)>>)
      PROVE  /\ ConsoleTypes' /\ replies' \in Seq(Words) /\ stop' = stop
             /\ currentline' \in -1 .. N /\ accepted' \in Seq(JobLines)
  BY <1>5, ReplyType, ObeyTypes
<1>6. CASE Unhalt \/ HaltedLine \/ EmergencyStop
  <2>1. Accepts /\ (Obey(<<Reply("ok")>>) \/ Obey(<<Reply("!!")>>))
    BY <1>6 DEF Unhalt, HaltedLine, EmergencyStop, Runs, Dispatches
  <2>2. /\ ConsoleTypes' /\ replies' \in Seq(Words) /\ stop' = stop
        /\ currentline' \in -1 .. N /\ accepted' \in Seq(JobLines)
    BY <2>1, <1>5
  <2>3. halted' \in BOOLEAN /\ UNCHANGED <<uploading, fd, executed, troubles>>
    BY <1>6 DEF Unhalt, HaltedLine, EmergencyStop, UploadKept, NoTrouble, DispatchTypes
  <2> QED BY <2>2, <2>3 DEF DispatchTypes
<1>7. CASE OpenUpload
  <2>1. Accepts /\ Obey(<<Reply("ok")>>) /\ ~uploading
    BY <1>7 DEF OpenUpload, Runs, Dispatches
  <2>2. /\ ConsoleTypes' /\ replies' \in Seq(Words) /\ stop' = stop
        /\ currentline' \in -1 .. N /\ accepted' \in Seq(JobLines)
    BY <2>1, <1>5
  <2>3. UNCHANGED <<halted, executed>> /\ (troubles' = troubles \/ (troubles > 0 /\ troubles' = troubles - 1))
    BY <1>7 DEF OpenUpload, Trouble, NoTrouble
  <2>4. uploading' \in BOOLEAN /\ fd' \in Files /\ (uploading' <=> fd' \in {"open", "failed"})
    <3>1. \/ uploading' = TRUE /\ fd' = "open"
          \/ uploading' = FALSE /\ fd' = "refused"
      BY <1>7, <2>1 DEF OpenUpload, DispatchTypes
    <3> QED BY <3>1 DEF Files
  <2> QED BY <2>2, <2>3, <2>4, <1>t DEF DispatchTypes
<1>8. CASE ErrorLine
  <2>1. Accepts /\ Obey(<<Reply("Error")>>)
    BY <1>8 DEF ErrorLine, Runs, Dispatches
  <2>2. /\ ConsoleTypes' /\ replies' \in Seq(Words) /\ stop' = stop
        /\ currentline' \in -1 .. N /\ accepted' \in Seq(JobLines)
    BY <2>1, <1>5
  <2>3. /\ halted' = TRUE /\ UNCHANGED <<uploading, fd, executed>>
        /\ (troubles' = troubles \/ (troubles > 0 /\ troubles' = troubles - 1))
    BY <1>8 DEF ErrorLine, UploadKept, Trouble
  <2> QED BY <2>2, <2>3, <1>t DEF DispatchTypes
<1>9. ASSUME executed' = (IF Numbered THEN Append(executed, This) ELSE executed), Accepts
      PROVE  executed' \in Seq(JobLines)
  <2>1. CASE Numbered
    BY <2>1, <1>9, AcceptedLine DEF DispatchTypes
  <2>2. CASE ~Numbered
    BY <2>2, <1>9 DEF DispatchTypes
  <2> QED BY <2>1, <2>2
<1>10. CASE ExecuteLine
  <2>1. Accepts /\ Obey(<<Reply("ok")>>)
    BY <1>10 DEF ExecuteLine, Runs, Dispatches
  <2>2. /\ ConsoleTypes' /\ replies' \in Seq(Words) /\ stop' = stop
        /\ currentline' \in -1 .. N /\ accepted' \in Seq(JobLines)
    BY <2>1, <1>5
  <2>3. UNCHANGED <<uploading, fd, halted, troubles>>
    BY <1>10 DEF ExecuteLine, UploadKept, NoTrouble
  <2>4. executed' \in Seq(JobLines)
    BY <2>1, <1>9, <1>10 DEF ExecuteLine
  <2> QED BY <2>2, <2>3, <2>4 DEF DispatchTypes
<1>11. CASE StartMove
  <2>1. Accepts /\ CountsLine
    BY <1>11 DEF StartMove, Runs, Dispatches, CountsLine
  <2>2. currentline' \in -1 .. N /\ accepted' \in Seq(JobLines)
    BY <2>1, CountsLineType
  <2>3. /\ pc' = "wait" /\ received' = <<>>
        /\ UNCHANGED <<uploading, fd, troubles, buffer, lf_count, flags, back, reg, halted, stop, replies>>
    BY <1>11 DEF StartMove, UploadKept, NoTrouble
  <2>4. executed' \in Seq(JobLines)
    BY <2>1, <1>9, <1>11 DEF StartMove
  <2>5. "wait" \in Pcs
    BY DEF Pcs
  <2>6. ConsoleTypes'
    BY <2>3, <2>5 DEF ConsoleTypes
  <2> QED BY <2>2, <2>3, <2>4, <2>6 DEF DispatchTypes
<1>12. CASE MoveWaits
  <2>1. "idle" \in Pcs
    BY DEF Pcs
  <2> QED BY <1>12, <2>1 DEF MoveWaits, dispatchVars, ConsoleTypes, DispatchTypes
<1>13. CASE MoveEnds
  BY <1>13, ReplyType, HandledTypes DEF MoveEnds, dispatchVars, DispatchTypes
<1>14. CASE CloseUpload \/ SaveLine
  <2>1. Accepts /\ Obey(<<Reply("ok")>>)
    BY <1>14 DEF CloseUpload, SaveLine, Uploads
  <2>2. /\ ConsoleTypes' /\ replies' \in Seq(Words) /\ stop' = stop
        /\ currentline' \in -1 .. N /\ accepted' \in Seq(JobLines)
    BY <2>1, <1>5
  <2>3. UNCHANGED <<halted, executed, troubles>>
    BY <1>14 DEF CloseUpload, SaveLine, NoTrouble
  <2>4. uploading' \in BOOLEAN /\ fd' \in Files /\ (uploading' <=> fd' \in {"open", "failed"})
    <3>1. (uploading' = FALSE /\ fd' = "none") \/ UNCHANGED <<uploading, fd>>
      BY <1>14 DEF CloseUpload, SaveLine, UploadKept
    <3>2. CASE uploading' = FALSE /\ fd' = "none"
      BY <3>2 DEF Files
    <3>3. CASE UNCHANGED <<uploading, fd>>
      BY <3>3 DEF DispatchTypes
    <3> QED BY <3>1, <3>2, <3>3
  <2> QED BY <2>2, <2>3, <2>4 DEF DispatchTypes
<1>15. CASE SaveFails
  <2>1. Accepts /\ Obey(<<Reply("Error")>>)
    BY <1>15 DEF SaveFails, Uploads
  <2>2. /\ ConsoleTypes' /\ replies' \in Seq(Words) /\ stop' = stop
        /\ currentline' \in -1 .. N /\ accepted' \in Seq(JobLines)
    BY <2>1, <1>5
  <2>3. UNCHANGED <<halted, executed>> /\ (troubles' = troubles \/ (troubles > 0 /\ troubles' = troubles - 1))
    BY <1>15 DEF SaveFails, Trouble
  <2>4. uploading' \in BOOLEAN /\ fd' \in Files /\ (uploading' <=> fd' \in {"open", "failed"})
    BY <1>15 DEF SaveFails, DispatchTypes, Files
  <2> QED BY <2>2, <2>3, <2>4, <1>t DEF DispatchTypes
<1> QED BY <1>1, <1>2, <1>3, <1>4, <1>6, <1>7, <1>8, <1>10, <1>11, <1>12, <1>13, <1>14, <1>15 DEF DispatchStep

\* What comes next is the ending of a line.
Ends(s) == s # <<>> /\ Head(s) = Head(Ending)

\* A line with its ending.
LEMMA SentType ==
  ASSUME NEW l \in Lines \cup Characters
  PROVE  /\ <<l>> \o Ending \in Seq(Lines \cup Characters)
         /\ Head(<<l>> \o Ending) = l
         /\ Ends(Tail(<<l>> \o Ending))
         /\ \A i \in 1 .. Len(<<l>> \o Ending) : i > 1 => (<<l>> \o Ending)[i] \in {NL, CR}
<1>1. <<l>> \in Seq(Lines \cup Characters) /\ Len(<<l>>) = 1 /\ <<l>>[1] = l
  OBVIOUS
<1>2. Ending \in Seq(Lines \cup Characters)
  BY EndingType DEF Characters
<1>3. DEFINE s == <<l>> \o Ending
<1>4. /\ s \in Seq(Lines \cup Characters) /\ Len(s) = 1 + Len(Ending)
      /\ \A i \in 1 .. Len(s) : s[i] = IF i = 1 THEN l ELSE Ending[i - 1]
  BY <1>1, <1>2, ConcatProperties
<1> HIDE DEF s
<1>5. s # <<>> /\ Head(s) = l
  BY <1>4, EndingType
<1>6. Tail(s) # <<>> /\ Head(Tail(s)) = s[2]
  <2>1. /\ Tail(s) \in Seq(Lines \cup Characters) /\ Len(Tail(s)) = Len(Ending)
        /\ \A i \in 1 .. Len(Tail(s)) : Tail(s)[i] = s[i + 1]
    BY <1>4, <1>5, HeadTailProperties, EndingType
  <2>2. Len(Tail(s)) > 0
    BY <2>1, EndingType
  <2>3. Tail(s) # <<>> /\ Head(Tail(s)) = Tail(s)[1]
    <3> DEFINE t == Tail(s)
    <3>1. t \in Seq(Lines \cup Characters) /\ Len(t) > 0
      BY <2>1, <2>2
    <3> HIDE DEF t
    <3>2. t # <<>> /\ Head(t) = t[1]
      BY <3>1
    <3> QED BY <3>2 DEF t
  <2> QED BY <2>1, <2>2, <2>3
<1>7. s[2] = Head(Ending)
  BY <1>4, EndingType
<1>8. \A i \in 1 .. Len(s) : i > 1 => s[i] \in {NL, CR}
  BY <1>4, EndingType
<1> QED BY <1>4, <1>5, <1>6, <1>7, <1>8 DEF s, Ends

LEMMA RepeatTypes ==
  ASSUME HostTypes, Repeat
  PROVE  /\ next' \in 1 - Len(Setup) .. N + 1 /\ unanswered' \in Nat /\ mode' = mode /\ wire' = wire
         /\ UNCHANGED firmwareVars
         /\ mode = "setup" => next' <= 1 /\ (unanswered > 0 => next' <= 0)
         /\ mode = "job" => next' >= 1
<1> USE ConstantFacts
<1>1. /\ unanswered' = 0 /\ UNCHANGED <<firmwareVars, wire, mode>>
      /\ next \in 1 - Len(Setup) .. N + 1 /\ unanswered \in Nat
      /\ mode \in {"setup", "job", "halting", "alarm"}
  BY DEF HostTypes, Repeat
<1>2. CASE mode = "setup"
  <2>1. next' = Greater(next - unanswered, 1 - Len(Setup)) /\ next <= 1
    BY <1>2 DEF Repeat, HostTypes
  <2> QED BY <1>1, <1>2, <2>1 DEF Greater
<1>3. CASE mode = "job"
  <2>1. next' = Greater(next - unanswered, 1)
    BY <1>3 DEF Repeat
  <2> QED BY <1>1, <1>3, <2>1 DEF Greater
<1>4. CASE mode \notin {"setup", "job"}
  <2>1. next' = next
    BY <1>4 DEF Repeat
  <2> QED BY <1>1, <1>4, <2>1
<1> QED BY <1>2, <1>3, <1>4

\* The host
LEMMA HostKeepsTypes ==
  ASSUME HostTypes, Host \/ SendRequest \/ EarlyTimeout
  PROVE  HostTypes'
<1> USE ConstantFacts
<1>1. CASE SendLine
  <2>1. /\ wire' = <<HostLine(next)>> \o Ending /\ next' = next + 1 /\ unanswered' = unanswered + 1
        /\ UNCHANGED <<stop, replies, troubles, mode>>
        /\ (mode = "setup" /\ next <= 0) \/ (mode = "job" /\ next <= N)
    BY <1>1 DEF SendLine, machineVars, firmwareVars
  <2>2. HostLine(next) \in Lines
    BY <2>1, HostLineType DEF HostTypes
  <2> QED BY <2>1, <2>2, SentType DEF HostTypes
<1>2. CASE HearOk \/ HearStatus \/ HearAlarm \/ HearHalted \/ HearResend
  <2>1. replies # <<>> /\ replies' = Tail(replies) /\ UNCHANGED <<stop, troubles, wire>>
    BY <1>2 DEF HearOk, HearStatus, HearAlarm, HearHalted, HearResend, Hear, HearKeeps, dispatchVars
  <2>2. Head(replies) \in Words /\ replies' \in Seq(Words)
    BY <2>1 DEF HostTypes
  <2>3. unanswered' \in Nat
    BY <1>2 DEF HearOk, HearStatus, HearAlarm, HearHalted, HearResend, Lower, HostTypes
  <2>4. CASE HearResend
    <3>1. mode' = mode /\ next' = IF mode = "job" THEN Head(replies).n ELSE next
      BY <2>4 DEF HearResend
    <3>2. Head(replies).n \in 0 .. N + 1
      BY <2>2 DEF Words
    <3> QED BY <2>1, <2>2, <2>3, <3>1, <3>2 DEF HostTypes
  <2>5. CASE ~HearResend
    <3>1. next' = next
      BY <1>2, <2>5 DEF HearOk, HearStatus, HearAlarm, HearHalted
    <3>2. \/ mode' = mode \/ (mode = "setup" /\ next = 1 /\ mode' = "job") \/ mode' = "alarm"
      BY <1>2, <2>5 DEF HearOk, HearStatus, HearAlarm, HearHalted
    <3> QED BY <2>1, <2>2, <2>3, <3>1, <3>2 DEF HostTypes
  <2> QED BY <2>4, <2>5
<1>3. CASE Restart
  <2>1. Ending \in Seq(Lines \cup Characters)
    BY EndingType DEF Characters
  <2> QED BY <1>3, <2>1 DEF Restart, machineVars, firmwareVars, HostTypes
<1>4. CASE Timeout \/ EarlyTimeout
  <2>1. Repeat /\ (troubles' = troubles \/ (troubles > 0 /\ troubles' = troubles - 1))
    BY <1>4 DEF Timeout, EarlyTimeout, NoTrouble, Trouble
  <2>2. UNCHANGED <<stop, replies>>
    BY <2>1 DEF Repeat, firmwareVars
  <2>3. troubles' \in Nat
    BY <2>1 DEF HostTypes
  <2>4. /\ next' \in 1 - Len(Setup) .. N + 1 /\ unanswered' \in Nat /\ mode' = mode /\ wire' = wire
        /\ mode = "setup" => next' <= 1
        /\ mode = "job" => next' >= 1
    BY <2>1, RepeatTypes
  <2> QED BY <2>2, <2>3, <2>4 DEF HostTypes
<1>5. CASE SendRequest
  <2>1. troubles > 0 /\ troubles' = troubles - 1 /\ UNCHANGED <<stop, replies, next>>
    BY <1>5 DEF SendRequest, Trouble, firmwareVars
  <2>2. PICK c \in Requests :
          IF IsLine(c)
          THEN wire' = <<c>> \o Ending /\ unanswered' = unanswered + 1 /\ mode' = mode
          ELSE /\ wire' = Append(wire, c) /\ mode' = (IF c = CtrlX THEN "halting" ELSE mode)
               /\ unanswered' = unanswered
    BY <1>5 DEF SendRequest
  <2>3. c \in Lines \cup Characters
    BY RequestType
  <2>4. wire' \in Seq(Lines \cup Characters)
    <3>1. CASE IsLine(c)
      BY <2>2, <2>3, <3>1, SentType
    <3>2. CASE ~IsLine(c)
      <4>1. wire' = Append(wire, c) /\ wire \in Seq(Lines \cup Characters)
        BY <2>2, <3>2 DEF HostTypes
      <4> QED BY <2>3, <4>1, AppendProperties
    <3> QED BY <3>1, <3>2
  <2>5. unanswered' \in Nat /\ (mode' = mode \/ mode' = "halting")
    BY <2>2 DEF HostTypes
  <2> QED BY <2>1, <2>4, <2>5 DEF HostTypes
<1> QED BY <1>1, <1>2, <1>3, <1>4, <1>5 DEF Host

\* The types are inductive.
LEMMA TypesKept ==
  ASSUME LinkTypes, [Next]_vars
  PROVE  LinkTypes'
<1> USE DEF LinkTypes
<1>1. CASE Firmware
  <2>1. CASE ConsoleStep /\ UNCHANGED <<dispatchVars, hostVars>>
    <3>1. ConsoleTypes' /\ halted' \in BOOLEAN /\ replies' \in Seq(Words) /\ stop' = stop
      BY <2>1, ConsoleKeepsTypes DEF DispatchTypes, HostTypes
    <3> QED BY <2>1, <3>1 DEF dispatchVars, hostVars, DispatchTypes, HostTypes
  <2>2. CASE DispatchStep /\ UNCHANGED hostVars
    <3>1. /\ ConsoleTypes' /\ DispatchTypes' /\ replies' \in Seq(Words) /\ stop' = stop
          /\ troubles' \in Nat
      BY <2>2, DispatchKeepsTypes DEF HostTypes
    <3> QED BY <2>2, <3>1 DEF hostVars, HostTypes
  <2> QED BY <1>1, <2>1, <2>2 DEF Firmware
<1>2. CASE OtherHalt
  <2>1. /\ halted' = TRUE /\ troubles' = troubles - 1 /\ troubles > 0
        /\ UNCHANGED <<lf_count, flags, reg, buffer, pc, back, received>>
        /\ UNCHANGED <<stop, replies, currentline, uploading, fd, accepted, executed>>
        /\ UNCHANGED <<wire, next, unanswered, mode>>
    BY <1>2 DEF OtherHalt, Trouble, consoleVars, hostVars
  <2>2. ConsoleTypes'
    BY <2>1 DEF ConsoleTypes
  <2>3. DispatchTypes'
    BY <2>1 DEF DispatchTypes
  <2>4. HostTypes'
    BY <2>1 DEF HostTypes
  <2> QED BY <2>2, <2>3, <2>4
<1>3. CASE Host \/ SendRequest \/ EarlyTimeout
  <2>1. HostTypes'
    BY <1>3, HostKeepsTypes
  <2>2. UNCHANGED <<consoleVars, halted, currentline, uploading, fd, accepted, executed>>
    BY <1>3 DEF Host, SendLine, HearOk, HearResend, HearStatus, HearAlarm, HearHalted, Restart,
                Timeout, SendRequest, EarlyTimeout, Repeat, HearKeeps, dispatchVars, firmwareVars, machineVars
  <2>3. ConsoleTypes'
    BY <2>2 DEF ConsoleTypes, consoleVars
  <2>4. DispatchTypes'
    BY <2>2 DEF DispatchTypes
  <2> QED BY <2>1, <2>3, <2>4
<1>4. CASE Deliver
  <2>1. /\ wire # <<>> /\ OnSerialCharReceived(Head(wire)) /\ wire' = Tail(wire)
        /\ UNCHANGED <<currentline, uploading, fd, accepted, executed, troubles, next, unanswered, mode>>
    BY <1>4 DEF Deliver, dispatchVars
  <2>2. UNCHANGED <<halted, replies>>
    BY <2>1 DEF OnSerialCharReceived
  <2>3. Head(wire) \in Lines \cup Characters /\ wire' \in Seq(Lines \cup Characters)
    BY <2>1 DEF HostTypes
  <2>4. ConsoleTypes' /\ (stop \in BOOLEAN => stop' \in BOOLEAN)
    BY <2>1, <2>3, InterruptKeepsTypes
  <2>5. DispatchTypes'
    BY <2>1, <2>2 DEF DispatchTypes
  <2>6. HostTypes'
    BY <2>1, <2>2, <2>3, <2>4 DEF HostTypes
  <2> QED BY <2>4, <2>5, <2>6
<1>5. CASE DamageLine
  <2>1. /\ troubles > 0 /\ troubles' = troubles - 1 /\ wire # <<>>
        /\ UNCHANGED <<lf_count, flags, reg, buffer, pc, back, received>>
        /\ UNCHANGED <<halted, stop, replies, currentline, uploading, fd, accepted, executed>>
        /\ UNCHANGED <<next, unanswered, mode>>
    BY <1>5 DEF DamageLine, Trouble, firmwareVars, consoleVars
  <2>2. wire' \in Seq(Lines \cup Characters)
    <3>1. CASE wire' = <<>>
      BY <3>1
    <3>2. CASE wire' # <<>>
      <4>1. /\ IsLine(Head(wire)) /\ Head(wire).num > 0
            /\ \E how \in Damage \ {"end"} : wire' = <<Damaged(Head(wire), how)>> \o Tail(wire)
        BY <1>5, <3>2 DEF DamageLine
      <4>2. Head(wire) \in Lines /\ Tail(wire) \in Seq(Lines \cup Characters)
        BY <2>1, <4>1 DEF HostTypes, IsLine
      <4>3. PICK how \in Damage \ {"end"} : wire' = <<Damaged(Head(wire), how)>> \o Tail(wire)
        BY <4>1
      <4>4. <<Damaged(Head(wire), how)>> \in Seq(Lines \cup Characters)
        BY <4>1, <4>2, DamageType DEF Lines
      <4> QED BY <4>2, <4>3, <4>4, ConcatProperties
    <3> QED BY <3>1, <3>2
  <2>3. ConsoleTypes'
    BY <2>1 DEF ConsoleTypes
  <2>4. DispatchTypes'
    BY <2>1 DEF DispatchTypes
  <2>5. HostTypes'
    BY <2>1, <2>2 DEF HostTypes
  <2> QED BY <2>3, <2>4, <2>5
<1>6. CASE UNCHANGED vars
  <2>1. /\ UNCHANGED <<lf_count, flags, reg, buffer, pc, back, received>>
        /\ UNCHANGED <<halted, stop, replies, currentline, uploading, fd, accepted, executed, troubles>>
        /\ UNCHANGED <<wire, next, unanswered, mode>>
    BY <1>6 DEF vars, machineVars, firmwareVars, hostVars, consoleVars
  <2>2. ConsoleTypes'
    BY <2>1 DEF ConsoleTypes
  <2>3. DispatchTypes'
    BY <2>1 DEF DispatchTypes
  <2>4. HostTypes'
    BY <2>1 DEF HostTypes
  <2> QED BY <2>2, <2>3, <2>4
<1> QED BY <1>1, <1>2, <1>3, <1>4, <1>5, <1>6 DEF Next

LEMMA TypesInit == Init => LinkTypes
<1> SUFFICES ASSUME Init PROVE LinkTypes
  OBVIOUS
<1> USE ConstantFacts
<1>1. ConsoleTypes
  <2>1. Unloaded.flags \in Flags /\ Unloaded \in Registers
    BY DEF Unloaded, Flags, Registers
  <2> QED BY <2>1 DEF Init, ConsoleInit, ConsoleTypes, Pcs
<1>2. DispatchTypes
  <2>1. /\ halted = FALSE /\ currentline = -1 /\ uploading = FALSE /\ fd = "none"
        /\ accepted = <<>> /\ executed = <<>>
    BY DEF Init, ConsoleInit, DispatchInit
  <2>2. "none" \in Files /\ -1 \in -1 .. N
    BY DEF Files
  <2>3. <<>> \in Seq(JobLines)
    OBVIOUS
  <2>4. halted \in BOOLEAN /\ uploading \in BOOLEAN /\ (uploading <=> fd \in {"open", "failed"})
    BY <2>1
  <2>5. currentline \in -1 .. N /\ fd \in Files /\ accepted \in Seq(JobLines) /\ executed \in Seq(JobLines)
    BY <2>1, <2>2, <2>3
  <2> QED BY <2>4, <2>5 DEF DispatchTypes
<1>3. HostTypes
  <2>1. /\ stop = FALSE /\ troubles = MaxTroubles /\ replies = <<>>
        /\ wire = <<>> /\ next = 0 /\ unanswered = 0 /\ mode = "setup"
    BY DEF Init, ConsoleInit, DispatchInit
  <2>2. 0 \in 1 - Len(Setup) .. N + 1
    OBVIOUS
  <2>3. /\ replies \in Seq(Words) /\ wire \in Seq(Lines \cup Characters)
    BY <2>1
  <2>4. stop \in BOOLEAN /\ troubles \in Nat /\ unanswered \in Nat
    BY <2>1
  <2>5. next \in 1 - Len(Setup) .. N + 1 /\ mode = "setup" /\ next = 0
    BY <2>1, <2>2
  <2> QED BY <2>3, <2>4, <2>5 DEF HostTypes
<1> QED BY <1>1, <1>2, <1>3 DEF LinkTypes

\* The types of every variable, for every job, ring, window and wire.
THEOREM LinkInvariant == Spec => []LinkTypes
<1>1. Init => LinkTypes
  BY TypesInit
<1>2. LinkTypes /\ [Next]_vars => LinkTypes'
  BY TypesKept
<1> QED BY <1>1, <1>2, PTL DEF Spec

-----------------------------------------------------------------------------
(* The numbers accepted *)

\* The numbering starts anew only with the line that starts a job.
NoRenumbering == \A k \in 1 .. N : Program[k] # "M110"

\* The lines accepted are the first ones of the job, as many as are counted.
NumbersInv ==
  /\ currentline = Len(accepted) \/ (currentline = -1 /\ accepted = <<>>)
  /\ \A i \in 1 .. Len(accepted) : accepted[i].num = i

Unaccepted == UNCHANGED <<currentline, accepted>>
Renumbers == currentline' = 0 /\ accepted' = <<>>
AcceptsNext ==
  /\ This \in JobLines /\ This.num = currentline + 1
  /\ currentline' = currentline + 1 /\ accepted' = Append(accepted, This)

\* What a step does to the lines accepted.
LEMMA AcceptKinds ==
  ASSUME NoRenumbering, LinkTypes, [Next]_vars
  PROVE  Unaccepted \/ Renumbers \/ AcceptsNext
<1>1. CASE DispatchStep
  <2>1. ASSUME Accepts, CountsLine PROVE Unaccepted \/ AcceptsNext
    <3>1. CASE Numbered
      BY <2>1, <3>1, AcceptedLine DEF CountsLine, AcceptsNext, LinkTypes
    <3>2. CASE ~Numbered
      BY <2>1, <3>2 DEF CountsLine, Unaccepted
    <3> QED BY <3>1, <3>2
  <2>2. CASE EmptyLine \/ IgnoredLine \/ ResendLine \/ MoveWaits \/ MoveEnds
    BY <2>2 DEF EmptyLine, IgnoredLine, ResendLine, MoveWaits, MoveEnds, dispatchVars, Unaccepted
  <2>3. CASE SetLineNumber
    <3>1. This \in Lines /\ This.num # -1 /\ This.kind = "M110"
      BY <2>3, ThisType DEF SetLineNumber, Gcode, LinkTypes, Numbered, None
    <3>2. This \notin JobLines
      <4> SUFFICES ASSUME This \in JobLines PROVE FALSE
        OBVIOUS
      <4>1. This.num \in 1 .. N /\ This.kind = Program[This.num]
        BY <3>1, LineFacts, ConstantFacts
      <4> QED BY <3>1, <4>1 DEF NoRenumbering
    <3>3. This.num = 0
      BY <3>1, <3>2, LineFacts, ConstantFacts
    <3> QED BY <2>3, <3>3 DEF SetLineNumber, Renumbers
  <2>4. CASE StartMove
    <3>1. Accepts /\ CountsLine
      BY <2>4 DEF StartMove, Runs, Dispatches, CountsLine
    <3> QED BY <2>1, <3>1
  <2>5. CASE CommentLine \/ Unhalt \/ HaltedLine \/ OpenUpload \/ EmergencyStop \/ ErrorLine
             \/ ExecuteLine \/ CloseUpload \/ SaveLine \/ SaveFails
    <3>1. Accepts /\ \E r : Obey(r)
      BY <2>5 DEF CommentLine, Unhalt, HaltedLine, OpenUpload, EmergencyStop, ErrorLine, ExecuteLine,
                  CloseUpload, SaveLine, SaveFails, Runs, Dispatches, Uploads
    <3>2. CountsLine
      BY <3>1 DEF Obey, CountsLine
    <3> QED BY <2>1, <3>1, <3>2
  <2> QED BY <1>1, <2>2, <2>3, <2>4, <2>5 DEF DispatchStep
<1>2. CASE ConsoleStep /\ UNCHANGED dispatchVars
  BY <1>2 DEF dispatchVars, Unaccepted
<1>3. CASE OtherHalt \/ Host \/ SendRequest \/ EarlyTimeout \/ Deliver \/ DamageLine \/ UNCHANGED vars
  BY <1>3 DEF OtherHalt, Host, SendLine, HearOk, HearResend, HearStatus, HearAlarm, HearHalted, Restart,
              Timeout, SendRequest, EarlyTimeout, Repeat, Deliver, DamageLine, HearKeeps,
              dispatchVars, firmwareVars, machineVars, vars, Unaccepted
<1> QED BY <1>1, <1>2, <1>3 DEF Next, Firmware

LEMMA NumbersKept ==
  ASSUME NoRenumbering, LinkTypes, NumbersInv, [Next]_vars
  PROVE  NumbersInv'
<1>1. CASE Unaccepted
  BY <1>1 DEF NumbersInv, Unaccepted
<1>2. CASE Renumbers
  BY <1>2 DEF NumbersInv, Renumbers
<1>3. CASE AcceptsNext
  <2>1. /\ This \in JobLines /\ This.num = currentline + 1
        /\ currentline' = currentline + 1 /\ accepted' = Append(accepted, This)
    BY <1>3 DEF AcceptsNext
  <2>2. currentline = Len(accepted)
    <3>1. This.num > 0
      BY <2>1, LineFacts DEF Lines
    <3> QED BY <2>1, <3>1 DEF NumbersInv
  <2>3. /\ Len(accepted') = Len(accepted) + 1 /\ accepted'[Len(accepted) + 1] = This
        /\ \A i \in 1 .. Len(accepted) : accepted'[i] = accepted[i]
    BY <2>1, AppendProperties DEF LinkTypes, DispatchTypes
  <2>4. Len(accepted) \in Nat
    BY DEF LinkTypes, DispatchTypes
  <2> QED BY <2>1, <2>2, <2>3, <2>4 DEF NumbersInv
<1> QED BY <1>1, <1>2, <1>3, AcceptKinds

\* The lines of a job are accepted one after the other, none twice and none left
\* out, whatever the wire loses or damages and the host repeats: HostLink
\* implements NumberedLines.
THEOREM LinkImplementsNumberedLines ==
  ASSUME NoRenumbering
  PROVE  Spec => ImplementsNumberedLines
<1> DEFINE Numbers == [i \in DOMAIN accepted |-> accepted[i].num]
<1>1. Init => LinkTypes /\ NumbersInv /\ Abstract!Init
  <2> SUFFICES ASSUME Init PROVE LinkTypes /\ NumbersInv /\ Abstract!Init
    OBVIOUS
  <2>1. currentline = -1 /\ accepted = <<>>
    BY DEF Init, DispatchInit
  <2>2. Numbers = <<>>
    BY <2>1
  <2>3. NumbersInv
    BY <2>1 DEF NumbersInv
  <2> QED BY <2>2, <2>3, TypesInit DEF Abstract!Init
<1>2. LinkTypes /\ NumbersInv /\ [Next]_vars => LinkTypes' /\ NumbersInv'
  BY TypesKept, NumbersKept
<1>3. LinkTypes /\ NumbersInv /\ [Next]_vars => [Abstract!Next]_Numbers
  <2> SUFFICES ASSUME LinkTypes, NumbersInv, [Next]_vars PROVE [Abstract!Next]_Numbers
    OBVIOUS
  <2>1. CASE Unaccepted
    BY <2>1 DEF Unaccepted
  <2>2. CASE Renumbers
    <3>1. Numbers' = <<>>
      BY <2>2 DEF Renumbers
    <3> QED BY <3>1 DEF Abstract!Next, Abstract!Renumber
  <2>3. CASE AcceptsNext
    <3>1. /\ This \in JobLines /\ This.num = currentline + 1 /\ accepted' = Append(accepted, This)
      BY <2>3 DEF AcceptsNext
    <3>2. accepted \in Seq(JobLines) /\ accepted' \in Seq(JobLines) /\ Len(accepted') = Len(accepted) + 1
      BY <3>1, AppendProperties DEF LinkTypes, DispatchTypes
    <3>3. This.num = Len(accepted) + 1 /\ Len(accepted) < N
      <4>1. This.num \in 1 .. N
        BY <3>1 DEF JobLines
      <4> QED BY <3>1, <3>2, <4>1, ConstantFacts DEF NumbersInv
    <3>4. /\ Numbers \in Seq(Nat) /\ Len(Numbers) = Len(accepted)
          /\ \A i \in 1 .. Len(accepted) : Numbers[i] = i
      BY <3>2 DEF NumbersInv
    <3>5. \A i \in 1 .. Len(accepted) + 1 : accepted'[i].num = i
      BY <3>1, <3>2, <3>3, AppendProperties DEF NumbersInv
    <3>6. /\ Numbers' \in Seq(Nat) /\ Len(Numbers') = Len(accepted) + 1
          /\ \A i \in 1 .. Len(accepted) + 1 : Numbers'[i] = i
      BY <3>2, <3>5
    <3>7. Numbers' = Append(Numbers, Len(Numbers) + 1)
      <4> HIDE DEF Numbers
      <4>1. Len(Numbers) \in Nat /\ Len(Numbers) + 1 \in Nat
        BY <3>4
      <4>2. /\ Append(Numbers, Len(Numbers) + 1) \in Seq(Nat)
            /\ Len(Append(Numbers, Len(Numbers) + 1)) = Len(Numbers) + 1
            /\ \A i \in 1 .. Len(Numbers) : Append(Numbers, Len(Numbers) + 1)[i] = Numbers[i]
            /\ Append(Numbers, Len(Numbers) + 1)[Len(Numbers) + 1] = Len(Numbers) + 1
        BY <3>4, <4>1, AppendProperties
      <4>3. \A i \in 1 .. Len(Numbers') : Numbers'[i] = Append(Numbers, Len(Numbers) + 1)[i]
        BY <3>4, <3>6, <4>1, <4>2
      <4> QED BY <3>4, <3>6, <4>2, <4>3, SeqEqual
    <3>8. Len(Numbers) < N
      BY <3>3, <3>4
    <3> QED BY <3>7, <3>8 DEF Abstract!Next, Abstract!Accept
  <2> QED BY <2>1, <2>2, <2>3, AcceptKinds
<1> QED BY <1>1, <1>2, <1>3, PTL DEF Spec, ImplementsNumberedLines, Abstract!Spec

-----------------------------------------------------------------------------
(* How ^X empties the link *)

HaltPcs == {"onHalt", "flush", "clear"}
Halts(i) == replies[i].say = "HALTED"
NoHalted == \A i \in 1 .. Len(replies) : ~Halts(i)
HaltedOnce == \A i, j \in 1 .. Len(replies) : Halts(i) /\ Halts(j) => i = j
Emptied == wire = <<>> /\ mode = "halting"

\* One ^X at a time is on its way, and nothing is sent after it until the host
\* hears HALTED: the buffer is flushed when the wire is empty.
RequestInv ==
  /\ \A i \in 1 .. Len(wire) :
       wire[i] = CtrlX => i = Len(wire) /\ mode = "halting" /\ NoHalted
                          /\ ~flags.halt /\ pc \notin HaltPcs
  /\ flags.halt \/ pc \in HaltPcs => Emptied /\ NoHalted
  /\ flags.halt => pc \notin HaltPcs
  /\ pc \in {"queryStore", "haltStore"} /\ reg.flags.halt => flags.halt
  /\ pc = "haltStore" => flags.halt
  /\ ~NoHalted => Emptied
  /\ HaltedOnce

\* An answer that is not HALTED.
LEMMA AnswerKeepsHalted ==
  ASSUME replies \in Seq(Words), NEW r \in Seq(Words), \A k \in 1 .. Len(r) : r[k].say # "HALTED",
         replies' = replies \o r
  PROVE  (NoHalted' <=> NoHalted) /\ (HaltedOnce => HaltedOnce')
<1>1. /\ Len(replies') = Len(replies) + Len(r)
      /\ \A i \in 1 .. Len(replies) + Len(r) :
           replies'[i] = IF i <= Len(replies) THEN replies[i] ELSE r[i - Len(replies)]
  BY ConcatProperties
<1>2. Len(replies) \in Nat /\ Len(r) \in Nat
  OBVIOUS
<1>3. \A i \in 1 .. Len(replies') : Halts(i)' => i \in 1 .. Len(replies) /\ Halts(i)
  <2> SUFFICES ASSUME NEW i \in 1 .. Len(replies'), Halts(i)'
               PROVE  i \in 1 .. Len(replies) /\ Halts(i)
    OBVIOUS
  <2>1. CASE i <= Len(replies)
    BY <1>1, <1>2, <2>1 DEF Halts
  <2>2. CASE ~(i <= Len(replies))
    <3>1. i - Len(replies) \in 1 .. Len(r) /\ replies'[i] = r[i - Len(replies)]
      BY <1>1, <1>2, <2>2
    <3> QED BY <3>1 DEF Halts
  <2> QED BY <2>1, <2>2
<1>4. \A i \in 1 .. Len(replies) : i \in 1 .. Len(replies') /\ (Halts(i) => Halts(i)')
  BY <1>1, <1>2 DEF Halts
<1> QED BY <1>3, <1>4 DEF NoHalted, HaltedOnce

\* The host hears the first answer.
LEMMA HearKeepsHalted ==
  ASSUME replies \in Seq(Words), replies # <<>>, replies' = Tail(replies)
  PROVE  /\ NoHalted => NoHalted'
         /\ HaltedOnce => HaltedOnce'
         /\ Head(replies).say = "HALTED" /\ HaltedOnce => NoHalted'
<1>1. /\ Len(replies') = Len(replies) - 1 /\ Len(replies) \in Nat \ {0}
      /\ \A i \in 1 .. Len(replies) - 1 : replies'[i] = replies[i + 1]
      /\ Head(replies) = replies[1]
  BY HeadTailProperties
<1>2. \A i \in 1 .. Len(replies') : i + 1 \in 1 .. Len(replies) /\ (Halts(i)' => Halts(i + 1))
  BY <1>1 DEF Halts
<1>3. NoHalted => NoHalted'
  BY <1>2 DEF NoHalted
<1>4. HaltedOnce => HaltedOnce'
  <2> SUFFICES ASSUME HaltedOnce, NEW i \in 1 .. Len(replies'), NEW j \in 1 .. Len(replies'), Halts(i)', Halts(j)'
               PROVE  i = j
    BY DEF HaltedOnce
  <2>1. i + 1 = j + 1
    BY <1>2 DEF HaltedOnce
  <2> QED BY <2>1
<1>5. Head(replies).say = "HALTED" /\ HaltedOnce => NoHalted'
  <2> SUFFICES ASSUME Head(replies).say = "HALTED", HaltedOnce, NEW i \in 1 .. Len(replies'), Halts(i)'
               PROVE  FALSE
    BY DEF NoHalted
  <2>1. Halts(1) /\ 1 \in 1 .. Len(replies)
    BY <1>1 DEF Halts
  <2>2. i + 1 = 1
    BY <1>2, <2>1 DEF HaltedOnce
  <2> QED BY <2>2
<1> QED BY <1>3, <1>4, <1>5

\* What the firmware does to its requests.
LEMMA ConsoleKeepsRequests ==
  ASSUME LinkTypes, RequestInv, ConsoleStep, UNCHANGED hostVars
  PROVE  RequestInv'
<1>1. wire' = wire /\ mode' = mode /\ (Emptied' <=> Emptied)
  BY DEF hostVars, Emptied
<1>2. CASE LoopNothing \/ LoopLine \/ CountLoad \/ CountStore \/ IdleNothing \/ IdleEnd
  <2>1. flags' = flags /\ replies' = replies
    BY <1>2 DEF LoopNothing, LoopLine, CountLoad, CountStore, IdleNothing, IdleEnd, LoopKeeps, IdleKeeps
  <2>2. pc \notin HaltPcs /\ pc' \notin HaltPcs \cup {"queryStore", "haltStore"}
    BY <1>2 DEF LoopNothing, LoopLine, CountLoad, CountStore, IdleNothing, IdleEnd, Goto, HaltPcs,
                LinkTypes, ConsoleTypes
  <2> QED BY <1>1, <2>1, <2>2 DEF RequestInv, NoHalted, HaltedOnce, Halts
<1>3. CASE QueryLoad \/ HaltLoad
  <2>1. flags' = flags /\ replies' = replies /\ reg'.flags = flags
    BY <1>3 DEF QueryLoad, HaltLoad, Unloaded, IdleKeeps
  <2>2. /\ pc \notin HaltPcs /\ pc' \notin HaltPcs
        /\ pc' = "haltStore" => flags.halt
    BY <1>3 DEF QueryLoad, HaltLoad, Goto, HaltPcs
  <2> QED BY <1>1, <2>1, <2>2 DEF RequestInv, NoHalted, HaltedOnce, Halts
<1>4. CASE QueryStore
  <2>1. /\ pc = "queryStore" /\ pc' = "halt" /\ flags'.halt = reg.flags.halt
        /\ replies' = Append(replies, Reply("status"))
    BY <1>4 DEF QueryStore, Goto, Say, LinkTypes, ConsoleTypes, Registers, Flags
  <2>2. flags'.halt => flags.halt
    BY <2>1 DEF RequestInv
  <2>3. Reply("status") \in Words /\ Reply("status").say # "HALTED"
    BY ConstantFacts DEF Reply, Words
  <2>4. replies' = replies \o <<Reply("status")>>
    BY <2>1, <2>3, AppendIsConcat DEF LinkTypes, HostTypes
  <2>5. (NoHalted' <=> NoHalted) /\ (HaltedOnce => HaltedOnce')
    <3> DEFINE r == <<Reply("status")>>
    <3>1. r \in Seq(Words) /\ \A k \in 1 .. Len(r) : r[k].say # "HALTED"
      BY <2>3
    <3>2. replies' = replies \o r /\ replies \in Seq(Words)
      BY <2>4 DEF LinkTypes, HostTypes
    <3> HIDE DEF r
    <3> QED BY <3>1, <3>2, AnswerKeepsHalted
  <2> QED BY <1>1, <2>1, <2>2, <2>5 DEF RequestInv, HaltPcs
<1>5. CASE HaltStore
  <2>1. pc = "haltStore" /\ pc' = "onHalt" /\ ~flags'.halt /\ replies' = replies
    BY <1>5 DEF HaltStore, Goto, LinkTypes, ConsoleTypes, Registers, Flags
  <2>2. Emptied /\ NoHalted
    BY <2>1 DEF RequestInv
  <2> QED BY <1>1, <2>1, <2>2 DEF RequestInv, HaltPcs, NoHalted, HaltedOnce, Halts, Emptied
<1>6. CASE OnHalt \/ Flush
  <2>1. pc \in HaltPcs /\ pc' \in HaltPcs /\ flags' = flags /\ replies' = replies
    BY <1>6 DEF OnHalt, Flush, Goto, HaltPcs
  <2> QED BY <1>1, <2>1 DEF RequestInv, HaltPcs, NoHalted, HaltedOnce, Halts
<1>7. CASE FlushCount
  <2>1. pc = "clear" /\ pc' = "idleEnd" /\ flags' = flags /\ replies' = Append(replies, Reply("HALTED"))
    BY <1>7 DEF FlushCount, Goto, Say
  <2>2. Emptied /\ NoHalted /\ ~flags.halt
    BY <2>1 DEF RequestInv, HaltPcs
  <2>3. Reply("HALTED") \in Words
    BY ConstantFacts DEF Reply, Words
  <2>4. HaltedOnce'
    <3>1. /\ Len(replies') = Len(replies) + 1
          /\ \A i \in 1 .. Len(replies) : replies'[i] = replies[i]
      BY <2>1, <2>3, AppendProperties DEF LinkTypes, HostTypes
    <3>2. \A i \in 1 .. Len(replies) : ~Halts(i)'
      BY <2>2, <3>1 DEF NoHalted, Halts
    <3>3. \A i \in 1 .. Len(replies') : i \in 1 .. Len(replies) \/ i = Len(replies) + 1
      BY <3>1 DEF LinkTypes, HostTypes
    <3> QED BY <3>2, <3>3 DEF HaltedOnce
  <2> QED BY <1>1, <2>1, <2>2, <2>4 DEF RequestInv, HaltPcs, Emptied
<1> QED BY <1>2, <1>3, <1>4, <1>5, <1>6, <1>7 DEF ConsoleStep

LEMMA DispatchKeepsRequests ==
  ASSUME LinkTypes, RequestInv, DispatchStep, UNCHANGED hostVars
  PROVE  RequestInv'
<1>1. wire' = wire /\ mode' = mode /\ (Emptied' <=> Emptied)
  BY DEF hostVars, Emptied
<1>2. pc \in {"line", "wait"} /\ pc' \in {"idle", "wait"} /\ flags' = flags
  BY DEF DispatchStep, EmptyLine, IgnoredLine, SetLineNumber, ResendLine, CommentLine, Unhalt, HaltedLine,
         OpenUpload, EmergencyStop, ErrorLine, ExecuteLine, StartMove, MoveWaits, MoveEnds, CloseUpload,
         SaveLine, SaveFails, Runs, Dispatches, Uploads, Accepts, Gcode, Obey, Handled
<1>3. (NoHalted' <=> NoHalted) /\ (HaltedOnce => HaltedOnce')
  <2>1. CASE replies' = replies
    BY <2>1 DEF NoHalted, HaltedOnce, Halts
  <2>2. ASSUME NEW word \in {"ok", "!!", "Error"}, replies' = replies \o <<Reply(word)>>
        PROVE  (NoHalted' <=> NoHalted) /\ (HaltedOnce => HaltedOnce')
    <3>1. <<Reply(word)>> \in Seq(Words) /\ \A k \in 1 .. 1 : <<Reply(word)>>[k].say # "HALTED"
      BY ReplyType DEF Reply
    <3> QED BY <2>2, <3>1, AnswerKeepsHalted DEF LinkTypes, HostTypes
  <2>3. CASE ResendLine
    <3> DEFINE r == <<[say |-> "rs", n |-> currentline + 1]>>
    <3>1. r \in Seq(Words) /\ \A k \in 1 .. Len(r) : r[k].say # "HALTED"
      BY ConstantFacts DEF Words, LinkTypes, DispatchTypes
    <3>2. replies' = replies \o r
      BY <2>3 DEF ResendLine, Handled
    <3> QED BY <3>1, <3>2, AnswerKeepsHalted DEF LinkTypes, HostTypes
  <2>4. CASE CommentLine
    <3>1. \/ replies' = replies \o <<>>
          \/ replies' = replies \o <<Reply("ok")>>
      BY <2>4 DEF CommentLine, Obey, Handled
    <3>2. replies \o <<>> = replies
      BY ConcatEmptySeq DEF LinkTypes, HostTypes
    <3> QED BY <2>1, <2>2, <3>1, <3>2
  <2>5. CASE EmptyLine \/ IgnoredLine \/ SetLineNumber \/ MoveEnds
    <3>1. replies' = replies \o <<Reply("ok")>>
      BY <2>5 DEF EmptyLine, IgnoredLine, SetLineNumber, MoveEnds, Handled
    <3> QED BY <2>2, <3>1
  <2>6. CASE StartMove \/ MoveWaits
    <3>1. replies' = replies
      BY <2>6 DEF StartMove, MoveWaits
    <3> QED BY <2>1, <3>1
  <2>7. CASE Unhalt \/ HaltedLine \/ OpenUpload \/ EmergencyStop \/ ErrorLine \/ ExecuteLine
             \/ CloseUpload \/ SaveLine \/ SaveFails
    <3>1. \E word \in {"ok", "!!", "Error"} : replies' = replies \o <<Reply(word)>>
      BY <2>7 DEF Unhalt, HaltedLine, OpenUpload, EmergencyStop, ErrorLine, ExecuteLine, CloseUpload,
                  SaveLine, SaveFails, Obey, Handled
    <3> QED BY <2>2, <3>1
  <2> QED BY <2>3, <2>4, <2>5, <2>6, <2>7 DEF DispatchStep
<1> QED BY <1>1, <1>2, <1>3 DEF RequestInv, HaltPcs

\* The host, which sends nothing more after a ^X.
LEMMA HostKeepsRequests ==
  ASSUME LinkTypes, RequestInv, Host \/ SendRequest \/ EarlyTimeout
  PROVE  RequestInv'
<1> USE DEF LinkTypes
<1>1. UNCHANGED <<flags, pc, reg>>
  BY DEF Host, SendLine, HearOk, HearResend, HearStatus, HearAlarm, HearHalted, Restart, Timeout,
         SendRequest, EarlyTimeout, Repeat, HearKeeps, consoleVars, firmwareVars, machineVars
<1>2. CASE mode = "halting" /\ wire' = wire /\ mode' = mode /\ replies' = replies
  BY <1>1, <1>2 DEF RequestInv, NoHalted, HaltedOnce, Halts, Emptied
<1>3. ASSUME wire' = wire, mode' = mode, NoHalted => NoHalted', HaltedOnce => HaltedOnce'
      PROVE  RequestInv'
  BY <1>1, <1>3 DEF RequestInv, Emptied
<1>4. mode # "halting" => /\ \A i \in 1 .. Len(wire) : wire[i] # CtrlX
                          /\ ~flags.halt /\ pc \notin HaltPcs /\ NoHalted
  BY DEF RequestInv, Emptied
<1>5. ASSUME mode # "halting", NoHalted',
             \A i \in 1 .. Len(wire') : wire'[i] = CtrlX => i = Len(wire') /\ mode' = "halting"
      PROVE  RequestInv'
  <2>1. HaltedOnce'
    BY <1>5 DEF HaltedOnce, NoHalted
  <2>2. flags' = flags /\ pc' = pc /\ reg' = reg /\ ~flags.halt /\ pc \notin HaltPcs
    BY <1>1, <1>4, <1>5
  <2>3. pc # "haltStore" /\ (pc = "queryStore" => ~reg.flags.halt)
    BY <2>2 DEF RequestInv
  <2> QED BY <1>5, <2>1, <2>2, <2>3 DEF RequestInv
<1>6. CASE SendLine \/ Restart
  <2>1. mode # "halting" /\ replies' = replies
    BY <1>6 DEF SendLine, Restart, machineVars, firmwareVars
  <2>2. \A i \in 1 .. Len(wire') : wire'[i] # CtrlX
    <3>1. CASE SendLine
      <4>1. wire' = <<HostLine(next)>> \o Ending /\ HostLine(next) \in Lines
        BY <3>1, HostLineType, ConstantFacts DEF SendLine, HostTypes
      <4>2. HostLine(next) # CtrlX
        BY <4>1, LineFacts DEF Characters
      <4>3. \A i \in 1 .. Len(wire') : i > 1 => wire'[i] \in {NL, CR}
        BY <4>1, SentType
      <4>4. wire' # <<>> => wire'[1] = HostLine(next)
        <5>1. wire' \in Seq(Lines \cup Characters) /\ Head(wire') = HostLine(next)
          BY <4>1, SentType
        <5> QED BY <5>1
      <4>5. wire' \in Seq(Lines \cup Characters)
        BY <4>1, SentType
      <4> QED BY <4>2, <4>3, <4>4, <4>5, CharactersDiffer
    <3>2. CASE Restart
      <4>1. wire' = Ending
        BY <3>2 DEF Restart
      <4>2. \A i \in 1 .. Len(Ending) : Ending[i] \in {NL, CR}
        BY EndingType
      <4> QED BY <4>1, <4>2, CharactersDiffer
    <3> QED BY <1>6, <3>1, <3>2
  <2>3. NoHalted'
    BY <1>4, <2>1 DEF NoHalted, Halts
  <2> QED BY <1>5, <2>1, <2>2, <2>3
<1>7. CASE HearOk \/ HearResend \/ HearStatus \/ HearAlarm \/ HearHalted
  <2>1. replies \in Seq(Words) /\ replies # <<>> /\ replies' = Tail(replies) /\ wire' = wire
    BY <1>7 DEF HearOk, HearResend, HearStatus, HearAlarm, HearHalted, Hear, HearKeeps, HostTypes
  <2>2. /\ NoHalted => NoHalted'
        /\ HaltedOnce => HaltedOnce'
        /\ Head(replies).say = "HALTED" /\ HaltedOnce => NoHalted'
    BY <2>1, HearKeepsHalted
  <2>3. CASE HearHalted
    <3>1. Head(replies).say = "HALTED" /\ mode' = "alarm"
      BY <2>3 DEF HearHalted, Hear
    <3>2. NoHalted' /\ ~NoHalted
      <4>1. Head(replies) = replies[1] /\ 1 \in 1 .. Len(replies)
        BY <2>1
      <4> QED BY <2>2, <3>1, <4>1 DEF RequestInv, NoHalted, Halts
    <3>3. wire = <<>> /\ ~flags.halt /\ pc \notin HaltPcs
      BY <3>2 DEF RequestInv, Emptied
    <3> QED BY <1>1, <2>1, <2>2, <3>2, <3>3 DEF RequestInv, HaltPcs
  <2>4. CASE ~HearHalted
    <3>1. mode' = mode \/ mode # "halting"
      BY <1>7, <2>4 DEF HearOk, HearResend, HearStatus, HearAlarm
    <3>2. CASE mode' = mode
      BY <1>3, <2>1, <2>2, <3>2
    <3>3. CASE mode # "halting"
      BY <1>4, <1>5, <2>1, <2>2, <3>3
    <3> QED BY <3>1, <3>2, <3>3
  <2> QED BY <2>3, <2>4
<1>8. CASE Timeout \/ EarlyTimeout
  <2>1. wire' = wire /\ mode' = mode /\ replies' = replies
    BY <1>8 DEF Timeout, EarlyTimeout, Repeat, firmwareVars
  <2> QED BY <1>3, <2>1 DEF NoHalted, HaltedOnce, Halts
<1>9. CASE SendRequest
  <2>1. mode # "halting" /\ replies' = replies
    BY <1>9 DEF SendRequest, Sending, firmwareVars
  <2>2. NoHalted'
    BY <1>4, <2>1 DEF NoHalted, Halts
  <2>3. PICK c \in Requests :
          IF IsLine(c) THEN wire' = <<c>> \o Ending
          ELSE wire' = Append(wire, c) /\ mode' = (IF c = CtrlX THEN "halting" ELSE mode)
    BY <1>9 DEF SendRequest
  <2>4. c \in Lines \cup Characters
    BY RequestType
  <2>5. CASE IsLine(c)
    <3>1. wire' \in Seq(Lines \cup Characters) /\ Head(wire') = c
      BY <2>3, <2>4, <2>5, SentType
    <3>2. c # CtrlX /\ \A i \in 1 .. Len(wire') : i > 1 => wire'[i] \in {NL, CR}
      BY <2>3, <2>4, <2>5, SentType DEF IsLine, Characters
    <3> QED BY <1>5, <2>1, <2>2, <3>1, <3>2, CharactersDiffer
  <2>6. CASE ~IsLine(c)
    <3>1. /\ Len(wire') = Len(wire) + 1 /\ Len(wire) \in Nat /\ wire'[Len(wire) + 1] = c
          /\ \A i \in 1 .. Len(wire) : wire'[i] = wire[i]
      BY <2>3, <2>4, <2>6, AppendProperties DEF HostTypes
    <3>2. \A i \in 1 .. Len(wire') : wire'[i] = CtrlX => i = Len(wire') /\ mode' = "halting"
      BY <1>4, <2>1, <2>3, <2>6, <3>1
    <3> QED BY <1>5, <2>1, <2>2, <3>2
  <2> QED BY <2>5, <2>6
<1> QED BY <1>6, <1>7, <1>8, <1>9 DEF Host

\* The wire: the last ^X leaves it empty.
LEMMA WireKeepsRequests ==
  ASSUME LinkTypes, RequestInv, Deliver \/ DamageLine
  PROVE  RequestInv'
<1> USE DEF LinkTypes
<1>1. wire \in Seq(Lines \cup Characters) /\ wire # <<>>
  BY DEF Deliver, DamageLine, HostTypes
<1>2. /\ Tail(wire) \in Seq(Lines \cup Characters) /\ Len(Tail(wire)) = Len(wire) - 1
      /\ \A i \in 1 .. Len(wire) - 1 : Tail(wire)[i] = wire[i + 1]
      /\ Head(wire) = wire[1] /\ Len(wire) \in Nat \ {0}
  BY <1>1, HeadTailProperties
<1>3. ~flags.halt /\ pc \notin HaltPcs /\ NoHalted /\ pc # "haltStore"
      /\ (pc = "queryStore" => ~reg.flags.halt)
  BY <1>1 DEF RequestInv, Emptied
<1>4. UNCHANGED <<pc, reg, replies, mode>>
  BY DEF Deliver, DamageLine, OnSerialCharReceived, dispatchVars, firmwareVars, consoleVars
<1>5. NoHalted' /\ HaltedOnce'
  BY <1>3, <1>4 DEF NoHalted, HaltedOnce, Halts
<1>6. CASE Deliver
  <2>1. wire' = Tail(wire) /\ OnSerialCharReceived(Head(wire))
    BY <1>6 DEF Deliver
  <2>2. flags'.halt <=> (flags.halt \/ Head(wire) = CtrlX)
    <3>1. CASE ReceiveText(Head(wire))
      BY <3>1 DEF ReceiveText, ConsoleTypes, Flags
    <3>2. CASE ReceiveRequest(Head(wire))
      BY <3>2 DEF ReceiveRequest, ConsoleTypes, Flags
    <3> QED BY <2>1, <3>1, <3>2 DEF OnSerialCharReceived
  <2>3. \A i \in 1 .. Len(wire') : wire'[i] = CtrlX => i = Len(wire') /\ mode = "halting" /\ Head(wire) # CtrlX
    <3> SUFFICES ASSUME NEW i \in 1 .. Len(wire'), wire'[i] = CtrlX
                 PROVE  i = Len(wire') /\ mode = "halting" /\ Head(wire) # CtrlX
      OBVIOUS
    <3>1. i + 1 \in 1 .. Len(wire) /\ wire[i + 1] = CtrlX /\ Len(wire') = Len(wire) - 1 /\ 1 \in 1 .. Len(wire)
      BY <1>2, <2>1
    <3>2. i + 1 = Len(wire) /\ mode = "halting"
      BY <3>1 DEF RequestInv
    <3>3. wire[1] = CtrlX => 1 = Len(wire)
      BY <3>1 DEF RequestInv
    <3>4. i + 1 # 1
      OBVIOUS
    <3>5. Head(wire) # CtrlX
      BY <1>2, <3>2, <3>3, <3>4
    <3>6. i = Len(wire) - 1
      <4>1. i \in 1 .. Len(wire) - 1 /\ Len(wire) \in Nat
        BY <1>2, <3>1
      <4> QED BY <3>2, <4>1
    <3> QED BY <3>1, <3>2, <3>5, <3>6
  <2>4. Head(wire) = CtrlX => wire' = <<>> /\ mode = "halting"
    <3> SUFFICES ASSUME Head(wire) = CtrlX PROVE wire' = <<>> /\ mode = "halting"
      OBVIOUS
    <3>1. Len(wire) = 1 /\ mode = "halting"
      <4>1. 1 \in 1 .. Len(wire) /\ wire[1] = CtrlX
        BY <1>2
      <4> QED BY <4>1 DEF RequestInv
    <3>2. wire' \in Seq(Lines \cup Characters) /\ Len(wire') = 0
      BY <1>2, <2>1, <3>1
    <3> QED BY <3>1, <3>2, EmptySeq
  <2> QED BY <1>3, <1>4, <1>5, <2>2, <2>3, <2>4 DEF RequestInv, Emptied, HaltPcs
<1>7. CASE DamageLine
  <2>1. flags' = flags
    BY <1>7 DEF DamageLine, firmwareVars, consoleVars
  <2>2. CASE wire' = <<>>
    BY <1>3, <1>4, <1>5, <2>1, <2>2 DEF RequestInv, HaltPcs
  <2>3. CASE wire' # <<>>
    <3>1. PICK how \in Damage \ {"end"} : /\ IsLine(Head(wire)) /\ Head(wire).num > 0
                                          /\ wire' = <<Damaged(Head(wire), how)>> \o Tail(wire)
      BY <1>7, <2>3 DEF DamageLine
    <3>2. Head(wire) \in Lines
      BY <1>1, <3>1 DEF IsLine
    <3> DEFINE l == Damaged(Head(wire), how)
    <3>3. l \in Lines /\ l # CtrlX
      <4>1. l \in Lines
        BY <3>1, <3>2, DamageType DEF Lines
      <4> QED BY <4>1, LineFacts DEF Characters
    <3> HIDE DEF l
    <3>4. <<l>> \in Seq(Lines \cup Characters) /\ Len(<<l>>) = 1 /\ <<l>>[1] = l
      BY <3>3
    <3>5. /\ Len(<<l>> \o Tail(wire)) = 1 + Len(Tail(wire))
          /\ \A i \in 1 .. 1 + Len(Tail(wire)) :
               (<<l>> \o Tail(wire))[i] = IF i <= 1 THEN <<l>>[i] ELSE Tail(wire)[i - 1]
      BY <1>2, <3>4, ConcatProperties
    <3>6. Len(wire') = Len(wire) /\ \A i \in 1 .. Len(wire) : wire'[i] = CtrlX => wire[i] = CtrlX
      <4>1. wire' = <<l>> \o Tail(wire)
        BY <3>1 DEF l
      <4>2. Len(wire') = Len(wire)
        BY <1>2, <3>5, <4>1
      <4>3. ASSUME NEW i \in 1 .. Len(wire), wire'[i] = CtrlX PROVE wire[i] = CtrlX
        <5>1. i # 1
          BY <3>3, <3>4, <3>5, <4>1, <4>3, <1>2
        <5>2. wire'[i] = Tail(wire)[i - 1] /\ i - 1 \in 1 .. Len(wire) - 1
          BY <1>2, <3>5, <4>1, <5>1
        <5>3. Tail(wire)[i - 1] = wire[i - 1 + 1] /\ i - 1 + 1 = i
          BY <1>2, <5>2
        <5> QED BY <4>3, <5>2, <5>3
      <4> QED BY <4>2, <4>3
    <3> QED BY <1>3, <1>4, <1>5, <2>1, <3>6 DEF RequestInv, HaltPcs
  <2> QED BY <2>2, <2>3
<1> QED BY <1>6, <1>7

LEMMA RequestKept ==
  ASSUME LinkTypes, RequestInv, [Next]_vars
  PROVE  RequestInv'
<1>1. CASE Firmware
  BY <1>1, ConsoleKeepsRequests, DispatchKeepsRequests DEF Firmware
<1>2. CASE Host \/ SendRequest \/ EarlyTimeout
  BY <1>2, HostKeepsRequests
<1>3. CASE Deliver \/ DamageLine
  BY <1>3, WireKeepsRequests
<1>4. CASE OtherHalt \/ UNCHANGED vars
  <2>1. UNCHANGED <<flags, pc, reg, replies, wire, mode>>
    BY <1>4 DEF OtherHalt, consoleVars, hostVars, vars, machineVars, firmwareVars
  <2> QED BY <2>1 DEF RequestInv, Emptied, NoHalted, HaltedOnce, Halts
<1> QED BY <1>1, <1>2, <1>3, <1>4 DEF Next

LEMMA RequestInit == Init => RequestInv
<1> SUFFICES ASSUME Init PROVE RequestInv
  OBVIOUS
<1>1. wire = <<>> /\ replies = <<>> /\ pc = "main" /\ flags.halt = FALSE
  BY DEF Init, ConsoleInit, Unloaded
<1> QED BY <1>1 DEF RequestInv, NoHalted, HaltedOnce, HaltPcs

-----------------------------------------------------------------------------
(* The count of lines *)

\* How many line ends there are, when a character is added, and when those up
\* to the first line end are taken.
LEMMA LinesInType ==
  ASSUME NEW S, NEW s \in Seq(S)
  PROVE  /\ IsFiniteSet({i \in 1 .. Len(s) : s[i] = NL})
         /\ LinesIn(s) = Cardinality({i \in 1 .. Len(s) : s[i] = NL})
         /\ LinesIn(s) \in 0 .. Len(s)
<1> DEFINE I == {i \in 1 .. Len(s) : s[i] = NL}
<1>1. Len(s) \in Nat /\ DOMAIN s = 1 .. Len(s)
  OBVIOUS
<1>2. IsFiniteSet(1 .. Len(s)) /\ Cardinality(1 .. Len(s)) = Len(s)
  <2>1. 1 \in Int /\ Len(s) \in Int
    BY <1>1
  <2>2. IsFiniteSet(1 .. Len(s)) /\ Cardinality(1 .. Len(s)) = IF 1 > Len(s) THEN 0 ELSE Len(s) - 1 + 1
    BY <2>1, FS_Interval
  <2> QED BY <1>1, <2>2
<1>3. I \in SUBSET (1 .. Len(s))
  OBVIOUS
<1>4. LinesIn(s) = Cardinality(I)
  BY <1>1 DEF LinesIn
<1> HIDE DEF I
<1>5. IsFiniteSet(I) /\ Cardinality(I) <= Len(s)
  BY <1>2, <1>3, FS_Subset
<1>6. Cardinality(I) \in Nat
  BY <1>5, FS_CardinalityType
<1> QED BY <1>1, <1>4, <1>5, <1>6 DEF I

LEMMA LinesInNothing == LinesIn(<<>>) = 0
<1>1. <<>> \in Seq(Lines) /\ Len(<<>>) = 0
  OBVIOUS
<1>2. LinesIn(<<>>) \in 0 .. Len(<<>>)
  BY <1>1, LinesInType
<1> QED BY <1>1, <1>2

LEMMA LinesInAppend ==
  ASSUME NEW S, NEW s \in Seq(S), NEW c \in S
  PROVE  LinesIn(Append(s, c)) = IF c = NL THEN LinesIn(s) + 1 ELSE LinesIn(s)
<1> DEFINE I == {i \in 1 .. Len(s) : s[i] = NL}
           t == Append(s, c)
           J == {i \in 1 .. Len(t) : t[i] = NL}
<1>1. /\ t \in Seq(S) /\ Len(t) = Len(s) + 1 /\ Len(s) \in Nat
      /\ \A i \in 1 .. Len(s) : t[i] = s[i]
      /\ t[Len(s) + 1] = c
  BY AppendProperties
<1>2. IsFiniteSet(I) /\ LinesIn(s) = Cardinality(I) /\ LinesIn(s) \in 0 .. Len(s)
  BY LinesInType
<1>3. LinesIn(t) = Cardinality(J)
  BY <1>1, LinesInType
<1> HIDE DEF t
<1>4. CASE c = NL
  <2>1. J = I \cup {Len(s) + 1}
    BY <1>1, <1>4
  <2>2. Len(s) + 1 \notin I
    BY <1>1
  <2> HIDE DEF I, J
  <2>3. Cardinality(I \cup {Len(s) + 1}) = Cardinality(I) + 1
    BY <1>2, <2>2, FS_AddElement
  <2> QED BY <1>2, <1>3, <1>4, <2>1, <2>3 DEF t
<1>5. CASE c # NL
  <2>1. J = I
    BY <1>1, <1>5
  <2> QED BY <1>2, <1>3, <1>5, <2>1 DEF t
<1> QED BY <1>4, <1>5

LEMMA LinesInBehind ==
  ASSUME NEW s \in Seq(Lines \cup {NL}), LinesIn(s) > 0
  PROVE  /\ FirstEnd(s) \in 1 .. Len(s)
         /\ LinesIn(SubSeq(s, FirstEnd(s) + 1, Len(s))) = LinesIn(s) - 1
<1> DEFINE I == {i \in 1 .. Len(s) : s[i] = NL}
           e == FirstEnd(s)
           t == SubSeq(s, e + 1, Len(s))
           J == {i \in 1 .. Len(t) : t[i] = NL}
           K == I \ {e}
<1>1. /\ e \in 0 .. Len(s)
      /\ e > 0 => s[e] = NL
      /\ \A i \in 1 .. e - 1 : s[i] # NL
      /\ e = 0 => \A i \in 1 .. Len(s) : s[i] # NL
  BY FirstEndFacts
<1>2. IsFiniteSet(I) /\ LinesIn(s) = Cardinality(I) /\ LinesIn(s) \in 0 .. Len(s)
  BY LinesInType
<1> HIDE DEF e
<1>3. e \in 1 .. Len(s)
  <2>1. I # {}
    <3> HIDE DEF I
    <3> QED BY <1>2, FS_EmptySet
  <2> QED BY <1>1, <2>1
<1>4. /\ t \in Seq(Lines \cup {NL}) /\ Len(t) = Len(s) - e
      /\ \A k \in 1 .. Len(s) - e : t[k] = s[k + e]
  BY <1>3, BehindType
<1>5. IsFiniteSet(J) /\ LinesIn(t) = Cardinality(J)
  BY <1>4, LinesInType
<1> HIDE DEF t
<1>6. e \in I /\ \A i \in K : i \in e + 1 .. Len(s) /\ s[i] = NL
  BY <1>1, <1>3
<1>7. ExistsBijection(J, K)
  <2> DEFINE f == [j \in J |-> j + e]
  <2>1. \A j \in J : j \in 1 .. Len(s) - e /\ j + e \in K
    <3> SUFFICES ASSUME NEW j \in J PROVE j \in 1 .. Len(s) - e /\ j + e \in K
      OBVIOUS
    <3>1. j \in 1 .. Len(s) - e /\ s[j + e] = NL
      BY <1>4
    <3> QED BY <1>3, <3>1
  <2>2. \A k \in K : k - e \in J /\ k - e + e = k
    <3> SUFFICES ASSUME NEW k \in K PROVE k - e \in J /\ k - e + e = k
      OBVIOUS
    <3>1. k \in e + 1 .. Len(s) /\ s[k] = NL
      BY <1>6
    <3>2. k - e \in 1 .. Len(s) - e /\ k - e + e = k
      BY <1>3, <3>1
    <3>3. t[k - e] = s[k]
      BY <1>4, <3>2
    <3> QED BY <1>4, <3>1, <3>2, <3>3
  <2>3. \A a, b \in J : a + e = b + e => a = b
    BY <1>3, <2>1
  <2> HIDE DEF J, K
  <2>4. f \in Injection(J, K)
    BY <2>1, <2>3 DEF Injection, IsInjective
  <2>5. f \in Surjection(J, K)
    BY <2>1, <2>2 DEF Surjection
  <2> QED BY <2>4, <2>5 DEF Bijection, ExistsBijection
<1> HIDE DEF I, J
<1>8. IsFiniteSet(K) /\ Cardinality(K) = Cardinality(I) - 1
  BY <1>2, <1>6, FS_RemoveElement
<1>9. Cardinality(K) = Cardinality(J)
  BY <1>5, <1>7, FS_Bijection
<1> QED BY <1>2, <1>3, <1>5, <1>8, <1>9 DEF e, t

\* Arithmetic of a byte that counts fewer than it can hold.
LEMMA CountArithmetic ==
  ASSUME NEW k \in Nat, k < 2 ^ CountBits
  PROVE  /\ k % 2 ^ CountBits = k
         /\ k + 1 < 2 ^ CountBits => (k + 1) % 2 ^ CountBits = k + 1
         /\ (((k + 1) % 2 ^ CountBits) - 1) % 2 ^ CountBits = k
<1>1. ASSUME NEW m \in Nat, k < m
      PROVE  /\ k % m = k
             /\ k + 1 < m => (k + 1) % m = k + 1
             /\ (((k + 1) % m) - 1) % m = k
  <2>1. k % m = k
    BY <1>1
  <2>2. CASE k + 1 < m
    <3>1. (k + 1) % m = k + 1
      BY <1>1, <2>2
    <3>2. k + 1 - 1 = k
      OBVIOUS
    <3> QED BY <2>1, <2>2, <3>1, <3>2
  <2>3. CASE k + 1 = m
    <3>1. (k + 1) % m = 0
      BY <1>1, <2>3
    <3>2. (0 - 1) % m = m - 1
      BY <1>1, <2>3
    <3>3. m - 1 = k
      BY <1>1, <2>3
    <3> QED BY <1>1, <2>1, <2>3, <3>1, <3>2, <3>3
  <2> QED BY <1>1, <2>2, <2>3
<1>2. 2 ^ CountBits \in Nat
  BY ConstantFacts
<1> QED BY <1>1, <1>2

LEMMA BelowNothing ==
  ASSUME NEW m \in Nat, m > 0
  PROVE  (0 - 1) % m = m - 1
OBVIOUS

\* The count, and what stores have undone of it.
CountInv == missed \in Nat /\ LinesIn(buffer) = Counted + missed

\* The buffer holds fewer line ends than the counter can count.
CounterHolds == RingSize <= 2 ^ CountBits

LEMMA LinesInBuffer ==
  ASSUME CounterHolds, ConsoleTypes
  PROVE  /\ LinesIn(buffer) \in Nat /\ LinesIn(buffer) < 2 ^ CountBits
         /\ buffer \in Seq(Lines \cup {NL})
<1>1. buffer \in Seq(Lines \cup {NL}) /\ Len(buffer) < RingSize /\ Len(buffer) \in Nat
  BY DEF ConsoleTypes
<1>2. LinesIn(buffer) \in 0 .. Len(buffer)
  BY <1>1, LinesInType
<1> QED BY <1>1, <1>2, ConstantFacts DEF CounterHolds

\* The count does not depend on anything else.
LEMMA CountStays ==
  ASSUME CountInv, UNCHANGED <<buffer, missed>>, Counted' = Counted
  PROVE  CountInv'
<1>1. LinesIn(buffer') = LinesIn(buffer)
  BY DEF LinesIn
<1> QED BY <1>1 DEF CountInv

\* The interrupt counts the line end that it puts into the buffer, or misses it.
LEMMA InterruptCounts ==
  ASSUME CounterHolds, ConsoleTypes, CountInv,
         NEW c \in Lines \cup Characters, OnSerialCharReceived(c)
  PROVE  CountInv'
<1>1. UNCHANGED <<pc, reg>>
  BY DEF OnSerialCharReceived
<1>2. CASE UNCHANGED <<buffer, lf_count, missed>>
  <2>1. Counted' = Counted
    BY <1>1, <1>2 DEF Counted
  <2> QED BY <2>1, <1>2, CountStays
<1>3. ASSUME NEW d \in Lines \cup {NL}, Put(d), ~Full PROVE CountInv'
  <2> DEFINE k == LinesIn(buffer)
             M == 2 ^ CountBits
  <2>1. /\ buffer' = Append(buffer, d)
        /\ lf_count' = IF d = NL THEN (lf_count + 1) % M ELSE lf_count
        /\ missed' = IF d = NL /\ Undone THEN missed + 1 ELSE missed
    BY <1>3 DEF Put
  <2>2. k \in Nat /\ k < M /\ M \in Nat /\ buffer \in Seq(Lines \cup {NL})
    BY LinesInBuffer, ConstantFacts
  <2>3. LinesIn(buffer') = IF d = NL THEN k + 1 ELSE k
    BY <2>1, <2>2, LinesInAppend
  <2>4. CASE d # NL
    <3>1. lf_count' = lf_count /\ missed' = missed /\ LinesIn(buffer') = LinesIn(buffer)
      BY <2>1, <2>3, <2>4
    <3>2. Counted' = Counted
      BY <3>1, <1>1 DEF Counted
    <3> QED BY <3>1, <3>2 DEF CountInv
  <2>5. CASE d = NL
    <3>1. k + 1 < M
      <4>1. Len(buffer) < RingSize - 1
        BY <1>3, ConstantFacts DEF Full, ConsoleTypes
      <4>2. k \in 0 .. Len(buffer) /\ Len(buffer) \in Nat
        <5>1. buffer \in Seq(Lines \cup {NL})
          BY <2>2
        <5>2. k \in 0 .. Len(buffer)
          BY <5>1, LinesInType
        <5> QED BY <5>1, <5>2
      <4>3. k + 1 < RingSize
        BY <4>1, <4>2, ConstantFacts
      <4> QED BY <4>3, <2>2, ConstantFacts DEF CounterHolds
    <3>2. LinesIn(buffer') = k + 1 /\ lf_count' = (lf_count + 1) % M
      BY <2>1, <2>3, <2>5
    <3>3. lf_count \in 0 .. M - 1 /\ lf_count \in Nat /\ missed \in Nat /\ k = Counted + missed
      BY <2>2 DEF ConsoleTypes, CountInv
    <3>4. CASE Undone
      <4>1. missed' = missed + 1
        BY <2>1, <2>5, <3>4
      <4>2. Counted' = Counted /\ Counted \in Int
        <5>1. reg.count - 1 \in Int
          BY ConstantFacts DEF ConsoleTypes, Registers
        <5>2. (reg.count - 1) % M \in 0 .. M - 1
          BY <5>1, CountType
        <5>5. (reg.count - 1) % M \in Int
          BY <5>2, <2>2
        <5>3. Counted = (IF pc = "countStore" THEN (reg.count - 1) % M ELSE 0)
          BY <3>4 DEF Counted, Undone
        <5>4. Counted' = (IF pc = "countStore" THEN (reg.count - 1) % M ELSE 0)
          BY <3>4, <1>1 DEF Counted, Undone
        <5> QED BY <5>3, <5>4, <5>5
      <4>3. k + 1 = Counted + (missed + 1)
        BY <4>2, <3>3, <2>2
      <4> QED BY <4>1, <4>2, <4>3, <3>2, <3>3 DEF CountInv
    <3>5. CASE ~Undone /\ pc = "count"
      <4>1. Counted = (lf_count - 1) % M /\ Counted' = (((lf_count + 1) % M) - 1) % M
        BY <3>5, <3>2, <1>1 DEF Counted
      <4>2. Counted' = lf_count
        BY <4>1, <3>3, <2>2, CountArithmetic
      <4>3. lf_count # 0
        <5> SUFFICES ASSUME lf_count = 0 PROVE FALSE
          OBVIOUS
        <5>1. Counted = (0 - 1) % M
          BY <4>1
        <5>2. (0 - 1) % M = M - 1
          BY <2>2, <3>1, BelowNothing
        <5> QED BY <5>1, <5>2, <3>1, <3>3, <2>2
      <4>4. Counted = lf_count - 1
        <5>1. lf_count - 1 \in Nat /\ lf_count - 1 < M
          BY <4>3, <3>3, <2>2
        <5> QED BY <5>1, <4>1, CountArithmetic
      <4>5. missed' = missed
        BY <2>1, <3>5
      <4>6. k + 1 = lf_count + missed
        BY <4>4, <3>3, <2>2
      <4> QED BY <4>2, <4>5, <4>6, <3>2, <3>3 DEF CountInv
    <3>6. CASE ~Undone /\ pc # "count"
      <4>1. Counted = lf_count /\ Counted' = lf_count'
        BY <3>6, <1>1 DEF Counted, Undone
      <4>2. lf_count + 1 < M
        BY <4>1, <3>1, <3>3, <2>2
      <4>3. lf_count' = lf_count + 1
        BY <4>2, <3>2, <3>3, <2>2, CountArithmetic
      <4>4. missed' = missed /\ k + 1 = (lf_count + 1) + missed
        BY <2>1, <2>2, <3>3, <3>6, <4>1
      <4> QED BY <4>1, <4>3, <4>4, <3>2, <3>3 DEF CountInv
    <3> QED BY <3>4, <3>5, <3>6
  <2> QED BY <2>4, <2>5
<1>4. \/ UNCHANGED <<buffer, lf_count, missed>>
      \/ \E d \in Lines \cup {NL} : Put(d) /\ ~Full
  <2>1. CASE ReceiveText(c)
    <3>1. UNCHANGED <<buffer, lf_count, missed>> \/ Put(IF c = CR THEN NL ELSE c)
      BY <2>1 DEF ReceiveText
    <3>2. (IF c = CR THEN NL ELSE c) \in Lines \cup {NL}
      BY <2>1 DEF ReceiveText, Characters
    <3> QED BY <3>1, <3>2 DEF Put
  <2>2. CASE ReceiveRequest(c)
    BY <2>2 DEF ReceiveRequest
  <2> QED BY <2>1, <2>2 DEF OnSerialCharReceived
<1> QED BY <1>2, <1>3, <1>4

\* The thread takes a line, and counts it off.
LEMMA ConsoleCounts ==
  ASSUME CounterHolds, ConsoleTypes, CountInv, ConsoleStep
  PROVE  CountInv'
<1>1. LinesIn(buffer) \in Nat /\ LinesIn(buffer) < 2 ^ CountBits /\ buffer \in Seq(Lines \cup {NL})
  BY LinesInBuffer
<1>2. CASE LoopNothing \/ IdleNothing \/ QueryLoad \/ QueryStore \/ HaltLoad \/ HaltStore \/ OnHalt \/ IdleEnd
  <2>1. UNCHANGED <<buffer, lf_count, missed>> /\ pc \notin {"count", "countStore", "clear"}
    BY <1>2 DEF LoopNothing, IdleNothing, QueryLoad, QueryStore, HaltLoad, HaltStore, OnHalt, IdleEnd
  <2>2. pc' \notin {"count", "countStore", "clear"}
    BY <1>2 DEF LoopNothing, IdleNothing, QueryLoad, QueryStore, HaltLoad, HaltStore, OnHalt, IdleEnd,
                Goto, ConsoleTypes
  <2>3. Counted' = Counted
    BY <2>1, <2>2 DEF Counted
  <2> QED BY <2>1, <2>3, CountStays
<1>3. CASE LoopLine
  <2>1. /\ pc = "main" /\ lf_count > 0 /\ pc' = "count" /\ lf_count' = lf_count /\ missed' = missed
        /\ buffer' = SubSeq(buffer, FirstEnd(buffer) + 1, Len(buffer))
    BY <1>3 DEF LoopLine, LoopKeeps, FirstEnd, Goto
  <2>2. /\ LinesIn(buffer) = lf_count + missed /\ missed \in Nat /\ lf_count \in Nat
        /\ lf_count < 2 ^ CountBits
    BY <2>1, ConstantFacts DEF CountInv, Counted, ConsoleTypes
  <2>3. LinesIn(buffer) > 0
    BY <2>1, <2>2
  <2>4. LinesIn(buffer') = LinesIn(buffer) - 1
    BY <1>1, <2>1, <2>3, LinesInBehind
  <2>5. Counted' = (lf_count - 1) % 2 ^ CountBits
    BY <2>1 DEF Counted
  <2>6. (lf_count - 1) % 2 ^ CountBits = lf_count - 1
    <3>1. lf_count - 1 \in Nat /\ lf_count - 1 < 2 ^ CountBits
      BY <2>1, <2>2, ConstantFacts
    <3> QED BY <3>1, CountArithmetic
  <2>7. LinesIn(buffer) - 1 = (lf_count - 1) + missed
    BY <2>2
  <2> QED BY <2>1, <2>2, <2>4, <2>5, <2>6, <2>7 DEF CountInv
<1>4. CASE CountLoad
  <2>1. /\ pc = "count" /\ pc' = "countStore" /\ UNCHANGED <<buffer, lf_count, missed>>
        /\ reg'.count = lf_count
    BY <1>4 DEF CountLoad, LoopKeeps, Goto, Unloaded
  <2>2. Counted' = Counted
    BY <2>1 DEF Counted
  <2> QED BY <2>1, <2>2, CountStays
<1>5. CASE CountStore
  <2>1. /\ pc = "countStore" /\ pc' = "line" /\ UNCHANGED <<buffer, missed>>
        /\ lf_count' = (reg.count - 1) % 2 ^ CountBits
    BY <1>5 DEF CountStore, LoopKeeps, Goto
  <2>2. Counted' = Counted
    BY <2>1 DEF Counted
  <2> QED BY <2>1, <2>2, CountStays
<1>6. CASE Flush
  <2>1. buffer' = <<>> /\ missed' = 0 /\ pc' = "clear"
    BY <1>6 DEF Flush, Goto
  <2>2. LinesIn(buffer') = 0
    BY <2>1, LinesInNothing
  <2>3. Counted' = 0
    BY <2>1 DEF Counted
  <2> QED BY <2>1, <2>2, <2>3 DEF CountInv
<1>7. CASE FlushCount
  <2>1. pc = "clear" /\ UNCHANGED <<buffer, missed>> /\ lf_count' = 0 /\ pc' = "idleEnd"
    BY <1>7 DEF FlushCount, Goto
  <2>2. Counted' = Counted
    BY <2>1 DEF Counted
  <2> QED BY <2>1, <2>2, CountStays
<1> QED BY <1>2, <1>3, <1>4, <1>5, <1>6, <1>7 DEF ConsoleStep

LEMMA CountKept ==
  ASSUME CounterHolds, LinkTypes, CountInv, [Next]_vars
  PROVE  CountInv'
<1>1. CASE ConsoleStep
  BY <1>1, ConsoleCounts DEF LinkTypes
<1>2. CASE Deliver
  <2>1. wire # <<>> /\ OnSerialCharReceived(Head(wire))
    BY <1>2 DEF Deliver
  <2>2. Head(wire) \in Lines \cup Characters
    BY <2>1 DEF LinkTypes, HostTypes
  <2> QED BY <2>1, <2>2, InterruptCounts DEF LinkTypes
<1>3. CASE DispatchStep
  <2>1. UNCHANGED <<buffer, lf_count, missed>> /\ pc \in {"line", "wait"} /\ pc' \in {"idle", "wait"}
    BY <1>3 DEF DispatchStep, EmptyLine, IgnoredLine, SetLineNumber, ResendLine, CommentLine, Unhalt, HaltedLine,
           OpenUpload, EmergencyStop, ErrorLine, ExecuteLine, StartMove, MoveWaits, MoveEnds, CloseUpload,
           SaveLine, SaveFails, Runs, Dispatches, Uploads, Accepts, Gcode, Obey, Handled
  <2>2. Counted' = Counted
    BY <2>1 DEF Counted
  <2> QED BY <2>1, <2>2, CountStays
<1>4. CASE OtherHalt \/ Host \/ SendRequest \/ EarlyTimeout \/ DamageLine \/ UNCHANGED vars
  <2>1. UNCHANGED <<buffer, lf_count, pc, reg, missed>>
    BY <1>4 DEF OtherHalt, Host, SendLine, HearOk, HearResend, HearStatus, HearAlarm, HearHalted, Restart,
              Timeout, SendRequest, EarlyTimeout, Repeat, DamageLine, HearKeeps,
              consoleVars, firmwareVars, machineVars, vars
  <2>2. Counted' = Counted
    BY <2>1 DEF Counted
  <2> QED BY <2>1, <2>2, CountStays
<1> QED BY <1>1, <1>2, <1>3, <1>4 DEF Next, Firmware

\* The count of lines is right but for the line ends of which a store undid the count,
\* wherever the interrupt comes: on_main_loop finds the line that it counts on.  The
\* buffer must hold no more line ends than a byte counts.
THEOREM LinesAreCounted ==
  ASSUME CounterHolds
  PROVE  Spec => []LinesCounted
<1>1. Init => LinkTypes /\ CountInv
  <2> SUFFICES ASSUME Init PROVE LinkTypes /\ CountInv
    OBVIOUS
  <2>1. buffer = <<>> /\ lf_count = 0 /\ pc = "main" /\ missed = 0
    BY DEF Init, ConsoleInit
  <2>2. Counted = 0
    BY <2>1 DEF Counted
  <2>3. CountInv
    BY <2>1, <2>2, LinesInNothing DEF CountInv
  <2> QED BY <2>3, TypesInit
<1>2. LinkTypes /\ CountInv /\ [Next]_vars => LinkTypes' /\ CountInv'
  BY TypesKept, CountKept
<1>3. LinkTypes /\ CountInv => LinesCounted
  <2> SUFFICES ASSUME LinkTypes, CountInv, pc = "main", lf_count > 0 PROVE LinesIn(buffer) > 0
    BY DEF CountInv, LinesCounted
  <2>1. LinesIn(buffer) = lf_count + missed /\ missed \in Nat /\ lf_count \in Nat
    BY ConstantFacts DEF CountInv, Counted, LinkTypes, ConsoleTypes
  <2> QED BY <2>1
<1> QED BY <1>1, <1>2, <1>3, PTL DEF Spec

-----------------------------------------------------------------------------
(* Where a job line can be *)

\* The wire holds at most one line, in front, with its ending behind it.
WireShape ==
  /\ \A i \in 1 .. Len(wire) : IsLine(wire[i]) => i = 1
  /\ wire # <<>> /\ IsLine(Head(wire)) => Ends(Tail(wire))
  /\ flags.cr \/ reg.flags.cr \/ (\E i \in 1 .. Len(wire) : wire[i] = CR) => Head(Ending) = CR

\* What is added to the buffer begins a line.
LineStart == buffer = <<>> \/ buffer[Len(buffer)] = NL

\* Lines that close an upload or clear a halt.
Breakers == PlainLines \ {Text(None, "M112")}

Started(m) == buffer[m] = Start /\ (m = 1 \/ buffer[m - 1] = NL)

\* Line k of the job is one between M28 and M29.
Open(k) == \E a \in 1 .. k : Program[a] = "M28" /\ \A m \in a .. k : Program[m] # "M29"

\* Lines between M28 and M29 do not get to the machine, unless M28 was refused.
Saved == ~halted /\ Open(currentline) => uploading \/ fd = "refused"

\* What is in hand leaves, or has left, the upload closed in the middle of the job.
Unsaved ==
  \/ received = <<>> /\ ~Saved
  \/ received # <<>> /\ This # Start /\ (~Saved \/ This \in Breakers)

\* Behind everything that breaks an upload, before j, the job is begun anew.
Covered(j) ==
  /\ \A i \in 1 .. j - 1 : buffer[i] \in Breakers => \E m \in i + 1 .. j - 1 : Started(m)
  /\ Unsaved => \E m \in 1 .. j - 1 : Started(m)

CoveredNext == Covered(Len(buffer) + 1)

\* The host is past the lines that set up the job.
PastSetup == mode = "job" \/ (mode = "setup" /\ next = 1)
Sends(lines) == wire # <<>> /\ Head(wire) \in lines

StreamInv ==
  /\ WireShape
  /\ mode = "setup" => LineStart \/ Ends(wire)
  /\ \A j \in 1 .. Len(buffer) : buffer[j] \in JobLines => Covered(j)
  /\ received # <<>> /\ This \in JobLines => Saved
  /\ Sends(JobLines) => CoveredNext
  /\ PastSetup => /\ ~Sends(Breakers)
                  /\ CoveredNext \/ (Sends({Start}) /\ LineStart)

\* If one of those lines did get to the machine, M28 was refused, in this job; and
\* no line did that was damaged.
UploadInv ==
  /\ \A i \in 1 .. Len(executed) : executed[i].sum # "bad"
  /\ (\E i \in 1 .. Len(executed) : executed[i].kind = "data") =>
       fd = "refused" /\ \E a \in 1 .. currentline : Program[a] = "M28"

\* A job that can be told apart from what sets it up: the lines that number anew
\* and that clear a halt are not in it, and it has one upload.
PlainJob ==
  /\ NoRenumbering /\ \A k \in 1 .. N : Program[k] # "M999"
  /\ \A a, b \in 1 .. N : Program[a] = "M28" /\ Program[b] = "M28" => a = b
  /\ \A k \in 1 .. N : Program[k] = "data" => Open(k - 1)
  /\ \A i \in 1 .. Len(Setup) : Setup[i] # "M28"

\* What is covered stays so while the buffer keeps what is in front.
LEMMA CoverStays ==
  ASSUME NEW j \in Nat, Covered(j), \A i \in 1 .. j - 1 : buffer'[i] = buffer[i], Unsaved' => Unsaved
  PROVE  Covered(j)'
<1>1. \A m \in 1 .. j - 1 : Started(m) => Started(m)'
  <2> SUFFICES ASSUME NEW m \in 1 .. j - 1, Started(m) PROVE Started(m)'
    OBVIOUS
  <2>1. buffer'[m] = buffer[m]
    OBVIOUS
  <2>2. m # 1 => m - 1 \in 1 .. j - 1
    OBVIOUS
  <2> QED BY <2>1, <2>2 DEF Started
<1>2. ASSUME NEW i \in 1 .. j - 1, buffer'[i] \in Breakers
      PROVE  \E m \in i + 1 .. j - 1 : Started(m)'
  <2>1. buffer[i] \in Breakers
    BY <1>2
  <2>2. PICK m \in i + 1 .. j - 1 : Started(m)
    BY <2>1 DEF Covered
  <2>3. m \in 1 .. j - 1
    BY <2>2
  <2> QED BY <1>1, <2>2, <2>3
<1>3. ASSUME Unsaved' PROVE \E m \in 1 .. j - 1 : Started(m)'
  <2>1. PICK m \in 1 .. j - 1 : Started(m)
    BY <1>3 DEF Covered
  <2> QED BY <1>1, <2>1
<1> QED BY <1>2, <1>3 DEF Covered

\* Steps that change neither the streams nor what breaks an upload.
LEMMA StreamStays ==
  ASSUME LinkTypes, StreamInv, UNCHANGED <<buffer, wire, next, mode>>,
         Unsaved' => Unsaved,
         flags'.cr \/ reg'.flags.cr => flags.cr \/ reg.flags.cr,
         received' # <<>> /\ This' \in JobLines => Saved'
  PROVE  StreamInv'
<1>1. Len(buffer) \in Nat /\ Len(buffer') = Len(buffer)
  BY DEF LinkTypes, ConsoleTypes
<1>2. \A j \in 1 .. Len(buffer) + 1 : Covered(j) => Covered(j)'
  <2> SUFFICES ASSUME NEW j \in 1 .. Len(buffer) + 1, Covered(j) PROVE Covered(j)'
    OBVIOUS
  <2>1. j \in Nat /\ \A i \in 1 .. j - 1 : buffer'[i] = buffer[i]
    BY <1>1
  <2> QED BY <2>1, CoverStays
<1>3. WireShape'
  BY DEF StreamInv, WireShape
<1>4. /\ LineStart' <=> LineStart
      /\ PastSetup' <=> PastSetup
      /\ Sends(JobLines)' <=> Sends(JobLines)
      /\ Sends(Breakers)' <=> Sends(Breakers)
      /\ Sends({Start})' <=> Sends({Start})
      /\ Ends(wire)' <=> Ends(wire)
  BY DEF LineStart, PastSetup, Sends, Ends, Breakers, JobLines, PlainLines, Start
<1>5. \A j \in 1 .. Len(buffer') : buffer'[j] \in JobLines => Covered(j)'
  BY <1>1, <1>2 DEF StreamInv
<1>6. CoveredNext => CoveredNext'
  <2>1. Len(buffer) + 1 \in 1 .. Len(buffer) + 1
    BY <1>1
  <2> QED BY <1>1, <1>2, <2>1 DEF CoveredNext
<1> QED BY <1>3, <1>4, <1>5, <1>6 DEF StreamInv

\* The thread takes a line off the buffer.
LEMMA TakeKeepsStream ==
  ASSUME LinkTypes, StreamInv, LoopLine, UNCHANGED <<dispatchVars, hostVars>>
  PROVE  StreamInv'
<1>e. PICK e \in Nat : e = FirstEnd(buffer)
  BY FirstEndFacts DEF LinkTypes, ConsoleTypes
<1>l. PICK L \in Nat : L = Len(buffer)
  BY DEF LinkTypes, ConsoleTypes
<1>1. /\ e \in 0 .. L /\ L \in Nat /\ buffer \in Seq(Lines \cup {NL})
      /\ e > 0 => buffer[e] = NL
      /\ \A i \in 1 .. e - 1 : buffer[i] # NL
  BY <1>e, <1>l, FirstEndFacts DEF LinkTypes, ConsoleTypes
<1>2. /\ received' = SubSeq(buffer, 1, e - 1) /\ buffer' = SubSeq(buffer, e + 1, L)
      /\ pc = "main"
  BY <1>e, <1>l DEF LoopLine, FirstEnd
<1>3. UNCHANGED <<halted, currentline, uploading, fd, flags, reg, wire, next, mode>>
  BY DEF LoopLine, LoopKeeps, dispatchVars, hostVars
<1>4. /\ Len(buffer') = L - e /\ \A k \in 1 .. L - e : buffer'[k] = buffer[k + e]
      /\ buffer' \in Seq(Lines \cup {NL})
  <2>1. L = Len(buffer) /\ e \in 0 .. Len(buffer)
    BY <1>1, <1>l
  <2> QED BY <1>1, <1>2, <2>1, BehindType
<1>5. /\ received' \in Seq(Lines \cup {NL}) /\ Len(received') = IF e = 0 THEN 0 ELSE e - 1
      /\ \A k \in 1 .. e - 1 : received'[k] = buffer[k]
  <2>1. L = Len(buffer) /\ e \in 0 .. Len(buffer)
    BY <1>1, <1>l
  <2> QED BY <1>1, <1>2, <2>1, BeforeType
<1>6. received = <<>> /\ (Saved' <=> Saved) /\ (Unsaved <=> ~Saved)
  <2>1. received = <<>>
    BY <1>2 DEF LinkTypes, ConsoleTypes
  <2> QED BY <1>3, <2>1 DEF Saved, Unsaved
<1>7. e > 1 => received' # <<>> /\ This' = buffer[1]
  BY <1>1, <1>5 DEF This
<1>8. e <= 1 => received' = <<>> /\ (Unsaved' <=> Unsaved)
  <2> SUFFICES ASSUME e <= 1 PROVE received' = <<>> /\ (Unsaved' <=> Unsaved)
    OBVIOUS
  <2>1. Len(received') = 0
    BY <1>1, <1>5
  <2>2. received' = <<>>
    BY <1>5, <2>1, EmptySeq
  <2> QED BY <1>6, <2>2 DEF Unsaved
\* What is started behind e in the buffer is started in what remains of it.
<1>9. \A m \in 1 .. L - e : Started(m + e) => Started(m)'
  <2> SUFFICES ASSUME NEW m \in 1 .. L - e, Started(m + e) PROVE Started(m)'
    OBVIOUS
  <2>1. buffer'[m] = Start
    BY <1>4 DEF Started
  <2>2. CASE m = 1
    BY <2>1, <2>2 DEF Started
  <2>3. CASE m # 1
    <3>1. m - 1 \in 1 .. L - e /\ m - 1 + e = m + e - 1 /\ m + e # 1
      BY <1>1, <2>3
    <3>2. buffer[m + e - 1] = NL
      BY <3>1 DEF Started
    <3>3. buffer'[m - 1] = buffer[m - 1 + e]
      BY <1>4, <3>1
    <3> QED BY <2>1, <3>1, <3>2, <3>3 DEF Started
  <2> QED BY <2>2, <2>3
\* Only the first line can be started within what is taken.
<1>10. \A m \in 1 .. L : Started(m) /\ m <= e => m = 1 /\ e > 1 /\ This' = Start
  <2> SUFFICES ASSUME NEW m \in 1 .. L, Started(m), m <= e PROVE m = 1 /\ e > 1 /\ This' = Start
    OBVIOUS
  <2>1. m = 1
    <3> SUFFICES ASSUME m # 1 PROVE FALSE
      OBVIOUS
    <3>1. m - 1 \in 1 .. e - 1 /\ buffer[m - 1] = NL
      BY <1>1 DEF Started
    <3> QED BY <1>1, <3>1
  <2>2. buffer[1] = Start /\ Start # NL
    BY <2>1, LineIsNoCharacter DEF Started, Start, Text, Characters
  <2>3. e # 1
    BY <1>1, <2>2
  <2> QED BY <1>1, <1>7, <2>1, <2>2, <2>3
<1>11. ASSUME NEW j \in 1 .. L - e + 1, NEW J, J = j + e, Covered(J) PROVE Covered(j)'
  <2>j. J \in 1 .. L + 1 /\ J = j + e /\ j \in Int
    BY <1>1, <1>11
  <2>1. ASSUME NEW m \in 1 .. J - 1, Started(m), m > e
        PROVE  m - e \in 1 .. j - 1 /\ Started(m - e)'
    <3>1. m - e \in 1 .. L - e /\ m - e + e = m /\ m - e \in 1 .. j - 1
      BY <1>1, <2>1, <2>j
    <3> QED BY <1>9, <2>1, <3>1
  <2>2. ASSUME NEW i \in 1 .. j - 1, buffer'[i] \in Breakers
        PROVE  \E m \in i + 1 .. j - 1 : Started(m)'
    <3>k. PICK k \in Nat : k = i + e
      BY <1>1
    <3>1. k \in 1 .. J - 1 /\ buffer[k] \in Breakers /\ i \in 1 .. L - e
      <4>1. k \in 1 .. J - 1 /\ i \in 1 .. L - e
        BY <1>1, <2>j, <3>k
      <4>2. buffer'[i] = buffer[k]
        BY <1>4, <3>k, <4>1
      <4> QED BY <2>2, <4>1, <4>2
    <3>2. k = i + e /\ k \in Int
      BY <3>k
    <3>3. PICK m \in k + 1 .. J - 1 : Started(m)
      BY <1>11, <3>1 DEF Covered
    <3>4. m \in 1 .. J - 1 /\ m > e
      BY <1>1, <2>j, <3>1, <3>2, <3>3
    <3>5. m - e \in 1 .. j - 1 /\ Started(m - e)'
      BY <2>1, <3>3, <3>4
    <3>6. m - e \in i + 1 .. j - 1
      BY <1>1, <2>j, <3>2, <3>3
    <3> QED BY <3>5, <3>6
  <2>3. ASSUME Unsaved' PROVE \E m \in 1 .. j - 1 : Started(m)'
    <3>1. \E m \in 1 .. J - 1 : Started(m) /\ m > e
      <4>1. CASE Unsaved
        <5>1. PICK m \in 1 .. J - 1 : Started(m)
          BY <1>11, <4>1 DEF Covered
        <5>2. m > e
          <6> SUFFICES ASSUME m <= e PROVE FALSE
            BY <1>1
          <6>1. m \in 1 .. L
            BY <1>1, <2>j
          <6>2. e > 1 /\ This' = Start
            BY <1>10, <5>1, <6>1
          <6> QED BY <1>7, <2>3, <6>2 DEF Unsaved, Start
        <5> QED BY <5>1, <5>2
      <4>2. CASE ~Unsaved
        <5>1. e > 1 /\ This' \in Breakers /\ This' # Start
          BY <1>1, <1>6, <1>8, <2>3, <4>2 DEF Unsaved, Start, Breakers, PlainLines
        <5>2. buffer[1] \in Breakers /\ 1 \in 1 .. J - 1 /\ 1 + 1 = 2
          BY <1>1, <1>7, <2>j, <5>1
        <5>3. PICK m \in 1 .. J - 1 : Started(m) /\ m >= 2
          BY <1>11, <5>2 DEF Covered
        <5>4. m > e
          <6> SUFFICES ASSUME m <= e PROVE FALSE
            BY <1>1
          <6>1. m \in 1 .. L
            BY <1>1, <2>j
          <6> QED BY <1>10, <5>3, <6>1
        <5> QED BY <5>3, <5>4
      <4> QED BY <4>1, <4>2
    <3> QED BY <2>1, <3>1
  <2> QED BY <2>2, <2>3 DEF Covered
<1>12. WireShape'
  BY <1>3 DEF StreamInv, WireShape, Ends, IsLine, Characters, NL, CR, Query, CtrlX, CtrlY
<1>13. /\ PastSetup' <=> PastSetup
       /\ Sends(JobLines)' <=> Sends(JobLines)
       /\ Sends(Breakers)' <=> Sends(Breakers)
       /\ Sends({Start})' <=> Sends({Start})
       /\ Ends(wire)' <=> Ends(wire)
  BY <1>3 DEF PastSetup, Sends, Ends, Breakers, JobLines, PlainLines, Start
<1>14. LineStart => LineStart'
  <2> SUFFICES ASSUME LineStart PROVE LineStart'
    OBVIOUS
  <2>1. CASE L - e = 0
    <3>1. buffer' = <<>>
      BY <1>4, <2>1, EmptySeq
    <3> QED BY <3>1 DEF LineStart
  <2>2. CASE L - e > 0
    <3>1. buffer # <<>>
      BY <1>1, <1>l, <2>2
    <3>2. buffer[L] = NL
      BY <1>l, <3>1 DEF LineStart
    <3>3. L - e \in 1 .. L - e /\ L - e + e = L
      BY <1>1, <2>2
    <3>4. buffer'[Len(buffer')] = NL
      BY <1>4, <3>2, <3>3
    <3> QED BY <3>4 DEF LineStart
  <2> QED BY <1>1, <2>1, <2>2
<1>15. \A j \in 1 .. Len(buffer') : buffer'[j] \in JobLines => Covered(j)'
  <2> SUFFICES ASSUME NEW j \in 1 .. L - e, buffer'[j] \in JobLines PROVE Covered(j)'
    BY <1>4 DEF JobLines
  <2>1. j + e \in 1 .. L /\ buffer[j + e] \in JobLines
    BY <1>1, <1>4
  <2>2. Covered(j + e)
    BY <1>l, <2>1 DEF StreamInv
  <2>3. j \in 1 .. L - e + 1
    BY <1>1
  <2> QED BY <1>11, <2>2, <2>3
<1>16. CoveredNext => CoveredNext'
  <2> SUFFICES ASSUME CoveredNext PROVE CoveredNext'
    OBVIOUS
  <2>1. L - e + 1 \in 1 .. L - e + 1 /\ L - e + 1 + e = L + 1
    BY <1>1
  <2>3. Covered(L - e + 1)'
    <3>1. Covered(L + 1) /\ L + 1 = L - e + 1 + e
      BY <1>1, <1>l, <2>1 DEF CoveredNext
    <3> QED BY <1>11, <2>1, <3>1
  <2>4. Len(buffer') = L - e
    BY <1>4
  <2>5. Covered(Len(buffer) + 1)'
    BY <2>3, <2>4
  <2> QED BY <2>5 DEF CoveredNext
<1>17. received' # <<>> /\ This' \in JobLines => Saved'
  <2> SUFFICES ASSUME received' # <<>>, This' \in JobLines PROVE Saved
    BY <1>6
  <2>1. buffer[1] \in JobLines /\ 1 \in 1 .. L
    BY <1>1, <1>7, <1>8
  <2>2. Covered(1)
    BY <1>l, <2>1 DEF StreamInv
  <2> QED BY <1>6, <2>2 DEF Covered
<1> QED BY <1>3, <1>12, <1>13, <1>14, <1>15, <1>16, <1>17 DEF StreamInv

\* A line of a job that is accepted is the next one.
LEMMA JobLineInHand ==
  ASSUME PlainJob, LinkTypes, Accepts, This \in JobLines
  PROVE  /\ This.num = currentline + 1 /\ currentline + 1 \in 1 .. N /\ currentline \in 0 .. N
         /\ This.kind = Program[currentline + 1] /\ This.kind \notin {"M110", "M999"}
         /\ currentline' = currentline + 1 => (Open(currentline)' <=> Open(currentline + 1))
<1>1. /\ This.num \in 1 .. N /\ This.kind = Program[This.num]
  BY LineFacts, ConstantFacts DEF Lines, JobLines
<1>2. Numbered
  BY <1>1 DEF Numbered, None
<1>3. This.num = currentline + 1
  BY <1>2 DEF Accepts, InSequence
<1>4. currentline \in -1 .. N
  BY DEF LinkTypes, DispatchTypes
<1>5. Program[This.num] \notin {"M110", "M999"}
  BY <1>1 DEF PlainJob, NoRenumbering
<1>6. currentline + 1 \in 1 .. N /\ currentline \in 0 .. N
  BY <1>1, <1>3, <1>4
<1>7. currentline' = currentline + 1 => (Open(currentline)' <=> Open(currentline + 1))
  BY DEF Open
<1> QED BY <1>1, <1>3, <1>5, <1>6, <1>7

\* Where an upload is open after the next line.
LEMMA OpenNext ==
  ASSUME NEW c \in Nat, Program[c + 1] # "M28"
  PROVE  Open(c + 1) => Open(c) /\ Program[c + 1] # "M29"
<1> SUFFICES ASSUME Open(c + 1) PROVE Open(c) /\ Program[c + 1] # "M29"
  OBVIOUS
<1>1. PICK a \in 1 .. c + 1 : Program[a] = "M28" /\ \A m \in a .. c + 1 : Program[m] # "M29"
  BY DEF Open
<1>2. a \in 1 .. c /\ c + 1 \in a .. c + 1 /\ \A m \in a .. c : m \in a .. c + 1
  BY <1>1
<1> QED BY <1>1, <1>2 DEF Open

\* After a line is done with, the upload is closed in the middle of the job only if
\* that line broke it, or it was before.
LEMMA DispatchKeepsSaved ==
  ASSUME PlainJob, LinkTypes, DispatchStep, ~Unsaved
  PROVE  Saved'
<1>1. CASE received = <<>>
  <2>1. Saved
    BY <1>1 DEF Unsaved
  <2>2. UNCHANGED <<halted, currentline, uploading, fd>>
    BY <1>1 DEF DispatchStep, EmptyLine, IgnoredLine, SetLineNumber, ResendLine, CommentLine, Unhalt, HaltedLine,
           OpenUpload, EmergencyStop, ErrorLine, ExecuteLine, StartMove, MoveWaits, MoveEnds, CloseUpload,
           SaveLine, SaveFails, Runs, Dispatches, Uploads, Accepts, Gcode, dispatchVars
  <2> QED BY <2>1, <2>2 DEF Saved, Open
<1>2. CASE received # <<>>
  <2>1. pc \in {"count", "countStore", "line"} /\ This \in Lines
    BY <1>2, ThisType DEF LinkTypes, ConsoleTypes
  <2>2. CASE This = Start
    <3>1. This.readable /\ This.num = 0 /\ This.kind = "M110"
      BY <2>2 DEF Start, Text
    <3>2. SetLineNumber
      BY <1>2, <2>1, <3>1 DEF DispatchStep, EmptyLine, IgnoredLine, ResendLine, CommentLine, Unhalt, HaltedLine,
           OpenUpload, EmergencyStop, ErrorLine, ExecuteLine, StartMove, MoveWaits, MoveEnds, CloseUpload,
           SaveLine, SaveFails, Runs, Dispatches, Uploads, Accepts, Numbered, None
    <3>3. currentline' = 0
      BY <3>1, <3>2 DEF SetLineNumber
    <3>4. ~Open(currentline)'
      BY <3>3 DEF Open
    <3> QED BY <3>4 DEF Saved
  <2>3. CASE This # Start
    <3>1. Saved /\ This \notin Breakers
      BY <1>2, <2>3 DEF Unsaved
    <3>2. This \in JobLines \/ This = Text(None, "M112")
      BY <2>1, <2>3, <3>1 DEF Lines, Breakers
    <3>3. CASE UNCHANGED <<halted, currentline, uploading, fd>>
      BY <3>1, <3>3 DEF Saved, Open
    <3>4. CASE halted'
      BY <3>4 DEF Saved
    <3>5. CASE uploading' \/ fd' = "refused"
      BY <3>5 DEF Saved
    <3>6. CASE This = Text(None, "M112") /\ Accepts
      <4>1. This.kind = "M112" /\ ~Numbered
        BY <3>6 DEF Text, Numbered
      <4>2. \/ halted' \/ uploading'
            \/ UNCHANGED <<halted, currentline, uploading, fd>>
        BY <1>2, <2>1, <4>1, <3>6 DEF DispatchStep, EmptyLine, IgnoredLine, SetLineNumber, ResendLine, CommentLine,
           Unhalt, HaltedLine, OpenUpload, EmergencyStop, ErrorLine, ExecuteLine, StartMove, MoveWaits, MoveEnds,
           CloseUpload, SaveLine, SaveFails, Runs, Dispatches, Uploads, UploadKept, dispatchVars
      <4> QED BY <3>3, <3>4, <3>5, <4>2
    <3>7. CASE This \in JobLines /\ Accepts
      <4>1. /\ currentline + 1 \in 1 .. N /\ currentline \in 0 .. N
            /\ This.kind = Program[currentline + 1] /\ This.kind \notin {"M110", "M999"}
            /\ currentline' = currentline + 1 => (Open(currentline)' <=> Open(currentline + 1))
        BY <3>7, JobLineInHand
      <4>2. Numbered
        BY <2>1, <3>7, LineFacts DEF Numbered, None
      <4>3. ASSUME currentline' = currentline + 1, This.kind # "M28", halted' = halted,
                   UNCHANGED <<uploading, fd>>
            PROVE  Saved'
        <5> SUFFICES ASSUME ~halted', Open(currentline)' PROVE uploading' \/ fd' = "refused"
          BY DEF Saved
        <5>1. Open(currentline + 1) /\ Program[currentline + 1] # "M28" /\ currentline \in Nat
          BY <4>1, <4>3
        <5>2. Open(currentline)
          BY <5>1, OpenNext
        <5> QED BY <3>1, <4>3, <5>2 DEF Saved
      <4>4. CASE CommentLine \/ ExecuteLine \/ StartMove
        <5>1. /\ currentline' = currentline + 1 /\ This.kind # "M28" /\ halted' = halted
              /\ UNCHANGED <<uploading, fd>>
          BY <4>2, <4>4 DEF CommentLine, ExecuteLine, StartMove, Runs, Obey, UploadKept
        <5> QED BY <4>3, <5>1
      <4>5. CASE Unhalt
        BY <4>1, <4>5 DEF Unhalt
      <4>6. CASE HaltedLine \/ EmergencyStop \/ ErrorLine
        BY <3>4, <4>6 DEF HaltedLine, EmergencyStop, ErrorLine
      <4>7. CASE OpenUpload \/ SaveLine \/ SaveFails
        <5>1. uploading' \/ fd' = "refused"
          BY <4>7 DEF OpenUpload, SaveLine, SaveFails, Uploads, UploadKept
        <5> QED BY <3>5, <5>1
      <4>8. CASE CloseUpload
        <5>1. This.kind = "M29" /\ currentline' = currentline + 1
          BY <4>2, <4>8 DEF CloseUpload, Obey
        <5>2. Program[currentline + 1] = "M29" /\ currentline \in Nat
          BY <4>1, <5>1
        <5>3. ~Open(currentline + 1)
          BY <5>2, OpenNext
        <5> QED BY <4>1, <5>1, <5>3 DEF Saved
      <4>9. CASE EmptyLine \/ IgnoredLine \/ ResendLine \/ MoveWaits \/ MoveEnds
        BY <3>3, <4>9 DEF EmptyLine, IgnoredLine, ResendLine, MoveWaits, MoveEnds, dispatchVars
      <4>10. CASE SetLineNumber
        BY <4>1, <4>10 DEF SetLineNumber
      <4> QED BY <4>4, <4>5, <4>6, <4>7, <4>8, <4>9, <4>10 DEF DispatchStep
    <3>8. CASE ~Accepts
      <4>1. ~SetLineNumber
        <5> SUFFICES ASSUME SetLineNumber PROVE FALSE
          OBVIOUS
        <5>1. This.kind = "M110" /\ This.num # -1
          BY DEF SetLineNumber, Numbered, None
        <5>2. This \in JobLines
          BY <3>2, <5>1 DEF Text, None
        <5>3. This.num \in 1 .. N /\ This.kind = Program[This.num]
          BY <5>2 DEF JobLines
        <5> QED BY <5>1, <5>3 DEF PlainJob, NoRenumbering
      <4>2. UNCHANGED <<halted, currentline, uploading, fd>>
        BY <3>8, <4>1 DEF DispatchStep, EmptyLine, IgnoredLine, ResendLine, CommentLine, Unhalt, HaltedLine,
           OpenUpload, EmergencyStop, ErrorLine, ExecuteLine, StartMove, MoveWaits, MoveEnds, CloseUpload,
           SaveLine, SaveFails, Runs, Dispatches, Uploads, dispatchVars
      <4> QED BY <3>3, <4>2
    <3> QED BY <3>2, <3>6, <3>7, <3>8
  <2> QED BY <2>2, <2>3
<1> QED BY <1>1, <1>2

LEMMA DispatchKeepsStream ==
  ASSUME PlainJob, LinkTypes, StreamInv, DispatchStep, UNCHANGED hostVars
  PROVE  StreamInv'
<1>1. UNCHANGED <<buffer, wire, next, mode, flags, reg>>
  BY DEF hostVars, DispatchStep, EmptyLine, IgnoredLine, SetLineNumber, ResendLine, CommentLine, Unhalt, HaltedLine,
         OpenUpload, EmergencyStop, ErrorLine, ExecuteLine, StartMove, MoveWaits, MoveEnds, CloseUpload,
         SaveLine, SaveFails, Runs, Dispatches, Uploads, Accepts, Gcode, Obey, Handled
<1>2. received' = <<>>
  BY DEF DispatchStep, EmptyLine, IgnoredLine, SetLineNumber, ResendLine, CommentLine, Unhalt, HaltedLine,
         OpenUpload, EmergencyStop, ErrorLine, ExecuteLine, StartMove, MoveWaits, MoveEnds, CloseUpload,
         SaveLine, SaveFails, Runs, Dispatches, Uploads, Accepts, Gcode, Obey, Handled, LinkTypes, ConsoleTypes
<1>3. Unsaved' => Unsaved
  BY <1>2, DispatchKeepsSaved DEF Unsaved
<1> QED BY <1>1, <1>2, <1>3, StreamStays

\* The thread halts at most: that opens no line of an upload to the machine.
LEMMA ConsoleKeepsStream ==
  ASSUME LinkTypes, RequestInv, StreamInv, ConsoleStep, UNCHANGED <<dispatchVars, hostVars>>
  PROVE  StreamInv'
<1>1. CASE LoopLine
  BY <1>1, TakeKeepsStream
<1>2. CASE Flush
  <2>1. /\ pc = "flush" /\ buffer' = <<>> /\ received' = received
        /\ UNCHANGED <<flags, reg, wire, next, mode>>
    BY <1>2 DEF Flush, IdleKeeps, hostVars
  <2>2. Emptied /\ received = <<>>
    BY <2>1 DEF RequestInv, HaltPcs, LinkTypes, ConsoleTypes
  <2>3. Len(buffer') = 0
    BY <2>1
  <2> QED BY <2>1, <2>2, <2>3 DEF StreamInv, WireShape, Emptied, PastSetup, Sends, LineStart
<1>3. CASE ~LoopLine /\ ~Flush
  <2>1. UNCHANGED <<buffer, received, currentline, uploading, fd, wire, next, mode>>
    BY <1>3 DEF ConsoleStep, LoopNothing, CountLoad, CountStore, IdleNothing, QueryLoad, QueryStore, HaltLoad,
                HaltStore, OnHalt, FlushCount, IdleEnd, LoopKeeps, IdleKeeps, dispatchVars, hostVars
  <2>2. halted' = halted \/ halted' = TRUE
    BY <1>3 DEF ConsoleStep, LoopNothing, CountLoad, CountStore, IdleNothing, QueryLoad, QueryStore, HaltLoad,
                HaltStore, OnHalt, FlushCount, IdleEnd, LoopKeeps
  <2>3. Saved => Saved'
    BY <2>1, <2>2 DEF Saved, Open
  <2>4. Unsaved' => Unsaved
    BY <2>1, <2>3 DEF Unsaved, This, Start, Breakers, PlainLines
  <2>5. flags'.cr \/ reg'.flags.cr => flags.cr \/ reg.flags.cr
    BY <1>3 DEF ConsoleStep, LoopNothing, CountLoad, CountStore, IdleNothing, QueryLoad, QueryStore, HaltLoad,
                HaltStore, OnHalt, FlushCount, IdleEnd, LoopKeeps, Unloaded, LinkTypes, ConsoleTypes, Registers, Flags
  <2>6. received' # <<>> /\ This' \in JobLines => Saved'
    BY <2>1, <2>3 DEF StreamInv, This, JobLines
  <2> QED BY <2>1, <2>4, <2>5, <2>6, StreamStays
<1> QED BY <1>1, <1>2, <1>3

\* What the first element is of a sequence with something in front or behind.
LEMMA HeadOfAppend ==
  ASSUME NEW S, NEW s \in Seq(S), NEW c \in S
  PROVE  /\ s # <<>> => Head(Append(s, c)) = Head(s)
         /\ s # <<>> => Tail(Append(s, c)) = Append(Tail(s), c)
         /\ s = <<>> => Head(Append(s, c)) = c
         /\ Append(s, c) # <<>>
<1>1. /\ Append(s, c) \in Seq(S) /\ Len(Append(s, c)) = Len(s) + 1 /\ Len(s) \in Nat
      /\ \A i \in 1 .. Len(s) : Append(s, c)[i] = s[i]
      /\ Append(s, c)[Len(s) + 1] = c
  BY AppendProperties
<1> DEFINE t == Append(s, c)
<1>2. t \in Seq(S) /\ Len(t) > 0 /\ t[1] = IF Len(s) = 0 THEN c ELSE s[1]
  BY <1>1
<1> HIDE DEF t
<1>3. t # <<>> /\ Head(t) = t[1]
  BY <1>2
<1>4. s # <<>> => Len(s) > 0 /\ Head(s) = s[1]
  OBVIOUS
<1>5. s = <<>> => Len(s) = 0
  OBVIOUS
<1>6. s # <<>> => Tail(t) = Append(Tail(s), c)
  BY DEF t
<1> QED BY <1>2, <1>3, <1>4, <1>5, <1>6 DEF t

\* A character arrives.
LEMMA DeliverKeepsStream ==
  ASSUME LinkTypes, StreamInv, SetupFits, Deliver
  PROVE  StreamInv'
<1> DEFINE c == Head(wire)
           L == Len(buffer)
<1>1. /\ wire # <<>> /\ wire' = Tail(wire) /\ c \in Lines \cup Characters
      /\ OnSerialCharReceived(c)
      /\ UNCHANGED <<halted, currentline, uploading, fd, next, mode, received, reg>>
  BY DEF Deliver, OnSerialCharReceived, dispatchVars, LinkTypes, HostTypes
<1>2. /\ Len(Tail(wire)) = Len(wire) - 1 /\ Tail(wire) \in Seq(Lines \cup Characters)
      /\ \A i \in 1 .. Len(wire) - 1 : Tail(wire)[i] = wire[i + 1]
      /\ c = wire[1] /\ Len(wire) \in Nat \ {0}
  BY <1>1, HeadTailProperties DEF LinkTypes, HostTypes
<1>3. buffer \in Seq(Lines \cup {NL}) /\ L \in Nat
  BY DEF LinkTypes, ConsoleTypes
\* What the interrupt does.
<1>4. \/ UNCHANGED buffer
      \/ buffer' = Append(buffer, IF c = CR THEN NL ELSE c) /\ c \in Lines \cup {NL, CR}
  BY <1>1 DEF OnSerialCharReceived, ReceiveText, ReceiveRequest, Put, Characters
<1>5. c \in Lines \cup {NL, CR} /\ L < RingSize - 1 /\ ~(c = NL /\ flags.cr)
        => buffer' = Append(buffer, IF c = CR THEN NL ELSE c)
  <2> SUFFICES ASSUME c \in Lines \cup {NL, CR}, L < RingSize - 1, ~(c = NL /\ flags.cr)
               PROVE  buffer' = Append(buffer, IF c = CR THEN NL ELSE c)
    OBVIOUS
  <2>1. c \notin {Query, CtrlX, CtrlY}
    BY LineFacts, CharactersDiffer DEF Characters
  <2>2. ~Full
    BY <1>3, ConstantFacts DEF Full
  <2> QED BY <1>1, <2>1, <2>2 DEF OnSerialCharReceived, ReceiveText, ReceiveRequest, Put
<1>6. flags'.cr => c = CR \/ flags.cr
  BY <1>1 DEF OnSerialCharReceived, ReceiveText, ReceiveRequest, LinkTypes, ConsoleTypes, Flags
<1>7. (Unsaved' <=> Unsaved) /\ (Saved' <=> Saved) /\ (PastSetup' <=> PastSetup)
  BY <1>1 DEF Unsaved, Saved, Open, This, Start, Breakers, PlainLines, PastSetup
\* No line is left on the wire.
<1>8. \A i \in 1 .. Len(wire') : ~IsLine(wire'[i])
  <2> SUFFICES ASSUME NEW i \in 1 .. Len(wire'), IsLine(wire'[i]) PROVE FALSE
    OBVIOUS
  <2>1. i + 1 \in 1 .. Len(wire) /\ IsLine(wire[i + 1]) /\ i + 1 # 1
    BY <1>1, <1>2
  <2> QED BY <2>1 DEF StreamInv, WireShape
<1>9. wire' # <<>> => ~IsLine(Head(wire'))
  <2>1. wire' \in Seq(Lines \cup Characters)
    BY <1>1, <1>2
  <2>2. wire' # <<>> => 1 \in 1 .. Len(wire') /\ Head(wire') = wire'[1]
    BY <2>1
  <2> QED BY <1>8, <2>2
<1>10. ~Sends(JobLines)' /\ ~Sends({Start})' /\ ~Sends(Breakers)'
  <2>1. \A l \in Lines : IsLine(l)
    BY LineFacts DEF IsLine
  <2>2. wire' # <<>> => Head(wire') \notin Lines
    BY <1>9, <2>1
  <2>3. JobLines' = JobLines /\ Breakers' = Breakers /\ Start' = Start
    BY DEF JobLines, Breakers, PlainLines, Start
  <2> QED BY <2>2, <2>3 DEF Sends, Lines, Breakers
<1>11. WireShape'
  <2>1. flags'.cr \/ reg'.flags.cr \/ (\E i \in 1 .. Len(wire') : wire'[i] = CR) => Head(Ending) = CR
    <3>1. ASSUME NEW i \in 1 .. Len(wire'), wire'[i] = CR PROVE Head(Ending) = CR
      <4>1. i + 1 \in 1 .. Len(wire) /\ wire[i + 1] = CR
        BY <1>1, <1>2, <3>1
      <4> QED BY <4>1 DEF StreamInv, WireShape
    <3>2. c = CR => Head(Ending) = CR
      <4>1. 1 \in 1 .. Len(wire) /\ c = wire[1]
        BY <1>2
      <4> QED BY <4>1 DEF StreamInv, WireShape
    <3> QED BY <1>1, <1>6, <3>1, <3>2 DEF StreamInv, WireShape
  <2> QED BY <1>8, <1>9, <2>1 DEF WireShape
\* What is covered stays covered, behind what arrives too.
<1>12. \A j \in 1 .. L : buffer'[j] = buffer[j]
  <2>1. CASE UNCHANGED buffer
    BY <2>1
  <2>2. CASE buffer' = Append(buffer, IF c = CR THEN NL ELSE c) /\ c \in Lines \cup {NL, CR}
    BY <1>3, <2>2, AppendProperties
  <2> QED BY <1>4, <2>1, <2>2
<1>13. \A j \in 1 .. L + 1 : Covered(j) => Covered(j)'
  <2> SUFFICES ASSUME NEW j \in 1 .. L + 1, Covered(j) PROVE Covered(j)'
    OBVIOUS
  <2>1. j \in Nat /\ \A i \in 1 .. j - 1 : buffer'[i] = buffer[i]
    BY <1>3, <1>12
  <2> QED BY <1>7, <2>1, CoverStays
<1>14. \/ buffer' = buffer
       \/ /\ Len(buffer') = L + 1 /\ buffer'[L + 1] = (IF c = CR THEN NL ELSE c)
          /\ c \in Lines \cup {NL, CR}
  BY <1>3, <1>4, AppendProperties
<1>15. mode = "setup" => LineStart' \/ Ends(wire)'
  <2> SUFFICES ASSUME mode = "setup" PROVE LineStart' \/ Ends(wire)'
    BY DEF StreamInv
  <2>1. L < RingSize - 1
    BY <1>1 DEF SetupFits
  <2>2. CASE c \in {Query, CtrlX, CtrlY}
    <3>1. ~Ends(wire) /\ c \notin Lines \cup {NL, CR}
      BY <2>2, EndingType, CharactersDiffer, LineFacts DEF Ends, Characters
    <3>2. LineStart /\ buffer' = buffer
      BY <1>14, <3>1 DEF StreamInv
    <3> QED BY <3>2 DEF LineStart
  <2>3. CASE c \in Lines
    <3>1. IsLine(c)
      BY <2>3, LineFacts DEF IsLine
    <3> QED BY <1>1, <3>1 DEF StreamInv, WireShape, Ends
  <2>4. CASE c = CR \/ (c = NL /\ ~flags.cr)
    <3>1. buffer' = Append(buffer, NL)
      BY <1>5, <2>1, <2>4, CharactersDiffer
    <3>2. Len(buffer') = L + 1 /\ buffer'[L + 1] = NL
      BY <1>3, <3>1, AppendProperties
    <3> QED BY <3>2 DEF LineStart
  <2>5. CASE c = NL /\ flags.cr
    <3>1. Head(Ending) = CR
      BY <2>5 DEF StreamInv, WireShape
    <3>2. LineStart
      BY <2>5, <3>1, CharactersDiffer DEF StreamInv, Ends
    <3>3. buffer' = buffer
      <4>1. c \notin {Query, CtrlX, CtrlY}
        BY <2>5, CharactersDiffer
      <4> QED BY <1>1, <2>5, <4>1 DEF OnSerialCharReceived, ReceiveText, ReceiveRequest
    <3> QED BY <3>2, <3>3 DEF LineStart
  <2> QED BY <1>1, <2>2, <2>3, <2>4, <2>5 DEF Characters
<1>16. \A j \in 1 .. Len(buffer') : buffer'[j] \in JobLines => Covered(j)'
  <2> SUFFICES ASSUME NEW j \in 1 .. Len(buffer'), buffer'[j] \in JobLines PROVE Covered(j)'
    BY DEF JobLines
  <2>1. CASE j \in 1 .. L
    <3>1. buffer[j] \in JobLines
      BY <1>12, <2>1
    <3>2. Covered(j)
      BY <2>1, <3>1 DEF StreamInv
    <3>3. j \in 1 .. L + 1
      BY <1>3, <2>1
    <3> QED BY <1>13, <3>2, <3>3
  <2>2. CASE j \notin 1 .. L
    <3>1. j = L + 1 /\ buffer'[L + 1] = (IF c = CR THEN NL ELSE c)
      BY <1>3, <1>14, <2>2
    <3>2. c \in JobLines
      BY <3>1, LineFacts DEF Lines, Characters
    <3>3. Covered(L + 1)
      BY <1>1, <3>2 DEF StreamInv, Sends, CoveredNext
    <3> QED BY <1>3, <1>13, <3>1, <3>3
  <2> QED BY <2>1, <2>2
<1>17. PastSetup => CoveredNext'
  <2> SUFFICES ASSUME PastSetup PROVE CoveredNext'
    OBVIOUS
  <2>l. PICK n \in Nat : n = L
    BY <1>3
  <2>1. CASE buffer' = buffer
    <3>1. ~(Sends({Start}) /\ LineStart)
      <4> SUFFICES ASSUME c = Start PROVE FALSE
        BY DEF Sends
      <4>0. 0 \in 1 - Len(Setup) .. N
        BY ConstantFacts
      <4>1. L < RingSize - 1 /\ c # NL /\ c \in Lines
        <5>1. c = HostLine(0)
          BY <4>0, HostLineType
        <5> QED BY <1>1, <5>1, LineFacts DEF SetupFits, Lines
      <4>2. buffer' = Append(buffer, IF c = CR THEN NL ELSE c)
        BY <1>5, <4>1
      <4>3. Len(buffer') = L + 1
        BY <1>3, <4>1, <4>2, AppendProperties
      <4> QED BY <1>3, <2>1, <4>3
    <3>2. Covered(n + 1) /\ n + 1 \in 1 .. L + 1
      BY <2>l, <3>1 DEF StreamInv, CoveredNext
    <3>3. Covered(n + 1)'
      BY <1>13, <3>2
    <3>4. Covered(Len(buffer) + 1)'
      BY <2>1, <2>l, <3>3
    <3> QED BY <3>4 DEF CoveredNext
  <2>2. CASE buffer' # buffer
    <3>1. Len(buffer') = n + 1 /\ buffer'[n + 1] = (IF c = CR THEN NL ELSE c) /\ c \in Lines \cup {NL, CR}
      BY <1>14, <2>2, <2>l
    <3>2. Covered(n + 2)'
      <4>1. CASE Covered(n + 1)
        <5>1. Covered(n + 1)'
          BY <1>13, <2>l, <4>1
        <5>2. buffer'[n + 1] \notin Breakers
          <6>1. c \notin Breakers /\ NL \notin Breakers
            BY <1>1, LineFacts DEF StreamInv, Sends, Breakers, Characters, Lines
          <6> QED BY <3>1, <6>1
        <5>3. ASSUME NEW i \in 1 .. n + 1, buffer'[i] \in Breakers
              PROVE  \E m \in i + 1 .. n + 1 : Started(m)'
          <6>1. i \in 1 .. n
            BY <5>2, <5>3
          <6>2. \E m \in i + 1 .. n : Started(m)'
            <7>1. i \in 1 .. n + 1 - 1 /\ n + 1 - 1 = n
              BY <6>1
            <7> QED BY <5>1, <5>3, <7>1 DEF Covered, Breakers, PlainLines
          <6> QED BY <6>2
        <5>4. ASSUME Unsaved' PROVE \E m \in 1 .. n + 1 : Started(m)'
          <6>1. \E m \in 1 .. n : Started(m)'
            <7>1. n + 1 - 1 = n
              OBVIOUS
            <7> QED BY <5>1, <5>4, <7>1 DEF Covered
          <6> QED BY <6>1
        <5>5. n + 2 - 1 = n + 1
          OBVIOUS
        <5> QED BY <5>3, <5>4, <5>5 DEF Covered, Breakers, PlainLines
      <4>2. CASE Sends({Start}) /\ LineStart
        <5>1. c = Start /\ Start \notin Breakers /\ Start # CR /\ Start \in Lines
          <6>1. c = Start
            BY <4>2 DEF Sends
          <6>2. Start \in Lines /\ Start.num = 0
            BY DEF Lines, Start, Text
          <6>3. Start \notin Breakers /\ Start # CR
            BY <6>2, LineFacts DEF Breakers, Characters
          <6> QED BY <6>1, <6>2, <6>3
        <5>2. buffer'[n + 1] = Start
          BY <3>1, <5>1
        <5>3. n + 1 = 1 \/ buffer'[n] = NL
          <6>1. CASE buffer = <<>>
            BY <2>l, <6>1
          <6>2. CASE buffer # <<>>
            <7>1. n \in 1 .. L /\ buffer[n] = NL
              BY <1>3, <2>l, <4>2, <6>2 DEF LineStart
            <7> QED BY <1>12, <7>1
          <6> QED BY <6>1, <6>2
        <5>4. Started(n + 1)'
          <6>1. n + 1 - 1 = n
            OBVIOUS
          <6> QED BY <5>2, <5>3, <6>1 DEF Started, Start
        <5>5. ASSUME NEW i \in 1 .. n + 1, buffer'[i] \in Breakers
              PROVE  \E m \in i + 1 .. n + 1 : Started(m)'
          <6>1. i # n + 1
            BY <5>1, <5>2, <5>5
          <6>2. n + 1 \in i + 1 .. n + 1
            BY <6>1
          <6> QED BY <5>4, <6>2
        <5>6. \E m \in 1 .. n + 1 : Started(m)'
          <6>1. n + 1 \in 1 .. n + 1
            OBVIOUS
          <6> QED BY <5>4, <6>1
        <5>7. n + 2 - 1 = n + 1
          OBVIOUS
        <5> QED BY <5>5, <5>6, <5>7 DEF Covered, Breakers, PlainLines
      <4> QED BY <2>l, <4>1, <4>2 DEF StreamInv, CoveredNext
    <3>3. n + 2 = Len(buffer') + 1
      BY <3>1
    <3>4. Covered(Len(buffer) + 1)'
      BY <3>2, <3>3
    <3> QED BY <3>4 DEF CoveredNext
  <2> QED BY <2>1, <2>2
<1>18. received' # <<>> /\ This' \in JobLines => Saved'
  BY <1>1, <1>7 DEF StreamInv, This, JobLines
<1> QED BY <1>1, <1>7, <1>10, <1>11, <1>15, <1>16, <1>17, <1>18 DEF StreamInv

\* A carriage return in the ending is in front.
LEMMA EndingHead == \A i \in 1 .. Len(Ending) : Ending[i] = CR => Head(Ending) = CR
<1>1. CASE Ending = <<NL>>
  BY <1>1, CharactersDiffer
<1>2. CASE Ending = <<CR>>
  BY <1>2
<1>3. CASE Ending = <<CR, NL>>
  BY <1>3
<1> QED BY <1>1, <1>2, <1>3, ConstantFacts

\* A line that is damaged still arrives.
LEMMA DamagedIsSomething ==
  ASSUME LinkTypes, wire # <<>>, NEW l, wire' = <<l>> \o Tail(wire)
  PROVE  wire' # <<>>
<1> DEFINE S == Lines \cup Characters \cup {l}
<1>1. wire \in Seq(S)
  BY DEF LinkTypes, HostTypes
<1>2. Tail(wire) \in Seq(S) /\ <<l>> \in Seq(S) /\ Len(<<l>>) = 1
  BY <1>1
<1>3. Len(<<l>> \o Tail(wire)) = 1 + Len(Tail(wire)) /\ Len(Tail(wire)) \in Nat
  BY <1>2, ConcatProperties
<1> QED BY <1>3

\* Steps outside the machine: what is on the wire, and what the host is about.
LEMMA MachineStays ==
  ASSUME LinkTypes, StreamInv,
         UNCHANGED <<buffer, received, halted, currentline, uploading, fd>>,
         WireShape',
         mode' = "setup" => LineStart \/ Ends(wire)',
         Sends(JobLines)' => CoveredNext,
         PastSetup' => ~Sends(Breakers)' /\ (CoveredNext \/ (Sends({Start})' /\ LineStart))
  PROVE  StreamInv'
<1>1. Len(buffer) \in Nat /\ Len(buffer') = Len(buffer)
  BY DEF LinkTypes, ConsoleTypes
<1>2. (Unsaved' <=> Unsaved) /\ (Saved' <=> Saved) /\ (LineStart' <=> LineStart)
  BY DEF Unsaved, Saved, Open, This, Start, Breakers, PlainLines, LineStart
<1>3. \A j \in 1 .. Len(buffer) + 1 : Covered(j) => Covered(j)'
  <2> SUFFICES ASSUME NEW j \in 1 .. Len(buffer) + 1, Covered(j) PROVE Covered(j)'
    OBVIOUS
  <2>1. j \in Nat /\ \A i \in 1 .. j - 1 : buffer'[i] = buffer[i]
    BY <1>1
  <2> QED BY <1>2, <2>1, CoverStays
<1>4. CoveredNext => CoveredNext'
  <2>1. Len(buffer) + 1 \in 1 .. Len(buffer) + 1
    BY <1>1
  <2> QED BY <1>1, <1>3, <2>1 DEF CoveredNext
<1>5. \A j \in 1 .. Len(buffer') : buffer'[j] \in JobLines => Covered(j)'
  BY <1>1, <1>3 DEF StreamInv
<1>6. received' # <<>> /\ This' \in JobLines => Saved'
  BY <1>2 DEF StreamInv, This, JobLines
<1> QED BY <1>2, <1>4, <1>5, <1>6 DEF StreamInv

LEMMA SendsNothing ==
  ASSUME wire' \in Seq(Lines \cup Characters), wire' # <<>>, Head(wire') \in Characters
  PROVE  ~Sends(JobLines)' /\ ~Sends({Start})' /\ ~Sends(Breakers)'
<1>1. Head(wire') \notin Lines
  BY LineFacts
<1>2. JobLines' = JobLines /\ Breakers' = Breakers /\ Start' = Start
  BY DEF JobLines, Breakers, PlainLines, Start
<1> QED BY <1>1, <1>2 DEF Sends, Lines, Breakers

\* A line goes on the wire with its ending.
LEMMA SentShape ==
  ASSUME LinkTypes, StreamInv, NEW l \in Lines, wire' = <<l>> \o Ending, UNCHANGED <<flags, reg>>
  PROVE  /\ WireShape' /\ wire' # <<>> /\ Head(wire') = l
         /\ \A i \in 1 .. Len(wire') : IsLine(wire'[i]) => i = 1
<1>1. /\ wire' \in Seq(Lines \cup Characters) /\ Head(wire') = l /\ Ends(Tail(wire'))
      /\ \A i \in 1 .. Len(wire') : i > 1 => wire'[i] \in {NL, CR}
  BY SentType
<1>2. /\ <<l>> \in Seq(Lines \cup Characters) /\ Len(<<l>>) = 1 /\ <<l>>[1] = l
      /\ Ending \in Seq(Lines \cup Characters)
  BY EndingType DEF Characters
<1>3. /\ Len(wire') = 1 + Len(Ending)
      /\ \A i \in 1 .. 1 + Len(Ending) : wire'[i] = IF i <= 1 THEN <<l>>[i] ELSE Ending[i - 1]
  BY <1>2, ConcatProperties
<1>4. Len(wire') > 0 /\ wire' # <<>>
  BY <1>1, <1>3, EndingType
<1>5. \A i \in 1 .. Len(wire') : IsLine(wire'[i]) => i = 1
  <2>1. Len(wire') \in Nat
    BY <1>3, EndingType
  <2>2. \A i \in 1 .. Len(wire') : i # 1 => ~IsLine(wire'[i])
    BY <1>1, <2>1 DEF IsLine, Characters
  <2> QED BY <2>2
<1>6. (\E i \in 1 .. Len(wire') : wire'[i] = CR) => Head(Ending) = CR
  <2> SUFFICES ASSUME NEW i \in 1 .. Len(wire'), wire'[i] = CR PROVE Head(Ending) = CR
    OBVIOUS
  <2>1. i # 1
    BY <1>2, <1>3, LineFacts DEF Characters
  <2>2. i - 1 \in 1 .. Len(Ending) /\ Ending[i - 1] = CR
    BY <1>3, <2>1, EndingType
  <2> QED BY <2>2, EndingHead
<1>7. Ends(Tail(wire))'
  BY <1>1 DEF Ends
<1>8. flags'.cr \/ reg'.flags.cr => Head(Ending) = CR
  BY DEF StreamInv, WireShape
<1> QED BY <1>1, <1>4, <1>5, <1>6, <1>7, <1>8 DEF WireShape

\* The host sends: in the job only when all that was sent before has arrived.
LEMMA SendKeepsStream ==
  ASSUME LinkTypes, StreamInv, SendLine
  PROVE  StreamInv'
<1>1. /\ wire = <<>> /\ wire' = <<HostLine(next)>> \o Ending /\ next' = next + 1 /\ mode' = mode
      /\ UNCHANGED <<buffer, received, halted, currentline, uploading, fd, flags, reg>>
      /\ (mode = "setup" /\ next <= 0) \/ (mode = "job" /\ next <= N)
  BY DEF SendLine, machineVars, firmwareVars, consoleVars
<1>2. next \in 1 - Len(Setup) .. N /\ (mode = "job" => next >= 0)
  BY <1>1, ConstantFacts DEF LinkTypes, HostTypes
<1>3. HostLine(next) \in Lines /\ (next > 0 => HostLine(next) \in JobLines) /\ (next = 0 => HostLine(next) = Start)
  BY <1>2, HostLineType
<1>4. WireShape' /\ wire' # <<>> /\ Head(wire') = HostLine(next)
  BY <1>1, <1>3, SentShape
<1>5. ~Ends(wire) /\ ~Sends({Start})
  BY <1>1 DEF Ends, Sends
<1>6. JobLines' = JobLines /\ Breakers' = Breakers /\ Start' = Start
  BY DEF JobLines, Breakers, PlainLines, Start
<1>7. mode' = "setup" => LineStart
  BY <1>1, <1>5 DEF StreamInv
<1>8. PastSetup => CoveredNext
  BY <1>5 DEF StreamInv
<1>9. CASE mode = "job"
  <2>1. CoveredNext
    BY <1>8, <1>9 DEF PastSetup
  <2>2. HostLine(next) \notin Breakers
    <3>1. next > 0 \/ next = 0
      BY <1>2, <1>9
    <3>2. HostLine(next).num # -1
      BY <1>3, <3>1, LineFacts, ConstantFacts
    <3> QED BY <1>3, <3>2, LineFacts DEF Breakers
  <2>3. ~Sends(Breakers)'
    BY <1>4, <1>6, <2>2 DEF Sends
  <2> QED BY <1>1, <1>4, <1>7, <2>1, <2>3, MachineStays
<1>10. CASE mode = "setup" /\ next = 0
  <2>1. HostLine(next) = Start /\ Start.num = 0 /\ Start \in Lines
    BY <1>3, <1>10 DEF Start, Text, Lines
  <2>2. Start \notin JobLines /\ Start \notin Breakers
    BY <2>1, LineFacts DEF Breakers
  <2>3. ~Sends(JobLines)' /\ ~Sends(Breakers)' /\ Sends({Start})'
    BY <1>4, <1>6, <2>1, <2>2 DEF Sends
  <2> QED BY <1>1, <1>4, <1>7, <1>10, <2>3, MachineStays
<1>11. CASE mode = "setup" /\ next < 0
  <2>1. ~PastSetup'
    BY <1>1, <1>2, <1>11 DEF PastSetup
  <2>2. HostLine(next) \notin JobLines
    <3> SUFFICES ASSUME HostLine(next) \in JobLines PROVE FALSE
      OBVIOUS
    <3>1. HostLine(next).num > 0
      BY <1>3, LineFacts
    <3>2. HostLine(next).num \in {0, -1}
      BY <1>11, <1>2 DEF HostLine, Text, None
    <3> QED BY <3>1, <3>2
  <2>3. ~Sends(JobLines)'
    BY <1>4, <1>6, <2>2 DEF Sends
  <2> QED BY <1>1, <1>4, <1>7, <1>11, <2>1, <2>3, MachineStays
<1> QED BY <1>1, <1>2, <1>9, <1>10, <1>11

\* Other steps of the host.
LEMMA HostKeepsStream ==
  ASSUME LinkTypes, StreamInv, Host \/ SendRequest \/ EarlyTimeout
  PROVE  StreamInv'
<1>1. UNCHANGED <<buffer, received, halted, currentline, uploading, fd, flags, reg>>
  BY DEF Host, SendLine, HearOk, HearResend, HearStatus, HearAlarm, HearHalted, Restart, Timeout,
         SendRequest, EarlyTimeout, Repeat, HearKeeps, consoleVars, firmwareVars, machineVars, dispatchVars
<1>2. JobLines' = JobLines /\ Breakers' = Breakers /\ Start' = Start
  BY DEF JobLines, Breakers, PlainLines, Start
<1>3. CASE SendLine
  BY <1>3, SendKeepsStream
<1>4. ASSUME wire' = wire, mode' = "setup" => mode = "setup", PastSetup' => PastSetup
      PROVE  StreamInv'
  <2>1. WireShape'
    BY <1>1, <1>4 DEF StreamInv, WireShape
  <2>2. /\ Sends(JobLines)' <=> Sends(JobLines)
        /\ Sends(Breakers)' <=> Sends(Breakers)
        /\ Sends({Start})' <=> Sends({Start})
        /\ Ends(wire)' <=> Ends(wire)
    BY <1>2, <1>4 DEF Sends, Ends
  <2> QED BY <1>1, <1>4, <2>1, <2>2, MachineStays DEF StreamInv
<1>5. CASE HearOk \/ HearResend \/ HearStatus \/ HearAlarm \/ HearHalted
  <2>1. wire' = wire /\ (mode' = "setup" => mode = "setup")
    BY <1>5 DEF HearOk, HearResend, HearStatus, HearAlarm, HearHalted, HearKeeps
  <2>2. PastSetup' => PastSetup
    BY <1>5 DEF HearOk, HearResend, HearStatus, HearAlarm, HearHalted, PastSetup
  <2> QED BY <1>4, <2>1, <2>2
<1>6. CASE Timeout \/ EarlyTimeout
  <2>1. Repeat /\ unanswered > 0
    BY <1>6 DEF Timeout, EarlyTimeout
  <2>2. wire' = wire /\ mode' = mode /\ (mode = "setup" => next' <= 0)
        /\ next' \in 1 - Len(Setup) .. N + 1
    BY <2>1, RepeatTypes DEF LinkTypes
  <2>3. PastSetup' => PastSetup
    BY <2>2 DEF PastSetup
  <2> QED BY <1>4, <2>2, <2>3
<1>7. CASE Restart
  <2>1. mode' = "setup" /\ next' = 1 - Len(Setup) /\ wire' = Ending
    BY <1>7 DEF Restart
  <2>2. /\ wire' \in Seq(Lines \cup Characters) /\ wire' # <<>> /\ Head(wire') \in {NL, CR}
        /\ \A i \in 1 .. Len(wire') : wire'[i] \in {NL, CR}
    BY <2>1, EndingType DEF Characters
  <2>3. ~Sends(JobLines)' /\ ~Sends({Start})' /\ ~Sends(Breakers)'
    BY <2>2, SendsNothing DEF Characters
  <2>4. WireShape'
    <3>1. \A i \in 1 .. Len(wire') : ~IsLine(wire'[i])
      BY <2>2 DEF IsLine, Characters
    <3>2. ~IsLine(Head(wire'))
      BY <2>2 DEF IsLine, Characters
    <3>3. (\E i \in 1 .. Len(wire') : wire'[i] = CR) => Head(Ending) = CR
      BY <2>1, EndingHead
    <3> QED BY <1>1, <3>1, <3>2, <3>3 DEF StreamInv, WireShape
  <2>5. Ends(wire)'
    BY <2>1, EndingType DEF Ends
  <2>6. ~PastSetup'
    BY <2>1, ConstantFacts DEF PastSetup
  <2> QED BY <1>1, <2>3, <2>4, <2>5, <2>6, MachineStays
<1>8. CASE SendRequest
  <2>1. PICK c \in Requests :
          IF IsLine(c) THEN wire = <<>> /\ wire' = <<c>> \o Ending /\ mode' = mode
          ELSE wire' = Append(wire, c) /\ mode' = (IF c = CtrlX THEN "halting" ELSE mode)
    BY <1>8 DEF SendRequest
  <2>2. next' = next
    BY <1>8 DEF SendRequest
  <2>3. CASE IsLine(c)
    <3>1. c = Text(None, "M112") /\ c \in PlainLines /\ c \in Lines
      BY <2>3, RequestType DEF Lines
    <3>2. wire = <<>> /\ wire' = <<c>> \o Ending /\ mode' = mode
      BY <2>1, <2>3
    <3>3. WireShape' /\ wire' # <<>> /\ Head(wire') = c
      BY <1>1, <3>1, <3>2, SentShape
    <3>4. ~Ends(wire) /\ ~Sends({Start})
      BY <3>2 DEF Ends, Sends
    <3>5. c \notin JobLines /\ c \notin Breakers
      BY <3>1, LineFacts DEF Breakers
    <3>6. ~Sends(JobLines)' /\ ~Sends(Breakers)'
      BY <1>2, <3>3, <3>5 DEF Sends
    <3>7. PastSetup' => CoveredNext
      BY <2>2, <3>2, <3>4 DEF PastSetup, StreamInv
    <3>8. mode' = "setup" => LineStart
      BY <3>2, <3>4 DEF StreamInv
    <3> QED BY <1>1, <3>3, <3>6, <3>7, <3>8, MachineStays
  <2>4. CASE ~IsLine(c)
    <3>1. /\ c \in {Query, CtrlX, CtrlY} /\ c \in Lines \cup Characters /\ wire \in Seq(Lines \cup Characters)
          /\ wire' = Append(wire, c) /\ (mode' = mode \/ mode' = "halting")
      BY <2>1, <2>4, RequestType DEF LinkTypes, HostTypes
    <3>2. /\ Len(wire') = Len(wire) + 1 /\ wire'[Len(wire) + 1] = c /\ Len(wire) \in Nat
          /\ \A i \in 1 .. Len(wire) : wire'[i] = wire[i]
      BY <3>1, AppendProperties
    <3>3. /\ wire # <<>> => Head(wire') = Head(wire)
          /\ wire # <<>> => Tail(wire') = Append(Tail(wire), c)
          /\ wire = <<>> => Head(wire') = c
          /\ wire' # <<>>
      BY <3>1, HeadOfAppend
    <3>4. c \notin Lines /\ ~IsLine(c) /\ c # CR
      BY <2>4, <3>1, LineFacts, CharactersDiffer DEF IsLine
    <3>5. /\ Sends(JobLines)' <=> Sends(JobLines)
          /\ Sends(Breakers)' <=> Sends(Breakers)
          /\ Sends({Start})' <=> Sends({Start})
      <4>1. ASSUME NEW S \in SUBSET Lines PROVE (wire' # <<>> /\ Head(wire') \in S) <=> Sends(S)
        BY <3>3, <3>4 DEF Sends
      <4>2. JobLines \in SUBSET Lines /\ Breakers \in SUBSET Lines /\ {Start} \in SUBSET Lines
        BY DEF Lines, Breakers
      <4>3. (wire' # <<>> /\ Head(wire') \in JobLines) <=> Sends(JobLines)
        BY <4>1, <4>2
      <4>4. (wire' # <<>> /\ Head(wire') \in Breakers) <=> Sends(Breakers)
        BY <4>1, <4>2
      <4>5. (wire' # <<>> /\ Head(wire') \in {Start}) <=> Sends({Start})
        BY <4>1, <4>2
      <4> QED BY <1>2, <4>3, <4>4, <4>5 DEF Sends
    <3>6. Ends(wire) => Ends(wire)'
      BY <3>3 DEF Ends
    <3>7. WireShape'
      <4>1. \A i \in 1 .. Len(wire') : IsLine(wire'[i]) => i = 1
        BY <3>2, <3>4 DEF StreamInv, WireShape
      <4>2. wire' # <<>> /\ IsLine(Head(wire')) => Ends(Tail(wire'))
        <5> SUFFICES ASSUME IsLine(Head(wire')) PROVE Ends(Tail(wire'))
          OBVIOUS
        <5>1. wire # <<>> /\ IsLine(Head(wire))
          BY <3>3, <3>4
        <5> DEFINE t == Tail(wire)
        <5>2. t \in Seq(Lines \cup Characters) /\ t # <<>> /\ Head(t) = Head(Ending)
          BY <3>1, <5>1 DEF StreamInv, WireShape, Ends
        <5>3. Tail(wire') = Append(t, c)
          BY <3>3, <5>1
        <5> HIDE DEF t
        <5>4. Append(t, c) # <<>> /\ Head(Append(t, c)) = Head(t)
          BY <3>1, <5>2, HeadOfAppend
        <5> QED BY <5>2, <5>3, <5>4 DEF Ends
      <4>3. (\E i \in 1 .. Len(wire') : wire'[i] = CR) => Head(Ending) = CR
        BY <3>2, <3>4 DEF StreamInv, WireShape
      <4>4. flags'.cr \/ reg'.flags.cr => Head(Ending) = CR
        BY <1>1 DEF StreamInv, WireShape
      <4>5. wire' # <<>> /\ IsLine(Head(wire')) => Ends(Tail(wire))'
        BY <4>2 DEF Ends
      <4> QED BY <4>1, <4>3, <4>4, <4>5 DEF WireShape
    <3>8. PastSetup' => PastSetup
      BY <2>2, <3>1 DEF PastSetup
    <3>9. mode' = "setup" => mode = "setup"
      BY <3>1
    <3> QED BY <1>1, <3>5, <3>6, <3>7, <3>8, <3>9, MachineStays DEF StreamInv
  <2> QED BY <2>3, <2>4
<1> QED BY <1>3, <1>5, <1>6, <1>7, <1>8 DEF Host

\* A damaged line is still the one it was; the end lost was that of a line that arrived.
LEMMA DamageKeepsStream ==
  ASSUME LinkTypes, StreamInv, DamageLine
  PROVE  StreamInv'
<1>1. /\ UNCHANGED <<buffer, received, halted, currentline, uploading, fd, flags, reg, next, mode>>
      /\ wire # <<>> /\ wire \in Seq(Lines \cup Characters)
  BY DEF DamageLine, firmwareVars, consoleVars, LinkTypes, HostTypes
<1>2. JobLines' = JobLines /\ Breakers' = Breakers /\ Start' = Start
  BY DEF JobLines, Breakers, PlainLines, Start
<1>3. PastSetup' <=> PastSetup
  BY <1>1 DEF PastSetup
<1>4. CASE wire' = <<>>
  <2>1. wire = Ending /\ next > 1
    BY <1>4, <1>1, DamagedIsSomething DEF DamageLine, LinkTypes
  <2>2. mode # "setup"
    BY <2>1 DEF LinkTypes, HostTypes
  <2>3. ~Sends({Start})
    BY <2>1, EndingType, LineFacts DEF Sends, Lines, Characters
  <2>4. WireShape'
    BY <1>1, <1>4 DEF StreamInv, WireShape
  <2>5. ~Sends(JobLines)' /\ ~Sends(Breakers)'
    BY <1>4 DEF Sends
  <2> QED BY <1>1, <1>3, <2>2, <2>3, <2>4, <2>5, MachineStays DEF StreamInv
<1>5. CASE wire' # <<>>
  <2>1. PICK how \in Damage \ {"end"} : /\ IsLine(Head(wire)) /\ Head(wire).num > 0
                                        /\ wire' = <<Damaged(Head(wire), how)>> \o Tail(wire)
    BY <1>5 DEF DamageLine
  <2> DEFINE l == Damaged(Head(wire), how)
             t == Tail(wire)
  <2>2. Head(wire) \in Lines /\ Head(wire) \in JobLines
    BY <1>1, <2>1, LineFacts DEF IsLine
  <2>3. l \in JobLines /\ l \in Lines
    BY <2>1, <2>2, DamageType DEF Lines
  <2>4. /\ t \in Seq(Lines \cup Characters) /\ Len(t) = Len(wire) - 1 /\ Len(wire) \in Nat \ {0}
        /\ \A i \in 1 .. Len(wire) - 1 : t[i] = wire[i + 1]
    BY <1>1, HeadTailProperties
  <2>5. Ends(t)
    BY <1>1, <2>1 DEF StreamInv, WireShape
  <2>6. wire' = <<l>> \o t
    BY <2>1
  <2> HIDE DEF l, t
  <2>7. <<l>> \in Seq(Lines \cup Characters) /\ Len(<<l>>) = 1 /\ <<l>>[1] = l
    BY <2>3
  <2>8. /\ wire' \in Seq(Lines \cup Characters) /\ Len(wire') = Len(wire)
        /\ \A i \in 1 .. Len(wire) : wire'[i] = IF i = 1 THEN l ELSE t[i - 1]
    <3>1. /\ wire' \in Seq(Lines \cup Characters) /\ Len(wire') = 1 + Len(t)
          /\ \A i \in 1 .. 1 + Len(t) : wire'[i] = IF i <= 1 THEN <<l>>[i] ELSE t[i - 1]
      BY <2>4, <2>6, <2>7, ConcatProperties
    <3> QED BY <2>4, <2>7, <3>1
  <2>9. Head(wire') = l /\ Tail(wire') = t
    <3>1. Head(wire') = l
      BY <1>5, <2>4, <2>8
    <3> DEFINE u == Tail(wire')
    <3>2. /\ u \in Seq(Lines \cup Characters) /\ Len(u) = Len(wire) - 1
          /\ \A i \in 1 .. Len(wire) - 1 : u[i] = wire'[i + 1]
      BY <1>5, <2>8, HeadTailProperties
    <3> HIDE DEF u
    <3>3. \A i \in 1 .. Len(u) : u[i] = t[i]
      BY <2>4, <2>8, <3>2
    <3>4. u = t
      BY <2>4, <3>2, <3>3, SeqEqual
    <3> QED BY <3>1, <3>4 DEF u
  <2>10. \A i \in 2 .. Len(wire) : wire'[i] = wire[i]
    <3> SUFFICES ASSUME NEW i \in 2 .. Len(wire) PROVE wire'[i] = wire[i]
      OBVIOUS
    <3>1. i - 1 \in 1 .. Len(wire) - 1 /\ i - 1 + 1 = i /\ i # 1 /\ i \in 1 .. Len(wire)
      BY <2>4
    <3>2. wire'[i] = t[i - 1] /\ t[i - 1] = wire[i - 1 + 1]
      BY <2>4, <2>8, <3>1
    <3> QED BY <3>1, <3>2
  <2>11. WireShape'
    <3>1. \A i \in 1 .. Len(wire') : IsLine(wire'[i]) => i = 1
      <4> SUFFICES ASSUME NEW i \in 1 .. Len(wire'), IsLine(wire'[i]), i # 1 PROVE FALSE
        OBVIOUS
      <4>1. i \in 2 .. Len(wire) /\ i \in 1 .. Len(wire)
        BY <2>4, <2>8
      <4> QED BY <2>10, <4>1 DEF StreamInv, WireShape
    <3>2. (\E i \in 1 .. Len(wire') : wire'[i] = CR) => Head(Ending) = CR
      <4> SUFFICES ASSUME NEW i \in 1 .. Len(wire'), wire'[i] = CR PROVE Head(Ending) = CR
        OBVIOUS
      <4>1. i # 1
        BY <2>3, <2>4, <2>8, LineFacts DEF Characters
      <4>2. i \in 2 .. Len(wire) /\ i \in 1 .. Len(wire)
        BY <2>4, <2>8, <4>1
      <4> QED BY <2>10, <4>2 DEF StreamInv, WireShape
    <3>3. Ends(Tail(wire))'
      BY <2>5, <2>9 DEF Ends
    <3> QED BY <1>1, <3>1, <3>2, <3>3 DEF StreamInv, WireShape
  <2>12. Sends(JobLines) /\ ~Sends({Start})
    <3>1. Head(wire) # Start
      BY <2>1 DEF Start, Text
    <3> QED BY <1>1, <2>2, <3>1 DEF Sends
  <2>13. ~Sends(Breakers)'
    <3>1. l \notin Breakers
      BY <2>3, LineFacts DEF Breakers
    <3> QED BY <1>2, <2>9, <3>1 DEF Sends
  <2>14. ~Ends(wire)
    BY <2>1, EndingType DEF Ends, IsLine, Characters
  <2> QED BY <1>1, <1>3, <2>11, <2>12, <2>13, <2>14, MachineStays DEF StreamInv
<1> QED BY <1>4, <1>5

LEMMA StreamKept ==
  ASSUME PlainJob, SetupFits, LinkTypes, RequestInv, StreamInv, [Next]_vars
  PROVE  StreamInv'
<1>1. CASE Firmware
  BY <1>1, ConsoleKeepsStream, DispatchKeepsStream DEF Firmware
<1>2. CASE Host \/ SendRequest \/ EarlyTimeout
  BY <1>2, HostKeepsStream
<1>3. CASE Deliver
  BY <1>3, DeliverKeepsStream
<1>4. CASE DamageLine
  BY <1>4, DamageKeepsStream
<1>5. CASE OtherHalt \/ UNCHANGED vars
  <2>1. /\ UNCHANGED <<buffer, received, flags, reg, currentline, uploading, fd, wire, next, mode>>
        /\ halted' = halted \/ halted' = TRUE
    BY <1>5 DEF OtherHalt, consoleVars, hostVars, vars, machineVars, firmwareVars
  <2>2. Saved => Saved'
    BY <2>1 DEF Saved, Open
  <2>3. Unsaved' => Unsaved
    BY <2>1, <2>2 DEF Unsaved, This, Start, Breakers, PlainLines
  <2>4. received' # <<>> /\ This' \in JobLines => Saved'
    BY <2>1, <2>2 DEF StreamInv, This, JobLines
  <2> QED BY <2>1, <2>3, <2>4, StreamStays
<1> QED BY <1>1, <1>2, <1>3, <1>4, <1>5 DEF Next

LEMMA StreamInit == Init => StreamInv
<1> SUFFICES ASSUME Init PROVE StreamInv
  OBVIOUS
<1>1. /\ wire = <<>> /\ buffer = <<>> /\ received = <<>> /\ mode = "setup" /\ next = 0
      /\ flags.cr = FALSE /\ reg.flags.cr = FALSE
  BY DEF Init, ConsoleInit, Unloaded
<1> QED BY <1>1 DEF StreamInv, WireShape, LineStart, PastSetup, Sends

\* What is executed is undamaged, and a line of an upload only when M28 was refused.
LEMMA ExecutionKeepsUpload ==
  ASSUME PlainJob, LinkTypes, StreamInv, UploadInv, Accepts,
         currentline' = (IF Numbered THEN currentline + 1 ELSE currentline),
         executed' = (IF Numbered THEN Append(executed, This) ELSE executed),
         UNCHANGED <<uploading, fd>>, ~uploading,
         halted => This.kind # "data"
  PROVE  UploadInv'
<1>1. currentline \in -1 .. N /\ executed \in Seq(JobLines)
  BY DEF LinkTypes, DispatchTypes
<1>2. CASE ~Numbered
  BY <1>2 DEF UploadInv
<1>3. CASE Numbered
  <2>1. /\ received # <<>> /\ This \in JobLines /\ This.num = currentline + 1 /\ This.sum # "bad"
    BY <1>3, AcceptedLine DEF LinkTypes
  <2>2. /\ currentline + 1 \in 1 .. N /\ currentline \in 0 .. N /\ This.kind = Program[currentline + 1]
    BY <2>1, JobLineInHand
  <2>3. /\ Len(executed') = Len(executed) + 1 /\ executed'[Len(executed) + 1] = This
        /\ Len(executed) \in Nat
        /\ \A i \in 1 .. Len(executed) : executed'[i] = executed[i]
    BY <1>1, <1>3, <2>1, AppendProperties
  <2>4. \A i \in 1 .. Len(executed') : executed'[i].sum # "bad"
    BY <2>1, <2>3 DEF UploadInv
  <2>5. \A a \in 1 .. currentline : a \in 1 .. currentline + 1
    BY <1>1
  <2>6. ASSUME \E i \in 1 .. Len(executed) : executed[i].kind = "data"
        PROVE  fd' = "refused" /\ \E a \in 1 .. currentline' : Program[a] = "M28"
    BY <1>3, <2>5, <2>6 DEF UploadInv
  <2>7. ASSUME This.kind = "data"
        PROVE  fd' = "refused" /\ \E a \in 1 .. currentline' : Program[a] = "M28"
    <3>1. Open(currentline)
      <4> DEFINE k == currentline + 1
      <4>1. k \in 1 .. N /\ Program[k] = "data" /\ k - 1 = currentline
        BY <2>2, <2>7
      <4> HIDE DEF k
      <4>2. Open(k - 1)
        BY <4>1 DEF PlainJob
      <4> QED BY <4>1, <4>2
    <3>2. fd = "refused"
      BY <2>1, <2>7, <3>1 DEF StreamInv, Saved
    <3>3. \E a \in 1 .. currentline : Program[a] = "M28"
      BY <3>1 DEF Open
    <3> QED BY <1>3, <2>5, <3>2, <3>3
  <2>8. (\E i \in 1 .. Len(executed') : executed'[i].kind = "data") =>
          This.kind = "data" \/ \E i \in 1 .. Len(executed) : executed[i].kind = "data"
    <3> SUFFICES ASSUME NEW i \in 1 .. Len(executed'), executed'[i].kind = "data"
                 PROVE  This.kind = "data" \/ \E k \in 1 .. Len(executed) : executed[k].kind = "data"
      OBVIOUS
    <3>1. i \in 1 .. Len(executed) \/ i = Len(executed) + 1
      BY <2>3
    <3> QED BY <2>3, <3>1
  <2> QED BY <2>4, <2>6, <2>7, <2>8 DEF UploadInv
<1> QED BY <1>2, <1>3

LEMMA DispatchKeepsUpload ==
  ASSUME PlainJob, LinkTypes, StreamInv, UploadInv, DispatchStep
  PROVE  UploadInv'
<1> DEFINE Data == \E i \in 1 .. Len(executed) : executed[i].kind = "data"
<1>0. currentline \in -1 .. N
  BY DEF LinkTypes, DispatchTypes
<1>1. ASSUME executed' = executed, Data => fd' = fd, currentline' \in {currentline, currentline + 1}
      PROVE  UploadInv'
  <2>1. \A a \in 1 .. currentline : a \in 1 .. currentline'
    BY <1>0, <1>1
  <2> QED BY <1>1, <2>1 DEF UploadInv
<1>2. CASE EmptyLine \/ IgnoredLine \/ ResendLine \/ MoveWaits \/ MoveEnds
  BY <1>1, <1>2 DEF EmptyLine, IgnoredLine, ResendLine, MoveWaits, MoveEnds, dispatchVars
<1>3. CASE SetLineNumber
  BY <1>3 DEF SetLineNumber, UploadInv
<1>4. CASE CommentLine \/ Unhalt \/ HaltedLine \/ EmergencyStop \/ ErrorLine \/ SaveLine
  BY <1>1, <1>4 DEF CommentLine, Unhalt, HaltedLine, EmergencyStop, ErrorLine, SaveLine, Obey, UploadKept
<1>5. CASE CloseUpload \/ SaveFails
  <2>1. ~Data
    BY <1>5 DEF CloseUpload, SaveFails, Uploads, LinkTypes, DispatchTypes, UploadInv
  <2>2. executed' = executed /\ currentline' \in {currentline, currentline + 1}
    BY <1>5 DEF CloseUpload, SaveFails, Obey
  <2> QED BY <1>1, <2>1, <2>2
<1>6. CASE OpenUpload
  <2>1. Accepts /\ This.kind = "M28" /\ executed' = executed /\ currentline' \in {currentline, currentline + 1}
    BY <1>6 DEF OpenUpload, Runs, Dispatches, Obey
  <2>2. ~Data
    <3> SUFFICES ASSUME Data PROVE FALSE
      OBVIOUS
    <3>1. PICK a \in 1 .. currentline : Program[a] = "M28"
      BY DEF UploadInv
    <3>2. This \in JobLines
      <4>1. received # <<>> /\ This \in Lines
        BY <2>1, AcceptedLine DEF LinkTypes
      <4>2. "M28" \notin PlainKinds
        BY DEF PlainKinds, PlainJob
      <4> QED BY <2>1, <4>1, <4>2, LineFacts DEF Lines
    <3>3. currentline + 1 \in 1 .. N /\ Program[currentline + 1] = "M28"
      BY <2>1, <3>2, JobLineInHand
    <3>4. a \in 1 .. N /\ a # currentline + 1
      BY <1>0, <3>1, ConstantFacts
    <3> QED BY <3>1, <3>3, <3>4 DEF PlainJob
  <2> QED BY <1>1, <2>1, <2>2
<1>7. CASE ExecuteLine \/ StartMove
  <2>1. /\ Accepts /\ currentline' = (IF Numbered THEN currentline + 1 ELSE currentline)
        /\ executed' = (IF Numbered THEN Append(executed, This) ELSE executed)
        /\ UNCHANGED <<uploading, fd>> /\ ~uploading
        /\ halted => This.kind \in AllowedWhenHalted
    BY <1>7 DEF ExecuteLine, StartMove, Runs, Dispatches, Obey, UploadKept
  <2>2. halted => This.kind # "data"
    BY <2>1 DEF AllowedWhenHalted
  <2> QED BY <2>1, <2>2, ExecutionKeepsUpload
<1> QED BY <1>2, <1>3, <1>4, <1>5, <1>6, <1>7 DEF DispatchStep

LEMMA UploadInvKept ==
  ASSUME PlainJob, LinkTypes, StreamInv, UploadInv, [Next]_vars
  PROVE  UploadInv'
<1>1. CASE DispatchStep
  BY <1>1, DispatchKeepsUpload
<1>2. CASE ~DispatchStep
  <2>1. UNCHANGED <<executed, fd, currentline>>
    BY <1>2 DEF Next, Firmware, OtherHalt, Host, SendLine, HearOk, HearResend, HearStatus, HearAlarm, HearHalted,
              Restart, Timeout, SendRequest, EarlyTimeout, Repeat, Deliver, DamageLine, HearKeeps,
              dispatchVars, firmwareVars, machineVars, vars
  <2> QED BY <2>1 DEF UploadInv
<1> QED BY <1>1, <1>2

\* Nothing is obeyed that was damaged, and no line between M28 and M29 gets to the
\* machine unless M28 could not open the file: for every job with one upload,
\* whatever the wire does to its lines except to lose a '*', and however often the
\* machine is halted in between.  The ring has room for the lines that set up a job.
THEOREM ExecutesAsMeant ==
  ASSUME PlainJob, "star" \notin Damage
  PROVE  Spec /\ []SetupFits => []ExecutedAsMeant
<1> DEFINE Inv == LinkTypes /\ RequestInv /\ StreamInv /\ UploadInv
<1>1. Init => Inv
  <2> SUFFICES ASSUME Init PROVE UploadInv
    BY TypesInit, RequestInit, StreamInit
  <2>1. executed = <<>>
    BY DEF Init, DispatchInit
  <2> QED BY <2>1 DEF UploadInv
<1>2. Inv /\ SetupFits /\ [Next]_vars => Inv'
  BY TypesKept, RequestKept, StreamKept, UploadInvKept
<1>3. Inv => ExecutedAsMeant
  <2> SUFFICES ASSUME Inv PROVE ExecutedAsMeant
    OBVIOUS
  <2>1. TypeOK /\ (uploading <=> fd \in {"open", "failed"})
    BY DEF LinkTypes, ConsoleTypes, DispatchTypes, HostTypes, TypeOK
  <2>2. ASSUME NEW i \in DOMAIN executed
        PROVE  executed[i].sum = "good" /\ (fd # "refused" => executed[i].kind # "data")
    <3>1. executed \in Seq(JobLines)
      BY DEF LinkTypes, DispatchTypes
    <3>2. i \in 1 .. Len(executed) /\ executed[i] \in JobLines
      BY <3>1
    <3>3. executed[i].sum \in Sums /\ executed[i].sum # "bad"
      BY <3>2 DEF JobLines, UploadInv
    <3>4. Sums = {"good", "bad"}
      BY DEF Sums
    <3> QED BY <3>2, <3>3, <3>4 DEF UploadInv
  <2> QED BY <2>1, <2>2 DEF ExecutedAsMeant
<1>4. Spec /\ []SetupFits => []Inv
  BY <1>1, <1>2, PTL DEF Spec
<1> QED BY <1>3, <1>4, PTL
=============================================================================
