---------------------------- MODULE CamScripter ----------------------------
(***************************************************************************)
(* CamScripter (projects/camscripter): messages from a host, framed by     *)
(* SLIP (slip.c), taken apart (csmsg.c) and carried out (scripter.c,       *)
(* lualib.c), or, when the button is not pressed at start-up, an installed *)
(* program run for ever.                                                   *)
(*                                                                         *)
(* Nothing checks a frame but its lengths and nothing acknowledges it.     *)
(* The model has the line garble or drop bytes, the 16-byte receive FIFO   *)
(* of the UART (FifoLen here) run over while a program runs, and the power *)
(* fail.  Every byte carries the place in the frame it was sent from.      *)
(***************************************************************************)
EXTENDS Integers, Sequences, SequencesExt, FiniteSets

CONSTANTS
  Messages,     \* what the host may send: [id, params], params of bytes
  Scripts,      \* bound: what it sends, as sequences of MaxSends messages
  MaxLen,       \* MAX_MSG_LEN
  FifoLen,
  MaxSends,
  MaxFaults     \* bound: bytes garbled or dropped by the line, and power cycles

END == 192
ESC == 219
ESC_END == 220
ESC_ESC == 221
LUA_BYTECODE_MSG_ID == 30
INSTALL_BYTECODE_MSG_ID == 40
PIXBUF_INFO_MSG_ID == 70

Byte == 0 .. 255

\* A size that fits into three bytes.
ThreeBytes(s) == s \div 65536 < 256

ASSUME SizeAssumption ==
  /\ MaxLen \in Nat \ {0} /\ FifoLen \in Nat \ {0}
  /\ MaxSends \in Nat /\ MaxFaults \in Nat

\* The host follows the protocol: a program in one parameter, a point in two,
\* and sizes that three bytes hold.
ASSUME MessagesAssumption ==
  /\ Scripts \subseteq [1 .. MaxSends -> Messages]
  /\ \A m \in Messages :
       /\ m \in [id : Byte, params : Seq(Seq(Byte))] /\ Len(m.params) \in 1 .. 255
       /\ \A i \in DOMAIN m.params : ThreeBytes(Len(m.params[i]))
       /\ m.id = PIXBUF_INFO_MSG_ID => Len(m.params) > 1

VARIABLES
  sent,      \* the messages of the host, frame by frame
  at,        \* the place of the character it sends next: [frame, pos, part]
  fifo,      \* receive FIFO
  end_rcvd, escaped, packet,   \* of recv_packet; escaped: ESC read
  phase,     \* choose, recv, parse, handle, destroy, alone; or halted, wild
  msg,       \* the message being handled: [of, id, params]
  handled,   \* the messages carried out, each with its frame
  installed, \* BYTECODE_PERM_FILE: a sequence of at most one program
  heap,      \* parameters allocated and not freed
  damaged,   \* frames of which a byte was garbled or lost
  faults

line == <<sent, at, damaged>>
card == <<handled, installed>>
vars == <<sent, at, fifo, end_rcvd, escaped, packet, phase, msg, handled,
          installed, heap, damaged, faults>>
-----------------------------------------------------------------------------
(* Messages and their bytes                                                *)

SizeBytes(s) == <<(s \div 65536) % 256, (s \div 256) % 256, s % 256>>

\* The header and the first parameters, each behind its size.
BytesUpTo(m) ==
  LET upto[n \in 0 .. Len(m.params)] ==
        IF n = 0 THEN <<0, m.id, Len(m.params)>>
        ELSE upto[n - 1] \o SizeBytes(Len(m.params[n])) \o m.params[n]
  IN upto

message_to_bytes(m) == BytesUpTo(m)[Len(m.params)]

\* mutant: an escape byte in the data is sent as it is
put_slip_charRaw(c) == IF c = END THEN <<ESC, ESC_END>> ELSE <<c>>

put_slip_char(c) ==
  CASE c = END -> <<ESC, ESC_END>>
    [] c = ESC -> <<ESC, ESC_ESC>>
    [] OTHER -> <<c>>

Frames == [m \in Messages |-> message_to_bytes(m)]

\* What init_packet, one turn of the loop or finish_packet sends of bytes b;
\* the start of each packet drops what the receiver has read of another.
send_packet(b, pos) == IF pos \in DOMAIN b THEN put_slip_char(b[pos]) ELSE <<END>>

Size(b, i) == (b[i] * 256 + b[i + 1]) * 256 + b[i + 2]

\* mutant: the length of a parameter is not compared with what was received
bytes_to_messageTrusts(b) ==
  [ok |-> Len(b) >= 3, id |-> IF Len(b) >= 3 THEN b[2] ELSE 0,
   params |-> IF Len(b) >= 6 THEN <<SubSeq(b, 7, Len(b))>> ELSE << >>]

\* Where each of the first parameters ends in b, or 0 if it is not all there.
ParamEnds(b, last) ==
  LET idx[n \in 0 .. last] ==
        IF n = 0 THEN 3
        ELSE LET i == idx[n - 1] IN
             IF i = 0 \/ Len(b) < i + 3 THEN 0
             ELSE LET e == i + 3 + Size(b, i + 1) IN IF e > Len(b) THEN 0 ELSE e
  IN idx

\* The message in b, or the parameters found before b was refused.
bytes_to_message(b) ==
  LET count == IF Len(b) >= 3 THEN b[3] ELSE 0
      last == IF count > Len(b) THEN Len(b) ELSE count   \* each takes 3 bytes
      idx == ParamEnds(b, last)
      found == Cardinality({n \in 1 .. last : idx[n] # 0})
  IN [ok |-> Len(b) >= 3 /\ found = count,
      id |-> IF Len(b) >= 3 THEN (b[1] * 256 + b[2]) % 256 ELSE 0,
      params |-> [n \in 1 .. found |-> SubSeq(b, idx[n - 1] + 4, idx[n])]]

-----------------------------------------------------------------------------
Place == [frame : 1 .. MaxSends + 1, pos : Nat, part : 1 .. 2]
Data == [b : Byte, place : Place]
Message == [of : 0 .. MaxSends, id : Byte, params : Seq(Seq(Byte))]

TypeOK ==
  /\ sent \in Scripts
  /\ at \in Place
  /\ fifo \in Seq(Data) /\ Len(fifo) <= FifoLen
  /\ packet \in Seq(Data) /\ Len(packet) <= MaxLen
  /\ end_rcvd \in BOOLEAN /\ escaped \in BOOLEAN
  /\ phase \in {"choose", "recv", "parse", "handle", "destroy", "alone", "halted", "wild"}
  /\ msg \in Message /\ handled \in Seq({m \in Message : m.of > 0})
  /\ installed \in Seq(Seq(Byte)) /\ Len(installed) <= 1 /\ heap \in Nat
  /\ damaged \subseteq 1 .. MaxSends
  /\ faults \in 0 .. MaxFaults

NoMsg == [of |-> 0, id |-> 0, params |-> << >>]

\* Where a byte of a frame begins, and the END before the first.
Start(k, i) == [frame |-> k, pos |-> i, part |-> 1]
First(k) == Start(k, 0)

Init ==
  /\ sent \in Scripts
  /\ at = First(1)
  /\ fifo = << >> /\ packet = << >> /\ end_rcvd = FALSE /\ escaped = FALSE
  /\ phase = "choose" /\ msg = NoMsg /\ handled = << >> /\ installed = << >>
  /\ heap = 0 /\ damaged = {} /\ faults = 0
-----------------------------------------------------------------------------
(* The line                                                                *)

\* The bytes of a frame, the characters that the step of send_packet at a place
\* sends, and the place after it.
Frame(k) == Frames[sent[k]]
Chars(p) == send_packet(Frame(p.frame), p.pos)
After(p) ==
  IF p.part < Len(Chars(p)) THEN [p EXCEPT !.part = @ + 1]
  ELSE IF p.pos <= Len(Frame(p.frame)) THEN Start(p.frame, p.pos + 1)
  ELSE First(p.frame + 1)

\* A byte arrives; in a full FIFO it overruns.  recv_packet reads faster than
\* the line sends.
Arrives(b) ==
  IF Len(fifo) < FifoLen
  THEN fifo' = Append(fifo, [b |-> b, place |-> at])
  ELSE UNCHANGED fifo

HostSends ==
  /\ at.frame <= MaxSends
  /\ phase = "recv" => Len(fifo) < FifoLen
  /\ at' = After(at)
  /\ \/ /\ Arrives(Chars(at)[at.part])
        /\ damaged' = IF Len(fifo) < FifoLen THEN damaged ELSE damaged \cup {at.frame}
        /\ UNCHANGED faults
     \/ /\ faults < MaxFaults /\ faults' = faults + 1
        /\ UNCHANGED fifo \/ \E b \in {1, END, ESC} : Arrives(b)
        /\ damaged' = damaged \cup {at.frame}
  /\ UNCHANGED <<sent, end_rcvd, escaped, packet, phase, msg, heap, card>>
-----------------------------------------------------------------------------
(* The camera                                                              *)

\* mutant: received is not set back
NewPacketKeeps == packet' = packet /\ end_rcvd' = FALSE /\ escaped' = FALSE

\* The start of a call of recv_packet.
NewPacket == packet' = << >> /\ end_rcvd' = FALSE /\ escaped' = FALSE

\* get_exec_mode and what main does with its answer.
get_exec_mode ==
  /\ phase = "choose"
  /\ \/ phase' = "recv"
     \/ phase' = IF installed = << >> THEN "halted" ELSE "alone"
  /\ UNCHANGED <<fifo, end_rcvd, escaped, packet, msg, heap, faults, line, card>>

\* An error in the installed program stops go_stand_alone.
go_stand_alone ==
  /\ phase = "alone" /\ phase' = "halted"
  /\ UNCHANGED <<fifo, end_rcvd, escaped, packet, msg, heap, faults, line, card>>

Store(d) ==
  packet' = IF end_rcvd /\ Len(packet) < MaxLen THEN Append(packet, d) ELSE packet

Unescaped(c) == CASE c = ESC_END -> END [] c = ESC_ESC -> ESC [] OTHER -> c

\* One getchar of recv_packet.
recv_packet ==
  /\ phase = "recv" /\ fifo # << >>
  /\ fifo' = Tail(fifo)
  /\ LET d == Head(fifo) IN
       \/ /\ escaped
          /\ Store([d EXCEPT !.b = Unescaped(d.b)])
          /\ escaped' = FALSE /\ UNCHANGED <<end_rcvd, phase>>
       \/ /\ ~escaped /\ d.b = END
          /\ end_rcvd' = TRUE
          /\ phase' = IF packet = << >> THEN phase ELSE "parse"
          /\ UNCHANGED <<packet, escaped>>
       \/ /\ ~escaped /\ d.b = ESC
          /\ escaped' = TRUE /\ UNCHANGED <<packet, end_rcvd, phase>>
       \/ /\ ~escaped /\ d.b \notin {END, ESC}
          /\ Store(d) /\ UNCHANGED <<escaped, end_rcvd, phase>>
  /\ UNCHANGED <<msg, heap, faults, line, card>>

\* A message without parameters leaves their pointer as malloc gave it: NULL
\* or wild, when destroy_msg follows it at the latest.  A refused message
\* takes its record with it and leaves its parameters.
Parse ==
  /\ phase = "parse"
  /\ LET m == bytes_to_message([i \in DOMAIN packet |-> packet[i].b]) IN
       /\ heap' = heap + Len(m.params)
       /\ msg' = IF m.ok THEN [of |-> Last(packet).place.frame, id |-> m.id, params |-> m.params]
                 ELSE NoMsg
       /\ \/ m.ok /\ phase' = "handle"
          \/ m.ok /\ m.params = << >> /\ phase' = "wild"
          \/ ~m.ok /\ phase' = "recv"
  /\ NewPacket
  /\ UNCHANGED <<fifo, faults, line, card>>

Program == msg.params[1]

\* The file is not opened when there is no card.
HandleProgram ==
  /\ msg.id \in {LUA_BYTECODE_MSG_ID, INSTALL_BYTECODE_MSG_ID} /\ msg.params # << >>
  /\ handled' = Append(handled, msg)
  /\ \/ /\ installed' = IF msg.id = INSTALL_BYTECODE_MSG_ID THEN <<Program>> ELSE installed
        /\ phase' = "destroy"
     \/ phase' = "destroy" /\ UNCHANGED installed

\* get_int follows next_param whatever the number of parameters.
HandlePoint ==
  /\ msg.id = PIXBUF_INFO_MSG_ID /\ msg.params # << >>
  /\ handled' = Append(handled, msg)
  /\ phase' = IF Len(msg.params) = 1 THEN "wild" ELSE "destroy"
  /\ UNCHANGED installed

HandleOther ==
  /\ \/ msg.params = << >>
     \/ msg.id \notin {LUA_BYTECODE_MSG_ID, INSTALL_BYTECODE_MSG_ID, PIXBUF_INFO_MSG_ID}
  /\ phase' = "destroy" /\ UNCHANGED <<handled, installed>>

\* Bytes go on arriving while a program runs.
handle_message ==
  /\ phase = "handle"
  /\ HandleProgram \/ HandlePoint \/ HandleOther
  /\ UNCHANGED <<fifo, end_rcvd, escaped, packet, msg, heap, faults, line>>

\* mutant: only the first parameter is freed
destroy_msgFirst ==
  /\ phase = "destroy" /\ phase' = "recv"
  /\ heap' = IF msg.params = << >> THEN heap ELSE heap - 1
  /\ msg' = NoMsg
  /\ UNCHANGED <<fifo, end_rcvd, escaped, packet, faults, line, card>>

destroy_msg ==
  /\ phase = "destroy" /\ phase' = "recv"
  /\ heap' = heap - Len(msg.params)
  /\ msg' = NoMsg
  /\ UNCHANGED <<fifo, end_rcvd, escaped, packet, faults, line, card>>

\* The power is switched off and on: what the camera holds is lost, and the
\* rest of the frame under way arrives.
PowerCycle ==
  /\ faults < MaxFaults /\ faults' = faults + 1
  /\ phase' = "choose" /\ msg' = NoMsg /\ heap' = 0 /\ NewPacket /\ fifo' = << >>
  /\ damaged' = damaged \cup {d.place.frame : d \in ToSet(fifo \o packet)} \cup ({msg.of} \ {0})
                  \cup (IF at.pos > 0 THEN {at.frame} ELSE {})
  /\ UNCHANGED <<sent, at, handled, installed>>

Camera == get_exec_mode \/ recv_packet \/ Parse \/ handle_message \/ destroy_msg

Next == HostSends \/ Camera \/ go_stand_alone \/ PowerCycle

Spec == Init /\ [][Next]_vars /\ WF_vars(HostSends) /\ WF_vars(Camera)
-----------------------------------------------------------------------------
(* Properties                                                              *)

\* Neither the frame nor the one before it, whose end the receiver may have
\* missed, lost or changed a byte.
Whole(k) == {k - 1, k} \cap damaged = {}

Known(m) == m.id \in {LUA_BYTECODE_MSG_ID, INSTALL_BYTECODE_MSG_ID, PIXBUF_INFO_MSG_ID}
Fitting == {m \in Messages : Len(message_to_bytes(m)) <= MaxLen}
Fits(m) == m \in Fitting
IsSent(h) == [id |-> h.id, params |-> h.params] = sent[h.of]

\* What is carried out of a frame that arrived whole is the message that was
\* sent, not a part of it, and it is one that fits into the buffer.
TakenAsSent ==
  \A i \in DOMAIN handled :
    Whole(handled[i].of) => IsSent(handled[i]) /\ Fits(sent[handled[i].of])

\* Messages are carried out in the order in which they were sent and once,
\* whatever the line did to one byte and however many the FIFO lost.
InOrder ==
  \A i, j \in DOMAIN handled : i < j => handled[i].of < handled[j].of

\* Damage is over after one frame: a message that fits, sent in a frame that
\* arrives whole after one that did, is carried out in the end, unless the
\* program has stopped.
Resynchronises ==
  \A k \in 1 .. MaxSends :
    <>[](\/ ~Whole(k) \/ ~Known(sent[k]) \/ ~Fits(sent[k])
         \/ phase \in {"halted", "wild", "alone"}
         \/ \E i \in DOMAIN handled : handled[i].of = k /\ IsSent(handled[i]))

\* The parameters of a message are freed with it, unless it was refused,
\* which takes a damaged frame or a message too long for the buffer.
ParametersFreed ==
  phase = "recv" /\ heap > 0 =>
    damaged # {} \/ \E k \in 1 .. MaxSends : ~Fits(sent[k])

\* No pointer is followed that was never set unless a frame was damaged.
TamedByHost == phase = "wild" => damaged # {}

\* An undamaged conversation neither leaks memory nor follows a wild pointer,
\* and no conversation overruns the buffer.
MemoryKept == TypeOK /\ ParametersFreed /\ TamedByHost
=============================================================================
