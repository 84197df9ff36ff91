---------------------------- MODULE SerialProofs ----------------------------
(***************************************************************************)
(* The two conversations over a serial line.                               *)
(*                                                                         *)
(* What the motor controller is told, for every demand of the joystick,    *)
(* every answer it may give and any pace: without a byte lost a wheel does *)
(* only what one of its commands tells it (Heard).                         *)
(*                                                                         *)
(* What the WiFly driver takes for an answer, for every set of             *)
(* passphrases and any pace and refusals of the module: it ends with       *)
(* success only if the module took the settings whose answer it looks at.  *)
(***************************************************************************)
EXTENDS Motors, WiFly, SequenceTheorems, TLAPS

-----------------------------------------------------------------------------
(* The inductive invariant.                                                  *)
(*                                                                           *)
(* The lines of the bytes on their way, from a start to a carriage return.   *)
(* What a line tells a wheel, one of the wheel's commands does (told).       *)
Starts(s, i) == i = 1 \/ s[i - 1] = CR
IsLine(s, i, j) == Starts(s, i) /\ s[j] = CR /\ \A k \in i .. j - 1 : s[k] # CR
Tells(s, i, n) == n \in {3, 4} /\ s[i] \in Wheels /\ s[i + 1] \in {Forward, Backward}
Told(s, i, n) == [dir |-> s[i + 1], speed |-> 256 * s[i + 2] + IF n = 4 THEN s[i + 3] ELSE 0]
AllTold(s, told) ==
  \A i, j \in 1 .. Len(s) :
    i <= j /\ IsLine(s, i, j) /\ Tells(s, i, j - i) => Told(s, i, j - i) \in told[s[i]]

(* Behind the last line there is nothing or the byte that speed 0 left over. *)
EndsWell(s) ==
  Len(s) > 0 => LET n == Len(s)
                IN  s[n] = CR \/ (s[n] = 0 /\ (n = 1 \/ s[n - 1] = CR))

Sent == line \o up
Commanded == [w \in Wheels |-> {Heard(c) : c \in issued[w]}]
LineInv == \A k \in 1 .. Len(line) : line[k] # CR
StreamInv == AllTold(Sent, Commanded) /\ EndsWell(Sent)

(* The buffer holds the command of the wheel from its construction on; its   *)
(* last byte is 0 only as long as every wheel was asked to rest.             *)
IsCommand(data, w, c) ==
  /\ data[1] = w /\ data[2] = c.dir
  /\ IF c.speed = 0 THEN data[3] = 0 /\ data[4] = CR
     ELSE data[3] = c.speed \div 256 /\ data[4] = c.speed % 256 /\ data[5] = CR
BufferInv ==
  /\ tx_data[5] \in {0, CR}
  /\ (\E w \in Wheels : \E c \in issued[w] : c.speed # 0) => tx_data[5] = CR
CommandInv ==
  pc \in {"poll", "write"} => \E c \in issued[wheel] : IsCommand(tx_data, wheel, c)

IInv == TypeOK /\ LineInv /\ BufferInv
AskedInv == CommandInv /\ (lost = 0 => StreamInv /\ OnlyIssued)

-----------------------------------------------------------------------------
(* Lines. *)

LEMMA Joined ==
  ASSUME NEW s \in Seq(Byte), NEW t \in Seq(Byte)
  PROVE  /\ s \o t \in Seq(Byte) /\ Len(s \o t) = Len(s) + Len(t)
         /\ \A i \in 1 .. Len(s) : (s \o t)[i] = s[i]
         /\ \A i \in 1 .. Len(t) : (s \o t)[Len(s) + i] = t[i]
<1>1. /\ s \o t \in Seq(Byte) /\ Len(s \o t) = Len(s) + Len(t)
      /\ \A i \in 1 .. Len(s) + Len(t) : (s \o t)[i] = IF i <= Len(s) THEN s[i] ELSE t[i - Len(s)]
  BY ConcatProperties
<1>2. Len(s) \in Nat /\ Len(t) \in Nat
  BY LenProperties
<1>3. QED
  BY <1>1, <1>2

(* Reading a byte that ends no line leaves what is on its way as it is.      *)
LEMMA Shifted ==
  ASSUME NEW s \in Seq(Byte), NEW t \in Seq(Byte), t # << >>
  PROVE  Append(s, Head(t)) \o Tail(t) = s \o t
<1>1. Head(t) \in Byte /\ Tail(t) \in Seq(Byte) /\ Len(Tail(t)) = Len(t) - 1
      /\ Len(t) \in Nat \ {0} /\ Head(t) = t[1] /\ \A i \in 1 .. Len(t) - 1 : Tail(t)[i] = t[i + 1]
  BY HeadTailProperties, EmptySeq
<1> DEFINE a == Append(s, Head(t))
<1>2. /\ a \in Seq(Byte) /\ Len(a) = Len(s) + 1 /\ Len(s) \in Nat
      /\ (\A i \in 1 .. Len(s) : a[i] = s[i]) /\ a[Len(s) + 1] = t[1]
  BY <1>1, AppendProperties, LenProperties
<1> HIDE DEF a
<1>3. /\ a \o Tail(t) \in Seq(Byte) /\ Len(a \o Tail(t)) = Len(s) + Len(t)
      /\ \A i \in 1 .. Len(a) : (a \o Tail(t))[i] = a[i]
      /\ \A i \in 1 .. Len(t) - 1 : (a \o Tail(t))[Len(a) + i] = t[i + 1]
  <2> DEFINE b == Tail(t)
  <2>1. b \in Seq(Byte) /\ Len(b) = Len(t) - 1 /\ \A i \in 1 .. Len(t) - 1 : b[i] = t[i + 1]
    BY <1>1
  <2> HIDE DEF b
  <2>2. /\ a \o b \in Seq(Byte) /\ Len(a \o b) = Len(a) + Len(b)
        /\ \A i \in 1 .. Len(a) : (a \o b)[i] = a[i]
        /\ \A i \in 1 .. Len(b) : (a \o b)[Len(a) + i] = b[i]
    BY <1>2, <2>1, Joined
  <2>3. Len(a) + Len(b) = Len(s) + Len(t)
    BY <1>1, <1>2, <2>1
  <2>4. \A i \in 1 .. Len(t) - 1 : (a \o b)[Len(a) + i] = t[i + 1]
    BY <2>1, <2>2
  <2>5. QED
    BY <2>2, <2>3, <2>4 DEF b
<1>4. /\ s \o t \in Seq(Byte) /\ Len(s \o t) = Len(s) + Len(t)
      /\ \A i \in 1 .. Len(s) : (s \o t)[i] = s[i]
      /\ \A i \in 1 .. Len(t) : (s \o t)[Len(s) + i] = t[i]
  BY Joined
<1>5. ASSUME NEW i \in 1 .. Len(s \o t)
      PROVE  (a \o Tail(t))[i] = (s \o t)[i]
  <2>1. CASE i <= Len(s)
    BY <1>2, <1>3, <1>4, <2>1
  <2>2. CASE i = Len(s) + 1
    BY <1>1, <1>2, <1>3, <1>4, <2>2
  <2>3. CASE i > Len(s) + 1
    <3>1. i - Len(s) - 1 \in 1 .. Len(t) - 1
      BY <1>1, <1>2, <1>4, <2>3
    <3>2. (a \o Tail(t))[Len(a) + (i - Len(s) - 1)] = t[(i - Len(s) - 1) + 1]
      BY <1>3, <3>1
    <3>3. (s \o t)[Len(s) + (i - Len(s))] = t[i - Len(s)]
      BY <1>1, <1>2, <1>4, <2>3
    <3>4. QED
      BY <1>2, <3>2, <3>3
  <2>4. QED
    BY <1>2, <2>1, <2>2, <2>3
<1>6. a \o Tail(t) = s \o t
  BY <1>3, <1>4, <1>5, SeqEqual
<1>7. QED
  BY <1>6 DEF a

(* What is left when a line has been read up to its carriage return.         *)
LEMMA LineGone ==
  ASSUME NEW s \in Seq(Byte), NEW t \in Seq(Byte), NEW m \in Nat, NEW told,
         m > 0, Len(s) = m + Len(t), s[m] = CR, \A i \in 1 .. Len(t) : t[i] = s[m + i],
         AllTold(s, told), EndsWell(s)
  PROVE  AllTold(t, told) /\ EndsWell(t)
<1>1. Len(t) \in Nat /\ Len(s) \in Nat
  BY LenProperties
<1>2. ASSUME NEW i \in 1 .. Len(t), NEW j \in 1 .. Len(t), i <= j, IsLine(t, i, j), Tells(t, i, j - i)
      PROVE  Told(t, i, j - i) \in told[t[i]]
  <2>1. m + i \in 1 .. Len(s) /\ m + j \in 1 .. Len(s) /\ m + i <= m + j
    BY <1>1, <1>2
  <2>2. IsLine(s, m + i, m + j)
    <3>1. Starts(s, m + i)
      <4>1. CASE i = 1
        BY <4>1 DEF Starts
      <4>2. CASE i # 1
        <5>1. i - 1 \in 1 .. Len(t) /\ t[i - 1] = CR
          BY <1>1, <1>2, <4>2 DEF IsLine, Starts
        <5>2. t[i - 1] = s[m + (i - 1)] /\ m + (i - 1) = (m + i) - 1
          BY <5>1, SMTT(60)
        <5>3. QED
          BY <5>1, <5>2 DEF Starts
      <4>3. QED
        BY <4>1, <4>2
    <3>2. s[m + j] = CR
      BY <1>2 DEF IsLine
    <3>3. ASSUME NEW k \in m + i .. (m + j) - 1
          PROVE  s[k] # CR
      <4>1. k - m \in i .. j - 1 /\ k - m \in 1 .. Len(t) /\ m + (k - m) = k
        BY <1>1, <1>2
      <4>2. t[k - m] # CR
        BY <1>2, <4>1 DEF IsLine
      <4>3. QED
        BY <4>1, <4>2
    <3>4. QED
      BY <3>1, <3>2, <3>3 DEF IsLine
  <2>3. (m + j) - (m + i) = j - i /\ s[m + i] = t[i]
    OBVIOUS
  <2>4. j - i \in {3, 4}
    BY <1>2 DEF Tells
  <2>5. /\ s[m + i + 1] = t[i + 1] /\ s[m + i + 2] = t[i + 2]
        /\ j - i = 4 => s[m + i + 3] = t[i + 3]
    <3>1. i + 1 \in 1 .. Len(t) /\ i + 2 \in 1 .. Len(t) /\ (j - i = 4 => i + 3 \in 1 .. Len(t))
      BY <1>1, <2>4
    <3>2. t[i + 1] = s[m + (i + 1)] /\ t[i + 2] = s[m + (i + 2)] /\ (j - i = 4 => t[i + 3] = s[m + (i + 3)])
      BY <3>1
    <3>3. m + (i + 1) = m + i + 1 /\ m + (i + 2) = m + i + 2 /\ m + (i + 3) = m + i + 3
      OBVIOUS
    <3>4. QED
      BY <3>2, <3>3
  <2>6. Tells(s, m + i, j - i) /\ Told(s, m + i, j - i) = Told(t, i, j - i)
    BY <1>2, <2>3, <2>4, <2>5 DEF Tells, Told
  <2>7. Told(s, m + i, (m + j) - (m + i)) \in told[s[m + i]]
    BY <2>1, <2>2, <2>3, <2>6 DEF AllTold
  <2>8. QED
    BY <2>3, <2>6, <2>7
<1>3. EndsWell(t)
  <2> SUFFICES ASSUME Len(t) > 0
               PROVE  t[Len(t)] = CR \/ (t[Len(t)] = 0 /\ (Len(t) = 1 \/ t[Len(t) - 1] = CR))
    BY DEF EndsWell
  <2>1. Len(t) \in 1 .. Len(t) /\ t[Len(t)] = s[Len(s)]
    BY <1>1
  <2>2. s[Len(s)] = CR \/ (s[Len(s)] = 0 /\ s[Len(s) - 1] = CR)
    BY <1>1 DEF EndsWell
  <2>3. ASSUME Len(t) # 1
        PROVE  t[Len(t) - 1] = s[Len(s) - 1]
    <3>1. Len(t) - 1 \in 1 .. Len(t)
      <4>1. \A p \in Nat : p > 0 /\ p # 1 => p - 1 \in 1 .. p
        OBVIOUS
      <4>2. QED
        BY <1>1, <2>3, <4>1
    <3>2. m + (Len(t) - 1) = Len(s) - 1
      BY <1>1
    <3>3. t[Len(t) - 1] = s[m + (Len(t) - 1)]
      BY <3>1
    <3>4. QED
      BY <3>2, <3>3
  <2>4. QED
    BY <2>1, <2>2, <2>3
<1>4. QED
  BY <1>2, <1>3 DEF AllTold

(* Bytes, speeds and commands. *)
LEMMA Bytes256 ==
  \A n \in Byte : n \in Nat /\ n <= 255
BY DEF Byte

LEMMA Byte256 ==
  ASSUME NEW n \in Nat, n <= 255
  PROVE  n \in Byte
BY DEF Byte

LEMMA Speeds ==
  ASSUME NEW n \in Speed
  PROVE  n \in Nat /\ n <= 32767
BY DEF Speed

LEMMA CommandIs ==
  ASSUME NEW c \in Command
  PROVE  /\ c.speed \in Nat /\ c.speed <= 32767 /\ c.dir \in {Forward, Backward}
         /\ c = [dir |-> c.dir, speed |-> c.speed]
<1>1. c.speed \in Speed /\ c.dir \in {Forward, Backward} /\ c = [dir |-> c.dir, speed |-> c.speed]
  BY DEF Command
<1>2. QED
  BY <1>1, Speeds

(* A command as its wheel hears it. *)
LEMMA HeardIs ==
  ASSUME NEW c \in Command
  PROVE  Heard(c) = [dir |-> c.dir,
                     speed |-> IF c.speed % 256 = CR THEN 256 * (c.speed \div 256) ELSE c.speed]
BY DEF Heard, Command

(* The lines of one command. *)
LEMMA CommandLines ==
  ASSUME NEW data \in [1 .. 5 -> Byte], NEW w \in Wheels, NEW c \in Command, IsCommand(data, w, c),
         NEW told, Heard(c) \in told[w], data[5] \in {0, CR}
  PROVE  AllTold(data, told) /\ (data[5] = CR \/ (data[5] = 0 /\ data[4] = CR))
<1>1. Len(data) = 5 /\ CR \notin Wheels /\ 0 \notin Wheels /\ CR \notin {Forward, Backward}
  BY LenProperties DEF CR, Wheels, Forward, Backward
<1>2. ASSUME NEW i \in 1 .. 5, NEW j \in 1 .. 5, i <= j, IsLine(data, i, j), Tells(data, i, j - i)
      PROVE  Told(data, i, j - i) \in told[data[i]]
  <2>1. j - i \in {3, 4} /\ data[j] = CR /\ \A k \in i .. j - 1 : data[k] # CR
    BY <1>2 DEF IsLine, Tells
  <2>2. CASE i = 1
    <3>1. CASE c.speed = 0
      <4>1. data[4] = CR /\ data[3] = 0 /\ data[1] = w /\ data[2] = c.dir
        BY <3>1 DEF IsCommand
      <4>2. j = 4
        BY <2>1, <2>2, <4>1
      <4>3. Told(data, i, j - i) = [dir |-> c.dir, speed |-> 0]
        BY <2>2, <4>1, <4>2 DEF Told
      <4>4. Heard(c) = [dir |-> c.dir, speed |-> 0]
        BY <3>1, HeardIs DEF CR
      <4>5. QED
        BY <2>2, <4>1, <4>3, <4>4
    <3>2. CASE c.speed # 0
      <4>1. /\ data[4] = c.speed % 256 /\ data[5] = CR /\ data[3] = c.speed \div 256
            /\ data[1] = w /\ data[2] = c.dir
        BY <3>2 DEF IsCommand
      <4>2. c.speed \in Nat
        BY CommandIs
      <4>3. 256 * (c.speed \div 256) + (c.speed % 256) = c.speed
        BY <4>2
      <4>4. CASE data[4] = CR
        <5>1. j = 4
          BY <2>1, <2>2, <4>4
        <5>2. Told(data, i, j - i) = [dir |-> c.dir, speed |-> 256 * (c.speed \div 256)]
          BY <2>2, <4>1, <4>2, <5>1 DEF Told
        <5>3. Heard(c) = [dir |-> c.dir, speed |-> 256 * (c.speed \div 256)]
          BY <4>1, <4>4, CommandIs, HeardIs
        <5>4. QED
          BY <2>2, <4>1, <5>2, <5>3
      <4>5. CASE data[4] # CR
        <5>1. j = 5
          BY <2>1, <2>2, <4>5
        <5>2. Told(data, i, j - i) = [dir |-> c.dir, speed |-> c.speed]
          BY <2>2, <4>1, <4>3, <5>1 DEF Told
        <5>3. Heard(c) = [dir |-> c.dir, speed |-> c.speed]
          BY <4>1, <4>5, HeardIs
        <5>4. QED
          BY <2>2, <4>1, <5>2, <5>3
      <4>6. QED
        BY <4>4, <4>5
    <3>3. QED
      BY <3>1, <3>2
  <2>3. CASE i = 2
    <3>1. data[1] = CR
      BY <1>2, <2>3 DEF IsLine, Starts
    <3>2. data[1] \in Wheels
      BY DEF IsCommand
    <3>3. QED
      BY <1>1, <3>1, <3>2
  <2>4. QED
    BY <2>1, <2>2, <2>3
<1>3. data[5] = CR \/ (data[5] = 0 /\ data[4] = CR)
  BY DEF IsCommand
<1>4. QED
  BY <1>1, <1>2, <1>3 DEF AllTold

(* Writing lines behind lines. *)
LEMMA Followed ==
  ASSUME NEW s \in Seq(Byte), NEW t \in Seq(Byte), NEW told, Len(t) > 1,
         AllTold(s, told), EndsWell(s), AllTold(t, told), EndsWell(t)
  PROVE  AllTold(s \o t, told) /\ EndsWell(s \o t)
<1> DEFINE u == s \o t
<1>1. /\ u \in Seq(Byte) /\ Len(u) = Len(s) + Len(t)
      /\ (\A k \in 1 .. Len(s) : u[k] = s[k]) /\ (\A k \in 1 .. Len(t) : u[Len(s) + k] = t[k])
  BY Joined
<1>2. Len(s) \in Nat /\ Len(t) \in Nat
  BY LenProperties
<1> HIDE DEF u
<1>3. ASSUME NEW i \in 1 .. Len(u), NEW j \in 1 .. Len(u), i <= j, IsLine(u, i, j), Tells(u, i, j - i)
      PROVE  Told(u, i, j - i) \in told[u[i]]
  <2>1. j - i \in {3, 4} /\ i \in Nat /\ j \in Nat /\ i > 0
    BY <1>1, <1>2, <1>3 DEF Tells
  <2>2. CASE j <= Len(s)
    <3>1. i \in 1 .. Len(s) /\ j \in 1 .. Len(s)
      BY <1>2, <1>3, <2>1, <2>2
    <3>2. Starts(s, i)
      <4>1. CASE i = 1
        BY <4>1 DEF Starts
      <4>2. CASE i # 1
        <5>1. i - 1 \in 1 .. Len(s) /\ u[i - 1] = CR
          BY <1>3, <3>1, <4>2 DEF IsLine, Starts
        <5>2. QED
          BY <1>1, <5>1 DEF Starts
      <4>3. QED
        BY <4>1, <4>2
    <3>3. s[j] = CR /\ \A k \in i .. j - 1 : s[k] # CR
      <4>1. \A k \in i .. j - 1 : k \in 1 .. Len(s)
        BY <1>2, <2>1, <3>1
      <4>2. QED
        BY <1>1, <1>3, <3>1, <4>1 DEF IsLine
    <3>4. s[i] = u[i] /\ s[i + 1] = u[i + 1] /\ s[i + 2] = u[i + 2] /\ (j - i = 4 => s[i + 3] = u[i + 3])
      <4>1. i + 1 \in 1 .. Len(s) /\ i + 2 \in 1 .. Len(s) /\ (j - i = 4 => i + 3 \in 1 .. Len(s))
        BY <1>2, <2>1, <3>1
      <4>2. QED
        BY <1>1, <3>1, <4>1
    <3>5. Tells(s, i, j - i) /\ Told(s, i, j - i) = Told(u, i, j - i)
      BY <1>3, <2>1, <3>4 DEF Tells, Told
    <3>6. Told(s, i, j - i) \in told[s[i]]
      BY <1>3, <3>1, <3>2, <3>3, <3>5 DEF AllTold, IsLine
    <3>7. QED
      BY <3>4, <3>5, <3>6
  <2>3. CASE i > Len(s)
    <3> DEFINE n == Len(s)
               a == i - n
               b == j - n
               l == j - i
    <3>1. /\ a \in 1 .. Len(t) /\ b \in 1 .. Len(t) /\ a <= b /\ n + a = i /\ n + b = j /\ b - a = l
          /\ a \in Nat /\ b \in Nat /\ n \in Nat
      BY <1>1, <1>2, <1>3, <2>1, <2>3
    <3>2. t[b] = CR /\ \A k \in a .. b - 1 : t[k] # CR
      <4>1. ASSUME NEW k \in a .. b - 1
            PROVE  t[k] # CR
        <5>1. k \in 1 .. Len(t) /\ n + k \in i .. j - 1
          BY <1>2, <3>1
        <5>2. u[n + k] = t[k] /\ u[n + k] # CR
          BY <1>1, <1>3, <5>1 DEF IsLine
        <5>3. QED
          BY <5>2
      <4>2. u[n + b] = t[b] /\ u[j] = CR
        BY <1>1, <1>3, <3>1 DEF IsLine
      <4>3. QED
        BY <3>1, <4>1, <4>2
    <3>3. Starts(t, a)
      <4>1. CASE a = 1
        BY <4>1 DEF Starts
      <4>2. CASE a # 1
        <5>1. i # 1 /\ a - 1 \in 1 .. Len(t) /\ n + (a - 1) = i - 1
          BY <3>1, <4>2
        <5>2. u[i - 1] = CR
          BY <1>3, <5>1 DEF IsLine, Starts
        <5>3. u[n + (a - 1)] = t[a - 1]
          BY <1>1, <5>1
        <5>4. QED
          BY <5>1, <5>2, <5>3 DEF Starts
      <4>3. QED
        BY <4>1, <4>2
    <3>4. t[a] = u[i] /\ t[a + 1] = u[i + 1] /\ t[a + 2] = u[i + 2] /\ (l = 4 => t[a + 3] = u[i + 3])
      <4>1. a + 1 \in 1 .. Len(t) /\ a + 2 \in 1 .. Len(t) /\ (l = 4 => a + 3 \in 1 .. Len(t))
        BY <1>2, <2>1, <3>1
      <4>2. n + (a + 1) = i + 1 /\ n + (a + 2) = i + 2 /\ n + (a + 3) = i + 3
        BY <3>1
      <4>3. u[n + a] = t[a] /\ u[n + (a + 1)] = t[a + 1] /\ u[n + (a + 2)] = t[a + 2]
            /\ (l = 4 => u[n + (a + 3)] = t[a + 3])
        BY <1>1, <3>1, <4>1
      <4>4. QED
        BY <3>1, <4>2, <4>3
    <3>5. Tells(u, i, l) /\ l = b - a
      BY <1>3, <3>1
    <3> HIDE DEF n, a, b, l
    <3>6. Tells(t, a, l) /\ Told(t, a, l) = Told(u, i, l)
      BY <3>4, <3>5 DEF Tells, Told
    <3>7. Told(t, a, l) \in told[t[a]]
      BY <3>1, <3>2, <3>3, <3>5, <3>6 DEF AllTold, IsLine
    <3>8. QED
      BY <3>4, <3>6, <3>7 DEF l
  <2>4. CASE i <= Len(s) /\ Len(s) < j
    <3> DEFINE n == Len(s)
    <3>1. n \in i .. j - 1 /\ n \in 1 .. Len(s) /\ n > 0
      BY <1>2, <2>1, <2>4
    <3>2. u[n] # CR /\ u[n] = s[n]
      BY <1>1, <1>3, <3>1 DEF IsLine
    <3>3. s[n] = 0 /\ (n = 1 \/ s[n - 1] = CR)
      BY <3>1, <3>2 DEF EndsWell
    <3>4. i = n
      <4>1. CASE n = 1
        BY <2>1, <2>4, <4>1
      <4>2. CASE n # 1 /\ i < n
        <5>1. n - 1 \in i .. j - 1 /\ n - 1 \in 1 .. Len(s)
          BY <1>2, <2>1, <2>4, <3>1, <4>2
        <5>2. u[n - 1] # CR /\ u[n - 1] = s[n - 1]
          BY <1>1, <1>3, <5>1 DEF IsLine
        <5>3. QED
          BY <3>3, <4>2, <5>2
      <4>3. QED
        BY <1>2, <2>1, <2>4, <4>1, <4>2
    <3>5. u[i] = 0
      BY <3>2, <3>3, <3>4
    <3>6. u[i] \in Wheels
      BY <1>3 DEF Tells
    <3>7. QED
      BY <3>5, <3>6 DEF Wheels
  <2>5. QED
    BY <1>1, <1>2, <2>1, <2>2, <2>3, <2>4
<1>4. EndsWell(u)
  <2>1. Len(u) > 0 /\ Len(u) # 1
    BY <1>1, <1>2
  <2>2. u[Len(u)] = t[Len(t)]
    BY <1>1, <1>2
  <2>3. u[Len(u) - 1] = t[Len(t) - 1]
    <3>1. Len(t) - 1 \in 1 .. Len(t) /\ Len(s) + (Len(t) - 1) = Len(u) - 1
      BY <1>1, <1>2
    <3>2. u[Len(s) + (Len(t) - 1)] = t[Len(t) - 1]
      BY <1>1, <3>1
    <3>3. QED
      BY <3>1, <3>2
  <2>4. t[Len(t)] = CR \/ (t[Len(t)] = 0 /\ t[Len(t) - 1] = CR)
    BY <1>2 DEF EndsWell
  <2>5. QED
    BY <2>1, <2>2, <2>3, <2>4 DEF EndsWell
<1>5. QED
  BY <1>3, <1>4 DEF AllTold, u

(* The buffer after ConstructMotorCommand. *)
LEMMA BytesAre ==
  ASSUME NEW data \in [1 .. 5 -> Byte], NEW w \in Wheels, NEW c \in Command
  PROVE  /\ Bytes(data, w, c) \in [1 .. 5 -> Byte]
         /\ Bytes(data, w, c)[5] = IF c.speed = 0 THEN data[5] ELSE CR
         /\ IsCommand(Bytes(data, w, c), w, c)
<1> DEFINE set == <<w, c.dir, c.speed \div 256, c.speed % 256, data[5]>>
<1>1. c.speed \in Nat /\ c.speed <= 32767 /\ c.dir \in {Forward, Backward}
  BY CommandIs
<1>2. c.speed \div 256 \in Byte /\ c.speed % 256 \in Byte /\ data[5] \in Byte
  <2>1. /\ c.speed \div 256 \in Nat /\ c.speed \div 256 <= 255
        /\ c.speed % 256 \in Nat /\ c.speed % 256 <= 255
    BY <1>1
  <2>2. QED
    BY <2>1, Byte256
<1>3. w \in Byte /\ c.dir \in Byte /\ CR \in Byte
  BY <1>1, Byte256 DEF Wheels, Forward, Backward, CR
<1>4. /\ set \in [1 .. 5 -> Byte] /\ set[1] = w /\ set[2] = c.dir /\ set[3] = c.speed \div 256
      /\ set[4] = c.speed % 256 /\ set[5] = data[5]
  BY <1>2, <1>3
<1>5. Bytes(data, w, c) = IF c.speed = 0 THEN [set EXCEPT ![4] = CR] ELSE [set EXCEPT ![5] = CR]
  BY DEF Bytes
<1> HIDE DEF set
<1>6. CASE c.speed = 0
  <2>1. Bytes(data, w, c) = [set EXCEPT ![4] = CR]
    BY <1>5, <1>6
  <2>2. set[3] = 0
    BY <1>1, <1>4, <1>6
  <2>3. QED
    BY <1>3, <1>4, <1>6, <2>1, <2>2 DEF IsCommand
<1>7. CASE c.speed # 0
  <2>1. Bytes(data, w, c) = [set EXCEPT ![5] = CR]
    BY <1>5, <1>7
  <2>2. QED
    BY <1>3, <1>4, <1>7, <2>1 DEF IsCommand
<1>8. QED
  BY <1>6, <1>7

LEMMA BufferSeq ==
  ASSUME NEW data \in [1 .. 5 -> Byte]
  PROVE  data \in Seq(Byte) /\ Len(data) = 5
<1>1. Len(data) = 5
  BY LenProperties
<1>2. data \in Seq(Byte)
  BY SeqDef
<1>3. QED
  BY <1>1, <1>2

(* Asking for more leaves what was asked for asked for. *)
LEMMA StillAsked ==
  ASSUME NEW s, NEW told, NEW more, AllTold(s, told), \A w \in Wheels : told[w] \subseteq more[w]
  PROVE  AllTold(s, more)
BY DEF AllTold, Tells

LEMMA StillHeard ==
  ASSUME \A w \in Wheels : issued[w] \subseteq issued'[w]
  PROVE  \A w \in Wheels : Commanded[w] \subseteq Commanded'[w]
<1> SUFFICES ASSUME NEW w \in Wheels, NEW m \in Commanded[w]
             PROVE  m \in Commanded'[w]
  OBVIOUS
<1>1. PICK c \in issued[w] : m = Heard(c)
  BY DEF Commanded
<1>2. c \in issued'[w] /\ Commanded'[w] = {Heard(d) : d \in issued'[w]}
  BY DEF Commanded
<1>3. QED
  BY <1>1, <1>2

(* OnlyIssued, by what the commands tell the wheels. *)
LEMMA WheelsHeard ==
  /\ OnlyIssued <=> (lost = 0 => \A w \in Wheels : wheels[w] \in Commanded[w])
  /\ OnlyIssued' <=> (lost' = 0 => \A w \in Wheels : wheels'[w] \in Commanded'[w])
BY DEF OnlyIssued, Commanded

(* What the controller makes of a line is a motion. *)
LEMMA ObeyedIs ==
  ASSUME NEW l \in Seq(Byte), wheels \in [Wheels -> Motion]
  PROVE  Obeyed(l) \in [Wheels -> Motion]
<1>1. CASE Len(l) \in {3, 4} /\ l[1] \in Wheels /\ l[2] \in {Forward, Backward}
  <2> DEFINE low == IF Len(l) = 4 THEN l[4] ELSE 0
             n == 256 * l[3] + low
  <2>1. Obeyed(l) = [wheels EXCEPT ![l[1]] = [dir |-> l[2], speed |-> n]]
    BY <1>1 DEF Obeyed
  <2>2. l[3] \in Byte /\ (Len(l) = 4 => l[4] \in Byte)
    <3>1. Len(l) = 3 \/ Len(l) = 4
      BY <1>1, Zenon
    <3>2. \A p \in Nat : p = 3 \/ p = 4 => 3 \in 1 .. p /\ (p = 4 => 4 \in 1 .. p)
      OBVIOUS
    <3>3. 3 \in 1 .. Len(l) /\ (Len(l) = 4 => 4 \in 1 .. Len(l))
      BY <3>1, <3>2, LenProperties
    <3>4. QED
      BY <3>3, ElementOfSeq
  <2>3. low \in Nat /\ low <= 255 /\ l[3] \in Nat /\ l[3] <= 255
    BY <2>2, Bytes256
  <2> HIDE DEF low
  <2>4. n \in Nat /\ n <= 65535
    BY <2>3
  <2> HIDE DEF n
  <2>5. n \in AnySpeed
    <3>1. n <= TwoBytes /\ TwoBytes \in Nat
      BY <2>4 DEF TwoBytes
    <3>2. QED
      BY <2>4, <3>1 DEF AnySpeed
  <2>6. [dir |-> l[2], speed |-> n] \in Motion
    BY <1>1, <2>5 DEF Motion
  <2>7. QED
    BY <2>1, <2>6
<1>2. CASE ~(Len(l) \in {3, 4} /\ l[1] \in Wheels /\ l[2] \in {Forward, Backward})
  <2>1. Obeyed(l) = wheels
    BY <1>2, Zenon DEF Obeyed
  <2>2. QED
    BY <2>1
<1>3. QED
  BY <1>1, <1>2

-----------------------------------------------------------------------------
(* Typing, the line and the buffer, whatever is demanded or lost. *)

LEMMA Literals ==
  /\ Stop \in Command /\ Stop \in Motion /\ Stop.speed = 0
  /\ CR \in Byte /\ 0 \in Byte /\ Prompt \in Seq(Byte) /\ Prompt # << >> /\ 49 \in Wheels /\ 50 \in Wheels
<1>1. 0 \in Speed /\ 0 \in AnySpeed
  BY DEF Speed, AnySpeed, TwoBytes
<1>2. CR \in Byte /\ 0 \in Byte /\ 62 \in Byte /\ 32 \in Byte
  BY Byte256 DEF CR
<1>3. Prompt \in Seq(Byte) /\ Prompt # << >>
  BY <1>2 DEF Prompt
<1>4. QED
  BY <1>1, <1>2, <1>3 DEF Stop, Command, Motion, Wheels

LEMMA InitIInv ==
  Init => IInv
<1> SUFFICES ASSUME Init
             PROVE  IInv
  OBVIOUS
<1>1. /\ stick \in Demands /\ sample \in Demands /\ pc = "sample" /\ wheel \in Wheels /\ rx_byte \in Byte
      /\ up \in Seq(Byte) /\ Len(up) <= LineMax /\ down \in Seq(Byte) /\ line \in Seq(Byte) /\ text \in Seq(Byte)
      /\ lost \in 0 .. MaxLost /\ Len(line) = 0
  BY Literals, SizesAssumption DEF Init
<1>2. tx_data \in [1 .. 5 -> Byte] /\ tx_data[5] = 0
  BY Literals DEF Init
<1>3. wheels \in [Wheels -> Motion] /\ issued \in [Wheels -> SUBSET Command]
  BY Literals DEF Init
<1>4. TypeOK
  BY <1>1, <1>2, <1>3 DEF TypeOK
<1>5. LineInv
  BY <1>1 DEF LineInv
<1>6. BufferInv
  <2>1. \A w \in Wheels : issued[w] = {Stop}
    BY DEF Init
  <2>2. QED
    BY <1>2, <2>1, Literals DEF BufferInv
<1>7. QED
  BY <1>4, <1>5, <1>6 DEF IInv

LEMMA NextIInv ==
  IInv /\ [Next]_vars => IInv'
<1> SUFFICES ASSUME IInv, [Next]_vars
             PROVE  IInv'
  OBVIOUS
<1> USE DEF program, controller
<1>1. /\ stick \in Demands /\ sample \in Demands
      /\ pc \in {"sample", "construct", "poll", "write", "reply"} /\ wheel \in Wheels
      /\ tx_data \in [1 .. 5 -> Byte] /\ rx_byte \in Byte
      /\ up \in Seq(Byte) /\ Len(up) <= LineMax
      /\ down \in Seq(Byte) /\ line \in Seq(Byte) /\ text \in Seq(Byte)
      /\ wheels \in [Wheels -> Motion] /\ issued \in [Wheels -> SUBSET Command] /\ lost \in 0 .. MaxLost
  BY DEF IInv, TypeOK
<1>2. LineInv /\ BufferInv
  BY DEF IInv
<1>3. Len(up) \in Nat /\ Len(down) \in Nat /\ LineMax \in Nat /\ MaxLost \in Nat /\ ReplyMax \in Nat \ {0}
  BY <1>1, LenProperties, SizesAssumption
<1>4. Answer \in Seq(Byte)
  BY AnswerAssumption DEF Byte
<1>5. CASE Sample
  BY <1>1, <1>2, <1>5, Literals DEF Sample, IInv, TypeOK, LineInv, BufferInv
<1>6. CASE Construct
  <2>1. sample[wheel] \in Command
    BY <1>1, DemandsAssumption
  <2>2. /\ tx_data' \in [1 .. 5 -> Byte]
        /\ tx_data'[5] = IF sample[wheel].speed = 0 THEN tx_data[5] ELSE CR
    BY <1>1, <1>6, <2>1, BytesAre DEF Construct
  <2>3. issued' = [issued EXCEPT ![wheel] = @ \cup {sample[wheel]}]
    BY <1>6 DEF Construct
  <2>4. issued' \in [Wheels -> SUBSET Command]
    BY <1>1, <2>1, <2>3
  <2>5. TypeOK'
    BY <1>1, <1>6, <2>2, <2>4 DEF Construct, TypeOK
  <2>6. BufferInv'
    <3>1. ASSUME NEW w \in Wheels, NEW c \in issued'[w], c.speed # 0, sample[wheel].speed = 0
          PROVE  c \in issued[w]
      BY <1>1, <2>3, <3>1
    <3>2. QED
      BY <1>2, <2>2, <3>1 DEF BufferInv
  <2>7. QED
    BY <1>2, <1>6, <2>5, <2>6 DEF Construct, IInv, LineInv
<1>7. CASE PollByte
  <2>1. rx_byte' \in Byte /\ down' \in Seq(Byte) /\ pc' \in {"write", "poll"}
    BY <1>1, <1>7, HeadTailProperties DEF PollByte
  <2>2. UNCHANGED <<stick, sample, wheel, tx_data, up, line, text, wheels, issued, lost>>
    BY <1>7 DEF PollByte
  <2>3. QED
    BY <1>1, <1>2, <2>1, <2>2 DEF IInv, TypeOK, LineInv, BufferInv
<1>8. CASE PollTimeout
  BY <1>1, <1>2, <1>8 DEF PollTimeout, IInv, TypeOK, LineInv, BufferInv
<1>9. CASE Write
  <2>1. tx_data \in Seq(Byte) /\ Len(tx_data) = 5
    BY <1>1, BufferSeq
  <2>2. up' = up \o tx_data /\ Len(up) + 5 <= LineMax
    BY <1>9 DEF Write
  <2>3. up' \in Seq(Byte) /\ Len(up') <= LineMax
    <3>1. up' \in Seq(Byte) /\ Len(up') = Len(up) + Len(tx_data)
      BY <1>1, <2>1, <2>2, Joined
    <3>2. QED
      BY <2>1, <2>2, <3>1
  <2>4. pc' = "reply" /\ UNCHANGED <<stick, sample, wheel, tx_data, rx_byte, down, line, text, wheels, issued, lost>>
    BY <1>9 DEF Write
  <2>5. QED
    BY <1>1, <1>2, <2>3, <2>4 DEF IInv, TypeOK, LineInv, BufferInv
<1>10. CASE Reply
  <2> DEFINE n == IF Len(down) < ReplyMax THEN Len(down) ELSE ReplyMax
  <2>1. n \in Nat /\ n <= Len(down)
    BY <1>3
  <2>2. rx_byte' = (IF n = 0 THEN rx_byte ELSE Head(down)) /\ down' = SubSeq(down, n + 1, Len(down))
    BY <1>10 DEF Reply
  <2> HIDE DEF n
  <2>3. \A i \in n + 1 .. Len(down) : down[i] \in Byte
    BY <1>1, <1>3, <2>1, ElementOfSeq
  <2>4. down' \in Seq(Byte)
    BY <1>3, <2>1, <2>2, <2>3, SubSeqProperties
  <2>5. rx_byte' \in Byte
    <3>1. n # 0 => Head(down) \in Byte
      BY <1>1, <1>3, <2>1, HeadTailProperties, EmptySeq
    <3>2. QED
      BY <1>1, <2>2, <3>1
  <2>6. wheel' \in Wheels /\ pc' \in {"construct", "sample"}
    BY <1>1, <1>10, Literals DEF Reply
  <2>7. UNCHANGED <<stick, sample, tx_data, up, line, text, wheels, issued, lost>>
    BY <1>10 DEF Reply
  <2>8. QED
    BY <1>1, <1>2, <2>4, <2>5, <2>6, <2>7 DEF IInv, TypeOK, LineInv, BufferInv
<1>11. CASE CtlRead
  <2>1. Head(up) \in Byte /\ Tail(up) \in Seq(Byte) /\ Len(Tail(up)) = Len(up) - 1 /\ up' = Tail(up)
    BY <1>1, <1>11, HeadTailProperties DEF CtlRead
  <2>2. UNCHANGED <<stick, sample, pc, wheel, tx_data, rx_byte, issued, down, lost>>
    BY <1>11 DEF CtlRead
  <2>3. Len(up') <= LineMax
    BY <1>1, <1>3, <2>1
  <2>4. CASE Head(up) = CR
    <3>1. wheels' = Obeyed(line) /\ line' = << >> /\ text' = Answer \o Prompt
      BY <1>11, <2>4 DEF CtlRead
    <3>2. wheels' \in [Wheels -> Motion] /\ line' \in Seq(Byte) /\ Len(line') = 0 /\ text' \in Seq(Byte)
      BY <1>1, <1>4, <3>1, ObeyedIs, Joined, Literals
    <3>3. LineInv'
      BY <3>2 DEF LineInv
    <3>4. QED
      BY <1>1, <1>2, <2>1, <2>2, <2>3, <3>2, <3>3 DEF IInv, TypeOK, BufferInv
  <2>5. CASE Head(up) # CR
    <3>1. line' = Append(line, Head(up)) /\ UNCHANGED <<wheels, text>>
      BY <1>11, <2>5 DEF CtlRead
    <3>2. /\ line' \in Seq(Byte) /\ Len(line') = Len(line) + 1 /\ line'[Len(line) + 1] = Head(up)
          /\ \A k \in 1 .. Len(line) : line'[k] = line[k]
      BY <1>1, <2>1, <3>1, AppendProperties
    <3>3. LineInv'
      <4>1. Len(line) \in Nat
        BY <1>1, LenProperties
      <4>2. \A k \in 1 .. Len(line) + 1 : k \in 1 .. Len(line) \/ k = Len(line) + 1
        BY <4>1
      <4>3. \A k \in 1 .. Len(line) + 1 : line'[k] # CR
        BY <1>2, <2>5, <3>2, <4>2 DEF LineInv
      <4>4. QED
        BY <3>2, <4>3 DEF LineInv
    <3>4. QED
      BY <1>1, <1>2, <2>1, <2>2, <2>3, <3>1, <3>2, <3>3 DEF IInv, TypeOK, BufferInv
  <2>6. QED
    BY <2>4, <2>5
<1>12. CASE CtlPrint
  <2>1. text' \in Seq(Byte) /\ down' \in Seq(Byte)
    BY <1>1, <1>12, HeadTailProperties, AppendProperties DEF CtlPrint
  <2>2. UNCHANGED <<stick, sample, pc, wheel, tx_data, rx_byte, issued, up, line, wheels, lost>>
    BY <1>12 DEF CtlPrint
  <2>3. QED
    BY <1>1, <1>2, <2>1, <2>2 DEF IInv, TypeOK, LineInv, BufferInv
<1>13. CASE Move
  BY <1>1, <1>2, <1>13 DEF Move, IInv, TypeOK, LineInv, BufferInv
<1>14. CASE Lose
  <2>1. PICK i \in DOMAIN up : up' = RemoveAt(up, i)
    BY <1>14 DEF Lose
  <2>2. i \in 1 .. Len(up)
    BY <1>1, LenProperties
  <2> DEFINE a == SubSeq(up, 1, i - 1)
             b == SubSeq(up, i + 1, Len(up))
  <2>3. /\ a \in Seq(Byte) /\ Len(a) = IF 1 <= i - 1 THEN (i - 1) - 1 + 1 ELSE 0
        /\ b \in Seq(Byte) /\ Len(b) = IF i + 1 <= Len(up) THEN Len(up) - (i + 1) + 1 ELSE 0
    <3>1. /\ \A k \in 1 .. i - 1 : up[k] \in Byte
          /\ \A k \in i + 1 .. Len(up) : up[k] \in Byte
      BY <1>1, <1>3, <2>2, ElementOfSeq
    <3>2. i - 1 \in Int /\ i + 1 \in Int /\ Len(up) \in Int /\ 1 \in Int
      BY <1>3, <2>2
    <3>3. QED
      BY <3>1, <3>2, SubSeqProperties
  <2>4. up' = a \o b
    BY <2>1 DEF RemoveAt
  <2> HIDE DEF a, b
  <2>5. up' \in Seq(Byte) /\ Len(up') = Len(a) + Len(b)
    BY <2>3, <2>4, Joined
  <2>6. Len(up') <= LineMax
    <3>1. Len(a) = i - 1
      <4>1. CASE i = 1
        BY <2>3, <4>1
      <4>2. CASE i # 1
        BY <1>3, <2>2, <2>3, <4>2
      <4>3. QED
        BY <4>1, <4>2
    <3>2. Len(b) = Len(up) - i
      <4>1. CASE i = Len(up)
        BY <1>3, <2>3, <4>1
      <4>2. CASE i # Len(up)
        <5>1. i + 1 <= Len(up)
          BY <1>3, <2>2, <4>2
        <5>2. Len(b) = Len(up) - (i + 1) + 1
          BY <2>3, <5>1
        <5>3. QED
          BY <1>3, <2>2, <5>2
      <4>3. QED
        BY <4>1, <4>2
    <3>3. Len(a) + Len(b) <= LineMax
      BY <1>1, <1>3, <2>2, <3>1, <3>2, SMTT(20)
    <3>4. QED
      BY <2>5, <3>3
  <2>7. lost' \in 0 .. MaxLost
    BY <1>1, <1>3, <1>14 DEF Lose
  <2>8. UNCHANGED <<stick, sample, pc, wheel, tx_data, rx_byte, issued, down, line, text, wheels>>
    BY <1>14 DEF Lose
  <2>9. QED
    BY <1>1, <1>2, <2>5, <2>6, <2>7, <2>8 DEF IInv, TypeOK, LineInv, BufferInv
<1>15. CASE UNCHANGED vars
  BY <1>1, <1>2, <1>15 DEF vars, IInv, TypeOK, LineInv, BufferInv
<1>16. QED
  BY <1>5, <1>6, <1>7, <1>8, <1>9, <1>10, <1>11, <1>12, <1>13, <1>14, <1>15 DEF Next, Program

(* The type invariant of the module holds of every behaviour.                *)
THEOREM TypeOKHolds == Spec => []TypeOK
<1>1. IInv => TypeOK
  BY DEF IInv
<1>2. QED
  BY <1>1, InitIInv, NextIInv, PTL DEF Spec

(* LinesEnd: once a wheel was asked to move, every command written ends its  *)
(* line, whatever was asked since: ConstructMotorCommand puts a carriage     *)
(* return at the end of the buffer and speed 0 leaves it there.              *)
THEOREM LinesEndHolds == Spec => []LinesEnd
<1>1. IInv => LinesEnd
  BY DEF IInv, BufferInv, LinesEnd
<1>2. QED
  BY <1>1, InitIInv, NextIInv, PTL DEF Spec

-----------------------------------------------------------------------------
(* Only what was asked for, as long as no byte is lost. *)

LEMMA InitAsked ==
  Init => AskedInv
<1> SUFFICES ASSUME Init
             PROVE  AskedInv
  OBVIOUS
<1>1. Sent = << >> /\ Sent \in Seq(Byte) /\ Len(Sent) = 0
  <2>1. line = << >> /\ up = << >> /\ << >> \in Seq(Byte)
    BY DEF Init
  <2>2. << >> \o << >> = << >>
    BY <2>1, ConcatEmptySeq
  <2>3. QED
    BY <2>1, <2>2 DEF Sent
<1>2. StreamInv
  BY <1>1 DEF StreamInv, AllTold, EndsWell
<1>3. OnlyIssued
  <2>1. \A w \in Wheels : wheels[w] = Stop /\ issued[w] = {Stop}
    BY DEF Init
  <2>2. Heard(Stop) = Stop
    BY Literals, HeardIs DEF Stop, CR
  <2>3. QED
    BY <2>1, <2>2 DEF OnlyIssued
<1>4. CommandInv
  BY DEF Init, CommandInv
<1>5. QED
  BY <1>2, <1>3, <1>4 DEF AskedInv

(* A step that leaves the bytes, the wheels and what was asked alone.        *)
LEMMA SameBytes ==
  ASSUME AskedInv, UNCHANGED <<line, up, wheels, issued, lost>>, CommandInv'
  PROVE  AskedInv'
<1>1. Sent' = Sent /\ Commanded' = Commanded
  BY DEF Sent, Commanded
<1>2. StreamInv => StreamInv'
  BY <1>1 DEF StreamInv
<1>3. OnlyIssued => OnlyIssued'
  BY DEF OnlyIssued
<1>4. QED
  BY <1>2, <1>3 DEF AskedInv

LEMMA NextAsked ==
  ASSUME IInv, AskedInv, [Next]_vars
  PROVE  AskedInv'
<1> USE DEF program, controller
<1>1. /\ sample \in Demands /\ wheel \in Wheels /\ tx_data \in [1 .. 5 -> Byte]
      /\ up \in Seq(Byte) /\ line \in Seq(Byte) /\ lost \in 0 .. MaxLost
      /\ wheels \in [Wheels -> Motion] /\ issued \in [Wheels -> SUBSET Command]
  BY DEF IInv, TypeOK
<1>2. LineInv /\ CommandInv /\ tx_data[5] \in {0, CR} /\ (lost = 0 => StreamInv /\ OnlyIssued)
  BY DEF IInv, BufferInv, AskedInv
<1>3. Sent \in Seq(Byte) /\ Len(Sent) = Len(line) + Len(up) /\ Len(line) \in Nat /\ Len(up) \in Nat
      /\ (\A k \in 1 .. Len(line) : Sent[k] = line[k]) /\ (\A k \in 1 .. Len(up) : Sent[Len(line) + k] = up[k])
  BY <1>1, Joined, LenProperties DEF Sent
<1>4. CASE Sample
  BY <1>4, SameBytes DEF Sample, CommandInv
<1>5. CASE Construct
  <2>1. sample[wheel] \in Command
    BY <1>1, DemandsAssumption
  <2>2. tx_data' = Bytes(tx_data, wheel, sample[wheel]) /\ wheel' = wheel
        /\ issued' = [issued EXCEPT ![wheel] = @ \cup {sample[wheel]}]
    BY <1>5 DEF Construct
  <2>3. IsCommand(tx_data', wheel, sample[wheel]) /\ sample[wheel] \in issued'[wheel]
    BY <1>1, <2>1, <2>2, BytesAre
  <2>4. CommandInv'
    BY <2>2, <2>3 DEF CommandInv
  <2>5. \A w \in Wheels : Commanded[w] \subseteq Commanded'[w]
    <3>1. \A w \in Wheels : issued[w] \subseteq issued'[w]
      BY <1>1, <2>2
    <3>2. QED
      BY <3>1, StillHeard
  <2>6. Sent' = Sent /\ UNCHANGED <<wheels, lost>>
    BY <1>5 DEF Construct, Sent
  <2>7. lost = 0 => StreamInv'
    BY <1>2, <2>5, <2>6, StillAsked DEF StreamInv
  <2>8. lost = 0 => OnlyIssued'
    BY <1>2, <2>5, <2>6, WheelsHeard
  <2>9. QED
    BY <2>4, <2>6, <2>7, <2>8 DEF AskedInv
<1>6. CASE PollByte
  <2>1. CommandInv'
    BY <1>2, <1>6 DEF PollByte, CommandInv
  <2>2. QED
    BY <1>6, <2>1, SameBytes DEF PollByte
<1>7. CASE PollTimeout
  <2>1. CommandInv'
    BY <1>2, <1>7 DEF PollTimeout, CommandInv
  <2>2. QED
    BY <1>7, <2>1, SameBytes DEF PollTimeout
<1>8. CASE Write
  <2>1. CommandInv'
    BY <1>8 DEF Write, CommandInv
  <2>2. up' = up \o tx_data /\ UNCHANGED <<line, wheels, issued, lost>> /\ pc = "write"
    BY <1>8 DEF Write
  <2>3. tx_data \in Seq(Byte) /\ Len(tx_data) = 5
    BY <1>1, BufferSeq
  <2>4. Sent' = Sent \o tx_data
    <3>1. Sent' = line \o (up \o tx_data)
      BY <2>2 DEF Sent
    <3>2. (line \o up) \o tx_data = line \o (up \o tx_data)
      BY <1>1, <2>3, ConcatAssociative, SMTT(20)
    <3>3. QED
      BY <3>1, <3>2 DEF Sent
  <2>5. PICK c \in issued[wheel] : IsCommand(tx_data, wheel, c)
    BY <1>2, <2>2 DEF CommandInv
  <2>6. c \in Command /\ Heard(c) \in Commanded[wheel]
    BY <1>1, <2>5 DEF Commanded
  <2>7. AllTold(tx_data, Commanded) /\ (tx_data[5] = CR \/ (tx_data[5] = 0 /\ tx_data[4] = CR))
    BY <1>1, <1>2, <2>5, <2>6, CommandLines
  <2>8. EndsWell(tx_data)
    BY <2>3, <2>7 DEF EndsWell
  <2>9. lost = 0 => StreamInv'
    <3> SUFFICES ASSUME lost = 0
                 PROVE  StreamInv'
      OBVIOUS
    <3>1. AllTold(Sent, Commanded) /\ EndsWell(Sent)
      BY <1>2 DEF StreamInv
    <3>2. Len(tx_data) > 1
      BY <2>3
    <3>3. AllTold(Sent \o tx_data, Commanded) /\ EndsWell(Sent \o tx_data)
      BY <1>3, <2>3, <2>7, <2>8, <3>1, <3>2, Followed
    <3>4. Commanded' = Commanded
      BY <2>2 DEF Commanded
    <3>5. QED
      BY <2>4, <3>3, <3>4 DEF StreamInv
  <2>10. lost = 0 => OnlyIssued'
    BY <1>2, <2>2 DEF OnlyIssued
  <2>11. QED
    BY <2>1, <2>2, <2>9, <2>10 DEF AskedInv
<1>9. CASE Reply
  <2>1. pc' \in {"construct", "sample"}
    BY <1>9 DEF Reply
  <2>2. CommandInv'
    BY <2>1 DEF CommandInv
  <2>3. QED
    BY <1>9, <2>2, SameBytes DEF Reply
<1>10. CASE CtlRead
  <2>1. up # << >> /\ up' = Tail(up) /\ UNCHANGED <<pc, wheel, tx_data, issued, lost>>
    BY <1>10 DEF CtlRead
  <2>2. CommandInv'
    BY <1>2, <2>1 DEF CommandInv
  <2>3. CASE Head(up) # CR
    <3>1. line' = Append(line, Head(up)) /\ UNCHANGED wheels
      BY <1>10, <2>3 DEF CtlRead
    <3>2. Sent' = Sent /\ Commanded' = Commanded
      BY <1>1, <2>1, <3>1, Shifted DEF Sent, Commanded
    <3>3. lost = 0 => StreamInv' /\ OnlyIssued'
      BY <1>2, <2>1, <3>1, <3>2 DEF StreamInv, OnlyIssued
    <3>4. QED
      BY <2>1, <2>2, <3>3 DEF AskedInv
  <2>4. CASE Head(up) = CR
    <3>1. wheels' = Obeyed(line) /\ line' = << >>
      BY <1>10, <2>4 DEF CtlRead
    <3> DEFINE m == Len(line) + 1
               t == Tail(up)
    <3>2. /\ t \in Seq(Byte) /\ Len(t) = Len(up) - 1 /\ up[1] = CR /\ Len(up) > 0
          /\ \A k \in 1 .. Len(t) : t[k] = up[k + 1]
      <4>1. Len(up) > 0
        BY <1>1, <1>3, <2>1, EmptySeq
      <4>2. up[1] = CR
        BY <2>4
      <4>3. QED
        BY <1>1, <2>1, <4>1, <4>2, HeadTailProperties
    <3>3. Sent' = t /\ Commanded' = Commanded /\ UNCHANGED <<issued, lost>>
      BY <2>1, <3>1, <3>2, ConcatEmptySeq DEF Sent, Commanded
    <3> HIDE DEF t
    <3>4. /\ m \in Nat /\ m > 0 /\ m \in 1 .. Len(Sent) /\ Sent[m] = CR /\ Len(Sent) = m + Len(t)
          /\ \A k \in 1 .. Len(t) : t[k] = Sent[m + k]
      <4>1. m \in Nat /\ m > 0 /\ m \in 1 .. Len(Sent) /\ Len(Sent) = m + Len(t) /\ 1 \in 1 .. Len(up)
        BY <1>3, <3>2
      <4>2. Sent[m] = CR
        BY <1>3, <3>2, <4>1
      <4>3. ASSUME NEW k \in 1 .. Len(t)
            PROVE  t[k] = Sent[m + k]
        <5>1. k + 1 \in 1 .. Len(up) /\ Len(line) + (k + 1) = m + k
          BY <1>3, <3>2
        <5>2. Sent[Len(line) + (k + 1)] = up[k + 1]
          BY <1>3, <5>1
        <5>3. QED
          BY <3>2, <5>1, <5>2
      <4>4. QED
        BY <4>1, <4>2, <4>3
    <3>5. lost = 0 => StreamInv'
      <4> SUFFICES ASSUME lost = 0
                   PROVE  StreamInv'
        OBVIOUS
      <4>1. AllTold(Sent, Commanded) /\ EndsWell(Sent)
        BY <1>2 DEF StreamInv
      <4> HIDE DEF m
      <4>2. AllTold(t, Commanded) /\ EndsWell(t)
        BY <1>3, <3>2, <3>4, <4>1, LineGone
      <4>3. QED
        BY <3>3, <4>2 DEF StreamInv
    <3>6. lost = 0 => OnlyIssued'
      <4> SUFFICES ASSUME lost = 0
                   PROVE  OnlyIssued'
        OBVIOUS
      <4>1. AllTold(Sent, Commanded) /\ OnlyIssued
        BY <1>2 DEF StreamInv
      <4>2. CASE Len(line) \in {3, 4} /\ line[1] \in Wheels /\ line[2] \in {Forward, Backward}
        <5> DEFINE n == Len(line)
                   c == [dir |-> line[2], speed |-> 256 * line[3] + IF n = 4 THEN line[4] ELSE 0]
        <5>1. wheels' = [wheels EXCEPT ![line[1]] = c]
          BY <3>1, <4>2 DEF Obeyed
        <5>2. n = 3 \/ n = 4
          BY <4>2, Zenon
        <5>3. m = n + 1 /\ m - 1 = n /\ 1 + 1 = 2 /\ 1 + 2 = 3 /\ 1 + 3 = 4
          BY <1>3
        <5>4. /\ Sent[1] = line[1] /\ Sent[2] = line[2] /\ Sent[3] = line[3]
              /\ (n = 4 => Sent[4] = line[4]) /\ 1 \in 1 .. Len(Sent)
          <6>1. \A p \in Nat : p = 3 \/ p = 4 =>
                  1 \in 1 .. p /\ 2 \in 1 .. p /\ 3 \in 1 .. p /\ (p = 4 => 4 \in 1 .. p)
            OBVIOUS
          <6>2. 1 \in 1 .. n /\ 2 \in 1 .. n /\ 3 \in 1 .. n /\ (n = 4 => 4 \in 1 .. n)
            BY <1>3, <5>2, <6>1
          <6>3. 1 \in 1 .. Len(Sent)
            BY <1>3, <6>2
          <6>4. QED
            BY <1>3, <6>2, <6>3
        <5>5. IsLine(Sent, 1, m)
          <6>1. \A k \in 1 .. m - 1 : Sent[k] # CR
            BY <1>2, <1>3, <5>3 DEF LineInv
          <6>2. QED
            BY <3>4, <6>1 DEF IsLine, Starts
        <5>6. Tells(Sent, 1, n) /\ Told(Sent, 1, n) = c
          BY <4>2, <5>2, <5>3, <5>4 DEF Tells, Told
        <5>7. Told(Sent, 1, m - 1) \in Commanded[Sent[1]]
          <6>1. 1 <= m
            BY <3>4
          <6>2. Tells(Sent, 1, m - 1)
            BY <5>3, <5>6
          <6>3. QED
            BY <3>4, <4>1, <5>4, <5>5, <6>1, <6>2 DEF AllTold
        <5>8. c \in Commanded[line[1]]
          BY <5>3, <5>4, <5>6, <5>7
        <5> HIDE DEF c
        <5>9. \A w \in Wheels : wheels'[w] \in Commanded'[w]
          BY <1>1, <3>3, <4>1, <4>2, <5>1, <5>8, WheelsHeard
        <5>10. QED
          BY <5>9, WheelsHeard
      <4>3. CASE ~(Len(line) \in {3, 4} /\ line[1] \in Wheels /\ line[2] \in {Forward, Backward})
        <5>1. wheels' = wheels
          BY <3>1, <4>3, Zenon DEF Obeyed
        <5>2. QED
          BY <3>3, <4>1, <5>1 DEF OnlyIssued
      <4>4. QED
        BY <4>2, <4>3
    <3>7. QED
      BY <2>2, <3>3, <3>5, <3>6 DEF AskedInv
  <2>5. QED
    BY <2>3, <2>4
<1>11. CASE CtlPrint
  <2>1. CommandInv'
    BY <1>2, <1>11 DEF CtlPrint, CommandInv
  <2>2. QED
    BY <1>11, <2>1, SameBytes DEF CtlPrint
<1>12. CASE Move
  <2>1. CommandInv'
    BY <1>2, <1>12 DEF Move, CommandInv
  <2>2. QED
    BY <1>12, <2>1, SameBytes DEF Move
<1>13. CASE Lose
  <2>1. CommandInv'
    BY <1>2, <1>13 DEF Lose, CommandInv
  <2>2. lost' # 0
    <3>1. lost \in Nat /\ lost' = lost + 1
      BY <1>1, <1>13, SizesAssumption DEF Lose
    <3>2. QED
      BY <3>1
  <2>3. QED
    BY <2>1, <2>2 DEF AskedInv
<1>14. CASE UNCHANGED vars
  <2>1. CommandInv'
    BY <1>2, <1>14 DEF vars, CommandInv
  <2>2. QED
    BY <1>14, <2>1, SameBytes DEF vars
<1>15. QED
  BY <1>4, <1>5, <1>6, <1>7, <1>8, <1>9, <1>10, <1>11, <1>12, <1>13, <1>14 DEF Next, Program

(* CommandsWhole, for every demand of the joystick, answer of the controller *)
(* and pace: while no byte is lost a wheel does only what one of its         *)
(* commands tells it, the whole of it or, with a low byte of 13, the high    *)
(* byte; and every line that is written ends.                                *)
THEOREM CommandsWholeHolds == Spec => []CommandsWhole
<1>1. IInv /\ AskedInv /\ [Next]_vars => AskedInv'
  BY NextAsked
<1>2. IInv /\ AskedInv => CommandsWhole
  BY DEF IInv, BufferInv, AskedInv, OnlyIssued, LinesEnd, CommandsWhole
<1>3. QED
  BY <1>1, <1>2, InitIInv, NextIInv, InitAsked, PTL DEF Spec

-----------------------------------------------------------------------------
(* The WiFly driver.                                                       *)
(*                                                                         *)
(* The inductive invariant follows what can still count for the answer the *)
(* driver waits for: the characters on their way (Pending), while the      *)
(* command is unanswered (Waiting) and after it was (Answered).            *)
DoType == [send : Seq(Names), wait : Seq(Chars),
           checked : BOOLEAN, then : {"next", "flush", "line"}]
AOK == <<"A", "O", "K">>

(* The steps before the association that set something and wait; what they *)
(* send.  Of the settings sent without waiting (step 18) nothing is asked. *)
Sets == {2} \cup 10 .. 14 \cup {16}
Settings == {"set", "phrase"}

(* What can count for the answer of a step: while the report of the scan   *)
(* (step 15) may be there, only what follows its first character.          *)
Loud(s) == IF s <= 14 THEN {"A", "O", "K"} ELSE {"O", "K"}
Quiet(p, s) == \A i \in 1 .. Len(p) : p[i].c \notin Loud(s)
NoR(p) == \A i \in 1 .. Len(p) : p[i].c # "R"
Asked(cs) == \E i \in 1 .. Len(cs) : cs[i].name \in Settings

(* The wait for AOK that stands at o is over with the k-th character.      *)
Completes(p, o, k) ==
  /\ p[k].c = "K"
  /\ o < 2 => \E j \in 1 .. k - 1 :
                /\ p[j].c = "O"
                /\ o < 1 => \E i \in 1 .. j - 1 : p[i].c = "A"

(* If it can be over, then in the end, and if the setting was taken.       *)
Once(p, o, s, taken) ==
  \A k \in 1 .. Len(p) :
    Completes(p, o, k) => taken /\ \A m \in k + 1 .. Len(p) : p[m].c \notin Loud(s)

Pending == fifo \o out
Taken == Now.checked => step \notin refused

TurnInv ==
  /\ phase = "wait" => offset < Len(Now.wait) /\ errOffset < 3
  /\ phase = "send" => offset = 0 /\ errOffset = 0

OrderInv ==
  \A i \in 1 .. Len(commands) :
    /\ commands[i].name = "join" => commands[i].of = 15
    /\ commands[i].name \in Settings =>
         \/ commands[i].of = 18
         \/ /\ commands[i].of = step /\ step \in Sets /\ i = Len(commands)
            /\ phase \in {"wait", "swallow", "failed"}
    /\ step < 18 /\ commands[i].name = "phrase" => step = 11

RefusedInv ==
  \A s \in refused :
    Script[s].checked =>
      /\ s = step /\ step \in Sets
      /\ phase \in {"wait", "failed"} \/ (phase = "swallow" /\ errOffset = 3)

Failed == phase = "failed"
Refusal == phase = "swallow" /\ errOffset = 3 /\ Now.checked
Waiting ==
  /\ phase = "wait" /\ step \in Sets /\ Asked(commands) /\ Taken
  /\ Quiet(Pending, step) /\ offset <= 1 /\ (step <= 14 => offset = 0)
Answered ==
  /\ phase = "wait" /\ step \in Sets /\ ~Asked(commands)
  /\ Once(Pending, offset, step, Taken)
  /\ step = 2 => (NoR(Pending) /\ errOffset <= 1) \/ Quiet(Pending, step)
Idle ==
  /\ phase = "wait" => step \notin Sets
  /\ ~Asked(commands) /\ Quiet(Pending, step)
PlaceInv == step < 18 => Failed \/ Refusal \/ Waiting \/ Answered \/ Idle

(* The first setting, whose result is not looked at, is not refused in the *)
(* middle of its answer.                                                   *)
FirstInv ==
  /\ step <= 2 => \A i \in 1 .. Len(commands) :
                     commands[i].name \in {"", "exit", "$$$", "set"}
  /\ step = 1 \/ (step = 2 /\ (phase = "send" \/ Asked(commands))) => NoR(Pending)
  /\ step = 2 /\ Asked(commands) => errOffset <= 1

AnswerInv == OrderInv /\ RefusedInv /\ PlaceInv /\ FirstInv
WiFlyInv == WiFlyTypeOK /\ TurnInv /\ (~Spelled => AnswerInv)

-----------------------------------------------------------------------------
(* Sequences and the script *)
LEMMA DoIs ==
  ASSUME NEW s \in Seq(Names), NEW w \in Seq(Chars), NEW c \in BOOLEAN,
         NEW t \in {"next", "flush", "line"}
  PROVE  Do(s, w, c, t) \in DoType
BY DEF DoType, Do

LEMMA Tuples ==
  ASSUME NEW T
  PROVE  /\ << >> \in Seq(T)
         /\ \A a \in T : <<a>> \in Seq(T)
         /\ \A a, b \in T : <<a, b>> \in Seq(T)
         /\ \A a, b, c \in T : <<a, b, c>> \in Seq(T)
OBVIOUS

IsJoin(c, s, t) ==
  /\ Len(c) = Len(s) + Len(t)
  /\ \A i \in 1 .. Len(s) : c[i] = s[i]
  /\ \A i \in 1 .. Len(t) : c[Len(s) + i] = t[i]

LEMMA Joins ==
  ASSUME NEW T, NEW s \in Seq(T), NEW t \in Seq(T)
  PROVE  s \o t \in Seq(T) /\ IsJoin(s \o t, s, t)
BY DEF IsJoin

Reboot == Do(<<"reboot">>, <<"*", "R", "b">>, FALSE, "next")
Boots == Do(<< >>, <<"*", "R", "E">>, FALSE, "next")
Version == Do(<<"ver">>, <<"v">>, FALSE, "line")
Join == Do(<<"join">>, <<"A", "s", "!">>, FALSE, "next")
Rest == Do(<<"set", "set", "set">>, << >>, FALSE, "flush")
AwaitPrompt == Do(<< >>, <<"<>">>, FALSE, "next")
Address == Do(<<"get">>, <<"g", "p">>, FALSE, "line")

LEMMA Rows ==
  /\ {Enter("next"), Enter("flush"), Save, Exit, Reboot, Boots, Version, Join, Rest, AwaitPrompt, Address} \subseteq DoType
  /\ \A c \in Names : \A b \in BOOLEAN : Set(c, b) \in DoType
<1>n. /\ << >> \in Seq(Names)
      /\ \A a \in Names : <<a>> \in Seq(Names)
      /\ \A a, b \in Names : <<a, b>> \in Seq(Names)
      /\ \A a, b, c \in Names : <<a, b, c>> \in Seq(Names)
  BY Tuples
<1>c. /\ << >> \in Seq(Chars)
      /\ \A a \in Chars : <<a>> \in Seq(Chars)
      /\ \A a, b \in Chars : <<a, b>> \in Seq(Chars)
      /\ \A a, b, c \in Chars : <<a, b, c>> \in Seq(Chars)
  BY Tuples
<1>1. Enter("next") \in DoType /\ Enter("flush") \in DoType
  <2>1. <<"", "exit", "$$$">> \in Seq(Names)
    BY <1>n DEF Names
  <2>2. <<"C", "M", "D">> \in Seq(Chars)
    BY <1>c DEF Chars
  <2> QED BY <2>1, <2>2, DoIs DEF Enter
<1>3. Save \in DoType
  <2>1. <<"save">> \in Seq(Names)
    BY <1>n DEF Names
  <2>2. <<"S", "g">> \in Seq(Chars)
    BY <1>c DEF Chars
  <2> QED BY <2>1, <2>2, DoIs DEF Save
<1>4. Exit \in DoType
  <2>1. <<"exit">> \in Seq(Names)
    BY <1>n DEF Names
  <2>2. <<"E", "X">> \in Seq(Chars)
    BY <1>c DEF Chars
  <2> QED BY <2>1, <2>2, DoIs DEF Exit
<1>5. Reboot \in DoType
  <2>1. <<"reboot">> \in Seq(Names)
    BY <1>n DEF Names
  <2>2. <<"*", "R", "b">> \in Seq(Chars)
    BY <1>c DEF Chars
  <2> QED BY <2>1, <2>2, DoIs DEF Reboot
<1>6. Boots \in DoType
  <2>1. << >> \in Seq(Names)
    BY <1>n DEF Names
  <2>2. <<"*", "R", "E">> \in Seq(Chars)
    BY <1>c DEF Chars
  <2> QED BY <2>1, <2>2, DoIs DEF Boots
<1>7. Version \in DoType
  <2>1. <<"ver">> \in Seq(Names)
    BY <1>n DEF Names
  <2>2. <<"v">> \in Seq(Chars)
    BY <1>c DEF Chars
  <2> QED BY <2>1, <2>2, DoIs DEF Version
<1>8. Join \in DoType
  <2>1. <<"join">> \in Seq(Names)
    BY <1>n DEF Names
  <2>2. <<"A", "s", "!">> \in Seq(Chars)
    BY <1>c DEF Chars
  <2> QED BY <2>1, <2>2, DoIs DEF Join
<1>9. Rest \in DoType
  <2>1. <<"set", "set", "set">> \in Seq(Names)
    BY <1>n DEF Names
  <2>2. << >> \in Seq(Chars)
    BY <1>c DEF Chars
  <2> QED BY <2>1, <2>2, DoIs DEF Rest
<1>10. AwaitPrompt \in DoType
  <2>1. << >> \in Seq(Names)
    BY <1>n DEF Names
  <2>2. <<"<>">> \in Seq(Chars)
    BY <1>c DEF Chars
  <2> QED BY <2>1, <2>2, DoIs DEF AwaitPrompt
<1>11. Address \in DoType
  <2>1. <<"get">> \in Seq(Names)
    BY <1>n DEF Names
  <2>2. <<"g", "p">> \in Seq(Chars)
    BY <1>c DEF Chars
  <2> QED BY <2>1, <2>2, DoIs DEF Address
<1>12. \A c \in Names : \A b \in BOOLEAN : Set(c, b) \in DoType
  <2>2. AOK \in Seq(Chars)
    BY <1>c DEF Chars, AOK
  <2>3. \A c \in Names : <<c>> \in Seq(Names)
    BY <1>n
  <2>4. \A c \in Names : \A b \in BOOLEAN : Do(<<c>>, AOK, b, "next") \in DoType
    BY <2>2, <2>3, DoIs
  <2> QED BY <2>4 DEF Set, AOK
<1> QED BY <1>1, <1>3, <1>4, <1>5, <1>6, <1>7, <1>8, <1>9, <1>10, <1>11, <1>12

LEMMA ScriptIs ==
  /\ Script \in Seq(DoType) /\ Len(Script) = 22
  /\ Script[1] = Enter("next") /\ Script[2] = Set("set", FALSE) /\ Script[3] = Save
  /\ Script[4] = Reboot /\ Script[5] = Boots /\ Script[6] = Enter("flush")
  /\ Script[7] = Version /\ Script[8] = Exit
  /\ Script[9] = Enter("next") /\ Script[10] = Set("set", TRUE) /\ Script[11] = Set("phrase", TRUE)
  /\ Script[12] = Set("set", TRUE) /\ Script[13] = Set("set", TRUE) /\ Script[14] = Set("set", TRUE)
  /\ Script[15] = Join /\ Script[16] = Set("set", TRUE) /\ Script[17] = Enter("next")
  /\ Script[18] = Rest /\ Script[19] = Save
  /\ Script[20] = AwaitPrompt /\ Script[21] = Address /\ Script[22] = Exit
<1>0. "set" \in Names /\ "phrase" \in Names
  BY DEF Names
<1> DEFINE st == Set("set", TRUE)  sp == Set("phrase", TRUE) un == Set("set", FALSE)
           en == Enter("next")  ef == Enter("flush")
<1>r. /\ {en, ef, Save, Exit, Reboot, Boots, Version, Join, Rest, AwaitPrompt, Address} \subseteq DoType
      /\ st \in DoType /\ sp \in DoType /\ un \in DoType
  BY Rows, <1>0
<1>j. JoinNetwork = <<en, st, sp, st, st, st, Join, st, en, Rest, Save>>
  BY Zenon DEF JoinNetwork, Join, Rest
<1>g. GetIPAddress = <<AwaitPrompt, Address>>
  BY Zenon DEF GetIPAddress, AwaitPrompt, Address
<1>s. Setup = <<en, un, Save, Reboot, Boots, ef, Version, Exit>>
  BY Zenon DEF Setup, Reboot, Boots, Version
<1> HIDE DEF st, sp, un, en, ef
<1>1. /\ Setup \in Seq(DoType) /\ Len(Setup) = 8
      /\ Setup[1] = en /\ Setup[2] = un /\ Setup[3] = Save /\ Setup[4] = Reboot
      /\ Setup[5] = Boots /\ Setup[6] = ef /\ Setup[7] = Version /\ Setup[8] = Exit
  BY <1>r, <1>s
<1>2. /\ JoinNetwork \in Seq(DoType) /\ Len(JoinNetwork) = 11
      /\ JoinNetwork[1] = en /\ JoinNetwork[2] = st /\ JoinNetwork[3] = sp
      /\ JoinNetwork[4] = st /\ JoinNetwork[5] = st /\ JoinNetwork[6] = st
      /\ JoinNetwork[7] = Join /\ JoinNetwork[8] = st /\ JoinNetwork[9] = en
      /\ JoinNetwork[10] = Rest /\ JoinNetwork[11] = Save
  BY <1>r, <1>j
<1>3. /\ GetIPAddress \in Seq(DoType) /\ Len(GetIPAddress) = 2
      /\ GetIPAddress[1] = AwaitPrompt /\ GetIPAddress[2] = Address
  BY <1>r, <1>g
<1>4. <<Exit>> \in Seq(DoType) /\ Len(<<Exit>>) = 1 /\ <<Exit>>[1] = Exit
  BY <1>r
<1> DEFINE a == Setup \o JoinNetwork
           b == a \o GetIPAddress
           c == b \o <<Exit>>
<1>5. /\ a \in Seq(DoType) /\ Len(a) = 19
      /\ \A i \in 1 .. 8 : a[i] = Setup[i]
      /\ \A i \in 1 .. 11 : a[8 + i] = JoinNetwork[i]
  <2>0. Setup \in Seq(DoType) /\ JoinNetwork \in Seq(DoType) /\ Len(Setup) = 8 /\ Len(JoinNetwork) = 11
    BY <1>1, <1>2
  <2>1. a \in Seq(DoType) /\ IsJoin(a, Setup, JoinNetwork)
    BY <2>0, Joins, Zenon
  <2> HIDE DEF a
  <2> QED BY <2>0, <2>1 DEF IsJoin
<1>6. /\ b \in Seq(DoType) /\ Len(b) = 21
      /\ \A i \in 1 .. 19 : b[i] = a[i]
      /\ \A i \in 1 .. 2 : b[19 + i] = GetIPAddress[i]
  <2> HIDE DEF a
  <2>0. a \in Seq(DoType) /\ GetIPAddress \in Seq(DoType) /\ Len(a) = 19 /\ Len(GetIPAddress) = 2
    BY <1>3, <1>5
  <2>1. b \in Seq(DoType) /\ IsJoin(b, a, GetIPAddress)
    BY <2>0, Joins, Zenon
  <2> HIDE DEF b
  <2> QED BY <2>0, <2>1 DEF IsJoin
<1>7. /\ c \in Seq(DoType) /\ Len(c) = 22
      /\ \A i \in 1 .. 21 : c[i] = b[i]
      /\ \A i \in 1 .. 1 : c[21 + i] = <<Exit>>[i]
  <2> HIDE DEF b
  <2>0. b \in Seq(DoType) /\ <<Exit>> \in Seq(DoType) /\ Len(b) = 21 /\ Len(<<Exit>>) = 1
    BY <1>4, <1>6
  <2>1. c \in Seq(DoType) /\ IsJoin(c, b, <<Exit>>)
    BY <2>0, Joins, Zenon
  <2> HIDE DEF c
  <2> QED BY <2>0, <2>1 DEF IsJoin
<1>c. Script = c
  BY Zenon DEF Script
<1> HIDE DEF a, b, c
<1>8. /\ a[1] = en /\ a[2] = un /\ a[3] = Save /\ a[4] = Reboot
      /\ a[5] = Boots /\ a[6] = ef /\ a[7] = Version /\ a[8] = Exit
  BY <1>1, <1>5
<1>9. /\ a[9] = en /\ a[10] = st /\ a[11] = sp /\ a[12] = st
      /\ a[13] = st /\ a[14] = st /\ a[15] = Join /\ a[16] = st
      /\ a[17] = en /\ a[18] = Rest /\ a[19] = Save
  BY <1>2, <1>5
<1>10. Len(Script) = 22 /\ \A i \in 1 .. 19 : Script[i] = a[i]
  <2>1. Len(Script) = 22 /\ \A i \in 1 .. 19 : i \in 1 .. 21
    BY <1>7, <1>c
  <2> QED BY <1>6, <1>7, <1>c, <2>1, Zenon
<1>11. Script[20] = AwaitPrompt /\ Script[21] = Address /\ Script[22] = Exit
  <2>1. c[20] = b[20] /\ c[21] = b[21]
    BY <1>7
  <2>2. b[20] = AwaitPrompt /\ b[21] = Address
    BY <1>3, <1>6
  <2>3. c[22] = Exit
    BY <1>4, <1>7
  <2> QED BY <1>c, <2>1, <2>2, <2>3
<1>12. Script \in Seq(DoType)
  BY <1>7, <1>c
<1>13. /\ Script[1] = a[1] /\ Script[2] = a[2] /\ Script[3] = a[3] /\ Script[4] = a[4]
       /\ Script[5] = a[5] /\ Script[6] = a[6] /\ Script[7] = a[7] /\ Script[8] = a[8]
       /\ Script[9] = a[9] /\ Script[10] = a[10] /\ Script[11] = a[11] /\ Script[12] = a[12]
       /\ Script[13] = a[13] /\ Script[14] = a[14] /\ Script[15] = a[15] /\ Script[16] = a[16]
       /\ Script[17] = a[17] /\ Script[18] = a[18] /\ Script[19] = a[19]
  BY <1>10
<1> QED BY <1>8, <1>9, <1>10, <1>11, <1>12, <1>13, Zenon DEF st, sp, un, en, ef

-----------------------------------------------------------------------------
(* What the steps send and wait for.                                         *)
IsSetting(r) == r.wait = AOK /\ r.then = "next" /\ (r.send = <<"set">> \/ r.send = <<"phrase">>)
IsOther(r) ==
  /\ r.wait # << >>
  /\ \A i \in 1 .. Len(r.send) : r.send[i] \notin Settings \cup {"join"}

LEMMA RowsAre ==
  /\ IsOther(Enter("next")) /\ IsOther(Enter("flush")) /\ IsOther(Save) /\ IsOther(Exit)
  /\ IsOther(Reboot) /\ IsOther(Boots) /\ IsOther(Version) /\ IsOther(AwaitPrompt) /\ IsOther(Address)
  /\ \A c \in Settings : \A b \in BOOLEAN : IsSetting(Set(c, b)) /\ Set(c, b).checked = b /\ Set(c, b).send = <<c>>
  /\ Join.send = <<"join">> /\ Join.wait = <<"A", "s", "!">> /\ Join.checked = FALSE /\ Join.then = "next"
  /\ Rest.send = <<"set", "set", "set">> /\ Rest.wait = << >> /\ Rest.checked = FALSE /\ Rest.then = "flush"
  /\ Enter("next").send = <<"", "exit", "$$$">>
<1>1. \A t : IsOther(Enter(t))
  <2> TAKE t
  <2>1. Enter(t).send = <<"", "exit", "$$$">> /\ Enter(t).wait = <<"C", "M", "D">>
    BY DEF Enter, Do
  <2>2. <<"C", "M", "D">> # << >>
    OBVIOUS
  <2> DEFINE N == Names \ (Settings \cup {"join"})
  <2>3. "" \in N /\ "exit" \in N /\ "$$$" \in N
    BY DEF Names, Settings
  <2>4. <<"", "exit", "$$$">> \in Seq(N)
    BY <2>3, Tuples
  <2>5. \A q \in Seq(N) : \A i \in 1 .. Len(q) : q[i] \notin Settings \cup {"join"}
    OBVIOUS
  <2> QED BY <2>1, <2>2, <2>4, <2>5, Zenon DEF IsOther
<1>2. IsOther(Save) /\ IsOther(Exit)
  BY DEF IsOther, Save, Exit, Do, Settings
<1>3. IsOther(Reboot) /\ IsOther(Boots) /\ IsOther(Version)
  BY DEF IsOther, Reboot, Boots, Version, Do, Settings
<1>4. IsOther(AwaitPrompt) /\ IsOther(Address)
  BY DEF IsOther, AwaitPrompt, Address, Do, Settings
<1>5. \A c \in Settings : \A b \in BOOLEAN : IsSetting(Set(c, b)) /\ Set(c, b).checked = b /\ Set(c, b).send = <<c>>
  BY DEF IsSetting, Set, Do, Settings, AOK
<1>6. Join.send = <<"join">> /\ Join.wait = <<"A", "s", "!">> /\ Join.checked = FALSE /\ Join.then = "next"
  BY DEF Join, Do
<1>7. Rest.send = <<"set", "set", "set">> /\ Rest.wait = << >> /\ Rest.checked = FALSE /\ Rest.then = "flush"
  BY DEF Rest, Do
<1>8. Enter("next").send = <<"", "exit", "$$$">>
  BY DEF Enter, Do
<1> QED BY <1>1, <1>2, <1>3, <1>4, <1>5, <1>6, <1>7, <1>8

LEMMA StepTypes ==
  \A s \in 1 .. 22 : /\ Script[s].send \in Seq(Names) /\ Script[s].wait \in Seq(Chars)
                     /\ Script[s].checked \in BOOLEAN
                     /\ Script[s].then \in {"next", "flush", "line"}
<1>1. \A q \in Seq(DoType) : \A s \in 1 .. Len(q) : q[s] \in DoType
  OBVIOUS
<1>2. Script \in Seq(DoType) /\ Len(Script) = 22
  BY ScriptIs
<1>3. \A s \in 1 .. 22 : Script[s] \in DoType
  BY <1>1, <1>2, Zenon
<1> QED BY <1>3 DEF DoType

LEMMA SetSteps ==
  /\ \A s \in Sets : IsSetting(Script[s])
  /\ \A s \in Sets : s # 2 => Script[s].checked = TRUE
  /\ Script[2].checked = FALSE /\ Script[2].send = <<"set">>
  /\ \A s \in Sets : Script[s].send = <<"phrase">> => s = 11
<1>2. \A c \in Settings : \A b \in BOOLEAN : IsSetting(Set(c, b)) /\ Set(c, b).checked = b /\ Set(c, b).send = <<c>>
  BY RowsAre
<1>3. "set" \in Settings /\ "phrase" \in Settings /\ "set" # "phrase"
  BY DEF Settings
<1>4. \A s \in {10, 12, 13, 14, 16} : Script[s] = Set("set", TRUE)
  BY ScriptIs, Zenon
<1>5. Script[2] = Set("set", FALSE) /\ Script[11] = Set("phrase", TRUE)
  BY ScriptIs
<1>6. \A s \in Sets : s = 2 \/ s = 11 \/ s \in {10, 12, 13, 14, 16}
  BY DEF Sets
<1>7. 2 \notin {10, 12, 13, 14, 16} /\ 2 # 11
  OBVIOUS
<1>8. <<"set">> # <<"phrase">>
  OBVIOUS
<1>9. \A s \in Sets : IsSetting(Script[s])
  BY <1>2, <1>3, <1>4, <1>5, <1>6, ZenonT(40)
<1>10. \A s \in Sets : s # 2 => Script[s].checked = TRUE
  BY <1>2, <1>3, <1>4, <1>5, <1>6, Zenon
<1>11. Script[2].checked = FALSE /\ Script[2].send = <<"set">>
  BY <1>2, <1>3, <1>5, Zenon
<1>12. \A s \in Sets : Script[s].send = <<"phrase">> => s = 11
  BY <1>2, <1>3, <1>4, <1>5, <1>6, <1>8, Zenon
<1> QED BY <1>9, <1>10, <1>11, <1>12, Zenon

LEMMA OtherSteps ==
  /\ \A s \in 1 .. 22 : s \in Sets \/ s = 15 \/ s = 18 \/ IsOther(Script[s])
  /\ Script[15] = Join /\ Script[18] = Rest
  /\ Script[1].send = <<"", "exit", "$$$">>
<1>1. \A s \in 1 .. 22 : \/ s \in Sets \/ s = 15 \/ s = 18
                        \/ s = 1 \/ s = 3 \/ s = 4 \/ s = 5 \/ s = 6 \/ s = 7 \/ s = 8 \/ s = 9
                        \/ s = 17 \/ s = 19 \/ s = 20 \/ s = 21 \/ s = 22
  BY DEF Sets
<1>2. \A s \in 1 .. 22 : s \in Sets \/ s = 15 \/ s = 18 \/ IsOther(Script[s])
  BY <1>1, ScriptIs, RowsAre, ZenonT(40)
<1>3. Script[15] = Join /\ Script[18] = Rest
  BY ScriptIs
<1>4. Script[1] = Enter("next") /\ Enter("next").send = <<"", "exit", "$$$">>
  BY ScriptIs, RowsAre
<1> QED BY <1>2, <1>3, <1>4, Zenon

-----------------------------------------------------------------------------
(* What the reading and the arrival of characters leave.                     *)
IsDrop(q, p, d) ==
  /\ d <= Len(p) /\ Len(q) = Len(p) - d
  /\ \A i \in 1 .. Len(q) : q[i] = p[i + d]

LEMMA TailDrop ==
  ASSUME NEW T, NEW f \in Seq(T), NEW o \in Seq(T), f # << >>
  PROVE  /\ Tail(f) \in Seq(T) /\ IsDrop(Tail(f) \o o, f \o o, 1)
         /\ Len(f \o o) > 0 /\ (f \o o)[1] = Head(f) /\ Head(f) \in T
BY DEF IsDrop

LEMMA TwoDrop ==
  ASSUME NEW T, NEW f \in Seq(T), NEW o \in Seq(T)
  PROVE  /\ SubSeq(f, 3, Len(f)) \in Seq(T)
         /\ \E d \in 0 .. 2 : IsDrop(SubSeq(f, 3, Len(f)) \o o, f \o o, d)
<1>1. CASE Len(f) < 2
  BY <1>1 DEF IsDrop
<1>2. CASE Len(f) >= 2
  BY <1>2 DEF IsDrop
<1> QED BY <1>1, <1>2

LEMMA ArriveSame ==
  ASSUME NEW T, NEW f \in Seq(T), NEW o \in Seq(T), o # << >>
  PROVE  /\ Append(f, Head(o)) \in Seq(T) /\ Tail(o) \in Seq(T)
         /\ IsDrop(Append(f, Head(o)) \o Tail(o), f \o o, 0)
BY DEF IsDrop

LEMMA DropKeeps ==
  ASSUME NEW p, NEW q, NEW d \in Nat, Len(p) \in Nat, IsDrop(q, p, d),
         NEW s \in Nat, NEW t \in Nat, s <= t
  PROVE  /\ Quiet(p, s) => Quiet(q, t)
         /\ NoR(p) => NoR(q)
<1>1. \A i \in 1 .. Len(q) : i + d \in 1 .. Len(p) /\ q[i] = p[i + d]
  BY DEF IsDrop
<1>2. Loud(t) \subseteq Loud(s)
  BY DEF Loud
<1> QED BY <1>1, <1>2, Zenon DEF Quiet, NoR

LEMMA SameOnce ==
  ASSUME NEW p, NEW q, Len(p) \in Nat, IsDrop(q, p, 0),
         NEW o \in Nat, NEW s, NEW taken, Once(p, o, s, taken)
  PROVE  Once(q, o, s, taken)
<1>1. Len(q) = Len(p) /\ \A i \in 1 .. Len(p) : q[i] = p[i]
  BY DEF IsDrop
<1>2. \A k \in 1 .. Len(p) : Completes(q, o, k) => Completes(p, o, k)
  BY <1>1 DEF Completes
<1> QED BY <1>1, <1>2 DEF Once

LEMMA NextOnce ==
  ASSUME NEW p, NEW q, Len(p) \in Nat, Len(p) > 0, IsDrop(q, p, 1),
         NEW o \in 0 .. 2, NEW oo \in 0 .. 3,
         oo = IF AOK[o + 1] = p[1].c THEN o + 1 ELSE o,
         NEW s, NEW taken, Once(p, o, s, taken)
  PROVE  /\ oo < 3 => Once(q, oo, s, taken)
         /\ oo = 3 => taken /\ Quiet(q, s)
<1>1. Len(q) = Len(p) - 1 /\ \A i \in 1 .. Len(q) : q[i] = p[i + 1]
  BY DEF IsDrop
<1>2. oo = 3 => o = 2 /\ p[1].c = "K"
  BY DEF AOK
<1>3. oo = 3 => Completes(p, o, 1)
  BY <1>2 DEF Completes
<1>4. ASSUME oo = 3 PROVE taken /\ Quiet(q, s)
  BY <1>1, <1>3, <1>4 DEF Once, Quiet
<1>5. ASSUME oo < 3, NEW k \in 1 .. Len(q), Completes(q, oo, k)
      PROVE  Completes(p, o, k + 1)
  <2>0. /\ k + 1 \in 1 .. Len(p) /\ q[k] = p[k + 1]
        /\ \A i \in 1 .. k - 1 : q[i] = p[i + 1] /\ i + 1 \in 1 .. k
        /\ AOK[1] = "A" /\ AOK[2] = "O" /\ AOK[3] = "K"
    BY <1>1, <1>5 DEF AOK
  <2>1. p[k + 1].c = "K"
    BY <1>5, <2>0 DEF Completes
  <2>2. CASE o = 2
    BY <2>1, <2>2 DEF Completes
  <2>3. CASE o = 1 /\ oo = 2
    <3>1. p[1].c = "O" /\ 1 \in 1 .. (k + 1) - 1
      BY <2>0, <2>3
    <3> QED BY <2>1, <2>3, <3>1 DEF Completes
  <2>4. CASE o = 1 /\ oo = 1
    <3>1. PICK j \in 1 .. k - 1 : q[j].c = "O"
      BY <1>5, <2>4 DEF Completes
    <3>2. j + 1 \in 1 .. (k + 1) - 1 /\ p[j + 1].c = "O"
      BY <2>0, <3>1
    <3> QED BY <2>1, <2>4, <3>2 DEF Completes
  <2>5. CASE o = 0 /\ oo = 1
    <3>1. PICK j \in 1 .. k - 1 : q[j].c = "O"
      BY <1>5, <2>5 DEF Completes
    <3>2. j + 1 \in 1 .. (k + 1) - 1 /\ p[j + 1].c = "O"
      BY <2>0, <3>1
    <3>3. p[1].c = "A" /\ 1 \in 1 .. (j + 1) - 1
      BY <2>0, <2>5
    <3> QED BY <2>1, <2>5, <3>2, <3>3 DEF Completes
  <2>6. CASE o = 0 /\ oo = 0
    <3>1. PICK j \in 1 .. k - 1 : q[j].c = "O" /\ \E i \in 1 .. j - 1 : q[i].c = "A"
      BY <1>5, <2>6 DEF Completes
    <3>2. PICK i \in 1 .. j - 1 : q[i].c = "A"
      BY <3>1
    <3>3. j + 1 \in 1 .. (k + 1) - 1 /\ p[j + 1].c = "O"
      BY <2>0, <3>1
    <3>4. i + 1 \in 1 .. (j + 1) - 1 /\ p[i + 1].c = "A"
      BY <2>0, <3>2
    <3> QED BY <2>1, <2>6, <3>3, <3>4 DEF Completes
  <2>7. oo = o \/ oo = o + 1
    OBVIOUS
  <2> QED BY <1>5, <2>2, <2>3, <2>4, <2>5, <2>6, <2>7
<1>6. ASSUME oo < 3 PROVE Once(q, oo, s, taken)
  BY <1>1, <1>5, <1>6 DEF Once
<1> QED BY <1>4, <1>6
-----------------------------------------------------------------------------
(* What the module says.                                                     *)
Plain == Chars \ {"A", "O", "K"}
Mild == Chars \ {"O", "K"}
Calm == Plain \ {"R"}

Spells(t) == \E i, j, k \in 1 .. Len(t) :
               i < j /\ j < k /\ t[i] = "A" /\ t[j] = "O" /\ t[k] = "K"

LEMMA SpelledIs ==
  ASSUME NEW T, phrase \in Seq(T)
  PROVE  Spelled <=> Spells(phrase)
<1>1. DOMAIN phrase = 1 .. Len(phrase)
  OBVIOUS
<1>2. \A a, b, c : <<a, b, c>> = <<"A", "O", "K">> <=> a = "A" /\ b = "O" /\ c = "K"
  OBVIOUS
<1> QED BY <1>1, <1>2 DEF Spelled, Spells

LEMMA Subseqs ==
  ASSUME NEW S, NEW T, S \subseteq T
  PROVE  Seq(S) \subseteq Seq(T)
OBVIOUS

LEMMA Parts ==
  /\ <<"<>">> \in Seq(Calm) /\ Newline \in Seq(Calm) /\ <<".">> \in Seq(Calm)
  /\ <<"C", "M", "D">> \in Seq(Calm)
  /\ \A s, t \in Seq(Calm) : s \o t \in Seq(Calm)
  /\ \A s, t \in Seq(Plain) : s \o t \in Seq(Plain)
  /\ \A s, t \in Seq(Mild) : s \o t \in Seq(Mild)
  /\ Seq(Calm) \subseteq Seq(Plain) /\ Seq(Plain) \subseteq Seq(Mild) /\ Seq(Mild) \subseteq Seq(Chars)
<1>1. /\ \A a \in Calm : <<a>> \in Seq(Calm)
      /\ \A a, b \in Calm : <<a, b>> \in Seq(Calm)
      /\ \A a, b, c \in Calm : <<a, b, c>> \in Seq(Calm)
  BY Tuples
<1>2. {"<>", ".", "CR", "LF", "C", "M", "D"} \subseteq Calm
  BY DEF Calm, Plain, Chars
<1>3. <<"<>">> \in Seq(Calm) /\ Newline \in Seq(Calm) /\ <<".">> \in Seq(Calm)
      /\ <<"C", "M", "D">> \in Seq(Calm)
  BY <1>1, <1>2 DEF Newline
<1>4. \A T : \A s, t \in Seq(T) : s \o t \in Seq(T)
  BY Joins, Zenon
<1>5. Calm \subseteq Plain /\ Plain \subseteq Mild /\ Mild \subseteq Chars
  BY Zenon DEF Calm, Plain, Mild
<1>6. Seq(Calm) \subseteq Seq(Plain) /\ Seq(Plain) \subseteq Seq(Mild) /\ Seq(Mild) \subseteq Seq(Chars)
  BY <1>5, Subseqs, Zenon
<1> QED BY <1>3, <1>4, <1>6, Zenon

LEMMA GoodPlain ==
  ASSUME NEW name \in Names \ (Settings \cup {"join"})
  PROVE  /\ Good(name) \in Seq(Plain) /\ Bad(name) \in Seq(Plain)
         /\ name \in {"", "exit", "$$$"} => Good(name) \in Seq(Calm)
<1> DEFINE nl == Newline
<1>1. \A s, t \in Seq(Plain) : s \o t \in Seq(Plain)
  BY Parts
<1>2. \A s, t \in Seq(Calm) : s \o t \in Seq(Calm)
  BY Parts
<1>3. /\ <<"<>">> \in Seq(Calm) /\ Newline \in Seq(Calm) /\ <<".">> \in Seq(Calm)
      /\ \A q \in Seq(Calm) : q \in Seq(Plain)
  BY Parts, Zenon
<1>4. /\ \A a \in Plain : <<a>> \in Seq(Plain)
      /\ \A a, b \in Plain : <<a, b>> \in Seq(Plain)
      /\ \A a, b, c \in Plain : <<a, b, c>> \in Seq(Plain)
  BY Tuples
<1>5. {".", "S", "g", "E", "X", "v", "p", "R"} \subseteq Plain
  BY DEF Plain, Chars
<1>6. /\ <<".", "S", "g">> \in Seq(Plain) /\ <<"v">> \in Seq(Plain) /\ <<"g", "p">> \in Seq(Plain)
      /\ ERR \in Seq(Plain)
  BY <1>4, <1>5 DEF ERR
<1>7. /\ <<".", "*", "R", "b">> \in Seq(Plain) /\ <<".", "*", "R", "E">> \in Seq(Plain)
  BY DEF Plain, Chars
<1>8. <<".", "E", "X">> \in Seq(Calm)
  BY DEF Calm, Plain, Chars
<1>9. \/ name = "" \/ name = "exit" \/ name = "$$$" \/ name = "save" \/ name = "reboot"
      \/ name = "ver" \/ name = "get"
  BY DEF Names, Settings
<1>b. Bad(name) \in Seq(Plain)
  <2>1. Bad(name) = <<".">> \o Newline \o ERR \o <<".">> \o Newline \o <<"<>">>
    BY <1>9 DEF Bad
  <2> QED BY <2>1, <1>1, <1>3, <1>6, Zenon
<1>10. CASE name = "save"
  <2>1. Good(name) = <<".", "S", "g">> \o Newline \o <<"<>">>
    BY <1>10 DEF Good
  <2> QED BY <2>1, <1>1, <1>3, <1>6, <1>10, <1>b, Zenon
<1>11. CASE name = "reboot"
  <2>1. Good(name) = <<".", "*", "R", "b">> \o Newline \o <<".", "*", "R", "E">> \o Newline
    BY <1>11 DEF Good
  <2> QED BY <2>1, <1>1, <1>3, <1>7, <1>11, <1>b, Zenon
<1>12. CASE name = "ver"
  <2>1. Good(name) = <<"v">> \o Newline \o <<".">> \o Newline \o <<"<>">>
    BY <1>12 DEF Good
  <2> QED BY <2>1, <1>1, <1>3, <1>6, <1>12, <1>b, Zenon
<1>13. CASE name = "get"
  <2>1. Good(name) = <<"g", "p">> \o Newline \o <<".">> \o Newline \o <<"<>">>
    BY <1>13 DEF Good
  <2> QED BY <2>1, <1>1, <1>3, <1>6, <1>13, <1>b, Zenon
<1>14. CASE name = "exit"
  <2>1. Good(name) = <<".", "E", "X">> \o Newline
    BY <1>14 DEF Good
  <2> QED BY <2>1, <1>2, <1>3, <1>8, <1>b, Zenon
<1>15. CASE name = "" \/ name = "$$$"
  <2>1. Good(name) = <<"<>">>
    BY <1>15 DEF Good
  <2> QED BY <2>1, <1>3, <1>b, Zenon
<1> QED BY <1>9, <1>10, <1>11, <1>12, <1>13, <1>14, <1>15

LEMMA GoodJoin ==
  Good("join") \in Seq(Mild) /\ Bad("join") \in Seq(Mild)
<1>1. \A s, t \in Seq(Mild) : s \o t \in Seq(Mild)
  BY Parts
<1>2. /\ Newline \in Seq(Mild) /\ <<".">> \in Seq(Mild)
  BY Parts, Zenon
<1>3. /\ <<".", "A", "s">> \in Seq(Mild) /\ <<"A", "s", "!">> \in Seq(Mild)
  BY DEF Mild, Chars
<1>4. Good("join") = <<".", "A", "s">> \o Newline \o <<"A", "s", "!">> \o Newline
  BY DEF Good
<1>5. Bad("join") = <<".", "A", "s">> \o Newline \o <<".">> \o Newline
  BY DEF Bad
<1>6. <<".", "A", "s">> \o Newline \in Seq(Mild)
  BY <1>1, <1>2, <1>3, Zenon
<1>7. /\ (<<".", "A", "s">> \o Newline) \o <<"A", "s", "!">> \in Seq(Mild)
      /\ (<<".", "A", "s">> \o Newline) \o <<".">> \in Seq(Mild)
  BY <1>1, <1>2, <1>3, <1>6, Zenon
<1> QED BY <1>1, <1>2, <1>4, <1>5, <1>7, Zenon

(* What a setting is answered: an echo, and OK or a refusal.                 *)
Echo(name) == IF name = "phrase" THEN phrase ELSE <<".">>

EndsIn(t, k) ==
  /\ k \in 1 .. Len(t)
  /\ \A m \in k + 1 .. Len(t) : t[m] \notin {"A", "O", "K"}

Answers(g, e) ==
  /\ g \in Seq(Chars \ {"R"}) /\ Len(g) = Len(e) + 8
  /\ \A k \in 1 .. Len(e) : g[k] = e[k]
  /\ \A k \in Len(e) + 1 .. Len(e) + 2 : g[k] # "A" /\ g[k] # "O" /\ g[k] # "K"
  /\ g[Len(e) + 3] = "A" /\ g[Len(e) + 4] = "O" /\ g[Len(e) + 5] = "K"
  /\ \A k \in Len(e) + 6 .. Len(e) + 8 : g[k] # "A" /\ g[k] # "O" /\ g[k] # "K"

LEMMA GoodSettingChars ==
  ASSUME NEW e \in Seq({"A", "O", "K", "."}),
         NEW g, g = (((e \o Newline) \o AOK) \o Newline) \o <<"<>">>
  PROVE  Answers(g, e)
<1> DEFINE NC == Chars \ {"R"}
<1> DEFINE a == e \o Newline
           b == a \o AOK
           c == b \o Newline
           d == c \o <<"<>">>
<1>0. /\ {"A", "O", "K", "."} \subseteq NC /\ e \in Seq({"A", "O", "K", "."})
      /\ Newline = <<"CR", "LF">> /\ AOK = <<"A", "O", "K">> /\ g = d
  BY DEF Chars, Newline, AOK
<1>1. /\ e \in Seq(NC) /\ Newline \in Seq(NC) /\ AOK \in Seq(NC) /\ <<"<>">> \in Seq(NC)
  <2>1. e \in Seq(NC)
    BY <1>0, Subseqs, Zenon
  <2>2. AOK \in Seq(NC)
    BY DEF Chars, AOK
  <2>3. Newline \in Seq(NC) /\ <<"<>">> \in Seq(NC)
    <3>1. Seq(Calm) \subseteq Seq(NC)
      BY DEF Calm, Plain
    <3> QED BY <3>1, Parts, Zenon
  <2> QED BY <2>1, <2>2, <2>3
<1>2. a \in Seq(NC) /\ IsJoin(a, e, Newline)
  BY <1>1, Joins, Zenon
<1>3. b \in Seq(NC) /\ IsJoin(b, a, AOK)
  <2> HIDE DEF a
  <2> QED BY <1>1, <1>2, Joins, Zenon
<1>4. c \in Seq(NC) /\ IsJoin(c, b, Newline)
  <2> HIDE DEF b
  <2> QED BY <1>1, <1>3, Joins, Zenon
<1>5. d \in Seq(NC) /\ IsJoin(d, c, <<"<>">>)
  <2> HIDE DEF c
  <2> QED BY <1>1, <1>4, Joins, Zenon
<1> HIDE DEF a, b, c, d
<1>6. /\ Len(Newline) = 2 /\ Newline[1] = "CR" /\ Newline[2] = "LF"
      /\ Len(AOK) = 3 /\ AOK[1] = "A" /\ AOK[2] = "O" /\ AOK[3] = "K"
      /\ Len(<<"<>">>) = 1 /\ <<"<>">>[1] = "<>" /\ Len(e) \in Nat
  BY <1>0
<1>7. /\ Len(a) = Len(e) + 2 /\ \A k \in 1 .. Len(e) : a[k] = e[k]
      /\ a[Len(e) + 1] = "CR" /\ a[Len(e) + 2] = "LF"
  BY <1>2, <1>6 DEF IsJoin
<1>8. /\ Len(b) = Len(e) + 5 /\ \A k \in 1 .. Len(e) + 2 : b[k] = a[k]
      /\ b[Len(e) + 3] = "A" /\ b[Len(e) + 4] = "O" /\ b[Len(e) + 5] = "K"
  <2>1. Len(a) + 1 = Len(e) + 3 /\ Len(a) + 2 = Len(e) + 4 /\ Len(a) + 3 = Len(e) + 5
    BY <1>6, <1>7
  <2> QED BY <1>3, <1>6, <1>7, <2>1 DEF IsJoin
<1>9. /\ Len(c) = Len(e) + 7 /\ \A k \in 1 .. Len(e) + 5 : c[k] = b[k]
      /\ c[Len(e) + 6] = "CR" /\ c[Len(e) + 7] = "LF"
  <2>1. Len(b) + 1 = Len(e) + 6 /\ Len(b) + 2 = Len(e) + 7
    BY <1>6, <1>8
  <2> QED BY <1>4, <1>6, <1>8, <2>1 DEF IsJoin
<1>10. /\ Len(g) = Len(e) + 8 /\ \A k \in 1 .. Len(e) + 7 : g[k] = c[k]
       /\ g[Len(e) + 8] = "<>"
  <2>1. Len(c) + 1 = Len(e) + 8
    BY <1>6, <1>9
  <2> QED BY <1>0, <1>5, <1>6, <1>9, <2>1 DEF IsJoin
<1>11. \A k \in Len(e) + 1 .. Len(e) + 2 : g[k] # "A" /\ g[k] # "O" /\ g[k] # "K"
  <2>1. \A k \in Len(e) + 1 .. Len(e) + 2 : k = Len(e) + 1 \/ k = Len(e) + 2
    BY <1>6
  <2>0. \A k \in Len(e) + 1 .. Len(e) + 2 : k \in 1 .. Len(e) + 7 /\ k \in 1 .. Len(e) + 5 /\ k \in 1 .. Len(e) + 2
    BY <1>6
  <2>k. Len(e) + 1 \in Len(e) + 1 .. Len(e) + 2 /\ Len(e) + 2 \in Len(e) + 1 .. Len(e) + 2
    BY <1>6
  <2>2. g[Len(e) + 1] = "CR" /\ g[Len(e) + 2] = "LF"
    BY <1>7, <1>8, <1>9, <1>10, <2>0, <2>k, Zenon
  <2> QED BY <2>1, <2>2
<1>12. \A k \in Len(e) + 6 .. Len(e) + 8 : g[k] # "A" /\ g[k] # "O" /\ g[k] # "K"
  <2>1. \A k \in Len(e) + 6 .. Len(e) + 8 : k = Len(e) + 6 \/ k = Len(e) + 7 \/ k = Len(e) + 8
    BY <1>6
  <2>2. Len(e) + 6 \in 1 .. Len(e) + 7 /\ Len(e) + 7 \in 1 .. Len(e) + 7
    BY <1>6
  <2>3. g[Len(e) + 6] = "CR" /\ g[Len(e) + 7] = "LF" /\ g[Len(e) + 8] = "<>"
    BY <1>9, <1>10, <2>2, Zenon
  <2>4. "CR" \notin {"A", "O", "K"} /\ "LF" \notin {"A", "O", "K"} /\ "<>" \notin {"A", "O", "K"}
    OBVIOUS
  <2> QED BY <2>1, <2>3, <2>4
<1>13. g[Len(e) + 3] = "A" /\ g[Len(e) + 4] = "O" /\ g[Len(e) + 5] = "K"
  <2>1. \A k \in Len(e) + 3 .. Len(e) + 5 : k \in 1 .. Len(e) + 7 /\ k \in 1 .. Len(e) + 5
    BY <1>6
  <2>2. /\ Len(e) + 3 \in Len(e) + 3 .. Len(e) + 5 /\ Len(e) + 4 \in Len(e) + 3 .. Len(e) + 5
        /\ Len(e) + 5 \in Len(e) + 3 .. Len(e) + 5
    BY <1>6
  <2> QED BY <1>8, <1>9, <1>10, <2>1, <2>2, Zenon
<1>14. \A k \in 1 .. Len(e) : g[k] = e[k]
  BY <1>6, <1>7, <1>8, <1>9, <1>10
<1>15. g \in Seq(NC)
  BY <1>0, <1>5
<1> QED BY <1>10, <1>11, <1>12, <1>13, <1>14, <1>15 DEF Answers

LEMMA GoodSetting ==
  ASSUME phrase \in Seq({"A", "O", "K", "."}), NEW name \in Settings
  PROVE  /\ Good(name) \in Seq(Chars \ {"R"}) /\ EndsIn(Good(name), Len(Good(name)) - 3)
         /\ name = "set" => \A k \in 1 .. Len(Good(name)) : Good(name)[k] = "K" => k = Len(Good(name)) - 3
         /\ name = "phrase" /\ ~Spells(phrase) =>
              \A i, j, k \in 1 .. Len(Good(name)) :
                i < j /\ j < k /\ Good(name)[i] = "A" /\ Good(name)[j] = "O" /\ Good(name)[k] = "K"
                  => k = Len(Good(name)) - 3
<1> DEFINE e == Echo(name)
<1>1. e \in Seq({"A", "O", "K", "."})
  <2>1. <<".">> \in Seq({"A", "O", "K", "."})
    OBVIOUS
  <2> QED BY <2>1, Zenon DEF Echo
<1>2. Good(name) = (((e \o Newline) \o AOK) \o Newline) \o <<"<>">>
  <2>1. CASE name = "phrase"
    BY <2>1 DEF Good, Echo, AOK
  <2>2. CASE name = "set"
    BY <2>2 DEF Good, Echo, AOK
  <2> QED BY <2>1, <2>2 DEF Settings
<1>3. PICK g : g = Good(name)
  OBVIOUS
<1> HIDE DEF e
<1>a. Answers(g, e)
  BY <1>1, <1>2, <1>3, GoodSettingChars, Zenon
<1>4. /\ g \in Seq(Chars \ {"R"}) /\ Len(g) = Len(e) + 8
      /\ \A k \in 1 .. Len(e) : g[k] = e[k]
      /\ \A k \in Len(e) + 1 .. Len(e) + 2 : g[k] # "A" /\ g[k] # "O" /\ g[k] # "K"
      /\ g[Len(e) + 3] = "A" /\ g[Len(e) + 4] = "O" /\ g[Len(e) + 5] = "K"
      /\ \A k \in Len(e) + 6 .. Len(e) + 8 : g[k] # "A" /\ g[k] # "O" /\ g[k] # "K"
  BY <1>a DEF Answers
<1>5. Len(e) \in Nat
  BY <1>1
<1>6. EndsIn(g, Len(g) - 3)
  BY <1>4, <1>5 DEF EndsIn
<1>7. \A k \in 1 .. Len(g) : g[k] = "K" => k = Len(g) - 3 \/ (k \in 1 .. Len(e) /\ e[k] = "K")
  <2> TAKE k \in 1 .. Len(g)
  <2>1. \/ k \in 1 .. Len(e) \/ k \in Len(e) + 1 .. Len(e) + 2 \/ k = Len(e) + 3
        \/ k = Len(e) + 4 \/ k = Len(e) + 5 \/ k \in Len(e) + 6 .. Len(e) + 8
    BY <1>4, <1>5
  <2>2. Len(g) - 3 = Len(e) + 5
    BY <1>4, <1>5
  <2>3. "A" # "K" /\ "O" # "K"
    OBVIOUS
  <2> QED BY <1>4, <2>1, <2>2, <2>3, Zenon
<1>8. name = "set" => \A k \in 1 .. Len(g) : g[k] = "K" => k = Len(g) - 3
  <2>1. name = "set" => e = <<".">>
    BY DEF e, Echo
  <2>2. \A k \in 1 .. Len(<<".">>) : <<".">>[k] # "K"
    OBVIOUS
  <2> QED BY <1>7, <2>1, <2>2, Zenon
<1>9. ASSUME name = "phrase", ~Spells(phrase), NEW i \in 1 .. Len(g), NEW j \in 1 .. Len(g), NEW k \in 1 .. Len(g),
             i < j, j < k, g[i] = "A", g[j] = "O", g[k] = "K"
      PROVE  k = Len(g) - 3
  <2>1. e = phrase
    BY <1>9 DEF e, Echo
  <2>2. ASSUME k \in 1 .. Len(e) PROVE FALSE
    <3>1. i \in 1 .. Len(e) /\ j \in 1 .. Len(e)
      BY <1>5, <1>9, <2>2
    <3>2. e[i] = "A" /\ e[j] = "O" /\ e[k] = "K"
      BY <1>4, <1>9, <2>2, <3>1
    <3> QED BY <1>9, <2>1, <2>2, <3>1, <3>2 DEF Spells
  <2> QED BY <1>7, <1>9, <2>2
<1> QED BY <1>3, <1>4, <1>6, <1>8, <1>9

LEMMA BadSetting ==
  ASSUME phrase \in Seq({"A", "O", "K", "."})
  PROVE  /\ Bad("set") \in Seq(Plain)
         /\ Bad("phrase") \in Seq(Chars) /\ (Spells(Bad("phrase")) => Spells(phrase))
<1> DEFINE r == Newline \o (ERR \o (<<".">> \o (Newline \o <<"<>">>)))
<1>1. ERR \in Seq(Plain)
  BY DEF ERR, Plain, Chars
<1>2. /\ <<"<>">> \in Seq(Plain) /\ Newline \in Seq(Plain) /\ <<".">> \in Seq(Plain)
      /\ \A s, t \in Seq(Plain) : s \o t \in Seq(Plain)
  BY Parts, Zenon
<1>3. Bad("set") \in Seq(Plain)
  <2>1. Bad("set") = <<".">> \o Newline \o ERR \o <<".">> \o Newline \o <<"<>">>
    BY DEF Bad
  <2>2. (<<".">> \o Newline) \o ERR \in Seq(Plain)
    BY <1>1, <1>2, Zenon
  <2>3. (((<<".">> \o Newline) \o ERR) \o <<".">>) \o Newline \in Seq(Plain)
    BY <1>2, <2>2, Zenon
  <2> QED BY <1>2, <2>1, <2>3, Zenon
<1>4. Bad("phrase") = ((((phrase \o Newline) \o ERR) \o <<".">>) \o Newline) \o <<"<>">>
  BY DEF Bad
<1>5. \A a \in Seq({"A", "O", "K", "."}) : a \in Seq(Chars)
  BY DEF Chars
<1>6. \A q \in Seq(Plain) : q \in Seq(Chars)
  BY Parts, Zenon
<1>7. \A a \in Seq(Chars), q \in Seq(Plain) : a \o q \in Seq(Chars) /\ (Spells(a \o q) => Spells(a))
  <2> TAKE a \in Seq(Chars), q \in Seq(Plain)
  <2>0. PICK b : b = a \o q
    OBVIOUS
  <2>1. b \in Seq(Chars) /\ IsJoin(b, a, q)
    BY <1>6, <2>0, Joins, Zenon
  <2>2. \A k \in 1 .. Len(q) : q[k] # "A" /\ q[k] # "O" /\ q[k] # "K"
    BY DEF Plain
  <2>3. \A k \in 1 .. Len(b) : b[k] \in {"A", "O", "K"} => k \in 1 .. Len(a) /\ a[k] = b[k]
    <3> TAKE k \in 1 .. Len(b)
    <3>1. CASE k <= Len(a)
      BY <2>1, <3>1 DEF IsJoin
    <3>2. CASE k > Len(a)
      <4>1. k - Len(a) \in 1 .. Len(q) /\ Len(a) + (k - Len(a)) = k
        BY <2>1, <3>2 DEF IsJoin
      <4>2. b[k] = q[k - Len(a)]
        BY <2>1, <4>1 DEF IsJoin
      <4> QED BY <2>2, <4>1, <4>2
    <3> QED BY <3>1, <3>2
  <2>4. Spells(b) => Spells(a)
    BY <2>3 DEF Spells
  <2> QED BY <2>0, <2>1, <2>4
<1>8. /\ Bad("phrase") \in Seq(Chars) /\ (Spells(Bad("phrase")) => Spells(phrase))
  <2> DEFINE a == phrase \o Newline
             b == a \o ERR
             c == b \o <<".">>
             d == c \o Newline
  <2>0. phrase \in Seq(Chars)
    BY <1>5
  <2>1. a \in Seq(Chars) /\ (Spells(a) => Spells(phrase))
    BY <1>2, <1>7, <2>0, Zenon
  <2>2. b \in Seq(Chars) /\ (Spells(b) => Spells(a))
    BY <1>1, <1>7, <2>1, Zenon
  <2>3. c \in Seq(Chars) /\ (Spells(c) => Spells(b))
    BY <1>2, <1>7, <2>2, Zenon
  <2>4. d \in Seq(Chars) /\ (Spells(d) => Spells(c))
    BY <1>2, <1>7, <2>3, Zenon
  <2>5. d \o <<"<>">> \in Seq(Chars) /\ (Spells(d \o <<"<>">>) => Spells(d))
    BY <1>2, <1>7, <2>4, Zenon
  <2> QED BY <1>4, <2>1, <2>2, <2>3, <2>4, <2>5, Zenon
<1> QED BY <1>3, <1>8
-----------------------------------------------------------------------------
(* What an answer adds to the characters on their way.                       *)
IsSaid(q, t) == Len(q) = Len(t) /\ \A i \in 1 .. Len(t) : q[i].c = t[i]
IsOf(q, f) == \A i \in 1 .. Len(q) : q[i].of = f
NotLoud(t, s) == \A i \in 1 .. Len(t) : t[i] \notin Loud(s)

LEMMA Said ==
  ASSUME NEW t \in Seq(Chars), NEW n \in Nat, NEW f \in 1 .. n
  PROVE  /\ [i \in DOMAIN t |-> [c |-> t[i], of |-> f]] \in Seq([c : Chars, of : 1 .. n])
         /\ IsSaid([i \in DOMAIN t |-> [c |-> t[i], of |-> f]], t)
         /\ IsOf([i \in DOMAIN t |-> [c |-> t[i], of |-> f]], f)
<1> DEFINE q == [i \in DOMAIN t |-> [c |-> t[i], of |-> f]]
<1>1. \A i \in 1 .. Len(t) : [c |-> t[i], of |-> f] \in [c : Chars, of : 1 .. n]
  OBVIOUS
<1>2. DOMAIN t = 1 .. Len(t) /\ Len(t) \in Nat
  OBVIOUS
<1>3. q \in [1 .. Len(t) -> [c : Chars, of : 1 .. n]]
  BY <1>1, <1>2
<1>4. q \in Seq([c : Chars, of : 1 .. n]) /\ Len(q) = Len(t)
  <2> DEFINE S == [c : Chars, of : 1 .. n]
  <2>0. q \in [1 .. Len(t) -> S]
    BY <1>3
  <2> HIDE DEF q, S
  <2>1. q \in Seq(S) /\ Len(q) = Len(t)
    BY <1>2, <2>0
  <2> QED BY <2>1 DEF S
<1>5. \A i \in 1 .. Len(t) : q[i].c = t[i] /\ q[i].of = f
  BY <1>2
<1> QED BY <1>4, <1>5 DEF IsSaid, IsOf

LEMMA QuietTexts ==
  ASSUME NEW s \in Nat
  PROVE  /\ \A t \in Seq(Plain) : NotLoud(t, s)
         /\ s > 14 => \A t \in Seq(Mild) : NotLoud(t, s)
<1>1. \A t \in Seq(Plain) : NotLoud(t, s)
  BY DEF NotLoud, Plain, Loud
<1>2. ASSUME s > 14, NEW t \in Seq(Mild) PROVE NotLoud(t, s)
  BY <1>2 DEF NotLoud, Mild, Loud
<1> QED BY <1>1, <1>2

IsAdded(a, p, t) ==
  /\ Len(p) \in Nat /\ Len(t) \in Nat /\ Len(a) = Len(p) + Len(t)
  /\ \A i \in 1 .. Len(p) : a[i] = p[i]
  /\ \A i \in 1 .. Len(a) : i > Len(p) => i - Len(p) \in 1 .. Len(t) /\ a[i].c = t[i - Len(p)]

LEMMA AddParts ==
  ASSUME NEW R, NEW p \in Seq(R), NEW q \in Seq(R), NEW t, IsSaid(q, t), NEW a, a = p \o q
  PROVE  IsAdded(a, p, t)
<1>1. IsJoin(a, p, q)
  BY Joins, Zenon
<1>2. /\ Len(q) = Len(t) /\ Len(p) \in Nat /\ Len(q) \in Nat
      /\ \A i \in 1 .. Len(q) : q[i].c = t[i]
  BY DEF IsSaid
<1>3. /\ Len(a) = Len(p) + Len(q)
      /\ \A i \in 1 .. Len(p) : a[i] = p[i]
      /\ \A i \in 1 .. Len(q) : a[Len(p) + i] = q[i]
  BY <1>1 DEF IsJoin
<1>4. ASSUME NEW i \in 1 .. Len(a), i > Len(p)
      PROVE  i - Len(p) \in 1 .. Len(t) /\ a[i].c = t[i - Len(p)]
  <2>1. i - Len(p) \in 1 .. Len(q) /\ Len(p) + (i - Len(p)) = i
    BY <1>2, <1>3, <1>4
  <2>2. a[i] = q[i - Len(p)]
    BY <1>3, <2>1
  <2> QED BY <1>2, <2>1, <2>2
<1> QED BY <1>2, <1>3, <1>4 DEF IsAdded

LEMMA LoudNew ==
  ASSUME NEW a, NEW p, NEW t, NEW s, IsAdded(a, p, t), Quiet(p, s)
  PROVE  \A i \in 1 .. Len(a) :
           a[i].c \in Loud(s) => i > Len(p) /\ i - Len(p) \in 1 .. Len(t) /\ t[i - Len(p)] = a[i].c
<1> TAKE i \in 1 .. Len(a)
<1>1. i <= Len(p) => i \in 1 .. Len(p)
  BY DEF IsAdded
<1> QED BY <1>1 DEF IsAdded, Quiet

LEMMA AddQuiet ==
  ASSUME NEW R, NEW p \in Seq(R), NEW q \in Seq(R), NEW t, IsSaid(q, t), NEW s \in Nat
  PROVE  /\ Quiet(p, s) /\ NotLoud(t, s) => Quiet(p \o q, s)
         /\ NoR(p) /\ (\A i \in 1 .. Len(t) : t[i] # "R") => NoR(p \o q)
<1>0. PICK a : a = p \o q
  OBVIOUS
<1>a. IsAdded(a, p, t)
  BY <1>0, AddParts, Zenon
<1>1. /\ Len(p) \in Nat /\ Len(t) \in Nat /\ Len(a) = Len(p) + Len(t)
      /\ \A i \in 1 .. Len(p) : a[i] = p[i]
      /\ \A i \in 1 .. Len(a) : i > Len(p) => i - Len(p) \in 1 .. Len(t) /\ a[i].c = t[i - Len(p)]
  BY <1>a DEF IsAdded
<1>2. \A i \in 1 .. Len(a) : \/ (i \in 1 .. Len(p) /\ a[i] = p[i])
                            \/ (i - Len(p) \in 1 .. Len(t) /\ a[i].c = t[i - Len(p)])
  BY <1>1
<1>3. Quiet(p, s) /\ NotLoud(t, s) => Quiet(a, s)
  BY <1>2, Zenon DEF Quiet, NotLoud
<1>4. NoR(p) /\ (\A i \in 1 .. Len(t) : t[i] # "R") => NoR(a)
  BY <1>2, Zenon DEF NoR
<1> QED BY <1>0, <1>3, <1>4

LEMMA QuietOnce ==
  ASSUME NEW p, NEW o, NEW s, NEW taken, Quiet(p, s)
  PROVE  Once(p, o, s, taken)
BY DEF Quiet, Once, Completes, Loud

LEMMA AddOnce ==
  ASSUME NEW R, NEW p \in Seq(R), NEW q \in Seq(R), NEW t, IsSaid(q, t), NEW s \in Nat,
         NEW o \in Nat, NEW taken, Once(p, o, s, taken), NotLoud(t, s)
  PROVE  Once(p \o q, o, s, taken)
<1>0. PICK a : a = p \o q
  OBVIOUS
<1>a. IsAdded(a, p, t)
  BY <1>0, AddParts, Zenon
<1>1. /\ Len(p) \in Nat /\ Len(t) \in Nat /\ Len(a) = Len(p) + Len(t)
      /\ \A i \in 1 .. Len(p) : a[i] = p[i]
      /\ \A i \in 1 .. Len(a) : i > Len(p) => i - Len(p) \in 1 .. Len(t) /\ a[i].c = t[i - Len(p)]
  BY <1>a DEF IsAdded
<1>2. \A i \in 1 .. Len(a) : i > Len(p) => a[i].c \notin Loud(s)
  BY <1>1 DEF NotLoud
<1>3. ASSUME NEW k \in 1 .. Len(a), Completes(a, o, k)
      PROVE  taken /\ \A m \in k + 1 .. Len(a) : a[m].c \notin Loud(s)
  <2>1. a[k].c = "K" /\ "K" \in Loud(s)
    BY <1>3 DEF Completes, Loud
  <2>2. k \in 1 .. Len(p)
    BY <1>1, <1>2, <2>1
  <2>3. \A i \in 1 .. k : a[i] = p[i]
    BY <1>1, <2>2
  <2>c. /\ a[k].c = "K"
        /\ o < 2 => \E j \in 1 .. k - 1 :
                      /\ a[j].c = "O"
                      /\ o < 1 => \E i \in 1 .. j - 1 : a[i].c = "A"
    BY <1>3 DEF Completes
  <2>j. \A j \in 1 .. k - 1 : j \in 1 .. k /\ \A i \in 1 .. j - 1 : i \in 1 .. k
    BY <2>2
  <2>p. p[k].c = "K"
    BY <2>2, <2>3, <2>c
  <2>4. Completes(p, o, k)
    BY <2>3, <2>c, <2>j, <2>p, Zenon DEF Completes
  <2>5. taken /\ \A m \in k + 1 .. Len(p) : p[m].c \notin Loud(s)
    BY <2>2, <2>4 DEF Once
  <2>6. \A m \in k + 1 .. Len(a) : (m \in k + 1 .. Len(p) /\ a[m] = p[m]) \/ m > Len(p)
    BY <1>1, <2>2
  <2>7. \A m \in k + 1 .. Len(a) : m \in 1 .. Len(a)
    BY <1>1
  <2> QED BY <1>2, <2>5, <2>6, <2>7, Zenon
<1> QED BY <1>0, <1>3 DEF Once

LEMMA GoodOnce ==
  ASSUME NEW R, NEW p \in Seq(R), NEW q \in Seq(R), NEW name \in Settings,
         phrase \in Seq({"A", "O", "K", "."}), ~Spells(phrase),
         IsSaid(q, Good(name)), NEW s \in Nat, NEW o \in 0 .. 1, Quiet(p, s),
         name = "phrase" => s <= 14 /\ o = 0
  PROVE  Once(p \o q, o, s, TRUE)
<1>0. PICK a : a = p \o q
  OBVIOUS
<1>t. PICK t : t = Good(name)
  OBVIOUS
<1>a. IsAdded(a, p, t)
  BY <1>0, <1>t, AddParts, Zenon
<1>1. /\ Len(p) \in Nat /\ Len(t) \in Nat /\ Len(a) = Len(p) + Len(t)
      /\ \A i \in 1 .. Len(p) : a[i] = p[i]
      /\ \A i \in 1 .. Len(a) : i > Len(p) => i - Len(p) \in 1 .. Len(t) /\ a[i].c = t[i - Len(p)]
  BY <1>a DEF IsAdded
<1>b. \A i \in 1 .. Len(a) :
        a[i].c \in Loud(s) => i > Len(p) /\ i - Len(p) \in 1 .. Len(t) /\ t[i - Len(p)] = a[i].c
  BY <1>a, LoudNew, Zenon
<1>2. /\ EndsIn(t, Len(t) - 3)
      /\ name = "set" => \A k \in 1 .. Len(t) : t[k] = "K" => k = Len(t) - 3
      /\ name = "phrase" =>
           \A i, j, k \in 1 .. Len(t) :
             i < j /\ j < k /\ t[i] = "A" /\ t[j] = "O" /\ t[k] = "K" => k = Len(t) - 3
  BY <1>t, GoodSetting, Zenon
<1>3. ASSUME NEW k \in 1 .. Len(a), Completes(a, o, k)
      PROVE  \A m \in k + 1 .. Len(a) : a[m].c \notin Loud(s)
  <2>1. a[k].c = "K" /\ "K" \in Loud(s)
    BY <1>3 DEF Completes, Loud
  <2>2. k > Len(p) /\ k - Len(p) \in 1 .. Len(t) /\ t[k - Len(p)] = "K"
    BY <1>b, <2>1, Zenon
  <2>3. k - Len(p) = Len(t) - 3
    <3>1. CASE name = "set"
      BY <1>2, <2>2, <3>1
    <3>2. CASE name = "phrase"
      <4>1. "O" \in Loud(s) /\ "A" \in Loud(s) /\ o = 0
        BY <3>2 DEF Loud
      <4>2. PICK j \in 1 .. k - 1 : a[j].c = "O" /\ \E i \in 1 .. j - 1 : a[i].c = "A"
        BY <1>3, <4>1, 0 < 2, 0 < 1, Zenon DEF Completes
      <4>3. PICK i \in 1 .. j - 1 : a[i].c = "A"
        BY <4>2
      <4>m. i \in 1 .. Len(a) /\ j \in 1 .. Len(a)
        BY <1>1
      <4>4. j > Len(p) /\ j - Len(p) \in 1 .. Len(t) /\ t[j - Len(p)] = "O"
        BY <1>b, <4>1, <4>2, <4>m, Zenon
      <4>5. i > Len(p) /\ i - Len(p) \in 1 .. Len(t) /\ t[i - Len(p)] = "A"
        BY <1>b, <4>1, <4>3, <4>m, Zenon
      <4>6. i - Len(p) < j - Len(p) /\ j - Len(p) < k - Len(p)
        BY <1>1, <4>2, <4>3
      <4> QED BY <1>2, <2>2, <3>2, <4>4, <4>5, <4>6
    <3> QED BY <3>1, <3>2 DEF Settings
  <2>4. ASSUME NEW m \in k + 1 .. Len(a) PROVE a[m].c \notin Loud(s)
    <3>1. m \in 1 .. Len(a) /\ m > Len(p) /\ m - Len(p) \in (Len(t) - 3) + 1 .. Len(t)
      BY <1>1, <2>2, <2>3
    <3>2. a[m].c = t[m - Len(p)] /\ t[m - Len(p)] \notin {"A", "O", "K"}
      BY <1>1, <1>2, <3>1 DEF EndsIn
    <3> QED BY <3>2 DEF Loud
  <2> QED BY <2>4
<1> QED BY <1>0, <1>3 DEF Once

LEMMA BadOnce ==
  ASSUME NEW R, NEW p \in Seq(R), NEW q \in Seq(R), NEW t, IsSaid(q, t), ~Spells(t),
         NEW s \in Nat, s <= 14, Quiet(p, s), NEW taken
  PROVE  Once(p \o q, 0, s, taken)
<1>0. PICK a : a = p \o q
  OBVIOUS
<1>a. IsAdded(a, p, t)
  BY <1>0, AddParts, Zenon
<1>1. /\ Len(p) \in Nat /\ Len(t) \in Nat /\ Len(a) = Len(p) + Len(t)
      /\ \A i \in 1 .. Len(p) : a[i] = p[i]
      /\ \A i \in 1 .. Len(a) : i > Len(p) => i - Len(p) \in 1 .. Len(t) /\ a[i].c = t[i - Len(p)]
  BY <1>a DEF IsAdded
<1>b. \A i \in 1 .. Len(a) :
        a[i].c \in Loud(s) => i > Len(p) /\ i - Len(p) \in 1 .. Len(t) /\ t[i - Len(p)] = a[i].c
  BY <1>a, LoudNew, Zenon
<1>2. ASSUME NEW k \in 1 .. Len(a), Completes(a, 0, k) PROVE FALSE
  <2>1. "A" \in Loud(s) /\ "O" \in Loud(s) /\ "K" \in Loud(s)
    BY DEF Loud
  <2>2. PICK j \in 1 .. k - 1 : a[j].c = "O" /\ \E i \in 1 .. j - 1 : a[i].c = "A"
    BY <1>2 DEF Completes
  <2>3. PICK i \in 1 .. j - 1 : a[i].c = "A"
    BY <2>2
  <2>m. i \in 1 .. Len(a) /\ j \in 1 .. Len(a)
    BY <1>1
  <2>4. a[k].c = "K"
    BY <1>2 DEF Completes
  <2>5. k > Len(p) /\ k - Len(p) \in 1 .. Len(t) /\ t[k - Len(p)] = "K"
    BY <1>b, <2>1, <2>4, Zenon
  <2>6. j > Len(p) /\ j - Len(p) \in 1 .. Len(t) /\ t[j - Len(p)] = "O"
    BY <1>b, <2>1, <2>2, <2>m, Zenon
  <2>7. i > Len(p) /\ i - Len(p) \in 1 .. Len(t) /\ t[i - Len(p)] = "A"
    BY <1>b, <2>1, <2>3, <2>m, Zenon
  <2>8. i - Len(p) < j - Len(p) /\ j - Len(p) < k - Len(p)
    BY <1>1, <2>2, <2>3
  <2> QED BY <2>5, <2>6, <2>7, <2>8 DEF Spells
<1> QED BY <1>0, <1>2 DEF Once
-----------------------------------------------------------------------------
(* Types.                                                                    *)
CharsOf(n) == Seq([c : Chars, of : 1 .. n])
CommandsOf(n) == Seq([name : Names, of : 1 .. n])
Phases == {"send", "wait", "swallow", "line", "flush", "joined", "failed"}

TypesOf(ph, st, o, e, cs, q1, q2, q3) ==
  /\ ph \in Phases /\ st \in 1 .. 22
  /\ o \in 0 .. Len(Script[st].wait) /\ e \in 0 .. 3
  /\ cs \in CommandsOf(st)
  /\ q1 \in CharsOf(st) /\ q2 \in CharsOf(st) /\ q3 \in CharsOf(st)

LEMMA TypeIs ==
  WiFlyTypeOK <=>
    /\ phrase \in Phrases /\ online \in BOOLEAN /\ refused \subseteq 1 .. step
    /\ TypesOf(phase, step, offset, errOffset, commands, out, fifo, reply)
<1>1. Len(Script) = 22
  BY ScriptIs
<1>2. \A a, b, c, S : {a, b, c} \subseteq S <=> a \in S /\ b \in S /\ c \in S
  OBVIOUS
<1> QED BY <1>1, <1>2, Zenon DEF WiFlyTypeOK, TypesOf, CharsOf, CommandsOf, Phases, Now

LEMMA StepIs ==
  WiFlyTypeOK => step \in 1 .. 22 /\ step \in Nat /\ step <= step /\ offset \in Nat
<1> SUFFICES ASSUME WiFlyTypeOK
             PROVE  step \in 1 .. 22 /\ step \in Nat /\ step <= step /\ offset \in Nat
  OBVIOUS
<1>1. step \in 1 .. 22 /\ offset \in 0 .. Len(Now.wait)
  BY TypeIs, Zenon DEF TypesOf, Now
<1> QED BY <1>1

LEMMA TypeNext ==
  ASSUME phrase' \in Phrases, online' \in BOOLEAN, refused' \subseteq 1 .. step',
         TypesOf(phase, step, offset, errOffset, commands, out, fifo, reply)'
  PROVE  WiFlyTypeOK'
<1>1. Len(Script) = 22
  BY ScriptIs
<1>2. \A a, b, c, S : {a, b, c} \subseteq S <=> a \in S /\ b \in S /\ c \in S
  OBVIOUS
<1>3. Now' = Script[step']
  BY DEF Now
<1> QED BY <1>1, <1>2, <1>3, Zenon DEF WiFlyTypeOK, TypesOf, CharsOf, CommandsOf, Phases

LEMMA Grow ==
  ASSUME NEW m \in Nat, NEW n \in Nat, m <= n
  PROVE  CharsOf(m) \subseteq CharsOf(n) /\ CommandsOf(m) \subseteq CommandsOf(n)
<1>1. [c : Chars, of : 1 .. m] \subseteq [c : Chars, of : 1 .. n]
  OBVIOUS
<1>2. [name : Names, of : 1 .. m] \subseteq [name : Names, of : 1 .. n]
  OBVIOUS
<1> QED BY <1>1, <1>2, Subseqs, Zenon DEF CharsOf, CommandsOf

LEMMA ZeroFits == \A s \in 1 .. 22 : 0 \in 0 .. Len(Script[s].wait)
<1>1. \A q \in Seq(Chars) : 0 \in 0 .. Len(q)
  OBVIOUS
<1> QED BY <1>1, StepTypes, Zenon

(* The program is done with a step, or with the wait of it.                  *)
Moved ==
  /\ step' \in 1 .. 22 /\ (step' = step \/ step' = step + 1)
  /\ phase' \in {"send", "joined", "flush", "line"}
  /\ phase' = "send" => step' = step + 1 /\ offset' = 0 /\ errOffset' = 0
  /\ phase' # "send" => step' = step
  /\ phase' = "joined" => step = 22
  /\ offset' \in 0 .. Len(Script[step'].wait) /\ errOffset' \in 0 .. 3
  /\ reply' \in CharsOf(step)

LEMMA GotoMoves ==
  ASSUME WiFlyTypeOK, Goto(step + 1)
  PROVE  Moved
<1>1. step \in 1 .. 22 /\ Len(Script) = 22
  BY TypeIs, ScriptIs DEF TypesOf
<1>2. offset' = 0 /\ errOffset' = 0 /\ reply' = << >>
  BY Zenon DEF Goto
<1>3. reply' \in CharsOf(step)
  BY <1>2, Tuples, Zenon DEF CharsOf
<1>4. \A s \in 1 .. 22 : 0 \in 0 .. Len(Script[s].wait)
  BY ZeroFits
<1>5. CASE step + 1 > Len(Script)
  <2>1. phase' = "joined" /\ step' = step
    BY <1>5, Zenon DEF Goto
  <2> QED BY <1>1, <1>2, <1>3, <1>4, <1>5, <2>1 DEF Moved
<1>6. CASE ~(step + 1 > Len(Script))
  <2>1. phase' = "send" /\ step' = step + 1
    BY <1>6, Zenon DEF Goto
  <2>2. step' \in 1 .. 22
    BY <1>1, <1>6, <2>1
  <2>3. phase' # "joined" /\ 0 \in 0 .. 3
    BY <2>1
  <2> QED BY <1>2, <1>3, <1>4, <2>1, <2>2, <2>3, Zenon DEF Moved
<1> QED BY <1>5, <1>6

LEMMA AfterMoves ==
  ASSUME WiFlyTypeOK, After
  PROVE  Moved
<1>1. CASE Now.then = "next"
  <2>1. Goto(step + 1)
    BY <1>1, Zenon DEF After
  <2> QED BY <2>1, GotoMoves
<1>2. CASE Now.then # "next"
  <2>1. /\ phase' = Now.then /\ step' = step /\ offset' = offset
        /\ errOffset' = errOffset /\ reply' = reply
    BY <1>2, Zenon DEF After
  <2>2. /\ step \in 1 .. 22 /\ offset \in 0 .. Len(Script[step].wait) /\ errOffset \in 0 .. 3
        /\ reply \in CharsOf(step)
    BY TypeIs DEF TypesOf
  <2>3. Now.then \in {"flush", "line"}
    BY <1>2, <2>2, StepTypes DEF Now
  <2>4. /\ step' \in 1 .. 22 /\ (step' = step \/ step' = step + 1)
        /\ offset' \in 0 .. Len(Script[step'].wait) /\ errOffset' \in 0 .. 3
        /\ reply' \in CharsOf(step)
    BY <2>1, <2>2, Zenon
  <2>5. phase' = "flush" \/ phase' = "line"
    BY <2>1, <2>3
  <2>6. phase' # "send" /\ phase' # "joined" /\ phase' \in {"send", "joined", "flush", "line"}
    BY <2>5
  <2>7. step' = step
    BY <2>1
  <2>8. /\ phase' = "send" => step' = step + 1 /\ offset' = 0 /\ errOffset' = 0
        /\ phase' # "send" => step' = step
    BY <2>6, <2>7, Zenon
  <2>9. phase' = "joined" => step = 22
    BY <2>6, Zenon
  <2> QED BY <2>4, <2>6, <2>8, <2>9, Zenon DEF Moved
<1> QED BY <1>1, <1>2

LEMMA InitType == WiFlyInit => WiFlyTypeOK /\ TurnInv
<1> SUFFICES ASSUME WiFlyInit PROVE WiFlyTypeOK /\ TurnInv
  OBVIOUS
<1>1. << >> \in CharsOf(1) /\ << >> \in CommandsOf(1)
  BY Tuples, Zenon DEF CharsOf, CommandsOf
<1>2. 0 \in 0 .. Len(Script[1].wait)
  BY ZeroFits, 1 \in 1 .. 22, Zenon
<1>3. TypesOf(phase, step, offset, errOffset, commands, out, fifo, reply)
  BY <1>1, <1>2 DEF WiFlyInit, TypesOf, Phases
<1>4. phrase \in Phrases /\ online \in BOOLEAN /\ refused \subseteq 1 .. step
  BY DEF WiFlyInit
<1>5. TurnInv
  BY DEF WiFlyInit, TurnInv
<1> QED BY <1>3, <1>4, <1>5, TypeIs

LEMMA SendTypes ==
  ASSUME WiFlyTypeOK, TurnInv, Send
  PROVE  /\ WiFlyTypeOK' /\ TurnInv'
         /\ \/ Now.wait = << >> /\ Moved
            \/ /\ Now.wait # << >> /\ phase' = "wait" /\ step' = step
               /\ offset' = 0 /\ errOffset' = 0
         /\ \E n \in CommandsOf(step) : /\ commands' = commands \o n /\ Len(n) = Len(Now.send)
                                       /\ \A i \in 1 .. Len(n) : n[i].name = Now.send[i] /\ n[i].of = step
<1> DEFINE n == [i \in DOMAIN Now.send |-> [name |-> Now.send[i], of |-> step]]
<1>0. /\ step \in 1 .. 22 /\ commands \in CommandsOf(step) /\ out \in CharsOf(step) /\ fifo \in CharsOf(step)
      /\ reply \in CharsOf(step) /\ refused \subseteq 1 .. step /\ phrase \in Phrases /\ online \in BOOLEAN
  BY TypeIs DEF TypesOf
<1>1. /\ phase = "send" /\ commands' = commands \o n /\ phrase' = phrase /\ out' = out
      /\ fifo' = fifo /\ online' = online /\ refused' = refused
  BY DEF Send
<1>2. Now.send \in Seq(Names) /\ Now.wait \in Seq(Chars)
  BY <1>0, StepTypes DEF Now
<1>3. /\ n \in CommandsOf(step) /\ Len(n) = Len(Now.send)
      /\ \A i \in 1 .. Len(n) : n[i].name = Now.send[i] /\ n[i].of = step
  <2>1. PICK q \in Seq(Names) : q = Now.send
    BY <1>2
  <2>2. [i \in DOMAIN q |-> [name |-> q[i], of |-> step]] \in [1 .. Len(q) -> [name : Names, of : 1 .. step]]
    BY <1>0
  <2>3. PICK m : m = [i \in DOMAIN q |-> [name |-> q[i], of |-> step]]
    OBVIOUS
  <2>4. m = n
    BY <2>1, <2>3
  <2>5. m \in CommandsOf(step) /\ Len(m) = Len(q)
    BY <2>2, <2>3 DEF CommandsOf
  <2>6. \A i \in 1 .. Len(q) : m[i].name = q[i] /\ m[i].of = step
    BY <2>3
  <2> QED BY <2>1, <2>4, <2>5, <2>6
<1> HIDE DEF n
<1>4. commands' \in CommandsOf(step)
  BY <1>0, <1>1, <1>3, Joins, Zenon DEF CommandsOf
<1>5. CASE Now.wait = << >>
  <2>1. After
    BY <1>5, Zenon DEF Send
  <2>2. Moved
    BY <2>1, AfterMoves
  <2>3. step' \in 1 .. 22 /\ step <= step' /\ reply' \in CharsOf(step)
    BY <1>0, <2>2 DEF Moved
  <2>4. CharsOf(step) \subseteq CharsOf(step') /\ CommandsOf(step) \subseteq CommandsOf(step')
    BY <1>0, <2>3, Grow
  <2>5. refused' \subseteq 1 .. step'
    BY <1>0, <1>1, <2>3
  <2>6. phase' \in Phases
    BY <2>2 DEF Moved, Phases
  <2>7. TypesOf(phase, step, offset, errOffset, commands, out, fifo, reply)'
    BY <1>0, <1>1, <1>4, <2>2, <2>3, <2>4, <2>6, Zenon DEF TypesOf, Moved
  <2>8. WiFlyTypeOK'
    BY <1>0, <1>1, <2>5, <2>7, TypeNext, Zenon
  <2>9. TurnInv'
    BY <2>2 DEF TurnInv, Moved
  <2> QED BY <1>1, <1>3, <1>5, <2>2, <2>8, <2>9, Zenon
<1>6. CASE Now.wait # << >>
  <2>1. phase' = "wait" /\ step' = step /\ offset' = offset /\ errOffset' = errOffset /\ reply' = reply
    BY <1>6, Zenon DEF Send
  <2>2. offset = 0 /\ errOffset = 0 /\ offset \in 0 .. Len(Now.wait)
    BY <1>1, TypeIs DEF TurnInv, TypesOf, Now
  <2>3. offset' < Len(Now.wait)
    BY <1>2, <1>6, <2>1, <2>2
  <2>4. TypesOf(phase, step, offset, errOffset, commands, out, fifo, reply)'
    BY <1>0, <1>1, <1>4, <2>1, <2>2 DEF TypesOf, Phases, Now
  <2>5. WiFlyTypeOK'
    BY <1>0, <1>1, <2>1, <2>4, TypeNext, Zenon
  <2>6. TurnInv'
    BY <2>1, <2>2, <2>3 DEF TurnInv, Now
  <2> QED BY <1>1, <1>3, <1>6, <2>1, <2>2, <2>5, <2>6, Zenon
<1> QED BY <1>5, <1>6

LEMMA WaitTypes ==
  ASSUME WiFlyTypeOK, TurnInv, WaitForResponse
  PROVE  /\ WiFlyTypeOK' /\ TurnInv'
         /\ phase = "wait" /\ step' = step /\ phase' \in {"wait", "swallow"}
         /\ IsDrop(Pending', Pending, 1) /\ Len(Pending) > 0 /\ Pending[1] = Head(fifo)
         /\ Pending \in CharsOf(step)
<1>0. /\ step \in 1 .. 22 /\ commands \in CommandsOf(step) /\ out \in CharsOf(step) /\ fifo \in CharsOf(step)
      /\ reply \in CharsOf(step) /\ refused \subseteq 1 .. step /\ phrase \in Phrases /\ online \in BOOLEAN
      /\ offset \in 0 .. Len(Now.wait) /\ errOffset \in 0 .. 3
  BY TypeIs DEF TypesOf, Now
<1>1. /\ phase = "wait" /\ fifo # << >> /\ fifo' = Tail(fifo) /\ phrase' = phrase /\ step' = step /\ reply' = reply
      /\ commands' = commands /\ out' = out /\ online' = online /\ refused' = refused
  BY DEF WaitForResponse, module
<1>2. offset' = offset \/ offset' = offset + 1
  BY DEF WaitForResponse
<1>3. errOffset' = errOffset \/ errOffset' = errOffset + 1
  BY DEF WaitForResponse
<1>4. /\ offset < Len(Now.wait) /\ errOffset < 3 /\ Len(Now.wait) \in Nat
  <2>1. Now.wait \in Seq(Chars)
    BY <1>0, StepTypes DEF Now
  <2> QED BY <1>1, <2>1 DEF TurnInv
<1>5. offset' \in 0 .. Len(Now.wait) /\ errOffset' \in 0 .. 3
  BY <1>0, <1>2, <1>3, <1>4
<1>6. Now' = Now
  BY <1>1 DEF Now
<1>7. phase' = "wait" \/ phase' = "swallow"
  BY DEF WaitForResponse
<1>8. phase' = "wait" => offset' < Len(Now.wait) /\ errOffset' < 3
  <2>1. phase' = "wait" => offset' # Len(Now.wait) /\ errOffset' # 3
    BY DEF WaitForResponse
  <2> QED BY <1>4, <1>5, <2>1
<1>9. /\ Tail(fifo) \in CharsOf(step) /\ IsDrop(Tail(fifo) \o out, fifo \o out, 1)
      /\ Len(fifo \o out) > 0 /\ (fifo \o out)[1] = Head(fifo)
  BY <1>0, <1>1, TailDrop, Zenon DEF CharsOf
<1>10. Pending \in CharsOf(step)
  BY <1>0, Joins, Zenon DEF CharsOf, Pending
<1>11. TypesOf(phase, step, offset, errOffset, commands, out, fifo, reply)'
  <2>1. phase' \in Phases
    BY <1>7 DEF Phases
  <2> QED BY <1>0, <1>1, <1>5, <1>6, <1>9, <2>1, Zenon DEF TypesOf, Now
<1>12. WiFlyTypeOK'
  BY <1>0, <1>1, <1>11, TypeNext, Zenon
<1>13. TurnInv'
  BY <1>6, <1>7, <1>8, Zenon DEF TurnInv
<1>14. IsDrop(Pending', Pending, 1) /\ Len(Pending) > 0 /\ Pending[1] = Head(fifo)
  BY <1>1, <1>9, Zenon DEF Pending
<1> QED BY <1>1, <1>7, <1>10, <1>12, <1>13, <1>14

LEMMA MovedTypes ==
  ASSUME WiFlyTypeOK, Moved, phrase' = phrase, module' = module, fifo' \in CharsOf(step)
  PROVE  WiFlyTypeOK' /\ TurnInv'
<1>0. /\ step \in 1 .. 22 /\ commands \in CommandsOf(step) /\ out \in CharsOf(step)
      /\ refused \subseteq 1 .. step /\ phrase \in Phrases /\ online \in BOOLEAN
  BY TypeIs DEF TypesOf
<1>1. commands' = commands /\ out' = out /\ online' = online /\ refused' = refused
  BY DEF module
<1>2. step' \in 1 .. 22 /\ step <= step' /\ reply' \in CharsOf(step)
  BY <1>0 DEF Moved
<1>3. CharsOf(step) \subseteq CharsOf(step') /\ CommandsOf(step) \subseteq CommandsOf(step')
  BY <1>0, <1>2, Grow
<1>4. refused' \subseteq 1 .. step'
  BY <1>0, <1>1, <1>2
<1>5. phase' \in Phases
  BY DEF Moved, Phases
<1>6. TypesOf(phase, step, offset, errOffset, commands, out, fifo, reply)'
  BY <1>0, <1>1, <1>2, <1>3, <1>5, Zenon DEF TypesOf, Moved
<1>7. WiFlyTypeOK'
  BY <1>0, <1>1, <1>4, <1>6, TypeNext, Zenon
<1>8. TurnInv'
  BY DEF TurnInv, Moved
<1> QED BY <1>7, <1>8

LEMMA StayTypes ==
  ASSUME WiFlyTypeOK, TurnInv, module' = module, fifo' \in CharsOf(step), reply' \in CharsOf(step),
         phase' \in Phases, phase' # "wait", phase' # "send",
         <<phrase, step, offset, errOffset>>' = <<phrase, step, offset, errOffset>>
  PROVE  WiFlyTypeOK' /\ TurnInv'
<1>0. /\ step \in 1 .. 22 /\ commands \in CommandsOf(step) /\ out \in CharsOf(step)
      /\ refused \subseteq 1 .. step /\ phrase \in Phrases /\ online \in BOOLEAN
      /\ offset \in 0 .. Len(Script[step].wait) /\ errOffset \in 0 .. 3
  BY TypeIs DEF TypesOf
<1>1. commands' = commands /\ out' = out /\ online' = online /\ refused' = refused
  BY DEF module
<1>2. phrase' = phrase /\ step' = step /\ offset' = offset /\ errOffset' = errOffset
  OBVIOUS
<1>3. TypesOf(phase, step, offset, errOffset, commands, out, fifo, reply)'
  BY <1>0, <1>1, <1>2, Zenon DEF TypesOf
<1>4. WiFlyTypeOK'
  BY <1>0, <1>1, <1>2, <1>3, TypeNext, Zenon
<1>5. TurnInv'
  BY Zenon DEF TurnInv
<1> QED BY <1>4, <1>5

LEMMA SwallowTypes ==
  ASSUME WiFlyTypeOK, TurnInv, Swallow
  PROVE  /\ WiFlyTypeOK' /\ TurnInv' /\ phase = "swallow"
         /\ \/ errOffset = 3 /\ Now.checked /\ phase' = "failed" /\ step' = step /\ errOffset' = errOffset
            \/ ~(errOffset = 3 /\ Now.checked) /\ Moved
         /\ \E d \in 0 .. 2 : IsDrop(Pending', Pending, d)
         /\ Pending \in CharsOf(step) /\ commands' = commands /\ refused' = refused
<1>0. /\ step \in 1 .. 22 /\ out \in CharsOf(step) /\ fifo \in CharsOf(step) /\ reply \in CharsOf(step)
  BY TypeIs DEF TypesOf
<1>1. /\ phase = "swallow" /\ fifo' = SubSeq(fifo, 3, Len(fifo)) /\ phrase' = phrase /\ module' = module
  BY DEF Swallow, module
<1>2. /\ fifo' \in CharsOf(step)
      /\ \E d \in 0 .. 2 : IsDrop(fifo' \o out, fifo \o out, d)
  BY <1>0, <1>1, TwoDrop, Zenon DEF CharsOf
<1>3. out' = out /\ commands' = commands /\ refused' = refused
  BY <1>1 DEF module
<1>4. \E d \in 0 .. 2 : IsDrop(Pending', Pending, d)
  BY <1>2, <1>3, Zenon DEF Pending
<1>5. Pending \in CharsOf(step)
  BY <1>0, Joins, Zenon DEF CharsOf, Pending
<1>6. CASE errOffset = 3 /\ Now.checked
  <2>1. phase' = "failed" /\ step' = step /\ offset' = offset /\ errOffset' = errOffset /\ reply' = reply
    BY <1>6, Zenon DEF Swallow
  <2>2. phase' \in Phases /\ phase' # "wait" /\ phase' # "send"
    BY <2>1 DEF Phases
  <2>3. <<phrase, step, offset, errOffset>>' = <<phrase, step, offset, errOffset>>
    BY <1>1, <2>1
  <2>4. WiFlyTypeOK' /\ TurnInv'
    BY <1>0, <1>1, <1>2, <2>1, <2>2, <2>3, StayTypes, Zenon
  <2> QED BY <1>1, <1>3, <1>4, <1>5, <1>6, <2>1, <2>4, Zenon
<1>7. CASE ~(errOffset = 3 /\ Now.checked)
  <2>1. After
    BY <1>7, Zenon DEF Swallow
  <2>2. Moved
    BY <2>1, AfterMoves
  <2>3. WiFlyTypeOK' /\ TurnInv'
    BY <1>1, <1>2, <2>2, MovedTypes, Zenon
  <2> QED BY <1>1, <1>3, <1>4, <1>5, <1>7, <2>2, <2>3, Zenon
<1> QED BY <1>6, <1>7

LEMMA ReadTypes ==
  ASSUME WiFlyTypeOK, TurnInv, ReadResponse \/ FlushRX
  PROVE  /\ WiFlyTypeOK' /\ TurnInv' /\ phase \in {"line", "flush"}
         /\ (phase' = phase /\ step' = step) \/ Moved
         /\ \E d \in 0 .. 2 : IsDrop(Pending', Pending, d)
         /\ Pending \in CharsOf(step) /\ commands' = commands /\ refused' = refused
<1>0. /\ step \in 1 .. 22 /\ out \in CharsOf(step) /\ fifo \in CharsOf(step) /\ reply \in CharsOf(step)
  BY TypeIs DEF TypesOf
<1>1. phrase' = phrase /\ module' = module
  BY DEF ReadResponse, FlushRX, module
<1>2. phase = "line" \/ phase = "flush"
  BY DEF ReadResponse, FlushRX
<1>3. out' = out /\ commands' = commands /\ refused' = refused
  BY <1>1 DEF module
<1>4. \/ fifo' = fifo
      \/ fifo # << >> /\ fifo' = Tail(fifo)
      \/ fifo' = SubSeq(fifo, 3, Len(fifo))
  BY Zenon DEF ReadResponse, FlushRX
<1>5. /\ fifo' \in CharsOf(step)
      /\ \E d \in 0 .. 2 : IsDrop(fifo' \o out, fifo \o out, d)
  <2>1. CASE fifo' = fifo
    <3>1. IsDrop(fifo \o out, fifo \o out, 0)
      BY <1>0 DEF IsDrop, CharsOf
    <3> QED BY <1>0, <2>1, <3>1, 0 \in 0 .. 2, Zenon
  <2>2. CASE fifo # << >> /\ fifo' = Tail(fifo)
    BY <1>0, <2>2, TailDrop, 1 \in 0 .. 2, Zenon DEF CharsOf
  <2>3. CASE fifo' = SubSeq(fifo, 3, Len(fifo))
    BY <1>0, <2>3, TwoDrop, Zenon DEF CharsOf
  <2> QED BY <1>4, <2>1, <2>2, <2>3
<1>6. \E d \in 0 .. 2 : IsDrop(Pending', Pending, d)
  BY <1>3, <1>5, Zenon DEF Pending
<1>7. Pending \in CharsOf(step)
  BY <1>0, Joins, Zenon DEF CharsOf, Pending
<1>8. \/ Goto(step + 1)
      \/ <<step, phase, offset, errOffset>>' = <<step, phase, offset, errOffset>> /\ reply' \in CharsOf(step)
  <2>1. CASE ReadResponse
    <3>1. Head(fifo) \in [c : Chars, of : 1 .. step]
      <4>1. fifo # << >>
        BY <2>1 DEF ReadResponse
      <4> QED BY <1>0, <4>1, TailDrop, Zenon DEF CharsOf
    <3>2. reply \in CharsOf(step) /\ Append(reply, Head(fifo)) \in CharsOf(step)
      <4>1. \A T : \A q \in Seq(T) : \A e \in T : Append(q, e) \in Seq(T)
        OBVIOUS
      <4> QED BY <1>0, <3>1, <4>1, Zenon DEF CharsOf
    <3> QED BY <2>1, <3>2, Zenon DEF ReadResponse
  <2>2. CASE FlushRX
    BY <1>0, <2>2, Zenon DEF FlushRX
  <2> QED BY <2>1, <2>2
<1>9. CASE Goto(step + 1)
  <2>1. Moved
    BY <1>9, GotoMoves
  <2>2. WiFlyTypeOK' /\ TurnInv'
    BY <1>1, <1>5, <2>1, MovedTypes, Zenon
  <2> QED BY <1>2, <1>3, <1>6, <1>7, <2>1, <2>2
<1>10. CASE <<step, phase, offset, errOffset>>' = <<step, phase, offset, errOffset>> /\ reply' \in CharsOf(step)
  <2>1. step' = step /\ phase' = phase /\ offset' = offset /\ errOffset' = errOffset /\ reply' \in CharsOf(step)
    BY <1>10
  <2>2. phase' \in Phases /\ phase' # "wait" /\ phase' # "send"
    BY <1>2, <2>1 DEF Phases
  <2>3. <<phrase, step, offset, errOffset>>' = <<phrase, step, offset, errOffset>>
    BY <1>1, <2>1
  <2>4. WiFlyTypeOK' /\ TurnInv'
    BY <1>1, <1>5, <2>1, <2>2, <2>3, StayTypes, Zenon
  <2> QED BY <1>2, <1>3, <1>6, <1>7, <2>1, <2>4
<1> QED BY <1>8, <1>9, <1>10

LEMMA ArriveTypes ==
  ASSUME WiFlyTypeOK, TurnInv, Arrive
  PROVE  /\ WiFlyTypeOK' /\ TurnInv' /\ driver' = driver
         /\ IsDrop(Pending', Pending, 0)
         /\ Pending \in CharsOf(step) /\ commands' = commands /\ refused' = refused
<1>0. /\ step \in 1 .. 22 /\ out \in CharsOf(step) /\ fifo \in CharsOf(step) /\ reply \in CharsOf(step)
      /\ refused \subseteq 1 .. step /\ phrase \in Phrases /\ online \in BOOLEAN
  BY TypeIs DEF TypesOf
<1>1. /\ out # << >> /\ fifo' = Append(fifo, Head(out)) /\ out' = Tail(out) /\ driver' = driver
      /\ commands' = commands /\ refused' = refused /\ online' = online
  BY DEF Arrive, driver
<1>2. /\ phrase' = phrase /\ step' = step /\ phase' = phase /\ offset' = offset /\ errOffset' = errOffset
      /\ reply' = reply
  BY <1>1 DEF driver
<1>3. /\ fifo' \in CharsOf(step) /\ out' \in CharsOf(step)
      /\ IsDrop(fifo' \o out', fifo \o out, 0)
  BY <1>0, <1>1, ArriveSame, Zenon DEF CharsOf
<1>4. TypesOf(phase, step, offset, errOffset, commands, out, fifo, reply)'
  <2>1. TypesOf(phase, step, offset, errOffset, commands, out, fifo, reply)
    BY TypeIs
  <2> QED BY <1>1, <1>2, <1>3, <2>1, Zenon DEF TypesOf
<1>5. WiFlyTypeOK'
  BY <1>0, <1>1, <1>2, <1>4, TypeNext, Zenon
<1>6. TurnInv'
  BY <1>2, Zenon DEF TurnInv, Now
<1>7. Pending \in CharsOf(step)
  BY <1>0, Joins, Zenon DEF CharsOf, Pending
<1> QED BY <1>1, <1>3, <1>5, <1>6, <1>7, Zenon DEF Pending

LEMMA TextTypes ==
  ASSUME phrase \in Seq({"A", "O", "K", "."}), NEW name \in Names
  PROVE  Good(name) \in Seq(Chars) /\ Bad(name) \in Seq(Chars)
<1>1. CASE name \in Settings
  <2>1. Seq(Chars \ {"R"}) \subseteq Seq(Chars)
    BY Subseqs, Zenon
  <2>2. Good(name) \in Seq(Chars)
    BY <1>1, <2>1, GoodSetting, Zenon
  <2>3. name = "set" \/ name = "phrase"
    BY <1>1 DEF Settings
  <2> QED BY <2>2, <2>3, BadSetting, Parts, Zenon
<1>2. CASE name = "join"
  BY <1>2, GoodJoin, Parts, Zenon
<1>3. CASE name \in Names \ (Settings \cup {"join"})
  BY <1>3, GoodPlain, Parts, Zenon
<1> QED BY <1>1, <1>2, <1>3

(* An answer t to the command of that name.                                  *)
AnswerIs(name, f, t) ==
  \/ refused' = refused /\ t \in Seq(Calm) /\ (t = << >> \/ (name = "$$$" /\ t = <<"C", "M", "D">> \o Newline))
  \/ refused' = refused /\ name # "$$$" /\ t = Good(name)
  \/ refused' = refused \cup {f} /\ name \in {"set", "phrase", "join"} /\ t = Bad(name)

LEMMA AnswerTypes ==
  ASSUME WiFlyTypeOK, TurnInv, phrase \in Seq({"A", "O", "K", "."}), AnswerCommand
  PROVE  /\ WiFlyTypeOK' /\ TurnInv' /\ driver' = driver
         /\ commands # << >> /\ commands' = Tail(commands) /\ commands \in CommandsOf(step)
         /\ Pending = fifo /\ Pending' = Pending \o out'
         /\ Pending \in CharsOf(step) /\ out' \in CharsOf(step)
         /\ Head(commands).name \in Names /\ Head(commands).of \in 1 .. step
         /\ \E t \in Seq(Chars) : IsSaid(out', t) /\ AnswerIs(Head(commands).name, Head(commands).of, t)
         /\ IsOf(out', Head(commands).of)
<1> DEFINE name == Head(commands).name
           f == Head(commands).of
<1>0. /\ step \in 1 .. 22 /\ out \in CharsOf(step) /\ fifo \in CharsOf(step) /\ commands \in CommandsOf(step)
      /\ refused \subseteq 1 .. step /\ phrase \in Phrases /\ online \in BOOLEAN
  BY TypeIs DEF TypesOf
<1>1. /\ commands # << >> /\ out = << >> /\ commands' = Tail(commands) /\ driver' = driver /\ fifo' = fifo
  BY DEF AnswerCommand, driver
<1>2. /\ phrase' = phrase /\ step' = step /\ phase' = phase /\ offset' = offset /\ errOffset' = errOffset
      /\ reply' = reply
  BY <1>1 DEF driver
<1>3. name \in Names /\ f \in 1 .. step /\ Tail(commands) \in CommandsOf(step)
  <2>1. \A T : \A q \in Seq(T) : q # << >> => Head(q) \in T /\ Tail(q) \in Seq(T)
    OBVIOUS
  <2>2. Head(commands) \in [name : Names, of : 1 .. step] /\ Tail(commands) \in CommandsOf(step)
    BY <1>0, <1>1, <2>1, Zenon DEF CommandsOf
  <2> QED BY <2>2
<1>4. \A t \in Seq(Chars) : Say(t, f) => IsSaid(out', t) /\ IsOf(out', f) /\ out' \in CharsOf(step)
  <2> TAKE t \in Seq(Chars)
  <2> HAVE Say(t, f)
  <2>1. out' = [i \in DOMAIN t |-> [c |-> t[i], of |-> f]]
    BY Zenon DEF Say
  <2>2. PICK m, g : m = step /\ g = f
    OBVIOUS
  <2>3. m \in Nat /\ g \in 1 .. m
    BY <1>0, <1>3, <2>2
  <2>4. /\ [i \in DOMAIN t |-> [c |-> t[i], of |-> g]] \in Seq([c : Chars, of : 1 .. m])
        /\ IsSaid([i \in DOMAIN t |-> [c |-> t[i], of |-> g]], t)
        /\ IsOf([i \in DOMAIN t |-> [c |-> t[i], of |-> g]], g)
    BY <2>3, Said, Zenon
  <2> QED BY <2>1, <2>2, <2>4, Zenon DEF CharsOf
<1>5. Good(name) \in Seq(Chars) /\ Bad(name) \in Seq(Chars)
  BY <1>3, TextTypes
<1>6. \/ name = "$$$" /\ Say(<<"C", "M", "D">> \o Newline, f) /\ online' = TRUE /\ refused' = refused
      \/ out' = out /\ online' = online /\ refused' = refused
      \/ name # "$$$" /\ Say(Good(name), f) /\ online' = (name \notin {"exit", "reboot"}) /\ refused' = refused
      \/ name \in {"set", "phrase", "join"} /\ Say(Bad(name), f) /\ refused' = refused \cup {f} /\ online' = online
  BY Zenon DEF AnswerCommand
<1>7. \E t \in Seq(Chars) : /\ IsSaid(out', t) /\ IsOf(out', f) /\ out' \in CharsOf(step) /\ AnswerIs(name, f, t)
                           /\ online' \in BOOLEAN /\ refused' \subseteq 1 .. step
  <2>1. CASE name = "$$$" /\ Say(<<"C", "M", "D">> \o Newline, f) /\ online' = TRUE /\ refused' = refused
    <3>1. <<"C", "M", "D">> \o Newline \in Seq(Calm) /\ <<"C", "M", "D">> \o Newline \in Seq(Chars)
      BY Parts, Zenon
    <3>2. online' \in BOOLEAN /\ refused' \subseteq 1 .. step
      BY <1>0, <2>1
    <3> QED BY <1>4, <2>1, <3>1, <3>2, Zenon DEF AnswerIs
  <2>2. CASE out' = out /\ online' = online /\ refused' = refused
    <3>1. IsSaid(<< >>, << >>) /\ IsOf(<< >>, f) /\ << >> \in Seq(Chars) /\ << >> \in Seq(Calm)
      BY DEF IsSaid, IsOf
    <3>2. online' \in BOOLEAN /\ refused' \subseteq 1 .. step
      BY <1>0, <2>2
    <3> QED BY <1>0, <1>1, <2>2, <3>1, <3>2, Zenon DEF AnswerIs
  <2>3. CASE name # "$$$" /\ Say(Good(name), f) /\ online' = (name \notin {"exit", "reboot"}) /\ refused' = refused
    <3>1. online' \in BOOLEAN /\ refused' \subseteq 1 .. step
      BY <1>0, <2>3
    <3> QED BY <1>4, <1>5, <2>3, <3>1, Zenon DEF AnswerIs
  <2>4. CASE name \in {"set", "phrase", "join"} /\ Say(Bad(name), f) /\ refused' = refused \cup {f} /\ online' = online
    <3>1. online' \in BOOLEAN /\ refused' \subseteq 1 .. step
      BY <1>0, <1>3, <2>4
    <3> QED BY <1>4, <1>5, <2>4, <3>1, Zenon DEF AnswerIs
  <2> QED BY <1>6, <2>1, <2>2, <2>3, <2>4
<1>8. TypesOf(phase, step, offset, errOffset, commands, out, fifo, reply)'
  <2>1. TypesOf(phase, step, offset, errOffset, commands, out, fifo, reply)
    BY TypeIs
  <2> QED BY <1>1, <1>2, <1>3, <1>7, <2>1, Zenon DEF TypesOf
<1>9. WiFlyTypeOK'
  BY <1>0, <1>2, <1>7, <1>8, TypeNext, Zenon
<1>10. TurnInv'
  BY <1>2, Zenon DEF TurnInv, Now
<1>11. Pending = fifo
  <2>1. \A T : \A q \in Seq(T) : q \o << >> = q
    OBVIOUS
  <2> QED BY <1>0, <1>1, <2>1, Zenon DEF CharsOf, Pending
<1>12. Pending' = fifo \o out'
  BY <1>1, Zenon DEF Pending
<1> QED BY <1>0, <1>1, <1>3, <1>7, <1>9, <1>10, <1>11, <1>12, Zenon

LEMMA StutterTypes ==
  ASSUME WiFlyTypeOK, TurnInv, UNCHANGED wiflyVars
  PROVE  WiFlyTypeOK' /\ TurnInv'
BY Zenon DEF wiflyVars, WiFlyTypeOK, TurnInv, Now
-----------------------------------------------------------------------------
(* What is on its way, action by action.                                     *)
LEMMA WaitAnswer ==
  ASSUME WiFlyTypeOK, TurnInv, AnswerInv, WaitForResponse
  PROVE  AnswerInv'
<1>0. /\ WiFlyTypeOK' /\ TurnInv'
      /\ phase = "wait" /\ step' = step /\ phase' \in {"wait", "swallow"}
      /\ IsDrop(Pending', Pending, 1) /\ Len(Pending) > 0 /\ Pending[1] = Head(fifo)
      /\ Pending \in CharsOf(step) /\ step \in 1 .. 22
  BY WaitTypes, TypeIs DEF TypesOf
<1>1. commands' = commands /\ refused' = refused /\ Now' = Now
  BY <1>0, Zenon DEF WaitForResponse, module, Now
<1>2. PICK p, q, o, oo, x, xx :
        p = Pending /\ q = Pending' /\ o = offset /\ oo = offset' /\ x = errOffset /\ xx = errOffset'
  BY Zenon
<1>3. /\ IsDrop(q, p, 1) /\ Len(p) > 0 /\ Len(p) \in Nat /\ p[1] = Head(fifo)
  BY <1>0, <1>2 DEF CharsOf
<1>4. /\ oo = IF Now.wait[o + 1] = p[1].c THEN o + 1 ELSE o
      /\ xx = IF ERR[x + 1] = p[1].c /\ oo = 0 THEN x + 1 ELSE x
      /\ phase' = IF oo = Len(Now.wait) \/ xx = 3 THEN "swallow" ELSE "wait"
  BY <1>2, <1>3, Zenon DEF WaitForResponse, Matches
<1>5. o \in Nat /\ o < Len(Now.wait) /\ x \in 0 .. 2
  BY <1>0, <1>2, TypeIs DEF TurnInv, TypesOf
<1>6. step \in Sets => Now.wait = AOK /\ Len(AOK) = 3 /\ AOK[1] = "A" /\ AOK[2] = "O" /\ AOK[3] = "K"
  BY SetSteps DEF Now, IsSetting, AOK
<1>7. step \in Sets => step < 18 /\ (step # 2 => Now.checked) /\ (step = 2 => ~Now.checked)
  BY SetSteps DEF Sets, Now
<1>8. \A s \in Nat : (Quiet(p, s) => Quiet(q, s)) /\ (NoR(p) => NoR(q))
  BY <1>3, DropKeeps, 1 \in Nat
<1>9. NoR(p) /\ x <= 1 => xx <= 1
  <2>1. 1 \in 1 .. Len(p)
    BY <1>3
  <2>2. ERR[2] = "R"
    BY DEF ERR
  <2> QED BY <1>4, <1>5, <2>1, <2>2 DEF NoR
<1>10. oo > 0 => xx = x
  BY <1>4
<1>11. OrderInv'
  BY <1>0, <1>1, Zenon DEF AnswerInv, OrderInv
<1>12. FirstInv'
  <2>1. /\ step <= 2 => \A i \in 1 .. Len(commands) :
                     commands[i].name \in {"", "exit", "$$$", "set"}
        /\ step = 1 \/ (step = 2 /\ (phase = "send" \/ Asked(commands))) => NoR(p)
        /\ step = 2 /\ Asked(commands) => x <= 1
    BY <1>2, Zenon DEF AnswerInv, FirstInv
  <2>2. phase' # "send" /\ (NoR(p) => NoR(q))
    BY <1>0, <1>8
  <2> QED BY <1>0, <1>1, <1>2, <1>9, <2>1, <2>2, Zenon DEF FirstInv
<1>13. ASSUME step \in Sets, Waiting
       PROVE  oo <= 1 /\ (step <= 14 => oo = 0) /\ Quiet(q, step) /\ (Waiting' \/ Refusal')
  <2>1. /\ Asked(commands) /\ Taken /\ Quiet(p, step) /\ o <= 1 /\ (step <= 14 => o = 0)
    BY <1>2, <1>13 DEF Waiting
  <2>2. p[1].c \notin Loud(step)
    BY <1>3, <2>1 DEF Quiet
  <2>3. oo <= 1 /\ (step <= 14 => oo = 0)
    <3>1. CASE step <= 14
      BY <1>4, <1>5, <1>6, <1>13, <2>1, <2>2, <3>1 DEF Loud
    <3>2. CASE ~(step <= 14)
      BY <1>4, <1>5, <1>6, <1>13, <2>1, <2>2, <3>2 DEF Loud
    <3> QED BY <3>1, <3>2
  <2>4. Quiet(q, step)
    BY <1>0, <1>8, <2>1
  <2>5. CASE xx = 3
    <3>1. step # 2
      <4>1. step = 2 => x <= 1
        BY <1>2, <2>1, Zenon DEF AnswerInv, FirstInv
      <4>2. xx <= x + 1
        BY <1>4, <1>5
      <4> QED BY <1>5, <2>5, <4>1, <4>2
    <3>2. phase' = "swallow" /\ Now.checked
      BY <1>4, <1>7, <1>13, <2>5, <3>1
    <3>3. Refusal'
      BY <1>1, <1>2, <2>5, <3>2, Zenon DEF Refusal
    <3> QED BY <2>3, <2>4, <3>3
  <2>6. CASE xx # 3
    <3>1. oo # Len(Now.wait)
      BY <1>6, <1>13, <2>3
    <3>2. phase' = "wait"
      BY <1>4, <2>6, <3>1
    <3>3. Waiting'
      BY <1>0, <1>1, <1>2, <1>13, <2>1, <2>3, <2>4, <3>2, Zenon DEF Waiting, Taken
    <3> QED BY <2>3, <2>4, <3>3
  <2> QED BY <2>5, <2>6
<1>14. ASSUME step \in Sets, Answered
       PROVE  (oo = 3 => Taken) /\ (Answered' \/ Refusal' \/ Idle')
  <2>1. /\ ~Asked(commands) /\ Once(p, o, step, Taken)
        /\ step = 2 => (NoR(p) /\ x <= 1) \/ Quiet(p, step)
    BY <1>2, <1>14 DEF Answered
  <2>2. o \in 0 .. 2 /\ oo \in 0 .. 3 /\ oo = IF AOK[o + 1] = p[1].c THEN o + 1 ELSE o
    BY <1>4, <1>5, <1>6, <1>14
  <2>3. PICK s, taken : s = step /\ taken = Taken
    BY Zenon
  <2>4. Once(p, o, s, taken)
    BY <2>1, <2>3, Zenon
  <2>5. (oo < 3 => Once(q, oo, s, taken)) /\ (oo = 3 => taken /\ Quiet(q, s))
    BY <1>3, <2>2, <2>4, NextOnce
  <2>6. oo = 3 => Taken
    BY <2>3, <2>5, Zenon
  <2>7. Taken' <=> Taken
    BY <1>0, <1>1, Zenon DEF Taken
  <2>8. CASE oo = 3
    <3>1. phase' = "swallow"
      BY <1>4, <1>6, <1>14, <2>8
    <3>2. Idle'
      BY <1>0, <1>1, <1>2, <2>1, <2>3, <2>5, <2>8, <3>1, Zenon DEF Idle
    <3> QED BY <2>6, <3>2
  <2>9. CASE oo < 3 /\ xx = 3
    <3>1. phase' = "swallow"
      BY <1>4, <2>9
    <3>2. CASE step = 2
      <4>1. Quiet(p, step)
        BY <1>9, <2>1, <2>9, <3>2
      <4>2. Quiet(q, step)
        BY <1>0, <1>8, <4>1
      <4>3. Idle'
        BY <1>0, <1>1, <1>2, <2>1, <3>1, <4>2, Zenon DEF Idle
      <4> QED BY <2>6, <4>3
    <3>3. CASE step # 2
      <4>1. Refusal'
        BY <1>1, <1>2, <1>7, <1>14, <2>9, <3>1, <3>3, Zenon DEF Refusal
      <4> QED BY <2>6, <4>1
    <3> QED BY <3>2, <3>3
  <2>10. CASE oo < 3 /\ xx # 3
    <3>1. phase' = "wait"
      <4>1. Len(Now.wait) = 3 /\ oo # 3 /\ xx # 3
        BY <1>6, <1>14, <2>2, <2>10
      <4> QED BY <1>4, <4>1, Zenon
    <3>2. step = 2 => (NoR(q) /\ xx <= 1) \/ Quiet(q, step)
      BY <1>0, <1>8, <1>9, <2>1
    <3>3. Once(q, oo, step, Taken')
      BY <2>3, <2>5, <2>7, <2>10, Zenon DEF Once
    <3>4. Answered'
      BY <1>0, <1>1, <1>2, <1>14, <2>1, <3>1, <3>2, <3>3, Zenon DEF Answered
    <3> QED BY <2>6, <3>4
  <2> QED BY <2>2, <2>8, <2>9, <2>10
<1>15. ASSUME Idle PROVE step \notin Sets /\ Idle'
  <2>1. step \notin Sets /\ ~Asked(commands) /\ Quiet(p, step)
    BY <1>0, <1>2, <1>15, Zenon DEF Idle
  <2>2. Quiet(q, step)
    BY <1>0, <1>8, <2>1
  <2> QED BY <1>0, <1>1, <1>2, <2>1, <2>2, Zenon DEF Idle
<1>16. step < 18 => Waiting \/ Answered \/ Idle
  <2>1. phase # "failed" /\ phase # "swallow"
    BY <1>0
  <2> QED BY <2>1, Zenon DEF AnswerInv, PlaceInv, Failed, Refusal
<1>17. PlaceInv'
  BY <1>0, <1>13, <1>14, <1>15, <1>16, Zenon DEF PlaceInv, Waiting, Answered
<1>18. RefusedInv'
  <2> SUFFICES ASSUME NEW s \in refused, Script[s].checked
               PROVE  /\ s = step /\ step \in Sets
                      /\ phase' \in {"wait", "failed"} \/ (phase' = "swallow" /\ errOffset' = 3)
    BY <1>0, <1>1, Zenon DEF RefusedInv
  <2>1. s = step /\ step \in Sets /\ ~Taken
    BY Zenon DEF AnswerInv, RefusedInv, Taken, Now
  <2>2. ASSUME phase' # "wait", xx # 3 PROVE FALSE
    <3>1. oo = 3
      BY <1>4, <1>6, <2>1, <2>2
    <3> QED BY <1>7, <1>13, <1>14, <1>15, <1>16, <2>1, <3>1
  <2> QED BY <1>0, <1>2, <2>1, <2>2
<1> QED BY <1>11, <1>12, <1>17, <1>18, Zenon DEF AnswerInv

(* What a drop of characters and a step done leave.                          *)
LEMMA DropsKeep ==
  ASSUME WiFlyTypeOK, Pending \in CharsOf(step), \E d \in 0 .. 2 : IsDrop(Pending', Pending, d)
  PROVE  /\ \A t \in Nat : step <= t /\ Quiet(Pending, step) => Quiet(Pending', t)
         /\ NoR(Pending) => NoR(Pending')
<1>1. PICK p, q, m : p = Pending /\ q = Pending' /\ m = step
  BY Zenon
<1>2. PICK d \in 0 .. 2 : IsDrop(q, p, d)
  BY <1>1
<1>3. Len(p) \in Nat /\ d \in Nat /\ m \in Nat
  <2>0. step \in 1 .. 22
    BY TypeIs, Zenon DEF TypesOf
  <2>1. step \in Nat
    BY <2>0
  <2>2. \A T : \A r \in Seq(T) : Len(r) \in Nat
    OBVIOUS
  <2>3. Len(p) \in Nat
    BY <1>1, <2>2, Zenon DEF CharsOf
  <2> QED BY <1>1, <2>1, <2>3
<1>4. \A t \in Nat : m <= t => (Quiet(p, m) => Quiet(q, t)) /\ (NoR(p) => NoR(q))
  BY <1>2, <1>3, DropKeeps
<1>5. m <= m
  BY <1>3
<1> QED BY <1>1, <1>3, <1>4, <1>5, Zenon

LEMMA MovedAnswer ==
  ASSUME WiFlyTypeOK, AnswerInv, Moved, phase # "send", phase # "wait", phase # "failed",
         ~(phase = "swallow" /\ errOffset = 3 /\ Now.checked),
         Pending \in CharsOf(step), \E d \in 0 .. 2 : IsDrop(Pending', Pending, d),
         commands' = commands, refused' = refused
  PROVE  AnswerInv'
<1>0. /\ step \in 1 .. 22 /\ step' \in 1 .. 22 /\ step <= step' /\ (step' = step \/ step' = step + 1)
      /\ phase' # "wait" /\ phase' # "failed" /\ phase' # "swallow"
      /\ commands \in CommandsOf(step)
  <2>1. step \in 1 .. 22 /\ commands \in CommandsOf(step)
    BY TypeIs, Zenon DEF TypesOf
  <2>2. step' \in 1 .. 22 /\ (step' = step \/ step' = step + 1)
    BY Zenon DEF Moved
  <2>3. phase' # "wait" /\ phase' # "failed" /\ phase' # "swallow"
    <3>1. phase' \in {"send", "joined", "flush", "line"}
      BY Zenon DEF Moved
    <3> QED BY <3>1
  <2> QED BY <2>1, <2>2, <2>3
<1>1. /\ \A t \in Nat : step <= t /\ Quiet(Pending, step) => Quiet(Pending', t)
      /\ NoR(Pending) => NoR(Pending')
  BY DropsKeep
<1>2. step < 18 => ~Asked(commands) /\ Quiet(Pending, step)
  <2>1. ~Failed /\ ~Refusal /\ ~Waiting /\ ~Answered
    BY Zenon DEF Failed, Refusal, Waiting, Answered
  <2> QED BY <2>1, Zenon DEF AnswerInv, PlaceInv, Idle
<1>3. PlaceInv'
  <2>1. ASSUME step' < 18 PROVE Idle'
    <3>1. step < 18 /\ step' \in Nat
      BY <1>0, <2>1
    <3>2. Quiet(Pending', step')
      BY <1>0, <1>1, <1>2, <3>1, Zenon
    <3> QED BY <1>0, <1>2, <3>1, <3>2, Zenon DEF Idle
  <2> QED BY <2>1, Zenon DEF PlaceInv
<1>4. \A s \in refused : ~Script[s].checked
  BY Zenon DEF AnswerInv, RefusedInv, Now
<1>5. RefusedInv'
  BY <1>4, Zenon DEF RefusedInv
<1>6. OrderInv'
  <2> SUFFICES ASSUME NEW i \in 1 .. Len(commands)
      PROVE  /\ commands[i].name = "join" => commands[i].of = 15
             /\ commands[i].name \in Settings => commands[i].of = 18
             /\ step' < 18 /\ commands[i].name = "phrase" => step' = 11
    BY Zenon DEF OrderInv
  <2>1. /\ commands[i].name = "join" => commands[i].of = 15
        /\ commands[i].name \in Settings =>
             \/ commands[i].of = 18
             \/ commands[i].of = step /\ step \in Sets
    BY Zenon DEF AnswerInv, OrderInv
  <2>2. step \in Sets => step < 18
    BY DEF Sets
  <2>3. step < 18 => commands[i].name \notin Settings
    BY <1>2, Zenon DEF Asked
  <2>4. "phrase" \in Settings
    BY DEF Settings
  <2>5. step' < 18 => step < 18
    BY <1>0
  <2> QED BY <2>1, <2>2, <2>3, <2>4, <2>5, Zenon
<1>7. FirstInv'
  <2>1. step' <= 2 => step <= 2 /\ step < 18
    BY <1>0
  <2>2. step' = 1 => step = 1
    BY <1>0
  <2>3. step' = 2 /\ phase' = "send" => step = 1
    BY <1>0 DEF Moved
  <2>4. step' = 2 => ~Asked(commands)
    BY <1>0, <1>2, <2>1
  <2>5. /\ step <= 2 => \A i \in 1 .. Len(commands) : commands[i].name \in {"", "exit", "$$$", "set"}
        /\ step = 1 => NoR(Pending)
    BY Zenon DEF AnswerInv, FirstInv
  <2> QED BY <1>1, <2>1, <2>2, <2>3, <2>4, <2>5, Zenon DEF FirstInv
<1> QED BY <1>3, <1>5, <1>6, <1>7, Zenon DEF AnswerInv

LEMMA SwallowAnswer ==
  ASSUME WiFlyTypeOK, TurnInv, AnswerInv, Swallow
  PROVE  AnswerInv'
<1>0. /\ phase = "swallow"
      /\ \/ errOffset = 3 /\ Now.checked /\ phase' = "failed" /\ step' = step /\ errOffset' = errOffset
         \/ ~(errOffset = 3 /\ Now.checked) /\ Moved
      /\ \E d \in 0 .. 2 : IsDrop(Pending', Pending, d)
      /\ Pending \in CharsOf(step) /\ commands' = commands /\ refused' = refused
  BY SwallowTypes
<1>1. CASE ~(errOffset = 3 /\ Now.checked) /\ Moved
  <2>1. phase # "send" /\ phase # "wait" /\ phase # "failed"
    BY <1>0
  <2> QED BY <1>0, <1>1, <2>1, MovedAnswer, Zenon
<1>2. CASE errOffset = 3 /\ Now.checked /\ phase' = "failed" /\ step' = step /\ errOffset' = errOffset
  <2>1. PlaceInv'
    BY <1>2, Zenon DEF PlaceInv, Failed
  <2>2. RefusedInv'
    BY <1>0, <1>2, Zenon DEF AnswerInv, RefusedInv
  <2>3. OrderInv'
    BY <1>0, <1>2, Zenon DEF AnswerInv, OrderInv
  <2>4. phase' # "send" /\ (NoR(Pending) => NoR(Pending'))
    BY <1>0, <1>2, DropsKeep
  <2>5. FirstInv'
    BY <1>0, <1>2, <2>4, Zenon DEF AnswerInv, FirstInv
  <2> QED BY <2>1, <2>2, <2>3, <2>5, Zenon DEF AnswerInv
<1> QED BY <1>0, <1>1, <1>2

LEMMA ReadAnswer ==
  ASSUME WiFlyTypeOK, TurnInv, AnswerInv, ReadResponse \/ FlushRX
  PROVE  AnswerInv'
<1>0. /\ phase \in {"line", "flush"}
      /\ (phase' = phase /\ step' = step) \/ Moved
      /\ \E d \in 0 .. 2 : IsDrop(Pending', Pending, d)
      /\ Pending \in CharsOf(step) /\ commands' = commands /\ refused' = refused
  BY ReadTypes
<1>p. phase # "send" /\ phase # "wait" /\ phase # "failed" /\ phase # "swallow"
  BY <1>0
<1>1. CASE Moved
  BY <1>0, <1>1, <1>p, MovedAnswer, Zenon
<1>2. CASE phase' = phase /\ step' = step
  <2>0. /\ \A t \in Nat : step <= t /\ Quiet(Pending, step) => Quiet(Pending', t)
        /\ NoR(Pending) => NoR(Pending')
    BY <1>0, DropsKeep
  <2>s. step \in Nat /\ step <= step
    BY StepIs, Zenon
  <2>1. PlaceInv'
    <3>1. ~Failed /\ ~Refusal /\ ~Waiting /\ ~Answered
      BY <1>p, Zenon DEF Failed, Refusal, Waiting, Answered
    <3>2. step < 18 => Idle'
      BY <1>0, <1>2, <1>p, <2>0, <2>s, <3>1, Zenon DEF AnswerInv, PlaceInv, Idle
    <3> QED BY <1>2, <3>2, Zenon DEF PlaceInv
  <2>2. RefusedInv'
    BY <1>0, <1>2, <1>p, Zenon DEF AnswerInv, RefusedInv
  <2>3. OrderInv'
    BY <1>0, <1>2, Zenon DEF AnswerInv, OrderInv
  <2>4. FirstInv'
    <3>1. /\ step <= 2 => \A i \in 1 .. Len(commands) :
                     commands[i].name \in {"", "exit", "$$$", "set"}
          /\ step = 1 \/ (step = 2 /\ (phase = "send" \/ Asked(commands))) => NoR(Pending)
          /\ step < 18 => ~Asked(commands)
      BY <1>p, Zenon DEF AnswerInv, FirstInv, PlaceInv, Failed, Refusal, Waiting, Answered, Idle
    <3>a. step = 2 => step < 18
      OBVIOUS
    <3>2. step = 2 => ~Asked(commands)
      BY <3>1, <3>a, Zenon
    <3> QED BY <1>0, <1>2, <1>p, <2>0, <3>1, <3>2, Zenon DEF FirstInv
  <2> QED BY <2>1, <2>2, <2>3, <2>4, Zenon DEF AnswerInv
<1> QED BY <1>0, <1>1, <1>2

LEMMA ArriveAnswer ==
  ASSUME WiFlyTypeOK, TurnInv, AnswerInv, Arrive
  PROVE  AnswerInv'
<1>0. /\ driver' = driver /\ IsDrop(Pending', Pending, 0)
      /\ Pending \in CharsOf(step) /\ commands' = commands /\ refused' = refused
  BY ArriveTypes
<1>1. step' = step /\ phase' = phase /\ offset' = offset /\ errOffset' = errOffset /\ Now' = Now
  BY <1>0 DEF driver, Now
<1>2. /\ \A t \in Nat : step <= t /\ Quiet(Pending, step) => Quiet(Pending', t)
      /\ NoR(Pending) => NoR(Pending')
  BY <1>0, DropsKeep, 0 \in 0 .. 2
<1>3. step \in Nat /\ step <= step /\ offset \in Nat
  BY StepIs, Zenon
<1>4. Quiet(Pending, step) => Quiet(Pending', step)
  BY <1>2, <1>3, Zenon
<1>5. Once(Pending, offset, step, Taken) => Once(Pending', offset, step, Taken)
  <2>1. PICK p, q, o, s, taken : p = Pending /\ q = Pending' /\ o = offset /\ s = step /\ taken = Taken
    BY Zenon
  <2>2. Len(p) \in Nat /\ IsDrop(q, p, 0) /\ o \in Nat
    BY <1>0, <1>3, <2>1 DEF CharsOf
  <2>3. Once(p, o, s, taken) => Once(q, o, s, taken)
    BY <2>2, SameOnce
  <2> QED BY <2>1, <2>3, Zenon
<1>6. Taken' <=> Taken
  BY <1>0, <1>1, Zenon DEF Taken
<1>7. PlaceInv'
  <2>1. Failed => Failed'
    BY <1>1, Zenon DEF Failed
  <2>2. Refusal => Refusal'
    BY <1>1, Zenon DEF Refusal
  <2>3. Waiting => Waiting'
    BY <1>0, <1>1, <1>4, <1>6, Zenon DEF Waiting
  <2>4. Answered => Answered'
    <3>1. Once(Pending', offset, step, Taken) => Once(Pending', offset, step, Taken')
      BY <1>6, Zenon DEF Once
    <3> QED BY <1>0, <1>1, <1>2, <1>4, <1>5, <3>1, Zenon DEF Answered
  <2>5. Idle => Idle'
    BY <1>0, <1>1, <1>4, Zenon DEF Idle
  <2> QED BY <1>1, <2>1, <2>2, <2>3, <2>4, <2>5, Zenon DEF AnswerInv, PlaceInv
<1>8. OrderInv'
  BY <1>0, <1>1, Zenon DEF AnswerInv, OrderInv
<1>9. RefusedInv'
  BY <1>0, <1>1, Zenon DEF AnswerInv, RefusedInv
<1>10. FirstInv'
  BY <1>0, <1>1, <1>2, Zenon DEF AnswerInv, FirstInv
<1> QED BY <1>7, <1>8, <1>9, <1>10, Zenon DEF AnswerInv

LEMMA SendAnswer ==
  ASSUME WiFlyTypeOK, TurnInv, AnswerInv, Send
  PROVE  AnswerInv'
<1>0. /\ step \in 1 .. 22 /\ commands \in CommandsOf(step)
  BY TypeIs, Zenon DEF TypesOf
<1>1. phase = "send" /\ out' = out /\ fifo' = fifo /\ refused' = refused /\ Pending' = Pending
  BY Zenon DEF Send, Pending
<1>2. \/ Now.wait = << >> /\ Moved
      \/ Now.wait # << >> /\ phase' = "wait" /\ step' = step /\ offset' = 0 /\ errOffset' = 0
  BY SendTypes
<1>3. PICK n \in CommandsOf(step) :
        /\ commands' = commands \o n /\ Len(n) = Len(Now.send)
        /\ \A i \in 1 .. Len(n) : n[i].name = Now.send[i] /\ n[i].of = step
  BY SendTypes
<1>4. PICK c, d : c = commands /\ d = commands'
  BY Zenon
<1>5. IsJoin(d, c, n) /\ Len(c) \in Nat /\ Len(n) \in Nat
  <2>1. IsJoin(d, c, n)
    BY <1>0, <1>3, <1>4, Joins, Zenon DEF CommandsOf
  <2> QED BY <1>0, <1>3, <1>4, <2>1 DEF CommandsOf
<1>6. \A i \in 1 .. Len(d) :
        \/ i \in 1 .. Len(c) /\ d[i] = c[i]
        \/ \E j \in 1 .. Len(n) : i = Len(c) + j /\ d[i].name = Now.send[j] /\ d[i].of = step
  <2> TAKE i \in 1 .. Len(d)
  <2>1. CASE i <= Len(c)
    BY <1>5, <2>1 DEF IsJoin
  <2>2. CASE i > Len(c)
    <3>1. i - Len(c) \in 1 .. Len(n) /\ Len(c) + (i - Len(c)) = i
      BY <1>5, <2>2 DEF IsJoin
    <3>2. d[i] = n[i - Len(c)]
      BY <1>5, <3>1 DEF IsJoin
    <3> QED BY <1>3, <3>1, <3>2
  <2> QED BY <1>5, <2>1, <2>2
<1>7. \A s \in refused : ~Script[s].checked
  <2>1. phase # "wait" /\ phase # "failed" /\ phase # "swallow" /\ phase \notin {"wait", "failed"}
    BY <1>1
  <2> QED BY <2>1, Zenon DEF AnswerInv, RefusedInv
<1>8. RefusedInv'
  BY <1>1, <1>7, Zenon DEF RefusedInv
<1>9. step < 18 => ~Asked(c) /\ Quiet(Pending, step)
  <2>1. phase # "wait" /\ phase # "failed" /\ phase # "swallow"
    BY <1>1
  <2> QED BY <1>4, <2>1, Zenon DEF AnswerInv, PlaceInv, Failed, Refusal, Waiting, Answered, Idle
<1>10. \A i \in 1 .. Len(c) :
         /\ c[i].name = "join" => c[i].of = 15
         /\ c[i].name \in Settings => c[i].of = 18 /\ ~(step < 18)
         /\ step < 18 => c[i].name # "phrase"
  <2>1. phase \notin {"wait", "swallow", "failed"} /\ "phrase" \in Settings
    BY <1>1 DEF Settings
  <2> QED BY <1>4, <1>9, <2>1, Zenon DEF AnswerInv, OrderInv, Asked
<1>11. /\ step <= 2 => \A i \in 1 .. Len(c) : c[i].name \in {"", "exit", "$$$", "set"}
       /\ step = 1 \/ step = 2 => NoR(Pending)
  BY <1>1, <1>4, Zenon DEF AnswerInv, FirstInv
<1>12. CASE step \in Sets
  <2>1. /\ Now.wait = AOK /\ (Now.send = <<"set">> \/ Now.send = <<"phrase">>)
        /\ Now.send = <<"phrase">> => step = 11
        /\ step = 2 => Now.send = <<"set">>
    BY <1>12, SetSteps, Zenon DEF Now, IsSetting
  <2>2. phase' = "wait" /\ step' = step /\ offset' = 0 /\ errOffset' = 0
    <3>1. AOK # << >>
      BY DEF AOK
    <3> QED BY <1>2, <2>1, <3>1, Zenon
  <2>3. /\ Len(n) = 1 /\ Len(d) = Len(c) + 1 /\ Now.send[1] \in Settings
        /\ Now.send[1] = "phrase" => step = 11
        /\ step = 2 => Now.send[1] = "set"
    <3>1. Len(d) = Len(c) + Len(n) /\ Len(n) = Len(Now.send)
      BY <1>3, <1>5 DEF IsJoin
    <3>2. CASE Now.send = <<"set">>
      BY <1>5, <3>1, <3>2 DEF Settings
    <3>3. CASE Now.send = <<"phrase">>
      <4>1. <<"set">> # <<"phrase">>
        OBVIOUS
      <4> QED BY <1>5, <2>1, <3>1, <3>3, <4>1 DEF Settings
    <3> QED BY <2>1, <3>2, <3>3
  <2>4. step < 18 /\ step # 1
    BY <1>12 DEF Sets
  <2>5. \A i \in 1 .. Len(d) :
          \/ i \in 1 .. Len(c) /\ d[i] = c[i]
          \/ i = Len(d) /\ d[i].name = Now.send[1] /\ d[i].of = step
    <3>1. \A j \in 1 .. Len(n) : j = 1
      BY <2>3
    <3> QED BY <1>6, <2>3, <3>1, Zenon
  <2>6. OrderInv'
    <3> SUFFICES ASSUME NEW i \in 1 .. Len(d)
        PROVE  /\ d[i].name = "join" => d[i].of = 15
               /\ d[i].name \in Settings => /\ d[i].of = step /\ step \in Sets /\ i = Len(d)
               /\ d[i].name = "phrase" => step = 11
      BY <1>4, <2>2, Zenon DEF OrderInv
    <3>1. "join" \notin Settings /\ "phrase" \in Settings
      BY DEF Settings
    <3>2. CASE i \in 1 .. Len(c) /\ d[i] = c[i]
      <4>1. c[i].name \notin Settings /\ (c[i].name = "join" => c[i].of = 15)
        BY <1>10, <2>4, <3>2, SMT
      <4> QED BY <3>1, <3>2, <4>1, Zenon
    <3>3. CASE i = Len(d) /\ d[i].name = Now.send[1] /\ d[i].of = step
      BY <1>12, <2>3, <3>1, <3>3, Zenon
    <3> QED BY <2>5, <3>2, <3>3
  <2>7. Asked(d)
    <3>1. Len(d) \in 1 .. Len(d) /\ ~(Len(d) \in 1 .. Len(c))
      BY <1>5, <2>3
    <3> QED BY <2>3, <2>5, <3>1, Zenon DEF Asked
  <2>8. Taken'
    <3>1. Now' = Now
      BY <2>2, Zenon DEF Now
    <3> QED BY <1>1, <1>7, <2>2, <3>1, Zenon DEF Taken, Now
  <2>9. Waiting'
    <3>1. offset' <= 1
      BY <2>2
    <3> QED BY <1>1, <1>4, <1>9, <1>12, <2>2, <2>4, <2>7, <2>8, <3>1, Zenon DEF Waiting
  <2>10. PlaceInv'
    BY <2>9, Zenon DEF PlaceInv
  <2>11. FirstInv'
    <3>1. step <= 2 => step = 2
      BY <1>0, <2>4
    <3>2. step <= 2 => \A i \in 1 .. Len(d) : d[i].name \in {"", "exit", "$$$", "set"}
      <4>1. "set" \in {"", "exit", "$$$", "set"}
        OBVIOUS
      <4> QED BY <1>11, <2>3, <2>5, <3>1, <4>1, Zenon
    <3>3. errOffset' <= 1
      BY <2>2
    <3> QED BY <1>1, <1>4, <1>11, <2>2, <2>4, <3>2, <3>3, Zenon DEF FirstInv
  <2> QED BY <1>8, <2>6, <2>10, <2>11, Zenon DEF AnswerInv
<1>13. CASE step = 18
  <2>1. Now.send = <<"set", "set", "set">>
    BY <1>13, OtherSteps, RowsAre DEF Now
  <2>2. \A j \in 1 .. Len(n) : Now.send[j] = "set"
    BY <1>3, <2>1
  <2>3. step' = 18 \/ step' = 19
    <3>1. step' = step \/ step' = step + 1
      BY <1>2, Zenon DEF Moved
    <3> QED BY <1>13, <3>1
  <2>4. ~(step' < 18) /\ ~(step' <= 2) /\ step' # 1 /\ step' # 2
    BY <2>3
  <2>5. OrderInv'
    <3> SUFFICES ASSUME NEW i \in 1 .. Len(d)
        PROVE  /\ d[i].name = "join" => d[i].of = 15
               /\ d[i].name \in Settings => d[i].of = 18
      BY <1>4, <2>4, Zenon DEF OrderInv
    <3>1. "set" # "join"
      OBVIOUS
    <3>2. CASE i \in 1 .. Len(c) /\ d[i] = c[i]
      <4>1. /\ c[i].name = "join" => c[i].of = 15
            /\ c[i].name \in Settings => c[i].of = 18
            /\ step < 18 => c[i].name # "phrase"
        BY <1>10, <3>2, SMT
      <4> QED BY <3>2, <4>1
    <3>3. ASSUME NEW j \in 1 .. Len(n), d[i].name = Now.send[j], d[i].of = step
          PROVE  d[i].name = "set" /\ d[i].of = 18
      BY <1>13, <2>2, <3>3, Zenon
    <3> QED BY <1>6, <3>1, <3>2, <3>3
  <2>6. PlaceInv' /\ FirstInv'
    BY <2>4, Zenon DEF PlaceInv, FirstInv
  <2> QED BY <1>8, <2>5, <2>6, Zenon DEF AnswerInv
<1>14. CASE step \notin Sets /\ step # 18
  <2>1. /\ Now.wait # << >>
        /\ \A j \in 1 .. Len(Now.send) : Now.send[j] \notin Settings /\ (Now.send[j] = "join" => step = 15)
    <3>1. CASE step = 15
      <4>1. Now.wait = <<"A", "s", "!">> /\ Now.send = <<"join">>
        BY <3>1, OtherSteps, RowsAre DEF Now
      <4>2. "join" \notin Settings
        BY DEF Settings
      <4>3. \A j \in 1 .. Len(Now.send) : Now.send[j] = "join"
        BY <4>1
      <4>4. Now.wait # << >>
        BY <4>1
      <4> QED BY <3>1, <4>2, <4>3, <4>4, Zenon
    <3>2. CASE step # 15
      BY <1>0, <1>14, <3>2, OtherSteps, Zenon DEF Now, IsOther
    <3> QED BY <3>1, <3>2
  <2>2. phase' = "wait" /\ step' = step /\ offset' = 0 /\ errOffset' = 0
    BY <1>2, <2>1
  <2>3. \A i \in 1 .. Len(d) :
          \/ i \in 1 .. Len(c) /\ d[i] = c[i]
          \/ d[i].name \notin Settings /\ d[i].of = step /\ (d[i].name = "join" => step = 15)
    <3> TAKE i \in 1 .. Len(d)
    <3>1. ASSUME NEW j \in 1 .. Len(n), d[i].name = Now.send[j], d[i].of = step
          PROVE  d[i].name \notin Settings /\ d[i].of = step /\ (d[i].name = "join" => step = 15)
      BY <1>3, <2>1, <3>1, Zenon
    <3> QED BY <1>6, <3>1, Zenon
  <2>4. step < 18 => ~Asked(d)
    BY <1>9, <2>3, Zenon DEF Asked
  <2>5. OrderInv'
    <3> SUFFICES ASSUME NEW i \in 1 .. Len(d)
        PROVE  /\ d[i].name = "join" => d[i].of = 15
               /\ d[i].name \in Settings => d[i].of = 18
               /\ step < 18 => d[i].name # "phrase"
      BY <1>4, <2>2, Zenon DEF OrderInv
    <3>1. "phrase" \in Settings
      BY DEF Settings
    <3>2. CASE i \in 1 .. Len(c) /\ d[i] = c[i]
      <4>1. /\ c[i].name = "join" => c[i].of = 15
            /\ c[i].name \in Settings => c[i].of = 18
            /\ step < 18 => c[i].name # "phrase"
        BY <1>10, <3>2, SMT
      <4> QED BY <3>2, <4>1
    <3>3. CASE d[i].name \notin Settings /\ d[i].of = step /\ (d[i].name = "join" => step = 15)
      BY <3>1, <3>3, Zenon
    <3> QED BY <2>3, <3>2, <3>3
  <2>6. PlaceInv'
    BY <1>1, <1>4, <1>9, <1>14, <2>2, <2>4, Zenon DEF PlaceInv, Idle
  <2>7. FirstInv'
    <3>1. step # 2 /\ (step <= 2 => step = 1)
      BY <1>0, <1>14 DEF Sets
    <3>2. step = 1 => \A j \in 1 .. Len(n) : Now.send[j] \in {"", "exit", "$$$", "set"}
      <4>1. step = 1 => Now.send = <<"", "exit", "$$$">>
        BY OtherSteps, Zenon DEF Now
      <4>2. \A j \in 1 .. Len(<<"", "exit", "$$$">>) : <<"", "exit", "$$$">>[j] \in {"", "exit", "$$$", "set"}
        <5>1. <<"", "exit", "$$$">> \in Seq({"", "exit", "$$$", "set"})
          OBVIOUS
        <5>2. \A T : \A q \in Seq(T) : \A j \in 1 .. Len(q) : q[j] \in T
          OBVIOUS
        <5> QED BY <5>1, <5>2, Zenon
      <4> QED BY <1>3, <4>1, <4>2, Zenon
    <3>3. step <= 2 => \A i \in 1 .. Len(d) : d[i].name \in {"", "exit", "$$$", "set"}
      BY <1>6, <1>11, <3>1, <3>2, Zenon
    <3> QED BY <1>1, <1>4, <1>11, <2>2, <3>1, <3>3, Zenon DEF FirstInv
  <2> QED BY <1>8, <2>5, <2>6, <2>7, Zenon DEF AnswerInv
<1> QED BY <1>12, <1>13, <1>14

(* The answer to a command that sets nothing holds nothing that counts.      *)
LEMMA OtherReply ==
  ASSUME NEW name \in Names \ Settings, NEW f, NEW t, AnswerIs(name, f, t),
         NEW s \in Nat, name = "join" => s > 14
  PROVE  /\ NotLoud(t, s)
         /\ name \in {"", "exit", "$$$", "set"} => t \in Seq(Calm)
         /\ refused' = refused \/ (name = "join" /\ refused' = refused \cup {f})
<1>1. (\A u \in Seq(Plain) : NotLoud(u, s)) /\ (s > 14 => \A u \in Seq(Mild) : NotLoud(u, s))
  BY QuietTexts
<1>2. \A u \in Seq(Calm) : u \in Seq(Plain)
  BY Parts, Zenon
<1>3. "set" \in Settings /\ "phrase" \in Settings /\ "join" \notin {"", "exit", "$$$"}
  BY DEF Settings
<1>4. CASE t \in Seq(Calm) /\ refused' = refused
  BY <1>1, <1>2, <1>4, Zenon
<1>5. CASE t = Good(name) /\ refused' = refused
  <2>1. CASE name = "join"
    <3>1. name \notin {"", "exit", "$$$", "set"}
      BY <2>1
    <3> QED BY <1>1, <1>5, <2>1, <3>1, GoodJoin, Zenon
  <2>2. CASE name # "join"
    <3>1. name \in Names \ (Settings \cup {"join"})
      BY <2>2
    <3>2. Good(name) \in Seq(Plain) /\ (name \in {"", "exit", "$$$"} => Good(name) \in Seq(Calm))
      BY <3>1, GoodPlain
    <3>3. name \in {"", "exit", "$$$", "set"} => name \in {"", "exit", "$$$"}
      BY <1>3
    <3> QED BY <1>1, <1>5, <3>2, <3>3, Zenon
  <2> QED BY <2>1, <2>2
<1>6. CASE refused' = refused \cup {f} /\ name \in {"set", "phrase", "join"} /\ t = Bad(name)
  <2>1. name = "join"
    BY <1>3, <1>6
  <2>2. name \notin {"", "exit", "$$$", "set"}
    BY <2>1
  <2> QED BY <1>1, <1>6, <2>1, <2>2, GoodJoin, Zenon
<1> QED BY <1>4, <1>5, <1>6, Zenon DEF AnswerIs

(* The answer to a setting holds OK once, at its end, and only if it was     *)
(* taken.                                                                    *)
LEMMA SettingReply ==
  ASSUME phrase \in Seq({"A", "O", "K", "."}), ~Spells(phrase),
         NEW name \in Settings, NEW f, NEW t, AnswerIs(name, f, t),
         NEW R, NEW p \in Seq(R), NEW q \in Seq(R), IsSaid(q, t),
         NEW s \in Nat, NEW o \in 0 .. 1, Quiet(p, s), NoR(p) \/ s # 2,
         name = "phrase" => s = 11, s <= 14 => o = 0
  PROVE  /\ Once(p \o q, o, s, refused' = refused)
         /\ s = 2 => NoR(p \o q) \/ Quiet(p \o q, s)
         /\ refused' = refused \/ refused' = refused \cup {f}
<1>1. /\ Quiet(p, s) /\ NotLoud(t, s) => Quiet(p \o q, s)
      /\ NoR(p) /\ (\A i \in 1 .. Len(t) : t[i] # "R") => NoR(p \o q)
  BY AddQuiet
<1>2. \A u \in Seq(Plain) : NotLoud(u, s)
  BY QuietTexts
<1>3. ASSUME t \in Seq(Plain) PROVE Quiet(p \o q, s) /\ Once(p \o q, o, s, refused' = refused)
  <2>1. Quiet(p \o q, s)
    BY <1>1, <1>2, <1>3, Zenon
  <2>2. PICK a, b : a = p \o q /\ b = (refused' = refused)
    BY Zenon
  <2>3. Once(a, o, s, b)
    BY <2>1, <2>2, QuietOnce, Zenon
  <2> QED BY <2>1, <2>2, <2>3, Zenon
<1>4. CASE t \in Seq(Calm) /\ refused' = refused
  <2>1. t \in Seq(Plain)
    BY <1>4, Parts, Zenon
  <2> QED BY <1>3, <1>4, <2>1
<1>5. CASE t = Good(name) /\ refused' = refused
  <2>1. Once(p \o q, o, s, TRUE)
    <3>1. name = "phrase" => s <= 14 /\ o = 0
      OBVIOUS
    <3>2. IsSaid(q, Good(name))
      BY <1>5
    <3> QED BY <3>1, <3>2, GoodOnce, Zenon
  <2>2. Once(p \o q, o, s, refused' = refused)
    BY <1>5, <2>1, Zenon DEF Once
  <2>3. t \in Seq(Chars \ {"R"})
    BY <1>5, GoodSetting, Zenon
  <2>4. \A i \in 1 .. Len(t) : t[i] # "R"
    BY <2>3
  <2> QED BY <1>1, <1>5, <2>2, <2>4, Zenon
<1>6. CASE refused' = refused \cup {f} /\ t = Bad(name)
  <2>1. CASE name = "set"
    <3>1. t \in Seq(Plain)
      BY <1>6, <2>1, BadSetting, Zenon
    <3> QED BY <1>3, <1>6, <3>1
  <2>2. CASE name = "phrase"
    <3>1. s = 11 /\ s <= 14 /\ o = 0 /\ s # 2
      BY <2>2
    <3>2. ~Spells(t)
      BY <1>6, <2>2, BadSetting, Zenon
    <3>3. PICK b : b = (refused' = refused)
      BY Zenon
    <3>4. Once(p \o q, 0, s, b)
      BY <3>1, <3>2, BadOnce
    <3> QED BY <1>6, <3>1, <3>3, <3>4, Zenon
  <2> QED BY <2>1, <2>2 DEF Settings
<1> QED BY <1>4, <1>5, <1>6, Zenon DEF AnswerIs

LEMMA ReplyAnswer ==
  ASSUME WiFlyTypeOK, TurnInv, AnswerInv, AnswerCommand,
         phrase \in Seq({"A", "O", "K", "."}), ~Spells(phrase)
  PROVE  AnswerInv'
<1>0. /\ driver' = driver /\ commands # << >> /\ commands' = Tail(commands) /\ commands \in CommandsOf(step)
      /\ Pending' = Pending \o out' /\ Pending \in CharsOf(step) /\ out' \in CharsOf(step)
      /\ Head(commands).name \in Names /\ Head(commands).of \in 1 .. step
  BY AnswerTypes
<1>d. /\ step' = step /\ phase' = phase /\ offset' = offset /\ errOffset' = errOffset /\ Now' = Now
      /\ step \in 1 .. 22 /\ step \in Nat /\ offset \in Nat
  <2>1. step' = step /\ phase' = phase /\ offset' = offset /\ errOffset' = errOffset
    BY <1>0, Zenon DEF driver
  <2>2. Now' = Now
    BY <2>1, Zenon DEF Now
  <2> QED BY <2>1, <2>2, StepIs, Zenon
<1>c. PICK c, d, name, f : c = commands /\ d = commands' /\ name = Head(commands).name /\ f = Head(commands).of
  BY Zenon
<1>t. PICK t \in Seq(Chars) : IsSaid(out', t) /\ AnswerIs(name, f, t)
  BY <1>c, AnswerTypes
<1>1. /\ Len(c) \in Nat /\ Len(c) > 0 /\ Len(d) = Len(c) - 1 /\ c[1].name = name /\ c[1].of = f
      /\ \A i \in 1 .. Len(d) : d[i] = c[i + 1]
      /\ name \in Names /\ f \in 1 .. step
  BY <1>0, <1>c DEF CommandsOf
<1>2. \A i \in 1 .. Len(d) : i + 1 \in 1 .. Len(c) /\ d[i] = c[i + 1] /\ (i + 1 = Len(c) => i = Len(d))
  BY <1>1
<1>o. 1 \in 1 .. Len(c)
  BY <1>1
<1>3. OrderInv'
  <2> SUFFICES ASSUME NEW i \in 1 .. Len(d)
               PROVE  /\ d[i].name = "join" => d[i].of = 15
                      /\ d[i].name \in Settings =>
                           \/ d[i].of = 18
                           \/ /\ d[i].of = step /\ step \in Sets /\ i = Len(d)
                              /\ phase \in {"wait", "swallow", "failed"}
                      /\ step < 18 /\ d[i].name = "phrase" => step = 11
    BY <1>c, <1>d, Zenon DEF OrderInv
  <2>1. i + 1 \in 1 .. Len(c) /\ d[i] = c[i + 1] /\ (i + 1 = Len(c) => i = Len(d))
    BY <1>2
  <2>2. PICK j \in 1 .. Len(c) : d[i] = c[j] /\ (j = Len(c) => i = Len(d))
    BY <2>1
  <2> QED BY <1>c, <2>2, Zenon DEF AnswerInv, OrderInv
<1>4. Asked(d) => Asked(c)
  BY <1>2, Zenon DEF Asked
<1>5. name \notin Settings => (Asked(c) => Asked(d))
  <2> SUFFICES ASSUME name \notin Settings, NEW i \in 1 .. Len(c), c[i].name \in Settings PROVE Asked(d)
    BY Zenon DEF Asked
  <2>1. i # 1
    BY <1>1
  <2>2. i - 1 \in 1 .. Len(d) /\ (i - 1) + 1 = i
    BY <1>1, <2>1
  <2> QED BY <1>2, <2>2 DEF Asked
<1>6. /\ name = "join" => f = 15
      /\ name \in Settings =>
           \/ f = 18
           \/ f = step /\ step \in Sets /\ 1 = Len(c) /\ phase \in {"wait", "swallow", "failed"}
      /\ step < 18 /\ name = "phrase" => step = 11
  BY <1>1, <1>c, <1>o, Zenon DEF AnswerInv, OrderInv
<1>7. ASSUME name \in Settings, step < 18
      PROVE  Asked(c) /\ ~Asked(d) /\ f = step /\ step \in Sets /\ phase \in {"wait", "swallow", "failed"}
  <2>1. f # 18
    <3>1. f \in 1 .. step
      BY <1>1
    <3> QED BY <1>d, <1>7, <3>1
  <2>2. f = step /\ step \in Sets /\ 1 = Len(c) /\ phase \in {"wait", "swallow", "failed"}
    BY <1>6, <1>7, <2>1
  <2>3. Asked(c)
    BY <1>1, <1>7, <1>o, Zenon DEF Asked
  <2>4. \A i \in 1 .. Len(d) : FALSE
    <3>1. Len(d) = Len(c) - 1 /\ Len(c) = 1
      BY <1>1, <2>2
    <3> QED BY <3>1
  <2> QED BY <2>2, <2>3, <2>4, Zenon DEF Asked
<1>8. name \in Names \ Settings => NotLoud(t, step)
  <2>1. name = "join" => step > 14
    <3>1. f \in 1 .. step /\ (name = "join" => f = 15)
      BY <1>1, <1>6
    <3> QED BY <1>d, <3>1
  <2> QED BY <1>d, <1>t, <2>1, OtherReply, Zenon
<1>9. ASSUME name \notin Settings
      PROVE  /\ refused' = refused \/ (name = "join" /\ f = 15 /\ refused' = refused \cup {f})
             /\ name \in {"", "exit", "$$$", "set"} => t \in Seq(Calm)
  <2>1. name = "join" => step > 14
    <3>1. f \in 1 .. step /\ (name = "join" => f = 15)
      BY <1>1, <1>6
    <3> QED BY <1>d, <3>1
  <2>2. name \in Names \ Settings
    BY <1>1, <1>9
  <2> QED BY <1>6, <1>d, <1>t, <2>1, <2>2, OtherReply, Zenon
<1>10. ~Script[15].checked /\ ~Script[18].checked
  BY OtherSteps, RowsAre
<1>11. refused' = refused \/ refused' = refused \cup {f}
  BY <1>t, Zenon DEF AnswerIs
<1>12. RefusedInv'
  <2> SUFFICES ASSUME NEW s \in refused', Script[s].checked
               PROVE  /\ s = step /\ step \in Sets
                      /\ phase \in {"wait", "failed"} \/ (phase = "swallow" /\ errOffset = 3)
    BY <1>d, Zenon DEF RefusedInv
  <2>1. CASE s \in refused
    BY <2>1, Zenon DEF AnswerInv, RefusedInv
  <2>2. CASE s \notin refused
    <3>1. s = f /\ f # 15 /\ f # 18
      BY <1>10, <1>11, <2>2
    <3>2. name \in Settings
      BY <1>9, <1>11, <2>2, <3>1
    <3>3. f = step /\ step \in Sets /\ phase \in {"wait", "swallow", "failed"}
      BY <1>6, <3>1, <3>2
    <3>4. step < 18
      BY <3>3 DEF Sets
    <3>5. Asked(commands)
      BY <1>7, <1>c, <3>2, <3>4
    <3>6. phase = "swallow" => errOffset = 3
      <4>1. phase = "swallow" => phase # "wait" /\ phase # "failed"
        OBVIOUS
      <4> QED BY <3>4, <3>5, <4>1, Zenon DEF AnswerInv, PlaceInv, Failed, Refusal, Waiting, Answered, Idle
    <3> QED BY <3>1, <3>3, <3>6
  <2> QED BY <2>1, <2>2
<1>e. PICK p, q, o, s, e : p = Pending /\ q = out' /\ o = offset /\ s = step /\ e = errOffset
  BY Zenon
<1>f. /\ p \in CharsOf(s) /\ q \in CharsOf(s) /\ IsSaid(q, t) /\ s \in 1 .. 22 /\ s \in Nat /\ o \in Nat
      /\ Pending' = p \o q
  BY <1>0, <1>d, <1>e, <1>t
<1>g. /\ NotLoud(t, s) /\ Quiet(p, s) => Quiet(p \o q, s)
      /\ NoR(p) /\ (\A i \in 1 .. Len(t) : t[i] # "R") => NoR(p \o q)
  BY <1>f, AddQuiet, Zenon DEF CharsOf
<1>h. t \in Seq(Calm) => \A i \in 1 .. Len(t) : t[i] # "R"
  BY DEF Calm
<1>13. ASSUME s = 1 \/ (s = 2 /\ (phase = "send" \/ Asked(d)))
       PROVE  NoR(p \o q)
  <2>1. step = 1 \/ (step = 2 /\ (phase = "send" \/ Asked(d)))
    BY <1>13, <1>e
  <2>2. NoR(p)
    BY <1>4, <1>c, <1>e, <2>1, Zenon DEF AnswerInv, FirstInv
  <2>3. step < 18 /\ step <= 2
    BY <2>1
  <2>4. name \notin Settings
    <3>1. SUFFICES ASSUME name \in Settings PROVE FALSE
      OBVIOUS
    <3>2. ~Asked(d) /\ step \in Sets /\ phase \in {"wait", "swallow", "failed"}
      BY <1>7, <2>3, <3>1
    <3>3. step # 1 /\ phase # "send"
      BY <3>2 DEF Sets
    <3> QED BY <2>1, <3>2, <3>3
  <2>5. name \in {"", "exit", "$$$", "set"}
    BY <1>1, <1>c, <1>o, <2>3, Zenon DEF AnswerInv, FirstInv
  <2> QED BY <1>9, <1>g, <1>h, <2>2, <2>4, <2>5, Zenon
<1>14. FirstInv'
  <2>1. step <= 2 => \A i \in 1 .. Len(d) : d[i].name \in {"", "exit", "$$$", "set"}
    BY <1>2, <1>c, Zenon DEF AnswerInv, FirstInv
  <2>2. step = 2 /\ Asked(d) => errOffset <= 1
    BY <1>4, <1>c, Zenon DEF AnswerInv, FirstInv
  <2>3. step = 1 \/ (step = 2 /\ (phase = "send" \/ Asked(d))) => NoR(Pending')
    BY <1>13, <1>e, <1>f, Zenon
  <2> QED BY <1>c, <1>d, <2>1, <2>2, <2>3, Zenon DEF FirstInv
<1>15. ASSUME name \in Settings, step < 18, Waiting PROVE Answered'
  <2>1. /\ phase = "wait" /\ step \in Sets /\ Taken /\ Quiet(p, s) /\ offset <= 1
        /\ step <= 14 => offset = 0
    BY <1>15, <1>e, Zenon DEF Waiting
  <2>2. Asked(commands) /\ ~Asked(d) /\ f = step
    BY <1>7, <1>15, <1>c
  <2>3. step = 2 => NoR(p) /\ errOffset <= 1
    BY <1>e, <2>2, Zenon DEF AnswerInv, FirstInv
  <2>4. o \in 0 .. 1 /\ (s <= 14 => o = 0) /\ (s = 2 => NoR(p))
    BY <1>e, <1>f, <2>1, <2>3
  <2>5. name = "phrase" => s = 11
    BY <1>6, <1>15, <1>e
  <2>6. /\ Once(p \o q, o, s, refused' = refused)
        /\ s = 2 => NoR(p \o q) \/ Quiet(p \o q, s)
    BY <1>f, <1>t, <1>15, <2>1, <2>4, <2>5, SettingReply, Zenon DEF CharsOf
  <2>7. refused' = refused => Taken'
    BY <1>d, <2>1, Zenon DEF Taken, Now
  <2>8. Once(p \o q, o, s, Taken')
    BY <2>6, <2>7, Zenon DEF Once
  <2> QED BY <1>c, <1>d, <1>e, <1>f, <2>1, <2>2, <2>3, <2>6, <2>8, Zenon DEF Answered
<1>16. ASSUME name \notin Settings, step < 18, Failed \/ Refusal \/ Waiting \/ Answered \/ Idle
       PROVE  (Failed \/ Refusal \/ Waiting \/ Answered \/ Idle)'
  <2>1. NotLoud(t, s)
    BY <1>1, <1>8, <1>16, <1>e
  <2>2. Asked(d) <=> Asked(commands)
    BY <1>4, <1>5, <1>16, <1>c
  <2>3. step \in Sets => (Taken' <=> Taken)
    <3>1. step \in Sets => step # 15
      BY DEF Sets
    <3>2. step \in Sets => (step \in refused' <=> step \in refused)
      BY <1>9, <1>16, <3>1
    <3> QED BY <1>d, <3>2, Zenon DEF Taken, Now
  <2>4. CASE Failed
    BY <1>d, <2>4, Zenon DEF Failed
  <2>5. CASE Refusal
    BY <1>d, <2>5, Zenon DEF Refusal, Now
  <2>6. CASE Waiting
    <3>1. Quiet(p \o q, s)
      BY <1>e, <1>g, <2>1, <2>6, Zenon DEF Waiting
    <3>2. Waiting'
      BY <1>c, <1>d, <1>e, <1>f, <2>2, <2>3, <2>6, <3>1, Zenon DEF Waiting
    <3> QED BY <3>2
  <2>7. CASE Answered
    <3>1. PICK b : b = Taken
      BY Zenon
    <3>2. /\ step \in Sets /\ phase = "wait" /\ ~Asked(commands) /\ Once(p, o, s, b)
          /\ step = 2 => (NoR(p) /\ errOffset <= 1) \/ Quiet(p, s)
      BY <1>e, <2>7, <3>1, Zenon DEF Answered
    <3>3. Once(p \o q, o, s, b)
      BY <1>f, <2>1, <3>2, AddOnce, Zenon DEF CharsOf
    <3>4. Once(p \o q, o, s, Taken')
      BY <2>3, <3>1, <3>2, <3>3, Zenon DEF Once
    <3>5. step = 2 => (NoR(p \o q) /\ errOffset <= 1) \/ Quiet(p \o q, s)
      <4>1. SUFFICES ASSUME step = 2 PROVE (NoR(p \o q) /\ errOffset <= 1) \/ Quiet(p \o q, s)
        OBVIOUS
      <4>2. step <= 2
        BY <4>1
      <4>3. name \in {"", "exit", "$$$", "set"}
        BY <1>1, <1>c, <1>o, <4>2, Zenon DEF AnswerInv, FirstInv
      <4>4. t \in Seq(Calm)
        BY <1>9, <1>16, <4>3
      <4> QED BY <1>g, <1>h, <2>1, <3>2, <4>1, <4>4, Zenon
    <3>6. Answered'
      BY <1>c, <1>d, <1>e, <1>f, <2>2, <3>2, <3>4, <3>5, Zenon DEF Answered
    <3> QED BY <3>6
  <2>8. CASE Idle
    <3>1. Quiet(p \o q, s)
      BY <1>e, <1>g, <2>1, <2>8, Zenon DEF Idle
    <3>2. Idle'
      BY <1>c, <1>d, <1>e, <1>f, <2>2, <2>8, <3>1, Zenon DEF Idle
    <3> QED BY <3>2
  <2> QED BY <1>16, <2>4, <2>5, <2>6, <2>7, <2>8, Zenon
<1>17. ASSUME step < 18 PROVE (Failed \/ Refusal \/ Waiting \/ Answered \/ Idle)'
  <2>1. Failed \/ Refusal \/ Waiting \/ Answered \/ Idle
    BY <1>17, Zenon DEF AnswerInv, PlaceInv
  <2>2. CASE name \in Settings
    <3>1. Asked(commands)
      BY <1>7, <1>17, <1>c, <2>2
    <3>2. Failed \/ Refusal \/ Waiting
      BY <2>1, <3>1, Zenon DEF Answered, Idle
    <3>3. Failed => Failed'
      BY <1>d, Zenon DEF Failed
    <3>4. Refusal => Refusal'
      BY <1>d, Zenon DEF Refusal, Now
    <3> QED BY <1>15, <1>17, <2>2, <3>2, <3>3, <3>4, Zenon
  <2> QED BY <1>16, <1>17, <2>1, <2>2, Zenon
<1>18. PlaceInv'
  BY <1>d, <1>17, Zenon DEF PlaceInv
<1> QED BY <1>3, <1>12, <1>14, <1>18, Zenon DEF AnswerInv

LEMMA InitAnswer == WiFlyInit => AnswerInv
<1> SUFFICES ASSUME WiFlyInit PROVE AnswerInv
  OBVIOUS
<1>1. /\ step = 1 /\ phase = "send" /\ errOffset = 0 /\ refused = {}
      /\ commands = << >> /\ Pending = << >>
  BY DEF WiFlyInit, Pending
<1>2. (\A i \in 1 .. Len(commands) : FALSE) /\ (\A i \in 1 .. Len(Pending) : FALSE)
  BY <1>1
<1>3. OrderInv /\ RefusedInv
  BY <1>1, <1>2 DEF OrderInv, RefusedInv
<1>4. ~Asked(commands) /\ Quiet(Pending, step) /\ NoR(Pending)
  BY <1>2, Zenon DEF Asked, Quiet, NoR
<1>5. PlaceInv
  BY <1>1, <1>4 DEF PlaceInv, Idle
<1>6. FirstInv
  BY <1>1, <1>2, <1>4 DEF FirstInv
<1> QED BY <1>3, <1>5, <1>6, Zenon DEF AnswerInv

(* Every step keeps the invariant; the passphrase does not change.           *)
LEMMA WiFlyInvStep == WiFlyInv /\ [WiFlyNext]_wiflyVars => WiFlyInv'
<1> SUFFICES ASSUME WiFlyInv, [WiFlyNext]_wiflyVars PROVE WiFlyInv'
  OBVIOUS
<1>1. WiFlyTypeOK /\ TurnInv /\ (~Spelled => AnswerInv)
  BY Zenon DEF WiFlyInv
<1>2. phrase \in Seq({"A", "O", "K", "."})
  BY <1>1, PhrasesAssumption, Zenon DEF WiFlyTypeOK
<1>3. ~Spelled => ~Spells(phrase)
  BY <1>2, SpelledIs, Zenon
<1>4. SUFFICES WiFlyTypeOK' /\ TurnInv' /\ phrase' = phrase /\ (AnswerInv /\ ~Spelled => AnswerInv')
  BY <1>1, Zenon DEF WiFlyInv, Spelled
<1>5. CASE Send
  <2>1. phrase' = phrase
    BY <1>5, Zenon DEF Send
  <2> QED BY <1>1, <1>5, <2>1, SendTypes, SendAnswer, Zenon
<1>6. CASE WaitForResponse
  <2>1. phrase' = phrase
    BY <1>6, Zenon DEF WaitForResponse
  <2> QED BY <1>1, <1>6, <2>1, WaitTypes, WaitAnswer, Zenon
<1>7. CASE Swallow
  <2>1. phrase' = phrase
    BY <1>7, Zenon DEF Swallow
  <2> QED BY <1>1, <1>7, <2>1, SwallowTypes, SwallowAnswer, Zenon
<1>8. CASE ReadResponse \/ FlushRX
  <2>1. phrase' = phrase
    BY <1>8, Zenon DEF ReadResponse, FlushRX
  <2> QED BY <1>1, <1>8, <2>1, ReadTypes, ReadAnswer, Zenon
<1>9. CASE AnswerCommand
  <2>1. phrase' = phrase
    BY <1>9, Zenon DEF AnswerCommand, driver
  <2> QED BY <1>1, <1>2, <1>3, <1>9, <2>1, AnswerTypes, ReplyAnswer, Zenon
<1>10. CASE Arrive
  <2>1. phrase' = phrase
    BY <1>10, Zenon DEF Arrive, driver
  <2> QED BY <1>1, <1>10, <2>1, ArriveTypes, ArriveAnswer, Zenon
<1>11. CASE UNCHANGED wiflyVars
  <2>1. /\ phrase' = phrase /\ step' = step /\ phase' = phase /\ offset' = offset /\ errOffset' = errOffset
        /\ commands' = commands /\ out' = out /\ fifo' = fifo /\ refused' = refused
    BY <1>11, Zenon DEF wiflyVars
  <2>2. Pending' = Pending /\ Now' = Now
    BY <2>1, Zenon DEF Pending, Now
  <2>3. Taken' <=> Taken
    BY <2>1, <2>2, Zenon DEF Taken
  <2>4. OrderInv => OrderInv'
    BY <2>1, Zenon DEF OrderInv
  <2>5. RefusedInv => RefusedInv'
    BY <2>1, Zenon DEF RefusedInv
  <2>6. FirstInv => FirstInv'
    BY <2>1, <2>2, Zenon DEF FirstInv
  <2>7. Failed \/ Refusal \/ Waiting => (Failed \/ Refusal \/ Waiting)'
    BY <2>1, <2>2, <2>3, Zenon DEF Failed, Refusal, Waiting
  <2>8. Answered => Answered'
    BY <2>1, <2>2, <2>3, Zenon DEF Answered, Once
  <2>9. Idle => Idle'
    BY <2>1, <2>2, Zenon DEF Idle
  <2>10. PlaceInv => PlaceInv'
    BY <2>1, <2>7, <2>8, <2>9, Zenon DEF PlaceInv
  <2> QED BY <1>1, <1>11, <2>1, <2>4, <2>5, <2>6, <2>10, StutterTypes, Zenon DEF AnswerInv
<1> QED BY <1>5, <1>6, <1>7, <1>8, <1>9, <1>10, <1>11, Zenon DEF WiFlyNext, Driver

\* What the driver goes by is what the module was told: Setup and
\* JoinNetwork return only if the module took every setting whose answer the
\* code looks at, unless the passphrase itself spells that answer.  For
\* every set of passphrases.
THEOREM JoinedAsToldHolds == WiFlySpec => []JoinedAsTold
<1>1. WiFlyInit => WiFlyInv
  BY InitType, InitAnswer, Zenon DEF WiFlyInv
<1>2. WiFlyInv => JoinedAsTold
  <2> SUFFICES ASSUME WiFlyInv PROVE JoinedAsTold
    OBVIOUS
  <2>1. phase = "joined" => phase \notin {"wait", "failed"} /\ phase # "swallow"
    OBVIOUS
  <2> QED BY <2>1, Zenon DEF WiFlyInv, AnswerInv, RefusedInv, JoinedAsTold, SettingsTaken
<1> QED BY <1>1, <1>2, WiFlyInvStep, PTL DEF WiFlySpec

-----------------------------------------------------------------------------
(* Whose answer is taken.  Beside what can count for an answer, the          *)
(* invariant follows whose it is: which steps can have caused a character    *)
(* (Source), in what order they are on their way (IsInTurn), and the least   *)
(* step of which something is left (Low).                                    *)
Enters == {1, 6, 9, 17}
Lines == {7, 21}

Sender(name) ==
  CASE name \in {"", "$$$"} -> Enters
    [] name = "exit" -> Enters \cup {8, 22}
    [] name = "save" -> {3, 19}
    [] name = "reboot" -> {4}
    [] name = "ver" -> {7}
    [] name = "join" -> {15}
    [] name = "get" -> {21}
    [] OTHER -> Sets \cup {18}

Source(c) ==
  CASE c = "D" -> Enters
    [] c = "X" -> Enters \cup {8, 22}
    [] c = "g" -> {3, 19, 21}
    [] c = "b" -> {4}
    [] c = "v" -> {7}
    [] c = "!" -> {15}
    [] c = "p" -> {21}
    [] c = "K" -> Sets \cup {18}
    [] c = "R" -> Sets \cup {4, 18}
    [] OTHER -> 1 .. 22

(* The last character of what each step but one waits for.                   *)
Ending(s) ==
  CASE s \in Enters -> "D"
    [] s \in Sets -> "K"
    [] s \in {3, 19} -> "g"
    [] s = 4 -> "b"
    [] s = 5 -> "E"
    [] s = 7 -> "v"
    [] s \in {8, 22} -> "X"
    [] s = 15 -> "!"
    [] s = 20 -> "<>"
    [] s = 21 -> "p"
    [] OTHER -> ""

Low(s) ==
  CASE s <= 2 -> 1
    [] s \in 3 .. 6 -> 2
    [] s \in {16, 19} -> s - 2
    [] s >= 20 -> 18
    [] OTHER -> s - 1

(* The last characters of the line that answers a request, from its end.     *)
Behind(k) == <<"<>", "LF", "CR", ".", "LF", "CR">>[k + 1]

IsSource(p, cs, r) ==
  /\ \A i \in 1 .. Len(p) : /\ p[i].of \in Source(p[i].c)
                            /\ p[i].c = "R" /\ p[i].of = 18 => 18 \in r
  /\ \A i \in 1 .. Len(cs) : cs[i].of \in Sender(cs[i].name)

IsInTurn(p, cs) ==
  /\ \A i, j \in 1 .. Len(p) : i <= j => p[i].of <= p[j].of
  /\ \A i \in 1 .. Len(p), j \in 1 .. Len(cs) : p[i].of <= cs[j].of
  /\ \A i, j \in 1 .. Len(cs) : i <= j => cs[i].of <= cs[j].of

Above(p, cs, n) ==
  /\ \A i \in 1 .. Len(p) : n <= p[i].of
  /\ \A i \in 1 .. Len(cs) : n <= cs[i].of
Below(p, cs, n) ==
  /\ \A i \in 1 .. Len(p) : p[i].of < n
  /\ \A i \in 1 .. Len(cs) : cs[i].of < n

KOf(p, s) == \A i \in 1 .. Len(p) : p[i].c = "K" => p[i].of = s

(* The request is the last command, and nothing of its answer is there, or   *)
(* the end of the answer is the end of what is on its way.                   *)
LineLeft(p, cs, s) ==
  /\ \A i \in 1 .. Len(cs) : cs[i].of = s => i = Len(cs) /\ \A j \in 1 .. Len(p) : p[j].of < s
  /\ \A i \in 1 .. Len(p) :
       p[i].of = s => /\ Len(p) - i <= 7
                      /\ Len(p) - i < 6 => p[i].c = Behind(Len(p) - i)
                      /\ p[i].c = Ending(s) <=> Len(p) - i = 6

(* The request was answered, and read is what has been read of its line.     *)
LineCame(p, cs, s, ph, read) ==
  /\ Len(cs) = 0 /\ \A i \in 1 .. Len(p) : p[i].of = s
  /\ ph = "swallow" => Len(p) = 6
  /\ ph = "line" => \/ read = << >> /\ Len(p) \in 4 .. 6
                    \/ read = <<[c |-> ".", of |-> s]>> /\ Len(p) = 3

Refused == errOffset = 3 /\ Now.checked
LowInv ==
  /\ phase \in {"send", "wait"} => Above(Pending, commands, Low(step))
  /\ phase = "swallow" => Refused \/ Above(Pending, commands, Low(step + 1))
  /\ phase \in {"line", "flush"} => ~Refused /\ Above(Pending, commands, Low(step + 1))
  /\ phase = "send" => Below(Pending, commands, step)
KInv == step \in Sets /\ phase = "wait" => KOf(Pending, step)
LinesInv ==
  /\ phase = "line" => step \in Lines
  /\ phase # "line" => reply = << >>
  /\ step \in Lines =>
       /\ LineLeft(Pending, commands, step)
       /\ phase \in {"swallow", "line"} /\ (step = 7 \/ 18 \notin refused) =>
            LineCame(Pending, commands, step, phase, reply)

OwnInv ==
  /\ IsSource(Pending, commands, refused) /\ IsInTurn(Pending, commands)
  /\ LowInv /\ KInv /\ LinesInv

-----------------------------------------------------------------------------
(* The steps.                                                                *)
RowOK(r, s) ==
  /\ s # 18 => Len(r.wait) > 0 /\ r.wait[Len(r.wait)] = Ending(s)
  /\ ~r.checked => s \notin Enters \cup (Sets \ {2})
  /\ r.then = "line" <=> s \in Lines
  /\ \A i \in 1 .. Len(r.send) : s \in Sender(r.send[i])
  /\ s \in Lines => Len(r.send) = 1
  /\ s \in {5, 20} => r.send = << >>

LEMMA Tables ==
  /\ Low(1) = 1 /\ Low(2) = 1 /\ Low(3) = 2 /\ Low(4) = 2 /\ Low(5) = 2 /\ Low(6) = 2
  /\ Low(7) = 6 /\ Low(8) = 7 /\ Low(9) = 8 /\ Low(10) = 9 /\ Low(11) = 10 /\ Low(12) = 11
  /\ Low(13) = 12 /\ Low(14) = 13 /\ Low(15) = 14 /\ Low(16) = 14 /\ Low(17) = 16
  /\ Low(18) = 17 /\ Low(19) = 17 /\ Low(20) = 18 /\ Low(21) = 18 /\ Low(22) = 18 /\ Low(23) = 18
  /\ \A s \in Enters : Ending(s) = "D"
  /\ \A s \in Sets : Ending(s) = "K"
  /\ Ending(3) = "g" /\ Ending(19) = "g" /\ Ending(4) = "b" /\ Ending(5) = "E" /\ Ending(7) = "v"
  /\ Ending(8) = "X" /\ Ending(22) = "X" /\ Ending(15) = "!" /\ Ending(20) = "<>" /\ Ending(21) = "p"
<1>1. /\ Low(1) = 1 /\ Low(2) = 1 /\ Low(3) = 2 /\ Low(4) = 2 /\ Low(5) = 2 /\ Low(6) = 2
      /\ Low(7) = 6 /\ Low(8) = 7 /\ Low(9) = 8 /\ Low(10) = 9 /\ Low(11) = 10 /\ Low(12) = 11
  BY DEF Low
<1>2. /\ Low(13) = 12 /\ Low(14) = 13 /\ Low(15) = 14 /\ Low(16) = 14 /\ Low(17) = 16
      /\ Low(18) = 17 /\ Low(19) = 17 /\ Low(20) = 18 /\ Low(21) = 18 /\ Low(22) = 18 /\ Low(23) = 18
  BY DEF Low
<1>3. \A s \in Enters : Ending(s) = "D"
  BY DEF Ending, Sets, Enters
<1>4. \A s \in Sets : Ending(s) = "K"
  BY DEF Ending, Sets, Enters
<1>5. /\ Ending(3) = "g" /\ Ending(19) = "g" /\ Ending(4) = "b" /\ Ending(5) = "E" /\ Ending(7) = "v"
      /\ Ending(8) = "X" /\ Ending(22) = "X" /\ Ending(15) = "!" /\ Ending(20) = "<>" /\ Ending(21) = "p"
  BY DEF Ending, Sets, Enters
<1> QED BY <1>1, <1>2, <1>3, <1>4, <1>5

LEMMA Literal ==
  /\ Len(<< >>) = 0
  /\ \A a : Len(<<a>>) = 1 /\ \A i \in 1 .. Len(<<a>>) : <<a>>[i] = a
  /\ \A a, b : Len(<<a, b>>) = 2 /\ <<a, b>>[2] = b
  /\ \A a, b, c : /\ Len(<<a, b, c>>) = 3 /\ <<a, b, c>>[3] = c
                  /\ \A i \in 1 .. Len(<<a, b, c>>) : <<a, b, c>>[i] \in {a, b, c}
<1>1. \A a : Len(<<a>>) = 1 /\ \A i \in 1 .. 1 : <<a>>[i] = a
  OBVIOUS
<1>2. \A a, b, c : /\ Len(<<a, b, c>>) = 3 /\ <<a, b, c>>[3] = c
                   /\ \A i \in 1 .. 3 : <<a, b, c>>[i] \in {a, b, c}
  <2> TAKE a, b, c
  <2>1. <<a, b, c>> \in Seq({a, b, c}) /\ Len(<<a, b, c>>) = 3 /\ <<a, b, c>>[3] = c
    OBVIOUS
  <2>2. \A S : \A q \in Seq(S) : \A i \in 1 .. Len(q) : q[i] \in S
    OBVIOUS
  <2> QED BY <2>1, <2>2, Zenon
<1>3. \A a, b : Len(<<a, b>>) = 2 /\ <<a, b>>[2] = b
  OBVIOUS
<1> QED BY <1>1, <1>2, <1>3, Zenon

(* A step that sends at most one command.                                    *)
LEMMA OneRow ==
  ASSUME NEW r, NEW s, r.checked = FALSE, s \notin Enters \cup Sets, s # 18,
         Len(r.wait) > 0, r.wait[Len(r.wait)] = Ending(s), r.then = "line" <=> s \in Lines,
         \/ r.send = << >> /\ s \notin Lines
         \/ s \notin {5, 20} /\ \E c : r.send = <<c>> /\ s \in Sender(c)
  PROVE  RowOK(r, s)
<1>1. CASE r.send = << >> /\ s \notin Lines
  <2>1. \A i \in 1 .. Len(r.send) : FALSE
    BY <1>1
  <2> QED BY <1>1, <2>1, Zenon DEF RowOK
<1>2. ASSUME s \notin {5, 20}, NEW c, r.send = <<c>>, s \in Sender(c) PROVE RowOK(r, s)
  <2>0. PICK w : w = r.send
    OBVIOUS
  <2>a. Len(w) = 1 /\ \A i \in 1 .. Len(w) : w[i] = c
    BY <1>2, <2>0
  <2>1. Len(r.send) = 1 /\ \A i \in 1 .. Len(r.send) : r.send[i] = c
    BY <2>0, <2>a, Zenon
  <2>2. \A i \in 1 .. Len(r.send) : s \in Sender(r.send[i])
    BY <1>2, <2>1, Zenon
  <2> QED BY <1>2, <2>1, <2>2, Zenon DEF RowOK
<1> QED BY <1>1, <1>2, Zenon

LEMMA RowsOK ==
  \A s \in 1 .. 22 : RowOK(Script[s], s)
<1>1. ASSUME NEW t \in {"next", "flush"}, NEW s \in Enters PROVE RowOK(Enter(t), s)
  <2>1. /\ Enter(t).send = <<"", "exit", "$$$">> /\ Enter(t).wait = <<"C", "M", "D">>
        /\ Enter(t).checked = TRUE /\ Enter(t).then = t
    BY DEF Enter, Do
  <2>2. Ending(s) = "D" /\ s \notin Lines /\ s # 18 /\ s \notin {5, 20}
    BY Tables DEF Enters, Lines
  <2>3. s \in Sender("") /\ s \in Sender("exit") /\ s \in Sender("$$$")
    BY DEF Sender
  <2>4. \A i \in 1 .. Len(Enter(t).send) : s \in Sender(Enter(t).send[i])
    <3>1. \A i \in 1 .. Len(Enter(t).send) : Enter(t).send[i] \in {"", "exit", "$$$"}
      BY <2>1, Literal, Zenon
    <3> QED BY <2>3, <3>1
  <2>5. Len(Enter(t).wait) > 0 /\ Enter(t).wait[Len(Enter(t).wait)] = "D"
    <3>1. PICK w : w = Enter(t).wait
      OBVIOUS
    <3>w. w = <<"C", "M", "D">>
      BY <2>1, <3>1, Zenon
    <3>2. Len(w) = 3 /\ w[3] = "D"
      BY <3>w
    <3>3. Len(w) > 0 /\ w[Len(w)] = "D"
      BY <3>2
    <3> QED BY <3>1, <3>3, Zenon
  <2>6. t # "line"
    OBVIOUS
  <2> QED BY <2>1, <2>2, <2>4, <2>5, <2>6, Zenon DEF RowOK
<1>2. ASSUME NEW c \in Settings, NEW s \in Sets, NEW b \in BOOLEAN, b \/ s = 2 PROVE RowOK(Set(c, b), s)
  <2>1. /\ Set(c, b).send = <<c>> /\ Set(c, b).wait = <<"A", "O", "K">>
        /\ Set(c, b).checked = b /\ Set(c, b).then = "next"
    BY DEF Set, Do
  <2>2. Ending(s) = "K" /\ s \notin Lines /\ s # 18 /\ s \notin {5, 20} /\ s \notin Enters
    BY Tables DEF Enters, Lines, Sets
  <2>3. s \in Sender(c)
    BY DEF Sender, Settings
  <2>4. \A i \in 1 .. Len(Set(c, b).send) : s \in Sender(Set(c, b).send[i])
    BY <2>1, <2>3
  <2>5. Len(Set(c, b).wait) > 0 /\ Set(c, b).wait[Len(Set(c, b).wait)] = "K"
    BY <2>1
  <2>6. ~b => s \notin Enters \cup (Sets \ {2})
    BY <1>2, <2>2
  <2> QED BY <2>1, <2>2, <2>4, <2>5, <2>6, Zenon DEF RowOK
<1>3. RowOK(Save, 3) /\ RowOK(Save, 19)
  <2>1. /\ Save.send = <<"save">> /\ Save.wait = <<"S", "g">>
        /\ Save.checked = FALSE /\ Save.then = "next"
    BY DEF Save, Do
  <2>2. Len(Save.wait) = 2 /\ Save.wait[2] = "g"
    BY <2>1
  <2>3. Len(Save.wait) > 0 /\ Save.wait[Len(Save.wait)] = "g"
    BY <2>2
  <2>4. 3 \notin Enters \cup Sets /\ 3 # 18 /\ 3 \notin Lines /\ 3 \notin {5, 20} /\ 3 \in Sender("save")
    BY DEF Enters, Sets, Lines, Sender
  <2>5. 19 \notin Enters \cup Sets /\ 19 # 18 /\ 19 \notin Lines /\ 19 \notin {5, 20} /\ 19 \in Sender("save")
    BY DEF Enters, Sets, Lines, Sender
  <2>n. "next" # "line"
    OBVIOUS
  <2> QED BY Tables, <2>1, <2>3, <2>4, <2>5, <2>n, OneRow, ZenonT(60)
<1>4. RowOK(Exit, 8) /\ RowOK(Exit, 22)
  <2>1. /\ Exit.send = <<"exit">> /\ Exit.wait = <<"E", "X">>
        /\ Exit.checked = FALSE /\ Exit.then = "next"
    BY DEF Exit, Do
  <2>2. Len(Exit.wait) = 2 /\ Exit.wait[2] = "X"
    BY <2>1
  <2>3. Len(Exit.wait) > 0 /\ Exit.wait[Len(Exit.wait)] = "X"
    BY <2>2
  <2>4. 8 \notin Enters \cup Sets /\ 8 # 18 /\ 8 \notin Lines /\ 8 \notin {5, 20} /\ 8 \in Sender("exit")
    BY DEF Enters, Sets, Lines, Sender
  <2>5. 22 \notin Enters \cup Sets /\ 22 # 18 /\ 22 \notin Lines /\ 22 \notin {5, 20} /\ 22 \in Sender("exit")
    BY DEF Enters, Sets, Lines, Sender
  <2>n. "next" # "line"
    OBVIOUS
  <2> QED BY Tables, <2>1, <2>3, <2>4, <2>5, <2>n, OneRow, ZenonT(60)
<1>5. RowOK(Reboot, 4)
  <2>1. /\ Reboot.send = <<"reboot">> /\ Reboot.wait = <<"*", "R", "b">>
        /\ Reboot.checked = FALSE /\ Reboot.then = "next"
    BY DEF Reboot, Do
  <2>2. Len(Reboot.wait) = 3 /\ Reboot.wait[3] = "b"
    BY <2>1
  <2>3. Len(Reboot.wait) > 0 /\ Reboot.wait[Len(Reboot.wait)] = "b"
    BY <2>2
  <2>4. 4 \notin Enters \cup Sets /\ 4 # 18 /\ 4 \notin Lines /\ 4 \notin {5, 20} /\ 4 \in Sender("reboot")
    BY DEF Enters, Sets, Lines, Sender
  <2>n. "next" # "line"
    OBVIOUS
  <2> QED BY Tables, <2>1, <2>3, <2>4, <2>n, OneRow, ZenonT(60)
<1>6. RowOK(Boots, 5)
  <2>1. /\ Boots.send = << >> /\ Boots.wait = <<"*", "R", "E">>
        /\ Boots.checked = FALSE /\ Boots.then = "next"
    BY DEF Boots, Do
  <2>2. Len(Boots.wait) = 3 /\ Boots.wait[3] = "E"
    BY <2>1
  <2>3. Len(Boots.wait) > 0 /\ Boots.wait[Len(Boots.wait)] = "E"
    BY <2>2
  <2>4. 5 \notin Enters \cup Sets /\ 5 # 18 /\ 5 \notin Lines
    BY DEF Enters, Sets, Lines, Sender
  <2>n. "next" # "line"
    OBVIOUS
  <2> QED BY Tables, <2>1, <2>3, <2>4, <2>n, OneRow, ZenonT(60)
<1>7. RowOK(Version, 7)
  <2>1. /\ Version.send = <<"ver">> /\ Version.wait = <<"v">>
        /\ Version.checked = FALSE /\ Version.then = "line"
    BY DEF Version, Do
  <2>2. Len(Version.wait) = 1 /\ Version.wait[1] = "v"
    BY <2>1
  <2>3. Len(Version.wait) > 0 /\ Version.wait[Len(Version.wait)] = "v"
    BY <2>2
  <2>4. 7 \notin Enters \cup Sets /\ 7 # 18 /\ 7 \in Lines /\ 7 \notin {5, 20} /\ 7 \in Sender("ver")
    BY DEF Enters, Sets, Lines, Sender
  <2> QED BY Tables, <2>1, <2>3, <2>4, OneRow, ZenonT(60)
<1>8. RowOK(Join, 15)
  <2>1. /\ Join.send = <<"join">> /\ Join.wait = <<"A", "s", "!">>
        /\ Join.checked = FALSE /\ Join.then = "next"
    BY DEF Join, Do
  <2>2. Len(Join.wait) = 3 /\ Join.wait[3] = "!"
    BY <2>1
  <2>3. Len(Join.wait) > 0 /\ Join.wait[Len(Join.wait)] = "!"
    BY <2>2
  <2>4. 15 \notin Enters \cup Sets /\ 15 # 18 /\ 15 \notin Lines /\ 15 \notin {5, 20} /\ 15 \in Sender("join")
    BY DEF Enters, Sets, Lines, Sender
  <2>n. "next" # "line"
    OBVIOUS
  <2> QED BY Tables, <2>1, <2>3, <2>4, <2>n, OneRow, ZenonT(60)
<1>14. RowOK(AwaitPrompt, 20)
  <2>1. /\ AwaitPrompt.send = << >> /\ AwaitPrompt.wait = <<"<>">>
        /\ AwaitPrompt.checked = FALSE /\ AwaitPrompt.then = "next"
    BY DEF AwaitPrompt, Do
  <2>2. Len(AwaitPrompt.wait) = 1 /\ AwaitPrompt.wait[1] = "<>"
    BY <2>1
  <2>3. Len(AwaitPrompt.wait) > 0 /\ AwaitPrompt.wait[Len(AwaitPrompt.wait)] = "<>"
    BY <2>2
  <2>4. 20 \notin Enters \cup Sets /\ 20 # 18 /\ 20 \notin Lines
    BY DEF Enters, Sets, Lines, Sender
  <2>n. "next" # "line"
    OBVIOUS
  <2> QED BY Tables, <2>1, <2>3, <2>4, <2>n, OneRow, ZenonT(60)
<1>15. RowOK(Address, 21)
  <2>1. /\ Address.send = <<"get">> /\ Address.wait = <<"g", "p">>
        /\ Address.checked = FALSE /\ Address.then = "line"
    BY DEF Address, Do
  <2>2. Len(Address.wait) = 2 /\ Address.wait[2] = "p"
    BY <2>1
  <2>3. Len(Address.wait) > 0 /\ Address.wait[Len(Address.wait)] = "p"
    BY <2>2
  <2>4. 21 \notin Enters \cup Sets /\ 21 # 18 /\ 21 \in Lines /\ 21 \notin {5, 20} /\ 21 \in Sender("get")
    BY DEF Enters, Sets, Lines, Sender
  <2> QED BY Tables, <2>1, <2>3, <2>4, OneRow, ZenonT(60)
<1>16. RowOK(Rest, 18)
  <2>1. Rest.send = <<"set", "set", "set">> /\ Rest.checked = FALSE /\ Rest.then = "flush"
    BY DEF Rest, Do
  <2>2. \A i \in 1 .. Len(Rest.send) : Rest.send[i] \in {"set", "set", "set"}
    BY <2>1, Literal, Zenon
  <2>3. 18 \in Sender("set") /\ 18 \notin Enters \cup Sets /\ 18 \notin Lines /\ 18 \notin {5, 20}
    BY DEF Enters, Sets, Lines, Sender
  <2>4. \A i \in 1 .. Len(Rest.send) : 18 \in Sender(Rest.send[i])
    BY <2>2, <2>3
  <2>5. "flush" # "line"
    OBVIOUS
  <2> QED BY <2>1, <2>3, <2>4, <2>5, Zenon DEF RowOK
<1>9. "set" \in Settings /\ "phrase" \in Settings /\ TRUE \in BOOLEAN /\ FALSE \in BOOLEAN
  BY DEF Settings
<1>10. /\ RowOK(Set("set", FALSE), 2) /\ RowOK(Set("phrase", TRUE), 11)
       /\ \A s \in {10, 12, 13, 14, 16} : RowOK(Set("set", TRUE), s)
  <2>1. 2 \in Sets /\ 11 \in Sets /\ \A s \in {10, 12, 13, 14, 16} : s \in Sets
    BY DEF Sets
  <2> QED BY <1>2, <1>9, <2>1, Zenon
<1>11. /\ RowOK(Enter("next"), 1) /\ RowOK(Enter("next"), 9) /\ RowOK(Enter("next"), 17)
       /\ RowOK(Enter("flush"), 6)
  <2>1. 1 \in Enters /\ 6 \in Enters /\ 9 \in Enters /\ 17 \in Enters
    BY DEF Enters
  <2> QED BY <1>1, <2>1, Zenon
<1>12. \A s \in 1 .. 22 : \/ s = 1 \/ s = 2 \/ s = 3 \/ s = 4 \/ s = 5 \/ s = 6 \/ s = 7 \/ s = 8
                         \/ s = 9 \/ s = 11 \/ s = 15 \/ s = 17 \/ s = 18
                         \/ s = 19 \/ s = 20 \/ s = 21 \/ s = 22 \/ s \in {10, 12, 13, 14, 16}
  OBVIOUS
<1>13. \A s \in {10, 12, 13, 14, 16} : Script[s] = Set("set", TRUE)
  BY ScriptIs, Zenon
<1>17. /\ RowOK(Script[1], 1) /\ RowOK(Script[2], 2) /\ RowOK(Script[3], 3) /\ RowOK(Script[4], 4)
       /\ RowOK(Script[5], 5) /\ RowOK(Script[6], 6) /\ RowOK(Script[7], 7) /\ RowOK(Script[8], 8)
  BY ScriptIs, <1>3, <1>4, <1>5, <1>6, <1>7, <1>10, <1>11, ZenonT(60)
<1>18. /\ RowOK(Script[9], 9) /\ RowOK(Script[11], 11) /\ RowOK(Script[15], 15) /\ RowOK(Script[17], 17)
       /\ RowOK(Script[18], 18)
  BY ScriptIs, <1>8, <1>10, <1>11, <1>16, ZenonT(60)
<1>19. /\ RowOK(Script[19], 19) /\ RowOK(Script[20], 20) /\ RowOK(Script[21], 21) /\ RowOK(Script[22], 22)
  BY ScriptIs, <1>3, <1>4, <1>14, <1>15, ZenonT(60)
<1>20. \A s \in {10, 12, 13, 14, 16} : RowOK(Script[s], s)
  BY <1>10, <1>13, Zenon
<1> QED BY <1>12, <1>17, <1>18, <1>19, <1>20, ZenonT(60)

(* What ends a wait is of the step, or of one after which nothing is missed. *)
LEMMA EndBound ==
  ASSUME NEW s \in 1 .. 22, NEW c, NEW f \in Low(s) .. s, f \in Source(c),
         \/ c = Ending(s) /\ s # 18 /\ (c = "K" => f = s)
         \/ c = "R" /\ s \notin Enters \cup (Sets \ {2})
  PROVE  /\ Low(s + 1) <= f
         /\ c = Ending(s) /\ s \notin {5, 20} => f = s
         /\ s \in Lines => f = s \/ (c = "R" /\ s = 21 /\ f = 18)
<1>1. CASE c = Ending(s) /\ s # 18 /\ (c = "K" => f = s)
  <2>1. CASE s \in Enters
    BY <1>1, <2>1, Tables DEF Source, Enters, Sets, Lines
  <2>2. CASE s \in Sets
    BY <1>1, <2>2, Tables DEF Source, Enters, Sets, Lines
  <2>3. CASE s \in {3, 4, 19}
    BY <1>1, <2>3, Tables DEF Source, Enters, Sets, Lines
  <2>4. CASE s \in {5, 20}
    BY <1>1, <2>4, Tables DEF Source, Enters, Sets, Lines
  <2>5. CASE s \in {7, 8, 22}
    BY <1>1, <2>5, Tables DEF Source, Enters, Sets, Lines
  <2>6. CASE s \in {15, 21}
    BY <1>1, <2>6, Tables DEF Source, Enters, Sets, Lines
  <2>7. \/ s \in Enters \/ s \in Sets \/ s \in {3, 4, 19} \/ s \in {5, 20} \/ s \in {7, 8, 22}
        \/ s \in {15, 21}
    BY <1>1 DEF Enters, Sets
  <2> QED BY <2>1, <2>2, <2>3, <2>4, <2>5, <2>6, <2>7
<1>2. CASE c = "R" /\ s \notin Enters \cup (Sets \ {2})
  <2>1. f \in Sets \cup {4, 18}
    BY <1>2 DEF Source
  <2>2. s \in {2, 3, 4, 5, 7, 8, 15, 18, 19, 20, 21, 22}
    BY <1>2 DEF Enters, Sets
  <2>3. Ending(s) # "R"
    BY <2>2 DEF Ending, Enters, Sets
  <2> QED BY <1>2, <2>1, <2>2, <2>3 DEF Low, Sets, Lines
<1> QED BY <1>1, <1>2

LEMMA OfTypes ==
  ASSUME NEW n
  PROVE  /\ \A p \in CharsOf(n) : Len(p) \in Nat /\ \A i \in 1 .. Len(p) : p[i].of \in 1 .. n /\ p[i].c \in Chars
         /\ \A cs \in CommandsOf(n) :
              Len(cs) \in Nat /\ \A i \in 1 .. Len(cs) : cs[i].of \in 1 .. n /\ cs[i].name \in Names
<1>1. \A T : \A q \in Seq(T) : Len(q) \in Nat /\ \A i \in 1 .. Len(q) : q[i] \in T
  OBVIOUS
<1>2. \A e \in [c : Chars, of : 1 .. n] : e.of \in 1 .. n /\ e.c \in Chars
  OBVIOUS
<1>3. \A e \in [name : Names, of : 1 .. n] : e.of \in 1 .. n /\ e.name \in Names
  OBVIOUS
<1> QED BY <1>1, <1>2, <1>3, Zenon DEF CharsOf, CommandsOf

LEMMA LowGrows == \A s \in 1 .. 22 : Low(s) \in 1 .. 22 /\ Low(s) <= Low(s + 1)
BY DEF Low

-----------------------------------------------------------------------------
(* What is lost from the front of what is on its way.                        *)
Keeps(q, p, cs, r) ==
  /\ IsSource(p, cs, r) => IsSource(q, cs, r)
  /\ IsInTurn(p, cs) => IsInTurn(q, cs)
  /\ \A n : Above(p, cs, n) => Above(q, cs, n)
  /\ \A n : Below(p, cs, n) => Below(q, cs, n)
  /\ \A s : KOf(p, s) => KOf(q, s)
  /\ \A s : LineLeft(p, cs, s) => LineLeft(q, cs, s)

LEMMA DropOwn ==
  ASSUME NEW p, NEW q, NEW cs, NEW r, NEW d \in Nat, Len(p) \in Nat, IsDrop(q, p, d)
  PROVE  Keeps(q, p, cs, r)
<1>1. \A i \in 1 .. Len(q) : i + d \in 1 .. Len(p) /\ q[i] = p[i + d] /\ Len(p) - (i + d) = Len(q) - i
  BY DEF IsDrop
<1>2. \A i, j \in 1 .. Len(q) : i <= j => i + d <= j + d
  OBVIOUS
<1>3. IsSource(p, cs, r) => IsSource(q, cs, r)
  BY <1>1, Zenon DEF IsSource
<1>4. IsInTurn(p, cs) => IsInTurn(q, cs)
  BY <1>1, <1>2, Zenon DEF IsInTurn
<1>5. \A n : Above(p, cs, n) => Above(q, cs, n)
  BY <1>1, Zenon DEF Above
<1>6. \A n : Below(p, cs, n) => Below(q, cs, n)
  BY <1>1, Zenon DEF Below
<1>7. \A s : KOf(p, s) => KOf(q, s)
  BY <1>1, Zenon DEF KOf
<1>8. ASSUME NEW s, LineLeft(p, cs, s) PROVE LineLeft(q, cs, s)
  <2>1. \A i \in 1 .. Len(q) :
          q[i].of = s => /\ Len(q) - i <= 7
                         /\ Len(q) - i < 6 => q[i].c = Behind(Len(q) - i)
                         /\ q[i].c = Ending(s) <=> Len(q) - i = 6
    <3> TAKE i \in 1 .. Len(q)
    <3>1. PICK j \in 1 .. Len(p) : q[i] = p[j] /\ Len(p) - j = Len(q) - i
      BY <1>1
    <3>2. p[j].of = s => /\ Len(p) - j <= 7
                         /\ Len(p) - j < 6 => p[j].c = Behind(Len(p) - j)
                         /\ p[j].c = Ending(s) <=> Len(p) - j = 6
      BY <1>8, Zenon DEF LineLeft
    <3> QED BY <3>1, <3>2, Zenon
  <2>2. \A i \in 1 .. Len(cs) : cs[i].of = s => i = Len(cs) /\ \A j \in 1 .. Len(q) : q[j].of < s
    BY <1>1, <1>8, Zenon DEF LineLeft
  <2> QED BY <2>1, <2>2, Zenon DEF LineLeft
<1> QED BY <1>3, <1>4, <1>5, <1>6, <1>7, <1>8, Zenon DEF Keeps

(* Nothing that is left is of an earlier step than what has just been read.  *)
LEMMA InTurnHead ==
  ASSUME NEW p, NEW q, NEW cs, Len(p) \in Nat, Len(p) > 0, IsDrop(q, p, 1), IsInTurn(p, cs)
  PROVE  Above(q, cs, p[1].of) /\ Above(p, cs, p[1].of)
<1>1. \A i \in 1 .. Len(q) : i + 1 \in 1 .. Len(p) /\ q[i] = p[i + 1] /\ 1 <= i + 1
  BY DEF IsDrop
<1>2. 1 \in 1 .. Len(p) /\ \A i \in 1 .. Len(p) : 1 <= i
  OBVIOUS
<1>3. Above(p, cs, p[1].of)
  BY <1>2, Zenon DEF IsInTurn, Above
<1> QED BY <1>1, <1>3, Zenon DEF Above

LEMMA AboveLess ==
  ASSUME NEW n \in Nat, NEW p \in CharsOf(n), NEW cs \in CommandsOf(n), NEW a \in Nat, NEW b \in Nat, a <= b, Above(p, cs, b)
  PROVE  Above(p, cs, a)
<1>1. \A i \in 1 .. Len(p) : p[i].of \in 1 .. n
  BY OfTypes, Zenon
<1>2. \A i \in 1 .. Len(cs) : cs[i].of \in 1 .. n
  BY OfTypes, Zenon
<1> QED BY <1>1, <1>2 DEF Above

-----------------------------------------------------------------------------
(* What is sent.                                                             *)
IsSent(d, cs, sent, s) ==
  /\ Len(cs) \in Nat /\ Len(d) = Len(cs) + Len(sent)
  /\ \A i \in 1 .. Len(d) :
       \/ i \in 1 .. Len(cs) /\ d[i] = cs[i]
       \/ i > Len(cs) /\ \E j \in 1 .. Len(sent) : d[i].name = sent[j] /\ d[i].of = s

LEMMA SendOwn ==
  ASSUME NEW p, NEW cs, NEW d, NEW sent, NEW s \in 1 .. 22, IsSent(d, cs, sent, s), Len(sent) \in Nat,
         \A i \in 1 .. Len(sent) : s \in Sender(sent[i]),
         s \in Lines => Len(sent) = 1,
         Below(p, cs, s), NEW n \in 1 .. 22, p \in CharsOf(n), cs \in CommandsOf(n), NEW r
  PROVE  /\ IsSource(p, cs, r) => IsSource(p, d, r)
         /\ IsInTurn(p, cs) => IsInTurn(p, d)
         /\ \A m \in 1 .. s : Above(p, cs, m) => Above(p, d, m)
         /\ s \in Lines => LineLeft(p, d, s)
<1>1. \A i \in 1 .. Len(d) : \/ i \in 1 .. Len(cs) /\ d[i] = cs[i] /\ d[i].of < s
                             \/ i > Len(cs) /\ d[i].of = s /\ s \in Sender(d[i].name)
  BY Zenon DEF IsSent, Below
<1>2. \A i \in 1 .. Len(p) : p[i].of \in 1 .. n /\ p[i].of < s
  BY OfTypes, Zenon DEF Below
<1>3. \A i \in 1 .. Len(cs) : cs[i].of \in 1 .. n
  BY OfTypes, Zenon
<1>4. ASSUME IsSource(p, cs, r) PROVE IsSource(p, d, r)
  BY <1>1, <1>4, Zenon DEF IsSource
<1>5. ASSUME IsInTurn(p, cs) PROVE IsInTurn(p, d)
  <2>1. \A i \in 1 .. Len(p), j \in 1 .. Len(d) : p[i].of <= d[j].of
    <3> TAKE i \in 1 .. Len(p), j \in 1 .. Len(d)
    <3>1. CASE j \in 1 .. Len(cs) /\ d[j] = cs[j]
      BY <1>5, <3>1, Zenon DEF IsInTurn
    <3>2. CASE d[j].of = s
      <4>1. PICK a, b : a = p[i].of /\ b = d[j].of
        OBVIOUS
      <4>2. a \in 1 .. n /\ a < s /\ b = s
        BY <1>2, <3>2, <4>1, Zenon
      <4>3. a <= b
        BY <4>2
      <4> QED BY <4>1, <4>3, Zenon
    <3> QED BY <1>1, <3>1, <3>2, Zenon
  <2>2. \A i, j \in 1 .. Len(d) : i <= j => d[i].of <= d[j].of
    <3> SUFFICES ASSUME NEW i \in 1 .. Len(d), NEW j \in 1 .. Len(d), i <= j PROVE d[i].of <= d[j].of
      OBVIOUS
    <3>1. CASE j \in 1 .. Len(cs) /\ d[j] = cs[j]
      <4>1. i \in 1 .. Len(cs)
        BY <3>1
      <4>2. d[i] = cs[i]
        BY <1>1, <4>1
      <4> QED BY <1>5, <3>1, <4>1, <4>2, Zenon DEF IsInTurn
    <3>2. CASE d[j].of = s
      <4>1. d[i].of < s \/ d[i].of = s
        BY <1>1, Zenon
      <4>2. d[i].of \in 1 .. n \/ d[i].of = s
        BY <1>1, <1>3, Zenon
      <4>3. PICK a, b : a = d[i].of /\ b = d[j].of
        OBVIOUS
      <4>4. (a < s \/ a = s) /\ (a \in 1 .. n \/ a = s) /\ b = s
        BY <3>2, <4>1, <4>2, <4>3, Zenon
      <4>5. a <= b
        BY <4>4
      <4> QED BY <4>3, <4>5, Zenon
    <3> QED BY <1>1, <3>1, <3>2, Zenon
  <2> QED BY <1>5, <2>1, <2>2, Zenon DEF IsInTurn
<1>6. ASSUME NEW m \in 1 .. s, Above(p, cs, m) PROVE Above(p, d, m)
  <2>1. \A i \in 1 .. Len(d) : m <= d[i].of
    <3> TAKE i \in 1 .. Len(d)
    <3>1. CASE i \in 1 .. Len(cs) /\ d[i] = cs[i]
      BY <1>6, <3>1, Zenon DEF Above
    <3>2. CASE d[i].of = s
      BY <3>2
    <3> QED BY <1>1, <3>1, <3>2, Zenon
  <2> QED BY <1>6, <2>1, Zenon DEF Above
<1>7. ASSUME s \in Lines PROVE LineLeft(p, d, s)
  <2>1. \A i \in 1 .. Len(p) : p[i].of # s
    BY <1>2
  <2>2. \A i \in 1 .. Len(d) : d[i].of = s => i = Len(d)
    <3> TAKE i \in 1 .. Len(d)
    <3>1. Len(d) = Len(cs) + 1 /\ Len(cs) \in Nat
      BY <1>7 DEF IsSent
    <3>2. CASE d[i].of < s /\ d[i] = cs[i] /\ i \in 1 .. Len(cs)
      BY <1>3, <3>2
    <3>3. CASE i > Len(cs)
      BY <3>1, <3>3
    <3> QED BY <1>1, <3>2, <3>3, Zenon
  <2> QED BY <1>2, <2>1, <2>2, Zenon DEF LineLeft
<1> QED BY <1>4, <1>5, <1>6, <1>7

-----------------------------------------------------------------------------
(* What is answered.                                                         *)
Mine(f) == {c \in Chars : f \in Source(c)}
Clean(f) == Mine(f) \ {"R"}

LEMMA MineAre ==
  ASSUME NEW f \in 1 .. 22
  PROVE  /\ {".", "<>", "CR", "LF", "A", "O", "C", "M", "S", "E", "*", "s"} \subseteq Clean(f)
         /\ f \in Sender("exit") => "X" \in Clean(f)
         /\ f \in Sender("$$$") => "D" \in Clean(f)
         /\ f \in Sender("save") => "g" \in Clean(f)
         /\ f \in Sender("reboot") => "b" \in Mine(f) /\ "R" \in Mine(f)
         /\ f \in Sender("ver") => "v" \in Clean(f)
         /\ f \in Sender("get") => "g" \in Clean(f) /\ "p" \in Clean(f)
         /\ f \in Sender("join") => "!" \in Clean(f)
         /\ \A name \in Settings : f \in Sender(name) => "K" \in Clean(f) /\ "R" \in Mine(f)
         /\ Clean(f) \subseteq Mine(f)
<1>1. {".", "<>", "CR", "LF", "A", "O", "C", "M", "S", "E", "*", "s"} \subseteq Clean(f)
  BY DEF Clean, Mine, Source, Chars
<1>2. /\ f \in Sender("exit") => "X" \in Clean(f)
      /\ f \in Sender("$$$") => "D" \in Clean(f)
  BY DEF Clean, Mine, Source, Chars, Sender
<1>3. /\ f \in Sender("save") => "g" \in Clean(f)
      /\ f \in Sender("reboot") => "b" \in Mine(f) /\ "R" \in Mine(f)
  BY DEF Clean, Mine, Source, Chars, Sender
<1>4. /\ f \in Sender("ver") => "v" \in Clean(f)
      /\ f \in Sender("get") => "g" \in Clean(f) /\ "p" \in Clean(f)
      /\ f \in Sender("join") => "!" \in Clean(f)
  BY DEF Clean, Mine, Source, Chars, Sender
<1>5. \A name \in Settings : f \in Sender(name) => "K" \in Clean(f) /\ "R" \in Mine(f)
  BY DEF Clean, Mine, Source, Chars, Sender, Settings
<1>6. Clean(f) \subseteq Mine(f)
  BY Zenon DEF Clean
<1> QED BY <1>1, <1>2, <1>3, <1>4, <1>5, <1>6

(* Every character of the answer to a command may come from its step.        *)
LEMMA SourceTexts ==
  ASSUME phrase \in Seq({"A", "O", "K", "."}), NEW name \in Names, NEW f \in 1 .. 22, f \in Sender(name)
  PROVE  /\ name # "reboot" => Good(name) \in Seq(Clean(f))
         /\ Good(name) \in Seq(Mine(f))
         /\ name = "$$$" => <<"C", "M", "D">> \o Newline \in Seq(Clean(f))
         /\ name \in {"set", "phrase", "join"} => Bad(name) \in Seq(Mine(f))
<1> DEFINE S == Clean(f)
           M == Mine(f)
<1>1. PICK C, W : C = S /\ W = M
  OBVIOUS
<1>2. {".", "<>", "CR", "LF", "A", "O", "C", "M", "S", "E", "*", "s"} \subseteq C /\ C \subseteq W
  BY <1>1, MineAre, Zenon
<1>3. /\ \A s, t \in Seq(C) : s \o t \in Seq(C)
      /\ \A s, t \in Seq(W) : s \o t \in Seq(W)
      /\ \A q \in Seq(C) : q \in Seq(W)
  <2>1. \A T : \A s, t \in Seq(T) : s \o t \in Seq(T)
    BY Joins, Zenon
  <2>2. Seq(C) \subseteq Seq(W)
    BY <1>2, Subseqs, Zenon
  <2> QED BY <2>1, <2>2, Zenon
<1>4. Newline \in Seq(C) /\ <<"<>">> \in Seq(C) /\ <<".">> \in Seq(C)
  BY <1>2 DEF Newline
<1>e. \A T : Newline \in Seq(T) /\ <<"<>">> \in Seq(T) /\ <<".">> \in Seq(T) =>
        /\ \A q \in Seq(T) : ((q \o Newline) \o <<".">>) \in Seq(T)
        /\ \A q \in Seq(T) : (q \o Newline) \o <<"<>">> \in Seq(T)
  BY Joins, Zenon
<1>f. /\ \A q \in Seq(C) : (q \o Newline) \o <<".">> \in Seq(C) /\ (q \o Newline) \o <<"<>">> \in Seq(C)
      /\ \A q \in Seq(W) : (q \o Newline) \o <<"<>">> \in Seq(W)
      /\ Newline \in Seq(W) /\ <<".">> \in Seq(W)
  BY <1>3, <1>4, <1>e, Zenon
<1>5. CASE name \in {"", "$$$"}
  <2>1. Good(name) = <<"<>">>
    BY <1>5 DEF Good
  <2>2. name = "$$$" => <<"C", "M", "D">> \in Seq(C)
    <3>1. name = "$$$" => "D" \in C
      BY <1>1, MineAre, Zenon
    <3> QED BY <1>2, <3>1
  <2>3. name # "set" /\ name # "phrase" /\ name # "join"
    BY <1>5
  <2>4. name \notin {"set", "phrase", "join"}
    BY <2>3
  <2> QED BY <1>1, <1>3, <1>4, <2>1, <2>2, <2>4, Zenon
<1>6. CASE name = "exit"
  <2>1. Good(name) = <<".", "E", "X">> \o Newline
    BY <1>6 DEF Good
  <2>2. "X" \in C
    BY <1>1, <1>6, MineAre, Zenon
  <2>3. <<".", "E", "X">> \in Seq(C)
    BY <1>2, <2>2
  <2>4. name \notin {"set", "phrase", "join"} /\ name # "$$$"
    BY <1>6
  <2> QED BY <1>1, <1>3, <1>4, <2>1, <2>3, <2>4, Zenon
<1>7. CASE name = "save"
  <2>1. Good(name) = <<".", "S", "g">> \o Newline \o <<"<>">>
    BY <1>7 DEF Good
  <2>2. "g" \in C
    BY <1>1, <1>7, MineAre, Zenon
  <2>3. <<".", "S", "g">> \in Seq(C)
    BY <1>2, <2>2
  <2>4. name \notin {"set", "phrase", "join"} /\ name # "$$$"
    BY <1>7
  <2> QED BY <1>1, <1>3, <1>4, <2>1, <2>3, <2>4, ZenonT(60)
<1>8. CASE name = "reboot"
  <2>1. Good(name) = <<".", "*", "R", "b">> \o Newline \o <<".", "*", "R", "E">> \o Newline
    BY <1>8 DEF Good
  <2>2. "R" \in W /\ "b" \in W
    BY <1>1, <1>8, MineAre, Zenon
  <2>3. <<".", "*", "R", "b">> \in Seq(W) /\ <<".", "*", "R", "E">> \in Seq(W)
    BY <1>2, <2>2
  <2>4. name \notin {"set", "phrase", "join"} /\ name # "$$$"
    BY <1>8
  <2> QED BY <1>1, <1>3, <1>4, <1>8, <2>1, <2>3, <2>4, Zenon
<1>9. CASE name = "ver"
  <2>1. Good(name) = <<"v">> \o Newline \o <<".">> \o Newline \o <<"<>">>
    BY <1>9 DEF Good
  <2>2. "v" \in C
    BY <1>1, <1>9, MineAre, Zenon
  <2>3. <<"v">> \in Seq(C)
    BY <1>2, <2>2
  <2>4. name \notin {"set", "phrase", "join"} /\ name # "$$$"
    BY <1>9
  <2>5. (<<"v">> \o Newline) \o <<".">> \in Seq(C)
    BY <1>f, <2>3, Zenon
  <2>6. Good(name) \in Seq(C)
    BY <1>f, <2>1, <2>5, Zenon
  <2> QED BY <1>1, <1>3, <2>4, <2>6, Zenon
<1>10. CASE name = "get"
  <2>1. Good(name) = <<"g", "p">> \o Newline \o <<".">> \o Newline \o <<"<>">>
    BY <1>10 DEF Good
  <2>2. "g" \in C /\ "p" \in C
    BY <1>1, <1>10, MineAre, Zenon
  <2>3. <<"g", "p">> \in Seq(C)
    BY <1>2, <2>2
  <2>4. name \notin {"set", "phrase", "join"} /\ name # "$$$"
    BY <1>10
  <2>5. (<<"g", "p">> \o Newline) \o <<".">> \in Seq(C)
    BY <1>f, <2>3, Zenon
  <2>6. Good(name) \in Seq(C)
    BY <1>f, <2>1, <2>5, Zenon
  <2> QED BY <1>1, <1>3, <2>4, <2>6, Zenon
<1>11. CASE name = "join"
  <2>1. /\ Good(name) = <<".", "A", "s">> \o Newline \o <<"A", "s", "!">> \o Newline
        /\ Bad(name) = <<".", "A", "s">> \o Newline \o <<".">> \o Newline
    BY <1>11 DEF Good, Bad
  <2>2. "!" \in C
    BY <1>1, <1>11, MineAre, Zenon
  <2>3. <<".", "A", "s">> \in Seq(C) /\ <<"A", "s", "!">> \in Seq(C)
    BY <1>2, <2>2
  <2>4. name # "$$$"
    BY <1>11
  <2>5. <<".", "A", "s">> \o Newline \in Seq(C)
    BY <1>3, <1>4, <2>3, Zenon
  <2>6. (<<".", "A", "s">> \o Newline) \o <<"A", "s", "!">> \in Seq(C)
    BY <1>3, <2>3, <2>5, Zenon
  <2>7. (<<".", "A", "s">> \o Newline) \o <<".">> \in Seq(C)
    BY <1>3, <1>4, <2>5, Zenon
  <2>8. Good(name) \in Seq(C)
    BY <1>3, <1>4, <2>1, <2>6, Zenon
  <2>9. Bad(name) \in Seq(C)
    BY <1>3, <1>4, <2>1, <2>7, Zenon
  <2> QED BY <1>1, <1>3, <2>4, <2>8, <2>9, Zenon
<1>12. CASE name \in Settings
  <2>1. "K" \in C /\ "R" \in W
    BY <1>1, <1>12, MineAre, Zenon
  <2>2. AOK \in Seq(C) /\ ERR \in Seq(W)
    BY <1>2, <2>1 DEF AOK, ERR
  <2>3. phrase \in Seq(C)
    <3>1. {"A", "O", "K", "."} \subseteq C
      BY <1>2, <2>1
    <3> QED BY <3>1, Subseqs, Zenon
  <2>4. PICK e : e = Echo(name)
    OBVIOUS
  <2>5. e \in Seq(C)
    BY <1>4, <2>3, <2>4 DEF Echo
  <2>6. /\ Good(name) = e \o Newline \o AOK \o Newline \o <<"<>">>
        /\ Bad(name) = e \o Newline \o ERR \o <<".">> \o Newline \o <<"<>">>
    <3>1. CASE name = "set"
      BY <2>4, <3>1, Zenon DEF Good, Bad, Echo, AOK
    <3>2. CASE name = "phrase"
      BY <2>4, <3>2, Zenon DEF Good, Bad, Echo, AOK
    <3> QED BY <1>12, <3>1, <3>2 DEF Settings
  <2>7. name # "$$$"
    BY <1>12 DEF Settings
  <2>8. e \o Newline \in Seq(C) /\ e \o Newline \in Seq(W)
    BY <1>3, <1>4, <2>5, Zenon
  <2>9. (e \o Newline) \o AOK \in Seq(C)
    BY <1>3, <2>2, <2>8, Zenon
  <2>10. Good(name) \in Seq(C)
    BY <1>f, <2>6, <2>9, Zenon
  <2>11. ((e \o Newline) \o ERR) \o <<".">> \in Seq(W)
    <3>1. (e \o Newline) \o ERR \in Seq(W)
      BY <1>3, <2>2, <2>8, Zenon
    <3> QED BY <1>3, <1>f, <3>1, Zenon
  <2>12. Bad(name) \in Seq(W)
    BY <1>f, <2>6, <2>11, Zenon
  <2> QED BY <1>1, <1>3, <2>7, <2>10, <2>12, Zenon
<1>13. \/ name \in {"", "$$$"} \/ name = "exit" \/ name = "save" \/ name = "reboot"
       \/ name = "ver" \/ name = "get" \/ name = "join" \/ name \in Settings
  BY DEF Names, Settings
<1> QED BY <1>5, <1>6, <1>7, <1>8, <1>9, <1>10, <1>11, <1>12, <1>13

LEMMA TextSource ==
  ASSUME phrase \in Seq({"A", "O", "K", "."}), NEW name \in Names, NEW f \in 1 .. 22, f \in Sender(name),
         NEW t, AnswerIs(name, f, t)
  PROVE  \A i \in 1 .. Len(t) : f \in Source(t[i]) /\ (t[i] = "R" /\ f = 18 => 18 \in refused')
<1>1. \A T : \A q \in Seq(T) : \A i \in 1 .. Len(q) : q[i] \in T
  OBVIOUS
<1>2. \A q \in Seq(Mine(f)) : \A i \in 1 .. Len(q) : f \in Source(q[i])
  BY <1>1 DEF Mine
<1>3. \A q \in Seq(Clean(f)) : \A i \in 1 .. Len(q) : f \in Source(q[i]) /\ q[i] # "R"
  BY <1>1 DEF Mine, Clean
<1>4. CASE t = << >>
  BY <1>4
<1>5. CASE name = "$$$" /\ t = <<"C", "M", "D">> \o Newline
  BY <1>3, <1>5, SourceTexts, Zenon
<1>6. CASE t = Good(name)
  <2>1. CASE name = "reboot"
    <3>1. f = 4
      BY <2>1 DEF Sender
    <3>2. f # 18
      BY <3>1
    <3> QED BY <1>2, <1>6, <3>2, SourceTexts, Zenon
  <2> QED BY <1>3, <1>6, <2>1, SourceTexts, Zenon
<1>7. CASE refused' = refused \cup {f} /\ name \in {"set", "phrase", "join"} /\ t = Bad(name)
  <2>1. f = 18 => 18 \in refused'
    BY <1>7
  <2> QED BY <1>2, <1>7, <2>1, SourceTexts, Zenon
<1> QED BY <1>4, <1>5, <1>6, <1>7, Zenon DEF AnswerIs

(* The line that answers a request ends the answer.                          *)
LineText(t, s) ==
  /\ Len(t) \in 7 .. 8
  /\ \A k \in 1 .. Len(t) : /\ Len(t) - k < 6 => t[k] = Behind(Len(t) - k)
                            /\ t[k] = Ending(s) <=> Len(t) - k = 6

LEMMA LineChars ==
  ASSUME NEW e \in Seq(Chars), NEW g, g = (((e \o Newline) \o <<".">>) \o Newline) \o <<"<>">>
  PROVE  /\ Len(e) \in Nat /\ Len(g) = Len(e) + 6 /\ \A k \in 1 .. Len(e) : g[k] = e[k]
         /\ g[Len(e) + 1] = "CR" /\ g[Len(e) + 2] = "LF" /\ g[Len(e) + 3] = "."
         /\ g[Len(e) + 4] = "CR" /\ g[Len(e) + 5] = "LF" /\ g[Len(e) + 6] = "<>"
<1> DEFINE a == e \o Newline
           b == a \o <<".">>
           c == b \o Newline
           d == c \o <<"<>">>
<1>1. /\ Newline \in Seq(Chars) /\ <<".">> \in Seq(Chars) /\ <<"<>">> \in Seq(Chars) /\ g = d
  BY Parts, Zenon
<1>2. a \in Seq(Chars) /\ IsJoin(a, e, Newline)
  BY <1>1, Joins, Zenon
<1>3. b \in Seq(Chars) /\ IsJoin(b, a, <<".">>)
  <2> HIDE DEF a
  <2> QED BY <1>1, <1>2, Joins, Zenon
<1>4. c \in Seq(Chars) /\ IsJoin(c, b, Newline)
  <2> HIDE DEF b
  <2> QED BY <1>1, <1>3, Joins, Zenon
<1>5. d \in Seq(Chars) /\ IsJoin(d, c, <<"<>">>)
  <2> HIDE DEF c
  <2> QED BY <1>1, <1>4, Joins, Zenon
<1> HIDE DEF a, b, c, d
<1>6. /\ Len(Newline) = 2 /\ Newline[1] = "CR" /\ Newline[2] = "LF"
      /\ Len(<<".">>) = 1 /\ <<".">>[1] = "."
      /\ Len(<<"<>">>) = 1 /\ <<"<>">>[1] = "<>" /\ Len(e) \in Nat
  BY DEF Newline
<1>7. /\ Len(a) = Len(e) + 2 /\ \A k \in 1 .. Len(e) : a[k] = e[k]
      /\ a[Len(e) + 1] = "CR" /\ a[Len(e) + 2] = "LF"
  BY <1>2, <1>6 DEF IsJoin
<1>8. /\ Len(b) = Len(e) + 3 /\ \A k \in 1 .. Len(e) + 2 : b[k] = a[k]
      /\ b[Len(e) + 3] = "."
  <2>1. Len(a) + 1 = Len(e) + 3
    BY <1>6, <1>7
  <2> QED BY <1>3, <1>6, <1>7, <2>1 DEF IsJoin
<1>9. /\ Len(c) = Len(e) + 5 /\ \A k \in 1 .. Len(e) + 3 : c[k] = b[k]
      /\ c[Len(e) + 4] = "CR" /\ c[Len(e) + 5] = "LF"
  <2>1. Len(b) + 1 = Len(e) + 4 /\ Len(b) + 2 = Len(e) + 5
    BY <1>6, <1>8
  <2> QED BY <1>4, <1>6, <1>8, <2>1 DEF IsJoin
<1>10. /\ Len(g) = Len(e) + 6 /\ \A k \in 1 .. Len(e) + 5 : g[k] = c[k]
       /\ g[Len(e) + 6] = "<>"
  <2>1. Len(c) + 1 = Len(e) + 6
    BY <1>6, <1>9
  <2> QED BY <1>1, <1>5, <1>6, <1>9, <2>1 DEF IsJoin
<1>11. \A k \in 1 .. Len(e) : g[k] = e[k]
  BY <1>6, <1>7, <1>8, <1>9, <1>10
<1>12. g[Len(e) + 1] = "CR" /\ g[Len(e) + 2] = "LF" /\ g[Len(e) + 3] = "."
  BY <1>6, <1>7, <1>8, <1>9, <1>10
<1>13. g[Len(e) + 4] = "CR" /\ g[Len(e) + 5] = "LF"
  BY <1>6, <1>9, <1>10
<1> QED BY <1>6, <1>10, <1>11, <1>12, <1>13

LEMMA LineTexts ==
  LineText(Good("ver"), 7) /\ LineText(Good("get"), 21)
<1>1. /\ Behind(0) = "<>" /\ Behind(1) = "LF" /\ Behind(2) = "CR"
      /\ Behind(3) = "." /\ Behind(4) = "LF" /\ Behind(5) = "CR"
  BY DEF Behind
<1>2. Good("ver") = <<"v">> \o Newline \o <<".">> \o Newline \o <<"<>">>
  BY DEF Good
<1>3. Good("get") = <<"g", "p">> \o Newline \o <<".">> \o Newline \o <<"<>">>
  BY DEF Good
<1>c. "v" \in Chars /\ "g" \in Chars /\ "p" \in Chars
  BY DEF Chars
<1>4. LineText(Good("ver"), 7)
  <2>1. PICK t, e : t = Good("ver") /\ e = <<"v">>
    OBVIOUS
  <2>2. e \in Seq(Chars) /\ Len(e) = 1 /\ e[1] = "v"
    BY <1>c, <2>1
  <2>3. t = (((e \o Newline) \o <<".">>) \o Newline) \o <<"<>">>
    BY <1>2, <2>1, Zenon
  <2>4. /\ Len(t) = Len(e) + 6 /\ \A k \in 1 .. Len(e) : t[k] = e[k]
        /\ t[Len(e) + 1] = "CR" /\ t[Len(e) + 2] = "LF" /\ t[Len(e) + 3] = "."
        /\ t[Len(e) + 4] = "CR" /\ t[Len(e) + 5] = "LF" /\ t[Len(e) + 6] = "<>"
    BY <2>2, <2>3, LineChars
  <2>5. /\ Len(t) = 7 /\ t[1] = "v" /\ t[2] = "CR" /\ t[3] = "LF" /\ t[4] = "." /\ t[5] = "CR"
        /\ t[6] = "LF" /\ t[7] = "<>"
    BY <2>2, <2>4
  <2>6. Ending(7) = "v"
    BY Tables
  <2>7. LineText(t, 7)
    BY <1>1, <2>5, <2>6 DEF LineText
  <2> QED BY <2>1, <2>7
<1>5. LineText(Good("get"), 21)
  <2>1. PICK t, e : t = Good("get") /\ e = <<"g", "p">>
    OBVIOUS
  <2>2. e \in Seq(Chars) /\ Len(e) = 2 /\ e[1] = "g" /\ e[2] = "p"
    BY <1>c, <2>1
  <2>3. t = (((e \o Newline) \o <<".">>) \o Newline) \o <<"<>">>
    BY <1>3, <2>1, Zenon
  <2>4. /\ Len(t) = Len(e) + 6 /\ \A k \in 1 .. Len(e) : t[k] = e[k]
        /\ t[Len(e) + 1] = "CR" /\ t[Len(e) + 2] = "LF" /\ t[Len(e) + 3] = "."
        /\ t[Len(e) + 4] = "CR" /\ t[Len(e) + 5] = "LF" /\ t[Len(e) + 6] = "<>"
    BY <2>2, <2>3, LineChars
  <2>5. /\ Len(t) = 8 /\ t[1] = "g" /\ t[2] = "p" /\ t[3] = "CR" /\ t[4] = "LF" /\ t[5] = "."
        /\ t[6] = "CR" /\ t[7] = "LF" /\ t[8] = "<>"
    BY <2>2, <2>4
  <2>6. Ending(21) = "p"
    BY Tables
  <2>7. LineText(t, 21)
    BY <1>1, <2>5, <2>6 DEF LineText
  <2> QED BY <2>1, <2>7
<1> QED BY <1>4, <1>5

(* The first command is answered with t.                                     *)
IsReply(a, p, d, cs, t) ==
  /\ Len(p) \in Nat /\ Len(t) \in Nat /\ Len(a) = Len(p) + Len(t)
  /\ \A i \in 1 .. Len(a) :
       \/ i \in 1 .. Len(p) /\ a[i] = p[i]
       \/ i > Len(p) /\ i - Len(p) \in 1 .. Len(t) /\ a[i].c = t[i - Len(p)] /\ a[i].of = cs[1].of
  /\ Len(cs) \in Nat /\ Len(cs) > 0 /\ Len(d) = Len(cs) - 1
  /\ \A i \in 1 .. Len(d) : d[i] = cs[i + 1]

LEMMA ReplyIs ==
  ASSUME NEW n, NEW p \in CharsOf(n), NEW q \in CharsOf(n), NEW cs \in CommandsOf(n), cs # << >>,
         NEW t, IsSaid(q, t), IsOf(q, cs[1].of)
  PROVE  IsReply(p \o q, p, Tail(cs), cs, t)
<1>1. PICK a, d, f : a = p \o q /\ d = Tail(cs) /\ f = cs[1].of
  OBVIOUS
<1>2. IsJoin(a, p, q) /\ Len(p) \in Nat /\ Len(q) \in Nat
  <2>1. \A T : \A x \in Seq(T) : Len(x) \in Nat
    OBVIOUS
  <2> QED BY <1>1, <2>1, Joins, Zenon DEF CharsOf
<1>3. Len(q) = Len(t) /\ \A i \in 1 .. Len(q) : q[i].c = t[i] /\ q[i].of = f
  BY <1>1 DEF IsSaid, IsOf
<1>4. \A i \in 1 .. Len(a) :
        \/ i \in 1 .. Len(p) /\ a[i] = p[i]
        \/ i > Len(p) /\ i - Len(p) \in 1 .. Len(t) /\ a[i].c = t[i - Len(p)] /\ a[i].of = f
  <2> TAKE i \in 1 .. Len(a)
  <2>1. CASE i <= Len(p)
    BY <1>2, <2>1 DEF IsJoin
  <2>2. CASE i > Len(p)
    <3>1. i - Len(p) \in 1 .. Len(q) /\ Len(p) + (i - Len(p)) = i
      BY <1>2, <2>2 DEF IsJoin
    <3>2. a[i] = q[i - Len(p)]
      BY <1>2, <3>1 DEF IsJoin
    <3> QED BY <1>3, <2>2, <3>1, <3>2
  <2> QED BY <1>2, <2>1, <2>2
<1>5. /\ Len(cs) \in Nat /\ Len(cs) > 0 /\ Len(d) = Len(cs) - 1
      /\ \A i \in 1 .. Len(d) : d[i] = cs[i + 1]
  <2>1. \A T : \A x \in Seq(T) : x # << >> => /\ Len(x) \in Nat /\ Len(x) > 0 /\ Len(Tail(x)) = Len(x) - 1
                                             /\ \A i \in 1 .. Len(Tail(x)) : Tail(x)[i] = x[i + 1]
    OBVIOUS
  <2> QED BY <1>1, <2>1, Zenon DEF CommandsOf
<1>6. Len(a) = Len(p) + Len(t) /\ Len(t) \in Nat
  BY <1>2, <1>3 DEF IsJoin
<1> QED BY <1>1, <1>2, <1>4, <1>5, <1>6, Zenon DEF IsReply

LEMMA ReplyOwn ==
  ASSUME NEW n \in 1 .. 22, NEW p \in CharsOf(n), NEW cs \in CommandsOf(n), NEW a, NEW d, NEW t,
         IsReply(a, p, d, cs, t), IsInTurn(p, cs)
  PROVE  /\ IsInTurn(a, d)
         /\ \A m : Above(p, cs, m) => Above(a, d, m)
         /\ \A m : Below(p, cs, m) => Below(a, d, m)
<1>1. 1 \in 1 .. Len(cs) /\ \A i \in 1 .. Len(d) : i + 1 \in 1 .. Len(cs) /\ d[i] = cs[i + 1] /\ 1 <= i + 1
  BY DEF IsReply
<1>2. \A i, j \in 1 .. Len(d) : i <= j => i + 1 <= j + 1
  OBVIOUS
<1>3. \A i \in 1 .. Len(a) : \/ i \in 1 .. Len(p) /\ a[i] = p[i]
                             \/ i > Len(p) /\ a[i].of = cs[1].of
  BY Zenon DEF IsReply
<1>4. /\ \A i, j \in 1 .. Len(p) : i <= j => p[i].of <= p[j].of
      /\ \A i \in 1 .. Len(p), j \in 1 .. Len(cs) : p[i].of <= cs[j].of
      /\ \A i, j \in 1 .. Len(cs) : i <= j => cs[i].of <= cs[j].of
  BY Zenon DEF IsInTurn
<1>5. cs[1].of \in 1 .. n
  BY <1>1, OfTypes, Zenon
<1>6. \A i, j \in 1 .. Len(a) : i <= j => a[i].of <= a[j].of
  <2> SUFFICES ASSUME NEW i \in 1 .. Len(a), NEW j \in 1 .. Len(a), i <= j PROVE a[i].of <= a[j].of
    OBVIOUS
  <2>1. CASE j \in 1 .. Len(p) /\ a[j] = p[j]
    <3>1. i \in 1 .. Len(p) /\ ~(i > Len(p))
      BY <2>1
    <3> QED BY <1>3, <1>4, <2>1, <3>1, Zenon
  <2>2. CASE a[j].of = cs[1].of
    <3>1. CASE i \in 1 .. Len(p) /\ a[i] = p[i]
      BY <1>1, <1>4, <2>2, <3>1, Zenon
    <3>2. CASE a[i].of = cs[1].of
      BY <1>5, <2>2, <3>2
    <3> QED BY <1>3, <3>1, <3>2, Zenon
  <2> QED BY <1>3, <2>1, <2>2, Zenon
<1>7. \A i \in 1 .. Len(a), j \in 1 .. Len(d) : a[i].of <= d[j].of
  <2> TAKE i \in 1 .. Len(a), j \in 1 .. Len(d)
  <2>1. PICK k \in 1 .. Len(cs) : d[j] = cs[k] /\ 1 <= k
    BY <1>1
  <2>2. CASE i \in 1 .. Len(p) /\ a[i] = p[i]
    BY <1>4, <2>1, <2>2, Zenon
  <2>3. CASE a[i].of = cs[1].of
    BY <1>1, <1>4, <2>1, <2>3, Zenon
  <2> QED BY <1>3, <2>2, <2>3, Zenon
<1>8. \A i, j \in 1 .. Len(d) : i <= j => d[i].of <= d[j].of
  BY <1>1, <1>2, <1>4, Zenon
<1>9. IsInTurn(a, d)
  BY <1>6, <1>7, <1>8, Zenon DEF IsInTurn
<1>10. \A m : Above(p, cs, m) => Above(a, d, m)
  BY <1>1, <1>3, Zenon DEF Above
<1>11. \A m : Below(p, cs, m) => Below(a, d, m)
  BY <1>1, <1>3, Zenon DEF Below
<1> QED BY <1>9, <1>10, <1>11

LEMMA ReplySource ==
  ASSUME NEW n \in 1 .. 22, NEW p \in CharsOf(n), NEW cs \in CommandsOf(n), NEW a, NEW d, NEW t,
         IsReply(a, p, d, cs, t), phrase \in Seq({"A", "O", "K", "."}), AnswerIs(cs[1].name, cs[1].of, t),
         NEW r, r \subseteq refused', IsSource(p, cs, r)
  PROVE  IsSource(a, d, refused')
<1>1. 1 \in 1 .. Len(cs) /\ \A i \in 1 .. Len(d) : i + 1 \in 1 .. Len(cs) /\ d[i] = cs[i + 1]
  BY DEF IsReply
<1>2. PICK rr : rr = refused'
  BY Zenon
<1>3. /\ \A i \in 1 .. Len(p) : p[i].of \in Source(p[i].c) /\ (p[i].c = "R" /\ p[i].of = 18 => 18 \in rr)
      /\ \A i \in 1 .. Len(cs) : cs[i].of \in Sender(cs[i].name)
  BY <1>2 DEF IsSource
<1>4. cs[1].of \in 1 .. 22 /\ cs[1].name \in Names
  <2>1. cs[1].of \in 1 .. n /\ cs[1].name \in Names
    BY <1>1, OfTypes, Zenon
  <2>2. \A x \in 1 .. n : x \in 1 .. 22
    OBVIOUS
  <2> QED BY <2>1, <2>2, Zenon
<1>5. PICK name, f : name = cs[1].name /\ f = cs[1].of
  OBVIOUS
<1>6. \A i \in 1 .. Len(t) : f \in Source(t[i]) /\ (t[i] = "R" /\ f = 18 => 18 \in rr)
  <2>1. f \in Sender(name) /\ name \in Names /\ f \in 1 .. 22 /\ AnswerIs(name, f, t)
    BY <1>1, <1>3, <1>4, <1>5, Zenon
  <2> QED BY <1>2, <2>1, TextSource, Zenon
<1>7. \A i \in 1 .. Len(a) : a[i].of \in Source(a[i].c) /\ (a[i].c = "R" /\ a[i].of = 18 => 18 \in rr)
  <2> TAKE i \in 1 .. Len(a)
  <2>1. \/ i \in 1 .. Len(p) /\ a[i] = p[i]
        \/ i - Len(p) \in 1 .. Len(t) /\ a[i].c = t[i - Len(p)] /\ a[i].of = f
    BY <1>5, Zenon DEF IsReply
  <2> QED BY <1>3, <1>6, <2>1, Zenon
<1>8. \A i \in 1 .. Len(d) : d[i].of \in Sender(d[i].name)
  BY <1>1, <1>3, Zenon
<1> QED BY <1>2, <1>7, <1>8, Zenon DEF IsSource

(* The answer to a request ends with the line that is read.                  *)
LEMMA ReplyLine ==
  ASSUME NEW n \in Lines, NEW p \in CharsOf(n), NEW cs \in CommandsOf(n), NEW a, NEW d, NEW t,
         IsReply(a, p, d, cs, t), AnswerIs(cs[1].name, cs[1].of, t),
         NEW r, IsSource(p, cs, r), IsInTurn(p, cs), LineLeft(p, cs, n)
  PROVE  LineLeft(a, d, n)
<1>1. /\ 1 \in 1 .. Len(cs)
      /\ \A i \in 1 .. Len(d) : i + 1 \in 1 .. Len(cs) /\ d[i] = cs[i + 1] /\ (i + 1 = Len(cs) => i = Len(d)) /\ i + 1 # 1
  BY DEF IsReply
<1>2. PICK name, f : name = cs[1].name /\ f = cs[1].of
  OBVIOUS
<1>3. f \in 1 .. n /\ name \in Names /\ f \in Sender(name) /\ n \in 1 .. 22
  <2>1. f \in 1 .. n /\ name \in Names
    BY <1>1, <1>2, OfTypes, Zenon
  <2>2. f \in Sender(name)
    BY <1>1, <1>2, Zenon DEF IsSource
  <2> QED BY <2>1, <2>2 DEF Lines
<1>4. \A i \in 1 .. Len(a) : \/ i \in 1 .. Len(p) /\ a[i] = p[i]
                             \/ i > Len(p) /\ i - Len(p) \in 1 .. Len(t) /\ a[i].c = t[i - Len(p)] /\ a[i].of = f
  BY <1>2, Zenon DEF IsReply
<1>5. \A i \in 1 .. Len(cs) : cs[i].of = n => i = Len(cs) /\ \A j \in 1 .. Len(p) : p[j].of < n
  BY Zenon DEF LineLeft
<1>6. \A i \in 1 .. Len(p) : p[i].of \in 1 .. n
  BY OfTypes, Zenon
<1>7. \A i \in 1 .. Len(p) : p[i].of <= f
  BY <1>1, <1>2, Zenon DEF IsInTurn
<1>8. CASE f = n
  <2>1. 1 = Len(cs) /\ \A j \in 1 .. Len(p) : p[j].of # n
    <3>1. 1 = Len(cs) /\ \A j \in 1 .. Len(p) : p[j].of < n
      BY <1>1, <1>2, <1>5, <1>8, Zenon
    <3>2. \A x \in 1 .. n : x < n => x # n
      BY <1>3
    <3> QED BY <1>6, <3>1, <3>2, Zenon
  <2>2. \A i \in 1 .. Len(d) : FALSE
    <3>1. Len(d) = Len(cs) - 1
      BY Zenon DEF IsReply
    <3>2. Len(d) = 0
      BY <2>1, <3>1
    <3> QED BY <3>2
  <2>3. t = << >> \/ LineText(t, n)
    <3>1. (n = 7 /\ name = "ver") \/ (n = 21 /\ name = "get")
      <4>1. n = 7 \/ n = 21
        BY DEF Lines
      <4>2. \/ name \in {"", "$$$"} \/ name = "exit" \/ name = "save" \/ name = "reboot"
            \/ name = "ver" \/ name = "get" \/ name = "join" \/ name \in Settings
        BY <1>3 DEF Names, Settings
      <4>3. /\ Sender("") = Enters /\ Sender("$$$") = Enters /\ Sender("exit") = Enters \cup {8, 22}
            /\ Sender("save") = {3, 19} /\ Sender("reboot") = {4} /\ Sender("ver") = {7}
            /\ Sender("join") = {15} /\ Sender("get") = {21}
        BY DEF Sender
      <4>4. \A c \in Settings : Sender(c) = Sets \cup {18}
        BY DEF Sender, Settings
      <4>5. /\ n \notin Enters /\ n \notin Enters \cup {8, 22} /\ n \notin {3, 19} /\ n \notin {4}
            /\ n \notin {15} /\ n \notin Sets \cup {18}
        BY <4>1 DEF Enters, Sets
      <4>6. n \in {7} => n = 7
        OBVIOUS
      <4>7. n \in {21} => n = 21
        OBVIOUS
      <4>8. name \in {"", "$$$"} => n \in Enters
        <5>1. name \in {"", "$$$"} => name = "" \/ name = "$$$"
          OBVIOUS
        <5> QED BY <1>3, <1>8, <4>3, <5>1, Zenon
      <4> QED BY <1>3, <1>8, <4>2, <4>3, <4>4, <4>5, <4>6, <4>7, <4>8, Zenon
    <3>2. name \notin {"set", "phrase", "join"} /\ name # "$$$"
      BY <3>1
    <3>3. t = << >> \/ t = Good(name)
      BY <1>2, <3>2, Zenon DEF AnswerIs
    <3> QED BY <3>1, <3>3, LineTexts, Zenon
  <2>4. CASE t = << >>
    <3>1. \A i \in 1 .. Len(a) : i \in 1 .. Len(p) /\ a[i] = p[i]
      BY <1>4, <2>4
    <3>2. \A i \in 1 .. Len(a) : a[i].of # n
      BY <2>1, <3>1, Zenon
    <3> QED BY <2>2, <3>2, Zenon DEF LineLeft
  <2>5. CASE LineText(t, n)
    <3>1. \A i \in 1 .. Len(a) :
            a[i].of = n => /\ Len(a) - i <= 7
                           /\ Len(a) - i < 6 => a[i].c = Behind(Len(a) - i)
                           /\ a[i].c = Ending(n) <=> Len(a) - i = 6
      <4> SUFFICES ASSUME NEW i \in 1 .. Len(a), a[i].of = n
                   PROVE  /\ Len(a) - i <= 7
                          /\ Len(a) - i < 6 => a[i].c = Behind(Len(a) - i)
                          /\ a[i].c = Ending(n) <=> Len(a) - i = 6
        OBVIOUS
      <4>1. i > Len(p) /\ i - Len(p) \in 1 .. Len(t) /\ a[i].c = t[i - Len(p)]
        BY <1>4, <2>1, Zenon
      <4>2. PICK k \in 1 .. Len(t) : k = i - Len(p)
        BY <4>1
      <4>3. Len(a) - i = Len(t) - k
        BY <4>2 DEF IsReply
      <4>4. Len(t) - k <= 7
        <5>1. Len(t) \in 7 .. 8
          BY <2>5, Zenon DEF LineText
        <5>2. PICK m : m = Len(t)
          OBVIOUS
        <5>3. m \in 7 .. 8 /\ k \in 1 .. m
          BY <4>2, <5>1, <5>2, Zenon
        <5>4. m - k <= 7
          BY <5>3
        <5> QED BY <5>2, <5>4, Zenon
      <4>5. /\ Len(t) - k < 6 => t[k] = Behind(Len(t) - k)
            /\ t[k] = Ending(n) <=> Len(t) - k = 6
        BY <2>5, Zenon DEF LineText
      <4> QED BY <4>1, <4>2, <4>3, <4>4, <4>5, Zenon
    <3> QED BY <2>2, <3>1, Zenon DEF LineLeft
  <2> QED BY <2>3, <2>4, <2>5
<1>9. CASE f # n
  <2>1. f < n
    BY <1>3, <1>9
  <2>2. \A i \in 1 .. Len(p) : p[i].of < n /\ p[i].of # n
    BY <1>3, <1>6, <1>7, <2>1
  <2>3. \A i \in 1 .. Len(a) : a[i].of < n /\ a[i].of # n
    BY <1>4, <1>9, <2>1, <2>2, Zenon
  <2>4. \A i \in 1 .. Len(d) : d[i].of = n => i = Len(d)
    BY <1>1, <1>5, Zenon
  <2> QED BY <2>3, <2>4, Zenon DEF LineLeft
<1> QED BY <1>8, <1>9

-----------------------------------------------------------------------------
(* Action by action.                                                         *)
LEMMA StepOf ==
  ASSUME WiFlyTypeOK
  PROVE  /\ step \in 1 .. 22 /\ RowOK(Now, step)
         /\ Low(step) \in 1 .. 22 /\ Low(step) <= Low(step + 1)
         /\ Pending \in CharsOf(step) /\ commands \in CommandsOf(step) /\ Len(Pending) \in Nat
<1>1. step \in 1 .. 22 /\ fifo \in CharsOf(step) /\ out \in CharsOf(step) /\ commands \in CommandsOf(step)
  BY TypeIs, Zenon DEF TypesOf
<1>2. RowOK(Now, step)
  BY <1>1, RowsOK, Zenon DEF Now
<1>3. Pending \in CharsOf(step)
  BY <1>1, Joins, Zenon DEF CharsOf, Pending
<1>4. Len(Pending) \in Nat
  BY <1>3, OfTypes, Zenon
<1> QED BY <1>1, <1>2, <1>3, <1>4, LowGrows, Zenon

LEMMA BelowLine ==
  ASSUME NEW p, NEW cs, NEW n \in Nat, NEW s \in Nat, p \in CharsOf(n), cs \in CommandsOf(n), n < s
  PROVE  Below(p, cs, s) /\ LineLeft(p, cs, s)
<1>1. \A x \in 1 .. n : x < s /\ x # s
  OBVIOUS
<1>2. /\ \A i \in 1 .. Len(p) : p[i].of < s /\ p[i].of # s
      /\ \A i \in 1 .. Len(cs) : cs[i].of < s /\ cs[i].of # s
  BY <1>1, OfTypes, Zenon
<1> QED BY <1>2, Zenon DEF Below, LineLeft

LEMMA AfterIs ==
  ASSUME WiFlyTypeOK, After
  PROVE  /\ phase' \in {"line", "flush"} => reply' = reply /\ errOffset' = errOffset /\ step' = step
         /\ phase' \notin {"line", "flush"} => reply' = << >> /\ phase' \in {"send", "joined"}
         /\ phase' = "line" => step \in Lines
<1>1. step \in 1 .. 22 /\ RowOK(Now, step) /\ Now.then \in {"next", "flush", "line"}
  BY StepOf, StepTypes DEF Now
<1>2. CASE Now.then = "next"
  <2>1. Goto(step + 1)
    BY <1>2, Zenon DEF After
  <2>2. reply' = << >> /\ (phase' = "joined" \/ phase' = "send")
    BY <2>1, Zenon DEF Goto
  <2>3. phase' \notin {"line", "flush"} /\ phase' \in {"send", "joined"} /\ phase' # "line"
    BY <2>2
  <2> QED BY <2>2, <2>3, Zenon
<1>3. CASE Now.then # "next"
  <2>1. phase' = Now.then /\ step' = step /\ errOffset' = errOffset /\ reply' = reply
    BY <1>3, Zenon DEF After
  <2>2. phase' \in {"line", "flush"}
    BY <1>1, <1>3, <2>1
  <2>3. phase' = "line" => step \in Lines
    BY <1>1, <2>1, Zenon DEF RowOK
  <2> QED BY <2>1, <2>2, <2>3, Zenon
<1> QED BY <1>2, <1>3

(* The step, or the wait of it, is over.                                     *)
LEMMA MovedOwn ==
  ASSUME WiFlyTypeOK, OwnInv, Moved, phase \in {"swallow", "line", "flush"}, ~Refused,
         \E d \in 0 .. 2 : IsDrop(Pending', Pending, d), commands' = commands, refused' = refused,
         phase' \in {"line", "flush"} => errOffset' = errOffset, reply' = << >>,
         phase' = "line" => step \in Lines /\ phase = "swallow"
  PROVE  OwnInv'
<1>0. /\ step \in 1 .. 22 /\ Pending \in CharsOf(step) /\ commands \in CommandsOf(step) /\ Len(Pending) \in Nat
  BY StepOf
<1>1. PICK p, q, cs, r, s : p = Pending /\ q = Pending' /\ cs = commands /\ r = refused /\ s = step
  BY Zenon
<1>2. PICK d \in 0 .. 2 : IsDrop(q, p, d)
  BY <1>1
<1>3. p \in CharsOf(s) /\ cs \in CommandsOf(s) /\ s \in 1 .. 22 /\ Len(p) \in Nat /\ d \in Nat
  BY <1>0, <1>1
<1>4. Keeps(q, p, cs, r)
  BY <1>2, <1>3, DropOwn, Zenon
<1>5. /\ phase' \in {"send", "joined", "flush", "line"}
      /\ phase' = "send" => step' = s + 1
      /\ phase' # "send" => step' = s
  BY <1>1, Zenon DEF Moved
<1>6. Above(q, cs, Low(s + 1))
  <2>1. phase = "swallow" \/ phase \in {"line", "flush"}
    OBVIOUS
  <2>2. Above(p, cs, Low(s + 1))
    BY <1>1, <2>1, Zenon DEF OwnInv, LowInv
  <2> QED BY <1>4, <2>2, Zenon DEF Keeps
<1>7. IsSource(q, cs, r) /\ IsInTurn(q, cs)
  BY <1>1, <1>4, Zenon DEF OwnInv, Keeps
<1>8. Below(q, cs, s + 1) /\ LineLeft(q, cs, s + 1)
  <2>1. s + 1 \in Nat /\ s \in Nat /\ s < s + 1
    BY <1>3
  <2>2. Below(p, cs, s + 1) /\ LineLeft(p, cs, s + 1)
    BY <1>3, <2>1, BelowLine, Zenon
  <2> QED BY <1>4, <2>2, Zenon DEF Keeps
<1>9. phase' # "wait" /\ phase' # "swallow"
  BY <1>5
<1>10. LowInv'
  <2>1. CASE phase' = "send"
    <3>1. step' = s + 1 /\ phase' \notin {"line", "flush"}
      BY <1>5, <2>1
    <3> QED BY <1>1, <1>6, <1>8, <1>9, <2>1, <3>1, Zenon DEF LowInv
  <2>2. CASE phase' # "send"
    <3>1. step' = step /\ phase' \notin {"send", "wait"}
      BY <1>1, <1>5, <1>9, <2>2
    <3>2. phase' \in {"line", "flush"} => ~Refused'
      BY <3>1, Zenon DEF Refused, Now
    <3> QED BY <1>1, <1>6, <1>9, <2>2, <3>1, <3>2, Zenon DEF LowInv
  <2> QED BY <2>1, <2>2
<1>11. KInv'
  BY <1>9, Zenon DEF KInv
<1>12. LinesInv'
  <2>1. phase' = "line" => step' = s /\ s = step /\ phase = "swallow" /\ s \in Lines
    <3>1. phase' = "line" => phase' # "send"
      OBVIOUS
    <3> QED BY <1>1, <1>5, <3>1, Zenon
  <2>2. step' = s + 1 \/ step' = s
    BY <1>5
  <2>3. step' \in Lines => LineLeft(q, cs, step')
    BY <1>1, <1>4, <1>8, <2>2, Zenon DEF OwnInv, LinesInv, Keeps
  <2>4. ASSUME phase' = "line", step' = 7 \/ 18 \notin refused' PROVE LineCame(q, cs, s, "line", << >>)
    <3>1. phase = "swallow" /\ s \in Lines /\ s = step /\ step' = s
      BY <2>1, <2>4
    <3>2. LineCame(p, cs, s, "swallow", reply)
      <4>1. phase \in {"swallow", "line"}
        BY <3>1
      <4> QED BY <1>1, <2>4, <3>1, <4>1, Zenon DEF OwnInv, LinesInv
    <3>3. Len(cs) = 0 /\ Len(p) = 6 /\ \A i \in 1 .. Len(p) : p[i].of = s
      BY <3>2, Zenon DEF LineCame
    <3>4. /\ Len(q) = Len(p) - d /\ \A i \in 1 .. Len(q) : i + d \in 1 .. Len(p) /\ q[i] = p[i + d]
      BY <1>2, <1>3 DEF IsDrop
    <3>5. Len(q) \in 4 .. 6
      BY <3>3, <3>4
    <3>6. \A i \in 1 .. Len(q) : q[i].of = s
      BY <3>3, <3>4, Zenon
    <3>7. "line" # "swallow"
      OBVIOUS
    <3> QED BY <3>3, <3>5, <3>6, <3>7, Zenon DEF LineCame
  <2>5. phase' \in {"swallow", "line"} => phase' = "line"
    BY <1>9
  <2> QED BY <1>1, <2>1, <2>3, <2>4, <2>5, Zenon DEF LinesInv
<1> QED BY <1>1, <1>7, <1>10, <1>11, <1>12, Zenon DEF OwnInv

LEMMA SentIs ==
  ASSUME NEW m, NEW cs \in CommandsOf(m), NEW k \in CommandsOf(m), NEW sent, Len(k) = Len(sent), NEW s,
         \A i \in 1 .. Len(k) : k[i].name = sent[i] /\ k[i].of = s
  PROVE  IsSent(cs \o k, cs, sent, s)
<1>1. PICK d : d = cs \o k
  OBVIOUS
<1>2. IsJoin(d, cs, k) /\ Len(cs) \in Nat /\ Len(k) \in Nat
  <2>1. IsJoin(d, cs, k)
    BY <1>1, Joins, Zenon DEF CommandsOf
  <2> QED BY <2>1, OfTypes, Zenon
<1>3. \A i \in 1 .. Len(d) :
       \/ i \in 1 .. Len(cs) /\ d[i] = cs[i]
       \/ i > Len(cs) /\ \E j \in 1 .. Len(sent) : d[i].name = sent[j] /\ d[i].of = s
  <2> TAKE i \in 1 .. Len(d)
  <2>1. CASE i <= Len(cs)
    BY <1>2, <2>1 DEF IsJoin
  <2>2. CASE i > Len(cs)
    <3>1. i - Len(cs) \in 1 .. Len(k) /\ Len(cs) + (i - Len(cs)) = i
      BY <1>2, <2>2 DEF IsJoin
    <3>2. d[i] = k[i - Len(cs)]
      BY <1>2, <3>1 DEF IsJoin
    <3> QED BY <2>2, <3>1, <3>2
  <2> QED BY <1>2, <2>1, <2>2
<1>4. Len(d) = Len(cs) + Len(sent)
  BY <1>2 DEF IsJoin
<1> QED BY <1>1, <1>2, <1>3, <1>4, Zenon DEF IsSent

LEMMA SendOwns ==
  ASSUME WiFlyTypeOK, TurnInv, AnswerInv, OwnInv, Send
  PROVE  OwnInv'
<1>0. /\ step \in 1 .. 22 /\ Pending \in CharsOf(step) /\ commands \in CommandsOf(step) /\ RowOK(Now, step)
      /\ Low(step) \in 1 .. 22
  BY StepOf
<1>1. phase = "send" /\ out' = out /\ fifo' = fifo /\ refused' = refused /\ Pending' = Pending
  BY Zenon DEF Send, Pending
<1>2. PICK k \in CommandsOf(step) :
        /\ commands' = commands \o k /\ Len(k) = Len(Now.send)
        /\ \A i \in 1 .. Len(k) : k[i].name = Now.send[i] /\ k[i].of = step
  BY SendTypes
<1>3. PICK p, cs, d, r, s, sent : /\ p = Pending /\ cs = commands /\ d = commands' /\ r = refused /\ s = step
                                  /\ sent = Now.send
  BY Zenon
<1>4. IsSent(d, cs, sent, s)
  BY <1>0, <1>2, <1>3, SentIs, Zenon
<1>5. /\ \A i \in 1 .. Len(sent) : s \in Sender(sent[i])
      /\ s \in Lines => Len(sent) = 1
      /\ Below(p, cs, s) /\ p \in CharsOf(s) /\ cs \in CommandsOf(s) /\ s \in 1 .. 22
      /\ Len(sent) \in Nat
  <2>1. \A q \in CommandsOf(step) : Len(q) \in Nat
    BY OfTypes, Zenon
  <2>2. Len(sent) \in Nat
    BY <1>2, <1>3, <2>1, Zenon
  <2> QED BY <1>0, <1>1, <1>3, <2>2, Zenon DEF RowOK, OwnInv, LowInv
<1>6. /\ IsSource(p, cs, r) => IsSource(p, d, r)
      /\ IsInTurn(p, cs) => IsInTurn(p, d)
      /\ \A m \in 1 .. s : Above(p, cs, m) => Above(p, d, m)
      /\ s \in Lines => LineLeft(p, d, s)
  BY <1>4, <1>5, SendOwn
<1>7. Above(p, d, Low(s))
  <2>1. Low(s) \in 1 .. s
    BY <1>5, SMTT(60) DEF Low
  <2>2. Above(p, cs, Low(s))
    <3>1. phase \in {"send", "wait"}
      BY <1>1
    <3> QED BY <1>3, <3>1, Zenon DEF OwnInv, LowInv
  <2> QED BY <1>6, <2>1, <2>2, Zenon
<1>8. IsSource(p, d, r) /\ IsInTurn(p, d)
  BY <1>3, <1>6, Zenon DEF OwnInv
<1>9. reply = << >>
  <2>1. phase # "line"
    BY <1>1
  <2> QED BY <2>1, Zenon DEF OwnInv, LinesInv
<1>10. CASE Now.wait = << >>
  <2>1. After
    BY <1>10, Zenon DEF Send
  <2>2. step = 18
    <3>1. ~(Len(<< >>) > 0)
      OBVIOUS
    <3>2. step # 18 => Len(Now.wait) > 0
      BY <1>0, Zenon DEF RowOK
    <3> QED BY <1>10, <3>1, <3>2, Zenon
  <2>3. Now.then = "flush" /\ Now.checked = FALSE
    BY <2>2, ScriptIs, RowsAre, Zenon DEF Now
  <2>4. phase' = "flush" /\ step' = step /\ reply' = reply
    <3>1. Now.then # "next"
      BY <2>3
    <3> QED BY <2>1, <2>3, <3>1, Zenon DEF After
  <2>5. ~Refused'
    BY <2>3, <2>4, Zenon DEF Refused, Now
  <2>6. Low(s + 1) = Low(s)
    <3>1. s = 18 /\ s + 1 = 19
      BY <1>3, <2>2
    <3> QED BY <3>1, Tables, Zenon
  <2>7. phase' \notin {"send", "wait"} /\ phase' # "swallow" /\ phase' # "send" /\ phase' # "wait" /\ phase' # "line"
    BY <2>4
  <2>8. LowInv'
    BY <1>1, <1>3, <1>7, <2>4, <2>5, <2>6, <2>7, Zenon DEF LowInv
  <2>9. KInv'
    BY <2>7, Zenon DEF KInv
  <2>10. LinesInv'
    <3>1. phase' \notin {"swallow", "line"}
      BY <2>7
    <3> QED BY <1>1, <1>3, <1>6, <1>9, <2>4, <2>7, <3>1, Zenon DEF LinesInv
  <2> QED BY <1>1, <1>3, <1>8, <2>8, <2>9, <2>10, Zenon DEF OwnInv
<1>11. CASE Now.wait # << >>
  <2>1. phase' = "wait" /\ step' = step /\ reply' = reply
    BY <1>11, Zenon DEF Send
  <2>2. phase' \notin {"line", "flush"} /\ phase' # "swallow" /\ phase' # "send" /\ phase' # "line"
    BY <2>1
  <2>3. LowInv'
    BY <1>1, <1>3, <1>7, <2>1, <2>2, Zenon DEF LowInv
  <2>4. KInv'
    <3>1. ASSUME step \in Sets PROVE KOf(p, step)
      <4>1. step < 18
        BY <3>1 DEF Sets
      <4>2. Quiet(Pending, step)
        <5>1. phase # "wait" /\ phase # "failed" /\ phase # "swallow"
          BY <1>1
        <5> QED BY <4>1, <5>1, Zenon DEF AnswerInv, PlaceInv, Failed, Refusal, Waiting, Answered, Idle
      <4>3. "K" \in Loud(step)
        BY DEF Loud
      <4> QED BY <1>3, <4>2, <4>3, Zenon DEF Quiet, KOf
    <3> QED BY <1>1, <1>3, <2>1, <3>1, Zenon DEF KInv
  <2>5. LinesInv'
    <3>1. phase' \notin {"swallow", "line"}
      BY <2>1
    <3> QED BY <1>1, <1>3, <1>6, <1>9, <2>1, <2>2, <3>1, Zenon DEF LinesInv
  <2> QED BY <1>1, <1>3, <1>8, <2>3, <2>4, <2>5, Zenon DEF OwnInv
<1> QED BY <1>10, <1>11

LEMMA EndingK == \A s \in 1 .. 22 : Ending(s) = "K" => s \in Sets
<1> SUFFICES ASSUME NEW s \in 1 .. 22, s \notin Sets PROVE Ending(s) # "K"
  OBVIOUS
<1>1. s \in Enters \/ s \in {3, 4, 5, 7, 8, 15, 18, 19, 20, 21, 22}
  BY DEF Sets, Enters
<1>2. s \in Enters => Ending(s) = "D"
  BY Tables
<1>3. s = 18 => Ending(s) = ""
  BY DEF Ending, Enters, Sets
<1>4. s \in {3, 4, 5, 7, 8, 15, 19, 20, 21, 22} => Ending(s) \in {"g", "b", "E", "v", "X", "!", "<>", "p"}
  BY Tables
<1> QED BY <1>1, <1>2, <1>3, <1>4

LEMMA LinesAre ==
  \A s \in Lines : s \in 1 .. 22 /\ Script[s].checked = FALSE /\ s \notin Sets \cup {4, 18}
<1>1. Version.checked = FALSE /\ Address.checked = FALSE
  BY DEF Version, Address, Do
<1>2. \A s \in Lines : s = 7 \/ s = 21
  BY DEF Lines
<1>3. \A s \in Lines : s \in 1 .. 22 /\ s \notin Sets \cup {4, 18}
  BY DEF Lines, Sets
<1> QED BY <1>1, <1>2, <1>3, ScriptIs, Zenon

(* A wait ends with an answer to its own command, or nothing of what its     *)
(* step left behind can be taken for the next answer.                        *)
LEMMA WaitOwns ==
  ASSUME WiFlyTypeOK, TurnInv, OwnInv, WaitForResponse
  PROVE  /\ OwnInv'
         /\ offset' = Len(Now.wait) /\ Now.send # << >> => Head(fifo).of = step
<1>0. /\ phase = "wait" /\ step' = step /\ phase' \in {"wait", "swallow"}
      /\ IsDrop(Pending', Pending, 1) /\ Len(Pending) > 0 /\ Pending[1] = Head(fifo)
  BY WaitTypes
<1>1. /\ step \in 1 .. 22 /\ Pending \in CharsOf(step) /\ commands \in CommandsOf(step) /\ RowOK(Now, step)
      /\ Len(Pending) \in Nat
  BY StepOf
<1>2. commands' = commands /\ refused' = refused /\ Now' = Now /\ reply' = reply /\ reply = << >>
  <2>1. phase # "line"
    BY <1>0
  <2> QED BY <1>0, <2>1, Zenon DEF WaitForResponse, module, Now, OwnInv, LinesInv
<1>3. PICK p, q, cs, r, s : p = Pending /\ q = Pending' /\ cs = commands /\ r = refused /\ s = step
  BY Zenon
<1>4. PICK c, f : c = p[1].c /\ f = p[1].of
  OBVIOUS
<1>5. /\ p \in CharsOf(s) /\ cs \in CommandsOf(s) /\ s \in 1 .. 22 /\ s \in Nat /\ Len(p) \in Nat /\ Len(p) > 0
      /\ IsDrop(q, p, 1) /\ 1 \in 1 .. Len(p)
  BY <1>0, <1>1, <1>3
<1>6. /\ Keeps(q, p, cs, r) /\ Above(q, cs, f) /\ Above(p, cs, f)
  <2>1. Keeps(q, p, cs, r)
    BY <1>5, DropOwn, 1 \in Nat, Zenon
  <2>2. IsInTurn(p, cs)
    BY <1>3, Zenon DEF OwnInv
  <2> QED BY <1>4, <1>5, <2>1, <2>2, InTurnHead, Zenon
<1>7. f \in 1 .. s /\ f \in Source(c) /\ (c = "R" /\ f = 18 => 18 \in r) /\ Low(s) <= f
  <2>1. f \in 1 .. s
    BY <1>4, <1>5, OfTypes, Zenon
  <2>2. IsSource(p, cs, r)
    BY <1>3, Zenon DEF OwnInv
  <2>3. Above(p, cs, Low(s))
    <3>1. phase \in {"send", "wait"}
      BY <1>0
    <3> QED BY <1>3, <3>1, Zenon DEF OwnInv, LowInv
  <2> QED BY <1>4, <1>5, <2>1, <2>2, <2>3, Zenon DEF IsSource, Above
<1>8. f \in Low(s) .. s
  <2>1. Low(s) \in 1 .. 22
    BY <1>5, LowGrows
  <2> QED BY <1>5, <1>7, <2>1
<1>9. PICK o, oo, x, xx, w : o = offset /\ oo = offset' /\ x = errOffset /\ xx = errOffset' /\ w = Now.wait
  BY Zenon
<1>10. /\ oo = IF w[o + 1] = c THEN o + 1 ELSE o
       /\ xx = IF ERR[x + 1] = c /\ oo = 0 THEN x + 1 ELSE x
       /\ phase' = IF oo = Len(w) \/ xx = 3 THEN "swallow" ELSE "wait"
  BY <1>0, <1>3, <1>4, <1>9, Zenon DEF WaitForResponse, Matches
<1>11. o \in Nat /\ o < Len(w) /\ x \in 0 .. 2 /\ Len(w) \in Nat
  <2>1. \A T : \A u \in Seq(T) : Len(u) \in Nat
    OBVIOUS
  <2>2. Len(w) \in Nat
    BY <1>1, <1>9, <2>1, StepTypes, Zenon DEF Now
  <2>3. o \in 0 .. Len(w) /\ x \in 0 .. 3
    BY <1>9, TypeIs, Zenon DEF TypesOf, Now
  <2>4. o < Len(w) /\ x < 3
    BY <1>0, <1>9, Zenon DEF TurnInv
  <2> QED BY <2>2, <2>3, <2>4
<1>12. s # 18
  <2>1. ASSUME s = 18 PROVE FALSE
    <3>1. w = << >>
      BY <1>3, <1>9, <2>1, ScriptIs, RowsAre, Zenon DEF Now
    <3> QED BY <1>11, <3>1
  <2> QED BY <2>1
<1>13. oo = Len(w) => c = Ending(s)
  <2> SUFFICES ASSUME oo = Len(w) PROVE c = Ending(s)
    OBVIOUS
  <2>1. w[Len(w)] = c
    BY <1>10, <1>11
  <2>2. w[Len(w)] = Ending(s)
    BY <1>1, <1>3, <1>9, <1>12, Zenon DEF RowOK
  <2> QED BY <2>1, <2>2
<1>14. c = Ending(s) /\ c = "K" => f = s
  <2> SUFFICES ASSUME c = Ending(s), c = "K" PROVE f = s
    OBVIOUS
  <2>1. s \in Sets
    BY <1>5, EndingK
  <2>2. KOf(p, s)
    BY <1>0, <1>3, <2>1, Zenon DEF OwnInv, KInv
  <2> QED BY <1>4, <1>5, <2>2, Zenon DEF KOf
<1>15. oo # Len(w) /\ xx = 3 => c = "R"
  <2>1. ERR[3] = "R"
    BY DEF ERR
  <2> QED BY <1>10, <1>11, <2>1
<1>16. ASSUME oo = Len(w)
       PROVE  /\ Low(s + 1) <= f /\ (s \notin {5, 20} => f = s) /\ (s \in Lines => f = s)
              /\ c = Ending(s)
  <2>1. c = Ending(s)
    BY <1>13, <1>16
  <2>2. /\ Low(s + 1) <= f
        /\ s \notin {5, 20} => f = s
    BY <1>5, <1>7, <1>8, <1>12, <1>14, <2>1, EndBound
  <2>3. s \in Lines => s \notin {5, 20}
    BY DEF Lines
  <2> QED BY <2>1, <2>2, <2>3, Zenon
<1>17. ASSUME oo # Len(w), xx = 3, ~Now.checked
       PROVE  /\ Low(s + 1) <= f /\ (s \in Lines => s = 21 /\ 18 \in r)
  <2>1. s \notin Enters \cup (Sets \ {2})
    BY <1>1, <1>3, <1>17, Zenon DEF RowOK
  <2>2. c = "R"
    BY <1>15, <1>17
  <2>3. /\ Low(s + 1) <= f
        /\ s \in Lines => f = s \/ (c = "R" /\ s = 21 /\ f = 18)
    BY <1>5, <1>7, <1>8, <2>1, <2>2, EndBound
  <2>4. f \in Sets \cup {4, 18}
    BY <1>7, <2>2 DEF Source
  <2>5. s \in Lines => f # s
    BY <2>4, LinesAre, Zenon
  <2> QED BY <1>7, <2>2, <2>3, <2>5, Zenon
<1>18. Now.send # << >> => s \notin {5, 20}
  BY <1>1, <1>3, Zenon DEF RowOK
<1>19. offset' = Len(Now.wait) /\ Now.send # << >> => Head(fifo).of = step
  BY <1>0, <1>3, <1>4, <1>9, <1>16, <1>18, Zenon
<1>20. IsSource(q, cs, r) /\ IsInTurn(q, cs)
  BY <1>3, <1>6, Zenon DEF OwnInv, Keeps
<1>21. q \in CharsOf(s) /\ Above(p, cs, Low(s))
  <2>1. /\ fifo # << >> /\ fifo' = Tail(fifo) /\ out' = out
        /\ fifo \in CharsOf(step) /\ out \in CharsOf(step)
    BY TypeIs, Zenon DEF TypesOf, WaitForResponse, module
  <2>2. fifo' \in CharsOf(step) /\ out' \in CharsOf(step)
    BY <2>1, TailDrop, Zenon DEF CharsOf
  <2>3. q \in CharsOf(s)
    BY <1>3, <2>2, Joins, Zenon DEF CharsOf, Pending
  <2>4. phase \in {"send", "wait"}
    BY <1>0
  <2> QED BY <1>3, <2>3, <2>4, Zenon DEF OwnInv, LowInv
<1>22. ASSUME Low(s + 1) <= f PROVE Above(q, cs, Low(s + 1))
  <2>1. Low(s + 1) \in Nat /\ f \in Nat
    BY <1>5, <1>7 DEF Low
  <2> QED BY <1>5, <1>6, <1>21, <1>22, <2>1, AboveLess, Zenon
<1>23. CASE phase' = "wait"
  <2>1. phase' # "send" /\ phase' # "swallow" /\ phase' # "line" /\ phase' \notin {"line", "flush"}
        /\ phase' \notin {"swallow", "line"}
    BY <1>23
  <2>2. LowInv'
    BY <1>0, <1>2, <1>3, <1>6, <1>21, <2>1, Zenon DEF LowInv, Keeps
  <2>3. KInv'
    BY <1>0, <1>3, <1>6, Zenon DEF OwnInv, KInv, Keeps
  <2>4. LinesInv'
    BY <1>0, <1>2, <1>3, <1>6, <2>1, Zenon DEF OwnInv, LinesInv, Keeps
  <2> QED BY <1>2, <1>3, <1>19, <1>20, <2>2, <2>3, <2>4, Zenon DEF OwnInv
<1>24. CASE phase' = "swallow"
  <2>1. /\ phase' # "send" /\ phase' # "wait" /\ phase' # "line" /\ phase' \notin {"line", "flush"}
        /\ phase' \notin {"send", "wait"}
    BY <1>24
  <2>2. oo = Len(w) \/ (oo # Len(w) /\ xx = 3)
    BY <1>10, <1>24
  <2>3. Refused' \/ Above(q, cs, Low(s + 1))
    <3>1. CASE oo = Len(w)
      BY <1>16, <1>22, <3>1, Zenon
    <3>2. CASE oo # Len(w) /\ xx = 3
      <4>1. CASE Now.checked
        BY <1>2, <1>9, <3>2, <4>1, Zenon DEF Refused
      <4>2. CASE ~Now.checked
        BY <1>17, <1>22, <3>2, <4>2, Zenon
      <4> QED BY <4>1, <4>2
    <3> QED BY <2>2, <3>1, <3>2
  <2>4. LowInv'
    BY <1>0, <1>2, <1>3, <2>1, <2>3, Zenon DEF LowInv
  <2>5. KInv'
    BY <2>1, Zenon DEF KInv
  <2>6. ASSUME s \in Lines, s = 7 \/ 18 \notin r PROVE LineCame(q, cs, s, "swallow", << >>)
    <3>1. oo = Len(w)
      <4>1. ASSUME oo # Len(w) PROVE FALSE
        <5>1. xx = 3
          BY <2>2, <4>1
        <5>2. ~Now.checked
          BY <1>3, <2>6, LinesAre, Zenon DEF Now
        <5>3. s = 21 /\ 18 \in r
          BY <1>17, <2>6, <4>1, <5>1, <5>2, Zenon
        <5> QED BY <2>6, <5>3
      <4> QED BY <4>1
    <3>2. f = s /\ c = Ending(s)
      BY <1>16, <2>6, <3>1, Zenon
    <3>3. LineLeft(p, cs, s)
      BY <1>3, <2>6, Zenon DEF OwnInv, LinesInv
    <3>4. Len(p) - 1 = 6
      BY <1>4, <1>5, <3>2, <3>3, Zenon DEF LineLeft
    <3>5. Len(q) = 6
      BY <1>5, <3>4 DEF IsDrop
    <3>6. \A i \in 1 .. Len(q) : q[i].of = s
      <4>1. \A y \in 1 .. s : s <= y => y = s
        BY <1>5
      <4> QED BY <1>6, <1>21, <3>2, <4>1, OfTypes, Zenon DEF Above
    <3>7. \A i \in 1 .. Len(cs) : FALSE
      <4> SUFFICES ASSUME NEW i \in 1 .. Len(cs) PROVE FALSE
        OBVIOUS
      <4>1. cs[i].of \in 1 .. s /\ s <= cs[i].of
        BY <1>5, <1>6, <3>2, OfTypes, Zenon DEF Above
      <4>2. cs[i].of = s
        BY <1>5, <4>1
      <4>3. p[1].of < s
        BY <1>5, <3>3, <4>2, Zenon DEF LineLeft
      <4> QED BY <1>4, <1>5, <3>2, <4>3
    <3>8. Len(cs) = 0
      <4>1. Len(cs) \in Nat
        BY <1>5, OfTypes, Zenon
      <4> QED BY <3>7, <4>1
    <3>9. "swallow" # "line"
      OBVIOUS
    <3> QED BY <3>5, <3>6, <3>8, <3>9, Zenon DEF LineCame
  <2>7. LinesInv'
    BY <1>0, <1>2, <1>3, <1>6, <1>24, <2>1, <2>6, Zenon DEF OwnInv, LinesInv, Keeps
  <2> QED BY <1>2, <1>3, <1>19, <1>20, <2>4, <2>5, <2>7, Zenon DEF OwnInv
<1> QED BY <1>0, <1>23, <1>24

LEMMA SwallowOwns ==
  ASSUME WiFlyTypeOK, TurnInv, OwnInv, Swallow
  PROVE  OwnInv'
<1>0. /\ phase = "swallow"
      /\ \/ errOffset = 3 /\ Now.checked /\ phase' = "failed" /\ step' = step /\ errOffset' = errOffset
         \/ ~(errOffset = 3 /\ Now.checked) /\ Moved
      /\ \E d \in 0 .. 2 : IsDrop(Pending', Pending, d)
      /\ commands' = commands /\ refused' = refused
  BY SwallowTypes
<1>1. reply = << >>
  <2>1. phase # "line"
    BY <1>0
  <2> QED BY <2>1, Zenon DEF OwnInv, LinesInv
<1>2. CASE ~(errOffset = 3 /\ Now.checked) /\ Moved
  <2>1. After
    BY <1>2, Zenon DEF Swallow
  <2>2. ~Refused /\ phase \in {"swallow", "line", "flush"}
    BY <1>0, <1>2 DEF Refused
  <2>3. /\ phase' \in {"line", "flush"} => errOffset' = errOffset
        /\ reply' = << >>
        /\ phase' = "line" => step \in Lines /\ phase = "swallow"
    BY <1>0, <1>1, <2>1, AfterIs, Zenon
  <2> QED BY <1>0, <1>2, <2>2, <2>3, MovedOwn, Zenon
<1>3. CASE errOffset = 3 /\ Now.checked /\ phase' = "failed" /\ step' = step /\ errOffset' = errOffset
  <2>1. PICK p, q, cs, r, s : p = Pending /\ q = Pending' /\ cs = commands /\ r = refused /\ s = step
    BY Zenon
  <2>2. PICK d \in 0 .. 2 : IsDrop(q, p, d)
    BY <1>0, <2>1
  <2>3. Keeps(q, p, cs, r)
    <3>1. Len(p) \in Nat /\ d \in Nat
      BY <2>1, StepOf
    <3> QED BY <2>2, <3>1, DropOwn, Zenon
  <2>4. /\ phase' \notin {"send", "wait"} /\ phase' \notin {"line", "flush"} /\ phase' \notin {"swallow", "line"}
        /\ phase' # "send" /\ phase' # "wait" /\ phase' # "swallow" /\ phase' # "line"
    BY <1>3
  <2>5. reply' = reply
    BY <1>3, Zenon DEF Swallow
  <2>6. LowInv'
    BY <2>4, Zenon DEF LowInv
  <2>7. KInv'
    BY <2>4, Zenon DEF KInv
  <2>8. LinesInv'
    BY <1>0, <1>1, <1>3, <2>1, <2>3, <2>4, <2>5, Zenon DEF OwnInv, LinesInv, Keeps
  <2> QED BY <1>0, <2>1, <2>3, <2>6, <2>7, <2>8, Zenon DEF OwnInv, Keeps
<1> QED BY <1>0, <1>2, <1>3

(* Reading, or flushing, goes on.                                            *)
LEMMA StayOwn ==
  ASSUME WiFlyTypeOK, OwnInv, phase \in {"line", "flush"},
         step' = step, phase' = phase, errOffset' = errOffset, commands' = commands, refused' = refused,
         \E d \in 0 .. 2 : IsDrop(Pending', Pending, d),
         phase = "flush" => reply' = << >>,
         phase = "line" /\ (step = 7 \/ 18 \notin refused) => LineCame(Pending', commands, step, "line", reply')
  PROVE  OwnInv'
<1>1. PICK p, q, cs, r, s : p = Pending /\ q = Pending' /\ cs = commands /\ r = refused /\ s = step
  BY Zenon
<1>2. PICK d \in 0 .. 2 : IsDrop(q, p, d)
  BY <1>1
<1>3. Keeps(q, p, cs, r)
  <2>1. Len(p) \in Nat /\ d \in Nat
    BY <1>1, StepOf
  <2> QED BY <1>2, <2>1, DropOwn, Zenon
<1>4. /\ phase \notin {"send", "wait"} /\ phase # "send" /\ phase # "wait" /\ phase # "swallow"
      /\ phase # "line" => phase = "flush"
      /\ phase \in {"swallow", "line"} => phase = "line"
  OBVIOUS
<1>5. LowInv'
  <2>1. Refused' <=> Refused
    BY Zenon DEF Refused, Now
  <2> QED BY <1>1, <1>3, <1>4, <2>1, Zenon DEF OwnInv, LowInv, Keeps
<1>6. KInv'
  BY <1>4, Zenon DEF KInv
<1>7. LinesInv'
  BY <1>1, <1>3, <1>4, Zenon DEF OwnInv, LinesInv, Keeps
<1> QED BY <1>1, <1>3, <1>5, <1>6, <1>7, Zenon DEF OwnInv, Keeps

LEMMA FlushOwns ==
  ASSUME WiFlyTypeOK, TurnInv, OwnInv, FlushRX
  PROVE  OwnInv'
<1>0. /\ \E d \in 0 .. 2 : IsDrop(Pending', Pending, d)
      /\ commands' = commands /\ refused' = refused
  BY ReadTypes
<1>1. phase = "flush"
  BY Zenon DEF FlushRX
<1>2. phase # "line" /\ phase \in {"line", "flush"} /\ phase \in {"swallow", "line", "flush"}
  BY <1>1
<1>3. reply = << >> /\ ~Refused
  BY <1>2, Zenon DEF OwnInv, LinesInv, LowInv
<1>4. CASE Goto(step + 1)
  <2>1. Moved
    BY <1>4, GotoMoves
  <2>2. reply' = << >> /\ (phase' = "joined" \/ phase' = "send")
    BY <1>4, Zenon DEF Goto
  <2>3. phase' \notin {"line", "flush"} /\ phase' # "line"
    BY <2>2
  <2> QED BY <1>0, <1>2, <1>3, <2>1, <2>2, <2>3, MovedOwn, Zenon
<1>5. CASE UNCHANGED <<step, phase, offset, errOffset, reply>>
  <2>1. step' = step /\ phase' = phase /\ errOffset' = errOffset /\ reply' = reply
    BY <1>5, Zenon
  <2> QED BY <1>0, <1>2, <1>3, <2>1, StayOwn, Zenon
<1> QED BY <1>4, <1>5, Zenon DEF FlushRX

(* What is read of the line, character by character.                         *)
LEMMA ReadOwns ==
  ASSUME WiFlyTypeOK, TurnInv, OwnInv, ReadResponse
  PROVE  /\ OwnInv'
         /\ step' # step /\ 18 \notin refused => reply = <<[c |-> ".", of |-> step]>>
<1>0. /\ \E d \in 0 .. 2 : IsDrop(Pending', Pending, d)
      /\ commands' = commands /\ refused' = refused
  BY ReadTypes
<1>1. phase = "line" /\ fifo # << >>
  BY Zenon DEF ReadResponse
<1>2. /\ phase \in {"line", "flush"} /\ phase \in {"swallow", "line", "flush"} /\ phase \in {"swallow", "line"}
      /\ phase # "flush" /\ phase # "swallow"
  BY <1>1
<1>3. step \in Lines /\ ~Refused
  BY <1>1, <1>2, Zenon DEF OwnInv, LinesInv, LowInv
<1>4. PICK p, q, cs, s, e, rd, rr : /\ p = Pending /\ q = Pending' /\ cs = commands /\ s = step /\ e = Head(fifo)
                                    /\ rd = reply /\ rr = reply'
  BY Zenon
<1>5. PICK d \in 0 .. 2 : IsDrop(q, p, d)
  BY <1>0, <1>4
<1>6. /\ Len(p) \in Nat /\ Len(p) > 0 /\ p[1] = e /\ e \in [c : Chars, of : 1 .. s]
      /\ IsDrop(Tail(fifo) \o out, p, 1) /\ 1 \in 1 .. Len(p)
  <2>1. fifo \in CharsOf(step) /\ out \in CharsOf(step)
    BY TypeIs, Zenon DEF TypesOf
  <2>2. /\ Len(p) > 0 /\ p[1] = e /\ e \in [c : Chars, of : 1 .. s]
        /\ IsDrop(Tail(fifo) \o out, p, 1)
    BY <1>1, <1>4, <2>1, TailDrop, Zenon DEF CharsOf, Pending
  <2>3. Len(p) \in Nat
    BY <1>4, StepOf
  <2> QED BY <2>2, <2>3
<1>7. s = 7 \/ 18 \notin refused => LineCame(p, cs, s, "line", rd) /\ LineLeft(p, cs, s)
  BY <1>1, <1>2, <1>3, <1>4, Zenon DEF OwnInv, LinesInv
<1>8. ASSUME LineCame(p, cs, s, "line", rd), LineLeft(p, cs, s)
      PROVE  /\ e.of = s /\ Len(cs) = 0 /\ \A i \in 1 .. Len(p) : p[i].of = s
             /\ \/ rd = << >> /\ Len(p) = 6 /\ e.c = "CR"
                \/ rd = << >> /\ Len(p) = 5 /\ e.c = "LF"
                \/ rd = << >> /\ Len(p) = 4 /\ e.c = "."
                \/ rd = <<[c |-> ".", of |-> s]>> /\ Len(p) = 3 /\ e.c = "CR"
  <2>1. Len(cs) = 0 /\ \A i \in 1 .. Len(p) : p[i].of = s
    BY <1>8, Zenon DEF LineCame
  <2>2. \/ rd = << >> /\ Len(p) \in 4 .. 6
        \/ rd = <<[c |-> ".", of |-> s]>> /\ Len(p) = 3
    BY <1>8, Zenon DEF LineCame
  <2>3. e.of = s
    BY <1>6, <2>1, Zenon
  <2>4. Len(p) - 1 < 6 => e.c = Behind(Len(p) - 1)
    BY <1>6, <1>8, <2>3, Zenon DEF LineLeft
  <2>5. Behind(2) = "CR" /\ Behind(3) = "." /\ Behind(4) = "LF" /\ Behind(5) = "CR"
    BY DEF Behind
  <2>6. Len(p) \in 3 .. 6 => \/ Len(p) = 3 /\ e.c = "CR"
                             \/ Len(p) = 4 /\ e.c = "."
                             \/ Len(p) = 5 /\ e.c = "LF"
                             \/ Len(p) = 6 /\ e.c = "CR"
    <3>1. PICK m, g : m = Len(p) /\ g = e.c
      OBVIOUS
    <3>2. m - 1 < 6 => g = Behind(m - 1)
      BY <2>4, <3>1
    <3>3. m \in 3 .. 6 => \/ m = 3 /\ g = "CR"
                          \/ m = 4 /\ g = "."
                          \/ m = 5 /\ g = "LF"
                          \/ m = 6 /\ g = "CR"
      BY <2>5, <3>2
    <3> QED BY <3>1, <3>3, Zenon
  <2>7. CASE rd = << >> /\ Len(p) \in 4 .. 6
    <3>0. PICK m : m = Len(p)
      OBVIOUS
    <3>1. Len(p) \in 3 .. 6 /\ Len(p) # 3
      <4>1. m \in 4 .. 6
        BY <2>7, <3>0, Zenon
      <4>2. m \in 3 .. 6 /\ m # 3
        BY <4>1
      <4> QED BY <3>0, <4>2, Zenon
    <3> QED BY <2>1, <2>3, <2>6, <2>7, <3>1, Zenon
  <2>8. CASE rd = <<[c |-> ".", of |-> s]>> /\ Len(p) = 3
    <3>1. Len(p) \in 3 .. 6 /\ Len(p) # 4 /\ Len(p) # 5 /\ Len(p) # 6
      BY <2>8
    <3> QED BY <2>1, <2>3, <2>6, <2>8, <3>1, Zenon
  <2> QED BY <2>2, <2>7, <2>8
<1>9. CASE e.c # "CR"
  <2>1. /\ reply' = IF e.c = "LF" THEN reply ELSE Append(reply, e)
        /\ fifo' = Tail(fifo) /\ step' = step /\ phase' = phase /\ errOffset' = errOffset /\ out' = out
    BY <1>4, <1>9, Zenon DEF ReadResponse, module
  <2>2. IsDrop(q, p, 1)
    BY <1>4, <1>6, <2>1, Zenon DEF Pending
  <2>3. /\ Len(q) = Len(p) - 1 /\ \A i \in 1 .. Len(q) : i + 1 \in 1 .. Len(p) /\ q[i] = p[i + 1]
    BY <1>6, <2>2 DEF IsDrop
  <2>4. ASSUME s = 7 \/ 18 \notin refused PROVE LineCame(q, cs, s, "line", rr)
    <3>1. /\ e.of = s /\ Len(cs) = 0 /\ \A i \in 1 .. Len(p) : p[i].of = s
          /\ \/ rd = << >> /\ Len(p) = 6 /\ e.c = "CR"
             \/ rd = << >> /\ Len(p) = 5 /\ e.c = "LF"
             \/ rd = << >> /\ Len(p) = 4 /\ e.c = "."
             \/ rd = <<[c |-> ".", of |-> s]>> /\ Len(p) = 3 /\ e.c = "CR"
      BY <1>7, <1>8, <2>4, Zenon
    <3>2. \A i \in 1 .. Len(q) : q[i].of = s
      BY <2>3, <3>1, Zenon
    <3>3. "line" # "swallow"
      OBVIOUS
    <3>4. CASE rd = << >> /\ Len(p) = 5 /\ e.c = "LF"
      <4>1. rr = << >>
        BY <1>4, <2>1, <3>4, Zenon
      <4>2. Len(q) \in 4 .. 6
        BY <2>3, <3>4
      <4> QED BY <3>1, <3>2, <3>3, <4>1, <4>2, Zenon DEF LineCame
    <3>5. CASE rd = << >> /\ Len(p) = 4 /\ e.c = "."
      <4>1. e = [c |-> ".", of |-> s]
        BY <1>6, <3>1, <3>5
      <4>2. Append(<< >>, e) = <<e>>
        OBVIOUS
      <4>3. rr = <<[c |-> ".", of |-> s]>>
        <5>1. e.c # "LF"
          BY <3>5
        <5> QED BY <1>4, <2>1, <3>5, <4>1, <4>2, <5>1, Zenon
      <4>4. Len(q) = 3
        BY <2>3, <3>5
      <4> QED BY <3>1, <3>2, <3>3, <4>3, <4>4, Zenon DEF LineCame
    <3> QED BY <1>9, <3>1, <3>4, <3>5, Zenon
  <2>5. OwnInv'
    BY <1>0, <1>2, <1>4, <2>1, <2>4, StayOwn, Zenon
  <2> QED BY <2>1, <2>5
<1>10. CASE e.c = "CR" /\ reply = << >>
  <2>1. step' = step /\ phase' = phase /\ errOffset' = errOffset /\ reply' = reply
    BY <1>4, <1>10, Zenon DEF ReadResponse
  <2>2. ASSUME s = 7 \/ 18 \notin refused PROVE LineCame(q, cs, s, "line", rr)
    <3>1. /\ Len(cs) = 0 /\ \A i \in 1 .. Len(p) : p[i].of = s
          /\ \/ rd = << >> /\ Len(p) = 6 /\ e.c = "CR"
             \/ rd = << >> /\ Len(p) = 5 /\ e.c = "LF"
             \/ rd = << >> /\ Len(p) = 4 /\ e.c = "."
             \/ rd = <<[c |-> ".", of |-> s]>> /\ Len(p) = 3 /\ e.c = "CR"
      BY <1>7, <1>8, <2>2, Zenon
    <3>2. Len(p) = 6
      <4>1. rd = << >>
        BY <1>4, <1>10
      <4>2. rd # <<[c |-> ".", of |-> s]>>
        BY <4>1
      <4>3. e.c # "LF" /\ e.c # "."
        BY <1>10
      <4> QED BY <3>1, <4>2, <4>3, Zenon
    <3>3. Len(q) \in 4 .. 6 /\ \A i \in 1 .. Len(q) : i + d \in 1 .. Len(p) /\ q[i] = p[i + d]
      BY <1>5, <3>2 DEF IsDrop
    <3>4. \A i \in 1 .. Len(q) : q[i].of = s
      BY <3>1, <3>3, Zenon
    <3>5. "line" # "swallow" /\ rr = << >>
      BY <1>4, <1>10, <2>1
    <3> QED BY <3>1, <3>3, <3>4, <3>5, Zenon DEF LineCame
  <2>3. OwnInv'
    BY <1>0, <1>2, <1>4, <2>1, <2>2, StayOwn, Zenon
  <2> QED BY <2>1, <2>3
<1>11. CASE e.c = "CR" /\ reply # << >>
  <2>1. Goto(step + 1)
    BY <1>4, <1>11, Zenon DEF ReadResponse
  <2>2. Moved
    BY <2>1, GotoMoves
  <2>3. reply' = << >> /\ (phase' = "joined" \/ phase' = "send")
    BY <2>1, Zenon DEF Goto
  <2>4. phase' \notin {"line", "flush"} /\ phase' # "line"
    BY <2>3
  <2>5. OwnInv'
    BY <1>0, <1>2, <1>3, <2>2, <2>3, <2>4, MovedOwn, Zenon
  <2>6. 18 \notin refused => reply = <<[c |-> ".", of |-> step]>>
    BY <1>4, <1>7, <1>8, <1>11, Zenon
  <2> QED BY <2>5, <2>6
<1> QED BY <1>9, <1>10, <1>11

LEMMA ArriveOwns ==
  ASSUME WiFlyTypeOK, TurnInv, OwnInv, Arrive
  PROVE  OwnInv'
<1>0. /\ driver' = driver /\ IsDrop(Pending', Pending, 0)
      /\ commands' = commands /\ refused' = refused
  BY ArriveTypes
<1>1. step' = step /\ phase' = phase /\ errOffset' = errOffset /\ reply' = reply
  BY <1>0, Zenon DEF driver
<1>2. Refused' <=> Refused
  BY <1>1, Zenon DEF Refused, Now
<1>3. PICK p, q, cs, r, s : p = Pending /\ q = Pending' /\ cs = commands /\ r = refused /\ s = step
  BY Zenon
<1>4. IsDrop(q, p, 0) /\ Len(p) \in Nat
  BY <1>0, <1>3, StepOf
<1>5. Keeps(q, p, cs, r)
  BY <1>4, DropOwn, 0 \in Nat, Zenon
<1>6. Len(q) = Len(p) /\ \A i \in 1 .. Len(q) : i \in 1 .. Len(p) /\ q[i] = p[i]
  BY <1>4 DEF IsDrop
<1>7. \A ph, rd : LineCame(p, cs, s, ph, rd) => LineCame(q, cs, s, ph, rd)
  BY <1>6, Zenon DEF LineCame
<1>8. LowInv'
  BY <1>0, <1>1, <1>2, <1>3, <1>5, Zenon DEF OwnInv, LowInv, Keeps
<1>9. KInv'
  BY <1>1, <1>3, <1>5, Zenon DEF OwnInv, KInv, Keeps
<1>10. LinesInv'
  BY <1>0, <1>1, <1>3, <1>5, <1>7, Zenon DEF OwnInv, LinesInv, Keeps
<1> QED BY <1>0, <1>3, <1>5, <1>8, <1>9, <1>10, Zenon DEF OwnInv, Keeps

LEMMA ReplyOwns ==
  ASSUME WiFlyTypeOK, TurnInv, AnswerInv, OwnInv, AnswerCommand, phrase \in Seq({"A", "O", "K", "."})
  PROVE  OwnInv'
<1>0. /\ driver' = driver /\ commands # << >> /\ commands' = Tail(commands) /\ commands \in CommandsOf(step)
      /\ Pending' = Pending \o out' /\ Pending \in CharsOf(step) /\ out' \in CharsOf(step)
      /\ Head(commands).name \in Names /\ Head(commands).of \in 1 .. step
      /\ IsOf(out', Head(commands).of)
  BY AnswerTypes
<1>1. step' = step /\ phase' = phase /\ errOffset' = errOffset /\ reply' = reply /\ step \in 1 .. 22
  BY <1>0, StepOf, Zenon DEF driver
<1>2. PICK p, q, a, cs, d, s, name, f :
        /\ p = Pending /\ q = out' /\ a = Pending' /\ cs = commands /\ d = commands' /\ s = step
        /\ name = Head(commands).name /\ f = Head(commands).of
  BY Zenon
<1>3. PICK t \in Seq(Chars) : IsSaid(q, t) /\ AnswerIs(name, f, t)
  BY <1>2, AnswerTypes
<1>4. /\ p \in CharsOf(s) /\ q \in CharsOf(s) /\ cs \in CommandsOf(s) /\ cs # << >> /\ s \in 1 .. 22
      /\ a = p \o q /\ d = Tail(cs) /\ Head(cs) = cs[1] /\ name = cs[1].name /\ f = cs[1].of
      /\ Len(cs) \in Nat /\ Len(cs) > 0 /\ 1 \in 1 .. Len(cs) /\ f \in 1 .. s /\ name \in Names
      /\ IsOf(q, f)
  <2>1. \A T : \A x \in Seq(T) : x # << >> => Head(x) = x[1] /\ Len(x) \in Nat /\ Len(x) > 0 /\ 1 \in 1 .. Len(x)
    OBVIOUS
  <2> QED BY <1>0, <1>1, <1>2, <2>1, Zenon DEF CommandsOf
<1>5. IsReply(a, p, d, cs, t)
  BY <1>3, <1>4, ReplyIs, Zenon
<1>6. AnswerIs(cs[1].name, cs[1].of, t)
  BY <1>3, <1>4, Zenon
<1>7. IsSource(p, cs, refused) /\ IsInTurn(p, cs)
  BY <1>2, Zenon DEF OwnInv
<1>8. /\ IsInTurn(a, d)
      /\ \A m : Above(p, cs, m) => Above(a, d, m)
      /\ \A m : Below(p, cs, m) => Below(a, d, m)
  BY <1>4, <1>5, <1>7, ReplyOwn
<1>9. refused \subseteq refused'
  BY <1>3, Zenon DEF AnswerIs
<1>10. IsSource(a, d, refused')
  BY <1>4, <1>5, <1>6, <1>7, <1>9, ReplySource, Zenon
<1>11. Refused' <=> Refused
  BY <1>1, Zenon DEF Refused, Now
<1>12. LowInv'
  BY <1>1, <1>2, <1>8, <1>11, Zenon DEF OwnInv, LowInv
<1>13. KInv'
  <2>1. ASSUME step \in Sets, phase = "wait" PROVE KOf(a, s)
    <3>1. step < 18 /\ s \in Nat /\ (s > 14 \/ s <= 14)
      BY <1>2, <1>4, <2>1 DEF Sets
    <3>2. KOf(p, s)
      BY <1>2, <2>1, Zenon DEF OwnInv, KInv
    <3>3. CASE name \in Settings
      <4>1. f = s
        <5>1. f = 18 \/ f = step
          BY <1>2, <1>4, <3>3, Zenon DEF AnswerInv, OrderInv
        <5>2. f # 18
          BY <1>2, <1>4, <3>1
        <5> QED BY <1>2, <5>1, <5>2
      <4> QED BY <1>4, <1>5, <3>2, <4>1, Zenon DEF IsReply, KOf
    <3>4. CASE name \notin Settings
      <4>1. name = "join" => s > 14
        <5>1. name = "join" => f = 15
          BY <1>2, <1>4, Zenon DEF AnswerInv, OrderInv
        <5> QED BY <1>4, <5>1
      <4>2. NotLoud(t, s)
        <5>1. name \in Names \ Settings
          BY <1>4, <3>4
        <5> QED BY <1>3, <3>1, <4>1, <5>1, OtherReply, Zenon
      <4>3. "K" \in Loud(s)
        BY DEF Loud
      <4>4. \A i \in 1 .. Len(t) : t[i] # "K"
        BY <4>2, <4>3, Zenon DEF NotLoud
      <4> QED BY <1>5, <3>2, <4>4, Zenon DEF IsReply, KOf
    <3> QED BY <3>3, <3>4
  <2> QED BY <1>1, <1>2, <2>1, Zenon DEF KInv
<1>14. LinesInv'
  <2>1. ASSUME step \in Lines PROVE LineLeft(a, d, s)
    <3>1. LineLeft(p, cs, s) /\ s \in Lines
      BY <1>2, <2>1, Zenon DEF OwnInv, LinesInv
    <3> QED BY <1>4, <1>5, <1>6, <1>7, <3>1, ReplyLine, Zenon
  <2>2. ASSUME step \in Lines, phase \in {"swallow", "line"}, step = 7 \/ 18 \notin refused' PROVE FALSE
    <3>1. LineCame(Pending, commands, step, phase, reply)
      BY <1>9, <2>2, Zenon DEF OwnInv, LinesInv
    <3>2. Len(cs) = 0
      BY <1>2, <3>1, Zenon DEF LineCame
    <3> QED BY <1>4, <3>2
  <2>3. /\ phase = "line" => step \in Lines
        /\ phase # "line" => reply = << >>
    BY Zenon DEF OwnInv, LinesInv
  <2> QED BY <1>1, <1>2, <2>1, <2>2, <2>3, Zenon DEF LinesInv
<1> QED BY <1>2, <1>8, <1>10, <1>12, <1>13, <1>14, Zenon DEF OwnInv

LEMMA InitOwns == WiFlyInit => OwnInv
<1> SUFFICES ASSUME WiFlyInit PROVE OwnInv
  OBVIOUS
<1>1. /\ step = 1 /\ phase = "send" /\ commands = << >> /\ Pending = << >> /\ reply = << >>
  BY DEF WiFlyInit, Pending
<1>2. (\A i \in 1 .. Len(commands) : FALSE) /\ (\A i \in 1 .. Len(Pending) : FALSE)
  BY <1>1
<1>3. IsSource(Pending, commands, refused) /\ IsInTurn(Pending, commands)
  BY <1>2, Zenon DEF IsSource, IsInTurn
<1>4. \A n : Above(Pending, commands, n) /\ Below(Pending, commands, n)
  BY <1>2, Zenon DEF Above, Below
<1>5. phase # "swallow" /\ phase \notin {"line", "flush"} /\ phase # "line" /\ phase # "wait" /\ step \notin Lines
  BY <1>1 DEF Lines
<1>6. LowInv
  BY <1>4, <1>5, Zenon DEF LowInv
<1>7. KInv /\ LinesInv
  BY <1>1, <1>5, Zenon DEF KInv, LinesInv
<1> QED BY <1>3, <1>6, <1>7, Zenon DEF OwnInv

OwnWiFlyInv == WiFlyInv /\ (~Spelled => OwnInv)

(* Every step keeps it.                                                      *)
LEMMA OwnInvStep == OwnWiFlyInv /\ [WiFlyNext]_wiflyVars => OwnWiFlyInv'
<1> SUFFICES ASSUME OwnWiFlyInv, [WiFlyNext]_wiflyVars PROVE OwnWiFlyInv'
  OBVIOUS
<1>1. WiFlyTypeOK /\ TurnInv /\ (~Spelled => AnswerInv /\ OwnInv)
  BY Zenon DEF OwnWiFlyInv, WiFlyInv
<1>2. phrase \in Seq({"A", "O", "K", "."})
  BY <1>1, PhrasesAssumption, Zenon DEF WiFlyTypeOK
<1>3. WiFlyInv'
  BY WiFlyInvStep, Zenon DEF OwnWiFlyInv
<1>4. SUFFICES phrase' = phrase /\ (AnswerInv /\ OwnInv => OwnInv')
  BY <1>1, <1>3, Zenon DEF OwnWiFlyInv, Spelled
<1>5. CASE Send
  <2>1. phrase' = phrase
    BY <1>5, Zenon DEF Send
  <2> QED BY <1>1, <1>5, <2>1, SendOwns, Zenon
<1>6. CASE WaitForResponse
  <2>1. phrase' = phrase
    BY <1>6, Zenon DEF WaitForResponse
  <2> QED BY <1>1, <1>6, <2>1, WaitOwns, Zenon
<1>7. CASE Swallow
  <2>1. phrase' = phrase
    BY <1>7, Zenon DEF Swallow
  <2> QED BY <1>1, <1>7, <2>1, SwallowOwns, Zenon
<1>8. CASE ReadResponse
  <2>1. phrase' = phrase
    BY <1>8, Zenon DEF ReadResponse
  <2> QED BY <1>1, <1>8, <2>1, ReadOwns, Zenon
<1>9. CASE FlushRX
  <2>1. phrase' = phrase
    BY <1>9, Zenon DEF FlushRX
  <2> QED BY <1>1, <1>9, <2>1, FlushOwns, Zenon
<1>10. CASE AnswerCommand
  <2>1. phrase' = phrase
    BY <1>10, Zenon DEF AnswerCommand, driver
  <2> QED BY <1>1, <1>2, <1>10, <2>1, ReplyOwns, Zenon
<1>11. CASE Arrive
  <2>1. phrase' = phrase
    BY <1>11, Zenon DEF Arrive, driver
  <2> QED BY <1>1, <1>11, <2>1, ArriveOwns, Zenon
<1>12. CASE UNCHANGED wiflyVars
  <2>1. /\ phrase' = phrase /\ step' = step /\ phase' = phase /\ errOffset' = errOffset /\ reply' = reply
        /\ commands' = commands /\ out' = out /\ fifo' = fifo /\ refused' = refused
    BY <1>12, Zenon DEF wiflyVars
  <2>2. Pending' = Pending /\ (Refused' <=> Refused)
    BY <2>1, Zenon DEF Pending, Refused, Now
  <2>3. (LowInv => LowInv') /\ (KInv => KInv') /\ (LinesInv => LinesInv')
    BY <2>1, <2>2, Zenon DEF LowInv, KInv, LinesInv
  <2> QED BY <2>1, <2>2, <2>3, Zenon DEF OwnInv
<1> QED BY <1>5, <1>6, <1>7, <1>8, <1>9, <1>10, <1>11, <1>12, Zenon DEF WiFlyNext, Driver

\* Neither a wait nor a line that is read takes the answer to another
\* command, unless the passphrase itself spells the answer, or a refusal that
\* no one waits for is on its way (for the line): what is left over from the
\* commands before never completes a wait, whatever part of it has arrived
\* when the next command is sent.  For every set of passphrases.
THEOREM AnswersAreOwnHolds == WiFlySpec => AnswersAreOwn
<1>1. WiFlyInit => OwnWiFlyInv
  BY InitType, InitAnswer, InitOwns, Zenon DEF OwnWiFlyInv, WiFlyInv
<1>2. ASSUME OwnWiFlyInv, WaitForResponse, offset' = Len(Now.wait), Now.send # << >>, ~Spelled
      PROVE  Head(fifo).of = step
  BY <1>2, WaitOwns, Zenon DEF OwnWiFlyInv, WiFlyInv
<1>3. ASSUME OwnWiFlyInv, ReadResponse, step' # step, ~Spelled, ~Unawaited
      PROVE  \A i \in DOMAIN reply : reply[i].of = step /\ reply[i].c = "."
  <2>1. 18 \notin refused
    <3>1. Script[18].wait = << >>
      BY ScriptIs, RowsAre, Zenon
    <3> QED BY <1>3, <3>1, Zenon DEF Unawaited
  <2>2. reply = <<[c |-> ".", of |-> step]>>
    BY <1>3, <2>1, ReadOwns, Zenon DEF OwnWiFlyInv, WiFlyInv
  <2> QED BY <2>2
<1>4. OwnWiFlyInv => \/ ~WaitForResponse \/ offset' # Len(Now.wait) \/ Now.send = << >> \/ Spelled
                     \/ Head(fifo).of = step
  BY <1>2, Zenon
<1>5. OwnWiFlyInv => (ReadResponse /\ step' # step /\ ~Spelled /\ ~Unawaited =>
                        \A i \in DOMAIN reply : reply[i].of = step /\ reply[i].c = ".")
  BY <1>3, Zenon
<1>6. OwnWiFlyInv /\ [WiFlyNext]_wiflyVars
        => /\ [WaitForResponse /\ offset' = Len(Now.wait) /\ Now.send # << >> /\ ~Spelled
                 => Head(fifo).of = step]_wiflyVars
           /\ [ReadResponse /\ step' # step /\ ~Spelled /\ ~Unawaited =>
                 \A i \in DOMAIN reply : reply[i].of = step /\ reply[i].c = "."]_wiflyVars
  BY <1>4, <1>5, Zenon
<1> QED BY <1>1, <1>6, OwnInvStep, PTL DEF WiFlySpec, AnswersAreOwn, AnswerIsOwn, LineIsAnswer
=============================================================================
