------------------------- MODULE CamScripterProofs -------------------------
(***************************************************************************)
(* Theorems about CamScripter, for any messages, any sequence of them, any *)
(* sizes of the buffer and the FIFO and, the last one apart, any number of *)
(* faults.  First what message_to_bytes and bytes_to_message compute, then *)
(* the places of the characters on the line, what the receiver has made of *)
(* them, and the inductive invariant Inv; last the order, PastInv.         *)
(***************************************************************************)
EXTENDS CamScripter, FiniteSetTheorems, SequenceTheorems, TLAPS

-----------------------------------------------------------------------------
(* Recursion on the natural numbers. *)

LEMMA Least ==
  ASSUME NEW S \in SUBSET Nat, S # {}
  PROVE  \E m \in S : \A n \in S : m <= n
<1> DEFINE R == OpToRel(<, Nat)
<1>1. IsWellFoundedOn(R, Nat)
  BY NatLessThanWellFounded
<1>2. \A x, y \in Nat : <<x, y>> \in R <=> x < y
  BY DEF OpToRel
<1> HIDE DEF R
<1>3. PICK m \in S : \A n \in S : ~(<<n, m>> \in R)
  BY <1>1, WFMin
<1>4. ASSUME NEW n \in S
      PROVE  m <= n
  <2>1. n \in Nat /\ m \in Nat
    OBVIOUS
  <2>2. ~(n < m)
    BY <1>2, <1>3, <2>1, Zenon
  <2>3. QED
    BY <2>1, <2>2
<1>5. QED
  BY <1>4

(* The least number of a set, and that those below it are not in it. *)
LEMMA LeastOf ==
  ASSUME NEW N \in Nat, NEW S \in SUBSET (0 .. N), S # {}
  PROVE  \E m \in S : m \in 0 .. N /\ \A n \in 0 .. N : n < m => n \notin S
<1>1. PICK m \in S : \A n \in S : m <= n
  BY Least
<1>2. QED
  BY <1>1

(* Steps from value to value in a set define a function on 0 .. N. *)
Recursive(N, S, a, G) ==
  \E f \in [0 .. N -> S] : f[0] = a /\ \A n \in 1 .. N : f[n] = G[n][f[n - 1]]

LEMMA Recursion ==
  ASSUME NEW N \in Nat, NEW S, NEW a \in S, NEW G \in [1 .. N -> [S -> S]]
  PROVE  Recursive(N, S, a, G)
<1> DEFINE Solves(f, k) == f \in [0 .. k -> S] /\ f[0] = a /\ \A n \in 1 .. k : f[n] = G[n][f[n - 1]]
           T == {k \in 0 .. N : ~\E f : Solves(f, k)}
<1>1. ASSUME T # {}
      PROVE  FALSE
  <2>1. PICK m \in T : m \in 0 .. N /\ \A n \in 0 .. N : n < m => n \notin T
    BY <1>1, LeastOf
  <2>2. m # 0
    <3>1. Solves([n \in 0 .. 0 |-> a], 0)
      OBVIOUS
    <3>2. QED
      BY <2>1, <3>1
  <2>3. m - 1 \in 0 .. N /\ m - 1 < m /\ m \in 1 .. N
    BY <2>1, <2>2
  <2>4. PICK f : Solves(f, m - 1)
    BY <2>1, <2>3
  <2> DEFINE g == [n \in 0 .. m |-> IF n = m THEN G[m][f[m - 1]] ELSE f[n]]
  <2>5. \A n \in 0 .. m - 1 : g[n] = f[n] /\ f[n] \in S
    BY <2>3, <2>4
  <2>6. g[m] = G[m][g[m - 1]] /\ g[m] \in S
    BY <2>3, <2>4
  <2>7. g \in [0 .. m -> S]
    BY <2>3, <2>4, <2>6
  <2>8. ASSUME NEW n \in 1 .. m
        PROVE  g[n] = G[n][g[n - 1]]
    <3>1. CASE n = m
      BY <2>6, <3>1
    <3>2. CASE n # m
      <4>1. n \in 1 .. m - 1 /\ n \in 0 .. m - 1 /\ n - 1 \in 0 .. m - 1
        BY <2>3, <3>2
      <4>2. QED
        BY <2>4, <2>5, <4>1
    <3>3. QED
      BY <3>1, <3>2
  <2>9. Solves(g, m)
    BY <2>3, <2>4, <2>5, <2>7, <2>8
  <2>10. QED
    BY <2>1, <2>9
<1>2. N \in 0 .. N
  OBVIOUS
<1>3. \E f : Solves(f, N)
  BY <1>1, <1>2
<1>4. QED
  BY <1>3 DEF Recursive

-----------------------------------------------------------------------------
(* Messages and their bytes. *)

IsMessage(m) ==
  /\ m.id \in Byte /\ m.params \in Seq(Seq(Byte)) /\ Len(m.params) \in 1 .. 255
  /\ \A i \in 1 .. Len(m.params) : ThreeBytes(Len(m.params[i]))

IsUpTo(m, f) ==
  f = [n \in 0 .. Len(m.params) |->
         IF n = 0 THEN <<0, m.id, Len(m.params)>>
         ELSE f[n - 1] \o SizeBytes(Len(m.params[n])) \o m.params[n]]

LEMMA ParamIs ==
  ASSUME NEW m, IsMessage(m), NEW n \in 1 .. Len(m.params)
  PROVE  m.params[n] \in Seq(Byte) /\ Len(m.params[n]) \in Nat /\ ThreeBytes(Len(m.params[n]))
<1>1. m.params[n] \in Seq(Byte)
  BY ElementOfSeq DEF IsMessage
<1>2. Len(m.params[n]) \in Nat
  BY <1>1, LenProperties
<1>3. ThreeBytes(Len(m.params[n]))
  BY SMT DEF IsMessage
<1>4. QED
  BY <1>1, <1>2, <1>3, SMT

LEMMA Digits ==
  ASSUME NEW s \in Nat
  PROVE  /\ s = 256 * (s \div 256) + (s % 256) /\ s % 256 \in 0 .. 255 /\ s \div 256 \in Nat
         /\ s < 256 => s % 256 = s
  BY SMT

LEMMA TwoDigits ==
  ASSUME NEW x \in Nat, NEW r \in Nat, r < 65536
  PROVE  (65536 * x + r) \div 65536 = x
  BY SMT

LEMMA Size3 ==
  ASSUME NEW s \in Nat, ThreeBytes(s)
  PROVE  /\ SizeBytes(s) \in Seq(Byte) /\ Len(SizeBytes(s)) = 3
         /\ Size(SizeBytes(s), 1) = s
<1> DEFINE x == (s \div 65536) % 256
           y == (s \div 256) % 256
           z == s % 256
<1>0. SizeBytes(s) = <<x, y, z>>
  BY DEF SizeBytes
<1>2. PICK q \in Nat : q = s \div 256
  BY Digits
<1>3. s = 256 * q + z /\ z \in 0 .. 255 /\ y = q % 256
  BY <1>2, Digits
<1>4. PICK t \in Nat : t = q \div 256
  BY Digits
<1>5. q = 256 * t + y /\ y \in 0 .. 255
  BY <1>3, <1>4, Digits
<1> HIDE DEF y, z
<1>6. 256 * y + z \in Nat /\ 256 * y + z < 65536 /\ s = 65536 * t + (256 * y + z)
  BY <1>3, <1>5, SMT
<1>7. s \div 65536 = t
  <2> DEFINE r == 256 * y + z
  <2>1. r \in Nat /\ r < 65536 /\ s = 65536 * t + r
    BY <1>6, SMT
  <2> HIDE DEF r
  <2>2. (65536 * t + r) \div 65536 = t
    BY <2>1, TwoDigits, SMT
  <2>3. QED
    BY <2>1, <2>2, SMT
<1>8. t < 256
  BY <1>7, SMT DEF ThreeBytes
<1>9. x = t
  BY <1>7, <1>8, Digits, SMT
<1> HIDE DEF x
<1>10. x \in Byte /\ y \in Byte /\ z \in Byte
  BY <1>3, <1>5, <1>8, <1>9 DEF Byte
<1>11. (x * 256 + y) * 256 + z = s
  BY <1>3, <1>5, <1>9, SMT
<1>12. <<x, y, z>> \in Seq(Byte) /\ Len(<<x, y, z>>) = 3
  BY <1>10
<1>13. Size(<<x, y, z>>, 1) = s
  BY <1>11, SMT DEF Size
<1>14. QED
  BY ONLY <1>0, <1>12, <1>13, Zenon

LEMMA Header ==
  ASSUME NEW m, IsMessage(m)
  PROVE  /\ <<0, m.id, Len(m.params)>> \in Seq(Byte)
         /\ Len(<<0, m.id, Len(m.params)>>) = 3
  BY DEF IsMessage, Byte

(* The parts of a message in its bytes: each parameter adds its size and     *)
(* itself to what precedes it.                                               *)
LEMMA UpToIs ==
  ASSUME NEW m, IsMessage(m)
  PROVE  /\ BytesUpTo(m) \in [0 .. Len(m.params) -> Seq(Byte)]
         /\ BytesUpTo(m)[0] = <<0, m.id, Len(m.params)>>
         /\ \A n \in 1 .. Len(m.params) :
              BytesUpTo(m)[n] = BytesUpTo(m)[n - 1] \o SizeBytes(Len(m.params[n])) \o m.params[n]
<1> DEFINE N == Len(m.params)
           h == <<0, m.id, N>>
           add(n) == SizeBytes(Len(m.params[n]))
           G == [n \in 1 .. N |-> [s \in Seq(Byte) |-> s \o add(n) \o m.params[n]]]
<1>1. N \in Nat /\ h \in Seq(Byte)
  BY Header DEF IsMessage
<1>2. G \in [1 .. N -> [Seq(Byte) -> Seq(Byte)]]
  <2>1. ASSUME NEW n \in 1 .. N, NEW s \in Seq(Byte)
        PROVE  s \o add(n) \o m.params[n] \in Seq(Byte)
    <3>1. m.params[n] \in Seq(Byte) /\ Len(m.params[n]) \in Nat /\ ThreeBytes(Len(m.params[n]))
      BY ParamIs
    <3>2. add(n) \in Seq(Byte)
      BY <3>1, Size3
    <3> HIDE DEF add
    <3>3. s \o add(n) \in Seq(Byte)
      BY <3>2, ConcatProperties
    <3>4. QED
      BY <3>1, <3>3, ConcatProperties
  <2> HIDE DEF N, add
  <2>2. QED
    BY <2>1
<1>3. PICK f \in [0 .. N -> Seq(Byte)] : f[0] = h /\ \A n \in 1 .. N : f[n] = G[n][f[n - 1]]
  <2> HIDE DEF N, h, G
  <2>1. Recursive(N, Seq(Byte), h, G)
    BY <1>1, <1>2, Recursion
  <2>2. QED
    BY <2>1 DEF Recursive
<1>4. \A n \in 1 .. N : f[n] = f[n - 1] \o add(n) \o m.params[n]
  <2> HIDE DEF add
  <2>1. \A n \in 1 .. N : n - 1 \in 0 .. N
    BY <1>1
  <2>2. QED
    BY <1>3, <2>1
<1>5. f = [n \in 0 .. N |-> IF n = 0 THEN h ELSE f[n - 1] \o add(n) \o m.params[n]]
  <2> HIDE DEF h, add, G
  <2>1. \A n \in 0 .. N : n # 0 => n \in 1 .. N
    BY <1>1
  <2>2. \A n \in 0 .. N : f[n] = IF n = 0 THEN h ELSE f[n - 1] \o add(n) \o m.params[n]
    BY <1>3, <1>4, <2>1
  <2>3. QED
    BY <2>2
<1>6. IsUpTo(m, f)
  BY <1>5 DEF IsUpTo
<1>7. BytesUpTo(m) = CHOOSE g : IsUpTo(m, g)
  BY DEF BytesUpTo, IsUpTo
<1>8. IsUpTo(m, BytesUpTo(m))
  BY <1>6, <1>7
<1> DEFINE u == BytesUpTo(m)
<1>9. u = [n \in 0 .. N |-> IF n = 0 THEN h ELSE u[n - 1] \o add(n) \o m.params[n]]
  BY <1>8 DEF IsUpTo
<1> HIDE DEF u, h, add
<1>10. /\ u[0] = h
       /\ \A n \in 1 .. N : u[n] = u[n - 1] \o add(n) \o m.params[n]
  <2>1. \A n \in 0 .. N : u[n] = IF n = 0 THEN h ELSE u[n - 1] \o add(n) \o m.params[n]
    BY <1>9
  <2>2. 0 \in 0 .. N /\ \A n \in 1 .. N : n \in 0 .. N /\ n # 0
    BY <1>1
  <2>3. QED
    BY <2>1, <2>2
<1>11. \A n \in 0 .. N : u[n] \in Seq(Byte)
  <2> DEFINE T == {n \in 0 .. N : u[n] \notin Seq(Byte)}
  <2>1. SUFFICES ASSUME T # {} PROVE FALSE
    OBVIOUS
  <2>2. PICK k \in T : k \in 0 .. N /\ \A n \in 0 .. N : n < k => n \notin T
    BY <1>1, <2>1, LeastOf
  <2>3. k # 0
    BY <1>1, <1>10, <2>2
  <2>4. k - 1 \in 0 .. N /\ k - 1 < k /\ k \in 1 .. N
    BY <1>1, <2>2, <2>3
  <2>5. u[k - 1] \in Seq(Byte)
    BY <2>2, <2>4
  <2>6. G[k][u[k - 1]] \in Seq(Byte)
    <3> HIDE DEF G
    <3>1. QED
      BY <1>2, <2>4, <2>5
  <2>7. G[k][u[k - 1]] = u[k]
    BY <1>10, <2>4, <2>5
  <2>8. QED
    BY <2>2, <2>6, <2>7
<1>12. u = [n \in 0 .. N |-> u[n]]
  BY <1>9
<1>13. u \in [0 .. N -> Seq(Byte)]
  BY <1>11, <1>12
<1>14. QED
  BY <1>10, <1>13 DEF u, h, add
LEMMA Joined ==
  ASSUME NEW s \in Seq(Byte), NEW t \in Seq(Byte)
  PROVE  /\ s \o t \in Seq(Byte) /\ Len(s \o t) = Len(s) + Len(t)
         /\ \A i \in 1 .. Len(s) + Len(t) : (s \o t)[i] = IF i <= Len(s) THEN s[i] ELSE t[i - Len(s)]
  BY ConcatProperties

LEMMA SameSize ==
  ASSUME NEW s, NEW t, NEW i, NEW j,
         s[i] = t[j], s[i + 1] = t[j + 1], s[i + 2] = t[j + 2]
  PROVE  Size(s, i) = Size(t, j)
  BY Zenon DEF Size

(* Where the first n parameters of a message end in its bytes. *)
End(m, n) == Len(BytesUpTo(m)[n])

LEMMA LayoutStep ==
  ASSUME NEW m, IsMessage(m), NEW n \in 1 .. Len(m.params)
  PROVE  LET u == BytesUpTo(m) IN
         /\ n - 1 \in 0 .. Len(m.params) /\ n \in 0 .. Len(m.params)
         /\ u[n] \in Seq(Byte) /\ u[n - 1] \in Seq(Byte)
         /\ Len(u[n - 1]) \in Nat /\ Len(m.params[n]) \in Nat
         /\ Len(u[n]) = Len(u[n - 1]) + 3 + Len(m.params[n])
         /\ \A i \in 1 .. Len(u[n - 1]) : u[n][i] = u[n - 1][i]
         /\ Size(u[n], Len(u[n - 1]) + 1) = Len(m.params[n])
         /\ \A i \in 1 .. Len(m.params[n]) : u[n][Len(u[n - 1]) + 3 + i] = m.params[n][i]
<1> DEFINE u == BytesUpTo(m)
           p == m.params[n]
           l == Len(u[n - 1])
           z == SizeBytes(Len(p))
<1>1. n - 1 \in 0 .. Len(m.params) /\ n \in 0 .. Len(m.params)
  BY DEF IsMessage
<1>2. u \in [0 .. Len(m.params) -> Seq(Byte)] /\ u[n] = u[n - 1] \o z \o p
  BY UpToIs
<1>3. p \in Seq(Byte) /\ Len(p) \in Nat /\ ThreeBytes(Len(p))
  BY ParamIs
<1>4. z \in Seq(Byte) /\ Len(z) = 3 /\ Size(z, 1) = Len(p)
  BY <1>3, Size3
<1> HIDE DEF u, p, z
<1>5. u[n - 1] \in Seq(Byte) /\ u[n] \in Seq(Byte)
  BY <1>1, <1>2
<1>6. l \in Nat
  BY <1>5, LenProperties
<1> DEFINE w == u[n - 1] \o z
<1>7. /\ w \in Seq(Byte) /\ Len(w) = l + 3
      /\ \A i \in 1 .. l + 3 : w[i] = IF i <= l THEN u[n - 1][i] ELSE z[i - l]
  <2>1. PICK v \in Seq(Byte) : v = u[n - 1]
    BY <1>5
  <2>2. Len(v \o z) = Len(v) + 3 /\ v \o z \in Seq(Byte)
    BY <1>4, Joined
  <2>3. \A i \in 1 .. Len(v) + 3 : (v \o z)[i] = IF i <= Len(v) THEN v[i] ELSE z[i - Len(v)]
    BY <1>4, Joined
  <2>4. QED
    BY <2>1, <2>2, <2>3
<1> HIDE DEF w
<1>8. /\ Len(w \o p) = l + 3 + Len(p)
      /\ \A i \in 1 .. l + 3 + Len(p) : (w \o p)[i] = IF i <= l + 3 THEN w[i] ELSE p[i - (l + 3)]
  <2>1. Len(w \o p) = Len(w) + Len(p)
    BY <1>3, <1>7, Joined
  <2>2. \A i \in 1 .. Len(w) + Len(p) : (w \o p)[i] = IF i <= Len(w) THEN w[i] ELSE p[i - Len(w)]
    BY <1>3, <1>7, Joined
  <2>3. QED
    BY <1>7, <2>1, <2>2
<1>9. u[n] = w \o p
  BY <1>2 DEF w
<1> HIDE DEF l
<1>10. \A i \in 1 .. l : u[n][i] = u[n - 1][i]
  <2>1. \A i \in 1 .. l : i \in 1 .. l + 3 /\ i \in 1 .. l + 3 + Len(p) /\ i <= l /\ i <= l + 3
    BY <1>3, <1>6
  <2>2. QED
    BY <1>7, <1>8, <1>9, <2>1
<1>11. \A i \in 1 .. 3 : u[n][l + i] = z[i]
  <2>1. ASSUME NEW i \in 1 .. 3
        PROVE  u[n][l + i] = z[i]
    <3>1. l + i \in 1 .. l + 3 /\ l + i \in 1 .. l + 3 + Len(p) /\ ~(l + i <= l) /\ l + i <= l + 3
          /\ (l + i) - l = i
      BY <1>3, <1>6
    <3>2. w[l + i] = z[i]
      BY <1>7, <3>1
    <3>3. QED
      BY <1>8, <1>9, <3>1, <3>2
  <2>2. QED
    BY <2>1
<1>12. \A i \in 1 .. Len(p) : u[n][l + 3 + i] = p[i]
  <2>1. ASSUME NEW i \in 1 .. Len(p)
        PROVE  u[n][l + 3 + i] = p[i]
    <3>1. l + 3 + i \in 1 .. l + 3 + Len(p) /\ ~(l + 3 + i <= l + 3) /\ (l + 3 + i) - (l + 3) = i
      BY <1>3, <1>6
    <3>2. QED
      BY <1>8, <1>9, <3>1
  <2>2. QED
    BY <2>1
<1>13. Size(u[n], l + 1) = Size(z, 1)
  <2>1. u[n][l + 1] = z[1] /\ u[n][l + 2] = z[2] /\ u[n][l + 3] = z[3]
    BY <1>11
  <2>2. (l + 1) + 1 = l + 2 /\ (l + 1) + 2 = l + 3
    BY <1>6
  <2>3. u[n][(l + 1) + 1] = z[1 + 1] /\ u[n][(l + 1) + 2] = z[1 + 2]
    BY <2>1, <2>2
  <2>4. QED
    BY ONLY <2>1, <2>3, SameSize
<1>14. QED
  BY <1>1, <1>3, <1>4, <1>5, <1>6, <1>8, <1>9, <1>10, <1>12, <1>13 DEF u, l, p
(* The bytes up to a parameter start the bytes of the message.               *)
LEMMA StartsMessage ==
  ASSUME NEW m, IsMessage(m)
  PROVE  LET b == message_to_bytes(m) IN
         /\ b \in Seq(Byte) /\ Len(b) = End(m, Len(m.params))
         /\ \A n \in 0 .. Len(m.params) :
              /\ End(m, n) \in Nat /\ 3 + 3 * n <= End(m, n) /\ End(m, n) <= Len(b)
              /\ \A i \in 1 .. End(m, n) : b[i] = BytesUpTo(m)[n][i]
<1> DEFINE N == Len(m.params)
           u == BytesUpTo(m)
           b == u[N]
           Good(n) == Len(u[n]) <= Len(b) /\ \A i \in 1 .. Len(u[n]) : b[i] = u[n][i]
<1>0. N \in Nat /\ N \in 0 .. N
  BY DEF IsMessage
<1>1. u \in [0 .. N -> Seq(Byte)] /\ Len(u[0]) = 3
  BY UpToIs, Header
<1>2. message_to_bytes(m) = b
  BY DEF message_to_bytes
<1>3. \A n \in 0 .. N : u[n] \in Seq(Byte) /\ Len(u[n]) \in Nat
  BY <1>1, LenProperties
<1>4. ASSUME NEW n \in 1 .. N
      PROVE  /\ n - 1 \in 0 .. N /\ n \in 0 .. N
             /\ Len(u[n]) >= Len(u[n - 1]) + 3
             /\ \A i \in 1 .. Len(u[n - 1]) : u[n][i] = u[n - 1][i]
  <2>1. /\ Len(u[n]) = Len(u[n - 1]) + 3 + Len(m.params[n])
        /\ n - 1 \in 0 .. N /\ n \in 0 .. N /\ Len(m.params[n]) \in Nat /\ Len(u[n - 1]) \in Nat
        /\ \A i \in 1 .. Len(u[n - 1]) : u[n][i] = u[n - 1][i]
    BY LayoutStep
  <2> HIDE DEF u, N
  <2>2. Len(u[n]) >= Len(u[n - 1]) + 3
    <3> DEFINE x == Len(u[n])
               y == Len(u[n - 1])
               z == Len(m.params[n])
    <3>1. x = y + 3 + z /\ z \in Nat /\ y \in Nat
      BY <2>1, Zenon
    <3> HIDE DEF x, y, z
    <3>2. x >= y + 3
      BY ONLY <3>1
    <3>3. QED
      BY <3>2 DEF x, y
  <2>3. QED
    BY <2>1, <2>2, Zenon
<1> HIDE DEF u, N
<1>5. \A n \in 0 .. N : 3 + 3 * n <= Len(u[n])
  <2> DEFINE T == {n \in 0 .. N : ~(3 + 3 * n <= Len(u[n]))}
  <2>1. SUFFICES ASSUME T # {} PROVE FALSE
    BY <1>3
  <2>2. PICK k \in T : k \in 0 .. N /\ \A n \in 0 .. N : n < k => n \notin T
    BY <1>0, <2>1, LeastOf
  <2>3. k # 0
    <3>1. 3 + 3 * 0 <= Len(u[0])
      BY <1>1
    <3>2. QED
      BY <2>2, <3>1
  <2>4. k \in 1 .. N /\ k - 1 \in 0 .. N /\ k - 1 < k
    BY <1>0, <2>2, <2>3
  <2>5. 3 + 3 * (k - 1) <= Len(u[k - 1])
    BY <2>2, <2>4
  <2>6. Len(u[k]) >= Len(u[k - 1]) + 3 /\ Len(u[k]) \in Nat /\ Len(u[k - 1]) \in Nat
    BY <1>3, <1>4, <2>2, <2>4
  <2>7. 3 + 3 * k <= Len(u[k])
    BY <1>0, <2>4, <2>5, <2>6
  <2>8. QED
    BY <2>2, <2>7
<1>6. \A n \in 0 .. N : Good(N - n)
  <2> DEFINE T == {n \in 0 .. N : ~Good(N - n)}
  <2>1. SUFFICES ASSUME T # {} PROVE FALSE
    OBVIOUS
  <2>2. PICK k \in T : k \in 0 .. N /\ \A n \in 0 .. N : n < k => n \notin T
    BY <1>0, <2>1, LeastOf
  <2>3. k # 0
    <3>1. Good(N)
      BY <1>0, <1>3
    <3>2. N - 0 = N
      BY <1>0
    <3>3. Good(N - 0)
      BY <3>1, <3>2
    <3> HIDE DEF Good
    <3>4. QED
      BY <2>2, <3>3
  <2>4. k - 1 \in 0 .. N /\ k - 1 < k /\ N - (k - 1) \in 1 .. N /\ (N - (k - 1)) - 1 = N - k
    BY <1>0, <2>2, <2>3
  <2>5. PICK j \in 1 .. N : j = N - (k - 1)
    BY <2>4
  <2>6. Good(j) /\ j - 1 = N - k
    <3> HIDE DEF Good
    <3>1. QED
      BY <2>2, <2>4, <2>5
  <2>7. /\ Len(u[j]) >= Len(u[j - 1]) + 3 /\ Len(u[j]) \in Nat /\ Len(u[j - 1]) \in Nat
        /\ \A i \in 1 .. Len(u[j - 1]) : u[j][i] = u[j - 1][i]
    BY <1>3, <1>4
  <2>8. Len(b) \in Nat
    BY <1>0, <1>3
  <2>9. Good(j - 1)
    <3>1. Len(u[j - 1]) <= Len(b)
      BY <2>6, <2>7, <2>8
    <3>2. ASSUME NEW i \in 1 .. Len(u[j - 1])
          PROVE  b[i] = u[j - 1][i]
      <4>1. i \in 1 .. Len(u[j])
        BY <2>7
      <4>2. QED
        BY <2>6, <2>7, <4>1
    <3>3. QED
      BY <3>1, <3>2
  <2>10. QED
    <3> HIDE DEF Good
    <3>1. QED
      BY <2>2, <2>6, <2>9
<1>7. ASSUME NEW n \in 0 .. N
      PROVE  Good(n)
  <2>1. N - n \in 0 .. N /\ N - (N - n) = n
    BY <1>0
  <2> HIDE DEF Good
  <2>2. QED
    BY <1>6, <2>1
<1>8. b \in Seq(Byte) /\ Len(b) = Len(u[N])
  BY <1>0, <1>3
<1>9. QED
  BY <1>2, <1>3, <1>5, <1>7, <1>8 DEF End, u, N

(* What stands where in the bytes of a message.                              *)
LEMMA MessageIs ==
  ASSUME NEW m, IsMessage(m)
  PROVE  LET b == message_to_bytes(m)
             N == Len(m.params) IN
         /\ b \in Seq(Byte) /\ Len(b) \in Nat /\ Len(b) = End(m, N) /\ 3 + 3 * N <= Len(b)
         /\ b[2] = m.id /\ b[1] = 0 /\ b[3] = N
         /\ End(m, 0) = 3
         /\ \A n \in 1 .. N :
              /\ n - 1 \in 0 .. N /\ End(m, n - 1) \in Nat /\ End(m, n) \in Nat
              /\ End(m, n) <= Len(b)
              /\ End(m, n) = End(m, n - 1) + 3 + Len(m.params[n])
              /\ Size(b, End(m, n - 1) + 1) = Len(m.params[n])
              /\ \A i \in 1 .. Len(m.params[n]) : b[End(m, n - 1) + 3 + i] = m.params[n][i]
<1> DEFINE b == message_to_bytes(m)
           N == Len(m.params)
           u == BytesUpTo(m)
<1>0. N \in Nat
  BY DEF IsMessage
<1>1. /\ b \in Seq(Byte) /\ Len(b) = End(m, N)
      /\ \A n \in 0 .. N :
           /\ End(m, n) \in Nat /\ 3 + 3 * n <= End(m, n) /\ End(m, n) <= Len(b)
           /\ \A i \in 1 .. End(m, n) : b[i] = u[n][i]
  BY StartsMessage
<1>2. u[0] = <<0, m.id, N>> /\ End(m, 0) = 3
  BY UpToIs, Header DEF End
<1> HIDE DEF b, u
<1>3. b[1] = 0 /\ b[2] = m.id /\ b[3] = N
  <2>1. b[1] = u[0][1] /\ b[2] = u[0][2] /\ b[3] = u[0][3]
    BY <1>0, <1>1, <1>2
  <2>2. QED
    BY <1>2, <2>1
<1>4. ASSUME NEW n \in 1 .. N
      PROVE  /\ n - 1 \in 0 .. N /\ End(m, n - 1) \in Nat /\ End(m, n) \in Nat
             /\ End(m, n) <= Len(b)
             /\ End(m, n) = End(m, n - 1) + 3 + Len(m.params[n])
             /\ Size(b, End(m, n - 1) + 1) = Len(m.params[n])
             /\ \A i \in 1 .. Len(m.params[n]) : b[End(m, n - 1) + 3 + i] = m.params[n][i]
  <2> DEFINE e == End(m, n - 1)
             p == m.params[n]
  <2>1. /\ n - 1 \in 0 .. N /\ n \in 0 .. N /\ Len(p) \in Nat
        /\ End(m, n) = e + 3 + Len(p)
        /\ Size(u[n], e + 1) = Len(p)
        /\ \A i \in 1 .. Len(p) : u[n][e + 3 + i] = p[i]
    BY LayoutStep DEF End, u
  <2>2. e \in Nat /\ End(m, n) \in Nat /\ End(m, n) <= Len(b)
    BY <1>1, <2>1
  <2>3. \A i \in 1 .. e + 3 + Len(p) : b[i] = u[n][i]
    BY <1>1, <2>1
  <2> HIDE DEF e, p
  <2>4. Size(b, e + 1) = Size(u[n], e + 1)
    <3>1. e + 1 \in 1 .. e + 3 + Len(p) /\ (e + 1) + 1 \in 1 .. e + 3 + Len(p)
          /\ (e + 1) + 2 \in 1 .. e + 3 + Len(p)
      BY <2>1, <2>2
    <3>2. b[e + 1] = u[n][e + 1] /\ b[(e + 1) + 1] = u[n][(e + 1) + 1]
          /\ b[(e + 1) + 2] = u[n][(e + 1) + 2]
      BY <2>3, <3>1
    <3>3. QED
      BY ONLY <3>2, SameSize
  <2>5. ASSUME NEW i \in 1 .. Len(p)
        PROVE  b[e + 3 + i] = p[i]
    <3>1. e + 3 + i \in 1 .. e + 3 + Len(p)
      BY <2>1, <2>2
    <3>2. QED
      BY <2>1, <2>3, <3>1
  <2>6. QED
    BY <2>1, <2>2, <2>4, <2>5 DEF e, p
<1>5. Len(b) \in Nat /\ 3 + 3 * N <= Len(b)
  <2>1. N \in 0 .. N
    BY <1>0
  <2>2. QED
    BY <1>1, <2>1
<1>6. QED
  BY <1>1, <1>2, <1>3, <1>4, <1>5 DEF b

-----------------------------------------------------------------------------
(* bytes_to_message. *)

NextEnd(b, i) ==
  IF i = 0 \/ Len(b) < i + 3 THEN 0
  ELSE LET e == i + 3 + Size(b, i + 1) IN IF e > Len(b) THEN 0 ELSE e

IsEnds(b, last, f) == f = [n \in 0 .. last |-> IF n = 0 THEN 3 ELSE NextEnd(b, f[n - 1])]

LEMMA NextEndType ==
  ASSUME NEW b \in Seq(Byte), NEW i \in Nat
  PROVE  NextEnd(b, i) \in Nat /\ NextEnd(b, i) <= Len(b)
<1>1. Len(b) \in Nat
  BY LenProperties
<1>2. CASE i = 0 \/ Len(b) < i + 3
  BY <1>1, <1>2 DEF NextEnd
<1>3. CASE ~(i = 0 \/ Len(b) < i + 3)
  <2>1. i + 1 \in 1 .. Len(b) /\ (i + 1) + 1 \in 1 .. Len(b) /\ (i + 1) + 2 \in 1 .. Len(b)
    BY <1>1, <1>3
  <2>2. b[i + 1] \in Byte /\ b[(i + 1) + 1] \in Byte /\ b[(i + 1) + 2] \in Byte
    BY <2>1, ElementOfSeq
  <2>3. Size(b, i + 1) \in Nat
    <3>0. b[i + 1] \in Nat /\ b[(i + 1) + 1] \in Nat /\ b[(i + 1) + 2] \in Nat
      <4>1. \A v \in Byte : v \in Nat
        BY DEF Byte
      <4>2. QED
        BY <2>2, <4>1, Zenon
    <3>1. PICK x \in Nat, y \in Nat, z \in Nat :
            x = b[i + 1] /\ y = b[(i + 1) + 1] /\ z = b[(i + 1) + 2]
      BY <3>0, Zenon
    <3>2. Size(b, i + 1) = (x * 256 + y) * 256 + z
      BY <3>1, Zenon DEF Size
    <3>3. QED
      BY <3>2
  <2> DEFINE e == i + 3 + Size(b, i + 1)
  <2>4. e \in Nat
    BY <2>3
  <2>5. NextEnd(b, i) = IF e > Len(b) THEN 0 ELSE e
    BY <1>3 DEF NextEnd
  <2> HIDE DEF e
  <2>6. QED
    BY <1>1, <2>4, <2>5
<1>4. QED
  BY <1>2, <1>3

LEMMA ParamEndsAre ==
  ASSUME NEW b \in Seq(Byte), NEW last \in Nat
  PROVE  /\ ParamEnds(b, last) \in [0 .. last -> Nat]
         /\ ParamEnds(b, last)[0] = 3
         /\ \A n \in 1 .. last : ParamEnds(b, last)[n] = NextEnd(b, ParamEnds(b, last)[n - 1])
<1> DEFINE G == [n \in 1 .. last |-> [i \in Nat |-> NextEnd(b, i)]]
<1>1. G \in [1 .. last -> [Nat -> Nat]]
  BY NextEndType
<1>2. PICK f \in [0 .. last -> Nat] : f[0] = 3 /\ \A n \in 1 .. last : f[n] = G[n][f[n - 1]]
  <2> HIDE DEF G
  <2>1. Recursive(last, Nat, 3, G)
    BY <1>1, Recursion
  <2>2. QED
    BY <2>1 DEF Recursive
<1>3. \A n \in 1 .. last : f[n] = NextEnd(b, f[n - 1])
  <2>1. \A n \in 1 .. last : n - 1 \in 0 .. last
    OBVIOUS
  <2>2. QED
    BY <1>2, <2>1
<1>4. IsEnds(b, last, f)
  <2>1. \A n \in 0 .. last : n # 0 => n \in 1 .. last
    OBVIOUS
  <2> HIDE DEF G
  <2>2. \A n \in 0 .. last : f[n] = IF n = 0 THEN 3 ELSE NextEnd(b, f[n - 1])
    BY <1>2, <1>3, <2>1
  <2>3. QED
    BY <2>2 DEF IsEnds
<1>5. ParamEnds(b, last) = CHOOSE g : IsEnds(b, last, g)
  BY DEF ParamEnds, IsEnds, NextEnd
<1>6. IsEnds(b, last, ParamEnds(b, last))
  BY <1>4, <1>5
<1> DEFINE u == ParamEnds(b, last)
<1>7. u = [n \in 0 .. last |-> IF n = 0 THEN 3 ELSE NextEnd(b, u[n - 1])]
  BY <1>6 DEF IsEnds
<1> HIDE DEF u
<1>8. u[0] = 3 /\ \A n \in 1 .. last : u[n] = NextEnd(b, u[n - 1])
  <2>1. \A n \in 0 .. last : u[n] = IF n = 0 THEN 3 ELSE NextEnd(b, u[n - 1])
    BY <1>7
  <2>2. 0 \in 0 .. last /\ \A n \in 1 .. last : n \in 0 .. last /\ n # 0
    OBVIOUS
  <2>3. QED
    BY <2>1, <2>2
<1>9. \A n \in 0 .. last : u[n] \in Nat
  <2> DEFINE T == {n \in 0 .. last : u[n] \notin Nat}
  <2>1. SUFFICES ASSUME T # {} PROVE FALSE
    OBVIOUS
  <2>2. PICK k \in T : k \in 0 .. last /\ \A n \in 0 .. last : n < k => n \notin T
    BY <2>1, LeastOf
  <2>3. k # 0
    BY <1>8, <2>2
  <2>4. k - 1 \in 0 .. last /\ k - 1 < k /\ k \in 1 .. last
    BY <2>2, <2>3
  <2>5. u[k - 1] \in Nat
    BY <2>2, <2>4
  <2>6. u[k] \in Nat
    BY <1>8, <2>4, <2>5, NextEndType
  <2>7. QED
    BY <2>2, <2>6
<1>10. u = [n \in 0 .. last |-> u[n]]
  BY <1>7
<1>11. u \in [0 .. last -> Nat]
  BY <1>9, <1>10
<1>12. QED
  BY <1>8, <1>11 DEF u

(* In the first p bytes of a message the parameters that end there are found.*)
LEMMA CutEnds ==
  ASSUME NEW m, IsMessage(m), NEW c \in Seq(Byte),
         Len(c) <= Len(message_to_bytes(m)), Len(c) >= 3,
         \A i \in 1 .. Len(c) : c[i] = message_to_bytes(m)[i],
         NEW last \in 0 .. Len(m.params), NEW n \in 0 .. last
  PROVE  ParamEnds(c, last)[n] = IF End(m, n) <= Len(c) THEN End(m, n) ELSE 0
<1> DEFINE b == message_to_bytes(m)
           N == Len(m.params)
           idx == ParamEnds(c, last)
           Good(k) == idx[k] = IF End(m, k) <= Len(c) THEN End(m, k) ELSE 0
           T == {k \in 0 .. last : ~Good(k)}
<1>0. N \in Nat /\ last \in Nat /\ Len(c) \in Nat
  BY LenProperties DEF IsMessage
<1>1. /\ Len(b) \in Nat /\ End(m, 0) = 3
      /\ \A k \in 1 .. N :
           /\ k - 1 \in 0 .. N /\ End(m, k - 1) \in Nat /\ End(m, k) \in Nat
           /\ End(m, k) = End(m, k - 1) + 3 + Len(m.params[k])
           /\ Size(b, End(m, k - 1) + 1) = Len(m.params[k])
  BY MessageIs
<1>2. idx[0] = 3 /\ \A k \in 1 .. last : idx[k] = NextEnd(c, idx[k - 1])
  BY <1>0, ParamEndsAre
<1> HIDE DEF idx, N, b
<1>3. ASSUME T # {}
      PROVE  FALSE
  <2>1. PICK k \in T : k \in 0 .. last /\ \A j \in 0 .. last : j < k => j \notin T
    BY <1>0, <1>3, LeastOf
  <2>2. k # 0
    <3>1. Good(0)
      BY <1>1, <1>2
    <3> HIDE DEF Good
    <3>2. QED
      BY <2>1, <3>1
  <2>3. k \in 1 .. N /\ k \in 1 .. last /\ k - 1 \in 0 .. last /\ k - 1 < k
    BY <1>0, <2>1, <2>2 DEF N
  <2>4. Good(k - 1)
    <3> HIDE DEF Good
    <3>1. QED
      BY <2>1, <2>3
  <2> DEFINE e == End(m, k - 1)
             p == Len(m.params[k])
  <2>5. e \in Nat /\ End(m, k) \in Nat /\ End(m, k) = e + 3 + p /\ Size(b, e + 1) = p
    BY <1>1, <2>3
  <2>6. p \in Nat
    BY <2>3, ParamIs DEF N
  <2>7. idx[k] = NextEnd(c, idx[k - 1])
    BY <1>2, <2>3
  <2>8. idx[k - 1] = IF e <= Len(c) THEN e ELSE 0
    BY <2>4
  <2>9. 3 <= e
    <3>1. CASE k = 1
      BY <1>1, <3>1
    <3>2. CASE k # 1
      <4>1. k - 1 \in 1 .. N
        BY <1>0, <2>3, <3>2
      <4>2. End(m, k - 1) = End(m, (k - 1) - 1) + 3 + Len(m.params[k - 1]) /\ End(m, (k - 1) - 1) \in Nat
        BY <1>1, <4>1
      <4>3. Len(m.params[k - 1]) \in Nat
        BY <4>1, ParamIs DEF N
      <4>4. QED
        BY <4>2, <4>3
    <3>3. QED
      BY <3>1, <3>2
  <2> HIDE DEF e, p
  <2>10. Good(k)
    <3>1. CASE e > Len(c)
      <4>1. idx[k - 1] = 0 /\ ~(End(m, k) <= Len(c))
        BY <1>0, <2>5, <2>6, <2>8, <3>1
      <4>2. QED
        BY <2>7, <4>1 DEF NextEnd
    <3>2. CASE e <= Len(c) /\ Len(c) < e + 3
      <4>1. idx[k - 1] = e /\ ~(End(m, k) <= Len(c))
        BY <1>0, <2>5, <2>6, <2>8, <3>2
      <4>2. QED
        BY <2>7, <3>2, <4>1 DEF NextEnd
    <3>3. CASE e + 3 <= Len(c)
      <4>1. idx[k - 1] = e /\ e # 0 /\ ~(Len(c) < e + 3)
        BY <1>0, <2>5, <2>8, <2>9, <3>3
      <4>2. Size(c, e + 1) = p
        <5>1. e + 1 \in 1 .. Len(c) /\ (e + 1) + 1 \in 1 .. Len(c) /\ (e + 1) + 2 \in 1 .. Len(c)
          BY <1>0, <2>5, <3>3
        <5>2. c[e + 1] = b[e + 1] /\ c[(e + 1) + 1] = b[(e + 1) + 1] /\ c[(e + 1) + 2] = b[(e + 1) + 2]
          BY <5>1 DEF b
        <5>3. Size(c, e + 1) = Size(b, e + 1)
          BY ONLY <5>2, SameSize
        <5>4. QED
          BY <2>5, <5>3
      <4>3. idx[k] = IF e + 3 + p > Len(c) THEN 0 ELSE e + 3 + p
        BY <2>7, <4>1, <4>2 DEF NextEnd
      <4>4. QED
        BY <1>0, <2>5, <2>6, <4>3
    <3>4. QED
      BY <1>0, <2>5, <3>1, <3>2, <3>3
  <2>11. QED
    <3> HIDE DEF Good
    <3>1. QED
      BY <2>1, <2>10
<1>4. Good(n)
  <2> HIDE DEF Good
  <2>1. QED
    BY <1>3
<1>5. QED
  BY <1>4 DEF idx

(* What recv_packet left of a message is taken apart into the message if it  *)
(* is all of it, and refused if it is not.                                   *)
LEMMA ParsedIs ==
  ASSUME NEW m, IsMessage(m), NEW c \in Seq(Byte), c # << >>,
         Len(c) <= Len(message_to_bytes(m)),
         \A i \in 1 .. Len(c) : c[i] = message_to_bytes(m)[i]
  PROVE  /\ Len(c) = Len(message_to_bytes(m)) =>
              /\ bytes_to_message(c).ok
              /\ bytes_to_message(c).id = m.id
              /\ bytes_to_message(c).params = m.params
         /\ Len(c) < Len(message_to_bytes(m)) => ~bytes_to_message(c).ok
<1> DEFINE b == message_to_bytes(m)
           N == Len(m.params)
           count == IF Len(c) >= 3 THEN c[3] ELSE 0
           last == IF count > Len(c) THEN Len(c) ELSE count
           idx == ParamEnds(c, last)
           F == {n \in 1 .. last : idx[n] # 0}
           r == bytes_to_message(c)
<1>0. N \in 1 .. 255 /\ Len(c) \in Nat
  BY LenProperties DEF IsMessage
<1>1. /\ Len(b) \in Nat /\ Len(b) = End(m, N) /\ 3 + 3 * N <= Len(b) /\ End(m, 0) = 3
      /\ b[1] = 0 /\ b[2] = m.id /\ b[3] = N
      /\ \A n \in 1 .. N :
           /\ n - 1 \in 0 .. N /\ End(m, n - 1) \in Nat /\ End(m, n) \in Nat
           /\ End(m, n) <= Len(b)
           /\ End(m, n) = End(m, n - 1) + 3 + Len(m.params[n])
           /\ \A i \in 1 .. Len(m.params[n]) : b[End(m, n - 1) + 3 + i] = m.params[n][i]
  BY MessageIs
<1>2. /\ r.ok = (Len(c) >= 3 /\ Cardinality(F) = count)
      /\ r.id = IF Len(c) >= 3 THEN (c[1] * 256 + c[2]) % 256 ELSE 0
      /\ r.params = [n \in 1 .. Cardinality(F) |-> SubSeq(c, idx[n - 1] + 4, idx[n])]
  BY DEF bytes_to_message
<1> HIDE DEF r
<1>3. CASE Len(c) < 3
  <2>1. Len(c) # Len(b)
    BY <1>0, <1>1, <1>3
  <2>2. ~r.ok
    <3>1. ~(Len(c) >= 3)
      BY <1>0, <1>3
    <3>2. QED
      BY <1>2, <3>1, Zenon
  <2>3. QED
    BY <2>1, <2>2 DEF r
<1>4. CASE Len(c) >= 3
  <2>1. count = N
    <3>1. 3 \in 1 .. Len(c)
      BY <1>0, <1>4
    <3>2. QED
      BY <1>1, <1>4, <3>1
  <2>2. last \in 0 .. N /\ last <= Len(c) /\ (last = N \/ last < N)
    BY <1>0, <2>1
  <2> HIDE DEF count, last
  <2>3. ASSUME NEW n \in 0 .. last
        PROVE  idx[n] = IF End(m, n) <= Len(c) THEN End(m, n) ELSE 0
    BY <1>4, <2>2, CutEnds
  <2> HIDE DEF idx, b, N
  <2>4. IsFiniteSet(1 .. last) /\ Cardinality(1 .. last) = last
    BY <2>2, <1>0, FS_Interval
  <2>5. F \subseteq 1 .. last /\ IsFiniteSet(F) /\ Cardinality(F) \in Nat /\ Cardinality(F) <= last
        /\ (Cardinality(F) = last => F = 1 .. last)
    <3>1. F \subseteq 1 .. last
      OBVIOUS
    <3> HIDE DEF F
    <3>2. IsFiniteSet(F) /\ Cardinality(F) <= last
          /\ (Cardinality(F) = last => F = 1 .. last)
      BY <2>4, <3>1, FS_Subset
    <3>3. QED
      BY <3>1, <3>2, FS_CardinalityType
  <2>6. CASE Len(c) = Len(b)
    <3>1. last = N
      BY <1>0, <1>1, <2>1, <2>6 DEF last
    <3>2. ASSUME NEW n \in 1 .. N
          PROVE  /\ idx[n] = End(m, n) /\ idx[n - 1] = End(m, n - 1) /\ idx[n] # 0
                 /\ End(m, n) = End(m, n - 1) + 3 + Len(m.params[n])
                 /\ End(m, n) \in Nat /\ End(m, n - 1) \in Nat /\ Len(m.params[n]) \in Nat
                 /\ End(m, n) <= Len(c)
      <4>1. /\ End(m, n) = End(m, n - 1) + 3 + Len(m.params[n])
            /\ End(m, n) \in Nat /\ End(m, n - 1) \in Nat /\ End(m, n) <= Len(b)
            /\ n - 1 \in 0 .. last /\ n \in 0 .. last
        BY <1>0, <1>1, <3>1
      <4>2. Len(m.params[n]) \in Nat
        BY ParamIs DEF N
      <4>3. End(m, n) <= Len(c) /\ End(m, n - 1) <= Len(c) /\ End(m, n) # 0
        BY <1>1, <2>6, <4>1, <4>2
      <4>4. QED
        BY <2>3, <4>1, <4>2, <4>3
    <3>3. F = 1 .. N
      BY <3>1, <3>2
    <3>4. Cardinality(F) = N
      BY <2>4, <3>1, <3>3
    <3>5. r.ok
      BY <1>2, <1>4, <2>1, <3>4
    <3>6. r.id = m.id
      <4>1. c[1] = 0 /\ c[2] = m.id
        <5>1. 1 \in 1 .. Len(c) /\ 2 \in 1 .. Len(c)
          BY <1>0, <1>4
        <5>2. QED
          BY <1>1, <5>1 DEF b
      <4>2. PICK i \in Nat : i = m.id /\ i < 256
        <5>1. m.id \in 0 .. 255
          BY DEF IsMessage, Byte
        <5>2. \A v \in 0 .. 255 : v \in Nat /\ v < 256
          OBVIOUS
        <5>3. QED
          BY ONLY <5>1, <5>2, Zenon
      <4>3. (0 * 256 + i) % 256 = i
        BY <4>2
      <4>4. r.id = (c[1] * 256 + c[2]) % 256
        BY <1>2, <1>4
      <4>5. QED
        BY <4>1, <4>2, <4>3, <4>4
    <3>7. r.params = m.params
      <4>1. ASSUME NEW n \in 1 .. N
            PROVE  SubSeq(c, idx[n - 1] + 4, idx[n]) = m.params[n]
        <5> DEFINE p == m.params[n]
                   e == End(m, n - 1)
                   l == Len(p)
                   q == SubSeq(c, e + 4, e + 3 + l)
        <5>1. p \in Seq(Byte) /\ l \in Nat /\ e \in Nat /\ e + 3 + l <= Len(c)
          BY <3>2, ParamIs DEF N
        <5>2. idx[n - 1] + 4 = e + 4 /\ idx[n] = e + 3 + l
          BY <3>2
        <5>3. \A i \in 1 .. l : b[e + 3 + i] = p[i]
          BY <1>1
        <5> HIDE DEF e, p
        <5>4. \A i \in e + 4 .. e + 3 + l : c[i] \in Byte
          <6>1. \A i \in e + 4 .. e + 3 + l : i \in 1 .. Len(c)
            BY <1>0, <5>1
          <6>2. QED
            BY <6>1, ElementOfSeq
        <5> HIDE DEF l
        <5>5. e + 4 \in Int /\ e + 3 + l \in Int
          BY <5>1
        <5>6. /\ q \in Seq(Byte)
              /\ Len(q) = IF e + 4 <= e + 3 + l THEN (e + 3 + l) - (e + 4) + 1 ELSE 0
              /\ \A i \in 1 .. (e + 3 + l) - (e + 4) + 1 : q[i] = c[(e + 4) + i - 1]
          BY <5>4, <5>5, SubSeqProperties
        <5> HIDE DEF q
        <5>7. Len(q) = l
          BY <5>1, <5>6
        <5>8. ASSUME NEW i \in 1 .. l
              PROVE  q[i] = p[i]
          <6>1. i \in 1 .. (e + 3 + l) - (e + 4) + 1 /\ (e + 4) + i - 1 = e + 3 + i
                /\ e + 3 + i \in 1 .. Len(c)
            BY <1>0, <5>1
          <6>2. q[i] = c[e + 3 + i]
            BY <5>6, <6>1
          <6>3. c[e + 3 + i] = b[e + 3 + i]
            BY <6>1 DEF b
          <6>4. QED
            BY <5>3, <6>2, <6>3
        <5>9. q = p
          BY <5>1, <5>6, <5>7, <5>8, SeqEqual DEF l
        <5>10. QED
          BY <5>2, <5>9 DEF q, p
      <4>2. r.params = [n \in 1 .. N |-> SubSeq(c, idx[n - 1] + 4, idx[n])]
        BY <1>2, <3>4
      <4>3. r.params = [n \in 1 .. N |-> m.params[n]]
        BY <4>1, <4>2
      <4>4. m.params = [n \in 1 .. N |-> m.params[n]]
        <5>1. m.params \in [1 .. N -> Seq(Byte)]
          BY LenProperties DEF IsMessage, N
        <5>2. QED
          BY <5>1
      <4>5. QED
        BY <4>3, <4>4
    <3>8. QED
      BY <1>0, <1>1, <2>6, <3>5, <3>6, <3>7 DEF r, b
  <2>7. CASE Len(c) < Len(b)
    <3>1. ASSUME Cardinality(F) = N
          PROVE  FALSE
      <4>1. last = N /\ F = 1 .. N
        BY <1>0, <2>2, <2>5, <3>1
      <4>2. N \in F /\ N \in 0 .. last
        BY <1>0, <4>1
      <4>3. idx[N] # 0
        BY <4>2
      <4>4. End(m, N) <= Len(c)
        BY <2>3, <4>2, <4>3
      <4>5. QED
        BY <1>0, <1>1, <2>7, <4>4
    <3>2. ~r.ok
      BY <1>2, <2>1, <3>1
    <3>3. QED
      BY <1>0, <1>1, <2>7, <3>2 DEF r, b
  <2>8. QED
    BY <1>0, <1>1, <2>6, <2>7 DEF b
<1>5. QED
  BY <1>0, <1>3, <1>4

(* What is found in any bytes is a message.                                  *)
LEMMA ParsedType ==
  ASSUME NEW c \in Seq(Byte)
  PROVE  /\ bytes_to_message(c).ok \in BOOLEAN
         /\ bytes_to_message(c).id \in Byte
         /\ bytes_to_message(c).params \in Seq(Seq(Byte))
<1> DEFINE count == IF Len(c) >= 3 THEN c[3] ELSE 0
           last == IF count > Len(c) THEN Len(c) ELSE count
           idx == ParamEnds(c, last)
           F == {n \in 1 .. last : idx[n] # 0}
           r == bytes_to_message(c)
<1>0. Len(c) \in Nat
  BY LenProperties
<1>1. last \in Nat
  <2>1. Len(c) >= 3 => 3 \in 1 .. Len(c)
    BY <1>0
  <2>2. count \in Nat
    <3>1. Len(c) >= 3 => c[3] \in Byte
      BY <2>1, ElementOfSeq
    <3>2. \A v \in Byte : v \in Nat
      BY DEF Byte
    <3>3. CASE Len(c) >= 3
      BY <3>1, <3>2, <3>3, Zenon
    <3>4. CASE ~(Len(c) >= 3)
      <4>1. count = 0
        BY <3>4, Zenon
      <4>2. QED
        BY <4>1
    <3>5. QED
      BY <3>3, <3>4, Zenon
  <2>3. QED
    BY <1>0, <2>2
<1>2. /\ r.ok = (Len(c) >= 3 /\ Cardinality(F) = count)
      /\ r.id = IF Len(c) >= 3 THEN (c[1] * 256 + c[2]) % 256 ELSE 0
      /\ r.params = [n \in 1 .. Cardinality(F) |-> SubSeq(c, idx[n - 1] + 4, idx[n])]
  BY DEF bytes_to_message
<1> HIDE DEF r, count
<1>3. /\ idx \in [0 .. last -> Nat] /\ idx[0] = 3
      /\ \A n \in 1 .. last : idx[n] = NextEnd(c, idx[n - 1])
  BY <1>1, ParamEndsAre
<1> HIDE DEF idx, last
<1>4. Cardinality(F) \in Nat /\ Cardinality(F) <= last
  <2>1. F \subseteq 1 .. last
    OBVIOUS
  <2> HIDE DEF F
  <2>2. IsFiniteSet(1 .. last) /\ Cardinality(1 .. last) = last
    BY <1>1, FS_Interval
  <2>3. QED
    BY <2>1, <2>2, FS_Subset, FS_CardinalityType
<1> HIDE DEF F
<1>5. PICK k \in Nat : k = Cardinality(F) /\ k <= last
  BY <1>4
<1>6. \A n \in 1 .. k : SubSeq(c, idx[n - 1] + 4, idx[n]) \in Seq(Byte)
  <2>1. SUFFICES ASSUME NEW n \in 1 .. k
                 PROVE  SubSeq(c, idx[n - 1] + 4, idx[n]) \in Seq(Byte)
    OBVIOUS
  <2>2. n \in 1 .. last /\ n - 1 \in 0 .. last
    BY <1>1, <1>5
  <2>3. PICK x \in Nat, y \in Nat : x = idx[n - 1] /\ y = idx[n]
    BY <1>3, <2>2
  <2>4. y <= Len(c)
    BY <1>3, <2>2, <2>3, NextEndType
  <2>5. \A i \in x + 4 .. y : c[i] \in Byte
    <3>1. \A i \in x + 4 .. y : i \in 1 .. Len(c)
      BY <1>0, <2>4
    <3>2. QED
      BY <3>1, ElementOfSeq
  <2>6. x + 4 \in Int /\ y \in Int
    OBVIOUS
  <2>7. SubSeq(c, x + 4, y) \in Seq(Byte)
    BY <2>5, <2>6, SubSeqProperties
  <2>8. QED
    BY <2>3, <2>7
<1>7. PICK f : f = [n \in 1 .. k |-> SubSeq(c, idx[n - 1] + 4, idx[n])]
  OBVIOUS
<1>8. r.params = f
  BY <1>2, <1>5, <1>7
<1>9. f \in Seq(Seq(Byte))
  BY <1>6, <1>7
<1>10. r.id \in Byte
  <2>1. CASE Len(c) >= 3
    <3>1. 1 \in 1 .. Len(c) /\ 2 \in 1 .. Len(c)
      BY <1>0, <2>1
    <3>2. c[1] \in Byte /\ c[2] \in Byte
      BY <3>1, ElementOfSeq
    <3>3. \A v \in Byte, w \in Byte : (v * 256 + w) % 256 \in Byte
      BY DEF Byte
    <3>4. PICK v \in Byte, w \in Byte : v = c[1] /\ w = c[2]
      BY <3>2, Zenon
    <3>5. r.id = (v * 256 + w) % 256
      BY <1>2, <2>1, <3>4
    <3>6. QED
      BY <3>3, <3>5
  <2>2. CASE ~(Len(c) >= 3)
    <3>1. r.id = 0
      BY <1>2, <2>2, Zenon
    <3>2. QED
      BY <3>1 DEF Byte
  <2>3. QED
    BY <2>1, <2>2, Zenon
<1>11. r.ok \in BOOLEAN
  BY <1>2, Zenon
<1>12. QED
  BY <1>8, <1>9, <1>10, <1>11 DEF r

-----------------------------------------------------------------------------
(* Places in what a host sends, for any sequence s of messages. *)

FrameOf(s, k) == Frames[s[k]]
CharsOf(s, p) == send_packet(FrameOf(s, p.frame), p.pos)
CharOf(s, p) == CharsOf(s, p)[p.part]
AfterOf(s, p) ==
  IF p.part < Len(CharsOf(s, p)) THEN [p EXCEPT !.part = @ + 1]
  ELSE IF p.pos <= Len(FrameOf(s, p.frame)) THEN Start(p.frame, p.pos + 1)
  ELSE First(p.frame + 1)

Valid(s, p) ==
  /\ p \in Place /\ p.frame \in 1 .. MaxSends
  /\ p.pos \in 0 .. Len(FrameOf(s, p.frame)) + 1
  /\ p.part \in 1 .. Len(CharsOf(s, p))

Before(p, q) ==
  \/ p.frame < q.frame
  \/ p.frame = q.frame /\ p.pos < q.pos
  \/ p.frame = q.frame /\ p.pos = q.pos /\ p.part < q.part

LEMMA FrameIs ==
  ASSUME NEW s \in Scripts, NEW k \in 1 .. MaxSends
  PROVE  /\ s[k] \in Messages /\ IsMessage(s[k])
         /\ s[k] = [id |-> s[k].id, params |-> s[k].params]
         /\ FrameOf(s, k) = message_to_bytes(s[k]) /\ FrameOf(s, k) \in Seq(Byte)
         /\ Len(FrameOf(s, k)) \in Nat /\ Len(FrameOf(s, k)) >= 1
<1>1. s \in [1 .. MaxSends -> Messages]
  BY MessagesAssumption
<1>2. s[k] \in Messages
  BY <1>1
<1> DEFINE m == s[k]
<1>3. m \in [id : Byte, params : Seq(Seq(Byte))] /\ Len(m.params) \in 1 .. 255
      /\ \A i \in DOMAIN m.params : ThreeBytes(Len(m.params[i]))
  BY <1>2, MessagesAssumption
<1>4. IsMessage(m) /\ m = [id |-> m.id, params |-> m.params]
  <2> HIDE DEF m
  <2>1. m.params \in Seq(Seq(Byte)) /\ m.id \in Byte /\ m = [id |-> m.id, params |-> m.params]
    BY <1>3
  <2>2. DOMAIN m.params = 1 .. Len(m.params)
    BY <2>1, LenProperties
  <2>3. QED
    BY <1>3, <2>1, <2>2 DEF IsMessage
<1> HIDE DEF m
<1>5. FrameOf(s, k) = message_to_bytes(m)
  BY <1>2 DEF FrameOf, Frames, m
<1>6. message_to_bytes(m) \in Seq(Byte) /\ Len(message_to_bytes(m)) \in Nat
      /\ 3 + 3 * Len(m.params) <= Len(message_to_bytes(m))
  BY <1>4, MessageIs
<1>7. QED
  BY <1>2, <1>3, <1>4, <1>5, <1>6 DEF m

(* The characters of a place: END at either end of a frame, and one or two   *)
(* that are not END for a byte.                                              *)
LEMMA CharsAre ==
  ASSUME NEW s \in Scripts, NEW p, p.frame \in 1 .. MaxSends,
         p.pos \in 0 .. Len(FrameOf(s, p.frame)) + 1
  PROVE  LET c == CharsOf(s, p)
             x == FrameOf(s, p.frame)[p.pos] IN
         /\ p.pos \notin 1 .. Len(FrameOf(s, p.frame)) => Len(c) = 1 /\ c[1] = END
         /\ p.pos \in 1 .. Len(FrameOf(s, p.frame)) =>
              /\ x \in Byte
              /\ \/ Len(c) = 1 /\ c[1] = x /\ x # END /\ x # ESC
                 \/ Len(c) = 2 /\ c[1] = ESC /\ c[2] # END /\ Unescaped(c[2]) = x
<1> DEFINE f == FrameOf(s, p.frame)
           c == CharsOf(s, p)
           x == f[p.pos]
<1>1. f \in Seq(Byte) /\ Len(f) \in Nat /\ DOMAIN f = 1 .. Len(f)
  BY FrameIs, LenProperties
<1>2. c = IF p.pos \in DOMAIN f THEN put_slip_char(f[p.pos]) ELSE <<END>>
  BY DEF CharsOf, send_packet
<1> HIDE DEF f, c
<1>3. CASE p.pos \notin 1 .. Len(f)
  <2>1. c = <<END>>
    BY <1>1, <1>2, <1>3
  <2>2. QED
    BY <1>3, <2>1 DEF f, c
<1>4. CASE p.pos \in 1 .. Len(f)
  <2>1. c = put_slip_char(x) /\ x \in Byte
    BY <1>1, <1>2, <1>4, ElementOfSeq
  <2> HIDE DEF x
  <2>2. \/ Len(c) = 1 /\ c[1] = x /\ x # END /\ x # ESC
        \/ Len(c) = 2 /\ c[1] = ESC /\ c[2] # END /\ Unescaped(c[2]) = x
    <3>1. CASE x = END
      BY <2>1, <3>1 DEF put_slip_char, END, ESC, ESC_END, ESC_ESC, Unescaped
    <3>2. CASE x = ESC
      BY <2>1, <3>2 DEF put_slip_char, END, ESC, ESC_END, ESC_ESC, Unescaped
    <3>3. CASE x # END /\ x # ESC
      BY <2>1, <3>3 DEF put_slip_char, END, ESC, ESC_END, ESC_ESC, Unescaped
    <3>4. QED
      BY <3>1, <3>2, <3>3
  <2>3. QED
    BY <1>4, <2>1, <2>2 DEF x, f, c
<1>5. QED
  BY <1>3, <1>4 DEF f

LEMMA StartIs ==
  ASSUME NEW k \in 1 .. MaxSends + 1, NEW i \in Nat
  PROVE  /\ Start(k, i) \in Place /\ Start(k, i).frame = k /\ Start(k, i).pos = i
         /\ Start(k, i).part = 1
  BY DEF Start, Place

(* The next place: of the same byte, of the next one or of the next frame.   *)
LEMMA AfterIs ==
  ASSUME NEW s \in Scripts, NEW p, Valid(s, p)
  PROVE  LET q == AfterOf(s, p)
             L == Len(FrameOf(s, p.frame)) IN
         /\ L \in Nat
         /\ \/ /\ q.frame = p.frame /\ q.pos = p.pos /\ p.part = 1 /\ q.part = 2
               /\ p.pos \in 1 .. L /\ Len(CharsOf(s, p)) = 2 /\ Valid(s, q)
            \/ /\ q.frame = p.frame /\ q.pos = p.pos + 1 /\ q.part = 1
               /\ p.pos \in 0 .. L /\ p.part = Len(CharsOf(s, p)) /\ Valid(s, q)
            \/ /\ q = First(p.frame + 1) /\ p.pos = L + 1 /\ p.part = 1
               /\ Valid(s, q) \/ q = First(MaxSends + 1)
<1> DEFINE q == AfterOf(s, p)
           L == Len(FrameOf(s, p.frame))
           n == Len(CharsOf(s, p))
<1>1. /\ p \in Place /\ p.frame \in 1 .. MaxSends /\ p.pos \in 0 .. L + 1 /\ p.part \in 1 .. n
      /\ p.frame \in Nat /\ MaxSends \in Nat
  BY SizeAssumption DEF Valid, Place
<1>2. L \in Nat
  BY <1>1, FrameIs
<1>3. (p.pos \notin 1 .. L => n = 1) /\ (p.pos \in 1 .. L => n \in {1, 2})
  BY <1>1, CharsAre
<1>4. q = IF p.part < n THEN [p EXCEPT !.part = @ + 1]
          ELSE IF p.pos <= L THEN Start(p.frame, p.pos + 1)
          ELSE First(p.frame + 1)
  BY DEF AfterOf
<1>5. \A r : r \in Place /\ r.frame = p.frame /\ r.pos = p.pos => Len(CharsOf(s, r)) = n
  BY DEF CharsOf
<1>6. \A r : r \in Place /\ r.frame \in 1 .. MaxSends /\ r.pos \in 0 .. Len(FrameOf(s, r.frame)) + 1
             /\ r.part = 1 => Valid(s, r)
  <2>1. SUFFICES ASSUME NEW r, r \in Place, r.frame \in 1 .. MaxSends,
                        r.pos \in 0 .. Len(FrameOf(s, r.frame)) + 1, r.part = 1
                 PROVE  Valid(s, r)
    OBVIOUS
  <2>2. Len(CharsOf(s, r)) = 1 \/ Len(CharsOf(s, r)) = 2
    BY <2>1, CharsAre
  <2>3. r.part \in 1 .. Len(CharsOf(s, r))
    <3>1. 1 \in 1 .. 1 /\ 1 \in 1 .. 2
      OBVIOUS
    <3>2. QED
      BY ONLY <2>1, <2>2, <3>1, Zenon
  <2>4. QED
    BY <2>1, <2>3, Zenon DEF Valid
<1> HIDE DEF q, n
<1>7. CASE p.part < n
  <2>1. n = 2 /\ p.part = 1 /\ p.pos \in 1 .. L
    BY <1>1, <1>2, <1>3, <1>7
  <2>2. q = [p EXCEPT !.part = @ + 1]
    BY <1>4, <1>7
  <2>3. q \in Place /\ q.frame = p.frame /\ q.pos = p.pos /\ q.part = 2
    BY <1>1, <2>1, <2>2 DEF Place
  <2>4. Valid(s, q)
    <3>1. Len(CharsOf(s, q)) = 2
      BY <1>5, <2>1, <2>3
    <3>2. q.part \in 1 .. Len(CharsOf(s, q))
      BY <2>3, <3>1
    <3>3. q.frame \in 1 .. MaxSends /\ q.pos \in 0 .. Len(FrameOf(s, q.frame)) + 1
      BY <1>1, <2>3
    <3>4. QED
      BY <2>3, <3>2, <3>3, Zenon DEF Valid
  <2>5. QED
    BY <1>2, <2>1, <2>3, <2>4 DEF q, n
<1>8. CASE ~(p.part < n) /\ p.pos <= L
  <2>1. p.part = n /\ p.pos \in 0 .. L /\ p.pos + 1 \in 0 .. L + 1
    BY <1>1, <1>2, <1>3, <1>8
  <2>2. q = Start(p.frame, p.pos + 1)
    BY <1>4, <1>8
  <2>3. q \in Place /\ q.frame = p.frame /\ q.pos = p.pos + 1 /\ q.part = 1
    BY <1>1, <2>1, <2>2, StartIs
  <2>4. Valid(s, q)
    BY <1>1, <1>6, <2>1, <2>3
  <2>5. QED
    BY <1>2, <2>1, <2>3, <2>4 DEF q, n
<1>9. CASE ~(p.part < n) /\ ~(p.pos <= L)
  <2>1. p.pos = L + 1 /\ n = 1 /\ p.part = 1
    BY <1>1, <1>2, <1>3, <1>9
  <2>2. q = First(p.frame + 1)
    BY <1>4, <1>9
  <2>3. q \in Place /\ q.frame = p.frame + 1 /\ q.pos = 0 /\ q.part = 1
    BY <1>1, <2>2, StartIs DEF First
  <2>4. Valid(s, q) \/ q = First(MaxSends + 1)
    <3>1. CASE p.frame = MaxSends
      BY <2>2, <3>1
    <3>2. CASE p.frame # MaxSends
      <4>1. q.frame \in 1 .. MaxSends
        BY <1>1, <2>3, <3>2
      <4>2. Len(FrameOf(s, q.frame)) \in Nat
        BY <4>1, FrameIs
      <4>3. QED
        BY <1>6, <2>3, <4>1, <4>2
    <3>3. QED
      BY <3>1, <3>2
  <2>5. QED
    BY <1>2, <2>1, <2>2, <2>4 DEF q
<1>10. QED
  BY <1>7, <1>8, <1>9

(* Places are in the order in which they are sent.                           *)
LEMMA BeforeOrder ==
  ASSUME NEW p \in Place, NEW q \in Place, NEW r \in Place, Before(p, q), Before(q, r)
  PROVE  Before(p, r)
  BY DEF Before, Place

LEMMA AfterIsBefore ==
  ASSUME NEW s \in Scripts, NEW p, Valid(s, p)
  PROVE  Before(p, AfterOf(s, p)) /\ AfterOf(s, p) \in Place
<1> DEFINE q == AfterOf(s, p)
<1>1. /\ p \in Place
      /\ \/ q.frame = p.frame /\ q.pos = p.pos /\ p.part = 1 /\ q.part = 2 /\ Valid(s, q)
         \/ q.frame = p.frame /\ q.pos = p.pos + 1 /\ Valid(s, q)
         \/ q = First(p.frame + 1) /\ (Valid(s, q) \/ q = First(MaxSends + 1))
  BY AfterIs, Zenon DEF Valid
<1> HIDE DEF q
<1>2. First(MaxSends + 1) \in Place
  BY SizeAssumption, StartIs DEF First
<1>3. q \in Place
  BY <1>1, <1>2 DEF Valid
<1>4. First(p.frame + 1).frame = p.frame + 1
  BY DEF First, Start
<1>5. Before(p, q)
  BY <1>1, <1>3, <1>4 DEF Before, Place
<1>6. QED
  BY <1>3, <1>5 DEF q

-----------------------------------------------------------------------------
(* The line: places one after another.  Between two of them only damaged     *)
(* frames are missing, D being the frames that are damaged.                  *)

Follows(s, D, p, q) ==
  /\ p.frame = q.frame /\ p.frame \notin D => q = AfterOf(s, p)
  /\ p.frame < q.frame =>
       /\ p.frame \notin D => AfterOf(s, p) = First(p.frame + 1)
       /\ q.frame \notin D => q = First(q.frame)
       /\ \A m \in p.frame + 1 .. q.frame - 1 : m \in D

LEMMA FollowsMore ==
  ASSUME NEW s, NEW D, NEW E, D \subseteq E, NEW p, NEW q, Follows(s, D, p, q)
  PROVE  Follows(s, E, p, q)
  BY DEF Follows

LEMMA FollowsAfter ==
  ASSUME NEW s \in Scripts, NEW D, NEW p, Valid(s, p)
  PROVE  Follows(s, D, p, AfterOf(s, p))
<1> DEFINE q == AfterOf(s, p)
<1>1. p.frame \in Nat /\ (q.frame = p.frame \/ q = First(p.frame + 1))
  <2>1. p.frame \in Nat
    BY SizeAssumption DEF Valid, Place
  <2>2. q.frame = p.frame \/ q = First(p.frame + 1)
    BY AfterIs, Zenon
  <2>3. QED
    BY <2>1, <2>2
<1> HIDE DEF q
<1>2. First(p.frame + 1).frame = p.frame + 1
  BY DEF First, Start
<1>3. CASE q.frame = p.frame
  <2>1. ~(p.frame < q.frame)
    BY <1>1, <1>3
  <2>2. QED
    BY <1>3, <2>1 DEF Follows, q
<1>4. CASE q = First(p.frame + 1)
  <2>1. q.frame = p.frame + 1
    BY <1>2, <1>4
  <2>2. p.frame # q.frame /\ \A m \in p.frame + 1 .. q.frame - 1 : m \in D
    BY <1>1, <2>1
  <2>3. QED
    BY <1>4, <2>1, <2>2 DEF Follows, q
<1>5. QED
  BY <1>1, <1>3, <1>4

(* The character at a is lost.                                               *)
LEMMA FollowsLost ==
  ASSUME NEW s \in Scripts, NEW D, NEW E, D \subseteq E,
         NEW p \in Place, NEW a, Valid(s, a), Before(p, a), Follows(s, D, p, a), a.frame \in E
  PROVE  Follows(s, E, p, AfterOf(s, a))
<1> DEFINE q == AfterOf(s, a)
<1>1. p.frame \in Nat /\ a.frame \in Nat
  BY SizeAssumption DEF Valid, Place
<1>2. q.frame = a.frame \/ q = First(a.frame + 1)
  BY AfterIs, Zenon
<1>3. First(a.frame + 1).frame = a.frame + 1
  BY DEF First, Start
<1> HIDE DEF q
<1>4. p.frame <= a.frame
  BY <1>1 DEF Before
<1>5. q.frame \in {a.frame, a.frame + 1}
  BY <1>2, <1>3
<1>6. CASE p.frame = a.frame
  <2>1. p.frame = q.frame => p.frame \in E
    BY <1>6
  <2>2. p.frame < q.frame => q = First(q.frame) /\ \A m \in p.frame + 1 .. q.frame - 1 : m \in E
    BY <1>1, <1>2, <1>3, <1>6
  <2>3. QED
    BY <1>6, <2>1, <2>2 DEF Follows, q
<1>7. CASE p.frame < a.frame
  <2>1. p.frame # q.frame
    BY <1>1, <1>5, <1>7
  <2>2. p.frame \notin E => AfterOf(s, p) = First(p.frame + 1)
    BY <1>7 DEF Follows
  <2>3. q.frame \notin E => q = First(q.frame)
    BY <1>2, <1>3
  <2>4. \A m \in p.frame + 1 .. a.frame - 1 : m \in E
    BY <1>7 DEF Follows
  <2>5. \A m \in p.frame + 1 .. q.frame - 1 : m \in E
    BY <1>1, <1>5, <2>4
  <2>6. QED
    BY <2>1, <2>2, <2>3, <2>5 DEF Follows, q
<1>8. QED
  BY <1>1, <1>4, <1>6, <1>7

LEMMA Appended ==
  ASSUME NEW S, NEW q \in Seq(S), NEW e \in S
  PROVE  /\ Append(q, e) \in Seq(S) /\ Len(q) \in Nat /\ Len(Append(q, e)) = Len(q) + 1
         /\ \A i \in 1 .. Len(q) : Append(q, e)[i] = q[i]
         /\ Append(q, e)[Len(q) + 1] = e
  BY AppendProperties

(* The places of what the FIFO q holds and, after them, the place a of the   *)
(* host.                                                                     *)
PlaceAt(q, a, i) == IF i <= Len(q) THEN q[i].place ELSE a

Line(s, a, q, D) ==
  /\ a \in Place /\ q \in Seq(Data)
  /\ Valid(s, a) \/ a = First(MaxSends + 1)
  /\ \A i \in 1 .. Len(q) : Valid(s, q[i].place)
  /\ \A i, j \in 1 .. Len(q) + 1 : i < j => Before(PlaceAt(q, a, i), PlaceAt(q, a, j))
  /\ \A i \in 1 .. Len(q) : Follows(s, D, PlaceAt(q, a, i), PlaceAt(q, a, i + 1))
  /\ \A i \in 1 .. Len(q) : q[i].place.frame \notin D => q[i].b = CharOf(s, q[i].place)

LEMMA LineEmpty ==
  ASSUME NEW s, NEW a \in Place, NEW D, Valid(s, a) \/ a = First(MaxSends + 1)
  PROVE  Line(s, a, << >>, D)
<1>1. << >> \in Seq(Data) /\ Len(<< >>) = 0
  BY EmptySeq
<1>2. ~(\E i, j \in 1 .. 0 + 1 : i < j) /\ 1 .. 0 = {}
  OBVIOUS
<1>3. QED
  BY <1>1, <1>2 DEF Line

LEMMA LinePlaces ==
  ASSUME NEW s, NEW a, NEW q, NEW D, Line(s, a, q, D)
  PROVE  /\ Len(q) \in Nat
         /\ \A i \in 1 .. Len(q) + 1 : PlaceAt(q, a, i) \in Place
         /\ \A i \in 1 .. Len(q) : PlaceAt(q, a, i) = q[i].place /\ q[i] \in Data
         /\ PlaceAt(q, a, Len(q) + 1) = a
<1>1. q \in Seq(Data) /\ a \in Place
  BY DEF Line
<1>2. Len(q) \in Nat /\ \A i \in 1 .. Len(q) : q[i] \in Data
  BY <1>1, LenProperties, ElementOfSeq
<1>3. \A i \in 1 .. Len(q) : q[i].place \in Place
  BY <1>2 DEF Data
<1>4. \A i \in 1 .. Len(q) : PlaceAt(q, a, i) = q[i].place
  BY <1>2 DEF PlaceAt
<1>5. PlaceAt(q, a, Len(q) + 1) = a
  BY <1>2 DEF PlaceAt
<1>6. \A i \in 1 .. Len(q) + 1 : i \in 1 .. Len(q) \/ i = Len(q) + 1
  BY <1>2
<1>7. QED
  BY <1>1, <1>2, <1>3, <1>4, <1>5, <1>6, Zenon

(* A character that is lost, though it may damage more.                      *)
LEMMA LineLost ==
  ASSUME NEW s \in Scripts, NEW a, NEW q, NEW D, Line(s, a, q, D), Valid(s, a),
         NEW E, D \subseteq E, a.frame \in E
  PROVE  Line(s, AfterOf(s, a), q, E)
<1> DEFINE c == AfterOf(s, a)
           L == Len(q)
<1>1. /\ L \in Nat
      /\ \A i \in 1 .. L + 1 : PlaceAt(q, a, i) \in Place
      /\ PlaceAt(q, a, L + 1) = a
  BY LinePlaces
<1>2. Before(a, c) /\ c \in Place
  BY AfterIsBefore
<1>3. Valid(s, c) \/ c = First(MaxSends + 1)
  BY AfterIs, Zenon
<1> HIDE DEF c
<1>4. /\ \A i \in 1 .. L : PlaceAt(q, c, i) = PlaceAt(q, a, i)
      /\ PlaceAt(q, c, L + 1) = c
  BY <1>1 DEF PlaceAt
<1>5. a \in Place
  BY DEF Valid
<1>6. \A i, j \in 1 .. L + 1 : i < j => Before(PlaceAt(q, a, i), PlaceAt(q, a, j))
  BY DEF Line
<1>7. ASSUME NEW i \in 1 .. L + 1, NEW j \in 1 .. L + 1, i < j
      PROVE  Before(PlaceAt(q, c, i), PlaceAt(q, c, j))
  <2>1. i \in 1 .. L /\ (j \in 1 .. L \/ j = L + 1)
    BY <1>1, <1>7
  <2>2. CASE j \in 1 .. L
    BY <1>4, <1>6, <1>7, <2>1, <2>2
  <2>3. CASE j = L + 1
    <3>1. Before(PlaceAt(q, a, i), a)
      BY <1>1, <1>6, <1>7, <2>3
    <3>2. Before(PlaceAt(q, a, i), c)
      BY <1>1, <1>2, <1>5, <3>1, BeforeOrder
    <3>3. QED
      BY <1>4, <2>1, <2>3, <3>2
  <2>4. QED
    BY <2>1, <2>2, <2>3
<1>8. ASSUME NEW i \in 1 .. L
      PROVE  Follows(s, E, PlaceAt(q, c, i), PlaceAt(q, c, i + 1))
  <2>1. Follows(s, D, PlaceAt(q, a, i), PlaceAt(q, a, i + 1))
    BY DEF Line
  <2>2. CASE i < L
    <3>1. i + 1 \in 1 .. L
      BY <1>1, <2>2
    <3>2. QED
      BY <1>4, <2>1, <3>1, FollowsMore
  <2>3. CASE i = L
    <3>1. Follows(s, D, PlaceAt(q, a, i), a)
      BY <1>1, <2>1, <2>3
    <3>2. Before(PlaceAt(q, a, i), a) /\ PlaceAt(q, a, i) \in Place
      BY <1>1, <1>6, <2>3
    <3>3. Follows(s, E, PlaceAt(q, a, i), c)
      BY <3>1, <3>2, FollowsLost DEF c
    <3>4. QED
      BY <1>1, <1>4, <2>3, <3>3
  <2>4. QED
    BY <1>1, <2>2, <2>3
<1>9. QED
  BY <1>2, <1>3, <1>7, <1>8 DEF Line, c

(* A character that arrives.                                                 *)
LEMMA LineArrives ==
  ASSUME NEW s \in Scripts, NEW a, NEW q, NEW D, Line(s, a, q, D), Valid(s, a),
         NEW E, D \subseteq E, NEW b \in Byte, a.frame \notin E => b = CharOf(s, a)
  PROVE  Line(s, AfterOf(s, a), Append(q, [b |-> b, place |-> a]), E)
<1> DEFINE c == AfterOf(s, a)
           L == Len(q)
           d == [b |-> b, place |-> a]
           r == Append(q, d)
<1>1. /\ L \in Nat
      /\ \A i \in 1 .. L + 1 : PlaceAt(q, a, i) \in Place
      /\ \A i \in 1 .. L : PlaceAt(q, a, i) = q[i].place /\ q[i] \in Data
      /\ PlaceAt(q, a, L + 1) = a
  BY LinePlaces
<1>2. Before(a, c) /\ c \in Place
  BY AfterIsBefore
<1>3. Valid(s, c) \/ c = First(MaxSends + 1)
  BY AfterIs, Zenon
<1>4. Follows(s, E, a, c)
  BY FollowsAfter
<1>5. a \in Place
  BY DEF Valid
<1>6. d \in Data /\ d.place = a /\ d.b = b
  BY <1>5 DEF Data
<1>7. /\ q \in Seq(Data)
      /\ \A i, j \in 1 .. L + 1 : i < j => Before(PlaceAt(q, a, i), PlaceAt(q, a, j))
      /\ \A i \in 1 .. L : /\ Valid(s, q[i].place)
                           /\ Follows(s, D, PlaceAt(q, a, i), PlaceAt(q, a, i + 1))
                           /\ q[i].place.frame \notin D => q[i].b = CharOf(s, q[i].place)
  BY DEF Line
<1> HIDE DEF c, d
<1>8. /\ r \in Seq(Data) /\ Len(r) = L + 1
      /\ \A i \in 1 .. L : r[i] = q[i]
      /\ r[L + 1] = d
  BY <1>6, <1>7, Appended
<1> HIDE DEF r
<1>9. /\ \A i \in 1 .. L + 1 : PlaceAt(r, c, i) = PlaceAt(q, a, i)
      /\ PlaceAt(r, c, (L + 1) + 1) = c
  BY <1>1, <1>6, <1>8 DEF PlaceAt
<1> HIDE DEF L
<1>10. ASSUME NEW i \in 1 .. (L + 1) + 1, NEW j \in 1 .. (L + 1) + 1, i < j
       PROVE  Before(PlaceAt(r, c, i), PlaceAt(r, c, j))
  <2>1. i \in 1 .. L + 1 /\ (j \in 1 .. L + 1 \/ j = (L + 1) + 1)
    BY <1>1, <1>10
  <2>2. CASE j \in 1 .. L + 1
    BY <1>7, <1>9, <1>10, <2>1, <2>2
  <2>3. CASE j = (L + 1) + 1
    <3>1. Before(PlaceAt(q, a, i), c)
      <4>1. CASE i = L + 1
        BY <1>1, <1>2, <4>1
      <4>2. CASE i # L + 1
        <5>1. i < L + 1 /\ L + 1 \in 1 .. L + 1
          BY <1>1, <2>1, <4>2
        <5>2. Before(PlaceAt(q, a, i), a)
          BY <1>1, <1>7, <2>1, <5>1
        <5>3. QED
          BY <1>1, <1>2, <1>5, <2>1, <5>2, BeforeOrder
      <4>3. QED
        BY <4>1, <4>2
    <3>2. QED
      BY <1>9, <2>1, <2>3, <3>1
  <2>4. QED
    BY <2>1, <2>2, <2>3
<1>11. ASSUME NEW i \in 1 .. L + 1
       PROVE  /\ Valid(s, r[i].place)
              /\ Follows(s, E, PlaceAt(r, c, i), PlaceAt(r, c, i + 1))
              /\ r[i].place.frame \notin E => r[i].b = CharOf(s, r[i].place)
  <2>1. CASE i = L + 1
    <3>1. r[i] = d
      BY <1>8, <2>1
    <3>2. PlaceAt(r, c, i) = a /\ PlaceAt(r, c, i + 1) = c
      BY <1>1, <1>9, <2>1
    <3>3. QED
      BY <1>4, <1>6, <3>1, <3>2
  <2>2. CASE i # L + 1
    <3>1. i \in 1 .. L /\ i + 1 \in 1 .. L + 1
      BY <1>1, <2>2
    <3>2. r[i] = q[i] /\ PlaceAt(r, c, i) = PlaceAt(q, a, i)
          /\ PlaceAt(r, c, i + 1) = PlaceAt(q, a, i + 1)
      BY <1>8, <1>9, <3>1
    <3>3. Follows(s, E, PlaceAt(q, a, i), PlaceAt(q, a, i + 1))
      BY <1>7, <3>1, FollowsMore
    <3>4. QED
      BY <1>7, <3>1, <3>2, <3>3
  <2>3. QED
    BY <2>1, <2>2
<1>12. Line(s, c, r, E)
  BY <1>2, <1>3, <1>8, <1>10, <1>11 DEF Line
<1>13. QED
  BY <1>12 DEF c, d, r

(* The camera reads the first.                                               *)
LEMMA LineRead ==
  ASSUME NEW s, NEW a, NEW q, NEW D, Line(s, a, q, D), q # << >>
  PROVE  /\ Line(s, a, Tail(q), D)
         /\ Len(q) \in Nat \ {0} /\ Len(Tail(q)) = Len(q) - 1 /\ Tail(q) \in Seq(Data)
         /\ Head(q) = q[1] /\ q[1] \in Data
         /\ \A i \in 1 .. Len(Tail(q)) : Tail(q)[i] = q[i + 1]
         /\ \A i \in 1 .. Len(Tail(q)) + 1 : PlaceAt(Tail(q), a, i) = PlaceAt(q, a, i + 1)
<1> DEFINE t == Tail(q)
           L == Len(q)
<1>1. /\ L \in Nat
      /\ \A i \in 1 .. L : PlaceAt(q, a, i) = q[i].place /\ q[i] \in Data
      /\ PlaceAt(q, a, L + 1) = a
  BY LinePlaces
<1>2. q \in Seq(Data)
  BY DEF Line
<1>3. L \in Nat \ {0}
  BY <1>2, EmptySeq
<1>4. t \in Seq(Data) /\ Len(t) = L - 1 /\ \A i \in 1 .. Len(t) : t[i] = q[i + 1]
  BY <1>2, HeadTailProperties
<1>5. Head(q) = q[1] /\ q[1] \in Data
  BY <1>1, <1>2, <1>3
<1> HIDE DEF t
<1>6. \A i \in 1 .. L - 1 : t[i] = q[i + 1] /\ i + 1 \in 1 .. L
  BY <1>3, <1>4
<1>7. ASSUME NEW i \in 1 .. L
      PROVE  PlaceAt(t, a, i) = PlaceAt(q, a, i + 1)
  <2>1. CASE i = L
    <3>1. ~(i <= Len(t)) /\ ~(i + 1 <= L)
      BY <1>3, <1>4, <2>1
    <3>2. QED
      BY <3>1 DEF PlaceAt
  <2>2. CASE i # L
    <3>1. i \in 1 .. L - 1 /\ i <= Len(t) /\ i + 1 <= L
      BY <1>3, <1>4, <2>2
    <3>2. QED
      BY <1>6, <3>1 DEF PlaceAt
  <2>3. QED
    BY <2>1, <2>2
<1> HIDE DEF L
<1>8. (L - 1) + 1 = L
  BY <1>3
<1>9. /\ a \in Place /\ (Valid(s, a) \/ a = First(MaxSends + 1))
      /\ \A i, j \in 1 .. L + 1 : i < j => Before(PlaceAt(q, a, i), PlaceAt(q, a, j))
      /\ \A i \in 1 .. L : /\ Valid(s, q[i].place)
                           /\ Follows(s, D, PlaceAt(q, a, i), PlaceAt(q, a, i + 1))
                           /\ q[i].place.frame \notin D => q[i].b = CharOf(s, q[i].place)
  BY DEF Line, L
<1>10. ASSUME NEW i \in 1 .. L, NEW j \in 1 .. L, i < j
       PROVE  Before(PlaceAt(t, a, i), PlaceAt(t, a, j))
  <2>1. i + 1 \in 1 .. L + 1 /\ j + 1 \in 1 .. L + 1 /\ i + 1 < j + 1
    BY <1>3, <1>10
  <2>2. Before(PlaceAt(q, a, i + 1), PlaceAt(q, a, j + 1))
    BY <1>9, <2>1
  <2>3. QED
    BY <1>7, <2>2
<1>11. ASSUME NEW i \in 1 .. L - 1
       PROVE  /\ Valid(s, t[i].place)
              /\ Follows(s, D, PlaceAt(t, a, i), PlaceAt(t, a, i + 1))
              /\ t[i].place.frame \notin D => t[i].b = CharOf(s, t[i].place)
  <2>1. i + 1 \in 1 .. L /\ i \in 1 .. L /\ t[i] = q[i + 1]
    BY <1>3, <1>6
  <2>2. PlaceAt(t, a, i) = PlaceAt(q, a, i + 1) /\ PlaceAt(t, a, i + 1) = PlaceAt(q, a, (i + 1) + 1)
    BY <1>7, <2>1
  <2>3. QED
    BY <1>9, <2>1, <2>2
<1>12. Line(s, a, t, D)
  BY <1>4, <1>8, <1>9, <1>10, <1>11 DEF Line, L
<1>13. QED
  BY <1>3, <1>4, <1>5, <1>7, <1>8, <1>12 DEF t, L

-----------------------------------------------------------------------------
(* The reader: what recv_packet holds when the character of place p is the   *)
(* next.  Of a whole frame it holds all that precedes p.                     *)

WholeIn(D, k) == k - 1 \notin D /\ k \notin D

Stored(s, k, n, pk) ==
  /\ Len(pk) = IF n < MaxLen THEN n ELSE MaxLen
  /\ \A i \in 1 .. Len(pk) : pk[i].b = FrameOf(s, k)[i] /\ pk[i].place.frame = k

Reader(s, p, D, ph, er, esc, pk) ==
  /\ pk \in Seq(Data) /\ Len(pk) <= MaxLen
  /\ ph \notin {"recv", "parse"} => pk = << >> /\ ~er /\ ~esc
  /\ ph = "parse" => pk # << >> /\ ~esc
  /\ \A i \in 1 .. Len(pk) : Valid(s, pk[i].place) /\ Before(pk[i].place, p)
  /\ p.frame \notin D /\ p.pos > 0 => (esc <=> p.part = 2)
  /\ p.frame - 1 \notin D /\ p.pos = 0 => ph = "parse" \/ (pk = << >> /\ ~esc)
  /\ WholeIn(D, p.frame) /\ p.pos > 0 => ph = "recv" /\ er /\ Stored(s, p.frame, p.pos - 1, pk)
  /\ ph = "recv" => \A i \in 1 .. Len(pk) :
       pk[i].place.frame = p.frame \/ ~WholeIn(D, pk[i].place.frame)
  /\ ph = "parse" /\ WholeIn(D, pk[Len(pk)].place.frame) =>
       LET f == pk[Len(pk)].place.frame IN Stored(s, f, Len(FrameOf(s, f)), pk)

StoreIn(er, pk, d) == IF er /\ Len(pk) < MaxLen THEN Append(pk, d) ELSE pk

Reads(d, er, esc, pk, ph2, er2, esc2, pk2) ==
  \/ /\ esc
     /\ pk2 = StoreIn(er, pk, [d EXCEPT !.b = Unescaped(d.b)])
     /\ esc2 = FALSE /\ er2 = er /\ ph2 = "recv"
  \/ /\ ~esc /\ d.b = END
     /\ er2 = TRUE
     /\ ph2 = IF pk = << >> THEN "recv" ELSE "parse"
     /\ pk2 = pk /\ esc2 = esc
  \/ /\ ~esc /\ d.b = ESC
     /\ esc2 = TRUE /\ pk2 = pk /\ er2 = er /\ ph2 = "recv"
  \/ /\ ~esc /\ d.b \notin {END, ESC}
     /\ pk2 = StoreIn(er, pk, d) /\ esc2 = esc /\ er2 = er /\ ph2 = "recv"

LEMMA ReaderMore ==
  ASSUME NEW s, NEW p, NEW D, NEW E, D \subseteq E, NEW ph, NEW er, NEW esc, NEW pk,
         Reader(s, p, D, ph, er, esc, pk)
  PROVE  Reader(s, p, E, ph, er, esc, pk)
<1>1. \A k : k \notin E => k \notin D
  OBVIOUS
<1>2. \A k : WholeIn(E, k) => WholeIn(D, k)
  BY <1>1 DEF WholeIn
<1>3. QED
  BY <1>1, <1>2, Zenon DEF Reader

LEMMA ReaderRests ==
  ASSUME NEW s, NEW p, NEW D, NEW ph, NEW er, NEW esc, NEW pk,
         Reader(s, p, D, ph, er, esc, pk), ph # "recv", NEW ph2, ph2 # "parse"
  PROVE  Reader(s, p, D, ph2, FALSE, FALSE, << >>)
<1>1. << >> \in Seq(Data) /\ Len(<< >>) = 0 /\ 1 .. 0 = {} /\ 0 <= MaxLen
  BY EmptySeq, SizeAssumption
<1>2. ~esc
  BY Zenon DEF Reader
<1>3. p.frame \notin D /\ p.pos > 0 => ~(p.part = 2)
  BY <1>2, Zenon DEF Reader
<1>4. ~(WholeIn(D, p.frame) /\ p.pos > 0)
  BY Zenon DEF Reader
<1>5. \A i \in 1 .. Len(<< >>) : FALSE
  BY <1>1
<1>6. Len(<< >>) <= MaxLen
  BY <1>1
<1>7. QED
  BY <1>1, <1>3, <1>4, <1>5, <1>6, Zenon DEF Reader

LEMMA ReaderEmpty ==
  ASSUME NEW s, NEW p \in Place, NEW D, p.pos > 0 => p.frame \in D, NEW ph2, ph2 # "parse"
  PROVE  Reader(s, p, D, ph2, FALSE, FALSE, << >>)
<1>1. << >> \in Seq(Data) /\ Len(<< >>) = 0 /\ 1 .. 0 = {} /\ 0 <= MaxLen
  BY EmptySeq, SizeAssumption
<1>2. \A i \in 1 .. Len(<< >>) : FALSE
  BY <1>1
<1>3. Len(<< >>) <= MaxLen
  BY <1>1
<1>4. QED
  BY <1>1, <1>2, <1>3, Zenon DEF Reader, WholeIn

(* The character at p is lost.                                               *)
LEMMA ReaderLost ==
  ASSUME NEW s \in Scripts, NEW p, Valid(s, p), NEW D, NEW E, D \subseteq E, p.frame \in E,
         NEW ph, NEW er, NEW esc, NEW pk, Reader(s, p, D, ph, er, esc, pk)
  PROVE  Reader(s, AfterOf(s, p), E, ph, er, esc, pk)
<1> DEFINE q == AfterOf(s, p)
<1>1. /\ pk \in Seq(Data) /\ Len(pk) <= MaxLen
      /\ ph \notin {"recv", "parse"} => pk = << >> /\ ~er /\ ~esc
      /\ ph = "parse" => pk # << >> /\ ~esc
      /\ \A i \in 1 .. Len(pk) : Valid(s, pk[i].place) /\ Before(pk[i].place, p)
      /\ ph = "recv" => \A i \in 1 .. Len(pk) :
           pk[i].place.frame = p.frame \/ ~WholeIn(E, pk[i].place.frame)
      /\ ph = "parse" /\ WholeIn(E, pk[Len(pk)].place.frame) =>
           LET f == pk[Len(pk)].place.frame IN Stored(s, f, Len(FrameOf(s, f)), pk)
  <2>1. Reader(s, p, E, ph, er, esc, pk)
    BY ReaderMore
  <2>2. QED
    BY <2>1, Zenon DEF Reader
<1>2. Before(p, q) /\ q \in Place /\ p \in Place /\ p.frame \in Nat /\ p.pos \in Nat
  BY AfterIsBefore, SizeAssumption DEF Valid, Place
<1>3. \/ q.frame = p.frame /\ q.pos = p.pos /\ p.pos > 0
      \/ q.frame = p.frame /\ q.pos = p.pos + 1
      \/ q.frame = p.frame + 1 /\ q.pos = 0
  <2> DEFINE L == Len(FrameOf(s, p.frame))
  <2>1. /\ L \in Nat
        /\ \/ q.frame = p.frame /\ q.pos = p.pos /\ p.pos \in 1 .. L
           \/ q.frame = p.frame /\ q.pos = p.pos + 1
           \/ q = First(p.frame + 1)
    BY AfterIs, Zenon
  <2> HIDE DEF L, q
  <2>2. First(p.frame + 1).frame = p.frame + 1 /\ First(p.frame + 1).pos = 0
    BY DEF First, Start
  <2>3. QED
    BY <1>2, <2>1, <2>2
<1> HIDE DEF q
<1>4. q.pos > 0 => q.frame \in E
  BY <1>2, <1>3
<1>5. q.pos = 0 => q.frame - 1 \in E
  BY <1>2, <1>3
<1>6. \A i \in 1 .. Len(pk) : Before(pk[i].place, q)
  BY <1>1, <1>2, BeforeOrder DEF Valid
<1>7. \A k : WholeIn(E, k) => k # p.frame
  BY DEF WholeIn
<1>8. ph = "recv" => \A i \in 1 .. Len(pk) :
        pk[i].place.frame = q.frame \/ ~WholeIn(E, pk[i].place.frame)
  BY <1>1, <1>7, Zenon
<1>9. Reader(s, q, E, ph, er, esc, pk)
  BY <1>1, <1>4, <1>5, <1>6, <1>8, Zenon DEF Reader, WholeIn
<1>10. QED
  BY <1>9 DEF q

(* Only a place in an undamaged frame behind its first is known to follow in *)
(* that frame, and only the end of a frame to be followed by another.        *)
LEMMA NextIn ==
  ASSUME NEW s \in Scripts, NEW D, NEW p, Valid(s, p), NEW q \in Place,
         Before(p, q), Follows(s, D, p, q), q.frame \notin D, q.pos > 0
  PROVE  /\ p.frame = q.frame
         /\ Len(FrameOf(s, p.frame)) \in Nat
         /\ \/ /\ q.pos = p.pos /\ p.part = 1 /\ q.part = 2
               /\ p.pos \in 1 .. Len(FrameOf(s, p.frame)) /\ Len(CharsOf(s, p)) = 2
            \/ /\ q.pos = p.pos + 1 /\ q.part = 1
               /\ p.pos \in 0 .. Len(FrameOf(s, p.frame)) /\ p.part = Len(CharsOf(s, p))
<1> DEFINE L == Len(FrameOf(s, p.frame))
           n == Len(CharsOf(s, p))
<1>1. p.frame \in Nat /\ q.frame \in Nat
  BY SizeAssumption DEF Valid, Place
<1>2. p.frame = q.frame
  <2>1. ASSUME p.frame < q.frame
        PROVE  FALSE
    <3>1. q = First(q.frame)
      BY <2>1 DEF Follows
    <3>2. q.pos = 0
      BY <3>1 DEF First, Start
    <3>3. QED
      BY <3>2
  <2>2. QED
    BY <1>1, <2>1 DEF Before
<1>3. q = AfterOf(s, p)
  BY <1>2 DEF Follows
<1>4. /\ L \in Nat
      /\ \/ /\ q.pos = p.pos /\ p.part = 1 /\ q.part = 2
            /\ p.pos \in 1 .. L /\ n = 2
         \/ /\ q.pos = p.pos + 1 /\ q.part = 1
            /\ p.pos \in 0 .. L /\ p.part = n
         \/ q = First(p.frame + 1)
  BY <1>3, AfterIs, Zenon
<1>5. First(p.frame + 1).frame = p.frame + 1
  BY DEF First, Start
<1> HIDE DEF L, n
<1>6. q # First(p.frame + 1)
  BY <1>1, <1>2, <1>5
<1>7. QED
  BY <1>2, <1>4, <1>6 DEF L, n

LEMMA FrameDone ==
  ASSUME NEW s \in Scripts, NEW D, NEW p, Valid(s, p), NEW q \in Place,
         Follows(s, D, p, q), p.frame \notin D, p.frame < q.frame
  PROVE  p.pos = Len(FrameOf(s, p.frame)) + 1 /\ p.part = 1 /\ p.pos > 0
<1> DEFINE L == Len(FrameOf(s, p.frame))
<1>1. p.frame \in Nat
  BY SizeAssumption DEF Valid, Place
<1>2. AfterOf(s, p) = First(p.frame + 1)
  BY DEF Follows
<1>3. First(p.frame + 1).frame = p.frame + 1
  BY DEF First, Start
<1>4. /\ L \in Nat
      /\ AfterOf(s, p).frame = p.frame \/ (p.pos = L + 1 /\ p.part = 1)
  BY AfterIs, Zenon
<1> HIDE DEF L
<1>5. p.pos = L + 1 /\ p.part = 1
  BY <1>1, <1>2, <1>3, <1>4
<1>6. QED
  BY <1>4, <1>5 DEF L

LEMMA NextFirst ==
  ASSUME NEW s \in Scripts, NEW D, NEW p, Valid(s, p), NEW q \in Place,
         Valid(s, q) \/ q = First(MaxSends + 1),
         Before(p, q), Follows(s, D, p, q), q.frame - 1 \notin D, q.pos = 0
  PROVE  p.frame \notin D /\ p.frame < q.frame
<1>1. p.frame \in Nat /\ q.frame \in Nat /\ p.pos \in Nat /\ p.part \in Nat /\ q.part \in Nat
      /\ p.part >= 1 /\ p \in Place
  BY SizeAssumption DEF Valid, Place
<1>2. q.part = 1
  <2>1. CASE q = First(MaxSends + 1)
    BY <2>1 DEF First, Start
  <2>2. CASE Valid(s, q)
    <3>1. Len(CharsOf(s, q)) = 1
      <4>1. q.frame \in 1 .. MaxSends /\ q.pos \in 0 .. Len(FrameOf(s, q.frame)) + 1
        BY <2>2, Zenon DEF Valid
      <4>2. q.pos \notin 1 .. Len(FrameOf(s, q.frame))
        <5>1. Len(FrameOf(s, q.frame)) \in Nat
          BY <4>1, FrameIs
        <5>2. QED
          BY <5>1
      <4>3. QED
        BY <4>1, <4>2, CharsAre, Zenon
    <3>2. q.part \in 1 .. Len(CharsOf(s, q))
      BY <2>2, Zenon DEF Valid
    <3>3. QED
      BY <3>1, <3>2
  <2>3. QED
    BY <2>1, <2>2
<1>3. p.frame < q.frame
  BY <1>1, <1>2 DEF Before
<1>4. \A m \in p.frame + 1 .. q.frame - 1 : m \in D
  BY <1>3 DEF Follows
<1>5. p.frame = q.frame - 1
  BY <1>1, <1>3, <1>4
<1>6. QED
  BY <1>3, <1>5

(* Place 0 and the last place are one END; a byte is one or two characters.  *)
LEMMA CharIs ==
  ASSUME NEW s \in Scripts, NEW p, Valid(s, p)
  PROVE  LET L == Len(FrameOf(s, p.frame))
             n == Len(CharsOf(s, p))
             x == FrameOf(s, p.frame)[p.pos]
             c == CharOf(s, p) IN
         /\ L \in Nat /\ p.pos \in 0 .. L + 1 /\ p.part \in 1 .. n /\ n \in Nat
         /\ p.pos \notin 1 .. L => n = 1 /\ p.part = 1 /\ c = END
         /\ p.pos \in 1 .. L =>
              /\ x \in Byte /\ c # END
              /\ \/ n = 1 /\ p.part = 1 /\ c = x /\ c # ESC
                 \/ n = 2 /\ p.part = 1 /\ c = ESC
                 \/ n = 2 /\ p.part = 2 /\ Unescaped(c) = x
<1> DEFINE L == Len(FrameOf(s, p.frame))
           C == CharsOf(s, p)
           n == Len(C)
           x == FrameOf(s, p.frame)[p.pos]
<1>1. p.frame \in 1 .. MaxSends /\ p.pos \in 0 .. L + 1 /\ p.part \in 1 .. n
  BY Zenon DEF Valid
<1>2. L \in Nat
  BY <1>1, FrameIs
<1>3. /\ p.pos \notin 1 .. L => n = 1 /\ C[1] = END
      /\ p.pos \in 1 .. L =>
           /\ x \in Byte
           /\ \/ n = 1 /\ C[1] = x /\ x # END /\ x # ESC
              \/ n = 2 /\ C[1] = ESC /\ C[2] # END /\ Unescaped(C[2]) = x
  BY <1>1, CharsAre, Zenon
<1>4. CharOf(s, p) = C[p.part]
  BY DEF CharOf
<1>5. ESC # END
  BY DEF ESC, END
<1> HIDE DEF C, x, L, n
<1>6. CASE p.pos \notin 1 .. L
  <2>1. n = 1 /\ p.part = 1
    <3>1. n = 1
      BY <1>3, <1>6, Zenon
    <3>2. p.part \in 1 .. n
      BY <1>1, Zenon
    <3>3. QED
      BY ONLY <3>1, <3>2
  <2>2. CharOf(s, p) = END
    BY <1>3, <1>4, <1>6, <2>1
  <2>3. QED
    BY <1>1, <1>2, <1>6, <2>1, <2>2 DEF L, C, n
<1>7. CASE p.pos \in 1 .. L
  <2>1. (n = 1 /\ p.part = 1) \/ (n = 2 /\ p.part = 1) \/ (n = 2 /\ p.part = 2)
    <3>1. n = 1 \/ n = 2
      BY <1>3, <1>7, Zenon
    <3>2. p.part \in 1 .. n
      BY <1>1, Zenon
    <3>3. QED
      BY ONLY <3>1, <3>2
  <2>2. x \in Byte /\ n \in Nat
    BY <1>3, <1>7
  <2>3. CASE n = 1 /\ p.part = 1
    <3>1. C[1] = x /\ x # END /\ x # ESC
      BY <1>3, <1>7, <2>3
    <3>2. QED
      BY <1>1, <1>2, <1>4, <1>7, <2>2, <2>3, <3>1 DEF L, C, x, n
  <2>4. CASE n = 2 /\ p.part = 1
    <3>1. C[1] = ESC
      BY <1>3, <1>7, <2>4
    <3>2. QED
      BY <1>1, <1>2, <1>4, <1>5, <1>7, <2>2, <2>4, <3>1 DEF L, C, x, n
  <2>5. CASE n = 2 /\ p.part = 2
    <3>1. C[2] # END /\ Unescaped(C[2]) = x
      BY <1>3, <1>7, <2>5
    <3>2. QED
      BY <1>1, <1>2, <1>4, <1>7, <2>2, <2>5, <3>1 DEF L, C, x, n
  <2>6. QED
    BY <2>1, <2>3, <2>4, <2>5
<1>8. QED
  BY <1>6, <1>7

LEMMA UnescapedIs ==
  ASSUME NEW p \in Place, NEW d \in Data, d.place = p
  PROVE  LET e == [d EXCEPT !.b = Unescaped(d.b)] IN
         e \in Data /\ e.place = p /\ e.b = Unescaped(d.b)
<1>1. PICK c \in Byte : d = [b |-> c, place |-> p]
  BY DEF Data
<1>2. Unescaped(c) \in Byte
  BY DEF Unescaped, Byte, END, ESC
<1>3. d.b = c
  BY <1>1
<1>4. [d EXCEPT !.b = Unescaped(d.b)] = [b |-> Unescaped(c), place |-> p]
  BY <1>1, <1>3
<1>5. QED
  BY <1>2, <1>3, <1>4 DEF Data

LEMMA StoreGrows ==
  ASSUME NEW p \in Place, NEW e \in Data, e.place = p, NEW er, NEW pk \in Seq(Data), Len(pk) <= MaxLen
  PROVE  LET pk2 == StoreIn(er, pk, e) IN
         /\ pk2 \in Seq(Data) /\ Len(pk2) <= MaxLen
         /\ \A i \in 1 .. Len(pk2) : (i \in 1 .. Len(pk) /\ pk2[i] = pk[i]) \/ pk2[i].place = p
<1>1. CASE er /\ Len(pk) < MaxLen
  <2> DEFINE pk2 == Append(pk, e)
  <2>1. /\ pk2 \in Seq(Data) /\ Len(pk) \in Nat /\ Len(pk2) = Len(pk) + 1
        /\ \A i \in 1 .. Len(pk) : pk2[i] = pk[i]
        /\ pk2[Len(pk) + 1] = e
    BY Appended
  <2>2. StoreIn(er, pk, e) = pk2
    BY <1>1 DEF StoreIn
  <2> HIDE DEF pk2
  <2>3. Len(pk2) <= MaxLen
    BY <1>1, <2>1, SizeAssumption
  <2>4. \A i \in 1 .. Len(pk2) : i \in 1 .. Len(pk) \/ i = Len(pk) + 1
    BY <2>1
  <2>5. QED
    BY <2>1, <2>2, <2>3, <2>4, Zenon
<1>2. CASE ~(er /\ Len(pk) < MaxLen)
  <2>1. StoreIn(er, pk, e) = pk
    BY <1>2 DEF StoreIn
  <2>2. QED
    BY <2>1
<1>3. QED
  BY <1>1, <1>2

LEMMA StoreNext ==
  ASSUME NEW s, NEW k, NEW n \in Nat \ {0}, NEW pk \in Seq(Data), Stored(s, k, n - 1, pk),
         NEW e \in Data, e.place.frame = k, e.b = FrameOf(s, k)[n], NEW er, er
  PROVE  Stored(s, k, n, StoreIn(er, pk, e))
<1>1. /\ Len(pk) = IF n - 1 < MaxLen THEN n - 1 ELSE MaxLen
      /\ \A i \in 1 .. Len(pk) : pk[i].b = FrameOf(s, k)[i] /\ pk[i].place.frame = k
  BY DEF Stored
<1>2. MaxLen \in Nat
  BY SizeAssumption
<1>3. CASE n <= MaxLen
  <2> DEFINE pk2 == Append(pk, e)
  <2>1. /\ Len(pk2) = Len(pk) + 1
        /\ \A i \in 1 .. Len(pk) : pk2[i] = pk[i]
        /\ pk2[Len(pk) + 1] = e
    BY Appended
  <2>2. Len(pk) = n - 1 /\ Len(pk) < MaxLen
    BY <1>1, <1>2, <1>3
  <2>3. StoreIn(er, pk, e) = pk2
    BY <2>2 DEF StoreIn
  <2> HIDE DEF pk2
  <2>4. Len(pk2) = n /\ pk2[n] = e
    BY <2>1, <2>2
  <2>5. ASSUME NEW i \in 1 .. n
        PROVE  pk2[i].b = FrameOf(s, k)[i] /\ pk2[i].place.frame = k
    <3>1. CASE i = n
      BY <2>4, <3>1
    <3>2. CASE i # n
      <4>1. i \in 1 .. Len(pk)
        BY <2>2, <3>2
      <4>2. QED
        BY <1>1, <2>1, <4>1
    <3>3. QED
      BY <3>1, <3>2
  <2>6. Len(pk2) = IF n < MaxLen THEN n ELSE MaxLen
    BY <1>2, <1>3, <2>4
  <2>7. Stored(s, k, n, pk2)
    BY <2>4, <2>5, <2>6 DEF Stored
  <2>8. QED
    BY <2>3, <2>7
<1>4. CASE ~(n <= MaxLen)
  <2>1. Len(pk) = MaxLen /\ ~(Len(pk) < MaxLen)
    BY <1>1, <1>2, <1>4
  <2>2. StoreIn(er, pk, e) = pk
    BY <2>1 DEF StoreIn
  <2>3. Len(pk) = IF n < MaxLen THEN n ELSE MaxLen
    BY <1>2, <1>4, <2>1
  <2>4. Stored(s, k, n, pk)
    BY <1>1, <2>3 DEF Stored
  <2>5. QED
    BY <2>2, <2>4
<1>5. QED
  BY <1>3, <1>4

LEMMA ReadsGrows ==
  ASSUME NEW p \in Place, NEW d \in Data, d.place = p,
         NEW er, NEW esc, NEW pk \in Seq(Data), Len(pk) <= MaxLen,
         NEW ph2, NEW er2, NEW esc2, NEW pk2, Reads(d, er, esc, pk, ph2, er2, esc2, pk2)
  PROVE  /\ pk2 \in Seq(Data) /\ Len(pk2) <= MaxLen
         /\ \A i \in 1 .. Len(pk2) : (i \in 1 .. Len(pk) /\ pk2[i] = pk[i]) \/ pk2[i].place = p
         /\ ph2 \in {"recv", "parse"}
         /\ ph2 = "parse" => ~esc /\ ~esc2 /\ d.b = END /\ pk2 = pk /\ pk # << >>
         /\ ph2 = "recv" => ~(~esc /\ d.b = END /\ pk # << >>)
<1> DEFINE e == [d EXCEPT !.b = Unescaped(d.b)]
<1>0. END # ESC
  BY DEF END, ESC
<1>1. e \in Data /\ e.place = p
  BY UnescapedIs
<1> HIDE DEF e
<1>2. \/ pk2 = pk \/ pk2 = StoreIn(er, pk, d) \/ pk2 = StoreIn(er, pk, e)
  BY Zenon DEF Reads, e
<1>3. /\ pk2 \in Seq(Data) /\ Len(pk2) <= MaxLen
      /\ \A i \in 1 .. Len(pk2) : (i \in 1 .. Len(pk) /\ pk2[i] = pk[i]) \/ pk2[i].place = p
  <2>1. CASE pk2 = pk
    BY <2>1
  <2>2. CASE pk2 = StoreIn(er, pk, d)
    <3> DEFINE r == StoreIn(er, pk, d)
    <3>1. /\ r \in Seq(Data) /\ Len(r) <= MaxLen
          /\ \A i \in 1 .. Len(r) : (i \in 1 .. Len(pk) /\ r[i] = pk[i]) \/ r[i].place = p
      BY StoreGrows
    <3> HIDE DEF r
    <3>2. pk2 = r
      BY <2>2 DEF r
    <3>3. QED
      BY <3>1, <3>2
  <2>3. CASE pk2 = StoreIn(er, pk, e)
    <3> DEFINE r == StoreIn(er, pk, e)
    <3>1. /\ r \in Seq(Data) /\ Len(r) <= MaxLen
          /\ \A i \in 1 .. Len(r) : (i \in 1 .. Len(pk) /\ r[i] = pk[i]) \/ r[i].place = p
      BY <1>1, StoreGrows
    <3> HIDE DEF r
    <3>2. pk2 = r
      BY <2>3 DEF r
    <3>3. QED
      BY <3>1, <3>2
  <2>4. QED
    BY <1>2, <2>1, <2>2, <2>3
<1>4. "recv" # "parse"
  OBVIOUS
<1>5. ph2 = "recv" \/ ph2 = "parse"
  BY Zenon DEF Reads
<1>6. ph2 = "parse" => ~esc /\ ~esc2 /\ d.b = END /\ pk2 = pk /\ pk # << >>
  BY <1>4, Zenon DEF Reads
<1>7. ph2 = "recv" => ~(~esc /\ d.b = END /\ pk # << >>)
  <2>1. ASSUME ~esc, d.b = END, pk # << >>
        PROVE  ph2 = "parse"
    BY <1>0, <2>1, Zenon DEF Reads
  <2>2. QED
    BY <1>4, <2>1, Zenon
<1>8. QED
  BY <1>3, <1>5, <1>6, <1>7, Zenon

(* What the character sent at p does to the reader.                          *)
ReadAs(s, p, er, esc, pk, ph2, er2, esc2, pk2) ==
  LET L == Len(FrameOf(s, p.frame))
      n == Len(CharsOf(s, p)) IN
  /\ p.pos \notin 1 .. L =>
       /\ esc2 = FALSE
       /\ ~esc => er2 = TRUE /\ pk2 = pk
  /\ p.pos \in 1 .. L /\ (esc <=> p.part = 2) /\ p.part # n =>
       esc2 = TRUE /\ pk2 = pk /\ er2 = er /\ ph2 = "recv"
  /\ p.pos \in 1 .. L /\ (esc <=> p.part = 2) /\ p.part = n =>
       /\ esc2 = FALSE /\ er2 = er /\ ph2 = "recv"
       /\ \E e \in Data : /\ e.place = p /\ e.b = FrameOf(s, p.frame)[p.pos]
                          /\ pk2 = StoreIn(er, pk, e)

LEMMA ReadsTrue ==
  ASSUME NEW s \in Scripts, NEW p, Valid(s, p), NEW d \in Data, d.place = p, d.b = CharOf(s, p),
         NEW er, NEW esc \in BOOLEAN, NEW pk,
         NEW ph2, NEW er2, NEW esc2, NEW pk2, Reads(d, er, esc, pk, ph2, er2, esc2, pk2)
  PROVE  ReadAs(s, p, er, esc, pk, ph2, er2, esc2, pk2)
<1> DEFINE L == Len(FrameOf(s, p.frame))
           n == Len(CharsOf(s, p))
           x == FrameOf(s, p.frame)[p.pos]
           c == CharOf(s, p)
           e == [d EXCEPT !.b = Unescaped(d.b)]
<1>1. /\ p.pos \notin 1 .. L => c = END
      /\ p.pos \in 1 .. L =>
           /\ c # END
           /\ \/ n = 1 /\ p.part = 1 /\ c = x /\ c # ESC
              \/ n = 2 /\ p.part = 1 /\ c = ESC
              \/ n = 2 /\ p.part = 2 /\ Unescaped(c) = x
  BY CharIs, Zenon
<1>2. p \in Place
  BY DEF Valid
<1>3. e \in Data /\ e.place = p /\ e.b = Unescaped(d.b)
  BY <1>2, UnescapedIs
<1>4. d.b = c /\ ESC # END /\ 1 # 2
  BY DEF ESC, END
<1>5. \/ esc /\ pk2 = StoreIn(er, pk, e) /\ esc2 = FALSE /\ er2 = er /\ ph2 = "recv"
      \/ ~esc /\ d.b = END /\ er2 = TRUE /\ pk2 = pk /\ esc2 = esc
      \/ ~esc /\ d.b = ESC /\ esc2 = TRUE /\ pk2 = pk /\ er2 = er /\ ph2 = "recv"
      \/ ~esc /\ d.b \notin {END, ESC} /\ pk2 = StoreIn(er, pk, d) /\ esc2 = esc /\ er2 = er
         /\ ph2 = "recv"
  BY Zenon DEF Reads
<1> HIDE DEF L, n, x, c, e
<1>6. ~esc => esc = FALSE
  OBVIOUS
<1>7. p.pos \notin 1 .. L => esc2 = FALSE /\ (~esc => er2 = TRUE /\ pk2 = pk)
  BY <1>1, <1>4, <1>5, <1>6, Zenon
<1>8. ASSUME p.pos \in 1 .. L, esc <=> p.part = 2, p.part # n
      PROVE  esc2 = TRUE /\ pk2 = pk /\ er2 = er /\ ph2 = "recv"
  <2>1. p.part = 1 /\ c = ESC
    BY <1>1, <1>8, Zenon
  <2>2. ~esc
    BY <1>4, <1>8, <2>1, Zenon
  <2>3. QED
    BY <1>4, <1>5, <2>1, <2>2, Zenon
<1>9. ASSUME p.pos \in 1 .. L, esc <=> p.part = 2, p.part = n
      PROVE  /\ esc2 = FALSE /\ er2 = er /\ ph2 = "recv"
             /\ \E v \in Data : v.place = p /\ v.b = x /\ pk2 = StoreIn(er, pk, v)
  <2>1. CASE n = 1
    <3>1. p.part = 1 /\ c = x /\ c # ESC /\ c # END
      BY <1>1, <1>4, <1>9, <2>1, Zenon
    <3>2. ~esc
      BY <1>4, <1>9, <3>1, Zenon
    <3>3. pk2 = StoreIn(er, pk, d) /\ esc2 = FALSE /\ er2 = er /\ ph2 = "recv"
      BY <1>4, <1>5, <1>6, <3>1, <3>2, Zenon
    <3>4. QED
      BY <1>4, <3>1, <3>3, Zenon
  <2>2. CASE n # 1
    <3>1. p.part = 2 /\ Unescaped(c) = x
      BY <1>1, <1>4, <1>9, <2>2, Zenon
    <3>2. esc
      BY <1>9, <3>1, Zenon
    <3>3. pk2 = StoreIn(er, pk, e) /\ esc2 = FALSE /\ er2 = er /\ ph2 = "recv"
      BY <1>5, <3>2, Zenon
    <3>4. e.b = x
      BY <1>3, <1>4, <3>1, Zenon
    <3>5. QED
      BY <1>3, <3>3, <3>4, Zenon
  <2>3. QED
    BY <2>1, <2>2, Zenon
<1>10. QED
  BY <1>7, <1>8, <1>9, Zenon DEF ReadAs, L, n, x

(* Reading the character of place p, with place q to come.                   *)
LEMMA ReaderReads ==
  ASSUME NEW s \in Scripts, NEW D, NEW p, Valid(s, p), NEW q \in Place,
         Valid(s, q) \/ q = First(MaxSends + 1), Before(p, q), Follows(s, D, p, q),
         NEW d \in Data, d.place = p, p.frame \notin D => d.b = CharOf(s, p),
         NEW er, NEW esc \in BOOLEAN, NEW pk, Reader(s, p, D, "recv", er, esc, pk),
         NEW ph2, NEW er2, NEW esc2, NEW pk2, Reads(d, er, esc, pk, ph2, er2, esc2, pk2)
  PROVE  Reader(s, q, D, ph2, er2, esc2, pk2)
<1> DEFINE k == p.frame
           L == Len(FrameOf(s, k))
           n == Len(CharsOf(s, p))
           f == pk2[Len(pk2)].place.frame
<1>1. /\ pk \in Seq(Data) /\ Len(pk) <= MaxLen
      /\ \A i \in 1 .. Len(pk) : Valid(s, pk[i].place) /\ Before(pk[i].place, p)
      /\ k \notin D /\ p.pos > 0 => (esc <=> p.part = 2)
      /\ k - 1 \notin D /\ p.pos = 0 => pk = << >> /\ ~esc
      /\ WholeIn(D, k) /\ p.pos > 0 => er /\ Stored(s, k, p.pos - 1, pk)
      /\ \A i \in 1 .. Len(pk) : pk[i].place.frame = k \/ ~WholeIn(D, pk[i].place.frame)
  <2>1. "recv" # "parse"
    OBVIOUS
  <2>2. QED
    BY <2>1, Zenon DEF Reader
<1>2. p \in Place /\ p.pos \in Nat /\ k \in 1 .. MaxSends /\ k \in Nat /\ q.frame \in Nat /\ q.pos \in Nat
  BY SizeAssumption DEF Valid, Place
<1>3. /\ L \in Nat /\ p.pos \in 0 .. L + 1 /\ p.part \in 1 .. n /\ n \in Nat
      /\ p.pos \notin 1 .. L => n = 1 /\ p.part = 1 /\ CharOf(s, p) = END
      /\ p.pos \in 1 .. L => CharOf(s, p) # END
  BY CharIs, Zenon
<1>4. /\ pk2 \in Seq(Data) /\ Len(pk2) <= MaxLen
      /\ \A i \in 1 .. Len(pk2) : (i \in 1 .. Len(pk) /\ pk2[i] = pk[i]) \/ pk2[i].place = p
      /\ ph2 \in {"recv", "parse"}
      /\ ph2 = "parse" => ~esc /\ ~esc2 /\ d.b = END /\ pk2 = pk /\ pk # << >>
      /\ ph2 = "recv" => ~(~esc /\ d.b = END /\ pk # << >>)
  BY <1>1, <1>2, ReadsGrows
<1>5. k \notin D =>
        /\ p.pos \notin 1 .. L =>
             /\ esc2 = FALSE
             /\ ~esc => er2 = TRUE /\ pk2 = pk
        /\ p.pos \in 1 .. L /\ (esc <=> p.part = 2) /\ p.part # n =>
             esc2 = TRUE /\ pk2 = pk /\ er2 = er /\ ph2 = "recv"
        /\ p.pos \in 1 .. L /\ (esc <=> p.part = 2) /\ p.part = n =>
             /\ esc2 = FALSE /\ er2 = er /\ ph2 = "recv"
             /\ \E e \in Data : /\ e.place = p /\ e.b = FrameOf(s, k)[p.pos]
                                /\ pk2 = StoreIn(er, pk, e)
  <2>1. SUFFICES ASSUME k \notin D
                 PROVE
        /\ p.pos \notin 1 .. L =>
             /\ esc2 = FALSE
             /\ ~esc => er2 = TRUE /\ pk2 = pk
        /\ p.pos \in 1 .. L /\ (esc <=> p.part = 2) /\ p.part # n =>
             esc2 = TRUE /\ pk2 = pk /\ er2 = er /\ ph2 = "recv"
        /\ p.pos \in 1 .. L /\ (esc <=> p.part = 2) /\ p.part = n =>
             /\ esc2 = FALSE /\ er2 = er /\ ph2 = "recv"
             /\ \E e \in Data : /\ e.place = p /\ e.b = FrameOf(s, k)[p.pos]
                                /\ pk2 = StoreIn(er, pk, e)
    BY Zenon
  <2>2. d.b = CharOf(s, p)
    BY <2>1
  <2>3. ReadAs(s, p, er, esc, pk, ph2, er2, esc2, pk2)
    BY <2>2, ReadsTrue
  <2>4. QED
    BY <2>3, Zenon DEF ReadAs
<1>6. q.frame \notin D /\ q.pos > 0 =>
        /\ k = q.frame
        /\ \/ /\ q.pos = p.pos /\ p.part = 1 /\ q.part = 2
              /\ p.pos \in 1 .. L /\ n = 2
           \/ /\ q.pos = p.pos + 1 /\ q.part = 1
              /\ p.pos \in 0 .. L /\ p.part = n
  <2>1. SUFFICES ASSUME q.frame \notin D, q.pos > 0
                 PROVE
        /\ k = q.frame
        /\ \/ /\ q.pos = p.pos /\ p.part = 1 /\ q.part = 2
              /\ p.pos \in 1 .. L /\ n = 2
           \/ /\ q.pos = p.pos + 1 /\ q.part = 1
              /\ p.pos \in 0 .. L /\ p.part = n
    BY Zenon
  <2>2. QED
    BY <2>1, NextIn
<1>7. k \notin D /\ k < q.frame => p.pos = L + 1 /\ p.part = 1 /\ p.pos > 0
  BY FrameDone, Zenon
<1>8. q.frame - 1 \notin D /\ q.pos = 0 => k \notin D /\ k < q.frame
  BY NextFirst
<1>9. \A i \in 1 .. Len(pk2) : Valid(s, pk2[i].place) /\ Before(pk2[i].place, q)
  <2>1. SUFFICES ASSUME NEW i \in 1 .. Len(pk2)
                 PROVE  Valid(s, pk2[i].place) /\ Before(pk2[i].place, q)
    OBVIOUS
  <2>2. CASE pk2[i].place = p
    BY <2>2
  <2>3. CASE i \in 1 .. Len(pk) /\ pk2[i] = pk[i]
    <3>1. Valid(s, pk[i].place) /\ Before(pk[i].place, p)
      BY <1>1, <2>3
    <3>2. pk[i].place \in Place
      BY <3>1 DEF Valid
    <3>3. QED
      BY <1>2, <2>3, <3>1, <3>2, BeforeOrder
  <2>4. QED
    BY <1>4, <2>2, <2>3
<1> HIDE DEF k, L, n, f
<1>10. ASSUME q.frame \notin D, q.pos > 0
       PROVE  esc2 <=> q.part = 2
  <2>1. k \notin D
    BY <1>6, <1>10
  <2>2. CASE q.pos = p.pos /\ p.part = 1 /\ q.part = 2 /\ p.pos \in 1 .. L /\ n = 2
    <3>1. p.pos > 0 /\ p.part # n
      BY <1>2, <2>2
    <3>2. esc <=> p.part = 2
      BY <1>1, <2>1, <3>1
    <3>3. esc2 = TRUE
      BY <1>5, <2>1, <2>2, <3>1, <3>2, Zenon
    <3>4. QED
      BY <2>2, <3>3
  <2>3. CASE q.pos = p.pos + 1 /\ q.part = 1 /\ p.pos \in 0 .. L /\ p.part = n
    <3>1. esc2 = FALSE
      <4>1. CASE p.pos \in 1 .. L
        <5>1. p.pos > 0
          BY <4>1, <1>2, <1>3
        <5>2. esc <=> p.part = 2
          BY <1>1, <2>1, <5>1
        <5>3. QED
          BY <1>5, <2>1, <2>3, <4>1, <5>2, Zenon
      <4>2. CASE p.pos \notin 1 .. L
        BY <1>5, <2>1, <4>2, Zenon
      <4>3. QED
        BY <4>1, <4>2
    <3>2. QED
      BY <2>3, <3>1
  <2>4. QED
    BY <1>6, <1>10, <2>2, <2>3
<1>11. ASSUME q.frame - 1 \notin D, q.pos = 0
       PROVE  ph2 = "parse" \/ (pk2 = << >> /\ ~esc2)
  <2>1. k \notin D /\ p.pos = L + 1 /\ p.part = 1 /\ p.pos > 0
    BY <1>7, <1>8, <1>11
  <2>2. ~esc /\ p.pos \notin 1 .. L
    BY <1>1, <1>3, <2>1
  <2>3. esc2 = FALSE /\ pk2 = pk /\ d.b = END
    BY <1>3, <1>5, <2>1, <2>2, Zenon DEF k
  <2>4. ph2 = "parse" \/ pk = << >>
    BY <1>4, <2>2, <2>3
  <2>5. QED
    BY <2>3, <2>4
<1>12. ASSUME WholeIn(D, q.frame), q.pos > 0
       PROVE  ph2 = "recv" /\ er2 /\ Stored(s, q.frame, q.pos - 1, pk2)
  <2>0. q.frame \notin D
    BY <1>12 DEF WholeIn
  <2>1. k \notin D /\ k - 1 \notin D /\ k = q.frame /\ WholeIn(D, k)
    BY <1>6, <1>12, <2>0 DEF WholeIn
  <2>2. CASE q.pos = p.pos /\ p.part = 1 /\ q.part = 2 /\ p.pos \in 1 .. L /\ n = 2
    <3>1. p.pos > 0 /\ p.part # n
      BY <1>2, <2>2
    <3>2. esc <=> p.part = 2
      BY <1>1, <2>1, <3>1
    <3>3. pk2 = pk /\ er2 = er /\ ph2 = "recv"
      BY <1>5, <2>1, <2>2, <3>1, <3>2, Zenon
    <3>4. er /\ Stored(s, k, p.pos - 1, pk)
      BY <1>1, <2>1, <3>1
    <3>5. QED
      BY <2>1, <2>2, <3>3, <3>4
  <2>3. CASE q.pos = p.pos + 1 /\ q.part = 1 /\ p.pos \in 0 .. L /\ p.part = n
    <3>1. q.pos - 1 = p.pos
      BY <1>2, <2>3
    <3>2. CASE p.pos \in 1 .. L
      <4>1. p.pos > 0 /\ p.pos \in Nat \ {0}
        BY <1>2, <3>2, <1>3
      <4>2. esc <=> p.part = 2
        BY <1>1, <2>1, <4>1
      <4>3. er2 = er /\ ph2 = "recv"
            /\ \E e \in Data : e.place = p /\ e.b = FrameOf(s, k)[p.pos] /\ pk2 = StoreIn(er, pk, e)
        BY <1>5, <2>1, <2>3, <3>2, <4>2, Zenon
      <4>4. PICK e \in Data : e.place = p /\ e.b = FrameOf(s, k)[p.pos] /\ pk2 = StoreIn(er, pk, e)
        BY <4>3, Zenon
      <4>5. er /\ Stored(s, k, p.pos - 1, pk)
        BY <1>1, <2>1, <4>1
      <4>6. e.place.frame = k
        BY <4>4 DEF k
      <4>7. Stored(s, k, p.pos, StoreIn(er, pk, e))
        BY <1>1, <4>1, <4>4, <4>5, <4>6, StoreNext
      <4>8. QED
        BY <2>1, <3>1, <4>3, <4>4, <4>5, <4>7
    <3>3. CASE p.pos \notin 1 .. L
      <4>1. p.pos = 0
        BY <1>2, <1>3, <2>3, <3>3
      <4>2. pk = << >> /\ ~esc
        BY <1>1, <2>1, <4>1
      <4>3. er2 = TRUE /\ pk2 = << >>
        BY <1>5, <2>1, <3>3, <4>2, Zenon
      <4>4. ph2 = "recv"
        BY <1>4, <4>2
      <4>5. Stored(s, k, 0, << >>)
        <5>1. Len(<< >>) = IF 0 < MaxLen THEN 0 ELSE MaxLen
          BY SizeAssumption
        <5>2. 1 .. Len(<< >>) = {}
          OBVIOUS
        <5>3. QED
          BY <5>1, <5>2 DEF Stored
      <4>6. q.pos - 1 = 0
        BY <3>1, <4>1
      <4>7. QED
        BY <2>1, <4>3, <4>4, <4>5, <4>6
    <3>4. QED
      BY <3>2, <3>3
  <2>4. QED
    BY <1>6, <1>12, <2>0, <2>2, <2>3
<1>13. ASSUME ph2 = "recv", NEW i \in 1 .. Len(pk2)
       PROVE  pk2[i].place.frame = q.frame \/ ~WholeIn(D, pk2[i].place.frame)
  <2>1. SUFFICES ASSUME WholeIn(D, k), k # q.frame, pk2[i].place.frame = k
                 PROVE  FALSE
    BY <1>1, <1>4 DEF k
  <2>2. k < q.frame /\ k \notin D
    BY <1>2, <2>1 DEF Before, WholeIn, k
  <2>3. p.pos = L + 1 /\ p.part = 1 /\ p.pos > 0
    BY <1>7, <2>2
  <2>4. ~esc /\ p.pos \notin 1 .. L
    BY <1>1, <1>3, <2>2, <2>3
  <2>5. d.b = END
    BY <1>3, <2>2, <2>4 DEF k
  <2>6. Stored(s, k, L, pk)
    <3>1. p.pos - 1 = L
      BY <1>3, <2>3
    <3>2. QED
      BY <1>1, <2>1, <2>3, <3>1
  <2>7. pk # << >>
    <3>1. L >= 1
      BY <1>2, FrameIs DEF L
    <3>2. Len(pk) # 0
      BY <1>3, <2>6, <3>1, SizeAssumption DEF Stored
    <3>3. QED
      BY <3>2
  <2>8. QED
    BY <1>4, <1>13, <2>4, <2>5, <2>7
<1>14. ASSUME ph2 = "parse", WholeIn(D, f)
       PROVE  Stored(s, f, Len(FrameOf(s, f)), pk2)
  <2>1. ~esc /\ d.b = END /\ pk2 = pk /\ pk # << >>
    BY <1>4, <1>14
  <2>2. Len(pk) \in Nat \ {0}
    BY <1>1, <2>1, EmptySeq
  <2>3. Len(pk) \in 1 .. Len(pk)
    BY <2>2
  <2>4. f = pk[Len(pk)].place.frame
    BY <2>1 DEF f
  <2>5. f = k
    BY <1>1, <1>14, <2>3, <2>4
  <2>6. p.pos > 0
    <3> DEFINE r == pk[Len(pk)].place
    <3>1. Valid(s, r) /\ Before(r, p) /\ r.frame = k
      BY <1>1, <2>3, <2>4, <2>5
    <3> HIDE DEF r
    <3>2. r.pos \in Nat /\ r.part \in Nat /\ r.part >= 1
      BY <3>1 DEF Valid, Place
    <3>3. ASSUME p.pos = 0
          PROVE  FALSE
      <4>1. p.part = 1
        BY <1>3, <3>3
      <4>2. QED
        BY <1>2, <3>1, <3>2, <3>3, <4>1 DEF Before, k
    <3>4. QED
      BY <1>2, <3>3
  <2>7. k \notin D /\ WholeIn(D, k)
    BY <1>14, <2>5 DEF WholeIn
  <2>8. CharOf(s, p) = END
    BY <2>1, <2>7 DEF k
  <2>9. p.pos - 1 = L
    BY <1>3, <2>6, <2>8
  <2>10. Stored(s, k, L, pk)
    BY <1>1, <2>6, <2>7, <2>9
  <2>11. QED
    BY <2>1, <2>5, <2>10 DEF L
<1>15. /\ ph2 \notin {"recv", "parse"} => pk2 = << >> /\ ~er2 /\ ~esc2
       /\ ph2 = "parse" => pk2 # << >> /\ ~esc2
  BY <1>4
<1>16. QED
  BY <1>4, <1>9, <1>10, <1>11, <1>12, <1>13, <1>14, <1>15, Zenon DEF Reader, f

LEMMA CharType ==
  ASSUME NEW s \in Scripts, NEW p, Valid(s, p)
  PROVE  CharOf(s, p) \in Byte
<1> DEFINE f == FrameOf(s, p.frame)
           C == CharsOf(s, p)
<1>1. p.frame \in 1 .. MaxSends /\ p.part \in 1 .. Len(C)
  BY Zenon DEF Valid
<1>2. f \in Seq(Byte)
  BY <1>1, FrameIs
<1>3. DOMAIN f = 1 .. Len(f)
  BY <1>2, LenProperties
<1>4. C = IF p.pos \in DOMAIN f THEN put_slip_char(f[p.pos]) ELSE <<END>>
  BY DEF CharsOf, send_packet
<1> HIDE DEF f
<1>5. p.pos \in DOMAIN f => f[p.pos] \in Byte
  BY <1>2, <1>3, ElementOfSeq
<1>6. \A x \in Byte : put_slip_char(x) \in Seq(Byte)
  <2>1. END \in Byte /\ ESC \in Byte /\ ESC_END \in Byte /\ ESC_ESC \in Byte
    BY DEF END, ESC, ESC_END, ESC_ESC, Byte
  <2>2. QED
    BY <2>1 DEF put_slip_char
<1>7. <<END>> \in Seq(Byte)
  BY DEF END, Byte
<1>8. C \in Seq(Byte)
  BY <1>4, <1>5, <1>6, <1>7
<1>9. C[p.part] \in Byte
  BY <1>1, <1>8, ElementOfSeq
<1>10. QED
  BY <1>9 DEF CharOf

BytesOf(pk) == [i \in DOMAIN pk |-> pk[i].b]

LEMMA BytesAre ==
  ASSUME NEW pk \in Seq(Data)
  PROVE  /\ BytesOf(pk) \in Seq(Byte) /\ Len(BytesOf(pk)) = Len(pk) /\ Len(pk) \in Nat
         /\ \A i \in 1 .. Len(pk) : BytesOf(pk)[i] = pk[i].b
<1>1. Len(pk) \in Nat /\ DOMAIN pk = 1 .. Len(pk)
  BY LenProperties
<1>2. \A i \in 1 .. Len(pk) : pk[i].b \in Byte
  <2>1. \A i \in 1 .. Len(pk) : pk[i] \in Data
    BY ElementOfSeq
  <2>2. \A d \in Data : d.b \in Byte
    BY DEF Data
  <2>3. QED
    BY <2>1, <2>2
<1>3. PICK n \in Nat : n = Len(pk)
  BY <1>1
<1>4. BytesOf(pk) = [i \in 1 .. n |-> pk[i].b]
  BY <1>1, <1>3 DEF BytesOf
<1>5. [i \in 1 .. n |-> pk[i].b] \in Seq(Byte) /\ Len([i \in 1 .. n |-> pk[i].b]) = n
  BY <1>2, <1>3
<1>6. QED
  BY <1>1, <1>3, <1>4, <1>5

(* A packet that was read whole is the message that was sent, or is refused  *)
(* because the buffer did not hold it.                                       *)
LEMMA ParsedWhole ==
  ASSUME NEW s \in Scripts, NEW f \in 1 .. MaxSends, NEW pk \in Seq(Data), pk # << >>,
         Stored(s, f, Len(FrameOf(s, f)), pk)
  PROVE  LET m == bytes_to_message(BytesOf(pk)) IN
         /\ m.ok <=> Len(message_to_bytes(s[f])) <= MaxLen
         /\ m.ok => [id |-> m.id, params |-> m.params] = s[f]
<1> DEFINE c == BytesOf(pk)
           m == bytes_to_message(c)
           L == Len(FrameOf(s, f))
<1>1. /\ IsMessage(s[f]) /\ s[f] = [id |-> s[f].id, params |-> s[f].params]
      /\ FrameOf(s, f) = message_to_bytes(s[f]) /\ L \in Nat
  BY FrameIs
<1>2. /\ c \in Seq(Byte) /\ Len(c) = Len(pk) /\ Len(pk) \in Nat
      /\ \A i \in 1 .. Len(pk) : c[i] = pk[i].b
  BY BytesAre
<1>3. /\ Len(pk) = IF L < MaxLen THEN L ELSE MaxLen
      /\ \A i \in 1 .. Len(pk) : pk[i].b = FrameOf(s, f)[i]
  BY DEF Stored
<1>4. c # << >>
  <2>1. Len(pk) # 0
    BY EmptySeq
  <2>2. QED
    BY <1>2, <2>1
<1>5. MaxLen \in Nat
  BY SizeAssumption
<1> HIDE DEF c, L
<1>6. Len(c) <= L /\ (Len(c) = L <=> L <= MaxLen) /\ (Len(c) < L <=> ~(L <= MaxLen))
  BY <1>1, <1>2, <1>3, <1>5
<1>7. L = Len(message_to_bytes(s[f]))
  BY <1>1 DEF L
<1>8. \A i \in 1 .. Len(c) : c[i] = message_to_bytes(s[f])[i]
  BY <1>1, <1>2, <1>3
<1>9. Len(c) <= Len(message_to_bytes(s[f]))
  BY <1>6, <1>7
<1>10. /\ Len(c) = Len(message_to_bytes(s[f])) =>
            m.ok /\ m.id = s[f].id /\ m.params = s[f].params
       /\ Len(c) < Len(message_to_bytes(s[f])) => ~m.ok
  BY <1>1, <1>2, <1>4, <1>8, <1>9, ParsedIs
<1> HIDE DEF m
<1>11. m.ok <=> L <= MaxLen
  BY <1>6, <1>7, <1>10, Zenon
<1>12. m.ok => [id |-> m.id, params |-> m.params] = s[f]
  BY <1>1, <1>6, <1>7, <1>10, <1>11, Zenon
<1>13. QED
  BY <1>7, <1>11, <1>12 DEF m, c

-----------------------------------------------------------------------------
(* The invariant. *)

Due == PlaceAt(fifo, at, 1)

LineInv == Line(sent, at, fifo, damaged)

ReaderInv == Reader(sent, Due, damaged, phase, end_rcvd, escaped, packet)

Under == phase \in {"handle", "destroy"}

(* The message under way, and the memory it holds.                           *)
MsgInv ==
  /\ Under => msg.of \in 1 .. MaxSends /\ (Whole(msg.of) => IsSent(msg) /\ Fits(sent[msg.of]))
  /\ Under => heap >= Len(msg.params)
  /\ damaged = {} /\ (\A k \in 1 .. MaxSends : Fits(sent[k])) =>
       heap = IF Under THEN Len(msg.params) ELSE 0
  /\ damaged = {} => phase # "wild"

Inv == TypeOK /\ LineInv /\ ReaderInv /\ MsgInv /\ TakenAsSent

(* The model's places are those above, of the messages sent.                 *)
LEMMA PlacesAre ==
  ASSUME NEW p
  PROVE  Chars(p) = CharsOf(sent, p) /\ After(p) = AfterOf(sent, p)
         /\ Chars(p)[p.part] = CharOf(sent, p)
  BY DEF Chars, CharsOf, Frame, FrameOf, After, AfterOf, CharOf

LEMMA Typing ==
  ASSUME TypeOK
  PROVE  /\ sent \in Scripts /\ at \in Place /\ fifo \in Seq(Data) /\ packet \in Seq(Data)
         /\ Len(fifo) \in Nat /\ Len(packet) \in Nat
         /\ end_rcvd \in BOOLEAN /\ escaped \in BOOLEAN
         /\ msg.of \in 0 .. MaxSends /\ msg.id \in Byte /\ msg.params \in Seq(Seq(Byte))
         /\ Len(msg.params) \in Nat /\ heap \in Nat /\ faults \in 0 .. MaxFaults
         /\ damaged \subseteq 1 .. MaxSends /\ MaxSends \in Nat /\ MaxFaults \in Nat
<1>1. msg.of \in 0 .. MaxSends /\ msg.id \in Byte /\ msg.params \in Seq(Seq(Byte))
  BY DEF TypeOK, Message
<1>2. Len(msg.params) \in Nat
  BY <1>1, LenProperties
<1>3. fifo \in Seq(Data) /\ packet \in Seq(Data)
  BY DEF TypeOK
<1>4. Len(fifo) \in Nat /\ Len(packet) \in Nat
  BY <1>3, LenProperties
<1>5. QED
  BY <1>1, <1>2, <1>3, <1>4, SizeAssumption DEF TypeOK

LEMMA InitInv ==
  ASSUME Init
  PROVE  Inv
<1>1. /\ sent \in Scripts /\ at = First(1) /\ fifo = << >> /\ packet = << >>
      /\ end_rcvd = FALSE /\ escaped = FALSE /\ phase = "choose" /\ msg = NoMsg
      /\ handled = << >> /\ installed = << >> /\ heap = 0 /\ damaged = {} /\ faults = 0
  BY DEF Init
<1>2. MaxSends \in Nat /\ MaxLen \in Nat \ {0} /\ FifoLen \in Nat \ {0} /\ MaxFaults \in Nat
  BY SizeAssumption
<1>3. at \in Place /\ at.frame = 1 /\ at.pos = 0 /\ at.part = 1
  BY <1>1, <1>2, StartIs DEF First
<1>4. Valid(sent, at) \/ at = First(MaxSends + 1)
  <2>1. CASE MaxSends = 0
    BY <1>1, <2>1
  <2>2. CASE MaxSends # 0
    <3>1. at.frame \in 1 .. MaxSends
      BY <1>2, <1>3, <2>2
    <3>2. Len(FrameOf(sent, at.frame)) \in Nat
      BY <1>1, <3>1, FrameIs
    <3>3. at.pos \in 0 .. Len(FrameOf(sent, at.frame)) + 1 /\ at.pos \notin 1 .. Len(FrameOf(sent, at.frame))
      BY <1>3, <3>2
    <3>4. Len(CharsOf(sent, at)) = 1
      BY <1>1, <3>1, <3>3, CharsAre, Zenon
    <3>5. at.part \in 1 .. Len(CharsOf(sent, at))
      BY <1>3, <3>4
    <3>6. QED
      BY <1>3, <3>1, <3>3, <3>5, Zenon DEF Valid
  <2>3. QED
    BY <2>1, <2>2
<1>5. LineInv
  BY <1>1, <1>3, <1>4, LineEmpty DEF LineInv
<1>6. Due = at
  <2>1. ~(1 <= Len(<< >>))
    OBVIOUS
  <2>2. QED
    BY <1>1, <2>1 DEF Due, PlaceAt
<1>7. ReaderInv
  <2>1. at.pos > 0 => at.frame \in damaged
    BY <1>3
  <2>2. Reader(sent, at, damaged, "choose", FALSE, FALSE, << >>)
    BY <1>3, <2>1, ReaderEmpty
  <2>3. QED
    BY <1>1, <1>6, <2>2 DEF ReaderInv
<1>8. TypeOK
  <2>1. msg \in Message
    BY <1>1, <1>2 DEF NoMsg, Message, Byte
  <2>2. /\ fifo \in Seq(Data) /\ packet \in Seq(Data) /\ installed \in Seq(Seq(Byte))
        /\ handled \in Seq({m \in Message : m.of > 0})
    BY <1>1, EmptySeq
  <2>3. Len(fifo) <= FifoLen /\ Len(packet) <= MaxLen /\ Len(installed) <= 1
    BY <1>1, <1>2
  <2>4. /\ end_rcvd \in BOOLEAN /\ escaped \in BOOLEAN /\ heap \in Nat
        /\ damaged \subseteq 1 .. MaxSends /\ faults \in 0 .. MaxFaults
        /\ phase \in {"choose", "recv", "parse", "handle", "destroy", "alone", "halted", "wild"}
    <3>1. end_rcvd \in BOOLEAN /\ escaped \in BOOLEAN /\ damaged \subseteq 1 .. MaxSends
      BY <1>1
    <3>2. heap \in Nat /\ faults \in 0 .. MaxFaults
      BY <1>1, <1>2
    <3>3. phase \in {"choose", "recv", "parse", "handle", "destroy", "alone", "halted", "wild"}
      BY <1>1, Zenon
    <3>4. QED
      BY <3>1, <3>2, <3>3
  <2>5. QED
    BY <1>1, <1>3, <2>1, <2>2, <2>3, <2>4, Zenon DEF TypeOK
<1>9. MsgInv
  BY <1>1 DEF MsgInv, Under
<1>10. TakenAsSent
  BY <1>1 DEF TakenAsSent
<1>11. QED
  BY <1>5, <1>7, <1>8, <1>9, <1>10 DEF Inv

(* More damage changes nothing for the message under way and those handled.  *)
LEMMA MoreDamage ==
  ASSUME MsgInv, TakenAsSent, damaged \subseteq damaged',
         UNCHANGED <<sent, phase, msg, heap, handled>>
  PROVE  MsgInv' /\ TakenAsSent'
<1>1. \A k : Whole(k)' => Whole(k)
  BY DEF Whole
<1>2. \A h : IsSent(h)' <=> IsSent(h)
  BY DEF IsSent
<1>3. \A m : Fits(m)' <=> Fits(m)
  BY DEF Fits
<1>4. TakenAsSent'
  <2>1. \A i \in DOMAIN handled :
          Whole(handled[i].of)' => IsSent(handled[i]) /\ Fits(sent[handled[i].of])
    BY <1>1 DEF TakenAsSent
  <2>2. QED
    BY <2>1 DEF TakenAsSent, Whole, IsSent, Fits
<1>5. MsgInv'
  <2>1. Under' <=> Under
    BY DEF Under
  <2>2. damaged' = {} => damaged = {}
    OBVIOUS
  <2>3. (Under' => msg'.of \in 1 .. MaxSends
                   /\ (Whole(msg.of)' => IsSent(msg) /\ Fits(sent[msg.of])))
        /\ (Under' => heap' >= Len(msg'.params))
        /\ (damaged' = {} /\ (\A k \in 1 .. MaxSends : Fits(sent[k])) =>
              heap' = IF Under' THEN Len(msg'.params) ELSE 0)
        /\ (damaged' = {} => phase' # "wild")
    BY <1>1, <2>1, <2>2 DEF MsgInv
  <2>4. QED
    BY <2>3 DEF MsgInv, Whole, IsSent, Fits
<1>6. QED
  BY <1>4, <1>5

LEMMA HostSendsInv ==
  ASSUME Inv, HostSends
  PROVE  Inv' /\ damaged \subseteq damaged'
<1> DEFINE d(b) == [b |-> b, place |-> at]
<1>1. TypeOK /\ LineInv /\ ReaderInv /\ MsgInv /\ TakenAsSent
  BY DEF Inv
<1>2. /\ sent \in Scripts /\ at \in Place /\ fifo \in Seq(Data) /\ Len(fifo) \in Nat
      /\ faults \in 0 .. MaxFaults /\ damaged \subseteq 1 .. MaxSends /\ MaxFaults \in Nat
      /\ MaxSends \in Nat
  BY <1>1, Typing
<1>3. /\ at.frame <= MaxSends /\ at' = AfterOf(sent, at)
      /\ UNCHANGED <<sent, end_rcvd, escaped, packet, phase, msg, heap, handled, installed>>
  BY PlacesAre DEF HostSends, card
<1>4. Valid(sent, at)
  <2>1. Valid(sent, at) \/ at = First(MaxSends + 1)
    BY <1>1 DEF LineInv, Line
  <2>2. First(MaxSends + 1).frame = MaxSends + 1
    BY DEF First, Start
  <2>3. QED
    BY <1>2, <1>3, <2>1, <2>2
<1>5. at.frame \in 1 .. MaxSends
  BY <1>4 DEF Valid
<1>6. CharOf(sent, at) \in Byte /\ END \in Byte /\ ESC \in Byte /\ 1 \in Byte
  <2>1. CharOf(sent, at) \in Byte
    BY <1>2, <1>4, CharType
  <2>2. END \in Byte /\ ESC \in Byte /\ 1 \in Byte
    BY DEF END, ESC, Byte
  <2>3. QED
    BY <2>1, <2>2
<1>7. /\ damaged \subseteq damaged' /\ damaged' \subseteq 1 .. MaxSends /\ faults' \in 0 .. MaxFaults
      /\ \/ /\ fifo' = fifo /\ at.frame \in damaged'
         \/ \E b \in Byte : /\ fifo' = Append(fifo, d(b)) /\ Len(fifo) < FifoLen
                            /\ at.frame \notin damaged' => b = CharOf(sent, at)
  <2>1. CASE /\ Arrives(CharOf(sent, at))
             /\ damaged' = IF Len(fifo) < FifoLen THEN damaged ELSE damaged \cup {at.frame}
             /\ UNCHANGED faults
    <3>1. damaged \subseteq damaged' /\ damaged' \subseteq 1 .. MaxSends /\ faults' \in 0 .. MaxFaults
      BY <1>2, <1>5, <2>1
    <3>2. CASE Len(fifo) < FifoLen
      <4>1. fifo' = Append(fifo, d(CharOf(sent, at)))
        BY <2>1, <3>2 DEF Arrives
      <4>2. QED
        BY <1>6, <3>1, <3>2, <4>1
    <3>3. CASE ~(Len(fifo) < FifoLen)
      <4>1. fifo' = fifo /\ at.frame \in damaged'
        BY <2>1, <3>3 DEF Arrives
      <4>2. QED
        BY <3>1, <4>1
    <3>4. QED
      BY <3>2, <3>3
  <2>2. CASE /\ faults < MaxFaults /\ faults' = faults + 1
             /\ UNCHANGED fifo \/ \E b \in {1, END, ESC} : Arrives(b)
             /\ damaged' = damaged \cup {at.frame}
    <3>1. /\ damaged \subseteq damaged' /\ damaged' \subseteq 1 .. MaxSends
          /\ faults' \in 0 .. MaxFaults /\ at.frame \in damaged'
      <4>1. /\ damaged \subseteq damaged' /\ damaged' \subseteq 1 .. MaxSends
            /\ at.frame \in damaged'
        BY <1>2, <1>5, <2>2
      <4>2. faults' \in 0 .. MaxFaults
        BY <1>2, <2>2
      <4>3. QED
        BY <4>1, <4>2
    <3>2. CASE UNCHANGED fifo
      BY <3>1, <3>2
    <3>3. ASSUME NEW b \in {1, END, ESC}, Arrives(b)
          PROVE  fifo' = fifo \/ (b \in Byte /\ fifo' = Append(fifo, d(b)) /\ Len(fifo) < FifoLen)
      BY <1>6, <3>3 DEF Arrives
    <3>4. QED
      BY <2>2, <3>1, <3>2, <3>3
  <2>3. QED
    BY <2>1, <2>2, PlacesAre, Zenon DEF HostSends
<1> HIDE DEF d
<1>8. PICK q, e : q = fifo' /\ e = damaged'
  OBVIOUS
<1>9. Line(sent, at, fifo, damaged)
  BY <1>1 DEF LineInv
<1>10. Line(sent, AfterOf(sent, at), q, e) /\ q \in Seq(Data)
  <2>1. CASE fifo' = fifo /\ at.frame \in damaged'
    BY <1>2, <1>4, <1>7, <1>8, <1>9, <2>1, LineLost
  <2>2. ASSUME NEW b \in Byte, fifo' = Append(fifo, d(b)), at.frame \notin damaged' => b = CharOf(sent, at)
        PROVE  Line(sent, AfterOf(sent, at), q, e)
    <3>1. Line(sent, AfterOf(sent, at), Append(fifo, [b |-> b, place |-> at]), e)
      BY <1>2, <1>4, <1>7, <1>8, <1>9, <2>2, LineArrives
    <3>2. QED
      BY <1>8, <2>2, <3>1 DEF d
  <2>3. Line(sent, AfterOf(sent, at), q, e)
    BY <1>7, <2>1, <2>2
  <2>4. QED
    BY <2>3 DEF Line
<1>11. LineInv'
  BY <1>3, <1>8, <1>10 DEF LineInv
<1>12. TypeOK'
  <2>1. at' \in Place
    BY <1>2, <1>3, <1>4, AfterIsBefore
  <2>2. fifo' \in Seq(Data) /\ Len(fifo') <= FifoLen
    <3>1. CASE fifo' = fifo
      BY <1>1, <3>1 DEF TypeOK
    <3>2. ASSUME NEW b \in Byte, fifo' = Append(fifo, d(b)), Len(fifo) < FifoLen
          PROVE  Len(fifo') <= FifoLen
      <4>1. d(b) \in Data
        BY <1>2 DEF d, Data
      <4>2. Len(fifo') = Len(fifo) + 1
        BY <1>2, <3>2, <4>1, Appended
      <4>3. QED
        BY <1>2, <3>2, <4>2, SizeAssumption
    <3>3. QED
      BY <1>7, <1>8, <1>10, <3>1, <3>2
  <2>3. QED
    BY <1>1, <1>3, <1>7, <2>1, <2>2 DEF TypeOK
<1>13. ReaderInv'
  <2>1. Reader(sent, Due, damaged, phase, end_rcvd, escaped, packet)
    BY <1>1 DEF ReaderInv
  <2>2. CASE fifo # << >>
    <3>1. Len(fifo) \in Nat \ {0}
      BY <1>2, <2>2, EmptySeq
    <3>2. Len(fifo') \in Nat /\ 1 <= Len(fifo') /\ fifo'[1] = fifo[1]
      <4>1. CASE fifo' = fifo
        BY <3>1, <4>1
      <4>2. ASSUME NEW b \in Byte, fifo' = Append(fifo, d(b))
            PROVE  Len(fifo') \in Nat /\ 1 <= Len(fifo') /\ fifo'[1] = fifo[1]
        <5>1. d(b) \in Data
          BY <1>2 DEF d, Data
        <5>2. Len(fifo') = Len(fifo) + 1 /\ \A i \in 1 .. Len(fifo) : fifo'[i] = fifo[i]
          BY <1>2, <4>2, <5>1, Appended
        <5>3. QED
          BY <3>1, <5>2
      <4>3. QED
        BY <1>7, <4>1, <4>2
    <3>3. Due' = Due
      BY <3>1, <3>2 DEF Due, PlaceAt
    <3>4. Reader(sent, Due, e, phase, end_rcvd, escaped, packet)
      BY <1>7, <1>8, <2>1, ReaderMore
    <3>5. QED
      BY <1>3, <1>8, <3>3, <3>4 DEF ReaderInv
  <2>3. CASE fifo = << >>
    <3>1. Due = at
      <4>1. ~(1 <= Len(<< >>))
        OBVIOUS
      <4>2. QED
        BY <2>3, <4>1 DEF Due, PlaceAt
    <3>2. CASE fifo' = fifo /\ at.frame \in damaged'
      <4>1. Due' = AfterOf(sent, at)
        <5>1. ~(1 <= Len(<< >>))
          OBVIOUS
        <5>2. QED
          BY <1>3, <2>3, <3>2, <5>1 DEF Due, PlaceAt
      <4>2. Reader(sent, AfterOf(sent, at), e, phase, end_rcvd, escaped, packet)
        BY <1>2, <1>4, <1>7, <1>8, <2>1, <3>1, <3>2, ReaderLost
      <4>3. QED
        BY <1>3, <1>8, <4>1, <4>2 DEF ReaderInv
    <3>3. ASSUME NEW b \in Byte, fifo' = Append(fifo, d(b))
          PROVE  ReaderInv'
      <4>1. d(b) \in Data /\ d(b).place = at
        BY <1>2 DEF d, Data
      <4>2. Len(fifo') = Len(fifo) + 1 /\ fifo'[Len(fifo) + 1] = d(b)
        BY <1>2, <3>3, <4>1, Appended
      <4>3. Len(fifo') = 1 /\ fifo'[1] = d(b)
        <5>1. Len(fifo) = 0
          BY <2>3
        <5>2. QED
          BY <4>2, <5>1
      <4>4. Due' = at
        BY <4>1, <4>3 DEF Due, PlaceAt
      <4>5. Reader(sent, at, e, phase, end_rcvd, escaped, packet)
        BY <1>7, <1>8, <2>1, <3>1, ReaderMore
      <4>6. QED
        BY <1>3, <1>8, <4>4, <4>5 DEF ReaderInv
    <3>4. QED
      BY <1>7, <3>2, <3>3
  <2>4. QED
    BY <2>2, <2>3
<1>14. MsgInv' /\ TakenAsSent'
  BY <1>1, <1>3, <1>7, MoreDamage
<1>15. QED
  BY <1>7, <1>11, <1>12, <1>13, <1>14 DEF Inv

(* A step of the camera that reads nothing.                                  *)
LEMMA Rests ==
  ASSUME Inv, UNCHANGED <<sent, at, fifo, damaged>>, phase # "recv", phase' # "parse",
         packet' = << >>, end_rcvd' = FALSE, escaped' = FALSE
  PROVE  LineInv' /\ ReaderInv'
<1>1. LineInv /\ ReaderInv
  BY DEF Inv
<1>2. LineInv'
  BY <1>1 DEF LineInv
<1>3. PICK p : p = Due
  OBVIOUS
<1>4. Due' = p
  BY <1>3 DEF Due, PlaceAt
<1>5. Reader(sent, p, damaged, phase, end_rcvd, escaped, packet)
  BY <1>1, <1>3 DEF ReaderInv
<1>6. PICK ph : ph = phase'
  OBVIOUS
<1>7. Reader(sent, p, damaged, ph, FALSE, FALSE, << >>)
  BY <1>5, <1>6, ReaderRests
<1>8. ReaderInv'
  BY <1>4, <1>6, <1>7 DEF ReaderInv
<1>9. QED
  BY <1>2, <1>8

LEMMA Idle ==
  ASSUME Inv, phase \notin {"recv", "parse"}
  PROVE  packet = << >> /\ end_rcvd = FALSE /\ escaped = FALSE
<1>1. ReaderInv /\ end_rcvd \in BOOLEAN /\ escaped \in BOOLEAN
  BY DEF Inv, TypeOK
<1>2. packet = << >> /\ ~end_rcvd /\ ~escaped
  BY <1>1, Zenon DEF ReaderInv, Reader
<1>3. QED
  BY <1>1, <1>2

LEMMA ModeInv ==
  ASSUME Inv, get_exec_mode \/ go_stand_alone
  PROVE  Inv'
<1>1. /\ phase \in {"choose", "alone"} /\ phase' \in {"recv", "halted", "alone"}
      /\ UNCHANGED <<fifo, end_rcvd, escaped, packet, msg, heap, faults>>
      /\ UNCHANGED <<sent, at, damaged, handled, installed>>
  BY DEF get_exec_mode, go_stand_alone, line, card
<1>2. TypeOK /\ MsgInv /\ TakenAsSent
  BY DEF Inv
<1>3. packet' = << >> /\ end_rcvd' = FALSE /\ escaped' = FALSE
  BY <1>1, Idle
<1>4. phase # "recv" /\ phase' # "parse" /\ phase' # "wild" /\ ~Under /\ ~Under'
  BY <1>1 DEF Under
<1>5. LineInv' /\ ReaderInv'
  BY <1>1, <1>3, <1>4, Rests
<1>6. TypeOK'
  BY <1>1, <1>2 DEF TypeOK
<1>7. MsgInv'
  BY <1>1, <1>2, <1>4 DEF MsgInv, Fits
<1>8. TakenAsSent'
  BY <1>1, <1>2 DEF TakenAsSent, Whole, IsSent, Fits
<1>9. QED
  BY <1>5, <1>6, <1>7, <1>8 DEF Inv

LEMMA DestroyInv ==
  ASSUME Inv, destroy_msg
  PROVE  Inv'
<1>1. /\ phase = "destroy" /\ phase' = "recv" /\ heap' = heap - Len(msg.params) /\ msg' = NoMsg
      /\ UNCHANGED <<fifo, end_rcvd, escaped, packet, faults, sent, at, damaged, handled, installed>>
  BY DEF destroy_msg, line, card
<1>2. TypeOK /\ MsgInv /\ TakenAsSent
  BY DEF Inv
<1>3. Len(msg.params) \in Nat /\ heap \in Nat /\ MaxSends \in Nat
  BY <1>2, Typing
<1>4. packet' = << >> /\ end_rcvd' = FALSE /\ escaped' = FALSE
  BY <1>1, Idle
<1>5. Under /\ ~Under'
  BY <1>1 DEF Under
<1>6. LineInv' /\ ReaderInv'
  BY <1>1, <1>4, Rests
<1>7. heap' \in Nat
  BY <1>1, <1>2, <1>3, <1>5 DEF MsgInv
<1>8. msg' \in Message
  BY <1>1, <1>3 DEF NoMsg, Message, Byte
<1>9. TypeOK'
  BY <1>1, <1>2, <1>7, <1>8 DEF TypeOK
<1>10. MsgInv'
  <2>1. damaged' = {} /\ (\A k \in 1 .. MaxSends : Fits(sent'[k])) => heap' = 0
    BY <1>1, <1>2, <1>3, <1>5 DEF MsgInv
  <2>2. QED
    BY <1>1, <1>5, <2>1 DEF MsgInv, Fits
<1>11. TakenAsSent'
  BY <1>1, <1>2 DEF TakenAsSent, Whole, IsSent, Fits
<1>12. QED
  BY <1>6, <1>9, <1>10, <1>11 DEF Inv

LEMMA HandleInv ==
  ASSUME Inv, handle_message
  PROVE  /\ Inv'
         /\ handled' = handled \/ (handled' = Append(handled, msg) /\ msg.of \in 1 .. MaxSends)
<1>1. /\ phase = "handle" /\ phase' \in {"destroy", "wild"}
      /\ UNCHANGED <<fifo, end_rcvd, escaped, packet, msg, heap, faults, sent, at, damaged>>
      /\ handled' \in {handled, Append(handled, msg)}
  <2>1. HandleProgram \/ HandlePoint \/ HandleOther
    BY DEF handle_message
  <2>2. phase' \in {"destroy", "wild"} /\ handled' \in {handled, Append(handled, msg)}
    BY <2>1 DEF HandleProgram, HandlePoint, HandleOther
  <2>3. QED
    BY <2>2 DEF handle_message, line
<1>2. TypeOK /\ MsgInv /\ TakenAsSent
  BY DEF Inv
<1>3. /\ sent \in Scripts /\ Len(msg.params) \in Nat /\ heap \in Nat /\ MaxSends \in Nat
      /\ msg.params \in Seq(Seq(Byte))
  BY <1>2, Typing
<1>4. packet' = << >> /\ end_rcvd' = FALSE /\ escaped' = FALSE
  BY <1>1, Idle
<1>5. Under
  BY <1>1 DEF Under
<1>6. LineInv' /\ ReaderInv'
  BY <1>1, <1>4, Rests
<1>7. msg.of \in 1 .. MaxSends /\ (Whole(msg.of) => IsSent(msg) /\ Fits(sent[msg.of]))
  BY <1>2, <1>5 DEF MsgInv
<1> DEFINE H == {m \in Message : m.of > 0}
<1>8. msg \in H /\ handled \in Seq(H)
  BY <1>2, <1>7 DEF TypeOK
<1> HIDE DEF H
<1>9. /\ Append(handled, msg) \in Seq(H) /\ Len(handled) \in Nat
      /\ Len(Append(handled, msg)) = Len(handled) + 1
      /\ \A i \in 1 .. Len(handled) : Append(handled, msg)[i] = handled[i]
      /\ Append(handled, msg)[Len(handled) + 1] = msg
  BY <1>8, Appended
<1>10. handled' \in Seq(H)
  BY <1>1, <1>8, <1>9
<1>11. installed' \in Seq(Seq(Byte)) /\ Len(installed') <= 1
  <2>1. CASE installed' = installed
    BY <1>2, <2>1 DEF TypeOK
  <2>2. CASE installed' = <<Program>> /\ msg.params # << >>
    <3>1. msg.params[1] \in Seq(Byte)
      <4>1. 1 \in 1 .. Len(msg.params)
        BY <1>3, <2>2, EmptySeq
      <4>2. QED
        BY <1>3, <4>1, ElementOfSeq
    <3>2. <<msg.params[1]>> \in Seq(Seq(Byte)) /\ Len(<<msg.params[1]>>) = 1
      BY <3>1
    <3>3. QED
      BY <2>2, <3>2 DEF Program
  <2>3. QED
    BY <2>1, <2>2 DEF handle_message, HandleProgram, HandlePoint, HandleOther
<1>12. TypeOK'
  <2>1. phase' \in {"choose", "recv", "parse", "handle", "destroy", "alone", "halted", "wild"}
    BY <1>1
  <2>2. QED
    BY <1>1, <1>2, <1>10, <1>11, <2>1 DEF TypeOK, H
<1>13. ASSUME damaged = {}, phase' = "wild"
       PROVE  FALSE
  <2>1. msg.id = PIXBUF_INFO_MSG_ID /\ Len(msg.params) = 1
    BY <1>13 DEF handle_message, HandleProgram, HandlePoint, HandleOther
  <2>2. Whole(msg.of)
    BY <1>13 DEF Whole
  <2>3. sent[msg.of] = [id |-> msg.id, params |-> msg.params]
    BY <1>7, <2>2 DEF IsSent
  <2>4. sent[msg.of] \in Messages
    BY <1>3, <1>7, FrameIs
  <2>5. \A m \in Messages : m.id = PIXBUF_INFO_MSG_ID => Len(m.params) > 1
    BY MessagesAssumption
  <2>6. PICK m \in Messages : m = sent[msg.of]
    BY <2>4
  <2>7. m.id = PIXBUF_INFO_MSG_ID /\ Len(m.params) = 1
    <3>1. m.id = msg.id /\ m.params = msg.params
      BY <2>3, <2>6
    <3>2. QED
      BY <2>1, <3>1
  <2>8. Len(m.params) > 1
    BY <2>5, <2>7
  <2>9. QED
    BY <2>7, <2>8
<1>14. MsgInv'
  <2>1. CASE phase' = "destroy"
    <3>1. Under'
      BY <2>1 DEF Under
    <3>2. QED
      BY <1>1, <1>2, <1>5, <1>7, <2>1, <3>1 DEF MsgInv, Fits, IsSent, Whole
  <2>2. CASE phase' = "wild"
    <3>1. ~Under' /\ damaged # {}
      BY <1>13, <2>2 DEF Under
    <3>2. QED
      BY <1>1, <3>1 DEF MsgInv
  <2>3. QED
    BY <1>1, <2>1, <2>2
<1>15. TakenAsSent'
  <2>1. ASSUME NEW i \in 1 .. Len(handled'), Whole(handled'[i].of)
        PROVE  IsSent(handled'[i]) /\ Fits(sent[handled'[i].of])
    <3>1. handled'[i] = msg \/ (i \in 1 .. Len(handled) /\ handled'[i] = handled[i])
      <4>1. CASE handled' = handled
        BY <4>1
      <4>2. CASE handled' = Append(handled, msg)
        <5>1. i \in 1 .. Len(handled) \/ i = Len(handled) + 1
          BY <1>9, <4>2
        <5>2. QED
          BY <1>9, <4>2, <5>1
      <4>3. QED
        BY <1>1, <4>1, <4>2
    <3>2. \A j \in 1 .. Len(handled) : j \in DOMAIN handled
      BY <1>8
    <3>3. QED
      BY <1>2, <1>7, <2>1, <3>1, <3>2 DEF TakenAsSent
  <2>2. DOMAIN handled' = 1 .. Len(handled')
    BY <1>10, LenProperties
  <2>3. \A i \in DOMAIN handled' :
          Whole(handled'[i].of) => IsSent(handled'[i]) /\ Fits(sent[handled'[i].of])
    BY <2>1, <2>2
  <2>4. QED
    BY <1>1, <2>3 DEF TakenAsSent, Whole, IsSent, Fits
<1>16. QED
  BY <1>1, <1>6, <1>7, <1>12, <1>14, <1>15 DEF Inv

LEMMA ParseInv ==
  ASSUME Inv, Parse
  PROVE  /\ Inv'
         /\ packet # << >> /\ packet \in Seq(Data) /\ phase' # "parse"
         /\ packet' = << >> /\ end_rcvd' = FALSE
         /\ Under' => msg'.of = packet[Len(packet)].place.frame
<1> DEFINE m == bytes_to_message(BytesOf(packet))
           f == packet[Len(packet)].place.frame
<1>1. /\ phase = "parse" /\ heap' = heap + Len(m.params)
      /\ msg' = IF m.ok THEN [of |-> f, id |-> m.id, params |-> m.params] ELSE NoMsg
      /\ \/ m.ok /\ phase' = "handle"
         \/ m.ok /\ m.params = << >> /\ phase' = "wild"
         \/ ~m.ok /\ phase' = "recv"
      /\ packet' = << >> /\ end_rcvd' = FALSE /\ escaped' = FALSE
      /\ UNCHANGED <<fifo, faults, sent, at, damaged, handled, installed>>
  BY DEF Parse, BytesOf, Last, NewPacket, line, card
<1>2. TypeOK /\ MsgInv /\ TakenAsSent /\ ReaderInv
  BY DEF Inv
<1>3. /\ sent \in Scripts /\ heap \in Nat /\ MaxSends \in Nat /\ packet \in Seq(Data)
  BY <1>2, Typing
<1>4. /\ packet # << >>
      /\ \A i \in 1 .. Len(packet) : Valid(sent, packet[i].place)
      /\ WholeIn(damaged, f) => Stored(sent, f, Len(FrameOf(sent, f)), packet)
  BY <1>1, <1>2, Zenon DEF ReaderInv, Reader
<1>5. f \in 1 .. MaxSends
  <2>1. Len(packet) \in 1 .. Len(packet)
    BY <1>3, <1>4, EmptySeq
  <2>2. QED
    BY <1>4, <2>1 DEF Valid
<1>6. Whole(f) => /\ m.ok <=> Fits(sent[f])
                  /\ m.ok => [id |-> m.id, params |-> m.params] = sent[f]
  <2>1. SUFFICES ASSUME Whole(f)
                 PROVE  /\ m.ok <=> Fits(sent[f])
                        /\ m.ok => [id |-> m.id, params |-> m.params] = sent[f]
    BY Zenon
  <2>2. WholeIn(damaged, f)
    BY <2>1 DEF Whole, WholeIn
  <2>3. /\ m.ok <=> Len(message_to_bytes(sent[f])) <= MaxLen
        /\ m.ok => [id |-> m.id, params |-> m.params] = sent[f]
    BY <1>3, <1>4, <1>5, <2>2, ParsedWhole
  <2>4. sent[f] \in Messages
    BY <1>3, <1>5, FrameIs
  <2>5. Fits(sent[f]) <=> Len(message_to_bytes(sent[f])) <= MaxLen
    BY <2>4 DEF Fits, Fitting
  <2>6. QED
    BY <2>3, <2>5, Zenon
<1>7. m.ok \in BOOLEAN /\ m.id \in Byte /\ m.params \in Seq(Seq(Byte)) /\ Len(m.params) \in Nat
  <2>1. BytesOf(packet) \in Seq(Byte)
    BY <1>3, BytesAre
  <2>2. m.ok \in BOOLEAN /\ m.id \in Byte /\ m.params \in Seq(Seq(Byte))
    BY <2>1, ParsedType
  <2>3. QED
    BY <2>2, LenProperties
<1> HIDE DEF m, f
<1>8. LineInv' /\ ReaderInv'
  <2>1. phase # "recv" /\ phase' # "parse"
    BY <1>1
  <2>2. QED
    BY <1>1, <2>1, Rests
<1>9. TypeOK'
  <2>1. msg' \in Message
    <3>1. [of |-> f, id |-> m.id, params |-> m.params] \in Message
      BY <1>5, <1>7 DEF Message
    <3>2. NoMsg \in Message
      BY <1>3 DEF NoMsg, Message, Byte
    <3>3. QED
      BY <1>1, <3>1, <3>2
  <2>2. heap' \in Nat
    BY <1>1, <1>3, <1>7
  <2>3. phase' \in {"choose", "recv", "parse", "handle", "destroy", "alone", "halted", "wild"}
    BY <1>1, Zenon
  <2>4. packet' \in Seq(Data) /\ Len(packet') <= MaxLen
    BY <1>1, SizeAssumption
  <2>5. QED
    BY <1>1, <1>2, <2>1, <2>2, <2>3, <2>4 DEF TypeOK
<1>10. TakenAsSent'
  BY <1>1, <1>2 DEF TakenAsSent, Whole, IsSent, Fits
<1>11. Under' => m.ok /\ phase' = "handle" /\ msg' = [of |-> f, id |-> m.id, params |-> m.params]
  <2>1. Under' => phase' = "handle"
    BY <1>1 DEF Under
  <2>2. phase' = "handle" => m.ok
    BY <1>1
  <2>3. QED
    BY <1>1, <2>1, <2>2
<1>12. Under' => msg'.of = f /\ msg'.id = m.id /\ msg'.params = m.params
  BY <1>11
<1>13. ~Under
  BY <1>1 DEF Under
<1>14. \A k : damaged = {} => Whole(k)
  BY DEF Whole
<1>15. MsgInv'
  <2>1. ASSUME Under'
        PROVE  /\ msg'.of \in 1 .. MaxSends
               /\ Whole(f) => IsSent(msg') /\ Fits(sent[f])
               /\ heap' >= Len(msg'.params)
    <3>1. msg'.of \in 1 .. MaxSends /\ heap' >= Len(msg'.params)
      BY <1>1, <1>3, <1>5, <1>7, <1>12, <2>1
    <3>2. ASSUME Whole(f)
          PROVE  IsSent(msg') /\ Fits(sent[f])
      <4>1. Fits(sent[f]) /\ [id |-> m.id, params |-> m.params] = sent[f]
        BY <1>6, <1>11, <2>1, <3>2, Zenon
      <4>2. IsSent(msg')
        BY <1>12, <2>1, <4>1 DEF IsSent
      <4>3. QED
        BY <4>1, <4>2
    <3>3. QED
      BY <3>1, <3>2
  <2>2. ASSUME damaged = {}
        PROVE  phase' # "wild"
    <3>1. ASSUME phase' = "wild"
          PROVE  FALSE
      <4>1. m.ok /\ m.params = << >>
        BY <1>1, <3>1
      <4>2. [id |-> m.id, params |-> m.params] = sent[f]
        BY <1>6, <1>14, <2>2, <4>1, Zenon
      <4>3. sent[f].params = << >>
        BY <4>1, <4>2
      <4>4. Len(sent[f].params) \in 1 .. 255
        BY <1>3, <1>5, FrameIs DEF IsMessage
      <4>5. QED
        BY <4>3, <4>4
    <3>2. QED
      BY <3>1
  <2>3. ASSUME damaged = {}, \A k \in 1 .. MaxSends : Fits(sent[k])
        PROVE  heap' = IF Under' THEN Len(msg'.params) ELSE 0
    <3>1. m.ok
      BY <1>5, <1>6, <1>14, <2>3, Zenon
    <3>2. phase' = "handle"
      BY <1>1, <2>2, <2>3, <3>1, Zenon
    <3>3. Under'
      BY <3>2 DEF Under
    <3>4. heap = 0
      BY <1>2, <1>13, <2>3 DEF MsgInv
    <3>5. heap' = Len(msg'.params)
      BY <1>1, <1>7, <1>12, <3>3, <3>4
    <3>6. QED
      BY <3>3, <3>5
  <2>4. IsSent(msg') <=> [id |-> msg'.id, params |-> msg'.params] = sent[msg'.of]
    BY DEF IsSent
  <2>5. IsSent(msg)' <=> [id |-> msg'.id, params |-> msg'.params] = sent[msg'.of]
    BY <1>1 DEF IsSent
  <2>6. Under' => (Whole(msg.of)' <=> Whole(f)) /\ (Fits(sent[msg.of])' <=> Fits(sent[f]))
    BY <1>1, <1>12 DEF Whole, Fits
  <2>7. \A k \in 1 .. MaxSends : Fits(sent[k])' <=> Fits(sent[k])
    BY <1>1 DEF Fits
  <2>8. QED
    BY <1>1, <2>1, <2>2, <2>3, <2>4, <2>5, <2>6, <2>7 DEF MsgInv
<1>16. QED
  BY <1>1, <1>3, <1>4, <1>8, <1>9, <1>10, <1>12, <1>15 DEF Inv, f

LEMMA RecvInv ==
  ASSUME Inv, recv_packet
  PROVE  /\ Inv'
         /\ Line(sent, at, fifo, damaged) /\ fifo # << >> /\ fifo' = Tail(fifo)
         /\ Valid(sent, Head(fifo).place) /\ Head(fifo).place = Due
         /\ Reads(Head(fifo), end_rcvd, escaped, packet, phase', end_rcvd', escaped', packet')
<1> DEFINE d == Head(fifo)
<1>1. /\ phase = "recv" /\ fifo # << >> /\ fifo' = Tail(fifo)
      /\ UNCHANGED <<msg, heap, faults, sent, at, damaged, handled, installed>>
  BY DEF recv_packet, line, card
<1>2. Reads(d, end_rcvd, escaped, packet, phase', end_rcvd', escaped', packet')
  BY <1>1, Zenon DEF recv_packet, Reads, Store, StoreIn
<1>3. TypeOK /\ MsgInv /\ TakenAsSent /\ ReaderInv /\ Line(sent, at, fifo, damaged)
  BY DEF Inv, LineInv
<1>4. sent \in Scripts /\ fifo \in Seq(Data) /\ escaped \in BOOLEAN /\ packet \in Seq(Data)
      /\ Len(packet) <= MaxLen
  BY <1>3, Typing DEF TypeOK
<1>5. /\ Line(sent, at, Tail(fifo), damaged)
      /\ Len(fifo) \in Nat \ {0} /\ Len(Tail(fifo)) = Len(fifo) - 1 /\ Tail(fifo) \in Seq(Data)
      /\ Head(fifo) = fifo[1] /\ fifo[1] \in Data
      /\ \A i \in 1 .. Len(Tail(fifo)) + 1 : PlaceAt(Tail(fifo), at, i) = PlaceAt(fifo, at, i + 1)
  BY <1>1, <1>3, LineRead
<1>6. PlaceAt(fifo, at, 1) = fifo[1].place
  BY <1>5 DEF PlaceAt
<1>7. PICK p : p = Due
  OBVIOUS
<1>8. PICK q : q = PlaceAt(fifo, at, 2)
  OBVIOUS
<1>9. Due = p /\ d.place = p /\ PlaceAt(fifo, at, 1) = p
  BY <1>5, <1>6, <1>7 DEF Due
<1>10. Due' = q
  <2>1. 1 \in 1 .. Len(Tail(fifo)) + 1 /\ 1 + 1 = 2
    BY <1>5
  <2>2. PlaceAt(Tail(fifo), at, 1) = PlaceAt(fifo, at, 2)
    BY <1>5, <2>1
  <2>3. QED
    BY <1>1, <1>8, <2>2 DEF Due, PlaceAt
<1>11. /\ Valid(sent, p) /\ q \in Place /\ Before(p, q) /\ Follows(sent, damaged, p, q)
       /\ Valid(sent, q) \/ q = First(MaxSends + 1)
       /\ p.frame \notin damaged => d.b = CharOf(sent, p)
  <2>1. 1 \in 1 .. Len(fifo) /\ 1 \in 1 .. Len(fifo) + 1 /\ 2 \in 1 .. Len(fifo) + 1 /\ 1 < 2
        /\ 1 + 1 = 2
    BY <1>5
  <2>2. Valid(sent, p) /\ (p.frame \notin damaged => d.b = CharOf(sent, p))
    BY <1>3, <1>5, <1>6, <1>9, <2>1 DEF Line
  <2>3. Before(PlaceAt(fifo, at, 1), PlaceAt(fifo, at, 2))
    BY <1>3, <2>1 DEF Line
  <2>4. Follows(sent, damaged, PlaceAt(fifo, at, 1), PlaceAt(fifo, at, 2))
    <3>1. Follows(sent, damaged, PlaceAt(fifo, at, 1), PlaceAt(fifo, at, 1 + 1))
      BY <1>3, <2>1 DEF Line
    <3>2. QED
      BY <2>1, <3>1
  <2>5. q \in Place
    BY <1>3, <1>8, <2>1, LinePlaces
  <2>6. Valid(sent, q) \/ q = First(MaxSends + 1)
    <3>1. CASE 2 \in 1 .. Len(fifo)
      <4>1. q = fifo[2].place
        BY <1>3, <1>8, <3>1, LinePlaces
      <4>2. QED
        BY <1>3, <3>1, <4>1 DEF Line
    <3>2. CASE 2 \notin 1 .. Len(fifo)
      <4>1. q = at
        BY <1>5, <1>8, <3>2 DEF PlaceAt
      <4>2. QED
        BY <1>3, <4>1 DEF Line
    <3>3. QED
      BY <3>1, <3>2
  <2>7. QED
    BY <1>8, <1>9, <2>2, <2>3, <2>4, <2>5, <2>6
<1>12. d \in Data
  BY <1>5
<1> HIDE DEF d
<1>13. Reader(sent, p, damaged, "recv", end_rcvd, escaped, packet)
  BY <1>1, <1>3, <1>9 DEF ReaderInv
<1>14. PICK ph2, er2, esc2, pk2 : ph2 = phase' /\ er2 = end_rcvd' /\ esc2 = escaped' /\ pk2 = packet'
  OBVIOUS
<1>15. Reads(d, end_rcvd, escaped, packet, ph2, er2, esc2, pk2)
  BY <1>2, <1>14
<1>16. Reader(sent, q, damaged, ph2, er2, esc2, pk2)
  BY <1>4, <1>9, <1>11, <1>12, <1>13, <1>15, ReaderReads
<1>17. ReaderInv'
  BY <1>1, <1>10, <1>14, <1>16 DEF ReaderInv
<1>18. LineInv'
  BY <1>1, <1>5 DEF LineInv
<1>19. TypeOK'
  <2>1. pk2 \in Seq(Data) /\ Len(pk2) <= MaxLen /\ ph2 \in {"recv", "parse"}
    <3>1. p \in Place
      BY <1>11 DEF Valid
    <3>2. QED
      BY <1>4, <1>9, <1>12, <1>15, <3>1, ReadsGrows
  <2>2. er2 \in BOOLEAN /\ esc2 \in BOOLEAN
    <3>1. end_rcvd \in BOOLEAN /\ escaped \in BOOLEAN
      BY <1>3 DEF TypeOK
    <3>2. er2 = end_rcvd \/ er2 = TRUE
      BY <1>15, Zenon DEF Reads
    <3>3. esc2 = escaped \/ esc2 = TRUE \/ esc2 = FALSE
      BY <1>15, Zenon DEF Reads
    <3>4. QED
      BY <3>1, <3>2, <3>3
  <2>3. fifo' \in Seq(Data) /\ Len(fifo') <= FifoLen
    <3>1. Len(fifo) <= FifoLen /\ FifoLen \in Nat
      BY <1>3, SizeAssumption DEF TypeOK
    <3>2. QED
      BY <1>1, <1>5, <3>1
  <2>4. phase' \in {"choose", "recv", "parse", "handle", "destroy", "alone", "halted", "wild"}
    BY <1>14, <2>1
  <2>5. QED
    BY <1>1, <1>3, <1>14, <2>1, <2>2, <2>3, <2>4 DEF TypeOK
<1>20. MsgInv'
  <2>1. phase' \in {"recv", "parse"}
    <3>1. p \in Place
      BY <1>11 DEF Valid
    <3>2. ph2 \in {"recv", "parse"}
      BY <1>4, <1>9, <1>12, <1>15, <3>1, ReadsGrows
    <3>3. QED
      BY <1>14, <3>2
  <2>2. ~Under /\ ~Under' /\ phase' # "wild"
    BY <1>1, <2>1 DEF Under
  <2>3. QED
    BY <1>1, <1>3, <2>2 DEF MsgInv, Fits
<1>21. TakenAsSent'
  BY <1>1, <1>3 DEF TakenAsSent, Whole, IsSent, Fits
<1>22. QED
  BY <1>1, <1>2, <1>3, <1>9, <1>11, <1>17, <1>18, <1>19, <1>20, <1>21 DEF Inv, d

LEMMA PowerCycleInv ==
  ASSUME Inv, PowerCycle
  PROVE  Inv' /\ damaged \subseteq damaged'
<1> DEFINE D == {d.place.frame : d \in ToSet(fifo \o packet)} \cup ({msg.of} \ {0})
                  \cup (IF at.pos > 0 THEN {at.frame} ELSE {})
<1>1. /\ faults < MaxFaults /\ faults' = faults + 1 /\ phase' = "choose" /\ msg' = NoMsg
      /\ heap' = 0 /\ packet' = << >> /\ end_rcvd' = FALSE /\ escaped' = FALSE /\ fifo' = << >>
      /\ UNCHANGED <<sent, at, handled, installed>>
  BY DEF PowerCycle, NewPacket
<1>2. damaged' = damaged \cup D
  BY DEF PowerCycle
<1>3. TypeOK /\ MsgInv /\ TakenAsSent /\ ReaderInv /\ LineInv
  BY DEF Inv
<1>4. /\ sent \in Scripts /\ at \in Place /\ fifo \in Seq(Data) /\ packet \in Seq(Data)
      /\ msg.of \in 0 .. MaxSends /\ faults \in 0 .. MaxFaults /\ damaged \subseteq 1 .. MaxSends
      /\ MaxSends \in Nat /\ MaxFaults \in Nat /\ Len(fifo) \in Nat /\ Len(packet) \in Nat
  BY <1>3, Typing
<1>5. Valid(sent, at) \/ at = First(MaxSends + 1)
  BY <1>3 DEF LineInv, Line
<1>6. at.pos > 0 => at.frame \in 1 .. MaxSends
  <2>1. First(MaxSends + 1).pos = 0
    BY DEF First, Start
  <2>2. QED
    BY <1>5, <2>1 DEF Valid
<1>7. D \subseteq 1 .. MaxSends
  <2>1. ASSUME NEW d \in ToSet(fifo \o packet)
        PROVE  d.place.frame \in 1 .. MaxSends
    <3>1. /\ fifo \o packet \in Seq(Data)
          /\ Len(fifo \o packet) = Len(fifo) + Len(packet)
          /\ \A i \in 1 .. Len(fifo) + Len(packet) :
               (fifo \o packet)[i] = IF i <= Len(fifo) THEN fifo[i] ELSE packet[i - Len(fifo)]
      BY <1>4, ConcatProperties
    <3>2. DOMAIN (fifo \o packet) = 1 .. Len(fifo) + Len(packet)
      BY <3>1, LenProperties
    <3>3. PICK i \in 1 .. Len(fifo) + Len(packet) : d = (fifo \o packet)[i]
      BY <3>2 DEF ToSet
    <3>4. \/ i \in 1 .. Len(fifo) /\ d = fifo[i]
          \/ i - Len(fifo) \in 1 .. Len(packet) /\ d = packet[i - Len(fifo)]
      BY <1>4, <3>1, <3>3
    <3>5. \A j \in 1 .. Len(fifo) : Valid(sent, fifo[j].place)
      BY <1>3 DEF LineInv, Line
    <3>6. \A j \in 1 .. Len(packet) : Valid(sent, packet[j].place)
      BY <1>3 DEF ReaderInv, Reader
    <3>7. Valid(sent, d.place)
      BY <3>4, <3>5, <3>6
    <3>8. QED
      BY <3>7 DEF Valid
  <2>2. {msg.of} \ {0} \subseteq 1 .. MaxSends
    BY <1>4
  <2>3. (IF at.pos > 0 THEN {at.frame} ELSE {}) \subseteq 1 .. MaxSends
    BY <1>6
  <2>4. {d.place.frame : d \in ToSet(fifo \o packet)} \subseteq 1 .. MaxSends
    BY <2>1
  <2>5. QED
    BY <2>2, <2>3, <2>4, Zenon
<1>8. at.pos > 0 => at.frame \in D
  OBVIOUS
<1> HIDE DEF D
<1>9. damaged' \subseteq 1 .. MaxSends /\ damaged \subseteq damaged'
  BY <1>2, <1>4, <1>7
<1>10. PICK E : E = damaged'
  OBVIOUS
<1>11. LineInv'
  <2>1. Line(sent, at, << >>, E)
    BY <1>4, <1>5, LineEmpty
  <2>2. QED
    BY <1>1, <1>10, <2>1 DEF LineInv
<1>12. Due' = at
  <2>1. ~(1 <= Len(<< >>))
    OBVIOUS
  <2>2. QED
    BY <1>1, <2>1 DEF Due, PlaceAt
<1>13. ReaderInv'
  <2>1. at.pos > 0 => at.frame \in E
    BY <1>2, <1>8, <1>10
  <2>2. Reader(sent, at, E, "choose", FALSE, FALSE, << >>)
    BY <1>4, <2>1, ReaderEmpty
  <2>3. QED
    BY <1>1, <1>10, <1>12, <2>2 DEF ReaderInv
<1>14. TypeOK'
  <2>1. msg' \in Message
    BY <1>1, <1>4 DEF NoMsg, Message, Byte
  <2>2. fifo' \in Seq(Data) /\ Len(fifo') <= FifoLen /\ packet' \in Seq(Data) /\ Len(packet') <= MaxLen
    BY <1>1, EmptySeq, SizeAssumption
  <2>3. heap' \in Nat /\ faults' \in 0 .. MaxFaults
    BY <1>1, <1>4
  <2>4. phase' \in {"choose", "recv", "parse", "handle", "destroy", "alone", "halted", "wild"}
    BY <1>1, Zenon
  <2>5. QED
    BY <1>1, <1>3, <1>9, <2>1, <2>2, <2>3, <2>4 DEF TypeOK
<1>15. MsgInv'
  <2>1. ~Under' /\ phase' # "wild"
    BY <1>1 DEF Under
  <2>2. QED
    BY <1>1, <2>1 DEF MsgInv
<1>16. TakenAsSent'
  <2>1. \A k : Whole(k)' => Whole(k)
    BY <1>9 DEF Whole
  <2>2. \A i \in DOMAIN handled :
          Whole(handled[i].of)' => IsSent(handled[i]) /\ Fits(sent[handled[i].of])
    BY <1>1, <1>3, <2>1 DEF TakenAsSent
  <2>3. QED
    BY <1>1, <2>2 DEF TakenAsSent, Whole, IsSent, Fits
<1>17. QED
  BY <1>9, <1>11, <1>13, <1>14, <1>15, <1>16 DEF Inv

LEMMA Stutters ==
  ASSUME Inv, UNCHANGED vars
  PROVE  Inv'
<1>1. UNCHANGED <<sent, at, damaged, handled, installed, fifo, end_rcvd, escaped, packet, phase,
                  msg, heap, faults>>
  BY DEF vars
<1>2. TypeOK' /\ LineInv' /\ TakenAsSent'
  BY <1>1 DEF Inv, TypeOK, LineInv, TakenAsSent, Whole, IsSent, Fits
<1>3. Due' = Due /\ (Under' <=> Under)
  BY <1>1 DEF Due, PlaceAt, Under
<1>4. ReaderInv'
  BY <1>1, <1>3 DEF Inv, ReaderInv
<1>5. MsgInv'
  BY <1>1, <1>3 DEF Inv, MsgInv, Whole, IsSent, Fits
<1>6. QED
  BY <1>2, <1>4, <1>5 DEF Inv

LEMMA NextInv ==
  ASSUME Inv, [Next]_vars
  PROVE  Inv'
<1>1. \/ HostSends \/ get_exec_mode \/ go_stand_alone \/ recv_packet \/ Parse \/ handle_message
      \/ destroy_msg \/ PowerCycle \/ UNCHANGED vars
  BY Zenon DEF Next, Camera
<1>2. QED
  BY <1>1, HostSendsInv, ModeInv, RecvInv, ParseInv, HandleInv, DestroyInv, PowerCycleInv, Stutters,
     Zenon

(* What is carried out of a frame that arrived whole is the message that was *)
(* sent in it, whatever was damaged before and after.                        *)
THEOREM TakenAsSentHolds == Spec => []TakenAsSent
<1>1. Init => Inv
  BY InitInv
<1>2. Inv /\ [Next]_vars => Inv'
  BY NextInv
<1>3. Inv => TakenAsSent
  BY DEF Inv
<1>4. QED
  BY <1>1, <1>2, <1>3, PTL DEF Spec

(* The buffer is never overrun; without damage nothing is leaked and no      *)
(* pointer followed that was never set.                                      *)
THEOREM MemoryKeptHolds == Spec => []MemoryKept
<1>1. Init => Inv
  BY InitInv
<1>2. Inv /\ [Next]_vars => Inv'
  BY NextInv
<1>3. Inv => MemoryKept
  <2>1. ASSUME Inv, phase = "recv", heap > 0, damaged = {},
               \A k \in 1 .. MaxSends : Fits(sent[k])
        PROVE  FALSE
    <3>1. ~Under
      BY <2>1 DEF Under
    <3>2. heap = 0
      BY <2>1, <3>1 DEF Inv, MsgInv
    <3>3. QED
      BY <2>1, <3>2
  <2>2. Inv => ParametersFreed
    BY <2>1, Zenon DEF ParametersFreed
  <2>3. Inv => TypeOK /\ TamedByHost
    BY Zenon DEF Inv, MsgInv, TamedByHost
  <2>4. QED
    BY <2>2, <2>3 DEF MemoryKept
<1>4. QED
  BY <1>1, <1>2, <1>3, PTL DEF Spec

-----------------------------------------------------------------------------
(* The order of the messages.  With one fault at most, one character at most *)
(* is not the one that was sent.  Once the message of a frame was parsed the *)
(* characters still to come belong to later frames, or that one was an END   *)
(* inside the frame and no END that is left starts a packet in it.           *)

IsTrue(s, d) == d.b = CharOf(s, d.place)

OneFault(s, q, fl) ==
  /\ \A i \in 1 .. Len(q) : ~IsTrue(s, q[i]) => fl > 0
  /\ \A i, j \in 1 .. Len(q) : ~IsTrue(s, q[i]) /\ ~IsTrue(s, q[j]) => i = j

Ends(s, p, q, fl, h) ==
  fl > 0 /\ (\A i \in 1 .. Len(q) : IsTrue(s, q[i])) /\ Before(First(h), p)

Passed(s, p, q, fl, pk, er, h) ==
  \/ p.frame > h /\ \A i \in 1 .. Len(pk) : pk[i].place.frame > h
  \/ Ends(s, p, q, fl, h) /\ pk = << >> /\ ~er

PastInv ==
  /\ OneFault(sent, fifo, faults)
  /\ \A i \in 1 .. Len(handled) :
       Passed(sent, Due, fifo, faults, packet, end_rcvd, handled[i].of)
  /\ Under => Passed(sent, Due, fifo, faults, packet, end_rcvd, msg.of)
  /\ phase = "parse" =>
       LET f == packet[Len(packet)].place.frame IN
       Due.frame > f \/ Ends(sent, Due, fifo, faults, f)
  /\ phase = "handle" => \A i \in 1 .. Len(handled) : handled[i].of < msg.of
  /\ \A i, j \in 1 .. Len(handled) : i < j => handled[i].of < handled[j].of

(* A step that carries out nothing and leaves behind what was.               *)
LEMMA Carried ==
  ASSUME Inv, PastInv, handled' = handled, OneFault(sent, fifo, faults)',
         \A h \in 1 .. MaxSends :
           Passed(sent, Due, fifo, faults, packet, end_rcvd, h) =>
             Passed(sent', Due', fifo', faults', packet', end_rcvd', h),
         Under' => Under /\ msg' = msg,
         phase' = "handle" => phase = "handle",
         phase' = "parse" =>
           LET f == packet'[Len(packet')].place.frame IN
           Due'.frame > f \/ Ends(sent', Due', fifo', faults', f)
  PROVE  PastInv'
<1>1. \A i \in 1 .. Len(handled) : handled[i].of \in 1 .. MaxSends
  <2>1. handled \in Seq({m \in Message : m.of > 0}) /\ MaxSends \in Nat
    BY SizeAssumption DEF Inv, TypeOK
  <2>2. ASSUME NEW i \in 1 .. Len(handled)
        PROVE  handled[i].of \in 1 .. MaxSends
    <3>1. handled[i] \in {m \in Message : m.of > 0}
      BY <2>1, ElementOfSeq
    <3>2. QED
      BY <2>1, <3>1 DEF Message
  <2>3. QED
    BY <2>2
<1>2. Under => msg.of \in 1 .. MaxSends
  BY DEF Inv, MsgInv
<1>3. /\ \A i \in 1 .. Len(handled) :
           Passed(sent, Due, fifo, faults, packet, end_rcvd, handled[i].of)
      /\ Under => Passed(sent, Due, fifo, faults, packet, end_rcvd, msg.of)
      /\ phase = "handle" => \A i \in 1 .. Len(handled) : handled[i].of < msg.of
      /\ \A i, j \in 1 .. Len(handled) : i < j => handled[i].of < handled[j].of
  BY DEF PastInv
<1>4. \A i \in 1 .. Len(handled') :
        Passed(sent', Due', fifo', faults', packet', end_rcvd', handled'[i].of)
  BY <1>1, <1>3
<1>5. Under' => Passed(sent', Due', fifo', faults', packet', end_rcvd', msg'.of)
  BY <1>2, <1>3
<1>6. phase' = "handle" => \A i \in 1 .. Len(handled') : handled'[i].of < msg'.of
  BY <1>3 DEF Under
<1>7. \A i, j \in 1 .. Len(handled') : i < j => handled'[i].of < handled'[j].of
  BY <1>3
<1>8. phase' = "parse" =>
        LET f == packet'[Len(packet')].place.frame IN
        Due'.frame > f \/ Ends(sent', Due', fifo', faults', f)
  OBVIOUS
<1>9. OneFault(sent', fifo', faults')
  OBVIOUS
<1>10. QED
  BY <1>4, <1>5, <1>6, <1>7, <1>8, <1>9, Zenon DEF PastInv

(* Behind the first place of a frame an END that was sent ends the frame.    *)
LEMMA EndsFrame ==
  ASSUME NEW s \in Scripts, NEW h \in 1 .. MaxSends, NEW p, Valid(s, p), Before(First(h), p),
         CharOf(s, p) = END, NEW q \in Place, Before(p, q), Valid(s, q) \/ q = First(MaxSends + 1)
  PROVE  q.frame > h
<1> DEFINE L == Len(FrameOf(s, p.frame))
<1>1. /\ p.frame \in Nat /\ q.frame \in Nat /\ h \in Nat /\ MaxSends \in Nat /\ p.frame <= MaxSends
      /\ p.pos \in Nat /\ q.pos \in Nat /\ p.part \in Nat /\ q.part \in Nat
  BY SizeAssumption DEF Valid, Place
<1>2. First(h).frame = h /\ First(h).pos = 0 /\ First(h).part = 1
      /\ First(MaxSends + 1).frame = MaxSends + 1
  BY DEF First, Start
<1>3. /\ L \in Nat /\ p.pos \in 0 .. L + 1 /\ p.part = 1
      /\ p.pos \notin 1 .. L
  BY CharIs, Zenon
<1> HIDE DEF L
<1>4. CASE p.frame > h
  BY <1>1, <1>4 DEF Before
<1>5. CASE ~(p.frame > h)
  <2>1. p.frame = h /\ p.pos = L + 1
    BY <1>1, <1>2, <1>3, <1>5 DEF Before
  <2>2. CASE q.frame > p.frame
    BY <2>1, <2>2
  <2>3. CASE ~(q.frame > p.frame)
    <3>1. q.frame = p.frame /\ (q.pos > L + 1 \/ (q.pos = L + 1 /\ q.part > 1))
      BY <1>1, <1>3, <2>1, <2>3 DEF Before
    <3>2. q # First(MaxSends + 1)
      BY <1>1, <1>2, <3>1
    <3>3. Valid(s, q)
      BY <3>2
    <3>4. Len(FrameOf(s, q.frame)) = L
      BY <3>1 DEF L
    <3>5. q.pos \in 0 .. L + 1 /\ (q.pos \notin 1 .. L => q.part = 1)
      <4>1. q.pos \in 0 .. Len(FrameOf(s, q.frame)) + 1
            /\ (q.pos \notin 1 .. Len(FrameOf(s, q.frame)) => q.part = 1)
        BY <3>3, CharIs, Zenon
      <4>2. QED
        BY <3>4, <4>1
    <3>6. QED
      BY <1>1, <1>3, <3>1, <3>5
  <2>4. QED
    BY <2>2, <2>3
<1>6. QED
  BY <1>4, <1>5

LEMMA HostSendsPast ==
  ASSUME MaxFaults <= 1, Inv, PastInv, HostSends
  PROVE  PastInv'
<1> DEFINE d(b) == [b |-> b, place |-> at]
<1>1. TypeOK /\ Line(sent, at, fifo, damaged)
  BY DEF Inv, LineInv
<1>2. /\ sent \in Scripts /\ at \in Place /\ fifo \in Seq(Data) /\ Len(fifo) \in Nat
      /\ faults \in 0 .. MaxFaults /\ MaxFaults \in Nat /\ MaxSends \in Nat
  BY <1>1, Typing
<1>3. /\ at.frame <= MaxSends /\ at' = AfterOf(sent, at)
      /\ UNCHANGED <<sent, end_rcvd, escaped, packet, phase, msg, heap, handled, installed>>
  BY PlacesAre DEF HostSends, card
<1>4. Valid(sent, at)
  <2>1. Valid(sent, at) \/ at = First(MaxSends + 1)
    BY <1>1 DEF Line
  <2>2. First(MaxSends + 1).frame = MaxSends + 1
    BY DEF First, Start
  <2>3. QED
    BY <1>2, <1>3, <2>1, <2>2
<1>5. CharOf(sent, at) \in Byte /\ {1, END, ESC} \subseteq Byte
  <2>1. CharOf(sent, at) \in Byte
    BY <1>2, <1>4, CharType
  <2>2. END \in Byte /\ ESC \in Byte /\ 1 \in Byte
    BY DEF END, ESC, Byte
  <2>3. QED
    BY <2>1, <2>2
<1>6. /\ faults' >= faults
      /\ fifo' = fifo \/ \E b \in Byte : /\ fifo' = Append(fifo, d(b))
                                         /\ b # CharOf(sent, at) => faults = 0 /\ faults' > 0
      /\ faults > 0 => faults' = faults
  <2>1. CASE Arrives(CharOf(sent, at)) /\ UNCHANGED faults
    <3>1. fifo' = fifo \/ fifo' = Append(fifo, d(CharOf(sent, at)))
      BY <2>1 DEF Arrives
    <3>2. faults' = faults /\ faults >= faults
      BY <1>2, <2>1
    <3>3. QED
      BY <1>5, <3>1, <3>2
  <2>2. CASE /\ faults < MaxFaults /\ faults' = faults + 1
             /\ UNCHANGED fifo \/ \E b \in {1, END, ESC} : Arrives(b)
    <3>1. faults = 0 /\ faults' > 0 /\ faults' >= faults
      BY <1>2, <2>2
    <3>2. CASE UNCHANGED fifo
      BY <3>1, <3>2
    <3>3. ASSUME NEW b \in {1, END, ESC}, Arrives(b)
          PROVE  b \in Byte /\ (fifo' = fifo \/ fifo' = Append(fifo, d(b)))
      BY <1>5, <3>3 DEF Arrives
    <3>4. QED
      BY <2>2, <3>1, <3>2, <3>3
  <2>3. QED
    BY <2>1, <2>2, PlacesAre, Zenon DEF HostSends
<1> HIDE DEF d
<1>7. \A b \in Byte : d(b) \in Data /\ d(b).place = at /\ d(b).b = b
  BY <1>2 DEF d, Data
<1>8. PICK q, fl : q = fifo' /\ fl = faults'
  OBVIOUS
<1>9. OneFault(sent, fifo, faults)
  BY DEF PastInv
<1>10. /\ Len(q) \in Nat /\ Len(q) >= Len(fifo)
       /\ \A i \in 1 .. Len(fifo) : q[i] = fifo[i]
       /\ \A i \in 1 .. Len(q) : \/ i \in 1 .. Len(fifo)
                                 \/ /\ i = Len(fifo) + 1 /\ q[i].place = at
                                    /\ ~IsTrue(sent, q[i]) => faults = 0 /\ fl > 0
  <2>1. CASE q = fifo
    BY <1>2, <2>1
  <2>2. ASSUME NEW b \in Byte, q = Append(fifo, d(b)), b # CharOf(sent, at) => faults = 0 /\ fl > 0
        PROVE  /\ Len(q) = Len(fifo) + 1
               /\ \A i \in 1 .. Len(fifo) : q[i] = fifo[i]
               /\ q[Len(fifo) + 1].place = at
               /\ ~IsTrue(sent, q[Len(fifo) + 1]) => faults = 0 /\ fl > 0
    <3>1. /\ Len(q) = Len(fifo) + 1 /\ \A i \in 1 .. Len(fifo) : q[i] = fifo[i]
          /\ q[Len(fifo) + 1] = d(b)
      BY <1>2, <1>7, <2>2, Appended
    <3>2. q[Len(fifo) + 1].place = at /\ q[Len(fifo) + 1].b = b
      BY <1>7, <3>1
    <3>3. QED
      BY <2>2, <3>1, <3>2 DEF IsTrue
  <2>3. CASE \E b \in Byte : q = Append(fifo, d(b)) /\ (b # CharOf(sent, at) => faults = 0 /\ fl > 0)
    <3>1. /\ Len(q) = Len(fifo) + 1
          /\ \A i \in 1 .. Len(fifo) : q[i] = fifo[i]
          /\ q[Len(fifo) + 1].place = at
          /\ ~IsTrue(sent, q[Len(fifo) + 1]) => faults = 0 /\ fl > 0
      BY <2>2, <2>3
    <3>2. \A i \in 1 .. Len(q) : i \in 1 .. Len(fifo) \/ i = Len(fifo) + 1
      BY <1>2, <3>1
    <3>3. Len(q) \in Nat /\ Len(q) >= Len(fifo)
      BY <1>2, <3>1
    <3>4. QED
      BY <3>1, <3>2, <3>3, Zenon
  <2>4. QED
    BY <1>6, <1>8, <2>1, <2>3
<1>11. fl \in Nat /\ faults \in Nat /\ fl >= faults /\ (faults > 0 => fl = faults)
  <2>1. TypeOK'
    BY HostSendsInv DEF Inv
  <2>2. faults' \in 0 .. MaxFaults
    BY <2>1 DEF TypeOK
  <2>3. QED
    BY <1>2, <1>6, <1>8, <2>2
<1>12. OneFault(sent, q, fl)
  <2>1. /\ \A i \in 1 .. Len(fifo) : ~IsTrue(sent, fifo[i]) => faults > 0
        /\ \A i, j \in 1 .. Len(fifo) : ~IsTrue(sent, fifo[i]) /\ ~IsTrue(sent, fifo[j]) => i = j
    BY <1>9 DEF OneFault
  <2>2. ASSUME NEW i \in 1 .. Len(q), ~IsTrue(sent, q[i])
        PROVE  fl > 0 /\ (i \in 1 .. Len(fifo) => faults > 0)
               /\ (i \notin 1 .. Len(fifo) => faults = 0 /\ i = Len(fifo) + 1)
    BY <1>10, <1>11, <2>1, <2>2
  <2>3. ASSUME NEW i \in 1 .. Len(q), NEW j \in 1 .. Len(q),
               ~IsTrue(sent, q[i]), ~IsTrue(sent, q[j])
        PROVE  i = j
    <3>1. CASE i \in 1 .. Len(fifo)
      <4>1. j \in 1 .. Len(fifo)
        BY <1>11, <2>2, <2>3, <3>1
      <4>2. QED
        BY <1>10, <2>1, <2>3, <3>1, <4>1
    <3>2. CASE i \notin 1 .. Len(fifo)
      BY <1>11, <2>2, <2>3, <3>2
    <3>3. QED
      BY <3>1, <3>2
  <2>4. QED
    BY <2>2, <2>3 DEF OneFault
<1>13. Due \in Place /\ Due' \in Place /\ (Due' = Due \/ Before(Due, Due'))
  <2>1. Due \in Place
    <3>1. 1 \in 1 .. Len(fifo) + 1
      BY <1>2
    <3>2. QED
      BY <1>1, <3>1, LinePlaces DEF Due
  <2>2. CASE Len(fifo) > 0
    <3>1. Due' = Due
      BY <1>2, <1>8, <1>10, <2>2 DEF Due, PlaceAt
    <3>2. QED
      BY <2>1, <3>1
  <2>3. CASE Len(fifo) = 0
    <3>1. Due = at
      BY <2>3 DEF Due, PlaceAt
    <3>2. Due' = at \/ Due' = at'
      <4>1. CASE Len(q) = 0
        BY <1>8, <4>1 DEF Due, PlaceAt
      <4>2. CASE Len(q) # 0
        <5>1. 1 \in 1 .. Len(q) /\ 1 \notin 1 .. Len(fifo) /\ 1 <= Len(q)
          BY <1>10, <2>3, <4>2
        <5>2. q[1].place = at
          BY <1>10, <5>1
        <5>3. QED
          BY <1>8, <5>1, <5>2 DEF Due, PlaceAt
      <4>3. QED
        BY <4>1, <4>2
    <3>3. Before(at, at') /\ at' \in Place
      BY <1>2, <1>3, <1>4, AfterIsBefore
    <3>4. QED
      BY <1>2, <3>1, <3>2, <3>3
  <2>4. QED
    BY <1>2, <2>2, <2>3
<1>14. PICK p, r : p = Due /\ r = Due' /\ p \in Place /\ r \in Place /\ (r = p \/ Before(p, r))
  BY <1>13
<1>15. ASSUME NEW h \in 1 .. MaxSends + 1
       PROVE  /\ p.frame > h => r.frame > h
              /\ Ends(sent, p, fifo, faults, h) => Ends(sent, r, q, fl, h)
  <2>1. h \in Nat /\ p.frame \in Nat /\ r.frame \in Nat /\ First(h) \in Place
    BY <1>2, <1>14, StartIs DEF Place, First
  <2>2. p.frame > h => r.frame > h
    BY <1>14, <2>1 DEF Before
  <2>3. ASSUME Ends(sent, p, fifo, faults, h)
        PROVE  Ends(sent, r, q, fl, h)
    <3>1. faults > 0 /\ fl > 0 /\ Before(First(h), p)
          /\ \A i \in 1 .. Len(fifo) : IsTrue(sent, fifo[i])
      BY <1>11, <2>3 DEF Ends
    <3>2. Before(First(h), r)
      BY <1>14, <2>1, <3>1, BeforeOrder
    <3>3. \A i \in 1 .. Len(q) : IsTrue(sent, q[i])
      BY <1>10, <1>11, <3>1
    <3>4. QED
      BY <3>1, <3>2, <3>3 DEF Ends
  <2>4. QED
    BY <2>2, <2>3
<1>16. ASSUME NEW h \in 1 .. MaxSends, Passed(sent, Due, fifo, faults, packet, end_rcvd, h)
       PROVE  Passed(sent', Due', fifo', faults', packet', end_rcvd', h)
  <2>1. h \in 1 .. MaxSends + 1
    BY <1>2
  <2>2. QED
    BY <1>3, <1>8, <1>14, <1>15, <1>16, <2>1, Zenon DEF Passed
<1>17. ASSUME phase' = "parse"
       PROVE  LET f == packet'[Len(packet')].place.frame IN
              Due'.frame > f \/ Ends(sent', Due', fifo', faults', f)
  <2>1. phase = "parse" /\ packet' = packet
    BY <1>3, <1>17
  <2>2. PICK f : f = packet[Len(packet)].place.frame
    OBVIOUS
  <2>3. Due.frame > f \/ Ends(sent, Due, fifo, faults, f)
    BY <2>1, <2>2 DEF PastInv
  <2>4. f \in 1 .. MaxSends + 1
    <3>1. packet # << >> /\ packet \in Seq(Data)
      BY <2>1, Zenon DEF Inv, ReaderInv, Reader
    <3>2. Len(packet) \in 1 .. Len(packet)
      BY <3>1, EmptySeq
    <3>3. packet[Len(packet)] \in Data
      BY <3>1, <3>2, ElementOfSeq
    <3>4. QED
      BY <2>2, <3>3 DEF Data, Place
  <2>5. r.frame > f \/ Ends(sent, r, q, fl, f)
    BY <1>14, <1>15, <2>3, <2>4
  <2>6. QED
    BY <1>3, <1>8, <1>14, <2>1, <2>2, <2>5
<1>18. OneFault(sent, fifo, faults)'
  BY <1>3, <1>8, <1>12
<1>19. (Under' => Under /\ msg' = msg) /\ (phase' = "handle" => phase = "handle") /\ handled' = handled
  BY <1>3 DEF Under
<1>20. QED
  BY <1>16, <1>17, <1>18, <1>19, Carried

LEMMA RecvPast ==
  ASSUME Inv, PastInv, recv_packet
  PROVE  PastInv'
<1> DEFINE d == Head(fifo)
           t == Tail(fifo)
<1>1. /\ phase = "recv" /\ fifo # << >> /\ fifo' = t
      /\ UNCHANGED <<msg, heap, faults, sent, at, damaged, handled, installed>>
  BY DEF recv_packet, line, card
<1>2. /\ Line(sent, at, fifo, damaged) /\ Inv'
      /\ Valid(sent, d.place) /\ d.place = Due
      /\ Reads(d, end_rcvd, escaped, packet, phase', end_rcvd', escaped', packet')
  BY RecvInv
<1>3. TypeOK /\ ReaderInv
  BY DEF Inv
<1>4. /\ sent \in Scripts /\ packet \in Seq(Data) /\ Len(packet) <= MaxLen /\ Len(packet) \in Nat
      /\ faults \in Nat /\ MaxSends \in Nat /\ end_rcvd \in BOOLEAN
  BY <1>3, Typing DEF TypeOK
<1>5. /\ Line(sent, at, t, damaged)
      /\ Len(fifo) \in Nat \ {0} /\ Len(t) = Len(fifo) - 1
      /\ d = fifo[1] /\ d \in Data
      /\ \A i \in 1 .. Len(t) : t[i] = fifo[i + 1]
      /\ \A i \in 1 .. Len(t) + 1 : PlaceAt(t, at, i) = PlaceAt(fifo, at, i + 1)
  BY <1>1, <1>2, LineRead
<1>6. PICK p, q : p = Due /\ q = PlaceAt(fifo, at, 2)
  OBVIOUS
<1>7. Due' = q
  <2>1. 1 \in 1 .. Len(t) + 1 /\ 1 + 1 = 2
    BY <1>5
  <2>2. PlaceAt(t, at, 1) = q
    BY <1>5, <1>6, <2>1
  <2>3. QED
    BY <1>1, <2>2 DEF Due, PlaceAt
<1>8. /\ Valid(sent, p) /\ p \in Place /\ q \in Place /\ Before(p, q)
      /\ Valid(sent, q) \/ q = First(MaxSends + 1)
  <2>1. 1 \in 1 .. Len(fifo) + 1 /\ 2 \in 1 .. Len(fifo) + 1 /\ 1 < 2
    BY <1>5
  <2>2. Valid(sent, p) /\ p \in Place
    BY <1>2, <1>6 DEF Valid
  <2>3. Before(PlaceAt(fifo, at, 1), PlaceAt(fifo, at, 2))
    BY <1>2, <2>1 DEF Line
  <2>4. q \in Place
    BY <1>2, <1>6, <2>1, LinePlaces
  <2>5. Valid(sent, q) \/ q = First(MaxSends + 1)
    <3>1. CASE 2 \in 1 .. Len(fifo)
      <4>1. q = fifo[2].place
        BY <1>2, <1>6, <3>1, LinePlaces
      <4>2. QED
        BY <1>2, <3>1, <4>1 DEF Line
    <3>2. CASE 2 \notin 1 .. Len(fifo)
      <4>1. q = at
        BY <1>5, <1>6, <3>2 DEF PlaceAt
      <4>2. QED
        BY <1>2, <4>1 DEF Line
    <3>3. QED
      BY <3>1, <3>2
  <2>6. QED
    BY <1>6, <2>2, <2>3, <2>4, <2>5 DEF Due
<1> HIDE DEF d, t
<1>9. PICK ph2, er2, esc2, pk2 : ph2 = phase' /\ er2 = end_rcvd' /\ esc2 = escaped' /\ pk2 = packet'
  OBVIOUS
<1>10. Reads(d, end_rcvd, escaped, packet, ph2, er2, esc2, pk2) /\ d.place = p
  BY <1>2, <1>6, <1>9
<1>11. /\ \A i \in 1 .. Len(pk2) : (i \in 1 .. Len(packet) /\ pk2[i] = packet[i]) \/ pk2[i].place = p
       /\ ph2 \in {"recv", "parse"}
       /\ ph2 = "parse" => d.b = END /\ pk2 = packet /\ packet # << >>
  BY <1>4, <1>5, <1>8, <1>10, ReadsGrows
<1>12. OneFault(sent, fifo, faults)
  BY DEF PastInv
<1>13. \A i \in 1 .. Len(t) : t[i] = fifo[i + 1] /\ i + 1 \in 1 .. Len(fifo) /\ i + 1 # 1
  BY <1>5
<1>14. OneFault(sent, t, faults)
  <2>1. \A i \in 1 .. Len(t) : ~IsTrue(sent, t[i]) => faults > 0
    BY <1>12, <1>13 DEF OneFault
  <2>2. ASSUME NEW i \in 1 .. Len(t), NEW j \in 1 .. Len(t), ~IsTrue(sent, t[i]), ~IsTrue(sent, t[j])
        PROVE  i = j
    <3>1. i + 1 = j + 1
      BY <1>12, <1>13, <2>2 DEF OneFault
    <3>2. QED
      BY <3>1
  <2>3. QED
    BY <2>1, <2>2 DEF OneFault
<1>15. p.frame \in Nat /\ q.frame \in Nat /\ p.frame <= q.frame
  BY <1>4, <1>8 DEF Before, Place
<1>16. 1 \in 1 .. Len(fifo)
  BY <1>5
<1>17. ASSUME NEW h \in 1 .. MaxSends, Before(First(h), p), IsTrue(sent, d), d.b = END
       PROVE  q.frame > h
  <2>1. CharOf(sent, p) = END
    BY <1>10, <1>17 DEF IsTrue
  <2>2. QED
    BY <1>4, <1>8, <1>17, <2>1, EndsFrame
<1>18. ASSUME NEW h \in 1 .. MaxSends, Passed(sent, p, fifo, faults, packet, end_rcvd, h)
       PROVE  Passed(sent, q, t, faults, pk2, er2, h)
  <2>1. CASE p.frame > h /\ \A i \in 1 .. Len(packet) : packet[i].place.frame > h
    <3>1. q.frame > h
      BY <1>15, <2>1
    <3>2. \A i \in 1 .. Len(pk2) : pk2[i].place.frame > h
      BY <1>11, <2>1
    <3>3. QED
      BY <3>1, <3>2 DEF Passed
  <2>2. CASE Ends(sent, p, fifo, faults, h) /\ packet = << >> /\ ~end_rcvd
    <3>1. faults > 0 /\ Before(First(h), p) /\ \A i \in 1 .. Len(fifo) : IsTrue(sent, fifo[i])
      BY <2>2 DEF Ends
    <3>2. IsTrue(sent, d) /\ \A i \in 1 .. Len(t) : IsTrue(sent, t[i])
      BY <1>5, <1>13, <1>16, <3>1
    <3>3. Before(First(h), q)
      <4>1. First(h) \in Place
        BY <1>4, StartIs DEF First
      <4>2. QED
        BY <1>8, <3>1, <4>1, BeforeOrder
    <3>4. pk2 = << >> /\ (er2 = end_rcvd \/ d.b = END)
      <4>1. \A e : StoreIn(end_rcvd, packet, e) = << >>
        BY <2>2 DEF StoreIn
      <4>2. QED
        BY <1>10, <2>2, <4>1, Zenon DEF Reads
    <3>5. CASE d.b = END
      <4>1. q.frame > h
        BY <1>17, <3>1, <3>2, <3>5
      <4>2. 1 .. Len(<< >>) = {}
        OBVIOUS
      <4>3. QED
        BY <3>4, <4>1, <4>2 DEF Passed
    <3>6. CASE er2 = end_rcvd
      <4>1. Ends(sent, q, t, faults, h)
        BY <3>1, <3>2, <3>3 DEF Ends
      <4>2. QED
        BY <2>2, <3>4, <3>6, <4>1 DEF Passed
    <3>7. QED
      BY <3>4, <3>5, <3>6
  <2>3. QED
    BY <1>18, <2>1, <2>2 DEF Passed
<1>19. ASSUME ph2 = "parse"
       PROVE  LET f == pk2[Len(pk2)].place.frame IN
              q.frame > f \/ Ends(sent, q, t, faults, f)
  <2>1. d.b = END /\ pk2 = packet /\ packet # << >>
    BY <1>11, <1>19
  <2>2. Len(packet) \in 1 .. Len(packet)
    BY <1>4, <2>1, EmptySeq
  <2>3. PICK r : r = packet[Len(packet)].place
    OBVIOUS
  <2>4. Valid(sent, r) /\ Before(r, p)
    BY <1>3, <1>6, <2>2, <2>3, Zenon DEF ReaderInv, Reader
  <2>5. r \in Place /\ r.frame \in 1 .. MaxSends /\ r.pos \in Nat /\ r.part \in Nat /\ r.part >= 1
    BY <2>4 DEF Valid, Place
  <2>6. Before(First(r.frame), p) \/ p.frame > r.frame
    <3>1. First(r.frame).frame = r.frame /\ First(r.frame).pos = 0 /\ First(r.frame).part = 1
      BY DEF First, Start
    <3>2. p.frame \in Nat /\ p.pos \in Nat /\ p.part \in Nat
      BY <1>8 DEF Place
    <3>3. \/ r.frame < p.frame
          \/ r.frame = p.frame /\ (r.pos < p.pos \/ (r.pos = p.pos /\ r.part < p.part))
      BY <2>4 DEF Before
    <3>4. CASE r.frame < p.frame
      BY <2>5, <3>2, <3>4
    <3>5. CASE r.frame = p.frame /\ (r.pos < p.pos \/ (r.pos = p.pos /\ r.part < p.part))
      <4>1. p.pos > 0 \/ (p.pos = 0 /\ p.part > 1)
        BY <2>5, <3>2, <3>5
      <4>2. QED
        BY <3>1, <3>2, <3>5, <4>1 DEF Before
    <3>6. QED
      BY <3>3, <3>4, <3>5
  <2>7. CASE p.frame > r.frame
    <3>1. q.frame > r.frame
      BY <1>4, <1>15, <2>5, <2>7
    <3>2. QED
      BY <2>1, <2>3, <3>1
  <2>8. CASE Before(First(r.frame), p) /\ IsTrue(sent, d)
    <3>1. q.frame > r.frame
      BY <1>17, <2>1, <2>5, <2>8
    <3>2. QED
      BY <2>1, <2>3, <3>1
  <2>9. CASE Before(First(r.frame), p) /\ ~IsTrue(sent, d)
    <3>1. ~IsTrue(sent, fifo[1])
      BY <1>5, <2>9
    <3>2. faults > 0 /\ \A i \in 1 .. Len(t) : IsTrue(sent, t[i])
      BY <1>12, <1>13, <1>16, <3>1 DEF OneFault
    <3>3. Before(First(r.frame), q)
      <4>1. First(r.frame) \in Place
        BY <1>4, <2>5, StartIs DEF First
      <4>2. QED
        BY <1>8, <2>9, <4>1, BeforeOrder
    <3>4. Ends(sent, q, t, faults, r.frame)
      BY <3>2, <3>3 DEF Ends
    <3>5. QED
      BY <2>1, <2>3, <3>4
  <2>10. QED
    BY <2>6, <2>7, <2>8, <2>9
<1>20. ~Under' /\ phase' # "handle"
  BY <1>9, <1>11 DEF Under
<1>21. OneFault(sent, fifo, faults)'
  BY <1>1, <1>14
<1>22. \A h \in 1 .. MaxSends :
         Passed(sent, Due, fifo, faults, packet, end_rcvd, h) =>
           Passed(sent', Due', fifo', faults', packet', end_rcvd', h)
  BY <1>1, <1>6, <1>7, <1>9, <1>18
<1>23. phase' = "parse" =>
         LET f == packet'[Len(packet')].place.frame IN
         Due'.frame > f \/ Ends(sent', Due', fifo', faults', f)
  BY <1>1, <1>7, <1>9, <1>19
<1>24. QED
  BY <1>1, <1>20, <1>21, <1>22, <1>23, Carried

LEMMA ParsePast ==
  ASSUME Inv, PastInv, Parse
  PROVE  PastInv'
<1> DEFINE f == packet[Len(packet)].place.frame
<1>1. /\ phase = "parse"
      /\ UNCHANGED <<fifo, faults, sent, at, damaged, handled, installed>>
  BY DEF Parse, line, card
<1>2. /\ packet # << >> /\ packet \in Seq(Data) /\ phase' # "parse"
      /\ packet' = << >> /\ end_rcvd' = FALSE
      /\ Under' => msg'.of = f
  BY ParseInv
<1>3. Due' = Due /\ Len(packet) \in 1 .. Len(packet) /\ 1 .. Len(<< >>) = {}
  BY <1>1, <1>2, EmptySeq DEF Due, PlaceAt
<1>4. PICK p, g : p = Due /\ g = f
  OBVIOUS
<1>5. \A h : Passed(sent, p, fifo, faults, packet, end_rcvd, h) =>
               Passed(sent, p, fifo, faults, << >>, FALSE, h) /\ g > h
  <2>1. ASSUME NEW h, Passed(sent, p, fifo, faults, packet, end_rcvd, h)
        PROVE  Passed(sent, p, fifo, faults, << >>, FALSE, h) /\ g > h
    <3>1. p.frame > h /\ \A i \in 1 .. Len(packet) : packet[i].place.frame > h
      BY <1>2, <2>1 DEF Passed
    <3>2. g > h
      BY <1>3, <1>4, <3>1
    <3>3. QED
      BY <1>3, <3>1, <3>2 DEF Passed
  <2>2. QED
    BY <2>1
<1>6. p.frame > g \/ Ends(sent, p, fifo, faults, g)
  BY <1>1, <1>4 DEF PastInv
<1>7. Passed(sent, p, fifo, faults, << >>, FALSE, g)
  BY <1>3, <1>6 DEF Passed
<1>8. /\ OneFault(sent, fifo, faults)
      /\ \A i \in 1 .. Len(handled) : Passed(sent, p, fifo, faults, packet, end_rcvd, handled[i].of)
      /\ \A i, j \in 1 .. Len(handled) : i < j => handled[i].of < handled[j].of
  BY <1>4 DEF PastInv
<1>9. \A i \in 1 .. Len(handled) : Passed(sent, p, fifo, faults, << >>, FALSE, handled[i].of) /\ g > handled[i].of
  BY <1>5, <1>8
<1>10. \A i \in 1 .. Len(handled) : handled[i].of < g
  BY <1>9
<1>11. phase' = "handle" => Under'
  BY DEF Under
<1> HIDE DEF f
<1>12. /\ OneFault(sent', fifo', faults')
       /\ \A i \in 1 .. Len(handled') :
            Passed(sent', Due', fifo', faults', packet', end_rcvd', handled'[i].of)
       /\ \A i, j \in 1 .. Len(handled') : i < j => handled'[i].of < handled'[j].of
  BY <1>1, <1>2, <1>3, <1>4, <1>8, <1>9
<1>13. Under' => Passed(sent', Due', fifo', faults', packet', end_rcvd', msg'.of)
  BY <1>1, <1>2, <1>3, <1>4, <1>7
<1>14. phase' = "handle" => \A i \in 1 .. Len(handled') : handled'[i].of < msg'.of
  BY <1>1, <1>2, <1>4, <1>10, <1>11
<1>15. QED
  BY <1>2, <1>12, <1>13, <1>14 DEF PastInv

LEMMA HandlePast ==
  ASSUME Inv, PastInv, handle_message
  PROVE  PastInv'
<1>1. /\ phase = "handle" /\ phase' \in {"destroy", "wild"}
      /\ UNCHANGED <<fifo, end_rcvd, escaped, packet, msg, heap, faults, sent, at, damaged>>
  <2>1. HandleProgram \/ HandlePoint \/ HandleOther
    BY DEF handle_message
  <2>2. phase' \in {"destroy", "wild"}
    BY <2>1 DEF HandleProgram, HandlePoint, HandleOther
  <2>3. QED
    BY <2>2 DEF handle_message, line
<1>2. handled' = handled \/ (handled' = Append(handled, msg) /\ msg.of \in 1 .. MaxSends)
  BY HandleInv
<1>3. Under /\ Due' = Due /\ phase' # "parse" /\ phase' # "handle"
  BY <1>1 DEF Under, Due, PlaceAt
<1>4. PICK p : p = Due
  OBVIOUS
<1>5. /\ OneFault(sent, fifo, faults)
      /\ \A i \in 1 .. Len(handled) : Passed(sent, p, fifo, faults, packet, end_rcvd, handled[i].of)
      /\ Passed(sent, p, fifo, faults, packet, end_rcvd, msg.of)
      /\ \A i \in 1 .. Len(handled) : handled[i].of < msg.of
      /\ \A i, j \in 1 .. Len(handled) : i < j => handled[i].of < handled[j].of
  BY <1>1, <1>3, <1>4 DEF PastInv
<1>6. PICK k : k = handled'
  OBVIOUS
<1>7. /\ \A i \in 1 .. Len(k) : Passed(sent, p, fifo, faults, packet, end_rcvd, k[i].of)
      /\ \A i, j \in 1 .. Len(k) : i < j => k[i].of < k[j].of
  <2>1. CASE k = handled
    BY <1>5, <2>1
  <2>2. CASE k = Append(handled, msg)
    <3>1. handled \in Seq({m \in Message : m.of > 0})
      BY DEF Inv, TypeOK
    <3>2. Len(handled) \in Nat /\ Len(k) = Len(handled) + 1 /\ k[Len(handled) + 1] = msg
          /\ \A i \in 1 .. Len(handled) : k[i] = handled[i]
      BY <2>2, <3>1, AppendProperties, LenProperties
    <3>3. \A i \in 1 .. Len(k) : i \in 1 .. Len(handled) \/ i = Len(handled) + 1
      BY <3>2
    <3>4. \A i \in 1 .. Len(k) : Passed(sent, p, fifo, faults, packet, end_rcvd, k[i].of)
      BY <1>5, <3>2, <3>3
    <3>5. ASSUME NEW i \in 1 .. Len(k), NEW j \in 1 .. Len(k), i < j
          PROVE  k[i].of < k[j].of
      <4>1. i \in 1 .. Len(handled)
        BY <3>2, <3>5
      <4>2. CASE j \in 1 .. Len(handled)
        BY <1>5, <3>2, <3>5, <4>1, <4>2
      <4>3. CASE j = Len(handled) + 1
        BY <1>5, <3>2, <4>1, <4>3
      <4>4. QED
        BY <3>3, <4>2, <4>3
    <3>6. QED
      BY <3>4, <3>5
  <2>3. QED
    BY <1>2, <1>6, <2>1, <2>2
<1>8. /\ OneFault(sent', fifo', faults')
      /\ Passed(sent', Due', fifo', faults', packet', end_rcvd', msg'.of)
      /\ \A i \in 1 .. Len(handled') :
           Passed(sent', Due', fifo', faults', packet', end_rcvd', handled'[i].of)
  BY <1>1, <1>3, <1>4, <1>5, <1>6, <1>7
<1>9. \A i, j \in 1 .. Len(handled') : i < j => handled'[i].of < handled'[j].of
  BY <1>6, <1>7
<1>10. QED
  BY <1>3, <1>8, <1>9 DEF PastInv

LEMMA RestPast ==
  ASSUME Inv, PastInv, get_exec_mode \/ go_stand_alone \/ destroy_msg \/ UNCHANGED vars
  PROVE  PastInv'
<1>1. /\ UNCHANGED <<sent, at, fifo, end_rcvd, packet, faults, handled>>
      /\ (Under' => Under /\ msg' = msg) /\ (phase' = "handle" => phase = "handle")
      /\ (phase' = "parse" => phase = "parse")
  <2>1. CASE get_exec_mode \/ go_stand_alone
    BY <2>1 DEF get_exec_mode, go_stand_alone, line, card, Under
  <2>2. CASE destroy_msg
    BY <2>2 DEF destroy_msg, line, card, Under
  <2>3. CASE UNCHANGED vars
    BY <2>3 DEF vars, Under
  <2>4. QED
    BY <2>1, <2>2, <2>3
<1>2. Due' = Due
  BY <1>1 DEF Due, PlaceAt
<1>3. OneFault(sent, fifo, faults)'
  BY <1>1 DEF PastInv
<1>4. phase' = "parse" =>
        LET f == packet'[Len(packet')].place.frame IN
        Due'.frame > f \/ Ends(sent', Due', fifo', faults', f)
  BY <1>1, <1>2 DEF PastInv
<1>5. \A h \in 1 .. MaxSends :
        Passed(sent, Due, fifo, faults, packet, end_rcvd, h) =>
          Passed(sent', Due', fifo', faults', packet', end_rcvd', h)
  BY <1>1, <1>2
<1>6. QED
  BY <1>1, <1>3, <1>4, <1>5, Carried

(* The one fault being the power failure, no character was wrong.            *)
LEMMA PowerPast ==
  ASSUME MaxFaults <= 1, Inv, PastInv, PowerCycle
  PROVE  PastInv'
<1>1. /\ faults < MaxFaults /\ phase' = "choose"
      /\ packet' = << >> /\ end_rcvd' = FALSE /\ fifo' = << >>
      /\ UNCHANGED <<sent, at, handled, installed>>
  BY DEF PowerCycle, NewPacket
<1>2. faults = 0
  <2>1. faults \in 0 .. MaxFaults /\ MaxFaults \in Nat
    BY SizeAssumption DEF Inv, TypeOK
  <2>2. QED
    BY <1>1, <2>1
<1>3. Line(sent, at, fifo, damaged)
  BY DEF Inv, LineInv
<1>4. 1 .. Len(<< >>) = {} /\ Len(<< >>) = 0
  OBVIOUS
<1>5. Due' = at
  BY <1>1, <1>4 DEF Due, PlaceAt
<1>6. Due.frame \in Nat /\ at.frame \in Nat /\ Due.frame <= at.frame /\ MaxSends \in Nat
  <2>1. Len(fifo) \in Nat /\ at \in Place /\ MaxSends \in Nat
    BY <1>3, LinePlaces, SizeAssumption DEF Line
  <2>2. CASE Len(fifo) = 0
    BY <2>1, <2>2 DEF Due, PlaceAt, Place
  <2>3. CASE Len(fifo) > 0
    <3>1. 1 \in 1 .. Len(fifo) + 1 /\ Len(fifo) + 1 \in 1 .. Len(fifo) + 1 /\ 1 < Len(fifo) + 1
      BY <2>1, <2>3
    <3>2. Before(PlaceAt(fifo, at, 1), PlaceAt(fifo, at, Len(fifo) + 1))
      BY <1>3, <3>1 DEF Line
    <3>3. PlaceAt(fifo, at, Len(fifo) + 1) = at /\ Due \in Place
      BY <1>3, <3>1, LinePlaces DEF Due
    <3>4. QED
      BY <2>1, <3>2, <3>3 DEF Before, Due, Place
  <2>4. QED
    BY <2>1, <2>2, <2>3
<1>7. OneFault(sent, fifo, faults)'
  <2>1. OneFault(sent', << >>, faults')
    BY <1>4 DEF OneFault
  <2>2. QED
    BY <1>1, <2>1
<1>8. ASSUME NEW h \in 1 .. MaxSends, Passed(sent, Due, fifo, faults, packet, end_rcvd, h)
      PROVE  Passed(sent', Due', fifo', faults', packet', end_rcvd', h)
  <2>1. Due.frame > h
    BY <1>2, <1>8 DEF Passed, Ends
  <2>2. at.frame > h
    BY <1>6, <2>1
  <2>3. Passed(sent', at, fifo', faults', << >>, FALSE, h)
    BY <1>4, <2>2 DEF Passed
  <2>4. QED
    BY <1>1, <1>5, <2>3
<1>9. ~Under' /\ phase' # "handle" /\ phase' # "parse"
  BY <1>1 DEF Under
<1>10. QED
  BY <1>1, <1>7, <1>8, <1>9, Carried

LEMMA InitPast ==
  ASSUME Init
  PROVE  PastInv
<1>1. fifo = << >> /\ phase = "choose" /\ handled = << >>
  BY DEF Init
<1>2. 1 .. Len(<< >>) = {}
  OBVIOUS
<1>3. OneFault(sent, fifo, faults)
  BY <1>1, <1>2 DEF OneFault
<1>4. ~Under /\ 1 .. Len(handled) = {}
  BY <1>1, <1>2 DEF Under
<1>5. QED
  BY <1>1, <1>3, <1>4 DEF PastInv

LEMMA NextPast ==
  ASSUME MaxFaults <= 1, Inv, PastInv, [Next]_vars
  PROVE  PastInv'
<1>1. \/ HostSends \/ get_exec_mode \/ go_stand_alone \/ recv_packet \/ Parse \/ handle_message
      \/ destroy_msg \/ PowerCycle \/ UNCHANGED vars
  BY Zenon DEF Next, Camera
<1>2. QED
  BY <1>1, HostSendsPast, RecvPast, ParsePast, HandlePast, RestPast, PowerPast, Zenon

(* Messages are carried out in the order in which they were sent and once,   *)
(* however many characters overran the FIFO, if at most one character was    *)
(* garbled or dropped by the line or the power failed once.                  *)
THEOREM InOrderHolds ==
  ASSUME MaxFaults <= 1
  PROVE  Spec => []InOrder
<1>1. Init => Inv /\ PastInv
  BY InitInv, InitPast
<1>2. Inv /\ PastInv /\ [Next]_vars => Inv' /\ PastInv'
  BY NextInv, NextPast
<1>3. Inv /\ PastInv => InOrder
  <2>1. SUFFICES ASSUME Inv, PastInv
                 PROVE  InOrder
    OBVIOUS
  <2>2. DOMAIN handled = 1 .. Len(handled)
    <3>1. handled \in Seq({m \in Message : m.of > 0})
      BY <2>1 DEF Inv, TypeOK
    <3>2. QED
      BY <3>1, LenProperties
  <2>3. QED
    BY <2>1, <2>2 DEF InOrder, PastInv
<1>4. QED
  BY <1>1, <1>2, <1>3, PTL DEF Spec

=============================================================================
