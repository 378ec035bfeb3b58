------------------------------ MODULE WireProofs ------------------------------
(***************************************************************************)
(* Wire keeps the invariant of WireInvariant, and with it its properties,  *)
(* for any number of participants and clients, any commands and spelling,  *)
(* and streams that are cut anywhere; and it implements Participant.       *)
(***************************************************************************)
EXTENDS FramingProofs

-----------------------------------------------------------------------------
(***************************************************************************)
(* How the work thread reads a command.                                    *)
(***************************************************************************)
\* starts is the function that the layout of the text gives.
LEMMA Starts ==
  ASSUME NEW ws \in Seq(Seq(Nat))
  PROVE  starts(ws) \in Bases(ws)
<1>1. PICK n, len : /\ n \in Nat /\ n = Len(ws) /\ len \in [1 .. n -> Nat]
                            /\ \A k \in 1 .. n : len[k] = Len(getStringMessage(ws[k]))
  <2> DEFINE l == [k \in 1 .. Len(ws) |-> Len(getStringMessage(ws[k]))]
  <2>1. \A k \in 1 .. Len(ws) : Len(getStringMessage(ws[k])) \in Nat
    BY StringLayout
  <2>2. l \in [1 .. Len(ws) -> Nat] /\ Len(ws) \in Nat
    BY <2>1
  <2>3. \A k \in 1 .. Len(ws) : l[k] = Len(getStringMessage(ws[k]))
    OBVIOUS
  <2> HIDE DEF l
  <2> QED BY <2>2, <2>3
<1>2. PICK base \in Bases(ws) : TRUE
  BY ArrayLayout
<1>3. /\ base \in [0 .. n -> Nat] /\ base[0] = 3 + Len(to_string(n))
      /\ \A k \in 1 .. n : base[k] = base[k - 1] + len[k]
  <2>1. Len(to_string(n)) \in Nat
    BY NumberBytes
  <2>2. Len(to_string(n)) + 3 = 3 + Len(to_string(n))
    BY <2>1
  <2> QED BY <1>1, <1>2, <2>2 DEF Bases
<1> DEFINE Start(start) == start = [k \in 0 .. n |-> IF k = 0 THEN 3 + Len(to_string(n))
                                                     ELSE start[k - 1] + len[k]]
<1>4. Start(base)
  <2>1. base = [k \in 0 .. n |-> base[k]]
    BY <1>3
  <2>2. \A k \in 0 .. n : base[k] = IF k = 0 THEN 3 + Len(to_string(n)) ELSE base[k - 1] + len[k]
    <3>1. \A k \in 0 .. n : k = 0 \/ k \in 1 .. n
      BY <1>1
    <3> QED BY <1>3, <3>1
  <2> QED BY <2>1, <2>2
<1>5. starts(ws) = CHOOSE start : Start(start)
  <2>1. starts(ws) = CHOOSE start : start = [k \in 0 .. n |->
                        IF k = 0 THEN 3 + Len(to_string(n))
                        ELSE start[k - 1] + Len(getStringMessage(ws[k]))]
    BY <1>1 DEF starts
  <2>2. ASSUME NEW start
        PROVE  [k \in 0 .. n |-> IF k = 0 THEN 3 + Len(to_string(n))
                                 ELSE start[k - 1] + Len(getStringMessage(ws[k]))]
             = [k \in 0 .. n |-> IF k = 0 THEN 3 + Len(to_string(n)) ELSE start[k - 1] + len[k]]
    <3>1. \A k \in 0 .. n : k = 0 \/ k \in 1 .. n
      BY <1>1
    <3> QED BY <1>1, <3>1
  <2> QED BY <2>1, <2>2
<1>6. ASSUME NEW start, Start(start)
      PROVE  start = base
  <2>1. start = [k \in 0 .. n |-> start[k]] /\ base = [k \in 0 .. n |-> base[k]]
    BY <1>3, <1>6
  <2> DEFINE Same == {k \in 0 .. n : start[k] = base[k]}
  <2>2. ASSUME NEW k \in 0 .. n, \A j \in 0 .. k - 1 : j \in Same
        PROVE  k \in Same
    <3>1. CASE k = 0
      BY <1>3, <1>6, <3>1
    <3>2. CASE k # 0
      <4>1. k \in 1 .. n /\ k - 1 \in 0 .. k - 1
        BY <1>1, <3>2
      <4>2. start[k - 1] = base[k - 1]
        BY <2>2, <4>1
      <4>3. start[k] = start[k - 1] + len[k]
        BY <1>6, <3>2
      <4> QED BY <1>3, <4>1, <4>2, <4>3
    <3> QED BY <3>1, <3>2
  <2> HIDE DEF Same
  <2>3. \A k \in 0 .. n : k \in Same
    BY <1>1, <2>2, Induction
  <2>4. \A k \in 0 .. n : start[k] = base[k]
    BY <2>3 DEF Same
  <2> QED BY <2>1, <2>4
<1> HIDE DEF Start
<1>7. (CHOOSE start : Start(start)) = base
  <2>1. Start(CHOOSE start : Start(start))
    BY <1>4
  <2> QED BY <1>6, <2>1
<1> QED BY <1>2, <1>5, <1>7

\* A line of the text T after its first a bytes: c, the digits d, CR and LF.
LineAt(T, a, c, d) ==
    /\ a \in Nat /\ d \in Seq(Digit) /\ d \in Seq(Nat) /\ a + Len(d) + 3 <= Len(T)
    /\ T[a + 1] = c
    /\ \A i \in 1 .. Len(d) : T[a + 1 + i] = d[i]
    /\ T[a + 2 + Len(d)] = CR
    /\ T[a + 3 + Len(d)] = LF

LEMMA LineThere ==
  ASSUME NEW T \in Seq(Nat), NEW a \in Nat, NEW c \in Nat, NEW n \in Nat,
         AtPos(T, a, line(c, n))
  PROVE  LineAt(T, a, c, to_string(n))
<1>1. PICK d, m : d = to_string(n) /\ m = Len(d) /\ m \in Nat
  BY NumberBytes
<1>2. PICK s \in Seq(Nat) : s = line(c, n)
  BY LineLayout
<1>3. /\ Len(s) = m + 3 /\ s[1] = c /\ AtPos(s, 1, d) /\ s[m + 2] = CR /\ s[m + 3] = LF
      /\ AtPos(T, a, s)
  BY <1>1, <1>2, LineLayout
<1>4. a + (m + 3) <= Len(T) /\ \A i \in 1 .. m + 3 : T[a + i] = s[i]
  BY <1>3 DEF AtPos
<1>5. T[a + 1] = c
  BY <1>1, <1>3, <1>4
<1>6. \A i \in 1 .. m : T[a + 1 + i] = d[i]
  <2>1. ASSUME NEW i \in 1 .. m
        PROVE  T[a + 1 + i] = d[i]
    <3>1. 1 + i \in 1 .. m + 3 /\ a + (1 + i) = a + 1 + i
      BY <1>1
    <3>2. s[1 + i] = d[i]
      BY <1>1, <1>3 DEF AtPos
    <3> QED BY <1>4, <3>1, <3>2
  <2> QED BY <2>1
<1>7. T[a + 2 + m] = CR /\ T[a + 3 + m] = LF
  <2>1. m + 2 \in 1 .. m + 3 /\ m + 3 \in 1 .. m + 3
        /\ a + (m + 2) = a + 2 + m /\ a + (m + 3) = a + 3 + m
    BY <1>1
  <2> QED BY <1>3, <1>4, <2>1
<1>8. d \in Seq(Digit) /\ d \in Seq(Nat)
  BY <1>1, NumberText, NumberBytes
<1>9. a + m + 3 <= Len(T)
  BY <1>1, <1>4
<1> QED BY <1>1, <1>5, <1>6, <1>7, <1>8, <1>9 DEF LineAt

\* A word m of the command after a bytes of T, and the command goes on after b.
WordAt(T, a, m, b) ==
    /\ LineAt(T, a, DOLLAR, to_string(Len(m)))
    /\ b \in Nat /\ b <= Len(T) /\ b = a + Len(to_string(Len(m))) + Len(m) + 5
    /\ \A i \in 1 .. Len(m) : T[a + 3 + Len(to_string(Len(m))) + i] = m[i]
    /\ T[b - 1] = CR /\ T[b] = LF

LEMMA WordThere ==
  ASSUME NEW T \in Seq(Nat), NEW a \in Nat, NEW m \in Seq(Nat),
         AtPos(T, a, getStringMessage(m))
  PROVE  WordAt(T, a, m, a + Len(getStringMessage(m)))
<1>1. PICK L, n, s, b : /\ L = Len(to_string(Len(m))) /\ n = Len(m) /\ s = getStringMessage(m)
                        /\ L \in Nat /\ n \in Nat /\ s \in Seq(Nat) /\ Len(s) = L + n + 5
                        /\ b = a + Len(s)
  <2>1. /\ Len(m) \in Nat /\ Len(to_string(Len(m))) \in Nat
        /\ getStringMessage(m) \in Seq(Nat)
        /\ Len(getStringMessage(m)) = Len(to_string(Len(m))) + Len(m) + 5
    BY NumberBytes, StringLayout
  <2> HIDE DEF getStringMessage
  <2> QED BY <2>1
<1>2. /\ AtPos(s, 0, line(DOLLAR, n)) /\ AtPos(s, L + 3, m) /\ AtPos(s, L + 3 + n, CRLF)
      /\ AtPos(T, a, s)
  BY <1>1, StringLayout
<1>3. AtPos(T, a + 0, line(DOLLAR, n)) /\ AtPos(T, a + (L + 3), m) /\ AtPos(T, a + (L + 3 + n), CRLF)
  <2>1. line(DOLLAR, n) \in Seq(Nat) /\ CRLF \in Seq(Nat)
    BY <1>1, LineLayout DEF CRLF, CR, LF, DOLLAR
  <2>2. L + 3 \in Nat /\ L + 3 + n \in Nat
    BY <1>1
  <2> QED BY <1>1, <1>2, <2>1, <2>2, AtWithin
<1>4. LineAt(T, a, DOLLAR, to_string(n))
  <2>1. a + 0 = a /\ DOLLAR \in Nat
    BY DEF DOLLAR
  <2> QED BY <1>1, <1>3, <2>1, LineThere
<1>5. \A i \in 1 .. n : T[a + 3 + L + i] = m[i]
  <2>1. ASSUME NEW i \in 1 .. n
        PROVE  T[a + 3 + L + i] = m[i]
    <3>1. a + (L + 3) + i = a + 3 + L + i
      BY <1>1
    <3> QED BY <1>1, <1>3, <3>1 DEF AtPos
  <2> QED BY <2>1
<1>6. Len(CRLF) = 2 /\ CRLF[1] = CR /\ CRLF[2] = LF
  BY DEF CRLF
<1>7. a + (L + 3 + n) + 2 <= Len(T) /\ T[a + (L + 3 + n) + 1] = CR /\ T[a + (L + 3 + n) + 2] = LF
  BY <1>3, <1>6 DEF AtPos
<1>8. /\ b = a + (L + 3 + n) + 2 /\ b - 1 = a + (L + 3 + n) + 1 /\ b = a + L + n + 5 /\ b \in Nat
  BY <1>1
<1> QED BY <1>1, <1>4, <1>5, <1>7, <1>8 DEF WordAt

\* The text T of the command ws, whose words begin after base.
Layout(ws, T, base) ==
    /\ T \in Seq(Nat)
    /\ LineAt(T, 0, STAR, to_string(Len(ws)))
    /\ base[0] = 3 + Len(to_string(Len(ws)))
    /\ \A k \in 0 .. Len(ws) : base[k] \in Nat /\ base[k] <= Len(T)
    /\ \A k \in 0 .. Len(ws) - 1 : WordAt(T, base[k], ws[k + 1], base[k + 1])

LEMMA LayoutThere ==
  ASSUME NEW ws \in Seq(Seq(Nat))
  PROVE  Layout(ws, getRESPArry(ws), starts(ws))
<1>1. PICK T \in Seq(Nat) : T = getRESPArry(ws) /\ AtPos(T, 0, line(STAR, Len(ws)))
  BY ArrayLayout
<1>2. PICK base, n : base = starts(ws) /\ base \in Bases(ws) /\ n = Len(ws) /\ n \in Nat
  BY Starts
<1>3. /\ base \in [0 .. n -> Nat] /\ base[0] = Len(to_string(n)) + 3 /\ base[n] = Len(T)
      /\ \A i \in 1 .. n : base[i] = base[i - 1] + Len(getStringMessage(ws[i]))
                           /\ AtPos(T, base[i - 1], getStringMessage(ws[i]))
  BY <1>1, <1>2 DEF Bases
<1>4. LineAt(T, 0, STAR, to_string(n))
  BY <1>1, <1>2, LineThere DEF STAR
<1>5. base[0] = 3 + Len(to_string(n))
  <2>1. Len(to_string(n)) \in Nat
    BY <1>2, NumberBytes
  <2>2. Len(to_string(n)) + 3 = 3 + Len(to_string(n))
    BY <2>1
  <2> QED BY <1>3, <2>2
<1>6. ASSUME NEW k \in 0 .. n - 1
      PROVE  WordAt(T, base[k], ws[k + 1], base[k + 1])
  <2>1. k + 1 \in 1 .. n /\ (k + 1) - 1 = k /\ k \in 0 .. n
    BY <1>2
  <2>2. /\ base[k + 1] = base[k] + Len(getStringMessage(ws[k + 1])) /\ base[k] \in Nat
        /\ AtPos(T, base[k], getStringMessage(ws[k + 1])) /\ ws[k + 1] \in Seq(Nat)
    BY <1>2, <1>3, <2>1
  <2> QED BY <2>2, WordThere
<1>7. ASSUME NEW k \in 0 .. n
      PROVE  base[k] \in Nat /\ base[k] <= Len(T)
  <2>1. base[k] \in Nat /\ Len(T) \in Nat
    BY <1>1, <1>3
  <2>2. CASE k = n
    BY <1>3, <2>1, <2>2
  <2>3. CASE k # n
    <3>1. k \in 0 .. n - 1
      BY <1>2, <2>3
    <3>2. WordAt(T, base[k], ws[k + 1], base[k + 1])
      BY <1>6, <3>1
    <3>3. LineAt(T, base[k], DOLLAR, to_string(Len(ws[k + 1])))
      BY <3>2 DEF WordAt
    <3>4. base[k] + Len(to_string(Len(ws[k + 1]))) + 3 <= Len(T) /\ Len(to_string(Len(ws[k + 1]))) \in Nat
      BY <3>3 DEF LineAt
    <3> QED BY <2>1, <3>4
  <2> QED BY <2>2, <2>3
<1> QED BY <1>1, <1>2, <1>4, <1>5, <1>6, <1>7 DEF Layout

LEMMA NextPiece ==
  ASSUME NEW T \in Seq(Nat), NEW pos \in 0 .. Len(T), NEW s \in Seq(Nat), Begins(s, from(T, pos)),
         NEW n \in 0 .. Len(s)
  PROVE  /\ pos + n \in 0 .. Len(T)
         /\ \A i \in 1 .. n : first(s, n)[i] = T[pos + i]
         /\ Begins(rest(s, n), from(T, pos + n))
<1>1. PICK u, m : /\ u = from(T, pos) /\ u \in Seq(Nat) /\ m = Len(s) /\ m \in Nat
                  /\ Len(u) = Len(T) - pos /\ \A i \in 1 .. Len(T) - pos : u[i] = T[pos + i]
  <2>1. pos \in Nat /\ pos <= Len(T)
    OBVIOUS
  <2>2. /\ from(T, pos) \in Seq(Nat) /\ Len(from(T, pos)) = Len(T) - pos
        /\ \A i \in 1 .. Len(T) - pos : from(T, pos)[i] = T[pos + i]
    BY <2>1, FromPos
  <2>3. PICK u : u = from(T, pos)
    OBVIOUS
  <2>4. Len(s) \in Nat
    OBVIOUS
  <2> QED BY <2>2, <2>3, <2>4
<1>2. m <= Len(u) /\ \A i \in 1 .. m : u[i] = s[i]
  BY <1>1 DEF Begins
<1>3. pos + n \in 0 .. Len(T) /\ pos + n \in Nat /\ Len(T) \in Nat /\ pos \in Nat /\ n \in Nat
      /\ n <= m /\ m <= Len(T) - pos
  BY <1>1, <1>2
<1>4. ASSUME NEW i \in 1 .. m
      PROVE  s[i] = T[pos + i]
  <2>1. i \in 1 .. Len(T) - pos
    BY <1>1, <1>3
  <2> QED BY <1>1, <1>2, <2>1
<1>5. ASSUME NEW i \in 1 .. n
      PROVE  first(s, n)[i] = T[pos + i]
  <2>1. i \in 1 .. m
    BY <1>1, <1>3
  <2>2. first(s, n)[i] = s[i]
    BY <1>1, <1>3 DEF first
  <2> QED BY <1>4, <2>1, <2>2
<1>6. PICK v \in Seq(Nat) : /\ v = from(T, pos + n) /\ Len(v) = Len(T) - (pos + n)
                            /\ \A i \in 1 .. Len(T) - (pos + n) : v[i] = T[pos + n + i]
  BY <1>3, FromPos
<1>7. PICK r \in Seq(Nat) : r = rest(s, n) /\ Len(r) = m - n
  BY <1>1, Split
<1>8. ASSUME NEW i \in 1 .. m - n
      PROVE  v[i] = r[i]
  <2>1. r[i] = s[n + i]
    <3>1. r = Win(s, n, m) /\ n \in Nat /\ m \in n .. Len(s)
      BY <1>1, <1>3, <1>7 DEF rest, Win
    <3> QED BY <3>1, Window
  <2>2. n + i \in 1 .. m /\ i \in 1 .. Len(T) - (pos + n) /\ pos + (n + i) = pos + n + i
    <3>1. i \in Nat /\ 1 <= i /\ i <= m - n /\ m \in Nat
      BY <1>1, <1>3
    <3> QED BY <1>3, <3>1
  <2> QED BY <1>4, <1>6, <2>1, <2>2
<1>9. m - n <= Len(T) - (pos + n)
  BY <1>1, <1>3
<1> QED BY <1>3, <1>5, <1>6, <1>7, <1>8, <1>9 DEF Begins

LEMMA NextByte ==
  ASSUME NEW T \in Seq(Nat), NEW pos \in 0 .. Len(T), NEW s \in Seq(Nat), Begins(s, from(T, pos)),
         s # <<>>
  PROVE  /\ pos + 1 \in 0 .. Len(T)
         /\ Head(s) = T[pos + 1] /\ Head(s) \in Nat
         /\ Tail(s) \in Seq(Nat) /\ Begins(Tail(s), from(T, pos + 1))
<1>1. Len(s) \in Nat \ {0} /\ 1 \in 0 .. Len(s)
  BY EmptySeq
<1>2. /\ pos + 1 \in 0 .. Len(T) /\ first(s, 1)[1] = T[pos + 1]
      /\ Begins(rest(s, 1), from(T, pos + 1))
  BY <1>1, NextPiece
<1>3. first(s, 1)[1] = Head(s) /\ Head(s) \in Nat
  BY <1>1 DEF first
<1>4. rest(s, 1) = Tail(s) /\ Tail(s) \in Seq(Nat)
  BY <1>1 DEF rest
<1> QED BY <1>2, <1>3, <1>4

\* The next byte of a line whose digits are being read.
LEMMA DigitByte ==
  ASSUME NEW T, NEW a, NEW c, NEW d, LineAt(T, a, c, d), NEW e \in Seq(Nat), Begins(e, d)
  PROVE  LET b == T[a + 2 + Len(e)]
         IN  \/ b = CR /\ e = d
             \/ /\ b # CR /\ isDigit(b) /\ b \in Nat
                /\ Append(e, b) \in Seq(Nat) /\ Len(Append(e, b)) = Len(e) + 1
                /\ Begins(Append(e, b), d)
<1>1. PICK m, n, b : /\ m = Len(e) /\ n = Len(d) /\ b = T[a + 2 + m] /\ m \in Nat /\ n \in Nat
                     /\ a \in Nat
  <2>1. Len(e) \in Nat /\ Len(d) \in Nat /\ a \in Nat
    BY DEF LineAt
  <2> QED BY <2>1
<1>2. /\ d \in Seq(Digit) /\ d \in Seq(Nat) /\ m <= n /\ \A i \in 1 .. m : d[i] = e[i]
      /\ \A i \in 1 .. n : T[a + 1 + i] = d[i]
      /\ T[a + 2 + n] = CR
  BY <1>1 DEF LineAt, Begins
<1>3. CASE m = n
  <2>1. e = d
    BY <1>1, <1>3, BeginsWhole, <1>2
  <2> QED BY <1>1, <1>2, <1>3, <2>1
<1>4. CASE m # n
  <2>1. m + 1 \in 1 .. n /\ a + 1 + (m + 1) = a + 2 + m
    BY <1>1, <1>2, <1>4
  <2>2. b = d[m + 1] /\ b \in Digit
    BY <1>1, <1>2, <2>1
  <2>3. b # CR /\ isDigit(b) /\ b \in Nat
    BY <2>2 DEF Digit, CR, isDigit
  <2>4. PICK f \in Seq(Nat) : /\ f = Append(e, b) /\ Len(f) = m + 1
                              /\ \A i \in 1 .. m + 1 : f[i] = IF i = m + 1 THEN b ELSE e[i]
    <3>1. /\ Append(e, b) \in Seq(Nat) /\ Len(Append(e, b)) = m + 1
          /\ \A i \in 1 .. m + 1 : Append(e, b)[i] = IF i = m + 1 THEN b ELSE e[i]
      BY <1>1, <2>3
    <3> QED BY <3>1
  <2>5. Begins(f, d)
    <3>1. ASSUME NEW i \in 1 .. m + 1
          PROVE  d[i] = f[i]
      <4>1. i = m + 1 \/ i \in 1 .. m
        BY <1>1
      <4> QED BY <1>1, <1>2, <2>2, <2>4, <4>1
    <3>2. m + 1 <= n
      BY <1>1, <2>1
    <3> QED BY <1>1, <2>4, <3>1, <3>2 DEF Begins
  <2> QED BY <1>1, <2>3, <2>4, <2>5
<1> QED BY <1>3, <1>4

WorkType ==
    [pc : {"accept", "recv", "dispatch", "lock", "request", "vote", "commit", "answer", "close"},
     peer : Client \cup {NoClient},
     step : {"star", "count", "countLF", "dollar", "length", "lengthLF", "content"},
     words : Seq(Bytes), number : Nat, digits : Bytes, content : Bytes, answer : Bytes]

LEMMA IdleType ==
  /\ Idle \in WorkType /\ Idle.pc = "accept" /\ Idle.peer = NoClient /\ Idle.step = "star"
  /\ Idle.words = <<>> /\ Idle.number = 0 /\ Idle.digits = <<>> /\ Idle.content = <<>>
  /\ Idle.answer = <<>>
BY DEF Idle, WorkType, Bytes

LEMMA CommandRead ==
  ASSUME NEW x \in WorkType
  PROVE  /\ commandRead(x) \in WorkType /\ commandRead(x).pc = "dispatch"
         /\ commandRead(x).peer = x.peer /\ commandRead(x).words = x.words
<1>1. commandRead(x) \in WorkType
  BY IdleType DEF commandRead, WorkType, Bytes
<1>2. commandRead(x).pc = "dispatch" /\ commandRead(x).peer = x.peer /\ commandRead(x).words = x.words
  BY IdleType DEF commandRead, WorkType
<1> QED BY <1>1, <1>2

\* The words read so far are the first of ws.
SoFar(v, ws) ==
    /\ v \in Seq(Bytes) /\ Len(v) <= Len(ws)
    /\ \A i \in 1 .. Len(v) : v[i] = ws[i]

\* z is x when the text of ws is read as far as pos, or when all of it is read.
ReadOn(z, x, ws, pos) ==
    /\ z \in WorkType /\ z.peer = x.peer
    /\ \/ z.pc = "recv" /\ HasRead(z, ws, pos)
       \/ z.pc = "dispatch" /\ z.words = ws

LEMMA AfterWord ==
  ASSUME NEW ws \in Seq(Bytes), NEW x \in WorkType, x.pc = "recv", SoFar(x.words, ws),
         x.number = Len(ws), NEW pos \in Nat,
         pos \in starts(ws)[Len(x.words)] - 2 .. starts(ws)[Len(x.words)],
         Len(x.words) = 0 => pos = starts(ws)[Len(x.words)]
  PROVE  ReadOn(nextWord(x), x, ws, pos)
<1>1. CASE Len(x.words) = x.number
  <2>1. nextWord(x) = commandRead(x)
    BY <1>1 DEF nextWord
  <2>2. x.words = ws
    <3>1. PICK v : v = x.words /\ v \in Seq(Bytes) /\ Len(v) = Len(ws) /\ \A i \in 1 .. Len(v) : v[i] = ws[i]
      BY <1>1 DEF SoFar
    <3> QED BY <3>1, SeqEqual
  <2> QED BY <2>1, <2>2, CommandRead DEF ReadOn
<1>2. CASE Len(x.words) # x.number
  <2>1. PICK z : z = [x EXCEPT !.step = "dollar", !.digits = <<>>, !.content = <<>>]
    OBVIOUS
  <2>2. nextWord(x) = z
    BY <1>2, <2>1 DEF nextWord
  <2>3. /\ z \in WorkType /\ z.pc = x.pc /\ z.peer = x.peer /\ z.step = "dollar"
        /\ z.words = x.words /\ z.number = x.number /\ z.digits = <<>> /\ z.content = <<>>
    <3>0. <<>> \in Bytes
      BY DEF Bytes
    <3>1. z \in WorkType
      BY <2>1, <3>0 DEF WorkType
    <3>2. z.pc = x.pc /\ z.peer = x.peer /\ z.step = "dollar" /\ z.words = x.words
      BY <2>1 DEF WorkType
    <3>3. z.number = x.number /\ z.digits = <<>> /\ z.content = <<>>
      BY <2>1 DEF WorkType
    <3> QED BY <3>1, <3>2, <3>3
  <2>4. Len(x.words) < Len(ws)
    <3>1. Len(x.words) \in Nat /\ Len(ws) \in Nat /\ Len(x.words) <= Len(ws)
      BY DEF SoFar
    <3> QED BY <1>2, <3>1
  <2>5. HasRead(z, ws, pos)
    BY <2>3, <2>4 DEF HasRead, SoFar
  <2> QED BY <2>2, <2>3, <2>5 DEF ReadOn
<1> QED BY <1>1, <1>2

Reading(x, ws, pos) == x \in WorkType /\ x.pc = "recv" /\ HasRead(x, ws, pos)

LEMMA NumberAgain ==
  ASSUME NEW n \in Nat
  PROVE  strtol(to_string(n)) = n
<1>1. PICK d \in Seq(Digit) : d = to_string(n) /\ Numeral(d, n) /\ d \in Seq(Nat) /\ Len(d) \in Nat
  BY NumberText, NumberBytes
<1>2. Len(d) <= Len(d) /\ ~(Len(d) < Len(d)) /\ \A i \in 1 .. Len(d) : d[i] = d[i]
  BY <1>1
<1> QED BY <1>1, <1>2, Strtol

\* One field of the record is another.
LEMMA StepSet ==
  ASSUME NEW x \in WorkType,
         NEW st \in {"star", "count", "countLF", "dollar", "length", "lengthLF", "content"},
         NEW z, z = [x EXCEPT !.step = st]
  PROVE  /\ z \in WorkType /\ z.pc = x.pc /\ z.peer = x.peer /\ z.step = st /\ z.words = x.words
         /\ z.number = x.number /\ z.digits = x.digits /\ z.content = x.content
BY DEF WorkType

LEMMA DigitsSet ==
  ASSUME NEW x \in WorkType, NEW d \in Seq(Nat), NEW z, z = [x EXCEPT !.digits = d]
  PROVE  /\ z \in WorkType /\ z.pc = x.pc /\ z.peer = x.peer /\ z.step = x.step
         /\ z.words = x.words /\ z.number = x.number /\ z.digits = d /\ z.content = x.content
<1>1. d \in Bytes
  BY DEF Bytes
<1> QED BY <1>1 DEF WorkType

LEMMA NumberSet ==
  ASSUME NEW x \in WorkType, NEW n \in Nat, NEW z, z = [x EXCEPT !.number = n]
  PROVE  /\ z \in WorkType /\ z.pc = x.pc /\ z.peer = x.peer /\ z.step = x.step
         /\ z.words = x.words /\ z.number = n /\ z.digits = x.digits /\ z.content = x.content
BY DEF WorkType

LEMMA WordsSet ==
  ASSUME NEW x \in WorkType, NEW v \in Seq(Bytes), NEW z, z = [x EXCEPT !.words = v]
  PROVE  /\ z \in WorkType /\ z.pc = x.pc /\ z.peer = x.peer /\ z.step = x.step
         /\ z.words = v /\ z.number = x.number /\ z.digits = x.digits /\ z.content = x.content
BY DEF WorkType

LEMMA ContentSet ==
  ASSUME NEW x \in WorkType, NEW v \in Seq(Nat), NEW z, z = [x EXCEPT !.content = v]
  PROVE  /\ z \in WorkType /\ z.pc = x.pc /\ z.peer = x.peer /\ z.step = x.step
         /\ z.words = x.words /\ z.number = x.number /\ z.digits = x.digits /\ z.content = v
<1>1. v \in Bytes
  BY DEF Bytes
<1> QED BY <1>1 DEF WorkType

\* What HasRead says of the words, whatever the step.
LEMMA ReadWords ==
  ASSUME NEW ws \in Seq(Bytes), NEW pos, NEW x, Reading(x, ws, pos)
  PROVE  /\ SoFar(x.words, ws) /\ Len(x.words) \in Nat /\ Len(ws) \in Nat
         /\ x.digits \in Seq(Nat) /\ x.content \in Seq(Nat)
         /\ x.step \in {"star", "count", "countLF"} => Len(x.words) = 0
         /\ x.step \notin {"star", "count", "countLF"} =>
              /\ x.number = Len(ws) /\ Len(x.words) \in 0 .. Len(ws) - 1
              /\ ws[Len(x.words) + 1] \in Seq(Nat)
         /\ x.step # "content" => x.content = <<>>
<1>1. /\ x.words \in Seq(Bytes) /\ x.digits \in Seq(Nat) /\ x.content \in Seq(Nat)
      /\ Len(ws) \in Nat
  BY DEF Reading, WorkType, Bytes
<1>2. Len(x.words) \in Nat
  BY <1>1
<1>3. /\ Len(x.words) <= Len(ws) /\ \A i \in 1 .. Len(x.words) : x.words[i] = ws[i]
      /\ x.step \in {"star", "count", "countLF"} => Len(x.words) = 0
      /\ x.step \notin {"star", "count", "countLF"} => x.number = Len(ws) /\ Len(x.words) < Len(ws)
      /\ x.step # "content" => x.content = <<>>
  BY DEF Reading, HasRead
<1>4. ASSUME Len(x.words) < Len(ws)
      PROVE  Len(x.words) \in 0 .. Len(ws) - 1 /\ ws[Len(x.words) + 1] \in Seq(Nat)
  <2>1. Len(x.words) + 1 \in 1 .. Len(ws)
    BY <1>1, <1>2, <1>4
  <2> QED BY <1>1, <1>2, <1>4, <2>1 DEF Bytes
<1> QED BY <1>1, <1>2, <1>3, <1>4 DEF SoFar

LEMMA OneMoreWord ==
  ASSUME NEW ws \in Seq(Bytes), NEW v, SoFar(v, ws), Len(v) < Len(ws)
  PROVE  SoFar(Append(v, ws[Len(v) + 1]), ws) /\ Len(Append(v, ws[Len(v) + 1])) = Len(v) + 1
<1>1. PICK k \in Nat, n \in Nat : k = Len(v) /\ n = Len(ws) /\ k + 1 \in 1 .. n
  BY DEF SoFar
<1>2. ws[k + 1] \in Bytes /\ v \in Seq(Bytes) /\ \A i \in 1 .. k : v[i] = ws[i]
  BY <1>1 DEF SoFar
<1>3. /\ Append(v, ws[k + 1]) \in Seq(Bytes) /\ Len(Append(v, ws[k + 1])) = k + 1
      /\ \A i \in 1 .. k + 1 : Append(v, ws[k + 1])[i] = IF i = k + 1 THEN ws[k + 1] ELSE v[i]
  BY <1>1, <1>2
<1>4. ASSUME NEW i \in 1 .. k + 1
      PROVE  Append(v, ws[k + 1])[i] = ws[i]
  <2>1. i = k + 1 \/ i \in 1 .. k
    BY <1>1
  <2> QED BY <1>2, <1>3, <2>1
<1> QED BY <1>1, <1>3, <1>4 DEF SoFar

\* Where the word of a length q ends that begins after a, and its message.
WordEnds(a, l, q, pos, b) ==
    a \in Nat /\ l \in Nat /\ q \in Nat /\ pos = a + 3 + l + q /\ b = a + l + q + 5

LEMMA TwoBefore ==
  ASSUME NEW a, NEW l, NEW q, NEW pos, NEW b, WordEnds(a, l, q, pos, b)
  PROVE  pos \in b - 2 .. b
BY DEF WordEnds

\* What content makes of x, when its content is a beginning of the next word.
LEMMA AfterContent ==
  ASSUME NEW ws \in Seq(Bytes), NEW x \in WorkType, x.pc = "recv", SoFar(x.words, ws),
         x.number = Len(ws), Len(x.words) < Len(ws), NEW m, m = ws[Len(x.words) + 1],
         x.digits = to_string(Len(m)), Begins(x.content, m), NEW pos \in Nat,
         pos = starts(ws)[Len(x.words)] + 3 + Len(to_string(Len(m))) + Len(x.content)
  PROVE  ReadOn(content(x), x, ws, pos)
<1>1. PICK k \in Nat, n \in Nat : k = Len(x.words) /\ n = Len(ws) /\ k \in 0 .. n - 1
  BY DEF SoFar
<1>2. m \in Seq(Nat) /\ x.content \in Seq(Nat) /\ Len(m) \in Nat /\ Len(x.content) \in Nat
      /\ Len(x.content) <= Len(m)
  <2>1. k + 1 \in 1 .. n
    BY <1>1
  <2>2. m \in Seq(Nat)
    BY <1>1, <2>1 DEF Bytes
  <2>3. x.content \in Seq(Nat)
    BY DEF WorkType, Bytes
  <2> QED BY <2>2, <2>3 DEF Begins
<1>3. strtol(x.digits) = Len(m)
  BY <1>2, NumberAgain
<1>4. CASE Len(x.content) = Len(m)
  <2>1. x.content = m
    BY <1>2, <1>4, BeginsWhole
  <2>2. PICK v : v = Append(x.words, x.content) /\ SoFar(v, ws) /\ v \in Seq(Bytes) /\ Len(v) = k + 1
    <3>1. PICK v : v = Append(x.words, x.content)
      OBVIOUS
    <3>2. v = Append(x.words, ws[Len(x.words) + 1])
      BY <2>1, <3>1
    <3>3. SoFar(v, ws) /\ Len(v) = Len(x.words) + 1
      BY <3>2, OneMoreWord
    <3>4. v \in Seq(Bytes)
      BY <3>3 DEF SoFar
    <3> QED BY <1>1, <3>1, <3>3, <3>4
  <2>3. PICK y : y = [x EXCEPT !.words = v]
    OBVIOUS
  <2>4. content(x) = nextWord(y)
    BY <1>3, <1>4, <2>2, <2>3 DEF content, wordComplete
  <2>5. y \in WorkType /\ y.pc = "recv" /\ y.peer = x.peer /\ y.words = v /\ y.number = n
    <3>1. y \in WorkType /\ y.pc = x.pc /\ y.peer = x.peer /\ y.words = v /\ y.number = x.number
      BY <2>2, <2>3 DEF WorkType
    <3> QED BY <1>1, <3>1
  <2>6. Layout(ws, getRESPArry(ws), starts(ws))
    BY LayoutThere DEF Bytes
  <2>7. PICK a, b, L : /\ a = starts(ws)[k] /\ b = starts(ws)[k + 1] /\ L = Len(to_string(Len(m)))
                       /\ WordAt(getRESPArry(ws), a, m, b)
    BY <1>1, <2>6 DEF Layout
  <2>8. PICK q \in Nat : q = Len(m) /\ a \in Nat /\ L \in Nat /\ b = a + L + q + 5 /\ b \in Nat
    BY <2>7, <1>2, NumberBytes DEF WordAt, LineAt
  <2>9. pos = a + 3 + L + q
    BY <1>1, <1>4, <2>7, <2>8
  <2>10. pos \in starts(ws)[Len(y.words)] - 2 .. starts(ws)[Len(y.words)] /\ Len(y.words) # 0
    <3>1. Len(y.words) = k + 1 /\ k + 1 # 0
      BY <1>1, <2>2, <2>5
    <3>2. pos \in b - 2 .. b
      <4>1. WordEnds(a, L, q, pos, b)
        BY <2>8, <2>9 DEF WordEnds
      <4> QED BY <4>1, TwoBefore
    <3> QED BY <2>7, <3>1, <3>2
  <2>11. ReadOn(nextWord(y), y, ws, pos)
    BY <1>1, <2>2, <2>5, <2>10, AfterWord
  <2> QED BY <2>4, <2>5, <2>11 DEF ReadOn
<1>5. CASE Len(x.content) # Len(m)
  <2>1. PICK z : z = [x EXCEPT !.step = "content"]
    OBVIOUS
  <2>2. content(x) = z
    BY <1>3, <1>5, <2>1 DEF content, wordComplete
  <2>3. /\ z \in WorkType /\ z.pc = "recv" /\ z.peer = x.peer /\ z.step = "content"
        /\ z.words = x.words /\ z.number = n /\ z.digits = to_string(Len(m))
        /\ z.content = x.content
    BY <1>1, <2>1, StepSet
  <2>4. Len(x.content) < Len(m) /\ k < n
    BY <1>1, <1>2, <1>5
  <2>5. HasRead(z, ws, pos)
    BY <1>1, <2>3, <2>4 DEF HasRead, SoFar
  <2> QED BY <2>2, <2>3, <2>5 DEF ReadOn
<1> QED BY <1>4, <1>5

\* The text of a command, where pos bytes of it are read, and the next one is b.
Read(x, ws, T, base, pos, b) ==
    /\ ws \in Seq(Bytes) /\ Reading(x, ws, pos) /\ pos \in Nat
    /\ Layout(ws, T, base) /\ base = starts(ws) /\ b = T[pos + 1]

LEMMA ByteStar ==
  ASSUME NEW x, NEW ws, NEW T, NEW base, NEW pos, NEW b, Read(x, ws, T, base, pos, b),
         x.step = "star"
  PROVE  ReadOn(headerByte(x, b), x, ws, pos + 1)
<1>1. /\ x \in WorkType /\ x.pc = "recv" /\ ws \in Seq(Bytes) /\ pos = 0 /\ x.digits = <<>>
      /\ x.content = <<>> /\ Len(x.words) = 0
  BY ReadWords DEF Read, Reading, HasRead
<1>2. b = STAR
  BY <1>1 DEF Read, Layout, LineAt
<1>3. PICK z : z = [x EXCEPT !.step = "count"]
  OBVIOUS
<1>4. headerByte(x, b) = z
  BY <1>2, <1>3 DEF headerByte
<1>5. /\ z \in WorkType /\ z.pc = "recv" /\ z.peer = x.peer /\ z.step = "count"
      /\ z.words = x.words /\ z.digits = <<>> /\ z.content = <<>>
  BY <1>1, <1>3, StepSet
<1>6. HasRead(z, ws, 1)
  <2>1. Begins(<<>>, to_string(Len(ws)))
    BY <1>1, NumberBytes DEF Begins
  <2>2. Len(ws) \in Nat /\ SoFar(x.words, ws)
    BY <1>1, ReadWords DEF Read
  <2> QED BY <1>1, <1>5, <2>1, <2>2 DEF HasRead, SoFar
<1> QED BY <1>1, <1>4, <1>5, <1>6 DEF ReadOn

\* A byte of the digits d, or the end of them, in the line after a bytes of T.
DigitRead(x, z, b, lf, d, T, a, c) ==
    /\ x \in WorkType /\ lf \in {"countLF", "lengthLF"}
    /\ LineAt(T, a, c, d) /\ x.digits \in Seq(Nat) /\ Begins(x.digits, d)
    /\ b = T[a + 2 + Len(x.digits)]
    /\ z = IF b = CR THEN [x EXCEPT !.step = lf]
           ELSE IF isDigit(b) THEN [x EXCEPT !.digits = Append(@, b)]
           ELSE commandRead(x)

LEMMA ByteDigit ==
  ASSUME NEW x, NEW z, NEW b, NEW lf, NEW d, NEW T, NEW a, NEW c,
         DigitRead(x, z, b, lf, d, T, a, c)
  PROVE  /\ z \in WorkType /\ z.pc = x.pc /\ z.peer = x.peer /\ z.words = x.words
         /\ z.number = x.number /\ z.content = x.content
         /\ \/ z.step = lf /\ z.digits = x.digits /\ z.digits = d
            \/ z.step = x.step /\ Begins(z.digits, d) /\ Len(z.digits) = Len(x.digits) + 1
<1>1. PICK e \in Seq(Nat) : e = x.digits
  BY DEF DigitRead
<1>2. \/ b = CR /\ e = d
      \/ /\ b # CR /\ isDigit(b) /\ b \in Nat
         /\ Append(e, b) \in Seq(Nat) /\ Len(Append(e, b)) = Len(e) + 1
         /\ Begins(Append(e, b), d)
  <2>1. LineAt(T, a, c, d) /\ Begins(e, d) /\ b = T[a + 2 + Len(e)]
    BY <1>1 DEF DigitRead
  <2> QED BY <2>1, DigitByte
<1>3. CASE b = CR /\ e = d
  <2>1. z = [x EXCEPT !.step = lf] /\ x \in WorkType
        /\ lf \in {"star", "count", "countLF", "dollar", "length", "lengthLF", "content"}
    BY <1>3 DEF DigitRead
  <2>2. /\ z \in WorkType /\ z.pc = x.pc /\ z.peer = x.peer /\ z.step = lf /\ z.words = x.words
        /\ z.number = x.number /\ z.digits = x.digits /\ z.content = x.content
    BY <2>1, StepSet
  <2> QED BY <1>1, <1>3, <2>2
<1>4. CASE /\ b # CR /\ isDigit(b) /\ b \in Nat
           /\ Append(e, b) \in Seq(Nat) /\ Len(Append(e, b)) = Len(e) + 1
           /\ Begins(Append(e, b), d)
  <2>1. PICK f \in Seq(Nat) : f = Append(e, b)
    BY <1>4
  <2>2. z = [x EXCEPT !.digits = f] /\ x \in WorkType
    BY <1>1, <1>4, <2>1 DEF DigitRead
  <2>3. /\ z \in WorkType /\ z.pc = x.pc /\ z.peer = x.peer /\ z.step = x.step
        /\ z.words = x.words /\ z.number = x.number /\ z.digits = f /\ z.content = x.content
    BY <2>2, DigitsSet
  <2> QED BY <1>1, <1>4, <2>1, <2>3
<1> QED BY <1>2, <1>3, <1>4

LEMMA ByteCount ==
  ASSUME NEW x, NEW ws, NEW T, NEW base, NEW pos, NEW b, Read(x, ws, T, base, pos, b),
         x.step = "count"
  PROVE  ReadOn(headerByte(x, b), x, ws, pos + 1)
<1>1. PICK d : d = to_string(Len(ws))
  OBVIOUS
<1>2. /\ x \in WorkType /\ x.pc = "recv" /\ ws \in Seq(Bytes)
      /\ x.digits \in Seq(Nat) /\ pos = 1 + Len(x.digits) /\ Begins(x.digits, d)
      /\ x.content = <<>> /\ Len(x.words) = 0 /\ Len(ws) \in Nat
      /\ LineAt(T, 0, STAR, d)
  BY <1>1, ReadWords DEF Read, Reading, HasRead, Layout
<1>3. PICK z : z = headerByte(x, b)
  OBVIOUS
<1>4. DigitRead(x, z, b, "countLF", d, T, 0, STAR)
  <2>1. z = IF b = CR THEN [x EXCEPT !.step = "countLF"]
            ELSE IF isDigit(b) THEN [x EXCEPT !.digits = Append(@, b)]
            ELSE commandRead(x)
    BY <1>3 DEF headerByte
  <2>2. pos + 1 = 0 + 2 + Len(x.digits)
    BY <1>2
  <2> QED BY <1>2, <2>1, <2>2 DEF DigitRead, Read
<1>5. /\ z \in WorkType /\ z.pc = x.pc /\ z.peer = x.peer /\ z.words = x.words
      /\ z.number = x.number /\ z.content = x.content
      /\ \/ z.step = "countLF" /\ z.digits = x.digits /\ z.digits = d
         \/ z.step = x.step /\ Begins(z.digits, d) /\ Len(z.digits) = Len(x.digits) + 1
  BY <1>4, ByteDigit
<1>6. HasRead(z, ws, pos + 1)
  <2>1. Len(x.digits) \in Nat
    BY <1>2
  <2>2. pos + 1 = 2 + Len(x.digits) /\ pos + 1 = 1 + (Len(x.digits) + 1)
    BY <1>2, <2>1
  <2>3. CASE z.step = "countLF" /\ z.digits = x.digits /\ z.digits = d
    BY <1>1, <1>2, <1>5, <2>2, <2>3 DEF HasRead
  <2>4. CASE z.step = x.step /\ Begins(z.digits, d) /\ Len(z.digits) = Len(x.digits) + 1
    BY <1>1, <1>2, <1>5, <2>2, <2>4 DEF HasRead
  <2> QED BY <1>5, <2>3, <2>4
<1> QED BY <1>2, <1>3, <1>5, <1>6 DEF ReadOn

LEMMA ByteCountLF ==
  ASSUME NEW x, NEW ws, NEW T, NEW base, NEW pos, NEW b, Read(x, ws, T, base, pos, b),
         x.step = "countLF"
  PROVE  ReadOn(headerByte(x, b), x, ws, pos + 1)
<1>1. PICK n, d : n \in Nat /\ n = Len(ws) /\ d = to_string(n)
  BY ReadWords DEF Read
<1>2. /\ x \in WorkType /\ x.pc = "recv" /\ ws \in Seq(Bytes) /\ Len(d) \in Nat
      /\ pos = 2 + Len(d) /\ x.digits = d /\ SoFar(x.words, ws)
      /\ Len(x.words) = 0 /\ LineAt(T, 0, STAR, d) /\ base[0] = 3 + Len(d) /\ base = starts(ws)
  BY <1>1, ReadWords, NumberBytes DEF Read, Reading, HasRead, Layout
<1>3. b = LF
  <2>1. pos + 1 = 0 + 3 + Len(d)
    BY <1>2
  <2> QED BY <1>2, <2>1 DEF Read, LineAt
<1>4. PICK y : y = [x EXCEPT !.number = n]
  OBVIOUS
<1>5. headerByte(x, b) = nextWord(y)
  <2>1. strtol(x.digits) = n
    BY <1>1, <1>2, NumberAgain
  <2> QED BY <1>3, <1>4, <2>1 DEF headerByte
<1>6. y \in WorkType /\ y.pc = "recv" /\ y.peer = x.peer /\ y.words = x.words /\ y.number = n
  BY <1>1, <1>2, <1>4, NumberSet
<1>7. pos + 1 = starts(ws)[0] /\ pos + 1 \in Nat
  BY <1>2
<1>8. ReadOn(nextWord(y), y, ws, pos + 1)
  <2>1. pos + 1 \in starts(ws)[Len(y.words)] - 2 .. starts(ws)[Len(y.words)]
    BY <1>2, <1>6, <1>7
  <2> QED BY <1>1, <1>2, <1>6, <1>7, <2>1, AfterWord
<1> QED BY <1>5, <1>6, <1>8 DEF ReadOn

LEMMA ByteDollar ==
  ASSUME NEW x, NEW ws, NEW T, NEW base, NEW pos, NEW b, Read(x, ws, T, base, pos, b),
         x.step = "dollar"
  PROVE  ReadOn(headerByte(x, b), x, ws, pos + 1)
<1>1. PICK k, n, q : /\ k = Len(x.words) /\ n = Len(ws) /\ q = base[k]
                     /\ k \in Nat /\ n \in Nat /\ k \in 0 .. n - 1
  BY ReadWords DEF Read
<1>2. /\ x \in WorkType /\ x.pc = "recv" /\ ws \in Seq(Bytes) /\ base = starts(ws)
      /\ pos \in Nat /\ pos \in q - 2 .. q /\ (k = 0 => pos = q)
      /\ x.digits = <<>> /\ x.content = <<>> /\ x.number = n /\ SoFar(x.words, ws)
  BY <1>1, ReadWords DEF Read, Reading, HasRead
<1>3. q \in Nat /\ WordAt(T, q, ws[k + 1], base[k + 1])
  BY <1>1 DEF Read, Layout
<1>4. CASE pos = q
  <2>1. b = DOLLAR
    BY <1>3, <1>4 DEF Read, WordAt, LineAt
  <2>2. PICK z : z = [x EXCEPT !.step = "length"]
    OBVIOUS
  <2>3. headerByte(x, b) = z
    BY <2>1, <2>2 DEF headerByte
  <2>4. /\ z \in WorkType /\ z.pc = "recv" /\ z.peer = x.peer /\ z.step = "length"
        /\ z.words = x.words /\ z.number = n /\ z.digits = <<>> /\ z.content = <<>>
    BY <1>2, <2>2, StepSet
  <2>5. HasRead(z, ws, pos + 1)
    <3>1. PICK len : len = to_string(Len(ws[k + 1]))
      OBVIOUS
    <3>2. len \in Seq(Nat)
      BY <1>3, <3>1 DEF WordAt, LineAt
    <3>3. Begins(<<>>, len)
      BY <3>2, BeginsAll
    <3>4. pos + 1 = q + 1 + Len(<<>>) /\ k < n
      BY <1>1, <1>3, <1>4
    <3> QED BY <1>1, <1>2, <2>4, <3>1, <3>3, <3>4 DEF HasRead, SoFar
  <2> QED BY <2>3, <2>4, <2>5 DEF ReadOn
<1>5. CASE pos # q
  <2>1. k # 0 /\ pos \in q - 2 .. q - 1
    BY <1>2, <1>3, <1>5
  <2>2. PICK j : j = k - 1 /\ j \in 0 .. n - 1 /\ j + 1 = k
    BY <1>1, <2>1
  <2>3. WordAt(T, base[j], ws[k], q)
    BY <1>1, <2>2 DEF Read, Layout
  <2>4. T[q - 1] = CR /\ T[q] = LF
    BY <2>3 DEF WordAt
  <2>5. pos + 1 = q - 1 \/ pos + 1 = q
    BY <1>2, <1>3, <2>1
  <2>6. b = CR \/ b = LF
    BY <2>4, <2>5 DEF Read
  <2>7. headerByte(x, b) = x
    BY <2>6 DEF headerByte, CR, LF, DOLLAR
  <2>8. pos + 1 \in q - 2 .. q
    BY <1>3, <2>5
  <2>9. HasRead(x, ws, pos + 1)
    BY <1>1, <1>2, <2>1, <2>8 DEF HasRead, SoFar
  <2> QED BY <1>2, <2>7, <2>9 DEF ReadOn
<1> QED BY <1>4, <1>5

LengthPos(q, e, pos) == q \in Nat /\ e \in Nat /\ pos = q + 1 + e

LEMMA LengthNext ==
  ASSUME NEW q, NEW e, NEW pos, LengthPos(q, e, pos)
  PROVE  pos + 1 = q + 2 + e /\ pos + 1 = q + 1 + (e + 1)
BY DEF LengthPos

LEMMA ByteLength ==
  ASSUME NEW x, NEW ws, NEW T, NEW base, NEW pos, NEW b, Read(x, ws, T, base, pos, b),
         x.step = "length"
  PROVE  ReadOn(headerByte(x, b), x, ws, pos + 1)
<1>1. PICK k, n, q, d : /\ k = Len(x.words) /\ n = Len(ws) /\ q = base[k]
                        /\ d = to_string(Len(ws[k + 1]))
                        /\ k \in Nat /\ n \in Nat /\ k \in 0 .. n - 1
  <2>1. Len(x.words) \in Nat /\ Len(ws) \in Nat /\ Len(x.words) \in 0 .. Len(ws) - 1
    BY ReadWords DEF Read
  <2>2. PICK k, n : k = Len(x.words) /\ n = Len(ws)
    OBVIOUS
  <2> QED BY <2>1, <2>2
<1>2. /\ x \in WorkType /\ x.pc = "recv" /\ ws \in Seq(Bytes) /\ base = starts(ws)
      /\ x.digits \in Seq(Nat) /\ pos = q + 1 + Len(x.digits) /\ Begins(x.digits, d)
      /\ x.content = <<>> /\ x.number = n /\ SoFar(x.words, ws)
  BY <1>1, ReadWords DEF Read, Reading, HasRead
<1>3. q \in Nat /\ LineAt(T, q, DOLLAR, d)
  <2>1. Layout(ws, T, base)
    BY DEF Read
  <2>2. q \in Nat /\ WordAt(T, q, ws[k + 1], base[k + 1])
    BY <1>1, <2>1 DEF Layout
  <2> QED BY <1>1, <2>2 DEF WordAt
<1>4. PICK z : z = headerByte(x, b)
  OBVIOUS
<1>5. DigitRead(x, z, b, "lengthLF", d, T, q, DOLLAR)
  <2>1. z = IF b = CR THEN [x EXCEPT !.step = "lengthLF"]
            ELSE IF isDigit(b) THEN [x EXCEPT !.digits = Append(@, b)]
            ELSE commandRead(x)
    BY <1>4 DEF headerByte
  <2>2. Len(x.digits) \in Nat
    BY <1>2
  <2>3. PICK e \in Nat : e = Len(x.digits)
    BY <2>2
  <2>4. pos = q + 1 + e
    BY <1>2, <2>3
  <2>5. pos + 1 = q + 2 + e
    BY <1>3, <2>4
  <2> QED BY <1>2, <1>3, <2>1, <2>3, <2>5 DEF DigitRead, Read
<1>6. /\ z \in WorkType /\ z.pc = x.pc /\ z.peer = x.peer /\ z.words = x.words
      /\ z.number = x.number /\ z.content = x.content
      /\ \/ z.step = "lengthLF" /\ z.digits = x.digits /\ z.digits = d
         \/ z.step = x.step /\ Begins(z.digits, d) /\ Len(z.digits) = Len(x.digits) + 1
  BY <1>5, ByteDigit
<1>7. HasRead(z, ws, pos + 1)
  <2>1. Len(x.digits) \in Nat /\ k < n
    BY <1>1, <1>2
  <2>2. pos + 1 = q + 2 + Len(x.digits) /\ pos + 1 = q + 1 + (Len(x.digits) + 1)
    <3>1. LengthPos(q, Len(x.digits), pos)
      BY <1>2, <1>3, <2>1 DEF LengthPos
    <3> QED BY <3>1, LengthNext
  <2>3. CASE z.step = "lengthLF" /\ z.digits = x.digits /\ z.digits = d
    BY <1>1, <1>2, <1>6, <2>1, <2>2, <2>3 DEF HasRead, SoFar
  <2>4. CASE z.step = x.step /\ Begins(z.digits, d) /\ Len(z.digits) = Len(x.digits) + 1
    BY <1>1, <1>2, <1>6, <2>1, <2>2, <2>4 DEF HasRead, SoFar
  <2> QED BY <1>6, <2>3, <2>4
<1> QED BY <1>2, <1>4, <1>6, <1>7 DEF ReadOn

LEMMA ByteLengthLF ==
  ASSUME NEW x, NEW ws, NEW T, NEW base, NEW pos, NEW b, Read(x, ws, T, base, pos, b),
         x.step = "lengthLF"
  PROVE  ReadOn(headerByte(x, b), x, ws, pos + 1)
<1>1. PICK k, n, q, m, d : /\ k = Len(x.words) /\ n = Len(ws) /\ q = base[k]
                           /\ m = ws[k + 1] /\ d = to_string(Len(m)) /\ m \in Seq(Nat)
                           /\ k \in Nat /\ n \in Nat /\ k \in 0 .. n - 1
  <2>1. /\ Len(x.words) \in Nat /\ Len(ws) \in Nat /\ Len(x.words) \in 0 .. Len(ws) - 1
        /\ ws[Len(x.words) + 1] \in Seq(Nat)
    BY ReadWords DEF Read
  <2>2. PICK k, n, m : k = Len(x.words) /\ n = Len(ws) /\ m = ws[k + 1]
    OBVIOUS
  <2> QED BY <2>1, <2>2
<1>2. /\ x \in WorkType /\ x.pc = "recv" /\ ws \in Seq(Bytes) /\ base = starts(ws)
      /\ pos = q + 2 + Len(x.digits) /\ x.digits = d /\ pos \in Nat
      /\ x.content = <<>> /\ x.number = n /\ SoFar(x.words, ws)
  BY <1>1, ReadWords DEF Read, Reading, HasRead
<1>3. q \in Nat /\ LineAt(T, q, DOLLAR, d) /\ Len(d) \in Nat
  <2>1. q \in Nat /\ LineAt(T, q, DOLLAR, d)
    BY <1>1 DEF Read, Layout, WordAt
  <2>2. Len(m) \in Nat
    BY <1>1
  <2>3. Len(d) \in Nat
    BY <1>1, <2>2, NumberBytes
  <2> QED BY <2>1, <2>3
<1>4. pos + 1 = q + 3 + Len(d) + Len(x.content) /\ pos + 1 = q + 3 + Len(d) /\ pos + 1 \in Nat
  <2>1. Len(x.content) = 0
    BY <1>2
  <2> QED BY <1>2, <1>3, <2>1
<1>5. b = LF
  BY <1>3, <1>4 DEF Read, LineAt
<1>6. headerByte(x, b) = content(x)
  BY <1>5 DEF headerByte
<1>7. Begins(x.content, m) /\ k < n
  BY <1>1, <1>2, BeginsAll
<1>8. ReadOn(content(x), x, ws, pos + 1)
  BY <1>1, <1>2, <1>4, <1>7, AfterContent
<1> QED BY <1>6, <1>8

\* RecvByte takes what HasRead says one byte further.
LEMMA HeaderByte ==
  ASSUME NEW x, NEW ws, NEW T, NEW base, NEW pos, NEW b, Read(x, ws, T, base, pos, b),
         x.step # "content"
  PROVE  ReadOn(headerByte(x, b), x, ws, pos + 1)
<1>1. x.step \in {"star", "count", "countLF", "dollar", "length", "lengthLF", "content"}
  BY DEF Read, Reading, WorkType
<1> QED BY <1>1, ByteStar, ByteCount, ByteCountLF, ByteDollar, ByteLength, ByteLengthLF

\* RecvWord takes it a piece of a word further.
LEMMA WordPiece ==
  ASSUME NEW x, NEW ws \in Seq(Bytes), NEW pos \in Nat, Reading(x, ws, pos), x.step = "content",
         NEW s \in Seq(Nat), pos <= Len(getRESPArry(ws)), Begins(s, from(getRESPArry(ws), pos)),
         NEW n \in pieces(s, strtol(x.digits) - Len(x.content))
  PROVE  /\ ReadOn(content([x EXCEPT !.content = @ \o first(s, n)]), x, ws, pos + n)
         /\ pos + n \in 0 .. Len(getRESPArry(ws))
         /\ rest(s, n) \in Seq(Nat) /\ Begins(rest(s, n), from(getRESPArry(ws), pos + n))
         /\ n \in 1 .. Len(s)
<1>1. PICK k, N, q, m, d : /\ k = Len(x.words) /\ N = Len(ws) /\ q = starts(ws)[k]
                           /\ m = ws[k + 1] /\ d = to_string(Len(m)) /\ m \in Seq(Nat)
                           /\ k \in Nat /\ N \in Nat /\ k \in 0 .. N - 1
  <2>1. /\ Len(x.words) \in Nat /\ Len(ws) \in Nat /\ Len(x.words) \in 0 .. Len(ws) - 1
        /\ ws[Len(x.words) + 1] \in Seq(Nat)
    BY ReadWords
  <2>2. PICK k, N, m : k = Len(x.words) /\ N = Len(ws) /\ m = ws[k + 1]
    OBVIOUS
  <2> QED BY <2>1, <2>2
<1>2. PICK e \in Seq(Nat) :
        /\ e = x.content /\ x \in WorkType /\ x.pc = "recv"
        /\ pos = q + 3 + Len(d) + Len(e) /\ x.digits = d
        /\ Begins(e, m) /\ Len(e) < Len(m) /\ x.number = N /\ SoFar(x.words, ws)
  BY <1>1, ReadWords DEF Reading, HasRead
<1>3. PICK T \in Seq(Nat) : T = getRESPArry(ws) /\ Layout(ws, T, starts(ws))
  BY LayoutThere DEF Layout, Bytes
<1>4. PICK L, M, E : L = Len(d) /\ M = Len(m) /\ E = Len(e) /\ L \in Nat /\ M \in Nat /\ E \in Nat
                     /\ q \in Nat /\ WordAt(T, q, m, starts(ws)[k + 1])
  <2>1. Len(d) \in Nat /\ Len(m) \in Nat /\ Len(e) \in Nat
    <3>1. Len(m) \in Nat /\ Len(e) \in Nat
      BY <1>1
    <3> QED BY <1>1, <3>1, NumberBytes
  <2>2. q \in Nat /\ WordAt(T, q, m, starts(ws)[k + 1])
    BY <1>1, <1>3 DEF Layout
  <2> QED BY <2>1, <2>2
<1>5. strtol(x.digits) = M
  BY <1>1, <1>2, <1>4, NumberAgain
<1>6. n \in 1 .. Len(s) /\ n <= M - E /\ n \in 0 .. Len(s)
  <2>1. M - E \in Int
    BY <1>4
  <2> QED BY <1>2, <1>4, <1>5, <2>1, Pieces
<1>7. /\ pos + n \in 0 .. Len(T)
      /\ \A i \in 1 .. n : first(s, n)[i] = T[pos + i]
      /\ rest(s, n) \in Seq(Nat) /\ Begins(rest(s, n), from(T, pos + n))
  <2>1. pos \in 0 .. Len(T)
    BY <1>3
  <2>2. Begins(s, from(T, pos))
    BY <1>3
  <2>3. /\ pos + n \in 0 .. Len(T) /\ \A i \in 1 .. n : first(s, n)[i] = T[pos + i]
        /\ Begins(rest(s, n), from(T, pos + n))
    BY <1>3, <1>6, <2>1, <2>2, NextPiece
  <2> QED BY <1>6, <2>3, Split
<1>8. PICK f \in Seq(Nat) : f = first(s, n) /\ Len(f) = n
  BY <1>6, Split
<1>9. PICK g \in Seq(Nat) : /\ g = e \o f /\ Len(g) = E + n
                            /\ \A i \in 1 .. E + n : g[i] = IF i <= E THEN e[i] ELSE f[i - E]
  <2>1. /\ e \o f \in Seq(Nat) /\ Len(e \o f) = E + n
        /\ \A i \in 1 .. E + n : (e \o f)[i] = IF i <= E THEN e[i] ELSE f[i - E]
    <3>1. Len(e) = E /\ Len(f) = n
      BY <1>4, <1>8
    <3>2. /\ e \o f \in Seq(Nat) /\ Len(e \o f) = Len(e) + Len(f)
          /\ \A i \in 1 .. Len(e) + Len(f) :
                (e \o f)[i] = IF i <= Len(e) THEN e[i] ELSE f[i - Len(e)]
      BY ConcatProperties
    <3> QED BY <3>1, <3>2
  <2> QED BY <2>1
<1>10. Begins(g, m)
  <2>1. \A i \in 1 .. M : T[q + 3 + L + i] = m[i]
    BY <1>1, <1>4 DEF WordAt
  <2>2. \A i \in 1 .. E : m[i] = e[i]
    BY <1>2, <1>4 DEF Begins
  <2>3. ASSUME NEW i \in 1 .. E + n
        PROVE  m[i] = g[i]
    <3>1. CASE i <= E
      <4>1. i \in 1 .. E
        BY <1>4, <3>1
      <4> QED BY <1>9, <2>2, <3>1, <4>1
    <3>2. CASE ~(i <= E)
      <4>1. i - E \in 1 .. n /\ i \in 1 .. M /\ pos + (i - E) = q + 3 + L + i
        <5>1. pos = q + 3 + L + E
          BY <1>2, <1>4
        <5>2. i \in Nat /\ n \in Nat /\ n <= M - E /\ 1 <= i /\ i <= E + n
          BY <1>4, <1>6
        <5> QED BY <1>4, <3>2, <5>1, <5>2
      <4>2. f[i - E] = T[q + 3 + L + i]
        BY <1>7, <1>8, <4>1
      <4> QED BY <1>9, <2>1, <3>2, <4>1, <4>2
    <3> QED BY <3>1, <3>2
  <2>4. E + n <= M
    BY <1>4, <1>6
  <2> QED BY <1>4, <1>9, <2>3, <2>4 DEF Begins
<1>11. PICK y : y = [x EXCEPT !.content = g]
  OBVIOUS
<1>12. /\ y \in WorkType /\ y.pc = "recv" /\ y.peer = x.peer /\ y.words = x.words
       /\ y.number = N /\ y.digits = d /\ y.content = g
  BY <1>2, <1>11, ContentSet
<1>13. [x EXCEPT !.content = @ \o first(s, n)] = y
  BY <1>2, <1>8, <1>9, <1>11
<1>14. pos + n = q + 3 + L + Len(g) /\ pos + n \in Nat /\ k < N
  <2>1. pos = q + 3 + L + E
    BY <1>2, <1>4
  <2>2. n \in Nat /\ q + 3 + L + E + n = q + 3 + L + (E + n)
    BY <1>4, <1>6
  <2>3. k < N
    BY <1>1
  <2> QED BY <1>4, <1>9, <2>1, <2>2, <2>3
<1>15. ReadOn(content(y), y, ws, pos + n)
  BY <1>1, <1>2, <1>4, <1>10, <1>12, <1>14, AfterContent
<1> QED BY <1>3, <1>6, <1>7, <1>12, <1>13, <1>15 DEF ReadOn

-----------------------------------------------------------------------------
(***************************************************************************)
(* The clients.                                                            *)
(***************************************************************************)
ClientType == [pc : {"line", "send", "recv", "done", "gone"},
               command : Command \cup {<<>>}, printed : Bytes]

\* What ServiceTypeOK says, one fact after the other.
LEMMA ServiceTypes ==
  ASSUME ServiceTypeOK
  PROVE  /\ client \in [Client -> ClientType] /\ queue \in Seq(Client) /\ IsInjective(queue)
         /\ listening \in BOOLEAN /\ in \in [Client -> Seq(Nat)] /\ out \in [Client -> Seq(Nat)]
         /\ w \in WorkType /\ (w.pc = "accept" => w = Idle)
         /\ (~listening => w = Idle /\ queue = <<>>)
BY DEF ServiceTypeOK, ClientType, WorkType, Bytes

\* Where a client is, with its connection in the queue, in the hands of the work
\* thread, or nowhere.
Queued(c) == c \in ToSet(queue)
Closing(c) == w.pc = "close" /\ w.peer = c
There(c) == c = w.peer \/ Queued(c)

ClientAt(cl, there, queued, closing, i, o) ==
    /\ cl.pc # "line" => cl.command \in Command
    /\ cl.pc = "line" => ~there
    /\ cl.pc = "done" /\ there => closing
    /\ ~there \/ cl.pc = "send" => i = <<>>
    /\ queued => Begins(i, commandBytes(cl.command))
    /\ o # <<>> =>
         /\ cl.pc \in {"send", "recv"}
         /\ there => closing
         /\ \E r \in Outcome(cl.command) : Begins(o, replyBytes(r) \o <<NUL>>)
    /\ cl.pc = "done" =>
         \E r \in Outcome(cl.command) : Begins(cl.printed, replyBytes(r) \o <<NUL>>)

LEMMA ClientHere ==
  ASSUME NEW c
  PROVE  ClientInv(c) <=> ClientAt(client[c], There(c), Queued(c), Closing(c), in[c], out[c])
BY DEF ClientInv, ClientAt, There, Queued, Closing, connectedClients

LEMMA ClientThere ==
  ASSUME NEW c
  PROVE  ClientInv(c)' <=>
           ClientAt(client'[c], There(c)', Queued(c)', Closing(c)', in'[c], out'[c])
BY DEF ClientInv, ClientAt, There, Queued, Closing, connectedClients

WorkAt(x, cl, i) ==
    LET ws == spelled(cl.command)
    IN  /\ x.pc = "recv" =>
             /\ \E pos \in 0 .. Len(getRESPArry(ws)) :
                  HasRead(x, ws, pos) /\ Begins(i, from(getRESPArry(ws), pos))
             /\ cl.pc = "send" => x.step = "star"
        /\ x.pc \notin {"accept", "recv", "close"} =>
             Begins(x.words, ws) /\ (x.words \in {<<>>, ws} \/ cl.pc = "gone")
        /\ x.pc \in {"lock", "request", "vote", "commit"} => x.words # <<>>
        /\ x.pc = "answer" /\ cl.pc # "gone" =>
             \E r \in Outcome(cl.command) : x.answer = replyBytes(r)

LEMMA WorkHere ==
  WorkInv <=> /\ ~Queued(w.peer) /\ (w.pc # "accept" => w.peer \in Client)
              /\ WorkAt(w, client[w.peer], in[w.peer])
BY DEF WorkInv, WorkAt, Queued

LEMMA WorkThere ==
  WorkInv' <=> /\ ~Queued(w.peer)' /\ (w'.pc # "accept" => w'.peer \in Client)
               /\ WorkAt(w', client'[w'.peer], in'[w'.peer])
BY DEF WorkInv, WorkAt, Queued

LEMMA WorkAccepts ==
  ASSUME NEW x, x.pc = "accept", NEW cl, NEW i
  PROVE  WorkAt(x, cl, i)
BY DEF WorkAt

LEMMA ClientKept ==
  ASSUME NEW c \in Client, ClientInv(c), client'[c] = client[c], in'[c] = in[c], out'[c] = out[c],
         There(c)' <=> There(c), Queued(c)' => Queued(c), Closing(c) => Closing(c)'
  PROVE  ClientInv(c)'
BY ClientHere, ClientThere DEF ClientAt

LEMMA WorkKept ==
  ASSUME WorkInv, w' = w, Queued(w.peer)' => Queued(w.peer),
         w.peer \in Client => client'[w.peer] = client[w.peer] /\ in'[w.peer] = in[w.peer]
  PROVE  WorkInv'
<1>1. CASE w.pc = "accept"
  BY <1>1, WorkHere, WorkThere, WorkAccepts
<1>2. CASE w.pc # "accept"
  BY <1>2, WorkHere, WorkThere
<1> QED BY <1>1, <1>2

LEMMA ServiceAgain ==
  ASSUME ServiceTypeOK', \A c \in Client : ClientInv(c)', WorkInv'
  PROVE  ServiceInv'
BY DEF ServiceInv

LEMMA ServiceNow ==
  ASSUME ServiceInv
  PROVE  /\ ServiceTypeOK /\ WorkInv
         /\ \A c \in Client : ClientInv(c)
         /\ \A c \in Client : ClientAt(client[c], There(c), Queued(c), Closing(c), in[c], out[c])
         /\ ~Queued(w.peer) /\ (w.pc # "accept" => w.peer \in Client)
         /\ WorkAt(w, client[w.peer], in[w.peer])
         /\ (w.pc = "accept" => w = Idle)
BY ClientHere, WorkHere, ServiceTypes DEF ServiceInv

-----------------------------------------------------------------------------
\* A client does something with its own connection.
ClientDoes(c, e, i, o) ==
    /\ e \in ClientType /\ i \in Seq(Nat) /\ o \in Seq(Nat)
    /\ client' = [client EXCEPT ![c] = e]
    /\ in' = [in EXCEPT ![c] = i] /\ out' = [out EXCEPT ![c] = o]
    /\ UNCHANGED <<queue, listening, w>>

LEMMA ClientActs ==
  ASSUME ServiceInv, NEW c \in Client, NEW e, NEW i, NEW o, ClientDoes(c, e, i, o),
         ClientAt(e, There(c), Queued(c), Closing(c), i, o),
         w.peer = c => WorkAt(w, e, i)
  PROVE  ServiceInv'
<1>1. /\ client' \in [Client -> ClientType] /\ in' \in [Client -> Seq(Nat)]
      /\ out' \in [Client -> Seq(Nat)]
      /\ client'[c] = e /\ in'[c] = i /\ out'[c] = o
      /\ \A d \in Client \ {c} : client'[d] = client[d] /\ in'[d] = in[d] /\ out'[d] = out[d]
      /\ queue' = queue /\ listening' = listening /\ w' = w
  BY ServiceNow, ServiceTypes DEF ClientDoes
<1>2. ServiceTypeOK'
  BY <1>1, ServiceNow DEF ServiceTypeOK, ClientType, Bytes
<1>3. \A d : (There(d)' <=> There(d)) /\ (Queued(d)' <=> Queued(d)) /\ (Closing(d)' <=> Closing(d))
  BY <1>1 DEF There, Queued, Closing
<1>4. ClientInv(c)'
  BY <1>1, <1>3, ClientThere DEF ClientAt
<1>5. \A d \in Client \ {c} : ClientInv(d)'
  BY <1>1, <1>3, ServiceNow, ClientKept
<1>6. WorkInv'
  <2>1. CASE w.peer = c
    BY <1>1, <1>3, <2>1, ServiceNow, WorkThere
  <2>2. CASE w.peer # c
    BY <1>1, <1>3, <2>2, ServiceNow, WorkKept
  <2> QED BY <2>1, <2>2
<1> QED BY <1>2, <1>4, <1>5, <1>6, ServiceAgain

\* A client record with another pc, and with something printed.
LEMMA ClientSet ==
  ASSUME NEW x \in ClientType, NEW pc \in {"line", "send", "recv", "done", "gone"}
  PROVE  \E e \in ClientType : /\ e = [x EXCEPT !.pc = pc] /\ e.pc = pc
                               /\ e.command = x.command /\ e.printed = x.printed
<1>1. PICK e : e = [x EXCEPT !.pc = pc]
  OBVIOUS
<1>2. e \in ClientType /\ e.pc = pc /\ e.command = x.command /\ e.printed = x.printed
  BY <1>1 DEF ClientType
<1> QED BY <1>1, <1>2

LEMMA ClientPrints ==
  ASSUME NEW x \in ClientType, NEW b \in Seq(Nat)
  PROVE  \E e \in ClientType : /\ e = [x EXCEPT !.pc = "done", !.printed = b] /\ e.pc = "done"
                               /\ e.command = x.command /\ e.printed = b
<1>1. PICK e : e = [x EXCEPT !.pc = "done", !.printed = b]
  OBVIOUS
<1>2. e \in ClientType /\ e.pc = "done" /\ e.command = x.command /\ e.printed = b
  BY <1>1 DEF ClientType, Bytes
<1> QED BY <1>1, <1>2

\* The text of a command is what the work thread reads from its beginning.
LEMMA TextOfCommand ==
  ASSUME NEW c \in Command
  PROVE  /\ commandBytes(c) \in Seq(Nat) /\ commandBytes(c) # <<>>
         /\ spelled(c) \in Seq(Bytes) /\ wordsOf(spelled(c)) = c /\ Len(spelled(c)) = Len(c)
         /\ commandBytes(c) = getRESPArry(spelled(c))
         /\ Len(commandBytes(c)) \in Nat
         /\ from(getRESPArry(spelled(c)), 0) = commandBytes(c)
<1>1. c \in Seq(Word)
  BY CommandWords
<1>2. /\ commandBytes(c) \in Seq(Nat) /\ commandBytes(c) # <<>>
      /\ spelled(c) \in Seq(Seq(Nat)) /\ wordsOf(spelled(c)) = c /\ Len(spelled(c)) = Len(c)
      /\ commandBytes(c) = getRESPArry(spelled(c))
  BY <1>1, CommandText, WordsBack DEF commandBytes
<1>3. PICK t \in Seq(Nat) : t = commandBytes(c)
  BY <1>2
<1>4. from(t, 0) = t /\ Len(t) \in Nat
  BY DEF from
<1> QED BY <1>2, <1>3, <1>4 DEF Bytes

\* Nothing is read yet, so the beginning of the text may still be on its way.
LEMMA NothingReadYet ==
  ASSUME NEW x \in WorkType, NEW cl, cl.command \in Command, x.pc = "recv", x.step = "star",
         x.words = <<>>, x.digits = <<>>, x.content = <<>>,
         NEW i, Begins(i, commandBytes(cl.command))
  PROVE  WorkAt(x, cl, i)
<1>1. PICK ws \in Seq(Bytes) :
        /\ ws = spelled(cl.command) /\ from(getRESPArry(ws), 0) = commandBytes(cl.command)
        /\ Len(getRESPArry(ws)) \in Nat /\ Len(ws) \in Nat
  BY TextOfCommand
<1>2. HasRead(x, ws, 0)
  <2>1. Len(x.words) = 0
    BY <1>1
  <2> QED BY <1>1, <2>1 DEF HasRead
<1>3. 0 \in 0 .. Len(getRESPArry(ws))
  BY <1>1
<1> QED BY <1>1, <1>2, <1>3 DEF WorkAt

\* Where the first byte of the text is still to come, nothing is read yet.
LEMMA AtStar ==
  ASSUME NEW ws, NEW x \in WorkType, NEW pos, HasRead(x, ws, pos), x.step = "star"
  PROVE  x.words = <<>> /\ x.digits = <<>> /\ x.content = <<>> /\ pos = 0
<1>1. Len(x.words) = 0 /\ x.digits = <<>> /\ x.content = <<>> /\ pos = 0
  BY DEF HasRead
<1>2. x.words \in Seq(Bytes)
  BY DEF WorkType
<1> QED BY <1>1, <1>2, EmptySeq

LEMMA WholeCommand ==
  ASSUME NEW c \in Command
  PROVE  c \in PartialCommand
<1>1. c \in Seq(STRING)
  BY CommandWords
<1>2. SubSeq(c, 1, Len(c)) = c /\ Len(c) \in 0 .. Len(c)
  BY <1>1
<1>3. c \in Beginnings(c)
  BY <1>2 DEF Beginnings
<1> QED BY <1>3 DEF PartialCommand

\* An answer, as SendResult writes it.
LEMMA AnswerText ==
  ASSUME NEW c \in Command, NEW r \in Outcome(c)
  PROVE  /\ r \in WireReply /\ replyBytes(r) \in Seq(Nat)
         /\ replyBytes(r) \o <<NUL>> \in Seq(Nat)
<1>1. r \in WireReply
  BY WholeCommand DEF WireReply
<1>2. replyBytes(r) \in Seq(Nat)
  BY <1>1, ReplyText
<1>3. <<NUL>> \in Seq(Nat)
  BY DEF NUL
<1> QED BY <1>1, <1>2, <1>3

\* The beginning of what was on its way is the beginning of an answer.
LEMMA AnswerTorn ==
  ASSUME NEW c \in Command, NEW o \in Seq(Nat), NEW b \in Seq(Nat), Begins(b, o),
         \E r \in Outcome(c) : Begins(o, replyBytes(r) \o <<NUL>>)
  PROVE  \E r \in Outcome(c) : Begins(b, replyBytes(r) \o <<NUL>>)
BY AnswerText, BeginsTrans

LEMMA BeginsNothing ==
  ASSUME NEW b \in Seq(Nat), Begins(b, <<>>)
  PROVE  b = <<>>
<1>1. Len(b) \in Nat /\ Len(b) <= 0
  BY DEF Begins
<1> QED BY <1>1, EmptySeq

LEMMA SendStep ==
  ASSUME ServiceInv, NEW c \in Client, Send(c)
  PROVE  ServiceInv'
<1>1. PICK x \in ClientType : x = client[c]
  BY ServiceNow, ServiceTypes
<1>2. PICK e \in ClientType : /\ e = [x EXCEPT !.pc = "recv"] /\ e.pc = "recv"
                              /\ e.command = x.command /\ e.printed = x.printed
  BY ClientSet
<1>3. /\ client' = [client EXCEPT ![c] = e] /\ UNCHANGED <<queue, listening, w>>
      /\ x.pc = "send" /\ in \in [Client -> Seq(Nat)] /\ out \in [Client -> Seq(Nat)]
  BY <1>1, <1>2, ServiceNow, ServiceTypes DEF Send
<1>4. /\ ClientAt(x, There(c), Queued(c), Closing(c), in[c], out[c])
      /\ (w.peer = c => WorkAt(w, x, in[c])) /\ w \in WorkType
  BY <1>1, ServiceNow, ServiceTypes
<1>5. x.command \in Command /\ in[c] = <<>>
  BY <1>3, <1>4 DEF ClientAt
<1>6. /\ commandBytes(x.command) \in Seq(Nat)
      /\ Begins(commandBytes(x.command), commandBytes(x.command))
  BY <1>5, TextOfCommand, BeginsAll
<1>7. CASE c \in connectedClients
  <2>1. There(c)
    BY <1>7 DEF There, Queued, connectedClients
  <2>2. ClientDoes(c, e, commandBytes(x.command), out[c])
    BY <1>1, <1>3, <1>6, <1>7 DEF Send, ClientDoes
  <2>3. ClientAt(e, There(c), Queued(c), Closing(c), commandBytes(x.command), out[c])
    BY <1>2, <1>3, <1>4, <1>5, <1>6, <2>1 DEF ClientAt
  <2>4. ASSUME w.peer = c
        PROVE  WorkAt(w, e, commandBytes(x.command))
    <3>1. CASE w.pc = "recv"
      <4>1. w.step = "star" /\ \E pos : HasRead(w, spelled(x.command), pos)
        BY <1>3, <1>4, <2>4, <3>1 DEF WorkAt
      <4>2. w.words = <<>> /\ w.digits = <<>> /\ w.content = <<>>
        BY <1>4, <4>1, AtStar
      <4> QED BY <1>2, <1>4, <1>5, <1>6, <3>1, <4>1, <4>2, NothingReadYet
    <3>2. CASE w.pc # "recv"
      BY <1>2, <1>3, <1>4, <2>4, <3>2 DEF WorkAt
    <3> QED BY <3>1, <3>2
  <2> QED BY <2>2, <2>3, <2>4, ClientActs
<1>8. CASE c \notin connectedClients
  <2>1. ~There(c)
    BY <1>8 DEF There, Queued, connectedClients
  <2>2. PICK b \in torn(out[c]) : out' = [out EXCEPT ![c] = b] /\ in' = in
    BY <1>8 DEF Send
  <2>3. b \in Seq(Nat) /\ Begins(b, out[c]) /\ out[c] \in Seq(Nat)
    BY <1>3, <2>2, Torn
  <2>4. ClientDoes(c, e, in[c], b)
    BY <1>1, <1>3, <2>2, <2>3 DEF ClientDoes
  <2>5. b # <<>> => \E r \in Outcome(x.command) : Begins(b, replyBytes(r) \o <<NUL>>)
    <3>1. b # <<>> => out[c] # <<>>
      BY <2>3, BeginsNothing
    <3>2. out[c] # <<>> => \E r \in Outcome(x.command) : Begins(out[c], replyBytes(r) \o <<NUL>>)
      BY <1>4 DEF ClientAt
    <3> QED BY <1>5, <2>3, <3>1, <3>2, AnswerTorn
  <2>6. ClientAt(e, There(c), Queued(c), Closing(c), in[c], b)
    <3>1. ~Queued(c) /\ w.peer # c
      BY <2>1 DEF There
    <3> QED BY <1>2, <1>4, <1>5, <2>1, <2>5, <3>1 DEF ClientAt
  <2>7. w.peer # c
    BY <2>1 DEF There
  <2> QED BY <2>4, <2>6, <2>7, ClientActs
<1> QED BY <1>7, <1>8

LEMMA ReceiveStep ==
  ASSUME ServiceInv, NEW c \in Client, Receive(c)
  PROVE  ServiceInv'
<1>1. PICK x \in ClientType : x = client[c]
  BY ServiceNow, ServiceTypes
<1>2. /\ ClientAt(x, There(c), Queued(c), Closing(c), in[c], out[c])
      /\ (w.peer = c => WorkAt(w, x, in[c])) /\ w \in WorkType
      /\ in[c] \in Seq(Nat) /\ out[c] \in Seq(Nat) /\ x.pc = "recv"
  BY <1>1, ServiceNow, ServiceTypes DEF Receive
<1>3. PICK n \in pieces(out[c], BufferLen) :
        client' = [client EXCEPT ![c].pc = "done", ![c].printed = first(out[c], n)]
  BY DEF Receive
<1>4. n \in 1 .. Len(out[c]) /\ n \in 0 .. Len(out[c])
  BY <1>2, Pieces DEF BufferLen
<1>5. PICK b \in Seq(Nat) : b = first(out[c], n) /\ Begins(b, out[c])
  BY <1>2, <1>4, Split
<1>6. out[c] # <<>>
  BY <1>4
<1>7. PICK e \in ClientType : /\ e = [x EXCEPT !.pc = "done", !.printed = b] /\ e.pc = "done"
                              /\ e.command = x.command /\ e.printed = b
  BY ClientPrints
<1>8. ClientDoes(c, e, in[c], <<>>)
  <2>1. in' = [in EXCEPT ![c] = in[c]]
    BY ServiceNow, ServiceTypes DEF Receive
  <2>2. client' = [client EXCEPT ![c] = e]
    BY <1>1, <1>3, <1>5, <1>7, ServiceNow, ServiceTypes
  <2>3. out' = [out EXCEPT ![c] = <<>>] /\ <<>> \in Seq(Nat)
    BY DEF Receive
  <2>4. UNCHANGED <<queue, listening, w>>
    BY DEF Receive
  <2> QED BY <1>2, <1>7, <2>1, <2>2, <2>3, <2>4 DEF ClientDoes
<1>9. /\ x.command \in Command /\ (There(c) => Closing(c))
      /\ \E r \in Outcome(x.command) : Begins(b, replyBytes(r) \o <<NUL>>)
  <2>1. /\ x.command \in Command /\ (There(c) => Closing(c))
        /\ \E r \in Outcome(x.command) : Begins(out[c], replyBytes(r) \o <<NUL>>)
    BY <1>2, <1>6 DEF ClientAt
  <2> QED BY <1>2, <1>5, <2>1, AnswerTorn
<1>10. ClientAt(e, There(c), Queued(c), Closing(c), in[c], <<>>)
  BY <1>2, <1>7, <1>9 DEF ClientAt
<1>11. w.peer = c => WorkAt(w, e, in[c])
  <2>1. w.peer = c => w.pc = "close"
    BY <1>9 DEF There, Closing
  <2> QED BY <2>1 DEF WorkAt
<1> QED BY <1>8, <1>10, <1>11, ClientActs

LEMMA QuitStep ==
  ASSUME ServiceInv, NEW c \in Client, Quit(c)
  PROVE  ServiceInv'
<1>1. PICK x \in ClientType : x = client[c]
  BY ServiceNow, ServiceTypes
<1>2. PICK e \in ClientType : /\ e = [x EXCEPT !.pc = "gone"] /\ e.pc = "gone"
                              /\ e.command = x.command /\ e.printed = x.printed
  BY ClientSet
<1>3. /\ client' = [client EXCEPT ![c] = e] /\ UNCHANGED <<queue, listening, w>>
      /\ out' = [out EXCEPT ![c] = <<>>]
      /\ x.pc \in {"send", "recv"} /\ in \in [Client -> Seq(Nat)]
  BY <1>1, <1>2, ServiceNow, ServiceTypes DEF Quit
<1>4. /\ ClientAt(x, There(c), Queued(c), Closing(c), in[c], out[c])
      /\ (w.peer = c => WorkAt(w, x, in[c])) /\ w \in WorkType /\ in[c] \in Seq(Nat)
  BY <1>1, ServiceNow, ServiceTypes
<1>5. /\ x.command \in Command /\ commandBytes(x.command) \in Seq(Nat)
      /\ (x.pc = "send" => in[c] = <<>>) /\ (~There(c) => in[c] = <<>>)
  BY <1>3, <1>4, TextOfCommand DEF ClientAt
<1>6. CASE x.pc = "send" /\ c \in connectedClients
  <2>1. There(c)
    BY <1>6 DEF There, Queued, connectedClients
  <2>2. PICK b \in torn(commandBytes(x.command)) : in' = [in EXCEPT ![c] = b]
    BY <1>1, <1>6 DEF Quit
  <2>3. b \in Seq(Nat) /\ Begins(b, commandBytes(x.command))
    BY <1>5, <2>2, Torn
  <2>4. ClientDoes(c, e, b, <<>>)
    BY <1>3, <2>2, <2>3 DEF ClientDoes
  <2>5. ClientAt(e, There(c), Queued(c), Closing(c), b, <<>>)
    BY <1>2, <1>5, <2>1, <2>3 DEF ClientAt
  <2>6. ASSUME w.peer = c
        PROVE  WorkAt(w, e, b)
    <3>1. CASE w.pc = "recv"
      <4>1. w.step = "star" /\ \E pos : HasRead(w, spelled(x.command), pos)
        BY <1>4, <1>6, <2>6, <3>1 DEF WorkAt
      <4>2. w.words = <<>> /\ w.digits = <<>> /\ w.content = <<>>
        BY <1>4, <4>1, AtStar
      <4> QED BY <1>2, <1>4, <1>5, <2>3, <3>1, <4>1, <4>2, NothingReadYet
    <3>2. CASE w.pc # "recv"
      BY <1>2, <1>4, <2>6, <3>2 DEF WorkAt
    <3> QED BY <3>1, <3>2
  <2> QED BY <2>4, <2>5, <2>6, ClientActs
<1>7. CASE ~(x.pc = "send" /\ c \in connectedClients)
  <2>1. in' = [in EXCEPT ![c] = in[c]]
    BY <1>1, <1>3, <1>7 DEF Quit
  <2>2. ClientDoes(c, e, in[c], <<>>)
    <3>1. <<>> \in Seq(Nat)
      OBVIOUS
    <3> QED BY <1>3, <1>4, <2>1, <3>1 DEF ClientDoes
  <2>3. There(c) => x.pc = "recv"
    BY <1>3, <1>7 DEF There, Queued, connectedClients
  <2>4. ClientAt(e, There(c), Queued(c), Closing(c), in[c], <<>>)
    <3>1. Queued(c) => There(c)
      BY DEF There
    <3> QED BY <1>2, <1>4, <1>5, <2>3, <3>1 DEF ClientAt
  <2>5. ASSUME w.peer = c
        PROVE  WorkAt(w, e, in[c])
    BY <1>2, <1>4, <2>5 DEF WorkAt
  <2> QED BY <2>2, <2>4, <2>5, ClientActs
<1> QED BY <1>6, <1>7

LEMMA NextLineStep ==
  ASSUME ServiceInv, NEW c \in Client, NextLine(c)
  PROVE  ServiceInv'
<1>1. /\ ClientAt(client[c], There(c), Queued(c), Closing(c), in[c], out[c])
      /\ in \in [Client -> Seq(Nat)] /\ out \in [Client -> Seq(Nat)]
      /\ client[c].pc \in {"done", "gone"}
  BY ServiceNow, ServiceTypes DEF NextLine
<1>2. ~There(c) /\ ~Queued(c)
  BY DEF NextLine, connectedClients, There, Queued
<1>3. in[c] = <<>> /\ out[c] = <<>>
  BY <1>1, <1>2 DEF ClientAt
<1>4. PICK e \in ClientType : e = NoLine /\ e.pc = "line"
  <2>1. NoLine \in ClientType /\ NoLine.pc = "line"
    BY DEF NoLine, ClientType, Bytes
  <2> QED BY <2>1
<1>5. ClientDoes(c, e, in[c], out[c])
  <2>1. in' = [in EXCEPT ![c] = in[c]] /\ out' = [out EXCEPT ![c] = out[c]]
    BY <1>1 DEF NextLine
  <2>2. in[c] \in Seq(Nat) /\ out[c] \in Seq(Nat)
    BY <1>1
  <2>3. client' = [client EXCEPT ![c] = e] /\ UNCHANGED <<queue, listening, w>>
    BY <1>4 DEF NextLine
  <2> QED BY <1>4, <2>1, <2>2, <2>3 DEF ClientDoes
<1>6. ClientAt(e, There(c), Queued(c), Closing(c), in[c], out[c])
  BY <1>2, <1>3, <1>4 DEF ClientAt
<1>7. w.peer # c
  BY <1>2 DEF There
<1> QED BY <1>5, <1>6, <1>7, ClientActs

\* A connection is added to those that wait.
LEMMA QueueMore ==
  ASSUME NEW q \in Seq(Client), IsInjective(q), NEW c \in Client, c \notin ToSet(q)
  PROVE  /\ Append(q, c) \in Seq(Client) /\ IsInjective(Append(q, c))
         /\ ToSet(Append(q, c)) = ToSet(q) \cup {c}
<1>1. PICK r \in Seq(Client), n \in Nat :
        /\ r = Append(q, c) /\ n = Len(q) /\ Len(r) = n + 1 /\ r[n + 1] = c
        /\ DOMAIN r = 1 .. n + 1 /\ DOMAIN q = 1 .. n /\ \A i \in 1 .. n : r[i] = q[i]
  <2>1. /\ Append(q, c) \in Seq(Client) /\ Len(q) \in Nat /\ Len(Append(q, c)) = Len(q) + 1
        /\ Append(q, c)[Len(q) + 1] = c
        /\ \A i \in 1 .. Len(q) : Append(q, c)[i] = q[i]
    BY AppendProperties
  <2>2. DOMAIN Append(q, c) = 1 .. Len(q) + 1 /\ DOMAIN q = 1 .. Len(q)
    BY <2>1
  <2> QED BY <2>1, <2>2
<1>2. \A i \in 1 .. n + 1 : i \in 1 .. n \/ i = n + 1
  BY <1>1
<1>3. \A i \in 1 .. n : i \in 1 .. n + 1 /\ q[i] # c
  BY <1>1 DEF ToSet
<1>4. n + 1 \in 1 .. n + 1
  BY <1>1
<1>5. ToSet(r) = ToSet(q) \cup {c}
  BY <1>1, <1>2, <1>3, <1>4 DEF ToSet
<1>6. IsInjective(r)
  BY <1>1, <1>2, <1>3 DEF IsInjective
<1> QED BY <1>1, <1>5, <1>6

\* The first one of those that wait is taken.
LEMMA QueueLess ==
  ASSUME NEW q \in Seq(Client), IsInjective(q), q # <<>>
  PROVE  /\ Head(q) \in Client /\ Tail(q) \in Seq(Client) /\ IsInjective(Tail(q))
         /\ Head(q) \notin ToSet(Tail(q))
         /\ ToSet(q) = ToSet(Tail(q)) \cup {Head(q)}
<1>1. PICK r \in Seq(Client), n \in Nat, c \in Client :
        /\ r = Tail(q) /\ n = Len(q) /\ Len(r) = n - 1 /\ n # 0 /\ c = Head(q) /\ q[1] = c
        /\ DOMAIN q = 1 .. n /\ DOMAIN r = 1 .. n - 1 /\ \A i \in 1 .. n - 1 : r[i] = q[i + 1]
  <2>1. /\ Tail(q) \in Seq(Client) /\ Len(q) \in Nat \ {0} /\ Len(Tail(q)) = Len(q) - 1
        /\ \A i \in 1 .. Len(q) - 1 : Tail(q)[i] = q[i + 1]
        /\ Head(q) = q[1] /\ Head(q) \in Client
    BY EmptySeq, HeadTailProperties
  <2>2. DOMAIN q = 1 .. Len(q) /\ DOMAIN Tail(q) = 1 .. Len(q) - 1
    BY <2>1
  <2> QED BY <2>1, <2>2
<1>2. \A i \in 1 .. n - 1 : i + 1 \in 1 .. n /\ i + 1 # 1
  BY <1>1
<1>3. \A i \in 1 .. n : i = 1 \/ (i - 1 \in 1 .. n - 1 /\ (i - 1) + 1 = i)
  BY <1>1
<1>4. 1 \in 1 .. n /\ \A i, j \in 1 .. n - 1 : i + 1 = j + 1 => i = j
  BY <1>1
<1>5. \A i, j \in 1 .. n : q[i] = q[j] => i = j
  BY <1>1 DEF IsInjective
<1>6. ToSet(q) = ToSet(r) \cup {c}
  <2>1. ASSUME NEW x \in ToSet(q)
        PROVE  x \in ToSet(r) \cup {c}
    <3>1. PICK i \in 1 .. n : x = q[i]
      BY <1>1 DEF ToSet
    <3>2. CASE i # 1
      <4>1. PICK j \in 1 .. n - 1 : j = i - 1 /\ j + 1 = i
        BY <1>3, <3>2
      <4>2. x = r[j] /\ j \in DOMAIN r
        BY <1>1, <3>1, <4>1
      <4> QED BY <4>2 DEF ToSet
    <3> QED BY <1>1, <3>1, <3>2
  <2>2. \A x \in ToSet(r) \cup {c} : x \in ToSet(q)
    BY <1>1, <1>2, <1>4 DEF ToSet
  <2> QED BY <2>1, <2>2
<1>7. c \notin ToSet(r)
  BY <1>1, <1>2, <1>4, <1>5 DEF ToSet
<1>8. IsInjective(r)
  BY <1>1, <1>2, <1>4, <1>5 DEF IsInjective
<1> QED BY <1>1, <1>6, <1>7, <1>8

LEMMA OpenStep ==
  ASSUME ServiceInv, NEW c \in Client, OpenConnection(c)
  PROVE  ServiceInv'
<1>1. PICK command \in Command :
        client' = [client EXCEPT ![c].pc = "send", ![c].command = command]
  BY DEF OpenConnection
<1>2. PICK x \in ClientType : x = client[c] /\ x.pc = "line"
  BY ServiceNow, ServiceTypes DEF OpenConnection
<1>3. PICK e \in ClientType : /\ e = [x EXCEPT !.pc = "send", !.command = command]
                              /\ e.pc = "send" /\ e.command = command
  <2>1. PICK e : e = [x EXCEPT !.pc = "send", !.command = command]
    OBVIOUS
  <2>2. e \in ClientType /\ e.pc = "send" /\ e.command = command
    BY <2>1 DEF ClientType
  <2> QED BY <2>1, <2>2
<1>4. /\ client \in [Client -> ClientType] /\ queue \in Seq(Client) /\ IsInjective(queue)
      /\ in \in [Client -> Seq(Nat)] /\ out \in [Client -> Seq(Nat)] /\ listening
  BY ServiceNow, ServiceTypes DEF OpenConnection
<1>5. /\ client' = [client EXCEPT ![c] = e] /\ queue' = Append(queue, c)
      /\ UNCHANGED <<listening, in, out, w>>
  BY <1>1, <1>2, <1>3, <1>4 DEF OpenConnection
<1>6. ClientAt(x, There(c), Queued(c), Closing(c), in[c], out[c])
  BY <1>2, ServiceNow
<1>7. ~There(c) /\ ~Queued(c) /\ in[c] = <<>> /\ out[c] = <<>> /\ w.peer # c
  BY <1>2, <1>6 DEF ClientAt, There
<1>8. /\ queue' \in Seq(Client) /\ IsInjective(queue')
      /\ \A d : Queued(d)' <=> (Queued(d) \/ d = c)
  BY <1>4, <1>5, <1>7, QueueMore DEF Queued
<1>9. ServiceTypeOK'
  <2>1. client' \in [Client -> ClientType]
    BY <1>4, <1>5
  <2> QED BY <1>4, <1>5, <1>8, <2>1, ServiceNow DEF ServiceTypeOK, ClientType, Bytes
<1>10. ClientInv(c)'
  <2>1. client'[c] = e /\ in'[c] = <<>> /\ out'[c] = <<>>
    BY <1>4, <1>5, <1>7
  <2>2. Begins(<<>>, commandBytes(command))
    BY TextOfCommand, BeginsAll
  <2> QED BY <1>3, <2>1, <2>2, ClientThere DEF ClientAt
<1>11. ASSUME NEW d \in Client, d # c
       PROVE  ClientInv(d)'
  <2>1. client'[d] = client[d] /\ in'[d] = in[d] /\ out'[d] = out[d]
    BY <1>4, <1>5, <1>11
  <2>2. (There(d)' <=> There(d)) /\ (Queued(d)' <=> Queued(d)) /\ (Closing(d)' <=> Closing(d))
    BY <1>5, <1>8, <1>11 DEF There, Closing
  <2> QED BY <2>1, <2>2, ServiceNow, ClientKept
<1>12. WorkInv'
  <2>1. w' = w /\ (Queued(w.peer)' => Queued(w.peer))
    BY <1>5, <1>7, <1>8
  <2>2. w.peer \in Client => client'[w.peer] = client[w.peer] /\ in'[w.peer] = in[w.peer]
    BY <1>4, <1>5, <1>7
  <2> QED BY <2>1, <2>2, ServiceNow, WorkKept
<1> QED BY <1>9, <1>10, <1>11, <1>12, ServiceAgain

-----------------------------------------------------------------------------
(***************************************************************************)
(* The work thread on a client's connection.                               *)
(***************************************************************************)
WorkDoes(x, i, o) ==
    /\ x \in WorkType /\ x.peer = w.peer /\ x.pc # "accept" /\ i \in Seq(Nat) /\ o \in Seq(Nat)
    /\ w' = x
    /\ in' = [in EXCEPT ![w.peer] = i] /\ out' = [out EXCEPT ![w.peer] = o]
    /\ UNCHANGED <<client, queue, listening>>

LEMMA WorkActs ==
  ASSUME ServiceInv, w.pc # "accept", NEW x, NEW i, NEW o, WorkDoes(x, i, o),
         ClientAt(client[w.peer], TRUE, FALSE, x.pc = "close", i, o),
         WorkAt(x, client[w.peer], i)
  PROVE  ServiceInv'
<1>1. PICK c \in Client : c = w.peer
  BY ServiceNow
<1>2. /\ in' \in [Client -> Seq(Nat)] /\ out' \in [Client -> Seq(Nat)]
      /\ in'[c] = i /\ out'[c] = o /\ w' = x /\ x.peer = c /\ x \in WorkType
      /\ \A d \in Client \ {c} : in'[d] = in[d] /\ out'[d] = out[d]
      /\ queue' = queue /\ listening' = listening /\ client' = client
  BY <1>1, ServiceNow, ServiceTypes DEF WorkDoes
<1>3. listening
  BY IdleType, ServiceNow, ServiceTypes
<1>4. ServiceTypeOK'
  <2>1. (w'.pc = "accept") <=> (w' = Idle)
    BY <1>2, IdleType DEF WorkDoes
  <2> QED BY <1>2, <1>3, <2>1, ServiceNow DEF ServiceTypeOK, WorkType, Bytes
<1>5. \A d : (There(d)' <=> There(d)) /\ (Queued(d)' <=> Queued(d))
  BY <1>1, <1>2 DEF There, Queued
<1>6. ClientInv(c)'
  <2>1. There(c)' <=> TRUE
    BY <1>1, <1>5 DEF There
  <2>2. Queued(c)' <=> FALSE
    BY <1>1, <1>5, ServiceNow
  <2>3. Closing(c)' <=> x.pc = "close"
    BY <1>2 DEF Closing
  <2> QED BY <1>1, <1>2, <2>1, <2>2, <2>3, ClientThere DEF ClientAt
<1>7. ASSUME NEW d \in Client \ {c}
      PROVE  ClientInv(d)'
  <2>1. ~Closing(d)
    BY <1>1 DEF Closing
  <2> QED BY <1>2, <1>5, <2>1, ServiceNow, ClientKept
<1>8. WorkInv'
  BY <1>1, <1>2, <1>5, ServiceNow, WorkThere
<1> QED BY <1>4, <1>6, <1>7, <1>8, ServiceAgain

LEMMA BindStep ==
  ASSUME ServiceInv, initBind
  PROVE  ServiceInv'
<1>1. ServiceTypeOK'
  BY ServiceNow DEF initBind, ServiceTypeOK
<1>2. \A d : (There(d)' <=> There(d)) /\ (Queued(d)' <=> Queued(d)) /\ (Closing(d)' <=> Closing(d))
  BY DEF initBind, There, Queued, Closing
<1>3. \A d \in Client : ClientInv(d)'
  BY <1>2, ServiceNow, ClientKept DEF initBind
<1>4. WorkInv'
  BY <1>2, ServiceNow, WorkKept DEF initBind
<1> QED BY <1>1, <1>3, <1>4, ServiceAgain

LEMMA AcceptStep ==
  ASSUME ServiceInv, acceptWithoutCloseBind
  PROVE  ServiceInv'
<1>1. PICK c \in Client : c = Head(queue)
  BY ServiceNow, ServiceTypes, QueueLess DEF acceptWithoutCloseBind
<1>2. /\ queue' \in Seq(Client) /\ IsInjective(queue') /\ ~Queued(c)'
      /\ \A d : Queued(d) <=> (Queued(d)' \/ d = c)
  BY <1>1, ServiceNow, ServiceTypes, QueueLess DEF acceptWithoutCloseBind, Queued
<1>3. PICK x \in WorkType :
        /\ x = [Idle EXCEPT !.pc = "recv", !.peer = c] /\ x.pc = "recv" /\ x.peer = c
        /\ x.step = "star" /\ x.words = <<>> /\ x.digits = <<>> /\ x.content = <<>>
  <2>1. PICK x : x = [Idle EXCEPT !.pc = "recv", !.peer = c]
    OBVIOUS
  <2>2. /\ x \in WorkType /\ x.pc = "recv" /\ x.peer = c /\ x.step = "star" /\ x.words = <<>>
        /\ x.digits = <<>> /\ x.content = <<>>
    BY <2>1, IdleType DEF WorkType
  <2> QED BY <2>1, <2>2
<1>4. w' = x /\ w = Idle /\ UNCHANGED <<client, listening, in, out>> /\ listening
  BY <1>1, <1>3, ServiceNow, ServiceTypes DEF acceptWithoutCloseBind
<1>5. ClientAt(client[c], TRUE, TRUE, FALSE, in[c], out[c])
  <2>1. There(c) /\ Queued(c)
    BY <1>2 DEF There
  <2>2. ~Closing(c)
    BY <1>4, IdleType DEF Closing
  <2> QED BY <2>1, <2>2, ServiceNow DEF ClientAt
<1>6. ServiceTypeOK'
  <2>1. (w'.pc = "accept") <=> (w' = Idle)
    BY <1>3, <1>4, IdleType
  <2> QED BY <1>2, <1>3, <1>4, <2>1, ServiceNow DEF ServiceTypeOK, WorkType, Bytes
<1>7. ClientInv(c)'
  <2>1. There(c)' /\ ~Queued(c)' /\ ~Closing(c)'
    BY <1>2, <1>3, <1>4 DEF There, Closing
  <2> QED BY <1>4, <1>5, <2>1, ClientThere DEF ClientAt
<1>8. ASSUME NEW d \in Client, d # c
      PROVE  ClientInv(d)'
  <2>1. (There(d)' <=> There(d)) /\ (Queued(d)' <=> Queued(d)) /\ ~Closing(d)
    BY <1>2, <1>3, <1>4, <1>8, IdleType, NoClientAssumption DEF There, Closing
  <2> QED BY <1>4, <2>1, ServiceNow, ClientKept
<1>9. WorkInv'
  <2>1. client[c].command \in Command /\ Begins(in[c], commandBytes(client[c].command))
    BY <1>5 DEF ClientAt
  <2>2. WorkAt(x, client[c], in[c])
    BY <1>3, <2>1, NothingReadYet
  <2> QED BY <1>2, <1>3, <1>4, <2>2, WorkThere
<1> QED BY <1>6, <1>7, <1>8, <1>9, ServiceAgain

\* What the work thread has read, and whose connection it is.
LEMMA Receiving ==
  ASSUME ServiceInv, w.pc = "recv"
  PROVE  \E c \in Client, cl \in ClientType, ws \in Seq(Bytes), pos \in Nat :
           /\ c = w.peer /\ cl = client[c] /\ cl.command \in Command
           /\ ws = spelled(cl.command) /\ getRESPArry(ws) \in Seq(Nat)
           /\ pos \in 0 .. Len(getRESPArry(ws)) /\ Reading(w, ws, pos)
           /\ in[c] \in Seq(Nat) /\ Begins(in[c], from(getRESPArry(ws), pos))
           /\ out[c] \in Seq(Nat)
           /\ ClientAt(cl, TRUE, FALSE, FALSE, in[c], out[c])
           /\ (cl.pc = "send" => w.step = "star")
<1>1. PICK c \in Client : c = w.peer
  BY ServiceNow
<1>2. PICK cl \in ClientType : cl = client[c]
  BY ServiceNow, ServiceTypes
<1>3. ClientAt(cl, TRUE, FALSE, FALSE, in[c], out[c])
  <2>1. There(c) /\ ~Queued(c) /\ ~Closing(c)
    BY <1>1, ServiceNow DEF There, Closing
  <2> QED BY <1>1, <1>2, <2>1, ServiceNow DEF ClientAt
<1>4. cl.command \in Command
  BY <1>3 DEF ClientAt
<1>5. PICK ws \in Seq(Bytes) : ws = spelled(cl.command) /\ getRESPArry(ws) \in Seq(Nat)
  BY <1>4, TextOfCommand
<1>6. WorkAt(w, cl, in[c])
  BY <1>1, <1>2, ServiceNow
<1>7. PICK pos \in 0 .. Len(getRESPArry(ws)) :
        HasRead(w, ws, pos) /\ Begins(in[c], from(getRESPArry(ws), pos))
  BY <1>5, <1>6 DEF WorkAt
<1>8. pos \in Nat /\ (cl.pc = "send" => w.step = "star")
  BY <1>5, <1>6, <1>7 DEF WorkAt
<1>9. w \in WorkType /\ in[c] \in Seq(Nat) /\ out[c] \in Seq(Nat)
  BY ServiceNow, ServiceTypes
<1> QED BY <1>1, <1>2, <1>3, <1>4, <1>5, <1>7, <1>8, <1>9 DEF Reading

LEMMA AllWords ==
  ASSUME NEW ws \in Seq(Bytes)
  PROVE  Begins(ws, ws)
<1>1. Len(ws) \in Nat
  OBVIOUS
<1> QED BY <1>1 DEF Begins

LEMMA ReadsOn ==
  ASSUME ServiceInv, w.pc = "recv", NEW c, NEW cl, NEW ws \in Seq(Bytes), NEW pos \in Nat,
         c = w.peer, cl = client[c], ws = spelled(cl.command), in[c] # <<>>,
         pos \in 0 .. Len(getRESPArry(ws)),
         ClientAt(cl, TRUE, FALSE, FALSE, in[c], out[c]), out[c] \in Seq(Nat), c \in Client,
         NEW z, ReadOn(z, w, ws, pos), NEW i \in Seq(Nat), Begins(i, from(getRESPArry(ws), pos)),
         w' = z, in' = [in EXCEPT ![c] = i], UNCHANGED <<client, queue, listening, out>>
  PROVE  ServiceInv' /\ w'.pc \in {"recv", "dispatch"}
<1>1. z \in WorkType /\ z.peer = c /\ z.pc \in {"recv", "dispatch"}
  BY DEF ReadOn
<1>2. WorkDoes(z, i, out[c])
  <2>1. out' = [out EXCEPT ![c] = out[c]]
    BY ServiceNow, ServiceTypes
  <2> QED BY <1>1, <2>1 DEF WorkDoes
<1>3. cl.pc # "send"
  BY DEF ClientAt
<1>4. ClientAt(cl, TRUE, FALSE, z.pc = "close", i, out[c])
  BY <1>1, <1>3 DEF ClientAt
<1>5. WorkAt(z, cl, i)
  <2>1. CASE z.pc = "recv"
    BY <1>3, <2>1 DEF WorkAt, ReadOn
  <2>2. CASE z.pc = "dispatch"
    <3>1. z.words = ws /\ Begins(ws, ws)
      BY <2>2, AllWords DEF ReadOn
    <3> QED BY <2>2, <3>1 DEF WorkAt
  <2> QED BY <1>1, <2>1, <2>2
<1> QED BY <1>1, <1>2, <1>4, <1>5, WorkActs

LEMMA ByteStep ==
  ASSUME ServiceInv, RecvByte
  PROVE  ServiceInv' /\ w'.pc \in {"recv", "dispatch"}
<1>1. PICK c \in Client, cl \in ClientType, ws \in Seq(Bytes), pos \in Nat :
           /\ c = w.peer /\ cl = client[c] /\ cl.command \in Command
           /\ ws = spelled(cl.command) /\ getRESPArry(ws) \in Seq(Nat)
           /\ pos \in 0 .. Len(getRESPArry(ws)) /\ Reading(w, ws, pos)
           /\ in[c] \in Seq(Nat) /\ Begins(in[c], from(getRESPArry(ws), pos))
           /\ out[c] \in Seq(Nat)
           /\ ClientAt(cl, TRUE, FALSE, FALSE, in[c], out[c])
           /\ (cl.pc = "send" => w.step = "star")
  BY Receiving DEF RecvByte
<1>2. PICK T \in Seq(Nat) : T = getRESPArry(ws) /\ Layout(ws, T, starts(ws))
  BY <1>1, LayoutThere DEF Bytes
<1>3. PICK s \in Seq(Nat) : s = in[c] /\ s # <<>>
  BY <1>1 DEF RecvByte
<1>4. /\ pos + 1 \in 0 .. Len(T) /\ Head(s) = T[pos + 1] /\ Tail(s) \in Seq(Nat)
      /\ Begins(Tail(s), from(T, pos + 1)) /\ pos + 1 \in Nat
  BY <1>1, <1>2, <1>3, NextByte
<1>5. PICK z : z = headerByte(w, Head(s))
  OBVIOUS
<1>6. ReadOn(z, w, ws, pos + 1)
  <2>1. Read(w, ws, T, starts(ws), pos, Head(s))
    BY <1>1, <1>2, <1>4 DEF Read
  <2> QED BY <1>5, <2>1, HeaderByte DEF RecvByte
<1>7. w' = z /\ in' = [in EXCEPT ![c] = Tail(s)] /\ UNCHANGED <<client, queue, listening, out>>
  BY <1>1, <1>3, <1>5, ServiceNow, ServiceTypes DEF RecvByte
<1>8. w.pc = "recv" /\ in[c] # <<>>
  BY <1>3 DEF RecvByte
<1>9. PICK i \in Seq(Nat), k \in Nat : i = Tail(s) /\ k = pos + 1
  BY <1>4
<1> QED BY <1>1, <1>2, <1>4, <1>6, <1>7, <1>8, <1>9, ReadsOn

LEMMA WordStep ==
  ASSUME ServiceInv, RecvWord
  PROVE  ServiceInv' /\ w'.pc \in {"recv", "dispatch"}
<1>1. PICK c \in Client, cl \in ClientType, ws \in Seq(Bytes), pos \in Nat :
           /\ c = w.peer /\ cl = client[c] /\ cl.command \in Command
           /\ ws = spelled(cl.command) /\ getRESPArry(ws) \in Seq(Nat)
           /\ pos \in 0 .. Len(getRESPArry(ws)) /\ Reading(w, ws, pos)
           /\ in[c] \in Seq(Nat) /\ Begins(in[c], from(getRESPArry(ws), pos))
           /\ out[c] \in Seq(Nat)
           /\ ClientAt(cl, TRUE, FALSE, FALSE, in[c], out[c])
           /\ (cl.pc = "send" => w.step = "star")
  BY Receiving DEF RecvWord
<1>2. PICK s \in Seq(Nat) : s = in[c]
  BY <1>1
<1>3. PICK n \in pieces(s, strtol(w.digits) - Len(w.content)) :
        /\ w' = content([w EXCEPT !.content = @ \o first(s, n)])
        /\ in' = [in EXCEPT ![c] = rest(s, n)]
  <2>1. PICK n \in pieces(in[w.peer], strtol(w.digits) - Len(w.content)) :
          /\ w' = content([w EXCEPT !.content = @ \o first(in[w.peer], n)])
          /\ in' = [in EXCEPT ![w.peer] = rest(@, n)]
    BY DEF RecvWord
  <2> QED BY <1>1, <1>2, <2>1, ServiceNow, ServiceTypes
<1>4. PICK z : z = content([w EXCEPT !.content = @ \o first(s, n)])
  OBVIOUS
<1>5. /\ ReadOn(z, w, ws, pos + n) /\ pos + n \in 0 .. Len(getRESPArry(ws))
      /\ rest(s, n) \in Seq(Nat) /\ Begins(rest(s, n), from(getRESPArry(ws), pos + n))
      /\ n \in 1 .. Len(s)
  <2>1. pos <= Len(getRESPArry(ws)) /\ w.step = "content"
    BY <1>1 DEF RecvWord
  <2> QED BY <1>1, <1>2, <1>3, <1>4, <2>1, WordPiece
<1>6. s # <<>> /\ pos + n \in Nat
  BY <1>1, <1>5
<1>7. UNCHANGED <<client, queue, listening, out>> /\ w.pc = "recv"
  BY DEF RecvWord
<1> QED BY <1>1, <1>2, <1>3, <1>4, <1>5, <1>6, <1>7, ReadsOn

LEMMA FailsStep ==
  ASSUME ServiceInv, RecvFails
  PROVE  ServiceInv'
<1>1. PICK c \in Client, cl \in ClientType, ws \in Seq(Bytes), pos \in Nat :
           /\ c = w.peer /\ cl = client[c] /\ cl.command \in Command
           /\ ws = spelled(cl.command) /\ getRESPArry(ws) \in Seq(Nat)
           /\ pos \in 0 .. Len(getRESPArry(ws)) /\ Reading(w, ws, pos)
           /\ in[c] \in Seq(Nat) /\ Begins(in[c], from(getRESPArry(ws), pos))
           /\ out[c] \in Seq(Nat)
           /\ ClientAt(cl, TRUE, FALSE, FALSE, in[c], out[c])
           /\ (cl.pc = "send" => w.step = "star")
  BY Receiving DEF RecvFails
<1>2. PICK z \in WorkType : /\ z = commandRead(w) /\ z.pc = "dispatch" /\ z.peer = c
                            /\ z.words = w.words
  BY <1>1, ServiceNow, ServiceTypes, CommandRead
<1>3. WorkDoes(z, in[c], out[c])
  <2>1. in' = [in EXCEPT ![c] = in[c]] /\ out' = [out EXCEPT ![c] = out[c]]
    BY ServiceNow, ServiceTypes DEF RecvFails
  <2> QED BY <1>1, <1>2, <2>1 DEF WorkDoes, RecvFails
<1>4. ClientAt(cl, TRUE, FALSE, z.pc = "close", in[c], out[c])
  BY <1>1, <1>2 DEF ClientAt
<1>5. Begins(w.words, ws) /\ (w.words = <<>> \/ cl.pc = "gone")
  <2>1. SoFar(w.words, ws) /\ Len(w.words) \in Nat
    BY <1>1, ReadWords
  <2>2. Begins(w.words, ws)
    BY <2>1 DEF SoFar, Begins
  <2>3. CASE w.step \in {"star", "count", "countLF"}
    <3>1. Len(w.words) = 0
      BY <1>1, <2>3 DEF Reading, HasRead
    <3> QED BY <2>1, <2>2, <3>1, EmptySeq DEF SoFar
  <2>4. CASE w.step \notin {"star", "count", "countLF"}
    BY <1>1, <2>2, <2>4 DEF RecvFails
  <2> QED BY <2>3, <2>4
<1>6. WorkAt(z, cl, in[c])
  BY <1>1, <1>2, <1>5 DEF WorkAt
<1> QED BY <1>1, <1>3, <1>4, <1>6, WorkActs DEF RecvFails

\* Past the reading of a command, while its connection is not yet closed.
LEMMA AtWork ==
  ASSUME ServiceInv, w.pc \notin {"accept", "recv", "close"}
  PROVE  \E c \in Client, cl \in ClientType :
           /\ c = w.peer /\ cl = client[c] /\ cl.command \in Command /\ WorkAt(w, cl, in[c])
           /\ ClientAt(cl, TRUE, FALSE, FALSE, in[c], out[c])
           /\ in[c] \in Seq(Nat) /\ out[c] \in Seq(Nat)
           /\ in = [in EXCEPT ![c] = in[c]] /\ out = [out EXCEPT ![c] = out[c]]
<1>1. PICK c \in Client : c = w.peer
  BY ServiceNow
<1>2. PICK cl \in ClientType : cl = client[c]
  BY ServiceNow, ServiceTypes
<1>3. ClientAt(cl, TRUE, FALSE, FALSE, in[c], out[c])
  <2>1. There(c) /\ ~Queued(c) /\ ~Closing(c)
    BY <1>1, ServiceNow DEF There, Closing
  <2> QED BY <1>1, <1>2, <2>1, ServiceNow DEF ClientAt
<1>4. cl.command \in Command
  BY <1>3 DEF ClientAt
<1>5. WorkAt(w, cl, in[c])
  BY <1>1, <1>2, ServiceNow
<1>6. in \in [Client -> Seq(Nat)] /\ out \in [Client -> Seq(Nat)]
  BY ServiceNow, ServiceTypes
<1>7. in = [in EXCEPT ![c] = in[c]] /\ out = [out EXCEPT ![c] = out[c]]
  BY <1>6
<1> QED BY <1>1, <1>2, <1>3, <1>4, <1>5, <1>6, <1>7

LEMMA ResultStep ==
  ASSUME ServiceInv, SendResult
  PROVE  ServiceInv'
<1>1. PICK c \in Client, cl \in ClientType :
           /\ c = w.peer /\ cl = client[c] /\ cl.command \in Command /\ WorkAt(w, cl, in[c])
           /\ ClientAt(cl, TRUE, FALSE, FALSE, in[c], out[c])
           /\ in[c] \in Seq(Nat) /\ out[c] \in Seq(Nat)
           /\ in = [in EXCEPT ![c] = in[c]] /\ out = [out EXCEPT ![c] = out[c]]
  BY AtWork DEF SendResult
<1>2. PICK z \in WorkType : z = [Idle EXCEPT !.pc = "close", !.peer = c] /\ z.pc = "close" /\ z.peer = c
  <2>1. PICK z : z = [Idle EXCEPT !.pc = "close", !.peer = c]
    OBVIOUS
  <2>2. z \in WorkType /\ z.pc = "close" /\ z.peer = c
    BY <2>1, IdleType DEF WorkType
  <2> QED BY <2>1, <2>2
<1>3. UNCHANGED <<client, queue, listening, in>> /\ w' = z /\ w.pc = "answer"
  BY <1>1, <1>2 DEF SendResult
<1>4. PICK o : o = IF cl.pc = "gone" THEN out[c] ELSE w.answer \o <<NUL>>
  OBVIOUS
<1>5. o \in Seq(Nat)
  <2>1. w.answer \in Seq(Nat)
    BY ServiceNow, ServiceTypes DEF WorkType, Bytes
  <2>2. <<NUL>> \in Seq(Nat)
    BY DEF NUL
  <2> QED BY <1>1, <1>4, <2>1, <2>2
<1>6. out' = [out EXCEPT ![c] = o]
  BY <1>1, <1>4 DEF SendResult
<1>7. WorkDoes(z, in[c], o)
  BY <1>1, <1>2, <1>3, <1>5, <1>6 DEF WorkDoes
<1>8. ClientAt(cl, TRUE, FALSE, z.pc = "close", in[c], o)
  <2>1. CASE cl.pc = "gone"
    BY <1>1, <1>2, <1>4, <2>1 DEF ClientAt
  <2>2. CASE cl.pc # "gone"
    <3>1. PICK r \in Outcome(cl.command) : w.answer = replyBytes(r)
      BY <1>1, <1>3, <2>2 DEF WorkAt
    <3>2. Begins(o, replyBytes(r) \o <<NUL>>)
      BY <1>4, <1>5, <2>2, <3>1, BeginsAll
    <3>3. cl.pc \in {"send", "recv"}
      BY <1>1, <2>2 DEF ClientAt, ClientType
    <3> QED BY <1>1, <1>2, <3>2, <3>3 DEF ClientAt
  <2> QED BY <2>1, <2>2
<1>9. WorkAt(z, cl, in[c])
  BY <1>2 DEF WorkAt
<1> QED BY <1>1, <1>3, <1>7, <1>8, <1>9, WorkActs

LEMMA CloseStep ==
  ASSUME ServiceInv, Close
  PROVE  ServiceInv'
<1>1. PICK c \in Client : c = w.peer
  BY ServiceNow DEF Close
<1>2. /\ client \in [Client -> ClientType] /\ out \in [Client -> Seq(Nat)] /\ w.pc = "close"
      /\ client' = client /\ in' = [d \in Client |-> <<>>] /\ queue' = <<>>
      /\ listening' = FALSE
      /\ w' = Idle
  BY ServiceNow, ServiceTypes DEF Close, cutOff
<1>3. PICK b : out' = [out EXCEPT ![c] = b] /\ (b \in torn(out[c]) \/ b = out[c])
  BY <1>1 DEF Close
<1>4. b \in Seq(Nat) /\ Begins(b, out[c]) /\ out[c] \in Seq(Nat)
  BY <1>2, <1>3, Torn, BeginsAll
<1>5. ServiceTypeOK'
  <2>1. queue' \in Seq(Client) /\ IsInjective(queue')
    BY <1>2 DEF IsInjective
  <2>2. out' \in [Client -> Seq(Nat)] /\ in' \in [Client -> Seq(Nat)]
    BY <1>2, <1>3, <1>4
  <2> QED BY <1>2, <2>1, <2>2, IdleType, ServiceNow DEF ServiceTypeOK, WorkType, Bytes
<1>6. ASSUME NEW d \in Client
      PROVE  ~There(d)' /\ ~Queued(d)' /\ in'[d] = <<>>
  BY <1>2, IdleType, NoClientAssumption DEF There, Queued, ToSet
<1>7. ASSUME NEW d \in Client
      PROVE  ClientInv(d)'
  <2>1. ClientAt(client[d], There(d), Queued(d), Closing(d), in[d], out[d]) /\ out[d] \in Seq(Nat)
    BY <1>2, ServiceNow
  <2>2. PICK o \in Seq(Nat) : o = out'[d] /\ Begins(o, out[d])
    BY <1>2, <1>3, <1>4, BeginsAll
  <2>3. o # <<>> => out[d] # <<>>
    BY <2>2, BeginsNothing
  <2>4. out[d] # <<>> => /\ client[d].pc \in {"send", "recv"} /\ client[d].command \in Command
                         /\ \E r \in Outcome(client[d].command) :
                              Begins(out[d], replyBytes(r) \o <<NUL>>)
    BY <2>1 DEF ClientAt
  <2>5. o # <<>> => \E r \in Outcome(client[d].command) : Begins(o, replyBytes(r) \o <<NUL>>)
    BY <2>1, <2>2, <2>3, <2>4, AnswerTorn
  <2>6. ClientAt(client[d], There(d)', Queued(d)', Closing(d)', in'[d], o)
    BY <1>6, <2>1, <2>3, <2>4, <2>5 DEF ClientAt
  <2> QED BY <1>2, <2>2, <2>6, ClientThere
<1>8. WorkInv'
  <2>1. ~Queued(w.peer)'
    BY <1>2 DEF Queued, ToSet
  <2> QED BY <1>2, <2>1, IdleType, WorkThere, WorkAccepts
<1> QED BY <1>5, <1>7, <1>8, ServiceAgain

-----------------------------------------------------------------------------
(***************************************************************************)
(* What Working does with a command changes only where the work thread is. *)
(***************************************************************************)
LEMMA MoveStep ==
  ASSUME ServiceInv, w.pc \notin {"accept", "recv", "close"},
         NEW pc \in {"lock", "request", "vote", "commit"},
         w' = [w EXCEPT !.pc = pc], w.words # <<>>,
         UNCHANGED <<client, queue, listening, in, out>>
  PROVE  ServiceInv'
<1>1. PICK c \in Client, cl \in ClientType :
           /\ c = w.peer /\ cl = client[c] /\ cl.command \in Command /\ WorkAt(w, cl, in[c])
           /\ ClientAt(cl, TRUE, FALSE, FALSE, in[c], out[c])
           /\ in[c] \in Seq(Nat) /\ out[c] \in Seq(Nat)
           /\ in = [in EXCEPT ![c] = in[c]] /\ out = [out EXCEPT ![c] = out[c]]
  BY AtWork
<1>2. PICK x \in WorkType : x = w
  BY ServiceNow, ServiceTypes
<1>3. PICK z : z = [x EXCEPT !.pc = pc]
  OBVIOUS
<1>4. z \in WorkType /\ z.pc = pc /\ z.peer = c /\ z.words = w.words
  BY <1>1, <1>2, <1>3 DEF WorkType
<1>5. WorkDoes(z, in[c], out[c])
  BY <1>1, <1>2, <1>3, <1>4 DEF WorkDoes
<1>6. ClientAt(cl, TRUE, FALSE, z.pc = "close", in[c], out[c])
  BY <1>1, <1>4 DEF ClientAt
<1>7. WorkAt(z, cl, in[c])
  BY <1>1, <1>4 DEF WorkAt
<1> QED BY <1>1, <1>5, <1>6, <1>7, WorkActs

LEMMA AnswerStep ==
  ASSUME ServiceInv, w.pc \notin {"accept", "recv", "close"}, NEW bytes \in Seq(Nat),
         w' = answered(bytes),
         client[w.peer].pc # "gone" =>
           \E r \in Outcome(client[w.peer].command) : bytes = replyBytes(r),
         UNCHANGED <<client, queue, listening, in, out>>
  PROVE  ServiceInv'
<1>1. PICK c \in Client, cl \in ClientType :
           /\ c = w.peer /\ cl = client[c] /\ cl.command \in Command /\ WorkAt(w, cl, in[c])
           /\ ClientAt(cl, TRUE, FALSE, FALSE, in[c], out[c])
           /\ in[c] \in Seq(Nat) /\ out[c] \in Seq(Nat)
           /\ in = [in EXCEPT ![c] = in[c]] /\ out = [out EXCEPT ![c] = out[c]]
  BY AtWork
<1>2. PICK x \in WorkType : x = w
  BY ServiceNow, ServiceTypes
<1>3. PICK z : z = [x EXCEPT !.pc = "answer", !.answer = bytes]
  OBVIOUS
<1>4. /\ z \in WorkType /\ z.pc = "answer" /\ z.peer = c /\ z.words = w.words
      /\ z.answer = bytes
  BY <1>1, <1>2, <1>3 DEF WorkType, Bytes
<1>5. WorkDoes(z, in[c], out[c])
  BY <1>1, <1>2, <1>3, <1>4 DEF WorkDoes, answered
<1>6. ClientAt(cl, TRUE, FALSE, z.pc = "close", in[c], out[c])
  BY <1>1, <1>4 DEF ClientAt
<1>7. WorkAt(z, cl, in[c])
  BY <1>1, <1>4 DEF WorkAt
<1> QED BY <1>1, <1>5, <1>6, <1>7, WorkActs

\* The words that Working goes by are those of the client's command, or a part of
\* them when the client is gone.
LEMMA CommandOfWords ==
  ASSUME ServiceInv, w.pc \notin {"accept", "recv", "close"}
  PROVE  /\ words \in PartialCommand
         /\ words = <<>> <=> w.words = <<>>
         /\ client[w.peer].command \in Command
         /\ client[w.peer].pc # "gone" /\ w.words # <<>> => words = client[w.peer].command
<1>1. PICK cl : cl = client[w.peer] /\ cl.command \in Command /\ WorkAt(w, cl, in[w.peer])
  BY AtWork
<1>2. PICK c \in Seq(Word), n \in Nat : c = cl.command /\ c \in Command /\ n = Len(c)
  BY <1>1, CommandWords
<1>3. PICK ws \in Seq(Bytes) : /\ ws = spelled(c) /\ Len(ws) = n /\ wordsOf(ws) = c
                               /\ \A i \in 1 .. n : ws[i] = spell(c[i])
  BY <1>2, TextOfCommand, WordsBack
<1>4. PICK v \in Seq(Bytes), k \in Nat : v = w.words /\ k = Len(v)
  BY ServiceNow, ServiceTypes DEF WorkType
<1>5. Begins(v, ws) /\ (v \in {<<>>, ws} \/ cl.pc = "gone")
  BY <1>1, <1>2, <1>3, <1>4 DEF WorkAt
<1>6. k <= n /\ k \in 0 .. n /\ \A i \in 1 .. k : v[i] = ws[i] /\ i \in 1 .. n
  BY <1>3, <1>4, <1>5 DEF Begins
<1>7. PICK b \in Seq(Word) : /\ b = SubSeq(c, 1, k) /\ Len(b) = k
                             /\ \A i \in 1 .. k : b[i] = c[i]
  <2>1. /\ SubSeq(c, 1, k) \in Seq(Word) /\ Len(SubSeq(c, 1, k)) = k
        /\ \A i \in 1 .. k : SubSeq(c, 1, k)[i] = c[i]
    BY <1>2, <1>6
  <2> QED BY <2>1
<1>8. v = spelled(b)
  <2>1. /\ spelled(b) \in Seq(Bytes) /\ Len(spelled(b)) = k
        /\ \A i \in 1 .. k : spelled(b)[i] = spell(b[i])
    BY <1>7, WordsBack DEF Bytes
  <2>2. \A i \in 1 .. k : v[i] = spelled(b)[i]
    BY <1>3, <1>6, <1>7, <2>1
  <2>3. PICK u \in Seq(Bytes) : u = spelled(b) /\ Len(u) = k /\ \A i \in 1 .. k : v[i] = u[i]
    BY <2>1, <2>2
  <2>4. v = u
    BY <1>4, <2>3, SeqEqual
  <2> QED BY <2>3, <2>4
<1>9. words = b
  BY <1>4, <1>7, <1>8, WordsBack DEF words
<1>10. b \in PartialCommand
  <2>1. b \in Beginnings(c)
    BY <1>2, <1>6, <1>7 DEF Beginnings
  <2> QED BY <1>2, <2>1 DEF PartialCommand
<1>11. b = <<>> <=> v = <<>>
  BY <1>4, <1>7, EmptySeq
<1>12. v = ws => b = c
  BY <1>3, <1>4, <1>9 DEF words
<1> QED BY <1>1, <1>2, <1>4, <1>5, <1>9, <1>10, <1>11, <1>12

-----------------------------------------------------------------------------
(***************************************************************************)
(* What a transfer on p's connection does to the call of sendAndRecv.      *)
(***************************************************************************)
Transfers(p) ==
    /\ cx'[p].pc # "idle" => cx[p].pc # "idle"
    /\ reading(cx'[p]) => reading(cx[p])
    /\ cx'[p].pc = "done" => reading(cx[p]) \/ cx'[p] = cx[p]
    /\ req'[p] \in {req[p], None}
    /\ \/ resp'[p] \in {resp[p], None}
       \/ req[p] \in WireTask /\ kv[p] \in Database /\ resp'[p] = workerReply(p, req[p])

\* What is received only moves a call on that was reading.
LEMMA Receives ==
  ASSUME FramingInv, NEW p \in PId,
         RecvHeader(p) \/ RecvContent(p) \/ RecvTimeout(p) \/ RecvClosed(p)
  PROVE  Transfers(p)
<1>1. /\ OfParticipants(cx) /\ OfParticipants(resp) /\ OfParticipants(req)
      /\ cx[p] \in CallType
  BY Here DEF ConnectionsInv
<1>2. reading(cx[p]) /\ cx[p].pc # "idle"
  BY DEF RecvHeader, RecvContent, RecvTimeout, RecvClosed, reading
<1>3. req' = req
  BY DEF RecvHeader, RecvContent, RecvTimeout, RecvClosed, participantVars
<1>4. resp'[p] \in {resp[p], None}
  <2>1. resp' = resp \/ resp' = [resp EXCEPT ![p] = None]
    BY DEF RecvHeader, RecvContent, RecvTimeout, RecvClosed, participantVars
  <2> QED BY <1>1, <2>1 DEF OfParticipants
<1> QED BY <1>2, <1>3, <1>4 DEF Transfers

\* The participant's end leaves the call alone.
LEMMA Participates ==
  ASSUME FramingInv, NEW p \in PId, participantEnd(p) \/ PKilled(p) \/ PStarted(p)
  PROVE  Transfers(p)
<1>1. /\ OfParticipants(resp) /\ OfParticipants(req) /\ OfParticipants(px) /\ Stored(p)
      /\ ParticipantEnd(link[p], down[p], px[p], req[p])
  BY Here DEF ConnectionsInv
<1>2. cx' = cx
  BY DEF participantEnd, PRecvHeader, PRecvContent, PWork, PAcceptAgain, PKilled, PStarted
<1>3. req'[p] \in {req[p], None}
  <2>1. req' = req \/ req' = [req EXCEPT ![p] = None]
    BY DEF participantEnd, PRecvHeader, PRecvContent, PWork, PAcceptAgain, PKilled, PStarted,
           PCrash, PRestart, participantVars
  <2> QED BY <1>1, <2>1 DEF OfParticipants
<1>4. CASE PWork(p)
  <2>1. req[p] \in WireTask /\ strToLog(px[p].content) = req[p]
    BY <1>1, <1>4, Executable DEF PWork
  <2>2. resp' = [resp EXCEPT ![p] = workerReply(p, req[p])] \/ resp' = resp
    BY <1>4, <2>1 DEF PWork
  <2>3. resp'[p] = workerReply(p, req[p]) \/ resp'[p] = resp[p]
    BY <1>1, <2>2 DEF OfParticipants
  <2> QED BY <1>1, <1>2, <1>3, <2>1, <2>3 DEF Transfers, Stored
<1>5. CASE ~PWork(p)
  <2>1. resp' = resp
    BY <1>5 DEF participantEnd, PRecvHeader, PRecvContent, PAcceptAgain, PKilled, PStarted,
                PCrash, PRestart, participantVars
  <2> QED BY <1>2, <1>3, <2>1 DEF Transfers
<1> QED BY <1>4, <1>5

\* What sendAndRecv does when it begins.
Calls(p, task) ==
    /\ ~reading(cx[p]) /\ resp'[p] = None
    /\ cx'[p].pc \in {"header", "done"} /\ (cx'[p].pc = "done" => cx'[p].rc # "OK")
    /\ req'[p] \in {task, None} \/ cx'[p].pc = "done"

LEMMA CallsStep ==
  ASSUME FramingInv, NEW p \in PId, NEW task, Call(p, task)
  PROVE  Calls(p, task)
<1>1. /\ OfParticipants(cx) /\ OfParticipants(resp) /\ OfParticipants(req) /\ link[p] \in LinkState
      /\ CoordinatorEnd(link[p], up[p], cx[p], req[p], resp[p]) /\ cx[p] \in CallType
      /\ (link[p] \in {"down", "listen"} => req[p] = None)
  BY Here DEF ConnectionsInv
<1>2. cx[p].open /\ cx[p].pc = "idle" /\ resp' = resp
  BY DEF Call
<1>3. resp[p] = None /\ link[p] # "half" /\ ~reading(cx[p])
  BY <1>1, <1>2 DEF CoordinatorEnd, quiet, reading
<1>4. CASE link[p] = "up"
  <2>1. cx' = [cx EXCEPT ![p] = Calling] /\ req' = [req EXCEPT ![p] = task]
    BY <1>4 DEF Call, Calling
  <2>2. cx'[p] = Calling /\ req'[p] = task
    BY <1>1, <2>1 DEF OfParticipants
  <2>3. Calling.pc = "header"
    BY DEF Calling, NoCall
  <2> QED BY <1>2, <1>3, <2>2, <2>3 DEF Calls
<1>5. CASE link[p] # "up"
  <2>1. req' = req /\ req[p] = None
    BY <1>1, <1>3, <1>5 DEF Call, LinkState
  <2>2. \/ cx' = [cx EXCEPT ![p] = Calling]
        \/ cx' = [cx EXCEPT ![p] = [@ EXCEPT !.pc = "done", !.rc = "NETWORK"]]
    BY <1>5 DEF Call, Calling
  <2>3. cx'[p].pc = "header" \/ (cx'[p].pc = "done" /\ cx'[p].rc = "NETWORK")
    <3>1. Calling.pc = "header"
      BY DEF Calling, NoCall
    <3>2. \/ cx'[p] = Calling
          \/ cx'[p] = [cx[p] EXCEPT !.pc = "done", !.rc = "NETWORK"]
      BY <1>1, <2>2 DEF OfParticipants
    <3> QED BY <1>1, <3>1, <3>2 DEF CallType
  <2> QED BY <1>2, <1>3, <2>1, <2>3 DEF Calls
<1> QED BY <1>4, <1>5

\* What sendAndRecv and reconnect leave is idle.
LEMMA IdleAfter ==
  ASSUME FramingInv, NEW p \in PId, Return(p) \/ Reconnect(p)
  PROVE  cx'[p].pc = "idle"
<1>1. OfParticipants(cx)
  BY Here DEF ConnectionsInv
<1>2. NoCall.pc = "idle" /\ Waiting.pc = "idle"
  BY DEF NoCall, Waiting
<1>3. cx' = [cx EXCEPT ![p] = NoCall] \/ cx' = [cx EXCEPT ![p] = Waiting]
  BY DEF Return, Reconnect, Waiting
<1>4. cx'[p] = NoCall \/ cx'[p] = Waiting
  BY <1>1, <1>3 DEF OfParticipants
<1> QED BY <1>2, <1>4

-----------------------------------------------------------------------------
(***************************************************************************)
(* The tasks and results that the work thread and p's thread hand over.    *)
(***************************************************************************)
LEMMA SlotNow ==
  ASSUME ControlInv, NEW p \in PId
  PROVE  /\ SlotInv(p) /\ ptask[p] \in WireTask \cup {None}
         /\ (pret[p] # None => ptask[p] = None)
         /\ (mutex # "work" => ptask[p] = None /\ pret[p] = None)
         /\ (w.pc = "request" /\ p # turn => ptask[p] = None)
         /\ (cx[p].pc # "idle" =>
               mutex = "recovery" \/ (ptask[p] # None /\ pstate[p] = "WORKING"))
         /\ (inRequest /\ pret[p] # None => (pret[p].rc = "OK" => Answers(pret[p].rmsg)))
BY DEF ControlInv, SlotInv

LEMMA ControlNow ==
  ASSUME ControlInv
  PROVE  /\ pstate \in [PId -> PState] /\ DOMAIN ptask = PId /\ DOMAIN pret = PId
         /\ cstate \in {"C_RECOVERY", "C_WORKING"} /\ turn \in PId
         /\ mutex \in {"free", "work", "recovery"}
         /\ (mutex = "work" <=> w.pc \in {"request", "vote", "commit"})
BY DEF ControlInv

\* The words stay the same when w.words does.
LEMMA WordsKept ==
  ASSUME w'.words = w.words
  PROVE  words' = words /\ read' = read /\ \A bytes : Answers(bytes)' <=> Answers(bytes)
BY DEF words, read, Answers

\* The work thread is neither before nor after in the middle of a transaction.
LEMMA ControlQuiet ==
  ASSUME ControlInv, UNCHANGED <<framingVars, coordinatorVars>>,
         w.pc \notin {"request", "vote", "commit"}, w'.pc \notin {"request", "vote", "commit"}
  PROVE  ControlInv'
<1>1. ASSUME NEW p \in PId
      PROVE  SlotInv(p)'
  BY SlotNow DEF SlotInv, inRequest, framingVars, participantVars, coordinatorVars
<1>2. QED
  BY <1>1 DEF ControlInv, coordinatorVars

LEMMA ControlStill ==
  ASSUME ControlInv, UNCHANGED <<framingVars, coordinatorVars>>, w' = w
  PROVE  ControlInv'
<1>1. words' = words /\ read' = read /\ \A bytes : Answers(bytes)' <=> Answers(bytes)
  BY WordsKept
<1>2. ASSUME NEW p \in PId
      PROVE  SlotInv(p)'
  <2>1. SlotInv(p)
    BY SlotNow
  <2>2. /\ ptask' = ptask /\ pret' = pret /\ pstate' = pstate /\ turn' = turn /\ mutex' = mutex
        /\ cx' = cx /\ req' = req /\ resp' = resp
    BY DEF framingVars, participantVars, coordinatorVars
  <2> QED BY <1>1, <2>1, <2>2 DEF SlotInv, inRequest
<1>3. QED
  BY <1>2 DEF ControlInv, coordinatorVars

\* A slot while nothing goes on between p's thread and the participant.
IdleSlot(p) ==
    /\ cx[p].pc = "idle" /\ ptask[p] \in WireTask \cup {None}
    /\ pret[p] # None => ptask[p] = None
    /\ mutex # "work" => ptask[p] = None /\ pret[p] = None
    /\ w.pc = "request" /\ p # turn => ptask[p] = None
    /\ w.pc = "request" /\ ptask[p] # None => ptask[p] = read
    /\ w.pc = "commit" /\ ptask[p] # None => \E tid \in Txid : ptask[p] = Log(tid, "COMMIT", words)
    /\ inRequest /\ pret[p] # None => (pret[p].rc = "OK" => Answers(pret[p].rmsg))

LEMMA IdleThere ==
  ASSUME NEW p \in PId, IdleSlot(p)'
  PROVE  SlotInv(p)'
BY DEF SlotInv, IdleSlot, reading

\* Nobody works on a task while the mutex is free, or when all results are there.
LEMMA NobodyWorks ==
  ASSUME ControlInv, NEW p \in PId, mutex # "recovery", mutex = "free" \/ ptask[p] = None
  PROVE  cx[p].pc = "idle" /\ ptask[p] = None
BY SlotNow

\* The tasks of Working.
LEMMA WorkingTasks ==
  ASSUME words \in PartialCommand
  PROVE  /\ read \in WireTask
         /\ \A tid \in Txid : /\ Log(tid, "PRE", <<>>) \in WireTask
                              /\ Log(tid, "COMMIT", words) \in WireTask
BY DEF read, WireTask, Update

\* What Working gives a client is a reply to its command.
LEMMA GoodAnswer ==
  ASSUME ServiceInv, w.pc \notin {"accept", "recv", "close"}, NEW bytes,
         bytes = errorAnswer \/ (w.words # <<>> /\ Answers(bytes))
  PROVE  /\ bytes \in Seq(Nat)
         /\ client[w.peer].pc # "gone" =>
              \E r \in Outcome(client[w.peer].command) : bytes = replyBytes(r)
<1>1. /\ words \in PartialCommand
      /\ client[w.peer].pc # "gone" /\ w.words # <<>> => words = client[w.peer].command
  BY CommandOfWords
<1>2. CASE bytes = errorAnswer
  <2>1. ErrorReply \in Outcome(words) /\ ErrorReply \in Outcome(client[w.peer].command)
    BY DEF Outcome
  <2>2. ErrorReply \in WireReply
    BY <1>1, <2>1 DEF WireReply
  <2>3. replyBytes(ErrorReply) \in Seq(Nat)
    BY <2>2, ReplyText
  <2> QED BY <1>2, <2>1, <2>3 DEF errorAnswer
<1>3. CASE w.words # <<>> /\ Answers(bytes)
  <2>1. PICK r \in Outcome(words) : bytes = replyBytes(r)
    BY <1>3 DEF Answers
  <2>2. r \in WireReply
    BY <1>1 DEF WireReply
  <2>3. replyBytes(r) \in Seq(Nat)
    BY <2>2, ReplyText
  <2> QED BY <1>1, <1>3, <2>1, <2>3
<1> QED BY <1>2, <1>3

-----------------------------------------------------------------------------
(***************************************************************************)
(* Working, once the command is read.                                      *)
(***************************************************************************)
LEMMA MoveFields ==
  ASSUME ServiceInv, NEW pc \in {"lock", "request", "vote", "commit"}, w' = [w EXCEPT !.pc = pc]
  PROVE  w'.pc = pc /\ w'.words = w.words
<1>1. w \in WorkType
  BY ServiceNow, ServiceTypes
<1> QED BY <1>1 DEF WorkType

LEMMA AnswerFields ==
  ASSUME ServiceInv, NEW bytes, w' = answered(bytes)
  PROVE  w'.pc = "answer" /\ w'.words = w.words
<1>1. w \in WorkType
  BY ServiceNow, ServiceTypes
<1> QED BY <1>1 DEF WorkType, answered

LEMMA HandedOver ==
  ASSUME NEW ps, NEW task, handOver(ps, task)
  PROVE  /\ DOMAIN ptask' = PId /\ DOMAIN pret' = PId
         /\ \A p \in PId : p \in ps => ptask'[p] = task /\ pret'[p] = None
         /\ \A p \in PId : p \notin ps => ptask'[p] = ptask[p] /\ pret'[p] = pret[p]
BY DEF handOver

LEMMA RejectStep ==
  ASSUME ServiceInv, ControlInv, Reject
  PROVE  ServiceInv' /\ ControlInv'
<1>1. /\ w.pc = "dispatch" /\ w' = answered(errorAnswer)
      /\ UNCHANGED <<client, queue, listening, in, out, framingVars, coordinatorVars>>
  BY DEF Reject
<1>2. ServiceInv'
  BY <1>1, GoodAnswer, AnswerStep
<1>3. ControlInv'
  BY <1>1, AnswerFields, ControlQuiet
<1> QED BY <1>2, <1>3

LEMMA AdmitStep ==
  ASSUME ServiceInv, ControlInv, Admit
  PROVE  ServiceInv' /\ ControlInv'
<1>1. /\ w.pc = "dispatch" /\ w' = [w EXCEPT !.pc = "lock"] /\ words # <<>>
      /\ UNCHANGED <<client, queue, listening, in, out, framingVars, coordinatorVars>>
  BY DEF Admit
<1>2. w.words # <<>>
  BY <1>1, CommandOfWords
<1>3. ServiceInv'
  BY <1>1, <1>2, MoveStep
<1>4. ControlInv'
  BY <1>1, MoveFields, ControlQuiet
<1> QED BY <1>3, <1>4

LEMMA RefuseStep ==
  ASSUME ServiceInv, ControlInv, Refuse
  PROVE  ServiceInv' /\ ControlInv'
<1>1. /\ w.pc = "lock" /\ w' = answered(errorAnswer)
      /\ UNCHANGED <<client, queue, listening, in, out, framingVars, coordinatorVars>>
  BY DEF Refuse
<1>2. ServiceInv'
  BY <1>1, GoodAnswer, AnswerStep
<1>3. ControlInv'
  BY <1>1, AnswerFields, ControlQuiet
<1> QED BY <1>2, <1>3

\* There are words while a command is executed.
LEMMA WordsThere ==
  ASSUME ServiceInv, w.pc \in {"lock", "request", "vote", "commit"}
  PROVE  w.words # <<>> /\ words \in PartialCommand
BY ServiceNow, CommandOfWords DEF WorkAt

LEMMA RequestStep ==
  ASSUME ServiceInv, ControlInv, Request
  PROVE  ServiceInv' /\ ControlInv'
<1>1. /\ w.pc = "lock" /\ mutex = "free" /\ mutex' = "work" /\ w' = [w EXCEPT !.pc = "request"]
      /\ turn' = 1 /\ handOver({1}, read)
      /\ UNCHANGED <<client, queue, listening, in, out, framingVars, pstate, cstate>>
  BY DEF Request
<1>2. w.words # <<>> /\ words \in PartialCommand /\ read \in WireTask
  BY <1>1, WordsThere, WorkingTasks
<1>3. ServiceInv'
  BY <1>1, <1>2, MoveStep
<1>4. w'.pc = "request" /\ words' = words /\ read' = read
  BY <1>1, MoveFields, WordsKept
<1>5. 1 \in PId
  BY PNumAssumption DEF PId
<1>6. ASSUME NEW p \in PId
      PROVE  SlotInv(p)'
  <2>1. cx'[p].pc = "idle" /\ ptask[p] = None /\ pret[p] = None
    BY <1>1, NobodyWorks, SlotNow DEF framingVars
  <2>2. IdleSlot(p)'
    <3>1. CASE p = 1
      BY <1>1, <1>2, <1>4, <2>1, <3>1, HandedOver DEF IdleSlot
    <3>2. CASE p # 1
      BY <1>1, <1>2, <1>4, <2>1, <3>2, HandedOver DEF IdleSlot
    <3> QED BY <3>1, <3>2
  <2> QED BY <2>2, IdleThere
<1>7. ControlInv'
  BY <1>1, <1>4, <1>5, <1>6, HandedOver, ControlNow DEF ControlInv
<1> QED BY <1>3, <1>7

\* The mutex is released and the client answered.
LEMMA RespondStep ==
  ASSUME ServiceInv, ControlInv, w.pc \in {"request", "vote", "commit"},
         \A p \in PId : ptask[p] = None,
         NEW bytes, bytes = errorAnswer \/ Answers(bytes), respond(bytes), turn' \in PId,
         UNCHANGED <<client, queue, listening, in, out, framingVars, pstate, cstate>>
  PROVE  ServiceInv' /\ ControlInv'
<1>1. /\ w' = answered(bytes) /\ mutex' = "free" /\ pret' = [p \in PId |-> None]
      /\ ptask' = ptask /\ mutex = "work"
  BY ControlNow DEF respond
<1>2. w.words # <<>>
  BY WordsThere
<1>3. ServiceInv'
  BY <1>1, <1>2, GoodAnswer, AnswerStep
<1>4. w'.pc = "answer"
  BY <1>1, AnswerFields
<1>5. ASSUME NEW p \in PId
      PROVE  SlotInv(p)'
  <2>1. cx'[p].pc = "idle" /\ ptask[p] = None
    BY <1>1, NobodyWorks DEF framingVars
  <2>2. IdleSlot(p)'
    BY <1>1, <1>4, <2>1 DEF IdleSlot, inRequest
  <2> QED BY <2>2, IdleThere
<1>6. ControlInv'
  BY <1>1, <1>4, <1>5, ControlNow DEF ControlInv
<1> QED BY <1>3, <1>6

LEMMA RequestResultStep ==
  ASSUME ServiceInv, ControlInv, RequestResult
  PROVE  ServiceInv' /\ ControlInv'
<1>1. /\ w.pc = "request" /\ pret[turn] # None /\ turn \in PId /\ mutex = "work"
      /\ UNCHANGED <<client, queue, listening, in, out, framingVars, pstate, cstate>>
  BY ControlNow DEF RequestResult
<1>2. \A p \in PId : ptask[p] = None
  BY <1>1, SlotNow
<1>3. 1 \in PId
  BY PNumAssumption DEF PId
<1>4. CASE isAnswer(pret[turn]) /\ respond(pret[turn].rmsg) /\ turn' = 1
  <2>1. Answers(pret[turn].rmsg)
    BY <1>1, <1>4, SlotNow DEF isAnswer, inRequest
  <2> QED BY <1>1, <1>2, <1>3, <1>4, <2>1, RespondStep
<1>5. CASE respond(errorAnswer) /\ turn' = 1
  BY <1>1, <1>2, <1>3, <1>5, RespondStep
<1>6. CASE turn # PNum /\ turn' = turn + 1 /\ handOver({turn + 1}, read) /\ UNCHANGED <<w, mutex>>
  <2>1. ServiceInv'
    BY <1>1, <1>6 DEF ServiceInv, ServiceTypeOK, ClientInv, WorkInv, connectedClients
  <2>2. PICK t \in PId : t = turn + 1
    BY <1>1, <1>6, PNumAssumption DEF PId
  <2>3. w'.pc = "request" /\ words' = words /\ read' = read /\ mutex' = "work" /\ turn' = t
        /\ \A bytes : Answers(bytes)' <=> Answers(bytes)
    BY <1>1, <1>6, <2>2, WordsKept
  <2>4. read \in WireTask /\ handOver({t}, read)
    BY <1>1, <1>6, <2>2, WordsThere, WorkingTasks
  <2>5. ASSUME NEW p \in PId
        PROVE  SlotInv(p)'
    <3>1. cx'[p].pc = "idle" /\ ptask[p] = None
      BY <1>1, <1>2, NobodyWorks DEF framingVars
    <3>2. IdleSlot(p)'
      <4>1. CASE p = t
        BY <2>3, <2>4, <3>1, <4>1, HandedOver DEF IdleSlot
      <4>2. CASE p # t
        <5>1. ptask'[p] = None /\ pret'[p] = pret[p]
          BY <2>4, <3>1, <4>2, HandedOver
        <5>2. pret[p] # None => (pret[p].rc = "OK" => Answers(pret[p].rmsg))
          BY <1>1, SlotNow DEF inRequest
        <5> QED BY <2>3, <3>1, <5>1, <5>2 DEF IdleSlot
      <4> QED BY <4>1, <4>2
    <3> QED BY <3>2, IdleThere
  <2>6. ControlInv'
    BY <1>1, <2>3, <2>4, <2>5, HandedOver, ControlNow DEF ControlInv
  <2> QED BY <2>1, <2>6
<1>7. QED
  BY <1>4, <1>5, <1>6 DEF RequestResult

\* A set of participants that is not empty has a last one.
LEMMA LastOne ==
  ASSUME NEW ps \in SUBSET (1 .. PNum), ps # {}
  PROVE  \E p \in ps : \A q \in ps : q <= p
<1> DEFINE T == {PNum - p : p \in ps}
<1>1. T \in SUBSET Nat /\ T # {}
  <2>1. \A p \in ps : PNum - p \in Nat
    BY PNumAssumption
  <2> QED BY <2>1
<1>2. PICK n \in T : \A m \in T : n <= m
  BY <1>1, LeastNumber
<1>3. PICK p \in ps : n = PNum - p
  OBVIOUS
<1>4. ASSUME NEW q \in ps
      PROVE  q <= p
  <2>1. PNum - q \in T /\ p \in Int /\ q \in Int
    OBVIOUS
  <2>2. n <= PNum - q
    BY <1>2, <2>1
  <2> QED BY <1>3, <2>1, <2>2, PNumAssumption
<1> QED BY <1>4

LEMMA UpdateStep ==
  ASSUME ServiceInv, ControlInv, UpdateDB
  PROVE  ServiceInv' /\ ControlInv'
<1>1. /\ w.pc = "lock" /\ mutex = "free" /\ mutex' = "work" /\ w' = [w EXCEPT !.pc = "vote"]
      /\ UNCHANGED <<client, queue, listening, in, out, framingVars, pstate, cstate, turn>>
  BY DEF UpdateDB
<1>2. PICK tid \in Txid : handOver(PId, Log(tid, "PRE", <<>>))
  BY DEF UpdateDB
<1>3. w.words # <<>> /\ Log(tid, "PRE", <<>>) \in WireTask
  BY <1>1, WordsThere, WorkingTasks
<1>4. ServiceInv'
  BY <1>1, <1>3, MoveStep
<1>5. w'.pc = "vote"
  BY <1>1, MoveFields
<1>6. ASSUME NEW p \in PId
      PROVE  SlotInv(p)'
  <2>1. cx'[p].pc = "idle"
    BY <1>1, NobodyWorks DEF framingVars
  <2>2. IdleSlot(p)'
    BY <1>1, <1>2, <1>3, <1>5, <2>1, HandedOver DEF IdleSlot, inRequest
  <2> QED BY <2>2, IdleThere
<1>7. ControlInv'
  BY <1>1, <1>2, <1>5, <1>6, HandedOver, ControlNow DEF ControlInv
<1> QED BY <1>4, <1>7

LEMMA VoteStep ==
  ASSUME ServiceInv, ControlInv, Vote
  PROVE  ServiceInv' /\ ControlInv'
<1>1. /\ w.pc = "vote" /\ mutex = "work" /\ turn \in PId
      /\ UNCHANGED <<client, queue, listening, in, out, framingVars, pstate, cstate, turn>>
  BY ControlNow DEF Vote
<1>2. \A p \in PId : ptask[p] = None
  BY SlotNow DEF Vote, allIn
<1>3. CASE respond(errorAnswer)
  BY <1>1, <1>2, <1>3, RespondStep
<1>4. CASE /\ \E tid \in Txid : handOver(PId, Log(tid, "COMMIT", words))
           /\ w' = [w EXCEPT !.pc = "commit"] /\ UNCHANGED mutex
  <2>1. PICK tid \in Txid : handOver(PId, Log(tid, "COMMIT", words))
    BY <1>4
  <2>2. w.words # <<>> /\ Log(tid, "COMMIT", words) \in WireTask
    BY <1>1, WordsThere, WorkingTasks
  <2>3. ServiceInv'
    BY <1>1, <1>4, <2>2, MoveStep
  <2>4. w'.pc = "commit" /\ words' = words
    BY <1>4, MoveFields, WordsKept
  <2>5. ASSUME NEW p \in PId
        PROVE  SlotInv(p)'
    <3>1. cx'[p].pc = "idle"
      BY <1>1, <1>2, NobodyWorks DEF framingVars
    <3>2. ptask'[p] = Log(tid, "COMMIT", words) /\ pret'[p] = None /\ mutex' = "work"
      BY <1>1, <1>4, <2>1, HandedOver
    <3>3. IdleSlot(p)'
      BY <2>2, <2>4, <3>1, <3>2 DEF IdleSlot
    <3> QED BY <3>3, IdleThere
  <2>6. ControlInv'
    BY <1>1, <1>4, <2>1, <2>4, <2>5, HandedOver, ControlNow DEF ControlInv
  <2> QED BY <2>3, <2>6
<1>5. QED
  BY <1>3, <1>4 DEF Vote

LEMMA CommitStep ==
  ASSUME ServiceInv, ControlInv, Commit
  PROVE  ServiceInv' /\ ControlInv'
<1> DEFINE committed == {p \in PId : succeeded(p) /\ pret[p].rmsg # errorAnswer}
           last == CHOOSE p \in committed : \A q \in committed : q <= p
<1>1. /\ w.pc = "commit" /\ turn \in PId
      /\ respond(IF committed = {} THEN errorAnswer ELSE pret[last].rmsg)
      /\ UNCHANGED <<client, queue, listening, in, out, framingVars, pstate, cstate, turn>>
  BY ControlNow DEF Commit
<1>2. \A p \in PId : ptask[p] = None /\ pret[p] # None
  BY SlotNow DEF Commit, allIn
<1>3. committed # {} => last \in committed
  <2>1. committed \in SUBSET (1 .. PNum)
    BY DEF PId
  <2>2. committed # {} => \E p \in committed : \A q \in committed : q <= p
    BY <2>1, LastOne
  <2> QED BY <2>2
<1>4. committed # {} => Answers(pret[last].rmsg)
  BY <1>1, <1>2, <1>3, SlotNow DEF succeeded, inRequest
<1> HIDE DEF committed, last
<1>5. PICK bytes : bytes = IF committed = {} THEN errorAnswer ELSE pret[last].rmsg
  OBVIOUS
<1>6. respond(bytes) /\ (bytes = errorAnswer \/ Answers(bytes))
  BY <1>1, <1>4, <1>5
<1> QED BY <1>1, <1>2, <1>6, RespondStep

-----------------------------------------------------------------------------
(***************************************************************************)
(* pWorking, pRecovery, keepAlive and Recovery.                            *)
(***************************************************************************)
LEMMA ServiceStill ==
  ASSUME ServiceInv, UNCHANGED serviceVars
  PROVE  ServiceInv' /\ w' = w /\ words' = words /\ read' = read
         /\ \A bytes : Answers(bytes)' <=> Answers(bytes)
<1>1. /\ client' = client /\ queue' = queue /\ listening' = listening /\ in' = in /\ out' = out
      /\ w' = w
  BY DEF serviceVars
<1>2. ServiceInv'
  BY <1>1 DEF ServiceInv, ServiceTypeOK, ClientInv, WorkInv, connectedClients
<1> QED BY <1>1, <1>2, WordsKept

\* Nothing about q's slot changes.
SameSlot(q) ==
    /\ cx'[q] = cx[q] /\ req'[q] = req[q] /\ resp'[q] = resp[q]
    /\ ptask'[q] = ptask[q] /\ pret'[q] = pret[q] /\ pstate'[q] = pstate[q]

LEMMA SlotKept ==
  ASSUME ServiceInv, ControlInv, NEW q \in PId, SameSlot(q), UNCHANGED <<serviceVars, turn>>,
         mutex' = "work" <=> mutex = "work", mutex = "recovery" => mutex' = "recovery"
  PROVE  SlotInv(q)'
<1>1. SlotInv(q)
  BY SlotNow
<1>2. /\ w' = w /\ words' = words /\ read' = read /\ turn' = turn
      /\ \A bytes : Answers(bytes)' <=> Answers(bytes)
  BY ServiceStill
<1> QED BY <1>1, <1>2 DEF SlotInv, SameSlot, inRequest

LEMMA ControlAgain ==
  ASSUME ServiceInv, ControlInv, UNCHANGED <<serviceVars, turn>>, pstate' \in [PId -> PState],
         DOMAIN ptask' = PId, DOMAIN pret' = PId, cstate' \in {"C_RECOVERY", "C_WORKING"},
         mutex' \in {"free", "work", "recovery"}, mutex' = "work" <=> mutex = "work",
         \A p \in PId : SlotInv(p)'
  PROVE  ControlInv'
<1>1. w' = w /\ turn' = turn
  BY ServiceStill
<1> QED BY <1>1, ControlNow DEF ControlInv

LEMMA SkipStep ==
  ASSUME ServiceInv, ControlInv, NEW p \in PId, pSkips(p)
  PROVE  ServiceInv' /\ ControlInv'
<1>1. /\ ptask[p] # None /\ pstate[p] # "WORKING"
      /\ ptask' = [ptask EXCEPT ![p] = None] /\ pret' = [pret EXCEPT ![p] = Skipped]
      /\ UNCHANGED <<serviceVars, framingVars, pstate, cstate, turn, mutex>>
  BY DEF pSkips
<1>2. DOMAIN ptask = PId /\ DOMAIN pret = PId /\ mutex = "work" /\ cx[p].pc = "idle"
  BY <1>1, ControlNow, SlotNow
<1>3. /\ DOMAIN ptask' = PId /\ DOMAIN pret' = PId /\ ptask'[p] = None /\ pret'[p] = Skipped
      /\ \A q \in PId : q # p => ptask'[q] = ptask[q] /\ pret'[q] = pret[q]
  BY <1>1, <1>2
<1>4. ServiceInv'
  BY <1>1, ServiceStill
<1>5. ASSUME NEW q \in PId
      PROVE  SlotInv(q)'
  <2>1. CASE q = p
    <3>1. Skipped.rc # "OK"
      BY DEF Skipped
    <3>2. IdleSlot(p)'
      BY <1>1, <1>2, <1>3, <3>1 DEF IdleSlot, framingVars
    <3> QED BY <2>1, <3>2, IdleThere
  <2>2. CASE q # p
    <3>1. SameSlot(q)
      BY <1>1, <1>3, <2>2 DEF SameSlot, framingVars, participantVars
    <3> QED BY <1>1, <3>1, SlotKept
  <2> QED BY <2>1, <2>2
<1>6. ControlInv'
  BY <1>1, <1>3, <1>5, ControlNow, ControlAgain
<1> QED BY <1>4, <1>6

\* p's thread, or Recovery for it, calls.
LEMMA CallingStep ==
  ASSUME FramingInv, ServiceInv, ControlInv, NEW p \in PId, NEW task \in WireTask, Call(p, task),
         mutex = "recovery" \/ (ptask[p] = task /\ pstate[p] = "WORKING"),
         UNCHANGED <<serviceVars, coordinatorVars>>
  PROVE  Sound(p) /\ ServiceInv' /\ ControlInv'
<1>1. Sound(p) /\ Calls(p, task)
  BY CallStep, CallsStep
<1>2. /\ pstate' = pstate /\ cstate' = cstate /\ ptask' = ptask /\ pret' = pret /\ turn' = turn
      /\ mutex' = mutex
  BY DEF coordinatorVars
<1>3. ServiceInv' /\ w' = w /\ words' = words /\ read' = read
      /\ \A bytes : Answers(bytes)' <=> Answers(bytes)
  BY ServiceStill
<1>4. ASSUME NEW q \in PId
      PROVE  SlotInv(q)'
  <2>1. CASE q = p
    <3>1. SlotInv(p) /\ (mutex # "work" => ptask[p] = None) /\ task # None
      BY SlotNow, TaskText
    <3>2. /\ cx'[p].pc # "idle" => mutex = "recovery" \/ (ptask[p] # None /\ pstate[p] = "WORKING")
          /\ reading(cx'[p]) /\ ptask[p] # None /\ req'[p] # None => req'[p] = ptask[p]
          /\ resp'[p] = None /\ (cx'[p].pc = "done" => cx'[p].rc # "OK")
      BY <1>1, <3>1 DEF Calls, reading
    <3> QED BY <1>2, <1>3, <2>1, <3>1, <3>2 DEF SlotInv, inRequest
  <2>2. CASE q # p
    <3>1. SameSlot(q)
      BY <1>1, <1>2, <2>2 DEF SameSlot, Sound
    <3> QED BY <1>2, <3>1, SlotKept
  <2> QED BY <2>1, <2>2
<1>5. ControlInv'
  BY <1>2, <1>4, ControlNow, ControlAgain
<1> QED BY <1>1, <1>3, <1>5

LEMMA PCallsStep ==
  ASSUME FramingInv, ServiceInv, ControlInv, NEW p \in PId, pCalls(p)
  PROVE  Sound(p) /\ ServiceInv' /\ ControlInv'
<1>1. ptask[p] \in WireTask /\ Call(p, ptask[p]) /\ pstate[p] = "WORKING"
  BY SlotNow DEF pCalls
<1> QED BY <1>1, CallingStep DEF pCalls

LEMMA RecoveryTasks ==
  recoveryTask \subseteq WireTask
<1>1. \A c \in Command : c \in PartialCommand
  BY WholeCommand
<1> QED BY <1>1 DEF recoveryTask, WireTask, Update

LEMMA RecoveryCallsStep ==
  ASSUME FramingInv, ServiceInv, ControlInv, NEW p \in PId, RecoveryCalls(p)
  PROVE  Sound(p) /\ ServiceInv' /\ ControlInv'
<1>1. PICK task \in recoveryTask : Call(p, task)
  BY DEF RecoveryCalls
<1>2. task \in WireTask
  BY RecoveryTasks
<1> QED BY <1>1, <1>2, CallingStep DEF RecoveryCalls

LEMMA PReturnsStep ==
  ASSUME FramingInv, ServiceInv, ControlInv, NEW p \in PId, pReturns(p)
  PROVE  Sound(p) /\ ServiceInv' /\ ControlInv'
<1>1. Sound(p) /\ cx'[p].pc = "idle"
  BY ReturnStep, IdleAfter DEF pReturns
<1>2. UNCHANGED <<serviceVars, cstate, turn, mutex>> /\ cx[p].pc = "done"
  BY DEF pReturns, Return
<1>3. ServiceInv' /\ w' = w /\ words' = words /\ read' = read
      /\ \A bytes : Answers(bytes)' <=> Answers(bytes)
  BY <1>2, ServiceStill
<1>4. /\ pstate' \in [PId -> PState] /\ DOMAIN ptask = PId /\ DOMAIN pret = PId
      /\ \A q \in PId : q # p => pstate'[q] = pstate[q]
  BY ControlNow DEF pReturns, PState
<1>5. PICK e : e = [rc |-> cx[p].rc, rmsg |-> cx[p].rmsg] /\ e.rc = cx[p].rc /\ e.rmsg = cx[p].rmsg
  <2>1. PICK e : e = [rc |-> cx[p].rc, rmsg |-> cx[p].rmsg]
    OBVIOUS
  <2> QED BY <2>1
<1>6. /\ DOMAIN ptask' = PId /\ DOMAIN pret' = PId
      /\ \A q \in PId : q # p => ptask'[q] = ptask[q] /\ pret'[q] = pret[q]
      /\ ptask'[p] = None
      /\ pret'[p] = IF ptask[p] # None THEN e ELSE pret[p]
  <2>1. CASE ptask[p] # None
    BY <1>4, <1>5, <2>1 DEF pReturns
  <2>2. CASE ptask[p] = None
    BY <1>4, <2>2 DEF pReturns
  <2> QED BY <2>1, <2>2
<1>7. ASSUME NEW q \in PId
      PROVE  SlotInv(q)'
  <2>1. CASE q = p
    <3>1. /\ SlotInv(p) /\ (mutex # "work" => ptask[p] = None /\ pret[p] = None)
          /\ (inRequest /\ pret[p] # None => (pret[p].rc = "OK" => Answers(pret[p].rmsg)))
      BY SlotNow
    <3>2. inRequest /\ ptask[p] # None /\ e.rc = "OK" => Answers(e.rmsg)
      BY <1>2, <1>5, <3>1 DEF SlotInv
    <3>3. inRequest /\ pret'[p] # None => (pret'[p].rc = "OK" => Answers(pret'[p].rmsg))
      BY <1>6, <3>1, <3>2
    <3>4. IdleSlot(p)'
      BY <1>1, <1>2, <1>3, <1>6, <3>1, <3>3 DEF IdleSlot, inRequest
    <3> QED BY <2>1, <3>4, IdleThere
  <2>2. CASE q # p
    <3>1. SameSlot(q)
      BY <1>1, <1>4, <1>6, <2>2 DEF SameSlot, Sound
    <3> QED BY <1>2, <3>1, SlotKept
  <2> QED BY <2>1, <2>2
<1>8. ControlInv'
  BY <1>2, <1>4, <1>6, <1>7, ControlNow, ControlAgain
<1> QED BY <1>1, <1>3, <1>8

LEMMA KeepAliveStep ==
  ASSUME FramingInv, ServiceInv, ControlInv, NEW p \in PId, keepAlive(p)
  PROVE  Sound(p) /\ ServiceInv' /\ ControlInv'
<1>1. Sound(p) /\ cx'[p].pc = "idle"
  BY ReconnectStep, IdleAfter DEF keepAlive
<1>2. /\ UNCHANGED <<serviceVars, cstate, ptask, pret, turn, mutex>>
      /\ pstate' = [pstate EXCEPT ![p] = "TEMP"]
  BY DEF keepAlive
<1>3. /\ pstate' \in [PId -> PState] /\ \A q \in PId : q # p => pstate'[q] = pstate[q]
  BY <1>2, ControlNow DEF PState
<1>4. ServiceInv' /\ w' = w /\ words' = words /\ read' = read
      /\ \A bytes : Answers(bytes)' <=> Answers(bytes)
  BY <1>2, ServiceStill
<1>5. ASSUME NEW q \in PId
      PROVE  SlotInv(q)'
  <2>1. CASE q = p
    <3>1. IdleSlot(p)'
      BY <1>1, <1>2, <1>4, SlotNow DEF IdleSlot, SlotInv, inRequest
    <3> QED BY <2>1, <3>1, IdleThere
  <2>2. CASE q # p
    <3>1. SameSlot(q)
      BY <1>1, <1>2, <1>3, <2>2 DEF SameSlot, Sound
    <3> QED BY <1>2, <3>1, SlotKept
  <2> QED BY <2>1, <2>2
<1>6. ControlInv'
  BY <1>2, <1>3, <1>5, ControlNow, ControlAgain
<1> QED BY <1>1, <1>4, <1>6

LEMMA WakesStep ==
  ASSUME ServiceInv, ControlInv, RecoveryWakes
  PROVE  ServiceInv' /\ ControlInv'
<1>1. /\ UNCHANGED <<serviceVars, framingVars, pstate, ptask, pret, turn, mutex>>
      /\ cstate' = "C_RECOVERY"
  BY DEF RecoveryWakes
<1>2. \A q \in PId : SameSlot(q)
  BY <1>1 DEF SameSlot, framingVars, participantVars
<1>3. \A q \in PId : SlotInv(q)'
  BY <1>1, <1>2, SlotKept
<1>4. ControlInv'
  BY <1>1, <1>3, ControlNow, ControlAgain
<1> QED BY <1>1, <1>4, ServiceStill

LEMMA BeginsStep ==
  ASSUME ServiceInv, ControlInv, RecoveryBegins
  PROVE  ServiceInv' /\ ControlInv'
<1>1. /\ UNCHANGED <<serviceVars, framingVars, cstate, ptask, pret, turn>>
      /\ mutex = "free" /\ mutex' = "recovery"
      /\ pstate' = [p \in PId |-> IF pstate[p] \in {"TEMP", "WORKING"} THEN "RECOVERY"
                                  ELSE pstate[p]]
  BY DEF RecoveryBegins
<1>2. pstate' \in [PId -> PState]
  BY <1>1, ControlNow DEF PState
<1>3. w' = w /\ w.pc \notin {"request", "vote", "commit"}
  BY <1>1, ControlNow, ServiceStill
<1>4. ASSUME NEW q \in PId
      PROVE  SlotInv(q)'
  <2>1. cx[q].pc = "idle" /\ ptask[q] = None /\ pret[q] = None
    BY <1>1, NobodyWorks, SlotNow
  <2>2. IdleSlot(q)'
    BY <1>1, <1>3, <2>1 DEF IdleSlot, inRequest, framingVars
  <2> QED BY <2>2, IdleThere
<1>5. ControlInv'
  BY <1>1, <1>2, <1>4, ControlNow, ControlAgain
<1> QED BY <1>1, <1>5, ServiceStill

LEMMA EndsStep ==
  ASSUME ServiceInv, ControlInv, RecoveryEnds
  PROVE  ServiceInv' /\ ControlInv'
<1>1. /\ UNCHANGED <<serviceVars, framingVars, ptask, pret, turn>>
      /\ mutex = "recovery" /\ mutex' = "free" /\ cstate' = "C_WORKING"
      /\ \A p \in PId : cx[p].pc = "idle"
  BY DEF RecoveryEnds
<1>2. pstate' \in [PId -> PState]
  BY ControlNow DEF RecoveryEnds, PState
<1>3. w' = w /\ w.pc \notin {"request", "vote", "commit"}
  BY <1>1, ControlNow, ServiceStill
<1>4. ASSUME NEW q \in PId
      PROVE  SlotInv(q)'
  <2>1. cx[q].pc = "idle" /\ ptask[q] = None /\ pret[q] = None
    BY <1>1, SlotNow
  <2>2. IdleSlot(q)'
    BY <1>1, <1>3, <2>1 DEF IdleSlot, inRequest, framingVars
  <2> QED BY <2>2, IdleThere
<1>5. ControlInv'
  BY <1>1, <1>2, <1>4, ControlNow, ControlAgain
<1> QED BY <1>1, <1>5, ServiceStill

\* A participant's answer to a task of Request or of UpdateDB's commit.
LEMMA AnswerOfTask ==
  ASSUME NEW p \in PId, kv[p] \in Database,
         NEW l, l = read \/ \E tid \in Txid : l = Log(tid, "COMMIT", words)
  PROVE  workerReply(p, l) \in Outcome(words)
<1>1. eventParser(kv[p], words).reply \in Outcome(words) /\ ErrorReply \in Outcome(words)
  BY DEF Outcome
<1>2. CASE l = read
  <2>1. l.ID = SUPER_TXID /\ l.event = words /\ l.state = "COMMIT"
    BY <1>2 DEF read, Log
  <2> QED BY <1>1, <2>1 DEF workerReply, commits, SUPER_TXID, RECOVERY_TXID, ASK_DATA_TXID
<1>3. CASE \E tid \in Txid : l = Log(tid, "COMMIT", words)
  <2>1. l.ID \in Txid /\ l.event = words /\ l.state = "COMMIT"
    BY <1>3 DEF Log
  <2>2. l.ID # SUPER_TXID /\ l.ID # RECOVERY_TXID /\ l.ID # ASK_DATA_TXID
    BY <2>1, MaxTxidAssumption DEF Txid, TXID_START, SUPER_TXID, RECOVERY_TXID, ASK_DATA_TXID
  <2> QED BY <1>1, <2>1, <2>2 DEF workerReply
<1> QED BY <1>2, <1>3

LEMMA TransferStep ==
  ASSUME FramingInv, ServiceInv, ControlInv, NEW p \in PId, transfer(p)
  PROVE  Sound(p) /\ ServiceInv' /\ ControlInv'
<1>1. Sound(p)
  BY RecvHeaderStep, RecvContentStep, TimeoutStep, ClosedStep, PRecvHeaderStep, PRecvContentStep,
     WorkStep, AcceptAgainStep, KilledStep, StartedStep DEF transfer, participantEnd
<1>2. Transfers(p)
  BY Receives, Participates DEF transfer
<1>3. UNCHANGED <<serviceVars, pstate, cstate, ptask, pret, turn, mutex>>
  BY DEF transfer, coordinatorVars
<1>4. ServiceInv' /\ w' = w /\ words' = words /\ read' = read
      /\ \A bytes : Answers(bytes)' <=> Answers(bytes)
  BY <1>3, ServiceStill
<1>5. ASSUME NEW q \in PId
      PROVE  SlotInv(q)'
  <2>1. CASE q = p
    <3>1. SlotInv(p)
      BY SlotNow
    <3>2. ASSUME reading(cx'[p]), ptask[p] # None, resp'[p] # None, inRequest
          PROVE  resp'[p] \in Outcome(words)
      <4>1. reading(cx[p])
        BY <1>2, <3>2 DEF Transfers
      <4>2. CASE resp'[p] = resp[p]
        BY <3>1, <3>2, <4>1, <4>2 DEF SlotInv
      <4>3. CASE req[p] \in WireTask /\ kv[p] \in Database /\ resp'[p] = workerReply(p, req[p])
        <5>1. req[p] = ptask[p]
          BY <3>1, <3>2, <4>1, <4>3, TaskText DEF SlotInv
        <5>2. ptask[p] = read \/ \E tid \in Txid : ptask[p] = Log(tid, "COMMIT", words)
          BY <3>1, <3>2 DEF SlotInv, inRequest
        <5> QED BY <4>3, <5>1, <5>2, AnswerOfTask
      <4> QED BY <1>2, <3>2, <4>2, <4>3 DEF Transfers
    <3>3. ASSUME cx'[p].pc = "done", cx'[p].rc = "OK", ptask[p] # None, inRequest
          PROVE  Answers(cx'[p].rmsg)
      <4>1. CASE cx'[p] = cx[p]
        BY <3>1, <3>3, <4>1 DEF SlotInv
      <4>2. CASE reading(cx[p])
        <5>1. cx[p].pc # "done"
          BY <4>2 DEF reading
        <5>2. resp[p] # None /\ cx'[p].rmsg = replyBytes(resp[p])
          BY <1>1, <3>3, <5>1 DEF Sound, AnswerAt
        <5>3. resp[p] \in Outcome(words)
          BY <3>1, <3>3, <4>2, <5>2 DEF SlotInv
        <5> QED BY <5>2, <5>3 DEF Answers
      <4> QED BY <1>2, <3>3, <4>1, <4>2 DEF Transfers
    <3>4. reading(cx'[p]) /\ ptask[p] # None /\ req'[p] # None => req'[p] = ptask[p]
      BY <1>2, <3>1 DEF Transfers, SlotInv
    <3>5. cx'[p].pc # "idle" => mutex = "recovery" \/ (ptask[p] # None /\ pstate[p] = "WORKING")
      BY <1>2, <3>1 DEF Transfers, SlotInv
    <3> QED BY <1>3, <1>4, <2>1, <3>1, <3>2, <3>3, <3>4, <3>5 DEF SlotInv, inRequest
  <2>2. CASE q # p
    <3>1. SameSlot(q)
      BY <1>1, <1>3, <2>2 DEF SameSlot, Sound
    <3> QED BY <1>3, <3>1, SlotKept
  <2> QED BY <2>1, <2>2
<1>6. ControlInv'
  BY <1>3, <1>5, ControlNow, ControlAgain
<1> QED BY <1>1, <1>4, <1>6

-----------------------------------------------------------------------------
(***************************************************************************)
(* The invariant of Wire.                                                  *)
(***************************************************************************)
LEMMA FramingBegins ==
  ASSUME FramingInit
  PROVE  FramingInv
<1>1. /\ ptxid = [p \in PId |-> TXID_START] /\ plog = [p \in PId |-> [t \in Txid |-> None]]
      /\ kv = [p \in PId |-> EmptyDatabase] /\ link = [p \in PId |-> "listen"]
      /\ req = [p \in PId |-> None] /\ resp = [p \in PId |-> None]
      /\ down = [p \in PId |-> <<>>] /\ up = [p \in PId |-> <<>>]
      /\ cx = [p \in PId |-> NoCall] /\ px = [p \in PId |-> NewRecv]
  BY DEF FramingInit, ParticipantInit
<1>2. ConnectionsInv
  BY <1>1 DEF ConnectionsInv, OfParticipants
<1>3. ASSUME NEW p \in PId
      PROVE  ConnectionInv(p)
  <2>1. /\ link[p] = "listen" /\ req[p] = None /\ resp[p] = None /\ down[p] = <<>> /\ up[p] = <<>>
        /\ cx[p] = NoCall /\ px[p] = NewRecv
    BY <1>1
  <2>2. Stored(p)
    BY <1>1, EmptyStore DEF Stored
  <2>3. ParticipantEnd("listen", <<>>, NewRecv, None)
    BY FreshRecv
  <2>4. CoordinatorEnd("listen", <<>>, NoCall, None, None)
    BY Closed
  <2> QED BY <2>1, <2>2, <2>3, <2>4 DEF ConnectionInv, LinkState
<1> QED BY <1>2, <1>3 DEF FramingInv

LEMMA ServiceBegins ==
  ASSUME ServiceInit
  PROVE  ServiceInv
<1>1. /\ client = [c \in Client |-> NoLine] /\ queue = <<>> /\ listening = FALSE
      /\ in = [c \in Client |-> <<>>] /\ out = [c \in Client |-> <<>>] /\ w = Idle
  BY DEF ServiceInit
<1>2. NoLine \in ClientType /\ NoLine.pc = "line"
  BY DEF NoLine, ClientType, Bytes
<1>3. ServiceTypeOK
  <2>1. queue \in Seq(Client) /\ IsInjective(queue)
    BY <1>1 DEF IsInjective
  <2>2. client \in [Client -> ClientType] /\ in \in [Client -> Bytes] /\ out \in [Client -> Bytes]
    BY <1>1, <1>2 DEF Bytes
  <2> QED BY <1>1, <2>1, <2>2, IdleType DEF ServiceTypeOK, ClientType, WorkType
<1>4. ASSUME NEW c \in Client
      PROVE  ClientInv(c)
  <2>1. ~There(c) /\ ~Queued(c)
    BY <1>1, IdleType, NoClientAssumption DEF There, Queued, ToSet
  <2>2. client[c] = NoLine /\ in[c] = <<>> /\ out[c] = <<>>
    BY <1>1
  <2> QED BY <1>2, <2>1, <2>2, ClientHere DEF ClientAt
<1>5. WorkInv
  <2>1. ~Queued(w.peer)
    BY <1>1 DEF Queued, ToSet
  <2> QED BY <1>1, <2>1, IdleType, WorkHere, WorkAccepts
<1> QED BY <1>3, <1>4, <1>5 DEF ServiceInv

LEMMA WireBegins ==
  ASSUME Init
  PROVE  WireInv
<1>1. FramingInv /\ ServiceInv
  BY FramingBegins, ServiceBegins DEF Init
<1>2. /\ pstate = [p \in PId |-> "WAITING"] /\ ptask = [p \in PId |-> None]
      /\ pret = [p \in PId |-> None] /\ cstate = "C_RECOVERY" /\ turn = 1 /\ mutex = "free"
      /\ w = Idle /\ cx = [p \in PId |-> NoCall]
  BY DEF Init, ServiceInit, FramingInit
<1>3. w.pc = "accept" /\ NoCall.pc = "idle"
  BY <1>2, IdleType DEF NoCall
<1>4. \A p \in PId : SlotInv(p)
  BY <1>2, <1>3 DEF SlotInv, reading, inRequest
<1>5. 1 \in PId
  BY PNumAssumption DEF PId
<1>6. ControlInv
  BY <1>2, <1>3, <1>4, <1>5 DEF ControlInv, PState
<1> QED BY <1>1, <1>6 DEF WireInv

\* A step keeps the invariant, and changes at most one connection to a participant.
Keeps == WireInv' /\ (UNCHANGED framingVars \/ \E p \in PId : Sound(p))

LEMMA FramingStill ==
  ASSUME FramingInv, UNCHANGED framingVars
  PROVE  FramingInv'
<1>1. /\ ptxid' = ptxid /\ plog' = plog /\ kv' = kv /\ link' = link /\ req' = req /\ resp' = resp
      /\ down' = down /\ up' = up /\ cx' = cx /\ px' = px
  BY DEF framingVars, participantVars
<1> QED BY <1>1 DEF FramingInv, ConnectionsInv, ConnectionInv, Stored

\* Clients and the work thread on their connections.
LEMMA ServiceKeeps ==
  ASSUME WireInv, UNCHANGED <<framingVars, coordinatorVars>>,
         serviceStep \/ \E c \in Client : clientStep(c)
  PROVE  Keeps
<1>1. FramingInv' /\ ServiceInv /\ ControlInv
  BY FramingStill DEF WireInv
<1>2. CASE serviceStep
  <2>1. ServiceInv'
    BY <1>1, <1>2, BindStep, AcceptStep, ByteStep, WordStep, FailsStep, ResultStep, CloseStep
    DEF serviceStep
  <2>2. w.pc \in {"accept", "recv", "answer", "close"}
    BY <1>2 DEF serviceStep, initBind, acceptWithoutCloseBind, RecvByte, RecvWord, RecvFails,
                SendResult, Close
  <2>3. w'.pc \notin {"request", "vote", "commit"}
    <3>1. CASE initBind
      BY <2>2, <3>1 DEF initBind
    <3>2. CASE acceptWithoutCloseBind
      BY <3>2, IdleType DEF acceptWithoutCloseBind, WorkType
    <3>3. CASE RecvByte
      BY <1>1, <3>3, ByteStep
    <3>4. CASE RecvWord
      BY <1>1, <3>4, WordStep
    <3>5. CASE RecvFails
      BY <1>1, <3>5, ServiceNow, ServiceTypes, CommandRead DEF RecvFails
    <3>6. CASE SendResult
      BY <3>6, IdleType DEF SendResult, WorkType
    <3>7. CASE Close
      BY <3>7, IdleType DEF Close
    <3> QED BY <1>2, <3>1, <3>2, <3>3, <3>4, <3>5, <3>6, <3>7 DEF serviceStep
  <2>4. ControlInv'
    BY <1>1, <2>2, <2>3, ControlQuiet
  <2> QED BY <1>1, <2>1, <2>4 DEF Keeps, WireInv
<1>3. CASE \E c \in Client : clientStep(c)
  <2>1. PICK c \in Client : clientStep(c)
    BY <1>3
  <2>2. ServiceInv'
    BY <1>1, <2>1, OpenStep, SendStep, ReceiveStep, QuitStep, NextLineStep DEF clientStep
  <2>3. w' = w
    BY <2>1 DEF clientStep, OpenConnection, Send, Receive, Quit, NextLine
  <2>4. ControlInv'
    BY <1>1, <2>3, ControlStill
  <2> QED BY <1>1, <2>2, <2>4 DEF Keeps, WireInv
<1> QED BY <1>2, <1>3

LEMMA WireStill ==
  ASSUME WireInv, UNCHANGED vars
  PROVE  WireInv'
<1>1. /\ UNCHANGED serviceVars /\ UNCHANGED framingVars /\ UNCHANGED coordinatorVars /\ w' = w
  BY DEF vars, serviceVars
<1> QED BY <1>1, FramingStill, ServiceStill, ControlStill DEF WireInv

LEMMA StepKeeps ==
  ASSUME WireInv, Next
  PROVE  Keeps
<1>1. FramingInv /\ ServiceInv /\ ControlInv
  BY DEF WireInv
<1>2. CASE UNCHANGED <<framingVars, coordinatorVars>> /\ (serviceStep \/ \E c \in Client : clientStep(c))
  BY <1>2, ServiceKeeps
<1>3. CASE Reject \/ Admit \/ Refuse \/ Request \/ RequestResult \/ UpdateDB \/ Vote \/ Commit
  <2>1. ServiceInv' /\ ControlInv'
    BY <1>1, <1>3, RejectStep, AdmitStep, RefuseStep, RequestStep, RequestResultStep, UpdateStep,
       VoteStep, CommitStep
  <2>2. UNCHANGED framingVars
    BY <1>3 DEF Reject, Admit, Refuse, Request, RequestResult, UpdateDB, Vote, Commit
  <2> QED BY <1>1, <2>1, <2>2, FramingStill DEF Keeps, WireInv
<1>4. CASE RecoveryWakes \/ RecoveryBegins \/ RecoveryEnds
  <2>1. ServiceInv' /\ ControlInv'
    BY <1>1, <1>4, WakesStep, BeginsStep, EndsStep
  <2>2. UNCHANGED framingVars
    BY <1>4 DEF RecoveryWakes, RecoveryBegins, RecoveryEnds
  <2> QED BY <1>1, <2>1, <2>2, FramingStill DEF Keeps, WireInv
<1>5. ASSUME NEW p \in PId, pSkips(p)
      PROVE  Keeps
  <2>1. ServiceInv' /\ ControlInv'
    BY <1>1, <1>5, SkipStep
  <2>2. UNCHANGED framingVars
    BY <1>5 DEF pSkips
  <2> QED BY <1>1, <2>1, <2>2, FramingStill DEF Keeps, WireInv
<1>6. ASSUME NEW p \in PId,
             pCalls(p) \/ pReturns(p) \/ keepAlive(p) \/ RecoveryCalls(p) \/ transfer(p)
      PROVE  Keeps
  <2>1. Sound(p) /\ ServiceInv' /\ ControlInv'
    BY <1>1, <1>6, PCallsStep, PReturnsStep, KeepAliveStep, RecoveryCallsStep, TransferStep
  <2>2. FramingInv'
    BY <2>1 DEF Sound
  <2> QED BY <2>1, <2>2 DEF Keeps, WireInv
<1> QED BY <1>2, <1>3, <1>4, <1>5, <1>6 DEF Next

\* In every state of Wire, what was read of a stream and what is on its way are
\* together what was sent, or its beginning when a connection broke; and what a
\* client is answered, and what a thread hands back, is about its own command.
THEOREM WireInvariance == Spec => []WireInv
<1>1. Init => WireInv
  BY WireBegins
<1>2. WireInv /\ [Next]_vars => WireInv'
  BY WireStill, StepKeeps DEF Keeps
<1> QED BY <1>1, <1>2, PTL DEF Spec

-----------------------------------------------------------------------------
(***************************************************************************)
(* The properties.                                                         *)
(***************************************************************************)
LEMMA TypesFollow ==
  ASSUME WireInv
  PROVE  TypeOK
<1>1. FramingInv /\ ServiceTypeOK /\ ControlInv
  BY DEF WireInv, ServiceInv
<1>2. ASSUME NEW p \in PId
      PROVE  /\ ptxid[p] \in TXID_START .. MaxTxid + 1 /\ kv[p] \in Database
             /\ link[p] \in LinkState /\ down[p] \in Seq(Nat) /\ up[p] \in Seq(Nat)
             /\ cx[p] \in CallType /\ px[p] \in RecvType
             /\ cx[p].open \/ cx[p].pc = "idle"
             /\ link[p] = "up" => cx[p].open
             /\ link[p] = "half" => ~cx[p].open
  <2>1. NoCall.pc = "idle"
    BY DEF NoCall
  <2> QED BY <1>1, <2>1, Here DEF Stored, ParticipantEnd, CoordinatorEnd
<1>3. ConnectionsInv
  BY <1>1 DEF FramingInv
<1>4. FramingTypeOK
  <2>1. /\ ptxid \in [PId -> TXID_START .. MaxTxid + 1] /\ kv \in [PId -> Database]
        /\ link \in [PId -> LinkState]
    BY <1>2, <1>3 DEF ConnectionsInv, OfParticipants
  <2>2. down \in [PId -> Seq(Nat)] /\ up \in [PId -> Seq(Nat)]
    BY <1>2, <1>3 DEF ConnectionsInv, OfParticipants
  <2>3. cx \in [PId -> CallType] /\ px \in [PId -> RecvType]
    BY <1>2, <1>3 DEF ConnectionsInv, OfParticipants
  <2> QED BY <1>2, <2>1, <2>2, <2>3 DEF FramingTypeOK
<1>5. \A p \in PId : pret[p] # None => ptask[p] = None
  BY <1>1, SlotNow
<1> QED BY <1>1, <1>4, <1>5, ControlNow DEF TypeOK

LEMMA NothingLeftFollows ==
  ASSUME WireInv
  PROVE  NothingLeft
<1>1. FramingInv
  BY DEF WireInv
<1>2. ASSUME NEW p \in PId, cx[p].open, cx[p].pc = "idle"
      PROVE  up[p] = <<>> /\ (link[p] = "up" => down[p] = <<>> /\ px[p] = NewRecv)
  <2>1. up[p] = <<>> /\ (link[p] = "up" => req[p] = None)
    BY <1>1, <1>2, Here DEF CoordinatorEnd, quiet
  <2>2. req[p] = None => down[p] = <<>> /\ px[p] = NewRecv
    BY <1>1, Here, NothingRead
  <2> QED BY <2>1, <2>2
<1> QED BY <1>2 DEF NothingLeft

\* Begins is IsPrefix.
LEMMA BeginsPrefix ==
  ASSUME NEW X, NEW s \in Seq(X), NEW t \in Seq(X), Begins(s, t)
  PROVE  IsPrefix(s, t)
<1>1. PICK n \in Nat, m \in Nat : n = Len(s) /\ m = Len(t) /\ n <= m /\ \A i \in 1 .. n : t[i] = s[i]
  BY DEF Begins
<1>2. PICK a \in Seq(X) : a = SubSeq(s, 1, n) /\ Len(a) = n /\ \A i \in 1 .. n : a[i] = s[i]
  BY <1>1
<1>3. PICK b \in Seq(X) : b = SubSeq(t, 1, n) /\ Len(b) = n /\ \A i \in 1 .. n : b[i] = t[i]
  BY <1>1
<1>4. a = b
  BY <1>1, <1>2, <1>3, SeqEqual
<1> QED BY <1>1, <1>2, <1>3, <1>4 DEF IsPrefix

LEMMA WordsWholeFollows ==
  ASSUME WireInv
  PROVE  WordsWhole
<1>1. ServiceInv
  BY DEF WireInv
<1>2. ASSUME w.pc \notin {"accept", "recv", "close"}
      PROVE  /\ IsPrefix(w.words, spelled(client[w.peer].command))
             /\ \/ w.words \in {<<>>, spelled(client[w.peer].command)}
                \/ client[w.peer].pc = "gone"
  <2>1. PICK cl : cl = client[w.peer] /\ cl.command \in Command /\ WorkAt(w, cl, in[w.peer])
    BY <1>1, <1>2, AtWork
  <2>2. /\ Begins(w.words, spelled(cl.command))
        /\ w.words \in {<<>>, spelled(cl.command)} \/ cl.pc = "gone"
    BY <1>2, <2>1 DEF WorkAt
  <2>3. w.words \in Seq(Bytes) /\ spelled(cl.command) \in Seq(Bytes)
    BY <1>1, <2>1, ServiceNow, ServiceTypes, TextOfCommand DEF WorkType
  <2>4. IsPrefix(w.words, spelled(cl.command))
    BY <2>2, <2>3, BeginsPrefix
  <2> QED BY <2>1, <2>2, <2>4
<1> QED BY <1>2 DEF WordsWhole

LEMMA FitsCommandFollows ==
  ASSUME WireInv
  PROVE  FitsCommand
<1>1. ServiceInv
  BY DEF WireInv
<1>2. ASSUME NEW c \in Client, client[c].pc = "done"
      PROVE  \E r \in Outcome(client[c].command) :
               IsPrefix(client[c].printed, replyBytes(r) \o <<NUL>>)
  <2>1. /\ client[c].command \in Command
        /\ \E r \in Outcome(client[c].command) : Begins(client[c].printed, replyBytes(r) \o <<NUL>>)
    BY <1>1, <1>2, ServiceNow DEF ClientAt
  <2>2. PICK r \in Outcome(client[c].command) : Begins(client[c].printed, replyBytes(r) \o <<NUL>>)
    BY <2>1
  <2>3. client[c].printed \in Seq(Nat) /\ replyBytes(r) \o <<NUL>> \in Seq(Nat)
    BY <1>1, <2>1, ServiceNow, ServiceTypes, AnswerText DEF ClientType, Bytes
  <2> QED BY <2>2, <2>3, BeginsPrefix
<1> QED BY <1>2 DEF FitsCommand, Outcome

\* The types of the streams, of both ends of every connection and of the work
\* thread; the mutex is held as Request and UpdateDB hold it.
THEOREM WireTypeCorrect == Spec => []TypeOK
<1>1. WireInv => TypeOK
  BY TypesFollow
<1> QED BY <1>1, WireInvariance, PTL

\* Where sendAndRecv begins, nothing of an earlier call is on its way or half
\* read, however its packets were cut into pieces and whatever failed.
THEOREM NothingIsLeft == Spec => []NothingLeft
<1>1. WireInv => NothingLeft
  BY NothingLeftFollows
<1> QED BY <1>1, WireInvariance, PTL

\* recvCommand hands Working all words of the client's command or, when it does
\* not begin in time, none; the first of them only when the client is gone.
THEOREM CommandsAreWhole == Spec => []WordsWhole
<1>1. WireInv => WordsWhole
  BY WordsWholeFollows
<1> QED BY <1>1, WireInvariance, PTL

\* What a client prints is the beginning of an answer to its own command, though
\* threads, participants, connections and the client itself fail at any time.
THEOREM AnswersFit == Spec => []FitsCommand
<1>1. WireInv => FitsCommand
  BY FitsCommandFollows
<1> QED BY <1>1, WireInvariance, PTL

\* Where sendAndRecv succeeds, rmsg is the whole reply to the task of this call.
THEOREM AnswersAreWhole == Spec => AnswerWhole
<1>1. ASSUME WireInv, [Next]_vars
      PROVE  [\A p \in PId : AnswerAt(p)]_framingVars
  <2>1. CASE UNCHANGED vars
    BY <2>1 DEF vars
  <2>2. CASE Next
    <3>1. CASE UNCHANGED framingVars
      BY <3>1
    <3>2. CASE \E p \in PId : Sound(p)
      <4>1. PICK p \in PId : Sound(p)
        BY <3>2
      <4>2. \A q \in PId : AnswerAt(q)
        BY <4>1 DEF Sound, AnswerAt
      <4> QED BY <4>2
    <3> QED BY <1>1, <2>2, <3>1, <3>2, StepKeeps DEF Keeps
  <2> QED BY <1>1, <2>1, <2>2
<1>2. Spec => [][\A p \in PId : AnswerAt(p)]_framingVars
  BY <1>1, WireInvariance, PTL DEF Spec
<1> QED BY <1>2 DEF AnswerWhole, AnswerAt

\* On streams that arrive in pieces, with connections that break, the
\* participants take the steps that the coordinator's model takes for granted.
THEOREM WireImplementsParticipant == Spec => ImplementsParticipant
<1>1. ASSUME WireInv, [Next]_vars
      PROVE  [\E p \in PId : linkStep(p)]_participantVars
  <2>1. CASE UNCHANGED framingVars
    BY <2>1 DEF framingVars
  <2>2. CASE \E p \in PId : Sound(p)
    BY <2>2 DEF Sound
  <2>3. UNCHANGED vars => UNCHANGED framingVars
    BY DEF vars
  <2> QED BY <1>1, <2>1, <2>2, <2>3, StepKeeps DEF Keeps
<1>2. Spec => [][\E p \in PId : linkStep(p)]_participantVars
  BY <1>1, WireInvariance, PTL DEF Spec
<1> QED BY <1>2 DEF ImplementsParticipant

===============================================================================
