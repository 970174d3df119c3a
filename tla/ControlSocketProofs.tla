------------------------ MODULE ControlSocketProofs ------------------------
(***************************************************************************)
(* For any number of commands: the calls that read the control socket stay *)
(* within their buffers, and as long as one of them reads at a time the    *)
(* commands arrive whole and in order.                                     *)
(***************************************************************************)
EXTENDS ControlSocket, SequenceTheorems, WellFoundedInduction, TLAPS

-----------------------------------------------------------------------------
(***************************************************************************)
(* Numbers and their digits.                                               *)
(***************************************************************************)
\* The least element of a set of natural numbers.
LEMMA LeastOf ==
    ASSUME NEW S \in SUBSET Nat, NEW m \in S
    PROVE  \E n \in S : \A i \in S : n <= i
<1>. DEFINE Less == OpToRel(<, Nat)
<1>1. PICK n \in S : \A i \in S : <<i, n>> \notin Less
  BY WFMin, NatLessThanWellFounded
<1>2. \A i \in S : i < n => <<i, n>> \in Less
  BY DEF OpToRel
<1>3. \A i \in S : ~(i < n) /\ i \in Nat /\ n \in Nat
  BY <1>1, <1>2
<1>. QED  BY <1>3

\* The values of the digits up to each place.
Value(digits, v) ==
    v = [n \in 0 .. Len(digits) |-> IF n = 0 THEN 0 ELSE 10 * v[n - 1] + digits[n]]

\* There are such values, up to any place, by the least one that has none.
LEMMA ValueExists ==
    ASSUME NEW digits \in Seq(0 .. 9)
    PROVE  \E v : Value(digits, v) /\ v \in [0 .. Len(digits) -> Nat]
<1>. DEFINE L == Len(digits)
            D == 0 .. L
            Solves(v, n) == /\ v \in [D -> Nat] /\ v[0] = 0
                            /\ \A m \in 1 .. n : v[m] = 10 * v[m - 1] + digits[m]
            Open == {n \in D : ~ \E v : Solves(v, n)}
<1>0. L \in Nat /\ \A m \in 1 .. L : digits[m] \in Nat
  <2>1. L \in Nat /\ DOMAIN digits = 1 .. L
    BY LenProperties
  <2>. QED  BY <2>1, ElementOfSeq
<1>. HIDE DEF L
<1>1. Open = {}
  <2>. SUFFICES ASSUME Open # {} PROVE FALSE
    OBVIOUS
  <2>1. PICK n \in Open : \A i \in Open : n <= i
    <3>. HIDE DEF Open
    <3>1. Open \in SUBSET Nat
      BY <1>0 DEF Open
    <3>. QED  BY <3>1, LeastOf
  <2>2. CASE n = 0
    <3>. DEFINE v == [m \in D |-> 0]
    <3>1. Solves(v, 0)
      BY <1>0
    <3>. QED  BY <2>1, <2>2, <3>1
  <2>3. CASE n # 0
    <3>1. n \in D /\ n - 1 \in D /\ n - 1 \notin Open /\ n \in 1 .. L
      <4>1. n \in D
        BY <2>1
      <4>. HIDE DEF Open
      <4>. QED  BY <1>0, <2>1, <2>3, <4>1
    <3>2. PICK v : Solves(v, n - 1)
      BY <3>1
    <3>. DEFINE w == [v EXCEPT ![n] = 10 * v[n - 1] + digits[n]]
    <3>3. digits[n] \in Nat /\ v[n - 1] \in Nat /\ v \in [D -> Nat]
      BY <1>0, <3>1, <3>2
    <3>4. w \in [D -> Nat] /\ w[n] = 10 * v[n - 1] + digits[n]
          /\ \A m \in D : m # n => w[m] = v[m]
      BY <3>1, <3>3
    <3>. HIDE DEF w
    <3>5. \A m \in 1 .. n : m - 1 \in D /\ m - 1 # n /\ m \in D /\ (m = n \/ m \in 1 .. n - 1)
      BY <1>0, <3>1
    <3>6. w[0] = 0
      BY <1>0, <2>3, <3>2, <3>4
    <3>7. \A m \in 1 .. n : w[m] = 10 * w[m - 1] + digits[m]
      BY <3>2, <3>4, <3>5
    <3>8. Solves(w, n)
      BY <3>4, <3>6, <3>7
    <3>. QED  BY <2>1, <3>8
  <2>. QED  BY <2>2, <2>3
<1>2. PICK v : Solves(v, L)
  <2>1. L \in D
    BY <1>0
  <2>2. L \notin Open
    <3>. HIDE DEF Open
    <3>. QED  BY <1>1
  <2>. QED  BY <2>1, <2>2
<1>3. v = [n \in D |-> IF n = 0 THEN 0 ELSE 10 * v[n - 1] + digits[n]]
  <2>1. \A n \in D : v[n] = IF n = 0 THEN 0 ELSE 10 * v[n - 1] + digits[n]
    BY <1>0, <1>2
  <2>. QED  BY <1>2, <2>1
<1>. QED  BY <1>2, <1>3 DEF Value, L

\* A number is one, and that of one or two digits is what it looks like.
LEMMA NumberOf ==
    ASSUME NEW digits \in Seq(0 .. 9)
    PROVE  /\ Number(digits) \in Nat
           /\ Len(digits) = 1 => Number(digits) = digits[1]
           /\ Len(digits) = 2 => Number(digits) = 10 * digits[1] + digits[2]
<1>. DEFINE W == CHOOSE v : Value(digits, v)
<1>0. Len(digits) \in Nat /\ \A n \in 1 .. Len(digits) : digits[n] \in 0 .. 9
  BY LenProperties, ElementOfSeq
<1>1. Number(digits) = W[Len(digits)]
  BY DEF Number, Value
<1>2. PICK u : Value(digits, u) /\ u \in [0 .. Len(digits) -> Nat]
  BY ValueExists
<1>3. Value(digits, W)
  BY <1>2
<1>. HIDE DEF W
<1>4. ASSUME NEW n \in 0 .. Len(digits)
      PROVE  W[n] = IF n = 0 THEN 0 ELSE 10 * W[n - 1] + digits[n]
  BY <1>3 DEF Value
<1>5. ASSUME NEW n \in 0 .. Len(digits)
      PROVE  u[n] = IF n = 0 THEN 0 ELSE 10 * u[n - 1] + digits[n]
  BY <1>2 DEF Value
<1>6. W = u
  <2>. DEFINE Apart == {n \in 0 .. Len(digits) : W[n] # u[n]}
  <2>1. Apart = {}
    <3>. SUFFICES ASSUME Apart # {} PROVE FALSE
      OBVIOUS
    <3>1. PICK n \in Apart : \A i \in Apart : n <= i
      <4>. HIDE DEF Apart
      <4>1. Apart \in SUBSET Nat
        BY <1>0 DEF Apart
      <4>. QED  BY <4>1, LeastOf
    <3>2. n # 0
      BY <1>0, <1>4, <1>5, <3>1
    <3>3. n \in 0 .. Len(digits) /\ n - 1 \in 0 .. Len(digits) /\ n - 1 \notin Apart
      BY <1>0, <3>1, <3>2
    <3>4. W[n - 1] = u[n - 1]
      BY <3>3
    <3>. QED  BY <1>4, <1>5, <3>1, <3>2, <3>3, <3>4
  <2>2. DOMAIN W = 0 .. Len(digits) /\ W = [n \in 0 .. Len(digits) |-> W[n]]
    BY <1>3 DEF Value
  <2>. QED  BY <1>2, <2>1, <2>2
<1>7. CASE Len(digits) = 1
  <2>1. W[0] = 0 /\ W[1] = 10 * W[0] + digits[1]
    BY <1>4, <1>7
  <2>2. digits[1] \in 0 .. 9
    BY <1>0, <1>7
  <2>. QED  BY <1>1, <1>2, <1>6, <1>7, <2>1, <2>2
<1>8. CASE Len(digits) = 2
  <2>1. W[0] = 0 /\ W[1] = 10 * W[0] + digits[1] /\ W[2] = 10 * W[1] + digits[2]
    BY <1>4, <1>8
  <2>2. digits[1] \in 0 .. 9 /\ digits[2] \in 0 .. 9
    BY <1>0, <1>8
  <2>. QED  BY <1>1, <1>2, <1>6, <1>8, <2>1, <2>2
<1>9. Number(digits) \in Nat
  BY <1>0, <1>1, <1>2, <1>6
<1>. QED  BY <1>7, <1>8, <1>9

-----------------------------------------------------------------------------
(***************************************************************************)
(* Types.                                                                  *)
(***************************************************************************)
CallOK(c) ==
    c \in Call /\ Len(c.size) < SizeLen /\ (c.pc # "off" => Len(c.body) <= c.want)

\* One sequence of bytes after another, place by place.
LEMMA Joined ==
    ASSUME NEW a \in Seq(Byte), NEW b \in Seq(Byte)
    PROVE  /\ a \o b \in Seq(Byte) /\ Len(a \o b) = Len(a) + Len(b)
           /\ \A i \in 1 .. Len(a) : (a \o b)[i] = a[i]
           /\ \A i \in 1 .. Len(b) : (a \o b)[Len(a) + i] = b[i]
<1>1. Len(a) \in Nat /\ Len(b) \in Nat
  BY LenProperties
<1>2. /\ a \o b \in Seq(Byte) /\ Len(a \o b) = Len(a) + Len(b)
      /\ \A i \in 1 .. Len(a) + Len(b) : (a \o b)[i] = IF i <= Len(a) THEN a[i] ELSE b[i - Len(a)]
  BY ConcatProperties
<1>3. \A i \in 1 .. Len(b) : Len(a) + i \in 1 .. Len(a) + Len(b) /\ ~(Len(a) + i <= Len(a))
                             /\ Len(a) + i - Len(a) = i
  BY <1>1
<1>4. \A i \in 1 .. Len(a) : i \in 1 .. Len(a) + Len(b) /\ i <= Len(a)
  BY <1>1
<1>. QED  BY <1>2, <1>3, <1>4

\* A message tells the length of the rest, which is the command and a bar.
LEMMA Messages ==
    ASSUME NEW type \in {CTRL_PAUSE, CTRL_STOP}
    PROVE  LET m == Encoded(type)
           IN  /\ m \in Seq(Byte) /\ Len(m) = IF type = CTRL_PAUSE THEN 4 ELSE 5
               /\ m[1] = Len(m) - 2 /\ m[2] = Bar /\ m[Len(m)] = Bar
               /\ type = CTRL_PAUSE => m[3] = 9
               /\ type = CTRL_STOP  => m[3] = 1 /\ m[4] = 0
<1>. DEFINE d == Digits(type)
            bar == <<Bar>>
            body == d \o bar
            s == Digits(Len(body))
            head == s \o bar
            m == head \o body
<1>1. /\ 0 \in Byte /\ 1 \in Byte /\ 2 \in Byte /\ 3 \in Byte /\ 9 \in Byte /\ Bar \in Byte
  BY DEF Byte, Bar
<1>2. bar \in Seq(Byte) /\ Len(bar) = 1 /\ bar[1] = Bar
  BY <1>1
<1>3. /\ d \in Seq(Byte) /\ Len(d) = IF type = CTRL_PAUSE THEN 1 ELSE 2
      /\ type = CTRL_PAUSE => d[1] = 9
      /\ type = CTRL_STOP => d[1] = 1 /\ d[2] = 0
  <2>1. Digits(9) = <<9>> /\ Digits(10) = <<1, 0>>
    BY DEF Digits
  <2>2. CASE type = CTRL_PAUSE
    <3>1. d = <<9>> /\ type # CTRL_STOP
      BY <2>1, <2>2 DEF CTRL_PAUSE, CTRL_STOP
    <3>2. <<9>> \in Seq(Byte) /\ Len(<<9>>) = 1 /\ <<9>>[1] = 9
      BY <1>1
    <3>. HIDE DEF d
    <3>. QED  BY <2>2, <3>1, <3>2
  <2>3. CASE type = CTRL_STOP
    <3>1. d = <<1, 0>> /\ type # CTRL_PAUSE
      BY <2>1, <2>3 DEF CTRL_PAUSE, CTRL_STOP
    <3>2. <<1, 0>> \in Seq(Byte) /\ Len(<<1, 0>>) = 2 /\ <<1, 0>>[1] = 1 /\ <<1, 0>>[2] = 0
      BY <1>1
    <3>. HIDE DEF d
    <3>. QED  BY <2>3, <3>1, <3>2
  <2>. QED  BY <2>2, <2>3
<1>. HIDE DEF d, bar
<1>4. /\ body \in Seq(Byte) /\ Len(body) = Len(d) + 1 /\ body[Len(d) + 1] = Bar
      /\ \A i \in 1 .. Len(d) : body[i] = d[i]
  <2>1. /\ d \o bar \in Seq(Byte) /\ Len(d \o bar) = Len(d) + Len(bar)
        /\ \A i \in 1 .. Len(d) : (d \o bar)[i] = d[i]
        /\ \A i \in 1 .. Len(bar) : (d \o bar)[Len(d) + i] = bar[i]
    BY <1>2, <1>3, Joined
  <2>2. 1 \in 1 .. Len(bar)
    BY <1>2
  <2>3. (d \o bar)[Len(d) + 1] = bar[1]
    BY <2>1, <2>2
  <2>. QED  BY <1>2, <2>1, <2>3
<1>. HIDE DEF body
<1>5. s \in Seq(Byte) /\ Len(s) = 1 /\ s[1] = Len(body)
  <2>1. Len(body) \in {2, 3}
    BY <1>3, <1>4
  <2>2. Digits(2) = <<2>> /\ Digits(3) = <<3>>
    BY DEF Digits
  <2>3. \A n \in {2, 3} : <<n>> \in Seq(Byte) /\ Len(<<n>>) = 1 /\ <<n>>[1] = n
    BY <1>1
  <2>4. s = <<Len(body)>>
    BY <2>1, <2>2
  <2>. HIDE DEF s
  <2>. QED  BY <2>1, <2>3, <2>4
<1>. HIDE DEF s
<1>6. head \in Seq(Byte) /\ Len(head) = 2 /\ head[1] = Len(body) /\ head[2] = Bar
  BY <1>2, <1>5, Joined
<1>. HIDE DEF head
<1>7. /\ m \in Seq(Byte) /\ Len(m) = Len(body) + 2
      /\ m[1] = Len(body) /\ m[2] = Bar
      /\ \A i \in 1 .. Len(body) : m[2 + i] = body[i]
  <2>1. /\ m \in Seq(Byte) /\ Len(m) = Len(head) + Len(body)
        /\ \A i \in 1 .. Len(head) : m[i] = head[i]
        /\ \A i \in 1 .. Len(body) : m[Len(head) + i] = body[i]
    BY <1>4, <1>6, Joined
  <2>. HIDE DEF m
  <2>2. Len(body) \in Nat /\ 1 \in 1 .. Len(head) /\ 2 \in 1 .. Len(head)
    BY <1>4, <1>6, LenProperties
  <2>3. m[1] = head[1] /\ m[2] = head[2]
    BY <2>1, <2>2
  <2>. QED  BY <1>6, <2>1, <2>2, <2>3
<1>8. Encoded(type) = m
  BY DEF Encoded, m, head, s, body, d, bar
<1>. HIDE DEF m
<1>9. CTRL_PAUSE # CTRL_STOP
  BY DEF CTRL_PAUSE, CTRL_STOP
<1>10. CASE type = CTRL_PAUSE
  <2>1. Len(d) = 1 /\ Len(body) = 2 /\ Len(m) = 4 /\ m[3] = body[1] /\ m[4] = body[2]
    BY <1>3, <1>4, <1>7, <1>10
  <2>2. body[1] = 9 /\ body[2] = Bar
    BY <1>3, <1>4, <1>10, <2>1
  <2>3. m[1] = Len(m) - 2 /\ m[Len(m)] = Bar /\ m[3] = 9 /\ type # CTRL_STOP
    BY <1>7, <1>9, <1>10, <2>1, <2>2
  <2>. QED  BY <1>7, <1>8, <1>10, <2>1, <2>3
<1>11. CASE type = CTRL_STOP
  <2>1. /\ Len(d) = 2 /\ Len(body) = 3 /\ Len(m) = 5
        /\ m[3] = body[1] /\ m[4] = body[2] /\ m[5] = body[3]
    BY <1>3, <1>4, <1>7, <1>9, <1>11
  <2>2. body[1] = 1 /\ body[2] = 0 /\ body[3] = Bar
    BY <1>3, <1>4, <1>9, <1>11, <2>1
  <2>3. m[1] = Len(m) - 2 /\ m[Len(m)] = Bar /\ m[3] = 1 /\ m[4] = 0 /\ type # CTRL_PAUSE
    BY <1>7, <1>9, <1>11, <2>1, <2>2
  <2>. QED  BY <1>7, <1>8, <1>11, <2>1, <2>3
<1>. QED  BY <1>10, <1>11

\* What is sent is bytes.
LEMMA EncodedType ==
    ASSUME NEW type \in Commands
    PROVE  type \in {CTRL_PAUSE, CTRL_STOP} /\ Encoded(type) \in Seq(Byte)
<1>1. type \in {CTRL_PAUSE, CTRL_STOP}
  BY SocketAssumption
<1>. QED  BY <1>1, Messages

\* The calls there may be.
LEMMA CallsOK ==
    /\ CallOK(Off) /\ CallOK(Poll) /\ Off.pc = "off" /\ Poll.pc = "poll"
    /\ \A pc \in {"size", "select", "read"} : CallOK([Poll EXCEPT !.pc = pc])
    /\ \A size \in Nat : CallOK([Poll EXCEPT !.pc = "select", !.want = size])
<1>1. /\ Off \in Call /\ Off.size = <<>> /\ Off.body = <<>> /\ Off.pc = "off" /\ Off.want = 0
  <2>1. <<>> \in Seq(0 .. 9) /\ <<>> \in Seq(Byte)
    OBVIOUS
  <2>. QED  BY <2>1 DEF Off, Call
<1>2. /\ Poll \in Call /\ Poll.size = <<>> /\ Poll.body = <<>> /\ Poll.pc = "poll" /\ Poll.want = 0
  BY <1>1 DEF Poll, Call
<1>3. Len(<<>>) = 0
  OBVIOUS
<1>4. CallOK(Off) /\ CallOK(Poll)
  BY <1>1, <1>2, <1>3 DEF CallOK, SizeLen
<1>5. ASSUME NEW pc \in {"size", "select", "read"} PROVE CallOK([Poll EXCEPT !.pc = pc])
  BY <1>2, <1>3 DEF CallOK, Call, SizeLen
<1>6. ASSUME NEW size \in Nat PROVE CallOK([Poll EXCEPT !.pc = "select", !.want = size])
  <2>. DEFINE new == [Poll EXCEPT !.pc = "select", !.want = size]
  <2>1. new \in Call /\ new.size = <<>> /\ new.body = <<>> /\ new.want = size
    BY <1>2 DEF Call
  <2>. HIDE DEF new
  <2>2. CallOK(new)
    BY <1>3, <2>1 DEF CallOK, SizeLen
  <2>. QED  BY <2>2 DEF new
<1>. QED  BY <1>1, <1>2, <1>4, <1>5, <1>6

\* A call that becomes one that may be leaves the other as it is.
LEMMA BecomesOK ==
    ASSUME NEW isHandler \in BOOLEAN, NEW new, CallOK(new), Becomes(isHandler, new),
           CallOK(direct), CallOK(handler)
    PROVE  CallOK(direct') /\ CallOK(handler')
BY DEF Becomes

\* The call that goes on is one that may be.
LEMMA RunningOK ==
    ASSUME NEW isHandler \in BOOLEAN, CallOK(direct), CallOK(handler)
    PROVE  CallOK(Running(isHandler))
BY CallsOK DEF Running

\* What remains of the socket when n bytes are taken, and what they are.
LEMMA TakenBytes ==
    ASSUME NEW bytes \in Seq(Byte), NEW n \in 0 .. Len(bytes)
    PROVE  /\ SubSeq(bytes, 1, n) \in Seq(Byte) /\ Len(SubSeq(bytes, 1, n)) = n
           /\ \A i \in 1 .. n : SubSeq(bytes, 1, n)[i] = bytes[i]
           /\ SubSeq(bytes, n + 1, Len(bytes)) \in Seq(Byte)
           /\ Len(SubSeq(bytes, n + 1, Len(bytes))) = Len(bytes) - n
           /\ \A i \in 1 .. Len(bytes) - n : SubSeq(bytes, n + 1, Len(bytes))[i] = bytes[n + i]
<1>1. Len(bytes) \in Nat
  BY LenProperties
<1>2. SubSeq(bytes, 1, n) \in Seq(Byte) /\ SubSeq(bytes, n + 1, Len(bytes)) \in Seq(Byte)
  BY <1>1
<1>3. Len(SubSeq(bytes, 1, n)) = n /\ \A i \in 1 .. n : SubSeq(bytes, 1, n)[i] = bytes[i]
  BY <1>1
<1>4. /\ Len(SubSeq(bytes, n + 1, Len(bytes))) = Len(bytes) - n
      /\ \A i \in 1 .. Len(bytes) - n : SubSeq(bytes, n + 1, Len(bytes))[i] = bytes[n + i]
  BY <1>1
<1>. QED  BY <1>2, <1>3, <1>4

\* Every step of a call leaves both calls within their buffers.
LEMMA HandleTypes ==
    ASSUME TypeOK, NEW isHandler \in BOOLEAN, handle_ctrl_msg(isHandler)
    PROVE  TypeOK'
<1>. DEFINE c == Running(isHandler)
<1>1. CallOK(direct) /\ CallOK(handler)
  BY DEF TypeOK, CallOK
<1>2. CallOK(c)
  BY <1>1, RunningOK
<1>3. \A new : CallOK(new) /\ Becomes(isHandler, new) => CallOK(direct') /\ CallOK(handler')
  BY <1>1, BecomesOK
<1>. SUFFICES /\ stream' \in Seq(Byte) /\ acted' \in Seq(Nat) /\ exited' \in BOOLEAN
              /\ UNCHANGED <<written, receiving, pending>>
              /\ CallOK(direct') /\ CallOK(handler')
  BY DEF TypeOK, CallOK
<1>4. CASE poll(isHandler)
  <2>1. PICK new \in {Off, [Poll EXCEPT !.pc = "size"]} : Becomes(isHandler, new)
    BY <1>4 DEF poll
  <2>. QED  BY <1>3, <1>4, <2>1, CallsOK DEF poll, TypeOK
<1>5. CASE read_size(isHandler)
  <2>. DEFINE byte == Head(stream)
              size == size_of(c.size)
              more == [c EXCEPT !.size = Append(@, byte)]
              new == IF byte # Bar
                       THEN IF Len(c.size) + 1 = SizeLen THEN Off ELSE more
                     ELSE IF size = 0 THEN Off
                     ELSE [Poll EXCEPT !.pc = "select", !.want = size]
  <2>1. byte \in Byte /\ Tail(stream) \in Seq(Byte)
    BY <1>5, HeadTailProperties DEF read_size, TypeOK
  <2>2. size \in Nat
    BY <1>2, NumberOf DEF CallOK, Call, size_of
  <2>3. byte # Bar /\ Len(c.size) + 1 # SizeLen => CallOK(more)
    <3>. HIDE DEF c
    <3>1. SUFFICES ASSUME byte # Bar, Len(c.size) + 1 # SizeLen PROVE CallOK(more)
      OBVIOUS
    <3>2. byte \in 0 .. 9
      BY <2>1, <3>1 DEF Byte
    <3>. HIDE DEF byte
    <3>3. c.size \in Seq(0 .. 9)
      BY <1>2 DEF CallOK, Call
    <3>4. Append(c.size, byte) \in Seq(0 .. 9) /\ Len(Append(c.size, byte)) = Len(c.size) + 1
          /\ Len(c.size) \in Nat
      BY <3>2, <3>3
    <3>5. Len(c.size) + 1 < SizeLen
      BY <1>2, <3>1, <3>4 DEF CallOK, SizeLen
    <3>. QED  BY <1>2, <3>4, <3>5 DEF CallOK, Call
  <2>4. CallOK(new)
    <3>. HIDE DEF c, byte, size, more
    <3>. QED  BY <2>2, <2>3, CallsOK
  <2>5. Becomes(isHandler, new) /\ stream' = Tail(stream)
    BY <1>5 DEF read_size
  <2>. HIDE DEF new
  <2>6. CallOK(direct') /\ CallOK(handler')
    BY <1>3, <2>4, <2>5
  <2>. QED  BY <1>5, <2>1, <2>5, <2>6 DEF read_size, TypeOK
<1>6. CASE select_body(isHandler)
  <2>1. CASE /\ Len(c.body) < c.want
             /\ Becomes(isHandler, [c EXCEPT !.pc = "read"]) /\ UNCHANGED <<acted, exited>>
    <3>1. CallOK([c EXCEPT !.pc = "read"])
      <4>. HIDE DEF c
      <4>. QED  BY <1>2, <2>1 DEF CallOK, Call
    <3>. QED  BY <1>3, <1>6, <2>1, <3>1 DEF select_body, TypeOK
  <2>2. CASE act_upon(isHandler, c.body)
    <3>1. CallOK(direct') /\ CallOK(handler')
      BY <1>3, <2>2, CallsOK DEF act_upon, next_message
    <3>2. acted' \in Seq(Nat) /\ exited' \in BOOLEAN
      <4>1. acted \in Seq(Nat) /\ exited \in BOOLEAN /\ CTRL_PAUSE \in Nat /\ CTRL_STOP \in Nat
        BY DEF TypeOK, CTRL_PAUSE, CTRL_STOP
      <4>2. \/ UNCHANGED <<acted, exited>>
            \/ \E type : /\ acted' = IF type \in {CTRL_PAUSE, CTRL_STOP} THEN Append(acted, type)
                                     ELSE acted
                         /\ exited' = (type = CTRL_STOP)
        BY <2>2 DEF act_upon
      <4>3. ASSUME NEW type, type \in {CTRL_PAUSE, CTRL_STOP} PROVE Append(acted, type) \in Seq(Nat)
        <5>1. type \in Nat
          BY <4>1, <4>3
        <5>. QED  BY <4>1, <5>1
      <4>. QED  BY <4>1, <4>2, <4>3
    <3>. QED  BY <1>6, <3>1, <3>2 DEF select_body, TypeOK
  <2>. QED  BY <1>6, <2>1, <2>2 DEF select_body
<1>7. CASE read_body(isHandler)
  <2>. DEFINE n == now_read(c)
              new == [c EXCEPT !.pc = "select", !.body = @ \o SubSeq(stream, 1, n)]
  <2>1. /\ Running(isHandler).pc = "read"
        /\ Becomes(isHandler, new) /\ stream' = SubSeq(stream, n + 1, Len(stream))
    BY <1>7 DEF read_body
  <2>2. /\ c.body \in Seq(Byte) /\ c.want \in Nat /\ Len(c.body) \in Nat
        /\ Len(c.body) <= c.want /\ Len(stream) \in Nat /\ stream \in Seq(Byte)
    BY <1>2, <2>1, LenProperties DEF CallOK, Call, TypeOK
  <2>3. n \in 0 .. Len(stream) /\ Len(c.body) + n <= c.want
    <3>. HIDE DEF c
    <3>. QED  BY <2>2 DEF now_read
  <2>. HIDE DEF n
  <2>4. /\ SubSeq(stream, 1, n) \in Seq(Byte) /\ Len(SubSeq(stream, 1, n)) = n
        /\ SubSeq(stream, n + 1, Len(stream)) \in Seq(Byte)
    BY <2>2, <2>3, TakenBytes
  <2>. DEFINE taken == SubSeq(stream, 1, n)
  <2>5. c.body \o taken \in Seq(Byte) /\ Len(c.body \o taken) = Len(c.body) + n
    <3>1. taken \in Seq(Byte) /\ Len(taken) = n
      BY <2>4
    <3>. HIDE DEF taken, c
    <3>. QED  BY <2>2, <3>1, ConcatProperties
  <2>. HIDE DEF taken
  <2>6. CallOK(new)
    <3>1. new = [c EXCEPT !.pc = "select", !.body = c.body \o taken]
      BY DEF taken
    <3>. HIDE DEF c, new
    <3>. QED  BY <1>2, <2>3, <2>5, <3>1 DEF CallOK, Call
  <2>. HIDE DEF new
  <2>7. CallOK(direct') /\ CallOK(handler')
    BY <1>3, <2>1, <2>6
  <2>. QED  BY <1>7, <2>1, <2>4, <2>7 DEF read_body, TypeOK
<1>. QED  BY <1>4, <1>5, <1>6, <1>7 DEF handle_ctrl_msg

\* No buffer is overrun, whoever reads and whatever is interrupted.
THEOREM SocketTypesHold == Spec => []TypeOK
<1>1. Init => TypeOK
  <2>1. <<>> \in Seq(Byte) /\ <<>> \in Seq(Commands) /\ <<>> \in Seq(Nat)
    OBVIOUS
  <2>. QED  BY <2>1, CallsOK DEF Init, TypeOK, CallOK
<1>2. TypeOK /\ [Next]_vars => TypeOK'
  <2>. SUFFICES ASSUME TypeOK, [Next]_vars PROVE TypeOK'
    OBVIOUS
  <2>1. ASSUME NEW type \in Commands, comm_send_ctrl_msg(type) PROVE TypeOK'
    <3>1. stream' \in Seq(Byte) /\ written' \in Seq(Commands)
      BY <2>1, EncodedType DEF comm_send_ctrl_msg, TypeOK
    <3>. QED  BY <2>1, <3>1 DEF comm_send_ctrl_msg, reading, TypeOK
  <2>2. CASE set_receive_sigio
    BY <2>2, CallsOK DEF set_receive_sigio, TypeOK, CallOK
  <2>3. CASE signal_io
    BY <2>3, CallsOK DEF signal_io, TypeOK, CallOK
  <2>4. ASSUME NEW isHandler \in BOOLEAN, handle_ctrl_msg(isHandler) PROVE TypeOK'
    BY <2>4, HandleTypes
  <2>5. CASE UNCHANGED vars
    BY <2>5 DEF vars, reading, TypeOK
  <2>. QED  BY <2>1, <2>2, <2>3, <2>4, <2>5 DEF Next
<1>. QED  BY <1>1, <1>2, PTL DEF Spec

-----------------------------------------------------------------------------
(***************************************************************************)
(* One reader at a time.  all are the bytes ever written, off[k] of them   *)
(* for the first k commands; pos of them have been read.                   *)
(***************************************************************************)
Laid(off, all) ==
    /\ all \in Seq(Byte) /\ off \in [0 .. Len(written) -> Nat]
    /\ off[0] = 0 /\ off[Len(written)] = Len(all)
    /\ \A k \in 0 .. Len(written) : off[k] <= Len(all)
    /\ \A k \in 1 .. Len(written) :
         /\ off[k] = off[k - 1] + Len(Encoded(written[k]))
         /\ \A i \in 1 .. Len(Encoded(written[k])) : all[off[k - 1] + i] = Encoded(written[k])[i]

Remains(all, pos) ==
    /\ pos \in Nat /\ Len(stream) + pos = Len(all)
    /\ \A i \in 1 .. Len(stream) : stream[i] = all[pos + i]

ActedSoFar ==
    Len(acted) <= Len(written) /\ \A i \in 1 .. Len(acted) : acted[i] = written[i]

\* The call that reads, if one does.
Reader == IF handler.pc = "off" THEN direct ELSE handler

\* What call c has of the command after those acted upon.
At(off, pos, c) ==
    \/ c.pc \in {"off", "poll"} /\ pos = off[Len(acted)]
    \/ c.pc = "size" /\ c.size = <<>> /\ pos = off[Len(acted)]
    \/ /\ Len(acted) < Len(written)
       /\ c.pc = "size" /\ Len(c.size) = 1
       /\ c.size[1] = Encoded(written[Len(acted) + 1])[1]
       /\ pos = off[Len(acted)] + 1
    \/ /\ Len(acted) < Len(written)
       /\ c.pc \in {"select", "read"}
       /\ c.want = Len(Encoded(written[Len(acted) + 1])) - 2
       /\ pos = off[Len(acted)] + 2 + Len(c.body)
       /\ c.pc = "read" => Len(c.body) < c.want
       /\ \A i \in 1 .. Len(c.body) : c.body[i] = Encoded(written[Len(acted) + 1])[2 + i]

Whole(off, all, pos) ==
    Laid(off, all) /\ Remains(all, pos) /\ ActedSoFar /\ At(off, pos, Reader)

Intact == \E off, all, pos : Whole(off, all, pos)

\* Nothing reads before the handler is installed.
Waiting == ~receiving => direct.pc = "off" /\ handler.pc = "off" /\ ~pending

\* The command after those acted upon.
LEMMA NextCommand ==
    ASSUME TypeOK, Len(acted) < Len(written)
    PROVE  LET m == Encoded(written[Len(acted) + 1])
           IN  /\ Len(acted) + 1 \in 1 .. Len(written) /\ Len(acted) \in 0 .. Len(written)
               /\ written[Len(acted) + 1] \in {CTRL_PAUSE, CTRL_STOP}
               /\ m \in Seq(Byte) /\ Len(m) \in {4, 5}
               /\ m[1] = Len(m) - 2 /\ m[2] = Bar /\ m[Len(m)] = Bar
<1>1. Len(acted) \in Nat /\ Len(written) \in Nat
  BY LenProperties DEF TypeOK
<1>2. Len(acted) + 1 \in 1 .. Len(written) /\ Len(acted) \in 0 .. Len(written)
  BY <1>1
<1>3. written[Len(acted) + 1] \in Commands
  BY <1>2, ElementOfSeq DEF TypeOK
<1>4. written[Len(acted) + 1] \in {CTRL_PAUSE, CTRL_STOP}
  BY <1>3, EncodedType
<1>. QED  BY <1>2, <1>4, Messages

\* A message was written as a whole: its rest is in the socket.
LEMMA RestIsThere ==
    ASSUME TypeOK, NEW off, NEW all, NEW pos, Laid(off, all), Remains(all, pos),
           Len(acted) < Len(written), NEW k \in Nat,
           k <= Len(Encoded(written[Len(acted) + 1])), pos = off[Len(acted)] + k
    PROVE  LET m == Encoded(written[Len(acted) + 1])
           IN  /\ Len(stream) >= Len(m) - k
               /\ \A i \in 1 .. Len(m) - k : stream[i] = m[k + i]
<1>. DEFINE n == Len(acted)
            m == Encoded(written[n + 1])
<1>1. n \in Nat /\ n + 1 \in 1 .. Len(written) /\ n + 1 \in 0 .. Len(written)
      /\ n \in 0 .. Len(written) /\ (n + 1) - 1 = n /\ Len(m) \in {4, 5} /\ Len(stream) \in Nat
  <2>1. n \in Nat /\ Len(written) \in Nat /\ Len(stream) \in Nat
    BY LenProperties DEF TypeOK
  <2>. QED  BY <2>1, NextCommand
<1>. HIDE DEF n, m
<1>2. off[n] \in Nat /\ off[n + 1] = off[n] + Len(m) /\ off[n + 1] <= Len(all)
      /\ \A i \in 1 .. Len(m) : all[off[n] + i] = m[i]
  <2>1. /\ off[n + 1] = off[(n + 1) - 1] + Len(Encoded(written[n + 1]))
        /\ \A i \in 1 .. Len(Encoded(written[n + 1])) :
              all[off[(n + 1) - 1] + i] = Encoded(written[n + 1])[i]
    BY <1>1 DEF Laid
  <2>2. off[n] \in Nat /\ off[n + 1] <= Len(all)
    BY <1>1 DEF Laid
  <2>. QED  BY <1>1, <2>1, <2>2 DEF m
<1>3. pos = off[n] + k /\ k <= Len(m)
  BY DEF n, m
<1>4. Len(all) \in Nat
  BY LenProperties DEF Laid
<1>5. Len(stream) + pos = Len(all) /\ \A i \in 1 .. Len(stream) : stream[i] = all[pos + i]
  BY DEF Remains
<1>6. Len(stream) >= Len(m) - k
  <2>1. ASSUME NEW l \in Nat, NEW s \in Nat, NEW a \in Nat, NEW o \in Nat,
               s + (o + k) = a, o + l <= a
        PROVE  s >= l - k
    BY <2>1
  <2>2. Len(m) \in Nat /\ Len(stream) + (off[n] + k) = Len(all) /\ off[n] + Len(m) <= Len(all)
    <3>1. Len(m) \in Nat
      BY <1>1
    <3>2. Len(stream) + (off[n] + k) = Len(all)
      BY <1>3, <1>5, Zenon
    <3>3. off[n] + Len(m) <= Len(all)
      BY <1>2, Zenon
    <3>. QED  BY <3>1, <3>2, <3>3
  <2>. QED  BY <1>1, <1>2, <1>4, <2>1, <2>2
<1>7. ASSUME NEW i \in 1 .. Len(m) - k PROVE stream[i] = m[k + i]
  <2>1. i \in 1 .. Len(stream) /\ k + i \in 1 .. Len(m) /\ pos + i = off[n] + (k + i)
    <3>1. ASSUME NEW l \in Nat, NEW s \in Nat, NEW j \in 1 .. l - k, s >= l - k
          PROVE  j \in 1 .. s /\ k + j \in 1 .. l
      BY <3>1
    <3>2. Len(m) \in Nat
      BY <1>1
    <3>3. i \in 1 .. Len(stream) /\ k + i \in 1 .. Len(m) /\ i \in Nat
      BY <1>1, <1>6, <3>1, <3>2
    <3>4. ASSUME NEW o \in Nat, NEW j \in Nat PROVE (o + k) + j = o + (k + j)
      OBVIOUS
    <3>5. pos + i = off[n] + (k + i)
      BY <1>2, <1>3, <3>3, <3>4
    <3>. QED  BY <3>3, <3>5
  <2>2. stream[i] = all[pos + i]
    BY <1>5, <2>1
  <2>. QED  BY <1>2, <2>1, <2>2
<1>. QED  BY <1>6, <1>7 DEF m, n

\* Once every command is acted upon nothing is there.
LEMMA NothingLeft ==
    ASSUME TypeOK, NEW off, NEW all, NEW pos, Laid(off, all), Remains(all, pos),
           ActedSoFar, pos = off[Len(acted)], stream # <<>>
    PROVE  Len(acted) < Len(written)
<1>1. Len(acted) \in Nat /\ Len(written) \in Nat /\ Len(stream) \in Nat /\ Len(stream) # 0
  BY LenProperties, EmptySeq DEF TypeOK
<1>2. Len(acted) = Len(written) => Len(stream) = 0
  BY <1>1 DEF Laid, Remains
<1>. QED  BY <1>1, <1>2 DEF ActedSoFar

\* The bytes taken from the socket.
LEMMA Advance ==
    ASSUME TypeOK, NEW off, NEW all, NEW pos, Laid(off, all), Remains(all, pos),
           NEW n \in 0 .. Len(stream), stream' = SubSeq(stream, n + 1, Len(stream))
    PROVE  Remains(all, pos + n)'
<1>1. /\ Len(stream) \in Nat /\ Len(stream') = Len(stream) - n
      /\ \A i \in 1 .. Len(stream) - n : stream'[i] = stream[n + i]
  BY TakenBytes, LenProperties DEF TypeOK
<1>2. pos + n \in Nat /\ Len(stream') + (pos + n) = Len(all)
  <2>1. pos \in Nat /\ Len(stream) + pos = Len(all) /\ n \in Nat
    BY <1>1 DEF Remains
  <2>2. ASSUME NEW s \in Nat, s + pos = Len(all), n \in 0 .. s PROVE (s - n) + (pos + n) = Len(all)
    BY <2>1, <2>2
  <2>3. (Len(stream) - n) + (pos + n) = Len(all) /\ pos + n \in Nat
    BY <1>1, <2>1, <2>2
  <2>. QED  BY <1>1, <2>3
<1>3. ASSUME NEW i \in 1 .. Len(stream') PROVE stream'[i] = all[(pos + n) + i]
  <2>1. n + i \in 1 .. Len(stream) /\ pos + (n + i) = (pos + n) + i
    BY <1>1 DEF Remains
  <2>2. stream'[i] = stream[n + i] /\ stream[n + i] = all[pos + (n + i)]
    BY <1>1, <2>1 DEF Remains
  <2>. QED  BY <2>1, <2>2
<1>. QED  BY <1>2, <1>3 DEF Remains

\* The one call that is not off is the one that goes on.
LEMMA ReaderNext ==
    ASSUME ~Nested, NEW isHandler \in BOOLEAN, NEW new, Becomes(isHandler, new),
           Running(isHandler).pc # "off"
    PROVE  /\ Reader = Running(isHandler)
           /\ Reader' = new \/ (new.pc = "off" /\ Reader'.pc = "off")
<1>1. Off.pc = "off"
  BY CallsOK
<1>2. CASE isHandler
  BY <1>2 DEF Nested, Becomes, Running, Reader
<1>3. CASE ~isHandler
  BY <1>1, <1>3 DEF Nested, Becomes, Running, Reader
<1>. QED  BY <1>2, <1>3

\* Bytes that are digits.
LEMMA SeqOfDigits ==
    ASSUME NEW d \in Seq(Byte), \A i \in 1 .. Len(d) : d[i] \in 0 .. 9
    PROVE  d \in Seq(0 .. 9)
<1>1. Len(d) \in Nat /\ d \in [1 .. Len(d) -> Byte]
  BY LenProperties
<1>2. d \in [1 .. Len(d) -> 0 .. 9]
  BY <1>1
<1>. QED  BY <1>1, <1>2, SeqDef

\* Places in short sequences.
LEMMA Places ==
    ASSUME NEW n
    PROVE  /\ n = 2 => 1 \in 1 .. n /\ 2 \in 1 .. n /\ 1 \in 0 .. n
           /\ n = 3 => 1 \in 1 .. n /\ 2 \in 1 .. n /\ 3 \in 1 .. n /\ 2 \in 0 .. n
           /\ 1 \in 1 .. 1 /\ 1 \in 1 .. 2 /\ 2 \in 1 .. 2
OBVIOUS

\* The body of a message is taken for the command it is.
LEMMA BodyIsType ==
    ASSUME NEW type \in {CTRL_PAUSE, CTRL_STOP}, NEW body \in Seq(Byte),
           Len(body) = Len(Encoded(type)) - 2,
           \A i \in 1 .. Len(body) : body[i] = Encoded(type)[2 + i]
    PROVE  LET bars == {i \in DOMAIN body : body[i] = Bar}
           IN  /\ bars # {}
               /\ Number(SubSeq(body, 1, (CHOOSE i \in bars : \A j \in bars : i <= j) - 1)) = type
<1>. DEFINE bars == {i \in DOMAIN body : body[i] = Bar}
            least == CHOOSE i \in bars : \A j \in bars : i <= j
            digits == SubSeq(body, 1, least - 1)
<1>0. 9 # Bar /\ 0 # Bar /\ 1 # Bar /\ CTRL_PAUSE = 9 /\ CTRL_STOP = 10
  BY DEF Bar, CTRL_PAUSE, CTRL_STOP
<1>1. CASE type = CTRL_PAUSE
  <2>1. Len(body) = 2 /\ body[1] = 9 /\ body[2] = Bar
    <3>1. /\ Encoded(type)[3] = 9 /\ Encoded(type)[Len(Encoded(type))] = Bar
          /\ Len(Encoded(type)) = 4
      BY <1>1, Messages
    <3>2. Len(body) = 2
      BY <3>1
    <3>3. 1 \in 1 .. Len(body) /\ 2 \in 1 .. Len(body)
      BY <3>2, Places, Zenon
    <3>4. body[1] = Encoded(type)[2 + 1] /\ body[2] = Encoded(type)[2 + 2]
      BY <3>3, Zenon
    <3>. QED  BY <3>1, <3>2, <3>4
  <2>2. bars = {2}
    BY <1>0, <2>1
  <2>. HIDE DEF bars
  <2>3. least = 2
    BY <2>2
  <2>4. digits = SubSeq(body, 1, 1)
    <3>1. least - 1 = 1
      BY <2>3
    <3>. HIDE DEF least
    <3>. QED  BY <3>1
  <2>5. digits \in Seq(0 .. 9) /\ Len(digits) = 1 /\ digits[1] = 9
    <3>1. /\ SubSeq(body, 1, 1) \in Seq(Byte) /\ Len(SubSeq(body, 1, 1)) = 1
          /\ SubSeq(body, 1, 1)[1] = 9
      <4>1. 1 \in 0 .. Len(body)
        BY <2>1, Places, Zenon
      <4>2. /\ SubSeq(body, 1, 1) \in Seq(Byte) /\ Len(SubSeq(body, 1, 1)) = 1
            /\ \A i \in 1 .. 1 : SubSeq(body, 1, 1)[i] = body[i]
        BY <4>1, TakenBytes, Zenon
      <4>. QED  BY <2>1, <4>2, Places, Zenon
    <3>. DEFINE d == SubSeq(body, 1, 1)
    <3>. HIDE DEF d
    <3>2. d \in Seq(Byte) /\ Len(d) = 1 /\ d[1] = 9
      BY <3>1 DEF d
    <3>3. d \in Seq(0 .. 9)
      BY <3>2, SeqOfDigits
    <3>. QED  BY <2>4, <3>2, <3>3 DEF d
  <2>. HIDE DEF digits
  <2>6. Number(digits) = type
    BY <1>0, <1>1, <2>5, NumberOf
  <2>. QED  BY <2>2, <2>6 DEF digits, bars
<1>2. CASE type = CTRL_STOP
  <2>1. Len(body) = 3 /\ body[1] = 1 /\ body[2] = 0 /\ body[3] = Bar
    <3>1. /\ Encoded(type)[3] = 1 /\ Encoded(type)[4] = 0
          /\ Encoded(type)[Len(Encoded(type))] = Bar /\ Len(Encoded(type)) = 5
      BY <1>0, <1>2, Messages
    <3>2. Len(body) = 3
      BY <3>1
    <3>3. 1 \in 1 .. Len(body) /\ 2 \in 1 .. Len(body) /\ 3 \in 1 .. Len(body)
      BY <3>2, Places, Zenon
    <3>4. /\ body[1] = Encoded(type)[2 + 1] /\ body[2] = Encoded(type)[2 + 2]
          /\ body[3] = Encoded(type)[2 + 3]
      BY <3>3, Zenon
    <3>. QED  BY <3>1, <3>2, <3>4
  <2>2. bars = {3}
    BY <1>0, <2>1
  <2>. HIDE DEF bars
  <2>3. least = 3
    BY <2>2
  <2>4. digits = SubSeq(body, 1, 2)
    <3>1. least - 1 = 2
      BY <2>3
    <3>. HIDE DEF least
    <3>. QED  BY <3>1
  <2>5. digits \in Seq(0 .. 9) /\ Len(digits) = 2 /\ digits[1] = 1 /\ digits[2] = 0
    <3>1. /\ SubSeq(body, 1, 2) \in Seq(Byte) /\ Len(SubSeq(body, 1, 2)) = 2
          /\ SubSeq(body, 1, 2)[1] = 1 /\ SubSeq(body, 1, 2)[2] = 0
      <4>1. 2 \in 0 .. Len(body)
        BY <2>1, Places, Zenon
      <4>2. /\ SubSeq(body, 1, 2) \in Seq(Byte) /\ Len(SubSeq(body, 1, 2)) = 2
            /\ \A i \in 1 .. 2 : SubSeq(body, 1, 2)[i] = body[i]
        BY <4>1, TakenBytes, Zenon
      <4>. QED  BY <2>1, <4>2, Places, Zenon
    <3>. DEFINE d == SubSeq(body, 1, 2)
    <3>. HIDE DEF d
    <3>2. d \in Seq(Byte) /\ Len(d) = 2 /\ d[1] = 1 /\ d[2] = 0
      BY <3>1 DEF d
    <3>3. \A i \in 1 .. Len(d) : d[i] \in 0 .. 9
      BY <3>2
    <3>4. d \in Seq(0 .. 9)
      BY <3>2, <3>3, SeqOfDigits
    <3>. QED  BY <2>4, <3>2, <3>4 DEF d
  <2>. HIDE DEF digits
  <2>6. Number(digits) = type
    BY <1>0, <1>2, <2>5, NumberOf
  <2>. QED  BY <2>2, <2>6 DEF digits, bars
<1>. QED  BY <1>1, <1>2

-----------------------------------------------------------------------------
\* A call that goes on with the same commands written and acted upon.
LEMMA ReadOn ==
    ASSUME ~Nested, NEW off, NEW all, NEW pos, Laid(off, all), Remains(all, pos)',
           ActedSoFar, UNCHANGED <<written, acted>>,
           NEW isHandler \in BOOLEAN, NEW new, Becomes(isHandler, new),
           Running(isHandler).pc # "off", At(off, pos, new)
    PROVE  Intact'
<1>1. Laid(off, all)' /\ ActedSoFar'
  BY DEF Laid, ActedSoFar
<1>2. Reader' = new \/ (new.pc = "off" /\ Reader'.pc = "off")
  BY ReaderNext
<1>3. At(off, pos, Reader)'
  <2>1. CASE Reader' = new
    BY <2>1 DEF At
  <2>2. CASE new.pc = "off" /\ Reader'.pc = "off"
    BY <2>2 DEF At
  <2>. QED  BY <1>2, <2>1, <2>2
<1>4. Whole(off, all, pos)'
  BY <1>1, <1>3 DEF Whole
<1>. QED  BY <1>4 DEF Intact

\* Whether poll() sees the next command, nothing, or a signal: what comes first
\* after it is the size of the next command.
LEMMA PollKeeps ==
    ASSUME TypeOK, ~Nested, NEW off, NEW all, NEW pos, Whole(off, all, pos),
           NEW isHandler \in BOOLEAN, poll(isHandler)
    PROVE  Intact'
<1>. DEFINE c == Running(isHandler)
<1>0. PICK new \in {Off, [Poll EXCEPT !.pc = "size"]} : Becomes(isHandler, new)
  BY DEF poll
<1>1. c.pc = "poll" /\ UNCHANGED <<stream, written, acted>>
  BY DEF poll
<1>2. c = Reader
  BY <1>0, <1>1, ReaderNext
<1>3. pos = off[Len(acted)]
  BY <1>1, <1>2 DEF Whole, At
<1>4. Laid(off, all) /\ Remains(all, pos) /\ ActedSoFar /\ Remains(all, pos)'
  BY <1>1 DEF Whole, Remains
<1>5. At(off, pos, new)
  <2>1. CASE new = Off
    BY <1>3, <2>1, CallsOK DEF At
  <2>2. CASE new = [Poll EXCEPT !.pc = "size"]
    <3>1. new.pc = "size" /\ new.size = <<>>
      BY <2>2 DEF Poll, Off
    <3>. QED  BY <1>3, <3>1 DEF At
  <2>. QED  BY <2>1, <2>2
<1>. QED  BY <1>0, <1>1, <1>4, <1>5, ReadOn

\* The size is one digit and a bar.
LEMMA SizeKeeps ==
    ASSUME TypeOK, ~Nested, NEW off, NEW all, NEW pos, Whole(off, all, pos),
           NEW isHandler \in BOOLEAN, read_size(isHandler)
    PROVE  Intact'
<1>. DEFINE c == Running(isHandler)
            m == Encoded(written[Len(acted) + 1])
            byte == Head(stream)
            size == size_of(c.size)
            new == IF byte # Bar
                     THEN IF Len(c.size) + 1 = SizeLen THEN Off
                          ELSE [c EXCEPT !.size = Append(@, byte)]
                   ELSE IF size = 0 THEN Off
                   ELSE [Poll EXCEPT !.pc = "select", !.want = size]
<1>1. /\ c.pc = "size" /\ Becomes(isHandler, new) /\ UNCHANGED <<written, acted>>
      /\ stream # <<>> /\ stream' = Tail(stream)
  BY DEF read_size
<1>2. c = Reader
  <2>. HIDE DEF new
  <2>. QED  BY <1>1, ReaderNext
<1>3. Laid(off, all) /\ Remains(all, pos) /\ ActedSoFar /\ At(off, pos, c)
  BY <1>2 DEF Whole
<1>4. Len(acted) < Len(written) /\ off[Len(acted)] \in Nat
  <2>1. Len(acted) < Len(written)
    <3>. HIDE DEF c, new
    <3>1. c.size = <<>> /\ pos = off[Len(acted)] => Len(acted) < Len(written)
      BY <1>1, <1>3, NothingLeft
    <3>. QED  BY <1>1, <1>3, <3>1 DEF At
  <2>2. Len(acted) \in 0 .. Len(written)
    BY <2>1, NextCommand
  <2>. QED  BY <1>3, <2>1, <2>2 DEF Laid
<1>5. /\ m \in Seq(Byte) /\ Len(m) \in {4, 5}
      /\ m[1] = Len(m) - 2 /\ m[2] = Bar
  BY <1>4, NextCommand
<1>6. byte = stream[1] /\ Remains(all, pos + 1)'
  <2>1. Len(stream) \in Nat /\ Len(stream) # 0 /\ byte = stream[1]
    BY <1>1, LenProperties, EmptySeq DEF TypeOK
  <2>2. 1 \in 0 .. Len(stream)
    BY <2>1
  <2>3. stream' = SubSeq(stream, 1 + 1, Len(stream))
    BY <1>1, <2>1 DEF TypeOK
  <2>. HIDE DEF byte
  <2>. QED  BY <1>3, <2>1, <2>2, <2>3, Advance
<1>7. CASE c.size = <<>> /\ pos = off[Len(acted)]
  <2>1. byte = m[1]
    <3>1. pos = off[Len(acted)] + 0 /\ 0 <= Len(m)
      BY <1>4, <1>5, <1>7
    <3>. HIDE DEF byte, c, new
    <3>2. \A i \in 1 .. Len(m) - 0 : stream[i] = m[0 + i]
      BY <1>3, <1>4, <3>1, RestIsThere
    <3>3. 1 \in 1 .. Len(m) - 0
      BY <1>5
    <3>. QED  BY <1>6, <3>2, <3>3
  <2>2. m[1] # Bar /\ m[1] \in 0 .. 9
    <3>1. Len(m) \in {4, 5} /\ m[1] = Len(m) - 2
      BY <1>5
    <3>. HIDE DEF m
    <3>2. m[1] = 2 \/ m[1] = 3
      BY <3>1
    <3>. QED  BY <3>2 DEF Bar
  <2>3. new = [c EXCEPT !.size = Append(@, byte)]
    BY <1>7, <2>1, <2>2 DEF SizeLen
  <2>4. c \in Call /\ Append(<<>>, byte) = <<byte>>
    <3>1. CallOK(direct) /\ CallOK(handler)
      BY DEF TypeOK, CallOK
    <3>2. CallOK(c)
      BY <3>1, RunningOK
    <3>. QED  BY <3>2 DEF CallOK
  <2>. HIDE DEF new, c, m, byte
  <2>5. new.pc = "size" /\ new.size = <<byte>>
    BY <1>1, <1>7, <2>3, <2>4 DEF Call
  <2>6. Len(new.size) = 1 /\ new.size[1] = m[1]
    BY <2>1, <2>5
  <2>7. At(off, pos + 1, new)
    BY <1>4, <1>7, <2>5, <2>6 DEF At, m
  <2>8. Running(isHandler).pc # "off"
    BY <1>1 DEF c
  <2>. QED  BY <1>1, <1>3, <1>6, <2>7, <2>8, ReadOn
<1>8. CASE Len(c.size) = 1 /\ c.size[1] = m[1] /\ pos = off[Len(acted)] + 1
  <2>1. byte = Bar
    <3>1. pos = off[Len(acted)] + 1 /\ 1 <= Len(m)
      BY <1>4, <1>5, <1>8
    <3>. HIDE DEF byte, c, new
    <3>2. \A i \in 1 .. Len(m) - 1 : stream[i] = m[1 + i]
      BY <1>3, <1>4, <3>1, RestIsThere
    <3>3. 1 \in 1 .. Len(m) - 1
      BY <1>5
    <3>. QED  BY <1>5, <1>6, <3>2, <3>3
  <2>2. size = Len(m) - 2
    <3>1. CallOK(direct) /\ CallOK(handler)
      BY DEF TypeOK, CallOK
    <3>2. CallOK(c)
      BY <3>1, RunningOK
    <3>3. c.size \in Seq(0 .. 9)
      BY <3>2 DEF CallOK, Call
    <3>. HIDE DEF c
    <3>4. Number(c.size) = c.size[1]
      BY <1>8, <3>3, NumberOf
    <3>. QED  BY <1>5, <1>8, <3>4 DEF size_of
  <2>3. size # 0
    <3>. HIDE DEF size, m
    <3>. QED  BY <1>5, <2>2
  <2>4. new = [Poll EXCEPT !.pc = "select", !.want = size]
    BY <2>1, <2>3
  <2>. HIDE DEF new, c, byte, size
  <2>5. new.pc = "select" /\ new.want = size /\ new.body = <<>>
    BY <2>4 DEF Poll, Off
  <2>6. Len(new.body) = 0
    BY <2>5
  <2>7. pos + 1 = off[Len(acted)] + 2 + Len(new.body)
    BY <1>4, <1>8, <2>6
  <2>8. At(off, pos + 1, new)
    BY <1>4, <2>2, <2>5, <2>6, <2>7 DEF At
  <2>9. Running(isHandler).pc # "off"
    BY <1>1 DEF c
  <2>. QED  BY <1>1, <1>3, <1>6, <2>8, <2>9, ReadOn
<1>. QED  BY <1>1, <1>3, <1>7, <1>8 DEF At

\* The body is looked for once its size is known.  A message that is whole is
\* acted upon as the command it is.
LEMMA SelectKeeps ==
    ASSUME TypeOK, ~Nested, NEW off, NEW all, NEW pos, Whole(off, all, pos),
           NEW isHandler \in BOOLEAN, select_body(isHandler)
    PROVE  Intact'
<1>. DEFINE c == Running(isHandler)
            n == Len(acted)
            type == written[n + 1]
            m == Encoded(type)
            bars == {i \in DOMAIN c.body : c.body[i] = Bar}
            told == Number(SubSeq(c.body, 1, (CHOOSE i \in bars : \A j \in bars : i <= j) - 1))
<1>1. c.pc = "select" /\ UNCHANGED <<stream, written>>
  BY DEF select_body
<1>2. \E new : Becomes(isHandler, new)
  BY DEF select_body, act_upon
<1>3. c = Reader
  BY <1>1, <1>2, ReaderNext
<1>4. Laid(off, all) /\ Remains(all, pos) /\ Remains(all, pos)' /\ ActedSoFar /\ At(off, pos, c)
  BY <1>1, <1>3 DEF Whole, Remains
<1>5. /\ n < Len(written) /\ c.want = Len(m) - 2
      /\ pos = off[n] + 2 + Len(c.body)
      /\ \A i \in 1 .. Len(c.body) : c.body[i] = m[2 + i]
  BY <1>1, <1>4 DEF At
<1>6. /\ m \in Seq(Byte) /\ Len(m) \in {4, 5} /\ type \in {CTRL_PAUSE, CTRL_STOP}
      /\ n + 1 \in 1 .. Len(written) /\ n \in 0 .. Len(written)
  BY <1>5, NextCommand
<1>7. c.body \in Seq(Byte) /\ Len(c.body) \in Nat /\ Len(c.body) <= c.want /\ c \in Call
  <2>1. CallOK(direct) /\ CallOK(handler)
    BY DEF TypeOK, CallOK
  <2>2. CallOK(c)
    BY <2>1, RunningOK
  <2>3. c.body \in Seq(Byte)
    BY <2>2 DEF CallOK, Call
  <2>. HIDE DEF c
  <2>. QED  BY <1>1, <2>2, <2>3, LenProperties DEF CallOK
<1>8. Running(isHandler).pc # "off"
  BY <1>1
<1>9. CASE Len(c.body) < c.want
  <2>. DEFINE k == 2 + Len(c.body)
  <2>1. k \in Nat /\ k <= Len(m) /\ pos = off[n] + k /\ Len(m) - k > 0 /\ off[n] \in Nat
    <3>1. off[n] \in Nat
      BY <1>4, <1>6 DEF Laid
    <3>2. ASSUME NEW b \in Nat, NEW l \in Nat, NEW o \in Nat, b < l - 2
          PROVE  2 + b <= l /\ o + 2 + b = o + (2 + b) /\ l - (2 + b) > 0 /\ 2 + b \in Nat
      BY <3>2
    <3>3. Len(c.body) < Len(m) - 2 /\ Len(m) \in Nat
      BY <1>5, <1>6, <1>9
    <3>. HIDE DEF c, m, n
    <3>. QED  BY <1>5, <1>7, <3>1, <3>2, <3>3
  <2>2. stream # <<>>
    <3>. HIDE DEF k
    <3>1. Len(stream) >= Len(m) - k
      BY <1>4, <1>5, <2>1, RestIsThere
    <3>2. Len(<<>>) = 0 /\ Len(m) \in Nat
      BY <1>6
    <3>. HIDE DEF m
    <3>. QED  BY <2>1, <3>1, <3>2
  <2>. DEFINE new == [c EXCEPT !.pc = "read"]
  <2>3. Becomes(isHandler, new) /\ acted' = acted
    BY <1>9, <2>2 DEF select_body, is_read_available
  <2>4. new.pc = "read" /\ new.want = c.want /\ new.body = c.body
    <3>. HIDE DEF c
    <3>. QED  BY <1>7 DEF Call
  <2>. HIDE DEF new, c
  <2>5. At(off, pos, new)
    BY <1>5, <1>9, <2>4 DEF At, m, type, n
  <2>. QED  BY <1>1, <1>4, <1>8, <2>3, <2>5, ReadOn
<1>10. CASE ~(Len(c.body) < c.want)
  <2>1. act_upon(isHandler, c.body)
    BY <1>10 DEF select_body
  <2>2. Len(c.body) = Len(m) - 2
    BY <1>5, <1>6, <1>7, <1>10
  <2>3. bars # {} /\ told = type
    <3>. DEFINE body == c.body
    <3>1. /\ type \in {CTRL_PAUSE, CTRL_STOP} /\ body \in Seq(Byte)
          /\ Len(body) = Len(Encoded(type)) - 2
          /\ \A i \in 1 .. Len(body) : body[i] = Encoded(type)[2 + i]
      BY <1>5, <1>6, <1>7, <2>2
    <3>2. LET found == {i \in DOMAIN body : body[i] = Bar}
          IN  /\ found # {}
              /\ Number(SubSeq(body, 1, (CHOOSE i \in found : \A j \in found : i <= j) - 1)) = type
      <4>. HIDE DEF body, type
      <4>. QED  BY <3>1, BodyIsType
    <3>. QED  BY <3>2
  <2>4. Becomes(isHandler, Poll) /\ acted' = Append(acted, type)
    <3>1. /\ Becomes(isHandler, next_message)
          /\ acted' = IF told \in {CTRL_PAUSE, CTRL_STOP} THEN Append(acted, told) ELSE acted
      <4>1. bars # {}
        BY <2>3
      <4>. QED  BY <2>1, <4>1, Zenon DEF act_upon
    <3>. HIDE DEF told
    <3>. QED  BY <1>6, <2>3, <3>1 DEF next_message
  <2>5. Reader' = Poll
    <3>1. Reader' = Poll \/ Poll.pc = "off"
      BY <1>8, <2>4, ReaderNext
    <3>. QED  BY <3>1, CallsOK
  <2>6. acted \in Seq(Nat) /\ n \in Nat /\ Len(acted') = n + 1 /\ acted'[n + 1] = type
        /\ \A i \in 1 .. n : acted'[i] = acted[i]
    <3>1. acted \in Seq(Nat) /\ type \in Nat
      BY <1>6 DEF TypeOK, CTRL_PAUSE, CTRL_STOP
    <3>. HIDE DEF type
    <3>. QED  BY <2>4, <3>1, AppendProperties, LenProperties
  <2>7. ActedSoFar'
    <3>1. Len(written) \in Nat /\ n + 1 <= Len(written) /\ written' = written
      BY <1>1, <1>5, <2>6, LenProperties DEF TypeOK
    <3>2. \A i \in 1 .. n + 1 : i \in 1 .. n \/ i = n + 1
      BY <2>6
    <3>3. \A i \in 1 .. n : acted[i] = written[i]
      BY <1>4 DEF ActedSoFar
    <3>. HIDE DEF n
    <3>4. \A i \in 1 .. n + 1 : acted'[i] = written[i]
      BY <2>6, <3>2, <3>3 DEF type
    <3>. QED  BY <2>6, <3>1, <3>4 DEF ActedSoFar
  <2>8. pos = off[n + 1]
    <3>1. off[n + 1] = off[(n + 1) - 1] + Len(m) /\ off[n] \in Nat
      BY <1>4, <1>6 DEF Laid
    <3>2. ASSUME NEW o \in Nat, NEW l \in {4, 5} PROVE o + 2 + (l - 2) = o + l
      OBVIOUS
    <3>3. (n + 1) - 1 = n
      BY <2>6
    <3>. HIDE DEF m, n, c
    <3>. QED  BY <1>5, <1>6, <2>2, <3>1, <3>2, <3>3
  <2>9. At(off, pos, Reader)'
    BY <2>5, <2>6, <2>8, CallsOK DEF At
  <2>10. Laid(off, all)'
    BY <1>1, <1>4 DEF Laid
  <2>11. Whole(off, all, pos)'
    BY <1>4, <2>7, <2>9, <2>10 DEF Whole
  <2>. QED  BY <2>11 DEF Intact
<1>. QED  BY <1>9, <1>10

\* What is read of the body is what is missing of it.
LEMMA ReadKeeps ==
    ASSUME TypeOK, ~Nested, NEW off, NEW all, NEW pos, Whole(off, all, pos),
           NEW isHandler \in BOOLEAN, read_body(isHandler)
    PROVE  Intact'
<1>. DEFINE c == Running(isHandler)
            m == Encoded(written[Len(acted) + 1])
            b == Len(c.body)
            n == now_read(c)
            taken == SubSeq(stream, 1, n)
            new == [c EXCEPT !.pc = "select", !.body = @ \o taken]
<1>1. /\ c.pc = "read" /\ Becomes(isHandler, new) /\ UNCHANGED <<written, acted>>
      /\ stream' = SubSeq(stream, n + 1, Len(stream))
  BY DEF read_body
<1>2. c = Reader
  <2>. HIDE DEF new
  <2>. QED  BY <1>1, ReaderNext
<1>3. Laid(off, all) /\ Remains(all, pos) /\ ActedSoFar /\ At(off, pos, c)
  BY <1>2 DEF Whole
<1>4. /\ Len(acted) < Len(written) /\ c.want = Len(m) - 2
      /\ pos = off[Len(acted)] + 2 + b /\ b < c.want
      /\ \A i \in 1 .. b : c.body[i] = m[2 + i]
  BY <1>1, <1>3 DEF At
<1>5. Len(m) \in {4, 5} /\ Len(acted) \in 0 .. Len(written)
  BY <1>4, NextCommand
<1>6. c.body \in Seq(Byte) /\ b \in Nat /\ c \in Call /\ stream \in Seq(Byte) /\ Len(stream) \in Nat
  <2>1. CallOK(direct) /\ CallOK(handler)
    BY DEF TypeOK, CallOK
  <2>2. CallOK(c)
    BY <2>1, RunningOK
  <2>3. c.body \in Seq(Byte) /\ c \in Call
    BY <2>2 DEF CallOK, Call
  <2>. HIDE DEF c
  <2>. QED  BY <2>3, LenProperties DEF TypeOK
<1>7. off[Len(acted)] \in Nat
  BY <1>3, <1>5 DEF Laid
<1>8. ASSUME NEW l \in {4, 5}, NEW x \in Nat, NEW o \in Nat, x < l - 2
      PROVE  /\ 2 + x \in Nat /\ 2 + x <= l /\ o + 2 + x = o + (2 + x) /\ l - (2 + x) = (l - 2) - x
             /\ (l - 2) - x \in Nat
             /\ (o + 2 + x) + ((l - 2) - x) = o + 2 + (l - 2)
             /\ x + ((l - 2) - x) = l - 2
             /\ \A i \in 1 .. l - 2 : i \in 1 .. x \/ (i - x \in 1 .. (l - 2) - x /\ i = x + (i - x)
                                                       /\ (2 + x) + (i - x) = 2 + i)
  BY <1>8
<1>9. b < Len(m) - 2
  BY <1>4
<1>. HIDE DEF b
<1>10. /\ Len(stream) >= Len(m) - (2 + b)
       /\ \A i \in 1 .. Len(m) - (2 + b) : stream[i] = m[(2 + b) + i]
  <2>1. 2 + b \in Nat /\ 2 + b <= Len(m) /\ pos = off[Len(acted)] + (2 + b)
    BY <1>4, <1>5, <1>6, <1>7, <1>8, <1>9
  <2>. QED  BY <1>3, <1>4, <2>1, RestIsThere
<1>. DEFINE rest == (Len(m) - 2) - b
<1>11. rest \in 0 .. Len(stream) /\ \A i \in 1 .. rest : stream[i] = m[(2 + b) + i]
  <2>1. Len(m) - (2 + b) = rest /\ rest \in Nat
    BY <1>5, <1>6, <1>8, <1>9, <1>7
  <2>. HIDE DEF rest, m
  <2>. QED  BY <1>6, <1>10, <2>1
<1>12. n = rest
  <2>1. n = IF Len(stream) < rest THEN Len(stream) ELSE rest
    BY <1>4 DEF now_read, b
  <2>. HIDE DEF rest, n
  <2>. QED  BY <1>6, <1>11, <2>1
<1>. HIDE DEF n
<1>13. PICK x : x = n
  OBVIOUS
<1>. DEFINE now == pos + x
<1>14. Remains(all, now)'
  <2>1. x \in 0 .. Len(stream)
    BY <1>11, <1>12, <1>13
  <2>2. stream' = SubSeq(stream, x + 1, Len(stream))
    BY <1>1, <1>13
  <2>. QED  BY <1>3, <2>1, <2>2, Advance
<1>15. /\ taken \in Seq(Byte) /\ Len(taken) = n /\ \A i \in 1 .. n : taken[i] = m[(2 + b) + i]
  <2>1. n \in 0 .. Len(stream)
    BY <1>11, <1>12
  <2>2. taken \in Seq(Byte) /\ Len(taken) = n /\ \A i \in 1 .. n : taken[i] = stream[i]
    BY <1>6, <2>1, TakenBytes
  <2>. HIDE DEF taken, rest, m
  <2>. QED  BY <1>11, <1>12, <2>2
<1>. HIDE DEF taken
<1>16. new.pc = "select" /\ new.want = c.want /\ new.body = c.body \o taken
  <2>. HIDE DEF c
  <2>. QED  BY <1>6 DEF Call
<1>. DEFINE body == c.body \o taken
<1>17. /\ Len(body) = b + n
       /\ \A i \in 1 .. b : body[i] = c.body[i]
       /\ \A i \in 1 .. n : body[b + i] = taken[i]
  <2>1. /\ Len(body) = Len(c.body) + Len(taken)
        /\ \A i \in 1 .. Len(c.body) : body[i] = c.body[i]
        /\ \A i \in 1 .. Len(taken) : body[Len(c.body) + i] = taken[i]
    <3>. HIDE DEF c
    <3>. QED  BY <1>6, <1>15, Joined
  <2>. HIDE DEF body
  <2>. QED  BY <1>15, <2>1 DEF b
<1>. HIDE DEF body
<1>18. b + n = Len(m) - 2
  BY <1>5, <1>6, <1>7, <1>8, <1>9, <1>12
<1>19. ASSUME NEW i \in 1 .. Len(body) PROVE body[i] = m[2 + i]
  <2>1. i \in 1 .. Len(m) - 2
    BY <1>17, <1>18
  <2>2. i \in 1 .. b \/ (i - b \in 1 .. n /\ i = b + (i - b) /\ (2 + b) + (i - b) = 2 + i)
    BY <1>5, <1>6, <1>7, <1>8, <1>9, <1>12, <2>1
  <2>. HIDE DEF m, c
  <2>3. CASE i \in 1 .. b
    BY <1>4, <1>17, <2>3
  <2>4. CASE i - b \in 1 .. n /\ i = b + (i - b) /\ (2 + b) + (i - b) = 2 + i
    <3>1. body[b + (i - b)] = taken[i - b] /\ taken[i - b] = m[(2 + b) + (i - b)]
      BY <1>15, <1>17, <2>4
    <3>. QED  BY <2>4, <3>1
  <2>. QED  BY <2>2, <2>3, <2>4
<1>20. now = off[Len(acted)] + 2 + Len(body)
  <2>1. \A o \in Nat : (o + 2 + b) + ((Len(m) - 2) - b) = o + 2 + (Len(m) - 2)
    BY <1>5, <1>6, <1>8, <1>9
  <2>. HIDE DEF m, c
  <2>2. (off[Len(acted)] + 2 + b) + rest = off[Len(acted)] + 2 + (Len(m) - 2)
    BY <1>7, <2>1
  <2>. HIDE DEF rest
  <2>. QED  BY <1>4, <1>12, <1>13, <1>17, <1>18, <2>2
<1>21. new.body = body
  BY <1>16 DEF body
<1>. HIDE DEF new, c
<1>22. At(off, now, new)
  BY <1>4, <1>16, <1>19, <1>20, <1>21 DEF At, m
<1>23. Running(isHandler).pc # "off"
  BY <1>1 DEF c
<1>24. Becomes(isHandler, new) /\ UNCHANGED <<written, acted>>
  BY <1>1
<1>. HIDE DEF now
<1>. QED  BY <1>3, <1>14, <1>22, <1>23, <1>24, ReadOn

-----------------------------------------------------------------------------
\* A command written after all that was.
LEMMA SendKeeps ==
    ASSUME TypeOK, NEW off, NEW all, NEW pos, Whole(off, all, pos),
           NEW type \in Commands, comm_send_ctrl_msg(type)
    PROVE  Intact'
<1>. DEFINE w == Len(written)
            m == Encoded(type)
<1>1. /\ stream' = stream \o m /\ written' = Append(written, type)
      /\ UNCHANGED <<acted, direct, handler>>
  BY DEF comm_send_ctrl_msg, reading
<1>2. m \in Seq(Byte) /\ Len(m) \in Nat
  BY EncodedType, LenProperties
<1>3. /\ w \in Nat /\ Len(written') = w + 1 /\ written'[w + 1] = type
      /\ \A i \in 1 .. w : written'[i] = written[i]
  BY <1>1, AppendProperties, LenProperties DEF TypeOK
<1>. HIDE DEF m
<1>4. Laid(off, all) /\ Remains(all, pos) /\ ActedSoFar /\ At(off, pos, Reader)
  BY DEF Whole
<1>5. PICK o2, a2 : o2 = [k \in 0 .. w + 1 |-> IF k = w + 1 THEN Len(all) + Len(m) ELSE off[k]]
                    /\ a2 = all \o m
  OBVIOUS
<1>6. all \in Seq(Byte) /\ Len(all) \in Nat
  BY <1>4, LenProperties DEF Laid
<1>7. /\ a2 \in Seq(Byte) /\ Len(a2) = Len(all) + Len(m)
      /\ \A i \in 1 .. Len(all) : a2[i] = all[i]
      /\ \A i \in 1 .. Len(m) : a2[Len(all) + i] = m[i]
  BY <1>2, <1>5, <1>6, Joined
<1>8. /\ off[0] = 0 /\ off[w] = Len(all) /\ \A k \in 0 .. w : off[k] \in Nat /\ off[k] <= Len(all)
      /\ \A k \in 1 .. w :
           /\ off[k] = off[k - 1] + Len(Encoded(written[k]))
           /\ \A i \in 1 .. Len(Encoded(written[k])) : all[off[k - 1] + i] = Encoded(written[k])[i]
  BY <1>4 DEF Laid
<1>. HIDE DEF w
<1>9. /\ o2[w + 1] = Len(all) + Len(m) /\ \A k \in 0 .. w : o2[k] = off[k]
      /\ DOMAIN o2 = 0 .. w + 1
  BY <1>3, <1>5
<1>10. /\ o2 \in [0 .. w + 1 -> Nat] /\ \A k \in 0 .. w + 1 : o2[k] <= Len(a2)
  <2>1. \A k \in 0 .. w + 1 : k = w + 1 \/ k \in 0 .. w
    BY <1>3
  <2>2. \A k \in 0 .. w + 1 : o2[k] \in Nat /\ o2[k] <= Len(a2)
    BY <1>2, <1>6, <1>7, <1>8, <1>9, <2>1
  <2>. QED  BY <1>5, <1>9, <2>2
<1>11. ASSUME NEW k \in 1 .. w + 1
       PROVE  /\ o2[k] = o2[k - 1] + Len(Encoded(written'[k]))
              /\ \A i \in 1 .. Len(Encoded(written'[k])) : a2[o2[k - 1] + i] = Encoded(written'[k])[i]
  <2>1. CASE k = w + 1
    <3>1. k - 1 = w /\ w \in 0 .. w
      BY <1>3, <2>1
    <3>2. o2[k - 1] = Len(all) /\ Encoded(written'[k]) = m
      BY <1>3, <1>8, <1>9, <2>1, <3>1 DEF m
    <3>. QED  BY <1>7, <1>9, <2>1, <3>2
  <2>2. CASE k # w + 1
    <3>1. k \in 1 .. w /\ k \in 0 .. w /\ k - 1 \in 0 .. w
      BY <1>3, <2>2
    <3>2. o2[k] = off[k] /\ o2[k - 1] = off[k - 1] /\ written'[k] = written[k]
      BY <1>3, <1>9, <3>1
    <3>. DEFINE e == Encoded(written[k])
    <3>3. /\ off[k] = off[k - 1] + Len(e) /\ off[k - 1] \in Nat /\ off[k] <= Len(all)
          /\ \A i \in 1 .. Len(e) : all[off[k - 1] + i] = e[i]
      BY <1>8, <3>1
    <3>4. Len(e) \in Nat
      <4>1. written[k] \in Commands
        BY <3>1, ElementOfSeq DEF w, TypeOK
      <4>. QED  BY <4>1, EncodedType, LenProperties
    <3>. HIDE DEF e
    <3>5. ASSUME NEW i \in 1 .. Len(e) PROVE a2[off[k - 1] + i] = e[i]
      <4>1. off[k - 1] + i \in 1 .. Len(all)
        BY <1>6, <3>3, <3>4
      <4>. QED  BY <1>7, <3>3, <4>1
    <3>6. Encoded(written'[k]) = e
      BY <3>2 DEF e
    <3>. QED  BY <3>2, <3>3, <3>5, <3>6
  <2>. QED  BY <2>1, <2>2
<1>12. Laid(o2, a2)'
  <2>1. o2[0] = 0
    BY <1>3, <1>8, <1>9
  <2>2. o2[Len(written')] = Len(a2)
    BY <1>3, <1>7, <1>9
  <2>. QED  BY <1>3, <1>7, <1>10, <1>11, <2>1, <2>2 DEF Laid
<1>13. Remains(a2, pos)'
  <2>1. /\ pos \in Nat /\ Len(stream) + pos = Len(all)
        /\ \A i \in 1 .. Len(stream) : stream[i] = all[pos + i]
        /\ Len(stream) \in Nat /\ stream \in Seq(Byte)
    BY <1>4, LenProperties DEF Remains, TypeOK
  <2>2. /\ Len(stream') = Len(stream) + Len(m)
        /\ \A i \in 1 .. Len(stream) : stream'[i] = stream[i]
        /\ \A i \in 1 .. Len(m) : stream'[Len(stream) + i] = m[i]
    BY <1>1, <1>2, <2>1, Joined
  <2>3. ASSUME NEW i \in 1 .. Len(stream') PROVE stream'[i] = a2[pos + i]
    <3>1. CASE i \in 1 .. Len(stream)
      <4>1. pos + i \in 1 .. Len(all)
        BY <2>1, <3>1
      <4>. QED  BY <1>7, <2>1, <2>2, <3>1, <4>1
    <3>2. CASE i \notin 1 .. Len(stream)
      <4>1. i - Len(stream) \in 1 .. Len(m) /\ i = Len(stream) + (i - Len(stream))
        BY <1>2, <2>1, <2>2, <3>2
      <4>2. pos + i = Len(all) + (i - Len(stream))
        <5>1. ASSUME NEW s \in Nat, NEW a \in Nat, s + pos = a, NEW j \in Nat
              PROVE  pos + j = a + (j - s)
          BY <2>1, <5>1
        <5>2. i \in Nat
          BY <1>2, <2>1, <2>2
        <5>. QED  BY <1>6, <2>1, <5>1, <5>2
      <4>3. stream'[Len(stream) + (i - Len(stream))] = m[i - Len(stream)]
            /\ a2[Len(all) + (i - Len(stream))] = m[i - Len(stream)]
        BY <1>7, <2>2, <4>1
      <4>. QED  BY <4>1, <4>2, <4>3
    <3>. QED  BY <3>1, <3>2
  <2>4. Len(stream') + pos = Len(a2)
    <3>1. ASSUME NEW s \in Nat, NEW l \in Nat, s + pos = Len(all) PROVE (s + l) + pos = Len(all) + l
      BY <2>1, <3>1
    <3>. QED  BY <1>2, <1>7, <2>1, <2>2, <3>1
  <2>. QED  BY <2>1, <2>3, <2>4 DEF Remains
<1>14. Len(acted) \in Nat /\ Len(acted) <= w
  BY <1>4, LenProperties DEF ActedSoFar, TypeOK, w
<1>15. ActedSoFar'
  <2>1. \A i \in 1 .. Len(acted) : acted[i] = written[i] /\ i \in 1 .. w
    BY <1>3, <1>4, <1>14 DEF ActedSoFar
  <2>2. Len(acted) <= w + 1
    BY <1>3, <1>14
  <2>. QED  BY <1>1, <1>3, <2>1, <2>2 DEF ActedSoFar
<1>16. At(o2, pos, Reader)'
  <2>1. o2[Len(acted)] = off[Len(acted)]
    BY <1>3, <1>9, <1>14
  <2>2. Len(acted) < Len(written) =>
          Len(acted) < w + 1 /\ written'[Len(acted) + 1] = written[Len(acted) + 1]
    BY <1>3, <1>14 DEF w
  <2>3. Reader' = Reader /\ acted' = acted /\ Len(written') = w + 1
    BY <1>1, <1>3 DEF Reader
  <2>. HIDE DEF w
  <2>. QED  BY <1>4, <2>1, <2>2, <2>3 DEF At
<1>. QED
  <2>1. Whole(o2, a2, pos)'
    BY <1>12, <1>13, <1>15, <1>16 DEF Whole
  <2>. QED  BY <2>1 DEF Intact

\* What every step keeps while the handler does not interrupt another call.
LEMMA StepKeeps ==
    ASSUME TypeOK, Waiting, Intact, ~Nested, [Next]_vars, ~Nested'
    PROVE  Waiting' /\ Intact'
<1>1. PICK off, all, pos : Whole(off, all, pos)
  BY DEF Intact
<1>2. ASSUME NEW type \in Commands, comm_send_ctrl_msg(type) PROVE Waiting' /\ Intact'
  <2>1. Intact'
    BY <1>1, <1>2, SendKeeps
  <2>2. Waiting'
    BY <1>2 DEF comm_send_ctrl_msg, reading, Waiting, TypeOK
  <2>. QED  BY <2>1, <2>2
<1>3. ASSUME direct'.pc \in {"off", "poll"}, handler'.pc \in {"off", "poll"},
             Reader.pc = "off", UNCHANGED <<stream, written, acted>>
      PROVE  Intact'
  <2>1. Reader'.pc \in {"off", "poll"} /\ At(off, pos, Reader)
    BY <1>1, <1>3 DEF Reader, Whole
  <2>2. At(off, pos, Reader)'
    BY <1>3, <2>1 DEF At
  <2>3. Whole(off, all, pos)'
    BY <1>1, <1>3, <2>2 DEF Whole, Laid, Remains, ActedSoFar
  <2>. QED  BY <2>3 DEF Intact
<1>4. CASE set_receive_sigio
  <2>1. direct.pc = "off" /\ handler.pc = "off" /\ direct' = Poll /\ handler' = handler /\ receiving'
    BY <1>4 DEF set_receive_sigio, Waiting
  <2>2. direct'.pc = "poll"
    BY <2>1, CallsOK
  <2>3. Reader.pc = "off"
    BY <2>1 DEF Reader
  <2>. QED  BY <1>3, <1>4, <2>1, <2>2, <2>3 DEF set_receive_sigio, Waiting
<1>5. CASE signal_io
  <2>1. handler.pc = "off" /\ direct' = direct /\ handler' = Poll /\ pending
    BY <1>5 DEF signal_io
  <2>2. handler'.pc = "poll"
    BY <2>1, CallsOK
  <2>3. direct.pc = "off"
    BY <2>1, <2>2 DEF Nested
  <2>4. Reader.pc = "off"
    BY <2>1, <2>3 DEF Reader
  <2>. QED  BY <1>3, <1>5, <2>1, <2>2, <2>3, <2>4 DEF signal_io, Waiting
<1>6. ASSUME NEW isHandler \in BOOLEAN, handle_ctrl_msg(isHandler) PROVE Waiting' /\ Intact'
  <2>1. Intact'
    BY <1>1, <1>6, PollKeeps, SizeKeeps, SelectKeeps, ReadKeeps DEF handle_ctrl_msg
  <2>2. Waiting'
    <3>1. Running(isHandler).pc # "off" /\ UNCHANGED receiving
      BY <1>6 DEF handle_ctrl_msg, poll, read_size, select_body, read_body
    <3>2. receiving
      BY <3>1, CallsOK DEF Running, Waiting
    <3>. QED  BY <3>1, <3>2 DEF Waiting
  <2>. QED  BY <2>1, <2>2
<1>7. CASE UNCHANGED vars
  <2>1. UNCHANGED <<stream, written, acted, pending, direct, handler, receiving>>
    BY <1>7 DEF vars, reading
  <2>2. Whole(off, all, pos)'
    BY <1>1, <2>1 DEF Whole, Laid, Remains, ActedSoFar, At, Reader
  <2>. QED  BY <2>1, <2>2 DEF Waiting, Intact
<1>. QED  BY <1>2, <1>4, <1>5, <1>6, <1>7 DEF Next

\* Nothing is written and nothing read.
LEMMA IntactAtFirst == Init => Waiting /\ Intact
<1>. SUFFICES ASSUME Init PROVE Waiting /\ Intact
  OBVIOUS
<1>1. /\ stream = <<>> /\ written = <<>> /\ acted = <<>> /\ Len(<<>>) = 0
      /\ direct.pc = "off" /\ handler.pc = "off" /\ ~pending
  BY CallsOK DEF Init
<1>2. PICK off : off = [k \in 0 .. 0 |-> 0]
  OBVIOUS
<1>3. off \in [0 .. 0 -> Nat] /\ off[0] = 0 /\ <<>> \in Seq(Byte)
      /\ \A k \in 0 .. 0 : off[k] <= 0
  BY <1>2
<1>4. Laid(off, <<>>)
  BY <1>1, <1>3 DEF Laid
<1>5. Remains(<<>>, 0) /\ ActedSoFar /\ At(off, 0, Reader)
  BY <1>1, <1>3 DEF Remains, ActedSoFar, At, Reader
<1>6. Whole(off, <<>>, 0)
  BY <1>4, <1>5 DEF Whole
<1>. QED  BY <1>1, <1>6 DEF Waiting, Intact

\* What is acted upon is what was written first.
LEMMA IntactInOrder == ASSUME TypeOK, Intact PROVE IsPrefix(acted, written)
<1>1. ActedSoFar /\ acted \in Seq(Nat) /\ written \in Seq(Commands)
  BY DEF Intact, Whole, TypeOK
<1>. QED  BY <1>1, LenProperties DEF ActedSoFar, IsPrefix

\* As long as one call reads at a time, the commands the backend acts upon are
\* those that were sent, whole and in order, for any number of them and however
\* signals and writes fall between the reads of a message.
THEOREM CommandsStayIntact == Spec => CommandsIntact
<1>. DEFINE Ordered == IsPrefix(acted, written)
            Kept == Waiting /\ Intact
<1>1. TypeOK /\ Kept /\ ~Nested /\ [Next]_vars /\ ~Nested' => Kept'
  BY StepKeeps
<1>2. Init => Kept
  BY IntactAtFirst
<1>3. TypeOK /\ Kept => Ordered
  BY IntactInOrder
<1>4. Spec => []TypeOK
  BY SocketTypesHold
<1>5. Spec => ([]~Nested => []Ordered)
  <2>. HIDE DEF Kept, Ordered
  <2>. QED  BY <1>1, <1>2, <1>3, <1>4, PTL DEF Spec
<1>. QED  BY <1>5 DEF CommandsIntact
=============================================================================
