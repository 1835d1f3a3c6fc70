--------------------------- MODULE FramingProofs ---------------------------
(***************************************************************************)
(* Proofs about Framing, for any base, lengths and limits: however the     *)
(* stream is cut, the frames found are those that were encoded.            *)
(***************************************************************************)
EXTENDS Framing, DataTheorems, TLAPS

\* The states of a socket.
Bytes == 0..Base - 1
Sockets == [len : Nat, headBuf : Seq(Bytes), buffer : Seq(Bytes), rest : Seq(Bytes),
            frames : Seq(Seq(Bytes)), die : BOOLEAN]

(***************************************************************************)
(* Lengths and their bytes.                                                *)
(***************************************************************************)

LEMMA ValueDef ==
  ASSUME NEW head
  PROVE Value(head) = (CHOOSE g : g = [S \in SUBSET DOMAIN head |-> IF S = {} THEN 0 ELSE
           g[S \ {Max(S)}] * Base + head[Max(S)]])[DOMAIN head]
BY DEF Value, FoldLeft, MapThenFoldSet

\* The values of the beginnings of a header.
Reads(h, head) ==
    /\ h \in [0..Len(head) -> Nat] /\ h[0] = 0
    /\ \A i \in 1..Len(head) : h[i] = h[i - 1] * Base + head[i]

LEMMA ValueIs ==
    ASSUME NEW head \in Seq(Bytes)
    PROVE  \E h : Reads(h, head) /\ Value(head) = h[Len(head)]
<1>0. Base \in Nat /\ \A x \in Nat, y \in Bytes : x * Base + y \in Nat
  BY FramingAssumption DEF Bytes
<1>1. PICK n, D : n = Len(head) /\ n \in Nat /\ D = DOMAIN head /\ D = 1..n /\ \A i \in D : head[i] \in Bytes
  BY ElementOfSeq
<1>2. PICK G : G = [i \in 1..n |-> [a \in Nat |-> a * Base + head[i]]]
  OBVIOUS
<1>3. G \in [1..n -> [Nat -> Nat]] /\ \A i \in 1..n : \A a \in Nat : G[i][a] = a * Base + head[i]
  BY <1>0, <1>1, <1>2
<1>4. PICK w \in [SUBSET (1..n) -> Nat] : FoldOf(w, n, 0, G)
  BY <1>1, <1>3, FoldExists
<1>5. ASSUME NEW S \in SUBSET D, S # {} PROVE Max(S) \in D /\ S \ {Max(S)} \in SUBSET D
  BY <1>1, <1>5, Largest
<1>6. w = [S \in SUBSET D |-> IF S = {} THEN 0 ELSE w[S \ {Max(S)}] * Base + head[Max(S)]]
  <2>1. ASSUME NEW S \in SUBSET D
        PROVE  w[S] = IF S = {} THEN 0 ELSE w[S \ {Max(S)}] * Base + head[Max(S)]
    <3>1. w[S] = IF S = {} THEN 0 ELSE G[Max(S)][w[S \ {Max(S)}]]
      BY <1>1, <1>4 DEF FoldOf
    <3>2. CASE S = {}
      BY <3>1, <3>2
    <3>3. CASE S # {}
      <4>1. PICK m, T : m = Max(S) /\ T = S \ {Max(S)} /\ m \in D /\ T \in SUBSET D
        BY <1>5, <3>3
      <4>2. w[T] \in Nat
        BY <1>1, <1>4, <4>1
      <4>3. G[m][w[T]] = w[T] * Base + head[m]
        BY <1>1, <1>3, <4>1, <4>2
      <4>. QED BY <3>1, <3>3, <4>1, <4>3
    <3>. QED BY <3>2, <3>3
  <2>. QED BY <1>1, <1>4, <2>1
<1>7. PICK g : g = CHOOSE f : f = [S \in SUBSET D |-> IF S = {} THEN 0 ELSE
                                      f[S \ {Max(S)}] * Base + head[Max(S)]]
  OBVIOUS
<1>8. g = [S \in SUBSET D |-> IF S = {} THEN 0 ELSE g[S \ {Max(S)}] * Base + head[Max(S)]]
  <2>1. \E f : f = [S \in SUBSET D |-> IF S = {} THEN 0 ELSE f[S \ {Max(S)}] * Base + head[Max(S)]]
    BY <1>6
  <2>2. LET R(f) == f = [S \in SUBSET D |-> IF S = {} THEN 0 ELSE f[S \ {Max(S)}] * Base + head[Max(S)]]
        IN  (\E f : R(f)) => R(CHOOSE f : R(f))
    BY Zenon
  <2>. QED BY <1>7, <2>1, <2>2
<1>9. Value(head) = g[D]
  BY <1>1, <1>7, ValueDef
<1>10. PICK h : h = [i \in 0..n |-> g[1..i]]
  OBVIOUS
<1>11. h[0] = 0
  <2>1. 1..0 = {} /\ {} \in SUBSET D
    OBVIOUS
  <2>2. g[{}] = 0
    BY <1>8, <2>1
  <2>. QED BY <1>1, <1>10, <2>1, <2>2
<1>12. ASSUME NEW i \in 1..n PROVE h[i] = h[i - 1] * Base + head[i]
  <2>1. PICK S : S = 1..i /\ S \in SUBSET D /\ S # {} /\ Max(S) = i /\ S \ {i} = 1..(i - 1)
    BY <1>1, FirstPositions
  <2>2. g[S] = g[S \ {Max(S)}] * Base + head[Max(S)]
    BY <1>8, <2>1
  <2>3. h[i] = g[S] /\ h[i - 1] = g[S \ {i}]
    <3>1. i \in 0..n /\ i - 1 \in 0..n
      BY <1>1
    <3>2. h[i] = g[1..i] /\ h[i - 1] = g[1..(i - 1)]
      BY <1>10, <3>1
    <3>. QED BY <2>1, <3>2
  <2>. QED BY <2>1, <2>2, <2>3
<1>13. \A i \in 0..n : h[i] \in Nat
  <2>1. PICK Bad : Bad = {i \in 0..n : h[i] \notin Nat}
    OBVIOUS
  <2>2. SUFFICES ASSUME Bad # {} PROVE FALSE
    BY <2>1
  <2>3. Bad \in SUBSET Nat
    BY <2>1
  <2>4. PICK k \in Bad : \A j \in Bad : k <= j
    BY <2>2, <2>3, Least
  <2>5. k \in 1..n
    BY <1>11, <2>1, <2>4
  <2>6. h[k - 1] \in Nat
    <3>1. k - 1 \in 0..n /\ k - 1 < k
      BY <1>1, <2>5
    <3>. QED BY <2>1, <2>4, <2>5, <3>1
  <2>7. h[k] \in Nat
    BY <1>0, <1>1, <1>12, <2>5, <2>6
  <2>. QED BY <2>1, <2>7
<1>14. h \in [0..n -> Nat]
  BY <1>10, <1>13
<1>15. h[n] = g[D]
  BY <1>1, <1>10
<1>. QED BY <1>1, <1>9, <1>11, <1>12, <1>14, <1>15 DEF Reads

\* There is one reading.
LEMMA OneReading ==
    ASSUME NEW n \in Nat, NEW q, NEW r, NEW h, NEW g, Reads(h, q), Reads(g, r),
           n <= Len(q), n <= Len(r), Len(q) \in Nat, Len(r) \in Nat,
           \A i \in 1..n : q[i] = r[i]
    PROVE  \A i \in 0..n : h[i] = g[i]
<1>1. PICK Bad : Bad = {i \in 0..n : h[i] # g[i]}
  OBVIOUS
<1>2. SUFFICES ASSUME Bad # {} PROVE FALSE
  BY <1>1
<1>3. Bad \in SUBSET Nat
  BY <1>1
<1>4. PICK k \in Bad : \A j \in Bad : k <= j
  BY <1>2, <1>3, Least
<1>5. k \in 1..n
  BY <1>1, <1>4 DEF Reads
<1>6. h[k - 1] = g[k - 1]
  <2>1. k - 1 \in 0..n /\ k - 1 < k
    BY <1>5
  <2>. QED BY <1>1, <1>4, <1>5, <2>1
<1>7. k \in 1..Len(q) /\ k \in 1..Len(r)
  BY <1>5
<1>8. h[k] = h[k - 1] * Base + q[k] /\ g[k] = g[k - 1] * Base + r[k]
  BY <1>7 DEF Reads
<1>. QED BY <1>1, <1>4, <1>5, <1>6, <1>8

LEMMA ValueNat == \A head \in Seq(Bytes) : Value(head) \in Nat
<1> SUFFICES ASSUME NEW head \in Seq(Bytes) PROVE Value(head) \in Nat
  OBVIOUS
<1>1. PICK h : Reads(h, head) /\ Value(head) = h[Len(head)]
  BY ValueIs
<1>2. Len(head) \in 0..Len(head)
  OBVIOUS
<1>. QED BY <1>1, <1>2 DEF Reads

\* Dividing takes the last byte away.
LEMMA LastByte ==
    ASSUME NEW x \in Nat, NEW y \in Bytes
    PROVE  (x * Base + y) \div Base = x /\ (x * Base + y) % Base = y
<1>1. PICK b : b = Base /\ b \in Nat \ {0}
  BY FramingAssumption
<1>2. PICK z, d, m : z = x * b + y /\ d = z \div b /\ m = z % b
  OBVIOUS
<1>3. y \in 0..b - 1
  BY <1>1 DEF Bytes
<1>4. z \in Nat
  BY <1>1, <1>2, <1>3
<1>5. z = d * b + m /\ m \in 0..b - 1 /\ d \in Int
  BY <1>1, <1>2, <1>4
<1>6. d = x
  <2>1. (d - x) * b = y - m
    BY <1>1, <1>2, <1>3, <1>5
  <2>2. PICK e : e = d - x /\ e \in Int /\ e * b = y - m
    BY <1>5, <2>1
  <2>3. y - m < b /\ m - y < b
    BY <1>1, <1>3, <1>5
  <2>4. e < 1
    BY <1>1, <1>3, <1>5, <2>2, <2>3
  <2>5. e > -1
    BY <1>1, <1>3, <1>5, <2>2, <2>3
  <2>. QED BY <1>5, <2>2, <2>4, <2>5
<1>. QED BY <1>1, <1>2, <1>3, <1>5, <1>6

\* The header of a length is the one that it was read from.
High(n) == CHOOSE f : f = [k \in 0..HeadLen |-> IF k = 0 THEN n ELSE f[k - 1] \div Base]

LEMMA HeaderDef == ASSUME NEW n PROVE Header(n) = [i \in 1..HeadLen |-> High(n)[HeadLen - i] % Base]
BY DEF Header, High

LEMMA HeaderIs ==
    ASSUME NEW head \in Seq(Bytes), Len(head) = HeadLen
    PROVE  Header(Value(head)) = head
<1>1. PICK L : L = HeadLen /\ L \in Nat
  BY FramingAssumption
<1>2. PICK h, n : Reads(h, head) /\ n = Value(head) /\ n = h[L]
  BY <1>1, ValueIs
<1>3. /\ h \in [0..L -> Nat]
      /\ \A i \in 1..L : h[i] = h[i - 1] * Base + head[i] /\ head[i] \in Bytes
  BY <1>1, <1>2, ElementOfSeq DEF Reads
<1>4. ASSUME NEW i \in 1..L PROVE h[i] \div Base = h[i - 1] /\ h[i] % Base = head[i]
  <2>1. i - 1 \in 0..L
    BY <1>1
  <2>2. h[i - 1] \in Nat /\ head[i] \in Bytes /\ h[i] = h[i - 1] * Base + head[i]
    BY <1>3, <2>1
  <2>. QED BY <2>2, LastByte
<1>5. PICK f : f = [k \in 0..L |-> h[L - k]]
  OBVIOUS
<1>6. f = [k \in 0..L |-> IF k = 0 THEN n ELSE f[k - 1] \div Base]
  <2>1. ASSUME NEW k \in 0..L PROVE h[L - k] = IF k = 0 THEN n ELSE f[k - 1] \div Base
    <3>1. CASE k = 0
      BY <1>1, <1>2, <3>1
    <3>2. CASE k # 0
      <4>1. k - 1 \in 0..L /\ L - (k - 1) \in 1..L /\ (L - (k - 1)) - 1 = L - k
        BY <1>1, <3>2
      <4>2. f[k - 1] = h[L - (k - 1)]
        BY <1>5, <4>1
      <4>. QED BY <1>4, <3>2, <4>1, <4>2
    <3>. QED BY <3>1, <3>2
  <2>. QED BY <1>5, <2>1
<1>7. High(n) = [k \in 0..L |-> IF k = 0 THEN n ELSE High(n)[k - 1] \div Base]
  <2>1. \E x : x = [k \in 0..L |-> IF k = 0 THEN n ELSE x[k - 1] \div Base]
    BY <1>6
  <2>2. LET R(x) == x = [k \in 0..L |-> IF k = 0 THEN n ELSE x[k - 1] \div Base]
        IN  (\E x : R(x)) => R(CHOOSE x : R(x))
    BY Zenon
  <2>. QED BY <1>1, <2>1, <2>2 DEF High
<1>8. PICK g : g = High(n)
  OBVIOUS
<1>9. \A k \in 0..L : g[k] = IF k = 0 THEN n ELSE g[k - 1] \div Base
  BY <1>7, <1>8
<1>10. \A k \in 0..L : g[k] = h[L - k]
  <2>1. PICK Bad : Bad = {k \in 0..L : g[k] # h[L - k]}
    OBVIOUS
  <2>2. SUFFICES ASSUME Bad # {} PROVE FALSE
    BY <2>1
  <2>3. Bad \in SUBSET Nat
    BY <2>1
  <2>4. PICK k \in Bad : \A j \in Bad : k <= j
    BY <2>2, <2>3, Least
  <2>5. k \in 1..L
    <3>1. g[0] = h[L - 0]
      BY <1>1, <1>2, <1>9
    <3>. QED BY <1>1, <2>1, <2>4, <3>1
  <2>6. g[k - 1] = h[L - (k - 1)]
    <3>1. k - 1 \in 0..L /\ k - 1 < k
      BY <1>1, <2>5
    <3>. QED BY <2>1, <2>4, <2>5, <3>1
  <2>7. L - (k - 1) \in 1..L /\ (L - (k - 1)) - 1 = L - k
    BY <1>1, <2>5
  <2>8. g[k] = h[L - (k - 1)] \div Base
    BY <1>9, <2>5, <2>6
  <2>. QED BY <1>4, <2>1, <2>4, <2>7, <2>8
<1>11. Header(n) = [i \in 1..L |-> g[L - i] % Base]
  BY <1>1, <1>8, HeaderDef
<1>12. ASSUME NEW i \in 1..L PROVE g[L - i] % Base = head[i]
  <2>1. L - i \in 0..L /\ L - (L - i) = i
    BY <1>1
  <2>. QED BY <1>4, <1>10, <2>1
<1>13. Header(n) = [i \in 1..L |-> head[i]]
  BY <1>11, <1>12
<1>14. head = [i \in 1..L |-> head[i]]
  BY <1>1, LenProperties
<1>. QED BY <1>2, <1>13, <1>14

(***************************************************************************)
(* What frames look like in the stream.                                    *)
(***************************************************************************)

LEMMA HeaderBytes == \A head \in Seq(Bytes) : Len(head) = HeadLen => Header(Value(head)) = head
BY HeaderIs

\* The frames so far, and one more that was read behind its header.
Coded(frames) == [i \in DOMAIN frames |-> Header(Len(frames[i])) \o frames[i]]

\* Each frame's header is made of bytes: the program has read it.
Framed(frames) ==
    /\ frames \in Seq(Seq(Bytes))
    /\ \A i \in DOMAIN frames : Header(Len(frames[i])) \in Seq(Bytes)

LEMMA EncodedAppend ==
    ASSUME NEW frames, Framed(frames), NEW head \in Seq(Bytes), Len(head) = HeadLen,
           NEW body \in Seq(Bytes), Len(body) = Value(head)
    PROVE  /\ Framed(Append(frames, body)) /\ Encoded(frames) \in Seq(Bytes)
           /\ Encoded(Append(frames, body)) = Encoded(frames) \o (head \o body)
<1>1. PICK S, n : S = Seq(Bytes) /\ n = Len(frames)
  OBVIOUS
<1>2. frames \in Seq(S) /\ n \in Nat /\ DOMAIN frames = 1..n /\ \A i \in 1..n : frames[i] \in S
  BY <1>1, ElementOfSeq DEF Framed
<1>3. PICK r : r = Append(frames, body)
  OBVIOUS
<1>4. /\ r \in Seq(S) /\ Len(r) = n + 1 /\ r[n + 1] = body /\ DOMAIN r = 1..n + 1
      /\ \A i \in 1..n : r[i] = frames[i]
  <2>1. body \in S
    BY <1>1
  <2>. QED BY ONLY <1>1, <1>2, <1>3, <2>1, AppendProperties, LenProperties
<1>5. Header(Len(body)) = head
  BY HeaderIs
<1>6. Framed(r)
  <2>1. ASSUME NEW i \in DOMAIN r PROVE Header(Len(r[i])) \in Seq(Bytes)
    <3>1. CASE i = n + 1
      BY <1>4, <1>5, <3>1
    <3>2. CASE i # n + 1
      BY <1>2, <1>4, <3>2 DEF Framed
    <3>. QED BY <3>1, <3>2
  <2>. QED BY <1>1, <1>4, <2>1 DEF Framed
<1>7. PICK q, e : q = Coded(frames) /\ e = head \o body
  OBVIOUS
<1>8. e \in S
  BY <1>1, <1>7, ConcatProperties
<1>9. q \in Seq(S) /\ Len(q) = n /\ DOMAIN q = 1..n
  <2>1. \A i \in 1..n : Header(Len(frames[i])) \o frames[i] \in S
    BY <1>1, <1>2, ConcatProperties DEF Framed
  <2>2. q = [i \in 1..n |-> Header(Len(frames[i])) \o frames[i]]
    BY <1>2, <1>7 DEF Coded
  <2>3. q \in [1..n -> S]
    BY <2>1, <2>2
  <2>. QED BY <1>2, <2>3
<1>10. Coded(r) = Append(q, e)
  <2>1. Append(q, e) = [i \in 1..n + 1 |-> IF i = n + 1 THEN e ELSE q[i]]
    <3>1. PICK a : a = Append(q, e)
      OBVIOUS
    <3>2. a \in Seq(S) /\ Len(a) = n + 1 /\ a[n + 1] = e /\ \A i \in 1..n : a[i] = q[i]
      BY ONLY <1>8, <1>9, <3>1, AppendProperties
    <3>3. a = [i \in 1..n + 1 |-> a[i]]
      BY <3>2, LenProperties
    <3>4. \A i \in 1..n + 1 : a[i] = IF i = n + 1 THEN e ELSE q[i]
      BY <1>2, <3>2
    <3>. QED BY <3>1, <3>3, <3>4
  <2>2. Coded(r) = [i \in 1..n + 1 |-> Header(Len(r[i])) \o r[i]]
    BY <1>4 DEF Coded
  <2>3. ASSUME NEW i \in 1..n + 1
        PROVE  Header(Len(r[i])) \o r[i] = IF i = n + 1 THEN e ELSE q[i]
    <3>1. CASE i = n + 1
      BY <1>4, <1>5, <1>7, <3>1
    <3>2. CASE i # n + 1
      <4>1. i \in 1..n
        BY <1>2, <3>2
      <4>2. q[i] = Header(Len(frames[i])) \o frames[i] /\ r[i] = frames[i]
        BY <1>2, <1>4, <1>7, <4>1 DEF Coded
      <4>. QED BY <3>2, <4>2
    <3>. QED BY <3>1, <3>2
  <2>. QED BY <2>1, <2>2, <2>3
<1>11. Encoded(frames) = FlattenSeq(q) /\ Encoded(r) = FlattenSeq(Append(q, e))
  BY <1>7, <1>10 DEF Encoded, Coded
<1>12. FlattenSeq(q) \in Seq(Bytes) /\ FlattenSeq(Append(q, e)) = FlattenSeq(q) \o e
  <2>1. q \in Seq(Seq(Bytes)) /\ e \in Seq(Bytes)
    BY <1>1, <1>8, <1>9
  <2>. QED BY ONLY <2>1, FlattenAppend
<1>. QED BY <1>3, <1>6, <1>7, <1>11, <1>12

LEMMA EncodedBytes ==
    ASSUME NEW frames, Framed(frames)
    PROVE  Encoded(frames) \in Seq(Bytes)
<1>1. PICK n : n = Len(frames) /\ n \in Nat /\ DOMAIN frames = 1..n /\ \A i \in 1..n : frames[i] \in Seq(Bytes)
  BY ElementOfSeq DEF Framed
<1>2. PICK q : q = Coded(frames)
  OBVIOUS
<1>3. q \in Seq(Seq(Bytes))
  <2>1. \A i \in 1..n : Header(Len(frames[i])) \o frames[i] \in Seq(Bytes)
    BY <1>1, ConcatProperties DEF Framed
  <2>2. q = [i \in 1..n |-> Header(Len(frames[i])) \o frames[i]]
    BY <1>1, <1>2 DEF Coded
  <2>3. q \in [1..n -> Seq(Bytes)]
    BY <2>1, <2>2
  <2>. QED BY <1>1, <2>3
<1>4. FlattenSeq(q) \in Seq(Bytes)
  <2>1. <<>> \in Seq(Bytes)
    OBVIOUS
  <2>. QED BY ONLY <1>3, <2>1, FlattenAppend
<1>. QED BY <1>2, <1>4 DEF Encoded, Coded

LEMMA NoFrames == Framed(<<>>) /\ Encoded(<<>>) = <<>>
<1>1. Framed(<<>>)
  BY DEF Framed
<1>2. [i \in DOMAIN <<>> |-> Header(Len(<<>>[i])) \o <<>>[i]] = <<>>
  OBVIOUS
<1>. QED BY <1>1, <1>2 DEF Encoded, FlattenSeq

(***************************************************************************)
(* One turn of decode.                                                     *)
(***************************************************************************)

\* Concatenation, as an operator that the provers do not unfold.
Cat(p, q) == p \o q

LEMMA CatIs ==
    ASSUME NEW S, NEW p \in Seq(S), NEW q \in Seq(S)
    PROVE  /\ Cat(p, q) \in Seq(S) /\ Len(Cat(p, q)) = Len(p) + Len(q)
           /\ Cat(p, <<>>) = p /\ Cat(<<>>, q) = q
BY ConcatProperties, ConcatEmptySeq DEF Cat

LEMMA CatAssociative ==
    ASSUME NEW S, NEW p \in Seq(S), NEW q \in Seq(S), NEW r \in Seq(S)
    PROVE  Cat(Cat(p, q), r) = Cat(p, Cat(q, r))
BY ConcatAssociative DEF Cat

LEMMA Regroup ==
    ASSUME NEW S, NEW e \in Seq(S), NEW h \in Seq(S), NEW b \in Seq(S), NEW r \in Seq(S)
    PROVE  Cat(Cat(e, Cat(h, b)), r) = Cat(e, Cat(h, Cat(b, r)))
BY CatIs, CatAssociative

\* Pieces of a sequence.
LEMMA Cut ==
    ASSUME NEW S, NEW q \in Seq(S), NEW k \in 0..Len(q)
    PROVE  /\ SubSeq(q, 1, k) \in Seq(S) /\ SubSeq(q, k + 1, Len(q)) \in Seq(S)
           /\ Len(SubSeq(q, 1, k)) = k /\ Len(SubSeq(q, k + 1, Len(q))) = Len(q) - k
           /\ Cat(SubSeq(q, 1, k), SubSeq(q, k + 1, Len(q))) = q
<1>1. PICK n : n = Len(q) /\ n \in Nat /\ k \in 0..n /\ \A i \in 1..n : q[i] \in S
  BY ElementOfSeq
<1>2. /\ SubSeq(q, 1, k) \in Seq(S) /\ Len(SubSeq(q, 1, k)) = k
      /\ SubSeq(q, k + 1, n) \in Seq(S) /\ Len(SubSeq(q, k + 1, n)) = n - k
  <2>1. \A i \in 1..k : q[i] \in S
    BY <1>1
  <2>2. \A i \in k + 1..n : q[i] \in S
    BY <1>1
  <2>3. 1 \in Int /\ k \in Int /\ k + 1 \in Int /\ n \in Int
    BY <1>1
  <2>4. SubSeq(q, 1, k) \in Seq(S) /\ Len(SubSeq(q, 1, k)) = IF 1 <= k THEN k - 1 + 1 ELSE 0
    BY ONLY <2>1, <2>3, SubSeqProperties
  <2>5. SubSeq(q, k + 1, n) \in Seq(S) /\ Len(SubSeq(q, k + 1, n)) = IF k + 1 <= n THEN n - (k + 1) + 1 ELSE 0
    BY ONLY <2>2, <2>3, SubSeqProperties
  <2>. QED BY <1>1, <2>4, <2>5
<1>3. SubSeq(q, 1, k) \o SubSeq(q, k + 1, n) = q
  <2>1. 1 \in 1..Len(q) + 1 /\ k \in 1 - 1..Len(q) /\ Len(q) \in k..Len(q)
    BY <1>1
  <2>2. SubSeq(q, 1, k) \o SubSeq(q, k + 1, Len(q)) = SubSeq(q, 1, Len(q))
    BY <2>1, ConcatAdjacentSubSeq
  <2>. QED BY <1>1, <2>2, SubSeqFull
<1>. QED BY <1>1, <1>2, <1>3 DEF Cat

\* The bytes that decode has taken, as its fields hold them.
Taken(s) == Cat(Encoded(s.frames), Cat(s.headBuf, s.buffer))
InLimits(frames) == \A n \in DOMAIN frames : ~BadLength(Len(frames[n]), SubSeq(frames, 1, n - 1))

\* What the fields of a begun frame hold: a part of its length, or the whole and
\* a part of its bytes.
Reading(s) ==
    IF s.die THEN Len(s.headBuf) = HeadLen /\ BadLength(Value(s.headBuf), s.frames) /\ s.buffer = <<>>
    ELSE IF s.len = 0 THEN Len(s.headBuf) < HeadLen /\ s.buffer = <<>>
    ELSE /\ Len(s.headBuf) = HeadLen /\ ~BadLength(Value(s.headBuf), s.frames)
         /\ s.len + Len(s.buffer) = Value(s.headBuf)

\* Of the stream all, decode has taken all but what is left of the piece.
TcpOK(all, s) ==
    /\ s \in Sockets /\ all = Cat(Taken(s), s.rest)
    /\ Framed(s.frames) /\ InLimits(s.frames) /\ Reading(s)

LEMMA LimitsAppend ==
    ASSUME NEW S, NEW frames \in Seq(S), InLimits(frames), NEW body \in S, ~BadLength(Len(body), frames)
    PROVE  InLimits(Append(frames, body))
<1>0. Len(frames) \in Nat
  BY LenProperties
<1>1. PICK n, r : n = Len(frames) /\ n \in Nat /\ r = Append(frames, body)
  BY ONLY <1>0
<1>2. /\ r \in Seq(S) /\ Len(r) = n + 1 /\ r[n + 1] = body /\ DOMAIN r = 1..n + 1
      /\ \A i \in 1..n : r[i] = frames[i]
  BY ONLY <1>1, frames \in Seq(S), body \in S, AppendProperties, LenProperties
<1>3. ASSUME NEW i \in 1..n + 1 PROVE SubSeq(r, 1, i - 1) = SubSeq(frames, 1, i - 1)
  <2>1. \A j \in 1..i - 1 : r[j] = frames[j] /\ r[j] \in S /\ frames[j] \in S
    BY <1>1, <1>2, ElementOfSeq
  <2>2. PICK k : k = i - 1 /\ k \in Nat
    BY <1>1
  <2>3. PICK x, y : x = SubSeq(r, 1, k) /\ y = SubSeq(frames, 1, k)
    OBVIOUS
  <2>4. /\ x \in Seq(S) /\ y \in Seq(S) /\ Len(x) = (IF 1 <= k THEN k - 1 + 1 ELSE 0) /\ Len(x) = Len(y)
        /\ \A j \in 1..k - 1 + 1 : x[j] = r[1 + j - 1] /\ y[j] = frames[1 + j - 1]
    <3>1. 1 \in Int /\ k \in Int /\ (\A j \in 1..k : r[j] \in S) /\ (\A j \in 1..k : frames[j] \in S)
      BY <2>1, <2>2
    <3>. QED BY ONLY <2>3, <3>1, SubSeqProperties
  <2>5. \A j \in 1..Len(x) : x[j] = y[j]
    BY <2>1, <2>2, <2>4
  <2>. QED BY <2>2, <2>3, <2>4, <2>5, SeqEqual
<1>4. SubSeq(frames, 1, n) = frames
  BY <1>1, SubSeqFull
<1>5. ASSUME NEW i \in 1..n + 1 PROVE ~BadLength(Len(r[i]), SubSeq(r, 1, i - 1))
  <2>1. CASE i = n + 1
    <3>1. SubSeq(r, 1, i - 1) = frames
      BY <1>1, <1>3, <1>4, <2>1
    <3>. QED BY <1>2, <2>1, <3>1
  <2>2. CASE i # n + 1
    <3>1. i \in DOMAIN frames /\ r[i] = frames[i]
      BY <1>1, <1>2, <2>2
    <3>. QED BY <1>3, <3>1 DEF InLimits
  <2>. QED BY <2>1, <2>2
<1>. QED BY <1>1, <1>2, <1>5 DEF InLimits

\* Emitting a frame whose header was read.
LEMMA EmitOK ==
    ASSUME NEW all, NEW s \in Sockets, NEW head \in Seq(Bytes), NEW body \in Seq(Bytes), NEW rest \in Seq(Bytes),
           Framed(s.frames), InLimits(s.frames), ~s.die,
           Len(head) = HeadLen, Len(body) = Value(head), ~BadLength(Value(head), s.frames),
           all = Cat(Encoded(s.frames), Cat(head, Cat(body, rest)))
    PROVE  TcpOK(all, Emitted(s, body, rest)) /\ Emitted(s, body, rest).rest = rest
<1>1. PICK t : t = Emitted(s, body, rest)
  OBVIOUS
<1>2. /\ t.frames = Append(s.frames, body) /\ t.rest = rest /\ t.len = 0 /\ t.headBuf = <<>>
      /\ t.buffer = <<>> /\ t.die = s.die
  BY <1>1 DEF Emitted, Sockets
<1>3. t \in Sockets
  <2>1. Append(s.frames, body) \in Seq(Seq(Bytes)) /\ <<>> \in Seq(Bytes) /\ 0 \in Nat
    BY DEF Sockets
  <2>. QED BY <1>1, <2>1 DEF Emitted, Sockets
<1>4. /\ Framed(t.frames) /\ Encoded(s.frames) \in Seq(Bytes)
      /\ Encoded(t.frames) = Cat(Encoded(s.frames), Cat(head, body))
  <2>1. PICK fs : fs = s.frames
    OBVIOUS
  <2>2. Framed(fs) /\ head \in Seq(Bytes) /\ Len(head) = HeadLen /\ body \in Seq(Bytes) /\ Len(body) = Value(head)
    BY <2>1
  <2>3. /\ Framed(Append(fs, body)) /\ Encoded(fs) \in Seq(Bytes)
        /\ Encoded(Append(fs, body)) = Cat(Encoded(fs), Cat(head, body))
    BY ONLY <2>2, EncodedAppend DEF Cat
  <2>. QED BY <1>2, <2>1, <2>3
<1>5. InLimits(t.frames)
  BY <1>2, LimitsAppend DEF Sockets
<1>6. Reading(t)
  <2>1. 0 < HeadLen
    BY FramingAssumption
  <2>. QED BY <1>2, <2>1 DEF Reading
<1>7. all = Cat(Taken(t), t.rest)
  <2>1. PICK e, f : e = Encoded(s.frames) /\ f = Encoded(t.frames) /\ e \in Seq(Bytes)
    BY <1>4
  <2>2. f = Cat(e, Cat(head, body)) /\ f \in Seq(Bytes) /\ <<>> \in Seq(Bytes)
    BY <1>4, <2>1, CatIs
  <2>3. Cat(f, rest) = Cat(e, Cat(head, Cat(body, rest)))
    BY <2>1, <2>2, Regroup
  <2>4. Taken(t) = Cat(f, Cat(<<>>, <<>>))
    BY <1>2, <2>1 DEF Taken
  <2>5. Cat(<<>>, <<>>) = <<>> /\ Cat(f, <<>>) = f
    BY <2>2, CatIs
  <2>. QED BY <1>2, <2>1, <2>3, <2>4, <2>5
<1>. QED BY <1>1, <1>2, <1>3, <1>4, <1>5, <1>6, <1>7 DEF TcpOK

LEMMA HeadStepOK ==
    ASSUME NEW all, NEW s, TcpOK(all, s), ~s.die, s.len = 0, s.rest # <<>>
    PROVE  TcpOK(all, HeadStep(s)) /\ Len(HeadStep(s).rest) < Len(s.rest)
<1>1. PICK E, H, B, R : E = Encoded(s.frames) /\ H = s.headBuf /\ B = s.buffer /\ R = s.rest
  OBVIOUS
<1>2. /\ s \in Sockets /\ E \in Seq(Bytes) /\ H \in Seq(Bytes) /\ B = <<>> /\ R \in Seq(Bytes)
      /\ Len(H) < HeadLen /\ all = Cat(Cat(E, Cat(H, <<>>)), R) /\ Framed(s.frames) /\ InLimits(s.frames)
  BY <1>1, EncodedBytes DEF TcpOK, Sockets, Reading, Taken
<1>3. PICK b, t, head : b = Head(R) /\ t = Tail(R) /\ head = Append(H, b)
  OBVIOUS
<1>4. /\ b \in Bytes /\ t \in Seq(Bytes) /\ Len(t) = Len(R) - 1 /\ R = Cat(<<b>>, t)
      /\ Len(R) \in Nat /\ Len(t) \in Nat
  <2>1. R # <<>> /\ R \in Seq(Bytes)
    BY <1>1, <1>2
  <2>2. b \in Bytes /\ t \in Seq(Bytes) /\ Len(t) = Len(R) - 1 /\ Len(R) \in Nat /\ Len(t) \in Nat
    BY <1>3, <2>1
  <2>3. Cat(<<b>>, t) = R
    BY <1>3, <2>1 DEF Cat
  <2>. QED BY <2>2, <2>3
<1>5. head \in Seq(Bytes) /\ Len(head) = Len(H) + 1 /\ Len(H) \in Nat /\ head = Cat(H, <<b>>)
  <2>1. head = Cat(H, <<b>>)
    BY <1>2, <1>3, <1>4, AppendIsConcat DEF Cat
  <2>. QED BY <1>2, <1>3, <1>4, <2>1
<1>6. all = Cat(E, Cat(head, t)) /\ all = Cat(Cat(E, Cat(head, <<>>)), t)
  <2>1. <<b>> \in Seq(Bytes) /\ <<>> \in Seq(Bytes)
    BY <1>4
  <2>2. Cat(H, <<>>) = H /\ Cat(head, <<>>) = head
    BY <1>2, <1>5, CatIs
  <2>3. Cat(Cat(E, H), Cat(<<b>>, t)) = Cat(E, Cat(H, Cat(<<b>>, t))) /\ Cat(<<b>>, t) \in Seq(Bytes)
    BY <1>2, <1>4, <2>1, CatIs, CatAssociative
  <2>4. Cat(H, Cat(<<b>>, t)) = Cat(Cat(H, <<b>>), t)
    <3>1. H \in Seq(Bytes) /\ t \in Seq(Bytes)
      BY <1>2, <1>4
    <3>. QED BY ONLY <2>1, <3>1, CatAssociative
  <2>5. Cat(E, Cat(head, t)) = Cat(Cat(E, head), t)
    BY <1>2, <1>4, <1>5, CatAssociative
  <2>. QED BY <1>2, <1>4, <1>5, <2>2, <2>3, <2>4, <2>5
<1>7. PICK len, read : len = Value(head) /\ read = [s EXCEPT !.headBuf = head, !.rest = t] /\ len \in Nat
  BY <1>5, ValueNat
<1>8. /\ read \in Sockets /\ read.headBuf = head /\ read.rest = t /\ read.len = 0 /\ read.buffer = <<>>
      /\ read.frames = s.frames /\ read.die = FALSE
  BY <1>1, <1>2, <1>4, <1>5, <1>7 DEF Sockets
<1>9. HeadLen \in Nat
  BY FramingAssumption
<1>10. CASE Len(head) < HeadLen
  <2>1. HeadStep(s) = read
    BY <1>1, <1>3, <1>7, <1>10 DEF HeadStep
  <2>2. TcpOK(all, read)
    BY <1>1, <1>2, <1>6, <1>8, <1>10 DEF TcpOK, Taken, Reading
  <2>. QED BY <1>1, <1>4, <1>8, <2>1, <2>2
<1>11. CASE ~(Len(head) < HeadLen) /\ BadLength(len, s.frames)
  <2>1. PICK dead : dead = [read EXCEPT !.die = TRUE]
    OBVIOUS
  <2>2. HeadStep(s) = dead
    BY <1>1, <1>3, <1>7, <1>11, <2>1 DEF HeadStep
  <2>3. /\ dead \in Sockets /\ dead.headBuf = head /\ dead.rest = t /\ dead.buffer = <<>>
        /\ dead.frames = s.frames /\ dead.die
    BY <1>8, <2>1 DEF Sockets
  <2>4. Len(head) = HeadLen
    BY <1>2, <1>5, <1>9, <1>11
  <2>5. TcpOK(all, dead)
    BY <1>1, <1>2, <1>6, <1>7, <1>11, <2>3, <2>4 DEF TcpOK, Taken, Reading
  <2>. QED BY <1>1, <1>4, <2>2, <2>3, <2>5
<1>12. CASE ~(Len(head) < HeadLen) /\ ~BadLength(len, s.frames)
  <2>1. Len(head) = HeadLen
    BY <1>2, <1>5, <1>9, <1>12
  <2>2. CASE Len(t) >= len
    <3>1. PICK x, y : x = SubSeq(t, 1, len) /\ y = SubSeq(t, len + 1, Len(t))
      OBVIOUS
    <3>2. /\ x \in Seq(Bytes) /\ y \in Seq(Bytes) /\ Len(x) = len /\ Len(y) = Len(t) - len /\ Cat(x, y) = t
      <4>1. len \in 0..Len(t)
        BY <1>4, <1>7, <2>2
      <4>. QED BY ONLY <1>4, <3>1, <4>1, Cut
    <3>3. HeadStep(s) = Emitted(s, x, y)
      <4>1. HeadStep(s) = Emitted(read, x, y)
        <5>1. /\ head = Append(s.headBuf, Head(s.rest)) /\ t = Tail(s.rest) /\ len = Value(head)
              /\ read = [s EXCEPT !.headBuf = head, !.rest = t]
              /\ ~(Len(head) < HeadLen) /\ ~BadLength(len, s.frames) /\ Len(t) >= len
              /\ x = SubSeq(t, 1, len) /\ y = SubSeq(t, len + 1, Len(t))
          BY <1>1, <1>3, <1>7, <1>12, <2>2, <3>1
        <5>. QED BY ONLY <5>1 DEF HeadStep, Emitted
      <4>2. Emitted(read, x, y) = Emitted(s, x, y)
        BY <1>2, <1>7 DEF Emitted, Sockets
      <4>. QED BY <4>1, <4>2
    <3>4. TcpOK(all, Emitted(s, x, y)) /\ Emitted(s, x, y).rest = y
      <4>1. all = Cat(Encoded(s.frames), Cat(head, Cat(x, y)))
        BY <1>1, <1>6, <3>2
      <4>2. /\ s \in Sockets /\ head \in Seq(Bytes) /\ x \in Seq(Bytes) /\ y \in Seq(Bytes)
            /\ Framed(s.frames) /\ InLimits(s.frames) /\ ~s.die
            /\ Len(head) = HeadLen /\ Len(x) = Value(head) /\ ~BadLength(Value(head), s.frames)
        BY <1>2, <1>5, <1>7, <1>12, <2>1, <3>2
      <4>. QED BY ONLY <4>1, <4>2, EmitOK
    <3>. QED BY <1>1, <1>4, <1>7, <3>2, <3>3, <3>4
  <2>3. CASE ~(Len(t) >= len)
    <3>1. PICK begun : begun = [read EXCEPT !.len = len]
      OBVIOUS
    <3>2. HeadStep(s) = begun
      BY <1>1, <1>3, <1>7, <1>12, <2>3, <3>1 DEF HeadStep
    <3>3. /\ begun \in Sockets /\ begun.headBuf = head /\ begun.rest = t /\ begun.buffer = <<>>
          /\ begun.frames = s.frames /\ ~begun.die /\ begun.len = len
      BY <1>7, <1>8, <3>1 DEF Sockets
    <3>4. len # 0
      BY <1>12 DEF BadLength
    <3>5. Reading(begun)
      BY <1>7, <1>12, <2>1, <3>3, <3>4 DEF Reading
    <3>6. TcpOK(all, begun)
      BY <1>1, <1>2, <1>6, <3>3, <3>5 DEF TcpOK, Taken
    <3>. QED BY <1>1, <1>4, <3>2, <3>3, <3>6
  <2>. QED BY <2>2, <2>3
<1>. QED BY <1>10, <1>11, <1>12

LEMMA BodyStepOK ==
    ASSUME NEW all, NEW s, TcpOK(all, s), ~s.die, s.len # 0, s.rest # <<>>
    PROVE  TcpOK(all, BodyStep(s)) /\ Len(BodyStep(s).rest) < Len(s.rest)
<1>1. PICK E, H, B, R, len : /\ E = Encoded(s.frames) /\ H = s.headBuf /\ B = s.buffer /\ R = s.rest
                             /\ len = s.len
  OBVIOUS
<1>2. /\ s \in Sockets /\ E \in Seq(Bytes) /\ H \in Seq(Bytes) /\ B \in Seq(Bytes) /\ R \in Seq(Bytes)
      /\ Len(H) = HeadLen /\ all = Cat(Cat(E, Cat(H, B)), R) /\ Framed(s.frames) /\ InLimits(s.frames)
      /\ len \in Nat \ {0} /\ ~BadLength(Value(H), s.frames) /\ len + Len(B) = Value(H)
  BY <1>1, EncodedBytes DEF TcpOK, Sockets, Reading, Taken
<1>3. Len(R) \in Nat \ {0} /\ Len(B) \in Nat
  <2>1. R # <<>>
    BY <1>1
  <2>. QED BY <1>2, <2>1
<1>4. CASE Len(R) < len
  <2>1. PICK c, d : c = Cat(B, R) /\ d = len - Len(R)
    OBVIOUS
  <2>2. c \in Seq(Bytes) /\ Len(c) = Len(B) + Len(R) /\ d \in Nat \ {0}
    BY <1>2, <1>3, <1>4, <2>1, CatIs
  <2>3. PICK t : t = [s EXCEPT !.buffer = c, !.len = d, !.rest = <<>>]
    OBVIOUS
  <2>4. BodyStep(s) = t
    <3>1. /\ s.rest = R /\ s.len = len /\ s.buffer = B /\ Len(R) < len /\ c = B \o R /\ d = len - Len(R)
          /\ t = [s EXCEPT !.buffer = c, !.len = d, !.rest = <<>>]
      BY <1>1, <1>4, <2>1, <2>3 DEF Cat
    <3>2. t = [s EXCEPT !.buffer = s.buffer \o s.rest, !.len = s.len - Len(s.rest), !.rest = <<>>]
      BY ONLY <3>1
    <3>. QED BY ONLY <3>1, <3>2 DEF BodyStep
  <2>5. /\ t \in Sockets /\ t.buffer = c /\ t.len = d /\ t.rest = <<>> /\ t.headBuf = H
        /\ t.frames = s.frames /\ ~t.die
    <3>1. c \in Seq(Bytes) /\ d \in Nat /\ <<>> \in Seq(Bytes) /\ s \in Sockets /\ ~s.die /\ H = s.headBuf
      BY <1>1, <1>2, <2>2
    <3>. QED BY ONLY <2>3, <3>1 DEF Sockets
  <2>6. Reading(t)
    <3>1. t.len + Len(t.buffer) = Value(H) /\ t.len # 0
      <4>1. PICK lr, lb, lc, v : lr = Len(R) /\ lb = Len(B) /\ lc = Len(c) /\ v = Value(H)
        OBVIOUS
      <4>2. /\ lr \in Nat /\ lb \in Nat /\ len \in Nat /\ lc = lb + lr /\ d = len - lr /\ len + lb = v /\ d # 0
        BY <1>2, <1>3, <2>1, <2>2, <4>1
      <4>3. d + lc = v
        BY ONLY <4>2
      <4>. QED BY ONLY <2>5, <4>1, <4>2, <4>3
    <3>2. Len(H) = HeadLen /\ ~BadLength(Value(H), s.frames)
      BY <1>2
    <3>. QED BY <2>5, <3>1, <3>2 DEF Reading
  <2>7. all = Cat(Cat(E, Cat(H, c)), <<>>)
    <3>1. <<>> \in Seq(Bytes)
      OBVIOUS
    <3>2. Cat(Cat(E, Cat(H, B)), R) = Cat(E, Cat(H, c))
      BY <1>2, <2>1, Regroup
    <3>3. Cat(E, Cat(H, c)) \in Seq(Bytes)
      BY <1>2, <2>2, CatIs
    <3>. QED BY <1>2, <3>1, <3>2, <3>3, CatIs
  <2>8. TcpOK(all, t)
    BY <1>1, <1>2, <2>5, <2>6, <2>7 DEF TcpOK, Taken
  <2>9. Len(t.rest) = 0
    BY <2>5
  <2>. QED BY <1>1, <1>3, <2>4, <2>8, <2>9
<1>5. CASE ~(Len(R) < len)
  <2>1. PICK x, y, body : x = SubSeq(R, 1, len) /\ y = SubSeq(R, len + 1, Len(R)) /\ body = Cat(B, x)
    OBVIOUS
  <2>2. x \in Seq(Bytes) /\ y \in Seq(Bytes) /\ Len(x) = len /\ Len(y) = Len(R) - len /\ Cat(x, y) = R
    <3>1. len \in 0..Len(R)
      BY <1>2, <1>3, <1>5
    <3>. QED BY ONLY <1>2, <2>1, <3>1, Cut
  <2>3. BodyStep(s) = Emitted(s, body, y)
    <3>1. /\ s.rest = R /\ s.len = len /\ s.buffer = B /\ ~(Len(R) < len) /\ body = B \o x
          /\ x = SubSeq(R, 1, len) /\ y = SubSeq(R, len + 1, Len(R))
      BY <1>1, <1>5, <2>1 DEF Cat
    <3>. QED BY ONLY <3>1 DEF BodyStep
  <2>4. body \in Seq(Bytes) /\ Len(body) = Value(H)
    <3>1. body \in Seq(Bytes) /\ Len(body) = Len(B) + len
      BY <1>2, <2>1, <2>2, CatIs
    <3>. QED BY <1>2, <1>3, <3>1
  <2>5. all = Cat(E, Cat(H, Cat(body, y)))
    <3>1. all = Cat(E, Cat(H, Cat(B, R)))
      BY <1>2, Regroup
    <3>2. Cat(body, y) = Cat(B, Cat(x, y))
      <4>1. B \in Seq(Bytes) /\ x \in Seq(Bytes) /\ y \in Seq(Bytes)
        BY <1>2, <2>2
      <4>2. Cat(Cat(B, x), y) = Cat(B, Cat(x, y))
        BY ONLY <4>1, CatAssociative
      <4>. QED BY <2>1, <4>2
    <3>. QED BY <2>2, <3>1, <3>2
  <2>6. TcpOK(all, Emitted(s, body, y)) /\ Emitted(s, body, y).rest = y
    <3>1. /\ s \in Sockets /\ H \in Seq(Bytes) /\ body \in Seq(Bytes) /\ y \in Seq(Bytes)
          /\ Framed(s.frames) /\ InLimits(s.frames) /\ ~s.die
          /\ Len(H) = HeadLen /\ Len(body) = Value(H) /\ ~BadLength(Value(H), s.frames)
      BY <1>2, <2>2, <2>4
    <3>2. all = Cat(Encoded(s.frames), Cat(H, Cat(body, y)))
      BY <1>1, <2>5
    <3>. QED BY ONLY <3>1, <3>2, EmitOK
  <2>. QED BY <1>1, <1>2, <1>3, <2>2, <2>3, <2>6
<1>. QED BY <1>4, <1>5

(***************************************************************************)
(* One turn of the loop of a websocket.                                    *)
(***************************************************************************)

\* No frame begins here, or not all of it is there.
Stops(rest) ==
    \/ Len(rest) < HeadLen
    \/ Len(rest) < HeadLen + Value(SubSeq(rest, 1, HeadLen))
    \/ Value(SubSeq(rest, 1, HeadLen)) = 0

\* Of the messages all, WsSocket has emitted all but the rest of the last.
WsOK(all, s) ==
    /\ s \in Sockets /\ all = Cat(Encoded(s.frames), s.rest) /\ Framed(s.frames)
    /\ \A n \in DOMAIN s.frames : s.frames[n] # <<>>
    /\ s.die => s.rest # <<>> /\ Stops(s.rest)

LEMMA WsStepOK ==
    ASSUME NEW all, NEW s, WsOK(all, s), ~s.die, s.rest # <<>>
    PROVE  /\ WsOK(all, WsStep(s))
           /\ WsStep(s).die \/ Len(WsStep(s).rest) < Len(s.rest)
<1>1. PICK E, R, H, len : /\ E = Encoded(s.frames) /\ R = s.rest /\ H = SubSeq(R, 1, HeadLen)
                          /\ len = Value(H)
  OBVIOUS
<1>2. /\ s \in Sockets /\ E \in Seq(Bytes) /\ R \in Seq(Bytes) /\ R # <<>> /\ Len(R) \in Nat
      /\ all = Cat(E, R) /\ Framed(s.frames)
      /\ \A n \in DOMAIN s.frames : s.frames[n] # <<>>
  BY <1>1, EncodedBytes DEF WsOK, Sockets
<1>3. HeadLen \in Nat \ {0}
  BY FramingAssumption
<1>4. CASE Len(R) < HeadLen \/ Len(R) < HeadLen + len \/ len = 0
  <2>1. PICK dead : dead = [s EXCEPT !.die = TRUE]
    OBVIOUS
  <2>2. WsStep(s) = dead
    BY <1>1, <1>4, <2>1 DEF WsStep
  <2>3. dead \in Sockets /\ dead.die /\ dead.rest = R /\ dead.frames = s.frames
    BY <1>1, <1>2, <2>1 DEF Sockets
  <2>4. Stops(R)
    BY <1>1, <1>4 DEF Stops
  <2>. QED BY <1>1, <1>2, <2>2, <2>3, <2>4 DEF WsOK
<1>5. CASE ~(Len(R) < HeadLen \/ Len(R) < HeadLen + len \/ len = 0)
  <2>1. PICK t : t = SubSeq(R, HeadLen + 1, Len(R))
    OBVIOUS
  <2>2. /\ H \in Seq(Bytes) /\ t \in Seq(Bytes) /\ Len(H) = HeadLen /\ Len(t) = Len(R) - HeadLen
        /\ Cat(H, t) = R
    <3>1. HeadLen \in 0..Len(R)
      BY <1>2, <1>3, <1>5
    <3>. QED BY ONLY <1>1, <1>2, <2>1, <3>1, Cut
  <2>3. len \in Nat \ {0} /\ len <= Len(R) - HeadLen
    <3>1. len \in Nat
      BY <1>1, <2>2, ValueNat
    <3>. QED BY <1>2, <1>3, <1>5, <3>1
  <2>4. PICK x, y : x = SubSeq(R, HeadLen + 1, HeadLen + len) /\ y = SubSeq(R, HeadLen + len + 1, Len(R))
    OBVIOUS
  <2>5. x = SubSeq(t, 1, len) /\ y = SubSeq(t, len + 1, Len(t))
    <3>1. PICK L, n : L = HeadLen /\ n = Len(R) /\ L \in Nat \ {0} /\ n \in Nat /\ len \in 1..n - L
      BY <1>2, <1>3, <2>3
    <3>2. L + 1 \in 1..n /\ n \in 1..n /\ 1 \in 1..n - (L + 1) + 1 /\ len \in 1..n - (L + 1) + 1
      BY <3>1
    <3>3. SubSeq(t, 1, len) = SubSeq(R, (L + 1) + 1 - 1, (L + 1) + len - 1)
      BY ONLY <1>2, <2>1, <2>2, <3>1, <3>2, SubSeqOfSubSeq
    <3>4. (L + 1) + 1 - 1 = L + 1 /\ (L + 1) + len - 1 = L + len
      BY <3>1
    <3>5. SubSeq(t, len + 1, Len(t)) = y
      <4>1. CASE len + 1 <= n - L
        <5>1. len + 1 \in 1..n - (L + 1) + 1 /\ n - L \in 1..n - (L + 1) + 1
          BY <3>1, <4>1
        <5>2. SubSeq(t, len + 1, n - L) = SubSeq(R, (L + 1) + (len + 1) - 1, (L + 1) + (n - L) - 1)
          BY ONLY <1>2, <2>1, <2>2, <3>1, <3>2, <5>1, SubSeqOfSubSeq
        <5>3. (L + 1) + (len + 1) - 1 = L + len + 1 /\ (L + 1) + (n - L) - 1 = n /\ Len(t) = n - L
          BY <2>2, <3>1
        <5>. QED BY <2>4, <3>1, <5>2, <5>3
      <4>2. CASE ~(len + 1 <= n - L)
        <5>1. Len(t) < len + 1 /\ n < L + len + 1 /\ Len(t) \in Int /\ len + 1 \in Int /\ L + len + 1 \in Int
          BY <2>2, <3>1, <4>2
        <5>2. SubSeq(t, len + 1, Len(t)) = <<>> /\ SubSeq(R, L + len + 1, n) = <<>>
          BY ONLY <3>1, <5>1, SubSeqEmpty
        <5>. QED BY <2>4, <3>1, <5>2
      <4>. QED BY <4>1, <4>2
    <3>. QED BY <2>4, <3>1, <3>3, <3>4, <3>5
  <2>6. /\ x \in Seq(Bytes) /\ y \in Seq(Bytes) /\ Len(x) = len /\ Len(y) = Len(t) - len
        /\ Cat(x, y) = t
    <3>1. len \in 0..Len(t)
      BY <1>2, <1>3, <2>2, <2>3
    <3>. QED BY ONLY <2>2, <2>5, <3>1, Cut
  <2>7. PICK u : u = Emitted(s, x, y)
    OBVIOUS
  <2>8. WsStep(s) = u
    <3>1. /\ s.rest = R /\ H = SubSeq(R, 1, HeadLen) /\ len = Value(H)
          /\ ~(Len(R) < HeadLen \/ Len(R) < HeadLen + len \/ len = 0)
          /\ x = SubSeq(R, HeadLen + 1, HeadLen + len) /\ y = SubSeq(R, HeadLen + len + 1, Len(R))
      BY <1>1, <1>5, <2>4
    <3>. QED BY ONLY <2>7, <3>1 DEF WsStep
  <2>9. u.frames = Append(s.frames, x) /\ u.rest = y /\ ~u.die /\ u \in Sockets
    <3>1. s.frames \in Seq(Seq(Bytes)) /\ s \in Sockets /\ ~s.die /\ <<>> \in Seq(Bytes)
      BY <1>2 DEF Sockets
    <3>2. PICK fs : fs = Append(s.frames, x) /\ fs \in Seq(Seq(Bytes))
      <4>1. PICK S, q : S = Seq(Bytes) /\ q = s.frames
        OBVIOUS
      <4>2. q \in Seq(S) /\ x \in S
        BY <2>6, <3>1, <4>1
      <4>3. Append(q, x) \in Seq(S)
        BY ONLY <4>2, AppendProperties
      <4>. QED BY <4>1, <4>3
    <3>3. u = [s EXCEPT !.frames = fs, !.rest = y, !.len = 0, !.headBuf = <<>>, !.buffer = <<>>]
      BY <2>7, <3>2 DEF Emitted
    <3>4. y \in Seq(Bytes)
      BY <2>6
    <3>. QED BY ONLY <3>1, <3>2, <3>3, <3>4 DEF Sockets
  <2>10. PICK fs, gs : fs = s.frames /\ gs = Append(fs, x)
    OBVIOUS
  <2>11. Framed(gs) /\ Encoded(gs) = Cat(E, Cat(H, x))
    <3>1. Framed(fs) /\ H \in Seq(Bytes) /\ Len(H) = HeadLen /\ x \in Seq(Bytes) /\ Len(x) = Value(H)
      BY <1>1, <1>2, <2>2, <2>6, <2>10
    <3>2. Framed(Append(fs, x)) /\ Encoded(Append(fs, x)) = Cat(Encoded(fs), Cat(H, x))
      BY ONLY <3>1, EncodedAppend DEF Cat
    <3>. QED BY <1>1, <2>10, <3>2
  <2>12. all = Cat(Encoded(gs), y)
    <3>1. E \in Seq(Bytes) /\ H \in Seq(Bytes) /\ x \in Seq(Bytes) /\ y \in Seq(Bytes)
      BY <1>2, <2>2, <2>6
    <3>2. Cat(Cat(E, Cat(H, x)), y) = Cat(E, Cat(H, Cat(x, y)))
      BY ONLY <3>1, Regroup
    <3>. QED BY <1>2, <2>2, <2>6, <2>11, <3>2
  <2>13. \A n \in DOMAIN gs : gs[n] # <<>>
    <3>1. PICK k, S : k = Len(fs) /\ S = Seq(Bytes)
      OBVIOUS
    <3>2. fs \in Seq(S) /\ x \in S /\ k \in Nat /\ DOMAIN fs = 1..k
      BY <1>2, <2>6, <2>10, <3>1 DEF Sockets
    <3>3. gs \in Seq(S) /\ DOMAIN gs = 1..k + 1 /\ gs[k + 1] = x /\ \A i \in 1..k : gs[i] = fs[i]
      BY ONLY <2>10, <3>1, <3>2, AppendProperties, LenProperties
    <3>4. x # <<>>
      BY <2>3, <2>6
    <3>5. \A i \in 1..k : fs[i] # <<>>
      BY <1>2, <2>10, <3>2
    <3>6. \A i \in 1..k + 1 : i = k + 1 \/ i \in 1..k
      BY <3>2
    <3>. QED BY ONLY <3>3, <3>4, <3>5, <3>6
  <2>14. WsOK(all, u)
    BY <2>9, <2>10, <2>11, <2>12, <2>13 DEF WsOK
  <2>15. Len(y) < Len(R)
    BY <1>2, <1>3, <2>2, <2>3, <2>6
  <2>. QED BY <1>1, <2>8, <2>9, <2>14, <2>15
<1>. QED BY <1>4, <1>5

(***************************************************************************)
(* The loops.                                                              *)
(***************************************************************************)

\* The condition of the loops, one turn, and all of them: the fold, unfolded.
Ended(s) == s.die \/ s.rest = <<>>
Turn(tr, s) == IF Ended(s) THEN s ELSE IF tr = "tcp" THEN TcpStep(s) ELSE WsStep(s)
Looped(tr, s) ==
    (CHOOSE g : g = [S \in SUBSET DOMAIN [i \in DOMAIN s.rest |-> i] |->
        IF S = {} THEN s ELSE Turn(tr, g[S \ {Max(S)}])])[DOMAIN [i \in DOMAIN s.rest |-> i]]

LEMMA TcpLoopDef == ASSUME NEW s PROVE Loop(TcpStep, s) = Looped("tcp", s)
BY DEF Loop, FoldLeft, MapThenFoldSet, Looped, Turn, Ended

LEMMA WsLoopDef == ASSUME NEW s PROVE Loop(WsStep, s) = Looped("ws", s)
BY DEF Loop, FoldLeft, MapThenFoldSet, Looped, Turn, Ended

\* What either loop keeps.
Good(tr, all, s) == IF tr = "tcp" THEN TcpOK(all, s) ELSE WsOK(all, s)

LEMMA TurnGood ==
    ASSUME NEW tr \in {"tcp", "ws"}, NEW all, NEW s, Good(tr, all, s)
    PROVE  /\ Good(tr, all, Turn(tr, s)) /\ s \in Sockets
           /\ Ended(Turn(tr, s)) \/ Len(Turn(tr, s).rest) < Len(s.rest)
<1>1. s \in Sockets
  BY DEF Good, TcpOK, WsOK
<1>2. CASE Ended(s)
  <2>1. Turn(tr, s) = s
    BY <1>2 DEF Turn
  <2>. QED BY <1>1, <1>2, <2>1
<1>3. CASE ~Ended(s) /\ tr = "tcp"
  <2>1. Turn(tr, s) = TcpStep(s) /\ ~s.die /\ s.rest # <<>> /\ TcpOK(all, s)
    BY <1>3 DEF Turn, Ended, Good
  <2>2. CASE s.len = 0
    <3>1. Turn(tr, s) = HeadStep(s)
      BY <2>1, <2>2 DEF TcpStep
    <3>2. TcpOK(all, HeadStep(s)) /\ Len(HeadStep(s).rest) < Len(s.rest)
      BY <2>1, <2>2, HeadStepOK
    <3>. QED BY <1>1, <1>3, <3>1, <3>2 DEF Good
  <2>3. CASE s.len # 0
    <3>1. Turn(tr, s) = BodyStep(s)
      BY <2>1, <2>3 DEF TcpStep
    <3>2. TcpOK(all, BodyStep(s)) /\ Len(BodyStep(s).rest) < Len(s.rest)
      BY <2>1, <2>3, BodyStepOK
    <3>. QED BY <1>1, <1>3, <3>1, <3>2 DEF Good
  <2>. QED BY <2>2, <2>3
<1>4. CASE ~Ended(s) /\ tr # "tcp"
  <2>1. Turn(tr, s) = WsStep(s) /\ ~s.die /\ s.rest # <<>> /\ WsOK(all, s)
    BY <1>4 DEF Turn, Ended, Good
  <2>2. WsOK(all, WsStep(s)) /\ (WsStep(s).die \/ Len(WsStep(s).rest) < Len(s.rest))
    BY <2>1, WsStepOK
  <2>. QED BY <1>1, <1>4, <2>1, <2>2 DEF Good, Ended
<1>. QED BY <1>2, <1>3, <1>4

\* As many turns as there are bytes are enough.
LEMMA LoopEnds ==
    ASSUME NEW tr \in {"tcp", "ws"}, NEW all, NEW s, Good(tr, all, s)
    PROVE  Good(tr, all, Looped(tr, s)) /\ Ended(Looped(tr, s))
<1>1. s \in Sockets
  BY TurnGood
<1>2. PICK n, D : n = Len(s.rest) /\ n \in Nat /\ D = DOMAIN [i \in DOMAIN s.rest |-> i] /\ D = 1..n
  BY <1>1 DEF Sockets
<1>3. PICK A : A = {t \in Sockets : Good(tr, all, t)}
  OBVIOUS
<1>4. \A t \in A : Turn(tr, t) \in A /\ (Ended(Turn(tr, t)) \/ Len(Turn(tr, t).rest) < Len(t.rest))
  <2> SUFFICES ASSUME NEW t \in A
               PROVE  Turn(tr, t) \in A /\ (Ended(Turn(tr, t)) \/ Len(Turn(tr, t).rest) < Len(t.rest))
    OBVIOUS
  <2>1. Good(tr, all, t)
    BY <1>3
  <2>2. Good(tr, all, Turn(tr, t)) /\ (Ended(Turn(tr, t)) \/ Len(Turn(tr, t).rest) < Len(t.rest))
    BY <2>1, TurnGood
  <2>3. Turn(tr, t) \in Sockets
    BY <2>2, TurnGood
  <2>. QED BY <1>3, <2>2, <2>3
<1>5. PICK G : G = [i \in 1..n |-> [t \in A |-> Turn(tr, t)]]
  OBVIOUS
<1>6. G \in [1..n -> [A -> A]] /\ \A i \in 1..n : \A t \in A : G[i][t] = Turn(tr, t)
  BY <1>4, <1>5
<1>7. s \in A
  BY <1>1, <1>3
<1>8. PICK w \in [SUBSET (1..n) -> A] : FoldOf(w, n, s, G)
  BY <1>2, <1>6, <1>7, FoldExists
<1>9. ASSUME NEW S \in SUBSET D, S # {} PROVE Max(S) \in D /\ S \ {Max(S)} \in SUBSET D
  BY <1>2, <1>9, Largest
<1>10. w = [S \in SUBSET D |-> IF S = {} THEN s ELSE Turn(tr, w[S \ {Max(S)}])]
  <2>1. ASSUME NEW S \in SUBSET D
        PROVE  w[S] = IF S = {} THEN s ELSE Turn(tr, w[S \ {Max(S)}])
    <3>1. w[S] = IF S = {} THEN s ELSE G[Max(S)][w[S \ {Max(S)}]]
      BY <1>2, <1>8 DEF FoldOf
    <3>2. CASE S = {}
      BY <3>1, <3>2
    <3>3. CASE S # {}
      <4>1. PICK m, T : m = Max(S) /\ T = S \ {Max(S)} /\ m \in D /\ T \in SUBSET D
        BY <1>9, <3>3
      <4>2. w[T] \in A
        BY <1>2, <1>8, <4>1
      <4>3. G[m][w[T]] = Turn(tr, w[T])
        BY <1>2, <1>6, <4>1, <4>2
      <4>. QED BY <3>1, <3>3, <4>1, <4>3
    <3>. QED BY <3>2, <3>3
  <2>. QED BY <1>2, <1>8, <2>1
<1>11. PICK g : g = CHOOSE f : f = [S \in SUBSET D |-> IF S = {} THEN s ELSE Turn(tr, f[S \ {Max(S)}])]
  OBVIOUS
<1>12. g = [S \in SUBSET D |-> IF S = {} THEN s ELSE Turn(tr, g[S \ {Max(S)}])]
  <2>1. \E f : f = [S \in SUBSET D |-> IF S = {} THEN s ELSE Turn(tr, f[S \ {Max(S)}])]
    BY <1>10
  <2>2. LET R(f) == f = [S \in SUBSET D |-> IF S = {} THEN s ELSE Turn(tr, f[S \ {Max(S)}])]
        IN  (\E f : R(f)) => R(CHOOSE f : R(f))
    BY Zenon
  <2>. QED BY <1>11, <2>1, <2>2
<1>13. Looped(tr, s) = g[D]
  BY <1>2, <1>11 DEF Looped
<1>14. PICK h : h = [i \in 0..n |-> g[1..i]]
  OBVIOUS
<1>15. h[0] = s
  <2>1. 1..0 = {} /\ {} \in SUBSET D
    OBVIOUS
  <2>2. g[{}] = s
    BY <1>12, <2>1
  <2>. QED BY <1>2, <1>14, <2>1, <2>2
<1>16. ASSUME NEW i \in 1..n PROVE h[i] = Turn(tr, h[i - 1])
  <2>1. PICK S : S = 1..i /\ S \in SUBSET D /\ S # {} /\ Max(S) = i /\ S \ {i} = 1..(i - 1)
    BY <1>2, FirstPositions
  <2>2. g[S] = Turn(tr, g[S \ {Max(S)}])
    BY <1>12, <2>1
  <2>3. h[i] = g[S] /\ h[i - 1] = g[S \ {i}]
    <3>1. i \in 0..n /\ i - 1 \in 0..n
      BY <1>2
    <3>2. h[i] = g[1..i] /\ h[i - 1] = g[1..(i - 1)]
      BY <1>14, <3>1
    <3>. QED BY <2>1, <3>2
  <2>. QED BY <2>1, <2>2, <2>3
<1> DEFINE Near(i) == h[i] \in A /\ (Ended(h[i]) \/ Len(h[i].rest) <= n - i)
<1>17. \A i \in 0..n : Near(i)
  <2>1. PICK Bad : Bad = {i \in 0..n : ~Near(i)}
    OBVIOUS
  <2>2. SUFFICES ASSUME Bad # {} PROVE FALSE
    BY <2>1
  <2>3. Bad \in SUBSET Nat
    BY <2>1
  <2>4. PICK k \in Bad : \A j \in Bad : k <= j
    BY <2>2, <2>3, Least
  <2>5. Near(0)
    BY <1>2, <1>7, <1>15
  <2>6. k \in 1..n
    BY <1>2, <2>1, <2>4, <2>5
  <2>7. Near(k - 1)
    <3>1. k - 1 \in 0..n /\ k - 1 < k
      BY <1>2, <2>6
    <3>. QED BY <2>1, <2>4, <2>6, <3>1
  <2>8. PICK t, u : t = h[k - 1] /\ u = h[k] /\ u = Turn(tr, t) /\ t \in A
    BY <1>16, <2>6, <2>7
  <2>9. u \in A /\ (Ended(u) \/ Len(u.rest) < Len(t.rest))
    BY <1>4, <2>8
  <2>10. Len(u.rest) \in Nat /\ Len(t.rest) \in Nat
    BY <1>3, <2>8, <2>9 DEF Sockets
  <2>11. Ended(t) => Ended(u)
    BY <2>8 DEF Turn
  <2>12. Ended(u) \/ Len(u.rest) <= n - k
    <3>1. Ended(t) \/ Len(t.rest) <= n - (k - 1)
      BY <2>7, <2>8
    <3>. QED BY <1>2, <2>6, <2>9, <2>10, <2>11, <3>1
  <2>13. Near(k)
    BY <2>8, <2>9, <2>12
  <2>. QED BY <2>1, <2>4, <2>13
<1>18. Near(n) /\ h[n] = g[D]
  <2>1. n \in 0..n
    BY <1>2
  <2>. QED BY <1>2, <1>14, <1>17, <2>1
<1>19. Ended(h[n])
  <2>1. Len(h[n].rest) <= n - n => h[n].rest = <<>>
    <3>1. h[n].rest \in Seq(Bytes)
      BY <1>3, <1>18 DEF Sockets
    <3>2. Len(h[n].rest) <= 0 => h[n].rest = <<>>
      BY <3>1
    <3>. QED BY <1>2, <3>2
  <2>. QED BY <1>18, <2>1 DEF Ended
<1>. QED BY <1>3, <1>13, <1>18, <1>19

(***************************************************************************)
(* The specification.                                                      *)
(***************************************************************************)

Kind == IF transport = "tcp" THEN "tcp" ELSE "ws"

\* The inductive invariant; between two pieces the loop has ended.
FInv == stream \in Seq(Bytes) /\ Good(Kind, stream, socket) /\ Ended(socket)

LEMMA InitInv == Init => FInv
<1> SUFFICES ASSUME Init PROVE FInv
  OBVIOUS
<1>1. stream = <<>> /\ socket = NewSocket
  BY DEF Init
<1>2. /\ NewSocket.frames = <<>> /\ NewSocket.rest = <<>> /\ NewSocket.die = FALSE /\ NewSocket.len = 0
      /\ NewSocket.headBuf = <<>> /\ NewSocket.buffer = <<>>
  BY DEF NewSocket
<1>3. NewSocket \in Sockets
  <2>1. <<>> \in Seq(Bytes) /\ <<>> \in Seq(Seq(Bytes)) /\ 0 \in Nat
    OBVIOUS
  <2>. QED BY <2>1 DEF NewSocket, Sockets
<1>4. Cat(<<>>, <<>>) = <<>>
  BY DEF Cat
<1>5. TcpOK(<<>>, NewSocket)
  <2>1. Taken(NewSocket) = <<>>
    BY <1>2, <1>4, NoFrames DEF Taken
  <2>2. InLimits(<<>>)
    BY DEF InLimits
  <2>3. Reading(NewSocket)
    BY <1>2, FramingAssumption DEF Reading
  <2>. QED BY <1>2, <1>3, <1>4, <2>1, <2>2, <2>3, NoFrames DEF TcpOK
<1>6. WsOK(<<>>, NewSocket)
  BY <1>2, <1>3, <1>4, NoFrames DEF WsOK
<1>. QED BY <1>1, <1>2, <1>5, <1>6 DEF FInv, Good, Ended

\* What arrives is what is left to take.
LEMMA Arrives ==
    ASSUME NEW tr \in {"tcp", "ws"}, NEW all \in Seq(Bytes), NEW s, Good(tr, all, s), s.rest = <<>>, ~s.die,
           NEW data \in Seq(Bytes)
    PROVE  Good(tr, Cat(all, data), [s EXCEPT !.rest = data])
<1>1. PICK t : t = [s EXCEPT !.rest = data]
  OBVIOUS
<1>2. s \in Sockets
  BY TurnGood
<1>3. /\ t \in Sockets /\ t.rest = data /\ t.frames = s.frames /\ t.headBuf = s.headBuf
      /\ t.buffer = s.buffer /\ t.len = s.len /\ t.die = s.die
  BY <1>1, <1>2 DEF Sockets
<1>4. PICK E : E = Encoded(s.frames) /\ E \in Seq(Bytes) /\ Framed(s.frames)
  BY EncodedBytes DEF Good, TcpOK, WsOK
<1>5. CASE tr = "tcp"
  <2>1. TcpOK(all, s)
    BY <1>5 DEF Good
  <2>2. Taken(s) \in Seq(Bytes)
    BY <1>2, <1>4, CatIs DEF Taken, Sockets
  <2>3. all = Taken(s)
    BY <2>1, <2>2, CatIs DEF TcpOK
  <2>4. Taken(t) = Taken(s) /\ (Reading(t) <=> Reading(s))
    BY <1>3 DEF Taken, Reading
  <2>5. TcpOK(Cat(all, data), t)
    BY <1>3, <2>1, <2>3, <2>4 DEF TcpOK
  <2>. QED BY <1>1, <1>5, <2>5 DEF Good
<1>6. CASE tr # "tcp"
  <2>1. WsOK(all, s)
    BY <1>6 DEF Good
  <2>2. all = E
    BY <1>4, <2>1, CatIs DEF WsOK
  <2>3. WsOK(Cat(all, data), t)
    BY <1>3, <1>4, <2>1, <2>2 DEF WsOK
  <2>. QED BY <1>1, <1>6, <2>3 DEF Good
<1>. QED BY <1>5, <1>6

LEMMA NextInv == ASSUME FInv, [Next]_vars PROVE FInv'
<1>1. CASE UNCHANGED vars
  BY <1>1 DEF vars, FInv, Kind
<1>2. CASE OnData
  <2>1. PICK n \in 1..StreamMax - Len(stream) : \E data \in [1..n -> 0..Base - 1] :
           /\ stream' = stream \o data
           /\ socket' = IF transport = "tcp" THEN Decode(socket, data) ELSE WsDecode(socket, data)
    BY <1>2 DEF OnData
  <2>2. PICK data \in [1..n -> 0..Base - 1] :
           /\ stream' = stream \o data
           /\ socket' = IF transport = "tcp" THEN Decode(socket, data) ELSE WsDecode(socket, data)
    BY <2>1
  <2>3. ~socket.die /\ transport' = transport
    BY <1>2 DEF OnData
  <2>4. data \in Seq(Bytes)
    <3>1. n \in Nat
      <4>1. StreamMax - Len(stream) \in Int
        BY FramingAssumption DEF FInv
      <4>. QED BY <4>1
    <3>2. PICK S : S = Bytes
      OBVIOUS
    <3>3. data \in [1..n -> S]
      BY <3>2 DEF Bytes
    <3>4. data \in Seq(S)
      BY ONLY <3>1, <3>3
    <3>. QED BY <3>2, <3>4
  <2>5. PICK t : t = [socket EXCEPT !.rest = data]
    OBVIOUS
  <2>6. stream' = Cat(stream, data) /\ stream' \in Seq(Bytes)
    <3>1. stream \in Seq(Bytes)
      BY DEF FInv
    <3>2. stream' = Cat(stream, data)
      BY <2>2 DEF Cat
    <3>. QED BY <2>4, <3>1, <3>2, CatIs
  <2>7. Kind \in {"tcp", "ws"} /\ Kind' = Kind
    BY <2>3 DEF Kind
  <2>8. Good(Kind, Cat(stream, data), t)
    <3>1. /\ stream \in Seq(Bytes) /\ Good(Kind, stream, socket) /\ socket.rest = <<>> /\ ~socket.die
      BY <2>3 DEF FInv, Ended
    <3>. QED BY <2>4, <2>5, <2>7, <3>1, Arrives
  <2>9. socket' = Looped(Kind, t)
    <3>1. CASE transport = "tcp"
      <4>1. socket' = Loop(TcpStep, t)
        BY <2>2, <2>5, <3>1 DEF Decode
      <4>. QED BY <3>1, <4>1, TcpLoopDef DEF Kind
    <3>2. CASE transport # "tcp"
      <4>1. socket' = Loop(WsStep, t)
        BY <2>2, <2>5, <3>2 DEF WsDecode
      <4>. QED BY <3>2, <4>1, WsLoopDef DEF Kind
    <3>. QED BY <3>1, <3>2
  <2>10. Good(Kind, stream', socket') /\ Ended(socket')
    <3>1. Good(Kind, stream', t)
      BY <2>6, <2>8
    <3>2. Good(Kind, stream', Looped(Kind, t)) /\ Ended(Looped(Kind, t))
      BY ONLY <2>7, <3>1, LoopEnds
    <3>. QED BY <2>9, <3>2
  <2>11. Good(Kind', stream', socket')
    BY <2>7, <2>10
  <2>. QED BY <2>6, <2>10, <2>11 DEF FInv, Ended, Good, Kind
<1>. QED BY <1>1, <1>2 DEF Next

\* The inductive invariant: what was read is what was emitted, encoded, with
\* what the fields of the decoder hold behind it, in every state (decode,
\* onData).
THEOREM FramingInvariance == Spec => []FInv
BY InitInv, NextInv, PTL DEF Spec

\* A sequence that is put in front of another can be taken away again.
LEMMA Apart ==
    ASSUME NEW S, NEW e \in Seq(S), NEW m \in Seq(S)
    PROVE  /\ Cat(e, m) \in Seq(S) /\ Len(Cat(e, m)) = Len(e) + Len(m)
           /\ SubSeq(Cat(e, m), 1, Len(e)) = e
           /\ SubSeq(Cat(e, m), Len(e) + 1, Len(Cat(e, m))) = m
<1>0. PICK q : q = Cat(e, m)
  OBVIOUS
<1>1. PICK k, n : k = Len(e) /\ n = Len(m) /\ k \in Nat /\ n \in Nat
  <2>1. Len(e) \in Nat /\ Len(m) \in Nat
    OBVIOUS
  <2>. QED BY <2>1, Zenon
<1>2. /\ q \in Seq(S) /\ Len(q) = k + n
      /\ \A i \in 1..k + n : q[i] = IF i <= k THEN e[i] ELSE m[i - k]
  BY <1>0, <1>1, ConcatProperties DEF Cat
<1>3. \A i \in 1..k + n : q[i] \in S
  BY <1>2, ElementOfSeq
<1>4. PICK x, y : x = SubSeq(q, 1, k) /\ y = SubSeq(q, k + 1, k + n)
  OBVIOUS
<1>5. x \in Seq(S) /\ Len(x) = k /\ \A i \in 1..k : x[i] = q[i]
  <2>1. 1 \in Int /\ k \in Int /\ \A i \in 1..k : q[i] \in S
    BY <1>1, <1>3
  <2>2. /\ x \in Seq(S) /\ Len(x) = (IF 1 <= k THEN k - 1 + 1 ELSE 0)
        /\ \A i \in 1..k - 1 + 1 : x[i] = q[1 + i - 1]
    BY ONLY <1>4, <2>1, SubSeqProperties
  <2>3. k - 1 + 1 = k /\ \A i \in 1..k : 1 + i - 1 = i
    BY <1>1
  <2>. QED BY <1>1, <2>2, <2>3
<1>6. y \in Seq(S) /\ Len(y) = n /\ \A i \in 1..n : y[i] = q[k + i]
  <2>1. k + 1 \in Int /\ k + n \in Int /\ \A i \in k + 1..k + n : q[i] \in S
    BY <1>1, <1>3
  <2>2. /\ y \in Seq(S) /\ Len(y) = (IF k + 1 <= k + n THEN (k + n) - (k + 1) + 1 ELSE 0)
        /\ \A i \in 1..(k + n) - (k + 1) + 1 : y[i] = q[(k + 1) + i - 1]
    BY ONLY <1>4, <2>1, SubSeqProperties
  <2>3. (k + n) - (k + 1) + 1 = n /\ \A i \in 1..n : (k + 1) + i - 1 = k + i
    BY <1>1
  <2>. QED BY <1>1, <2>2, <2>3
<1>7. x = e
  <2>1. \A i \in 1..k : x[i] = e[i]
    BY <1>1, <1>2, <1>5
  <2>. QED BY <1>1, <1>5, <2>1, SeqEqual
<1>8. y = m
  <2>1. \A i \in 1..n : y[i] = m[i]
    <3>1. ASSUME NEW i \in 1..n PROVE y[i] = m[i]
      <4>1. k + i \in 1..k + n /\ ~(k + i <= k) /\ (k + i) - k = i
        BY <1>1
      <4>. QED BY <1>2, <1>6, <4>1
    <3>. QED BY <3>1
  <2>. QED BY <1>1, <1>6, <2>1, SeqEqual
<1>. QED BY <1>0, <1>1, <1>2, <1>4, <1>7, <1>8

LEMMA EmittedIsPrefix ==
    ASSUME NEW S, NEW e \in Seq(S), NEW m \in Seq(S)
    PROVE  IsPrefix(e, Cat(e, m))
<1>1. /\ Len(Cat(e, m)) = Len(e) + Len(m) /\ SubSeq(Cat(e, m), 1, Len(e)) = e
  BY ONLY Apart
<1>2. Len(e) \in Nat /\ Len(m) \in Nat
  BY ONLY e \in Seq(S), m \in Seq(S)
<1>3. SubSeq(e, 1, Len(e)) = e
  BY SubSeqFull
<1>. QED BY <1>1, <1>2, <1>3 DEF IsPrefix

LEMMA TcpExact ==
    ASSUME FInv
    PROVE  DecodeExact
<1> SUFFICES ASSUME transport = "tcp"
             PROVE  LET begun == Len(Remainder) >= HeadLen
                        fs    == socket.frames
                    IN  /\ IsPrefix(Encoded(fs), stream)
                        /\ \A n \in DOMAIN fs : ~BadLength(Len(fs[n]), SubSeq(fs, 1, n - 1))
                        /\ socket.die <=> begun /\ BadLength(NextLen, fs)
                        /\ begun /\ ~socket.die => Len(Remainder) < HeadLen + NextLen
  BY DEF DecodeExact
<1>1. TcpOK(stream, socket) /\ Ended(socket)
  BY DEF FInv, Good, Kind
<1>2. PICK E, H, B, R, fs : /\ E = Encoded(fs) /\ H = socket.headBuf /\ B = socket.buffer
                            /\ R = socket.rest /\ fs = socket.frames
  OBVIOUS
<1>3. /\ socket \in Sockets /\ E \in Seq(Bytes) /\ H \in Seq(Bytes) /\ B \in Seq(Bytes) /\ R \in Seq(Bytes)
      /\ stream = Cat(Cat(E, Cat(H, B)), R) /\ InLimits(fs)
      /\ Reading(socket) /\ Framed(fs)
  BY <1>1, <1>2, EncodedBytes DEF TcpOK, Sockets, Taken
<1>4. PICK N, M : N = Cat(B, R) /\ M = Cat(H, N)
  OBVIOUS
<1>5. stream = Cat(E, M) /\ N \in Seq(Bytes) /\ M \in Seq(Bytes) /\ Len(M) = Len(H) + Len(N)
  <2>1. Cat(Cat(E, Cat(H, B)), R) = Cat(E, Cat(H, Cat(B, R)))
    BY <1>3, Regroup
  <2>2. N \in Seq(Bytes) /\ Len(N) = Len(B) + Len(R)
    <3>1. Cat(B, R) \in Seq(Bytes) /\ Len(Cat(B, R)) = Len(B) + Len(R)
      BY ONLY <1>3, CatIs
    <3>. QED BY <1>4, <3>1
  <2>3. M \in Seq(Bytes) /\ Len(M) = Len(H) + Len(N)
    <3>1. Cat(H, N) \in Seq(Bytes) /\ Len(Cat(H, N)) = Len(H) + Len(N)
      BY ONLY <1>3, <2>2, CatIs
    <3>. QED BY <1>4, <3>1
  <2>. QED BY <1>3, <1>4, <2>1, <2>2, <2>3
<1>6. Remainder = M /\ IsPrefix(E, stream)
  <2>1. SubSeq(stream, Len(E) + 1, Len(stream)) = M
    <3>0. E \in Seq(Bytes) /\ M \in Seq(Bytes)
      BY <1>3, <1>5
    <3>1. SubSeq(Cat(E, M), Len(E) + 1, Len(Cat(E, M))) = M
      BY ONLY <3>0, Apart
    <3>. QED BY <1>5, <3>1
  <2>2. IsPrefix(E, stream)
    <3>1. IsPrefix(E, Cat(E, M))
      BY ONLY <1>3, <1>5, EmittedIsPrefix
    <3>. QED BY <1>5, <3>1
  <2>. QED BY <1>2, <2>1, <2>2 DEF Remainder
<1>7. HeadLen \in Nat \ {0} /\ Len(H) \in Nat /\ Len(N) \in Nat /\ Len(B) \in Nat
  BY <1>3, <1>5, FramingAssumption
<1>8. Len(H) = HeadLen => NextLen = Value(H) /\ Len(Remainder) >= HeadLen
  <2>1. SubSeq(M, 1, Len(H)) = H
    <3>1. SubSeq(Cat(H, N), 1, Len(H)) = H
      BY ONLY <1>3, <1>5, Apart
    <3>. QED BY <1>4, <3>1
  <2>2. SUFFICES ASSUME Len(H) = HeadLen PROVE NextLen = Value(H) /\ Len(Remainder) >= HeadLen
    OBVIOUS
  <2>3. SubSeq(Remainder, 1, HeadLen) = H
    BY <1>6, <2>1, <2>2
  <2>4. NextLen = Value(H)
    BY <2>3 DEF NextLen
  <2>5. Len(M) >= HeadLen
    BY <1>5, <1>7, <2>2
  <2>. QED BY <1>6, <2>4, <2>5
<1>9. CASE socket.die
  <2>1. Len(H) = HeadLen /\ BadLength(Value(H), fs)
    BY <1>2, <1>3, <1>9 DEF Reading
  <2>. QED BY <1>2, <1>3, <1>6, <1>8, <1>9, <2>1 DEF InLimits
<1>10. CASE ~socket.die
  <2>1. R = <<>> /\ N = B
    <3>1. R = <<>>
      BY <1>1, <1>2, <1>10 DEF Ended
    <3>. QED BY <1>3, <1>4, <3>1, CatIs
  <2>2. CASE socket.len = 0
    <3>1. Len(H) < HeadLen /\ B = <<>>
      BY <1>2, <1>3, <1>10, <2>2 DEF Reading
    <3>2. ~(Len(Remainder) >= HeadLen)
      BY <1>5, <1>6, <1>7, <2>1, <3>1
    <3>. QED BY <1>2, <1>3, <1>6, <1>10, <3>2 DEF InLimits
  <2>3. CASE socket.len # 0
    <3>1. /\ Len(H) = HeadLen /\ ~BadLength(Value(H), fs) /\ socket.len + Len(B) = Value(H)
          /\ socket.len \in Nat \ {0}
      BY <1>2, <1>3, <1>10, <2>3 DEF Reading, Sockets
    <3>2. Len(Remainder) < HeadLen + NextLen
      BY <1>5, <1>6, <1>7, <1>8, <2>1, <3>1
    <3>. QED BY <1>2, <1>3, <1>6, <1>8, <1>10, <3>1, <3>2 DEF InLimits
  <2>. QED BY <2>2, <2>3
<1>. QED BY <1>9, <1>10

LEMMA WsExact ==
    ASSUME FInv
    PROVE  WsDecodeExact
<1> SUFFICES ASSUME transport = "ws"
             PROVE  /\ IsPrefix(Encoded(socket.frames), stream)
                    /\ \A n \in DOMAIN socket.frames : socket.frames[n] # <<>>
                    /\ socket.die <=> Remainder # <<>>
                    /\ Len(Remainder) >= HeadLen => NextLen = 0 \/ Len(Remainder) < HeadLen + NextLen
  BY DEF WsDecodeExact
<1>1. WsOK(stream, socket) /\ Ended(socket)
  BY DEF FInv, Good, Kind
<1>2. PICK E, R : E = Encoded(socket.frames) /\ R = socket.rest
  OBVIOUS
<1>3. /\ E \in Seq(Bytes) /\ R \in Seq(Bytes) /\ stream = Cat(E, R)
      /\ \A n \in DOMAIN socket.frames : socket.frames[n] # <<>>
      /\ socket.die => R # <<>> /\ Stops(R)
      /\ socket.die \/ R = <<>>
  BY <1>1, <1>2, EncodedBytes DEF WsOK, Sockets, Ended
<1>4. Remainder = R /\ IsPrefix(E, stream)
  <2>1. SubSeq(stream, Len(E) + 1, Len(stream)) = R
    <3>0. E \in Seq(Bytes) /\ R \in Seq(Bytes)
      BY <1>3
    <3>1. SubSeq(Cat(E, R), Len(E) + 1, Len(Cat(E, R))) = R
      BY ONLY <3>0, Apart
    <3>. QED BY <1>3, <3>1
  <2>2. IsPrefix(E, stream)
    <3>1. IsPrefix(E, Cat(E, R))
      BY ONLY <1>3, EmittedIsPrefix
    <3>. QED BY <1>3, <3>1
  <2>. QED BY <1>2, <2>1, <2>2 DEF Remainder
<1>5. Len(R) >= HeadLen => NextLen = 0 \/ Len(R) < HeadLen + NextLen
  <2>1. HeadLen \in Nat \ {0} /\ Len(R) \in Nat
    BY <1>3, FramingAssumption
  <2>2. R = <<>> => Len(R) = 0
    OBVIOUS
  <2>3. socket.die => Stops(R)
    BY <1>3
  <2>. QED BY <1>3, <1>4, <2>1, <2>2, <2>3 DEF Stops, NextLen
<1>. QED BY <1>2, <1>3, <1>4, <1>5

\* For any cutting of the stream into pieces decode emits its frames, whole, in
\* order and as soon as they are there, and stops at the first bad length.
THEOREM FramesDecoded == Spec => []DecodeExact
BY FramingInvariance, TcpExact, PTL

\* A websocket's messages are taken apart into their frames, up to the first that
\* is anything else.
THEOREM MessagesDecoded == Spec => []WsDecodeExact
BY FramingInvariance, WsExact, PTL

=============================================================================
