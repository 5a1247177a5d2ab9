----------------------------- MODULE BufferProofs -----------------------------
(***************************************************************************)
(* Proofs about Buffer, for any size of the vector, of kCheapPrepend and   *)
(* of extrabuf, and any bytes.                                             *)
(*                                                                         *)
(* The inductive invariant is TypeOK with IndicesOrdered and               *)
(* GrowthBounded.  Every operation is Becomes(b) of a state b of the       *)
(* members, and the lemmas say what is in b.                               *)
(***************************************************************************)
EXTENDS Buffer, SequenceTheorems, TLAPS

(* A state of the members that append may start from.                      *)
Good(b) ==
    /\ b.size \in Nat /\ b.mem \in [0..(b.size - 1) -> Byte]
    /\ b.r \in Nat /\ b.w \in Nat
    /\ kCheapPrepend <= b.r /\ b.r <= b.w /\ b.w <= b.size

Bytes(b) == [i \in 1..(b.w - b.r) |-> b.mem[b.r + i - 1]]

(* ensureWriteableBytes, by makeSpace's resize or its copy: there is room  *)
(* for len more bytes, and those that were in the buffer are still there.  *)
LEMMA EnsureMakesRoom ==
    ASSUME NEW b, Good(b), NEW len \in Nat
    PROVE  LET e == EnsureWriteableBytes(b, len)
           IN  /\ Good(e)
               /\ e.w + len <= e.size
               /\ e.w - e.r = b.w - b.r
               /\ \A i \in 0..(b.w - b.r - 1) : e.mem[e.r + i] = b.mem[b.r + i]
               /\ e.size # b.size => e.size <= kCheapPrepend + (b.w - b.r) + 2 * len
<1> DEFINE e == EnsureWriteableBytes(b, len)
<1>0. /\ b.size \in Nat /\ b.r \in Nat /\ b.w \in Nat /\ kCheapPrepend \in Nat
      /\ kCheapPrepend <= b.r /\ b.r <= b.w /\ b.w <= b.size
  BY BufferAssumption DEF Good
<1>1. CASE b.size - b.w >= len
  <2>1. e = b
    BY <1>1 DEF EnsureWriteableBytes, Good
  <2> QED  BY <1>1, <2>1 DEF Good
<1>2. CASE b.size - b.w < len /\ (b.size - b.w) + b.r < len + kCheapPrepend
  <2>1. e = State(Resized(b.mem, b.size, b.w + len), b.w + len, b.r, b.w)
    BY <1>2 DEF EnsureWriteableBytes, MakeSpace
  <2>2. /\ e.mem = [i \in 0..((b.w + len) - 1) |-> IF i < b.size THEN b.mem[i] ELSE 0]
        /\ e.size = b.w + len /\ e.r = b.r /\ e.w = b.w
    BY <2>1 DEF State, Resized
  <2>3. e.mem \in [0..(e.size - 1) -> Byte]
    BY <2>2, BufferAssumption DEF Good
  <2>4. \A i \in 0..(b.w - b.r - 1) : e.mem[e.r + i] = b.mem[b.r + i]
    <3>1. \A i \in 0..(b.w - b.r - 1) : b.r + i \in 0..((b.w + len) - 1) /\ b.r + i < b.size
      BY <1>0
    <3> QED BY <2>2, <3>1
  <2>5. Good(e) /\ e.w + len <= e.size /\ e.w - e.r = b.w - b.r
    BY <2>2, <2>3 DEF Good
  <2>6. e.size <= kCheapPrepend + (b.w - b.r) + 2 * len
    <3>1. b.w + len <= kCheapPrepend + (b.w - b.r) + 2 * len
      BY <1>0, <1>2
    <3> QED BY <2>2, <3>1
  <2> QED  BY <2>4, <2>5, <2>6
<1>3. CASE b.size - b.w < len /\ ~((b.size - b.w) + b.r < len + kCheapPrepend)
  <2>1. e = State(Copied(b.mem, b.size, b.r, b.w, kCheapPrepend), b.size,
                  kCheapPrepend, kCheapPrepend + (b.w - b.r))
    BY <1>3 DEF EnsureWriteableBytes, MakeSpace
  <2>2. /\ e.mem = [i \in 0..(b.size - 1) |->
                       IF kCheapPrepend <= i /\ i < kCheapPrepend + (b.w - b.r)
                       THEN b.mem[b.r + (i - kCheapPrepend)] ELSE b.mem[i]]
        /\ e.size = b.size
        /\ e.r = kCheapPrepend /\ e.w = kCheapPrepend + (b.w - b.r)
    BY <2>1 DEF State, Copied
  <2>3. e.mem \in [0..(e.size - 1) -> Byte]
    <3>1. \A i \in 0..(b.size - 1) :
             kCheapPrepend <= i /\ i < kCheapPrepend + (b.w - b.r)
                => b.r + (i - kCheapPrepend) \in 0..(b.size - 1)
      BY BufferAssumption DEF Good
    <3> QED  BY <3>1, <2>2 DEF Good
  <2>4. \A i \in 0..(b.w - b.r - 1) : e.mem[e.r + i] = b.mem[b.r + i]
    <3> SUFFICES ASSUME NEW i \in 0..(b.w - b.r - 1)
                 PROVE  e.mem[e.r + i] = b.mem[b.r + i]
      OBVIOUS
    <3>1. kCheapPrepend + i \in 0..(b.size - 1)
      BY BufferAssumption DEF Good
    <3>2. /\ kCheapPrepend <= kCheapPrepend + i
          /\ kCheapPrepend + i < kCheapPrepend + (b.w - b.r)
          /\ b.r + ((kCheapPrepend + i) - kCheapPrepend) = b.r + i
      BY BufferAssumption DEF Good
    <3> QED  BY <3>1, <3>2, <2>2
  <2>5. Good(e) /\ e.w + len <= e.size /\ e.w - e.r = b.w - b.r
    <3>1. /\ kCheapPrepend + (b.w - b.r) \in Nat
          /\ kCheapPrepend <= kCheapPrepend + (b.w - b.r)
          /\ kCheapPrepend + (b.w - b.r) + len <= b.size
          /\ (kCheapPrepend + (b.w - b.r)) - kCheapPrepend = b.w - b.r
      BY <1>0, <1>3
    <3>2. kCheapPrepend + (b.w - b.r) <= b.size
      BY <1>0, <3>1
    <3> QED BY <1>0, <2>2, <2>3, <3>1, <3>2 DEF Good
  <2> QED  BY <2>2, <2>4, <2>5
<1> QED  BY <1>1, <1>2, <1>3 DEF Good

(* The bytes of a state, between its indices.                              *)
LEMMA BytesAreASequence ==
    ASSUME NEW b, Good(b)
    PROVE  /\ Bytes(b) \in Seq(Byte) /\ Len(Bytes(b)) = b.w - b.r
           /\ \A i \in 1..(b.w - b.r) : Bytes(b)[i] = b.mem[b.r + i - 1]
<1> DEFINE n == b.w - b.r
<1>1. n \in Nat /\ Bytes(b) = [i \in 1..n |-> b.mem[b.r + i - 1]]
  BY DEF Good, Bytes
<1>2. \A i \in 1..n : b.mem[b.r + i - 1] \in Byte
  <2>1. \A i \in 1..n : b.r + i - 1 \in 0..(b.size - 1)
    BY DEF Good
  <2>2. b.mem \in [0..(b.size - 1) -> Byte]
    BY DEF Good
  <2> QED BY <2>1, <2>2
<1> HIDE DEF n
<1>3. Bytes(b) \in [1..n -> Byte]
  BY <1>1, <1>2
<1>4. Bytes(b) \in Seq(Byte) /\ Len(Bytes(b)) = n
  BY <1>1, <1>3
<1> QED  BY <1>1, <1>4 DEF n

(* The copy at the end of append, and readv() into the buffer.             *)
LEMMA WrittenAtTheEnd ==
    ASSUME NEW b, Good(b), NEW data \in Seq(Byte), b.w + Len(data) <= b.size
    PROVE  /\ Good(Written(b, data))
           /\ Written(b, data).size = b.size
           /\ Written(b, data).r = b.r /\ Written(b, data).w = b.w + Len(data)
           /\ Bytes(Written(b, data)) = Bytes(b) \o data
<1> DEFINE v == Written(b, data)
<1>1. /\ v.mem = [i \in 0..(b.size - 1) |->
                     IF b.w <= i /\ i < b.w + Len(data) THEN data[i - b.w + 1] ELSE b.mem[i]]
      /\ v.size = b.size /\ v.r = b.r /\ v.w = b.w + Len(data)
  BY DEF Written, State
<1>2. v.mem \in [0..(v.size - 1) -> Byte]
  BY <1>1 DEF Good
<1>3. Good(v)
  BY <1>1, <1>2 DEF Good
<1>4. Bytes(b) \in Seq(Byte) /\ Len(Bytes(b)) = b.w - b.r
  BY BytesAreASequence
<1> DEFINE n == b.w - b.r
<1>5. n \in Nat /\ Len(Bytes(b)) = n
  BY <1>4 DEF Good
<1>6. \A i \in 1..(n + Len(data)) : v.mem[v.r + i - 1] = (Bytes(b) \o data)[i]
  <2> SUFFICES ASSUME NEW i \in 1..(n + Len(data))
               PROVE  v.mem[v.r + i - 1] = (Bytes(b) \o data)[i]
    OBVIOUS
  <2>1. CASE i <= n
    <3>1. (Bytes(b) \o data)[i] = Bytes(b)[i]
      BY <2>1, <1>4, <1>5
    <3>2. Bytes(b)[i] = b.mem[b.r + i - 1]
      BY <2>1, BytesAreASequence
    <3>3. b.r + i - 1 \in 0..(b.size - 1) /\ b.r + i - 1 < b.w
      BY <2>1 DEF Good
    <3> QED  BY <3>1, <3>2, <3>3, <1>1 DEF Good
  <2>2. CASE i > n
    <3>1. (Bytes(b) \o data)[i] = data[i - n]
      BY <2>2, <1>4, <1>5
    <3>2. /\ b.r + i - 1 \in 0..(b.size - 1)
          /\ b.w <= b.r + i - 1 /\ b.r + i - 1 < b.w + Len(data)
          /\ (b.r + i - 1) - b.w + 1 = i - n
      <4>1. /\ b.size \in Nat /\ b.r \in Nat /\ b.w \in Nat /\ b.r <= b.w
            /\ Len(data) \in Nat
        BY DEF Good
      <4>2. i \in Nat /\ i <= (b.w - b.r) + Len(data) /\ i > b.w - b.r /\ i > 0
        BY <1>5, <2>2, <4>1
      <4>3. b.w + Len(data) <= b.size
        OBVIOUS
      <4> QED BY <4>1, <4>2, <4>3
    <3> QED  BY <3>1, <3>2, <1>1
  <2> QED  BY <2>1, <2>2, <1>5
<1>7. v.w - v.r = (b.w - b.r) + Len(data)
  BY <1>1, <1>4 DEF Good
<1>8. /\ Bytes(v) \in Seq(Byte) /\ Len(Bytes(v)) = n + Len(data)
      /\ \A i \in 1..(n + Len(data)) : Bytes(v)[i] = v.mem[v.r + i - 1]
  BY <1>3, <1>7, BytesAreASequence
<1>9. Bytes(b) \o data \in Seq(Byte) /\ Len(Bytes(b) \o data) = n + Len(data)
  BY <1>4, <1>5
<1>10. Bytes(v) = Bytes(b) \o data
  BY <1>5, <1>6, <1>8, <1>9, SeqEqual
<1> QED  BY <1>1, <1>3, <1>10

(* readFd appends twice.                                                   *)
LEMMA ConcatAssociates ==
    \A s, t, u \in Seq(Byte) : (s \o t) \o u = s \o (t \o u)
<1> TAKE s, t, u \in Seq(Byte)
<1> DEFINE left == (s \o t) \o u
           right == s \o (t \o u)
<1>1. /\ s \o t \in Seq(Byte) /\ Len(s \o t) = Len(s) + Len(t)
      /\ t \o u \in Seq(Byte) /\ Len(t \o u) = Len(t) + Len(u)
  OBVIOUS
<1>2. /\ left \in Seq(Byte) /\ right \in Seq(Byte)
      /\ Len(left) = Len(s) + Len(t) + Len(u) /\ Len(right) = Len(left)
  BY <1>1
<1>3. ASSUME NEW i \in 1..Len(left) PROVE left[i] = right[i]
  BY <1>1, <1>2
<1> QED  BY <1>2, <1>3, SeqEqual

(* The arithmetic of a vector that grows: it was full up to w.             *)
LEMMA Doubling ==
    /\ \A n, k, p, s \in Nat : s <= p + n + 2 * k => s <= p + 2 * (n + k)
    /\ \A n, k, p, s \in Nat : s <= p + 2 * n /\ n <= k => s <= p + 2 * k
OBVIOUS

(* append.                                                                 *)
LEMMA AppendedAtTheEnd ==
    ASSUME NEW b, Good(b), NEW data \in Seq(Byte)
    PROVE  LET v == Appended(b, data)
           IN  /\ Good(v)
               /\ v.w - v.r = (b.w - b.r) + Len(data)
               /\ Bytes(v) = Bytes(b) \o data
               /\ v.size # b.size => v.size <= kCheapPrepend + 2 * (v.w - v.r)
<1> DEFINE e == EnsureWriteableBytes(b, Len(data))
           v == Appended(b, data)
<1>1. Len(data) \in Nat
  OBVIOUS
<1>2. /\ Good(e)
      /\ e.w + Len(data) <= e.size
      /\ e.w - e.r = b.w - b.r
      /\ \A i \in 0..(b.w - b.r - 1) : e.mem[e.r + i] = b.mem[b.r + i]
      /\ e.size # b.size => e.size <= kCheapPrepend + (b.w - b.r) + 2 * Len(data)
  BY <1>1, EnsureMakesRoom
<1>3. v = Written(e, data)
  BY DEF Appended
<1> HIDE DEF e, v
<1>4. /\ Good(v) /\ v.size = e.size
      /\ v.r = e.r /\ v.w = e.w + Len(data)
      /\ Bytes(v) = Bytes(e) \o data
  BY <1>2, <1>3, WrittenAtTheEnd
<1>5. Bytes(e) = Bytes(b)
  <2>1. \A i \in 1..(b.w - b.r) : Bytes(e)[i] = Bytes(b)[i]
    <3> SUFFICES ASSUME NEW i \in 1..(b.w - b.r) PROVE Bytes(e)[i] = Bytes(b)[i]
      OBVIOUS
    <3>1. Bytes(e)[i] = e.mem[e.r + i - 1] /\ Bytes(b)[i] = b.mem[b.r + i - 1]
      BY <1>2, BytesAreASequence
    <3>2. /\ i - 1 \in 0..(b.w - b.r - 1)
          /\ e.r + (i - 1) = e.r + i - 1 /\ b.r + (i - 1) = b.r + i - 1
      BY <1>2 DEF Good
    <3> QED  BY <3>1, <3>2, <1>2
  <2> QED  BY <2>1, <1>2, BytesAreASequence, SeqEqual
<1>6. v.w - v.r = (b.w - b.r) + Len(data)
  BY <1>1, <1>2, <1>4 DEF Good
<1>7. v.size # b.size => v.size <= kCheapPrepend + 2 * (v.w - v.r)
  <2>1. b.w - b.r \in Nat /\ v.size \in Nat /\ kCheapPrepend \in Nat
    BY <1>4, BufferAssumption DEF Good
  <2> QED  BY <2>1, <1>1, <1>2, <1>4, <1>6, Doubling
<1> QED  BY <1>4, <1>5, <1>6, <1>7 DEF v

-----------------------------------------------------------------------------
Inv == TypeOK /\ IndicesOrdered /\ GrowthBounded

(* The members are a state that the lemmas are about.                      *)
LEMMA NowGood ==
    ASSUME Inv
    PROVE  /\ Good(Now) /\ Bytes(Now) = Content
           /\ Now.size = size /\ Now.mem = mem
           /\ Now.r = readerIndex /\ Now.w = writerIndex
BY DEF Inv, TypeOK, IndicesOrdered, Good, Now, State, Bytes, Content, ReadableBytes

(* What a step leaves in the buffer is what is in b.                       *)
LEMMA BecomesKeepsInv ==
    ASSUME Inv, NEW b, Good(b), Becomes(b),
           b.size # size => b.size <= kCheapPrepend + 2 * (b.w - b.r),
           put' \in Seq(Byte), got' \in Seq(Byte)
    PROVE  Inv' /\ Content' = Bytes(b)
<1>1. Content' = Bytes(b)
  BY DEF Becomes, Content, ReadableBytes, Bytes
<1>2. TypeOK' /\ IndicesOrdered'
  BY DEF Inv, TypeOK, IndicesOrdered, Good, Becomes
<1>3. peak \in Nat /\ peak' \in Nat /\ peak <= peak' /\ b.w - b.r <= peak'
  BY DEF Inv, TypeOK, Good, Becomes
<1>4. GrowthBounded'
  <2>1. size' \in Nat /\ b.w - b.r \in Nat /\ kCheapPrepend \in Nat /\ size' = b.size
    BY BufferAssumption DEF Good, Becomes
  <2>2. CASE size' = size
    BY <2>1, <2>2, <1>3, Doubling DEF Inv, GrowthBounded
  <2>3. CASE size' # size
    BY <2>1, <2>3, <1>3, Doubling DEF GrowthBounded
  <2> QED  BY <2>2, <2>3
<1> QED  BY <1>1, <1>2, <1>4 DEF Inv

(* peek().                                                                 *)
LEMMA ContentIsASequence ==
    ASSUME Inv
    PROVE  /\ ReadableBytes \in Nat /\ WritableBytes \in Nat
           /\ Content \in Seq(Byte) /\ Len(Content) = ReadableBytes
<1>1. ReadableBytes \in Nat /\ WritableBytes \in Nat
  BY DEF Inv, TypeOK, IndicesOrdered, ReadableBytes, WritableBytes
<1>2. Content \in Seq(Byte) /\ Len(Content) = Now.w - Now.r
  BY NowGood, BytesAreASequence
<1> QED  BY <1>1, <1>2, NowGood DEF ReadableBytes

(* What append and readv() are given.                                      *)
LEMMA DataAreSequences ==
    ASSUME NEW max \in Int, NEW data \in Data(max)
    PROVE  data \in Seq(Byte)
BY SeqDef DEF Data

(* retrieve: what is left after n bytes, or after all of them.             *)
LEMMA RetrievedFromTheFront ==
    ASSUME Inv, NEW n \in Nat, NEW k \in Nat,
           k = IF n < ReadableBytes THEN n ELSE ReadableBytes
    PROVE  LET v == Retrieved(n)
           IN  /\ Good(v) /\ v.size = size
               /\ Bytes(v) = SubSeq(Content, k + 1, Len(Content))
<1> DEFINE v == Retrieved(n)
           rest == SubSeq(Content, k + 1, Len(Content))
<1>1. /\ v.mem = mem /\ v.size = size
      /\ n < ReadableBytes => v.r = readerIndex + n /\ v.w = writerIndex
      /\ ~(n < ReadableBytes) => v.r = kCheapPrepend /\ v.w = kCheapPrepend
  BY DEF Retrieved, RetrieveAll, State
<1> HIDE DEF v
<1>2. Good(v)
  BY <1>1, BufferAssumption DEF Good, Inv, TypeOK, IndicesOrdered, ReadableBytes
<1>3. /\ ReadableBytes \in Nat /\ Content \in Seq(Byte)
      /\ Len(Content) = ReadableBytes
      /\ \A i \in 1..ReadableBytes : Content[i] = mem[readerIndex + i - 1]
  BY ContentIsASequence DEF Content
<1>4. /\ rest \in Seq(Byte) /\ Len(rest) = ReadableBytes - k
      /\ \A i \in 1..(ReadableBytes - k) : rest[i] = Content[k + i]
  BY <1>3
<1>5. /\ Bytes(v) \in Seq(Byte) /\ Len(Bytes(v)) = v.w - v.r
      /\ \A i \in 1..(v.w - v.r) : Bytes(v)[i] = mem[v.r + i - 1]
  BY <1>1, <1>2, BytesAreASequence
<1>6. v.w - v.r = ReadableBytes - k
  <2>1. CASE n < ReadableBytes
    BY <2>1, <1>1, <1>3 DEF Inv, TypeOK, ReadableBytes
  <2>2. CASE ~(n < ReadableBytes)
    BY <2>2, <1>1, <1>3, BufferAssumption
  <2> QED  BY <2>1, <2>2
<1>7. \A i \in 1..(ReadableBytes - k) : Bytes(v)[i] = rest[i]
  <2> SUFFICES ASSUME NEW i \in 1..(ReadableBytes - k)
               PROVE  Bytes(v)[i] = rest[i]
    OBVIOUS
  <2>1. n < ReadableBytes /\ k = n /\ k + i \in 1..ReadableBytes
    BY <1>3
  <2>2. Bytes(v)[i] = mem[(readerIndex + k) + i - 1]
    BY <2>1, <1>1, <1>5, <1>6
  <2>3. rest[i] = mem[readerIndex + (k + i) - 1]
    BY <2>1, <1>3, <1>4
  <2>4. (readerIndex + k) + i - 1 = readerIndex + (k + i) - 1
    BY DEF Inv, TypeOK
  <2> QED  BY <2>2, <2>3, <2>4
<1>8. Bytes(v) = rest
  BY <1>4, <1>5, <1>6, <1>7, SeqEqual
<1> QED  BY <1>1, <1>2, <1>8 DEF v

-----------------------------------------------------------------------------
(* Each operation keeps the invariant and is a step of the byte queue.     *)

(* append: the content gets the bytes at its end.                          *)
LEMMA StepAppend ==
    ASSUME Inv, NEW data \in Seq(Byte), Append_(data)
    PROVE  Inv' /\ Queue!Put
<1> DEFINE v == Appended(Now, data)
<1>1. /\ Good(v) /\ Bytes(v) = Content \o data
      /\ v.size # size => v.size <= kCheapPrepend + 2 * (v.w - v.r)
  BY NowGood, AppendedAtTheEnd
<1>2. Becomes(v) /\ put' = data /\ got' = <<>>
  BY DEF Append_
<1> HIDE DEF v
<1>3. Inv' /\ Content' = Bytes(v)
  BY <1>1, <1>2, BecomesKeepsInv, EmptySeq
<1> QED  BY <1>1, <1>2, <1>3 DEF Queue!Put

(* readFd: the same, also when some of them come by way of extrabuf.       *)
LEMMA StepReadFd ==
    ASSUME Inv, NEW data \in Seq(Byte), ReadFd(data)
    PROVE  Inv' /\ Queue!Put
<1>1. /\ WritableBytes \in Nat /\ Len(data) \in Nat
      /\ put' = data /\ got' = <<>> /\ got' \in Seq(Byte)
      /\ Now.w = writerIndex /\ Now.size = size
      /\ writerIndex \in Nat /\ size \in Nat
  BY ContentIsASequence, NowGood, EmptySeq DEF ReadFd, Inv, TypeOK
<1>2. CASE Len(data) <= WritableBytes
  <2> DEFINE v == Written(Now, data)
  <2>1. /\ Good(v) /\ v.size = size /\ Bytes(v) = Content \o data
    <3>1. Now.w + Len(data) <= Now.size
      BY <1>1, <1>2 DEF WritableBytes
    <3> QED  BY <3>1, NowGood, WrittenAtTheEnd
  <2>2. Becomes(v)
    BY <1>2 DEF ReadFd
  <2> HIDE DEF v
  <2>3. Inv' /\ Content' = Bytes(v)
    BY <1>1, <2>1, <2>2, BecomesKeepsInv
  <2> QED  BY <1>1, <2>1, <2>3 DEF Queue!Put
<1>3. CASE ~(Len(data) <= WritableBytes)
  <2> DEFINE d1 == SubSeq(data, 1, WritableBytes)
             d2 == SubSeq(data, WritableBytes + 1, Len(data))
             u == Written(Now, d1)
             v == Appended(u, d2)
  <2>1. /\ d1 \in Seq(Byte) /\ d2 \in Seq(Byte) /\ Len(d1) = WritableBytes
        /\ Len(d2) = Len(data) - WritableBytes
        /\ \A i \in 1..WritableBytes : d1[i] = data[i]
        /\ \A i \in 1..(Len(data) - WritableBytes) : d2[i] = data[WritableBytes + i]
    BY <1>1, <1>3
  <2>2. Becomes(v)
    BY <1>3 DEF ReadFd
  <2> HIDE DEF d1, d2
  <2>3. d1 \o d2 = data
    <3>1. /\ d1 \o d2 \in Seq(Byte) /\ Len(d1 \o d2) = Len(data)
          /\ \A i \in 1..Len(data) : (d1 \o d2)[i] =
                IF i <= WritableBytes THEN d1[i] ELSE d2[i - WritableBytes]
      <4>1. Len(d1) + Len(d2) = Len(data)
        BY <1>1, <2>1
      <4> QED  BY <4>1, <2>1, ConcatProperties
    <3>2. \A i \in 1..Len(data) : (d1 \o d2)[i] = data[i]
      BY <1>1, <1>3, <2>1, <3>1
    <3> QED  BY <3>1, <3>2, SeqEqual
  <2>4. Good(u) /\ u.size = size /\ Bytes(u) = Content \o d1
    <3>1. Now.w + Len(d1) <= Now.size
      BY <1>1, <2>1 DEF WritableBytes
    <3> QED  BY <3>1, <2>1, NowGood, WrittenAtTheEnd
  <2> HIDE DEF u
  <2>5. /\ Good(v) /\ Bytes(v) = Bytes(u) \o d2
        /\ v.size # size => v.size <= kCheapPrepend + 2 * (v.w - v.r)
    BY <2>1, <2>4, AppendedAtTheEnd
  <2> HIDE DEF v
  <2>6. Inv' /\ Content' = Bytes(v)
    BY <1>1, <2>2, <2>5, BecomesKeepsInv
  <2>7. Bytes(v) = Content \o data
    <3>1. (Content \o d1) \o d2 = Content \o (d1 \o d2)
      <4>1. d1 \in Seq(Byte) /\ d2 \in Seq(Byte) /\ Content \in Seq(Byte)
        BY <2>1, ContentIsASequence
      <4> QED  BY <4>1, ConcatAssociates, Zenon
    <3> QED  BY <3>1, <2>3, <2>4, <2>5
  <2> QED  BY <1>1, <2>6, <2>7 DEF Queue!Put
<1> QED  BY <1>2, <1>3

(* retrieve: drops bytes at the front.                                     *)
LEMMA StepRetrieve ==
    ASSUME Inv, NEW n \in Nat, Retrieve(n)
    PROVE  Inv' /\ \E k \in 0..Len(Content) : Queue!Drop(k)
<1> DEFINE k == IF n < ReadableBytes THEN n ELSE ReadableBytes
           v == Retrieved(n)
<1>1. k \in 0..Len(Content) /\ k \in Nat
  BY ContentIsASequence
<1>2. Good(v) /\ v.size = size /\ Bytes(v) = SubSeq(Content, k + 1, Len(Content))
  BY <1>1, RetrievedFromTheFront
<1>3. Becomes(v) /\ put' = <<>> /\ got' = <<>>
  BY DEF Retrieve
<1> HIDE DEF k, v
<1>4. Inv' /\ Content' = Bytes(v)
  BY <1>2, <1>3, BecomesKeepsInv, EmptySeq
<1>5. Queue!Drop(k)
  BY <1>2, <1>3, <1>4 DEF Queue!Drop
<1> QED  BY <1>1, <1>4, <1>5

(* retrieveAsString: takes bytes from the front.                           *)
LEMMA StepRetrieveAsString ==
    ASSUME Inv, NEW n \in Nat, RetrieveAsString(n)
    PROVE  Inv' /\ Queue!Take
<1> DEFINE v == Retrieved(n)
           rest == SubSeq(Content, n + 1, Len(Content))
<1>1. /\ Content \in Seq(Byte) /\ Len(Content) = ReadableBytes
      /\ ReadableBytes \in Nat /\ n <= ReadableBytes
  BY ContentIsASequence DEF RetrieveAsString
<1>2. n = IF n < ReadableBytes THEN n ELSE ReadableBytes
  BY <1>1
<1>3. Good(v) /\ v.size = size /\ Bytes(v) = rest
  BY <1>2, RetrievedFromTheFront
<1>4. Becomes(v) /\ put' = <<>> /\ got' = SubSeq(Content, 1, n)
  BY DEF RetrieveAsString
<1> HIDE DEF v
<1>5. /\ got' \in Seq(Byte) /\ Len(got') = n
      /\ \A i \in 1..n : got'[i] = Content[i]
  BY <1>1, <1>4
<1>6. Inv' /\ Content' = rest
  BY <1>3, <1>4, <1>5, BecomesKeepsInv, EmptySeq
<1>7. /\ rest \in Seq(Byte) /\ Len(rest) = ReadableBytes - n
      /\ \A i \in 1..(ReadableBytes - n) : rest[i] = Content[n + i]
  BY <1>1
<1> HIDE DEF rest
<1>8. Content = got' \o rest
  <2>1. Len(got') + Len(rest) = Len(Content)
    BY <1>1, <1>5, <1>7
  <2>2. /\ got' \o rest \in Seq(Byte) /\ Len(got' \o rest) = Len(Content)
        /\ \A i \in 1..Len(Content) : (got' \o rest)[i] =
              IF i <= n THEN got'[i] ELSE rest[i - n]
    BY <2>1, <1>5, <1>7, ConcatProperties
  <2>3. \A i \in 1..Len(Content) : (got' \o rest)[i] = Content[i]
    BY <2>2, <1>1, <1>5, <1>7
  <2> QED  BY <2>2, <2>3, <1>1, SeqEqual
<1> QED  BY <1>4, <1>5, <1>6, <1>8 DEF Queue!Take

(* writeFd: shows bytes at the front.                                      *)
LEMMA StepWriteFd ==
    ASSUME Inv, NEW n \in Nat, WriteFd(n)
    PROVE  Inv' /\ \E k \in 0..Len(Content) : Queue!Peek(k)
<1>1. /\ Content \in Seq(Byte) /\ Len(Content) = ReadableBytes
      /\ ReadableBytes \in Nat /\ n <= ReadableBytes
  BY ContentIsASequence DEF WriteFd
<1>2. got' = SubSeq(Content, 1, n) /\ got' \in Seq(Byte) /\ put' = <<>>
  BY <1>1 DEF WriteFd
<1>3. Content' = Content
  BY DEF WriteFd, Content, ReadableBytes
<1>4. Inv'
  BY <1>2, EmptySeq DEF WriteFd, Inv, TypeOK, IndicesOrdered, GrowthBounded
<1>5. Queue!Peek(n)
  BY <1>2, <1>3 DEF Queue!Peek
<1> QED  BY <1>1, <1>4, <1>5

(* The constructor.                                                        *)
LEMMA InitInv == Init => Inv
<1> SUFFICES ASSUME Init PROVE Inv
  OBVIOUS
<1>1. <<>> \in Seq(Byte)
  BY EmptySeq
<1> QED  BY <1>1, BufferAssumption
         DEF Init, Zero, Inv, TypeOK, IndicesOrdered, GrowthBounded

(* Every operation keeps the invariant and is a step of the queue.         *)
LEMMA NextStep ==
    ASSUME Inv, [Next]_vars
    PROVE  Inv' /\ [Queue!Next]_Queue!vars
<1>1. ASSUME NEW data \in Data(MaxLen - ReadableBytes), Append_(data) \/ ReadFd(data)
      PROVE  Inv' /\ Queue!Next
  <2>1. data \in Seq(Byte)
    BY ContentIsASequence, BufferAssumption, DataAreSequences
  <2> QED  BY <1>1, <2>1, StepAppend, StepReadFd DEF Queue!Next
<1>2. ASSUME NEW n \in 0..MaxLen, Retrieve(n) \/ RetrieveAsString(n) \/ WriteFd(n)
      PROVE  Inv' /\ Queue!Next
  <2>1. n \in Nat
    BY BufferAssumption
  <2>2. CASE Retrieve(n)
    BY <2>1, <2>2, StepRetrieve DEF Queue!Next
  <2>3. CASE RetrieveAsString(n)
    BY <2>1, <2>3, StepRetrieveAsString DEF Queue!Next
  <2>4. CASE WriteFd(n)
    BY <2>1, <2>4, StepWriteFd DEF Queue!Next
  <2> QED  BY <1>2, <2>2, <2>3, <2>4
<1>3. CASE UNCHANGED vars
  <2>1. Inv'
    BY <1>3 DEF vars, Inv, TypeOK, IndicesOrdered, GrowthBounded
  <2>2. UNCHANGED Queue!vars
    BY <1>3 DEF vars, Queue!vars, Content, ReadableBytes
  <2> QED  BY <2>1, <2>2
<1> QED  BY <1>1, <1>2, <1>3 DEF Next

(* All operations of Buffer.h and Buffer.cc keep the inductive invariant.  *)
THEOREM InvHolds == Spec => []Inv
<1>1. Inv /\ [Next]_vars => Inv'
  BY NextStep
<1> QED  BY InitInv, <1>1, PTL DEF Spec

-----------------------------------------------------------------------------
(* Buffer.h: the members keep their types, for any bytes and any sizes.    *)
THEOREM TypeCorrect == Spec => []TypeOK
<1>1. Inv => TypeOK
  BY DEF Inv
<1> QED  BY <1>1, InvHolds, PTL

(* retrieve, append, makeSpace and readFd: the indices never cross or      *)
(* leave the vector, and the space in front is kept.                       *)
THEOREM IndicesInOrder == Spec => []IndicesOrdered
<1>1. Inv => IndicesOrdered
  BY DEF Inv
<1> QED  BY <1>1, InvHolds, PTL

(* makeSpace: the vector stays within twice the most that was in it.       *)
THEOREM VectorBounded == Spec => []GrowthBounded
<1>1. Inv => GrowthBounded
  BY DEF Inv
<1> QED  BY <1>1, InvHolds, PTL

(* Every operation of Buffer is one of a queue of bytes: nothing is lost,  *)
(* doubled, changed or reordered by moving, growing or reading through     *)
(* extrabuf.                                                               *)
THEOREM BufferImplementsQueue == Spec => ImplementsQueue
<1>1. Init => Queue!Init
  <2> SUFFICES ASSUME Init PROVE Queue!Init
    OBVIOUS
  <2>1. ReadableBytes = 0
    BY BufferAssumption DEF Init, ReadableBytes
  <2>2. Content = <<>>
    BY <2>1 DEF Content
  <2> QED  BY <2>2 DEF Init, Queue!Init
<1>2. Inv /\ [Next]_vars => [Queue!Next]_Queue!vars
  BY NextStep
<1> QED  BY <1>1, <1>2, InvHolds, PTL DEF Spec, ImplementsQueue, Queue!Spec
=============================================================================
