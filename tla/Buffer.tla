-------------------------------- MODULE Buffer --------------------------------
(***************************************************************************)
(* Buffer (src/common/net/Buffer.h, Buffer.cc): the bytes between          *)
(* readerIndex_ and writerIndex_ of a vector that grows when it has to.    *)
(* A TcpConnection has two, used by its loop's thread alone.               *)
(*                                                                         *)
(* The socket is external: readv() fills any part of the space it is       *)
(* given, write() takes any part of the bytes.                             *)
(***************************************************************************)
EXTENDS Integers, Sequences

CONSTANTS
    Byte,
    kCheapPrepend, kInitialSize,
    ExtraSize,    \* sizeof extrabuf
    MaxLen        \* bound: bytes in the buffer

ASSUME BufferAssumption ==
    /\ 0 \in Byte
    /\ kCheapPrepend \in Nat /\ kInitialSize \in Nat
    /\ ExtraSize \in Nat /\ MaxLen \in Nat

VARIABLES
    mem,          \* buffer_, indexed from 0
    size,         \* buffer_.size()
    readerIndex, writerIndex,
    put, got,     \* history: the bytes the last operation added, handed out
    peak          \* history: the most bytes that were in the buffer

vars == <<mem, size, readerIndex, writerIndex, put, got, peak>>

Zero(n) == [i \in 0..(n - 1) |-> 0]

Init ==
    /\ size = kCheapPrepend + kInitialSize
    /\ mem = Zero(size)
    /\ readerIndex = kCheapPrepend /\ writerIndex = kCheapPrepend
    /\ put = <<>> /\ got = <<>> /\ peak = 0

ReadableBytes == writerIndex - readerIndex
WritableBytes == size - writerIndex
PrependableBytes == readerIndex

(* The bytes from peek() on.                                               *)
Content == [i \in 1..ReadableBytes |-> mem[readerIndex + i - 1]]

-----------------------------------------------------------------------------
(* The members, as values: makeSpace and append work on a state b, which   *)
(* readFd has moved on from the current one.                               *)

State(m, s, r, w) == [mem |-> m, size |-> s, r |-> r, w |-> w]

(* vector::resize to a larger size; new bytes are zero.                    *)
Resized(m, s, n) == [i \in 0..(n - 1) |-> IF i < s THEN m[i] ELSE 0]

(* std::copy of [first, last) to dest, which is memmove for chars.         *)
Copied(m, s, first, last, dest) ==
    [i \in 0..(s - 1) |->
        IF dest <= i /\ i < dest + (last - first) THEN m[first + (i - dest)] ELSE m[i]]

MakeSpace_AlwaysGrows(b, len) ==
    State(Resized(b.mem, b.size, b.w + len), b.w + len, b.r, b.w)

MakeSpace_ForgetsPrepend(b, len) ==
    IF (b.size - b.w) + b.r < len
    THEN State(Resized(b.mem, b.size, b.w + len), b.w + len, b.r, b.w)
    ELSE State(Copied(b.mem, b.size, b.r, b.w, kCheapPrepend), b.size,
               kCheapPrepend, kCheapPrepend + (b.w - b.r))

MakeSpace(b, len) ==
    IF (b.size - b.w) + b.r < len + kCheapPrepend
    THEN State(Resized(b.mem, b.size, b.w + len), b.w + len, b.r, b.w)
    ELSE State(Copied(b.mem, b.size, b.r, b.w, kCheapPrepend), b.size,
               kCheapPrepend, kCheapPrepend + (b.w - b.r))

EnsureWriteableBytes(b, len) ==
    IF b.size - b.w < len THEN MakeSpace(b, len) ELSE b

(* data written at writerIndex_, which moves on.                           *)
Written(b, data) ==
    State([i \in 0..(b.size - 1) |->
              IF b.w <= i /\ i < b.w + Len(data) THEN data[i - b.w + 1] ELSE b.mem[i]],
          b.size, b.r, b.w + Len(data))

Appended(b, data) == Written(EnsureWriteableBytes(b, Len(data)), data)

Now == State(mem, size, readerIndex, writerIndex)

Becomes(b) ==
    /\ mem' = b.mem /\ size' = b.size
    /\ readerIndex' = b.r /\ writerIndex' = b.w
    /\ peak' = IF b.w - b.r > peak THEN b.w - b.r ELSE peak

-----------------------------------------------------------------------------
(* The operations.                                                         *)

Append_(data) ==
    /\ Becomes(Appended(Now, data))
    /\ put' = data /\ got' = <<>>

(* readFd: the bytes that do not fit the buffer come by way of extrabuf,   *)
(* which is given to readv() only when the buffer has less room than it.   *)
ReadFd_IndexFirst(data) ==
    /\ Len(data) <= WritableBytes + (IF WritableBytes < ExtraSize THEN ExtraSize ELSE 0)
    /\ IF Len(data) <= WritableBytes
       THEN Becomes(Written(Now, data))
       ELSE Becomes(Appended(Now, SubSeq(data, WritableBytes + 1, Len(data))))
    /\ put' = data /\ got' = <<>>

ReadFd(data) ==
    /\ Len(data) <= WritableBytes + (IF WritableBytes < ExtraSize THEN ExtraSize ELSE 0)
    /\ IF Len(data) <= WritableBytes
       THEN Becomes(Written(Now, data))
       ELSE Becomes(Appended(Written(Now, SubSeq(data, 1, WritableBytes)),
                             SubSeq(data, WritableBytes + 1, Len(data))))
    /\ put' = data /\ got' = <<>>

RetrieveAll == State(mem, size, kCheapPrepend, kCheapPrepend)

(* retrieve(len).                                                          *)
Retrieved(len) ==
    IF len < ReadableBytes
    THEN State(mem, size, readerIndex + len, writerIndex)
    ELSE RetrieveAll

Retrieve(len) ==
    /\ Becomes(Retrieved(len))
    /\ put' = <<>> /\ got' = <<>>

(* retrieveAsString(len), of no more than there is.                        *)
RetrieveAsString(len) ==
    /\ len <= ReadableBytes
    /\ got' = SubSeq(Content, 1, len) /\ put' = <<>>
    /\ Becomes(Retrieved(len))

(* writeFd: write() takes n bytes, and its caller retrieves them.          *)
WriteFd(n) ==
    /\ n <= ReadableBytes
    /\ got' = SubSeq(Content, 1, n) /\ put' = <<>>
    /\ UNCHANGED <<mem, size, readerIndex, writerIndex, peak>>

Data(max) == UNION {[1..n -> Byte] : n \in 0..max}

Next ==
    \/ \E data \in Data(MaxLen - ReadableBytes) : Append_(data) \/ ReadFd(data)
    \/ \E n \in 0..MaxLen : Retrieve(n) \/ RetrieveAsString(n) \/ WriteFd(n)

Spec == Init /\ [][Next]_vars

-----------------------------------------------------------------------------
(* Every member has its type.                                              *)
TypeOK ==
    /\ size \in Nat /\ mem \in [0..(size - 1) -> Byte]
    /\ readerIndex \in Nat /\ writerIndex \in Nat
    /\ put \in Seq(Byte) /\ got \in Seq(Byte)
    /\ peak \in Nat

(* All operations: the indices stay in order and inside the vector, so     *)
(* that none of the size_t differences wraps, and kCheapPrepend bytes are  *)
(* left in front.                                                          *)
IndicesOrdered ==
    kCheapPrepend <= readerIndex /\ readerIndex <= writerIndex /\ writerIndex <= size

(* makeSpace: space that was read is used again before the vector grows,   *)
(* so that its size stays within twice the most that was ever in it.       *)
GrowthBounded ==
    \/ size = kCheapPrepend + kInitialSize
    \/ size <= kCheapPrepend + 2 * peak

(* The buffer is a queue of bytes, wherever in the vector they are, and    *)
(* whether or not they were moved, or came by way of extrabuf.             *)
Queue == INSTANCE ByteQueue WITH content <- Content

ImplementsQueue == Queue!Spec
=============================================================================
