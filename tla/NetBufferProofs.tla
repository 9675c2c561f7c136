-------------------------- MODULE NetBufferProofs --------------------------
(***************************************************************************)
(* Proofs that NetBuffer holds what was put into it, for any sizes of the  *)
(* reserved space, the first vector, the extra buffer and the operations,  *)
(* as long as the sizes do not reach the range of size_t.                  *)
(***************************************************************************)
EXTENDS NetBuffer, SequenceTheorems, TLAPS

Buffers == [mem : Seq(Nat), read : Nat, write : Nat]

\* The indices are in the order the comment on the class draws them.
Ordered(b) == b \in Buffers /\ b.read <= b.write /\ b.write <= Len(b.mem)

(***************************************************************************)
(* Neither the write index nor the vector outgrows what was put in, so     *)
(* that the sums of append() stay in the range of size_t, and the vector   *)
(* keeps its reserved space.                                               *)
(***************************************************************************)
Bounded(b, n) ==
    /\ b.write <= ReservedPrependSize + n
    /\ ReadableBytes(b) <= n
    /\ ReservedPrependSize <= Len(b.mem)
    /\ Len(b.mem) <= ReservedPrependSize + InitialBufferSize + n

IInv ==
    /\ Ordered(nb)
    /\ bytes \in 0..MaxBytes
    /\ Bounded(nb, bytes)
    /\ HoldsContent

---------------------------------------------------------------------------
(* The operators.                                                          *)

\* The elements between two places of a sequence, one by one.
LEMMA SubSeqBetween ==
    ASSUME NEW mem \in Seq(Nat), NEW lo \in Nat, NEW hi \in Nat,
           lo <= hi, hi <= Len(mem)
    PROVE  /\ SubSeq(mem, lo + 1, hi) \in Seq(Nat)
           /\ Len(SubSeq(mem, lo + 1, hi)) = hi - lo
           /\ \A i \in 1..(hi - lo) : SubSeq(mem, lo + 1, hi)[i] = mem[lo + i]
<1>1. lo + 1 \in Int /\ hi \in Int /\ Len(mem) \in Nat
  BY LenProperties
<1>2. \A i \in (lo + 1)..hi : i \in 1..Len(mem)
  BY <1>1
<1>3. \A i \in (lo + 1)..hi : mem[i] \in Nat
  BY <1>2, ElementOfSeq
<1>4. /\ SubSeq(mem, lo + 1, hi) \in Seq(Nat)
      /\ Len(SubSeq(mem, lo + 1, hi))
           = IF lo + 1 <= hi THEN hi - (lo + 1) + 1 ELSE 0
      /\ \A i \in 1..(hi - (lo + 1) + 1) :
            SubSeq(mem, lo + 1, hi)[i] = mem[lo + 1 + i - 1]
  BY <1>1, <1>3, SubSeqProperties
<1>5. hi - (lo + 1) + 1 = hi - lo /\ \A i \in Int : lo + 1 + i - 1 = lo + i
  OBVIOUS
<1> QED BY <1>4, <1>5

\* The bytes between the indices, one by one.
LEMMA ReadableProperties ==
    ASSUME NEW b, Ordered(b)
    PROVE  /\ Readable(b) \in Seq(Nat)
           /\ Len(Readable(b)) = ReadableBytes(b)
           /\ \A i \in 1..ReadableBytes(b) : Readable(b)[i] = b.mem[b.read + i]
<1>1. b.mem \in Seq(Nat) /\ b.read \in Nat /\ b.write \in Nat
      /\ b.read <= b.write /\ b.write <= Len(b.mem)
  BY DEF Ordered, Buffers
<1> HIDE DEF Ordered
<1> QED BY <1>1, SubSeqBetween, Zenon DEF Readable, ReadableBytes

\* A buffer whose bytes are those of t, one by one, holds t.
LEMMA ReadableIs ==
    ASSUME NEW b, Ordered(b), NEW t \in Seq(Nat), Len(t) = ReadableBytes(b),
           \A i \in 1..Len(t) : b.mem[b.read + i] = t[i]
    PROVE  Readable(b) = t
<1>1. /\ Readable(b) \in Seq(Nat)
      /\ Len(Readable(b)) = Len(t)
      /\ \A i \in 1..Len(t) : Readable(b)[i] = t[i]
  BY ReadableProperties
<1> QED BY <1>1, SeqEqual

\* Copy overwrites the places from index + 1 on and keeps the size.
LEMMA CopyProperties ==
    ASSUME NEW mem \in Seq(Nat), NEW data \in Seq(Nat), NEW index \in Nat
    PROVE  /\ Copy(mem, index, data) \in Seq(Nat)
           /\ Len(Copy(mem, index, data)) = Len(mem)
           /\ \A i \in 1..Len(mem) : Copy(mem, index, data)[i] =
                  IF i - index \in 1..Len(data) THEN data[i - index] ELSE mem[i]
<1>1. Len(mem) \in Nat /\ Len(data) \in Nat
  BY LenProperties
<1>2. \A i \in 1..Len(mem) :
         (IF i - index \in 1..Len(data) THEN data[i - index] ELSE mem[i]) \in Nat
  BY <1>1, ElementOfSeq
<1>3. Copy(mem, index, data) \in [1..Len(mem) -> Nat]
  BY <1>2 DEF Copy
<1>4. Copy(mem, index, data) \in Seq(Nat)
  BY <1>1, <1>3, SeqDef
<1>5. Len(Copy(mem, index, data)) = Len(mem)
  BY <1>1, <1>3, <1>4, LenProperties
<1> QED BY <1>4, <1>5 DEF Copy

\* Copied behind the elements from lo + 1 to hi, data follows them.
LEMMA CopyBehind ==
    ASSUME NEW mem \in Seq(Nat), NEW data \in Seq(Nat),
           NEW lo \in Nat, NEW hi \in Nat,
           lo <= hi, hi + Len(data) <= Len(mem)
    PROVE  SubSeq(Copy(mem, hi, data), lo + 1, hi + Len(data))
             = SubSeq(mem, lo + 1, hi) \o data
<1> DEFINE c == Copy(mem, hi, data)
           s == SubSeq(c, lo + 1, hi + Len(data))
           old == SubSeq(mem, lo + 1, hi)
           t == old \o data
<1>1. Len(mem) \in Nat /\ Len(data) \in Nat
  BY LenProperties
<1>2. /\ c \in Seq(Nat) /\ Len(c) = Len(mem)
      /\ \A i \in 1..Len(mem) : c[i] =
            IF i - hi \in 1..Len(data) THEN data[i - hi] ELSE mem[i]
  BY CopyProperties
<1> HIDE DEF c
<1>3. /\ hi + Len(data) \in Nat /\ lo <= hi + Len(data)
      /\ hi + Len(data) <= Len(c) /\ hi <= Len(mem)
  BY <1>1, <1>2
<1>4. /\ s \in Seq(Nat) /\ Len(s) = hi + Len(data) - lo
      /\ \A i \in 1..(hi + Len(data) - lo) : s[i] = c[lo + i]
  <2> DEFINE end == hi + Len(data)
  <2> HIDE DEF end
  <2> SUFFICES /\ SubSeq(c, lo + 1, end) \in Seq(Nat)
               /\ Len(SubSeq(c, lo + 1, end)) = end - lo
               /\ \A i \in 1..(end - lo) :
                     SubSeq(c, lo + 1, end)[i] = c[lo + i]
    BY DEF end
  <2> QED BY <1>2, <1>3, SubSeqBetween, Zenon DEF end
<1>5. /\ old \in Seq(Nat) /\ Len(old) = hi - lo
      /\ \A i \in 1..(hi - lo) : old[i] = mem[lo + i]
  BY <1>1, <1>3, SubSeqBetween, Zenon
<1> HIDE DEF s, old
<1>6. /\ t \in Seq(Nat) /\ Len(t) = Len(old) + Len(data)
      /\ \A i \in 1..(Len(old) + Len(data)) :
            t[i] = IF i <= Len(old) THEN old[i] ELSE data[i - Len(old)]
  BY <1>5, ConcatProperties, ZenonT(60)
<1> HIDE DEF t
<1>7. Len(s) = Len(t)
  BY <1>1, <1>4, <1>5, <1>6
<1>8. ASSUME NEW i \in 1..Len(s) PROVE s[i] = t[i]
  <2>1. i \in 1..(hi + Len(data) - lo) /\ i \in 1..(Len(old) + Len(data))
        /\ lo + i \in 1..Len(mem) /\ i \in Nat
    BY <1>1, <1>4, <1>5
  <2>2. s[i] = IF lo + i - hi \in 1..Len(data) THEN data[lo + i - hi]
               ELSE mem[lo + i]
    <3>1. s[i] = c[lo + i]
      BY <1>4, <2>1
    <3>2. lo + i \in 1..Len(mem)
      BY <2>1
    <3> DEFINE j == lo + i
    <3>3. j \in 1..Len(mem) /\ s[i] = c[j]
      BY <3>1, <3>2
    <3> HIDE DEF j
    <3>4. c[j] = IF j - hi \in 1..Len(data) THEN data[j - hi] ELSE mem[j]
      BY ONLY <1>2, <3>3, Zenon
    <3>5. s[i] = IF j - hi \in 1..Len(data) THEN data[j - hi] ELSE mem[j]
      BY ONLY <3>3, <3>4, Zenon
    <3>6. j - hi = lo + i - hi /\ j = lo + i
      BY <2>1 DEF j
    <3> QED BY ONLY <3>5, <3>6, Zenon
  <2>3. t[i] = IF i <= hi - lo THEN old[i] ELSE data[i - (hi - lo)]
    BY <1>5, <1>6, <2>1
  <2>4. CASE i <= hi - lo
    <3>1. lo + i - hi \notin 1..Len(data) /\ i \in 1..(hi - lo)
      BY <1>1, <2>1, <2>4
    <3> QED BY <1>5, <2>2, <2>3, <2>4, <3>1
  <2>5. CASE ~(i <= hi - lo)
    <3>1. lo + i - hi \in 1..Len(data) /\ lo + i - hi = i - (hi - lo)
      <4>1. i <= hi + Len(data) - lo /\ i \in Nat /\ Len(data) \in Nat
        BY <1>1, <2>1
      <4> QED BY <2>5, <4>1
    <3> QED BY <2>2, <2>3, <2>5, <3>1
  <2> QED BY <2>4, <2>5
<1>9. s = t
  BY <1>4, <1>6, <1>7, <1>8, SeqEqual
<1> QED BY <1>9 DEF s, t, c, old

\* Copied before the elements from hi - n + 1 on, data precedes them.
LEMMA CopyBefore ==
    ASSUME NEW mem \in Seq(Nat), NEW data \in Seq(Nat),
           NEW lo \in Nat, NEW hi \in Nat,
           lo + Len(data) <= hi, hi <= Len(mem)
    PROVE  SubSeq(Copy(mem, lo, data), lo + 1, hi)
             = data \o SubSeq(mem, lo + Len(data) + 1, hi)
<1> DEFINE c == Copy(mem, lo, data)
           n == Len(data)
           s == SubSeq(c, lo + 1, hi)
           old == SubSeq(mem, lo + n + 1, hi)
           t == data \o old
<1>1. Len(mem) \in Nat /\ n \in Nat
  BY LenProperties
<1>2. /\ c \in Seq(Nat) /\ Len(c) = Len(mem)
      /\ \A i \in 1..Len(mem) : c[i] =
            IF i - lo \in 1..n THEN data[i - lo] ELSE mem[i]
  BY CopyProperties
<1> HIDE DEF c
<1>3. lo + n \in Nat /\ lo <= hi /\ hi <= Len(c)
  BY <1>1, <1>2
<1>4. /\ s \in Seq(Nat) /\ Len(s) = hi - lo
      /\ \A i \in 1..(hi - lo) : s[i] = c[lo + i]
  BY <1>2, <1>3, SubSeqBetween, Zenon
<1>5. /\ old \in Seq(Nat) /\ Len(old) = hi - (lo + n)
      /\ \A i \in 1..(hi - (lo + n)) : old[i] = mem[lo + n + i]
  BY <1>1, <1>3, SubSeqBetween, Zenon
<1> HIDE DEF s, old
<1>6. /\ t \in Seq(Nat) /\ Len(t) = n + Len(old)
      /\ \A i \in 1..(n + Len(old)) :
            t[i] = IF i <= n THEN data[i] ELSE old[i - n]
  BY <1>5, ConcatProperties
<1> HIDE DEF t
<1>7. Len(s) = Len(t)
  BY <1>1, <1>4, <1>5, <1>6
<1>8. ASSUME NEW i \in 1..Len(s) PROVE s[i] = t[i]
  <2>1. i \in 1..(hi - lo) /\ i \in 1..(n + Len(old))
        /\ lo + i \in 1..Len(mem) /\ i \in Nat /\ lo + i - lo = i
    BY <1>1, <1>4, <1>5
  <2>2. s[i] = IF i \in 1..n THEN data[i] ELSE mem[lo + i]
    <3>1. s[i] = c[lo + i]
      BY <1>4, <2>1
    <3>2. lo + i \in 1..Len(mem) /\ lo + i - lo = i
      BY <2>1
    <3> QED BY ONLY <3>1, <3>2, <1>2
  <2>3. t[i] = IF i <= n THEN data[i] ELSE old[i - n]
    BY <1>6, <2>1
  <2>4. CASE i <= n
    <3>1. i \in 1..n
      BY <1>1, <2>1, <2>4
    <3> QED BY <2>2, <2>3, <2>4, <3>1
  <2>5. CASE ~(i <= n)
    <3>1. i \notin 1..n /\ i - n \in 1..(hi - (lo + n)) /\ lo + n + (i - n) = lo + i
      BY <1>1, <2>1, <2>5
    <3>2. old[i - n] = mem[lo + i]
      BY <1>5, <3>1
    <3> QED BY <2>2, <2>3, <2>5, <3>1, <3>2
  <2> QED BY <2>4, <2>5
<1>9. s = t
  BY <1>4, <1>6, <1>7, <1>8, SeqEqual
<1> QED BY <1>9 DEF s, t, c, old

\* Resize keeps the elements and fills up.
LEMMA ResizeProperties ==
    ASSUME NEW mem \in Seq(Nat), NEW n \in Nat, Len(mem) <= n
    PROVE  /\ Resize(mem, n) \in Seq(Nat)
           /\ Len(Resize(mem, n)) = n
           /\ \A i \in 1..Len(mem) : Resize(mem, n)[i] = mem[i]
<1>1. Len(mem) \in Nat
  BY LenProperties
<1>2. \A i \in 1..n : (IF i <= Len(mem) THEN mem[i] ELSE Unset) \in Nat
  BY <1>1, ElementOfSeq DEF Unset
<1>3. Resize(mem, n) \in [1..n -> Nat]
  BY <1>2 DEF Resize
<1>4. Resize(mem, n) \in Seq(Nat)
  BY <1>3, SeqDef
<1>5. Len(Resize(mem, n)) = n
  BY <1>3, <1>4, LenProperties
<1>6. \A i \in 1..Len(mem) : i \in 1..n /\ i <= Len(mem)
  BY <1>1
<1> QED BY <1>4, <1>5, <1>6 DEF Resize

---------------------------------------------------------------------------
(* append.                                                                 *)

\* TotalRoom is the free space behind the reserved bytes, and wraps to more
\* than can be appended if prepend has left less than the reserved bytes.
LEMMA TotalRoomProperties ==
    ASSUME NEW b, Ordered(b), NEW k \in 0..MaxBytes, Bounded(b, k)
    PROVE  LET room == Len(b.mem) - ReadableBytes(b) - ReservedPrependSize
           IN  /\ room >= 0 => TotalRoom(b) = room
               /\ room < 0 => TotalRoom(b) > MaxBytes
<1> DEFINE room == Len(b.mem) - ReadableBytes(b) - ReservedPrependSize
<1>1. /\ Len(b.mem) \in Nat /\ b.read \in Nat /\ b.write \in Nat
      /\ room \in Int
      /\ WriteableBytes(b) + b.read - ReservedPrependSize = room
  BY NetBufferAssumption, LenProperties
     DEF Ordered, Buffers, WriteableBytes, ReadableBytes
<1>2. SizeMax \in Nat /\ room < SizeMax /\ room >= -ReservedPrependSize
  BY <1>1, NetBufferAssumption DEF Ordered, Buffers, Bounded, ReadableBytes
<1>3. CASE room >= 0
  <2>1. room % SizeMax = room
    BY <1>1, <1>2, <1>3
  <2> QED BY <1>1, <1>3, <2>1 DEF TotalRoom
<1>4. CASE room < 0
  <2>1. room + SizeMax > MaxBytes /\ 0 <= room + SizeMax
    BY <1>1, <1>2, NetBufferAssumption
  <2>2. room % SizeMax = room + SizeMax
    BY <1>1, <1>2, <1>4, <2>1
  <2> QED BY <1>1, <1>4, <2>1, <2>2 DEF TotalRoom
<1> QED BY <1>1, <1>3, <1>4

\* The assert of memoryMoving fails only within the reserved space.
LEMMA MoveFailsReserved ==
    ASSUME NEW b, Ordered(b), NEW k \in 0..MaxBytes, Bounded(b, k),
           NEW len \in 0..MaxBytes, MoveFails(b, len)
    PROVE  b.read < ReservedPrependSize
<1>1. Len(b.mem) \in Nat /\ b.read \in Nat /\ b.write \in Nat
  BY LenProperties DEF Ordered, Buffers
<1> SUFFICES ASSUME b.read = ReservedPrependSize PROVE FALSE
  BY <1>1, NetBufferAssumption DEF MoveFails
<1>2. TotalRoom(b) = WriteableBytes(b)
  BY <1>1, TotalRoomProperties, NetBufferAssumption
     DEF WriteableBytes, ReadableBytes, Ordered
<1> QED BY <1>1, <1>2 DEF MoveFails, Moves, WriteableBytes

\* What append does before its copy: room for len bytes, the content kept.
LEMMA MakeRoomProperties ==
    ASSUME NEW b, Ordered(b), NEW k \in 0..MaxBytes, Bounded(b, k),
           NEW len \in 0..MaxBytes, ~MoveFails(b, len)
    PROVE  LET r == MakeRoom(b, len)
           IN  /\ Ordered(r)
               /\ r.write + len <= Len(r.mem)
               /\ Readable(r) = Readable(b)
               /\ ReadableBytes(r) = ReadableBytes(b)
               /\ r.write <= ReservedPrependSize + k
               /\ ReservedPrependSize <= Len(r.mem)
               /\ Len(r.mem) <= ReservedPrependSize + InitialBufferSize + k + len
               /\ Len(r.mem) > Len(b.mem) =>
                     ReadableBytes(b) + len + ReservedPrependSize > Len(b.mem)
<1> DEFINE r == MakeRoom(b, len)
<1>1. /\ b.mem \in Seq(Nat) /\ Len(b.mem) \in Nat
      /\ b.read \in Nat /\ b.write \in Nat
      /\ b.read <= b.write /\ b.write <= Len(b.mem)
      /\ ReservedPrependSize \in Nat /\ InitialBufferSize \in Nat
      /\ MaxBytes \in Nat /\ len \in Nat /\ len <= MaxBytes /\ k \in Nat
  BY LenProperties, NetBufferAssumption DEF Ordered, Buffers
<1>2. CASE len <= WriteableBytes(b)
  <2>1. r = b
    BY <1>2 DEF MakeRoom
  <2> QED BY <1>1, <1>2, <2>1 DEF WriteableBytes, Bounded
<1>3. CASE ~(len <= WriteableBytes(b)) /\ Moves(b, len)
  <2>1. r = MemoryMoving(b)
    BY <1>3 DEF MakeRoom
  <2> DEFINE data == Readable(b)
             mem == Copy(b.mem, ReservedPrependSize, data)
  <2>2. /\ r.mem = mem /\ r.read = ReservedPrependSize
        /\ r.write = ReservedPrependSize + (b.write - b.read)
    BY <2>1 DEF MemoryMoving, ReadableBytes
  <2>3. ReservedPrependSize < b.read
    BY <1>3 DEF MoveFails
  <2>4. len <= Len(b.mem) - (b.write - b.read) - ReservedPrependSize
    <3> DEFINE room == Len(b.mem) - ReadableBytes(b) - ReservedPrependSize
    <3>1. room >= 0 => TotalRoom(b) = room
      BY TotalRoomProperties
    <3> QED BY <1>1, <1>3, <2>3, <3>1 DEF Moves, ReadableBytes
  <2>5. /\ data \in Seq(Nat) /\ Len(data) = b.write - b.read
        /\ \A i \in 1..Len(data) : data[i] = b.mem[b.read + i]
    BY ReadableProperties DEF ReadableBytes
  <2>6. /\ mem \in Seq(Nat) /\ Len(mem) = Len(b.mem)
        /\ \A i \in 1..Len(b.mem) : mem[i] =
              IF i - ReservedPrependSize \in 1..Len(data)
              THEN data[i - ReservedPrependSize] ELSE b.mem[i]
    <3>1. b.mem \in Seq(Nat) /\ data \in Seq(Nat) /\ ReservedPrependSize \in Nat
      BY <1>1, <2>5
    <3> HIDE DEF data
    <3> QED BY <3>1, CopyProperties, SMTT(60)
  <2>7. Ordered(r) /\ ReadableBytes(r) = b.write - b.read
    <3>1. r \in Buffers
      BY <1>1, <2>1, <2>6 DEF MemoryMoving, Buffers, ReadableBytes
    <3>2. /\ b.read \in Nat /\ b.write \in Nat /\ ReservedPrependSize \in Nat
          /\ b.read <= b.write /\ b.write <= Len(b.mem) /\ Len(r.mem) = Len(b.mem)
          /\ Len(b.mem) \in Nat
      BY <1>1, <2>2, <2>6
    <3> HIDE DEF data, mem
    <3> QED BY <2>2, <2>3, <3>1, <3>2 DEF Ordered, ReadableBytes
  <2>8. \A i \in 1..Len(data) : r.mem[r.read + i] = data[i]
    <3> TAKE i \in 1..Len(data)
    <3>1. /\ ReservedPrependSize + i \in 1..Len(b.mem)
          /\ (ReservedPrependSize + i) - ReservedPrependSize = i
      <4>1. i \in 1..(b.write - b.read)
        BY <2>5
      <4> QED BY <1>1, <2>3, <4>1
    <3> QED BY <3>1, <2>2, <2>6
  <2>9. Readable(r) = data
    BY <2>5, <2>7, <2>8, ReadableIs
  <2>10. /\ r.write + len <= Len(r.mem)
         /\ r.write <= ReservedPrependSize + k
         /\ ReservedPrependSize <= Len(r.mem)
         /\ Len(r.mem) <= ReservedPrependSize + InitialBufferSize + k + len
         /\ ~(Len(r.mem) > Len(b.mem))
    BY SMTT(60), <1>1, <2>2, <2>4, <2>6 DEF Bounded, ReadableBytes
  <2> QED
    BY <2>7, <2>9, <2>10 DEF ReadableBytes
<1>4. CASE ~(len <= WriteableBytes(b)) /\ ~Moves(b, len)
  <2>1. r = [b EXCEPT !.mem = Resize(b.mem, b.write + len)]
    BY <1>4 DEF MakeRoom
  <2> DEFINE mem == Resize(b.mem, b.write + len)
  <2>2. r.mem = mem /\ r.read = b.read /\ r.write = b.write
    BY <2>1 DEF Ordered, Buffers
  <2>3. b.write + len \in Nat /\ Len(b.mem) <= b.write + len
    BY <1>1, <1>4 DEF WriteableBytes
  <2>4. /\ mem \in Seq(Nat) /\ Len(mem) = b.write + len
        /\ \A i \in 1..Len(b.mem) : mem[i] = b.mem[i]
    BY <1>1, <2>3, ResizeProperties, Zenon
  <2>5. Ordered(r) /\ ReadableBytes(r) = ReadableBytes(b)
    <3>1. r \in Buffers
      BY <2>1, <2>4 DEF Ordered, Buffers
    <3> QED BY <1>1, <2>2, <2>4, <3>1 DEF Ordered, ReadableBytes
  <2>6. /\ Readable(b) \in Seq(Nat) /\ Len(Readable(b)) = b.write - b.read
        /\ \A i \in 1..(b.write - b.read) : Readable(b)[i] = b.mem[b.read + i]
    BY ReadableProperties DEF ReadableBytes
  <2>7. \A i \in 1..Len(Readable(b)) : r.mem[r.read + i] = Readable(b)[i]
    <3> TAKE i \in 1..Len(Readable(b))
    <3>1. i \in 1..(b.write - b.read) /\ b.read + i \in 1..Len(b.mem)
      BY SMTT(60), <1>1, <2>6
    <3> QED BY <2>2, <2>4, <2>6, <3>1
  <2>8. Readable(r) = Readable(b)
    BY <2>5, <2>6, <2>7, ReadableIs DEF ReadableBytes
  <2>9. TotalRoom(b) < len
    <3>1. WriteableBytes(b) < len
      BY <1>1, <1>4 DEF WriteableBytes
    <3>2. TotalRoom(b) \in Int
      BY <1>1, NetBufferAssumption DEF TotalRoom, WriteableBytes
    <3> QED BY <1>4, <3>1, <3>2 DEF Moves
  <2>10. ReadableBytes(b) + len + ReservedPrependSize > Len(b.mem)
    <3> DEFINE room == Len(b.mem) - ReadableBytes(b) - ReservedPrependSize
    <3>1. /\ room >= 0 => TotalRoom(b) = room
          /\ room < 0 => TotalRoom(b) > MaxBytes
      BY TotalRoomProperties
    <3>2. TotalRoom(b) \in Int
      BY <1>1, NetBufferAssumption DEF TotalRoom, WriteableBytes
    <3> QED BY <1>1, <2>9, <3>1, <3>2 DEF ReadableBytes
  <2>11. /\ r.write + len <= Len(r.mem)
         /\ r.write <= ReservedPrependSize + k
         /\ ReservedPrependSize <= Len(r.mem)
         /\ Len(r.mem) <= ReservedPrependSize + InitialBufferSize + k + len
    BY <1>1, <2>2, <2>3, <2>4 DEF Bounded
  <2> QED
    BY <2>5, <2>8, <2>10, <2>11
<1> QED BY <1>2, <1>3, <1>4

\* data is copied to the write index, which moves behind it.
Put(b, data) ==
    [b EXCEPT !.mem = Copy(b.mem, b.write, data), !.write = b.write + Len(data)]

\* If there is room behind the write index, the buffer then also holds data.
LEMMA PutProperties ==
    ASSUME NEW b, Ordered(b), NEW data \in Seq(Nat),
           b.write + Len(data) <= Len(b.mem)
    PROVE  LET a == Put(b, data)
           IN  /\ Ordered(a)
               /\ a.read = b.read
               /\ a.write = b.write + Len(data)
               /\ Len(a.mem) = Len(b.mem)
               /\ Readable(a) = Readable(b) \o data
<1> DEFINE a == Put(b, data)
           mem == Copy(b.mem, b.write, data)
<1>1. /\ b.mem \in Seq(Nat) /\ Len(b.mem) \in Nat
      /\ b.read \in Nat /\ b.write \in Nat /\ Len(data) \in Nat
      /\ b.read <= b.write /\ b.write <= Len(b.mem)
  BY LenProperties DEF Ordered, Buffers
<1>2. mem \in Seq(Nat) /\ Len(mem) = Len(b.mem)
  BY <1>1, CopyProperties, Zenon
<1>3. SubSeq(mem, b.read + 1, b.write + Len(data))
        = SubSeq(b.mem, b.read + 1, b.write) \o data
  BY <1>1, CopyBehind, Zenon
<1>4. b \in Buffers
  BY DEF Ordered
<1>5. a = [b EXCEPT !.mem = mem, !.write = b.write + Len(data)]
  BY DEF Put
<1> HIDE DEF mem
<1>6. a.mem = mem /\ a.read = b.read /\ a.write = b.write + Len(data)
  BY <1>4, <1>5 DEF Buffers
<1>7. b.write + Len(data) \in Nat
  BY <1>1
<1>8. a \in Buffers
  BY <1>2, <1>4, <1>5, <1>7 DEF Buffers
<1> HIDE DEF a
<1>9. Ordered(a)
  BY <1>1, <1>2, <1>6, <1>8 DEF Ordered
<1>10. Readable(a) = Readable(b) \o data
  BY <1>3, <1>6, Zenon DEF Readable
<1> QED BY <1>2, <1>6, <1>9, <1>10 DEF a

\* append puts data behind the content, and grows the vector only if both do
\* not fit behind the reserved space.
LEMMA AppendToProperties ==
    ASSUME NEW b, Ordered(b), NEW k \in 0..MaxBytes, Bounded(b, k),
           NEW data \in Seq(Nat), k + Len(data) <= MaxBytes,
           ~MoveFails(b, Len(data))
    PROVE  LET a == AppendTo(b, data)
           IN  /\ Ordered(a)
               /\ Bounded(a, k + Len(data))
               /\ Readable(a) = Readable(b) \o data
               /\ Len(a.mem) > Len(b.mem) =>
                     ReadableBytes(b) + Len(data) + ReservedPrependSize
                       > Len(b.mem)
<1> DEFINE len == Len(data)
           r == MakeRoom(b, len)
           a == AppendTo(b, data)
<1>1. len \in 0..MaxBytes /\ k \in Nat
  BY LenProperties, NetBufferAssumption
<1>2. /\ Ordered(r)
      /\ r.write + len <= Len(r.mem)
      /\ Readable(r) = Readable(b)
      /\ ReadableBytes(r) = ReadableBytes(b)
      /\ r.write <= ReservedPrependSize + k
      /\ ReservedPrependSize <= Len(r.mem)
      /\ Len(r.mem) <= ReservedPrependSize + InitialBufferSize + k + len
      /\ Len(r.mem) > Len(b.mem) =>
            ReadableBytes(b) + len + ReservedPrependSize > Len(b.mem)
  BY <1>1, MakeRoomProperties
<1> HIDE DEF r
<1>3. a = Put(r, data)
  <2>1. r.mem = r.mem /\ r \in Buffers
    BY <1>2 DEF Ordered
  <2> QED BY <2>1 DEF AppendTo, Put, r, Buffers
<1>4. /\ Ordered(a)
      /\ a.read = r.read /\ a.write = r.write + len
      /\ Len(a.mem) = Len(r.mem)
      /\ Readable(a) = Readable(r) \o data
  BY <1>2, <1>3, PutProperties
<1> HIDE DEF a
<1>5. Bounded(a, k + len)
  <2>1. /\ r.read \in Nat /\ r.write \in Nat /\ Len(r.mem) \in Nat
        /\ ReservedPrependSize \in Nat /\ InitialBufferSize \in Nat
    BY <1>2, LenProperties, NetBufferAssumption DEF Ordered, Buffers
  <2>2. r.write - r.read <= k
    BY <1>2 DEF Bounded, ReadableBytes
  <2> QED
    BY <1>1, <1>2, <1>4, <2>1, <2>2 DEF Bounded, ReadableBytes
<1> QED BY <1>2, <1>4, <1>5 DEF a

---------------------------------------------------------------------------
(* The invariant.                                                          *)

\* The bytes put in.
LEMMA FreshProperties ==
    ASSUME bytes \in Nat, NEW n \in Nat
    PROVE  Fresh(n) \in Seq(Nat) /\ Len(Fresh(n)) = n
<1>1. Fresh(n) \in [1..n -> Nat]
  BY DEF Fresh
<1>2. Fresh(n) \in Seq(Nat)
  BY <1>1, SeqDef
<1> QED BY <1>1, <1>2, LenProperties

\* Bounds on what was put in remain bounds when more is put in.
LEMMA BoundedMonotonic ==
    ASSUME NEW b, Ordered(b), NEW k \in Nat, NEW m \in Nat, k <= m, Bounded(b, k)
    PROVE  Bounded(b, m)
<1>1. Len(b.mem) \in Nat /\ b.read \in Nat /\ b.write \in Nat
      /\ ReservedPrependSize \in Nat /\ InitialBufferSize \in Nat
  BY LenProperties, NetBufferAssumption DEF Ordered, Buffers
<1> QED BY <1>1 DEF Bounded, ReadableBytes

\* How the invariant is shown of the state after a step.
LEMMA IInvNext ==
    ASSUME Ordered(nb'), bytes' \in 0..MaxBytes, Bounded(nb', bytes'),
           content' \in Seq(Nat), aborted' \in BOOLEAN,
           aborted' => nb'.read < ReservedPrependSize,
           ~aborted' => Readable(nb') = content'
    PROVE  IInv'
<1>1. TypeOK'
  BY DEF TypeOK, Ordered, Buffers
<1>2. HoldsContent'
  BY <1>1 DEF HoldsContent
<1> QED BY <1>2 DEF IInv

\* The step of GrowsOnlyWhenFull.
Grows == Len(nb'.mem) > Len(nb.mem) =>
           Len(content') + ReservedPrependSize > Len(nb.mem)

\* What every step starts from.
LEMMA IInvFacts ==
    ASSUME IInv, ~aborted
    PROVE  /\ Ordered(nb) /\ Bounded(nb, bytes)
           /\ nb \in Buffers /\ nb.mem \in Seq(Nat) /\ Len(nb.mem) \in Nat
           /\ nb.read \in Nat /\ nb.write \in Nat
           /\ nb.read <= nb.write /\ nb.write <= Len(nb.mem)
           /\ content \in Seq(Nat) /\ Readable(nb) = content
           /\ Len(content) = ReadableBytes(nb)
           /\ ReadableBytes(nb) = nb.write - nb.read
           /\ bytes \in Nat /\ bytes <= MaxBytes
           /\ ReservedPrependSize \in Nat /\ InitialBufferSize \in Nat
           /\ MaxBytes \in Nat /\ MaxLen \in Nat
           /\ aborted = FALSE
<1>1. /\ Ordered(nb) /\ Bounded(nb, bytes) /\ content \in Seq(Nat)
      /\ aborted = FALSE /\ Readable(nb) = content /\ bytes \in 0..MaxBytes
  BY DEF IInv, HoldsContent, TypeOK
<1>2. Len(content) = ReadableBytes(nb)
  BY <1>1, ReadableProperties
<1>3. nb \in Buffers /\ nb.mem \in Seq(Nat) /\ nb.read \in Nat /\ nb.write \in Nat
      /\ nb.read <= nb.write /\ nb.write <= Len(nb.mem)
  BY <1>1 DEF Ordered, Buffers
<1>4. Len(nb.mem) \in Nat
  BY <1>3, LenProperties
<1> QED BY <1>1, <1>2, <1>3, <1>4, NetBufferAssumption DEF ReadableBytes

\* The constructor leaves the buffer empty behind the reserved space.
LEMMA InitIInv == Init => IInv
<1> SUFFICES ASSUME Init PROVE IInv
  OBVIOUS
<1> DEFINE size == ReservedPrependSize + InitialBufferSize
           mem == [i \in 1..size |-> Unset]
<1>1. size \in Nat /\ ReservedPrependSize \in Nat /\ InitialBufferSize \in Nat
      /\ MaxBytes \in Nat
  BY NetBufferAssumption
<1>2. mem \in [1..size -> Nat]
  BY DEF Unset
<1>3. mem \in Seq(Nat) /\ Len(mem) = size
  <2>1. mem \in Seq(Nat)
    BY <1>1, <1>2, SeqDef
  <2> QED BY <1>1, <1>2, <2>1, LenProperties
<1>4. nb.mem = mem /\ nb.read = ReservedPrependSize
      /\ nb.write = ReservedPrependSize
  BY DEF Init
<1>5. nb = [mem |-> mem, read |-> ReservedPrependSize,
            write |-> ReservedPrependSize]
  BY DEF Init
<1> HIDE DEF mem
<1>6. Ordered(nb) /\ Bounded(nb, 0)
  <2>1. nb \in Buffers
    BY <1>1, <1>3, <1>5 DEF Buffers
  <2> HIDE DEF size
  <2>2. size = ReservedPrependSize + InitialBufferSize
    BY DEF size
  <2> QED BY <1>1, <1>3, <1>4, <2>1, <2>2
          DEF Ordered, Bounded, ReadableBytes
<1>7. Readable(nb) = <<>>
  BY <1>1, <1>4, SubSeqEmpty DEF Readable
<1>8. content = <<>> /\ bytes = 0 /\ aborted = FALSE
  BY DEF Init
<1>9. content \in Seq(Nat)
  BY <1>8
<1>10. TypeOK
  <2>1. bytes \in 0..MaxBytes
    BY <1>1, <1>8
  <2>2. /\ nb.mem \in Seq(Nat) /\ nb.read \in Nat /\ nb.write \in Nat
        /\ nb.read <= nb.write /\ nb.write <= Len(nb.mem)
    BY <1>6 DEF Ordered, Buffers
  <2>3. aborted \in BOOLEAN
    BY <1>8, Zenon
  <2> QED BY <1>9, <2>1, <2>2, <2>3 DEF TypeOK
<1> QED BY <1>1, <1>6, <1>7, <1>8, <1>10 DEF IInv, HoldsContent

\* append puts the new bytes at the end.
LEMMA AppendBytesStep ==
    ASSUME IInv, NEW n \in 0..MaxLen, AppendBytes(n)
    PROVE  IInv' /\ Grows
<1> DEFINE data == Fresh(n)
<1>1. ~aborted /\ bytes' = bytes + n /\ content' = content \o data
      /\ bytes + n <= MaxBytes /\ aborted' = MoveFails(nb, n)
      /\ nb' = IF MoveFails(nb, n) THEN nb ELSE AppendTo(nb, data)
  BY DEF AppendBytes
<1>2. /\ Ordered(nb) /\ Bounded(nb, bytes) /\ content \in Seq(Nat)
      /\ Readable(nb) = content /\ Len(content) = ReadableBytes(nb)
      /\ bytes \in Nat /\ MaxBytes \in Nat /\ n \in Nat
      /\ Len(nb.mem) \in Nat /\ ReadableBytes(nb) \in Int
  BY <1>1, IInvFacts
<1>3. data \in Seq(Nat) /\ Len(data) = n
  BY <1>2, FreshProperties
<1> HIDE DEF data
<1>4. bytes \in 0..MaxBytes /\ n \in 0..MaxBytes /\ bytes' \in 0..MaxBytes
      /\ bytes \in Nat /\ bytes' \in Nat /\ bytes <= bytes'
  BY <1>1, <1>2
<1>5. content' \in Seq(Nat) /\ Len(content') = ReadableBytes(nb) + n
  BY <1>1, <1>2, <1>3, ConcatProperties
<1>6. CASE MoveFails(nb, n)
  <2>1. nb.read < ReservedPrependSize
    BY <1>2, <1>4, <1>6, MoveFailsReserved
  <2>2. nb' = nb /\ aborted' = TRUE
    BY <1>1, <1>6 DEF MoveFails, Moves
  <2>3. Bounded(nb, bytes')
    BY <1>2, <1>4, BoundedMonotonic
  <2>4. IInv'
    BY <1>2, <1>4, <1>5, <2>1, <2>2, <2>3, IInvNext
  <2> QED BY <1>2, <2>2, <2>4 DEF Grows
<1>7. CASE ~MoveFails(nb, n)
  <2>1. nb' = AppendTo(nb, data) /\ aborted' = FALSE
    BY <1>1, <1>7 DEF MoveFails, Moves
  <2>2. /\ Ordered(nb') /\ Bounded(nb', bytes + n)
        /\ Readable(nb') = Readable(nb) \o data
        /\ Len(nb'.mem) > Len(nb.mem) =>
              ReadableBytes(nb) + n + ReservedPrependSize > Len(nb.mem)
    BY <1>1, <1>2, <1>3, <1>4, <1>7, <2>1, AppendToProperties
  <2>3. IInv'
    BY <1>1, <1>2, <1>4, <1>5, <2>1, <2>2, IInvNext
  <2> QED BY <1>5, <2>2, <2>3 DEF Grows
<1> QED BY <1>6, <1>7

\* prepend puts the new bytes in front, in the place before the read index.
LEMMA PrependStep ==
    ASSUME IInv, NEW n \in 0..MaxLen, Prepend(n)
    PROVE  IInv' /\ Grows
<1> DEFINE data == Fresh(n)
           lo == nb.read - n
           mem == Copy(nb.mem, lo, data)
<1>1. ~aborted /\ bytes' = bytes + n /\ content' = data \o content
      /\ bytes + n <= MaxBytes /\ aborted' = aborted /\ n <= nb.read
      /\ nb' = [nb EXCEPT !.mem = mem, !.read = lo]
  BY DEF Prepend
<1>2. /\ Ordered(nb) /\ Bounded(nb, bytes) /\ content \in Seq(Nat)
      /\ Readable(nb) = content /\ Len(content) = ReadableBytes(nb)
      /\ aborted = FALSE /\ bytes \in Nat /\ MaxBytes \in Nat /\ n \in Nat
      /\ nb \in Buffers /\ nb.mem \in Seq(Nat) /\ Len(nb.mem) \in Nat
      /\ nb.read \in Nat /\ nb.write \in Nat
      /\ nb.read <= nb.write /\ nb.write <= Len(nb.mem)
      /\ ReservedPrependSize \in Nat /\ InitialBufferSize \in Nat
  BY <1>1, IInvFacts
<1>3. data \in Seq(Nat) /\ Len(data) = n
  BY <1>2, FreshProperties
<1> HIDE DEF data
<1>4. lo \in Nat /\ lo + n = nb.read /\ lo <= nb.write
  BY <1>1, <1>2
<1> HIDE DEF lo
<1>5. mem \in Seq(Nat) /\ Len(mem) = Len(nb.mem)
  BY <1>2, <1>3, <1>4, CopyProperties, Zenon
<1>6. SubSeq(mem, lo + 1, nb.write)
        = data \o SubSeq(nb.mem, lo + Len(data) + 1, nb.write)
  <2>1. lo + Len(data) <= nb.write
    BY <1>2, <1>3, <1>4
  <2>2. nb.mem \in Seq(Nat) /\ nb.write \in Nat /\ nb.write <= Len(nb.mem)
    BY <1>2
  <2> QED BY <1>3, <1>4, <2>1, <2>2, CopyBefore DEF mem
<1> HIDE DEF mem
<1>7. nb'.mem = mem /\ nb'.read = lo /\ nb'.write = nb.write /\ nb' \in Buffers
  BY <1>1, <1>2, <1>4, <1>5 DEF Buffers
<1>8. Readable(nb') = content'
  BY <1>1, <1>2, <1>3, <1>4, <1>6, <1>7 DEF Readable
<1>9. Ordered(nb')
  BY <1>2, <1>4, <1>5, <1>7 DEF Ordered
<1>10. Bounded(nb', bytes')
  <2>1. /\ nb.write <= ReservedPrependSize + bytes
        /\ nb.write - nb.read <= bytes
        /\ ReservedPrependSize <= Len(nb.mem)
        /\ Len(nb.mem) <= ReservedPrependSize + InitialBufferSize + bytes
    BY <1>2 DEF Bounded, ReadableBytes
  <2>2. /\ nb.write <= ReservedPrependSize + (bytes + n)
        /\ nb.write - lo <= bytes + n
        /\ Len(nb.mem) <= ReservedPrependSize + InitialBufferSize + (bytes + n)
    BY SMTT(60), <1>2, <1>4, <2>1
  <2> QED BY <1>1, <1>5, <1>7, <2>1, <2>2 DEF Bounded, ReadableBytes
<1>11. content' \in Seq(Nat)
  BY <1>1, <1>2, <1>3, ConcatProperties
<1>12. IInv'
  <2>1. bytes' \in 0..MaxBytes /\ aborted' = FALSE
    BY <1>1, <1>2
  <2> QED BY <1>8, <1>9, <1>10, <1>11, <2>1, IInvNext
<1> QED BY <1>2, <1>5, <1>7, <1>12 DEF Grows

\* retrieve takes bytes from the front; taking all resets the indices.
LEMMA RetrieveStep ==
    ASSUME IInv, NEW n \in 0..Len(content), Retrieve(n)
    PROVE  IInv' /\ Grows
<1>1. /\ ~aborted /\ n <= ReadableBytes(nb)
      /\ content' = SubSeq(content, n + 1, Len(content))
      /\ bytes' = bytes /\ aborted' = aborted
  BY DEF Retrieve
<1>2. /\ Ordered(nb) /\ Bounded(nb, bytes) /\ content \in Seq(Nat)
      /\ Readable(nb) = content /\ Len(content) = ReadableBytes(nb)
      /\ ReadableBytes(nb) = nb.write - nb.read
      /\ bytes \in Nat /\ bytes <= MaxBytes /\ MaxBytes \in Nat
      /\ aborted = FALSE
      /\ nb \in Buffers /\ nb.mem \in Seq(Nat) /\ Len(nb.mem) \in Nat
      /\ nb.read \in Nat /\ nb.write \in Nat
      /\ nb.read <= nb.write /\ nb.write <= Len(nb.mem)
      /\ ReservedPrependSize \in Nat /\ InitialBufferSize \in Nat
  BY <1>1, IInvFacts
<1>3. n \in Nat /\ n <= Len(content) /\ Len(content) \in Nat
  BY <1>2
<1>4. /\ content' \in Seq(Nat) /\ Len(content') = Len(content) - n
      /\ \A i \in 1..(Len(content) - n) : content'[i] = content[n + i]
  <2>1. content \in Seq(Nat) /\ n \in Nat /\ Len(content) \in Nat
        /\ n <= Len(content) /\ Len(content) <= Len(content)
    BY <1>2, <1>3
  <2> DEFINE top == Len(content)
  <2> HIDE DEF top
  <2>2. /\ SubSeq(content, n + 1, top) \in Seq(Nat)
        /\ Len(SubSeq(content, n + 1, top)) = top - n
        /\ \A i \in 1..(top - n) :
              SubSeq(content, n + 1, top)[i] = content[n + i]
    BY <2>1, SubSeqBetween, Zenon DEF top
  <2> QED BY <1>1, <2>2, Zenon DEF top
<1>5. CASE n < ReadableBytes(nb)
  <2>1. nb' = [nb EXCEPT !.read = nb.read + n]
    BY <1>5 DEF Retrieve
  <2>2. nb'.mem = nb.mem /\ nb'.read = nb.read + n /\ nb'.write = nb.write
        /\ nb' \in Buffers
    <3>1. nb.read + n \in Nat /\ nb \in Buffers
      BY <1>2, <1>3
    <3> QED BY <2>1, <3>1 DEF Buffers
  <2>3. Ordered(nb') /\ ReadableBytes(nb') = Len(content) - n
    BY <1>2, <1>3, <1>5, <2>2 DEF Ordered, ReadableBytes
  <2>4. Bounded(nb', bytes)
    BY <1>2, <1>3, <2>2 DEF Bounded, ReadableBytes
  <2>5. \A i \in 1..Len(content') : nb'.mem[nb'.read + i] = content'[i]
    <3> TAKE i \in 1..Len(content')
    <3>1. i \in 1..(Len(content) - n) /\ n + i \in 1..(nb.write - nb.read)
          /\ nb.read + n + i = nb.read + (n + i)
      <4>1. /\ Len(content') = Len(content) - n
            /\ Len(content) = nb.write - nb.read
            /\ n \in Nat /\ nb.write \in Nat /\ nb.read \in Nat
        BY <1>2, <1>3, <1>4
      <4> QED BY <4>1
    <3>2. content'[i] = content[n + i]
      BY <1>4, <3>1
    <3>3. content[n + i] = nb.mem[nb.read + (n + i)]
      BY <1>2, <3>1, ReadableProperties
    <3> QED BY <2>2, <3>1, <3>2, <3>3
  <2>6. Readable(nb') = content'
    BY <1>4, <2>3, <2>5, ReadableIs
  <2>7. IInv'
    <3>1. bytes' \in 0..MaxBytes /\ aborted' = FALSE
      BY <1>1, <1>2
    <3> QED BY <1>1, <1>4, <2>3, <2>4, <2>6, <3>1, IInvNext
  <2> QED BY <1>2, <2>2, <2>7 DEF Grows
<1>6. CASE ~(n < ReadableBytes(nb))
  <2>1. nb' = [nb EXCEPT !.read = ReservedPrependSize,
                         !.write = ReservedPrependSize]
    BY <1>6 DEF Retrieve
  <2>2. nb'.mem = nb.mem /\ nb'.read = ReservedPrependSize
        /\ nb'.write = ReservedPrependSize /\ nb' \in Buffers
    BY <1>2, <2>1 DEF Buffers
  <2>3. ReservedPrependSize <= Len(nb.mem)
    BY <1>2 DEF Bounded
  <2>4. Ordered(nb')
    BY <1>2, <2>2, <2>3 DEF Ordered
  <2>5. Bounded(nb', bytes)
    BY <1>2, <2>2, <2>3 DEF Bounded, ReadableBytes
  <2>6. Readable(nb') = <<>>
    BY <1>2, <2>2, SubSeqEmpty DEF Readable
  <2>7. content' = <<>>
    BY <1>1, <1>2, <1>3, <1>6, SubSeqEmpty
  <2>8. IInv'
    <3>1. bytes' \in 0..MaxBytes /\ aborted' = FALSE
      BY <1>1, <1>2
    <3> QED BY <1>1, <1>4, <2>4, <2>5, <2>6, <2>7, <3>1, IInvNext
  <2> QED BY <1>2, <2>2, <2>8 DEF Grows
<1> QED BY <1>5, <1>6

\* readFD puts what readv returned behind the content: in the free space, or
\* filling it and appending the part in extrabuf.
LEMMA ReadFDStep ==
    ASSUME IInv, NEW n \in 0..MaxBytes, ReadFD(n)
    PROVE  IInv' /\ Grows
<1> DEFINE data == Fresh(n)
           room == WriteableBytes(nb)
           first == SubSeq(data, 1, room)
           rest == SubSeq(data, room + 1, n)
           full == Filled(nb, first)
<1>1. /\ ~aborted /\ bytes' = bytes + n /\ content' = content \o data
      /\ bytes + n <= MaxBytes
  BY DEF ReadFD
<1>2. /\ Ordered(nb) /\ Bounded(nb, bytes) /\ content \in Seq(Nat)
      /\ Readable(nb) = content /\ Len(content) = ReadableBytes(nb)
      /\ ReadableBytes(nb) = nb.write - nb.read
      /\ bytes \in Nat /\ MaxBytes \in Nat /\ n \in Nat
      /\ nb \in Buffers /\ nb.mem \in Seq(Nat) /\ Len(nb.mem) \in Nat
      /\ nb.read \in Nat /\ nb.write \in Nat
      /\ nb.read <= nb.write /\ nb.write <= Len(nb.mem)
      /\ ReservedPrependSize \in Nat /\ InitialBufferSize \in Nat
  BY <1>1, IInvFacts
<1>3. data \in Seq(Nat) /\ Len(data) = n
  BY <1>2, FreshProperties
<1>4. room \in Nat /\ nb.write + room = Len(nb.mem)
  BY <1>2 DEF WriteableBytes
<1>5. content' \in Seq(Nat) /\ Len(content') = ReadableBytes(nb) + n
  BY <1>1, <1>2, <1>3, ConcatProperties
<1>6. bytes' \in 0..MaxBytes
  BY <1>1, <1>2
<1>7. CASE n < room
  <2>1. nb' = [nb EXCEPT !.mem = Copy(nb.mem, nb.write, data),
                         !.write = nb.write + n] /\ aborted' = FALSE
    BY <1>7 DEF ReadFD
  <2>2. nb' = Put(nb, data)
    BY <1>3, <2>1 DEF Put
  <2> HIDE DEF data, room
  <2>3. nb.write + Len(data) <= Len(nb.mem)
    BY <1>2, <1>3, <1>4, <1>7
  <2>4. /\ Ordered(nb') /\ nb'.read = nb.read /\ nb'.write = nb.write + n
        /\ Len(nb'.mem) = Len(nb.mem)
        /\ Readable(nb') = Readable(nb) \o data
    BY <1>2, <1>3, <2>2, <2>3, PutProperties
  <2>5. Bounded(nb', bytes + n)
    <3>1. /\ nb.write <= ReservedPrependSize + bytes
          /\ nb.write - nb.read <= bytes
          /\ ReservedPrependSize <= Len(nb.mem)
          /\ Len(nb.mem) <= ReservedPrependSize + InitialBufferSize + bytes
      BY <1>2 DEF Bounded, ReadableBytes
    <3>2. /\ nb.write + n <= ReservedPrependSize + (bytes + n)
          /\ nb.write + n - nb.read <= bytes + n
          /\ Len(nb.mem) <= ReservedPrependSize + InitialBufferSize + (bytes + n)
      BY SMTT(60), <1>2, <3>1
    <3>3. /\ nb'.read = nb.read /\ nb'.write = nb.write + n
          /\ Len(nb'.mem) = Len(nb.mem)
      BY <2>4
    <3>4. nb'.write <= ReservedPrependSize + (bytes + n)
      BY <3>2, <3>3
    <3>5. ReadableBytes(nb') <= bytes + n
      BY <1>2, <3>2, <3>3 DEF ReadableBytes
    <3>6. /\ ReservedPrependSize <= Len(nb'.mem)
          /\ Len(nb'.mem) <= ReservedPrependSize + InitialBufferSize + (bytes + n)
      BY <3>1, <3>2, <3>3
    <3> QED BY <3>4, <3>5, <3>6, Zenon DEF Bounded
  <2>6. IInv'
    BY <1>1, <1>2, <1>5, <1>6, <2>1, <2>4, <2>5, IInvNext
  <2> QED BY <1>2, <2>4, <2>6 DEF Grows
<1>8. CASE ~(n < room)
  <2>1. /\ nb' = IF MoveFails(full, n - room) THEN full
                 ELSE AppendTo(full, rest)
        /\ aborted' = MoveFails(full, n - room)
    BY <1>8 DEF ReadFD
  <2>2. first \in Seq(Nat) /\ Len(first) = room
        /\ rest \in Seq(Nat) /\ Len(rest) = n - room
    <3> HIDE DEF data, room
    <3>1. 0 \in Nat /\ 0 <= room /\ room <= Len(data) /\ room <= n
          /\ n <= Len(data) /\ room - 0 = room /\ 0 + 1 = 1
      BY <1>2, <1>3, <1>4, <1>8
    <3>2. SubSeq(data, 0 + 1, room) \in Seq(Nat)
          /\ Len(SubSeq(data, 0 + 1, room)) = room - 0
      BY <1>3, <1>4, <3>1, SubSeqBetween, Zenon
    <3>3. rest \in Seq(Nat) /\ Len(rest) = n - room
      BY ZenonT(60), <1>2, <1>3, <1>4, <3>1, SubSeqBetween
    <3> QED BY <3>1, <3>2, <3>3
  <2>3. first \o rest = data
    <3> HIDE DEF data, room
    <3>1. /\ 1 \in 1..(Len(data) + 1) /\ room \in (1 - 1)..Len(data)
          /\ n \in room..Len(data)
      BY <1>2, <1>3, <1>4, <1>8
    <3>2. first \o rest = SubSeq(data, 1, n)
      BY <1>3, <3>1, ConcatAdjacentSubSeq
    <3> QED BY <1>3, <3>2, SubSeqFull
  <2>4. full = Put(nb, first)
    <3>1. full = [nb EXCEPT !.mem = Copy(nb.mem, nb.write, first),
                            !.write = Len(nb.mem)]
      BY DEF Filled
    <3>2. Put(nb, first) = [nb EXCEPT !.mem = Copy(nb.mem, nb.write, first),
                                      !.write = nb.write + Len(first)]
      BY DEF Put
    <3>3. nb.write + Len(first) = Len(nb.mem)
      BY <1>4, <2>2
    <3> QED BY ONLY <3>1, <3>2, <3>3
  <2> HIDE DEF data, room, first, rest, full
  <2>5. /\ Ordered(full) /\ full.read = nb.read /\ full.write = nb.write + room
        /\ Len(full.mem) = Len(nb.mem)
        /\ Readable(full) = Readable(nb) \o first
    <3>1. Ordered(nb) /\ first \in Seq(Nat) /\ Len(first) = room
          /\ nb.write + Len(first) <= Len(nb.mem)
      BY <1>2, <1>4, <2>2
    <3> QED BY <2>4, <3>1, PutProperties
  <2> DEFINE m == bytes + room
  <2>6. /\ m \in 0..MaxBytes /\ n - room \in 0..MaxBytes
        /\ m + (n - room) = bytes + n /\ m <= bytes + n
        /\ m \in Nat /\ bytes + n \in Nat /\ n - room \in Nat
    BY <1>1, <1>2, <1>4, <1>8
  <2>7. Bounded(full, m)
    <3>1. /\ nb.write <= ReservedPrependSize + bytes
          /\ nb.write - nb.read <= bytes
          /\ ReservedPrependSize <= Len(nb.mem)
          /\ Len(nb.mem) <= ReservedPrependSize + InitialBufferSize + bytes
      BY <1>2 DEF Bounded, ReadableBytes
    <3>2. /\ nb.write + room <= ReservedPrependSize + m
          /\ nb.write + room - nb.read <= m
          /\ Len(nb.mem) <= ReservedPrependSize + InitialBufferSize + m
      BY SMTT(60), <1>2, <1>4, <3>1
    <3>3. /\ full.read = nb.read /\ full.write = nb.write + room
          /\ Len(full.mem) = Len(nb.mem)
      BY <2>5
    <3>4. full.write <= ReservedPrependSize + m
      BY <3>2, <3>3
    <3>5. ReadableBytes(full) <= m
      <4>1. ReadableBytes(full) = nb.write + room - nb.read
        BY <1>2, <1>4, <3>3 DEF ReadableBytes
      <4> QED BY <3>2, <4>1
    <3>6. /\ ReservedPrependSize <= Len(full.mem)
          /\ Len(full.mem) <= ReservedPrependSize + InitialBufferSize + m
      BY <3>1, <3>2, <3>3
    <3> QED BY <3>4, <3>5, <3>6, Zenon DEF Bounded
  <2> HIDE DEF m
  <2>8. CASE MoveFails(full, n - room)
    <3>1. nb' = full /\ aborted' = TRUE
      BY <2>1, <2>8 DEF MoveFails, Moves
    <3>2. full.read < ReservedPrependSize
      BY <2>5, <2>6, <2>7, <2>8, MoveFailsReserved
    <3>3. Bounded(full, bytes + n)
      BY <2>5, <2>6, <2>7, BoundedMonotonic
    <3>4. IInv'
      BY <1>1, <1>5, <1>6, <2>5, <3>1, <3>2, <3>3, IInvNext
    <3> QED BY <1>2, <2>5, <3>1, <3>4 DEF Grows
  <2>9. CASE ~MoveFails(full, n - room)
    <3>1. nb' = AppendTo(full, rest) /\ aborted' = FALSE
      BY <2>1, <2>9 DEF MoveFails, Moves
    <3>2. m + Len(rest) <= MaxBytes /\ ~MoveFails(full, Len(rest))
      BY <1>1, <2>2, <2>6, <2>9
    <3>3. /\ Ordered(nb') /\ Bounded(nb', m + Len(rest))
          /\ Readable(nb') = Readable(full) \o rest
          /\ Len(nb'.mem) > Len(full.mem) =>
                ReadableBytes(full) + Len(rest) + ReservedPrependSize
                  > Len(full.mem)
      BY <2>2, <2>5, <2>6, <2>7, <3>1, <3>2, AppendToProperties
    <3>4. Readable(nb') = content'
      <4>1. (content \o first) \o rest = content \o (first \o rest)
        <5>1. content \in Seq(Nat) /\ first \in Seq(Nat) /\ rest \in Seq(Nat)
          BY <1>2, <2>2
        <5> QED BY ONLY SMTT(60), <5>1, ConcatAssociative
      <4> QED BY <1>1, <1>2, <2>3, <2>5, <3>3, <4>1
    <3>5. IInv'
      BY <1>1, <1>5, <1>6, <2>2, <2>6, <3>1, <3>3, <3>4, IInvNext
    <3>6. ReadableBytes(full) + Len(rest) = Len(content')
      <4>1. /\ full.read = nb.read /\ full.write = nb.write + room
            /\ Len(rest) = n - room /\ n \in Nat /\ room \in Nat
            /\ Len(content') = nb.write - nb.read + n
            /\ nb.read \in Nat /\ nb.write \in Nat
        BY <1>2, <1>4, <1>5, <2>2, <2>5
      <4> QED BY ONLY <4>1 DEF ReadableBytes
    <3> QED BY <2>5, <3>3, <3>5, <3>6 DEF Grows
  <2> QED BY <2>8, <2>9
<1> QED BY <1>7, <1>8

\* Every step keeps the invariant and grows the vector only when it must.
LEMMA StepIInv ==
    ASSUME IInv, [Next]_vars
    PROVE  IInv' /\ (Grows \/ UNCHANGED vars)
<1>1. CASE Next
  BY <1>1, AppendBytesStep, PrependStep, ReadFDStep, RetrieveStep DEF Next
<1>2. CASE UNCHANGED vars
  BY <1>2 DEF vars, IInv, Ordered, Bounded, ReadableBytes, HoldsContent, TypeOK,
              Readable
<1> QED BY <1>1, <1>2

(***************************************************************************)
(* NetBuffer holds the bytes put in and not yet retrieved, in order: the   *)
(* read and write indices of append, readFD, prepend and retrieve agree,   *)
(* and the assert of memoryMoving fails only after prepend has used the    *)
(* reserved space.                                                         *)
(***************************************************************************)
THEOREM NetBufferHoldsContent == Spec => []HoldsContent
<1>1. Init => IInv
  BY InitIInv
<1>2. IInv /\ [Next]_vars => IInv'
  BY StepIInv
<1>3. IInv => HoldsContent
  BY DEF IInv
<1> QED BY <1>1, <1>2, <1>3, PTL DEF Spec

\* append grows the vector only if the content and the new bytes do not fit
\* behind the reserved space of the one there is.
THEOREM NetBufferGrowsOnlyWhenFull == Spec => GrowsOnlyWhenFull
<1>1. Init => IInv
  BY InitIInv
<1>2. IInv /\ [Next]_vars => IInv'
  BY StepIInv
<1>3. IInv /\ [Next]_vars =>
        [Len(nb'.mem) > Len(nb.mem) =>
           Len(content') + ReservedPrependSize > Len(nb.mem)]_vars
  BY StepIInv DEF Grows
<1> QED BY <1>1, <1>2, <1>3, PTL DEF Spec, GrowsOnlyWhenFull
=============================================================================
