----------------------------- MODULE NetBuffer -----------------------------
(***************************************************************************)
(* stnl::NetBuffer (src/stnl/Buffer.h, Buffer.cpp): bytes between a read   *)
(* and a write index of a vector, with room in front for a prepended       *)
(* header.  append moves the bytes to the front or grows the vector;       *)
(* readFD reads into the free space and an extra buffer.  The abstract     *)
(* contents are kept beside it, as a queue of bytes.                       *)
(***************************************************************************)
EXTENDS Integers, Sequences

CONSTANTS
    ReservedPrependSize,    \* 8
    InitialBufferSize,      \* 1024
    ExtraSize,              \* sizeof(extrabuf), 65536
    SizeMax,                \* 2^64, the range of size_t
    MaxLen,                 \* bound: bytes of one append or prepend
    MaxBytes                \* bound: bytes ever put into the buffer

ASSUME NetBufferAssumption ==
    /\ ReservedPrependSize \in Nat /\ InitialBufferSize \in Nat
    /\ ExtraSize \in Nat /\ MaxLen \in Nat /\ MaxBytes \in Nat
    /\ SizeMax \in Nat
    /\ ReservedPrependSize + InitialBufferSize + MaxBytes < SizeMax

VARIABLES
    nb,             \* the NetBuffer: mem (buffer_), read and write indices
    content,        \* history: the bytes it should hold
    bytes,          \* history: how many bytes were put in; each is its number
    aborted         \* history: an assert failed

vars == <<nb, content, bytes, aborted>>

Unset == 0

\* The sizes and the bytes between the indices.
ReadableBytes(b) == b.write - b.read
WriteableBytes(b) == Len(b.mem) - b.write
Readable(b) == SubSeq(b.mem, b.read + 1, b.write)

\* NetBuffer::NetBuffer
Init ==
    /\ nb = [mem |-> [i \in 1..(ReservedPrependSize + InitialBufferSize)
                        |-> Unset],
             read |-> ReservedPrependSize, write |-> ReservedPrependSize]
    /\ content = <<>>
    /\ bytes = 0
    /\ aborted = FALSE

\* std::copy of data to the given index of mem.
Copy(mem, index, data) ==
    [i \in 1..Len(mem) |-> IF i - index \in 1..Len(data)
                           THEN data[i - index] ELSE mem[i]]

\* std::vector::resize
Resize(mem, n) == [i \in 1..n |-> IF i <= Len(mem) THEN mem[i] ELSE Unset]

\* The next n bytes that are put in.
Fresh(n) == [i \in 1..n |-> bytes + i]

---------------------------------------------------------------------------
(* append.                                                                 *)

\* writeableBytes() + prependableBytes() - ReservedPrependSize, in size_t.
TotalRoom(b) == (WriteableBytes(b) + b.read - ReservedPrependSize) % SizeMax

\* memoryMoving: the bytes go to the front.
MemoryMoving(b) ==
    [mem |-> Copy(b.mem, ReservedPrependSize, Readable(b)),
     read |-> ReservedPrependSize,
     write |-> ReservedPrependSize + ReadableBytes(b)]

\* append moves the bytes: its test, and the assert of memoryMoving.
Moves(b, len) == WriteableBytes(b) < len /\ len <= TotalRoom(b)
MoveFails(b, len) == Moves(b, len) /\ ~(ReservedPrependSize < b.read)

\* Mutant: the vector grows whenever the free space at its end is too small.
MakeRoomGrow(b, len) ==
    IF len <= WriteableBytes(b) THEN b
    ELSE [b EXCEPT !.mem = Resize(@, b.write + len)]

\* The part of append before the copy.
MakeRoom(b, len) ==
    IF len <= WriteableBytes(b) THEN b
    ELSE IF Moves(b, len) THEN MemoryMoving(b)
    ELSE [b EXCEPT !.mem = Resize(@, b.write + len)]

\* append
AppendTo(b, data) ==
    LET r == MakeRoom(b, Len(data))
    IN  [r EXCEPT !.mem = Copy(@, r.write, data), !.write = @ + Len(data)]

---------------------------------------------------------------------------
(* The operations.                                                         *)

\* append of n bytes.
AppendBytes(n) ==
    /\ ~aborted /\ bytes + n <= MaxBytes
    /\ aborted' = MoveFails(nb, n)
    /\ nb' = IF MoveFails(nb, n) THEN nb ELSE AppendTo(nb, Fresh(n))
    /\ content' = content \o Fresh(n)
    /\ bytes' = bytes + n

\* What readFD makes of n bytes read into the free space and extrabuf.
Filled(b, data) ==
    [b EXCEPT !.mem = Copy(@, b.write, data), !.write = Len(b.mem)]

\* Mutant: readFD forgets the part in extrabuf.
ReadFDShort(n) ==
    /\ ~aborted /\ bytes + n <= MaxBytes
    /\ nb' = IF n < WriteableBytes(nb)
             THEN AppendTo(nb, Fresh(n))
             ELSE Filled(nb, SubSeq(Fresh(n), 1, WriteableBytes(nb)))
    /\ content' = content \o Fresh(n)
    /\ bytes' = bytes + n
    /\ UNCHANGED aborted

\* readFD when readv returns n bytes.
ReadFD(n) ==
    LET room == WriteableBytes(nb)
        full == Filled(nb, SubSeq(Fresh(n), 1, room)) IN
    /\ ~aborted /\ bytes + n <= MaxBytes
    /\ n <= room + (IF room < ExtraSize THEN ExtraSize ELSE 0)
    /\ IF n < room
       THEN /\ nb' = [nb EXCEPT !.mem = Copy(@, nb.write, Fresh(n)),
                                !.write = @ + n]
            /\ aborted' = FALSE
       ELSE /\ nb' = IF MoveFails(full, n - room) THEN full
                     ELSE AppendTo(full, SubSeq(Fresh(n), room + 1, n))
            /\ aborted' = MoveFails(full, n - room)
    /\ content' = content \o Fresh(n)
    /\ bytes' = bytes + n

\* prepend of n bytes, which the caller knows to fit.
Prepend(n) ==
    /\ ~aborted /\ bytes + n <= MaxBytes
    /\ n <= nb.read
    /\ nb' = [nb EXCEPT !.mem = Copy(@, nb.read - n, Fresh(n)), !.read = @ - n]
    /\ content' = Fresh(n) \o content
    /\ bytes' = bytes + n
    /\ UNCHANGED aborted

\* retrieve and retrieveAsString of n bytes; of all bytes, retrieveAll and
\* retrieveAllAsString.
Retrieve(n) ==
    /\ ~aborted /\ n <= ReadableBytes(nb)
    /\ nb' = IF n < ReadableBytes(nb) THEN [nb EXCEPT !.read = @ + n]
             ELSE [nb EXCEPT !.read = ReservedPrependSize,
                             !.write = ReservedPrependSize]
    /\ content' = SubSeq(content, n + 1, Len(content))
    /\ UNCHANGED <<bytes, aborted>>

Next ==
    \/ \E n \in 0..MaxLen : AppendBytes(n) \/ Prepend(n)
    \/ \E n \in 0..MaxBytes : ReadFD(n)
    \/ \E n \in 0..Len(content) : Retrieve(n)

Spec == Init /\ [][Next]_vars

---------------------------------------------------------------------------
(* Properties.                                                             *)

\* The type of every variable; the indices are in the order the comment on the
\* class draws them.
TypeOK ==
    /\ nb.mem \in Seq(Nat)
    /\ nb.read \in Nat /\ nb.write \in Nat
    /\ nb.read <= nb.write /\ nb.write <= Len(nb.mem)
    /\ content \in Seq(Nat)
    /\ bytes \in 0..MaxBytes
    /\ aborted \in BOOLEAN

\* The readable bytes are the bytes put in and not yet retrieved, in order,
\* across moves, growth, and reads that spill over into the extra buffer.  The
\* assert of memoryMoving holds as long as prepend has not put bytes into the
\* reserved space: then the room append computes does not pass below zero, and
\* bytes are moved only when there is something in front of them to gain.
HoldsContent ==
    /\ TypeOK
    /\ IF aborted THEN nb.read < ReservedPrependSize
                  ELSE Readable(nb) = content

\* The vector grows only when the content does not fit without: space at the
\* front freed by retrieve is used again first.
GrowsOnlyWhenFull ==
    [][Len(nb'.mem) > Len(nb.mem) =>
         Len(content') + ReservedPrependSize > Len(nb.mem)]_vars

=============================================================================
