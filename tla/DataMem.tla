------------------------------ MODULE DataMem ------------------------------
(***************************************************************************)
(* A memory data object (data-mem.c, data.c): a buffer that grows, or a    *)
(* buffer of the program that is copied when it is first written to, and   *)
(* the handlers by which an operation takes its input from the object,     *)
(* through the pending buffer, or puts its output there.                   *)
(*                                                                         *)
(* The program leaves the object alone while an operation uses it, and     *)
(* after an operation that did not take all its input sets the position    *)
(* before it reads or writes.                                              *)
(***************************************************************************)
EXTENDS Integers, Sequences

CONSTANTS
  Byte,          \* the bytes
  Nul,           \* the zero byte that overwrites a void content
  Garbage,       \* what freshly allocated memory holds
  InitialAlloc,  \* INITIAL_ALLOC
  BufferSize,    \* BUFFER_SIZE
  MaxWrite,      \* bound: bytes of a write
  MaxLength      \* bound: length of the content

ASSUME DataMemAssumption ==
  /\ Garbage \notin Byte \cup {Nul}
  /\ InitialAlloc \in Nat \ {0} /\ BufferSize \in Nat \ {0}
  /\ MaxWrite \in Nat /\ MaxLength \in Nat

VARIABLES
  owned,     \* buffer # NULL
  buffer,    \* the allocated memory
  orig,      \* orig_buffer # NULL
  given,     \* the memory orig_buffer points to
  size,      \* data.mem.size
  length,    \* data.mem.length
  offset,    \* data.mem.offset
  pending,   \* pending[0..pending_len-1]
  blank,     \* the property blankout
  fd,        \* "none", or what the descriptor of an operation is for
  out,       \* what the last step gave to the program or to the engine
  live       \* the data object exists

mem  == <<owned, buffer, orig, given, size, length>>
vars == <<mem, offset, pending, blank, fd, out, live>>

Bytes == Seq(Byte \cup {Garbage, Nul})

TypeOK ==
  /\ owned \in BOOLEAN /\ orig \in BOOLEAN /\ blank \in BOOLEAN /\ live \in BOOLEAN
  /\ buffer \in Bytes /\ given \in Seq(Byte)
  /\ size \in Nat /\ length \in Nat /\ offset \in Nat
  /\ pending \in Bytes /\ out \in Bytes
  /\ fd \in {"none", "in", "out"}

Some(n) == UNION {[1..k -> Byte] : k \in 0..n}

\* gpgme_data_new, and gpgme_data_new_from_mem with and without copying.
Init ==
  /\ \/ owned = FALSE /\ orig = FALSE /\ given = <<>>
     \/ owned = TRUE /\ orig = FALSE /\ given \in Some(MaxWrite)
     \/ owned = FALSE /\ orig = TRUE /\ given \in Some(MaxWrite)
  /\ buffer = IF owned THEN given ELSE <<>>
  /\ size = Len(given) /\ length = Len(given) /\ offset = 0
  /\ pending = <<>> /\ blank = FALSE /\ fd = "none" /\ out = <<>> /\ live = TRUE
-----------------------------------------------------------------------------
Least(m, n)    == IF m < n THEN m ELSE n
Greatest(m, n) == IF m < n THEN n ELSE m

\* The memory the content is in, and the content.
Store   == IF owned THEN buffer ELSE given
Content == SubSeq(Store, 1, length)

\* A block of n bytes that begins with m.
Block(m, n) == [i \in 1..n |-> IF i <= Len(m) THEN m[i] ELSE Garbage]
\* b copied into the block m after the first p bytes.
Copied(m, p, b) == [i \in 1..Len(m) |-> IF p < i /\ i <= p + Len(b) THEN b[i - p] ELSE m[i]]

\* mem_write.  The sizes that are tried: the copy of the program's buffer is
\* made large enough at once; a buffer that is too small is doubled or, if
\* there is no memory for that, made as large as is needed.
Tried(n) ==
  IF ~owned /\ orig THEN {Greatest(size, offset + n)}
  ELSE IF size - offset < n
  THEN {Greatest(IF size # 0 THEN 2 * size ELSE InitialAlloc, offset + n), offset + n}
  ELSE {size}

\* Mutant: the buffer grows, but not for the bytes before the offset.
write_short(b) ==
  \E s \in {Greatest(size, Len(b))} :
    /\ buffer' = Copied(Block(Store, s), offset, b)
    /\ owned' = (owned \/ orig \/ s > 0)
    /\ size' = s
    /\ length' = Greatest(length, offset + Len(b))
    /\ offset' = offset + Len(b)
    /\ UNCHANGED <<orig, given>>

mem_write(b) ==
  \E s \in Tried(Len(b)) :
    /\ buffer' = Copied(Block(Store, s), offset, b)
    /\ owned' = (owned \/ orig \/ s > 0)
    /\ size' = s
    /\ length' = Greatest(length, offset + Len(b))
    /\ offset' = offset + Len(b)
    /\ UNCHANGED <<orig, given>>

\* gpgme_data_write.
Write(b) ==
  /\ live /\ fd = "none" /\ pending = <<>>
  /\ offset + Len(b) <= MaxLength
  /\ mem_write(b)
  /\ out' = <<>> /\ UNCHANGED <<pending, blank, fd, live>>

\* mem_read of up to n bytes.
mem_read(n) == SubSeq(Store, offset + 1, offset + Least(n, length - offset))

\* gpgme_data_read.
Read(n) ==
  /\ live /\ fd = "none" /\ pending = <<>>
  /\ out' = IF blank THEN <<>> ELSE mem_read(n)
  /\ offset' = offset + Len(out')
  /\ UNCHANGED <<mem, pending, blank, fd, live>>

\* mem_seek: the new offset, or -1.
mem_seek(o, whence) ==
  CASE whence = "SET" -> IF o < 0 \/ o > length THEN -1 ELSE o
    [] whence = "CUR" ->
         IF (o > 0 /\ length - offset < o) \/ (o < 0 /\ offset < -o) THEN -1 ELSE offset + o
    [] whence = "END" -> IF o > 0 \/ -o > length THEN -1 ELSE length + o

\* The offset gpgme_data_seek passes on.
relative(o, whence) == IF whence = "CUR" THEN o - Len(pending) ELSE o

\* gpgme_data_seek.
Seek(o, whence) ==
  /\ live /\ fd = "none"
  /\ LET p == mem_seek(relative(o, whence), whence)
     IN /\ p # -1
        /\ offset' = p
        /\ pending' = <<>>
  /\ out' = <<>> /\ UNCHANGED <<mem, blank, fd, live>>

\* gpgme_data_release_and_get_mem.
ReleaseAndGetMem ==
  /\ live /\ fd = "none"
  /\ out' = IF blank THEN SubSeq(<<Nul>>, 1, Least(length, 1)) ELSE Content
  /\ live' = FALSE
  /\ UNCHANGED <<mem, offset, pending, blank, fd>>
-----------------------------------------------------------------------------
(* An operation.                                                           *)

\* An engine is given a descriptor for the object.
Attach(dir) ==
  /\ live /\ fd = "none" /\ (dir = "in" => pending = <<>>)
  /\ fd' = dir /\ out' = <<>>
  /\ UNCHANGED <<mem, offset, pending, blank, live>>

\* Mutant: a short write drops the rest of the pending buffer.
rest_dropped(p, n) == <<>>

\* What stays pending when n bytes are written.
rest(p, n) == SubSeq(p, n + 1, Len(p))

\* _gpgme_data_outbound_handler: the pending buffer is filled if it is empty,
\* and the descriptor takes n bytes of it; none when it is full (EAGAIN).
Outbound(n) ==
  /\ fd = "out"
  /\ LET more == IF pending = <<>> /\ ~blank THEN mem_read(BufferSize) ELSE <<>>
         p    == pending \o more
     IN /\ p # <<>> /\ n <= Len(p)
        /\ offset' = offset + Len(more)
        /\ out' = SubSeq(p, 1, n)
        /\ pending' = rest(p, n)
  /\ UNCHANGED <<mem, blank, fd, live>>

\* The handler finds the end of the input and closes the descriptor.
OutboundEnd ==
  /\ fd = "out" /\ pending = <<>> /\ (blank \/ offset = length)
  /\ fd' = "none" /\ out' = <<>>
  /\ UNCHANGED <<mem, offset, pending, blank, live>>

\* _gpgme_data_inbound_handler: a chunk from the engine.
Inbound(b) ==
  /\ fd = "in" /\ b # <<>> /\ offset + Len(b) <= MaxLength /\ Len(b) <= BufferSize
  /\ mem_write(b)
  /\ out' = <<>> /\ UNCHANGED <<pending, blank, fd, live>>

\* The descriptor is closed: end of file, EPIPE, an error of the handler
\* (no memory) or cancelling.  What is pending stays.
Detach ==
  /\ fd # "none"
  /\ fd' = "none" /\ out' = <<>>
  /\ UNCHANGED <<mem, offset, pending, blank, live>>

\* A decryption into the object fails and voids it (_gpgme_data_set_prop).
Blankout ==
  /\ live /\ fd # "out" /\ pending = <<>> /\ ~blank
  /\ blank' = TRUE /\ out' = <<>>
  /\ UNCHANGED <<mem, offset, pending, fd, live>>

Next ==
  \/ \E b \in Some(MaxWrite) : Write(b) \/ Inbound(b)
  \/ \E n \in 0..MaxWrite : Read(n) \/ Outbound(n)
  \/ \E o \in (-MaxLength)..MaxLength, whence \in {"SET", "CUR", "END"} : Seek(o, whence)
  \/ ReleaseAndGetMem
  \/ \E dir \in {"in", "out"} : Attach(dir)
  \/ OutboundEnd
  \/ Detach
  \/ Blankout

Spec == Init /\ [][Next]_vars
-----------------------------------------------------------------------------
(* Every access to memory is inside its block: the offset is within the    *)
(* content, the content within the allocated size, the block has that      *)
(* size, and what is pending was read before the offset.                   *)
InBounds ==
  /\ offset <= length /\ length <= size
  /\ Len(Store) = size
  /\ Len(pending) <= BufferSize /\ Len(pending) <= offset

(* The inductive invariant: accesses are in bounds, and an object without  *)
(* any buffer, as data-mem.c creates it, is an empty one.                  *)
MemInv ==
  /\ TypeOK
  /\ InBounds
  /\ ~owned /\ ~orig => given = <<>>

(* The data object is the byte stream the manual describes: whatever the   *)
(* growing, the copying and the pending buffer, bytes are read, written    *)
(* and sent at one position, and seeking takes the bytes into account that *)
(* were read for an operation and not sent.                                *)
Promise == INSTANCE ByteStream WITH content <- Content, pos <- offset - Len(pending)
ImplementsByteStream == Promise!Spec
=============================================================================
