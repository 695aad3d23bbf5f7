----------------------------- MODULE W32Threads -----------------------------
(***************************************************************************)
(* The reader and writer threads of w32-io.c.  Windows cannot select on    *)
(* pipes, so every descriptor has a thread that blocks in its place: a     *)
(* reader thread fills a ring buffer that _gpgme_io_read empties, a writer *)
(* thread empties the buffer that _gpgme_io_write fills, and events tell   *)
(* _gpgme_io_select which of them would not block.                         *)
(*                                                                         *)
(* Three actors: the thread that calls the library (pc upc), the reader or *)
(* writer thread (rpc, wpc), and the peer, a process at the other end of   *)
(* the pipe.  A critical section is one step, cut where the code reads or  *)
(* writes a flag or an event that the other thread changes without the     *)
(* mutex.                                                                  *)
(***************************************************************************)
EXTENDS Integers, Sequences, SequencesExt

CONSTANTS
  Size,       \* READBUF_SIZE and WRITEBUF_SIZE
  Total,      \* bytes that go over the wire in one direction
  MaxRefs,    \* descriptors that share a context, by _gpgme_io_dup
  Partial     \* may a WriteFile or send write less than it was given

VARIABLES
  how,    \* this pipe: its direction, how the peer ends it, can I/O be cancelled
  rd,     \* struct reader_context_s, with the owner of its mutex
  rpc,    \* where the reader thread is
  rn,     \* nbytes, then nread, in the reader thread
  wt,     \* struct writer_context_s, with the owner of its mutex
  wpc,    \* where the writer thread is
  wn,     \* nwritten
  wire,   \* bytes in the pipe, in the order they were written
  seen,   \* bytes taken out of the pipe at the far end: by read calls, by the peer
  sent,   \* bytes the near or the far end has written
  peer,   \* "open", or "gone" when the peer has closed its end
  upc,    \* where the calling thread is
  ask,    \* the count it passed
  ret     \* what its last call returned

vars == <<how, rd, rpc, rn, wt, wpc, wn, wire, seen, sent, peer, upc, ask, ret>>
reading == <<rd, rpc, rn>>
writing == <<wt, wpc, wn>>
outside == <<wire, seen, sent, peer>>
user == <<upc, ask, ret>>

\* When the peer has gone, recv on a socket returns no bytes, ReadFile on a
\* pipe fails with ERROR_BROKEN_PIPE or another error, and a write fails.
\* CancelSynchronousIo is there since Vista only.
Hows == [dir : {"in"}, end : {"zero", "broken", "error"}, cancel : BOOLEAN]
          \cup [dir : {"out"}, end : {"never", "error"}, cancel : {FALSE}]

IsSocket == how.end = "zero"

Slots == 0 .. Size - 1

reader_context ==
  [mutex |-> "free", refcount |-> 1, stop_me |-> FALSE, eof |-> FALSE,
   eof_shortcut |-> FALSE, error |-> FALSE, have_data |-> FALSE, have_space |-> TRUE,
   close_ev |-> FALSE, shut |-> FALSE, readpos |-> 0, writepos |-> 0, buffer |-> [i \in Slots |-> 0]]

writer_context ==
  [mutex |-> "free", refcount |-> 1, stop_me |-> FALSE, error |-> FALSE,
   have_data |-> FALSE, is_empty |-> TRUE, close_ev |-> FALSE, nbytes |-> 0,
   buffer |-> [i \in Slots |-> 0]]

Init ==
  /\ how \in Hows
  /\ rd = reader_context /\ rpc = "none" /\ rn = 0
  /\ wt = writer_context /\ wpc = "none" /\ wn = 0
  /\ wire = <<>> /\ seen = <<>> /\ sent = 0 /\ peer = "open"
  /\ upc = "idle" /\ ask = 0 /\ ret = "none"

LockFree(ctx) == ctx.mutex = "free"

-----------------------------------------------------------------------------
(* The reader thread.                                                       *)

\* One slot stays empty, to tell a full buffer from an empty one.
IsFull == (rd.writepos + 1) % Size = rd.readpos
IsEmpty == rd.readpos = rd.writepos

\* nbytes: the room up to readpos, or up to the end of the array.
ReadRoom ==
  LET room == (rd.readpos + Size - rd.writepos - 1) % Size
  IN IF room > Size - rd.writepos THEN Size - rd.writepos ELSE room

ReaderLock ==
  /\ rpc = "top" /\ LockFree(rd)
  /\ IF IsFull
     THEN /\ rd' = [rd EXCEPT !.have_space = FALSE]
          /\ rpc' = "wait_space"
     ELSE /\ rd' = [rd EXCEPT !.mutex = "thread"]
          /\ rpc' = "check"
  /\ UNCHANGED <<how, rn, writing, outside, user>>

\* have_space_ev is reset by the wait that it ends.
ReaderSpace ==
  /\ rpc = "wait_space" /\ rd.have_space
  /\ rd' = [rd EXCEPT !.have_space = FALSE]
  /\ rpc' = "relock"
  /\ UNCHANGED <<how, rn, writing, outside, user>>

ReaderRelock ==
  /\ rpc = "relock" /\ LockFree(rd)
  /\ rd' = [rd EXCEPT !.mutex = "thread"]
  /\ rpc' = "check"
  /\ UNCHANGED <<how, rn, writing, outside, user>>

ReaderCheck ==
  /\ rpc = "check"
  /\ rd' = [rd EXCEPT !.mutex = "free"]
  /\ IF rd.stop_me
     THEN rpc' = "leave" /\ UNCHANGED rn
     ELSE rpc' = "blocked" /\ rn' = ReadRoom
  /\ UNCHANGED <<how, writing, outside, user>>

\* ReadFile or recv: up to nbytes of what is in the pipe, stored at writepos.
\* Asked for no bytes it returns none.
ReaderGets ==
  /\ rpc = "blocked"
  /\ rn = 0 \/ wire # <<>>
  /\ \E k \in 0 .. rn :
       /\ k <= Len(wire) /\ (k = 0 <=> rn = 0)
       /\ rd' = [rd EXCEPT !.buffer = [i \in Slots |->
                   IF i \in rd.writepos .. rd.writepos + k - 1
                   THEN wire[i - rd.writepos + 1] ELSE @[i]]]
       /\ wire' = SubSeq(wire, k + 1, Len(wire))
       /\ rn' = k
  /\ rpc' = "stored"
  /\ UNCHANGED <<how, writing, seen, sent, peer, user>>

\* The peer has gone: zero bytes, or an error that sets eof or error without
\* the mutex.
ReaderEnd ==
  /\ rpc = "blocked" /\ rn # 0 /\ wire = <<>> /\ peer = "gone"
  /\ \/ /\ how.end = "zero"
        /\ rn' = 0 /\ rpc' = "stored" /\ UNCHANGED rd
     \/ /\ how.end # "zero"
        /\ rd' = [rd EXCEPT !.eof = (how.end = "broken"), !.error = (how.end = "error")]
        /\ rpc' = "leave" /\ UNCHANGED rn
  /\ UNCHANGED <<how, writing, outside, user>>

\* CancelSynchronousIo made the pending ReadFile fail with
\* ERROR_OPERATION_ABORTED.
ReaderCancelled ==
  /\ rpc = "cancelled"
  /\ rd' = [rd EXCEPT !.eof = TRUE]
  /\ rpc' = "leave"
  /\ UNCHANGED <<how, rn, writing, outside, user>>

\* The socket was shut down: recv fails, and the thread looks at stop_me.
ReaderShutdown ==
  /\ rpc = "blocked" /\ rd.shut /\ LockFree(rd)
  /\ rd' = [rd EXCEPT !.error = ~rd.stop_me]
  /\ rpc' = "leave"
  /\ UNCHANGED <<how, rn, writing, outside, user>>

\* Mutant: the reader does not say that there are bytes, or the end.
ReaderStore_quiet ==
  /\ rpc = "stored" /\ LockFree(rd)
  /\ IF rd.stop_me
     THEN rpc' = "leave" /\ UNCHANGED rd
     ELSE IF rn = 0
     THEN rpc' = "leave" /\ rd' = [rd EXCEPT !.eof = TRUE]
     ELSE /\ rd' = [rd EXCEPT !.writepos = (@ + rn) % Size]
          /\ rpc' = "top"
  /\ UNCHANGED <<how, rn, writing, outside, user>>

ReaderStore ==
  /\ rpc = "stored" /\ LockFree(rd)
  /\ IF rd.stop_me
     THEN rpc' = "leave" /\ UNCHANGED rd
     ELSE IF rn = 0
     THEN rpc' = "leave" /\ rd' = [rd EXCEPT !.eof = TRUE]
     ELSE /\ rd' = [rd EXCEPT !.writepos = (@ + rn) % Size, !.have_data = TRUE]
          /\ rpc' = "top"
  /\ UNCHANGED <<how, rn, writing, outside, user>>

\* "Indicate that we have an error or EOF."
ReaderLeave ==
  /\ rpc = "leave"
  /\ rd' = [rd EXCEPT !.have_data = TRUE]
  /\ rpc' = "wait_close"
  /\ UNCHANGED <<how, rn, writing, outside, user>>

\* The thread frees the context.
ReaderFree ==
  /\ rpc = "wait_close" /\ rd.close_ev
  /\ rpc' = "freed"
  /\ UNCHANGED <<how, rd, rn, writing, outside, user>>

Reader ==
  \/ ReaderLock \/ ReaderSpace \/ ReaderRelock \/ ReaderCheck \/ ReaderGets
  \/ ReaderEnd \/ ReaderCancelled \/ ReaderShutdown \/ ReaderStore \/ ReaderLeave \/ ReaderFree

-----------------------------------------------------------------------------
(* _gpgme_io_read.                                                          *)

\* find_reader creates the thread with the first use.  At the end of file
\* the call returns at once.
ReadCall ==
  /\ upc = "idle" /\ how.dir = "in"
  /\ IF rd.eof_shortcut
     THEN ret' = "eof" /\ UNCHANGED <<upc, ask, rpc>>
     ELSE /\ \E n \in 1 .. Size : ask' = n
          /\ upc' = "r_lock" /\ ret' = "none"
          /\ rpc' = IF rpc = "none" THEN "top" ELSE rpc
  /\ UNCHANGED <<how, rd, rn, writing, outside>>

\* No event, or no thread: EIO.
ReadFails ==
  /\ upc = "idle" /\ how.dir = "in" /\ rpc = "none"
  /\ ret' = "error"
  /\ UNCHANGED <<how, reading, writing, outside, upc, ask>>

ReadLock ==
  /\ upc = "r_lock" /\ LockFree(rd)
  /\ IF IsEmpty /\ ~rd.error
     THEN upc' = "r_wait" /\ UNCHANGED rd
     ELSE upc' = "r_look" /\ rd' = [rd EXCEPT !.mutex = "user"]
  /\ UNCHANGED <<how, rpc, rn, writing, outside, ask, ret>>

\* have_data_ev stays set when the wait ends.
ReadWake ==
  /\ upc = "r_wait" /\ rd.have_data
  /\ upc' = "r_relock"
  /\ UNCHANGED <<how, reading, writing, outside, ask, ret>>

ReadRelock ==
  /\ upc = "r_relock" /\ LockFree(rd)
  /\ rd' = [rd EXCEPT !.mutex = "user"]
  /\ upc' = "r_look"
  /\ UNCHANGED <<how, rpc, rn, writing, outside, ask, ret>>

\* Nothing there means the end, of one kind or the other, which the call then
\* finds out without the mutex.
ReadLook ==
  /\ upc = "r_look"
  /\ IF IsEmpty \/ rd.error
     THEN /\ rd' = [rd EXCEPT !.mutex = "free", !.eof_shortcut = TRUE]
          /\ upc' = "r_ended"
          /\ UNCHANGED <<seen, ret>>
     ELSE LET avail == IF rd.readpos < rd.writepos THEN rd.writepos - rd.readpos
                                                   ELSE Size - rd.readpos
              n == IF avail > ask THEN ask ELSE avail
              pos == (rd.readpos + n) % Size
          IN /\ seen' = seen \o [i \in 1 .. n |-> rd.buffer[rd.readpos + i - 1]]
             /\ ret' = "data"
             /\ IF pos = rd.writepos /\ ~rd.eof
                THEN /\ rd' = [rd EXCEPT !.readpos = pos]
                     /\ upc' = "r_reset"
                ELSE /\ rd' = [rd EXCEPT !.readpos = pos, !.have_space = TRUE, !.mutex = "free"]
                     /\ upc' = "idle"
  /\ UNCHANGED <<how, rpc, rn, writing, wire, sent, peer, ask>>

ReadReset ==
  /\ upc = "r_reset"
  /\ rd' = [rd EXCEPT !.have_data = FALSE, !.have_space = TRUE, !.mutex = "free"]
  /\ upc' = "idle"
  /\ UNCHANGED <<how, rpc, rn, writing, outside, ask, ret>>

ReadEnded ==
  /\ upc = "r_ended"
  /\ ret' = IF rd.eof \/ ~rd.error THEN "eof" ELSE "error"
  /\ upc' = "idle"
  /\ UNCHANGED <<how, reading, writing, outside, ask>>

\* _gpgme_io_close, as far as the reader thread goes: destroy_reader.
DestroyReader ==
  /\ upc = "idle" /\ how.dir = "in" /\ rd.refcount > 0 /\ LockFree(rd)
  /\ IF rpc = "none" \/ rd.refcount > 1
     THEN /\ rd' = [rd EXCEPT !.refcount = @ - 1]
          /\ upc' = IF rd.refcount = 1 THEN "closed" ELSE "idle"
     ELSE /\ rd' = [rd EXCEPT !.refcount = 0, !.stop_me = TRUE, !.have_space = TRUE]
          /\ upc' = "d_cancel"
  /\ UNCHANGED <<how, rpc, rn, writing, outside, ask, ret>>

\* The thread is usually blocked in its call, but need not be there yet.
DestroyReaderCancel ==
  /\ upc = "d_cancel"
  /\ rd' = [rd EXCEPT !.shut = IsSocket]
  /\ rpc' = IF ~IsSocket /\ how.cancel /\ rpc = "blocked" THEN "cancelled" ELSE rpc
  /\ upc' = "d_close"
  /\ UNCHANGED <<how, rn, writing, outside, ask, ret>>

\* After setting close_ev the context is void.
DestroyReaderClose ==
  /\ upc = "d_close"
  /\ rd' = [rd EXCEPT !.close_ev = TRUE]
  /\ upc' = "closed"
  /\ UNCHANGED <<how, rpc, rn, writing, outside, ask, ret>>

-----------------------------------------------------------------------------
(* The writer thread.                                                       *)

WriterLock ==
  /\ wpc = "top" /\ LockFree(wt)
  /\ \/ /\ wt.nbytes = 0 /\ wt.stop_me
        /\ wpc' = "leave" /\ UNCHANGED wt
     \/ /\ wt.nbytes = 0 /\ ~wt.stop_me
        /\ wt' = [wt EXCEPT !.is_empty = TRUE, !.have_data = FALSE]
        /\ wpc' = "idle"
     \/ /\ wt.nbytes > 0
        /\ wpc' = "blocked" /\ UNCHANGED wt
  /\ UNCHANGED <<how, reading, wn, outside, user>>

WriterWake ==
  /\ wpc = "idle" /\ wt.have_data
  /\ wpc' = "woken"
  /\ UNCHANGED <<how, reading, wt, wn, outside, user>>

WriterRelock ==
  /\ wpc = "woken" /\ LockFree(wt)
  /\ wpc' = IF wt.stop_me /\ wt.nbytes = 0 THEN "leave" ELSE "blocked"
  /\ UNCHANGED <<how, reading, wt, wn, outside, user>>

\* WriteFile or send: the bytes from the start of the buffer.
WriterPuts ==
  /\ wpc = "blocked" /\ peer = "open"
  /\ \E k \in 1 .. wt.nbytes :
       /\ Partial \/ k = wt.nbytes
       /\ Len(wire) + k <= Size
       /\ wire' = wire \o [i \in 1 .. k |-> wt.buffer[i - 1]]
       /\ wn' = k
  /\ wpc' = "wrote"
  /\ UNCHANGED <<how, reading, wt, seen, sent, peer, user>>

\* ERROR_BUSY: the loop starts again.
WriterBusy ==
  /\ wpc = "blocked" /\ wt.stop_me
  /\ wpc' = "top"
  /\ UNCHANGED <<how, reading, wt, wn, outside, user>>

WriterError ==
  /\ wpc = "blocked" /\ peer = "gone"
  /\ wt' = [wt EXCEPT !.error = TRUE]
  /\ wpc' = "leave"
  /\ UNCHANGED <<how, reading, wn, outside, user>>

WriterCount ==
  /\ wpc = "wrote" /\ LockFree(wt)
  /\ wt' = [wt EXCEPT !.nbytes = @ - wn]
  /\ wpc' = "top"
  /\ UNCHANGED <<how, reading, wn, outside, user>>

\* "Indicate that we have an error."
WriterLeave ==
  /\ wpc = "leave"
  /\ wt' = [wt EXCEPT !.is_empty = TRUE]
  /\ wpc' = "wait_close"
  /\ UNCHANGED <<how, reading, wn, outside, user>>

WriterFree ==
  /\ wpc = "wait_close" /\ wt.close_ev
  /\ wpc' = "freed"
  /\ UNCHANGED <<how, reading, wt, wn, outside, user>>

Writer ==
  \/ WriterLock \/ WriterWake \/ WriterRelock \/ WriterPuts \/ WriterBusy
  \/ WriterError \/ WriterCount \/ WriterLeave \/ WriterFree

-----------------------------------------------------------------------------
(* _gpgme_io_write.                                                         *)

\* Total bounds what is written.
WriteCall ==
  /\ upc = "idle" /\ how.dir = "out" /\ sent < Total
  /\ \E n \in 1 .. Total - sent : ask' = n
  /\ upc' = "w_lock" /\ ret' = "none"
  /\ wpc' = IF wpc = "none" THEN "top" ELSE wpc
  /\ UNCHANGED <<how, reading, wt, wn, outside>>

WriteFails ==
  /\ upc = "idle" /\ how.dir = "out" /\ wpc = "none"
  /\ ret' = "error"
  /\ UNCHANGED <<how, reading, writing, outside, upc, ask>>

WriteLock ==
  /\ upc = "w_lock" /\ LockFree(wt)
  /\ wt' = [wt EXCEPT !.mutex = "user"]
  /\ upc' = IF ~wt.error /\ wt.nbytes > 0 THEN "w_reset" ELSE "w_put"
  /\ UNCHANGED <<how, reading, wpc, wn, outside, ask, ret>>

\* Bytes are pending: wait until the thread says that they are written.
WriteReset ==
  /\ upc = "w_reset"
  /\ wt' = [wt EXCEPT !.is_empty = FALSE, !.mutex = "free"]
  /\ upc' = "w_wait"
  /\ UNCHANGED <<how, reading, wpc, wn, outside, ask, ret>>

WriteWake ==
  /\ upc = "w_wait" /\ wt.is_empty
  /\ upc' = "w_relock"
  /\ UNCHANGED <<how, reading, writing, outside, ask, ret>>

WriteRelock ==
  /\ upc = "w_relock" /\ LockFree(wt)
  /\ wt' = [wt EXCEPT !.mutex = "user"]
  /\ upc' = "w_put"
  /\ UNCHANGED <<how, reading, wpc, wn, outside, ask, ret>>

\* is_empty is reset early, because select probes it.
WritePut ==
  /\ upc = "w_put"
  /\ IF wt.error
     THEN /\ wt' = [wt EXCEPT !.mutex = "free"]
          /\ ret' = "error" /\ UNCHANGED sent
     ELSE LET n == IF ask > Size THEN Size ELSE ask
          IN /\ wt' = [wt EXCEPT !.mutex = "free", !.nbytes = n, !.is_empty = FALSE,
                         !.have_data = TRUE,
                         !.buffer = [i \in Slots |-> IF i < n THEN sent + i + 1 ELSE @[i]]]
             /\ sent' = sent + n
             /\ ret' = "data"
  /\ upc' = "idle"
  /\ UNCHANGED <<how, reading, wpc, wn, wire, seen, peer, ask>>

\* _gpgme_io_close, as far as the writer thread goes: destroy_writer.
DestroyWriter ==
  /\ upc = "idle" /\ how.dir = "out" /\ wt.refcount > 0 /\ LockFree(wt)
  /\ IF wpc = "none" \/ wt.refcount > 1
     THEN /\ wt' = [wt EXCEPT !.refcount = @ - 1]
          /\ upc' = IF wt.refcount = 1 THEN "closed" ELSE "idle"
     ELSE /\ wt' = [wt EXCEPT !.refcount = 0, !.stop_me = TRUE, !.have_data = TRUE]
          /\ upc' = "d_flush"
  /\ UNCHANGED <<how, reading, wpc, wn, outside, ask, ret>>

\* Mutant: the buffer is not waited for.
DestroyWriterFlush_nowait ==
  /\ upc = "d_flush"
  /\ wt' = [wt EXCEPT !.close_ev = TRUE]
  /\ upc' = "closed"
  /\ UNCHANGED <<how, reading, wpc, wn, outside, ask, ret>>

\* "Give the writer a chance to flush the buffer."
DestroyWriterFlush ==
  /\ upc = "d_flush" /\ wt.is_empty
  /\ wt' = [wt EXCEPT !.close_ev = TRUE]
  /\ upc' = "closed"
  /\ UNCHANGED <<how, reading, wpc, wn, outside, ask, ret>>

-----------------------------------------------------------------------------
(* _gpgme_io_select starts the threads of the descriptors it watches, and   *)
(* reports those whose event is set.  After a second it returns anyway.     *)
Select ==
  /\ upc = "idle"
  /\ IF how.dir = "in"
     THEN /\ rpc' = IF rpc = "none" THEN "top" ELSE rpc
          /\ ret' = IF rd.have_data THEN "ready" ELSE "timeout"
          /\ UNCHANGED wpc
     ELSE /\ wpc' = IF wpc = "none" THEN "top" ELSE wpc
          /\ ret' = IF wt.is_empty THEN "ready" ELSE "timeout"
          /\ UNCHANGED rpc
  /\ UNCHANGED <<how, rd, rn, wt, wn, outside, upc, ask>>

\* _gpgme_io_dup: another descriptor for the same context.  MaxRefs bounds it.
Dup ==
  /\ upc = "idle"
  /\ \/ /\ how.dir = "in" /\ rd.refcount \in 1 .. MaxRefs - 1 /\ LockFree(rd)
        /\ rd' = [rd EXCEPT !.refcount = @ + 1]
        /\ rpc' = IF rpc = "none" THEN "top" ELSE rpc
        /\ UNCHANGED <<wt, wpc>>
     \/ /\ how.dir = "out" /\ wt.refcount \in 1 .. MaxRefs - 1 /\ LockFree(wt)
        /\ wt' = [wt EXCEPT !.refcount = @ + 1]
        /\ wpc' = IF wpc = "none" THEN "top" ELSE wpc
        /\ UNCHANGED <<rd, rpc>>
  /\ UNCHANGED <<how, rn, wn, outside, user>>

Call ==
  ReadCall \/ ReadFails \/ WriteCall \/ WriteFails \/ Select \/ Dup
    \/ DestroyReader \/ DestroyWriter

CallStep ==
  \/ ReadLock \/ ReadWake \/ ReadRelock \/ ReadLook \/ ReadReset \/ ReadEnded
  \/ DestroyReaderCancel \/ DestroyReaderClose
  \/ WriteLock \/ WriteReset \/ WriteWake \/ WriteRelock \/ WritePut
  \/ DestroyWriterFlush

-----------------------------------------------------------------------------
(* The peer; the pipe holds Size bytes.                                     *)
PeerSends ==
  /\ how.dir = "in" /\ peer = "open" /\ sent < Total /\ Len(wire) < Size
  /\ sent' = sent + 1
  /\ wire' = Append(wire, sent + 1)
  /\ UNCHANGED <<how, reading, writing, seen, peer, user>>

PeerTakes ==
  /\ how.dir = "out" /\ peer = "open" /\ wire # <<>>
  /\ seen' = Append(seen, Head(wire))
  /\ wire' = Tail(wire)
  /\ UNCHANGED <<how, reading, writing, sent, peer, user>>

PeerGoes ==
  /\ peer = "open" /\ how.end # "never"
  /\ peer' = "gone"
  /\ UNCHANGED <<how, reading, writing, wire, seen, sent, user>>

Next ==
  \/ Reader \/ Writer \/ Call \/ CallStep
  \/ PeerSends \/ PeerTakes \/ PeerGoes

\* Windows schedules every thread; the peer goes on reading what it is sent,
\* and ends in the end; and a write is not answered with ERROR_BUSY for ever.
Fairness ==
  /\ WF_vars(Reader) /\ WF_vars(Writer) /\ WF_vars(CallStep)
  /\ WF_vars(PeerTakes) /\ WF_vars(PeerGoes) /\ SF_vars(WriterPuts)

Spec == Init /\ [][Next]_vars /\ Fairness

-----------------------------------------------------------------------------
\* How far each side is, and what it may be doing.
TypeOK ==
  /\ rd.readpos \in Slots /\ rd.writepos \in Slots /\ rn \in 0 .. Size - 1
  /\ wt.nbytes \in 0 .. Size /\ wn \in 0 .. Size /\ sent \in 0 .. Total
  /\ rd.mutex = "user" <=> upc \in {"r_look", "r_reset"}
  /\ rd.mutex = "thread" <=> rpc = "check"
  /\ wt.mutex # "free" <=> upc \in {"w_reset", "w_put"}

(* The bytes come out of the ring buffer, and out of the writer's buffer,   *)
(* in the order they went in, none twice and none left out, however reads,  *)
(* writes and the two positions of w32-io.c's ring buffer interleave.       *)
InOrder ==
  \A i \in 1 .. Len(seen) + Len(wire) : how.dir = "out" \/ i <= Len(seen) =>
    (seen \o wire)[i] = i

(* The reader thread never asks for zero bytes, which would come back as    *)
(* the end of the file: have_space_ev wakes it only when a reader has made  *)
(* room.                                                                    *)
NeverAsksNothing == rpc = "blocked" => rn > 0

(* _gpgme_io_read returns 0 only when the peer has ended and every byte of  *)
(* it has been returned, or when it has returned an error before.           *)
EofIsLast ==
  how.dir = "in" /\ ret = "eof" => peer = "gone" /\ (Len(seen) = sent \/ rd.error)

(* What _gpgme_io_select reports is what a call will find.  A descriptor is *)
(* readable exactly when there are bytes, until the thread has met its end; *)
(* it is writable only when the writer's buffer is free, so that a write    *)
(* does not block.                                                          *)
EventsExact ==
  /\ LockFree(rd) /\ rpc \in {"top", "wait_space", "relock", "blocked", "stored"} =>
       (rd.have_data <=> ~IsEmpty)
  /\ LockFree(wt) /\ wpc \in {"top", "idle", "woken", "blocked", "wrote"} =>
       (wt.is_empty => wt.nbytes = 0)

(* The assertion of _gpgme_io_write, "If no error occurred, the number of   *)
(* bytes in the buffer must be zero".                                       *)
BufferFree == upc = "w_put" /\ ~wt.error => wt.nbytes = 0

(* A context is freed by its thread only after the last descriptor that     *)
(* refers to it has been closed.                                            *)
ContextAlive == rpc = "freed" \/ wpc = "freed" => upc = "closed"

(* Closing flushes: when _gpgme_io_close has returned for the last          *)
(* descriptor, all bytes that _gpgme_io_write accepted have been handed to  *)
(* the pipe, or the writer thread has met an error.                         *)
CloseFlushes ==
  how.dir = "out" /\ upc = "closed" =>
    wt.error \/ peer = "gone" \/ Len(seen) + Len(wire) = sent

(* The safety of the threads of w32-io.c.                                   *)
ThreadsInv ==
  /\ TypeOK /\ InOrder /\ NeverAsksNothing /\ EofIsLast /\ EventsExact
  /\ BufferFree /\ ContextAlive /\ CloseFlushes

(* Every call returns and no wake-up is lost, on a reading end that ends    *)
(* with a read of no bytes or with an error, and on a writing end whose     *)
(* peer reads on.                                                           *)
CallsReturn ==
  how.end \in {"zero", "never"} \/ <<how.dir, how.end>> = <<"in", "error">> =>
    (upc # "idle" ~> upc \in {"idle", "closed"})

(* A thread that has ended leaves its event set: "Indicate that we have an  *)
(* error or EOF", "Indicate that we have an error".                         *)
EndIndicated ==
  /\ rpc = "wait_close" => rd.have_data
  /\ wpc = "wait_close" => wt.is_empty
=============================================================================
