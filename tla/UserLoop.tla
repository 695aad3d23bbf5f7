----------------------------- MODULE UserLoop ------------------------------
(***************************************************************************)
(* An application's own event loop (wait-user.c): the library registers    *)
(* its descriptors with the application by gpgme_io_cbs.add, the           *)
(* application calls _gpgme_user_io_cb_handler when one is ready and is    *)
(* told by GPGME_EVENT_DONE that the operation is over.  The table of      *)
(* descriptors is that of wait.c.                                          *)
(***************************************************************************)
EXTENDS Integers, Sequences

CONSTANTS
  Channels,      \* the descriptors of an operation
  MaxOps,        \* bound on the operations of a context
  Kinds          \* "gpg", "assuan": which cancel functions the engine has

VARIABLES
  kind,       \* the engine
  fds,        \* ctx->fdt: the descriptor in each entry, or NoEntry
  tags,       \* the entry that a live tag names, per descriptor
  regs,       \* what is registered with the application
  ready,      \* what the application's last select reported
  op,         \* "none", "starting", "running" or "over"
  started,    \* the descriptors of this operation added so far
  done,       \* ghost: the DONE events of this operation
  canceled, ops

vars == <<kind, fds, tags, regs, ready, op, started, done, canceled, ops>>

NoEntry == "none"

Init ==
  /\ kind \in Kinds /\ fds = <<>> /\ tags = [c \in {} |-> 0] /\ regs = {} /\ ready = {}
  /\ op = "none" /\ started = {} /\ done = <<>> /\ canceled = FALSE /\ ops = 0

-----------------------------------------------------------------------------
\* fd_table_put takes the first free entry, and enlarges the table when
\* there is none.
FreeEntries == {i \in 1..Len(fds) : fds[i] = NoEntry}
fd_table_put(i) ==
  IF FreeEntries = {} THEN i = Len(fds) + 1
  ELSE i \in FreeEntries /\ \A j \in FreeEntries : i <= j

\* The engine registers a descriptor.
_gpgme_wait_user_add_io_cb(c) ==
  /\ op = "starting" /\ c \notin started /\ started' = started \cup {c}
  /\ \E i \in 1..Len(fds) + 1 :
       /\ fd_table_put(i)
       /\ fds' = IF i > Len(fds) THEN Append(fds, c) ELSE [fds EXCEPT ![i] = c]
       /\ tags' = [d \in DOMAIN tags \cup {c} |-> IF d = c THEN i ELSE tags[d]]
  /\ regs' = regs \cup {c}
  /\ UNCHANGED <<kind, ready, op, done, canceled, ops>>

\* Mutant: the application is not told.
remove_unregistered(cs) ==
  /\ fds' = [i \in 1..Len(fds) |-> IF \E c \in cs : tags[c] = i THEN NoEntry ELSE fds[i]]
  /\ tags' = [d \in DOMAIN tags \ cs |-> tags[d]]
  /\ UNCHANGED <<regs, ready>>

\* The application takes the descriptors out of its loop, then their entries
\* in the table are freed.
_gpgme_wait_user_remove_io_cb(cs) ==
  /\ regs' = regs \ cs /\ ready' = ready \ cs
  /\ fds' = [i \in 1..Len(fds) |-> IF \E c \in cs : tags[c] = i THEN NoEntry ELSE fds[i]]
  /\ tags' = [d \in DOMAIN tags \ cs |-> tags[d]]

Event(err) == done' = Append(done, err)

StartOp ==
  /\ op \in {"none", "over"} /\ ops < MaxOps /\ ops' = ops + 1
  /\ op' = "starting" /\ started' = {} /\ done' = <<>> /\ canceled' = FALSE
  /\ UNCHANGED <<kind, fds, tags, regs, ready>>

\* Memory, or the application's add function, fails: what was registered is
\* taken back, the operation does not start.
StartFails ==
  /\ op = "starting" /\ op' = "none"
  /\ _gpgme_wait_user_remove_io_cb(DOMAIN tags)
  /\ UNCHANGED <<kind, started, done, canceled, ops>>

Started ==
  /\ op = "starting" /\ started = Channels /\ op' = "running"
  /\ UNCHANGED <<kind, fds, tags, regs, ready, started, done, canceled, ops>>

\* The application's select.
Select ==
  /\ op = "running" /\ ready = {} /\ \E s \in SUBSET regs \ {{}} : ready' = s
  /\ UNCHANGED <<kind, fds, tags, regs, op, started, done, canceled, ops>>

-----------------------------------------------------------------------------
\* _gpgme_cancel_with_err: the engine closes its descriptors.  gpg cannot
\* cancel an operation alone: nothing happens then.
cancel_with_err(err) ==
  IF err = "op_err" /\ kind = "gpg"
  THEN UNCHANGED <<fds, tags, regs, ready, op, done>>
  ELSE _gpgme_wait_user_remove_io_cb(DOMAIN tags) /\ Event(err) /\ op' = "over"

Handler(c) == op = "running" /\ c \in ready

\* The handler of a context that another thread has canceled.
HandlerCanceled(c) ==
  /\ Handler(c) /\ canceled /\ cancel_with_err("canceled")
  /\ UNCHANGED <<kind, started, canceled, ops>>

\* The callback fails, or an Assuan server reports the error of a command.
HandlerFails(c) ==
  /\ Handler(c) /\ ~canceled
  /\ \E err \in {"failed"} \cup (IF kind = "assuan" THEN {"op_err"} ELSE {}) :
       cancel_with_err(err)
  /\ UNCHANGED <<kind, started, canceled, ops>>

\* The descriptor is not ready any more, or the callback handles some of
\* what is there.
HandlerMore(c) ==
  /\ Handler(c) /\ ~canceled /\ ready' = ready \ {c}
  /\ UNCHANGED <<kind, fds, tags, regs, op, started, done, canceled, ops>>

\* The callback comes to the end and closes the descriptor; DONE is sent when
\* it was the last one in the table.
HandlerEof(c) ==
  /\ Handler(c) /\ ~canceled /\ _gpgme_wait_user_remove_io_cb({c})
  /\ IF \A i \in 1..Len(fds') : fds'[i] = NoEntry
     THEN Event("ok") /\ op' = "over"
     ELSE UNCHANGED <<done, op>>
  /\ UNCHANGED <<kind, started, canceled, ops>>

\* The callback calls gpgme_cancel: DONE is sent from there, and once more
\* when the handler finds the table empty.
HandlerCancels(c) ==
  /\ Handler(c) /\ ~canceled
  /\ _gpgme_wait_user_remove_io_cb(DOMAIN tags)
  /\ done' = done \o <<"canceled", "ok">> /\ op' = "over"
  /\ UNCHANGED <<kind, started, canceled, ops>>

\* The application cancels between two callbacks.
gpgme_cancel ==
  /\ op = "running" /\ cancel_with_err("canceled")
  /\ UNCHANGED <<kind, started, canceled, ops>>

gpgme_cancel_async ==
  /\ op = "running" /\ ~canceled /\ canceled' = TRUE
  /\ UNCHANGED <<kind, fds, tags, regs, ready, op, started, done, ops>>

Handlers(c) ==
  \/ HandlerCanceled(c) \/ HandlerFails(c) \/ HandlerMore(c) \/ HandlerEof(c)
  \/ HandlerCancels(c)

Next ==
  \/ StartOp \/ StartFails \/ Started \/ Select
  \/ \E c \in Channels :
       _gpgme_wait_user_add_io_cb(c) \/ Handlers(c)
  \/ gpgme_cancel \/ gpgme_cancel_async

Spec == Init /\ [][Next]_vars

\* The application runs its loop, and the engine comes to its end.
Fairness ==
  /\ WF_vars(Started) /\ WF_vars(Select)
  /\ \A c \in Channels :
       /\ WF_vars(_gpgme_wait_user_add_io_cb(c))
       /\ WF_vars(HandlerCanceled(c)) /\ SF_vars(HandlerEof(c))
       /\ WF_vars(HandlerMore(c))

FairSpec == Spec /\ Fairness

-----------------------------------------------------------------------------
TypeOK ==
  /\ kind \in Kinds /\ regs \subseteq Channels /\ ready \subseteq Channels
  /\ op \in {"none", "starting", "running", "over"} /\ canceled \in BOOLEAN

\* The application's registrations, the live tags and the table agree, so
\* the handler is never called for a tag that was freed.
TablesAgree ==
  /\ regs = DOMAIN tags /\ ready \subseteq regs
  /\ \A c \in DOMAIN tags : tags[c] \in 1..Len(fds) /\ fds[tags[c]] = c
  /\ \A i \in 1..Len(fds) : fds[i] # NoEntry => fds[i] \in DOMAIN tags /\ tags[fds[i]] = i

\* An operation that was started is answered by one DONE event, sent when
\* nothing of it is registered any more; one that was not started by none.
\* Only when one of its callbacks canceled it there are two.
DoneOnce ==
  /\ op = "over" => regs = {} /\ (Len(done) = 1 \/ done = <<"canceled", "ok">>)
  /\ op # "over" => done = <<>>

(* What an application's event loop may rely on.                            *)
UserLoopInv == TypeOK /\ TablesAgree /\ DoneOnce

\* Every operation comes to its DONE event.
DoneComes == op = "running" ~> op = "over"
=============================================================================
