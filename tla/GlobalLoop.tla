----------------------------- MODULE GlobalLoop -----------------------------
(***************************************************************************)
(* The global event loop (wait-global.c) with the I/O callback table       *)
(* (wait.c) and cancellation (gpgme.c): one thread loops over gpgme_wait   *)
(* while other threads start operations and cancel them.                   *)
(*                                                                         *)
(* A crypto engine is seen here through its file descriptors: the set of   *)
(* channels it registers, which of them are ready, and when each reaches   *)
(* end of file.  The engine itself is module GpgEngine.                    *)
(***************************************************************************)
EXTENDS Naturals, Sequences

CONSTANTS
  Ctx,          \* the contexts
  NoCtx,        \* the null pointer as a context argument
  Chan,         \* the channels an engine may register
  StatusChan,   \* the status channel, always registered first
  CmdChan,      \* the command channel, registered on demand by the status handler
  WaitArgs,     \* what the program passes to gpgme_wait
  MaxOps,       \* bound: operations started per context
  MaxIO,        \* bound: I/O events of an operation besides the ends of file
  AsyncCancel,  \* the program uses gpgme_cancel_async
  LateCancel,   \* the program may gpgme_cancel an operation that finished already
  EarlyRelease, \* the program may gpgme_release a context before collecting it
  OutOfCore     \* malloc may fail while the start event is handled

ASSUME GlobalLoopAssumption ==
  /\ NoCtx \notin Ctx
  /\ WaitArgs \subseteq Ctx \cup {NoCtx}
  /\ StatusChan \in Chan /\ CmdChan \in Chan /\ StatusChan # CmdChan
  /\ MaxOps \in Nat /\ MaxIO \in Nat
  /\ AsyncCancel \in BOOLEAN /\ LateCancel \in BOOLEAN
  /\ EarlyRelease \in BOOLEAN /\ OutOfCore \in BOOLEAN

VARIABLES
  phase,        \* [Ctx -> Phases], the program's view of a context
  ops,          \* operations started so far, also the generation of callbacks
  canceled,     \* ctx->canceled
  fdt,          \* [Ctx -> SUBSET Chan], the used slots of ctx->fdt
  ready,        \* [Ctx -> SUBSET Chan], what select would report
  left,         \* I/O events still to come before the ends of file
  eof,          \* [Ctx -> SUBSET Chan], channels this operation read to the end
  activeList,   \* ctx_active_list, head first
  doneList,     \* ctx_done_list, head first
  wpc,          \* where the thread in gpgme_wait_ext is
  wctx, whang,  \* its arguments
  snap,         \* the callbacks collected for select: <<context, channel, generation>>
  sig,          \* those of them select reported, as far as not yet handled
  sctx,         \* the context about to get its DONE event
  fault         \* a failed assertion or a null pointer access, or "none"

ctxVars  == <<phase, ops, canceled>>
ioVars   == <<fdt, ready, left, eof>>
listVars == <<activeList, doneList>>
waitVars == <<wpc, wctx, whang, snap, sig, sctx>>
vars     == <<ctxVars, ioVars, listVars, waitVars, fault>>

Phases   == {"idle", "starting", "pending", "released"}
Codes    == {"none", "canceled", "failed"}
Item     == [ctx : Ctx]
DoneItem == [ctx : Ctx, status : Codes, op_err : {"none", "op"}]
Initial  == Chan \ {CmdChan}

TypeOK ==
  /\ phase \in [Ctx -> Phases]
  /\ ops \in [Ctx -> 0..MaxOps]
  /\ canceled \in [Ctx -> BOOLEAN]
  /\ fdt \in [Ctx -> SUBSET Chan]
  /\ ready \in [Ctx -> SUBSET Chan]
  /\ left \in [Ctx -> 0..MaxIO]
  /\ eof \in [Ctx -> SUBSET Chan]
  /\ activeList \in Seq(Item)
  /\ doneList \in Seq(DoneItem)
  /\ wpc \in {"out", "collect", "select", "handle", "sweep", "done", "take"}
  /\ wctx \in Ctx \cup {NoCtx}
  /\ whang \in BOOLEAN
  /\ snap \subseteq Ctx \X Chan \X (0..MaxOps)
  /\ sig \subseteq Ctx \X Chan \X (0..MaxOps)
  /\ sctx \in IF wpc = "done" THEN Ctx ELSE {NoCtx}
  /\ fault \in {"none", "assert", "null"}

Init ==
  /\ phase = [c \in Ctx |-> "idle"]
  /\ ops = [c \in Ctx |-> 0]
  /\ canceled = [c \in Ctx |-> FALSE]
  /\ fdt = [c \in Ctx |-> {}]
  /\ ready = [c \in Ctx |-> {}]
  /\ left = [c \in Ctx |-> 0]
  /\ eof = [c \in Ctx |-> {}]
  /\ activeList = <<>> /\ doneList = <<>>
  /\ wpc = "out" /\ wctx = NoCtx /\ whang = FALSE
  /\ snap = {} /\ sig = {} /\ sctx = NoCtx
  /\ fault = "none"
-----------------------------------------------------------------------------
(* The two lists of ctx_list_items.                                        *)

InList(list, c) == \E i \in 1..Len(list) : list[i].ctx = c

WithoutAt(list, i) ==
  [j \in 1..(Len(list) - 1) |-> IF j < i THEN list[j] ELSE list[j + 1]]

\* ctx_active: a new item at the head of the active list.
ctx_active(c) ==
  /\ activeList' = <<[ctx |-> c]>> \o activeList
  /\ UNCHANGED doneList

\* ctx_done: the item of c moves from the active list to the head of the
\* done list; it is an assertion that there is one.
ctx_done(c, status, op_err) ==
  \/ /\ \E i \in 1..Len(activeList) :
          /\ activeList[i].ctx = c
          /\ \A j \in 1..(i - 1) : activeList[j].ctx # c
          /\ activeList' = WithoutAt(activeList, i)
     /\ doneList' = <<[ctx |-> c, status |-> status, op_err |-> op_err]>> \o doneList
     /\ UNCHANGED fault
  \/ /\ ~InList(activeList, c)
     /\ fault' = "assert"
     /\ UNCHANGED listVars

\* _gpgme_cancel_with_err: the engine closes every descriptor of the
\* context, which removes its callbacks; then it sends the DONE event.  With
\* an operational error alone only the status descriptor is closed, which is
\* the only one in that case.
cancel_with_err(c, ctx_err, op_err) ==
  /\ fdt' = [fdt EXCEPT ![c] = {}]
  /\ ready' = [ready EXCEPT ![c] = {}]
  /\ ctx_done(c, ctx_err, op_err)
-----------------------------------------------------------------------------
(* Threads that start, cancel and release.                                 *)

\* _gpgme_op_reset and the engine's start, up to the START event.  Resetting
\* releases the old engine with any callback a failed start left behind.
StartOp(c) ==
  /\ phase[c] = "idle" /\ ops[c] < MaxOps
  /\ phase' = [phase EXCEPT ![c] = "starting"]
  /\ ops' = [ops EXCEPT ![c] = @ + 1]
  /\ canceled' = [canceled EXCEPT ![c] = FALSE]
  /\ fdt' = [fdt EXCEPT ![c] = Initial]
  /\ ready' = [ready EXCEPT ![c] = {}]
  /\ left' = [left EXCEPT ![c] = MaxIO]
  /\ eof' = [eof EXCEPT ![c] = {}]
  /\ UNCHANGED <<listVars, waitVars, fault>>

\* The engine's start fails half way: the callbacks it registered stay in
\* the table, and the START event is never sent.
StartOpFails(c) ==
  /\ phase[c] = "idle" /\ ops[c] < MaxOps
  /\ ops' = [ops EXCEPT ![c] = @ + 1]
  /\ canceled' = [canceled EXCEPT ![c] = FALSE]
  /\ \E S \in (SUBSET Initial) \ {Initial} :
       /\ S # {} => StatusChan \in S
       /\ fdt' = [fdt EXCEPT ![c] = S]
  /\ ready' = [ready EXCEPT ![c] = {}]
  /\ left' = [left EXCEPT ![c] = MaxIO]
  /\ eof' = [eof EXCEPT ![c] = {}]
  /\ UNCHANGED <<phase, listVars, waitVars, fault>>

\* _gpgme_wait_global_event_cb, GPGME_EVENT_START: the context becomes
\* visible to gpgme_wait.  Without memory for the list item the operation is
\* cancelled, which sends a DONE event.
StartEvent(c) ==
  /\ phase[c] = "starting"
  /\ \/ /\ ctx_active(c)
        /\ phase' = [phase EXCEPT ![c] = "pending"]
        /\ UNCHANGED <<ioVars, fault>>
     \/ /\ OutOfCore
        /\ cancel_with_err(c, "failed", "none")
        /\ UNCHANGED <<phase, left, eof>>
  /\ UNCHANGED <<ops, canceled, waitVars>>

\* gpgme_cancel on an operation the program did not collect yet.  The manual
\* forbids it while a thread is in gpgme_wait.
Cancel(c) ==
  /\ wpc = "out" /\ phase[c] = "pending"
  /\ LateCancel \/ InList(activeList, c)
  /\ cancel_with_err(c, "canceled", "none")
  /\ UNCHANGED <<ctxVars, left, eof, waitVars>>

\* gpgme_cancel_async: any thread, at any time after the start.
CancelAsync(c) ==
  /\ AsyncCancel /\ phase[c] = "pending" /\ ~canceled[c]
  /\ canceled' = [canceled EXCEPT ![c] = TRUE]
  /\ UNCHANGED <<phase, ops, ioVars, listVars, waitVars, fault>>

\* gpgme_release: the engine closes its descriptors, the table and the
\* context are freed; the global lists are not looked at.
Release(c) ==
  /\ wpc = "out"
  /\ phase[c] \in (IF EarlyRelease THEN {"idle", "pending"} ELSE {"idle"})
  /\ phase' = [phase EXCEPT ![c] = "released"]
  /\ fdt' = [fdt EXCEPT ![c] = {}]
  /\ ready' = [ready EXCEPT ![c] = {}]
  /\ UNCHANGED <<ops, canceled, left, eof, listVars, waitVars, fault>>

\* The engine process writes, reads or closes: a channel becomes ready.
EngineReady(c, ch) ==
  /\ ch \in fdt[c] \ ready[c]
  /\ ready' = [ready EXCEPT ![c] = @ \cup {ch}]
  /\ UNCHANGED <<ctxVars, fdt, left, eof, listVars, waitVars, fault>>
-----------------------------------------------------------------------------
(* The thread in gpgme_wait_ext.                                           *)

\* The program waits for an operation it started, or for any.
WaitCall(a, hang) ==
  /\ wpc = "out"
  /\ IF a \in Ctx THEN phase[a] = "pending" ELSE \E c \in Ctx : phase[c] = "pending"
  /\ wpc' = "collect" /\ wctx' = a /\ whang' = hang
  /\ UNCHANGED <<ctxVars, ioVars, listVars, snap, sig, sctx, fault>>

Return ==
  /\ wpc' = "out" /\ wctx' = NoCtx /\ whang' = FALSE
  /\ snap' = {} /\ sig' = {} /\ sctx' = NoCtx

\* Copy the tables of all active contexts, holding ctx_list_lock; the copy
\* may fail for lack of memory.
Collect ==
  /\ wpc = "collect"
  /\ \/ /\ snap' = {e \in Ctx \X Chan \X (0..MaxOps) :
                     InList(activeList, e[1]) /\ e[2] \in fdt[e[1]] /\ e[3] = ops[e[1]]}
        /\ wpc' = "select"
        /\ UNCHANGED <<wctx, whang, sig, sctx>>
     \/ Return
  /\ UNCHANGED <<ctxVars, ioVars, listVars, fault>>

\* _gpgme_io_select on the copy, without any lock: what is ready is
\* reported; a descriptor may be reported that is not ready any more when it
\* is looked at.  An error ends the call.
Select ==
  /\ wpc = "select"
  /\ \/ /\ sig' \in SUBSET snap
        /\ \A e \in snap : e[2] \in ready[e[1]] => e \in sig'
        /\ snap' = {} /\ wpc' = "handle"
        /\ UNCHANGED <<wctx, whang, sctx>>
     \/ Return
  /\ UNCHANGED <<ctxVars, ioVars, listVars, fault>>

\* An I/O callback that neither fails nor ends: one more read or write.  The
\* status handler registers the command channel when the engine asks for input.
More(c, ch) ==
  /\ left[c] > 0 /\ ch # CmdChan
  /\ left' = [left EXCEPT ![c] = @ - 1]
  /\ ready' = [ready EXCEPT ![c] = @ \ {ch}]
  /\ \/ UNCHANGED fdt
     \/ ch = StatusChan /\ fdt' = [fdt EXCEPT ![c] = @ \cup {CmdChan}]
  /\ UNCHANGED <<eof, listVars, fault>>

\* The callback reads the end of file, or the command was answered: the
\* descriptor's callback is removed.
Last(c, ch) ==
  /\ fdt' = [fdt EXCEPT ![c] = @ \ {ch}]
  /\ ready' = [ready EXCEPT ![c] = @ \ {ch}]
  /\ eof' = [eof EXCEPT ![c] = @ \cup {ch}]
  /\ UNCHANGED <<left, listVars, fault>>

\* Mutant: the loop goes on with the next reported callback.
CancelAndGoOn(c, err, op_err) ==
  /\ cancel_with_err(c, err, op_err)
  /\ sig' = {e \in sig : e[1] # c \/ e[2] # StatusChan} /\ UNCHANGED <<wpc, left, eof>>

\* An error cancels the callback's context and ends the pass over the copy.
CancelAndBreak(c, err, op_err) ==
  /\ cancel_with_err(c, err, op_err)
  /\ sig' = {} /\ wpc' = "sweep"
  /\ UNCHANGED <<left, eof>>

\* One reported callback.  The test for cancellation looks at the argument
\* of gpgme_wait_ext.  The callback or the poll before it may fail; the
\* session engines (assuan, g13), which have a status channel only, may
\* report an operational error instead.
Handle(e) ==
  LET c  == e[1]
      ch == e[2] IN
  /\ wpc = "handle" /\ e \in sig
  /\ \/ /\ wctx = NoCtx
        /\ fault' = "null"
        /\ UNCHANGED <<ioVars, listVars, wpc, sig>>
     \/ /\ wctx # NoCtx /\ canceled[wctx]
        /\ CancelAndBreak(c, "canceled", "none")
     \/ /\ wctx # NoCtx /\ ~canceled[wctx]
        /\ \/ /\ ch \in ready[c] /\ (More(c, ch) \/ Last(c, ch))
              /\ sig' = sig \ {e} /\ UNCHANGED wpc
           \/ /\ ch \notin ready[c]
              /\ sig' = sig \ {e}
              /\ UNCHANGED <<ioVars, listVars, wpc, fault>>
           \/ CancelAndBreak(c, "failed", "none")
           \/ /\ Initial = {StatusChan} /\ fdt[c] = {StatusChan} /\ ch \in ready[c]
              /\ CancelAndBreak(c, "none", "op")
  /\ UNCHANGED <<ctxVars, wctx, whang, snap, sctx>>

\* All reported callbacks are handled.
HandledAll ==
  /\ wpc = "handle" /\ sig = {}
  /\ wpc' = "sweep"
  /\ UNCHANGED <<ctxVars, ioVars, listVars, wctx, whang, snap, sig, sctx, fault>>

\* Mutant: the search misses the last item of the list.
QuietButLast(i) == i < Len(activeList) /\ fdt[activeList[i].ctx] = {}

\* The i-th active context has no callback left.
Quiet(i) == fdt[activeList[i].ctx] = {}

\* Holding the lock, look for the first such context.
Sweep ==
  /\ wpc = "sweep"
  /\ \/ \E i \in 1..Len(activeList) :
          /\ Quiet(i) /\ \A j \in 1..(i - 1) : ~Quiet(j)
          /\ sctx' = activeList[i].ctx
          /\ wpc' = "done"
     \/ /\ \A i \in 1..Len(activeList) : ~Quiet(i)
        /\ wpc' = "take"
        /\ UNCHANGED sctx
  /\ UNCHANGED <<ctxVars, ioVars, listVars, wctx, whang, snap, sig, fault>>

\* Its DONE event is sent with the lock released; then the search restarts.
SendDone ==
  /\ wpc = "done"
  /\ ctx_done(sctx, "none", "none")
  /\ sctx' = NoCtx /\ wpc' = "sweep"
  /\ UNCHANGED <<ctxVars, ioVars, wctx, whang, snap, sig>>

Matches(i) == wctx = NoCtx \/ doneList[i].ctx = wctx

\* Mutant: the item stays in the list.
LeaveDone(i) == UNCHANGED doneList

RemoveDone(i) == doneList' = WithoutAt(doneList, i)

Again ==
  /\ wpc' = "collect"
  /\ UNCHANGED <<wctx, whang, snap, sig, sctx>>

\* ctx_wait: the first matching item leaves the done list and its context is
\* returned; without one the call goes on if it may hang.
Take ==
  /\ wpc = "take"
  /\ \/ \E i \in 1..Len(doneList) :
          /\ Matches(i) /\ \A j \in 1..(i - 1) : ~Matches(j)
          /\ RemoveDone(i)
          /\ phase' = [phase EXCEPT ![doneList[i].ctx] = IF @ = "pending" THEN "idle" ELSE @]
          /\ Return
     \/ /\ \A i \in 1..Len(doneList) : ~Matches(i)
        /\ IF whang THEN Again ELSE Return
        /\ UNCHANGED <<phase, doneList>>
  /\ UNCHANGED <<ops, canceled, ioVars, activeList, fault>>

Wait == Collect \/ Select \/ (\E e \in sig : Handle(e)) \/ HandledAll \/ Sweep \/ SendDone \/ Take

Next ==
  /\ fault = "none"
  /\ \/ \E c \in Ctx : StartOp(c) \/ StartOpFails(c) \/ StartEvent(c)
     \/ \E c \in Ctx : Cancel(c) \/ CancelAsync(c) \/ Release(c)
     \/ \E c \in Ctx, ch \in Chan : EngineReady(c, ch)
     \/ \E a \in WaitArgs, hang \in BOOLEAN : WaitCall(a, hang)
     \/ Wait

Spec == Init /\ [][Next]_vars
-----------------------------------------------------------------------------
(* Properties.                                                             *)

Distinct(list) == \A i, j \in 1..Len(list) : list[i].ctx = list[j].ctx => i = j

\* A context is in the two global lists at most once altogether, and it is
\* there exactly while its operation is pending: what the searches of
\* ctx_done and ctx_wait, which stop at the first match, rely on.
ListsSound ==
  /\ Distinct(activeList)
  /\ Distinct(doneList)
  /\ \A c \in Ctx : ~(InList(activeList, c) /\ InList(doneList, c))
  /\ \A c \in Ctx : (InList(activeList, c) \/ InList(doneList, c)) <=> phase[c] = "pending"

\* No DONE event reaches ctx_done for a context that is not active: its
\* assert (li) holds (wait-global.c:125).
AssertionsHold == fault # "assert"

\* gpgme_wait (NULL, ...) waits for any context: no null pointer is accessed.
NoNullAccess == fault # "null"

\* gpgme_wait_ext handles a private copy of the tables.  Every callback of
\* the copy that is still to be handled is the one registered now: the item
\* the copy points to has not been freed and belongs to this operation.
CallbacksLive ==
  \A e \in sig : /\ e[2] \in fdt[e[1]] /\ e[3] = ops[e[1]]
                 /\ InList(activeList, e[1])

\* A context in the done list has no callback left: nothing of its engine is
\* served after its result was fixed.
FinishedIsQuiet == \A i \in 1..Len(doneList) : fdt[doneList[i].ctx] = {}

\* An operation is reported as successful only when each of its channels was
\* read to the end: a cancelled or failed one is never taken for complete.
SuccessIsComplete ==
  \A i \in 1..Len(doneList) :
    doneList[i].status = "none" /\ doneList[i].op_err = "none"
      => Initial \subseteq eof[doneList[i].ctx]

\* What the thread in gpgme_wait_ext holds without the lock stays true while
\* other threads run: its copy of the tables and the context that is about
\* to be done.
WaitSound ==
  /\ snap # {} => wpc = "select"
  /\ sig # {} => wpc = "handle"
  /\ \A e \in snap \cup sig :
       InList(activeList, e[1]) /\ e[2] \in fdt[e[1]] /\ e[3] = ops[e[1]]
  /\ wpc = "done" => InList(activeList, sctx) /\ fdt[sctx] = {}

\* Each channel of a running operation is either still served or was read to
\* the end.
NothingSkipped ==
  \A c \in Ctx : InList(activeList, c) \/ (phase[c] = "starting" /\ fault = "none")
                => Initial \subseteq fdt[c] \cup eof[c]

\* The inductive invariant of the loop: between any two steps of gpgme_wait
\* and of the threads that start and cancel, the lists, the unlocked copy of
\* the tables and the results of finished operations agree.
LoopInv ==
  /\ TypeOK
  /\ ListsSound
  /\ WaitSound
  /\ NothingSkipped
  /\ FinishedIsQuiet
  /\ SuccessIsComplete

\* After gpgme_release the lists do not mention the context any more.
NoDanglingContext ==
  \A c \in Ctx : phase[c] = "released" => ~InList(activeList, c) /\ ~InList(doneList, c)

\* After gpgme_cancel_async no I/O of the operation is served any more.
CancelTakesEffect ==
  [][\A c \in Ctx : canceled[c] /\ canceled'[c] => left'[c] = left[c] /\ eof'[c] = eof[c]]_vars

\* The lists implement the user's view: each started operation finishes with
\* one result that never changes and is handed out once.
Ops == INSTANCE AsyncOps WITH
  Results  <- [status : Codes, op_err : {"none", "op"}],
  NoResult <- [status |-> "none", op_err |-> "unset"],
  opState  <- [c \in Ctx |-> IF InList(activeList, c) THEN "running"
                             ELSE IF InList(doneList, c) THEN "finished" ELSE "idle"],
  result   <- [c \in Ctx |->
                 IF InList(doneList, c)
                 THEN LET d == doneList[CHOOSE i \in 1..Len(doneList) : doneList[i].ctx = c]
                      IN  [status |-> d.status, op_err |-> d.op_err]
                 ELSE [status |-> "none", op_err |-> "unset"]]

EachResultOnce == Ops!OpSpec

\* The thread in gpgme_wait keeps running, threads that started an operation
\* send its START event, and the engine process always goes on to write,
\* read or close each of its channels.
Fairness ==
  /\ WF_vars(fault = "none" /\ Wait)
  /\ \A c \in Ctx : WF_vars(fault = "none" /\ StartEvent(c))
  /\ \A c \in Ctx, ch \in Chan : WF_vars(fault = "none" /\ EngineReady(c, ch))

FairSpec == Spec /\ Fairness

\* A call of gpgme_wait for a pending operation returns, whatever the other
\* contexts do meanwhile.
WaitReturns == wpc # "out" ~> wpc = "out"
=============================================================================
