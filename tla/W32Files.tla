------------------------------ MODULE W32Files ------------------------------
(***************************************************************************)
(* The file table of w32-io.c.  A descriptor of the library is an index    *)
(* into fd_table, common to all threads; its entry refers to a handle      *)
(* descriptor (hddesc_t), which counts the entries and the reader and      *)
(* writer threads that use it and closes the handle with the last one.     *)
(*                                                                         *)
(* Users are threads of the program.  Each works with its own descriptors. *)
(* What the code does under fd_table_lock is one step.  A worker is the    *)
(* context of a reader or a writer thread; W32Threads has what it does.    *)
(***************************************************************************)
EXTENDS Integers, FiniteSets, FiniteSetsExt

CONSTANTS
  Users,     \* threads of the program
  MaxFds,    \* MAX_SLAFD
  MaxHdds,   \* bound on handle descriptors alive at once
  MaxWorkers \* bound on reader and writer threads alive at once

VARIABLES
  fd_table,  \* the entries
  hdds,      \* refcount of each handle descriptor; with 0 it is freed
  workers,   \* reader and writer contexts: refcount and hdd
  pc, mine,  \* of a user: where it is in a call, and its descriptors
  arg        \* the descriptors the call works on, in order

vars == <<fd_table, hdds, workers, pc, mine, arg>>

Numbers == 0 .. MaxFds - 1
Hdds == 1 .. MaxHdds
Workers == 1 .. MaxWorkers
None == 0
NoNumber == -1
NoArg == <<NoNumber, NoNumber>>

unused == [used |-> FALSE, hdd |-> None, reader |-> None, writer |-> None,
           want |-> {}]
NoWorker == [refcount |-> 0, hdd |-> None]

Init ==
  /\ fd_table = [f \in Numbers |-> unused]
  /\ hdds = [h \in Hdds |-> 0]
  /\ workers = [w \in Workers |-> NoWorker]
  /\ pc = [u \in Users |-> "idle"]
  /\ mine = [u \in Users |-> {}]
  /\ arg = [u \in Users |-> NoArg]

-----------------------------------------------------------------------------
(* new_fd and release_fd, new_hddesc, ref_hddesc and release_hddesc.        *)

FreeFds == {f \in Numbers : ~fd_table[f].used}
new_fd == IF FreeFds = {} THEN NoNumber ELSE Min(FreeFds)
FreshEntry == [unused EXCEPT !.used = TRUE]

\* release_hddesc closes the handle and frees the object with the last
\* reference.
release_hddesc(hs, h) ==
  IF h = None THEN hs ELSE [hs EXCEPT ![h] = IF @ <= 1 THEN 0 ELSE @ - 1]

FreeHdds == {h \in Hdds : hdds[h] = 0}

Return(u) ==
  /\ pc' = [pc EXCEPT ![u] = "idle"]
  /\ arg' = [arg EXCEPT ![u] = NoArg]

\* The first step of a call that opens: an entry for the first descriptor.
Take(u, call) ==
  /\ pc[u] = "idle" /\ FreeFds # {}
  /\ fd_table' = [fd_table EXCEPT ![new_fd] = FreshEntry]
  /\ arg' = [arg EXCEPT ![u] = <<new_fd, NoNumber>>]
  /\ pc' = [pc EXCEPT ![u] = call]
  /\ UNCHANGED <<hdds, workers, mine>>

-----------------------------------------------------------------------------
(* _gpgme_io_pipe: an entry for each end, then a handle for each.           *)
PipeFirst(u) == Take(u, "pipe")

\* No second entry: the first is released.
PipeSecond(u) ==
  /\ pc[u] = "pipe"
  /\ IF FreeFds # {}
     THEN /\ fd_table' = [fd_table EXCEPT ![new_fd] = FreshEntry]
          /\ arg' = [arg EXCEPT ![u][2] = new_fd]
          /\ pc' = [pc EXCEPT ![u] = "pipe2"]
     ELSE /\ fd_table' = [fd_table EXCEPT ![arg[u][1]] = unused]
          /\ Return(u)
  /\ UNCHANGED <<hdds, workers, mine>>

\* The ends of the pipe are put into the entries, which nobody else knows of.
PipeFill(u) ==
  LET r == arg[u][1]
      w == arg[u][2]
  IN /\ pc[u] = "pipe2" /\ Cardinality(FreeHdds) >= 2
     /\ LET rh == Min(FreeHdds)
            wh == Min(FreeHdds \ {rh})
        IN /\ hdds' = [hdds EXCEPT ![rh] = 1, ![wh] = 1]
           /\ fd_table' = [fd_table EXCEPT ![r].hdd = rh, ![r].want = {"reader"},
                                           ![w].hdd = wh, ![w].want = {"writer"}]
     /\ mine' = [mine EXCEPT ![u] = @ \cup {r, w}]
     /\ Return(u)
     /\ UNCHANGED <<workers>>

\* No memory, no pipe or no inheritable handle: all is undone.
PipeFails(u) ==
  /\ pc[u] = "pipe2"
  /\ fd_table' = [fd_table EXCEPT ![arg[u][1]] = unused, ![arg[u][2]] = unused]
  /\ Return(u)
  /\ UNCHANGED <<hdds, workers, mine>>

(* _gpgme_io_socket.                                                        *)
SocketFirst(u) == Take(u, "socket")

SocketFill(u) ==
  /\ pc[u] = "socket"
  /\ \/ /\ FreeHdds # {}
        /\ hdds' = [hdds EXCEPT ![Min(FreeHdds)] = 1]
        /\ fd_table' = [fd_table EXCEPT ![arg[u][1]].hdd = Min(FreeHdds),
                                        ![arg[u][1]].want = {"reader", "writer"}]
        /\ mine' = [mine EXCEPT ![u] = @ \cup {arg[u][1]}]
     \/ /\ fd_table' = [fd_table EXCEPT ![arg[u][1]] = unused]
        /\ UNCHANGED <<hdds, mine>>
  /\ Return(u)
  /\ UNCHANGED <<workers>>

-----------------------------------------------------------------------------
(* find_reader and find_writer, called by read, write and select.           *)

FreeWorkers == {w \in Workers : workers[w].hdd = None}
Kinds == {"reader", "writer"}

\* Mutant: the context does not count as a user of the handle.
create_worker_noref(f, k) ==
  /\ FreeWorkers # {}
  /\ LET w == Min(FreeWorkers) IN
       /\ workers' = [workers EXCEPT ![w] =
                        [refcount |-> 1, hdd |-> fd_table[f].hdd]]
       /\ fd_table' = [fd_table EXCEPT ![f][k] = w]
  /\ UNCHANGED hdds

\* A new context refers to the handle descriptor for itself.
create_worker(f, k) ==
  /\ FreeWorkers # {}
  /\ LET w == Min(FreeWorkers) IN
       /\ workers' = [workers EXCEPT ![w] =
                        [refcount |-> 1, hdd |-> fd_table[f].hdd]]
       /\ fd_table' = [fd_table EXCEPT ![f][k] = w]
  /\ hdds' = [hdds EXCEPT ![fd_table[f].hdd] = @ + 1]

FindWorker(u, f, k) ==
  /\ pc[u] = "idle" /\ f \in mine[u]
  /\ k \in fd_table[f].want /\ fd_table[f][k] = None
  /\ create_worker(f, k)
  /\ UNCHANGED <<pc, mine, arg>>

\* The thread of a context that was told to stop frees it.
WorkerExit(w) ==
  /\ workers[w].hdd # None /\ workers[w].refcount = 0
  /\ hdds' = release_hddesc(hdds, workers[w].hdd)
  /\ workers' = [workers EXCEPT ![w] = NoWorker]
  /\ UNCHANGED <<fd_table, pc, mine, arg>>

(* _gpgme_io_dup: a new entry for the handle descriptor, under the lock ... *)
DupEntry(u, f) ==
  /\ pc[u] = "idle" /\ f \in mine[u] /\ FreeFds # {}
  /\ fd_table' = [fd_table EXCEPT ![new_fd] = [FreshEntry EXCEPT !.hdd = fd_table[f].hdd]]
  /\ hdds' = [hdds EXCEPT ![fd_table[f].hdd] = @ + 1]
  /\ arg' = [arg EXCEPT ![u] = <<f, new_fd>>]
  /\ pc' = [pc EXCEPT ![u] = "dup"]
  /\ UNCHANGED <<workers, mine>>

\* ... and then the same contexts, which find_reader and find_writer create
\* where they are wanted and not there yet.  Without a thread the new entry
\* goes without.  want is not copied.
DupCreate(u) ==
  /\ pc[u] = "dup"
  /\ \E k \in fd_table[arg[u][1]].want :
       fd_table[arg[u][1]][k] = None /\ create_worker(arg[u][1], k)
  /\ UNCHANGED <<pc, mine, arg>>

DupWorkers(u) ==
  LET old == fd_table[arg[u][1]] IN
  /\ pc[u] = "dup"
  /\ fd_table' = [fd_table EXCEPT ![arg[u][2]].reader = old.reader,
                                  ![arg[u][2]].writer = old.writer]
  /\ workers' = [w \in Workers |-> IF w \in {old.reader, old.writer}
                                   THEN [workers[w] EXCEPT !.refcount = @ + 1]
                                   ELSE workers[w]]
  /\ mine' = [mine EXCEPT ![u] = @ \cup {arg[u][2]}]
  /\ Return(u)
  /\ UNCHANGED <<hdds>>

-----------------------------------------------------------------------------
(* _gpgme_io_close, first step, under the lock: destroy_reader,             *)
(* destroy_writer, release_hddesc.  The entry stays in use.                 *)
CloseLocked(f) ==
  /\ workers' = [w \in Workers |-> IF w \in {fd_table[f][k] : k \in Kinds}
                                   THEN [workers[w] EXCEPT !.refcount = @ - 1]
                                   ELSE workers[w]]
  /\ hdds' = release_hddesc(hdds, fd_table[f].hdd)
  /\ fd_table' = [fd_table EXCEPT ![f].reader = None, ![f].writer = None, ![f].hdd = None]

Close(u, f) ==
  /\ pc[u] = "idle" /\ f \in mine[u]
  /\ CloseLocked(f)
  /\ arg' = [arg EXCEPT ![u] = <<f, NoNumber>>]
  /\ pc' = [pc EXCEPT ![u] = "closing"]
  /\ UNCHANGED <<mine>>

\* The handler runs without the lock, and "its slot (ie. the FD number)" is
\* released after it.
CloseNotify(u) ==
  /\ pc[u] = "closing"
  /\ pc' = [pc EXCEPT ![u] = "notified"]
  /\ UNCHANGED <<fd_table, hdds, workers, mine, arg>>

\* After a spawn the next descriptor of the list is closed.
CloseRelease(u) ==
  LET rest == arg[u][2] IN
  /\ pc[u] = "notified"
  /\ fd_table' = [fd_table EXCEPT ![arg[u][1]] = unused]
  /\ mine' = [mine EXCEPT ![u] = @ \ {arg[u][1]}]
  /\ IF rest = NoNumber
     THEN Return(u)
     ELSE /\ pc' = [pc EXCEPT ![u] = "spawned"]
          /\ arg' = [arg EXCEPT ![u] = <<rest, NoNumber>>]
  /\ UNCHANGED <<hdds, workers>>

(* _gpgme_io_spawn with one or two descriptors for the child: the handles   *)
(* are copied to it under the lock, then the descriptors are closed, one by *)
(* one.  A spawn that fails leaves them open.                               *)
Spawn(u, f, g) ==
  /\ pc[u] = "idle" /\ f \in mine[u] /\ g \in mine[u] \cup {NoNumber} /\ f # g
  /\ arg' = [arg EXCEPT ![u] = <<f, g>>]
  /\ pc' = [pc EXCEPT ![u] = "spawned"]
  /\ UNCHANGED <<fd_table, hdds, workers, mine>>

SpawnClose(u) ==
  /\ pc[u] = "spawned"
  /\ CloseLocked(arg[u][1])
  /\ pc' = [pc EXCEPT ![u] = "closing"]
  /\ UNCHANGED <<mine, arg>>

Step(u) ==
  \/ PipeFirst(u) \/ PipeSecond(u) \/ PipeFill(u) \/ PipeFails(u)
  \/ SocketFirst(u) \/ SocketFill(u) \/ DupCreate(u) \/ DupWorkers(u)
  \/ CloseNotify(u) \/ CloseRelease(u) \/ SpawnClose(u)
  \/ \E f \in Numbers :
       \/ DupEntry(u, f) \/ Close(u, f)
       \/ \E k \in Kinds : FindWorker(u, f, k)
       \/ \E g \in Numbers \cup {NoNumber} : Spawn(u, f, g)

Next == (\E u \in Users : Step(u)) \/ (\E w \in Workers : WorkerExit(w))

Spec == Init /\ [][Next]_vars

-----------------------------------------------------------------------------
\* The entries of the table have handles, and belong to one user or to the
\* call that opens or closes them.
TypeOK ==
  /\ \A u \in Users : pc[u] \in {"idle", "pipe", "pipe2", "socket", "dup", "spawned",
                                 "closing", "notified"}
  /\ \A f \in Numbers : fd_table[f].hdd # None => fd_table[f].used

(* The count of a handle descriptor is the number of table entries and      *)
(* threads that refer to it: release_hddesc closes no handle a thread still *)
(* reads from, and none stays open that nobody refers to.                   *)
HandlesHeld ==
  \A h \in Hdds : hdds[h] =
    Cardinality({f \in Numbers : fd_table[f].hdd = h})
      + Cardinality({w \in Workers : workers[w].hdd = h})

(* A thread's context is referred to by as many entries as its count says,  *)
(* and the thread that is told to stop is one nobody refers to.             *)
WorkersHeld ==
  \A w \in Workers : workers[w].refcount =
    Cardinality({<<f, k>> \in Numbers \X Kinds : fd_table[f][k] = w})

(* _gpgme_io_close and _gpgme_io_spawn release a descriptor's number only   *)
(* after its close handler has run: no other thread can have opened it as   *)
(* its own by then.                                                         *)
Working(u) ==
  mine[u] \cup (IF pc[u] = "idle" THEN {} ELSE {arg[u][i] : i \in 1 .. 2} \ {NoNumber})

NumbersOwned ==
  /\ \A u \in Users : \A f \in Working(u) : fd_table[f].used
  /\ \A u, v \in Users : u # v => Working(u) \cap Working(v) = {}

(* The safety of the file table of w32-io.c.                                *)
FilesInv == TypeOK /\ HandlesHeld /\ WorkersHeld /\ NumbersOwned
=============================================================================
