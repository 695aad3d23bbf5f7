---------------------------- MODULE CloseNotify ----------------------------
(***************************************************************************)
(* The close notifications of posix-io.c: a table, common to all threads,  *)
(* that says which handler to call when a descriptor is closed.            *)
(*                                                                         *)
(* An owner is a channel of an engine; owners act in threads of their own. *)
(* It gets a descriptor from the kernel, registers its handler for it, and *)
(* later closes it.  A scan of the table is done under notify_table_lock   *)
(* and is one step; the handler's call and close(2) come after the unlock  *)
(* and are steps of their own, so other owners open, register and close    *)
(* descriptors between them.  The kernel hands out any descriptor that is  *)
(* not open, also one closed a moment ago.                                 *)
(***************************************************************************)
EXTENDS Naturals

CONSTANTS
  Owners,     \* the values handlers are registered with
  Fds,        \* descriptors
  NoFd,       \* -1, an unused entry
  NoValue,    \* NULL
  Chunk       \* entries the table grows by, 64 in the code

ASSUME CloseNotifyAssumption ==
  /\ NoFd \notin Fds /\ NoValue \notin Owners
  /\ Chunk \in Nat \ {0}

VARIABLES
  size,   \* notify_table_size
  tfd,    \* notify_table[i].fd
  tval,   \* notify_table[i].value
  open,   \* descriptors the kernel has handed out
  pc,     \* where an owner is in the life of its descriptor
  fd,     \* the owner's descriptor
  hit,    \* handler_value in the owner's call of _gpgme_io_close
  told    \* owners whose handler was called since they got their descriptor

vars == <<size, tfd, tval, open, pc, fd, hit, told>>

Phases == {"idle", "opened", "registered", "bare", "scanned", "notified"}

TypeOK ==
  /\ size \in Nat
  /\ tfd \in [1..size -> Fds \cup {NoFd}]
  /\ tval \in [1..size -> Owners \cup {NoValue}]
  /\ open \subseteq Fds
  /\ pc \in [Owners -> Phases]
  /\ fd \in [Owners -> Fds \cup {NoFd}]
  /\ hit \in [Owners -> Owners \cup {NoValue}]
  /\ told \subseteq Owners

Init ==
  /\ size = 0
  /\ tfd = [i \in 1..0 |-> NoFd]
  /\ tval = [i \in 1..0 |-> NoValue]
  /\ open = {}
  /\ pc = [o \in Owners |-> "idle"]
  /\ fd = [o \in Owners |-> NoFd]
  /\ hit = [o \in Owners |-> NoValue]
  /\ told = {}

\* pipe(2) or dup(2).
Open(o) ==
  /\ pc[o] = "idle"
  /\ \E f \in Fds \ open :
       /\ open' = open \cup {f}
       /\ fd' = [fd EXCEPT ![o] = f]
  /\ pc' = [pc EXCEPT ![o] = "opened"]
  /\ told' = told \ {o}
  /\ UNCHANGED <<size, tfd, tval, hit>>

FirstFree(i) == tfd[i] = NoFd /\ \A j \in 1..size : tfd[j] = NoFd => i <= j
Full == \A i \in 1..size : tfd[i] # NoFd

\* Room in the table: the first free entry is taken.
TakeSlot(o) ==
  /\ pc[o] = "opened"
  /\ \E i \in 1..size :
       /\ FirstFree(i)
       /\ tfd' = [tfd EXCEPT ![i] = fd[o]]
       /\ tval' = [tval EXCEPT ![i] = o]
  /\ pc' = [pc EXCEPT ![o] = "registered"]
  /\ UNCHANGED <<size, open, fd, hit, told>>

\* Mutant: the entries are not copied to the larger table.
Grow_lossy(o) ==
  /\ pc[o] = "opened"
  /\ Full
  /\ size' = size + Chunk
  /\ tfd' = [i \in 1..size + Chunk |-> IF i = size + 1 THEN fd[o] ELSE NoFd]
  /\ tval' = [i \in 1..size + Chunk |-> IF i = size + 1 THEN o ELSE NoValue]
  /\ pc' = [pc EXCEPT ![o] = "registered"]
  /\ UNCHANGED <<open, fd, hit, told>>

\* No room: the table is copied to a larger one, and the first new entry taken.
Grow(o) ==
  /\ pc[o] = "opened"
  /\ Full
  /\ size' = size + Chunk
  /\ tfd' = [i \in 1..size + Chunk |-> IF i <= size THEN tfd[i]
                                       ELSE IF i = size + 1 THEN fd[o] ELSE NoFd]
  /\ tval' = [i \in 1..size + Chunk |-> IF i <= size THEN tval[i]
                                        ELSE IF i = size + 1 THEN o ELSE NoValue]
  /\ pc' = [pc EXCEPT ![o] = "registered"]
  /\ UNCHANGED <<open, fd, hit, told>>

\* No memory for a larger table: the owner will close its descriptor.
GrowFails(o) ==
  /\ pc[o] = "opened"
  /\ Full
  /\ pc' = [pc EXCEPT ![o] = "bare"]
  /\ UNCHANGED <<size, tfd, tval, open, fd, hit, told>>

FirstEntry(f, i) == tfd[i] = f /\ \A j \in 1..size : tfd[j] = f => i <= j

\* _gpgme_io_close looks for the descriptor, takes the handler and frees the
\* entry; without entry there is no handler to call.
Scan(o) ==
  /\ pc[o] \in {"registered", "bare"}
  /\ \/ \E i \in 1..size :
          /\ FirstEntry(fd[o], i)
          /\ hit' = [hit EXCEPT ![o] = tval[i]]
          /\ tfd' = [tfd EXCEPT ![i] = NoFd]
          /\ tval' = [tval EXCEPT ![i] = NoValue]
     \/ /\ \A i \in 1..size : tfd[i] # fd[o]
        /\ hit' = [hit EXCEPT ![o] = NoValue]
        /\ UNCHANGED <<tfd, tval>>
  /\ pc' = [pc EXCEPT ![o] = "scanned"]
  /\ UNCHANGED <<size, open, fd, told>>

\* The handler is called with the value from the table.
Notify(o) ==
  /\ pc[o] = "scanned"
  /\ told' = told \cup (IF hit[o] = NoValue THEN {} ELSE {hit[o]})
  /\ pc' = [pc EXCEPT ![o] = "notified"]
  /\ UNCHANGED <<size, tfd, tval, open, fd, hit>>

\* close(2)
Close(o) ==
  /\ pc[o] = "notified"
  /\ open' = open \ {fd[o]}
  /\ fd' = [fd EXCEPT ![o] = NoFd]
  /\ hit' = [hit EXCEPT ![o] = NoValue]
  /\ pc' = [pc EXCEPT ![o] = "idle"]
  /\ UNCHANGED <<size, tfd, tval, told>>

Step(o) ==
  \/ Open(o) \/ TakeSlot(o) \/ Grow(o) \/ GrowFails(o)
  \/ Scan(o) \/ Notify(o) \/ Close(o)

Next == \E o \in Owners : Step(o)

Spec == Init /\ [][Next]_vars

-----------------------------------------------------------------------------
(* The handler that _gpgme_io_close takes from the table is the one that    *)
(* was registered for this opening of the descriptor: never that of an      *)
(* earlier owner of the same number, and none when none was registered.     *)
HandlerIsOwners ==
  \A o \in Owners : pc[o] = "scanned" => hit[o] \in {o, NoValue}

(* Nobody is told of the closing of a descriptor that is not theirs: a      *)
(* handler has been called only for an owner that is about to close(2), or  *)
(* has done so.                                                             *)
ToldOnlyOnClose ==
  \A o \in Owners : pc[o] \in {"opened", "registered", "bare", "scanned"} => o \notin told

(* What has been registered is still there when the descriptor is closed:   *)
(* no other thread's growing of the table or taking of an entry loses it.   *)
RegisteredIsFound ==
  \A o \in Owners : pc[o] = "registered" =>
    \E i \in 1..size : FirstEntry(fd[o], i) /\ tval[i] = o

(* The table has no entry for a descriptor nobody has registered, so none   *)
(* for a number that the kernel may hand out next.                          *)
EntriesLive ==
  \A i \in 1..size : tfd[i] # NoFd =>
    /\ tval[i] \in Owners
    /\ pc[tval[i]] = "registered" /\ fd[tval[i]] = tfd[i]

\* The kernel hands out a descriptor to one owner at a time.
FdsOwned ==
  /\ \A o \in Owners : IF pc[o] = "idle" THEN fd[o] = NoFd ELSE fd[o] \in open
  /\ \A o, p \in Owners : fd[o] = fd[p] /\ fd[o] # NoFd => o = p

EntriesUnique ==
  \A i, j \in 1..size : tfd[i] = tfd[j] /\ tfd[i] # NoFd => i = j

HasEntry ==
  \A o \in Owners : pc[o] = "registered" =>
    \E i \in 1..size : tfd[i] = fd[o] /\ tval[i] = o

(* The inductive invariant behind these: what is in the table of           *)
(* posix-io.c are the registered owners of open descriptors, one entry for *)
(* each, and a notification in flight is that of the owner who closes.     *)
NotifyInv ==
  /\ TypeOK /\ FdsOwned /\ EntriesUnique /\ HasEntry
  /\ EntriesLive /\ HandlerIsOwners /\ ToldOnlyOnClose

(* The notifications of posix-io.c: a close calls the handler of the owner *)
(* of the descriptor, once, whatever other owners do in the meantime.      *)
TableSound == NotifyInv /\ RegisteredIsFound
=============================================================================
