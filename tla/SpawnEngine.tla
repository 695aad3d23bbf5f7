---------------------------- MODULE SpawnEngine ----------------------------
(***************************************************************************)
(* gpgme_op_spawn: a program is run with its standard streams connected to *)
(* data objects.  spawn.c starts the operation, engine-spawn.c makes the   *)
(* pipes and keeps the map from descriptors to data, posix-io.c forks and  *)
(* arranges the descriptors of the child, and the private event loop       *)
(* (wait-private.c) moves the data until every descriptor is closed.       *)
(*                                                                         *)
(* A process is a table from descriptor numbers to what they refer to; the *)
(* kernel hands out the lowest number that is free.  Other threads of the  *)
(* application open and close descriptors of their own at any time, so a   *)
(* number gpgme has closed is soon somebody else's.                        *)
(***************************************************************************)
EXTENDS Integers, FiniteSets, Sequences, FiniteSetsExt

CONSTANTS
  MaxFd,        \* descriptors are 0..MaxFd
  FD_SETSIZE,   \* what select can wait for
  StdSets,      \* which of 0, 1, 2 the application has open
  StreamSets,   \* which of stdin, stdout, stderr are connected to data
  MaxAppFds,    \* bound on the descriptors other threads have open
  MaxOps        \* bound on the operations

Numbers == 0..MaxFd
Free == [kind |-> "free", of |-> -1]
App == [kind |-> "app", of |-> -1]
Leaked == [kind |-> "leaked", of |-> -1]
DevNull == [kind |-> "null", of |-> -1]
End(k, s) == [kind |-> k, of |-> s]

VARIABLES
  std,       \* the standard descriptors of the application
  files,     \* the descriptors of this process
  child,     \* those of the child since it called execv, or none
  arglist,   \* esp->arglist from the entry build_fd_data_map is at
  map,       \* esp->fd_data_map
  notify,    \* descriptors with a close notification
  watched,   \* ctx->fdt
  pc,        \* where the operation is
  pos,       \* the entry a loop is at
  ops        \* operations started

vars == <<std, files, child, arglist, map, notify, watched, pc, pos, ops>>

Gone == [f \in Numbers |-> Free]

Init ==
  /\ std \in StdSets
  /\ files = [f \in Numbers |-> IF f \in std THEN App ELSE Free]
  /\ child = Gone /\ arglist = <<>> /\ map = <<>> /\ notify = {} /\ watched = {}
  /\ pc = "idle" /\ pos = 1 /\ ops = 0

Lowest(fs) == {f \in Numbers : fs[f] = Free /\ \A g \in 0..f - 1 : fs[g] # Free}

-----------------------------------------------------------------------------
(* Closing.  _gpgme_io_close calls close_notify_handler first, which takes  *)
(* the descriptor out of the loop and out of the map.                       *)

close_notify_handler(m, gone) ==
  [i \in 1..Len(m) |-> [m[i] EXCEPT !.fd = IF @ \in gone THEN -1 ELSE @,
                                    !.peer_fd = IF @ \in gone THEN -1 ELSE @]]

_gpgme_io_close(gone) ==
  /\ files' = [f \in Numbers |-> IF f \in gone THEN Free ELSE files[f]]
  /\ notify' = notify \ gone
  /\ map' = close_notify_handler(map, gone \cap notify)
  /\ watched' = watched \ (gone \cap notify)

MapFds == {map[i].fd : i \in 1..Len(map)} \cup {map[i].peer_fd : i \in 1..Len(map)}

\* Everything in the map is closed, and the map freed.
free_fd_data_map ==
  /\ files' = [f \in Numbers |-> IF f \in MapFds THEN Free ELSE files[f]]
  /\ notify' = notify \ MapFds
  /\ watched' = watched \ (MapFds \cap notify)
  /\ map' = <<>>

-----------------------------------------------------------------------------
(* Starting.  The spawn engine has no reset function, so _gpgme_op_reset    *)
(* releases it and makes a new one.                                         *)

add_data(S) ==
  (IF 0 \in S THEN <<[dup_to |-> 0, inbound |-> FALSE]>> ELSE <<>>)
    \o (IF 1 \in S THEN <<[dup_to |-> 1, inbound |-> TRUE]>> ELSE <<>>)
    \o (IF 2 \in S THEN <<[dup_to |-> 2, inbound |-> TRUE]>> ELSE <<>>)

engspawn_release == free_fd_data_map

spawn_start(S) ==
  /\ pc = "idle" /\ ops < MaxOps /\ ops' = ops + 1
  /\ engspawn_release
  /\ arglist' = add_data(S) /\ child' = Gone
  /\ pc' = "build" /\ UNCHANGED <<std, pos>>

\* What the application's call returns with, an error included: the engine
\* and its map stay with the context.
Return == pc' = "idle" /\ pos' = 1

_gpgme_io_pipe(fs) ==
  {p \in Numbers \X Numbers :
     /\ p[1] \in Lowest(fs)
     /\ p[2] \in Lowest([fs EXCEPT ![p[1]] = App])}

\* One entry of the map: the child's end is the one that inherits.
build_fd_data_map ==
  /\ pc = "build" /\ arglist # <<>>
  /\ \E p \in _gpgme_io_pipe(files) :
       LET a == Head(arglist) IN
       /\ files' = [files EXCEPT ![p[1]] = End("read", a.dup_to), ![p[2]] = End("write", a.dup_to)]
       /\ notify' = notify \cup {p[1], p[2]}
       /\ map' = Append(map, [dup_to |-> a.dup_to, inbound |-> a.inbound,
                              fd |-> IF a.inbound THEN p[1] ELSE p[2],
                              peer_fd |-> IF a.inbound THEN p[2] ELSE p[1]])
  /\ arglist' = Tail(arglist)
  /\ UNCHANGED <<std, child, watched, pc, pos, ops>>

\* pipe(2) fails: the map is freed, but what is in it is not closed.
BuildFails ==
  /\ pc = "build" /\ arglist # <<>>
  /\ files' = [f \in Numbers |-> IF f \in MapFds THEN Leaked ELSE files[f]]
  /\ map' = <<>> /\ Return
  /\ UNCHANGED <<std, child, arglist, notify, watched, ops>>

\* No room in the table of notifications: the two new descriptors are lost,
\* with a notification for none or for the first of them.
BuildUnnotified ==
  /\ pc = "build" /\ arglist # <<>>
  /\ \E p \in _gpgme_io_pipe(files), n \in BOOLEAN :
       /\ files' = [files EXCEPT ![p[1]] = Leaked, ![p[2]] = Leaked]
       /\ notify' = notify \cup (IF n THEN {p[1]} ELSE {})
  /\ Return /\ UNCHANGED <<std, child, arglist, map, watched, ops>>

-----------------------------------------------------------------------------
(* The child, between fork and exec.                                        *)

fd_list == [i \in 1..Len(map) |-> [fd |-> map[i].peer_fd, dup_to |-> map[i].dup_to]]
Listed == {fd_list[i].fd : i \in 1..Len(map)}

\* One above the highest descriptor, as /proc/self/fd tells; or a limit of
\* the system, which is at least that.
get_max_fds == {1 + Max({f \in Numbers : files[f] # Free} \cup {0}), MaxFd + 1}

\* Mutant: the child closes nothing.
CloseOthers_none(max_fds) == files

CloseOthers(max_fds) ==
  [f \in Numbers |-> IF f < max_fds /\ f \notin Listed THEN Free ELSE files[f]]

\* The entries of fd_list, in order: dup2, then close.  The child exits when
\* dup2 fails, because an earlier entry has closed the descriptor.
Dups(fs) ==
  LET D[i \in 0..Len(map)] ==
        IF i = 0 THEN fs
        ELSE LET e == fd_list[i]
                 d == [D[i - 1] EXCEPT ![e.dup_to] = D[i - 1][e.fd]]
             IN  IF D[i - 1] = Gone \/ D[i - 1][e.fd] = Free THEN Gone
                 ELSE [d EXCEPT ![e.fd] = Free]
  IN  D[Len(map)]

Seen == {fd_list[i].dup_to : i \in 1..Len(map)}

\* /dev/null for the streams no entry is for.
Nulls(fs) ==
  IF {0, 1, 2} \subseteq Seen \/ (fs = Gone /\ map # <<>>) THEN fs
  ELSE LET fd == CHOOSE f \in Lowest(fs) : TRUE IN
       [f \in Numbers |-> IF f \in {0, 1, 2} /\ (f \notin Seen \/ f = fd) THEN DevNull ELSE fs[f]]

Fork ==
  /\ pc = "build" /\ arglist = <<>>
  /\ \E max_fds \in get_max_fds : child' = Nulls(Dups(CloseOthers(max_fds)))
  /\ pc' = "close" /\ pos' = 1
  /\ UNCHANGED <<std, files, arglist, map, notify, watched, ops>>

\* One of the two forks fails (the intermediate child then exits with 1), or
\* there is no memory for fd_list.
ForkFails ==
  /\ pc = "build" /\ arglist = <<>>
  /\ Return /\ UNCHANGED <<std, files, child, arglist, map, notify, watched, ops>>

-----------------------------------------------------------------------------
(* The parent closes the child's ends, one after the other, and registers   *)
(* its own with the loop of the context.                                    *)

\* Mutant: only the first of the child's ends is closed.
SpawnClose_first ==
  /\ pc = "close" /\ pos <= Len(map)
  /\ _gpgme_io_close(IF pos = 1 THEN {map[pos].peer_fd} ELSE {})
  /\ pos' = pos + 1
  /\ UNCHANGED <<std, child, arglist, pc, ops>>

SpawnClose ==
  /\ pc = "close" /\ pos <= Len(map)
  /\ _gpgme_io_close({map[pos].peer_fd})
  /\ pos' = pos + 1
  /\ UNCHANGED <<std, child, arglist, pc, ops>>

Spawned ==
  /\ pc = "close" /\ pos > Len(map)
  /\ pc' = "register" /\ pos' = 1
  /\ UNCHANGED <<std, files, child, arglist, map, notify, watched, ops>>

add_io_cb ==
  /\ pc = "register" /\ pos <= Len(map)
  /\ watched' = watched \cup {map[pos].fd}
  /\ pos' = pos + 1
  /\ UNCHANGED <<std, files, child, arglist, map, notify, pc, ops>>

\* No memory for the entry, or the descriptor cannot be made non-blocking (it
\* is registered then).  The child goes on.
AddFails ==
  /\ pc = "register" /\ pos <= Len(map)
  /\ watched' \in {watched} \cup (IF map[pos].inbound THEN {} ELSE {watched \cup {map[pos].fd}})
  /\ Return /\ UNCHANGED <<std, files, child, arglist, map, notify, ops>>

Started ==
  /\ pc = "register" /\ pos > Len(map)
  /\ pc' = "wait" /\ pos' = 1
  /\ UNCHANGED <<std, files, child, arglist, map, notify, watched, ops>>

-----------------------------------------------------------------------------
(* Waiting.                                                                  *)

engspawn_cancel == free_fd_data_map

\* A descriptor select cannot wait for: the operation is canceled.
SelectFails ==
  /\ pc = "wait" /\ \E f \in watched : f >= FD_SETSIZE
  /\ engspawn_cancel /\ Return
  /\ UNCHANGED <<std, child, arglist, ops>>

\* gpgme_cancel, or an error of a data object.
Canceled ==
  /\ pc = "wait" /\ watched # {}
  /\ engspawn_cancel /\ Return
  /\ UNCHANGED <<std, child, arglist, ops>>

Ends(k, s) == {f \in Numbers : files[f] = End(k, s)} \cup {f \in Numbers : child[f] = End(k, s)}
StreamOf(f) == files[f].of

\* What the handler of a descriptor comes to: an inbound stream is closed at
\* its end, when nobody has the other end open for writing; an outbound one
\* when all is written or nobody reads.
_gpgme_data_inbound_handler(f) == files[f].kind = "read" /\ Ends("write", StreamOf(f)) = {}
_gpgme_data_outbound_handler(f) == files[f].kind = "write"

_gpgme_io_select == IF \A f \in watched : f < FD_SETSIZE THEN watched ELSE {}

Handle(f) ==
  /\ pc = "wait" /\ f \in _gpgme_io_select
  /\ _gpgme_data_inbound_handler(f) \/ _gpgme_data_outbound_handler(f)
  /\ _gpgme_io_close({f})
  /\ UNCHANGED <<std, child, arglist, pc, pos, ops>>

Done ==
  /\ pc = "wait" /\ watched = {} /\ Return
  /\ UNCHANGED <<std, files, child, arglist, map, notify, watched, ops>>

-----------------------------------------------------------------------------
(* The program that was run ends; other threads open and close files.       *)

ChildExits ==
  /\ child # Gone /\ child' = Gone
  /\ UNCHANGED <<std, files, arglist, map, notify, watched, pc, pos, ops>>

AppFds == {f \in Numbers : files[f] = App} \ std

AppOpens ==
  /\ Cardinality(AppFds) < MaxAppFds
  /\ \E f \in Lowest(files) : files' = [files EXCEPT ![f] = App]
  /\ UNCHANGED <<std, child, arglist, map, notify, watched, pc, pos, ops>>

AppCloses ==
  /\ \E f \in AppFds : files' = [files EXCEPT ![f] = Free]
  /\ UNCHANGED <<std, child, arglist, map, notify, watched, pc, pos, ops>>

Library ==
  \/ \E S \in StreamSets : spawn_start(S)
  \/ build_fd_data_map \/ BuildFails \/ BuildUnnotified
  \/ Fork \/ ForkFails \/ SpawnClose \/ Spawned
  \/ add_io_cb \/ AddFails \/ Started
  \/ SelectFails \/ Canceled \/ (\E f \in Numbers : Handle(f)) \/ Done

Next == Library \/ ChildExits \/ AppOpens \/ AppCloses

Spec == Init /\ [][Next]_vars

\* A synchronous call goes on by itself; the program run ends.
Proceeds ==
  \/ build_fd_data_map \/ BuildFails \/ Fork \/ SpawnClose \/ Spawned \/ add_io_cb \/ Started
  \/ SelectFails \/ (\E f \in Numbers : Handle(f)) \/ Done

Fairness == WF_vars(Proceeds) /\ WF_vars(ChildExits)

FairSpec == Spec /\ Fairness

-----------------------------------------------------------------------------
TypeOK ==
  /\ files \in [Numbers -> {Free, App, Leaked} \cup {End(k, s) : k \in {"read", "write"}, s \in 0..2}]
  /\ notify \subseteq Numbers /\ watched \subseteq Numbers
  /\ pc \in {"idle", "build", "close", "register", "wait"}

(* The map, the table of notifications, the loop and the kernel agree, also *)
(* while other threads take every number that becomes free: a descriptor in *)
(* the map is open and is the end it is said to be, everything watched is   *)
(* in the map, and a pipe that is in no map is one build_fd_data_map lost.  *)
MapIsTrue ==
  /\ \A i \in 1..Len(map) :
       /\ map[i].fd # -1 =>
            files[map[i].fd] = End(IF map[i].inbound THEN "read" ELSE "write", map[i].dup_to)
       /\ map[i].peer_fd # -1 =>
            files[map[i].peer_fd] = End(IF map[i].inbound THEN "write" ELSE "read", map[i].dup_to)
  /\ watched \subseteq {map[i].fd : i \in 1..Len(map)}
  /\ \A f \in Numbers : files[f].kind \in {"read", "write"} => f \in MapFds /\ f \in notify
  /\ \A f \in notify : files[f] \in {Leaked} \/ f \in MapFds

(* "Connect stdin to DATAIN, stdout to DATAOUT, and STDERR to DATAERR.  If  *)
(* one the data streams is NULL, connect to /dev/null instead." (spawn.c):  *)
(* at exec the child's three streams are those ends and nothing else is     *)
(* open in it.                                                              *)
ChildConnected ==
  child # Gone /\ pc \in {"close", "register", "wait"} =>
    \A f \in Numbers :
      child[f] = CASE f \in Seen /\ f <= 2 -> End(IF f = 0 THEN "read" ELSE "write", f)
                   [] f \notin Seen /\ f <= 2 -> DevNull
                   [] OTHER -> Free

(* The same for an application that has its standard descriptors open.      *)
ConnectedIfStd == std = {0, 1, 2} => ChildConnected

SpawnInv == TypeOK /\ MapIsTrue /\ ConnectedIfStd

(* gpgme_op_spawn returns once the program it ran has ended: the parent     *)
(* keeps no copy of the child's ends, so every stream comes to its end.     *)
SpawnReturns == []<>(pc = "idle")
=============================================================================
