---------------------------- MODULE MCDescriptors ----------------------------
(***************************************************************************)
(* Where gpgme keeps book of descriptors and of the processes behind them: *)
(* the close notifications of posix-io.c (CloseNotify), the file table of  *)
(* w32-io.c (W32Files), the program that gpgme_op_spawn runs (SpawnEngine) *)
(* and gpgconf (Gpgconf).  A behaviour plays one of them.                  *)
(***************************************************************************)
EXTENDS CloseNotify

VARIABLES
  part,      \* what is played: "notify", "files", "spawn" or "gpgconf"
  w_fd_table, w_hdds, w_workers, w_pc, w_mine, w_arg,
  s_std, s_files, s_child, s_arglist, s_map, s_notify, s_watched, s_pc, s_pos, s_ops,
  g_pc, g_task, g_fds, g_opts, g_loaded, g_args, g_rd, g_wr, g_kid, g_store, g_asked

files == <<w_fd_table, w_hdds, w_workers, w_pc, w_mine, w_arg>>
spawn == <<s_std, s_files, s_child, s_arglist, s_map, s_notify, s_watched, s_pc, s_pos, s_ops>>
gpgconf == <<g_pc, g_task, g_fds, g_opts, g_loaded, g_args, g_rd, g_wr, g_kid, g_store, g_asked>>

W == INSTANCE W32Files WITH
  fd_table <- w_fd_table, hdds <- w_hdds, workers <- w_workers, pc <- w_pc, mine <- w_mine,
  arg <- w_arg,
  Users <- {"t1", "t2"}, MaxFds <- 3, MaxHdds <- 2, MaxWorkers <- 1

S == INSTANCE SpawnEngine WITH
  std <- s_std, files <- s_files, child <- s_child, arglist <- s_arglist, map <- s_map,
  notify <- s_notify, watched <- s_watched, pc <- s_pc, pos <- s_pos, ops <- s_ops,
  MaxFd <- 9, FD_SETSIZE <- 8, StdSets <- {{0, 1, 2}, {1, 2}, {}},
  StreamSets <- {{0, 1, 2}, {1}, {}}, MaxAppFds <- 1, MaxOps <- 2

\* Values with every character that is escaped, and a list with a missing argument.
Str(s) == [no_arg |-> FALSE, num |-> 0, str |-> s]
MCArgLists ==
  [name |-> {<<Str(<<"%", ",">>)>>},
   files |-> {<<Str(<<"x", ",">>), [Str(<<>>) EXCEPT !.no_arg = TRUE], Str(<<":">>)>>,
              <<Str(<<"%">>)>>}]

G == INSTANCE Gpgconf WITH
  pc <- g_pc, task <- g_task, fds <- g_fds, opts <- g_opts, loaded <- g_loaded, args <- g_args,
  rd <- g_rd, wr <- g_wr, kid <- g_kid, store <- g_store, asked <- g_asked,
  OptSeq <- <<"name", "files">>, Numeric <- {}, Unsplit <- {"name"}, ArgLists <- MCArgLists,
  MaxArgs <- 2, BufSizes <- <<3, 5, 7>>, LineLengths <- {2, 6}, PipeSize <- 1, MaxMessages <- 1

MCInit ==
  /\ part \in {"notify", "files", "spawn", "gpgconf"}
  /\ Init /\ W!Init /\ S!Init /\ G!Init
  /\ part # "spawn" => s_std = {0, 1, 2}

MCNext ==
  /\ UNCHANGED part
  /\ \/ part = "notify" /\ Next /\ UNCHANGED <<files, spawn, gpgconf>>
     \/ part = "files" /\ W!Next /\ UNCHANGED <<vars, spawn, gpgconf>>
     \/ part = "spawn" /\ S!Next /\ UNCHANGED <<vars, files, gpgconf>>
     \/ part = "gpgconf" /\ G!Next /\ UNCHANGED <<vars, files, spawn>>

MCSpec ==
  /\ MCInit /\ [][MCNext]_<<part, vars, files, spawn, gpgconf>>
  /\ S!Fairness /\ G!Fairness

(* The file table, handle descriptors and threads of w32-io.c.             *)
FilesInv == W!FilesInv

(* What a program run by gpgme_op_spawn finds in its descriptors.          *)
SpawnInv == S!SpawnInv

(* Options are read whole and come back from gpgconf as they were set.     *)
ConfInv == G!ConfInv

(* A call that runs a program returns: gpgme_op_spawn once the program has *)
(* ended, and a load, a query or a save of the configuration, since        *)
(* gpgconf_write closes gpgconf's input before it waits for its messages.  *)
(* The component at rest is idle, so this is SpawnReturns and ConfReturns. *)
ChildrenReturn == []<>(s_pc = "idle" /\ g_pc \in {"app", "abort"})
=============================================================================
