------------------------------ MODULE MCStreams ------------------------------
(***************************************************************************)
(* The three places where bytes pass through a buffer of gpgme: the memory *)
(* data object (DataMem), the readers of gpg's status and colon lines      *)
(* (LineReader), and the ring buffers of the Windows reader and writer     *)
(* threads (W32Threads).  They share no state, so a behaviour plays one of *)
(* them while the others rest.                                             *)
(***************************************************************************)
EXTENDS DataMem

VARIABLES
  part,      \* what is played: "mem", "lines" or "threads"
  l_kind, l_sent, l_taken, l_buffer, l_readpos, l_lines, l_eof, l_live, l_failed,
  t_how, t_rd, t_rpc, t_rn, t_wt, t_wpc, t_wn, t_wire, t_seen, t_sent, t_peer, t_upc,
  t_ask, t_ret

lines == <<l_kind, l_sent, l_taken, l_buffer, l_readpos, l_lines, l_eof, l_live, l_failed>>
threads == <<t_how, t_rd, t_rpc, t_rn, t_wt, t_wpc, t_wn, t_wire, t_seen, t_sent, t_peer,
             t_upc, t_ask, t_ret>>

MCByte == {1, 2}
MCGarbage == 99
MCNul == 0

\* All outputs of up to six bytes (LF is "n", CR is "r"); a buffer of 3 that grows by 2.
Printed(bytes) == UNION {[1..n -> bytes] : n \in 0..6}
MCOutputs == [status |-> Printed({"n", "r", "S"}), colon |-> Printed({"n", ":", "x"})]

L == INSTANCE LineReader WITH
  kind <- l_kind, sent <- l_sent, taken <- l_taken, buffer <- l_buffer, readpos <- l_readpos,
  lines <- l_lines, eof <- l_eof, live <- l_live, failed <- l_failed,
  Outputs <- MCOutputs, BufSize <- 3, Room <- 2, Grow <- 2

\* Rings of 3 bytes, 4 bytes to pass, a descriptor that is duplicated once.
W == INSTANCE W32Threads WITH
  how <- t_how, rd <- t_rd, rpc <- t_rpc, rn <- t_rn, wt <- t_wt, wpc <- t_wpc, wn <- t_wn,
  wire <- t_wire, seen <- t_seen, sent <- t_sent, peer <- t_peer, upc <- t_upc, ask <- t_ask,
  ret <- t_ret, Size <- 3, Total <- 4, MaxRefs <- 2, Partial <- FALSE

MCInit ==
  /\ part \in {"mem", "lines", "threads"}
  /\ Init /\ L!Init /\ W!Init
  /\ part # "mem" => given = <<>> /\ ~owned /\ ~orig
  /\ part # "lines" => l_kind = "status" /\ l_sent = <<>>
  /\ part # "threads" => t_how = CHOOSE h \in W!Hows : h.end = "never"

MCNext ==
  /\ UNCHANGED part
  /\ \/ part = "mem" /\ Next /\ UNCHANGED <<lines, threads>>
     \/ part = "lines" /\ L!Next /\ UNCHANGED <<vars, threads>>
     \/ part = "threads" /\ W!Next /\ UNCHANGED <<vars, lines>>

MCSpec ==
  /\ MCInit /\ [][MCNext]_<<part, vars, lines, threads>>
  /\ W!Fairness

(* However the output of gpg is cut into chunks, the line readers pass on  *)
(* its lines unchanged, and see its end only at the end (read_status,      *)
(* read_colon_line in engine-gpg.c).                                       *)
LinesExact == L!LinesExact /\ L!EofIsEnd

(* The ring buffers of w32-io.c between a call and its thread.             *)
ThreadsInv == W!ThreadsInv

(* Every _gpgme_io_read, _gpgme_io_write and destroy of w32-io.c returns.  *)
CallsReturn == W!CallsReturn
=============================================================================
