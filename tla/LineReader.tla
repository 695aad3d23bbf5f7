----------------------------- MODULE LineReader -----------------------------
(***************************************************************************)
(* How the gpg engine cuts the output of gpg into lines: read_status for   *)
(* the status pipe and read_colon_line for standard output.  The bytes     *)
(* arrive in chunks of any size; the buffer holds the line that is not yet *)
(* complete, grows when a line is long, and is moved down after each line. *)
(***************************************************************************)
EXTENDS Integers, Sequences, SequencesExt

CONSTANTS
  Outputs,   \* what gpg may print on each pipe, "status" or "colon": a function
             \* to sets of sequences of bytes
  BufSize,   \* the size of the buffer at first (1024)
  Room,      \* the room a read needs (256)
  Grow       \* what is added to the buffer when there is less (1024)

\* Bytes: the end of a line, a carriage return, "S" for the start of a
\* status line, a colon, and another one; Unset is in a fresh buffer.
LF == "n"
CR == "r"
Unset == "?"

VARIABLES
  kind,      \* the pipe that is read
  sent,      \* ghost: all the bytes gpg prints
  taken,     \* ghost: how many of them were read
  buffer,    \* the buffer, as a sequence of its size
  readpos,   \* bytes of an incomplete line in it
  lines,     \* the lines passed to the handler
  eof,       \* the end of the output was seen
  live,      \* the buffer the engine object names was not freed
  failed     \* a handler returned an error: the operation is over

vars == <<kind, sent, taken, buffer, readpos, lines, eof, live, failed>>

Init ==
  /\ kind \in DOMAIN Outputs /\ sent \in Outputs[kind] /\ taken = 0
  /\ buffer = [i \in 1..BufSize |-> Unset] /\ readpos = 0
  /\ lines = <<>> /\ eof = FALSE /\ live = TRUE /\ failed = FALSE

\* The lines that reach a handler: status lines begin with a keyword, colon
\* lines have a colon.
Relevant(line) ==
  IF kind = "status" THEN line # <<>> /\ line[1] = "S" ELSE Contains(line, ":")

\* A carriage return before the line feed is dropped from status lines.
chop(line) ==
  IF kind = "status" /\ line # <<>> /\ Last(line) = CR THEN Front(line) ELSE line

\* Mutant: the rest is left where it is.
memmove_nothing(b, from, n) == b

\* memmove (buffer, buffer + from, n)
memmove(b, from, n) == SubSeq(b, from + 1, from + n) \o SubSeq(b, n + 1, Len(b))

\* The loop over nread new bytes behind readpos.
RECURSIVE scan(_, _, _, _)
scan(b, pos, nread, out) ==
  LET at == {i \in pos + 1..pos + nread : b[i] = LF}
  IN IF at = {} THEN [buffer |-> b, readpos |-> pos + nread, lines |-> out]
     ELSE LET p    == CHOOSE i \in at : \A j \in at : i <= j
              line == chop(SubSeq(b, 1, p - 1))
              rest == pos + nread - p
              out1 == IF Relevant(line) THEN Append(out, line) ELSE out
          IN scan(memmove(b, p, rest), 0, rest, out1)

grown ==
  IF Len(buffer) - readpos < Room THEN buffer \o [i \in 1..Grow |-> Unset] ELSE buffer

cut(b, r) == scan(b, readpos, r, lines)

\* A call of read_status or read_colon_line that gets nread bytes.  moved:
\* realloc gave another block and freed the old one.  When the handler of
\* the k-th new line fails, the engine object is not updated.
Read(nread, moved, k) ==
  LET b == SubSeq(grown, 1, readpos) \o SubSeq(sent, taken + 1, taken + nread)
           \o SubSeq(grown, readpos + nread + 1, Len(grown))
      r == cut(b, nread)
  IN /\ ~eof /\ ~failed
     /\ nread \in 1..(Len(grown) - readpos) /\ taken + nread <= Len(sent)
     /\ moved => grown # buffer
     /\ k <= Len(r.lines) - Len(lines)
     /\ taken' = taken + nread
     /\ IF k = 0
        THEN /\ buffer' = r.buffer /\ readpos' = r.readpos /\ lines' = r.lines
             /\ UNCHANGED <<live, failed>>
        ELSE /\ lines' = SubSeq(r.lines, 1, Len(lines) + k)
             /\ live' = (live /\ ~moved) /\ failed' = TRUE
             /\ UNCHANGED <<buffer, readpos>>
     /\ UNCHANGED <<kind, sent, eof>>

\* read returns 0: nothing is left, or there is no room to read into.
Eof ==
  /\ ~eof /\ ~failed
  /\ taken = Len(sent) \/ Len(grown) = readpos
  /\ eof' = TRUE
  /\ UNCHANGED <<kind, sent, taken, buffer, readpos, lines, live, failed>>

Next ==
  \/ \E n \in 1..Len(sent), m \in BOOLEAN, k \in 0..Len(sent) : Read(n, m, k)
  \/ Eof

Spec == Init /\ [][Next]_vars
-----------------------------------------------------------------------------
TypeOK ==
  /\ kind \in DOMAIN Outputs /\ sent \in Outputs[kind] /\ taken \in 0..Len(sent)
  /\ readpos \in 0..Len(buffer) /\ eof \in BOOLEAN /\ live \in BOOLEAN /\ failed \in BOOLEAN

\* Reference: byte by byte, the lines and the part of a line that follows.
Step(st, c) ==
  IF c # LF THEN [st EXCEPT !.part = Append(@, c)]
  ELSE [lines |-> IF Relevant(chop(st.part)) THEN Append(st.lines, chop(st.part)) ELSE st.lines,
        part |-> <<>>]
Reference(s) == FoldLeft(Step, [lines |-> <<>>, part |-> <<>>], s)

(* However the output of gpg is cut into chunks, the handlers get exactly  *)
(* the complete lines of what was read, in order and unchanged, and the    *)
(* buffer holds the line that has begun.                                   *)
LinesExact ==
  LET ref == Reference(SubSeq(sent, 1, taken))
  IN IF failed THEN IsPrefix(lines, ref.lines)
     ELSE lines = ref.lines /\ SubSeq(buffer, 1, readpos) = ref.part

(* The end of the output is only seen when gpg has printed everything: a   *)
(* read always asks for at least one byte, however long a line is.         *)
EofIsEnd == TypeOK /\ (eof => taken = Len(sent))

(* "Update the gpg object" (read_status, read_colon_line): the buffer the  *)
(* engine object names, which gpg_release frees, is the current one.       *)
BufferOwned == live
=============================================================================
