----------------------------- MODULE ByteStream -----------------------------
(***************************************************************************)
(* What a data object promises (gpgme.texi, "Exchanging Data"): a string   *)
(* of bytes with one position, at which the program reads and writes, and  *)
(* from which an operation takes its input.                                *)
(***************************************************************************)
EXTENDS Naturals, Sequences

CONSTANTS
  Byte,     \* the bytes
  Nul       \* what is given instead of the content of a void object

VARIABLES
  content,  \* the bytes
  pos,      \* the position
  blank,    \* the content must not be shown any more
  out,      \* what the last step gave to the program or to the engine
  live      \* the object exists

vars == <<content, pos, blank, out, live>>

Longer(m, n) == IF m < n THEN n ELSE m

\* c with the bytes after position p replaced by b, and longer if need be.
Overwrite(c, p, b) ==
  [i \in 1..Longer(Len(c), p + Len(b)) |->
     IF p < i /\ i <= p + Len(b) THEN b[i - p] ELSE c[i]]

Init == content \in Seq(Byte) /\ pos = 0 /\ blank = FALSE /\ out = <<>> /\ live = TRUE

Write ==
  /\ live /\ UNCHANGED live
  /\ \E n \in 0..Len(content') :
       /\ pos + n <= Len(content')
       /\ content' = Overwrite(content, pos, SubSeq(content', pos + 1, pos + n))
       /\ pos' = pos + n
  /\ out' = <<>> /\ UNCHANGED blank

\* Bytes leave the object in order and none is left out; a void object has
\* none to give.
Take ==
  /\ live /\ UNCHANGED live
  /\ \E n \in 0..Len(content) :
       /\ pos + n <= Len(content)
       /\ blank => n = 0
       /\ out' = SubSeq(content, pos + 1, pos + n)
       /\ pos' = pos + n
       /\ UNCHANGED <<content, blank>>

Seek ==
  /\ live /\ UNCHANGED live
  /\ pos' \in 0..Len(content)
  /\ out' = <<>> /\ UNCHANGED <<content, blank>>

Void == live /\ blank' = TRUE /\ out' = <<>> /\ UNCHANGED <<content, pos, live>>

\* The object is released and its content given to the program.
Release ==
  /\ live /\ live' = FALSE
  /\ out' = IF blank THEN SubSeq(<<Nul>>, 1, IF content = <<>> THEN 0 ELSE 1) ELSE content
  /\ UNCHANGED <<content, pos, blank>>

Next == Write \/ Take \/ Seek \/ Void \/ Release

Spec == Init /\ [][Next]_vars
=============================================================================
