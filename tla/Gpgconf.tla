------------------------------- MODULE Gpgconf -------------------------------
(* The gpgconf engine (engine-gpgconf.c, gpgconf.c): the configuration is    *)
(* loaded from the listings of a child process, options are changed in       *)
(* memory, and the changed ones are written to a second child.  One          *)
(* component with the options of Opts is modelled.  gpgconf itself, the      *)
(* pipes and their limits are external.                                      *)
EXTENDS Integers, Sequences, FiniteSets, SequencesExt, FiniteSetsExt

CONSTANTS OptSeq,       \* the options, in the order gpgconf lists them
          Numeric,      \* the options whose alt_type is a number
          Unsplit,      \* the options of type GPGME_CONF_STRING itself
          ArgLists,     \* option -> the argument lists the application sets
          MaxArgs,      \* bound: argument lists the application makes
          BufSizes,     \* the three sizes of gpgconf_read's line buffer
          LineLengths,  \* lengths of a line of the listing, newline included
          PipeSize,     \* what a pipe holds: lines, or error messages
          MaxMessages   \* bound: error messages gpgconf writes

VARIABLES pc, task, fds, opts, loaded, args, rd, wr, kid, store, asked
vars == <<pc, task, fds, opts, loaded, args, rd, wr, kid, store, asked>>

Opts == Range(OptSeq)
NoOption == [value |-> <<>>, new_value |-> 0, change_value |-> FALSE]
NoText == <<>>

(* ---- Values and their text ---------------------------------------------- *)
(* An argument: a number, a string (a sequence of characters), or no_arg.    *)
Number(n) == [no_arg |-> FALSE, num |-> n, str |-> <<>>]
String(s) == [no_arg |-> FALSE, num |-> 0, str |-> s]
NoArg == [no_arg |-> TRUE, num |-> 0, str |-> <<>>]

Escaped == [c \in {"%", ":", ","} |-> CASE c = "%" -> "%25"
                                        [] c = ":" -> "%3a"
                                        [] c = "," -> "%2c"]
Escape(c) == IF c \in DOMAIN Escaped THEN Escaped[c] ELSE c
Unescape(t) == IF t \in Range(Escaped) THEN CHOOSE c \in DOMAIN Escaped : Escaped[c] = t
                                       ELSE t
Digits == <<"0", "1", "2">>

ArgText(o, a) == IF o \in Numeric THEN <<Digits[a.num + 1]>>
                 ELSE IF a.no_arg THEN <<>>
                 ELSE <<"\"">> \o [i \in DOMAIN a.str |-> Escape(a.str[i])]

\* Mutant: the characters of a string are not escaped.
text_unescaped(o, list) ==
  LET raw(a) == IF o \in Numeric \/ a.no_arg THEN ArgText(o, a) ELSE <<"\"">> \o a.str
      T[i \in 0..Len(list)] ==
        IF i = 0 THEN NoText
        ELSE T[i - 1] \o (IF i = 1 THEN <<>> ELSE <<",">>) \o raw(list[i])
  IN  T[Len(list)]

arg_to_data(o, list) ==
  LET T[i \in 0..Len(list)] ==
        IF i = 0 THEN NoText
        ELSE T[i - 1] \o (IF i = 1 THEN <<>> ELSE <<",">>) \o ArgText(o, list[i])
  IN  T[Len(list)]

Parsed(o, piece) ==
  IF piece = <<>> THEN NoArg
  ELSE IF o \in Numeric
       THEN Number((CHOOSE n \in DOMAIN Digits : Digits[n] = piece[1]) - 1)
       ELSE String([i \in 1..(Len(piece) - 1) |-> Unescape(piece[i + 1])])

Pieces(o, text) ==
  LET P[i \in 0..Len(text)] ==
        IF i = 0 THEN << <<>> >>
        ELSE IF text[i] = "," /\ o \notin Unsplit THEN Append(P[i - 1], <<>>)
        ELSE LET ps == P[i - 1] IN [ps EXCEPT ![Len(ps)] = Append(@, text[i])]
  IN  P[Len(text)]

gpgconf_parse_option(o, text) ==
  LET pieces == Pieces(o, text)
      used == IF Last(pieces) = <<>> THEN Front(pieces) ELSE pieces
  IN  [i \in DOMAIN used |-> Parsed(o, used[i])]

(* ---- Reading a listing --------------------------------------------------- *)
NoRead == [left |-> <<>>, linelen |-> 0, linebufsize |-> 0, at |-> 0]
Total(lens) == LET S[i \in 0..Len(lens)] == IF i = 0 THEN 0 ELSE S[i - 1] + lens[i]
               IN  S[Len(lens)]
Lines == IF task = "options" THEN Len(OptSeq) ELSE 1

\* _gpgme_io_pipe and _gpgme_io_spawn of gpgconf_read; FALSE when one failed.
ReadStarts == /\ \E lens \in [1..Lines -> LineLengths] :
                   rd' = [left |-> lens, linelen |-> 0, linebufsize |-> BufSizes[1], at |-> 0]
              /\ fds' = {"rp0"}

Return == pc' = "app" /\ task' = "none" /\ fds' = {} /\ rd' = NoRead

\* gpgconf_config_load_cb has made a component of a line of the first listing.
Listed == task = "options" \/ rd.at > 0

(* gpgconf_conf_load gives what was listed so far to gpgconf_release, the    *)
(* release function of the engine object: undefined once a component exists. *)
LoadFails == IF Listed
             THEN pc' = "abort" /\ task' = "none" /\ fds' = {} /\ rd' = NoRead
             ELSE Return

ReadFails == IF task \in {"components", "options"} THEN LoadFails ELSE Return

Begin(t) == /\ pc = "app" /\ pc' = "start" /\ task' = t
            /\ UNCHANGED <<fds, opts, loaded, args, rd, wr, kid, store, asked>>

gpgconf_conf_load == ~loaded /\ Begin("components")
gpgconf_conf_dir == Begin("dir")
gpgconf_query_swdb == Begin("swdb")

gpgconf_read ==
  /\ pc = "start"
  /\ \/ pc' = "read" /\ ReadStarts /\ UNCHANGED task
     \/ ReadFails
  /\ UNCHANGED <<opts, loaded, args, wr, kid, store, asked>>

(* The buffer grows in two steps; a line that does not fit the third size    *)
(* ends the reading.                                                          *)
Grown(r) ==
  IF r.linelen < r.linebufsize - 1 THEN r.linebufsize
  ELSE IF r.linelen < BufSizes[2] - 1 THEN BufSizes[2]
  ELSE IF r.linelen < BufSizes[3] - 1 THEN BufSizes[3]
  ELSE 0

\* The callbacks for the next n lines: gpgconf_config_load_cb, _load_cb2.
Deliver(n) ==
  IF task = "options"
  THEN opts' = [o \in Opts |->
                  IF \E i \in (rd.at + 1)..(rd.at + n) : OptSeq[i] = o
                  THEN [NoOption EXCEPT !.value = gpgconf_parse_option(o, store[o])]
                  ELSE opts[o]]
  ELSE UNCHANGED opts

ReadChunk ==
  /\ pc = "read"
  /\ rd.linelen < Total(rd.left)
  /\ \E n \in 1..(rd.linebufsize - rd.linelen - 1) :
       LET len == rd.linelen + n
           full == Max({k \in 0..Len(rd.left) : Total(SubSeq(rd.left, 1, k)) <= len})
           used == Total(SubSeq(rd.left, 1, full))
           next == [left |-> SubSeq(rd.left, full + 1, Len(rd.left)),
                    linelen |-> len - used, linebufsize |-> rd.linebufsize,
                    at |-> rd.at + full]
           size == Grown(next)
       IN  /\ len <= Total(rd.left)
           /\ \/ /\ Deliver(full)
                 /\ IF task = "dir" /\ full > 0 THEN Return     \* GPG_ERR_USER_1
                    ELSE IF size = 0 THEN ReadFails
                    ELSE /\ rd' = [next EXCEPT !.linebufsize = size]
                         /\ UNCHANGED <<pc, task, fds>>
              \/ full > 0 /\ UNCHANGED opts /\ ReadFails    \* a callback fails
  /\ UNCHANGED <<loaded, args, wr, kid, store, asked>>

\* _gpgme_io_read fails, or realloc does.
ReadBreaks == /\ pc = "read" /\ ReadFails
              /\ UNCHANGED <<opts, loaded, args, wr, kid, store, asked>>

(* The end of the listing.  A rest without newline is dropped, and whether   *)
(* gpgconf ended well is not asked.                                           *)
ReadEnds ==
  /\ pc = "read"
  /\ rd.linelen = Total(rd.left)
  /\ IF task = "components" /\ Listed
     THEN /\ pc' = "start" /\ task' = "options" /\ fds' = {} /\ rd' = NoRead
          /\ opts' = [o \in Opts |-> NoOption]
          /\ UNCHANGED loaded
     ELSE /\ Return
          /\ loaded' = (loaded \/ task = "options")
          /\ UNCHANGED opts
  /\ UNCHANGED <<args, wr, kid, store, asked>>

\* External: gpgconf ends early; what it wrote so far can still be read.
GpgconfDies ==
  /\ pc = "read" /\ rd.linelen < Total(rd.left)
  /\ rd' = [rd EXCEPT !.left = IF rd.linelen = 0 THEN <<>> ELSE <<rd.linelen>>]
  /\ pc' = "cut"
  /\ UNCHANGED <<task, fds, opts, loaded, args, wr, kid, store, asked>>

ReadCut ==
  /\ pc = "cut"
  /\ Return
  /\ loaded' = (loaded \/ task = "options")
  /\ UNCHANGED <<opts, args, wr, kid, store, asked>>

(* ---- Changing options ---------------------------------------------------- *)
Idle == pc = "app" /\ UNCHANGED <<pc, task, fds, rd, wr, kid, store, asked>>
Freed(as, a) == IF a = 0 THEN as ELSE [as EXCEPT ![a].owner = "freed"]

_gpgme_conf_arg_new ==
  /\ Idle /\ loaded /\ UNCHANGED <<opts, loaded>>
  /\ Len(args) < MaxArgs
  /\ \E o \in Opts : \E list \in ArgLists[o] :
       args' = Append(args, [list |-> list, for |-> o, owner |-> "app"])

_gpgme_conf_arg_release ==
  /\ Idle /\ UNCHANGED <<opts, loaded>>
  /\ \E a \in DOMAIN args : args[a].owner = "app" /\ args' = Freed(args, a)

_gpgme_conf_opt_change(o, reset, a) ==
  LET old == opts[o].new_value IN
  /\ args' = LET given == IF reset \/ a = 0 THEN args ELSE [args EXCEPT ![a].owner = o]
             IN  IF ~reset /\ a = old THEN given ELSE Freed(given, old)
  /\ opts' = [opts EXCEPT ![o].new_value = IF reset THEN 0 ELSE a,
                          ![o].change_value = ~reset]

(* The application sets a list of its own, the default (NULL) or the list    *)
(* the option already has; or it takes its change back.                      *)
Change ==
  /\ Idle /\ loaded /\ UNCHANGED loaded
  /\ \E o \in Opts :
       \/ _gpgme_conf_opt_change(o, TRUE, 0)
       \/ \E a \in {0, opts[o].new_value}
                     \union {b \in DOMAIN args : args[b].owner = "app" /\ args[b].for = o} :
            _gpgme_conf_opt_change(o, FALSE, a)

gpgconf_config_release ==
  /\ Idle /\ loaded /\ loaded' = FALSE
  /\ opts' = [o \in Opts |-> NoOption]
  /\ args' = [a \in DOMAIN args |-> IF args[a].owner \in Opts
                                    THEN [args[a] EXCEPT !.owner = "freed"] ELSE args[a]]

(* ---- Saving -------------------------------------------------------------- *)
NoWrite == <<>>
NoKid == [state |-> "none", read |-> <<>>, in |-> <<>>, messages |-> 0, said |-> 0]
Changed == SelectSeq(OptSeq, LAMBDA o : opts[o].change_value)

\* The line of an option: empty text with the flag GPGME_CONF_DEFAULT.
SaveLine(o) ==
  LET a == opts[o].new_value
      list == IF a = 0 THEN <<>> ELSE args[a].list
  IN  [opt |-> o, text |-> arg_to_data(o, list), list |-> list]

gpgconf_conf_save ==
  /\ pc = "app" /\ loaded
  /\ \/ /\ Changed # <<>>
        /\ pc' = "spawn" /\ wr' = [i \in DOMAIN Changed |-> SaveLine(Changed[i])]
     \/ UNCHANGED <<pc, wr>>     \* nothing is changed, or the data object fails
  /\ UNCHANGED <<task, fds, opts, loaded, args, rd, kid, store, asked>>

(* The ends of both pipes that are open at the label leave are closed there. *)
Leave == pc' = "app" /\ fds' = {} /\ wr' = NoWrite

WritePipes ==
  /\ pc = "spawn"
  /\ \/ /\ Leave /\ UNCHANGED kid         \* a pipe or the spawn fails
     \/ /\ pc' = "write" /\ fds' = {"rp1", "errp0"}
        /\ kid' = [NoKid EXCEPT !.state = "runs"]
        /\ UNCHANGED wr
  /\ UNCHANGED <<task, opts, loaded, args, rd, store, asked>>

\* All is written: rp[1] is closed before the messages are read.
WriteDone ==
  /\ pc = "write" /\ wr = <<>>
  /\ pc' = "drain" /\ fds' = fds \ {"rp1"}
  /\ UNCHANGED <<task, opts, loaded, args, rd, wr, kid, store, asked>>

gpgconf_write ==
  /\ pc = "write" /\ wr # <<>>
  /\ \/ /\ kid.state = "runs" /\ Len(kid.in) < PipeSize
        /\ kid' = [kid EXCEPT !.in = Append(@, Head(wr))]
        /\ wr' = Tail(wr) /\ UNCHANGED <<pc, fds>>
     \/ /\ kid.state = "ended" /\ Leave             \* EPIPE
        /\ kid' = NoKid
  /\ UNCHANGED <<task, opts, loaded, args, rd, store, asked>>

\* What gpgconf says on stderr is read and dropped until it ends.
Drain ==
  /\ pc = "drain"
  /\ \/ /\ kid.messages > 0 /\ kid' = [kid EXCEPT !.messages = @ - 1]
        /\ UNCHANGED <<pc, fds, wr>>
     \/ /\ kid.messages = 0 /\ kid.state = "ended"
        /\ Leave /\ kid' = NoKid
  /\ UNCHANGED <<task, opts, loaded, args, rd, store, asked>>

(* External: gpgconf reads the changes, complains about some, and applies    *)
(* all of them at the end of its input; or it ends early.                    *)
KidReads ==
  /\ kid.state = "runs" /\ kid.in # <<>>
  /\ kid' = [kid EXCEPT !.in = Tail(@), !.read = Append(@, Head(kid.in))]
  /\ UNCHANGED <<pc, task, fds, opts, loaded, args, rd, wr, store, asked>>

KidComplains ==
  /\ kid.state = "runs" /\ kid.said < MaxMessages /\ kid.messages < PipeSize
  /\ kid' = [kid EXCEPT !.said = @ + 1, !.messages = @ + 1]
  /\ UNCHANGED <<pc, task, fds, opts, loaded, args, rd, wr, store, asked>>

KidApplies ==
  /\ kid.state = "runs" /\ kid.in = <<>> /\ "rp1" \notin fds
  /\ kid' = [kid EXCEPT !.state = "ended"]
  /\ LET new(o) == SelectSeq(kid.read, LAMBDA l : l.opt = o) IN
     /\ store' = [o \in Opts |-> IF new(o) = <<>> THEN store[o] ELSE Last(new(o)).text]
     /\ asked' = [o \in Opts |-> IF new(o) = <<>> THEN asked[o] ELSE Last(new(o)).list]
  /\ UNCHANGED <<pc, task, fds, opts, loaded, args, rd, wr>>

KidDies ==
  /\ kid.state = "runs" /\ kid' = [kid EXCEPT !.state = "ended", !.in = <<>>]
  /\ UNCHANGED <<pc, task, fds, opts, loaded, args, rd, wr, store, asked>>

(* ---- The specification --------------------------------------------------- *)
Init ==
  /\ pc = "app" /\ task = "none" /\ fds = {} /\ loaded = FALSE
  /\ opts = [o \in Opts |-> NoOption]
  /\ args = <<>> /\ rd = NoRead /\ wr = NoWrite /\ kid = NoKid
  /\ store = [o \in Opts |-> NoText] /\ asked = [o \in Opts |-> <<>>]

Reading == gpgconf_read \/ ReadChunk \/ ReadBreaks \/ ReadEnds \/ ReadCut
Writing == WritePipes \/ gpgconf_write \/ WriteDone \/ Drain
Kid == KidReads \/ KidComplains \/ KidApplies \/ KidDies
App == \/ gpgconf_conf_load \/ gpgconf_conf_dir \/ gpgconf_query_swdb
       \/ _gpgme_conf_arg_new \/ _gpgme_conf_arg_release \/ Change
       \/ gpgconf_config_release \/ gpgconf_conf_save

Next == App \/ Reading \/ GpgconfDies \/ Writing \/ Kid
Spec == Init /\ [][Next]_vars

(* The library runs, and gpgconf works on its input and ends.                *)
Fairness == WF_vars(Reading) /\ WF_vars(Writing) /\ WF_vars(KidReads) /\ WF_vars(KidApplies)

FairSpec == Spec /\ Fairness

(* ---- Properties ---------------------------------------------------------- *)
(* A read of gpgconf_read always asks for at least one byte: a request for   *)
(* none would return 0, the end of the listing.                              *)
RoomLeft == pc = "read" => rd.linelen < rd.linebufsize - 1

(* Every path through gpgconf_read and gpgconf_write closes what it opened.  *)
DescriptorsClosed == pc \in {"app", "abort"} => fds = {}

(* The list an option is to get is alive and belongs to that option alone:   *)
(* _gpgme_conf_opt_change takes it over and releases the one it replaces.    *)
NewValueOwned ==
  \A o \in Opts : opts[o].new_value # 0 => args[opts[o].new_value].owner = o

(* What is lost between arg_to_data and gpgconf_parse_option: a list of an   *)
(* option whose type is string itself, no_arg of a number (written as 0),    *)
(* and no_arg at the end of a list (an empty end is no value).               *)
Representable(o, list) ==
  /\ o \in Unsplit => Len(list) <= 1
  /\ o \in Numeric => \A i \in DOMAIN list : ~list[i].no_arg
  /\ list # <<>> => ~Last(list).no_arg

(* What gpgconf stores for an option after a save reads back as the list the *)
(* application set, separators and escapes in the values included.           *)
SavedReadsBack ==
  \A o \in Opts : Representable(o, asked[o]) =>
                    gpgconf_parse_option(o, store[o]) = asked[o]

ConfInv == RoomLeft /\ DescriptorsClosed /\ NewValueOwned /\ SavedReadsBack

(* A load, a query or a save returns: gpgconf_write closes gpgconf's input   *)
(* before it waits for the end of the messages.                              *)
ConfReturns == pc # "app" ~> pc \in {"app", "abort"}
=============================================================================
