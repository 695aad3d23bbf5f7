--------------------------- MODULE AssuanEngine ---------------------------
(***************************************************************************)
(* A context whose engine talks to an Assuan server: gpgsm, a UI server,   *)
(* g13 or any other (engine-gpgsm.c, engine-uiserver.c, engine-g13.c,      *)
(* engine-assuan.c), from one operation to the next.                       *)
(*                                                                         *)
(* The engine object sys holds what the C structure holds: the connection, *)
(* and for each channel (status, input, output, message) our descriptor,   *)
(* the data object behind it (named by the operation that set it) and the  *)
(* tag of its callback in the event loop.  With it goes the state of the   *)
(* process that the engine changes: the open descriptors, the close        *)
(* notifications and the loop's callbacks.  owed counts the answers the    *)
(* server still has to send or we have not read.  up says whether the      *)
(* server is there; it may die at any read or write.                       *)
(*                                                                         *)
(* One call that starts an operation is one action: it runs the steps of   *)
(* AssuanOps in order and any one of them may fail.                        *)
(***************************************************************************)
EXTENDS Integers, Sequences, FiniteSets, FiniteSetsExt, SequencesExt, AssuanOps

CONSTANTS
  Configs,    \* what is explored, a set of records:
              \*   kind    "gpgsm", "uiserver", "assuan" or "g13"
              \*   passing USE_DESCRIPTOR_PASSING; configure.ac builds UI server support only then
              \*   locale  the user has called gpgme_set_locale
              \*   ops     operations: [steps, own, session], own the channels whose
              \*           data object is a descriptor of the user's
              \*   max     bound on the operations started
  MaxFd       \* bound on the descriptor numbers

VARIABLES
  conf,    \* the member of Configs that is played
  sys,     \* the engine and what it changes in the process, see above
  user,    \* descriptors the user has opened and not closed
  op,      \* number of the last operation
  busy     \* an operation is running

vars == <<conf, sys, user, op, busy>>

Channels == {"status", "input", "output", "message"}
DataChannels == Channels \ {"status"}
Session == conf.kind \in {"assuan", "g13"}
NoFd == -1

\* gpgsm behind the three pipes it is started with.
Pipes == conf.kind = "gpgsm" /\ ~conf.passing

NoEngine(s) ==
  [s EXCEPT !.alive = FALSE, !.conn = FALSE, !.up = FALSE, !.owed = 0,
            !.fd = [c \in Channels |-> NoFd], !.tag = [c \in Channels |-> NoFd],
            !.data = [c \in Channels |-> 0]]

-----------------------------------------------------------------------------
(* Descriptors, close notifications and callbacks.  A tag is the descriptor *)
(* its callback was registered for.                                         *)

FreeFd(s) == Min(1..MaxFd \ s.open)

\* Mutant: only the status channel is looked at.
close_notify_status_only(s, f) ==
  IF s.fd["status"] = f
    THEN [s EXCEPT !.fd["status"] = NoFd, !.tag["status"] = NoFd,
                   !.cbs = {b \in @ : b.fd # s.tag["status"]}]
    ELSE s

\* The notification finds the channel by its descriptor.
close_notify_handler(s, f) ==
  LET mine == {c \in Channels : s.fd[c] = f}
  IN IF mine = {} THEN s
     ELSE LET c == CHOOSE c \in mine : TRUE
          IN [s EXCEPT !.fd[c] = NoFd, !.tag[c] = NoFd,
                       !.cbs = {b \in @ : b.fd # s.tag[c]}]

_gpgme_io_close(s, f) ==
  IF f = NoFd THEN s
  ELSE LET t == IF f \in s.notify THEN close_notify_handler(s, f) ELSE s
       IN [t EXCEPT !.open = @ \ {f}, !.notify = @ \ {f}]

CloseAll(s, cs) == FoldLeft(LAMBDA t, c : _gpgme_io_close(t, t.fd[c]), s, cs)

\* A pipe whose one end is ours; the other is closed once the server has it.
OpenPipe(s, c) ==
  LET f == FreeFd(s)
  IN [s EXCEPT !.open = @ \cup {f}, !.notify = @ \cup {f}, !.fd[c] = f]

add_io_cb(s, c) ==
  [s EXCEPT !.cbs = @ \cup {[fd |-> s.fd[c], ch |-> c]}, !.tag[c] = s.fd[c]]

-----------------------------------------------------------------------------
(* Cancelling, releasing and creating an engine.                            *)

Disconnected(s) == [s EXCEPT !.conn = FALSE, !.up = FALSE, !.owed = 0]

gpgsm_cancel(s) == Disconnected(CloseAll(s, <<"status", "input", "output", "message">>))

uiserver_cancel(s) == Disconnected(CloseAll(s, <<"status", "input", "output", "message">>))

llass_cancel(s) == Disconnected(CloseAll(s, <<"status">>))

g13_cancel(s) == Disconnected(CloseAll(s, <<"status">>))

\* Sessions only: the operation is over and the connection stays.
llass_cancel_op(s) == CloseAll(s, <<"status">>)

g13_cancel_op(s) == CloseAll(s, <<"status">>)

Cancel(s) ==
  CASE conf.kind = "gpgsm" -> gpgsm_cancel(s)
    [] conf.kind = "uiserver" -> uiserver_cancel(s)
    [] conf.kind = "assuan" -> llass_cancel(s)
    [] conf.kind = "g13" -> g13_cancel(s)

ReleaseEngine(s) == NoEngine(Cancel(s))

Connected(s) == [NoEngine(s) EXCEPT !.alive = TRUE, !.conn = TRUE, !.up = TRUE]

\* Without descriptor passing gpgsm is started with its three pipes.
gpgsm_new(s) ==
  IF conf.passing THEN Connected(s)
  ELSE FoldLeft(OpenPipe, Connected(s), <<"input", "output", "message">>)

uiserver_new(s) == Connected(s)

llass_new(s) == Connected(s)

g13_new(s) == Connected(s)

NewEngine(s) ==
  CASE conf.kind = "gpgsm" -> gpgsm_new(s)
    [] conf.kind = "uiserver" -> uiserver_new(s)
    [] conf.kind = "assuan" -> llass_new(s)
    [] conf.kind = "g13" -> g13_new(s)

-----------------------------------------------------------------------------
(* Commands sent before the operation.  how: the server accepts it ("ok"),  *)
(* refuses it ("err"), a status callback fails ("cb"), or the connection    *)
(* breaks ("lost").                                                         *)

Hows == {"ok", "err", "cb", "lost"}

Fail(s) == [s EXCEPT !.ok = FALSE]

Answer(s, how, afterCallback) ==
  IF ~s.conn \/ ~s.up THEN Fail(s)
  ELSE CASE how = "ok" -> s
         [] how = "err" -> Fail(s)
         [] how = "cb" -> Fail(afterCallback)
         [] how = "lost" -> Fail([s EXCEPT !.up = FALSE])

\* gpgsm's version reads on to the answer after a callback has failed.
gpgsm_assuan_simple_command(s, how) == Answer(s, how, s)

\* The UI server's version returns at once and leaves the answer unread.
uiserver_assuan_simple_command(s, how) == Answer(s, how, [s EXCEPT !.owed = @ + 1])

simple_command(s, how) ==
  IF conf.kind = "uiserver" THEN uiserver_assuan_simple_command(s, how)
                       ELSE gpgsm_assuan_simple_command(s, how)

\* The server gets the user's own descriptor when the data object has one,
\* otherwise the far end of a new pipe; our copy of what was sent is closed.
PassFd(s, c, own, how) ==
  LET given == IF own = NoFd THEN OpenPipe(s, c) ELSE s
      told == simple_command(_gpgme_io_close(given, own), how)
  IN IF told.ok THEN told
     ELSE [_gpgme_io_close(told, told.fd[c]) EXCEPT !.fd[c] = NoFd]

\* Without descriptor passing the pipe exists since gpgsm_new.
gpgsm_set_fd(s, c, own, how) ==
  IF conf.passing THEN PassFd(s, c, own, how) ELSE simple_command(s, how)

uiserver_set_fd(s, c, own, how) == PassFd(s, c, own, how)

set_fd(s, c, own, how) ==
  IF conf.kind = "uiserver" THEN uiserver_set_fd(s, c, own, how)
                       ELSE gpgsm_set_fd(s, c, own, how)

\* Mutant: the pipes made in advance stay open.
gpgsm_clear_fd_never(s, c) == s

gpgsm_clear_fd(s, c) == IF conf.passing THEN s ELSE _gpgme_io_close(s, s.fd[c])

\* The step st of operation n, unless an earlier one has failed.
Step(s, st, n, own, how) ==
  CASE ~s.ok -> s
    [] st.do = "set" -> set_fd([s EXCEPT !.data[st.ch] = n], st.ch, own[st.ch], how)
    [] st.do = "clear" -> gpgsm_clear_fd(s, st.ch)
    [] st.do = "command" -> simple_command(s, how)
    [] st.do = "option" -> [simple_command(s, how) EXCEPT !.ok = TRUE]

\* The command that starts the operation: the status channel is a duplicate of
\* the connection, and those of the channels cs that have a descriptor are
\* watched.  When the command cannot be written they stay.
StartWith(s, n, how, cs) ==
  IF ~s.ok \/ ~s.conn THEN Fail(s)
  ELSE LET opened == OpenPipe([s EXCEPT !.data["status"] = n], "status")
           watched == FoldLeft(add_io_cb, opened,
                               SelectSeq(cs, LAMBDA c : opened.fd[c] # NoFd))
       IN IF s.up /\ how # "lost" THEN [watched EXCEPT !.owed = @ + 1]
          ELSE Fail([watched EXCEPT !.up = FALSE])

gpgsm_start(s, n, how) ==
  StartWith(s, n, how, <<"status", "input", "output", "message">>)

uiserver_start(s, n, how) ==
  StartWith(s, n, how, <<"status", "input", "output", "message">>)

llass_start(s, n, how) == StartWith(s, n, how, <<"status">>)

g13_start(s, n, how) == StartWith(s, n, how, <<"status">>)

start(s, n, how) ==
  CASE conf.kind = "gpgsm" -> gpgsm_start(s, n, how)
    [] conf.kind = "uiserver" -> uiserver_start(s, n, how)
    [] conf.kind = "assuan" -> llass_start(s, n, how)
    [] conf.kind = "g13" -> g13_start(s, n, how)

\* _gpgme_op_reset: a session goes on; an engine that can be reset is kept,
\* whatever the answer; another one is replaced.  The locale options follow,
\* and when they fail the engine is dropped.
HasReset == conf.passing /\ conf.kind \in {"gpgsm", "uiserver"}

\* gpgsm_reset looks first whether there is a connection.
gpgsm_reset(s, how) == IF s.conn THEN simple_command(s, how) ELSE s

uiserver_reset(s, how) == simple_command(s, how)

_gpgme_op_reset(s, session, how) ==
  CASE s.alive /\ session -> s
    [] s.alive /\ ~session /\ HasReset ->
         [IF conf.kind = "gpgsm" THEN gpgsm_reset(s, how) ELSE uiserver_reset(s, how)
            EXCEPT !.ok = TRUE]
    [] OTHER -> NewEngine(ReleaseEngine(s))

set_locale(s, session, how) ==
  IF ~conf.locale \/ session THEN s
  ELSE LET t == simple_command(s, how)
       IN IF t.ok THEN t ELSE Fail(ReleaseEngine(t))

-----------------------------------------------------------------------------
Init ==
  /\ conf \in Configs
  /\ sys = NoEngine([alive |-> FALSE, conn |-> FALSE, up |-> FALSE, owed |-> 0, ok |-> TRUE,
                     fd |-> <<>>, tag |-> <<>>, data |-> <<>>,
                     open |-> {}, notify |-> {}, cbs |-> {}])
  /\ user = {} /\ op = 0 /\ busy = FALSE

\* The loop's round is over when no callback is left; the operation is done.
Becomes(s) == sys' = [s EXCEPT !.ok = TRUE] /\ busy' = (busy /\ s.cbs # {})

\* An operation starts.  The user may have opened a descriptor for its data.
\* Step number at fails as how says; 0 is the reset, -1 the locale.
Start(o, at, how) ==
  /\ ~busy /\ op < conf.max
  /\ Cardinality(sys.open) + 8 <= MaxFd
  /\ LET n == op + 1
         Outcome(i) == IF i = at THEN how ELSE "ok"
         mine == IF o.own = {} THEN NoFd ELSE FreeFd(sys)
         own == [c \in Channels |-> IF c \in o.own THEN mine ELSE NoFd]
         begun == [sys EXCEPT !.open = @ \cup ({mine} \ {NoFd})]
         reset == set_locale(_gpgme_op_reset(begun, o.session, Outcome(0)), o.session, Outcome(-1))
         steps == FoldLeftDomain(LAMBDA s, i : Step(s, o.steps[i], n, own, Outcome(i)),
                                 reset, o.steps)
         done == start(steps, n, Outcome(Len(o.steps) + 1))
     IN /\ sys' = [done EXCEPT !.ok = TRUE]
        /\ busy' = done.ok
        /\ op' = n
        /\ user' = user \cup ({mine} \ {NoFd})
  /\ UNCHANGED conf

\* No engine can be created.
StartNoEngine(o) ==
  /\ ~busy /\ op < conf.max
  /\ ~(sys.alive /\ (o.session \/ HasReset))
  /\ sys' = ReleaseEngine(sys)
  /\ op' = op + 1
  /\ UNCHANGED <<conf, user, busy>>

Watched(c) == busy /\ \E b \in sys.cbs : b.ch = c /\ b.fd = sys.fd[c]

(* What the status handlers do with a line.  "refused" is a status or data  *)
(* line that a callback does not accept, "OK refused" an OK for which the   *)
(* operation's handler returns an error, "lost" a failing read.  Lines that *)
(* are accepted change nothing here.  The outcome is a result of the        *)
(* operation, which a session survives, or an error of the connection.      *)
Lines == {"OK", "OK refused", "ERR", "INQUIRE", "refused", "lost"}

Read(s) == [s EXCEPT !.owed = @ - 1]
Over(s) == CloseAll(Read(s), <<"status">>)

gpgsm_status_handler(s, line) ==
  CASE line = "OK" -> [s |-> Over(s), err |-> "none"]
    [] line = "OK refused" -> [s |-> Over(s), err |-> "err"]
    [] line = "ERR" -> [s |-> Read(s), err |-> "err"]
    [] line = "INQUIRE" -> [s |-> s, err |-> "none"]
    [] OTHER -> [s |-> s, err |-> "err"]

uiserver_status_handler(s, line) ==
  CASE line = "OK" -> [s |-> Over(s), err |-> "none"]
    [] line = "OK refused" -> [s |-> Over(s), err |-> "err"]
    [] line = "ERR" -> [s |-> Read(s), err |-> "err"]
    [] line = "INQUIRE" -> [s |-> s, err |-> "none"]
    [] OTHER -> [s |-> s, err |-> "err"]

\* An OK is never refused: there is no handler to ask.
llass_status_handler(s, line) ==
  CASE line \in {"OK", "OK refused"} -> [s |-> Over(s), err |-> "none"]
    [] line = "ERR" -> [s |-> Read(s), err |-> "op_err"]
    [] line = "INQUIRE" -> [s |-> s, err |-> "none"]
    [] OTHER -> [s |-> s, err |-> "err"]

\* INQUIRE is answered with two END lines; the server takes the second for a
\* command and answers it.
g13_status_handler(s, line) ==
  CASE line \in {"OK", "OK refused"} -> [s |-> Over(s), err |-> "none"]
    [] line = "ERR" -> [s |-> Read(s), err |-> "op_err"]
    [] line = "INQUIRE" -> [s |-> [s EXCEPT !.owed = @ + 1], err |-> "none"]
    [] OTHER -> [s |-> s, err |-> "err"]

status_handler(s, line) ==
  CASE conf.kind = "gpgsm" -> gpgsm_status_handler(s, line)
    [] conf.kind = "uiserver" -> uiserver_status_handler(s, line)
    [] conf.kind = "assuan" -> llass_status_handler(s, line)
    [] conf.kind = "g13" -> g13_status_handler(s, line)

\* The loop runs the status handler for one line; an error cancels the
\* operation and its connection, an operational error only the operation.
StatusLine(line) ==
  /\ Watched("status")
  /\ sys.up \/ line = "lost"
  /\ line = "INQUIRE" => sys.owed < 3
  /\ LET r == status_handler(sys, line)
     IN CASE r.err = "none" -> Becomes(r.s)
          [] r.err = "err" -> sys' = Cancel(r.s) /\ busy' = FALSE
          [] r.err = "op_err" ->
               /\ sys' = IF conf.kind = "g13" THEN g13_cancel_op(r.s) ELSE llass_cancel_op(r.s)
               /\ busy' = FALSE
  /\ UNCHANGED <<conf, user, op>>

\* All of a data channel's data has been moved: the handler closes it.
DataDone(c) ==
  /\ Watched(c)
  /\ Becomes(_gpgme_io_close(sys, sys.fd[c]))
  /\ UNCHANGED <<conf, user, op>>

\* Reading or writing the data object fails.
DataFails(c) ==
  /\ Watched(c)
  /\ sys' = Cancel(sys)
  /\ busy' = FALSE
  /\ UNCHANGED <<conf, user, op>>

gpgme_cancel ==
  /\ busy
  /\ sys' = Cancel(sys)
  /\ busy' = FALSE
  /\ UNCHANGED <<conf, user, op>>

ServerDies ==
  /\ sys.up
  /\ sys' = [sys EXCEPT !.up = FALSE]
  /\ UNCHANGED <<conf, user, op, busy>>

\* gpgme_release, or gpgme_set_protocol to another protocol.
Release ==
  /\ sys.alive
  /\ sys' = ReleaseEngine(sys)
  /\ busy' = FALSE
  /\ UNCHANGED <<conf, user, op>>

\* The user is done with a descriptor that went into a data object.
UserCloses(f) ==
  /\ ~busy
  /\ user' = user \ {f}
  /\ sys' = [sys EXCEPT !.open = @ \ {f}]
  /\ UNCHANGED <<conf, op, busy>>

Loop ==
  \/ \E line \in Lines : StatusLine(line)
  \/ \E c \in DataChannels : DataDone(c) \/ DataFails(c)

Next ==
  \/ \E o \in conf.ops, how \in Hows : \E at \in -1..Len(o.steps) + 1 : Start(o, at, how)
  \/ \E o \in conf.ops : StartNoEngine(o)
  \/ Loop
  \/ gpgme_cancel \/ ServerDies \/ Release
  \/ \E f \in user : UserCloses(f)

Spec == Init /\ [][Next]_vars

-----------------------------------------------------------------------------
TypeOK ==
  /\ conf \in Configs
  /\ sys.alive \in BOOLEAN /\ sys.conn \in BOOLEAN /\ sys.up \in BOOLEAN /\ sys.ok
  /\ sys.fd \in [Channels -> 1..MaxFd \cup {NoFd}]
  /\ sys.tag \in [Channels -> 1..MaxFd \cup {NoFd}]
  /\ sys.data \in [Channels -> 0..conf.max]
  /\ sys.owed \in 0..3 + conf.max
  /\ sys.open \subseteq 1..MaxFd /\ sys.notify \subseteq 1..MaxFd
  /\ sys.cbs \subseteq [fd : 1..MaxFd, ch : Channels]
  /\ user \subseteq 1..MaxFd
  /\ op \in 0..conf.max /\ busy \in BOOLEAN

(* Every callback of the loop is the current one of its channel: its        *)
(* descriptor is open and the channel's field and tag name it, so that the  *)
(* close notification of engine-gpgsm.c can remove it.                      *)
CallbacksSound ==
  Pipes => \A b \in sys.cbs : b.fd \in sys.open /\ sys.fd[b.ch] = b.fd /\ sys.tag[b.ch] = b.fd

(* Every descriptor the engine has opened is named by a channel, so that    *)
(* gpgsm_cancel and gpgsm_release close it.                                 *)
DescriptorsOwned ==
  Pipes => sys.open \ user \subseteq {sys.fd[c] : c \in Channels}

(* While an operation runs, the loop moves only its own data: no callback   *)
(* reads or writes a data object of an earlier operation, which the user    *)
(* may have released.                                                       *)
ChannelsCurrent ==
  Pipes /\ busy => \A b \in sys.cbs : sys.data[b.ch] = op

(* The answers we read are the answers to our commands: on a working        *)
(* connection exactly the running operation's answer is outstanding, so no  *)
(* answer spills over into the next operation.                              *)
InSync ==
  conf.kind \in {"gpgsm", "assuan"} /\ sys.conn /\ sys.up => sys.owed = (IF Watched("status") THEN 1 ELSE 0)

(* A descriptor the user has put into a data object stays the user's.       *)
UserFdsOpen ==
  Pipes => user \subseteq sys.open /\ user \cap {sys.fd[c] : c \in Channels} = {}

(* The bookkeeping of engine-gpgsm.c between two steps: channels, callbacks *)
(* and descriptors name each other, and the user's descriptors are apart.   *)
EngineInv == TypeOK /\ CallbacksSound /\ DescriptorsOwned /\ UserFdsOpen

(* A released engine leaves nothing behind: no descriptor of its making and *)
(* no callback in the loop.                                                 *)
ReleaseFreesAll ==
  Pipes /\ ~sys.alive => sys.open \subseteq user /\ sys.cbs = {}

(* When an operation is over, the engine that the next operation will use   *)
(* has a connection to its server.                                          *)
NextOperationRuns ==
  ~busy /\ sys.alive /\ (Session \/ HasReset) => sys.conn

-----------------------------------------------------------------------------
(* Fairness: no channel is watched for ever.  The server answers the        *)
(* command or the connection breaks, and each data channel comes to its     *)
(* end; both are up to the server, and the loop handles what is ready.      *)
Fairness == \A c \in Channels : []<>~Watched(c)

FairSpec == Spec /\ Fairness

(* A started operation of gpgsm behind its pipes comes to its end: no       *)
(* callback is left over in the loop after the channels have been closed.   *)
OperationEnds == Pipes /\ busy ~> ~busy
=============================================================================
