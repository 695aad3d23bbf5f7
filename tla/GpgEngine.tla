----------------------------- MODULE GpgEngine -----------------------------
(***************************************************************************)
(* The gpg engine: the descriptors an engine object holds, the callbacks   *)
(* registered for them in the fd table of its context, and the table of    *)
(* close notifications that all engines of the process share.              *)
(*                                                                         *)
(* A field is a place of an engine object that holds a descriptor: the two *)
(* ends of the status and of the colon pipe, the parked end of the command *)
(* pipe, and our end ("data") and gpg's end ("peer") of the pipe of each   *)
(* entry of fd_data_map.  Descriptors are the small numbers of the kernel, *)
(* which hands out the lowest free one: a number that was closed comes     *)
(* back as the descriptor of something else.                               *)
(***************************************************************************)
EXTENDS Integers, Sequences, FiniteSets, FiniteSetsExt, SequencesExt

(* What each operation of the gpg engine asks of a gpg process: the data   *)
(* objects it attaches to the command line, in the order it adds them, and *)
(* the cases it refuses before anything is started.  The options and names *)
(* on the command line are left out.  o is the set of the circumstances    *)
(* that hold: the flags of the call, which of the optional objects are     *)
(* given, "old" for a gpg older than the feature needs, "badkey" for a key *)
(* without a fingerprint, "badname" for a name that cannot be used.        *)
\* dup_to of an object that is named on the command line: in the form "-&n",
\* or as the bare number n (the caller's -2, stored in print_fd).
Special == -1
Number  == -2

\* add_data: inbound objects are filled by gpg, the others are read by it.
add_data(d, dup_to, inbound) ==
  <<[data |-> d, dup_to |-> dup_to, inbound |-> inbound]>>

When(P, list) == IF P THEN list ELSE <<>>

\* An operation that goes on to start(), and one that returns an error.
Runs(list) == [refused |-> FALSE, list |-> list]
Refused    == [refused |-> TRUE, list |-> <<>>]

Unless(P, r) == IF P THEN Refused ELSE r

gpg_decrypt(o) ==
  Unless({"unwrap", "old"} \subseteq o,
    Runs(When("override" \in o /\ "old" \notin o,
              add_data("override_session_key", Number, FALSE))
         \o add_data("plain", 1, TRUE) \o add_data("ciph", Special, FALSE)))

gpg_delete(o) == Unless("badkey" \in o, Runs(<<>>))

gpg_passwd(o) == Unless("badkey" \in o, Runs(<<>>))

gpg_edit(o) == Unless("badkey" \in o /\ "card" \notin o, Runs(add_data("out", 1, TRUE)))

\* Every recipient needs a fingerprint; an address cannot be derived from it.
append_args_from_recipients(o) == {"badkey", "want_address"} \cap o = {}

\* The string form needs at least one recipient, and usable addresses.
append_args_from_recipients_string(o) == {"badname", "norecipient"} \cap o = {}

Recipients(o) ==
  IF "keys" \in o THEN append_args_from_recipients(o)
  ELSE "string" \in o => append_args_from_recipients_string(o)

gpg_encrypt(o) ==
  Unless(~Recipients(o),
    Runs(add_data("ciph", 1, TRUE) \o add_data("plain", Special, FALSE)))

\* A notation with a name must be human readable.
append_args_from_sig_notations(o) == "badnotation" \notin o

gpg_encrypt_sign(o) ==
  Unless(~Recipients(o) \/ ~append_args_from_sig_notations(o),
    Runs(add_data("ciph", 1, TRUE) \o add_data("plain", Special, FALSE)))

export_common(o) ==
  Unless("badmode" \in o,
    Runs(When("extern" \notin o, add_data("keydata", 1, TRUE))))

gpg_export(o) == export_common(o)

gpg_createkey_from_param(o) ==
  Unless({"pubkey", "seckey"} \cap o # {}, Runs(add_data("help_data", Special, FALSE)))

gpg_createkey(o) == Runs(<<>>)

gpg_addkey(o) == Unless("badkey" \in o, Runs(<<>>))

gpg_adduid(o) == Unless("badkey" \in o \/ "setprimary_unsupported" \in o, Runs(<<>>))

gpg_genkey(o) ==
  IF "param" \in o THEN gpg_createkey_from_param(o)
  ELSE Unless("old" \in o \/ (o \cap {"userid", "key"} = {})
              \/ ({"userid", "key", "algo"} \subseteq o),
         CASE {"userid", "key"} \subseteq o -> gpg_adduid(o)
           [] "userid" \in o /\ "key" \notin o -> gpg_createkey(o)
           [] OTHER -> gpg_addkey(o))

gpg_import(o) ==
  Unless({"keydata", "keyarray"} \subseteq o
         \/ ("keyarray" \notin o /\ ("urlesc" \in o \/ {"url", "badname"} \subseteq o)),
    Runs(When({"keyarray", "url"} \cap o = {}, add_data("keydata", Special, FALSE))))

gpg_keylist_build_options(o) == ~({"extern", "secret_only"} \subseteq o)

\* gpg_keylist and gpg_keylist_ext
gpg_keylist(o) == Unless("reserved" \in o \/ ~gpg_keylist_build_options(o), Runs(<<>>))

gpg_keylist_data(o) == Unless("old" \in o, Runs(add_data("data", Special, FALSE)))

gpg_keysign(o) == Unless({"badkey", "old"} \cap o # {}, Runs(<<>>))

gpg_tofu_policy(o) == Unless({"badkey", "old", "badmode"} \cap o # {}, Runs(<<>>))

gpg_sign(o) ==
  Unless(~append_args_from_sig_notations(o),
    Runs(add_data("in", Special, FALSE) \o add_data("out", 1, TRUE)))

gpg_trustlist(o) == Runs(<<>>)

gpg_verify(o) ==
  Runs(add_data("sig", Special, FALSE)
       \o (IF "plaintext" \in o THEN add_data("plaintext", 1, TRUE)
           ELSE When("signed_text" \in o, add_data("signed_text", Special, FALSE))))

\* The member functions of the engine, by the name of the operation.
engine_ops(name, o) ==
  CASE name = "decrypt" -> gpg_decrypt(o)
    [] name = "delete" -> gpg_delete(o)
    [] name = "passwd" -> gpg_passwd(o)
    [] name = "edit" -> gpg_edit(o)
    [] name = "encrypt" -> gpg_encrypt(o)
    [] name = "encrypt_sign" -> gpg_encrypt_sign(o)
    [] name = "export" -> gpg_export(o)
    [] name = "genkey" -> gpg_genkey(o)
    [] name = "import" -> gpg_import(o)
    [] name = "keylist" -> gpg_keylist(o)
    [] name = "keylist_data" -> gpg_keylist_data(o)
    [] name = "keysign" -> gpg_keysign(o)
    [] name = "tofu_policy" -> gpg_tofu_policy(o)
    [] name = "sign" -> gpg_sign(o)
    [] name = "trustlist" -> gpg_trustlist(o)
    [] name = "verify" -> gpg_verify(o)

\* The operations whose callers install a colon line handler (gpg's standard
\* output), and those that take answers from the program: editing always,
\* the others when the context has a passphrase callback ("passphrase_cb").
ColonOps   == {"keylist", "keylist_data", "trustlist"}
CommandOps == {"decrypt", "encrypt", "encrypt_sign", "genkey", "keysign", "passwd", "sign"}

UsesColon(name) == name \in ColonOps
UsesCommand(name, o) ==
  \/ name = "edit"
  \/ /\ name \in CommandOps /\ "passphrase_cb" \in o
     /\ name = "encrypt" => "symmetric" \in o \/ {"keys", "string"} \cap o = {}

-----------------------------------------------------------------------------
CONSTANTS
  Engines,   \* the engine objects of the contexts of the program
  Fds,       \* the descriptors the process may have open
  Calls,     \* the operations the program starts: [name, o], as above
  MaxData,   \* bound: data objects an operation attaches
  MaxAsks,   \* bound: questions gpg asks in an operation
  NoMemory,  \* where registering a callback may fail: "start", "status"
  None

Slots   == 1..(MaxData + 2)

Closed == -1

\* The fields in the order close_notify_handler looks at them.
FieldOrder ==
  <<<<"status", 0>>, <<"status", 1>>, <<"colon", 0>>, <<"colon", 1>>, <<"cmd", 0>>>>
  \o [i \in 1..(2 * MaxData) |-> <<IF i % 2 = 1 THEN "data" ELSE "peer", (i + 1) \div 2>>]
Fields  == Range(FieldOrder)

Data(i) == <<"data", i>>
Peer(i) == <<"peer", i>>
Status0 == <<"status", 0>>
Status1 == <<"status", 1>>
Colon0  == <<"colon", 0>>
Colon1  == <<"colon", 1>>
Parked  == <<"cmd", 0>>

Tagged == {Status0, Colon0} \cup {Data(i) : i \in 1..MaxData}

FreeSlot == [fd |-> Closed, of |-> Parked]

VARIABLES
  open,      \* the open descriptors
  notify,    \* the engine to tell when a descriptor is closed
  held,      \* the descriptor in each field of each engine
  tag,       \* the slot a field's tag names; it is not cleared when freed
  fdt,       \* the callbacks in the fd table of the context
  freed,     \* ghost: a tag was used after it had been freed
  phase,     \* "none", "new", "failed" (to start), "started", "done"
  cmd,       \* the command handler: in use, its index in fd_data_map, a code pending
  child,     \* the gpg process: "none", "running", "gone"
  asks       \* questions asked

sysvars == <<open, notify, held, tag, fdt, freed>>
vars    == <<open, notify, held, tag, fdt, freed, phase, cmd, child, asks>>

\* The state the functions below work on, as a record.
Sys == [open |-> open, notify |-> notify, held |-> held, tag |-> tag, fdt |-> fdt,
        freed |-> freed]

Becomes(s) ==
  /\ open' = s.open /\ notify' = s.notify /\ held' = s.held
  /\ tag' = s.tag /\ fdt' = s.fdt /\ freed' = s.freed

NoCmd == [used |-> FALSE, idx |-> 0, code |-> FALSE]

Init ==
  /\ open = {} /\ notify = [d \in Fds |-> None]
  /\ held = [e \in Engines |-> [f \in Fields |-> Closed]]
  /\ tag = [e \in Engines |-> [f \in Tagged |-> 0]]
  /\ fdt = [e \in Engines |-> [i \in Slots |-> FreeSlot]]
  /\ freed = FALSE
  /\ phase = [e \in Engines |-> "none"]
  /\ cmd = [e \in Engines |-> NoCmd]
  /\ child = [e \in Engines |-> "none"]
  /\ asks = [e \in Engines |-> 0]
-----------------------------------------------------------------------------
\* _gpgme_add_io_cb and fd_table_put: the first free slot.
add_io_cb(s, e, f, d) ==
  LET i == Min({j \in Slots : s.fdt[e][j] = FreeSlot})
  IN [s EXCEPT !.fdt[e][i] = [fd |-> d, of |-> f], !.tag[e][f] = i]

\* _gpgme_remove_io_cb, through the tag in field f.
remove_io_cb(s, e, f) ==
  LET i == s.tag[e][f]
  IN [s EXCEPT !.fdt[e][i] = FreeSlot, !.freed = @ \/ s.fdt[e][i].of # f \/ s.fdt[e][i].fd = Closed]

close_notify_handler(s, e, d) ==
  LET at == {i \in 1..Len(FieldOrder) : s.held[e][FieldOrder[i]] = d}
      f  == FieldOrder[Min(at)]
  IN IF at = {} THEN s
     ELSE [(IF f \in Tagged /\ s.tag[e][f] # 0 THEN remove_io_cb(s, e, f) ELSE s)
             EXCEPT !.held[e][f] = Closed]

\* _gpgme_io_close
io_close(s, d) ==
  LET e == s.notify[d]
      t == [s EXCEPT !.notify[d] = None]
  IN [(IF e = None THEN t ELSE close_notify_handler(t, e, d)) EXCEPT !.open = @ \ {d}]

\* Close what the fields of a list hold, those that hold something.
CloseFields(s, e, fs) ==
  FoldLeft(LAMBDA t, f : IF t.held[e][f] = Closed THEN t ELSE io_close(t, t.held[e][f]), s, fs)

free_fd_data_map(s, e) == CloseFields(s, e, SubSeq(FieldOrder, 6, Len(FieldOrder)))

gpg_cancel(s, e, c) ==
  LET first  == IF ~c.used THEN <<>>
                ELSE IF s.held[e][Parked] # Closed THEN <<Parked>>
                ELSE IF c.idx # 0 THEN <<Data(c.idx)>>
                ELSE <<>>
  IN free_fd_data_map(CloseFields(s, e, first \o SubSeq(FieldOrder, 1, 4)), e)

\* _gpgme_io_pipe, with close notifications for both ends.
CanPipe(s) == Cardinality(Fds \ s.open) >= 2
PipeEnds(s) ==
  LET r == Min(Fds \ s.open) IN <<r, Min((Fds \ s.open) \ {r})>>
io_pipe(s, e) ==
  LET p == PipeEnds(s)
  IN [s EXCEPT !.open = @ \cup Range(p), !.notify = [d \in Fds |-> IF d \in Range(p) THEN e ELSE @[d]]]
-----------------------------------------------------------------------------
\* gpg_new.  When something fails after the status pipe exists, the object
\* is released.
gpg_new(e) ==
  /\ phase[e] = "none" /\ CanPipe(Sys)
  /\ LET p == PipeEnds(Sys)
         s == [io_pipe(Sys, e) EXCEPT !.held[e][Status0] = p[1], !.held[e][Status1] = p[2]]
     IN \/ Becomes(s) /\ phase' = [phase EXCEPT ![e] = "new"]
        \/ Becomes(gpg_cancel(s, e, NoCmd)) /\ UNCHANGED phase
  /\ UNCHANGED <<cmd, child, asks>>

\* gpg_release; a reset of the context releases the engine as well.
gpg_release(e) ==
  /\ phase[e] # "none"
  /\ LET s == gpg_cancel(Sys, e, cmd[e])
     IN Becomes([s EXCEPT !.held[e] = [f \in Fields |-> Closed], !.tag[e] = [f \in Tagged |-> 0]])
  /\ phase' = [phase EXCEPT ![e] = "none"]
  /\ cmd' = [cmd EXCEPT ![e] = NoCmd]
  /\ child' = [child EXCEPT ![e] = "none"] /\ asks' = [asks EXCEPT ![e] = 0]

\* The pipes of build_argv, one for each data object on the argument list.
\* The map is local until all are there: when a pipe cannot be made, those
\* made before it stay open and nothing names them.
build_argv(s, e, items) ==
  LET more(b, it) ==
        IF ~b.ok \/ ~CanPipe(b.s) THEN [b EXCEPT !.ok = FALSE]
        ELSE LET p == PipeEnds(b.s)
             IN [b EXCEPT !.s = io_pipe(b.s, e),
                          !.map = Append(@, IF it.inbound THEN p ELSE <<p[2], p[1]>>)]
      b == FoldLeft(more, [ok |-> TRUE, s |-> s, map |-> <<>>], items)
      held1 == [f \in Fields |->
                  IF f[1] \in {"data", "peer"} /\ f[2] \in 1..Len(b.map)
                  THEN b.map[f[2]][IF f[1] = "data" THEN 1 ELSE 2] ELSE s.held[e][f]]
  IN [ok |-> b.ok, s |-> IF b.ok THEN [b.s EXCEPT !.held[e] = held1] ELSE b.s]

\* Mutant: the child does not get the colon descriptor.
fd_list_no_colon(s, e, n) == <<Status1>> \o [i \in 1..n |-> Peer(i)]

\* The fd list for the child.
fd_list(s, e, n) ==
  <<Status1>> \o (IF s.held[e][Colon1] # Closed THEN <<Colon1>> ELSE <<>>) \o [i \in 1..n |-> Peer(i)]

\* start after the spawn: register the callbacks, up to the k-th, which
\* fails (0: none fails); the command descriptor is parked.
register(s, e, n, idx, k) ==
  LET fs == <<Status0>> \o (IF s.held[e][Colon0] # Closed THEN <<Colon0>> ELSE <<>>)
            \o [i \in 1..n |-> Data(i)]
      stop == IF k = 0 THEN Len(fs) ELSE k - 1
      step(t, f) ==
        IF f = Data(idx)
        THEN [t EXCEPT !.held[e][Parked] = t.held[e][f], !.held[e][f] = Closed]
        ELSE add_io_cb(t, e, f, t.held[e][f])
  IN FoldLeft(step, s, SubSeq(fs, 1, stop))

\* The number of callbacks start registers.
Registrations(s, e, n) == 1 + (IF s.held[e][Colon0] # Closed THEN 1 ELSE 0) + n

Items(c) ==
  add_data("diagnostics", Number, TRUE)
  \o When(UsesCommand(c.name, c.o), add_data("cmd", Number, FALSE))
  \o engine_ops(c.name, c.o).list

\* start(): spawn, whose parent closes gpg's ends, then the callbacks.
start(s, e, n, idx) ==
  LET spawned == CloseFields(s, e, fd_list(s, e, n))
  IN \/ \* fork or the program failed
        /\ Becomes(s) /\ phase' = [phase EXCEPT ![e] = "failed"] /\ UNCHANGED child
     \/ /\ Becomes(register(spawned, e, n, idx, 0))
        /\ phase' = [phase EXCEPT ![e] = "started"]
        /\ child' = [child EXCEPT ![e] = "running"]
     \/ \E k \in 1..Registrations(s, e, n) :
          /\ "start" \in NoMemory
          /\ Becomes(register(spawned, e, n, idx, k))
          /\ phase' = [phase EXCEPT ![e] = "failed"]
          /\ child' = [child EXCEPT ![e] = "running"]

\* The start function of an operation, after the reset: handlers, data,
\* start().
Start(e, c) ==
  LET p     == PipeEnds(Sys)
      s     == IF UsesColon(c.name)
               THEN [io_pipe(Sys, e) EXCEPT !.held[e][Colon0] = p[1], !.held[e][Colon1] = p[2]]
               ELSE Sys
      items == Items(c)
      idx   == IF UsesCommand(c.name, c.o) THEN 2 ELSE 0
      b     == build_argv(s, e, items)
      used  == [used |-> UsesCommand(c.name, c.o), idx |-> IF b.ok THEN idx ELSE 0, code |-> FALSE]
      fail  == phase' = [phase EXCEPT ![e] = "failed"] /\ UNCHANGED child
  IN /\ phase[e] = "new" /\ UNCHANGED asks
     /\ IF UsesColon(c.name) /\ ~CanPipe(Sys) THEN fail /\ UNCHANGED <<sysvars, cmd>>
        ELSE IF engine_ops(c.name, c.o).refused
        THEN fail /\ Becomes(s) /\ cmd' = [cmd EXCEPT ![e] = [used EXCEPT !.idx = 0]]
        ELSE /\ cmd' = [cmd EXCEPT ![e] = used]
             /\ IF b.ok THEN start(b.s, e, Len(items), idx)
                ELSE fail /\ Becomes(b.s)
-----------------------------------------------------------------------------
\* A handler or gpgme_cancel ends the operation.
CancelWith(s, e) ==
  /\ Becomes(gpg_cancel(s, e, cmd[e]))
  /\ phase' = [phase EXCEPT ![e] = "done"]

Cancel(e) ==
  /\ phase[e] # "none" /\ CancelWith(Sys, e)
  /\ UNCHANGED <<cmd, child, asks>>

Registered(e, f) == phase[e] = "started" /\ \E i \in Slots : fdt[e][i].of = f /\ fdt[e][i].fd # Closed

\* Mutant: the callback is removed before the descriptor is closed, so that
\* the close notification removes a tag that is gone.
eof_removes_first(e) ==
  /\ Registered(e, Status0) /\ child[e] = "gone"
  /\ Becomes(io_close(remove_io_cb(Sys, e, Status0), held[e][Status0]))
  /\ UNCHANGED <<phase, cmd, child, asks>>

\* status_handler at the end of the status output, and when the status
\* handler of the operation or the monitor returns an error.
StatusEof(e) ==
  /\ Registered(e, Status0) /\ child[e] = "gone"
  /\ Becomes(io_close(Sys, held[e][Status0]))
  /\ UNCHANGED <<phase, cmd, child, asks>>

StatusFails(e) ==
  /\ Registered(e, Status0) /\ CancelWith(Sys, e)
  /\ UNCHANGED <<cmd, child, asks>>

unpark(s, e) ==
  [s EXCEPT !.held[e][Data(cmd[e].idx)] = s.held[e][Parked], !.held[e][Parked] = Closed]

\* Mutant: the command descriptor is not registered for a question.
get_unregistered(e) ==
  /\ Registered(e, Status0) /\ cmd[e].used /\ ~cmd[e].code /\ asks[e] < MaxAsks
  /\ Becomes(unpark(Sys, e))
  /\ cmd' = [cmd EXCEPT ![e].code = TRUE]
  /\ asks' = [asks EXCEPT ![e] = @ + 1]
  /\ UNCHANGED <<phase, child>>

\* read_status gets a question: the command descriptor is put to work.  The
\* result of registering it is not looked at.  gpg asks again only after it
\* got an answer.
StatusGet(e) ==
  /\ Registered(e, Status0) /\ cmd[e].used /\ ~cmd[e].code /\ asks[e] < MaxAsks
  /\ \/ Becomes(unpark(add_io_cb(Sys, e, Data(cmd[e].idx), held[e][Parked]), e))
     \/ "status" \in NoMemory /\ Becomes(unpark(Sys, e))
  /\ cmd' = [cmd EXCEPT ![e].code = TRUE]
  /\ asks' = [asks EXCEPT ![e] = @ + 1]
  /\ UNCHANGED <<phase, child>>

\* Mutant: the command descriptor stays registered after the answer.
command_stays(e) ==
  /\ cmd[e].used /\ Registered(e, Data(cmd[e].idx))
  /\ cmd' = [cmd EXCEPT ![e].code = FALSE]
  /\ UNCHANGED <<sysvars, phase, child, asks>>

\* command_handler: the callback of the program is asked, the descriptor is
\* parked again, and the answer, or at least a newline, is written.
park(s, e) ==
  LET f == Data(cmd[e].idx)
  IN [remove_io_cb(s, e, f) EXCEPT !.held[e][Parked] = s.held[e][f], !.held[e][f] = Closed]

command_handler(e) ==
  /\ cmd[e].used /\ Registered(e, Data(cmd[e].idx))
  /\ cmd' = [cmd EXCEPT ![e].code = FALSE]
  /\ \/ Becomes(park(Sys, e)) /\ UNCHANGED phase
     \/ CancelWith(park(Sys, e), e)
  /\ UNCHANGED <<child, asks>>

\* colon_line_handler and the handlers of data objects: the end of the data,
\* and an error.  In between they leave the engine alone.
Flows(e) == {Colon0} \cup {Data(i) : i \in (1..MaxData) \ {cmd[e].idx}}

DataEof(e, f) ==
  /\ f \in Flows(e) /\ Registered(e, f)
  /\ Becomes(io_close(Sys, held[e][f]))
  /\ UNCHANGED <<phase, cmd, child, asks>>

DataFails(e, f) ==
  /\ f \in Flows(e) /\ Registered(e, f) /\ CancelWith(Sys, e)
  /\ UNCHANGED <<cmd, child, asks>>

\* The event loop finds no descriptor left.
Done(e) ==
  /\ phase[e] = "started" /\ \A i \in Slots : fdt[e][i] = FreeSlot
  /\ phase' = [phase EXCEPT ![e] = "done"]
  /\ UNCHANGED <<sysvars, cmd, child, asks>>

ChildExits(e) ==
  /\ child[e] = "running" /\ child' = [child EXCEPT ![e] = "gone"]
  /\ UNCHANGED <<sysvars, phase, cmd, asks>>

Handlers(e) ==
  \/ StatusEof(e) \/ StatusFails(e) \/ StatusGet(e) \/ command_handler(e) \/ Done(e)
  \/ \E f \in Fields : DataEof(e, f) \/ DataFails(e, f)

Next ==
  \E e \in Engines :
    \/ gpg_new(e) \/ gpg_release(e) \/ Cancel(e) \/ ChildExits(e)
    \/ \E c \in Calls : Start(e, c)
    \/ Handlers(e)

\* Event loops run the handlers of descriptors that are ready; gpg exits
\* when it is not waiting for an answer.
Fairness ==
  \A e \in Engines :
    /\ WF_vars(StatusEof(e)) /\ WF_vars(command_handler(e)) /\ WF_vars(Done(e))
    /\ WF_vars(ChildExits(e) /\ ~cmd[e].code)
    /\ \A f \in Fields : WF_vars(DataEof(e, f))

Spec     == Init /\ [][Next]_vars
FairSpec == Spec /\ Fairness
-----------------------------------------------------------------------------
TypeOK ==
  /\ open \subseteq Fds /\ notify \in [Fds -> Engines \cup {None}]
  /\ held \in [Engines -> [Fields -> Fds \cup {Closed}]]
  /\ tag \in [Engines -> [Tagged -> Slots \cup {0}]]
  /\ fdt \in [Engines -> [Slots -> [fd : Fds \cup {Closed}, of : Fields]]]
  /\ freed \in BOOLEAN
  /\ phase \in [Engines -> {"none", "new", "failed", "started", "done"}]
  /\ cmd \in [Engines -> [used : BOOLEAN, idx : 0..MaxData, code : BOOLEAN]]
  /\ child \in [Engines -> {"none", "running", "gone"}]
  /\ asks \in [Engines -> 0..MaxAsks]

Holds(e, f, d) == held[e][f] = d /\ d # Closed

(* A descriptor an engine names is open, is named in no other place of any *)
(* engine, and closing it will be told to that engine.  A number left in a *)
(* field after its descriptor was closed would soon be the descriptor of   *)
(* another context, and be closed or read in its place.                    *)
DescriptorsOwned ==
  \A e \in Engines, f \in Fields :
    held[e][f] # Closed =>
      /\ held[e][f] \in open /\ notify[held[e][f]] = e
      /\ \A e2 \in Engines, f2 \in Fields :
           held[e2][f2] = held[e][f] => <<e2, f2>> = <<e, f>>

(* A callback is registered for a descriptor the engine holds, and the tag *)
(* in its field removes it: no handler runs for a descriptor that was      *)
(* closed, and close_notify_handler finds every callback.                  *)
CallbacksSound ==
  \A e \in Engines, i \in Slots :
    fdt[e][i] # FreeSlot =>
      /\ held[e][fdt[e][i].of] = fdt[e][i].fd
      /\ fdt[e][i].of \in Tagged /\ tag[e][fdt[e][i].of] = i

(* While an operation runs, each of its open descriptors is watched, only  *)
(* the command descriptor waits unwatched until gpg asks, and the parent   *)
(* keeps no end of gpg's: one that stayed open would hide the end of file. *)
EveryEndWatched ==
  \A e \in Engines :
    phase[e] = "started" =>
      /\ held[e][Status1] = Closed /\ held[e][Colon1] = Closed
      /\ \A i \in 1..MaxData : held[e][Peer(i)] = Closed
      /\ \A f \in Tagged : held[e][f] # Closed => Registered(e, f)

(* No tag is used after it was freed (_gpgme_remove_io_cb).                *)
TagsLive == ~freed

(* command_handler is only called with a question at hand:                 *)
(* assert (gpg->cmd.used), assert (gpg->cmd.code).                         *)
QuestionAtHand ==
  \A e \in Engines : cmd[e].used /\ Registered(e, Data(cmd[e].idx)) => cmd[e].code

(* A context whose operation ended has no callback left; at most the       *)
(* parked command descriptor is still open, until the engine is released.  *)
QuietWhenDone ==
  \A e \in Engines :
    /\ phase[e] \in {"none", "done"} => \A i \in Slots : fdt[e][i] = FreeSlot
    /\ phase[e] = "done" => \A f \in Fields \ {Parked} : held[e][f] = Closed

(* The bookkeeping of engine-gpg.c between two steps: descriptors, fields,  *)
(* callbacks and tags name each other, and nothing of it outlives the       *)
(* operation.                                                               *)
EngineInv == TypeOK /\ DescriptorsOwned /\ CallbacksSound /\ TagsLive /\ QuietWhenDone

(* build_argv, on a failed close notification: "We leak fd_data_map and    *)
(* the fds.  [...] we reach this here only after a malloc failure for a    *)
(* small object".  No allocation fails here: no descriptor may be lost.    *)
NoDescriptorLost ==
  \A d \in open : \E e \in Engines, f \in Fields : held[e][f] = d

(* Every operation that was started ends: the callbacks see the end of     *)
(* each stream and the questions of gpg are answered.                      *)
OperationEnds == \A e \in Engines : phase[e] = "started" ~> phase[e] # "started"
=============================================================================
