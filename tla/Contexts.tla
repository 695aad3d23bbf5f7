----------------------------- MODULE Contexts ------------------------------
(***************************************************************************)
(* The list of engines (engine.c) and what contexts make of it (gpgme.c,   *)
(* op-support.c).  The list is one for all threads, made by the first who  *)
(* needs it and changed by gpgme_set_engine_info; every context has a copy *)
(* of its own.  A context's engine is made when an operation is started    *)
(* and kept for the next one where the protocol allows that.  A context is *)
(* used by one thread.                                                     *)
(***************************************************************************)
EXTENDS Integers, FiniteSets

(* What engines implement: the tables of functions that every engine-*.c   *)
(* ends with, and the functions of engine.c that call through them.        *)

\* The functions that every engine has.
Common == {"get_file_name", "get_version", "get_req_version", "new", "release",
           "set_io_cbs"}

_gpgme_engine_ops_gpg ==
  Common \cup
  {"set_status_cb", "set_status_handler", "set_command_handler",
   "set_colon_line_handler", "set_locale", "set_engine_flags", "decrypt",
   "delete", "edit", "encrypt", "encrypt_sign", "export", "export_ext",
   "genkey", "import", "keylist", "keylist_ext", "keylist_data", "keysign",
   "tofu_policy", "sign", "trustlist", "verify", "getauditlog", "io_event",
   "cancel", "passwd", "set_pinentry_mode"}

\* The reset function is there where descriptors can be passed.
_gpgme_engine_ops_gpgsm ==
  Common \cup
  {"reset", "set_status_cb", "set_status_handler", "set_colon_line_handler",
   "set_locale", "set_engine_flags", "decrypt", "delete", "encrypt", "export",
   "export_ext", "genkey", "import", "keylist", "keylist_ext", "sign", "verify",
   "getauditlog", "io_event", "cancel", "passwd"}

_gpgme_engine_ops_gpgconf ==
  Common \cup {"conf_load", "conf_save", "conf_dir", "query_swdb"}

_gpgme_engine_ops_assuan ==
  Common \cup
  {"get_home_dir", "set_locale", "set_engine_flags", "opassuan_transact",
   "io_event", "cancel", "cancel_op"}

_gpgme_engine_ops_g13 ==
  Common \cup
  {"reset", "set_locale", "opassuan_transact", "io_event", "cancel", "cancel_op"}

_gpgme_engine_ops_uiserver ==
  Common \cup
  {"reset", "set_status_cb", "set_status_handler", "set_colon_line_handler",
   "set_locale", "set_protocol", "decrypt", "encrypt", "sign", "verify",
   "io_event", "cancel"}

_gpgme_engine_ops_spawn == Common \cup {"io_event", "cancel", "opspawn"}

engine_ops ==
  [OpenPGP |-> _gpgme_engine_ops_gpg, CMS |-> _gpgme_engine_ops_gpgsm,
   GPGCONF |-> _gpgme_engine_ops_gpgconf, ASSUAN |-> _gpgme_engine_ops_assuan,
   G13 |-> _gpgme_engine_ops_g13, UISERVER |-> _gpgme_engine_ops_uiserver,
   SPAWN |-> _gpgme_engine_ops_spawn]

\* The dispatch functions have one form: without the engine's function the
\* call is GPG_ERR_NOT_IMPLEMENTED, or is left out where it returns nothing.
call(proto, name) ==
  IF name \in engine_ops[proto] THEN "ok" ELSE "NOT_IMPLEMENTED"

\* What can be called: the settings, the operations on messages and keys, the
\* other operations, and what an event loop needs.
SettingCalls ==
  {"reset", "set_status_cb", "set_status_handler", "set_command_handler",
   "set_colon_line_handler", "set_locale", "set_protocol", "set_engine_flags"}
KeyCalls ==
  {"decrypt", "delete", "edit", "encrypt", "encrypt_sign", "export",
   "export_ext", "genkey", "keysign"}
ListingCalls ==
  {"tofu_policy", "import", "keylist", "keylist_ext", "keylist_data", "sign",
   "trustlist", "verify", "getauditlog", "opassuan_transact"}
OtherCalls ==
  {"conf_load", "conf_save", "conf_dir", "query_swdb", "io_event", "cancel",
   "cancel_op", "passwd", "set_pinentry_mode", "opspawn"}

\* Every function of an engine is called by engine.c.
AllDispatched ==
  \A p \in DOMAIN engine_ops :
    engine_ops[p] \subseteq
      Common \cup {"get_home_dir"} \cup SettingCalls \cup KeyCalls \cup ListingCalls
      \cup OtherCalls

-----------------------------------------------------------------------------
CONSTANTS
  Threads,
  Protos,     \* the protocols in use, of those in engine_ops
  Installed,  \* those whose engine was built in: engine_get_file_name is not NULL
  Calls,      \* the members of engine_ops that operations call
  MaxCalls    \* bound on the calls that change a context or the list

Null == [p \in {} |-> 0]   \* no list
Stamps == {0, 1}      \* file name, home directory and version: the default, or set
None == [none |-> TRUE]

VARIABLES
  engine_info,  \* the list: Null, or what is known of each engine
  pc,           \* where a thread is in a call that looks at the list twice
  arg,          \* the arguments of gpgme_set_engine_info
  ctx,          \* the thread's context, or None
  lastset,      \* ghost: the last value that was set for each engine
  calls

vars == <<engine_info, pc, arg, ctx, lastset, calls>>

NoArg == [proto |-> "none", stamp |-> 0]

Init ==
  /\ engine_info = Null
  /\ pc = [t \in Threads |-> "idle"] /\ arg = [t \in Threads |-> NoArg]
  /\ ctx = [t \in Threads |-> None]
  /\ lastset = [p \in Installed |-> 0]
  /\ calls = 0

Default == [p \in Installed |-> 0]

Count == calls < MaxCalls /\ calls' = calls + 1
Idle(t) == pc[t] = "idle"
At(t, where) == pc' = [pc EXCEPT ![t] = where]
HasCtx(t) == Idle(t) /\ ctx[t] # None

-----------------------------------------------------------------------------
\* gpgme_get_engine_info, all of it under the lock: the list is made unless
\* it is there.  Memory, or an engine older than the minimal version, make
\* it fail, and there is no list again.
get_engine_info == IF engine_info = Null THEN {Default, Null} ELSE {engine_info}

gpgme_get_engine_info(t) ==
  /\ Idle(t) /\ engine_info' \in get_engine_info
  /\ UNCHANGED <<pc, arg, ctx, lastset, calls>>

\* What _gpgme_engine_info_copy and gpgme_set_engine_info do when the list
\* is not there: the lock is given up, the list is made, the lock is taken
\* again.
MakeList(t, after) ==
  /\ engine_info' \in get_engine_info
  /\ At(t, IF engine_info' = Null THEN "idle" ELSE after)

\* gpgme_new: the context gets a copy of the list.
NewContext(info) ==
  [protocol |-> "OpenPGP", sub |-> "default", info |-> info, engine |-> None,
   flags |-> 0, user |-> FALSE, canceled |-> FALSE, op |-> None]

gpgme_new(t) ==
  /\ Idle(t) /\ ctx[t] = None
  /\ IF engine_info = Null
     THEN At(t, "new") /\ UNCHANGED ctx
     ELSE At(t, "idle") /\ ctx' \in {ctx, [ctx EXCEPT ![t] = NewContext(engine_info)]}
  /\ UNCHANGED <<engine_info, arg, lastset, calls>>

NewMakesList(t) ==
  /\ pc[t] = "new" /\ MakeList(t, "copy")
  /\ UNCHANGED <<arg, ctx, lastset, calls>>

\* The copy, under the lock again; it fails when memory runs out.
_gpgme_engine_info_copy(t) ==
  /\ pc[t] = "copy" /\ At(t, "idle")
  /\ ctx' \in {ctx, [ctx EXCEPT ![t] = NewContext(engine_info)]}
  /\ UNCHANGED <<engine_info, arg, lastset, calls>>

\* _gpgme_set_engine_info for the entry of p.
SetInfo(info, p, s) == IF p \in DOMAIN info THEN [info EXCEPT ![p] = s] ELSE info

\* gpgme_set_engine_info.
gpgme_set_engine_info(t, p, s) ==
  /\ Idle(t) /\ Count
  /\ arg' = [arg EXCEPT ![t] = [proto |-> p, stamp |-> s]]
  /\ At(t, IF engine_info = Null THEN "set" ELSE "setlocked")
  /\ UNCHANGED <<engine_info, ctx, lastset>>

SetMakesList(t) ==
  /\ pc[t] = "set" /\ MakeList(t, "setlocked")
  /\ arg' = [arg EXCEPT ![t] = IF engine_info' = Null THEN NoArg ELSE @]
  /\ UNCHANGED <<ctx, lastset, calls>>

SetLocked(t) ==
  /\ pc[t] = "setlocked" /\ At(t, "idle")
  /\ LET a == arg[t]
     IN  /\ engine_info' = SetInfo(engine_info, a.proto, a.stamp)
         /\ lastset' = SetInfo(lastset, a.proto, a.stamp)
  /\ arg' = [arg EXCEPT ![t] = NoArg]
  /\ UNCHANGED <<ctx, calls>>

-----------------------------------------------------------------------------
\* A change of the context by its thread.
Change(t, c) ==
  /\ HasCtx(t) /\ Count /\ ctx' = [ctx EXCEPT ![t] = c]
  /\ UNCHANGED <<engine_info, pc, arg, lastset>>

\* Releasing the engine ends the operation it runs.
ReleaseEngine(c) == [c EXCEPT !.engine = None, !.op = None]

\* Mutant: the engine of the former protocol is kept.
set_protocol_keeps(t, p) == Change(t, [ctx[t] EXCEPT !.protocol = p])

\* gpgme_set_protocol shuts the engine down when the protocol changes.
gpgme_set_protocol(t, p) ==
  /\ p # ctx[t].protocol
  /\ Change(t, [ReleaseEngine(ctx[t]) EXCEPT !.protocol = p])

gpgme_set_sub_protocol(t, p) == p # ctx[t].sub /\ Change(t, [ctx[t] EXCEPT !.sub = p])

\* gpgme_ctx_set_engine_info shuts the engine down, even when there is no
\* entry to change.
gpgme_ctx_set_engine_info(t, p, s) ==
  Change(t, [ReleaseEngine(ctx[t]) EXCEPT !.info = SetInfo(@, p, s)])

\* gpgme_set_io_cbs: a user's event loop, or none; not while it is in use.
gpgme_set_io_cbs(t) == ctx[t].op = None /\ Change(t, [ctx[t] EXCEPT !.user = ~@])

\* gpgme_set_offline, gpgme_set_ctx_flag, gpgme_set_pinentry_mode and the
\* like: what _gpgme_engine_set_engine_flags will pass on.
gpgme_set_ctx_flag(t) == Change(t, [ctx[t] EXCEPT !.flags = 1 - @])

\* Another thread asks for a cancellation.
gpgme_cancel_async(t) ==
  /\ ctx[t] # None /\ ~ctx[t].canceled /\ Idle(t)
  /\ ctx' = [ctx EXCEPT ![t].canceled = TRUE]
  /\ UNCHANGED <<engine_info, pc, arg, lastset, calls>>

gpgme_release(t) ==
  /\ HasCtx(t) /\ ctx' = [ctx EXCEPT ![t] = None]
  /\ UNCHANGED <<engine_info, pc, arg, lastset, calls>>

-----------------------------------------------------------------------------
\* _gpgme_engine_new: the engine that the context's entry describes.
_gpgme_engine_new(c) ==
  [proto |-> c.protocol, info |-> c.info[c.protocol], flags |-> -1, loop |-> "none"]

\* The engine that is there: kept as it is, reset, or released because its
\* protocol cannot reset it.
KeptEngine(c, noreset) ==
  IF c.engine = None THEN None
  ELSE IF noreset \/ call(c.engine.proto, "reset") = "ok" THEN c.engine
  ELSE None

\* The event loop for an operation: type 1 is synchronous, 0 asynchronous, 2
\* a listing.
LoopFor(c, type) ==
  IF type = 1 \/ (type = 2 /\ ~c.user) THEN "private"
  ELSE IF ~c.user THEN "global" ELSE "user"

EngineFlags(e, c, reuse) ==
  IF reuse \/ call(e.proto, "set_engine_flags") # "ok" THEN e
  ELSE [e EXCEPT !.flags = c.flags]

\* _gpgme_op_reset, where it succeeds: the engine that operations use.
Prepared(c, type, noreset) ==
  LET kept == KeptEngine(c, noreset)
      e    == IF kept = None THEN _gpgme_engine_new(c) ELSE kept
  IN  [EngineFlags(e, c, kept # None /\ noreset) EXCEPT !.loop = LoopFor(c, type)]

\* The context once the results of the last operation were released.
Fresh(c) == [c EXCEPT !.canceled = FALSE, !.op = None]

\* The ways _gpgme_op_reset fails: there is no entry for the protocol or the
\* engine cannot be made; it does not take its locale or pinentry mode, and
\* is released; it does not know the sub-protocol, and stays.
ResetFails(c, noreset) ==
  LET kept == KeptEngine(c, noreset)
      some == c.protocol \in DOMAIN c.info
      e    == IF kept = None THEN _gpgme_engine_new(c) ELSE kept
      nosub == c.sub # "default" /\ call(c.protocol, "set_protocol") # "ok"
  IN  (IF kept = None THEN {[Fresh(c) EXCEPT !.engine = None]} ELSE {})
      \cup (IF ~(kept # None /\ noreset) /\ some THEN {[Fresh(c) EXCEPT !.engine = None]} ELSE {})
      \cup (IF some /\ nosub
            THEN {[Fresh(c) EXCEPT !.engine = EngineFlags(e, c, kept # None /\ noreset)]}
            ELSE {})

_gpgme_op_reset_fails(t, noreset) ==
  \E c \in ResetFails(ctx[t], noreset) : Change(t, c)

\* An operation is started: _gpgme_op_reset, then the engine's function.
StartOp(t, name, type, noreset) ==
  LET c == ctx[t]
      e == Prepared(c, type, noreset)
      started == call(c.protocol, name) = "ok"
  IN  /\ c.protocol \in DOMAIN c.info
      /\ c.sub = "default" \/ call(c.protocol, "set_protocol") = "ok"
      /\ Change(t, [Fresh(c) EXCEPT
              !.engine = e,
              !.op = IF started THEN [name |-> name, type |-> type, noreset |-> noreset,
                                      flags |-> c.flags, user |-> c.user]
                     ELSE None])

Operations(t) ==
  \E type \in {0, 1, 2}, noreset \in BOOLEAN :
    \/ _gpgme_op_reset_fails(t, noreset)
    \/ \E name \in Calls : StartOp(t, name, type, noreset)

\* The operation ends, or is canceled where the engine can do that.
OpEnds(t) ==
  /\ HasCtx(t) /\ ctx[t].op # None /\ ctx' = [ctx EXCEPT ![t].op = None]
  /\ UNCHANGED <<engine_info, pc, arg, lastset, calls>>

gpgme_cancel(t) ==
  /\ HasCtx(t) /\ ctx[t].op # None /\ call(ctx[t].protocol, "cancel") = "ok"
  /\ ctx' = [ctx EXCEPT ![t].op = None]
  /\ UNCHANGED <<engine_info, pc, arg, lastset, calls>>

Step(t) ==
  \/ gpgme_get_engine_info(t)
  \/ gpgme_new(t) \/ NewMakesList(t) \/ _gpgme_engine_info_copy(t)
  \/ SetMakesList(t) \/ SetLocked(t)
  \/ \E p \in Protos, s \in Stamps : gpgme_set_engine_info(t, p, s)
  \/ gpgme_cancel_async(t)
  \/ HasCtx(t) /\
       \/ \E p \in Protos : gpgme_set_protocol(t, p)
       \/ \E p \in Protos, s \in Stamps : gpgme_ctx_set_engine_info(t, p, s)
       \/ \E p \in {"default", "CMS"} : gpgme_set_sub_protocol(t, p)
       \/ gpgme_set_io_cbs(t) \/ gpgme_set_ctx_flag(t)
       \/ Operations(t) \/ OpEnds(t) \/ gpgme_cancel(t) \/ gpgme_release(t)

Next == \E t \in Threads : Step(t)

Spec == Init /\ [][Next]_vars

-----------------------------------------------------------------------------
TypeOK ==
  /\ engine_info \in {Null} \cup [Installed -> Stamps]
  /\ pc \in [Threads -> {"idle", "new", "copy", "set", "setlocked"}]
  /\ \A t \in Threads : ctx[t] # None => ctx[t].info \in [Installed -> Stamps]

\* The list is made once.  Nobody who looked at it before they gave up the
\* lock finds it gone, and what one thread set is not lost to the list that
\* another one makes.
ListKept ==
  /\ engine_info # Null => engine_info = lastset
  /\ engine_info = Null => lastset = Default
  /\ \A t \in Threads : pc[t] \in {"copy", "setlocked"} => engine_info # Null

\* The engine that a context keeps is for the protocol, and was made with the
\* program and home directory, that are set for the context now.
EngineCurrent ==
  \A t \in Threads : LET c == ctx[t] IN
    c # None /\ c.engine # None =>
      /\ c.engine.proto = c.protocol
      /\ c.protocol \in DOMAIN c.info /\ c.engine.info = c.info[c.protocol]

\* An operation that was started runs in an engine that implements it, in the
\* event loop its caller waits in, with the flags of the context as they were
\* then; only an engine that was not to be reset keeps older ones.
StartedRight ==
  \A t \in Threads : LET c == ctx[t] IN
    c # None /\ c.op # None =>
      /\ c.engine # None /\ call(c.engine.proto, c.op.name) = "ok"
      /\ c.op.type = 1 => c.engine.loop = "private"
      /\ c.op.type = 0 => c.engine.loop = IF c.op.user THEN "user" ELSE "global"
      /\ \/ c.op.noreset \/ c.engine.flags = c.op.flags
         \/ call(c.protocol, "set_engine_flags") # "ok"

(* What a context may rely on: the list, its engine and its operation.      *)
ContextsInv == TypeOK /\ ListKept /\ EngineCurrent /\ StartedRight
=============================================================================
