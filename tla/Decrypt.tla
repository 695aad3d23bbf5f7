------------------------------ MODULE Decrypt ------------------------------
(***************************************************************************)
(* Decryption (decrypt.c) over the property table of data objects: one     *)
(* context decrypts again and again, into data objects that the program    *)
(* creates, uses again and releases, from other threads too.  The engine's *)
(* status lines arrive in any order and number; a status handler that      *)
(* returns an error ends the operation with it, as does cancelling.        *)
(*                                                                         *)
(* The plaintext reaches the data object through a descriptor of its own,  *)
(* which is closed before the program may release the data object; status  *)
(* lines may still come then.                                              *)
(***************************************************************************)
EXTENDS DecryptHandler, DataTable

CONSTANT
  Scripts   \* what is explored: the status lines the engine may send, how the
            \* program calls (TRUE for gpgme_op_decrypt), and bounds on the lines
            \* of an operation, the operations and the data objects made

ASSUME DecryptAssumption ==
  \A s \in Scripts :
    /\ s.lines \subseteq StatusLine /\ s.sync \subseteq BOOLEAN
    /\ s.max \in Nat /\ s.ops \in Nat /\ s.objects \in Nat

VARIABLES
  script,            \* the member of Scripts that is played
  ignore_mdc_error,  \* ctx->ignore_mdc_error
  opd,               \* the op_data_t of the operation, with that of passphrase.c
  plaintext_dserial, \* its serial number of the plaintext data object
  phase,             \* "idle", "running" or "done"
  sync,              \* the operation was called synchronously
  err,               \* its result
  plain,             \* the data object given as the plaintext argument
  outOpen,           \* the descriptor of the plaintext is open
  gone,              \* the program has released that data object
  holds,             \* the data objects that hold output of a decryption
  tainted,           \* those of them whose decryption was declared failed
  log,               \* the status lines of the operation so far
  ops                \* operations started

opVars == <<script, ignore_mdc_error, opd, plaintext_dserial, phase, sync, err, plain, outOpen,
            gone, holds, tainted, log, ops>>
vars   == <<tableVars, opVars>>

TypeOK ==
  /\ TableTypeOK
  /\ script \in Scripts
  /\ ignore_mdc_error \in BOOLEAN
  /\ opd \in op_data_t
  /\ plaintext_dserial \in Serials
  /\ phase \in {"idle", "running", "done"}
  /\ sync \in BOOLEAN
  /\ err \in Errors
  /\ plain \in Handle \cup {NoHandle}
  /\ outOpen \in BOOLEAN /\ gone \in BOOLEAN
  /\ holds \subseteq Handle /\ tainted \subseteq Handle
  /\ log \in Seq(script.lines)
  /\ ops \in 0..script.ops

Init ==
  /\ TableInit
  /\ script \in Scripts
  /\ ignore_mdc_error = FALSE
  /\ opd = init_result /\ plaintext_dserial = 0
  /\ phase = "idle" /\ sync = FALSE /\ err = NoErr
  /\ plain = NoHandle /\ outOpen = FALSE /\ gone = FALSE
  /\ holds = {} /\ tainted = {} /\ log = <<>> /\ ops = 0
-----------------------------------------------------------------------------
(* The program and the event loop.                                         *)

Log(code) == \E i \in 1..Len(log) : log[i].code = code

\* The operation ends with error e: the event loop closes what is open, and
\* gpgme_op_decrypt, which waited for that, resets the flag.
Finish(e) ==
  /\ phase' = "done"
  /\ err' = e
  /\ outOpen' = FALSE
  /\ ignore_mdc_error' = IF sync THEN FALSE ELSE ignore_mdc_error

\* gpgme_data_new, in any thread.
New(h) ==
  /\ last_dserial < script.objects
  /\ DataNew(h)
  /\ UNCHANGED opVars

\* gpgme_data_release, in any thread, of any data object but the one the
\* operation is still writing to.
ReleaseData(h) ==
  /\ DataRelease(h)
  /\ ~(phase = "running" /\ h = plain /\ ~gone /\ outOpen)
  /\ holds' = holds \ {h}
  /\ tainted' = tainted \ {h}
  /\ gone' = (gone \/ h = plain)
  /\ UNCHANGED <<script, ignore_mdc_error, opd, plaintext_dserial, phase, sync, err, plain,
                 outOpen, log, ops>>

\* gpgme_set_ctx_flag (ctx, "ignore-mdc-error", "1").
SetIgnore ==
  /\ phase # "running"
  /\ ignore_mdc_error' = TRUE
  /\ UNCHANGED <<tableVars, script, opd, plaintext_dserial, phase, sync, err, plain, outOpen,
                 gone, holds, tainted, log, ops>>

\* gpgme_op_decrypt or gpgme_op_decrypt_start, which here differ in the flag
\* sync; the operation begins when the engine is started.
Start(h, s) ==
  /\ phase # "running" /\ ops < script.ops
  /\ h \in live
  /\ opd' = init_result /\ plaintext_dserial' = DSerial(h)
  /\ phase' = "running" /\ sync' = s /\ err' = NoErr
  /\ plain' = h /\ outOpen' = TRUE /\ gone' = FALSE
  /\ log' = <<>> /\ ops' = ops + 1
  /\ UNCHANGED <<tableVars, script, ignore_mdc_error, holds, tainted>>

\* The engine cannot be started, or an argument is missing.
StartFails(h, s) ==
  /\ phase # "running" /\ ops < script.ops
  /\ h \in live
  /\ opd' = init_result /\ plaintext_dserial' = DSerial(h)
  /\ phase' = "done" /\ sync' = s /\ err' = "system"
  /\ plain' = h /\ outOpen' = FALSE /\ gone' = FALSE
  /\ ignore_mdc_error' = IF s THEN FALSE ELSE ignore_mdc_error
  /\ log' = <<>> /\ ops' = ops + 1
  /\ UNCHANGED <<tableVars, script, holds, tainted>>

\* _gpgme_data_inbound_handler on the plaintext descriptor: data, or its end.
Output ==
  /\ phase = "running" /\ outOpen
  /\ \/ holds' = holds \cup {plain} /\ UNCHANGED outOpen
     \/ outOpen' = FALSE /\ UNCHANGED holds
  /\ UNCHANGED <<tableVars, script, ignore_mdc_error, opd, plaintext_dserial, phase, sync, err,
                 plain, gone, tainted, log, ops>>

\* DECRYPTION_FAILED voids the data object it finds by its serial number.
BlankFailed(line, ignore) ==
  IF line.code = "DECRYPTION_FAILED" /\ ~ignore THEN Blankout(plaintext_dserial)
  ELSE UNCHANGED tableVars

\* A status line is handled.
Status(line, cb) ==
  /\ phase = "running"
  /\ Len(log) < script.max \/ line.code = "EOF"
  /\ cb # NoErr => Asks(line)
  /\ LET r == decrypt_status(opd, line, ignore_mdc_error, cb)
     IN /\ opd' = r.opd
        /\ IF r.err # NoErr \/ line.code = "EOF" THEN Finish(r.err)
           ELSE UNCHANGED <<phase, err, outOpen, ignore_mdc_error>>
  /\ BlankFailed(line, ignore_mdc_error)
  /\ tainted' = IF line.code = "DECRYPTION_FAILED" /\ ~ignore_mdc_error /\ ~gone
                THEN tainted \cup {plain} ELSE tainted
  /\ log' = Append(log, line)
  /\ UNCHANGED <<script, plaintext_dserial, sync, plain, gone, holds, ops>>

\* gpgme_cancel, or a failing callback of another descriptor.
Cancel ==
  /\ phase = "running"
  /\ Finish("canceled")
  /\ UNCHANGED <<tableVars, script, opd, plaintext_dserial, sync, plain, gone, holds, tainted, log, ops>>

\* gpgme_op_decrypt_result.
Result ==
  /\ phase = "done"
  /\ ignore_mdc_error' = FALSE
  /\ UNCHANGED <<tableVars, script, opd, plaintext_dserial, phase, sync, err, plain, outOpen,
                 gone, holds, tainted, log, ops>>

Next ==
  \/ \E h \in Handle : New(h) \/ ReleaseData(h)
  \/ \E h \in Handle, s \in script.sync : Start(h, s) \/ StartFails(h, s)
  \/ SetIgnore \/ Output \/ Cancel \/ Result
  \/ \E line \in script.lines, cb \in {NoErr, "callback"} : Status(line, cb)

Spec == Init /\ [][Next]_vars

\* What gpgme_data_read and gpgme_data_release_and_get_mem give the program.
Readable(h) == h \in holds /\ ~Blanked(h)
-----------------------------------------------------------------------------
(* The data object of a decryption that gpg declared failed, and no other, *)
(* is void: not one that took its address or its slot in the table since,  *)
(* and not one whose program asked to ignore the missing integrity check.  *)
(* decrypt.c uses "the serial number because the data object may be owned  *)
(* by another thread" and may already be gone.                             *)
BlankedIffFailed == \A h \in live : Blanked(h) <=> h \in tainted

(* The inductive form: while an operation runs, its serial number finds    *)
(* its own data object or, once that is released, none at all.             *)
BlankInv ==
  /\ TableInv
  /\ BlankedIffFailed
  /\ tainted \subseteq live
  /\ plaintext_dserial \in 0..last_dserial
  /\ phase = "running" /\ gone => Found(plaintext_dserial) = {}
  /\ phase = "running" /\ ~gone => plain \in live /\ DSerial(plain) = plaintext_dserial

(* Success is earned: gpg said DECRYPTION_OKAY, never said                 *)
(* DECRYPTION_FAILED, sent no line the handler could not read, and after   *)
(* the last complaint about a passphrase there was a new try.              *)
SuccessIsEarned ==
  phase = "done" /\ err = NoErr =>
    /\ Log("DECRYPTION_OKAY") /\ ~Log("DECRYPTION_FAILED")
    /\ \A i \in 1..Len(log) :
         log[i].code = "MISSING_PASSPHRASE" =>
           \E j \in (i + 1)..Len(log) : log[j].code \in {"BAD_PASSPHRASE", "GOOD_PASSPHRASE"}
    /\ \A i \in 1..Len(log) :
         log[i].code = "BAD_PASSPHRASE" =>
           \E j \in (i + 1)..Len(log) : log[j].code \in {"GET_HIDDEN", "GOOD_PASSPHRASE"}

(* A decryption that failed after the user dismissed the passphrase dialog *)
(* ends with an error about that: decrypt.c finds it "better to return     *)
(* with a cancel error code than the general decryption failed error       *)
(* code".                                                                  *)
CancelIsReported ==
  /\ phase = "done" /\ Log("EOF") /\ Log("DECRYPTION_FAILED")
  /\ \E i \in 1..Len(log) :
       log[i].code = "ERROR" /\ log[i].where = "pkdecrypt_failed" /\ log[i].err = "canceled"
  => err \in {"canceled", "bad_passphrase"}

(* The result of a decryption: a success is earned, a cancel reported.     *)
OutcomeSound == SuccessIsEarned /\ CancelIsReported

(* decrypt.c: "We force an encryption failure if we know that integrity    *)
(* protection is missing" (unless the program asked for it).               *)
IntegrityForced ==
  [][phase = "running" /\ phase' = "done" /\ opd.not_integrity_protected
       /\ ~ignore_mdc_error => err' # NoErr]_vars

(* op-support.c says of FAILURE lines that "for now we ignore failure      *)
(* codes with a location of gpg-exit": such a line does not undo what      *)
(* another FAILURE line reported.                                          *)
FailureIsKept ==
  phase = "done" /\ Log("EOF") /\ err = NoErr =>
    \A i \in 1..Len(log) : log[i].code = "FAILURE" => log[i].where = "gpg-exit"

(* gpgme.texi says of the flag ignore-mdc-error "For failsafe reasons this *)
(* flag is reset after each operation".                                    *)
FlagIsReset ==
  [][phase' = "done" /\ phase = "running" => ~ignore_mdc_error']_vars

(* gpgme.texi: the plaintext of a successful decryption is in the data     *)
(* object, so the program can read it from there.                          *)
SuccessDelivers ==
  phase = "done" /\ err = NoErr /\ ~gone /\ plain \in holds => Readable(plain)
=============================================================================
