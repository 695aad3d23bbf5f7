---------------------------- MODULE KeyHandlers ----------------------------
(***************************************************************************)
(* The status handlers of the operations on keys (import.c, genkey.c,      *)
(* keysign.c, tofupolicy.c, passwd.c, delete.c, export.c, edit.c) as       *)
(* functions of the operation's data and the status line.                  *)
(***************************************************************************)
EXTENDS StatusLines

Fpr    == {"f1", "f2"}
Where  == {"keyedit.passwd", "keyserver_send", "delete_key.secret", "other", Malformed}
Reason == {NoErr, "canceled", "bad_cert"}
StatusLine ==
  [code : {"EOF", "SUCCESS", "INQUIRE_MAXLEN", "BAD_PASSPHRASE", "GOOD_PASSPHRASE", "OTHER"}]
  \cup [code : {"IMPORT_OK"}, nr : {"1", Malformed}, fpr : Fpr]
  \cup [code : {"IMPORT_PROBLEM"}, nr : {"0", "1", "2", "3", Malformed}, fpr : Fpr]
  \cup [code : {"IMPORT_RES"}, parses : 0..15]
  \cup [code : {"KEY_CREATED"}, kind : {"B", "P", "S", "empty"}, fpr : Fpr \cup {"none"}]
  \cup [code : {"ERROR"}, where : Where, err : Reason]
  \cup [code : {"DELETE_PROBLEM"}, problem : {"0", "1", "2", "3", "4", Malformed}]
  \cup [code : {"FAILURE"}, where : {"gpg-exit", "genkey"}, err : {"system", Malformed}]

\* The op_data_t of each, as _gpgme_op_data_lookup makes it; uidmode is 0
\* except in addrevuid_start.
import_data      == [imports |-> <<>>, counted |-> 0]
genkey_data(uid) == [primary |-> FALSE, sub |-> FALSE, uid |-> FALSE, fpr |-> "none",
                     error_code |-> NoErr, failure_code |-> NoErr, uidmode |-> uid]
error_data       == [error_code |-> NoErr, failure_code |-> NoErr]
passwd_data      == [success_seen |-> FALSE, error_seen |-> FALSE, failure_code |-> NoErr]
export_data      == [err |-> NoErr]
-----------------------------------------------------------------------------
(* Import.                                                                 *)

\* The reason an IMPORT_PROBLEM line gives.
Problem(nr) ==
  CASE nr = "1" -> "bad_cert" [] nr = "2" -> "missing_issuer_cert"
    [] nr = "3" -> "bad_cert_chain" [] OTHER -> "general"

\* parse_import, for a line that parses: an entry with a result or a status.
parse_import(line) ==
  [fpr    |-> line.fpr,
   result |-> IF line.code = "IMPORT_PROBLEM" THEN Problem(line.nr) ELSE NoErr,
   status |-> IF line.code = "IMPORT_PROBLEM" THEN "0" ELSE line.nr]

\* import_status_handler.  Of IMPORT_RES the numbers are stored until one
\* does not parse; the fifteenth may be missing.
import_status(o, line) ==
  CASE line.code \in {"IMPORT_OK", "IMPORT_PROBLEM"} ->
         IF line.nr = Malformed THEN Ret(o, "inv_engine")
         ELSE Ret([o EXCEPT !.imports = Append(@, parse_import(line))], NoErr)
    [] line.code = "IMPORT_RES" ->
         Ret([o EXCEPT !.counted = line.parses], IF line.parses < 14 THEN "inv_engine" ELSE NoErr)
    [] OTHER -> Ret(o, NoErr)
-----------------------------------------------------------------------------
(* Key generation, certification and trust on first use.                   *)

\* ERROR in genkey_status_handler, keysign_status_handler and
\* tofu_policy_status_handler: the first error is kept.
note_error(o, line) ==
  IF line.where = Malformed THEN Ret(o, "inv_engine")
  ELSE Ret([o EXCEPT !.error_code = IF @ = NoErr THEN line.err ELSE @], NoErr)

\* KEY_CREATED.
key_created(o, line) ==
  IF line.kind = "empty" THEN o
  ELSE [o EXCEPT !.primary = @ \/ line.kind \in {"B", "P"}, !.uid = @ \/ line.kind \in {"B", "P"},
                 !.sub = @ \/ line.kind \in {"B", "S"},
                 !.fpr = IF line.fpr = "none" THEN @ ELSE line.fpr]

\* Mutant: a generation that made no key is no failure.
genkey_end_blind(o) ==
  Ret(o, IF o.error_code # NoErr THEN o.error_code ELSE o.failure_code)

\* EOF in genkey_status_handler.
genkey_end(o) ==
  IF o.error_code # NoErr THEN Ret(o, o.error_code)
  ELSE IF o.uidmode = 0 /\ ~o.primary /\ ~o.sub THEN Ret(o, "general")
  ELSE IF o.failure_code # NoErr THEN Ret(o, o.failure_code)
  ELSE Ret([o EXCEPT !.uid = @ \/ o.uidmode = 1], NoErr)

\* genkey_status_handler.
genkey_status(o, line, cb) ==
  CASE line.code = "KEY_CREATED" -> Ret(key_created(o, line), NoErr)
    [] line.code = "ERROR" -> note_error(o, line)
    [] line.code = "FAILURE" -> Ret([o EXCEPT !.failure_code = parse_failure(line)], NoErr)
    [] line.code = "EOF" -> genkey_end(o)
    [] line.code = "INQUIRE_MAXLEN" -> Ret(o, cb)
    [] OTHER -> Ret(o, NoErr)

\* keysign_status_handler and, without INQUIRE_MAXLEN,
\* tofu_policy_status_handler.
keysign_status(o, line, cb) ==
  CASE line.code = "ERROR" -> note_error(o, line)
    [] line.code = "FAILURE" -> Ret([o EXCEPT !.failure_code = parse_failure(line)], NoErr)
    [] line.code = "EOF" -> Ret(o, IF o.error_code # NoErr THEN o.error_code ELSE o.failure_code)
    [] line.code = "INQUIRE_MAXLEN" -> Ret(o, cb)
    [] OTHER -> Ret(o, NoErr)

tofu_policy_status(o, line) == keysign_status(o, line, NoErr)
-----------------------------------------------------------------------------
(* Passphrase, deletion, export.                                           *)

\* parse_error of passwd.c, and passwd_status_handler.
passwd_error(o, line) ==
  IF line.where = Malformed THEN Ret([o EXCEPT !.error_seen = TRUE], "inv_engine")
  ELSE IF line.where = "keyedit.passwd" /\ line.err # NoErr
  THEN Ret([o EXCEPT !.error_seen = TRUE], line.err)
  ELSE Ret(o, NoErr)

passwd_status(o, line, openpgp) ==
  CASE line.code = "ERROR" -> passwd_error(o, line)
    [] line.code = "SUCCESS" -> Ret([o EXCEPT !.success_seen = TRUE], NoErr)
    [] line.code = "FAILURE" -> Ret([o EXCEPT !.failure_code = parse_failure(line)], NoErr)
    [] line.code = "EOF" ->
         Ret(o, IF openpgp /\ ~o.error_seen /\ ~o.success_seen THEN "not_supported"
                ELSE o.failure_code)
    [] OTHER -> Ret(o, NoErr)

\* delete_status_handler, which keeps nothing.
delete_status(line) ==
  CASE line.code = "DELETE_PROBLEM" ->
         (CASE line.problem = Malformed -> "inv_engine"
            [] line.problem = "0" -> "general"
            [] line.problem = "1" -> "no_pubkey"
            [] line.problem = "2" -> "conflict"
            [] line.problem = "3" -> "ambiguous_name"
            [] OTHER -> "general")
    [] line.code = "ERROR" ->
         IF line.where = Malformed THEN "inv_engine"
         ELSE IF line.where = "delete_key.secret" /\ line.err = "canceled" THEN "canceled"
         ELSE NoErr
    [] OTHER -> NoErr

\* export_status_handler.
export_status(o, line) ==
  IF line.code # "ERROR" THEN Ret(o, NoErr)
  ELSE IF line.where = Malformed THEN Ret(o, "inv_engine")
  ELSE IF o.err = NoErr /\ line.where = "keyserver_send" THEN Ret([o EXCEPT !.err = line.err], NoErr)
  ELSE Ret(o, NoErr)

\* gpgme_op_export_keys, after _gpgme_wait_one returned err.
export_keys_result(o, err) == IF err = NoErr THEN o.err ELSE err

\* edit_status_handler: the passphrase handler, then the program's function.
edit_status(pp, line, cb) ==
  LET p == PassphraseStatus(pp, line, cb)
  IN IF p.err # NoErr THEN p ELSE Ret(p.opd, cb)
=============================================================================
