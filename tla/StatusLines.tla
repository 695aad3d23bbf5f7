---------------------------- MODULE StatusLines ----------------------------
(***************************************************************************)
(* What the status handlers of all operations share: the passphrase        *)
(* handlers (passphrase.c) and the parsers of op-support.c.                *)
(*                                                                         *)
(* A status line is a record with the field "code" and the fields of its   *)
(* arguments that some handler tells apart; an argument string that does   *)
(* not parse is the argument value Malformed.  Error codes are strings and *)
(* NoErr is GPG_ERR_NO_ERROR.                                              *)
(***************************************************************************)
EXTENDS Naturals, Sequences

NoErr     == "no_error"
Malformed == "malformed"

\* A handler maps the operation's data and a status line to the new data and
\* the error code it returns.
Ret(opd, err) == [opd |-> opd, err |-> err]
-----------------------------------------------------------------------------
(* The passphrase handlers, called first by every handler of an operation  *)
(* that may need a secret key.                                             *)

NoPassphraseAsked == [no_passphrase |-> FALSE, bad_passphrase |-> FALSE]

\* _gpgme_passphrase_status_handler; cb is what the program's status callback
\* returns, if there is one.
PassphraseStatus(pp, line, cb) ==
  CASE line.code = "BAD_PASSPHRASE" ->
         Ret([no_passphrase |-> FALSE, bad_passphrase |-> TRUE], NoErr)
    [] line.code = "GOOD_PASSPHRASE" -> Ret(NoPassphraseAsked, NoErr)
    [] line.code = "MISSING_PASSPHRASE" -> Ret([pp EXCEPT !.no_passphrase = TRUE], NoErr)
    [] line.code = "EOF" ->
         Ret(pp, IF pp.no_passphrase \/ pp.bad_passphrase THEN "bad_passphrase" ELSE NoErr)
    [] line.code \in {"ERROR", "FAILURE"} -> Ret(pp, cb)
    [] OTHER -> Ret(pp, NoErr)

\* _gpgme_passphrase_command_handler for GET_HIDDEN passphrase.enter: the
\* passphrase callback runs, and the answer is taken to be good until gpg
\* says otherwise.
PassphraseCommand(pp, cb) == Ret([pp EXCEPT !.bad_passphrase = FALSE], cb)
-----------------------------------------------------------------------------
(* Parsers.                                                                *)

\* _gpgme_parse_failure.  The location and the error code of a FAILURE line;
\* the line keeps only its location afterwards, which matters to the next
\* handler that is shown the same line.
parse_failure(line) ==
  IF line.where = "gpg-exit" THEN NoErr
  ELSE IF line.err = Malformed THEN "inv_engine"
  ELSE line.err

Located(line) ==
  IF line.code = "FAILURE" /\ line.where # "gpg-exit"
  THEN [line EXCEPT !.err = Malformed] ELSE line

\* _gpgme_parse_inv_recp: the reason recorded for an invalid key, where the
\* last KEY_CONSIDERED line refines the unspecific reason 0.
parse_inv_recp(line, kc) ==
  IF line.reason = "general" /\ kc.fpr /\ kc.all_expired_or_revoked
  THEN "subkeys_exp_or_rev" ELSE line.reason
=============================================================================
