--------------------------- MODULE DecryptHandler ---------------------------
(***************************************************************************)
(* The status handler of a decryption (decrypt.c) as a function of the     *)
(* operation's data and the status line.                                   *)
(***************************************************************************)
EXTENDS StatusLines

\* The lines the handlers tell apart.  EOF is what the engine calls the
\* handler with at the end of the status descriptor.
KeyIds     == {"k1", "k2"}
StatusLine ==
  [code : {"EOF", "DECRYPTION_OKAY", "DECRYPTION_FAILED", "GET_HIDDEN", "INQUIRE_MAXLEN",
           "BAD_PASSPHRASE", "GOOD_PASSPHRASE", "MISSING_PASSPHRASE", "OTHER"}]
  \cup [code : {"FAILURE"}, where : {"gpg-exit", "decrypt"}, err : {"system", Malformed}]
  \cup [code : {"DECRYPTION_INFO"}, integrity : {"none", "mdc", "aead", Malformed}]
  \cup [code : {"ERROR"}, where : {"pkdecrypt_failed", "decrypt.algorithm",
                                   "nomdc_with_legacy_cipher", Malformed},
        err : {NoErr, "canceled", "bad_passphrase", "unsupported"}]
  \cup [code : {"ENC_TO", "NO_SECKEY"}, keyid : KeyIds \cup {Malformed}]

Errors == {NoErr, "canceled", "bad_passphrase", "unsupported", "system", "inv_engine",
           "decrypt_failed", "no_seckey", "no_data", "callback"}

op_data_t ==
  [okay : BOOLEAN, failed : BOOLEAN, any_no_seckey : BOOLEAN,
   not_integrity_protected : BOOLEAN, failure_code : Errors, pkdecrypt_failed : Errors,
   first_status_error : Errors, recipients : Seq([keyid : KeyIds, no_seckey : BOOLEAN]),
   pp : [no_passphrase : BOOLEAN, bad_passphrase : BOOLEAN]]

\* What _gpgme_op_decrypt_init_result sets up.
init_result ==
  [okay |-> FALSE, failed |-> FALSE, any_no_seckey |-> FALSE,
   not_integrity_protected |-> FALSE, failure_code |-> NoErr, pkdecrypt_failed |-> NoErr,
   first_status_error |-> NoErr, recipients |-> <<>>,
   pp |-> NoPassphraseAsked]
-----------------------------------------------------------------------------
(* The status handler.                                                     *)

\* parse_status_error.
parse_status_error(o, line) ==
  LET special ==
        CASE line.where = "pkdecrypt_failed" /\ line.err \in {"canceled", "bad_passphrase"} ->
               [o EXCEPT !.pkdecrypt_failed = line.err]
          [] line.where = "nomdc_with_legacy_cipher" ->
               [o EXCEPT !.not_integrity_protected = TRUE]
          [] OTHER -> o
  IN IF line.where = Malformed THEN Ret(o, "inv_engine")
     ELSE Ret(IF o.first_status_error = NoErr
              THEN [special EXCEPT !.first_status_error = line.err] ELSE special, NoErr)

\* parse_enc_to and the appending to the list of recipients.
parse_enc_to(o, line) ==
  IF line.keyid = Malformed THEN Ret(o, "inv_engine")
  ELSE Ret([o EXCEPT !.recipients =
              Append(@, [keyid |-> line.keyid, no_seckey |-> FALSE])], NoErr)

\* NO_SECKEY marks the first recipient with that key ID.
no_seckey(o, line) ==
  LET same == {i \in 1..Len(o.recipients) : o.recipients[i].keyid = line.keyid}
  IN IF same = {} THEN Ret(o, "inv_engine")
     ELSE LET i == CHOOSE i \in same : \A j \in same : i <= j
          IN Ret([o EXCEPT !.recipients[i].no_seckey = TRUE, !.any_no_seckey = TRUE], NoErr)

\* parse_decryption_info.
parse_decryption_info(o, line) ==
  IF line.integrity = Malformed THEN Ret(o, "inv_engine")
  ELSE Ret([o EXCEPT !.not_integrity_protected = @ \/ line.integrity = "none"], NoErr)

\* Mutant: a failure without a known cause is not an error.
EofForgiving(o, ignore) ==
  IF o.failed /\ o.first_status_error # NoErr THEN o.first_status_error
  ELSE IF ~o.okay THEN "no_data" ELSE o.failure_code

\* The error an operation ends with at EOF.
EofError(o, ignore) ==
  IF o.failed
  THEN IF o.pkdecrypt_failed # NoErr THEN o.pkdecrypt_failed
       ELSE IF o.not_integrity_protected /\ ~ignore THEN "decrypt_failed"
       ELSE IF o.first_status_error # NoErr THEN o.first_status_error
       ELSE IF o.any_no_seckey THEN "no_seckey"
       ELSE "decrypt_failed"
  ELSE IF ~o.okay THEN "no_data"
  ELSE o.failure_code

\* _gpgme_decrypt_status_handler, and the command handler for GET_HIDDEN; cb
\* is what the program's callback returns where one is called.
decrypt_status(o0, line, ignore, cb) ==
  LET pw == PassphraseStatus(o0.pp, line, cb)
      o  == [o0 EXCEPT !.pp = pw.opd]
  IN IF pw.err # NoErr THEN Ret(o, pw.err)
     ELSE CASE line.code = "GET_HIDDEN" ->
                 LET c == PassphraseCommand(o.pp, cb) IN Ret([o EXCEPT !.pp = c.opd], c.err)
            [] line.code = "FAILURE" ->
                 Ret([o EXCEPT !.failure_code = parse_failure(line)], NoErr)
            [] line.code = "EOF" -> Ret(o, EofError(o, ignore))
            [] line.code = "DECRYPTION_INFO" -> parse_decryption_info(o, line)
            [] line.code = "DECRYPTION_OKAY" -> Ret([o EXCEPT !.okay = TRUE], NoErr)
            [] line.code = "DECRYPTION_FAILED" -> Ret([o EXCEPT !.failed = TRUE], NoErr)
            [] line.code = "ERROR" -> parse_status_error(o, line)
            [] line.code = "ENC_TO" -> parse_enc_to(o, line)
            [] line.code = "NO_SECKEY" -> no_seckey(o, line)
            [] line.code = "INQUIRE_MAXLEN" -> Ret(o, cb)
            [] OTHER -> Ret(o, NoErr)

\* Where the program's callbacks are asked.
Asks(line) == line.code \in {"ERROR", "FAILURE", "GET_HIDDEN", "INQUIRE_MAXLEN"}
=============================================================================
