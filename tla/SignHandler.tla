---------------------------- MODULE SignHandler ----------------------------
(***************************************************************************)
(* The status handlers of encryption and signing (encrypt.c, sign.c) as    *)
(* functions of the operation's data and the status line, and what         *)
(* gpgme_op_sign_result makes of the lists afterwards.                     *)
(***************************************************************************)
EXTENDS StatusLines

Key == {"a", "b"}
StatusLine ==
  [code : {"EOF", "NO_RECP", "BAD_PASSPHRASE", "GOOD_PASSPHRASE", "MISSING_PASSPHRASE",
           "INQUIRE_MAXLEN", "OTHER"}]
  \cup [code : {"SIG_CREATED"}, key : Key \cup {Malformed}]
  \cup [code : {"KEY_CONSIDERED"}, key : Key \cup {Malformed}, all_expired_or_revoked : BOOLEAN]
  \cup [code : {"INV_RECP", "INV_SGNR"}, key : Key, reason : {"general", "no_pubkey", Malformed}]
  \cup [code : {"FAILURE"}, where : {"gpg-exit", "sign"}, err : {"system", Malformed}]

Errors == {NoErr, "general", "inv_engine", "system", "unusable_pubkey", "unusable_seckey",
           "bad_passphrase", "callback"}
InvalidKeys == Seq([key : Key, reason : {"general", "no_pubkey", "subkeys_exp_or_rev"}])
Considered  == [fpr : BOOLEAN, all_expired_or_revoked : BOOLEAN]

\* The op_data_t of encrypt.c, and that of sign.c with that of passphrase.c.
EncryptData == [invalid_recipients : InvalidKeys, kc : Considered, failure_code : Errors]
SignData ==
  [invalid_signers : InvalidKeys, signatures : Seq(Key), kc : Considered,
   failure_code : Errors, ignore_inv_recp : BOOLEAN, inv_sgnr_seen : BOOLEAN,
   sig_created_seen : BOOLEAN, pp : [no_passphrase : BOOLEAN, bad_passphrase : BOOLEAN]]

NotConsidered == [fpr |-> FALSE, all_expired_or_revoked |-> FALSE]

\* _gpgme_op_encrypt_init_result.
encrypt_init_result ==
  [invalid_recipients |-> <<>>, kc |-> NotConsidered, failure_code |-> NoErr]

\* sign_init_result.
sign_init_result(ignore_inv_recp) ==
  [invalid_signers |-> <<>>, signatures |-> <<>>, kc |-> NotConsidered,
   failure_code |-> NoErr, ignore_inv_recp |-> ignore_inv_recp,
   inv_sgnr_seen |-> FALSE, sig_created_seen |-> FALSE, pp |-> NoPassphraseAsked]
-----------------------------------------------------------------------------
\* _gpgme_parse_key_considered: on failure the fingerprint is unset.
key_considered(o, line) ==
  IF line.key = Malformed THEN Ret([o EXCEPT !.kc.fpr = FALSE], "inv_engine")
  ELSE Ret([o EXCEPT !.kc = [fpr |-> TRUE,
                             all_expired_or_revoked |-> line.all_expired_or_revoked]], NoErr)

\* _gpgme_encrypt_status_handler.
encrypt_status(o, line) ==
  CASE line.code = "FAILURE" -> Ret([o EXCEPT !.failure_code = parse_failure(line)], NoErr)
    [] line.code = "EOF" ->
         Ret(o, IF o.invalid_recipients # <<>> THEN "unusable_pubkey" ELSE o.failure_code)
    [] line.code = "KEY_CONSIDERED" -> key_considered(o, line)
    [] line.code = "INV_RECP" ->
         IF line.reason = Malformed THEN Ret(o, "inv_engine")
         ELSE Ret([o EXCEPT !.invalid_recipients =
                              Append(@, [key |-> line.key, reason |-> parse_inv_recp(line, o.kc)]),
                            !.kc.fpr = FALSE], NoErr)
    [] line.code = "NO_RECP" -> Ret(o, "general")
    [] OTHER -> Ret(o, NoErr)

\* INV_RECP and INV_SGNR in _gpgme_sign_status_handler: the fingerprint of
\* KEY_CONSIDERED is dropped before the reason is looked at.
invalid_signer(o, line) ==
  LET s == [o EXCEPT !.inv_sgnr_seen = @ \/ line.code = "INV_SGNR", !.kc.fpr = FALSE]
  IN IF line.code = "INV_RECP" /\ o.inv_sgnr_seen /\ o.ignore_inv_recp THEN Ret(o, NoErr)
     ELSE IF line.reason = Malformed THEN Ret(s, "inv_engine")
     ELSE Ret([s EXCEPT !.invalid_signers =
                 Append(@, [key |-> line.key, reason |-> parse_inv_recp(line, s.kc)])], NoErr)

\* SIG_CREATED.
sig_created(o, line) ==
  LET s == [o EXCEPT !.sig_created_seen = TRUE]
  IN IF line.key = Malformed THEN Ret(s, "inv_engine")
     ELSE Ret([s EXCEPT !.signatures = Append(@, line.key)], NoErr)

\* Mutant: one signature is enough, whatever was said of other signers.
sign_end_lenient(o, ui) == IF o.sig_created_seen THEN NoErr ELSE "general"

\* EOF; the UI server, when ui is true, does not tell of signatures.
sign_end(o, ui) ==
  IF o.invalid_signers # <<>> THEN "unusable_seckey"
  ELSE IF ~o.sig_created_seen /\ ~ui
  THEN IF o.failure_code # NoErr THEN o.failure_code ELSE "general"
  ELSE NoErr

\* _gpgme_sign_status_handler.
sign_status(o0, line, ui, cb) ==
  LET pw == PassphraseStatus(o0.pp, line, cb)
      o  == [o0 EXCEPT !.pp = pw.opd]
  IN IF pw.err # NoErr THEN Ret(o, pw.err)
     ELSE CASE line.code = "SIG_CREATED" -> sig_created(o, line)
            [] line.code = "KEY_CONSIDERED" -> key_considered(o, line)
            [] line.code \in {"INV_RECP", "INV_SGNR"} -> invalid_signer(o, line)
            [] line.code = "FAILURE" -> Ret([o EXCEPT !.failure_code = parse_failure(line)], NoErr)
            [] line.code = "EOF" -> Ret(o, sign_end(o, ui))
            [] line.code = "INQUIRE_MAXLEN" -> Ret(o, cb)
            [] OTHER -> Ret(o, NoErr)
-----------------------------------------------------------------------------
\* The signatures created are of no use without the missing ones.
AsInvalid(s) ==
  [s EXCEPT !.signatures = <<>>,
            !.invalid_signers =
     @ \o [i \in 1..Len(s.signatures) |-> [key |-> s.signatures[i], reason |-> "general"]]]

\* What gpgme_op_sign_result makes of the lists when n signers are set.
Shown(s, n) ==
  IF n > 0 /\ Len(s.signatures) + Len(s.invalid_signers) # n THEN AsInvalid(s) ELSE s
=============================================================================
