--------------------------- MODULE VerifyHandler ---------------------------
(***************************************************************************)
(* The status handler of a verification (verify.c) as a function of the    *)
(* operation's data and the status line.  The list of signatures is a      *)
(* sequence and current_sig, when not NULL, is its last element.           *)
(***************************************************************************)
EXTENDS StatusLines

Verdicts == {"GOODSIG", "EXPSIG", "EXPKEYSIG", "BADSIG", "REVKEYSIG", "ERRSIG"}
Trusts   == {"TRUST_UNDEFINED", "TRUST_NEVER", "TRUST_MARGINAL", "TRUST_FULLY"}
Reasons  == {NoErr, "crl_too_old", "cert_revoked"}
StatusLine ==
  [code : {"EOF", "NEWSIG", "NODATA", "UNEXPECTED", "PKA_TRUST", "PLAINTEXT", "POLICY_URL",
           "NOTATION_NAME", "NOTATION_DATA", "TOFU_STATS", "OTHER"} \cup (Verdicts \ {"ERRSIG"})]
  \cup [code : {"ERRSIG"}, err : {"no_pubkey", Malformed}, timestamp : BOOLEAN]
  \cup [code : {"VALIDSIG"}, fpr : BOOLEAN, rest : BOOLEAN]
  \cup [code : {"NOTATION_FLAGS"}, critical : BOOLEAN, human : BOOLEAN]
  \cup [code : Trusts, reason : Reasons, chain : BOOLEAN]
  \cup [code : {"TOFU_USER"}, fpr : {"f1", "f2"}]
  \cup [code : {"ERROR"}, where : {"verify.findkey", "verify.keyusage", "proc_pkt.plaintext",
                                   "other", Malformed},
        err : {"no_pubkey", "wrong_key_usage", "bad_data"}]
  \cup [code : {"FAILURE"}, where : {"gpg-exit", "verify"}, err : {"system", Malformed}]

Statuses == {NoErr, "sig_expired", "key_expired", "bad_signature", "cert_revoked",
             "no_pubkey", "no_data", "wrong_key_usage", "bad_data", "general", "canceled"}

\* A signature as calloc and memset leave it.
NewSig ==
  [status |-> NoErr, verdict |-> "none", validity |-> "TRUST_UNDEFINED",
   validity_reason |-> NoErr, chain_model |-> FALSE, wrong_key_usage |-> FALSE,
   pka |-> FALSE, notations |-> <<>>, tofu_key |-> "none", tofu |-> <<>>, summary |-> {}]

\* The op_data_t: fault is "assert" after a failed assertion.
NewOpd ==
  [signatures |-> <<>>, did_prepare_new_sig |-> FALSE, only_newsig_seen |-> FALSE,
   plaintext_seen |-> FALSE, conflict_user_seen |-> FALSE, failure_code |-> NoErr,
   fault |-> "none"]
-----------------------------------------------------------------------------
(* calc_sig_summary.                                                       *)

Colour(sig) ==
  LET intact == sig.status \in {NoErr, "sig_expired", "key_expired"}
  IN CASE sig.validity = "TRUST_FULLY" -> IF intact THEN {"GREEN"} ELSE {}
       [] sig.validity = "TRUST_NEVER" -> IF intact THEN {"RED"} ELSE {}
       [] OTHER -> IF sig.status = "bad_signature" THEN {"RED"} ELSE {}

FromStatus(sig) ==
  CASE sig.status = "sig_expired"  -> {"SIG_EXPIRED"}
    [] sig.status = "key_expired"  -> {"KEY_EXPIRED"}
    [] sig.status = "no_pubkey"    -> {"KEY_MISSING"}
    [] sig.status = "cert_revoked" -> {"KEY_REVOKED"}
    [] sig.status \in {"bad_signature", NoErr} -> {}
    [] OTHER -> {"SYS_ERROR"}

FromReason(sig) ==
  CASE sig.validity_reason = "crl_too_old" /\ sig.validity = "TRUST_UNDEFINED" -> {"CRL_TOO_OLD"}
    [] sig.validity_reason = "cert_revoked" -> {"KEY_REVOKED"}
    [] OTHER -> {}

\* Mutant: the wrong use of a key does not count.
summary_without_usage(sig) ==
  LET sum == Colour(sig) \cup FromStatus(sig) \cup FromReason(sig)
  IN IF sum = {"GREEN"} THEN {"GREEN", "VALID"} ELSE sum

calc_sig_summary(sig) ==
  LET sum == Colour(sig) \cup FromStatus(sig) \cup FromReason(sig)
             \cup (IF sig.wrong_key_usage THEN {"BAD_POLICY"} ELSE {})
  IN IF sum = {"GREEN"} THEN {"GREEN", "VALID"} ELSE sum

\* gpgme_op_verify_result: an empty summary is filled in for two errors.
verify_result(sig) ==
  IF sig.summary # {} THEN sig.summary
  ELSE CASE sig.status = "key_expired" -> {"KEY_EXPIRED"}
         [] sig.status = "no_pubkey" -> {"KEY_MISSING"}
         [] OTHER -> {}
-----------------------------------------------------------------------------
(* The list of signatures.                                                 *)

Current(o) == o.signatures # <<>>
Last(o)    == o.signatures[Len(o.signatures)]

\* The current signature is replaced by sig, and something was seen of it.
SetLast(o, sig) ==
  [o EXCEPT !.signatures[Len(o.signatures)] = sig, !.only_newsig_seen = FALSE]

Summed(o) == [o EXCEPT !.signatures[Len(o.signatures)].summary = calc_sig_summary(Last(o))]

\* Mutant: a signature is used again whatever was seen of it.
prepare_over_last(o) ==
  IF Current(o)
  THEN [SetLast(o, NewSig) EXCEPT !.did_prepare_new_sig = TRUE]
  ELSE [o EXCEPT !.signatures = Append(@, NewSig), !.did_prepare_new_sig = TRUE,
                 !.only_newsig_seen = FALSE]

\* prepare_new_sig: a signature of which only NEWSIG was seen is used again;
\* the assertion says that it is the first one.
prepare_new_sig(o) ==
  IF o.only_newsig_seen /\ Current(o)
  THEN [SetLast(o, NewSig) EXCEPT
          !.did_prepare_new_sig = TRUE,
          !.fault = IF Len(o.signatures) # 1 THEN "assert" ELSE @]
  ELSE [o EXCEPT !.signatures = Append(@, NewSig), !.did_prepare_new_sig = TRUE,
                 !.only_newsig_seen = FALSE]

\* NEWSIG.
new_sig(o) ==
  LET p == prepare_new_sig(IF Current(o) THEN Summed(o) ELSE o)
  IN Ret([p EXCEPT !.only_newsig_seen = TRUE, !.conflict_user_seen = FALSE], NoErr)

\* parse_new_sig, with the status a verdict stands for.
StatusOf(line) ==
  CASE line.code = "GOODSIG" -> NoErr
    [] line.code = "EXPSIG" -> "sig_expired"
    [] line.code = "EXPKEYSIG" -> "key_expired"
    [] line.code = "BADSIG" -> "bad_signature"
    [] line.code = "REVKEYSIG" -> "cert_revoked"
    [] line.code = "ERRSIG" ->
         IF ~line.timestamp THEN NoErr ELSE IF line.err = Malformed THEN "general" ELSE line.err

\* Only an ERRSIG line with a bad timestamp is refused.
BadVerdict(line) == line.code = "ERRSIG" /\ ~line.timestamp

parse_new_sig(o, line) ==
  LET s == IF Current(o) /\ ~o.did_prepare_new_sig THEN Summed(o) ELSE o
      n == [s EXCEPT !.only_newsig_seen = FALSE]
      p == IF n.did_prepare_new_sig THEN n ELSE prepare_new_sig(n)
      sig == [Last(p) EXCEPT !.status = StatusOf(line), !.verdict = line.code]
  IN Ret([SetLast(p, sig) EXCEPT !.did_prepare_new_sig = FALSE],
         IF BadVerdict(line) THEN "inv_engine" ELSE NoErr)
-----------------------------------------------------------------------------
(* Lines about the current signature.  Each parser maps the signature and  *)
(* the line to the new signature and an error.                             *)

\* parse_valid_sig: the fingerprint is required, the rest must parse.
parse_valid_sig(sig, line) ==
  Ret(sig, IF ~line.fpr THEN "general" ELSE IF ~line.rest THEN "inv_engine" ELSE NoErr)

\* parse_notation.  human and critical are the bit fields, flag_human and
\* flag_critical the bits of the flags word.
NewNotation(named) ==
  [name |-> named, value |-> ~named, flag_human |-> named, human |-> named,
   flag_critical |-> FALSE, critical |-> FALSE]

notation_name(sig, line) ==
  IF \E i \in 1..Len(sig.notations) : ~sig.notations[i].value THEN Ret(sig, "inv_engine")
  ELSE Ret([sig EXCEPT !.notations = Append(@, NewNotation(line.code = "NOTATION_NAME"))], NoErr)

notation_rest(sig, line) ==
  LET n == Len(sig.notations)
  IN IF n = 0 \/ ~sig.notations[n].name THEN Ret(sig, "inv_engine")
     ELSE IF line.code = "NOTATION_DATA" THEN Ret([sig EXCEPT !.notations[n].value = TRUE], NoErr)
     ELSE Ret([sig EXCEPT !.notations[n] =
                 [@ EXCEPT !.flag_critical = line.critical, !.critical = @ \/ line.critical,
                           !.flag_human = line.human, !.human = @ \/ line.human]], NoErr)

\* parse_trust.  The arguments are cut at the first blank, so that the word
\* "chain" after the reason is never seen.
parse_trust(sig, line) ==
  Ret([sig EXCEPT !.validity = line.code, !.validity_reason = line.reason,
                  !.chain_model = FALSE], NoErr)

\* PKA_TRUST_GOOD and PKA_TRUST_BAD: at most one for a signature.
pka_trust(sig, line) ==
  IF sig.pka THEN Ret(sig, "inv_engine") ELSE Ret([sig EXCEPT !.pka = TRUE], NoErr)

\* parse_tofu_user: another user ID of the key, or GPG_ERR_DUP_VALUE for a
\* conflicting key.
parse_tofu_user(sig, line) ==
  IF sig.tofu_key \notin {"none", line.fpr} THEN Ret(sig, "dup_value")
  ELSE Ret([sig EXCEPT !.tofu_key = line.fpr, !.tofu = Append(@, "empty")], NoErr)

\* parse_tofu_stats: for the last user ID, once.
parse_tofu_stats(sig, line) ==
  LET n == Len(sig.tofu)
  IN IF n = 0 THEN Ret(sig, "inv_engine")
     ELSE IF sig.tofu[n] = "stats" THEN Ret(sig, "inv_engine")
     ELSE Ret([sig EXCEPT !.tofu[n] = "stats"], NoErr)

\* parse_error.
parse_error(sig, line) ==
  CASE line.where = Malformed -> Ret(sig, "inv_engine")
    [] line.where = "proc_pkt.plaintext" /\ line.err = "bad_data" -> Ret(sig, "bad_data")
    [] line.where = "verify.findkey" -> Ret([sig EXCEPT !.status = line.err], NoErr)
    [] line.where = "verify.keyusage" /\ line.err = "wrong_key_usage" ->
         Ret([sig EXCEPT !.wrong_key_usage = TRUE], NoErr)
    [] OTHER -> Ret(sig, NoErr)

\* What a line about the current signature does to it.
About(sig, line) ==
  CASE line.code \in {"NODATA", "UNEXPECTED"} -> Ret([sig EXCEPT !.status = "no_data"], NoErr)
    [] line.code \in {"NOTATION_NAME", "POLICY_URL"} -> notation_name(sig, line)
    [] line.code \in {"NOTATION_DATA", "NOTATION_FLAGS"} -> notation_rest(sig, line)
    [] line.code \in Trusts -> parse_trust(sig, line)
    [] line.code = "PKA_TRUST" -> pka_trust(sig, line)
    [] line.code = "TOFU_USER" -> parse_tofu_user(sig, line)
    [] line.code = "TOFU_STATS" -> parse_tofu_stats(sig, line)
    [] line.code = "ERROR" -> parse_error(sig, line)
    [] line.code = "VALIDSIG" -> parse_valid_sig(sig, line)

\* The lines of that kind, and the error when there is no signature yet.
Details == {"VALIDSIG", "NODATA", "UNEXPECTED", "NOTATION_NAME", "POLICY_URL",
            "NOTATION_DATA", "NOTATION_FLAGS", "PKA_TRUST", "TOFU_USER", "TOFU_STATS",
            "ERROR"} \cup Trusts

Homeless(line) ==
  CASE line.code = "NODATA" -> "no_data"
    [] line.code = "UNEXPECTED" -> "general"
    [] line.code = "ERROR" /\ line.where \notin {Malformed, "proc_pkt.plaintext"} -> NoErr
    [] line.code = "ERROR" /\ line.where = "proc_pkt.plaintext" ->
         IF line.err = "bad_data" THEN "bad_data" ELSE NoErr
    [] OTHER -> "inv_engine"

detail(o, line) ==
  LET seen == [o EXCEPT !.only_newsig_seen = FALSE]
      r    == About(Last(o), line)
  IN IF line.code = "TOFU_STATS" /\ o.conflict_user_seen THEN Ret(seen, NoErr)
     ELSE IF ~Current(o) THEN Ret(seen, Homeless(line))
     ELSE IF line.code = "TOFU_USER"
     THEN Ret([SetLast(o, r.opd) EXCEPT !.conflict_user_seen = (r.err = "dup_value")],
              IF r.err = "dup_value" THEN NoErr ELSE r.err)
     ELSE Ret(SetLast(o, r.opd), r.err)

\* EOF: the last signature is summed up, or removed if nothing but its
\* NEWSIG was seen.
end_of_file(o) ==
  LET s == IF Current(o) /\ ~o.did_prepare_new_sig THEN Summed(o) ELSE o
      r == IF o.only_newsig_seen /\ Current(o)
           THEN [s EXCEPT !.signatures = SubSeq(@, 1, Len(@) - 1)] ELSE s
  IN Ret([r EXCEPT !.only_newsig_seen = FALSE], o.failure_code)

\* _gpgme_verify_status_handler.
verify_status(o, line) ==
  CASE line.code = "NEWSIG" -> new_sig(o)
    [] line.code \in Verdicts -> parse_new_sig(o, line)
    [] line.code \in Details -> detail(o, line)
    [] line.code = "FAILURE" -> Ret([o EXCEPT !.failure_code = parse_failure(line)], NoErr)
    [] line.code = "EOF" -> end_of_file(o)
    [] line.code = "PLAINTEXT" ->
         Ret([o EXCEPT !.plaintext_seen = TRUE], IF o.plaintext_seen THEN "bad_data" ELSE NoErr)
    [] OTHER -> Ret(o, NoErr)
=============================================================================
