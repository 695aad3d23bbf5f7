---------------------------- MODULE MCOperations ----------------------------
(***************************************************************************)
(* An instance of Operations for TLC.                                      *)
(***************************************************************************)
EXTENDS Operations

\* The lines that make, judge and end signatures.
ListLines ==
  {line \in V!StatusLine :
     /\ line.code \in {"EOF", "NEWSIG", "GOODSIG", "BADSIG", "TRUST_FULLY", "ERROR", "NODATA",
                       "FAILURE", "PLAINTEXT"}
     /\ line.code = "TRUST_FULLY" => line.reason = NoErr /\ ~line.chain
     /\ line.code = "FAILURE" => line.where = "verify"
     /\ line.code = "ERROR" =>
          \/ line.where = "verify.findkey" /\ line.err = "no_pubkey"
          \/ line.where = "verify.keyusage" /\ line.err = "wrong_key_usage"
          \/ line.where \in {"other", "proc_pkt.plaintext"} /\ line.err = "bad_data"}

\* Every verdict with every trust.
SummaryLines ==
  {line \in V!StatusLine :
     /\ line.code \in {"EOF", "ERROR", "UNEXPECTED", "VALIDSIG"} \cup V!Verdicts \cup V!Trusts
     /\ line.code \in V!Trusts => ~line.chain
     /\ line.code = "ERROR" => line.where = Malformed \/ line.err = "wrong_key_usage"}

\* The details of a signature.
DetailLines ==
  {line \in V!StatusLine :
     line.code \in {"EOF", "NEWSIG", "TOFU_USER", "TOFU_STATS", "POLICY_URL", "PKA_TRUST",
                    "NOTATION_NAME", "NOTATION_DATA", "NOTATION_FLAGS"}}

\* The lines that both handlers look at, and some of each.
BothLines ==
  {line \in D!StatusLine :
     line.code \in {"EOF", "DECRYPTION_OKAY", "DECRYPTION_FAILED", "FAILURE", "BAD_PASSPHRASE"}}
  \cup {line \in V!StatusLine : line.code \in {"NEWSIG", "GOODSIG", "NODATA", "FAILURE", "PLAINTEXT"}}
  \cup [code : {"ERROR"}, where : {"pkdecrypt_failed", "verify.findkey", "proc_pkt.plaintext", Malformed},
        err : {"canceled", "bad_data"}]

\* Encryption and signing: one of each line and the malformed ones.
SignLines ==
  {line \in S!StatusLine :
     /\ line.code = "SIG_CREATED" => line.key # "b"
     /\ line.code = "KEY_CONSIDERED" => line.key # "b" /\ line.all_expired_or_revoked
     /\ line.code \in {"INV_RECP", "INV_SGNR"} => line.key = "a" /\ line.reason # "no_pubkey"}

\* What makes the result of a signing operation.
SignerLines ==
  {line \in S!StatusLine :
     /\ line.code \in {"EOF", "SIG_CREATED", "INV_SGNR", "INV_RECP"}
     /\ line.code \in {"INV_RECP", "INV_SGNR"} => line.reason # Malformed}

\* Operations on keys.
ImportLines == {line \in K!StatusLine : line.code \in {"EOF", "IMPORT_OK", "IMPORT_PROBLEM", "IMPORT_RES"}
                                       /\ (line.code = "IMPORT_RES" => line.parses > 12)}
CreateLines == {line \in K!StatusLine : line.code \in {"EOF", "KEY_CREATED", "ERROR", "FAILURE", "INQUIRE_MAXLEN"}
                                       /\ (line.code = "ERROR" => line.where \in {"other", Malformed})
                                       /\ (line.code = "KEY_CREATED" => line.fpr # "f2")}
ErrorLines  == {line \in K!StatusLine : line.code \in {"EOF", "SUCCESS", "ERROR", "DELETE_PROBLEM", "FAILURE",
                                                       "BAD_PASSPHRASE", "GOOD_PASSPHRASE"}}

Script(ops, lines, max, n) ==
  [ops |-> ops, lines |-> lines, max |-> max, signers |-> n]
Signing == {"sign", "sign_cms", "encrypt_sign", "encrypt_sign_sym"}

MCScripts ==
  {Script({"verify"}, ListLines, 5, {0}), Script({"verify"}, SummaryLines, 4, {0}),
   Script({"verify"}, DetailLines, 5, {0}), Script({"decrypt_verify"}, BothLines, 3, {0}),
   Script(Signing \cup {"encrypt", "encrypt_sym", "sign_ui"}, SignLines, 3, {0}),
   Script(Signing, SignerLines, 3, 0..2),
   Script({"import"}, ImportLines, 3, {0}),
   Script({"genkey", "adduid", "revuid"}, CreateLines, 3, {0}),
   Script({"keysign", "tofu_policy", "passwd", "passwd_cms", "delete", "export", "export_keys",
           "edit"}, ErrorLines, 2, {0})}
=============================================================================
