----------------------------- MODULE Operations -----------------------------
(***************************************************************************)
(* An operation from its start to its result, for the operations whose     *)
(* result is made by status handlers: verify.c, decrypt-verify.c,          *)
(* encrypt.c, sign.c, encrypt-sign.c, import.c, genkey.c, keysign.c,       *)
(* tofupolicy.c, passwd.c, delete.c, export.c, edit.c.  The engine sends   *)
(* status lines, the handlers build the result, alone or one after the     *)
(* other on the same buffer, which the first may have cut into pieces, and *)
(* the program asks for the result afterwards.                             *)
(***************************************************************************)
EXTENDS StatusLines, FiniteSets

V == INSTANCE VerifyHandler
D == INSTANCE DecryptHandler
S == INSTANCE SignHandler
K == INSTANCE KeyHandlers

CONSTANT
  Scripts   \* what is explored: the operations the program may start, the status
            \* lines the engine may send, how many of them before the end of file
            \* (a bound), and the numbers of signers the program may have set

\* The data that the handlers of an operation keep in the context, by the
\* operation.
Keeps ==
  [verify |-> {"verify"}, decrypt_verify |-> {"decrypt", "verify"},
   encrypt |-> {"encrypt"}, encrypt_sym |-> {"encrypt", "passphrase"},
   sign |-> {"sign"}, sign_cms |-> {"sign"}, sign_ui |-> {"sign"},
   encrypt_sign |-> {"encrypt", "sign"}, encrypt_sign_sym |-> {"encrypt", "sign"},
   import |-> {"import"}, genkey |-> {"genkey"}, adduid |-> {"genkey"}, revuid |-> {"genkey"},
   keysign |-> {"error"}, tofu_policy |-> {"error"}, passwd |-> {"passwd"},
   passwd_cms |-> {"passwd"}, delete |-> {}, export |-> {"export"}, export_keys |-> {"export"},
   edit |-> {"passphrase"}]

ASSUME OperationsAssumption ==
  \A s \in Scripts :
    /\ s.ops \subseteq DOMAIN Keeps
    /\ \A line \in s.lines : "code" \in DOMAIN line
    /\ s.max \in Nat /\ s.signers \subseteq Nat

VARIABLES
  script,   \* the member of Scripts that is played
  op,       \* the operation
  opd,      \* the data kept in the context
  phase,    \* "running", "done" or "asked", after gpgme_op_sign_result
  err,      \* the result of the operation
  signers,  \* gpgme_signers_count
  log,      \* the status lines so far
  alone,    \* opd, had each of two handlers a buffer of its own
  due       \* and the result in that case

vars == <<script, op, opd, phase, err, signers, log, alone, due>>

Errors == D!Errors \cup S!Errors \cup
          {"bad_data", "bad_cert", "not_supported", "no_pubkey", "conflict", "ambiguous_name"}

TypeOK ==
  /\ script \in Scripts /\ op \in script.ops
  /\ DOMAIN opd = Keeps[op] /\ DOMAIN alone = Keeps[op]
  /\ "encrypt" \in Keeps[op] => opd.encrypt \in S!EncryptData
  /\ "sign" \in Keeps[op] => opd.sign \in S!SignData
  /\ "verify" \in Keeps[op] =>
       \A i \in 1..Len(opd.verify.signatures) :
         /\ opd.verify.signatures[i].status \in V!Statuses
         /\ opd.verify.signatures[i].verdict \in V!Verdicts \cup {"none"}
         /\ opd.verify.signatures[i].validity \in V!Trusts
  /\ phase \in {"running", "done", "asked"}
  /\ {err, due} \subseteq Errors
  /\ signers \in script.signers
  /\ log \in Seq(script.lines)

\* What the function that starts operation o sets up as part p.
Fresh(o, p) ==
  CASE p = "verify" -> V!NewOpd
    [] p = "decrypt" -> D!init_result
    [] p = "encrypt" -> S!encrypt_init_result
    [] p = "sign" -> S!sign_init_result(o = "sign_cms")
    [] p = "passphrase" -> NoPassphraseAsked
    [] p = "import" -> K!import_data
    [] p = "genkey" -> K!genkey_data(IF o = "adduid" THEN 1 ELSE IF o = "revuid" THEN 2 ELSE 0)
    [] p = "error" -> K!error_data
    [] p = "passwd" -> K!passwd_data
    [] p = "export" -> K!export_data

Init ==
  /\ script \in Scripts /\ op \in script.ops
  /\ opd = [p \in Keeps[op] |-> Fresh(op, p)] /\ alone = opd
  /\ phase = "running" /\ err = NoErr /\ due = NoErr
  /\ signers \in script.signers
  /\ log = <<>>
-----------------------------------------------------------------------------
(* The handlers.                                                           *)

\* A handler with part p of the data.
With(o, p, r) == Ret([o EXCEPT ![p] = r.opd], r.err)

\* One handler with part p, then, unless there was an error, one with part q.
Then(o, p, r, q, s) ==
  IF r.err # NoErr THEN With(o, p, r) ELSE Ret([o EXCEPT ![p] = r.opd, ![q] = s.opd], s.err)

\* Mutant: the signatures are looked at first.
chain_swapped(o, line, seen, cb) ==
  Then(o, "verify", V!verify_status(o.verify, line),
       "decrypt", D!decrypt_status(o.decrypt, seen, FALSE, cb))

\* decrypt_verify_status_handler; seen is the line as the handler of the
\* decryption leaves it.
chain(o, line, seen, cb) ==
  Then(o, "decrypt", D!decrypt_status(o.decrypt, line, FALSE, cb),
       "verify", V!verify_status(o.verify, seen))

\* encrypt_sign_status_handler: the handler of sign.c sees the line as that
\* of encrypt.c leaves it.
encrypt_sign_status(o, line, cb) ==
  Then(o, "encrypt", S!encrypt_status(o.encrypt, line),
       "sign", S!sign_status(o.sign, Located(line), FALSE, cb))

\* encrypt_sym_status_handler of encrypt.c has the passphrase handler only;
\* that of encrypt-sign.c calls it after the one of sign.c.
encrypt_sign_sym_status(o, line, cb) ==
  LET s == S!sign_status(o.sign, line, FALSE, cb)
      p == PassphraseStatus(s.opd.pp, Located(line), cb)
  IN IF s.err # NoErr THEN With(o, "sign", s)
     ELSE Ret([o EXCEPT !.sign = [s.opd EXCEPT !.pp = p.opd]], p.err)

\* The handler of the operation.
status_handler(o, line, cb) ==
  CASE op = "verify" -> With(o, "verify", V!verify_status(o.verify, line))
    [] op = "decrypt_verify" -> chain(o, line, Located(line), cb)
    [] op = "encrypt" -> With(o, "encrypt", S!encrypt_status(o.encrypt, line))
    [] op = "encrypt_sym" -> With(o, "passphrase", PassphraseStatus(o.passphrase, line, cb))
    [] op = "encrypt_sign" -> encrypt_sign_status(o, line, cb)
    [] op = "encrypt_sign_sym" -> encrypt_sign_sym_status(o, line, cb)
    [] op \in {"sign", "sign_cms", "sign_ui"} ->
         With(o, "sign", S!sign_status(o.sign, line, op = "sign_ui", cb))
    [] op = "import" -> With(o, "import", K!import_status(o.import, line))
    [] op \in {"genkey", "adduid", "revuid"} ->
         With(o, "genkey", K!genkey_status(o.genkey, line, cb))
    [] op = "keysign" -> With(o, "error", K!keysign_status(o.error, line, cb))
    [] op = "tofu_policy" -> With(o, "error", K!tofu_policy_status(o.error, line))
    [] op \in {"passwd", "passwd_cms"} ->
         With(o, "passwd", K!passwd_status(o.passwd, line, op = "passwd"))
    [] op = "delete" -> Ret(o, K!delete_status(line))
    [] op \in {"export", "export_keys"} -> With(o, "export", K!export_status(o.export, line))
    [] op = "edit" -> With(o, "passphrase", K!edit_status(o.passphrase, line, cb))

\* The two handlers of decrypt-verify.c, each with the line as it was sent.
separately(o, line, cb) ==
  LET d == D!decrypt_status(o.decrypt, line, FALSE, cb)
      v == V!verify_status(o.verify, line)
  IN IF op = "decrypt_verify"
     THEN Ret([o EXCEPT !.decrypt = d.opd, !.verify = v.opd], IF d.err # NoErr THEN d.err ELSE v.err)
     ELSE status_handler(o, line, cb)

\* The lines on which a handler of the operation calls back.
Asks(line) ==
  \/ op = "edit"
  \/ op = "keysign" /\ line.code = "INQUIRE_MAXLEN"
  \/ line.code = "INQUIRE_MAXLEN" /\ Keeps[op] \cap {"sign", "decrypt", "genkey"} # {}
  \/ line.code \in {"ERROR", "FAILURE"} /\ Keeps[op] \cap {"sign", "decrypt", "passphrase"} # {}
-----------------------------------------------------------------------------
(* The engine and the program.                                             *)

\* gpg and gpgsm tell the trust in a key only after a verdict that names it.
Sensible(line) ==
  line.code \in V!Trusts =>
    V!Current(opd.verify) /\ V!Last(opd.verify).verdict \in {"GOODSIG", "EXPSIG", "EXPKEYSIG", "REVKEYSIG"}

\* An assertion of verify.c has failed.
Aborted == "verify" \in Keeps[op] /\ opd.verify.fault # "none"

\* What the call that waits for the operation returns when it ended with e.
Result(o, e) == IF op = "export_keys" THEN K!export_keys_result(o.export, e) ELSE e

\* The status handler is called for a line; an error of the handler ends the
\* operation, as does the end of file.
Status(line, cb) ==
  /\ phase = "running" /\ ~Aborted
  /\ Len(log) < script.max \/ line.code = "EOF"
  /\ Sensible(line)
  /\ cb # NoErr => Asks(line)
  /\ LET r == status_handler(opd, line, cb)
         a == separately(alone, line, cb)
         ended == r.err # NoErr \/ line.code = "EOF"
     IN /\ opd' = r.opd /\ alone' = a.opd
        /\ phase' = IF ended THEN "done" ELSE "running"
        /\ err' = IF ended THEN Result(r.opd, r.err) ELSE NoErr
        /\ due' = IF ended THEN Result(a.opd, a.err) ELSE a.err
  /\ log' = Append(log, line)
  /\ UNCHANGED <<script, op, signers>>

\* The operation is cancelled.
Cancel ==
  /\ phase = "running" /\ ~Aborted
  /\ phase' = "done" /\ err' = "canceled" /\ due' = "canceled"
  /\ UNCHANGED <<script, op, opd, signers, log, alone>>

\* gpgme_signers_add between the operation and the question for its result.
SignersAdd ==
  /\ phase = "done" /\ signers + 1 \in script.signers
  /\ signers' = signers + 1
  /\ UNCHANGED <<script, op, opd, phase, err, log, alone, due>>

\* gpgme_signers_clear.
SignersClear ==
  /\ phase = "done" /\ 0 \in script.signers
  /\ signers' = 0
  /\ UNCHANGED <<script, op, opd, phase, err, log, alone, due>>

\* gpgme_op_sign_result, any number of times.
SignResult ==
  /\ phase \in {"done", "asked"} /\ "sign" \in Keeps[op]
  /\ phase' = "asked"
  /\ opd' = [opd EXCEPT !.sign = S!Shown(opd.sign, signers)]
  /\ UNCHANGED <<script, op, err, signers, log, alone, due>>

Next ==
  \/ \E line \in script.lines, cb \in {NoErr, "callback"} : Status(line, cb)
  \/ Cancel
  \/ SignersAdd
  \/ SignersClear
  \/ SignResult

Spec == Init /\ [][Next]_vars
-----------------------------------------------------------------------------
(* Properties of all operations.                                           *)

Logged(code)  == {i \in 1..Len(log) : log[i].code = code}
Complete      == phase # "running" /\ Logged("EOF") # {}

(* Sharing the buffer does no harm: although a FAILURE line reaches        *)
(* _gpgme_verify_status_handler without its error code, the operation ends *)
(* when, and with the error with which, it would end if each handler were  *)
(* shown the line as the engine sent it; and the handlers keep the types   *)
(* of the result structures.                                               *)
SharedBufferIsHarmless == TypeOK /\ err = due

(* An error is not forgotten: the first error of an ERROR line that the    *)
(* operation looks at is its result, however many lines follow before the  *)
(* end of file.                                                            *)
Relevant(i) ==
  /\ log[i].code = "ERROR" /\ log[i].where # Malformed /\ log[i].err # NoErr
  /\ CASE op \in {"genkey", "adduid", "revuid", "keysign", "tofu_policy"} -> TRUE
       [] op \in {"passwd", "passwd_cms"} -> log[i].where = "keyedit.passwd"
       [] op = "export_keys" -> log[i].where = "keyserver_send"
       [] op = "delete" -> log[i].where = "delete_key.secret" /\ log[i].err = "canceled"
       [] OTHER -> FALSE
ErrorsReported ==
  Complete => \A i \in 1..Len(log) :
    Relevant(i) /\ (\A j \in 1..(i - 1) : ~Relevant(j)) => err = log[i].err

(* Success is earned: a key generation that succeeds made a key, a change  *)
(* of a passphrase by gpg was confirmed, and the engine had no problem     *)
(* with a deletion; the result tells of a primary key, a subkey and a user *)
(* ID exactly when the engine did.                                         *)
SuccessEarned ==
  Complete /\ err = NoErr =>
    /\ op = "genkey" =>
         \E i \in Logged("KEY_CREATED") : log[i].kind # "empty"
    /\ op \in {"genkey", "adduid", "revuid"} =>
         /\ opd.genkey.primary = (\E i \in Logged("KEY_CREATED") : log[i].kind \in {"B", "P"})
         /\ opd.genkey.sub = (\E i \in Logged("KEY_CREATED") : log[i].kind \in {"B", "S"})
         /\ opd.genkey.uid = (opd.genkey.primary \/ op = "adduid")
    /\ op = "passwd" => Logged("SUCCESS") # {}
    /\ op = "delete" => Logged("DELETE_PROBLEM") = {}

(* The list of imports is what the engine told of, in order: one entry for *)
(* each key, and a key with a problem is not shown as imported.            *)
ImportsAsReported ==
  op = "import" =>
    LET said == SelectSeq(log, LAMBDA line : line.code \in {"IMPORT_OK", "IMPORT_PROBLEM"}
                                             /\ line.nr # Malformed)
    IN /\ Len(opd.import.imports) = Len(said)
       /\ \A i \in 1..Len(said) :
            /\ opd.import.imports[i].fpr = said[i].fpr
            /\ (opd.import.imports[i].result = NoErr) = (said[i].code = "IMPORT_OK")

(* Key generation, passphrase change, deletion and import: what the result *)
(* says was done is what the engine said it did, and the error is the      *)
(* first one it reported.                                                  *)
KeyOperationsEarned == ErrorsReported /\ SuccessEarned /\ ImportsAsReported
-----------------------------------------------------------------------------
(* Properties of verification.                                             *)

Verifies == "verify" \in Keeps[op]
Sigs     == IF Verifies THEN opd.verify.signatures ELSE <<>>

(* No verdict is lost and none is overwritten: the signatures that carry a *)
(* verdict are, in order, the verdict lines of the engine, although an     *)
(* entry of which only NEWSIG was seen is used again and the last one may  *)
(* be removed.                                                             *)
VerdictsInOrder ==
  Verifies =>
  LET said == SelectSeq(log, LAMBDA line : line.code \in V!Verdicts)
      kept == SelectSeq(Sigs, LAMBDA sig : sig.verdict # "none")
  IN /\ Len(said) = Len(kept)
     /\ \A i \in 1..Len(said) : said[i].code = kept[i].verdict

(* "The last signature has no valid information - remove it from the       *)
(* list": in the end every entry of the list stands for some line besides  *)
(* NEWSIG.                                                                 *)
EveryEntrySeen ==
  Verifies /\ Complete /\ err = NoErr =>
    Len(Sigs) <= Cardinality({i \in 1..Len(log) : log[i].code \in V!Verdicts \cup V!Details})

(* The list of signatures is, between NEWSIG and the end of file, the list *)
(* of the engine's verdicts: none lost, none overwritten, none made up.    *)
NoVerdictLost == VerdictsInOrder /\ EveryEntrySeen

(* A summary is computed after the last line about its signature: when     *)
(* another signature has begun, and for one with a verdict at the end, it  *)
(* is the summary of what the signature now says.                          *)
SummariesFresh ==
  \A i \in 1..Len(Sigs) :
    i < Len(Sigs) \/ (Complete /\ err = NoErr /\ Sigs[i].verdict # "none") =>
      Sigs[i].summary = V!calc_sig_summary(Sigs[i])

(* GPGME_SIGSUM_VALID, "The signature is fully valid", is given to a good  *)
(* signature by a trusted key only, and not if a later line took it back.  *)
ValidIsGood ==
  \A i \in 1..Len(Sigs) : "VALID" \in V!verify_result(Sigs[i]) =>
    /\ Sigs[i].verdict = "GOODSIG" /\ Sigs[i].status = NoErr
    /\ Sigs[i].validity = "TRUST_FULLY" /\ ~Sigs[i].wrong_key_usage

(* The summary can be relied upon: VALID is given to good signatures only, *)
(* and it was computed from all that the engine said of the signature.     *)
ValidMeansGood == ValidIsGood /\ SummariesFresh

(* "So when a duplicated TOFU_USER line is encountered we ignore the       *)
(* conflicting tofu stats emitted afterwards": the statistics kept are     *)
(* those that follow a TOFU_USER line of the signature's own key, which is *)
(* the key of the first such line after NEWSIG.                            *)
Users(i) ==
  {u \in 1..(i - 1) : log[u].code = "TOFU_USER" /\ \A j \in u..i : log[j].code # "NEWSIG"}
OwnStats ==
  {i \in 1..Len(log) :
     /\ log[i].code = "TOFU_STATS" /\ Users(i) # {}
     /\ \E first, last \in Users(i) :
          /\ \A u \in Users(i) : first <= u /\ u <= last
          /\ log[first].fpr = log[last].fpr}
ConflictsIgnored ==
  Verifies /\ err = NoErr =>
    Cardinality(OwnStats) =
    Cardinality(UNION {{<<i, j>> : j \in {k \in 1..Len(Sigs[i].tofu) : Sigs[i].tofu[k] = "stats"}}
                       : i \in 1..Len(Sigs)})

(* What the engine said of each signature is what its entry says: verdicts *)
(* and statistics, none lost and none of another signature or key.         *)
VerdictsKept == NoVerdictLost /\ ConflictsIgnored

(* The assertions of verify.c.                                             *)
AssertionsHold == ~Aborted

(* gpgme.texi says of the status GPG_ERR_NO_ERROR "This status indicates   *)
(* that the signature is valid".                                           *)
NoErrorMeansGood ==
  Complete /\ err = NoErr => \A i \in 1..Len(Sigs) : Sigs[i].status = NoErr => Sigs[i].verdict = "GOODSIG"

(* gpgme.texi says of human_readable "This is true if the                  *)
(* GPGME_SIG_NOTATION_HUMAN_READABLE flag is set and false otherwise".     *)
NotationBitsAgree ==
  \A i \in 1..Len(Sigs) : \A n \in 1..Len(Sigs[i].notations) :
    /\ Sigs[i].notations[n].human = Sigs[i].notations[n].flag_human
    /\ Sigs[i].notations[n].critical = Sigs[i].notations[n].flag_critical

(* gpgme.texi says of chain_model "This is true if the validity of the     *)
(* signature has been checked using the chain model": the engine says so   *)
(* in the line that tells the trust.                                       *)
ChainModelReported ==
  [][\A line \in script.lines : line.code \in V!Trusts /\ Status(line, NoErr) =>
       V!Last(opd'.verify).chain_model = line.chain]_vars
-----------------------------------------------------------------------------
(* Properties of encryption and signing.                                   *)

(* Recipients that could not be used are reported: an encryption, with or  *)
(* without signing, in which the engine rejected a recipient ends with     *)
(* GPG_ERR_UNUSABLE_PUBKEY, whatever else went wrong.                      *)
UnusableReported ==
  Complete /\ op \in {"encrypt", "encrypt_sign"} /\ Logged("INV_RECP") # {} =>
    err = "unusable_pubkey"

(* A signing operation succeeds only if a signature was created, no signer *)
(* was rejected and the last thing said of a passphrase was good.          *)
SignatureEarned ==
  Complete /\ op \in {"sign", "sign_cms", "encrypt_sign", "encrypt_sign_sym"} /\ err = NoErr =>
    /\ Logged("SIG_CREATED") # {} /\ Logged("INV_SGNR") = {}
    /\ \A i \in Logged("BAD_PASSPHRASE") \cup Logged("MISSING_PASSPHRASE") :
         \E j \in Logged("GOOD_PASSPHRASE") : j > i

(* A signing or encrypting operation reports success only if it was earned *)
(* by every signer and every recipient.                                    *)
SignedMeansSigned == SignatureEarned /\ UnusableReported

(* gpgme_op_sign_result never shows the signatures of some of the signers: *)
(* if it lists a signature then every signer is accounted for; and asking  *)
(* again gives the same result, although the call rewrites the lists.      *)
AllOrNothing ==
  phase = "asked" =>
    /\ signers > 0 /\ opd.sign.signatures # <<>> =>
         Len(opd.sign.signatures) + Len(opd.sign.invalid_signers) = signers
    /\ S!Shown(opd.sign, signers) = opd.sign

(* Signing and encrypting: success is earned by every signer and every     *)
(* recipient, and the result shows the signatures of all signers or none.  *)
SigningSound == SignedMeansSigned /\ AllOrNothing

(* gpgme.texi says that gpgme_op_encrypt returns "GPG_ERR_UNUSABLE_PUBKEY  *)
(* if recp contains some invalid recipients", and that with                *)
(* GPGME_ENCRYPT_SYMMETRIC the output is "additionally encrypted           *)
(* symmetrically even if recipients are provided".                         *)
UnusableReportedSym ==
  Complete /\ op = "encrypt_sym" /\ Logged("INV_RECP") # {} => err # NoErr

(* sign.c says of KEY_CONSIDERED "We store the last one so it can be used  *)
(* in connection with INV_RECP": the unspecific reason of an invalid       *)
(* signer is refined by the line before it.                                *)
ConsideredIsUsed ==
  "sign" \in Keeps[op] => \A i \in Logged("INV_SGNR") :
    i > 1 /\ log[i].reason = "general" /\ log[i - 1].code = "KEY_CONSIDERED"
          /\ log[i - 1].key # Malformed /\ log[i - 1].all_expired_or_revoked =>
      \E n \in 1..Len(opd.sign.invalid_signers) :
        opd.sign.invalid_signers[n] = [key |-> log[i].key, reason |-> "subkeys_exp_or_rev"]

(* gpgme.texi says that invalid_signers lists "all invalid keys for which  *)
(* a signature could not be created".                                      *)
InvalidSignersAreSigners ==
  op = "encrypt_sign" /\ phase = "done" =>
    \A n \in 1..Len(opd.sign.invalid_signers) :
      \E i \in Logged("INV_SGNR") : log[i].key = opd.sign.invalid_signers[n].key

(* gpgme.texi says that signatures lists "all signatures created": what is *)
(* shown of a successful operation does not depend on a signer the program *)
(* adds for the next one.                                                  *)
SignaturesListed ==
  [][SignersAdd /\ err = NoErr =>
       S!Shown(opd.sign, signers').signatures = S!Shown(opd.sign, signers).signatures]_vars
=============================================================================
