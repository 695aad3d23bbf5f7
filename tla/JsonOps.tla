------------------------------ MODULE JsonOps -------------------------------
(***************************************************************************)
(* The commands of gpgme-json.c.  A command takes a request and the static *)
(* contexts of the process, one per protocol, and yields what it leaves in *)
(* the contexts, the engine call it makes with the settings in force at    *)
(* that moment, and the properties of its reply.  What GnuPG answers, and  *)
(* which of the named keys a listing finds, is open, so that a command is  *)
(* the set of its outcomes.                                                *)
(*                                                                         *)
(* A request is well formed but for the one argument that its field bad    *)
(* names: the commands stop at the first one that they cannot use.         *)
(***************************************************************************)
EXTENDS Integers, FiniteSets, Sequences, TLC

None == "none"
NoCall == [call |-> None]

\* _create_new_context: what gpgme_new sets up.
_create_new_context == [armor |-> FALSE, sender |-> None, signers |-> {}, mode |-> {"local"}]

\* The context of a protocol is made at its first use and kept for good:
\* release_context does nothing.
get_context(cs, p) == IF p \in DOMAIN cs THEN cs ELSE cs @@ (p :> _create_new_context)

-----------------------------------------------------------------------------
\* Replies, as the set of their properties.  process_request adds the name
\* of the command to an error.
Reply(type, props) == [type |-> type, props |-> props]
error_object_v == Reply("error", {"type", "msg", "code", "op"})
make_data_object(type, props) == Reply(type, props \cup {"type", "base64", "data"})

Outcome(cs, used, reply) == [ctxs |-> cs, used |-> used, reply |-> reply]
Fails(cs) == {Outcome(cs, NoCall, error_object_v)}
Call(name, c) == [call |-> name, armor |-> c.armor, sender |-> c.sender,
                  signers |-> c.signers, mode |-> c.mode]
\* The engine's operation fails, or it succeeds and a reply is made.
Engine(cs, used, replies) ==
  {Outcome(cs, used, r) : r \in replies \cup {error_object_v}}

-----------------------------------------------------------------------------
op_encrypt(r, cs) ==
  IF r.bad = "protocol" THEN Fails(cs) ELSE
  LET all == get_context(cs, r.proto)
      c == all[r.proto]
      armored == [c EXCEPT !.armor = r.armor]
      sent == IF r.sender = None THEN armored ELSE [armored EXCEPT !.sender = r.sender]
      leave(x) == [all EXCEPT ![r.proto] = [x EXCEPT !.sender = None, !.signers = {}]]
      with(found) == [sent EXCEPT !.signers = @ \cup found]
  IN CASE r.bad = "armor" -> Fails(leave(c))
       [] r.bad = "flag" -> Fails(leave(armored))
       [] r.bad = "keys" -> Fails(leave(sent))
       [] r.bad = "data" -> UNION {Fails(leave(with(f))) : f \in SUBSET r.signing}
       [] OTHER ->
            UNION {Engine(leave(with(f)),
                          Call(IF r.signing = {} THEN "encrypt" ELSE "encrypt_sign", with(f)),
                          {make_data_object("ciphertext", {})}) : f \in SUBSET r.signing}

op_decrypt(r, cs) ==
  IF r.bad = "protocol" THEN Fails(cs) ELSE
  LET all == get_context(cs, r.proto)
  IN IF r.bad = "data" THEN Fails(all)
     ELSE Engine(all, Call("decrypt", all[r.proto]),
                 {make_data_object("plaintext", {"dec_info"} \cup s) :
                    s \in SUBSET {"mime", "info"}})

\* Mutant: the signers are not cleared at the end of the command.
sign_keeps_signers(r, cs) ==
  LET all == get_context(cs, r.proto)
      x(f) == [all[r.proto] EXCEPT !.armor = r.armor, !.signers = @ \cup f,
                 !.sender = IF r.sender = None THEN @ ELSE r.sender]
  IN UNION {Engine([all EXCEPT ![r.proto] = x(f)], Call("sign", x(f)),
                   {make_data_object("signature", {})}) : f \in SUBSET r.keys}

\* The end of the command clears the signers but not the sender.  Without
\* keys the reply is an error, the return value is not.
op_sign(r, cs) ==
  IF r.bad = "protocol" THEN Fails(cs) ELSE
  LET all == get_context(cs, r.proto)
      c == all[r.proto]
      armored == [c EXCEPT !.armor = r.armor]
      sent == IF r.sender = None THEN armored ELSE [armored EXCEPT !.sender = r.sender]
      leave(x) == [all EXCEPT ![r.proto] = [x EXCEPT !.signers = {}]]
      with(found) == [sent EXCEPT !.signers = @ \cup found]
  IN CASE r.bad = "armor" -> Fails(leave(c))
       [] r.bad = "keys" ->
            {Outcome(leave(sent), NoCall, Reply("error", error_object_v.props \ {"op"}))}
       [] r.bad = "data" -> UNION {Fails(leave(with(f))) : f \in SUBSET r.keys}
       [] OTHER -> UNION {Engine(leave(with(f)), Call("sign", with(f)),
                                 {make_data_object("signature", {})}) : f \in SUBSET r.keys}

op_verify(r, cs) ==
  IF r.bad = "protocol" THEN Fails(cs) ELSE
  LET all == get_context(cs, r.proto)
  IN IF r.bad \in {"data", "signature"} THEN Fails(all)
     ELSE Engine(all, Call("verify", all[r.proto]),
                 IF r.detached THEN {Reply(None, s) : s \in SUBSET {"info"}}
                 ELSE {make_data_object("plaintext", s) : s \in SUBSET {"info"}})

op_version(r, cs) == {Outcome(cs, NoCall, x) : x \in {Reply(None, {"gpgme", "info"}), error_object_v}}

\* The mode, local unless flags say otherwise, stays in the context.
op_keylist(r, cs) ==
  IF r.bad = "protocol" THEN Fails(cs) ELSE
  LET all == get_context(cs, r.proto)
      mode == IF r.modes = {} THEN {"local"} ELSE r.modes
      moded == [all[r.proto] EXCEPT !.mode = mode]
  IN IF r.bad = "flag" THEN Fails(all)
     ELSE Engine([all EXCEPT ![r.proto] = moded], Call("keylist", moded), {Reply(None, {"keys"})})

op_import(r, cs) ==
  IF r.bad = "protocol" THEN Fails(cs) ELSE
  LET all == get_context(cs, r.proto)
  IN IF r.bad = "data" THEN Fails(all)
     ELSE Engine(all, Call("import", all[r.proto]), {Reply(None, {"result"})})

\* A secret export is forbidden.  The fingerprints of the secret keys are
\* listed in a context of their own (add_secret_fprs).
op_export(r, cs) ==
  IF r.bad = "protocol" THEN Fails(cs) ELSE
  LET all == get_context(cs, r.proto)
      armored == [all[r.proto] EXCEPT !.armor = r.armor]
      left == [all EXCEPT ![r.proto] = armored]
  IN CASE r.bad = "armor" -> Fails(all)
       [] r.bad \in {"flag", "secret"} -> Fails(left)
       [] OTHER -> Engine(left, Call("export", armored),
                          {make_data_object("keys", s) : s \in SUBSET {"sec-fprs"}})

\* The key is looked up in the mode that the last listing left.
op_delete(r, cs) ==
  IF r.bad = "protocol" THEN Fails(cs) ELSE
  LET all == get_context(cs, r.proto)
  IN IF r.bad \in {"secret", "key"} THEN Fails(all)
     ELSE Engine(all, Call("get_key", all[r.proto]), {})
            \cup Engine(all, Call("delete", all[r.proto]), {Reply(None, {"success"})})

\* Without the option that was asked for the reply is empty.
op_config_opt(r, cs) ==
  LET all == get_context(cs, "gpgconf")
  IN IF r.bad = "argument" THEN Fails(all)
     ELSE Engine(all, Call("conf_load", all["gpgconf"]), {Reply(None, s) : s \in SUBSET {"option"}})

op_config(r, cs) ==
  LET all == get_context(cs, "gpgconf")
  IN IF r.bad = "argument" THEN Fails(all)
     ELSE Engine(all, Call("conf_load", all["gpgconf"]), {Reply(None, {"components"})})

\* Key generation has a context of its own.
op_createkey(r, cs) ==
  IF r.bad = "argument" THEN Fails(cs)
  ELSE Engine(cs, Call("createkey", _create_new_context), {Reply(None, {"fingerprint"})})

op_help(r, cs) == {Outcome(cs, NoCall, Reply("help", {"type", "msg"}))}

\* optbl of process_request, but for getmore.
Commands == {"encrypt", "decrypt", "sign", "verify", "version", "keylist", "import", "export",
             "delete", "config_opt", "config", "createkey", "help"}

handler(r, cs) ==
  CASE r.op = "encrypt" -> op_encrypt(r, cs)
    [] r.op = "decrypt" -> op_decrypt(r, cs)
    [] r.op = "sign" -> op_sign(r, cs)
    [] r.op = "verify" -> op_verify(r, cs)
    [] r.op = "version" -> op_version(r, cs)
    [] r.op = "keylist" -> op_keylist(r, cs)
    [] r.op = "import" -> op_import(r, cs)
    [] r.op = "export" -> op_export(r, cs)
    [] r.op = "delete" -> op_delete(r, cs)
    [] r.op = "config_opt" -> op_config_opt(r, cs)
    [] r.op = "config" -> op_config(r, cs)
    [] r.op = "createkey" -> op_createkey(r, cs)
    [] r.op = "help" -> op_help(r, cs)

-----------------------------------------------------------------------------
(* The objects that gpgme-json.c makes of GPGME's structures, as functions *)
(* from property names to JSON types, and the tables by which gpgme.js     *)
(* admits them (permittedOperations.js, Key.js, Signature.js).  A string   *)
(* property is left out when the C string is NULL, an array when the list  *)
(* is empty: an object has any of the properties that are not required.    *)
Schema(booleans, strings, numbers, objects) ==
  [p \in booleans \cup strings \cup numbers \cup objects |->
     IF p \in booleans THEN "boolean" ELSE IF p \in strings THEN "string"
     ELSE IF p \in numbers THEN "number" ELSE "object"]

Summary == {"valid", "green", "red", "revoked", "key-expired", "sig-expired", "key-missing",
            "crl-missing", "crl-too-old", "bad-policy", "sys-error"}
sigsum_to_json == Schema(Summary, {}, {}, {"sigsum"})

sig_notation_to_json ==
  Schema({"human_readable", "critical"}, {"name", "value"}, {"flags"}, {})

key_sig_to_json ==
  Schema({"revoked", "expired", "invalid", "exportable"},
         {"pubkey_algo_name", "keyid", "status", "name", "email", "comment"},
         {"pubkey_algo", "timestamp", "expires", "status_code", "sig_class"}, {"notations"})

tofu_to_json ==
  Schema({}, {"description"},
         {"validity", "policy", "signcount", "encrcount", "signfirst", "signlast",
          "encrfirst", "encrlast"}, {})

uid_to_json ==
  Schema({"revoked", "invalid"}, {"validity", "uid", "name", "email", "comment", "address"},
         {"origin", "last_update"}, {"signatures", "tofu"})

Capabilities == {"can_encrypt", "can_sign", "can_certify", "can_authenticate"}

subkey_to_json ==
  Schema({"revoked", "expired", "disabled", "invalid", "secret", "is_qualified",
          "is_cardkey", "is_de_vs"} \cup Capabilities,
         {"pubkey_algo_name", "pubkey_algo_string", "keyid", "card_number", "curve", "keygrip"},
         {"pubkey_algo", "length", "timestamp", "expires"}, {})

key_to_json ==
  Schema({"revoked", "expired", "disabled", "invalid", "secret", "is_qualified"} \cup Capabilities,
         {"protocol", "issuer_serial", "issuer_name", "fingerprint", "chain_id", "owner_trust"},
         {"origin", "last_update"}, {"subkeys", "userids"})

signature_to_json ==
  Schema({"wrong_key_usage", "chain_model", "is_de_vs"},
         {"status_string", "fingerprint", "validity_string", "pubkey_algo_name",
          "hash_algo_name", "pka_address"},
         {"status_code", "timestamp", "exp_timestamp", "pka_trust", "validity",
          "validity_reason"}, {"summary", "notations"})

verify_result_to_json == Schema({"is_mime"}, {}, {}, {"signatures"})

decrypt_result_to_json ==
  Schema({"wrong_key_usage", "is_de_vs", "is_mime", "legacy_cipher_nomdc"},
         {"file_name", "symkey_algo"}, {}, {"recipients"})

Counters == {"considered", "no_user_id", "imported", "imported_rsa", "unchanged", "new_user_ids",
             "new_sub_keys", "new_signatures", "new_revocations", "secret_read",
             "secret_imported", "secret_unchanged", "skipped_new_keys", "not_imported",
             "skipped_v3_keys"}
import_result_to_json == Schema({}, {}, Counters, {"imports"})
import_status_to_json == Schema({}, {"fingerprint", "error_string"}, {"status"}, {})

\* The value of an option, by its basic type.
conf_arg_to_json(type) ==
  CASE type \in {"string", "pathname", "ldap_server", "key_fpr", "pub_key", "sec_key",
                 "alias_list"} -> Schema({"is_none"}, {"string"}, {}, {})
    [] type \in {"uint32", "int32"} -> Schema({"is_none"}, {}, {"number"}, {})
    [] OTHER -> Schema({"is_none"}, {}, {}, {})

conf_opt_to_json ==
  Schema({}, {"name", "description", "argname", "default_description", "no_arg_description"},
         {"flags", "level", "type", "alt_type"}, {"default_value", "no_arg_value", "value"})

conf_comp_to_json == Schema({}, {"name", "description", "program_name"}, {}, {"options"})

\* The replies of the commands, over all their outcomes.
DataReply == Schema({"base64"}, {"type", "data"}, {}, {})
replies ==
  [encrypt |-> DataReply, sign |-> DataReply, export |-> DataReply @@ ("sec-fprs" :> "object"),
   decrypt |-> DataReply @@ Schema({"mime"}, {}, {}, {"info", "dec_info"}),
   verify |-> DataReply @@ ("info" :> "object"),
   keylist |-> [keys |-> "object"], import |-> [result |-> "object"],
   delete |-> [success |-> "boolean"], version |-> Schema({}, {"gpgme"}, {}, {"info"}),
   createkey |-> [fingerprint |-> "string"], config_opt |-> [option |-> "object"]]

-----------------------------------------------------------------------------
\* What gpgme.js admits.
validKeyProperties ==
  Schema({"revoked", "expired", "disabled", "invalid", "can_encrypt", "can_sign", "can_certify",
          "can_authenticate", "secret", "is_qualified", "hasSecret"},
         {"fingerprint", "protocol", "issuer_serial", "issuer_name", "chain_id", "owner_trust"},
         {"last_update", "origin"}, {"subkeys", "userids", "tofu"})

expKeys ==
  Schema({"wrong_key_usage", "chain_model", "is_de_vs"},
         {"status_string", "fingerprint", "validity_string", "pubkey_algo_name",
          "hash_algo_name", "pka_address"},
         {"status_code", "timestamp", "exp_timestamp", "pka_trust", "validity",
          "validity_reason"}, {"summary", "notations"})
expSum == Schema({"valid", "green", "red", "revoked", "key-expired", "sig-expired",
                  "key-missing", "crl-missing", "crl-too-old", "bad-policy", "sys-error"},
                 {}, {}, {"sigsum"})
expNote == Schema({"human_readable", "critical"}, {"name", "value"}, {"flags"}, {})

\* Properties of user ids and subkeys that are not in these tables are
\* dropped without an error.
validUserIdProperties ==
  Schema({"revoked", "invalid"}, {"uid", "validity", "name", "email", "address", "comment"},
         {"origin", "last_update"}, {})
validSubKeyProperties ==
  Schema({"invalid", "can_encrypt", "can_sign", "can_certify", "can_authenticate", "secret",
          "is_qualified", "is_cardkey", "is_de_vs"},
         {"pubkey_algo_name", "pubkey_algo_string", "keyid"},
         {"pubkey_algo", "length", "timestamp", "expires"}, {})

\* permittedOperations: for each operation its parameters with their types,
\* the properties of an answer, as payload (a string that may be base64) or
\* as information, and the values its "type" may have.
Permitted(parameters, payload, info, types) ==
  [parameters |-> parameters, payload |-> payload, info |-> info, types |-> types]
data == [d \in {"data"} |-> "string"]
nothing == [p \in {} |-> "none"]

permittedEncrypt ==
  Permitted(Schema({"base64", "mime", "armor", "always-trust", "no-compress", "throw-keyids",
                    "want-address", "wrap"},
                   {"keys", "data", "protocol", "signing_keys", "no-encrypt-to", "sender",
                    "file_name"}, {}, {}),
            data, [base64 |-> "boolean"], {"ciphertext"})
permittedCrypt ==
  [encrypt |-> permittedEncrypt,
   decrypt |-> Permitted(Schema({"base64"}, {"data", "protocol"}, {}, {}), data,
                         Schema({"base64", "mime"}, {}, {}, {"info", "dec_info"}), {"plaintext"}),
   sign |-> Permitted(Schema({"base64", "armor"}, {"data", "keys", "protocol", "sender", "mode"},
                             {}, {}),
                      data, [base64 |-> "boolean"], {"signature", "ciphertext"})]
permittedKeys ==
  [keylist |-> Permitted(Schema({"secret", "extern", "local", "locate", "sigs", "notations",
                                 "tofu", "ephemeral", "validate"}, {"protocol", "keys"}, {}, {}),
                         nothing, Schema({"base64"}, {}, {}, {"keys"}), {"keys"}),
   export |-> Permitted(Schema({"armor", "extern", "minimal", "raw", "pkcs12", "with-sec-fprs"},
                               {"protocol", "keys"}, {}, {}),
                        data, Schema({"base64"}, {}, {}, {"sec-fprs"}), {"keys"}),
   import |-> Permitted(Schema({"base64"}, {"data", "protocol"}, {}, {}),
                        nothing, [result |-> "object"], {}),
   delete |-> Permitted(Schema({}, {"key", "protocol"}, {}, {}),
                        nothing, [success |-> "boolean"], {})]
permittedOthers ==
  [version |-> Permitted(nothing, nothing, Schema({}, {"gpgme"}, {}, {"info"}), {""}),
   createkey |-> Permitted(Schema({}, {"userid", "algo"}, {"expires"}, {}),
                           nothing, [fingerprint |-> "string"], {""}),
   verify |-> Permitted(Schema({"base64"}, {"data", "protocol", "signature"}, {}, {}),
                        data, Schema({"base64"}, {}, {}, {"info"}), {"plaintext"}),
   config_opt |-> Permitted(Schema({}, {"component", "option"}, {}, {}),
                            nothing, [option |-> "object"], {})]
permittedOperations == permittedCrypt @@ permittedKeys @@ permittedOthers

\* What the commands of gpgme-json.c read of a request, with the types that
\* get_boolean_flag, get_protocol, get_keys and the others insist on.
arguments ==
  [encrypt |-> Schema({"base64", "mime", "armor", "always-trust", "no-encrypt-to", "no-compress",
                       "throw-keyids", "wrap", "want-address"},
                      {"keys", "data", "protocol", "signing_keys", "file_name", "sender"}, {}, {}),
   decrypt |-> Schema({"base64"}, {"data", "protocol"}, {}, {}),
   sign |-> Schema({"base64", "armor"}, {"data", "keys", "protocol", "mode", "sender"}, {}, {}),
   verify |-> Schema({"base64"}, {"data", "protocol", "signature"}, {}, {}),
   keylist |-> Schema({"secret", "with-secret", "extern", "local", "sigs", "notations", "tofu",
                       "ephemeral", "validate", "locate"}, {"protocol", "keys"}, {}, {}),
   import |-> Schema({"base64"}, {"data", "protocol"}, {}, {}),
   export |-> Schema({"armor", "secret", "extern", "minimal", "raw", "pkcs12", "with-sec-fprs"},
                     {"protocol", "keys"}, {}, {}),
   delete |-> Schema({"secret"}, {"protocol", "key"}, {}, {}), version |-> nothing,
   createkey |-> Schema({}, {"algo", "userid"}, {"expires"}, {}),
   config_opt |-> Schema({}, {"component", "option"}, {}, {})]

\* The parameters that gpgme.js lets through with another type.
Mistyped(op) ==
  {p \in DOMAIN permittedOperations[op].parameters \cap DOMAIN arguments[op] :
     permittedOperations[op].parameters[p] # arguments[op][p]}

\* Every property of an object is one of the table and has its type.
Admits(table, object) ==
  \A p \in DOMAIN object : p \in DOMAIN table /\ table[p] = object[p]

\* The constructors keep the properties that are in the table with its type.
Kept(table, object) == {p \in DOMAIN object \cap DOMAIN table : object[p] = table[p]}
GPGME_UserId == Kept(validUserIdProperties, uid_to_json)
GPGME_Subkey == Kept(validSubKeyProperties, subkey_to_json)

\* What importKey and getDefaultKey of Keyring.js read of an answer, besides
\* the lists "imports" and "value".
feedbackValues ==
  {"considered", "no_user_id", "imported", "imported_rsa", "unchanged", "new_user_ids",
   "new_sub_keys", "new_signatures", "new_revocations", "secret_read", "secret_imported",
   "secret_unchanged", "skipped_new_keys", "not_imported", "skipped_v3_keys"}
ResultFound(op) ==
  CASE op = "import" -> /\ feedbackValues \cup {"imports"} = DOMAIN import_result_to_json
                        /\ import_status_to_json["status"] = "number"
                        /\ import_status_to_json["fingerprint"] = "string"
    [] op = "config_opt" -> /\ conf_opt_to_json["value"] = "object"
                            /\ conf_arg_to_json("key_fpr")["string"] = "string"
    [] op = "keylist" -> /\ GPGME_UserId = DOMAIN validUserIdProperties
                         /\ GPGME_Subkey = DOMAIN validSubKeyProperties
    [] OTHER -> TRUE
=============================================================================
