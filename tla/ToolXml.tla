------------------------------- MODULE ToolXml -------------------------------
(***************************************************************************)
(* The XML that gpgme-tool sends for RESULT and KEYLIST (gpgme-tool.c).    *)
(* The tool calls a small writer, which keeps a stack of open tags and a   *)
(* note, per open tag, of what was written below it.  A document is the    *)
(* sequence of the calls a conversion makes; writing it gives a sequence   *)
(* of tokens.  Attribute values and texts are left out: only where a tag,  *)
(* a text and an end are written matters for the shape of the document.    *)
(***************************************************************************)
EXTENDS Integers, Sequences, SequencesExt

VARIABLES calls,    \* the calls still to be made
          state,    \* struct result_xml_state
          reader    \* a reader of the tokens written so far

MAX_TAGS == 20

\* struct result_xml_state: the tags that are open and what each has seen (0
\* nothing, 1 a child, 2 a text), and the tokens the last call wrote.
result_init == [tag |-> <<>>, had_data |-> <<>>, out |-> <<>>]

Token(kind, name) == <<[kind |-> kind, name |-> name]>>

\* A child first ends the start tag of its parent, if that is still open.
result_xml_tag_start(st, name) ==
    LET d == Len(st.tag)
        first == d > 0 /\ st.had_data[d] = 0
    IN [tag |-> Append(st.tag, name),
        had_data |-> Append(IF d > 0 THEN [st.had_data EXCEPT ![d] = 1] ELSE <<>>, 0),
        out |-> (IF first THEN Token(">", "") ELSE <<>>) \o Token("<", name)]

\* result_xml_tag_data: a text below a tag that already has something is
\* introduced by a line feed sent with a length of 2, that is with a NUL.
result_xml_tag_data(st) ==
    LET d == Len(st.tag)
    IN [st EXCEPT !.had_data[d] = 2,
                  !.out = Token(IF st.had_data[d] # 0 THEN "NUL" ELSE ">", "")
                            \o Token("text", "")]

result_xml_tag_end(st) ==
    LET d == Len(st.tag)
    IN [tag |-> Front(st.tag), had_data |-> Front(st.had_data),
        out |-> (IF st.had_data[d] # 0
                           THEN Token("</", st.tag[d]) ELSE Token("/>", ""))]

Call(st, c) == CASE c.call = "start" -> result_xml_tag_start(st, c.name)
                 [] c.call = "data" -> result_xml_tag_data(st)
                 [] c.call = "end" -> result_xml_tag_end(st)

(***************************************************************************)
(* The calls of the conversions.  A result is given by the number n of     *)
(* members of its list and by whether its optional strings are set.        *)
(***************************************************************************)
Start(name) == <<[call |-> "start", name |-> name]>>
Data == <<[call |-> "data", name |-> ""]>>
End == <<[call |-> "end", name |-> ""]>>

Empty(name) == Start(name) \o End
Text(name) == Start(name) \o Data \o End
Element(name, body) == Start(name) \o body \o End
Opt(c, body) == IF c THEN body ELSE <<>>
Many(n, body) == LET l == Len(body) IN [i \in 1..(n * l) |-> body[((i - 1) % l) + 1]]
ListOf(name, n, body) == Opt(n > 0, Element(name, Many(n, body)))

\* result_add_error, _pubkey_algo, _hash_algo, _keyid, _fpr: a text.
result_add_text(name) == Text(name)
\* result_add_sig_mode, result_add_protocol, result_add_validity: a name.
result_add_name(name) == Text(name)
\* result_add_timestamp, result_add_value: only an attribute.
result_add_value(name) == Empty(name)
result_add_string(name) == Text(name)
Values(names) == [i \in 1..(2 * Len(names)) |-> result_add_value(names[(i + 1) \div 2])[2 - (i % 2)]]

InvalidKey(opt) == Element("invalid-key", Opt(opt, result_add_text("fpr"))
                                          \o result_add_text("reason"))

result_encrypt_to_xml(n, opt) ==
    Element("encrypt-result", ListOf("invalid-recipients", n, InvalidKey(opt)))

result_decrypt_to_xml(n, opt) ==
    Element("decrypt-result",
        Opt(opt, Text("file-name") \o Text("unsupported-alogorithm")
                 \o Empty("wrong-key-usage"))
        \o ListOf("recipients", n,
               Element("recipient", result_add_text("keyid")
                       \o result_add_text("pubkey-algo") \o result_add_text("status"))))

result_sign_to_xml(n, opt) ==
    Element("sign-result",
        ListOf("invalid-signers", n, InvalidKey(opt))
        \o ListOf("signatures", n,
               Element("new-signature", result_add_name("type")
                       \o result_add_text("pubkey-algo") \o result_add_text("hash-algo")
                       \o result_add_value("timestamp") \o Opt(opt, result_add_text("fpr"))
                       \o result_add_value("sig-class"))))

result_verify_to_xml(n, opt) ==
    Element("verify-result",
        Opt(opt, Text("file-name"))
        \o ListOf("signatures", n,
               Element("signature", result_add_value("summary")
                       \o Opt(opt, result_add_text("fpr")) \o result_add_text("status")
                       \o Values(<<"timestamp", "exp-timestamp", "wrong-key-usage",
                                   "pka-trust", "chain-model", "validity">>)
                       \o result_add_text("validity-reason")
                       \o result_add_text("pubkey-algo") \o result_add_text("hash-algo")
                       \o Opt(opt, result_add_string("pka_address")))))

result_import_to_xml(n, opt) ==
    Element("import-result",
        Values(<<"considered", "no-user-id", "imported", "imported-rsa", "unchanged",
                 "new-user-ids", "new-sub-keys", "new-signatures", "new-revocations",
                 "secret-read", "secret-imported", "secret-unchanged",
                 "skipped-new-keys", "not-imported">>)
        \o ListOf("imports", n,
               Element("import-status", Opt(opt, result_add_text("fpr"))
                       \o result_add_text("result") \o result_add_value("status"))))

result_genkey_to_xml(opt) ==
    Element("genkey-result", Values(<<"primary", "sub">>) \o Opt(opt, result_add_text("fpr")))

result_keylist_to_xml == Element("keylist-result", result_add_value("truncated"))

result_vfs_mount_to_xml == Element("vfs-mount-result", result_add_string("mount-dir"))

\* What cmd_keylist writes for one key with n subkeys and user ids.
KeyToXml(n, opt) ==
    Element("key",
        Values(<<"revoked", "expired", "disabled", "invalid", "can-encrypt", "can-sign",
                 "can-certify", "can-authenticate", "is-qualified", "secret">>)
        \o result_add_name("protocol")
        \o Element("issuer", result_add_string("serial") \o result_add_string("name"))
        \o result_add_string("chain-id") \o result_add_name("owner-trust")
        \o Element("subkeys", Many(n, Element("subkey",
               result_add_text("keyid") \o Opt(opt, result_add_text("fpr"))
               \o Values(<<"secret", "is_cardkey">>)
               \o Opt(opt, result_add_string("card_number") \o result_add_string("curve")))))
        \o Element("uids", Many(n, Element("uid",
               result_add_string("uid") \o result_add_string("name")
               \o result_add_string("email") \o result_add_string("comment")))))

ResultToXml(kind, n, opt) ==
    CASE kind = "encrypt" -> result_encrypt_to_xml(n, opt)
      [] kind = "decrypt" -> result_decrypt_to_xml(n, opt)
      [] kind = "sign" -> result_sign_to_xml(n, opt)
      [] kind = "verify" -> result_verify_to_xml(n, opt)
      [] kind = "import" -> result_import_to_xml(n, opt)
      [] kind = "genkey" -> result_genkey_to_xml(opt)
      [] kind = "keylist" -> result_keylist_to_xml
      [] kind = "vfs_mount" -> result_vfs_mount_to_xml

ResultKinds == <<"encrypt", "decrypt", "sign", "verify", "import", "genkey", "keylist",
                 "vfs_mount">>

(***************************************************************************)
(* Reference: the tokens of a well-formed sequence of elements, none with  *)
(* both a text and a child, nested at most MAX_TAGS deep.                  *)
(***************************************************************************)
\* The reader's stack of open elements; intag while a start tag is not ended.
ReadToken(r, t) ==
    LET d == Len(r.stack)
        bad == [r EXCEPT !.ok = FALSE]
    IN CASE ~r.ok -> r
         [] t.kind = "<" /\ ~r.intag /\ d < MAX_TAGS /\ (d > 0 => ~r.text) ->
                [r EXCEPT !.stack = Append(@, t.name), !.intag = TRUE, !.text = FALSE,
                          !.tops = IF d = 0 THEN @ + 1 ELSE @]
         [] t.kind = ">" /\ r.intag -> [r EXCEPT !.intag = FALSE]
         [] t.kind = "text" /\ ~r.intag /\ d > 0 -> [r EXCEPT !.text = TRUE]
         [] t.kind = "</" /\ ~r.intag /\ d > 0 /\ Last(r.stack) = t.name ->
                [r EXCEPT !.stack = Front(@), !.text = FALSE]
         [] t.kind = "/>" /\ r.intag -> [r EXCEPT !.stack = Front(@), !.intag = FALSE,
                                                  !.text = FALSE]
         [] OTHER -> bad

Documents ==
    {ResultToXml(ResultKinds[i], n, opt) : i \in DOMAIN ResultKinds, n \in 0..2,
                                           opt \in BOOLEAN}
    \cup {Element("keylist", Many(n, KeyToXml(m, opt))) : n \in 0..2, m \in 0..2,
                                                         opt \in BOOLEAN}

Init == /\ calls \in Documents
        /\ state = result_init
        /\ reader = [ok |-> TRUE, stack |-> <<>>, intag |-> FALSE, text |-> FALSE, tops |-> 0]

Next == /\ calls # <<>>
        /\ calls' = Tail(calls)
        /\ state' = Call(state, Head(calls))
        /\ reader' = FoldLeft(ReadToken, reader, state'.out)

Spec == Init /\ [][Next]_<<calls, state, reader>>

\* What RESULT and KEYLIST send reads as a well-formed document with one
\* element for the result, whatever the result holds: at every moment the
\* reader has the writer's tags open, and at the end none.
WellFormed ==
    /\ reader.ok
    /\ reader.stack = state.tag
    /\ calls = <<>> => reader.stack = <<>> /\ reader.tops = 1

=============================================================================
