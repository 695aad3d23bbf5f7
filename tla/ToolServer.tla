------------------------------ MODULE ToolServer ------------------------------
(***************************************************************************)
(* gpgme-tool: an Assuan server that lets a script use one gpgme context.  *)
(* A session is a sequence of commands: INPUT, OUTPUT and MESSAGE name the *)
(* data of the next operation, RECIPIENT and SIGNER collect keys, the      *)
(* setters change the context, an operation command opens the data it was  *)
(* given, runs and puts everything away, RESULT prints what the last       *)
(* operation found and RESET starts over.  The client hands over each file *)
(* descriptor once, as Assuan's descriptor passing does.                   *)
(***************************************************************************)
EXTENDS Integers, Sequences, FiniteSets, SequencesExt

CONSTANTS MaxRecipients,   \* MAX_RECIPIENTS
          MaxWork,         \* bound on sources named, keys found and settings changed
          MaxLost          \* bound on the streams a session loses

VARIABLES chan,        \* struct server: fd, filename and stream per channel
          fds,         \* the descriptors handed over that are open
          lost,        \* the number of open streams nothing refers to any more
          handed,      \* the number of sources named so far
          recipients,  \* gt->recipients, Null from some index on
          recipients_nr,
          keys,        \* the number of key objects looked up so far
          freed,       \* those of them that were freed
          ctx,         \* gt->ctx: protocol, pinentry mode, callback, signers, settings
          results,     \* the kinds of results the context holds
          given,       \* the source the client named last for each channel
          acked,       \* the recipients acknowledged since the list was used
          last,        \* the last operation that was started
          fault        \* a descriptor or stream was closed twice, a freed key used

vars == <<chan, fds, lost, handed, recipients, recipients_nr, keys, freed, ctx, results,
          given, acked, last, fault>>

Channels == {"input", "output", "message"}
Null == 0
NoSource == [fd |-> 0, filename |-> 0, stream |-> "none"]
NewContext == [protocol |-> "openpgp", pinentry |-> "default", cb |-> FALSE,
               signers |-> 0, settings |-> {}]

server == <<chan, fds, lost, handed, given>>
tool == <<recipients, recipients_nr, keys, freed, acked>>
operation == <<results, last>>

\* gpgme_server and gt_init: no channel, no recipient, a new context.
Init == /\ chan = [c \in Channels |-> NoSource]
        /\ fds = {} /\ lost = 0 /\ handed = 0
        /\ recipients = [i \in 0..MaxRecipients |-> Null] /\ recipients_nr = 0
        /\ keys = 0 /\ freed = {} /\ acked = <<>>
        /\ ctx = NewContext /\ results = {} /\ last = "none"
        /\ given = [c \in Channels |-> 0]
        /\ fault = FALSE

\* The settings that differ from those of a new context.
Changed(c) == Cardinality({f \in {"protocol", "pinentry", "signers"} : c[f] # NewContext[f]})
              + Cardinality(c.settings)
Work == handed + keys + Changed(ctx)

-----------------------------------------------------------------------------
(* INPUT, OUTPUT, MESSAGE *)

\* server_parse_fd and server_data_encoding: "file=" gives a name, "FD" a
\* descriptor; the other one is cleared.  What the channel held before is
\* overwritten, except a stream.
NameSource(c) ==
    /\ Work < MaxWork
    /\ \E kind \in {"fd", "file"} :
         /\ chan' = [chan EXCEPT ![c].fd = IF kind = "fd" THEN handed + 1 ELSE 0,
                                 ![c].filename = IF kind = "file" THEN handed + 1 ELSE 0]
         /\ fds' = fds \cup (IF kind = "fd" THEN {handed + 1} ELSE {})
    /\ handed' = handed + 1
    /\ given' = [given EXCEPT ![c] = handed + 1]
    /\ UNCHANGED <<lost, ctx, fault, tool, operation>>

cmd_input == NameSource("input")
cmd_output == NameSource("output")
cmd_message == NameSource("message")

\* Mutant: the streams are closed but not forgotten.
reset_fds_dangling ==
    /\ fds' = fds \ {chan[c].fd : c \in Channels}
    /\ chan' = [c \in Channels |->
                  IF chan[c].stream # "none" THEN [NoSource EXCEPT !.stream = "dangling"]
                  ELSE NoSource]

\* server_reset_fds: everything is closed and forgotten.
server_reset_fds ==
    /\ fds' = fds \ {chan[c].fd : c \in Channels}
    /\ chan' = [c \in Channels |-> NoSource]

ClosesTwice(ch) == \E c \in Channels : \/ ch[c].fd # 0 /\ ch[c].fd \notin fds
                                       \/ ch[c].stream = "dangling"

-----------------------------------------------------------------------------
(* Recipients and signers *)

\* gt_recipients_add: the array's limit, then a key from the user id (UI
\* server) or gt_get_key, which lists with a context of its own and fails
\* when the name is unknown or ambiguous; only a key found is stored.
gt_recipients_add ==
    IF recipients_nr >= MaxRecipients
    THEN UNCHANGED tool
    ELSE \/ UNCHANGED tool
         \/ /\ Work < MaxWork
            /\ recipients' = [recipients EXCEPT ![recipients_nr] = keys + 1]
            /\ recipients_nr' = recipients_nr + 1
            /\ keys' = keys + 1
            /\ acked' = Append(acked, keys + 1)
                    /\ UNCHANGED freed

cmd_recipient == gt_recipients_add /\ UNCHANGED <<server, ctx, fault, operation>>

gt_recipients_clear ==
    /\ freed' = freed \cup {recipients[i] : i \in 0..(recipients_nr - 1)}
    /\ recipients' = [i \in DOMAIN recipients |->
                        IF i < recipients_nr THEN Null ELSE recipients[i]]
    /\ recipients_nr' = 0
    /\ UNCHANGED keys

\* The keys an engine reads from a key array: those before the first Null.
ReadKeys(array) ==
    LET n == CHOOSE k \in 0..MaxRecipients : /\ array[k] = Null
                                             /\ \A i \in 0..(k - 1) : array[i] # Null
    IN [i \in 1..n |-> array[i - 1]]

\* A setter.
Setting(c) == handed + keys + Changed(c) <= MaxWork /\ ctx' = c /\ UNCHANGED <<server, tool, fault, operation>>

\* gt_signers_add: the key is looked up and added; gt_signers_clear.
cmd_signer ==
    \/ ctx.signers < 1 /\ Setting([ctx EXCEPT !.signers = @ + 1])
    \/ UNCHANGED vars

cmd_signers_clear == Setting([ctx EXCEPT !.signers = 0])

-----------------------------------------------------------------------------
(* The settings of the context *)

\* gt_set_protocol: gpgme_set_protocol refuses what it does not know.
cmd_protocol ==
    \/ \E p \in {"openpgp", "uiserver"} : Setting([ctx EXCEPT !.protocol = p])
    \/ UNCHANGED vars

\* ARMOR, TEXTMODE, INCLUDE_CERTS, KEYLIST_MODE and SUB_PROTOCOL: one
\* property of the context each.
SetOne(name) == \/ Setting([ctx EXCEPT !.settings = @ \cup {name}])
                \/ Setting([ctx EXCEPT !.settings = @ \ {name}])
cmd_sub_protocol == SetOne("sub_protocol")
cmd_armor == SetOne("armor")
cmd_textmode == SetOne("textmode")
cmd_include_certs == SetOne("include_certs")
cmd_keylist_mode == SetOne("keylist_mode")

\* gt_set_pinentry_mode: the callback is removed and, for a loopback, set.
\* An unknown name is refused before.
cmd_pinentry_mode ==
    \/ \E m \in {"default", "loopback"} :
          Setting([ctx EXCEPT !.pinentry = m, !.cb = (m = "loopback")])
    \/ UNCHANGED vars

\* VERSION, ENGINE, STRERROR, PUBKEY_ALGO_NAME, HASH_ALGO_NAME and the
\* setters without a value only answer.
cmd_query == UNCHANGED vars

-----------------------------------------------------------------------------
(* The operations *)

\* The sources a command opens, in order, and those it cannot do without;
\* the results the operation may leave; whether the list of recipients is
\* used up and whether the channels are put away afterwards.
Op(open, need, kinds, recp, reset) ==
    [open |-> open, need |-> need, kinds |-> kinds, recp |-> recp, reset |-> reset]

_cmd_decrypt_verify(verify) ==
    Op(<<"input", "output">>, {"input", "output"},
       {"decrypt"} \cup (IF verify THEN {"verify"} ELSE {}), FALSE, TRUE)
_cmd_sign_encrypt(sign) ==
    Op(<<"input", "output">>, {}, {"encrypt"} \cup (IF sign THEN {"sign"} ELSE {}), TRUE, TRUE)
cmd_sign == Op(<<"input", "output">>, {"input", "output"}, {"sign"}, FALSE, TRUE)
cmd_verify == Op(<<"input", "message", "output">>, {"input"}, {"verify"}, FALSE, TRUE)
cmd_import(pattern) == IF pattern THEN Op(<<>>, {}, {"import"}, FALSE, FALSE)
                       ELSE Op(<<"input">>, {"input"}, {"import"}, FALSE, TRUE)
cmd_export == Op(<<"output">>, {"output"}, {}, FALSE, TRUE)
cmd_genkey == Op(<<"input", "output">>, {"input"}, {"genkey"}, FALSE, TRUE)
cmd_delete == Op(<<>>, {}, {}, FALSE, FALSE)
cmd_keylist == Op(<<>>, {}, {"keylist"}, FALSE, TRUE)
cmd_getauditlog == Op(<<"output">>, {"output"}, {}, FALSE, TRUE)
cmd_vfs_mount == Op(<<>>, {}, {"vfs_mount"}, FALSE, FALSE)
cmd_vfs_create == Op(<<>>, {}, {}, TRUE, FALSE)
cmd_passwd == Op(<<>>, {}, {}, FALSE, FALSE)
cmd_identify == Op(<<"input">>, {"input"}, {}, FALSE, TRUE)
cmd_spawn == Op(<<"input", "output">>, {}, {}, FALSE, TRUE)

\* register_commands: the operation commands of the table.
register_commands ==
    [DECRYPT |-> _cmd_decrypt_verify(FALSE), DECRYPT_VERIFY |-> _cmd_decrypt_verify(TRUE),
     ENCRYPT |-> _cmd_sign_encrypt(FALSE), SIGN_ENCRYPT |-> _cmd_sign_encrypt(TRUE),
     SIGN |-> cmd_sign, VERIFY |-> cmd_verify, IMPORT |-> cmd_import(FALSE),
     IMPORT_KEYS |-> cmd_import(TRUE), EXPORT |-> cmd_export, GENKEY |-> cmd_genkey,
     DELETE |-> cmd_delete, KEYLIST |-> cmd_keylist, GETAUDITLOG |-> cmd_getauditlog,
     VFS_MOUNT |-> cmd_vfs_mount, VFS_CREATE |-> cmd_vfs_create, PASSWD |-> cmd_passwd,
     IDENTIFY |-> cmd_identify, SPAWN |-> cmd_spawn]

Commands == DOMAIN register_commands

Set(c) == chan[c].fd # 0 \/ chan[c].filename # 0

\* The channels that command o opens: those in its list that are set.
ToOpen(o) == SelectSeq(o.open, Set)

\* server_data_obj for the first k channels of s, and for one more that
\* fails: the stream field is cleared (an open stream is lost), a file is
\* opened, a descriptor needs no stream.  A file that opened but for which
\* no data object could be made keeps its stream.
Opened(s, k, failed) ==
    [c \in Channels |->
        IF c \in {s[i] : i \in 1..k}
        THEN [chan[c] EXCEPT !.stream = IF chan[c].filename # 0 THEN "open" ELSE "none"]
        ELSE IF k < Len(s) /\ c = s[k + 1] THEN [chan[c] EXCEPT !.stream = failed]
        ELSE chan[c]]
Lost(s, k) == Cardinality({i \in 1..(IF k < Len(s) THEN k + 1 ELSE k) :
                             chan[s[i]].stream = "open"})

\* A command with a source missing answers NO_INPUT or NO_OUTPUT and
\* leaves everything.
NoSourceGiven(name) ==
    /\ \E c \in register_commands[name].need : ~Set(c)
    /\ UNCHANGED vars

\* A source cannot be opened: the data objects made so far are released,
\* the channels stay as they are with the streams opened for them.
OpenFails(name) ==
    LET o == register_commands[name]
        s == ToOpen(o)
    IN /\ \A c \in o.need : Set(c)
       /\ \E k \in 0..(Len(s) - 1), failed \in {"none", "open"} :
            /\ failed = "open" => chan[s[k + 1]].filename # 0
            /\ lost + Lost(s, k) <= MaxLost
            /\ lost' = lost + Lost(s, k)
            /\ chan' = Opened(s, k, failed)
          /\ UNCHANGED <<fds, handed, given, tool, ctx, fault, operation>>

\* Starting an operation drops the results of the one before
\* (_gpgme_op_reset); it leaves its own, or some of them when it fails.
RunResults(o) == results' \in SUBSET o.kinds

\* The sources are open: the operation runs to its end and may fail, with a
\* loopback also because the client cancels the inquiry for the passphrase
\* (server_passphrase_cb).  The recipients are used up.  GENKEY that cannot
\* read its parameters leaves the channels, as do the commands without
\* data; all others put them away.
Run(name) ==
    LET o == register_commands[name]
        s == ToOpen(o)
        ready == Opened(s, Len(s), "none")
    IN /\ \A c \in o.need : Set(c)
       /\ lost + Lost(s, Len(s)) <= MaxLost
       /\ lost' = lost + Lost(s, Len(s))
       /\ fault' = \/ fault
                   \/ \E i \in DOMAIN s : chan[s[i]].fd # 0 /\ chan[s[i]].fd \notin fds
                   \/ o.recp /\ Range(ReadKeys(recipients)) \cap freed # {}
                   \/ o.reset /\ ClosesTwice(ready)
       /\ last' = name
       /\ RunResults(o)
       /\ IF o.recp THEN gt_recipients_clear /\ acked' = <<>> ELSE UNCHANGED tool
       /\ \/ /\ o.reset
             /\ server_reset_fds
             /\ given' = [c \in Channels |-> 0]
          \/ /\ ~o.reset
             /\ UNCHANGED <<chan, fds, given>>
       /\ UNCHANGED <<handed, ctx>>

\* cmd_genkey: the parameters cannot be read from the input; the function
\* leaves without putting the channels away and without an operation.
GenkeyNoParms ==
    LET s == ToOpen(cmd_genkey)
    IN /\ Set("input")
       /\ lost + Lost(s, Len(s)) <= MaxLost
       /\ lost' = lost + Lost(s, Len(s))
       /\ chan' = Opened(s, Len(s), "none")
          /\ UNCHANGED <<fds, handed, given, tool, ctx, fault, operation>>

\* gt_result: one element for each kind of result the context holds; the
\* elements are those of ToolXml.
gt_result == UNCHANGED vars

\* gt_reset makes a new context and, only if it could, drops the old one
\* and the recipients.
gt_reset ==
    \/ /\ ctx' = NewContext /\ results' = {} /\ last' = "none"
       /\ gt_recipients_clear /\ acked' = <<>>
    \/ UNCHANGED <<ctx, tool, operation>>

\* The channels are put away; the answer is OK also if gt_reset failed.
reset_notify ==
    /\ server_reset_fds
    /\ given' = [c \in Channels |-> 0]
    /\ fault' = (fault \/ ClosesTwice(chan))
    /\ gt_reset
    /\ UNCHANGED <<lost, handed>>

Next == \/ cmd_input \/ cmd_output \/ cmd_message
        \/ cmd_recipient \/ cmd_signer \/ cmd_signers_clear
        \/ cmd_protocol \/ cmd_sub_protocol \/ cmd_armor \/ cmd_textmode
        \/ cmd_include_certs \/ cmd_keylist_mode \/ cmd_pinentry_mode \/ cmd_query
        \/ \E name \in Commands : NoSourceGiven(name) \/ OpenFails(name) \/ Run(name)
        \/ GenkeyNoParms \/ gt_result \/ reset_notify

Spec == Init /\ [][Next]_vars

-----------------------------------------------------------------------------
\* What the server holds between two commands is its own: the descriptors
\* in its channels are open and each belongs to one channel, nothing was
\* closed twice, no stream is held after it was closed.
ChannelsOwned ==
    /\ ~fault
    /\ \A c \in Channels : /\ chan[c].fd # 0 => chan[c].fd \in fds
                           /\ chan[c].stream # "dangling"
                           /\ chan[c].fd = 0 \/ chan[c].filename = 0
    /\ \A c, d \in Channels : c # d /\ chan[c].fd # 0 => chan[c].fd # chan[d].fd

\* An operation reads and writes what the client named last for it, and
\* nothing a former operation was given.
ReadsWhatWasNamed ==
    \A c \in Channels : Set(c) <=> given[c] # 0 /\ chan[c].fd + chan[c].filename = given[c]

\* The recipients the engine reads, up to the end mark of the array, are
\* the ones acknowledged since the list was last used, in that order, and
\* none of them was freed.
RecipientsExact ==
    /\ \A i \in 0..MaxRecipients : recipients[i] # Null <=> i < recipients_nr
    /\ ReadKeys(recipients) = acked
    /\ \A i \in DOMAIN acked : acked[i] \notin freed

\* RESULT shows results of the last operation that was started on the
\* context only.
ResultCurrent ==
    /\ last = "none" => results = {}
    /\ last # "none" => results \subseteq register_commands[last].kinds

\* The client is asked for a passphrase in loopback mode, and only then.
AskedInLoopback == ctx.cb <=> ctx.pinentry = "loopback"

SessionInv == AskedInLoopback /\ ChannelsOwned /\ ReadsWhatWasNamed /\ RecipientsExact /\ ResultCurrent

=============================================================================
