----------------------------- MODULE AssuanOps -----------------------------
(***************************************************************************)
(* What the operations of the Assuan engines ask of their server before    *)
(* the command that starts the operation: engine-gpgsm.c,                  *)
(* engine-uiserver.c, engine-assuan.c and engine-g13.c.                    *)
(*                                                                         *)
(* An operation is a sequence of steps.  A step attaches a data channel    *)
(* (set_fd), detaches one (clear_fd), or sends a command whose failure     *)
(* ends the operation (Command) or is ignored (Option).  The arguments of  *)
(* an operation are the channels' data and the number of keys it names.    *)
(***************************************************************************)
EXTENDS Naturals, Sequences

Set(c) == [do |-> "set", ch |-> c]
Clear(c) == [do |-> "clear", ch |-> c]
Command == [do |-> "command", ch |-> "none"]
Option == [do |-> "option", ch |-> "none"]

ClearAll == <<Clear("input"), Clear("output"), Clear("message")>>
Commands(n) == [i \in 1..n |-> Command]
Options(n) == [i \in 1..n |-> Option]

gpgsm_decrypt == <<Set("input"), Set("output"), Clear("message")>>

gpgsm_delete == ClearAll

\* One RECIPIENT command for each key; a key without fingerprint is skipped.
set_recipients(n) == Commands(n)

\* The same, with one command for each line of the string.
set_recipients_from_string(n) == Commands(n)

gpgsm_encrypt(n, noEncryptTo) ==
  (IF noEncryptTo THEN <<Command>> ELSE <<>>)
    \o <<Set("input"), Set("output"), Clear("message")>>
    \o set_recipients(n)

gpgsm_export == <<Set("output"), Clear("input"), Clear("message")>>

gpgsm_export_ext == <<Set("output"), Clear("input"), Clear("message")>>

gpgsm_genkey == <<Set("input"), Set("output"), Clear("message")>>

\* Keys given as objects are first put into a data object of the engine's own,
\* after a look whether the server knows the --re-import option.
gpgsm_import(keys) ==
  (IF keys THEN <<Command>> ELSE <<>>)
    \o <<Set("input"), Clear("output"), Clear("message")>>

\* Only the list mode must be accepted; the other options are tried.
gpgsm_keylist(secret) ==
  (IF secret THEN <<Option>> ELSE <<>>) \o <<Command>> \o Options(4) \o ClearAll

gpgsm_keylist_ext == <<Command>> \o Options(3) \o ClearAll

gpgsm_sign(n, certs) ==
  (IF certs THEN <<Command>> ELSE <<>>)
    \o Commands(n)
    \o <<Set("input"), Set("output"), Clear("message")>>

gpgsm_verify(detached) ==
  IF detached THEN <<Set("input"), Set("message"), Clear("output")>>
              ELSE <<Set("input"), Set("output"), Clear("message")>>

\* Without descriptor passing the log comes as D lines.
gpgsm_getauditlog(passing) ==
  IF passing THEN <<Set("output"), Clear("input"), Clear("message")>> ELSE ClearAll

gpgsm_passwd == ClearAll

uiserver_decrypt == <<Set("input"), Set("output")>>

\* Preparing an encryption has neither input nor output.
uiserver_encrypt(n, prepare) ==
  (IF prepare THEN <<>> ELSE <<Set("input"), Set("output")>>) \o Commands(n)

uiserver_sign(sender) ==
  (IF sender THEN <<Command>> ELSE <<>>) \o <<Set("input"), Set("output")>>

uiserver_verify(detached) ==
  <<Set("input"), IF detached THEN Set("message") ELSE Set("output")>>

\* The sessions with an Assuan server or g13 have no data channels.
llass_transact == <<>>

g13_transact == <<>>
=============================================================================
