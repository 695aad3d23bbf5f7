------------------------------ MODULE MCEngines ------------------------------
(***************************************************************************)
(* Operations of the engines from start to end: all those of the Assuan    *)
(* engines (AssuanEngine), all those of gpg in one engine object           *)
(* (GpgEngine), and an operation in the application's own event loop       *)
(* (UserLoop).  A behaviour plays one of them.  PairSpec is for two engine *)
(* objects of gpg side by side.                                            *)
(***************************************************************************)
EXTENDS GpgEngine, AssuanOps, TLC

VARIABLES
  part,      \* what is played: "assuan", "gpg" or "loop"
  a_conf, a_sys, a_user, a_op, a_busy,
  u_kind, u_fds, u_tags, u_regs, u_ready, u_op, u_started, u_done, u_canceled, u_ops

assuan == <<a_conf, a_sys, a_user, a_op, a_busy>>
loop == <<u_kind, u_fds, u_tags, u_regs, u_ready, u_op, u_started, u_done, u_canceled, u_ops>>

Memory(steps) == [steps |-> steps, own |-> {}, session |-> FALSE]
Transact(steps) == [steps |-> steps, own |-> {}, session |-> TRUE]

\* All of gpgsm's operations.
OpsGpgsm(passing) ==
  {Memory(s) : s \in
     {gpgsm_decrypt, gpgsm_delete, gpgsm_encrypt(1, FALSE), gpgsm_encrypt(2, TRUE),
      gpgsm_export, gpgsm_export_ext, gpgsm_genkey, gpgsm_import(FALSE), gpgsm_import(TRUE),
      gpgsm_keylist(FALSE), gpgsm_keylist(TRUE), gpgsm_keylist_ext, gpgsm_sign(1, TRUE),
      gpgsm_verify(TRUE), gpgsm_verify(FALSE), gpgsm_getauditlog(passing), gpgsm_passwd}}

OpsFile == OpsGpgsm(FALSE) \cup {[steps |-> gpgsm_decrypt, own |-> {"input"}, session |-> FALSE]}

OpsUiserver ==
  {Memory(s) : s \in
     {uiserver_decrypt, uiserver_encrypt(1, FALSE), uiserver_encrypt(1, TRUE),
      uiserver_sign(TRUE), uiserver_verify(TRUE), uiserver_verify(FALSE)}}

Config(kind, passing, locale, ops, max) ==
  [kind |-> kind, passing |-> passing, locale |-> locale, ops |-> ops, max |-> max]

MCConfigs ==
  {Config("gpgsm", FALSE, TRUE, OpsFile, 3), Config("gpgsm", TRUE, FALSE, OpsGpgsm(TRUE), 2),
   Config("uiserver", TRUE, TRUE, OpsUiserver, 2),
   Config("assuan", FALSE, FALSE, {Transact(llass_transact)}, 4),
   Config("g13", FALSE, FALSE, {Transact(g13_transact)}, 3)}

\* Every operation, in the circumstances that change what it attaches.
Names == {"decrypt", "delete", "passwd", "edit", "encrypt", "encrypt_sign", "export",
          "genkey", "import", "keylist", "keylist_data", "keysign", "tofu_policy",
          "sign", "trustlist", "verify"}
GpgOptions == {{}, {"passphrase_cb"}, {"passphrase_cb", "override"}, {"badkey"}, {"old", "unwrap"},
            {"plaintext"}, {"signed_text"}, {"extern"}, {"keys", "passphrase_cb"},
            {"keys", "want_address"}, {"param", "passphrase_cb"}, {"userid"}, {"userid", "key"},
            {"key"}, {"keyarray"}, {"url"}, {"badnotation"}}
Everything == [name : Names, o : GpgOptions]

\* A change of the passphrase, which asks questions, a key listing, and an
\* operation that is refused.
Asking  == {[name |-> "passwd", o |-> {"passphrase_cb"}]}
Listing == {[name |-> "keylist", o |-> {}], [name |-> "delete", o |-> {"badkey"}]}
Mixed   == Asking \cup Listing

\* The engine objects are interchangeable.
Perms == Permutations(Engines)

A == INSTANCE AssuanEngine WITH
  conf <- a_conf, sys <- a_sys, user <- a_user, op <- a_op, busy <- a_busy,
  Configs <- MCConfigs, MaxFd <- 24

U == INSTANCE UserLoop WITH
  kind <- u_kind, fds <- u_fds, tags <- u_tags, regs <- u_regs, ready <- u_ready, op <- u_op,
  started <- u_started, done <- u_done, canceled <- u_canceled, ops <- u_ops,
  Channels <- {"status", "data", "in"}, MaxOps <- 2, Kinds <- {"gpg", "assuan"}

MCInit ==
  /\ part \in {"assuan", "gpg", "loop"}
  /\ Init /\ A!Init /\ U!Init
  /\ part # "assuan" => a_conf.kind = "g13"
  /\ part # "loop" => u_kind = "gpg"

MCNext ==
  /\ UNCHANGED part
  /\ \/ part = "assuan" /\ A!Next /\ UNCHANGED <<vars, loop>>
     \/ part = "gpg" /\ Next /\ UNCHANGED <<assuan, loop>>
     \/ part = "loop" /\ U!Next /\ UNCHANGED <<vars, assuan>>

MCSpec ==
  /\ MCInit /\ [][MCNext]_<<part, vars, assuan, loop>>
  /\ Fairness /\ A!Fairness /\ U!Fairness

PairInit == MCInit /\ part = "gpg"
PairSpec == PairInit /\ [][MCNext]_<<part, vars, assuan, loop>>

(* The bookkeeping of the Assuan engines; a released one leaves no         *)
(* descriptor and no callback behind (gpgsm_release).                      *)
AssuanInv == A!EngineInv /\ A!ReleaseFreesAll

(* The bookkeeping of engine-gpg.c in every operation, and while one runs, *)
(* each of its open descriptors is watched and no end of gpg's is kept.    *)
GpgInv == EngineInv /\ EveryEndWatched

(* The answers and the data that the loop moves are those of the running   *)
(* operation, none of an earlier one (engine-gpgsm.c, engine-assuan.c).    *)
ExchangeCurrent == A!ChannelsCurrent /\ A!InSync

(* What an application's event loop may rely on.                           *)
UserLoopInv == U!UserLoopInv

(* Every operation that was started ends, with any engine, and in an       *)
(* application's event loop with its DONE event.  What is at rest is idle, *)
(* so this is OperationEnds of both engines and DoneComes.                 *)
OperationsEnd ==
  []<>(/\ \A e \in Engines : phase[e] # "started"
       /\ A!Pipes => ~a_busy
       /\ u_op # "running")
=============================================================================
