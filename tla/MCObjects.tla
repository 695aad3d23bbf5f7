------------------------------ MODULE MCObjects ------------------------------
(***************************************************************************)
(* The objects an application holds: data objects, while a decryption into *)
(* them runs (Decrypt), contexts with their engines (Contexts), and keys,  *)
(* results and trust items with their reference counts (References).  A    *)
(* behaviour plays one of them.                                            *)
(***************************************************************************)
EXTENDS Decrypt, TLC

CONSTANTS d1, d2, null

VARIABLES
  part,      \* what is played: "decrypt", "contexts" or "refs"
  r_refs, r_live, r_queue, r_signers, r_op_data, r_held, r_todo,
  k_engine_info, k_pc, k_arg, k_ctx, k_lastset, k_calls

references == <<r_refs, r_live, r_queue, r_signers, r_op_data, r_held, r_todo>>
contexts == <<k_engine_info, k_pc, k_arg, k_ctx, k_lastset, k_calls>>

MCHandles == {d1, d2}
Symmetry  == Permutations(MCHandles)

\* Every line, one key ID and one error code of each kind, into one object.
AllLines ==
  [lines |-> {line \in StatusLine :
     /\ line.code \in {"ENC_TO", "NO_SECKEY"} => line.keyid # "k2"
     /\ line.code = "FAILURE" /\ line.where = "gpg-exit" => line.err = "system"
     /\ line.code = "ERROR" =>
          \/ line.where = "pkdecrypt_failed" /\ line.err # NoErr
          \/ line.where \in {"nomdc_with_legacy_cipher", Malformed} /\ line.err = "unsupported"},
   sync |-> {TRUE}, max |-> 3, ops |-> 1, objects |-> 1]

\* Two operations, data objects that take each other's address and slot.
Reuse ==
  [lines |-> {line \in StatusLine : line.code \in {"EOF", "DECRYPTION_OKAY", "DECRYPTION_FAILED"}},
   sync |-> BOOLEAN, max |-> 2, ops |-> 2, objects |-> 4]

MCScripts == {AllLines, Reuse}

R == INSTANCE References WITH
  refs <- r_refs, live <- r_live, queue <- r_queue, signers <- r_signers, op_data <- r_op_data,
  held <- r_held, todo <- r_todo,
  Threads <- {"t1", "t2"}, Keys <- {"k1", "k2"}, Results <- {"r1"}, Items <- {"i1"},
  MaxRefs <- 2, MaxSigners <- 1

K == INSTANCE Contexts WITH
  engine_info <- k_engine_info, pc <- k_pc, arg <- k_arg, ctx <- k_ctx, lastset <- k_lastset,
  calls <- k_calls,
  Threads <- {"t1", "t2"}, Protos <- {"OpenPGP", "CMS", "UISERVER"},
  Installed <- {"OpenPGP", "CMS"}, Calls <- {"decrypt", "edit"}, MaxCalls <- 3

\* Every function of an engine is one that engine.c calls.
ASSUME EnginesDispatched == K!AllDispatched

MCInit ==
  /\ part \in {"decrypt", "contexts", "refs"}
  /\ Init /\ R!Init /\ K!Init
  /\ part # "decrypt" => script = Reuse

MCNext ==
  /\ UNCHANGED part
  /\ \/ part = "contexts" /\ K!Next /\ UNCHANGED <<references, vars>>
     \/ part = "refs" /\ R!Next /\ UNCHANGED <<contexts, vars>>
     \/ part = "decrypt" /\ Next /\ UNCHANGED <<contexts, references>>

MCSpec == MCInit /\ [][MCNext]_<<part, vars, references, contexts>>

(* Objects live exactly as long as there are references to them.           *)
ReferencesInv == R!ReferencesInv

(* What a context may rely on: the list of engines, its own engine and the *)
(* operation that it started.                                              *)
ContextsInv == K!ContextsInv
=============================================================================
