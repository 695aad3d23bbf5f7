------------------------------ MODULE AsyncOps ------------------------------
(***************************************************************************)
(* What the asynchronous interface promises to its user, without event     *)
(* loops: an operation started in a context runs, finishes with exactly    *)
(* one result, and that result is handed out exactly once.                 *)
(***************************************************************************)
CONSTANTS
  Ctx,         \* the contexts (gpgme_ctx_t)
  Results,     \* what a finished operation may report
  NoResult     \* the value of result[c] while there is none

VARIABLES
  opState,     \* [Ctx -> {"idle", "running", "finished"}]
  result       \* [Ctx -> Results \cup {NoResult}]

opVars == <<opState, result>>

OpTypeOK ==
  /\ opState \in [Ctx -> {"idle", "running", "finished"}]
  /\ result \in [Ctx -> Results \cup {NoResult}]

OpInit ==
  /\ opState = [c \in Ctx |-> "idle"]
  /\ result = [c \in Ctx |-> NoResult]

\* One of the gpgme_op_*_start functions succeeds.
Begin(c) ==
  /\ opState[c] = "idle"
  /\ opState' = [opState EXCEPT ![c] = "running"]
  /\ UNCHANGED result

\* The operation completes, fails or is cancelled: its result is fixed.
Finish(c, r) ==
  /\ opState[c] = "running"
  /\ opState' = [opState EXCEPT ![c] = "finished"]
  /\ result' = [result EXCEPT ![c] = r]

\* gpgme_wait returns the context: its result is given away.
HandOut(c) ==
  /\ opState[c] = "finished"
  /\ opState' = [opState EXCEPT ![c] = "idle"]
  /\ result' = [result EXCEPT ![c] = NoResult]

OpNext == \E c \in Ctx : Begin(c) \/ HandOut(c) \/ \E r \in Results : Finish(c, r)

OpSpec == OpInit /\ [][OpNext]_opVars
=============================================================================
