------------------------------ MODULE MCTools -------------------------------
(***************************************************************************)
(* A session of gpgme-tool (ToolServer) and the documents it sends         *)
(* (ToolXml), the Context class of the C++ binding (CppContext) and its    *)
(* edit interactors (EditInteractors).  A behaviour plays one of them.     *)
(***************************************************************************)
EXTENDS ToolServer

VARIABLES
  part,      \* what is played: "tool", "xml", "cpp" or "edit"
  c_lastop, c_lasterr, c_opdata, c_running, c_owned, c_callee, c_managed, c_callbacks,
  c_held, c_outcome, c_ops,
  x_calls, x_state, x_reader,
  e_sc, e_state, e_error, e_nextId, e_backupFile, e_event, e_answer, e_key, e_over

cpp == <<c_lastop, c_lasterr, c_opdata, c_running, c_owned, c_callee, c_managed, c_callbacks,
         c_held, c_outcome, c_ops>>
xml == <<x_calls, x_state, x_reader>>
interactor == <<e_sc, e_state, e_error, e_nextId, e_backupFile, e_event, e_answer, e_key, e_over>>

C == INSTANCE CppContext WITH
  lastop <- c_lastop, lasterr <- c_lasterr, opdata <- c_opdata, running <- c_running,
  owned <- c_owned, callee <- c_callee, managed <- c_managed, callbacks <- c_callbacks,
  held <- c_held, outcome <- c_outcome, ops <- c_ops, MaxOps <- 2, MaxHeld <- 1

X == INSTANCE ToolXml WITH calls <- x_calls, state <- x_state, reader <- x_reader

\* Every interactor with the settings that change what it answers.
Interactor == [kind |-> "adduid", trust |-> 0, uids |-> <<>>, nuids |-> 1, opts |-> {},
         local |-> {}, asklevel |-> FALSE, serial |-> "none", backup |-> FALSE]

MCScenarios ==
    {Interactor, [Interactor EXCEPT !.kind = "expire"]}
    \cup {[Interactor EXCEPT !.kind = "ownertrust", !.trust = t] : t \in 0..5}
    \cup {[Interactor EXCEPT !.kind = "gencard", !.serial = s, !.backup = b] :
             s \in {"none", "match", "other"}, b \in BOOLEAN}
    \cup {[Interactor EXCEPT !.kind = "sign", !.uids = u, !.nuids = 2, !.opts = o, !.local = l,
                       !.asklevel = a] :
             u \in {<<>>, <<0>>, <<1>>, <<0, 1>>, <<1, 0>>},
             o \in SUBSET {"exportable", "nonrevocable", "trust"}, l \in SUBSET {1, 2},
             a \in BOOLEAN}
    \cup {[Interactor EXCEPT !.kind = "sign", !.uids = u, !.opts = o] :
             u \in {<<>>, <<0>>}, o \in {{}, {"exportable"}}}

E == INSTANCE EditInteractors WITH
  sc <- e_sc, state <- e_state, error <- e_error, nextId <- e_nextId,
  backupFile <- e_backupFile, event <- e_event, answer <- e_answer, key <- e_key, over <- e_over,
  Scenarios <- MCScenarios

MCInit ==
  /\ part \in {"tool", "xml", "cpp", "edit"}
  /\ Init /\ C!Init /\ X!Init /\ E!Init
  /\ part # "xml" => x_calls = CHOOSE d \in X!Documents : TRUE
  /\ part # "edit" => e_sc = Interactor /\ e_event = "OTHER"

MCNext ==
  /\ UNCHANGED part
  /\ \/ part = "tool" /\ Next /\ UNCHANGED <<cpp, xml, interactor>>
     \/ part = "xml" /\ X!Next /\ UNCHANGED <<vars, cpp, interactor>>
     \/ part = "edit" /\ E!Next /\ UNCHANGED <<vars, cpp, xml>>
     \/ part = "cpp" /\ C!Next /\ UNCHANGED <<vars, xml, interactor>>

MCSpec == MCInit /\ [][MCNext]_<<part, vars, cpp, xml, interactor>>

(* A session of gpgme-tool, and the documents that it sends.               *)
ToolInv == SessionInv /\ X!WellFormed

(* The C++ class reports its own last operation, and keeps the objects the *)
(* C library calls back.                                                   *)
CppInv == C!CppInv

(* The edit interactors answer gpg's questions as they were set up.        *)
InteractorsInv == E!InteractorsInv
=============================================================================
