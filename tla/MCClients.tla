----------------------------- MODULE MCClients ------------------------------
(***************************************************************************)
(* gpgme-json with one of its clients (NativeMessaging), and the functions *)
(* of gpgme.js that make several requests of it (JsClient).  A behaviour   *)
(* plays one of them.                                                      *)
(***************************************************************************)
EXTENDS NativeMessaging

VARIABLES
  part,      \* what is played: "json" or "js"
  j_keyring, j_task, j_data, j_complete, j_changes

js == <<j_keyring, j_task, j_data, j_complete, j_changes>>

Base == [op |-> "help", bad |-> None, proto |-> "openpgp", armor |-> FALSE, sender |-> None,
         keys |-> {}, signing |-> {}, modes |-> {}, detached |-> FALSE]
MCRequests ==
  LET R(op, bads) == {[Base EXCEPT !.op = op, !.bad = b] : b \in bads}
  IN {[Base EXCEPT !.op = "encrypt", !.armor = a, !.sender = s, !.signing = k] :
         a \in BOOLEAN, s \in {None, "s1"}, k \in {{}, {"k1", "k2"}}}
     \cup R("encrypt", {"protocol", "armor", "flag", "keys", "data"})
     \cup {[Base EXCEPT !.op = "sign", !.sender = s, !.keys = {"k1"}] : s \in {None, "s2"}}
     \cup R("sign", {"protocol", "armor", "keys", "data"})
     \cup {[Base EXCEPT !.op = "keylist", !.modes = m] : m \in {{}, {"extern"}}}
     \cup R("keylist", {"protocol", "flag"}) \cup R("decrypt", {None, "protocol", "data"})
     \cup {[Base EXCEPT !.op = "verify", !.detached = d] : d \in BOOLEAN}
     \cup R("verify", {"protocol", "signature"}) \cup R("import", {None, "protocol", "data"})
     \cup R("export", {None, "protocol", "armor", "secret"})
     \cup R("delete", {None, "protocol", "key"}) \cup R("config_opt", {None, "argument"})
     \cup R("config", {None, "argument"}) \cup R("createkey", {None, "argument"})
     \cup R("version", {None}) \cup R("help", {None})
MCJsPosts == {<<r, 10241>> : r \in MCRequests}
  \cup {<<[Base EXCEPT !.op = "decrypt"], c>> : c \in {10249, 1047552, 1048576}}
MCAnySends == {<<"command", r, Absent>> : r \in MCRequests}
  \cup {<<"command", [Base EXCEPT !.op = "import"], c>> : c \in {NotANumber, -1, 44, 49}}
  \cup {<<k, NoRequest, c>> : k \in {"other", "getmore"}, c \in {Absent, NotANumber, 49}}
  \cup {<<"invalid", NoRequest, Absent>>}
MCMaxPosts == [js |-> 2, any |-> 3]
MCLengths ==
  [c \in {Absent, NotANumber, -1, 44, 49, 10241, 10249, 1047552, 1048576} |->
     CASE c = 10241 -> {2, 7650, 15301} [] c = 10249 -> {7656}
       [] c = 1047552 -> {785631, 785632} [] c = 1048576 -> {786399, 786401} [] OTHER -> {7}]


J == INSTANCE JsClient WITH
  keyring <- j_keyring, task <- j_task, data <- j_data, complete <- j_complete,
  changes <- j_changes,
  Tasks <- {"t1", "t2"}, Keys <- {"k1", "k2"}, SharedKey <- "k1", MaxChanges <- 1

MCInit ==
  /\ part \in {"json", "js"} /\ Init /\ J!Init
  /\ part # "json" => client = "js"
  /\ part # "js" => j_keyring = [k \in {"k1", "k2"} |-> "absent"]

MCNext ==
  /\ UNCHANGED part
  /\ (part = "json" /\ Next /\ UNCHANGED js) \/ (part = "js" /\ J!Next /\ UNCHANGED vars)

MCSpec == MCInit /\ [][MCNext]_<<part, vars, js>> /\ Fairness /\ J!Fairness

(* When refreshKey of gpgme.js resolves, hasSecret is known again, unless  *)
(* another refresh of the same key object overlapped it.                   *)
RefreshComplete == J!RefreshComplete

(* A post of gpgme.js to gpgme-json settles, and so does every promise of  *)
(* its key functions: PostSettles and PromisesSettle, the latter for one   *)
(* of the two interchangeable tasks, with what they except.                *)
AnswersCome ==
  []<>(/\ phase = "idle" \/ client = "any" \/ wire.to = "nobody"
       /\ j_task["t1"].promise # "pending" \/ j_task["t1"].listFailed)
=============================================================================
