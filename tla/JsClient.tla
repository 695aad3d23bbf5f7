----------------------------- MODULE JsClient -------------------------------
(***************************************************************************)
(* The functions of gpgme.js (gpgmejs.js, Keyring.js, Key.js, index.js) as *)
(* chains of requests: each request is answered against GnuPG's keyring as *)
(* it is at that moment, and the continuation of a promise runs when the   *)
(* answer is there.  Two chains run side by side, other programs change    *)
(* the keyring, and the chains share one GPGME_Key object whose cached     *)
(* data they replace.                                                      *)
(***************************************************************************)
EXTENDS Integers, FiniteSets, TLC

CONSTANTS
  Tasks,         \* promise chains of the application, a function call each
  Keys,          \* fingerprints
  SharedKey,     \* the key of the shared GPGME_Key object
  MaxChanges     \* bound on changes of the keyring by others

VARIABLES
  keyring,    \* what GnuPG has of a key: "absent", "public" or "secret"
  task,       \* the chains
  data,       \* _data.hasSecret of the shared object: "undefined", TRUE or FALSE as text
  complete,   \* ghost: hasSecret at the moment that a refresh resolved
  changes

vars == <<keyring, task, data, complete, changes>>

None == "none"
Idle == [fn |-> None, step |-> None, prepare |-> FALSE, keys |-> {}, secret |-> {},
         promise |-> None, listFailed |-> FALSE, overlapped |-> FALSE]

Init ==
  /\ keyring \in [Keys -> {"absent", "public", "secret"}]
  /\ task = [t \in Tasks |-> Idle] /\ data = "undefined" /\ complete = [t \in Tasks |-> None]
  /\ changes = 0

Public == {k \in Keys : keyring[k] # "absent"}
Secret == {k \in Keys : keyring[k] = "secret"}

\* The functions that are one request, whose answer or error settles the
\* promise, are alike, and encrypt stands for them all: encrypt, decrypt, sign, verify, getKeysArmored, getArmor and get.
OneRequest == {"encrypt"}
Functions == OneRequest \cup {"getKeys", "getDefaultKey", "importKey", "generateKey", "deleteKey",
                              "refreshKey", "getGnupgSecretState", "init"}

FirstStep(fn) ==
  CASE fn \in OneRequest -> "answer" [] fn = "getKeys" -> "list"
    [] fn = "getDefaultKey" -> "config" [] fn = "importKey" -> "import"
    [] fn = "generateKey" -> "create" [] fn = "deleteKey" -> "delete"
    [] fn = "refreshKey" -> "reload" [] fn = "getGnupgSecretState" -> "state"
    [] fn = "init" -> "version"

Refreshing(t) == task[t].fn = "refreshKey" /\ task[t].promise = "pending"

\* The keys that a listing is asked for: a pattern, or all.
Start(t, fn, prepare, keys) ==
  /\ task[t].promise = None
  /\ prepare => fn \in {"getKeys", "importKey"}
  /\ keys = Keys \/ fn \in {"getKeys", "importKey", "deleteKey"}
  /\ task' = [u \in Tasks |->
       IF u = t THEN [Idle EXCEPT !.fn = fn, !.step = FirstStep(fn), !.keys = keys,
                        !.prepare = prepare, !.promise = "pending",
                        !.overlapped = fn = "refreshKey" /\ \E v \in Tasks : Refreshing(v)]
       ELSE IF fn = "refreshKey" /\ Refreshing(u) THEN [task[u] EXCEPT !.overlapped = TRUE]
       ELSE task[u]]
  /\ complete' = [complete EXCEPT ![t] = None]
  /\ UNCHANGED <<keyring, data, changes>>

At(t, step) == task[t].promise = "pending" /\ task[t].step = step
Settle(t, how) == task' = [task EXCEPT ![t].promise = how, ![t].step = None]
Rejects(t) == Settle(t, "rejected") /\ UNCHANGED <<keyring, data, complete, changes>>

Answer(t) ==
  /\ At(t, "answer")
  /\ Rejects(t) \/ (Settle(t, "resolved") /\ UNCHANGED <<keyring, data, complete, changes>>)

\* GPGME_Keyring.getKeys: the first request has no rejection handler.
getKeys(t) ==
  /\ At(t, "list")
  /\ LET found == Public \cap task[t].keys
     IN \/ task' = [task EXCEPT ![t].step = None, ![t].listFailed = TRUE]
        \/ IF found = {} \/ ~task[t].prepare
           THEN task' = [task EXCEPT ![t].keys = found, ![t].promise = "resolved", ![t].step = None]
           ELSE task' = [task EXCEPT ![t].keys = found, ![t].step = "secretlist"]
  /\ UNCHANGED <<keyring, data, complete, changes>>

\* The second request of getKeys lists the secret keys only; the callers of
\* getKeys look at its result: getDefaultKey wants exactly one key.
secondrequest(t) ==
  /\ At(t, "secretlist")
  /\ \/ Rejects(t)
     \/ /\ task' = [task EXCEPT ![t].secret = Secret \cap task[t].keys, ![t].step = None,
                      ![t].promise =
                         IF task[t].fn = "getDefaultKey" /\ Cardinality(task[t].keys) # 1
                         THEN "rejected" ELSE "resolved"]
        /\ UNCHANGED <<keyring, data, complete, changes>>

\* getDefaultKey: the configured key, or the first secret key that can sign;
\* an empty answer about the option is an error.
getDefaultKey(t) ==
  /\ \/ At(t, "config") /\ task' = [task EXCEPT ![t].step = "list", ![t].prepare = TRUE]
     \/ At(t, "config") /\ task' = [task EXCEPT ![t].step = "anysecret"]
     \/ /\ At(t, "anysecret") /\ Secret # {}
        /\ \E k \in Secret : task' = [task EXCEPT ![t].keys = {k}, ![t].secret = {k},
                                        ![t].promise = "resolved", ![t].step = None]
     \/ (At(t, "config") \/ At(t, "anysecret")) /\ Settle(t, "rejected")
  /\ UNCHANGED <<keyring, data, complete, changes>>

\* importKey and generateKey change the keyring, then look the keys up.
importKey(t) ==
  /\ At(t, "import")
  /\ \/ Rejects(t)
     \/ \E new \in SUBSET task[t].keys :
          /\ keyring' = [k \in Keys |-> IF k \in new /\ keyring[k] = "absent" THEN "public"
                                        ELSE keyring[k]]
          /\ task' = [task EXCEPT ![t].keys = new,
                        ![t].step = IF new # {} /\ task[t].prepare THEN "list" ELSE None,
                        ![t].promise = IF new # {} /\ task[t].prepare THEN @ ELSE "resolved"]
          /\ UNCHANGED <<data, complete, changes>>

generateKey(t) ==
  /\ At(t, "create")
  /\ \/ Rejects(t)
     \/ \E k \in Keys : /\ keyring[k] = "absent" /\ keyring' = [keyring EXCEPT ![k] = "secret"]
                        /\ task' = [task EXCEPT ![t].keys = {k}, ![t].step = "list",
                                      ![t].prepare = TRUE]
                        /\ UNCHANGED <<data, complete, changes>>

deleteKey(t) ==
  /\ At(t, "delete")
  /\ \/ Rejects(t)
     \/ \E k \in task[t].keys : /\ keyring[k] = "public"
                                /\ keyring' = [keyring EXCEPT ![k] = "absent"]
                                /\ Settle(t, "resolved") /\ UNCHANGED <<data, complete, changes>>

\* Mutant: the state of the secret key is not asked for.
refresh_skips_state(t) ==
  /\ At(t, "reload")
  /\ \/ keyring[SharedKey] # "absent" /\ data' = "undefined" /\ task' = [task EXCEPT ![t].step = "armor"]
     \/ Settle(t, "rejected") /\ UNCHANGED data
  /\ UNCHANGED <<keyring, complete, changes>>

\* refreshKey: the cached data are replaced by those of a listing, without
\* hasSecret; then its state and the armored key are asked for.
refreshKey(t) ==
  /\ At(t, "reload")
  /\ \/ keyring[SharedKey] # "absent" /\ data' = "undefined" /\ task' = [task EXCEPT ![t].step = "state"]
     \/ Settle(t, "rejected") /\ UNCHANGED data
  /\ UNCHANGED <<keyring, complete, changes>>

getGnupgSecretState(t) ==
  /\ At(t, "state")
  /\ \/ /\ data' = IF SharedKey \in Secret THEN "true" ELSE "false"
        /\ IF task[t].fn = "refreshKey" THEN task' = [task EXCEPT ![t].step = "armor"]
           ELSE Settle(t, "resolved")
     \/ Settle(t, "rejected") /\ UNCHANGED data
  /\ UNCHANGED <<keyring, complete, changes>>

\* Mutant: a failing export is not handled.
getArmor_unhandled(t) ==
  /\ At(t, "armor")
  /\ \/ Settle(t, "resolved") /\ complete' = [complete EXCEPT ![t] = data]
     \/ task' = [task EXCEPT ![t].step = None] /\ UNCHANGED complete
  /\ UNCHANGED <<keyring, data, changes>>

getArmor(t) ==
  /\ At(t, "armor")
  /\ \/ Settle(t, "resolved") /\ complete' = [complete EXCEPT ![t] = data]
     \/ Settle(t, "rejected") /\ UNCHANGED complete
  /\ UNCHANGED <<keyring, data, changes>>

\* init: the version request races the timer of checkConnection; either is
\* the end of it, and there need not be an answer.
init(t) ==
  /\ At(t, "version")
  /\ Settle(t, "resolved") \/ Settle(t, "rejected")
  /\ UNCHANGED <<keyring, data, complete, changes>>

\* Another program changes the keyring.
OthersChange ==
  /\ changes < MaxChanges /\ changes' = changes + 1
  /\ \E k \in Keys, s \in {"absent", "public", "secret"} : keyring' = [keyring EXCEPT ![k] = s]
  /\ UNCHANGED <<task, data, complete>>

Answers(t) ==
  \/ Answer(t) \/ getKeys(t) \/ secondrequest(t) \/ getDefaultKey(t) \/ importKey(t)
  \/ generateKey(t) \/ deleteKey(t) \/ refreshKey(t) \/ getGnupgSecretState(t) \/ getArmor(t)
  \/ init(t)

Next ==
  \/ OthersChange
  \/ \E t \in Tasks : Answers(t)
  \/ \E t \in Tasks, fn \in Functions, prepare \in BOOLEAN, keys \in {Keys, {SharedKey}} :
       Start(t, fn, prepare, keys)

Spec == Init /\ [][Next]_vars
Fairness == \A t \in Tasks : WF_vars(Answers(t))

FairSpec == Spec /\ Fairness

-----------------------------------------------------------------------------
\* When refreshKey resolves, the object has all its data again, hasSecret
\* too, provided that no other refresh of the same object was under way.
RefreshComplete ==
  \A t \in Tasks : complete[t] = "undefined" => task[t].overlapped

\* Every promise settles, but for getKeys, alone or in another function, when
\* its first listing fails: nothing handles that rejection.
PromisesSettle ==
  \A t \in Tasks : task[t].promise = "pending" ~>
    (task[t].promise # "pending" \/ task[t].listFailed)
=============================================================================
