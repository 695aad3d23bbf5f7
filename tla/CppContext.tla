----------------------------- MODULE CppContext ----------------------------
(***************************************************************************)
(* GpgME::Context of the C++ binding (lang/cpp/src/context.cpp): every     *)
(* operation notes what it is in lastop and its error in lasterr and calls *)
(* the C library; the results are asked for later, by functions that look  *)
(* at lastop, take lasterr, and copy what the C library still has          *)
(* (decryptionresult.cpp and its like).  Interactors and transactions the  *)
(* C library calls back are owned by the Context.  A context may be served *)
(* by an EventLoopInteractor (eventloopinteractor.cpp) instead of wait().  *)
(***************************************************************************)
EXTENDS Integers, FiniteSets

CONSTANTS
  MaxOps,     \* bound on the operations of the C library
  MaxHeld     \* bound on the result objects the application keeps

\* What a call writes to lastop ({} when it leaves it alone), the results that
\* the C operation keeps in the context, and the object it calls back.
Op(flags, makes) == [flags |-> flags, makes |-> makes, slot |-> "none"]
Back(flags, slot) == [flags |-> flags, makes |-> {}, slot |-> slot]

ListCalls == Op({"KeyList"}, {"KeyList"})
GenerateCalls == Op({"KeyGen"}, {"KeyGen"})
ExportCalls == Op({"Export"}, {})
ImportCalls == Op({"Import"}, {"Import"})
DeleteCalls(c) == IF c = "deleteKey" THEN Op({"Delete"}, {}) ELSE Op({"Passwd"}, {})
EditCalls(c) == IF c = "edit" THEN Back({"Edit"}, "edit") ELSE Back({"CardEdit"}, "card")
TrustCalls == Op({"TrustList"}, {})
AssuanCalls == Back({"AssuanTransact"}, "assuan")
DecryptCalls == Op({"Decrypt"}, {"Decrypt"})
VerifyCalls == Op({"Verify"}, {"Verify"})
DecryptVerifyCalls == Op({"Decrypt", "Verify"}, {"Decrypt", "Verify"})
AuditCalls == Op({"GetAuditLog"}, {})
SignCalls == Op({"Sign"}, {"Sign"})
EncryptCalls == Op({"Encrypt"}, {"Encrypt"})
SignEncryptCalls == Op({"Sign", "Encrypt"}, {"Sign", "Encrypt"})
VfsCalls(c) == IF c = "createVFS" THEN Op({"CreateVFS"}, {}) ELSE Op({"MountVFS"}, {"Mount"})
\* These do not say what they are.
PolicyCalls == Op({}, {})
CreateCalls == Op({}, {"KeyGen"})
SpawnCalls == Op({}, {})

CallNames ==
  {"startKeyListing", "generateKey", "exportPublicKeys", "importKeys", "deleteKey", "passwd",
   "edit", "cardEdit", "startTrustItemListing", "assuanTransact", "decrypt", "verify",
   "decryptAndVerify", "getAuditLog", "sign", "encrypt", "encryptSymmetrically",
   "signAndEncrypt", "createVFS", "mountVFS", "setTofuPolicy", "createKey", "addUid", "revUid",
   "createSubkey", "spawn"}

Calls == [c \in CallNames |->
  CASE c = "startKeyListing" -> ListCalls [] c = "generateKey" -> GenerateCalls
    [] c = "exportPublicKeys" -> ExportCalls [] c = "importKeys" -> ImportCalls
    [] c \in {"deleteKey", "passwd"} -> DeleteCalls(c) [] c \in {"edit", "cardEdit"} -> EditCalls(c)
    [] c = "startTrustItemListing" -> TrustCalls [] c = "assuanTransact" -> AssuanCalls
    [] c = "decrypt" -> DecryptCalls [] c = "verify" -> VerifyCalls
    [] c = "decryptAndVerify" -> DecryptVerifyCalls [] c = "getAuditLog" -> AuditCalls
    [] c = "sign" -> SignCalls [] c \in {"encrypt", "encryptSymmetrically"} -> EncryptCalls
    [] c = "signAndEncrypt" -> SignEncryptCalls [] c \in {"createVFS", "mountVFS"} -> VfsCalls(c)
    [] c = "setTofuPolicy" -> PolicyCalls [] c = "spawn" -> SpawnCalls
    [] OTHER -> CreateCalls]

OnlyStarted == {"startKeyListing", "startTrustItemListing"}
OnlyWhole == {"encryptSymmetrically", "createVFS", "mountVFS"}

Slots == {"edit", "card", "assuan"}
Kinds == {"KeyList", "KeyGen", "Import", "Decrypt", "Verify", "Sign", "Encrypt", "Mount"}

VARIABLES
  lastop,     \* the flags of d->lastop
  lasterr,    \* d->lasterr: the operation it comes from (0: none), and whether it is one
  opdata,     \* the results the C context has, of its last operation
  running,    \* an operation started and not finished
  owned,      \* lastEditInteractor, lastCardEditInteractor, lastAssuanTransaction
  callee,     \* the object the C operation calls back
  managed,    \* d->iocbs is set
  callbacks,  \* EventLoopInteractor's mCallbacks has those of this context
  held,       \* result objects the application has
  outcome,    \* ghost: whether the C library's last operation has failed so far
  ops         \* operations of the C library so far

vars == <<lastop, lasterr, opdata, running, owned, callee, managed, callbacks, held, outcome, ops>>

NoCallee == [slot |-> "none", id |-> 0]
NoError(n) == [op |-> n, bad |-> FALSE]

Init ==
  /\ lastop = {} /\ lasterr = NoError(0) /\ opdata = [op |-> 0, kinds |-> {}]
  /\ running = FALSE /\ owned = [s \in Slots |-> 0] /\ callee = NoCallee
  /\ managed = FALSE /\ callbacks = FALSE /\ held = {} /\ outcome = FALSE /\ ops = 0

Noted(c, was) == IF Calls[c].flags = {} THEN was ELSE Calls[c].flags

\* The new operation ends an earlier one (_gpgme_op_reset), whose results and
\* callbacks go; a call with an interactor or transaction drops the former one
\* just before.
NewOperation(c) ==
  /\ ops < MaxOps /\ ops' = ops + 1
  /\ lastop' = Noted(c, lastop)
  /\ owned' = [s \in Slots |-> IF s = Calls[c].slot THEN ops + 1 ELSE owned[s]]
  /\ callee' = [slot |-> Calls[c].slot, id |-> IF Calls[c].slot = "none" THEN 0 ELSE ops + 1]

-----------------------------------------------------------------------------
(* The result objects.  A constructor copies the C structure; of the        *)
(* strings in it, it duplicates those named here.                           *)

Strings == [k \in Kinds |->
  CASE k = "Decrypt" -> {"unsupported_algorithm", "file_name", "symkey_algo", "session_key"}
    [] k = "Verify" -> {"file_name", "fpr", "pka_address", "notations", "policy_url"}
    [] k = "Sign" -> {"created_fpr", "invalid_fpr"}
    [] k = "Encrypt" -> {"invalid_fpr"}
    [] k = "Import" -> {"imports_fpr"}
    [] k = "KeyGen" -> {"fpr"}
    [] k = "Mount" -> {"mount_dir"}
    [] k = "KeyList" -> {}]

DecryptionResult == {"unsupported_algorithm", "file_name", "symkey_algo"}
VerificationResult == {"file_name", "fpr", "pka_address", "notations", "policy_url"}
SigningResult == {"created_fpr", "invalid_fpr"}
EncryptionResult == {"invalid_fpr"}
ImportResult == {"imports_fpr"}
KeyGenerationResult == {"fpr"}
VfsMountResult == {"mount_dir"}
KeyListResult == {}

Duplicated(k) ==
  CASE k = "Decrypt" -> DecryptionResult [] k = "Verify" -> VerificationResult
    [] k = "Sign" -> SigningResult [] k = "Encrypt" -> EncryptionResult
    [] k = "Import" -> ImportResult [] k = "KeyGen" -> KeyGenerationResult
    [] k = "Mount" -> VfsMountResult [] k = "KeyList" -> KeyListResult

\* What gpgme_op_..._result finds in the context, with the error given; bad
\* notes what the C library said of the operation.
Made(k, data, err, bad) ==
  [kind |-> k, of |-> IF k \in data.kinds THEN data.op ELSE 0, err |-> err, bad |-> bad,
   own |-> IF k \in data.kinds THEN Duplicated(k) ELSE {}]

Keep(objs) ==
  /\ Cardinality(held \cup objs) <= MaxHeld /\ held' = held \cup objs

Results == {"KeyGen", "Import", "Decrypt", "Verify", "Sign", "Encrypt"}

\* The whole of an operation.  Those with a result class return an object of it.
Call(c) ==
  /\ c \in CallNames \ OnlyStarted
  /\ NewOperation(c)
  /\ \E bad, early \in BOOLEAN :
       LET data == [op |-> ops + 1, kinds |-> IF early THEN {} ELSE Calls[c].makes]
           err == [op |-> ops + 1, bad |-> bad]
       IN  /\ early => bad
           /\ opdata' = data /\ lasterr' = err /\ outcome' = bad
           /\ Keep({Made(k, data, err, bad) : k \in Calls[c].makes \cap (Results \cup {"Mount"})})
  /\ running' = FALSE /\ callbacks' = FALSE
  /\ UNCHANGED managed

\* Its start; the engine registers its descriptors with the event loop.
Start(c) ==
  /\ c \in CallNames \ OnlyWhole
  /\ NewOperation(c)
  /\ \E bad, early \in BOOLEAN :
       /\ early => bad
       /\ opdata' = [op |-> ops + 1, kinds |-> IF early THEN {} ELSE Calls[c].makes]
       /\ lasterr' = [op |-> ops + 1, bad |-> bad] /\ outcome' = bad
       /\ running' = ~bad /\ callbacks' = (~bad /\ managed)
  /\ UNCHANGED <<managed, held>>

\* encrypt with NoEncryptTo, assuanTransact without a transaction: refused
\* before the C library is called.
RefuseEncrypt ==
  /\ lastop' = {"Encrypt"} /\ lasterr' = [op |-> 0, bad |-> TRUE]
  /\ UNCHANGED <<outcome, opdata, running, owned, callee, managed, callbacks, held, ops>>

RefuseAssuan ==
  /\ ~(running /\ callee.slot = "assuan")
  /\ lastop' = {"AssuanTransact"} /\ lasterr' = [op |-> 0, bad |-> TRUE]
  /\ owned' = [owned EXCEPT !["assuan"] = 0]
  /\ UNCHANGED <<outcome, opdata, running, callee, managed, callbacks, held, ops>>

\* importKeys of a list of keys where the engine cannot: the keys are exported
\* and the result imported.  Of these operations only the last one's error and
\* data are seen, so they are counted as one.
importKeys ==
  /\ ops < MaxOps /\ ops' = ops + 1
  /\ lastop' = {"Import"}
  /\ \E exported, bad, early \in BOOLEAN :
       LET data == [op |-> ops + 1, kinds |-> IF exported /\ ~early THEN {"Import"} ELSE {}]
           err == [op |-> ops + 1, bad |-> bad]
       IN  /\ early \/ ~exported => bad
           /\ opdata' = data /\ lasterr' = err /\ outcome' = bad
           /\ Keep({Made("Import", data, err, bad)})
  /\ running' = FALSE /\ callbacks' = FALSE /\ callee' = NoCallee
  /\ UNCHANGED <<owned, managed>>

\* nextKey, endKeyListing, nextTrustItem and the like: an error, the end of the list included.
nextKey ==
  /\ opdata.kinds = {"KeyList"} /\ running
  /\ lastop' = {"KeyList"}
  /\ \E bad \in BOOLEAN : lasterr' = [op |-> opdata.op, bad |-> bad] /\ outcome' = bad
  /\ UNCHANGED <<opdata, running, owned, callee, managed, callbacks, held, ops>>

endKeyListing ==
  /\ opdata.kinds = {"KeyList"} /\ running
  /\ \E bad \in BOOLEAN :
       LET err == [op |-> opdata.op, bad |-> bad] IN
       /\ lasterr' = err /\ outcome' = bad /\ Keep({Made("KeyList", opdata, err, bad)})
  /\ running' = FALSE /\ callbacks' = FALSE
  /\ UNCHANGED <<lastop, opdata, owned, callee, managed, ops>>

\* gpgme_get_key lists with a context of its own.
key ==
  /\ lastop' = {"KeyList"}
  /\ \E bad \in BOOLEAN : lasterr' = [op |-> 0, bad |-> bad]
  /\ UNCHANGED <<outcome, opdata, running, owned, callee, managed, callbacks, held, ops>>

\* addSigningKey, setPinentryMode, setLocale and setFlag store their error too.
Setter ==
  /\ \E bad \in BOOLEAN : lasterr' = [op |-> 0, bad |-> bad]
  /\ UNCHANGED <<outcome, lastop, opdata, running, owned, callee, managed, callbacks, held, ops>>

-----------------------------------------------------------------------------
(* The end of an operation that was started: wait() and poll(), or the      *)
(* event loop.                                                              *)

\* Mutant: the error of the operation is not noted.
wait_forgets ==
  /\ running /\ ~callbacks
  /\ outcome' \in BOOLEAN
  /\ running' = FALSE
  /\ UNCHANGED <<lastop, lasterr, opdata, owned, callee, managed, callbacks, held, ops>>

wait ==
  /\ running /\ ~callbacks
  /\ \E bad \in BOOLEAN : lasterr' = [op |-> ops, bad |-> bad] /\ outcome' = bad
  /\ running' = FALSE
  /\ UNCHANGED <<lastop, opdata, owned, callee, managed, callbacks, held, ops>>

\* actOn leads to the last descriptor's removal and GPGME_EVENT_DONE.
eventIOCb ==
  /\ running /\ callbacks
  /\ \E bad \in BOOLEAN : lasterr' = [op |-> ops, bad |-> bad] /\ outcome' = bad
  /\ running' = FALSE /\ callbacks' = FALSE
  /\ UNCHANGED <<lastop, opdata, owned, callee, managed, held, ops>>

\* setManagedByEventLoopInteractor, between operations.
manage ==
  /\ ~running /\ managed' = ~managed
  /\ UNCHANGED <<outcome, lastop, lasterr, opdata, running, owned, callee, callbacks, held, ops>>

-----------------------------------------------------------------------------
(* What the application asks for.                                            *)

\* decryptionResult() and its like: a null object unless lastop has the flag.
Accessor(k) ==
  /\ k \in Results /\ k \in lastop
  /\ Keep({Made(k, opdata, lasterr, outcome)})
  /\ UNCHANGED <<outcome, lastop, lasterr, opdata, running, owned, callee, managed, callbacks, ops>>

\* keyListResult() does not look.
keyListResult ==
  /\ Keep({Made("KeyList", opdata, lasterr, outcome)})
  /\ UNCHANGED <<outcome, lastop, lasterr, opdata, running, owned, callee, managed, callbacks, ops>>

\* takeLastEditInteractor() and its like, once the operation is over.
Take(s) ==
  /\ ~(running /\ callee.slot = s) /\ owned[s] # 0
  /\ owned' = [owned EXCEPT ![s] = 0]
  /\ UNCHANGED <<outcome, lastop, lasterr, opdata, running, callee, managed, callbacks, held, ops>>

Drop == \E h \in held :
  /\ held' = held \ {h}
  /\ UNCHANGED <<outcome, lastop, lasterr, opdata, running, owned, callee, managed, callbacks, ops>>

Next ==
  \/ \E c \in CallNames : Call(c) \/ Start(c)
  \/ RefuseEncrypt \/ RefuseAssuan \/ importKeys \/ nextKey \/ endKeyListing \/ key \/ Setter
  \/ wait \/ eventIOCb \/ manage
  \/ (\E k \in Kinds : Accessor(k)) \/ keyListResult \/ (\E s \in Slots : Take(s)) \/ Drop

Spec == Init /\ [][Next]_vars

-----------------------------------------------------------------------------
(* A result never puts the data of one operation next to the error of       *)
(* another, nor next to a success where the operation has failed: what      *)
(* decryptionResult() and its like give is of one operation, except that a  *)
(* later call that is no operation may have stored an error of its own.     *)
OneOperation == \A h \in held : h.of # 0 /\ h.err.op # 0 => h.err.op = h.of /\ h.err.bad = h.bad

(* While an operation runs, what the C library calls back is an interactor  *)
(* or transaction the Context still owns.                                   *)
CalleeAlive == running /\ callee.slot # "none" => owned[callee.slot] = callee.id

(* The accessors of a result that is kept read strings of its own, or the   *)
(* C library still has them; gpgme_op_decrypt_result's session_key is the   *)
(* one string no constructor duplicates.                                    *)
OwnStrings ==
  \A h \in held : h.of # 0 /\ h.of # opdata.op => Strings[h.kind] \ {"session_key"} \subseteq h.own

\* The event loop has the descriptors of running operations only.
LoopServesRunning == callbacks => running /\ managed

CppInv == OneOperation /\ CalleeAlive /\ OwnStrings /\ LoopServesRunning
=============================================================================
