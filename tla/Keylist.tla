------------------------------- MODULE Keylist ------------------------------
(***************************************************************************)
(* A key listing with gpg: gpgme_op_keylist_start, the private event loop  *)
(* that gpgme_op_keylist_next runs until there is a key, and gpgme_get_key *)
(* which uses both.  gpg prints key records on one channel and status      *)
(* lines on another.  Another thread may ask for a cancellation at any     *)
(* time.  The trust listing of trustlist.c runs in the same loop with a    *)
(* queue and a condition of its own.                                       *)
(***************************************************************************)
EXTENDS Integers, Sequences, SequencesExt, FiniteSets

(* How the lines of a key listing become key objects: the colon handler of *)
(* keylist.c, the preprocessor for keyserver listings of engine-gpg.c, and *)
(* a reference definition of the keys a listing describes.                 *)
(*                                                                         *)
(* A line has a type, a number of fields and a value: the fingerprint of a *)
(* "fpr" record; whether a "tfs" or "spk" record is one that is supported; *)
(* whether field 18 of a "pub" or "sub" record carries a compliance flag;  *)
(* whether a "uid" record says that the user ID is revoked.                *)
(* "pub" stands for pub, sec, crt and crs, "sub" for sub and ssb, "sig"    *)
(* for sig and rev; the fields that are only copied are left out.          *)
CONSTANTS
  None       \* a null pointer

Line(type, fields, value) == [type |-> type, fields |-> fields, value |-> value]

\* The part of op_data_t the colon handler works on: the key that is being
\* read, the user ID in it (an index) and the signature in that (a pair).
NoKey == [key |-> None, uid |-> 0, sig |-> <<>>]

NewSubkey == [fpr |-> None, compliant |-> FALSE]

\* _gpgme_key_new and the first _gpgme_key_add_subkey.
NewKey == [subkeys |-> <<NewSubkey>>, uids |-> <<>>, fpr |-> None]

-----------------------------------------------------------------------------
\* Records that belong to a key are unknown before the first key.
rectype(o, l) == IF l.type = "pub" \/ o.key # None THEN l.type ELSE "none"

\* The flag taken from field 18.  With 17 fields field[17] is whatever the
\* stack holds: junk.
ComplianceFlag(l, junk) ==
  IF l.fields >= 18 THEN l.value = "de-vs" ELSE l.fields >= 17 /\ junk

_gpgme_key_add_subkey(key, sub) == [key EXCEPT !.subkeys = Append(@, sub)]

\* _gpgme_key_add_sig appends to the last user ID of the key.
_gpgme_key_add_sig(key) ==
  [key EXCEPT !.uids[Len(key.uids)].sigs = Append(@, 0)]

\* _gpgme_key_append_name and set_userid_flags.
_gpgme_key_append_name(key, flags) ==
  [key EXCEPT !.uids =
     Append(@, [revoked |-> flags = "r", tofu |-> FALSE, sigs |-> <<>>])]

\* The fingerprint goes to the last subkey unless it has one, and to the key
\* when that is the first subkey.
set_fpr(key, fpr) ==
  LET n == Len(key.subkeys)
      f == IF key.subkeys[n].fpr = None THEN fpr ELSE key.subkeys[n].fpr
  IN  [key EXCEPT !.subkeys[n].fpr = f,
                  !.fpr = IF n = 1 /\ @ = None THEN f ELSE @]

\* "We add only the first TOFU record": others, and unsupported ones, change
\* nothing.
parse_tfs_record(uid, l) == [uid EXCEPT !.tofu = @ \/ l.value = "ok"]

\* The pointers a record of type t clears.
cleared(o, t) ==
  [o EXCEPT !.uid = IF t \in {"sig", "tfs"} THEN @ ELSE 0,
            !.sig = IF t = "spk" THEN @ ELSE <<>>]

\* A record of each type that changes a key.
NewKeyRecord(l, junk) ==
  [NoKey EXCEPT !.key =
     [NewKey EXCEPT !.subkeys[1].compliant = ComplianceFlag(l, junk)]]

SubkeyRecord(o, l, junk) ==
  [o EXCEPT !.key = _gpgme_key_add_subkey(
     @, [NewSubkey EXCEPT !.compliant = ComplianceFlag(l, junk)])]

UidRecord(o, l) ==
  [o EXCEPT !.key = _gpgme_key_append_name(@, l.value),
            !.uid = Len(o.key.uids) + 1]

SigRecord(o) ==
  [o EXCEPT !.key = _gpgme_key_add_sig(@),
            !.sig = <<o.uid, Len(o.key.uids[o.uid].sigs) + 1>>]

SubpacketRecord(o) == [o EXCEPT !.key.uids[o.sig[1]].sigs[o.sig[2]] = @ + 1]

\* keylist_colon_handler for a line.  nomem says that the memory for the
\* object the record creates cannot be had; the line is then dropped, since
\* nobody looks at the error the handler returns.
keylist_colon_handler(old, l, junk, nomem) ==
  LET t == rectype(old, l)
      o == cleared(old, t)
  IN  CASE t = "pub" /\ ~nomem -> NewKeyRecord(l, junk)
        [] t = "sub" /\ ~nomem -> SubkeyRecord(o, l, junk)
        [] t = "uid" /\ l.fields >= 10 /\ ~nomem -> UidRecord(o, l)
        [] t = "tfs" /\ o.uid # 0 ->
             [o EXCEPT !.key.uids[o.uid] = parse_tfs_record(@, l)]
        [] t = "fpr" /\ l.fields >= 10 -> [o EXCEPT !.key = set_fpr(@, l.value)]
        [] t = "sig" /\ o.uid # 0 /\ ~nomem -> SigRecord(o)
        [] t = "spk" /\ o.sig # <<>> /\ l.fields >= 4 /\ l.value = "notation" ->
             SubpacketRecord(o)
        [] OTHER -> o

\* The key a line finishes: a new key ends the one before it.
Finishes(o, l, nomem) ==
  IF l.type = "pub" /\ ~nomem /\ o.key # None THEN <<o.key>> ELSE <<>>

\* The objects a line allocates.
Allocates(o, l) ==
  \/ rectype(o, l) \in {"pub", "sub"}
  \/ rectype(o, l) = "uid" /\ l.fields >= 10
  \/ rectype(o, l) = "sig" /\ o.uid # 0

-----------------------------------------------------------------------------
\* gpg_keylist_preprocess: a line of a keyserver listing as the lines of a
\* local one.  What is not rewritten was cut at its first colon.  The flags
\* of a user ID are field 5; with 4 fields field[4] is junk.
gpg_keylist_preprocess(l, junk) ==
  CASE l.type = "pub" /\ l.fields >= 7 ->
         <<Line("pub", 15, "")>> \o
         (IF l.value = "" THEN <<>> ELSE <<Line("fpr", 11, l.value)>>)
    [] l.type = "uid" ->
         <<Line("uid", 11, IF l.fields >= 5 THEN l.value
                           ELSE IF l.fields = 4 /\ junk THEN "r" ELSE "")>>
    [] OTHER -> <<[l EXCEPT !.fields = 1]>>

-----------------------------------------------------------------------------
(***************************************************************************)
(* The keys a listing describes, by the positions of its lines.  A record  *)
(* follows another one directly when only records of the given types are   *)
(* between them.                                                           *)
(***************************************************************************)
Positions(S) == SetToSortSeq(S, <)

Between(lines, i, j, types) == \A k \in (i + 1)..(j - 1) : lines[k].type \in types

\* The positions from i to the next record of one of the types.
Extent(lines, i, types) ==
  {j \in i..Len(lines) : \A k \in (i + 1)..j : lines[k].type \notin types}

ListedFpr(lines, i) ==
  LET fprs == {j \in Extent(lines, i, {"pub", "sub"}) :
                 lines[j].type = "fpr" /\ lines[j].fields >= 10}
  IN  IF fprs = {} THEN None ELSE lines[Positions(fprs)[1]].value

ListedNotations(lines, i) ==
  Cardinality({j \in (i + 1)..Len(lines) :
                 /\ lines[j].type = "spk" /\ lines[j].fields >= 4
                 /\ lines[j].value = "notation" /\ Between(lines, i, j, {"spk"})})

\* A user ID: the signatures that follow it with only records of the given
\* types in between.
ListedUid(lines, i, types) ==
  LET sigs == {j \in (i + 1)..Len(lines) :
                 lines[j].type = "sig" /\ Between(lines, i, j, types)}
  IN  [revoked |-> lines[i].value = "r",
       tofu |-> \E j \in (i + 1)..Len(lines) :
                  /\ lines[j].type = "tfs" /\ lines[j].value = "ok"
                  /\ Between(lines, i, j, types),
       sigs |-> [n \in 1..Cardinality(sigs) |->
                   ListedNotations(lines, Positions(sigs)[n])]]

ListedKey(lines, i, types) ==
  LET block == Extent(lines, i, {"pub"})
      subs == Positions({j \in block : lines[j].type \in {"pub", "sub"}})
      uids == Positions({j \in block :
                           lines[j].type = "uid" /\ lines[j].fields >= 10})
  IN  [subkeys |-> [n \in 1..Len(subs) |->
                      [fpr |-> ListedFpr(lines, subs[n]),
                       compliant |-> lines[subs[n]].fields >= 18
                                     /\ lines[subs[n]].value = "de-vs"]],
       uids |-> [n \in 1..Len(uids) |-> ListedUid(lines, uids[n], types)],
       fpr |-> ListedFpr(lines, i)]

ListedKeys(lines, types) ==
  LET keys == Positions({i \in 1..Len(lines) : lines[i].type = "pub"})
  IN  [n \in 1..Len(keys) |-> ListedKey(lines, keys[n], types)]

-----------------------------------------------------------------------------
CONSTANT
  Listings   \* what is explored, a set of records:
             \*   client   "app": an application lists keys; "get": gpgme_get_key does;
             \*            "trust": an application lists trust items
             \*   lines    the lines gpg may print
             \*   external a keyserver is searched: the preprocessor is in use
             \*   nomemory memory may run out while a key is built or queued
             \*   junk     what *field[n] may be for a field that is not there
             \* with the bounds
             \*   max      lines per listing
             \*   chunk    lines that one read returns at most
             \*   calls    calls of gpgme_op_keylist_start

Channels == {"status", "colon"}

VARIABLES
  listing,   \* the member of Listings that is played
  open,      \* the channels still in the fd table
  signaled,  \* those that select reported and that were not handled yet
  opd,       \* op_data_t: the colon handler's part
  queue,     \* opd->key_queue, or opd->trust_queue
  cond,      \* opd->key_cond, or opd->trust_cond
  dberr,     \* opd->keydb_search_err is set
  canceled,  \* ctx->canceled
  pc,        \* "app", "wait": inside gpgme_op_keylist_next, or "abort"
  ret,       \* what the last gpgme_op_keylist_next returned
  get,       \* gpgme_get_key: its state, and its result
  printed,   \* ghost: the lines passed to the colon handler
  status,    \* ghost: gpg reported a failed search
  got,       \* ghost: the keys returned in this listing
  broken,    \* ghost: an error ended this listing, or memory ran out in it
  ended,     \* ghost: gpgme_op_keylist_end was called
  calls

loopvars == <<open, signaled>>
opdvars == <<opd, queue, cond, dberr>>
ghosts == <<printed, status, got, broken, ended>>
vars == <<listing, loopvars, opdvars, ghosts, canceled, pc, ret, get, calls>>

NoGet == [state |-> "none", result |-> None, err |-> "none"]

Init ==
  /\ listing \in Listings
  /\ open = {} /\ signaled = {}
  /\ opd = NoKey /\ queue = <<>> /\ cond = FALSE /\ dberr = FALSE
  /\ canceled = FALSE /\ pc = "app" /\ ret = "none" /\ get = NoGet
  /\ printed = <<>> /\ status = FALSE /\ got = <<>> /\ broken = "no"
  /\ ended = FALSE /\ calls = 0

-----------------------------------------------------------------------------
Trust == listing.client = "trust"

\* gpgme_op_keylist_start: the old engine and the old op data are released,
\* with the keys in them.
StartListing ==
  /\ pc = "app" /\ calls < listing.calls /\ get.state \in {"none", "done"}
  /\ calls' = calls + 1
  /\ opd' = NoKey /\ queue' = <<>> /\ cond' = FALSE /\ dberr' = FALSE
  /\ canceled' = FALSE /\ signaled' = {} /\ ret' = "none"
  /\ printed' = <<>> /\ status' = FALSE /\ got' = <<>> /\ ended' = FALSE
  /\ \/ open' = Channels /\ broken' = "no"
        /\ get' = IF listing.client = "get" THEN [NoGet EXCEPT !.state = "first"] ELSE NoGet
     \/ open' = {} /\ broken' = "start" /\ get' = NoGet
  /\ pc' = "app" /\ UNCHANGED listing

gpgme_op_keylist_start == ~Trust /\ StartListing

gpgme_op_trustlist_start == Trust /\ StartListing

\* The key at the head of the queue is returned.
TakeKey(q) ==
  /\ queue' = Tail(q) /\ cond' = (Tail(q) # <<>>)
  /\ got' = Append(got, Head(q)) /\ ret' = "key" /\ pc' = "app"

\* gpgme_op_keylist_next when keys are queued, and when it has to wait.
gpgme_op_keylist_next ==
  /\ pc = "app" /\ calls > 0 /\ ~Trust
  /\ listing.client = "get" => get.state \in {"first", "more"} /\ ret = "none"
  /\ IF queue # <<>>
     THEN TakeKey(queue)
     ELSE pc' = "wait" /\ ret' = "none" /\ UNCHANGED <<queue, cond, got>>
  /\ UNCHANGED <<loopvars, opd, dberr, printed, status, broken, ended, canceled,
                 get, calls, listing>>

\* The trust item at the head of the queue is returned; only a call that
\* waited resets the condition.
TakeItem(c) ==
  /\ queue' = Tail(queue) /\ cond' = c
  /\ got' = Append(got, Head(queue)) /\ ret' = "key" /\ pc' = "app"

gpgme_op_trustlist_next ==
  /\ pc = "app" /\ calls > 0 /\ Trust
  /\ IF queue # <<>>
     THEN TakeItem(cond)
     ELSE pc' = "wait" /\ ret' = "none" /\ UNCHANGED <<queue, cond, got>>
  /\ UNCHANGED <<loopvars, opd, dberr, printed, status, broken, ended, canceled,
                 get, calls, listing>>

\* The end of the wait: the condition is reset, then the queue is asserted
\* to hold an item.
TrustWaitEnds ==
  /\ pc = "wait" /\ Trust /\ signaled = {} /\ (open = {} \/ cond)
  /\ IF cond /\ queue # <<>> THEN TakeItem(FALSE)
     ELSE /\ ret' = IF cond THEN "none" ELSE "EOF"
          /\ pc' = IF cond THEN "abort" ELSE "app"
          /\ UNCHANGED <<queue, cond, got>>
  /\ UNCHANGED <<loopvars, opd, dberr, printed, status, broken, ended, canceled,
                 get, calls, listing>>

-----------------------------------------------------------------------------
\* Mutant: the loop looks at the colon channel only.
hang_colon == "colon" \in open /\ ~cond

\* The loop goes on after a round unless nothing is left in the fd table or
\* the condition holds.
Hang == open # {} /\ ~cond

\* _gpgme_io_select: some of the channels are ready.  It waits for them
\* unless there are none at all.
Select ==
  /\ pc = "wait" /\ signaled = {} /\ Hang
  /\ \E ready \in SUBSET open \ {{}} : signaled' = ready
  /\ UNCHANGED <<open, opdvars, ghosts, canceled, pc, ret, get, calls, listing>>

\* _gpgme_cancel_with_err: all channels are closed, the error is returned.
CancelWithErr(err) ==
  /\ open' = {} /\ signaled' = {} /\ pc' = "app" /\ ret' = err /\ broken' = err

\* A signaled channel of a context that was canceled meanwhile.
RunCanceled(c) ==
  /\ pc = "wait" /\ c \in signaled /\ canceled
  /\ CancelWithErr("canceled")
  /\ UNCHANGED <<opdvars, printed, status, got, ended, canceled, get, calls, listing>>

\* A read fails.
RunFails(c) ==
  /\ pc = "wait" /\ c \in signaled /\ ~canceled
  /\ CancelWithErr("failed")
  /\ UNCHANGED <<opdvars, printed, status, got, ended, canceled, get, calls, listing>>

\* Mutant: a finished key is put in front of the queue.
event_cb_front(q, keys, nomem) == keys \o q

\* _gpgme_op_keylist_event_cb: a finished key is queued, or dropped.
_gpgme_op_keylist_event_cb(q, keys, nomem) == IF nomem THEN q ELSE q \o keys

\* Where memory runs out while a read is handled.
Shortage == IF listing.nomemory THEN {"no", "build", "queue"} ELSE {"no"}

\* Every line of a trust listing makes an item, which
\* _gpgme_op_trustlist_event_cb queues or, without memory, drops.
trustlist_colon_handler(lines, nomem) ==
  [opd |-> opd, bad |-> nomem = "queue",
   queue |-> IF nomem = "queue" THEN queue ELSE queue \o lines]

\* The lines a read returned go to the colon handler one by one.
ReadColon(lines, junk, nomem) ==
  LET step(s, l) ==
        LET keys == Finishes(s.opd, l, nomem = "build")
            lost == nomem = "queue" /\ keys # <<>>
        IN  [opd |-> keylist_colon_handler(s.opd, l, junk, nomem = "build"),
             bad |-> s.bad \/ lost \/ (nomem = "build" /\ Allocates(s.opd, l)),
             queue |-> _gpgme_op_keylist_event_cb(s.queue, keys, lost)]
  IN  FoldLeft(step, [opd |-> opd, queue |-> queue, bad |-> FALSE], lines)

Preprocessed(lines, junk) ==
  IF listing.external THEN FlattenSeq([i \in 1..Len(lines) |->
                                 gpg_keylist_preprocess(lines[i], junk)])
  ELSE lines

\* What the preprocessor's output says when all fields were there.
Meant(lines) == Preprocessed(lines, FALSE)

colon_line_handler ==
  /\ pc = "wait" /\ "colon" \in signaled /\ ~canceled
  /\ \E n \in 1..listing.chunk : Len(printed) + n <= listing.max /\
     \E lines \in [1..n -> listing.lines], junk \in listing.junk,
        nomem \in Shortage :
       LET r == IF Trust THEN trustlist_colon_handler(lines, nomem)
                ELSE ReadColon(Preprocessed(lines, junk), junk, nomem)
       IN  /\ opd' = r.opd /\ queue' = r.queue
           /\ cond' = (cond \/ Len(r.queue) > Len(queue))
           /\ printed' = printed \o Meant(lines)
           /\ broken' = IF r.bad THEN "memory" ELSE broken
  /\ signaled' = signaled \ {"colon"}
  /\ UNCHANGED <<open, dberr, status, got, ended, canceled, pc, ret, get, calls, listing>>

\* Mutant: the condition is not set for the last key.
finish_key_unsignaled(nomem) ==
  opd' = NoKey /\ queue' = Append(queue, opd.key) /\ UNCHANGED cond

\* finish_key hands the last key over.
finish_key(nomem) ==
  LET keys == IF opd.key = None THEN <<>> ELSE <<opd.key>>
  IN  /\ opd' = NoKey
      /\ queue' = _gpgme_op_keylist_event_cb(queue, keys, nomem)
      /\ cond' = (cond \/ (keys # <<>> /\ ~nomem))

\* The end of the records.
ColonEof ==
  /\ pc = "wait" /\ "colon" \in signaled /\ ~canceled
  /\ \E nomem \in BOOLEAN :
       /\ nomem => listing.nomemory /\ opd.key # None
       /\ finish_key(nomem)
       /\ broken' = IF nomem THEN "memory" ELSE broken
  /\ open' = open \ {"colon"} /\ signaled' = signaled \ {"colon"}
  /\ UNCHANGED <<dberr, printed, status, got, ended, canceled, pc, ret, get, calls, listing>>

\* A failed search is reported.
keylist_status_handler ==
  /\ pc = "wait" /\ "status" \in signaled /\ ~canceled /\ ~status /\ ~Trust
  /\ dberr' = TRUE /\ status' = TRUE
  /\ signaled' = signaled \ {"status"}
  /\ UNCHANGED <<open, opd, queue, cond, printed, got, broken, ended, canceled,
                 pc, ret, get, calls, listing>>

\* Mutant: the status channel is not closed at its end.
StatusEof_kept ==
  /\ pc = "wait" /\ "status" \in signaled /\ ~canceled
  /\ signaled' = signaled \ {"status"}
  /\ UNCHANGED <<open, opdvars, ghosts, canceled, pc, ret, get, calls, listing>>

StatusEof ==
  /\ pc = "wait" /\ "status" \in signaled /\ ~canceled
  /\ open' = open \ {"status"} /\ signaled' = signaled \ {"status"}
  /\ UNCHANGED <<opdvars, ghosts, canceled, pc, ret, get, calls, listing>>

\* The round is over and the loop ends: the result of gpgme_op_keylist_next.
WaitEnds ==
  /\ pc = "wait" /\ ~Trust /\ signaled = {} /\ ~Hang
  /\ IF cond
     THEN TakeKey(queue)
     ELSE /\ ret' = IF dberr THEN "keydb" ELSE "EOF"
          /\ pc' = "app" /\ UNCHANGED <<queue, cond, got>>
  /\ UNCHANGED <<loopvars, opd, dberr, printed, status, broken, ended, canceled,
                 get, calls, listing>>

-----------------------------------------------------------------------------
\* Another thread calls gpgme_cancel_async.
gpgme_cancel_async ==
  /\ listing.client # "get" /\ calls > 0 /\ ~canceled /\ canceled' = TRUE
  /\ UNCHANGED <<loopvars, opdvars, ghosts, pc, ret, get, calls, listing>>

\* gpgme_op_keylist_end, and gpgme_op_trustlist_end, do nothing.
gpgme_op_keylist_end ==
  /\ listing.client # "get" /\ pc = "app" /\ calls > 0 /\ ~ended /\ ended' = TRUE
  /\ UNCHANGED <<loopvars, opdvars, printed, status, got, broken, canceled, pc,
                 ret, get, calls, listing>>

GetDone(result, err) == [state |-> "done", result |-> result, err |-> err]

\* Two listed keys count as the same when both have a fingerprint and they
\* agree.
same_key(a, b) == a.subkeys[1].fpr # None /\ a.subkeys[1].fpr = b.subkeys[1].fpr

\* gpgme_get_key after a call of gpgme_op_keylist_next; at its end the
\* context it lists with is released.
get_key_step ==
  LET key == Last(got)
  IN  CASE get.state = "first" /\ ret = "key" ->
             [get EXCEPT !.state = "more", !.result = key]
        [] get.state = "first" /\ ret # "key" -> GetDone(None, ret)
        [] get.state = "more" /\ ret = "EOF" -> GetDone(get.result, "none")
        [] get.state = "more" /\ ret = "key" /\ same_key(get.result, key) -> get
        [] get.state = "more" /\ ret = "key" /\ ~same_key(get.result, key) ->
             GetDone(None, "ambiguous")
        [] OTHER -> GetDone(None, ret)

gpgme_get_key ==
  /\ pc = "app" /\ get.state \in {"first", "more"} /\ ret # "none"
  /\ get' = get_key_step /\ ret' = "none"
  /\ open' = IF get'.state = "done" THEN {} ELSE open
  /\ UNCHANGED <<signaled, opdvars, ghosts, canceled, pc, calls, listing>>

Next ==
  \/ gpgme_op_keylist_start \/ gpgme_op_keylist_next
  \/ gpgme_op_trustlist_start \/ gpgme_op_trustlist_next
  \/ Select \/ WaitEnds \/ TrustWaitEnds
  \/ \E c \in Channels : RunCanceled(c) \/ RunFails(c)
  \/ colon_line_handler \/ ColonEof \/ keylist_status_handler \/ StatusEof
  \/ gpgme_cancel_async \/ gpgme_op_keylist_end \/ gpgme_get_key

Spec == Init /\ [][Next]_vars

\* The loop runs as long as the application is in it, and gpg comes to the
\* end of its output.
FairSpec ==
  /\ Spec /\ WF_vars(Select) /\ WF_vars(WaitEnds \/ TrustWaitEnds)
  /\ WF_vars(\E c \in Channels : RunCanceled(c))
  /\ SF_vars(ColonEof) /\ SF_vars(StatusEof)
  /\ WF_vars(keylist_status_handler \/ colon_line_handler)

-----------------------------------------------------------------------------
\* The types: pointers into a key name parts it has.
TypeOK ==
  /\ listing \in Listings
  /\ open \subseteq Channels /\ signaled \subseteq open
  /\ pc \in {"app", "wait", "abort"}
  /\ ret \in {"none", "key", "EOF", "keydb", "canceled", "failed"}
  /\ opd.key = None => opd = NoKey
  /\ opd.uid # 0 => opd.uid \in 1..Len(opd.key.uids)
  /\ opd.sig # <<>> => opd.sig[2] \in 1..Len(opd.key.uids[opd.sig[1]].sigs)

\* The asserts of keylist_colon_handler: the user ID and the signature that
\* records are added to are the last ones of the key.
PointersCurrent ==
  /\ opd.uid # 0 => opd.uid = Len(opd.key.uids)
  /\ opd.sig # <<>> => opd.sig = <<Len(opd.key.uids), Len(Last(opd.key.uids).sigs)>>

\* The assert of gpgme_op_keylist_next: key_cond is set only when a key is
\* queued; and a queued key is never overlooked.  In a trust listing the
\* condition outlives the items when an earlier call returned an error.
CondMeansKeys ==
  IF Trust THEN (cond => queue # <<>>) \/ broken # "no"
  ELSE cond <=> queue # <<>>

(* What gpgme_op_keylist_next and the colon handler may rely on between the *)
(* steps of the loop: types, the last user ID and signature, the condition. *)
ListingInv == TypeOK /\ PointersCurrent /\ CondMeansKeys

AllKeys == got \o queue \o (IF opd.key = None THEN <<>> ELSE <<opd.key>>)

\* Every key gpg printed is returned once, in gpg's order, with exactly the
\* subkeys, user IDs, signatures and notations that were printed for it,
\* whatever way the output is cut into reads and the calls are interleaved
\* with them.  So is every item of a trust listing.
KeysAsListed ==
  IF Trust THEN got \o queue = printed \/ broken = "memory"
  ELSE AllKeys = ListedKeys(printed, {"sig", "tfs"})

\* GPG_ERR_EOF means that gpg came to its end, that all keys were returned
\* and that no search failed.  Only a listing that already reported an error
\* may say so without.
EofIsEnd ==
  ret = "EOF" /\ broken = "no" =>
    /\ open = {} /\ queue = <<>> /\ opd.key = None /\ ~status

\* gpgme_get_key returns a key only when the whole listing was read and all
\* keys in it have its fingerprint; it complains about an ambiguous name
\* only when there are two keys it cannot identify.
GetKeySound ==
  get.state = "done" =>
    /\ get.result # None =>
         /\ get.result = got[1] /\ queue = <<>> /\ opd.key = None /\ ~status
         /\ \A i \in 2..Len(got) : got[i].fpr = got[1].fpr /\ got[1].fpr # None
    /\ get.err = "ambiguous" =>
         \E i \in 2..Len(got) : got[i].fpr # got[1].fpr \/ got[1].fpr = None
    /\ get.result = None <=> get.err # "none"

(* An end that gpgme_op_keylist_next reports, and the key gpgme_get_key    *)
(* returns, stand for the complete listing.                                *)
AnswersComplete == EofIsEnd /\ GetKeySound

\* gpgme_op_keylist_next and gpgme_op_trustlist_next return, the latter unless
\* an error was already returned in this listing.
NextReturns == pc = "wait" ~> pc = "app" \/ (Trust /\ broken # "no")

\* GPGME_KEYLIST_MODE_SIGS: all signatures printed for a user ID are in its
\* list, those after the subpackets of another signature too.
SignaturesListed == AllKeys = ListedKeys(printed, {"sig", "tfs", "spk"})

\* A subkey is marked compliant only by a field 18 of its record.
ComplianceStated ==
  \A k \in 1..Len(AllKeys) : \A i \in 1..Len(AllKeys[k].subkeys) :
    AllKeys[k].subkeys[i].compliant =>
      ListedKeys(printed, {"sig", "tfs"})[k].subkeys[i].compliant

\* A user ID found on a keyserver is marked revoked only by the flags that
\* were printed for it.
UidFlagsStated ==
  \A k \in 1..Len(AllKeys) : \A i \in 1..Len(AllKeys[k].uids) :
    AllKeys[k].uids[i].revoked =>
      ListedKeys(printed, {"sig", "tfs"})[k].uids[i].revoked

\* A listing in which memory ran out does not end as if it were complete.
MemoryReported == ret = "EOF" => broken # "memory"

\* After gpgme_op_keylist_end the context is no longer busy.
EndEnds == ended => open = {}

=============================================================================
