---------------------------- MODULE References -----------------------------
(***************************************************************************)
(* The objects that an application shares between threads by reference     *)
(* counts: keys (key.c), the results of operations (gpgme.c, op-support.c) *)
(* and trust items (trust-item.c).  Each thread has a context of its own,  *)
(* which holds references too: to its signers, to the results of the last  *)
(* operation and, through a keylist result, to the keys not fetched yet.   *)
(* A counter is changed under a lock; the object is taken apart after the  *)
(* lock was released, one reference at a time.                             *)
(***************************************************************************)
EXTENDS Integers, Sequences, SequencesExt

CONSTANTS
  Threads,
  Keys, Results, Items,   \* the memory objects can be made from
  MaxRefs,                \* bound on a counter
  MaxSigners              \* bound on ctx->signers

Objects == Keys \cup Results \cup Items

VARIABLES
  refs,      \* _refs, references
  live,      \* the allocated objects
  queue,     \* opd->key_queue of a keylist result
  signers,   \* ctx->signers of the thread's context
  op_data,   \* ctx->op_data, the newest first
  held,      \* the references that the application has in a thread
  todo       \* what the thread's current call has still to unref or to free

vars == <<refs, live, queue, signers, op_data, held, todo>>

Init ==
  /\ refs = [o \in Objects |-> 0] /\ live = {}
  /\ queue = [r \in Results |-> <<>>]
  /\ signers = [t \in Threads |-> <<>>] /\ op_data = [t \in Threads |-> <<>>]
  /\ held = [t \in Threads |-> [o \in Objects |-> 0]]
  /\ todo = [t \in Threads |-> <<>>]

Idle(t) == todo[t] = <<>>

Unref(s) == [i \in 1..Len(s) |-> [do |-> "unref", obj |-> s[i]]]
Free(o) == [do |-> "free", obj |-> o]

Get(t, o) == held' = [held EXCEPT ![t][o] = @ + 1]
Drop(t, o) == held' = [held EXCEPT ![t][o] = @ - 1]
Inc(o) == refs[o] < MaxRefs /\ refs' = [refs EXCEPT ![o] = @ + 1]

-----------------------------------------------------------------------------
\* A new object has one reference.
Allocate(o) ==
  /\ o \notin live /\ live' = live \cup {o}
  /\ refs' = [refs EXCEPT ![o] = 1]

\* gpgme_key_from_uid: a key made for the application.
_gpgme_key_new(t, k) ==
  /\ Idle(t) /\ Allocate(k) /\ Get(t, k)
  /\ UNCHANGED <<queue, signers, op_data, todo>>

\* A trust item, after gpgme_op_trustlist_next returned it.
_gpgme_trust_item_new(t, i) ==
  /\ Idle(t) /\ Allocate(i) /\ Get(t, i)
  /\ UNCHANGED <<queue, signers, op_data, todo>>

\* The application may take a reference to what it has one to.
Ref(t, o) ==
  /\ Idle(t) /\ held[t][o] > 0 /\ Inc(o) /\ Get(t, o)
  /\ UNCHANGED <<live, queue, signers, op_data, todo>>

gpgme_key_ref(t, k) == Ref(t, k)
gpgme_trust_item_ref(t, i) == Ref(t, i)

\* A result belongs to the context until the next operation is started: the
\* pointer that gpgme_op_decrypt_result and the like return may be used
\* without a reference, also to take one.
gpgme_result_ref(t, r) ==
  /\ Idle(t) /\ (held[t][r] > 0 \/ r \in ToSet(op_data[t]))
  /\ Inc(r) /\ Get(t, r)
  /\ UNCHANGED <<live, queue, signers, op_data, todo>>

\* The application gives up a reference.
Release(t, o) ==
  /\ Idle(t) /\ held[t][o] > 0 /\ Drop(t, o)
  /\ todo' = [todo EXCEPT ![t] = Unref(<<o>>)]
  /\ UNCHANGED <<refs, live, queue, signers, op_data>>

\* The application hands a reference to another thread.
Pass(t, u, o) ==
  /\ t # u /\ Idle(t) /\ held[t][o] > 0
  /\ held' = [held EXCEPT ![t][o] = @ - 1, ![u][o] = @ + 1]
  /\ UNCHANGED <<refs, live, queue, signers, op_data, todo>>

-----------------------------------------------------------------------------
\* The counter is decremented under the lock.
Decrement(t, o) ==
  /\ todo[t] # <<>> /\ Head(todo[t]) = Unref(<<o>>)[1]
  /\ refs' = [refs EXCEPT ![o] = @ - 1]

\* gpgme_key_unref: only the last reference frees the key.
gpgme_key_unref(t, k) ==
  /\ Decrement(t, k)
  /\ todo' = [todo EXCEPT ![t] = IF refs[k] > 1 THEN Tail(@) ELSE <<Free(k)>> \o Tail(@)]
  /\ UNCHANGED <<live, queue, signers, op_data, held>>

gpgme_trust_item_unref(t, i) ==
  /\ Decrement(t, i)
  /\ todo' = [todo EXCEPT ![t] = IF refs[i] > 1 THEN Tail(@) ELSE <<Free(i)>> \o Tail(@)]
  /\ UNCHANGED <<live, queue, signers, op_data, held>>

\* release_op_data of keylist.c: the keys that nobody fetched.
release_op_data(r) == Unref(queue[r])

\* Mutant: every reference dropped runs the cleanup function.
gpgme_result_unref_cleans(t, r) ==
  /\ Decrement(t, r)
  /\ todo' = [todo EXCEPT ![t] =
                release_op_data(r) \o (IF refs[r] > 1 THEN <<>> ELSE <<Free(r)>>) \o Tail(@)]
  /\ UNCHANGED <<live, queue, signers, op_data, held>>

\* gpgme_result_unref: the last reference runs the cleanup function, then
\* the memory is freed.
gpgme_result_unref(t, r) ==
  /\ Decrement(t, r)
  /\ IF refs[r] > 1
     THEN todo' = [todo EXCEPT ![t] = Tail(@)] /\ UNCHANGED queue
     ELSE /\ todo' = [todo EXCEPT ![t] = release_op_data(r) \o <<Free(r)>> \o Tail(@)]
          /\ queue' = [queue EXCEPT ![r] = <<>>]
  /\ UNCHANGED <<live, signers, op_data, held>>

\* The end of an unref that found the counter at zero.
FreeObject(t) ==
  /\ todo[t] # <<>> /\ Head(todo[t]).do = "free"
  /\ live' = live \ {Head(todo[t]).obj}
  /\ todo' = [todo EXCEPT ![t] = Tail(@)]
  /\ UNCHANGED <<refs, queue, signers, op_data, held>>

-----------------------------------------------------------------------------
gpgme_signers_add(t, k) ==
  /\ Idle(t) /\ held[t][k] > 0 /\ Len(signers[t]) < MaxSigners
  /\ Inc(k) /\ signers' = [signers EXCEPT ![t] = Append(@, k)]
  /\ UNCHANGED <<live, queue, op_data, held, todo>>

_gpgme_signers_clear(t) ==
  /\ Idle(t) /\ signers[t] # <<>>
  /\ todo' = [todo EXCEPT ![t] = Unref(signers[t])]
  /\ signers' = [signers EXCEPT ![t] = <<>>]
  /\ UNCHANGED <<refs, live, queue, op_data, held>>

\* The key is returned with a reference of its own.
gpgme_signers_enum(t, i) ==
  /\ Idle(t) /\ i <= Len(signers[t])
  /\ Inc(signers[t][i]) /\ Get(t, signers[t][i])
  /\ UNCHANGED <<live, queue, signers, op_data, todo>>

\* _gpgme_op_reset begins an operation: the context's results go.
_gpgme_release_result(t) ==
  /\ Idle(t) /\ op_data[t] # <<>>
  /\ todo' = [todo EXCEPT ![t] = Unref(op_data[t])]
  /\ op_data' = [op_data EXCEPT ![t] = <<>>]
  /\ UNCHANGED <<refs, live, queue, signers, held>>

\* The operation makes its result, at most two of them (sign and encrypt).
_gpgme_op_data_lookup(t, r) ==
  /\ Idle(t) /\ Len(op_data[t]) < 2
  /\ Allocate(r) /\ op_data' = [op_data EXCEPT ![t] = <<r>> \o @]
  /\ UNCHANGED <<queue, signers, held, todo>>

\* A listed key is queued with the reference it was made with.
_gpgme_op_keylist_event_cb(t, k) ==
  /\ Idle(t) /\ op_data[t] # <<>> /\ Allocate(k)
  /\ queue' = [queue EXCEPT ![Head(op_data[t])] = Append(@, k)]
  /\ UNCHANGED <<signers, op_data, held, todo>>

\* The queue's reference becomes the application's.
gpgme_op_keylist_next(t) ==
  LET r == Head(op_data[t])
  IN  /\ Idle(t) /\ op_data[t] # <<>> /\ queue[r] # <<>>
      /\ Get(t, Head(queue[r])) /\ queue' = [queue EXCEPT ![r] = Tail(@)]
      /\ UNCHANGED <<refs, live, signers, op_data, todo>>

gpgme_release(t) ==
  /\ Idle(t) /\ op_data[t] # <<>> /\ signers[t] # <<>>
  /\ todo' = [todo EXCEPT ![t] = Unref(op_data[t]) \o Unref(signers[t])]
  /\ op_data' = [op_data EXCEPT ![t] = <<>>]
  /\ signers' = [signers EXCEPT ![t] = <<>>]
  /\ UNCHANGED <<refs, live, queue, held>>

Step(t) ==
  \/ \E k \in Keys :
       \/ _gpgme_key_new(t, k) \/ gpgme_key_ref(t, k) \/ gpgme_key_unref(t, k)
       \/ gpgme_signers_add(t, k) \/ _gpgme_op_keylist_event_cb(t, k)
  \/ \E i \in Items :
       _gpgme_trust_item_new(t, i) \/ gpgme_trust_item_ref(t, i) \/ gpgme_trust_item_unref(t, i)
  \/ \E r \in Results :
       gpgme_result_ref(t, r) \/ gpgme_result_unref(t, r) \/ _gpgme_op_data_lookup(t, r)
  \/ \E o \in Objects : Release(t, o)
  \/ FreeObject(t)
  \/ _gpgme_signers_clear(t) \/ \E i \in 1..MaxSigners : gpgme_signers_enum(t, i)
  \/ _gpgme_release_result(t) \/ gpgme_op_keylist_next(t) \/ gpgme_release(t)

Next == \E t \in Threads : Step(t) \/ \E u \in Threads, o \in Objects : Pass(t, u, o)

Spec == Init /\ [][Next]_vars

\* A call that has begun to take objects apart goes on.
FairSpec ==
  Spec /\ \A t \in Threads : WF_vars(todo[t] # <<>> /\ Step(t))

-----------------------------------------------------------------------------
TypeOK ==
  /\ refs \in [Objects -> 0..MaxRefs] /\ live \subseteq Objects
  /\ queue \in [Results -> Seq(Keys)]
  /\ signers \in [Threads -> Seq(Keys)] /\ op_data \in [Threads -> Seq(Results)]
  /\ held \in [Threads -> [Objects -> 0..MaxRefs]]

Count(s, o) == Len(SelectSeq(s, LAMBDA x : x = o))

\* The references to o that a thread answers for: the application's, those
\* of the thread's context, and those that are about to be given up.
RefsOf(t, o) ==
  held[t][o] + Count(signers[t], o) + Count(op_data[t], o)
    + Count(todo[t], Unref(<<o>>)[1])

References(o) ==
  FoldFunction(LAMBDA a, b : a + b, 0, [t \in Threads |-> RefsOf(t, o)])
    + FoldFunction(LAMBDA a, b : a + b, 0, [r \in Results |-> Count(queue[r], o)])

PendingFrees(o) ==
  FoldFunction(LAMBDA a, b : a + b, 0, [t \in Threads |-> Count(todo[t], Free(o))])

(* Reference counts are exact: an object that anything refers to is         *)
(* allocated and its counter says by how many; when the counter is zero one *)
(* call, and only one, is about to free it, so nothing is used after it was *)
(* freed, freed twice or forgotten.                                         *)
CountsExact ==
  \A o \in Objects :
    /\ refs[o] = References(o)
    /\ PendingFrees(o) = IF o \in live /\ refs[o] = 0 THEN 1 ELSE 0
    /\ o \notin live => refs[o] = 0

ReferencesInv == TypeOK /\ CountsExact
=============================================================================
