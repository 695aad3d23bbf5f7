--------------------------- MODULE UserLoopProofs ---------------------------
(***************************************************************************)
(* Proof that what is registered with the application, the live tags and   *)
(* the table of descriptors agree, and that DONE is sent once, for any     *)
(* number of descriptors and operations.                                   *)
(***************************************************************************)
EXTENDS UserLoop, TLAPS

\* The types of the table and of the tags, which the arguments below need.
Tables ==
  /\ fds \in Seq(Channels \cup {NoEntry}) /\ tags \in [DOMAIN tags -> Nat]
  /\ regs \subseteq Channels /\ ready \subseteq Channels
  /\ TablesAgree

\* Descriptors are registered only while an operation is started or runs, and
\* each of them once.
Registered ==
  /\ op = "starting" => DOMAIN tags \subseteq started
  /\ op \in {"none", "over"} => DOMAIN tags = {}

LoopIInv == UserLoopInv /\ Tables /\ Registered

\* Adding a descriptor that has no entry keeps the tables in agreement: the
\* entry that fd_table_put finds is free or new (wait.c).
LEMMA AddKeepsTables ==
  ASSUME NoEntry \notin Channels, Tables, NEW c \in Channels, c \notin DOMAIN tags,
         _gpgme_wait_user_add_io_cb(c)
  PROVE  Tables' /\ DOMAIN tags' = DOMAIN tags \cup {c}
<1>1. PICK i \in 1..Len(fds) + 1 :
        /\ fd_table_put(i)
        /\ fds' = IF i > Len(fds) THEN Append(fds, c) ELSE [fds EXCEPT ![i] = c]
        /\ tags' = [d \in DOMAIN tags \cup {c} |-> IF d = c THEN i ELSE tags[d]]
  BY DEF _gpgme_wait_user_add_io_cb
<1>2. /\ fds \in Seq(Channels \cup {NoEntry}) /\ Len(fds) \in Nat
      /\ i \in Nat /\ DOMAIN tags' = DOMAIN tags \cup {c}
  BY <1>1 DEF Tables
<1>3. i <= Len(fds) => fds[i] = NoEntry
  BY <1>1, <1>2 DEF fd_table_put, FreeEntries
<1>4. /\ fds' \in Seq(Channels \cup {NoEntry})
      /\ Len(fds') \in Nat /\ Len(fds) <= Len(fds') /\ i \in 1..Len(fds')
      /\ fds'[i] = c
      /\ \A j \in 1..Len(fds') : j # i => j \in 1..Len(fds) /\ fds'[j] = fds[j]
      /\ \A j \in 1..Len(fds) : j \in 1..Len(fds')
  <2>1. CASE i > Len(fds)
    BY <1>1, <1>2, <2>1
  <2>2. CASE ~(i > Len(fds))
    BY <1>1, <1>2, <2>2
  <2> QED BY <2>1, <2>2
<1>5. tags' \in [DOMAIN tags' -> Nat]
  BY <1>1, <1>2 DEF Tables
<1>6. /\ regs' = regs \cup {c} /\ ready' = ready
  BY DEF _gpgme_wait_user_add_io_cb
<1>7. \A d \in DOMAIN tags' : tags'[d] \in 1..Len(fds') /\ fds'[tags'[d]] = d
  <2> SUFFICES ASSUME NEW d \in DOMAIN tags'
               PROVE  tags'[d] \in 1..Len(fds') /\ fds'[tags'[d]] = d
    OBVIOUS
  <2>1. CASE d = c
    BY <1>1, <1>4, <2>1
  <2>2. CASE d # c
    <3>1. d \in DOMAIN tags /\ tags'[d] = tags[d]
      BY <1>1, <2>2
    <3>2. tags[d] \in 1..Len(fds) /\ fds[tags[d]] = d /\ d \in Channels
      BY <3>1 DEF Tables, TablesAgree
    <3>3. tags[d] # i
      BY <1>2, <1>3, <3>2
    <3> QED BY <1>4, <3>1, <3>2, <3>3
  <2> QED BY <2>1, <2>2
<1>8. \A j \in 1..Len(fds') : fds'[j] # NoEntry => fds'[j] \in DOMAIN tags' /\ tags'[fds'[j]] = j
  <2> SUFFICES ASSUME NEW j \in 1..Len(fds'), fds'[j] # NoEntry
               PROVE  fds'[j] \in DOMAIN tags' /\ tags'[fds'[j]] = j
    OBVIOUS
  <2>1. CASE j = i
    BY <1>1, <1>4, <2>1
  <2>2. CASE j # i
    <3>1. j \in 1..Len(fds) /\ fds'[j] = fds[j]
      BY <1>4, <2>2
    <3>2. fds[j] \in DOMAIN tags /\ tags[fds[j]] = j
      BY <3>1 DEF Tables, TablesAgree
    <3> QED BY <1>1, <3>1, <3>2
  <2> QED BY <2>1, <2>2
<1> QED BY <1>2, <1>4, <1>5, <1>6, <1>7, <1>8 DEF Tables, TablesAgree

\* Taking registered descriptors back keeps the tables in agreement: exactly
\* their entries are freed (wait-user.c, wait.c).
LEMMA RemoveKeepsTables ==
  ASSUME NoEntry \notin Channels, Tables, NEW cs \in SUBSET DOMAIN tags,
         _gpgme_wait_user_remove_io_cb(cs)
  PROVE  Tables' /\ DOMAIN tags' = DOMAIN tags \ cs
<1>1. /\ regs' = regs \ cs /\ ready' = ready \ cs
      /\ fds' = [i \in 1..Len(fds) |-> IF \E c \in cs : tags[c] = i THEN NoEntry ELSE fds[i]]
      /\ tags' = [d \in DOMAIN tags \ cs |-> tags[d]]
  BY DEF _gpgme_wait_user_remove_io_cb
<1>2. fds \in Seq(Channels \cup {NoEntry}) /\ Len(fds) \in Nat
  BY DEF Tables
<1>3. fds' \in Seq(Channels \cup {NoEntry}) /\ Len(fds') = Len(fds)
  BY <1>1, <1>2
<1>4. DOMAIN tags' = DOMAIN tags \ cs /\ tags' \in [DOMAIN tags' -> Nat]
  BY <1>1 DEF Tables
<1>5. \A d \in DOMAIN tags' : tags'[d] \in 1..Len(fds') /\ fds'[tags'[d]] = d
  <2> SUFFICES ASSUME NEW d \in DOMAIN tags'
               PROVE  tags'[d] \in 1..Len(fds') /\ fds'[tags'[d]] = d
    OBVIOUS
  <2>1. d \in DOMAIN tags /\ d \notin cs /\ tags'[d] = tags[d]
    BY <1>1
  <2>2. tags[d] \in 1..Len(fds) /\ fds[tags[d]] = d
    BY <2>1 DEF Tables, TablesAgree
  <2>3. ~ \E c \in cs : tags[c] = tags[d]
    BY <2>1, <2>2 DEF Tables, TablesAgree
  <2> QED BY <1>1, <1>3, <2>1, <2>2, <2>3
<1>6. \A j \in 1..Len(fds') : fds'[j] # NoEntry => fds'[j] \in DOMAIN tags' /\ tags'[fds'[j]] = j
  <2> SUFFICES ASSUME NEW j \in 1..Len(fds'), fds'[j] # NoEntry
               PROVE  fds'[j] \in DOMAIN tags' /\ tags'[fds'[j]] = j
    OBVIOUS
  <2>1. j \in 1..Len(fds) /\ fds'[j] = fds[j] /\ ~ \E c \in cs : tags[c] = j
    BY <1>1, <1>3
  <2>2. fds[j] \in DOMAIN tags /\ tags[fds[j]] = j
    BY <2>1 DEF Tables, TablesAgree
  <2> QED BY <1>1, <2>1, <2>2
<1> QED BY <1>1, <1>3, <1>4, <1>5, <1>6 DEF Tables, TablesAgree

\* What every way to take back all descriptors comes to.
LEMMA RemoveAll ==
  ASSUME NoEntry \notin Channels, Tables, _gpgme_wait_user_remove_io_cb(DOMAIN tags)
  PROVE  Tables' /\ DOMAIN tags' = {} /\ regs' = {}
<1>1. Tables' /\ DOMAIN tags' = DOMAIN tags \ DOMAIN tags
  BY RemoveKeepsTables
<1> QED BY <1>1 DEF Tables, TablesAgree

\* _gpgme_cancel_with_err ends an operation with its one DONE event, or
\* leaves it as it is.
LEMMA CancelEndsOnce ==
  ASSUME NoEntry \notin Channels, LoopIInv, op = "running", NEW err, cancel_with_err(err),
         UNCHANGED <<kind, started, canceled>>
  PROVE  LoopIInv'
<1>1. CASE UNCHANGED <<fds, tags, regs, ready, op, done>>
  BY <1>1 DEF LoopIInv, UserLoopInv, TypeOK, DoneOnce, Tables, TablesAgree, Registered
<1>2. CASE _gpgme_wait_user_remove_io_cb(DOMAIN tags) /\ Event(err) /\ op' = "over"
  <2>1. Tables' /\ DOMAIN tags' = {} /\ regs' = {}
    BY <1>2, RemoveAll DEF LoopIInv
  <2>2. Len(done') = 1
    <3>1. done = <<>> /\ done' = Append(<<>>, err)
      BY <1>2 DEF LoopIInv, UserLoopInv, DoneOnce, Event
    <3> QED BY <3>1
  <2> QED BY <1>2, <2>1, <2>2 DEF LoopIInv, UserLoopInv, TypeOK, DoneOnce, Tables, Registered
<1> QED BY <1>1, <1>2 DEF cancel_with_err

LEMMA LoopInit == ASSUME Init PROVE LoopIInv
<1>1. Tables
  BY DEF Init, Tables, TablesAgree
<1> QED BY <1>1 DEF Init, LoopIInv, UserLoopInv, TypeOK, DoneOnce, Tables, Registered

\* Every step of the library and of the application keeps the invariant.
LEMMA LoopNext ==
  ASSUME NoEntry \notin Channels, LoopIInv, [Next]_vars
  PROVE  LoopIInv'
<1> USE DEF LoopIInv
<1>1. CASE StartOp
  BY <1>1 DEF StartOp, UserLoopInv, TypeOK, DoneOnce, Tables, TablesAgree, Registered
<1>2. CASE StartFails
  <2>1. Tables' /\ DOMAIN tags' = {} /\ regs' = {}
    BY <1>2, RemoveAll DEF StartFails
  <2> QED BY <1>2, <2>1 DEF StartFails, UserLoopInv, TypeOK, DoneOnce, Tables, Registered
<1>3. CASE Started
  BY <1>3 DEF Started, UserLoopInv, TypeOK, DoneOnce, Tables, TablesAgree, Registered
<1>4. CASE Select
  BY <1>4 DEF Select, UserLoopInv, TypeOK, DoneOnce, Tables, TablesAgree, Registered
<1>5. ASSUME NEW c \in Channels, _gpgme_wait_user_add_io_cb(c)
      PROVE  LoopIInv'
  <2>1. c \notin DOMAIN tags
    BY <1>5 DEF _gpgme_wait_user_add_io_cb, Registered
  <2>2. Tables' /\ DOMAIN tags' = DOMAIN tags \cup {c}
    BY <1>5, <2>1, AddKeepsTables
  <2>3. UNCHANGED <<kind, op, done, canceled>> /\ op = "starting" /\ started' = started \cup {c}
    BY <1>5 DEF _gpgme_wait_user_add_io_cb
  <2> QED BY <2>2, <2>3 DEF UserLoopInv, TypeOK, DoneOnce, Tables, Registered
<1>6. ASSUME NEW c \in Channels, HandlerCanceled(c) PROVE LoopIInv'
  BY <1>6, CancelEndsOnce DEF HandlerCanceled, Handler
<1>7. ASSUME NEW c \in Channels, HandlerFails(c) PROVE LoopIInv'
  <2>1. PICK err : cancel_with_err(err)
    BY <1>7 DEF HandlerFails
  <2> QED BY <1>7, <2>1, CancelEndsOnce DEF HandlerFails, Handler
<1>8. ASSUME NEW c \in Channels, HandlerMore(c) PROVE LoopIInv'
  BY <1>8 DEF HandlerMore, Handler, UserLoopInv, TypeOK, DoneOnce, Tables, TablesAgree, Registered
<1>9. ASSUME NEW c \in Channels, HandlerEof(c) PROVE LoopIInv'
  <2>1. c \in DOMAIN tags /\ op = "running"
    BY <1>9 DEF HandlerEof, Handler, Tables, TablesAgree
  <2>2. Tables'
    BY <1>9, <2>1, RemoveKeepsTables DEF HandlerEof
  <2>3. CASE \A i \in 1..Len(fds') : fds'[i] = NoEntry
    <3>1. DOMAIN tags' = {} /\ regs' = {}
      <4>1. ASSUME NEW d \in DOMAIN tags' PROVE FALSE
        <5>1. d \in Channels /\ tags'[d] \in 1..Len(fds') /\ fds'[tags'[d]] = d
          BY <2>2, <4>1 DEF Tables, TablesAgree
        <5> QED BY <2>3, <5>1
      <4>2. regs' = DOMAIN tags'
        BY <2>2 DEF Tables, TablesAgree
      <4> QED BY <4>1, <4>2
    <3>2. op' = "over" /\ done = <<>> /\ done' = Append(<<>>, "ok")
      BY <1>9, <2>1, <2>3 DEF HandlerEof, Event, UserLoopInv, DoneOnce
    <3>3. Len(done') = 1
      BY <3>2
    <3> QED BY <1>9, <2>2, <3>1, <3>2, <3>3
            DEF HandlerEof, UserLoopInv, TypeOK, DoneOnce, Tables, Registered
  <2>4. CASE ~ \A i \in 1..Len(fds') : fds'[i] = NoEntry
    BY <1>9, <2>1, <2>2, <2>4
       DEF HandlerEof, UserLoopInv, TypeOK, DoneOnce, Tables, Registered
  <2> QED BY <2>3, <2>4
<1>10. ASSUME NEW c \in Channels, HandlerCancels(c) PROVE LoopIInv'
  <2>1. Tables' /\ DOMAIN tags' = {} /\ regs' = {}
    BY <1>10, RemoveAll DEF HandlerCancels
  <2>2. op' = "over" /\ done' = <<>> \o <<"canceled", "ok">>
    BY <1>10 DEF HandlerCancels, Handler, UserLoopInv, DoneOnce
  <2>3. done' = <<"canceled", "ok">>
    BY <2>2
  <2> QED BY <1>10, <2>1, <2>2, <2>3
          DEF HandlerCancels, UserLoopInv, TypeOK, DoneOnce, Tables, Registered
<1>11. CASE gpgme_cancel
  BY <1>11, CancelEndsOnce DEF gpgme_cancel
<1>12. CASE gpgme_cancel_async
  BY <1>12 DEF gpgme_cancel_async, UserLoopInv, TypeOK, DoneOnce, Tables, TablesAgree, Registered
<1>13. CASE UNCHANGED vars
  BY <1>13 DEF vars, UserLoopInv, TypeOK, DoneOnce, Tables, TablesAgree, Registered
<1> QED BY <1>1, <1>2, <1>3, <1>4, <1>5, <1>6, <1>7, <1>8, <1>9, <1>10, <1>11, <1>12, <1>13
        DEF Next, Handlers

\* In every application loop, whatever the number of descriptors and of
\* operations: registrations, tags and table agree, and an operation that was
\* started is answered by one DONE event (two when its own callback canceled
\* it), sent when nothing of it is registered any more (wait-user.c).
THEOREM UserLoopSafe ==
  ASSUME NoEntry \notin Channels
  PROVE  Spec => []UserLoopInv
<1>1. Init => LoopIInv
  BY LoopInit
<1>2. LoopIInv /\ [Next]_vars => LoopIInv'
  BY LoopNext
<1>3. LoopIInv => UserLoopInv
  BY DEF LoopIInv
<1> QED BY <1>1, <1>2, <1>3, PTL DEF Spec
=============================================================================
