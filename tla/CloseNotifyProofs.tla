------------------------- MODULE CloseNotifyProofs -------------------------
(***************************************************************************)
(* The close notifications reach the right owner, for any number of owners *)
(* and descriptors and any growth of the table.                            *)
(*                                                                         *)
(* The invariants of CloseNotify are not inductive by themselves: that a   *)
(* scan finds the owner's own entry needs that no two owners hold the same *)
(* descriptor and that no descriptor has two entries.                      *)
(***************************************************************************)
EXTENDS CloseNotify, TLAPS

\* At the start there is neither table nor descriptor.
LEMMA InitInv == Init => NotifyInv
BY CloseNotifyAssumption
   DEF Init, NotifyInv, TypeOK, Phases, FdsOwned, EntriesUnique, HasEntry, EntriesLive,
       HandlerIsOwners, ToldOnlyOnClose

\* A descriptor from the kernel is nobody else's and has no entry.
LEMMA OpenInv == ASSUME NotifyInv, NEW o \in Owners, Open(o) PROVE NotifyInv'
<1>. USE CloseNotifyAssumption
<1>1. PICK f \in Fds \ open : open' = open \cup {f} /\ fd' = [fd EXCEPT ![o] = f]
  BY DEF Open
<1>2. TypeOK'
  BY <1>1 DEF NotifyInv, TypeOK, Phases, Open
<1>3. FdsOwned'
  BY <1>1 DEF NotifyInv, TypeOK, Phases, Open, FdsOwned
<1>4. EntriesUnique' /\ HasEntry'
  BY <1>1 DEF NotifyInv, TypeOK, Phases, Open, EntriesUnique, HasEntry
<1>5. EntriesLive'
  BY <1>1 DEF NotifyInv, TypeOK, Phases, Open, EntriesLive
<1>6. HandlerIsOwners' /\ ToldOnlyOnClose'
  BY <1>1 DEF NotifyInv, TypeOK, Phases, Open, HandlerIsOwners, ToldOnlyOnClose
<1>. QED BY <1>2, <1>3, <1>4, <1>5, <1>6 DEF NotifyInv

\* An owner whose descriptor is not yet registered has no entry.
LEMMA OpenedHasNoEntry ==
  ASSUME NotifyInv, NEW o \in Owners, pc[o] # "registered", pc[o] # "idle"
  PROVE \A i \in 1..size : tfd[i] # fd[o]
BY CloseNotifyAssumption DEF NotifyInv, TypeOK, FdsOwned, EntriesLive

LEMMA TakeSlotInv == ASSUME NotifyInv, NEW o \in Owners, TakeSlot(o) PROVE NotifyInv'
<1>. USE CloseNotifyAssumption
<1>1. PICK k \in 1..size :
        /\ tfd[k] = NoFd
        /\ tfd' = [tfd EXCEPT ![k] = fd[o]]
        /\ tval' = [tval EXCEPT ![k] = o]
  BY DEF TakeSlot, FirstFree
<1>2. fd[o] \in Fds /\ fd[o] # NoFd /\ pc[o] = "opened"
  BY DEF NotifyInv, TypeOK, FdsOwned, TakeSlot
<1>3. \A i \in 1..size : tfd[i] # fd[o]
  BY <1>2, OpenedHasNoEntry
<1>4. TypeOK'
  BY <1>1, <1>2 DEF NotifyInv, TypeOK, Phases, TakeSlot
<1>5. FdsOwned'
  BY <1>1, <1>2 DEF NotifyInv, TypeOK, Phases, TakeSlot, FdsOwned
<1>6. EntriesUnique'
  BY <1>1, <1>3 DEF NotifyInv, TypeOK, TakeSlot, EntriesUnique
<1>7. HasEntry'
  <2>. SUFFICES ASSUME NEW p \in Owners, pc'[p] = "registered"
                PROVE \E i \in 1..size : tfd'[i] = fd[p] /\ tval'[i] = p
    BY DEF HasEntry, TakeSlot
  <2>1. CASE p = o
    BY <2>1, <1>1 DEF NotifyInv, TypeOK
  <2>2. CASE p # o
    <3>1. pc[p] = "registered"
      BY <2>2 DEF NotifyInv, TypeOK, TakeSlot
    <3>2. PICK i \in 1..size : tfd[i] = fd[p] /\ tval[i] = p
      BY <3>1 DEF NotifyInv, HasEntry
    <3>3. fd[p] # NoFd
      BY <3>1 DEF NotifyInv, TypeOK, FdsOwned
    <3>4. i # k
      BY <3>2, <3>3, <1>1
    <3>. QED BY <3>2, <3>4, <1>1 DEF NotifyInv, TypeOK
  <2>. QED BY <2>1, <2>2
<1>8. EntriesLive'
  BY <1>1, <1>2 DEF NotifyInv, TypeOK, TakeSlot, EntriesLive
<1>9. HandlerIsOwners' /\ ToldOnlyOnClose'
  BY <1>2 DEF NotifyInv, TypeOK, Phases, TakeSlot, HandlerIsOwners, ToldOnlyOnClose
<1>. QED BY <1>4, <1>5, <1>6, <1>7, <1>8, <1>9 DEF NotifyInv

LEMMA GrowInv == ASSUME NotifyInv, NEW o \in Owners, Grow(o) PROVE NotifyInv'
<1>. USE CloseNotifyAssumption
<1>1. fd[o] \in Fds /\ fd[o] # NoFd /\ pc[o] = "opened"
  BY DEF NotifyInv, TypeOK, FdsOwned, Grow
<1>2. \A i \in 1..size : tfd[i] # fd[o]
  BY <1>1, OpenedHasNoEntry
<1>3. /\ size \in Nat /\ size' \in Nat /\ size' = size + Chunk
      /\ 1..size \subseteq 1..size' /\ size + 1 \in 1..size' /\ size + 1 \notin 1..size
  BY DEF NotifyInv, TypeOK, Grow
<1>4. /\ tfd' \in [1..size' -> Fds \cup {NoFd}]
      /\ tval' \in [1..size' -> Owners \cup {NoValue}]
      /\ \A i \in 1..size : tfd'[i] = tfd[i] /\ tval'[i] = tval[i]
      /\ tfd'[size + 1] = fd[o] /\ tval'[size + 1] = o
      /\ \A i \in 1..size' : i \in 1..size \/ i = size + 1 \/ tfd'[i] = NoFd
  BY <1>1, <1>3 DEF NotifyInv, TypeOK, Grow
<1>5. TypeOK'
  BY <1>3, <1>4 DEF NotifyInv, TypeOK, Phases, Grow
<1>6. FdsOwned'
  BY <1>1 DEF NotifyInv, TypeOK, Phases, Grow, FdsOwned
<1>7. EntriesUnique'
  BY <1>2, <1>3, <1>4 DEF NotifyInv, EntriesUnique
<1>8. HasEntry'
  <2>. SUFFICES ASSUME NEW p \in Owners, pc'[p] = "registered"
                PROVE \E i \in 1..size' : tfd'[i] = fd[p] /\ tval'[i] = p
    BY DEF HasEntry, Grow
  <2>1. CASE p = o
    BY <2>1, <1>3, <1>4
  <2>2. CASE p # o
    <3>1. pc[p] = "registered"
      BY <2>2 DEF NotifyInv, TypeOK, Grow
    <3>2. PICK i \in 1..size : tfd[i] = fd[p] /\ tval[i] = p
      BY <3>1 DEF NotifyInv, HasEntry
    <3>. QED BY <3>2, <1>3, <1>4
  <2>. QED BY <2>1, <2>2
<1>9. EntriesLive'
  <2>. SUFFICES ASSUME NEW i \in 1..size', tfd'[i] # NoFd
                PROVE tval'[i] \in Owners /\ pc'[tval'[i]] = "registered"
                      /\ fd'[tval'[i]] = tfd'[i]
    BY DEF EntriesLive
  <2>1. CASE i \in 1..size
    BY <2>1, <1>4 DEF NotifyInv, TypeOK, Grow, EntriesLive
  <2>2. CASE i = size + 1
    BY <2>2, <1>4 DEF NotifyInv, TypeOK, Grow
  <2>. QED BY <2>1, <2>2, <1>4
<1>10. HandlerIsOwners' /\ ToldOnlyOnClose'
  BY <1>1 DEF NotifyInv, TypeOK, Phases, Grow, HandlerIsOwners, ToldOnlyOnClose
<1>. QED BY <1>5, <1>6, <1>7, <1>8, <1>9, <1>10 DEF NotifyInv

LEMMA GrowFailsInv == ASSUME NotifyInv, NEW o \in Owners, GrowFails(o) PROVE NotifyInv'
<1>1. TypeOK' /\ FdsOwned' /\ EntriesUnique'
  BY DEF NotifyInv, TypeOK, Phases, FdsOwned, EntriesUnique, GrowFails
<1>2. HasEntry' /\ EntriesLive'
  BY DEF NotifyInv, TypeOK, Phases, HasEntry, EntriesLive, GrowFails
<1>3. HandlerIsOwners' /\ ToldOnlyOnClose'
  BY DEF NotifyInv, TypeOK, Phases, HandlerIsOwners, ToldOnlyOnClose, GrowFails
<1>. QED BY <1>1, <1>2, <1>3 DEF NotifyInv

\* The entry a scan finds is the owner's own, and it is the only one.
LEMMA ScanInv == ASSUME NotifyInv, NEW o \in Owners, Scan(o) PROVE NotifyInv'
<1>. USE CloseNotifyAssumption
<1>1. /\ fd[o] \in Fds /\ fd[o] # NoFd /\ pc[o] \in {"registered", "bare"}
      /\ pc' = [pc EXCEPT ![o] = "scanned"]
      /\ UNCHANGED <<size, open, fd, told>>
  BY DEF NotifyInv, TypeOK, FdsOwned, Scan
<1>2. CASE \E i \in 1..size :
             /\ FirstEntry(fd[o], i)
             /\ hit' = [hit EXCEPT ![o] = tval[i]]
             /\ tfd' = [tfd EXCEPT ![i] = NoFd]
             /\ tval' = [tval EXCEPT ![i] = NoValue]
  <2>1. PICK k \in 1..size :
          /\ tfd[k] = fd[o]
          /\ hit' = [hit EXCEPT ![o] = tval[k]]
          /\ tfd' = [tfd EXCEPT ![k] = NoFd]
          /\ tval' = [tval EXCEPT ![k] = NoValue]
    BY <1>2 DEF FirstEntry
  <2>2. tval[k] = o
    BY <2>1, <1>1 DEF NotifyInv, TypeOK, EntriesLive, FdsOwned
  <2>3. TypeOK'
    BY <1>1, <2>1, <2>2 DEF NotifyInv, TypeOK, Phases
  <2>4. FdsOwned'
    BY <1>1 DEF NotifyInv, TypeOK, FdsOwned
  <2>5. EntriesUnique'
    BY <1>1, <2>1 DEF NotifyInv, TypeOK, EntriesUnique
  <2>6. HasEntry'
    <3>. SUFFICES ASSUME NEW p \in Owners, pc'[p] = "registered"
                  PROVE \E i \in 1..size : tfd'[i] = fd[p] /\ tval'[i] = p
      BY <1>1 DEF HasEntry
    <3>1. p # o /\ pc[p] = "registered"
      BY <1>1 DEF NotifyInv, TypeOK
    <3>2. PICK i \in 1..size : tfd[i] = fd[p] /\ tval[i] = p
      BY <3>1 DEF NotifyInv, HasEntry
    <3>3. i # k
      BY <3>1, <3>2, <2>2
    <3>. QED BY <3>2, <3>3, <2>1 DEF NotifyInv, TypeOK
  <2>7. EntriesLive'
    <3>. SUFFICES ASSUME NEW i \in 1..size, tfd'[i] # NoFd
                  PROVE tval'[i] \in Owners /\ pc'[tval'[i]] = "registered"
                        /\ fd[tval'[i]] = tfd'[i]
      BY <1>1 DEF EntriesLive
    <3>1. i # k
      BY <2>1 DEF NotifyInv, TypeOK
    <3>2. tfd'[i] = tfd[i] /\ tval'[i] = tval[i]
      BY <3>1, <2>1 DEF NotifyInv, TypeOK
    <3>3. tval[i] \in Owners /\ pc[tval[i]] = "registered" /\ fd[tval[i]] = tfd[i]
      BY <3>2 DEF NotifyInv, EntriesLive
    <3>4. tval[i] # o
      BY <3>1, <3>2, <3>3, <2>1 DEF NotifyInv, EntriesUnique
    <3>. QED BY <3>2, <3>3, <3>4, <1>1 DEF NotifyInv, TypeOK
  <2>8. HandlerIsOwners' /\ ToldOnlyOnClose'
    BY <1>1, <2>1, <2>2 DEF NotifyInv, TypeOK, Phases, HandlerIsOwners, ToldOnlyOnClose
  <2>. QED BY <2>3, <2>4, <2>5, <2>6, <2>7, <2>8 DEF NotifyInv
<1>3. CASE /\ \A i \in 1..size : tfd[i] # fd[o]
           /\ hit' = [hit EXCEPT ![o] = NoValue]
           /\ UNCHANGED <<tfd, tval>>
  <2>1. TypeOK' /\ FdsOwned' /\ EntriesUnique'
    BY <1>1, <1>3 DEF NotifyInv, TypeOK, Phases, FdsOwned, EntriesUnique
  <2>2. HasEntry'
    BY <1>1, <1>3 DEF NotifyInv, TypeOK, HasEntry
  <2>3. EntriesLive'
    BY <1>1, <1>3 DEF NotifyInv, TypeOK, EntriesLive
  <2>4. HandlerIsOwners' /\ ToldOnlyOnClose'
    BY <1>1, <1>3 DEF NotifyInv, TypeOK, Phases, HandlerIsOwners, ToldOnlyOnClose
  <2>. QED BY <2>1, <2>2, <2>3, <2>4 DEF NotifyInv
<1>. QED BY <1>2, <1>3 DEF Scan

LEMMA TellInv == ASSUME NotifyInv, NEW o \in Owners, Notify(o) PROVE NotifyInv'
<1>1. TypeOK' /\ FdsOwned' /\ EntriesUnique'
  BY DEF NotifyInv, TypeOK, Phases, FdsOwned, EntriesUnique, HandlerIsOwners, Notify
<1>2. HasEntry' /\ EntriesLive'
  BY DEF NotifyInv, TypeOK, Phases, HasEntry, EntriesLive, Notify
<1>3. HandlerIsOwners'
  BY DEF NotifyInv, TypeOK, Phases, HandlerIsOwners, Notify
<1>4. told' \subseteq told \cup {o}
  BY DEF NotifyInv, HandlerIsOwners, Notify
<1>5. ToldOnlyOnClose'
  BY <1>4 DEF NotifyInv, TypeOK, Phases, ToldOnlyOnClose, Notify
<1>. QED BY <1>1, <1>2, <1>3, <1>5 DEF NotifyInv

\* A descriptor that is closed has no entry any more.
LEMMA CloseInv == ASSUME NotifyInv, NEW o \in Owners, Close(o) PROVE NotifyInv'
<1>. USE CloseNotifyAssumption
<1>1. TypeOK'
  BY DEF NotifyInv, TypeOK, Phases, Close
<1>2. FdsOwned'
  BY DEF NotifyInv, TypeOK, Phases, FdsOwned, Close
<1>3. EntriesUnique' /\ HasEntry'
  BY DEF NotifyInv, TypeOK, Phases, EntriesUnique, HasEntry, Close
<1>4. EntriesLive'
  BY DEF NotifyInv, TypeOK, Phases, EntriesLive, Close
<1>5. HandlerIsOwners' /\ ToldOnlyOnClose'
  BY DEF NotifyInv, TypeOK, Phases, HandlerIsOwners, ToldOnlyOnClose, Close
<1>. QED BY <1>1, <1>2, <1>3, <1>4, <1>5 DEF NotifyInv

LEMMA NextInv == NotifyInv /\ [Next]_vars => NotifyInv'
<1>. SUFFICES ASSUME NotifyInv, [Next]_vars PROVE NotifyInv'
  OBVIOUS
<1>1. CASE UNCHANGED vars
  BY <1>1 DEF NotifyInv, TypeOK, FdsOwned, EntriesUnique, HasEntry, EntriesLive,
              HandlerIsOwners, ToldOnlyOnClose, vars
<1>2. ASSUME NEW o \in Owners, Step(o) PROVE NotifyInv'
  BY <1>2, OpenInv, TakeSlotInv, GrowInv, GrowFailsInv, ScanInv, TellInv, CloseInv
     DEF Step
<1>. QED BY <1>1, <1>2 DEF Next

LEMMA EntryIsFirst == NotifyInv => RegisteredIsFound
<1>. SUFFICES ASSUME NotifyInv, NEW o \in Owners, pc[o] = "registered"
              PROVE \E i \in 1..size : FirstEntry(fd[o], i) /\ tval[i] = o
  BY DEF RegisteredIsFound
<1>1. PICK i \in 1..size : tfd[i] = fd[o] /\ tval[i] = o
  BY DEF NotifyInv, HasEntry
<1>2. fd[o] # NoFd
  BY CloseNotifyAssumption DEF NotifyInv, TypeOK, FdsOwned
<1>3. \A j \in 1..size : tfd[j] = fd[o] => i <= j
  BY <1>1, <1>2 DEF NotifyInv, TypeOK, EntriesUnique
<1>. QED BY <1>1, <1>3 DEF FirstEntry

(* Closing a descriptor calls the handler of its owner and nobody else's,   *)
(* for any number of threads that open, register and close descriptors      *)
(* concurrently, with _gpgme_io_close's handler call and close(2) outside   *)
(* the lock.                                                                *)
THEOREM NotificationsSound == Spec => []TableSound
<1>1. NotifyInv => TableSound
  BY EntryIsFirst DEF TableSound
<1>. QED BY InitInv, NextInv, <1>1, PTL DEF Spec
=============================================================================
