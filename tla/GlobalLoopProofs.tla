-------------------------- MODULE GlobalLoopProofs --------------------------
(***************************************************************************)
(* Proofs about GlobalLoop, for any number of contexts, channels and       *)
(* operations.                                                             *)
(***************************************************************************)
EXTENDS GlobalLoop, TLAPS

(* Lists.                                                                  *)

\* A new head shifts the items of a list by one (ctx_active, ctx_done).
LEMMA PrependItems ==
  ASSUME NEW S, NEW s \in Seq(S), NEW c \in S
  PROVE  /\ <<c>> \o s \in Seq(S)
         /\ Len(<<c>> \o s) = Len(s) + 1
         /\ (<<c>> \o s)[1] = c
         /\ \A i \in 1..Len(s) : (<<c>> \o s)[i + 1] = s[i]
         /\ \A i \in 2..(Len(s) + 1) : (<<c>> \o s)[i] = s[i - 1]
  OBVIOUS

\* Unlinking an item keeps the others in their order (ctx_done, ctx_wait).
LEMMA WithoutItems ==
  ASSUME NEW S, NEW s \in Seq(S), NEW i \in 1..Len(s)
  PROVE  /\ WithoutAt(s, i) \in Seq(S)
         /\ Len(WithoutAt(s, i)) = Len(s) - 1
         /\ \A j \in 1..(Len(s) - 1) :
              WithoutAt(s, i)[j] = IF j < i THEN s[j] ELSE s[j + 1]
<1> DEFINE n == Len(s) - 1
           F(j) == IF j < i THEN s[j] ELSE s[j + 1]
<1>1. n \in Nat /\ Len(s) \in Nat
  OBVIOUS
<1>2. \A j \in 1..n : F(j) \in S
  BY <1>1
<1>3. [j \in 1..n |-> F(j)] \in [1..n -> S]
  BY <1>2
<1>4. [j \in 1..n |-> F(j)] \in Seq(S)
  BY <1>1, <1>3
<1>5. Len([j \in 1..n |-> F(j)]) = n
  BY <1>1, <1>3
<1> QED
  BY <1>1, <1>4, <1>5 DEF WithoutAt

\* What is in a list after a new head.
LEMMA PrependInList ==
  ASSUME NEW S, NEW s \in Seq(S), NEW x \in S, NEW d
  PROVE  InList(<<x>> \o s, d) <=> d = x.ctx \/ InList(s, d)
<1> DEFINE t == <<x>> \o s
<1>1. /\ Len(t) = Len(s) + 1 /\ t[1] = x /\ Len(s) \in Nat
      /\ \A i \in 1..Len(s) : t[i + 1] = s[i]
      /\ \A i \in 2..(Len(s) + 1) : t[i] = s[i - 1]
  BY PrependItems
<1> HIDE DEF t
<1>2. ASSUME InList(t, d) PROVE d = x.ctx \/ InList(s, d)
  <2>1. PICK i \in 1..Len(t) : t[i].ctx = d
    BY <1>2 DEF InList
  <2>2. CASE i = 1
    BY <1>1, <2>1, <2>2
  <2>3. CASE i # 1
    <3>1. i \in 2..(Len(s) + 1) /\ (i - 1) \in 1..Len(s)
      BY <1>1, <2>1, <2>3
    <3> QED BY <1>1, <2>1, <3>1 DEF InList
  <2> QED BY <2>2, <2>3
<1>3. ASSUME d = x.ctx PROVE InList(t, d)
  <2>1. 1 \in 1..Len(t) /\ t[1].ctx = d
    BY <1>1, <1>3
  <2> QED BY <2>1 DEF InList
<1>4. ASSUME InList(s, d) PROVE InList(t, d)
  <2>1. PICK i \in 1..Len(s) : s[i].ctx = d
    BY <1>4 DEF InList
  <2>2. (i + 1) \in 1..Len(t) /\ t[i + 1].ctx = d
    BY <1>1, <2>1
  <2> QED BY <2>2 DEF InList
<1> QED BY <1>2, <1>3, <1>4 DEF t

\* A new head whose context was not in the list leaves it without repetition.
LEMMA PrependDistinct ==
  ASSUME NEW S, NEW s \in Seq(S), NEW x \in S, Distinct(s), ~InList(s, x.ctx)
  PROVE  Distinct(<<x>> \o s)
<1> DEFINE t == <<x>> \o s
<1>1. /\ Len(t) = Len(s) + 1 /\ t[1] = x /\ Len(s) \in Nat
      /\ \A i \in 2..(Len(s) + 1) : t[i] = s[i - 1]
  BY PrependItems
<1> HIDE DEF t
<1>2. SUFFICES ASSUME NEW i \in 1..Len(t), NEW j \in 1..Len(t), t[i].ctx = t[j].ctx
               PROVE  i = j
  BY DEF Distinct, t
<1>3. \A k \in 2..Len(t) : (k - 1) \in 1..Len(s) /\ t[k] = s[k - 1] /\ t[k].ctx # x.ctx
  <2> TAKE k \in 2..Len(t)
  <2>1. (k - 1) \in 1..Len(s) /\ t[k] = s[k - 1]
    BY <1>1
  <2> QED BY <2>1 DEF InList
<1>4. CASE i = 1
  BY <1>1, <1>2, <1>3, <1>4
<1>5. CASE j = 1
  BY <1>1, <1>2, <1>3, <1>5
<1>6. CASE i # 1 /\ j # 1
  <2>1. i \in 2..Len(t) /\ j \in 2..Len(t)
    BY <1>1, <1>6
  <2>2. (i - 1) \in 1..Len(s) /\ (j - 1) \in 1..Len(s) /\ s[i - 1].ctx = s[j - 1].ctx
    BY <1>2, <1>3, <2>1
  <2>3. i - 1 = j - 1
    BY <2>2 DEF Distinct
  <2> QED BY <2>1, <2>3
<1> QED BY <1>4, <1>5, <1>6

\* Unlinking an item of a list without repetition removes its context, and
\* only it.
LEMMA WithoutInList ==
  ASSUME NEW S, NEW s \in Seq(S), NEW i \in 1..Len(s), Distinct(s)
  PROVE  /\ Distinct(WithoutAt(s, i))
         /\ \A d : InList(WithoutAt(s, i), d) <=> InList(s, d) /\ d # s[i].ctx
<1> DEFINE t == WithoutAt(s, i)
           from(m) == IF m < i THEN m ELSE m + 1
<1>1. /\ Len(t) = Len(s) - 1 /\ Len(s) \in Nat
      /\ \A j \in 1..(Len(s) - 1) : t[j] = IF j < i THEN s[j] ELSE s[j + 1]
  BY WithoutItems
<1> HIDE DEF t
<1>2. \A m \in 1..Len(t) : from(m) \in 1..Len(s) /\ t[m] = s[from(m)] /\ from(m) # i
  BY <1>1
<1>3. \A m, n \in 1..Len(t) : from(m) = from(n) => m = n
  BY <1>1
<1>4. \A j \in 1..Len(s) : j # i => \E m \in 1..Len(t) : from(m) = j
  <2> SUFFICES ASSUME NEW j \in 1..Len(s), j # i
               PROVE  \E m \in 1..Len(t) : from(m) = j
    OBVIOUS
  <2>1. CASE j < i
    <3>1. j \in 1..Len(t) /\ from(j) = j
      BY <1>1, <2>1
    <3> QED BY <3>1
  <2>2. CASE ~(j < i)
    <3>1. (j - 1) \in 1..Len(t) /\ from(j - 1) = j
      BY <1>1, <2>2
    <3> QED BY <3>1
  <2> QED BY <2>1, <2>2
<1> HIDE DEF from
<1>5. Distinct(t)
  BY <1>2, <1>3 DEF Distinct
<1>6. ASSUME NEW d, InList(t, d) PROVE InList(s, d) /\ d # s[i].ctx
  BY <1>2, <1>6 DEF InList, Distinct
<1>7. ASSUME NEW d, InList(s, d), d # s[i].ctx PROVE InList(t, d)
  <2>1. PICK j \in 1..Len(s) : s[j].ctx = d
    BY <1>7 DEF InList
  <2>2. PICK m \in 1..Len(t) : from(m) = j
    BY <1>4, <1>7, <2>1
  <2> QED BY <1>2, <2>1, <2>2 DEF InList
<1> QED BY <1>5, <1>6, <1>7 DEF t
-----------------------------------------------------------------------------
(* Type correctness.                                                       *)

\* The lists hold contexts.
LEMMA ItemType ==
  ASSUME TypeOK
  PROVE  /\ \A i \in 1..Len(activeList) : activeList[i].ctx \in Ctx
         /\ \A i \in 1..Len(doneList) : doneList[i] \in DoneItem /\ doneList[i].ctx \in Ctx
<1>1. activeList \in Seq(Item) /\ doneList \in Seq(DoneItem)
  BY DEF TypeOK
<1>2. \A i \in 1..Len(activeList) : activeList[i] \in Item
  BY <1>1
<1>3. \A i \in 1..Len(doneList) : doneList[i] \in DoneItem
  BY <1>1
<1> QED BY <1>2, <1>3 DEF Item, DoneItem

\* ctx_done keeps the lists well-typed.
LEMMA CtxDoneType ==
  ASSUME TypeOK, NEW c \in Ctx, NEW st \in Codes, NEW oe \in {"none", "op"},
         ctx_done(c, st, oe)
  PROVE  /\ activeList' \in Seq(Item)
         /\ doneList' \in Seq(DoneItem)
         /\ fault' \in {"none", "assert", "null"}
<1>1. activeList \in Seq(Item) /\ doneList \in Seq(DoneItem)
      /\ fault \in {"none", "assert", "null"}
  BY DEF TypeOK
<1>2. CASE \E i \in 1..Len(activeList) : activeList' = WithoutAt(activeList, i)
           /\ doneList' = <<[ctx |-> c, status |-> st, op_err |-> oe]>> \o doneList
           /\ fault' = fault
  <2>1. [ctx |-> c, status |-> st, op_err |-> oe] \in DoneItem
    BY DEF DoneItem
  <2>2. doneList' \in Seq(DoneItem)
    BY <1>1, <1>2, <2>1, PrependItems
  <2>3. activeList' \in Seq(Item)
    BY <1>1, <1>2, WithoutItems
  <2> QED BY <1>1, <1>2, <2>2, <2>3
<1>3. CASE fault' = "assert" /\ UNCHANGED listVars
  BY <1>1, <1>3 DEF listVars
<1> QED BY <1>2, <1>3 DEF ctx_done

\* Cancelling keeps everything it touches well-typed.
LEMMA CancelType ==
  ASSUME TypeOK, NEW c \in Ctx, NEW st \in Codes, NEW oe \in {"none", "op"},
         cancel_with_err(c, st, oe)
  PROVE  /\ fdt' \in [Ctx -> SUBSET Chan] /\ ready' \in [Ctx -> SUBSET Chan]
         /\ activeList' \in Seq(Item)
         /\ doneList' \in Seq(DoneItem)
         /\ fault' \in {"none", "assert", "null"}
  BY CtxDoneType DEF cancel_with_err, TypeOK

\* No action leaves the types.
LEMMA TypeStep == TypeOK /\ [Next]_vars => TypeOK'
<1> USE GlobalLoopAssumption
<1> SUFFICES ASSUME TypeOK, [Next]_vars PROVE TypeOK'
  OBVIOUS
<1> USE DEF ctxVars, ioVars, listVars, waitVars
<1>1. ASSUME NEW c \in Ctx, StartOp(c) PROVE TypeOK'
  <2>1. ops[c] + 1 \in 0..MaxOps /\ MaxIO \in 0..MaxIO
    BY <1>1 DEF TypeOK, StartOp, TypeOK
  <2> QED BY Zenon, <1>1, <2>1 DEF TypeOK, StartOp, Phases, Initial
<1>2. ASSUME NEW c \in Ctx, StartOpFails(c) PROVE TypeOK'
  <2>1. ops[c] + 1 \in 0..MaxOps /\ MaxIO \in 0..MaxIO
    BY <1>2 DEF TypeOK, StartOpFails
  <2>2. PICK S \in SUBSET Initial : fdt' = [fdt EXCEPT ![c] = S]
    BY Zenon, <1>2 DEF StartOpFails
  <2>3. fdt' \in [Ctx -> SUBSET Chan]
    BY <2>2 DEF TypeOK, Initial
  <2> QED BY Zenon, <1>2, <2>1, <2>3 DEF TypeOK, StartOpFails
<1>3. ASSUME NEW c \in Ctx, StartEvent(c) PROVE TypeOK'
  <2>1. CASE ctx_active(c) /\ phase' = [phase EXCEPT ![c] = "pending"]
             /\ UNCHANGED <<ioVars, fault>>
    <3>1. [ctx |-> c] \in Item
      BY DEF Item
    <3>2. activeList' \in Seq(Item)
      BY <2>1, <3>1, PrependItems DEF TypeOK, ctx_active
    <3> QED BY <1>3, <2>1, <3>2 DEF TypeOK, StartEvent, ctx_active, Phases
  <2>2. CASE cancel_with_err(c, "failed", "none") /\ UNCHANGED <<phase, left, eof>>
    BY Zenon, <1>3, <2>2, CancelType DEF TypeOK, StartEvent, Codes
  <2> QED BY <1>3, <2>1, <2>2 DEF StartEvent
<1>4. ASSUME NEW c \in Ctx, Cancel(c) PROVE TypeOK'
  BY Zenon, <1>4, CancelType DEF TypeOK, Cancel, Codes
<1>5. ASSUME NEW c \in Ctx, CancelAsync(c) PROVE TypeOK'
  BY SMTT(30), <1>5 DEF TypeOK, CancelAsync
<1>6. ASSUME NEW c \in Ctx, Release(c) PROVE TypeOK'
  BY <1>6 DEF TypeOK, Release, Phases
<1>7. ASSUME NEW c \in Ctx, NEW ch \in Chan, EngineReady(c, ch) PROVE TypeOK'
  BY <1>7 DEF TypeOK, EngineReady
<1>8. ASSUME NEW a \in WaitArgs, NEW hang \in BOOLEAN, WaitCall(a, hang) PROVE TypeOK'
  BY SMTT(30), <1>8 DEF TypeOK, WaitCall
<1>9. CASE Collect
  BY Zenon, <1>9 DEF TypeOK, Collect, Return
<1>10. CASE Select
  BY Zenon, <1>10 DEF TypeOK, Select, Return
<1>11. ASSUME NEW e \in sig, Handle(e) PROVE TypeOK'
  <2>1. e[1] \in Ctx /\ e[2] \in Chan
    BY DEF TypeOK
  <2>2. CASE wctx = NoCtx /\ fault' = "null" /\ UNCHANGED <<ioVars, listVars, wpc, sig>>
    BY SMTT(30), <1>11, <2>2 DEF TypeOK, Handle
  <2>3. ASSUME NEW st \in Codes, NEW oe \in {"none", "op"},
               CancelAndBreak(e[1], st, oe)
        PROVE  TypeOK'
    <3>1. /\ fdt' \in [Ctx -> SUBSET Chan] /\ ready' \in [Ctx -> SUBSET Chan]
          /\ activeList' \in Seq(Item)
          /\ doneList' \in Seq(DoneItem)
          /\ fault' \in {"none", "assert", "null"}
      BY <2>1, <2>3, CancelType DEF CancelAndBreak
    <3> QED BY SMTT(30), <1>11, <2>3, <3>1 DEF TypeOK, Handle, CancelAndBreak
  <2>4. CASE More(e[1], e[2]) /\ sig' = sig \ {e} /\ UNCHANGED wpc
    <3>1. left[e[1]] - 1 \in 0..MaxIO
      BY <2>1, <2>4 DEF TypeOK, More
    <3>2. left' \in [Ctx -> 0..MaxIO]
      BY <2>4, <3>1 DEF TypeOK, More
    <3>3. fdt' \in [Ctx -> SUBSET Chan]
      <4>1. fdt \in [Ctx -> SUBSET Chan] /\ CmdChan \in Chan
        BY DEF TypeOK
      <4>2. fdt' = fdt \/ fdt' = [fdt EXCEPT ![e[1]] = @ \cup {CmdChan}]
        BY <2>4 DEF More
      <4> QED BY <4>1, <4>2
    <3>4. ready' \in [Ctx -> SUBSET Chan]
      BY <2>4 DEF TypeOK, More
    <3> QED BY Zenon, <1>11, <2>4, <3>2, <3>3, <3>4 DEF TypeOK, Handle, More
  <2>5. CASE Last(e[1], e[2]) /\ sig' = sig \ {e} /\ UNCHANGED wpc
    BY SMTT(30), <1>11, <2>1, <2>5 DEF TypeOK, Handle, Last
  <2>6. CASE sig' = sig \ {e} /\ UNCHANGED <<ioVars, listVars, wpc, fault>>
    BY Zenon, <1>11, <2>6 DEF TypeOK, Handle
  <2> QED BY Zenon, <1>11, <2>2, <2>3, <2>4, <2>5, <2>6 DEF TypeOK, Handle, Codes
<1>12. CASE HandledAll
  BY <1>12 DEF TypeOK, HandledAll
<1>13. CASE Sweep
  BY <1>13, ItemType DEF TypeOK, Sweep
<1>14. CASE SendDone
  <2>1. sctx \in Ctx
    BY <1>14 DEF TypeOK, SendDone
  <2> QED BY Zenon, <1>14, <2>1, CtxDoneType DEF TypeOK, SendDone, Codes
<1>15. CASE Take
  <2>1. \A i \in 1..Len(doneList) : WithoutAt(doneList, i) \in Seq(DoneItem)
    BY WithoutItems DEF TypeOK
  <2>2. CASE \E i \in 1..Len(doneList) :
               /\ RemoveDone(i)
               /\ phase' = [phase EXCEPT ![doneList[i].ctx] = IF @ = "pending" THEN "idle" ELSE @]
               /\ Return
    <3>1. phase' \in [Ctx -> Phases] /\ doneList' \in Seq(DoneItem)
      BY SMTT(30), <2>1, <2>2, ItemType DEF TypeOK, RemoveDone, Phases
    <3> QED BY Zenon, <1>15, <2>2, <3>1 DEF TypeOK, Take, Return
  <2>3. CASE (IF whang THEN Again ELSE Return) /\ UNCHANGED <<phase, doneList>>
    BY Zenon, <1>15, <2>3 DEF TypeOK, Take, Return, Again
  <2> QED BY <1>15, <2>2, <2>3 DEF Take
<1>16. CASE UNCHANGED vars
  BY SMTT(30), <1>16 DEF TypeOK, vars
<1> QED
  BY <1>1, <1>2, <1>3, <1>4, <1>5, <1>6, <1>7, <1>8, <1>9, <1>10, <1>11,
     <1>12, <1>13, <1>14, <1>15, <1>16 DEF Next, Wait

\* The initial state has the types.
LEMMA TypeInit == Init => TypeOK
<1>0. MaxOps \in Nat /\ MaxIO \in Nat
  BY Zenon, GlobalLoopAssumption
<1>1. 0 \in 0..MaxOps /\ 0 \in 0..MaxIO
  BY <1>0
<1>2. <<>> \in Seq(Item) /\ <<>> \in Seq(DoneItem)
  OBVIOUS
<1> QED BY Zenon, <1>1, <1>2 DEF Init, TypeOK, Phases

\* Every variable keeps its type in every step of the program and the loop.
THEOREM TypeCorrect == Spec => []TypeOK
  BY TypeInit, TypeStep, PTL DEF Spec
-----------------------------------------------------------------------------
(* The inductive invariant.                                                *)

\* What is known of a done item: nothing of its context is registered, and a
\* success is complete.
DoneSound(d) ==
  /\ fdt[d.ctx] = {}
  /\ d.status = "none" /\ d.op_err = "none" => Initial \subseteq eof[d.ctx]

\* DoneSound of all done items is the two invariants about the done list.
LEMMA DoneSoundIs ==
  FinishedIsQuiet /\ SuccessIsComplete <=> \A i \in 1..Len(doneList) : DoneSound(doneList[i])
  BY Zenon DEF FinishedIsQuiet, SuccessIsComplete, DoneSound

\* ctx_done moves a context from one list to the other, or finds none.
LEMMA CtxDoneMoves ==
  ASSUME TypeOK, ListsSound,
         NEW c \in Ctx, NEW st \in Codes, NEW oe \in {"none", "op"}, ctx_done(c, st, oe)
  PROVE  \/ /\ InList(activeList, c) /\ fault' = fault
            /\ Distinct(activeList') /\ Distinct(doneList')
            /\ \A d : InList(activeList', d) <=> InList(activeList, d) /\ d # c
            /\ \A d : InList(doneList', d) <=> d = c \/ InList(doneList, d)
            /\ \A i \in 1..Len(doneList') :
                 \/ doneList'[i] = [ctx |-> c, status |-> st, op_err |-> oe]
                 \/ \E j \in 1..Len(doneList) : doneList'[i] = doneList[j]
         \/ ~InList(activeList, c) /\ fault' = "assert" /\ UNCHANGED listVars
<1> DEFINE x == [ctx |-> c, status |-> st, op_err |-> oe]
<1>1. activeList \in Seq(Item) /\ doneList \in Seq(DoneItem) /\ x \in DoneItem /\ x.ctx = c
  BY DEF TypeOK, DoneItem
<1>2. Distinct(activeList) /\ Distinct(doneList)
      /\ ~(InList(activeList, c) /\ InList(doneList, c))
  BY DEF ListsSound
<1>3. CASE \E i \in 1..Len(activeList) :
             activeList[i].ctx = c /\ activeList' = WithoutAt(activeList, i)
           /\ doneList' = <<x>> \o doneList /\ fault' = fault
  <2>1. PICK i \in 1..Len(activeList) :
          activeList[i].ctx = c /\ activeList' = WithoutAt(activeList, i)
    BY <1>3
  <2>2. InList(activeList, c)
    BY <2>1 DEF InList
  <2>3. /\ Distinct(activeList')
        /\ \A d : InList(activeList', d) <=> InList(activeList, d) /\ d # c
    BY <1>1, <1>2, <2>1, WithoutInList
  <2> HIDE DEF x
  <2>4. Distinct(doneList')
    BY <1>1, <1>2, <1>3, <2>2, PrependDistinct
  <2>5. \A d : InList(doneList', d) <=> d = c \/ InList(doneList, d)
    BY <1>1, <1>3, PrependInList
  <2>6. \A i_1 \in 1..Len(doneList') :
          doneList'[i_1] = x \/ \E j \in 1..Len(doneList) : doneList'[i_1] = doneList[j]
    <3>1. /\ Len(doneList') = Len(doneList) + 1 /\ Len(doneList) \in Nat
          /\ doneList'[1] = x
          /\ \A k \in 2..(Len(doneList) + 1) : doneList'[k] = doneList[k - 1]
      BY <1>1, <1>3, PrependItems
    <3> TAKE k \in 1..Len(doneList')
    <3>2. CASE k = 1
      BY <3>1, <3>2
    <3>3. CASE k # 1
      <4>1. (k - 1) \in 1..Len(doneList) /\ doneList'[k] = doneList[k - 1]
        BY <3>1, <3>3
      <4> QED BY <4>1
    <3> QED BY <3>2, <3>3
  <2> QED BY <1>3, <2>2, <2>3, <2>4, <2>5, <2>6 DEF x
<1>4. CASE ~InList(activeList, c) /\ fault' = "assert" /\ UNCHANGED listVars
  BY <1>4
<1> QED BY <1>3, <1>4 DEF ctx_done

\* ctx_wait removes the item it returns and leaves the others alone.
LEMMA TakeRemoves ==
  ASSUME TypeOK, ListsSound, NEW i \in 1..Len(doneList), RemoveDone(i)
  PROVE  /\ Distinct(doneList')
         /\ \A d : InList(doneList', d) <=> InList(doneList, d) /\ d # doneList[i].ctx
         /\ \A k \in 1..Len(doneList') : \E j \in 1..Len(doneList) : doneList'[k] = doneList[j]
<1>1. doneList \in Seq(DoneItem) /\ Distinct(doneList) /\ doneList' = WithoutAt(doneList, i)
  BY DEF TypeOK, ListsSound, RemoveDone
<1>2. /\ Len(doneList') = Len(doneList) - 1 /\ Len(doneList) \in Nat
      /\ \A j \in 1..(Len(doneList) - 1) :
           doneList'[j] = IF j < i THEN doneList[j] ELSE doneList[j + 1]
  BY SMTT(30), <1>1, WithoutItems
<1>3. ASSUME NEW k \in 1..Len(doneList')
      PROVE  \E j \in 1..Len(doneList) : doneList'[k] = doneList[j]
  <2>1. k \in 1..Len(doneList) /\ (k + 1) \in 1..Len(doneList)
        /\ (doneList'[k] = doneList[k] \/ doneList'[k] = doneList[k + 1])
    BY <1>2
  <2> QED BY <2>1
<1> QED BY <1>1, <1>3, WithoutInList

\* Cancelling with an error keeps the lists sound, completeness known and
\* finished contexts quiet, whether or not the context was active.
LEMMA CancelKeeps ==
  ASSUME LoopInv, NEW c \in Ctx, NEW st \in Codes, NEW oe \in {"none", "op"},
         ~(st = "none" /\ oe = "none"),
         cancel_with_err(c, st, oe), UNCHANGED <<phase, eof>>
  PROVE  ListsSound' /\ NothingSkipped' /\ FinishedIsQuiet' /\ SuccessIsComplete'
<1>1. TypeOK /\ ListsSound /\ NothingSkipped
      /\ \A i \in 1..Len(doneList) : DoneSound(doneList[i])
  BY DoneSoundIs DEF LoopInv
<1>2. fdt \in [Ctx -> SUBSET Chan] /\ fdt' = [fdt EXCEPT ![c] = {}] /\ ctx_done(c, st, oe)
  BY <1>1 DEF cancel_with_err, TypeOK
<1>3. CASE /\ InList(activeList, c) /\ fault' = fault
           /\ Distinct(activeList') /\ Distinct(doneList')
           /\ \A d : InList(activeList', d) <=> InList(activeList, d) /\ d # c
           /\ \A d : InList(doneList', d) <=> d = c \/ InList(doneList, d)
           /\ \A i \in 1..Len(doneList') :
                \/ doneList'[i] = [ctx |-> c, status |-> st, op_err |-> oe]
                \/ \E j \in 1..Len(doneList) : doneList'[i] = doneList[j]
  <2>1. ListsSound'
    BY <1>1, <1>3 DEF ListsSound
  <2>2. NothingSkipped'
    BY SMTT(30), <1>1, <1>2, <1>3 DEF NothingSkipped, ListsSound
  <2>3. ASSUME NEW i \in 1..Len(doneList') PROVE DoneSound(doneList[i])'
    <3>1. CASE doneList'[i] = [ctx |-> c, status |-> st, op_err |-> oe]
      BY <1>2, <3>1 DEF DoneSound
    <3>2. CASE \E j \in 1..Len(doneList) : doneList'[i] = doneList[j]
      <4>1. PICK j \in 1..Len(doneList) : doneList'[i] = doneList[j]
        BY <3>2
      <4>2. doneList[j].ctx \in Ctx /\ DoneSound(doneList[j])
        BY <1>1, ItemType
      <4> QED BY <1>2, <4>1, <4>2 DEF DoneSound
    <3> QED BY <1>3, <3>1, <3>2
  <2>4. (FinishedIsQuiet /\ SuccessIsComplete)'
    BY <2>3 DEF FinishedIsQuiet, SuccessIsComplete, DoneSound
  <2> QED BY <2>1, <2>2, <2>4
<1>4. CASE ~InList(activeList, c) /\ fault' = "assert" /\ UNCHANGED listVars
  <2>1. ListsSound'
    BY <1>1, <1>4 DEF ListsSound, listVars, Distinct, InList
  <2>2. NothingSkipped'
    BY <1>1, <1>2, <1>4 DEF NothingSkipped, listVars, InList
  <2>3. (FinishedIsQuiet /\ SuccessIsComplete)'
    BY <1>1, <1>2, <1>4, ItemType DEF FinishedIsQuiet, SuccessIsComplete, DoneSound, listVars
  <2> QED BY <2>1, <2>2, <2>3
<1> QED BY Zenon, <1>1, <1>2, <1>3, <1>4, CtxDoneMoves

\* Steps that touch neither the lists, the phases nor the tables keep what is
\* said about them.
LEMMA ListsUntouched ==
  ASSUME LoopInv, UNCHANGED <<phase, fdt, eof, listVars, fault>>
  PROVE  ListsSound' /\ NothingSkipped' /\ FinishedIsQuiet' /\ SuccessIsComplete'
  BY DEF LoopInv, ListsSound, NothingSkipped, FinishedIsQuiet, SuccessIsComplete,
         listVars, Distinct, InList

\* Steps of other threads keep what gpgme_wait_ext relies on, as long as the
\* active contexts keep their place, tables and operations.
LEMMA WaitUntouched ==
  ASSUME LoopInv, UNCHANGED waitVars,
         \A d \in Ctx : InList(activeList, d) =>
            InList(activeList', d) /\ fdt'[d] = fdt[d] /\ ops'[d] = ops[d]
  PROVE  WaitSound'
<1>1. /\ \A e \in snap \cup sig : e[1] \in Ctx
      /\ wpc = "done" => sctx \in Ctx
  BY DEF LoopInv, TypeOK
<1> QED BY <1>1 DEF LoopInv, WaitSound, waitVars

\* A step of an operation moves its channel from "served" to "read to the
\* end" or leaves it where it is; nothing else changes.
LEMMA ServeKeeps ==
  ASSUME LoopInv, NEW e \in sig, wpc = "handle",
         More(e[1], e[2]) \/ Last(e[1], e[2]),
         sig' = sig \ {e}, UNCHANGED <<ctxVars, wpc, wctx, whang, snap, sctx>>
  PROVE  ListsSound' /\ WaitSound' /\ NothingSkipped' /\ FinishedIsQuiet' /\ SuccessIsComplete'
<1> DEFINE c == e[1]
           ch == e[2]
<1>1. /\ c \in Ctx /\ ch \in Chan /\ InList(activeList, c) /\ ~InList(doneList, c)
      /\ fdt \in [Ctx -> SUBSET Chan] /\ eof \in [Ctx -> SUBSET Chan]
      /\ \A d \in sig : d \in Ctx \X Chan \X (0..MaxOps)
  BY DEF LoopInv, TypeOK, WaitSound, ListsSound
<1>2. UNCHANGED <<listVars, phase, ops, fault>> /\ snap = {}
  BY DEF More, Last, ctxVars, LoopInv, WaitSound
<1>3. \/ /\ \A d \in Ctx : fdt[d] \subseteq fdt'[d] /\ (d # c => fdt'[d] = fdt[d])
         /\ eof' = eof
      \/ /\ fdt' = [fdt EXCEPT ![c] = @ \ {ch}]
         /\ eof' = [eof EXCEPT ![c] = @ \cup {ch}]
  <2>1. CASE More(c, ch)
    BY <1>1, <2>1 DEF More
  <2>2. CASE Last(c, ch)
    BY <2>2 DEF Last
  <2> QED BY <2>1, <2>2
<1>4. ListsSound'
  BY <1>2 DEF LoopInv, ListsSound, listVars, Distinct, InList
<1>5. NothingSkipped'
  <2>1. NothingSkipped
    BY DEF LoopInv
  <2>2. \A d \in Ctx : fdt[d] \cup eof[d] \subseteq fdt'[d] \cup eof'[d]
    BY <1>1, <1>3
  <2> QED BY <1>2, <2>1, <2>2 DEF NothingSkipped, listVars, InList
<1>6. FinishedIsQuiet' /\ SuccessIsComplete'
  <2>1. \A i \in 1..Len(doneList) : doneList[i].ctx \in Ctx /\ doneList[i].ctx # c
    BY <1>1, ItemType DEF LoopInv, InList
  <2>2. \A d \in Ctx : d # c => fdt'[d] = fdt[d] /\ eof'[d] = eof[d]
    BY <1>1, <1>3
  <2> QED BY SMTT(30), <1>2, <2>1, <2>2 DEF LoopInv, FinishedIsQuiet, SuccessIsComplete, listVars
<1>7. WaitSound'
  <2>1. \A d \in sig' : d[2] \in fdt'[d[1]]
    <3> TAKE d \in sig'
    <3>1. d \in sig /\ d # e /\ d[2] \in fdt[d[1]] /\ d[3] = ops[d[1]] /\ e[3] = ops[e[1]]
      BY DEF LoopInv, WaitSound
    <3>2. CASE d[1] = c
      <4>1. d[2] # ch
        BY <1>1, <3>1, <3>2
      <4> QED BY <1>1, <1>3, <3>1, <3>2, <4>1
    <3>3. CASE d[1] # c
      BY SMTT(30), <1>1, <1>3, <3>1, <3>3
    <3> QED BY <3>2, <3>3
  <2> QED BY <1>2, <2>1 DEF LoopInv, WaitSound, listVars, InList
<1> QED BY <1>4, <1>5, <1>6, <1>7

\* One reported callback keeps the invariant.
LEMMA HandleKeeps ==
  ASSUME LoopInv, NEW e \in sig, Handle(e)
  PROVE  ListsSound' /\ WaitSound' /\ NothingSkipped' /\ FinishedIsQuiet' /\ SuccessIsComplete'
<1>1. e[1] \in Ctx /\ InList(activeList, e[1]) /\ wpc = "handle" /\ snap = {}
      /\ UNCHANGED <<ctxVars, wctx, whang, snap, sctx>>
  BY SMTT(30) DEF LoopInv, TypeOK, WaitSound, Handle
<1>2. CASE fault' = "null" /\ UNCHANGED <<ioVars, listVars, wpc, sig>>
  BY <1>1, <1>2 DEF LoopInv, ListsSound, WaitSound, NothingSkipped, FinishedIsQuiet,
     SuccessIsComplete, ctxVars, ioVars, listVars, Distinct, InList
<1>3. ASSUME NEW st \in Codes, NEW oe \in {"none", "op"}, ~(st = "none" /\ oe = "none"),
             CancelAndBreak(e[1], st, oe)
      PROVE  ListsSound' /\ WaitSound' /\ NothingSkipped' /\ FinishedIsQuiet' /\ SuccessIsComplete'
  <2>1. cancel_with_err(e[1], st, oe) /\ UNCHANGED <<phase, eof>>
    BY <1>1, <1>3 DEF CancelAndBreak, ctxVars
  <2>2. ListsSound' /\ NothingSkipped' /\ FinishedIsQuiet' /\ SuccessIsComplete'
    BY <1>1, <1>3, <2>1, CancelKeeps
  <2>3. WaitSound'
    BY <1>1, <1>3 DEF CancelAndBreak, WaitSound
  <2> QED BY <2>2, <2>3
<1>4. CASE (More(e[1], e[2]) \/ Last(e[1], e[2])) /\ sig' = sig \ {e} /\ UNCHANGED wpc
  BY <1>1, <1>4, ServeKeeps
<1>5. CASE sig' = sig \ {e} /\ UNCHANGED <<ioVars, listVars, wpc, fault>>
  <2>1. ListsSound' /\ NothingSkipped' /\ FinishedIsQuiet' /\ SuccessIsComplete'
    BY <1>1, <1>5, ListsUntouched DEF ioVars, ctxVars
  <2>2. WaitSound'
    BY <1>1, <1>5 DEF LoopInv, WaitSound, ctxVars, ioVars, listVars, InList
  <2> QED BY <2>1, <2>2
<1> QED BY <1>2, <1>3, <1>4, <1>5 DEF Handle, Codes

\* The parts of the invariant besides the types.
Rest ==
  ListsSound /\ WaitSound /\ NothingSkipped /\ FinishedIsQuiet /\ SuccessIsComplete

\* What happens to a context without operation, be it started, half started
\* or released, does not concern the lists and the thread in gpgme_wait_ext.
LEMMA IdleStep ==
  ASSUME LoopInv, NEW c \in Ctx, phase[c] = "idle",
         \A d \in Ctx : d # c => fdt'[d] = fdt[d] /\ eof'[d] = eof[d]
                                /\ ops'[d] = ops[d] /\ phase'[d] = phase[d],
         phase'[c] \in {"idle", "released"} \/ (phase'[c] = "starting" /\ fdt'[c] = Initial),
         UNCHANGED <<listVars, waitVars, fault>>
  PROVE  Rest'
<1>0. TypeOK /\ ListsSound
  BY DEF LoopInv
<1>1. ~InList(activeList, c) /\ ~InList(doneList, c)
  BY SMTT(30), <1>0 DEF ListsSound
<1>2. ListsSound'
  <2>1. activeList' = activeList /\ doneList' = doneList
    BY Zenon DEF listVars
  <2>2. Distinct(activeList)' /\ Distinct(doneList)'
    BY <1>0, <2>1 DEF ListsSound, Distinct
  <2>3. \A d \in Ctx : /\ InList(activeList', d) <=> InList(activeList, d)
                       /\ InList(doneList', d) <=> InList(doneList, d)
    BY <2>1
  <2>4. \A d \in Ctx : phase'[d] = "pending" <=> phase[d] = "pending"
    OBVIOUS
  <2> QED BY <1>0, <2>2, <2>3, <2>4 DEF ListsSound
<1>3. WaitSound'
  BY Zenon, <1>1, WaitUntouched DEF listVars, InList
<1>4. NothingSkipped'
  BY <1>1 DEF LoopInv, NothingSkipped, listVars, InList
<1>5. \A i \in 1..Len(doneList) : doneList[i].ctx \in Ctx /\ doneList[i].ctx # c
  BY <1>0, <1>1, ItemType DEF InList
<1>6. FinishedIsQuiet' /\ SuccessIsComplete'
  BY <1>5 DEF LoopInv, FinishedIsQuiet, SuccessIsComplete, listVars
<1> QED BY <1>2, <1>3, <1>4, <1>6 DEF Rest

\* Every action of a program that releases a context only when no operation
\* of it is pending keeps the invariant.
LEMMA LoopStep ==
  ASSUME EarlyRelease = FALSE, LoopInv, Next
  PROVE  Rest'
<1> USE DEF ctxVars, ioVars
<1>0. TypeOK /\ ListsSound /\ fault = "none"
  BY DEF LoopInv, Next
<1>2. ASSUME NEW c \in Ctx, StartOp(c) PROVE Rest'
  <2>1. /\ phase[c] = "idle" /\ phase'[c] = "starting" /\ fdt'[c] = Initial
        /\ \A d \in Ctx : d # c => fdt'[d] = fdt[d] /\ eof'[d] = eof[d]
                                   /\ ops'[d] = ops[d] /\ phase'[d] = phase[d]
        /\ UNCHANGED <<listVars, waitVars, fault>>
    BY <1>0, <1>2 DEF StartOp, TypeOK
  <2> QED BY <2>1, IdleStep
<1>3. ASSUME NEW c \in Ctx, StartOpFails(c) PROVE Rest'
  <2>1. PICK S \in SUBSET Initial : fdt' = [fdt EXCEPT ![c] = S]
    BY Zenon, <1>3 DEF StartOpFails
  <2>2. /\ phase[c] = "idle" /\ phase'[c] = "idle"
        /\ \A d \in Ctx : d # c => fdt'[d] = fdt[d] /\ eof'[d] = eof[d]
                                   /\ ops'[d] = ops[d] /\ phase'[d] = phase[d]
        /\ UNCHANGED <<listVars, waitVars, fault>>
    BY <1>0, <1>3, <2>1 DEF StartOpFails, TypeOK
  <2> QED BY SMTT(30), <2>2, IdleStep
<1>4. ASSUME NEW c \in Ctx, Release(c) PROVE Rest'
  <2>1. /\ phase[c] = "idle" /\ phase'[c] = "released"
        /\ \A d \in Ctx : d # c => fdt'[d] = fdt[d] /\ eof'[d] = eof[d]
                                   /\ ops'[d] = ops[d] /\ phase'[d] = phase[d]
        /\ UNCHANGED <<listVars, waitVars, fault>>
    BY <1>0, <1>4 DEF Release, TypeOK
  <2> QED BY <2>1, IdleStep
<1>5. ASSUME NEW c \in Ctx, StartEvent(c) PROVE Rest'
  <2>1. ~InList(activeList, c) /\ ~InList(doneList, c) /\ phase[c] = "starting"
        /\ UNCHANGED <<ops, waitVars>>
    BY <1>0, <1>5 DEF ListsSound, StartEvent
  <2>2. CASE ctx_active(c) /\ phase' = [phase EXCEPT ![c] = "pending"]
             /\ UNCHANGED <<ioVars, fault>>
    <3>1. activeList \in Seq(Item) /\ [ctx |-> c] \in Item /\ [ctx |-> c].ctx = c
          /\ activeList' = <<[ctx |-> c]>> \o activeList /\ doneList' = doneList
      BY <1>0, <2>2 DEF TypeOK, Item, ctx_active
    <3>2. \A d : InList(activeList', d) <=> d = c \/ InList(activeList, d)
      BY SMTT(30), <3>1, PrependInList
    <3>3. Distinct(activeList')
      BY <1>0, <2>1, <3>1, PrependDistinct DEF ListsSound
    <3>4. ListsSound'
      <4>1. Distinct(doneList')
        BY <1>0, <3>1 DEF ListsSound
      <4>2. \A d \in Ctx : (InList(doneList', d) <=> InList(doneList, d))
                           /\ phase'[d] = IF d = c THEN "pending" ELSE phase[d]
        BY <1>0, <2>2, <3>1 DEF TypeOK
      <4> QED BY <1>0, <2>1, <3>2, <3>3, <4>1, <4>2 DEF ListsSound
    <3>5. WaitSound'
      BY SMTT(30), <2>1, <2>2, <3>2, WaitUntouched
    <3>6. NothingSkipped'
      BY SMTT(30), <1>0, <2>1, <2>2, <3>2 DEF LoopInv, NothingSkipped, TypeOK
    <3>7. FinishedIsQuiet' /\ SuccessIsComplete'
      BY Zenon, <2>2, <3>1 DEF LoopInv, FinishedIsQuiet, SuccessIsComplete
    <3> QED BY <3>4, <3>5, <3>6, <3>7 DEF Rest
  <2>3. CASE cancel_with_err(c, "failed", "none") /\ UNCHANGED <<phase, left, eof>>
    <3>1. ListsSound' /\ NothingSkipped' /\ FinishedIsQuiet' /\ SuccessIsComplete'
      BY <2>3, CancelKeeps DEF Codes
    <3>2. UNCHANGED listVars /\ fdt' = [fdt EXCEPT ![c] = {}]
      BY <2>1, <2>3 DEF cancel_with_err, ctx_done, InList
    <3>3. \A d \in Ctx : InList(activeList, d) =>
            InList(activeList', d) /\ fdt'[d] = fdt[d] /\ ops'[d] = ops[d]
      BY Zenon, <1>0, <2>1, <3>2 DEF TypeOK, listVars, InList
    <3>4. WaitSound'
      BY <2>1, <3>3, WaitUntouched
    <3> QED BY <3>1, <3>4 DEF Rest
  <2> QED BY <1>5, <2>2, <2>3 DEF StartEvent
<1>6. ASSUME NEW c \in Ctx, Cancel(c) PROVE Rest'
  <2>1. ListsSound' /\ NothingSkipped' /\ FinishedIsQuiet' /\ SuccessIsComplete'
    BY <1>6, CancelKeeps DEF Cancel, Codes
  <2>2. WaitSound'
    BY <1>6 DEF Cancel, LoopInv, WaitSound, waitVars
  <2> QED BY <2>1, <2>2 DEF Rest
<1>7. ASSUME NEW c \in Ctx, CancelAsync(c) PROVE Rest'
  BY <1>7, ListsUntouched, WaitUntouched DEF Rest, CancelAsync, listVars, InList
<1>8. ASSUME NEW c \in Ctx, NEW ch \in Chan, EngineReady(c, ch) PROVE Rest'
  BY <1>8, ListsUntouched, WaitUntouched DEF Rest, EngineReady, listVars, InList
<1>9. ASSUME NEW a \in WaitArgs, NEW hang \in BOOLEAN, WaitCall(a, hang) PROVE Rest'
  <2>1. WaitSound'
    BY <1>9 DEF WaitCall, LoopInv, WaitSound
  <2> QED BY SMTT(30), <1>9, <2>1, ListsUntouched DEF Rest, WaitCall
<1>10. CASE Collect
  <2>1. WaitSound'
    BY SMTT(30), <1>10 DEF Collect, Return, LoopInv, WaitSound, listVars, InList
  <2> QED BY <1>10, <2>1, ListsUntouched DEF Rest, Collect
<1>11. CASE Select
  <2>1. WaitSound'
    BY <1>11 DEF Select, Return, LoopInv, WaitSound, listVars, InList
  <2> QED BY Zenon, <1>11, <2>1, ListsUntouched DEF Rest, Select
<1>12. ASSUME NEW e \in sig, Handle(e) PROVE Rest'
  BY <1>12, HandleKeeps DEF Rest
<1>13. CASE HandledAll
  <2>1. WaitSound'
    BY <1>13 DEF HandledAll, LoopInv, WaitSound
  <2> QED BY SMTT(30), <1>13, <2>1, ListsUntouched DEF Rest, HandledAll
<1>14. CASE Sweep
  <2>1. snap = {} /\ sig = {}
    BY <1>14 DEF Sweep, LoopInv, WaitSound
  <2>2. WaitSound'
    BY <1>14, <2>1 DEF Sweep, Quiet, WaitSound, listVars, InList
  <2> QED BY <1>14, <2>2, ListsUntouched DEF Rest, Sweep
<1>15. CASE SendDone
  <2>1. /\ sctx \in Ctx /\ InList(activeList, sctx) /\ fdt[sctx] = {}
        /\ snap = {} /\ sig = {} /\ ctx_done(sctx, "none", "none")
        /\ UNCHANGED <<ctxVars, ioVars, snap, sig>> /\ wpc' = "sweep"
    BY ZenonT(30), <1>0, <1>15 DEF SendDone, LoopInv, WaitSound, TypeOK
  <2>2. /\ fault' = fault
        /\ Distinct(activeList') /\ Distinct(doneList')
        /\ \A d : InList(activeList', d) <=> InList(activeList, d) /\ d # sctx
        /\ \A d : InList(doneList', d) <=> d = sctx \/ InList(doneList, d)
        /\ \A i \in 1..Len(doneList') :
             \/ doneList'[i] = [ctx |-> sctx, status |-> "none", op_err |-> "none"]
             \/ \E j \in 1..Len(doneList) : doneList'[i] = doneList[j]
    BY ZenonT(30), <1>0, <2>1, CtxDoneMoves DEF Codes
  <2>3. ListsSound'
    BY ZenonT(30), <1>0, <2>1, <2>2 DEF ListsSound
  <2>4. WaitSound'
    BY <2>1 DEF WaitSound
  <2>5. NothingSkipped'
    BY ZenonT(30), <2>1, <2>2 DEF LoopInv, NothingSkipped
  <2>6. ASSUME NEW i \in 1..Len(doneList') PROVE DoneSound(doneList[i])'
    <3>1. CASE doneList'[i] = [ctx |-> sctx, status |-> "none", op_err |-> "none"]
      <4>1. doneList'[i].ctx = sctx
        BY <3>1
      <4>2. Initial \subseteq fdt[sctx] \cup eof[sctx] /\ fdt' = fdt /\ eof' = eof
        BY Zenon, <2>1 DEF LoopInv, NothingSkipped
      <4> QED BY <2>1, <4>1, <4>2 DEF DoneSound
    <3>2. CASE \E j \in 1..Len(doneList) : doneList'[i] = doneList[j]
      BY <2>1, <3>2, DoneSoundIs DEF DoneSound, LoopInv
    <3> QED BY Zenon, <2>2, <3>1, <3>2
  <2>7. FinishedIsQuiet' /\ SuccessIsComplete'
    BY <2>6 DEF FinishedIsQuiet, SuccessIsComplete, DoneSound
  <2> QED BY SMTT(30), <2>3, <2>4, <2>5, <2>7 DEF Rest
<1>16. CASE Take
  <2>1. snap = {} /\ sig = {} /\ UNCHANGED <<ops, ioVars, activeList, fault>>
    BY SMTT(30), <1>16 DEF Take, LoopInv, WaitSound
  <2>2. WaitSound'
    BY <1>16, <2>1 DEF Take, Return, Again, WaitSound
  <2>3. ASSUME NEW i \in 1..Len(doneList), RemoveDone(i),
               phase' = [phase EXCEPT ![doneList[i].ctx] = IF @ = "pending" THEN "idle" ELSE @]
        PROVE  Rest'
    <3>1. /\ Distinct(doneList')
          /\ \A d : InList(doneList', d) <=> InList(doneList, d) /\ d # doneList[i].ctx
          /\ \A k \in 1..Len(doneList') : \E j \in 1..Len(doneList) : doneList'[k] = doneList[j]
      BY <1>0, <2>3, TakeRemoves
    <3>2. doneList[i].ctx \in Ctx /\ InList(doneList, doneList[i].ctx)
          /\ ~InList(activeList, doneList[i].ctx) /\ phase[doneList[i].ctx] = "pending"
      BY SMTT(30), <1>0, ItemType DEF ListsSound, InList
    <3>3. ListsSound'
      <4>1. Distinct(activeList') /\ \A d \in Ctx : InList(activeList', d) <=> InList(activeList, d)
        BY <1>0, <2>1 DEF ListsSound
      <4>2. \A d \in Ctx : phase'[d] = IF d = doneList[i].ctx THEN "idle" ELSE phase[d]
        BY SMTT(30), <1>0, <2>3, <3>2 DEF TypeOK
      <4> QED BY <1>0, <3>1, <3>2, <4>1, <4>2 DEF ListsSound
    <3>4. NothingSkipped'
      BY SMTT(30), <1>0, <2>1, <2>3, <3>2 DEF LoopInv, NothingSkipped, TypeOK, InList
    <3>5. FinishedIsQuiet' /\ SuccessIsComplete'
      <4>1. \A k \in 1..Len(doneList') : DoneSound(doneList[k])'
        <5> TAKE k \in 1..Len(doneList')
        <5>1. PICK j \in 1..Len(doneList) : doneList'[k] = doneList[j]
          BY <3>1
        <5>2. DoneSound(doneList[j])
          BY DoneSoundIs DEF LoopInv
        <5> QED BY Zenon, <2>1, <5>1, <5>2 DEF DoneSound
      <4> QED BY Zenon, <4>1 DEF FinishedIsQuiet, SuccessIsComplete, DoneSound
    <3> QED BY <2>2, <3>3, <3>4, <3>5 DEF Rest
  <2>4. CASE UNCHANGED <<phase, doneList>>
    BY <2>1, <2>2, <2>4, ListsUntouched DEF Rest, listVars
  <2>5. \/ \E i \in 1..Len(doneList) :
             /\ RemoveDone(i)
             /\ phase' = [phase EXCEPT ![doneList[i].ctx] = IF @ = "pending" THEN "idle" ELSE @]
        \/ UNCHANGED <<phase, doneList>>
    BY <1>16 DEF Take
  <2> QED BY <2>3, <2>4, <2>5
<1>17. \/ \E c \in Ctx : StartOp(c) \/ StartOpFails(c) \/ StartEvent(c)
       \/ \E c \in Ctx : Cancel(c) \/ CancelAsync(c) \/ Release(c)
       \/ \E c \in Ctx, ch \in Chan : EngineReady(c, ch)
       \/ \E a \in WaitArgs, hang \in BOOLEAN : WaitCall(a, hang)
       \/ Collect \/ Select \/ (\E e \in sig : Handle(e)) \/ HandledAll
       \/ Sweep \/ SendDone \/ Take
  BY DEF Next, Wait
<1> QED
  BY <1>2, <1>3, <1>4, <1>5, <1>6, <1>7, <1>8, <1>9, <1>10, <1>11, <1>12, <1>13,
     <1>14, <1>15, <1>16, <1>17

\* The loop keeps its lists, its unlocked copy of the callback tables and its
\* results sound however many threads start and cancel operations, as long as
\* no context is released before its operation was collected.
THEOREM LoopSafe == EarlyRelease = FALSE => (Spec => []LoopInv)
<1> SUFFICES ASSUME EarlyRelease = FALSE PROVE Spec => []LoopInv
  OBVIOUS
<1>1. Init => LoopInv
  <2> SUFFICES ASSUME Init PROVE LoopInv
    OBVIOUS
  <2>1. TypeOK
    BY TypeInit
  <2>0. 1..Len(activeList) = {} /\ 1..Len(doneList) = {}
    BY DEF Init
  <2>2. \A c : ~InList(activeList, c) /\ ~InList(doneList, c)
    BY <2>0 DEF InList
  <2>3. ListsSound /\ FinishedIsQuiet /\ SuccessIsComplete
    <3>2. \A c \in Ctx : phase[c] # "pending"
      BY DEF Init
    <3> QED BY <2>0, <2>2, <3>2 DEF ListsSound, FinishedIsQuiet, SuccessIsComplete, Distinct
  <2>4. WaitSound /\ NothingSkipped
    BY <2>2 DEF Init, WaitSound, NothingSkipped
  <2> QED BY <2>1, <2>3, <2>4 DEF LoopInv
<1>2. LoopInv /\ [Next]_vars => LoopInv'
  <2> SUFFICES ASSUME LoopInv, [Next]_vars PROVE LoopInv'
    OBVIOUS
  <2>1. TypeOK'
    BY TypeStep DEF LoopInv
  <2>2. Rest'
    <3>1. CASE Next
      BY <3>1, LoopStep
    <3>2. CASE UNCHANGED vars
      <4>1. UNCHANGED <<phase, ops, fdt, eof, listVars, waitVars, fault>> /\ activeList' = activeList
        BY <3>2 DEF vars, ctxVars, ioVars, listVars
      <4>2. WaitSound'
        BY <4>1, WaitUntouched
      <4> QED BY <4>1, <4>2, ListsUntouched DEF Rest
    <3> QED BY <3>1, <3>2
  <2> QED BY <2>1, <2>2 DEF LoopInv, Rest
<1> QED BY <1>1, <1>2, PTL DEF Spec

\* The callbacks handled from the unlocked copy are live ones.
THEOREM NoStaleCallback == EarlyRelease = FALSE => (Spec => []CallbacksLive)
<1> SUFFICES ASSUME EarlyRelease = FALSE PROVE Spec => []CallbacksLive
  OBVIOUS
<1>1. LoopInv => CallbacksLive
  BY DEF LoopInv, WaitSound, CallbacksLive
<1>2. Spec => []LoopInv
  BY LoopSafe
<1> QED BY <1>1, <1>2, PTL

\* In a program that cancels only operations that are still active, and has
\* the memory to start them, the assertion of ctx_done never fails.
THEOREM CtxDoneAssertion ==
  EarlyRelease = FALSE /\ LateCancel = FALSE /\ OutOfCore = FALSE => (Spec => []AssertionsHold)
<1> SUFFICES ASSUME EarlyRelease = FALSE, LateCancel = FALSE, OutOfCore = FALSE
             PROVE  Spec => []AssertionsHold
  OBVIOUS
<1>1. Init => AssertionsHold
  BY DEF Init, AssertionsHold
<1>2. LoopInv /\ AssertionsHold /\ [Next]_vars => AssertionsHold'
  <2> SUFFICES ASSUME LoopInv, AssertionsHold, [Next]_vars PROVE AssertionsHold'
    OBVIOUS
  <2> USE DEF AssertionsHold
  <2>1. ASSUME NEW c, NEW st, NEW oe, InList(activeList, c), ctx_done(c, st, oe)
        PROVE  AssertionsHold'
    BY <2>1 DEF ctx_done
  <2>2. ASSUME NEW c \in Ctx, Cancel(c) PROVE AssertionsHold'
    BY SMTT(30), <2>1, <2>2 DEF Cancel, cancel_with_err
  <2>3. ASSUME NEW e \in sig, Handle(e) PROVE AssertionsHold'
    <3>1. InList(activeList, e[1])
      BY DEF LoopInv, WaitSound
    <3>2. ASSUME NEW st, NEW oe, CancelAndBreak(e[1], st, oe) PROVE AssertionsHold'
      BY <2>1, <3>1, <3>2 DEF CancelAndBreak, cancel_with_err
    <3>3. CASE fault' = "null" \/ fault' = fault
      BY <3>3
    <3> QED BY <2>3, <3>2, <3>3 DEF Handle, More, Last
  <2>4. CASE SendDone
    BY <2>1, <2>4 DEF SendDone, LoopInv, WaitSound
  <2>5. ASSUME NEW c \in Ctx, StartEvent(c) PROVE AssertionsHold'
    BY <2>5 DEF StartEvent
  <2>6. ASSUME NEW c \in Ctx, StartOp(c) \/ StartOpFails(c) \/ CancelAsync(c) \/ Release(c)
        PROVE  AssertionsHold'
    BY SMTT(30), <2>6 DEF StartOp, StartOpFails, CancelAsync, Release
  <2>7. CASE Collect \/ Select \/ HandledAll \/ Sweep \/ Take
    BY SMTT(30), <2>7 DEF Collect, Select, HandledAll, Sweep, Take
  <2>8. CASE \/ \E c \in Ctx, ch \in Chan : EngineReady(c, ch)
             \/ \E a \in WaitArgs, hang \in BOOLEAN : WaitCall(a, hang)
             \/ UNCHANGED vars
    BY Zenon, <2>8 DEF EngineReady, WaitCall, vars
  <2> QED BY <2>2, <2>3, <2>4, <2>5, <2>6, <2>7, <2>8 DEF Next, Wait
<1>3. Spec => []LoopInv
  BY LoopSafe
<1> QED BY <1>1, <1>2, <1>3, PTL DEF Spec
=============================================================================
