--------------------------- MODULE DecryptProofs ---------------------------
(***************************************************************************)
(* The property table stays sound and exactly the data objects of failed   *)
(* decryptions are void, for any number of data objects and operations.    *)
(***************************************************************************)
EXTENDS Decrypt, TLAPS

\* The empty table is sound.
LEMMA TableInitSound == TableInit => TableInv
  BY DataTableAssumption, SMT
  DEF TableInit, TableInv, TableTypeOK, PropidxSound, SlotsOwned, SerialsUnique, Slots,
      Serials, property_s, Unused

\* A new data object gets a slot of its own and a fresh serial number; the
\* slots of the others stay as they are (insert_into_property_table).
LEMMA NewSound ==
  ASSUME TableInv, NEW h \in Handle, DataNew(h)
  PROVE  /\ TableInv'
         /\ \A g \in live : propidx'[g] = propidx[g] /\ table'[propidx'[g]] = table[propidx[g]]
         /\ table'[propidx'[h]] = NewEntry(h, propidx'[h])
         /\ \A i \in Slots' : table'[i].dh # NoHandle =>
              \/ table'[i].dserial = last_dserial + 1
              \/ i \in Slots /\ table'[i] = table[i]
  <1> USE DataTableAssumption
  <1> DEFINE e == [dh |-> h, dserial |-> last_dserial + 1, blankout |-> FALSE]
  <1>1. e \in property_s /\ Unused \in property_s /\ last_dserial' \in Serials
    BY SMT DEF TableInv, TableTypeOK, DataNew, Serials, property_s, Unused
  <1>2. \A i : NewEntry(h, i) = e
    BY DEF NewEntry
  <1>3. CASE \E i \in Slots :
               /\ table[i].dh = NoHandle
               /\ table' = [table EXCEPT ![i] = e]
               /\ propidx' = [propidx EXCEPT ![h] = i]
               /\ UNCHANGED size
    <2>1. PICK i \in Slots : /\ table[i].dh = NoHandle
                             /\ table' = [table EXCEPT ![i] = e]
                             /\ propidx' = [propidx EXCEPT ![h] = i]
                             /\ UNCHANGED size
      BY Zenon, <1>3
    <2> HIDE DEF e
    <2>2. TableTypeOK'
      BY <1>1, <2>1, SMT DEF TableInv, TableTypeOK, DataNew, Slots
    <2>3. PropidxSound' /\ SlotsOwned'
      BY <2>1, SMT DEF TableInv, TableTypeOK, DataNew, Slots, PropidxSound, SlotsOwned, e
    <2>4. SerialsUnique'
      BY <2>1, SMT DEF TableInv, TableTypeOK, DataNew, Slots, SerialsUnique, e, Serials, property_s
    <2>5. \A g \in live : propidx'[g] = propidx[g] /\ table'[propidx'[g]] = table[propidx[g]]
      BY <2>1, SMT DEF TableInv, TableTypeOK, DataNew, Slots, PropidxSound
    <2>6. table'[propidx'[h]] = e
      BY <2>1, SMT DEF TableInv, TableTypeOK, Slots
    <2>7. \A j \in Slots' : j \in Slots /\ (j = i => table'[j].dserial = last_dserial + 1)
                             /\ (j # i => table'[j] = table[j])
      BY <2>1, SMT DEF TableInv, TableTypeOK, Slots, e
    <2> QED BY <1>2, <2>2, <2>3, <2>4, <2>5, <2>6, <2>7 DEF TableInv
  <1>4. CASE /\ \A i \in Slots : table[i].dh # NoHandle
             /\ size' = size + Chunk
             /\ table' = [i \in 0..(size + Chunk - 1) |->
                            IF i < size THEN table[i] ELSE IF i = size THEN e ELSE Unused]
             /\ propidx' = [propidx EXCEPT ![h] = size]
    <2> HIDE DEF e
    <2>0. size \in Nat /\ Chunk \in Nat /\ Chunk > 0 /\ Slots = 0..(size - 1)
          /\ Slots' = 0..(size + Chunk - 1)
      BY <1>4, SMT DEF TableInv, TableTypeOK, Slots
    <2>1. /\ \A i \in Slots : i \in Slots' /\ table'[i] = table[i] /\ i < size
          /\ size \in Slots' /\ table'[size] = e
          /\ \A i \in Slots' : i \in Slots \/ i = size \/ table'[i] = Unused
      BY <1>4, <2>0, SMT
    <2>2. TableTypeOK'
      BY <1>1, <1>4, <2>0, SMT DEF TableInv, TableTypeOK, DataNew
    <2>3. PropidxSound' /\ SlotsOwned'
      BY <1>4, <2>0, <2>1, SMT
      DEF TableInv, TableTypeOK, DataNew, PropidxSound, SlotsOwned, e, Unused
    <2>4. SerialsUnique'
      BY <1>4, <2>0, <2>1, SMT
      DEF TableInv, TableTypeOK, DataNew, SerialsUnique, e, Unused, Serials, property_s
    <2>5. \A g \in live : propidx'[g] = propidx[g] /\ table'[propidx'[g]] = table[propidx[g]]
      BY <1>4, <2>0, <2>1, SMT DEF TableInv, TableTypeOK, DataNew, PropidxSound
    <2>6. table'[propidx'[h]] = e
      BY <1>4, <2>1, SMT DEF TableInv, TableTypeOK
    <2>7. \A j \in Slots' : table'[j].dh # NoHandle =>
            \/ table'[j].dserial = last_dserial + 1
            \/ j \in Slots /\ table'[j] = table[j]
      BY <2>1, SMT DEF e, Unused
    <2> QED BY <1>2, <2>2, <2>3, <2>4, <2>5, <2>6, <2>7 DEF TableInv
  <1> QED BY <1>2, <1>3, <1>4 DEF DataNew

\* Releasing a data object frees its slot and touches no other
\* (remove_from_property_table).
LEMMA ReleaseSound ==
  ASSUME TableInv, NEW h \in Handle, DataRelease(h)
  PROVE  /\ TableInv'
         /\ Slots' = Slots
         /\ \A g \in live' : propidx'[g] = propidx[g] /\ table'[propidx'[g]] = table[propidx[g]]
         /\ \A i \in Slots : table'[i].dserial = table[i].dserial
         /\ \A i \in Slots : table'[i].dh # NoHandle => i # propidx[h] /\ table[i].dh # NoHandle
  <1> USE DataTableAssumption
  <1>1. PICK i \in Slots : i = propidx[h] /\ table[i].dh = h /\ h \in live
    BY SMT DEF TableInv, PropidxSound, DataRelease
  <1>2. /\ table' = [table EXCEPT ![i].dh = NoHandle] /\ live' = live \ {h}
        /\ size' = size /\ last_dserial' = last_dserial /\ propidx' = propidx
    BY <1>1 DEF DataRelease
  <1>3. table \in [Slots -> property_s] /\ Slots = 0..(size - 1)
    BY DEF TableInv, TableTypeOK, Slots
  <1>4. /\ table'[i] = [table[i] EXCEPT !.dh = NoHandle]
        /\ \A j \in Slots : j # i => table'[j] = table[j]
        /\ Slots' = Slots
    BY <1>1, <1>2, <1>3, SMT DEF Slots
  <1>5. /\ table'[i].dh = NoHandle /\ table'[i].dserial = table[i].dserial
        /\ table'[i] \in property_s
    BY <1>1, <1>3, <1>4, SMT DEF property_s
  <1>6. TableTypeOK'
    BY <1>2, <1>3, <1>4, <1>5, SMT DEF TableInv, TableTypeOK
  <1>7. PropidxSound' /\ SlotsOwned'
    BY <1>1, <1>2, <1>4, <1>5, SMT DEF TableInv, PropidxSound, SlotsOwned
  <1>8. SerialsUnique'
    BY <1>1, <1>2, <1>4, <1>5, SMT DEF TableInv, SerialsUnique
  <1>9. \A g \in live' : propidx'[g] = propidx[g] /\ table'[propidx'[g]] = table[propidx[g]]
    BY <1>1, <1>2, <1>4, SMT DEF TableInv, PropidxSound
  <1> QED BY Zenon, <1>1, <1>4, <1>5, <1>6, <1>7, <1>8, <1>9 DEF TableInv

\* Setting the flag by serial number changes the flag of the slot with that
\* number, if there is one, and nothing else (_gpgme_data_set_prop).
LEMMA BlankoutSound ==
  ASSUME TableInv, NEW s \in Serials, s # 0, Blankout(s)
  PROVE  /\ TableInv'
         /\ Slots' = Slots
         /\ \A i \in Slots : /\ table'[i].dh = table[i].dh
                             /\ table'[i].dserial = table[i].dserial
                             /\ table'[i].blankout = (table[i].blankout \/ i \in Found(s))
  <1> USE DataTableAssumption
  <1>1. /\ size' = size /\ last_dserial' = last_dserial /\ live' = live /\ propidx' = propidx
        /\ table' = [i \in Slots |->
                       IF i \in Found(s) /\ \A j \in Found(s) : i <= j
                       THEN [dh |-> table[i].dh, dserial |-> s, blankout |-> TRUE] ELSE table[i]]
    BY DEF Blankout
  <1>2. table \in [Slots -> property_s] /\ Slots = 0..(size - 1)
    BY DEF TableInv, TableTypeOK, Slots
  <1>3. \A i, j \in Found(s) : i = j
    BY SMT DEF TableInv, SerialsUnique, Found
  <1>4. \A i \in Found(s), j \in Found(s) : i <= j
    BY <1>2, <1>3, SMT DEF Found
  <1>5. \A i \in Slots : table'[i] = IF i \in Found(s) THEN [dh |-> table[i].dh, dserial |-> s, blankout |-> TRUE]
                                     ELSE table[i]
    BY <1>1, <1>4, SMT
  <1>6. \A i \in Slots : /\ table'[i] \in property_s
                         /\ table'[i].dh = table[i].dh
                         /\ table'[i].dserial = table[i].dserial
                         /\ table'[i].blankout = (table[i].blankout \/ i \in Found(s))
    <2> SUFFICES ASSUME NEW i \in Slots
                 PROVE  /\ table'[i] \in property_s
                        /\ table'[i].dh = table[i].dh
                        /\ table'[i].dserial = table[i].dserial
                        /\ table'[i].blankout = (table[i].blankout \/ i \in Found(s))
      OBVIOUS
    <2>1. table[i] \in property_s /\ table[i].blankout \in BOOLEAN
      BY <1>2, SMT DEF property_s
    <2>2. CASE i \in Found(s)
      <3>1. table'[i] = [dh |-> table[i].dh, dserial |-> s, blankout |-> TRUE]
        BY <1>5, <2>2
      <3>2. /\ table'[i] \in property_s
            /\ table'[i].dh = table[i].dh
            /\ table'[i].dserial = table[i].dserial
            /\ table'[i].blankout = TRUE
        BY <2>1, <2>2, <3>1, SMT DEF property_s, Found
      <3> QED BY <2>1, <2>2, <3>2, Zenon
    <2>3. CASE i \notin Found(s)
      BY <1>5, <2>1, <2>3, Zenon
    <2> QED BY <2>2, <2>3
  <1>7. Slots' = Slots
    BY <1>1, SMT DEF Slots
  <1>8. TableTypeOK'
    <2>1. table' \in [Slots -> property_s]
      BY <1>1, <1>6, Zenon
    <2> QED BY <1>1, <1>2, <2>1 DEF TableInv, TableTypeOK
  <1>9. PropidxSound' /\ SlotsOwned'
    BY <1>1, <1>6, <1>7, SMT DEF TableInv, PropidxSound, SlotsOwned
  <1>10. SerialsUnique'
    <2>1. last_dserial' = last_dserial /\ \A i \in Slots : table'[i].dserial = table[i].dserial
      BY Zenon, <1>1, <1>6
    <2>2. \A i \in Slots : table'[i].dh = table[i].dh
      BY <1>6
    <2>3. \A i \in Slots' : table'[i].dserial <= last_dserial'
      BY <1>7, <2>1, Zenon DEF TableInv, SerialsUnique
    <2>4. \A i \in Slots' : table'[i].dh # NoHandle => table'[i].dserial # 0
      BY <1>7, <2>1, <2>2, Zenon DEF TableInv, SerialsUnique
    <2>5. \A i, j \in Slots' :
            i # j /\ table'[i].dserial = table'[j].dserial => table'[i].dserial = 0
      BY <1>7, <2>1, SMT DEF TableInv, SerialsUnique
    <2> QED BY <2>3, <2>4, <2>5 DEF SerialsUnique
  <1> QED BY <1>6, <1>7, <1>8, <1>9, <1>10 DEF TableInv
-----------------------------------------------------------------------------
\* What the other actions leave alone.
LEMMA TableUntouched ==
  ASSUME BlankInv, UNCHANGED tableVars, tainted' = tainted
  PROVE  TableInv' /\ BlankedIffFailed' /\ tainted' \subseteq live'
  BY DEF BlankInv, tableVars, TableInv, TableTypeOK, PropidxSound, SlotsOwned, SerialsUnique,
         Slots, Serials, property_s, BlankedIffFailed, Blanked

LEMMA BlankInit == Init => BlankInv
  BY TableInitSound, DataTableAssumption, SMT
  DEF Init, TableInit, BlankInv, BlankedIffFailed

LEMMA BlankStep == BlankInv /\ [Next]_vars => BlankInv'
  <1> SUFFICES ASSUME BlankInv, [Next]_vars PROVE BlankInv'
    OBVIOUS
  <1> USE DataTableAssumption
  <1>0. TableInv /\ live \subseteq Handle /\ last_dserial \in Serials
    BY DEF BlankInv, TableInv, TableTypeOK
  <1>1. ASSUME NEW h \in Handle, New(h) PROVE BlankInv'
    <2>1. DataNew(h) /\ UNCHANGED opVars
      BY <1>1 DEF New
    <2>2. TableInv' /\ live' = live \cup {h} /\ h \notin live /\ last_dserial' = last_dserial + 1
      BY <1>0, <2>1, NewSound DEF DataNew
    <2>3. \A g \in live : propidx'[g] = propidx[g] /\ table'[propidx'[g]] = table[propidx[g]]
      BY <1>0, <2>1, NewSound
    <2>4. table'[propidx'[h]].blankout = FALSE
      <3>1. table'[propidx'[h]] = NewEntry(h, propidx'[h])
        BY <1>0, <2>1, NewSound
      <3> QED BY <3>1 DEF NewEntry
    <2>5. BlankedIffFailed' /\ tainted' \subseteq live'
      BY <2>1, <2>2, <2>3, <2>4, SMT DEF BlankInv, BlankedIffFailed, Blanked, opVars
    <2>6. plaintext_dserial' \in 0..last_dserial'
      BY <1>0, <2>1, <2>2, SMT DEF BlankInv, opVars, Serials
    <2>7. phase' = "running" /\ gone' => Found(plaintext_dserial)' = {}
      <3> SUFFICES ASSUME phase = "running", gone, NEW i \in Slots', table'[i].dh # NoHandle,
                          table'[i].dserial = plaintext_dserial
                   PROVE FALSE
        BY <2>1 DEF Found, opVars
      <3>0. \A j \in Slots' : table'[j].dh # NoHandle =>
              \/ table'[j].dserial = last_dserial + 1
              \/ j \in Slots /\ table'[j] = table[j]
        BY <1>0, <2>1, NewSound, Zenon
      <3>1. table'[i].dserial = last_dserial + 1 \/ (i \in Slots /\ table'[i] = table[i])
        BY <3>0
      <3>2. plaintext_dserial \in 0..last_dserial /\ Found(plaintext_dserial) = {}
        BY DEF BlankInv
      <3> QED BY <1>0, <3>1, <3>2, SMT DEF Found, Serials
    <2>8. phase' = "running" /\ ~gone' => plain' \in live' /\ DSerial(plain)' = plaintext_dserial'
      BY <2>1, <2>2, <2>3 DEF BlankInv, DSerial, opVars
    <2> QED BY <2>2, <2>5, <2>6, <2>7, <2>8 DEF BlankInv
  <1>2. ASSUME NEW h \in Handle, ReleaseData(h) PROVE BlankInv'
    <2>1. /\ DataRelease(h) /\ h \in live /\ live' = live \ {h} /\ last_dserial' = last_dserial
          /\ tainted' = tainted \ {h} /\ gone' = (gone \/ h = plain)
          /\ phase' = phase /\ plain' = plain /\ plaintext_dserial' = plaintext_dserial
      BY <1>2 DEF ReleaseData, DataRelease
    <2>2. /\ TableInv' /\ Slots' = Slots
          /\ \A g \in live' : propidx'[g] = propidx[g] /\ table'[propidx'[g]] = table[propidx[g]]
      BY <1>0, <2>1, ReleaseSound
    <2>3. BlankedIffFailed' /\ tainted' \subseteq live' /\ plaintext_dserial' \in 0..last_dserial'
      BY <2>1, <2>2 DEF BlankInv, BlankedIffFailed, Blanked
    <2>4. phase' = "running" /\ gone' => Found(plaintext_dserial)' = {}
      <3> SUFFICES ASSUME phase = "running", gone \/ h = plain, NEW i \in Slots,
                          table'[i].dh # NoHandle, table'[i].dserial = plaintext_dserial
                   PROVE FALSE
        BY Zenon, <2>1, <2>2 DEF Found
      <3>1. table[i].dserial = plaintext_dserial /\ i # propidx[h] /\ table[i].dh # NoHandle
        BY <1>0, <2>1, ReleaseSound
      <3>2. CASE gone
        BY <3>1, <3>2 DEF BlankInv, Found
      <3>3. CASE ~gone /\ h = plain
        <4>1. table[propidx[h]].dserial = plaintext_dserial /\ propidx[h] \in Slots
              /\ table[propidx[h]].dh # NoHandle
          BY <2>1, <3>3 DEF BlankInv, DSerial, TableInv, PropidxSound
        <4> QED BY <1>0, <3>1, <4>1, SMT DEF TableInv, SerialsUnique
      <3> QED BY <3>2, <3>3
    <2>5. phase' = "running" /\ ~gone' => plain' \in live' /\ DSerial(plain)' = plaintext_dserial'
      BY Zenon, <2>1, <2>2 DEF BlankInv, DSerial
    <2> QED BY <2>2, <2>3, <2>4, <2>5 DEF BlankInv
  <1>3. ASSUME NEW h \in Handle, NEW s \in script.sync, Start(h, s) PROVE BlankInv'
    <2>1. /\ UNCHANGED tableVars /\ tainted' = tainted /\ h \in live
          /\ plaintext_dserial' = DSerial(h) /\ plain' = h /\ gone' = FALSE
      BY <1>3 DEF Start
    <2>2. DSerial(h) \in 0..last_dserial
      BY <1>0, <2>1, SMT DEF TableInv, TableTypeOK, PropidxSound, SerialsUnique, DSerial, Slots,
                             property_s, Serials
    <2>3. DSerial(h)' = DSerial(h) /\ live' = live /\ last_dserial' = last_dserial
      BY <2>1 DEF DSerial, tableVars
    <2> QED BY <2>1, <2>2, <2>3, TableUntouched DEF BlankInv, DSerial
  <1>4. ASSUME NEW h \in Handle, NEW s \in script.sync, StartFails(h, s) PROVE BlankInv'
    <2>1. /\ UNCHANGED tableVars /\ tainted' = tainted /\ h \in live
          /\ plaintext_dserial' = DSerial(h) /\ phase' = "done"
      BY <1>4 DEF StartFails
    <2>2. DSerial(h) \in 0..last_dserial
      BY <1>0, <2>1, SMT DEF TableInv, TableTypeOK, PropidxSound, SerialsUnique, DSerial, Slots,
                             property_s, Serials
    <2> QED BY <2>1, <2>2, TableUntouched DEF BlankInv, tableVars
  <1>5. ASSUME \/ SetIgnore \/ Output \/ Cancel \/ Result \/ UNCHANGED vars PROVE BlankInv'
    <2>1. /\ UNCHANGED <<tableVars, tainted, plaintext_dserial, plain, gone>>
          /\ phase' = phase \/ phase' = "done"
      BY Zenon, <1>5 DEF SetIgnore, Output, Cancel, Result, Finish, vars, opVars
    <2>2. /\ Found(plaintext_dserial)' = Found(plaintext_dserial)
          /\ DSerial(plain)' = DSerial(plain) /\ live' = live /\ last_dserial' = last_dserial
      BY <2>1 DEF tableVars, Found, Slots, DSerial
    <2> QED BY <2>1, <2>2, TableUntouched DEF BlankInv
  <1>6. ASSUME NEW line \in script.lines, NEW cb \in {NoErr, "callback"}, Status(line, cb)
        PROVE  BlankInv'
    <2>1. /\ phase = "running" /\ (phase' = phase \/ phase' = "done")
          /\ UNCHANGED <<plaintext_dserial, plain, gone>>
      BY Zenon, <1>6 DEF Status, Finish
    <2>2. CASE line.code = "DECRYPTION_FAILED" /\ ~ignore_mdc_error
      <3>1. /\ Blankout(plaintext_dserial)
            /\ tainted' = IF gone THEN tainted ELSE tainted \cup {plain}
        BY <1>6, <2>2 DEF Status, BlankFailed
      <3>2. /\ size' = size /\ last_dserial' = last_dserial /\ live' = live /\ propidx' = propidx
        BY <3>1 DEF Blankout
      <3>3. CASE ~gone
        <4>1. /\ plain \in live /\ propidx[plain] \in Slots /\ table[propidx[plain]].dh = plain
              /\ table[propidx[plain]].dserial = plaintext_dserial /\ plain # NoHandle
          BY <1>0, <2>1, <3>3 DEF BlankInv, DSerial, TableInv, PropidxSound
        <4>2. plaintext_dserial # 0 /\ plaintext_dserial \in Serials
          BY <1>0, <4>1, SMT DEF TableInv, TableTypeOK, Slots, property_s, SerialsUnique
        <4>3. /\ TableInv' /\ Slots' = Slots
              /\ \A i \in Slots : /\ table'[i].dh = table[i].dh
                                  /\ table'[i].dserial = table[i].dserial
                                  /\ table'[i].blankout =
                                       (table[i].blankout \/ i \in Found(plaintext_dserial))
          BY <1>0, <3>1, <4>2, BlankoutSound
        <4>4. Found(plaintext_dserial) = {propidx[plain]}
          BY <1>0, <4>1, <4>2, SMT DEF TableInv, SerialsUnique, Found
        <4>5. \A g \in live : propidx[g] \in Slots /\ (g # plain => propidx[g] # propidx[plain])
          BY <1>0, <4>1, SMT DEF TableInv, PropidxSound
        <4>6. BlankedIffFailed'
          <5> SUFFICES ASSUME NEW g \in live PROVE Blanked(g)' <=> g \in tainted \cup {plain}
            BY <3>1, <3>2, <3>3 DEF BlankedIffFailed
          <5>1. Blanked(g)' = (Blanked(g) \/ propidx[g] = propidx[plain])
            BY <3>2, <4>3, <4>4, <4>5, Zenon DEF Blanked
          <5> QED BY Zenon, <4>5, <5>1 DEF BlankInv, BlankedIffFailed
        <4>7. DSerial(plain)' = plaintext_dserial
          BY <2>1, <3>2, <4>1, <4>3 DEF DSerial
        <4> QED BY <2>1, <3>1, <3>2, <3>3, <4>1, <4>3, <4>6, <4>7 DEF BlankInv
      <3>4. CASE gone
        <4>1. Found(plaintext_dserial) = {}
          BY <2>1, <3>4 DEF BlankInv
        <4>2. table' = [i \in Slots |-> table[i]]
          BY <3>1, <4>1, Zenon DEF Blankout
        <4>3. table' = table
          BY <1>0, <4>2, SMT DEF TableInv, TableTypeOK, Slots
        <4>4. UNCHANGED tableVars /\ tainted' = tainted
          BY <3>1, <3>2, <3>4, <4>3 DEF tableVars
        <4>5. /\ Found(plaintext_dserial)' = Found(plaintext_dserial)
          BY <2>1, <4>3 DEF Found, Slots
        <4> QED BY <2>1, <3>2, <3>4, <4>1, <4>4, <4>5, TableUntouched DEF BlankInv
      <3> QED BY <3>3, <3>4
    <2>3. CASE ~(line.code = "DECRYPTION_FAILED" /\ ~ignore_mdc_error)
      <3>1. UNCHANGED tableVars /\ tainted' = tainted
        BY <1>6, <2>3, Zenon DEF Status, BlankFailed
      <3>2. /\ Found(plaintext_dserial)' = Found(plaintext_dserial)
            /\ DSerial(plain)' = DSerial(plain) /\ live' = live /\ last_dserial' = last_dserial
        BY <2>1, <3>1 DEF tableVars, Found, Slots, DSerial
      <3> QED BY <2>1, <3>1, <3>2, TableUntouched DEF BlankInv
    <2> QED BY <2>2, <2>3
  <1> QED BY <1>1, <1>2, <1>3, <1>4, <1>5, <1>6 DEF Next

\* In every state the property table is sound and a running decryption's
\* serial number denotes its own data object or none.
THEOREM BlankSafe == Spec => []BlankInv
  BY BlankInit, BlankStep, PTL DEF Spec

\* Exactly the data objects of failed decryptions are void, whatever is
\* created and released meanwhile.
THEOREM OnlyFailedBlanked == Spec => []BlankedIffFailed
  BY BlankSafe, PTL DEF BlankInv

\* The assertions of data.c about the property table hold.
THEOREM TableSafe == Spec => []TableInv
  BY BlankSafe, PTL DEF BlankInv
=============================================================================
