----------------------------- MODULE DataTable -----------------------------
(***************************************************************************)
(* The property table of data objects (data.c).  A data object is known by *)
(* its handle, an address that malloc may hand out again, and by a serial  *)
(* number that is never used twice.  Other threads create and release data *)
(* objects at any time; every function here runs under                     *)
(* property_table_lock, so each is one step.                               *)
(***************************************************************************)
EXTENDS Naturals

CONSTANTS
  Handle,      \* the addresses of data objects
  NoHandle,    \* the null pointer
  Chunk,       \* PROPERTY_TABLE_ALLOCATION_CHUNK
  MaxSerial    \* bound: data objects created

ASSUME DataTableAssumption ==
  /\ NoHandle \notin Handle
  /\ Chunk \in Nat \ {0}
  /\ MaxSerial \in Nat

VARIABLES
  size,          \* property_table_size
  table,         \* property_table
  last_dserial,  \* the serial number given out last
  live,          \* the data objects that exist
  propidx        \* [Handle -> Nat], dh->propidx

tableVars == <<size, table, last_dserial, live, propidx>>

Serials   == 0..MaxSerial
property_s == [dh : Handle \cup {NoHandle}, dserial : Serials, blankout : BOOLEAN]
Unused    == [dh |-> NoHandle, dserial |-> 0, blankout |-> FALSE]

TableTypeOK ==
  /\ size \in Nat
  /\ table \in [0..(size - 1) -> property_s]
  /\ last_dserial \in Serials
  /\ live \subseteq Handle
  /\ propidx \in [Handle -> Nat]

TableInit ==
  /\ size = 0
  /\ table = [i \in 0..(size - 1) |-> Unused]
  /\ last_dserial = 0
  /\ live = {}
  /\ propidx = [h \in Handle |-> 0]
-----------------------------------------------------------------------------
Slots == DOMAIN table

\* Mutant: the slot keeps the serial number of its former data object.
kept_serial(h, i) ==
  [dh |-> h, dserial |-> IF i \in Slots /\ table[i].dserial # 0 THEN table[i].dserial
                         ELSE last_dserial + 1, blankout |-> FALSE]

\* What a slot holds once it is given to the new data object h.
NewEntry(h, i) ==
  [dh |-> h, dserial |-> last_dserial + 1, blankout |-> FALSE]

\* _gpgme_data_new with insert_into_property_table: the first free slot, or
\* the first of a new chunk when there is none.  When memory runs out
\* nothing changes.
DataNew(h) ==
  /\ h \notin live
  /\ last_dserial < MaxSerial
  /\ \/ \E i \in Slots :
          /\ table[i].dh = NoHandle
          /\ \A j \in 0..(i - 1) : table[j].dh # NoHandle
          /\ table' = [table EXCEPT ![i] = NewEntry(h, i)]
          /\ propidx' = [propidx EXCEPT ![h] = i]
          /\ UNCHANGED size
     \/ /\ \A i \in Slots : table[i].dh # NoHandle
        /\ size' = size + Chunk
        /\ table' = [i \in 0..(size + Chunk - 1) |->
                       IF i < size THEN table[i]
                       ELSE IF i = size THEN NewEntry(h, i) ELSE Unused]
        /\ propidx' = [propidx EXCEPT ![h] = size]
  /\ last_dserial' = last_dserial + 1
  /\ live' = live \cup {h}

\* _gpgme_data_release with remove_from_property_table.
DataRelease(h) ==
  /\ h \in live
  /\ table' = [table EXCEPT ![propidx[h]].dh = NoHandle]
  /\ live' = live \ {h}
  /\ UNCHANGED <<size, last_dserial, propidx>>

\* _gpgme_data_get_dserial.
DSerial(h) == table[propidx[h]].dserial

\* The slots _gpgme_data_set_prop finds by serial number.
Found(s) == {i \in Slots : table[i].dh # NoHandle /\ table[i].dserial = s}

\* _gpgme_data_set_prop (NULL, s, DATA_PROP_BLANKOUT, 1): the first slot with
\* that serial number, and GPG_ERR_NOT_FOUND, which the caller ignores, if
\* the data object is gone.
Blankout(s) ==
  /\ table' = [i \in Slots |->
                 IF i \in Found(s) /\ \A j \in Found(s) : i <= j
                 THEN [dh |-> table[i].dh, dserial |-> s, blankout |-> TRUE] ELSE table[i]]
  /\ UNCHANGED <<size, last_dserial, live, propidx>>

\* What gpgme_data_read and gpgme_data_release_and_get_mem test.
Blanked(h) == table[propidx[h]].blankout
-----------------------------------------------------------------------------
(* The assertions of remove_from_property_table, _gpgme_data_get_dserial   *)
(* and _gpgme_data_set_prop, for every data object at every moment: the    *)
(* index a data object remembers is in the table, and the slot there       *)
(* points back to it, however many objects came and went and however often *)
(* the table grew.                                                         *)
PropidxSound ==
  \A h \in live : propidx[h] \in Slots /\ table[propidx[h]].dh = h

(* A used slot belongs to a live data object that knows it, so that no     *)
(* slot is lost and none is shared.                                        *)
SlotsOwned ==
  \A i \in Slots : table[i].dh # NoHandle =>
    table[i].dh \in live /\ propidx[table[i].dh] = i

(* Data.c promises "a unique serial number for each created data object":  *)
(* no two slots, used or free, carry the same serial number, and none one  *)
(* that is still to be given out.                                          *)
SerialsUnique ==
  /\ \A i \in Slots : table[i].dserial <= last_dserial
  /\ \A i \in Slots : table[i].dh # NoHandle => table[i].dserial # 0
  /\ \A i, j \in Slots :
       i # j /\ table[i].dserial = table[j].dserial => table[i].dserial = 0

TableInv ==
  /\ TableTypeOK
  /\ PropidxSound
  /\ SlotsOwned
  /\ SerialsUnique
=============================================================================
