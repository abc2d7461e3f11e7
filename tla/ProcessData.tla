---------------------------- MODULE ProcessData ----------------------------
(***************************************************************************)
(* Process data: the mapping lists a master writes (0x1600.., 0x1C12, ...),*)
(* the map made of them on the way to SAFEOP (sizeOfPDO), outputs unpacked *)
(* into the objects and inputs packed from them in each pass               *)
(* (COE_pdoUnpack, COE_pdoPack, DIG_process), and the drive of             *)
(* applications/cia402_drive, which shows each axis its own setpoint until *)
(* it reaches its safe state.  The AL states are those of ESC, without its *)
(* other reasons to refuse one.                                            *)
(*                                                                         *)
(* Memories of the ESC, wires and values are sets of bits; rxpdo and txpdo *)
(* are bitmaps of words.                                                   *)
(***************************************************************************)
EXTENDS BitSlice, SequencesExt

CONSTANTS
  ByteBits,       \* 8
  Words,          \* words in rxpdo and txpdo
  BitLength,      \* bitlength of each object: a function
  Target,         \* for each actual value of an axis, the setpoint it shows
  Cleared,        \* the actual values the safe state clears, with their setpoints
  Written,        \* the objects a master also writes by SDO
  ListOf,         \* the mapping lists at power-on: index |-> sequence of entries
  Writable,       \* those a master may write in PREOP (ATYPE_RWpre)
  Wishes,         \* the lists it writes there: index |-> set of sequences
  Patterns,       \* the bits of the frames it sends and of its SDO values
  MaxMappings,    \* MAX_MAPPINGS_SM2, MAX_MAPPINGS_SM3
  MaxDownloads    \* bound on the lists written

Pad     == "pad"
Objects == DOMAIN BitLength
Actuals == DOMAIN Target
Lists   == DOMAIN ListOf
SMs     == {2, 3}
Assignment == [m \in SMs |-> IF m = 2 THEN "1C12" ELSE "1C13"]

\* A mapping list holds entries, an assignment the indices of mapping lists.
IsList(index, list) ==
  IF index \in {"1C12", "1C13"} THEN list \in Seq(STRING \ {"1C12", "1C13"})
                               ELSE list \in Seq([obj : STRING, length : Nat])

ASSUME ProcessDataAssumption ==
  /\ ByteBits \in Nat \ {0} /\ WordBits % ByteBits = 0 /\ Words \in Nat /\ Pad \notin Objects
  /\ \A l \in Lists : IsList(l, ListOf[l])
  /\ \A l \in Writable : \A es \in Wishes[l] : IsList(l, es)
  /\ \A o \in Objects : BitLength[o] \in Nat \ {0} /\ (BitLength[o] > WordBits => BitLength[o] % ByteBits = 0)
  /\ \A a \in Actuals : a \in Objects /\ Target[a] \in Objects /\ BitLength[a] = BitLength[Target[a]]
  /\ Cleared \subseteq Actuals
  /\ Written \subseteq Objects \ Actuals /\ Writable \subseteq Lists /\ {"1C12", "1C13"} \subseteq Lists
  /\ MaxMappings \in Nat /\ MaxDownloads \in Nat

VARIABLES
  lists,          \* the mapping lists, as far as subindex 0 counts them
  SMmap,          \* SMmap2, SMmap3 up to sm2mappings, sm3mappings: [obj, offset]
  sml,            \* ESC_SM2_sml, ESC_SM3_sml: bytes
  Obj,            \* the objects: the bits of each that are 1
  rxpdo, txpdo,
  sm,             \* the memory of SM2 and SM3
  sm2Event,       \* the AL event of SM2
  alState,
  downloads

vars == <<lists, SMmap, sml, Obj, rxpdo, txpdo, sm, sm2Event, alState, downloads>>

OutputsOn == alState = "OP"
InputsOn  == alState \in {"SAFEOP", "OP"}

Init ==
  /\ lists = ListOf /\ SMmap = [m \in SMs |-> <<>>] /\ sml = [m \in SMs |-> 0]
  /\ Obj = [o \in Objects |-> {}]
  /\ rxpdo = [w \in 0 .. Words - 1 |-> {}] /\ txpdo = rxpdo
  /\ sm = [m \in SMs |-> {}] /\ sm2Event = FALSE
  /\ alState = "PREOP" /\ downloads = 0

-----------------------------------------------------------------------------
(* The map.                                                                *)

Bytes(bits) == (bits + ByteBits - 1) \div ByteBits

\* The entries of the PDOs assigned to a sync manager.  A PDO that is not in
\* the dictionary is passed over.
Entries(m) ==
  LET pdos == lists[Assignment[m]]
  IN FlattenSeq([i \in DOMAIN pdos |-> IF pdos[i] \in Lists THEN lists[pdos[i]] ELSE <<>>])

Offsets(es) ==
  LET at[i \in 0 .. Len(es)] == IF i = 0 THEN 0 ELSE at[i - 1] + es[i].length IN at

\* Mutant: offsets that do not count the padding.
PadForgotten(es) ==
  [i \in DOMAIN es |-> [obj |-> es[i].obj,
     offset |-> Offsets(SelectSeq(SubSeq(es, 1, i - 1), LAMBDA e : e.obj # Pad))
                  [Len(SelectSeq(SubSeq(es, 1, i - 1), LAMBDA e : e.obj # Pad))]]]

Size(es)    == Bytes(Offsets(es)[Len(es)])
CanMap(es)  == Len(es) <= MaxMappings /\ \A i \in DOMAIN es : es[i].obj \in Objects \cup {Pad}
MapOf(es)   == [i \in DOMAIN es |-> [obj |-> es[i].obj, offset |-> Offsets(es)[i - 1]]]

-----------------------------------------------------------------------------
(* Packing and unpacking.                                                  *)

BitOf(w, b) == w * WordBits + b

\* memcpy of n bits to bit at of a bitmap.
Copied(bitmap, at, n, value) ==
  [w \in DOMAIN bitmap |->
     {b \in Bits : IF BitOf(w, b) \in at .. at + n - 1 THEN BitOf(w, b) - at \in value
                                                       ELSE b \in bitmap[w]}]
Taken(bitmap, at, n) ==
  {i \in 0 .. n - 1 : (at + i) % WordBits \in bitmap[(at + i) \div WordBits]}

ByteStart(offset) == (offset \div ByteBits) * ByteBits

Pack1(objects, bitmap, entry) ==
  LET n == BitLength[entry.obj]
  IN IF entry.obj = Pad THEN bitmap
     ELSE IF n > WordBits
     THEN Copied(bitmap, ByteStart(entry.offset), Bytes(n) * ByteBits, objects[entry.obj])
     ELSE BitsliceSet(bitmap, entry.offset \div WordBits, entry.offset % WordBits, n, objects[entry.obj])

Unpack1(bitmap, objects, entry) ==
  LET n == BitLength[entry.obj]
  IN IF entry.obj = Pad THEN objects
     ELSE [objects EXCEPT ![entry.obj] =
             IF n > WordBits THEN Taken(bitmap, ByteStart(entry.offset), Bytes(n) * ByteBits)
             ELSE BitsliceGet(bitmap, entry.offset \div WordBits, entry.offset % WordBits, n)]

-----------------------------------------------------------------------------
(* The application.                                                        *)

\* Mutant: the safe state forgets the setpoints only.
SetpointsOnly(objects) ==
  [o \in Objects |-> IF \E a \in Cleared : o = Target[a] THEN {} ELSE objects[o]]

\* cb_apply_rxpdo shows position, velocity, torque and mode; app_safe_state clears the first three
\* and leaves the mode.
Mirrored(objects) == [o \in Objects |-> IF o \in Actuals THEN objects[Target[o]] ELSE objects[o]]
Safe(objects) ==
  [o \in Objects |-> IF \E a \in Cleared : o \in {a, Target[a]} THEN {} ELSE objects[o]]

-----------------------------------------------------------------------------
(* The master's requests.                                                  *)

\* A list is replaced: by complete access or, subindex 0 first set to 0, entry
\* by entry (ESC_download_pre_objecthandler).
DownloadList(index, entries) ==
  /\ alState = "PREOP" /\ downloads < MaxDownloads /\ downloads' = downloads + 1
  /\ lists' = [lists EXCEPT ![index] = entries]
  /\ UNCHANGED <<SMmap, sml, Obj, rxpdo, txpdo, sm, sm2Event, alState>>

\* An SDO download to an object of the drive.
DownloadObject(o, value) ==
  /\ Obj' = [Obj EXCEPT ![o] = value]
  /\ UNCHANGED <<lists, SMmap, sml, rxpdo, txpdo, sm, sm2Event, alState, downloads>>

\* PREOP_TO_SAFEOP and SAFEOP_TO_SAFEOP of ESC_state: SM2 before SM3, neither
\* left if it cannot be mapped.
ToSafeop ==
  /\ alState \in {"PREOP", "SAFEOP"}
  /\ LET es == [m \in SMs |-> Entries(m)]
     IN IF ~CanMap(es[2])
        THEN /\ SMmap' = [SMmap EXCEPT ![2] = <<>>] /\ sml' = [sml EXCEPT ![2] = 0]
             /\ alState' = "PREOP"
        ELSE IF ~CanMap(es[3])
        THEN /\ SMmap' = [m \in SMs |-> IF m = 2 THEN MapOf(es[2]) ELSE <<>>]
             /\ sml' = [m \in SMs |-> IF m = 2 THEN Size(es[2]) ELSE 0]
             /\ alState' = "PREOP"
        ELSE /\ SMmap' = [m \in SMs |-> MapOf(es[m])] /\ sml' = [m \in SMs |-> Size(es[m])]
             /\ alState' = "SAFEOP"
  /\ UNCHANGED <<lists, Obj, rxpdo, txpdo, sm, sm2Event, downloads>>

ToOp == /\ alState = "SAFEOP" /\ alState' = "OP"
        /\ UNCHANGED <<lists, SMmap, sml, Obj, rxpdo, txpdo, sm, sm2Event, downloads>>

\* OP is left, for whatever reason: ESC_stopoutput calls APP_safe_state.
LeaveOp ==
  /\ OutputsOn /\ alState' = "SAFEOP" /\ Obj' = Safe(Obj)
  /\ UNCHANGED <<lists, SMmap, sml, rxpdo, txpdo, sm, sm2Event, downloads>>

\* SAFEOP_TO_PREOP: the sync managers are switched off.
ToPreop ==
  /\ alState = "SAFEOP" /\ alState' = "PREOP" /\ sm2Event' = FALSE
  /\ UNCHANGED <<lists, SMmap, sml, Obj, rxpdo, txpdo, sm, downloads>>

\* A frame of outputs, as long as the master takes the process data to be.
Frame(bits) ==
  /\ InputsOn /\ sm2Event' = TRUE
  /\ sm' = [sm EXCEPT ![2] = bits \cap 0 .. ByteBits * sml[2] - 1]
  /\ UNCHANGED <<lists, SMmap, sml, Obj, rxpdo, txpdo, alState, downloads>>

-----------------------------------------------------------------------------
(* A pass of DIG_process with outputs and inputs.                          *)

\* The objects, the bitmap after i entries of a map.
Unpacked(map, bitmap, objects) ==
  LET after[i \in 0 .. Len(map)] == IF i = 0 THEN objects ELSE Unpack1(bitmap, after[i - 1], map[i])
  IN after
Packed(map, objects, bitmap) ==
  LET after[i \in 0 .. Len(map)] == IF i = 0 THEN bitmap ELSE Pack1(objects, after[i - 1], map[i])
  IN after

COE_pdoUnpack(bitmap, objects) == Unpacked(SMmap[2], bitmap, objects)[Len(SMmap[2])]
COE_pdoPack(objects, bitmap)   == Packed(SMmap[3], objects, bitmap)[Len(SMmap[3])]

\* rxpdo_read_sm2 and cb_apply_rxpdo; in SAFEOP the outputs are read and left.
Outputs ==
  IF ~sm2Event THEN UNCHANGED <<rxpdo, sm2Event, Obj>>
  ELSE /\ sm2Event' = FALSE
       /\ rxpdo' = Copied(rxpdo, 0, ByteBits * sml[2], sm[2])
       /\ Obj' = IF OutputsOn THEN Mirrored(COE_pdoUnpack(rxpdo', Obj)) ELSE Obj

\* txpdo_write_sm3
Inputs ==
  /\ txpdo' = COE_pdoPack(Obj', txpdo)
  /\ sm' = [sm EXCEPT ![3] = Taken(txpdo', 0, ByteBits * sml[3])]

DIG_process ==
  /\ InputsOn /\ Outputs /\ Inputs
  /\ UNCHANGED <<lists, SMmap, sml, alState, downloads>>

Next ==
  \/ DIG_process \/ ToSafeop \/ ToOp \/ LeaveOp \/ ToPreop
  \/ \E bits \in Patterns : Frame(bits)
  \/ \E o \in Written, bits \in Patterns : DownloadObject(o, bits \cap Mask(BitLength[o]))
  \/ \E l \in Writable : \E es \in Wishes[l] : DownloadList(l, es)

Spec == Init /\ [][Next]_vars

-----------------------------------------------------------------------------
(* The process data as the master sees it: its entries one after another,  *)
(* each with a range of bits, from the lists it has written.               *)

\* The wire: for each bit of the process data, the entry it belongs to and its place in it.
Wire(es) == FlattenSeq([i \in DOMAIN es |-> [k \in 1 .. es[i].length |-> <<i, k - 1>>]])
Shown(m, i) ==
  LET wire == Wire(Entries(m))
  IN {wire[p][2] : p \in {q \in DOMAIN wire : wire[q][1] = i /\ q - 1 \in sm[m]}}

\* What sizeOfPDO does not check of a mapping: that it fits rxpdo or txpdo, that each entry is as
\* long as its object, and that objects wider than a word, copied from whole bytes on, begin on one.
Regular(m) ==
  LET es == Entries(m)
  IN /\ ByteBits * sml[m] <= Words * WordBits
     /\ \A i \in DOMAIN es : es[i].obj # Pad =>
          /\ es[i].length = BitLength[es[i].obj]
          /\ es[i].length > WordBits => SMmap[m][i].offset % ByteBits = 0

\* A frame of outputs reaches the mapped objects, each the bits of its last entry, and no other
\* object but the mirrors of those.
OutputsArrive ==
  [][DIG_process /\ OutputsOn /\ sm2Event /\ Regular(2) =>
       LET es == Entries(2)
           of(o) == {i \in DOMAIN es : es[i].obj = o}
       IN \A o \in Objects \ Actuals :
            /\ of(o) = {} => Obj'[o] = Obj[o]
            /\ \A i \in of(o) : (\A j \in of(o) : j <= i) => Obj'[o] = Shown(2, i)]_vars

\* What the master reads after a pass are the objects, however the mapping lays them over words.
InputsShown ==
  [][DIG_process /\ Regular(3) =>
       \A i \in DOMAIN Entries(3) :
         LET o == Entries(3)[i].obj IN o # Pad => Shown(3, i)' = Obj'[o]]_vars

\* Out of OP no position, velocity or torque is shown as if it were still commanded
\* (app_safe_state), whatever frames come and whatever the master writes by SDO.
ForgottenOutOfOp ==
  [][DIG_process /\ ~OutputsOn /\ Regular(3) =>
       \A i \in DOMAIN Entries(3) : Entries(3)[i].obj \in Cleared => Shown(3, i)' = {}]_vars
=============================================================================
