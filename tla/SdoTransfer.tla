---------------------------- MODULE SdoTransfer ----------------------------
(***************************************************************************)
(* SDO uploads and downloads of soes/esc_coe.c: what the segments of a     *)
(* transfer move, with and without Complete Access, while the application  *)
(* changes the same objects and transfers are given up half way.           *)
(*                                                                         *)
(* The mailbox below is ReplyChannel: requests are handled one at a time   *)
(* and every reply queued arrives.  A reply that finds no buffer is not    *)
(* queued.  Data is counted in units; one unit is the value it belongs to  *)
(* and its place in it.                                                    *)
(***************************************************************************)
EXTENDS Integers, Sequences, FiniteSets

CONSTANTS
  Objects,            \* entries of the dictionary
  Size,               \* units each of them takes
  ByCA,               \* those accessed with Complete Access
  Strings,            \* those that may be written shorter than they are
  PreopOnly,          \* those written in PREOP only
  Refusing,           \* those a hook of the application may refuse
  Holding,            \* those whose download the application holds back
  ExpeditedRoom,      \* units in an expedited message (4 bytes)
  InitRoom,           \* units in the first message (ESC_MBXDSIZE - COE_HEADERSIZE)
  SegRoom,            \* units in a segment (ESC_MBXDSIZE - COE_SEGMENTHEADERSIZE)
  BufferSize,         \* units of an object the preallocated buffer takes
  ListFrags,          \* mailboxes the object list takes
  MaxValues,          \* bound on the values written
  MaxDrops            \* bound on the replies that find no buffer

ASSUME SdoConstantsAssumption ==
  /\ Size \in [Objects -> Nat \ {0}]
  /\ ByCA \subseteq Objects /\ Strings \subseteq Objects \ ByCA
  /\ PreopOnly \subseteq Objects /\ Refusing \subseteq Objects
  /\ Holding \subseteq Objects \ ByCA
  /\ {"none", "mbxdata"} \cap Objects = {}
  /\ ExpeditedRoom \in Nat /\ InitRoom \in Nat /\ SegRoom \in Nat /\ BufferSize \in Nat
  /\ ExpeditedRoom < InitRoom /\ InitRoom < SegRoom
  /\ ListFrags \in Nat \ {0}
  /\ MaxValues \in Nat /\ MaxDrops \in Nat

VARIABLES
  obj,                \* contents of the objects
  al,                 \* AL status
  segmented,          \* ESCvar.segmented: "no", "up" (MBXSEU) or "down" (MBXSED)
  frags, fragsleft,   \* ESCvar.frags, ESCvar.fragsleft
  data,               \* ESCvar.data: where it points and how far in
  target, caFlag,     \* ESCvar.index; ESCvar.flags is COMPLETE_ACCESS_FLAG
  mbxdata,            \* ESCvar.mbxdata, the preallocated buffer
  held,               \* sdo_held
  req, reply,         \* the request in buffer 0, the reply in the mailbox
  xfer,               \* the master's transfer: running, or the last one
  snap, torn,         \* history: the object when xfer began; written since by others
  values, drops,      \* values written so far, replies dropped before kept
  kept                \* history: a refused last segment has kept a buffer

transferVars == <<segmented, frags, fragsleft, data, target, caFlag, mbxdata>>
masterVars   == <<xfer, values>>
vars == <<obj, al, transferVars, held, req, reply, masterVars, snap, torn, drops, kept>>

None    == "none"
Zero    == -1       \* the value of a unit that was padded
Nothing == [kind |-> "none"]
Unit(v, i)  == <<v, i>>
Value(v, n) == [i \in 1 .. n |-> Unit(v, i)]
Least(a, b) == IF a < b THEN a ELSE b
Part(s, off, n) == SubSeq(s, off + 1, off + n)
Put(s, off, d)  == [i \in DOMAIN s |-> IF i - off \in DOMAIN d THEN d[i - off] ELSE s[i]]

Abort        == [kind |-> "abort"]
Done         == [kind |-> "done"]
First(n, d)  == [kind |-> "first", size |-> n, data |-> d]
Segment(d, last) == [kind |-> "segment", data |-> d, last |-> last]

\* There may be no buffer: now and then, or at any time once one of them is kept.
Scarce == /\ kept \/ drops < MaxDrops
          /\ drops' = IF kept THEN drops ELSE drops + 1

\* A reply for which there is no buffer is not sent; all else has happened.
Answered(m) == \/ reply' = m /\ UNCHANGED drops
               \/ Scarce /\ reply' = Nothing

Idle == [phase |-> "none", op |-> "up", obj |-> CHOOSE o \in Objects : TRUE,
         size |-> 0, data |-> <<>>, sent |-> 0]

Init ==
  /\ obj = [o \in Objects |-> Value(0, Size[o])]
  /\ al = "PREOP" /\ segmented = "no" /\ frags = 0 /\ fragsleft = 0
  /\ data = [at |-> None, off |-> 0] /\ target = None /\ caFlag = FALSE
  /\ mbxdata = Value(0, BufferSize)
  /\ held = None /\ req = Nothing /\ reply = Nothing
  /\ xfer = Idle /\ snap = <<>> /\ torn = FALSE /\ values = 0 /\ drops = 0 /\ kept = FALSE

-----------------------------------------------------------------------------
(* The handlers: what a request does and what it answers.  A hook ends     *)
(* well, or refuses before ("pre") or after ("post") the data has moved.   *)

Hooks(o) == {"ok"} \cup (IF o \in Refusing THEN {"pre", "post"} ELSE {})
Writable(o) == al = "PREOP" \/ o \notin PreopOnly

\* Mutants: the object itself read or written piece by piece; a Complete Access
\* upload not signalled; the string not padded.
InObject(o)     == [at |-> o, off |-> 0]
SignalledPlain(o) == IF o \in ByCA THEN segmented ELSE "up"
NotPadded(o, n) == obj[o]
Staging(o)      == [at |-> "mbxdata", off |-> 0]
Signalled(o)    == "up"
\* A shorter string is padded before the hook is asked.
Padded(o, n)    == [i \in DOMAIN obj[o] |-> IF i > n THEN Unit(Zero, i) ELSE obj[o][i]]

\* SDO_upload and SDO_upload_complete_access.  An expedited answer leaves the
\* transfer state as it was unless it is one of Complete Access.
SDO_upload(o, hook) ==
  LET n     == Size[o]
      inOne == n <= InitRoom
      src   == IF o \in ByCA THEN Staging(o) ELSE InObject(o)
      refused == hook = "pre" \/ (o \in ByCA /\ n > BufferSize)
  IN /\ snap' = obj[o] /\ torn' = FALSE
     /\ IF refused THEN UNCHANGED transferVars
        ELSE /\ mbxdata' = IF o \in ByCA THEN Put(mbxdata, 0, obj[o]) ELSE mbxdata
             /\ segmented' = IF ~inOne THEN Signalled(o)
                             ELSE IF n > ExpeditedRoom \/ o \in ByCA THEN "no" ELSE segmented
             /\ frags' = IF ~inOne \/ (n > ExpeditedRoom /\ o \notin ByCA) THEN n ELSE frags
             /\ IF inOne THEN UNCHANGED <<fragsleft, data, caFlag>>
                ELSE fragsleft' = InitRoom /\ data' = src /\ caFlag' = (o \in ByCA)
             /\ UNCHANGED target
     /\ reply' = IF refused \/ (hook = "post" /\ segmented' = "no") THEN Abort
                 ELSE First(n, Part(obj[o], 0, Least(n, InitRoom)))
     /\ UNCHANGED <<obj, held, drops, kept>>

\* SDO_uploadsegment.
SDO_uploadsegment(hook) ==
  LET left == frags - fragsleft
      last == left <= SegRoom
      n    == Least(left, SegRoom)
      src  == IF data.at = "mbxdata" THEN mbxdata ELSE obj[data.at]
  IN /\ IF last THEN segmented' = "no" /\ frags' = 0 /\ fragsleft' = 0
        ELSE fragsleft' = fragsleft + n /\ UNCHANGED <<segmented, frags>>
     /\ reply' = IF last /\ hook # "ok" THEN Abort
                 ELSE Segment(Part(src, data.off + fragsleft, n), last)
     /\ UNCHANGED <<obj, held, drops, kept, data, target, caFlag, mbxdata, snap, torn>>

Fits(o, n) == n = Size[o] \/ (o \in Strings /\ n < Size[o])

\* SDO_download: into the object, as far as the first message goes.
SDO_download(o, n, d, hook) ==
  LET more    == n > ExpeditedRoom /\ n > Len(d)
      refused == ~Writable(o) \/ ~Fits(o, n)
      dropped == refused \/ hook = "pre" \/ o \in Holding
  IN /\ snap' = obj[o] /\ torn' = FALSE
     /\ obj' = [obj EXCEPT ![o] = IF refused THEN @
                                  ELSE IF dropped THEN Padded(o, n) ELSE Put(Padded(o, n), 0, d)]
     /\ IF dropped THEN UNCHANGED transferVars
        ELSE /\ segmented' = IF more THEN "down" ELSE "no"
             /\ IF more THEN data' = [at |-> o, off |-> Len(d)] /\ target' = o /\ caFlag' = FALSE
                ELSE UNCHANGED <<data, target, caFlag>>
             /\ UNCHANGED <<frags, fragsleft, mbxdata>>
     /\ held' = IF ~refused /\ hook # "pre" /\ o \in Holding /\ ~more THEN o ELSE held
     /\ Answered(IF refused \/ hook = "pre" \/ (o \in Holding /\ more) THEN Abort
                 ELSE IF o \in Holding THEN Nothing
                 ELSE IF hook = "post" /\ ~more THEN Abort ELSE Done)
     /\ UNCHANGED kept

\* The copy into the entries of the object; those that may not be written now
\* are passed over in silence.
CAStored(o, buf, n) ==
  IF Writable(o) THEN [obj EXCEPT ![o] = Put(@, 0, SubSeq(buf, 1, Least(n, Size[o])))] ELSE obj

\* SDO_download_complete_access: into the buffer if more is to come.
SDO_download_complete_access(o, n, d, hook) ==
  LET more == n > InitRoom
      at   == Staging(o).at
      refused == hook = "pre" \/ n > Size[o] \/ (more /\ n > BufferSize)
  IN /\ snap' = obj[o] /\ torn' = FALSE
     /\ IF refused THEN UNCHANGED <<obj, transferVars>>
        ELSE /\ segmented' = IF more THEN "down" ELSE "no"
             /\ IF more
                THEN /\ frags' = n /\ fragsleft' = InitRoom
                     /\ data' = [at |-> at, off |-> InitRoom] /\ target' = o /\ caFlag' = TRUE
                     /\ IF at = o THEN obj' = [obj EXCEPT ![o] = Put(@, 0, d)] ELSE UNCHANGED obj
                     /\ mbxdata' = Put(mbxdata, 0, d)
                ELSE /\ obj' = CAStored(o, d, n)
                     /\ UNCHANGED <<frags, fragsleft, data, target, caFlag, mbxdata>>
     /\ Answered(IF refused \/ (hook = "post" /\ ~more) THEN Abort ELSE Done)
     /\ UNCHANGED <<held, kept>>

\* SDO_downloadsegment.  A segment goes where the transfer points; after the
\* last one the entries of an object are filled from the buffer.  A last one
\* that comes too early is refused: the buffer claimed for the response stays
\* claimed and the abort needs one more.
SDO_downloadsegment(d, last, hook) ==
  LET n      == Len(d)
      staged == data.at = "mbxdata"
      moved  == IF staged THEN obj ELSE [obj EXCEPT ![data.at] = Put(@, data.off, d)]
  IN /\ mbxdata' = IF staged THEN Put(mbxdata, data.off, d) ELSE mbxdata
     /\ IF ~last
        THEN /\ data' = [data EXCEPT !.off = @ + n] /\ fragsleft' = fragsleft + n
             /\ obj' = moved /\ reply' = Done /\ UNCHANGED <<segmented, frags, drops, kept>>
        ELSE IF caFlag /\ frags > fragsleft + n
        THEN /\ obj' = moved /\ kept' = TRUE /\ drops' = 0 /\ reply' \in {Abort, Nothing}
             /\ UNCHANGED <<segmented, frags, fragsleft, data>>
        ELSE /\ obj' = IF caFlag /\ staged THEN CAStored(target, mbxdata', frags) ELSE moved
             /\ segmented' = "no" /\ frags' = 0 /\ fragsleft' = 0 /\ UNCHANGED <<data, drops, kept>>
             /\ reply' = IF hook = "ok" THEN Done ELSE Abort
     /\ UNCHANGED <<held, target, caFlag, snap, torn>>

\* SDO_getodlist and SDO_getodlistcont, of the transfer state only.
SDO_getodlist ==
  \E left \in {0, ListFrags - 1} :
    /\ frags' = ListFrags /\ fragsleft' = left /\ reply' = Done
    /\ UNCHANGED <<obj, segmented, data, target, caFlag, mbxdata, held, drops, kept, snap, torn>>

ESC_SDO_complete ==
  /\ held # None /\ reply = Nothing
  /\ held' = None
  /\ \E m \in {Done, Abort} : Answered(m)
  /\ UNCHANGED <<obj, al, transferVars, req, masterVars, snap, torn, kept>>

\* ESC_coeprocess: which handler takes the request.  A segment request is
\* taken while an upload runs and stays in the mailbox otherwise.
Dispatch ==
  \/ /\ req.kind = "upload"
     /\ \E hook \in Hooks(req.obj) : SDO_upload(req.obj, hook)
  \/ /\ req.kind = "useg" /\ segmented = "up"
     /\ \E hook \in Hooks(xfer.obj) : SDO_uploadsegment(hook)
  \/ /\ req.kind = "download"
     /\ \E hook \in Hooks(req.obj) :
          IF req.obj \in ByCA THEN SDO_download_complete_access(req.obj, req.size, req.data, hook)
          ELSE SDO_download(req.obj, req.size, req.data, hook)
  \/ /\ req.kind = "dseg"
     /\ \E hook \in Hooks(target) : SDO_downloadsegment(req.data, req.last, hook)
  \/ req.kind = "list" /\ SDO_getodlist

ESC_coeprocess ==
  /\ reply = Nothing /\ req # Nothing
  /\ Dispatch
  /\ req' = Nothing
  /\ UNCHANGED <<al, masterVars>>

\* Uploads and segments ask for the buffer first and do nothing without one.
NoBuffer ==
  /\ req.kind \in {"upload", "useg", "dseg"} /\ Scarce
  /\ req' = Nothing
  /\ UNCHANGED <<obj, al, transferVars, held, reply, masterVars, snap, torn, kept>>

-----------------------------------------------------------------------------
(* The master, one request at a time, and the application.                 *)

Quiet == req = Nothing /\ reply = Nothing /\ held = None
MasterOnly == UNCHANGED <<obj, al, transferVars, held, snap, torn, drops, kept>>

Upload(o) ==
  /\ Quiet /\ xfer.phase # "running"
  /\ xfer' = [Idle EXCEPT !.phase = "running", !.obj = o]
  /\ req' = [kind |-> "upload", obj |-> o]
  /\ MasterOnly /\ UNCHANGED <<reply, values>>

\* A value of the right size, or one unit off; no string is longer than its entry.
Sizes(o) == {Size[o]} \cup IF o \in Strings THEN {Size[o] - 1} ELSE {Size[o] + 1}

Download(o, n) ==
  LET first == Least(n, InitRoom)
  IN /\ Quiet /\ xfer.phase # "running" /\ values < MaxValues
     /\ values' = values + 1
     /\ xfer' = [phase |-> "running", op |-> "down", obj |-> o, size |-> n,
                 data |-> Value(values', n), sent |-> first]
     /\ req' = [kind |-> "download", obj |-> o, size |-> n, data |-> Value(values', first)]
     /\ MasterOnly /\ UNCHANGED reply

GetList ==
  /\ Quiet /\ xfer.phase # "running"
  /\ req' = [kind |-> "list"] /\ MasterOnly /\ UNCHANGED <<reply, xfer, values>>

\* What the master makes of an answer, and the request it follows up with.
Received(m) ==
  LET got == [xfer EXCEPT !.data = IF m.kind = "first" THEN m.data ELSE @ \o m.data,
                          !.size = IF m.kind = "first" THEN m.size ELSE @]
      end == IF m.kind = "first" THEN Len(m.data) >= m.size ELSE m.last
  IN IF end THEN xfer' = [got EXCEPT !.phase = "done"] /\ req' = Nothing
     ELSE xfer' = got /\ req' = [kind |-> "useg"]

\* It may end a download under Complete Access before all of it is sent.
SendMore ==
  LET n == Least(xfer.size - xfer.sent, SegRoom)
      over == xfer.sent + n = xfer.size
  IN IF n = 0 THEN xfer' = [xfer EXCEPT !.phase = "done"] /\ req' = Nothing
     ELSE /\ xfer' = [xfer EXCEPT !.sent = @ + n]
          /\ \E last \in BOOLEAN :
               /\ over => last
               /\ last => over \/ xfer.obj \in ByCA
               /\ req' = [kind |-> "dseg", data |-> Part(xfer.data, xfer.sent, n), last |-> last]

TakeReply ==
  /\ reply # Nothing /\ reply' = Nothing
  /\ IF xfer.phase # "running" THEN UNCHANGED <<xfer, req>>
     ELSE IF reply.kind = "abort" THEN xfer' = [xfer EXCEPT !.phase = "aborted"] /\ UNCHANGED req
     ELSE IF reply.kind = "done" THEN SendMore ELSE Received(reply)
  /\ MasterOnly /\ UNCHANGED values

\* The master gives the transfer up: no answer came, or it has no use for the rest.
Abandon ==
  /\ xfer.phase = "running" /\ req = Nothing /\ held = None
  /\ xfer' = [xfer EXCEPT !.phase = "given up"] /\ reply' = Nothing
  /\ MasterOnly /\ UNCHANGED <<req, values>>

AppWrite(o) ==
  /\ values < MaxValues /\ values' = values + 1
  /\ obj' = [obj EXCEPT ![o] = Value(values', Size[o])]
  /\ torn' = (torn \/ o = xfer.obj)
  /\ UNCHANGED <<al, transferVars, held, req, reply, xfer, snap, drops, kept>>

ALControl ==
  /\ al' = IF al = "PREOP" THEN "OP" ELSE "PREOP"
  /\ UNCHANGED <<obj, transferVars, held, req, reply, masterVars, snap, torn, drops, kept>>

Next ==
  \/ ESC_coeprocess \/ NoBuffer \/ ESC_SDO_complete
  \/ \E o \in Objects : Upload(o) \/ AppWrite(o) \/ \E n \in Sizes(o) : Download(o, n)
  \/ GetList \/ TakeReply \/ Abandon \/ ALControl

\* The stack is polled, the application ends what it holds, the master reads
\* its mailbox and gives up on an answer that does not come.
Fairness ==
  /\ WF_vars(ESC_coeprocess) /\ WF_vars(ESC_SDO_complete) /\ WF_vars(TakeReply)
  /\ WF_vars(Abandon /\ reply = Nothing)

Spec == Init /\ [][Next]_vars /\ Fairness

-----------------------------------------------------------------------------
\* What the master has read is the object: every unit in its place, and all of
\* one moment, the one of the request under Complete Access (the values are
\* copied to ESCvar.mbxdata at once) and any moment if nothing wrote to the
\* object meanwhile otherwise.
UploadIsTheObject ==
  (xfer.phase = "done" /\ xfer.op = "up") =>
    /\ Len(xfer.data) = Size[xfer.obj]
    /\ \A i \in 1 .. Size[xfer.obj] : xfer.data[i][2] = i
    /\ (xfer.obj \in ByCA \/ ~torn) => xfer.data = snap

\* A download that ended well has stored what was sent, the rest of a shorter
\* string is zero, whatever transfers were given up before.
DownloadStored ==
  (xfer.phase = "done" /\ xfer.op = "down" /\ ~torn /\ xfer.obj \notin Holding
     /\ xfer.obj \notin ByCA \cap PreopOnly)
    => obj[xfer.obj] = [i \in 1 .. Size[xfer.obj] |->
                          IF i > xfer.size THEN Unit(Zero, i) ELSE xfer.data[i]]

\* Complete Access stores all of a value or nothing: an object only accessed so
\* never holds parts of two, not even after a download given up half way.
CaObjectsWhole == \A o \in ByCA : \E v \in 0 .. MaxValues : obj[o] = Value(v, Size[o])

\* Every transfer ends: answered, refused, or given up for want of an answer.
TransferEnds == xfer.phase = "running" ~> xfer.phase # "running"
=============================================================================
