-------------------------------- MODULE EoE --------------------------------
(***************************************************************************)
(* Ethernet over EtherCAT, soes/esc_eoe.c: frames cut into fragments and   *)
(* put together again in both directions, the frame buffers that change    *)
(* hands with the TCP/IP stack, and the network settings.  A restart of    *)
(* the mailbox loses the fragments in it and resets nothing here.          *)
(*                                                                         *)
(* Data is counted in blocks of 32 octets, the unit of the header.  The    *)
(* mailbox below is ReplyChannel.                                          *)
(***************************************************************************)
EXTENDS Integers, Sequences

CONSTANTS
  Sizes,          \* blocks of each frame, both ways: frames are numbered from 1
  Stamped,        \* the frames the master sends with a time stamp
  FragRoom,       \* blocks in a fragment
  FrameNos,       \* frame numbers there are (16; frameno counts to 256)
  Bufs,           \* mailbox buffers for answers and fragments
  Pool,           \* frame buffers of the TCP/IP stack
  Fields,         \* the network settings, "mac" one of them, the DNS name in parts:
  Name,           \* the parts of the name
  Place,          \* the order of the fields in a request, the name last
  MaxValues,      \* bound on the settings made
  MaxFaults       \* bound on the restarts of the mailbox

ASSUME EoeConstantsAssumption ==
  /\ Sizes \in Seq(Nat \ {0}) /\ Stamped \subseteq DOMAIN Sizes
  /\ FragRoom \in Nat \ {0} /\ FrameNos \in Nat \ {0} /\ Bufs \in Nat /\ Pool \in Nat
  /\ "mac" \in Fields \ Name /\ Name \subseteq Fields /\ Place \in [Fields -> Nat]
  /\ \A f \in Fields \ Name, n \in Name : Place[f] < Place[n]
  /\ MaxValues \in Nat /\ MaxFaults \in Nat

VARIABLES
  rxebuf,                           \* EOEvar: the frame as far as it has come, or NULL
  rxfragmentno, rxframesize, rxframeno,
  txebuf,                           \* EOEvar: the frame being sent, or None
  txfragmentno, txframeoffset, frameno,
  queue, queued, received, free,    \* the stack: frames to send, buffers it holds, free ones
  nic_ports,                        \* the network settings: [set, value] of each field
  req, replies,                     \* the mailbox
  mtx, mrx,                         \* the master: the frame it sends, the one it receives
  got, mgot,                        \* history: the frame delivered last, either way
  known,                            \* history: of each field the value the master has asked for
                                    \* last, and whether it was told that it is set
  values, faults

rxVars  == <<rxebuf, rxfragmentno, rxframesize, rxframeno, received, got>>
txVars  == <<txebuf, txfragmentno, txframeoffset, frameno, queue, queued>>
netVars == <<nic_ports, known, values>>
vars    == <<rxVars, txVars, free, netVars, req, replies, mtx, mrx, mgot, faults>>

NULL     == << <<-1, -1>> >>
None     == 0
Frames   == DOMAIN Sizes
Nothing  == [kind |-> "none"]
Stamp    == <<0, 0>>
Least(a, b) == IF a < b THEN a ELSE b
Frame(k) == [i \in 1 .. Sizes[k] |-> <<k, i>>]
Part(s, from, n) == SubSeq(s, from + 1, from + n)
NoFragment == [fragno |-> 0, frameno |-> 0, data |-> <<>>]
Unknown    == [value |-> 0, told |-> FALSE]

Init ==
  /\ rxebuf = <<>> /\ free = Pool - 1        \* EOE_init fetches the first buffer
  /\ rxfragmentno = 0 /\ rxframesize = 0 /\ rxframeno = 0
  /\ txebuf = None /\ txfragmentno = 0 /\ txframeoffset = 0 /\ frameno = 0
  /\ queue = <<>> /\ queued = 0 /\ received = 0
  /\ nic_ports = [f \in Fields |-> [set |-> FALSE, value |-> 0]]
  /\ req = Nothing /\ replies = <<>>
  /\ mtx = [frame |-> 0, fragno |-> 0, offset |-> 0, busy |-> FALSE] /\ mrx = NoFragment
  /\ got = <<>> /\ mgot = <<>>
  /\ known = [f \in Fields |-> Unknown] /\ values = 0 /\ faults = 0

\* ESC_claimbuffer finds a buffer.
Buffer == Len(replies) < Bufs

-----------------------------------------------------------------------------
(* Frames from the master.                                                 *)

\* Mutants: a buffer fetched over the one there is; a fragment of any frame taken;
\* the frame kept when its last fragment is sent; a setting not marked as set.
AlwaysFetch(b)   == free > 0
AnyFrame(r)      == TRUE
StillHeld(frame) == frame
NotMarked(r, f)  == [nic_ports[f] EXCEPT !.value = IF f \in r.carried THEN r.value ELSE @]

Fetches(b)   == b = NULL /\ free > 0
SameFrame(r) == rxframeno = r.frameno /\ Len(rxebuf) = r.offset

\* EOE_init_rx: the buffer is kept or, if it has been given away, another fetched.
EOE_init_rx(b) ==
  /\ rxfragmentno' = 0 /\ rxframesize' = 0 /\ rxframeno' = 0
  /\ rxebuf' = (IF Fetches(b) THEN <<>> ELSE b)
  /\ free' = free - (IF Fetches(b) THEN 1 ELSE 0)
SkipFragment == UNCHANGED <<received, got>>

\* A fragment that belongs where the frame ends so far, at, is copied; the
\* last one hands the frame and its buffer to the stack.
CopyFragment(r, at, size) ==
  LET frame == at \o r.data
  IN IF Len(frame) > size THEN EOE_init_rx(<<>>) /\ SkipFragment
     ELSE IF r.last
     THEN /\ got' = SubSeq(frame, 1, Len(frame) - (IF r.stamp THEN 1 ELSE 0))
          /\ received' = received + 1 /\ EOE_init_rx(NULL)
     ELSE /\ rxebuf' = frame /\ rxframesize' = size
          /\ rxframeno' = r.frameno /\ rxfragmentno' = r.fragno + 1
          /\ UNCHANGED <<free, received, got>>

EOE_receive_fragment(r) ==
  IF r.fragno = 0
  THEN IF rxebuf = NULL THEN EOE_init_rx(NULL) /\ SkipFragment
       ELSE CopyFragment(r, <<>>, r.offset)
  ELSE IF r.fragno # rxfragmentno
  THEN SkipFragment /\ IF rxfragmentno # 0 THEN EOE_init_rx(<<>>)
                       ELSE UNCHANGED <<rxebuf, rxfragmentno, rxframesize, rxframeno, free>>
  ELSE IF SameFrame(r) THEN CopyFragment(r, rxebuf, rxframesize)
  ELSE EOE_init_rx(<<>>) /\ SkipFragment

-----------------------------------------------------------------------------
(* Frames to the master.                                                   *)

\* EOE_init_tx: the buffer is given back and the frame no longer in hand.
SentOff(frame) == None
Counted == (frameno + 1) % FrameNos

\* EOE_send_fragment: the next fragment of the frame in hand, or the first of
\* the next frame; if there is no buffer for it, the frame is in hand all the same.
EOE_send_fragment ==
  LET frame == IF txebuf = None THEN Head(queue) ELSE txebuf
      left  == Sizes[frame] - txframeoffset
      n     == Least(left, FragRoom)
      last  == n = left
      number == IF txfragmentno = 0 THEN Counted ELSE frameno
  IN /\ txebuf # None \/ queue # <<>>
     /\ queue' = IF txebuf = None THEN Tail(queue) ELSE queue
     /\ IF ~Buffer
        THEN txebuf' = frame /\ UNCHANGED <<txfragmentno, txframeoffset, frameno, free, replies>>
        ELSE /\ frameno' = number
             /\ replies' = Append(replies,
                  [kind |-> "fragment", fragno |-> txfragmentno, frameno |-> number,
                   offset |-> IF txfragmentno = 0 THEN Sizes[frame] ELSE txframeoffset,
                   data |-> Part(Frame(frame), txframeoffset, n), last |-> last])
             /\ IF last THEN /\ txebuf' = SentOff(frame) /\ free' = free + (IF txebuf' = None THEN 1 ELSE 0)
                             /\ txfragmentno' = 0 /\ txframeoffset' = 0
                ELSE /\ txebuf' = frame /\ UNCHANGED free
                     /\ txfragmentno' = txfragmentno + 1 /\ txframeoffset' = txframeoffset + n
     /\ UNCHANGED queued

\* With nothing in hand and nothing to fetch the pass ends early.
NothingToSend == txebuf = None /\ queue = <<>> /\ UNCHANGED <<txVars, free, replies>>

ESC_eoeprocess_tx ==
  /\ EOE_send_fragment \/ NothingToSend
  /\ UNCHANGED <<rxVars, netVars, req, mtx, mrx, mgot, faults>>

-----------------------------------------------------------------------------
(* Network settings.                                                       *)

\* A request names fields and carries the beginning of them.  One that ends before
\* the name does is too short, and what it does not carry is filled from beyond its
\* end.  One that ends in the name is not: the name is as long as what is left.
Short(r)   == ~(r.fields \ Name \subseteq r.carried)
Garbled(r) == IF Short(r) THEN r.fields \ r.carried ELSE {}

\* A shorter name is put in the place of the one there is, whose rest stays.
StoredField(r, f) ==
  IF f \in r.carried THEN [set |-> TRUE, value |-> r.value]
  ELSE IF f \in Garbled(r) THEN [set |-> TRUE, value |-> 0]
  ELSE [nic_ports[f] EXCEPT !.set = @ \/ f \in r.fields]

\* EOE_set_ip stores what the request holds before it finds it too short.
EOE_set_ip(r) ==
  /\ nic_ports' = [f \in Fields |-> StoredField(r, f)]
  /\ \E result \in IF Short(r) THEN {"SIZETOOSHORT"} ELSE {"SUCCESS", "FAILED"} :
       replies' = IF Buffer THEN Append(replies, [kind |-> "response", result |-> result,
                                                  value |-> r.value])
                  ELSE replies

\* EOE_get_ip answers with the fields that are set.
EOE_get_ip ==
  /\ replies' = IF Buffer THEN Append(replies, [kind |-> "params",
                    fields |-> {f \in Fields : nic_ports[f].set},
                    value |-> [f \in Fields |-> nic_ports[f].value]])
                ELSE replies
  /\ UNCHANGED nic_ports

\* EOE_ecat_set_ip and its like.  EOE_ecat_set_mac does not mark its field set.
Settings == {{f} : f \in Fields \ Name} \cup ({Name} \ {{}})
Marks(f) == f # "mac"
EOE_ecat_set(fs) ==
  /\ values < MaxValues /\ values' = values + 1
  /\ nic_ports' = [f \in Fields |-> IF f \in fs THEN [set |-> nic_ports[f].set \/ Marks(f), value |-> values']
                                    ELSE nic_ports[f]]
  /\ known' = [f \in Fields |-> IF f \in fs THEN Unknown ELSE known[f]]
  /\ UNCHANGED <<rxVars, txVars, free, req, replies, mtx, mrx, mgot, faults>>

ESC_eoeprocess ==
  /\ req # Nothing /\ req' = Nothing
  /\ \/ /\ req.kind = "fragment" /\ EOE_receive_fragment(req) /\ UNCHANGED <<nic_ports, replies>>
     \/ req.kind = "set" /\ EOE_set_ip(req) /\ UNCHANGED <<rxVars, free>>
     \/ req.kind = "get" /\ EOE_get_ip /\ UNCHANGED <<rxVars, free>>
  /\ UNCHANGED <<txVars, known, values, mtx, mrx, mgot, faults>>

-----------------------------------------------------------------------------
(* The stack, the master and the mailbox.                                  *)

AppSend ==
  /\ queue = <<>> /\ queued < Len(Sizes) /\ free > 0
  /\ queued' = queued + 1 /\ queue' = <<queued'>> /\ free' = free - 1
  /\ UNCHANGED <<rxVars, txebuf, txfragmentno, txframeoffset, frameno, netVars,
                 req, replies, mtx, mrx, mgot, faults>>

AppFree ==
  /\ received > 0 /\ received' = received - 1 /\ free' = free + 1
  /\ UNCHANGED <<rxebuf, rxfragmentno, rxframesize, rxframeno, got, txVars, netVars,
                 req, replies, mtx, mrx, mgot, faults>>

\* The master's next fragment; its first one announces the size of the frame.
SendFragment ==
  LET frame == IF mtx.busy THEN mtx.frame ELSE mtx.frame + 1
      at    == IF mtx.busy THEN mtx.offset ELSE 0
      no    == IF mtx.busy THEN mtx.fragno ELSE 0
      stamp == frame \in Stamped
      all   == IF stamp THEN Append(Frame(frame), Stamp) ELSE Frame(frame)
      n     == Least(FragRoom, Len(all) - at)
      last  == at + n = Len(all)
  IN /\ req = Nothing /\ frame \in Frames
     /\ req' = [kind |-> "fragment", fragno |-> no, frameno |-> frame % FrameNos,
                offset |-> IF no = 0 THEN Len(all) ELSE at,
                data |-> Part(all, at, n), last |-> last, stamp |-> stamp]
     /\ mtx' = [frame |-> frame, fragno |-> no + 1, offset |-> at + n, busy |-> ~last]
     /\ UNCHANGED <<rxVars, txVars, free, netVars, replies, mrx, mgot, faults>>

\* The name is asked for as a whole; the request may end anywhere.
Beginnings(fs) == {b \in SUBSET fs : \A f \in b, g \in fs : Place[g] < Place[f] => g \in b}
Asked(r) == [f \in Fields |-> IF f \in r.carried THEN [value |-> r.value, told |-> FALSE]
                              ELSE IF f \in Garbled(r) THEN Unknown ELSE known[f]]
AskSettings ==
  /\ req = Nothing /\ values < MaxValues /\ values' = values + 1
  /\ \/ req' = [kind |-> "get"] /\ UNCHANGED known
     \/ \E fs \in SUBSET Fields \ {{}} :
          /\ fs \cap Name \in {{}, Name}
          /\ \E b \in Beginnings(fs) :
               req' = [kind |-> "set", fields |-> fs, carried |-> b, value |-> values']
          /\ known' = Asked(req')
  /\ UNCHANGED <<rxVars, txVars, free, nic_ports, replies, mtx, mrx, mgot, faults>>

\* The master puts fragments together by the same rules.
TakeFragment(r) ==
  LET at == IF r.fragno = 0 THEN <<>> ELSE mrx.data
      ok == r.fragno = 0 \/ (r.fragno = mrx.fragno /\ r.frameno = mrx.frameno /\ r.offset = Len(at))
  IN /\ mrx'  = IF ok /\ ~r.last THEN [fragno |-> r.fragno + 1, frameno |-> r.frameno, data |-> at \o r.data]
               ELSE NoFragment
     /\ mgot' = IF ok /\ r.last THEN at \o r.data ELSE mgot

\* A value is set once, so that its answer tells of nothing set since.
Told(value) == [f \in Fields |-> [known[f] EXCEPT !.told = @ \/ known[f].value = value]]

ReadMbx ==
  /\ replies # <<>> /\ replies' = Tail(replies)
  /\ LET r == Head(replies)
     IN /\ IF r.kind = "fragment" THEN TakeFragment(r) ELSE UNCHANGED <<mrx, mgot>>
        /\ known' = IF r.kind = "response" /\ r.result = "SUCCESS" THEN Told(r.value) ELSE known
  /\ UNCHANGED <<rxVars, txVars, free, nic_ports, values, req, mtx, faults>>

\* What is in the mailbox is lost; the master goes on with its frame or drops it.
RestartMbx ==
  /\ faults < MaxFaults /\ faults' = faults + 1
  /\ req' = Nothing /\ replies' = <<>>
  /\ mtx' \in {mtx, [mtx EXCEPT !.busy = FALSE]}
  /\ UNCHANGED <<rxVars, txVars, free, netVars, mrx, mgot>>

Next ==
  \/ ESC_eoeprocess \/ ESC_eoeprocess_tx \/ AppSend \/ AppFree
  \/ SendFragment \/ AskSettings \/ ReadMbx \/ RestartMbx
  \/ \E fs \in Settings : EOE_ecat_set(fs)

\* The stack is polled, the TCP/IP stack gives its buffers back, the master reads.
Fairness ==
  WF_vars(ESC_eoeprocess) /\ WF_vars(ESC_eoeprocess_tx) /\ WF_vars(AppFree) /\ WF_vars(ReadMbx)

Spec == Init /\ [][Next]_vars /\ Fairness

-----------------------------------------------------------------------------
WholeFrame(fr) == IF fr = <<>> THEN 0
                  ELSE IF \E k \in Frames : fr = Frame(k) THEN CHOOSE k \in Frames : fr = Frame(k)
                  ELSE -1

Down == INSTANCE FrameChannel WITH sent <- mtx.frame, got <- WholeFrame(got)
Up   == INSTANCE FrameChannel WITH sent <- queued, got <- WholeFrame(mgot)

\* Every frame buffer is somewhere: free, in the hands of the stack, being
\* filled or being sent. None is given back twice, none is lost.
BuffersConserved ==
  free + received + Len(queue) + (IF rxebuf # NULL THEN 1 ELSE 0) + (IF txebuf # None THEN 1 ELSE 0) = Pool

\* Frames arrive whole, in order and once, or are lost, to the device and from it:
\* never put together from fragments of two, although a restart of the mailbox
\* resets none of the variables they are taken apart and put together in.
FramesArrive == Down!Spec /\ Up!Spec

\* What the master has been told is set it reads back, until somebody sets it again:
\* of a name as many parts as the request carried.
SettingsReadBack ==
  (replies # <<>> /\ Head(replies).kind = "params") =>
    \A f \in Fields : known[f].told =>
      f \in Head(replies).fields /\ Head(replies).value[f] = known[f].value

\* A frame taken for sending is sent, in however many fragments.
FrameIsSent == txebuf # None ~> txebuf = None
=============================================================================
