-------------------------------- MODULE CoE --------------------------------
(***************************************************************************)
(* What the CoE handler of soes/esc_coe.c does to the mailbox: which       *)
(* services answer, when buffer 0 is given back, the reply held back for   *)
(* the application, the object list sent in several mailboxes.             *)
(*                                                                         *)
(* The kind of a request is what ESC_mbxprocess, ESC_coeprocess and        *)
(* ESC_xoeprocess decide by:                                               *)
(*   badheader  no length, or one beyond the mailbox                       *)
(*   foreign    a protocol no handler takes                                *)
(*   short      CoE, shorter than a CoE header                             *)
(*   service    an SDO request answered at once, if only with an abort     *)
(*   hold       a download whose reply the application holds back          *)
(*   refused    the last segment of a download under Complete Access that  *)
(*              is too short or whose object is not found                  *)
(*   other      a CoE service that is neither SDO request nor information  *)
(*   info       SDO information answered by one mailbox                    *)
(*   list       the object list                                            *)
(*   unmatched  an SDO command the dispatch has no branch for              *)
(***************************************************************************)
EXTENDS MbxLink

CONSTANT ListFrags          \* mailboxes the object list takes

ASSUME CoEConstantsAssumption == ListFrags \in Nat \ {0}

VARIABLES
  held,               \* sdo_held: the request whose reply is held back
  fragsleft           \* ESCvar.fragsleft, mailboxes of the object list to come

coeVars == <<held, fragsleft>>

SdoRequests == {"service", "hold", "refused", "unmatched"}

-----------------------------------------------------------------------------
(* The services.  Kept: what is left alone while buffer 0 stays claimed.   *)

Kept == MBXcontrol' = MBXcontrol /\ UNCHANGED <<MBX, txcue, mbxcnt>>

\* Every SDO service but a held download, an abort, an error: one reply, and
\* buffer 0 is given back even when there is no buffer for it.
Answer ==
  /\ QueueReply(Released, MBX, MBX[0], FALSE)
  /\ xoe' = "none"
  /\ UNCHANGED coeVars

\* SDO_downloadsegment of a segment it refuses: the buffer claimed for the response stays claimed,
\* what is in it is never sent, and the abort needs another one.
RefuseSegment ==
  LET response == ESC_claimbuffer
      abort    == Highest(InState("idle") \ {response})
      claimed  == Cardinality({response, abort} \ {0})
  IN  /\ MBXcontrol' = [n \in 0 .. OutBuffers |-> CASE n = 0                  -> "idle"
                                                    [] n = response /\ n # 0 -> "outclaim"
                                                    [] n = abort /\ n # 0    -> "outreq"
                                                    [] OTHER -> MBXcontrol[n]]
      /\ MBX' = [MBX EXCEPT ![abort] = IF abort = 0 THEN @
                                       ELSE [id |-> mbxcnt + 2, to |-> MBX[0], more |-> FALSE]]
      /\ txcue' = txcue + claimed /\ mbxcnt' = mbxcnt + claimed
      /\ xoe' = "none"
      /\ UNCHANGED coeVars

\* SDO_download with a hook that returned ESC_SDO_PENDING: no reply yet.
HoldDownload ==
  /\ held' = MBX[0]
  /\ MBXcontrol' = Released
  /\ xoe' = "none"
  /\ UNCHANGED <<MBX, txcue, mbxcnt, fragsleft>>

\* SDO_getod, SDO_geted, SDO_infoerror: buffer 0 is kept until a buffer for
\* the reply is found.
InfoAnswer ==
  /\ IF ESC_claimbuffer # 0
     THEN QueueReply(Released, MBX, MBX[0], FALSE) /\ xoe' = "none"
     ELSE Kept /\ xoe' = "CoE"
  /\ UNCHANGED coeVars

\* SDO_getodlist: the first mailbox of the list.
SDO_getodlist ==
  /\ IF ESC_claimbuffer = 0
     THEN Kept /\ xoe' = "CoE" /\ UNCHANGED fragsleft
     ELSE /\ QueueReply(IF ListFrags > 1 THEN [MBXcontrol EXCEPT ![0] = "inclaim"]
                        ELSE Released, MBX, MBX[0], ListFrags > 1)
          /\ xoe' = IF ListFrags > 1 THEN "ODL" ELSE "none"
          /\ fragsleft' = ListFrags - 1
  /\ UNCHANGED held

MoreFrags  == fragsleft > 1

\* SDO_getodlistcont: the next one.
SDO_getodlistcont ==
  /\ IF ESC_claimbuffer = 0
     THEN Kept /\ UNCHANGED <<xoe, fragsleft>>
     ELSE /\ QueueReply(IF MoreFrags THEN MBXcontrol ELSE Released, MBX, MBX[0], MoreFrags)
          /\ xoe' = IF MoreFrags THEN xoe ELSE "none"
          /\ fragsleft' = fragsleft - 1
  /\ UNCHANGED held

-----------------------------------------------------------------------------
(* The handlers.                                                           *)

\* ESC_coeprocess: which request is at hand, and what is done with it.
Arrived == xoe = "none" /\ MBXcontrol[0] = "inclaim" /\ MBX[0].kind \notin {"foreign", "short"}
AtHand  == Arrived \/ xoe = "CoE"

Dispatch ==
  IF held # NoMsg /\ MBX[0].kind \in SdoRequests THEN Answer    \* service in work
  ELSE CASE MBX[0].kind \in {"service", "other"} -> Answer
         [] MBX[0].kind = "hold"      -> HoldDownload
         [] MBX[0].kind = "refused"   -> RefuseSegment
         [] MBX[0].kind = "info"      -> InfoAnswer
         [] MBX[0].kind = "list"      -> SDO_getodlist
         [] MBX[0].kind = "unmatched" -> Kept /\ xoe' = "CoE" /\ UNCHANGED coeVars

ESC_coeprocess ==
  \/ xoe = "ODL" /\ mbxoutpost = 0 /\ SDO_getodlistcont
  \/ AtHand /\ Dispatch
  \* Too short to be CoE: an error, but buffer 0 is left for ESC_xoeprocess.
  \/ /\ xoe = "none" /\ MBXcontrol[0] = "inclaim" /\ MBX[0].kind = "short"
     /\ QueueReply(MBXcontrol, MBX, MBX[0], FALSE)
     /\ UNCHANGED <<xoe, coeVars>>
  \/ /\ ~AtHand /\ ~(xoe = "ODL" /\ mbxoutpost = 0)
     /\ ~(xoe = "none" /\ MBXcontrol[0] = "inclaim" /\ MBX[0].kind = "short")
     /\ Kept /\ UNCHANGED <<xoe, coeVars>>

\* ESC_xoeprocess: an error for a request no protocol has taken.
ESC_xoeprocess ==
  IF xoe = "none" /\ MBXcontrol[0] = "inclaim"
  THEN QueueReply(Released, MBX, MBX[0], FALSE)
  ELSE Kept

\* ESC_SDO_complete, called by the application when its work is done.
ESC_SDO_complete ==
  /\ held # NoMsg /\ held' = NoMsg
  /\ QueueReply(MBXcontrol, MBX, held, FALSE)
  /\ UNCHANGED <<xoe, fragsleft>>

=============================================================================
