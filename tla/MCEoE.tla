------------------------------- MODULE MCEoE -------------------------------
(* Instances of EoE.  Frames: one of three fragments from the master, the  *)
(* last of them for the time stamp alone, and one of two.  Settings: an    *)
(* address of its own, and a name of two parts.                            *)
EXTENDS EoE

FrameSizes == <<4, 3>>

\* mac and dns_name as esc_eoe.c takes them from a request.
Order  == <<"mac", "name 1", "name 2">>
Places == [f \in Fields |-> CHOOSE i \in DOMAIN Order : Order[i] = f]

\* Alongside the frames at most one request or setting; more of them before.
Apart == values' <= 1 \/ (queued' = 0 /\ mtx'.frame = 0)
=============================================================================
