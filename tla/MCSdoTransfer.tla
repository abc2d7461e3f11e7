--------------------------- MODULE MCSdoTransfer ---------------------------
(* An instance of SdoTransfer with an object for every way of moving one;  *)
(* "recipe" does not fit into the preallocated buffer.                     *)
EXTENDS SdoTransfer

\* One message, or a first message and one or two segments after it.
ObjectSizes == [o \in Objects |-> CASE o = "byte" -> 1 [] o = "name" -> 5
                                    [] o = "table" -> 6 [] o = "recipe" -> 7]
=============================================================================
