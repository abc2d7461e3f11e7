------------------------------- MODULE MCFoE -------------------------------
(* An instance of FoE: a firmware file for BOOT and a small one for both   *)
(* states; the larger two sizes do not fit into the small file.            *)
EXTENDS FoE

OneTable == << [name |-> <<"f", "w">>, max |-> 7, boot |-> TRUE],
               [name |-> <<"a">>, max |-> 4, boot |-> FALSE] >>
AskedNames == {<<"f", "w">>, <<"a">>, <<"b">>}
Firmware == [name |-> <<"f", "w">>, size |-> 7]
=============================================================================
