----------------------------- MODULE MCEeprom -----------------------------
(* An instance of Eeprom: six words; process data that begins at every     *)
(* byte of a word and fills the FIFO of two words more than once.          *)
EXTENDS Eeprom

SomeCommands == { [cmd |-> 1, addr |-> 2, data |-> 7], [cmd |-> 1, addr |-> 3, data |-> 7],
                  [cmd |-> 2, addr |-> 1, data |-> 7], [cmd |-> 2, addr |-> 9, data |-> 7],
                  [cmd |-> 4, addr |-> 0, data |-> 7], [cmd |-> 3, addr |-> 0, data |-> 7],
                  [cmd |-> 0, addr |-> 0, data |-> 7] }
PramUsed == 4096 .. 4107
Bytes(n) == [i \in 1 .. n |-> i]
SomeMoves == UNION { {[dir |-> d, start |-> 4096, buf |-> Bytes(9)], [dir |-> d, start |-> 4097, buf |-> Bytes(2)],
                      [dir |-> d, start |-> 4099, buf |-> Bytes(1)], [dir |-> d, start |-> 4099, buf |-> Bytes(6)]}
                    : d \in {"read", "write"} }
SkipTail == {4096, ALEVENT}
=============================================================================
