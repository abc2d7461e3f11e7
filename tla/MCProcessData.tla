--------------------------- MODULE MCProcessData ---------------------------
(* An instance of ProcessData: a position and a mode of operation, words   *)
(* of four bits and bytes of two, so that entries cross both, and an       *)
(* object wider than a word.  The safe state clears the position alone.    *)
EXTENDS ProcessData, TLC

Widths == [target |-> 2, actual |-> 2, mode |-> 3, display |-> 3, name |-> 6]
Mirrors == [actual |-> "target", display |-> "mode"]
InSafeState == {"actual"}
ByMaster == {"target"}

Entry(o) == [obj |-> o, length |-> Widths[o]]
Padding(n) == [obj |-> Pad, length |-> n]
Unknown == [obj |-> "gone", length |-> 1]

PowerOn ==
  "1C12" :> <<"1600", "1601">> @@ "1600" :> <<Entry("target")>> @@ "1601" :> <<Padding(1), Entry("mode")>>
  @@ "1C13" :> <<"1A00">> @@ "1A00" :> <<Entry("actual"), Entry("display"), Padding(1)>>
Dynamic == {"1C12", "1601", "1A00"}
\* Two PDOs, one and one that is not there; entries in another order, with and
\* without padding, out of line, twice, too short, unknown and too many.
ByDownload ==
  "1C12" :> {<<"1601", "1600">>, <<"1699", "1601">>}
  @@ "1601" :> {<<Entry("mode"), Padding(2), Entry("name")>>, <<Entry("mode"), Unknown>>,
                <<Entry("mode"), [obj |-> "name", length |-> 4], Entry("mode")>>}
  @@ "1A00" :> {<<Padding(2), Entry("name"), Entry("display"), Entry("actual")>>,
                <<Entry("actual"), Entry("name")>>,
                <<Entry("actual"), Padding(1), Padding(1), Padding(1), Entry("display")>>}
Some == {0 .. 19, {n \in 0 .. 19 : n % 3 = 1}}
=============================================================================
