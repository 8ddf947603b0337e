--------------------------- MODULE MCDecompressor ---------------------------
(* Two maps with the same cells in two shapes, so that metadata of one and  *)
(* cells of the other are told apart; -1 is the value that packing changes. *)
(* The broken messages: one per early return and exception.  The last one   *)
(* has the data of a map of two cells under the label of one cell.          *)
EXTENDS Decompressor, TLC

SlamMap(w, h, rest, data) == [w |-> w, h |-> h, rest |-> rest, data |-> data]

MCMaps == {SlamMap(2, 1, "a", <<-1, 100>>), SlamMap(1, 2, "b", <<-1, 100>>)}

Label == [w |-> 1, h |-> 1, rest |-> "a"]
Stray(data, dim, label) == [data |-> data, dim |-> dim, label |-> label]

MCBroken ==
  {Stray(<<0>>, FALSE, Label), Stray(<<0>>, TRUE, NotJson), Stray(NotZlib, TRUE, Label),
   Stray(<<0>>, TRUE, Incomplete), Stray(<<255, 100>>, TRUE, Label)}

MCPools == {{"t1"}, {"t1", "t2"}}

MCMessages == "ausra_1" :> 3 @@ "ausra_2" :> 1
=============================================================================
