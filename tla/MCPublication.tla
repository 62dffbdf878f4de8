---------------------------- MODULE MCPublication ----------------------------
(* Two exporters that race for the same output, one of which also compares *)
(* it and one of which also publishes without --replace.                   *)
EXTENDS Publication
CONSTANTS e1, e2
MCExporters == {e1, e2}
MCModes == [x \in MCExporters |->
               IF x = e1 THEN {"replace", "compare"} ELSE {"replace", "publish"}]
MCOne == {e1}
MCOneModes == [x \in MCOne |-> {"replace", "compare"}]
=============================================================================
