--------------------------- MODULE MCBookIndexing ---------------------------
(* Two books for TLC: one that is a scan and is then replaced by a file     *)
(* with a text layer, and one scan with a blank page.                       *)
EXTENDS BookIndexing, TLC

CONSTANTS b1, b2

MCBooks == {b1, b2}
MCOneBook == {b1}

Scan == [layer |-> "image", pages |-> 2, blank |-> {}]
ScanWithBlank == [layer |-> "image", pages |-> 2, blank |-> {1}]
Text == [layer |-> "text", pages |-> 2, blank |-> {2}]

MCContent == (b1 :> <<Scan, Text>>) @@ (b2 :> <<ScanWithBlank, Scan>>)
MCOneContent == b1 :> <<Scan, Text>>

Rare(crash, cancel, hang, replace, reread) ==
  ("crash" :> crash) @@ ("cancel" :> cancel) @@ ("hang" :> hang) @@
  ("replace" :> replace) @@ ("reread" :> reread)

MCLimit == Rare(1, 1, 0, 1, 1)
MCHangs == Rare(1, 1, 1, 0, 0)
MCOneLimit == Rare(1, 1, 0, 1, 1)
=============================================================================
