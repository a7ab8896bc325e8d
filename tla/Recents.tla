------------------------------ MODULE Recents ------------------------------
(***************************************************************************)
(* The recently opened books of the library page, kept in the browser's     *)
(* storage and shared by its tabs (useBookPrefs, LibraryView).              *)
(***************************************************************************)
EXTENDS Integers, Sequences, SequencesExt, Arrays

CONSTANTS
  Books,     \* books that can be opened
  Tabs,      \* tabs that have the library page open
  MaxRecent  \* the largest number of recent books a reader may ask for

VARIABLES
  stored, limit, \* localStorage: the list, and the reader's limit
  listed         \* recentBooks, in each tab

recentVars == <<stored, limit, listed>>

First(s, n) == SubSeq(s, 1, IF Len(s) < n THEN Len(s) ELSE n)
GetRecent == First(stored, limit)

RecentsTypeOK ==
  /\ stored \in BoundedSeq(Books, MaxRecent) /\ limit \in 0..MaxRecent
  /\ listed \in [Tabs -> BoundedSeq(Books, MaxRecent)]

Init == stored = <<>> /\ limit = MaxRecent /\ listed = [t \in Tabs |-> <<>>]


(* A book that is opened goes to the front of what is stored, once.         *)
OpenBook(b) ==
  /\ limit > 0 /\ stored' = First(<<b>> \o Filtered(GetRecent, Books \ {b}), limit)
  /\ UNCHANGED <<limit, listed>>

(* The page reads the list when it is mounted, and after it took one out:   *)
(* of what is stored by then, whatever another tab has opened since.        *)
Mounted(t) == listed' = [listed EXCEPT ![t] = GetRecent] /\ UNCHANGED <<stored, limit>>
RemoveRecent(t, b) ==
  /\ b \in ToSet(listed[t])
  /\ stored' = Filtered(GetRecent, Books \ {b})
  /\ listed' = [listed EXCEPT ![t] = First(stored', limit)]
  /\ UNCHANGED limit

SetLimit(n) == limit' = n /\ UNCHANGED <<stored, listed>>

Next ==
  \/ \E b \in Books : OpenBook(b) \/ \E t \in Tabs : RemoveRecent(t, b)
  \/ \E t \in Tabs : Mounted(t)
  \/ \E n \in 0..MaxRecent : SetLimit(n)

RecentsSpec == Init /\ [][Next]_recentVars
=============================================================================
