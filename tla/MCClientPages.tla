---------------------------- MODULE MCClientPages ----------------------------
(* A small library, book, gallery and folder for TLC.                       *)
EXTENDS ClientPages, TLC

CONSTANTS b1, b2  \* the books of the system that is looked at, which SystemBooks never tells apart
Interchangeable == Permutations({b1, b2})
SystemBooks2 == {b1, b2}

(* A system; a shelf of a shelf that holds a system; a one-page game that   *)
(* holds one.                                                               *)
SmallParents == <<0, 0, 2, 3, 0, 5>>
SmallKinds == <<"system", "shelf", "shelf", "system", "onepage", "system">>
SmallDepths == <<0, 0, 1, 2, 0, 1>>
ASSUME SmallLibraryShaped == Library!LibraryShaped(SmallDepths)
SmallTags == [s \in 1..6 |-> IF s = 1 THEN {"x"} ELSE {}]

TwoBooks == <<4, 3>>              \* the pages of each book
ThreePages == <<{1}, {2}, {3}>>   \* a gallery's answers
ThreeKeys == <<{1}, {1}, {1, 2}>>
TwoFilters == {{1, 2, 3}, {1}}
TwoFolders == <<1, 2, 1>>         \* the folder of each of three items
=============================================================================
