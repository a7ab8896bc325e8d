--------------------------- MODULE MCClientSession ---------------------------
(* The lists some screen plays, with tracks that have a title and tracks    *)
(* that are queued by their id, and small sets for TLC.                     *)
EXTENDS ClientSession

Titled(t) == [id |-> t, rich |-> TRUE]
ById(t) == [id |-> t, rich |-> FALSE]
PlayedLists == {<<Titled("a"), ById("b"), Titled("a")>>, <<Titled("b"), ById("b")>>}
SoundLists == {<<"a">>, <<"b", "a">>}
Locks == {{"issuer", "secret"}, {"endpoint", "enabled", "choice"}}
=============================================================================
