----------------------------- MODULE Duplicates -----------------------------
(***************************************************************************)
(* Reviewing duplicates: the list of pairs that the groups of the last scan *)
(* are taken apart into (DuplicatesView, utils/duplicatePairs), the page    *)
(* that compares two copies and sends the verdict on them                   *)
(* (DuplicateCompareView), and what the server makes of each verdict.       *)
(***************************************************************************)
EXTENDS Integers, FiniteSets, FiniteSetsExt

CONSTANTS
  NCopies,   \* copies 1..NCopies, the one more worth keeping first; 0 is none
  MaxActs,   \* bound: verdicts and scans
  MaxAsked   \* bound: requests of the page under way when the user does something on it

VARIABLES
  gone, mainOf,        \* at the server: deleted copies, and variant_parent_id
  groups, dismissed,   \* DuplicateGroup rows, and dismissals
  scan, found,         \* the status of the scan, and (history) the pairs it found
                       \* and nobody has rejected
  view, listed,        \* the page: list or compare, and the groups on the list
  running, cleared,    \* status.running, clearedRef
  shut,                \* dismissals that are shown
  pair, data, kept,    \* compare: left and right, the families as loaded, parentId
  confirm, busy,       \* the copy in the delete dialog
  asks, acts           \* requests and their answers; acts counts for the bound

serverVars == <<gone, mainOf, groups, dismissed, scan, found>>
listVars == <<listed, running, cleared, shut>>
compareVars == <<pair, data, kept, confirm, busy>>
uVars == <<serverVars, view, listVars, compareVars, asks, acts>>

Copies == 1..NCopies
Pairs == kSubset(2, Copies)
NoPair == <<0, 0>>
Families == [Copies -> Copies \union {0}]
Groups == [members : SUBSET Copies, edges : SUBSET Pairs]
Verdicts == {"link", "promote", "dismiss", "delete"}

DuplicatesTypeOK ==
  /\ gone \subseteq Copies /\ mainOf \in Families /\ dismissed \subseteq Pairs /\ found \subseteq Pairs
  /\ groups \subseteq Groups /\ listed \subseteq Groups
  /\ scan \in {"idle", "live", "dead"} /\ view \in {"list", "compare"}
  /\ running \in BOOLEAN /\ cleared \in BOOLEAN /\ busy \in BOOLEAN
  /\ shut \subseteq Pairs /\ pair \in (Copies \X Copies) \union {NoPair}
  /\ data \in {<<>>} \union [1..1 -> Families] /\ {kept, confirm} \subseteq Copies \union {0}
  /\ \A a \in asks : a.kind \in Verdicts \union {"groups", "status", "start", "stop", "compare", "copy", "shut", "open"}

-----------------------------------------------------------------------------
(* Groups and pairs                                                         *)

(* _hydrate: the members that are left, if they are still a question, and   *)
(* the edges between them.                                                  *)
Hydrated(g) == LET m == g.members \ gone IN [members |-> m, edges |-> {e \in g.edges : e \subseteq m}]
IsOpen(h) == Cardinality(h.members) > 1 /\ Cardinality({c \in h.members : mainOf[c] = 0}) > 1
OpenGroups == {h \in {Hydrated(g) : g \in groups} : IsOpen(h)}

(* groupToPairs: the edges, the better copy first; the members against      *)
(* pickParent if there is none.                                             *)
GroupToPairs(h) ==
  IF h.edges # {} THEN {<<Min(e), Max(e)>> : e \in h.edges}
  ELSE {<<Min(h.members), c>> : c \in h.members \ {Min(h.members)}}

PairsOf(G) == UNION {GroupToPairs(h) : h \in G}

(* build_groups: the components of the pairs that were not dismissed.       *)
Component(E, S) ==
  LET closed(T) == \A e \in E : e \intersect T = {} \/ e \subseteq T
  IN closed(S) /\ \A T \in (SUBSET S) \ {{}, S} : ~closed(T)
BuildGroups(E) ==
  {[members |-> S, edges |-> {e \in E : e \subseteq S}] : S \in {T \in SUBSET Copies : Cardinality(T) > 1 /\ Component(E, T)}}

-----------------------------------------------------------------------------
(* The server                                                               *)

(* here: the page that has sent it is still mounted.                        *)
Ask(kind, a, b) ==
  [kind |-> kind, a |-> a, b |-> b, here |-> TRUE, answer |-> "none", groups |-> {}, shut |-> {}, families |-> <<>>]

(* The list is opened, before any scan or after one that found a chain.     *)
Init ==
  /\ gone = {} /\ mainOf = [c \in Copies |-> 0] /\ dismissed = {}
  /\ scan = "idle" /\ found \in {{}, {{c, c + 1} : c \in 1..(NCopies - 1)}} /\ groups = BuildGroups(found)
  /\ view = "list" /\ listed = {} /\ running = FALSE /\ cleared = FALSE /\ shut = {}
  /\ pair = NoPair /\ data = <<>> /\ kept = 0 /\ confirm = 0 /\ busy = FALSE
  /\ asks = {Ask("groups", 0, 0), Ask("status", 0, 0)} /\ acts = 0

Refused(k) == UNCHANGED <<gone, mainOf, groups, dismissed>> /\ k = "error"
Rows == Copies \ gone
Variants(c) == {v \in Rows : mainOf[v] = c}

(* variants.link, behind assert_can_parent.                                 *)
Link(p, c, k) ==
  IF {p, c} \subseteq Rows /\ p # c /\ mainOf[p] = 0 /\ Variants(c) = {}
  THEN mainOf' = [mainOf EXCEPT ![c] = p] /\ UNCHANGED <<gone, groups, dismissed>> /\ k = "ok"
  ELSE Refused(k)

(* variants.promote: the whole family moves under its new main version.     *)
Promote(p, old, k) ==
  IF {p, old} \subseteq Rows /\ p # old /\ mainOf[p] \in {0, old} /\ mainOf[old] = 0
  THEN /\ mainOf' = [c \in Copies |-> IF c = p THEN 0 ELSE IF c = old \/ c \in Variants(old) THEN p ELSE mainOf[c]]
       /\ UNCHANGED <<gone, groups, dismissed>> /\ k = "ok"
  ELSE Refused(k)

(* Deviation: a group that holds both of the rejected copies is dropped.    *)
TrimmedWhole(g, e) == IF e \subseteq g.members THEN {} ELSE {g}

(* dismiss_group: only the edge goes, and the members it leaves without one.*)
Trimmed(g, e) ==
  LET left == g.edges \ {e} IN
  IF left = g.edges THEN {g} ELSE IF left = {} THEN {} ELSE {[members |-> UNION left, edges |-> left]}

Dismiss(e, k) ==
  /\ dismissed' = dismissed \union {e} /\ groups' = UNION {Trimmed(g, e) : g \in groups}
  /\ found' = found \ {e}
  /\ UNCHANGED <<gone, mainOf>> /\ k = "ok"

(* delete_item: its variants become main versions, or the library is        *)
(* read-only.                                                               *)
Delete(c, k) ==
  IF c \in Rows /\ k = "ok"
  THEN /\ gone' = gone \union {c} /\ mainOf' = [v \in Copies |-> IF v = c \/ mainOf[v] = c THEN 0 ELSE mainOf[v]]
       /\ UNCHANGED <<groups, dismissed>>
  ELSE Refused(k)

StartScan(k) ==
  /\ IF scan # "live" THEN scan' = "live" ELSE UNCHANGED scan
  /\ k = "ok" /\ UNCHANGED <<gone, mainOf, groups, dismissed, found>>

CancelScan(k) ==
  /\ CASE scan = "live" -> k = "ok" /\ scan' = "idle"
       [] scan = "dead" -> k = "cleared" /\ scan' = "idle"
       [] OTHER -> k = "cleared" /\ UNCHANGED scan
  /\ UNCHANGED <<gone, mainOf, groups, dismissed, found>>

Reply(a, k) ==
  [a EXCEPT !.answer = k, !.groups = IF a.kind = "groups" THEN OpenGroups ELSE {},
            !.shut = IF a.kind = "shut" THEN dismissed ELSE {},
            !.families = IF a.kind \in {"compare", "copy"} THEN <<mainOf>> ELSE <<>>]
Answered(a, k) == asks' = (asks \ {a}) \union {Reply(a, k)}

(* A request is served.                                                     *)
Serve(a) ==
  /\ a.answer = "none" /\ UNCHANGED <<view, listVars, compareVars, acts>>
  /\ \E k \in {"ok", "running", "cleared", "error"} :
       /\ Answered(a, k)
       /\ CASE a.kind = "link" -> Link(a.a, a.b, k) /\ UNCHANGED <<scan, found>>
            [] a.kind = "promote" -> Promote(a.a, a.b, k) /\ UNCHANGED <<scan, found>>
            [] a.kind = "dismiss" -> Dismiss({a.a, a.b}, k) /\ UNCHANGED scan
            [] a.kind = "delete" -> Delete(a.a, k) /\ UNCHANGED <<scan, found>>
            [] a.kind = "open" -> /\ dismissed' = dismissed \ {{a.a, a.b}} /\ k = "ok"
                                  /\ UNCHANGED <<gone, mainOf, groups, scan, found>>
            [] a.kind = "start" -> StartScan(k)
            [] a.kind = "stop" -> CancelScan(k)
            [] a.kind = "status" -> k = (IF scan = "idle" THEN "ok" ELSE "running") /\ UNCHANGED serverVars
            [] a.kind \in {"compare", "copy"} -> k = (IF {a.a, a.b} \subseteq Rows THEN "ok" ELSE "error") /\ UNCHANGED serverVars
            [] OTHER -> k = "ok" /\ UNCHANGED serverVars

(* The job ends with the pairs of main versions it has found, or its        *)
(* process is killed.                                                       *)
ScanEnds ==
  /\ scan = "live" /\ scan' = "idle"
  /\ found' \in SUBSET {e \in Pairs \ dismissed : \A c \in e : c \in Rows /\ mainOf[c] = 0}
  /\ groups' = BuildGroups(found')
  /\ UNCHANGED <<gone, mainOf, dismissed, view, listVars, compareVars, asks, acts>>
ScanDies == scan = "live" /\ scan' = "dead"
            /\ UNCHANGED <<gone, mainOf, groups, dismissed, found, view, listVars, compareVars, asks, acts>>

-----------------------------------------------------------------------------
(* The list                                                                 *)

Send(S) == asks' = asks \union S
Cancelled(kind) == {a \in asks : a.kind = kind}

(* A step of the interval.                                                  *)
Poll == view = "list" /\ Send({Ask("status", 0, 0)}) /\ UNCHANGED <<serverVars, view, listVars, compareVars, acts>>

(* The status is taken over, and the effect that polls starts over when     *)
(* running has changed.                                                     *)
Runs(a, r, more) ==
  /\ running' = r
  /\ asks' = ((asks \ {a}) \ (IF r # running THEN Cancelled("status") ELSE {}))
             \union (IF r # running THEN {Ask("status", 0, 0)} ELSE {}) \union more

Polled(a) ==
  /\ a.kind = "status" /\ UNCHANGED <<view, listed, cleared, shut, compareVars>>
  /\ IF a.answer = "running" /\ cleared THEN asks' = asks \ {a} /\ UNCHANGED running
     ELSE Runs(a, a.answer = "running", IF running /\ a.answer = "ok" THEN {Ask("groups", 0, 0)} ELSE {})

GroupsLoaded(a) ==
  /\ a.kind = "groups" /\ asks' = asks \ {a}
  /\ listed' = a.groups /\ UNCHANGED <<view, running, cleared, shut, compareVars>>

Started(a) ==
  /\ a.kind = "start" /\ UNCHANGED <<view, listed, cleared, shut, compareVars>>
  /\ IF a.here THEN Runs(a, TRUE, {}) ELSE asks' = asks \ {a} /\ UNCHANGED running

Stopped(a) ==
  /\ a.kind = "stop" /\ UNCHANGED <<view, listed, shut, compareVars>>
  /\ IF a.here /\ a.answer = "cleared"
     THEN cleared' = TRUE /\ Runs(a, FALSE, {Ask("groups", 0, 0)})
     ELSE asks' = asks \ {a} /\ UNCHANGED <<running, cleared>>

(* loadDismissals, restore                                                  *)
Restored(a) ==
  /\ a.kind \in {"shut", "open"} /\ asks' = asks \ {a}
  /\ shut' = IF ~a.here THEN shut ELSE IF a.kind = "shut" THEN a.shut ELSE shut \ {{a.a, a.b}}
  /\ UNCHANGED <<view, listed, running, cleared, compareVars>>

AsksOf(kinds) == {a \in asks : a.here /\ a.kind \in kinds}

(* The page is unmounted. What it has asked the server to do is still done, *)
(* and what it has asked for is not looked at.                              *)
Left == {[a EXCEPT !.here = FALSE] : a \in {x \in asks : x.kind \in Verdicts \union {"start", "stop", "open"}}}
Listing(S) == view = "list" /\ Send(S) /\ UNCHANGED <<serverVars, view, listed, running, shut, compareVars>>
StartButton == ~running /\ AsksOf({"start"}) = {} /\ cleared' = FALSE /\ Listing({Ask("start", 0, 0)})
StopButton == running /\ AsksOf({"stop"}) = {} /\ Listing({Ask("stop", 0, 0)}) /\ UNCHANGED cleared
ShowDismissed == AsksOf({"shut"}) = {} /\ Listing({Ask("shut", 0, 0)}) /\ UNCHANGED cleared
Restore(e) == e \in shut /\ AsksOf({"open"}) = {} /\ Listing({Ask("open", Min(e), Max(e))}) /\ UNCHANGED cleared

Compares(l, r, others) ==
  /\ view' = "compare" /\ pair' = <<l, r>> /\ asks' = others \union {Ask("compare", l, r)}
OpenCompare(l, r) ==
  /\ view = "list" /\ <<l, r>> \in PairsOf(listed) /\ Compares(l, r, Left)
  /\ data' = <<>> /\ kept' = 0 /\ confirm' = 0 /\ busy' = FALSE
  /\ UNCHANGED <<serverVars, listVars>>

-----------------------------------------------------------------------------
(* Two copies                                                               *)

(* back: the list is mounted anew.                                          *)
Lists ==
  /\ view' = "list" /\ listed' = {} /\ running' = FALSE /\ cleared' = FALSE /\ shut' = {}
  /\ pair' = NoPair /\ data' = <<>> /\ kept' = 0 /\ confirm' = 0 /\ busy' = FALSE
Listed(others) == Lists /\ asks' = others \union {Ask("groups", 0, 0), Ask("status", 0, 0)}
Back == view = "compare" /\ Listed(Left) /\ UNCHANGED serverVars

Loaded(a) ==
  /\ a.kind = "compare" /\ asks' = asks \ {a}
  /\ IF a.answer = "ok" THEN data' = a.families /\ kept' = Min({a.a, a.b}) ELSE UNCHANGED <<data, kept>>
  /\ UNCHANGED <<view, listVars, pair, confirm, busy>>

(* act: back to the list after a verdict, from whatever comparison the user *)
(* is looking at by now; the error stays on the page.                       *)
Judged(a) ==
  /\ a.kind \in Verdicts
  /\ IF a.answer # "error" /\ view = "compare" THEN Listed(Left \ {[a EXCEPT !.here = FALSE]})
     ELSE /\ asks' = asks \ {a} /\ busy' = (busy /\ ~a.here)
          /\ UNCHANGED <<view, listVars, pair, data, kept, confirm>>

(* copyMetadata: the comparison is loaded again.                            *)
Copied(a) ==
  /\ a.kind = "copy" /\ asks' = asks \ {a}
  /\ data' = IF a.answer = "ok" THEN a.families ELSE data
  /\ busy' = FALSE /\ UNCHANGED <<view, listVars, pair, kept, confirm>>

Arrives(a) ==
  /\ a.answer # "none" /\ UNCHANGED <<serverVars, acts>>
  /\ \/ Polled(a) \/ GroupsLoaded(a) \/ Started(a) \/ Stopped(a) \/ Restored(a)
     \/ Loaded(a) \/ Judged(a) \/ Copied(a)

Ready == view = "compare" /\ data # <<>> /\ AsksOf({"compare"}) = {}
ChildId == IF kept = pair[1] THEN pair[2] ELSE pair[1]
ChildsMain == data[1][ChildId]
ChildHasFamily == \E c \in Copies : data[1][c] = ChildId

Judges(a) == busy' = TRUE /\ Send({a}) /\ UNCHANGED <<serverVars, view, listVars, pair, data, kept, confirm>>
LinkPair == Ready /\ ~busy /\ ChildsMain = 0 /\ Judges(Ask(IF ChildHasFamily THEN "promote" ELSE "link", kept, ChildId))
PromoteOverFamily == Ready /\ ~busy /\ ChildsMain # 0 /\ Judges(Ask("promote", kept, ChildsMain))
DismissPair == Ready /\ ~busy /\ Judges(Ask("dismiss", pair[1], pair[2]))
ConfirmDelete == Ready /\ ~busy /\ confirm # 0 /\ Judges(Ask("delete", confirm, 0))
CopyMetadata == Ready /\ ~busy /\ Judges(Ask("copy", pair[1], pair[2]))

Choosing(k, c) == Ready /\ kept' = k /\ confirm' = c /\ UNCHANGED <<serverVars, view, listVars, pair, data, busy, asks>>
MakeParent(c) == c \in {pair[1], pair[2]} /\ Choosing(c, confirm)
SwapParent == ~busy /\ Choosing(ChildId, confirm)
AskDelete(c) == ~busy /\ c \in {pair[1], pair[2]} /\ confirm = 0 /\ Choosing(kept, c)
CancelDelete == ~busy /\ Choosing(kept, 0)

(* The page goes to another pair: what it has loaded stays until that comes. *)
CompareWithMain ==
  /\ Ready /\ ~busy /\ ChildsMain \notin {0, kept} /\ Compares(kept, ChildsMain, asks)
  /\ UNCHANGED <<serverVars, listVars, data, kept, confirm, busy>>

-----------------------------------------------------------------------------
(* What the pages offer                                                     *)

FamilyNotice == PromoteOverFamily \/ CompareWithMain
DeleteDialog == confirm # 0 /\ (ConfirmDelete \/ CancelDelete)
Column == \E c \in Copies : MakeParent(c) \/ AskDelete(c)
DecisionBar == LinkPair \/ DismissPair \/ FamilyNotice
PairRow == \E l, r \in Copies : OpenCompare(l, r)
ScanPanel == StartButton
Dismissals == ShowDismissed \/ \E e \in Pairs : Restore(e)

Costs == DecisionBar \/ ScanPanel \/ DeleteDialog
Free == PairRow \/ StopButton \/ Dismissals \/ Column \/ SwapParent \/ CopyMetadata

Next ==
  \/ \E a \in asks : Serve(a) \/ Arrives(a)
  \/ ScanEnds \/ ScanDies
  \/ Back /\ UNCHANGED acts
  \/ /\ Cardinality({a \in asks : a.here}) < MaxAsked
     /\ \/ Poll
        \/ acts < MaxActs /\ acts' = acts + 1 /\ Costs
        \/ UNCHANGED acts /\ Free

Spec == Init /\ [][Next]_uVars

-----------------------------------------------------------------------------
(* Why it holds                                                             *)

(* Every pair that was found and not rejected is an edge of a group of both *)
(* its copies, whatever has become of them.                                 *)
PairsKept ==
  /\ found \subseteq Pairs /\ groups \subseteq Groups
  /\ \A e \in found : \E g \in groups : e \in g.edges /\ e \subseteq g.members

-----------------------------------------------------------------------------
(* Properties                                                               *)

(* After any verdicts, every pair the last scan has found and nobody has    *)
(* answered (both copies are there, main versions, and not dismissed) is on *)
(* a list loaded now: taking a group apart skips none of its pairs          *)
(* (utils/duplicatePairs.js:53-56: a comparison of everything with the      *)
(* parent would hide the pair that matched).                                *)
NoPairSkipped ==
  \A e \in found :
    (\A c \in e : c \in Rows /\ mainOf[c] = 0) => <<Min(e), Max(e)>> \in PairsOf(OpenGroups)

(* What was rejected goes away immediately, and not only with the next scan *)
(* (backend/routers/duplicates/detection.py:225-226). It does not hold: a   *)
(* group without the edge falls back to pairs with its best member.         *)
DismissedGoesAway == \A e \in dismissed : <<Min(e), Max(e)>> \notin PairsOf(OpenGroups)
=============================================================================
