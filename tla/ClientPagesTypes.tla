--------------------------- MODULE ClientPagesTypes ---------------------------
(***************************************************************************)
(* Every variable of a client's page keeps its type, for every value of the *)
(* constants. A page at a time: what is typed (with what else that takes),  *)
(* that it says what the page's module states, that it holds when the page  *)
(* is mounted, and that every step keeps it.                                *)
(***************************************************************************)
EXTENDS ClientPagesProofs

-----------------------------------------------------------------------------
(* The library: c1 loaded, c2 tagged, c3 grouped, c4 query, c5 bulk, c6 ids,*)
(* c7 anchor, c8 asked, c9 editing                                          *)

ShelfFits == TagsOf \in [Systems -> SUBSET ShelfTags] /\ Taggable \subseteq ShelfTags /\ MaxGroups \in Nat

LookTypes == c1 \in BOOLEAN /\ c3 \in BOOLEAN /\ c4 \in Seq(Library!Group) /\ Len(c4) <= MaxGroups
PickTypes == c5 \in BOOLEAN /\ c6 \subseteq Systems /\ c7 \in Systems \union {0} /\ c9 \in BOOLEAN
TaggedTypes ==
  /\ c2 \in [Systems -> SUBSET ShelfTags]
  /\ c8 = Library!NoAsk \/ c8 \in [tag : ShelfTags, for : SUBSET Systems]
ShelfTyped == LookTypes /\ PickTypes /\ TaggedTypes

LEMMA ShelfTypes == ShelfTyped => Library!ShelfTypeOK
<1> SUFFICES ASSUME ShelfTyped PROVE Library!ShelfTypeOK
  OBVIOUS
<1>1. \A g \in 1..Len(c4) : c4[g] \in Library!Group
  BY DEF ShelfTyped, LookTypes
<1>2. c8 \in [tag : ShelfTags \union {""}, for : SUBSET Systems]
  <2>1. CASE c8 = Library!NoAsk
    BY <2>1 DEF Library!NoAsk
  <2>2. CASE c8 \in [tag : ShelfTags, for : SUBSET Systems]
    BY <2>2
  <2> QED
    BY <2>1, <2>2 DEF ShelfTyped, TaggedTypes
<1> QED
  BY <1>1, <1>2 DEF ShelfTyped, LookTypes, PickTypes, TaggedTypes, Library!ShelfTypeOK

LEMMA ShelfBegins == ASSUME ShelfFits, Library!Init PROVE ShelfTyped
<1> DEFINE q == <<>>
<1>1. q \in Seq(Library!Group) /\ Len(q) = 0
  OBVIOUS
<1>2. c4 = q
  BY DEF Library!Init
<1> HIDE DEF q
<1>3. c4 \in Seq(Library!Group) /\ Len(c4) <= MaxGroups
  BY <1>1, <1>2 DEF ShelfFits
<1>4. LookTypes
  BY <1>3 DEF Library!Init, LookTypes
<1> QED
  BY <1>4 DEF ShelfFits, Library!Init, ShelfTyped, PickTypes, TaggedTypes

LEMMA UsedGroups ==
  ASSUME NEW q \in Seq(Library!Group)
  PROVE  Library!Used(q) \in Seq(Library!Group) /\ Len(Library!Used(q)) <= Len(q)
<1>1. Filtered(q, {g \in Library!Group : g.tags # {}}) = Library!Filtered(q, {g \in Library!Group : g.tags # {}})
  BY DEF Filtered, Library!Filtered
<1> QED
  BY <1>1, FilterKeeps DEF Library!Used

LEMMA GroupsToggled ==
  ASSUME NEW q \in Seq(Library!Group), NEW t \in ShelfTags
  PROVE  Library!ToggleQueryTag(q, t) \in Seq(Library!Group)
<1> DEFINE u == Library!Used(q)
           w == [n \in 1..Len(u) |-> [u[n] EXCEPT !.tags = @ \ {t}]]
<1>1. u \in Seq(Library!Group)
  BY UsedGroups
<1>2. w \in Seq(Library!Group)
  <2>1. ASSUME NEW n \in 1..Len(u) PROVE [u[n] EXCEPT !.tags = @ \ {t}] \in Library!Group
    <3>1. u[n] \in Library!Group
      BY <1>1
    <3> HIDE DEF u
    <3> QED
      BY <3>1 DEF Library!Group
  <2>2. Len(u) \in Nat
    BY <1>1
  <2> HIDE DEF u
  <2> QED
    BY <2>1, <2>2
<1>3. Library!Used(w) \in Seq(Library!Group)
  BY <1>2, UsedGroups
<1>4. [mode |-> "include", tags |-> {t}] \in Library!Group
  BY DEF Library!Group
<1>5. Append(u, [mode |-> "include", tags |-> {t}]) \in Seq(Library!Group)
  BY <1>1, <1>4
<1> QED
  BY <1>3, <1>5 DEF Library!ToggleQueryTag

LEMMA LookStep ==
  ASSUME ShelfFits, ShelfTyped, NEW g \in BOOLEAN, NEW q \in Seq(Library!Group), Len(q) <= MaxGroups, Library!Look(g, q)
  PROVE  ShelfTyped'
BY DEF Library!Look, Library!pickVars, ShelfTyped, LookTypes, PickTypes, TaggedTypes

LEMMA PickStep ==
  ASSUME ShelfTyped, NEW b \in BOOLEAN, NEW i \in SUBSET Systems, NEW a \in Systems \union {0}, Library!Pick(b, i, a)
  PROVE  ShelfTyped'
BY DEF Library!Pick, Library!lookVars, ShelfTyped, LookTypes, PickTypes, TaggedTypes

LEMMA FilterStep ==
  ASSUME ShelfFits, ShelfTyped,
         \/ Library!GroupToggle \/ Library!AddGroup \/ Library!EditGroup \/ Library!RemoveGroup
         \/ Library!ClearFilters \/ Library!ClickTag
  PROVE  ShelfTyped'
<1>t. c3 \in BOOLEAN /\ c4 \in Seq(Library!Group) /\ Len(c4) <= MaxGroups /\ Len(c4) \in Nat /\ MaxGroups \in Nat
  BY DEF ShelfTyped, LookTypes, ShelfFits
<1>1. CASE Library!GroupToggle
  BY <1>t, <1>1, LookStep DEF Library!GroupToggle
<1>2. CASE Library!AddGroup
  <2>1. PICK m \in {"include", "exclude"} :
          Len(c4) < MaxGroups /\ Library!Look(c3, Append(c4, [mode |-> m, tags |-> {}]))
    BY <1>2 DEF Library!AddGroup
  <2>2. [mode |-> m, tags |-> {}] \in Library!Group
    BY DEF Library!Group
  <2> DEFINE q == Append(c4, [mode |-> m, tags |-> {}])
  <2>3. q \in Seq(Library!Group) /\ Len(q) = Len(c4) + 1
    BY <1>t, <2>2
  <2>4. Library!Look(c3, q) /\ Len(q) <= MaxGroups
    BY <1>t, <2>1, <2>3
  <2> HIDE DEF q
  <2> QED
    BY <1>t, <2>3, <2>4, LookStep
<1>3. CASE Library!EditGroup
  <2>1. PICK n \in 1..Len(c4), g \in Library!Group : Library!Look(c3, [c4 EXCEPT ![n] = g])
    BY <1>3 DEF Library!EditGroup
  <2>2. [c4 EXCEPT ![n] = g] \in Seq(Library!Group) /\ Len([c4 EXCEPT ![n] = g]) = Len(c4)
    BY <1>t
  <2> QED
    BY <1>t, <2>1, <2>2, LookStep
<1>4. CASE Library!RemoveGroup
  <2>1. PICK n \in 1..Len(c4) : Library!Look(c3, SubSeq(c4, 1, n - 1) \o SubSeq(c4, n + 1, Len(c4)))
    BY <1>4 DEF Library!RemoveGroup
  <2> DEFINE a == SubSeq(c4, 1, n - 1)
             b == SubSeq(c4, n + 1, Len(c4))
  <2>2. a \in Seq(Library!Group) /\ Len(a) = n - 1
    BY <1>t
  <2>3. b \in Seq(Library!Group) /\ Len(b) = Len(c4) - n
    BY <1>t
  <2>4. a \o b \in Seq(Library!Group) /\ Len(a \o b) = Len(c4) - 1
    <3> HIDE DEF a, b
    <3> QED BY <1>t, <2>2, <2>3
  <2> DEFINE q == a \o b
  <2>5. Library!Look(c3, q)
    BY <2>1
  <2> HIDE DEF a, b
  <2>6. q \in Seq(Library!Group) /\ Len(q) = Len(c4) - 1
    BY <2>4
  <2> HIDE DEF q
  <2>7. Len(q) <= MaxGroups
    BY <1>t, <2>6
  <2> QED
    BY <1>t, <2>5, <2>6, <2>7, LookStep
<1>5. CASE Library!ClearFilters
  <2> DEFINE q == <<>>
  <2>1. q \in Seq(Library!Group) /\ Len(q) = 0 /\ Library!Look(c3, q)
    BY <1>5 DEF Library!ClearFilters
  <2> HIDE DEF q
  <2>2. Len(q) <= MaxGroups
    BY <1>t, <2>1
  <2> QED
    BY <1>t, <2>1, <2>2, LookStep
<1>6. CASE Library!ClickTag
  <2>1. PICK t \in ShelfTags : /\ Len(Library!ToggleQueryTag(c4, t)) <= MaxGroups
                               /\ Library!Look(c3, Library!ToggleQueryTag(c4, t))
    BY <1>6 DEF Library!ClickTag
  <2> QED
    BY <1>t, <2>1, GroupsToggled, LookStep
<1> QED
  BY <1>1, <1>2, <1>3, <1>4, <1>5, <1>6

LEMMA ShelfStep ==
  ASSUME ShelfFits, ShelfTyped, Library!Next
  PROVE  ShelfTyped'
<1>1. CASE Library!Loaded
  BY <1>1 DEF Library!Loaded, Library!lookVars, Library!pickVars, ShelfTyped, LookTypes, PickTypes, TaggedTypes
<1>2. CASE Library!BulkToggle
  BY <1>2, PickStep DEF Library!BulkToggle, ShelfTyped, PickTypes
<1>3. ASSUME NEW i \in Systems, NEW shift \in BOOLEAN, Library!ClickCard(i, shift) PROVE ShelfTyped'
  <2> DEFINE now == IF shift /\ c7 \in Library!Selectable THEN c6 \union Library!Between(i) ELSE Library!Flip(i)
             a == IF shift THEN c7 ELSE i
  <2>1. now \in SUBSET Systems
    BY DEF Library!Between, Library!Flip, Library!Selectable, Library!normalSystems, Library!gridSystems,
           ShelfTyped, PickTypes
  <2>2. a \in Systems \union {0}
    BY DEF ShelfTyped, PickTypes
  <2>3. Library!Pick(TRUE, now, a)
    BY <1>3 DEF Library!ClickCard
  <2> HIDE DEF now, a
  <2> QED
    BY <2>1, <2>2, <2>3, PickStep
<1>4. ASSUME NEW t \in Taggable, Library!ApplyTags(t) PROVE ShelfTyped'
  <2>1. c8' \in [tag : ShelfTags, for : SUBSET Systems]
    BY <1>4 DEF Library!ApplyTags, ShelfFits, ShelfTyped, PickTypes
  <2> QED
    BY <1>4, <2>1 DEF Library!ApplyTags, Library!lookVars, Library!pickVars, ShelfTyped, LookTypes, PickTypes, TaggedTypes
<1>5. ASSUME NEW t \in Taggable, Library!EditDone(t) PROVE ShelfTyped'
  <2>1. c2' \in [Systems -> SUBSET ShelfTags]
    BY <1>5 DEF Library!EditDone, ShelfTyped, TaggedTypes
  <2> QED
    BY <1>5, <2>1 DEF Library!EditDone, Library!lookVars, Library!pickVars, ShelfTyped, LookTypes, PickTypes, TaggedTypes
<1>6. CASE Library!TagsApplied
  <2>1. c2' \in [Systems -> SUBSET ShelfTags]
    BY <1>6 DEF Library!TagsApplied, ShelfTyped, TaggedTypes
  <2> QED
    BY <1>6, <2>1 DEF Library!TagsApplied, Library!lookVars, Library!pickVars, ShelfTyped, LookTypes, PickTypes, TaggedTypes
<1>7. CASE Library!TagsRefused \/ Library!BulkEdit \/ Library!EditShut
  BY <1>7 DEF Library!TagsRefused, Library!BulkEdit, Library!EditShut, Library!lookVars, Library!pickVars,
              ShelfTyped, LookTypes, PickTypes, TaggedTypes
<1> QED
  BY <1>1, <1>2, <1>3, <1>4, <1>5, <1>6, <1>7, FilterStep DEF Library!Next

-----------------------------------------------------------------------------
(* The page of a system: c1 server, c2 main, c3 ever, c4 page, c5 rows,     *)
(* c6 systemEditor, c7 editing, c8 form, c9 picked, c10 bulk, c11 drafts,   *)
(* c12 at, c13 saving, c14 asks                                             *)

BookOrNone == Books \union {0}
EverTyped == c3 \subseteq Books \X EditFields
EditorTyped == c6 \in BOOLEAN /\ c7 \in BookOrNone
BulkEditTyped == c9 \subseteq Books /\ c10 \in BOOLEAN /\ c12 \in BookOrNone /\ c13 \subseteq {"bulk", "tags"}
SystemAsk(a) == a.kind \in System!Kinds /\ a.answered \in BOOLEAN /\ a.follow \in BookOrNone
SystemAsked == \A a \in c14 : SystemAsk(a)
SystemRest == EverTyped /\ EditorTyped /\ BulkEditTyped /\ SystemAsked
SystemTyped == System!ShownKept /\ SystemRest

LEMMA SystemTypes == SystemTyped => System!SystemTypeOK
<1> SUFFICES ASSUME SystemTyped PROVE System!SystemTypeOK
  OBVIOUS
<1>1. \A a \in c14 : a.kind \in System!Kinds /\ a.answered \in BOOLEAN /\ DOMAIN a.patch \subseteq Books
  <2> SUFFICES ASSUME NEW a \in c14
               PROVE  a.kind \in System!Kinds /\ a.answered \in BOOLEAN /\ DOMAIN a.patch \subseteq Books
    OBVIOUS
  <2>1. System!AskKept(a) /\ SystemAsk(a)
    BY DEF SystemTyped, SystemRest, SystemAsked, System!ShownKept
  <2>2. DOMAIN a.patch \subseteq Books
    BY <2>1 DEF System!AskKept
  <2> QED
    BY <2>1, <2>2 DEF SystemAsk
<1>2. c1 \in [Books -> System!Content] /\ c4 \in [Books -> System!Content] /\ c2 \subseteq Books /\ c5 \subseteq Books
      /\ c8 \in System!Content /\ c11 \in [Books -> System!Content]
  BY DEF SystemTyped, System!ShownKept, System!WasStored
<1> QED
  BY <1>1, <1>2 DEF SystemTyped, SystemRest, EverTyped, EditorTyped, BulkEditTyped, BookOrNone, System!SystemTypeOK

LEMMA SystemUnchanged ==
  ASSUME SystemRest
  PROVE  /\ UNCHANGED c3 => EverTyped'
         /\ UNCHANGED <<c6, c7>> => EditorTyped'
         /\ UNCHANGED <<c9, c10, c12, c13>> => BulkEditTyped'
         /\ UNCHANGED c14 => SystemAsked'
BY DEF SystemRest, EverTyped, EditorTyped, BulkEditTyped, SystemAsked, SystemAsk, BookOrNone

LEMMA SystemRequest ==
  ASSUME NEW kind \in System!Kinds, NEW patch, NEW follow \in BookOrNone
  PROVE  SystemAsk(System!Ask(kind, patch, follow))
BY DEF SystemAsk, System!Ask

LEMMA SystemBegins == ASSUME System!Init PROVE SystemTyped
<1>1. System!ShownKept
  <2>1. System!Blank \in System!Content /\ System!WasStored(System!Blanks)
    BY DEF System!Blank, System!Blanks, System!Content, System!WasStored
  <2>2. /\ c1 = System!Blanks /\ c2 = Books /\ c3 = {} /\ c4 = System!Blanks /\ c5 = {} /\ c8 = System!Blank
        /\ c10 = FALSE /\ c11 = System!Blanks /\ c14 = {System!Ask("reload", System!None, 0)}
    BY DEF System!Init
  <2>3. System!AskKept(System!Ask("reload", System!None, 0))
    BY <2>1, <2>2, NewAsk DEF System!None
  <2> QED
    BY <2>1, <2>2, <2>3 DEF System!ShownKept, System!Blanks
<1>2. EverTyped /\ BulkEditTyped
  BY DEF System!Init, EverTyped, BulkEditTyped, BookOrNone
<1>3. EditorTyped
  BY DEF System!Init, EditorTyped, BookOrNone
<1>4. SystemAsked
  BY SystemRequest DEF System!Init, SystemAsked, System!Kinds, BookOrNone
<1> QED
  BY <1>1, <1>2, <1>3, <1>4 DEF SystemTyped, SystemRest

LEMMA SystemServed ==
  ASSUME SystemTyped, NEW a \in c14, System!Serve(a)
  PROVE  SystemRest'
<1>0. SystemRest /\ SystemAsk(a) /\ DOMAIN a = System!AskFields /\ \A x \in c14 : SystemAsk(x)
  BY DEF SystemTyped, SystemRest, SystemAsked, System!ShownKept, System!AskKept
<1>1. EditorTyped' /\ BulkEditTyped'
  BY <1>0, SystemUnchanged DEF System!Serve, System!editorVars, System!bulkVars
<1>2. EverTyped'
  <2>1. UNCHANGED c3 \/ \E s : c3' = c3 \union {bf \in Books \X EditFields : s[bf[1]][bf[2]]}
    BY DEF System!Serve, System!Reads, System!Versions, System!Writes, System!Stored, System!serverVars
  <2> QED
    BY <1>0, <2>1 DEF SystemRest, EverTyped
<1>3. ASSUME NEW p, NEW r, NEW no
      PROVE  /\ SystemAsk([a EXCEPT !.answered = TRUE, !.refused = no])
             /\ SystemAsk([a EXCEPT !.answered = TRUE, !.page = p, !.rows = r])
             /\ SystemAsk([a EXCEPT !.answered = TRUE])
  BY <1>0 DEF SystemAsk, System!AskFields
<1>4. \E q : c14' = (c14 \ {a}) \union {q} /\ SystemAsk(q)
  BY <1>3 DEF System!Serve, System!Reads, System!Versions, System!Writes
<1>5. SystemAsked'
  BY <1>0, <1>4 DEF SystemAsked
<1> QED
  BY <1>1, <1>2, <1>5 DEF SystemRest

LEMMA SystemArrived ==
  ASSUME SystemTyped, NEW a \in c14, System!Arrives(a) \/ System!Fails(a)
  PROVE  SystemRest'
<1>0. SystemRest /\ SystemAsk(a) /\ System!AskKept(a) /\ \A x \in c14 : SystemAsk(x)
  BY DEF SystemTyped, SystemRest, SystemAsked, System!ShownKept
<1>1. EverTyped'
  BY <1>0, SystemUnchanged
     DEF System!Arrives, System!Reloaded, System!BookSaved, System!SystemSaved, System!BulkSaved, System!TagsAdded,
         System!Fetched, System!VersionsChanged, System!Fails, System!Showing, System!serverVars
<1>2. SystemAsked'
  <2>1. c14' = c14 \ {a} \/ System!VersionsChanged(a)
    BY DEF System!Arrives, System!Reloaded, System!BookSaved, System!SystemSaved, System!BulkSaved, System!TagsAdded,
           System!Fetched, System!Fails, System!Showing
  <2>2. SystemAsk(System!Ask("reload", System!None, a.follow))
    BY <1>0, SystemRequest DEF SystemAsk, System!Kinds
  <2> QED
    BY <1>0, <2>1, <2>2 DEF System!VersionsChanged, SystemAsked
<1>3. EditorTyped'
  <2>1. c6' \in {c6, FALSE} /\ c7' \in {c7, 0, a.follow}
    BY DEF System!Arrives, System!Reloaded, System!BookSaved, System!SystemSaved, System!BulkSaved, System!TagsAdded,
           System!Fetched, System!VersionsChanged, System!Fails, System!editorVars
  <2> QED
    BY <1>0, <2>1 DEF SystemRest, EditorTyped, SystemAsk, BookOrNone
<1>4. BulkEditTyped'
  <2>1. c9' = c9 /\ c10' \in {c10, FALSE} /\ c12' \in {c12, 0} /\ c13' \subseteq c13
    BY DEF System!Arrives, System!Reloaded, System!BookSaved, System!SystemSaved, System!BulkSaved, System!TagsAdded,
           System!Fetched, System!VersionsChanged, System!Fails, System!bulkVars, System!Dismissed
  <2> QED
    BY <1>0, <2>1 DEF SystemRest, BulkEditTyped, BookOrNone
<1> QED
  BY <1>1, <1>2, <1>3, <1>4 DEF SystemRest

LEMMA SystemActs ==
  ASSUME SystemTyped,
         \/ System!Header \/ System!Category \/ System!BookForm \/ System!FetchDialog
         \/ System!VersionsSection \/ System!SystemForm \/ System!BulkBar \/ System!Carousel
         \/ System!BookFields \/ System!SystemFields \/ System!ApplyAllDialog
  PROVE  SystemRest'
<1> USE DEF System!serverVars, System!pageVars, System!editorVars, System!bulkVars
<1>0. EverTyped /\ EditorTyped /\ BulkEditTyped /\ SystemAsked /\ c5 \subseteq Books
  BY DEF SystemTyped, SystemRest, System!ShownKept
<1>u. /\ UNCHANGED c3 => EverTyped'
      /\ UNCHANGED <<c6, c7>> => EditorTyped'
      /\ UNCHANGED <<c9, c10, c12, c13>> => BulkEditTyped'
      /\ UNCHANGED c14 => SystemAsked'
  BY SystemUnchanged DEF SystemTyped
<1>n. {"reload", "book", "bulk", "tags", "fetched", "system", "versions"} \subseteq System!Kinds /\ 0 \in BookOrNone
      /\ Books \subseteq BookOrNone
  BY DEF System!Kinds, BookOrNone
<1>s. ASSUME NEW kind \in System!Kinds, NEW patch, NEW follow \in BookOrNone, System!Send(kind, patch, follow)
      PROVE  SystemAsked'
  <2>1. SystemAsk(System!Ask(kind, patch, follow))
    BY SystemRequest
  <2> QED
    BY <1>0, <1>s, <2>1 DEF System!Send, SystemAsked
<1>q. ASSUME NEW kind \in System!Kinds, NEW patch, NEW follow \in BookOrNone, System!Send(kind, patch, follow), System!Asking
      PROVE  SystemRest'
  BY <1>q, <1>s, <1>u DEF System!Asking, SystemRest
<1>1. ASSUME System!Leave PROVE SystemRest'
  <2>1. SystemAsk(System!Ask("reload", System!None, 0))
    BY <1>n, SystemRequest
  <2>2. \A x \in c14 : SystemAsk([x EXCEPT !.kind = "gone"])
    <3> SUFFICES ASSUME NEW x \in c14 PROVE SystemAsk([x EXCEPT !.kind = "gone"])
      OBVIOUS
    <3>1. DOMAIN x = System!AskFields /\ SystemAsk(x)
      BY <1>0 DEF SystemAsked, SystemTyped, System!ShownKept, System!AskKept
    <3> QED
      BY <3>1 DEF SystemAsk, System!AskFields, System!Kinds
  <2>3. SystemAsked'
    BY <1>1, <2>1, <2>2 DEF System!Leave, SystemAsked
  <2>4. EditorTyped'
    BY <1>1, <1>n DEF System!Leave, EditorTyped, BookOrNone
  <2>5. BulkEditTyped'
    BY <1>1, <1>n DEF System!Leave, BulkEditTyped, BookOrNone
  <2> QED
    BY <1>1, <1>u, <2>3, <2>4, <2>5 DEF System!Leave, SystemRest
<1>2. ASSUME NEW b \in BookOrNone, NEW d, System!Editing(b, d) PROVE SystemRest'
  <2>1. EditorTyped'
    BY <1>0, <1>2 DEF System!Editing, EditorTyped, BookOrNone
  <2> QED
    BY <1>2, <1>u, <2>1 DEF System!Editing, SystemRest
<1>3. ASSUME System!EditSystem PROVE SystemRest'
  <2>1. EditorTyped'
    BY <1>0, <1>3 DEF System!EditSystem, EditorTyped, BookOrNone
  <2> QED
    BY <1>3, <1>u, <2>1 DEF System!EditSystem, SystemRest
<1>4. ASSUME NEW p \in SUBSET Books, System!Picking(p) PROVE SystemRest'
  <2>1. BulkEditTyped'
    BY <1>0, <1>4 DEF System!Picking, BulkEditTyped, BookOrNone
  <2> QED
    BY <1>4, <1>u, <2>1 DEF System!Picking, SystemRest
<1>5. ASSUME NEW d, NEW b \in BookOrNone, System!Drafting(d, b) PROVE SystemRest'
  <2>1. BulkEditTyped'
    BY <1>0, <1>5 DEF System!Drafting, BulkEditTyped, BookOrNone
  <2> QED
    BY <1>5, <1>u, <2>1 DEF System!Drafting, SystemRest
<1>6. ASSUME System!BookForm PROVE SystemRest'
  BY <1>0, <1>2, <1>6, <1>n, <1>q DEF System!BookForm, System!SaveBook, System!CancelBook, System!SetForm, EditorTyped
<1>7. ASSUME System!FetchDialog PROVE SystemRest'
  BY <1>0, <1>7, <1>n, <1>q DEF System!FetchDialog, System!Incoming, System!FetchBook, System!FetchDraft, BulkEditTyped
<1>8. ASSUME System!VersionsSection PROVE SystemRest'
  BY <1>8, <1>n, <1>q DEF System!VersionsSection, System!MakeMain
<1>9. ASSUME System!SystemForm \/ System!Header PROVE SystemRest'
  BY <1>1, <1>3, <1>9, <1>n, <1>q DEF System!SystemForm, System!SaveSystem, System!Header
<1>10. ASSUME System!Category PROVE SystemRest'
  <2>1. \A b \in Books : (IF b \in c9 THEN c9 \ {b} ELSE c9 \union {b}) \in SUBSET Books
    BY <1>0 DEF BulkEditTyped
  <2>2. ASSUME NEW b \in Books, System!EditBook(b) \/ System!ToggleBook(b) PROVE SystemRest'
    BY <1>2, <1>4, <1>n, <2>1, <2>2 DEF System!EditBook, System!ToggleBook
  <2> QED
    BY <1>10, <2>2 DEF System!Category, System!FolderGroup, System!BookLine, System!BookCard, System!ActionsMenu
<1>11. ASSUME System!BulkBar PROVE SystemRest'
  <2>1. ASSUME System!ApplyTags PROVE SystemRest'
    <3>1. BulkEditTyped'
      BY <1>0, <2>1 DEF System!ApplyTags, BulkEditTyped, BookOrNone
    <3>2. SystemAsked'
      BY <1>n, <1>s, <2>1 DEF System!ApplyTags
    <3> QED
      BY <1>u, <2>1, <3>1, <3>2 DEF System!ApplyTags, SystemRest
  <2>2. ASSUME System!OpenBulk PROVE SystemRest'
    <3>1. BulkEditTyped'
      BY <1>0, <2>2 DEF System!OpenBulk, System!items, BulkEditTyped, BookOrNone
    <3> QED
      BY <1>u, <2>2, <3>1 DEF System!OpenBulk, SystemRest
  <2>3. {} \in SUBSET Books
    OBVIOUS
  <2> QED
    BY <1>4, <1>11, <2>1, <2>2, <2>3 DEF System!BulkBar, System!ExitBulk
<1>12. ASSUME System!Carousel PROVE SystemRest'
  <2>1. ASSUME System!CloseBulk PROVE SystemRest'
    <3>1. BulkEditTyped'
      BY <1>0, <2>1 DEF System!CloseBulk, System!Dismissed, BulkEditTyped, BookOrNone
    <3> QED
      BY <1>u, <2>1, <3>1 DEF System!CloseBulk, SystemRest
  <2>2. ASSUME System!SaveAll PROVE SystemRest'
    <3>1. /\ UNCHANGED <<c3, c6, c7, c9>> /\ c10' \in {c10, FALSE} /\ c12' \in {c12, 0}
          /\ c13' \in {c13, c13 \union {"bulk"}}
      BY <2>2 DEF System!SaveAll, System!Dismissed
    <3>2. BulkEditTyped'
      BY <1>0, <3>1 DEF BulkEditTyped, BookOrNone
    <3>3. UNCHANGED c14 \/ \E patch : System!Send("bulk", patch, 0)
      BY <2>2 DEF System!SaveAll
    <3>4. SystemAsked'
      BY <1>n, <1>s, <1>u, <3>3
    <3> QED
      BY <1>u, <3>1, <3>2, <3>4 DEF SystemRest
  <2>3. ASSUME NEW b \in Books, System!Go(b) PROVE SystemRest'
    BY <1>5, <1>n, <2>3 DEF System!Go
  <2> QED
    BY <1>12, <2>1, <2>2, <2>3 DEF System!Carousel
<1>13. ASSUME System!BookFields \/ System!SystemFields \/ System!ApplyAllDialog PROVE SystemRest'
  BY <1>0, <1>5, <1>13 DEF System!BookFields, System!SystemFields, System!SetField, System!ApplyAllDialog,
                           System!ApplyToAll, BulkEditTyped
<1> QED
  BY <1>6, <1>7, <1>8, <1>9, <1>10, <1>11, <1>12, <1>13

LEMMA SystemTypedStep ==
  ASSUME "tags" \in EditFields, SystemTyped, System!Next
  PROVE  SystemTyped'
<1>1. System!ShownKept'
  BY SystemServes, SystemAnswers, SystemUsed DEF System!Next, SystemTyped
<1>2. SystemRest'
  BY SystemServed, SystemArrived, SystemActs DEF System!Next
<1> QED
  BY <1>1, <1>2 DEF SystemTyped

-----------------------------------------------------------------------------
(* The reader: c1 book, c2 loaded, c3 page, c4 mode, c5 offset, c6 came,    *)
(* c7 urls, c8 push, c9 zoom, c10 panel, c11 found, c12 marks, c13 edited,  *)
(* c14 pending, c15 saves                                                   *)

ReaderFits ==
  BooksHavePages /\ IsFiniteSet(DOMAIN PageCount) /\ MaxHistory \in Nat \ {0} /\ MaxMarks \in Nat

PlaceTyped ==
  /\ c1 \in Book!Versions /\ c3 \in Book!AllPages /\ c4 \in {"page", "spread", "pdf"} /\ c5 \in {0, 1}
  /\ c6 \in {"opened", "gone to"} /\ c9 \in Book!Zooms
HistoryTyped == c7 \in Seq(Book!AllPages) /\ Len(c7) \in 1..MaxHistory
ReaderFlags == c2 \in BOOLEAN /\ c8 \in BOOLEAN /\ c13 \in BOOLEAN /\ c14 \in BOOLEAN
PanelTyped == c10 \in Book!Panels /\ c11 \subseteq {"asked", "listed"} /\ c15 \subseteq {"add", "edit", "remove"}
(* A bookmark that is being made has room, one that is being removed is there.*)
MarksTyped ==
  c12 \in 0..MaxMarks /\ ("add" \in c15 => c12 < MaxMarks) /\ ("remove" \in c15 => c12 > 0)
ReaderTyped == PlaceTyped /\ HistoryTyped /\ ReaderFlags /\ PanelTyped /\ MarksTyped

LEMMA ReaderTypes == ReaderTyped => Book!ReaderTypeOK
<1>1. ASSUME ReaderTyped PROVE c12 \in 0..MaxMarks
  BY <1>1 DEF ReaderTyped, MarksTyped
<1> QED
  BY <1>1 DEF ReaderTyped, PlaceTyped, HistoryTyped, ReaderFlags, PanelTyped, Book!ReaderTypeOK

LEMMA ReaderConstants == Book!AllPages' = Book!AllPages /\ Book!Versions' = Book!Versions
BY DEF Book!AllPages, Book!MaxPage, Book!Versions, Book!Max

LEMMA ReaderUnchanged ==
  ASSUME ReaderTyped
  PROVE  /\ UNCHANGED <<c1, c3, c4, c5, c6, c9>> => PlaceTyped'
         /\ UNCHANGED c7 => HistoryTyped'
         /\ UNCHANGED <<c2, c8, c13, c14>> => ReaderFlags'
         /\ UNCHANGED <<c10, c11, c15>> => PanelTyped'
         /\ UNCHANGED <<c12, c15>> => MarksTyped'
BY DEF ReaderTyped, PlaceTyped, HistoryTyped, ReaderFlags, PanelTyped, MarksTyped, Book!Versions, Book!AllPages,
       Book!Zooms, Book!Panels, Book!MaxPage, Book!Max

(* Of finitely many numbers one is the greatest.                            *)
LEMMA GreatestNumber ==
  ASSUME NEW D, D # {}, IsFiniteSet(D), NEW g \in [D -> Nat]
  PROVE  \E m \in D : \A x \in D : g[x] <= g[m]
<1> DEFINE n == Cardinality(D)
           Has(k) == \A f \in [1..k -> Nat] : \E b \in Nat : \A i \in 1..k : f[i] <= b
           P == {k \in Nat : Has(k)}
<1>1. n \in Nat /\ ExistsBijection(1..n, D)
  BY FS_CardinalityType
<1>2. 0 \in P
  OBVIOUS
<1>3. ASSUME NEW k \in Nat, k \in P PROVE k + 1 \in P
  <2> HIDE DEF P
  <2>0. Has(k + 1) => k + 1 \in P
    <3> HIDE DEF Has
    <3> QED
      BY DEF P
  <2>9. Has(k)
    <3> HIDE DEF Has
    <3> QED
      BY <1>3 DEF P
  <2> SUFFICES ASSUME NEW f \in [1..k + 1 -> Nat] PROVE \E b \in Nat : \A i \in 1..k + 1 : f[i] <= b
    BY <2>0
  <2> DEFINE h == [i \in 1..k |-> f[i]]
  <2>1. h \in [1..k -> Nat]
    OBVIOUS
  <2>2. PICK b \in Nat : \A i \in 1..k : h[i] <= b
    BY <2>1, <2>9
  <2>3. f[k + 1] \in Nat
    OBVIOUS
  <2>4. ASSUME NEW i \in 1..k + 1 PROVE f[i] <= b + f[k + 1]
    <3>1. CASE i = k + 1
      BY <3>1, <2>3
    <3>2. CASE i # k + 1
      <4>1. i \in 1..k /\ f[i] \in Nat
        BY <3>2
      <4>2. f[i] <= b
        BY <4>1, <2>2
      <4> QED
        BY <4>1, <4>2, <2>3
    <3> QED
      BY <3>1, <3>2
  <2>5. b + f[k + 1] \in Nat
    BY <2>3
  <2> QED
    BY <2>4, <2>5
<1> HIDE DEF P, n
<1>4. n \in P
  BY <1>1, <1>2, <1>3, NumberInduction
<1>5. PICK e \in [1..n -> D] : \A x \in D : \E i \in 1..n : e[i] = x
  BY <1>1 DEF ExistsBijection, Bijection, Surjection
<1>6. [i \in 1..n |-> g[e[i]]] \in [1..n -> Nat]
  OBVIOUS
<1>7. PICK b \in Nat : \A i \in 1..n : [j \in 1..n |-> g[e[j]]][i] <= b
  BY <1>4, <1>6 DEF P
<1>8. \A x \in D : g[x] \in Nat /\ g[x] <= b
  BY <1>5, <1>7
<1> DEFINE T == {b - g[x] : x \in D}
<1>9. T \in SUBSET Nat /\ T # {}
  BY <1>8
<1>10. PICK t \in T : \A s \in T : t <= s
  BY <1>9, LeastNumber
<1>11. PICK m \in D : t = b - g[m]
  BY <1>10
<1>12. \A x \in D : b - g[m] <= b - g[x]
  BY <1>10, <1>11
<1> QED
  BY <1>8, <1>12

LEMMA LongestBook ==
  ASSUME ReaderFits
  PROVE  \A b \in Book!Versions : 1..PageCount[b] \subseteq Book!AllPages
<1> DEFINE D == DOMAIN PageCount
           g == [x \in D |-> PageCount[x]]
<1> SUFFICES ASSUME NEW b \in Book!Versions PROVE 1..PageCount[b] \subseteq Book!AllPages
  OBVIOUS
<1>1. b \in D /\ g \in [D -> Nat] /\ IsFiniteSet(D)
  BY DEF ReaderFits, BooksHavePages, Book!Versions
<1>2. PICK m \in D : \A x \in D : g[x] <= g[m]
  BY <1>1, GreatestNumber
<1>3. PageCount[m] \in {PageCount[x] : x \in D} /\ \A y \in {PageCount[x] : x \in D} : PageCount[m] >= y
  BY <1>2
<1>4. Book!MaxPage \in {PageCount[x] : x \in D} /\ \A y \in {PageCount[x] : x \in D} : Book!MaxPage >= y
  BY <1>3 DEF Book!MaxPage, Book!Max, Book!Versions
<1>5. Book!MaxPage >= PageCount[b] /\ PageCount[b] \in Nat /\ Book!MaxPage \in Nat
  BY <1>1, <1>4 DEF ReaderFits, BooksHavePages
<1> QED
  BY <1>5 DEF Book!AllPages

LEMMA ReaderBegins == ASSUME ReaderFits, Book!Init PROVE ReaderTyped
<1>1. c1 \in Book!Versions /\ c3 \in 1..PageCount[c1] /\ c7 = <<c3>>
  BY DEF Book!Init
<1>2. c3 \in Book!AllPages
  BY <1>1, LongestBook
<1>3. HistoryTyped
  BY <1>1, <1>2 DEF ReaderFits, HistoryTyped
<1>4. PlaceTyped
  BY <1>1, <1>2 DEF Book!Init, PlaceTyped, Book!Zooms
<1>5. ReaderFlags
  BY DEF Book!Init, ReaderFlags
<1>6. PanelTyped
  BY DEF Book!Init, PanelTyped, Book!Panels
<1>7. MarksTyped
  <2>1. c12 = 0 /\ c15 = {}
    BY DEF Book!Init
  <2> QED
    BY <2>1 DEF MarksTyped, ReaderFits
<1> QED
  BY <1>3, <1>4, <1>5, <1>6, <1>7 DEF ReaderTyped

LEMMA ButTheLast ==
  ASSUME NEW S, NEW s \in Seq(S), Len(s) > 0
  PROVE  SubSeq(s, 1, Len(s) - 1) \in Seq(S) /\ Len(SubSeq(s, 1, Len(s) - 1)) = Len(s) - 1
<1> DEFINE n == Len(s) - 1
<1>1. Len(s) \in Nat /\ 1 \in 1..Len(s) + 1 /\ n \in 1 - 1..Len(s) /\ n - 1 + 1 = n /\ n \in Nat
  BY LenProperties
<1> HIDE DEF n
<1>2. SubSeq(s, 1, n) \in Seq(S) /\ Len(SubSeq(s, 1, n)) = IF 1 <= n THEN n - 1 + 1 ELSE 0
  BY <1>1, SubSeqProperties
<1>3. 1 <= n \/ n = 0
  BY <1>1
<1> QED
  BY <1>1, <1>2, <1>3 DEF n

(* An address that is pushed while there is room, or put in the last place. *)
LEMMA AddressTyped ==
  ASSUME ReaderFits, HistoryTyped, NEW p \in Book!AllPages, NEW pushing \in BOOLEAN,
         pushing => Len(c7) < MaxHistory,
         c7' = Append(IF pushing THEN c7 ELSE SubSeq(c7, 1, Len(c7) - 1), p)
  PROVE  HistoryTyped'
<1> DEFINE S == Book!AllPages
<1>0. c7 \in Seq(S) /\ Len(c7) \in 1..MaxHistory /\ MaxHistory \in Nat
  BY DEF HistoryTyped, ReaderFits
<1>1. Book!AllPages' = Book!AllPages
  BY ReaderConstants
<1> HIDE DEF S
<1>2. p \in S
  BY DEF S
<1>3. c7' \in Seq(S) /\ Len(c7') \in 1..MaxHistory
  <2>1. CASE pushing
    BY <1>0, <1>2, <2>1
  <2>2. CASE ~pushing
    <3> DEFINE t == SubSeq(c7, 1, Len(c7) - 1)
    <3>1. t \in Seq(S) /\ Len(t) = Len(c7) - 1
      BY <1>0, ButTheLast
    <3>2. c7' = Append(t, p)
      BY <2>2
    <3> HIDE DEF t
    <3> QED
      BY <1>0, <1>2, <3>1, <3>2
  <2> QED
    BY <2>1, <2>2
<1> QED
  BY <1>1, <1>3 DEF HistoryTyped, S

LEMMA PageTyped ==
  ASSUME ReaderFits, ReaderTyped, NEW p \in Int, NEW m \in {"page", "spread", "pdf"}, NEW o \in {0, 1},
         NEW jump \in BOOLEAN, Book!GoesTo(p, m, o, jump)
  PROVE  PlaceTyped' /\ HistoryTyped' /\ UNCHANGED <<c2, c12, c14, c15>> /\ c8' \in BOOLEAN
<1>0. PlaceTyped /\ HistoryTyped /\ c8 \in BOOLEAN
  BY DEF ReaderTyped, ReaderFlags
<1>1. c2 /\ c3' = Book!Landed(p, m, o) /\ UNCHANGED <<c1, c2, c12, c14, c15>>
  BY DEF Book!GoesTo
<1>9. c1' = c1 /\ c4' = m /\ c5' = o /\ c6' = "gone to"
  BY DEF Book!GoesTo
<1>10. c9' = 1 \/ c9' = c9
  BY DEF Book!GoesTo
<1>2. c3' \in 1..PageCount[c1]
  BY <1>0, <1>1, LandsLeft DEF ReaderFits, BooksHavePages, PlaceTyped, Book!Versions
<1>3. c3' \in Book!AllPages
  BY <1>0, <1>2, LongestBook DEF PlaceTyped
<1>4. PlaceTyped'
  <2>1. c9' \in Book!Zooms
    <3>1. c9 \in 1..2
      BY <1>0 DEF PlaceTyped, Book!Zooms
    <3> QED
      BY <1>10, <3>1 DEF Book!Zooms
  <2>2. c5' \in {0, 1}
    BY <1>9
  <2>3. c4' \in {"page", "spread", "pdf"}
    BY <1>9
  <2>4. c1' \in Book!Versions /\ c6' \in {"opened", "gone to"}
    BY <1>0, <1>9 DEF PlaceTyped
  <2> QED
    BY <1>3, <2>1, <2>2, <2>3, <2>4, ReaderConstants DEF PlaceTyped, Book!Zooms
<1> DEFINE pushing == c8 \/ jump
<1>5. \/ /\ c8' = FALSE /\ (pushing => Len(c7) < MaxHistory)
         /\ c7' = Append(IF pushing THEN c7 ELSE SubSeq(c7, 1, Len(c7) - 1), c3')
      \/ c8' = pushing /\ UNCHANGED c7
  BY DEF Book!GoesTo
<1>6. pushing \in BOOLEAN
  OBVIOUS
<1> HIDE DEF pushing
<1>7. HistoryTyped'
  BY <1>0, <1>3, <1>5, <1>6, AddressTyped, ReaderUnchanged
<1>8. c8' \in BOOLEAN
  BY <1>5, <1>6
<1> QED
  BY <1>1, <1>4, <1>7, <1>8

LEMMA ReaderPages ==
  ASSUME ReaderFits, ReaderTyped,
         \/ Book!SpreadNav \/ Book!PageInput \/ Book!PairCover \/ Book!JumpAnywhere
         \/ \E m \in {"page", "spread", "pdf"} : Book!SetMode(m)
  PROVE  ReaderTyped'
<1> USE DEF Book!panelVars
<1>0. PlaceTyped /\ HistoryTyped /\ ReaderFlags /\ c3 \in Int /\ c4 \in {"page", "spread", "pdf"} /\ c5 \in {0, 1}
  <2>1. Book!AllPages \subseteq Int
    BY DEF Book!AllPages
  <2> QED
    BY <2>1 DEF ReaderTyped, PlaceTyped
<1>1. ASSUME NEW p \in Int, NEW m \in {"page", "spread", "pdf"}, NEW o \in {0, 1}, NEW jump \in BOOLEAN,
             Book!GoesTo(p, m, o, jump), UNCHANGED Book!panelVars
      PROVE  ReaderTyped'
  <2>1. PlaceTyped' /\ HistoryTyped' /\ UNCHANGED <<c2, c12, c14, c15>> /\ c8' \in BOOLEAN
    BY <1>1, PageTyped
  <2>2. ReaderFlags'
    BY <1>0, <1>1, <2>1 DEF ReaderFlags
  <2>3. PanelTyped' /\ MarksTyped'
    BY <1>1, <2>1, ReaderUnchanged
  <2> QED
    BY <2>1, <2>2, <2>3 DEF ReaderTyped
<1>2. ASSUME Book!SpreadNav PROVE ReaderTyped'
  <2>1. PICK d \in {-1, 1} : Book!Turn(d)
    BY <1>2 DEF Book!SpreadNav
  <2>2. c3 + d * Book!step \in Int
    BY <1>0 DEF Book!step
  <2> QED
    BY <1>0, <1>1, <2>1, <2>2 DEF Book!Turn
<1>3. ASSUME Book!PageInput \/ Book!JumpAnywhere PROVE ReaderTyped'
  <2>1. PICK p \in 1..Book!totalPages : Book!CommitPage(p) \/ Book!Jump(p)
    BY <1>3 DEF Book!PageInput, Book!JumpAnywhere
  <2>2. p \in Int
    OBVIOUS
  <2> QED
    BY <1>0, <1>1, <2>1, <2>2 DEF Book!CommitPage, Book!Jump
<1>4. ASSUME Book!PairCover PROVE ReaderTyped'
  <2>1. 1 - c5 \in {0, 1}
    BY <1>0
  <2> QED
    BY <1>0, <1>1, <1>4, <2>1 DEF Book!PairCover
<1>5. ASSUME NEW m \in {"page", "spread", "pdf"}, Book!SetMode(m) PROVE ReaderTyped'
  <2>1. CASE m = "spread"
    <3>1. Book!GoesTo(c3, m, c5, FALSE) /\ UNCHANGED Book!panelVars
      BY <1>5, <2>1 DEF Book!SetMode
    <3> QED
      BY <1>0, <1>1, <3>1
  <2>2. CASE m # "spread"
    <3>1. /\ c4' = m /\ c8' = FALSE /\ (c8 => Len(c7) < MaxHistory)
          /\ c7' = Append(IF c8 THEN c7 ELSE SubSeq(c7, 1, Len(c7) - 1), c3)
      BY <1>5, <2>2 DEF Book!SetMode
    <3>2. UNCHANGED <<c1, c2, c3, c5, c6, c9, c10, c11, c12, c13, c14, c15>>
      BY <1>5, <2>2 DEF Book!SetMode
    <3>3. c3 \in Book!AllPages /\ c8 \in BOOLEAN
      BY <1>0 DEF PlaceTyped, ReaderFlags
    <3>4. HistoryTyped'
      BY <1>0, <3>1, <3>3, AddressTyped
    <3>5. PlaceTyped'
      BY <1>0, <1>5, <3>1, <3>2, ReaderConstants DEF PlaceTyped, Book!Zooms
    <3>6. ReaderFlags'
      BY <1>0, <3>1, <3>2 DEF ReaderFlags
    <3> QED
      BY <3>2, <3>4, <3>5, <3>6, ReaderUnchanged DEF ReaderTyped
  <2> QED
    BY <2>1, <2>2
<1> QED
  BY <1>2, <1>3, <1>4, <1>5

LEMMA ReaderMounts ==
  ASSUME ReaderFits, ReaderTyped, NEW b \in Book!Versions, Book!SwitchVersion(b)
  PROVE  ReaderTyped'
<1>0. PlaceTyped /\ HistoryTyped /\ MarksTyped
  BY DEF ReaderTyped
<1>1. PICK p \in 1..PageCount[b] : Book!Opens(b, IF c7[Len(c7)] > 1 THEN c7[Len(c7)] ELSE p)
  BY DEF Book!SwitchVersion
<1> DEFINE q == IF c7[Len(c7)] > 1 THEN c7[Len(c7)] ELSE p
<1>2. q \in Book!AllPages
  <2>1. p \in Book!AllPages
    BY LongestBook
  <2>2. c7[Len(c7)] \in Book!AllPages
    <3>1. c7 \in Seq(Book!AllPages) /\ Len(c7) \in 1..Len(c7)
      BY <1>0 DEF HistoryTyped, ReaderFits
    <3> QED
      BY <3>1, ElementOfSeq
  <2> QED
    BY <2>1, <2>2
<1> HIDE DEF q
<1>3. Book!Opens(b, q)
  BY <1>1 DEF q
<1>4. PlaceTyped'
  <2>1. c1' = b /\ c3' = q /\ c4' \in {"page", "spread", "pdf"} /\ c5' \in {0, 1} /\ c6' = "opened" /\ c9' = 1
    BY <1>3 DEF Book!Opens
  <2> QED
    BY <1>2, <2>1, ReaderConstants DEF PlaceTyped, Book!Zooms
<1>5. HistoryTyped'
  <2>1. c7' = <<q>>
    BY <1>3 DEF Book!Opens
  <2>2. <<q>> \in Seq(Book!AllPages) /\ Len(<<q>>) = 1
    BY <1>2
  <2> QED
    BY <2>1, <2>2, ReaderConstants DEF HistoryTyped, ReaderFits
<1>6. ReaderFlags'
  BY <1>3 DEF Book!Opens, ReaderFlags
<1>7. PanelTyped'
  BY <1>3 DEF Book!Opens, PanelTyped, Book!Panels
<1>8. MarksTyped'
  <2>1. c12' = c12 /\ c15' = {}
    BY <1>3 DEF Book!SwitchVersion, Book!Opens
  <2> QED
    BY <1>0, <2>1 DEF MarksTyped
<1> QED
  BY <1>4, <1>5, <1>6, <1>7, <1>8 DEF ReaderTyped

LEMMA ReaderRest ==
  ASSUME ReaderFits, ReaderTyped,
         \/ Book!BookArrives \/ Book!BrowserBack \/ \E z : Book!ZoomTo(z)
         \/ \E p \in Book!Panels : Book!TogglePanel(p)
         \/ Book!ClosePanel \/ Book!Type \/ Book!Searched \/ Book!BookmarkPage
  PROVE  ReaderTyped'
<1> USE DEF Book!placeVars, Book!panelVars
<1>0. PlaceTyped /\ HistoryTyped /\ ReaderFlags /\ PanelTyped
  BY DEF ReaderTyped
<1>1. CASE Book!BookArrives
  <2>1. ReaderFlags'
    BY <1>0, <1>1 DEF Book!BookArrives, ReaderFlags
  <2> QED
    BY <1>1, <2>1, ReaderUnchanged DEF Book!BookArrives, ReaderTyped
<1>2. CASE Book!BrowserBack
  <2>1. Len(c7) > 1 /\ c7' = SubSeq(c7, 1, Len(c7) - 1)
    BY <1>2 DEF Book!BrowserBack
  <2>2. c7 \in Seq(Book!AllPages) /\ Len(c7) \in 1..MaxHistory
    BY <1>0 DEF HistoryTyped
  <2>3. c7' \in Seq(Book!AllPages) /\ Len(c7') = Len(c7) - 1
    BY <2>1, <2>2, ButTheLast
  <2>m. MaxHistory \in Nat
    BY DEF ReaderFits
  <2>4. Len(c7') \in 1..MaxHistory
    BY <2>1, <2>2, <2>3, <2>m
  <2>5. HistoryTyped'
    BY <2>3, <2>4, ReaderConstants DEF HistoryTyped
  <2> QED
    BY <1>2, <2>5, ReaderUnchanged DEF Book!BrowserBack, ReaderTyped
<1>3. ASSUME NEW z, Book!ZoomTo(z) PROVE ReaderTyped'
  <2>1. z \in Book!Zooms /\ c9' = z /\ UNCHANGED <<c1, c3, c4, c5, c6>>
    BY <1>3 DEF Book!ZoomTo
  <2>2. PlaceTyped'
    BY <1>0, <2>1, ReaderConstants DEF PlaceTyped, Book!Zooms
  <2> QED
    BY <1>3, <2>2, ReaderUnchanged DEF Book!ZoomTo, ReaderTyped
<1>4. ASSUME NEW p \in Book!Panels, Book!Opening(p) PROVE ReaderTyped'
  <2>1. PanelTyped' /\ ReaderFlags'
    BY <1>0, <1>4 DEF Book!Opening, PanelTyped, ReaderFlags, Book!Panels
  <2> QED
    BY <1>4, <2>1, ReaderUnchanged DEF Book!Opening, ReaderTyped
<1>5. ASSUME Book!ClosePanel \/ \E p \in Book!Panels : Book!TogglePanel(p) PROVE ReaderTyped'
  <2>1. "none" \in Book!Panels
    BY DEF Book!Panels
  <2> QED
    BY <1>4, <1>5, <2>1 DEF Book!ClosePanel, Book!TogglePanel
<1>6. ASSUME Book!Type \/ Book!Searched PROVE ReaderTyped'
  <2>1. PanelTyped'
    BY <1>0, <1>6 DEF Book!Type, Book!Searched, Book!Finding, PanelTyped, Book!Panels
  <2> QED
    BY <1>6, <2>1, ReaderUnchanged DEF Book!Type, Book!Searched, Book!Finding, ReaderTyped
<1>7. CASE Book!BookmarkPage
  <2>1. ReaderFlags'
    BY <1>0, <1>7 DEF Book!BookmarkPage, Book!Dialog, ReaderFlags
  <2> QED
    BY <1>7, <2>1, ReaderUnchanged DEF Book!BookmarkPage, Book!Dialog, ReaderTyped
<1> QED
  BY <1>1, <1>2, <1>3, <1>5, <1>6, <1>7

LEMMA ReaderMarks ==
  ASSUME ReaderFits, ReaderTyped,
         \/ (Book!BookmarkSidebar /\ ~Book!JumpAnywhere) \/ Book!BookmarkDialog
         \/ \E s \in c15 : Book!MarkWritten(s) \/ Book!MarkFails(s)
  PROVE  ReaderTyped'
<1> USE DEF Book!placeVars, Book!panelVars
<1>0. ReaderFlags /\ PanelTyped /\ MarksTyped
  BY DEF ReaderTyped
<1>m. /\ c12 \in 0..MaxMarks /\ MaxMarks \in Nat
      /\ ("add" \in c15 => c12 < MaxMarks) /\ ("remove" \in c15 => c12 > 0)
  BY <1>0 DEF MarksTyped, ReaderFits
<1>1. ASSUME NEW e \in BOOLEAN, NEW s \in {c15, c15 \union {"edit"}}, Book!Marking(e, s) PROVE ReaderTyped'
  <2>1. PanelTyped' /\ ReaderFlags'
    BY <1>0, <1>1 DEF Book!Marking, PanelTyped, ReaderFlags, Book!Panels
  <2>2. MarksTyped'
    <3>1. c12' = c12 /\ c15' \in {c15, c15 \union {"edit"}}
      BY <1>1 DEF Book!Marking
    <3>2. ("add" \in c15' => "add" \in c15) /\ ("remove" \in c15' => "remove" \in c15)
      BY <3>1
    <3> QED
      BY <1>0, <3>1, <3>2 DEF MarksTyped
  <2> QED
    BY <1>1, <2>1, <2>2, ReaderUnchanged DEF Book!Marking, ReaderTyped
<1>2. ASSUME c12 > 0, Book!DeleteMark PROVE ReaderTyped'
  <2>1. PanelTyped' /\ ReaderFlags'
    BY <1>0, <1>2 DEF Book!DeleteMark, Book!Marking, PanelTyped, ReaderFlags, Book!Panels
  <2>2. c12' = c12 /\ c15' = c15 \union {"remove"}
    BY <1>2 DEF Book!DeleteMark, Book!Marking
  <2>3. MarksTyped'
    BY <1>2, <1>m, <2>2 DEF MarksTyped
  <2> QED
    BY <1>2, <2>1, <2>3, ReaderUnchanged DEF Book!DeleteMark, Book!Marking, ReaderTyped
<1>3. ASSUME Book!BookmarkDialog PROVE ReaderTyped'
  <2>1. PanelTyped' /\ ReaderFlags'
    BY <1>0, <1>3 DEF Book!BookmarkDialog, Book!SaveBookmark, Book!Dialog, PanelTyped, ReaderFlags, Book!Panels
  <2>2. c12' = c12 /\ (c15' = c15 \/ (c15' = c15 \union {"add"} /\ c12 < MaxMarks))
    BY <1>3 DEF Book!BookmarkDialog, Book!SaveBookmark, Book!Dialog
  <2>3. MarksTyped'
    BY <1>m, <2>2 DEF MarksTyped
  <2> QED
    BY <1>3, <2>1, <2>3, ReaderUnchanged DEF Book!BookmarkDialog, Book!SaveBookmark, Book!Dialog, ReaderTyped
<1>4. ASSUME NEW s \in c15, Book!MarkWritten(s) PROVE ReaderTyped'
  <2>1. PanelTyped' /\ ReaderFlags'
    BY <1>0, <1>4 DEF Book!MarkWritten, PanelTyped, ReaderFlags, Book!Panels
  <2>2. /\ c15' = c15 \ {s}
        /\ c12' = CASE s = "add" -> c12 + 1 [] s = "remove" -> c12 - 1 [] OTHER -> c12
    BY <1>4 DEF Book!MarkWritten
  <2>3. MarksTyped'
    <3>1. CASE s = "add"
      BY <1>m, <2>2, <3>1 DEF MarksTyped
    <3>2. CASE s = "remove"
      BY <1>m, <2>2, <3>2 DEF MarksTyped
    <3>3. CASE s # "add" /\ s # "remove"
      BY <1>m, <2>2, <3>3 DEF MarksTyped
    <3> QED
      BY <3>1, <3>2, <3>3
  <2> QED
    BY <1>4, <2>1, <2>3, ReaderUnchanged DEF Book!MarkWritten, ReaderTyped
<1>5. ASSUME NEW s \in c15, Book!MarkFails(s) PROVE ReaderTyped'
  <2>1. PanelTyped'
    BY <1>0, <1>5 DEF Book!MarkFails, PanelTyped, Book!Panels
  <2>2. c12' = c12 /\ c15' = c15 \ {s}
    BY <1>5 DEF Book!MarkFails
  <2>3. MarksTyped'
    BY <1>m, <2>2 DEF MarksTyped
  <2> QED
    BY <1>5, <2>1, <2>3, ReaderUnchanged DEF Book!MarkFails, ReaderTyped
<1>6. ASSUME Book!StartEdit \/ Book!SaveEdit \/ Book!CancelEdit PROVE ReaderTyped'
  BY <1>0, <1>1, <1>6 DEF Book!StartEdit, Book!SaveEdit, Book!CancelEdit, ReaderFlags
<1>7. ASSUME Book!BookmarkSidebar, ~Book!JumpAnywhere PROVE ReaderTyped'
  BY <1>2, <1>6, <1>7, ReaderRest DEF Book!BookmarkSidebar, Book!MarkRow
<1> QED
  BY <1>3, <1>4, <1>5, <1>7

LEMMA ReaderTypedStep == ASSUME ReaderFits, ReaderTyped, Book!Next PROVE ReaderTyped'
<1>1. ASSUME Book!Sidebars PROVE ReaderTyped'
  BY <1>1, ReaderPages, ReaderRest, ReaderMarks
     DEF Book!Sidebars, Book!TocSidebar, Book!SearchSidebar, Book!DetailsSidebar
<1>2. ASSUME Book!MoreMenu PROVE ReaderTyped'
  BY <1>2, ReaderPages, ReaderMounts DEF Book!MoreMenu
<1>3. ASSUME Book!Answers PROVE ReaderTyped'
  BY <1>3, ReaderRest, ReaderMarks DEF Book!Answers
<1>4. ASSUME Book!ZoomCluster \/ Book!PanelButtons \/ Book!BrowserBack \/ Book!BookmarkPage PROVE ReaderTyped'
  BY <1>4, ReaderRest DEF Book!ZoomCluster, Book!PanelButtons
<1> QED
  BY <1>1, <1>2, <1>3, <1>4, ReaderPages, ReaderMarks DEF Book!Next

-----------------------------------------------------------------------------
(* A gallery: c1 arrived, c2 more, c3 collapsed, c4 kept, c5 seeded,        *)
(* c6 opened, c7 mine, c8 grouped, c9 filter, c10 presets, c11 bulk,        *)
(* c12 ids, c13 paths, c14 anchor, c15 applying                             *)

(* No filter at all is one of the filters.                                  *)
GalleryFits == Pages \in Seq(SUBSET Media!Items) /\ Media!Items \in Filters

MediaFlags == \A b \in {c2, c4, c5, c8, c10, c11, c15} : b \in BOOLEAN
FoldTypes == c3 \subseteq Media!Keys /\ c6 \subseteq Media!Keys /\ c7 \subseteq Media!Keys
SeenTypes == c1 \in 0..Len(Pages) /\ c9 \in Filters
TickTypes == c12 \subseteq Media!Items /\ c13 \subseteq Media!Keys /\ c14 \in Media!Items \union {0}
GalleryTyped == MediaFlags /\ FoldTypes /\ SeenTypes /\ TickTypes

LEMMA GalleryTypes == GalleryTyped => Media!GalleryTypeOK
BY DEF GalleryTyped, MediaFlags, FoldTypes, SeenTypes, TickTypes, Media!GalleryTypeOK

LEMMA GalleryBegins == ASSUME GalleryFits, Media!Init PROVE GalleryTyped
<1>1. Len(Pages) \in Nat
  BY DEF GalleryFits
<1>2. MediaFlags
  BY DEF Media!Init, MediaFlags
<1>3. FoldTypes /\ TickTypes
  BY DEF Media!Init, FoldTypes, TickTypes
<1>4. SeenTypes
  BY <1>1 DEF GalleryFits, Media!Init, SeenTypes
<1> QED
  BY <1>2, <1>3, <1>4 DEF GalleryTyped

LEMMA SomePages ==
  ASSUME NEW n \in 0..Len(Pages), Len(Pages) \in Nat
  PROVE  Media!Upto(n) \subseteq Media!Items /\ Media!KeysIn(Media!Upto(n)) \subseteq Media!Keys
<1>1. 1..n \subseteq 1..Len(Pages)
  OBVIOUS
<1>2. Media!Upto(n) \subseteq Media!Items
  BY <1>1 DEF Media!Upto, Media!Items
<1> QED
  BY <1>2 DEF Media!Keys, Media!KeysIn

LEMMA SeenItems ==
  ASSUME GalleryFits, GalleryTyped
  PROVE  Media!Visible \subseteq Media!Items /\ Media!allKeys \subseteq Media!Keys
<1>1. Len(Pages) \in Nat /\ c1 \in 0..Len(Pages)
  BY DEF GalleryFits, GalleryTyped, SeenTypes
<1>2. Media!Visible \subseteq Media!Items
  BY <1>1, SomePages DEF Media!Visible
<1> QED
  BY <1>2 DEF Media!allKeys, Media!Keys, Media!KeysIn

LEMMA CollapseStep ==
  ASSUME GalleryTyped, NEW S \in SUBSET Media!Keys, NEW o \in SUBSET Media!Keys, NEW m \in SUBSET Media!Keys,
         Media!Collapse(S, o, m)
  PROVE  GalleryTyped'
BY DEF Media!Collapse, Media!pickVars, GalleryTyped, MediaFlags, FoldTypes, SeenTypes, TickTypes

LEMMA TickStep ==
  ASSUME GalleryTyped, NEW b \in BOOLEAN, NEW i \in SUBSET Media!Items, NEW p \in SUBSET Media!Keys,
         NEW a \in Media!Items \union {0}, Media!Pick(b, i, p, a)
  PROVE  GalleryTyped'
BY DEF Media!Pick, Media!loadVars, GalleryTyped, MediaFlags, FoldTypes, SeenTypes, TickTypes

LEMMA GallerySet ==
  ASSUME GalleryTyped, NEW f \in Filters, Media!SetFilter(f)
  PROVE  GalleryTyped'
BY DEF Media!SetFilter, Media!loadVars, Media!pickVars, GalleryTyped, MediaFlags, FoldTypes, SeenTypes, TickTypes

LEMMA GalleryLoads ==
  ASSUME GalleryFits, GalleryTyped,
         Media!PageArrives \/ Media!LoadFails \/ Media!PresetsArrive \/ Media!Applied \/ Media!Leave
  PROVE  GalleryTyped'
<1> USE DEF GalleryTyped, MediaFlags, FoldTypes, SeenTypes, TickTypes
<1>1. CASE Media!PageArrives
  <2>1. c1' \in 0..Len(Pages) /\ Len(Pages) \in Nat /\ c2' \in BOOLEAN
    BY <1>1 DEF Media!PageArrives, GalleryFits
  <2>2. Media!KeysIn(Media!Upto(c1')) \subseteq Media!Keys
    BY <2>1, SomePages
  <2>3. c3' \subseteq Media!Keys /\ c5' \in BOOLEAN /\ c4' \in BOOLEAN /\ UNCHANGED <<c6, c7>>
    BY <1>1, <2>2 DEF Media!PageArrives, Media!Shut
  <2> QED
    BY <1>1, <2>1, <2>3 DEF Media!PageArrives, Media!pickVars
<1>2. CASE Media!LoadFails
  BY <1>2 DEF Media!LoadFails, Media!pickVars
<1>3. CASE Media!PresetsArrive
  BY <1>3 DEF Media!PresetsArrive, Media!loadVars, Media!pickVars
<1>4. CASE Media!Applied
  BY <1>4 DEF Media!Applied, Media!loadVars
<1>5. CASE Media!Leave
  <2>1. Len(Pages) \in Nat
    BY DEF GalleryFits
  <2>2. MediaFlags'
    BY <1>5 DEF Media!Leave, Media!Mounted
  <2>3. FoldTypes' /\ TickTypes'
    BY <1>5 DEF Media!Leave, Media!Mounted
  <2>4. SeenTypes'
    BY <1>5, <2>1 DEF Media!Leave, Media!Mounted, GalleryFits
  <2> QED
    BY <2>2, <2>3, <2>4
<1> QED
  BY <1>1, <1>2, <1>3, <1>4, <1>5

LEMMA GalleryFolds ==
  ASSUME GalleryFits, GalleryTyped, Media!Toolbar \/ Media!FolderHeader
  PROVE  GalleryTyped'
<1>t. /\ c3 \subseteq Media!Keys /\ c6 \subseteq Media!Keys /\ c7 \subseteq Media!Keys /\ c13 \subseteq Media!Keys
      /\ c12 \subseteq Media!Items /\ c14 \in Media!Items \union {0}
  BY DEF GalleryTyped, FoldTypes, TickTypes
<1>1. CASE Media!CollapseAll
  BY <1>t, <1>1, SeenItems, CollapseStep DEF Media!CollapseAll
<1>2. CASE Media!ExpandAll
  BY <1>t, <1>2, CollapseStep DEF Media!ExpandAll
<1>3. CASE Media!Group
  BY <1>3 DEF Media!Group, Media!loadVars, Media!pickVars, GalleryTyped, MediaFlags, FoldTypes, SeenTypes, TickTypes
<1>4. ASSUME NEW k \in Media!allKeys, Media!ToggleCollapse(k) PROVE GalleryTyped'
  <2>1. k \in Media!Keys
    BY SeenItems
  <2>2. CASE k \in c3
    <3>1. Media!Collapse(c3 \ {k}, c6 \union {k}, c7 \union {k})
      BY <1>4, <2>2 DEF Media!ToggleCollapse
    <3> QED
      BY <1>t, <2>1, <3>1, CollapseStep
  <2>3. CASE k \notin c3
    <3>1. Media!Collapse(c3 \union {k}, c6 \ {k}, c7 \ {k})
      BY <1>4, <2>3 DEF Media!ToggleCollapse
    <3> QED
      BY <1>t, <2>1, <3>1, CollapseStep
  <2> QED
    BY <2>2, <2>3
<1>5. ASSUME NEW k \in Media!allKeys, Media!ToggleFolder(k) PROVE GalleryTyped'
  <2> DEFINE its == {i \in Media!Visible : k \in KeysOf[i]}
  <2>1. k \in Media!Keys /\ its \subseteq Media!Items
    BY SeenItems
  <2>2. \/ Media!Pick(TRUE, c12 \ its, c13 \ {k}, c14)
        \/ Media!Pick(TRUE, c12 \union its, c13 \union {k}, c14)
    BY <1>5 DEF Media!ToggleFolder
  <2> HIDE DEF its
  <2> QED
    BY <1>t, <2>1, <2>2, TickStep
<1> QED
  BY <1>1, <1>2, <1>3, <1>4, <1>5 DEF Media!Toolbar, Media!FolderHeader

LEMMA GalleryPicks ==
  ASSUME GalleryFits, GalleryTyped, Media!Card \/ Media!BulkBar \/ Media!SortFilterBar \/ Media!SavedMenu
  PROVE  GalleryTyped'
<1>t. c12 \subseteq Media!Items /\ c13 \subseteq Media!Keys /\ c14 \in Media!Items \union {0} /\ Media!Items \in Filters
  BY DEF GalleryFits, GalleryTyped, TickTypes
<1>1. ASSUME NEW i \in Media!Visible, NEW shift \in BOOLEAN, Media!ToggleItem(i, shift) PROVE GalleryTyped'
  <2> DEFINE now == IF shift /\ c14 \in Media!Visible THEN c12 \union Media!Between(i) ELSE Media!Flip(c12, i)
             a == IF shift THEN c14 ELSE i
  <2>1. now \in SUBSET Media!Items /\ a \in Media!Items \union {0}
    BY <1>t, SeenItems DEF Media!Between, Media!Flip
  <2>2. Media!Pick(TRUE, now, c13, a)
    BY <1>1 DEF Media!ToggleItem
  <2> HIDE DEF now, a
  <2> QED
    BY <1>t, <2>1, <2>2, TickStep
<1>2. CASE Media!Card
  BY <1>1, <1>2, GalleryLoads DEF Media!Card
<1>3. CASE Media!EnterBulk
  BY <1>t, <1>3, TickStep DEF Media!EnterBulk
<1>4. CASE Media!ExitBulk
  BY <1>t, <1>4, TickStep DEF Media!ExitBulk
<1>5. CASE Media!ApplyTags
  BY <1>5 DEF Media!ApplyTags, Media!loadVars, GalleryTyped, MediaFlags, FoldTypes, SeenTypes, TickTypes
<1>6. CASE Media!SortFilterBar
  BY <1>t, <1>3, <1>4, <1>6, GallerySet
  DEF Media!SortFilterBar, Media!FilterModal, Media!TagQueryEditor, Media!ClearFilters
<1>7. CASE Media!SavedMenu
  BY <1>7, GallerySet DEF Media!SavedMenu, Media!Preset
<1> QED
  BY <1>2, <1>4, <1>5, <1>6, <1>7 DEF Media!BulkBar

LEMMA GalleryTypedStep ==
  ASSUME GalleryFits, GalleryTyped, Media!Next
  PROVE  GalleryTyped'
BY GalleryLoads, GalleryFolds, GalleryPicks
DEF Media!Next, Media!Layout, Media!Subfolders, Media!ListRow

-----------------------------------------------------------------------------
(* The page of an item: c1 kind, c2 route, c3 shown, c4 gets, c5 siblings,  *)
(* c6 fetched, c7 fetches, c8 editor, c9 saves. What is edited is shown.    *)

ItemGets == Item!Items \X BOOLEAN
PlaceTypes == c1 \in Item!Kinds /\ c2 \in Item!Items /\ c3 \in Item!Items \union {0}
GetTypes ==
  /\ c4 \subseteq ItemGets /\ c5 \subseteq Item!Items
  /\ c6 \in Item!Folders \union {0} /\ c7 \subseteq Item!Folders
EditTypes ==
  /\ c8 \in [what : {"tags", "folder", "grid", "metadata"}, of : Item!Items] \union {Item!Closed}
  /\ c9 \subseteq [what : {"tags", "folder", "flag", "cover", "progress"}, of : Item!Items]
  /\ c8 # Item!Closed => c3 # 0
ItemTyped == PlaceTypes /\ GetTypes /\ EditTypes

LEMMA ItemTypes == ItemTyped => Item!DetailTypeOK
BY DEF ItemTyped, PlaceTypes, GetTypes, EditTypes, ItemGets, Item!DetailTypeOK

LEMMA ItemGet == ASSUME NEW i \in Item!Items, NEW b \in BOOLEAN PROVE <<i, b>> \in ItemGets
BY DEF ItemGets

LEMMA ItemBegins == Item!Init => ItemTyped
BY ItemGet DEF Item!Init, Item!Mounted, ItemTyped, PlaceTypes, GetTypes, EditTypes

LEMMA ItemShown ==
  ASSUME GetTypes, NEW i \in Item!Items, Item!Shows(i)
  PROVE  /\ c3' \in Item!Items /\ c3' # 0
         /\ c6' \in Item!Folders \union {0} /\ c7' \subseteq Item!Folders
<1>1. FolderOf[i] \in Item!Folders /\ i # 0
  BY DEF Item!Folders, Item!Items
<1> QED
  BY <1>1 DEF Item!Shows, GetTypes

LEMMA ItemGoes ==
  ASSUME ItemTyped, NEW i \in Item!Items, Item!Goes(i)
  PROVE  ItemTyped'
BY ItemGet DEF Item!Goes, ItemTyped, PlaceTypes, GetTypes, EditTypes

LEMMA ItemAnswered ==
  ASSUME ItemTyped, Item!Answers
  PROVE  ItemTyped'
<1> USE DEF ItemTyped, PlaceTypes, GetTypes, EditTypes
<1>1. ASSUME NEW i \in Item!Items, NEW grid \in BOOLEAN, Item!Arrives(i, grid) PROVE ItemTyped'
  BY <1>1, ItemShown DEF Item!Arrives
<1>2. ASSUME NEW f \in Item!Folders, Item!SiblingsArrive(f) PROVE ItemTyped'
  <2>1. c5' \subseteq Item!Items /\ c6' \in Item!Folders \union {0}
    BY <1>2 DEF Item!SiblingsArrive
  <2> QED
    BY <1>2, <2>1 DEF Item!SiblingsArrive
<1>3. ASSUME NEW s \in c9, Item!SaveFails(s) PROVE ItemTyped'
  BY <1>3 DEF Item!SaveFails
<1>4. ASSUME NEW s \in c9, Item!Saved(s) PROVE ItemTyped'
  <2>0. s.of \in Item!Items
    OBVIOUS
  <2>1. CASE s.what = "cover"
    <3>1. /\ c4' = c4 \union {<<s.of, FALSE>>} /\ UNCHANGED <<c3, c6, c7, c8>>
          /\ c9' \subseteq c9 /\ UNCHANGED <<c1, c2, c5>>
      BY <1>4, <2>1 DEF Item!Saved
    <3>2. <<s.of, FALSE>> \in ItemGets
      BY <2>0, ItemGet
    <3> QED
      BY <3>1, <3>2
  <2>2. CASE s.what = "progress"
    BY <1>4, <2>2 DEF Item!Saved
  <2>3. CASE s.what \notin {"cover", "progress"}
    <3>1. Item!Shows(s.of) /\ c8' = (IF c8.what = s.what THEN Item!Closed ELSE c8) /\ c4' = c4
      BY <1>4, <2>3 DEF Item!Saved
    <3>2. c9' \subseteq c9 /\ UNCHANGED <<c1, c2, c5>>
      BY <1>4 DEF Item!Saved
    <3> QED
      BY <2>0, <3>1, <3>2, ItemShown
  <2> QED
    BY <2>1, <2>2, <2>3
<1> QED
  BY <1>1, <1>2, <1>3, <1>4 DEF Item!Answers

LEMMA ItemEdited ==
  ASSUME ItemTyped,
         \/ Item!Tags \/ Item!Edit("grid") \/ Item!Edit("metadata") \/ Item!ReloadMap
         \/ Item!ToggleFlag \/ Item!SetCover \/ Item!MarkNotStarted \/ Item!AudiobookEditing
  PROVE  ItemTyped'
<1> USE DEF ItemTyped, PlaceTypes, GetTypes, EditTypes
<1>1. ASSUME NEW what \in {"tags", "folder", "grid", "metadata"}, Item!Edit(what) PROVE ItemTyped'
  <2>1. [what |-> what, of |-> c3] \in [what : {"tags", "folder", "grid", "metadata"}, of : Item!Items]
    BY <1>1 DEF Item!Edit
  <2> QED
    BY <1>1, <2>1 DEF Item!Edit
<1>2. ASSUME Item!Cancel PROVE ItemTyped'
  BY <1>2 DEF Item!Cancel
<1>3. ASSUME NEW what \in {"tags", "folder", "flag", "progress"}, c3 # 0, Item!Write(what) PROVE ItemTyped'
  <2>1. [what |-> what, of |-> c3] \in [what : {"tags", "folder", "flag", "cover", "progress"}, of : Item!Items]
    BY <1>3
  <2> QED
    BY <1>3, <2>1 DEF Item!Write
<1>4. CASE Item!Tags
  <2>1. c8.what \in {"tags", "folder"} => c3 # 0
    BY DEF Item!Closed
  <2> QED
    BY <1>1, <1>2, <1>3, <1>4, <2>1 DEF Item!Tags, Item!SaveTags, Item!SaveFolderTags
<1>5. CASE Item!ToggleFlag \/ Item!MarkNotStarted
  BY <1>3, <1>5 DEF Item!ToggleFlag, Item!MarkNotStarted
<1>6. CASE Item!SetCover
  BY <1>6 DEF Item!SetCover
<1>7. CASE Item!ReloadMap
  BY <1>7, ItemGet DEF Item!ReloadMap
<1>8. CASE Item!AudiobookEditing
  BY <1>2, <1>8, ItemGet DEF Item!AudiobookEditing, Item!MetadataSaved, Item!ChaptersApplied, Item!Converted
<1> QED
  BY <1>1, <1>4, <1>5, <1>6, <1>7, <1>8

LEMMA ItemStep ==
  ASSUME ItemTyped, Item!Next
  PROVE  ItemTyped'
<1>1. ASSUME NEW d, Item!Step(d) PROVE ItemTyped'
  <2>1. PICK i \in Item!Neighbours(d) : Item!Goes(i)
    BY <1>1 DEF Item!Step
  <2>2. i \in Item!Items
    BY <2>1 DEF Item!Neighbours, ItemTyped, GetTypes
  <2> QED
    BY <2>1, <2>2, ItemGoes
<1>2. CASE Item!Toolbar
  <2>1. CASE Item!Leave
    BY <2>1, ItemGet DEF Item!Leave, ItemTyped, PlaceTypes, GetTypes, EditTypes
  <2> QED
    BY <1>2, <2>1, ItemGoes DEF Item!Toolbar, Item!Open
<1> QED
  BY <1>1, <1>2, ItemAnswered, ItemEdited
  DEF Item!Next, Item!Steps, Item!MapPage, Item!MapDetails, Item!TokenPage, Item!TokenDetails,
      Item!ModelPage, Item!ModelDetails, Item!AudioPage, Item!AudioDetails, Item!AudiobookPage,
      Item!AudiobookDetails

-----------------------------------------------------------------------------
(* The editor of an audiobook: c1 mp3, c2 open, c3 picked, c4 busy,         *)
(* c5 joined, c6 convert, c7 detect, c8 review, c9 typing, c10 nextKey      *)

EditorFlags ==
  /\ c1 \in BOOLEAN /\ c2 \in BOOLEAN /\ c3 \in BOOLEAN /\ c5 \in BOOLEAN
  /\ c4 \subseteq {"search", "save", "apply"}
  /\ c6 \in [at : Chapters!Polls, picked : BOOLEAN] \union {Chapters!Off}
(* One detection runs at a time, and nothing is listed while one does.      *)
DetectTyped ==
  /\ c7 \subseteq [at : Chapters!Polls, auto : BOOLEAN, n : 1..2]
  /\ \A d, e \in c7 : d = e
  /\ c7 # {} => ~c8.list
(* Rows are told apart by their keys, which are never given twice; there is *)
(* one for every minute that was found, and for every one added by hand.    *)
KeysDiffer(rows) == IsInjective(rows) /\ \A r, q \in Entries(rows) : r.key = q.key => r = q
RowsTyped ==
  /\ c10 \in (-MaxRows - 1)..(-1)
  /\ KeysDiffer(c8.rows)
  /\ \A r \in Entries(c8.rows) : r.key > c10
  /\ Len(c8.rows) + c10 < Duration
TypingTyped ==
  c9 # Chapters!NotTyping => c8.list /\ c9 \in [key : Chapters!Keys(c8.rows), time : Chapters!Times]
EditorRest == EditorFlags /\ DetectTyped /\ RowsTyped /\ TypingTyped
ChaptersTyped == ChaptersKept /\ EditorRest
EditorFits == Duration \in Nat /\ MaxRows \in Nat

LEMMA SameEntries == \A s : Chapters!ToSet(s) = Entries(s)
BY DEF Chapters!ToSet, Entries

LEMMA RowsByPlace ==
  ASSUME NEW rows \in Seq(Chapters!ReviewRows)
  PROVE  KeysDiffer(rows) <=> \A i, j \in 1..Len(rows) : rows[i].key = rows[j].key => i = j
<1>1. DOMAIN rows = 1..Len(rows)
  BY LenProperties
<1>2. ASSUME KeysDiffer(rows), NEW i \in 1..Len(rows), NEW j \in 1..Len(rows), rows[i].key = rows[j].key
      PROVE  i = j
  <2>1. rows[i] \in Entries(rows) /\ rows[j] \in Entries(rows)
    BY <1>1 DEF Entries
  <2>2. rows[i] = rows[j]
    BY <1>2, <2>1 DEF KeysDiffer
  <2> QED
    BY <1>1, <1>2, <2>2 DEF KeysDiffer, IsInjective
<1>3. ASSUME \A i, j \in 1..Len(rows) : rows[i].key = rows[j].key => i = j
      PROVE  KeysDiffer(rows)
  <2>1. IsInjective(rows)
    BY <1>1, <1>3 DEF IsInjective
  <2>2. \A r, q \in Entries(rows) : r.key = q.key => r = q
    BY <1>1, <1>3 DEF Entries
  <2> QED
    BY <2>1, <2>2 DEF KeysDiffer
<1> QED
  BY <1>2, <1>3

LEMMA AsManyKeys ==
  ASSUME NEW rows \in Seq(Chapters!ReviewRows), KeysDiffer(rows)
  PROVE  Cardinality(Chapters!Keys(rows)) = Len(rows)
<1> DEFINE n == Len(rows)
           f == [i \in 1..n |-> rows[i].key]
           K == Chapters!Keys(rows)
<1>1. n \in Nat /\ DOMAIN rows = 1..n
  BY LenProperties
<1>2. \A i, j \in 1..n : rows[i].key = rows[j].key => i = j
  BY RowsByPlace
<1>3. K = {rows[i].key : i \in 1..n}
  BY <1>1 DEF Chapters!Keys, Chapters!ToSet
<1>4. f \in [1..n -> K] /\ (\A i, j \in 1..n : f[i] = f[j] => i = j)
  BY <1>2, <1>3
<1>5. \A k \in K : \E i \in 1..n : f[i] = k
  BY <1>3
<1> HIDE DEF f, K
<1>6. f \in Injection(1..n, K) /\ f \in Surjection(1..n, K)
  BY <1>4, <1>5 DEF Injection, Surjection, IsInjective
<1>7. IsFiniteSet(1..n) /\ Cardinality(1..n) = n
  BY <1>1, FS_Interval
<1>8. Cardinality(K) = n
  BY <1>6, <1>7, FS_Surjection
<1> QED
  BY <1>8 DEF K

LEMMA EditorTypes == EditorFits /\ ChaptersTyped => Chapters!EditorTypeOK
<1> SUFFICES ASSUME EditorFits, ChaptersTyped PROVE Chapters!EditorTypeOK
  OBVIOUS
<1>1. c8 \in [list : BOOLEAN, rows : Seq(Chapters!ReviewRows)] /\ c8.rows \in Seq(Chapters!ReviewRows)
  BY DEF ChaptersTyped, ChaptersKept
<1>2. Len(c8.rows) <= MaxRows + Duration + 1
  <2>1. Len(c8.rows) \in Nat
    BY <1>1, LenProperties
  <2> QED
    BY <2>1 DEF ChaptersTyped, EditorRest, RowsTyped, EditorFits
<1>3. Chapters!Cardinality(Chapters!Keys(c8.rows)) = Len(c8.rows)
  BY <1>1, AsManyKeys, SameArrays DEF ChaptersTyped, EditorRest, RowsTyped
<1>4. c9 \in [key : Chapters!Keys(c8.rows), time : Chapters!Times] \union {Chapters!NotTyping}
  BY DEF ChaptersTyped, EditorRest, TypingTyped
<1>5. c10 \in (-MaxRows - 1)..(-1)
  BY DEF ChaptersTyped, EditorRest, RowsTyped
<1>6. EditorFlags /\ c7 \subseteq [at : Chapters!Polls, auto : BOOLEAN, n : 1..2]
  BY DEF ChaptersTyped, EditorRest, DetectTyped
<1> QED
  BY <1>1, <1>2, <1>3, <1>4, <1>5, <1>6 DEF EditorFlags, Chapters!EditorTypeOK

LEMMA EditorUnchanged ==
  ASSUME EditorRest
  PROVE  /\ UNCHANGED <<c1, c2, c3, c4, c5, c6>> => EditorFlags'
         /\ UNCHANGED <<c7, c8>> => DetectTyped'
         /\ UNCHANGED <<c8, c10>> => RowsTyped'
         /\ UNCHANGED <<c8, c9>> => TypingTyped'
<1>1. ASSUME UNCHANGED <<c1, c2, c3, c4, c5, c6>> PROVE EditorFlags'
  BY <1>1 DEF EditorRest, EditorFlags, Chapters!Polls, Chapters!Off
<1>2. ASSUME UNCHANGED <<c7, c8>> PROVE DetectTyped'
  BY <1>2 DEF EditorRest, DetectTyped, Chapters!Polls
<1>3. ASSUME UNCHANGED <<c8, c10>> PROVE RowsTyped'
  BY <1>3 DEF EditorRest, RowsTyped, KeysDiffer, Entries, IsInjective
<1>4. ASSUME UNCHANGED <<c8, c9>> PROVE TypingTyped'
  BY <1>4 DEF EditorRest, TypingTyped, Chapters!NotTyping, Chapters!Times, Chapters!Keys, Chapters!ToSet
<1> QED
  BY <1>1, <1>2, <1>3, <1>4

(* The list goes away.                                                      *)
LEMMA ListGone ==
  ASSUME EditorFits, EditorRest, c8' = Chapters!NoList, c9' = Chapters!NotTyping
  PROVE  /\ c10' = c10 => RowsTyped'
         /\ TypingTyped'
         /\ c7' \subseteq c7 => DetectTyped'
<1>1. c8'.rows = <<>> /\ c8'.list = FALSE /\ Len(c8'.rows) = 0
  BY DEF Chapters!NoList
<1>2. KeysDiffer(c8'.rows) /\ Entries(c8'.rows) = {}
  BY <1>1 DEF KeysDiffer, IsInjective, Entries
<1>3. ASSUME c10' = c10 PROVE RowsTyped'
  <2>1. c10' \in (-MaxRows - 1)..(-1)
    BY <1>3 DEF EditorRest, RowsTyped
  <2>2. Len(c8'.rows) + c10' < Duration
    <3>1. c10 \in (-MaxRows - 1)..(-1)
      BY DEF EditorRest, RowsTyped
    <3>2. 0 + c10 < Duration
      BY <3>1 DEF EditorFits
    <3> QED
      BY <1>1, <1>3, <3>2
  <2>3. KeysDiffer(c8.rows)'
    BY <1>1, <1>2 DEF KeysDiffer, Entries
  <2>4. \A r \in Entries(c8'.rows) : r.key > c10'
    BY <1>2
  <2> QED
    BY <2>1, <2>2, <2>3, <2>4 DEF RowsTyped, Entries
<1>4. TypingTyped'
  BY DEF TypingTyped
<1>5. ASSUME c7' \subseteq c7 PROVE DetectTyped'
  BY <1>1, <1>5 DEF EditorRest, DetectTyped, Chapters!Polls
<1> QED
  BY <1>3, <1>4, <1>5

LEMMA EditorBegins == ASSUME EditorFits, Chapters!Init PROVE ChaptersTyped
<1>1. ChaptersKept
  <2>1. c8 = Chapters!NoList /\ c9 = Chapters!NotTyping /\ c10 = -1 /\ c11 = <<>>
    BY DEF Chapters!Init
  <2>2. c11 \in Seq([start : Int, end : Int]) /\ Chapters!SentInOrder
    BY <2>1 DEF Chapters!SentInOrder
  <2>3. c8 \in Review /\ Typed(c9)
    BY <2>1, NoReview
  <2>4. c10 \in Int
    BY <2>1
  <2> QED BY <2>2, <2>3, <2>4 DEF ChaptersKept, Review, Typed
<1>2. EditorFlags
  BY DEF Chapters!Init, EditorFlags, Chapters!Off
<1>3. DetectTyped
  BY DEF Chapters!Init, DetectTyped, Chapters!NoList
<1>4. RowsTyped
  <2>1. c8.rows = <<>> /\ Len(c8.rows) = 0 /\ c10 = -1
    BY DEF Chapters!Init, Chapters!NoList
  <2>2. KeysDiffer(c8.rows) /\ Entries(c8.rows) = {}
    BY <2>1 DEF KeysDiffer, IsInjective, Entries
  <2> QED
    BY <2>1, <2>2 DEF RowsTyped, EditorFits
<1>5. TypingTyped
  BY DEF Chapters!Init, TypingTyped
<1> QED
  BY <1>1, <1>2, <1>3, <1>4, <1>5 DEF ChaptersTyped, EditorRest

(* Rows that the user has worked on are listed in place of the others.      *)
LEMMA RowsListed ==
  ASSUME ChaptersTyped, NEW rows, Chapters!Rows(rows), c1' = c1
  PROVE  /\ c8'.rows = rows /\ c8'.list /\ EditorFlags' /\ DetectTyped'
<1>1. c8 \in [list : BOOLEAN, rows : Seq(Chapters!ReviewRows)]
  BY DEF ChaptersTyped, ChaptersKept
<1>2. c8.list /\ c8' = [c8 EXCEPT !.rows = rows] /\ UNCHANGED <<c1, c2, c3, c4, c5, c6, c7>>
  BY DEF Chapters!Rows
<1>3. c8'.rows = rows /\ c8'.list
  BY <1>1, <1>2
<1>4. c7 = {}
  BY <1>2 DEF ChaptersTyped, EditorRest, DetectTyped
<1>5. DetectTyped'
  BY <1>2, <1>4 DEF DetectTyped
<1>6. EditorFlags'
  BY <1>2, EditorUnchanged DEF ChaptersTyped
<1> QED
  BY <1>3, <1>5, <1>6

LEMMA RowsAre ==
  ASSUME NEW rows, c8'.rows = rows, KeysDiffer(rows), c10' \in (-MaxRows - 1)..(-1),
         \A r \in Entries(rows) : r.key > c10', Len(rows) + c10' < Duration
  PROVE  RowsTyped'
BY DEF RowsTyped, KeysDiffer, Entries, IsInjective

LEMMA EditedRows ==
  ASSUME ChaptersTyped, ChaptersKept', c1' = c1, NEW key, NEW field \in {"start", "titled"}, NEW value,
         Chapters!Edited(key, field, value)
  PROVE  EditorFlags' /\ DetectTyped' /\ RowsTyped'
<1> DEFINE l == c8.rows
           r == [i \in DOMAIN l |-> IF l[i].key = key THEN [l[i] EXCEPT ![field] = value] ELSE l[i]]
           n == Len(l)
<1>1. Chapters!Rows(r) /\ c10' = c10
  BY DEF Chapters!Edited
<1>2. l \in Seq(Chapters!ReviewRows) /\ n \in Nat /\ DOMAIN l = 1..n /\ \A i \in 1..n : l[i] \in Chapters!ReviewRows
  <2>1. l \in Seq(Chapters!ReviewRows)
    BY DEF ChaptersTyped, ChaptersKept
  <2> QED
    BY <2>1, LenProperties, ElementOfSeq
<1>3. KeysDiffer(l) /\ (\A q \in Entries(l) : q.key > c10) /\ n + c10 < Duration /\ c10 \in (-MaxRows - 1)..(-1)
  BY DEF ChaptersTyped, EditorRest, RowsTyped
<1> HIDE DEF l
<1>4. \A i \in 1..n : r[i].key = l[i].key
  <2>1. ASSUME NEW x \in Chapters!ReviewRows PROVE [x EXCEPT ![field] = value].key = x.key
    BY DEF Chapters!ReviewRows
  <2> QED
    BY <1>2, <2>1
<1>5. DOMAIN r = 1..n
  BY <1>2
<1> HIDE DEF r
<1>6. c8'.rows = r /\ EditorFlags' /\ DetectTyped'
  BY <1>1, RowsListed
<1>7. r \in Seq(Chapters!ReviewRows)
  BY <1>6 DEF ChaptersKept
<1>8. Len(r) = n
  BY <1>2, <1>5, <1>7, LenProperties
<1> HIDE DEF n
<1>9. KeysDiffer(r)
  <2>1. \A i, j \in 1..n : l[i].key = l[j].key => i = j
    BY <1>2, <1>3, RowsByPlace DEF n
  <2> QED
    BY <1>4, <1>7, <1>8, <2>1, RowsByPlace
<1>10. \A q \in Entries(r) : q.key > c10'
  BY <1>1, <1>2, <1>3, <1>4, <1>5 DEF Entries
<1>11. RowsTyped'
  BY <1>1, <1>3, <1>6, <1>8, <1>9, <1>10, RowsAre
<1> QED
  BY <1>6, <1>11

LEMMA EditorRow ==
  ASSUME EditorFits, ChaptersTyped, ChaptersKept', c1' = c1,
         NEW key \in Chapters!Keys(c8.rows), Chapters!ReviewRow(key)
  PROVE  EditorRest'
<1>1. ASSUME NEW time \in Chapters!Times, Chapters!TypeTime(key, time) PROVE EditorRest'
  <2>1. c8.list /\ c9' = [key |-> key, time |-> time] /\ UNCHANGED <<c1, c2, c3, c4, c5, c6, c7, c8, c10>>
    BY <1>1 DEF Chapters!TypeTime
  <2>2. TypingTyped'
    BY <2>1 DEF TypingTyped, Chapters!Times, Chapters!Keys, Chapters!ToSet
  <2> QED
    BY <2>1, <2>2, EditorUnchanged DEF ChaptersTyped, EditorRest
<1>2. CASE Chapters!LeaveTime(key)
  <2>1. c9' = Chapters!NotTyping /\ Chapters!Edited(key, "start", c9.time)
    BY <1>2 DEF Chapters!LeaveTime
  <2>2. TypingTyped'
    BY <2>1 DEF TypingTyped, Chapters!NotTyping
  <2>3. EditorFlags' /\ DetectTyped' /\ RowsTyped'
    BY <2>1, EditedRows
  <2> QED
    BY <2>2, <2>3 DEF EditorRest
<1>3. CASE Chapters!RemoveRow(key)
  <2> DEFINE keep == {r \in Chapters!ToSet(c8.rows) : r.key # key}
             rows == Filtered(c8.rows, keep)
  <2>1. Chapters!Rows(rows) /\ c9' = Chapters!NotTyping /\ c10' = c10
    BY <1>3, SameArrays DEF Chapters!RemoveRow, Chapters!Idle
  <2> HIDE DEF keep
  <2>2. c8.rows \in Seq(Chapters!ReviewRows)
    BY DEF ChaptersTyped, ChaptersKept
  <2>3. /\ rows \in Seq(Chapters!ReviewRows) /\ Entries(rows) = Entries(c8.rows) \intersect keep
        /\ IsInjective(c8.rows) => IsInjective(rows)
        /\ Len(rows) <= Len(c8.rows)
    BY <2>2, FilterKeeps
  <2> HIDE DEF rows
  <2>4. KeysDiffer(c8.rows) /\ (\A q \in Entries(c8.rows) : q.key > c10)
        /\ Len(c8.rows) + c10 < Duration /\ c10 \in (-MaxRows - 1)..(-1)
    BY DEF ChaptersTyped, EditorRest, RowsTyped
  <2>5. KeysDiffer(rows) /\ \A q \in Entries(rows) : q.key > c10'
    BY <2>1, <2>3, <2>4 DEF KeysDiffer
  <2>6. Len(rows) + c10 < Duration
    <3>1. Len(rows) \in Nat /\ Len(c8.rows) \in Nat
      BY <2>2, <2>3, LenProperties
    <3>2. c10 \in Int /\ Duration \in Int
      BY <2>4 DEF EditorFits
    <3> QED
      BY <2>3, <2>4, <3>1, <3>2
  <2>7. c8'.rows = rows /\ EditorFlags' /\ DetectTyped'
    BY <2>1, RowsListed
  <2>8. RowsTyped'
    BY <2>1, <2>4, <2>5, <2>6, <2>7, RowsAre
  <2>9. TypingTyped'
    BY <2>1 DEF TypingTyped, Chapters!NotTyping
  <2> QED
    BY <2>7, <2>8, <2>9 DEF EditorRest
<1>4. ASSUME NEW titled \in BOOLEAN, Chapters!TypeTitle(key, titled) PROVE EditorRest'
  <2>1. c9' = Chapters!NotTyping /\ Chapters!Edited(key, "titled", titled)
    BY <1>4 DEF Chapters!TypeTitle, Chapters!Idle
  <2>2. TypingTyped'
    BY <2>1 DEF TypingTyped, Chapters!NotTyping
  <2>3. EditorFlags' /\ DetectTyped' /\ RowsTyped'
    BY <2>1, EditedRows
  <2> QED
    BY <2>2, <2>3 DEF EditorRest
<1> QED
  BY <1>1, <1>2, <1>3, <1>4 DEF Chapters!ReviewRow

LEMMA EditorAddsRow ==
  ASSUME EditorFits, ChaptersTyped, c1' = c1, Chapters!AddRow
  PROVE  EditorRest'
<1>1. PICK at \in Chapters!Times :
        /\ Chapters!Rows(Append(c8.rows, Chapters!Row(c10, FALSE, at)))
        /\ c9' = Chapters!NotTyping /\ c10' = c10 - 1 /\ c10 > -MaxRows - 1
  BY DEF Chapters!AddRow, Chapters!Idle
<1> DEFINE row == Chapters!Row(c10, FALSE, at)
           rows == Append(c8.rows, row)
<1>2. c8.rows \in Seq(Chapters!ReviewRows) /\ c10 \in (-MaxRows - 1)..(-1)
  BY DEF ChaptersTyped, ChaptersKept, EditorRest, RowsTyped
<1>n. c10 \in Int /\ c10 <= -1 /\ MaxRows \in Nat
  BY <1>2 DEF EditorFits
<1>3. row \in Chapters!ReviewRows /\ row.key = c10
  BY <1>n DEF Chapters!Row, Chapters!ReviewRows
<1>c. c8'.rows = rows /\ EditorFlags' /\ DetectTyped'
  BY <1>1, RowsListed
<1> HIDE DEF row
<1>4. KeysDiffer(c8.rows) /\ (\A q \in Entries(c8.rows) : q.key > c10) /\ Len(c8.rows) + c10 < Duration
  BY DEF ChaptersTyped, EditorRest, RowsTyped
<1>i. \A q \in Entries(c8.rows) : q \in Chapters!ReviewRows
  BY <1>2, LenProperties, ElementOfSeq DEF Entries
<1>k. \A q \in Chapters!ReviewRows : q.key \in Int
  BY DEF Chapters!ReviewRows
<1>5. row \notin Entries(c8.rows) /\ \A q \in Entries(c8.rows) : q.key # row.key
  <2>1. ASSUME NEW q \in Entries(c8.rows) PROVE q.key # row.key
    <3>1. q.key \in Int /\ q.key > c10
      BY <1>4, <1>i, <1>k
    <3> QED
      BY <1>3, <1>n, <3>1
  <2> QED
    BY <2>1
<1>6. /\ rows \in Seq(Chapters!ReviewRows) /\ Entries(rows) = Entries(c8.rows) \union {row} /\ IsInjective(rows)
  BY <1>2, <1>3, <1>4, <1>5, AppendEntry DEF KeysDiffer
<1>7. Len(rows) = Len(c8.rows) + 1 /\ Len(c8.rows) \in Nat
  BY <1>2, <1>3, AppendProperties, LenProperties
<1> HIDE DEF rows
<1>8. KeysDiffer(rows)
  BY <1>4, <1>5, <1>6 DEF KeysDiffer
<1>9. c10' \in (-MaxRows - 1)..(-1) /\ Len(rows) + c10' < Duration
  <2>1. c10 - 1 \in (-MaxRows - 1)..(-1)
    BY <1>1, <1>n
  <2>2. Len(rows) + (c10 - 1) < Duration
    BY <1>4, <1>7, <1>n DEF EditorFits
  <2> QED
    BY <1>1, <2>1, <2>2
<1>10. \A q \in Entries(rows) : q.key > c10'
  <2>1. ASSUME NEW q \in Entries(c8.rows) PROVE q.key > c10 - 1
    <3>1. q.key \in Int /\ q.key > c10
      BY <1>4, <1>i, <1>k
    <3> QED
      BY <1>n, <3>1
  <2>2. row.key > c10 - 1
    BY <1>3, <1>n
  <2> QED
    BY <1>1, <1>6, <2>1, <2>2
<1>11. RowsTyped'
  BY <1>8, <1>9, <1>10, <1>c, RowsAre
<1>12. TypingTyped'
  BY <1>1 DEF TypingTyped, Chapters!NotTyping
<1> QED
  BY <1>11, <1>12, <1>c DEF EditorRest

(* The polls of detection, and what an answer does to the list.             *)
LEMMA EditorDetects ==
  ASSUME EditorFits, ChaptersTyped, ChaptersKept', c1' = c1, NEW d \in c7, Chapters!Answered(d)
  PROVE  EditorRest'
<1>1. UNCHANGED <<c1, c2, c3, c4, c5, c6, c9, c10>>
  BY DEF Chapters!Answered, Chapters!Detecting
<1>2. c7 = {d} /\ ~c8.list /\ c9 = Chapters!NotTyping /\ d \in [at : Chapters!Polls, auto : BOOLEAN, n : 1..2]
  BY DEF ChaptersTyped, EditorRest, DetectTyped, TypingTyped
<1>3. CASE UNCHANGED c8
  <2>1. c7' = {} \/ c7' = {[d EXCEPT !.at = "timer"]}
    BY <1>2 DEF Chapters!Answered, Chapters!Detecting
  <2>2. [d EXCEPT !.at = "timer"] \in [at : Chapters!Polls, auto : BOOLEAN, n : 1..2]
    BY <1>2 DEF Chapters!Polls
  <2>3. DetectTyped'
    BY <1>2, <1>3, <2>1, <2>2 DEF DetectTyped, Chapters!Polls
  <2> QED
    BY <1>1, <1>3, <2>3, EditorUnchanged DEF ChaptersTyped, EditorRest
<1>4. ASSUME NEW starts \in SUBSET (0..(Duration - 1)), c7' = c7 \ {d},
             c8' = [list |-> TRUE, rows |-> Chapters!Found(starts)]
      PROVE  EditorRest'
  <2> DEFINE rows == Chapters!Found(starts)
             n == Len(rows)
  <2>1. rows \in Seq(Chapters!ReviewRows) /\ n <= Duration /\ \A i \in 1..n : rows[i].key = i - 1
    BY FoundRows DEF EditorFits
  <2>r. c8'.rows = rows
    BY <1>4
  <2> HIDE DEF rows
  <2>2. n \in Nat /\ DOMAIN rows = 1..n
    BY <2>1, LenProperties
  <2>3. c10 \in (-MaxRows - 1)..(-1) /\ c10 \in Int /\ c10 <= -1
    BY DEF ChaptersTyped, EditorRest, RowsTyped, EditorFits
  <2>4. KeysDiffer(rows)
    <3>1. \A i, j \in 1..n : i - 1 = j - 1 => i = j
      BY <2>2
    <3> QED
      BY <2>1, <3>1, RowsByPlace
  <2>5. \A q \in Entries(rows) : q.key > c10
    <3>1. \A i \in 1..n : i - 1 > c10
      BY <2>2, <2>3
    <3> QED
      BY <2>1, <2>2, <3>1 DEF Entries
  <2>6. n + c10 < Duration
    BY <2>1, <2>2, <2>3 DEF EditorFits
  <2>7. RowsTyped'
    BY <1>1, <2>3, <2>4, <2>5, <2>6, <2>r, RowsAre
  <2>8. DetectTyped'
    BY <1>2, <1>4 DEF DetectTyped
  <2>9. TypingTyped'
    BY <1>1, <1>2 DEF TypingTyped, Chapters!NotTyping
  <2> QED
    BY <1>1, <2>7, <2>8, <2>9, EditorUnchanged DEF ChaptersTyped, EditorRest
<1> QED
  BY <1>3, <1>4 DEF Chapters!Answered, Chapters!Detecting

LEMMA ChaptersTypedStep ==
  ASSUME EditorFits, ChaptersTyped, Chapters!Next
  PROVE  ChaptersTyped'
<1> USE DEF Chapters!Shutting, Chapters!Converting, Chapters!Detecting
<1>k. ChaptersKept'
  BY ChaptersStep DEF EditorFits, ChaptersTyped
<1>f. EditorFlags /\ c1' = c1
  BY DEF ChaptersTyped, EditorRest, Chapters!Next
<1>g. EditorRest' => ChaptersTyped'
  BY <1>k DEF ChaptersTyped
<1>1. CASE Chapters!Lookup \/ Chapters!Searched \/ Chapters!ToggleSibling \/ Chapters!Save
           \/ (Chapters!Saved /\ UNCHANGED <<c2, c3, c5, c6, c7, c8, c9>>)
  <2>1. EditorFlags' /\ UNCHANGED <<c7, c8, c9, c10>>
    BY <1>1, <1>f DEF EditorFlags, Chapters!Lookup, Chapters!Search, Chapters!ApplyCandidate, Chapters!Searched,
         Chapters!ToggleSibling, Chapters!Save, Chapters!Saved
  <2> QED
    BY <1>g, <2>1, EditorUnchanged DEF ChaptersTyped, EditorRest
<1>2. CASE Chapters!Close \/ Chapters!Saved \/ Chapters!ConversionDone
  <2>1. CASE Chapters!Shutting
    <3>1. /\ c2' = FALSE /\ c3' = FALSE /\ c5' = FALSE /\ c4' = c4 \intersect {"apply"}
          /\ c8' = Chapters!NoList /\ c9' = Chapters!NotTyping /\ c7' \subseteq c7
      BY <2>1
    <3>2. c10' = c10 /\ (c6' = c6 \/ c6' = Chapters!Off)
      BY <1>2 DEF Chapters!Close, Chapters!Saved, Chapters!ConversionDone
    <3>3. EditorFlags'
      BY <1>f, <3>1, <3>2 DEF EditorFlags, Chapters!Polls, Chapters!Off
    <3> QED
      BY <1>g, <3>1, <3>2, <3>3, ListGone DEF ChaptersTyped, EditorRest
  <2>2. CASE ~Chapters!Shutting
    <3>1. /\ c2' = c2 /\ c3' = c3 /\ c5' = c5 /\ UNCHANGED <<c7, c8, c9, c10>>
          /\ c4' = c4 \/ c4' = c4 \ {"save"}
          /\ c6' = c6 \/ c6' = Chapters!Off
      BY <1>2, <2>2 DEF Chapters!Close, Chapters!Saved, Chapters!ConversionDone
    <3>2. EditorFlags'
      BY <1>f, <3>1 DEF EditorFlags, Chapters!Polls, Chapters!Off
    <3> QED
      BY <1>g, <3>1, <3>2, EditorUnchanged DEF ChaptersTyped, EditorRest
  <2> QED
    BY <2>1, <2>2
<1>3. CASE \/ Chapters!StartConversion \/ Chapters!PollConversion \/ Chapters!ConversionRunning
           \/ Chapters!ConversionFailed
  <2>1. UNCHANGED <<c2, c3, c4, c5, c7, c8, c9, c10>>
    BY <1>3 DEF Chapters!StartConversion, Chapters!PollConversion, Chapters!ConversionRunning, Chapters!ConversionFailed
  <2>2. c6' \in [at : Chapters!Polls, picked : BOOLEAN] \union {Chapters!Off}
    BY <1>3, <1>f DEF EditorFlags, Chapters!Polls, Chapters!Off, Chapters!StartConversion, Chapters!PollConversion,
         Chapters!ConversionRunning, Chapters!ConversionFailed
  <2>3. EditorFlags'
    BY <1>f, <2>1, <2>2 DEF EditorFlags, Chapters!Polls, Chapters!Off
  <2> QED
    BY <1>g, <2>1, <2>3, EditorUnchanged DEF ChaptersTyped, EditorRest
<1>4. CASE Chapters!StartDetection
  <2>1. PICK auto \in BOOLEAN : c7' = {Chapters!Job(auto, 1)}
    BY <1>4 DEF Chapters!StartDetection
  <2>2. c8' = Chapters!NoList /\ c9' = Chapters!NotTyping /\ UNCHANGED <<c1, c2, c3, c4, c5, c6, c10>>
    BY <1>4, <1>f DEF Chapters!StartDetection
  <2>3. DetectTyped'
    BY <2>1, <2>2 DEF DetectTyped, Chapters!Job, Chapters!Polls, Chapters!NoList
  <2> QED
    BY <1>g, <2>2, <2>3, ListGone, EditorUnchanged DEF ChaptersTyped, EditorRest
<1>5. CASE Chapters!PollDetection
  <2>1. PICK d \in c7 : c7' = (c7 \ {d}) \union {[d EXCEPT !.at = "asked"]}
    BY <1>5 DEF Chapters!PollDetection
  <2>2. UNCHANGED <<c1, c2, c3, c4, c5, c6, c8, c9, c10>>
    BY <1>5, <1>f DEF Chapters!PollDetection
  <2>3. DetectTyped
    BY DEF ChaptersTyped, EditorRest
  <2>4. c7' = {[d EXCEPT !.at = "asked"]} /\ ~c8.list /\ d \in [at : Chapters!Polls, auto : BOOLEAN, n : 1..2]
    BY <2>1, <2>3 DEF DetectTyped
  <2>5. DetectTyped'
    BY <2>2, <2>4 DEF DetectTyped, Chapters!Polls
  <2> QED
    BY <1>g, <2>2, <2>5, EditorUnchanged DEF ChaptersTyped, EditorRest
<1>6. CASE Chapters!Discard
  <2>1. c8' = Chapters!NoList /\ c9' = Chapters!NotTyping /\ UNCHANGED <<c1, c2, c3, c4, c5, c6, c7, c10>>
    BY <1>6, <1>f DEF Chapters!Discard
  <2> QED
    BY <1>g, <2>1, ListGone, EditorUnchanged DEF ChaptersTyped, EditorRest
<1>7. CASE Chapters!Apply \/ Chapters!Applied
  <2>1. /\ UNCHANGED <<c2, c3, c5, c6, c7, c10>>
        /\ c4' = c4 \union {"apply"} \/ c4' = c4 \ {"apply"}
        /\ \/ c8' = Chapters!NoList /\ c9' = Chapters!NotTyping
           \/ UNCHANGED <<c8, c9>>
    BY <1>7 DEF Chapters!Apply, Chapters!Applied, Chapters!Idle
  <2>2. EditorFlags'
    BY <1>f, <2>1 DEF EditorFlags, Chapters!Polls, Chapters!Off
  <2> QED
    BY <1>g, <2>1, <2>2, ListGone, EditorUnchanged DEF ChaptersTyped, EditorRest
<1>8. CASE \E key \in Chapters!Keys(c8.rows) : Chapters!ReviewRow(key)
  BY <1>8, <1>f, <1>g, <1>k, EditorRow
<1>9. CASE Chapters!AddRow
  BY <1>9, <1>f, <1>g, EditorAddsRow
<1>10. CASE \E d \in c7 : Chapters!Answered(d)
  BY <1>10, <1>f, <1>g, <1>k, EditorDetects
<1> QED
  BY <1>1, <1>2, <1>3, <1>4, <1>5, <1>6, <1>7, <1>8, <1>9, <1>10
  DEF Chapters!Next, Chapters!Step, Chapters!Form, Chapters!Convert, Chapters!Detect

-----------------------------------------------------------------------------
(* The editor of a map: c1 origin, c2 phase, c3 doc, c4 undo, c5 redo,      *)
(* c6 dirty, c7 tool, c8 draft, c9 selection, c10 reading, c11 sending,     *)
(* c12 carried, c13 dialog, c14 stored, c15 late                            *)

Features == {s \in Seq(Vtt!Settings) : Len(s) <= MaxFeatures}
MapDocs == [line_of_sight : Features, objects_line_of_sight : Features, portals : Features, lights : Features,
            environment : Vtt!Settings]
Selections == [key : Vtt!FEATURE_KEYS, index : 1..MaxFeatures] \union {Vtt!NoFeature}

MapPlace == c1 \in {"none", "map", "file"} /\ c2 \in {"calibrate", "edit"} /\ c10 \subseteq {"image", "uvtt"}
MapDoc == c3 \in MapDocs /\ c6 \in BOOLEAN /\ c15 \in BOOLEAN
(* What is undone can be redone: the two stacks share the steps.            *)
MapHistory == c4 \in Seq(MapDocs) /\ c5 \in Seq(MapDocs) /\ Len(c4) + Len(c5) <= HISTORY_LIMIT
MapTool ==
  /\ c7 \in Tools /\ c8 \in 0..2 /\ c9 \in Selections
  /\ c7 \in Vtt!PORTAL_TOOLS => c8 <= 1
MapKept ==
  /\ c11 \in {"none", "save", "upload"} /\ c12 \in MapDocs
  /\ c13 \in {"closed", "opened", "chosen"} /\ c14 \in MapDocs
MapTyped == MapPlace /\ MapDoc /\ MapHistory /\ MapTool /\ MapKept
MapFits == "wall" \in Tools /\ HISTORY_LIMIT \in Nat /\ MaxFeatures \in Nat \ {0}

LEMMA FeatureLists ==
  ASSUME NEW d \in MapDocs
  PROVE  /\ \A k \in Vtt!FEATURE_KEYS : d[k] \in Seq(Vtt!Settings) /\ Len(d[k]) <= MaxFeatures
         /\ d.environment \in Vtt!Settings
         /\ Vtt!IsDoc(d)
<1>1. \A k \in Vtt!FEATURE_KEYS : d[k] \in Features
  BY DEF MapDocs, Vtt!FEATURE_KEYS
<1>2. d.environment \in Vtt!Settings
  BY DEF MapDocs
<1> QED
  BY <1>1, <1>2 DEF Features, Vtt!IsDoc

LEMMA MapTypes == MapFits /\ MapTyped => Vtt!VttTypeOK
<1> SUFFICES ASSUME MapFits, MapTyped PROVE Vtt!VttTypeOK
  OBVIOUS
<1>1. Vtt!IsDoc(c3) /\ Vtt!IsDoc(c12) /\ Vtt!IsDoc(c14)
  BY FeatureLists DEF MapTyped, MapDoc, MapKept
<1>2. /\ Len(c4) <= HISTORY_LIMIT /\ Len(c5) <= HISTORY_LIMIT
      /\ \A i \in DOMAIN c4 : Vtt!IsDoc(c4[i])
      /\ \A i \in DOMAIN c5 : Vtt!IsDoc(c5[i])
  <2>1. c4 \in Seq(MapDocs) /\ c5 \in Seq(MapDocs) /\ Len(c4) + Len(c5) <= HISTORY_LIMIT
    BY DEF MapTyped, MapHistory
  <2>2. Len(c4) \in Nat /\ Len(c5) \in Nat
    BY <2>1, LenProperties
  <2>3. Len(c4) <= HISTORY_LIMIT /\ Len(c5) <= HISTORY_LIMIT
    BY <2>1, <2>2 DEF MapFits
  <2>4. (\A i \in DOMAIN c4 : c4[i] \in MapDocs) /\ (\A i \in DOMAIN c5 : c5[i] \in MapDocs)
    BY <2>1, LenProperties, ElementOfSeq
  <2> QED
    BY <2>3, <2>4, FeatureLists
<1>3. c9.key \in Vtt!FEATURE_KEYS \union {"none"} /\ c9.index \in 0..MaxFeatures
  <2>1. c9 \in Selections /\ MaxFeatures \in Nat
    BY DEF MapTyped, MapTool, MapFits
  <2> QED
    BY <2>1 DEF Selections, Vtt!NoFeature
<1>4. c6 \in BOOLEAN /\ c15 \in BOOLEAN
  BY DEF MapTyped, MapDoc
<1>5. MapPlace /\ MapKept /\ c7 \in Tools /\ c8 \in 0..2
  BY DEF MapTyped, MapTool
<1> QED
  BY <1>1, <1>2, <1>3, <1>4, <1>5 DEF MapPlace, MapKept, Vtt!VttTypeOK

LEMMA MapConstants == MapDocs' = MapDocs /\ Selections' = Selections /\ Vtt!PORTAL_TOOLS' = Vtt!PORTAL_TOOLS
BY DEF MapDocs, Features, Selections, Vtt!Settings, Vtt!FEATURE_KEYS, Vtt!NoFeature, Vtt!PORTAL_TOOLS

LEMMA MapUnchanged ==
  ASSUME MapTyped
  PROVE  /\ UNCHANGED <<c1, c2, c10>> => MapPlace'
         /\ UNCHANGED <<c3, c6, c15>> => MapDoc'
         /\ UNCHANGED <<c4, c5>> => MapHistory'
         /\ UNCHANGED <<c7, c8, c9>> => MapTool'
         /\ UNCHANGED <<c11, c12, c13, c14>> => MapKept'
BY MapConstants DEF MapTyped, MapPlace, MapDoc, MapHistory, MapTool, MapKept

(* The documents the editor begins with.                                    *)
LEMMA FirstDocs ==
  ASSUME MapFits
  PROVE  /\ Vtt!EMPTY_DOC \in MapDocs /\ Vtt!Docs \subseteq MapDocs
         /\ [Vtt!EMPTY_DOC EXCEPT !.lights = <<"drawn">>] \in MapDocs
<1>1. <<>> \in Features /\ <<"drawn">> \in Features /\ "drawn" \in Vtt!Settings
  BY DEF Features, Vtt!Settings, MapFits
<1> QED
  BY <1>1 DEF MapDocs, Vtt!EMPTY_DOC, Vtt!Docs

LEMMA NoHistory == ASSUME MapFits, c4' = <<>>, c5' = <<>> PROVE MapHistory'
<1>1. <<>> \in Seq(MapDocs) /\ Len(<<>>) = 0
  OBVIOUS
<1> QED
  BY <1>1, MapConstants DEF MapHistory, MapFits

LEMMA MapBegins == ASSUME MapFits, Vtt!Init PROVE MapTyped
<1>1. MapPlace
  BY DEF Vtt!Init, MapPlace
<1>2. MapDoc
  BY FirstDocs DEF Vtt!Init, MapDoc
<1>3. MapHistory
  <2>1. c4 = <<>> /\ c5 = <<>>
    BY DEF Vtt!Init
  <2> QED
    BY <2>1 DEF MapHistory, MapFits
<1>4. MapTool
  BY DEF Vtt!Init, MapTool, Selections, MapFits
<1>5. MapKept
  BY FirstDocs DEF Vtt!Init, MapKept
<1> QED
  BY <1>1, <1>2, <1>3, <1>4, <1>5 DEF MapTyped

(* A list is never longer than all features together.                       *)
LEMMA KindOfFeature ==
  ASSUME NEW d \in MapDocs, NEW k \in Vtt!FEATURE_KEYS
  PROVE  LET kind == {[key |-> k, index |-> i] : i \in DOMAIN d[k]}
         IN IsFiniteSet(kind) /\ Cardinality(kind) = Len(d[k])
<1> DEFINE n == Len(d[k])
           kind == {[key |-> k, index |-> i] : i \in DOMAIN d[k]}
           f == [i \in 1..n |-> [key |-> k, index |-> i]]
<1>1. n \in Nat /\ DOMAIN d[k] = 1..n
  BY FeatureLists, LenProperties
<1>2. kind = {[key |-> k, index |-> i] : i \in 1..n}
  BY <1>1
<1> HIDE DEF n
<1>3. f \in [1..n -> kind] /\ (\A i, j \in 1..n : f[i] = f[j] => i = j) /\ (\A x \in kind : \E i \in 1..n : f[i] = x)
  BY <1>2
<1> HIDE DEF f, kind
<1>4. f \in Injection(1..n, kind) /\ f \in Surjection(1..n, kind)
  BY <1>3 DEF Injection, Surjection, IsInjective
<1>5. IsFiniteSet(1..n) /\ Cardinality(1..n) = n
  BY <1>1, FS_Interval
<1>6. IsFiniteSet(kind) /\ Cardinality(kind) = n
  BY <1>4, <1>5, FS_Surjection
<1> QED
  BY <1>6 DEF kind, n

LEMMA SizeCounts ==
  ASSUME NEW d \in MapDocs, NEW k \in Vtt!FEATURE_KEYS
  PROVE  Len(d[k]) <= Vtt!Size(d) /\ Vtt!Size(d) \in Nat
<1> DEFINE Kind(q) == {[key |-> q, index |-> i] : i \in DOMAIN d[q]}
           all == Vtt!Existing(d, Vtt!FEATURE_KEYS)
<1>1. \A q \in Vtt!FEATURE_KEYS : IsFiniteSet(Kind(q)) /\ Cardinality(Kind(q)) = Len(d[q])
  BY KindOfFeature
<1>2. all = UNION {Kind(q) : q \in Vtt!FEATURE_KEYS}
  BY DEF Vtt!Existing
<1> HIDE DEF Kind, all
<1>3. all = ((Kind("line_of_sight") \union Kind("objects_line_of_sight")) \union Kind("portals")) \union Kind("lights")
  BY <1>2 DEF Vtt!FEATURE_KEYS
<1>4. IsFiniteSet(all)
  <2>1. /\ IsFiniteSet(Kind("line_of_sight")) /\ IsFiniteSet(Kind("objects_line_of_sight"))
        /\ IsFiniteSet(Kind("portals")) /\ IsFiniteSet(Kind("lights"))
    BY <1>1 DEF Vtt!FEATURE_KEYS
  <2> QED
    BY <1>3, <2>1, FS_Union
<1>5. Kind(k) \subseteq all
  BY <1>2
<1>6. Len(d[k]) <= Cardinality(all) /\ Cardinality(all) \in Nat /\ Len(d[k]) \in Nat
  BY <1>1, <1>4, <1>5, FS_Subset, FS_CardinalityType
<1>7. Vtt!Cardinality(all) = Cardinality(all)
  BY DEF Vtt!Cardinality, Cardinality
<1>8. Vtt!Size(d) = Cardinality(all) + (IF d.environment = "drawn" THEN 0 ELSE 1)
  BY <1>7 DEF Vtt!Size, all
<1> QED
  BY <1>6, <1>8

(* A list of a document is replaced by another.                             *)
LEMMA ListReplaced ==
  ASSUME NEW d \in MapDocs, NEW k \in Vtt!FEATURE_KEYS, NEW l \in Features
  PROVE  [d EXCEPT ![k] = l] \in MapDocs
BY DEF MapDocs, Vtt!FEATURE_KEYS

(* A list gets another feature, loses one, or has one set.                  *)
LEMMA ListAdded ==
  ASSUME MapFits, c3 \in MapDocs, Vtt!Room, NEW key \in Vtt!FEATURE_KEYS
  PROVE  Vtt!Added(key) \in MapDocs /\ Len(c3[key]) + 1 \in 1..MaxFeatures
<1> DEFINE l == c3[key]
<1>1. l \in Seq(Vtt!Settings) /\ Len(l) \in Nat
  BY FeatureLists, LenProperties
<1>2. Len(l) < MaxFeatures
  <2>1. Len(l) <= Vtt!Size(c3) /\ Vtt!Size(c3) < MaxFeatures /\ Vtt!Size(c3) \in Nat
    BY SizeCounts DEF Vtt!Room
  <2> QED
    BY <1>1, <2>1 DEF MapFits
<1>3. Append(l, "drawn") \in Features
  <2>1. Append(l, "drawn") \in Seq(Vtt!Settings) /\ Len(Append(l, "drawn")) = Len(l) + 1
    BY <1>1, AppendProperties DEF Vtt!Settings
  <2> QED
    BY <1>1, <1>2, <2>1 DEF Features, MapFits
<1>4. Vtt!Added(key) = [c3 EXCEPT ![key] = Append(l, "drawn")]
  BY DEF Vtt!Added
<1>5. Vtt!Added(key) \in MapDocs
  <2> HIDE DEF l
  <2> QED
    BY <1>3, <1>4, ListReplaced
<1>6. Len(l) + 1 \in 1..MaxFeatures
  BY <1>1, <1>2 DEF MapFits
<1> QED
  BY <1>5, <1>6

LEMMA ListShortened ==
  ASSUME MapFits, NEW l \in Features, NEW i \in DOMAIN l
  PROVE  Vtt!RemoveAt(l, i) \in Features
<1> DEFINE n == Len(l)
           a == SubSeq(l, 1, i - 1)
           b == SubSeq(l, i + 1, n)
<1>1. l \in Seq(Vtt!Settings) /\ n <= MaxFeatures /\ n \in Nat /\ i \in 1..n
      /\ \A j \in 1..n : l[j] \in Vtt!Settings
  BY LenProperties, ElementOfSeq DEF Features
<1> HIDE DEF n
<1>2. a \in Seq(Vtt!Settings) /\ Len(a) = i - 1
  <2>1. i - 1 \in Int /\ 1 \in Int /\ (\A j \in 1..(i - 1) : l[j] \in Vtt!Settings)
    BY <1>1
  <2>2. a \in Seq(Vtt!Settings) /\ Len(a) = IF 1 <= i - 1 THEN i - 1 - 1 + 1 ELSE 0
    BY <2>1, SubSeqProperties
  <2> QED
    BY <1>1, <2>2
<1>3. b \in Seq(Vtt!Settings) /\ Len(b) = n - i
  <2>1. i + 1 \in Int /\ n \in Int /\ (\A j \in (i + 1)..n : l[j] \in Vtt!Settings)
    BY <1>1
  <2>2. b \in Seq(Vtt!Settings) /\ Len(b) = IF i + 1 <= n THEN n - (i + 1) + 1 ELSE 0
    BY <2>1, SubSeqProperties
  <2> QED
    BY <1>1, <2>2
<1> HIDE DEF a, b
<1>4. a \o b \in Seq(Vtt!Settings) /\ Len(a \o b) = Len(a) + Len(b)
  BY <1>2, <1>3, ConcatProperties
<1>5. Len(a \o b) <= MaxFeatures
  BY <1>1, <1>2, <1>3, <1>4 DEF MapFits
<1>6. Vtt!RemoveAt(l, i) = a \o b
  BY DEF Vtt!RemoveAt, a, b, n
<1> QED
  BY <1>4, <1>5, <1>6 DEF Features

LEMMA ListSet ==
  ASSUME NEW l \in Features, NEW i \in DOMAIN l, NEW v \in Vtt!Settings
  PROVE  [l EXCEPT ![i] = v] \in Features
<1> DEFINE r == [l EXCEPT ![i] = v]
<1>1. l \in Seq(Vtt!Settings) /\ Len(l) <= MaxFeatures
  BY DEF Features
<1>2. r \in Seq(Vtt!Settings) /\ Len(r) = Len(l)
  BY <1>1, ExceptSeq
<1> QED
  BY <1>1, <1>2 DEF Features

(* A commit, and going back or on in the history.                           *)
LEMMA DocCommitted ==
  ASSUME MapFits, MapTyped, NEW d \in MapDocs, Vtt!Commit(d)
  PROVE  MapDoc' /\ MapHistory'
<1>1. /\ c4' = Vtt!Deeper(c4, c3) /\ c5' = <<>> /\ c3' = d /\ c6' = TRUE /\ c15' = (c15 \/ c11 # "none")
  BY DEF Vtt!Commit, Vtt!Touched
<1>2. c3 \in MapDocs /\ c15 \in BOOLEAN /\ c4 \in Seq(MapDocs) /\ c5 \in Seq(MapDocs) /\ Len(c4) + Len(c5) <= HISTORY_LIMIT
  BY DEF MapTyped, MapDoc, MapHistory
<1>3. MapDoc'
  BY <1>1, <1>2, MapConstants DEF MapDoc
<1> DEFINE s == Append(c4, c3)
<1>4. Len(c4) \in Nat /\ Len(c5) \in Nat /\ s \in Seq(MapDocs) /\ s # <<>> /\ Len(s) = Len(c4) + 1
  BY <1>2, AppendProperties, LenProperties
<1>5. c4' = IF Len(s) > HISTORY_LIMIT THEN Tail(s) ELSE s
  BY <1>1 DEF Vtt!Deeper
<1> HIDE DEF s
<1>6. Tail(s) \in Seq(MapDocs) /\ Len(Tail(s)) = Len(s) - 1
  BY <1>4, HeadTailProperties
<1>7. Len(s) - 1 <= HISTORY_LIMIT
  BY <1>2, <1>4 DEF MapFits
<1>8. c4' \in Seq(MapDocs) /\ Len(c4') <= HISTORY_LIMIT /\ Len(c4') \in Nat
  <2>1. CASE Len(s) > HISTORY_LIMIT
    BY <1>4, <1>5, <1>6, <1>7, <2>1
  <2>2. CASE ~(Len(s) > HISTORY_LIMIT)
    BY <1>4, <1>5, <2>2 DEF MapFits
  <2> QED
    BY <2>1, <2>2
<1>9. c5' \in Seq(MapDocs) /\ Len(c5') = 0
  BY <1>1
<1>10. Len(c4') + Len(c5') <= HISTORY_LIMIT
  BY <1>8, <1>9
<1> QED
  BY <1>3, <1>8, <1>9, <1>10, MapConstants DEF MapHistory

LEMMA StackMoved ==
  ASSUME NEW from \in Seq(MapDocs), from # <<>>, NEW to \in Seq(MapDocs), NEW d \in MapDocs
  PROVE  /\ Vtt!Last(from) \in MapDocs /\ Vtt!Front(from) \in Seq(MapDocs) /\ Append(to, d) \in Seq(MapDocs)
         /\ Len(Vtt!Front(from)) + Len(Append(to, d)) = Len(from) + Len(to)
<1>1. Len(from) \in Nat /\ Len(from) > 0 /\ Len(to) \in Nat
  BY LenProperties, EmptySeq
<1>2. Vtt!Last(from) = from[Len(from)] /\ from[Len(from)] \in MapDocs
  BY <1>1, ElementOfSeq DEF Vtt!Last
<1>3. Vtt!Front(from) = SubSeq(from, 1, Len(from) - 1)
  BY DEF Vtt!Front
<1>4. Vtt!Front(from) \in Seq(MapDocs) /\ Len(Vtt!Front(from)) = Len(from) - 1
  BY <1>1, <1>3, ButTheLast
<1>5. Append(to, d) \in Seq(MapDocs) /\ Len(Append(to, d)) = Len(to) + 1
  BY AppendProperties
<1> QED
  BY <1>1, <1>2, <1>4, <1>5

LEMMA DocMoved ==
  ASSUME MapTyped, Vtt!Undo \/ Vtt!Redo
  PROVE  MapDoc' /\ MapHistory'
<1>1. c3 \in MapDocs /\ c15 \in BOOLEAN /\ c4 \in Seq(MapDocs) /\ c5 \in Seq(MapDocs) /\ Len(c4) + Len(c5) <= HISTORY_LIMIT
  BY DEF MapTyped, MapDoc, MapHistory
<1>2. c6' = TRUE /\ c15' = (c15 \/ c11 # "none")
  BY DEF Vtt!Undo, Vtt!Redo, Vtt!Moves, Vtt!Touched
<1>3. CASE Vtt!Undo
  <2>1. c4 # <<>> /\ c3' = Vtt!Last(c4) /\ c4' = Vtt!Front(c4) /\ c5' = Append(c5, c3)
    BY <1>3 DEF Vtt!Undo, Vtt!Moves
  <2>2. c3' \in MapDocs /\ c4' \in Seq(MapDocs) /\ c5' \in Seq(MapDocs) /\ Len(c4') + Len(c5') = Len(c4) + Len(c5)
    BY <1>1, <2>1, StackMoved
  <2> QED
    BY <1>1, <1>2, <2>2, MapConstants DEF MapDoc, MapHistory
<1>4. CASE Vtt!Redo
  <2>1. c5 # <<>> /\ c3' = Vtt!Last(c5) /\ c5' = Vtt!Front(c5) /\ c4' = Append(c4, c3)
    BY <1>4 DEF Vtt!Redo, Vtt!Moves
  <2>2. c3' \in MapDocs /\ c4' \in Seq(MapDocs) /\ c5' \in Seq(MapDocs) /\ Len(c5') + Len(c4') = Len(c5) + Len(c4)
    BY <1>1, <2>1, StackMoved
  <2>3. Len(c4') + Len(c5') = Len(c4) + Len(c5)
    <3>1. Len(c4') \in Nat /\ Len(c5') \in Nat /\ Len(c4) \in Nat /\ Len(c5) \in Nat
      BY <1>1, <2>2, LenProperties
    <3> QED
      BY <2>2, <3>1
  <2> QED
    BY <1>1, <1>2, <2>2, <2>3, MapConstants DEF MapDoc, MapHistory
<1> QED
  BY <1>3, <1>4

LEMMA DrawnAround ==
  ASSUME MapTyped, Vtt!UNCH_place
  PROVE  MapPlace' /\ MapKept'
BY MapUnchanged DEF Vtt!UNCH_place, Vtt!keepVars

LEMMA Untouched ==
  ASSUME MapTyped, UNCHANGED Vtt!docVars
  PROVE  MapDoc' /\ MapHistory'
BY MapUnchanged DEF Vtt!docVars

LEMMA Tooled ==
  ASSUME NEW t \in Tools, NEW n \in 0..2, NEW s \in Selections, t \in Vtt!PORTAL_TOOLS => n <= 1, Vtt!Tooling(t, n, s)
  PROVE  MapTool'
BY MapConstants DEF Vtt!Tooling, MapTool

LEMMA MapClicks ==
  ASSUME MapFits, MapTyped, Vtt!HandleClick
  PROVE  MapTyped'
<1>0. c3 \in MapDocs /\ c7 \in Tools /\ c8 \in 0..2 /\ c9 \in Selections /\ (c7 \in Vtt!PORTAL_TOOLS => c8 <= 1)
  BY DEF MapTyped, MapDoc, MapTool
<1>u. MapPlace' /\ MapKept'
  BY DrawnAround DEF Vtt!HandleClick
<1>1. CASE Vtt!SelectAt
  <2>1. PICK s \in Vtt!Existing(c3, Vtt!FEATURE_KEYS) \union {Vtt!NoFeature} : Vtt!Tooling(c7, c8, s)
    BY <1>1 DEF Vtt!SelectAt
  <2>2. s \in Selections
    <3>1. CASE s = Vtt!NoFeature
      BY <3>1 DEF Selections
    <3>2. ASSUME NEW k \in Vtt!FEATURE_KEYS, NEW i \in DOMAIN c3[k], s = [key |-> k, index |-> i] PROVE s \in Selections
      <4>1. i \in 1..Len(c3[k]) /\ Len(c3[k]) \in Nat /\ Len(c3[k]) <= MaxFeatures
        BY <1>0, <3>2, FeatureLists, LenProperties
      <4>2. i \in 1..MaxFeatures
        BY <4>1 DEF MapFits
      <4> QED
        BY <3>2, <4>2 DEF Selections
    <3> QED
      BY <2>1, <3>1, <3>2 DEF Vtt!Existing
  <2>3. MapTool'
    BY <1>0, <2>1, <2>2, Tooled
  <2>4. MapDoc' /\ MapHistory'
    BY <1>1, Untouched DEF Vtt!SelectAt
  <2> QED
    BY <1>u, <2>3, <2>4 DEF MapTyped
<1>2. CASE Vtt!PlaceLight
  <2>1. Vtt!Room /\ Vtt!Commit(Vtt!Added("lights")) /\ c7 = "light"
        /\ Vtt!Tooling(c7, c8, [key |-> "lights", index |-> Len(c3.lights) + 1])
    BY <1>2 DEF Vtt!PlaceLight
  <2>2. Vtt!Added("lights") \in MapDocs /\ Len(c3["lights"]) + 1 \in 1..MaxFeatures
    BY <1>0, <2>1, ListAdded DEF Vtt!FEATURE_KEYS
  <2>3. [key |-> "lights", index |-> Len(c3.lights) + 1] \in Selections
    BY <2>2 DEF Selections, Vtt!FEATURE_KEYS
  <2>4. MapTool'
    BY <1>0, <2>1, <2>3, Tooled
  <2>5. MapDoc' /\ MapHistory'
    BY <2>1, <2>2, DocCommitted
  <2> QED
    BY <1>u, <2>4, <2>5 DEF MapTyped
<1>3. CASE Vtt!PlacePortal
  <2>1. CASE c8 = 1
    <3>1. Vtt!Room /\ Vtt!Commit(Vtt!Added("portals")) /\ Vtt!Tooling(c7, 0, c9)
      BY <1>3, <2>1 DEF Vtt!PlacePortal
    <3>2. Vtt!Added("portals") \in MapDocs
      BY <1>0, <3>1, ListAdded DEF Vtt!FEATURE_KEYS
    <3>3. MapTool'
      BY <1>0, <3>1, Tooled
    <3>4. MapDoc' /\ MapHistory'
      BY <3>1, <3>2, DocCommitted
    <3> QED
      BY <1>u, <3>3, <3>4 DEF MapTyped
  <2>2. CASE c8 # 1
    <3>1. UNCHANGED Vtt!docVars /\ Vtt!Tooling(c7, c8 + 1, c9) /\ c7 \in Vtt!PORTAL_TOOLS
      BY <1>3, <2>2 DEF Vtt!PlacePortal
    <3>2. c8 = 0
      BY <1>0, <2>2, <3>1
    <3>3. MapTool'
      BY <1>0, <3>1, <3>2, Tooled
    <3> QED
      BY <1>u, <3>1, <3>3, Untouched DEF MapTyped
  <2> QED
    BY <2>1, <2>2
<1>4. CASE Vtt!AddPoint
  <2>1. UNCHANGED Vtt!docVars /\ Vtt!Tooling(c7, c8 + 1, c9) /\ c8 < 2 /\ c7 \notin Vtt!PORTAL_TOOLS
    BY <1>4 DEF Vtt!AddPoint, Vtt!POLYLINE_TOOLS, Vtt!PORTAL_TOOLS
  <2>2. MapTool'
    BY <1>0, <2>1, Tooled
  <2> QED
    BY <1>u, <2>1, <2>2, Untouched DEF MapTyped
<1> QED
  BY <1>1, <1>2, <1>3, <1>4 DEF Vtt!HandleClick

LEMMA MapDeletes == ASSUME MapFits, MapTyped, Vtt!DeleteFeature PROVE MapTyped'
<1>0. c3 \in MapDocs /\ c7 \in Tools /\ c8 \in 0..2 /\ c9 \in Selections /\ (c7 \in Vtt!PORTAL_TOOLS => c8 <= 1)
  BY DEF MapTyped, MapDoc, MapTool
<1> DEFINE l == c3[c9.key]
           r == IF c9.index \in DOMAIN l THEN Vtt!RemoveAt(l, c9.index) ELSE l
<1>1. /\ c9 # Vtt!NoFeature /\ Vtt!Tooling(c7, c8, Vtt!NoFeature) /\ Vtt!UNCH_place
      /\ Vtt!Commit([c3 EXCEPT ![c9.key] = r])
  BY DEF Vtt!DeleteFeature
<1>2. c9.key \in Vtt!FEATURE_KEYS
  BY <1>0, <1>1 DEF Selections
<1>3. l \in Features
  BY <1>0, <1>2, FeatureLists DEF Features
<1> HIDE DEF l
<1>4. r \in Features
  BY <1>3, ListShortened
<1> HIDE DEF r
<1>5. [c3 EXCEPT ![c9.key] = r] \in MapDocs
  BY <1>0, <1>2, <1>4, ListReplaced
<1>6. MapDoc' /\ MapHistory'
  BY <1>1, <1>5, DocCommitted
<1>7. MapTool'
  BY <1>0, <1>1, Tooled DEF Selections
<1> QED
  BY <1>1, <1>6, <1>7, DrawnAround DEF MapTyped

LEMMA MapSets ==
  ASSUME MapFits, MapTyped, NEW key \in Vtt!FEATURE_KEYS, Vtt!UpdateFeature(key)
  PROVE  MapTyped'
<1>0. c3 \in MapDocs
  BY DEF MapTyped, MapDoc
<1> DEFINE l == c3[key]
<1>1. PICK v \in Vtt!Settings : Vtt!Commit([c3 EXCEPT ![key][c9.index] = v])
  BY DEF Vtt!UpdateFeature
<1>2. c9.index \in DOMAIN l
  BY DEF Vtt!UpdateFeature, Vtt!Existing
<1>3. l \in Features
  BY <1>0, FeatureLists DEF Features
<1>4. [c3 EXCEPT ![key][c9.index] = v] = [c3 EXCEPT ![key] = [l EXCEPT ![c9.index] = v]]
  OBVIOUS
<1> HIDE DEF l
<1>5. [l EXCEPT ![c9.index] = v] \in Features
  BY <1>2, <1>3, ListSet
<1>6. [c3 EXCEPT ![key] = [l EXCEPT ![c9.index] = v]] \in MapDocs
  BY <1>0, <1>5, ListReplaced
<1>7. MapDoc' /\ MapHistory'
  BY <1>1, <1>4, <1>6, DocCommitted
<1>8. MapTool' /\ MapPlace' /\ MapKept'
  BY DrawnAround, MapUnchanged DEF Vtt!UpdateFeature, Vtt!toolVars
<1> QED
  BY <1>7, <1>8 DEF MapTyped

LEMMA MapDraws == ASSUME MapFits, MapTyped, Vtt!Drawing PROVE MapTyped'
<1>0. c3 \in MapDocs /\ c7 \in Tools /\ c8 \in 0..2 /\ c9 \in Selections /\ (c7 \in Vtt!PORTAL_TOOLS => c8 <= 1)
  BY DEF MapTyped, MapDoc, MapTool
<1>n. Vtt!NoFeature \in Selections
  BY DEF Selections
<1>1. ASSUME NEW t \in Tools, Vtt!SetTool(t) PROVE MapTyped'
  <2>1. Vtt!Tooling(t, 0, Vtt!NoFeature) /\ UNCHANGED Vtt!docVars /\ Vtt!UNCH_place
    BY <1>1 DEF Vtt!SetTool
  <2>2. MapTool'
    BY <1>n, <2>1, Tooled
  <2> QED
    BY <2>1, <2>2, DrawnAround, Untouched DEF MapTyped
<1>2. ASSUME Vtt!Undo \/ Vtt!Redo PROVE MapTyped'
  <2>1. MapTool' /\ MapPlace' /\ MapKept'
    BY <1>2, DrawnAround, MapUnchanged DEF Vtt!Undo, Vtt!Redo, Vtt!toolVars
  <2> QED
    BY <1>2, <2>1, DocMoved DEF MapTyped
<1>3. ASSUME Vtt!CommitPolyline PROVE MapTyped'
  <2>1. Vtt!Tooling(c7, 0, c9) /\ Vtt!UNCH_place
    BY <1>3 DEF Vtt!CommitPolyline
  <2>2. MapTool'
    BY <1>0, <2>1, Tooled
  <2>3. MapDoc' /\ MapHistory'
    <3>1. CASE c8 >= 2
      <4>1. PICK key \in Vtt!FEATURE_KEYS : Vtt!Room /\ Vtt!Commit(Vtt!Added(key))
        BY <1>3, <3>1 DEF Vtt!CommitPolyline, Vtt!FEATURE_KEYS
      <4>2. Vtt!Added(key) \in MapDocs
        BY <1>0, <4>1, ListAdded
      <4> QED
        BY <4>1, <4>2, DocCommitted
    <3>2. CASE ~(c8 >= 2)
      <4>1. UNCHANGED Vtt!docVars
        BY <1>3, <3>2 DEF Vtt!CommitPolyline
      <4> QED
        BY <4>1, Untouched
    <3> QED
      BY <3>1, <3>2
  <2> QED
    BY <2>1, <2>2, <2>3, DrawnAround DEF MapTyped
<1>4. ASSUME Vtt!EnvironmentPanel PROVE MapTyped'
  <2>1. PICK v \in Vtt!Settings : Vtt!Commit([c3 EXCEPT !.environment = v]) /\ UNCHANGED Vtt!toolVars /\ Vtt!UNCH_place
    BY <1>4 DEF Vtt!EnvironmentPanel
  <2>2. [c3 EXCEPT !.environment = v] \in MapDocs
    BY <1>0 DEF MapDocs
  <2>3. MapDoc' /\ MapHistory'
    BY <2>1, <2>2, DocCommitted
  <2>4. MapTool' /\ MapPlace' /\ MapKept'
    BY <2>1, DrawnAround, MapUnchanged DEF Vtt!toolVars
  <2> QED
    BY <2>3, <2>4 DEF MapTyped
<1>5. ASSUME Vtt!Recalibrate PROVE MapTyped'
  <2>1. c2' = "calibrate" /\ UNCHANGED <<c1, c3, c4, c5, c6, c7, c8, c9, c10, c11, c12, c13, c14, c15>>
    BY <1>5 DEF Vtt!Recalibrate, Vtt!docVars, Vtt!toolVars, Vtt!keepVars
  <2>2. MapPlace'
    BY <2>1 DEF MapTyped, MapPlace
  <2> QED
    BY <2>1, <2>2, MapUnchanged DEF MapTyped
<1>6. ASSUME Vtt!Escape PROVE MapTyped'
  <2>1. Vtt!Tooling(c7, 0, Vtt!NoFeature) /\ UNCHANGED Vtt!docVars /\ Vtt!UNCH_place
    BY <1>6 DEF Vtt!Escape
  <2>2. MapTool'
    BY <1>0, <1>n, <2>1, Tooled
  <2> QED
    BY <2>1, <2>2, DrawnAround, Untouched DEF MapTyped
<1>7. ASSUME Vtt!VttToolbar PROVE MapTyped'
  BY <1>1, <1>2, <1>7 DEF Vtt!VttToolbar
<1>8. ASSUME Vtt!VttCanvas PROVE MapTyped'
  BY <1>3, <1>8, MapClicks DEF Vtt!VttCanvas
<1>9. ASSUME Vtt!VttSidebar PROVE MapTyped'
  <2>1. "lights" \in Vtt!FEATURE_KEYS /\ "portals" \in Vtt!FEATURE_KEYS
    BY DEF Vtt!FEATURE_KEYS
  <2> QED
    BY <1>4, <1>5, <1>9, <2>1, MapSets, MapDeletes DEF Vtt!VttSidebar, Vtt!LightProperties, Vtt!PortalProperties
<1>10. ASSUME Vtt!OnKey PROVE MapTyped'
  BY <1>2, <1>3, <1>6, <1>10, MapDeletes DEF Vtt!OnKey
<1> QED
  BY <1>7, <1>8, <1>9, <1>10 DEF Vtt!Drawing

LEMMA MapTypedStep == ASSUME MapFits, MapTyped, Vtt!Next PROVE MapTyped'
<1>0. MapPlace /\ MapDoc /\ MapKept
  BY DEF MapTyped
<1>n. Vtt!NoFeature \in Selections
  BY DEF Selections
<1> USE DEF Vtt!docVars, Vtt!toolVars, Vtt!keepVars
<1>1. ASSUME NEW k \in {"image", "uvtt"}, Vtt!VttSourcePicker(k) \/ Vtt!FileFails(k) PROVE MapTyped'
  <2>1. MapPlace'
    BY <1>0, <1>1 DEF Vtt!VttSourcePicker, Vtt!FileFails, MapPlace
  <2>2. UNCHANGED <<c3, c4, c5, c6, c7, c8, c9, c11, c12, c13, c14, c15>>
    BY <1>1 DEF Vtt!VttSourcePicker, Vtt!FileFails
  <2> QED
    BY <2>1, <2>2, MapUnchanged DEF MapTyped
<1>2. ASSUME NEW d \in MapDocs, Vtt!Reset(d), UNCHANGED <<c7, c8, c9, c11, c12, c13>>, MapPlace' PROVE MapTyped'
  <2>1. c3' = d /\ c4' = <<>> /\ c5' = <<>> /\ c6' = FALSE /\ c14' = d /\ c15' = (c11 # "none")
    BY <1>2 DEF Vtt!Reset
  <2>2. MapDoc' /\ MapHistory'
    BY <1>2, <2>1, NoHistory, MapConstants DEF MapDoc
  <2>3. MapKept'
    BY <1>0, <1>2, <2>1, MapConstants DEF MapKept
  <2> QED
    BY <1>2, <2>2, <2>3, MapUnchanged DEF MapTyped
<1>3. ASSUME NEW k \in {"image", "uvtt"}, Vtt!FileRead(k) PROVE MapTyped'
  <2>1. MapPlace' /\ UNCHANGED <<c7, c8, c9, c11, c12, c13>>
    BY <1>0, <1>3 DEF Vtt!FileRead, MapPlace
  <2>2. Vtt!Reset([Vtt!EMPTY_DOC EXCEPT !.lights = <<"drawn">>]) \/ Vtt!Reset(Vtt!EMPTY_DOC)
    BY <1>3 DEF Vtt!FileRead
  <2> QED
    BY <1>2, <2>1, <2>2, FirstDocs
<1>4. CASE Vtt!Load
  <2>1. MapPlace' /\ UNCHANGED <<c7, c8, c9, c11, c12, c13>> /\ Vtt!Reset(c14)
    BY <1>0, <1>4 DEF Vtt!Load, MapPlace
  <2> QED
    BY <1>0, <1>2, <2>1 DEF MapKept
<1>5. CASE Vtt!GridCalibrator
  <2>1. c2' = "edit" /\ UNCHANGED <<c1, c3, c4, c5, c6, c7, c8, c9, c10, c11, c12, c13, c14, c15>>
    BY <1>5 DEF Vtt!GridCalibrator
  <2>2. MapPlace'
    BY <1>0, <2>1 DEF MapPlace
  <2> QED
    BY <2>1, <2>2, MapUnchanged DEF MapTyped
<1>6. CASE Vtt!Leave \/ Vtt!Uploaded
  <2>1. Vtt!GoBack
    BY <1>6 DEF Vtt!Leave, Vtt!Uploaded
  <2>2. MapPlace'
    BY <2>1 DEF Vtt!GoBack, MapPlace
  <2>3. MapDoc' /\ MapHistory'
    BY <2>1, FirstDocs, NoHistory, MapConstants DEF Vtt!GoBack, MapDoc
  <2>4. MapTool'
    BY <1>n, <2>1, MapConstants DEF Vtt!GoBack, MapTool, MapFits, Vtt!PORTAL_TOOLS
  <2>5. MapKept'
    <3>1. c13' = "closed" /\ c11' \in {"none", c11} /\ c14' \in {c14, c12} /\ c12' \in {c12, Vtt!EMPTY_DOC}
      BY <1>6 DEF Vtt!Leave, Vtt!Uploaded, Vtt!GoBack
    <3> QED
      BY <1>0, <3>1, FirstDocs, MapConstants DEF MapKept
  <2> QED
    BY <2>2, <2>3, <2>4, <2>5 DEF MapTyped
<1>7. CASE Vtt!Save \/ Vtt!SendToCampaign \/ Vtt!SendingFails
  <2>1. UNCHANGED <<c1, c2, c3, c4, c5, c6, c7, c8, c9, c10, c13, c14, c15>>
    BY <1>7 DEF Vtt!Save, Vtt!SendToCampaign, Vtt!SendingFails, Vtt!Under
  <2>2. c11' \in {"none", "save", "upload"} /\ c12' \in {c3, Vtt!EMPTY_DOC}
    BY <1>7 DEF Vtt!Save, Vtt!SendToCampaign, Vtt!SendingFails, Vtt!Under
  <2>3. MapKept'
    BY <1>0, <2>1, <2>2, FirstDocs, MapConstants DEF MapKept, MapDoc
  <2> QED
    BY <2>1, <2>3, MapUnchanged DEF MapTyped
<1>8. CASE Vtt!Saved \/ Vtt!DownloadStandalone
  <2>1. UNCHANGED <<c1, c2, c3, c4, c5, c7, c8, c9, c10, c13>> /\ c6' = FALSE
    BY <1>8 DEF Vtt!Saved, Vtt!DownloadStandalone
  <2>2. c11' \in {"none", c11} /\ c12' \in {c12, Vtt!EMPTY_DOC} /\ c14' \in {c12, c3}
    BY <1>8 DEF Vtt!Saved, Vtt!DownloadStandalone
  <2>3. c15' \in BOOLEAN
    BY <1>0, <1>8 DEF Vtt!Saved, Vtt!DownloadStandalone, MapDoc
  <2>4. MapDoc' /\ MapKept'
    BY <1>0, <2>1, <2>2, <2>3, FirstDocs, MapConstants DEF MapDoc, MapKept
  <2> QED
    BY <2>1, <2>4, MapUnchanged DEF MapTyped
<1>9. CASE Vtt!ChooseCampaign \/ Vtt!CampaignChosen \/ Vtt!DialogBack
  <2>1. UNCHANGED <<c1, c2, c3, c4, c5, c6, c7, c8, c9, c10, c11, c12, c14, c15>> /\ c13' \in {"opened", "chosen", "closed"}
    BY <1>9 DEF Vtt!ChooseCampaign, Vtt!CampaignChosen, Vtt!DialogBack, Vtt!Dialog
  <2>2. MapKept'
    BY <1>0, <2>1, MapConstants DEF MapKept
  <2> QED
    BY <2>1, <2>2, MapUnchanged DEF MapTyped
<1>10. CASE Vtt!Drawing
  BY <1>10, MapDraws
<1> QED
  BY <1>1, <1>3, <1>4, <1>5, <1>6, <1>7, <1>8, <1>9, <1>10
  DEF Vtt!Next, Vtt!Opening, Vtt!Header, Vtt!SendVttToCampaignDialog

-----------------------------------------------------------------------------
(* The file manager: c1 disk, c2 there, c3 listing, c4 loaded, c5 expanded, *)
(* c6 loading, c7 asks, c8 cursor, c9 beside, c10 keep, c11 pending,        *)
(* c12 dialog, c13 content, c14 named                                       *)

(* The names of files are numbers from 1, in the order of a listing.        *)
NamesFit == \E k \in Nat : FileNames = 1..k

Shelved == [in : Files!Places, name : FileNames] \union {Files!Self}
DiskTyped == c1 \in [Files!Places -> SUBSET FileNames] /\ c2 \in BOOLEAN
ListTyped == c3 \in [Files!Places -> SUBSET (FileNames \union {0})] /\ c4 \subseteq Files!Places /\ c5 \in BOOLEAN
AsksTyped == c6 \subseteq Files!Places /\ c7 \subseteq Files!Asked \union Files!Answers
CursorTyped ==
  c8 \in Files!Paths /\ c9 \in Files!Paths \X Files!Paths /\ c10 \in BOOLEAN /\ c11 \in Files!Paths
DialogTyped ==
  c12 \in [kind : {"none", "delete"}, on : Files!Paths] /\ c13 \in {"unknown", "some", "none"} /\ c14 \in BOOLEAN
TreeTyped == DiskTyped /\ ListTyped /\ AsksTyped /\ CursorTyped /\ DialogTyped

LEMMA TreeTypes == TreeTyped => Files!TreeTypeOK
<1>1. ASSUME TreeTyped PROVE {c5, c10, c14} \subseteq BOOLEAN
  BY <1>1 DEF TreeTyped, ListTyped, CursorTyped, DialogTyped
<1> QED
  BY <1>1 DEF TreeTyped, DiskTyped, ListTyped, AsksTyped, CursorTyped, DialogTyped, Files!TreeTypeOK

LEMMA TreeUnchanged ==
  ASSUME TreeTyped
  PROVE  /\ UNCHANGED <<c1, c2>> => DiskTyped'
         /\ UNCHANGED <<c3, c4, c5>> => ListTyped'
         /\ UNCHANGED <<c6, c7>> => AsksTyped'
         /\ UNCHANGED <<c8, c9, c10, c11>> => CursorTyped'
         /\ UNCHANGED <<c12, c13, c14>> => DialogTyped'
BY DEF TreeTyped, DiskTyped, ListTyped, AsksTyped, CursorTyped, DialogTyped, Files!Places, Files!Paths,
       Files!Asked, Files!Answers, Files!Self, Files!Nowhere, Files!At, Files!Root, Files!Folder

LEMMA Shelves ==
  /\ Shelved \subseteq Files!Paths /\ Files!Nowhere \in Files!Paths /\ Files!Self \in Shelved
  /\ \A p \in Files!Places, n \in FileNames : Files!At(p, n) \in Shelved
  /\ \A row \in Shelved \ {Files!Self} : row.in \in Files!Places /\ row.name \in FileNames
BY DEF Shelved, Files!Paths, Files!At

(* A listing of a place is a sequence of its rows.                          *)
LEMMA PlaceRows ==
  ASSUME NamesFit, NEW p \in Files!Places, NEW names
  PROVE  Files!Files(p, names) \in Seq(Shelved)
<1> DEFINE s == [n \in FileNames |-> Files!At(p, n)]
           keep == {Files!At(p, n) : n \in names}
<1>1. s \in Seq(Shelved)
  BY Shelves DEF NamesFit
<1>2. Files!Filtered(s, keep) = Filtered(s, keep)
  BY DEF Files!Filtered, Filtered
<1> HIDE DEF s, keep
<1>3. Filtered(s, keep) \in Seq(Shelved)
  BY <1>1, FilterKeeps
<1> QED
  BY <1>2, <1>3 DEF Files!Files, s, keep

LEMMA TreeRows ==
  ASSUME NamesFit, NEW list, NEW open, NEW known
  PROVE  Files!Rows(list, open, known) \in Seq(Shelved)
<1>1. /\ Files!Files(Files!Folder, list[Files!Folder]) \in Seq(Shelved)
      /\ Files!Files(Files!Root, list[Files!Root] \ {0}) \in Seq(Shelved)
  BY PlaceRows DEF Files!Places
<1> DEFINE inside == IF open /\ Files!Folder \in known THEN Files!Files(Files!Folder, list[Files!Folder]) ELSE <<>>
           top == IF 0 \in list[Files!Root] THEN <<Files!Self>> \o inside ELSE <<>>
<1>2. inside \in Seq(Shelved)
  BY <1>1
<1> HIDE DEF inside
<1>3. top \in Seq(Shelved)
  BY <1>2, Shelves
<1> HIDE DEF top
<1> QED
  BY <1>1, <1>3 DEF Files!Rows, top, inside

LEMMA TreeRow ==
  ASSUME NEW rows \in Seq(Shelved)
  PROVE  /\ Files!ToSet(rows) \subseteq Shelved
         /\ \A c : Files!Beside(c, rows) \in Files!Paths \X Files!Paths
<1>1. \A i : Files!Row(i, rows) \in Files!Paths
  BY Shelves DEF Files!Row
<1>2. ASSUME NEW c PROVE Files!Beside(c, rows) \in Files!Paths \X Files!Paths
  BY <1>1 DEF Files!Beside
<1> QED
  BY <1>2 DEF Files!ToSet

LEMMA TreeSettles ==
  ASSUME TreeTyped, NEW c \in Files!Paths, NEW rows \in Seq(Shelved), NEW kept \in BOOLEAN,
         Files!Settled(c, rows, kept)
  PROVE  CursorTyped'
<1>1. Files!ToSet(rows) \subseteq Files!Paths /\ Files!Nowhere \in Files!Paths
  BY TreeRow, Shelves
<1>2. Files!Fallback(rows) \in Files!Paths
  BY <1>1 DEF Files!Fallback, TreeTyped, CursorTyped
<1>3. c8' \in Files!Paths /\ c11' \in Files!Paths
  BY <1>1, <1>2 DEF Files!Settled, TreeTyped, CursorTyped
<1>4. c9' \in Files!Paths \X Files!Paths
  BY <1>1, TreeRow DEF Files!Settled
<1>5. c10' \in BOOLEAN
  BY DEF Files!Settled
<1> QED
  BY <1>3, <1>4, <1>5 DEF CursorTyped, Files!Paths, Files!Places, Files!Self, Files!Nowhere, Files!At

LEMMA NewAsks == \A p \in Files!Places : Files!New(p) \in Files!Asked
BY DEF Files!New, Files!Asked

LEMMA TreeBegins ==
  ASSUME Files!Init PROVE TreeTyped
<1>1. DiskTyped
  BY DEF DiskTyped, Files!Init
<1>2. ListTyped
  BY DEF ListTyped, Files!Init
<1>3. AsksTyped
  BY NewAsks DEF AsksTyped, Files!Init, Files!Places
<1>4. CursorTyped
  BY Shelves DEF CursorTyped, Files!Init
<1>5. DialogTyped
  BY Shelves DEF DialogTyped, Files!Init
<1> QED
  BY <1>1, <1>2, <1>3, <1>4, <1>5 DEF TreeTyped

LEMMA TreeAsks ==
  ASSUME AsksTyped
  PROVE  /\ \A S \in SUBSET Files!Places : Files!Ask(S) => AsksTyped'
         /\ Files!Refresh => AsksTyped'
         /\ \A p \in Files!Places : Files!RefreshPath(p) => AsksTyped'
<1> USE NewAsks DEF AsksTyped
<1>1. ASSUME NEW S \in SUBSET Files!Places, Files!Ask(S) PROVE AsksTyped'
  BY <1>1 DEF Files!Ask
<1>2. ASSUME NEW p \in Files!Places, Files!RefreshPath(p) PROVE AsksTyped'
  BY <1>2 DEF Files!RefreshPath
<1>3. ASSUME Files!Refresh PROVE AsksTyped'
  <2> DEFINE S == {Files!Root} \union (IF c5 THEN {Files!Folder} ELSE {})
  <2>1. S \in SUBSET Files!Places
    BY DEF Files!Places
  <2>2. Files!Ask(S)
    BY <1>3 DEF Files!Refresh
  <2> HIDE DEF S
  <2> QED
    BY <1>1, <2>1, <2>2
<1> QED
  BY <1>1, <1>2, <1>3

LEMMA TreeListed ==
  ASSUME NamesFit, TreeTyped, NEW a, a \in c7, Files!Listed(a) \/ Files!ListingFails(a) \/ Files!Browse(a)
  PROVE  TreeTyped'
<1>a. a \in Files!Asked \union Files!Answers /\ a.p \in Files!Places
  BY DEF TreeTyped, AsksTyped, Files!Asked, Files!Answers
<1>1. ASSUME NEW got \in SUBSET (FileNames \union {0}), Files!Answered(a, got) PROVE TreeTyped'
  <2> DEFINE list == [c3 EXCEPT ![a.p] = got]
             known == c4 \union {a.p}
             rows == Files!Rows(list, c5, known)
  <2>1. DiskTyped' /\ DialogTyped'
    BY <1>1, TreeUnchanged DEF Files!Answered, Files!onDisk, Files!talk
  <2>2. c3' = list /\ c4' = known /\ c5' = c5 /\ Files!Settled(c8, rows, c10)
    BY <1>1 DEF Files!Answered
  <2>3. list \in [Files!Places -> SUBSET (FileNames \union {0})] /\ known \subseteq Files!Places
    BY <1>1, <1>a DEF TreeTyped, ListTyped
  <2>4. rows \in Seq(Shelved)
    BY TreeRows
  <2> HIDE DEF list, known, rows
  <2>5. c8 \in Files!Paths /\ c10 \in BOOLEAN
    BY DEF TreeTyped, CursorTyped
  <2>6. CursorTyped'
    BY <2>2, <2>4, <2>5, TreeSettles
  <2>7. ListTyped'
    BY <2>2, <2>3 DEF TreeTyped, ListTyped, Files!Places
  <2>8. AsksTyped'
    BY <1>1, NewAsks DEF Files!Answered, TreeTyped, AsksTyped
  <2> QED
    BY <2>1, <2>6, <2>7, <2>8 DEF TreeTyped
<1>2. CASE Files!ListingFails(a)
  <2>1. {} \in SUBSET (FileNames \union {0})
    OBVIOUS
  <2> QED
    BY <1>1, <1>2, <2>1 DEF Files!ListingFails
<1>3. CASE Files!Listed(a)
  <2> DEFINE got == IF a.p = Files!Root /\ a.folder THEN a.got \union {0} ELSE a.got
  <2>1. a \in Files!Answers
    BY <1>3, <1>a DEF Files!Listed, Files!Asked
  <2>2. got \in SUBSET (FileNames \union {0})
    BY <2>1 DEF Files!Answers
  <2>3. Files!Answered(a, got)
    BY <1>3 DEF Files!Listed
  <2> HIDE DEF got
  <2> QED
    BY <1>1, <2>2, <2>3
<1>4. CASE Files!Browse(a)
  <2> DEFINE b == [a EXCEPT !.read = TRUE, !.got = c1[a.p], !.folder = c2]
  <2>1. a \in Files!Asked
    BY <1>4, <1>a DEF Files!Browse, Files!Answers
  <2>2. b \in Files!Answers
    BY <1>a, <2>1 DEF Files!Asked, Files!Answers, TreeTyped, DiskTyped
  <2>3. c7' = (c7 \ {a}) \union {b} /\ c6' = c6
    BY <1>4 DEF Files!Browse
  <2> HIDE DEF b
  <2>4. AsksTyped'
    BY <2>2, <2>3 DEF TreeTyped, AsksTyped
  <2> QED
    BY <1>4, <2>4, TreeUnchanged DEF Files!Browse, Files!onDisk, Files!shown, Files!moving, Files!talk, TreeTyped
<1> QED
  BY <1>2, <1>3, <1>4

LEMMA TreeKeys ==
  ASSUME NamesFit, TreeTyped, NEW row,
         \/ Files!ToggleExpand \/ Files!ClearSelection \/ Files!CursorTo(row) \/ Files!OpenDelete(row)
         \/ Files!NewFolder \/ Files!ContentKnown \/ Files!CloseDialog
  PROVE  TreeTyped'
<1> USE DEF Files!onDisk, Files!shown, Files!moving, Files!talk
<1>r. Files!Now \in Seq(Shelved)
  BY TreeRows DEF Files!Now
<1>n. Files!ToSet(Files!Now) \subseteq Files!Paths /\ Files!Nowhere \in Files!Paths
      /\ Files!Beside(row, Files!Now) \in Files!Paths \X Files!Paths
  BY <1>r, TreeRow, Shelves
<1>1. CASE Files!ToggleExpand
  <2> DEFINE rows == Files!Rows(c3, ~c5, c4)
             kept == ~c5 /\ c10
  <2>1. rows \in Seq(Shelved) /\ kept \in BOOLEAN
    BY TreeRows
  <2>2. Files!Settled(c8, rows, kept)
    BY <1>1 DEF Files!ToggleExpand
  <2> HIDE DEF rows, kept
  <2>3. CursorTyped'
    BY <2>1, <2>2, TreeSettles DEF TreeTyped, CursorTyped
  <2>4. AsksTyped'
    <3>1. {Files!Folder} \in SUBSET Files!Places
      BY DEF Files!Places
    <3>2. UNCHANGED <<c6, c7>> \/ Files!Ask({Files!Folder})
      BY <1>1 DEF Files!ToggleExpand
    <3> QED
      BY <3>1, <3>2, TreeAsks, TreeUnchanged DEF TreeTyped
  <2>5. ListTyped'
    BY <1>1 DEF Files!ToggleExpand, TreeTyped, ListTyped, Files!Places
  <2> QED
    BY <1>1, <2>3, <2>4, <2>5, TreeUnchanged DEF Files!ToggleExpand, TreeTyped
<1>2. CASE Files!ClearSelection \/ Files!CursorTo(row)
  <2>1. c8' \in Files!Paths /\ c9' \in Files!Paths \X Files!Paths /\ UNCHANGED <<c10, c11>>
    BY <1>2, <1>n DEF Files!ClearSelection, Files!CursorTo
  <2>2. CursorTyped'
    BY <2>1 DEF TreeTyped, CursorTyped, Files!Paths, Files!Places, Files!Self, Files!Nowhere, Files!At
  <2> QED
    BY <1>2, <2>2, TreeUnchanged DEF Files!ClearSelection, Files!CursorTo, TreeTyped
<1>3. CASE Files!OpenDelete(row) \/ Files!ContentKnown \/ Files!CloseDialog
  <2>1. c12' \in [kind : {"none", "delete"}, on : Files!Paths]
    <3>1. (c12' = [kind |-> "delete", on |-> row] /\ row \in Files!Paths) \/ c12' = c12
          \/ c12' = [kind |-> "none", on |-> Files!Nowhere]
      BY <1>3, <1>n DEF Files!OpenDelete, Files!ContentKnown, Files!CloseDialog, Files!Close
    <3> QED
      BY <1>n, <3>1 DEF TreeTyped, DialogTyped
  <2>2. c13' \in {"unknown", "some", "none"}
    BY <1>3 DEF Files!OpenDelete, Files!ContentKnown, Files!CloseDialog, Files!Close
  <2>3. c14' = FALSE \/ c14' = c14
    BY <1>3 DEF Files!OpenDelete, Files!ContentKnown, Files!CloseDialog
  <2>4. DialogTyped'
    BY <2>1, <2>2, <2>3 DEF TreeTyped, DialogTyped, Files!Paths, Files!Places, Files!Self, Files!Nowhere, Files!At
  <2> QED
    BY <1>3, <2>4, TreeUnchanged DEF Files!OpenDelete, Files!ContentKnown, Files!CloseDialog, TreeTyped
<1>4. CASE Files!NewFolder
  <2>1. AsksTyped'
    <3>1. Files!Root \in Files!Places
      BY DEF Files!Places
    <3> QED
      BY <1>4, <3>1, TreeAsks DEF Files!NewFolder, TreeTyped
  <2>2. DiskTyped'
    BY <1>4 DEF Files!NewFolder, TreeTyped, DiskTyped, Files!Places
  <2> QED
    BY <1>4, <2>1, <2>2, TreeUnchanged DEF Files!NewFolder, TreeTyped
<1> QED
  BY <1>1, <1>2, <1>3, <1>4

LEMMA TreeChanges ==
  ASSUME NamesFit, TreeTyped
  PROVE  /\ Files!Delete => TreeTyped'
         /\ Files!RefreshButton => TreeTyped'
         /\ \A p \in Files!ToSet(Files!Now), n \in FileNames : Files!Rename(p, n) => TreeTyped'
         /\ \A p \in Files!ToSet(Files!Now), to \in Files!Places : Files!MoveTo(p, to) => TreeTyped'
         /\ \A to \in Files!Places : \A sent \in SUBSET [in : Files!Places, name : FileNames] :
              Files!Move(sent, to) => TreeTyped'
         /\ \A p \in Files!Places, n \in FileNames : Files!Elsewhere(p, n) => TreeTyped'
<1> USE DEF Files!onDisk, Files!shown, Files!moving, Files!talk
<1>r. Files!ToSet(Files!Now) \subseteq Shelved
  BY TreeRow, TreeRows DEF Files!Now
<1>d. c1 \in [Files!Places -> SUBSET FileNames] /\ c2 \in BOOLEAN
  BY DEF TreeTyped, DiskTyped
<1>D. c1' \in [Files!Places -> SUBSET FileNames] /\ c2' \in BOOLEAN => DiskTyped'
  BY DEF DiskTyped, Files!Places
<1>a. Files!Refresh => AsksTyped'
  BY TreeAsks DEF TreeTyped
<1>1. ASSUME Files!Delete PROVE TreeTyped'
  <2> DEFINE p == c12.on
  <2>1. CASE UNCHANGED <<c1, c2, c7, c6, c12, c13, c14>>
    BY <1>1, <2>1, TreeUnchanged DEF Files!Delete, TreeTyped
  <2>2. CASE /\ IF p = Files!Self
                THEN c2' = FALSE /\ c1' = [c1 EXCEPT ![Files!Folder] = {}]
                ELSE c1' = [c1 EXCEPT ![p.in] = @ \ {p.name}] /\ UNCHANGED c2
             /\ c14' = (p = Files!Self /\ c1[Files!Folder] # {} /\ ~(c13 = "some"))
             /\ Files!Refresh /\ Files!Close
    <3>1. DiskTyped'
      BY <1>d, <1>D, <2>2
    <3>2. DialogTyped'
      BY <2>2, Shelves DEF Files!Close, DialogTyped
    <3> QED
      BY <1>1, <1>a, <2>2, <3>1, <3>2, TreeUnchanged DEF Files!Delete, TreeTyped
  <2> QED
    BY <1>1, <2>1, <2>2 DEF Files!Delete
<1>2. ASSUME Files!RefreshButton PROVE TreeTyped'
  BY <1>2, <1>a, TreeUnchanged DEF Files!RefreshButton, TreeTyped
<1>3. ASSUME NEW p \in Files!ToSet(Files!Now), NEW n \in FileNames, Files!Rename(p, n) PROVE TreeTyped'
  <2>1. p.in \in Files!Places
    BY <1>3, <1>r, Shelves DEF Files!Rename
  <2>2. DiskTyped'
    BY <1>3, <1>d, <1>D DEF Files!Rename
  <2>3. Files!At(p.in, n) \in Files!Paths
    BY <2>1, Shelves
  <2>4. CursorTyped'
    BY <1>3, <2>3 DEF Files!Rename, TreeTyped, CursorTyped, Files!Paths, Files!Places, Files!Self, Files!Nowhere, Files!At
  <2> QED
    BY <1>3, <1>a, <2>2, <2>4, TreeUnchanged DEF Files!Rename, TreeTyped
<1>4. ASSUME NEW p \in Files!ToSet(Files!Now), NEW to \in Files!Places, Files!MoveTo(p, to) PROVE TreeTyped'
  <2>1. p.in \in Files!Places /\ p.name \in FileNames
    BY <1>4, <1>r, Shelves DEF Files!MoveTo
  <2>2. PICK n \in IF p.name \in c1[to] THEN FileNames \ c1[to] ELSE {p.name} :
          c1' = [c1 EXCEPT ![p.in] = @ \ {p.name}, ![to] = @ \union {n}]
    BY <1>4 DEF Files!MoveTo
  <2>3. n \in FileNames
    BY <2>1, <2>2
  <2>4. c1' \in [Files!Places -> SUBSET FileNames]
    BY <1>d, <2>1, <2>2, <2>3
  <2>5. DiskTyped'
    BY <1>4, <1>d, <1>D, <2>4 DEF Files!MoveTo
  <2> QED
    BY <1>4, <1>a, <2>5, TreeUnchanged DEF Files!MoveTo, TreeTyped
<1>5. ASSUME NEW to \in Files!Places, NEW sent \in SUBSET [in : Files!Places, name : FileNames], Files!Move(sent, to)
      PROVE  TreeTyped'
  <2> DEFINE gone == {p \in sent : Files!Exists(p) /\ p.in # to /\ p.name \notin c1[to]}
             names == {p.name : p \in gone}
  <2>1. names \subseteq FileNames
    OBVIOUS
  <2>2. c1' = [q \in Files!Places |-> IF q = to THEN c1[to] \union names ELSE c1[q] \ names]
    BY <1>5 DEF Files!Move
  <2> HIDE DEF gone, names
  <2>3. c1' \in [Files!Places -> SUBSET FileNames]
    BY <1>d, <2>1, <2>2
  <2>4. DiskTyped'
    BY <1>5, <1>d, <1>D, <2>3 DEF Files!Move
  <2> QED
    BY <1>5, <1>a, <2>4, TreeUnchanged DEF Files!Move, TreeTyped
<1>6. ASSUME NEW p \in Files!Places, NEW n \in FileNames, Files!Elsewhere(p, n) PROVE TreeTyped'
  <2>1. DiskTyped'
    BY <1>6, <1>d, <1>D DEF Files!Elsewhere
  <2>2. AsksTyped'
    BY <1>6, <1>a, TreeUnchanged DEF Files!Elsewhere
  <2> QED
    BY <1>6, <2>1, <2>2, TreeUnchanged DEF Files!Elsewhere, TreeTyped
<1> QED
  BY <1>1, <1>2, <1>3, <1>4, <1>5, <1>6

LEMMA TreeTypedStep == ASSUME NamesFit, TreeTyped, Files!Next PROVE TreeTyped'
<1>1. ASSUME Files!Listings PROVE TreeTyped'
  BY <1>1, TreeListed DEF Files!Listings
<1>2. ASSUME Files!Keys \/ Files!ContextMenu PROVE TreeTyped'
  BY <1>2, TreeKeys DEF Files!Keys, Files!FileRow, Files!ContextMenu
<1>3. ASSUME Files!DeleteModal PROVE TreeTyped'
  BY <1>3, TreeKeys, TreeChanges DEF Files!DeleteModal
<1>4. ASSUME Files!Dialogs PROVE TreeTyped'
  BY <1>4, TreeChanges DEF Files!Dialogs, Files!RenameModal, Files!MoveModal
<1>5. ASSUME Files!Drag PROVE TreeTyped'
  <2>1. PICK to \in Files!Places : \E sent \in SUBSET [in : Files!Places \ {to}, name : FileNames] : Files!Move(sent, to)
    BY <1>5 DEF Files!Drag
  <2>2. PICK sent \in SUBSET [in : Files!Places \ {to}, name : FileNames] : Files!Move(sent, to)
    BY <2>1
  <2>3. sent \in SUBSET [in : Files!Places, name : FileNames]
    OBVIOUS
  <2> QED
    BY <2>2, <2>3, TreeChanges
<1>6. ASSUME Files!RefreshButton \/ \E p \in Files!Places, n \in FileNames : Files!Elsewhere(p, n) PROVE TreeTyped'
  BY <1>6, TreeChanges
<1> QED
  BY <1>1, <1>2, <1>3, <1>4, <1>5, <1>6 DEF Files!Next

-----------------------------------------------------------------------------
(* Copies: c1 gone, c2 mainOf, c3 groups, c4 dismissed, c5 scan, c6 found,  *)
(* c7 view, c8 listed, c9 running, c10 cleared, c11 shut, c12 pair, c13     *)
(* data, c14 kept, c15 confirm, c16 busy, c17 asks                          *)

CopyOrNone == Copies!Copies \union {0}
Loads == {<<>>} \union {<<f>> : f \in Copies!Families}
CopyAsks ==
  [kind : Copies!Verdicts \union {"groups", "status", "start", "stop", "compare", "copy", "shut", "open"},
   a : CopyOrNone, b : CopyOrNone, here : BOOLEAN, answer : {"none", "ok", "running", "cleared", "error"},
   groups : SUBSET Copies!Groups, shut : SUBSET Copies!Pairs, families : Loads]

ServerTypes ==
  /\ c1 \subseteq Copies!Copies /\ c2 \in Copies!Families /\ c4 \subseteq Copies!Pairs
  /\ c5 \in {"idle", "live", "dead"}
ListTypes ==
  /\ c7 \in {"list", "compare"} /\ c8 \subseteq Copies!Groups
  /\ c9 \in BOOLEAN /\ c10 \in BOOLEAN /\ c11 \subseteq Copies!Pairs
(* Two copies are compared, and what has been loaded came with one to keep. *)
PairTypes ==
  /\ c12 \in (Copies!Copies \X Copies!Copies) \union {Copies!NoPair}
  /\ c13 \in Loads /\ c14 \in CopyOrNone /\ c15 \in CopyOrNone /\ c16 \in BOOLEAN
  /\ c7 = "compare" => \E l, r \in Copies!Copies : c12 = <<l, r>> /\ l # r
  /\ c13 # <<>> => c14 \in Copies!Copies
(* A pair is rejected, two copies are compared, and metadata is copied on a *)
(* page that has loaded them.                                               *)
CopyAsk(q) ==
  /\ q \in CopyAsks
  /\ q.kind = "dismiss" => {q.a, q.b} \in Copies!Pairs
  /\ q.kind = "compare" => q.a \in Copies!Copies /\ q.b \in Copies!Copies
  /\ q.kind \in {"compare", "copy"} /\ q.answer # "none" => q.families # <<>>
CopyAsked == \A q \in c17 : CopyAsk(q) /\ (q.kind = "copy" => c13 # <<>>)
CopiesTyped == Copies!PairsKept /\ ServerTypes /\ ListTypes /\ PairTypes /\ CopyAsked

LEMMA OneLoad == ASSUME NEW d \in Loads, d # <<>> PROVE d \in [1..1 -> Copies!Families] /\ d[1] \in Copies!Families
BY DEF Loads

LEMMA CopiesTypes == CopiesTyped => Copies!DuplicatesTypeOK
<1> SUFFICES ASSUME CopiesTyped PROVE Copies!DuplicatesTypeOK
  OBVIOUS
<1>1. c13 \in {<<>>} \union [1..1 -> Copies!Families]
  BY OneLoad DEF CopiesTyped, PairTypes
<1>2. \A q \in c17 : q.kind \in Copies!Verdicts \union {"groups", "status", "start", "stop", "compare", "copy", "shut", "open"}
  BY DEF CopiesTyped, CopyAsked, CopyAsk, CopyAsks
<1>3. {c14, c15} \subseteq Copies!Copies \union {0}
  BY DEF CopiesTyped, PairTypes, CopyOrNone
<1> QED
  BY <1>1, <1>2, <1>3 DEF CopiesTyped, ServerTypes, ListTypes, PairTypes, Copies!PairsKept, Copies!DuplicatesTypeOK

LEMMA TwoCopies ==
  ASSUME NEW a \in Copies!Copies, NEW b \in Copies!Copies, a # b
  PROVE  {a, b} \in Copies!Pairs
<1>1. IsFiniteSet({a}) /\ Cardinality({a}) = 1
  BY FS_Singleton
<1>2. Cardinality({a} \union {b}) = Cardinality({a}) + 1
  BY <1>1, FS_AddElement
<1>3. {a} \union {b} = {a, b}
  OBVIOUS
<1>4. Cardinality({a, b}) = 2
  BY <1>1, <1>2, <1>3
<1> QED
  BY <1>4 DEF Copies!Pairs, Copies!kSubset, Copies!Cardinality, Cardinality

LEMMA TwoOfAPair ==
  ASSUME NCopies \in Nat, NEW e \in Copies!Pairs
  PROVE  \E a, b \in Copies!Copies : a < b /\ e = {a, b}
<1>1. e \subseteq Copies!Copies /\ Cardinality(e) = 2
  BY DEF Copies!Pairs, Copies!kSubset, Copies!Cardinality, Cardinality
<1>2. IsFiniteSet(Copies!Copies)
  BY FS_Interval DEF Copies!Copies
<1>3. IsFiniteSet(e)
  BY <1>1, <1>2, FS_Subset
<1>4. e # {}
  BY <1>1, FS_EmptySet
<1>5. PICK a : a \in e
  BY <1>4
<1>6. IsFiniteSet(e \ {a}) /\ Cardinality(e \ {a}) = 1
  BY <1>1, <1>3, <1>5, FS_RemoveElement
<1>7. PICK b : e \ {a} = {b}
  BY <1>6, FS_Singleton
<1>8. e = {a, b} /\ a # b /\ a \in Copies!Copies /\ b \in Copies!Copies
  BY <1>1, <1>5, <1>7
<1>9. a < b \/ b < a
  BY <1>8 DEF Copies!Copies
<1>10. {a, b} = {b, a}
  OBVIOUS
<1> QED
  BY <1>8, <1>9, <1>10

LEMMA EndsOfAPair ==
  ASSUME NCopies \in Nat, NEW e \in Copies!Pairs
  PROVE  Copies!Min(e) \in Copies!Copies /\ Copies!Max(e) \in Copies!Copies /\ Copies!Min(e) # Copies!Max(e)
<1>1. PICK a, b \in Copies!Copies : a < b /\ e = {a, b}
  BY TwoOfAPair
<1>2. a \in Int /\ b \in Int
  BY DEF Copies!Copies
<1>3. Copies!Min(e) = a
  <2>1. a \in e /\ \A y \in e : a <= y
    BY <1>1, <1>2
  <2>2. \A x \in e : (\A y \in e : x <= y) => x = a
    BY <1>1, <1>2
  <2> QED
    BY <2>1, <2>2 DEF Copies!Min
<1>4. Copies!Max(e) = b
  <2>1. b \in e /\ \A y \in e : b >= y
    BY <1>1, <1>2
  <2>2. \A x \in e : (\A y \in e : x >= y) => x = b
    BY <1>1, <1>2
  <2> QED
    BY <2>1, <2>2 DEF Copies!Max
<1> QED
  BY <1>1, <1>2, <1>3, <1>4

LEMMA LeastCopy ==
  ASSUME NEW m \in SUBSET Copies!Copies, m # {}
  PROVE  Copies!Min(m) \in m
<1>1. m \in SUBSET Nat
  BY DEF Copies!Copies
<1>2. \E x \in m : \A y \in m : x <= y
  BY <1>1, LeastNumber
<1> QED
  BY <1>2 DEF Copies!Min

LEMMA TwoAreListed ==
  ASSUME NCopies \in Nat, NEW G \in SUBSET Copies!Groups, NEW l, NEW r, <<l, r>> \in Copies!PairsOf(G)
  PROVE  l \in Copies!Copies /\ r \in Copies!Copies /\ l # r
<1>1. PICK h \in G : <<l, r>> \in Copies!GroupToPairs(h)
  BY DEF Copies!PairsOf
<1>2. h.members \subseteq Copies!Copies /\ h.edges \subseteq Copies!Pairs
  BY DEF Copies!Groups
<1>3. CASE h.edges # {}
  <2>1. PICK e \in h.edges : <<l, r>> = <<Copies!Min(e), Copies!Max(e)>>
    BY <1>1, <1>3 DEF Copies!GroupToPairs
  <2> QED
    BY <1>2, <2>1, EndsOfAPair
<1>4. CASE h.edges = {}
  <2>1. PICK c \in h.members \ {Copies!Min(h.members)} : <<l, r>> = <<Copies!Min(h.members), c>>
    BY <1>1, <1>4 DEF Copies!GroupToPairs
  <2>2. Copies!Min(h.members) \in h.members
    BY <1>2, <2>1, LeastCopy
  <2> QED
    BY <1>2, <2>1, <2>2
<1> QED
  BY <1>3, <1>4

LEMMA NewCopyAsk ==
  ASSUME NEW kind \in {"groups", "status", "start", "stop", "copy", "shut", "open", "link", "promote", "delete"},
         NEW a \in CopyOrNone, NEW b \in CopyOrNone
  PROVE  CopyAsk(Copies!Ask(kind, a, b)) /\ Copies!Ask(kind, a, b).kind = kind
BY DEF Copies!Ask, CopyAsk, CopyAsks, Loads, Copies!Verdicts

LEMMA NewPairAsk ==
  ASSUME NEW kind \in {"compare", "dismiss"}, NEW a \in Copies!Copies, NEW b \in Copies!Copies, a # b
  PROVE  CopyAsk(Copies!Ask(kind, a, b)) /\ Copies!Ask(kind, a, b).kind = kind
<1>1. {a, b} \in Copies!Pairs
  BY TwoCopies
<1> QED
  BY <1>1 DEF Copies!Ask, CopyAsk, CopyAsks, Loads, Copies!Verdicts, CopyOrNone

LEMMA CopyReply ==
  ASSUME CopiesTyped, NEW q \in c17, NEW k \in {"ok", "running", "cleared", "error"}
  PROVE  CopyAsk(Copies!Reply(q, k)) /\ Copies!Reply(q, k).kind = q.kind
<1> DEFINE g == IF q.kind = "groups" THEN Copies!OpenGroups ELSE {}
           s == IF q.kind = "shut" THEN c4 ELSE {}
           f == IF q.kind \in {"compare", "copy"} THEN <<c2>> ELSE <<>>
<1>1. g \in SUBSET Copies!Groups
  <2>1. ASSUME NEW h \in c3 PROVE Copies!Hydrated(h) \in Copies!Groups
    BY DEF Copies!Hydrated, Copies!Groups, CopiesTyped, Copies!PairsKept
  <2> QED
    BY <2>1 DEF Copies!OpenGroups
<1>2. s \in SUBSET Copies!Pairs /\ f \in Loads
  BY DEF CopiesTyped, ServerTypes, Loads
<1>3. q.kind \in {"compare", "copy"} => f # <<>>
  OBVIOUS
<1>4. Copies!Reply(q, k) = [q EXCEPT !.answer = k, !.groups = g, !.shut = s, !.families = f]
  BY DEF Copies!Reply
<1>5. CopyAsk(q)
  BY DEF CopiesTyped, CopyAsked
<1> HIDE DEF g, s, f
<1>6. Copies!Reply(q, k) \in CopyAsks
  BY <1>1, <1>2, <1>4, <1>5 DEF CopyAsk, CopyAsks
<1>7. /\ Copies!Reply(q, k).kind = q.kind /\ Copies!Reply(q, k).a = q.a /\ Copies!Reply(q, k).b = q.b
      /\ Copies!Reply(q, k).families = f
  BY <1>4, <1>5 DEF CopyAsk, CopyAsks
<1> QED
  BY <1>3, <1>5, <1>6, <1>7 DEF CopyAsk

LEMMA CopiesLeft ==
  ASSUME CopiesTyped, NEW q \in Copies!Left
  PROVE  CopyAsk(q) /\ q.kind # "copy"
<1>1. PICK x \in c17 : x.kind \in Copies!Verdicts \union {"start", "stop", "open"} /\ q = [x EXCEPT !.here = FALSE]
  BY DEF Copies!Left
<1>2. CopyAsk(x)
  BY DEF CopiesTyped, CopyAsked
<1>3. q \in CopyAsks /\ q.kind = x.kind /\ q.a = x.a /\ q.b = x.b
  BY <1>1, <1>2 DEF CopyAsk, CopyAsks
<1> QED
  BY <1>1, <1>2, <1>3 DEF CopyAsk, Copies!Verdicts

LEMMA ServerJudges ==
  ASSUME CopiesTyped, NEW q \in c17, NEW k,
         \/ Copies!Link(q.a, q.b, k) /\ UNCHANGED c5
         \/ Copies!Promote(q.a, q.b, k) /\ UNCHANGED c5
         \/ q.kind = "dismiss" /\ Copies!Dismiss({q.a, q.b}, k) /\ UNCHANGED c5
         \/ Copies!Delete(q.a, k) /\ UNCHANGED c5
         \/ Copies!StartScan(k) \/ Copies!CancelScan(k)
  PROVE  ServerTypes'
<1> USE DEF CopiesTyped, ServerTypes
<1>1. CASE UNCHANGED <<c1, c2, c4, c5>>
  BY <1>1
<1>2. CASE Copies!Link(q.a, q.b, k) /\ UNCHANGED c5
  <2>1. CASE {q.a, q.b} \subseteq Copies!Rows
    <3>1. c2' \in Copies!Families
      BY <1>2, <2>1 DEF Copies!Link, Copies!Refused, Copies!Rows, Copies!Families
    <3> QED
      BY <1>2, <3>1 DEF Copies!Link, Copies!Refused
  <2> QED
    BY <1>1, <1>2, <2>1 DEF Copies!Link, Copies!Refused
<1>3. CASE Copies!Promote(q.a, q.b, k) /\ UNCHANGED c5
  <2>1. CASE {q.a, q.b} \subseteq Copies!Rows
    <3>1. c2' \in Copies!Families
      BY <1>3, <2>1 DEF Copies!Promote, Copies!Refused, Copies!Rows, Copies!Families
    <3> QED
      BY <1>3, <3>1 DEF Copies!Promote, Copies!Refused
  <2> QED
    BY <1>1, <1>3, <2>1 DEF Copies!Promote, Copies!Refused
<1>4. CASE q.kind = "dismiss" /\ Copies!Dismiss({q.a, q.b}, k) /\ UNCHANGED c5
  <2>1. {q.a, q.b} \in Copies!Pairs
    BY <1>4 DEF CopyAsked, CopyAsk
  <2> QED
    BY <1>4, <2>1 DEF Copies!Dismiss
<1>5. CASE Copies!Delete(q.a, k) /\ UNCHANGED c5
  <2>1. c2' \in Copies!Families
    BY <1>5 DEF Copies!Delete, Copies!Refused, Copies!Families
  <2> QED
    BY <1>5, <2>1 DEF Copies!Delete, Copies!Refused, Copies!Rows
<1>6. CASE Copies!StartScan(k) \/ Copies!CancelScan(k)
  BY <1>6 DEF Copies!StartScan, Copies!CancelScan
<1> QED
  BY <1>2, <1>3, <1>4, <1>5, <1>6

LEMMA CopiesServed ==
  ASSUME CopiesTyped, NEW q \in c17, Copies!Serve(q)
  PROVE  ServerTypes' /\ ListTypes' /\ PairTypes' /\ CopyAsked'
<1>1. PICK k \in {"ok", "running", "cleared", "error"} :
        /\ Copies!Answered(q, k)
        /\ \/ Copies!Link(q.a, q.b, k) /\ UNCHANGED c5
           \/ Copies!Promote(q.a, q.b, k) /\ UNCHANGED c5
           \/ q.kind = "dismiss" /\ Copies!Dismiss({q.a, q.b}, k) /\ UNCHANGED c5
           \/ Copies!Delete(q.a, k) /\ UNCHANGED c5
           \/ c4' = c4 \ {{q.a, q.b}} /\ UNCHANGED <<c1, c2, c5>>
           \/ Copies!StartScan(k) \/ Copies!CancelScan(k)
           \/ UNCHANGED <<c1, c2, c4, c5>>
  BY DEF Copies!Serve, Copies!serverVars
<1>2. ServerTypes'
  BY <1>1, ServerJudges DEF CopiesTyped, ServerTypes
<1>3. ListTypes' /\ PairTypes' /\ c13' = c13
  BY DEF Copies!Serve, Copies!listVars, Copies!compareVars, CopiesTyped, ListTypes, PairTypes
<1>4. CopyAsked'
  <2>1. c17' = (c17 \ {q}) \union {Copies!Reply(q, k)}
    BY <1>1 DEF Copies!Answered
  <2>2. CopyAsk(Copies!Reply(q, k)) /\ Copies!Reply(q, k).kind = q.kind
    BY CopyReply
  <2> QED
    BY <1>3, <2>1, <2>2 DEF CopiesTyped, CopyAsked
<1> QED
  BY <1>2, <1>3, <1>4

LEMMA AsksAdded ==
  ASSUME CopiesTyped, NEW S, \A q \in S : CopyAsk(q) /\ q.kind # "copy",
         c17' \subseteq c17 \union S, c13 # <<>> => c13' # <<>>
  PROVE  CopyAsked'
BY DEF CopiesTyped, CopyAsked

LEMMA PlainAsks ==
  \A kind \in {"groups", "status", "start", "stop", "shut"} :
    CopyAsk(Copies!Ask(kind, 0, 0)) /\ Copies!Ask(kind, 0, 0).kind # "copy"
BY NewCopyAsk DEF CopyOrNone

LEMMA CopiesRun ==
  ASSUME CopiesTyped, NEW q \in c17, NEW r \in BOOLEAN, NEW more,
         more \in SUBSET {Copies!Ask("groups", 0, 0)}, Copies!Runs(q, r, more), UNCHANGED c13
  PROVE  c9' \in BOOLEAN /\ CopyAsked'
<1> DEFINE S == {Copies!Ask("status", 0, 0), Copies!Ask("groups", 0, 0)}
<1>1. c17' \subseteq c17 \union S /\ c9' = r
  BY DEF Copies!Runs
<1>2. \A x \in S : CopyAsk(x) /\ x.kind # "copy"
  BY PlainAsks
<1> HIDE DEF S
<1> QED
  BY <1>1, <1>2, AsksAdded

LEMMA ListMounted ==
  ASSUME CopiesTyped, Copies!Listed(Copies!Left)
  PROVE  ListTypes' /\ PairTypes' /\ CopyAsked'
<1>1. ListTypes' /\ PairTypes'
  BY DEF Copies!Listed, Copies!Lists, ListTypes, PairTypes, CopyOrNone, Loads
<1>2. \A x \in c17' : CopyAsk(x) /\ x.kind # "copy"
  BY CopiesLeft, PlainAsks DEF Copies!Listed
<1> QED
  BY <1>1, <1>2 DEF CopyAsked

LEMMA ListAnswered ==
  ASSUME CopiesTyped, NEW q \in c17,
         \/ Copies!Polled(q) \/ Copies!GroupsLoaded(q) \/ Copies!Started(q) \/ Copies!Stopped(q) \/ Copies!Restored(q)
  PROVE  ListTypes' /\ PairTypes' /\ CopyAsked'
<1>t. CopyAsk(q) /\ ListTypes /\ PairTypes
  BY DEF CopiesTyped, CopyAsked
<1>p. PairTypes' /\ UNCHANGED <<c7, c13>>
  BY <1>t DEF Copies!Polled, Copies!GroupsLoaded, Copies!Started, Copies!Stopped, Copies!Restored,
              Copies!compareVars, PairTypes
<1>f. ASSUME c17' = c17 \ {q} PROVE CopyAsked'
  BY <1>f, <1>p DEF CopiesTyped, CopyAsked
<1>1. CASE Copies!Polled(q)
  <2>1. CASE q.answer = "running" /\ c10
    BY <1>t, <1>p, <1>f, <1>1, <2>1 DEF Copies!Polled, ListTypes
  <2>2. CASE ~(q.answer = "running" /\ c10)
    <3> DEFINE more == IF c9 /\ q.answer = "ok" THEN {Copies!Ask("groups", 0, 0)} ELSE {}
    <3>1. Copies!Runs(q, q.answer = "running", more)
      BY <1>1, <2>2 DEF Copies!Polled
    <3>2. more \in SUBSET {Copies!Ask("groups", 0, 0)}
      OBVIOUS
    <3> HIDE DEF more
    <3>3. c9' \in BOOLEAN /\ CopyAsked'
      BY <1>p, <3>1, <3>2, CopiesRun
    <3> QED
      BY <1>t, <1>p, <1>1, <3>3 DEF Copies!Polled, ListTypes
  <2> QED
    BY <2>1, <2>2
<1>2. CASE Copies!GroupsLoaded(q)
  <2>1. q.groups \subseteq Copies!Groups
    BY <1>t DEF CopyAsk, CopyAsks
  <2> QED
    BY <1>t, <1>p, <1>f, <1>2, <2>1 DEF Copies!GroupsLoaded, ListTypes
<1>3. CASE Copies!Started(q)
  <2>1. CASE q.here
    <3>1. c9' \in BOOLEAN /\ CopyAsked'
      BY <1>p, <1>3, <2>1, CopiesRun DEF Copies!Started
    <3> QED
      BY <1>t, <1>p, <1>3, <3>1 DEF Copies!Started, ListTypes
  <2>2. CASE ~q.here
    BY <1>t, <1>p, <1>f, <1>3, <2>2 DEF Copies!Started, ListTypes
  <2> QED
    BY <2>1, <2>2
<1>4. CASE Copies!Stopped(q)
  <2>1. CASE q.here /\ q.answer = "cleared"
    <3>1. c9' \in BOOLEAN /\ CopyAsked' /\ c10' = TRUE
      BY <1>p, <1>4, <2>1, CopiesRun DEF Copies!Stopped
    <3> QED
      BY <1>t, <1>p, <1>4, <3>1 DEF Copies!Stopped, ListTypes
  <2>2. CASE ~(q.here /\ q.answer = "cleared")
    BY <1>t, <1>p, <1>f, <1>4, <2>2 DEF Copies!Stopped, ListTypes
  <2> QED
    BY <2>1, <2>2
<1>5. CASE Copies!Restored(q)
  <2>1. q.shut \subseteq Copies!Pairs
    BY <1>t DEF CopyAsk, CopyAsks
  <2>2. c11' \subseteq Copies!Pairs
    BY <1>t, <1>5, <2>1 DEF Copies!Restored, ListTypes
  <2> QED
    BY <1>t, <1>p, <1>f, <1>5, <2>2 DEF Copies!Restored, ListTypes
<1> QED
  BY <1>1, <1>2, <1>3, <1>4, <1>5

LEMMA PairAnswered ==
  ASSUME CopiesTyped, NEW q \in c17, q.answer # "none", Copies!Loaded(q) \/ Copies!Judged(q) \/ Copies!Copied(q)
  PROVE  ListTypes' /\ PairTypes' /\ CopyAsked'
<1>t. CopyAsk(q) /\ (q.kind = "copy" => c13 # <<>>) /\ ListTypes /\ PairTypes
  BY DEF CopiesTyped, CopyAsked
<1>f. ASSUME c17' = c17 \ {q}, c13 # <<>> => c13' # <<>> PROVE CopyAsked'
  BY <1>f DEF CopiesTyped, CopyAsked
<1>1. CASE Copies!Loaded(q)
  <2>1. ListTypes' /\ c17' = c17 \ {q} /\ UNCHANGED <<c7, c12, c15, c16>>
    BY <1>t, <1>1 DEF Copies!Loaded, Copies!listVars, ListTypes
  <2>2. CASE q.answer = "ok"
    <3>1. q.families \in Loads /\ q.families # <<>> /\ {q.a, q.b} \subseteq Copies!Copies
      BY <1>t, <1>1, <2>2 DEF Copies!Loaded, CopyAsk, CopyAsks
    <3>2. Copies!Min({q.a, q.b}) \in Copies!Copies
      BY <3>1, LeastCopy
    <3>3. c13' = q.families /\ c14' = Copies!Min({q.a, q.b})
      BY <1>1, <2>2 DEF Copies!Loaded
    <3> QED
      BY <1>t, <1>f, <2>1, <3>1, <3>2, <3>3 DEF PairTypes, CopyOrNone
  <2>3. CASE q.answer # "ok"
    BY <1>t, <1>f, <1>1, <2>1, <2>3 DEF Copies!Loaded, PairTypes
  <2> QED
    BY <2>2, <2>3
<1>2. CASE Copies!Judged(q)
  <2>1. CASE q.answer # "error" /\ c7 = "compare"
    <3>1. Copies!Listed(Copies!Left \ {[q EXCEPT !.here = FALSE]})
      BY <1>2, <2>1 DEF Copies!Judged
    <3>2. ListTypes' /\ PairTypes'
      BY <3>1 DEF Copies!Listed, Copies!Lists, ListTypes, PairTypes, CopyOrNone, Loads
    <3>3. \A x \in c17' : CopyAsk(x) /\ x.kind # "copy"
      BY <3>1, CopiesLeft, PlainAsks DEF Copies!Listed
    <3> QED
      BY <3>2, <3>3 DEF CopyAsked
  <2>2. CASE ~(q.answer # "error" /\ c7 = "compare")
    <3>1. /\ c17' = c17 \ {q} /\ c16' = (c16 /\ ~q.here)
          /\ UNCHANGED <<c7, c8, c9, c10, c11, c12, c13, c14, c15>>
      BY <1>2, <2>2 DEF Copies!Judged, Copies!listVars
    <3> QED
      BY <1>t, <1>f, <3>1 DEF ListTypes, PairTypes
  <2> QED
    BY <2>1, <2>2
<1>3. CASE Copies!Copied(q)
  <2>1. q.families \in Loads /\ q.families # <<>> /\ c13 # <<>>
    BY <1>t, <1>3 DEF Copies!Copied, CopyAsk, CopyAsks
  <2>2. /\ c17' = c17 \ {q} /\ c16' = FALSE /\ c13' \in {c13, q.families}
        /\ UNCHANGED <<c7, c8, c9, c10, c11, c12, c14, c15>>
    BY <1>3 DEF Copies!Copied, Copies!listVars
  <2>3. c13' \in Loads /\ c13' # <<>> /\ c14 \in Copies!Copies
    BY <1>t, <2>1, <2>2 DEF PairTypes
  <2>4. PairTypes'
    BY <1>t, <2>2, <2>3 DEF PairTypes
  <2> QED
    BY <1>t, <1>f, <2>2, <2>3, <2>4 DEF ListTypes
<1> QED
  BY <1>1, <1>2, <1>3

LEMMA ReadyPair ==
  ASSUME CopiesTyped, Copies!Ready
  PROVE  /\ c12[1] \in Copies!Copies /\ c12[2] \in Copies!Copies /\ c12[1] # c12[2]
         /\ c14 \in Copies!Copies /\ Copies!ChildId \in Copies!Copies
         /\ Copies!ChildsMain \in CopyOrNone
<1>1. PICK l, r \in Copies!Copies : c12 = <<l, r>> /\ l # r
  BY DEF Copies!Ready, CopiesTyped, PairTypes
<1>2. c13[1] \in Copies!Families /\ c14 \in Copies!Copies
  BY OneLoad DEF Copies!Ready, CopiesTyped, PairTypes
<1>3. Copies!ChildId \in Copies!Copies
  BY <1>1 DEF Copies!ChildId
<1> QED
  BY <1>1, <1>2, <1>3 DEF Copies!ChildsMain, Copies!Families, CopyOrNone

LEMMA ListSteps ==
  ASSUME CopiesTyped, NCopies \in Nat,
         \/ Copies!Poll \/ Copies!StartButton \/ Copies!StopButton \/ Copies!Dismissals
  PROVE  ServerTypes' /\ ListTypes' /\ PairTypes' /\ CopyAsked'
<1>t. ServerTypes /\ ListTypes /\ PairTypes
  BY DEF CopiesTyped
<1>1. \E kind \in {"status", "start", "stop", "shut", "open"}, a \in CopyOrNone, b \in CopyOrNone :
        Copies!Send({Copies!Ask(kind, a, b)})
  <2>1. ASSUME NEW e \in Copies!Pairs, Copies!Restore(e)
        PROVE  Copies!Send({Copies!Ask("open", Copies!Min(e), Copies!Max(e))})
    BY <2>1 DEF Copies!Restore, Copies!Listing
  <2>2. 0 \in CopyOrNone /\ \A e \in Copies!Pairs : Copies!Min(e) \in CopyOrNone /\ Copies!Max(e) \in CopyOrNone
    BY EndsOfAPair DEF CopyOrNone
  <2> QED
    BY <2>1, <2>2 DEF Copies!Poll, Copies!StartButton, Copies!StopButton, Copies!Dismissals,
                      Copies!ShowDismissed, Copies!Listing
<1>2. /\ UNCHANGED <<c1, c2, c3, c4, c5, c6, c7, c8, c9, c11, c12, c13, c14, c15, c16>>
      /\ c10' \in {c10, FALSE}
  BY DEF Copies!Poll, Copies!StartButton, Copies!StopButton, Copies!Dismissals, Copies!ShowDismissed,
         Copies!Restore, Copies!Listing, Copies!serverVars, Copies!listVars, Copies!compareVars
<1>3. CopyAsked'
  <2>1. PICK kind \in {"status", "start", "stop", "shut", "open"}, a \in CopyOrNone, b \in CopyOrNone :
          Copies!Send({Copies!Ask(kind, a, b)})
    BY <1>1
  <2> DEFINE S == {Copies!Ask(kind, a, b)}
  <2>2. \A q \in S : CopyAsk(q) /\ q.kind # "copy"
    BY NewCopyAsk
  <2>3. c17' \subseteq c17 \union S
    BY <2>1 DEF Copies!Send
  <2> HIDE DEF S
  <2> QED
    BY <1>2, <2>2, <2>3, AsksAdded
<1> QED
  BY <1>t, <1>2, <1>3 DEF ServerTypes, ListTypes, PairTypes

LEMMA CopiesJudged ==
  ASSUME CopiesTyped, NEW q, CopyAsk(q), q.kind = "copy" => c13 # <<>>, Copies!Judges(q)
  PROVE  ServerTypes' /\ ListTypes' /\ PairTypes' /\ CopyAsked'
<1>1. c17' = c17 \union {q} /\ c13' = c13
  BY DEF Copies!Judges, Copies!Send
<1>2. CopyAsked'
  BY <1>1 DEF CopiesTyped, CopyAsked
<1> QED
  BY <1>2 DEF Copies!Judges, Copies!serverVars, Copies!listVars, CopiesTyped, ServerTypes, ListTypes, PairTypes

LEMMA CopiesChosen ==
  ASSUME CopiesTyped, NEW k \in Copies!Copies, NEW c \in CopyOrNone, Copies!Choosing(k, c)
  PROVE  ServerTypes' /\ ListTypes' /\ PairTypes' /\ CopyAsked'
<1>1. CopyAsked'
  BY DEF Copies!Choosing, CopiesTyped, CopyAsked
<1> QED
  BY <1>1 DEF Copies!Choosing, Copies!serverVars, Copies!listVars, CopiesTyped, ServerTypes, ListTypes, PairTypes, CopyOrNone

LEMMA PairSteps ==
  ASSUME CopiesTyped, NCopies \in Nat,
         \/ Copies!DecisionBar \/ Copies!DeleteDialog \/ Copies!Column \/ Copies!SwapParent \/ Copies!CopyMetadata
         \/ Copies!PairRow
  PROVE  ServerTypes' /\ ListTypes' /\ PairTypes' /\ CopyAsked'
<1> DEFINE Good == ServerTypes' /\ ListTypes' /\ PairTypes' /\ CopyAsked'
<1>t. ServerTypes /\ ListTypes /\ PairTypes
  BY DEF CopiesTyped
<1>o. \A c \in Copies!Copies : c \in CopyOrNone
  BY DEF CopyOrNone
<1>1. CASE Copies!LinkPair
  <2>1. \E kind \in {"promote", "link"} : Copies!Judges(Copies!Ask(kind, c14, Copies!ChildId))
    BY <1>1 DEF Copies!LinkPair
  <2>2. c14 \in CopyOrNone /\ Copies!ChildId \in CopyOrNone
    BY <1>o, <1>1, ReadyPair DEF Copies!LinkPair
  <2> QED
    BY <2>1, <2>2, NewCopyAsk, CopiesJudged
<1>2. CASE Copies!PromoteOverFamily
  <2>1. Copies!Judges(Copies!Ask("promote", c14, Copies!ChildsMain))
    BY <1>2 DEF Copies!PromoteOverFamily
  <2>2. c14 \in CopyOrNone /\ Copies!ChildsMain \in CopyOrNone
    BY <1>o, <1>2, ReadyPair DEF Copies!PromoteOverFamily
  <2> QED
    BY <2>1, <2>2, NewCopyAsk, CopiesJudged
<1>3. CASE Copies!DismissPair
  <2>1. Copies!Judges(Copies!Ask("dismiss", c12[1], c12[2])) /\ Copies!Ready
    BY <1>3 DEF Copies!DismissPair
  <2> QED
    BY <2>1, ReadyPair, NewPairAsk, CopiesJudged
<1>4. CASE Copies!ConfirmDelete
  <2>1. Copies!Judges(Copies!Ask("delete", c15, 0)) /\ c15 \in CopyOrNone /\ 0 \in CopyOrNone
    BY <1>t, <1>4 DEF Copies!ConfirmDelete, PairTypes, CopyOrNone
  <2> QED
    BY <2>1, NewCopyAsk, CopiesJudged
<1>5. CASE Copies!CopyMetadata
  <2>1. Copies!Judges(Copies!Ask("copy", c12[1], c12[2])) /\ Copies!Ready /\ c13 # <<>>
    BY <1>5 DEF Copies!CopyMetadata, Copies!Ready
  <2>2. c12[1] \in CopyOrNone /\ c12[2] \in CopyOrNone
    BY <1>o, <2>1, ReadyPair
  <2> QED
    BY <2>1, <2>2, NewCopyAsk, CopiesJudged
<1>6. ASSUME NEW k, NEW c, Copies!Choosing(k, c),
             k \in {c14, c12[1], c12[2], Copies!ChildId}, c \in {c15, 0, c12[1], c12[2]}
      PROVE  Good
  <2>1. k \in Copies!Copies /\ c12[1] \in CopyOrNone /\ c12[2] \in CopyOrNone
    BY <1>o, <1>6, ReadyPair DEF Copies!Choosing
  <2>2. c \in CopyOrNone
    BY <1>t, <1>6, <2>1 DEF PairTypes, CopyOrNone
  <2> QED
    BY <1>6, <2>1, <2>2, CopiesChosen
<1>7. CASE Copies!Column
  BY <1>6, <1>7 DEF Copies!Column, Copies!MakeParent, Copies!AskDelete
<1>8. CASE Copies!SwapParent \/ Copies!CancelDelete
  BY <1>6, <1>8 DEF Copies!SwapParent, Copies!CancelDelete
<1>9. CASE Copies!CompareWithMain
  <2> DEFINE m == Copies!ChildsMain
  <2>1. /\ c14 \in Copies!Copies /\ m \in Copies!Copies /\ c14 # m
    BY <1>9, ReadyPair DEF Copies!CompareWithMain, CopyOrNone
  <2>2. /\ c7' = "compare" /\ c12' = <<c14, m>> /\ c17' = c17 \union {Copies!Ask("compare", c14, m)}
        /\ UNCHANGED <<c1, c2, c3, c4, c5, c6, c8, c9, c10, c11, c13, c14, c15, c16>>
    BY <1>9 DEF Copies!CompareWithMain, Copies!Compares, Copies!serverVars, Copies!listVars
  <2> HIDE DEF m
  <2>3. CopyAsked'
    <3> DEFINE S == {Copies!Ask("compare", c14, m)}
    <3>1. \A q \in S : CopyAsk(q) /\ q.kind # "copy"
      BY <2>1, NewPairAsk
    <3>2. c17' \subseteq c17 \union S
      BY <2>2
    <3> HIDE DEF S
    <3> QED
      BY <2>2, <3>1, <3>2, AsksAdded
  <2>4. c12' \in Copies!Copies \X Copies!Copies
    BY <2>1, <2>2
  <2> QED
    BY <1>t, <2>1, <2>2, <2>3, <2>4 DEF ServerTypes, ListTypes, PairTypes
<1>10. ASSUME NEW l, NEW r, Copies!OpenCompare(l, r) PROVE Good
  <2>1. l \in Copies!Copies /\ r \in Copies!Copies /\ l # r
    BY <1>t, <1>10, TwoAreListed DEF Copies!OpenCompare, ListTypes
  <2>2. /\ c7' = "compare" /\ c12' = <<l, r>> /\ c17' = Copies!Left \union {Copies!Ask("compare", l, r)}
        /\ c13' = <<>> /\ c14' = 0 /\ c15' = 0 /\ c16' = FALSE
        /\ UNCHANGED <<c1, c2, c3, c4, c5, c6, c8, c9, c10, c11>>
    BY <1>10 DEF Copies!OpenCompare, Copies!Compares, Copies!serverVars, Copies!listVars
  <2>3. CopyAsked'
    BY <2>1, <2>2, NewPairAsk, CopiesLeft DEF CopyAsked
  <2>4. c12' \in Copies!Copies \X Copies!Copies
    BY <2>1, <2>2
  <2> QED
    BY <1>t, <2>1, <2>2, <2>3, <2>4 DEF ServerTypes, ListTypes, PairTypes, CopyOrNone, Loads
<1> QED
  BY <1>1, <1>2, <1>3, <1>4, <1>5, <1>7, <1>8, <1>9, <1>10
  DEF Copies!DecisionBar, Copies!FamilyNotice, Copies!DeleteDialog, Copies!PairRow

LEMMA CopiesStep ==
  ASSUME NCopies \in Nat, CopiesTyped, Copies!Next
  PROVE  CopiesTyped'
<1> DEFINE Good == ServerTypes' /\ ListTypes' /\ PairTypes' /\ CopyAsked'
<1>1. Copies!PairsKept'
  BY DuplicatesStep DEF CopiesTyped
<1>2. ASSUME NEW q \in c17, Copies!Arrives(q) PROVE Good
  <2>1. q.answer # "none" /\ ServerTypes'
    BY <1>2 DEF Copies!Arrives, Copies!serverVars, CopiesTyped, ServerTypes
  <2> QED
    BY <1>2, <2>1, ListAnswered, PairAnswered DEF Copies!Arrives
<1>3. ASSUME Copies!ScanEnds \/ Copies!ScanDies PROVE Good
  BY <1>3 DEF Copies!ScanEnds, Copies!ScanDies, Copies!listVars, Copies!compareVars,
              CopiesTyped, ServerTypes, ListTypes, PairTypes, CopyAsked
<1>4. ASSUME Copies!Back PROVE Good
  BY <1>4, ListMounted DEF Copies!Back, Copies!serverVars, CopiesTyped, ServerTypes
<1>5. ASSUME Copies!Costs \/ Copies!Free \/ Copies!Poll PROVE Good
  BY <1>5, ListSteps, PairSteps DEF Copies!Costs, Copies!Free, Copies!ScanPanel
<1>6. Good
  BY <1>2, <1>3, <1>4, <1>5, CopiesServed DEF Copies!Next
<1> QED
  BY <1>1, <1>6 DEF CopiesTyped

LEMMA CopiesBegin == ASSUME NCopies \in Nat, Copies!Init, Copies!PairsKept PROVE CopiesTyped
<1>1. ServerTypes /\ ListTypes /\ PairTypes
  BY DEF Copies!Init, ServerTypes, ListTypes, PairTypes, CopyOrNone, Loads, Copies!Families
<1>2. CopyAsked
  BY PlainAsks DEF Copies!Init, CopyAsked
<1> QED
  BY <1>1, <1>2 DEF CopiesTyped

-----------------------------------------------------------------------------
(* A campaign: c1 me, c2 server, c3 seen, c4 loaded, c5 panel, c6 asks,     *)
(* c7 writes                                                                *)

PartyPanels == {"none", "invite", "edit", "replace", "error"}
PartyAsk(a) ==
  /\ a.state \in {"sent", "ok", "refused"} /\ a.reply \in Party!Campaigns
  /\ a.do = "load" => a.arg \in Party!Parts
PartyAsked == c7 \in 0..MaxCampaignWrites /\ \A a \in c6 : PartyAsk(a)
PartySeen == c3 \in Party!Campaigns /\ c4 \subseteq Party!Parts /\ c5 \in PartyPanels
PartyTyped == Party!CampaignKept /\ PartySeen /\ PartyAsked

LEMMA PartyTypes == PartyTyped => Party!CampaignTypeOK
BY DEF PartyTyped, PartySeen, PartyAsked, PartyAsk, PartyPanels, Party!CampaignKept, Party!CampaignTypeOK

LEMMA FreshCampaign == Party!Fresh \in Party!Campaigns
BY DEF Party!Fresh, Party!Campaigns

LEMMA CampaignParts ==
  ASSUME NEW new \in Party!Campaigns, NEW old \in Party!Campaigns, NEW F
  PROVE  [f \in DOMAIN Party!Fresh |-> IF f \in F THEN new[f] ELSE old[f]] \in Party!Campaigns
<1> DEFINE x == [f \in DOMAIN Party!Fresh |-> IF f \in F THEN new[f] ELSE old[f]]
           y == [archived |-> x.archived, member |-> x.member, sheet |-> x.sheet, sched |-> x.sched,
                 marked |-> x.marked, cancelled |-> x.cancelled]
<1>1. DOMAIN Party!Fresh = {"archived", "member", "sheet", "sched", "marked", "cancelled"}
  BY DEF Party!Fresh
<1>2. x = y
  BY <1>1
<1>3. /\ x.archived \in BOOLEAN /\ x.member \in {"out", "invited", "accepted", "declined"}
      /\ x.sheet \in BOOLEAN /\ x.sched \in {"none", "off", "on"}
      /\ x.marked \in SUBSET Party!Users /\ x.cancelled \in BOOLEAN
  BY <1>1 DEF Party!Campaigns
<1> HIDE DEF x
<1>4. y \in Party!Campaigns
  BY <1>3 DEF Party!Campaigns
<1> QED
  BY <1>2, <1>4 DEF x

LEMMA PartyRequests ==
  /\ \A part \in Party!Parts : PartyAsk(Party!Load(part))
  /\ \A parts \in SUBSET Party!Parts : \A a \in Party!Loads(parts) : PartyAsk(a)
  /\ \A do, arg : do # "load" => PartyAsk(Party!Write(do, arg))
<1>1. \A part \in Party!Parts : PartyAsk(Party!Load(part))
  BY FreshCampaign DEF PartyAsk, Party!Load
<1>2. \A do, arg : do # "load" => PartyAsk(Party!Write(do, arg))
  BY FreshCampaign DEF PartyAsk, Party!Write
<1> QED
  BY <1>1, <1>2 DEF Party!Loads

LEMMA PartyServed ==
  ASSUME PartyTyped, NEW a \in c6, Party!Serve(a)
  PROVE  PartySeen' /\ PartyAsked'
<1>1. PartySeen' /\ c7' = c7
  BY DEF Party!Serve, PartyTyped, PartySeen
<1>2. \E s \in {"ok", "refused"}, r \in Party!Campaigns : Party!Answered(a, s, r)
  <2> DEFINE r == [f \in DOMAIN Party!Fresh |-> IF f \in Party!FieldsOf(a.arg) THEN c2[f] ELSE Party!Fresh[f]]
  <2>1. r \in Party!Campaigns
    BY CampaignParts, FreshCampaign DEF PartyTyped, Party!CampaignKept
  <2>2. Party!Answered(a, "ok", r) \/ Party!Answered(a, "refused", Party!Fresh) \/ Party!Answered(a, "ok", Party!Fresh)
    BY DEF Party!Serve
  <2> HIDE DEF r
  <2> QED
    BY <2>1, <2>2, FreshCampaign
<1>3. PICK s \in {"ok", "refused"}, r \in Party!Campaigns : Party!Answered(a, s, r)
  BY <1>2
<1>4. PartyAsk([a EXCEPT !.state = s, !.reply = r])
  BY DEF PartyTyped, PartyAsked, PartyAsk, Party!CampaignKept, Party!WellAsked, Party!AskFields
<1>5. c6' = (c6 \ {a}) \union {[a EXCEPT !.state = s, !.reply = r]}
  BY <1>3 DEF Party!Answered
<1> QED
  BY <1>1, <1>4, <1>5 DEF PartyTyped, PartyAsked

LEMMA PartyMounted ==
  ASSUME PartyTyped, UNCHANGED c7, c3' = Party!Fresh, c4' = {}, c5' = "none", c6' = Party!Loads(Party!Parts)
  PROVE  PartySeen' /\ PartyAsked'
BY FreshCampaign, PartyRequests DEF PartyTyped, PartySeen, PartyAsked, PartyPanels

LEMMA PartyAnswered ==
  ASSUME PartyTyped, NEW a \in c6, a.state # "sent", Party!Loaded(a) \/ Party!Written(a)
  PROVE  PartySeen' /\ PartyAsked'
<1>t. PartySeen /\ PartyAsked /\ PartyAsk(a)
  BY DEF PartyTyped, PartyAsked
<1>1. CASE Party!Loaded(a)
  <2>1. c6' = c6 \ {a} /\ c7' = c7 /\ c5' \in PartyPanels
    BY <1>t, <1>1 DEF Party!Loaded, PartySeen, PartyPanels
  <2>2. CASE a.state = "ok"
    <3> DEFINE r == [f \in DOMAIN Party!Fresh |-> IF f \in Party!FieldsOf(a.arg) THEN a.reply[f] ELSE c3[f]]
    <3>1. r \in Party!Campaigns
      BY <1>t, CampaignParts DEF PartyAsk, PartySeen
    <3>2. c3' = r /\ c4' = c4 \union {a.arg}
      BY <1>1, <2>2 DEF Party!Loaded
    <3> HIDE DEF r
    <3>3. a.arg \in Party!Parts
      BY <1>t, <1>1 DEF Party!Loaded, PartyAsk
    <3> QED
      BY <1>t, <2>1, <3>1, <3>2, <3>3 DEF PartySeen, PartyAsked
  <2>3. CASE a.state # "ok"
    <3>1. c3' = c3 /\ c4' \subseteq c4
      BY <1>1, <2>3 DEF Party!Loaded
    <3> QED
      BY <1>t, <2>1, <3>1 DEF PartySeen, PartyAsked
  <2> QED
    BY <2>2, <2>3
<1>2. CASE Party!Written(a)
  <2>1. CASE a.state = "ok" /\ a.do = "remove" /\ c1 = "pl"
    <3>1. c7' = c7 /\ c3' = Party!Fresh /\ c4' = {} /\ c5' = "none" /\ c6' = Party!Loads(Party!Parts)
      BY <1>2, <2>1 DEF Party!Written
    <3> QED
      BY <3>1, PartyMounted
  <2>2. CASE ~(a.state = "ok" /\ a.do = "remove" /\ c1 = "pl")
    <3>1. /\ c6' \subseteq c6 \union Party!Loads(Party!After(a.do)) /\ UNCHANGED <<c3, c4, c7>>
          /\ c5' \in {c5, "none"}
      BY <1>2, <2>2 DEF Party!Written
    <3>2. Party!After(a.do) \in SUBSET Party!Parts
      BY DEF Party!After, Party!Parts
    <3> QED
      BY <1>t, <3>1, <3>2, PartyRequests DEF PartySeen, PartyAsked, PartyPanels
  <2> QED
    BY <2>1, <2>2
<1> QED
  BY <1>1, <1>2

LEMMA PartySends ==
  ASSUME MaxCampaignWrites \in Nat, PartyTyped, NEW do, NEW arg, do # "load", Party!Send(do, arg), c5' \in {c5, "none"}
  PROVE  PartySeen' /\ PartyAsked'
<1>1. c7' \in 0..MaxCampaignWrites /\ c6' = c6 \union {Party!Write(do, arg)} /\ UNCHANGED <<c3, c4>>
  BY DEF Party!Send, PartyTyped, PartyAsked
<1> QED
  BY <1>1, PartyRequests DEF PartyTyped, PartySeen, PartyAsked, PartyPanels

LEMMA PartyStep ==
  ASSUME MaxCampaignWrites \in Nat, PartyTyped, Party!Next
  PROVE  PartyTyped'
<1> DEFINE Good == PartySeen' /\ PartyAsked'
<1>1. Party!CampaignKept'
  BY CampaignStep DEF PartyTyped
<1>2. ASSUME NEW a \in c6, Party!Arrives(a) PROVE Good
  BY <1>2, PartyAnswered DEF Party!Arrives
<1>3. ASSUME Party!Elsewhere PROVE Good
  BY <1>3 DEF Party!Elsewhere, PartyTyped, PartySeen, PartyAsked
<1>4. ASSUME Party!Leave PROVE Good
  BY <1>4, PartyMounted DEF Party!Leave
<1>5. ASSUME NEW p \in PartyPanels, Party!Open(p) PROVE Good
  BY <1>5 DEF Party!Open, PartyTyped, PartySeen, PartyAsked
<1>6. ASSUME NEW do, NEW arg, do # "load", Party!Ask(do, arg) PROVE Good
  BY <1>6, PartySends DEF Party!Ask
<1>7. {"none", "invite", "edit", "replace"} \subseteq PartyPanels
  BY DEF PartyPanels
<1>8. ASSUME Party!Header PROVE Good
  BY <1>4, <1>5, <1>6, <1>7, <1>8 DEF Party!Header, Party!ToggleArchived, Party!LeaveCampaign
<1>9. ASSUME Party!Roster PROVE Good
  BY <1>5, <1>6, <1>7, <1>9 DEF Party!Roster, Party!InvitePanel, Party!Invite
<1>10. ASSUME Party!MemberRow PROVE Good
  BY <1>6, <1>10 DEF Party!MemberRow, Party!Respond, Party!RemoveMember
<1>11. ASSUME Party!Sheet PROVE Good
  BY <1>5, <1>6, <1>7, <1>11, PartySends DEF Party!Sheet, Party!UploadSheet, Party!ReplaceSheet, Party!RemoveSheet
<1>12. ASSUME Party!AvailabilityCell PROVE Good
  BY <1>6, <1>12 DEF Party!AvailabilityCell, Party!CancelDate, Party!SetAvailability
<1>13. ASSUME Party!Editor PROVE Good
  BY <1>5, <1>6, <1>7, <1>13 DEF Party!Editor, Party!ScheduleSetup, Party!ToggleSchedule, Party!ScheduleEditor,
                                 Party!SaveSchedule, Party!DeleteSchedule
<1>14. Good
  BY <1>2, <1>3, <1>8, <1>9, <1>10, <1>11, <1>12, <1>13, PartyServed DEF Party!Next
<1> QED
  BY <1>1, <1>14 DEF PartyTyped

LEMMA PartyBegins == ASSUME MaxCampaignWrites \in Nat, Party!Init PROVE PartyTyped
<1>1. c2 \in Party!Campaigns
  BY DEF Party!Init, Party!Campaigns, Party!Fresh
<1>2. Party!CampaignKept
  BY <1>1, WritesAsked DEF Party!Init, Party!CampaignKept
<1> QED
  BY <1>2, FreshCampaign, PartyRequests DEF Party!Init, PartyTyped, PartySeen, PartyAsked, PartyPanels

-----------------------------------------------------------------------------
(* The links of a campaign: c2 links, c4 managed, c5 dialog, c6 picked,     *)
(* c7 held, c8 busy, c9 requests, c10 written                               *)

LinkAsk(r) ==
  /\ {"state", "own", "links", "cats"} \subseteq DOMAIN r
  /\ r.state \in {"sent", "ok", "failed"} /\ r.links \in Links!Links /\ r.cats \subseteq Links!Cats
LinksAsked == \A r \in c9 : LinkAsk(r)
LinksDialog ==
  /\ c5 \in {"none", "pick", "manage", "delete"} /\ c6 \subseteq Things
  /\ c7 \in Links!Cats \union {0} /\ c8 \in BOOLEAN /\ c10 \in 0..MaxWrites
LinksSeen == c2 \in Links!Links /\ c4 \subseteq Links!Cats
LinksRest == LinksSeen /\ LinksDialog /\ LinksAsked
LinksTyped == Links!Numbered /\ LinksRest

LEMMA ResourcesTypes == LinksTyped => Links!ResourcesTypeOK
BY DEF LinksTyped, LinksRest, LinksSeen, LinksDialog, LinksAsked, LinkAsk, Links!Numbered, Links!ResourcesTypeOK

LEMMA NoLinks == MaxCats \in Nat => Links!Nothing \in Links!Links
BY DEF Links!Nothing, Links!Links, Links!Unlinked

LEMMA LinkRequests ==
  MaxCats \in Nat => \A do, item, to, set : LinkAsk(Links!Write(do, item, to, set))
BY NoLinks DEF LinkAsk, Links!Write

LEMMA ResourcesBegin ==
  ASSUME MaxCats \in Nat \ {0}, MaxWrites \in Nat, Links!Init
  PROVE  LinksTyped
<1>1. c1 \in [links : Links!Links, cats : SUBSET Links!Cats, made : 0..MaxCats]
  <2>1. PICK l \in [Things -> {-1, 1}] : c1 = [links |-> l, cats |-> {1}, made |-> 1]
    BY DEF Links!Init, Links!Unlinked
  <2> QED
    BY <2>1 DEF Links!Links, Links!Cats, Links!Unlinked
<1>2. LinksAsked
  BY LinkRequests DEF LinksAsked, Links!Init, Links!Refetches, Links!Load
<1>3. Links!Numbered
  BY <1>1, <1>2 DEF LinksAsked, LinkAsk, Links!Init, Links!Numbered
<1>4. LinksSeen /\ LinksDialog
  <2>1. c2 = Links!Nothing /\ c4 = {} /\ c5 = "none" /\ c6 = {} /\ c7 = 0 /\ c8 = FALSE /\ c10 = 0
    BY DEF Links!Init
  <2>2. c10 \in 0..MaxWrites
    BY <2>1
  <2>3. LinksSeen
    BY <2>1, NoLinks DEF LinksSeen
  <2> QED
    BY <2>1, <2>2, <2>3 DEF LinksDialog
<1> QED
  BY <1>2, <1>3, <1>4 DEF LinksTyped, LinksRest

LEMMA ResourcesTypedStep ==
  ASSUME MaxCats \in Nat, MaxWrites \in Nat, LinksTyped, Links!Next
  PROVE  LinksTyped'
<1>0. LinksSeen /\ LinksDialog /\ LinksAsked /\ Links!Numbered
  BY DEF LinksTyped, LinksRest
<1>n. Links!Numbered'
  BY <1>0, ResourcesStep
<1>w. \A do, item, to, set : LinkAsk(Links!Write(do, item, to, set))
  BY LinkRequests
<1>s. (UNCHANGED <<c2, c4>> => LinksSeen') /\ (UNCHANGED <<c5, c6, c7, c8, c10>> => LinksDialog')
      /\ (UNCHANGED c9 => LinksAsked')
  BY <1>0 DEF LinksSeen, LinksDialog, LinksAsked, LinkAsk, Links!Links, Links!Cats, Links!Unlinked
<1>e. Links!Empty.links \in Links!Links /\ Links!Empty.cats \subseteq Links!Cats
  BY NoLinks DEF Links!Empty
<1>v. c1.links \in Links!Links /\ c1.cats \subseteq Links!Cats
  BY <1>0 DEF Links!Numbered
<1>a. ASSUME NEW r \in c9, NEW s \in {"ok", "failed"}, NEW new,
             new.links \in Links!Links, new.cats \subseteq Links!Cats, Links!Answered(r, s, new)
      PROVE  LinksAsked'
  BY <1>0, <1>a DEF Links!Answered, LinksAsked, LinkAsk
<1>1. ASSUME NEW r \in c9, Links!Serve(r) PROVE LinksRest'
  <2>1. LinksSeen' /\ LinksDialog'
    BY <1>1, <1>s DEF Links!Serve
  <2> DEFINE new == IF r.do \in {"links", "cats", "managed"} THEN c1 ELSE Links!Empty
  <2>2. new.links \in Links!Links /\ new.cats \subseteq Links!Cats
    BY <1>e, <1>v
  <2>3. Links!Answered(r, "failed", Links!Empty) \/ Links!Answered(r, "ok", new)
    BY <1>1 DEF Links!Serve
  <2> HIDE DEF new
  <2>4. LinksAsked'
    BY <1>a, <1>e, <2>2, <2>3
  <2> QED
    BY <2>1, <2>4 DEF LinksRest
<1>2. ASSUME Links!Elsewhere PROVE LinksRest'
  BY <1>2, <1>0, <1>s DEF Links!Elsewhere, LinksDialog, LinksRest
<1>3. ASSUME NEW r \in c9, Links!Fetched(r) PROVE LinksRest'
  <2>1. LinkAsk(r)
    BY <1>0 DEF LinksAsked
  <2>2. LinksSeen'
    BY <1>0, <1>3, <2>1 DEF Links!Fetched, LinksSeen, LinkAsk
  <2>3. LinksDialog' /\ LinksAsked'
    BY <1>0, <1>3, <1>s DEF Links!Fetched, LinksAsked
  <2> QED
    BY <2>2, <2>3 DEF LinksRest
<1>4. ASSUME NEW r \in c9, Links!Wrote(r) PROVE LinksRest'
  <2>1. \A q \in Links!Then(r) : LinkAsk(q)
    BY <1>w DEF Links!Then, Links!Refetches, Links!Load
  <2>2. LinksAsked'
    BY <1>0, <1>4, <2>1 DEF Links!Wrote, LinksAsked
  <2>3. LinksDialog'
    BY <1>0, <1>4 DEF Links!Wrote, LinksDialog
  <2>4. LinksSeen'
    BY <1>4, <1>s DEF Links!Wrote
  <2> QED
    BY <2>2, <2>3, <2>4 DEF LinksRest
<1>5. ASSUME NEW w, LinkAsk(w), Links!Put(w) \/ Links!Wait(w) PROVE LinksRest'
  <2>1. LinksAsked'
    BY <1>0, <1>5 DEF Links!Put, Links!Wait, Links!Send, LinksAsked
  <2>2. LinksDialog'
    <3>1. c10 < MaxWrites /\ c10' = c10 + 1 /\ UNCHANGED <<c5, c6, c7>>
      BY <1>5 DEF Links!Put, Links!Wait, Links!Send
    <3>2. c8' \in BOOLEAN
      BY <1>0, <1>5 DEF Links!Put, Links!Wait, LinksDialog
    <3>3. c10' \in 0..MaxWrites
      BY <1>0, <3>1 DEF LinksDialog
    <3> QED
      BY <1>0, <3>1, <3>2, <3>3 DEF LinksDialog
  <2>3. LinksSeen'
    BY <1>5, <1>s DEF Links!Put, Links!Wait, Links!Send
  <2> QED
    BY <2>1, <2>2, <2>3 DEF LinksRest
<1>6. ASSUME NEW d \in {"pick", "manage", "delete"}, NEW h \in Links!Cats \union {0},
             Links!Show(d, h, {}) \/ Links!Show(d, h, {Links!Load("managed")})
      PROVE  LinksRest'
  <2>1. LinksAsked'
    BY <1>0, <1>6, <1>w DEF Links!Show, Links!Load, LinksAsked
  <2>2. LinksDialog'
    BY <1>0, <1>6 DEF Links!Show, LinksDialog
  <2>3. LinksSeen'
    BY <1>6, <1>s DEF Links!Show
  <2> QED
    BY <2>1, <2>2, <2>3 DEF LinksRest
<1>7. ASSUME Links!Close PROVE LinksRest'
  <2>1. LinksAsked'
    <3>1. \A r \in c9 : LinkAsk([r EXCEPT !.own = (r.do \notin Links!Awaited \union {"managed"})])
      BY <1>0 DEF LinksAsked, LinkAsk
    <3> QED
      BY <1>7, <3>1 DEF Links!Close, LinksAsked
  <2>2. LinksDialog' /\ LinksSeen'
    BY <1>0, <1>7 DEF Links!Close, LinksDialog, LinksSeen
  <2> QED
    BY <2>1, <2>2 DEF LinksRest
<1>8. ASSUME NEW i \in Things, Links!ToggleRow(i) PROVE LinksRest'
  <2>1. LinksDialog'
    BY <1>0, <1>8 DEF Links!ToggleRow, LinksDialog
  <2> QED
    BY <1>8, <1>s, <2>1 DEF Links!ToggleRow, LinksRest
<1>9. ASSUME NEW i, NEW c, \/ Links!Remove(i) \/ Links!SetVisibility(i) \/ Links!SetCategory(i, c)
                           \/ Links!DropToGroup(i, c) \/ Links!DropOnResource(i, c)
                           \/ Links!Rename(c) \/ Links!DoDelete(c)
      PROVE  LinksRest'
  BY <1>5, <1>9, <1>w DEF Links!Remove, Links!SetVisibility, Links!SetCategory, Links!DropToGroup,
                          Links!DropOnResource, Links!Rename, Links!DoDelete
<1>10. ASSUME Links!Submit \/ Links!Create \/ Links!MoveRow PROVE LinksRest'
  BY <1>5, <1>10, <1>w DEF Links!Submit, Links!Create, Links!MoveRow
<1>11. ASSUME Links!ResourceRow \/ Links!Panel PROVE LinksRest'
  BY <1>6, <1>9, <1>11 DEF Links!ResourceRow, Links!Panel
<1>12. ASSUME Links!Picker \/ Links!Manager \/ Links!DeleteChoice PROVE LinksRest'
  <2>1. c4 \subseteq Links!Cats
    BY <1>0 DEF LinksSeen
  <2> QED
    BY <1>6, <1>8, <1>9, <1>10, <1>12, <2>1 DEF Links!Picker, Links!Manager, Links!DeleteChoice, LinksRest
<1>13. LinksRest'
  BY <1>1, <1>2, <1>3, <1>4, <1>7, <1>11, <1>12 DEF Links!Next, Links!Arrives
<1> QED
  BY <1>n, <1>13 DEF LinksTyped

-----------------------------------------------------------------------------
(* Hearts and tags: c1 saved, c2 favorites, c3 items, c4 reloads, c5 toggles*)
(* c6 catalog, c7 allTags, c8 flagged, c9 active, c10 detail, c11 loading,  *)
(* c12 renaming, c13 asked                                                  *)

HeartTypes ==
  /\ c1 \subseteq TagNames /\ c2 \subseteq TagNames /\ c3 \subseteq TagNames
  /\ c4 \subseteq [hearts : SUBSET TagNames, rows : SUBSET TagNames]
  /\ \A q \in c5 : q \in [key : TagNames, set : BOOLEAN, served : BOOLEAN]
TagListTypes == c6 \subseteq TagNames /\ c7 \subseteq TagNames /\ c8 \subseteq TagNames
TagPageTypes ==
  /\ c9 \in TagNames \union {Hearts!None} /\ c10 \in TagNames \union {Hearts!None}
  /\ c11 \in BOOLEAN /\ c12 \in BOOLEAN
(* A tag is renamed to a tag.                                               *)
TagAsks == c13 \subseteq Hearts!Request /\ \A q \in c13 : q.kind = "rename" => q.to \in TagNames
TagsTyped == HeartTypes /\ TagListTypes /\ TagPageTypes /\ TagAsks

LEMMA TagsTypes == TagsTyped => Hearts!TagsTypeOK
BY DEF TagsTyped, HeartTypes, TagListTypes, TagPageTypes, TagAsks, Hearts!TagsTypeOK

LEMMA TagsBegin == Hearts!Init => TagsTyped
BY DEF Hearts!Init, TagsTyped, HeartTypes, TagListTypes, TagPageTypes, TagAsks

LEMMA NewTagAsk ==
  ASSUME NEW kind \in {"list", "items", "rename", "delete"}, NEW tag \in TagNames \union {Hearts!None},
         NEW to \in TagNames \union {Hearts!None}
  PROVE  /\ Hearts!New(kind, tag, to) \in Hearts!Request
         /\ Hearts!New(kind, tag, to).kind = kind /\ Hearts!New(kind, tag, to).to = to
BY DEF Hearts!New, Hearts!Request

LEMMA NewHeart ==
  ASSUME TagsTyped, NEW k \in TagNames
  PROVE  \A q \in c5 \union {[key |-> k, set |-> k \notin c2, served |-> FALSE]} :
           q \in [key : TagNames, set : BOOLEAN, served : BOOLEAN]
<1>1. [key |-> k, set |-> k \notin c2, served |-> FALSE] \in [key : TagNames, set : BOOLEAN, served : BOOLEAN]
  OBVIOUS
<1> QED
  BY <1>1 DEF TagsTyped, HeartTypes

LEMMA HeartsStep ==
  ASSUME TagsTyped, Hearts!Next
  PROVE  HeartTypes'
<1> USE DEF TagsTyped, HeartTypes
<1>1. CASE UNCHANGED <<c1, c2, c3, c4, c5>>
  BY <1>1
<1>2. ASSUME Hearts!Reload PROVE c4' \subseteq [hearts : SUBSET TagNames, rows : SUBSET TagNames]
  <2>1. [hearts |-> c1, rows |-> c1 \intersect c6] \in [hearts : SUBSET TagNames, rows : SUBSET TagNames]
    OBVIOUS
  <2> QED
    BY <1>2, <2>1 DEF Hearts!Reload
<1>3. CASE Hearts!Visible
  BY <1>2, <1>3 DEF Hearts!Visible
<1>4. ASSUME NEW r \in c4, Hearts!Reloaded(r) PROVE HeartTypes'
  BY <1>4 DEF Hearts!Reloaded
<1>5. ASSUME NEW k \in TagNames, Hearts!ToggleFavorite(k) \/ Hearts!ToggleTagFavorite(k)
      PROVE  HeartTypes'
  BY <1>5, NewHeart DEF Hearts!ToggleFavorite, Hearts!ToggleTagFavorite
<1>6. ASSUME NEW q \in c5, Hearts!FavoriteServed(q) PROVE HeartTypes'
  <2>1. [q EXCEPT !.served = TRUE] \in [key : TagNames, set : BOOLEAN, served : BOOLEAN]
    BY <1>6
  <2>2. c1' \subseteq TagNames
    BY <1>6 DEF Hearts!FavoriteServed
  <2> QED
    BY <1>6, <2>1, <2>2 DEF Hearts!FavoriteServed
<1>7. ASSUME NEW q \in c5, Hearts!FavoriteRefused(q) PROVE HeartTypes'
  BY <1>7 DEF Hearts!FavoriteRefused
<1>8. ASSUME NEW q \in c5, Hearts!FavoriteAdded(q) PROVE HeartTypes'
  BY <1>2, <1>8 DEF Hearts!FavoriteAdded
<1>9. ASSUME NEW q \in c5, Hearts!FavoriteTaken(q) PROVE HeartTypes'
  BY <1>9 DEF Hearts!FavoriteTaken
<1>10. ASSUME NEW k, Hearts!SelectTag(k) \/ Hearts!SaveRename(k) \/ Hearts!Opened(k) \/ Hearts!Renaming(k)
       PROVE  UNCHANGED <<c1, c2, c3, c4, c5>>
  BY <1>10 DEF Hearts!SelectTag, Hearts!SaveRename, Hearts!Opened, Hearts!Renaming,
               Hearts!PageOnly, Hearts!heartVars
<1>11. CASE Hearts!DeleteTag
  BY <1>1, <1>11 DEF Hearts!DeleteTag, Hearts!PageOnly, Hearts!heartVars
<1>12. ASSUME NEW q, \/ Hearts!TagServed(q) \/ Hearts!ListArrives(q) \/ Hearts!ItemsArrive(q)
                     \/ Hearts!RenameDone(q) \/ Hearts!DeleteDone(q) \/ Hearts!TagRefused(q)
       PROVE  UNCHANGED <<c1, c2, c3, c4, c5>>
  BY <1>12 DEF Hearts!TagServed, Hearts!ListArrives, Hearts!ItemsArrive, Hearts!RenameDone,
               Hearts!DeleteDone, Hearts!TagRefused, Hearts!PageOnly, Hearts!heartVars
<1> QED
  BY <1>1, <1>3, <1>4, <1>5, <1>6, <1>7, <1>8, <1>9, <1>10, <1>11, <1>12 DEF Hearts!Next

LEMMA TagPagesStep ==
  ASSUME TagsTyped, Hearts!Next
  PROVE  TagListTypes' /\ TagPageTypes' /\ TagAsks'
<1> USE DEF TagsTyped, TagListTypes, TagPageTypes, TagAsks
<1> DEFINE Good == TagListTypes' /\ TagPageTypes' /\ TagAsks'
           Named == TagNames \union {Hearts!None}
           Asked == UNCHANGED <<c13>>
<1>1. CASE UNCHANGED <<c6, c7, c8, c9, c10, c11, c12, c13>>
  BY <1>1
<1>2. ASSUME Hearts!HeartsOnly PROVE Good
  BY <1>1, <1>2 DEF Hearts!HeartsOnly, Hearts!listVars, Hearts!pageVars
<1>3. ASSUME NEW q, \/ Hearts!Visible \/ Hearts!Reloaded(q) \/ Hearts!FavoriteServed(q)
                    \/ Hearts!FavoriteRefused(q) \/ Hearts!FavoriteAdded(q) \/ Hearts!FavoriteTaken(q)
      PROVE  Good
  BY <1>2, <1>3 DEF Hearts!Visible, Hearts!Reloaded, Hearts!FavoriteServed, Hearts!FavoriteRefused,
                    Hearts!FavoriteAdded, Hearts!FavoriteTaken
<1>4. ASSUME NEW k \in TagNames, Hearts!ToggleFavorite(k) PROVE Good
  BY <1>1, <1>4 DEF Hearts!ToggleFavorite, Hearts!listVars, Hearts!pageVars
<1>5. ASSUME NEW k \in TagNames, Hearts!ToggleTagFavorite(k) PROVE Good
  BY <1>5 DEF Hearts!ToggleTagFavorite, Hearts!pageVars
<1>6. ASSUME NEW tag \in Named, Hearts!Selected(tag) PROVE TagPageTypes'
  BY <1>6 DEF Hearts!Selected
<1>7. ASSUME NEW kind \in {"list", "items", "rename", "delete"}, NEW tag \in Named, NEW to \in Named,
             Hearts!Ask(kind, tag, to), kind = "rename" => to \in TagNames
      PROVE  TagAsks'
  BY <1>7, NewTagAsk DEF Hearts!Ask
<1>8. ASSUME NEW k \in TagNames, Hearts!SelectTag(k) PROVE Good
  <2>1. TagAsks'
    BY <1>7, <1>8 DEF Hearts!SelectTag
  <2> QED
    BY <1>6, <1>8, <2>1 DEF Hearts!SelectTag, Hearts!listVars
<1>9. ASSUME NEW k \in TagNames, Hearts!SaveRename(k) PROVE Good
  <2>1. TagAsks'
    BY <1>7, <1>9 DEF Hearts!SaveRename
  <2> QED
    BY <1>9, <2>1 DEF Hearts!SaveRename, Hearts!listVars, Hearts!pageVars
<1>10. CASE Hearts!DeleteTag
  <2>1. TagAsks'
    BY <1>7, <1>10 DEF Hearts!DeleteTag
  <2> QED
    BY <1>10, <2>1 DEF Hearts!DeleteTag, Hearts!listVars, Hearts!pageVars
<1>11. ASSUME NEW tag \in Named, Hearts!Opened(tag) PROVE Good
  <2>1. TagPageTypes' /\ TagListTypes'
    BY <1>11 DEF Hearts!Opened
  <2>2. TagAsks'
    BY <1>11, NewTagAsk DEF Hearts!Opened
  <2> QED
    BY <2>1, <2>2
<1>12. ASSUME NEW b \in BOOLEAN, Hearts!Renaming(b) PROVE Good
  BY <1>12 DEF Hearts!Renaming, Hearts!listVars
<1>13. ASSUME NEW q \in c13, Hearts!TagServed(q) PROVE Good
  <2>1. /\ q \in Hearts!Request
        /\ [q EXCEPT !.served = TRUE, !.got = c6, !.marks = c1 \intersect c6] \in Hearts!Request
        /\ [q EXCEPT !.served = TRUE, !.ok = (q.kind = "list" \/ q.tag \in c6)] \in Hearts!Request
    BY DEF Hearts!Request
  <2>2. TagAsks'
    BY <1>13, <2>1 DEF Hearts!TagServed, Hearts!Request
  <2>3. TagListTypes'
    BY <1>13 DEF Hearts!TagServed
  <2> QED
    BY <1>13, <2>2, <2>3 DEF Hearts!TagServed, Hearts!pageVars
<1>14. ASSUME NEW q \in c13, Hearts!ListArrives(q) \/ Hearts!ItemsArrive(q) \/ Hearts!TagRefused(q)
       PROVE  Good
  <2>1. q \in Hearts!Request
    OBVIOUS
  <2>2. TagAsks'
    BY <1>14 DEF Hearts!ListArrives, Hearts!ItemsArrive, Hearts!TagRefused
  <2>3. TagListTypes'
    BY <1>14, <2>1 DEF Hearts!ListArrives, Hearts!ItemsArrive, Hearts!TagRefused, Hearts!listVars, Hearts!Request
  <2>4. TagPageTypes'
    BY <1>14, <2>1 DEF Hearts!ListArrives, Hearts!ItemsArrive, Hearts!TagRefused, Hearts!pageVars, Hearts!Request
  <2> QED
    BY <2>2, <2>3, <2>4
<1>15. ASSUME NEW q \in c13, Hearts!RenameDone(q) \/ Hearts!DeleteDone(q) PROVE Good
  <2>1. q.kind = "rename" => q.to \in TagNames
    OBVIOUS
  <2>2. TagAsks'
    BY <1>15, <2>1, NewTagAsk DEF Hearts!RenameDone, Hearts!DeleteDone
  <2>3. TagPageTypes'
    BY <1>6, <1>15, <2>1 DEF Hearts!RenameDone, Hearts!DeleteDone
  <2> QED
    BY <1>15, <2>2, <2>3 DEF Hearts!RenameDone, Hearts!DeleteDone, Hearts!listVars
<1> QED
  BY <1>3, <1>4, <1>5, <1>8, <1>9, <1>10, <1>11, <1>12, <1>13, <1>14, <1>15 DEF Hearts!Next

LEMMA TagsTypedStep == ASSUME TagsTyped, Hearts!Next PROVE TagsTyped'
BY HeartsStep, TagPagesStep DEF TagsTyped

-----------------------------------------------------------------------------
(* The notes of a campaign: c1 exists, c2 parent, c3 text, c4 listed,       *)
(* c5 listedIn, c6 selected, c7 open, c8 editing, c9 creating, c10 asked,   *)
(* c11 lists, c12 saved, c13 picked, c14 bulk                               *)

NoteOrNone == Wiki!Notes \union {0}
StoredTyped == c1 \subseteq Wiki!Notes /\ c2 \in [Wiki!Notes -> NoteOrNone] /\ c3 \in [Wiki!Notes -> Wiki!Notes]
ListedTyped == c4 \subseteq Wiki!Notes /\ c5 \in [Wiki!Notes -> NoteOrNone] /\ c13 \subseteq Wiki!Notes
ShownTyped == c6 \in NoteOrNone /\ c7 \in NoteOrNone /\ c8 \in NoteOrNone
CreatingTyped == c9 \in BOOLEAN
AskedTyped == c10 \subseteq Wiki!Notes /\ c11 \subseteq NoteOrNone /\ c12 \in NoteOrNone
BulkNotes == [left : SUBSET Wiki!Notes, leaves : BOOLEAN]
BulkTyped == c14 = <<>> \/ \E b \in BulkNotes : c14 = <<b>>
WikiTyped == StoredTyped /\ ListedTyped /\ ShownTyped /\ CreatingTyped /\ AskedTyped /\ BulkTyped

LEMMA WikiTypes == WikiTyped => Wiki!WikiTypeOK
<1>1. ASSUME NEW b \in BulkNotes PROVE <<b>> \in [1..1 -> BulkNotes]
  OBVIOUS
<1>2. BulkTyped => c14 \in {<<>>} \union [1..1 -> BulkNotes]
  BY <1>1 DEF BulkTyped
<1> QED
  BY <1>2 DEF WikiTyped, StoredTyped, ListedTyped, ShownTyped, CreatingTyped, AskedTyped, BulkNotes, NoteOrNone, Wiki!WikiTypeOK

LEMMA WikiUnchanged ==
  ASSUME WikiTyped
  PROVE  /\ UNCHANGED <<c1, c2, c3>> => StoredTyped'
         /\ UNCHANGED <<c4, c5, c13>> => ListedTyped'
         /\ UNCHANGED <<c6, c7, c8>> => ShownTyped'
         /\ UNCHANGED c9 => CreatingTyped'
         /\ UNCHANGED <<c10, c11, c12>> => AskedTyped'
         /\ UNCHANGED c14 => BulkTyped'
BY DEF WikiTyped, StoredTyped, ListedTyped, ShownTyped, CreatingTyped, AskedTyped, BulkTyped, NoteOrNone, BulkNotes, Wiki!Notes

LEMMA WikiBegins ==
  ASSUME MaxNotes \in Nat, Wiki!Init PROVE WikiTyped
<1> USE DEF Wiki!Init, NoteOrNone
<1>1. StoredTyped
  BY DEF StoredTyped
<1>2. ListedTyped
  BY DEF ListedTyped
<1>3. ShownTyped /\ AskedTyped
  BY DEF ShownTyped, AskedTyped
<1>4. CreatingTyped
  BY DEF CreatingTyped
<1>5. BulkTyped
  BY DEF BulkTyped
<1> QED
  BY <1>1, <1>2, <1>3, <1>4, <1>5 DEF WikiTyped

(* Whatever is selected is a note or none.                                  *)
LEMMA SelectionTyped ==
  ASSUME ShownTyped, AskedTyped, NEW n \in NoteOrNone, Wiki!Selected(n)
  PROVE  c6' \in NoteOrNone /\ c7' \in NoteOrNone /\ c8' \in NoteOrNone /\ c10' \subseteq Wiki!Notes
BY DEF Wiki!Selected, ShownTyped, AskedTyped, NoteOrNone

LEMMA WikiAnswers ==
  ASSUME WikiTyped, NEW n, Wiki!SaveArrives \/ Wiki!ListArrives(n) \/ Wiki!NoteArrives(n)
  PROVE  WikiTyped'
<1> USE DEF Wiki!server
<1>0. StoredTyped /\ ListedTyped /\ ShownTyped /\ CreatingTyped /\ AskedTyped /\ BulkTyped
  BY DEF WikiTyped
<1>1. CASE Wiki!SaveArrives
  <2>1. ShownTyped' /\ AskedTyped'
    BY <1>0, <1>1 DEF Wiki!SaveArrives, ShownTyped, AskedTyped, NoteOrNone
  <2>2. CreatingTyped'
    BY <1>1 DEF Wiki!SaveArrives, CreatingTyped
  <2> QED
    BY <1>1, <2>1, <2>2, WikiUnchanged DEF Wiki!SaveArrives, WikiTyped
<1>2. CASE Wiki!ListArrives(n)
  <2>1. n \in NoteOrNone /\ \A m \in c1 : m \in NoteOrNone
    BY <1>0, <1>2 DEF Wiki!ListArrives, AskedTyped, StoredTyped, NoteOrNone
  <2>2. (\E m \in NoteOrNone : Wiki!Selected(m)) \/ UNCHANGED <<c6, c8, c10, c7>>
    BY <1>2, <2>1 DEF Wiki!ListArrives
  <2>3. c6' \in NoteOrNone /\ c7' \in NoteOrNone /\ c8' \in NoteOrNone /\ c10' \subseteq Wiki!Notes
    <3>1. ASSUME UNCHANGED <<c6, c8, c10, c7>>
          PROVE  c6' \in NoteOrNone /\ c7' \in NoteOrNone /\ c8' \in NoteOrNone /\ c10' \subseteq Wiki!Notes
      BY <1>0, <3>1 DEF ShownTyped, AskedTyped
    <3> QED
      BY <1>0, <2>2, <3>1, SelectionTyped
  <2>4. ShownTyped' /\ AskedTyped'
    BY <1>0, <1>2, <2>3 DEF Wiki!ListArrives, ShownTyped, AskedTyped, NoteOrNone
  <2>5. ListedTyped'
    BY <1>0, <1>2 DEF Wiki!ListArrives, StoredTyped, ListedTyped, NoteOrNone
  <2> QED
    BY <1>2, <2>4, <2>5, WikiUnchanged DEF Wiki!ListArrives, WikiTyped
<1>3. CASE Wiki!NoteArrives(n)
  <2>1. ShownTyped' /\ AskedTyped'
    BY <1>0, <1>3 DEF Wiki!NoteArrives, ShownTyped, AskedTyped, NoteOrNone
  <2> QED
    BY <1>3, <2>1, WikiUnchanged DEF Wiki!NoteArrives, WikiTyped
<1> QED
  BY <1>1, <1>2, <1>3

LEMMA WikiMoves ==
  ASSUME StoredTyped, NEW n \in Wiki!Notes, NEW p \in NoteOrNone, Wiki!Moved(n, p)
  PROVE  c2' \in [Wiki!Notes -> NoteOrNone]
BY DEF Wiki!Moved, StoredTyped, NoteOrNone

LEMMA WikiRemoves ==
  ASSUME StoredTyped, NEW n \in Wiki!Notes, Wiki!Removed(n)
  PROVE  StoredTyped'
<1>1. c1' \subseteq Wiki!Notes /\ c3' \in [Wiki!Notes -> Wiki!Notes]
  BY DEF Wiki!Removed, StoredTyped
<1>2. c2' \in [Wiki!Notes -> NoteOrNone]
  BY DEF Wiki!Removed, StoredTyped, NoteOrNone
<1> QED
  BY <1>1, <1>2 DEF StoredTyped, NoteOrNone, Wiki!Notes

LEMMA WikiRows ==
  ASSUME WikiTyped, NEW n \in Wiki!Notes, NEW p \in NoteOrNone,
         Wiki!Click(n) \/ Wiki!Pick(n) \/ Wiki!Drop(n, p) \/ Wiki!OtherMoves(n, p) \/ Wiki!BulkDeletes(n)
  PROVE  WikiTyped'
<1> USE DEF Wiki!server
<1>0. StoredTyped /\ ListedTyped /\ ShownTyped /\ CreatingTyped /\ AskedTyped /\ BulkTyped
  BY DEF WikiTyped
<1>1. CASE Wiki!Click(n)
  <2>1. c6' \in NoteOrNone /\ c7' \in NoteOrNone /\ c8' \in NoteOrNone /\ c10' \subseteq Wiki!Notes
    BY <1>0, <1>1, SelectionTyped DEF Wiki!Click, NoteOrNone
  <2>2. ShownTyped' /\ AskedTyped' /\ ListedTyped'
    BY <1>0, <1>1, <2>1 DEF Wiki!Click, ShownTyped, AskedTyped, ListedTyped, NoteOrNone
  <2>3. CreatingTyped'
    BY <1>1 DEF Wiki!Click, CreatingTyped
  <2> QED
    BY <1>1, <2>2, <2>3, WikiUnchanged DEF Wiki!Click, WikiTyped
<1>2. CASE Wiki!Pick(n)
  <2>1. ListedTyped'
    BY <1>0, <1>2 DEF Wiki!Pick, ListedTyped, ShownTyped, NoteOrNone
  <2> QED
    BY <1>2, <2>1, WikiUnchanged DEF Wiki!Pick, WikiTyped
<1>3. CASE Wiki!Drop(n, p)
  <2>1. StoredTyped'
    BY <1>0, <1>3, WikiMoves DEF Wiki!Drop, StoredTyped, NoteOrNone
  <2>2. AskedTyped'
    BY <1>0, <1>3 DEF Wiki!Drop, AskedTyped, NoteOrNone
  <2> QED
    BY <1>3, <2>1, <2>2, WikiUnchanged DEF Wiki!Drop, WikiTyped
<1>4. CASE Wiki!OtherMoves(n, p)
  <2>1. StoredTyped'
    BY <1>0, <1>4, WikiMoves DEF Wiki!OtherMoves, StoredTyped, NoteOrNone
  <2> QED
    BY <1>4, <2>1, WikiUnchanged DEF Wiki!OtherMoves, WikiTyped
<1>5. CASE Wiki!BulkDeletes(n)
  <2>1. StoredTyped'
    BY <1>0, <1>5, WikiRemoves DEF Wiki!BulkDeletes
  <2>2. PICK b \in BulkNotes : c14 = <<b>>
    BY <1>0, <1>5 DEF Wiki!BulkDeletes, BulkTyped
  <2> DEFINE less == [b EXCEPT !.left = @ \ {n}]
  <2>3. less \in BulkNotes
    BY DEF BulkNotes
  <2>4. c14' = <<less>> \/ c14' = <<>>
    BY <1>5, <2>2 DEF Wiki!BulkDeletes
  <2> HIDE DEF less
  <2>5. BulkTyped'
    BY <2>3, <2>4 DEF BulkTyped, BulkNotes, Wiki!Notes
  <2> QED
    BY <1>5, <2>1, <2>5, WikiUnchanged DEF Wiki!BulkDeletes, WikiTyped
<1> QED
  BY <1>1, <1>2, <1>3, <1>4, <1>5

LEMMA WikiPane ==
  ASSUME WikiTyped,
         \/ Wiki!Filter \/ Wiki!StartCreate \/ Wiki!DeletePicked \/ Wiki!Edit \/ Wiki!Delete \/ Wiki!Patch
         \/ Wiki!BackToList \/ Wiki!Save \/ Wiki!Cancel \/ Wiki!BulkEnds
  PROVE  WikiTyped'
<1> USE DEF Wiki!server
<1>0. StoredTyped /\ ListedTyped /\ ShownTyped /\ CreatingTyped /\ AskedTyped /\ BulkTyped
  BY DEF WikiTyped
<1>1. CASE Wiki!Filter \/ Wiki!Patch
  <2>1. AskedTyped'
    BY <1>0, <1>1 DEF Wiki!Filter, Wiki!Patch, AskedTyped, ShownTyped, NoteOrNone
  <2> QED
    BY <1>1, <2>1, WikiUnchanged DEF Wiki!Filter, Wiki!Patch, WikiTyped
<1>2. CASE Wiki!StartCreate \/ Wiki!BackToList \/ Wiki!Edit \/ Wiki!Cancel
  <2>1. ShownTyped'
    BY <1>0, <1>2 DEF Wiki!StartCreate, Wiki!BackToList, Wiki!Edit, Wiki!Cancel, ShownTyped, NoteOrNone
  <2>2. c9' \in {TRUE, FALSE, c9}
    BY <1>2 DEF Wiki!StartCreate, Wiki!BackToList, Wiki!Edit, Wiki!Cancel
  <2>3. CreatingTyped'
    BY <1>0, <2>2 DEF CreatingTyped
  <2> QED
    BY <1>2, <2>1, <2>3, WikiUnchanged DEF Wiki!StartCreate, Wiki!BackToList, Wiki!Edit, Wiki!Cancel, WikiTyped
<1>3. CASE Wiki!DeletePicked
  <2> DEFINE b == [left |-> c13 \intersect c4, leaves |-> c6 \in c13]
  <2>1. b \in BulkNotes
    BY <1>0 DEF BulkNotes, ListedTyped
  <2>2. c14' = <<b>>
    BY <1>3 DEF Wiki!DeletePicked
  <2> HIDE DEF b
  <2>3. BulkTyped'
    BY <2>1, <2>2 DEF BulkTyped, BulkNotes, Wiki!Notes
  <2> QED
    BY <1>3, <2>3, WikiUnchanged DEF Wiki!DeletePicked, WikiTyped
<1>4. CASE Wiki!Delete
  <2>1. StoredTyped'
    BY <1>0, <1>4, WikiRemoves DEF Wiki!Delete, StoredTyped
  <2>2. ShownTyped' /\ AskedTyped'
    BY <1>0, <1>4 DEF Wiki!Delete, ShownTyped, AskedTyped, NoteOrNone
  <2> QED
    BY <1>4, <2>1, <2>2, WikiUnchanged DEF Wiki!Delete, WikiTyped
<1>5. CASE Wiki!Save
  <2>1. StoredTyped'
    BY <1>0, <1>5 DEF Wiki!Save, StoredTyped, ShownTyped, NoteOrNone
  <2>2. AskedTyped'
    BY <1>0, <1>5 DEF Wiki!Save, AskedTyped, ShownTyped, NoteOrNone
  <2> QED
    BY <1>5, <2>1, <2>2, WikiUnchanged DEF Wiki!Save, WikiTyped
<1>6. CASE Wiki!BulkEnds
  <2>1. ShownTyped' /\ AskedTyped' /\ ListedTyped'
    BY <1>0, <1>6 DEF Wiki!BulkEnds, ShownTyped, AskedTyped, ListedTyped, NoteOrNone
  <2>2. BulkTyped'
    BY <1>6 DEF Wiki!BulkEnds, BulkTyped
  <2> QED
    BY <1>6, <2>1, <2>2, WikiUnchanged DEF Wiki!BulkEnds, WikiTyped
<1> QED
  BY <1>1, <1>2, <1>3, <1>4, <1>5, <1>6

LEMMA WikiTypedStep == ASSUME WikiTyped, Wiki!Next PROVE WikiTyped'
<1>0. 0 \in NoteOrNone /\ NoteOrNone = Wiki!Notes \union {0}
  BY DEF NoteOrNone
<1>1. ASSUME Wiki!Sidebar PROVE WikiTyped'
  BY <1>0, <1>1, WikiRows, WikiPane DEF Wiki!Sidebar, Wiki!Row
<1>2. ASSUME Wiki!Note \/ Wiki!Editor PROVE WikiTyped'
  BY <1>2, WikiPane DEF Wiki!Note, Wiki!Editor
<1>3. ASSUME Wiki!Answers PROVE WikiTyped'
  BY <1>3, WikiAnswers DEF Wiki!Answers
<1>4. ASSUME Wiki!Bulk PROVE WikiTyped'
  BY <1>0, <1>4, WikiPane, WikiRows DEF Wiki!Bulk
<1>5. ASSUME \E n \in Wiki!Notes, p \in Wiki!Notes \union {0} : Wiki!OtherMoves(n, p) PROVE WikiTyped'
  BY <1>0, <1>5, WikiRows
<1> QED
  BY <1>1, <1>2, <1>3, <1>4, <1>5 DEF Wiki!Next

-----------------------------------------------------------------------------
(* All pages                                                                *)

(* What the constants are: tags are tags of the library and titles of books *)
(* have pages; no filter at all is a filter of a gallery; "tags" is a field *)
(* of a book; bounds are numbers.                                           *)
PagesFit ==
  /\ ShelfFits /\ ReaderFits /\ GalleryFits /\ EditorFits /\ MapFits /\ NamesFit
  /\ "tags" \in EditFields /\ NCopies \in Nat /\ MaxCampaignWrites \in Nat
  /\ MaxCats \in Nat \ {0} /\ MaxWrites \in Nat /\ MaxNotes \in Nat

(* A page nothing happens on stays typed.                                   *)
LEMMA LibraryStays == ShelfTyped /\ UNCHANGED vars => ShelfTyped'
BY DEF vars, ShelfTyped, LookTypes, PickTypes, TaggedTypes, Library!Group, Library!NoAsk

LEMMA SystemStays == SystemTyped /\ UNCHANGED vars => SystemTyped'
<1> SUFFICES ASSUME SystemTyped, UNCHANGED vars PROVE SystemTyped'
  OBVIOUS
<1>1. System!ShownKept'
  BY DEF vars, SystemTyped, System!ShownKept, System!WasStored, System!AskKept, System!Content
<1>2. SystemRest'
  BY SystemUnchanged DEF vars, SystemTyped, SystemRest
<1> QED
  BY <1>1, <1>2 DEF SystemTyped

LEMMA ReaderStays == ReaderTyped /\ UNCHANGED vars => ReaderTyped'
BY ReaderUnchanged DEF vars, ReaderTyped

LEMMA GalleryStays == GalleryTyped /\ UNCHANGED vars => GalleryTyped'
BY DEF vars, GalleryTyped, MediaFlags, FoldTypes, SeenTypes, TickTypes, Media!Keys, Media!Items

LEMMA ItemStays == ItemTyped /\ UNCHANGED vars => ItemTyped'
BY DEF vars, ItemTyped, PlaceTypes, GetTypes, EditTypes, ItemGets, Item!Items, Item!Kinds, Item!Folders, Item!Closed

LEMMA ChaptersStay == ChaptersTyped /\ UNCHANGED vars => ChaptersTyped'
<1> SUFFICES ASSUME ChaptersTyped, UNCHANGED vars PROVE ChaptersTyped'
  OBVIOUS
<1>1. ChaptersKept'
  BY ReviewStays DEF vars, ChaptersTyped
<1>2. EditorRest'
  BY EditorUnchanged DEF vars, ChaptersTyped, EditorRest
<1> QED
  BY <1>1, <1>2 DEF ChaptersTyped

LEMMA MapStays == MapTyped /\ UNCHANGED vars => MapTyped'
BY MapUnchanged DEF vars, MapTyped

LEMMA TreeStays == TreeTyped /\ UNCHANGED vars => TreeTyped'
BY TreeUnchanged DEF vars, TreeTyped

LEMMA CopiesStay == CopiesTyped /\ UNCHANGED vars => CopiesTyped'
<1> SUFFICES ASSUME CopiesTyped, UNCHANGED vars PROVE CopiesTyped'
  OBVIOUS
<1>1. Copies!PairsKept'
  BY DEF vars, CopiesTyped, Copies!PairsKept
<1>2. ServerTypes' /\ ListTypes' /\ PairTypes'
  BY DEF vars, CopiesTyped, ServerTypes, ListTypes, PairTypes
<1>3. CopyAsked'
  BY DEF vars, CopiesTyped, CopyAsked, CopyAsk
<1> QED
  BY <1>1, <1>2, <1>3 DEF CopiesTyped

LEMMA PartyStays == PartyTyped /\ UNCHANGED vars => PartyTyped'
BY DEF vars, PartyTyped, PartySeen, PartyAsked, PartyAsk, PartyPanels, Party!CampaignKept

LEMMA LinksStay == LinksTyped /\ UNCHANGED vars => LinksTyped'
BY DEF vars, LinksTyped, LinksRest, LinksSeen, LinksDialog, LinksAsked, LinkAsk, Links!Numbered, Links!Links, Links!Cats

LEMMA TagsStay == TagsTyped /\ UNCHANGED vars => TagsTyped'
BY DEF vars, TagsTyped, HeartTypes, TagListTypes, TagPageTypes, TagAsks, Hearts!None, Hearts!Request

LEMMA WikiStays == WikiTyped /\ UNCHANGED vars => WikiTyped'
BY WikiUnchanged DEF vars, WikiTyped

PagesTyped ==
  /\ focus = "shelf" => ShelfTyped
  /\ focus = "system" => SystemTyped
  /\ focus = "reader" => ReaderTyped
  /\ focus = "gallery" => GalleryTyped
  /\ focus = "detail" => ItemTyped
  /\ focus = "audiobook" => ChaptersTyped
  /\ focus = "vtt" => MapTyped
  /\ focus = "files" => TreeTyped
  /\ focus = "duplicates" => CopiesTyped
  /\ focus = "campaign" => PartyTyped
  /\ focus = "resources" => LinksTyped
  /\ focus = "tags" => TagsTyped
  /\ focus = "wiki" => WikiTyped

LEMMA EveryPageBegins == ASSUME PagesFit, Init PROVE PagesTyped
<1>1. Library!Init => ShelfTyped
  BY ShelfBegins DEF PagesFit
<1>2. System!Init => SystemTyped
  BY SystemBegins
<1>3. Book!Init => ReaderTyped
  BY ReaderBegins DEF PagesFit
<1>4. Media!Init => GalleryTyped
  BY GalleryBegins DEF PagesFit
<1>5. Item!Init => ItemTyped
  BY ItemBegins
<1>6. Chapters!Init => ChaptersTyped
  BY EditorBegins DEF PagesFit
<1>7. Vtt!Init => MapTyped
  BY MapBegins DEF PagesFit
<1>8. Files!Init => TreeTyped
  BY TreeBegins
<1>9. Copies!Init => CopiesTyped
  BY CopiesBegin, PairsAreKept DEF PagesFit
<1>10. Party!Init => PartyTyped
  BY PartyBegins DEF PagesFit
<1>11. Links!Init => LinksTyped
  BY ResourcesBegin DEF PagesFit
<1>12. Hearts!Init => TagsTyped
  BY TagsBegin
<1>13. Wiki!Init => WikiTyped
  BY WikiBegins DEF PagesFit
<1> QED
  BY <1>1, <1>2, <1>3, <1>4, <1>5, <1>6, <1>7, <1>8, <1>9, <1>10, <1>11, <1>12, <1>13 DEF Init, PagesTyped

LEMMA EveryPageSteps == ASSUME PagesFit, PagesTyped, [Next]_vars PROVE PagesTyped'
<1>1. CASE UNCHANGED vars
  <2>1. focus' = focus
    BY <1>1 DEF vars
  <2> QED
    BY <1>1, <2>1, LibraryStays, SystemStays, ReaderStays, GalleryStays, ItemStays, ChaptersStay, MapStays,
       TreeStays, CopiesStay, PartyStays, LinksStay, TagsStay, WikiStays DEF PagesTyped
<1>2. CASE Next
  <2>f. PagesFit /\ MaxCats \in Nat /\ focus' = focus
    BY <1>2 DEF PagesFit, Next
  <2>1. focus = "shelf" => ShelfTyped'
    BY <1>2, ShelfStep DEF Next, PagesTyped, PagesFit
  <2>2. focus = "system" => SystemTyped'
    BY <1>2, SystemTypedStep DEF Next, PagesTyped, PagesFit
  <2>3. focus = "reader" => ReaderTyped'
    BY <1>2, ReaderTypedStep DEF Next, PagesTyped, PagesFit
  <2>4. focus = "gallery" => GalleryTyped'
    BY <1>2, GalleryTypedStep DEF Next, PagesTyped, PagesFit
  <2>5. focus = "detail" => ItemTyped'
    BY <1>2, ItemStep DEF Next, PagesTyped
  <2>6. focus = "audiobook" => ChaptersTyped'
    BY <1>2, ChaptersTypedStep DEF Next, PagesTyped, PagesFit
  <2>7. focus = "vtt" => MapTyped'
    BY <1>2, MapTypedStep DEF Next, PagesTyped, PagesFit
  <2>8. focus = "files" => TreeTyped'
    BY <1>2, TreeTypedStep DEF Next, PagesTyped, PagesFit
  <2>9. focus = "duplicates" => CopiesTyped'
    BY <1>2, CopiesStep DEF Next, PagesTyped, PagesFit
  <2>10. focus = "campaign" => PartyTyped'
    BY <1>2, PartyStep DEF Next, PagesTyped, PagesFit
  <2>11. focus = "resources" => LinksTyped'
    BY <1>2, <2>f, ResourcesTypedStep DEF Next, PagesTyped, PagesFit
  <2>12. focus = "tags" => TagsTyped'
    BY <1>2, TagsTypedStep DEF Next, PagesTyped
  <2>13. focus = "wiki" => WikiTyped'
    BY <1>2, WikiTypedStep DEF Next, PagesTyped
  <2> QED
    BY <2>f, <2>1, <2>2, <2>3, <2>4, <2>5, <2>6, <2>7, <2>8, <2>9, <2>10, <2>11, <2>12, <2>13 DEF PagesTyped
<1> QED
  BY <1>1, <1>2

(* Whatever is done on a page, and whenever the answers to its requests     *)
(* come, each of its variables holds what its module says it does: a list   *)
(* is never longer than its bound, the keys of the rows under review never  *)
(* meet, a selection is of a feature there can be, what is loaded came with *)
(* a copy to keep (useVttDocument.js:69, EditAudiobookMetadataModal.jsx:439,*)
(* DuplicateCompareView.jsx:76).                                            *)
THEOREM PagesStayTyped == ASSUME PagesFit PROVE Spec => []TypeOK
<1>1. Init => PagesTyped
  BY EveryPageBegins
<1>2. PagesTyped /\ [Next]_vars => PagesTyped'
  BY EveryPageSteps
<1>3. PagesTyped => TypeOK
  <2>1. EditorFits /\ MapFits
    BY DEF PagesFit
  <2> QED
    BY <2>1, ShelfTypes, SystemTypes, ReaderTypes, GalleryTypes, ItemTypes, EditorTypes, MapTypes, TreeTypes,
       CopiesTypes, PartyTypes, ResourcesTypes, TagsTypes, WikiTypes DEF PagesTyped, TypeOK
<1> QED
  BY <1>1, <1>2, <1>3, PTL DEF Spec
=============================================================================
