--------------------------- MODULE PlayQueueProofs ---------------------------
(***************************************************************************)
(* The play queue keeps its place, whatever tracks there are, whatever lists *)
(* are played and however long the queue may be: its index points into it,   *)
(* what becomes current is started, and every step of the queue with its    *)
(* index is a step of Playlist, which has no index, or a stutter.           *)
(***************************************************************************)
EXTENDS PlayQueue, SequenceTheorems, TLAPS

USE DEF played, current, upcoming

(* The lists a screen plays fit into the queue, which holds something.      *)
ListsFit ==
  /\ MaxQueue \in Nat \ {0}
  /\ Lists \subseteq {l \in Seq(Entries) : Len(l) <= MaxQueue}

-----------------------------------------------------------------------------
(* Sequences, one entry at a time                                           *)

(* Taking an entry out moves those behind it one place forward.             *)
LEMMA RemoveAtEntries ==
  ASSUME NEW S, NEW s \in Seq(S), NEW i \in 1..Len(s)
  PROVE  /\ RemoveAt(s, i) \in Seq(S)
         /\ Len(RemoveAt(s, i)) = Len(s) - 1
         /\ \A j \in 1..(Len(s) - 1) : RemoveAt(s, i)[j] = IF j < i THEN s[j] ELSE s[j + 1]
<1> DEFINE a == SubSeq(s, 1, i - 1)
           b == SubSeq(s, i + 1, Len(s))
<1>0. Len(s) \in Nat /\ i \in Nat
  BY LenProperties
<1>1. /\ a \in Seq(S) /\ Len(a) = i - 1
      /\ \A j \in 1..(i - 1) : a[j] = s[j]
  BY SubSeqProperties, ElementOfSeq
<1>2. /\ b \in Seq(S) /\ Len(b) = Len(s) - i
      /\ \A j \in 1..(Len(s) - i) : b[j] = s[j + i]
  BY SubSeqProperties, ElementOfSeq
<1>3. /\ a \o b \in Seq(S) /\ Len(a \o b) = Len(s) - 1
      /\ \A j \in 1..(Len(s) - 1) : (a \o b)[j] = IF j < i THEN a[j] ELSE b[j - i + 1]
  <2>1. /\ a \o b \in Seq(S) /\ Len(a \o b) = Len(a) + Len(b)
        /\ \A j \in 1..(Len(a) + Len(b)) : (a \o b)[j] = IF j <= Len(a) THEN a[j] ELSE b[j - Len(a)]
    BY <1>1, <1>2, ConcatProperties
  <2> HIDE DEF a, b
  <2>2. Len(a) + Len(b) = Len(s) - 1 /\ Len(a) = i - 1
    <3>1. Len(a) = i - 1 /\ Len(b) = Len(s) - i
      BY <1>1, <1>2
    <3> QED
      BY <1>0, <3>1
  <2> QED
    BY <1>0, <2>1, <2>2
<1>4. RemoveAt(s, i) = a \o b
  BY DEF RemoveAt
<1> HIDE DEF a, b
<1>5. ASSUME NEW j \in 1..(Len(s) - 1)
      PROVE  (a \o b)[j] = IF j < i THEN s[j] ELSE s[j + 1]
  <2>1. CASE j < i
    <3>1. j \in 1..(i - 1)
      BY <1>0, <2>1
    <3> QED
      BY <1>1, <1>3, <2>1, <3>1
  <2>2. CASE ~(j < i)
    <3>1. j - i + 1 \in 1..(Len(s) - i) /\ (j - i + 1) + i = j + 1
      BY <1>0, <2>2
    <3>2. b[j - i + 1] = s[(j - i + 1) + i]
      BY <1>2, <3>1
    <3> QED
      BY <1>3, <2>2, <3>1, <3>2
  <2> QED
    BY <2>1, <2>2
<1> QED
  BY <1>3, <1>4, <1>5

(* Putting an entry in moves those behind it one place back.                *)
LEMMA InsertAtEntries ==
  ASSUME NEW S, NEW s \in Seq(S), NEW i \in 1..(Len(s) + 1), NEW e \in S
  PROVE  /\ InsertAt(s, i, e) \in Seq(S)
         /\ Len(InsertAt(s, i, e)) = Len(s) + 1
         /\ \A j \in 1..(Len(s) + 1) :
              InsertAt(s, i, e)[j] = IF j < i THEN s[j] ELSE IF j = i THEN e ELSE s[j - 1]
<1> DEFINE a == SubSeq(s, 1, i - 1)
           b == SubSeq(s, i, Len(s))
           c == a \o <<e>>
<1>0. Len(s) \in Nat /\ i \in Nat
  BY LenProperties
<1>1. /\ a \in Seq(S) /\ Len(a) = i - 1
      /\ \A j \in 1..(i - 1) : a[j] = s[j]
  BY SubSeqProperties, ElementOfSeq
<1>2. /\ b \in Seq(S) /\ Len(b) = Len(s) - i + 1
      /\ \A j \in 1..(Len(s) - i + 1) : b[j] = s[i + j - 1]
  BY SubSeqProperties, ElementOfSeq
<1>3. /\ <<e>> \in Seq(S) /\ Len(<<e>>) = 1 /\ <<e>>[1] = e
  OBVIOUS
<1>4. /\ c \in Seq(S) /\ Len(c) = i
      /\ \A j \in 1..i : c[j] = IF j < i THEN s[j] ELSE e
  <2>1. /\ c \in Seq(S) /\ Len(c) = Len(a) + 1
        /\ \A j \in 1..(Len(a) + 1) : c[j] = IF j <= Len(a) THEN a[j] ELSE <<e>>[j - Len(a)]
    BY <1>1, <1>3, ConcatProperties
  <2> QED
    BY <1>1, <1>3, <2>1
<1>5. /\ c \o b \in Seq(S) /\ Len(c \o b) = Len(c) + Len(b)
      /\ \A j \in 1..(Len(c) + Len(b)) : (c \o b)[j] = IF j <= Len(c) THEN c[j] ELSE b[j - Len(c)]
  BY <1>2, <1>4, ConcatProperties
<1>6. InsertAt(s, i, e) = c \o b
  BY DEF InsertAt
<1> HIDE DEF a, b, c
<1>7. ASSUME NEW j \in 1..(Len(s) + 1)
      PROVE  (c \o b)[j] = IF j < i THEN s[j] ELSE IF j = i THEN e ELSE s[j - 1]
  <2>1. CASE j <= i
    BY <2>1, <1>2, <1>4, <1>5
  <2>2. CASE j > i
    BY <2>2, <1>2, <1>4, <1>5
  <2>3. j <= i \/ j > i
    BY LenProperties
  <2> QED
    BY <2>1, <2>2, <2>3
<1> QED
  BY <1>2, <1>4, <1>5, <1>6, <1>7

(* One of its entries.                                                      *)
LEMMA InsertAtEntry ==
  ASSUME NEW S, NEW s \in Seq(S), NEW i \in 1..(Len(s) + 1), NEW e \in S,
         NEW j \in 1..(Len(s) + 1)
  PROVE  InsertAt(s, i, e)[j] = IF j < i THEN s[j] ELSE IF j = i THEN e ELSE s[j - 1]
BY InsertAtEntries

(* Taking out what was just put in gives back what there was.               *)
LEMMA RemoveInserted ==
  ASSUME NEW S, NEW s \in Seq(S), NEW i \in 1..(Len(s) + 1), NEW e \in S
  PROVE  RemoveAt(InsertAt(s, i, e), i) = s
<1> DEFINE t == InsertAt(s, i, e)
           u == RemoveAt(t, i)
<1>1. /\ t \in Seq(S) /\ Len(t) = Len(s) + 1
      /\ \A j \in 1..(Len(s) + 1) : t[j] = IF j < i THEN s[j] ELSE IF j = i THEN e ELSE s[j - 1]
  BY InsertAtEntries
<1>2. /\ u \in Seq(S) /\ Len(u) = Len(t) - 1
      /\ \A j \in 1..(Len(t) - 1) : u[j] = IF j < i THEN t[j] ELSE t[j + 1]
  <2> HIDE DEF t
  <2> QED
    BY <1>1, RemoveAtEntries
<1> HIDE DEF t, u
<1>3. \A j \in 1..Len(s) : u[j] = s[j]
  BY <1>1, <1>2
<1>4. u = s
  BY <1>1, <1>2, <1>3, SeqEqual
<1> QED
  BY <1>4 DEF t, u

-----------------------------------------------------------------------------
(* A list with a place in it, as Playlist sees it                           *)

Behind(l, n) == SubSeq(l, 1, n - 1)
Now(l, n) == IF n = 0 THEN <<>> ELSE <<l[n]>>
Ahead(l, n) == SubSeq(l, n + 1, Len(l))

(* The entries before and after a place are those of the list.             *)
LEMMA PartsEntries ==
  ASSUME NEW S, NEW l \in Seq(S), NEW n \in 1..Len(l)
  PROVE  /\ Behind(l, n) \in Seq(S) /\ Len(Behind(l, n)) = n - 1
         /\ \A j \in 1..(n - 1) : Behind(l, n)[j] = l[j]
         /\ Ahead(l, n) \in Seq(S) /\ Len(Ahead(l, n)) = Len(l) - n
         /\ \A j \in 1..(Len(l) - n) : Ahead(l, n)[j] = l[n + j]
<1>0. Len(l) \in Nat /\ n \in Nat /\ \A j \in 1..Len(l) : l[j] \in S
  BY LenProperties, ElementOfSeq
<1>1. /\ Behind(l, n) \in Seq(S) /\ Len(Behind(l, n)) = n - 1
      /\ \A j \in 1..(n - 1) : Behind(l, n)[j] = l[j]
  BY <1>0, SubSeqProperties DEF Behind
<1>2. /\ Ahead(l, n) \in Seq(S) /\ Len(Ahead(l, n)) = Len(l) - n
      /\ \A j \in 1..(Len(l) - n) : Ahead(l, n)[j] = l[n + j]
  <2>1. \A j \in (n + 1)..Len(l) : l[j] \in S
    BY <1>0
  <2> QED
    BY <1>0, <2>1, SubSeqProperties DEF Ahead
<1> QED
  BY <1>1, <1>2

(* The parts make up the list.                                              *)
LEMMA PartsJoin ==
  ASSUME NEW S, NEW l \in Seq(S), NEW n \in 1..Len(l)
  PROVE  Behind(l, n) \o Now(l, n) \o Ahead(l, n) = l
<1> DEFINE b == Behind(l, n)
           a == Ahead(l, n)
           c == b \o <<l[n]>>
<1>0. Len(l) \in Nat /\ n \in Nat /\ l[n] \in S
  BY LenProperties, ElementOfSeq
<1>1. /\ b \in Seq(S) /\ Len(b) = n - 1 /\ \A j \in 1..(n - 1) : b[j] = l[j]
      /\ a \in Seq(S) /\ Len(a) = Len(l) - n /\ \A j \in 1..(Len(l) - n) : a[j] = l[n + j]
  BY PartsEntries
<1> HIDE DEF a, b
<1>2. /\ <<l[n]>> \in Seq(S) /\ Len(<<l[n]>>) = 1 /\ <<l[n]>>[1] = l[n]
  BY <1>0
<1>3. /\ c \in Seq(S) /\ Len(c) = n
      /\ \A j \in 1..n : c[j] = l[j]
  <2>1. /\ c \in Seq(S) /\ Len(c) = Len(b) + 1
        /\ \A j \in 1..(Len(b) + 1) : c[j] = IF j <= Len(b) THEN b[j] ELSE <<l[n]>>[j - Len(b)]
    BY <1>1, <1>2, ConcatProperties
  <2> QED
    BY <1>0, <1>1, <1>2, <2>1
<1> HIDE DEF c
<1>4. /\ c \o a \in Seq(S) /\ Len(c \o a) = Len(l)
      /\ \A j \in 1..Len(l) : (c \o a)[j] = l[j]
  <2>1. /\ c \o a \in Seq(S) /\ Len(c \o a) = Len(c) + Len(a)
        /\ \A j \in 1..(Len(c) + Len(a)) : (c \o a)[j] = IF j <= Len(c) THEN c[j] ELSE a[j - Len(c)]
    BY <1>1, <1>3, ConcatProperties
  <2> QED
    BY <1>0, <1>1, <1>3, <2>1
<1>5. c \o a = l
  BY <1>4, SeqEqual
<1> QED
  BY <1>0, <1>5 DEF Now, a, b, c

(* The place of the current entry once the one at i is out.                 *)
After(n, i) == IF i < n THEN n - 1 ELSE n

(* Taking out an entry other than the current one takes it out of one part, *)
(* and leaves the rest alone.                                               *)
LEMMA PartsWithout ==
  ASSUME NEW S, NEW l \in Seq(S), NEW n \in 1..Len(l), NEW i \in 1..Len(l), i # n
  PROVE  LET r == RemoveAt(l, i)
             m == After(n, i)
         IN /\ r \in Seq(S) /\ m \in 1..Len(r) /\ r[m] = l[n]
            /\ i < n => /\ Behind(r, m) = RemoveAt(Behind(l, n), i)
                        /\ Ahead(r, m) = Ahead(l, n)
                        /\ i \in 1..Len(Behind(l, n)) /\ Behind(l, n)[i] = l[i]
            /\ i > n => /\ Behind(r, m) = Behind(l, n)
                        /\ Ahead(r, m) = RemoveAt(Ahead(l, n), i - n)
                        /\ i - n \in 1..Len(Ahead(l, n)) /\ Ahead(l, n)[i - n] = l[i]
<1> DEFINE r == RemoveAt(l, i)
           m == After(n, i)
<1>0. Len(l) \in Nat /\ n \in Nat /\ i \in Nat
  BY LenProperties
<1>1. /\ r \in Seq(S) /\ Len(r) = Len(l) - 1
      /\ \A j \in 1..(Len(l) - 1) : r[j] = IF j < i THEN l[j] ELSE l[j + 1]
  BY RemoveAtEntries
<1> HIDE DEF r
<1>2. m \in 1..Len(r) /\ r[m] = l[n]
  BY <1>0, <1>1 DEF After
<1>3. /\ Behind(l, n) \in Seq(S) /\ Len(Behind(l, n)) = n - 1
      /\ \A j \in 1..(n - 1) : Behind(l, n)[j] = l[j]
      /\ Ahead(l, n) \in Seq(S) /\ Len(Ahead(l, n)) = Len(l) - n
      /\ \A j \in 1..(Len(l) - n) : Ahead(l, n)[j] = l[n + j]
  BY PartsEntries
<1> HIDE DEF m
<1>4. /\ Behind(r, m) \in Seq(S) /\ Len(Behind(r, m)) = m - 1
      /\ \A j \in 1..(m - 1) : Behind(r, m)[j] = r[j]
      /\ Ahead(r, m) \in Seq(S) /\ Len(Ahead(r, m)) = Len(r) - m
      /\ \A j \in 1..(Len(r) - m) : Ahead(r, m)[j] = r[m + j]
  BY <1>1, <1>2, PartsEntries
<1>5. ASSUME i < n
      PROVE  /\ Behind(r, m) = RemoveAt(Behind(l, n), i)
             /\ Ahead(r, m) = Ahead(l, n)
             /\ i \in 1..Len(Behind(l, n)) /\ Behind(l, n)[i] = l[i]
  <2> DEFINE b == RemoveAt(Behind(l, n), i)
  <2>0. m = n - 1
    BY <1>5 DEF m, After
  <2>1. i \in 1..Len(Behind(l, n)) /\ Behind(l, n)[i] = l[i]
    BY <1>0, <1>3, <1>5
  <2>2. /\ b \in Seq(S) /\ Len(b) = n - 2
        /\ \A j \in 1..(n - 2) : b[j] = IF j < i THEN l[j] ELSE l[j + 1]
    <3>1. /\ b \in Seq(S) /\ Len(b) = Len(Behind(l, n)) - 1
          /\ \A j \in 1..(Len(Behind(l, n)) - 1) :
               b[j] = IF j < i THEN Behind(l, n)[j] ELSE Behind(l, n)[j + 1]
      BY <1>3, <2>1, RemoveAtEntries
    <3> HIDE DEF b
    <3> QED
      BY <1>0, <1>3, <1>5, <3>1
  <2> HIDE DEF b
  <2>3. Behind(r, m) = b
    <3>1. \A j \in 1..(m - 1) : Behind(r, m)[j] = b[j]
      BY <1>0, <1>1, <1>4, <1>5, <2>0, <2>2
    <3>2. Len(Behind(r, m)) = Len(b)
      BY <1>0, <1>4, <2>0, <2>2
    <3> QED
      BY <1>4, <2>2, <3>1, <3>2, SeqEqual
  <2>4. Ahead(r, m) = Ahead(l, n)
    <3>1. Len(Ahead(r, m)) = Len(Ahead(l, n)) /\ Len(Ahead(r, m)) = Len(l) - n
      BY <1>0, <1>1, <1>3, <1>4, <2>0
    <3>2. \A j \in 1..(Len(l) - n) : Ahead(r, m)[j] = Ahead(l, n)[j]
      BY <1>0, <1>1, <1>3, <1>4, <1>5, <2>0, <3>1
    <3> QED
      BY <1>3, <1>4, <3>1, <3>2, SeqEqual
  <2> QED
    BY <2>1, <2>3, <2>4 DEF b
<1>6. ASSUME i > n
      PROVE  /\ Behind(r, m) = Behind(l, n)
             /\ Ahead(r, m) = RemoveAt(Ahead(l, n), i - n)
             /\ i - n \in 1..Len(Ahead(l, n)) /\ Ahead(l, n)[i - n] = l[i]
  <2> DEFINE a == RemoveAt(Ahead(l, n), i - n)
  <2>0. m = n
    BY <1>0, <1>6 DEF m, After
  <2>1. i - n \in 1..Len(Ahead(l, n)) /\ Ahead(l, n)[i - n] = l[i]
    BY <1>0, <1>3, <1>6
  <2>2. /\ a \in Seq(S) /\ Len(a) = Len(l) - n - 1
        /\ \A j \in 1..(Len(l) - n - 1) : a[j] = IF j < i - n THEN l[n + j] ELSE l[n + j + 1]
    <3>1. /\ a \in Seq(S) /\ Len(a) = Len(Ahead(l, n)) - 1
          /\ \A j \in 1..(Len(Ahead(l, n)) - 1) :
               a[j] = IF j < i - n THEN Ahead(l, n)[j] ELSE Ahead(l, n)[j + 1]
      BY <1>3, <2>1, RemoveAtEntries
    <3> HIDE DEF a
    <3> QED
      BY <1>0, <1>3, <1>6, <3>1
  <2> HIDE DEF a
  <2>3. Ahead(r, m) = a
    <3>1. Len(Ahead(r, m)) = Len(a) /\ Len(a) = Len(l) - n - 1
      BY <1>0, <1>1, <1>4, <2>0, <2>2
    <3>2. \A j \in 1..(Len(l) - n - 1) : Ahead(r, m)[j] = a[j]
      BY <1>0, <1>1, <1>4, <1>6, <2>0, <2>2, <3>1
    <3> QED
      BY <1>4, <2>2, <3>1, <3>2, SeqEqual
  <2>4. Behind(r, m) = Behind(l, n)
    <3>1. Len(Behind(r, m)) = Len(Behind(l, n)) /\ Len(Behind(l, n)) = n - 1
      BY <1>0, <1>3, <1>4, <2>0
    <3>2. ASSUME NEW j \in 1..(n - 1)
          PROVE  Behind(r, m)[j] = Behind(l, n)[j]
      <4>1. j \in 1..(Len(l) - 1) /\ j < i
        BY <1>0, <1>6
      <4>2. Behind(r, m)[j] = r[j] /\ Behind(l, n)[j] = l[j]
        BY <1>3, <1>4, <2>0
      <4> QED
        BY <1>1, <4>1, <4>2
    <3> QED
      BY <1>3, <1>4, <3>1, <3>2, SeqEqual
  <2> QED
    BY <2>1, <2>3, <2>4 DEF a
<1> QED
  BY <1>1, <1>2, <1>5, <1>6 DEF r, m

-----------------------------------------------------------------------------
(* The queue as a list of ids                                               *)

IdsOf(q) == [i \in DOMAIN q |-> q[i].id]

(* The list of ids has the length and the order of the queue.              *)
LEMMA IdsEntries ==
  ASSUME NEW q \in Seq(Entries)
  PROVE  /\ IdsOf(q) \in Seq(Tracks) /\ Len(IdsOf(q)) = Len(q)
         /\ \A i \in 1..Len(q) : IdsOf(q)[i] = q[i].id
<1>1. Len(q) \in Nat /\ DOMAIN q = 1..Len(q) /\ \A i \in 1..Len(q) : q[i] \in Entries
  BY LenProperties, ElementOfSeq
<1>2. IdsOf(q) = [i \in 1..Len(q) |-> q[i].id] /\ \A i \in 1..Len(q) : q[i].id \in Tracks
  BY <1>1 DEF IdsOf, Entries
<1>3. IdsOf(q) \in [1..Len(q) -> Tracks]
  BY <1>2
<1>4. IdsOf(q) \in Seq(Tracks)
  BY <1>1, <1>3, SeqDef
<1>5. Len(IdsOf(q)) = Len(q)
  BY <1>1, <1>3, <1>4, LenProperties
<1> QED
  BY <1>2, <1>4, <1>5

(* A track put into the queue puts its id into the list of ids.            *)
LEMMA IdsInsert ==
  ASSUME NEW q \in Seq(Entries), NEW i \in 1..(Len(q) + 1), NEW t \in Entries
  PROVE  IdsOf(InsertAt(q, i, t)) = InsertAt(IdsOf(q), i, t.id)
<1> DEFINE r == InsertAt(q, i, t)
           a == IdsOf(r)
           b == InsertAt(IdsOf(q), i, t.id)
<1>0. Len(q) \in Nat /\ i \in Nat /\ t.id \in Tracks
  BY LenProperties DEF Entries
<1>1. /\ r \in Seq(Entries) /\ Len(r) = Len(q) + 1
      /\ \A j \in 1..(Len(q) + 1) : r[j] = IF j < i THEN q[j] ELSE IF j = i THEN t ELSE q[j - 1]
  BY InsertAtEntries
<1> HIDE DEF r
<1>2. /\ a \in Seq(Tracks) /\ Len(a) = Len(r) /\ \A j \in 1..Len(r) : a[j] = r[j].id
  BY <1>1, IdsEntries
<1>3. /\ IdsOf(q) \in Seq(Tracks) /\ Len(IdsOf(q)) = Len(q)
      /\ \A j \in 1..Len(q) : IdsOf(q)[j] = q[j].id
  BY IdsEntries
<1>4. /\ b \in Seq(Tracks) /\ Len(b) = Len(q) + 1
      /\ \A j \in 1..(Len(q) + 1) :
           b[j] = IF j < i THEN IdsOf(q)[j] ELSE IF j = i THEN t.id ELSE IdsOf(q)[j - 1]
  <2>1. ASSUME NEW l \in Seq(Tracks), i \in 1..(Len(l) + 1), NEW x \in Tracks
        PROVE  /\ InsertAt(l, i, x) \in Seq(Tracks) /\ Len(InsertAt(l, i, x)) = Len(l) + 1
               /\ \A j \in 1..(Len(l) + 1) :
                    InsertAt(l, i, x)[j] = IF j < i THEN l[j] ELSE IF j = i THEN x ELSE l[j - 1]
    BY <2>1, InsertAtEntries
  <2>2. IdsOf(q) \in Seq(Tracks) /\ i \in 1..(Len(IdsOf(q)) + 1) /\ t.id \in Tracks
    BY <1>0, <1>3
  <2>3. /\ b \in Seq(Tracks) /\ Len(b) = Len(IdsOf(q)) + 1
        /\ \A j \in 1..(Len(IdsOf(q)) + 1) :
             b[j] = IF j < i THEN IdsOf(q)[j] ELSE IF j = i THEN t.id ELSE IdsOf(q)[j - 1]
    BY <2>1, <2>2
  <2> QED
    BY <1>3, <2>3
<1> HIDE DEF a, b
<1>5. ASSUME NEW j \in 1..Len(a)
      PROVE  a[j] = b[j]
  <2>0. j \in 1..(Len(q) + 1) /\ a[j] = r[j].id
    BY <1>1, <1>2
  <2>1. CASE j < i
    <3>1. j \in 1..Len(q)
      BY <1>0, <2>0, <2>1
    <3>2. r[j] = q[j] /\ b[j] = IdsOf(q)[j] /\ IdsOf(q)[j] = q[j].id
      BY <1>1, <1>3, <1>4, <2>0, <2>1, <3>1
    <3> QED
      BY <2>0, <3>2
  <2>2. CASE j = i
    <3>1. r[j] = t /\ b[j] = t.id
      BY <1>0, <1>1, <1>4, <2>0, <2>2
    <3> QED
      BY <2>0, <3>1
  <2>3. CASE j > i
    <3>1. j - 1 \in 1..Len(q) /\ ~(j < i) /\ j # i
      BY <1>0, <2>0, <2>3
    <3>2. r[j] = q[j - 1]
      BY <1>1, <2>0, <3>1
    <3>3. b[j] = IdsOf(q)[j - 1] 
      BY <1>4, <2>0, <3>1
    <3>4. IdsOf(q)[j - 1] = q[j - 1].id
      BY <1>3, <3>1
    <3> QED
      BY <2>0, <3>2, <3>3, <3>4
  <2> QED
    BY <1>0, <2>0, <2>1, <2>2, <2>3
<1>6. a = b
  BY <1>1, <1>2, <1>3, <1>4, <1>5, SeqEqual
<1> QED
  BY <1>6 DEF a, b, r

(* A track taken out of the queue takes its id out of the list of ids.     *)
LEMMA IdsRemove ==
  ASSUME NEW q \in Seq(Entries), NEW i \in 1..Len(q)
  PROVE  IdsOf(RemoveAt(q, i)) = RemoveAt(IdsOf(q), i)
<1> DEFINE r == RemoveAt(q, i)
           a == IdsOf(r)
           b == RemoveAt(IdsOf(q), i)
<1>0. Len(q) \in Nat /\ i \in Nat
  BY LenProperties
<1>1. /\ r \in Seq(Entries) /\ Len(r) = Len(q) - 1
      /\ \A j \in 1..(Len(q) - 1) : r[j] = IF j < i THEN q[j] ELSE q[j + 1]
  BY RemoveAtEntries
<1> HIDE DEF r
<1>2. /\ a \in Seq(Tracks) /\ Len(a) = Len(r) /\ \A j \in 1..Len(r) : a[j] = r[j].id
  BY <1>1, IdsEntries
<1>3. /\ IdsOf(q) \in Seq(Tracks) /\ Len(IdsOf(q)) = Len(q)
      /\ \A j \in 1..Len(q) : IdsOf(q)[j] = q[j].id
  BY IdsEntries
<1>4. /\ b \in Seq(Tracks) /\ Len(b) = Len(q) - 1
      /\ \A j \in 1..(Len(q) - 1) : b[j] = IF j < i THEN IdsOf(q)[j] ELSE IdsOf(q)[j + 1]
  <2>1. i \in 1..Len(IdsOf(q))
    BY <1>3
  <2> QED
    BY <1>3, <2>1, RemoveAtEntries
<1> HIDE DEF a, b
<1>5. ASSUME NEW j \in 1..Len(a)
      PROVE  a[j] = b[j]
  <2>0. j \in 1..(Len(q) - 1) /\ a[j] = r[j].id
    BY <1>1, <1>2
  <2>1. CASE j < i
    <3>1. j \in 1..Len(q)
      BY <1>0, <2>0
    <3>2. r[j] = q[j] /\ b[j] = IdsOf(q)[j] /\ IdsOf(q)[j] = q[j].id
      BY <1>1, <1>3, <1>4, <2>0, <2>1, <3>1
    <3> QED
      BY <2>0, <3>2
  <2>2. CASE ~(j < i)
    <3>1. j + 1 \in 1..Len(q)
      BY <1>0, <2>0
    <3>2. r[j] = q[j + 1]
      BY <1>1, <2>0, <2>2
    <3>3. b[j] = IdsOf(q)[j + 1]
      BY <1>4, <2>0, <2>2
    <3>4. IdsOf(q)[j + 1] = q[j + 1].id
      BY <1>3, <3>1
    <3> QED
      BY <2>0, <3>2, <3>3, <3>4
  <2> QED
    BY <2>1, <2>2
<1>6. a = b
  BY <1>1, <1>2, <1>3, <1>4, <1>5, SeqEqual
<1> QED
  BY <1>6 DEF a, b, r

-----------------------------------------------------------------------------
(* A render                                                                 *)

QueueInv == QueueTypeOK /\ IndexPoints

Ops == {"load", "skip", "insert", "move", "drop"}

(* The lesser of a place in a queue and the length of the queue.            *)
LEMMA LesserOfThePlace ==
  ASSUME NEW n \in Nat, NEW i \in 0..n
  PROVE  Lesser(i, n) = i
BY DEF Lesser

(* A render whose index is in the queue keeps the invariant, and starts the *)
(* current track if it was asked to or the track is the one that was.       *)
LEMMA RenderedStep ==
  ASSUME ListsFit, QueueInv,
         NEW op \in Ops, NEW ask \in BOOLEAN,
         NEW q \in Seq(Entries), Len(q) <= MaxQueue,
         NEW i \in 0..Len(q), (i = 0) = (q = <<>>),
         Rendered(op, q, i, ask),
         ask \/ i = 0 \/ (index # 0 /\ q[i].id = queue[index].id)
  PROVE  QueueInv' /\ StartsTheNewTrack /\ ids' = IdsOf(q) /\ index' = i /\ did' = op
<1>0. /\ Len(q) \in Nat /\ MaxQueue \in Nat /\ DOMAIN q = 1..Len(q)
      /\ \A j \in 1..Len(q) : q[j] \in Entries
      /\ queue \in Seq(Entries)
  BY LenProperties, ElementOfSeq DEF ListsFit, QueueInv, QueueTypeOK
<1>1. Lesser(i, Len(q)) = i
  BY <1>0, LesserOfThePlace
<1>2. queue' = q /\ index' = i /\ did' = op /\ UNCHANGED repeatOne
  BY <1>1 DEF Rendered
<1>3. ids' = IdsOf(q)
  BY <1>2 DEF ids, IdsOf
<1>4. Poor(q) \subseteq Tracks
  BY <1>0 DEF Poor, Entries
<1> DEFINE new == Current(q, i) \notin {Current(queue, index), {}}
<1>5. /\ hydrating' = hydrating \union Poor(q)
      /\ asked' = (ask /\ ~new)
      /\ playing' = (q # <<>> /\ IF new THEN ask ELSE playing)
  BY <1>1 DEF Rendered
<1>6. QueueTypeOK'
  <2>1. asked' \in BOOLEAN /\ playing' \in BOOLEAN
    BY <1>5
  <2>2. did' \in {"none", "load", "skip", "insert", "move", "drop"}
    BY <1>2 DEF Ops
  <2>3. queue' \in Seq(Entries) /\ Len(queue') <= MaxQueue /\ index' \in 0..MaxQueue
    BY <1>0, <1>2
  <2> QED
    BY <1>2, <1>4, <1>5, <2>1, <2>2, <2>3 DEF QueueInv, QueueTypeOK
<1>7. IndexPoints'
  BY <1>0, <1>2 DEF IndexPoints
<1>8. StartsTheNewTrack
  <2>1. CASE i = 0
    BY <1>2, <2>1 DEF StartsTheNewTrack, Current
  <2>2. CASE i # 0 /\ ask
    BY <1>2, <1>5, <2>2 DEF StartsTheNewTrack
  <2>3. CASE i # 0 /\ ~ask
    <3>1. Current(q, i) = Current(queue, index)
      BY <2>3 DEF Current
    <3> QED
      BY <1>2, <3>1 DEF StartsTheNewTrack
  <2> QED
    BY <2>1, <2>2, <2>3
<1> QED
  BY <1>2, <1>3, <1>6, <1>7, <1>8 DEF QueueInv

(* A track put next comes first in what is ahead, one put last comes last,  *)
(* and nothing else moves.                                                  *)
LEMMA PartsInsert ==
  ASSUME NEW S, NEW l \in Seq(S), NEW n \in 1..Len(l), NEW x \in S,
         NEW p \in {n + 1, Len(l) + 1}
  PROVE  LET r == InsertAt(l, p, x)
         IN /\ Behind(r, n) = Behind(l, n)
            /\ r[n] = l[n]
            /\ p = n + 1 => Ahead(r, n) = <<x>> \o Ahead(l, n)
            /\ p = Len(l) + 1 => Ahead(r, n) = Append(Ahead(l, n), x)
<1> DEFINE r == InsertAt(l, p, x)
<1>0. Len(l) \in Nat /\ n \in Nat /\ p \in 1..(Len(l) + 1) /\ n < p
  BY LenProperties
<1>1. /\ r \in Seq(S) /\ Len(r) = Len(l) + 1
      /\ \A j \in 1..(Len(l) + 1) : r[j] = IF j < p THEN l[j] ELSE IF j = p THEN x ELSE l[j - 1]
  <2>1. ASSUME NEW i \in 1..(Len(l) + 1)
        PROVE  /\ InsertAt(l, i, x) \in Seq(S) /\ Len(InsertAt(l, i, x)) = Len(l) + 1
               /\ \A j \in 1..(Len(l) + 1) :
                    InsertAt(l, i, x)[j] = IF j < i THEN l[j] ELSE IF j = i THEN x ELSE l[j - 1]
    BY InsertAtEntries
  <2> QED
    BY <1>0, <2>1
<1> HIDE DEF r
<1>2. n \in 1..Len(r) /\ r[n] = l[n]
  BY <1>0, <1>1
<1>3. /\ Behind(l, n) \in Seq(S) /\ Len(Behind(l, n)) = n - 1
      /\ \A j \in 1..(n - 1) : Behind(l, n)[j] = l[j]
      /\ Ahead(l, n) \in Seq(S) /\ Len(Ahead(l, n)) = Len(l) - n
      /\ \A j \in 1..(Len(l) - n) : Ahead(l, n)[j] = l[n + j]
  BY PartsEntries
<1>4. /\ Behind(r, n) \in Seq(S) /\ Len(Behind(r, n)) = n - 1
      /\ \A j \in 1..(n - 1) : Behind(r, n)[j] = r[j]
      /\ Ahead(r, n) \in Seq(S) /\ Len(Ahead(r, n)) = Len(r) - n
      /\ \A j \in 1..(Len(r) - n) : Ahead(r, n)[j] = r[n + j]
  BY <1>1, <1>2, PartsEntries
<1>5. Behind(r, n) = Behind(l, n)
  <2>1. ASSUME NEW j \in 1..(n - 1)
        PROVE  Behind(r, n)[j] = Behind(l, n)[j]
    <3>1. j \in 1..(Len(l) + 1) /\ j < p
      BY <1>0
    <3> QED
      BY <1>1, <1>3, <1>4, <3>1
  <2> QED
    BY <1>3, <1>4, <2>1, SeqEqual
<1> DEFINE a == Ahead(l, n)
           b == Ahead(r, n)
<1>6. a \in Seq(S) /\ b \in Seq(S) /\ Len(a) = Len(l) - n /\ Len(b) = Len(a) + 1 /\ Len(a) \in Nat
  BY <1>0, <1>1, <1>3, <1>4
<1>7. ASSUME p = n + 1
      PROVE  b = <<x>> \o a
  <2> DEFINE c == <<x>> \o a
  <2>1. <<x>> \in Seq(S) /\ Len(<<x>>) = 1 /\ <<x>>[1] = x
    OBVIOUS
  <2>2. /\ c \in Seq(S) /\ Len(c) = 1 + Len(a)
        /\ \A j \in 1..(1 + Len(a)) : c[j] = IF j <= 1 THEN <<x>>[j] ELSE a[j - 1]
    <3> HIDE DEF a
    <3> QED
      BY <1>6, <2>1, ConcatProperties
  <2> HIDE DEF c
  <2>3. ASSUME NEW j \in 1..Len(b)
        PROVE  b[j] = c[j]
    <3>1. /\ j \in 1..(Len(l) - n + 1) /\ n + j \in 1..(Len(l) + 1) /\ j \in 1..(1 + Len(a))
          /\ j \in 1..(Len(r) - n)
      BY <1>0, <1>1, <1>6
    <3>2. b[j] = r[n + j]
      BY <1>4, <3>1
    <3>3. CASE j = 1
      <4>1. r[n + j] = x
        BY <1>0, <1>1, <1>7, <3>1, <3>3
      <4>2. c[j] = x
        BY <2>1, <2>2, <3>1, <3>3
      <4> QED
        BY <3>2, <4>1, <4>2
    <3>4. CASE j # 1
      <4>1. j - 1 \in 1..(Len(l) - n) /\ ~(n + j < p) /\ n + j # p /\ ~(j <= 1)
        BY <1>0, <1>7, <3>1, <3>4
      <4>2. r[n + j] = l[n + j - 1]
        BY <1>1, <3>1, <4>1
      <4>3. c[j] = a[j - 1]
        BY <2>2, <3>1, <4>1
      <4>4. a[j - 1] = l[n + (j - 1)]
        BY <1>3, <4>1
      <4>5. n + (j - 1) = n + j - 1
        BY <1>0, <3>1
      <4> QED
        BY <3>2, <4>2, <4>3, <4>4, <4>5
    <3> QED
      BY <3>3, <3>4
  <2>4. b = c
    <3> HIDE DEF a, b
    <3>1. Len(b) = Len(c)
      BY <1>6, <2>2
    <3> QED
      BY <1>6, <2>2, <2>3, <3>1, SeqEqual
  <2> QED
    BY <2>4 DEF c
<1>8. ASSUME p = Len(l) + 1
      PROVE  b = Append(a, x)
  <2> DEFINE c == Append(a, x)
  <2>2. /\ c \in Seq(S) /\ Len(c) = Len(a) + 1
        /\ \A j \in 1..Len(a) : c[j] = a[j]
        /\ c[Len(a) + 1] = x
    <3> HIDE DEF a
    <3> QED
      BY <1>6, AppendProperties
  <2> HIDE DEF c
  <2>3. ASSUME NEW j \in 1..Len(b)
        PROVE  b[j] = c[j]
    <3>1. /\ j \in 1..(Len(l) - n + 1) /\ n + j \in 1..(Len(l) + 1) /\ j \in 1..(Len(r) - n)
      BY <1>0, <1>1, <1>6
    <3>2. b[j] = r[n + j]
      BY <1>4, <3>1
    <3>3. CASE j = Len(a) + 1
      <4>1. n + j = p /\ ~(n + j < p)
        BY <1>0, <1>6, <1>8, <3>3
      <4>2. r[n + j] = x
        BY <1>1, <3>1, <4>1
      <4> QED
        BY <2>2, <3>2, <3>3, <4>2
    <3>4. CASE j # Len(a) + 1
      <4>1. j \in 1..Len(a) /\ j \in 1..(Len(l) - n) /\ n + j < p
        BY <1>0, <1>6, <1>8, <3>1, <3>4
      <4>2. r[n + j] = l[n + j]
        BY <1>1, <3>1, <4>1
      <4>3. a[j] = l[n + j]
        BY <1>3, <4>1
      <4> QED
        BY <2>2, <3>2, <4>1, <4>2, <4>3
    <3> QED
      BY <3>3, <3>4
  <2>4. b = c
    <3> HIDE DEF a, b
    <3>1. Len(b) = Len(c)
      BY <1>6, <2>2
    <3> QED
      BY <1>6, <2>2, <2>3, <3>1, SeqEqual
  <2> QED
    BY <2>4 DEF c
<1> QED
  BY <1>2, <1>5, <1>7, <1>8 DEF r

-----------------------------------------------------------------------------
(* The operations                                                           *)

(* What an operation owes: it keeps the invariant, starts what it makes     *)
(* current, and is a step of the playlist.                                  *)
Good == QueueInv' /\ StartsTheNewTrack /\ [L!Next]_(L!vars)

(* The parts of the playlist are those of the list of ids at the index.     *)
LEMMA Places ==
  /\ \A l, i : ids' = l /\ index' = i => L!Cut(l, i)
  /\ ids' = ids /\ index' = index /\ did' = did => UNCHANGED L!vars
BY DEF L!Cut, L!vars

(* What the invariant says of the list of ids and of the entry that plays.  *)
LEMMA QueueFacts ==
  ASSUME QueueInv
  PROVE  /\ queue \in Seq(Entries) /\ Len(queue) \in Nat /\ Len(queue) <= MaxQueue
         /\ DOMAIN queue = 1..Len(queue)
         /\ index \in 0..Len(queue) /\ (index = 0) = (queue = <<>>)
         /\ (queue = <<>>) = (Len(queue) = 0)
         /\ ids = IdsOf(queue) /\ ids \in Seq(Tracks) /\ Len(ids) = Len(queue)
         /\ \A i \in 1..Len(queue) : ids[i] = queue[i].id /\ queue[i] \in Entries
<1>1. queue \in Seq(Entries) /\ Len(queue) \in Nat /\ Len(queue) <= MaxQueue
      /\ DOMAIN queue = 1..Len(queue)
  BY LenProperties DEF QueueInv, QueueTypeOK
<1>2. index \in Nat /\ index <= Len(queue) /\ (index = 0) = (queue = <<>>)
  BY DEF QueueInv, QueueTypeOK, IndexPoints
<1>3. (queue = <<>>) = (Len(queue) = 0)
  BY <1>1, EmptySeq
<1>4. ids = IdsOf(queue)
  BY DEF ids, IdsOf
<1>5. \A i \in 1..Len(queue) : queue[i] \in Entries
  BY <1>1, ElementOfSeq
<1> QED
  BY <1>1, <1>2, <1>3, <1>4, <1>5, IdsEntries

(* playQueue and its like: another list, asked to play unless it is empty.  *)
LEMMA LoadStep ==
  ASSUME ListsFit, QueueInv, NEW ask \in BOOLEAN,
         NEW q \in Seq(Entries), Len(q) <= MaxQueue,
         NEW i \in 0..Len(q), (i = 0) = (q = <<>>), ask \/ i = 0,
         Rendered("load", q, i, ask)
  PROVE  Good
<1>1. QueueInv' /\ StartsTheNewTrack /\ ids' = IdsOf(q) /\ index' = i /\ did' = "load"
  BY RenderedStep DEF Ops
<1> DEFINE l == IdsOf(q)
<1>2. l \in Seq(Tracks) /\ Len(l) = Len(q) /\ Len(q) \in Nat
  BY IdsEntries, LenProperties
<1>3. DOMAIN l = 1..Len(q) /\ l \in [1..Len(q) -> Tracks]
  <2> HIDE DEF l
  <2> QED
    BY <1>2, LenProperties
<1>4. (l = <<>>) = (q = <<>>)
  <2> HIDE DEF l
  <2> QED
    BY <1>2, EmptySeq
<1> HIDE DEF l
<1>5. l \in L!BoundedSeq(Tracks, MaxQueue)
  <2>1. Len(q) \in 0..MaxQueue
    BY <1>2 DEF ListsFit
  <2> QED
    BY <1>3, <2>1 DEF L!BoundedSeq, L!SeqOf
<1>6. i \in DOMAIN l \union {0} /\ (i = 0) = (l = <<>>)
  BY <1>2, <1>3, <1>4
<1>7. L!Cut(l, i)
  BY <1>1, Places DEF l
<1>8. L!Load
  BY <1>1, <1>5, <1>6, <1>7 DEF L!Load
<1> QED
  BY <1>1, <1>8 DEF Good, L!Next

(* The whole list, as the playlist puts it together.                        *)
LEMMA ListIsIds ==
  ASSUME QueueInv, index # 0
  PROVE  L!list = ids
<1>1. ids \in Seq(Tracks) /\ index \in 1..Len(ids)
  BY QueueFacts
<1>2. Behind(ids, index) \o Now(ids, index) \o Ahead(ids, index) = ids
  BY <1>1, PartsJoin
<1> QED
  BY <1>2 DEF L!list, Behind, Now, Ahead

(* next, prev and a row that is clicked.                                    *)
LEMMA SkipStep ==
  ASSUME ListsFit, QueueInv, NEW i \in 1..Len(queue), Rendered("skip", queue, i, TRUE)
  PROVE  Good
<1>0. /\ queue \in Seq(Entries) /\ Len(queue) <= MaxQueue /\ i \in 0..Len(queue) /\ i # 0
      /\ Len(queue) \in Nat /\ queue # <<>> /\ index # 0
  BY QueueFacts
<1>1. QueueInv' /\ StartsTheNewTrack /\ ids' = IdsOf(queue) /\ index' = i /\ did' = "skip"
  BY <1>0, RenderedStep DEF Ops
<1>2. L!Cut(ids, i)
  BY <1>1, Places, QueueFacts
<1>3. i \in DOMAIN ids
  BY QueueFacts, LenProperties
<1>4. L!Skip
  BY <1>0, <1>1, <1>2, <1>3, ListIsIds DEF L!Skip
<1> QED
  BY <1>1, <1>4 DEF Good, L!Next

(* next past the last entry: everything stays where it is, and stops.       *)
LEMMA NextStep ==
  ASSUME ListsFit, QueueInv, NextTrack
  PROVE  Good
<1>0. Len(queue) \in Nat /\ index \in 0..Len(queue)
  BY QueueFacts
<1>1. CASE index \in 1..(Len(queue) - 1) /\ Rendered("skip", queue, index + 1, TRUE)
  <2>1. index + 1 \in 1..Len(queue)
    BY <1>0, <1>1
  <2> QED
    BY <1>1, <2>1, SkipStep
<1>2. CASE /\ index # 0 /\ index = Len(queue)
           /\ asked' = FALSE /\ playing' = FALSE /\ did' = "skip"
           /\ UNCHANGED <<queue, index, repeatOne, hydrating>>
  <2>1. QueueInv'
    BY <1>2 DEF QueueInv, QueueTypeOK, IndexPoints
  <2>2. StartsTheNewTrack
    BY <1>2 DEF StartsTheNewTrack, Current
  <2>3. ids' = ids /\ index' = index
    BY <1>2 DEF ids
  <2>4. L!Cut(ids, index)
    BY <2>3, Places
  <2>5. index \in DOMAIN ids
    BY <1>0, <1>2, QueueFacts, LenProperties
  <2>6. L!Skip
    BY <1>2, <2>4, <2>5, ListIsIds DEF L!Skip
  <2> QED
    BY <2>1, <2>2, <2>6 DEF Good, L!Next
<1> QED
  BY <1>1, <1>2 DEF NextTrack

(* What touches neither the list of ids nor the index.                      *)
LEMMA StutterStep ==
  ASSUME QueueInv, QueueTypeOK', Len(queue') = Len(queue), (queue' = <<>>) = (queue = <<>>),
         ids' = ids, UNCHANGED <<index, did>>
  PROVE  Good
<1>1. QueueInv'
  BY DEF QueueInv, IndexPoints
<1>2. Current(queue', index') = Current(queue, index)
  <2>1. CASE index = 0
    BY <2>1 DEF Current
  <2>2. CASE index # 0
    <3>1. index \in 1..Len(queue) /\ ids[index] = queue[index].id
      BY <2>2, QueueFacts
    <3>2. ids'[index'] = queue'[index'].id
      <4>1. queue' \in Seq(Entries)
        BY DEF QueueTypeOK
      <4>2. DOMAIN queue' = 1..Len(queue')
        BY <4>1, LenProperties
      <4> QED
        BY <3>1, <4>2 DEF ids
    <3> QED
      BY <2>2, <3>1, <3>2 DEF Current
  <2> QED
    BY <2>1, <2>2
<1>3. StartsTheNewTrack
  BY <1>2 DEF StartsTheNewTrack
<1>4. UNCHANGED L!vars
  BY Places
<1> QED
  BY <1>1, <1>3, <1>4 DEF Good

(* playNext and addToQueue with something playing.                          *)
LEMMA InsertStep ==
  ASSUME ListsFit, QueueInv, NEW t \in Entries, NEW p \in {index + 1, Len(queue) + 1},
         queue # <<>>, Len(queue) < MaxQueue,
         Rendered("insert", InsertAt(queue, p, t), index, asked)
  PROVE  Good
<1> DEFINE q == InsertAt(queue, p, t)
<1>0. /\ queue \in Seq(Entries) /\ Len(queue) \in Nat /\ MaxQueue \in Nat
      /\ index \in 1..Len(queue) /\ p \in 1..(Len(queue) + 1) /\ index < p
      /\ t.id \in Tracks /\ asked \in BOOLEAN
  BY QueueFacts DEF ListsFit, Entries, QueueInv, QueueTypeOK
<1>1. /\ q \in Seq(Entries) /\ Len(q) = Len(queue) + 1
      /\ \A j \in 1..(Len(queue) + 1) :
           q[j] = IF j < p THEN queue[j] ELSE IF j = p THEN t ELSE queue[j - 1]
  <2>1. ASSUME NEW i \in 1..(Len(queue) + 1)
        PROVE  /\ InsertAt(queue, i, t) \in Seq(Entries)
               /\ Len(InsertAt(queue, i, t)) = Len(queue) + 1
               /\ \A j \in 1..(Len(queue) + 1) :
                    InsertAt(queue, i, t)[j] = IF j < i THEN queue[j]
                                               ELSE IF j = i THEN t ELSE queue[j - 1]
    BY <1>0, InsertAtEntries
  <2> QED
    BY <1>0, <2>1
<1>2. IdsOf(q) = InsertAt(ids, p, t.id)
  BY <1>0, IdsInsert, QueueFacts
<1>3. Rendered("insert", q, index, asked)
  OBVIOUS
<1> HIDE DEF q
<1>4. q # <<>> /\ index \in 0..Len(q) /\ Len(q) <= MaxQueue /\ index # 0 /\ q[index] = queue[index]
  <2>1. Len(q) # 0
    BY <1>0, <1>1
  <2> QED
    BY <1>0, <1>1, <2>1, EmptySeq
<1>5. QueueInv' /\ StartsTheNewTrack /\ ids' = IdsOf(q) /\ index' = index /\ did' = "insert"
  BY <1>0, <1>1, <1>3, <1>4, RenderedStep DEF Ops
<1> DEFINE x == t.id
           r == InsertAt(ids, p, x)
<1>6. ids \in Seq(Tracks) /\ index \in 1..Len(ids) /\ p \in {index + 1, Len(ids) + 1} /\ x \in Tracks
  BY <1>0, QueueFacts
<1>7. /\ Behind(r, index) = Behind(ids, index) /\ r[index] = ids[index]
      /\ p = index + 1 => Ahead(r, index) = <<x>> \o Ahead(ids, index)
      /\ p = Len(ids) + 1 => Ahead(r, index) = Append(Ahead(ids, index), x)
  <2> HIDE DEF x
  <2> QED
    BY <1>6, PartsInsert
<1>8. ids' = r
  BY <1>2, <1>5
<1> HIDE DEF r, x
<1>9. L!Insert
  <2>1. UNCHANGED SubSeq(ids, 1, index - 1)
    BY <1>5, <1>7, <1>8 DEF Behind
  <2>2. UNCHANGED (IF index = 0 THEN <<>> ELSE <<ids[index]>>)
    BY <1>5, <1>7, <1>8
  <2>3. (IF index = 0 THEN <<>> ELSE <<ids[index]>>) # <<>>
    BY <1>0
  <2>4. \/ SubSeq(ids, index + 1, Len(ids))' = <<x>> \o SubSeq(ids, index + 1, Len(ids))
        \/ SubSeq(ids, index + 1, Len(ids))' = Append(SubSeq(ids, index + 1, Len(ids)), x)
    BY <1>5, <1>6, <1>7, <1>8 DEF Ahead
  <2> QED
    BY <1>5, <1>6, <2>1, <2>2, <2>3, <2>4 DEF L!Insert
<1> QED
  BY <1>5, <1>9 DEF Good, L!Next

(* The first track of an empty queue starts at once.                        *)
LEMMA LoneStep ==
  ASSUME ListsFit, QueueInv, NEW t \in Entries, Rendered("load", <<t>>, 1, TRUE)
  PROVE  Good
<1>1. <<t>> \in Seq(Entries) /\ Len(<<t>>) = 1 /\ <<t>> # <<>> /\ 1 <= MaxQueue
  BY DEF ListsFit
<1>2. 1 \in 0..Len(<<t>>) /\ (1 = 0) = (<<t>> = <<>>) /\ Len(<<t>>) <= MaxQueue
  <2>1. 1 \in 0..Len(<<t>>) /\ Len(<<t>>) <= MaxQueue
    BY <1>1
  <2>2. 1 # 0 /\ <<t>> # <<>>
    BY <1>1
  <2> QED
    BY <2>1, <2>2, Zenon
<1> DEFINE q == <<t>>
           i == 1
<1>3. /\ q \in Seq(Entries) /\ Len(q) <= MaxQueue /\ i \in 0..Len(q)
      /\ (i = 0) = (q = <<>>) /\ Rendered("load", q, i, TRUE)
  BY <1>1, <1>2
<1> HIDE DEF q, i
<1> QED
  BY <1>3, LoadStep

(* removeTrack of a track other than the one that plays.                    *)
LEMMA DropAroundStep ==
  ASSUME ListsFit, QueueInv, NEW i \in DOMAIN queue, i # index, RemoveTrack(i)
  PROVE  Good
<1> DEFINE q == RemoveAt(queue, i)
           r == RemoveAt(ids, i)
           m == After(index, i)
<1>0. /\ queue \in Seq(Entries) /\ Len(queue) \in Nat /\ MaxQueue \in Nat /\ Len(queue) <= MaxQueue
      /\ i \in 1..Len(queue) /\ index \in 1..Len(queue) /\ asked \in BOOLEAN
      /\ ids = IdsOf(queue) /\ ids \in Seq(Tracks) /\ Len(ids) = Len(queue)
      /\ \A j \in 1..Len(queue) : ids[j] = queue[j].id
  BY QueueFacts DEF ListsFit, QueueInv, QueueTypeOK
<1>1. AfterRemoval(i) = m
  BY <1>0 DEF AfterRemoval, After, Lesser
<1>2. q \in Seq(Entries) /\ Len(q) = Len(queue) - 1 /\ IdsOf(q) = r
  BY <1>0, RemoveAtEntries, IdsRemove
<1>3. Rendered("drop", q, m, asked)
  <2>1. (asked \/ i = index) = asked
    BY <1>0
  <2>2. Rendered("drop", RemoveAt(queue, i), AfterRemoval(i), asked \/ i = index)
    BY DEF RemoveTrack
  <2> QED
    BY <1>1, <2>1, <2>2
<1>4. /\ r \in Seq(Tracks) /\ m \in 1..Len(r) /\ r[m] = ids[index]
      /\ i < index => /\ Behind(r, m) = RemoveAt(Behind(ids, index), i)
                      /\ Ahead(r, m) = Ahead(ids, index)
                      /\ i \in 1..Len(Behind(ids, index))
      /\ i > index => /\ Behind(r, m) = Behind(ids, index)
                      /\ Ahead(r, m) = RemoveAt(Ahead(ids, index), i - index)
                      /\ i - index \in 1..Len(Ahead(ids, index))
  BY <1>0, PartsWithout
<1> HIDE DEF q, r, m
<1>5. Len(r) = Len(q) /\ r[m] = q[m].id
  <2>1. Len(IdsOf(q)) = Len(q) /\ \A j \in 1..Len(q) : IdsOf(q)[j] = q[j].id
    BY <1>2, IdsEntries
  <2> QED
    BY <1>2, <1>4, <2>1
<1>6. m \in 0..Len(q) /\ m # 0 /\ q # <<>> /\ Len(q) <= MaxQueue /\ q[m].id = queue[index].id
  <2>1. m \in 1..Len(q) /\ Len(q) <= MaxQueue
    BY <1>0, <1>2, <1>4, <1>5
  <2>2. q # <<>>
    BY <1>2, <2>1, EmptySeq
  <2>3. q[m].id = queue[index].id
    BY <1>0, <1>4, <1>5
  <2> QED
    BY <2>1, <2>2, <2>3
<1>7. QueueInv' /\ StartsTheNewTrack /\ ids' = r /\ index' = m /\ did' = "drop"
  <2>1. index # 0
    BY <1>0
  <2> QED
    BY <1>0, <1>2, <1>3, <1>6, <2>1, RenderedStep DEF Ops
<1>8. UNCHANGED (IF index = 0 THEN <<>> ELSE <<ids[index]>>)
  BY <1>0, <1>4, <1>6, <1>7
<1>9. /\ Behind(ids, index) \in Seq(Tracks) /\ Ahead(ids, index) \in Seq(Tracks)
      /\ DOMAIN Behind(ids, index) = 1..Len(Behind(ids, index))
      /\ DOMAIN Ahead(ids, index) = 1..Len(Ahead(ids, index))
  <2>1. Behind(ids, index) \in Seq(Tracks) /\ Ahead(ids, index) \in Seq(Tracks)
    BY <1>0, PartsEntries
  <2> QED
    BY <2>1, LenProperties
<1>10. CASE i < index
  <2>1. UNCHANGED SubSeq(ids, index + 1, Len(ids))
    BY <1>4, <1>7, <1>10 DEF Ahead
  <2>2. i \in DOMAIN SubSeq(ids, 1, index - 1)
    BY <1>4, <1>9, <1>10 DEF Behind
  <2>3. SubSeq(ids, 1, index - 1)' = L!RemoveAt(SubSeq(ids, 1, index - 1), i)
    BY <1>4, <1>7, <1>10 DEF Behind, RemoveAt, L!RemoveAt
  <2>4. L!DropAround
    BY <1>7, <1>8, <2>1, <2>2, <2>3 DEF L!DropAround
  <2> QED
    BY <1>7, <2>4 DEF Good, L!Next
<1>11. CASE i > index
  <2>1. UNCHANGED SubSeq(ids, 1, index - 1)
    BY <1>4, <1>7, <1>11 DEF Behind
  <2>2. i - index \in DOMAIN SubSeq(ids, index + 1, Len(ids))
    BY <1>4, <1>9, <1>11 DEF Ahead
  <2>3. SubSeq(ids, index + 1, Len(ids))' = L!RemoveAt(SubSeq(ids, index + 1, Len(ids)), i - index)
    BY <1>4, <1>7, <1>11 DEF Ahead, RemoveAt, L!RemoveAt
  <2>4. L!DropAround
    BY <1>7, <1>8, <2>1, <2>2, <2>3 DEF L!DropAround
  <2> QED
    BY <1>7, <2>4 DEF Good, L!Next
<1> QED
  BY <1>0, <1>10, <1>11

(* removeTrack of the one that plays: the next one takes its place, at the  *)
(* end of the queue the one before it.                                      *)
LEMMA DropCurrentStep ==
  ASSUME ListsFit, QueueInv, index \in DOMAIN queue, RemoveTrack(index)
  PROVE  Good
<1> DEFINE q == RemoveAt(queue, index)
           r == RemoveAt(ids, index)
           m == Lesser(index, Len(queue) - 1)
<1>0. /\ queue \in Seq(Entries) /\ Len(queue) \in Nat /\ MaxQueue \in Nat /\ Len(queue) <= MaxQueue
      /\ index \in 1..Len(queue)
      /\ ids = IdsOf(queue) /\ ids \in Seq(Tracks) /\ Len(ids) = Len(queue)
  BY QueueFacts DEF ListsFit
<1>1. AfterRemoval(index) = m
  BY <1>0 DEF AfterRemoval, Lesser
<1>2. q \in Seq(Entries) /\ Len(q) = Len(queue) - 1 /\ IdsOf(q) = r
  BY <1>0, RemoveAtEntries, IdsRemove
<1>3. Rendered("drop", q, m, TRUE)
  BY <1>1 DEF RemoveTrack
<1>4. r = Behind(ids, index) \o Ahead(ids, index)
  BY DEF RemoveAt, Behind, Ahead
<1>5. /\ m \in 0..Len(q) /\ (m = 0) = (q = <<>>) /\ Len(q) <= MaxQueue
      /\ m = IF index > Len(r) THEN Len(r) ELSE index
  <2>1. Len(r) = Len(q)
    BY <1>2, IdsEntries
  <2>2. m = IF index > Len(queue) - 1 THEN Len(queue) - 1 ELSE index
    BY <1>0 DEF Lesser
  <2>3. (q = <<>>) = (Len(q) = 0)
    <3> HIDE DEF q
    <3> QED
      BY <1>2, EmptySeq
  <2> HIDE DEF m, q, r
  <2> QED
    BY <1>0, <1>2, <2>1, <2>2, <2>3
<1> HIDE DEF m, q, r
<1>6. QueueInv' /\ StartsTheNewTrack /\ ids' = r /\ index' = m /\ did' = "drop"
  BY <1>2, <1>3, <1>5, RenderedStep DEF Ops
<1>7. Len(Behind(ids, index)) + 1 = index
  <2>1. Len(Behind(ids, index)) = index - 1
    BY <1>0, PartsEntries
  <2> QED
    BY <1>0, <2>1
<1>8. L!Cut(r, m)
  BY <1>6, Places
<1>9. L!DropCurrent
  BY <1>0, <1>4, <1>5, <1>6, <1>7, <1>8 DEF L!DropCurrent, Behind, Ahead
<1> QED
  BY <1>6, <1>9 DEF Good, L!Next

(* moveTrack: the index follows the entry that plays. Without the entry     *)
(* that moves, the list and the place in it are the same before and after.  *)
LEMMA MoveStep ==
  ASSUME ListsFit, QueueInv, NEW from, NEW to, MoveTrack(from, to)
  PROVE  Good
<1> DEFINE u == RemoveAt(queue, from)
           q == InsertAt(u, to, queue[from])
           x == ids[from]
           r == RemoveAt(ids, from)
           w == InsertAt(r, to, x)
           m == AfterMove(from, to)
<1>0. /\ queue \in Seq(Entries) /\ Len(queue) \in Nat /\ MaxQueue \in Nat /\ Len(queue) <= MaxQueue
      /\ from \in 1..Len(queue) /\ to \in 1..Len(queue) /\ from # to /\ index \in 1..Len(queue)
      /\ asked \in BOOLEAN /\ queue[from] \in Entries
      /\ ids = IdsOf(queue) /\ ids \in Seq(Tracks) /\ Len(ids) = Len(queue)
      /\ \A j \in 1..Len(queue) : ids[j] = queue[j].id
  BY QueueFacts DEF ListsFit, QueueInv, QueueTypeOK, MoveTrack
<1>1. u \in Seq(Entries) /\ Len(u) = Len(queue) - 1 /\ IdsOf(u) = r
  BY <1>0, RemoveAtEntries, IdsRemove
<1>2. r \in Seq(Tracks) /\ Len(r) = Len(ids) - 1 /\ x \in Tracks
  BY <1>0, RemoveAtEntries, ElementOfSeq
<1>3. q \in Seq(Entries) /\ Len(q) = Len(queue) /\ IdsOf(q) = w
  <2> HIDE DEF u, r
  <2>1. ASSUME NEW i \in 1..(Len(u) + 1), NEW e \in Entries
        PROVE  /\ InsertAt(u, i, e) \in Seq(Entries) /\ Len(InsertAt(u, i, e)) = Len(u) + 1
               /\ IdsOf(InsertAt(u, i, e)) = InsertAt(IdsOf(u), i, e.id)
    BY <1>1, InsertAtEntries, IdsInsert
  <2>2. to \in 1..(Len(u) + 1) /\ Len(u) + 1 = Len(queue)
    BY <1>0, <1>1
  <2> QED
    BY <1>0, <1>1, <2>1, <2>2
<1>4. /\ w \in Seq(Tracks) /\ Len(w) = Len(ids) /\ w[to] = x
      /\ RemoveAt(w, to) = r
  <2> HIDE DEF r, x
  <2>1. ASSUME NEW l \in Seq(Tracks), NEW i \in 1..(Len(l) + 1), NEW e \in Tracks
        PROVE  /\ InsertAt(l, i, e) \in Seq(Tracks) /\ Len(InsertAt(l, i, e)) = Len(l) + 1
               /\ InsertAt(l, i, e)[i] = e
               /\ RemoveAt(InsertAt(l, i, e), i) = l
    <3>1. /\ InsertAt(l, i, e) \in Seq(Tracks) /\ Len(InsertAt(l, i, e)) = Len(l) + 1
          /\ \A j \in 1..(Len(l) + 1) :
               InsertAt(l, i, e)[j] = IF j < i THEN l[j] ELSE IF j = i THEN e ELSE l[j - 1]
      BY InsertAtEntries
    <3>2. RemoveAt(InsertAt(l, i, e), i) = l
      BY RemoveInserted
    <3> QED
      BY <3>1, <3>2
  <2>2. to \in 1..(Len(r) + 1) /\ Len(r) + 1 = Len(ids)
    BY <1>0, <1>2
  <2> QED
    BY <1>2, <2>1, <2>2
<1>5. Rendered("move", q, m, asked)
  BY DEF MoveTrack
<1> HIDE DEF u, q, r, w, x
<1>6. /\ m \in 1..Len(ids)
      /\ index = from => m = to
      /\ index # from => m # to /\ After(m, to) = After(index, from)
  BY <1>0 DEF AfterMove, After
<1> HIDE DEF m
<1>7. ASSUME index # from
      PROVE  LET k == After(index, from)
             IN /\ r[k] = ids[index] /\ r[k] = w[m]
                /\ from < index => /\ Behind(r, k) = RemoveAt(Behind(ids, index), from)
                                   /\ Ahead(r, k) = Ahead(ids, index)
                                   /\ from \in 1..Len(Behind(ids, index))
                                   /\ Behind(ids, index)[from] = x
                /\ from > index => /\ Behind(r, k) = Behind(ids, index)
                                   /\ Ahead(r, k) = RemoveAt(Ahead(ids, index), from - index)
                                   /\ from - index \in 1..Len(Ahead(ids, index))
                                   /\ Ahead(ids, index)[from - index] = x
                /\ to < m => /\ Behind(r, k) = RemoveAt(Behind(w, m), to)
                             /\ Ahead(r, k) = Ahead(w, m)
                             /\ to \in 1..Len(Behind(w, m))
                             /\ Behind(w, m)[to] = x
                /\ to > m => /\ Behind(r, k) = Behind(w, m)
                             /\ Ahead(r, k) = RemoveAt(Ahead(w, m), to - m)
                             /\ to - m \in 1..Len(Ahead(w, m))
                             /\ Ahead(w, m)[to - m] = x
  <2> DEFINE k == After(index, from)
  <2>1. /\ r[k] = ids[index]
        /\ from < index => /\ Behind(r, k) = RemoveAt(Behind(ids, index), from)
                           /\ Ahead(r, k) = Ahead(ids, index)
                           /\ from \in 1..Len(Behind(ids, index))
                           /\ Behind(ids, index)[from] = x
        /\ from > index => /\ Behind(r, k) = Behind(ids, index)
                           /\ Ahead(r, k) = RemoveAt(Ahead(ids, index), from - index)
                           /\ from - index \in 1..Len(Ahead(ids, index))
                           /\ Ahead(ids, index)[from - index] = x
    <3>1. index \in 1..Len(ids) /\ from \in 1..Len(ids) /\ from # index
      BY <1>0, <1>7
    <3>2. ASSUME NEW l \in Seq(Tracks), NEW n \in 1..Len(l), NEW i \in 1..Len(l), i # n
          PROVE  /\ RemoveAt(l, i)[After(n, i)] = l[n]
                 /\ i < n => /\ Behind(RemoveAt(l, i), After(n, i)) = RemoveAt(Behind(l, n), i)
                             /\ Ahead(RemoveAt(l, i), After(n, i)) = Ahead(l, n)
                             /\ i \in 1..Len(Behind(l, n))
                             /\ Behind(l, n)[i] = l[i]
                 /\ i > n => /\ Behind(RemoveAt(l, i), After(n, i)) = Behind(l, n)
                             /\ Ahead(RemoveAt(l, i), After(n, i)) = RemoveAt(Ahead(l, n), i - n)
                             /\ i - n \in 1..Len(Ahead(l, n))
                             /\ Ahead(l, n)[i - n] = l[i]
      BY <3>2, PartsWithout
    <3> QED
      BY <1>0, <3>1, <3>2 DEF r, x
  <2>2. /\ RemoveAt(w, to)[After(m, to)] = w[m]
        /\ to < m => /\ Behind(RemoveAt(w, to), After(m, to)) = RemoveAt(Behind(w, m), to)
                     /\ Ahead(RemoveAt(w, to), After(m, to)) = Ahead(w, m)
                     /\ to \in 1..Len(Behind(w, m))
                     /\ Behind(w, m)[to] = w[to]
        /\ to > m => /\ Behind(RemoveAt(w, to), After(m, to)) = Behind(w, m)
                     /\ Ahead(RemoveAt(w, to), After(m, to)) = RemoveAt(Ahead(w, m), to - m)
                     /\ to - m \in 1..Len(Ahead(w, m))
                     /\ Ahead(w, m)[to - m] = w[to]
    <3>1. m \in 1..Len(w) /\ to \in 1..Len(w) /\ to # m
      BY <1>0, <1>4, <1>6, <1>7
    <3> QED
      BY <1>4, <3>1, PartsWithout
  <2>3. After(m, to) = k
    BY <1>6, <1>7
  <2> HIDE DEF k
  <2> QED
    BY <1>4, <2>1, <2>2, <2>3 DEF k
<1>8. w[m] = ids[index]
  <2>1. CASE index = from
    BY <1>4, <1>6, <2>1 DEF x
  <2>2. CASE index # from
    BY <1>7, <2>2
  <2> QED
    BY <2>1, <2>2
<1>9. m \in 0..Len(q) /\ m # 0 /\ q # <<>> /\ Len(q) <= MaxQueue /\ q[m].id = queue[index].id
  <2>1. m \in 1..Len(q) /\ Len(q) <= MaxQueue
    BY <1>0, <1>3, <1>6
  <2>2. q # <<>>
    BY <1>0, <1>3, EmptySeq
  <2>3. w[m] = q[m].id
    BY <1>3, <2>1, IdsEntries
  <2>4. q[m].id = queue[index].id
    BY <1>0, <1>8, <2>3
  <2> QED
    BY <2>1, <2>2, <2>4
<1>10. QueueInv' /\ StartsTheNewTrack /\ ids' = w /\ index' = m /\ did' = "move"
  <2>1. index # 0
    BY <1>0
  <2> QED
    BY <1>0, <1>3, <1>5, <1>9, <2>1, RenderedStep DEF Ops
<1>11. UNCHANGED (IF index = 0 THEN <<>> ELSE <<ids[index]>>)
  BY <1>0, <1>8, <1>9, <1>10
<1>12. CASE index = from
  <2>1. r = Behind(ids, index) \o Ahead(ids, index)
    BY <1>12 DEF r, RemoveAt, Behind, Ahead
  <2>2. r = Behind(w, m) \o Ahead(w, m)
    BY <1>4, <1>6, <1>12 DEF RemoveAt, Behind, Ahead
  <2>3. L!MoveCurrent
    BY <1>10, <1>11, <2>1, <2>2 DEF L!MoveCurrent, Behind, Ahead
  <2> QED
    BY <1>10, <2>3 DEF Good, L!Next
<1>13. CASE index # from
  <2> DEFINE b == Behind(ids, index)
             a == Ahead(ids, index)
             k == After(index, from)
             out == <<x, Behind(r, k), Ahead(r, k)>>
             before == {<<y[1], y[2], a>> : y \in L!WithoutOne(b)}
                       \union {<<y[1], b, y[2]>> : y \in L!WithoutOne(a)}
             after == {<<y[1], y[2], a'>> : y \in L!WithoutOne(b')}
                      \union {<<y[1], b', y[2]>> : y \in L!WithoutOne(a')}
  <2>1. b' = Behind(w, m) /\ a' = Ahead(w, m)
    BY <1>10 DEF Behind, Ahead
  <2>2. ASSUME NEW l \in Seq(Tracks), NEW i \in 1..Len(l)
        PROVE  <<l[i], RemoveAt(l, i)>> \in L!WithoutOne(l)
    BY LenProperties DEF L!WithoutOne, RemoveAt, L!RemoveAt
  <2>3. /\ b \in Seq(Tracks) /\ a \in Seq(Tracks)
        /\ Behind(w, m) \in Seq(Tracks) /\ Ahead(w, m) \in Seq(Tracks)
    BY <1>0, <1>4, <1>6, PartsEntries
  <2>4. out \in before
    <3>1. CASE from < index
      <4>1. <<x, Behind(r, k)>> \in L!WithoutOne(b) /\ Ahead(r, k) = a
        BY <1>7, <1>13, <2>2, <2>3, <3>1
      <4> HIDE DEF b, a, k
      <4> QED
        BY <4>1
    <3>2. CASE from > index
      <4>1. <<x, Ahead(r, k)>> \in L!WithoutOne(a) /\ Behind(r, k) = b
        BY <1>7, <1>13, <2>2, <2>3, <3>2
      <4> HIDE DEF b, a, k
      <4> QED
        BY <4>1
    <3> QED
      BY <1>0, <1>13, <3>1, <3>2
  <2>5. out \in after
    <3>1. CASE to < m
      <4>1. <<x, Behind(r, k)>> \in L!WithoutOne(Behind(w, m)) /\ Ahead(r, k) = Ahead(w, m)
        BY <1>7, <1>13, <2>2, <2>3, <3>1
      <4> QED
        BY <2>1, <4>1
    <3>2. CASE to > m
      <4>1. <<x, Ahead(r, k)>> \in L!WithoutOne(Ahead(w, m)) /\ Behind(r, k) = Behind(w, m)
        BY <1>7, <1>13, <2>2, <2>3, <3>2
      <4> QED
        BY <2>1, <4>1
    <3> QED
      BY <1>0, <1>6, <1>13, <3>1, <3>2
  <2>6. before \intersect after # {}
    BY <2>4, <2>5
  <2>7. L!MoveAround
    BY <1>10, <1>11, <2>6 DEF L!MoveAround, Behind, Ahead
  <2> QED
    BY <1>10, <2>7 DEF Good, L!Next
<1> QED
  BY <1>12, <1>13

(* A look-up that returns changes no id.                                    *)
LEMMA HydratedStep ==
  ASSUME QueueInv, NEW id \in Tracks, Hydrated(id)
  PROVE  Good
<1> DEFINE q == [i \in DOMAIN queue |-> IF queue[i].id = id THEN [queue[i] EXCEPT !.rich = TRUE]
                                                            ELSE queue[i]]
<1>0. /\ queue \in Seq(Entries) /\ Len(queue) \in Nat /\ Len(queue) <= MaxQueue
      /\ DOMAIN queue = 1..Len(queue) /\ (queue = <<>>) = (Len(queue) = 0)
      /\ \A i \in 1..Len(queue) : queue[i] \in Entries
  BY QueueFacts
<1>1. queue' = q /\ hydrating' = hydrating \ {id} /\ UNCHANGED <<index, asked, playing, repeatOne, did>>
  BY DEF Hydrated
<1>2. ASSUME NEW i \in 1..Len(queue)
      PROVE  q[i] \in Entries /\ q[i].id = queue[i].id
  BY <1>0 DEF Entries
<1>3. q = [i \in 1..Len(queue) |-> q[i]]
  BY <1>0
<1> HIDE DEF q
<1>4. q \in [1..Len(queue) -> Entries]
  BY <1>2, <1>3
<1>5. q \in Seq(Entries)
  BY <1>0, <1>4, SeqDef
<1>6. Len(q) = Len(queue) /\ DOMAIN q = 1..Len(queue)
  BY <1>0, <1>4, <1>5, LenProperties
<1>7. (q = <<>>) = (queue = <<>>)
  BY <1>0, <1>5, <1>6, EmptySeq
<1>8. ids' = ids
  <2>1. ids' = [i \in 1..Len(queue) |-> q[i].id]
    BY <1>1, <1>6 DEF ids
  <2>2. ids = [i \in 1..Len(queue) |-> queue[i].id]
    BY <1>0 DEF ids
  <2> QED
    BY <1>2, <2>1, <2>2
<1>9. QueueTypeOK'
  <2>1. hydrating' \subseteq Tracks
    BY <1>1 DEF QueueInv, QueueTypeOK
  <2>2. queue' \in Seq(Entries) /\ Len(queue') <= MaxQueue
    BY <1>0, <1>1, <1>5, <1>6
  <2> QED
    BY <1>1, <2>1, <2>2 DEF QueueInv, QueueTypeOK
<1>10. Len(queue') = Len(queue) /\ (queue' = <<>>) = (queue = <<>>)
  BY <1>1, <1>6, <1>7
<1> QED
  BY <1>1, <1>8, <1>9, <1>10, StutterStep

(* The bar's buttons that move nothing.                                     *)
LEMMA ButtonStep ==
  ASSUME QueueInv, ToggleRepeat \/ TogglePlay
  PROVE  Good
<1>1. UNCHANGED <<queue, index, did>>
  BY DEF ToggleRepeat, TogglePlay
<1>2. ids' = ids
  BY <1>1 DEF ids
<1>3. QueueTypeOK'
  BY <1>1 DEF QueueInv, QueueTypeOK, ToggleRepeat, TogglePlay
<1> QED
  BY <1>1, <1>2, <1>3, StutterStep

(* playQueue, from a place that may lie past the end of the list.           *)
LEMMA PlayQueueStep ==
  ASSUME ListsFit, QueueInv, NEW list \in Seq(Entries), Len(list) <= MaxQueue,
         NEW start \in 1..MaxQueue, PlayQueue(list, start)
  PROVE  Good
<1> DEFINE i == Lesser(start, Len(list))
<1>1. list # <<>> /\ Rendered("load", list, i, TRUE) /\ Len(list) \in Nat /\ MaxQueue \in Nat
  BY LenProperties DEF PlayQueue, ListsFit
<1>2. Len(list) # 0
  BY <1>1, EmptySeq
<1>3. i \in 1..Len(list)
  BY <1>1, <1>2 DEF Lesser
<1> HIDE DEF i
<1>4. i \in 0..Len(list) /\ i # 0
  BY <1>1, <1>3
<1> QED
  BY <1>1, <1>4, LoadStep

(* playNext and addToQueue.                                                 *)
LEMMA EnqueueStep ==
  ASSUME ListsFit, QueueInv, NEW t \in Entries, PlayNext(t) \/ AddToQueue(t)
  PROVE  Good
<1>1. PICK p \in {index + 1, Len(queue) + 1} : Enqueue(t, p)
  BY DEF PlayNext, AddToQueue
<1>2. CASE queue = <<>>
  BY <1>1, <1>2, LoneStep DEF Enqueue
<1>3. CASE queue # <<>>
  BY <1>1, <1>3, InsertStep DEF Enqueue
<1> QED
  BY <1>2, <1>3

(* A row of the queue: it plays, goes, or moves.                            *)
LEMMA RowStep ==
  ASSUME ListsFit, QueueInv, NEW i, Row(i)
  PROVE  Good
<1>1. CASE JumpTo(i)
  <2>1. i \in 1..Len(queue) /\ Rendered("skip", queue, i, TRUE)
    BY <1>1, QueueFacts DEF JumpTo
  <2> QED
    BY <2>1, SkipStep
<1>2. CASE RemoveTrack(i)
  <2>1. i \in DOMAIN queue
    BY <1>2 DEF RemoveTrack
  <2>2. CASE i = index
    BY <1>2, <2>1, <2>2, DropCurrentStep
  <2>3. CASE i # index
    BY <1>2, <2>1, <2>3, DropAroundStep
  <2> QED
    BY <2>2, <2>3
<1>3. CASE \E j \in 1..MaxQueue : MoveTrack(i, j)
  BY <1>3, MoveStep
<1> QED
  BY <1>1, <1>2, <1>3 DEF Row

(* Whatever screen it comes from, a step is good.                           *)
LEMMA QueueStep ==
  ASSUME ListsFit, QueueInv, Next
  PROVE  Good
<1>0. MaxQueue \in Nat /\ 1 \in 1..MaxQueue
  BY DEF ListsFit
<1>1. CASE Controller
  <2>1. PICK t \in Entries :
          \/ IF t.id \in Current(queue, index) THEN TogglePlay ELSE PlayQueue(<<t>>, 1)
          \/ (\A i \in DOMAIN queue : queue[i].id # t.id) /\ PlayNext(t)
    BY <1>1 DEF Controller
  <2>2. CASE TogglePlay
    BY <2>2, ButtonStep
  <2>3. CASE PlayQueue(<<t>>, 1)
    <3>1. <<t>> \in Seq(Entries) /\ Len(<<t>>) <= MaxQueue
      BY <1>0
    <3> DEFINE l == <<t>>
    <3> HIDE DEF l
    <3>2. l \in Seq(Entries) /\ Len(l) <= MaxQueue /\ PlayQueue(l, 1)
      BY <2>3, <3>1 DEF l
    <3> QED
      BY <1>0, <3>2, PlayQueueStep
  <2>4. CASE PlayNext(t)
    BY <2>4, EnqueueStep
  <2> QED
    BY <2>1, <2>2, <2>3, <2>4
<1>2. CASE Play
  <2>1. CASE \E list \in Lists : \E i \in 1..MaxQueue : PlayQueue(list, i)
    <3>1. PICK list \in Lists, i \in 1..MaxQueue : PlayQueue(list, i)
      BY <2>1
    <3>2. list \in Seq(Entries) /\ Len(list) <= MaxQueue
      BY DEF ListsFit
    <3> QED
      BY <3>1, <3>2, PlayQueueStep
  <2>2. CASE NextTrack
    BY <2>2, NextStep
  <2>3. CASE Prev
    <3>1. index > 1 /\ Rendered("skip", queue, index - 1, TRUE)
      BY <2>3 DEF Prev
    <3>2. index - 1 \in 1..Len(queue)
      BY <3>1, QueueFacts
    <3> QED
      BY <3>1, <3>2, SkipStep
  <2>4. CASE Ended
    BY <2>4, NextStep DEF Ended
  <2>5. CASE ToggleRepeat \/ TogglePlay
    BY <2>5, ButtonStep
  <2> QED
    BY <1>2, <2>1, <2>2, <2>3, <2>4, <2>5 DEF Play
<1>3. CASE Edit
  <2>1. CASE \E t \in Entries : PlayNext(t) \/ AddToQueue(t)
    BY <2>1, EnqueueStep
  <2>2. CASE \E i \in 1..MaxQueue : Row(i)
    BY <2>2, RowStep
  <2>3. CASE Clear
    <3> DEFINE q == <<>>
               i == 0
    <3>1. q \in Seq(Entries) /\ Len(q) <= MaxQueue /\ i \in 0..Len(q) /\ i = 0 /\ q = <<>>
      BY <1>0
    <3>2. Rendered("load", q, i, asked) /\ asked \in BOOLEAN
      BY <2>3 DEF Clear, QueueInv, QueueTypeOK
    <3> HIDE DEF q, i
    <3> QED
      BY <3>1, <3>2, LoadStep
  <2>4. CASE \E id \in Tracks : Hydrated(id)
    BY <2>4, HydratedStep
  <2> QED
    BY <1>3, <2>1, <2>2, <2>3, <2>4 DEF Edit
<1> QED
  BY <1>1, <1>2, <1>3 DEF Next

-----------------------------------------------------------------------------
(* The theorems                                                             *)

(* An empty queue is in order, and an empty playlist.                       *)
LEMMA QueueInit ==
  ASSUME ListsFit, Init
  PROVE  QueueInv /\ L!Init
<1>1. QueueInv
  <2>1. queue = <<>> /\ index = 0 /\ queue \in Seq(Entries) /\ Len(queue) = 0 /\ MaxQueue \in Nat
    BY DEF Init, ListsFit
  <2>2. index = 0 /\ queue = <<>> => (index = 0) = (queue = <<>>)
    OBVIOUS
  <2>3. QueueTypeOK
    <3>1. Len(queue) <= MaxQueue /\ index \in 0..MaxQueue
      BY <2>1
    <3>2. /\ asked = FALSE /\ playing = FALSE /\ repeatOne = FALSE
          /\ hydrating \subseteq Tracks /\ did = "none"
      BY DEF Init
    <3> QED
      BY <2>1, <3>1, <3>2 DEF QueueTypeOK
  <2>4. IndexPoints
    BY <2>1, <2>2 DEF IndexPoints
  <2> QED
    BY <2>3, <2>4 DEF QueueInv
<1>2. IdsOf(<<>>) = <<>>
  BY DEF IdsOf
<1>3. ids = <<>>
  BY <1>2 DEF Init, ids, IdsOf
<1>4. SubSeq(ids, 1, index - 1) = <<>> /\ SubSeq(ids, index + 1, Len(ids)) = <<>>
  BY <1>3, SubSeqProperties, EmptySeq DEF Init
<1> QED
  BY <1>1, <1>4 DEF Init, L!Init

(* A step that changes nothing of the queue changes nothing of the list.    *)
LEMMA QueueIdle ==
  ASSUME QueueInv, UNCHANGED qVars
  PROVE  Good
<1>1. QueueTypeOK' /\ queue' = queue /\ UNCHANGED <<index, did>>
  BY DEF qVars, QueueInv, QueueTypeOK
<1>2. ids' = ids
  BY <1>1 DEF ids
<1> QED
  BY <1>1, <1>2, StutterStep

(* The index points into the queue and something is current exactly when    *)
(* something is queued, whatever the order of removals, moves and lists.    *)
THEOREM QueueIndex ==
  ASSUME ListsFit
  PROVE  Spec => [](QueueTypeOK /\ IndexPoints)
<1>1. Init => QueueInv
  BY QueueInit
<1>2. QueueInv /\ [Next]_qVars => QueueInv'
  BY QueueStep, QueueIdle DEF Good
<1>3. QueueInv => QueueTypeOK /\ IndexPoints
  BY DEF QueueInv
<1> QED
  BY <1>1, <1>2, <1>3, PTL DEF Spec

(* Whatever makes another track the current one also starts it: the next of *)
(* a removed one, a row, the neighbour, a list.                             *)
THEOREM NewTrackStarts ==
  ASSUME ListsFit
  PROVE  Spec => NewTrackPlays
<1>1. Init => QueueInv
  BY QueueInit
<1>2. QueueInv /\ [Next]_qVars => QueueInv' /\ [StartsTheNewTrack]_qVars
  BY QueueStep, QueueIdle DEF Good
<1> QED
  BY <1>1, <1>2, PTL DEF Spec, NewTrackPlays

(* The queue and its index implement the list that cannot lose its place:   *)
(* no removal, move or insertion changes what plays behind the user's back. *)
THEOREM QueueImplementsPlaylist ==
  ASSUME ListsFit
  PROVE  Spec => KeepsItsPlace
<1>1. Init => QueueInv /\ L!Init
  BY QueueInit
<1>2. QueueInv /\ [Next]_qVars => QueueInv' /\ [L!Next]_(L!vars)
  BY QueueStep, QueueIdle DEF Good
<1> QED
  BY <1>1, <1>2, PTL DEF Spec, KeepsItsPlace, L!Spec
=============================================================================
