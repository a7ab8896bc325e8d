------------------------------ MODULE Playlist ------------------------------
(***************************************************************************)
(* What the play queue of the global audio player promises, with no index   *)
(* to get wrong: what was played, what is playing, what comes next. Editing *)
(* the list never touches what is playing; only asking for another track,   *)
(* or removing or closing this one, does.                                   *)
(***************************************************************************)
EXTENDS Integers, Sequences, SequencesExt

CONSTANTS Tracks, MaxQueue

VARIABLES
  behind, now, ahead,   \* now: a sequence of one track, or of none
  did                   \* the kind of operation that came last

vars == <<behind, now, ahead, did>>

list == behind \o now \o ahead

(* The list cut so that the entry at position i plays; 0 for no entry.      *)
Cut(l, i) ==
  /\ behind' = SubSeq(l, 1, i - 1)
  /\ now' = IF i = 0 THEN <<>> ELSE <<l[i]>>
  /\ ahead' = SubSeq(l, i + 1, Len(l))

Init == behind = <<>> /\ now = <<>> /\ ahead = <<>> /\ did = "none"

(* Play another list, from some place, or none at all.                      *)
Load == /\ did' = "load"
        /\ \E l \in BoundedSeq(Tracks, MaxQueue) :
             \E i \in DOMAIN l \union {0} : (i = 0) = (l = <<>>) /\ Cut(l, i)

(* Play another entry of the same list.                                     *)
Skip == /\ did' = "skip"
        /\ \E i \in DOMAIN list : Cut(list, i)

(* Put a track next or last, behind the one that is playing.                *)
Insert == /\ did' = "insert"
          /\ now # <<>>
          /\ UNCHANGED <<behind, now>>
          /\ \E t \in Tracks : ahead' = <<t>> \o ahead \/ ahead' = Append(ahead, t)

(* Take one out: around the track that is playing, or that one, and then    *)
(* the next one plays, at the end of the list the one before it.            *)
DropAround == /\ did' = "drop"
              /\ UNCHANGED now
              /\ \/ /\ \E i \in DOMAIN behind : behind' = RemoveAt(behind, i)
                    /\ UNCHANGED ahead
                 \/ /\ \E i \in DOMAIN ahead : ahead' = RemoveAt(ahead, i)
                    /\ UNCHANGED behind

DropCurrent == /\ did' = "drop"
               /\ now # <<>>
               /\ LET l == behind \o ahead
                      at == Len(behind) + 1
                  IN Cut(l, IF at > Len(l) THEN Len(l) ELSE at)

(* Put one elsewhere: another track keeps the one that is playing and the   *)
(* order of the rest; the one that is playing goes on among the others.     *)
WithoutOne(l) == {<<l[i], RemoveAt(l, i)>> : i \in DOMAIN l}

MoveAround ==
  LET before == {<<x[1], x[2], ahead>> : x \in WithoutOne(behind)}
                \union {<<x[1], behind, x[2]>> : x \in WithoutOne(ahead)}
      after == {<<x[1], x[2], ahead'>> : x \in WithoutOne(behind')}
               \union {<<x[1], behind', x[2]>> : x \in WithoutOne(ahead')}
  IN did' = "move" /\ UNCHANGED now /\ before \intersect after # {}

MoveCurrent == /\ did' = "move"
               /\ UNCHANGED now
               /\ behind' \o ahead' = behind \o ahead

Next == Load \/ Skip \/ Insert \/ DropAround \/ DropCurrent \/ MoveAround \/ MoveCurrent

Spec == Init /\ [][Next]_vars
=============================================================================
