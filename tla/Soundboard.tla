----------------------------- MODULE Soundboard -----------------------------
(***************************************************************************)
(* The soundboard: pads with an audio element each, the set of pads shown   *)
(* as playing, which is filled by the promise of play() and emptied by the  *)
(* element's events, and the shelf of saved boards that replace the live    *)
(* one. What an element reports arrives later, in the order it happened.    *)
(***************************************************************************)
EXTENDS Integers, Sequences, SequencesExt, FiniteSets

CONSTANTS
  Sounds,     \* the audio files that may be pads
  Boards,     \* the saved boards, each a sequence of sounds
  MaxReports  \* bound: reports of one element that are on their way

VARIABLES
  pads,       \* the board, in order
  loop,       \* the pads that loop
  registered, \* elements.current
  sounding,   \* the elements that play
  reports,    \* what each element has still to report: "on" or "off"
  marked,     \* playingIds
  loading     \* the saved boards being fetched

sVars == <<pads, loop, registered, sounding, reports, marked, loading>>

SoundboardTypeOK ==
  /\ pads \in Seq(Sounds) /\ IsInjective(pads)
  /\ loop \subseteq Sounds
  /\ registered \subseteq Sounds /\ sounding \subseteq Sounds /\ marked \subseteq Sounds
  /\ reports \in [Sounds -> Seq({"on", "off"})]
  /\ loading \subseteq Boards

Init ==
  /\ pads = <<>> /\ loop = {}
  /\ registered = {} /\ sounding = {} /\ marked = {}
  /\ reports = [s \in Sounds |-> <<>>]
  /\ loading = {}

Room(S) == \A s \in S : Len(reports[s]) < MaxReports

(* Elements S are paused and rewound; those that were playing report it.    *)
Silence(S) ==
  /\ Room(S)
  /\ sounding' = sounding \ S
  /\ reports' = [s \in Sounds |-> IF s \in S \intersect sounding
                                    THEN Append(reports[s], "off") ELSE reports[s]]

-----------------------------------------------------------------------------
(* Tapping                                                                  *)

(* trigger: a pad always makes its noise, from the top. play() may be       *)
(* refused.                                                                 *)
Trigger(s) ==
  /\ Room({s})
  /\ registered' = registered \union {s}
  /\ \/ sounding' = sounding \union {s} /\ reports' = [reports EXCEPT ![s] = Append(@, "on")]
     \/ sounding' = sounding \ {s} /\ reports' = [reports EXCEPT ![s] = Append(@, "off")]
  /\ UNCHANGED <<pads, loop, marked, loading>>

Stop(s) ==
  /\ Silence({s} \intersect registered)
  /\ marked' = marked \ {s}
  /\ UNCHANGED <<pads, loop, registered, loading>>

(* toggle: a looping pad shown as playing stops, any other one fires.       *)
Toggle(s) ==
  /\ s \in ToSet(pads)
  /\ IF s \in loop \intersect marked THEN Stop(s) ELSE Trigger(s)

StopAll ==
  /\ Silence(registered)
  /\ marked' = {}
  /\ UNCHANGED <<pads, loop, registered, loading>>

(* A sound that does not loop comes to its end.                             *)
Ends(s) ==
  /\ s \in sounding \ loop /\ Room({s})
  /\ sounding' = sounding \ {s}
  /\ reports' = [reports EXCEPT ![s] = Append(@, "off")]
  /\ UNCHANGED <<pads, loop, registered, marked, loading>>

(* Deviation: only the promise of play() marks, no event unmarks.           *)
ReportsOnlyPlaying(s) ==
  /\ reports[s] # <<>>
  /\ marked' = IF Head(reports[s]) = "on" THEN marked \union {s} ELSE marked
  /\ reports' = [reports EXCEPT ![s] = Tail(@)]
  /\ UNCHANGED <<pads, loop, registered, sounding, loading>>

Reports(s) ==
  /\ reports[s] # <<>>
  /\ marked' = IF Head(reports[s]) = "on" THEN marked \union {s} ELSE marked \ {s}
  /\ reports' = [reports EXCEPT ![s] = Tail(@)]
  /\ UNCHANGED <<pads, loop, registered, sounding, loading>>

-----------------------------------------------------------------------------
(* Editing                                                                  *)

AddPads(S) ==
  /\ ~ S \subseteq ToSet(pads)
  /\ pads' = pads \o SetToSeq(S \ ToSet(pads))
  /\ loop' = loop \ (S \ ToSet(pads))
  /\ UNCHANGED <<registered, sounding, reports, marked, loading>>

RemovePad(s) ==
  /\ s \in ToSet(pads)
  /\ Silence({s} \intersect registered)
  /\ marked' = marked \ {s}
  /\ registered' = registered \ {s}
  /\ \E i \in DOMAIN pads : pads[i] = s /\ pads' = RemoveAt(pads, i)
  /\ UNCHANGED <<loop, loading>>

SetPadLoop(s) ==
  /\ s \in ToSet(pads)
  /\ loop' = (loop \ {s}) \union ({s} \ loop)
  /\ UNCHANGED <<pads, registered, sounding, reports, marked, loading>>

MovePad(from, to) ==
  /\ {from, to} \subseteq DOMAIN pads /\ from # to
  /\ pads' = InsertAt(RemoveAt(pads, from), to, pads[from])
  /\ UNCHANGED <<loop, registered, sounding, reports, marked, loading>>

(* Deviation: the elements are forgotten before they are stopped.           *)
ReplaceSilently(board) ==
  /\ registered' = {}
  /\ marked' = {}
  /\ pads' = board
  /\ UNCHANGED <<sounding, reports>>

(* clearPads and replacePads: everything stops, the elements are forgotten. *)
Replace(board) ==
  /\ Silence(registered)
  /\ registered' = {}
  /\ marked' = {}
  /\ pads' = board

ClearPads == pads # <<>> /\ Replace(<<>>) /\ UNCHANGED <<loop, loading>>

(* The shelf: a board is asked for, after a confirmation if pads are there, *)
(* and replaces the live one when it arrives. A failed request changes      *)
(* nothing.                                                                 *)
RequestLoad(b) ==
  /\ b \notin loading
  /\ loading' = loading \union {b}
  /\ UNCHANGED <<pads, loop, registered, sounding, reports, marked>>

LoadArrives(b) ==
  /\ b \in loading
  /\ loading' = loading \ {b}
  /\ \/ Replace(b) /\ loop' \in SUBSET ToSet(b)
     \/ UNCHANGED <<pads, loop, registered, sounding, reports, marked>>

(* A logout: the provider unmounts, no sound goes on behind it, and a new   *)
(* one starts from the stored pads.                                         *)
Unmount ==
  /\ sounding' = sounding \ registered
  /\ registered' = {} /\ marked' = {} /\ loading' = {}
  /\ reports' = [s \in Sounds |-> <<>>]
  /\ UNCHANGED <<pads, loop>>

-----------------------------------------------------------------------------

(* A pad of the panel, tapped, or moved and removed in the edit mode.       *)
Pad(s) == Toggle(s) \/ RemovePad(s) \/ SetPadLoop(s)
Panel == \/ \E s \in Sounds : Pad(s)
         \/ \E i, j \in 1..Cardinality(Sounds) : MovePad(i, j)
         \/ StopAll \/ ClearPads

Shelf == \E b \in Boards : RequestLoad(b) \/ LoadArrives(b)

Next == Panel \/ Shelf \/ Unmount
        \/ \E S \in SUBSET Sounds : AddPads(S)
        \/ \E s \in Sounds : Ends(s) \/ Reports(s)

Spec == Init /\ [][Next]_sVars

-----------------------------------------------------------------------------
(* Properties                                                               *)

(* Whatever is removed, replaced or unmounted while play() is still being   *)
(* answered, a sound that is heard has an element the board can still stop, *)
(* and it belongs to a pad.                                                 *)
SoundReachable == sounding \subseteq registered /\ registered \subseteq ToSet(pads)

(* Once an element has reported, the pads shown as playing are those heard. *)
SoundShown == \A s \in Sounds : reports[s] = <<>> => (s \in marked <=> s \in sounding)

(* Why they hold: what is on its way of an element ends with how it is now. *)
LastReport ==
  \A s \in Sounds : reports[s] # <<>> =>
    (reports[s][Len(reports[s])] = "on" <=> s \in sounding)
=============================================================================
